---------------------------- MODULE VSphereClient ----------------------------
(***************************************************************************)
(* The single vSphereClient of the program (pkg/vsphere_api/client.go) and *)
(* the sessions the server keeps for it.  The client holds two sub-clients:*)
(* a vim25.Client that NewClient replaces by a bare one and a login fills, *)
(* and an ssoadmin.Client that Login2SSOMgmt sets and nothing ever resets. *)
(* A sub-client is modelled by the session it carries.                     *)
(*                                                                         *)
(* This module has the state and the operations; the order in which the    *)
(* program calls them is in module Shell.  The data context is left to the *)
(* modules that read it.  A login that fails is taken to leave no session  *)
(* on the server.                                                          *)
(***************************************************************************)
CONSTANTS
  Session,  \* identities the server can give a login (bounds their number)
  NilPtr,   \* a nil pointer to a sub-client
  Bare,     \* the vim25.Client of NewClient, every field of it nil
  Anon      \* an ssoadmin.Client whose login has not succeeded

ASSUME PointersAssumption ==
  /\ {NilPtr, Bare, Anon} \cap Session = {}
  /\ Bare # NilPtr
  /\ Anon # NilPtr

VARIABLES
  soap,       \* vmwSoapClient
  sso,        \* ssoClient
  loggedIn,   \* curSessLoggedIn
  postInit,   \* postInitDone
  serverIsVC, \* serverIsVC
  logoutErr,  \* the named result err of Logout, # nil
  live,       \* vim sessions open on the server
  ssoLive,    \* SSO sessions open on the server
  issued,     \* sessions the server has given out so far
  refused     \* vim sessions whose logout call returned an error

flagVars   == <<loggedIn, postInit, serverIsVC, logoutErr>>
serverVars == <<live, ssoLive, issued, refused>>
clientVars == <<soap, sso, flagVars, serverVars>>

ClientTypeOK ==
  /\ soap \in Session \cup {NilPtr, Bare}
  /\ sso \in Session \cup {NilPtr, Anon}
  /\ loggedIn \in BOOLEAN /\ postInit \in BOOLEAN
  /\ serverIsVC \in BOOLEAN /\ logoutErr \in BOOLEAN
  /\ live \subseteq Session /\ ssoLive \subseteq Session
  /\ issued \subseteq Session /\ refused \subseteq Session

ClientInit ==
  /\ soap = NilPtr /\ sso = NilPtr
  /\ loggedIn = FALSE /\ postInit = FALSE /\ serverIsVC = FALSE /\ logoutErr = FALSE
  /\ live = {} /\ ssoLive = {} /\ issued = {} /\ refused = {}

-----------------------------------------------------------------------------

IsVCenter == loggedIn /\ postInit /\ serverIsVC

\* A new vim25.Client, not usable before a login.  The flags and the SSO
\* client keep the values of the previous session.
NewClient ==
  /\ soap' = Bare
  /\ UNCHANGED <<sso, flagVars, serverVars>>

\* LoginViaPassword, and the postLoginSuccessInit it ends with.
LoginSucceeds ==
  /\ \E s \in Session \ issued :
       /\ soap' = s
       /\ live' = live \cup {s}
       /\ issued' = issued \cup {s}
  /\ loggedIn' = TRUE
  /\ postInit' = TRUE
  /\ UNCHANGED <<sso, serverIsVC, logoutErr, ssoLive, refused>>

ShowAPIVersion ==
  /\ loggedIn /\ postInit
  /\ serverIsVC' \in BOOLEAN
  /\ UNCHANGED <<soap, sso, loggedIn, postInit, logoutErr, serverVars>>

\* First half of Logout: the flag falls before the call.  When the call
\* returns an error the server may or may not have closed the session.
LogoutVim ==
  /\ loggedIn' = FALSE
  /\ \/ /\ live' = live \ {soap}
        /\ logoutErr' = FALSE
        /\ UNCHANGED refused
     \/ /\ live' \in {live, live \ {soap}}
        /\ logoutErr' = TRUE
        /\ refused' = refused \cup {soap}
  /\ UNCHANGED <<soap, sso, postInit, serverIsVC, ssoLive, issued>>

\* Second half of Logout: its error replaces that of the first half.
LogoutSso ==
  /\ \/ /\ sso = NilPtr
        /\ UNCHANGED <<ssoLive, logoutErr>>
     \/ /\ sso # NilPtr
        /\ \/ ssoLive' = ssoLive \ {sso} /\ logoutErr' = FALSE
           \/ ssoLive' \in {ssoLive, ssoLive \ {sso}} /\ logoutErr' = TRUE
  /\ UNCHANGED <<soap, sso, loggedIn, postInit, serverIsVC, live, issued, refused>>

\* ssoadmin.NewClient fails, or a later step up to the login does, or none.
Login2SSOMgmt ==
  /\ \/ sso' \in {NilPtr, Anon} /\ UNCHANGED <<ssoLive, issued>>
     \/ \E s \in Session \ issued :
          /\ sso' = s
          /\ ssoLive' = ssoLive \cup {s}
          /\ issued' = issued \cup {s}
  /\ UNCHANGED <<soap, flagVars, live, refused>>

\* The server drops an idle session; the client is not told.
Expire ==
  /\ \/ \E s \in live : live' = live \ {s} /\ UNCHANGED ssoLive
     \/ \E s \in ssoLive : ssoLive' = ssoLive \ {s} /\ UNCHANGED live
  /\ UNCHANGED <<soap, sso, flagVars, issued, refused>>

=============================================================================
