--------------------------- MODULE SelectionProofs ---------------------------
(***************************************************************************)
(* What a command of Selection works on is what the user chose from the    *)
(* command's own listing, for any hosts, datacenters and sessions.  The    *)
(* commands implement Shell, keep what it says of sessions, and are        *)
(* bounded.                                                                *)
(***************************************************************************)
EXTENDS Selection, ListerProofs

\* Before its listing a command has nothing.
Empty ==
  pc \notin {"elements", "listed", "ask", "work"} => found = {} /\ elems = <<>> /\ seen = {}

\* From the end of the listing on, the data context has the list under the
\* key of the command, and the options are a first part of it.
Shown ==
  /\ options \in Seq(Object)
  /\ pc \in {"listed", "ask", "work"} =>
       /\ Key \in DOMAIN ctx
       /\ ctx[Key] = elems
       /\ Len(options) <= Len(elems)
       /\ \A i \in 1..Len(options) : options[i] = elems[i]
  /\ pc \in {"ask", "work"} => Len(options) = Len(elems)
  /\ pc \notin {"listed", "ask", "work"} => options = <<>>

\* An answer exists only while the command works, and is a selection of the
\* list.
Chosen ==
  /\ pc # "work" => picked = {} /\ targets = <<>>
  /\ Range(targets) = picked
  /\ IsInjective(targets)
  /\ picked \subseteq Range(elems)

Inv == Listed /\ Empty /\ Shown /\ Chosen /\ ViewDestroyed

LEMMA InitInv == Init => Inv
  BY EmptySequence DEF Init, ListerInit, Inv, Listed, Empty, Shown, Chosen, ViewDestroyed

\* A command that is over leaves nothing behind.
LEMMA EndKeepsInv ==
  ASSUME options' = <<>>, picked' = {}, targets' = <<>>, pc' = "prompt",
         found' = {}, elems' = <<>>, seen' = {}, view' # "open"
  PROVE  Inv'
  BY EmptySequence DEF Inv, Listed, Empty, Shown, Chosen, ViewDestroyed

LEMMA ListKeepsInv == Inv /\ ListStep => Inv'
<1> SUFFICES ASSUME Inv, ListStep
             PROVE  Inv'
    OBVIOUS
<1> USE DEF Go, askVars
<1>1. UNCHANGED <<options, picked, targets>>
  BY DEF ListStep
<1>2. CASE ListRefused
  BY <1>1, <1>2, EndKeepsInv DEF ListRefused, EndCommand, Inv, Shown, Chosen, ViewDestroyed
<1>3. CASE CreateContainerView
  BY <1>1, <1>3 DEF CreateContainerView, Inv, Listed, Empty, Shown, Chosen, ViewDestroyed
<1>4. CASE FindFails
  BY <1>1, <1>4, EndKeepsInv DEF FindFails, EndCommand, DestroyView, Inv, Shown, Chosen
<1>5. CASE Find
  BY <1>1, <1>5, EmptySequence
     DEF Find, Kind, Object, Inv, Listed, Empty, Shown, Chosen, ViewDestroyed
<1>6. ASSUME NEW o \in Object, Element(o)
      PROVE  Inv'
  <2>1. o \notin Range(elems) /\ elems' = Append(elems, o) /\ found' = found \ {o} /\ o \in seen
    BY <1>6 DEF Element, Inv, Listed
  <2>2. Listed'
    BY ListingKeepsListed DEF ListStep, Inv, Empty, Begins
  <2>3. Empty' /\ Shown' /\ Chosen' /\ ViewDestroyed'
    BY <1>1, <1>6, <2>1, EmptySequence DEF Element, Inv, Empty, Shown, Chosen, ViewDestroyed
  <2> QED BY <2>2, <2>3 DEF Inv
<1>7. ASSUME NEW o \in Object, ElementFails(o)
      PROVE  Inv'
  BY <1>1, <1>7 DEF ElementFails, Inv, Listed, Empty, Shown, Chosen, ViewDestroyed
<1>8. CASE SetCtxData
  <2>1. Key' = Key /\ Key \in DOMAIN ctx' /\ ctx'[Key] = elems
    BY <1>8 DEF SetCtxData, WithList, Key
  <2>2. options = <<>> /\ picked = {} /\ targets = <<>>
    BY <1>8 DEF SetCtxData, Inv, Shown, Chosen
  <2>3. Shown'
    BY <1>1, <1>8, <2>1, <2>2 DEF SetCtxData, Inv, Listed, Shown
  <2>4. Listed' /\ Empty' /\ Chosen' /\ ViewDestroyed'
    BY <1>1, <1>8, <2>2
       DEF SetCtxData, DestroyView, Inv, Listed, Empty, Chosen, ViewDestroyed
  <2> QED BY <2>3, <2>4 DEF Inv
<1> QED BY <1>2, <1>3, <1>4, <1>5, <1>6, <1>7, <1>8 DEF ListStep, Listing

LEMMA PathKeepsInv == Inv /\ (ShowPath \/ PathFails \/ AskUser) => Inv'
<1> SUFFICES ASSUME Inv, ShowPath \/ PathFails \/ AskUser
             PROVE  Inv'
    OBVIOUS
<1> USE DEF Go, listVars, askVars
<1>1. CASE ShowPath
  <2> DEFINE o == elems[Len(options) + 1]
  <2>1. Key' = Key /\ List = elems
    BY <1>1 DEF ShowPath, Key, List, Inv, Shown
  <2>2. Len(options) \in Nat /\ Len(elems) \in Nat /\ Len(options) < Len(elems)
    BY <1>1, <2>1 DEF ShowPath, Inv, Listed, Shown
  <2>3. options' = Append(options, o)
    BY <1>1, <2>1 DEF ShowPath
  <2>4. o \in Object
    BY <2>2 DEF Inv, Listed
  <2>5. Shown'
    BY <1>1, <2>1, <2>2, <2>3, <2>4 DEF ShowPath, Inv, Shown
  <2>6. Listed' /\ Empty' /\ Chosen' /\ ViewDestroyed'
    BY <1>1 DEF ShowPath, Inv, Listed, Empty, Chosen, ViewDestroyed
  <2> QED BY <2>5, <2>6 DEF Inv
<1>2. CASE PathFails
  BY <1>2, EndKeepsInv DEF PathFails, EndCommand, Inv, Chosen, ViewDestroyed
<1>3. CASE AskUser
  <2>1. Key' = Key /\ List = elems
    BY <1>3 DEF AskUser, Key, List, Inv, Shown
  <2> QED BY <1>3, <2>1 DEF AskUser, Inv, Listed, Empty, Shown, Chosen, ViewDestroyed
<1> QED BY <1>1, <1>2, <1>3

LEMMA AnswerKeepsInv == Inv /\ (UserAnswers \/ AskInterrupted \/ WorkEnds) => Inv'
<1> SUFFICES ASSUME Inv, UserAnswers \/ AskInterrupted \/ WorkEnds
             PROVE  Inv'
    OBVIOUS
<1> USE DEF Go, listVars
<1>1. CASE UserAnswers
  <2>1. Key' = Key /\ List = elems /\ Len(options) = Len(elems)
    BY <1>1 DEF UserAnswers, Key, List, Inv, Shown
  <2>2. PICK indices \in SUBSET DOMAIN options :
          /\ picked' = {options[i] : i \in indices}
          /\ \E f \in Ascending(indices) : targets' = [n \in DOMAIN f |-> List[f[n]]]
    BY <1>1 DEF UserAnswers
  <2>3. PICK f \in Ascending(indices) : targets' = [n \in DOMAIN f |-> elems[f[n]]]
    BY <2>1, <2>2
  <2>4. /\ \A n \in DOMAIN f : f[n] \in indices
        /\ \A m, n \in DOMAIN f : f[m] = f[n] => m = n
        /\ \A i \in indices : \E n \in DOMAIN f : f[n] = i
    BY DEF Ascending, Bijection, Injection, Surjection, IsInjective
  <2>5. indices \subseteq DOMAIN elems /\ \A i \in indices : options[i] = elems[i]
    BY <1>1, <2>1, <2>2 DEF UserAnswers, Inv, Listed, Shown
  <2>6. DOMAIN targets' = DOMAIN f /\ \A n \in DOMAIN f : targets'[n] = elems[f[n]]
    BY <2>3
  <2>7. Range(targets') = picked' /\ picked' \subseteq Range(elems)
    BY <2>2, <2>4, <2>5, <2>6 DEF Range
  <2>8. IsInjective(targets')
    BY <2>4, <2>5, <2>6 DEF Inv, Listed, IsInjective
  <2>9. Chosen'
    BY <1>1, <2>7, <2>8 DEF UserAnswers, Chosen
  <2>10. Shown'
    BY <1>1, <2>1 DEF UserAnswers, Inv, Shown
  <2>11. Listed' /\ Empty' /\ ViewDestroyed'
    BY <1>1 DEF UserAnswers, Inv, Listed, Empty, ViewDestroyed
  <2> QED BY <2>9, <2>10, <2>11 DEF Inv
<1>2. CASE AskInterrupted
  BY <1>2, EndKeepsInv DEF AskInterrupted, EndCommand, Inv, Chosen, ViewDestroyed
<1>3. CASE WorkEnds
  BY <1>3, EndKeepsInv DEF WorkEnds, EndCommand, Inv, ViewDestroyed
<1> QED BY <1>1, <1>2, <1>3

\* At the prompt and in a reconnect there is no list to lose.
LEMMA ReconnectKeepsInv == Inv /\ (StartCommand \/ Reconnect \/ Environment) => Inv'
<1> SUFFICES ASSUME Inv, StartCommand \/ Reconnect \/ Environment
             PROVE  Inv'
    OBVIOUS
<1> USE DEF Go, listVars, askVars, Inv, Listed, Empty, Shown, Chosen, ViewDestroyed
<1>1. CASE StartCommand       BY <1>1 DEF StartCommand
<1>2. CASE ReconnectLogout    BY <1>2 DEF ReconnectLogout, othersUnchanged
<1>3. CASE ReconnectCheck     BY <1>3 DEF ReconnectCheck, othersUnchanged
<1>4. CASE ReconnectNewClient BY <1>4 DEF ReconnectNewClient, othersUnchanged
<1>5. CASE ReconnectLogin     BY <1>5 DEF ReconnectLogin, othersUnchanged
<1>6. CASE Environment        BY <1>6 DEF Environment, InventoryChanges, Key
<1> QED BY <1>1, <1>2, <1>3, <1>4, <1>5, <1>6 DEF Reconnect

\* Listing, options and answer fit together in every reachable state.
THEOREM Invariance == Spec => []Inv
<1>1. Inv /\ UNCHANGED vars => Inv'
  BY DEF vars, listVars, askVars, Inv, Listed, Empty, Shown, Chosen, ViewDestroyed, Key
<1>2. Inv /\ [Next]_vars => Inv'
  BY <1>1, ListKeepsInv, PathKeepsInv, AnswerKeepsInv, ReconnectKeepsInv
     DEF Next, CommandStep, Terminated
<1> QED BY InitInv, <1>2, PTL DEF Spec

\* A command offers and works on objects its own query found, each once,
\* whatever listings, failures and reconnects came before.
THEOREM TargetsAreFresh == Spec => []FreshTargets
<1>1. Inv => FreshTargets
  <2> SUFFICES ASSUME Inv
               PROVE  FreshTargets
      OBVIOUS
  <2>1. CASE pc \in {"listed", "ask", "work"}
    <3>1. /\ DOMAIN options = 1..Len(options) /\ DOMAIN elems = 1..Len(elems)
          /\ Len(options) \in Nat /\ Len(elems) \in Nat
      BY DEF Inv, Listed, Shown
    <3>2. /\ Len(options) <= Len(elems)
          /\ \A i \in 1..Len(options) : options[i] = elems[i]
      BY <2>1 DEF Inv, Shown
    <3>3. DOMAIN options \subseteq DOMAIN elems /\ \A i \in DOMAIN options : options[i] = elems[i]
      BY <3>1, <3>2
    <3>4. Range(options) \subseteq Range(elems) /\ IsInjective(options)
      BY <3>3 DEF Inv, Listed, Range, IsInjective
    <3> QED BY <3>4 DEF Inv, Listed, Chosen, FreshTargets
  <2>2. CASE pc \notin {"listed", "ask", "work"}
    BY <2>2, EmptySequence DEF Inv, Shown, Chosen, FreshTargets
  <2> QED BY <2>1, <2>2
<1> QED BY Invariance, <1>1, PTL

\* The objects a command works on are those whose paths the user chose.
THEOREM TargetsAreChosen == Spec => []ChosenIsTarget
<1>1. Inv => ChosenIsTarget
  BY DEF Inv, Chosen, ChosenIsTarget
<1> QED BY Invariance, <1>1, PTL

\* No container view is left behind unless the server refused to destroy it.
THEOREM ViewsDestroyed == Spec => []ViewDestroyed
<1>1. Inv => ViewDestroyed
  BY DEF Inv
<1> QED BY Invariance, <1>1, PTL

-----------------------------------------------------------------------------

\* Past CreateContainerView the client is logged in; cmd is never a command
\* that does not ask the user.
InCommand ==
  /\ pc \in {"find", "elements", "listed"} => loggedIn /\ postInit
  /\ cmd \in {"none", "vi_events", "support_bundle"}

\* Steps inside a listing, which Shell does not see.
Inside ==
  \/ CreateContainerView \/ Find \/ \E o \in Object : Element(o) \/ ElementFails(o)
  \/ SetCtxData

ListPhase == IF pc \in {"find", "elements", "listed"} THEN "list" ELSE pc

LEMMA InsideIsSilent ==
  Inside => /\ ListPhase = "list" /\ ListPhase' = "list"
            /\ UNCHANGED <<clientVars, cmd>>
            /\ (pc = "list" => loggedIn /\ postInit) /\ pc' # "list"
  BY DEF Inside, CreateContainerView, Find, Element, ElementFails, SetCtxData, Go, ListPhase

LEMMA InCommandInvariant == Spec => []InCommand
<1>1. Init => InCommand
  BY DEF Init, InCommand
<1>2. InCommand /\ [Next]_vars => InCommand'
  <2> SUFFICES ASSUME InCommand, [Next]_vars
               PROVE  InCommand'
      OBVIOUS
  <2> USE DEF InCommand, Go, EndCommand, listVars, askVars, clientVars, flagVars
  <2>1. CASE ListStep
    <3>1. CASE Inside
      BY <3>1, InsideIsSilent DEF ListPhase
    <3>2. CASE ListRefused \/ FindFails
      BY <3>2 DEF ListRefused, FindFails
    <3> QED BY <2>1, <3>1, <3>2 DEF ListStep, Listing, Inside
  <2>2. CASE ShowPath \/ PathFails \/ AskUser \/ AskInterrupted \/ UserAnswers \/ WorkEnds
    BY <2>2 DEF ShowPath, PathFails, AskUser, AskInterrupted, UserAnswers, WorkEnds
  <2>3. CASE StartCommand
    BY <2>3 DEF StartCommand
  <2>4. CASE ReconnectLogout \/ ReconnectCheck \/ ReconnectNewClient
    BY <2>4 DEF ReconnectLogout, ReconnectCheck, ReconnectNewClient, othersUnchanged
  <2>5. CASE ReconnectLogin
    BY <2>5 DEF ReconnectLogin, othersUnchanged
  <2>6. CASE Environment
    BY <2>6 DEF Environment, InventoryChanges, Expire
  <2>7. CASE UNCHANGED vars
    BY <2>7 DEF vars
  <2> QED BY <2>1, <2>2, <2>3, <2>4, <2>5, <2>6, <2>7
          DEF Next, CommandStep, Reconnect, Terminated
<1> QED BY <1>1, <1>2, PTL DEF Spec

\* Each step of a command is a step Shell takes, or none.
LEMMA CommandIsShellStep ==
  InCommand /\ Running /\ (StartCommand \/ CommandStep) => [S!ShellStep]_S!vars
<1> SUFFICES ASSUME InCommand, Running, StartCommand \/ CommandStep
             PROVE  [S!ShellStep]_S!vars
    OBVIOUS
<1> USE DEF Running, S!Running, S!ShellGo, S!EndCommand, S!clientVars, S!flagVars, S!serverVars,
            S!chanVars, clientVars, flagVars, serverVars, Go, EndCommand
<1>1. CASE StartCommand
  <2>1. S!StartCommand
    BY <1>1 DEF StartCommand, S!StartCommand, S!Command, IsVCenter, S!IsVCenter
  <2> QED BY <2>1 DEF S!ShellStep
<1>2. CASE ListStep /\ Inside
  BY <1>2, InsideIsSilent DEF S!vars, ListPhase, ListStep
<1>3. CASE (ListStep /\ (ListRefused \/ FindFails)) \/ PathFails
  <2>1. S!ListFails
    BY <1>3 DEF ListStep, ListRefused, FindFails, PathFails, S!ListFails
  <2> QED BY <2>1 DEF S!ShellStep
<1>4. CASE ShowPath
  BY <1>4 DEF ShowPath, S!vars
<1>5. CASE AskUser
  <2>1. S!ListSucceeds
    BY <1>5 DEF AskUser, InCommand, S!ListSucceeds
  <2> QED BY <2>1 DEF S!ShellStep
<1>6. CASE AskInterrupted
  <2>1. S!AskInterrupted
    BY <1>6 DEF AskInterrupted, S!AskInterrupted
  <2> QED BY <2>1 DEF S!ShellStep
<1>7. CASE UserAnswers
  <2>1. S!UserAnswers
    BY <1>7 DEF UserAnswers, S!UserAnswers
  <2> QED BY <2>1 DEF S!ShellStep
<1>8. CASE WorkEnds
  <2>1. S!WorkEnds
    BY <1>8 DEF WorkEnds, S!WorkEnds
  <2> QED BY <2>1 DEF S!ShellStep
<1> QED BY <1>1, <1>2, <1>3, <1>4, <1>5, <1>6, <1>7, <1>8
        DEF CommandStep, ListStep, Listing, Inside

LEMMA ReconnectIsShellStep == Running /\ Reconnect => S!ShellStep
<1> SUFFICES ASSUME Running, Reconnect
             PROVE  S!ShellStep
    OBVIOUS
<1> USE DEF Running, S!Running, S!ShellGo, S!clientVars, S!flagVars, S!serverVars,
            S!chanVars, clientVars, flagVars, serverVars, Go, othersUnchanged
<1>1. CASE ReconnectLogout
  <2>1. S!ReconnectCommand \/ S!ReconnectLogoutVim \/ S!ReconnectLogoutSso
    BY <1>1 DEF ReconnectLogout, S!ReconnectCommand, S!ReconnectLogoutVim, S!ReconnectLogoutSso,
                LogoutVim, LogoutSso, S!LogoutVim, S!LogoutSso
  <2> QED BY <2>1 DEF S!ShellStep
<1>2. CASE ReconnectCheck
  <2>1. S!ReconnectCheck
    BY <1>2 DEF ReconnectCheck, S!ReconnectCheck
  <2> QED BY <2>1 DEF S!ShellStep
<1>3. CASE ReconnectNewClient
  <2>1. S!ReconnectNewClient
    BY <1>3 DEF ReconnectNewClient, S!ReconnectNewClient, NewClient, S!NewClient
  <2> QED BY <2>1 DEF S!ShellStep
<1>4. CASE ReconnectLogin
  <2>1. S!ReconnectLogin \/ S!ReconnectLoginFails
    BY <1>4 DEF ReconnectLogin, S!ReconnectLogin, S!ReconnectLoginFails,
                LoginSucceeds, S!LoginSucceeds
  <2> QED BY <2>1 DEF S!ShellStep
<1> QED BY <1>1, <1>2, <1>3, <1>4 DEF Reconnect

LEMMA NextIsShellStep == InCommand /\ [Next]_vars => [S!ShellStep \/ S!SessionExpires]_S!vars
<1> SUFFICES ASSUME InCommand, [Next]_vars
             PROVE  [S!ShellStep \/ S!SessionExpires]_S!vars
    OBVIOUS
<1>1. CASE Running /\ (StartCommand \/ CommandStep)
  BY <1>1, CommandIsShellStep
<1>2. CASE Running /\ Reconnect
  BY <1>2, ReconnectIsShellStep
<1>3. CASE Running /\ InventoryChanges /\ UNCHANGED <<askVars, status>>
  BY <1>3 DEF InventoryChanges, S!vars, S!clientVars, S!flagVars, S!serverVars, S!chanVars,
              clientVars, flagVars, serverVars
<1>4. CASE Running /\ Expire /\ UNCHANGED <<inventory, pc, cmd, ctx, listVars, askVars, status>>
  BY <1>4 DEF Running, S!Running, S!SessionExpires, Expire, S!Expire, S!chanVars,
              S!flagVars, flagVars
<1>5. CASE UNCHANGED vars
  BY <1>5 DEF vars, S!vars, S!clientVars, S!flagVars, S!serverVars, S!chanVars,
              clientVars, flagVars, serverVars
<1> QED BY <1>1, <1>2, <1>3, <1>4, <1>5 DEF Next, Environment, Terminated

\* The commands in detail take the steps Shell gives them, and no other.
THEOREM ShellImplemented == Spec => ImplementsShell
<1>1. InCommand /\ [Next]_vars => [S!Next]_S!vars
  BY NextIsShellStep DEF S!Next, S!Environment
<1> QED BY InCommandInvariant, <1>1, PTL DEF Spec, ImplementsShell

-----------------------------------------------------------------------------

\* The vim client carries a session, but for the time between NewClient and the
\* login; so what a refused logout records is a session.
ClientTypes == ClientTypeOK /\ (pc # "reLogin" => soap \in Session)

CommandTypes ==
  /\ inventory \subseteq Object
  /\ DOMAIN ctx \subseteq {"dcList", "esxiHostList"}
  /\ \A k \in DOMAIN ctx : ctx[k] \in Seq(Object)
  /\ view \in {"none", "open", "refused"}
  /\ pc \in {"prompt", "list", "find", "elements", "listed", "ask", "work", "reLogoutVim",
             "reLogoutSso", "reCheck", "reNew", "reLogin"}
  /\ status \in {"running", "fatal"}
  /\ targets \in Seq(Object)

LEMMA ClientTypesInvariant == Spec => []ClientTypes
<1>1. Init => ClientTypes
  BY PointersAssumption DEF Init, ClientTypes, ClientTypeOK
<1>2. ClientTypes /\ [Next]_vars => ClientTypes'
  <2> SUFFICES ASSUME ClientTypes, [Next]_vars
               PROVE  ClientTypes'
      OBVIOUS
  <2> USE DEF Go
  <2>1. ASSUME UNCHANGED clientVars, pc # "reLogin"
        PROVE  ClientTypes'
    BY <2>1 DEF ClientTypes, ClientTypeOK, clientVars, flagVars, serverVars
  <2>2. CASE CommandStep \/ StartCommand
    <3>1. UNCHANGED clientVars /\ pc # "reLogin"
      BY <2>2 DEF StartCommand, CommandStep, ListStep, Listing, ListRefused, CreateContainerView,
                  FindFails, Find, Element, ElementFails, SetCtxData, ShowPath, PathFails, AskUser,
                  AskInterrupted, UserAnswers, WorkEnds, EndCommand
    <3> QED BY <2>1, <3>1
  <2>3. CASE ReconnectLogout
    <3>1. CASE pc = "prompt"
      BY <2>1, <2>3, <3>1 DEF ReconnectLogout
    <3>2. CASE pc = "reLogoutVim"
      <4>1. LogoutVim /\ pc' = "reLogoutSso" /\ soap \in Session
        BY <2>3, <3>2 DEF ReconnectLogout, ClientTypes
      <4> QED BY <4>1 DEF LogoutVim, ClientTypes, ClientTypeOK
    <3>3. CASE pc = "reLogoutSso"
      <4>1. LogoutSso /\ pc' = "reCheck" /\ soap \in Session
        BY <2>3, <3>3 DEF ReconnectLogout, ClientTypes
      <4>2. logoutErr' \in BOOLEAN /\ ssoLive' \subseteq Session
        BY <4>1 DEF LogoutSso, ClientTypes, ClientTypeOK
      <4> QED BY <4>1, <4>2 DEF LogoutSso, ClientTypes, ClientTypeOK
    <3> QED BY <2>3, <3>1, <3>2, <3>3 DEF ReconnectLogout
  <2>4. CASE ReconnectCheck
    BY <2>1, <2>4 DEF ReconnectCheck
  <2>5. CASE ReconnectNewClient
    BY <2>5 DEF ReconnectNewClient, NewClient, flagVars, serverVars, ClientTypes, ClientTypeOK
  <2>6. CASE ReconnectLogin
    <3>1. CASE LoginSucceeds
      BY <3>1 DEF LoginSucceeds, ClientTypes, ClientTypeOK
    <3>2. CASE UNCHANGED <<clientVars, pc>>
      BY <3>2 DEF ClientTypes, ClientTypeOK, clientVars, flagVars, serverVars
    <3> QED BY <2>6, <3>1, <3>2 DEF ReconnectLogin
  <2>7. CASE Environment
    <3>1. CASE InventoryChanges
      BY <3>1 DEF InventoryChanges, ClientTypes, ClientTypeOK, clientVars, flagVars, serverVars
    <3>2. CASE Expire /\ UNCHANGED pc
      BY <3>2 DEF Expire, ClientTypes, ClientTypeOK, flagVars
    <3> QED BY <2>7, <3>1, <3>2 DEF Environment
  <2>8. CASE UNCHANGED vars
    BY <2>8 DEF vars, ClientTypes, ClientTypeOK, clientVars, flagVars, serverVars
  <2> QED BY <2>2, <2>3, <2>4, <2>5, <2>6, <2>7, <2>8 DEF Next, Reconnect, Terminated
<1> QED BY <1>1, <1>2, PTL DEF Spec

LEMMA CommandTypesKept == Inv /\ CommandTypes /\ [Next]_vars => CommandTypes'
<1> SUFFICES ASSUME Inv, CommandTypes, [Next]_vars
             PROVE  CommandTypes'
    OBVIOUS
<1> USE DEF Go, EndCommand, CommandTypes, listVars, askVars
<1>1. CASE ListStep
  <2>1. CASE SetCtxData
    BY <1>1, <2>1 DEF ListStep, SetCtxData, WithList, Key, DestroyView, Inv, Listed
  <2>2. CASE ListRefused \/ CreateContainerView \/ FindFails \/ Find
    BY <1>1, <2>2 DEF ListStep, ListRefused, CreateContainerView, FindFails, Find, DestroyView
  <2>3. CASE \E o \in Object : Element(o) \/ ElementFails(o)
    BY <1>1, <2>3 DEF ListStep, Element, ElementFails
  <2> QED BY <1>1, <2>1, <2>2, <2>3 DEF ListStep, Listing
<1>2. CASE StartCommand \/ ShowPath \/ PathFails \/ AskUser \/ AskInterrupted
  BY <1>2 DEF StartCommand, ShowPath, PathFails, AskUser, AskInterrupted
<1>3. CASE UserAnswers
  <2>1. PICK indices \in SUBSET DOMAIN options :
          \E f \in Ascending(indices) : targets' = [n \in DOMAIN f |-> List[f[n]]]
    BY <1>3 DEF UserAnswers
  <2>2. PICK f \in Ascending(indices) : targets' = [n \in DOMAIN f |-> elems[f[n]]]
    BY <1>3, <2>1 DEF UserAnswers, List, Inv, Shown
  <2>3. /\ f \in [1..Cardinality(indices) -> indices]
        /\ \A n \in DOMAIN f : f[n] \in DOMAIN elems
    <3>1. f \in [1..Cardinality(indices) -> indices]
      BY DEF Ascending, Bijection, Injection
    <3>2. DOMAIN options = 1..Len(options) /\ DOMAIN elems = 1..Len(elems) /\ Len(options) = Len(elems)
      BY <1>3 DEF UserAnswers, Inv, Listed, Shown
    <3> QED BY <3>1, <3>2
  <2>4. DOMAIN f = 1..Cardinality(indices) /\ Cardinality(indices) \in Nat
    <3>1. Len(options) \in Nat /\ indices \subseteq 1..Len(options)
      BY DEF Inv, Shown
    <3>2. IsFiniteSet(indices)
      BY <3>1, FS_Interval, FS_Subset
    <3> QED BY <2>3, <3>2, FS_CardinalityType
  <2>5. targets' \in Seq(Object)
    <3>1. \A n \in DOMAIN elems : elems[n] \in Object
      BY DEF Inv, Listed
    <3>2. targets' \in [1..Cardinality(indices) -> Object]
      BY <2>2, <2>3, <2>4, <3>1
    <3> QED BY <2>4, <3>2
  <2> QED BY <1>3, <2>5 DEF UserAnswers
<1>4. CASE WorkEnds
  BY <1>4 DEF WorkEnds
<1>5. CASE Reconnect
  BY <1>5 DEF Reconnect, ReconnectLogout, ReconnectCheck, ReconnectNewClient, ReconnectLogin,
              othersUnchanged, EmptyCtx
<1>6. CASE Environment
  BY <1>6 DEF Environment, InventoryChanges
<1>7. CASE UNCHANGED vars
  BY <1>7 DEF vars
<1> QED BY <1>1, <1>2, <1>3, <1>4, <1>5, <1>6, <1>7 DEF Next, CommandStep, Terminated

\* Every variable keeps its type: what the commands store under a key is a list
\* of objects, and what a logout records is a session.
THEOREM Typing == Spec => []TypeOK
<1>1. Init => CommandTypes
  BY DEF Init, ListerInit, EmptyCtx, CommandTypes
<1>2. Inv /\ InCommand /\ ClientTypes /\ CommandTypes => TypeOK
  BY DEF Inv, Listed, Shown, Chosen, InCommand, ClientTypes, CommandTypes, TypeOK, ListerTypeOK, Range
<1> QED BY Invariance, InCommandInvariant, ClientTypesInvariant, CommandTypesKept, <1>1, <1>2, PTL
        DEF Spec

-----------------------------------------------------------------------------
(* What is proved of Shell carries over through the refinement: a command  *)
(* in detail takes only steps of Shell, which keep the invariant there.    *)

P == INSTANCE ShellProofs WITH
       mainPc <- "recv", shellPc <- ListPhase, sigBuf <- 0, sigClosed <- FALSE, wg <- 1

\* S and P are the same Shell, without its proofs and with them.
LEMMA SameSteps == [S!ShellStep \/ S!SessionExpires]_S!vars => [P!Next]_P!vars
  BY Zenon
     DEF ListPhase, P!Next, P!Environment,
         S!vars, P!vars, S!clientVars, P!clientVars, S!flagVars, P!flagVars, S!serverVars,
         P!serverVars, S!chanVars, P!chanVars, S!Running, P!Running, S!ShellGo, P!ShellGo,
         S!EndCommand, P!EndCommand, S!Command, P!Command, S!IsVCenter, P!IsVCenter,
         S!NewClient, P!NewClient, S!LoginSucceeds, P!LoginSucceeds, S!LogoutVim,
         P!LogoutVim, S!LogoutSso, P!LogoutSso, S!Login2SSOMgmt, P!Login2SSOMgmt,
         S!Expire, P!Expire, S!ShellStep, P!ShellStep, S!SessionExpires, P!SessionExpires,
         S!PromptInterrupted, P!PromptInterrupted, S!ExitCommand, P!ExitCommand,
         S!ExitSend, P!ExitSend, S!ExitClose, P!ExitClose, S!ReconnectCommand,
         P!ReconnectCommand, S!ReconnectLogoutVim, P!ReconnectLogoutVim,
         S!ReconnectLogoutSso, P!ReconnectLogoutSso, S!ReconnectCheck, P!ReconnectCheck,
         S!ReconnectNewClient, P!ReconnectNewClient, S!ReconnectLogin, P!ReconnectLogin,
         S!ReconnectLoginFails, P!ReconnectLoginFails, S!StartCommand, P!StartCommand,
         S!ListSucceeds, P!ListSucceeds, S!ListFails, P!ListFails, S!UserAnswers,
         P!UserAnswers, S!AskInterrupted, P!AskInterrupted, S!SsoLogin, P!SsoLogin,
         S!WorkEnds, P!WorkEnds, S!WorkPanics, P!WorkPanics, S!StartDownload,
         P!StartDownload, S!DownloadEnds, P!DownloadEnds

LEMMA SameProperties ==
  P!NoBareAccess /\ P!OnlyRefusedSessionsLeak /\ P!ReconnectDropsSession => SessionsKept
  BY DEF ListPhase, SessionsKept, S!NoBareAccess, P!NoBareAccess, S!CallsThroughVim,
         P!CallsThroughVim, S!OnlyRefusedSessionsLeak, P!OnlyRefusedSessionsLeak,
         S!ReconnectDropsSession, P!ReconnectDropsSession

\* At its first prompt, with the session of the start-up, the program is in a
\* state Shell's invariant allows.
LEMMA PromptIInv == Init => P!IInv
<1> SUFFICES ASSUME Init
             PROVE  P!IInv
    OBVIOUS
<1> USE PointersAssumption DEF Init, ListPhase
<1>1. P!TypeOK
  <2>1. /\ loggedIn \in BOOLEAN /\ postInit \in BOOLEAN /\ serverIsVC \in BOOLEAN
        /\ logoutErr \in BOOLEAN /\ FALSE \in BOOLEAN
    BY Zenon
  <2>2. P!ClientTypeOK
    BY <2>1 DEF P!ClientTypeOK
  <2>3. /\ 1 \in 0..2 /\ 0 \in {0, 1} /\ cmd = "none" /\ status = "running"
        /\ ListPhase = "prompt"
    OBVIOUS
  <2> QED BY <2>1, <2>2, <2>3, Zenon DEF P!TypeOK
<1>2. P!WgAccount /\ P!Phases /\ P!Endings
  BY DEF P!WgAccount, P!Phases, P!Endings, P!BeforeShell
<1>3. P!ClientFilled /\ P!LoggedOut /\ P!OnlyRefusedSessionsLeak
  BY DEF P!ClientFilled, P!LoggedOut, P!OnlyRefusedSessionsLeak
<1> QED BY <1>1, <1>2, <1>3 DEF P!IInv

\* Sessions are kept through any sequence of listings, questions and reconnects.
THEOREM SessionsAreKept == Spec => []SessionsKept
<1>1. P!IInv /\ InCommand /\ [Next]_vars => P!IInv'
  <2>1. P!IInv /\ [P!Next]_P!vars => P!IInv'
    BY P!NextKeepsIInv, PointersAssumption
  <2> QED BY <2>1, NextIsShellStep, SameSteps
<1>2. P!IInv => SessionsKept
  BY P!IInvSuffices, SameProperties, PointersAssumption
<1> QED BY PromptIInv, InCommandInvariant, <1>1, <1>2, PTL DEF Spec

-----------------------------------------------------------------------------
(* A command is bounded: StepsLeft is a number, and its steps lower it.    *)

CommandStage == [list |-> 6, find |-> 5, elements |-> 4, listed |-> 3, ask |-> 2, work |-> 1]

StagesLeft == IF pc \in DOMAIN CommandStage THEN CommandStage[pc] ELSE 0

\* A bound on the steps of the command at hand: for each object still unlisted
\* the element and its path, for each element the path, and the stages.
StepsLeft == StagesLeft + 2 * Cardinality(Unlisted) + Len(elems) - Len(options)

\* No step of a command is for nothing: neither a failure, nor an object that
\* comes or goes makes it look at anything twice (lister.go:60-75).
EveryStepCounts ==
  [][/\ CommandStep => StepsLeft' < StepsLeft
     /\ Reconnect \/ Environment => UNCHANGED StepsLeft]_vars

\* The numbers in StepsLeft; no more paths are shown than there are elements.
LEMMA StepsCounted ==
  Inv => /\ Cardinality(Unlisted) \in Nat /\ Len(elems) \in Nat /\ Len(options) \in Nat
         /\ Len(options) <= Len(elems)
         /\ pc \notin {"listed", "ask", "work"} => Len(options) = 0
         /\ StagesLeft \in 0..6
<1> SUFFICES ASSUME Inv
             PROVE  /\ Cardinality(Unlisted) \in Nat /\ Len(elems) \in Nat /\ Len(options) \in Nat
                    /\ Len(options) <= Len(elems)
                    /\ pc \notin {"listed", "ask", "work"} => Len(options) = 0
                    /\ StagesLeft \in 0..6
    OBVIOUS
<1>1. Cardinality(Unlisted) \in Nat /\ Len(elems) \in Nat
  BY UnlistedFinite DEF Inv
<1>2. Len(options) \in Nat /\ (pc \notin {"listed", "ask", "work"} => Len(options) = 0)
  BY DEF Inv, Shown
<1>3. Len(options) <= Len(elems)
  BY <1>1, <1>2 DEF Inv, Shown
<1>4. StagesLeft \in 0..6
  BY DEF StagesLeft, CommandStage
<1> QED BY <1>1, <1>2, <1>3, <1>4

LEMMA ListStepCounts == Inv /\ ListStep => StepsLeft' < StepsLeft
<1> SUFFICES ASSUME Inv, ListStep
             PROVE  StepsLeft' < StepsLeft
    OBVIOUS
<1> DEFINE todo == Cardinality(Unlisted)
           done == Len(elems)
<1>1. \/ Go("list", "find") /\ todo' = todo /\ done' = done
      \/ Go("find", "elements") /\ todo' <= todo /\ done' = done
      \/ UNCHANGED pc /\ pc = "elements" /\ todo = todo' + 1 /\ done' \in {done, done + 1}
      \/ Go("elements", "listed") /\ todo' = todo /\ done' = done
      \/ pc \in {"list", "find"} /\ pc' = "prompt" /\ todo' = 0 /\ done' = 0
  BY ListingGoesOn DEF ListStep, Inv
<1>2. options' = options /\ Len(options) = 0
  <2>1. pc \notin {"listed", "ask", "work"}
    BY <1>1 DEF Go
  <2> QED BY <2>1, StepsCounted DEF ListStep, askVars
<1>3. todo \in Nat /\ done \in Nat
  BY StepsCounted
<1>4. todo' \in Nat /\ done' \in Nat
  <2>1. (Cardinality(Unlisted) \in Nat /\ Len(elems) \in Nat)'
    <3>1. Inv'
      BY ListKeepsInv
    <3> QED BY <3>1, StepsCounted, PTL
  <2> QED BY <2>1
<1> DEFINE t == todo  tt == todo'  d == done  dd == done'
<1> HIDE DEF t, tt, d, dd
<1>5. StepsLeft = StagesLeft + 2 * t + d /\ StepsLeft' = StagesLeft' + 2 * tt + dd
  BY <1>2, <1>3, <1>4 DEF StepsLeft, t, tt, d, dd, StagesLeft, CommandStage
<1>6. /\ t \in Nat /\ tt \in Nat /\ d \in Nat /\ dd \in Nat
      /\ \/ StagesLeft' = StagesLeft - 1 /\ tt <= t /\ dd = d
         \/ StagesLeft' = StagesLeft /\ t = tt + 1 /\ dd \in {d, d + 1}
         \/ StagesLeft' = 0 /\ StagesLeft >= 5 /\ tt = 0 /\ dd = 0
  BY <1>1, <1>3, <1>4 DEF Go, StagesLeft, CommandStage, t, tt, d, dd
<1>7. StagesLeft \in Nat
  BY DEF StagesLeft, CommandStage
<1> DEFINE s == StagesLeft  ss == StagesLeft'
<1> HIDE DEF s, ss
<1>8. s \in Nat /\ StepsLeft = s + 2 * t + d /\ StepsLeft' = ss + 2 * tt + dd
  BY <1>5, <1>7 DEF s, ss
<1>9. \/ ss = s - 1 /\ tt <= t /\ dd = d
      \/ ss = s /\ t = tt + 1 /\ dd \in {d, d + 1}
      \/ ss = 0 /\ s >= 5 /\ tt = 0 /\ dd = 0
  BY <1>6 DEF s, ss
<1> QED BY <1>6, <1>8, <1>9

LEMMA AskStepCounts ==
  Inv /\ (ShowPath \/ PathFails \/ AskUser \/ AskInterrupted \/ UserAnswers \/ WorkEnds)
    => StepsLeft' < StepsLeft
<1> SUFFICES ASSUME Inv, ShowPath \/ PathFails \/ AskUser \/ AskInterrupted \/ UserAnswers \/ WorkEnds
             PROVE  StepsLeft' < StepsLeft
    OBVIOUS
<1> USE DEF Go, EndCommand, StepsLeft, StagesLeft, CommandStage
<1>1. pc \in {"listed", "ask", "work"} /\ pc' \in {"listed", "ask", "work", "prompt"}
  BY DEF ShowPath, PathFails, AskUser, AskInterrupted, UserAnswers, WorkEnds
<1>2. Unlisted = found /\ Unlisted' = found'
  BY <1>1 DEF Unlisted
<1>3. CASE PathFails \/ AskInterrupted \/ WorkEnds
  <2>1. /\ pc' = "prompt" /\ found' = {} /\ elems' = <<>> /\ options' = <<>>
        /\ Cardinality(Unlisted') = 0
    BY <1>2, <1>3, FS_EmptySet DEF PathFails, AskInterrupted, WorkEnds
  <2>2. StepsLeft' = 0
    BY <2>1
  <2>3. StagesLeft >= 1
    BY <1>1
  <2> QED BY <2>2, <2>3, StepsCounted
<1>4. CASE AskUser \/ UserAnswers
  BY <1>2, <1>4, StepsCounted DEF AskUser, UserAnswers, listVars, askVars
<1>5. CASE ShowPath
  <2>1. Len(options') = Len(options) + 1
    BY <1>5 DEF ShowPath, Inv, Shown
  <2> QED BY <1>2, <1>5, <2>1, StepsCounted DEF ShowPath, listVars
<1> QED BY <1>3, <1>4, <1>5

\* No command goes on for ever: it has finitely many steps left, each of them
\* lowers their number, and what goes on beside it raises it never.
THEOREM CommandIsBounded == Spec => [](StepsLeft \in Nat) /\ EveryStepCounts
<1>1. Inv => StepsLeft \in Nat
  BY StepsCounted DEF StepsLeft
<1>2. Inv /\ CommandStep => StepsLeft' < StepsLeft
  BY ListStepCounts, AskStepCounts DEF CommandStep
<1>3. Reconnect \/ Environment => UNCHANGED StepsLeft
  <2> SUFFICES ASSUME Reconnect \/ Environment
               PROVE  UNCHANGED <<found, elems, options, StagesLeft>>
                      /\ (pc \in {"list", "find"} <=> pc' \in {"list", "find"})
      BY DEF StepsLeft, Unlisted
  <2> USE DEF Go, StagesLeft, CommandStage, listVars, askVars
  <2>1. CASE Reconnect
    BY <2>1 DEF Reconnect, ReconnectLogout, ReconnectCheck, ReconnectNewClient, ReconnectLogin,
                othersUnchanged
  <2>2. CASE Environment
    BY <2>2 DEF Environment, InventoryChanges
  <2> QED BY <2>1, <2>2
<1> QED BY Invariance, <1>1, <1>2, <1>3, PTL DEF EveryStepCounts

=============================================================================
