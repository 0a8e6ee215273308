------------------------------ MODULE Selection ------------------------------
(***************************************************************************)
(* The commands that let the user pick objects of the inventory:           *)
(* vi_events (pkg/subcmds/retrieve_vi_evnt.go) and support_bundle          *)
(* (sbundle.go).  A command lists, takes the list from the data context,   *)
(* shows the inventory path of each entry, and works on the objects at the *)
(* indices the user picked.  Between commands the user may reconnect,      *)
(* which gives the client a new, empty data context.                       *)
(*                                                                         *)
(* The work itself is in VIEvents and SupportBundle.  An object stands for *)
(* its path too: paths are unique.                                         *)
(***************************************************************************)
EXTENDS Lister

VARIABLES
  status,   \* "running", or "fatal" after log.Fatalln
  options,  \* paths shown, in the order of the list
  picked,   \* paths the user chose
  targets   \* the objects the command works on

askVars == <<options, picked, targets>>
vars == <<clientVars, inventory, pc, cmd, ctx, listVars, askVars, status>>

TypeOK ==
  /\ ClientTypeOK
  /\ ListerTypeOK
  /\ pc \in {"prompt", "list", "find", "elements", "listed", "ask", "work", "reLogoutVim",
             "reLogoutSso", "reCheck", "reNew", "reLogin"}
  /\ cmd \in {"none", "vi_events", "support_bundle"}
  /\ status \in {"running", "fatal"}
  /\ options \in Seq(Object)
  /\ picked \subseteq Object
  /\ targets \in Seq(Object)

\* After start-up: logged in, with the shell at its prompt.
Init ==
  /\ ListerInit
  /\ soap \in Session /\ live = {soap} /\ issued = {soap}
  /\ sso = NilPtr /\ ssoLive = {} /\ refused = {}
  /\ loggedIn = TRUE /\ postInit = TRUE /\ serverIsVC \in BOOLEAN /\ logoutErr = FALSE
  /\ pc = "prompt" /\ cmd = "none"
  /\ options = <<>> /\ picked = {} /\ targets = <<>>
  /\ status = "running"

-----------------------------------------------------------------------------

\* vi_events wants a vCenter it is logged in to.
StartCommand ==
  /\ Go("prompt", "list")
  /\ \/ cmd' = "vi_events" /\ IsVCenter
     \/ cmd' = "support_bundle"
  /\ UNCHANGED <<clientVars, inventory, ctx, listVars, askVars, status>>

\* Nothing is found, or it cannot be found out: the command ends.
ListStep ==
  /\ Listing
  /\ UNCHANGED <<askVars, status>>

\* GetCtxData: no other goroutine sets the key in between.
List == ctx[Key]

\* The faulty program that leaves out an entry without a path.
SkipPath ==
  /\ pc = "listed"
  /\ Len(options) < Len(List)
  /\ options' = options \o
       SelectSeq(SubSeq(List, Len(options) + 1, Len(List)), LAMBDA o : o \in inventory)
  /\ pc' = "ask"
  /\ UNCHANGED <<clientVars, inventory, cmd, ctx, listVars, picked, targets, status>>

\* find.InventoryPath of the next entry.
ShowPath ==
  /\ pc = "listed"
  /\ Len(options) < Len(List)
  /\ LET o == List[Len(options) + 1]
     IN  o \in inventory /\ Answers /\ options' = Append(options, o)
  /\ UNCHANGED <<clientVars, inventory, pc, cmd, ctx, listVars, picked, targets, status>>

\* The faulty program that drops the error and goes on without a question.
PathFailsGoesOn ==
  /\ Go("listed", "work")
  /\ Len(options) < Len(List)
  /\ UNCHANGED <<clientVars, inventory, cmd, ctx, listVars, askVars, status>>

\* One path that cannot be had ends the command.
PathFails ==
  /\ EndCommand("listed")
  /\ Len(options) < Len(List)
  /\ options' = <<>>
  /\ UNCHANGED <<clientVars, inventory, ctx, view, picked, targets, status>>

AskUser ==
  /\ Go("listed", "ask")
  /\ Len(options) = Len(List)
  /\ UNCHANGED <<clientVars, inventory, cmd, ctx, listVars, askVars, status>>

AskInterrupted ==
  /\ EndCommand("ask")
  /\ options' = <<>>
  /\ UNCHANGED <<clientVars, inventory, ctx, view, picked, targets, status>>

\* A set of indices in the order of the options.
Ascending(indices) ==
  {f \in Bijection(1..Cardinality(indices), indices) :
     \A m, n \in DOMAIN f : m < n => f[m] < f[n]}

\* The answer is a set of indices of the options, and must not be empty for
\* a support bundle.  For vi_events an empty one stands for the root folder.
\* A question without options is an error.
UserAnswers ==
  /\ Go("ask", "work")
  /\ options # <<>>
  /\ \E indices \in SUBSET DOMAIN options :
       /\ cmd = "support_bundle" => indices # {}
       /\ picked' = {options[i] : i \in indices}
       /\ \E f \in Ascending(indices) : targets' = [n \in DOMAIN f |-> List[f[n]]]
  /\ UNCHANGED <<clientVars, inventory, cmd, ctx, listVars, options, status>>

WorkEnds ==
  /\ EndCommand("work")
  /\ options' = <<>> /\ picked' = {} /\ targets' = <<>>
  /\ UNCHANGED <<clientVars, inventory, ctx, view, status>>

-----------------------------------------------------------------------------
(* try_reconnect.                                                          *)

othersUnchanged == UNCHANGED <<inventory, cmd, listVars, askVars>>

ReconnectLogout ==
  /\ \/ Go("prompt", "reLogoutVim") /\ UNCHANGED clientVars
     \/ Go("reLogoutVim", "reLogoutSso") /\ LogoutVim
     \/ Go("reLogoutSso", "reCheck") /\ LogoutSso
  /\ othersUnchanged
  /\ UNCHANGED <<ctx, status>>

\* The faulty program that builds a new client whatever the logout returned.
ReconnectCheckIgnoresError ==
  /\ Go("reCheck", "reNew")
  /\ othersUnchanged
  /\ UNCHANGED <<clientVars, ctx, status>>

ReconnectCheck ==
  /\ pc = "reCheck"
  /\ IF logoutErr THEN status' = "fatal" /\ UNCHANGED pc ELSE pc' = "reNew" /\ UNCHANGED status
  /\ othersUnchanged
  /\ UNCHANGED <<clientVars, ctx>>

\* NewClient: the data context is made anew.
ReconnectNewClient ==
  /\ Go("reNew", "reLogin")
  /\ NewClient
  /\ ctx' = EmptyCtx
  /\ othersUnchanged
  /\ UNCHANGED status

ReconnectLogin ==
  /\ \/ Go("reLogin", "prompt") /\ LoginSucceeds /\ UNCHANGED status
     \/ pc = "reLogin" /\ status' = "fatal" /\ UNCHANGED <<clientVars, pc>>
  /\ othersUnchanged
  /\ UNCHANGED ctx

-----------------------------------------------------------------------------

CommandStep ==
  \/ ListStep \/ ShowPath \/ PathFails \/ AskUser
  \/ AskInterrupted \/ UserAnswers \/ WorkEnds

Reconnect == ReconnectLogout \/ ReconnectCheck \/ ReconnectNewClient \/ ReconnectLogin

Environment ==
  \/ InventoryChanges /\ UNCHANGED <<askVars, status>>
  \/ Expire /\ UNCHANGED <<inventory, pc, cmd, ctx, listVars, askVars, status>>

Running == status = "running"

Terminated == ~Running /\ UNCHANGED vars

Next ==
  \/ Running /\ (StartCommand \/ CommandStep \/ Reconnect \/ Environment)
  \/ Terminated

Spec == Init /\ [][Next]_vars

\* Every call is answered, or fails, in the end, and so does the user's turn.
FairSpec == Spec /\ WF_vars(Running /\ CommandStep)

-----------------------------------------------------------------------------

\* What a command offers and works on are objects its own query found, also
\* after commands of the same kind, refused listings and reconnects: never a
\* list that an earlier command left in the data context, and no object twice.
FreshTargets ==
  /\ Range(options) \cup Range(targets) \subseteq seen
  /\ IsInjective(options) /\ IsInjective(targets)

\* The objects the command works on are the ones whose paths the user chose,
\* though options and list are two slices joined by index only, and entries
\* disappear from the server while they are filled.
ChosenIsTarget == Range(targets) = picked

\* A container view outlives the listing that made it only if the server did
\* not destroy it when asked (the deferred Destroy, lister.go:41).
ViewDestroyed == view = "open" => pc \in {"find", "elements"}

\* The listing in detail does what Shell takes it to do in one step: it comes
\* to the question of the command, or back to the prompt, with the client,
\* the sessions and the process as they were.
S == INSTANCE Shell WITH
       mainPc <- "recv",
       shellPc <- IF pc \in {"find", "elements", "listed"} THEN "list" ELSE pc,
       sigBuf <- 0, sigClosed <- FALSE, wg <- 1

ImplementsShell == [][S!Next]_S!vars

\* What Shell says of sessions holds with the commands in detail: whatever is
\* listed, refused and answered in between, a reconnect forgets no session it
\* could close, and none of the listing's calls goes through the bare client.
SessionsKept == S!NoBareAccess /\ S!OnlyRefusedSessionsLeak /\ S!ReconnectDropsSession

\* A command that lists comes to its question or back to the prompt, whatever
\* objects come and go meanwhile.
ListingEnds == pc = "list" ~> pc \in {"ask", "prompt"}

=============================================================================
