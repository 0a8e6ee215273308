------------------------------- MODULE Lister --------------------------------
(***************************************************************************)
(* ListEsxiHost and ListDataCenter (pkg/vsphere_api/lister.go) and the     *)
(* data context of the client they leave their result in.  A listing finds *)
(* the objects of a kind through a container view, turns them one by one   *)
(* into inventory elements, and stores those under a key.  Objects may     *)
(* come and go on the server meanwhile.                                    *)
(*                                                                         *)
(* This module has state and operations of a listing; the commands that    *)
(* list are in the modules that extend it.                                 *)
(***************************************************************************)
EXTENDS VSphereClient, Sequences, SequencesExt

CONSTANTS
  Host,       \* the HostSystem objects the inventory can have
  Datacenter  \* its Datacenter objects

Object == Host \cup Datacenter

\* A server has room for finitely many objects.
ASSUME InventoryAssumption == IsFiniteSet(Object)

VARIABLES
  inventory,  \* objects that exist on the server
  pc,         \* where the shell goroutine is
  cmd,        \* the command it runs
  ctx,        \* the data context: a list for each key that was set
  view,       \* container view of the listing: "none", "open", "refused"
  found,      \* objects found and not yet turned into elements
  elems,      \* esxHostLst, dcLst
  seen        \* ghost: what Find returned to this command

listVars == <<view, found, elems, seen>>

Key == IF cmd = "vi_events" THEN "dcList" ELSE "esxiHostList"

Kind == IF cmd = "vi_events" THEN Datacenter ELSE Host

ListerTypeOK ==
  /\ inventory \subseteq Object
  /\ DOMAIN ctx \subseteq {"dcList", "esxiHostList"}
  /\ \A k \in DOMAIN ctx : ctx[k] \in Seq(Object)
  /\ view \in {"none", "open", "refused"}
  /\ found \subseteq seen /\ seen \subseteq Object
  /\ elems \in Seq(Object)

EmptyCtx == [k \in {} |-> <<>>]

ListerInit ==
  /\ inventory \in SUBSET Object
  /\ ctx = EmptyCtx
  /\ view = "none"
  /\ found = {} /\ elems = <<>> /\ seen = {}

-----------------------------------------------------------------------------

Go(from, to) == pc = from /\ pc' = to

\* A call to the server succeeds only in a session the server still knows.
Answers == soap \in live

\* Back to the prompt; what the command held is gone.
EndCommand(from) ==
  /\ Go(from, "prompt")
  /\ cmd' = "none"
  /\ found' = {} /\ elems' = <<>> /\ seen' = {}

\* The deferred Destroy of the view, whose error is dropped.
DestroyView == view' \in {"none", "refused"}

\* The faulty program that goes on with the list of an earlier command.
ListRefusedUsesOldList ==
  /\ \/ EndCommand("list")
     \/ Key \in DOMAIN ctx /\ Go("list", "listed") /\ UNCHANGED <<cmd, found, elems, seen>>
  /\ UNCHANGED <<clientVars, inventory, ctx, view>>

\* No valid session, or no view.
ListRefused ==
  /\ EndCommand("list")
  /\ UNCHANGED <<clientVars, inventory, ctx, view>>

CreateContainerView ==
  /\ Go("list", "find")
  /\ loggedIn /\ postInit /\ Answers
  /\ view' = "open"
  /\ UNCHANGED <<clientVars, inventory, cmd, ctx, found, elems, seen>>

\* The faulty program that forgets the view when Find fails.
FindFailsNoDestroy ==
  /\ EndCommand("find")
  /\ UNCHANGED <<clientVars, inventory, ctx, view>>

FindFails ==
  /\ EndCommand("find")
  /\ DestroyView
  /\ UNCHANGED <<clientVars, inventory, ctx>>

Find ==
  /\ Go("find", "elements")
  /\ Answers
  /\ found' = inventory \cap Kind
  /\ seen' = found'
  /\ UNCHANGED <<clientVars, inventory, cmd, ctx, view, elems>>

\* tmpFinder.Element: the object and its place in the inventory.
Element(o) ==
  /\ pc = "elements"
  /\ o \in found \cap inventory /\ Answers
  /\ found' = found \ {o}
  /\ elems' = Append(elems, o)
  /\ UNCHANGED <<clientVars, inventory, pc, cmd, ctx, view, seen>>

\* The faulty program that tries such an object again.
ElementRetried(o) ==
  /\ pc = "elements"
  /\ o \in found
  /\ UNCHANGED <<clientVars, inventory, pc, cmd, ctx, listVars>>

\* The object is gone, or the call failed for another reason: it is left out.
ElementFails(o) ==
  /\ pc = "elements"
  /\ o \in found
  /\ found' = found \ {o}
  /\ UNCHANGED <<clientVars, inventory, pc, cmd, ctx, view, elems, seen>>

\* The data context after SetCtxData.
WithList(key) == [k \in DOMAIN ctx \cup {key} |-> IF k = key THEN elems ELSE ctx[k]]

\* The faulty program that stores its list under a key nobody reads.
SetCtxDataOtherKey ==
  /\ Go("elements", "listed")
  /\ found = {}
  /\ ctx' = WithList("hostList")
  /\ DestroyView
  /\ UNCHANGED <<clientVars, inventory, cmd, found, elems, seen>>

\* SetCtxData, and the return that destroys the view.
SetCtxData ==
  /\ Go("elements", "listed")
  /\ found = {}
  /\ ctx' = WithList(Key)
  /\ DestroyView
  /\ UNCHANGED <<clientVars, inventory, cmd, found, elems, seen>>

Listing ==
  \/ ListRefused \/ CreateContainerView \/ FindFails \/ Find
  \/ \E o \in Object : Element(o) \/ ElementFails(o)
  \/ SetCtxData

\* Objects the listing may still have to look at.
Unlisted == IF pc \in {"list", "find"} THEN Object ELSE found

\* Hosts are added and removed by others.
InventoryChanges ==
  /\ \E o \in Object : inventory' \in {inventory \cup {o}, inventory \ {o}}
  /\ inventory' # inventory
  /\ UNCHANGED <<clientVars, pc, cmd, ctx, listVars>>

=============================================================================
