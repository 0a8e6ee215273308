--------------------------- MODULE BasicInfoProofs ---------------------------
(***************************************************************************)
(* What a run of basic_info saves, for any hosts, esxcli commands, answers *)
(* and names, and whichever of its calls fail; that it implements Shell;   *)
(* and that it is bounded.                                                 *)
(***************************************************************************)
EXTENDS BasicInfo, ListerProofs

\* basic_info lists hosts, and finds its list in the data context.
HostList ==
  /\ cmd \in {"basic_info", "none"}
  /\ pc # "prompt" => cmd = "basic_info"
  /\ pc = "listed" => Key \in DOMAIN ctx /\ ctx[Key] = elems
  /\ pc \in {"find", "elements", "listed"} => loggedIn /\ postInit

\* The facts that came back, without solution users nobody stored and
\* permissions without a path, or whose path was not asked for yet.
Kept ==
  {f \in collected \cap (VcFact \cup Permission) :
     f \notin permList \cup unnamed /\ (f = "soUsers" => "pUsers" \in collected)}

BeforePersonUsers ==
  BeforePermissions \cup {"paths", "sso", "idps", "groups", "soUsers", "pUsers"}

\* The report so far has them; permissions come once, and users in order.
Facts ==
  /\ vcbi = Kept
  /\ permList \cup unnamed \subseteq collected \cap Permission
  /\ permList \cap unnamed = {}
  /\ pc # "paths" => permList = {}
  /\ pc \in BeforePermissions => collected \cap Permission = {}
  /\ pc \in BeforePersonUsers => "pUsers" \notin collected
  /\ pc = "pUsers" => "soUsers" \in collected
  /\ saved => report = vcbi /\ pc = "prompt"

\* How far the loop over the hosts got.
Progress ==
  /\ hosts \in Seq(Object) /\ IsInjective(hosts)
  /\ cur \in Nat \ {0}
  /\ pc \in Early => cur = 1 /\ hosts = <<>> /\ ran = {}
  /\ pc \in {"config", "cli", "run"} => cur <= Len(hosts)
  /\ pc = "create" => cur > Len(hosts)
  /\ saved => cur > Len(hosts)
  /\ \A i \in DOMAIN hosts, c \in EsxcliCommand :
       /\ i < cur \/ (pc = "run" /\ i = cur /\ c \notin cmds) => <<hosts[i], c>> \in ran
       /\ i > cur \/ (i = cur /\ (pc = "run" => c \in cmds)) => <<hosts[i], c>> \notin ran

Inv == Listed /\ Begins /\ HostList /\ Facts /\ Progress

LEMMA InitInv == Init => Inv
<1> SUFFICES ASSUME Init
             PROVE  Inv
    OBVIOUS
<1>1. Listed /\ Begins
  BY EmptySequence DEF Init, ListerInit, Listed, Begins
<1>2. HostList /\ Progress
  BY EmptySequence DEF Init, HostList, Progress, Early
<1>3. Facts
  BY DEF Init, Facts, Kept, Early, BeforePermissions, BeforePersonUsers
<1> QED BY <1>1, <1>2, <1>3 DEF Inv

\* The listing leaves the report and the loop alone.
LEMMA ListKeepsInv == Inv /\ ListStep => Inv'
<1> SUFFICES ASSUME Inv, ListStep
             PROVE  Inv'
    OBVIOUS
<1> USE DEF Go, EndCommand
<1>1. Listed' /\ Begins'
  BY ListingKeepsListed DEF ListStep, Inv
<1>2. /\ UNCHANGED <<vcbi, permList, unnamed, hosts, cur, cmds, saved, report, collected, ran>>
      /\ pc \in {"list", "find", "elements"} /\ pc' \in Early \cup {"prompt"}
  BY DEF ListStep, Listing, infoVars, permVars, ListRefused, CreateContainerView, FindFails, Find, Element,
         ElementFails, SetCtxData, Early
<1>3. Facts'
  BY <1>2 DEF Inv, Facts, Kept, Early, BeforePermissions, BeforePersonUsers
<1>4. Progress'
  BY <1>2 DEF Inv, Facts, Progress, Early
<1>5. HostList'
  <2>1. CASE SetCtxData
    BY <2>1 DEF SetCtxData, WithList, Key, Inv, HostList, clientVars, flagVars
  <2>2. CASE ListRefused \/ FindFails
    BY <2>2 DEF ListRefused, FindFails, HostList
  <2>3. CASE CreateContainerView \/ Find \/ \E o \in Object : Element(o) \/ ElementFails(o)
    BY <2>3 DEF CreateContainerView, Find, Element, ElementFails, Inv, HostList, clientVars, flagVars
  <2> QED BY <2>1, <2>2, <2>3 DEF ListStep, Listing
<1> QED BY <1>1, <1>3, <1>4, <1>5 DEF Inv

\* After the listing nothing touches it until the command ends.
LEMMA ListingStays ==
  ASSUME Inv, pc # "prompt", pc' \notin {"list", "find", "elements", "listed"},
         \/ UNCHANGED <<cmd, listVars>> /\ pc' # "prompt"
         \/ pc' = "prompt" /\ cmd' = "none" /\ found' = {} /\ elems' = <<>> /\ seen' = {}
  PROVE  Listed' /\ Begins' /\ HostList'
  BY EmptySequence DEF Inv, Listed, Begins, HostList, listVars

LEMMA TakeHostsKeepsInv == Inv /\ TakeHosts => Inv'
<1> SUFFICES ASSUME Inv, TakeHosts
             PROVE  Inv'
    OBVIOUS
<1> USE DEF TakeHosts, Go, Stays, LeaveLister
<1>1. Listed' /\ Begins' /\ HostList'
  BY ListingStays
<1>2. Facts'
  BY DEF Inv, Facts, Kept, permVars, Early, BeforePermissions, BeforePersonUsers
<1>3. Progress'
  <2>1. hosts' = elems /\ elems \in Seq(Object) /\ IsInjective(elems)
    BY DEF Inv, HostList, Listed
  <2>2. cur' = 1 /\ ran' = {} /\ ~saved'
    BY DEF Inv, Progress, Early, Facts
  <2>3. pc' \in {"roles", "hosts"}
    OBVIOUS
  <2>4. DOMAIN hosts' \subseteq Nat \ {0}
    BY <2>1
  <2> QED BY <2>1, <2>2, <2>3, <2>4 DEF Progress, Early
<1> QED BY <1>1, <1>2, <1>3 DEF Inv

\* A query changes nothing the loop over the hosts looks at.
LEMMA BeforeHosts ==
  ASSUME Inv, UNCHANGED <<hosts, cur, cmds, saved, ran>>,
         pc \in VcFact \cup {"perms", "paths", "sso"},
         pc' \in VcFact \cup {"perms", "paths", "sso", "hosts"}
  PROVE  Progress'
  BY DEF Inv, Facts, Progress, Early, VcFact

\* No permission is one of the other facts.
LEMMA PermissionsApart ==
  Permission \cap (VcFact \cup HostFact) = {} /\ Permission \cap VcFact = {}
  BY PermissionAssumption

LEMMA QueryKeepsInv ==
  ASSUME Inv, NEW q \in Query, QueryReturns(q)
  PROVE  Inv'
<1> USE DEF Go, Stays, LeaveLister, Query, VcFact
<1>1. pc = q /\ pc' = Onward[q] /\ pc' \in VcFact \cup {"perms"}
  BY DEF QueryReturns, Onward
<1>2. Listed' /\ Begins' /\ HostList'
  BY <1>1, ListingStays DEF QueryReturns
<1>3. Progress'
  BY <1>1, BeforeHosts DEF QueryReturns
<1>4. Facts'
  <2>1. /\ collected' = collected \cup {q} /\ vcbi' = vcbi \cup StoredBy(q)
        /\ ~saved' /\ vcbi = Kept /\ q \notin Permission
        /\ permList' = permList /\ unnamed' = unnamed /\ permList = {}
    BY <1>1, PermissionsApart DEF QueryReturns, permVars, Inv, Facts
  <2>2. q \notin unnamed /\ "soUsers" \notin unnamed /\ "pUsers" \notin unnamed
    BY PermissionsApart DEF Inv, Facts
  <2>3. vcbi' = Kept'
    <3>1. CASE q = "pUsers"
      BY <1>1, <2>1, <2>2, <3>1 DEF Inv, Facts, Kept, StoredBy, BeforePersonUsers
    <3>2. CASE q = "soUsers"
      BY <1>1, <2>1, <2>2, <3>2 DEF Inv, Facts, Kept, StoredBy, BeforePersonUsers
    <3>3. CASE q \notin {"pUsers", "soUsers"}
      BY <1>1, <2>1, <2>2, <3>3 DEF Kept, StoredBy
    <3> QED BY <3>1, <3>2, <3>3
  <2>4. /\ pc' \in BeforePermissions => collected' \cap Permission = {}
        /\ pc' \in BeforePersonUsers => "pUsers" \notin collected'
        /\ pc' = "pUsers" => "soUsers" \in collected'
    BY <1>1, <2>1 DEF Inv, Facts, Onward, BeforePermissions, BeforePersonUsers, Early
  <2> QED BY <1>1, <2>1, <2>3, <2>4 DEF Inv, Facts
<1> QED BY <1>2, <1>3, <1>4 DEF Inv

LEMMA QueryFailsKeepsInv ==
  ASSUME Inv, NEW q \in Query \cup {"perms"}, QueryFails(q)
  PROVE  Inv'
<1> USE DEF QueryFails, Go, Stays, LeaveLister, infoVars, permVars, Query, VcFact
<1>1. pc = q /\ pc' \in {"sso", "maxAge"} /\ (pc' = "sso" => q \in {"roles", "perms"})
  BY DEF OnError
<1>2. Listed' /\ Begins' /\ HostList'
  BY <1>1, ListingStays
<1>3. Progress'
  BY <1>1, BeforeHosts
<1>4. Facts'
  BY <1>1 DEF Inv, Facts, Kept, BeforePermissions, BeforePersonUsers, Early
<1> QED BY <1>2, <1>3, <1>4 DEF Inv

\* A permission is in the list, then in the report or without a path.
LEMMA PermissionsKeepInv ==
  ASSUME Inv,
         \/ RetrieveAllPermissions \/ PermissionsDone
         \/ \E p \in Permission : InventoryPath(p) \/ PathFails(p)
  PROVE  Inv'
<1> USE DEF RetrieveAllPermissions, PermissionsDone, NextPermission, InventoryPath, PathFails,
            Go, Stays, LeaveLister, infoVars, permVars
<1>1. pc \in {"perms", "paths"} /\ pc' \in {"paths", "sso"}
  OBVIOUS
<1>2. Listed' /\ Begins' /\ HostList'
  BY <1>1, ListingStays
<1>3. Progress'
  BY <1>1, BeforeHosts
<1>4. Facts'
  <2>1. CASE RetrieveAllPermissions
    <3>1. /\ collected' = collected \cup permList' /\ permList' \subseteq Permission
          /\ collected \cap Permission = {} /\ unnamed' = unnamed /\ unnamed = {} /\ permList = {}
          /\ vcbi' = vcbi /\ vcbi = Kept /\ ~saved' /\ pc' = "paths"
      BY <2>1 DEF Inv, Facts, BeforePermissions
    <3>2. "soUsers" \notin permList' /\ "pUsers" \notin permList'
      BY <3>1, PermissionsApart DEF VcFact
    <3>3. vcbi' = Kept'
      BY <3>1, <3>2, PermissionsApart DEF Kept
    <3>4. "pUsers" \notin collected'
      BY <2>1, <3>1, <3>2 DEF Inv, Facts, BeforePersonUsers, BeforePermissions
    <3> QED BY <3>1, <3>3, <3>4 DEF Facts, BeforePermissions, Early
  <2>2. CASE PermissionsDone
    BY <2>2 DEF Inv, Facts, Kept, BeforePermissions, BeforePersonUsers, Early
  <2>3. ASSUME NEW p \in Permission, InventoryPath(p) \/ PathFails(p)
        PROVE  Facts'
    <3>1. /\ p \in permList /\ permList' = permList \ {p} /\ collected' = collected
          /\ p \in collected \cap Permission /\ p \notin unnamed /\ p # "soUsers"
          /\ ~saved' /\ vcbi = Kept /\ pc = "paths" /\ pc' = "paths"
      BY <2>3, PermissionsApart DEF Inv, Facts, VcFact
    <3>2. CASE vcbi' = vcbi \cup {p} /\ unnamed' = unnamed
      <4>1. vcbi' = Kept'
        BY <3>1, <3>2 DEF Kept
      <4> QED BY <3>1, <3>2, <4>1 DEF Inv, Facts, BeforePermissions, BeforePersonUsers, Early
    <3>3. CASE vcbi' = vcbi /\ unnamed' = unnamed \cup {p}
      <4>1. vcbi' = Kept'
        BY <3>1, <3>3 DEF Kept
      <4> QED BY <3>1, <3>3, <4>1 DEF Inv, Facts, BeforePermissions, BeforePersonUsers, Early
    <3> QED BY <2>3, <3>2, <3>3
  <2> QED BY <2>1, <2>2, <2>3
<1> QED BY <1>2, <1>3, <1>4 DEF Inv

LEMMA SsoKeepsInv == Inv /\ (SsoLogin \/ GetEventMaxAge) => Inv'
<1> SUFFICES ASSUME Inv, SsoLogin \/ GetEventMaxAge
             PROVE  Inv'
    OBVIOUS
<1> USE DEF SsoLogin, GetEventMaxAge, Go, Stays, LeaveLister, infoVars, permVars
<1>1. Listed' /\ Begins' /\ HostList'
  BY ListingStays
<1>2. Progress'
  BY BeforeHosts DEF VcFact
<1>3. Facts'
  <2>1. CASE SsoLogin
    BY <2>1 DEF Inv, Facts, Kept, BeforePermissions, BeforePersonUsers, Early
  <2>2. CASE GetEventMaxAge
    <3>1. "maxAge" \notin Permission
      BY PermissionsApart DEF VcFact
    <3> QED BY <2>2, <3>1 DEF Inv, Facts, Kept, BeforePermissions, BeforePersonUsers, Early, VcFact
  <2> QED BY <2>1, <2>2
<1> QED BY <1>1, <1>2, <1>3 DEF Inv

-----------------------------------------------------------------------------

\* What the loop over the hosts leaves alone in the report.
LEMMA ReportStays ==
  ASSUME Inv, pc \in {"hosts", "config", "cli", "run", "create"},
         UNCHANGED <<vcbi, permVars, saved, report>>,
         pc' \in {"hosts", "config", "cli", "run", "create", "prompt"},
         collected' \in {collected} \cup {collected \cup got : got \in SUBSET HostFact}
  PROVE  Facts'
<1>1. PICK got \in SUBSET HostFact : collected' = collected \cup got
  <2>1. CASE collected' = collected
    <3>1. collected' = collected \cup {} /\ {} \in SUBSET HostFact
      BY <2>1
    <3> QED BY <3>1
  <2>2. CASE collected' \in {collected \cup got : got \in SUBSET HostFact}
    BY <2>2
  <2> QED BY <2>1, <2>2
<1>2. got \cap (VcFact \cup Permission) = {} /\ "pUsers" \notin got
  BY PermissionsApart DEF VcFact, HostFact
<1>3. Kept' = Kept
  BY <1>1, <1>2 DEF Kept, permVars
<1>4. collected' \cap Permission = collected \cap Permission
  BY <1>1, <1>2
<1> QED BY <1>3, <1>4 DEF Inv, Facts, permVars, BeforePermissions, BeforePersonUsers, Early

LEMMA GiveUpKeepsInv == Inv /\ (NoHosts \/ NoExecutor \/ ReportNotSaved) => Inv'
<1> SUFFICES ASSUME Inv, NoHosts \/ NoExecutor \/ ReportNotSaved
             PROVE  Inv'
    OBVIOUS
<1> USE DEF NoHosts, NoExecutor, ReportNotSaved, GiveUp, EndCommand, Go, infoVars
<1>1. Listed' /\ Begins' /\ HostList'
  BY ListingStays
<1>2. Facts'
  BY ReportStays
<1>3. Progress'
  BY DEF Inv, Progress, Early
<1> QED BY <1>1, <1>2, <1>3 DEF Inv

LEMMA SaveKeepsInv == Inv /\ SaveReport => Inv'
<1> SUFFICES ASSUME Inv, SaveReport
             PROVE  Inv'
    OBVIOUS
<1> USE DEF SaveReport, EndCommand, Go
<1>1. Listed' /\ Begins' /\ HostList'
  BY ListingStays
<1>2. Facts'
  BY DEF Inv, Facts, Kept, permVars, BeforePermissions, BeforePersonUsers, Early
<1>3. Progress'
  BY DEF Inv, Progress, Early
<1> QED BY <1>1, <1>2, <1>3 DEF Inv

\* Up to the esxcli commands of a host none of them has been tried.
LEMMA HostKeepsInv ==
  Inv /\ (NextHost \/ HostConfig \/ HostConfigFails \/ ExposeESXCli) => Inv'
<1> SUFFICES ASSUME Inv, NextHost \/ HostConfig \/ HostConfigFails \/ ExposeESXCli
             PROVE  Inv'
    OBVIOUS
<1> USE DEF NextHost, HostConfig, HostConfigFails, ExposeESXCli, Go, Stays, LeaveLister, infoVars
<1>1. Listed' /\ Begins' /\ HostList'
  BY ListingStays
<1>2. Facts'
  <2>1. CASE NextHost \/ HostConfigFails \/ ExposeESXCli
    BY <2>1, ReportStays
  <2>2. CASE HostConfig
    BY <2>2, ReportStays
  <2> QED BY <2>1, <2>2
<1>3. Progress'
  <2>1. CASE NextHost
    BY <2>1 DEF Inv, Progress, Early
  <2>2. CASE HostConfig
    BY <2>2 DEF Inv, Progress, Early
  <2>3. CASE HostConfigFails
    BY <2>3 DEF Inv, Progress, Early
  <2>4. CASE ExposeESXCli
    BY <2>4 DEF Inv, Progress, Early
  <2> QED BY <2>1, <2>2, <2>3, <2>4
<1> QED BY <1>1, <1>2, <1>3 DEF Inv

\* An esxcli command moves from those to run to those tried; no other host
\* in the list is this one.
LEMMA TriedKeepsInv ==
  ASSUME Inv, NEW c \in EsxcliCommand, Tried(c)
  PROVE  Inv'
<1> USE DEF Tried, LeaveLister
<1>1. Listed' /\ Begins' /\ HostList'
  BY ListingStays
<1>2. Facts'
  BY ReportStays
<1>3. Progress'
  <2>1. cur \in DOMAIN hosts
    BY DEF Inv, Progress
  <2>2. \A i \in DOMAIN hosts : hosts[i] = hosts[cur] => i = cur
    BY <2>1 DEF Inv, Progress, IsInjective
  <2>3. \A i \in DOMAIN hosts, d \in EsxcliCommand :
          <<hosts[i], d>> \in ran' <=> <<hosts[i], d>> \in ran \/ (i = cur /\ d = c)
    BY <2>2
  <2>4. ~saved
    BY DEF Inv, Facts
  <2> QED BY <2>3, <2>4 DEF Inv, Progress, Early
<1> QED BY <1>1, <1>2, <1>3 DEF Inv

LEMMA HostDoneKeepsInv == Inv /\ HostDone => Inv'
<1> SUFFICES ASSUME Inv, HostDone
             PROVE  Inv'
    OBVIOUS
<1> USE DEF HostDone, Go, Stays, LeaveLister
<1>1. Listed' /\ Begins' /\ HostList'
  BY ListingStays
<1>2. Facts'
  BY ReportStays
<1>3. Progress'
  <2>1. \A i \in DOMAIN hosts : i \in Nat
    BY DEF Inv, Progress
  <2>2. ~saved
    BY DEF Inv, Facts
  <2> QED BY <2>1, <2>2 DEF Inv, Progress, Early
<1> QED BY <1>1, <1>2, <1>3 DEF Inv

\* Everything that only looks at, or ends, the process.
LEMMA StillKeepsInv ==
  ASSUME Inv, UNCHANGED <<pc, cmd, ctx, listVars, loggedIn, postInit, infoVars>>
  PROVE  Inv'
  BY DEF listVars, infoVars, permVars, Inv, Listed, Begins, HostList, Key, Facts, Kept, Progress

LEMMA NextKeepsInv == Inv /\ [Next]_vars => Inv'
<1> SUFFICES ASSUME Inv, [Next]_vars
             PROVE  Inv'
    OBVIOUS
<1>1. CASE VcStep
  BY <1>1, ListKeepsInv, TakeHostsKeepsInv, SsoKeepsInv, QueryKeepsInv, QueryFailsKeepsInv,
     PermissionsKeepInv DEF VcStep
<1>2. CASE HostStep
  <2>1. ASSUME NEW c \in EsxcliCommand, EsxcliFails(c)
        PROVE  Inv'
    BY <2>1, TriedKeepsInv DEF EsxcliFails
  <2>2. ASSUME NEW c \in EsxcliCommand, NEW a \in AnswersTo[c], FormatAndSave(c, a)
        PROVE  Inv'
    BY <2>2, TriedKeepsInv DEF FormatAndSave
  <2>3. ASSUME NEW c \in EsxcliCommand, NEW a \in AnswersTo[c], FormatAndSavePanics(c, a)
        PROVE  Inv'
    BY <2>3, StillKeepsInv DEF FormatAndSavePanics, LeaveLister, clientVars, flagVars
  <2> QED BY <1>2, <2>1, <2>2, <2>3, GiveUpKeepsInv, HostKeepsInv, HostDoneKeepsInv DEF HostStep
<1>3. CASE SaveReport \/ ReportNotSaved
  BY <1>3, SaveKeepsInv, GiveUpKeepsInv
<1>4. CASE Tick
  BY <1>4, StillKeepsInv DEF Tick, LeaveLister, clientVars, flagVars
<1>5. CASE UNCHANGED vars
  BY <1>5, StillKeepsInv DEF vars, clientVars, flagVars
<1> QED BY <1>1, <1>2, <1>3, <1>4, <1>5 DEF Next, CommandStep, Over

\* The report, and how far the command got, fit together in every reachable
\* state.
THEOREM Invariance == Spec => []Inv
  BY InitInv, NextKeepsInv, PTL DEF Spec

\* Each vCenter fact a query returned is in the saved report, whichever other
\* calls failed, but for a permission whose own path was not found, and for the
\* solution users when the person users did not come.
THEOREM FactsSaved == Spec => []VcFactsSaved
<1>1. Inv => VcFactsSaved
  <2> SUFFICES ASSUME Inv, saved
               PROVE  report = {f \in collected \cap (VcFact \cup Permission) :
                                  f \notin unnamed /\ (f = "soUsers" => "pUsers" \in collected)}
      BY DEF VcFactsSaved
  <2>1. report = Kept /\ permList = {}
    BY DEF Inv, Facts
  <2> QED BY <2>1 DEF Kept
<1> QED BY Invariance, <1>1, PTL

\* There is a report only when every esxcli command was tried on every host of
\* the list.
THEOREM ReportIsLast == Spec => []ReportAfterEveryHost
<1>1. Inv => ReportAfterEveryHost
  <2> SUFFICES ASSUME Inv, saved, NEW i \in DOMAIN hosts, NEW c \in EsxcliCommand
               PROVE  <<hosts[i], c>> \in ran
      BY DEF ReportAfterEveryHost
  <2>1. i < cur
    BY DEF Inv, Progress
  <2> QED BY <2>1 DEF Inv, Progress
<1> QED BY Invariance, <1>1, PTL

-----------------------------------------------------------------------------

\* A file on disk is the record of its name that was written last, and what was
\* written comes from an esxcli command tried on its host, whom it is named for.
Disk ==
  /\ \A n \in DOMAIN files : files[n] \in written /\ files[n].name = n
  /\ \A w \in written : \E c \in EsxcliCommand, ext \in {"csv", "json"} :
       /\ w.name = <<BaseName[w.host], c, w.at, ext>>
       /\ <<w.host, c>> \in ran
  /\ \A w \in written : w.name \in DOMAIN files

DiskInv == Disk /\ AnswersKept

\* A file is overwritten by that of another host only: an esxcli command runs
\* once on a host.
LEMMA SaveKeepsDisk ==
  ASSUME Inv, DiskInv, NEW c \in EsxcliCommand, NEW a \in AnswersTo[c], FormatAndSave(c, a)
  PROVE  DiskInv'
<1>1. PICK n \in 0..Len(Content(a)) :
        LET w == [name |-> FileName(c, a), at |-> now, host |-> hosts[cur], answer |-> a,
                  lines |-> SubSeq(Content(a), 1, n)]
        IN  /\ files' = [f \in DOMAIN files \cup {w.name} |-> IF f = w.name THEN w ELSE files[f]]
            /\ written' = written \cup {w}
  BY DEF FormatAndSave
<1> DEFINE new == [name |-> FileName(c, a), at |-> now, host |-> hosts[cur], answer |-> a,
                   lines |-> SubSeq(Content(a), 1, n)]
<1>2. PICK ext \in {"csv", "json"} : new.name = <<BaseName[new.host], c, new.at, ext>>
  BY DEF FileName
<1>3. <<new.host, c>> \in ran' /\ ran \subseteq ran'
  BY DEF FormatAndSave, Tried
<1>4. <<new.host, c>> \notin ran
  <2>1. pc = "run" /\ c \in cmds
    BY DEF FormatAndSave, Tried
  <2>2. cur \in DOMAIN hosts
    BY <2>1 DEF Inv, Progress
  <2> QED BY <2>1, <2>2 DEF Inv, Progress
<1> DEFINE name == new.name
<1>5. /\ files' = [f \in DOMAIN files \cup {name} |-> IF f = name THEN new ELSE files[f]]
      /\ written' = written \cup {new}
  BY <1>1
<1>6. new.at = now /\ new.host = hosts[cur] /\ new.name = name
  OBVIOUS
<1> HIDE DEF new, name
<1>7. Disk'
  <2>1. \A f \in DOMAIN files' : files'[f] \in written' /\ files'[f].name = f
    BY <1>5, <1>6 DEF DiskInv, Disk
  <2>2. \A w \in written' : \E d \in EsxcliCommand, e \in {"csv", "json"} :
          /\ w.name = <<BaseName[w.host], d, w.at, e>>
          /\ <<w.host, d>> \in ran'
    BY <1>2, <1>3, <1>5 DEF DiskInv, Disk
  <2>3. \A w \in written' : w.name \in DOMAIN files'
    BY <1>5, <1>6 DEF DiskInv, Disk
  <2> QED BY <2>1, <2>2, <2>3 DEF Disk
<1>8. ASSUME NEW w \in written, w.name = name
      PROVE  new.host # w.host /\ new.at = w.at
  <2>1. PICK d \in EsxcliCommand, e \in {"csv", "json"} :
          /\ w.name = <<BaseName[w.host], d, w.at, e>>
          /\ <<w.host, d>> \in ran
    BY DEF DiskInv, Disk
  <2>2. d = c /\ w.at = new.at
    BY <1>2, <1>6, <1>8, <2>1
  <2> QED BY <1>4, <2>1, <2>2
<1>9. AnswersKept'
  <2> SUFFICES ASSUME NEW w \in written'
               PROVE  \/ files'[w.name] = w
                      \/ \E v \in written' : files'[w.name] = v /\ v.host # w.host /\ v.at = w.at
      BY DEF AnswersKept
  <2>1. CASE w = new
    BY <1>5, <1>6, <2>1
  <2>2. CASE w # new /\ w.name = name
    BY <1>5, <1>8, <2>2
  <2>3. CASE w # new /\ w.name # name
    <3>1. w \in written /\ written \subseteq written'
      BY <1>5, <2>3
    <3>2. w.name \in DOMAIN files /\ files'[w.name] = files[w.name]
      BY <1>5, <2>3, <3>1 DEF DiskInv, Disk
    <3> QED BY <3>1, <3>2 DEF DiskInv, AnswersKept
  <2> QED BY <2>1, <2>2, <2>3
<1> QED BY <1>7, <1>9 DEF DiskInv

LEMMA NextKeepsDisk == Inv /\ DiskInv /\ [Next]_vars => DiskInv'
<1> SUFFICES ASSUME Inv, DiskInv, [Next]_vars
             PROVE  DiskInv'
    OBVIOUS
<1>1. CASE \E c \in EsxcliCommand : \E a \in AnswersTo[c] : FormatAndSave(c, a)
  BY <1>1, SaveKeepsDisk
<1>2. ASSUME UNCHANGED <<files, written>>, ran \subseteq ran'
      PROVE  DiskInv'
  BY <1>2 DEF DiskInv, Disk, AnswersKept
<1>3. ASSUME NEW c \in EsxcliCommand, EsxcliFails(c)
      PROVE  DiskInv'
  BY <1>2, <1>3 DEF EsxcliFails, Tried, fileVars
<1>4. ASSUME UNCHANGED <<fileVars, ran>>
      PROVE  DiskInv'
  BY <1>2, <1>4 DEF fileVars
<1>5. CASE VcStep
  BY <1>4, <1>5 DEF VcStep, ListStep, TakeHosts, SsoLogin, GetEventMaxAge, QueryReturns, QueryFails,
                    RetrieveAllPermissions, PermissionsDone, NextPermission, InventoryPath, PathFails,
                    infoVars
<1>6. CASE NoHosts \/ NoExecutor \/ ReportNotSaved \/ SaveReport \/ Tick \/ UNCHANGED vars
  BY <1>4, <1>6 DEF NoHosts, NoExecutor, ReportNotSaved, GiveUp, SaveReport, Tick, vars, infoVars
<1>7. CASE NextHost \/ HostConfig \/ HostConfigFails \/ ExposeESXCli \/ HostDone
  BY <1>4, <1>7 DEF NextHost, HostConfig, HostConfigFails, ExposeESXCli, HostDone, infoVars
<1>8. ASSUME NEW c \in EsxcliCommand, NEW a \in AnswersTo[c], FormatAndSavePanics(c, a)
      PROVE  DiskInv'
  BY <1>4, <1>8 DEF FormatAndSavePanics, infoVars
<1> QED BY <1>1, <1>3, <1>5, <1>6, <1>7, <1>8 DEF Next, CommandStep, HostStep, Over

\* The files on disk fit what was written.
LEMMA FilesAreNamed == Spec => []DiskInv
<1>1. Init => DiskInv
  BY DEF Init, DiskInv, Disk, AnswersKept
<1> QED BY Invariance, <1>1, NextKeepsDisk, PTL DEF Spec

\* An answer that was written stays, unless a host of the same name gives one
\* to the same command in the same second.
THEOREM FilesKept == Spec => []AnswersKept
<1>1. DiskInv => AnswersKept
  BY DEF DiskInv
<1> QED BY FilesAreNamed, <1>1, PTL

-----------------------------------------------------------------------------

\* Steps Shell does not see.
Silent ==
  /\ UNCHANGED <<clientVars, cmd, status>>
  /\ \/ pc \in {"list", "find", "elements"} /\ pc' \in {"find", "elements", "listed"}
     \/ pc \in {"roles", "perms", "paths"} /\ pc' \in {"perms", "paths", "sso"}
     \/ /\ pc \notin Early \cup {"roles", "perms", "paths", "sso", "prompt"}
        /\ pc' \notin Early \cup {"roles", "perms", "paths", "sso", "prompt"}

LEMMA SilentIsStutter == Silent => UNCHANGED S!vars
  BY DEF Silent, Early, S!vars, S!chanVars, S!clientVars, S!flagVars, S!serverVars,
         clientVars, flagVars, serverVars

LEMMA CommandIsShellStep == Inv /\ Running /\ CommandStep => [S!ShellStep]_S!vars
<1> SUFFICES ASSUME Inv, Running, CommandStep
             PROVE  [S!ShellStep]_S!vars
    OBVIOUS
<1> USE DEF Running, S!Running, S!ShellGo, S!EndCommand, S!clientVars, S!flagVars, S!serverVars,
            S!chanVars, clientVars, flagVars, serverVars, Go, EndCommand
<1>1. CASE ListStep
  <2>1. CASE ListRefused \/ FindFails
    <3>1. S!ListFails
      BY <1>1, <2>1 DEF ListStep, ListRefused, FindFails, S!ListFails
    <3> QED BY <3>1 DEF S!ShellStep
  <2>2. CASE CreateContainerView \/ Find \/ SetCtxData
    <3>1. Silent
      BY <1>1, <2>2 DEF ListStep, CreateContainerView, Find, SetCtxData, Silent
    <3> QED BY <3>1, SilentIsStutter
  <2>3. ASSUME NEW o \in Object, Element(o) \/ ElementFails(o)
        PROVE  UNCHANGED S!vars
    <3>1. Silent
      BY <1>1, <2>3 DEF ListStep, Element, ElementFails, Silent
    <3> QED BY <3>1, SilentIsStutter
  <2> QED BY <1>1, <2>1, <2>2, <2>3 DEF ListStep, Listing
<1>2. CASE TakeHosts
  <2>1. S!ListSucceeds
    BY <1>2 DEF TakeHosts, Stays, Inv, HostList, S!ListSucceeds, IsVCenter, S!IsVCenter
  <2> QED BY <2>1 DEF S!ShellStep
<1>3. CASE SsoLogin
  <2>1. S!SsoLogin
    BY <1>3 DEF SsoLogin, Stays, S!SsoLogin, Login2SSOMgmt, S!Login2SSOMgmt
  <2> QED BY <2>1 DEF S!ShellStep
<1>4. ASSUME \/ \E q \in Query : QueryReturns(q)
             \/ \E q \in Query \cup {"perms"} : QueryFails(q)
      PROVE  UNCHANGED S!vars
  <2>1. Silent
    BY <1>4 DEF QueryReturns, QueryFails, Onward, OnError, Query, VcFact, Stays, Silent, Early
  <2> QED BY <2>1, SilentIsStutter
<1>10. ASSUME \/ RetrieveAllPermissions \/ PermissionsDone
              \/ \E p \in Permission : InventoryPath(p) \/ PathFails(p)
       PROVE  UNCHANGED S!vars
  <2>1. Silent
    BY <1>10 DEF RetrieveAllPermissions, PermissionsDone, NextPermission, InventoryPath, PathFails,
                 Stays, Silent
  <2> QED BY <2>1, SilentIsStutter
<1>5. CASE GetEventMaxAge \/ NextHost \/ HostConfigFails \/ ExposeESXCli \/ HostDone
  <2>1. Silent
    BY <1>5 DEF GetEventMaxAge, NextHost, HostConfigFails, ExposeESXCli, HostDone, Stays, Silent, Early
  <2> QED BY <2>1, SilentIsStutter
<1>6. CASE NoHosts \/ NoExecutor \/ ReportNotSaved \/ SaveReport
  <2>1. S!WorkEnds
    BY <1>6 DEF NoHosts, NoExecutor, ReportNotSaved, GiveUp, SaveReport, S!WorkEnds
  <2> QED BY <2>1 DEF S!ShellStep
<1>7. ASSUME NEW c \in EsxcliCommand,
             \/ EsxcliFails(c)
             \/ \E a \in AnswersTo[c] : FormatAndSave(c, a)
      PROVE  UNCHANGED S!vars
  <2>1. Silent
    BY <1>7 DEF EsxcliFails, FormatAndSave, Tried, Silent, Early
  <2> QED BY <2>1, SilentIsStutter
<1>8. ASSUME NEW c \in EsxcliCommand, NEW a \in AnswersTo[c], FormatAndSavePanics(c, a)
      PROVE  S!ShellStep
  <2>1. S!WorkPanics
    BY <1>8 DEF FormatAndSavePanics, Inv, HostList, S!WorkPanics
  <2> QED BY <2>1 DEF S!ShellStep
<1>9. CASE HostConfig
  <2>1. CASE status' = status
    <3>1. Silent
      BY <1>9, <2>1 DEF HostConfig, Silent, Early
    <3> QED BY <3>1, SilentIsStutter
  <2>2. CASE status' # status
    <3>1. S!WorkPanics
      BY <1>9, <2>2 DEF HostConfig, Inv, HostList, S!WorkPanics
    <3> QED BY <3>1 DEF S!ShellStep
  <2> QED BY <2>1, <2>2
<1> QED BY <1>1, <1>2, <1>3, <1>4, <1>5, <1>6, <1>7, <1>8, <1>9, <1>10
    DEF CommandStep, VcStep, HostStep

\* basic_info in detail takes the steps Shell gives it, and no other.
THEOREM ShellImplemented == Spec => ImplementsShell
<1>1. Inv /\ [Next]_vars => [S!Next]_S!vars
  <2> SUFFICES ASSUME Inv, [Next]_vars
               PROVE  [S!Next]_S!vars
      OBVIOUS
  <2>1. CASE Running /\ CommandStep
    BY <2>1, CommandIsShellStep DEF S!Next
  <2>2. CASE Tick
    <3>1. Silent
      BY <2>2 DEF Tick, Silent, Early
    <3> QED BY <3>1, SilentIsStutter
  <2>3. CASE UNCHANGED vars
    BY <2>3 DEF vars, S!vars, S!chanVars, S!clientVars, S!flagVars, S!serverVars,
                clientVars, flagVars, serverVars
  <2> QED BY <2>1, <2>2, <2>3 DEF Next, Over
<1> QED BY Invariance, <1>1, PTL DEF Spec, ImplementsShell

-----------------------------------------------------------------------------

\* Types of what Inv says nothing of.
ListTypes ==
  /\ inventory \subseteq Object
  /\ DOMAIN ctx \subseteq {"dcList", "esxiHostList"}
  /\ \A k \in DOMAIN ctx : ctx[k] \in Seq(Object)
  /\ view \in {"none", "open", "refused"}
  /\ seen \subseteq Host /\ elems \in Seq(Host) /\ hosts \in Seq(Host)

InfoTypes ==
  /\ pc \in VcFact \cup {"list", "find", "elements", "listed", "perms", "paths", "sso",
                         "hosts", "config", "cli", "run", "create", "prompt"}
  /\ status \in {"running", "panic"}
  /\ collected \subseteq VcFact \cup HostFact \cup Permission
  /\ cur <= Len(hosts) + 1
  /\ cmds \subseteq EsxcliCommand
  /\ now \in 0..MaxClock
  /\ saved \in BOOLEAN /\ report \subseteq VcFact \cup Permission
  /\ ran \subseteq Host \X EsxcliCommand

Types == ClientTypeOK /\ ListTypes /\ InfoTypes

LEMMA TypesSuffice == Inv /\ Disk /\ Types => TypeOK
<1> SUFFICES ASSUME Inv, Disk, Types
             PROVE  TypeOK
    OBVIOUS
<1>1. DOMAIN files = {w.name : w \in written}
  BY DEF Disk
<1> QED BY <1>1 DEF Inv, Types, ListTypes, InfoTypes, Listed, HostList, Facts, Kept, Progress,
                    TypeOK, ListerTypeOK

LEMMA InitTypes == Init => Types
<1> SUFFICES ASSUME Init
             PROVE  Types
    OBVIOUS
<1>1. ClientTypeOK
  BY BasicInfoAssumption DEF Init, ClientTypeOK
<1>2. ListTypes
  BY EmptySequence DEF Init, ListerInit, EmptyCtx, ListTypes, Object
<1>3. InfoTypes
  <2>1. now \in 0..MaxClock
    BY BasicInfoAssumption DEF Init
  <2>2. cur = 1 /\ hosts = <<>>
    BY DEF Init
  <2>3. cur <= Len(hosts) + 1
    BY <2>2
  <2> QED BY <2>1, <2>3 DEF Init, InfoTypes
<1> QED BY <1>1, <1>2, <1>3 DEF Types

LEMMA ListKeepsTypes == Inv /\ Types /\ ListStep => Types'
<1> SUFFICES ASSUME Inv, Types, ListStep
             PROVE  Types'
    OBVIOUS
<1> USE DEF Go, EndCommand, ListStep, Types
<1>1. UNCHANGED clientVars /\ ClientTypeOK'
  BY DEF Listing, ListRefused, CreateContainerView, FindFails, Find, Element, ElementFails, SetCtxData,
         ClientTypeOK, clientVars, flagVars, serverVars
<1>2. InfoTypes'
  BY DEF Listing, ListRefused, CreateContainerView, FindFails, Find, Element, ElementFails, SetCtxData,
         InfoTypes, infoVars, fileVars
<1>3. ListTypes'
  <2>1. CASE ListRefused \/ CreateContainerView \/ FindFails
    BY <2>1, EmptySequence DEF ListRefused, CreateContainerView, FindFails, DestroyView, ListTypes,
                               infoVars
  <2>2. CASE Find
    BY <2>2 DEF Find, Kind, Inv, HostList, ListTypes, infoVars
  <2>3. ASSUME NEW o \in Object, Element(o)
        PROVE  ListTypes'
    <3>1. o \in Host
      BY <2>3 DEF Element, Inv, Listed, ListTypes
    <3> QED BY <2>3, <3>1 DEF Element, ListTypes, infoVars
  <2>4. ASSUME NEW o \in Object, ElementFails(o)
        PROVE  ListTypes'
    BY <2>4 DEF ElementFails, ListTypes, infoVars
  <2>5. CASE SetCtxData
    BY <2>5 DEF SetCtxData, WithList, Key, DestroyView, Inv, Listed, ListTypes, infoVars
  <2> QED BY <2>1, <2>2, <2>3, <2>4, <2>5 DEF Listing
<1> QED BY <1>1, <1>2, <1>3

\* After the listing only the list of hosts gets a new value of these types.
LEMMA ListTypesStay ==
  ASSUME Types, inventory' = inventory, ctx' = ctx, view' = view, hosts' = hosts,
         (elems' = elems /\ seen' = seen) \/ (elems' = <<>> /\ seen' = {})
  PROVE  ListTypes'
  BY EmptySequence DEF Types, ListTypes

LEMMA ClientTypeStays ==
  ASSUME Types, UNCHANGED clientVars
  PROVE  ClientTypeOK'
  BY DEF Types, ClientTypeOK, clientVars, flagVars, serverVars

LEMMA VcKeepsTypes == Inv /\ Types /\ VcStep => Types'
<1> SUFFICES ASSUME Inv, Types, VcStep
             PROVE  Types'
    OBVIOUS
<1> USE DEF Go, Stays, LeaveLister, permVars, infoVars, fileVars, listVars, VcFact
<1>1. CASE TakeHosts
  <2>1. ClientTypeOK'
    BY <1>1, ClientTypeStays DEF TakeHosts
  <2>2. hosts' = elems
    BY <1>1 DEF TakeHosts, Inv, HostList
  <2>3. ListTypes'
    BY <1>1, <2>2 DEF TakeHosts, Types, ListTypes
  <2>4. cur' = 1 /\ Len(hosts') \in Nat
    BY <1>1, <2>2 DEF TakeHosts, Inv, Progress, Early, Listed
  <2>5. cur' <= Len(hosts') + 1
    BY <2>4
  <2>6. InfoTypes'
    BY <1>1, <2>5 DEF TakeHosts, Types, InfoTypes
  <2> QED BY <2>1, <2>3, <2>6 DEF Types
<1>2. CASE SsoLogin
  <2>1. ClientTypeOK'
    BY <1>2 DEF SsoLogin, Login2SSOMgmt, Types, ClientTypeOK, flagVars
  <2>2. ListTypes'
    BY <1>2, ListTypesStay DEF SsoLogin
  <2>3. InfoTypes'
    BY <1>2 DEF SsoLogin, Types, InfoTypes
  <2> QED BY <2>1, <2>2, <2>3 DEF Types
<1>3. CASE GetEventMaxAge
  <2>1. ClientTypeOK' /\ ListTypes'
    BY <1>3, ClientTypeStays, ListTypesStay DEF GetEventMaxAge
  <2>2. InfoTypes'
    BY <1>3 DEF GetEventMaxAge, Types, InfoTypes
  <2> QED BY <2>1, <2>2 DEF Types
<1>4. ASSUME NEW q \in Query \cup {"perms"}, (q \in Query /\ QueryReturns(q)) \/ QueryFails(q)
      PROVE  Types'
  <2>1. ClientTypeOK' /\ ListTypes'
    BY <1>4, ClientTypeStays, ListTypesStay DEF QueryReturns, QueryFails
  <2>2. pc' \in VcFact \cup {"perms", "sso"}
    BY <1>4 DEF QueryReturns, QueryFails, Onward, OnError, Query
  <2>3. collected' \subseteq collected \cup VcFact
    BY <1>4 DEF QueryReturns, QueryFails, Query
  <2>4. InfoTypes'
    BY <1>4, <2>2, <2>3 DEF QueryReturns, QueryFails, Types, InfoTypes
  <2> QED BY <2>1, <2>4 DEF Types
<1>5. ASSUME \/ RetrieveAllPermissions \/ PermissionsDone
             \/ \E p \in Permission : InventoryPath(p) \/ PathFails(p)
      PROVE  Types'
  <2> USE DEF RetrieveAllPermissions, PermissionsDone, NextPermission, InventoryPath, PathFails
  <2>1. ClientTypeOK' /\ ListTypes'
    BY <1>5, ClientTypeStays, ListTypesStay
  <2>2. /\ pc' \in {"paths", "sso"} /\ collected' \subseteq collected \cup Permission
        /\ UNCHANGED <<status, hosts, cur, cmds, now, saved, report, ran>>
    BY <1>5
  <2>3. InfoTypes'
    BY <2>2 DEF Types, InfoTypes
  <2> QED BY <2>1, <2>3 DEF Types
<1> QED BY <1>1, <1>2, <1>3, <1>4, <1>5, ListKeepsTypes DEF VcStep

LEMMA EndKeepsTypes ==
  Inv /\ Types /\ (NoHosts \/ NoExecutor \/ ReportNotSaved \/ SaveReport) => Types'
<1> SUFFICES ASSUME Inv, Types, NoHosts \/ NoExecutor \/ ReportNotSaved \/ SaveReport
             PROVE  Types'
    OBVIOUS
<1> USE DEF NoHosts, NoExecutor, ReportNotSaved, GiveUp, SaveReport, EndCommand, Go,
            infoVars, fileVars
<1>1. ClientTypeOK' /\ ListTypes'
  BY ClientTypeStays, ListTypesStay
<1>2. vcbi \subseteq VcFact \cup Permission
  BY DEF Inv, Facts, Kept
<1>3. InfoTypes'
  BY <1>2 DEF Types, InfoTypes
<1> QED BY <1>1, <1>3 DEF Types

LEMMA HostKeepsTypes == Inv /\ Types /\ HostStep => Types'
<1> SUFFICES ASSUME Inv, Types, HostStep
             PROVE  Types'
    OBVIOUS
<1> USE DEF Go, Stays, LeaveLister, infoVars, fileVars, listVars
<1>1. CASE NextHost \/ HostConfig \/ HostConfigFails \/ ExposeESXCli
  <2>1. ClientTypeOK' /\ ListTypes'
    BY <1>1, ClientTypeStays, ListTypesStay DEF NextHost, HostConfig, HostConfigFails, ExposeESXCli
  <2>2. InfoTypes'
    BY <1>1 DEF NextHost, HostConfig, HostConfigFails, ExposeESXCli, HostFact, Types, InfoTypes
  <2> QED BY <2>1, <2>2 DEF Types
<1>2. CASE HostDone
  <2>1. ClientTypeOK' /\ ListTypes'
    BY <1>2, ClientTypeStays, ListTypesStay DEF HostDone
  <2>2. cur <= Len(hosts) /\ cur \in Nat /\ Len(hosts) \in Nat
    BY <1>2 DEF HostDone, Inv, Progress
  <2>3. cur' <= Len(hosts') + 1
    BY <1>2, <2>2 DEF HostDone
  <2>4. InfoTypes'
    BY <1>2, <2>3 DEF HostDone, Types, InfoTypes
  <2> QED BY <2>1, <2>4 DEF Types
<1>3. ASSUME NEW c \in EsxcliCommand, Tried(c)
      PROVE  /\ ClientTypeOK' /\ ListTypes'
             /\ cmds' \subseteq EsxcliCommand /\ ran' \subseteq Host \X EsxcliCommand
  <2>1. ClientTypeOK' /\ ListTypes'
    BY <1>3, ClientTypeStays, ListTypesStay DEF Tried
  <2>2. cur \in 1..Len(hosts)
    BY <1>3 DEF Tried, Inv, Progress
  <2>3. hosts[cur] \in Host
    BY <2>2 DEF Types, ListTypes
  <2> QED BY <1>3, <2>1, <2>3 DEF Tried, Types, InfoTypes
<1>4. ASSUME NEW c \in EsxcliCommand, EsxcliFails(c)
      PROVE  Types'
  <2>1. Tried(c)
    BY <1>4 DEF EsxcliFails
  <2> QED BY <1>3, <1>4, <2>1 DEF EsxcliFails, Tried, Types, InfoTypes
<1>5. ASSUME NEW c \in EsxcliCommand, NEW a \in AnswersTo[c], FormatAndSave(c, a)
      PROVE  Types'
  <2>1. Tried(c) /\ UNCHANGED status
    BY <1>5 DEF FormatAndSave
  <2> QED BY <1>3, <2>1 DEF Tried, Types, InfoTypes
<1>6. ASSUME NEW c \in EsxcliCommand, NEW a \in AnswersTo[c], FormatAndSavePanics(c, a)
      PROVE  Types'
  <2>1. ClientTypeOK' /\ ListTypes'
    BY <1>6, ClientTypeStays, ListTypesStay DEF FormatAndSavePanics
  <2>2. InfoTypes'
    BY <1>6 DEF FormatAndSavePanics, Types, InfoTypes
  <2> QED BY <2>1, <2>2 DEF Types
<1> QED BY <1>1, <1>2, <1>4, <1>5, <1>6, EndKeepsTypes DEF HostStep

\* Every variable keeps its type: the data context holds lists of objects, the
\* report facts about the vCenter, the output directory files by their names.
THEOREM Typing == Spec => []TypeOK
<1>1. Inv /\ Types /\ [Next]_vars => Types'
  <2> SUFFICES ASSUME Inv, Types, [Next]_vars
               PROVE  Types'
      OBVIOUS
  <2> USE DEF LeaveLister, infoVars, fileVars, listVars
  <2>1. CASE Tick
    <3>1. ClientTypeOK' /\ ListTypes'
      BY <2>1, ClientTypeStays, ListTypesStay DEF Tick
    <3>2. InfoTypes'
      BY <2>1, BasicInfoAssumption DEF Tick, Types, InfoTypes
    <3> QED BY <3>1, <3>2 DEF Types
  <2>2. CASE UNCHANGED vars
    <3>1. ClientTypeOK' /\ ListTypes'
      BY <2>2, ClientTypeStays, ListTypesStay DEF vars
    <3>2. InfoTypes'
      BY <2>2 DEF vars, Types, InfoTypes
    <3> QED BY <3>1, <3>2 DEF Types
  <2> QED BY <2>1, <2>2, VcKeepsTypes, HostKeepsTypes, EndKeepsTypes DEF Next, CommandStep, Over
<1>2. Inv /\ DiskInv /\ Types => TypeOK
  BY TypesSuffice DEF DiskInv
<1> QED BY Invariance, FilesAreNamed, InitTypes, <1>1, <1>2, PTL DEF Spec

-----------------------------------------------------------------------------

LEMMA Prepend ==
  ASSUME NEW T, NEW head \in T, NEW rest \in Seq(T)
  PROVE  LET s == <<head>> \o rest
         IN  /\ Len(s) = Len(rest) + 1
             /\ DOMAIN s = 1..Len(s)
             /\ s[1] = head
             /\ \A r \in 2..Len(s) : r - 1 \in DOMAIN rest /\ s[r] = rest[r - 1]
<1> DEFINE s == <<head>> \o rest
<1>1. Len(rest) \in Nat /\ DOMAIN rest = 1..Len(rest)
  OBVIOUS
<1>2. <<head>> \in Seq(T) /\ Len(<<head>>) = 1 /\ <<head>>[1] = head
  OBVIOUS
<1>3. s \in Seq(T) /\ Len(s) = Len(rest) + 1
  BY <1>1, <1>2
<1>4. DOMAIN s = 1..Len(s)
  BY <1>3
<1>5. s[1] = head
  BY <1>1, <1>2
<1>6. ASSUME NEW r \in 2..Len(s)
      PROVE  r - 1 \in DOMAIN rest /\ s[r] = rest[r - 1]
  BY <1>1, <1>2, <1>3
<1> QED BY <1>3, <1>4, <1>5, <1>6

\* A table has the header and a line for each row.
LEMMA TableLines ==
  ASSUME NEW a, IsCsv(a), a.rows \in Seq(Range(a.rows))
  PROVE  /\ Len(Content(a)) \in Nat
         /\ DOMAIN Content(a) = 1..Len(Content(a))
         /\ Content(a)[1] = Header(a)
         /\ \A r \in 2..Len(Content(a)) : Content(a)[r] = Line(a, a.rows[r - 1])
<1> DEFINE lines == [r \in DOMAIN a.rows |-> Line(a, a.rows[r])]
           T == {Header(a)} \cup {Line(a, a.rows[r]) : r \in DOMAIN a.rows}
<1>1. DOMAIN a.rows = 1..Len(a.rows) /\ Len(a.rows) \in Nat
  OBVIOUS
<1>2. lines \in Seq(T)
  <2>1. DOMAIN lines = 1..Len(a.rows) /\ lines = [r \in 1..Len(a.rows) |-> Line(a, a.rows[r])]
    BY <1>1
  <2>2. \A r \in 1..Len(a.rows) : Line(a, a.rows[r]) \in T
    BY <1>1
  <2> HIDE DEF T
  <2> QED BY <1>1, <2>1, <2>2
<1>3. Header(a) \in T
  OBVIOUS
<1>4. Content(a) = <<Header(a)>> \o lines
  BY DEF Content
<1>5. \A r \in DOMAIN lines : lines[r] = Line(a, a.rows[r])
  OBVIOUS
<1>6. Len(lines) \in Nat
  BY <1>2
<1> HIDE DEF lines, T
<1>7. /\ Len(Content(a)) = Len(lines) + 1
      /\ DOMAIN Content(a) = 1..Len(Content(a))
      /\ Content(a)[1] = Header(a)
      /\ \A r \in 2..Len(Content(a)) : r - 1 \in DOMAIN lines /\ Content(a)[r] = lines[r - 1]
  BY <1>2, <1>3, <1>4, Prepend
<1>8. \A r \in 2..Len(Content(a)) : Content(a)[r] = Line(a, a.rows[r - 1])
  BY <1>5, <1>7
<1> QED BY <1>6, <1>7, <1>8

\* Where fields and keys agree, a cell is what the row has under the key of its
\* title.
LEMMA CellsFit ==
  ASSUME NEW a, IsCsv(a), Aligned(a), NEW row, NEW i \in DOMAIN Header(a)
  PROVE  LET key == KeyOf[Header(a)[i]]
         IN  Line(a, row)[i] = IF key \in DOMAIN row THEN row[key] ELSE Blank
<1>1. i \in DOMAIN Columns(a) /\ Columns(a)[i] = KeyOf[Header(a)[i]]
  BY Zenon DEF Aligned
<1> QED BY <1>1 DEF Line

\* A file has the first lines of what an answer was formatted to.
FirstLines ==
  \A w \in written :
    /\ w.answer.rows \in Seq(Range(w.answer.rows))
    /\ \E n \in 0..Len(Content(w.answer)) : w.lines = SubSeq(Content(w.answer), 1, n)

LEMMA FirstLinesInvariant == Spec => []FirstLines
<1>1. Init => FirstLines
  BY DEF Init, FirstLines
<1>2. FirstLines /\ [Next]_vars => FirstLines'
  <2> SUFFICES ASSUME FirstLines, [Next]_vars
               PROVE  FirstLines'
      OBVIOUS
  <2>1. ASSUME NEW c \in EsxcliCommand, NEW a \in AnswersTo[c], FormatAndSave(c, a)
        PROVE  FirstLines'
    <3>1. PICK n \in 0..Len(Content(a)) :
            LET w == [name |-> FileName(c, a), at |-> now, host |-> hosts[cur], answer |-> a,
                      lines |-> SubSeq(Content(a), 1, n)]
            IN  written' = written \cup {w}
      BY <2>1 DEF FormatAndSave
    <3>2. a.rows \in Seq(Range(a.rows))
      BY BasicInfoAssumption
    <3> QED BY <3>1, <3>2 DEF FirstLines
  <2>2. CASE UNCHANGED written
    BY <2>2 DEF FirstLines
  <2>3. CASE VcStep \/ SaveReport \/ ReportNotSaved \/ Tick \/ UNCHANGED vars
    BY <2>2, <2>3 DEF VcStep, ListStep, TakeHosts, SsoLogin, GetEventMaxAge, QueryReturns, QueryFails,
                      RetrieveAllPermissions, PermissionsDone, NextPermission, InventoryPath, PathFails,
                      SaveReport, ReportNotSaved, GiveUp, Tick, vars, fileVars
  <2>4. CASE NoHosts \/ NextHost \/ HostConfig \/ HostConfigFails \/ ExposeESXCli \/ NoExecutor \/ HostDone
    BY <2>2, <2>4 DEF NoHosts, NextHost, HostConfig, HostConfigFails, ExposeESXCli, NoExecutor,
                      HostDone, GiveUp, fileVars
  <2>5. ASSUME NEW c \in EsxcliCommand,
               EsxcliFails(c) \/ \E a \in AnswersTo[c] : FormatAndSavePanics(c, a)
        PROVE  FirstLines'
    BY <2>2, <2>5 DEF EsxcliFails, FormatAndSavePanics, fileVars
  <2> QED BY <2>1, <2>3, <2>4, <2>5 DEF Next, CommandStep, HostStep, Over
<1> QED BY <1>1, <1>2, PTL DEF Spec

\* Each cell of a table on disk is under the title of its key, also in rows that
\* lack a key.
THEOREM CellsInPlace == Spec => []CellsUnderTheirHeader
<1>1. Disk /\ FirstLines => CellsUnderTheirHeader
  <2> SUFFICES ASSUME Disk, FirstLines, NEW n \in DOMAIN files,
                      IsCsv(files[n].answer), Aligned(files[n].answer),
                      NEW r \in 2..Len(files[n].lines), NEW i \in DOMAIN files[n].lines[1]
               PROVE  LET row == files[n].answer.rows[r - 1]
                          key == KeyOf[files[n].lines[1][i]]
                      IN  files[n].lines[r][i] = IF key \in DOMAIN row THEN row[key] ELSE Blank
      BY DEF CellsUnderTheirHeader
  <2> DEFINE a == files[n].answer
             content == Content(a)
  <2>1. files[n] \in written
    BY DEF Disk
  <2>2. a.rows \in Seq(Range(a.rows))
    BY <2>1 DEF FirstLines
  <2>3. PICK m \in 0..Len(content) : files[n].lines = SubSeq(content, 1, m)
    BY <2>1 DEF FirstLines
  <2>4. /\ Len(content) \in Nat
        /\ content[1] = Header(a)
        /\ \A j \in 2..Len(content) : content[j] = Line(a, a.rows[j - 1])
    BY <2>2, TableLines
  <2> HIDE DEF content
  <2>5. files[n].lines = [j \in 1..m |-> content[j]] /\ Len(files[n].lines) = m
    BY <2>3, <2>4
  <2>6. r <= m /\ files[n].lines[1] = Header(a) /\ files[n].lines[r] = Line(a, a.rows[r - 1])
    BY <2>3, <2>4, <2>5
  <2> QED BY <2>6, CellsFit
<1> QED BY FilesAreNamed, FirstLinesInvariant, <1>1, PTL DEF DiskInv

-----------------------------------------------------------------------------
(* The command is bounded: StepsLeft is a number, and every step but a tick *)
(* of the clock lowers it.                                                 *)

\* The steps left but for those of the hosts ahead.
Near == InfoStage[pc] + (IF Running THEN 1 ELSE 0) + Cardinality(Unlisted) + Cardinality(Owed)
    + Cardinality(Unasked)

Counted ==
  /\ Cardinality(Unlisted) \in Nat /\ Len(elems) \in Nat /\ Len(hosts) \in Nat /\ cur \in Nat
  /\ IsFiniteSet(cmds) /\ Cardinality(cmds) \in 0..Cardinality(EsxcliCommand)
  /\ Cardinality(Owed) \in Nat
  /\ IsFiniteSet(permList) /\ Cardinality(permList) \in Nat /\ Cardinality(Unasked) \in Nat
  /\ Cardinality(permList) <= Cardinality(Permission) /\ Cardinality(Permission) \in Nat
  /\ InfoStage[pc] \in Nat
  /\ Near \in Nat /\ HostsAhead \in Nat

LEMMA EsxcliFinite == Cardinality(EsxcliCommand) \in Nat /\ StepsPerHost \in Nat
  BY BasicInfoAssumption, FS_CardinalityType DEF StepsPerHost

LEMMA CountedSuffices == Inv /\ TypeOK => Counted
<1> SUFFICES ASSUME Inv, TypeOK
             PROVE  Counted
    OBVIOUS
<1>1. Cardinality(Unlisted) \in Nat /\ Len(elems) \in Nat
  BY UnlistedFinite DEF Inv
<1>2. IsFiniteSet(cmds) /\ Cardinality(cmds) \in 0..Cardinality(EsxcliCommand)
  <2>1. IsFiniteSet(cmds) /\ Cardinality(cmds) <= Cardinality(EsxcliCommand)
    BY BasicInfoAssumption, FS_Subset DEF TypeOK
  <2> QED BY <2>1, FS_CardinalityType, EsxcliFinite
<1>3. Cardinality(Owed) \in Nat
  BY <1>2, EsxcliFinite DEF Owed
<1>4. pc \in DOMAIN InfoStage
  BY DEF TypeOK, VcFact, InfoStage
<1>5. InfoStage[pc] \in Nat
  BY <1>4 DEF InfoStage
<1>6. Len(hosts) \in Nat /\ cur \in Nat /\ cur <= Len(hosts) + 1
  BY DEF TypeOK
<1>7. pc \in {"config", "cli", "run"} => cur <= Len(hosts)
  BY DEF Inv, Progress
<1>8. HostsAhead \in Nat
  BY <1>1, <1>6, <1>7 DEF HostsAhead
<1>10. /\ IsFiniteSet(permList) /\ Cardinality(permList) \in Nat /\ Cardinality(Unasked) \in Nat
       /\ Cardinality(permList) <= Cardinality(Permission) /\ Cardinality(Permission) \in Nat
  <2>1. permList \subseteq Permission
    BY DEF Inv, Facts
  <2>2. IsFiniteSet(permList) /\ Cardinality(permList) <= Cardinality(Permission)
    BY <2>1, PermissionAssumption, FS_Subset
  <2>3. Cardinality(permList) \in Nat /\ Cardinality(Permission) \in Nat
    BY <2>2, PermissionAssumption, FS_CardinalityType
  <2> QED BY <2>2, <2>3 DEF Unasked
<1>9. Near \in Nat
  <2>1. Cardinality(Unlisted) \in Nat /\ Cardinality(Owed) \in Nat /\ InfoStage[pc] \in Nat
        /\ Cardinality(Unasked) \in Nat
    BY <1>1, <1>3, <1>5, <1>10
  <2> QED BY <2>1 DEF Near
<1> QED BY <1>1, <1>2, <1>3, <1>5, <1>6, <1>8, <1>9, <1>10 DEF Counted

\* A step lowers the bound if it lowers one of its parts and raises none.
LEMMA StepCounts ==
  ASSUME Counted, Counted', HostsAhead' = HostsAhead \/ HostsAhead' <= HostsAhead,
         Running' => Running,
         InfoStage[pc'] = InfoStage[pc] \/ InfoStage[pc'] < InfoStage[pc],
         Unlisted' = Unlisted \/ Cardinality(Unlisted') <= Cardinality(Unlisted),
         Owed' = Owed \/ Cardinality(Owed') <= Cardinality(Owed),
         Unasked' = Unasked \/ Cardinality(Unasked') <= Cardinality(Unasked),
         \/ InfoStage[pc'] < InfoStage[pc]
         \/ Cardinality(Unlisted') < Cardinality(Unlisted)
         \/ Cardinality(Owed') < Cardinality(Owed)
         \/ Cardinality(Unasked') < Cardinality(Unasked)
         \/ Running /\ ~Running'
  PROVE  StepsLeft' < StepsLeft
<1> DEFINE i == InfoStage[pc]          ii == InfoStage[pc']
           r == IF Running THEN 1 ELSE 0  rr == IF Running' THEN 1 ELSE 0
           u == Cardinality(Unlisted)  uu == Cardinality(Unlisted')
           o == Cardinality(Owed)      oo == Cardinality(Owed')
           q == Cardinality(Unasked)   qq == Cardinality(Unasked')
           m == HostsAhead             mm == HostsAhead'
           k == StepsPerHost
<1>1. /\ i \in Nat /\ ii \in Nat /\ r \in 0..1 /\ rr \in 0..1 /\ u \in Nat /\ uu \in Nat
      /\ o \in Nat /\ oo \in Nat /\ q \in Nat /\ qq \in Nat /\ m \in Nat /\ mm \in Nat /\ k \in Nat
  <2>1. i \in Nat /\ u \in Nat /\ o \in Nat /\ q \in Nat /\ m \in Nat
    BY DEF Counted
  <2>2. ii \in Nat /\ uu \in Nat /\ oo \in Nat /\ qq \in Nat /\ mm \in Nat
    BY DEF Counted
  <2> QED BY <2>1, <2>2, EsxcliFinite
<1>2. /\ StepsLeft = i + r + u + o + q + k * m
      /\ StepsLeft' = ii + rr + uu + oo + qq + k * mm
  BY DEF StepsLeft, StepsPerHost
<1>3. ii <= i /\ rr <= r /\ uu <= u /\ oo <= o /\ qq <= q /\ mm <= m
      /\ (ii < i \/ rr < r \/ uu < u \/ oo < o \/ qq < q)
  BY <1>1
<1> HIDE DEF i, ii, r, rr, u, uu, o, oo, q, qq, m, mm, k
<1>4. k * mm <= k * m /\ k * mm \in Nat /\ k * m \in Nat
  BY <1>1, <1>3
<1> DEFINE v == k * m  vv == k * mm
<1> HIDE DEF v, vv
<1>5. StepsLeft = i + r + u + o + q + v /\ StepsLeft' = ii + rr + uu + oo + qq + vv /\ vv <= v
      /\ v \in Nat /\ vv \in Nat
  BY <1>2, <1>4 DEF v, vv
<1> QED BY <1>1, <1>3, <1>5

\* To begin with a host is to have one less ahead.
LEMMA NextHostCounts == Counted /\ Counted' /\ NextHost => StepsLeft' < StepsLeft
<1> SUFFICES ASSUME Counted, Counted', NextHost
             PROVE  StepsLeft' < StepsLeft
    OBVIOUS
<1> DEFINE k == StepsPerHost  m == HostsAhead  mm == HostsAhead'  n == Near  nn == Near'
<1>1. k \in Nat /\ m \in Nat /\ mm \in Nat /\ n \in Nat /\ nn \in Nat
  BY EsxcliFinite DEF Counted
<1>2. StepsLeft = n + k * m /\ StepsLeft' = nn + k * mm
  BY DEF StepsLeft, Near, StepsPerHost
<1>3. CASE pc' = "config"
  <2>1. m = mm + 1
    BY <1>3 DEF NextHost, Go, HostsAhead, Counted, infoVars
  <2>2. nn < n + k
    <3>7. Unasked' = Unasked /\ Cardinality(Unasked) \in Nat
      BY <1>3 DEF NextHost, Go, Unasked, BeforePermissions, Early, infoVars, permVars, Counted
    <3>1. Unlisted' = Unlisted /\ Owed = cmds /\ Owed' = EsxcliCommand /\ (Running <=> Running')
      BY <1>3 DEF NextHost, Go, Unlisted, Owed, Stays, LeaveLister, listVars, Running
    <3>2. InfoStage[pc] = 2 /\ InfoStage[pc'] = 5
      BY <1>3 DEF NextHost, Go, InfoStage
    <3>3. nn = 5 + (IF Running THEN 1 ELSE 0) + Cardinality(Unlisted) + Cardinality(EsxcliCommand)
              + Cardinality(Unasked)
      BY <3>1, <3>2, <3>7 DEF Near
    <3>4. n = 2 + (IF Running THEN 1 ELSE 0) + Cardinality(Unlisted) + Cardinality(cmds)
             + Cardinality(Unasked)
      BY <3>1, <3>2 DEF Near
    <3>5. Cardinality(Unlisted) \in Nat /\ Cardinality(cmds) \in 0..Cardinality(EsxcliCommand)
      BY DEF Counted
    <3>6. k = Cardinality(EsxcliCommand) + 4
      BY DEF StepsPerHost
    <3> HIDE DEF n, nn, k
    <3> QED BY <3>3, <3>4, <3>5, <3>6, <3>7, EsxcliFinite
  <2> HIDE DEF k, m, mm, n, nn
  <2>3. k * m = k * mm + k
    BY <1>1, <2>1
  <2>4. k * mm \in Nat /\ k * m \in Nat
    BY <1>1
  <2> QED BY <1>1, <1>2, <2>2, <2>3, <2>4
<1>4. CASE pc' = "create"
  <2>1. Unlisted' = Unlisted /\ Owed' = Owed /\ Unasked' = Unasked /\ HostsAhead' = HostsAhead
        /\ (Running <=> Running')
    BY <1>4 DEF NextHost, Go, Unlisted, Owed, Unasked, BeforePermissions, Early, Stays, LeaveLister,
                listVars, infoVars, permVars, Running, HostsAhead
  <2>2. InfoStage[pc'] < InfoStage[pc]
    BY <1>4 DEF NextHost, Go, InfoStage
  <2> QED BY <2>1, <2>2, StepCounts
<1> QED BY <1>3, <1>4 DEF NextHost, Go

LEMMA ListStepCounts == Inv /\ Counted /\ Counted' /\ ListStep => StepsLeft' < StepsLeft
<1> SUFFICES ASSUME Inv, Counted, Counted', ListStep
             PROVE  StepsLeft' < StepsLeft
    OBVIOUS
<1> DEFINE todo == Cardinality(Unlisted)
           done == Len(elems)
<1>1. \/ Go("list", "find") /\ todo' = todo /\ done' = done
      \/ Go("find", "elements") /\ todo' <= todo /\ done' = done
      \/ UNCHANGED pc /\ pc = "elements" /\ todo = todo' + 1 /\ done' \in {done, done + 1}
      \/ Go("elements", "listed") /\ todo' = todo /\ done' = done
      \/ pc \in {"list", "find"} /\ pc' = "prompt" /\ todo' = 0 /\ done' = 0
  BY ListingGoesOn DEF ListStep, Inv
<1>2. UNCHANGED <<status, cmds, hosts, cur, permList>>
  BY DEF ListStep, infoVars, permVars
<1>3. Owed' = Owed /\ (Running <=> Running')
  BY <1>1, <1>2 DEF Go, Owed, Running
<1>4. HostsAhead' <= HostsAhead
  <2>1. todo \in Nat /\ done \in Nat /\ todo' \in Nat /\ done' \in Nat
    BY DEF Counted
  <2>2. HostsAhead = todo + done
    BY <1>1 DEF Go, HostsAhead
  <2>3. HostsAhead' = IF pc' = "prompt" THEN 0 ELSE todo' + done'
    BY <1>1 DEF Go, HostsAhead
  <2>4. todo' + done' <= todo + done
    BY <1>1, <2>1
  <2> QED BY <2>1, <2>2, <2>3, <2>4
<1>5. \/ InfoStage[pc'] < InfoStage[pc] /\ todo' <= todo
      \/ InfoStage[pc'] = InfoStage[pc] /\ todo' < todo /\ todo' <= todo
  <2>1. todo \in Nat /\ todo' \in Nat
    BY DEF Counted
  <2> QED BY <1>1, <2>1 DEF Go, InfoStage
<1>6. Unasked' = Unasked \/ Cardinality(Unasked') <= Cardinality(Unasked)
  <2>1. Unasked = Permission /\ Unasked' \in {Permission, permList}
    BY <1>1, <1>2 DEF Go, Unasked, BeforePermissions, Early
  <2> QED BY <2>1 DEF Counted
<1> QED BY <1>3, <1>4, <1>5, <1>6, StepCounts

\* The queries to a vCenter come in order, whichever fail.
LEMMA VcStepCounts == Inv /\ Counted /\ Counted' /\ VcStep => StepsLeft' < StepsLeft
<1> SUFFICES ASSUME Inv, Counted, Counted', VcStep
             PROVE  StepsLeft' < StepsLeft
    OBVIOUS
<1> USE DEF Go, Stays, LeaveLister, listVars, permVars, infoVars
<1>7. ASSUME permList' = permList, pc \in VcFact \cup {"listed", "perms", "paths", "sso"}, ~(pc' \in Early)
      PROVE  Unasked' = Unasked \/ Cardinality(Unasked') <= Cardinality(Unasked)
             \/ (pc \notin BeforePermissions /\ pc' \in BeforePermissions)
  <2>1. Unasked \in {Permission, permList} /\ Unasked' \in {Permission, permList}
    BY <1>7 DEF Unasked
  <2>2. (pc \in BeforePermissions => Unasked = Permission)
        /\ (pc' \notin BeforePermissions => Unasked' = permList)
    BY <1>7 DEF Unasked
  <2>3. pc \notin BeforePermissions /\ pc' \notin BeforePermissions => Unasked' = Unasked
    BY <1>7 DEF Unasked
  <2> QED BY <2>1, <2>2, <2>3 DEF Counted
<1>1. CASE TakeHosts
  <2>1. hosts' = elems /\ cur' = cur /\ cur = 1
    BY <1>1 DEF TakeHosts, Inv, HostList, Progress, Early
  <2>2. HostsAhead' = Len(elems) /\ HostsAhead = Cardinality(Unlisted) + Len(elems)
    BY <1>1, <2>1 DEF TakeHosts, HostsAhead, Counted
  <2>3. Unlisted' = Unlisted /\ Owed' = Owed /\ (Running <=> Running')
    BY <1>1 DEF TakeHosts, Unlisted, Owed, Running
  <2>4. InfoStage[pc'] < InfoStage[pc]
    BY <1>1 DEF TakeHosts, InfoStage
  <2>5. HostsAhead' <= HostsAhead
    <3>1. Cardinality(Unlisted) \in Nat /\ Len(elems) \in Nat
      BY DEF Counted
    <3> QED BY <2>2, <3>1
  <2>6. Unasked' = Unasked \/ Cardinality(Unasked') <= Cardinality(Unasked)
    BY <1>1, <1>7 DEF TakeHosts, BeforePermissions, Early
  <2> QED BY <2>3, <2>4, <2>5, <2>6, StepCounts
<1>2. ASSUME UNCHANGED <<cmds, hosts, cur, cmd, status, found, elems>>,
             pc \in VcFact \cup {"perms", "paths", "sso"},
             pc' \in VcFact \cup {"perms", "paths", "sso", "hosts"},
             Unasked' = Unasked \/ Cardinality(Unasked') <= Cardinality(Unasked),
             \/ InfoStage[pc'] < InfoStage[pc]
             \/ pc' = pc /\ Cardinality(Unasked') < Cardinality(Unasked)
      PROVE  StepsLeft' < StepsLeft
  <2>1. HostsAhead' = HostsAhead /\ Owed' = Owed /\ Unlisted' = Unlisted /\ (Running <=> Running')
    BY <1>2 DEF HostsAhead, Owed, Unlisted, VcFact, Running
  <2> QED BY <1>2, <2>1, StepCounts
<1>3. CASE SsoLogin \/ GetEventMaxAge
  <2>1. Unasked' = Unasked
    BY <1>3 DEF SsoLogin, GetEventMaxAge, Unasked, BeforePermissions, Early
  <2> QED BY <1>2, <1>3, <2>1 DEF SsoLogin, GetEventMaxAge, VcFact, InfoStage
<1>4. ASSUME NEW q \in Query \cup {"perms"}, (q \in Query /\ QueryReturns(q)) \/ QueryFails(q)
      PROVE  StepsLeft' < StepsLeft
  <2>1. pc = q /\ ((q \in Query /\ pc' = Onward[q]) \/ pc' = OnError(q))
        /\ UNCHANGED <<cmds, hosts, cur, cmd, status, found, elems, permList>>
    BY <1>4 DEF QueryReturns, QueryFails
  <2>2. /\ q \in VcFact \cup {"perms"} /\ pc' \in VcFact \cup {"perms", "sso"}
        /\ InfoStage[pc'] < InfoStage[pc]
        /\ pc' \in BeforePermissions => pc \in BeforePermissions
    BY <1>4, <2>1 DEF Query, VcFact, Onward, OnError, InfoStage, BeforePermissions, Early
  <2>3. pc' \notin Early
    BY <2>2 DEF VcFact, Early
  <2>4. Unasked' = Unasked \/ Cardinality(Unasked') <= Cardinality(Unasked)
    BY <1>7, <2>1, <2>2, <2>3
  <2> QED BY <1>2, <2>1, <2>2, <2>4
<1>5. CASE RetrieveAllPermissions \/ PermissionsDone
  <2>1. /\ pc \in {"perms", "paths"} /\ pc' \in {"paths", "sso"} /\ InfoStage[pc'] < InfoStage[pc]
        /\ UNCHANGED <<cmds, hosts, cur, cmd, status, found, elems>>
    BY <1>5 DEF RetrieveAllPermissions, PermissionsDone, InfoStage
  <2>2. CASE RetrieveAllPermissions
    <3>1. Unasked = Permission /\ Unasked' = permList'
      BY <2>2 DEF RetrieveAllPermissions, Unasked, BeforePermissions, Early
    <3>2. Cardinality(permList') <= Cardinality(Permission)
      BY DEF Counted
    <3> QED BY <1>2, <2>1, <3>1, <3>2
  <2>3. CASE PermissionsDone
    <3>1. Unasked' = Unasked
      BY <2>3 DEF PermissionsDone, Unasked, BeforePermissions, Early
    <3> QED BY <1>2, <2>1, <3>1
  <2> QED BY <1>5, <2>2, <2>3
<1>6. ASSUME NEW p \in Permission, InventoryPath(p) \/ PathFails(p)
      PROVE  StepsLeft' < StepsLeft
  <2>1. /\ pc = "paths" /\ pc' = pc /\ p \in permList /\ permList' = permList \ {p}
        /\ UNCHANGED <<cmds, hosts, cur, cmd, status, found, elems>>
    BY <1>6 DEF InventoryPath, PathFails, NextPermission
  <2>2. Unasked = permList /\ Unasked' = permList'
    BY <2>1 DEF Unasked, BeforePermissions, Early
  <2>3. Cardinality(permList') = Cardinality(permList) - 1 /\ Cardinality(permList) \in Nat
    BY <2>1, FS_RemoveElement DEF Counted
  <2>4. Cardinality(Unasked') < Cardinality(Unasked) /\ Cardinality(Unasked') <= Cardinality(Unasked)
    BY <2>2, <2>3
  <2> QED BY <1>2, <2>1, <2>4
<1> QED BY <1>1, <1>3, <1>4, <1>5, <1>6, ListStepCounts DEF VcStep

-----------------------------------------------------------------------------

LEMMA EndCounts ==
  Counted /\ Counted' /\ (NoHosts \/ NoExecutor \/ SaveReport \/ ReportNotSaved)
    => StepsLeft' < StepsLeft
<1> SUFFICES ASSUME Counted, Counted', NoHosts \/ NoExecutor \/ SaveReport \/ ReportNotSaved
             PROVE  StepsLeft' < StepsLeft
    OBVIOUS
<1>1. /\ pc \in {"hosts", "cli", "create"} /\ pc' = "prompt" /\ found' = {}
      /\ UNCHANGED <<cmds, status, permList>>
  BY DEF NoHosts, NoExecutor, SaveReport, ReportNotSaved, GiveUp, EndCommand, Go, infoVars, permVars
<1>2. HostsAhead' <= HostsAhead
  BY <1>1 DEF HostsAhead, Counted
<1>3. Cardinality(Unlisted') = 0 /\ Owed' = cmds /\ Owed \in {cmds, EsxcliCommand}
      /\ (Running <=> Running')
  BY <1>1, FS_EmptySet DEF Unlisted, Owed, Running
<1>4. InfoStage[pc'] < InfoStage[pc]
  BY <1>1 DEF InfoStage
<1>5. Cardinality(Owed') <= Cardinality(Owed)
  <2>1. Cardinality(cmds) \in 0..Cardinality(EsxcliCommand)
    BY DEF Counted
  <2> QED BY <1>3, <2>1, EsxcliFinite
<1>6. Cardinality(Unlisted') <= Cardinality(Unlisted)
  <2>1. Cardinality(Unlisted) \in Nat
    BY DEF Counted
  <2> QED BY <1>3, <2>1
<1>7. Unasked' = Unasked
  BY <1>1 DEF Unasked, BeforePermissions, Early
<1> QED BY <1>2, <1>3, <1>4, <1>5, <1>6, <1>7, StepCounts

LEMMA EsxcliCounts ==
  ASSUME Counted, Counted', NEW c \in EsxcliCommand, Tried(c), UNCHANGED status
  PROVE  StepsLeft' < StepsLeft
<1> USE DEF Tried, LeaveLister, listVars, permVars
<1>1. Cardinality(cmds') < Cardinality(cmds) /\ Cardinality(cmds') <= Cardinality(cmds)
  <2>1. IsFiniteSet(cmds) /\ c \in cmds /\ cmds' = cmds \ {c}
    BY DEF Counted
  <2>2. Cardinality(cmds') = Cardinality(cmds) - 1 /\ Cardinality(cmds) \in Nat
    BY <2>1, FS_RemoveElement, FS_CardinalityType
  <2> QED BY <2>2
<1>2. HostsAhead' = HostsAhead /\ Unlisted' = Unlisted /\ Owed = cmds /\ Owed' = cmds'
      /\ Unasked' = Unasked /\ (Running <=> Running')
  BY DEF HostsAhead, Unlisted, Owed, Unasked, Running
<1> QED BY <1>1, <1>2, StepCounts

\* The steps of the loop body.
LEMMA HostStepCounts == Running /\ Counted /\ Counted' /\ HostStep => StepsLeft' < StepsLeft
<1> SUFFICES ASSUME Running, Counted, Counted', HostStep
             PROVE  StepsLeft' < StepsLeft
    OBVIOUS
<1> USE DEF Go, Stays, LeaveLister, listVars, permVars, infoVars, Running
<1>1. ASSUME UNCHANGED <<pc, found, elems, hosts, cur, cmds, permList>>, status' = "panic"
      PROVE  StepsLeft' < StepsLeft
  <2>1. HostsAhead' = HostsAhead /\ Owed' = Owed /\ Unlisted' = Unlisted /\ Unasked' = Unasked
    BY <1>1 DEF HostsAhead, Owed, Unlisted, Unasked, BeforePermissions, Early
  <2> QED BY <1>1, <2>1, StepCounts
<1>2. CASE (HostConfig /\ pc' = "cli") \/ HostConfigFails
  <2>1. /\ pc = "config" /\ pc' = "cli"
        /\ UNCHANGED <<found, elems, hosts, cur, cmds, permList>> /\ (Running <=> Running')
    BY <1>2 DEF HostConfig, HostConfigFails
  <2>2. HostsAhead' = HostsAhead /\ Owed' = Owed /\ Unlisted' = Unlisted /\ Unasked' = Unasked
    BY <2>1 DEF HostsAhead, Owed, Unlisted, Unasked, BeforePermissions, Early
  <2>3. InfoStage[pc'] < InfoStage[pc]
    BY <2>1 DEF InfoStage
  <2> QED BY <2>1, <2>2, <2>3, StepCounts
<1>3. CASE ExposeESXCli
  <2>1. HostsAhead' = HostsAhead /\ Owed' = Owed /\ Unlisted' = Unlisted /\ Unasked' = Unasked
    BY <1>3 DEF ExposeESXCli, HostsAhead, Owed, Unlisted, Unasked, BeforePermissions, Early
  <2>2. InfoStage[pc'] < InfoStage[pc] /\ (Running <=> Running')
    BY <1>3 DEF ExposeESXCli, InfoStage
  <2> QED BY <2>1, <2>2, StepCounts
<1>4. CASE HostDone
  <2>1. HostsAhead' = HostsAhead /\ Owed' = Owed /\ Unlisted' = Unlisted /\ Unasked' = Unasked
    BY <1>4 DEF HostDone, HostsAhead, Owed, Unlisted, Unasked, BeforePermissions, Early, Counted
  <2>2. InfoStage[pc'] < InfoStage[pc] /\ (Running <=> Running')
    BY <1>4 DEF HostDone, InfoStage
  <2> QED BY <2>1, <2>2, StepCounts
<1>5. HostConfig => (pc' = "cli" /\ UNCHANGED status)
                    \/ (status' = "panic" /\ UNCHANGED <<pc, found, elems, hosts, cur, cmds, permList>>)
  BY DEF HostConfig
<1>6. ASSUME NEW c \in EsxcliCommand,
             EsxcliFails(c) \/ \E a \in AnswersTo[c] : FormatAndSave(c, a) \/ FormatAndSavePanics(c, a)
      PROVE  StepsLeft' < StepsLeft
  <2>1. (Tried(c) /\ UNCHANGED status)
        \/ (status' = "panic" /\ UNCHANGED <<pc, found, elems, hosts, cur, cmds, permList>>)
    BY <1>6 DEF EsxcliFails, FormatAndSave, FormatAndSavePanics
  <2> QED BY <1>1, <2>1, EsxcliCounts
<1> QED BY <1>1, <1>2, <1>3, <1>4, <1>5, <1>6, NextHostCounts, EndCounts DEF HostStep

\* However many queries, hosts and commands fail, basic_info has finitely many
\* steps left, and each of its steps lowers their number.
THEOREM CommandIsBounded == Spec => [](StepsLeft \in Nat) /\ EveryStepCounts
<1>1. Counted => StepsLeft \in Nat
  BY EsxcliFinite DEF Counted, StepsLeft, Near
<1>2. Inv /\ Counted /\ Counted' /\ Running /\ CommandStep => StepsLeft' < StepsLeft
  BY VcStepCounts, HostStepCounts, EndCounts DEF CommandStep
<1>3. Inv /\ Counted /\ Counted' /\ [Next]_vars => [Tick \/ StepsLeft' < StepsLeft]_vars
  BY <1>2 DEF Next, Over
<1> QED BY Invariance, Typing, CountedSuffices, <1>1, <1>3, PTL DEF Spec, EveryStepCounts

=============================================================================
