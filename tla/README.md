# DFIR4vSphere-go in TLA+

DFIR4vSphere-go is an interactive tool that collects forensic data from a
vCenter or an ESXi host. This directory specifies the parts of it where steps
interleave, calls fail half-way, or sessions, events and files could get lost;
model-checks them with TLC; and proves the safety of the core with TLAPS.
Paths below are relative to the repository.

## 1. Inventory

| Component | Source | State | Operations | Talks to |
|---|---|---|---|---|
| vSphere client | `pkg/vsphere_api/client.go` | one global `vSphereClient`: vim client, SSO client, login and init flags, data context | `NewClient`, `LoginViaPassword`, `Login2SSOMgmt`, `Logout`, `ShowAPIVersion`, `IsVCenter`, `SetCtxData`, `GetCtxData` | the server (sessions); every command |
| Process and shell | `cmd/main.go`, `pkg/subcmds/try_reconn.go` | `sigChan` (capacity 1), `wgBackground`, two goroutines | start-up, prompt loop, `exit`, `try_reconnect`, deferred `Logout` | the client; the runtime's signal delivery |
| VI event export | `pkg/vsphere_api/vi_events.go`, `pkg/subcmds/retrieve_vi_evnt.go` | page channel (256), `resFinalLst`, done channel, event collectors on the server, the CSV file | `GetEventsFromMgr`, its collector and callback functions, `SortWrappedEvents` | event manager |
| Support bundle | `pkg/vsphere_api/support_bundle.go`, `pkg/subcmds/sbundle.go` | two wait groups, one goroutine per bundle, output files | generate, download | diagnostic manager, HTTP, progress logger, `wgBackground` |
| Progress logger | `pkg/vsphere_api/dumbProgressLogger.go` | one goroutine, sink and done channels | `newDumbProgressLogger`, `Sink`, `loopA`, `loopB`, `Wait` | the generation task |
| Inventory listing | `pkg/vsphere_api/lister.go`, the head of each file of `pkg/subcmds` | a container view, the list under way, entries in the data context, options and answer | `ListEsxiHost`, `ListDataCenter`, the paths and the question of a command | views and objects on the server; the client's data context |
| basic_info | `pkg/subcmds/basic_info.go`, `vc_basic_info.go`, `esx_host_basic_info.go` | `VCBasicInfo`, the host at hand, JSON report | permissions and the path of each, SSO queries, event age, configuration and esxcli commands of each host | listing, SSO login, ESXCLI runner |
| ESXCLI runner | `pkg/vsphere_api/esxcli_worker.go` | one CSV or JSON file for each answer | `GetInfoFunc2`, `FormatAndSave` | esxcli over the vim API |
| Rest | `pkg/common`, `utils.go`, `showhelp.go`, `scripts/`, start-up forms, telemetry | plain data | - | - |

What is hard, and what has to be right:

* **Client and shell.** Two goroutines, a signal channel that is read once and
  written by the runtime and by `exit`, a wait group, and a deferred `Logout`.
  Sessions must not be forgotten by reconnecting or leaving, `Logout` must not
  run beside a command, the half-built client must not be used, `exit` must end.
* **VI events.** A producer and a consumer over a bounded channel with an
  unsynchronised result slice; every server call can fail and most errors are
  only logged or dropped. On the way to the report no event may appear twice or be
  lost but to a failed call, the report must be taken after the last event, sorted,
  collectors must be destroyed, and the call must return.
* **Support bundle.** As many goroutines as bundles under two wait groups, and
  a logger that must end. Nothing may be left running when the call returns, a
  bundle called saved must be whole, one failure must not stop the others.
* **Listing.** Objects come and go between the calls of a listing; the list stays
  in the data context after its command; options and list are two slices joined
  by index. A command must work on what the user chose, from its own query.
* **basic_info and ESXCLI.** Sequential, with some forty calls that can fail. What
  came back must not be lost to the failure of another call (the code fails in this for
  solution users, and for a whole report when a host has no executor), a report must not
  hide a host that was left out, an answer must not overwrite another, a table must fit
  its header.

The hazards, each at its line and with the properties that cover it, are in
`PROJECT.json`.

## 2. Modules

| Module | What it is |
|---|---|
| `VSphereClient` | state and operations of the client and the server's session table |
| `Shell` | the process: both goroutines, signals, session expiry; extends `VSphereClient` |
| `ShellProofs` | TLAPS proofs about `Shell` |
| `EventExport` | abstract: what an event export promises |
| `VIEvents` | `GetEventsFromMgr` in detail; implements `EventExport` |
| `VIEventsProofs`, `VIEventsAccountProofs`, `VIEventsCallProofs` | TLAPS proofs about `VIEvents`: order of the two goroutines; account of the events; the call as a whole (refinement of `EventExport`, bound on its steps, existence of the report) |
| `ProgressLogger` | state and operations of the logger goroutine |
| `BundleRequest` | abstract: what one support bundle request promises |
| `SupportBundle` | `RequestSupportBundle`, downloads included; extends `ProgressLogger`; implements `BundleRequest`, and the end of `support_bundle` in `Shell` |
| `SupportBundleProofs` | TLAPS proofs about `SupportBundle` |
| `Lister` | state and operations of a listing and of the data context; extends `VSphereClient` |
| `ListerProofs` | lemmas about a listing, for the modules that extend `Lister` |
| `Selection` | `vi_events` and `support_bundle` up to their work, and `try_reconnect` between commands; extends `Lister`; implements these phases of `Shell` |
| `SelectionProofs` | TLAPS proofs about `Selection` |
| `EsxcliTable` | `FormatAndSave` as operators from an answer to the lines of a file |
| `BasicInfo` | one run of `basic_info`; extends `Lister` and `EsxcliTable`; implements it in `Shell` |
| `BasicInfoProofs` | TLAPS proofs about `BasicInfo` |
| `MC*` | constants for TLC |

`Shell` is at the same time the program's outermost module and the abstract
specification of its commands: it has each command as the sequence of its phases,
and `SupportBundle`, `Selection` and `BasicInfo` are shown to take only the steps it
allows them (`ImplementsShell` in each, a refinement mapping from the detailed
program counter to `shellPc`). The properties of `Shell` thus hold of the process
with the detailed commands in place of the phases; `SessionsKept` in `Selection` says so
of its sessions, and is proved that way.

`mainPc` and `shellPc` of `Shell` are the program counters of the two
goroutines; an action is one statement that the other goroutine, the server or
a signal can get between, with what follows it up to the next such statement.
`status` says how the process ended: `exited` (main returned), `fatal`
(`log.Fatalln`, which runs no deferred call), `panic`, `killed`. A vim or SSO
client is the session it carries: `NilPtr`, `Bare` (after `NewClient`), `Anon`
(an SSO client before its login) or a member of `Session`. `live` and `ssoLive`
are the server's view. `refused` is a ghost: sessions whose logout call returned
an error. `Logout` is two actions, because its second error replaces the first.
`vi_events`, `support_bundle` and `basic_info` are there as the sequence of their
phases (`list`, `ask`, `sso`, `work`, `download`).

In `VIEvents` the caller's counter is `pcP`, the consumer's is `pcC`. An event is
`<<object, id>>`, so one event found below two datacenters is two items, as it is
two rows in the file. Pages are sets, and the report is any ordering of the rows by
id: `sort.Sort` is not stable, so the code leaves no more of the inner order. The order
of the loop over `dcList` is left open. Four ghosts say what goes wrong: `lost`, the
events that a failed call drops with an error in the log (creating the collector, reading
a page, the category of an event, writing a row); `skipped`, the objects passed over
because the time query failed; `unsaved`, the rows that the CSV writer accepted and that
never reached the disk, as the deferred `Flush`, `Sync` and `Close` drop their errors;
`refused`, the collectors whose deferred `Destroy` the server answered with an error,
which the code drops.

In `SupportBundle` a file is the sequence of the bundles its blocks came from;
blocks of an earlier request are `Old`. `offset` is the file offset of each
download's own descriptor. Seen from `BundleRequest` a bundle is pending, saved or given
up (`OutcomeOf`: its URL is unusable, or its download failed). `parentWg` is `wgBackground`, which the shell goroutine
holds once.

In `Lister` a listing goes from `list` (session check, `CreateContainerView`) over
`find` to `elements`, where each object found becomes an element or is left out, and
ends in `SetCtxData`, with the deferred `Destroy` of the view. `inventory` is what
exists on the server; it changes between any two calls. `seen` is a ghost: what
`Find` returned to this command. `ctx` is the map behind `SetCtxData` and
`GetCtxData`, whose lock is never contended: one goroutine uses it. `ListEsxiHost` and
`ListDataCenter` are the same code for two kinds; `Key` and `Kind` tell them apart.

`Selection` adds `options` (the paths shown, one call each), `picked` (the paths the
user chose) and `targets` (the objects the command then works on, looked up by
index). A path stands for its object, since paths are unique. The work is one phase
here; it is in `VIEvents` and `SupportBundle`.

`BasicInfo` has one program counter for the whole command. `vcbi` is the report as a
set of facts, one for each query that fills a field of `VCBasicInfo`, and one for each
permission; `collected` is a ghost, the facts that came back. `RetrieveAllPermissions` only
gives the list (`permList`): each entry gets into the report with the inventory path of
its object, a call of its own (`InventoryPath`), which may fail for any of them
(`PathFails`) and then leaves a nil entry; `unnamed` is a ghost, the permissions it failed
for. `Onward` and `OnError` say where a query leads that
returns or fails: an error in `ListPermissions` goes on with the users, an error in
`ListAllUsers` with the age of events, an error for a host ends the command. A host's
configuration is a set of optional parts, of which a server may leave out one; a
converter is the set of parts it follows without looking (`Needs`), and meeting a nil
one ends the process. `cmds` are the esxcli commands still to run on this host, in any
order, as a Go map is ranged over. A file is the record of who wrote it and of its
lines, of which any first part may have reached the disk; `now` is the clock at the resolution of a file name.

An answer in `EsxcliTable` has a hint (table or not), the fields the hint names, and
rows as functions from keys to values. Fields and keys are numbers in the byte order
of their names, since that order is all that `sort.Strings` leaves of them.

Each module has operators named in a comment as "the faulty program": a bug that
code like this can have, next to the action it replaces. They are not part of any
specification; they show that each property would notice.

## 3. Runs

| Run (cfg) | Expected | Shows |
|---|---|---|
| `MCShell` | pass | types; no call through a bare client; sessions not forgotten by reconnects; a reconnect goes on with its old session open only where an SSO logout hid the error; sessions left open at the end of the process only for one of the causes `OpenSessionHasCause` names, or because the server refused; Logout alone with the client; exit reaches Logout or ends in the one hang described |
| `ShellExitHangs` | violation | `exit` blocks for ever when two interrupts came before it |
| `ShellNoForceExit` | violation | a second Ctrl-C does not force the exit the message promises |
| `ShellFatalLeaks` | violation | `log.Fatalln` leaves the session open |
| `ShellSsoLeaks` | violation | a second basic_info leaks the first SSO session |
| `MCVIEvents` | pass | events accounted for at every moment; in the report of a success exactly the requested events but those gone before the rows, those with a write error in the log, and a tail the disk refused unseen; rows taken after the last page; collectors destroyed unless the server refuses; no consumer left but an idle one; refinement of `EventExport`, the goroutines never wait for each other, termination |
| `VIEventsIncomplete` | violation | success is reported with events missing |
| `MCSupportBundle` | pass | both wait groups exact, nothing left behind, saved means whole, the logger of a success ends with the right verdict and only one without a task is left running, nobody waits in vain, refinement of `BundleRequest` (each bundle settled once, by itself, before the call returns) and of `Shell`, termination |
| `SupportBundleUnsaved` | violation | success is reported with bundles missing |
| `MCSelection` | pass | options and targets come from the command's own query, each once; targets are what the user chose; views are destroyed; sessions are kept; refinement of `Shell`; a listing ends |
| `MCBasicInfo` | pass | the report has every vCenter fact that came back, permissions without a path and solution users without person users apart, and exists only after every host; answers are kept; cells are under their header; refinement of `Shell`; each step brings the command nearer to its end |
| `BasicInfoUnsaved` | violation | what is read from a host's configuration is in no output |

The seven violations are findings in `PROJECT.json`; each property quotes the
document, message or comment it states.

**Bounds.** `Session` has three members, vim and SSO logins together: two
reconnects, or a reconnect and an SSO login before and after it, or two SSO logins.
A property here relates at most the current session and one earlier one. Signals
are unbounded (the channel holds one). `VIEvents`: two datacenters that share an
event, five events below the root, pages of two and a channel of one page, so that
a collector takes three pages, the producer blocks, and closing overlaps with
processing. `SupportBundle`: three bundles, two of them of the same file name, of
one or two blocks, over absent files or files of three blocks (`OldFile`), so that a
download can be shorter than what it overwrites and can meet another in its file.
`Selection`: two hosts, one datacenter, two vim sessions. Two hosts come and go, so a
list can differ from an older one in what it holds, in length and in order, and either
can be missing from it; one reconnect lets a list outlive its session; commands follow
each other without a bound. `BasicInfo`: two hosts of the same base name; one esxcli
command that may answer with a table that has a gap, or with rows that are saved as
JSON, and one whose answer has no row; a clock that goes on by at most `MaxClock` = 1
second. That is enough for two answers to meet in a file name and for them not to. At
most one part of a configuration is missing, as one nil pointer ends the process. The
inventory does not change in `BasicInfo`, and no session expires there: any call may
fail anyway, which is all the command can see of it. The clock stands still except
while esxcli commands run, since only file names are made of it. A vCenter has at most
two permissions, so that one path can fail before or after another is found. Nothing tells
hosts or permissions apart, so this run is checked up to a permutation of either
(`MCSymmetry`); all its properties are of states or of steps, for which that is sound.

**Deadlock** is checked everywhere. A process that has ended, or a call that has
returned, stutters (`Terminated`), so that a blocked goroutine does show. In
`Shell` an interrupt is possible as long as the channel is open, so a hang does
not show as a deadlock: that is what `ExitTerminates` is for.

**Fairness.** In `Shell` only steps that wait for neither the user nor the server
are fair: receiving from the channel, the wait group, the sleep, the send and the
close of `exit`. That is the Go scheduler's promise and no more. In `VIEvents` and
`SupportBundle` the goroutines are weakly fair as a whole, which includes that the
server answers each call in the end, with a result or an error: no call in the code
has a time limit (`context.Background()` everywhere), and without this
assumption nothing terminates. A download is fair goroutine by goroutine. The same
holds of `Selection`, whose commands are weakly fair as a whole: each call is answered
or fails, and the user answers the question or interrupts it. Whether the user starts
another command, and whether objects come and go, is left free. `BasicInfo` needs no
fairness: that its command ends is shown by a bound on its steps and the absence of
deadlock (section 4).

## 4. Proofs

All safety properties and action properties of the passing runs, the refinements
`ImplementsShell` (of `SupportBundle`, `Selection` and `BasicInfo`), `ImplementsExport` and
`ImplementsRequest`, and three liveness properties (see the end of this section) are
proved for every value of the constants. The proofs use the named assumptions of the
modules: `PointersAssumption` (the sentinels are no sessions);
`RootAssumption`, `EventsAssumption`, `SizesAssumption` and `FiniteAssumption` (finitely
many datacenters, each with finitely many events); `BundleAssumption` (finitely many
bundles), `SizeAssumption` and `NameAssumption`; `InventoryAssumption` (finitely many
objects); `BasicInfoAssumption` (some session exists, an esxcli answer is a sequence of
rows, names are strings, finitely many esxcli commands); `PermissionAssumption` (finitely
many permissions, none of which is another fact). The finiteness assumptions for events,
objects, commands and permissions serve only the bounds on steps.

`ShellProofs` proves

    Spec => []TypeOK, []NoBareAccess, []OnlyRefusedSessionsLeak,
            []OpenSessionHasCause, []WayOutIsAlone, []ReconnectDropsSession

None of these is inductive: which sessions a process leaves open depends on what
the shell did in a reconnect before. `IInv` adds the account of the wait group
(`WgAccount`: 1 for a live shell, 2 in a download), the phases of the two goroutines
(`Phases`: the shell exists from `StartShell` to `ExitClose`, and main is past the
wait only after it), where the goroutines were when the process ended (`Endings`), what the client is at each place (`ClientFilled`), and what the
first half of Logout leaves (`LoggedOut`). `OpenSessionHasCause` then is a matter of cases:
of the endings `Endings` allows, those it does not name are before the login, between the
logout and the login of a reconnect, or behind a Logout. One lemma for each group of actions shows
that its steps keep `IInv`; `Invariance` puts them together, and each property follows
from `IInv` in one step.

The proofs about `VIEvents` are in three modules, each built on the one before:

    VIEventsProofs         Spec => []DrainedBeforeReport, []CollectorsClosed,
                                   []OnlyIdleConsumerLeft, []NeverBothWait
    VIEventsAccountProofs  Spec => []TypeOK, []EachEventOnce, []SuccessAccountsForAll
    VIEventsCallProofs     Spec => ImplementsExport, EveryStepCounts,
                                   [](Sorted(rows) # {})

The report is taken from a slice without a lock, and what protects it are only the
order of close, the last receive and the answer on the done channel. `Sync` says
so: the caller closes the channel only behind its loop, the consumer signals only
when the channel is closed and empty, and the caller creates the file only after the
signal. `RootFirst` adds that the time query for the root folder comes before any page,
so that the one way out that leaves the consumer behind leaves it idle. A collector the
server refuses to destroy stays open for good, so `CollectorsClosed` needs that the next
turn is never for the same object: `OneCollectorEach`. `Account` says
where the events are: `Split` divides the requested ones over the places they can be in
(not asked for, in the collector, held by the caller, in the channel, in the page of the
consumer, in a row, gone), no two pages share an event, no row is written twice, and up
to the return no event that is gone is in a row (`LostApart`), which is what makes the report of
`SuccessAccountsForAll` exact and not just large enough. A
step moves events from one place to the next, and one lemma per group of steps shows
what it moves. `NeverBothWait` follows from `Sync`, as a channel that is full is not
empty and the caller waits for the end of the consumer only behind the close. For the
refinement, the rows that are written are a sorted arrangement of
the rows collected (`SortedIsReport`), and each step is `Collect`, `Publish`, `Fail` or
a stutter. That there is such an arrangement, however many rows there are
(`ReportCanBeWritten`), is proved by insertion, one row after the other. The library's
induction theorems cannot be cited for it; the least number of rows for which it would
fail serves as well (`LeastNumber`, from the well-founded order on the subsets of a finite
set).

`SupportBundleProofs` proves

    Spec => []TypeOK, []WaitGroupsAccount, []SavedBundleIsWhole, []NobodyWaitsInVain,
            []OnlyTasklessLoggerLeft, ImplementsRequest, ImplementsShell, EveryStepCounts

`WaitGroupsAccount` rests on `CountInv`: the wait group is the cardinality of the
active downloads (`ActiveGrows`, `ActiveShrinks`, `ActiveSame`). `Phases` says that
downloads are of generated bundles with a usable URL and active in the fetch phase only,
`Tried` that a generated bundle is waiting, or has no usable URL, or was started. That is
what the refinement of `BundleRequest` needs: a step of the loop or of a download settles at
most its own bundle, which was pending, or settles none; and when the inner wait group is
at 0 and the loop is through, no bundle is pending and the request may finish. Up to the
answer of the task the request is as it was asked, and an error ends it there.
`SavedBundleIsWhole` needs how far each download got: `FileInv` says that the first
`offset[b]` blocks of a file that no other download uses are those of `b`. All
steps but `CopyBlock` are `Harmless` to it. `RestInv` has what only `TypeOK` needs.

`SelectionProofs` proves

    Spec => []TypeOK, []FreshTargets, []ChosenIsTarget, []ViewDestroyed, []SessionsKept,
            ImplementsShell, EveryStepCounts

`Listed` (in `ListerProofs`) says that a list under way has objects the query found, each
once, and none that is still to be looked at; `Shown` that from the end of a listing on
the data context holds this list under the key of the command, and the options are its
first part; `Chosen` that an answer exists only while the command works. A stale list is
excluded by `Shown`: a command gets past `list` only by its own `SetCtxData`.
`SessionsKept` is not proved from the actions of `Selection`: `IInv` of `ShellProofs`
holds at the first prompt under the refinement mapping (`PromptIInv`), each step is a step
of `Shell` (`NextIsShellStep`), and such steps keep `IInv` (`NextKeepsIInv`, cited through
an `INSTANCE` of `ShellProofs`).

`BasicInfoProofs` proves

    Spec => []TypeOK, []VcFactsSaved, []ReportAfterEveryHost, []AnswersKept,
            []CellsUnderTheirHeader, ImplementsShell, EveryStepCounts

`Facts` says that the report is at every moment what came back, without permissions that
still wait for their path or have none, and without solution users that still wait for
the person users; that permissions come once, and users in order; `Progress` how far
the loop got: on the hosts before the one at hand every esxcli command was tried, on those
behind it none, and on it those not in `cmds`. That needs the list to have no host twice,
which is `Listed`. `Disk` says that a file name gives the command and the second, so an
answer can only be overwritten by a host that did not try the command before, which is
another one. `FirstLines` ties the lines of a file to its answer; `TableLines` and
`CellsFit` are what formatting makes of one.

**The way out.** Liveness is proved where it needs no induction, that is where the
number of steps to the goal is fixed:

    Spec /\ Scheduled => ExitReachesLogout, ExitEndsOrHangs          (ShellProofs)
    Spec => HungForEver                                              (ShellProofs)
    Spec /\ LoggerScheduled => SuccessIsShown                        (SupportBundleProofs)

An exit passes from `exitSend` over `exitClose`, the receive and the wait of main and the
sleep to Logout, in one of few orders; each place leads to the next by the fairness of one
goroutine, while no other step leads anywhere else (`LeavingGoesOn`, `FairStepLeads`). The
one place that leads nowhere is `Hung`, the finding of `ShellExitHangs`: so that is the only
way in which `exit` can fail. Weak fairness speaks of ENABLED, which the prover takes as a
black box. So the hypotheses state the scheduling with the conditions of the statements
written out (`Scheduled`, `LoggerScheduled`): a goroutine does not stay for good where there
is a value in the channel it receives from, or a counter it waits for at 0. The runs
`MCShell` and `MCSupportBundle` check the same properties under `FairSpec`.

**Bounds on steps.** That a call with loops returns cannot be proved here, since it takes
an induction over the number of steps left with a temporal formula as its claim. What the induction needs is: `StepsLeft` is a
natural number, every step of the call lowers it (`EveryStepCounts`, theorems
`CallIsBounded` and `CommandIsBounded`), and in the two concurrent components some step is
always to come (`NeverBothWait`, `NobodyWaitsInVain`). In `VIEvents` it counts, for each
event, the stages of the pipeline before it (`NotRead`, `NotSent`, `NotReceived`,
`NotProcessed`), in `SupportBundle` bundles, stages of downloads and blocks, in `Selection`
the objects to look at and the paths to show, in `BasicInfo` the queries ahead and, for
each host ahead, the steps of the loop body, and the permissions whose path may still be
asked for (`Unasked`). Left out are only steps somebody else causes
without a bound: a report of progress of the task (`TaskProgress`), the clock (`Tick`), and
in `Selection` the start of the next command. The bound of `BasicInfo` is checked by its
run as well, where, with deadlock checked, it means that the command returns or panics. The
other bounds, `HungForEver` and `ExitReachesLogout` are defined in the proof modules and
shown by the proofs alone; the runs check what those calls are to do in the end
(`ExitEndsOrHangs`, `SuccessIsShown`, `Returns`, `ListingEnds`).

Only model-checked: `Returns` of both modules and `ListingEnds`, which need that induction
and that calls are answered.

## 5. What is taken from outside, and what is left out

* govmomi is not part of the repository and is modelled from its use: a login gives
  a new session and a failed one leaves none; `Logout` closes the session, or returns
  an error and may or may not have closed it; `ReadNextEvents` returns each event
  once and an empty page at the end; `WaitForResult` calls `Sink` first, delivers the
  last report and closes the channel. The on-disk cache of `cache.Session` is not
  modelled.
* A SIGINT before `signal.Notify` ends the process; afterwards it goes to the
  channel without blocking, and panics once the channel is closed. While a prompt is
  open the terminal is raw and Ctrl-C is an error of the prompt.
* The download goroutines assign equal values to the fields of the shared HTTP client
  without a lock. Since the values are equal no modelled state depends on the race.
* esxcli answers, configurations of hosts, permissions and SSO queries come from outside
  too: an esxcli command fails or gives one of `AnswersTo`, a configuration lacks at most one
  part, a query returns its fact or fails.
* Not modelled: start-up questions, telemetry, help text, log lines, proxy and TLS
  settings, scripts; the cells of the event CSV; how a converter turns a value into its
  output form (certificates, users, roles) except for the pointers it follows and the call
  a permission takes; values of
  several strings, which `FormatAndSave` joins. The maximum age of events only decides
  which events are requested; that the report has -1 for an unknown one is not told apart
  from an age.
* `CellsUnderTheirHeader` says nothing of answers whose fields and keys differ in number
  or order: the code sorts both and nothing makes them agree. Keys that only later rows
  have are in no file (`Columns`). Both are listed as hazards.
* `generateSupportBundle` ignores the chosen hosts on a standalone ESXi server, as the
  help says; question and answer are modelled all the same, as the code asks there too. The report is called
  `VCenter_BasicInfo_<time>.json`, where the help says `BasicInfo_<time>.json`; names of
  reports are not modelled. The branch of `GetInfoFunc2` that makes up a machine name is
  dead, since `filepath.Base` never returns an empty string, and is left out.

## 6. Plan

Done: every component of section 1 but the last row, the composition of the commands
with `Shell`, and the proofs of section 4, bounds on steps and the way out included.

What could follow, in this order:

1. The start-up of `main` (URL, proxy, credentials) as a form whose answers decide what
   `NewClient` gets. It is sequential and has no state that outlives it.
2. Values of several strings in `EsxcliTable`, with the join that may make two different
   answers look the same.
