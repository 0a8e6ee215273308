------------------------------ MODULE BasicInfo ------------------------------
(***************************************************************************)
(* One run of basic_info: pkg/subcmds/basic_info.go, the vCenter queries   *)
(* of vc_basic_info.go, the host queries of esx_host_basic_info.go and the *)
(* esxcli commands of esxcli_worker.go.                                    *)
(*                                                                         *)
(* The command fills a report (vcbi) from a chain of queries to a vCenter, *)
(* each of which may fail without ending the command.  Then it goes over   *)
(* the hosts: it reads the configuration of a host, runs the esxcli        *)
(* commands there and writes a file for each answer.  At last it saves the *)
(* report.  What a query returns is a fact; only the permissions, each of  *)
(* which takes a call of its own, and esxcli answers are taken apart.      *)
(*                                                                         *)
(* Every call may fail, at any time and with no regard to the calls before *)
(* it.  That covers a session or a host the server drops meanwhile, so     *)
(* neither is a step of its own.                                           *)
(***************************************************************************)
EXTENDS Lister, EsxcliTable

CONSTANTS
  EsxcliCommand,  \* keys of esxCLIcmdLst
  AnswersTo,      \* for each of them, the answers a host may give
  BaseName,       \* last part of the inventory path of each host
  Permission,     \* permissions a vCenter may have, each a fact
  MaxClock        \* seconds the clock may go on during the command

ASSUME BasicInfoAssumption ==
  /\ MaxClock \in Nat
  /\ Session # {}
  /\ IsFiniteSet(EsxcliCommand)
  /\ BaseName \in [Host -> STRING]
  /\ DOMAIN AnswersTo = EsxcliCommand
  /\ \A c \in EsxcliCommand : \A a \in AnswersTo[c] : a.rows \in Seq(Range(a.rows))

VARIABLES
  status,     \* "running" or "panic"
  vcbi,       \* facts about the vCenter in the report
  permList,   \* permissions still to be put into the report
  hosts,      \* ESXHostObjs and ESXHostList
  cur,        \* index of the host at hand
  cmds,       \* esxcli commands the host at hand has still to run
  now,        \* the clock, in seconds
  files,      \* output files of esxcli answers, by name
  saved,      \* the report has been written
  report,     \* what was written
  collected,  \* ghost: facts that queries returned
  unnamed,    \* ghost: permissions whose inventory path was not found
  ran,        \* ghost: <<host, esxcli command>> that were tried
  written     \* ghost: the files that were ever written

permVars  == <<permList, unnamed>>
infoVars  == <<vcbi, permVars, hosts, cur, cmds, saved, report, collected, ran>>
fileVars  == <<files, written>>
vars == <<clientVars, inventory, pc, cmd, ctx, listVars, status, infoVars, now, fileVars>>

VcFact == {"roles", "idps", "groups", "soUsers", "pUsers", "policy", "maxAge"}

HostFact == {"product", "services", "auth", "dns", "ioFilters", "cert", "vSwitches",
             "portGroups", "nics"}

ASSUME PermissionAssumption ==
  IsFiniteSet(Permission) /\ Permission \cap (VcFact \cup HostFact) = {}

TypeOK ==
  /\ ClientTypeOK
  /\ ListerTypeOK
  /\ pc \in VcFact \cup {"list", "find", "elements", "listed", "perms", "paths", "sso",
                         "hosts", "config", "cli", "run", "create", "prompt"}
  /\ cmd \in {"basic_info", "none"}
  /\ status \in {"running", "panic"}
  /\ vcbi \subseteq collected /\ collected \subseteq VcFact \cup HostFact \cup Permission
  /\ permList \cup unnamed \subseteq collected \cap Permission
  /\ hosts \in Seq(Host)
  /\ cur \in 1..Len(hosts) + 1
  /\ cmds \subseteq EsxcliCommand
  /\ now \in 0..MaxClock
  /\ saved \in BOOLEAN /\ report \subseteq VcFact \cup Permission
  /\ ran \subseteq Host \X EsxcliCommand
  /\ DOMAIN files = {w.name : w \in written}

\* Just after the command was read, in a session without SSO client.  An ESXi
\* server is its only host.
Init ==
  /\ serverIsVC \in BOOLEAN
  /\ ListerInit
  /\ inventory \in IF serverIsVC THEN {Object} ELSE {{h} : h \in Host}
  /\ soap = (CHOOSE s \in Session : TRUE) /\ live = {soap} /\ issued = {soap}
  /\ sso = NilPtr /\ ssoLive = {} /\ refused = {}
  /\ loggedIn = TRUE /\ postInit = TRUE /\ logoutErr = FALSE
  /\ pc = "list" /\ cmd = "basic_info" /\ status = "running"
  /\ vcbi = {} /\ hosts = <<>> /\ cur = 1 /\ cmds = {}
  /\ now = 0 /\ files = [n \in {} |-> <<>>]
  /\ saved = FALSE /\ report = {}
  /\ permList = {} /\ unnamed = {}
  /\ collected = {} /\ ran = {} /\ written = {}

Running == status = "running"

LeaveLister == UNCHANGED <<inventory, ctx, listVars>>

\* A step of the command after its listing that stays in it.
Stays == LeaveLister /\ UNCHANGED <<cmd, status>>

\* An error that ends the command without a report.
GiveUp(from) ==
  /\ EndCommand(from)
  /\ UNCHANGED <<clientVars, inventory, ctx, view, status, infoVars, fileVars, now>>

-----------------------------------------------------------------------------
(* The listing, and the queries to a vCenter.                              *)

ListStep ==
  /\ Listing
  /\ UNCHANGED <<status, infoVars, fileVars, now>>

\* The faulty program that puts the vCenter queries to any server.
TakeHostsAsVCenter ==
  /\ Go("listed", "roles")
  /\ hosts' = ctx[Key]
  /\ Stays
  /\ UNCHANGED <<clientVars, vcbi, permVars, cur, cmds, saved, report, collected, ran, fileVars,
                 now>>

TakeHosts ==
  /\ Go("listed", IF IsVCenter THEN "roles" ELSE "hosts")
  /\ hosts' = ctx[Key]
  /\ Stays
  /\ UNCHANGED <<clientVars, vcbi, permVars, cur, cmds, saved, report, collected, ran, fileVars,
                 now>>

Query == VcFact \ {"maxAge"}

\* Where the command goes on after a query that returned, or failed.
Onward == [roles |-> "perms", idps |-> "groups", groups |-> "soUsers",
           soUsers |-> "pUsers", pUsers |-> "policy", policy |-> "maxAge"]

OnError(q) == IF q \in {"roles", "perms"} THEN "sso" ELSE "maxAge"

\* Solution users are kept in a local slice until the person users come.
StoredBy(q) ==
  IF q = "soUsers" THEN {} ELSE IF q = "pUsers" THEN {"soUsers", "pUsers"} ELSE {q}

QueryReturns(q) ==
  /\ Go(q, Onward[q])
  /\ collected' = collected \cup {q}
  /\ vcbi' = vcbi \cup StoredBy(q)
  /\ Stays
  /\ UNCHANGED <<clientVars, permVars, hosts, cur, cmds, saved, report, ran, fileVars, now>>

\* The faulty program that stores a result before it looks at the error.
QueryFailsAndStores(q) ==
  /\ Go(q, OnError(q))
  /\ vcbi' = vcbi \cup {q}
  /\ Stays
  /\ UNCHANGED <<clientVars, permVars, hosts, cur, cmds, saved, report, collected, ran, fileVars,
                 now>>

\* Logged only.
QueryFails(q) ==
  /\ Go(q, OnError(q))
  /\ Stays
  /\ UNCHANGED <<clientVars, infoVars, fileVars, now>>

\* The list of permissions, which may be empty.  What has come back is not yet
\* in the report: each entry needs the inventory path of its object first.
RetrieveAllPermissions ==
  /\ Go("perms", "paths")
  /\ permList' \in SUBSET Permission
  /\ collected' = collected \cup permList'
  /\ Stays
  /\ UNCHANGED <<clientVars, vcbi, unnamed, hosts, cur, cmds, saved, report, ran, fileVars, now>>

\* A call to the server for each permission, in the order of the list.
NextPermission(p) ==
  /\ pc = "paths" /\ p \in permList
  /\ permList' = permList \ {p}
  /\ Stays
  /\ UNCHANGED <<clientVars, pc, hosts, cur, cmds, saved, report, collected, ran, fileVars, now>>

InventoryPath(p) ==
  /\ NextPermission(p)
  /\ vcbi' = vcbi \cup {p}
  /\ UNCHANGED unnamed

\* The faulty program that leaves the loop at the first error.
PathFailsAndBreaks(p) ==
  /\ Go("paths", "sso") /\ p \in permList
  /\ permList' = {}
  /\ unnamed' = unnamed \cup {p}
  /\ Stays
  /\ UNCHANGED <<clientVars, vcbi, hosts, cur, cmds, saved, report, collected, ran, fileVars, now>>

\* Logged, and the entry of this permission in the report stays nil.
PathFails(p) ==
  /\ NextPermission(p)
  /\ unnamed' = unnamed \cup {p}
  /\ UNCHANGED vcbi

PermissionsDone ==
  /\ Go("paths", "sso")
  /\ permList = {}
  /\ Stays
  /\ UNCHANGED <<clientVars, infoVars, fileVars, now>>

\* Without an SSO login the queries that need it are left out.
SsoLogin ==
  /\ Login2SSOMgmt
  /\ Go("sso", IF sso' \in Session THEN "idps" ELSE "maxAge")
  /\ Stays
  /\ UNCHANGED <<infoVars, fileVars, now>>

\* The server may not answer, or not know the option: the report then has the
\* -1 of an age that is not known.
GetEventMaxAge ==
  /\ Go("maxAge", "hosts")
  /\ \/ vcbi' = vcbi \cup {"maxAge"} /\ collected' = collected \cup {"maxAge"}
     \/ UNCHANGED <<vcbi, collected>>
  /\ Stays
  /\ UNCHANGED <<clientVars, permVars, hosts, cur, cmds, saved, report, ran, fileVars, now>>

VcStep ==
  \/ ListStep \/ TakeHosts \/ RetrieveAllPermissions \/ PermissionsDone
  \/ SsoLogin \/ GetEventMaxAge
  \/ \E q \in Query : QueryReturns(q)
  \/ \E q \in Query \cup {"perms"} : QueryFails(q)
  \/ \E p \in Permission : InventoryPath(p) \/ PathFails(p)

-----------------------------------------------------------------------------
(* RetrieveESXiHostBasicInfo: host after host.                             *)

\* ErrNoObjectInMoList.
NoHosts ==
  /\ hosts = <<>>
  /\ GiveUp("hosts")

NextHost ==
  /\ Go("hosts", IF cur <= Len(hosts) THEN "config" ELSE "create")
  /\ hosts # <<>>
  /\ Stays
  /\ UNCHANGED <<clientVars, infoVars, fileVars, now>>

\* What a server may leave out of a configuration, and which converters use
\* it through a pointer they do not look at first.
Part == {"service", "sourcePackage", "authMgr", "smartCard", "network", "dnsConfig",
         "security", "vnicIp"}

Needs == [services   |-> {"service", "sourcePackage"},
          auth       |-> {"authMgr", "smartCard"},
          dns        |-> {"network", "dnsConfig"},
          vSwitches  |-> {"network"},
          portGroups |-> {"network", "security"},
          nics       |-> {"network", "vnicIp"}]

\* GetInfoFunc1, with at most one part left out.  The certificate is a query
\* of its own, which may fail.
HostConfig ==
  /\ pc = "config"
  /\ \E parts \in {Part} \cup {Part \ {p} : p \in Part} :
       IF \A f \in DOMAIN Needs : Needs[f] \subseteq parts
         THEN /\ pc' = "cli" /\ UNCHANGED status
              /\ \E got \in {HostFact, HostFact \ {"cert"}} : collected' = collected \cup got
         ELSE status' = "panic" /\ UNCHANGED <<pc, collected>>
  /\ LeaveLister
  /\ UNCHANGED <<clientVars, cmd, vcbi, permVars, hosts, cur, cmds, saved, report, ran, fileVars,
                 now>>

HostConfigFails ==
  /\ Go("config", "cli")
  /\ Stays
  /\ UNCHANGED <<clientVars, infoVars, fileVars, now>>

ExposeESXCli ==
  /\ Go("cli", "run")
  /\ cmds' = EsxcliCommand
  /\ Stays
  /\ UNCHANGED <<clientVars, vcbi, permVars, hosts, cur, saved, report, collected, ran, fileVars,
                 now>>

\* The faulty program that leaves the loop and saves what it has.
NoExecutorBreaks ==
  /\ Go("cli", "create")
  /\ Stays
  /\ UNCHANGED <<clientVars, infoVars, fileVars, now>>

\* A host without an executor ends the command, whatever is collected.
NoExecutor == GiveUp("cli")

-----------------------------------------------------------------------------
(* GetInfoFunc2: the esxcli commands, in the order a Go map is ranged over.*)

Tried(c) ==
  /\ pc = "run" /\ c \in cmds
  /\ cmds' = cmds \ {c}
  /\ ran' = ran \cup {<<hosts[cur], c>>}
  /\ UNCHANGED <<clientVars, pc, cmd, vcbi, permVars, hosts, cur, saved, report, collected, now>>
  /\ LeaveLister

\* The call fails, or the file cannot be created.
EsxcliFails(c) ==
  /\ Tried(c)
  /\ UNCHANGED <<status, fileVars>>

\* The faulty program that leaves the time out of the name.
FileNameWithoutTime(c, a) == <<BaseName[hosts[cur]], c, IF IsCsv(a) THEN "csv" ELSE "json">>

FileName(c, a) == <<BaseName[hosts[cur]], c, now, IF IsCsv(a) THEN "csv" ELSE "json">>

\* os.Create empties a file of the same name.  A write that fails leaves any
\* first part of the content: the buffer of the csv writer goes to disk when it
\* is full, and at last in Flush, whose error nobody looks at.  A line that is
\* cut short is taken for missing.
FormatAndSave(c, a) ==
  /\ Tried(c)
  /\ a.rows # <<>>
  /\ \E n \in 0..Len(Content(a)) :
       LET w == [name |-> FileName(c, a), at |-> now, host |-> hosts[cur], answer |-> a,
                 lines |-> SubSeq(Content(a), 1, n)]
       IN  /\ files' = [f \in DOMAIN files \cup {w.name} |-> IF f = w.name THEN w ELSE files[f]]
           /\ written' = written \cup {w}
  /\ UNCHANGED status

\* resp.Values[0] of an answer that has no row.
FormatAndSavePanics(c, a) ==
  /\ pc = "run" /\ c \in cmds
  /\ a.rows = <<>>
  /\ status' = "panic"
  /\ LeaveLister
  /\ UNCHANGED <<clientVars, pc, cmd, infoVars, fileVars, now>>

\* The faulty program that does not go on to the next host.
HostDoneSameHost ==
  /\ Go("run", "hosts")
  /\ cmds = {}
  /\ Stays
  /\ UNCHANGED <<clientVars, infoVars, fileVars, now>>

HostDone ==
  /\ Go("run", "hosts")
  /\ cmds = {}
  /\ cur' = cur + 1
  /\ Stays
  /\ UNCHANGED <<clientVars, vcbi, permVars, hosts, cmds, saved, report, collected, ran, fileVars,
                 now>>

HostStep ==
  \/ NoHosts \/ NextHost \/ HostConfig \/ HostConfigFails \/ ExposeESXCli \/ NoExecutor \/ HostDone
  \/ \E c \in EsxcliCommand :
       \/ EsxcliFails(c)
       \/ \E a \in AnswersTo[c] : FormatAndSave(c, a) \/ FormatAndSavePanics(c, a)

-----------------------------------------------------------------------------
(* The report.                                                             *)

SaveReport ==
  /\ EndCommand("create")
  /\ saved' = TRUE
  /\ report' = vcbi
  /\ UNCHANGED <<clientVars, inventory, ctx, view, status, vcbi, permVars, hosts, cur, cmds,
                 collected, ran, fileVars, now>>

ReportNotSaved == GiveUp("create")

-----------------------------------------------------------------------------

CommandStep == VcStep \/ HostStep \/ SaveReport \/ ReportNotSaved

\* A second goes by.  The clock is read only to name files.
Tick ==
  /\ pc = "run"
  /\ now < MaxClock
  /\ now' = now + 1
  /\ LeaveLister
  /\ UNCHANGED <<clientVars, pc, cmd, status, infoVars, fileVars>>

Over == (pc = "prompt" \/ ~Running) /\ UNCHANGED vars

Next ==
  \/ Running /\ (CommandStep \/ Tick)
  \/ Over

Spec == Init /\ [][Next]_vars

-----------------------------------------------------------------------------

\* The report holds every vCenter fact a query returned, however many queries
\* before and after it failed, but for the two sorts that a later call can take
\* out again: a permission whose inventory path is not found, the others being
\* kept (vc_basic_info.go:154-161), and the solution users when the person users
\* do not come (vc_basic_info.go:244-295).
VcFactsSaved ==
  saved =>
    report = {f \in collected \cap (VcFact \cup Permission) :
                f \notin unnamed /\ (f = "soUsers" => "pUsers" \in collected)}

\* A report exists only when every esxcli command was tried on every listed
\* host: a host that is skipped does not go unnoticed behind a report.
ReportAfterEveryHost ==
  saved => \A i \in DOMAIN hosts, c \in EsxcliCommand : <<hosts[i], c>> \in ran

\* An answer that was written stays on disk, until a host of the same name
\* gives an answer to the same command in the same second (esxcli_worker.go:87).
AnswersKept ==
  \A w \in written :
    files[w.name] = w
      \/ \E v \in written : files[w.name] = v /\ v.host # w.host /\ v.at = w.at

\* The cells of a table are under the title of their key, where fields and
\* keys agree, also in rows that lack a key (esxcli_worker.go:101,112,141).
CellsUnderTheirHeader ==
  \A n \in DOMAIN files :
    LET f == files[n]
    IN  IsCsv(f.answer) /\ Aligned(f.answer) =>
          \A r \in 2..Len(f.lines) : \A i \in DOMAIN f.lines[1] :
            LET row == f.answer.rows[r - 1]
                key == KeyOf[f.lines[1][i]]
            IN  f.lines[r][i] = IF key \in DOMAIN row THEN row[key] ELSE Blank

\* The command in detail does what Shell takes it to do: list, log in to SSO at
\* most once and only at a vCenter, work, and come back or panic.
S == INSTANCE Shell WITH
       mainPc <- "recv",
       shellPc <- CASE pc \in {"list", "find", "elements", "listed"} -> "list"
                    [] pc \in {"roles", "perms", "paths", "sso"} -> "sso"
                    [] pc = "prompt" -> "prompt"
                    [] OTHER -> "work",
       sigBuf <- 0, sigClosed <- FALSE, wg <- 1

ImplementsShell == [][S!Next]_S!vars

-----------------------------------------------------------------------------
(* How far the command still has to go.                                    *)

Early == {"list", "find", "elements", "listed"}

BeforePermissions == Early \cup {"roles", "perms"}

InfoStage ==
  [list |-> 17, find |-> 16, elements |-> 15, listed |-> 14,
   roles |-> 13, perms |-> 12, paths |-> 11, sso |-> 10, idps |-> 9, groups |-> 8, soUsers |-> 7,
   pUsers |-> 6, policy |-> 5, maxAge |-> 4,
   hosts |-> 2, config |-> 5, cli |-> 4, run |-> 3, create |-> 1, prompt |-> 0]

\* Hosts the command has not come to, and esxcli commands it owes the one at hand.
HostsAhead ==
  CASE pc \in {"list", "find", "elements", "listed"} -> Cardinality(Unlisted) + Len(elems)
    [] pc \in {"config", "cli", "run"} -> Len(hosts) - cur
    [] pc = "prompt" -> 0
    [] OTHER -> Len(hosts) - cur + 1

Owed == IF pc \in {"config", "cli"} THEN EsxcliCommand ELSE cmds

\* Permissions whose path may still be asked for.
Unasked == IF pc \in BeforePermissions THEN Permission ELSE permList

\* The steps of the loop body for one host.
StepsPerHost == Cardinality(EsxcliCommand) + 4

\* A bound on the steps of the command; a panic is one, too.
StepsLeft ==
  InfoStage[pc] + (IF Running THEN 1 ELSE 0) + Cardinality(Unlisted) + Cardinality(Owed)
    + Cardinality(Unasked) + StepsPerHost * HostsAhead

\* Whichever queries fail, the command only goes forward: no query, host or
\* esxcli command is come to twice, so each step but a tick of the clock lowers
\* the bound.
EveryStepCounts == [][Tick \/ StepsLeft' < StepsLeft]_vars

-----------------------------------------------------------------------------

\* "Will collect the following information: [x] Get running service status"
\* (full-help.md:69-75), in the output BasicInfo_<Unix Timestamp>.json: what the
\* command collected is in what it saves.  GetInfoFunc1 fills a struct that
\* RetrieveESXiHostBasicInfo never stores.
CollectedIsSaved == saved => collected \subseteq report

=============================================================================
