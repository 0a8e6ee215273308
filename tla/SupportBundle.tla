---------------------------- MODULE SupportBundle ----------------------------
(***************************************************************************)
(* One call of RequestSupportBundle (pkg/vsphere_api/support_bundle.go).   *)
(* The caller has the server generate the bundles, while a progress logger *)
(* prints, then starts one goroutine per bundle to download it into a file *)
(* of the output directory, and waits for all of them.  The wait group of  *)
(* the process, parentWg, keeps main from leaving meanwhile.               *)
(*                                                                         *)
(* A bundle is a sequence of blocks; a file is known by the bundle each of *)
(* its blocks came from.  Files of an earlier request may exist, and two   *)
(* bundles whose URLs have the same last element share a file.             *)
(***************************************************************************)
EXTENDS ProgressLogger, Sequences, FiniteSets

CONSTANTS
  Bundle,  \* the bundles the server may generate
  Size,    \* their number of blocks
  File,    \* names in the output directory
  NameOf,  \* path.Base of the URL of a bundle
  Old      \* the origin of a block an earlier request left

ASSUME BundleAssumption == IsFiniteSet(Bundle) /\ Old \notin Bundle
ASSUME SizeAssumption == Size \in [Bundle -> Nat \ {0}]
ASSUME NameAssumption == NameOf \in [Bundle -> File]

VARIABLES
  pc,        \* where the calling goroutine is
  generated, \* the bundles of the result of the task
  toFetch,   \* those the loop over bundlesInfo has not reached
  badUrl,    \* those whose URL could not be parsed
  failed,    \* the error of the call, # nil
  dl,        \* where the download of each bundle is
  offset,    \* blocks each download has written
  files,     \* the blocks of each file
  dwnldWg,   \* dwnldTaskWg
  parentWg   \* wg; the shell goroutine itself counts for one

requestVars == <<pc, generated, toFetch, badUrl, failed>>
downloadVars == <<dl, offset, files>>
vars == <<loggerVars, requestVars, downloadVars, dwnldWg, parentWg>>

Downloading == {"request", "open", "copy"}

TypeOK ==
  /\ LoggerTypeOK
  /\ pc \in {"start", "generate", "sink", "task", "close", "fetch", "returned"}
  /\ generated \subseteq Bundle /\ toFetch \subseteq generated
  /\ badUrl \subseteq generated
  /\ failed \in BOOLEAN
  /\ dl \in [Bundle -> Downloading \cup {"off", "saved", "aborted"}]
  /\ \A b \in Bundle : offset[b] \in 0..Size[b]
  /\ \A n \in File : files[n] \in Seq(Bundle \cup {Old})
  /\ dwnldWg \in 0..Cardinality(Bundle)
  /\ parentWg \in {1, 2}

\* The longest file an earlier request can leave (bounds the model).
OldFile == {<<>>, <<Old, Old, Old>>}

Init ==
  /\ LoggerInit
  /\ pc = "start"
  /\ generated = {} /\ toFetch = {} /\ badUrl = {}
  /\ failed = FALSE
  /\ dl = [b \in Bundle |-> "off"]
  /\ offset = [b \in Bundle |-> 0]
  /\ files \in [File -> OldFile]
  /\ dwnldWg = 0
  /\ parentWg = 1

-----------------------------------------------------------------------------
(* The caller: the generation of the bundles.                              *)

Go(from, to) == pc = from /\ pc' = to

Return(err) == pc' = "returned" /\ failed' = err

SessionInvalid ==
  /\ pc = "start"
  /\ Return(TRUE)
  /\ UNCHANGED <<loggerVars, generated, toFetch, badUrl, downloadVars, dwnldWg, parentWg>>

StartLogger ==
  /\ Go("start", "generate")
  /\ newDumbProgressLogger
  /\ UNCHANGED <<generated, toFetch, badUrl, failed, downloadVars, dwnldWg, parentWg>>

GenerateLogBundles ==
  /\ Go("generate", "sink")
  /\ UNCHANGED <<loggerVars, generated, toFetch, badUrl, failed, downloadVars, dwnldWg, parentWg>>

\* Nobody will call Sink: loopA goes on printing for the rest of the session.
GenerateLogBundlesFails ==
  /\ pc = "generate"
  /\ Return(TRUE)
  /\ UNCHANGED <<loggerVars, generated, toFetch, badUrl, downloadVars, dwnldWg, parentWg>>

\* WaitForResult takes a channel from the logger before anything else.
WaitForResult ==
  /\ Go("sink", "task")
  /\ Sink
  /\ UNCHANGED <<generated, toFetch, badUrl, failed, downloadVars, dwnldWg, parentWg>>

\* A report of progress while the task runs.
TaskProgress ==
  /\ pc = "task"
  /\ Report(FALSE)
  /\ UNCHANGED <<requestVars, downloadVars, dwnldWg, parentWg>>

TaskSucceeds ==
  /\ Go("task", "close")
  /\ Report(FALSE)
  /\ generated' \in SUBSET Bundle
  /\ toFetch' = generated'
  /\ UNCHANGED <<badUrl, failed, downloadVars, dwnldWg, parentWg>>

TaskFails ==
  /\ Go("task", "close")
  /\ Report(TRUE)
  /\ failed' = TRUE
  /\ UNCHANGED <<generated, toFetch, badUrl, downloadVars, dwnldWg, parentWg>>

\* The connection to the server fails: no last report.
TaskUnknown ==
  /\ Go("task", "close")
  /\ failed' = TRUE
  /\ UNCHANGED <<loggerVars, generated, toFetch, badUrl, downloadVars, dwnldWg, parentWg>>

\* The faulty program that forgets wg.Add(1).
GenerationEndsNoAdd ==
  /\ pc = "close"
  /\ CloseSink
  /\ pc' = IF failed THEN "returned" ELSE "fetch"
  /\ UNCHANGED <<generated, toFetch, badUrl, failed, downloadVars, dwnldWg, parentWg>>

\* WaitForResult closes the channel as it returns; then wg.Add(1).
GenerationEnds ==
  /\ pc = "close"
  /\ CloseSink
  /\ IF failed THEN pc' = "returned" /\ UNCHANGED parentWg
               ELSE pc' = "fetch" /\ parentWg' = parentWg + 1
  /\ UNCHANGED <<generated, toFetch, badUrl, failed, downloadVars, dwnldWg>>

-----------------------------------------------------------------------------
(* The caller: downloadSupportBundle.                                      *)

\* The faulty program that leaves the Add to the new goroutine.
StartDownloadNoAdd(b) ==
  /\ pc = "fetch" /\ b \in toFetch
  /\ toFetch' = toFetch \ {b}
  /\ dl' = [dl EXCEPT ![b] = "request"]
  /\ UNCHANGED <<loggerVars, pc, generated, badUrl, failed, offset, files, dwnldWg, parentWg>>

\* dwnldTaskWg.Add(1), go progressedDownloader(...).
StartDownload(b) ==
  /\ pc = "fetch" /\ b \in toFetch
  /\ toFetch' = toFetch \ {b}
  /\ dl' = [dl EXCEPT ![b] = "request"]
  /\ dwnldWg' = dwnldWg + 1
  /\ UNCHANGED <<loggerVars, pc, generated, badUrl, failed, offset, files, parentWg>>

\* The faulty program that gives up the loop at a URL it cannot parse.
BadUrlBreaks(b) ==
  /\ pc = "fetch" /\ b \in toFetch
  /\ toFetch' = {}
  /\ badUrl' = badUrl \cup {b}
  /\ UNCHANGED <<loggerVars, pc, generated, failed, downloadVars, dwnldWg, parentWg>>

SkipBadUrl(b) ==
  /\ pc = "fetch" /\ b \in toFetch
  /\ toFetch' = toFetch \ {b}
  /\ badUrl' = badUrl \cup {b}
  /\ UNCHANGED <<loggerVars, pc, generated, failed, downloadVars, dwnldWg, parentWg>>

\* The faulty program that calls parentWg.Done() on error paths only.
WaitDownloadsNoDone ==
  /\ pc = "fetch" /\ toFetch = {}
  /\ dwnldWg = 0
  /\ Return(FALSE)
  /\ UNCHANGED <<loggerVars, generated, toFetch, badUrl, downloadVars, dwnldWg, parentWg>>

\* dwnldTaskWg.Wait(), and the deferred parentWg.Done().
WaitDownloads ==
  /\ pc = "fetch" /\ toFetch = {}
  /\ dwnldWg = 0
  /\ parentWg' = parentWg - 1
  /\ Return(FALSE)
  /\ UNCHANGED <<loggerVars, generated, toFetch, badUrl, downloadVars, dwnldWg>>

-----------------------------------------------------------------------------
(* progressedDownloader, one goroutine per bundle.                         *)

DownloadGo(b, from, to) == dl[b] = from /\ dl' = [dl EXCEPT ![b] = to]

\* The deferred calls: Sync and Close of the file, dwnldWg.Done().
Leave(b, from, to) == DownloadGo(b, from, to) /\ dwnldWg' = dwnldWg - 1

\* The server answers 200.
Answered(b) ==
  /\ DownloadGo(b, "request", "open")
  /\ UNCHANGED <<loggerVars, requestVars, offset, files, dwnldWg, parentWg>>

\* No request, no answer, or another status.
RequestFails(b) ==
  /\ Leave(b, "request", "aborted")
  /\ UNCHANGED <<loggerVars, requestVars, offset, files, parentWg>>

\* O_CREATE without O_TRUNC: what is in the file stays.
OpenFile(b) ==
  /\ DownloadGo(b, "open", "copy")
  /\ UNCHANGED <<loggerVars, requestVars, offset, files, dwnldWg, parentWg>>

\* The faulty program that returns without dwnldWg.Done().
OpenFailsNoDone(b) ==
  /\ DownloadGo(b, "open", "aborted")
  /\ UNCHANGED <<loggerVars, requestVars, offset, files, dwnldWg, parentWg>>

OpenFails(b) ==
  /\ Leave(b, "open", "aborted")
  /\ UNCHANGED <<loggerVars, requestVars, offset, files, parentWg>>

\* Each download has a descriptor, and so an offset, of its own.
CopyBlock(b) ==
  /\ dl[b] = "copy" /\ offset[b] < Size[b]
  /\ offset' = [offset EXCEPT ![b] = @ + 1]
  /\ files' = [files EXCEPT ![NameOf[b]] =
                 IF offset'[b] <= Len(@) THEN [@ EXCEPT ![offset'[b]] = b] ELSE Append(@, b)]
  /\ UNCHANGED <<loggerVars, requestVars, dl, dwnldWg, parentWg>>

\* The faulty program that takes an interrupted body for a whole one.
CopyEndsEarly(b) ==
  /\ Leave(b, "copy", "saved")
  /\ UNCHANGED <<loggerVars, requestVars, offset, files, parentWg>>

CopyEnds(b) ==
  /\ Leave(b, "copy", "saved")
  /\ offset[b] = Size[b]
  /\ UNCHANGED <<loggerVars, requestVars, offset, files, parentWg>>

\* The body or the disk fails: the file stays as it is.
CopyFails(b) ==
  /\ Leave(b, "copy", "aborted")
  /\ UNCHANGED <<loggerVars, requestVars, offset, files, parentWg>>

-----------------------------------------------------------------------------

Caller ==
  \/ SessionInvalid \/ StartLogger \/ GenerateLogBundles \/ GenerateLogBundlesFails
  \/ WaitForResult \/ TaskSucceeds \/ TaskFails \/ TaskUnknown \/ GenerationEnds
  \/ \E b \in Bundle : StartDownload(b) \/ SkipBadUrl(b)
  \/ WaitDownloads

Downloader(b) ==
  \/ Answered(b) \/ RequestFails(b) \/ OpenFile(b) \/ OpenFails(b)
  \/ CopyBlock(b) \/ CopyEnds(b) \/ CopyFails(b)

LoggerStep ==
  /\ loopBEnds
  /\ UNCHANGED <<requestVars, downloadVars, dwnldWg, parentWg>>

Terminated == pc = "returned" /\ UNCHANGED vars

Next ==
  \/ Caller \/ TaskProgress \/ LoggerStep
  \/ \E b \in Bundle : Downloader(b)
  \/ Terminated

Spec == Init /\ [][Next]_vars

\* Goroutines run when they can; the task ends and every request is
\* answered, or fails, in the end: the code itself has no time limits.
FairSpec ==
  /\ Spec
  /\ WF_vars(Caller)
  /\ WF_vars(LoggerStep)
  /\ \A b \in Bundle : WF_vars(Downloader(b))

-----------------------------------------------------------------------------

Active == {b \in Bundle : dl[b] \in Downloading}

\* Both wait groups count what they wait for, at every moment: the inner one
\* the downloads in progress, the outer one the shell and, once generation
\* is over, the download phase.  An Add that came late would let a Wait
\* through, and a download would run on when the process may end.
WaitGroupsAccount ==
  /\ dwnldWg = Cardinality(Active)
  /\ parentWg = IF pc = "fetch" THEN 2 ELSE 1
  /\ pc = "returned" => Active = {}

Shared(b) == \E c \in Bundle \ {b} : NameOf[c] = NameOf[b] /\ dl[c] # "off"

\* A download that ended without error has put the whole bundle at the head
\* of its file, if no other bundle of the request has the same file name.
\* Behind it there may be more: the end of an older, longer file.
SavedBundleIsWhole ==
  \A b \in Bundle : dl[b] = "saved" /\ ~Shared(b) =>
    LET f == files[NameOf[b]]
    IN  Len(f) >= Size[b] /\ \A i \in 1..Size[b] : f[i] = b

\* "OK" is what the logger prints in the end when the task succeeded, and
\* never "Error".
SuccessIsShown == pc = "fetch" ~> logger = "ended" /\ verdict = "OK"

\* When the call returns, its logger has ended or is about to: its channel is
\* closed.  Only where the server made no task, so that nobody called Sink, does
\* the call leave it behind in loopA, printing until the process ends
\* (dumbProgressLogger.go:76, support_bundle.go:54).
OnlyTasklessLoggerLeft ==
  pc = "returned" =>
    \/ logger \in {"none", "ended"}
    \/ logger = "loopB" /\ sinkClosed
    \/ logger = "loopA" /\ ~sinkClosed /\ failed /\ generated = {}

\* Whoever waits waits for somebody who is there: the caller at the sink and
\* at each report for the logger in its loop, with the sink still open, and at
\* the wait group for a download (support_bundle.go:60, 89).
NobodyWaitsInVain ==
  /\ pc = "sink" => logger = "loopA"
  /\ pc = "task" => logger = "loopB" /\ ~sinkClosed
  /\ pc = "fetch" /\ dwnldWg # 0 => Active # {}

\* Seen from the process, the call is the phases work and download of Shell:
\* the wait group main waits on goes up and down where Shell has it, so what
\* Shell says of the way out holds with the downloads in it.
Process == INSTANCE Shell WITH
  Session <- {"session"}, NilPtr <- "nil", Bare <- "bare", Anon <- "anon",
  soap <- "session", sso <- "nil", loggedIn <- TRUE, postInit <- TRUE, serverIsVC <- TRUE,
  logoutErr <- FALSE, live <- {"session"}, ssoLive <- {}, issued <- {"session"}, refused <- {},
  mainPc <- "recv",
  shellPc <- IF pc = "returned" THEN "prompt" ELSE IF pc = "fetch" THEN "download" ELSE "work",
  cmd <- IF pc = "returned" THEN "none" ELSE "support_bundle",
  sigBuf <- 0, sigClosed <- FALSE, wg <- parentWg, status <- "running"

ImplementsShell == [][Process!Next]_Process!vars

OutcomeOf(b) ==
  IF b \in badUrl \/ dl[b] = "aborted" THEN "given up"
  ELSE IF dl[b] = "saved" THEN "saved" ELSE "pending"

\* Whatever fails, and in whatever order the downloads end, one failure keeps
\* no other bundle from being tried, each bundle is settled once, and none is
\* still under way when the call returns (support_bundle.go:74-93).
Request == INSTANCE BundleRequest WITH
  state <- CASE pc = "returned" -> IF failed THEN "error" ELSE "finished"
             [] pc \in {"close", "fetch"} /\ ~failed -> "generated"
             [] OTHER -> "asked",
  bundles <- generated,
  outcome <- [b \in Bundle |-> OutcomeOf(b)]

ImplementsRequest == Request!Spec

\* The call comes to an end, with all its downloads.
Returns == <>(pc = "returned")

-----------------------------------------------------------------------------

\* "Request support bundle successfully finished" (sbundle.go:71) is logged
\* only when every bundle has been saved.  No error of a download reaches
\* the caller.
SuccessMeansSaved ==
  pc = "returned" /\ ~failed => \A b \in generated : dl[b] = "saved"

=============================================================================
