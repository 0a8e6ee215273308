------------------------- MODULE SupportBundleProofs -------------------------
(***************************************************************************)
(* The properties of SupportBundle, for any finite set of bundles, any     *)
(* sizes and any file names: its safety, the refinement of Shell, the end  *)
(* of the logger, and a bound on the steps of a call.                      *)
(*                                                                         *)
(* The inductive invariant adds to them that no download is active outside *)
(* the fetch phase, that a bundle is in toFetch, or has no usable URL, or  *)
(* has been started, and how far a download got into its file.             *)
(***************************************************************************)
EXTENDS SupportBundle, FiniteSetTheorems, TLAPS

\* The part of TypeOK the other invariants rest on.
Types ==
  /\ pc \in {"start", "generate", "sink", "task", "close", "fetch", "returned"}
  /\ generated \subseteq Bundle /\ toFetch \subseteq generated
  /\ badUrl \subseteq generated
  /\ dl \in [Bundle -> Downloading \cup {"off", "saved", "aborted"}]
  /\ dwnldWg \in Nat
  /\ parentWg \in {1, 2}

\* Downloads of what was generated start in the fetch phase only, each once
\* and with a usable URL, and it ends them all.
Phases ==
  /\ pc # "fetch" => Active = {}
  /\ pc \in {"start", "generate", "sink", "task"} => generated = {}
  /\ pc \in {"start", "generate", "sink", "task", "close"} => dl = [b \in Bundle |-> "off"]
  /\ \A b \in toFetch : dl[b] = "off" /\ b \notin badUrl
  /\ \A b \in badUrl : dl[b] = "off"
  /\ \A b \in Bundle \ generated : dl[b] = "off"

\* A generated bundle that is waiting, has no usable URL or was started.
Tried ==
  /\ \A b \in generated : b \in toFetch \/ b \in badUrl \/ dl[b] # "off"
  /\ pc = "returned" /\ ~failed => toFetch = {}

CountInv == Types /\ Phases /\ WaitGroupsAccount /\ Tried

-----------------------------------------------------------------------------

LEMMA ActiveFinite == IsFiniteSet(Active)
  BY BundleAssumption, FS_Subset DEF Active

\* A download that starts adds one to the active ones.
LEMMA ActiveGrows ==
  ASSUME NEW b \in Bundle, Types, dl[b] = "off", dl' = [dl EXCEPT ![b] = "request"]
  PROVE  Cardinality(Active') = Cardinality(Active) + 1
<1>1. Active' = Active \cup {b} /\ b \notin Active
  BY DEF Active, Downloading, Types
<1> QED BY <1>1, ActiveFinite, FS_AddElement

\* A download that leaves takes one away.
LEMMA ActiveShrinks ==
  ASSUME NEW b \in Bundle, NEW s \in {"saved", "aborted"}, Types,
         dl[b] \in Downloading, dl' = [dl EXCEPT ![b] = s]
  PROVE  Cardinality(Active') = Cardinality(Active) - 1
<1>1. Active' = Active \ {b} /\ b \in Active
  BY DEF Active, Downloading, Types
<1> QED BY <1>1, ActiveFinite, FS_RemoveElement

\* Every other step of a download leaves them as they are.
LEMMA ActiveSame ==
  ASSUME NEW b \in Bundle, NEW s \in Downloading, Types,
         dl[b] \in Downloading, dl' = [dl EXCEPT ![b] = s]
  PROVE  Active' = Active
  BY DEF Active, Downloading, Types

-----------------------------------------------------------------------------

LEMMA InitCountInv == Init => CountInv
<1> SUFFICES ASSUME Init
             PROVE  CountInv
    OBVIOUS
<1>1. Active = {}
  BY DEF Init, Active, Downloading
<1>2. Types
  BY DEF Init, Types
<1>3. Phases /\ Tried
  BY <1>1 DEF Init, Phases, Tried
<1>4. WaitGroupsAccount
  BY <1>1, FS_EmptySet DEF Init, WaitGroupsAccount
<1> QED BY <1>2, <1>3, <1>4 DEF CountInv

LEMMA CallerKeepsCountInv == CountInv /\ Caller => CountInv'
<1> SUFFICES ASSUME CountInv, Caller
             PROVE  CountInv'
    OBVIOUS
<1> USE DEF CountInv, Go, Return, downloadVars
<1>1. CASE SessionInvalid
  BY <1>1 DEF SessionInvalid, Types, Phases, Tried, WaitGroupsAccount, Active
<1>2. CASE StartLogger
  BY <1>2 DEF StartLogger, Types, Phases, Tried, WaitGroupsAccount, Active
<1>3. CASE GenerateLogBundles
  BY <1>3 DEF GenerateLogBundles, Types, Phases, Tried, WaitGroupsAccount, Active
<1>4. CASE GenerateLogBundlesFails
  BY <1>4 DEF GenerateLogBundlesFails, Types, Phases, Tried, WaitGroupsAccount, Active
<1>5. CASE WaitForResult
  BY <1>5 DEF WaitForResult, Types, Phases, Tried, WaitGroupsAccount, Active
<1>6. CASE TaskSucceeds
  BY <1>6 DEF TaskSucceeds, Types, Phases, Tried, WaitGroupsAccount, Active
<1>7. CASE TaskFails
  BY <1>7 DEF TaskFails, Types, Phases, Tried, WaitGroupsAccount, Active
<1>8. CASE TaskUnknown
  BY <1>8 DEF TaskUnknown, Types, Phases, Tried, WaitGroupsAccount, Active
<1>9. CASE GenerationEnds
  BY <1>9 DEF GenerationEnds, Types, Phases, Tried, WaitGroupsAccount, Active
<1>10. ASSUME NEW b \in Bundle, StartDownload(b)
       PROVE  CountInv'
  <2>1. dl[b] = "off" /\ dl' = [dl EXCEPT ![b] = "request"]
    BY <1>10 DEF StartDownload, Phases
  <2>2. Types' /\ Phases' /\ Tried'
    BY <1>10, <2>1 DEF StartDownload, Types, Phases, Tried, Downloading
  <2>3. WaitGroupsAccount'
    BY <1>10, <2>1, ActiveGrows DEF StartDownload, WaitGroupsAccount
  <2> QED BY <2>2, <2>3
<1>11. ASSUME NEW b \in Bundle, SkipBadUrl(b)
       PROVE  CountInv'
  BY <1>11 DEF SkipBadUrl, Types, Phases, Tried, WaitGroupsAccount, Active
<1>12. CASE WaitDownloads
  <2>1. Active = {}
    BY <1>12, ActiveFinite, FS_EmptySet DEF WaitDownloads, WaitGroupsAccount
  <2> QED
    BY <1>12, <2>1 DEF WaitDownloads, Types, Phases, Tried, WaitGroupsAccount, Active
<1> QED
  BY <1>1, <1>2, <1>3, <1>4, <1>5, <1>6, <1>7, <1>8, <1>9, <1>10, <1>11, <1>12 DEF Caller

LEMMA DownloaderKeepsCountInv ==
  ASSUME CountInv, NEW b \in Bundle, Downloader(b)
  PROVE  CountInv'
<1> USE DEF CountInv
<1>1. dl[b] \in Downloading /\ pc = "fetch"
  BY DEF Downloader, Answered, RequestFails, OpenFile, OpenFails, CopyBlock, CopyEnds, CopyFails,
         Leave, DownloadGo, Downloading, Phases, Active
<1>2. UNCHANGED <<pc, generated, toFetch, badUrl, failed, parentWg>>
  BY DEF Downloader, Answered, RequestFails, OpenFile, OpenFails, CopyBlock, CopyEnds, CopyFails,
         requestVars
<1>3. ASSUME NEW s \in {"saved", "aborted"}, dl' = [dl EXCEPT ![b] = s], dwnldWg' = dwnldWg - 1
      PROVE  CountInv'
  <2>1. Cardinality(Active') = Cardinality(Active) - 1
    BY <1>1, <1>3, ActiveShrinks
  <2>2. Cardinality(Active') \in Nat
    <3>1. IsFiniteSet(Active')
      BY BundleAssumption, FS_Subset DEF Active
    <3> QED BY <3>1, FS_CardinalityType
  <2>3. WaitGroupsAccount'
    BY <1>1, <1>2, <1>3, <2>1 DEF WaitGroupsAccount
  <2>4. Types'
    BY <1>2, <1>3, <2>2, <2>3 DEF Types, WaitGroupsAccount
  <2>5. Phases' /\ Tried'
    BY <1>1, <1>2, <1>3 DEF Types, Phases, Tried, Downloading
  <2> QED BY <2>3, <2>4, <2>5
<1>4. ASSUME NEW s \in Downloading, dl' = [dl EXCEPT ![b] = s], UNCHANGED dwnldWg
      PROVE  CountInv'
  <2>1. Active' = Active
    BY <1>1, <1>4, ActiveSame
  <2>2. WaitGroupsAccount'
    BY <1>2, <1>4, <2>1 DEF WaitGroupsAccount
  <2>3. Types' /\ Phases' /\ Tried'
    BY <1>1, <1>2, <1>4 DEF Types, Phases, Tried, Downloading
  <2> QED BY <2>2, <2>3
<1>5. CASE CopyBlock(b)
  BY <1>2, <1>5 DEF CopyBlock, Types, Phases, Tried, WaitGroupsAccount, Active
<1>6. CASE Answered(b) \/ OpenFile(b)
  BY <1>4, <1>6 DEF Answered, OpenFile, DownloadGo, Downloading
<1>7. CASE RequestFails(b) \/ OpenFails(b) \/ CopyEnds(b) \/ CopyFails(b)
  BY <1>3, <1>7 DEF RequestFails, OpenFails, CopyEnds, CopyFails, Leave, DownloadGo
<1> QED BY <1>5, <1>6, <1>7 DEF Downloader

\* The invariant about counts and phases holds in every reachable state.
THEOREM CountInvariance == Spec => []CountInv
<1>1. CountInv /\ [Next]_vars => CountInv'
  <2> SUFFICES ASSUME CountInv, [Next]_vars
               PROVE  CountInv'
      OBVIOUS
  <2>1. CASE Caller
    BY <2>1, CallerKeepsCountInv
  <2>2. ASSUME NEW b \in Bundle, Downloader(b)
        PROVE  CountInv'
    BY <2>2, DownloaderKeepsCountInv
  <2>3. CASE TaskProgress \/ LoggerStep \/ UNCHANGED vars
    BY <2>3 DEF TaskProgress, LoggerStep, vars, requestVars, downloadVars, CountInv, Types, Phases,
                Tried, WaitGroupsAccount, Active
  <2> QED BY <2>1, <2>2, <2>3 DEF Next, Terminated
<1> QED BY InitCountInv, <1>1, PTL DEF Spec

-----------------------------------------------------------------------------

\* dwnldTaskWg is the number of downloads in progress and wgBackground counts
\* the download phase, at every moment and for any number of bundles, and the
\* call never returns beside a running download.
THEOREM WaitGroupsExact == Spec => []WaitGroupsAccount
<1>1. CountInv => WaitGroupsAccount
  BY DEF CountInv
<1> QED BY CountInvariance, <1>1, PTL

-----------------------------------------------------------------------------

\* What a download that has its file for itself has written so far.
Written(b) ==
  LET f == files[NameOf[b]]
  IN  offset[b] <= Len(f) /\ \A i \in 1..offset[b] : f[i] = b

FileInv ==
  /\ offset \in [Bundle -> Nat]
  /\ files \in [File -> Seq(Bundle \cup {Old})]
  /\ \A b \in Bundle : dl[b] = "saved" => offset[b] = Size[b]
  /\ \A b \in Bundle : ~Shared(b) => Written(b)

\* A step that writes no block, undoes no start and saves only what is whole.
Harmless ==
  /\ UNCHANGED <<offset, files>>
  /\ \A b \in Bundle : dl[b] # "off" => dl'[b] # "off"
  /\ \A b \in Bundle : dl'[b] = "saved" => dl[b] = "saved" \/ offset[b] = Size[b]

LEMMA HarmlessKeepsFileInv == FileInv /\ Harmless => FileInv'
<1> SUFFICES ASSUME FileInv, Harmless
             PROVE  FileInv'
    OBVIOUS
<1>1. \A b \in Bundle : Shared(b) => Shared(b)'
  BY DEF Harmless, Shared
<1>2. \A b \in Bundle : Written(b) => Written(b)'
  BY DEF Harmless, Written
<1> QED BY <1>1, <1>2 DEF FileInv, Harmless

\* All steps but CopyBlock are harmless.
LEMMA OthersAreHarmless ==
  ASSUME Types, [Next]_vars, \A b \in Bundle : ~CopyBlock(b)
  PROVE  Harmless
<1>1. CASE UNCHANGED downloadVars
  BY <1>1 DEF Harmless, downloadVars
<1>2. ASSUME NEW b \in Bundle, StartDownload(b)
      PROVE  Harmless
  BY <1>2 DEF StartDownload, Harmless, Types
<1>3. ASSUME NEW b \in Bundle, Downloader(b)
      PROVE  Harmless
  BY <1>3 DEF Downloader, Answered, RequestFails, OpenFile, OpenFails, CopyEnds, CopyFails, Leave,
              DownloadGo, Harmless, Types
<1>4. CASE Caller
  <2>1. CASE \E b \in Bundle : StartDownload(b)
    BY <1>2, <2>1
  <2>2. CASE ~\E b \in Bundle : StartDownload(b)
    BY <1>1, <1>4, <2>2 DEF Caller, SessionInvalid, StartLogger, GenerateLogBundles,
       GenerateLogBundlesFails, WaitForResult, TaskSucceeds, TaskFails, TaskUnknown,
       GenerationEnds, SkipBadUrl, WaitDownloads
  <2> QED BY <2>1, <2>2
<1>5. CASE TaskProgress \/ LoggerStep \/ UNCHANGED vars
  BY <1>1, <1>5 DEF TaskProgress, LoggerStep, vars
<1> QED BY <1>3, <1>4, <1>5 DEF Next, Terminated

\* A block goes behind those the download has already written, into a file
\* that is shared from then on as seen from any other bundle of its name.
LEMMA CopyKeepsFileInv ==
  ASSUME Types, FileInv, NEW b \in Bundle, CopyBlock(b)
  PROVE  FileInv'
<1> DEFINE n == NameOf[b]
           k == offset[b] + 1
<1>1. n \in File /\ files[n] \in Seq(Bundle \cup {Old}) /\ k \in Nat \ {0}
  BY NameAssumption DEF FileInv
<1>2. /\ UNCHANGED dl
      /\ offset' = [offset EXCEPT ![b] = k]
      /\ offset'[b] = k
      /\ files' = [files EXCEPT ![n] =
           IF k <= Len(files[n]) THEN [files[n] EXCEPT ![k] = b] ELSE Append(files[n], b)]
  BY DEF CopyBlock, FileInv
<1>3. offset' \in [Bundle -> Nat] /\ files' \in [File -> Seq(Bundle \cup {Old})]
  <2>1. CASE k <= Len(files[n])
    <3>1. [files[n] EXCEPT ![k] = b] \in Seq(Bundle \cup {Old})
      BY <1>1, <2>1
    <3> QED BY <1>1, <1>2, <2>1, <3>1 DEF FileInv
  <2>2. CASE ~(k <= Len(files[n]))
    <3>1. Append(files[n], b) \in Seq(Bundle \cup {Old})
      BY <1>1
    <3> QED BY <1>1, <1>2, <2>2, <3>1 DEF FileInv
  <2> QED BY <2>1, <2>2
<1>4. \A c \in Bundle : dl'[c] = "saved" => offset'[c] = Size[c]
  BY <1>2 DEF CopyBlock, FileInv
<1>5. ASSUME NEW c \in Bundle, ~Shared(c)'
      PROVE  Written(c)'
  <2>1. ~Shared(c) /\ Written(c)
    BY <1>2, <1>5 DEF Shared, FileInv
  <2>2. CASE c # b
    <3>1. NameOf[c] # n
      BY <1>2, <1>5, <2>2 DEF Shared, CopyBlock
    <3>2. files'[NameOf[c]] = files[NameOf[c]] /\ offset'[c] = offset[c]
      BY <1>2, <2>2, <3>1, NameAssumption DEF FileInv
    <3> QED BY <2>1, <3>2 DEF Written
  <2>3. CASE c = b
    <3>1. offset[b] <= Len(files[n]) /\ \A i \in 1..offset[b] : files[n][i] = b
      BY <2>1, <2>3 DEF Written
    <3>2. k <= Len(files'[n]) /\ \A i \in 1..k : files'[n][i] = b
      <4>1. CASE k <= Len(files[n])
        BY <1>1, <1>2, <3>1, <4>1 DEF FileInv
      <4>2. CASE ~(k <= Len(files[n]))
        BY <1>1, <1>2, <3>1, <4>2 DEF FileInv
      <4> QED BY <4>1, <4>2
    <3> QED BY <1>2, <2>3, <3>2 DEF Written
  <2> QED BY <2>2, <2>3
<1> QED BY <1>3, <1>4, <1>5 DEF FileInv

LEMMA FileInvariance == Spec => []FileInv
<1>1. Init => FileInv
  <2> SUFFICES ASSUME Init
               PROVE  FileInv
      OBVIOUS
  <2>1. OldFile \subseteq Seq(Bundle \cup {Old})
    BY DEF OldFile
  <2>2. offset \in [Bundle -> Nat] /\ files \in [File -> Seq(Bundle \cup {Old})]
    BY <2>1 DEF Init
  <2>3. \A b \in Bundle : dl[b] # "saved"
    BY DEF Init
  <2>4. \A b \in Bundle : Written(b)
    <3> SUFFICES ASSUME NEW b \in Bundle
                 PROVE  Written(b)
        OBVIOUS
    <3>1. offset[b] = 0 /\ Len(files[NameOf[b]]) \in Nat
      BY <2>2, NameAssumption DEF Init
    <3> QED BY <3>1 DEF Written
  <2> QED BY <2>2, <2>3, <2>4 DEF FileInv
<1>2. CountInv /\ FileInv /\ [Next]_vars => FileInv'
  BY HarmlessKeepsFileInv, OthersAreHarmless, CopyKeepsFileInv DEF CountInv
<1> QED BY <1>1, <1>2, CountInvariance, PTL DEF Spec

\* A download that ended well, in a file no other download of the request
\* used, left its whole bundle at the head of that file.
THEOREM SavedIsWhole == Spec => []SavedBundleIsWhole
<1>1. FileInv => SavedBundleIsWhole
  BY SizeAssumption DEF FileInv, Written, SavedBundleIsWhole
<1> QED BY FileInvariance, <1>1, PTL

-----------------------------------------------------------------------------

\* The rest of TypeOK: the logger, the error, and that no download writes
\* more blocks than its bundle has.
RestInv ==
  /\ LoggerTypeOK
  /\ failed \in BOOLEAN
  /\ \A b \in Bundle : offset[b] <= Size[b]

LEMMA InitRestInv == Init => RestInv
<1>1. Init => LoggerTypeOK /\ failed \in BOOLEAN
  BY Zenon DEF Init, LoggerInit, LoggerTypeOK
<1>2. Init => \A b \in Bundle : offset[b] <= Size[b]
  BY SizeAssumption DEF Init
<1> QED BY <1>1, <1>2 DEF RestInv

LEMMA OffsetStaysBounded ==
  FileInv /\ RestInv /\ [Next]_vars => \A b \in Bundle : offset'[b] <= Size[b]
<1> SUFFICES ASSUME FileInv, RestInv, [Next]_vars
             PROVE  \A b \in Bundle : offset'[b] <= Size[b]
    OBVIOUS
<1>1. CASE UNCHANGED offset
  BY <1>1 DEF RestInv
<1>2. ASSUME NEW c \in Bundle, CopyBlock(c)
      PROVE  \A b \in Bundle : offset'[b] <= Size[b]
  <2> SUFFICES ASSUME NEW b \in Bundle
               PROVE  offset'[b] <= Size[b]
      OBVIOUS
  <2>1. /\ offset[c] \in Nat /\ Size[c] \in Nat /\ offset[c] < Size[c]
        /\ offset' = [offset EXCEPT ![c] = offset[c] + 1] /\ offset \in [Bundle -> Nat]
    BY <1>2, SizeAssumption DEF CopyBlock, FileInv
  <2>2. CASE b = c
    BY <2>1, <2>2
  <2>3. CASE b # c
    BY <2>1, <2>3 DEF RestInv
  <2> QED BY <2>2, <2>3
<1>3. UNCHANGED offset \/ \E c \in Bundle : CopyBlock(c)
  <2>1. CASE Caller
    BY <2>1 DEF Caller, SessionInvalid, StartLogger, GenerateLogBundles, GenerateLogBundlesFails,
         WaitForResult, TaskSucceeds, TaskFails, TaskUnknown, GenerationEnds, StartDownload,
         SkipBadUrl, WaitDownloads, downloadVars
  <2>2. ASSUME NEW c \in Bundle, Downloader(c)
        PROVE  UNCHANGED offset \/ CopyBlock(c)
    BY <2>2 DEF Downloader, Answered, RequestFails, OpenFile, OpenFails, CopyEnds, CopyFails
  <2> QED BY <2>1, <2>2 DEF Next, TaskProgress, LoggerStep, Terminated, vars, downloadVars
<1> QED BY <1>1, <1>2, <1>3

LEMMA LoggerKeepsTypes ==
  ASSUME RestInv, [Next]_vars
  PROVE  LoggerTypeOK' /\ failed' \in BOOLEAN
<1> USE DEF RestInv, LoggerTypeOK, Return
<1>1. CASE Caller
  <2> USE DEF loggerVars, Go
  <2>1. CASE SessionInvalid \/ GenerateLogBundlesFails \/ WaitDownloads
    BY <2>1 DEF SessionInvalid, GenerateLogBundlesFails, WaitDownloads
  <2>2. CASE StartLogger \/ WaitForResult
    BY <2>2 DEF StartLogger, WaitForResult, newDumbProgressLogger, Sink
  <2>3. CASE TaskSucceeds \/ TaskFails
    BY <2>3 DEF TaskSucceeds, TaskFails, Report
  <2>4. CASE GenerationEnds
    BY <2>4 DEF GenerationEnds, CloseSink
  <2>5. CASE GenerateLogBundles \/ TaskUnknown
    BY <2>5 DEF GenerateLogBundles, TaskUnknown
  <2>6. CASE \E b \in Bundle : StartDownload(b) \/ SkipBadUrl(b)
    BY <2>6 DEF StartDownload, SkipBadUrl
  <2> QED BY <1>1, <2>1, <2>2, <2>3, <2>4, <2>5, <2>6 DEF Caller
<1>2. ASSUME NEW c \in Bundle, Downloader(c)
      PROVE  LoggerTypeOK' /\ failed' \in BOOLEAN
  <2>1. UNCHANGED <<loggerVars, failed>>
    BY <1>2 DEF Downloader, Answered, RequestFails, OpenFile, OpenFails, CopyBlock, CopyEnds,
         CopyFails, requestVars
  <2> QED BY <2>1 DEF loggerVars
<1>3. CASE TaskProgress \/ LoggerStep
  BY <1>3 DEF TaskProgress, LoggerStep, requestVars, Report, loopBEnds
<1>4. CASE UNCHANGED vars
  BY <1>4 DEF vars, requestVars, loggerVars
<1> QED BY <1>1, <1>2, <1>3, <1>4 DEF Next, Terminated

\* The state of a call keeps its types; no wait group goes below zero, and no
\* download writes past the end of its bundle.
THEOREM Typing == Spec => []TypeOK
<1>1. FileInv /\ RestInv /\ [Next]_vars => RestInv'
  BY OffsetStaysBounded, LoggerKeepsTypes DEF RestInv
<1>2. CountInv /\ FileInv /\ RestInv => TypeOK
  <2> SUFFICES ASSUME CountInv, FileInv, RestInv
               PROVE  TypeOK
      OBVIOUS
  <2>1. dwnldWg \in 0..Cardinality(Bundle)
    <3>1. Cardinality(Active) <= Cardinality(Bundle) /\ Cardinality(Bundle) \in Nat
      BY BundleAssumption, FS_Subset, FS_CardinalityType DEF Active
    <3> QED BY <3>1 DEF CountInv, Types, WaitGroupsAccount
  <2>2. \A b \in Bundle : offset[b] \in 0..Size[b]
    BY SizeAssumption DEF FileInv, RestInv
  <2>3. \A n \in File : files[n] \in Seq(Bundle \cup {Old})
    BY DEF FileInv
  <2> QED BY <2>1, <2>2, <2>3 DEF CountInv, Types, RestInv, TypeOK
<1> QED BY InitRestInv, <1>1, <1>2, CountInvariance, FileInvariance, PTL DEF Spec

-----------------------------------------------------------------------------

\* What a step does to the phase of the call and to the outer wait group.
Phase == IF pc \in {"returned", "fetch"} THEN pc ELSE "work"

LEMMA StepOfPhase ==
  ASSUME Types, Phases, [Next]_vars
  PROVE  \/ Phase' = Phase /\ parentWg' = parentWg
         \/ Phase = "work" /\ Phase' = "returned" /\ parentWg' = parentWg
         \/ Phase = "work" /\ Phase' = "fetch" /\ parentWg' = parentWg + 1
         \/ Phase = "fetch" /\ Phase' = "returned" /\ parentWg' = parentWg - 1
<1> USE DEF Phase, Go, Return
<1>1. CASE Caller
  <2>1. CASE \/ SessionInvalid \/ StartLogger \/ GenerateLogBundles \/ GenerateLogBundlesFails
             \/ WaitForResult \/ TaskSucceeds \/ TaskFails \/ TaskUnknown
    BY <2>1 DEF SessionInvalid, StartLogger, GenerateLogBundles, GenerateLogBundlesFails,
                WaitForResult, TaskSucceeds, TaskFails, TaskUnknown
  <2>2. CASE GenerationEnds
    BY <2>2 DEF GenerationEnds
  <2>3. CASE \E b \in Bundle : StartDownload(b) \/ SkipBadUrl(b)
    BY <2>3 DEF StartDownload, SkipBadUrl
  <2>4. CASE WaitDownloads
    BY <2>4 DEF WaitDownloads
  <2> QED BY <1>1, <2>1, <2>2, <2>3, <2>4 DEF Caller
<1>2. ASSUME NEW b \in Bundle, Downloader(b)
      PROVE  UNCHANGED <<pc, parentWg>>
  BY <1>2 DEF Downloader, Answered, RequestFails, OpenFile, OpenFails, CopyBlock, CopyEnds,
              CopyFails, requestVars
<1>3. CASE TaskProgress \/ LoggerStep \/ UNCHANGED vars
  BY <1>3 DEF TaskProgress, LoggerStep, vars, requestVars
<1> QED BY <1>1, <1>2, <1>3 DEF Next, Terminated

\* To the process the call is work, then perhaps a download phase, with the
\* wait group up exactly during the latter, as Shell has it.
THEOREM ShellImplemented == Spec => ImplementsShell
<1>1. Types /\ Phases /\ [Next]_vars => [Process!Next]_Process!vars
  <2> SUFFICES ASSUME Types, Phases, [Next]_vars
               PROVE  [Process!Next]_Process!vars
      OBVIOUS
  <2> USE DEF Phase, Process!Running, Process!clientVars, Process!flagVars, Process!serverVars,
              Process!chanVars, Process!EndCommand, Process!ShellGo
  <2>1. CASE Phase' = Phase /\ parentWg' = parentWg
    BY <2>1 DEF Process!vars
  <2>2. CASE Phase = "work" /\ Phase' = "returned" /\ parentWg' = parentWg
    <3>1. Process!WorkEnds
      BY <2>2 DEF Process!WorkEnds
    <3> QED BY <3>1 DEF Process!Next, Process!ShellStep
  <2>3. CASE Phase = "work" /\ Phase' = "fetch" /\ parentWg' = parentWg + 1
    <3>1. Process!StartDownload
      BY <2>3 DEF Process!StartDownload
    <3> QED BY <3>1 DEF Process!Next, Process!ShellStep
  <2>4. CASE Phase = "fetch" /\ Phase' = "returned" /\ parentWg' = parentWg - 1
    <3>1. Process!DownloadEnds
      BY <2>4 DEF Process!DownloadEnds
    <3> QED BY <3>1 DEF Process!Next, Process!ShellStep
  <2> QED BY <2>1, <2>2, <2>3, <2>4, StepOfPhase
<1>2. CountInv => Types /\ Phases
  BY DEF CountInv
<1> QED BY <1>1, <1>2, CountInvariance, PTL DEF Spec, ImplementsShell

-----------------------------------------------------------------------------
(* Caller and logger: neither waits in vain, and a success is shown.       *)

\* Where the logger is when the caller is where it is, and what the logger
\* knows of the outcome of the task.
InStep ==
  /\ pc = "start" => logger = "none"
  /\ pc \in {"generate", "sink"} => logger = "loopA"
  /\ pc \in {"task", "close"} => logger = "loopB"
  /\ pc = "fetch" => logger \in {"loopB", "ended"} /\ sinkClosed
  /\ sinkClosed => logger \in {"loopB", "ended"}
  /\ pc \in {"start", "generate", "sink", "task"} => generated = {}
  /\ pc = "returned" /\ ~sinkClosed => failed /\ generated = {} /\ logger \in {"none", "loopA"}
  /\ sinkClosed => pc \in {"fetch", "returned"}
  /\ logger = "ended" => sinkClosed
  /\ pc \notin {"close", "returned"} => ~failed
  /\ pc \in {"close", "fetch"} /\ ~failed => ~reportErr
  /\ logger = "ended" /\ ~reportErr => verdict = "OK"

LEMMA InStepInvariant == Spec => []InStep
<1>1. Init => InStep
  BY DEF Init, LoggerInit, InStep
<1>2. InStep /\ [Next]_vars => InStep'
  <2> SUFFICES ASSUME InStep, [Next]_vars
               PROVE  InStep'
      OBVIOUS
  <2> USE DEF InStep, Go, Return, loggerVars, requestVars
  <2>1. CASE SessionInvalid \/ StartLogger \/ GenerateLogBundles \/ GenerateLogBundlesFails
    BY <2>1 DEF SessionInvalid, StartLogger, GenerateLogBundles, GenerateLogBundlesFails,
                newDumbProgressLogger
  <2>2. CASE WaitForResult
    BY <2>2 DEF WaitForResult, Sink
  <2>3. CASE TaskProgress \/ TaskSucceeds \/ TaskFails \/ TaskUnknown
    BY <2>3 DEF TaskProgress, TaskSucceeds, TaskFails, TaskUnknown, Report
  <2>4. CASE GenerationEnds
    BY <2>4 DEF GenerationEnds, CloseSink
  <2>5. CASE WaitDownloads \/ \E b \in Bundle : StartDownload(b) \/ SkipBadUrl(b)
    BY <2>5 DEF WaitDownloads, StartDownload, SkipBadUrl
  <2>6. CASE LoggerStep
    BY <2>6 DEF LoggerStep, loopBEnds
  <2>7. ASSUME NEW b \in Bundle, Downloader(b)
        PROVE  InStep'
    BY <2>7 DEF Downloader, Answered, RequestFails, OpenFile, OpenFails, CopyBlock, CopyEnds,
                CopyFails
  <2>8. CASE UNCHANGED vars
    BY <2>8 DEF vars
  <2> QED BY <2>1, <2>2, <2>3, <2>4, <2>5, <2>6, <2>7, <2>8 DEF Next, Caller, Terminated
<1> QED BY <1>1, <1>2, PTL DEF Spec

\* The caller never waits for a logger that is elsewhere, nor for a download
\* that is over, whatever failed before.
THEOREM NoVainWait == Spec => []NobodyWaitsInVain
<1>1. CountInv /\ InStep => NobodyWaitsInVain
  BY FS_EmptySet DEF CountInv, WaitGroupsAccount, InStep, NobodyWaitsInVain
<1> QED BY CountInvariance, InStepInvariant, <1>1, PTL

\* The only logger a call leaves behind for good is one whose task the server
\* did not make.
THEOREM TasklessLoggerLeft == Spec => []OnlyTasklessLoggerLeft
<1>1. InStep => OnlyTasklessLoggerLeft
  BY DEF InStep, OnlyTasklessLoggerLeft
<1> QED BY InStepInvariant, <1>1, PTL

\* The logger on its way to the verdict of a success, and there.
ShowsSoon == logger = "loopB" /\ sinkClosed /\ ~reportErr
Shows == logger = "ended" /\ verdict = "OK"

\* The goroutine of the logger runs: it does not stay for good where loopB finds
\* its channel closed.  That is the weak fairness of LoggerStep, with the guard
\* of the step in the place of ENABLED.
LoggerScheduled ==
  []<>~(logger = "loopB" /\ sinkClosed) \/ []<><<LoggerStep>>_vars

\* The verdict OK comes in the end, whatever the downloads do.
THEOREM SuccessShown == Spec /\ LoggerScheduled => SuccessIsShown
<1>1. InStep => (pc = "fetch" => ShowsSoon \/ Shows)
  BY DEF InStep, ShowsSoon, Shows
<1>2. InStep /\ ShowsSoon /\ [Next]_vars => ShowsSoon' \/ Shows'
  <2> SUFFICES ASSUME InStep, ShowsSoon, [Next]_vars
               PROVE  ShowsSoon' \/ Shows'
      OBVIOUS
  <2>1. CASE LoggerStep
    BY <2>1 DEF LoggerStep, loopBEnds, ShowsSoon, Shows
  <2>2. CASE ~LoggerStep
    <3>1. pc \in {"fetch", "returned"}
      BY DEF InStep, ShowsSoon
    <3>2. UNCHANGED <<logger, sinkClosed, reportErr>>
      BY <2>2, <3>1 DEF Next, Caller, SessionInvalid, StartLogger, GenerateLogBundles,
           GenerateLogBundlesFails, WaitForResult, TaskProgress, TaskSucceeds, TaskFails,
           TaskUnknown, GenerationEnds, WaitDownloads, StartDownload, SkipBadUrl, Downloader,
           Answered, RequestFails, OpenFile, OpenFails, CopyBlock, CopyEnds, CopyFails,
           Terminated, vars, loggerVars, Go
    <3> QED BY <3>2 DEF ShowsSoon
  <2> QED BY <2>1, <2>2
<1>3. ShowsSoon /\ <<LoggerStep>>_vars => Shows'
  BY DEF LoggerStep, loopBEnds, ShowsSoon, Shows
<1>4. ShowsSoon => logger = "loopB" /\ sinkClosed
  BY DEF ShowsSoon
<1>5. Shows => logger = "ended" /\ verdict = "OK"
  BY DEF Shows
<1> QED BY InStepInvariant, <1>1, <1>2, <1>3, <1>4, <1>5, PTL
        DEF Spec, LoggerScheduled, SuccessIsShown

-----------------------------------------------------------------------------
(* The call implements BundleRequest.                                      *)

RequestState ==
  CASE pc = "returned" -> IF failed THEN "error" ELSE "finished"
    [] pc \in {"close", "fetch"} /\ ~failed -> "generated"
    [] OTHER -> "asked"

Outcomes == [b \in Bundle |-> OutcomeOf(b)]

LEMMA InitRequest == Init => Request!Init
<1> SUFFICES ASSUME Init
             PROVE  Request!Init
    OBVIOUS
<1>1. \A b \in Bundle : OutcomeOf(b) = "pending"
  BY DEF Init, OutcomeOf
<1> QED BY <1>1 DEF Init, Request!Init

\* The generation, up to its answer.
LEMMA GenerationOfRequest ==
  ASSUME CountInv, InStep,
         \/ SessionInvalid \/ StartLogger \/ GenerateLogBundles \/ GenerateLogBundlesFails
         \/ WaitForResult \/ TaskSucceeds \/ TaskFails \/ TaskUnknown \/ GenerationEnds
  PROVE  [Request!Next]_Request!vars
<1> USE DEF Go, Return
<1>1. UNCHANGED Outcomes
  BY DEF SessionInvalid, StartLogger, GenerateLogBundles, GenerateLogBundlesFails, WaitForResult,
         TaskSucceeds, TaskFails, TaskUnknown, GenerationEnds, downloadVars, Outcomes, OutcomeOf
<1>2. CASE SessionInvalid \/ GenerateLogBundlesFails
  <2>1. RequestState = "asked" /\ RequestState' = "error" /\ UNCHANGED generated
    BY <1>2 DEF SessionInvalid, GenerateLogBundlesFails, RequestState
  <2>2. Request!Fail
    BY <1>1, <2>1 DEF Request!Fail, RequestState, Outcomes
  <2> QED BY <2>2 DEF Request!Next
<1>3. CASE TaskSucceeds
  <2>1. /\ RequestState = "asked" /\ RequestState' = "generated"
        /\ generated' \subseteq Bundle
    BY <1>3 DEF TaskSucceeds, RequestState, InStep
  <2>2. Request!Generate
    BY <1>1, <2>1 DEF Request!Generate, RequestState, Outcomes
  <2> QED BY <2>2 DEF Request!Next
<1>4. CASE StartLogger \/ GenerateLogBundles \/ WaitForResult \/ TaskFails \/ TaskUnknown
  <2>1. UNCHANGED RequestState /\ UNCHANGED generated
    BY <1>4 DEF StartLogger, GenerateLogBundles, WaitForResult, TaskFails, TaskUnknown, RequestState
  <2> QED BY <1>1, <2>1 DEF Request!vars, RequestState, Outcomes
<1>5. CASE GenerationEnds
  <2>1. CASE failed
    <3>1. RequestState = "asked" /\ RequestState' = "error" /\ UNCHANGED generated
      BY <1>5, <2>1 DEF GenerationEnds, RequestState
    <3>2. Request!Fail
      BY <1>1, <3>1 DEF Request!Fail, RequestState, Outcomes
    <3> QED BY <3>2 DEF Request!Next
  <2>2. CASE ~failed
    <3>1. UNCHANGED RequestState /\ UNCHANGED generated
      BY <1>5, <2>2 DEF GenerationEnds, RequestState
    <3> QED BY <1>1, <3>1 DEF Request!vars, RequestState, Outcomes
  <2> QED BY <2>1, <2>2
<1> QED BY <1>2, <1>3, <1>4, <1>5

\* A bundle whose URL cannot be parsed is given up, one whose download begins
\* is as it was, and the call returns when none is pending.
LEMMA FetchOfRequest ==
  ASSUME CountInv, InStep, WaitDownloads \/ \E b \in Bundle : StartDownload(b) \/ SkipBadUrl(b)
  PROVE  [Request!Next]_Request!vars
<1>1. RequestState = "generated" /\ pc = "fetch" /\ ~failed /\ UNCHANGED generated
  BY DEF WaitDownloads, StartDownload, SkipBadUrl, RequestState, InStep
<1>2. CASE WaitDownloads
  <2>1. Active = {}
    BY <1>2, ActiveFinite, FS_EmptySet DEF WaitDownloads, CountInv, WaitGroupsAccount
  <2>2. \A b \in generated : Outcomes[b] # "pending"
    BY <1>2, <2>1
    DEF WaitDownloads, CountInv, Types, Tried, Active, Outcomes, OutcomeOf
  <2>3. RequestState' = "finished" /\ UNCHANGED Outcomes
    BY <1>2 DEF WaitDownloads, Return, RequestState, downloadVars, Outcomes, OutcomeOf
  <2>4. Request!Finish
    BY <1>1, <2>2, <2>3 DEF Request!Finish, RequestState, Outcomes
  <2> QED BY <2>4 DEF Request!Next
<1>3. ASSUME NEW b \in Bundle, StartDownload(b)
      PROVE  [Request!Next]_Request!vars
  <2>1. UNCHANGED RequestState
    BY <1>3 DEF StartDownload, RequestState
  <2>2. dl[b] = "off" /\ dl' = [dl EXCEPT ![b] = "request"] /\ UNCHANGED badUrl
    BY <1>3 DEF StartDownload, CountInv, Phases
  <2>3. \A c \in Bundle : OutcomeOf(c)' = OutcomeOf(c)
    BY <2>2 DEF CountInv, Types, OutcomeOf
  <2> QED BY <1>1, <2>1, <2>3 DEF Request!vars, RequestState
<1>4. ASSUME NEW b \in Bundle, SkipBadUrl(b)
      PROVE  [Request!Next]_Request!vars
  <2>1. UNCHANGED RequestState
    BY <1>4 DEF SkipBadUrl, RequestState
  <2>2. /\ b \in generated /\ b \notin badUrl /\ dl[b] = "off" /\ UNCHANGED dl
        /\ badUrl' = badUrl \cup {b}
    BY <1>4 DEF SkipBadUrl, CountInv, Types, Phases, downloadVars
  <2>3. Outcomes[b] = "pending" /\ Outcomes' = [Outcomes EXCEPT ![b] = "given up"]
    BY <2>2 DEF Outcomes, OutcomeOf
  <2>4. Request!Settle(b)
    BY <1>1, <2>1, <2>3 DEF Request!Settle, RequestState, Outcomes
  <2> QED BY <2>2, <2>4 DEF Request!Next
<1> QED BY <1>2, <1>3, <1>4

\* A download settles its bundle in the step in which it leaves.
LEMMA DownloadOfRequest ==
  ASSUME CountInv, InStep, NEW b \in Bundle, Downloader(b)
  PROVE  [Request!Next]_Request!vars
<1>1. /\ dl[b] \in Downloading /\ pc = "fetch" /\ ~failed /\ b \in generated /\ b \notin badUrl
      /\ UNCHANGED <<pc, generated, badUrl, failed>>
  BY DEF Downloader, Answered, RequestFails, OpenFile, OpenFails, CopyBlock, CopyEnds, CopyFails,
         Leave, DownloadGo, Downloading, CountInv, Phases, Active, InStep, requestVars
<1>2. RequestState = "generated" /\ UNCHANGED RequestState
  BY <1>1 DEF RequestState
<1>3. CASE Answered(b) \/ OpenFile(b) \/ CopyBlock(b)
  <2>1. dl' = dl \/ \E s \in Downloading : dl' = [dl EXCEPT ![b] = s]
    BY <1>3 DEF Answered, OpenFile, CopyBlock, DownloadGo, Downloading
  <2>2. \A c \in Bundle : OutcomeOf(c)' = OutcomeOf(c)
    BY <1>1, <2>1 DEF CountInv, Types, Downloading, OutcomeOf
  <2> QED BY <1>1, <1>2, <2>2 DEF Request!vars, RequestState
<1>4. CASE RequestFails(b) \/ OpenFails(b) \/ CopyEnds(b) \/ CopyFails(b)
  <2>1. PICK s \in {"saved", "aborted"} : dl' = [dl EXCEPT ![b] = s]
    BY <1>4 DEF RequestFails, OpenFails, CopyEnds, CopyFails, Leave, DownloadGo
  <2>2. Outcomes[b] = "pending"
    BY <1>1 DEF Downloading, Outcomes, OutcomeOf
  <2>3. \E o \in {"saved", "given up"} : Outcomes' = [Outcomes EXCEPT ![b] = o]
    BY <1>1, <2>1 DEF CountInv, Types, Outcomes, OutcomeOf
  <2>4. Request!Settle(b)
    BY <1>1, <1>2, <2>2, <2>3 DEF Request!Settle, RequestState, Outcomes
  <2> QED BY <1>1, <2>4 DEF Request!Next
<1> QED BY <1>3, <1>4 DEF Downloader

\* With a logger and any number of downloads running beside it, and every step
\* of them failing when it likes, a call settles each generated bundle once and
\* returns with none under way, or fails before the first download.
THEOREM RequestImplemented == Spec => ImplementsRequest
<1>1. CountInv /\ InStep /\ [Next]_vars => [Request!Next]_Request!vars
  <2> SUFFICES ASSUME CountInv, InStep, [Next]_vars
               PROVE  [Request!Next]_Request!vars
      OBVIOUS
  <2>1. CASE TaskProgress \/ LoggerStep \/ UNCHANGED vars
    <3>1. UNCHANGED <<requestVars, dl>>
      BY <2>1 DEF TaskProgress, LoggerStep, vars, downloadVars
    <3> QED BY <3>1 DEF Request!vars, OutcomeOf, requestVars
  <2> QED BY <2>1, GenerationOfRequest, FetchOfRequest, DownloadOfRequest
          DEF Next, Caller, Terminated
<1> QED BY InitRequest, CountInvariance, InStepInvariant, <1>1, PTL
        DEF Spec, ImplementsRequest, Request!Spec

-----------------------------------------------------------------------------
(* The call is bounded: StepsLeft is a number, and every step but a report *)
(* of progress lowers it.                                                  *)

CallStage == [start |-> 6, generate |-> 5, sink |-> 4, task |-> 3, close |-> 2, fetch |-> 1,
              returned |-> 0]

LoggerStage == [none |-> 3, loopA |-> 2, loopB |-> 1, ended |-> 0]

DownloadStage == [off |-> 3, request |-> 3, open |-> 2, copy |-> 1, saved |-> 0, aborted |-> 0]

\* What the call may still have to do: bundles to reach, stages of downloads,
\* blocks to write.
NotReached == IF pc \in {"start", "generate", "sink", "task"} THEN Bundle ELSE toFetch
StagesLeft == UNION {{b} \X (1..DownloadStage[dl[b]]) : b \in Bundle}
BlocksLeft == UNION {{b} \X (offset[b] + 1..Size[b]) : b \in Bundle}

StepsLeft ==
  CallStage[pc] + LoggerStage[logger]
    + Cardinality(NotReached) + Cardinality(StagesLeft) + Cardinality(BlocksLeft)

\* Nothing is tried again, so no failure keeps the call busy for ever: every
\* step of caller, logger and downloads, but a report of progress, lowers a
\* bound on the steps that are left.
EveryStepCounts == [][TaskProgress \/ StepsLeft' < StepsLeft]_vars

LEMMA FewerLeft ==
  ASSUME NEW S, NEW T, IsFiniteSet(S), T \subseteq S
  PROVE  /\ Cardinality(S) \in Nat /\ Cardinality(T) \in Nat
         /\ Cardinality(T) <= Cardinality(S)
         /\ T # S => Cardinality(T) < Cardinality(S)
<1>1. /\ IsFiniteSet(T) /\ Cardinality(T) <= Cardinality(S)
      /\ Cardinality(S) = Cardinality(T) => S = T
  BY FS_Subset
<1>2. Cardinality(S) \in Nat /\ Cardinality(T) \in Nat
  BY <1>1, FS_CardinalityType
<1> QED BY <1>1, <1>2

\* Finitely many pairs of a bundle and a number up to a limit.
LEMMA PairsFinite ==
  ASSUME NEW limit \in [Bundle -> Nat]
  PROVE  IsFiniteSet(UNION {{b} \X (1..limit[b]) : b \in Bundle})
<1> DEFINE row == [b \in Bundle |-> {b} \X (1..limit[b])]
           W == {{b} \X (1..limit[b]) : b \in Bundle}
<1>1. row \in Surjection(Bundle, W)
  BY DEF Surjection
<1>2. IsFiniteSet(W)
  BY <1>1, BundleAssumption, FS_Surjection
<1>3. ASSUME NEW b \in Bundle
      PROVE  IsFiniteSet({b} \X (1..limit[b]))
  <2> DEFINE f == [k \in 1..limit[b] |-> <<b, k>>]
  <2>1. f \in Surjection(1..limit[b], {b} \X (1..limit[b]))
    BY DEF Surjection
  <2>2. IsFiniteSet(1..limit[b])
    BY FS_Interval
  <2> QED BY <2>1, <2>2, FS_Surjection
<1> QED BY <1>2, <1>3, FS_UNION

LEMMA LeftIsFinite ==
  ASSUME Types, FileInv
  PROVE  IsFiniteSet(NotReached) /\ IsFiniteSet(StagesLeft) /\ IsFiniteSet(BlocksLeft)
<1>1. IsFiniteSet(NotReached)
  <2>1. NotReached \subseteq Bundle
    BY DEF Types, NotReached
  <2> QED BY <2>1, BundleAssumption, FS_Subset
<1>2. IsFiniteSet(StagesLeft)
  <2> DEFINE limit == [b \in Bundle |-> DownloadStage[dl[b]]]
  <2>1. limit \in [Bundle -> Nat]
    BY DEF Types, Downloading, DownloadStage
  <2>2. StagesLeft = UNION {{b} \X (1..limit[b]) : b \in Bundle}
    BY DEF StagesLeft
  <2> QED BY <2>1, <2>2, PairsFinite
<1>3. IsFiniteSet(BlocksLeft)
  <2>1. IsFiniteSet(UNION {{b} \X (1..Size[b]) : b \in Bundle})
    BY SizeAssumption, PairsFinite
  <2>2. BlocksLeft \subseteq UNION {{b} \X (1..Size[b]) : b \in Bundle}
    <3>1. \A b \in Bundle : offset[b] + 1..Size[b] \subseteq 1..Size[b]
      BY SizeAssumption DEF FileInv
    <3> QED BY <3>1 DEF BlocksLeft
  <2> QED BY <2>1, <2>2, FS_Subset
<1> QED BY <1>1, <1>2, <1>3

Stages == CallStage[pc] + LoggerStage[logger]

\* A step counts that ends a stage, or takes something from what is left.
Counts ==
  /\ NotReached' \subseteq NotReached /\ StagesLeft' \subseteq StagesLeft
  /\ BlocksLeft' \subseteq BlocksLeft
  /\ Stages' <= Stages
  /\ \/ Stages' < Stages \/ NotReached' # NotReached \/ StagesLeft' # StagesLeft
     \/ BlocksLeft' # BlocksLeft

LEMMA CountGoesDown ==
  ASSUME TypeOK, TypeOK', Types, FileInv, Counts
  PROVE  StepsLeft' < StepsLeft
<1> DEFINE s == Stages                    ss == Stages'
           a == Cardinality(NotReached)   aa == Cardinality(NotReached')
           b == Cardinality(StagesLeft)   bb == Cardinality(StagesLeft')
           c == Cardinality(BlocksLeft)   cc == Cardinality(BlocksLeft')
<1>1. /\ a \in Nat /\ aa \in Nat /\ aa <= a /\ (NotReached' # NotReached => aa < a)
      /\ b \in Nat /\ bb \in Nat /\ bb <= b /\ (StagesLeft' # StagesLeft => bb < b)
      /\ c \in Nat /\ cc \in Nat /\ cc <= c /\ (BlocksLeft' # BlocksLeft => cc < c)
  BY LeftIsFinite, FewerLeft DEF Counts
<1>2. s \in Nat /\ ss \in Nat
  BY DEF TypeOK, LoggerTypeOK, Stages, CallStage, LoggerStage
<1>3. StepsLeft = s + a + b + c /\ StepsLeft' = ss + aa + bb + cc
  BY DEF StepsLeft, Stages
<1>4. ss <= s /\ (ss < s \/ aa < a \/ bb < b \/ cc < c)
  BY <1>1 DEF Counts
<1> HIDE DEF s, ss, a, aa, b, bb, c, cc
<1>5. ss + aa + bb + cc < s + a + b + c
  BY <1>1, <1>2, <1>4
<1> QED BY <1>3, <1>5

LEMMA CallerCounts == TypeOK /\ Phases /\ Caller => Counts
<1> SUFFICES ASSUME TypeOK, Phases, Caller
             PROVE  Counts
    OBVIOUS
<1> USE DEF Go, Return, loggerVars, downloadVars
<1>1. UNCHANGED offset /\ BlocksLeft' = BlocksLeft
  BY DEF Caller, SessionInvalid, StartLogger, GenerateLogBundles, GenerateLogBundlesFails,
         WaitForResult, TaskSucceeds, TaskFails, TaskUnknown, GenerationEnds, StartDownload,
         SkipBadUrl, WaitDownloads, BlocksLeft
<1>2. CASE ~\E b \in Bundle : StartDownload(b) \/ SkipBadUrl(b)
  <2>1. UNCHANGED dl
    BY <1>2 DEF Caller, SessionInvalid, StartLogger, GenerateLogBundles, GenerateLogBundlesFails,
         WaitForResult, TaskSucceeds, TaskFails, TaskUnknown, GenerationEnds, WaitDownloads
  <2>2. StagesLeft' = StagesLeft
    BY <2>1 DEF StagesLeft
  <2>3. /\ NotReached' \subseteq NotReached
        /\ CallStage[pc] \in Nat /\ CallStage[pc'] \in Nat /\ CallStage[pc'] < CallStage[pc]
    <3>1. <<pc, pc'>> \in
            {<<"start", "returned">>, <<"start", "generate">>, <<"generate", "sink">>,
             <<"generate", "returned">>, <<"sink", "task">>, <<"task", "close">>,
             <<"close", "returned">>, <<"close", "fetch">>, <<"fetch", "returned">>}
      BY <1>2 DEF Caller, SessionInvalid, StartLogger, GenerateLogBundles,
           GenerateLogBundlesFails, WaitForResult, TaskSucceeds, TaskFails, TaskUnknown,
           GenerationEnds, WaitDownloads
    <3>2. toFetch' \subseteq Bundle /\ (pc # "task" => toFetch' = toFetch)
      BY <1>2 DEF Caller, SessionInvalid, StartLogger, GenerateLogBundles,
           GenerateLogBundlesFails, WaitForResult, TaskSucceeds, TaskFails, TaskUnknown,
           GenerationEnds, WaitDownloads, TypeOK
    <3>3. NotReached' \subseteq NotReached
      BY <3>1, <3>2 DEF NotReached
    <3>4. CallStage[pc] \in Nat /\ CallStage[pc'] \in Nat /\ CallStage[pc'] < CallStage[pc]
      BY <3>1 DEF CallStage
    <3> QED BY <3>3, <3>4
  <2>4. /\ LoggerStage[logger] \in Nat /\ LoggerStage[logger'] \in Nat
        /\ LoggerStage[logger'] <= LoggerStage[logger]
    BY <1>2 DEF Caller, SessionInvalid, StartLogger, GenerateLogBundles, GenerateLogBundlesFails,
         WaitForResult, TaskSucceeds, TaskFails, TaskUnknown, GenerationEnds, WaitDownloads,
         newDumbProgressLogger, Sink, Report, CloseSink, TypeOK, LoggerTypeOK, LoggerStage
  <2>5. Stages' < Stages
    BY <2>3, <2>4 DEF Stages
  <2>6. Stages' <= Stages
    BY <2>3, <2>4 DEF Stages
  <2> QED BY <1>1, <2>2, <2>3, <2>5, <2>6 DEF Counts
<1>3. ASSUME NEW b \in Bundle, StartDownload(b) \/ SkipBadUrl(b)
      PROVE  Counts
  <2>1. /\ pc = "fetch" /\ b \in toFetch /\ toFetch' = toFetch \ {b} /\ UNCHANGED <<pc, logger>>
        /\ dl[b] = "off" /\ (dl' = dl \/ dl' = [dl EXCEPT ![b] = "request"])
    BY <1>3 DEF StartDownload, SkipBadUrl, Phases
  <2>2. NotReached' \subseteq NotReached /\ NotReached' # NotReached
    BY <2>1 DEF NotReached
  <2>3. StagesLeft' \subseteq StagesLeft
    <3>1. \A c \in Bundle : DownloadStage[dl'[c]] <= DownloadStage[dl[c]]
      BY <2>1 DEF TypeOK, Downloading, DownloadStage
    <3>2. \A c \in Bundle : DownloadStage[dl'[c]] \in Nat /\ DownloadStage[dl[c]] \in Nat
      BY <2>1 DEF TypeOK, Downloading, DownloadStage
    <3> QED BY <3>1, <3>2 DEF StagesLeft
  <2>4. Stages' <= Stages
    BY <2>1 DEF Stages, TypeOK, LoggerTypeOK, CallStage, LoggerStage
  <2> QED BY <1>1, <2>2, <2>3, <2>4 DEF Counts
<1> QED BY <1>2, <1>3

\* A download ends a stage or writes a block.
LEMMA DownloaderCounts ==
  ASSUME TypeOK, FileInv, NEW b \in Bundle, Downloader(b)
  PROVE  Counts
<1>1. UNCHANGED <<pc, toFetch, logger>>
  BY DEF Downloader, Answered, RequestFails, OpenFile, OpenFails, CopyBlock, CopyEnds, CopyFails,
         requestVars, loggerVars
<1>2. NotReached' = NotReached
  BY <1>1 DEF NotReached
<1>3. Stages' = Stages /\ Stages \in Nat
  BY <1>1 DEF Stages, TypeOK, LoggerTypeOK, CallStage, LoggerStage
<1>4. CASE CopyBlock(b)
  <2>1. UNCHANGED dl /\ offset[b] < Size[b] /\ offset' = [offset EXCEPT ![b] = offset[b] + 1]
    BY <1>4 DEF CopyBlock
  <2>2. StagesLeft' = StagesLeft
    BY <2>1 DEF StagesLeft
  <2>3. \A c \in Bundle : offset[c] \in Nat /\ Size[c] \in Nat
    BY SizeAssumption DEF FileInv
  <2>4. offset'[b] = offset[b] + 1 /\ \A c \in Bundle : offset'[c] \in Nat /\ offset[c] <= offset'[c]
    BY <2>1, <2>3 DEF FileInv
  <2>5. BlocksLeft' \subseteq BlocksLeft
    <3>1. \A c \in Bundle : offset'[c] + 1..Size[c] \subseteq offset[c] + 1..Size[c]
      BY <2>3, <2>4
    <3> QED BY <3>1 DEF BlocksLeft
  <2>6. <<b, offset[b] + 1>> \in BlocksLeft /\ <<b, offset[b] + 1>> \notin BlocksLeft'
    <3>1. offset[b] + 1 \in offset[b] + 1..Size[b] /\ offset[b] + 1 \notin offset'[b] + 1..Size[b]
      BY <2>1, <2>3, <2>4
    <3> QED BY <3>1 DEF BlocksLeft
  <2> QED BY <1>2, <1>3, <2>2, <2>5, <2>6 DEF Counts
<1>5. CASE ~CopyBlock(b)
  <2>1. PICK from, to \in Downloading \cup {"saved", "aborted"} :
          /\ dl[b] = from /\ dl' = [dl EXCEPT ![b] = to]
          /\ DownloadStage[from] \in Nat /\ DownloadStage[to] \in Nat
          /\ DownloadStage[to] < DownloadStage[from]
    BY <1>5 DEF Downloader, Answered, RequestFails, OpenFile, OpenFails, CopyEnds, CopyFails,
                Leave, DownloadGo, Downloading, DownloadStage
  <2>2. BlocksLeft' = BlocksLeft
    BY <1>5 DEF Downloader, Answered, RequestFails, OpenFile, OpenFails, CopyEnds, CopyFails,
                BlocksLeft
  <2>3. \A c \in Bundle : DownloadStage[dl[c]] \in Nat
    BY DEF TypeOK, Downloading, DownloadStage
  <2>4. /\ dl'[b] = to
        /\ \A c \in Bundle : /\ DownloadStage[dl'[c]] \in Nat
                             /\ DownloadStage[dl'[c]] <= DownloadStage[dl[c]]
    BY <2>1, <2>3 DEF TypeOK
  <2>5. StagesLeft' \subseteq StagesLeft
    <3>1. \A c \in Bundle : 1..DownloadStage[dl'[c]] \subseteq 1..DownloadStage[dl[c]]
      BY <2>3, <2>4
    <3> QED BY <3>1 DEF StagesLeft
  <2>6. StagesLeft' # StagesLeft
    <3> DEFINE k == DownloadStage[dl[b]]
    <3>1. k \in 1..DownloadStage[dl[b]] /\ k \notin 1..DownloadStage[dl'[b]]
      BY <2>1, <2>4
    <3>2. <<b, k>> \in StagesLeft /\ <<b, k>> \notin StagesLeft'
      BY <3>1 DEF StagesLeft
    <3> QED BY <3>2
  <2> QED BY <1>2, <1>3, <2>2, <2>5, <2>6 DEF Counts
<1> QED BY <1>4, <1>5

\* Every step of the caller, of the logger and of the downloads, but a report
\* of progress, lowers the bound on those that are left, for any bundles, sizes
\* and names and whatever fails.
THEOREM CallIsBounded == Spec => [](StepsLeft \in Nat) /\ EveryStepCounts
<1>1. TypeOK /\ Types /\ FileInv => StepsLeft \in Nat
  <2> SUFFICES ASSUME TypeOK, Types, FileInv
               PROVE  StepsLeft \in Nat
      OBVIOUS
  <2>1. /\ Cardinality(NotReached) \in Nat /\ Cardinality(StagesLeft) \in Nat
        /\ Cardinality(BlocksLeft) \in Nat
    BY LeftIsFinite, FS_CardinalityType
  <2>2. CallStage[pc] + LoggerStage[logger] \in Nat
    BY DEF TypeOK, LoggerTypeOK, CallStage, LoggerStage
  <2> QED BY <2>1, <2>2 DEF StepsLeft
<1>2. TypeOK /\ CountInv /\ FileInv /\ TypeOK' /\ [Next]_vars
        => [TaskProgress \/ StepsLeft' < StepsLeft]_vars
  <2> SUFFICES ASSUME TypeOK, CountInv, FileInv, TypeOK', Next, ~TaskProgress, ~UNCHANGED vars
               PROVE  StepsLeft' < StepsLeft
      OBVIOUS
  <2>1. CASE LoggerStep
    <3>1. UNCHANGED <<pc, toFetch, dl, offset>> /\ logger = "loopB" /\ logger' = "ended"
      BY <2>1 DEF LoggerStep, loopBEnds, requestVars, downloadVars
    <3>2. UNCHANGED <<NotReached, StagesLeft, BlocksLeft>>
      BY <3>1 DEF NotReached, StagesLeft, BlocksLeft
    <3>3. Stages' < Stages /\ Stages' <= Stages
      BY <3>1 DEF Stages, TypeOK, CallStage, LoggerStage
    <3> QED BY <3>2, <3>3, CountGoesDown DEF Counts, CountInv
  <2>2. CASE Caller
    BY <2>2, CallerCounts, CountGoesDown DEF CountInv
  <2>3. ASSUME NEW b \in Bundle, Downloader(b)
        PROVE  StepsLeft' < StepsLeft
    BY <2>3, DownloaderCounts, CountGoesDown DEF CountInv
  <2> QED BY <2>1, <2>2, <2>3 DEF Next, Terminated
<1>3. CountInv => Types
  BY DEF CountInv
<1> QED BY Typing, CountInvariance, FileInvariance, <1>1, <1>2, <1>3, PTL DEF Spec, EveryStepCounts

=============================================================================
