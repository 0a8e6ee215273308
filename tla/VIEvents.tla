------------------------------ MODULE VIEvents -------------------------------
(***************************************************************************)
(* One call of GetEventsFromMgr (pkg/vsphere_api/vi_events.go).  The       *)
(* calling goroutine reads the events of each selected datacenter (or of   *)
(* the root folder) page by page and sends the pages over a buffered       *)
(* channel; a second goroutine turns each event of a page into a row of    *)
(* resFinalLst.  The caller closes the channel, waits for the second one   *)
(* over an unbuffered channel, sorts the rows and writes them as CSV.      *)
(*                                                                         *)
(* Every call to the server and every write may fail.  Four ghost          *)
(* variables tell what then goes missing, by how loudly: `lost' with an    *)
(* error in the log, `skipped' with a line at debug level only, `unsaved'  *)
(* and `refused' with none.                                                *)
(***************************************************************************)
EXTENDS Integers, Sequences, FiniteSets, SequencesExt

CONSTANTS
  DC,        \* the datacenters the user can select
  Root,      \* the root folder
  EventsIn,  \* the ids of the events below each of them, in the time range
  PageSize,  \* events per ReadNextEvents, 500 in the code
  Cap        \* capacity of sPageChan, 256 in the code

ASSUME RootAssumption == Root \notin DC
ASSUME EventsAssumption == EventsIn \in [DC \cup {Root} -> SUBSET Int]
ASSUME SizesAssumption == PageSize \in Nat \ {0} /\ Cap \in Nat \ {0}
ASSUME FiniteAssumption == IsFiniteSet(DC) /\ \A r \in DC \cup {Root} : IsFiniteSet(EventsIn[r])

Ref == DC \cup {Root}

\* An event found below r; the same event may be found below two objects.
ItemsOf(r) == {<<r, e>> : e \in EventsIn[r]}
Item == UNION {ItemsOf(r) : r \in Ref}

VARIABLES
  selected,  \* dcList, or the root folder when it is empty
  pcP,       \* where the calling goroutine is
  todo,      \* datacenters not yet reached in the loop over dcList
  cur,       \* fRefBase
  open,      \* event collectors that exist on the server
  unread,    \* events the current collector has not returned yet
  held,      \* the page just read
  pages,     \* sPageChan
  closed,    \* sPageChan has been closed
  pcC,       \* where the processing goroutine is
  page,      \* what it has left of the page it received
  rows,      \* resFinalLst
  file,      \* the rows in the CSV file
  failed,    \* the error of the call, # nil
  lost,      \* events kept out of the report by an error that was logged
  skipped,   \* objects passed over as the time query for them failed
  unsaved,   \* rows the CSV writer took and the disk did not
  refused    \* collectors the server did not destroy when asked

producerVars == <<pcP, todo, cur, open, unread, held>>
consumerVars == <<pcC, page, rows>>
chanVars == <<pages, closed>>
ghosts == <<lost, skipped, unsaved, refused>>
vars == <<selected, producerVars, chanVars, consumerVars, file, failed, ghosts>>

TypeOK ==
  /\ selected \subseteq Ref
  /\ pcP \in {"start", "build", "create", "read", "send", "destroy", "await",
              "createFile", "write", "returned"}
  /\ todo \subseteq selected
  /\ cur \in Ref
  /\ open \subseteq Ref
  /\ unread \subseteq Item
  /\ held \subseteq Item /\ (pcP = "send" <=> held # {})
  /\ pages \in Seq(SUBSET Item) /\ Len(pages) <= Cap
  /\ closed \in BOOLEAN
  /\ pcC \in {"off", "recv", "process", "signal", "exit"}
  /\ page \subseteq Item
  /\ rows \in Seq(Item)
  /\ file \in Seq(Item)
  /\ failed \in BOOLEAN
  /\ lost \subseteq Item /\ unsaved \subseteq Item
  /\ skipped \subseteq Ref /\ refused \subseteq Ref

Init ==
  /\ \E s \in SUBSET DC : selected = IF s = {} THEN {Root} ELSE s
  /\ pcP = "start"
  /\ todo = selected
  /\ cur = Root
  /\ open = {} /\ unread = {} /\ held = {}
  /\ pages = <<>> /\ closed = FALSE
  /\ pcC = "off" /\ page = {} /\ rows = <<>>
  /\ file = <<>> /\ failed = FALSE
  /\ lost = {} /\ skipped = {} /\ unsaved = {} /\ refused = {}

-----------------------------------------------------------------------------
(* The calling goroutine.                                                  *)

Go(from, to) == pcP = from /\ pcP' = to

Return(err) == pcP' = "returned" /\ failed' = err

\* Not a vCenter session, no answer to the query of event.maxAge, or no
\* positive maximum age.
PrerequisitesFail ==
  /\ pcP = "start"
  /\ Return(TRUE)
  /\ UNCHANGED <<selected, todo, cur, open, unread, held, chanVars, consumerVars, file, ghosts>>

StartProcessing ==
  /\ Go("start", "build")
  /\ pcC' = "recv"
  /\ UNCHANGED <<selected, todo, cur, open, unread, held, chanVars, page, rows, file, failed, ghosts>>

\* The next turn of the loop: collectorBuilderFn asks the server the time.
BuildFilter ==
  /\ Go("build", "create")
  /\ \E r \in todo : cur' = r /\ todo' = todo \ {r}
  /\ UNCHANGED <<selected, open, unread, held, chanVars, consumerVars, file, failed, ghosts>>

\* The faulty program that ends the call for a datacenter too.
BuildFilterFailsEnds ==
  /\ pcP = "build"
  /\ \E r \in todo :
       /\ cur' = r
       /\ todo' = todo \ {r}
       /\ skipped' = skipped \cup {r}
       /\ Return(TRUE)
  /\ UNCHANGED <<selected, open, unread, held, chanVars, consumerVars, file, lost, unsaved,
                 refused>>

\* For the root folder the call ends here, and the processing goroutine is
\* left behind on a channel nobody closes; a datacenter is skipped, with a
\* line the log shows at debug level only.
BuildFilterFails ==
  /\ pcP = "build"
  /\ \E r \in todo :
       /\ cur' = r
       /\ todo' = todo \ {r}
       /\ skipped' = skipped \cup {r}
       /\ IF r = Root THEN Return(TRUE) ELSE UNCHANGED <<pcP, failed>>
  /\ UNCHANGED <<selected, open, unread, held, chanVars, consumerVars, file, lost, unsaved,
                 refused>>

CreateCollector ==
  /\ Go("create", "read")
  /\ open' = open \cup {cur}
  /\ unread' = ItemsOf(cur)
  /\ UNCHANGED <<selected, todo, cur, held, chanVars, consumerVars, file, failed, ghosts>>

CreateCollectorFails ==
  /\ Go("create", "build")
  /\ lost' = lost \cup ItemsOf(cur)
  /\ UNCHANGED <<selected, todo, cur, open, unread, held, chanVars, consumerVars, file, failed,
                 skipped, unsaved, refused>>

\* The faulty program that reads the latest page instead of the next one.
ReadLatestPage ==
  /\ Go("read", "send")
  /\ held' \in {p \in SUBSET unread : p # {} /\ Cardinality(p) <= PageSize}
  /\ UNCHANGED <<selected, todo, cur, open, unread, chanVars, consumerVars, file, failed, ghosts>>

\* ReadNextEvents returns the next events, in the server's order.
ReadNextPage ==
  /\ Go("read", "send")
  /\ held' \in {p \in SUBSET unread : p # {} /\ Cardinality(p) <= PageSize}
  /\ unread' = unread \ held'
  /\ UNCHANGED <<selected, todo, cur, open, chanVars, consumerVars, file, failed, ghosts>>

ReadNothing ==
  /\ Go("read", "destroy")
  /\ unread = {}
  /\ UNCHANGED <<selected, todo, cur, open, unread, held, chanVars, consumerVars, file, failed, ghosts>>

\* The error is logged; the page that comes with it is empty, which the loop
\* takes for the end of the events.
ReadFails ==
  /\ Go("read", "destroy")
  /\ lost' = lost \cup unread
  /\ unread' = {}
  /\ UNCHANGED <<selected, todo, cur, open, held, chanVars, consumerVars, file, failed,
                 skipped, unsaved, refused>>

\* The faulty program with a channel of one page more.
SendPageOverCap ==
  /\ Go("send", "read")
  /\ Len(pages) <= Cap
  /\ pages' = Append(pages, held)
  /\ held' = {}
  /\ UNCHANGED <<selected, todo, cur, open, unread, closed, consumerVars, file, failed, ghosts>>

\* sPageChan <- ..., which blocks while the channel is full.
SendPage ==
  /\ Go("send", "read")
  /\ Len(pages) < Cap
  /\ pages' = Append(pages, held)
  /\ held' = {}
  /\ UNCHANGED <<selected, todo, cur, open, unread, closed, consumerVars, file, failed, ghosts>>

\* The faulty program that does not defer collector.Destroy.
NoDestroyCollector ==
  /\ Go("destroy", "build")
  /\ UNCHANGED <<selected, todo, cur, open, unread, held, chanVars, consumerVars, file, failed, ghosts>>

\* The deferred collector.Destroy, then wgEventsProc.Done().
DestroyCollector ==
  /\ Go("destroy", "build")
  /\ open' = open \ {cur}
  /\ UNCHANGED <<selected, todo, cur, unread, held, chanVars, consumerVars, file, failed, ghosts>>

\* The server answers the Destroy with an error, which the defer drops.
DestroyRefused ==
  /\ Go("destroy", "build")
  /\ refused' = refused \cup {cur}
  /\ UNCHANGED <<selected, todo, cur, open, unread, held, chanVars, consumerVars, file, failed,
                 lost, skipped, unsaved>>

\* The faulty program that does not close sPageChan.
LeaveChannelOpen ==
  /\ Go("build", "await")
  /\ todo = {}
  /\ UNCHANGED <<selected, todo, cur, open, unread, held, chanVars, consumerVars, file, failed, ghosts>>

\* wgEventsProc.Wait() cannot block: the collectors ran in this goroutine.
CloseChannel ==
  /\ Go("build", "await")
  /\ todo = {}
  /\ closed' = TRUE
  /\ UNCHANGED <<selected, todo, cur, open, unread, held, pages, consumerVars, file, failed, ghosts>>

CreateFile ==
  /\ Go("createFile", "write")
  /\ UNCHANGED <<selected, todo, cur, open, unread, held, chanVars, consumerVars, file, failed, ghosts>>

CreateFileFails ==
  /\ pcP = "createFile"
  /\ Return(TRUE)
  /\ UNCHANGED <<selected, todo, cur, open, unread, held, chanVars, consumerVars, file, ghosts>>

RowsOf(table, from, to) == {table[i] : i \in from..to}

\* The disk may take the first n rows only.  The writer is buffered: those up
\* to m it accepted before it noticed, or the deferred Flush, Sync or Close
\* failed, whose errors are dropped; for each later row Write returns the error.
Save(table) ==
  /\ \E n \in 0..Len(table) : \E m \in n..Len(table) :
       /\ file' = SubSeq(table, 1, n)
       /\ unsaved' = RowsOf(table, n + 1, m)
       /\ lost' = lost \cup RowsOf(table, m + 1, Len(table))
  /\ Return(FALSE)
  /\ UNCHANGED <<selected, todo, cur, open, unread, held, chanVars, consumerVars, skipped, refused>>

\* SortWrappedEvents: by event id, rows of equal id in any order, since the
\* sort is not stable.
Sorted(s) ==
  {t \in {[i \in DOMAIN s |-> s[p[i]]] : p \in Bijection(DOMAIN s, DOMAIN s)} :
     \A i, j \in DOMAIN t : i < j => t[i][2] <= t[j][2]}

\* The faulty program that forgets SortWrappedEvents.
WriteReportUnsorted ==
  /\ pcP = "write"
  /\ Save(rows)

WriteReport ==
  /\ pcP = "write"
  /\ \E table \in Sorted(rows) : Save(table)

-----------------------------------------------------------------------------
(* The processing goroutine.                                               *)

Receive ==
  /\ pcC = "recv"
  /\ pages # <<>>
  /\ page' = Head(pages)
  /\ pages' = Tail(pages)
  /\ pcC' = "process"
  /\ UNCHANGED <<selected, producerVars, closed, rows, file, failed, ghosts>>

AfterEvent(x) ==
  /\ page' = page \ {x}
  /\ pcC' = IF page = {x} THEN "recv" ELSE "process"

\* pageCallBackFn, one turn of its loop: EventCategory may ask the server.
ProcessEvent ==
  /\ pcC = "process"
  /\ \E x \in page : AfterEvent(x) /\ rows' = Append(rows, x)
  /\ UNCHANGED <<selected, producerVars, chanVars, file, failed, ghosts>>

\* EventCategory fails: the event is dropped.
CategoryFails ==
  /\ pcC = "process"
  /\ \E x \in page : AfterEvent(x) /\ lost' = lost \cup {x}
  /\ UNCHANGED <<selected, producerVars, chanVars, rows, file, failed, skipped, unsaved, refused>>

\* The faulty program that stops when the channel is closed, not drained.
StopWhenClosed ==
  /\ pcC = "recv"
  /\ closed
  /\ pcC' = "signal"
  /\ UNCHANGED <<selected, producerVars, chanVars, page, rows, file, failed, ghosts>>

ReceiveEnd ==
  /\ pcC = "recv"
  /\ pages = <<>> /\ closed
  /\ pcC' = "signal"
  /\ UNCHANGED <<selected, producerVars, chanVars, page, rows, file, failed, ghosts>>

\* The faulty program that does not wait for sCallBackFnDone.
NoAwaitProcessed ==
  /\ Go("await", "createFile")
  /\ UNCHANGED <<selected, todo, cur, open, unread, held, chanVars, consumerVars, file, failed, ghosts>>

\* sCallBackFnDone, unbuffered: both goroutines take this step.
AwaitProcessed ==
  /\ Go("await", "createFile")
  /\ pcC = "signal" /\ pcC' = "exit"
  /\ UNCHANGED <<selected, todo, cur, open, unread, held, chanVars, page, rows, file, failed, ghosts>>

-----------------------------------------------------------------------------

Producer ==
  \/ PrerequisitesFail \/ StartProcessing \/ BuildFilter \/ BuildFilterFails
  \/ CreateCollector \/ CreateCollectorFails \/ ReadNextPage \/ ReadNothing \/ ReadFails
  \/ SendPage \/ DestroyCollector \/ DestroyRefused \/ CloseChannel \/ AwaitProcessed
  \/ CreateFile \/ CreateFileFails \/ WriteReport

Consumer == Receive \/ ProcessEvent \/ CategoryFails \/ ReceiveEnd

Terminated == pcP = "returned" /\ UNCHANGED vars

Next == Producer \/ Consumer \/ Terminated

Spec == Init /\ [][Next]_vars

\* Both goroutines run when they can, and the server answers every call
\* (with an error, possibly): no call has a time limit.
FairSpec == Spec /\ WF_vars(Producer) /\ WF_vars(Consumer)

-----------------------------------------------------------------------------

Requested == UNION {ItemsOf(r) : r \in selected}

\* What the program passes over on the way to the rows, or cannot write.
Gone == lost \cup UNION {ItemsOf(r) : r \in skipped}

\* Where an event of the request can be: below a datacenter not yet reached,
\* in its collector, on its way, in a row, or gone.
Untouched ==
  UNION {ItemsOf(r) : r \in todo \cup (IF pcP = "create" THEN {cur} ELSE {})}
InChannel == UNION Range(pages)

\* Every requested event is in exactly one place, and no event is in the
\* channel or the rows twice, whatever the interleaving: up to the rows an
\* event is lost only to a failed call, and none is repeated.
EachEventOnce ==
  LET places == <<Untouched, unread, held, InChannel, page, Range(rows),
                  Gone \ Range(rows)>>
  IN  /\ UNION Range(places) = Requested
      /\ \A i, j \in DOMAIN places : i # j => places[i] \cap places[j] = {}
      /\ \A i, j \in DOMAIN pages : i # j => pages[i] \cap pages[j] = {}
      /\ IsInjective(rows)

\* The caller touches resFinalLst only when the processing goroutine is
\* over and has seen every page: there is no lock on it.
DrainedBeforeReport ==
  pcP \in {"createFile", "write"} => pcC = "exit" /\ pages = <<>> /\ page = {}

\* A call that reports success (retrieve_vi_evnt.go:100) has in its file each
\* requested event but those an error was logged for, those of a datacenter it
\* passed over, and the rows the disk refused unseen; the latter come after all
\* that are in the file, so its end may be missing but nothing in between.
SuccessAccountsForAll ==
  pcP = "returned" /\ ~failed =>
    /\ Range(file) = (Requested \ Gone) \ unsaved
    /\ unsaved \subseteq Requested \ Gone
    /\ \A x \in Range(file), y \in unsaved : x[2] <= y[2]

\* No event collector outlives the turn of the loop it was created for, but
\* those the server refused to destroy (vi_events.go:152): a session can have
\* only so many of them.
CollectorsClosed ==
  /\ refused \subseteq open
  /\ open \ refused \subseteq {cur}
  /\ open \ refused # {} => pcP \in {"read", "send", "destroy"}

\* The processing goroutine outlives the call only when the time query for the
\* root folder failed (vi_events.go:179), and then with nothing left to do: on
\* every other way out it is over, and nothing it was sent is dropped.
OnlyIdleConsumerLeft ==
  pcP = "returned" /\ pcC \notin {"off", "exit"} =>
    /\ failed /\ selected = {Root}
    /\ pcC = "recv" /\ pages = <<>> /\ ~closed

\* What a goroutine waits for that only the other one can bring: room in the
\* channel or the answer on sCallBackFnDone; a page or the close, or the
\* receive of that answer.  Otherwise it waits for the server at most.
ProducerWaits ==
  \/ pcP = "send" /\ Len(pages) >= Cap
  \/ pcP = "await" /\ pcC # "signal"

ConsumerWaits ==
  \/ pcC \in {"off", "exit"}
  \/ pcC = "recv" /\ pages = <<>> /\ ~closed
  \/ pcC = "signal" /\ pcP # "await"

\* Until the call returns, caller and consumer never wait for each other, nor
\* the caller for a consumer that is over: not with the channel full, not with
\* it empty, not in the handshake (vi_events.go:163-230).
NeverBothWait == pcP # "returned" => ~(ProducerWaits /\ ConsumerWaits)

\* The call is an event export.
Export == INSTANCE EventExport WITH
  requested <- Requested,
  collected <- Range(rows),
  report    <- file,
  outcome   <- IF pcP # "returned" THEN "pending" ELSE IF failed THEN "failed" ELSE "done"

ImplementsExport == Export!Spec

\* The call comes to an end: neither the full channel, nor the handshake,
\* nor an error of the server keeps it waiting.
Returns == <>(pcP = "returned")

-----------------------------------------------------------------------------

\* "successfully finished retrieve_vi_events" (retrieve_vi_evnt.go:100) is
\* logged only when every requested event is in the report.  The error of
\* ReadNextEvents, among others, is dropped on the way.
SuccessMeansComplete == pcP = "returned" /\ ~failed => Range(file) = Requested

=============================================================================
