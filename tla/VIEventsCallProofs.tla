------------------------- MODULE VIEventsCallProofs --------------------------
(***************************************************************************)
(* A call of VIEvents as a whole.  It implements EventExport: with two     *)
(* goroutines, a channel and every server call failing when it likes, it   *)
(* still gathers events one by one, publishes one report in order, or      *)
(* fails without one.  And it is bounded: whatever fails, and in whatever  *)
(* order the goroutines run, each of its steps brings it nearer the end.   *)
(***************************************************************************)
EXTENDS VIEventsAccountProofs, FiniteSetTheorems

\* What EventExport sees of a call.
outcomeOf == IF pcP # "returned" THEN "pending" ELSE IF failed THEN "failed" ELSE "done"

LEMMA ItemIsPair == \A x \in Item : x[2] \in Int
  BY EventsAssumption DEF Item, ItemsOf, Ref

\* What Sorted leaves of the rows: the same ones, each once, in order.
LEMMA SortedIsReport ==
  ASSUME NEW s \in Seq(Item), IsInjective(s), NEW t \in Sorted(s), NEW n \in 0..Len(t)
  PROVE  /\ Export!Ascending(SubSeq(t, 1, n))
         /\ IsInjective(SubSeq(t, 1, n))
         /\ Range(SubSeq(t, 1, n)) \subseteq Range(s)
<1> DEFINE u == SubSeq(t, 1, n)
<1>3. IsInjective(t)
  BY SortedRows
<1>4. t \in Seq(Item) /\ Range(t) = Range(s) /\ DOMAIN t = 1..Len(t) /\ Len(t) \in Nat
  BY SortedRows
<1>5. DOMAIN u = 1..n /\ 1..n \subseteq DOMAIN t /\ \A i \in 1..n : u[i] = t[i]
  BY <1>4
<1>6. \A i, j \in DOMAIN t : i < j => t[i][2] <= t[j][2]
  BY DEF Sorted
<1>7. \A i, j \in 1..n : i <= j => u[i][2] <= u[j][2]
  <2> SUFFICES ASSUME NEW i \in 1..n, NEW j \in 1..n, i <= j
               PROVE  u[i][2] <= u[j][2]
      OBVIOUS
  <2>1. CASE i < j
    BY <1>5, <1>6, <2>1
  <2>2. CASE i = j
    <3>1. u[i] \in Item
      BY <1>4, <1>5
    <3> QED BY <2>2, <3>1, ItemIsPair
  <2> QED BY <2>1, <2>2
<1>8. Export!Ascending(u)
  BY <1>5, <1>7 DEF Export!Ascending
<1> HIDE DEF u
<1>9. IsInjective(u)
  BY <1>3, <1>5 DEF IsInjective
<1>10. Range(u) \subseteq Range(t)
  BY <1>5 DEF Range
<1> QED BY <1>4, <1>8, <1>9, <1>10 DEF u

LEMMA InitExport == Init => Export!Init
  BY EmptyRange DEF Init, Export!Init

\* A row appended is an event collected.
LEMMA RowIsCollected ==
  TypeOK /\ Inv /\ Account /\ ProcessEvent => Export!Collect
<1> SUFFICES ASSUME TypeOK, Inv, Account, ProcessEvent
             PROVE  Export!Collect
    OBVIOUS
<1>1. PICK x \in page : rows' = Append(rows, x)
  BY DEF ProcessEvent
<1>2. /\ pcC = "process" /\ UNCHANGED <<selected, pcP, file, failed>>
      /\ x \in Item /\ rows \in Seq(Item)
  BY DEF ProcessEvent, producerVars, TypeOK
<1>3. pcP # "returned"
  BY <1>2 DEF Inv, OnlyIdleConsumerLeft
<1>4. x \in Requested \ Range(rows)
  BY DEF Account, Split
<1>5. Range(rows') = Range(rows) \cup {x}
  BY <1>1, <1>2, AppendRange
<1>6. Requested' = Requested
  BY <1>2 DEF Requested
<1> QED BY <1>2, <1>3, <1>4, <1>5, <1>6 DEF Export!Collect

LEMMA ReportIsPublished == TypeOK /\ Inv /\ Account /\ WriteReport => Export!Publish
<1> SUFFICES ASSUME TypeOK, Inv, Account, WriteReport
             PROVE  Export!Publish
    OBVIOUS
<1>1. PICK table \in Sorted(rows) : Save(table)
  BY DEF WriteReport
<1>2. PICK n \in 0..Len(table) : file' = SubSeq(table, 1, n)
  BY <1>1 DEF Save
<1>3. rows \in Seq(Item) /\ IsInjective(rows)
  BY DEF TypeOK, Account
<1>4. Export!Ascending(file') /\ IsInjective(file') /\ Range(file') \subseteq Range(rows)
  BY <1>2, <1>3, SortedIsReport
<1>5. /\ pcP = "write" /\ pcP' = "returned" /\ failed' = FALSE
      /\ UNCHANGED <<selected, rows>>
  BY <1>1 DEF WriteReport, Save, Return, consumerVars
<1>6. Requested' = Requested
  BY <1>5 DEF Requested
<1>7. Export!IsInjective(file') /\ Export!Range(file') \subseteq Range(rows)
  BY <1>4 DEF Export!IsInjective, Export!Range, IsInjective, Range
<1> QED BY <1>4, <1>5, <1>6, <1>7 DEF Export!Publish

\* Every other step of the caller fails the export or leaves it alone.
LEMMA OthersStutter ==
  ASSUME TypeOK, [Next]_vars, ~ProcessEvent, ~WriteReport
  PROVE  Export!Fail \/ UNCHANGED <<Requested, Range(rows), file, outcomeOf>>
<1> USE DEF Go, Return, consumerVars, chanVars, producerVars, outcomeOf
<1>1. UNCHANGED <<selected, rows, file>>
  BY DEF Next, Producer, Consumer, PrerequisitesFail, StartProcessing, BuildFilter,
         BuildFilterFails, CreateCollector, CreateCollectorFails, ReadNextPage, ReadNothing,
         ReadFails, SendPage, DestroyCollector, DestroyRefused, CloseChannel, AwaitProcessed, CreateFile,
         CreateFileFails, Receive, CategoryFails, ReceiveEnd, Terminated, vars
<1>2. \/ UNCHANGED <<pcP, failed>>
      \/ pcP # "returned" /\ pcP' # "returned"
      \/ pcP # "returned" /\ pcP' = "returned" /\ failed' = TRUE
  <2>1. CASE Producer
    BY <2>1 DEF Producer, PrerequisitesFail, StartProcessing, BuildFilter,
         BuildFilterFails, CreateCollector, CreateCollectorFails, ReadNextPage, ReadNothing,
         ReadFails, SendPage, DestroyCollector, DestroyRefused, CloseChannel, AwaitProcessed, CreateFile,
         CreateFileFails
  <2>2. CASE Consumer
    BY <2>2 DEF Consumer, Receive, ProcessEvent, CategoryFails, ReceiveEnd
  <2>3. CASE Terminated \/ UNCHANGED vars
    BY <2>3 DEF Terminated, vars
  <2> QED BY <2>1, <2>2, <2>3 DEF Next
<1>3. UNCHANGED <<Requested, Range(rows)>>
  BY <1>1 DEF Requested
<1> QED BY <1>1, <1>2, <1>3 DEF Export!Fail

\* The export keeps the abstract promise, for every value of the constants.
THEOREM ExportImplemented == Spec => ImplementsExport
<1>1. TypeOK /\ Inv /\ Account /\ [Next]_vars
        => [Export!Next]_<<Requested, Range(rows), file, outcomeOf>>
  BY RowIsCollected, ReportIsPublished, OthersStutter DEF Export!Next
<1> QED BY InitExport, Typing, Invariance, AccountInvariant, <1>1, PTL
        DEF Spec, ImplementsExport, Export!Spec, outcomeOf

-----------------------------------------------------------------------------
(* The call is bounded: StepsLeft is a number, and every step lowers it.   *)

\* The events each stage of the pipeline has still to come to.
NotRead      == Untouched \cup unread
NotSent      == NotRead \cup held
NotReceived  == NotSent \cup InChannel
NotProcessed == NotReceived \cup page

ProducerStage == [start |-> 5, build |-> 4, create |-> 7, read |-> 6, send |-> 6, destroy |-> 5,
                  await |-> 3, createFile |-> 2, write |-> 1, returned |-> 0]

ConsumerStage == [off |-> 2, recv |-> 2, process |-> 2, signal |-> 1, exit |-> 0]

\* A bound on the steps both goroutines can still take: at most four for each
\* event and each datacenter, and those of the way out.
StepsLeft ==
  ProducerStage[pcP] + ConsumerStage[pcC] + 4 * Cardinality(todo) + Cardinality(NotRead)
    + Cardinality(NotSent) + Cardinality(NotReceived) + Cardinality(NotProcessed)

\* Nothing is tried again, and no page is read, sent or processed twice, so no
\* run of failures and no interleaving keeps the call busy for ever: each step
\* of either goroutine lowers the bound.
EveryStepCounts == [][StepsLeft' < StepsLeft]_vars

LEMMA ItemFinite == IsFiniteSet(Item)
<1>1. ASSUME NEW r \in Ref
      PROVE  IsFiniteSet(ItemsOf(r))
  <2> DEFINE f == [e \in EventsIn[r] |-> <<r, e>>]
  <2>1. f \in Surjection(EventsIn[r], ItemsOf(r))
    BY DEF Surjection, ItemsOf
  <2>2. IsFiniteSet(EventsIn[r])
    BY FiniteAssumption DEF Ref
  <2> QED BY <2>1, <2>2, FS_Surjection
<1> DEFINE W == {ItemsOf(r) : r \in Ref}
           g == [r \in Ref |-> ItemsOf(r)]
<1>2. IsFiniteSet(Ref)
  BY FiniteAssumption, FS_AddElement DEF Ref
<1>3. g \in Surjection(Ref, W)
  BY DEF Surjection
<1>4. IsFiniteSet(W)
  BY <1>2, <1>3, FS_Surjection
<1>5. \A w \in W : IsFiniteSet(w)
  BY <1>1
<1> QED BY <1>4, <1>5, FS_UNION DEF Item

LEMMA FewerLeft ==
  ASSUME NEW S, NEW T, IsFiniteSet(S), T \subseteq S
  PROVE  /\ Cardinality(S) \in Nat /\ Cardinality(T) \in Nat
         /\ Cardinality(T) <= Cardinality(S)
         /\ T # S => Cardinality(T) < Cardinality(S)
<1>1. /\ IsFiniteSet(T) /\ Cardinality(T) <= Cardinality(S)
      /\ Cardinality(S) = Cardinality(T) => S = T
  BY FS_Subset
<1>2. Cardinality(S) \in Nat /\ Cardinality(T) \in Nat
  BY <1>1, FS_CardinalityType
<1> QED BY <1>1, <1>2

Stages == ProducerStage[pcP] + ConsumerStage[pcC]

LEMMA StagesAreNumbers == TypeOK => Stages \in Nat
  BY DEF TypeOK, Stages, ProducerStage, ConsumerStage

\* The events still to come are requested ones.
LEMMA LeftAreRequested ==
  ASSUME TypeOK, Account
  PROVE  /\ IsFiniteSet(todo) /\ IsFiniteSet(NotRead) /\ IsFiniteSet(NotSent)
         /\ IsFiniteSet(NotReceived) /\ IsFiniteSet(NotProcessed)
<1>1. Requested \subseteq Item
  BY DEF TypeOK, Requested, Item
<1>2. Split(Requested, Untouched, unread, held, InChannel, page, Range(rows), Gone)
  BY DEF Account
<1>3. NotProcessed \subseteq Item
  BY <1>1, <1>2 DEF Split, NotProcessed, NotReceived, NotSent, NotRead
<1>4. NotRead \subseteq Item /\ NotSent \subseteq Item /\ NotReceived \subseteq Item
  BY <1>3 DEF NotProcessed, NotReceived, NotSent
<1>5. todo \subseteq Ref /\ IsFiniteSet(Ref)
  BY FiniteAssumption, FS_AddElement DEF TypeOK, Ref
<1>6. IsFiniteSet(todo)
  BY <1>5, FS_Subset
<1> QED BY <1>3, <1>4, <1>6, ItemFinite, FS_Subset

NothingComesBack ==
  /\ todo' \subseteq todo /\ NotRead' \subseteq NotRead /\ NotSent' \subseteq NotSent
  /\ NotReceived' \subseteq NotReceived /\ NotProcessed' \subseteq NotProcessed

SomeEventMovesOn ==
  \/ NotRead' # NotRead \/ NotSent' # NotSent
  \/ NotReceived' # NotReceived \/ NotProcessed' # NotProcessed

\* A step counts that ends a stage, moves an event on, or begins the turn of
\* a datacenter.
LEMMA CountGoesDown ==
  ASSUME TypeOK, TypeOK', Account, NothingComesBack,
         \/ Stages' < Stages
         \/ Stages' <= Stages /\ SomeEventMovesOn
         \/ Stages' <= Stages + 3 /\ todo' # todo
  PROVE  StepsLeft' < StepsLeft
<1>1. /\ IsFiniteSet(todo) /\ IsFiniteSet(NotRead) /\ IsFiniteSet(NotSent)
      /\ IsFiniteSet(NotReceived) /\ IsFiniteSet(NotProcessed)
  BY LeftAreRequested
<1> DEFINE s == Stages                 ss == Stages'
           t == Cardinality(todo)          tt == Cardinality(todo')
           a == Cardinality(NotRead)       aa == Cardinality(NotRead')
           b == Cardinality(NotSent)       bb == Cardinality(NotSent')
           c == Cardinality(NotReceived)   cc == Cardinality(NotReceived')
           d == Cardinality(NotProcessed)  dd == Cardinality(NotProcessed')
<1>2. /\ t \in Nat /\ tt \in Nat /\ tt <= t /\ (todo' # todo => tt < t)
      /\ a \in Nat /\ aa \in Nat /\ aa <= a /\ (NotRead' # NotRead => aa < a)
      /\ b \in Nat /\ bb \in Nat /\ bb <= b /\ (NotSent' # NotSent => bb < b)
      /\ c \in Nat /\ cc \in Nat /\ cc <= c /\ (NotReceived' # NotReceived => cc < c)
      /\ d \in Nat /\ dd \in Nat /\ dd <= d /\ (NotProcessed' # NotProcessed => dd < d)
  BY <1>1, FewerLeft DEF NothingComesBack
<1>3. s \in Nat /\ ss \in Nat
  BY StagesAreNumbers DEF Stages, TypeOK, ProducerStage, ConsumerStage
<1>4. StepsLeft = s + 4 * t + a + b + c + d
  BY DEF StepsLeft, Stages
<1>5. StepsLeft' = ss + 4 * tt + aa + bb + cc + dd
  BY DEF StepsLeft, Stages
<1>6. SomeEventMovesOn => aa < a \/ bb < b \/ cc < c \/ dd < d
  BY <1>2 DEF SomeEventMovesOn
<1>7. \/ ss < s
      \/ ss <= s /\ (aa < a \/ bb < b \/ cc < c \/ dd < d)
      \/ ss <= s + 3 /\ tt < t
  BY <1>2, <1>6
<1> HIDE DEF s, ss, t, tt, a, aa, b, bb, c, cc, d, dd
<1>8. ss + 4 * tt + aa + bb + cc + dd < s + 4 * t + a + b + c + d
  BY <1>2, <1>3, <1>7
<1> QED BY <1>4, <1>5, <1>8

\* What CountGoesDown asks of a step.
Counts ==
  /\ NothingComesBack
  /\ \/ Stages' < Stages
     \/ Stages' <= Stages /\ SomeEventMovesOn
     \/ Stages' <= Stages + 3 /\ todo' # todo

\* A step before the channel takes nothing from it or behind it.
LEMMA OnlyReadsLess ==
  UNCHANGED <<held, pages, page>> /\ NotRead' \subseteq NotRead /\ todo' \subseteq todo
    => NothingComesBack
  BY DEF NothingComesBack, NotSent, NotReceived, NotProcessed, InChannel

LEMMA LoopCounts ==
  TypeOK /\ Account /\ (BuildFilter \/ BuildFilterFails \/ CreateCollector \/ CreateCollectorFails)
    => Counts
<1> SUFFICES ASSUME TypeOK, Account,
                    BuildFilter \/ BuildFilterFails \/ CreateCollector \/ CreateCollectorFails
             PROVE  Counts
    OBVIOUS
<1> USE DEF Go, Return, consumerVars, chanVars
<1>1. UNCHANGED <<held, pages, page, pcC>> /\ pcP \in {"build", "create"} /\ unread = {}
  BY DEF BuildFilter, BuildFilterFails, CreateCollector, CreateCollectorFails, Account
<1>2. ConsumerStage[pcC] \in Nat /\ ConsumerStage[pcC'] = ConsumerStage[pcC]
  BY <1>1 DEF TypeOK, ConsumerStage
<1>3. CASE BuildFilter
  <2>1. PICK r \in todo : cur' = r /\ todo' = todo \ {r}
    BY <1>3 DEF BuildFilter
  <2>2. pcP = "build" /\ pcP' = "create" /\ UNCHANGED unread
    BY <1>3 DEF BuildFilter
  <2>3. Untouched' = Untouched
    BY <2>1, <2>2 DEF Untouched
  <2>4. Stages' <= Stages + 3
    BY <1>2, <2>2 DEF Stages, ProducerStage
  <2> QED BY <1>1, <2>1, <2>2, <2>3, <2>4, OnlyReadsLess DEF Counts, NotRead
<1>4. CASE BuildFilterFails
  <2>1. PICK r \in todo : /\ todo' = todo \ {r}
                          /\ IF r = Root THEN Return(TRUE) ELSE UNCHANGED <<pcP, failed>>
    BY <1>4 DEF BuildFilterFails
  <2>2. pcP = "build" /\ pcP' \in {"build", "returned"} /\ UNCHANGED unread
    BY <1>4, <2>1 DEF BuildFilterFails
  <2>3. Untouched' \subseteq Untouched
    BY <2>1, <2>2 DEF Untouched
  <2>4. Stages' <= Stages + 3
    BY <1>2, <2>2 DEF Stages, ProducerStage
  <2> QED BY <1>1, <2>1, <2>2, <2>3, <2>4, OnlyReadsLess DEF Counts, NotRead
<1>5. CASE CreateCollector \/ CreateCollectorFails
  <2>1. /\ pcP = "create" /\ pcP' \in {"read", "build"} /\ UNCHANGED <<todo, cur>>
        /\ unread' \subseteq ItemsOf(cur)
    BY <1>1, <1>5 DEF CreateCollector, CreateCollectorFails
  <2>2. Untouched = Below(todo) \cup ItemsOf(cur)
    BY <2>1 DEF Untouched, Below
  <2>3. Untouched' = Below(todo)
    BY <2>1 DEF Untouched, Below
  <2>4. Stages' < Stages
    BY <1>2, <2>1 DEF Stages, ProducerStage
  <2> QED BY <1>1, <2>1, <2>2, <2>3, <2>4, OnlyReadsLess DEF Counts, NotRead
<1> QED BY <1>3, <1>4, <1>5

LEMMA PagingCounts ==
  TypeOK /\ Account /\ (ReadNextPage \/ ReadNothing \/ ReadFails \/ SendPage) => Counts
<1> SUFFICES ASSUME TypeOK, Account, ReadNextPage \/ ReadNothing \/ ReadFails \/ SendPage
             PROVE  Counts
    OBVIOUS
<1> USE DEF Go, consumerVars, chanVars
<1>1. /\ UNCHANGED <<todo, page, pcC>>
      /\ pcP \in {"read", "send"} /\ pcP' \in {"read", "send", "destroy"}
  BY DEF ReadNextPage, ReadNothing, ReadFails, SendPage
<1>2. Untouched' = Untouched
  BY <1>1, UntouchedStays
<1>3. Split(Requested, Untouched, unread, held, InChannel, page, Range(rows), Gone)
  BY DEF Account
<1>4. /\ ProducerStage[pcP] \in Nat /\ ConsumerStage[pcC] \in Nat
      /\ ConsumerStage[pcC'] = ConsumerStage[pcC]
  BY <1>1 DEF TypeOK, ConsumerStage, ProducerStage
<1>5. CASE ReadNextPage
  <2>1. /\ held' # {} /\ held' \subseteq unread /\ unread' = unread \ held' /\ held = {}
        /\ UNCHANGED pages /\ pcP = "read" /\ pcP' = "send"
    BY <1>5 DEF ReadNextPage, TypeOK
  <2>2. NotRead' # NotRead /\ NotRead' \subseteq NotRead
    BY <1>2, <1>3, <2>1 DEF NotRead, Split
  <2>3. NotSent' = NotSent
    BY <1>2, <2>1 DEF NotSent, NotRead
  <2>4. NothingComesBack
    BY <1>1, <2>1, <2>2, <2>3 DEF NothingComesBack, NotReceived, NotProcessed, InChannel
  <2>5. Stages' <= Stages
    BY <1>4, <2>1 DEF Stages, ProducerStage
  <2> QED BY <2>2, <2>4, <2>5 DEF Counts, SomeEventMovesOn
<1>6. CASE ReadNothing \/ ReadFails
  <2>1. /\ unread' \subseteq unread /\ UNCHANGED <<held, pages>>
        /\ pcP = "read" /\ pcP' = "destroy"
    BY <1>6 DEF ReadNothing, ReadFails
  <2>2. Stages' < Stages
    BY <1>4, <2>1 DEF Stages, ProducerStage
  <2> QED BY <1>1, <1>2, <2>1, <2>2, OnlyReadsLess DEF Counts, NotRead
<1>7. CASE SendPage
  <2>1. /\ held # {} /\ held' = {} /\ pages' = Append(pages, held)
        /\ UNCHANGED unread /\ pcP = "send" /\ pcP' = "read"
        /\ pages \in Seq(SUBSET Item) /\ held \in SUBSET Item
    BY <1>7 DEF SendPage, TypeOK
  <2>2. NotRead' = NotRead
    BY <1>2, <2>1 DEF NotRead
  <2>3. NotSent' = NotRead /\ NotSent' # NotSent
    BY <1>3, <2>1, <2>2 DEF NotSent, NotRead, Split
  <2>4. InChannel' = InChannel \cup held
    <3>1. Range(pages') = Range(pages) \cup {held}
      BY <2>1, AppendRange
    <3> QED BY <3>1 DEF InChannel
  <2>5. NotReceived' = NotReceived
    BY <2>3, <2>4 DEF NotReceived, NotSent
  <2>6. NothingComesBack
    BY <1>1, <2>2, <2>3, <2>5 DEF NothingComesBack, NotSent, NotProcessed
  <2>7. Stages' <= Stages
    BY <1>4, <2>1 DEF Stages, ProducerStage
  <2> QED BY <2>3, <2>6, <2>7 DEF Counts, SomeEventMovesOn
<1> QED BY <1>5, <1>6, <1>7

\* The other steps of the caller, and the consumer's last: they move no event.
LEMMA EndCounts ==
  /\ TypeOK /\ Inv
  /\ \/ PrerequisitesFail \/ StartProcessing \/ DestroyCollector \/ DestroyRefused
     \/ CloseChannel \/ AwaitProcessed \/ CreateFile \/ CreateFileFails \/ WriteReport \/ ReceiveEnd
  => Counts
<1> SUFFICES ASSUME TypeOK, Inv,
                    \/ PrerequisitesFail \/ StartProcessing \/ DestroyCollector \/ DestroyRefused
                    \/ CloseChannel \/ AwaitProcessed \/ CreateFile \/ CreateFileFails \/ WriteReport
                    \/ ReceiveEnd
             PROVE  Counts
    OBVIOUS
<1> USE DEF Go, Return, consumerVars, producerVars, chanVars
<1>1. CASE WriteReport
  <2>1. /\ UNCHANGED <<todo, cur, unread, held, pages, page, pcC>>
        /\ pcP = "write" /\ pcP' = "returned"
    BY <1>1 DEF WriteReport, Save
  <2>2. Untouched' = Untouched
    BY <2>1 DEF Untouched
  <2>3. Stages' < Stages
    BY <2>1 DEF TypeOK, Stages, ProducerStage, ConsumerStage
  <2> QED BY <2>1, <2>2, <2>3, OnlyReadsLess DEF Counts, NotRead
<1>2. CASE ~WriteReport
  <2>1. UNCHANGED <<todo, cur, unread, held, pages, page>>
    BY <1>2 DEF PrerequisitesFail, StartProcessing, DestroyCollector, DestroyRefused, CloseChannel,
                AwaitProcessed, CreateFile, CreateFileFails, ReceiveEnd
  <2>2. \/ pcC' = pcC /\ <<pcP, pcP'>> \in {<<"start", "returned">>, <<"destroy", "build">>,
             <<"build", "await">>, <<"createFile", "write">>, <<"createFile", "returned">>}
        \/ pcP = "start" /\ pcP' = "build" /\ pcC = "off" /\ pcC' = "recv"
        \/ pcP = "await" /\ pcP' = "createFile" /\ pcC = "signal" /\ pcC' = "exit"
        \/ pcP' = pcP /\ pcC = "recv" /\ pcC' = "signal"
    BY <1>2 DEF PrerequisitesFail, StartProcessing, DestroyCollector, DestroyRefused, CloseChannel,
                AwaitProcessed, CreateFile, CreateFileFails, ReceiveEnd, Inv, Sync
  <2>3. Untouched' = Untouched
    BY <2>1, <2>2 DEF Untouched
  <2>4. Stages' < Stages
    BY <2>2 DEF TypeOK, Stages, ProducerStage, ConsumerStage
  <2> QED BY <2>1, <2>3, <2>4, OnlyReadsLess DEF Counts, NotRead
<1> QED BY <1>1, <1>2

\* A page is sent only when there is something on it.
NoEmptyPage == \A i \in DOMAIN pages : pages[i] # {}

LEMMA NoEmptyPageInductive == TypeOK /\ NoEmptyPage /\ [Next]_vars => NoEmptyPage'
<1> SUFFICES ASSUME TypeOK, NoEmptyPage, [Next]_vars
             PROVE  NoEmptyPage'
    OBVIOUS
<1> USE DEF Go, Return, consumerVars, producerVars, chanVars, NoEmptyPage
<1>1. CASE SendPage
  <2>1. pages' = Append(pages, held) /\ held # {} /\ pages \in Seq(SUBSET Item)
    BY <1>1 DEF SendPage, TypeOK
  <2> QED BY <2>1
<1>2. CASE Receive
  <2>1. pages' = Tail(pages) /\ pages # <<>> /\ pages \in Seq(SUBSET Item)
    BY <1>2 DEF Receive, TypeOK
  <2>2. \A i \in DOMAIN pages' : i + 1 \in DOMAIN pages /\ pages'[i] = pages[i + 1]
    BY <2>1, HeadTailRange
  <2> QED BY <2>2
<1>3. CASE ~SendPage /\ ~Receive
  <2>1. pages' = pages
    BY <1>3 DEF Next, Producer, Consumer, PrerequisitesFail, StartProcessing, BuildFilter,
         BuildFilterFails, CreateCollector, CreateCollectorFails, ReadNextPage, ReadNothing,
         ReadFails, DestroyCollector, DestroyRefused, CloseChannel, AwaitProcessed, CreateFile, CreateFileFails,
         WriteReport, Save, ProcessEvent, CategoryFails, ReceiveEnd, Terminated, vars
  <2> QED BY <2>1
<1> QED BY <1>1, <1>2, <1>3

LEMMA ConsumerCounts ==
  TypeOK /\ Inv /\ Account /\ NoEmptyPage /\ (Receive \/ ProcessEvent \/ CategoryFails) => Counts
<1> SUFFICES ASSUME TypeOK, Inv, Account, NoEmptyPage, Receive \/ ProcessEvent \/ CategoryFails
             PROVE  Counts
    OBVIOUS
<1> USE DEF producerVars, chanVars, AfterEvent
<1>1. UNCHANGED <<pcP, todo, cur, unread, held>>
  BY DEF Receive, ProcessEvent, CategoryFails
<1>2. UNCHANGED <<NotRead, NotSent>>
  BY <1>1 DEF Untouched, NotRead, NotSent
<1>3. Split(Requested, Untouched, unread, held, InChannel, page, Range(rows), Gone)
  BY DEF Account
<1>4. Stages' <= Stages
  <2>1. pcC \in {"recv", "process"} /\ pcC' \in {"recv", "process"}
    BY DEF Receive, ProcessEvent, CategoryFails
  <2> QED BY <1>1, <2>1 DEF TypeOK, Stages, ProducerStage, ConsumerStage
<1>5. CASE Receive
  <2>1. /\ pages # <<>> /\ pages' = Tail(pages) /\ page' = Head(pages) /\ page = {}
        /\ pages \in Seq(SUBSET Item)
    BY <1>5 DEF Receive, Inv, Sync, TypeOK
  <2>2. /\ Range(pages) = Range(pages') \cup {page'}
        /\ page' = pages[1] /\ 1 \in DOMAIN pages /\ DOMAIN pages' \subseteq Nat \ {0}
        /\ \A i \in DOMAIN pages' : i + 1 \in DOMAIN pages /\ pages'[i] = pages[i + 1]
    BY <2>1, HeadTailRange
  <2>3. InChannel = InChannel' \cup page' /\ page' # {}
    BY <2>2 DEF InChannel, NoEmptyPage
  <2>4. \A i \in DOMAIN pages' : pages'[i] \cap page' = {}
    BY <2>2 DEF Account, PagesApart
  <2>5. InChannel' \cap page' = {}
    BY <2>4 DEF InChannel, Range
  <2>6. NotReceived' \subseteq NotReceived /\ NotReceived' # NotReceived
    BY <1>1, <1>2, <1>3, <2>3, <2>5 DEF NotReceived, NotSent, NotRead, Split
  <2>7. NotProcessed' = NotProcessed
    BY <1>2, <2>1, <2>3 DEF NotProcessed, NotReceived
  <2> QED BY <1>1, <1>2, <1>4, <2>6, <2>7 DEF Counts, NothingComesBack, SomeEventMovesOn
<1>6. CASE ProcessEvent \/ CategoryFails
  <2>1. PICK x \in page : page' = page \ {x}
    BY <1>6 DEF ProcessEvent, CategoryFails
  <2>2. UNCHANGED <<NotReceived>>
    BY <1>2, <1>6 DEF ProcessEvent, CategoryFails, NotReceived, InChannel
  <2>3. NotProcessed' \subseteq NotProcessed /\ NotProcessed' # NotProcessed
    BY <1>3, <2>1, <2>2 DEF NotProcessed, NotReceived, NotSent, NotRead, Split
  <2> QED BY <1>1, <1>2, <1>4, <2>2, <2>3 DEF Counts, NothingComesBack, SomeEventMovesOn
<1> QED BY <1>5, <1>6

\* Every step of either goroutine lowers the bound on those that are left,
\* whatever fails and in whatever order they run, for every value of the
\* constants: the call can take only so many steps.
THEOREM CallIsBounded == Spec => [](StepsLeft \in Nat) /\ EveryStepCounts
<1>1. Init => NoEmptyPage
  BY DEF Init, NoEmptyPage
<1>2. Spec => []NoEmptyPage
  BY <1>1, Typing, NoEmptyPageInductive, PTL DEF Spec
<1>3. TypeOK /\ Account => StepsLeft \in Nat
  <2> SUFFICES ASSUME TypeOK, Account
               PROVE  StepsLeft \in Nat
      OBVIOUS
  <2>1. /\ Cardinality(todo) \in Nat /\ Cardinality(NotRead) \in Nat
        /\ Cardinality(NotSent) \in Nat /\ Cardinality(NotReceived) \in Nat
        /\ Cardinality(NotProcessed) \in Nat
    BY LeftAreRequested, FS_CardinalityType
  <2> QED BY <2>1, StagesAreNumbers DEF StepsLeft, Stages
<1>4. TypeOK /\ Inv /\ Account /\ NoEmptyPage /\ TypeOK' /\ [Next]_vars
        => [StepsLeft' < StepsLeft]_vars
  <2> SUFFICES ASSUME TypeOK, Inv, Account, NoEmptyPage, TypeOK', Next, ~UNCHANGED vars
               PROVE  StepsLeft' < StepsLeft
      OBVIOUS
  <2>1. Counts
    BY LoopCounts, PagingCounts, EndCounts, ConsumerCounts
       DEF Next, Producer, Consumer, Terminated
  <2> QED BY <2>1, CountGoesDown DEF Counts
<1> QED BY Typing, Invariance, AccountInvariant, <1>2, <1>3, <1>4, PTL DEF Spec, EveryStepCounts

-----------------------------------------------------------------------------
(* The rows can always be put in order, whatever their number, so a caller *)
(* that has come to write the report is never without one to write: an     *)
(* induction over that number, from the least one for which it would fail. *)

\* A set of numbers has a least one, as the intervals below its members are
\* subsets of a finite set, and so cannot get smaller for ever.
LEMMA LeastNumber ==
  ASSUME NEW T, T \subseteq Nat, T # {}
  PROVE  \E m \in T : \A k \in T : m <= k
<1>1. PICK n \in T : TRUE
  OBVIOUS
<1> DEFINE S == 1..n
           UpTo(m) == 1..m
           F == {UpTo(m) : m \in {k \in T : k <= n}}
<1>2. n \in Nat
  BY <1>1
<1>3. IsWellFoundedOn(StrictSubsetOrdering(S), SUBSET S)
  <2>1. IsFiniteSet(S)
    BY <1>2, FS_Interval
  <2> QED BY <2>1, FS_StrictSubsetOrderingWellFounded, FS_FiniteSubsetsOfFinite
<1>4. F \subseteq SUBSET S /\ F # {}
  <2>1. \A m \in T : m <= n => UpTo(m) \in SUBSET S
    BY <1>2
  <2>2. UpTo(n) \in F
    BY <1>1, <1>2
  <2> QED BY <2>1, <2>2
<1>5. PICK B \in F : \A C \in F : ~ (<<C, B>> \in StrictSubsetOrdering(S))
  <2> HIDE DEF F, S
  <2> QED BY <1>3, <1>4, WFMin
<1>6. PICK m \in T : m <= n /\ B = UpTo(m)
  OBVIOUS
<1>7. ASSUME NEW k \in T, k < m
      PROVE  FALSE
  <2>1. /\ UpTo(k) \in F /\ UpTo(k) \subseteq UpTo(m)
        /\ m \in UpTo(m) /\ m \notin UpTo(k)
    BY <1>2, <1>6, <1>7
  <2>2. <<UpTo(k), B>> \in StrictSubsetOrdering(S)
    BY <1>4, <1>6, <2>1 DEF StrictSubsetOrdering
  <2> QED BY <1>5, <2>1, <2>2
<1> QED BY <1>6, <1>7

\* p puts n keys in ascending order.
Orders(p, n, key) ==
  p \in Bijection(1..n, 1..n) /\ \A i, j \in 1..n : i < j => key[p[i]] <= key[p[j]]

\* One more key goes before the first that is greater.
LEMMA InsertKey ==
  ASSUME NEW n \in Nat, NEW key \in [1..(n + 1) -> Int], NEW p, Orders(p, n, key)
  PROVE  \E q : Orders(q, n + 1, key)
<1> DEFINE v == key[n + 1]
           T == {m \in 1..(n + 1) : m = n + 1 \/ key[p[m]] > v}
<1>1. /\ p \in [1..n -> 1..n]
      /\ \A w \in 1..n : \E u \in 1..n : p[u] = w
      /\ \A u, w \in 1..n : p[u] = p[w] => u = w
      /\ \A i, j \in 1..n : i < j => key[p[i]] <= key[p[j]]
  BY DEF Orders, Bijection, Injection, Surjection, IsInjective
<1>2. \A i \in 1..n : p[i] \in 1..n /\ p[i] \in 1..(n + 1)
  <2>1. \A i \in 1..n : p[i] \in 1..n
    BY <1>1
  <2>2. \A x \in 1..n : x \in 1..(n + 1)
    OBVIOUS
  <2> QED BY <2>1, <2>2
<1>3. PICK m \in T : \A k \in T : m <= k
  <2>1. T \subseteq Nat /\ n + 1 \in T
    OBVIOUS
  <2> HIDE DEF T
  <2> QED BY <2>1, LeastNumber
<1>4. m \in 1..(n + 1)
  BY <1>3
<1>5. \A i \in 1..n : i < m => key[p[i]] <= v
  <2> SUFFICES ASSUME NEW i \in 1..n, i < m
               PROVE  key[p[i]] <= v
      OBVIOUS
  <2>1. i \notin T
    BY <1>3, <1>4
  <2>2. key[p[i]] \in Int /\ v \in Int
    BY <1>1
  <2> QED BY <2>1, <2>2
<1>6. \A i \in 1..n : m <= i => v <= key[p[i]]
  <2> SUFFICES ASSUME NEW i \in 1..n, m <= i
               PROVE  v <= key[p[i]]
      OBVIOUS
  <2>1. m \in 1..n /\ key[p[m]] > v
    BY <1>3, <1>4
  <2>2. key[p[i]] \in Int /\ key[p[m]] \in Int /\ v \in Int
    <3>1. p[i] \in 1..(n + 1) /\ p[m] \in 1..(n + 1)
      BY <1>2, <2>1
    <3> QED BY <3>1
  <2>3. m < i => key[p[m]] <= key[p[i]]
    BY <1>1, <2>1
  <2> QED BY <2>1, <2>2, <2>3
<1> DEFINE q == [i \in 1..(n + 1) |-> IF i < m THEN p[i] ELSE IF i = m THEN n + 1 ELSE p[i - 1]]
<1>7. /\ \A i \in 1..(n + 1) : i < m => i \in 1..n /\ q[i] = p[i]
      /\ q[m] = n + 1
      /\ \A i \in 1..(n + 1) : m < i => i - 1 \in 1..n /\ m <= i - 1 /\ q[i] = p[i - 1]
  BY <1>4
<1>8. \A i \in 1..(n + 1) : i < m \/ i = m \/ m < i
  BY <1>4
<1>9. q \in [1..(n + 1) -> 1..(n + 1)]
  <2>1. \A i \in 1..(n + 1) : q[i] \in 1..(n + 1)
    <3> SUFFICES ASSUME NEW i \in 1..(n + 1)
                 PROVE  q[i] \in 1..(n + 1)
        OBVIOUS
    <3>1. n + 1 \in 1..(n + 1)
      OBVIOUS
    <3> HIDE DEF q
    <3>2. CASE i < m
      BY <1>7, <1>2, <3>2
    <3>3. CASE i = m
      BY <1>7, <3>1, <3>3
    <3>4. CASE m < i
      BY <1>7, <1>2, <3>4
    <3> QED BY <1>8, <3>2, <3>3, <3>4
  <2> QED BY <2>1
<1> HIDE DEF q, T
<1>10. \A w \in 1..(n + 1) : \E u \in 1..(n + 1) : q[u] = w
  <2> SUFFICES ASSUME NEW w \in 1..(n + 1)
               PROVE  \E u \in 1..(n + 1) : q[u] = w
      OBVIOUS
  <2>1. CASE w = n + 1
    BY <1>4, <1>7, <2>1
  <2>2. CASE w # n + 1
    <3>1. PICK u \in 1..n : p[u] = w
      BY <1>1, <2>2
    <3>2. CASE u < m
      BY <1>7, <3>1, <3>2
    <3>3. CASE ~(u < m)
      <4>1. u + 1 \in 1..(n + 1) /\ m < u + 1 /\ (u + 1) - 1 = u
        BY <1>4, <3>3
      <4> QED BY <1>7, <3>1, <4>1
    <3> QED BY <3>2, <3>3
  <2> QED BY <2>1, <2>2
<1>11. \A u, w \in 1..(n + 1) : q[u] = q[w] => u = w
  <2> SUFFICES ASSUME NEW u \in 1..(n + 1), NEW w \in 1..(n + 1), q[u] = q[w]
               PROVE  u = w
      OBVIOUS
  <2>1. \A i \in 1..n : p[i] # n + 1
    BY <1>2
  <2>2. CASE u < m
    <3>1. u \in 1..n /\ q[u] = p[u] /\ q[u] # n + 1
      BY <1>7, <2>1, <2>2
    <3>2. CASE w < m
      <4>1. w \in 1..n /\ q[w] = p[w]
        BY <1>7, <3>2
      <4> QED BY <1>1, <3>1, <4>1
    <3>3. CASE w = m
      BY <1>7, <3>1, <3>3
    <3>4. CASE m < w
      <4>1. w - 1 \in 1..n /\ m <= w - 1 /\ q[w] = p[w - 1]
        BY <1>7, <3>4
      <4>2. u = w - 1
        BY <1>1, <3>1, <4>1
      <4> QED BY <1>4, <2>2, <4>1, <4>2
    <3> QED BY <1>8, <3>2, <3>3, <3>4
  <2>3. CASE u = m
    BY <1>1, <1>7, <1>8, <2>1, <2>3
  <2>4. CASE m < u
    <3>1. CASE m < w
      <4>1. u - 1 = w - 1
        BY <1>1, <1>7, <2>4, <3>1
      <4> QED BY <4>1
    <3>2. CASE ~(m < w)
      <4>1. u - 1 \in 1..n /\ m <= u - 1 /\ q[u] = p[u - 1] /\ q[u] # n + 1
        BY <1>7, <2>1, <2>4
      <4>2. w < m
        BY <1>7, <1>8, <3>2, <4>1
      <4>3. w \in 1..n /\ q[w] = p[w]
        BY <1>7, <4>2
      <4>4. u - 1 = w
        BY <1>1, <4>1, <4>3
      <4> QED BY <1>4, <4>1, <4>2, <4>4
    <3> QED BY <3>1, <3>2
  <2> QED BY <1>8, <2>2, <2>3, <2>4
<1>12. \A i, j \in 1..(n + 1) : i < j => key[q[i]] <= key[q[j]]
  <2> SUFFICES ASSUME NEW i \in 1..(n + 1), NEW j \in 1..(n + 1), i < j
               PROVE  key[q[i]] <= key[q[j]]
      OBVIOUS
  <2>1. CASE j < m
    <3>1. i < m
      BY <1>4, <2>1
    <3>2. i \in 1..n /\ j \in 1..n /\ q[i] = p[i] /\ q[j] = p[j]
      BY <1>7, <2>1, <3>1
    <3>3. key[p[i]] <= key[p[j]]
      BY <1>1, <3>2
    <3> QED BY <3>2, <3>3
  <2>2. CASE j = m
    BY <1>5, <1>7, <2>2
  <2>3. CASE m < j /\ i < m
    <3>1. i \in 1..n /\ j - 1 \in 1..n /\ i < j - 1
      BY <1>4, <1>7, <2>3
    <3>2. q[i] = p[i] /\ q[j] = p[j - 1]
      BY <1>7, <2>3
    <3>3. key[p[i]] <= key[p[j - 1]]
      BY <1>1, <3>1
    <3> QED BY <3>2, <3>3
  <2>4. CASE m < j /\ i = m
    BY <1>6, <1>7, <2>4
  <2>5. CASE m < i
    <3>1. m < j /\ i - 1 < j - 1
      BY <1>4, <2>5
    <3>2. i - 1 \in 1..n /\ j - 1 \in 1..n /\ q[i] = p[i - 1] /\ q[j] = p[j - 1]
      BY <1>7, <2>5, <3>1
    <3>3. key[p[i - 1]] <= key[p[j - 1]]
      BY <1>1, <3>1, <3>2
    <3> QED BY <3>2, <3>3
  <2> QED BY <1>8, <2>1, <2>2, <2>3, <2>4, <2>5
<1> WITNESS q
<1> QED BY <1>9, <1>10, <1>11, <1>12 DEF Orders, Bijection, Injection, Surjection, IsInjective

\* Any number of keys has an order.
LEMMA KeysCanBeOrdered ==
  ASSUME NEW n \in Nat, NEW key \in [1..n -> Int]
  PROVE  \E p : Orders(p, n, key)
<1> DEFINE T == {m \in 0..n : ~ \E p : Orders(p, m, key)}
<1> SUFFICES ASSUME T # {}
             PROVE  FALSE
  <2>1. n \in 0..n
    OBVIOUS
  <2> QED BY <2>1
<1>1. PICK m \in T : \A k \in T : m <= k
  <2>1. T \subseteq Nat
    OBVIOUS
  <2> HIDE DEF T
  <2> QED BY <2>1, LeastNumber
<1>2. m # 0
  <2>1. 1..0 = {}
    OBVIOUS
  <2>2. Orders(<<>>, 0, key)
    BY <2>1 DEF Orders, Bijection, Injection, Surjection, IsInjective
  <2> QED BY <2>2
<1>3. m - 1 \in 0..n /\ m - 1 \notin T /\ m \in 1..n
  BY <1>1, <1>2
<1>4. PICK p : Orders(p, m - 1, key)
  BY <1>3
<1> DEFINE first == [i \in 1..m |-> key[i]]
<1>5. first \in [1..((m - 1) + 1) -> Int] /\ m - 1 \in Nat /\ (m - 1) + 1 = m
  BY <1>3
<1>6. Orders(p, m - 1, first)
  <2>1. p \in [1..(m - 1) -> 1..(m - 1)]
    BY <1>4 DEF Orders, Bijection, Injection
  <2>2. \A i \in 1..(m - 1) : first[p[i]] = key[p[i]]
    BY <1>3, <2>1
  <2> QED BY <1>4, <2>2 DEF Orders
<1>7. PICK q : Orders(q, m, first)
  <2> HIDE DEF first
  <2>1. \E q : Orders(q, (m - 1) + 1, first)
    BY <1>5, <1>6, InsertKey
  <2> QED BY <1>5, <2>1
<1>8. Orders(q, m, key)
  <2>1. q \in [1..m -> 1..m]
    BY <1>7 DEF Orders, Bijection, Injection
  <2>2. \A i \in 1..m : first[q[i]] = key[q[i]]
    BY <2>1
  <2> QED BY <1>7, <2>2 DEF Orders
<1> QED BY <1>1, <1>8

\* However many rows were collected, and with whatever event ids, sorting
\* gives a report to write (vi_events.go:224, 295): the permutations of the rows
\* never lack one in ascending order, so WriteReport never lacks a table.
THEOREM ReportCanBeWritten == Spec => [](Sorted(rows) # {})
<1>1. TypeOK => Sorted(rows) # {}
  <2> SUFFICES ASSUME TypeOK
               PROVE  Sorted(rows) # {}
      OBVIOUS
  <2> DEFINE n == Len(rows)
             key == [i \in 1..n |-> rows[i][2]]
  <2>1. rows \in Seq(Item) /\ n \in Nat /\ DOMAIN rows = 1..n
    BY DEF TypeOK
  <2>2. key \in [1..n -> Int]
    BY <2>1, ItemIsPair
  <2>3. PICK p : Orders(p, n, key)
    <3> HIDE DEF key, n
    <3> QED BY <2>1, <2>2, KeysCanBeOrdered
  <2> DEFINE t == [i \in DOMAIN rows |-> rows[p[i]]]
  <2>4. p \in Bijection(DOMAIN rows, DOMAIN rows) /\ p \in [1..n -> 1..n]
    BY <2>1, <2>3 DEF Orders, Bijection, Injection
  <2>5. DOMAIN t = 1..n /\ \A i \in 1..n : t[i][2] = key[p[i]]
    BY <2>1, <2>4
  <2>6. \A i, j \in DOMAIN t : i < j => t[i][2] <= t[j][2]
    <3> HIDE DEF t, key, n
    <3> QED BY <2>3, <2>5 DEF Orders
  <2>7. t \in Sorted(rows)
    BY <2>4, <2>6 DEF Sorted
  <2> QED BY <2>7
<1> QED BY Typing, <1>1, PTL

=============================================================================
