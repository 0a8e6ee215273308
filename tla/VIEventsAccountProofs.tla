------------------------ MODULE VIEventsAccountProofs ------------------------
(***************************************************************************)
(* VIEvents loses and repeats no event, for any datacenters, events, page  *)
(* size and channel capacity: at every moment each requested event is in   *)
(* exactly one place.                                                      *)
(***************************************************************************)
EXTENDS VIEventsProofs

\* Facts about the data: sequences that are sent, received, sorted, cut.

LEMMA EmptyRange == Range(<<>>) = {} /\ IsInjective(<<>>)
  BY DEF Range, IsInjective

LEMMA AppendRange ==
  ASSUME NEW D, NEW s \in Seq(D), NEW x \in D
  PROVE  /\ Append(s, x) \in Seq(D)
         /\ Range(Append(s, x)) = Range(s) \cup {x}
         /\ IsInjective(s) /\ x \notin Range(s) => IsInjective(Append(s, x))
<1> DEFINE t == Append(s, x)
<1>1. /\ t \in Seq(D) /\ DOMAIN t = 1..Len(s) + 1 /\ DOMAIN s = 1..Len(s) /\ Len(s) \in Nat
      /\ t[Len(s) + 1] = x /\ \A i \in DOMAIN s : t[i] = s[i]
  OBVIOUS
<1>2. Range(t) = Range(s) \cup {x}
  BY <1>1 DEF Range
<1>3. IsInjective(s) /\ x \notin Range(s) => IsInjective(t)
  BY <1>1 DEF Range, IsInjective
<1> QED BY <1>1, <1>2, <1>3

LEMMA HeadTailRange ==
  ASSUME NEW D, NEW s \in Seq(D), s # <<>>
  PROVE  /\ Tail(s) \in Seq(D) /\ Len(Tail(s)) = Len(s) - 1
         /\ Head(s) \in D /\ Head(s) = s[1] /\ 1 \in DOMAIN s
         /\ \A i \in DOMAIN Tail(s) : i + 1 \in DOMAIN s /\ Tail(s)[i] = s[i + 1]
         /\ Range(s) = Range(Tail(s)) \cup {Head(s)}
<1> DEFINE t == Tail(s)
<1>1. /\ Len(s) \in Nat /\ Len(s) >= 1 /\ DOMAIN s = 1..Len(s)
      /\ t \in Seq(D) /\ Len(t) = Len(s) - 1 /\ DOMAIN t = 1..Len(s) - 1
      /\ Head(s) = s[1] /\ Head(s) \in D
  OBVIOUS
<1>2. \A i \in DOMAIN t : t[i] = s[i + 1]
  OBVIOUS
<1> HIDE DEF t
<1>3. ASSUME NEW i \in DOMAIN s, i # 1
      PROVE  i - 1 \in DOMAIN t /\ t[i - 1] = s[i]
  <2>1. i \in Nat /\ i - 1 \in DOMAIN t /\ (i - 1) + 1 = i
    BY <1>1, <1>3
  <2> QED BY <1>2, <2>1
<1>4. 1 \in DOMAIN s /\ \A i \in DOMAIN t : i + 1 \in DOMAIN s
  BY <1>1
<1>5. Range(t) \cup {Head(s)} \subseteq Range(s)
  BY <1>1, <1>2, <1>4 DEF Range
<1>6. Range(s) \subseteq Range(t) \cup {Head(s)}
  <2> SUFFICES ASSUME NEW i \in DOMAIN s
               PROVE  s[i] \in Range(t) \cup {Head(s)}
      BY DEF Range
  <2>1. CASE i = 1
    BY <1>1, <2>1
  <2>2. CASE i # 1
    BY <1>3, <2>2 DEF Range
  <2> QED BY <2>1, <2>2
<1> QED BY <1>1, <1>2, <1>4, <1>5, <1>6 DEF t

LEMMA SortedRows ==
  ASSUME NEW s \in Seq(Item), NEW t \in Sorted(s)
  PROVE  /\ t \in Seq(Item) /\ Len(t) = Len(s) /\ Range(t) = Range(s)
         /\ IsInjective(s) => IsInjective(t)
<1> DEFINE B == Bijection(DOMAIN s, DOMAIN s)
<1> HIDE DEF B
<1>1. PICK p \in B : t = [i \in DOMAIN s |-> s[p[i]]]
  BY DEF Sorted, B
<1>2. /\ p \in [DOMAIN s -> DOMAIN s]
      /\ \A w \in DOMAIN s : \E v \in DOMAIN s : p[v] = w
      /\ \A v, w \in DOMAIN s : p[v] = p[w] => v = w
  BY <1>1 DEF B, Bijection, Injection, Surjection, IsInjective
<1>3. Range(t) = Range(s)
  BY <1>1, <1>2 DEF Range
<1>4. DOMAIN s = 1..Len(s) /\ Len(s) \in Nat /\ \A i \in DOMAIN s : s[i] \in Item
  OBVIOUS
<1>5. t \in [1..Len(s) -> Item]
  BY <1>1, <1>2, <1>4
<1>6. t \in Seq(Item) /\ Len(t) = Len(s)
  BY <1>4, <1>5
<1>7. IsInjective(s) => IsInjective(t)
  BY <1>1, <1>2 DEF IsInjective
<1> QED BY <1>3, <1>6, <1>7

LEMMA SavedRows ==
  ASSUME NEW s \in Seq(Item), NEW n \in 0..Len(s), NEW m \in n..Len(s)
  PROVE  /\ SubSeq(s, 1, n) \in Seq(Item)
         /\ Range(s) = Range(SubSeq(s, 1, n)) \cup RowsOf(s, n + 1, m) \cup RowsOf(s, m + 1, Len(s))
         /\ IsInjective(s) =>
              /\ Range(SubSeq(s, 1, n)) \cap RowsOf(s, n + 1, m) = {}
              /\ Range(SubSeq(s, 1, n)) \cap RowsOf(s, m + 1, Len(s)) = {}
              /\ RowsOf(s, n + 1, m) \cap RowsOf(s, m + 1, Len(s)) = {}
<1> DEFINE t == SubSeq(s, 1, n)
<1>1. /\ t \in Seq(Item) /\ DOMAIN t = 1..n /\ DOMAIN s = 1..Len(s) /\ Len(s) \in Nat
      /\ \A i \in 1..n : t[i] = s[i]
  OBVIOUS
<1>2. Range(t) = RowsOf(s, 1, n) /\ Range(s) = RowsOf(s, 1, Len(s))
  BY <1>1 DEF Range, RowsOf
<1>3. Range(s) = Range(t) \cup RowsOf(s, n + 1, m) \cup RowsOf(s, m + 1, Len(s))
  <2>1. 1..Len(s) = 1..n \cup (n + 1..m) \cup (m + 1..Len(s))
    BY <1>1
  <2> QED BY <1>2, <2>1 DEF RowsOf
<1>4. ASSUME IsInjective(s)
      PROVE  /\ RowsOf(s, 1, n) \cap RowsOf(s, n + 1, m) = {}
             /\ RowsOf(s, 1, n) \cap RowsOf(s, m + 1, Len(s)) = {}
             /\ RowsOf(s, n + 1, m) \cap RowsOf(s, m + 1, Len(s)) = {}
  BY <1>1, <1>4 DEF RowsOf, IsInjective
<1> QED BY <1>1, <1>2, <1>3, <1>4

-----------------------------------------------------------------------------

LEMMA InitTypeOK == Init => TypeOK
<1> SUFFICES ASSUME Init
             PROVE  TypeOK
    OBVIOUS
<1>1. /\ pages \in Seq(SUBSET Item) /\ cur \in Ref /\ todo \subseteq Ref
      /\ unread \subseteq Item /\ held \subseteq Item /\ closed \in BOOLEAN
  BY Zenon, InitInv DEF Inv, Sync
<1>2. Len(pages) <= Cap /\ rows \in Seq(Item) /\ file \in Seq(Item)
  BY SizesAssumption DEF Init
<1>3. failed \in BOOLEAN
  BY Zenon DEF Init
<1> QED BY <1>1, <1>2, <1>3 DEF Init, TypeOK

LEMMA ProducerKeepsTypeOK == TypeOK /\ Inv /\ Producer => TypeOK'
<1> SUFFICES ASSUME TypeOK, Inv, Producer
             PROVE  TypeOK'
    OBVIOUS
<1> USE DEF TypeOK, Go, Return, consumerVars, chanVars, ghosts
<1>0. \A r \in Ref : ItemsOf(r) \subseteq Item
  BY DEF Item
<1>1. CASE PrerequisitesFail    BY <1>1 DEF PrerequisitesFail
<1>2. CASE StartProcessing      BY <1>2 DEF StartProcessing
<1>3. CASE BuildFilter          BY <1>3 DEF BuildFilter
<1>4. CASE BuildFilterFails     BY <1>0, <1>4 DEF BuildFilterFails
<1>5. CASE CreateCollector      BY <1>0, <1>5 DEF CreateCollector
<1>6. CASE CreateCollectorFails BY <1>0, <1>6 DEF CreateCollectorFails
<1>7. CASE ReadNextPage         BY <1>7 DEF ReadNextPage
<1>8. CASE ReadNothing          BY <1>8 DEF ReadNothing
<1>9. CASE ReadFails            BY <1>9 DEF ReadFails
<1>10. CASE SendPage
  <2>1. pages' \in Seq(SUBSET Item) /\ Len(pages') = Len(pages) + 1 /\ Len(pages) \in Nat
    BY <1>10 DEF SendPage
  <2>2. Len(pages') <= Cap
    BY <1>10, <2>1, SizesAssumption DEF SendPage
  <2> QED BY <1>10, <2>1, <2>2 DEF SendPage
<1>11. CASE DestroyCollector    BY <1>11 DEF DestroyCollector
<1>12. CASE CloseChannel        BY <1>12 DEF CloseChannel
<1>13. CASE AwaitProcessed      BY <1>13 DEF AwaitProcessed
<1>14. CASE CreateFile          BY <1>14 DEF CreateFile
<1>15. CASE CreateFileFails     BY <1>15 DEF CreateFileFails
<1>17. CASE DestroyRefused      BY <1>17 DEF DestroyRefused
<1>16. CASE WriteReport
  <2>1. PICK table \in Sorted(rows) : Save(table)
    BY <1>16 DEF WriteReport
  <2>2. table \in Seq(Item) /\ Range(table) = Range(rows)
    BY SortedRows
  <2>0. PICK n \in 0..Len(table) : \E m \in n..Len(table) :
          /\ file' = SubSeq(table, 1, n)
          /\ unsaved' = RowsOf(table, n + 1, m)
          /\ lost' = lost \cup RowsOf(table, m + 1, Len(table))
    BY <2>1 DEF Save
  <2>3. PICK m \in n..Len(table) :
          /\ file' = SubSeq(table, 1, n)
          /\ unsaved' = RowsOf(table, n + 1, m)
          /\ lost' = lost \cup RowsOf(table, m + 1, Len(table))
    BY <2>0
  <2>4. file' \in Seq(Item) /\ lost' \subseteq Item /\ unsaved' \subseteq Item
    <3>1. Range(rows) \subseteq Item
      BY DEF Range
    <3> QED BY <2>2, <2>3, <3>1, SavedRows
  <2>5. pcP = "write"
    BY <1>16 DEF WriteReport
  <2> QED BY <2>1, <2>4, <2>5 DEF Save
<1> QED BY <1>1, <1>2, <1>3, <1>4, <1>5, <1>6, <1>7, <1>8, <1>9, <1>10, <1>11, <1>12, <1>13,
           <1>14, <1>15, <1>16, <1>17 DEF Producer

LEMMA ConsumerKeepsTypeOK == TypeOK /\ Consumer => TypeOK'
<1> SUFFICES ASSUME TypeOK, Consumer
             PROVE  TypeOK'
    OBVIOUS
<1> USE DEF TypeOK, producerVars, chanVars, ghosts, AfterEvent
<1>1. CASE Receive
  <2>1. pages' \in Seq(SUBSET Item) /\ Len(pages') = Len(pages) - 1 /\ page' \subseteq Item
    BY <1>1, HeadTailRange DEF Receive
  <2>2. Len(pages') <= Cap
    BY <2>1, SizesAssumption
  <2> QED BY <1>1, <2>1, <2>2 DEF Receive
<1>2. CASE ProcessEvent  BY <1>2 DEF ProcessEvent
<1>3. CASE CategoryFails BY <1>3 DEF CategoryFails
<1>4. CASE ReceiveEnd    BY <1>4 DEF ReceiveEnd
<1> QED BY <1>1, <1>2, <1>3, <1>4 DEF Consumer

\* The state of a call keeps its types, and the channel its capacity.
THEOREM Typing == Spec => []TypeOK
<1>1. TypeOK /\ UNCHANGED vars => TypeOK'
  BY DEF vars, producerVars, consumerVars, chanVars, ghosts, TypeOK
<1>2. TypeOK /\ Inv /\ [Next]_vars => TypeOK'
  BY <1>1, ProducerKeepsTypeOK, ConsumerKeepsTypeOK DEF Next, Terminated
<1> QED BY InitTypeOK, Invariance, <1>2, PTL DEF Spec

-----------------------------------------------------------------------------

\* Seven places hold T, and share nothing; only a row may also be gone, when
\* it could not be written.
Split(T, untouched, collector, sending, channel, receiving, inRows, isLost) ==
  /\ untouched \cup collector \cup sending \cup channel \cup receiving \cup inRows \cup isLost = T
  /\ untouched \cap (collector \cup sending \cup channel \cup receiving \cup inRows \cup isLost) = {}
  /\ collector \cap (sending \cup channel \cup receiving \cup inRows \cup isLost) = {}
  /\ sending \cap (channel \cup receiving \cup inRows \cup isLost) = {}
  /\ channel \cap (receiving \cup inRows \cup isLost) = {}
  /\ receiving \cap (inRows \cup isLost) = {}

PagesApart == \A i, j \in DOMAIN pages : i # j => pages[i] \cap pages[j] = {}

LostApart == pcP # "returned" => Gone \cap Range(rows) = {}

\* Where the events are, and what the program counters say of that.
Account ==
  /\ Split(Requested, Untouched, unread, held, InChannel, page, Range(rows), Gone)
  /\ PagesApart
  /\ IsInjective(rows)
  /\ LostApart
  /\ pcP \notin {"read", "send"} => unread = {}
  /\ pcP = "create" => cur \notin todo
  /\ pcP \in {"await", "createFile", "write"} => todo = {}
  /\ pcP = "returned" /\ ~failed => pcC = "exit" /\ SuccessAccountsForAll

Below(T) == UNION {ItemsOf(r) : r \in T}

LEMMA RemoveBelow ==
  ASSUME NEW T, NEW r \in T
  PROVE  /\ Below(T \ {r}) \cup ItemsOf(r) = Below(T)
         /\ Below(T \ {r}) \cap ItemsOf(r) = {}
<1>1. Below(T \ {r}) \cup ItemsOf(r) = Below(T)
  BY DEF Below
<1>2. \A q : q # r => ItemsOf(q) \cap ItemsOf(r) = {}
  BY DEF ItemsOf
<1>3. Below(T \ {r}) \cap ItemsOf(r) = {}
  BY <1>2 DEF Below
<1> QED BY <1>1, <1>3

LEMMA UntouchedBelow ==
  /\ pcP # "create" => Untouched = Below(todo)
  /\ pcP = "create" /\ cur \notin todo =>
       Untouched = Below(todo) \cup ItemsOf(cur) /\ Below(todo) \cap ItemsOf(cur) = {}
<1>1. pcP # "create" => Untouched = Below(todo)
  BY DEF Untouched, Below
<1>2. ASSUME pcP = "create", cur \notin todo
      PROVE  Untouched = Below(todo) \cup ItemsOf(cur) /\ Below(todo) \cap ItemsOf(cur) = {}
  <2>1. Untouched = Below(todo \cup {cur})
    BY <1>2 DEF Untouched, Below
  <2>2. (todo \cup {cur}) \ {cur} = todo
    BY <1>2
  <2> QED BY <2>1, <2>2, RemoveBelow
<1> QED BY <1>1, <1>2

\* A step that takes nothing from the untouched events.
LEMMA UntouchedStays ==
  pcP # "create" /\ pcP' # "create" /\ UNCHANGED todo => Untouched' = Untouched
  BY DEF Untouched

LEMMA InitAccount == Init => Account
<1> SUFFICES ASSUME Init
             PROVE  Account
    OBVIOUS
<1>1. Untouched = Requested
  BY DEF Init, Untouched, Requested
<1>2. InChannel = {} /\ Range(rows) = {} /\ IsInjective(rows)
  BY EmptyRange DEF Init, InChannel
<1>3. unread = {} /\ held = {} /\ page = {} /\ Gone = {} /\ pages = <<>> /\ pcP = "start"
  BY DEF Init, Gone
<1>4. Split(Requested, Untouched, unread, held, InChannel, page, Range(rows), Gone)
  BY <1>1, <1>2, <1>3 DEF Split
<1> QED BY <1>2, <1>3, <1>4 DEF Account, PagesApart, LostApart

\* The loop over the datacenters: events leave the untouched ones for a
\* collector, or are gone.
LEMMA LoopKeepsAccount ==
  TypeOK /\ Inv /\ Account /\ (BuildFilter \/ BuildFilterFails \/ CreateCollector \/ CreateCollectorFails)
    => Account'
<1> SUFFICES ASSUME TypeOK, Inv, Account,
                    BuildFilter \/ BuildFilterFails \/ CreateCollector \/ CreateCollectorFails
             PROVE  Account'
    OBVIOUS
<1> USE DEF Go, consumerVars, chanVars, ghosts
<1>1. UNCHANGED <<selected, held, pages, page, rows>> /\ pcP \in {"build", "create"}
  BY DEF BuildFilter, BuildFilterFails, CreateCollector, CreateCollectorFails
<1>2. UNCHANGED <<Requested, InChannel, Range(rows), IsInjective(rows), PagesApart>>
  BY <1>1 DEF Requested, InChannel, PagesApart
<1>3. Split(Requested, Untouched, unread, held, InChannel, page, Range(rows), Gone) /\ unread = {}
  BY <1>1 DEF Account
<1>4. CASE BuildFilter
  <2>1. PICK r \in todo : cur' = r /\ todo' = todo \ {r}
    BY <1>4 DEF BuildFilter
  <2>2. pcP = "build" /\ pcP' = "create" /\ UNCHANGED <<unread, Gone, failed, file>>
    BY <1>4 DEF BuildFilter, Gone
  <2>3. Untouched' = Untouched
    <3>1. Untouched = Below(todo)
      BY <2>2, UntouchedBelow
    <3>2. Untouched' = Below(todo') \cup ItemsOf(cur')
      BY <2>1, <2>2 DEF Untouched, Below
    <3> QED BY <2>1, <3>1, <3>2, RemoveBelow
  <2> QED BY <1>1, <1>2, <1>3, <2>1, <2>2, <2>3 DEF Account, LostApart
<1>5. CASE BuildFilterFails
  <2>1. PICK r \in todo : /\ todo' = todo \ {r} /\ Gone' = Gone \cup ItemsOf(r)
                          /\ IF r = Root THEN Return(TRUE) ELSE UNCHANGED <<pcP, failed>>
    BY <1>5 DEF BuildFilterFails, Gone
  <2>2. /\ pcP = "build" /\ UNCHANGED unread
        /\ pcP' = "build" \/ (pcP' = "returned" /\ failed' = TRUE)
    BY <1>5, <2>1 DEF BuildFilterFails, Return
  <2>3. Untouched' \cup ItemsOf(r) = Untouched /\ Untouched' \cap ItemsOf(r) = {}
    <3>1. Untouched = Below(todo)
      BY <2>2, UntouchedBelow
    <3>2. Untouched' = Below(todo \ {r})
      BY <2>1, <2>2 DEF Untouched, Below
    <3> QED BY <3>1, <3>2, RemoveBelow
  <2>4. Split(Requested, Untouched', unread, held, InChannel, page, Range(rows), Gone')
    BY <1>3, <2>1, <2>3 DEF Split
  <2>5. LostApart'
    BY <1>1, <1>2, <1>3, <2>1, <2>2, <2>3 DEF Split, Account, LostApart
  <2> QED BY <1>1, <1>2, <1>3, <2>2, <2>4, <2>5 DEF Account
<1>6. CASE CreateCollector \/ CreateCollectorFails
  <2>1. /\ pcP = "create" /\ pcP' \in {"read", "build"} /\ UNCHANGED <<todo, cur>>
        /\ \/ pcP' = "read" /\ unread' = ItemsOf(cur) /\ Gone' = Gone
           \/ unread' = unread /\ Gone' = Gone \cup ItemsOf(cur)
    BY <1>6 DEF CreateCollector, CreateCollectorFails, Gone
  <2>2. Untouched = Below(todo) \cup ItemsOf(cur) /\ Below(todo) \cap ItemsOf(cur) = {}
    BY <2>1, UntouchedBelow DEF Account
  <2>3. Untouched' = Below(todo)
    BY <2>1 DEF Untouched, Below
  <2>4. Split(Requested, Untouched', unread', held, InChannel, page, Range(rows), Gone')
    BY <1>3, <2>1, <2>2, <2>3 DEF Split
  <2>5. LostApart'
    BY <1>1, <1>2, <1>3, <2>1, <2>2 DEF Split, Account, LostApart
  <2> QED BY <1>1, <1>2, <1>3, <2>1, <2>4, <2>5 DEF Account
<1> QED BY <1>4, <1>5, <1>6

\* Reading and sending: events go from the collector to the channel.
LEMMA PagingKeepsAccount ==
  TypeOK /\ Inv /\ Account /\ (ReadNextPage \/ ReadNothing \/ ReadFails \/ SendPage) => Account'
<1> SUFFICES ASSUME TypeOK, Inv, Account, ReadNextPage \/ ReadNothing \/ ReadFails \/ SendPage
             PROVE  Account'
    OBVIOUS
<1> USE DEF Go, consumerVars
<1>1. /\ UNCHANGED <<selected, todo, cur, page, rows>>
      /\ pcP \in {"read", "send"} /\ pcP' \in {"read", "send", "destroy"}
  BY DEF ReadNextPage, ReadNothing, ReadFails, SendPage
<1>2. UNCHANGED <<Requested, Untouched, Range(rows), IsInjective(rows)>>
  BY <1>1, UntouchedStays DEF Requested
<1>3. Split(Requested, Untouched, unread, held, InChannel, page, Range(rows), Gone)
  BY DEF Account
<1>4. CASE ReadNextPage \/ ReadNothing \/ ReadFails
  <2>1. UNCHANGED pages /\ held = {} /\ (pcP' = "destroy" => unread' = {})
    BY <1>4 DEF ReadNextPage, ReadNothing, ReadFails, chanVars, TypeOK
  <2>2. \/ held' \subseteq unread /\ unread' = unread \ held' /\ Gone' = Gone
        \/ unread' = {} /\ held' = {} /\ Gone' = Gone \cup unread
    BY <1>4, <2>1 DEF ReadNextPage, ReadNothing, ReadFails, Gone, ghosts
  <2>3. Split(Requested, Untouched, unread', held', InChannel, page, Range(rows), Gone')
    BY <1>3, <2>1, <2>2 DEF Split
  <2>4. LostApart'
    BY <1>1, <1>2, <1>3, <2>1, <2>2 DEF Split, Account, LostApart
  <2> QED BY <1>1, <1>2, <2>1, <2>3, <2>4 DEF Account, InChannel, PagesApart
<1>5. CASE SendPage
  <2>1. /\ pages' = Append(pages, held) /\ held' = {} /\ UNCHANGED <<unread, Gone>>
        /\ pcP' = "read"
    BY <1>5 DEF SendPage, Gone, ghosts
  <2>2. pages \in Seq(SUBSET Item) /\ held \in SUBSET Item
    BY DEF TypeOK
  <2>3. InChannel' = InChannel \cup held
    <3>1. Range(pages') = Range(pages) \cup {held}
      BY <2>1, <2>2, AppendRange
    <3> QED BY <3>1 DEF InChannel
  <2>4. Split(Requested, Untouched, unread, held', InChannel', page, Range(rows), Gone)
    BY <1>3, <2>1, <2>3 DEF Split
  <2>5. PagesApart'
    <3>1. \A i \in DOMAIN pages : pages[i] \cap held = {}
      BY <1>3 DEF Split, InChannel, Range
    <3>2. /\ DOMAIN pages' = DOMAIN pages \cup {Len(pages) + 1}
          /\ \A i \in DOMAIN pages : pages'[i] = pages[i]
          /\ pages'[Len(pages) + 1] = held
      BY <2>1, <2>2
    <3> QED BY <3>1, <3>2 DEF Account, PagesApart
  <2> QED BY <1>1, <1>2, <2>1, <2>4, <2>5 DEF Account, LostApart
<1> QED BY <1>4, <1>5

\* The rest of the calling goroutine: it moves no event except into the file.
LEMMA EndKeepsAccount ==
  /\ TypeOK /\ Inv /\ Account
  /\ \/ PrerequisitesFail \/ StartProcessing \/ DestroyCollector \/ DestroyRefused
     \/ CloseChannel \/ AwaitProcessed \/ CreateFile \/ CreateFileFails
  => Account'
<1> SUFFICES ASSUME TypeOK, Inv, Account,
                    \/ PrerequisitesFail \/ StartProcessing \/ DestroyCollector \/ DestroyRefused
                    \/ CloseChannel \/ AwaitProcessed \/ CreateFile \/ CreateFileFails
             PROVE  Account'
    OBVIOUS
<1> USE DEF PrerequisitesFail, StartProcessing, DestroyCollector, DestroyRefused, CloseChannel,
            AwaitProcessed, CreateFile, CreateFileFails, Go, Return, consumerVars, chanVars, ghosts
<1>1. /\ UNCHANGED <<selected, todo, cur, unread, held, pages, page, rows, lost, skipped>>
      /\ pcP \notin {"create", "read", "send"} /\ pcP' \notin {"create", "read", "send"}
  OBVIOUS
<1>2. /\ pcP' \in {"await", "createFile", "write"} => todo = {}
      /\ pcP' = "returned" => failed' = TRUE
  BY DEF Account
<1>3. UNCHANGED <<Requested, Untouched, InChannel, Range(rows), IsInjective(rows), PagesApart, Gone>>
  BY <1>1, UntouchedStays DEF Requested, InChannel, PagesApart, Gone
<1>4. LostApart'
  <2>1. LostApart
    BY DEF Account
  <2> QED BY ONLY <2>1, <1>1, <1>3, pcP # "returned" DEF LostApart
<1> QED BY ONLY <1>1, <1>2, <1>3, <1>4, Account DEF Account

\* With nothing on the way any more, the rows and what is gone are all.
LEMMA WriteKeepsAccount == TypeOK /\ Inv /\ Account /\ WriteReport => Account'
<1> SUFFICES ASSUME TypeOK, Inv, Account, WriteReport
             PROVE  Account'
    OBVIOUS
<1>1. PICK table \in Sorted(rows) : Save(table)
  BY DEF WriteReport
<1>2. table \in Seq(Item) /\ Range(table) = Range(rows) /\ IsInjective(table)
  BY SortedRows DEF TypeOK, Account
<1>0. PICK n \in 0..Len(table) : \E m \in n..Len(table) :
        /\ file' = SubSeq(table, 1, n)
        /\ unsaved' = RowsOf(table, n + 1, m)
        /\ lost' = lost \cup RowsOf(table, m + 1, Len(table))
  BY <1>1 DEF Save
<1>3. PICK m \in n..Len(table) :
        /\ file' = SubSeq(table, 1, n)
        /\ unsaved' = RowsOf(table, n + 1, m)
        /\ lost' = lost \cup RowsOf(table, m + 1, Len(table))
  BY <1>0
<1> DEFINE refusedRows == RowsOf(table, m + 1, Len(table))
<1>4. /\ Range(rows) = Range(file') \cup unsaved' \cup refusedRows
      /\ Range(file') \cap unsaved' = {}
      /\ Range(file') \cap refusedRows = {} /\ unsaved' \cap refusedRows = {}
  BY <1>2, <1>3, SavedRows
<1>5. /\ pcP = "write" /\ pcP' = "returned" /\ failed' = FALSE
      /\ UNCHANGED <<selected, todo, cur, unread, held, pages, page, rows, pcC>>
  BY <1>1 DEF WriteReport, Save, Return, consumerVars, chanVars
<1>6. UNCHANGED <<Requested, Untouched, InChannel, Range(rows), IsInjective(rows), PagesApart>>
  BY <1>5, UntouchedStays DEF Requested, InChannel, PagesApart
<1>7. Split(Requested, Untouched, unread, held, InChannel, page, Range(rows), Gone)
  BY DEF Account
<1>8. Gone' = Gone \cup refusedRows
  BY <1>1, <1>3 DEF Save, Gone
<1>9. Split(Requested, Untouched, unread, held, InChannel, page, Range(rows), Gone')
  BY <1>4, <1>7, <1>8 DEF Split
<1>10. pcC = "exit" /\ pages = <<>> /\ page = {} /\ todo = {} /\ unread = {} /\ held = {}
  BY <1>5 DEF Inv, Sync, TypeOK, Account
<1>11. Untouched = {} /\ InChannel = {}
  BY <1>5, <1>10, EmptyRange DEF Untouched, InChannel
<1>12. Range(rows) \cap Gone = {}
  BY <1>5 DEF Account, LostApart
<1>13. Range(file') = (Requested \ Gone') \ unsaved' /\ unsaved' \subseteq Requested \ Gone'
  BY <1>4, <1>7, <1>8, <1>10, <1>11, <1>12 DEF Split
<1>14. \A x \in Range(file'), y \in unsaved' : x[2] <= y[2]
  <2>1. DOMAIN table = 1..Len(table) /\ Len(table) \in Nat
    BY <1>2
  <2>2. DOMAIN file' = 1..n /\ \A i \in 1..n : file'[i] = table[i]
    BY <1>2, <1>3
  <2>3. \A i \in 1..n, j \in n + 1..m : i < j /\ i \in DOMAIN table /\ j \in DOMAIN table
    BY <2>1
  <2>4. \A i, j \in DOMAIN table : i < j => table[i][2] <= table[j][2]
    BY <1>1 DEF Sorted
  <2> QED BY <1>3, <2>2, <2>3, <2>4 DEF Range, RowsOf
<1>15. Requested' = Requested
  BY <1>6
<1>16. SuccessAccountsForAll'
  BY <1>13, <1>14, <1>15 DEF SuccessAccountsForAll
<1> QED BY <1>5, <1>6, <1>9, <1>10, <1>16 DEF Account, LostApart

\* The processing goroutine: events go from the channel to the rows.
LEMMA ConsumerKeepsAccount == TypeOK /\ Inv /\ Account /\ Consumer => Account'
<1> SUFFICES ASSUME TypeOK, Inv, Account, Consumer
             PROVE  Account'
    OBVIOUS
<1> USE DEF producerVars, AfterEvent
<1>1. UNCHANGED <<selected, pcP, todo, cur, unread, held, file, failed>> /\ pcC # "exit"
  BY DEF Consumer, Receive, ProcessEvent, CategoryFails, ReceiveEnd
<1>2. UNCHANGED <<Requested, Untouched>> /\ ~(pcP = "returned" /\ ~failed)
  BY <1>1 DEF Requested, Untouched, Account
<1>3. Split(Requested, Untouched, unread, held, InChannel, page, Range(rows), Gone)
  BY DEF Account
<1>4. CASE Receive
  <2>1. /\ pages # <<>> /\ pages' = Tail(pages) /\ page' = Head(pages) /\ page = {}
        /\ UNCHANGED <<rows, Gone>> /\ pages \in Seq(SUBSET Item)
    BY <1>4 DEF Receive, Inv, Sync, TypeOK, Gone, ghosts
  <2>2. /\ Range(pages) = Range(pages') \cup {page'}
        /\ page' = pages[1] /\ 1 \in DOMAIN pages
        /\ DOMAIN pages' \subseteq Nat \ {0}
        /\ \A i \in DOMAIN pages' : i + 1 \in DOMAIN pages /\ pages'[i] = pages[i + 1]
    BY <2>1, HeadTailRange
  <2>3. InChannel = InChannel' \cup page'
    BY <2>2 DEF InChannel
  <2>4. \A i \in DOMAIN pages' : pages'[i] \cap page' = {}
    BY <2>2 DEF Account, PagesApart
  <2>5. InChannel' \cap page' = {}
    BY <2>4 DEF InChannel, Range
  <2>6. Split(Requested, Untouched, unread, held, InChannel', page', Range(rows), Gone)
    BY <1>3, <2>1, <2>3, <2>5 DEF Split
  <2>7. PagesApart'
    BY <2>2 DEF Account, PagesApart
  <2> QED BY <1>1, <1>2, <2>1, <2>6, <2>7 DEF Account, LostApart
<1>5. CASE ProcessEvent
  <2>1. PICK x \in page : page' = page \ {x} /\ rows' = Append(rows, x)
    BY <1>5 DEF ProcessEvent
  <2>2. UNCHANGED <<pages, Gone>> /\ x \in Item /\ rows \in Seq(Item) /\ x \notin Range(rows)
    BY <1>3, <1>5 DEF ProcessEvent, chanVars, ghosts, Gone, TypeOK, Split
  <2>3. Range(rows') = Range(rows) \cup {x} /\ IsInjective(rows')
    BY <2>1, <2>2, AppendRange DEF Account
  <2>4. Split(Requested, Untouched, unread, held, InChannel, page', Range(rows'), Gone)
    BY <1>3, <2>1, <2>3 DEF Split
  <2>5. LostApart'
    BY <1>1, <1>3, <2>1, <2>2, <2>3 DEF Split, Account, LostApart
  <2> QED BY <1>1, <1>2, <2>2, <2>3, <2>4, <2>5 DEF Account, InChannel, PagesApart
<1>6. CASE CategoryFails
  <2>1. PICK x \in page : page' = page \ {x} /\ Gone' = Gone \cup {x}
    BY <1>6 DEF CategoryFails, Gone
  <2>2. UNCHANGED <<pages, rows>>
    BY <1>6 DEF CategoryFails, chanVars
  <2>3. Split(Requested, Untouched, unread, held, InChannel, page', Range(rows), Gone')
    BY <1>3, <2>1 DEF Split
  <2>4. LostApart'
    BY <1>1, <1>2, <1>3, <2>1, <2>2 DEF Split, Account, LostApart
  <2> QED BY <1>1, <1>2, <2>2, <2>3, <2>4 DEF Account, InChannel, PagesApart
<1>7. CASE ReceiveEnd
  BY <1>1, <1>2, <1>7 DEF ReceiveEnd, chanVars, ghosts, Gone, Account, InChannel, PagesApart, LostApart
<1> QED BY <1>4, <1>5, <1>6, <1>7 DEF Consumer

LEMMA AccountInvariant == Spec => []Account
<1>1. Account /\ UNCHANGED vars => Account'
  BY DEF vars, producerVars, consumerVars, chanVars, ghosts, Account, Split, Requested, Untouched,
         Gone, InChannel, PagesApart, LostApart, SuccessAccountsForAll
<1>2. TypeOK /\ Inv /\ Account /\ [Next]_vars => Account'
  BY <1>1, LoopKeepsAccount, PagingKeepsAccount, EndKeepsAccount, WriteKeepsAccount,
     ConsumerKeepsAccount DEF Next, Producer, Terminated
<1> QED BY InitAccount, Typing, Invariance, <1>2, PTL DEF Spec

\* Every requested event is in exactly one place at every moment.
THEOREM EventsOnce == Spec => []EachEventOnce
<1>1. Account => EachEventOnce
  <2> SUFFICES ASSUME Account
               PROVE  EachEventOnce
      OBVIOUS
  <2> DEFINE places == <<Untouched, unread, held, InChannel, page, Range(rows),
                         Gone \ Range(rows)>>
  <2>1. Split(Requested, Untouched, unread, held, InChannel, page, Range(rows), Gone)
    BY DEF Account
  <2>2. DOMAIN places = 1..7
    OBVIOUS
  <2>3. \A i, j \in 1..7 : i # j => places[i] \cap places[j] = {}
    BY <2>1 DEF Split
  <2>4. UNION Range(places) = Requested
    <3>1. Range(places) = {Untouched, unread, held, InChannel, page, Range(rows),
                           Gone \ Range(rows)}
      BY <2>2 DEF Range
    <3>2. UNION Range(places) =
            Untouched \cup unread \cup held \cup InChannel \cup page \cup Range(rows)
              \cup (Gone \ Range(rows))
      BY <3>1
    <3> QED BY <2>1, <3>2 DEF Split
  <2> QED BY <2>2, <2>3, <2>4 DEF Account, PagesApart, EachEventOnce
<1> QED BY AccountInvariant, <1>1, PTL

\* A call that reports success has in its file exactly the requested events
\* that were not passed over with a line in the log, up to the point where the
\* disk gave out unseen.
THEOREM SuccessAccounts == Spec => []SuccessAccountsForAll
<1>1. Account => SuccessAccountsForAll
  BY DEF Account, SuccessAccountsForAll
<1> QED BY AccountInvariant, <1>1, PTL

=============================================================================
