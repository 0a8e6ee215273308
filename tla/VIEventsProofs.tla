---------------------------- MODULE VIEventsProofs ----------------------------
(***************************************************************************)
(* The two goroutines of VIEvents are synchronised, and the collectors are *)
(* destroyed, for any datacenters, events, page size and channel capacity. *)
(***************************************************************************)
EXTENDS VIEvents, TLAPS

\* What the program counters say of the channel and of each other.  The
\* caller sends only before it closes the channel, and the consumer leaves
\* its loop only on a channel that is closed and empty.
Sync ==
  /\ pages \in Seq(SUBSET Item)
  /\ closed \in BOOLEAN
  /\ closed => pcP \in {"await", "createFile", "write", "returned"}
  /\ pcP \in {"await", "createFile", "write"} => closed
  /\ pcP = "start" => pcC = "off"
  /\ pcC = "off" => pcP \in {"start", "returned"}
  /\ pcC \in {"off", "recv", "signal", "exit"} => page = {}
  /\ pcC \in {"signal", "exit"} => closed /\ pages = <<>>
  /\ pcC \in {"off", "recv", "process", "signal", "exit"}
  /\ pcP \in {"createFile", "write"} => pcC = "exit"
  /\ pcC = "exit" => pcP \in {"createFile", "write", "returned"}
  /\ held \subseteq Item
  /\ unread \subseteq Item
  /\ cur \in Ref
  /\ todo \subseteq Ref

\* The root folder is selected alone, so nothing has been read before its turn.
RootFirst ==
  /\ todo \subseteq selected
  /\ Root \in selected => selected = {Root}
  /\ Root \in todo =>
       pages = <<>> /\ ~closed /\ pcC \in {"off", "recv"} /\ pcP \in {"start", "build", "returned"}

\* Each object has its turn once, so the collector of this turn is never one
\* the server refused to destroy before.
OneCollectorEach ==
  /\ refused \cap todo = {}
  /\ pcP \in {"create", "read", "send", "destroy"} => cur \notin todo \cup refused
  /\ pcP \in {"read", "send", "destroy"} => cur \in open

Inv == Sync /\ CollectorsClosed /\ OneCollectorEach /\ RootFirst /\ OnlyIdleConsumerLeft

-----------------------------------------------------------------------------

LEMMA InitInv == Init => Inv
<1> SUFFICES ASSUME Init
             PROVE  Inv
    OBVIOUS
<1>1. todo \subseteq Ref
  BY DEF Init, Ref
<1>2. pages \in Seq(SUBSET Item)
  BY DEF Init
<1>3. closed \in BOOLEAN /\ ~closed
  BY Zenon DEF Init
<1>4. held \subseteq Item /\ unread \subseteq Item
  BY DEF Init
<1>5. cur \in Ref
  BY DEF Init, Ref
<1>6. Sync
  BY <1>1, <1>2, <1>3, <1>4, <1>5 DEF Init, Sync
<1>7. RootFirst
  BY <1>2, <1>3, RootAssumption DEF Init, RootFirst
<1> QED BY <1>6, <1>7 DEF Init, Inv, CollectorsClosed, OneCollectorEach, OnlyIdleConsumerLeft

LEMMA ProducerKeepsInv == Inv /\ Producer => Inv'
<1> SUFFICES ASSUME Inv, Producer
             PROVE  Inv'
    OBVIOUS
<1> USE DEF Inv, Sync, CollectorsClosed, OneCollectorEach, RootFirst, OnlyIdleConsumerLeft,
           Go, Return, consumerVars, chanVars, ghosts
<1>1. CASE PrerequisitesFail    BY <1>1 DEF PrerequisitesFail
<1>2. CASE StartProcessing      BY <1>2 DEF StartProcessing
<1>3. CASE BuildFilter          BY <1>3 DEF BuildFilter
<1>4. CASE BuildFilterFails     BY <1>4 DEF BuildFilterFails
<1>5. CASE CreateCollector      BY <1>5 DEF CreateCollector, Item
<1>6. CASE CreateCollectorFails BY <1>6 DEF CreateCollectorFails
<1>7. CASE ReadNextPage         BY <1>7 DEF ReadNextPage
<1>8. CASE ReadNothing          BY <1>8 DEF ReadNothing
<1>9. CASE ReadFails            BY <1>9 DEF ReadFails
<1>10. CASE SendPage            BY <1>10 DEF SendPage
<1>11. CASE DestroyCollector    BY <1>11 DEF DestroyCollector
<1>12. CASE CloseChannel        BY <1>12 DEF CloseChannel
<1>13. CASE AwaitProcessed      BY <1>13 DEF AwaitProcessed
<1>14. CASE CreateFile          BY <1>14 DEF CreateFile
<1>15. CASE CreateFileFails     BY <1>15 DEF CreateFileFails
<1>16. CASE WriteReport         BY <1>16 DEF WriteReport, Save
<1>17. CASE DestroyRefused      BY <1>17 DEF DestroyRefused
<1> QED BY <1>1, <1>2, <1>3, <1>4, <1>5, <1>6, <1>7, <1>8, <1>9, <1>10, <1>11, <1>12, <1>13,
           <1>14, <1>15, <1>16, <1>17 DEF Producer

LEMMA ConsumerKeepsInv == Inv /\ Consumer => Inv'
<1> SUFFICES ASSUME Inv, Consumer
             PROVE  Inv'
    OBVIOUS
<1> USE DEF Inv, Sync, CollectorsClosed, OneCollectorEach, RootFirst, OnlyIdleConsumerLeft,
           producerVars, chanVars, ghosts, AfterEvent
<1>1. CASE Receive
  <2>1. pages' \in Seq(SUBSET Item)
    BY <1>1 DEF Receive
  <2> QED BY <1>1, <2>1 DEF Receive
<1>2. CASE ProcessEvent  BY <1>2 DEF ProcessEvent
<1>3. CASE CategoryFails BY <1>3 DEF CategoryFails
<1>4. CASE ReceiveEnd    BY <1>4 DEF ReceiveEnd
<1> QED BY <1>1, <1>2, <1>3, <1>4 DEF Consumer

\* The synchronisation of the two goroutines holds in every reachable state.
THEOREM Invariance == Spec => []Inv
<1>1. Inv /\ UNCHANGED vars => Inv'
  BY DEF vars, producerVars, consumerVars, chanVars, ghosts, Inv, Sync, CollectorsClosed,
          OneCollectorEach, RootFirst, OnlyIdleConsumerLeft
<1>2. Inv /\ [Next]_vars => Inv'
  BY <1>1, ProducerKeepsInv, ConsumerKeepsInv DEF Next, Terminated
<1> QED BY InitInv, <1>2, PTL DEF Spec

\* The caller reads resFinalLst only when the consumer is over and every
\* page has been processed.
THEOREM Drained == Spec => []DrainedBeforeReport
<1>1. Inv => DrainedBeforeReport
  BY DEF Inv, Sync, DrainedBeforeReport
<1> QED BY Invariance, <1>1, PTL

\* However often the server refuses a Destroy (vi_events.go:152), the program
\* leaves no collector behind that it would have destroyed.
THEOREM CollectorsDestroyed == Spec => []CollectorsClosed
<1>1. Inv => CollectorsClosed
  BY DEF Inv
<1> QED BY Invariance, <1>1, PTL

\* Caller and consumer never wait for each other, for any capacity of the
\* channel.
THEOREM NoDeadlock == Spec => []NeverBothWait
<1>1. Inv => NeverBothWait
  <2> SUFFICES ASSUME Inv, pcP # "returned", ProducerWaits, ConsumerWaits
               PROVE  FALSE
      BY DEF NeverBothWait
  <2> USE DEF Inv, Sync, ConsumerWaits
  <2>1. CASE pcP = "send" /\ Len(pages) >= Cap
    <3>1. pages # <<>>
      BY <2>1, SizesAssumption
    <3> QED BY <2>1, <3>1
  <2>2. CASE pcP = "await" /\ pcC # "signal"
    BY <2>2
  <2> QED BY <2>1, <2>2 DEF ProducerWaits
<1> QED BY Invariance, <1>1, PTL

\* A consumer that outlives the call is the one of a root folder whose time
\* query failed, and has nothing to do.
THEOREM IdleLeft == Spec => []OnlyIdleConsumerLeft
<1>1. Inv => OnlyIdleConsumerLeft
  BY DEF Inv
<1> QED BY Invariance, <1>1, PTL

=============================================================================
