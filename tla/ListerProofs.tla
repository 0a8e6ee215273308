---------------------------- MODULE ListerProofs -----------------------------
(***************************************************************************)
(* What every listing of Lister keeps, whichever command it is for.        *)
(***************************************************************************)
EXTENDS Lister, FiniteSetTheorems, TLAPS

LEMMA EmptySequence == Range(<<>>) = {} /\ IsInjective(<<>>) /\ \A D : <<>> \in Seq(D)
  BY DEF Range, IsInjective

LEMMA AppendKeepsOnce ==
  ASSUME NEW D, NEW s \in Seq(D), IsInjective(s), NEW x \in D, x \notin Range(s)
  PROVE  /\ Append(s, x) \in Seq(D)
         /\ IsInjective(Append(s, x))
         /\ Range(Append(s, x)) = Range(s) \cup {x}
<1> DEFINE t == Append(s, x)
<1>1. t \in Seq(D) /\ Len(t) = Len(s) + 1 /\ DOMAIN t = 1..Len(s) + 1 /\ DOMAIN s = 1..Len(s)
  OBVIOUS
<1>2. \A i \in DOMAIN s : t[i] = s[i]
  OBVIOUS
<1>3. t[Len(s) + 1] = x
  OBVIOUS
<1>4. Len(s) \in Nat
  OBVIOUS
<1>5. Range(t) = Range(s) \cup {x}
  BY <1>1, <1>2, <1>3, <1>4 DEF Range
<1>6. IsInjective(t)
  <2> SUFFICES ASSUME NEW i \in DOMAIN t, NEW j \in DOMAIN t, t[i] = t[j]
               PROVE  i = j
      BY DEF IsInjective
  <2>1. CASE i \in DOMAIN s /\ j \in DOMAIN s
    BY <1>2, <2>1 DEF IsInjective
  <2>2. CASE i \notin DOMAIN s /\ j \notin DOMAIN s
    BY <1>1, <1>4, <2>2
  <2>3. CASE i \in DOMAIN s /\ j \notin DOMAIN s
    BY <1>1, <1>2, <1>3, <1>4, <2>3 DEF Range
  <2>4. CASE i \notin DOMAIN s /\ j \in DOMAIN s
    BY <1>1, <1>2, <1>3, <1>4, <2>4 DEF Range
  <2> QED BY <2>1, <2>2, <2>3, <2>4
<1> QED BY <1>1, <1>5, <1>6

-----------------------------------------------------------------------------

\* What a listing has so far: no object twice, and only objects it found.
Listed ==
  /\ elems \in Seq(Object)
  /\ IsInjective(elems)
  /\ Range(elems) \subseteq seen
  /\ Range(elems) \cap found = {}
  /\ found \subseteq seen
  /\ seen \subseteq Object

\* A listing begins with nothing.
Begins == pc \in {"list", "find"} => found = {} /\ elems = <<>> /\ seen = {}

LEMMA ListingKeepsListed == Listed /\ Begins /\ Listing => Listed' /\ Begins'
<1> SUFFICES ASSUME Listed, Begins, Listing
             PROVE  Listed' /\ Begins'
    OBVIOUS
<1> USE DEF Go, EndCommand, Begins
<1>1. CASE ListRefused \/ FindFails
  BY <1>1, EmptySequence DEF ListRefused, FindFails, Listed
<1>2. CASE CreateContainerView \/ SetCtxData
  BY <1>2 DEF CreateContainerView, SetCtxData, Listed
<1>3. CASE Find
  BY <1>3, EmptySequence DEF Find, Kind, Object, Listed
<1>4. ASSUME NEW o \in Object, Element(o)
      PROVE  Listed' /\ Begins'
  <2>1. o \notin Range(elems) /\ elems' = Append(elems, o) /\ found' = found \ {o} /\ o \in seen
    BY <1>4 DEF Element, Listed
  <2>2. Append(elems, o) \in Seq(Object) /\ IsInjective(Append(elems, o))
        /\ Range(Append(elems, o)) = Range(elems) \cup {o}
    BY <2>1, AppendKeepsOnce DEF Listed
  <2> QED BY <1>4, <2>1, <2>2 DEF Element, Listed
<1>5. ASSUME NEW o \in Object, ElementFails(o)
      PROVE  Listed' /\ Begins'
  BY <1>5 DEF ElementFails, Listed
<1> QED BY <1>1, <1>2, <1>3, <1>4, <1>5 DEF Listing

-----------------------------------------------------------------------------

LEMMA UnlistedFinite ==
  Listed => IsFiniteSet(Unlisted) /\ Cardinality(Unlisted) \in Nat /\ Len(elems) \in Nat
<1> SUFFICES ASSUME Listed
             PROVE  /\ IsFiniteSet(Unlisted) /\ Cardinality(Unlisted) \in Nat
                    /\ Len(elems) \in Nat
    OBVIOUS
<1>1. Unlisted \subseteq Object
  BY DEF Listed, Unlisted
<1>2. IsFiniteSet(Unlisted)
  BY <1>1, InventoryAssumption, FS_Subset
<1> QED BY <1>2, FS_CardinalityType DEF Listed

\* A listing only goes forward: what it finds is at most all there is, an object
\* moves to the list or is left out, and a listing given up holds nothing.
LEMMA ListingGoesOn ==
  ASSUME Listed, Listing
  PROVE  LET todo == Cardinality(Unlisted)
             done == Len(elems)
         IN  \/ Go("list", "find") /\ todo' = todo /\ done' = done
             \/ Go("find", "elements") /\ todo' <= todo /\ done' = done
             \/ UNCHANGED pc /\ pc = "elements" /\ todo = todo' + 1 /\ done' \in {done, done + 1}
             \/ Go("elements", "listed") /\ todo' = todo /\ done' = done
             \/ pc \in {"list", "find"} /\ pc' = "prompt" /\ todo' = 0 /\ done' = 0
<1> USE DEF Go, EndCommand
<1> DEFINE todo == Cardinality(Unlisted)
           done == Len(elems)
<1>1. CASE ListRefused \/ FindFails
  <2>1. Unlisted' = {} /\ elems' = <<>> /\ pc \in {"list", "find"} /\ pc' = "prompt"
    BY <1>1 DEF ListRefused, FindFails, Unlisted
  <2> QED BY <2>1, FS_EmptySet
<1>2. CASE CreateContainerView
  BY <1>2 DEF CreateContainerView, Unlisted
<1>3. CASE Find
  <2>1. Unlisted = Object /\ Unlisted' \subseteq Object /\ elems' = elems
    BY <1>3 DEF Find, Unlisted, Kind, Object
  <2>2. todo' <= todo
    BY <2>1, InventoryAssumption, FS_Subset
  <2> QED BY <1>3, <2>1, <2>2 DEF Find
<1>4. ASSUME NEW o \in Object, Element(o) \/ ElementFails(o)
      PROVE  UNCHANGED pc /\ pc = "elements" /\ todo = todo' + 1 /\ done' \in {done, done + 1}
  <2>1. UNCHANGED pc /\ pc = "elements" /\ o \in found /\ Unlisted = found
        /\ Unlisted' = found \ {o} /\ elems' \in {elems, Append(elems, o)}
    BY <1>4 DEF Element, ElementFails, Unlisted
  <2>2. todo' = todo - 1 /\ todo \in Nat
    BY <2>1, UnlistedFinite, FS_RemoveElement
  <2>3. done' \in {done, done + 1}
    BY <2>1 DEF Listed
  <2> QED BY <2>1, <2>2, <2>3
<1>5. CASE SetCtxData
  BY <1>5 DEF SetCtxData, Unlisted
<1> QED BY <1>1, <1>2, <1>3, <1>4, <1>5 DEF Listing

=============================================================================
