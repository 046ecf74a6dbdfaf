----------------------------- MODULE CuckooProofs -----------------------------
(***************************************************************************)
(* The cuckoo insertion keeps the batch, and the indices made from it ask  *)
(* for it, for every hash table, batch and number of buckets.              *)
(***************************************************************************)
EXTENDS Cuckoo, FiniteSetTheorems, TLAPS

LEMMA NoneIsNoItem == None \notin Items
  BY SizesAssumption DEF None, Items

-----------------------------------------------------------------------------
(* The part of the state that the insertion reads and writes. *)

InsertType ==
  /\ choices \in HashTables
  /\ keys \in [1 .. K -> Items]
  /\ taken \in 0 .. K
  /\ hand \in Items \cup {None}
  /\ elements \in [Buckets -> Items \cup {None}]

LEMMA ChoicesAreBuckets ==
  ASSUME InsertType, NEW x \in Items, NEW n \in 1 .. D
  PROVE  choices[x][n] \in Buckets /\ choices[x][n] \in Range(choices[x])
  <1>1. choices[x] \in [1 .. D -> Buckets]
    BY HashAssumption DEF InsertType
  <1> QED BY <1>1 DEF Range

LEMMA InsertTypeInductive == Spec => []InsertType
  <1>1. Init => InsertType
    BY SizesAssumption DEF Init, InsertType
  <1>2. InsertType /\ [Next]_vars => InsertType'
    <2> SUFFICES ASSUME InsertType, [Next]_vars PROVE InsertType'
      OBVIOUS
    <2> USE DEF InsertType
    <2>1. CASE TakeKey
      BY <2>1, SizesAssumption DEF TakeKey, tableVars
    <2>2. CASE InsertFree
      BY <2>2, ChoicesAreBuckets DEF InsertFree, tableVars
    <2>3. CASE Relocate
      BY <2>3, ChoicesAreBuckets DEF Relocate, tableVars
    <2>4. CASE GiveUp \/ Schedule \/ LookUp \/ Choose \/ UNCHANGED vars
      BY <2>4 DEF GiveUp, Schedule, LookUp, Choose, vars, tableVars, insertVars
    <2> QED BY <2>1, <2>2, <2>3, <2>4 DEF Next
  <1> QED BY <1>1, <1>2, PTL DEF Spec

-----------------------------------------------------------------------------
\* A key stands only in a bucket that its hashes name, where the workers have put the
\* item (insert, cases 1 and 2).
THEOREM PlacedByHash == Spec => []InOwnBucket
  <1>1. Init => InOwnBucket
    BY DEF Init, InOwnBucket
  <1>2. InsertType /\ InOwnBucket /\ [Next]_vars => InOwnBucket'
    <2> SUFFICES ASSUME InsertType, InOwnBucket, [Next]_vars PROVE InOwnBucket'
      OBVIOUS
    <2>1. CASE InsertFree
      BY <2>1, ChoicesAreBuckets DEF InsertFree, InOwnBucket, InsertType, tableVars
    <2>2. CASE Relocate
      BY <2>2, ChoicesAreBuckets DEF Relocate, InOwnBucket, InsertType, tableVars
    <2>3. CASE TakeKey \/ GiveUp \/ Schedule \/ LookUp \/ Choose \/ UNCHANGED vars
      BY <2>3 DEF TakeKey, GiveUp, Schedule, LookUp, Choose, vars, tableVars, insertVars, InOwnBucket
    <2> QED BY <2>1, <2>2, <2>3 DEF Next
  <1> QED BY <1>1, <1>2, InsertTypeInductive, PTL DEF Spec

-----------------------------------------------------------------------------
(* Counting the copies of a key. *)

Holding(x) == {b \in Buckets: elements[b] = x}
Drawn(x) == {n \in 1 .. taken: keys[n] = x}
InHand(x) == IF hand = x THEN 1 ELSE 0

LEMMA FiniteCounts ==
  ASSUME InsertType, NEW x
  PROVE  /\ IsFiniteSet(Holding(x)) /\ Cardinality(Holding(x)) \in Nat
         /\ IsFiniteSet(Drawn(x)) /\ Cardinality(Drawn(x)) \in Nat
  <1>1. IsFiniteSet(Buckets)
    BY SizesAssumption, FS_Interval DEF Buckets
  <1>2. IsFiniteSet(1 .. taken)
    BY SizesAssumption, FS_Interval DEF InsertType
  <1>3. IsFiniteSet(Holding(x))
    BY <1>1, FS_Subset DEF Holding
  <1>4. IsFiniteSet(Drawn(x))
    BY <1>2, FS_Subset DEF Drawn
  <1> QED BY <1>3, <1>4, FS_CardinalityType

\* A bucket whose element is replaced: it holds the new key and no longer the old one.
LEMMA Replace ==
  ASSUME InsertType, NEW b \in Buckets, NEW y \in Items, elements[b] # y,
         elements' = [elements EXCEPT ![b] = y],
         NEW x
  PROVE  Cardinality(Holding(x)') =
           Cardinality(Holding(x)) + (IF x = y THEN 1 ELSE IF x = elements[b] THEN -1 ELSE 0)
  <1>1. CASE x = y
    <2>1. Holding(x)' = Holding(x) \cup {b} /\ b \notin Holding(x)
      BY <1>1 DEF Holding, InsertType
    <2> QED BY <1>1, <2>1, FiniteCounts, FS_AddElement
  <1>2. CASE x # y /\ x = elements[b]
    <2>1. Holding(x)' = Holding(x) \ {b} /\ b \in Holding(x)
      BY <1>2 DEF Holding, InsertType
    <2> QED BY <1>2, <2>1, FiniteCounts, FS_RemoveElement
  <1>3. CASE x # y /\ x # elements[b]
    <2>1. Holding(x)' = Holding(x)
      BY <1>3 DEF Holding, InsertType
    <2> QED BY <1>3, <2>1, FiniteCounts
  <1> QED BY <1>1, <1>2, <1>3

LEMMA Copies == CopiesKept <=>
    \A x \in Items: Cardinality(Holding(x)) + InHand(x) = Cardinality(Drawn(x))
  BY DEF CopiesKept, Holding, InHand, Drawn

\* However long the chain of relocations, a key is placed, or in hand, as often as it
\* was drawn (insert, get_schedule).
THEOREM BatchKept == Spec => []CopiesKept
  <1>1. Init => CopiesKept
    <2> SUFFICES ASSUME Init PROVE CopiesKept
      OBVIOUS
    <2> SUFFICES ASSUME NEW x \in Items
                 PROVE  Cardinality(Holding(x)) + InHand(x) = Cardinality(Drawn(x))
      BY Copies
    <2>1. Holding(x) = {} /\ Drawn(x) = {} /\ InHand(x) = 0
      BY NoneIsNoItem DEF Init, Holding, Drawn, InHand
    <2> QED BY <2>1, FS_EmptySet
  <1>2. InsertType /\ InsertType' /\ CopiesKept /\ [Next]_vars => CopiesKept'
    <2> SUFFICES ASSUME InsertType, InsertType', CopiesKept, [Next]_vars, NEW x \in Items
                 PROVE  Cardinality(Holding(x)') + InHand(x)' = Cardinality(Drawn(x)')
      BY DEF CopiesKept, Holding, InHand, Drawn
    <2>0. Cardinality(Holding(x)) + InHand(x) = Cardinality(Drawn(x))
      BY Copies
    <2>1. CASE TakeKey
      <3>1. Holding(x)' = Holding(x) /\ InHand(x) = 0
        BY <2>1, NoneIsNoItem DEF TakeKey, Holding, InHand
      <3>2. /\ 1 .. taken' = (1 .. taken) \cup {taken + 1} /\ taken + 1 \notin 1 .. taken
            /\ hand' = keys[taken + 1] /\ keys' = keys
        <4>1. taken \in Nat /\ taken' = taken + 1
          BY <2>1, SizesAssumption DEF TakeKey, InsertType
        <4> QED BY <2>1, <4>1 DEF TakeKey, tableVars
      <3>3. CASE hand' = x
        <4>1. Drawn(x)' = Drawn(x) \cup {taken + 1} /\ taken + 1 \notin Drawn(x)
          BY <3>2, <3>3 DEF Drawn
        <4>2. Cardinality(Drawn(x)') = Cardinality(Drawn(x)) + 1
          BY <4>1, FiniteCounts, FS_AddElement
        <4>3. InHand(x)' = 1
          BY <3>3 DEF InHand
        <4> QED BY <2>0, <3>1, <4>2, <4>3, FiniteCounts
      <3>4. CASE hand' # x
        <4>1. Drawn(x)' = Drawn(x)
          BY <3>2, <3>4 DEF Drawn
        <4> QED BY <2>0, <3>1, <3>4, <4>1 DEF InHand
      <3> QED BY <3>3, <3>4
    <2>2. CASE InsertFree
      <3>1. PICK n \in 1 .. D: Free(n) /\ elements' = [elements EXCEPT ![choices[hand][n]] = hand]
        BY <2>2 DEF InsertFree
      <3>2. hand \in Items /\ choices[hand][n] \in Buckets /\ elements[choices[hand][n]] = None
        <4>1. hand \in Items
          BY <2>2 DEF InsertFree, InsertType
        <4> QED BY <3>1, <4>1, ChoicesAreBuckets DEF Free
      <3>3. Cardinality(Holding(x)') = Cardinality(Holding(x)) + (IF x = hand THEN 1 ELSE 0)
        <4>1. elements[choices[hand][n]] # hand /\ elements[choices[hand][n]] # x
          BY <3>2, NoneIsNoItem
        <4> QED BY <3>1, <3>2, <4>1, Replace
      <3>4. Drawn(x)' = Drawn(x) /\ InHand(x)' = 0
        BY <2>2, NoneIsNoItem DEF InsertFree, Drawn, InHand, tableVars
      <3>5. InHand(x) = IF x = hand THEN 1 ELSE 0
        BY DEF InHand
      <3> QED BY <2>0, <3>3, <3>4, <3>5, FiniteCounts
    <2>3. CASE Relocate
      <3>1. PICK n \in 1 .. D: /\ elements' = [elements EXCEPT ![choices[hand][n]] = hand]
                               /\ hand' = elements[choices[hand][n]]
        BY <2>3 DEF Relocate
      <3>2. hand \in Items /\ choices[hand][n] \in Buckets
        BY <2>3, ChoicesAreBuckets DEF Relocate, InsertType
      <3>3. Drawn(x)' = Drawn(x)
        BY <2>3 DEF Relocate, Drawn, tableVars
      <3>4. CASE hand' = hand
        <4>1. Holding(x)' = Holding(x)
          BY <3>1, <3>2, <3>4 DEF Holding, InsertType
        <4> QED BY <2>0, <3>3, <3>4, <4>1 DEF InHand
      <3>5. CASE hand' # hand
        <4>1. Cardinality(Holding(x)') = Cardinality(Holding(x)) +
                (IF x = hand THEN 1 ELSE IF x = hand' THEN -1 ELSE 0)
          BY <3>1, <3>2, <3>5, Replace
        <4> QED BY <2>0, <3>3, <3>5, <4>1, FiniteCounts DEF InHand
      <3> QED BY <3>4, <3>5
    <2>4. CASE GiveUp \/ Schedule \/ LookUp \/ Choose \/ UNCHANGED vars
      <3>1. UNCHANGED <<keys, taken, hand, elements>>
        BY <2>4 DEF GiveUp, Schedule, LookUp, Choose, vars, tableVars, insertVars
      <3> QED BY <2>0, <3>1 DEF Holding, Drawn, InHand
    <2> QED BY <2>1, <2>2, <2>3, <2>4 DEF Next
  <1> QED BY <1>1, <1>2, InsertTypeInductive, PTL DEF Spec

-----------------------------------------------------------------------------
(* What the batch is when get_schedule returns. *)

Scheduled ==
  pc \in {"index", "done", "aborted"} =>
    /\ taken = K /\ hand = None
    /\ schedule \in [Placed -> Buckets]
    /\ \A x \in Placed: elements[schedule[x]] = x

LEMMA ScheduledInductive == Spec => []Scheduled
  <1>1. Init => Scheduled
    BY DEF Init, Scheduled
  <1>2. Scheduled /\ [Next]_vars => Scheduled'
    <2> SUFFICES ASSUME Scheduled, [Next]_vars PROVE Scheduled'
      OBVIOUS
    <2>1. CASE TakeKey \/ InsertFree \/ Relocate \/ GiveUp
      BY <2>1 DEF TakeKey, InsertFree, Relocate, GiveUp, Scheduled
    <2>2. CASE Schedule
      BY <2>2 DEF Schedule, Scheduled, Placed, insertVars
    <2>3. CASE LookUp \/ Choose \/ UNCHANGED vars
      <3>1. UNCHANGED <<taken, hand, elements, schedule>> /\ (pc = "index" \/ pc' = pc)
        BY <2>3 DEF LookUp, Choose, vars, insertVars, indexVars
      <3> QED BY <3>1 DEF Scheduled, Placed
    <2> QED BY <2>1, <2>2, <2>3 DEF Next
  <1> QED BY <1>1, <1>2, PTL DEF Spec

\* With every key taken and none in hand, the keys in the buckets are those of the batch.
LEMMA PlacedIsBatch ==
  ASSUME InsertType, CopiesKept, taken = K, hand = None
  PROVE  Placed = Range(keys)
  <1>1. ASSUME NEW x \in Items
        PROVE  x \in Placed <=> x \in Range(keys)
    <2>1. InHand(x) = 0
      BY NoneIsNoItem DEF InHand
    <2>2. Cardinality(Holding(x)) = Cardinality(Drawn(x))
      BY <2>1, Copies, FiniteCounts
    <2>3. Holding(x) = {} <=> Drawn(x) = {}
      <3>1. Cardinality(Holding(x)) = 0 <=> Holding(x) = {}
        BY FiniteCounts, FS_EmptySet
      <3>2. Cardinality(Drawn(x)) = 0 <=> Drawn(x) = {}
        BY FiniteCounts, FS_EmptySet
      <3> QED BY <2>2, <3>1, <3>2
    <2>4. x \in Placed <=> Holding(x) # {}
      BY NoneIsNoItem DEF Placed, Holding
    <2>5. x \in Range(keys) <=> Drawn(x) # {}
      BY DEF Range, Drawn, InsertType
    <2> QED BY <2>3, <2>4, <2>5
  <1>2. Placed \subseteq Items
    BY DEF Placed, InsertType
  <1>3. Range(keys) \subseteq Items
    BY DEF Range, InsertType
  <1> QED BY <1>1, <1>2, <1>3

\* A schedule that get_schedule returns gives every key of the batch a bucket that holds
\* it, and no two keys the same one.
THEOREM ScheduleComplete == Spec => []ScheduleWhole
  <1>1. InsertType /\ CopiesKept /\ InOwnBucket /\ Scheduled => ScheduleWhole
    <2> SUFFICES ASSUME InsertType, CopiesKept, InOwnBucket, Scheduled, pc \in {"index", "done"}
                 PROVE  /\ DOMAIN schedule = Range(keys)
                        /\ \A x \in DOMAIN schedule: schedule[x] \in Range(choices[x])
                        /\ \A x, y \in DOMAIN schedule: schedule[x] = schedule[y] => x = y
      BY DEF ScheduleWhole
    <2>1. DOMAIN schedule = Placed /\ Placed = Range(keys)
      BY PlacedIsBatch DEF Scheduled
    <2>2. \A x \in Placed: schedule[x] \in Buckets /\ elements[schedule[x]] = x
      BY DEF Scheduled
    <2>3. \A x \in Placed: x # None
      BY DEF Placed
    <2>4. \A x \in Placed: schedule[x] \in Range(choices[x])
      BY <2>2, <2>3 DEF InOwnBucket
    <2> QED BY <2>1, <2>2, <2>4
  <1> QED BY <1>1, InsertTypeInductive, BatchKept, PlacedByHash, ScheduledInductive, PTL

\* Every key stays in one of its own buckets and is neither lost nor doubled, however
\* long the chain of relocations (insert).
THEOREM KeysStayInPlace == Spec => []KeysInPlace
  BY PlacedByHash, BatchKept, PTL DEF KeysInPlace

-----------------------------------------------------------------------------
(* Where the keys stand in their buckets. *)

\* The position of an item is below it and below the size of its bucket.
LEMMA PositionRange ==
  ASSUME NEW x \in Items, NEW b
  PROVE  /\ Position(x, b) \in Items /\ Size(b) \in Nat
         /\ x \in InBucket(b) => Position(x, b) \in 0 .. Size(b) - 1
  <1> DEFINE Before == {y \in InBucket(b): y < x}
  <1>0. NumItems \in Nat /\ x \in 0 .. NumItems - 1 /\ x \in Nat
    BY SizesAssumption DEF Items
  <1>1. IsFiniteSet(InBucket(b)) /\ Size(b) \in Nat
    <2>1. IsFiniteSet(Items)
      BY <1>0, FS_Interval DEF Items
    <2>2. IsFiniteSet(InBucket(b))
      BY <2>1, FS_Subset DEF InBucket
    <2> QED BY <2>2, FS_CardinalityType DEF Size
  <1>2. Cardinality(Before) \in Nat /\ Cardinality(Before) <= x
    <2>1. Before \subseteq 0 .. x - 1
      BY <1>0 DEF InBucket, Items
    <2>2. IsFiniteSet(0 .. x - 1) /\ Cardinality(0 .. x - 1) = x
      BY <1>0, FS_Interval
    <2>3. IsFiniteSet(Before) /\ Cardinality(Before) <= Cardinality(0 .. x - 1)
      BY <2>1, <2>2, FS_Subset
    <2> HIDE DEF Before
    <2> QED BY <2>2, <2>3, FS_CardinalityType
  <1>3. ASSUME x \in InBucket(b) PROVE Cardinality(Before) <= Size(b) - 1
    <2>1. IsFiniteSet(InBucket(b) \ {x}) /\ Cardinality(InBucket(b) \ {x}) = Size(b) - 1
      BY <1>1, <1>3, FS_RemoveElement DEF Size
    <2>2. Before \subseteq InBucket(b) \ {x}
      BY <1>0
    <2> HIDE DEF Before
    <2> QED BY <2>1, <2>2, FS_Subset
  <1>4. Position(x, b) = Cardinality(Before)
    BY DEF Position
  <1> HIDE DEF Before
  <1> QED BY <1>0, <1>1, <1>2, <1>3, <1>4 DEF Items

NoKeyIsBucket == Range(keys) \cap Buckets = {}

LookInv ==
  /\ DOMAIN indexes = Items \cup Buckets
  /\ pc \in {"insert", "null", "index", "done", "aborted"}
  /\ pc = "insert" => looked = {} /\ \A n \in Items \cup Buckets: indexes[n] = None
  /\ pc \in {"index", "done"} =>
       /\ looked \subseteq DOMAIN schedule
       /\ NoKeyIsBucket =>
            /\ \A x \in looked: indexes[schedule[x]] = Position(x, schedule[x])
            /\ \A b \in Buckets: indexes[b] = None \/ \E x \in looked: schedule[x] = b
  /\ pc = "done" =>
       /\ looked = DOMAIN schedule
       /\ \A b \in Buckets: IF indexes[b] = None THEN indVec[b] \in 0 .. Size(b) - 1
                            ELSE indVec[b] = indexes[b]

LEMMA LookInductive == Spec => []LookInv
  <1>1. Init => LookInv
    BY DEF Init, LookInv
  <1>2. InsertType /\ Scheduled /\ ScheduleWhole /\ LookInv /\ [Next]_vars => LookInv'
    <2> SUFFICES ASSUME InsertType, Scheduled, ScheduleWhole, LookInv, [Next]_vars PROVE LookInv'
      OBVIOUS
    <2>1. CASE TakeKey \/ InsertFree \/ Relocate \/ GiveUp
      <3>1. pc = "insert" /\ pc' \in {"insert", "null"} /\ UNCHANGED <<looked, indexes>>
        BY <2>1 DEF TakeKey, InsertFree, Relocate, GiveUp, indexVars
      <3> QED BY <3>1 DEF LookInv
    <2>2. CASE Schedule
      <3>1. pc = "insert" /\ pc' = "index" /\ UNCHANGED <<looked, indexes>>
        BY <2>2 DEF Schedule
      <3> QED BY <3>1 DEF LookInv
    <2>3. CASE LookUp
      <3>1. PICK x \in DOMAIN schedule \ looked:
              LET b == schedule[x]
                  noted == [indexes EXCEPT ![x] = b]
              IN /\ indexes' = IF noted[b] = None THEN [noted EXCEPT ![b] = Position(x, b)] ELSE noted
                 /\ looked' = looked \cup {x}
        BY <2>3 DEF LookUp
      <3> DEFINE b == schedule[x]
      <3>2. pc = "index" /\ UNCHANGED <<pc, keys, choices, schedule>>
        BY <2>3 DEF LookUp, tableVars
      <3>3. x \in Items /\ x \in Range(keys) /\ b \in Buckets
        BY <3>1, <3>2 DEF ScheduleWhole, Scheduled, InsertType, Range
      <3>4. DOMAIN indexes' = Items \cup Buckets /\ looked' \subseteq DOMAIN schedule
        BY <3>1, <3>2 DEF LookInv
      <3>5. ASSUME NoKeyIsBucket
            PROVE  /\ \A y \in looked': indexes'[schedule[y]] = Position(y, schedule[y])
                   /\ \A c \in Buckets: indexes'[c] = None \/ \E y \in looked': schedule[y] = c
        <4>1. x \notin Buckets
          BY <3>3, <3>5 DEF NoKeyIsBucket
        <4>2. indexes[b] = None
          <5>1. \A y \in looked: schedule[y] # b
            BY <3>1, <3>2 DEF ScheduleWhole, LookInv
          <5> QED BY <3>2, <3>3, <3>5, <5>1 DEF LookInv
        <4>3. \A c \in Buckets: indexes'[c] = IF c = b THEN Position(x, b) ELSE indexes[c]
          BY <3>1, <3>3, <4>1, <4>2 DEF LookInv
        <4>4. ASSUME NEW y \in looked PROVE schedule[y] \in Buckets /\ schedule[y] # b
          BY <3>1, <3>2 DEF ScheduleWhole, Scheduled, LookInv
        <4>5. \A y \in looked: indexes'[schedule[y]] = Position(y, schedule[y])
          BY <3>2, <3>5, <4>3, <4>4 DEF LookInv
        <4>6. \A c \in Buckets: indexes'[c] = None \/ \E y \in looked \cup {x}: schedule[y] = c
          BY <3>2, <3>5, <4>3 DEF LookInv
        <4> QED BY <3>1, <3>3, <4>3, <4>5, <4>6
      <3>6. NoKeyIsBucket' <=> NoKeyIsBucket
        BY <3>2 DEF NoKeyIsBucket
      <3>7. \A y, c: Position(y, c)' = Position(y, c)
        BY <3>2 DEF Position, InBucket
      <3> HIDE DEF b
      <3> QED BY <3>2, <3>4, <3>5, <3>6, <3>7 DEF LookInv
    <2>4. CASE Choose
      <3>1. /\ pc = "index" /\ looked = DOMAIN schedule
            /\ UNCHANGED <<keys, choices, schedule, looked, indexes>>
        BY <2>4 DEF Choose, tableVars
      <3>2. \A y, c: Position(y, c)' = Position(y, c) /\ Size(c)' = Size(c)
        BY <3>1 DEF Position, Size, InBucket
      <3>3. \/ pc' = "aborted"
            \/ /\ pc' = "done"
               /\ \A c \in Buckets: IF indexes[c] = None THEN indVec'[c] \in 0 .. Size(c) - 1
                                    ELSE indVec'[c] = indexes[c]
        <4>1. CASE \E c \in Buckets: indexes[c] = None /\ Size(c) = 0
          BY <2>4, <4>1 DEF Choose
        <4>2. CASE ~ \E c \in Buckets: indexes[c] = None /\ Size(c) = 0
          <5>1. PICK drawn \in Items:
                  indVec' = [c \in Buckets |-> IF indexes[c] = None THEN drawn % Size(c)
                                               ELSE indexes[c]]
            BY <2>4, <4>2 DEF Choose
          <5>2. ASSUME NEW c \in Buckets, indexes[c] = None
                PROVE  drawn % Size(c) \in 0 .. Size(c) - 1
            <6>1. Size(c) \in Nat \ {0} /\ drawn \in Int
              BY <4>2, <5>2, PositionRange DEF Items
            <6> QED BY <6>1
          <5>3. pc' = "done"
            BY <2>4, <4>2 DEF Choose
          <5> QED BY <5>1, <5>2, <5>3
        <4> QED BY <4>1, <4>2
      <3>4. NoKeyIsBucket' <=> NoKeyIsBucket
        BY <3>1 DEF NoKeyIsBucket
      <3> QED BY <3>1, <3>2, <3>3, <3>4 DEF LookInv
    <2>5. CASE UNCHANGED vars
      BY <2>5 DEF vars, tableVars, insertVars, indexVars, LookInv, NoKeyIsBucket, Position, Size, InBucket
    <2> QED BY <2>1, <2>2, <2>3, <2>4, <2>5 DEF Next
  <1> QED BY <1>1, <1>2, InsertTypeInductive, ScheduledInductive, ScheduleComplete, PTL DEF Spec

\* Unless a key is also the number of a bucket, each scheduled bucket is asked for its
\* key and every other one for an item it has (getIndices).
THEOREM IndicesAlwaysRight == Spec => []IndicesRight
  <1>1. InsertType /\ Scheduled /\ ScheduleWhole /\ LookInv => IndicesRight
    <2> SUFFICES ASSUME InsertType, Scheduled, ScheduleWhole, LookInv, pc = "done", NoKeyIsBucket
                 PROVE  /\ \A x \in DOMAIN schedule: AskedFor(x)
                        /\ \A b \in Buckets: indVec[b] \in 0 .. Size(b) - 1
      BY DEF IndicesRight, NoKeyIsBucket
    <2>1. ASSUME NEW x \in DOMAIN schedule
          PROVE  /\ x \in Items /\ schedule[x] \in Buckets /\ x \in InBucket(schedule[x])
                 /\ indexes[schedule[x]] = Position(x, schedule[x])
      <3>1. x \in Items /\ schedule[x] \in Buckets /\ schedule[x] \in Range(choices[x])
        BY DEF ScheduleWhole, Scheduled, InsertType, Range
      <3> QED BY <3>1 DEF InBucket, LookInv
    <2>2. \A x \in DOMAIN schedule:
            Position(x, schedule[x]) \in 0 .. Size(schedule[x]) - 1 /\ Position(x, schedule[x]) # None
      <3> TAKE x \in DOMAIN schedule
      <3>1. Position(x, schedule[x]) \in 0 .. Size(schedule[x]) - 1 /\ Size(schedule[x]) \in Nat
        BY <2>1, PositionRange
      <3> QED BY <3>1 DEF None
    <2>3. \A x \in DOMAIN schedule: AskedFor(x)
      BY <2>1, <2>2 DEF AskedFor, LookInv
    <2>4. ASSUME NEW b \in Buckets PROVE indVec[b] \in 0 .. Size(b) - 1
      <3>1. CASE indexes[b] = None
        BY <3>1 DEF LookInv
      <3>2. CASE indexes[b] # None
        <4>1. PICK x \in DOMAIN schedule: schedule[x] = b
          BY <3>2 DEF LookInv
        <4> QED BY <2>2, <2>3, <4>1 DEF AskedFor
      <3> QED BY <3>1, <3>2
    <2> QED BY <2>3, <2>4
  <1> QED BY <1>1, InsertTypeInductive, ScheduledInductive, ScheduleComplete, LookInductive, PTL

-----------------------------------------------------------------------------
(* The values of the variables. *)

Counted ==
  /\ attempt \in 0 .. MaxAttempts
  /\ looked \subseteq Items
  /\ indexes \in [Items \cup Buckets -> Items \cup Buckets \cup {None}]

LEMMA CountedInductive == Spec => []Counted
  <1>1. Init => Counted
    BY SizesAssumption DEF Init, Counted
  <1>2. InsertType /\ Scheduled /\ Counted /\ [Next]_vars => Counted'
    <2> SUFFICES ASSUME InsertType, Scheduled, Counted, [Next]_vars PROVE Counted'
      OBVIOUS
    <2>1. CASE TakeKey \/ InsertFree \/ Relocate \/ GiveUp
      <3>1. attempt' \in 0 .. MaxAttempts
        BY <2>1, SizesAssumption DEF TakeKey, InsertFree, Relocate, GiveUp, insertVars, Counted
      <3>2. UNCHANGED indexVars
        BY <2>1 DEF TakeKey, InsertFree, Relocate, GiveUp
      <3> QED BY <3>1, <3>2 DEF Counted, indexVars
    <2>2. CASE LookUp
      <3>1. PICK x \in DOMAIN schedule \ looked:
              LET b == schedule[x]
                  noted == [indexes EXCEPT ![x] = b]
              IN /\ indexes' = IF noted[b] = None THEN [noted EXCEPT ![b] = Position(x, b)] ELSE noted
                 /\ looked' = looked \cup {x}
        BY <2>2 DEF LookUp
      <3>2. x \in Items /\ schedule[x] \in Buckets
        BY <2>2, <3>1 DEF LookUp, Scheduled, InsertType, Placed
      <3>3. Position(x, schedule[x]) \in Items
        BY <3>2, PositionRange
      <3>4. attempt' = attempt
        BY <2>2 DEF LookUp, insertVars
      <3> QED BY <3>1, <3>2, <3>3, <3>4 DEF Counted
    <2>3. CASE Schedule \/ Choose \/ UNCHANGED vars
      BY <2>3 DEF Schedule, Choose, vars, insertVars, indexVars, Counted
    <2> QED BY <2>1, <2>2, <2>3 DEF Next
  <1> QED BY <1>1, <1>2, InsertTypeInductive, ScheduledInductive, PTL DEF Spec

\* The counters keep their bounds, and whatever getIndices writes into its one map, for
\* keys and for buckets, is the number of a bucket or of an item (insert, getIndices).
THEOREM TypeCorrect == Spec => []TypeOK
  <1>1. InsertType /\ LookInv /\ Counted => TypeOK
    BY DEF InsertType, LookInv, Counted, TypeOK
  <1> QED BY <1>1, InsertTypeInductive, LookInductive, CountedInductive, PTL
=============================================================================
