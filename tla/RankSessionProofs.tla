--------------------------- MODULE RankSessionProofs ---------------------------
(***************************************************************************)
(* Proofs about Aggregation, for every number of groups, of workers in a   *)
(* group and of rows, and for both programs of the client: slices fit,     *)
(* sums are whole when they are sent, and the client reports all rows.     *)
(*                                                                         *)
(* Then about RankSession, for every number of groups and workers and      *)
(* every size of a slice: when the real query goes out all workers are     *)
(* warmed up, and each multiplies its own slice of it and no other; and    *)
(* the session implements Aggregation, the exchange by itself.  All waits  *)
(* may return by themselves, any number of times: what is proved says what *)
(* a wait without a predicate that returns too early can spoil.            *)
(*                                                                         *)
(* SessionInv says where the three processes can be together; Exchanging,  *)
(* which only the implementation needs, what the exchange adds to that.    *)
(***************************************************************************)
EXTENDS RankSession, PartitionProofs, FiniteSetTheorems, TLAPS

\* Worker v has gone past the call that sends w its slice.
Sent(v, w) == pc[v] # "multiply" /\ (pc[v] = "send" => w < sendTo[v])

\* The workers whose products are in the sum of w: itself from AddOwn on, another one
\* when it has sent its slice and the slice is not on its way any more.
Counted(w) ==
  {v \in Group(w): IF v = w THEN pc[w] \notin {"multiply", "send", "add"}
                   ELSE Sent(v, w) /\ \A m \in partial: ~(m.from = v /\ m.to = w)}

Answering == {"respond", "responding", "done"}

HandlerSteps == {"none", "copy", "copying", "decrypt"}

SumsTyped == aggregation = [w \in Workers |-> [row \in AggRows(w) |-> aggregation[w][row]]]

Typed ==
  /\ shape \in Shapes /\ program \in Programs
  /\ pc \in [Workers -> {"multiply", "send", "add", "wait", "asleep"} \cup Answering]
  /\ sendTo \in [Workers -> Nat] /\ itr \in [Workers -> Nat]
  /\ aggregationCount \in [Workers -> Nat]
  /\ SumsTyped
  /\ cpc \in {"asleep", "woken", "done"}
  /\ finalResult = [row \in 0 .. ClientRows - 1 |-> finalResult[row]]
  /\ responseReceived \in Nat /\ clientEarly \in BOOLEAN
  /\ handler \in [Workers -> HandlerSteps]
  /\ rowAt \in [Workers -> Nat]
  /\ racing \subseteq Workers /\ raced \subseteq 0 .. ClientRows - 1

\* While worker w sends, itr is the start of the next receiver's rows.
Sending ==
  \A w \in Workers:
    /\ sendTo[w] <= GroupEnd(w) /\ itr[w] <= Rows
    /\ pc[w] = "send" => sendTo[w] \in Group(w) /\ itr[w] = AggStart(sendTo[w])

\* The calls in flight have been sent, to another worker of the group, with its rows.
InFlight ==
  \A m \in partial:
    /\ m = [from |-> m.from, to |-> m.to, first |-> AggStart(m.to), end |-> AggEnd(m.to)]
    /\ m.to \in Workers /\ m.from \in Group(m.to) \ {m.to} /\ Sent(m.from, m.to)

\* A sum holds the products of the workers counted in it; of all, when it is sent on.
Sums ==
  \A w \in Workers:
    /\ aggregationCount[w] = Cardinality(Counted(w))
    /\ aggregationCount[w] > 0 =>
         \A row \in AggRows(w): aggregation[w][row] = {<<v, row>> : v \in Counted(w)}
    /\ pc[w] \in Answering => Counted(w) = Group(w)

\* The rows the client has counted, each with the group that has sent it.
Answered == {p \in Groups \X (0 .. Rows - 1):
               \E w \in Workers: pc[w] = "done" /\ w \div PerGroup = p[1] /\ p[2] \in AggRows(w)}

Counting ==
  /\ responseReceived = Cardinality(Answered)
  /\ cpc # "asleep" /\ ~clientEarly => responseReceived = ClientRows

\* The step of the RPC thread that handles the response of w.
Handling ==
  \A w \in Workers:
    /\ rowAt[w] <= Rows
    /\ handler[w] # "none" =>
         /\ program = "split" /\ pc[w] = "responding"
         /\ rowAt[w] \in AggStart(w) .. AggEnd(w)
         /\ handler[w] \in {"copying", "decrypt"} => rowAt[w] < AggEnd(w)

\* Who has a row in temp_ct while another copies to it knows that it races.
Overlaps ==
  \A v, w \in Workers:
    v # w /\ handler[v] = "copying" /\ handler[w] \in {"copying", "decrypt"} => w \in racing

\* One past the last row of w that the client has stored.
Stored(w) == IF pc[w] = "done" THEN AggEnd(w)
             ELSE IF handler[w] # "none" THEN rowAt[w] ELSE AggStart(w)

\* c is the sum of the row over one group.
IsWhole(c, row) == \E g \in Groups: c = WholeRow(g, row)

\* What is in temp_ct for a handler that nobody overlaps, and in the rows that are stored.
Storing ==
  /\ \A w \in Workers: handler[w] = "decrypt" /\ w \notin racing =>
       tempCt = WholeRow(w \div PerGroup, rowAt[w])
  /\ \A w \in Workers: \A row \in AggStart(w) .. Stored(w) - 1:
       row \notin raced => IsWhole(finalResult[row], row)
  /\ program = "merge" => raced = {}
  /\ \A row \in Rows .. ClientRows - 1: finalResult[row] = {Warmup}

IInv == Typed /\ Sending /\ InFlight /\ Sums /\ Counting /\ Handling /\ Overlaps /\ Storing

-----------------------------------------------------------------------------
(* Groups and slices *)

LEMMA Sizes ==
  ASSUME shape \in Shapes
  PROVE  /\ NumGroup \in Nat \ {0} /\ PerGroup \in Nat \ {0} /\ Rows \in Nat
         /\ ClientRows = NumGroup * Rows /\ Rows <= ClientRows /\ ClientRows \in Nat \ {0}
         /\ NumGroup * PerGroup \in Nat
  <1>1. NumGroup \in Nat \ {0} /\ PerGroup \in Nat \ {0} /\ ClientRows \in Nat \ {0}
        /\ ClientRows % NumGroup = 0
    BY ShapesAssumption DEF NumGroup, PerGroup
  <1>2. Rows \in Nat /\ ClientRows = NumGroup * Rows + 0
    BY <1>1, DivMod DEF Rows
  <1>3. NumGroup * Rows \in Nat /\ NumGroup * PerGroup \in Nat
    BY <1>1, <1>2, Products
  <1>4. PICK k \in Nat: NumGroup = k + 1
    <2>1. NumGroup - 1 \in Nat /\ NumGroup = (NumGroup - 1) + 1
      BY <1>1
    <2> QED BY <2>1
  <1>5. NumGroup * Rows = k * Rows + 1 * Rows /\ k * Rows \in Nat /\ 1 * Rows = Rows
    BY <1>4, <1>2, Products
  <1> QED BY <1>1, <1>2, <1>3, <1>5

\* A worker is in its group, at place w % PerGroup, and groups do not overlap.
LEMMA GroupFacts ==
  ASSUME shape \in Shapes, NEW w \in Workers
  PROVE  /\ w \in Nat /\ w \in Group(w) /\ GroupStart(w) \in Nat
         /\ w % PerGroup \in 0 .. PerGroup - 1 /\ w = GroupStart(w) + (w % PerGroup)
         /\ GroupEnd(w) = GroupStart(w) + PerGroup
         /\ w \div PerGroup \in Groups
         /\ GroupStart(w) = (w \div PerGroup) * PerGroup
         /\ GroupEnd(w) <= NumGroup * PerGroup
         /\ Group(w) \subseteq Workers
  <1> DEFINE q == w \div PerGroup
             s == q * PerGroup
  <1>1. PerGroup \in Nat \ {0} /\ NumGroup \in Nat \ {0} /\ w \in Nat /\ w < NumGroup * PerGroup
        /\ NumGroup * PerGroup \in Nat
    BY Sizes DEF Workers
  <1>2. q \in Nat /\ w % PerGroup \in 0 .. PerGroup - 1 /\ w = PerGroup * q + (w % PerGroup)
    BY <1>1, DivMod
  <1>3. s \in Nat /\ PerGroup * q = s
    BY <1>1, <1>2, Products
  <1>4. q < NumGroup
    <2> SUFFICES ASSUME ~(q < NumGroup) PROVE FALSE
      OBVIOUS
    <2>1. PICK d \in Nat: q = NumGroup + d
      <3>1. q - NumGroup \in Nat /\ q = NumGroup + (q - NumGroup)
        BY <1>1, <1>2
      <3> QED BY <3>1
    <2>2. s = NumGroup * PerGroup + d * PerGroup /\ d * PerGroup \in Nat
      BY <2>1, <1>1, Products
    <2> HIDE DEF q, s
    <2> QED BY <1>1, <1>2, <1>3, <2>2
  <1>5. s + PerGroup <= NumGroup * PerGroup
    <2>1. PICK d \in Nat: NumGroup = (q + 1) + d
      <3>1. NumGroup - (q + 1) \in Nat /\ NumGroup = (q + 1) + (NumGroup - (q + 1))
        BY <1>1, <1>2, <1>4
      <3> QED BY <3>1
    <2>2. NumGroup * PerGroup = (q + 1) * PerGroup + d * PerGroup /\ d * PerGroup \in Nat
      BY <2>1, <1>1, <1>2, Products
    <2>3. (q + 1) * PerGroup = s + 1 * PerGroup /\ 1 * PerGroup = PerGroup
      BY <1>1, <1>2, Products
    <2> HIDE DEF q, s
    <2> QED BY <1>1, <1>3, <2>2, <2>3
  <1>6. GroupStart(w) = s /\ GroupEnd(w) = s + PerGroup /\ Group(w) = s .. (s + PerGroup) - 1
    BY DEF GroupStart, GroupEnd, Group
  <1>7. q \in Groups
    BY <1>1, <1>2, <1>4 DEF Groups
  <1> HIDE DEF q, s
  <1>8. w \in s .. (s + PerGroup) - 1 /\ s .. (s + PerGroup) - 1 \subseteq 0 .. NumGroup * PerGroup - 1
    BY <1>1, <1>2, <1>3, <1>5
  <1>9. GroupStart(w) = s /\ w = s + (w % PerGroup)
    BY <1>1, <1>2, <1>3, <1>6
  <1> QED BY <1>1, <1>2, <1>3, <1>5, <1>6, <1>7, <1>8, <1>9 DEF Workers, q, s

\* Another worker of the group has the same group.
LEMMA SameGroup ==
  ASSUME shape \in Shapes, NEW w \in Workers, NEW v \in Group(w)
  PROVE  /\ v \in Workers /\ v \div PerGroup = w \div PerGroup
         /\ GroupStart(v) = GroupStart(w) /\ GroupEnd(v) = GroupEnd(w) /\ Group(v) = Group(w)
  <1> DEFINE p == w \div PerGroup
             q == v \div PerGroup
             r == v % PerGroup
  <1>1. /\ v \in Workers /\ PerGroup \in Nat \ {0} /\ v \in Nat /\ p \in Nat /\ q \in Nat
        /\ r \in 0 .. PerGroup - 1
        /\ v = q * PerGroup + r /\ q * PerGroup \in Nat
        /\ p * PerGroup <= v /\ v < p * PerGroup + PerGroup /\ p * PerGroup \in Nat
    <2>1. v \in Workers /\ PerGroup \in Nat \ {0}
      BY GroupFacts, Sizes
    <2>2. /\ v \in Nat /\ r \in 0 .. PerGroup - 1 /\ v = GroupStart(v) + r
          /\ GroupStart(v) = q * PerGroup /\ GroupStart(v) \in Nat /\ q \in Groups
      BY <2>1, GroupFacts
    <2>3. GroupStart(w) \in Nat /\ GroupStart(w) = p * PerGroup /\ p \in Groups
      BY GroupFacts
    <2>4. v \in GroupStart(w) .. (GroupStart(w) + PerGroup) - 1
      BY DEF Group, GroupEnd
    <2>5. p \in Nat /\ q \in Nat
      BY <2>2, <2>3 DEF Groups
    <2> HIDE DEF p, q, r
    <2> QED BY <2>1, <2>2, <2>3, <2>4, <2>5
  <1>2. ASSUME NEW a \in Nat, NEW b \in Nat, a < b
        PROVE  a * PerGroup + PerGroup <= b * PerGroup /\ a * PerGroup \in Nat /\ b * PerGroup \in Nat
    <2>1. PICK d \in Nat: b = (a + 1) + d
      <3>1. b - (a + 1) \in Nat /\ b = (a + 1) + (b - (a + 1))
        BY <1>2
      <3> QED BY <3>1
    <2>2. b * PerGroup = (a + 1) * PerGroup + d * PerGroup /\ d * PerGroup \in Nat
      BY <1>1, <2>1, Products
    <2>3. (a + 1) * PerGroup = a * PerGroup + 1 * PerGroup /\ 1 * PerGroup = PerGroup
          /\ a * PerGroup \in Nat /\ b * PerGroup \in Nat
      BY <1>1, Products
    <2> QED BY <1>1, <2>2, <2>3
  <1>3. ~(p < q)
    <2> SUFFICES ASSUME p < q PROVE FALSE
      OBVIOUS
    <2>1. p * PerGroup + PerGroup <= q * PerGroup
      BY <1>1, <1>2
    <2> HIDE DEF p, q, r
    <2> QED BY <1>1, <2>1
  <1>4. ~(q < p)
    <2> SUFFICES ASSUME q < p PROVE FALSE
      OBVIOUS
    <2>1. q * PerGroup + PerGroup <= p * PerGroup
      BY <1>1, <1>2
    <2> HIDE DEF p, q, r
    <2> QED BY <1>1, <2>1
  <1>5. p = q
    <2> HIDE DEF p, q, r
    <2> QED BY <1>1, <1>3, <1>4
  <1> QED BY <1>1, <1>5 DEF GroupStart, GroupEnd, Group

\* The workers of the group with number g are the group of each of them.
LEMMA GroupOfNumber ==
  ASSUME shape \in Shapes, NEW w \in Workers
  PROVE  Group((w \div PerGroup) * PerGroup) = Group(w)
  <1> DEFINE s == (w \div PerGroup) * PerGroup
  <1>1. s = GroupStart(w)
    BY DEF GroupStart
  <1>2. GroupStart(w) \in Group(w)
    <2>1. GroupStart(w) \in Nat /\ PerGroup \in Nat \ {0} /\ GroupEnd(w) = GroupStart(w) + PerGroup
      BY GroupFacts, Sizes
    <2> QED BY <2>1 DEF Group
  <1> QED BY <1>1, <1>2, SameGroup

LEMMA GroupSize ==
  ASSUME shape \in Shapes, NEW w \in Workers
  PROVE  IsFiniteSet(Group(w)) /\ Cardinality(Group(w)) = PerGroup
  <1>1. GroupStart(w) \in Nat /\ PerGroup \in Nat \ {0}
    BY GroupFacts, Sizes
  <1>2. Group(w) = GroupStart(w) .. (GroupStart(w) + PerGroup) - 1
    BY DEF Group, GroupEnd
  <1> QED BY <1>1, <1>2, FS_Interval

\* Where the rows of a worker lie, and that the sender's loop computes the same.
LEMMA SliceFacts ==
  ASSUME shape \in Shapes, NEW w \in Workers
  PROVE  /\ AggStart(w) \in Nat /\ AggEnd(w) \in Nat
         /\ AggStart(w) <= AggEnd(w) /\ AggEnd(w) <= Rows
         /\ SliceEnd(AggStart(w), w) = AggEnd(w)
         /\ w = GroupStart(w) => AggStart(w) = 0
         /\ w + 1 < GroupEnd(w) => w + 1 \in Group(w) /\ AggStart(w + 1) = AggEnd(w)
  <1> DEFINE i == w % PerGroup
  <1>1. /\ Rows \in Nat /\ PerGroup \in Nat \ {0} /\ i \in 0 .. PerGroup - 1
        /\ w \in Nat /\ GroupStart(w) \in Nat /\ w = GroupStart(w) + i
        /\ GroupEnd(w) = GroupStart(w) + PerGroup
    BY Sizes, GroupFacts
  <1>2. /\ First(Rows, PerGroup, 0) = 0
        /\ First(Rows, PerGroup, i) \in Nat /\ Share(Rows, PerGroup, i) \in Nat
        /\ End(Rows, PerGroup, i) = First(Rows, PerGroup, i + 1)
    BY <1>1, PartsInOrder
  <1>3. End(Rows, PerGroup, i) <= Rows
    BY <1>1, PartsWithin
  <1>4. AggStart(w) = First(Rows, PerGroup, i) /\ AggEnd(w) = End(Rows, PerGroup, i)
        /\ AggEnd(w) = AggStart(w) + Share(Rows, PerGroup, i)
    BY DEF AggStart, AggEnd, End
  <1>5. SliceEnd(AggStart(w), w) = AggEnd(w)
    <2>1. /\ Rows \div PerGroup \in Nat
          /\ SliceEnd(AggStart(w), w) =
               AggStart(w) + (Rows \div PerGroup) + IF Rows % PerGroup > i THEN 1 ELSE 0
      BY <1>1, DivMod DEF SliceEnd
    <2>2. AggEnd(w) = AggStart(w) + (Rows \div PerGroup + IF Rows % PerGroup > i THEN 1 ELSE 0)
      BY <1>4 DEF Share
    <2> HIDE DEF i
    <2> QED BY <1>2, <1>4, <2>1, <2>2
  <1>6. w = GroupStart(w) => AggStart(w) = 0
    <2>1. w = GroupStart(w) => i = 0
      <3> HIDE DEF i
      <3> QED BY <1>1
    <2> QED BY <2>1, <1>2, <1>4
  <1>7. w + 1 < GroupEnd(w) => w + 1 \in Group(w) /\ AggStart(w + 1) = AggEnd(w)
    <2> SUFFICES ASSUME w + 1 < GroupEnd(w)
                 PROVE  w + 1 \in Group(w) /\ AggStart(w + 1) = AggEnd(w)
      OBVIOUS
    <2>1. w + 1 \in Group(w)
      <3> HIDE DEF i
      <3> QED BY <1>1 DEF Group
    <2>2. w + 1 = GroupStart(w) + ((w + 1) % PerGroup) /\ (w + 1) % PerGroup \in 0 .. PerGroup - 1
      BY <2>1, SameGroup, GroupFacts
    <2>3. (w + 1) % PerGroup = i + 1
      <3> DEFINE j == (w + 1) % PerGroup
      <3> HIDE DEF i, j
      <3>1. j = i + 1
        BY <1>1, <2>2 DEF j
      <3> QED BY <3>1 DEF j
    <2> QED BY <2>1, <2>3, <1>2, <1>4 DEF AggStart
  <1> HIDE DEF i
  <1> QED BY <1>2, <1>3, <1>4, <1>5, <1>6, <1>7

\* Two workers of a group have no row in common.
LEMMA RowsApart ==
  ASSUME shape \in Shapes, NEW w \in Workers, NEW v \in Workers, v # w,
         v \div PerGroup = w \div PerGroup
  PROVE  AggRows(v) \cap AggRows(w) = {}
  <1>1. Rows \in Nat /\ PerGroup \in Nat \ {0}
    BY Sizes
  <1>2. /\ v % PerGroup \in 0 .. PerGroup - 1 /\ w % PerGroup \in 0 .. PerGroup - 1
        /\ v % PerGroup # w % PerGroup
    <2>1. /\ v = GroupStart(v) + (v % PerGroup) /\ w = GroupStart(w) + (w % PerGroup)
          /\ v % PerGroup \in 0 .. PerGroup - 1 /\ w % PerGroup \in 0 .. PerGroup - 1
      BY GroupFacts
    <2>2. GroupStart(v) = GroupStart(w)
      BY DEF GroupStart
    <2> QED BY <2>1, <2>2
  <1>3. /\ AggRows(v) = Part(Rows, PerGroup, v % PerGroup)
        /\ AggRows(w) = Part(Rows, PerGroup, w % PerGroup)
    BY DEF AggRows, AggStart, AggEnd, Part
  <1> QED BY <1>1, <1>2, <1>3, PartsDisjoint

-----------------------------------------------------------------------------
(* What the actions have in common *)

Stages == {"multiply", "send", "add", "wait", "asleep"} \cup Answering

\* The groups and the division of the rows stay.
LEMMA Same ==
  ASSUME UNCHANGED setup
  PROVE  /\ Workers' = Workers /\ Rows' = Rows /\ Groups' = Groups /\ PerGroup' = PerGroup
         /\ \A w: /\ GroupStart(w)' = GroupStart(w) /\ GroupEnd(w)' = GroupEnd(w)
                  /\ Group(w)' = Group(w) /\ AggStart(w)' = AggStart(w)
                  /\ AggEnd(w)' = AggEnd(w) /\ AggRows(w)' = AggRows(w)
         /\ \A g, row: WholeRow(g, row)' = WholeRow(g, row)
  BY DEF setup, Workers, Rows, Groups, PerGroup, NumGroup, GroupStart, GroupEnd, Group, AggStart,
         AggEnd, AggRows, WholeRow

LEMMA SumsTypedKept ==
  ASSUME SumsTyped, UNCHANGED <<setup, aggregation>>
  PROVE  SumsTyped'
  <1>1. UNCHANGED setup
    OBVIOUS
  <1>2. aggregation = [w \in Workers |-> [row \in AggRows(w) |-> aggregation[w][row]]]
    BY DEF SumsTyped
  <1>3. aggregation' = [w \in Workers' |-> [row \in AggRows(w)' |-> aggregation'[w][row]]]
    <2> HIDE DEF SumsTyped
    <2>1. [w \in Workers' |-> [row \in AggRows(w)' |-> aggregation'[w][row]]]
            = [w \in Workers |-> [row \in AggRows(w) |-> aggregation[w][row]]]
      BY <1>1, Same
    <2> QED BY <1>2, <2>1
  <1> QED BY <1>3 DEF SumsTyped

\* The count of a sum can only be that of the group when all are counted in it.
LEMMA CountedFinite ==
  ASSUME shape \in Shapes, NEW w \in Workers
  PROVE  /\ Counted(w) \subseteq Group(w) /\ IsFiniteSet(Counted(w))
         /\ Cardinality(Counted(w)) \in Nat /\ Cardinality(Counted(w)) <= PerGroup
         /\ Cardinality(Counted(w)) = PerGroup => Counted(w) = Group(w)
         /\ Cardinality(Counted(w)) = 0 => Counted(w) = {}
  <1>1. Counted(w) \subseteq Group(w)
    BY DEF Counted
  <1>2. IsFiniteSet(Group(w)) /\ Cardinality(Group(w)) = PerGroup
    BY GroupSize
  <1>3. IsFiniteSet(Counted(w)) /\ Cardinality(Counted(w)) <= PerGroup
        /\ (Cardinality(Group(w)) = Cardinality(Counted(w)) => Group(w) = Counted(w))
    BY <1>1, <1>2, FS_Subset
  <1>4. Cardinality(Counted(w)) \in Nat
    BY <1>3, FS_CardinalityType
  <1>5. Cardinality(Counted(w)) = 0 => Counted(w) = {}
    BY <1>3, FS_EmptySet
  <1> QED BY <1>1, <1>2, <1>3, <1>4, <1>5

\* The sums stay right when neither they nor the workers counted in them change.
LEMMA SumsKept ==
  ASSUME Sums, UNCHANGED <<setup, aggregationCount, aggregation>>,
         \A v \in Workers: Counted(v)' = Counted(v),
         \A v \in Workers: pc'[v] \in Answering => pc[v] \in Answering
  PROVE  Sums'
  <1>1. Workers' = Workers /\ \A v: AggRows(v)' = AggRows(v) /\ Group(v)' = Group(v)
    BY Same
  <1>2. aggregationCount' = aggregationCount /\ aggregation' = aggregation
    OBVIOUS
  <1> QED BY <1>1, <1>2 DEF Sums

\* A worker that only goes on from "wait" leaves the exchange as it is.
LEMMA ExchangeKept ==
  ASSUME IInv, UNCHANGED <<setup, sendTo, itr, aggregationCount, aggregation, partial>>,
         \A v \in Workers:
           \/ pc'[v] = pc[v]
           \/ /\ pc[v] \notin {"multiply", "send", "add"} /\ pc'[v] \notin {"multiply", "send", "add"}
              /\ pc'[v] \in Answering => Counted(v) = Group(v)
  PROVE  Sending' /\ InFlight' /\ Sums'
  <1> USE DEF IInv
  <1>1. Sending'
    <2>1. \A w: AggStart(sendTo[w])' = AggStart(sendTo[w])
      BY DEF AggStart, Rows, NumGroup, PerGroup, setup
    <2> SUFFICES ASSUME NEW w \in Workers
                 PROVE  /\ sendTo'[w] <= GroupEnd(w) /\ itr'[w] <= Rows
                        /\ pc'[w] = "send" => sendTo'[w] \in Group(w) /\ itr'[w] = AggStart(sendTo[w])
      BY <2>1, Same DEF Sending
    <2>2. pc'[w] = "send" => pc[w] = "send"
      OBVIOUS
    <2> QED BY <2>2 DEF Sending
  <1>2. \A v, u: v \in Workers => (Sent(v, u)' <=> Sent(v, u))
    BY DEF Sent
  <1>3. InFlight'
    <2> SUFFICES ASSUME NEW m \in partial
                 PROVE  /\ m = [from |-> m.from, to |-> m.to, first |-> AggStart(m.to),
                                end |-> AggEnd(m.to)]
                        /\ m.to \in Workers /\ m.from \in Group(m.to) \ {m.to}
                        /\ Sent(m.from, m.to)'
      BY Same DEF InFlight
    <2>1. /\ m = [from |-> m.from, to |-> m.to, first |-> AggStart(m.to), end |-> AggEnd(m.to)]
          /\ m.to \in Workers /\ m.from \in Group(m.to) \ {m.to} /\ Sent(m.from, m.to)
      BY DEF InFlight
    <2>2. m.from \in Workers
      BY <2>1, GroupFacts DEF Typed
    <2> QED BY <2>1, <2>2, <1>2
  <1>4. \A v \in Workers: Counted(v)' = Counted(v)
    <2> SUFFICES ASSUME NEW v \in Workers PROVE Counted(v)' = Counted(v)
      OBVIOUS
    <2>1. Group(v) \subseteq Workers /\ Group(v)' = Group(v)
      BY GroupFacts, Same DEF Typed
    <2> QED BY <2>1, <1>2 DEF Counted
  <1>5. Sums'
    BY <1>4, Same DEF Sums
  <1> QED BY <1>1, <1>3, <1>5

\* What the client has is not touched by a worker that does not answer.
LEMMA ClientKept ==
  ASSUME IInv, UNCHANGED clientVars,
         \A v \in Workers: pc'[v] = pc[v] \/ (pc[v] \notin {"responding", "done"} /\ pc'[v] # "done")
  PROVE  Counting' /\ Handling' /\ Overlaps' /\ Storing'
  <1> USE DEF IInv, clientVars, splitVars
  <1>0. UNCHANGED setup
    OBVIOUS
  <1>1. Answered' = Answered
    BY <1>0, Same DEF Answered
  <1>2. Counting'
    BY <1>1 DEF Counting
  <1>3. Handling'
    BY <1>0, Same DEF Handling, setup
  <1>4. \A v \in Workers: Stored(v)' = Stored(v)
    BY <1>0, Same DEF Stored
  <1>5. Overlaps'
    BY <1>0, Same DEF Overlaps
  <1>6. Storing'
    BY <1>0, <1>4, Same DEF Storing, IsWhole, setup
  <1> QED BY <1>2, <1>3, <1>5, <1>6

-----------------------------------------------------------------------------
(* The invariant is kept *)

LEMMA InitInv ==
  ASSUME Init
  PROVE  IInv
  <1>1. shape \in Shapes
    BY DEF Init
  <1>2. Rows \in Nat /\ ClientRows \in Nat \ {0} /\ PerGroup \in Nat \ {0}
    BY <1>1, Sizes
  <1>3. Typed
    BY <1>1 DEF Init, Typed, SumsTyped, HandlerSteps
  <1>4. \A w \in Workers: /\ 0 <= GroupEnd(w) /\ pc[w] = "multiply" /\ sendTo[w] = 0 /\ itr[w] = 0
                          /\ handler[w] = "none" /\ rowAt[w] = 0
    BY <1>1, <1>2, GroupFacts DEF Init
  <1>5. Sending
    BY <1>2, <1>4 DEF Sending
  <1>6. InFlight
    BY DEF Init, InFlight
  <1>7. Sums
    <2> SUFFICES ASSUME NEW w \in Workers
                 PROVE  aggregationCount[w] = 0 /\ Counted(w) = {} /\ pc[w] \notin Answering
      BY FS_EmptySet DEF Sums
    <2>1. Group(w) \subseteq Workers
      BY <1>1, GroupFacts
    <2>2. Counted(w) = {}
      BY <2>1, <1>4 DEF Counted, Sent
    <2> QED BY <2>2, <1>4 DEF Init, Answering
  <1>8. Counting
    <2>1. Answered = {}
      BY <1>4 DEF Answered
    <2> QED BY <2>1, FS_EmptySet DEF Init, Counting
  <1>9. Handling
    BY <1>2, <1>4 DEF Handling
  <1>10. Storing
    <2>1. \A w \in Workers: Stored(w) = AggStart(w) /\ AggStart(w) \in Nat
      BY <1>1, <1>4, SliceFacts DEF Stored
    <2>2. \A w \in Workers: AggStart(w) .. Stored(w) - 1 = {}
      BY <2>1
    <2>3. \A row \in Rows .. ClientRows - 1: finalResult[row] = {Warmup}
      BY <1>2 DEF Init
    <2> QED BY <1>4, <2>2, <2>3 DEF Storing, Init
  <1>11. Overlaps
    BY <1>4 DEF Overlaps
  <1> QED BY <1>3, <1>5, <1>6, <1>7, <1>8, <1>9, <1>10, <1>11 DEF IInv

LEMMA MultiplyInv ==
  ASSUME IInv, NEW w \in Workers, Multiply(w)
  PROVE  IInv'
  <1> USE DEF IInv
  <1>0. UNCHANGED setup /\ shape \in Shapes
    BY DEF Multiply, clientVars, setup, Typed
  <1>1. /\ pc[w] = "multiply" /\ pc' = [pc EXCEPT ![w] = "send"]
        /\ sendTo' = [sendTo EXCEPT ![w] = GroupStart(w)] /\ itr' = [itr EXCEPT ![w] = 0]
        /\ UNCHANGED <<aggregationCount, aggregation, partial, clientVars>>
    BY DEF Multiply
  <1>2. /\ GroupStart(w) \in Nat /\ GroupStart(w) \in Group(w) /\ GroupStart(w) <= GroupEnd(w)
        /\ AggStart(GroupStart(w)) = 0 /\ Rows \in Nat
    <2>1. /\ GroupStart(w) \in Nat /\ PerGroup \in Nat \ {0} /\ GroupEnd(w) = GroupStart(w) + PerGroup
          /\ Rows \in Nat
      BY <1>0, GroupFacts, Sizes
    <2>2. GroupStart(w) \in Group(w)
      BY <2>1 DEF Group
    <2>3. GroupStart(w) \in Workers /\ GroupStart(GroupStart(w)) = GroupStart(w)
      BY <1>0, <2>2, SameGroup
    <2> QED BY <1>0, <2>1, <2>2, <2>3, SliceFacts
  <1>3. Typed'
    <2>1. SumsTyped'
      BY <1>0, <1>1, SumsTypedKept DEF Typed
    <2>2. Workers' = Workers
      BY <1>0, Same
    <2> QED BY <1>0, <1>1, <1>2, <2>1, <2>2 DEF Typed, clientVars, splitVars, setup
  <1>4. Sending'
    <2> SUFFICES ASSUME NEW v \in Workers
                 PROVE  /\ sendTo'[v] <= GroupEnd(v) /\ itr'[v] <= Rows
                        /\ pc'[v] = "send" => /\ sendTo'[v] \in Group(v)
                                              /\ itr'[v] = AggStart(sendTo[v])'
      BY <1>0, Same DEF Sending
    <2>2. CASE v = w
      <3>1. sendTo'[v] = GroupStart(w) /\ itr'[v] = 0
        BY <1>1, <2>2 DEF Typed
      <3>2. AggStart(sendTo[v])' = AggStart(GroupStart(w))
        BY <1>0, <3>1 DEF AggStart, Rows, NumGroup, PerGroup, setup
      <3> QED BY <2>2, <3>1, <3>2, <1>2
    <2>3. CASE v # w
      <3>1. sendTo'[v] = sendTo[v] /\ itr'[v] = itr[v] /\ pc'[v] = pc[v]
        BY <1>1, <2>3 DEF Typed
      <3>2. AggStart(sendTo[v])' = AggStart(sendTo[v])
        BY <1>0, <3>1 DEF AggStart, Rows, NumGroup, PerGroup, setup
      <3> QED BY <3>1, <3>2 DEF Sending
    <2> QED BY <2>2, <2>3
  <1>5. \A v \in Workers: \A u \in Group(v): Sent(u, v)' <=> Sent(u, v)
    <2> SUFFICES ASSUME NEW v \in Workers, NEW u \in Group(v)
                 PROVE  Sent(u, v)' <=> Sent(u, v)
      OBVIOUS
    <2>1. u \in Workers /\ GroupStart(u) = GroupStart(v) /\ GroupStart(v) \in Nat
          /\ v \in Group(v) /\ v \in Nat
      BY <1>0, SameGroup, GroupFacts
    <2>2. ~(v < GroupStart(v))
      BY <2>1 DEF Group
    <2> QED BY <1>1, <2>1, <2>2 DEF Sent, Typed
  <1>6. InFlight'
    BY <1>0, <1>1, <1>5, Same DEF InFlight
  <1>7. \A v \in Workers: Counted(v)' = Counted(v)
    <2>1. \A v \in Workers: pc'[v] \in {"multiply", "send", "add"} <=> pc[v] \in {"multiply", "send", "add"}
      BY <1>1 DEF Typed
    <2> SUFFICES ASSUME NEW v \in Workers PROVE Counted(v)' = Counted(v)
      OBVIOUS
    <2>2. Group(v)' = Group(v) /\ partial' = partial
      BY <1>0, <1>1, Same
    <2> QED BY <1>5, <2>1, <2>2 DEF Counted
  <1>8. Sums'
    <2>1. \A v \in Workers: pc'[v] \in Answering <=> pc[v] \in Answering
      BY <1>1 DEF Typed, Answering
    <2> QED BY <1>0, <1>1, <1>7, <2>1, SumsKept
  <1>9. Counting' /\ Handling' /\ Overlaps' /\ Storing'
    BY <1>1, ClientKept DEF Typed
  <1> QED BY <1>3, <1>4, <1>6, <1>8, <1>9

LEMMA SendPartialInv ==
  ASSUME IInv, NEW w \in Workers, SendPartial(w)
  PROVE  IInv'
  <1> USE DEF IInv
  <1> DEFINE i == sendTo[w]
             m0 == [from |-> w, to |-> i, first |-> AggStart(i), end |-> AggEnd(i)]
  <1>0. UNCHANGED setup /\ shape \in Shapes /\ UNCHANGED clientVars
        /\ aggregationCount' = aggregationCount /\ aggregation' = aggregation
    BY DEF SendPartial, clientVars, setup, Typed
  <1>1. /\ i \in Group(w) /\ itr[w] = AggStart(i) /\ pc[w] = "send"
    BY DEF SendPartial, Sending
  <1>2. /\ i \in Workers /\ i \in Nat /\ GroupEnd(i) = GroupEnd(w) /\ Group(i) = Group(w)
        /\ i < GroupEnd(w) /\ GroupEnd(w) \in Nat /\ w \in Nat
    <2>1. i \in Workers /\ GroupEnd(i) = GroupEnd(w) /\ Group(i) = Group(w) /\ i \in Nat
      BY <1>0, <1>1, SameGroup, GroupFacts
    <2>2. GroupStart(w) \in Nat /\ PerGroup \in Nat \ {0} /\ GroupEnd(w) = GroupStart(w) + PerGroup
          /\ w \in Nat
      BY <1>0, GroupFacts, Sizes
    <2> QED BY <1>1, <2>1, <2>2 DEF Group
  <1>3. /\ SliceEnd(AggStart(i), i) = AggEnd(i) /\ AggEnd(i) \in Nat /\ AggEnd(i) <= Rows
        /\ i + 1 < GroupEnd(w) => i + 1 \in Group(w) /\ AggStart(i + 1) = AggEnd(i)
    BY <1>0, <1>2, SliceFacts
  <1>4. /\ partial' = IF i = w THEN partial ELSE partial \cup {m0}
        /\ itr' = [itr EXCEPT ![w] = AggEnd(i)]
        /\ sendTo' = [sendTo EXCEPT ![w] = i + 1]
        /\ pc' = [pc EXCEPT ![w] = IF i + 1 < GroupEnd(w) THEN "send" ELSE "add"]
    BY <1>1, <1>3 DEF SendPartial
  <1> HIDE DEF i
  <1>5. Typed'
    <2>1. SumsTyped'
      BY <1>0, SumsTypedKept DEF Typed
    <2>2. Workers' = Workers
      BY <1>0, Same
    <2>3. UNCHANGED <<shape, program, cpc, finalResult, responseReceived, clientEarly, handler, rowAt,
                      racing, raced>>
      BY <1>0 DEF clientVars, splitVars, setup
    <2>4. /\ pc' \in [Workers -> Stages] /\ sendTo' \in [Workers -> Nat]
          /\ itr' \in [Workers -> Nat] /\ aggregationCount' \in [Workers -> Nat]
      BY <1>0, <1>2, <1>3, <1>4 DEF Typed, Stages
    <2> QED BY <1>0, <2>1, <2>2, <2>3, <2>4 DEF Typed, Stages
  <1>6. Sending'
    <2> SUFFICES ASSUME NEW v \in Workers
                 PROVE  /\ sendTo'[v] <= GroupEnd(v) /\ itr'[v] <= Rows
                        /\ pc'[v] = "send" => /\ sendTo'[v] \in Group(v)
                                              /\ itr'[v] = AggStart(sendTo[v])'
      BY <1>0, Same DEF Sending
    <2>1. CASE v = w
      <3>1. /\ sendTo'[v] = i + 1 /\ itr'[v] = AggEnd(i)
            /\ pc'[v] = "send" => i + 1 < GroupEnd(w)
        BY <1>4, <2>1 DEF Typed
      <3>2. AggStart(sendTo[v])' = AggStart(i + 1)
        BY <1>0, <3>1 DEF AggStart, Rows, NumGroup, PerGroup, setup
      <3> QED BY <2>1, <3>1, <3>2, <1>2, <1>3
    <2>2. CASE v # w
      <3>1. sendTo'[v] = sendTo[v] /\ itr'[v] = itr[v] /\ pc'[v] = pc[v]
        BY <1>4, <2>2 DEF Typed
      <3>2. AggStart(sendTo[v])' = AggStart(sendTo[v])
        BY <1>0, <3>1 DEF AggStart, Rows, NumGroup, PerGroup, setup
      <3> QED BY <3>1, <3>2 DEF Sending
    <2> QED BY <2>1, <2>2
  <1>7. \A v \in Workers: \A u \in Group(v): Sent(u, v)' <=> Sent(u, v) \/ (u = w /\ v = i)
    <2> SUFFICES ASSUME NEW v \in Workers, NEW u \in Group(v)
                 PROVE  Sent(u, v)' <=> Sent(u, v) \/ (u = w /\ v = i)
      OBVIOUS
    <2>1. u \in Workers /\ v \in Nat /\ v \in Group(u) /\ GroupEnd(u) \in Nat
      <3>1. u \in Workers /\ v \in Nat /\ v \in Group(u)
        BY <1>0, SameGroup, GroupFacts
      <3>2. GroupStart(u) \in Nat /\ GroupEnd(u) = GroupStart(u) + PerGroup /\ PerGroup \in Nat
        BY <1>0, <3>1, GroupFacts, Sizes
      <3> QED BY <3>1, <3>2
    <2>2. v < GroupEnd(u)
      <3>1. GroupStart(u) \in Nat /\ Group(u) = GroupStart(u) .. GroupEnd(u) - 1
        BY <2>1, <1>0, GroupFacts DEF Group
      <3> QED BY <2>1, <3>1
    <2>3. CASE u = w
      <3>1. sendTo[u] = i /\ sendTo'[u] = i + 1 /\ pc[u] = "send"
            /\ pc'[u] = IF i + 1 < GroupEnd(w) THEN "send" ELSE "add"
        BY <1>1, <1>4, <2>3 DEF Typed, i
      <3> QED BY <2>1, <2>2, <2>3, <3>1, <1>2 DEF Sent
    <2>4. CASE u # w
      BY <1>4, <2>1, <2>4 DEF Sent, Typed
    <2> QED BY <2>3, <2>4
  <1>8. w \in Group(i)
    BY <1>0, <1>2, GroupFacts
  <1>9. InFlight'
    <2> SUFFICES ASSUME NEW m \in partial'
                 PROVE  /\ m = [from |-> m.from, to |-> m.to, first |-> AggStart(m.to),
                                end |-> AggEnd(m.to)]
                        /\ m.to \in Workers /\ m.from \in Group(m.to) \ {m.to}
                        /\ Sent(m.from, m.to)'
      BY <1>0, Same DEF InFlight
    <2>1. CASE m \in partial
      BY <2>1, <1>7 DEF InFlight
    <2>2. CASE m \notin partial
      BY <2>2, <1>2, <1>4, <1>7, <1>8
    <2> QED BY <2>1, <2>2
  <1>10. \A v \in Workers: Counted(v)' = Counted(v)
    <2> SUFFICES ASSUME NEW v \in Workers, NEW u \in Group(v)
                 PROVE  (u \in Counted(v)') <=> (u \in Counted(v))
      <3>1. \A v \in Workers: Group(v)' = Group(v)
        BY <1>0, Same
      <3> QED BY <3>1 DEF Counted
    <2>1. Group(v)' = Group(v)
      BY <1>0, Same
    <2>2. CASE u = v
      BY <2>1, <2>2, <1>1, <1>4 DEF Counted, Typed
    <2>3. CASE u # v
      <3>1. (u \in Counted(v)) <=> Sent(u, v) /\ \A m \in partial: ~(m.from = u /\ m.to = v)
        BY <2>3 DEF Counted
      <3>2. (u \in Counted(v)') <=> Sent(u, v)' /\ \A m \in partial': ~(m.from = u /\ m.to = v)
        BY <2>1, <2>3 DEF Counted
      <3>3. CASE u = w /\ v = i
        <4>1. m0 \in partial' /\ m0.from = u /\ m0.to = v
          BY <1>4, <2>3, <3>3
        <4>2. ~Sent(u, v)
          BY <1>1, <1>2, <3>3 DEF Sent, i
        <4> QED BY <3>1, <3>2, <4>1, <4>2
      <3>4. CASE ~(u = w /\ v = i)
        <4>1. Sent(u, v)' <=> Sent(u, v)
          BY <1>7, <3>4
        <4>2. (\A m \in partial': ~(m.from = u /\ m.to = v)) <=> (\A m \in partial: ~(m.from = u /\ m.to = v))
          <5>1. ~(m0.from = u /\ m0.to = v)
            BY <3>4
          <5> QED BY <1>4, <5>1
        <4> QED BY <3>1, <3>2, <4>1, <4>2
      <3> QED BY <3>3, <3>4
    <2> QED BY <2>2, <2>3
  <1>11. Sums'
    <2>1. \A v \in Workers: pc'[v] \in Answering => pc[v] \in Answering
      BY <1>4 DEF Typed, Answering
    <2> QED BY <1>0, <1>10, <2>1, SumsKept
  <1>12. Counting' /\ Handling' /\ Overlaps' /\ Storing'
    <2>1. \A v \in Workers: pc'[v] = pc[v] \/ (pc[v] \notin {"responding", "done"} /\ pc'[v] # "done")
      BY <1>1, <1>4 DEF Typed
    <2> QED BY <1>0, <2>1, ClientKept
  <1> QED BY <1>5, <1>6, <1>9, <1>11, <1>12

\* What main and the server have in common when they add a product to the sum of w: one
\* more worker is counted in it, and its rows are in the sum.
LEMMA AddStep ==
  ASSUME Typed, Sums, UNCHANGED setup, NEW w \in Workers, NEW u \in Group(w),
         u \notin Counted(w), Counted(w)' = Counted(w) \cup {u},
         \A v \in Workers \ {w}: Counted(v)' = Counted(v),
         \A v \in Workers: pc'[v] \in Answering => pc[v] \in Answering,
         aggregation' = [aggregation EXCEPT ![w] = AddTo(w, u, AggStart(w))],
         aggregationCount' = [aggregationCount EXCEPT ![w] = @ + 1]
  PROVE  Sums' /\ SumsTyped' /\ aggregationCount' \in [Workers -> Nat]
  <1>1. Workers' = Workers /\ \A v: AggRows(v)' = AggRows(v) /\ Group(v)' = Group(v)
    BY Same
  <1>2. /\ IsFiniteSet(Counted(w)) /\ Cardinality(Counted(w)) \in Nat
        /\ Cardinality(Counted(w)) = 0 => Counted(w) = {}
        /\ aggregationCount[w] = Cardinality(Counted(w))
    BY CountedFinite DEF Typed, Sums
  <1>3. Cardinality(Counted(w) \cup {u}) = Cardinality(Counted(w)) + 1
    BY <1>2, FS_AddElement
  <1>4. /\ aggregationCount'[w] = aggregationCount[w] + 1
        /\ \A v \in Workers \ {w}: aggregationCount'[v] = aggregationCount[v]
        /\ aggregationCount' \in [Workers -> Nat]
    BY DEF Typed
  <1>5. /\ DOMAIN aggregation = Workers
        /\ \A v \in Workers: aggregation[v] = [row \in AggRows(v) |-> aggregation[v][row]]
    BY DEF Typed, SumsTyped
  <1>6. /\ aggregation'[w] = AddTo(w, u, AggStart(w))
        /\ \A v \in Workers \ {w}: aggregation'[v] = aggregation[v]
        /\ aggregation' = [v \in Workers |-> aggregation'[v]]
    BY <1>5
  <1>7. \A row \in AggRows(w): aggregation'[w][row] = {<<v, row>> : v \in Counted(w) \cup {u}}
    <2> SUFFICES ASSUME NEW row \in AggRows(w)
                 PROVE  aggregation'[w][row] = {<<v, row>> : v \in Counted(w) \cup {u}}
      OBVIOUS
    <2>1. AggStart(w) + row - AggStart(w) = row
      <3>1. AggStart(w) \in Nat /\ row \in Int
        BY SliceFacts DEF Typed, AggRows
      <3> QED BY <3>1
    <2>2. aggregation'[w][row] =
            (IF aggregationCount[w] = 0 THEN {} ELSE aggregation[w][row]) \cup {<<u, row>>}
      BY <1>6, <2>1 DEF AddTo
    <2>3. CASE aggregationCount[w] = 0
      BY <1>2, <2>2, <2>3
    <2>4. CASE aggregationCount[w] # 0
      <3>1. aggregation[w][row] = {<<v, row>> : v \in Counted(w)}
        BY <1>2, <2>4 DEF Sums
      <3> QED BY <2>2, <2>4, <3>1
    <2> QED BY <2>3, <2>4
  <1>8. SumsTyped'
    <2>1. \A v \in Workers: aggregation'[v] = [row \in AggRows(v) |-> aggregation'[v][row]]
      BY <1>5, <1>6 DEF AddTo
    <2>2. aggregation' = [v \in Workers |-> [row \in AggRows(v) |-> aggregation'[v][row]]]
      BY <1>6, <2>1
    <2> QED BY <1>1, <2>2 DEF SumsTyped
  <1>9. Sums'
    <2> SUFFICES ASSUME NEW v \in Workers
                 PROVE  /\ aggregationCount'[v] = Cardinality(Counted(v)')
                        /\ aggregationCount'[v] > 0 =>
                             \A row \in AggRows(v): aggregation'[v][row] = {<<x, row>> : x \in Counted(v)'}
                        /\ pc'[v] \in Answering => Counted(v)' = Group(v)
      BY <1>1 DEF Sums
    <2>1. CASE v = w
      <3>1. pc'[w] \in Answering => Counted(w) = Group(w)
        BY DEF Sums
      <3> QED BY <2>1, <3>1, <1>2, <1>3, <1>4, <1>7
    <2>2. CASE v # w
      BY <2>2, <1>4, <1>6 DEF Sums
    <2> QED BY <2>1, <2>2
  <1> QED BY <1>4, <1>8, <1>9

LEMMA AddOwnInv ==
  ASSUME IInv, NEW w \in Workers, AddOwn(w)
  PROVE  IInv'
  <1> USE DEF IInv
  <1>0. UNCHANGED setup /\ shape \in Shapes /\ UNCHANGED clientVars /\ Workers' = Workers
        /\ \A v: Group(v)' = Group(v)
    <2>1. UNCHANGED setup
      BY DEF AddOwn, clientVars, setup
    <2> QED BY <2>1, Same DEF AddOwn, Typed
  <1>1. /\ pc[w] = "add" /\ pc' = [pc EXCEPT ![w] = "wait"]
        /\ aggregation' = [aggregation EXCEPT ![w] = AddTo(w, w, AggStart(w))]
        /\ aggregationCount' = [aggregationCount EXCEPT ![w] = @ + 1]
        /\ UNCHANGED <<sendTo, itr, partial>>
    BY DEF AddOwn
  <1>2. /\ pc'[w] = "wait" /\ \A v \in Workers \ {w}: pc'[v] = pc[v]
        /\ pc' \in [Workers -> Stages]
    BY <1>1 DEF Typed, Stages
  <1>3. \A v \in Workers: \A u: Sent(v, u)' <=> Sent(v, u)
    BY <1>1, <1>2 DEF Sent
  <1>4. \A v \in Workers: \A u \in Group(v): (u \in Counted(v)') <=> (u \in Counted(v) \/ (u = w /\ v = w))
    <2> SUFFICES ASSUME NEW v \in Workers, NEW u \in Group(v)
                 PROVE  (u \in Counted(v)') <=> (u \in Counted(v) \/ (u = w /\ v = w))
      OBVIOUS
    <2>1. u \in Workers
      BY <1>0, GroupFacts
    <2>2. CASE u = v
      BY <2>2, <1>0, <1>2 DEF Counted
    <2>3. CASE u # v
      BY <2>1, <2>3, <1>0, <1>1, <1>3 DEF Counted
    <2> QED BY <2>2, <2>3
  <1>5. w \in Group(w) /\ w \notin Counted(w)
    BY <1>0, <1>1, GroupFacts DEF Counted
  <1>6. Counted(w)' = Counted(w) \cup {w} /\ \A v \in Workers \ {w}: Counted(v)' = Counted(v)
    <2>1. \A v \in Workers: Counted(v) \subseteq Group(v) /\ Counted(v)' \subseteq Group(v)
      BY <1>0 DEF Counted
    <2> QED BY <2>1, <1>4, <1>5
  <1>7. Sums' /\ SumsTyped' /\ aggregationCount' \in [Workers -> Nat]
    <2>1. \A v \in Workers: pc'[v] \in Answering => pc[v] \in Answering
      BY <1>2 DEF Answering
    <2> QED BY <1>0, <1>1, <1>5, <1>6, <2>1, AddStep
  <1>8. Typed'
    BY <1>0, <1>1, <1>2, <1>7 DEF Typed, Stages, clientVars, splitVars, setup
  <1>9. Sending'
    <2>1. \A v \in Workers: pc'[v] = "send" => pc[v] = "send"
      BY <1>2
    <2>2. \A v: AggStart(sendTo[v])' = AggStart(sendTo[v])
      BY <1>0, <1>1 DEF AggStart, Rows, NumGroup, PerGroup, setup
    <2> QED BY <1>0, <1>1, <2>1, <2>2, Same DEF Sending
  <1>10. InFlight'
    <2>1. \A m \in partial: m.to \in Workers /\ m.from \in Workers
      BY <1>0, GroupFacts DEF InFlight
    <2> QED BY <1>0, <1>1, <1>3, <2>1, Same DEF InFlight
  <1>11. Counting' /\ Handling' /\ Overlaps' /\ Storing'
    <2>1. \A v \in Workers: pc'[v] = pc[v] \/ (pc[v] \notin {"responding", "done"} /\ pc'[v] # "done")
      BY <1>1, <1>2
    <2> QED BY <1>0, <2>1, ClientKept
  <1> QED BY <1>7, <1>8, <1>9, <1>10, <1>11

LEMMA ReceivePartialInv ==
  ASSUME IInv, NEW w \in Workers, ReceivePartial(w)
  PROVE  IInv'
  <1> USE DEF IInv
  <1>0. UNCHANGED setup /\ shape \in Shapes /\ UNCHANGED clientVars /\ Workers' = Workers
        /\ \A v: Group(v)' = Group(v)
    <2>1. UNCHANGED setup
      BY DEF ReceivePartial, clientVars, setup
    <2> QED BY <2>1, Same DEF ReceivePartial, Typed
  <1>1. PICK m \in partial:
          /\ m.to = w
          /\ partial' = partial \ {m}
          /\ aggregation' = [aggregation EXCEPT ![w] = AddTo(w, m.from, m.first)]
          /\ aggregationCount' = [aggregationCount EXCEPT ![w] = @ + 1]
          /\ pc' = IF aggregationCount[w] + 1 = PerGroup /\ pc[w] = "asleep"
                   THEN [pc EXCEPT ![w] = "wait"] ELSE pc
          /\ UNCHANGED <<sendTo, itr>>
    BY DEF ReceivePartial
  <1>2. /\ m = [from |-> m.from, to |-> w, first |-> AggStart(w), end |-> AggEnd(w)]
        /\ m.from \in Group(w) \ {w} /\ Sent(m.from, w) /\ m.first = AggStart(w)
    BY <1>1 DEF InFlight
  <1>3. /\ \A v \in Workers: pc'[v] = pc[v] \/ (pc[v] = "asleep" /\ pc'[v] = "wait")
        /\ pc' \in [Workers -> Stages]
    BY <1>1 DEF Typed, Stages
  <1>4. \A v \in Workers: \A u: Sent(v, u)' <=> Sent(v, u)
    BY <1>1, <1>3 DEF Sent
  <1>5. \A v \in Workers: \A u \in Group(v): (u \in Counted(v)') <=> (u \in Counted(v) \/ (u = m.from /\ v = w))
    <2> SUFFICES ASSUME NEW v \in Workers, NEW u \in Group(v)
                 PROVE  (u \in Counted(v)') <=> (u \in Counted(v) \/ (u = m.from /\ v = w))
      OBVIOUS
    <2>1. u \in Workers
      BY <1>0, GroupFacts
    <2>2. CASE u = v
      BY <2>2, <1>0, <1>2, <1>3 DEF Counted
    <2>3. CASE u # v
      <3>1. (u \in Counted(v)) <=> Sent(u, v) /\ \A x \in partial: ~(x.from = u /\ x.to = v)
        BY <2>3 DEF Counted
      <3>2. (u \in Counted(v)') <=> Sent(u, v) /\ \A x \in partial': ~(x.from = u /\ x.to = v)
        BY <2>1, <2>3, <1>0, <1>4 DEF Counted
      <3>3. CASE u = m.from /\ v = w
        <4>1. \A x \in partial': ~(x.from = u /\ x.to = v)
          <5> SUFFICES ASSUME NEW x \in partial', x.from = u /\ x.to = v PROVE FALSE
            OBVIOUS
          <5>1. x \in partial /\ x # m
            BY <1>1
          <5>2. x = [from |-> x.from, to |-> x.to, first |-> AggStart(x.to), end |-> AggEnd(x.to)]
            BY <5>1 DEF InFlight
          <5> QED BY <5>1, <5>2, <1>2, <3>3
        <4> QED BY <3>2, <3>3, <4>1, <1>2
      <3>4. CASE ~(u = m.from /\ v = w)
        <4>1. (\A x \in partial': ~(x.from = u /\ x.to = v)) <=> (\A x \in partial: ~(x.from = u /\ x.to = v))
          BY <1>1, <3>4
        <4> QED BY <3>1, <3>2, <3>4, <4>1
      <3> QED BY <3>3, <3>4
    <2> QED BY <2>2, <2>3
  <1>6. m.from \notin Counted(w)
    BY <1>1, <1>2 DEF Counted
  <1>7. Counted(w)' = Counted(w) \cup {m.from} /\ \A v \in Workers \ {w}: Counted(v)' = Counted(v)
    <2>1. \A v \in Workers: Counted(v) \subseteq Group(v) /\ Counted(v)' \subseteq Group(v)
      BY <1>0 DEF Counted
    <2> QED BY <2>1, <1>2, <1>5
  <1>8. Sums' /\ SumsTyped' /\ aggregationCount' \in [Workers -> Nat]
    <2>1. \A v \in Workers: pc'[v] \in Answering => pc[v] \in Answering
      BY <1>3 DEF Answering
    <2>2. aggregation' = [aggregation EXCEPT ![w] = AddTo(w, m.from, AggStart(w))]
      BY <1>1, <1>2
    <2> QED BY <1>0, <1>1, <1>2, <1>6, <1>7, <2>1, <2>2, AddStep
  <1>9. Typed'
    BY <1>0, <1>1, <1>3, <1>8 DEF Typed, Stages, clientVars, splitVars, setup
  <1>10. Sending'
    <2>1. \A v \in Workers: pc'[v] = "send" => pc[v] = "send"
      BY <1>3
    <2>2. \A v: AggStart(sendTo[v])' = AggStart(sendTo[v])
      BY <1>0, <1>1 DEF AggStart, Rows, NumGroup, PerGroup, setup
    <2> QED BY <1>0, <1>1, <2>1, <2>2, Same DEF Sending
  <1>11. InFlight'
    <2>1. \A x \in partial: x.to \in Workers /\ x.from \in Workers
      BY <1>0, GroupFacts DEF InFlight
    <2>2. partial' \subseteq partial
      BY <1>1
    <2> QED BY <1>0, <1>4, <2>1, <2>2, Same DEF InFlight
  <1>12. Counting' /\ Handling' /\ Overlaps' /\ Storing'
    <2>1. \A v \in Workers: pc'[v] = pc[v] \/ (pc[v] \notin {"responding", "done"} /\ pc'[v] # "done")
      BY <1>3
    <2> QED BY <1>0, <2>1, ClientKept
  <1> QED BY <1>8, <1>9, <1>10, <1>11, <1>12

LEMMA AwaitOthersInv ==
  ASSUME IInv, NEW w \in Workers, AwaitOthers(w) \/ AwaitSpurious(w) \/ Respond(w)
  PROVE  IInv'
  <1> USE DEF IInv
  <1>0. /\ UNCHANGED <<setup, sendTo, itr, aggregationCount, aggregation, partial>> /\ UNCHANGED clientVars
        /\ shape \in Shapes /\ pc[w] \in {"wait", "asleep", "respond"}
        /\ \/ pc' = [pc EXCEPT ![w] = "asleep"]
           \/ pc' = [pc EXCEPT ![w] = "wait"]
           \/ pc' = [pc EXCEPT ![w] = "respond"] /\ aggregationCount[w] = PerGroup
           \/ pc' = [pc EXCEPT ![w] = "responding"] /\ pc[w] = "respond"
    BY DEF AwaitOthers, AwaitSpurious, Respond, clientVars, setup, Typed
  <1>1. /\ \A v \in Workers \ {w}: pc'[v] = pc[v]
        /\ pc' \in [Workers -> Stages] /\ pc'[w] \in {"wait", "asleep", "respond", "responding"}
    BY <1>0 DEF Typed, Stages, Answering
  <1>2. pc'[w] \in Answering => Counted(w) = Group(w)
    <2>1. aggregationCount[w] = PerGroup => Counted(w) = Group(w)
      BY <1>0, CountedFinite DEF Sums
    <2>2. pc[w] = "respond" => Counted(w) = Group(w)
      BY DEF Sums, Answering
    <2>3. CASE pc' = [pc EXCEPT ![w] = "asleep"] \/ pc' = [pc EXCEPT ![w] = "wait"]
      BY <2>3 DEF Typed, Answering
    <2> QED BY <1>0, <2>1, <2>2, <2>3
  <1>3. Sending' /\ InFlight' /\ Sums'
    BY <1>0, <1>1, <1>2, ExchangeKept
  <1>4. Typed'
    <2>1. SumsTyped' /\ Workers' = Workers
      BY <1>0, Same, SumsTypedKept DEF Typed
    <2> QED BY <1>0, <1>1, <2>1 DEF Typed, Stages, clientVars, splitVars, setup
  <1>5. Counting' /\ Handling' /\ Overlaps' /\ Storing'
    <2>1. \A v \in Workers: pc'[v] = pc[v] \/ (pc[v] \notin {"responding", "done"} /\ pc'[v] # "done")
      BY <1>0, <1>1
    <2> QED BY <1>0, <2>1, ClientKept
  <1> QED BY <1>3, <1>4, <1>5

\* What a worker sends to the client is the sum over its group, of each of its rows.
LEMMA WholeSum ==
  ASSUME Typed, InFlight, Sums, NEW w \in Workers, pc[w] \in Answering
  PROVE  /\ \A row \in AggRows(w): /\ aggregation[w][row] = {<<v, row>> : v \in Group(w)}
                                   /\ aggregation[w][row] = WholeRow(w \div PerGroup, row)
                                   /\ row \in 0 .. Rows - 1
         /\ \A m \in partial: m.to # w
         /\ w \div PerGroup \in Groups
  <1>1. Counted(w) = Group(w) /\ aggregationCount[w] = Cardinality(Counted(w)) /\ shape \in Shapes
    BY DEF Sums, Typed
  <1>2. aggregationCount[w] > 0
    BY <1>1, GroupSize, Sizes
  <1>3. \A row \in AggRows(w): aggregation[w][row] = {<<v, row>> : v \in Group(w)}
    BY <1>1, <1>2 DEF Sums
  <1>4. \A row \in AggRows(w): row \in 0 .. Rows - 1
    BY <1>1, Sizes, SliceFacts DEF AggRows
  <1>5. \A m \in partial: m.to # w
    BY <1>1 DEF InFlight, Counted
  <1> QED BY <1>1, <1>3, <1>4, <1>5, GroupOfNumber, GroupFacts DEF WholeRow

\* The client counts no more rows than there are.
LEMMA AnsweredFinite ==
  ASSUME shape \in Shapes
  PROVE  /\ IsFiniteSet(Groups \X (0 .. Rows - 1)) /\ Cardinality(Groups \X (0 .. Rows - 1)) = ClientRows
         /\ IsFiniteSet(Answered) /\ Cardinality(Answered) \in Nat /\ Cardinality(Answered) <= ClientRows
         /\ Cardinality(Answered) = ClientRows => Answered = Groups \X (0 .. Rows - 1)
  <1>1. NumGroup \in Nat \ {0} /\ Rows \in Nat /\ ClientRows = NumGroup * Rows
    BY Sizes
  <1>2. /\ IsFiniteSet(Groups) /\ Cardinality(Groups) = NumGroup
        /\ IsFiniteSet(0 .. Rows - 1) /\ Cardinality(0 .. Rows - 1) = Rows
    BY <1>1, FS_Interval DEF Groups
  <1>3. /\ IsFiniteSet(Groups \X (0 .. Rows - 1))
        /\ Cardinality(Groups \X (0 .. Rows - 1)) = ClientRows
    BY <1>1, <1>2, FS_Product
  <1>4. Answered \in SUBSET (Groups \X (0 .. Rows - 1))
    BY DEF Answered
  <1> QED BY <1>3, <1>4, FS_Subset, FS_CardinalityType

\* The rows of a worker that has not answered are not counted yet: when it has, there are
\* as many more as it has rows.
LEMMA AnsweredStep ==
  ASSUME shape \in Shapes, pc \in [Workers -> Stages], UNCHANGED setup,
         NEW w \in Workers, pc[w] = "responding", pc' = [pc EXCEPT ![w] = "done"]
  PROVE  Cardinality(Answered') = Cardinality(Answered) + (AggEnd(w) - AggStart(w))
         /\ Cardinality(Answered') <= ClientRows
  <1> DEFINE New == {w \div PerGroup} \X AggRows(w)
  <1>1. /\ shape \in Shapes /\ shape' \in Shapes
        /\ Workers' = Workers /\ Groups' = Groups /\ Rows' = Rows /\ PerGroup' = PerGroup
        /\ \A v: AggRows(v)' = AggRows(v)
    BY Same DEF setup
  <1>2. /\ w \div PerGroup \in Groups /\ AggRows(w) \subseteq 0 .. Rows - 1
        /\ AggStart(w) \in Nat /\ AggEnd(w) \in Nat /\ AggStart(w) <= AggEnd(w)
    <2>1. /\ w \div PerGroup \in Groups /\ Rows \in Nat /\ AggEnd(w) <= Rows
          /\ AggStart(w) \in Nat /\ AggEnd(w) \in Nat /\ AggStart(w) <= AggEnd(w)
      BY <1>1, GroupFacts, SliceFacts, Sizes
    <2> QED BY <2>1 DEF AggRows
  <1>3. \A v \in Workers: pc'[v] = "done" <=> (pc[v] = "done" \/ v = w)
    OBVIOUS
  <1>4. Answered' = Answered \cup New
    <2>1. \A p \in Groups \X (0 .. Rows - 1):
            (p \in Answered') <=> (\E v \in Workers: /\ pc'[v] = "done" /\ v \div PerGroup = p[1]
                                                   /\ p[2] \in AggRows(v))
      BY <1>1 DEF Answered
    <2>2. \A p \in Groups \X (0 .. Rows - 1):
            (p \in Answered) <=> (\E v \in Workers: /\ pc[v] = "done" /\ v \div PerGroup = p[1]
                                                  /\ p[2] \in AggRows(v))
      BY DEF Answered
    <2>3. \A p \in Groups \X (0 .. Rows - 1):
            (p \in New) <=> (w \div PerGroup = p[1] /\ p[2] \in AggRows(w))
      OBVIOUS
    <2>4. /\ Answered' \subseteq Groups \X (0 .. Rows - 1) /\ Answered \subseteq Groups \X (0 .. Rows - 1)
          /\ New \subseteq Groups \X (0 .. Rows - 1)
      BY <1>1, <1>2 DEF Answered
    <2> HIDE DEF New
    <2>5. \A p \in Groups \X (0 .. Rows - 1): (p \in Answered') <=> (p \in Answered \/ p \in New)
      BY <1>3, <2>1, <2>2, <2>3
    <2> QED BY <2>4, <2>5
  <1>5. Answered \cap New = {}
    <2> SUFFICES ASSUME NEW p \in Answered, p \in New PROVE FALSE
      OBVIOUS
    <2>1. PICK v \in Workers: pc[v] = "done" /\ v \div PerGroup = p[1] /\ p[2] \in AggRows(v)
      BY DEF Answered
    <2>2. v # w /\ v \div PerGroup = w \div PerGroup /\ p[2] \in AggRows(w)
      BY <2>1
    <2> QED BY <1>1, <2>1, <2>2, RowsApart
  <1>6. IsFiniteSet(New) /\ Cardinality(New) = AggEnd(w) - AggStart(w)
    <2>1. IsFiniteSet({w \div PerGroup}) /\ Cardinality({w \div PerGroup}) = 1
      BY FS_Singleton
    <2>2. IsFiniteSet(AggRows(w)) /\ Cardinality(AggRows(w)) = AggEnd(w) - AggStart(w)
      <3>1. AggStart(w) \in Int /\ AggEnd(w) - 1 \in Int
        BY <1>2
      <3>2. /\ IsFiniteSet(AggStart(w) .. AggEnd(w) - 1)
            /\ Cardinality(AggStart(w) .. AggEnd(w) - 1) =
                 IF AggStart(w) > AggEnd(w) - 1 THEN 0 ELSE (AggEnd(w) - 1) - AggStart(w) + 1
        BY <3>1, FS_Interval
      <3> QED BY <1>2, <3>2 DEF AggRows
    <2>3. IsFiniteSet(New) /\ Cardinality(New) = 1 * (AggEnd(w) - AggStart(w))
      BY <2>1, <2>2, FS_Product
    <2> QED BY <1>2, <2>3
  <1>7. IsFiniteSet(Answered) /\ Cardinality(Answered) \in Nat
    BY <1>1, AnsweredFinite
  <1>8. Cardinality(Answered \cup New) = Cardinality(Answered) + Cardinality(New) - Cardinality({})
    <2> HIDE DEF New
    <2> QED BY <1>5, <1>6, <1>7, FS_Union
  <1>9. Answered \cup New \in SUBSET (Groups \X (0 .. Rows - 1))
    BY <1>2 DEF Answered
  <1>10. Cardinality(Answered \cup New) <= ClientRows
    BY <1>1, <1>9, AnsweredFinite, FS_Subset
  <1> HIDE DEF New
  <1> QED BY <1>2, <1>4, <1>6, <1>7, <1>8, <1>10, FS_EmptySet

\* The response of w is stored and counted at once (merge), or counted after its rows
\* have been stored one by one (split): what both do to the rest of the invariant.
LEMMA CountStep ==
  ASSUME IInv, NEW w \in Workers, pc[w] = "responding", pc' = [pc EXCEPT ![w] = "done"],
         UNCHANGED <<setup, sendTo, itr, aggregationCount, aggregation, partial, rowAt>>,
         responseReceived' = responseReceived + (AggEnd(w) - AggStart(w)),
         cpc' = IF responseReceived' = ClientRows /\ cpc = "asleep" THEN "woken" ELSE cpc,
         handler' = [handler EXCEPT ![w] = "none"],
         finalResult' = [row \in 0 .. ClientRows - 1 |-> finalResult'[row]],
         UNCHANGED <<clientEarly, racing, raced>>
  PROVE  Typed' /\ Sending' /\ InFlight' /\ Sums' /\ Counting' /\ Handling' /\ Overlaps'
  <1> USE DEF IInv
  <1>0. /\ UNCHANGED setup /\ shape \in Shapes /\ Workers' = Workers /\ Rows' = Rows
        /\ \A v: AggStart(v)' = AggStart(v) /\ AggEnd(v)' = AggEnd(v)
    BY Same DEF Typed
  <1>1. /\ \A v \in Workers \ {w}: pc'[v] = pc[v] /\ handler'[v] = handler[v]
        /\ pc' \in [Workers -> Stages] /\ pc'[w] = "done" /\ handler'[w] = "none"
        /\ handler' \in [Workers -> HandlerSteps]
    BY DEF Typed, Stages, Answering, HandlerSteps
  <1>2. AggEnd(w) - AggStart(w) \in Nat /\ responseReceived' \in Nat
    BY <1>0, SliceFacts DEF Typed
  <1>3. Typed'
    <2>1. SumsTyped'
      BY SumsTypedKept DEF Typed
    <2>2. cpc' \in {"asleep", "woken", "done"}
      BY DEF Typed
    <2> QED BY <1>0, <1>1, <1>2, <2>1, <2>2 DEF Typed, Stages, setup
  <1>4. Sending' /\ InFlight' /\ Sums'
    <2>1. Counted(w) = Group(w)
      BY DEF Sums, Answering
    <2> QED BY <1>1, <2>1, ExchangeKept
  <1>5. Counting'
    <2>1. /\ Cardinality(Answered') = Cardinality(Answered) + (AggEnd(w) - AggStart(w))
          /\ Cardinality(Answered') <= ClientRows
      BY <1>0, AnsweredStep DEF Typed, Stages
    <2>2. responseReceived' = Cardinality(Answered') /\ responseReceived' <= ClientRows
      BY <2>1 DEF Counting
    <2>3. cpc' # "asleep" /\ ~clientEarly' => responseReceived' = ClientRows
      <3>1. ClientRows \in Nat /\ responseReceived \in Nat
        BY <1>0, Sizes DEF Typed
      <3>2. CASE cpc = "asleep"
        BY <3>2
      <3>3. CASE cpc # "asleep"
        BY <1>2, <2>2, <3>1, <3>3 DEF Counting
      <3> QED BY <3>2, <3>3
    <2> QED BY <2>2, <2>3 DEF Counting
  <1>6. Handling'
    BY <1>0, <1>1 DEF Handling, setup
  <1>7. Overlaps'
    BY <1>0, <1>1 DEF Overlaps
  <1> QED BY <1>3, <1>4, <1>5, <1>6, <1>7

LEMMA ReceiveResponseInv ==
  ASSUME IInv, NEW w \in Workers, ReceiveResponse(w)
  PROVE  IInv'
  <1> USE DEF IInv
  <1>0. /\ UNCHANGED <<setup, sendTo, itr, aggregationCount, aggregation, partial, rowAt>>
        /\ UNCHANGED <<handler, tempCt, clientEarly, racing, raced>>
        /\ shape \in Shapes /\ program = "merge" /\ pc[w] = "responding"
        /\ pc' = [pc EXCEPT ![w] = "done"]
        /\ responseReceived' = responseReceived + (AggEnd(w) - AggStart(w))
        /\ cpc' = IF responseReceived' = ClientRows /\ cpc = "asleep" THEN "woken" ELSE cpc
        /\ finalResult' = [row \in 0 .. ClientRows - 1 |->
                             IF row \in AggRows(w) THEN aggregation[w][row] ELSE finalResult[row]]
    BY DEF ReceiveResponse, splitVars, Typed
  <1>1. \A v \in Workers: handler[v] = "none"
    BY <1>0 DEF Handling
  <1>2. handler' = [handler EXCEPT ![w] = "none"]
    BY <1>0, <1>1 DEF Typed
  <1>3. Typed' /\ Sending' /\ InFlight' /\ Sums' /\ Counting' /\ Handling' /\ Overlaps'
    <2>1. finalResult' = [row \in 0 .. ClientRows - 1 |-> finalResult'[row]]
      BY <1>0
    <2> QED BY <1>0, <1>2, <2>1, CountStep
  <1>4. /\ Workers' = Workers /\ Rows' = Rows /\ Groups' = Groups /\ program' = program
        /\ \A v: AggStart(v)' = AggStart(v) /\ AggEnd(v)' = AggEnd(v)
        /\ \A g, row: WholeRow(g, row)' = WholeRow(g, row)
        /\ Rows \in Nat /\ Rows <= ClientRows /\ ClientRows \in Nat
    BY <1>0, Same, Sizes DEF setup
  <1>5. \A row \in AggRows(w): \E g \in Groups: aggregation[w][row] = WholeRow(g, row)
    BY <1>0, WholeSum DEF Answering
  <1>6. \A v \in Workers: \A row \in AggStart(v) .. Stored(v)' - 1:
          \E g \in Groups: finalResult'[row] = WholeRow(g, row)
    <2> SUFFICES ASSUME NEW v \in Workers, NEW row \in AggStart(v) .. Stored(v)' - 1
                 PROVE  \E g \in Groups: finalResult'[row] = WholeRow(g, row)
      OBVIOUS
    <2>1. /\ AggStart(v) \in Nat /\ AggEnd(v) <= Rows /\ AggStart(v) <= AggEnd(v) /\ AggEnd(v) \in Nat
      BY <1>0, SliceFacts
    <2>2. Stored(v)' = IF v = w THEN AggEnd(v) ELSE Stored(v)
      BY <1>0, <1>1, <1>4 DEF Stored, Typed
    <2>3. Stored(v) = (IF pc[v] = "done" THEN AggEnd(v) ELSE AggStart(v))
      BY <1>1 DEF Stored
    <2>4. row \in 0 .. ClientRows - 1
      BY <1>4, <2>1, <2>2, <2>3
    <2>5. CASE row \in AggRows(w)
      BY <1>0, <1>5, <2>4, <2>5
    <2>6. CASE row \notin AggRows(w)
      <3>1. finalResult'[row] = finalResult[row]
        BY <1>0, <2>4, <2>6
      <3>2. v # w
        BY <2>2, <2>6 DEF AggRows
      <3>3. row \in AggStart(v) .. Stored(v) - 1
        BY <2>2, <3>2
      <3>4. IsWhole(finalResult[row], row)
        BY <1>0, <3>3 DEF Storing
      <3> QED BY <3>1, <3>4 DEF IsWhole
    <2> QED BY <2>5, <2>6
  <1>7. \A row \in Rows .. ClientRows - 1: finalResult'[row] = {Warmup}
    <2> SUFFICES ASSUME NEW row \in Rows .. ClientRows - 1 PROVE finalResult'[row] = {Warmup}
      OBVIOUS
    <2>1. row \in 0 .. ClientRows - 1 /\ row \notin AggRows(w)
      BY <1>0, <1>4, SliceFacts DEF AggRows
    <2> QED BY <1>0, <2>1 DEF Storing
  <1>8. Storing'
    <2>1. \A v \in Workers: handler'[v] # "decrypt"
      BY <1>0, <1>1
    <2>2. raced' = {}
      BY <1>0 DEF Storing
    <2> QED BY <1>4, <1>6, <1>7, <2>1, <2>2 DEF Storing, IsWhole
  <1> QED BY <1>3, <1>8

\* A step of an RPC thread of the split client that does not count: what it leaves alone.
LEMMA HandlerStep ==
  ASSUME IInv, UNCHANGED <<workerVars, cpc, setup, responseReceived, clientEarly>>,
         handler' \in [Workers -> HandlerSteps], rowAt' \in [Workers -> Nat],
         racing' \subseteq Workers, raced' \subseteq 0 .. ClientRows - 1,
         finalResult' = [row \in 0 .. ClientRows - 1 |-> finalResult'[row]]
  PROVE  Typed' /\ Sending' /\ InFlight' /\ Sums' /\ Counting'
  <1> USE DEF IInv
  <1>0. UNCHANGED setup /\ UNCHANGED <<pc, sendTo, itr, aggregationCount, aggregation, partial>>
    BY DEF workerVars
  <1>1. Workers' = Workers /\ SumsTyped'
    BY <1>0, Same, SumsTypedKept DEF Typed
  <1>2. Typed'
    BY <1>0, <1>1 DEF Typed, setup
  <1>3. Sending' /\ InFlight' /\ Sums'
    BY <1>0, ExchangeKept
  <1>4. Counting'
    <2>1. Answered' = Answered
      BY <1>0, Same DEF Answered
    <2> QED BY <2>1 DEF Counting
  <1> QED BY <1>2, <1>3, <1>4

LEMMA BeginResponseInv ==
  ASSUME IInv, NEW w \in Workers, BeginResponse(w)
  PROVE  IInv'
  <1> USE DEF IInv
  <1>0. /\ UNCHANGED <<workerVars, cpc, setup, responseReceived, clientEarly>>
        /\ UNCHANGED <<finalResult, tempCt, racing, raced>>
        /\ UNCHANGED setup /\ UNCHANGED pc
        /\ shape \in Shapes /\ program = "split" /\ pc[w] = "responding" /\ handler[w] = "none"
        /\ handler' = [handler EXCEPT ![w] = "copy"]
        /\ rowAt' = [rowAt EXCEPT ![w] = AggStart(w)]
    BY DEF BeginResponse, Typed, workerVars
  <1>1. \A v \in Workers: /\ AggStart(v) \in Nat /\ AggEnd(v) \in Nat
                          /\ AggStart(v) <= AggEnd(v) /\ AggEnd(v) <= Rows
    BY <1>0, SliceFacts
  <1>2. /\ handler' \in [Workers -> HandlerSteps] /\ rowAt' \in [Workers -> Nat]
        /\ handler'[w] = "copy" /\ rowAt'[w] = AggStart(w)
        /\ \A v \in Workers \ {w}: handler'[v] = handler[v] /\ rowAt'[v] = rowAt[v]
    BY <1>0, <1>1 DEF Typed, HandlerSteps
  <1>3. Typed' /\ Sending' /\ InFlight' /\ Sums' /\ Counting'
    BY <1>0, <1>2, HandlerStep DEF Typed
  <1>4. /\ Workers' = Workers /\ Rows' = Rows /\ Groups' = Groups /\ program' = program
        /\ \A v: AggStart(v)' = AggStart(v) /\ AggEnd(v)' = AggEnd(v)
        /\ \A g, row: WholeRow(g, row)' = WholeRow(g, row)
        /\ Rows \in Nat
    BY <1>0, Same, Sizes DEF setup
  <1>5. Handling'
    BY <1>0, <1>1, <1>2, <1>4 DEF Handling
  <1>6. \A v \in Workers: Stored(v)' = Stored(v)
    BY <1>0, <1>2, <1>4 DEF Stored
  <1>7. \A v \in Workers: handler'[v] \in {"copying", "decrypt"} =>
                             handler[v] = handler'[v] /\ rowAt'[v] = rowAt[v]
    BY <1>2
  <1>8. Storing'
    <2>1. PerGroup' = PerGroup /\ program' = program
      BY <1>0, Same DEF setup
    <2> QED BY <1>0, <1>4, <1>6, <1>7, <2>1 DEF Storing, IsWhole
  <1>9. Overlaps'
    BY <1>0, <1>4, <1>7 DEF Overlaps
  <1> QED BY <1>3, <1>5, <1>8, <1>9

\* A copy begins: those that have a row in temp_ct know of it, and so does it of theirs.
LEMMA CopyBeginInv ==
  ASSUME IInv, NEW w \in Workers, CopyBegin(w)
  PROVE  IInv'
  <1> USE DEF IInv
  <1>0. /\ UNCHANGED <<workerVars, cpc, setup, responseReceived, clientEarly>>
        /\ UNCHANGED <<finalResult, rowAt, raced>>
        /\ UNCHANGED setup /\ UNCHANGED pc
        /\ shape \in Shapes /\ handler[w] = "copy" /\ rowAt[w] < AggEnd(w)
        /\ handler' = [handler EXCEPT ![w] = "copying"]
        /\ racing' = Others(w, {"copying", "decrypt"})
                      \cup (IF Others(w, {"copying"}) = {} THEN racing \ {w} ELSE racing \cup {w})
    BY DEF CopyBegin, Typed, workerVars
  <1>1. /\ handler' \in [Workers -> HandlerSteps] /\ rowAt' \in [Workers -> Nat]
        /\ handler'[w] = "copying" /\ \A v \in Workers \ {w}: handler'[v] = handler[v]
    BY <1>0 DEF Typed, HandlerSteps
  <1>2. /\ racing' \subseteq Workers
        /\ \A v \in Workers \ {w}: v \in racing \/ handler[v] \in {"copying", "decrypt"} => v \in racing'
        /\ (\E v \in Workers \ {w}: handler[v] = "copying") => w \in racing'
    BY <1>0 DEF Others, Typed
  <1>3. Typed' /\ Sending' /\ InFlight' /\ Sums' /\ Counting'
    BY <1>0, <1>1, <1>2, HandlerStep DEF Typed
  <1>4. /\ Workers' = Workers /\ Rows' = Rows /\ Groups' = Groups /\ program' = program
        /\ \A v: AggStart(v)' = AggStart(v) /\ AggEnd(v)' = AggEnd(v)
        /\ \A g, row: WholeRow(g, row)' = WholeRow(g, row)
    BY <1>0, Same DEF setup
  <1>5. Handling'
    BY <1>0, <1>1, <1>4 DEF Handling
  <1>6. Overlaps'
    BY <1>1, <1>2, <1>4 DEF Overlaps
  <1>7. \A v \in Workers: Stored(v)' = Stored(v)
    BY <1>0, <1>1, <1>4 DEF Stored
  <1>8. \A v \in Workers: handler'[v] = "decrypt" => v \in racing'
    BY <1>1, <1>2
  <1>9. Storing'
    BY <1>0, <1>4, <1>7, <1>8 DEF Storing, IsWhole
  <1> QED BY <1>3, <1>5, <1>6, <1>9

\* A copy ends: its row is in temp_ct unless it knows of another, and so is nobody else's.
LEMMA CopyEndInv ==
  ASSUME IInv, NEW w \in Workers, CopyEnd(w)
  PROVE  IInv'
  <1> USE DEF IInv
  <1>0. /\ UNCHANGED <<workerVars, cpc, setup, responseReceived, clientEarly>>
        /\ UNCHANGED <<finalResult, rowAt, raced>>
        /\ UNCHANGED setup /\ UNCHANGED pc
        /\ shape \in Shapes /\ handler[w] = "copying"
        /\ handler' = [handler EXCEPT ![w] = "decrypt"]
        /\ w \notin racing => tempCt' = aggregation[w][rowAt[w]]
        /\ racing \subseteq racing' /\ racing' \subseteq Workers
    BY DEF CopyEnd, Typed, workerVars
  <1>1. /\ handler' \in [Workers -> HandlerSteps] /\ rowAt' \in [Workers -> Nat]
        /\ handler'[w] = "decrypt" /\ \A v \in Workers \ {w}: handler'[v] = handler[v]
    BY <1>0 DEF Typed, HandlerSteps
  <1>2. Typed' /\ Sending' /\ InFlight' /\ Sums' /\ Counting'
    BY <1>0, <1>1, HandlerStep DEF Typed
  <1>3. /\ Workers' = Workers /\ Rows' = Rows /\ Groups' = Groups /\ program' = program
        /\ PerGroup' = PerGroup
        /\ \A v: AggStart(v)' = AggStart(v) /\ AggEnd(v)' = AggEnd(v)
        /\ \A g, row: WholeRow(g, row)' = WholeRow(g, row)
    BY <1>0, Same DEF setup
  <1>4. Handling'
    BY <1>0, <1>1, <1>3 DEF Handling
  <1>5. Overlaps'
    BY <1>0, <1>1, <1>3 DEF Overlaps
  <1>6. aggregation[w][rowAt[w]] = WholeRow(w \div PerGroup, rowAt[w])
    <2>1. pc[w] = "responding" /\ rowAt[w] \in AggStart(w) .. AggEnd(w) /\ rowAt[w] < AggEnd(w)
      BY <1>0 DEF Handling
    <2>2. rowAt[w] \in AggRows(w)
      <3>1. AggStart(w) \in Nat /\ AggEnd(w) \in Nat
        BY <1>0, SliceFacts
      <3> QED BY <2>1, <3>1 DEF AggRows
    <2> QED BY <2>1, <2>2, WholeSum DEF Answering
  <1>7. \A v \in Workers \ {w}: handler[v] = "decrypt" => v \in racing
    BY <1>0 DEF Overlaps
  <1>8. \A v \in Workers: handler'[v] = "decrypt" /\ v \notin racing' =>
          tempCt' = WholeRow(v \div PerGroup, rowAt[v])
    BY <1>0, <1>1, <1>6, <1>7
  <1>9. \A v \in Workers: Stored(v)' = Stored(v)
    BY <1>0, <1>1, <1>3 DEF Stored
  <1>10. Storing'
    BY <1>0, <1>3, <1>8, <1>9 DEF Storing, IsWhole
  <1> QED BY <1>2, <1>4, <1>5, <1>10

LEMMA DecryptRowInv ==
  ASSUME IInv, NEW w \in Workers, DecryptRow(w)
  PROVE  IInv'
  <1> USE DEF IInv
  <1>0. /\ UNCHANGED <<workerVars, cpc, setup, responseReceived, clientEarly>>
        /\ UNCHANGED <<tempCt, racing>>
        /\ UNCHANGED setup /\ UNCHANGED pc
        /\ shape \in Shapes /\ handler[w] = "decrypt"
        /\ handler' = [handler EXCEPT ![w] = "copy"]
        /\ rowAt' = [rowAt EXCEPT ![w] = @ + 1]
        /\ raced' = IF w \in racing THEN raced \cup {rowAt[w]} ELSE raced \ {rowAt[w]}
    BY DEF DecryptRow, Typed, workerVars
  <1> DEFINE scores == finalResult'[rowAt[w]]
  <1>1. /\ program = "split" /\ pc[w] = "responding"
        /\ rowAt[w] \in AggStart(w) .. AggEnd(w) /\ rowAt[w] < AggEnd(w) /\ rowAt[w] \in Nat
    BY <1>0 DEF Handling, Typed
  <1>2. /\ AggStart(w) \in Nat /\ AggEnd(w) \in Nat /\ AggEnd(w) <= Rows /\ Rows \in Nat
        /\ Rows <= ClientRows /\ ClientRows \in Nat /\ rowAt[w] \in 0 .. ClientRows - 1
    <2>1. /\ AggStart(w) \in Nat /\ AggEnd(w) \in Nat /\ AggEnd(w) <= Rows /\ Rows \in Nat
          /\ Rows <= ClientRows /\ ClientRows \in Nat
      BY <1>0, SliceFacts, Sizes
    <2> QED BY <1>1, <2>1
  <1>3. /\ handler' \in [Workers -> HandlerSteps] /\ rowAt' \in [Workers -> Nat]
        /\ handler'[w] = "copy" /\ rowAt'[w] = rowAt[w] + 1
        /\ \A v \in Workers \ {w}: handler'[v] = handler[v] /\ rowAt'[v] = rowAt[v]
    BY <1>0, <1>1 DEF Typed, HandlerSteps
  <1>4. /\ finalResult' = [row \in 0 .. ClientRows - 1 |-> finalResult'[row]]
        /\ \A row \in 0 .. ClientRows - 1: row # rowAt[w] => finalResult'[row] = finalResult[row]
        /\ w \notin racing => finalResult'[rowAt[w]] = tempCt
    <2>1. finalResult = [row \in 0 .. ClientRows - 1 |-> finalResult[row]]
      BY DEF Typed
    <2>2. PICK c \in {tempCt} \cup (IF w \in racing THEN {Mixture} ELSE {}):
            finalResult' = [finalResult EXCEPT ![rowAt[w]] = c]
      BY DEF DecryptRow
    <2>3. w \notin racing => c = tempCt
      BY <2>2
    <2> QED BY <1>2, <2>1, <2>2, <2>3
  <1>5. Typed' /\ Sending' /\ InFlight' /\ Sums' /\ Counting'
    <2>1. raced' \subseteq 0 .. ClientRows - 1 /\ racing' \subseteq Workers
      BY <1>0, <1>2 DEF Typed
    <2> QED BY <1>0, <1>3, <1>4, <2>1, HandlerStep
  <1>6. /\ Workers' = Workers /\ Rows' = Rows /\ Groups' = Groups /\ program' = program
        /\ PerGroup' = PerGroup
        /\ \A v: AggStart(v)' = AggStart(v) /\ AggEnd(v)' = AggEnd(v)
        /\ \A g, row: WholeRow(g, row)' = WholeRow(g, row)
    BY <1>0, Same DEF setup
  <1>7. Handling'
    BY <1>0, <1>1, <1>2, <1>3, <1>6 DEF Handling
  <1>8. Overlaps'
    BY <1>0, <1>3, <1>6 DEF Overlaps
  <1>9. w \notin racing => IsWhole(finalResult'[rowAt[w]], rowAt[w])
    <2>1. w \div PerGroup \in Groups
      BY <1>0, GroupFacts
    <2> QED BY <1>0, <1>4, <2>1 DEF Storing, IsWhole
  <1>10. \A v \in Workers: \A row \in AggStart(v) .. Stored(v)' - 1:
           row \notin raced' => IsWhole(finalResult'[row], row)
    <2> SUFFICES ASSUME NEW v \in Workers, NEW row \in AggStart(v) .. Stored(v)' - 1, row \notin raced'
                 PROVE  IsWhole(finalResult'[row], row)
      OBVIOUS
    <2>1. /\ AggStart(v) \in Nat /\ AggEnd(v) \in Nat /\ AggEnd(v) <= Rows /\ AggStart(v) <= AggEnd(v)
      BY <1>0, SliceFacts
    <2>2. Stored(v)' = IF v = w THEN rowAt[w] + 1 ELSE Stored(v)
      BY <1>0, <1>1, <1>3, <1>6 DEF Stored
    <2>3. Stored(w) = rowAt[w]
      BY <1>0, <1>1 DEF Stored
    <2>4. Stored(v) \in Nat /\ Stored(v) <= Rows
      BY <2>1, <1>0, <1>1, <1>2 DEF Stored, Handling, Typed
    <2>5. row \in 0 .. ClientRows - 1
      BY <1>1, <1>2, <2>1, <2>2, <2>4
    <2>6. CASE row = rowAt[w]
      <3>1. w \notin racing
        BY <1>0, <2>6
      <3> QED BY <1>9, <2>6, <3>1
    <2>7. CASE row # rowAt[w]
      <3>1. row \in AggStart(v) .. Stored(v) - 1
        BY <1>1, <2>1, <2>2, <2>3, <2>4, <2>7
      <3>2. finalResult'[row] = finalResult[row] /\ row \notin raced
        BY <1>0, <1>4, <2>5, <2>7
      <3> QED BY <3>1, <3>2 DEF Storing
    <2> QED BY <2>6, <2>7
  <1>11. \A row \in Rows .. ClientRows - 1: finalResult'[row] = {Warmup}
    <2> SUFFICES ASSUME NEW row \in Rows .. ClientRows - 1 PROVE finalResult'[row] = {Warmup}
      OBVIOUS
    <2>1. row \in 0 .. ClientRows - 1 /\ row # rowAt[w]
      BY <1>1, <1>2
    <2> QED BY <1>4, <2>1 DEF Storing
  <1>12. Storing'
    <2>1. \A v \in Workers: handler'[v] = "decrypt" /\ v \notin racing' =>
            tempCt' = WholeRow(v \div PerGroup, rowAt'[v])
      BY <1>0, <1>3 DEF Storing
    <2> QED BY <1>1, <1>6, <1>10, <1>11, <2>1 DEF Storing, IsWhole
  <1> QED BY <1>5, <1>7, <1>8, <1>12

LEMMA CountRowsInv ==
  ASSUME IInv, NEW w \in Workers, CountRows(w)
  PROVE  IInv'
  <1> USE DEF IInv
  <1>0. /\ UNCHANGED <<setup, sendTo, itr, aggregationCount, aggregation, partial, rowAt>>
        /\ UNCHANGED <<finalResult, tempCt, clientEarly, racing, raced>>
        /\ shape \in Shapes /\ handler[w] = "copy" /\ rowAt[w] >= AggEnd(w)
        /\ pc' = [pc EXCEPT ![w] = "done"]
        /\ responseReceived' = responseReceived + (AggEnd(w) - AggStart(w))
        /\ cpc' = IF responseReceived' = ClientRows /\ cpc = "asleep" THEN "woken" ELSE cpc
        /\ handler' = [handler EXCEPT ![w] = "none"]
    BY DEF CountRows, Typed
  <1>1. pc[w] = "responding" /\ rowAt[w] = AggEnd(w)
    <2>1. pc[w] = "responding" /\ rowAt[w] \in AggStart(w) .. AggEnd(w)
      BY <1>0 DEF Handling
    <2>2. AggStart(w) \in Nat /\ AggEnd(w) \in Nat
      BY <1>0, SliceFacts
    <2> QED BY <1>0, <2>1, <2>2
  <1>2. Typed' /\ Sending' /\ InFlight' /\ Sums' /\ Counting' /\ Handling' /\ Overlaps'
    <2>1. finalResult' = [row \in 0 .. ClientRows - 1 |-> finalResult'[row]]
      BY <1>0 DEF Typed
    <2> QED BY <1>0, <1>1, <2>1, CountStep
  <1>3. /\ Workers' = Workers /\ Rows' = Rows /\ Groups' = Groups /\ PerGroup' = PerGroup
        /\ program' = program
        /\ \A v: AggStart(v)' = AggStart(v) /\ AggEnd(v)' = AggEnd(v)
        /\ \A g, row: WholeRow(g, row)' = WholeRow(g, row)
    BY <1>0, Same DEF setup
  <1>4. \A v \in Workers: Stored(v)' = Stored(v)
    BY <1>0, <1>1, <1>3 DEF Stored, Typed
  <1>5. \A v \in Workers: handler'[v] = "decrypt" => handler[v] = "decrypt"
    BY <1>0 DEF Typed
  <1>6. Storing'
    BY <1>0, <1>3, <1>4, <1>5 DEF Storing, IsWhole
  <1> QED BY <1>2, <1>6

\* Main goes on: for a signal, by itself, or to its report.
LEMMA ClientMainInv ==
  ASSUME IInv, ClientReport \/ ClientSpurious
  PROVE  IInv'
  <1> USE DEF IInv
  <1>0. /\ UNCHANGED setup /\ UNCHANGED <<pc, sendTo, itr, aggregationCount, aggregation, partial>>
        /\ UNCHANGED <<finalResult, responseReceived, handler, rowAt, tempCt, racing, raced>>
        /\ cpc' \in {"woken", "done"} /\ clientEarly' \in BOOLEAN
        /\ ~clientEarly' => responseReceived = ClientRows
    BY DEF ClientReport, ClientSpurious, workerVars, splitVars, Counting, Typed
  <1>1. /\ Workers' = Workers /\ SumsTyped' /\ Rows' = Rows /\ Groups' = Groups /\ PerGroup' = PerGroup
        /\ \A v: AggStart(v)' = AggStart(v) /\ AggEnd(v)' = AggEnd(v)
        /\ \A g, row: WholeRow(g, row)' = WholeRow(g, row)
    BY <1>0, Same, SumsTypedKept DEF Typed
  <1>2. Typed'
    BY <1>0, <1>1 DEF Typed, setup
  <1>3. Sending' /\ InFlight' /\ Sums'
    BY <1>0, ExchangeKept
  <1>4. Counting'
    <2>1. Answered' = Answered
      BY <1>0, Same DEF Answered
    <2> QED BY <1>0, <2>1 DEF Counting
  <1>5. Handling' /\ Overlaps'
    BY <1>0, <1>1 DEF Handling, Overlaps, setup
  <1>6. \A v \in Workers: Stored(v)' = Stored(v)
    BY <1>0, <1>1 DEF Stored
  <1>7. Storing'
    BY <1>0, <1>1, <1>6 DEF Storing, IsWhole, setup
  <1> QED BY <1>2, <1>3, <1>4, <1>5, <1>7

LEMMA StepInv ==
  ASSUME IInv, [Next]_vars
  PROVE  IInv'
  <1>1. CASE Next
    <2>1. CASE \E w \in AllWorkers: WorkerMain(w)
      <3>1. PICK w \in Workers: WorkerMain(w)
        BY <2>1 DEF WorkerMain
      <3> QED BY <3>1, MultiplyInv, SendPartialInv, AddOwnInv, AwaitOthersInv DEF WorkerMain
    <2>2. CASE \E w \in AllWorkers: WorkerServer(w)
      BY <2>2, ReceivePartialInv DEF WorkerServer
    <2>3. CASE \E w \in AllWorkers: ClientServer(w)
      <3>1. PICK w \in Workers: ClientServer(w)
        BY <2>3 DEF ClientServer
      <3> QED BY <3>1, ReceiveResponseInv, BeginResponseInv, CopyBeginInv, CopyEndInv,
                  DecryptRowInv, CountRowsInv
               DEF ClientServer
    <2>4. CASE ClientReport \/ ClientSpurious
      BY <2>4, ClientMainInv
    <2>5. CASE \E w \in AllWorkers: AwaitSpurious(w)
      <3>1. PICK w \in Workers: AwaitSpurious(w)
        BY <2>5 DEF AwaitSpurious
      <3> QED BY <3>1, AwaitOthersInv
    <2> QED BY <1>1, <2>1, <2>2, <2>3, <2>4, <2>5 DEF Next
  <1>2. CASE UNCHANGED vars
    <2>1. /\ UNCHANGED <<pc, sendTo, itr, aggregationCount, aggregation, partial>>
          /\ UNCHANGED setup /\ UNCHANGED clientVars /\ UNCHANGED <<cpc, finalResult, responseReceived>>
          /\ UNCHANGED <<clientEarly, handler, rowAt, tempCt, racing, raced>>
      BY <1>2 DEF vars, workerVars, clientVars, splitVars
    <2>2. Workers' = Workers /\ SumsTyped'
      BY <2>1, Same, SumsTypedKept DEF IInv, Typed
    <2>3. Typed'
      BY <2>1, <2>2 DEF IInv, Typed, setup
    <2>4. Sending' /\ InFlight' /\ Sums'
      BY <2>1, ExchangeKept
    <2>5. Counting' /\ Handling' /\ Overlaps' /\ Storing'
      BY <2>1, ClientKept
    <2> QED BY <2>3, <2>4, <2>5 DEF IInv
  <1> QED BY <1>1, <1>2

\* IInv, from which the properties follow, holds in every state of every exchange.
THEOREM Invariance == Spec => []IInv
  <1>1. Init => IInv
    BY InitInv
  <1>2. IInv /\ [Next]_vars => IInv'
    BY StepInv
  <1> QED BY <1>1, <1>2, PTL DEF Spec

-----------------------------------------------------------------------------
(* What the invariant says *)

\* Every variable of the workers and of the client holds a value that the programs can
\* give it: no counter runs past the size of its group or past the rows.
THEOREM TypeCorrect == Spec => []TypeOK
  <1> SUFFICES ASSUME IInv PROVE TypeOK
    BY Invariance, PTL
  <1> USE DEF IInv
  <1>1. /\ shape \in Shapes /\ Rows \in Nat /\ Rows <= ClientRows /\ ClientRows \in Nat
        /\ PerGroup \in Nat \ {0} /\ NumGroup * PerGroup \in Nat
    BY Sizes DEF Typed
  <1>2. pc \in [Workers -> {"multiply", "send", "add", "wait", "asleep", "respond", "responding", "done"}]
    BY DEF Typed, Answering
  <1>3. sendTo \in [Workers -> 0 .. NumGroup * PerGroup]
    <2>1. \A w \in Workers: sendTo[w] \in 0 .. NumGroup * PerGroup
      <3> SUFFICES ASSUME NEW w \in Workers PROVE sendTo[w] \in 0 .. NumGroup * PerGroup
        OBVIOUS
      <3>1. sendTo[w] <= GroupEnd(w) /\ GroupEnd(w) <= NumGroup * PerGroup /\ GroupStart(w) \in Nat
            /\ GroupEnd(w) = GroupStart(w) + PerGroup /\ sendTo[w] \in Nat
        BY <1>1, GroupFacts DEF Sending, Typed
      <3> QED BY <1>1, <3>1
    <2> QED BY <2>1 DEF Typed
  <1>4. itr \in [Workers -> 0 .. Rows] /\ rowAt \in [Workers -> 0 .. ClientRows]
    <2>1. \A w \in Workers: itr[w] \in 0 .. Rows /\ rowAt[w] \in 0 .. ClientRows
      BY <1>1 DEF Typed, Sending, Handling
    <2> QED BY <2>1 DEF Typed
  <1>5. aggregationCount \in [Workers -> 0 .. PerGroup]
    <2>1. \A w \in Workers: aggregationCount[w] \in 0 .. PerGroup
      BY <1>1, CountedFinite DEF Sums
    <2> QED BY <2>1 DEF Typed
  <1>6. partial \subseteq Message
    <2> SUFFICES ASSUME NEW m \in partial PROVE m \in Message
      OBVIOUS
    <2>1. /\ m = [from |-> m.from, to |-> m.to, first |-> AggStart(m.to), end |-> AggEnd(m.to)]
          /\ m.to \in Workers /\ m.from \in Workers
      BY <1>1, GroupFacts DEF InFlight
    <2>2. AggStart(m.to) \in 0 .. Rows /\ AggEnd(m.to) \in 0 .. Rows
      <3>1. /\ AggStart(m.to) \in Nat /\ AggEnd(m.to) \in Nat
            /\ AggStart(m.to) <= AggEnd(m.to) /\ AggEnd(m.to) <= Rows
        BY <1>1, <2>1, SliceFacts
      <3> QED BY <1>1, <3>1
    <2> QED BY <2>1, <2>2 DEF Message
  <1>7. responseReceived \in 0 .. ClientRows
    BY <1>1, AnsweredFinite DEF Counting
  <1> QED BY <1>2, <1>3, <1>4, <1>5, <1>6, <1>7 DEF Typed, TypeOK, HandlerSteps

\* Every slice in flight holds exactly the rows its receiver sums, however the rows of a
\* group divide among its workers: the asserts of sendPartialResult never fail.
THEOREM SlicesAlwaysFit == Spec => []SlicesFit
  <1> SUFFICES ASSUME IInv PROVE SlicesFit
    BY Invariance, PTL
  <1> QED BY DEF IInv, InFlight, SlicesFit

\* A sum counts and holds each worker's product once, in whichever order they arrive, and
\* what a worker answers is the sum over the whole group.
THEOREM SumsAlwaysRight == Spec => []SumsRight
  <1> SUFFICES ASSUME IInv PROVE SumsRight
    BY Invariance, PTL
  <1> USE DEF IInv
  <1>0. shape \in Shapes
    BY DEF Typed
  <1>1. SumsAreSums
    <2> SUFFICES ASSUME NEW w \in Workers, aggregationCount[w] > 0, NEW row \in AggRows(w)
                 PROVE  /\ aggregation[w][row] = {<<v, row>> : v \in Contributors(w)}
                        /\ Cardinality(Contributors(w)) = aggregationCount[w]
      BY DEF SumsAreSums
    <2>1. /\ \A r \in AggRows(w): aggregation[w][r] = {<<v, r>> : v \in Counted(w)}
          /\ aggregationCount[w] = Cardinality(Counted(w))
      BY DEF Sums
    <2>2. Counted(w) \subseteq Workers
      BY <1>0, GroupFacts DEF Counted
    <2>3. Contributors(w) = Counted(w)
      <3>1. \A v, r: r \in AggRows(w) => (<<v, r>> \in aggregation[w][r] <=> v \in Counted(w))
        BY <2>1
      <3> QED BY <2>2, <3>1 DEF Contributors
    <2> QED BY <2>1, <2>3
  <1>2. ResponseWhole
    BY WholeSum DEF ResponseWhole, Answering
  <1> QED BY <1>1, <1>2 DEF SumsRight

\* The client, of either program, reports only when all workers that have rows have been
\* answered, unless its wait has returned by itself, and then holds the sum over one group
\* in each row, but for those whose copy or decryption in split another has overlapped: for
\* every number of groups, of workers and of rows, and whichever order the responses come in.
THEOREM ReportAlwaysWhole == Spec => []ReportWhole
  <1> SUFFICES ASSUME IInv, cpc = "done", ~clientEarly PROVE ReportWhole
    BY Invariance, PTL DEF ReportWhole
  <1> USE DEF IInv
  <1>0. /\ shape \in Shapes /\ Rows \in Nat /\ NumGroup \in Nat \ {0} /\ ClientRows \in Nat
    BY Sizes DEF Typed
  <1>1. Answered = Groups \X (0 .. Rows - 1)
    BY <1>0, AnsweredFinite DEF Counting
  <1>2. ASSUME NEW w \in Workers, NEW row \in AggRows(w)
        PROVE  pc[w] = "done" /\ handler[w] = "none"
    <2>1. w \div PerGroup \in Groups /\ row \in 0 .. Rows - 1
      <3>1. AggStart(w) \in Nat /\ AggEnd(w) \in Nat /\ AggEnd(w) <= Rows
        BY <1>0, SliceFacts
      <3> QED BY <1>0, <3>1, GroupFacts DEF AggRows
    <2>2. <<w \div PerGroup, row>> \in Answered
      BY <1>1, <2>1
    <2>3. PICK v \in Workers: pc[v] = "done" /\ v \div PerGroup = w \div PerGroup /\ row \in AggRows(v)
      BY <2>2 DEF Answered
    <2>4. v = w
      BY <1>0, <2>3, RowsApart
    <2>5. handler[w] = "none"
      BY <2>3, <2>4 DEF Handling
    <2> QED BY <2>3, <2>4, <2>5
  <1>3. ASSUME NEW row \in 0 .. Rows - 1, row \notin raced
        PROVE  \E g \in Groups: finalResult[row] = WholeRow(g, row)
    <2>1. 0 \in Groups
      BY <1>0 DEF Groups
    <2>2. <<0, row>> \in Answered
      BY <1>1, <2>1
    <2>3. PICK w \in Workers: pc[w] = "done" /\ row \in AggRows(w)
      BY <2>2 DEF Answered
    <2>4. Stored(w) = AggEnd(w)
      BY <2>3 DEF Stored
    <2> QED BY <1>3, <2>3, <2>4 DEF Storing, AggRows, IsWhole
  <1>4. \A w \in Workers: AggRows(w) # {} => pc[w] = "done" /\ handler[w] = "none"
    BY <1>2
  <1> QED BY <1>3, <1>4 DEF Storing, ReportWhole

-----------------------------------------------------------------------------
(* The session *)

\* What SessionTypeOK says, but for the range of the warm-up count.
SessionTyped ==
  /\ shape \in Shapes /\ program \in Programs
  /\ client \in {"round1", "reset", "dummy", "calling", "round2", "sent"}
  /\ toMaster \in {"none", "dummy", "first", "answered", "query", "storing", "stored", "broadcast"}
  /\ master \in {"running", "asleep", "woken", "join", "done", "crashed"}
  /\ masterQuery \in Vector /\ masterEarly \in BOOLEAN
  /\ sender \in [Workers -> {"none", "call", "called", "asleep", "woken", "sending", "storing",
                             "stored", "sent"}]
  /\ main \in [Workers -> {"warmup1", "await", "warmup2", "running", "asleep", "woken", "loaded",
                           "crashed1", "crashed2"}]
  /\ carries \in [Workers -> Vector] /\ query \in [Workers -> Vector]
  /\ used \in [Workers -> Vector] /\ early \subseteq Workers

\* How far the client is, and its calls of the master.
ClientPhase ==
  /\ client \in {"round1", "reset", "dummy"} => toMaster = "none"
  /\ client = "calling" => toMaster \in {"dummy", "first", "answered"}
  /\ client = "round2" => toMaster = "answered"
  /\ client = "sent" => toMaster \in {"query", "storing", "stored", "broadcast"}

\* How far the master is, and what its vector is: it does not wait any more, or dies, before
\* the dummy is there only if its wait, or a sender's or worker's, returned by itself.
MasterPhase ==
  /\ toMaster \in {"none", "dummy"} => masterQuery = "none"
  /\ toMaster = "first" => masterQuery = "torn"
  /\ toMaster \in {"answered", "query"} => masterQuery = "dummy"
  /\ toMaster = "storing" => masterQuery = "mixed"
  /\ toMaster \in {"stored", "broadcast"} => masterQuery = "query"
  /\ masterEarly => master \notin {"running", "asleep"}
  /\ toMaster \in {"none", "dummy", "first"} => masterEarly \/ master \in {"running", "asleep"}
  /\ master = "crashed" => masterEarly \/ early # {}

\* A sender thread and what it sends, which is the query unless somebody was early.
SenderPhase(w) ==
  /\ master \in {"running", "asleep", "woken"} => sender[w] = "none"
  /\ sender[w] \in {"none", "call"} <=> query[w] = "none"
  /\ sender[w] \in {"called", "asleep", "woken", "sending"} =>
       query[w] = "dummy" \/ (query[w] \in {"empty", "torn"} /\ masterEarly)
  /\ sender[w] \in {"woken", "sending", "storing", "stored", "sent"} =>
       toMaster \in {"stored", "broadcast"} \/ w \in early
  /\ sender[w] \in {"sending", "storing", "stored", "sent"} =>
       /\ toMaster \notin {"none", "dummy"} /\ carries[w] \notin {"none", "empty"}
       /\ carries[w] \in {"query", "mixed"} => toMaster \in {"storing", "stored", "broadcast"}
       /\ carries[w] = "query" \/ w \in early
  /\ sender[w] = "storing" =>
       query[w] = IF carries[w] \in {"query", "mixed"} THEN "mixed" ELSE "torn"
  /\ sender[w] \in {"stored", "sent"} => query[w] = carries[w]

\* A worker and what it has been sent.
WorkerPhase(w) ==
  /\ query[w] \notin {"none", "empty"} => toMaster \notin {"none", "dummy"}
  /\ query[w] \in {"query", "mixed"} => toMaster \in {"storing", "stored", "broadcast"}
  /\ main[w] \notin {"warmup1", "await"} => query[w] # "none"
  /\ main[w] \notin {"warmup1", "await", "crashed1"} => query[w] # "empty"
  /\ main[w] = "woken" =>
       (query[w] = "query" /\ sender[w] \in {"stored", "sent"}) \/ w \in early
  /\ main[w] = "loaded" => /\ toMaster \in {"storing", "stored", "broadcast"}
                           /\ used[w] = "query" \/ w \in early
  /\ Crashed(w) => masterEarly \/ w \in early

\* The workers whose report of a round the client has counted.
Reported(round) ==
  {w \in Workers: main[w] \notin IF round = 1 THEN {"warmup1"}
                                 ELSE {"warmup1", "await", "warmup2", "crashed1"}}

\* What warmup_count counts: the first round until it is reset, the second one after.
WarmupPhase ==
  /\ client = "round1" => warmupCount = Cardinality(Reported(1))
  /\ client = "reset" => warmupCount = NumWorker
  /\ client # "round1" => Reported(1) = Workers
  /\ client \in {"dummy", "calling", "round2", "sent"} => warmupCount = Cardinality(Reported(2))
  /\ client = "sent" => Reported(2) = Workers

SessionInv ==
  /\ SessionTyped /\ ClientPhase /\ MasterPhase
  /\ \A w \in Workers: SenderPhase(w) /\ WorkerPhase(w)
  /\ WarmupPhase

-----------------------------------------------------------------------------
\* The client waits for as many workers as there are.
LEMMA AllOfThem ==
  ASSUME shape \in Shapes
  PROVE  /\ IsFiniteSet(Workers) /\ Cardinality(Workers) = NumWorker /\ NumWorker \in Nat
         /\ PerGroup \in Nat \ {0} /\ QueryCt \in Nat
  <1>1. /\ NumGroup \in Nat \ {0} /\ PerGroup \in Nat \ {0} /\ NumGroup * PerGroup \in Nat
        /\ Scale \in Nat \ {0}
    BY Sizes, ScaleAssumption
  <1>2. QueryCt \in Nat /\ QueryCt \div Scale = PerGroup
    <2>1. QueryCt \in Nat /\ QueryCt = Scale * PerGroup
      BY <1>1, Products DEF QueryCt
    <2> DEFINE q == QueryCt \div Scale
               r == QueryCt % Scale
    <2>2. q \in Nat /\ r \in 0 .. Scale - 1 /\ QueryCt = Scale * q + r
      BY <1>1, <2>1, DivMod
    <2>3. ~(q < PerGroup)
      <3> SUFFICES ASSUME q < PerGroup PROVE FALSE
        OBVIOUS
      <3>1. PICK d \in Nat: PerGroup = (q + 1) + d
        <4>1. PerGroup - (q + 1) \in Nat /\ PerGroup = (q + 1) + (PerGroup - (q + 1))
          BY <1>1, <2>2
        <4> QED BY <4>1
      <3>2. PerGroup * Scale = (q + 1) * Scale + d * Scale /\ d * Scale \in Nat
        BY <1>1, <2>2, <3>1, Products
      <3>3. (q + 1) * Scale = q * Scale + 1 * Scale /\ 1 * Scale = Scale /\ q * Scale = Scale * q
            /\ PerGroup * Scale = Scale * PerGroup /\ q * Scale \in Nat
        BY <1>1, <2>2, Products
      <3> HIDE DEF q, r
      <3> QED BY <1>1, <2>1, <2>2, <3>2, <3>3
    <2>4. ~(PerGroup < q)
      <3> SUFFICES ASSUME PerGroup < q PROVE FALSE
        OBVIOUS
      <3>1. PICK d \in Nat: q = (PerGroup + 1) + d
        <4>1. q - (PerGroup + 1) \in Nat /\ q = (PerGroup + 1) + (q - (PerGroup + 1))
          BY <1>1, <2>2
        <4> QED BY <4>1
      <3>2. q * Scale = (PerGroup + 1) * Scale + d * Scale /\ d * Scale \in Nat
        BY <1>1, <2>2, <3>1, Products
      <3>3. (PerGroup + 1) * Scale = PerGroup * Scale + 1 * Scale /\ 1 * Scale = Scale
            /\ PerGroup * Scale = Scale * PerGroup /\ q * Scale = Scale * q /\ PerGroup * Scale \in Nat
        BY <1>1, <2>2, Products
      <3> HIDE DEF q, r
      <3> QED BY <1>1, <2>1, <2>2, <3>2, <3>3
    <2>5. q = PerGroup
      <3> HIDE DEF q, r
      <3> QED BY <1>1, <2>2, <2>3, <2>4
    <2> QED BY <2>1, <2>5
  <1>3. NumWorker = PerGroup * NumGroup /\ NumWorker = NumGroup * PerGroup /\ NumWorker \in Nat
    BY <1>1, <1>2, Products DEF NumWorker
  <1>4. IsFiniteSet(Workers) /\ Cardinality(Workers) = NumGroup * PerGroup
    <2> DEFINE n == NumGroup * PerGroup
    <2>1. n \in Nat
      BY <1>1
    <2> HIDE DEF n
    <2>2. IsFiniteSet(0 .. n - 1) /\ Cardinality(0 .. n - 1) = n
      BY <2>1, FS_Interval
    <2> QED BY <2>2 DEF Workers, n
  <1> QED BY <1>1, <1>2, <1>3, <1>4

\* A set of workers has at most as many as there are, and as many only if it is all of
\* them; with one more its size is one more.
LEMMA SomeOfThem ==
  ASSUME shape \in Shapes, NEW S \in SUBSET Workers
  PROVE  /\ IsFiniteSet(S) /\ Cardinality(S) \in 0 .. NumWorker
         /\ Cardinality(S) >= NumWorker => S = Workers
         /\ \A w \in Workers \ S: Cardinality(S \cup {w}) = Cardinality(S) + 1
  <1>1. IsFiniteSet(Workers) /\ Cardinality(Workers) = NumWorker /\ NumWorker \in Nat
    BY AllOfThem
  <1>2. /\ IsFiniteSet(S) /\ Cardinality(S) \in Nat /\ Cardinality(S) <= Cardinality(Workers)
        /\ Cardinality(S) = Cardinality(Workers) => S = Workers
    BY <1>1, FS_Subset, FS_CardinalityType
  <1>3. \A w \in Workers \ S: Cardinality(S \cup {w}) = Cardinality(S) + 1
    BY <1>2, FS_AddElement
  <1> QED BY <1>1, <1>2, <1>3

\* Where the columns of a worker lie, that those of two workers of a group are apart and
\* that those of a group are the whole query.
LEMMA ColumnFacts ==
  ASSUME shape \in Shapes, NEW w \in Workers
  PROVE  /\ Columns(w) \subseteq 0 .. QueryCt - 1
         /\ \A v \in Group(w): v # w => Columns(v) \cap Columns(w) = {}
         /\ UNION {Columns(v) : v \in Group(w)} = 0 .. QueryCt - 1
  <1>1. /\ PerGroup \in Nat \ {0} /\ Scale \in Nat \ {0} /\ QueryCt \in Nat
        /\ QueryCt = PerGroup * Scale
    BY AllOfThem, ScaleAssumption DEF QueryCt
  <1>2. ASSUME NEW v \in Workers
        PROVE  v % PerGroup \in 0 .. PerGroup - 1 /\ (v % PerGroup) * Scale \in Nat
    BY <1>1, GroupFacts, Products
  <1>3. ASSUME NEW a \in Nat, NEW b \in Nat, a < b
        PROVE  a * Scale + Scale <= b * Scale /\ a * Scale \in Nat /\ b * Scale \in Nat
    <2>1. PICK d \in Nat: b = (a + 1) + d
      <3>1. b - (a + 1) \in Nat /\ b = (a + 1) + (b - (a + 1))
        BY <1>3
      <3> QED BY <3>1
    <2>2. b * Scale = (a + 1) * Scale + d * Scale /\ d * Scale \in Nat
      BY <1>1, <2>1, Products
    <2>3. (a + 1) * Scale = a * Scale + 1 * Scale /\ 1 * Scale = Scale
          /\ a * Scale \in Nat /\ b * Scale \in Nat
      BY <1>1, Products
    <2> QED BY <1>1, <2>2, <2>3
  <1>4. ASSUME NEW v \in Workers, NEW c
        PROVE  c \in Columns(v) <=> /\ c \in Nat /\ (v % PerGroup) * Scale <= c
                                    /\ c < (v % PerGroup) * Scale + Scale
    <2> DEFINE s == (v % PerGroup) * Scale
    <2>1. s \in Nat
      BY <1>2
    <2>2. Columns(v) = s .. s + Scale - 1
      BY DEF Columns
    <2> HIDE DEF s
    <2>3. c \in s .. s + Scale - 1 <=> c \in Nat /\ s <= c /\ c < s + Scale
      BY <1>1, <2>1
    <2> QED BY <2>2, <2>3 DEF s
  <1>5. ASSUME NEW v \in Workers
        PROVE  Columns(v) \subseteq 0 .. QueryCt - 1
    <2>1. (v % PerGroup) * Scale + Scale <= PerGroup * Scale
      BY <1>1, <1>2, <1>3
    <2> QED BY <1>1, <1>2, <1>4, <2>1
  <1>6. ASSUME NEW v \in Group(w), v # w
        PROVE  Columns(v) \cap Columns(w) = {}
    <2>1. v \in Workers /\ v % PerGroup # w % PerGroup
      <3>1. v \in Workers /\ GroupStart(v) = GroupStart(w)
        BY SameGroup
      <3>2. v = GroupStart(v) + (v % PerGroup) /\ w = GroupStart(w) + (w % PerGroup)
        BY <3>1, GroupFacts
      <3> QED BY <1>6, <3>1, <3>2
    <2>2. CASE v % PerGroup < w % PerGroup
      <3>1. (v % PerGroup) * Scale + Scale <= (w % PerGroup) * Scale
        BY <1>1, <1>2, <1>3, <2>1, <2>2
      <3> QED BY <1>1, <1>2, <1>4, <2>1, <3>1
    <2>3. CASE w % PerGroup < v % PerGroup
      <3>1. (w % PerGroup) * Scale + Scale <= (v % PerGroup) * Scale
        BY <1>1, <1>2, <1>3, <2>1, <2>3
      <3> QED BY <1>1, <1>2, <1>4, <2>1, <3>1
    <2>4. v % PerGroup \in Int /\ w % PerGroup \in Int
      BY <1>1, <1>2, <2>1
    <2> QED
      <3> DEFINE a == v % PerGroup
                 b == w % PerGroup
      <3>1. a \in Int /\ b \in Int /\ a # b
        BY <2>1, <2>4
      <3> HIDE DEF a, b
      <3>2. a < b \/ b < a
        BY <3>1
      <3> QED BY <2>2, <2>3, <3>2 DEF a, b
  <1>7. ASSUME NEW c \in 0 .. QueryCt - 1
        PROVE  \E v \in Group(w): c \in Columns(v)
    <2> DEFINE i == c \div Scale
    <2>1. i \in Nat /\ c \in Nat /\ Scale * i <= c /\ c < Scale * i + Scale
      BY <1>1, DivMod
    <2>2. Scale * i = i * Scale /\ i * Scale \in Nat
      BY <1>1, <2>1, Products
    <2> HIDE DEF i
    <2>3. i < PerGroup
      <3> SUFFICES ASSUME ~(i < PerGroup) PROVE FALSE
        OBVIOUS
      <3>1. i = PerGroup \/ PerGroup < i
        BY <1>1, <2>1
      <3>2. PerGroup * Scale <= i * Scale
        BY <1>1, <1>3, <2>1, <2>2, <3>1
      <3> QED BY <1>1, <2>1, <2>2, <3>2
    <2> DEFINE v == GroupStart(w) + i
    <2>4. v \in Group(w)
      <3>1. GroupStart(w) \in Nat /\ GroupEnd(w) = GroupStart(w) + PerGroup
        BY GroupFacts
      <3> QED BY <1>1, <2>1, <2>3, <3>1 DEF Group
    <2>5. v \in Workers /\ GroupStart(v) = GroupStart(w)
      BY <2>4, SameGroup
    <2>6. v % PerGroup = i
      <3>1. v = GroupStart(v) + (v % PerGroup) /\ GroupStart(v) \in Nat
            /\ v % PerGroup \in Nat
        BY <1>1, <1>2, <2>5, GroupFacts
      <3> DEFINE r == v % PerGroup
                 s == GroupStart(w)
      <3>2. v = s + i /\ v = s + r /\ s \in Nat /\ r \in Nat
        BY <2>5, <3>1
      <3> HIDE DEF r, s, v
      <3>3. r = i
        BY <2>1, <3>2
      <3> QED BY <3>3 DEF r
    <2>7. c \in Columns(v)
      BY <1>4, <2>1, <2>2, <2>5, <2>6
    <2> QED BY <2>4, <2>7
  <1>8. \A v \in Group(w): v \in Workers
    BY SameGroup
  <1>9. UNION {Columns(v) : v \in Group(w)} = 0 .. QueryCt - 1
    BY <1>5, <1>7, <1>8
  <1> QED BY <1>5, <1>6, <1>9

-----------------------------------------------------------------------------
(* The invariant holds at first, and each step keeps it. *)

\* The workers and their columns stay.
LEMMA SameShape ==
  ASSUME shape' = shape
  PROVE  /\ Workers' = Workers /\ NumWorker' = NumWorker /\ QueryCt' = QueryCt
         /\ \A w: Columns(w)' = Columns(w)
  BY DEF Workers, NumWorker, QueryCt, NumGroup, PerGroup, Columns

\* The count stays right when neither it nor a report changes.
LEMMA WarmupKept ==
  ASSUME SessionInv, shape' = shape, client' = client, warmupCount' = warmupCount,
         \A w \in Workers:
           \/ main'[w] = main[w]
           \/ {main[w], main'[w]} \cap {"warmup1", "await", "warmup2", "crashed1"} = {}
           \/ {main[w], main'[w]} \subseteq {"await", "warmup2", "crashed1"}
  PROVE  WarmupPhase'
  <1>1. Workers' = Workers /\ NumWorker' = NumWorker
    BY SameShape
  <1>2. Reported(1)' = Reported(1)
    BY <1>1 DEF Reported
  <1>3. Reported(2)' = Reported(2)
    BY <1>1 DEF Reported
  <1> QED BY <1>1, <1>2, <1>3 DEF SessionInv, WarmupPhase

LEMMA SessionInitInv ==
  ASSUME SessionInit
  PROVE  SessionInv
  <1>1. SessionTyped /\ ClientPhase /\ MasterPhase
    BY DEF SessionInit, SessionTyped, ClientPhase, MasterPhase, Vector
  <1>2. \A w \in Workers: SenderPhase(w) /\ WorkerPhase(w)
    BY DEF SessionInit, SenderPhase, WorkerPhase, Crashed
  <1>3. WarmupPhase
    <2>1. Reported(1) = {}
      BY DEF SessionInit, Reported
    <2>2. Cardinality({}) = 0
      BY FS_EmptySet
    <2> QED BY <2>1, <2>2 DEF SessionInit, WarmupPhase
  <1> QED BY <1>1, <1>2, <1>3 DEF SessionInv

\* Once the query is out every worker has made its second report, and has had the first call.
LEMMA AllReported ==
  ASSUME SessionInv, toMaster \in {"query", "storing", "stored", "broadcast"}, NEW w \in Workers
  PROVE  /\ client = "sent" /\ sender[w] \notin {"none", "call"}
         /\ main[w] \notin {"warmup1", "await", "warmup2", "crashed1"}
  <1>1. client = "sent"
    BY DEF SessionInv, SessionTyped, ClientPhase
  <1>2. main[w] \notin {"warmup1", "await", "warmup2", "crashed1"}
    BY <1>1 DEF SessionInv, WarmupPhase, Reported
  <1> QED BY <1>1, <1>2 DEF SessionInv, SenderPhase, WorkerPhase

\* A step of the exchange, or of the wait at its end, leaves the session where it is.
LEMMA ExchangeStep ==
  ASSUME SessionInv, UNCHANGED <<sessionVars, setup>>
  PROVE  SessionInv'
  <1> USE DEF SessionInv
  <1>1. /\ shape' = shape /\ program' = program /\ client' = client
        /\ warmupCount' = warmupCount /\ toMaster' = toMaster /\ master' = master
        /\ masterQuery' = masterQuery /\ masterEarly' = masterEarly /\ sender' = sender
        /\ carries' = carries /\ main' = main /\ query' = query /\ used' = used
        /\ early' = early
    BY DEF sessionVars, setup, clientSide, masterSide, sendSide, workerSide
  <1>2. Workers' = Workers
    BY <1>1, SameShape
  <1>3. SessionTyped' /\ ClientPhase' /\ MasterPhase'
    BY <1>1, <1>2 DEF SessionTyped, ClientPhase, MasterPhase
  <1>4. \A w \in Workers: SenderPhase(w)' /\ WorkerPhase(w)'
    BY <1>1 DEF SenderPhase, WorkerPhase, Crashed
  <1>5. WarmupPhase'
    BY <1>1, WarmupKept
  <1> QED BY <1>2, <1>3, <1>4, <1>5

LEMMA ClientRound1Inv ==
  ASSUME SessionInv, ClientRound1
  PROVE  SessionInv'
  <1> USE DEF SessionInv
  <1>1. /\ shape' = shape /\ program' = program /\ client' = "reset"
        /\ warmupCount' = warmupCount /\ toMaster' = toMaster /\ master' = master
        /\ masterQuery' = masterQuery /\ masterEarly' = masterEarly /\ sender' = sender
        /\ carries' = carries /\ main' = main /\ query' = query /\ used' = used
        /\ early' = early /\ client = "round1" /\ warmupCount >= NumWorker
    BY DEF ClientRound1, vars, sumVars, workerVars, clientVars, setup, clientSide, masterSide,
           sendSide, workerSide
  <1>2. Workers' = Workers /\ NumWorker' = NumWorker
    BY <1>1, SameShape
  <1>3. SessionTyped'
    BY <1>1, <1>2 DEF SessionTyped, Vector
  <1>4. ClientPhase' /\ MasterPhase'
    BY <1>1, <1>2 DEF SessionTyped, ClientPhase, MasterPhase
  <1>5. \A v \in Workers: SenderPhase(v)' /\ WorkerPhase(v)'
    BY <1>1 DEF SessionTyped, ClientPhase, MasterPhase, SenderPhase, WorkerPhase, Crashed
  <1>6. WarmupPhase'
    <2>1. Reported(1) \in SUBSET Workers /\ warmupCount = Cardinality(Reported(1))
      BY <1>1 DEF Reported, WarmupPhase
    <2>2. Reported(1) = Workers /\ warmupCount = NumWorker
      <3>1. /\ Cardinality(Reported(1)) \in 0 .. NumWorker /\ NumWorker \in Nat
            /\ Cardinality(Reported(1)) >= NumWorker => Reported(1) = Workers
        BY <2>1, SomeOfThem, AllOfThem DEF SessionTyped
      <3> QED BY <1>1, <2>1, <3>1
    <2>3. Reported(1)' = Reported(1)
      BY <1>1, <1>2 DEF Reported
    <2> QED BY <1>1, <1>2, <2>2, <2>3 DEF WarmupPhase
  <1> QED BY <1>2, <1>3, <1>4, <1>5, <1>6

LEMMA ClientResetInv ==
  ASSUME SessionInv, ClientReset
  PROVE  SessionInv'
  <1> USE DEF SessionInv
  <1>1. /\ shape' = shape /\ program' = program /\ client' = "dummy"
        /\ warmupCount' = 0 /\ toMaster' = toMaster /\ master' = master
        /\ masterQuery' = masterQuery /\ masterEarly' = masterEarly /\ sender' = sender
        /\ carries' = carries /\ main' = main /\ query' = query /\ used' = used
        /\ early' = early /\ client = "reset"
    BY DEF ClientReset, vars, sumVars, workerVars, clientVars, setup, clientSide, masterSide,
           sendSide, workerSide
  <1>2. Workers' = Workers /\ NumWorker' = NumWorker
    BY <1>1, SameShape
  <1>3. SessionTyped'
    BY <1>1, <1>2 DEF SessionTyped, Vector
  <1>4. ClientPhase' /\ MasterPhase'
    BY <1>1, <1>2 DEF SessionTyped, ClientPhase, MasterPhase
  <1>5. \A v \in Workers: SenderPhase(v)' /\ WorkerPhase(v)'
    BY <1>1 DEF SessionTyped, ClientPhase, MasterPhase, SenderPhase, WorkerPhase, Crashed
  <1>6. WarmupPhase'
    <2>1. Reported(1)' = Workers'
      BY <1>1, <1>2 DEF Reported, WarmupPhase
    <2>2. Reported(2)' = {}
      <3>1. \A w \in Workers: main[w] \in {"warmup1", "await", "crashed1"}
        BY <1>1 DEF ClientPhase, WorkerPhase
      <3> QED BY <1>1, <1>2, <3>1 DEF Reported
    <2>3. Cardinality({}) = 0
      BY FS_EmptySet
    <2> QED BY <1>1, <2>1, <2>2, <2>3 DEF WarmupPhase
  <1> QED BY <1>2, <1>3, <1>4, <1>5, <1>6

LEMMA ClientCallInv ==
  ASSUME SessionInv, ClientCall
  PROVE  SessionInv'
  <1> USE DEF SessionInv
  <1>1. /\ shape' = shape /\ program' = program /\ client' = "calling"
        /\ warmupCount' = warmupCount /\ toMaster' = "dummy" /\ master' = master
        /\ masterQuery' = masterQuery /\ masterEarly' = masterEarly /\ sender' = sender
        /\ carries' = carries /\ main' = main /\ query' = query /\ used' = used
        /\ early' = early /\ client = "dummy"
    BY DEF ClientCall, vars, sumVars, workerVars, clientVars, setup, clientSide, masterSide,
           sendSide, workerSide
  <1>2. Workers' = Workers /\ NumWorker' = NumWorker
    BY <1>1, SameShape
  <1>3. SessionTyped'
    BY <1>1, <1>2 DEF SessionTyped, Vector
  <1>4. ClientPhase' /\ MasterPhase'
    BY <1>1, <1>2 DEF SessionTyped, ClientPhase, MasterPhase
  <1>5. \A v \in Workers: SenderPhase(v)' /\ WorkerPhase(v)'
    BY <1>1 DEF SessionTyped, ClientPhase, MasterPhase, SenderPhase, WorkerPhase, Crashed
  <1>6. WarmupPhase'
    <2>1. Reported(1)' = Reported(1) /\ Reported(2)' = Reported(2)
      BY <1>1, <1>2 DEF Reported
    <2> QED BY <1>1, <1>2, <2>1 DEF WarmupPhase
  <1> QED BY <1>2, <1>3, <1>4, <1>5, <1>6

LEMMA ClientCalledInv ==
  ASSUME SessionInv, ClientCalled
  PROVE  SessionInv'
  <1> USE DEF SessionInv
  <1>1. /\ shape' = shape /\ program' = program /\ client' = "round2"
        /\ warmupCount' = warmupCount /\ toMaster' = toMaster /\ master' = master
        /\ masterQuery' = masterQuery /\ masterEarly' = masterEarly /\ sender' = sender
        /\ carries' = carries /\ main' = main /\ query' = query /\ used' = used
        /\ early' = early /\ client = "calling" /\ toMaster = "answered"
    BY DEF ClientCalled, vars, sumVars, workerVars, clientVars, setup, clientSide, masterSide,
           sendSide, workerSide
  <1>2. Workers' = Workers /\ NumWorker' = NumWorker
    BY <1>1, SameShape
  <1>3. SessionTyped'
    BY <1>1, <1>2 DEF SessionTyped, Vector
  <1>4. ClientPhase' /\ MasterPhase'
    BY <1>1, <1>2 DEF SessionTyped, ClientPhase, MasterPhase
  <1>5. \A v \in Workers: SenderPhase(v)' /\ WorkerPhase(v)'
    BY <1>1 DEF SessionTyped, ClientPhase, MasterPhase, SenderPhase, WorkerPhase, Crashed
  <1>6. WarmupPhase'
    <2>1. Reported(1)' = Reported(1) /\ Reported(2)' = Reported(2)
      BY <1>1, <1>2 DEF Reported
    <2> QED BY <1>1, <1>2, <2>1 DEF WarmupPhase
  <1> QED BY <1>2, <1>3, <1>4, <1>5, <1>6

LEMMA ClientQueryInv ==
  ASSUME SessionInv, ClientQuery
  PROVE  SessionInv'
  <1> USE DEF SessionInv
  <1>1. /\ shape' = shape /\ program' = program /\ client' = "sent"
        /\ warmupCount' = warmupCount /\ toMaster' = "query" /\ master' = master
        /\ masterQuery' = masterQuery /\ masterEarly' = masterEarly /\ sender' = sender
        /\ carries' = carries /\ main' = main /\ query' = query /\ used' = used
        /\ early' = early /\ client = "round2" /\ warmupCount >= NumWorker
    BY DEF ClientQuery, vars, sumVars, workerVars, clientVars, setup, clientSide, masterSide,
           sendSide, workerSide
  <1>2. Workers' = Workers /\ NumWorker' = NumWorker
    BY <1>1, SameShape
  <1>3. SessionTyped'
    BY <1>1, <1>2 DEF SessionTyped, Vector
  <1>4. ClientPhase' /\ MasterPhase'
    BY <1>1, <1>2 DEF SessionTyped, ClientPhase, MasterPhase
  <1>5. \A v \in Workers: SenderPhase(v)' /\ WorkerPhase(v)'
    BY <1>1 DEF SessionTyped, ClientPhase, MasterPhase, SenderPhase, WorkerPhase, Crashed
  <1>6. WarmupPhase'
    <2>1. Reported(1)' = Reported(1) /\ Reported(2)' = Reported(2)
      BY <1>1, <1>2 DEF Reported
    <2>2. Reported(2) \in SUBSET Workers /\ warmupCount = Cardinality(Reported(2))
      BY <1>1 DEF Reported, WarmupPhase
    <2>3. Reported(2) = Workers
      BY <1>1, <2>2, SomeOfThem DEF SessionTyped
    <2> QED BY <1>1, <1>2, <2>1, <2>3 DEF WarmupPhase
  <1> QED BY <1>2, <1>3, <1>4, <1>5, <1>6

LEMMA MasterWaitsInv ==
  ASSUME SessionInv, MasterWaits
  PROVE  SessionInv'
  <1> USE DEF SessionInv
  <1>1. /\ shape' = shape /\ program' = program /\ client' = client
        /\ warmupCount' = warmupCount /\ toMaster' = toMaster /\ master' = "asleep"
        /\ masterQuery' = masterQuery /\ masterEarly' = masterEarly /\ sender' = sender
        /\ carries' = carries /\ main' = main /\ query' = query /\ used' = used
        /\ early' = early /\ master = "running"
    BY DEF MasterWaits, vars, sumVars, workerVars, clientVars, setup, clientSide, masterSide,
           sendSide, workerSide
  <1>2. Workers' = Workers /\ NumWorker' = NumWorker
    BY <1>1, SameShape
  <1>3. SessionTyped'
    BY <1>1, <1>2 DEF SessionTyped, Vector
  <1>4. ClientPhase' /\ MasterPhase'
    BY <1>1, <1>2 DEF SessionTyped, ClientPhase, MasterPhase
  <1>5. \A v \in Workers: SenderPhase(v)' /\ WorkerPhase(v)'
    BY <1>1 DEF SessionTyped, ClientPhase, MasterPhase, SenderPhase, WorkerPhase, Crashed
  <1>6. WarmupPhase'
    BY <1>1, WarmupKept DEF SessionTyped
  <1> QED BY <1>2, <1>3, <1>4, <1>5, <1>6

\* The wait may return early; the wait for the dummy is the only one the master's main has.
LEMMA MasterSpuriousInv ==
  ASSUME SessionInv, MasterSpurious
  PROVE  SessionInv'
  <1> USE DEF SessionInv
  <1>1. /\ shape' = shape /\ program' = program /\ client' = client
        /\ warmupCount' = warmupCount /\ toMaster' = toMaster /\ master' = "woken"
        /\ masterQuery' = masterQuery /\ masterEarly' = (masterQuery = "none")
        /\ sender' = sender /\ carries' = carries /\ main' = main /\ query' = query
        /\ used' = used /\ early' = early /\ master = "asleep" /\ toMaster # "first"
    BY DEF MasterSpurious, vars, sumVars, workerVars, clientVars, setup, clientSide, masterSide,
           sendSide, workerSide
  <1>2. Workers' = Workers /\ NumWorker' = NumWorker
    BY <1>1, SameShape
  <1>3. SessionTyped'
    BY <1>1, <1>2 DEF SessionTyped, Vector
  <1>4. ClientPhase' /\ MasterPhase'
    BY <1>1, <1>2 DEF SessionTyped, ClientPhase, MasterPhase
  <1>5. \A v \in Workers: SenderPhase(v)' /\ WorkerPhase(v)'
    BY <1>1 DEF SessionTyped, ClientPhase, MasterPhase, SenderPhase, WorkerPhase, Crashed
  <1>6. WarmupPhase'
    BY <1>1, WarmupKept DEF SessionTyped
  <1> QED BY <1>2, <1>3, <1>4, <1>5, <1>6

LEMMA MasterStartSendersInv ==
  ASSUME SessionInv, MasterStartSenders
  PROVE  SessionInv'
  <1> USE DEF SessionInv
  <1>1. /\ shape' = shape /\ program' = program /\ client' = client
        /\ warmupCount' = warmupCount /\ toMaster' = toMaster /\ master' = "join"
        /\ masterQuery' = masterQuery /\ masterEarly' = masterEarly
        /\ sender' = [w \in Workers |-> "call"] /\ carries' = carries /\ main' = main
        /\ query' = query /\ used' = used /\ early' = early /\ master = "woken"
    BY DEF MasterStartSenders, vars, sumVars, workerVars, clientVars, setup, clientSide, masterSide,
           sendSide, workerSide
  <1>2. Workers' = Workers /\ NumWorker' = NumWorker
    BY <1>1, SameShape
  <1>3. SessionTyped'
    BY <1>1, <1>2 DEF SessionTyped, Vector
  <1>4. ClientPhase' /\ MasterPhase'
    BY <1>1, <1>2 DEF SessionTyped, ClientPhase, MasterPhase
  <1>5. \A v \in Workers: SenderPhase(v)' /\ WorkerPhase(v)'
    BY <1>1 DEF SessionTyped, ClientPhase, MasterPhase, SenderPhase, WorkerPhase, Crashed
  <1>6. WarmupPhase'
    BY <1>1, WarmupKept DEF SessionTyped
  <1> QED BY <1>2, <1>3, <1>4, <1>5, <1>6

LEMMA MasterJoinInv ==
  ASSUME SessionInv, MasterJoin
  PROVE  SessionInv'
  <1> USE DEF SessionInv
  <1>1. /\ shape' = shape /\ program' = program /\ client' = client
        /\ warmupCount' = warmupCount /\ toMaster' = toMaster /\ master' = "done"
        /\ masterQuery' = masterQuery /\ masterEarly' = masterEarly /\ sender' = sender
        /\ carries' = carries /\ main' = main /\ query' = query /\ used' = used
        /\ early' = early /\ master = "join"
    BY DEF MasterJoin, vars, sumVars, workerVars, clientVars, setup, clientSide, masterSide,
           sendSide, workerSide
  <1>2. Workers' = Workers /\ NumWorker' = NumWorker
    BY <1>1, SameShape
  <1>3. SessionTyped'
    BY <1>1, <1>2 DEF SessionTyped, Vector
  <1>4. ClientPhase' /\ MasterPhase'
    BY <1>1, <1>2 DEF SessionTyped, ClientPhase, MasterPhase
  <1>5. \A v \in Workers: SenderPhase(v)' /\ WorkerPhase(v)'
    BY <1>1 DEF SessionTyped, ClientPhase, MasterPhase, SenderPhase, WorkerPhase, Crashed
  <1>6. WarmupPhase'
    BY <1>1, WarmupKept DEF SessionTyped
  <1> QED BY <1>2, <1>3, <1>4, <1>5, <1>6

LEMMA MasterFirstBeginInv ==
  ASSUME SessionInv, MasterFirstBegin
  PROVE  SessionInv'
  <1> USE DEF SessionInv
  <1>1. /\ shape' = shape /\ program' = program /\ client' = client
        /\ warmupCount' = warmupCount /\ toMaster' = "first" /\ master' = master
        /\ masterQuery' = "torn" /\ masterEarly' = masterEarly /\ sender' = sender
        /\ carries' = carries /\ main' = main /\ query' = query /\ used' = used
        /\ early' = early /\ toMaster = "dummy"
    BY DEF MasterFirstBegin, vars, sumVars, workerVars, clientVars, setup, clientSide, masterSide,
           sendSide, workerSide
  <1>2. Workers' = Workers /\ NumWorker' = NumWorker
    BY <1>1, SameShape
  <1>3. SessionTyped'
    BY <1>1, <1>2 DEF SessionTyped, Vector
  <1>4. ClientPhase' /\ MasterPhase'
    BY <1>1, <1>2 DEF SessionTyped, ClientPhase, MasterPhase
  <1>5. \A v \in Workers: SenderPhase(v)' /\ WorkerPhase(v)'
    BY <1>1 DEF SessionTyped, ClientPhase, MasterPhase, SenderPhase, WorkerPhase, Crashed
  <1>6. WarmupPhase'
    BY <1>1, WarmupKept DEF SessionTyped
  <1> QED BY <1>2, <1>3, <1>4, <1>5, <1>6

LEMMA MasterFirstEndInv ==
  ASSUME SessionInv, MasterFirstEnd
  PROVE  SessionInv'
  <1> USE DEF SessionInv
  <1>1. /\ shape' = shape /\ program' = program /\ client' = client
        /\ warmupCount' = warmupCount /\ toMaster' = "answered"
        /\ master' = IF master = "asleep" THEN "woken" ELSE master
        /\ masterQuery' = "dummy" /\ masterEarly' = masterEarly /\ sender' = sender
        /\ carries' = carries /\ main' = main /\ query' = query /\ used' = used
        /\ early' = early /\ toMaster = "first"
    BY DEF MasterFirstEnd, vars, sumVars, workerVars, clientVars, setup, clientSide, masterSide,
           sendSide, workerSide
  <1>2. Workers' = Workers /\ NumWorker' = NumWorker
    BY <1>1, SameShape
  <1>3. SessionTyped'
    BY <1>1, <1>2 DEF SessionTyped, Vector
  <1>4. ClientPhase' /\ MasterPhase'
    BY <1>1, <1>2 DEF SessionTyped, ClientPhase, MasterPhase
  <1>5. \A v \in Workers: SenderPhase(v)' /\ WorkerPhase(v)'
    BY <1>1 DEF SessionTyped, ClientPhase, MasterPhase, SenderPhase, WorkerPhase, Crashed
  <1>6. WarmupPhase'
    BY <1>1, WarmupKept DEF SessionTyped
  <1> QED BY <1>2, <1>3, <1>4, <1>5, <1>6

LEMMA MasterStoreBeginInv ==
  ASSUME SessionInv, MasterStoreBegin
  PROVE  SessionInv'
  <1> USE DEF SessionInv
  <1>1. /\ shape' = shape /\ program' = program /\ client' = client
        /\ warmupCount' = warmupCount /\ toMaster' = "storing" /\ master' = master
        /\ masterQuery' = "mixed" /\ masterEarly' = masterEarly /\ sender' = sender
        /\ carries' = carries /\ main' = main /\ query' = query /\ used' = used
        /\ early' = early /\ toMaster = "query"
    BY DEF MasterStoreBegin, vars, sumVars, workerVars, clientVars, setup, clientSide, masterSide,
           sendSide, workerSide
  <1>2. Workers' = Workers /\ NumWorker' = NumWorker
    BY <1>1, SameShape
  <1>3. SessionTyped'
    BY <1>1, <1>2 DEF SessionTyped, Vector
  <1>4. ClientPhase' /\ MasterPhase'
    BY <1>1, <1>2 DEF SessionTyped, ClientPhase, MasterPhase
  <1>5. \A v \in Workers: SenderPhase(v)' /\ WorkerPhase(v)'
    BY <1>1 DEF SessionTyped, ClientPhase, MasterPhase, SenderPhase, WorkerPhase, Crashed
  <1>6. WarmupPhase'
    BY <1>1, WarmupKept DEF SessionTyped
  <1> QED BY <1>2, <1>3, <1>4, <1>5, <1>6

LEMMA MasterStoreEndInv ==
  ASSUME SessionInv, MasterStoreEnd
  PROVE  SessionInv'
  <1> USE DEF SessionInv
  <1>1. /\ shape' = shape /\ program' = program /\ client' = client
        /\ warmupCount' = warmupCount /\ toMaster' = "stored" /\ master' = master
        /\ masterQuery' = "query" /\ masterEarly' = masterEarly /\ sender' = sender
        /\ carries' = carries /\ main' = main /\ query' = query /\ used' = used
        /\ early' = early /\ toMaster = "storing"
    BY DEF MasterStoreEnd, vars, sumVars, workerVars, clientVars, setup, clientSide, masterSide,
           sendSide, workerSide
  <1>2. Workers' = Workers /\ NumWorker' = NumWorker
    BY <1>1, SameShape
  <1>3. SessionTyped'
    BY <1>1, <1>2 DEF SessionTyped, Vector
  <1>4. ClientPhase' /\ MasterPhase'
    BY <1>1, <1>2 DEF SessionTyped, ClientPhase, MasterPhase
  <1>5. \A v \in Workers: SenderPhase(v)' /\ WorkerPhase(v)'
    BY <1>1 DEF SessionTyped, ClientPhase, MasterPhase, SenderPhase, WorkerPhase, Crashed
  <1>6. WarmupPhase'
    BY <1>1, WarmupKept DEF SessionTyped
  <1> QED BY <1>2, <1>3, <1>4, <1>5, <1>6

LEMMA MasterBroadcastInv ==
  ASSUME SessionInv, MasterBroadcast
  PROVE  SessionInv'
  <1> USE DEF SessionInv
  <1>1. /\ shape' = shape /\ program' = program /\ client' = client
        /\ warmupCount' = warmupCount /\ toMaster' = "broadcast" /\ master' = master
        /\ masterQuery' = masterQuery /\ masterEarly' = masterEarly
        /\ sender' = [w \in Workers |-> IF sender[w] = "asleep" THEN "woken" ELSE sender[w]]
        /\ carries' = carries /\ main' = main /\ query' = query /\ used' = used
        /\ early' = early /\ toMaster = "stored"
    BY DEF MasterBroadcast, vars, sumVars, workerVars, clientVars, setup, clientSide, masterSide,
           sendSide, workerSide
  <1>2. Workers' = Workers /\ NumWorker' = NumWorker
    BY <1>1, SameShape
  <1>3. SessionTyped'
    BY <1>1, <1>2 DEF SessionTyped, Vector
  <1>4. ClientPhase' /\ MasterPhase'
    BY <1>1, <1>2 DEF SessionTyped, ClientPhase, MasterPhase
  <1>5. \A v \in Workers: SenderPhase(v)' /\ WorkerPhase(v)'
    BY <1>1 DEF SessionTyped, ClientPhase, MasterPhase, SenderPhase, WorkerPhase, Crashed
  <1>6. WarmupPhase'
    BY <1>1, WarmupKept DEF SessionTyped
  <1> QED BY <1>2, <1>3, <1>4, <1>5, <1>6

LEMMA SenderWaitsInv ==
  ASSUME SessionInv, NEW w \in Workers, SenderWaits(w)
  PROVE  SessionInv'
  <1> USE DEF SessionInv
  <1>1. /\ shape' = shape /\ program' = program /\ client' = client
        /\ warmupCount' = warmupCount /\ toMaster' = toMaster /\ master' = master
        /\ masterQuery' = masterQuery /\ masterEarly' = masterEarly
        /\ sender' = [sender EXCEPT ![w] = "asleep"] /\ carries' = carries
        /\ main' = main /\ query' = query /\ used' = used /\ early' = early
        /\ sender[w] = "called"
    BY DEF SenderWaits, vars, sumVars, workerVars, clientVars, setup, clientSide, masterSide,
           sendSide, workerSide
  <1>2. Workers' = Workers /\ NumWorker' = NumWorker
    BY <1>1, SameShape
  <1>3. SessionTyped'
    BY <1>1, <1>2 DEF SessionTyped, Vector
  <1>4. ClientPhase' /\ MasterPhase'
    BY <1>1, <1>2 DEF SessionTyped, ClientPhase, MasterPhase
  <1>5. \A v \in Workers: SenderPhase(v)' /\ WorkerPhase(v)'
    <2>1. ASSUME NEW v \in Workers, v # w PROVE SenderPhase(v)' /\ WorkerPhase(v)'
      BY <1>1, <2>1 DEF SessionTyped, ClientPhase, MasterPhase, SenderPhase, WorkerPhase, Crashed
    <2>2. SenderPhase(w)' /\ WorkerPhase(w)'
      BY <1>1 DEF SessionTyped, ClientPhase, MasterPhase, SenderPhase, WorkerPhase, Crashed
    <2> QED BY <2>1, <2>2
  <1>6. WarmupPhase'
    BY <1>1, WarmupKept DEF SessionTyped
  <1> QED BY <1>2, <1>3, <1>4, <1>5, <1>6

LEMMA SenderSpuriousInv ==
  ASSUME SessionInv, NEW w \in Workers, SenderSpurious(w)
  PROVE  SessionInv'
  <1> USE DEF SessionInv
  <1>1. /\ shape' = shape /\ program' = program /\ client' = client
        /\ warmupCount' = warmupCount /\ toMaster' = toMaster /\ master' = master
        /\ masterQuery' = masterQuery /\ masterEarly' = masterEarly
        /\ sender' = [sender EXCEPT ![w] = "woken"] /\ carries' = carries
        /\ main' = main /\ query' = query /\ used' = used
        /\ early' = IF masterQuery = "query" THEN early ELSE early \cup {w}
        /\ sender[w] = "asleep"
    BY DEF SenderSpurious, vars, sumVars, workerVars, clientVars, setup, clientSide, masterSide,
           sendSide, workerSide
  <1>2. Workers' = Workers /\ NumWorker' = NumWorker
    BY <1>1, SameShape
  <1>3. SessionTyped'
    BY <1>1, <1>2 DEF SessionTyped, Vector
  <1>4. ClientPhase' /\ MasterPhase'
    BY <1>1, <1>2 DEF SessionTyped, ClientPhase, MasterPhase
  <1>5. \A v \in Workers: SenderPhase(v)' /\ WorkerPhase(v)'
    <2>1. ASSUME NEW v \in Workers, v # w PROVE SenderPhase(v)' /\ WorkerPhase(v)'
      BY <1>1, <2>1 DEF SessionTyped, ClientPhase, MasterPhase, SenderPhase, WorkerPhase, Crashed
    <2>2. SenderPhase(w)' /\ WorkerPhase(w)'
      BY <1>1 DEF SessionTyped, ClientPhase, MasterPhase, SenderPhase, WorkerPhase, Crashed
    <2> QED BY <2>1, <2>2
  <1>6. WarmupPhase'
    BY <1>1, WarmupKept DEF SessionTyped
  <1> QED BY <1>2, <1>3, <1>4, <1>5, <1>6

LEMMA SenderSendsInv ==
  ASSUME SessionInv, NEW w \in Workers, SenderSends(w)
  PROVE  SessionInv'
  <1> USE DEF SessionInv
  <1>1. /\ shape' = shape /\ program' = program /\ client' = client
        /\ warmupCount' = warmupCount /\ toMaster' = toMaster /\ master' = master
        /\ masterQuery' = masterQuery /\ masterEarly' = masterEarly
        /\ sender' = [sender EXCEPT ![w] = "sending"] /\ main' = main /\ query' = query
        /\ used' = used /\ early' = early /\ sender[w] = "woken"
        /\ masterQuery # "none"
        /\ carries' = [carries EXCEPT ![w] = IF masterQuery = "dummy" /\ Columns(w) # {0} THEN "past"
                                           ELSE masterQuery]
    BY DEF SenderSends, vars, sumVars, workerVars, clientVars, setup, clientSide, masterSide,
           sendSide, workerSide
  <1>2. Workers' = Workers /\ NumWorker' = NumWorker
    BY <1>1, SameShape
  <1>3. SessionTyped'
    BY <1>1, <1>2 DEF SessionTyped, Vector
  <1>4. ClientPhase' /\ MasterPhase'
    BY <1>1, <1>2 DEF SessionTyped, ClientPhase, MasterPhase
  <1>5. \A v \in Workers: SenderPhase(v)' /\ WorkerPhase(v)'
    <2>1. ASSUME NEW v \in Workers, v # w PROVE SenderPhase(v)' /\ WorkerPhase(v)'
      BY <1>1, <2>1 DEF SessionTyped, ClientPhase, MasterPhase, SenderPhase, WorkerPhase, Crashed
    <2>2. SenderPhase(w)' /\ WorkerPhase(w)'
      BY <1>1 DEF SessionTyped, ClientPhase, MasterPhase, SenderPhase, WorkerPhase, Crashed
    <2> QED BY <2>1, <2>2
  <1>6. WarmupPhase'
    BY <1>1, WarmupKept DEF SessionTyped
  <1> QED BY <1>2, <1>3, <1>4, <1>5, <1>6

\* A sender that reads what is not there, or is being assigned, is early, or the master is.
LEMMA SenderCrashInv ==
  ASSUME SessionInv, NEW w \in Workers, SenderCrash(w)
  PROVE  SessionInv'
  <1> USE DEF SessionInv
  <1>1. /\ shape' = shape /\ program' = program /\ client' = client
        /\ warmupCount' = warmupCount /\ toMaster' = toMaster /\ master' = "crashed"
        /\ masterQuery' = masterQuery /\ masterEarly' = masterEarly /\ sender' = sender
        /\ carries' = carries /\ main' = main /\ query' = query /\ used' = used
        /\ early' = early
    BY DEF SenderCrash, vars, sumVars, workerVars, clientVars, setup, clientSide, masterSide,
           sendSide, workerSide
  <1>2. Workers' = Workers /\ NumWorker' = NumWorker
    BY <1>1, SameShape
  <1>3. SessionTyped'
    BY <1>1, <1>2 DEF SessionTyped, Vector
  <1>4. ClientPhase' /\ MasterPhase'
    <2>1. ClientPhase'
      BY <1>1 DEF ClientPhase
    <2>2. masterEarly \/ early # {}
      <3>1. CASE sender[w] = "call" /\ masterQuery \in {"torn", "mixed"}
        <4>1. toMaster \notin {"query", "storing", "stored", "broadcast"}
          BY <3>1, AllReported
        <4>2. toMaster = "first"
          BY <3>1, <4>1 DEF SessionTyped, MasterPhase
        <4>3. master \notin {"running", "asleep"}
          BY <3>1 DEF SenderPhase
        <4> QED BY <4>2, <4>3 DEF MasterPhase
      <3>2. CASE sender[w] = "woken" /\ masterQuery # "query"
        BY <3>2 DEF SenderPhase, MasterPhase
      <3> QED BY <3>1, <3>2 DEF SenderCrash
    <2>3. master \notin {"running", "asleep"}
      BY DEF SenderCrash, SenderPhase
    <2> QED BY <1>1, <2>1, <2>2, <2>3 DEF MasterPhase
  <1>5. \A v \in Workers: SenderPhase(v)' /\ WorkerPhase(v)'
    <2>1. ASSUME NEW v \in Workers, v # w PROVE SenderPhase(v)' /\ WorkerPhase(v)'
      BY <1>1, <2>1 DEF SessionTyped, ClientPhase, MasterPhase, SenderPhase, WorkerPhase, Crashed
    <2>2. SenderPhase(w)' /\ WorkerPhase(w)'
      BY <1>1 DEF SessionTyped, ClientPhase, MasterPhase, SenderPhase, WorkerPhase, Crashed
    <2> QED BY <2>1, <2>2
  <1>6. WarmupPhase'
    BY <1>1, WarmupKept DEF SessionTyped
  <1> QED BY <1>2, <1>3, <1>4, <1>5, <1>6

LEMMA AllocateInv ==
  ASSUME SessionInv, NEW w \in Workers, Allocate(w)
  PROVE  SessionInv'
  <1> USE DEF SessionInv
  <1>1. /\ shape' = shape /\ program' = program /\ client' = client
        /\ warmupCount' = warmupCount /\ toMaster' = toMaster /\ master' = master
        /\ masterQuery' = masterQuery /\ masterEarly' = masterEarly /\ sender' = sender
        /\ carries' = carries /\ main' = [main EXCEPT ![w] = "warmup2"]
        /\ query' = query /\ used' = used /\ early' = early /\ main[w] = "await"
        /\ query[w] \notin {"none", "empty"}
    BY DEF Allocate, vars, sumVars, workerVars, clientVars, setup, clientSide, masterSide,
           sendSide, workerSide
  <1>2. Workers' = Workers /\ NumWorker' = NumWorker
    BY <1>1, SameShape
  <1>3. SessionTyped'
    BY <1>1, <1>2 DEF SessionTyped, Vector
  <1>4. ClientPhase' /\ MasterPhase'
    BY <1>1, <1>2 DEF SessionTyped, ClientPhase, MasterPhase
  <1>5. \A v \in Workers: SenderPhase(v)' /\ WorkerPhase(v)'
    <2>1. ASSUME NEW v \in Workers, v # w PROVE SenderPhase(v)' /\ WorkerPhase(v)'
      BY <1>1, <2>1 DEF SessionTyped, ClientPhase, MasterPhase, SenderPhase, WorkerPhase, Crashed
    <2>2. SenderPhase(w)' /\ WorkerPhase(w)'
      BY <1>1 DEF SessionTyped, ClientPhase, MasterPhase, SenderPhase, WorkerPhase, Crashed
    <2> QED BY <2>1, <2>2
  <1>6. WarmupPhase'
    BY <1>1, WarmupKept DEF SessionTyped
  <1> QED BY <1>2, <1>3, <1>4, <1>5, <1>6

LEMMA WorkerWaitsInv ==
  ASSUME SessionInv, NEW w \in Workers, WorkerWaits(w)
  PROVE  SessionInv'
  <1> USE DEF SessionInv
  <1>1. /\ shape' = shape /\ program' = program /\ client' = client
        /\ warmupCount' = warmupCount /\ toMaster' = toMaster /\ master' = master
        /\ masterQuery' = masterQuery /\ masterEarly' = masterEarly /\ sender' = sender
        /\ carries' = carries /\ main' = [main EXCEPT ![w] = "asleep"]
        /\ query' = query /\ used' = used /\ early' = early /\ main[w] = "running"
    BY DEF WorkerWaits, vars, sumVars, workerVars, clientVars, setup, clientSide, masterSide,
           sendSide, workerSide
  <1>2. Workers' = Workers /\ NumWorker' = NumWorker
    BY <1>1, SameShape
  <1>3. SessionTyped'
    BY <1>1, <1>2 DEF SessionTyped, Vector
  <1>4. ClientPhase' /\ MasterPhase'
    BY <1>1, <1>2 DEF SessionTyped, ClientPhase, MasterPhase
  <1>5. \A v \in Workers: SenderPhase(v)' /\ WorkerPhase(v)'
    <2>1. ASSUME NEW v \in Workers, v # w PROVE SenderPhase(v)' /\ WorkerPhase(v)'
      BY <1>1, <2>1 DEF SessionTyped, ClientPhase, MasterPhase, SenderPhase, WorkerPhase, Crashed
    <2>2. SenderPhase(w)' /\ WorkerPhase(w)'
      BY <1>1 DEF SessionTyped, ClientPhase, MasterPhase, SenderPhase, WorkerPhase, Crashed
    <2> QED BY <2>1, <2>2
  <1>6. WarmupPhase'
    BY <1>1, WarmupKept DEF SessionTyped
  <1> QED BY <1>2, <1>3, <1>4, <1>5, <1>6

LEMMA WorkerSpuriousInv ==
  ASSUME SessionInv, NEW w \in Workers, WorkerSpurious(w)
  PROVE  SessionInv'
  <1> USE DEF SessionInv
  <1>1. /\ shape' = shape /\ program' = program /\ client' = client
        /\ warmupCount' = warmupCount /\ toMaster' = toMaster /\ master' = master
        /\ masterQuery' = masterQuery /\ masterEarly' = masterEarly /\ sender' = sender
        /\ carries' = carries /\ main' = [main EXCEPT ![w] = "woken"] /\ query' = query
        /\ used' = used
        /\ early' = IF query[w] = "query" THEN early ELSE early \cup {w}
        /\ main[w] = "asleep"
    BY DEF WorkerSpurious, vars, sumVars, workerVars, clientVars, setup, clientSide, masterSide,
           sendSide, workerSide
  <1>2. Workers' = Workers /\ NumWorker' = NumWorker
    BY <1>1, SameShape
  <1>3. SessionTyped'
    BY <1>1, <1>2 DEF SessionTyped, Vector
  <1>4. ClientPhase' /\ MasterPhase'
    BY <1>1, <1>2 DEF SessionTyped, ClientPhase, MasterPhase
  <1>5. \A v \in Workers: SenderPhase(v)' /\ WorkerPhase(v)'
    <2>1. ASSUME NEW v \in Workers, v # w PROVE SenderPhase(v)' /\ WorkerPhase(v)'
      BY <1>1, <2>1 DEF SessionTyped, ClientPhase, MasterPhase, SenderPhase, WorkerPhase, Crashed
    <2>2. SenderPhase(w)' /\ WorkerPhase(w)'
      BY <1>1 DEF SessionTyped, ClientPhase, MasterPhase, SenderPhase, WorkerPhase, Crashed
    <2> QED BY <2>1, <2>2
  <1>6. WarmupPhase'
    BY <1>1, WarmupKept DEF SessionTyped
  <1> QED BY <1>2, <1>3, <1>4, <1>5, <1>6

LEMMA LoadAndMultiplyInv ==
  ASSUME SessionInv, NEW w \in Workers, LoadAndMultiply(w)
  PROVE  SessionInv'
  <1> USE DEF SessionInv
  <1>1. /\ shape' = shape /\ program' = program /\ client' = client
        /\ warmupCount' = warmupCount /\ toMaster' = toMaster /\ master' = master
        /\ masterQuery' = masterQuery /\ masterEarly' = masterEarly /\ sender' = sender
        /\ carries' = carries /\ main' = [main EXCEPT ![w] = "loaded"]
        /\ query' = query /\ used' = [used EXCEPT ![w] = query[w]] /\ early' = early
        /\ main[w] = "woken" /\ query[w] \in {"query", "mixed"}
    BY DEF LoadAndMultiply, vars, sumVars, workerVars, clientVars, setup, clientSide, masterSide,
           sendSide, workerSide, Multiply
  <1>2. Workers' = Workers /\ NumWorker' = NumWorker
    BY <1>1, SameShape
  <1>3. SessionTyped'
    BY <1>1, <1>2 DEF SessionTyped, Vector
  <1>4. ClientPhase' /\ MasterPhase'
    BY <1>1, <1>2 DEF SessionTyped, ClientPhase, MasterPhase
  <1>5. \A v \in Workers: SenderPhase(v)' /\ WorkerPhase(v)'
    <2>1. ASSUME NEW v \in Workers, v # w PROVE SenderPhase(v)' /\ WorkerPhase(v)'
      BY <1>1, <2>1 DEF SessionTyped, ClientPhase, MasterPhase, SenderPhase, WorkerPhase, Crashed
    <2>2. SenderPhase(w)' /\ WorkerPhase(w)'
      BY <1>1 DEF SessionTyped, ClientPhase, MasterPhase, SenderPhase, WorkerPhase, Crashed
    <2> QED BY <2>1, <2>2
  <1>6. WarmupPhase'
    BY <1>1, WarmupKept DEF SessionTyped
  <1> QED BY <1>2, <1>3, <1>4, <1>5, <1>6

\* What kills a worker is what it was sent too early, or sent by a master that was.
LEMMA WorkerCrashInv ==
  ASSUME SessionInv, NEW w \in Workers, WorkerCrash(w)
  PROVE  SessionInv'
  <1> USE DEF SessionInv
  <1>1. /\ shape' = shape /\ program' = program /\ client' = client
        /\ warmupCount' = warmupCount /\ toMaster' = toMaster /\ master' = master
        /\ masterQuery' = masterQuery /\ masterEarly' = masterEarly /\ sender' = sender
        /\ carries' = carries
        /\ main' = [main EXCEPT ![w] = IF @ = "await" THEN "crashed1" ELSE "crashed2"]
        /\ query' = query /\ used' = used /\ early' = early
    BY DEF WorkerCrash, vars, sumVars, workerVars, clientVars, setup, clientSide, masterSide,
           sendSide, workerSide
  <1>2. Workers' = Workers /\ NumWorker' = NumWorker
    BY <1>1, SameShape
  <1>3. SessionTyped'
    BY <1>1, <1>2 DEF SessionTyped, Vector
  <1>4. ClientPhase' /\ MasterPhase'
    BY <1>1, <1>2 DEF SessionTyped, ClientPhase, MasterPhase
  <1>5. \A v \in Workers: SenderPhase(v)' /\ WorkerPhase(v)'
    <2>1. ASSUME NEW v \in Workers, v # w PROVE SenderPhase(v)' /\ WorkerPhase(v)'
      BY <1>1, <2>1 DEF SessionTyped, SenderPhase, WorkerPhase, Crashed
    <2>2. masterEarly \/ w \in early
      <3>1. CASE main[w] = "await" /\ query[w] \notin {"none", "dummy", "query"}
        <4>1. toMaster \notin {"query", "storing", "stored", "broadcast"}
          BY <3>1, AllReported
        <4> QED BY <3>1, <4>1 DEF SessionTyped, SenderPhase
      <3>2. CASE main[w] = "woken" /\ query[w] # "query"
        BY <3>2 DEF WorkerPhase
      <3> QED BY <3>1, <3>2 DEF WorkerCrash
    <2>3. main'[w] \in {"crashed1", "crashed2"} /\ query[w] # "none"
      BY <1>1 DEF WorkerCrash, SessionTyped, WorkerPhase
    <2>4. main'[w] = "crashed2" => query[w] # "empty"
      BY <1>1 DEF WorkerCrash, SessionTyped, WorkerPhase
    <2>5. SenderPhase(w)' /\ WorkerPhase(w)'
      BY <1>1, <2>2, <2>3, <2>4 DEF SenderPhase, WorkerPhase, Crashed
    <2> QED BY <2>1, <2>5
  <1>6. WarmupPhase'
    <2>1. \/ main[w] = "await" /\ main'[w] = "crashed1"
          \/ main[w] = "woken" /\ main'[w] = "crashed2"
      BY <1>1 DEF WorkerCrash, SessionTyped
    <2>2. \A v \in Workers \ {w}: main'[v] = main[v]
      BY <1>1 DEF SessionTyped
    <2> QED BY <1>1, <2>1, <2>2, WarmupKept
  <1> QED BY <1>2, <1>3, <1>4, <1>5, <1>6

LEMMA WorkerFirstQueryInv ==
  ASSUME SessionInv, NEW w \in Workers, WorkerFirstQuery(w)
  PROVE  SessionInv'
  <1> USE DEF SessionInv
  <1>1. /\ shape' = shape /\ program' = program /\ client' = client
        /\ warmupCount' = warmupCount /\ toMaster' = toMaster /\ master' = master
        /\ masterQuery' = masterQuery /\ masterEarly' = masterEarly
        /\ sender' = [sender EXCEPT ![w] = "called"] /\ carries' = carries
        /\ main' = main /\ used' = used /\ early' = early /\ sender[w] = "call"
        /\ query[w] = "none"
        /\ query' = [query EXCEPT ![w] = IF masterQuery = "none" THEN "empty" ELSE masterQuery]
    BY DEF WorkerFirstQuery, vars, sumVars, workerVars, clientVars, setup, clientSide, masterSide,
           sendSide, workerSide
  <1>2. Workers' = Workers /\ NumWorker' = NumWorker
    BY <1>1, SameShape
  <1>3. SessionTyped'
    BY <1>1, <1>2 DEF SessionTyped, Vector
  <1>4. ClientPhase' /\ MasterPhase'
    BY <1>1, <1>2 DEF SessionTyped, ClientPhase, MasterPhase
  <1>5. \A v \in Workers: SenderPhase(v)' /\ WorkerPhase(v)'
    <2>1. ASSUME NEW v \in Workers, v # w PROVE SenderPhase(v)' /\ WorkerPhase(v)'
      BY <1>1, <2>1 DEF SessionTyped, SenderPhase, WorkerPhase, Crashed
    <2>2. toMaster \in {"none", "dummy", "first", "answered"}
      BY <1>1, AllReported DEF SessionTyped
    <2>3. master \notin {"running", "asleep"} /\ main[w] \in {"warmup1", "await"}
      BY <1>1 DEF SenderPhase, WorkerPhase
    <2>4. /\ query'[w] = "dummy" \/ (query'[w] \in {"empty", "torn"} /\ masterEarly)
          /\ query'[w] # "empty" => toMaster \notin {"none", "dummy"}
      BY <1>1, <2>2, <2>3 DEF SessionTyped, MasterPhase
    <2>5. sender'[w] = "called"
      BY <1>1 DEF SessionTyped
    <2>6. SenderPhase(w)'
      BY <1>1, <2>3, <2>4, <2>5 DEF SenderPhase
    <2>7. WorkerPhase(w)'
      BY <1>1, <2>3, <2>4, <2>5 DEF WorkerPhase, Crashed
    <2> QED BY <2>1, <2>6, <2>7
  <1>6. WarmupPhase'
    BY <1>1, WarmupKept DEF SessionTyped
  <1> QED BY <1>2, <1>3, <1>4, <1>5, <1>6

LEMMA WorkerStoreBeginInv ==
  ASSUME SessionInv, NEW w \in Workers, WorkerStoreBegin(w)
  PROVE  SessionInv'
  <1> USE DEF SessionInv
  <1>1. /\ shape' = shape /\ program' = program /\ client' = client
        /\ warmupCount' = warmupCount /\ toMaster' = toMaster /\ master' = master
        /\ masterQuery' = masterQuery /\ masterEarly' = masterEarly
        /\ sender' = [sender EXCEPT ![w] = "storing"] /\ carries' = carries
        /\ main' = main /\ used' = used /\ early' = early /\ sender[w] = "sending"
        /\ query[w] # "none"
        /\ query' = [query EXCEPT ![w] = IF carries[w] \in {"query", "mixed"} THEN "mixed" ELSE "torn"]
    BY DEF WorkerStoreBegin, vars, sumVars, workerVars, clientVars, setup, clientSide, masterSide,
           sendSide, workerSide
  <1>2. Workers' = Workers /\ NumWorker' = NumWorker
    BY <1>1, SameShape
  <1>3. SessionTyped'
    BY <1>1, <1>2 DEF SessionTyped, Vector
  <1>4. ClientPhase' /\ MasterPhase'
    BY <1>1, <1>2 DEF SessionTyped, ClientPhase, MasterPhase
  <1>5. \A v \in Workers: SenderPhase(v)' /\ WorkerPhase(v)'
    <2>1. ASSUME NEW v \in Workers, v # w PROVE SenderPhase(v)' /\ WorkerPhase(v)'
      BY <1>1, <2>1 DEF SessionTyped, ClientPhase, MasterPhase, SenderPhase, WorkerPhase, Crashed
    <2>2. SenderPhase(w)' /\ WorkerPhase(w)'
      BY <1>1 DEF SessionTyped, ClientPhase, MasterPhase, SenderPhase, WorkerPhase, Crashed
    <2> QED BY <2>1, <2>2
  <1>6. WarmupPhase'
    BY <1>1, WarmupKept DEF SessionTyped
  <1> QED BY <1>2, <1>3, <1>4, <1>5, <1>6

LEMMA WorkerStoreEndInv ==
  ASSUME SessionInv, NEW w \in Workers, WorkerStoreEnd(w)
  PROVE  SessionInv'
  <1> USE DEF SessionInv
  <1>1. /\ shape' = shape /\ program' = program /\ client' = client
        /\ warmupCount' = warmupCount /\ toMaster' = toMaster /\ master' = master
        /\ masterQuery' = masterQuery /\ masterEarly' = masterEarly
        /\ sender' = [sender EXCEPT ![w] = "stored"] /\ carries' = carries
        /\ main' = main /\ query' = [query EXCEPT ![w] = carries[w]] /\ used' = used
        /\ early' = early /\ sender[w] = "storing"
    BY DEF WorkerStoreEnd, vars, sumVars, workerVars, clientVars, setup, clientSide, masterSide,
           sendSide, workerSide
  <1>2. Workers' = Workers /\ NumWorker' = NumWorker
    BY <1>1, SameShape
  <1>3. SessionTyped'
    BY <1>1, <1>2 DEF SessionTyped, Vector
  <1>4. ClientPhase' /\ MasterPhase'
    BY <1>1, <1>2 DEF SessionTyped, ClientPhase, MasterPhase
  <1>5. \A v \in Workers: SenderPhase(v)' /\ WorkerPhase(v)'
    <2>1. ASSUME NEW v \in Workers, v # w PROVE SenderPhase(v)' /\ WorkerPhase(v)'
      BY <1>1, <2>1 DEF SessionTyped, ClientPhase, MasterPhase, SenderPhase, WorkerPhase, Crashed
    <2>2. SenderPhase(w)' /\ WorkerPhase(w)'
      BY <1>1 DEF SessionTyped, ClientPhase, MasterPhase, SenderPhase, WorkerPhase, Crashed
    <2> QED BY <2>1, <2>2
  <1>6. WarmupPhase'
    BY <1>1, WarmupKept DEF SessionTyped
  <1> QED BY <1>2, <1>3, <1>4, <1>5, <1>6

LEMMA WorkerBroadcastInv ==
  ASSUME SessionInv, NEW w \in Workers, WorkerBroadcast(w)
  PROVE  SessionInv'
  <1> USE DEF SessionInv
  <1>1. /\ shape' = shape /\ program' = program /\ client' = client
        /\ warmupCount' = warmupCount /\ toMaster' = toMaster /\ master' = master
        /\ masterQuery' = masterQuery /\ masterEarly' = masterEarly
        /\ sender' = [sender EXCEPT ![w] = "sent"] /\ carries' = carries
        /\ main' = [main EXCEPT ![w] = IF @ = "asleep" THEN "woken" ELSE @]
        /\ query' = query /\ used' = used /\ early' = early /\ sender[w] = "stored"
    BY DEF WorkerBroadcast, vars, sumVars, workerVars, clientVars, setup, clientSide, masterSide,
           sendSide, workerSide
  <1>2. Workers' = Workers /\ NumWorker' = NumWorker
    BY <1>1, SameShape
  <1>3. SessionTyped'
    BY <1>1, <1>2 DEF SessionTyped, Vector
  <1>4. ClientPhase' /\ MasterPhase'
    BY <1>1, <1>2 DEF SessionTyped, ClientPhase, MasterPhase
  <1>5. \A v \in Workers: SenderPhase(v)' /\ WorkerPhase(v)'
    <2>1. ASSUME NEW v \in Workers, v # w PROVE SenderPhase(v)' /\ WorkerPhase(v)'
      BY <1>1, <2>1 DEF SessionTyped, ClientPhase, MasterPhase, SenderPhase, WorkerPhase, Crashed
    <2>2. SenderPhase(w)' /\ WorkerPhase(w)'
      BY <1>1 DEF SessionTyped, ClientPhase, MasterPhase, SenderPhase, WorkerPhase, Crashed
    <2> QED BY <2>1, <2>2
  <1>6. WarmupPhase'
    BY <1>1, WarmupKept DEF SessionTyped
  <1> QED BY <1>2, <1>3, <1>4, <1>5, <1>6

\* A report counts in the round that the client waits for: one of the first round before
\* the count is reset, one of the second round after it.
LEMMA CountWarmupInv ==
  ASSUME SessionInv, NEW w \in Workers, CountWarmup(w)
  PROVE  SessionInv'
  <1> USE DEF SessionInv
  <1>1. /\ shape' = shape /\ program' = program /\ client' = client
        /\ warmupCount' = warmupCount + 1 /\ toMaster' = toMaster /\ master' = master
        /\ masterQuery' = masterQuery /\ masterEarly' = masterEarly /\ sender' = sender
        /\ carries' = carries
        /\ main' = [main EXCEPT ![w] = IF @ = "warmup1" THEN "await" ELSE "running"]
        /\ query' = query /\ used' = used /\ early' = early
        /\ main[w] \in {"warmup1", "warmup2"}
    BY DEF CountWarmup, vars, sumVars, workerVars, clientVars, setup, clientSide, masterSide,
           sendSide, workerSide, WarmupCall
  <1>2. Workers' = Workers /\ NumWorker' = NumWorker
    BY <1>1, SameShape
  <1>3. SessionTyped'
    BY <1>1, <1>2 DEF SessionTyped, Vector
  <1>4. ClientPhase' /\ MasterPhase'
    BY <1>1, <1>2 DEF SessionTyped, ClientPhase, MasterPhase
  <1>5. \A v \in Workers: SenderPhase(v)' /\ WorkerPhase(v)'
    <2>1. ASSUME NEW v \in Workers, v # w PROVE SenderPhase(v)' /\ WorkerPhase(v)'
      BY <1>1, <2>1 DEF SessionTyped, ClientPhase, MasterPhase, SenderPhase, WorkerPhase, Crashed
    <2>2. SenderPhase(w)' /\ WorkerPhase(w)'
      BY <1>1 DEF SessionTyped, ClientPhase, MasterPhase, SenderPhase, WorkerPhase, Crashed
    <2> QED BY <2>1, <2>2
  <1>6. WarmupPhase'
    <2>1. CASE main[w] = "warmup1"
      <3>1. client = "round1"
        BY <2>1 DEF WarmupPhase, Reported
      <3>2. Reported(1)' = Reported(1) \cup {w} /\ w \notin Reported(1)
        BY <1>1, <1>2, <2>1 DEF Reported, SessionTyped
      <3>3. Cardinality(Reported(1) \cup {w}) = Cardinality(Reported(1)) + 1
        BY <3>2, SomeOfThem DEF SessionTyped, Reported
      <3> QED BY <1>1, <3>1, <3>2, <3>3 DEF WarmupPhase
    <2>2. CASE main[w] = "warmup2"
      <3>1. client \in {"calling", "round2"}
        <4>1. toMaster \notin {"none", "dummy"}
          BY <2>2 DEF WorkerPhase
        <4>2. client # "sent"
          BY <2>2 DEF WarmupPhase, Reported
        <4> QED BY <4>1, <4>2 DEF ClientPhase, SessionTyped
      <3>2. Reported(2)' = Reported(2) \cup {w} /\ w \notin Reported(2)
        BY <1>1, <1>2, <2>2 DEF Reported, SessionTyped
      <3>3. Cardinality(Reported(2) \cup {w}) = Cardinality(Reported(2)) + 1
        BY <3>2, SomeOfThem DEF SessionTyped, Reported
      <3>4. Reported(1)' = Reported(1)
        BY <1>1, <1>2, <2>2 DEF Reported, SessionTyped
      <3> QED BY <1>1, <1>2, <3>1, <3>2, <3>3, <3>4 DEF WarmupPhase
    <2> QED BY <1>1, <2>1, <2>2
  <1> QED BY <1>2, <1>3, <1>4, <1>5, <1>6

LEMMA SessionStepInv ==
  ASSUME SessionInv, [SessionNext]_allVars
  PROVE  SessionInv'
  <1>1. ASSUME UNCHANGED sessionVars, UNCHANGED setup
        PROVE  SessionInv'
    BY <1>1, ExchangeStep
  <1>2. CASE UNCHANGED allVars
    BY <1>1, <1>2 DEF allVars, vars, clientVars
  <1>3. CASE ClientMain
    <2>1. CASE ClientWaits
      BY <1>1, <2>1 DEF ClientWaits
    <2>2. CASE ClientReport /\ UNCHANGED sessionVars
      BY <1>1, <2>2 DEF ClientReport, clientVars
    <2> QED BY <1>3, <2>1, <2>2, ClientRound1Inv, ClientResetInv, ClientCallInv,
               ClientCalledInv, ClientQueryInv DEF ClientMain
  <1>4. CASE MasterMain
    BY <1>4, MasterWaitsInv, MasterStartSendersInv, MasterJoinInv DEF MasterMain
  <1>5. CASE MasterServer
    BY <1>5, MasterFirstBeginInv, MasterFirstEndInv, MasterStoreBeginInv, MasterStoreEndInv,
       MasterBroadcastInv DEF MasterServer
  <1>6. ASSUME NEW w \in AllWorkers, Sender(w)
        PROVE  SessionInv'
    BY <1>6, SenderWaitsInv, SenderSendsInv, SenderCrashInv DEF Sender
  <1>7. ASSUME NEW w \in AllWorkers, SessionWorker(w)
        PROVE  SessionInv'
    <2>1. w \in Workers
      BY <1>7 DEF SessionWorker
    <2>2. CASE (SendPartial(w) \/ AddOwn(w) \/ AwaitOthers(w) \/ Respond(w)) /\ UNCHANGED sessionVars
      <3>1. UNCHANGED setup
        BY <2>2 DEF SendPartial, AddOwn, AwaitOthers, Respond, clientVars
      <3> QED BY <1>1, <2>2, <3>1
    <2> QED BY <1>7, <2>1, <2>2, AllocateInv, WorkerWaitsInv, LoadAndMultiplyInv, WorkerCrashInv
            DEF SessionWorker
  <1>8. ASSUME NEW w \in AllWorkers, QueryServer(w)
        PROVE  SessionInv'
    BY <1>8, WorkerFirstQueryInv, WorkerStoreBeginInv, WorkerStoreEndInv, WorkerBroadcastInv
       DEF QueryServer
  <1>9. ASSUME NEW w \in AllWorkers, ExchangeServer(w)
        PROVE  SessionInv'
    <2>1. UNCHANGED setup
      BY <1>9 DEF ExchangeServer, WorkerServer, ReceivePartial, clientVars
    <2> QED BY <1>1, <1>9, <2>1 DEF ExchangeServer
  <1>10. ASSUME NEW w \in AllWorkers, ResponseServer(w)
         PROVE  SessionInv'
    <2>1. CASE ClientServer(w) /\ UNCHANGED sessionVars
      <3>1. UNCHANGED setup
        BY <2>1 DEF ClientServer, ReceiveResponse, BeginResponse, CopyBegin, CopyEnd, DecryptRow,
                    CountRows
      <3> QED BY <1>1, <2>1, <3>1
    <2> QED BY <1>10, <2>1, CountWarmupInv DEF ResponseServer
  <1>11. CASE SpuriousReturn
    <2>1. CASE ClientSpurious /\ UNCHANGED sessionVars
      BY <1>1, <2>1 DEF ClientSpurious
    <2>2. ASSUME NEW w \in AllWorkers, AwaitSpurious(w) /\ UNCHANGED sessionVars
          PROVE  SessionInv'
      BY <1>1, <2>2 DEF AwaitSpurious, clientVars
    <2>3. ASSUME NEW w \in AllWorkers, SenderSpurious(w) \/ WorkerSpurious(w)
          PROVE  SessionInv'
      <3>1. w \in Workers
        BY <2>3 DEF SenderSpurious, WorkerSpurious
      <3> QED BY <2>3, <3>1, SenderSpuriousInv, WorkerSpuriousInv
    <2> QED BY <1>11, <2>1, <2>2, <2>3, MasterSpuriousInv DEF SpuriousReturn
  <1> QED BY <1>2, <1>3, <1>4, <1>5, <1>6, <1>7, <1>8, <1>9, <1>10, <1>11 DEF SessionNext

\* SessionInv, from which the properties follow, holds in every state of every session.
THEOREM SessionInvariance == SessionSpec => []SessionInv
  <1> QED BY SessionInitInv, SessionStepInv, PTL DEF SessionSpec

\* In a session of any number of workers, whichever waits return by themselves, warmup_count
\* never counts a worker twice or past NUM_WORKER, though it is reset without the lock, and
\* every variable of the client, the master and the workers has one of its values.
THEOREM SessionTypeCorrect == SessionSpec => []SessionTypeOK
  <1>1. ASSUME SessionInv PROVE SessionTypeOK
    <2> USE <1>1 DEF SessionInv
    <2>1. NumWorker \in Nat /\ Cardinality(Reported(1)) \in 0 .. NumWorker
          /\ Cardinality(Reported(2)) \in 0 .. NumWorker
      BY AllOfThem, SomeOfThem DEF SessionTyped, Reported
    <2>2. warmupCount \in 0 .. NumWorker
      BY <2>1 DEF SessionTyped, WarmupPhase
    <2> QED BY <2>2 DEF SessionTyped, SessionTypeOK
  <1> QED BY <1>1, SessionInvariance, PTL

\* For every number of groups and workers, and however many waits without a predicate return
\* by themselves: the client sends the real query only when every worker has its sums
\* allocated and no dummy is on its way; a worker multiplies nothing but its own slice of
\* that query, those of a group being the whole of it, and no process dies of what it reads,
\* unless the worker's wait, its sender's or the master's returned too early.
THEOREM QueryAlwaysInOrder == SessionSpec => []QueryInOrder
  <1>1. ASSUME SessionInv PROVE QueryInOrder
    <2> USE <1>1 DEF SessionInv
    <2>1. ReadyBeforeQuery
      <3> SUFFICES ASSUME client = "sent", NEW w \in Workers
                   PROVE  /\ main[w] \notin {"warmup1", "await", "warmup2", "crashed1"}
                          /\ sender[w] \notin {"none", "call"}
        BY DEF ReadyBeforeQuery
      <3>1. toMaster \in {"query", "storing", "stored", "broadcast"}
        BY DEF ClientPhase
      <3> QED BY <3>1, AllReported
    <2>2. SlicesOfQuery
      <3>1. \A w \in Workers: main[w] = "loaded" /\ w \notin early => used[w] = "query"
        BY DEF WorkerPhase
      <3>2. ASSUME NEW w \in Workers, \A v \in Group(w): used[v] = "query"
            PROVE  /\ UNION {Used(v) : v \in Group(w)} = 0 .. QueryCt - 1
                   /\ \A v \in Group(w): v # w => Used(v) \cap Used(w) = {}
        <4>1. \A v \in Group(w): Used(v) = Columns(v)
          BY <3>2 DEF Used
        <4>2. w \in Group(w)
          BY GroupFacts DEF SessionTyped
        <4>3. {Used(v) : v \in Group(w)} = {Columns(v) : v \in Group(w)}
          BY <4>1
        <4> QED BY <4>1, <4>2, <4>3, ColumnFacts DEF SessionTyped
      <3> QED BY <3>1, <3>2 DEF SlicesOfQuery
    <2>3. DeathsExcused
      BY DEF MasterPhase, WorkerPhase, DeathsExcused
    <2> QED BY <2>1, <2>2, <2>3 DEF QueryInOrder
  <1> QED BY <1>1, SessionInvariance, PTL

-----------------------------------------------------------------------------
(* The session implements Aggregation. *)

\* The client goes on after the last row, or because its wait has returned by itself.
ClientPart ==
  /\ cpc \in {"running", "asleep"} => ~clientEarly
  /\ cpc \in {"woken", "done"} => responseReceived = ClientRows \/ clientEarly
  /\ cpc \in {"running", "asleep", "woken", "done"} /\ clientEarly \in BOOLEAN

\* What the session and the exchange in it say of each other: who takes part in the
\* exchange has its slice, and the client counts the rows of those it has answered.
Exchanging ==
  /\ pc \in [Workers -> Stages]
  /\ aggregation = [w \in Workers |-> aggregation[w]]
  /\ \A w \in Workers: pc[w] # "multiply" => main[w] = "loaded"
  /\ partial # {} => client = "sent"
  /\ handler = [w \in Workers |-> handler[w]]
  /\ \A w \in Workers: handler[w] # "none" => program = "split" /\ pc[w] = "responding"
  /\ responseReceived = Cardinality(Answered)
  /\ ClientPart

\* What the exchange takes for warmed up though the worker has not allocated its sums.
NotYet == {"warmup1", "await", "crashed1"}

\* A worker that takes part has allocated its sums, and so have all others.
LEMMA TakesPart ==
  ASSUME SessionInv, Exchanging, NEW w \in Workers
  PROVE  /\ pc[w] # "multiply" => main[w] = "loaded" /\ client = "sent"
         /\ client = "sent" => main[w] \notin NotYet /\ SumsSeen[w] = aggregation[w]
  <1>1. main[w] = "loaded" => client = "sent"
    BY DEF SessionInv, WorkerPhase, ClientPhase, SessionTyped
  <1>2. client = "sent" => main[w] \notin NotYet
    BY DEF SessionInv, WarmupPhase, Reported, NotYet
  <1>3. SumsSeen[w] = IF main[w] \in NotYet
                      THEN [row \in AggRows(w) |-> {Warmup}] ELSE aggregation[w]
    BY DEF SumsSeen, NotYet
  <1> QED BY <1>1, <1>2, <1>3 DEF Exchanging, setup

\* The client's count of rows is at most ClientRows, also after it has answered w.
LEMMA AnswerCounted ==
  ASSUME SessionInv, Exchanging, UNCHANGED setup, NEW w \in Workers, pc[w] = "responding",
         pc' = [pc EXCEPT ![w] = "done"],
         responseReceived' = responseReceived + (AggEnd(w) - AggStart(w)),
         clientEarly' = clientEarly,
         cpc' = IF responseReceived' = ClientRows /\ cpc = "asleep" THEN "woken" ELSE cpc
  PROVE  /\ responseReceived' = Cardinality(Answered')
         /\ ClientPart'
         /\ ClientSeen' = IF responseReceived' = ClientRows /\ ClientSeen = "asleep"
                          THEN "woken" ELSE ClientSeen
  <1>1. shape \in Shapes
    BY DEF SessionInv, SessionTyped
  <1>2. /\ Cardinality(Answered') = Cardinality(Answered) + (AggEnd(w) - AggStart(w))
        /\ Cardinality(Answered') <= ClientRows
    BY <1>1, AnsweredStep DEF Exchanging, setup
  <1>3. AggEnd(w) - AggStart(w) \in Nat /\ Cardinality(Answered) \in Nat /\ ClientRows \in Nat
    BY <1>1, SliceFacts, AnsweredFinite, Sizes
  <1>4. responseReceived = ClientRows => responseReceived' = ClientRows
    BY <1>2, <1>3 DEF Exchanging, setup
  <1> QED BY <1>2, <1>3, <1>4 DEF Exchanging, ClientPart, ClientSeen

\* The sums that the exchange sees stay when none is written and none allocated, or when
\* the warm-up value is written to newly allocated ones.
LEMMA SumsSeenKept ==
  ASSUME UNCHANGED setup,
         \A w \in Workers:
           \/ /\ aggregation'[w] = aggregation[w]
              /\ main'[w] \in NotYet <=> main[w] \in NotYet
           \/ /\ main[w] \in NotYet /\ main'[w] \notin NotYet
              /\ aggregation'[w] = [row \in AggRows(w) |-> {Warmup}]
  PROVE  SumsSeen' = SumsSeen
  <1>1. Workers' = Workers /\ \A w: AggRows(w)' = AggRows(w)
    BY Same
  <1> DEFINE Seen(w) == IF main[w] \in NotYet
                        THEN [row \in AggRows(w) |-> {Warmup}] ELSE aggregation[w]
             SeenNext(w) == IF main'[w] \in NotYet
                            THEN [row \in AggRows(w) |-> {Warmup}] ELSE aggregation'[w]
  <1>2. SumsSeen = [w \in Workers |-> Seen(w)] /\ SumsSeen' = [w \in Workers |-> SeenNext(w)]
    BY <1>1 DEF SumsSeen, NotYet
  <1>3. \A w \in Workers: SeenNext(w) = Seen(w)
    OBVIOUS
  <1> HIDE DEF Seen, SeenNext
  <1> QED BY <1>2, <1>3

\* A step of the session in which the exchange does not see more than the client going on.
LEMMA ExchangingKept ==
  ASSUME SessionInv, Exchanging, UNCHANGED <<setup, pc, partial, handler, responseReceived>>,
         aggregation' = [w \in Workers |-> aggregation'[w]],
         client = "sent" => client' = "sent",
         \A w \in Workers: main[w] = "loaded" => main'[w] = "loaded",
         ClientPart'
  PROVE  Exchanging'
  <1>1. Workers' = Workers /\ Groups' = Groups /\ Rows' = Rows /\ \A w: AggRows(w)' = AggRows(w)
        /\ PerGroup' = PerGroup
    BY Same
  <1>2. Answered' = Answered
    BY <1>1 DEF Answered
  <1> QED BY <1>1, <1>2 DEF Exchanging, setup

\* The names of Aggregation mean the same in its instance.
LEMMA SameNames ==
  /\ Exchange!Workers = Workers /\ Exchange!AllWorkers = AllWorkers
  /\ Exchange!PerGroup = PerGroup
  /\ \A w: /\ Exchange!GroupStart(w) = GroupStart(w) /\ Exchange!GroupEnd(w) = GroupEnd(w)
           /\ Exchange!Group(w) = Group(w)
           /\ Exchange!AggStart(w) = AggStart(w) /\ Exchange!AggEnd(w) = AggEnd(w)
           /\ Exchange!AggRows(w) = AggRows(w)
  /\ \A s, i: Exchange!SliceEnd(s, i) = SliceEnd(s, i)
  /\ Exchange!Warmup = Warmup /\ Exchange!setup = setup /\ Exchange!Mixture = Mixture
  /\ \A w, steps: Exchange!Others(w, steps) = Others(w, steps)
  BY DEF Exchange!Workers, Exchange!AllWorkers, Exchange!PerGroup, Exchange!NumGroup,
         Exchange!GroupStart, Exchange!GroupEnd, Exchange!Group, Exchange!AggStart,
         Exchange!AggEnd, Exchange!AggRows, Exchange!Rows, Exchange!SliceEnd, Exchange!Warmup,
         Exchange!setup, Exchange!First, Exchange!End, Exchange!Share, Exchange!Mixture,
         Exchange!Others, Mixture, Others,
         Workers, AllWorkers, PerGroup, NumGroup, GroupStart, GroupEnd, Group, AggStart,
         AggEnd, AggRows, Rows, SliceEnd, Warmup, setup, First, End, Share

LEMMA SameCardinality == \A S: Exchange!Cardinality(S) = Cardinality(S)
  BY DEF Exchange!Cardinality, Cardinality

LEMMA ExchangeInit ==
  ASSUME SessionInit
  PROVE  Exchange!Init /\ Exchanging
  <1>0. shape \in Shapes
    BY DEF SessionInit
  <1>1. ClientRows \in Nat \ {0}
    BY ShapesAssumption
  <1>2. SumsSeen = [w \in Workers |-> [row \in AggRows(w) |-> {Warmup}]]
    BY DEF SessionInit, SumsSeen
  <1>3. ClientSeen = "asleep"
    BY <1>1 DEF SessionInit, ClientSeen
  <1>4. Exchange!Init
    <2>1. SumsSeen = [w \in Exchange!Workers |-> [row \in Exchange!AggRows(w) |-> {Exchange!Warmup}]]
      BY <1>2, SameNames
    <2> QED BY <1>3, <2>1, SameNames DEF SessionInit, Exchange!Init
  <1>5. Exchanging
    <2>1. Answered = {}
      BY DEF SessionInit, Answered
    <2> QED BY <2>1, FS_EmptySet DEF SessionInit, Exchanging, ClientPart, Stages, Answering
  <1> QED BY <1>4, <1>5

\* What the exchange does not see.
LEMMA ExchangeStutter ==
  ASSUME UNCHANGED <<pc, sendTo, itr, aggregationCount, partial, setup, finalResult,
                     responseReceived, clientEarly, splitVars>>,
         SumsSeen' = SumsSeen, ClientSeen' = ClientSeen
  PROVE  UNCHANGED Exchange!vars
  BY DEF Exchange!vars, Exchange!workerVars, Exchange!clientVars, Exchange!splitVars,
         Exchange!setup, setup, splitVars

\* A step of the session alone.
LEMMA QuietStep ==
  ASSUME SessionInv, Exchanging, UNCHANGED vars, client = "sent" => client' = "sent",
         \A w \in Workers: /\ main'[w] \in NotYet <=> main[w] \in NotYet
                           /\ main[w] = "loaded" => main'[w] = "loaded"
  PROVE  Exchanging' /\ UNCHANGED Exchange!vars
  <1>1. UNCHANGED <<pc, sendTo, itr, aggregationCount, partial, setup, finalResult,
                    responseReceived, clientEarly, splitVars>>
        /\ UNCHANGED <<aggregation, cpc, handler>> /\ UNCHANGED setup
    BY DEF vars, workerVars, clientVars, splitVars
  <1>2. SumsSeen' = SumsSeen
    BY <1>1, SumsSeenKept
  <1>3. ClientSeen' = ClientSeen
    BY <1>1 DEF ClientSeen
  <1>4. Exchanging'
    <2>1. aggregation' = [w \in Workers |-> aggregation'[w]]
      BY <1>1 DEF Exchanging, setup
    <2>2. ClientPart'
      BY <1>1 DEF Exchanging, ClientPart
    <2> QED BY <1>1, <2>1, <2>2, ExchangingKept
  <1> QED BY <1>1, <1>2, <1>3, <1>4, ExchangeStutter

LEMMA ClientWaitsSeen ==
  ASSUME SessionInv, Exchanging, ClientWaits
  PROVE  Exchanging' /\ UNCHANGED Exchange!vars
  <1>1. /\ UNCHANGED <<pc, sendTo, itr, aggregationCount, partial, setup, finalResult,
                       responseReceived, clientEarly, splitVars>>
        /\ UNCHANGED <<aggregation, main, client, handler>> /\ UNCHANGED setup
        /\ cpc = "running" /\ cpc' = "asleep"
    BY DEF ClientWaits, workerVars, sessionVars, clientSide, workerSide, splitVars
  <1>2. SumsSeen' = SumsSeen
    BY <1>1, SumsSeenKept
  <1>3. ClientSeen' = ClientSeen
    BY <1>1 DEF ClientSeen
  <1>4. Exchanging'
    <2>1. aggregation' = [w \in Workers |-> aggregation'[w]]
      BY <1>1 DEF Exchanging, setup
    <2>2. ClientPart'
      BY <1>1 DEF Exchanging, ClientPart
    <2> QED BY <1>1, <2>1, <2>2, ExchangingKept
  <1> QED BY <1>1, <1>2, <1>3, <1>4, ExchangeStutter

LEMMA ClientReportSeen ==
  ASSUME SessionInv, Exchanging, ClientReport, UNCHANGED sessionVars
  PROVE  Exchanging' /\ Exchange!ClientReport
  <1>1. /\ UNCHANGED <<pc, sendTo, itr, aggregationCount, partial, setup, finalResult,
                       responseReceived, clientEarly, splitVars>>
        /\ UNCHANGED <<aggregation, main, client, handler>> /\ UNCHANGED setup
        /\ cpc = "woken" /\ cpc' = "done" /\ (responseReceived = ClientRows \/ clientEarly)
    BY DEF ClientReport, workerVars, sessionVars, clientSide, workerSide, splitVars, Exchanging,
           ClientPart
  <1>2. SumsSeen' = SumsSeen
    BY <1>1, SumsSeenKept
  <1>3. ClientSeen = "woken" /\ ClientSeen' = "done"
    BY <1>1 DEF ClientSeen
  <1>4. Exchanging'
    <2>1. aggregation' = [w \in Workers |-> aggregation'[w]]
      BY <1>1 DEF Exchanging, setup
    <2>2. ClientPart'
      BY <1>1 DEF Exchanging, ClientPart
    <2> QED BY <1>1, <2>1, <2>2, ExchangingKept
  <1>5. Exchange!ClientReport
    BY <1>1, <1>2, <1>3 DEF Exchange!ClientReport, Exchange!setup, Exchange!splitVars,
                            Exchange!workerVars, setup, splitVars
  <1> QED BY <1>4, <1>5

\* The client's wait returns by itself: too early, which the exchange sees too, or after the
\* last row, when the exchange has seen the client woken already.
LEMMA ClientSpuriousSeen ==
  ASSUME SessionInv, Exchanging, ClientSpurious, UNCHANGED sessionVars
  PROVE  Exchanging' /\ [Exchange!ClientSpurious]_Exchange!vars
  <1>1. /\ UNCHANGED <<pc, sendTo, itr, aggregationCount, partial, setup, finalResult,
                       responseReceived, splitVars>>
        /\ UNCHANGED <<aggregation, main, client, handler>> /\ UNCHANGED setup
        /\ cpc = "asleep" /\ cpc' = "woken" /\ responseReceived' = responseReceived
        /\ clientEarly' = (responseReceived # ClientRows)
    BY DEF ClientSpurious, workerVars, sessionVars, clientSide, workerSide, splitVars
  <1>0. clientEarly = FALSE /\ clientEarly' \in BOOLEAN
    BY <1>1 DEF Exchanging, ClientPart
  <1>2. SumsSeen' = SumsSeen
    BY <1>1, SumsSeenKept
  <1>3. Exchanging'
    <2>1. aggregation' = [w \in Workers |-> aggregation'[w]]
      BY <1>1 DEF Exchanging, setup
    <2>2. ClientPart'
      <3>1. responseReceived = ClientRows \/ clientEarly'
        BY <1>1, Zenon
      <3> QED BY <1>0, <1>1, <3>1 DEF ClientPart
    <2> QED BY <1>1, <2>1, <2>2, ExchangingKept
  <1>4. CASE responseReceived = ClientRows
    <2>1. clientEarly' = FALSE
      BY <1>1, <1>4, Zenon
    <2>2. clientEarly' = clientEarly
      BY <1>0, <2>1, Zenon
    <2>3. ClientSeen = "woken" /\ ClientSeen' = "woken"
      BY <1>1, <1>4 DEF ClientSeen
    <2> QED BY <1>1, <1>2, <1>3, <2>2, <2>3, ExchangeStutter
  <1>5. CASE responseReceived # ClientRows
    <2>0. clientEarly' = TRUE
      BY <1>1, <1>5, Zenon
    <2>1. ClientSeen = "asleep" /\ ClientSeen' = "woken"
      BY <1>0, <1>1, <1>5, <2>0 DEF ClientSeen
    <2>2. Exchange!ClientSpurious
      BY <1>1, <1>2, <2>1 DEF Exchange!ClientSpurious, Exchange!setup, Exchange!splitVars,
                              Exchange!workerVars, setup, splitVars
    <2> QED BY <1>3, <2>2
  <1> QED BY <1>4, <1>5

\* The memory a worker allocates is what the exchange sees from the start.
LEMMA AllocateSeen ==
  ASSUME SessionInv, Exchanging, NEW w \in Workers, Allocate(w)
  PROVE  Exchanging' /\ UNCHANGED Exchange!vars
  <1>1. /\ UNCHANGED <<pc, sendTo, itr, aggregationCount, partial, setup, finalResult,
                       responseReceived, clientEarly, splitVars>>
        /\ UNCHANGED <<cpc, client, handler>> /\ UNCHANGED setup
        /\ main[w] = "await" /\ main' = [main EXCEPT ![w] = "warmup2"]
        /\ aggregation' = [aggregation EXCEPT ![w] = [row \in AggRows(w) |-> {Warmup}]]
    BY DEF Allocate, sumVars, clientVars, clientSide, splitVars
  <1>2. /\ aggregation'[w] = [row \in AggRows(w) |-> {Warmup}]
        /\ \A v \in Workers \ {w}: aggregation'[v] = aggregation[v]
        /\ aggregation' = [v \in Workers |-> aggregation'[v]]
    BY <1>1 DEF Exchanging, setup
  <1>3. main'[w] = "warmup2" /\ \A v \in Workers \ {w}: main'[v] = main[v]
    BY <1>1 DEF SessionInv, SessionTyped
  <1>4. SumsSeen' = SumsSeen
    BY <1>1, <1>2, <1>3, SumsSeenKept DEF NotYet
  <1>5. ClientSeen' = ClientSeen
    BY <1>1 DEF ClientSeen
  <1>6. Exchanging'
    <2>1. ClientPart'
      BY <1>1 DEF Exchanging, ClientPart
    <2> QED BY <1>1, <1>2, <1>3, <2>1, ExchangingKept
  <1> QED BY <1>1, <1>4, <1>5, <1>6, ExchangeStutter

\* Only an answer counts rows.
LEMMA AnsweredKept ==
  ASSUME UNCHANGED setup, \A w \in Workers: pc'[w] = "done" <=> pc[w] = "done"
  PROVE  Answered' = Answered
  <1>1. Workers' = Workers /\ Groups' = Groups /\ Rows' = Rows /\ \A w: AggRows(w)' = AggRows(w)
        /\ PerGroup' = PerGroup
    BY Same
  <1> QED BY <1>1 DEF Answered

\* A step of the main of a worker that writes no sum.
LEMMA MainStep ==
  ASSUME SessionInv, Exchanging, NEW w \in Workers, UNCHANGED <<clientVars, client, aggregation>>,
         pc' \in [Workers -> Stages], \A v \in Workers \ {w}: pc'[v] = pc[v],
         pc[w] \notin {"responding", "done"}, pc'[w] # "done", main'[w] = "loaded",
         \A v \in Workers \ {w}: main'[v] = main[v],
         main[w] \notin NotYet, partial' # {} => client = "sent"
  PROVE  Exchanging' /\ SumsSeen' = SumsSeen /\ ClientSeen' = ClientSeen
  <1>1. UNCHANGED setup
        /\ UNCHANGED <<cpc, client, responseReceived, clientEarly, handler, aggregation>>
    BY DEF clientVars, splitVars
  <1>2. Workers' = Workers
    BY <1>1, Same
  <1>3. Answered' = Answered
    BY <1>1, AnsweredKept
  <1>4. SumsSeen' = SumsSeen
    BY <1>1, SumsSeenKept DEF NotYet
  <1>5. ClientSeen' = ClientSeen
    BY <1>1 DEF ClientSeen
  <1>6. Exchanging'
    BY <1>1, <1>2, <1>3 DEF Exchanging, ClientPart, setup
  <1> QED BY <1>4, <1>5, <1>6

LEMMA MultiplySeen ==
  ASSUME SessionInv, Exchanging, NEW w \in Workers, LoadAndMultiply(w)
  PROVE  Exchanging' /\ Exchange!Multiply(w)
  <1>1. /\ main[w] = "woken" /\ main' = [main EXCEPT ![w] = "loaded"] /\ Multiply(w)
        /\ client' = client
    BY DEF LoadAndMultiply, clientSide
  <1>2. pc[w] = "multiply" /\ pc' = [pc EXCEPT ![w] = "send"] /\ UNCHANGED <<clientVars, aggregation, partial>>
    BY <1>1 DEF Multiply
  <1>3. main'[w] = "loaded" /\ \A v \in Workers \ {w}: main'[v] = main[v]
    BY <1>1 DEF SessionInv, SessionTyped
  <1>4. pc'[w] = "send" /\ pc' \in [Workers -> Stages] /\ \A v \in Workers \ {w}: pc'[v] = pc[v]
    BY <1>2 DEF Exchanging, Stages
  <1>5. partial' # {} => client = "sent"
    BY <1>2 DEF Exchanging, setup
  <1>6. Exchanging' /\ SumsSeen' = SumsSeen /\ ClientSeen' = ClientSeen
    BY <1>1, <1>2, <1>3, <1>4, <1>5, MainStep DEF NotYet
  <1>7. Exchange!Multiply(w)
    BY <1>1, <1>6, SameNames DEF Multiply, Exchange!Multiply, Exchange!clientVars, clientVars,
                                 Exchange!splitVars, splitVars, Exchange!setup, setup
  <1> QED BY <1>6, <1>7

LEMMA SendPartialSeen ==
  ASSUME SessionInv, Exchanging, NEW w \in Workers, SendPartial(w), UNCHANGED sessionVars
  PROVE  Exchanging' /\ Exchange!SendPartial(w)
  <1>1. pc[w] = "send" /\ UNCHANGED <<clientVars, aggregation, main, client>>
    BY DEF SendPartial, sessionVars, clientSide, workerSide
  <1>2. main[w] = "loaded" /\ client = "sent"
    BY <1>1, TakesPart
  <1>3. /\ pc'[w] \in {"send", "add"} /\ pc' \in [Workers -> Stages]
        /\ \A v \in Workers \ {w}: pc'[v] = pc[v]
    BY DEF SendPartial, Exchanging, Stages
  <1>4. Exchanging' /\ SumsSeen' = SumsSeen /\ ClientSeen' = ClientSeen
    BY <1>1, <1>2, <1>3, MainStep DEF NotYet
  <1>5. Exchange!SendPartial(w)
    BY <1>1, <1>4, SameNames DEF SendPartial, Exchange!SendPartial, Exchange!clientVars, clientVars,
                                 Exchange!splitVars, splitVars, Exchange!setup, setup
  <1> QED BY <1>4, <1>5

LEMMA AwaitOthersSeen ==
  ASSUME SessionInv, Exchanging, NEW w \in Workers, AwaitOthers(w), UNCHANGED sessionVars
  PROVE  Exchanging' /\ Exchange!AwaitOthers(w)
  <1>1. pc[w] = "wait" /\ UNCHANGED <<clientVars, aggregation, main, client, partial>>
    BY DEF AwaitOthers, sessionVars, clientSide, workerSide
  <1>2. main[w] = "loaded" /\ client = "sent"
    BY <1>1, TakesPart
  <1>3. /\ pc'[w] \in {"asleep", "respond"} /\ pc' \in [Workers -> Stages]
        /\ \A v \in Workers \ {w}: pc'[v] = pc[v]
    BY DEF AwaitOthers, Exchanging, Stages, Answering
  <1>4. Exchanging' /\ SumsSeen' = SumsSeen /\ ClientSeen' = ClientSeen
    BY <1>1, <1>2, <1>3, MainStep DEF NotYet
  <1>5. Exchange!AwaitOthers(w)
    BY <1>1, <1>4, SameNames DEF AwaitOthers, Exchange!AwaitOthers, Exchange!clientVars, clientVars,
                                 Exchange!splitVars, splitVars, Exchange!setup, setup
  <1> QED BY <1>4, <1>5

LEMMA RespondSeen ==
  ASSUME SessionInv, Exchanging, NEW w \in Workers, Respond(w), UNCHANGED sessionVars
  PROVE  Exchanging' /\ Exchange!Respond(w)
  <1>1. pc[w] = "respond" /\ UNCHANGED <<clientVars, aggregation, main, client, partial>>
    BY DEF Respond, sessionVars, clientSide, workerSide
  <1>2. main[w] = "loaded" /\ client = "sent"
    BY <1>1, TakesPart
  <1>3. /\ pc'[w] = "responding" /\ pc' \in [Workers -> Stages]
        /\ \A v \in Workers \ {w}: pc'[v] = pc[v]
    BY DEF Respond, Exchanging, Stages, Answering
  <1>4. Exchanging' /\ SumsSeen' = SumsSeen /\ ClientSeen' = ClientSeen
    BY <1>1, <1>2, <1>3, MainStep DEF NotYet
  <1>5. Exchange!Respond(w)
    BY <1>1, <1>4, SameNames DEF Respond, Exchange!Respond, Exchange!clientVars, clientVars,
                                 Exchange!splitVars, splitVars, Exchange!setup, setup
  <1> QED BY <1>4, <1>5

LEMMA AwaitSpuriousSeen ==
  ASSUME SessionInv, Exchanging, NEW w \in Workers, AwaitSpurious(w), UNCHANGED sessionVars
  PROVE  Exchanging' /\ Exchange!AwaitSpurious(w)
  <1>1. pc[w] = "asleep" /\ UNCHANGED <<clientVars, aggregation, main, client, partial>>
    BY DEF AwaitSpurious, sessionVars, clientSide, workerSide
  <1>2. main[w] = "loaded" /\ client = "sent"
    BY <1>1, TakesPart
  <1>3. /\ pc'[w] = "wait" /\ pc' \in [Workers -> Stages]
        /\ \A v \in Workers \ {w}: pc'[v] = pc[v]
    BY DEF AwaitSpurious, Exchanging, Stages
  <1>4. Exchanging' /\ SumsSeen' = SumsSeen /\ ClientSeen' = ClientSeen
    BY <1>1, <1>2, <1>3, MainStep DEF NotYet
  <1>5. Exchange!AwaitSpurious(w)
    BY <1>1, <1>4, SameNames DEF AwaitSpurious, Exchange!AwaitSpurious, Exchange!clientVars,
                                 clientVars, Exchange!splitVars, splitVars, Exchange!setup, setup
  <1> QED BY <1>4, <1>5

\* A sum is written in a session in which it has been allocated: the exchange sees it.
LEMMA SumWritten ==
  ASSUME SessionInv, Exchanging, NEW w \in Workers, NEW from, NEW first, client = "sent",
         UNCHANGED setup, UNCHANGED main,
         aggregation' = [aggregation EXCEPT ![w] = AddTo(w, from, first)]
  PROVE  /\ SumsSeen' = [SumsSeen EXCEPT ![w] = Exchange!AddTo(w, from, first)]
         /\ aggregation' = [v \in Workers |-> aggregation'[v]]
  <1>1. Workers' = Workers
    BY Same
  <1>2. \A v \in Workers: main[v] \notin NotYet /\ SumsSeen[v] = aggregation[v]
    BY TakesPart
  <1>3. Exchange!AddTo(w, from, first) = AddTo(w, from, first)
    BY <1>2, SameNames DEF Exchange!AddTo, AddTo
  <1> DEFINE sum == AddTo(w, from, first)
  <1>4. /\ aggregation'[w] = sum /\ \A v \in Workers \ {w}: aggregation'[v] = aggregation[v]
        /\ aggregation' = [v \in Workers |-> aggregation'[v]]
    BY DEF Exchanging, setup
  <1> HIDE DEF sum
  <1>5. SumsSeen' = [v \in Workers |-> aggregation'[v]]
    <2>1. SumsSeen' = [v \in Workers |-> IF main[v] \in NotYet
                                         THEN [row \in AggRows(v)' |-> {Warmup}] ELSE aggregation'[v]]
      BY <1>1 DEF SumsSeen, Warmup, NotYet
    <2> QED BY <1>2, <2>1
  <1>6. SumsSeen = [v \in Workers |-> SumsSeen[v]]
    BY DEF SumsSeen
  <1>7. SumsSeen' = [SumsSeen EXCEPT ![w] = sum]
    BY <1>2, <1>4, <1>5, <1>6
  <1> QED BY <1>3, <1>4, <1>7 DEF sum

LEMMA AddOwnSeen ==
  ASSUME SessionInv, Exchanging, NEW w \in Workers, AddOwn(w), UNCHANGED sessionVars
  PROVE  Exchanging' /\ Exchange!AddOwn(w)
  <1>1. /\ pc[w] = "add" /\ UNCHANGED <<clientVars, client, partial>> /\ UNCHANGED setup /\ UNCHANGED main
        /\ UNCHANGED <<cpc, handler, responseReceived, clientEarly>>
        /\ pc' = [pc EXCEPT ![w] = "wait"]
        /\ aggregation' = [aggregation EXCEPT ![w] = AddTo(w, w, AggStart(w))]
    BY DEF AddOwn, sessionVars, clientSide, workerSide, clientVars, splitVars
  <1>2. main[w] = "loaded" /\ client = "sent"
    BY <1>1, TakesPart
  <1>3. /\ SumsSeen' = [SumsSeen EXCEPT ![w] = Exchange!AddTo(w, w, AggStart(w))]
        /\ aggregation' = [v \in Workers |-> aggregation'[v]]
    BY <1>1, <1>2, SumWritten
  <1>4. ClientSeen' = ClientSeen
    BY <1>1 DEF ClientSeen
  <1>5. /\ pc'[w] = "wait" /\ pc' \in [Workers -> Stages]
        /\ \A v \in Workers \ {w}: pc'[v] = pc[v]
    BY <1>1 DEF Exchanging, Stages
  <1>6. Exchanging'
    <2>1. Workers' = Workers
      BY <1>1, Same
    <2>2. Answered' = Answered
      BY <1>1, <1>5, AnsweredKept
    <2> QED BY <1>1, <1>2, <1>3, <1>5, <2>1, <2>2 DEF Exchanging, ClientPart, setup
  <1>7. Exchange!AddOwn(w)
    BY <1>1, <1>3, <1>4, SameNames DEF AddOwn, Exchange!AddOwn, Exchange!clientVars, clientVars,
                                       Exchange!splitVars, splitVars, Exchange!setup, setup
  <1> QED BY <1>6, <1>7

LEMMA ReceivePartialSeen ==
  ASSUME SessionInv, Exchanging, NEW w \in Workers, ReceivePartial(w), UNCHANGED sessionVars
  PROVE  Exchanging' /\ Exchange!ReceivePartial(w)
  <1>0. PICK m \in partial:
          /\ m.to = w
          /\ partial' = partial \ {m}
          /\ aggregation' = [aggregation EXCEPT ![w] = AddTo(w, m.from, m.first)]
          /\ aggregationCount' = [aggregationCount EXCEPT ![w] = @ + 1]
          /\ pc' = IF aggregationCount[w] + 1 = PerGroup /\ pc[w] = "asleep"
                   THEN [pc EXCEPT ![w] = "wait"] ELSE pc
          /\ UNCHANGED <<sendTo, itr, clientVars>>
    BY DEF ReceivePartial
  <1>1. /\ UNCHANGED main /\ UNCHANGED client /\ UNCHANGED setup
        /\ UNCHANGED <<cpc, handler, responseReceived, clientEarly>> /\ client = "sent"
    BY <1>0 DEF sessionVars, clientSide, workerSide, clientVars, splitVars, Exchanging
  <1>3. /\ SumsSeen' = [SumsSeen EXCEPT ![w] = Exchange!AddTo(w, m.from, m.first)]
        /\ aggregation' = [v \in Workers |-> aggregation'[v]]
    <2>1. aggregation' = [aggregation EXCEPT ![w] = AddTo(w, m.from, m.first)]
      BY <1>0
    <2> DEFINE from == m.from
               first == m.first
    <2> HIDE DEF from, first
    <2>2. aggregation' = [aggregation EXCEPT ![w] = AddTo(w, from, first)]
      BY <2>1 DEF from, first
    <2>3. /\ SumsSeen' = [SumsSeen EXCEPT ![w] = Exchange!AddTo(w, from, first)]
          /\ aggregation' = [v \in Workers |-> aggregation'[v]]
      BY <1>1, <2>2, SumWritten
    <2> QED BY <2>3 DEF from, first
  <1>4. ClientSeen' = ClientSeen
    BY <1>1 DEF ClientSeen
  <1>5. /\ pc' \in [Workers -> Stages]
        /\ \A v \in Workers: pc'[v] = pc[v] \/ (pc[v] = "asleep" /\ pc'[v] = "wait")
    BY <1>0 DEF Exchanging, Stages
  <1>6. Exchanging'
    <2>1. Workers' = Workers
      BY <1>1, Same
    <2>2. Answered' = Answered
      BY <1>1, <1>5, AnsweredKept
    <2> QED BY <1>1, <1>3, <1>5, <2>1, <2>2 DEF Exchanging, ClientPart, setup
  <1>7. Exchange!ReceivePartial(w)
    BY <1>0, <1>3, <1>4, SameNames DEF Exchange!ReceivePartial, Exchange!clientVars, clientVars,
                                       Exchange!splitVars, splitVars, Exchange!setup, setup
  <1> QED BY <1>6, <1>7

\* A step of the handler of a response that answers nobody.
LEMMA HandlerMoves ==
  ASSUME SessionInv, Exchanging, NEW w \in Workers, NEW to, pc[w] = "responding", cpc # "done",
         program = "split",
         handler' = [handler EXCEPT ![w] = to],
         UNCHANGED <<workerVars, cpc, main, client, responseReceived, clientEarly>>, UNCHANGED setup
  PROVE  Exchanging' /\ SumsSeen' = SumsSeen /\ ClientSeen' = ClientSeen /\ ClientSeen # "done"
  <1>1. UNCHANGED <<pc, aggregation, partial, cpc, main, client, responseReceived, clientEarly>>
    BY DEF workerVars
  <1>2. Workers' = Workers
    BY Same
  <1>3. Answered' = Answered
    BY <1>1, AnsweredKept
  <1>4. SumsSeen' = SumsSeen
    BY <1>1, SumsSeenKept
  <1>5. ClientSeen' = ClientSeen /\ ClientSeen # "done"
    BY <1>1 DEF ClientSeen
  <1>6. Exchanging'
    BY <1>1, <1>2, <1>3 DEF Exchanging, ClientPart, setup
  <1> QED BY <1>4, <1>5, <1>6

LEMMA BeginResponseSeen ==
  ASSUME SessionInv, Exchanging, NEW w \in Workers, BeginResponse(w), UNCHANGED sessionVars
  PROVE  Exchanging' /\ Exchange!BeginResponse(w)
  <1>1. /\ pc[w] = "responding" /\ cpc # "done" /\ program = "split"
        /\ handler' = [handler EXCEPT ![w] = "copy"]
        /\ UNCHANGED <<workerVars, cpc, main, client, responseReceived, clientEarly>>
        /\ UNCHANGED setup
    BY DEF BeginResponse, sessionVars, clientSide, workerSide, Exchanging
  <1>2. Exchanging' /\ SumsSeen' = SumsSeen /\ ClientSeen' = ClientSeen /\ ClientSeen # "done"
    BY <1>1, HandlerMoves
  <1>3. SumsSeen[w] = aggregation[w]
    BY <1>1, TakesPart
  <1>4. /\ {v \in Exchange!Workers: handler[v] # "none"} = {v \in Workers: handler[v] # "none"}
        /\ Cardinality({v \in Workers: handler[v] # "none"}) < 2
    BY SameNames DEF BeginResponse
  <1>5. Exchange!Cardinality({v \in Exchange!Workers: handler[v] # "none"}) < 2
    BY <1>4, SameCardinality
  <1>6. Exchange!BeginResponse(w)
    BY <1>1, <1>2, <1>3, <1>5, SameNames
       DEF BeginResponse, Exchange!BeginResponse, Exchange!workerVars, workerVars, Exchange!setup, setup
  <1> QED BY <1>2, <1>6

LEMMA CopyBeginSeen ==
  ASSUME SessionInv, Exchanging, NEW w \in Workers, CopyBegin(w), UNCHANGED sessionVars
  PROVE  Exchanging' /\ Exchange!CopyBegin(w)
  <1>1. /\ pc[w] = "responding" /\ cpc # "done" /\ program = "split"
        /\ handler' = [handler EXCEPT ![w] = "copying"]
        /\ UNCHANGED <<workerVars, cpc, main, client, responseReceived, clientEarly>>
        /\ UNCHANGED setup
    BY DEF CopyBegin, sessionVars, clientSide, workerSide, Exchanging
  <1>2. Exchanging' /\ SumsSeen' = SumsSeen /\ ClientSeen' = ClientSeen /\ ClientSeen # "done"
    BY <1>1, HandlerMoves
  <1>3. SumsSeen[w] = aggregation[w]
    BY <1>1, TakesPart
  <1>4. Exchange!CopyBegin(w)
    BY <1>1, <1>2, <1>3, SameNames
       DEF CopyBegin, Exchange!CopyBegin, Exchange!workerVars, workerVars, Exchange!setup, setup
  <1> QED BY <1>2, <1>4

LEMMA CopyEndSeen ==
  ASSUME SessionInv, Exchanging, NEW w \in Workers, CopyEnd(w), UNCHANGED sessionVars
  PROVE  Exchanging' /\ Exchange!CopyEnd(w)
  <1>1. /\ pc[w] = "responding" /\ cpc # "done" /\ program = "split"
        /\ handler' = [handler EXCEPT ![w] = "decrypt"]
        /\ UNCHANGED <<workerVars, cpc, main, client, responseReceived, clientEarly>>
        /\ UNCHANGED setup
    BY DEF CopyEnd, sessionVars, clientSide, workerSide, Exchanging
  <1>2. Exchanging' /\ SumsSeen' = SumsSeen /\ ClientSeen' = ClientSeen /\ ClientSeen # "done"
    BY <1>1, HandlerMoves
  <1>3. SumsSeen[w] = aggregation[w]
    BY <1>1, TakesPart
  <1>4. Exchange!CopyEnd(w)
    BY <1>1, <1>2, <1>3, SameNames
       DEF CopyEnd, Exchange!CopyEnd, Exchange!workerVars, workerVars, Exchange!setup, setup
  <1> QED BY <1>2, <1>4

LEMMA DecryptRowSeen ==
  ASSUME SessionInv, Exchanging, NEW w \in Workers, DecryptRow(w), UNCHANGED sessionVars
  PROVE  Exchanging' /\ Exchange!DecryptRow(w)
  <1>1. /\ pc[w] = "responding" /\ cpc # "done" /\ program = "split"
        /\ handler' = [handler EXCEPT ![w] = "copy"]
        /\ UNCHANGED <<workerVars, cpc, main, client, responseReceived, clientEarly>>
        /\ UNCHANGED setup
    BY DEF DecryptRow, sessionVars, clientSide, workerSide, Exchanging
  <1>2. Exchanging' /\ SumsSeen' = SumsSeen /\ ClientSeen' = ClientSeen /\ ClientSeen # "done"
    BY <1>1, HandlerMoves
  <1>3. SumsSeen[w] = aggregation[w]
    BY <1>1, TakesPart
  <1>4. Exchange!DecryptRow(w)
    BY <1>1, <1>2, <1>3, SameNames
       DEF DecryptRow, Exchange!DecryptRow, Exchange!workerVars, workerVars, Exchange!setup, setup
  <1> QED BY <1>2, <1>4

LEMMA ReceiveResponseSeen ==
  ASSUME SessionInv, Exchanging, NEW w \in Workers, ReceiveResponse(w), UNCHANGED sessionVars
  PROVE  Exchanging' /\ Exchange!ReceiveResponse(w)
  <1>1. /\ pc[w] = "responding" /\ pc' = [pc EXCEPT ![w] = "done"] /\ cpc # "done"
        /\ UNCHANGED <<aggregation, partial, main, client, clientEarly>> /\ UNCHANGED setup
        /\ UNCHANGED handler /\ handler'[w] = "none"
        /\ responseReceived' = responseReceived + (AggEnd(w) - AggStart(w))
        /\ cpc' = IF responseReceived' = ClientRows /\ cpc = "asleep" THEN "woken" ELSE cpc
    BY DEF ReceiveResponse, sessionVars, clientSide, workerSide, Exchanging, splitVars
  <1>2. /\ responseReceived' = Cardinality(Answered')
        /\ ClientPart'
        /\ ClientSeen' = IF responseReceived' = ClientRows /\ ClientSeen = "asleep"
                         THEN "woken" ELSE ClientSeen
    BY <1>1, AnswerCounted
  <1>3. SumsSeen' = SumsSeen
    BY <1>1, SumsSeenKept
  <1>4. SumsSeen[w] = aggregation[w] /\ main[w] = "loaded" /\ ClientSeen # "done"
    BY <1>1, TakesPart DEF ClientSeen
  <1>5. Exchanging'
    <2>1. Workers' = Workers
      BY <1>1, Same
    <2>2. pc' \in [Workers -> Stages] /\ pc'[w] = "done" /\ \A v \in Workers \ {w}: pc'[v] = pc[v]
      BY <1>1 DEF Exchanging, Stages, Answering
    <2>3. \A v \in Workers \ {w}: handler'[v] = handler[v]
      BY <1>1 DEF Exchanging, setup
    <2> QED BY <1>1, <1>2, <1>4, <2>1, <2>2, <2>3 DEF Exchanging, setup
  <1>6. Exchange!ReceiveResponse(w)
    BY <1>1, <1>2, <1>3, <1>4, SameNames
       DEF ReceiveResponse, Exchange!ReceiveResponse, Exchange!splitVars, splitVars, Exchange!setup, setup
  <1> QED BY <1>5, <1>6

LEMMA CountRowsSeen ==
  ASSUME SessionInv, Exchanging, NEW w \in Workers, CountRows(w), UNCHANGED sessionVars
  PROVE  Exchanging' /\ Exchange!CountRows(w)
  <1>1. /\ pc[w] = "responding" /\ pc' = [pc EXCEPT ![w] = "done"] /\ cpc # "done"
        /\ UNCHANGED <<aggregation, partial, main, client, clientEarly>> /\ UNCHANGED setup
        /\ handler' = [handler EXCEPT ![w] = "none"] /\ handler'[w] = "none"
        /\ responseReceived' = responseReceived + (AggEnd(w) - AggStart(w))
        /\ cpc' = IF responseReceived' = ClientRows /\ cpc = "asleep" THEN "woken" ELSE cpc
    BY DEF CountRows, sessionVars, clientSide, workerSide, Exchanging, splitVars
  <1>2. /\ responseReceived' = Cardinality(Answered')
        /\ ClientPart'
        /\ ClientSeen' = IF responseReceived' = ClientRows /\ ClientSeen = "asleep"
                         THEN "woken" ELSE ClientSeen
    BY <1>1, AnswerCounted
  <1>3. SumsSeen' = SumsSeen
    BY <1>1, SumsSeenKept
  <1>4. SumsSeen[w] = aggregation[w] /\ main[w] = "loaded" /\ ClientSeen # "done"
    BY <1>1, TakesPart DEF ClientSeen
  <1>5. Exchanging'
    <2>1. Workers' = Workers
      BY <1>1, Same
    <2>2. pc' \in [Workers -> Stages] /\ pc'[w] = "done" /\ \A v \in Workers \ {w}: pc'[v] = pc[v]
      BY <1>1 DEF Exchanging, Stages, Answering
    <2>3. \A v \in Workers \ {w}: handler'[v] = handler[v]
      BY <1>1 DEF Exchanging, setup
    <2> QED BY <1>1, <1>2, <1>4, <2>1, <2>2, <2>3 DEF Exchanging, setup
  <1>6. Exchange!CountRows(w)
    BY <1>1, <1>2, <1>3, <1>4, SameNames
       DEF CountRows, Exchange!CountRows, Exchange!splitVars, splitVars, Exchange!setup, setup
  <1> QED BY <1>5, <1>6

\* Every step of a session is a step of the exchange or one that it does not see.
LEMMA StepSeen ==
  ASSUME SessionInv, Exchanging, [SessionNext]_allVars
  PROVE  Exchanging' /\ [Exchange!Next]_Exchange!vars
  <1>1. CASE UNCHANGED allVars
    <2>1. UNCHANGED vars /\ UNCHANGED client /\ UNCHANGED main
      BY <1>1 DEF allVars, sessionVars, clientSide, workerSide
    <2> QED BY <2>1, QuietStep
  <1>2. CASE ClientMain
    <2>1. CASE ClientWaits
      BY <2>1, ClientWaitsSeen
    <2>2. CASE ClientReport /\ UNCHANGED sessionVars
      BY <2>2, ClientReportSeen DEF Exchange!Next
    <2>3. CASE ClientRound1 \/ ClientReset \/ ClientCall \/ ClientCalled \/ ClientQuery
      <3>1. UNCHANGED vars /\ UNCHANGED main /\ client # "sent"
        BY <2>3 DEF ClientRound1, ClientReset, ClientCall, ClientCalled, ClientQuery, workerSide
      <3> QED BY <3>1, QuietStep
    <2> QED BY <1>2, <2>1, <2>2, <2>3 DEF ClientMain
  <1>3. CASE MasterMain \/ MasterServer
    <2>1. UNCHANGED vars /\ UNCHANGED main /\ UNCHANGED client
      BY <1>3 DEF MasterMain, MasterServer, MasterWaits, MasterStartSenders, MasterJoin,
                  MasterFirstBegin, MasterFirstEnd, MasterStoreBegin, MasterStoreEnd,
                  MasterBroadcast, clientSide, workerSide
    <2> QED BY <2>1, QuietStep
  <1>4. ASSUME NEW w \in AllWorkers, Sender(w)
        PROVE  Exchanging' /\ [Exchange!Next]_Exchange!vars
    <2>1. UNCHANGED vars /\ UNCHANGED main /\ UNCHANGED client
      BY <1>4 DEF Sender, SenderWaits, SenderSends, SenderCrash, clientSide, workerSide
    <2> QED BY <2>1, QuietStep
  <1>5. ASSUME NEW w \in AllWorkers, SessionWorker(w)
        PROVE  Exchanging' /\ [Exchange!Next]_Exchange!vars
    <2>1. w \in Workers /\ w \in Exchange!AllWorkers /\ w \in Exchange!Workers
      BY <1>5, SameNames DEF SessionWorker
    <2>2. CASE Allocate(w)
      BY <2>1, <2>2, AllocateSeen
    <2>3. CASE WorkerWaits(w)
      <3>1. /\ UNCHANGED vars /\ UNCHANGED client
            /\ main[w] = "running" /\ main' = [main EXCEPT ![w] = "asleep"]
        BY <2>3 DEF WorkerWaits, clientSide
      <3>2. main'[w] = "asleep" /\ \A v \in Workers \ {w}: main'[v] = main[v]
        BY <2>1, <3>1 DEF SessionInv, SessionTyped
      <3> QED BY <2>1, <3>1, <3>2, QuietStep DEF NotYet
    <2>4. ASSUME Exchange!WorkerMain(w) PROVE [Exchange!Next]_Exchange!vars
      BY <2>1, <2>4 DEF Exchange!Next
    <2>5. CASE LoadAndMultiply(w)
      BY <2>1, <2>4, <2>5, MultiplySeen DEF Exchange!WorkerMain
    <2>6. CASE (SendPartial(w) \/ AddOwn(w) \/ AwaitOthers(w) \/ Respond(w)) /\ UNCHANGED sessionVars
      BY <2>1, <2>4, <2>6, SendPartialSeen, AddOwnSeen, AwaitOthersSeen, RespondSeen
         DEF Exchange!WorkerMain
    <2>7. CASE WorkerCrash(w)
      <3>1. /\ UNCHANGED vars /\ UNCHANGED client
            /\ main' = [main EXCEPT ![w] = IF @ = "await" THEN "crashed1" ELSE "crashed2"]
            /\ main[w] \in {"await", "woken"}
        BY <2>7 DEF WorkerCrash, clientSide
      <3>2. /\ \/ main[w] = "await" /\ main'[w] = "crashed1"
               \/ main[w] = "woken" /\ main'[w] = "crashed2"
            /\ \A v \in Workers \ {w}: main'[v] = main[v]
        BY <2>1, <3>1 DEF SessionInv, SessionTyped
      <3> QED BY <2>1, <3>1, <3>2, QuietStep DEF NotYet
    <2> QED BY <1>5, <2>2, <2>3, <2>5, <2>6, <2>7 DEF SessionWorker
  <1>6. ASSUME NEW w \in AllWorkers, QueryServer(w)
        PROVE  Exchanging' /\ [Exchange!Next]_Exchange!vars
    <2>1. w \in Workers /\ UNCHANGED vars /\ UNCHANGED client
      BY <1>6 DEF QueryServer, WorkerFirstQuery, WorkerStoreBegin, WorkerStoreEnd,
                  WorkerBroadcast, clientSide
    <2>2. main' = main \/ main' = [main EXCEPT ![w] = IF @ = "asleep" THEN "woken" ELSE @]
      BY <1>6 DEF QueryServer, WorkerFirstQuery, WorkerStoreBegin, WorkerStoreEnd, WorkerBroadcast
    <2>3. \A v \in Workers: main'[v] = main[v] \/ (main[v] = "asleep" /\ main'[v] = "woken")
      BY <2>1, <2>2 DEF SessionInv, SessionTyped
    <2> QED BY <2>1, <2>3, QuietStep DEF NotYet
  <1>7. ASSUME NEW w \in AllWorkers, ExchangeServer(w)
        PROVE  Exchanging' /\ [Exchange!Next]_Exchange!vars
    <2>1. w \in Workers /\ w \in Exchange!AllWorkers /\ w \in Exchange!Workers
      BY <1>7, SameNames DEF ExchangeServer, WorkerServer
    <2>2. Exchanging' /\ Exchange!ReceivePartial(w)
      BY <1>7, <2>1, ReceivePartialSeen DEF ExchangeServer, WorkerServer
    <2> QED BY <2>1, <2>2 DEF Exchange!WorkerServer, Exchange!Next
  <1>8. ASSUME NEW w \in AllWorkers, ResponseServer(w)
        PROVE  Exchanging' /\ [Exchange!Next]_Exchange!vars
    <2>1. w \in Workers /\ w \in Exchange!AllWorkers /\ w \in Exchange!Workers
      BY <1>8, SameNames DEF ResponseServer, ClientServer
    <2>2. CASE CountWarmup(w)
      <3>1. /\ UNCHANGED vars /\ UNCHANGED client /\ WarmupCall(w)
            /\ main' = [main EXCEPT ![w] = IF @ = "warmup1" THEN "await" ELSE "running"]
        BY <2>2 DEF CountWarmup
      <3>2. \A v \in Workers \ {w}: main'[v] = main[v]
        BY <2>1, <3>1 DEF SessionInv, SessionTyped
      <3>3. \/ main[w] = "warmup1" /\ main'[w] = "await"
            \/ main[w] = "warmup2" /\ main'[w] = "running"
        BY <2>1, <3>1 DEF SessionInv, SessionTyped, WarmupCall
      <3> QED BY <2>1, <3>1, <3>2, <3>3, QuietStep DEF NotYet
    <2>3. CASE ClientServer(w) /\ UNCHANGED sessionVars
      <3>1. Exchanging' /\ Exchange!ClientServer(w)
        BY <2>1, <2>3, ReceiveResponseSeen, BeginResponseSeen, CopyBeginSeen, CopyEndSeen,
           DecryptRowSeen, CountRowsSeen DEF ClientServer, Exchange!ClientServer
      <3> QED BY <2>1, <3>1 DEF Exchange!Next
    <2> QED BY <1>8, <2>2, <2>3 DEF ResponseServer
  <1>9. CASE SpuriousReturn
    <2>1. CASE ClientSpurious /\ UNCHANGED sessionVars
      BY <2>1, ClientSpuriousSeen DEF Exchange!Next
    <2>2. CASE MasterSpurious
      <3>1. UNCHANGED vars /\ UNCHANGED main /\ UNCHANGED client
        BY <2>2 DEF MasterSpurious, clientSide, workerSide
      <3> QED BY <3>1, QuietStep
    <2>3. ASSUME NEW w \in AllWorkers, SenderSpurious(w)
          PROVE  Exchanging' /\ [Exchange!Next]_Exchange!vars
      <3>1. UNCHANGED vars /\ UNCHANGED main /\ UNCHANGED client
        BY <2>3 DEF SenderSpurious, clientSide, workerSide
      <3> QED BY <3>1, QuietStep
    <2>4. ASSUME NEW w \in AllWorkers, WorkerSpurious(w)
          PROVE  Exchanging' /\ [Exchange!Next]_Exchange!vars
      <3>1. /\ UNCHANGED vars /\ UNCHANGED client /\ w \in Workers
            /\ main[w] = "asleep" /\ main' = [main EXCEPT ![w] = "woken"]
        BY <2>4 DEF WorkerSpurious, clientSide
      <3>2. main'[w] = "woken" /\ \A v \in Workers \ {w}: main'[v] = main[v]
        BY <3>1 DEF SessionInv, SessionTyped
      <3> QED BY <3>1, <3>2, QuietStep DEF NotYet
    <2>5. ASSUME NEW w \in AllWorkers, AwaitSpurious(w) /\ UNCHANGED sessionVars
          PROVE  Exchanging' /\ [Exchange!Next]_Exchange!vars
      <3>1. w \in Workers /\ w \in Exchange!AllWorkers
        BY <2>5, SameNames DEF AwaitSpurious
      <3>2. Exchanging' /\ Exchange!AwaitSpurious(w)
        BY <2>5, <3>1, AwaitSpuriousSeen
      <3> QED BY <3>1, <3>2 DEF Exchange!Next
    <2> QED BY <1>9, <2>1, <2>2, <2>3, <2>4, <2>5 DEF SpuriousReturn
  <1> QED BY <1>1, <1>2, <1>3, <1>4, <1>5, <1>6, <1>7, <1>8, <1>9 DEF SessionNext

\* The session implements Aggregation, for every number of groups and workers and any number
\* of waits that return by themselves: it starts as an exchange starts, and each of its steps
\* is one of the exchange or hidden from it, so no partial result is lost in memory that is
\* allocated later, whoever multiplies too early, and the client goes on only after the last
\* row, or when its own wait returns, which is a step of Aggregation too.
THEOREM SessionImplementsExchange == SessionSpec => ImplementsExchange
  <1>1. SessionInit => SessionInv /\ Exchanging /\ Exchange!Init
    BY SessionInitInv, ExchangeInit
  <1>2. SessionInv /\ Exchanging /\ [SessionNext]_allVars =>
          SessionInv' /\ Exchanging' /\ [Exchange!Next]_Exchange!vars
    BY SessionStepInv, StepSeen
  <1> QED BY <1>1, <1>2, PTL DEF SessionSpec, ImplementsExchange, Exchange!Spec
=============================================================================
