----------------------------- MODULE RotationTree -----------------------------
(***************************************************************************)
(* The loops that rotate a query and multiply it by the diagonals of the   *)
(* matrix.  Galois keys exist for powers of two only.  "worker" is         *)
(* thread_multiply of step1 (merge.cpp, split.cpp), one thread of          *)
(* WorkShare: a rotation is reached by one step from a smaller one that a  *)
(* stack has kept.  "baseline" is the thread of baseline/server/worker,    *)
(* which walks from the query for every rotation of every row.  "matmult", *)
(* "opt1" and "opt2" are the programs of matmult/, which multiply a whole  *)
(* matrix in one thread, the last two with the stack.                      *)
(*                                                                         *)
(* A ciphertext is a query, whether its two halves are swapped             *)
(* (rotate_columns), and the amount by which they are rotated              *)
(* (rotate_rows).  A result is the bag of products added up in it.         *)
(***************************************************************************)
EXTENDS WorkShare, FiniteSets, SequencesExt

CONSTANT Queries   \* QUERY_CT of matmult

\* The powers of two up to HalfN, which is one itself: its divisors, all even but 1.
Powers == {d \in 1 .. HalfN : HalfN % d = 0}

ASSUME LoopAssumption == /\ \A d \in Powers: d = 1 \/ d % 2 = 0
                         /\ Queries \in Nat \ {0}

Keys == Powers \ {HalfN}
LogHalfN == Cardinality(Keys)

VARIABLES
  program,     \* which of the five
  at,          \* worker, baseline: shape, worker and thread
  pc,          \* program counter
  resIdx,      \* res_idx, in the programs that have a loop of rows outside
  qIdx,        \* q_idx or query_idx
  iter,        \* the half of the query
  i,           \* the rotation
  qCt,         \* q_ct
  k,           \* the next step of a walk, then the last step taken
  rotSum,      \* rot_sum or tot_rot
  temp,        \* temp_q_ct
  st,          \* the stack, its top last
  localResult, \* matmult: local_result
  result       \* thread_result, final_result or response, by row

run == <<program, at>>
loop == <<resIdx, qIdx, iter, i, qCt>>
vars == <<run, pc, loop, k, rotSum, temp, st, localResult, result>>

\* n & b, for a power b of two; n & 0 is 0.
HasBit(n, b) == b # 0 /\ (n \div b) % 2 = 1

HighBit(n) == CHOOSE b \in Powers: b <= n /\ n < 2 * b
LowBit(n) == CHOOSE b \in Powers: HasBit(n, b) /\ n % b = 0

\* The largest bit of n below b (the walk has not reached n: there is one).
NextBit(n, b) == HighBit(n % b)

\* get_previous_power_of_two
PreviousPower(n) == IF n \in Powers THEN n ELSE HighBit(n)

Fresh(q) == [query |-> q, swapped |-> 0, by |-> 0]
Swap(ct) == [ct EXCEPT !.swapped = 1 - @]
Rotate(ct, n) == [ct EXCEPT !.by = (@ + n) % HalfN]
Ciphertext == [query: Nat, swapped: {0, 1}, by: 0 .. HalfN - 1]

Whole == program \in {"matmult", "opt1", "opt2"}
Stacked == program \in {"worker", "opt1", "opt2"}
RowsInside == program \in {"worker", "opt2"}

start == IF Whole THEN 0 ELSE StartRot(at.shape, at.worker, at.thread)
end == IF Whole THEN HalfN ELSE EndRot(at.shape, at.worker, at.thread)

\* The queries are those of the group, the first half is that of the thread.
FirstQuery ==
  IF Whole THEN 0 ELSE WorkerQueries(at.shape, at.worker)[QueryIdx(at.shape, at.thread)]
FirstHalf == IF Whole THEN 0 ELSE Half(at.shape, at.worker, at.thread)
LastQuery == IF Whole THEN Queries - 1 ELSE FirstQuery
LastHalf == IF Whole THEN 1 ELSE FirstHalf
LastRow == IF RowsInside THEN 0 ELSE Rows - 1

\* The query as the loop of a half finds it first: a thread has swapped its copy.
FirstCt == IF FirstHalf = 1 THEN Swap(Fresh(FirstQuery)) ELSE Fresh(FirstQuery)

\* A matrix multiplied by one of the programs of matmult, or any thread of any worker of
\* any shape; baseline has the shapes of merge.
Init ==
  /\ \/ program \in {"matmult", "opt1", "opt2"} /\ at = <<>>
     \/ \E s \in Shapes: \E w \in Workers(s), t \in Threads(s):
          /\ program \in IF IsMerge(s) THEN {"worker", "baseline"} ELSE {"worker"}
          /\ at = [shape |-> s, worker |-> w, thread |-> t]
  /\ pc = "rotate"
  /\ resIdx = 0 /\ qIdx = FirstQuery /\ iter = FirstHalf /\ i = start
  /\ qCt = FirstCt
  /\ k = 0 /\ rotSum = 0 /\ temp = FirstCt
  /\ st = <<>>
  /\ localResult = EmptyBag
  /\ result = [row \in 0 .. Rows - 1 |-> EmptyBag]

data == <<localResult, result>>

\* An even rotation is the parent of others: keep it.
PushEven(stack, ct) == IF i # 0 /\ i % 2 = 0 THEN Append(stack, ct) ELSE stack

\* worker: the query itself.
RotateNone ==
  /\ program = "worker" /\ pc = "rotate" /\ i = 0
  /\ temp' = qCt /\ k' = 0
  /\ pc' = "multiply"
  /\ UNCHANGED <<run, loop, rotSum, st, data>>

\* worker: nothing is kept; walk down from the query, the highest bit first.
RotateAnew ==
  /\ program = "worker" /\ pc = "rotate" /\ i # 0
  /\ st = <<>>
  /\ temp' = qCt
  /\ k' = HighBit(i) /\ rotSum' = HighBit(i)
  /\ pc' = "walk"
  /\ UNCHANGED <<run, loop, st, data>>

\* Mutant of WalkDown: what comes before a gap in the bits is not kept.
WalkDownForget ==
  /\ program = "worker" /\ pc = "walk"
  /\ rotSum # i
  /\ temp' = Rotate(temp, k)
  /\ k' = NextBit(i, k)
  /\ rotSum' = rotSum + k'
  /\ UNCHANGED <<run, pc, loop, st, data>>

\* One bit of the walk; what comes before a gap in the bits is kept.
WalkDown ==
  /\ program = "worker" /\ pc = "walk"
  /\ rotSum # i
  /\ temp' = Rotate(temp, k)
  /\ st' = IF HasBit(i, k \div 2) THEN st ELSE Append(st, temp')
  /\ k' = NextBit(i, k)
  /\ rotSum' = rotSum + k'
  /\ UNCHANGED <<run, pc, loop, data>>

\* The last bit.
WalkEnds ==
  /\ program = "worker" /\ pc = "walk"
  /\ rotSum = i
  /\ temp' = Rotate(temp, k)
  /\ st' = PushEven(st, temp')
  /\ pc' = "multiply"
  /\ UNCHANGED <<run, loop, k, rotSum, data>>

\* opt1, opt2: nothing is kept; SEAL rotates by i, in one step if it has the key.
RotateByKey ==
  /\ program \in {"opt1", "opt2"} /\ pc = "rotate"
  /\ st = <<>>
  /\ temp' = Rotate(qCt, i) /\ k' = i
  /\ st' = PushEven(st, temp')
  /\ pc' = "multiply"
  /\ UNCHANGED <<run, loop, rotSum, data>>

\* Mutant of RotateFromTop: the parent is never dropped.
RotateFromTopKeep ==
  /\ Stacked /\ pc = "rotate" /\ i # 0
  /\ st # <<>>
  /\ k' = LowBit(i)
  /\ temp' = Rotate(Last(st), k')
  /\ st' = PushEven(st, temp')
  /\ pc' = "multiply"
  /\ UNCHANGED <<run, loop, rotSum, data>>

\* One step from the parent on top of the stack, which is dropped after its last child.
\* (The search of opt1 and opt2 for the low bit of 0 would not end.)
RotateFromTop ==
  /\ Stacked /\ pc = "rotate" /\ i # 0
  /\ st # <<>>
  /\ k' = LowBit(i)
  /\ temp' = Rotate(Last(st), k')
  /\ st' = PushEven(IF HasBit(i, 2 * LowBit(i)) THEN Front(st) ELSE st, temp')
  /\ pc' = "multiply"
  /\ UNCHANGED <<run, loop, rotSum, data>>

\* baseline, matmult: every rotation starts from the query.
CopyQuery ==
  /\ ~Stacked /\ pc = "rotate"
  /\ temp' = qCt /\ rotSum' = 0 /\ k' = 0
  /\ pc' = "walk"
  /\ UNCHANGED <<run, loop, st, data>>

\* baseline, matmult: while (tot_rot != i), a step by the largest power that fits.
StepUp ==
  /\ ~Stacked /\ pc = "walk" /\ rotSum # i
  /\ k' = PreviousPower(i - rotSum)
  /\ temp' = Rotate(temp, k')
  /\ rotSum' = rotSum + k'
  /\ UNCHANGED <<run, pc, loop, st, data>>

StepsDone ==
  /\ ~Stacked /\ pc = "walk" /\ rotSum = i
  /\ pc' = "multiply"
  /\ UNCHANGED <<run, loop, k, rotSum, temp, st, data>>

\* Mutant of Index: both halves take the plaintexts of the first.
IndexOneHalf(row) ==
  CASE program = "matmult" -> (row * Queries + qIdx) * N + i
    [] program \in {"opt1", "opt2"} -> qIdx * Rows * N + row * N + i
    [] OTHER -> DbIndex(at.shape, at.worker, at.thread, row, i)

\* The index of the plaintext in encoded_db.
Index(row) ==
  CASE program = "matmult" -> (row * Queries + qIdx) * N + iter * HalfN + i
    [] program \in {"opt1", "opt2"} -> qIdx * Rows * N + row * N + iter * HalfN + i
    [] OTHER -> DbIndex(at.shape, at.worker, at.thread, row, i)

Product(row) == SetToBag({<<temp, Index(row)>>})

\* The first product of a row is assigned to its result, the others are added.
IsFirst == IF Whole THEN qIdx = 0 /\ iter = 0 /\ i = 0 ELSE i = start

Multiply ==
  /\ program # "matmult" /\ pc = "multiply"
  /\ result' = [row \in DOMAIN result |->
                  IF RowsInside \/ row = resIdx
                  THEN (IF IsFirst THEN EmptyBag ELSE result[row]) (+) Product(row)
                  ELSE result[row]]
  /\ pc' = "next"
  /\ UNCHANGED <<run, loop, k, rotSum, temp, st, localResult>>

\* matmult sums a query's products of a row in local_result, which begins with those of
\* its first half, and adds that to the response.
MultiplyLocal ==
  /\ program = "matmult" /\ pc = "multiply"
  /\ localResult' = (IF iter = 0 /\ i = 0 THEN EmptyBag ELSE localResult) (+) Product(resIdx)
  /\ result' = IF iter = 1 /\ i + 1 = end
               THEN [result EXCEPT ![resIdx] =
                       IF qIdx = 0 THEN localResult' ELSE @ (+) localResult']
               ELSE result
  /\ pc' = "next"
  /\ UNCHANGED <<run, loop, k, rotSum, temp, st>>

kept == <<run, k, rotSum, temp, st, data>>

NextRotation ==
  /\ pc = "next" /\ i + 1 < end
  /\ i' = i + 1
  /\ pc' = "rotate"
  /\ UNCHANGED <<kept, resIdx, qIdx, iter, qCt>>

\* matmult: the other half of the query.
NextHalf ==
  /\ pc = "next" /\ i + 1 = end /\ iter < LastHalf
  /\ i' = start /\ iter' = iter + 1
  /\ qCt' = Swap(qCt)
  /\ pc' = "rotate"
  /\ UNCHANGED <<kept, resIdx, qIdx>>

\* matmult: the next query, in its own order.
NextQuery ==
  /\ pc = "next" /\ i + 1 = end /\ iter = LastHalf /\ qIdx < LastQuery
  /\ i' = start /\ iter' = 0 /\ qIdx' = qIdx + 1
  /\ qCt' = Fresh(qIdx')
  /\ pc' = "rotate"
  /\ UNCHANGED <<kept, resIdx>>

\* matmult, opt1, baseline: the next row, from the first query again.
NextRow ==
  /\ pc = "next" /\ i + 1 = end /\ iter = LastHalf /\ qIdx = LastQuery /\ resIdx < LastRow
  /\ i' = start /\ iter' = FirstHalf /\ qIdx' = FirstQuery /\ resIdx' = resIdx + 1
  /\ qCt' = FirstCt
  /\ pc' = "rotate"
  /\ UNCHANGED kept

Finish ==
  /\ pc = "next" /\ i + 1 = end /\ iter = LastHalf /\ qIdx = LastQuery /\ resIdx = LastRow
  /\ pc' = "done"
  /\ UNCHANGED <<kept, loop>>

Next ==
  \/ RotateNone \/ RotateAnew \/ WalkDown \/ WalkEnds \/ RotateByKey \/ RotateFromTop
  \/ CopyQuery \/ StepUp \/ StepsDone
  \/ Multiply \/ MultiplyLocal
  \/ NextRotation \/ NextHalf \/ NextQuery \/ NextRow \/ Finish

Spec == Init /\ [][Next]_vars

-----------------------------------------------------------------------------
\* Every variable holds a value the loops can give it; there is a Galois key for every
\* step; the stack never keeps more ciphertexts than half the bits of a rotation.
TypeOK ==
  /\ start \in 0 .. HalfN /\ end \in start .. HalfN
  /\ pc \in {"rotate", "walk", "multiply", "next", "done"}
  /\ resIdx \in 0 .. LastRow /\ qIdx \in FirstQuery .. LastQuery
  /\ iter \in FirstHalf .. LastHalf /\ i \in start .. end
  /\ k \in Keys \cup {0} /\ rotSum \in 0 .. HalfN - 1
  /\ temp \in Ciphertext /\ qCt \in Ciphertext
  /\ st \in Seq(Ciphertext) /\ 2 * Len(st) <= LogHalfN

\* The ancestors of n that still have a child to come: n with the bits below one of its
\* zero bits cleared.
Pending(n) == {n - (n % b) : b \in {p \in Powers: p < n /\ ~ HasBit(n, p)}}

\* Between two rounds the stack holds exactly the rotations a later one is reached
\* from, each once and the one needed next on top, whether they were put there by a
\* walk or by single steps. After the last rotation that is nothing: opt1 and opt2 go
\* through the rotations again with the same stack.
StackIsPending ==
  LET n == IF pc = "rotate" THEN i - 1 ELSE i
  IN (Stacked /\ pc # "walk") =>
       /\ {ct.by : ct \in ToSet(st)} = IF n < start THEN {} ELSE Pending(n)
       /\ \A a, b \in DOMAIN st: a < b => st[a].by < st[b].by

\* Wherever a thread starts, and whatever the stack has been used for before, what a
\* round multiplies is its own query, its half in front, rotated by i; and the stack
\* holds what the later rounds need.
RotationRight ==
  /\ pc = "multiply" => temp = [query |-> qIdx, swapped |-> iter, by |-> i]
  /\ StackIsPending

\* The column of the client's vector in slot j of a ciphertext.
ColumnOf(ct, j) ==
  (ct.query * N) + (((j \div HalfN + ct.swapped) % 2) * HalfN) + ((j + ct.by) % HalfN)

\* get_encoded_block: the column of the block that slot j of plaintext x is taken from.
EncodedColumn(x, j) ==
  (((j \div HalfN + x \div HalfN) % 2) * HalfN) + ((x + j) % HalfN)

\* The query that the block of a plaintext belongs to, and the row.
BlockOf(index) ==
  IF program = "matmult" THEN [query |-> (index \div N) % Queries, row |-> (index \div N) \div Queries]
  ELSE [query |-> (index \div N) \div Rows, row |-> (index \div N) % Rows]

\* What every thread of every program adds up in each row: each rotation of its part of
\* the query once, and in each slot of it the entry of the matrix in the slot's column,
\* which is the product of the matrix and the vector, if the thread starts at rotation 0.
\* The index of merge and baseline counts from the start of the thread (step1 merge.cpp:583,
\* baseline worker.cpp:591), the encoded block from 0: a thread that starts elsewhere
\* multiplies rotation i by diagonal i - start, so that the entry is the one of the column
\* start places before, in each slot, never of another half, row or query. The database
\* of a worker of split holds no block: there it is each rotation once.
ProductByDiagonals ==
  pc = "done" =>
    \A row \in 0 .. Rows - 1:
      /\ {p[1] : p \in DOMAIN result[row]} =
           [query: FirstQuery .. LastQuery, swapped: FirstHalf .. LastHalf, by: start .. end - 1]
      /\ \A p \in DOMAIN result[row]: result[row][p] = 1
      /\ Whole \/ IsMerge(at.shape) => \A p \in DOMAIN result[row]:
           LET block == BlockOf(p[2])
               query == block.query + IF Whole THEN 0 ELSE FirstQuery - QueryIdx(at.shape, at.thread)
           IN /\ block.row = row
              /\ p[2] % HalfN = p[1].by - start
              /\ \A j \in 0 .. N - 1:
                   ColumnOf(p[1], j) = query * N + EncodedColumn((p[2] % N) + start, j)
=============================================================================
