------------------------------ MODULE WorkSplit ------------------------------
(***************************************************************************)
(* The product of step1 in one group, before the workers exchange their    *)
(* results: the threads of a worker multiply what WorkShare gives them,    *)
(* meet at mult_barrier, and then each sums some of the rows over all      *)
(* threads.                                                                *)
(*                                                                         *)
(* A ciphertext is the set of products added up in it.  The workers share  *)
(* nothing here, so they run one after the other.  RotationTree has how a  *)
(* thread gets from one rotation to the next.                              *)
(***************************************************************************)
EXTENDS WorkShare

VARIABLES
  shape,         \* how the group is set up
  worker,        \* the worker that runs
  main,          \* its main: program counter
  queries,       \* its queries, numbered within the group
  pc,            \* thread: program counter
  i,             \* thread: i of thread_multiply, then of the sum
  threadResult,  \* thread: thread_result, by row
  finalResult,   \* final_result, by row
  group          \* the rows of the workers that have finished, by row

threadVars == <<pc, i, threadResult>>
vars == <<shape, worker, main, queries, threadVars, finalResult, group>>

RowIds == 0 .. Rows - 1
NoRows == [row \in RowIds |-> {}]

\* start_resp, end_resp: the rows thread t sums, none if t >= Rows.
StartResp(t) == First(Rows, shape.threads, t)
EndResp(t) == End(Rows, shape.threads, t)

Init ==
  /\ shape \in Shapes
  /\ worker = 0 /\ main = "wait" /\ queries = <<>>
  /\ pc = [t \in Threads(shape) |-> "none"]
  /\ i = [t \in Threads(shape) |-> 0]
  /\ threadResult = [t \in Threads(shape) |-> NoRows]
  /\ finalResult = NoRows
  /\ group = NoRows

\* The query reaches the worker, and main creates the threads.
StartThreads ==
  /\ main = "wait"
  /\ queries' = WorkerQueries(shape, worker)
  /\ main' = "join"
  /\ pc' = [t \in Threads(shape) |-> "multiply"]
  /\ i' = [t \in Threads(shape) |-> StartRot(shape, worker, t)]
  /\ UNCHANGED <<shape, worker, threadResult, finalResult, group>>

\* One rotation of thread t for all rows.
Multiply(t) ==
  /\ pc[t] = "multiply" /\ i[t] < EndRot(shape, worker, t)
  /\ threadResult' = [threadResult EXCEPT ![t] =
       [row \in RowIds |-> @[row] \cup
          {[worker |-> worker, thread |-> t,
            query |-> queries[QueryIdx(shape, t)], half |-> Half(shape, worker, t),
            rot |-> i[t], plain |-> DbIndex(shape, worker, t, row, i[t])]}]]
  /\ i' = [i EXCEPT ![t] = @ + 1]
  /\ UNCHANGED <<shape, worker, main, queries, pc, finalResult, group>>

\* pthread_barrier_wait(&mult_barrier).
ReachBarrier(t) ==
  /\ pc[t] = "multiply" /\ i[t] >= EndRot(shape, worker, t)
  /\ pc' = [pc EXCEPT ![t] = "barrier"]
  /\ UNCHANGED <<shape, worker, main, queries, i, threadResult, finalResult, group>>

\* mult_barrier is made for NUM_THREAD threads.
BarrierOpen == \A t \in Threads(shape): pc[t] # "multiply"

\* Mutant of PassBarrier: a thread with no row goes on.
PassBarrierAll(t) ==
  /\ pc[t] = "barrier" /\ BarrierOpen
  /\ pc' = [pc EXCEPT ![t] = "sum"]
  /\ i' = [i EXCEPT ![t] = StartResp(t)]
  /\ UNCHANGED <<shape, worker, main, queries, threadResult, finalResult, group>>

PassBarrier(t) ==
  /\ pc[t] = "barrier" /\ BarrierOpen
  /\ pc' = [pc EXCEPT ![t] = IF t >= Rows THEN "done" ELSE "sum"]
  /\ i' = [i EXCEPT ![t] = StartResp(t)]
  /\ UNCHANGED <<shape, worker, main, queries, threadResult, finalResult, group>>

\* One row, summed over the results of all threads.
SumRow(t) ==
  /\ pc[t] = "sum"
  /\ finalResult' = [finalResult EXCEPT ![i[t]] = UNION {threadResult[u][i[t]] : u \in Threads(shape)}]
  /\ i' = [i EXCEPT ![t] = @ + 1]
  /\ pc' = [pc EXCEPT ![t] = IF i[t] + 1 < EndResp(t) THEN "sum" ELSE "done"]
  /\ UNCHANGED <<shape, worker, main, queries, threadResult, group>>

Thread(t) == Multiply(t) \/ ReachBarrier(t) \/ PassBarrier(t) \/ SumRow(t)

\* All threads are done: final_result goes to the exchange.  The next worker is
\* another process.
JoinThreads ==
  /\ main = "join" /\ \A t \in Threads(shape): pc[t] = "done"
  /\ group' = [row \in RowIds |-> group[row] \cup finalResult[row]]
  /\ IF worker + 1 < shape.workers THEN worker' = worker + 1 /\ main' = "wait"
     ELSE main' = "done" /\ UNCHANGED worker
  /\ threadResult' = [t \in Threads(shape) |-> NoRows] /\ finalResult' = NoRows
  /\ pc' = [t \in Threads(shape) |-> "none"]
  /\ UNCHANGED <<shape, queries, i>>

Next == StartThreads \/ (\E t \in Threads(shape): Thread(t)) \/ JoinThreads

Spec == Init /\ [][Next]_vars

-----------------------------------------------------------------------------
Product == [worker: Nat, thread: Nat, query: Nat, half: {0, 1}, rot: Nat, plain: Nat]

\* Every variable holds a value the code can give it.
TypeOK ==
  /\ shape \in Shapes /\ worker \in Workers(shape)
  /\ main \in {"wait", "join", "done"}
  /\ pc \in [Threads(shape) -> {"none", "multiply", "barrier", "sum", "done"}]
  /\ i \in [Threads(shape) -> Nat]
  /\ \A t \in Threads(shape): pc[t] = "sum" => i[t] \in RowIds
  /\ threadResult \in [Threads(shape) -> [RowIds -> SUBSET Product]]
  /\ finalResult \in [RowIds -> SUBSET Product]
  /\ group \in [RowIds -> SUBSET Product]

\* A thread sums when all others have multiplied their last rotation, so that no row it
\* has summed misses a product that comes later.
SumsSettled ==
  \A t \in Threads(shape): pc[t] = "sum" =>
    /\ \A u \in Threads(shape): pc[u] # "multiply"
    /\ \A row \in StartResp(t) .. i[t] - 1:
         finalResult[row] = UNION {threadResult[u][row] : u \in Threads(shape)}

\* The plaintext of a product lies in the database that main has sized, and in the part
\* of it that is for the row and, in merge, for the query and the half that the thread
\* has in its ciphertext: no row ever uses a plaintext of another.
PlaintextFits ==
  \A t \in Threads(shape), row \in RowIds: \A p \in threadResult[t][row]:
    /\ p.plain < DbElements(shape, worker)
    /\ IF IsMerge(shape)
       THEN \E q \in 0 .. shape.factor - 1, x \in 0 .. HalfN - 1:
              /\ p.plain = (q * Rows + row) * N + p.half * HalfN + x
              /\ queries[q] = p.query
       ELSE p.plain \in row * (N \div shape.factor) .. (row + 1) * (N \div shape.factor) - 1

\* Every row of the group is the whole product: each rotation of each half of each of
\* the client's queries counts once and only once, whatever worker and thread has it,
\* also when rotations and rows do not divide evenly.
ProductWhole ==
  main = "done" => \A row \in RowIds:
    /\ {<<p.query, p.half, p.rot>> : p \in group[row]} =
         (0 .. QueryCt(shape) - 1) \X {0, 1} \X (0 .. HalfN - 1)
    /\ \A p, q \in group[row]:
         (p.query = q.query /\ p.half = q.half /\ p.rot = q.rot) => p = q
=============================================================================
