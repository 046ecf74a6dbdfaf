------------------------------ MODULE WorkShare ------------------------------
(***************************************************************************)
(* What each worker and each thread of step1 has to do of the product of a *)
(* group: the queries the master gives a worker, and the query, the half   *)
(* of it, the rotations and the plaintexts of a thread.                    *)
(*                                                                         *)
(* In merge a worker has SCALE_FACTOR queries, its threads are in pairs    *)
(* that share a range of rotations, and the odd one of each rotates the    *)
(* columns first, which gives the other half.  In split SPLIT_FACTOR       *)
(* workers share a query, and the half goes by worker.                     *)
(***************************************************************************)
EXTENDS Partition

CONSTANTS HalfN,    \* N / 2, the rotations of one half of a query
          Rows,     \* RESPONSE_CT of the workers
          Shapes    \* program, SCALE_FACTOR or SPLIT_FACTOR, workers of a group, threads

N == 2 * HalfN

\* As run_experiments.py sets them: merge has an even number of threads per query,
\* split an even number of workers per query and whole queries in a group; every thread
\* has at least one rotation.  A worker of split with one rotation more than others has
\* several threads: the rows of its database are as far apart as those of the others,
\* and a single thread would read on into the next row.
ShapeOK(s) ==
  /\ s.factor \in Nat \ {0} /\ s.workers \in Nat \ {0} /\ s.threads \in Nat \ {0}
  /\ s.program = "merge" => s.threads % (2 * s.factor) = 0 /\ s.threads <= s.factor * N
  /\ s.program = "split" => /\ s.factor % 2 = 0 /\ s.workers % s.factor = 0
                            /\ s.threads <= N \div s.factor
                            /\ s.threads > 1 \/ N % s.factor = 0

ASSUME SizesAssumption == HalfN \in Nat \ {0} /\ Rows \in Nat \ {0}
ASSUME ShapesAssumption ==
  \A s \in Shapes: s.program \in {"merge", "split"} /\ ShapeOK(s)

IsMerge(s) == s.program = "merge"
Workers(s) == 0 .. s.workers - 1
Threads(s) == 0 .. s.threads - 1

\* The queries of the whole group: QUERY_CT of the client.
QueryCt(s) == IF IsMerge(s) THEN s.workers * s.factor ELSE s.workers \div s.factor

\* sendToWorker: the slice of serialized_query that worker w gets.
WorkerQueries(s, w) ==
  IF IsMerge(s) THEN [q \in 0 .. s.factor - 1 |-> w * s.factor + q]
  ELSE [q \in {0} |-> w \div s.factor]

\* THREAD_PER_QUERY
ThreadPerQuery(s) == s.threads \div s.factor

\* query_idx of merge: the query of thread t; split has one for all.
QueryIdx(s, t) == IF IsMerge(s) THEN t \div ThreadPerQuery(s) ELSE 0

\* iter of merge; in split main has rotated the columns for the second half of the
\* workers of a query.
Half(s, w, t) ==
  IF IsMerge(s) THEN t % 2 ELSE IF w % s.factor >= s.factor \div 2 THEN 1 ELSE 0

\* worker_rot_start, worker_tot_rot of split.
WorkerRotStart(s, w) == First(HalfN, s.factor \div 2, w % (s.factor \div 2))
WorkerTotRot(s, w) == Share(HalfN, s.factor \div 2, w % (s.factor \div 2))

\* The pair of threads in merge, and the rotations left when all pairs have the same.
Pair(s, t) == (t % ThreadPerQuery(s)) \div 2
RestRot(s) == HalfN % (ThreadPerQuery(s) \div 2)

\* Mutant of StartRot: the threads before do not count for the rest.
StartRotPlain(s, w, t) ==
  IF IsMerge(s) THEN Pair(s, t) * (N \div ThreadPerQuery(s))
  ELSE WorkerRotStart(s, w) + First(WorkerTotRot(s, w), s.threads, t)

\* start_rot
StartRot(s, w, t) ==
  IF IsMerge(s)
  THEN Pair(s, t) * (N \div ThreadPerQuery(s))
         + IF RestRot(s) > Pair(s, t) THEN Pair(s, t) ELSE RestRot(s)
  ELSE WorkerRotStart(s, w) + First(WorkerTotRot(s, w), s.threads, t)

\* end_rot
EndRot(s, w, t) ==
  StartRot(s, w, t) +
    IF IsMerge(s) THEN (N \div ThreadPerQuery(s)) + IF RestRot(s) > Pair(s, t) THEN 1 ELSE 0
    ELSE Share(WorkerTotRot(s, w), s.threads, t)

\* The size of encoded_db.
DbElements(s, w) == IF IsMerge(s) THEN N * s.factor * Rows ELSE WorkerTotRot(s, w) * Rows

\* Mutant of DbIndex: the blocks of the queries are one row apart.
DbIndexShort(s, w, t, row, rot) ==
  (rot - StartRot(s, w, t)) +
    IF IsMerge(s) THEN QueryIdx(s, t) * N + row * N + Half(s, w, t) * HalfN
    ELSE row * (N \div s.factor)

\* The index in encoded_db of the plaintext for a row and a rotation.
DbIndex(s, w, t, row, rot) ==
  (rot - StartRot(s, w, t)) +
    IF IsMerge(s) THEN QueryIdx(s, t) * Rows * N + row * N + Half(s, w, t) * HalfN
    ELSE row * (N \div s.factor)
=============================================================================
