# Coeus in TLA+

Coeus ranks and retrieves documents obliviously: a client sends encrypted
queries, a master hands them to workers, the workers compute on ciphertexts and
answer the client directly. This directory models the programs of the
repository in TLA+, checks the models with TLC and proves the main results with
TLAPS. Line numbers are those of the commit this directory is kept beside;
`PROJECT.json` maps every definition to the lines it models.

## The system

| part | source | state it keeps | operations |
|---|---|---|---|
| query session, step2 | `step2/client/client.cpp`, `step2/master/master.cpp`, `step2/worker/worker.cpp` | warm-up and response counters, `warmup_received`, `serialized_query`, five condition variables | `sendQuery` (master, worker), `sendResponse` (client), `sendToWorker` threads, the main threads |
| PIR server | `step2/worker/pir_server.cpp` | `request_received`, `expanded_query`, `intermediate_plain`, `partial_results`, two barriers | `expand_thread`, `generate_reply`, `pir` threads |
| batch codes | `step2/common/cuckoo.cpp`, `getIndices` of the client | buckets of each key, placed keys | `insert`, `get_schedule`, `encode` |
| PIR client and parameters | `step2/client/pir_client.cpp`, `pir.cpp` | dimensions, indices, inverse scales | `generate_query`, `decode_reply`, codecs |
| ranking session | `baseline/*`, `step1/client/*`, `step1/server/master/*` | as step2; the query vector and its slices, `agg_start`, `agg_end`, the sums' memory | as step2, and `sendPartialResult` between workers |
| ranking worker | `step1/server/worker/{merge,split}.cpp` | `encoded_db`, `thread_result`, `aggregation_result`, `aggregation_count` | `populate_db`, `thread_multiply`, `thread_sum`, `sendPartialResult` |
| baseline worker | `baseline/server/worker/worker.cpp` | as the ranking worker | as step1, each rotation from the query itself |
| step3 | `step3/*` | as step2, one database | as step2 |
| matmult | `matmult/*.cpp` | matrix blocks, rotation stack | the product in one process |
| orchestration | `aws_scripts/*` | result files, ssh connections, `worker_ip.txt` on the machines | connect, start, read, write, skip; `kill_all.py`; the operator's restarts |

How they interact: the client calls the master (`sendQuery`), each sender thread
of the master calls its worker (`sendQuery`), workers call the client
(`sendResponse`) and, in step1 and baseline, each other (`sendPartialResult`).
There are two warm-up rounds before the query: every worker reports when its
database is built, the client sends a dummy query, every worker reports again
when that has arrived. Inside a process the RPC thread and the main thread (and
the pool of the PIR server) share globals, some of them without a lock.

What is hard: waits on condition variables without a predicate, globals assigned
without a lock that are safe only by the order of the protocol, results that
arrive in any order, barriers between phases that read what other threads wrote,
the arithmetic of uneven divisions, the relocation chains of the cuckoo table, and
scripts that may be stopped anywhere and resume from the files they find. `PROJECT.json` lists each at its line under "hazards".

## Modules

| module | models | checked by | proved in |
|---|---|---|---|
| `QuerySession` | a step2 session: client, master with sender threads, workers | `QuerySession*.cfg` | `QuerySessionProofs` |
| `SessionRounds` | the abstract session: three rounds of reports | as property `ImplementsRounds` | `QuerySessionProofs` |
| `PirServer` | one query in a worker: expansion, broadcast, two barriers | `PirServer*.cfg` | `PirServerProofs` |
| `Cuckoo` | schedule of a batch and indices of the buckets | `Cuckoo.cfg` through `MCCuckoo` | `CuckooProofs` |
| `PirCodec` | bytes to coefficients and back | with `PirQuery` | `PirServerProofs` |
| `PirQuery` | query, expansion and reply of one PIR database | `PirQuery.cfg` through `MCPirQuery` | `PirServerProofs` |
| `Partition` | the even division used for rows, rotations and threads | with `Aggregation` | `PartitionProofs` |
| `Aggregation` | the workers' row exchange and the client's result | `Aggregation*.cfg` through `MCAggregation` | `RankSessionProofs` |
| `RankSession` | a ranking session around the exchange of `Aggregation` | `RankSession.cfg` through `MCRankSession` | `RankSessionProofs` |
| `WorkShare` | what each worker and thread of step1 has to multiply | with `WorkSplit`, `RotationTree` | `WorkSplitProofs` |
| `WorkSplit` | the threads' products, the barrier and the sums of a group | `WorkSplit.cfg` through `MCWorkSplit` | `WorkSplitProofs` |
| `RotationTree` | the loops of rotations and products: step1, baseline, matmult | `RotationTree.cfg` through `MCRotationTree` | `RotationTreeProofs` |
| `Experiments` | the scripts of the figures, their resume rules, kill and restart | `Experiments.cfg` through `MCExperiments` | `ExperimentsProofs` |

What composes what: `RankSession` extends `Aggregation` (its steps are steps of the
session) and instantiates it again as the abstract exchange it implements;
`QuerySession` instantiates `SessionRounds`; `WorkSplit` and `RotationTree` extend
`WorkShare`, which, like `Aggregation`, extends `Partition`; `PirQuery` extends
`PirCodec` and `Partition`.

### QuerySession

A process is a set of program counters: `cpc` for the client's main, `mpc` for
the master's, `spc[w]` for the sender threads, `wpc[w]` for the workers' mains,
`mh` and `wh[w]` for the `sendQuery` handlers, `counting` for `sendResponse`
between reading and writing `warmup_count`. A connection is one variable that
holds the outstanding request or `"reply"`. `pthread_cond_wait` is two states,
the one before the thread holds the lock and `"asleep"`; a signal moves only a
thread that is asleep. It may also return without a signal: a wait in a loop then reads
its condition again, but four waits have no condition around them (client.cpp:207,
master.cpp:67 and :144, worker.cpp:144). For these a history variable tells whose wait
returned by itself (`clientEarly`, `masterEarly`, `senderEarly`, `workerEarly`), and
`MaxEarly` bounds how many do in a run. What such a thread reads may be the warm-up, a
half-assigned string or an empty one, and may kill its process: an empty vector
(master), bytes that SEAL refuses (worker, worker.cpp:147-150). An assignment of `serialized_query` outside the lock is
two steps, and the variable is `"torn"` in between. The client's reset of
`warmup_count` (client.cpp:142) is one unlocked step.

Fairness is weak fairness of every thread (each keeps being scheduled) and of
every handler (the library serves what it has received). Nothing is assumed
about the order, so a thread may be late for a signal; and no wait is assumed to return
without one, so that this cannot save a session from hanging.

- `QuerySession.cfg` (2 workers, with and without a schedule, up to 2 waits that return
  by themselves): the counters are exact despite the unlocked reset, and the query goes
  out when every worker is armed, whatever the waits do. `NoTornQuery` and
  `ReportNeedsAllAnswers` say what the waits without a condition put at risk: a thread
  woken by its signal reads the whole query of its round, and what a worker answers is
  something else only if its own wait or its sender's returned by itself; the report needs
  every answer unless the client's own wait returned by itself. Both warm-up rounds end
  unless the master's first wait misses its signal or returns before the first query is
  there; a scheduled session ends unless one of the four waits misses its signal or returns
  by itself; and the session implements `SessionRounds`, in which such a return excuses a
  worker, or all of them, from the last round. Two workers give a first and a last report,
  one that is excused beside one that is not; two returns, that of a sender together with
  that of its worker, the client or the master. A return in a loop, which only leads back
  to its condition, is not bounded.
- `QuerySessionHang.cfg`: `SessionEnds` is violated. `aws_scripts/README.md:17`
  puts hangs down to the network and to AWS; here there is neither, and the
  client's reply arrives before it waits (client.cpp:203-207), or a sender or a
  worker is late in the same way (master.cpp:67, :144, worker.cpp:144).

### PirServer

A plaintext of `intermediate_plain` is its column and digit, a ciphertext of
`partial_results` the bag of the products added up in it; a product with the
plaintext of column 0 in place of another column's is visible as such. `request_received` is read without the
lock and the wait may wake spuriously, both as in the code.

- `PirServer.cfg` (3 threads, 4 columns, 2 digits): work starts only after the
  expansion, the barriers order the shared reads, the reply adds each column up
  once. Four columns over three threads divide unevenly and the third thread has
  no digit. `OnlyMissedBroadcastHangs` names the one way to hang: the query was
  there, the thread had read the old flag and sleeps through the broadcast.
- `PirServerReply.cfg` (2 threads, 2 columns, 3 digits: the other rule by which
  digits are shared out): `ReplyCorrect` is violated. Line 322 multiplies a
  thread's first query entry by column 0.

The proofs are for every number of threads, columns and digits, so they also
cover threads without a column and fewer threads than digits.

### PirQuery, PirCodec

A ciphertext is the polynomial under it, a function from exponents to
coefficients modulo `Modulus` = 2^LogT + 1 with X^N = -1; the homomorphic operations are those on
polynomials, noise is left out. The client encodes the indices of a plaintext as
one monomial per dimension, `ExpandLevel` and `ExpandLast` are the levels of
`expand_query` (one thread per dimension, interleaved), and `DecodeReply` finds
the entry that both expanded vectors single out once the client's scales
are applied. For it the server takes the plaintext of that row and column, but for the
first column of a pir thread that of column 0 (`Fetched`; pir_server.cpp:322, the finding
of `PirServerReply.cfg`). A thread without a column multiplies what lies behind the end
of the expanded query: then the reply may be what it would be, or nothing of the
database, or may never come. The client has one `PIRClient` for all buckets: `GenerateQuery` is
called for two buckets, so the reply of the first is decoded with the indices
and scales of the second, as in the code.

`PirCodec` is `bytes_to_coeffs` and `coeffs_to_bytes`: a stream of bits cut into
`LogT` bits per coefficient, with the room left in the last one. `set_database` packs
the bytes of the elements of a plaintext and pads it with ones; the answer is the
bytes of the wanted element. No program of the repository calls
`coeffs_to_bytes` (the clients print no content); here it ends the retrieval,
which is what it is for.

- `PirQuery.cfg`: degree 8, modulus 9 (three bits per coefficient), elements of one
  byte and therefore two per plaintext and bytes split over three coefficients,
  buckets of 1 to 57 plaintexts and every wanted element of each. Degree 8 gives
  expansions of one to three levels; the logarithm of the scale is smaller and not
  smaller than logt, so both signs of the inverse scale occur. The dimensions
  include squares, s x (s+1), (s+1) x (s+1), and a dimension of exactly 8, where the
  client takes the logarithm of 0 and throws. The server has one or three threads, three
  being more than the columns of the smallest database and dividing others unevenly. `ExpandedIsUnit` says what the
  expansion is for, and `RetrievalRight` what becomes of the whole: every plaintext has an
  address of its own, and the bytes that come out are those of the wanted element, except
  that for an element in the first column of a thread other than the first they are those
  of the element at the same place of column 0 of its row. With the 12 or 16 threads of
  the scripts as many columns are concerned but one. It claims nothing of a reply with
  a thread without a column.

Two named assumptions: dimensions are at most N (`OneCiphertextAssumption`), since
the worker reads one ciphertext per dimension (worker.cpp:150); and a plaintext has
at least one coefficient of padding (`SizeAssumption`). Without padding, zeros at
the end of the last element disappear with decryption, which drops leading zero
coefficients. The elements of step2 leave some (11 of 320 bytes, in coefficients of
15 bits); an element of step3 (`ITEM_SIZE`, 3840 bytes) fills its plaintext exactly, so
that there the bytes could not be told from shorter ones, if anything read them.

### Cuckoo

Three keys out of seven, five buckets (`ceil(1.5 * 3)`), tables under which the
keys collide; batches with repetitions, as the client draws them. The relocation
bound is 3. `KeysInPlace`: no key is lost or doubled by a chain of relocations, and
each lies in a bucket of its own; a schedule is complete and injective, and the
recursion ends. `IndicesRight` states the client's indices for keys that are not
bucket numbers: a key that is also the number of a scheduled bucket shadows the
index of that bucket (client.cpp:311), and the client then asks for another item.
One random draw stands for the random indices of all idle buckets. In one of the
tables bucket 4 has no item: there the remainder by its size (client.cpp:327) ends
the client, unless the key 4 happens to be stored in the place of the bucket.

### Aggregation, Partition

`Aggregation` has one counter and one sum per worker; a sum is a bag of
(worker, row) contributions. A worker's handler runs as one step because it holds
`aggregation_lock` throughout; the client starts asleep because its missed
wake-up is the subject of the sessions. Fairness is that of the threads, as above.
The waits may return by themselves: a worker's, which has a condition, then waits again;
the client's has none, and `clientEarly` tells that it returned before the last row.
The client is the one of merge.cpp, which stores the rows under a lock, or the
one of split.cpp, whose two RPC threads copy each row to one shared ciphertext
and decrypt it there, without a lock. There a row is a start and an end of the copy
(split.cpp:284) and the decryption (:288). Between start and end the ciphertext is a
`Mixture`; when the other thread's copy overlaps a copy or a decryption, the outcome is
any of the two rows or a mixture (`racing` has the threads that were overlapped, `raced`
the rows whose scores such a thread has written).

- `Aggregation.cfg` (4 rows: one group of 3 workers, which divide them unevenly,
  and two groups of one): slices fit, `SumsRight` (a sum holds each product once
  whoever comes first, and is whole when it is sent), and every exchange ends.
  `ReportWhole`: the client reports only when every row is there, unless its wait returned
  by itself, and each row is then the whole sum of a group; in split this holds for the
  rows during whose copy and decryption the other thread stayed away, and nothing does
  for the others. A worker numbers its rows within its group (merge.cpp:184), so the rows
  of all groups end up at the places of the first; `ReportWhole` has them there, as the
  code does. Two groups of one are enough for that, and three workers for a partial result
  that comes before, between and after the others.
- `AggregationSplit.cfg` (2 workers, 2 rows, split client): `RowsRight` is
  violated: one RPC thread decrypts the row the other has just copied
  (split.cpp:284).

### RankSession

The session of baseline (the merge programs of step1 have the same): the two
warm-up rounds, the dummy query that gives the sums their memory, the query vector
of which each sender thread copies the slice of its worker, and the exchange. A
worker that has its slice multiplies at once and sends partial results to others
that may still wait for theirs. The steps of the exchange are those of
`Aggregation`; the session adds who may take them when. The waits without a predicate
(client.cpp:224, master.cpp:83 and :159, worker.cpp:331) may return by themselves, as in
`QuerySession`; `early` has the workers for which their own wait or their sender's did so
before the query was there, `MaxEarly` bounds how many do. Such a worker may multiply the
dummy, elements past the end of its vector of one, or a string that is being assigned, or its
process, or the master's, may die.

- `RankSession.cfg` (6 rows; one group of two workers, two groups of one; slices of
  two ciphertexts; one wait that returns too early): `QueryInOrder` (when the real query
  leaves the client every worker has its memory and no dummy is left on the way, whoever
  was early; a worker multiplies its own slice of the real query unless its wait
  or its sender's was early, and where a whole group does so its slices are the whole
  query, each ciphertext once; no process dies unless some wait was early, a worker's own, its sender's or the master's), the refinement
  `ImplementsExchange`, and `OnlyMissedWakeupsHang`: only a wait without a predicate can
  stop a session, and what one worker misses, or dies of, stops no group but its own. Two
  workers are enough for a partial result to overtake a slice; two groups for one that
  hangs beside one that ends. With three early waits instead of one (a million
  states) the properties hold as well, and the theorems are for any number.

The refinement maps sums not yet allocated to warmed-up ones and a client that has
all rows to one that has been woken: the abstract client is asleep until the last
row, or until it returns early, the real one may still be on its way to its wait, or miss
the signal (then the abstract one is woken and stutters, which is why the refinement is of
`Aggregation!Spec`, without its fairness).

### WorkShare, WorkSplit, RotationTree

`WorkShare` is arithmetic: for each worker its queries, for each thread its
query, its half (columns rotated or not), its rotations and the plaintexts it
takes for each row. A shape is a program (merge or split), the scale or split
factor, the workers of a group and the threads of a worker; `ShapeOK` says what
`run_experiments.py` passes. `WorkSplit` runs the threads: a ciphertext is the
set of products in it, so a product counted twice, left out or read before the
barrier shows. The workers of a group share nothing before the exchange and run
one after the other.

- `WorkSplit.cfg` (8 rotations, 3 rows, six shapes): the shapes have one and two
  queries per worker and 2 to 8 workers per query; 3 pairs of threads on 8 rotations, 3 workers
  on 8 rotations (split factor 6, as in `figure_5`), 3 threads on 8 rotations, and
  fewer rows than threads as well as more. `ProductWhole` is the result: every
  rotation of each half of each query counts once in every row. `PlaintextFits`
  keeps the rows, halves and queries of the database apart.

`RotationTree` has the loops that rotate and multiply: `"worker"` is
`thread_multiply` of step1, `"baseline"` the thread of the baseline worker, and
`"matmult"`, `"opt1"`, `"opt2"` the three programs of `matmult/`. They differ in the
order of the loops over rows, queries, halves and rotations and in how a rotation is
reached: from the stack of kept rotations (worker, opt1, opt2), by a walk up from the
query (baseline, matmult). A ciphertext is a query, whether its halves are swapped and
its rotation; a result is the bag of (ciphertext, plaintext index) pairs added up.
`Powers` are the divisors of N / 2, which is a power of two itself (the degree of the
polynomials is one): `LoopAssumption` says that all its divisors but 1 are even. A bit
of a rotation is one of them, and the number of the bits is that of the keys.

- `RotationTree.cfg` (32 rotations, 2 rows, 2 queries of matmult; any thread of any
  worker of thirteen shapes of merge and baseline and of the shapes of split): before
  each product the query is the right one, right half in front, rotated by the right
  amount, by keys that exist, and the stack holds exactly the ancestors still needed,
  also when opt1 and opt2 come back to it for the next block (`RotationRight`); and
  `ProductByDiagonals` says what the products of every thread add up to under the layout
  of `get_encoded_block`: each rotation of the thread's part once, and in every slot the
  slot's column times the entry `start` columns before it. For the programs of matmult and
  the threads that start at rotation 0 that is the matrix product. Threads of merge and
  baseline that start elsewhere, which the scripts run, do not compute it: their index
  counts the diagonals from their own start (merge.cpp:583, :590, baseline worker.cpp:591),
  the encoded block from 0. 32 rotations are five levels of the tree, with threads that
  start at every kind of place in it.

### Experiments

The scripts of `aws_scripts/figure_*`: which data points are skipped, in which order
the connections are made, `worker_ip.txt` is distributed, the programs of a point
are started, their outputs read and the files written, the copy of the step1 result
for figures 6 and 7, and what the operator does: terminate a script, `kill_all.py`,
start again, delete results. A program may end early or hang. Killing the
script can hit it between any two steps, with a file opened and not yet written.

- `Experiments.cfg` (7 data points, each part once and two sizes of the worker pool
  in figure 5; one interruption at will besides those of a hang, one program that
  ends early or hangs): `MachinesReady`, `FinishedIsWritten`, `FinishedIsKept`, and,
  with fairness, `AllFiguresDone`. Fairness: the script runs on, a program that does
  not hang ends, the operator terminates a script that hangs and starts again
  (README.md:17 of `aws_scripts` says to).

`FinishedIsWritten` is about every file a graph reads, the copy of the step1 result
included (figure_6_7/gen_graph.py:35). For the copy the code does less than for the
files it writes itself: it is skipped when the file exists
(figure_6_7/run_experiments.py:24), so one that was cut short is kept. The property says
when that can be: only if the run that made the copy was interrupted between
`shutil.copy`'s truncation and its end, never in the run that says "All done!".

Not covered by the properties, and so in the code: a copy whose source has been measured
again is not refreshed; figures 5 and 6 look at the client's file only, so a point whose master's or worker's files are
missing or old is skipped; figure 9 accepts files of two different attempts
together.

## What is proved

All theorems hold for every value of the constants under the named assumptions.

- `QuerySessionProofs`: `SessionInv` is inductive. It says, for each connection,
  which pairs of states its two ends can be in (`MasterCallInv`, `SenderInv`,
  `WorkerInv`) and ties the counters to the sets of workers that have reported
  (`CountInv`); none of the properties is inductive without knowing what the
  other end of the call has done. From it: `TypeCorrect`, `WarmupsCounted`,
  `QueryAfterWarmup`, `QueriesWhole`, `ReportComplete`, the action properties
  `ResetSafe` and `SendersReadFirst`, and the refinement
  `SessionImplementsRounds`. The waits that return by themselves are part of it, without a
  bound but `MaxEarly`, which is any number: `SenderInv` and `WorkerInv` say what each
  early thread may have sent or read, and that it touches nothing of another worker's.
  Assumed: a finite, non-empty set of workers.
- `RankSessionProofs`, first about `Aggregation`: for every number of groups, of workers in a group and of
  rows, and both clients: `TypeCorrect`, `SlicesAlwaysFit`, `SumsAlwaysRight`,
  `ReportAlwaysWhole`. The invariant `IInv` names the set of workers counted in a sum
  (`Counted`: those that have sent their slice and have no call in flight to it) and
  equates the counter with its size and the sum with its products (`Sums`); `Sending`
  and `InFlight` say that the sender's running start is the receiver's own, which
  needs `PartitionProofs`; `Counting` equates the client's count with the set of
  (group, row) pairs answered, because the rows of different groups share
  numbers; `Handling` and `Storing` follow the two RPC threads of split through copy and
  decryption, with what `racing` and `raced` say of a row that has been overlapped.
  Then about the session: `SessionInv` ties the phases of the client, the master, each
  sender and each worker together, and the warm-up count to the set of workers that
  have reported in the round, also where a wait was early and where a process has died.
  From it `SessionTypeCorrect` and `QueryAlwaysInOrder`.
  The refinement `SessionImplementsExchange` also needs `Exchanging`, what a worker
  that has not loaded its slice can and cannot have done; each step of the
  session is a step of the exchange or a stutter under the mapping above. Assumed
  besides the assumptions of `Aggregation`: slices are not empty.
- `PirServerProofs`: `ReadyBeforeWork`, `FirstBarrierSuffices`,
  `SecondBarrierSuffices` and, from these two, `BarriersSuffice`. The invariants say
  what a thread at each place of the loop has written, and that a thread behind a
  barrier means all have reached it. On them rests `ReplyAlwaysWhole`: `ReplyInv`
  says for each digit that `partial_results[0]` is the sum of the products of the
  first `Upto` threads (`Collected`, a bag), a number read off the place of the one
  thread that adds up this digit, which needs `PartitionProofs` for "one"; what the
  sum of all threads holds is then a fact about the even division
  (`CollectedWhole`). `TypeCorrect` uses all of these.
  The second part is about `PirQuery`, for every degree that is a power of two, every
  `LogT`, element size, database and number of threads. The invariant `QueryInvariant` says what the client
  has at each stage (`ClientRight`) and what the vector of an expansion is at level i
  (`Spread`): 2^i ciphertexts, all zero but the one at place idx mod 2^i, which is
  2^i X^(2^i (idx div 2^i)). `Children` is what one level makes of a monomial, by the
  parity of idx div 2^i: the automorphism keeps the sign of an even multiple and changes
  that of an odd one, so one child doubles and the other vanishes. `InverseOf` is about
  the scales: modulo 2^LogT + 1 the number 2^LogT is -1, so the inverse of 2^logm is a
  power of two with a sign. From these `QueryTypes`, `ExpansionRight` and `ThrowsRight`.
  The third part is about `PirCodec`. A loop of the code is there a table of its states
  (`RoundsExist`, `FoldExists`), and `Holds` says what a sequence is in the middle of a loop:
  the digits of a number, the last with room for some more bits. A round of packing or
  unpacking takes bits off one number and puts them behind the other (`PackBitsRight`,
  `UnpackBitsRight`). Digits determine their number (`DigitsUnique`), which gives
  `BytesComeBack`: what is unpacked begins with what was packed. With the place of an
  element in its plaintext (`WantedIs`) and the plaintext the server takes for an entry
  (`FetchedIs`: it is the wanted one, or lies as many plaintexts before it as its column
  says) this is `RetrievalAlwaysRight`.
  Assumed: `DegreeAssumption`, `CountsAssumption`, `ThreadsAssumption` (one thread at
  least), `ByteAssumption` (an element is made of
  bytes), `SizeAssumption` (an element fits, as the code asserts, and a coefficient is left
  for the padding) and `OneCiphertextAssumption` (the server reads one ciphertext per
  dimension). The padding matters in the code: zeros at the end of a plaintext
  without it would be lost in decryption, which is not modelled.
- `PartitionProofs`: the parts of the even division are in order, disjoint and
  cover the range, for all sizes.
- `WorkSplitProofs`, first about `WorkShare`: whatever the numbers of workers, threads, queries and
  rotations, each rotation of each half of each query is the work of one thread
  (`WorkDone`) and of no other (`WorkOnce`). The argument goes from a thread's
  number to its query, pair and half, or from a worker's number to its query,
  half and part, by quotient and remainder (`DivUnique`), and from there to
  `PartitionProofs`. Assumed: `ShapeOK`.
  Then about the threads: the invariant `IInv` names, for each place of a thread,
  exactly the products in its rows (`Multiplied`) and the rows it has summed
  (`SummedRows`). From it `TypeCorrect`, `BarrierSuffices`, `PlaintextsInPlace`
  and, with `WorkDone` and `WorkOnce`, `WholeProduct`.
- `CuckooProofs`: `PlacedByHash`, `BatchKept` (a count of occurrences over
  placed, pending and untaken keys), both together as `KeysStayInPlace`, and
  `ScheduleComplete`; from these `IndicesAlwaysRight`, with an invariant (`LookInv`)
  that says which entries of the client's map of keys and buckets have been
  written, and `TypeCorrect`.
- `RotationTreeProofs`: for every N / 2 that is a power of two, every shape, worker and
  thread, and the three programs of `matmult/`. `WalkInv` says where the loops, a walk
  from the query and the stack are: in a walk the stack has what comes before the gaps
  above the bit the walk is at (`Above`), between two rounds the ancestors with a
  child to come (`Pending`). That the two agree at the end of a walk, and what one
  round does to `Pending`, are facts about bits (`PendingStep`, `WalkStep`,
  `BitsBefore`), proved from quotients and remainders by divisors of N / 2, with the
  least counterexample (`LeastNatural`) in the place of induction. The bound of the stack,
  half the bits, is by two injections: each kept ciphertext ends at a one bit with a
  zero bit right below, no two at the same (`StackFits`). From it `RotationTypes` and
  `RotationsRight`. `ProductInv` adds the results: each is the bag of the products of
  the rounds so far (`Past`), in matmult of the queries so far, with the rest in the
  local result. From it `ProductsByDiagonals`; `IndexSays` takes the index of a plaintext
  apart by quotient and remainder, `SlotColumn` compares the slots. Assumed:
  `LoopAssumption` and `ShapeOK`.
- `ExperimentsProofs`: `Inv` (`ScriptInvariant`) ties the place of the script in a data
  point to its connections, the addresses distributed, the programs that run and their
  outputs, and says which files are written: those of the points the script is past, by
  it or before it, those of the finished figures, and in the loop over the files of a
  point those before the place of the loop. From it `MachinesAlwaysReady` and the action
  property `FinishedStays`, and together with `CopyPlace`, which follows the copy of the
  step1 result through its truncation and what can interrupt it, `FinishedAlwaysWritten`. Assumed: the points of one script follow one
  another (`OrderAssumption`), which is how the scripts are run.

Only model-checked: everything with liveness (`OnlyMissedWakeupsHang` of both
sessions, `ExchangeEnds`, `ScheduleEnds`, `OnlyMissedBroadcastHangs`,
`AllFiguresDone`), which is out of the prover's reach. Every invariant and every action
property of the passing runs is also proved. Where an argument needs induction over
numbers, the proofs take the least counterexample instead (`LeastNatural`): the
library's induction theorems have an operator as parameter, which the provers cannot
instantiate.

## What is left out, and why

- SEAL and rpclib are not in the repository: a homomorphic operation is its
  effect on the abstract payload, a call is delivered once and answered.
- `sleep(3)`, `sleep(4)`, `sleep(15)` only make some orders likely; the models
  allow every order. Replies still on the wire when a process exits are delivered.
- A worker whose slice is empty sends its response after the client may have
  gone; it is not modelled that its call then fails.
- The session of step3 is that of `QuerySession` with a schedule, that of the split
  programs of step1 that of `RankSession` with two RPC threads in the client; their
  lines are not mapped a second time.
- Byte offsets into the database are 32 bits wide (pir_server.cpp:108); `PirQuery`
  has no addresses.
- Time stamps, reports, option parsing, AWS calls, plots and SHA-256.

What could still be added: the 4 GiB limit, once databases are of interest that the
scripts do not produce.
