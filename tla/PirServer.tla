------------------------------- MODULE PirServer -------------------------------
(***************************************************************************)
(* One reply of a PIR worker (pir_server.cpp of step2; step3 has the same  *)
(* file): the main thread starts the pir threads, loads the database,      *)
(* expands the query with one thread per dimension, wakes the pir threads  *)
(* and joins them.  They share two barriers and the vectors they compute.  *)
(*                                                                         *)
(* A ciphertext of the reply is the bag of products added up in it; a      *)
(* product is <<c, p>>: entry c of the second expanded query times the     *)
(* plaintext p.  The plaintext <<c, i>> is digit i of the product of the   *)
(* first expanded query with column c of the database.                     *)
(***************************************************************************)
EXTENDS Partition, FiniteSets, Bags

CONSTANTS NumThreads,  \* num_thread
          N1,          \* nvec[1], the columns of the database
          Ratio        \* expansion_ratio

ASSUME SizesAssumption == /\ NumThreads \in Nat \ {0}
                          /\ N1 \in Nat \ {0}
                          /\ Ratio \in Nat \ {0}

Threads == 0 .. NumThreads - 1
Columns == 0 .. N1 - 1
Digits == 0 .. Ratio - 1
Dimensions == {0, 1}

Unwritten == <<-1, -1>>
Plain == (Columns \X Digits) \cup {Unwritten}

VARIABLES
  mpc,               \* main: program counter
  created,           \* main: the pir threads started by the constructor
  preprocessed,      \* is_db_preprocessed_
  expanding,         \* the expand threads that run
  expandedQuery,     \* the dimensions whose expanded_query is stored
  queryNtt,          \* the expanded query has been transformed
  requestReceived,   \* request_received
  pc,                \* pir thread: program counter
  k,                 \* pir thread: the counter of its current loop
  j,                 \* pir thread: the inner counter of the last loop
  arrived,           \* the threads that have reached each barrier
  intermediatePlain, \* intermediate_plain
  partialResults,    \* partial_results
  inverted           \* how often each ciphertext of the reply was transformed back

mainVars == <<mpc, created, preprocessed, expanding, expandedQuery, queryNtt, requestReceived>>
dataVars == <<intermediatePlain, partialResults, inverted>>
vars == <<mainVars, pc, k, j, arrived, dataVars>>

\* The columns of a thread: [start_id, end_id) of the first and second phase.
StartId(t) == First(N1, NumThreads, t)
EndId(t) == End(N1, NumThreads, t)

\* The digits a thread sums up: [start_id, end_id) of the last phase.
SumStart(t) == IF NumThreads >= Ratio THEN t ELSE First(Ratio, NumThreads, t)

SumEnd(t) == IF NumThreads >= Ratio THEN t + 1 ELSE End(Ratio, NumThreads, t)

Init ==
  /\ mpc = "construct" /\ created = 0 /\ preprocessed = FALSE
  /\ expanding = {} /\ expandedQuery = {} /\ queryNtt = FALSE
  /\ requestReceived = FALSE
  /\ pc = [t \in Threads |-> "unborn"]
  /\ k = [t \in Threads |-> 0]
  /\ j = [t \in Threads |-> 0]
  /\ arrived = [b \in {1, 2} |-> {}]
  /\ intermediatePlain = [s \in 0 .. Ratio * N1 - 1 |-> Unwritten]
  /\ partialResults = [t \in Threads |-> [i \in Digits |-> EmptyBag]]
  /\ inverted = [i \in Digits |-> 0]

-----------------------------------------------------------------------------
(* Main: the constructor, preprocess_database and generate_reply. *)

CreateThread ==
  /\ mpc = "construct"
  /\ pc' = [pc EXCEPT ![created] = "check"]
  /\ created' = created + 1
  /\ mpc' = IF created' = NumThreads THEN "load" ELSE mpc
  /\ UNCHANGED <<preprocessed, expanding, expandedQuery, queryNtt, requestReceived,
                 k, j, arrived, dataVars>>

Load ==
  /\ mpc = "load"
  /\ preprocessed' = TRUE
  /\ mpc' = "expand"
  /\ UNCHANGED <<created, expanding, expandedQuery, queryNtt, requestReceived,
                 pc, k, j, arrived, dataVars>>

\* Allocate the results and start one expand thread per dimension.
StartExpand ==
  /\ mpc = "expand"
  /\ expanding' = Dimensions
  /\ mpc' = "joinExpand"
  /\ UNCHANGED <<created, preprocessed, expandedQuery, queryNtt, requestReceived,
                 pc, k, j, arrived, dataVars>>

Expand(d) ==
  /\ d \in expanding
  /\ expandedQuery' = expandedQuery \cup {d}
  /\ expanding' = expanding \ {d}
  /\ UNCHANGED <<mpc, created, preprocessed, queryNtt, requestReceived,
                 pc, k, j, arrived, dataVars>>

\* Mutant of JoinExpand: only the first expand thread is joined.
JoinExpandFirst ==
  /\ mpc = "joinExpand"
  /\ 0 \notin expanding
  /\ queryNtt' = TRUE
  /\ mpc' = "notify"
  /\ UNCHANGED <<created, preprocessed, expanding, expandedQuery, requestReceived,
                 pc, k, j, arrived, dataVars>>

\* Join the expand threads and transform what they stored.
JoinExpand ==
  /\ mpc = "joinExpand"
  /\ expanding = {}
  /\ queryNtt' = TRUE
  /\ mpc' = "notify"
  /\ UNCHANGED <<created, preprocessed, expanding, expandedQuery, requestReceived,
                 pc, k, j, arrived, dataVars>>

\* Mutant of Notify: a signal wakes one thread only.
NotifyOne ==
  /\ mpc = "notify"
  /\ requestReceived' = TRUE
  /\ \/ \A t \in Threads: pc[t] # "asleep" /\ pc' = pc
     \/ \E t \in Threads: pc[t] = "asleep" /\ pc' = [pc EXCEPT ![t] = "check"]
  /\ mpc' = "join"
  /\ UNCHANGED <<created, preprocessed, expanding, expandedQuery, queryNtt,
                 k, j, arrived, dataVars>>

\* request_received = true and the broadcast, under the lock.
Notify ==
  /\ mpc = "notify"
  /\ requestReceived' = TRUE
  /\ pc' = [t \in Threads |-> IF pc[t] = "asleep" THEN "check" ELSE pc[t]]
  /\ mpc' = "join"
  /\ UNCHANGED <<created, preprocessed, expanding, expandedQuery, queryNtt,
                 k, j, arrived, dataVars>>

Join ==
  /\ mpc = "join"
  /\ \A t \in Threads: pc[t] = "done"
  /\ mpc' = "done"
  /\ UNCHANGED <<created, preprocessed, expanding, expandedQuery, queryNtt,
                 requestReceived, pc, k, j, arrived, dataVars>>

Main == CreateThread \/ Load \/ StartExpand \/ JoinExpand \/ Notify \/ Join

-----------------------------------------------------------------------------
(* The pir threads. *)

\* while (!request_received), which reads the flag without the lock.
CheckRequest(t) ==
  /\ pc[t] = "check"
  /\ pc' = [pc EXCEPT ![t] = IF requestReceived THEN "first" ELSE "lock"]
  /\ k' = [k EXCEPT ![t] = StartId(t)]
  /\ UNCHANGED <<mainVars, j, arrived, dataVars>>

\* Lock and wait: the flag is not read again, so a broadcast in between is lost.
AwaitRequest(t) ==
  /\ pc[t] = "lock"
  /\ pc' = [pc EXCEPT ![t] = "asleep"]
  /\ UNCHANGED <<mainVars, k, j, arrived, dataVars>>

\* pthread_cond_wait may return without a broadcast; the loop checks again.
SpuriousWakeup(t) ==
  /\ pc[t] = "asleep"
  /\ pc' = [pc EXCEPT ![t] = "check"]
  /\ UNCHANGED <<mainVars, k, j, arrived, dataVars>>

\* One column: the product with the first query dimension, decomposed into Ratio plaintexts.
FirstPhase(t) ==
  /\ pc[t] = "first"
  /\ k[t] < EndId(t)
  /\ intermediatePlain' =
       [s \in DOMAIN intermediatePlain |->
          IF s \div Ratio = k[t] THEN <<k[t], s % Ratio>> ELSE intermediatePlain[s]]
  /\ k' = [k EXCEPT ![t] = @ + 1]
  /\ UNCHANGED <<mainVars, pc, j, arrived, partialResults, inverted>>

ReachBarrier(t, b) ==
  /\ arrived' = [arrived EXCEPT ![b] = @ \cup {t}]
  /\ pc' = [pc EXCEPT ![t] = IF b = 1 THEN "barrier1" ELSE "barrier2"]

FirstPhaseEnds(t) ==
  /\ pc[t] = "first"
  /\ k[t] >= EndId(t)
  /\ ReachBarrier(t, 1)
  /\ UNCHANGED <<mainVars, k, j, dataVars>>

\* Mutant of BarrierOpen: the barrier is initialised with one thread less.
BarrierOpenEarly(b) == Cardinality(arrived[b]) >= NumThreads - 1

BarrierOpen(b) == arrived[b] = Threads

PassFirstBarrier(t) ==
  /\ pc[t] = "barrier1"
  /\ BarrierOpen(1)
  /\ pc' = [pc EXCEPT ![t] = "second"]
  /\ k' = [k EXCEPT ![t] = 0]
  /\ UNCHANGED <<mainVars, j, arrived, dataVars>>

\* Mutant of SecondSum: the loop over the columns starts again at start_id.
SecondSumTwice(t, i) ==
  SetToBag({<<StartId(t), intermediatePlain[i]>>})
    (+) SetToBag({<<c, intermediatePlain[i + c * Ratio]>> : c \in Part(N1, NumThreads, t)})

\* The first product takes plaintext i of column 0 whatever start_id is, the others
\* take plaintext i of their own column.
SecondSum(t, i) ==
  SetToBag({<<StartId(t), intermediatePlain[i]>>}
             \cup {<<c, intermediatePlain[i + c * Ratio]>> : c \in StartId(t) + 1 .. EndId(t) - 1})

\* One digit of the second phase.  A thread without columns reads expanded_query[1] past
\* its end (StartId(t) = N1): what it finds there is summed, or refused by SEAL,
\* which ends the process.
SecondPhase(t) ==
  /\ pc[t] = "second"
  /\ k[t] < Ratio
  /\ \/ /\ partialResults' = [partialResults EXCEPT ![t][k[t]] = SecondSum(t, k[t])]
        /\ k' = [k EXCEPT ![t] = @ + 1]
        /\ UNCHANGED mpc
     \/ /\ StartId(t) = N1
        /\ mpc' = "aborted"
        /\ UNCHANGED <<partialResults, k>>
  /\ UNCHANGED <<created, preprocessed, expanding, expandedQuery, queryNtt,
                 requestReceived, pc, j, arrived, intermediatePlain, inverted>>

SecondPhaseEnds(t) ==
  /\ pc[t] = "second"
  /\ k[t] = Ratio
  /\ ReachBarrier(t, 2)
  /\ UNCHANGED <<mainVars, k, j, dataVars>>

\* After the barrier a thread without digits returns, the others choose their range.
PassSecondBarrier(t) ==
  /\ pc[t] = "barrier2"
  /\ BarrierOpen(2)
  /\ IF t >= Ratio
     THEN pc' = [pc EXCEPT ![t] = "done"] /\ UNCHANGED <<k, j>>
     ELSE /\ pc' = [pc EXCEPT ![t] = "sum"]
          /\ k' = [k EXCEPT ![t] = SumStart(t)]
          /\ j' = [j EXCEPT ![t] = 1]
  /\ UNCHANGED <<mainVars, arrived, dataVars>>

\* partial_results[0][k] += partial_results[j][k].
AddPartial(t) ==
  /\ pc[t] = "sum"
  /\ j[t] < NumThreads
  /\ partialResults' = [partialResults EXCEPT ![0][k[t]] = @ (+) partialResults[j[t]][k[t]]]
  /\ j' = [j EXCEPT ![t] = @ + 1]
  /\ UNCHANGED <<mainVars, pc, k, arrived, intermediatePlain, inverted>>

\* Mutant of DigitEnds: the loop does not go on to the next digit.
DigitEndsStuck(t) ==
  /\ pc[t] = "sum"
  /\ j[t] = NumThreads
  /\ inverted' = [inverted EXCEPT ![k[t]] = @ + 1]
  /\ j' = [j EXCEPT ![t] = 1]
  /\ UNCHANGED <<mainVars, pc, k, arrived, intermediatePlain, partialResults>>

\* Every thread is added: transform the digit back and go on to the next one.
DigitEnds(t) ==
  /\ pc[t] = "sum"
  /\ j[t] = NumThreads
  /\ inverted' = [inverted EXCEPT ![k[t]] = @ + 1]
  /\ IF k[t] + 1 < SumEnd(t)
     THEN /\ k' = [k EXCEPT ![t] = @ + 1]
          /\ j' = [j EXCEPT ![t] = 1]
          /\ UNCHANGED pc
     ELSE pc' = [pc EXCEPT ![t] = "done"] /\ UNCHANGED <<k, j>>
  /\ UNCHANGED <<mainVars, arrived, intermediatePlain, partialResults>>

Pir(t) ==
  \/ CheckRequest(t) \/ AwaitRequest(t)
  \/ FirstPhase(t) \/ FirstPhaseEnds(t) \/ PassFirstBarrier(t)
  \/ SecondPhase(t) \/ SecondPhaseEnds(t) \/ PassSecondBarrier(t)
  \/ AddPartial(t) \/ DigitEnds(t)

\* A process that has aborted does nothing more.
Next ==
  /\ mpc # "aborted"
  /\ \/ Main
     \/ \E d \in Dimensions: Expand(d)
     \/ \E t \in Threads: Pir(t) \/ SpuriousWakeup(t)

Spec == Init /\ [][Next]_vars

FairSpec ==
  /\ Spec
  /\ WF_vars(Main /\ mpc # "aborted")
  /\ \A d \in Dimensions: WF_vars(Expand(d))
  /\ \A t \in Threads: WF_vars(Pir(t) /\ mpc # "aborted")

-----------------------------------------------------------------------------
\* Every variable holds a value that pir_server.cpp can give it.
TypeOK ==
  /\ mpc \in {"construct", "load", "expand", "joinExpand", "notify", "join", "done", "aborted"}
  /\ created \in 0 .. NumThreads
  /\ preprocessed \in BOOLEAN /\ queryNtt \in BOOLEAN /\ requestReceived \in BOOLEAN
  /\ expanding \subseteq Dimensions /\ expandedQuery \subseteq Dimensions
  /\ pc \in [Threads -> {"unborn", "check", "lock", "asleep", "first", "barrier1",
                         "second", "barrier2", "sum", "done"}]
  /\ k \in [Threads -> 0 .. N1 + Ratio]
  /\ j \in [Threads -> 0 .. NumThreads]
  /\ arrived \in [{1, 2} -> SUBSET Threads]
  /\ intermediatePlain \in [0 .. Ratio * N1 - 1 -> Plain]
  /\ inverted \in [Digits -> 0 .. NumThreads]

Awake(t) == pc[t] \notin {"unborn", "check", "lock", "asleep"}

\* A thread that has left the unlocked loop finds the database and both dimensions of
\* the query in the form it multiplies, though it never takes the lock again.
WorkOnlyWhenReady ==
  \A t \in Threads: Awake(t) =>
    preprocessed /\ queryNtt /\ expandedQuery = Dimensions /\ expanding = {}

\* From the first barrier on, every plaintext of every column is the one computed for
\* it: no thread reads one that another thread has still to write.
SecondPhaseReadsAll ==
  (\E t \in Threads: pc[t] \in {"second", "barrier2", "sum", "done"}) =>
    \A c \in Columns, i \in Digits: intermediatePlain[i + c * Ratio] = <<c, i>>

\* While digits are summed in partial_results[0], nobody assigns to partial_results,
\* each digit has one summer, and what the others contribute is complete.
SumsSettled ==
  \A t \in Threads: pc[t] = "sum" =>
    /\ k[t] \in Digits
    /\ \A u \in Threads:
         /\ pc[u] \in {"barrier2", "sum", "done"}
         /\ pc[u] = "sum" /\ u # t => k[u] # k[t]
         /\ u # 0 => {p[1] : p \in DOMAIN partialResults[u][k[t]]}
                       = Part(N1, NumThreads, u) \cup {StartId(u)}

\* Nothing another thread writes in a phase is read before all have ended the phase,
\* which is what the two barriers are for.
BarriersSeparate == SecondPhaseReadsAll /\ SumsSettled

\* The threads without a column.
Idle == {t \in Threads: StartId(t) = N1}

\* Each ciphertext of the reply adds up one product of every column of the query, once,
\* takes only plaintexts of its own digit, and has been transformed back once.  Besides
\* it has one product from past the end of the query for each thread without a column.
ReplyWhole ==
  mpc = "done" =>
    \A i \in Digits:
      LET products == partialResults[0][i]
      IN /\ inverted[i] = 1
         /\ Columns \subseteq {p[1] : p \in DOMAIN products}
         /\ \A p \in DOMAIN products:
              /\ p[1] \in Columns \cup {N1} /\ p[2][2] = i
              /\ products[p] = IF p[1] \in Columns THEN 1 ELSE Cardinality(Idle)
              /\ \A q \in DOMAIN products: p[1] = q[1] => p = q

\* The reply is the matrix product: column k of the query meets the plaintexts of
\* column k.
ReplyCorrect ==
  mpc = "done" =>
    \A i \in Digits: partialResults[0][i] = SetToBag({<<c, <<c, i>>>> : c \in Columns})

\* The reply is computed unless some thread was between the unlocked check and the wait
\* when the broadcast came, and then slept on: neither the barriers nor the joins hang,
\* and a thread that was asleep in time is woken.
OnlyMissedBroadcastHangs ==
  \/ <>(mpc \in {"done", "aborted"})
  \/ \E t \in Threads: <>(requestReceived /\ pc[t] = "lock") /\ <>[](pc[t] = "asleep")
=============================================================================
