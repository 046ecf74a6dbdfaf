----------------------------- MODULE RankSession -----------------------------
(***************************************************************************)
(* A ranking session from start to end (baseline; the merge programs of    *)
(* step1 have the same): two warm-up rounds, the query vector, of which    *)
(* the master sends each worker a slice, and the workers' exchange, which  *)
(* is Aggregation.  A worker that has its slice multiplies and sends       *)
(* partial results to others that may still be waiting for theirs.         *)
(*                                                                         *)
(* As in QuerySession a call is delivered once, a handler runs while its   *)
(* caller is blocked, and a wait without a predicate is two states of a    *)
(* thread, of which only "asleep" hears a signal; it may also return by    *)
(* itself, and histories tell for whom it did so before what it waits for  *)
(* was there.  The waits that have a predicate are guards: what they can   *)
(* miss is QuerySession's subject.                                         *)
(*                                                                         *)
(* A thread that goes on too early reads a vector that is empty, or is     *)
(* being assigned, or elements past the end of the dummy's vector of one.  *)
(* That may kill its process, and so does SEAL, which throws at an empty   *)
(* string of keys and at the dummy's (a ciphertext eight times over).      *)
(***************************************************************************)
EXTENDS Aggregation

CONSTANTS Scale,    \* SCALE_FACTOR, the ciphertexts of a worker's slice
          MaxEarly  \* a bound on the waits without a predicate that return too early

ASSUME ScaleAssumption == Scale \in Nat \ {0}
ASSUME MaxEarlyAssumption == MaxEarly \in Nat

VARIABLES
  client,       \* client: program counter of main until the query is out, then cpc goes on
  warmupCount,  \* client: warmup_count
  toMaster,     \* the client's calls of the master's sendQuery, and how far it has come
  master,       \* master: program counter of main
  masterQuery,  \* master: serialized_query, a Vector
  masterEarly,  \* history: the master's wait returned before the dummy was there
  sender,       \* master: program counter of each sendToWorker, its call and its handler
  carries,      \* master: the Vector worker_query of each sendToWorker is copied from
  main,         \* worker: program counter of main until it multiplies, then pc goes on
  query,        \* worker: serialized_query, a Vector, "none" until warmup_received
  used,         \* history: the Vector each worker has loaded and multiplied
  early         \* history: the workers whose wait, or their sender's, returned before the
                \*   query was there

clientSide == <<client, warmupCount>>
masterSide == <<toMaster, master, masterQuery, masterEarly>>
sendSide == <<sender, carries>>
workerSide == <<main, query, used>>
sessionVars == <<clientSide, masterSide, sendSide, workerSide, early>>
sumVars == <<pc, sendTo, itr, aggregationCount, partial, clientVars>>
allVars == <<vars, sessionVars>>

\* What serialized_query may be, with the keys that come with it: not assigned, sent on before
\* it was assigned, the dummy's vector of one, elements past the end of that, the query vector
\* (a worker's: its slice), and anything, while the dummy or while the query is assigned or
\* when it was copied then.
Vector == {"none", "empty", "dummy", "past", "query", "torn", "mixed"}

\* One more wait may return too early.
MayReturn == (IF clientEarly THEN 1 ELSE 0) + (IF masterEarly THEN 1 ELSE 0)
               + Cardinality(early) < MaxEarly

\* The ciphertexts of the query vector: QUERY_CT of the client.
QueryCt == PerGroup * Scale

\* NUM_WORKER of the client.
NumWorker == (QueryCt \div Scale) * NumGroup

\* What sendToWorker copies out of the query vector for worker w.
Columns(w) == (w % PerGroup) * Scale .. (w % PerGroup) * Scale + Scale - 1

SessionInit ==
  /\ shape \in Shapes /\ program \in Programs
  /\ pc = [w \in Workers |-> "multiply"]
  /\ sendTo = [w \in Workers |-> 0] /\ itr = [w \in Workers |-> 0]
  /\ aggregationCount = [w \in Workers |-> 0]
  /\ aggregation = [w \in Workers |-> [row \in AggRows(w) |-> {}]]
  /\ partial = {}
  /\ cpc = "running"
  /\ finalResult = [row \in 0 .. ClientRows - 1 |-> {Warmup}] /\ responseReceived = 0
  /\ clientEarly = FALSE
  /\ handler = [w \in Workers |-> "none"]
  /\ rowAt = [w \in Workers |-> 0] /\ tempCt = {Warmup} /\ racing = {} /\ raced = {}
  /\ client = "round1" /\ warmupCount = 0
  /\ toMaster = "none" /\ master = "running" /\ masterQuery = "none"
  /\ masterEarly = FALSE
  /\ sender = [w \in Workers |-> "none"] /\ carries = [w \in Workers |-> "none"]
  /\ main = [w \in Workers |-> "warmup1"] /\ query = [w \in Workers |-> "none"]
  /\ used = [w \in Workers |-> "none"] /\ early = {}

-----------------------------------------------------------------------------
(* The client. *)

\* while (warmup_count < NUM_WORKER) pthread_cond_wait(...), the first round.
ClientRound1 ==
  /\ client = "round1" /\ warmupCount >= NumWorker
  /\ client' = "reset"
  /\ UNCHANGED <<warmupCount, masterSide, sendSide, workerSide, early, vars>>

\* Mutant of ClientReset: the first round stays in the count.
ClientResetForgotten ==
  /\ client = "reset"
  /\ client' = "dummy"
  /\ UNCHANGED <<warmupCount, masterSide, sendSide, workerSide, early, vars>>

\* warmup_count = 0, after the lock has been released.
ClientReset ==
  /\ client = "reset"
  /\ warmupCount' = 0
  /\ client' = "dummy"
  /\ UNCHANGED <<masterSide, sendSide, workerSide, early, vars>>

\* Memory for the result, and the dummy query: a call that blocks.
ClientCall ==
  /\ client = "dummy"
  /\ toMaster' = "dummy"
  /\ client' = "calling"
  /\ UNCHANGED <<warmupCount, master, masterQuery, masterEarly, sendSide, workerSide, early, vars>>

ClientCalled ==
  /\ client = "calling" /\ toMaster = "answered"
  /\ client' = "round2"
  /\ UNCHANGED <<warmupCount, masterSide, sendSide, workerSide, early, vars>>

\* Mutant of ClientQuery: the second round is not waited for.
ClientQueryAtOnce ==
  /\ client = "round2"
  /\ toMaster' = "query"
  /\ client' = "sent"
  /\ UNCHANGED <<warmupCount, master, masterQuery, masterEarly, sendSide, workerSide, early, vars>>

\* Mutant of ClientQuery: it waits for one worker of each group.
ClientQueryGroups ==
  /\ client = "round2" /\ warmupCount >= NumGroup
  /\ toMaster' = "query"
  /\ client' = "sent"
  /\ UNCHANGED <<warmupCount, master, masterQuery, masterEarly, sendSide, workerSide, early, vars>>

\* The second round, then the real query: a call that does not block.
ClientQuery ==
  /\ client = "round2" /\ warmupCount >= NumWorker
  /\ toMaster' = "query"
  /\ client' = "sent"
  /\ UNCHANGED <<warmupCount, master, masterQuery, masterEarly, sendSide, workerSide, early, vars>>

\* pthread_cond_wait(&response_cond, ...) without a predicate.
ClientWaits ==
  /\ client = "sent" /\ cpc = "running"
  /\ cpc' = "asleep"
  /\ UNCHANGED <<setup, finalResult, responseReceived, clientEarly, splitVars, workerVars,
                 sessionVars>>

ClientMain ==
  \/ ClientRound1 \/ ClientReset \/ ClientCall \/ ClientCalled \/ ClientQuery \/ ClientWaits
  \/ ClientReport /\ UNCHANGED sessionVars

\* sendClientWarmUp: w is in one of its two calls.
WarmupCall(w) == main[w] \in {"warmup1", "warmup2"}

\* sendResponse(-1, -1, ...): count one warm-up of w, which goes on.
CountWarmup(w) ==
  /\ WarmupCall(w)
  /\ warmupCount' = warmupCount + 1
  /\ main' = [main EXCEPT ![w] = IF @ = "warmup1" THEN "await" ELSE "running"]
  /\ UNCHANGED <<client, masterSide, sendSide, query, used, early, vars>>

-----------------------------------------------------------------------------
(* The master. *)

\* pthread_cond_wait(&warmup_cond, ...) without a predicate.
MasterWaits ==
  /\ master = "running" /\ toMaster # "first"
  /\ master' = "asleep"
  /\ UNCHANGED <<clientSide, toMaster, masterQuery, masterEarly, sendSide, workerSide, early, vars>>

\* It may return without a signal, but not while sendQuery holds warmup_lock.
MasterSpurious ==
  /\ master = "asleep" /\ toMaster # "first" /\ MayReturn
  /\ master' = "woken"
  /\ masterEarly' = (masterQuery = "none")
  /\ UNCHANGED <<clientSide, toMaster, masterQuery, sendSide, workerSide, early, vars>>

\* prepareSendThread: one sender thread for each worker, each of them calls its worker.
MasterStartSenders ==
  /\ master = "woken"
  /\ master' = "join"
  /\ sender' = [w \in Workers |-> "call"]
  /\ UNCHANGED <<clientSide, toMaster, masterQuery, masterEarly, carries, workerSide, early, vars>>

\* Once no sender is left it makes no difference when the master exits.
MasterJoin ==
  /\ master = "join" /\ \A w \in Workers: sender[w] = "sent"
  /\ master' = "done"
  /\ UNCHANGED <<clientSide, toMaster, masterQuery, masterEarly, sendSide, workerSide, early, vars>>

MasterMain == MasterWaits \/ MasterStartSenders \/ MasterJoin

\* The first sendQuery, under warmup_lock, which senders that run already do not take ...
MasterFirstBegin ==
  /\ toMaster = "dummy"
  /\ toMaster' = "first"
  /\ masterQuery' = "torn"
  /\ UNCHANGED <<clientSide, master, masterEarly, sendSide, workerSide, early, vars>>

\* ... and its end: the dummy is there, main is signalled.
MasterFirstEnd ==
  /\ toMaster = "first"
  /\ masterQuery' = "dummy"
  /\ master' = IF master = "asleep" THEN "woken" ELSE master
  /\ toMaster' = "answered"
  /\ UNCHANGED <<clientSide, masterEarly, sendSide, workerSide, early, vars>>

\* The second sendQuery assigns both globals without a lock ...
MasterStoreBegin ==
  /\ toMaster = "query"
  /\ toMaster' = "storing"
  /\ masterQuery' = "mixed"
  /\ UNCHANGED <<clientSide, master, masterEarly, sendSide, workerSide, early, vars>>

MasterStoreEnd ==
  /\ toMaster = "storing"
  /\ masterQuery' = "query"
  /\ toMaster' = "stored"
  /\ UNCHANGED <<clientSide, master, masterEarly, sendSide, workerSide, early, vars>>

\* ... and wakes the senders that are waiting.
MasterBroadcast ==
  /\ toMaster = "stored"
  /\ sender' = [w \in Workers |-> IF sender[w] = "asleep" THEN "woken" ELSE sender[w]]
  /\ toMaster' = "broadcast"
  /\ UNCHANGED <<clientSide, master, masterQuery, masterEarly, carries, workerSide, early, vars>>

MasterServer ==
  /\ master # "crashed"
  /\ \/ MasterFirstBegin \/ MasterFirstEnd
     \/ MasterStoreBegin \/ MasterStoreEnd \/ MasterBroadcast

\* pthread_cond_wait(&request_received_cond, ...) without a predicate, in sendToWorker.
SenderWaits(w) ==
  /\ sender[w] = "called"
  /\ sender' = [sender EXCEPT ![w] = "asleep"]
  /\ UNCHANGED <<clientSide, masterSide, carries, workerSide, early, vars>>

\* It may return without a broadcast.
SenderSpurious(w) ==
  /\ w \in Workers /\ master # "crashed"
  /\ sender[w] = "asleep" /\ MayReturn
  /\ sender' = [sender EXCEPT ![w] = "woken"]
  /\ early' = IF masterQuery = "query" THEN early ELSE early \cup {w}
  /\ UNCHANGED <<clientSide, masterSide, carries, workerSide, vars>>

\* Copy the worker's slice and call. The vector is empty at first, the dummy's has one element.
SenderSends(w) ==
  /\ sender[w] = "woken" /\ masterQuery # "none"
  /\ carries' = [carries EXCEPT ![w] = IF masterQuery = "dummy" /\ Columns(w) # {0} THEN "past"
                                       ELSE masterQuery]
  /\ sender' = [sender EXCEPT ![w] = "sending"]
  /\ UNCHANGED <<clientSide, masterSide, workerSide, early, vars>>

\* Reading serialized_query while it is assigned, or past its end, may kill the master.
SenderCrash(w) ==
  /\ \/ sender[w] = "call" /\ masterQuery \in {"torn", "mixed"}
     \/ sender[w] = "woken" /\ masterQuery # "query" /\ ~(masterQuery = "dummy" /\ Columns(w) = {0})
  /\ master' = "crashed"
  /\ UNCHANGED <<clientSide, toMaster, masterQuery, masterEarly, sendSide, workerSide, early, vars>>

Sender(w) ==
  w \in Workers /\ master # "crashed" /\ (SenderWaits(w) \/ SenderSends(w) \/ SenderCrash(w))

-----------------------------------------------------------------------------
(* The workers. *)

\* The process of w is gone, before or after its second report.
Crashed(w) == main[w] \in {"crashed1", "crashed2"}

\* while (!warmup_received) pthread_cond_wait(...); the dummy then gives temp_ct and the
\* sums their memory; the second report is a call that blocks.
Allocate(w) ==
  /\ main[w] = "await" /\ query[w] \notin {"none", "empty"}
  /\ aggregation' = [aggregation EXCEPT ![w] = [row \in AggRows(w) |-> {Warmup}]]
  /\ main' = [main EXCEPT ![w] = "warmup2"]
  /\ UNCHANGED <<clientSide, masterSide, sendSide, query, used, early, sumVars>>

\* pthread_cond_wait(&request_received_cond, ...) without a predicate, in main.
WorkerWaits(w) ==
  /\ main[w] = "running"
  /\ main' = [main EXCEPT ![w] = "asleep"]
  /\ UNCHANGED <<clientSide, masterSide, sendSide, query, used, early, vars>>

\* It may return without a broadcast.
WorkerSpurious(w) ==
  /\ w \in Workers
  /\ main[w] = "asleep" /\ MayReturn
  /\ main' = [main EXCEPT ![w] = "woken"]
  /\ early' = IF query[w] = "query" THEN early ELSE early \cup {w}
  /\ UNCHANGED <<clientSide, masterSide, sendSide, query, used, vars>>

\* Load the keys and the slice and multiply.
LoadAndMultiply(w) ==
  /\ main[w] = "woken" /\ query[w] \in {"query", "mixed"}
  /\ main' = [main EXCEPT ![w] = "loaded"]
  /\ used' = [used EXCEPT ![w] = query[w]]
  /\ Multiply(w)
  /\ UNCHANGED <<clientSide, masterSide, sendSide, query, early>>

\* What is no ciphertext or no key kills the worker: when it allocates, when it loads.
WorkerCrash(w) ==
  /\ \/ main[w] = "await" /\ query[w] \notin {"none", "dummy", "query"}
     \/ main[w] = "woken" /\ query[w] # "query"
  /\ main' = [main EXCEPT ![w] = IF @ = "await" THEN "crashed1" ELSE "crashed2"]
  /\ UNCHANGED <<clientSide, masterSide, sendSide, query, used, early, vars>>

SessionWorker(w) ==
  /\ w \in Workers
  /\ \/ Allocate(w) \/ WorkerWaits(w) \/ LoadAndMultiply(w) \/ WorkerCrash(w)
     \/ (SendPartial(w) \/ AddOwn(w) \/ AwaitOthers(w) \/ Respond(w)) /\ UNCHANGED sessionVars

\* The first sendQuery of w, under warmup_received_lock; the master reads its global
\* for it without a lock.
WorkerFirstQuery(w) ==
  /\ sender[w] = "call" /\ query[w] = "none" /\ master # "crashed"
  /\ query' = [query EXCEPT ![w] = IF masterQuery = "none" THEN "empty" ELSE masterQuery]
  /\ sender' = [sender EXCEPT ![w] = "called"]
  /\ UNCHANGED <<clientSide, masterSide, carries, main, used, early, vars>>

\* The second one assigns both globals without a lock ...
WorkerStoreBegin(w) ==
  /\ sender[w] = "sending" /\ query[w] # "none"
  /\ query' = [query EXCEPT ![w] = IF carries[w] \in {"query", "mixed"} THEN "mixed" ELSE "torn"]
  /\ sender' = [sender EXCEPT ![w] = "storing"]
  /\ UNCHANGED <<clientSide, masterSide, carries, main, used, early, vars>>

WorkerStoreEnd(w) ==
  /\ sender[w] = "storing"
  /\ query' = [query EXCEPT ![w] = carries[w]]
  /\ sender' = [sender EXCEPT ![w] = "stored"]
  /\ UNCHANGED <<clientSide, masterSide, carries, main, used, early, vars>>

\* ... and wakes main if it is waiting.
WorkerBroadcast(w) ==
  /\ sender[w] = "stored"
  /\ main' = [main EXCEPT ![w] = IF @ = "asleep" THEN "woken" ELSE @]
  /\ sender' = [sender EXCEPT ![w] = "sent"]
  /\ UNCHANGED <<clientSide, masterSide, carries, query, used, early, vars>>

QueryServer(w) ==
  /\ w \in Workers /\ ~Crashed(w)
  /\ \/ WorkerFirstQuery(w) \/ WorkerStoreBegin(w) \/ WorkerStoreEnd(w) \/ WorkerBroadcast(w)

\* sendPartialResult runs in a server of its own, from the start of the worker on.
ExchangeServer(w) == WorkerServer(w) /\ ~Crashed(w) /\ UNCHANGED sessionVars

ResponseServer(w) ==
  \/ w \in Workers /\ CountWarmup(w)
  \/ ClientServer(w) /\ UNCHANGED sessionVars

\* A wait returns by itself: one of those without a predicate, or that for the sums.
SpuriousReturn ==
  \/ ClientSpurious /\ MayReturn /\ UNCHANGED sessionVars
  \/ MasterSpurious
  \/ \E w \in AllWorkers: \/ SenderSpurious(w) \/ WorkerSpurious(w)
                          \/ AwaitSpurious(w) /\ UNCHANGED sessionVars

SessionNext ==
  \/ SpuriousReturn
  \/ ClientMain \/ MasterMain \/ MasterServer
  \/ \E w \in AllWorkers: \/ Sender(w) \/ SessionWorker(w) \/ QueryServer(w)
                          \/ ExchangeServer(w) \/ ResponseServer(w)

SessionFairness ==
  /\ WF_allVars(ClientMain) /\ WF_allVars(MasterMain) /\ WF_allVars(MasterServer)
  /\ \A w \in AllWorkers: /\ WF_allVars(Sender(w)) /\ WF_allVars(SessionWorker(w))
                          /\ WF_allVars(QueryServer(w)) /\ WF_allVars(ExchangeServer(w))
                          /\ WF_allVars(ResponseServer(w))

SessionSpec == SessionInit /\ [][SessionNext]_allVars
FairSessionSpec == SessionSpec /\ SessionFairness

-----------------------------------------------------------------------------
\* Every variable of the session holds a value the programs can give it.
SessionTypeOK ==
  /\ shape \in Shapes /\ program \in Programs
  /\ client \in {"round1", "reset", "dummy", "calling", "round2", "sent"}
  /\ warmupCount \in 0 .. NumWorker
  /\ toMaster \in {"none", "dummy", "first", "answered", "query", "storing", "stored", "broadcast"}
  /\ master \in {"running", "asleep", "woken", "join", "done", "crashed"}
  /\ masterQuery \in Vector /\ masterEarly \in BOOLEAN
  /\ sender \in [Workers -> {"none", "call", "called", "asleep", "woken", "sending", "storing",
                             "stored", "sent"}]
  /\ main \in [Workers -> {"warmup1", "await", "warmup2", "running", "asleep", "woken", "loaded",
                           "crashed1", "crashed2"}]
  /\ carries \in [Workers -> Vector] /\ query \in [Workers -> Vector]
  /\ used \in [Workers -> Vector] /\ early \subseteq Workers

\* The real query leaves the client only when every worker has been warmed up: its
\* sums have their memory, so that a partial result that overtakes the worker's own
\* slice has somewhere to go, and no call with a dummy is left on the way.
ReadyBeforeQuery ==
  client = "sent" => \A w \in Workers:
    /\ main[w] \notin {"warmup1", "await", "warmup2", "crashed1"}
    /\ sender[w] \notin {"none", "call"}

\* The ciphertexts of the query vector that w has multiplied.
Used(w) == IF used[w] = "query" THEN Columns(w) ELSE {}

\* A worker multiplies nothing but its own slice of the real query, and the slices of a
\* group are the whole query, although the master's and the worker's globals are
\* assigned without a lock and hold the dummy before: unless its wait, or its sender's,
\* returned before the query was there.
SlicesOfQuery ==
  /\ \A w \in Workers: main[w] = "loaded" /\ w \notin early => used[w] = "query"
  /\ \A w \in Workers:
       (\A v \in Group(w): used[v] = "query") =>
         /\ UNION {Used(v) : v \in Group(w)} = 0 .. QueryCt - 1
         /\ \A v \in Group(w): v # w => Used(v) \cap Used(w) = {}

\* No process dies of what it reads, unless a wait without a predicate returned before
\* what it waits for was there: of a worker its own, its sender's or the master's.
DeathsExcused ==
  /\ master = "crashed" => masterEarly \/ early # {}
  /\ \A w \in Workers: Crashed(w) => masterEarly \/ w \in early

\* The query vector goes out late enough, whoever wakes up too early, and arrives undivided
\* from the dummies where nobody does.
QueryInOrder == ReadyBeforeQuery /\ SlicesOfQuery /\ DeathsExcused

\* The exchange as the session drives it: until a worker has allocated its sums they
\* count as warmed up, and the client counts as woken when the last row is there.
SumsSeen == [w \in Workers |-> IF main[w] \in {"warmup1", "await", "crashed1"}
                               THEN [row \in AggRows(w) |-> {Warmup}] ELSE aggregation[w]]
ClientSeen == IF cpc = "done" THEN "done"
              ELSE IF responseReceived = ClientRows \/ clientEarly THEN "woken" ELSE "asleep"
Exchange == INSTANCE Aggregation WITH aggregation <- SumsSeen, cpc <- ClientSeen

\* The session implements Aggregation: no partial result is lost in memory that is
\* allocated later, no worker takes part before it has its slice, and the client reports
\* only after the last row, although every process waits without a predicate: or early, if
\* its own wait returned by itself, whoever else's did.
ImplementsExchange == Exchange!Spec

\* The waits without a predicate that have missed their signal.
MasterMissed == toMaster \notin {"none", "dummy", "first"} /\ master \in {"running", "asleep"}
WorkerMissed(w) ==
  \/ toMaster = "broadcast" /\ sender[w] \in {"called", "asleep"}
  \/ sender[w] = "sent" /\ main[w] \in {"running", "asleep"}
ClientMissed == responseReceived = ClientRows /\ cpc \in {"running", "asleep"}

\* What stops every group: the client has left, the master has died, or a worker has before
\* its second report.
SessionBroken ==
  clientEarly \/ master = "crashed" \/ \E w \in Workers: main[w] = "crashed1"

\* What one worker misses, or dies of, stops its own group and no other.
MissStaysInGroup ==
  \A g \in UNION {0 .. s[1] - 1 : s \in Shapes}:
    <>(g < NumGroup =>
         \/ \A w \in Group(g * PerGroup): AggRows(w) # {} => pc[w] = "done"
         \/ MasterMissed \/ SessionBroken
         \/ \E w \in Group(g * PerGroup): WorkerMissed(w) \/ Crashed(w))

\* A session can only hang in one of the four waits without a predicate, the master's for
\* the warm-up, a sender's or a worker's for the query, the client's for the rows, or
\* because one of them returned too early and a process died of it; and what one worker
\* misses stops no group but its own.
OnlyMissedWakeupsHang ==
  /\ MissStaysInGroup
  /\ <>(\/ cpc = "done" \/ MasterMissed \/ ClientMissed \/ SessionBroken
        \/ \E w \in Workers: WorkerMissed(w) \/ Crashed(w))
=============================================================================
