---------------------------- MODULE QuerySession ----------------------------
(***************************************************************************)
(* One query session of step2 (multi-retrieval PIR): a client process, a   *)
(* master process with one sender thread per worker, and the worker        *)
(* processes.  baseline, step3 and the merge programs of step1 keep the    *)
(* same counters and waits (the split client of step1 has two RPC threads; *)
(* it is not this module).                                                 *)
(*                                                                         *)
(* Every process has a main thread and one RPC server thread               *)
(* (async_run(1)), so its handlers run one after the other.  The RPC       *)
(* library delivers a call once and unblocks the caller when the handler   *)
(* has returned; a connection is one variable that holds the outstanding   *)
(* request, or Reply.  pthread_cond_wait is two states of a thread: the    *)
(* one before the lock is taken and "asleep"; a signal moves only a thread *)
(* that is asleep, and is lost otherwise.  It may also return although     *)
(* nothing was signalled, once the lock is free: four of the waits have no *)
(* condition around them, and for these a history variable records that    *)
(* the wait returned by itself.                                            *)
(*                                                                         *)
(* What such a thread reads can kill its process: an empty vector has no   *)
(* element (master), and SEAL refuses bytes that are no keys or no         *)
(* ciphertext, an exception nobody catches (worker).  The threads of a     *)
(* process that has crashed take no more steps.                            *)
(***************************************************************************)
EXTENDS Naturals, FiniteSets

CONSTANTS Workers,    \* the worker processes, ceil(k * FACTOR) of them
          Schedules,  \* what get_schedule can return: TRUE a schedule, FALSE the empty map
          MaxEarly    \* a bound on the waits without a condition that return by themselves

ASSUME WorkersAssumption == IsFiniteSet(Workers) /\ Workers # {}
ASSUME SchedulesAssumption == Schedules \subseteq BOOLEAN /\ Schedules # {}
ASSUME MaxEarlyAssumption == MaxEarly \in Nat

\* The contents of serialized_query: "torn" while it is being assigned without a
\* lock, and for what was copied meanwhile: anything, or nothing usable.
Query == {"none", "dummy", "real", "torn"}
Request == Query \cup {"idle", "reply"}

VARIABLES
  cpc,              \* client: program counter of main
  numTotal,         \* client: NUM_TOTAL_WORKER, 0 until main knows it
  warmupCount,      \* client: warmup_count
  countRead,        \* client: the value of warmup_count the handler has read
  counting,         \* client: the worker whose warm-up is being counted (warmup_lock held)
  responseReceived, \* client: response_received
  clientEarly,      \* history: the client's wait for the responses returned by itself
  mpc,              \* master: program counter of main
  mWarm,            \* master: warmup_received
  mQuery,           \* master: serialized_query
  mh,               \* master: program counter of the sendQuery handler
  spc,              \* master: program counter of each sender thread
  masterEarly,      \* history: the master's wait for the warm-up returned by itself
  senderEarly,      \* history: the sender threads whose wait returned by itself
  wpc,              \* worker: program counter of main
  wKeys,            \* worker: serialized_gal_key is no longer empty
  wWarm,            \* worker: warmup_received
  wQuery,           \* worker: serialized_query
  wh,               \* worker: program counter of the sendQuery handler
  used,             \* history: the query each worker's main thread answered
  workerEarly,      \* history: the workers whose wait for the query returned by itself
  toMaster,         \* the connection client -> master
  toWorker,         \* the connections sender thread -> worker
  toClient          \* the connections worker -> client

clientVars == <<cpc, numTotal, warmupCount, countRead, counting, responseReceived, clientEarly>>
early == <<masterEarly, senderEarly>>
masterVars == <<mpc, mWarm, mQuery, mh, spc, early>>
workerVars == <<wpc, wWarm, wKeys, wQuery, wh, used, workerEarly>>
vars == <<clientVars, masterVars, workerVars, toMaster, toWorker, toClient>>

\* The workers whose query was not sent or not taken at its broadcast, whether any wait
\* at all returned by itself, and whether one more may.
EarlyWorkers == senderEarly \cup workerEarly
EarlyReturn == clientEarly \/ masterEarly \/ EarlyWorkers # {}
MayReturn ==
  (IF clientEarly THEN 1 ELSE 0) + (IF masterEarly THEN 1 ELSE 0)
    + Cardinality(senderEarly) + Cardinality(workerEarly) < MaxEarly

-----------------------------------------------------------------------------
(* The client's main thread. *)

ClientInit ==
  /\ cpc = "init"
  /\ numTotal = 0 /\ warmupCount = 0 /\ countRead = 0 /\ counting = {}
  /\ responseReceived = 0 /\ clientEarly = FALSE

\* Mutant of ClientSetup: an off-by-one in the number of workers.
ClientSetupOffByOne ==
  /\ cpc = "init"
  /\ numTotal' = Cardinality(Workers) - 1
  /\ cpc' = "guard1"
  /\ UNCHANGED <<warmupCount, countRead, counting, responseReceived, clientEarly,
                 masterVars, workerVars, toMaster, toWorker, toClient>>

\* The server is already up when main learns the number of workers.
ClientSetup ==
  /\ cpc = "init"
  /\ numTotal' = Cardinality(Workers)
  /\ cpc' = "guard1"
  /\ UNCHANGED <<warmupCount, countRead, counting, responseReceived, clientEarly,
                 masterVars, workerVars, toMaster, toWorker, toClient>>

\* Mutant of ClientAwaitWarmups: the loop ends one warm-up too early.
ClientAwaitWarmupsEarly(guard, asleep, next) ==
  /\ cpc = guard
  /\ counting = {}
  /\ cpc' = IF warmupCount + 1 < numTotal THEN asleep ELSE next
  /\ UNCHANGED <<numTotal, warmupCount, countRead, counting, responseReceived, clientEarly,
                 masterVars, workerVars, toMaster, toWorker, toClient>>

\* while (warmup_count < NUM_TOTAL_WORKER) pthread_cond_wait(...), under warmup_lock.
ClientAwaitWarmups(guard, asleep, next) ==
  /\ cpc = guard
  /\ counting = {}
  /\ cpc' = IF warmupCount < numTotal THEN asleep ELSE next
  /\ UNCHANGED <<numTotal, warmupCount, countRead, counting, responseReceived, clientEarly,
                 masterVars, workerVars, toMaster, toWorker, toClient>>

\* A signal on warmup_cond; the woken thread evaluates its loop condition again.
SignalWarmup(pc) == CASE pc = "asleep1" -> "guard1"
                      [] pc = "asleep2" -> "guard2"
                      [] OTHER -> pc

\* Mutant of ClientReset: the count of the first round is kept.
ClientResetMissing ==
  /\ cpc = "reset"
  /\ cpc' = "warm"
  /\ UNCHANGED <<numTotal, warmupCount, countRead, counting, responseReceived, clientEarly,
                 masterVars, workerVars, toMaster, toWorker, toClient>>

\* warmup_count = 0, without the lock.
ClientReset ==
  /\ cpc = "reset"
  /\ warmupCount' = 0
  /\ cpc' = "warm"
  /\ UNCHANGED <<numTotal, countRead, counting, responseReceived, clientEarly,
                 masterVars, workerVars, toMaster, toWorker, toClient>>

ClientCallWarmup ==
  /\ cpc = "warm"
  /\ toMaster' = "dummy"
  /\ cpc' = "warming"
  /\ UNCHANGED <<numTotal, warmupCount, countRead, counting, responseReceived, clientEarly,
                 masterVars, workerVars, toWorker, toClient>>

ClientWarmupReturns ==
  /\ cpc = "warming"
  /\ toMaster = "reply"
  /\ toMaster' = "idle"
  /\ cpc' = "guard2"
  /\ UNCHANGED <<numTotal, warmupCount, countRead, counting, responseReceived, clientEarly,
                 masterVars, workerVars, toWorker, toClient>>

\* Draw k keys and schedule them; without a schedule main returns -1.
ClientSchedule ==
  /\ cpc = "schedule"
  /\ \E scheduled \in Schedules: cpc' = IF scheduled THEN "send" ELSE "null"
  /\ UNCHANGED <<numTotal, warmupCount, countRead, counting, responseReceived, clientEarly,
                 masterVars, workerVars, toMaster, toWorker, toClient>>

\* async_call: main goes on without waiting for the reply.
ClientSendQuery ==
  /\ cpc = "send"
  /\ toMaster' = "real"
  /\ cpc' = "await"
  /\ UNCHANGED <<numTotal, warmupCount, countRead, counting, responseReceived, clientEarly,
                 masterVars, workerVars, toWorker, toClient>>

\* pthread_cond_wait on response_cond, with no condition around it.
ClientAwaitResponses ==
  /\ cpc = "await"
  /\ cpc' = "asleep"
  /\ UNCHANGED <<numTotal, warmupCount, countRead, counting, responseReceived, clientEarly,
                 masterVars, workerVars, toMaster, toWorker, toClient>>

\* Print the report and return.  A query that async_call has not yet sent goes with
\* the client object.
ClientReport ==
  /\ cpc = "woken"
  /\ cpc' = "done"
  /\ \/ UNCHANGED toMaster
     \/ toMaster = "real" /\ mh = "idle" /\ toMaster' = "idle"
  /\ UNCHANGED <<numTotal, warmupCount, countRead, counting, responseReceived, clientEarly,
                 masterVars, workerVars, toWorker, toClient>>

\* pthread_cond_wait returns without a signal: a wait in a loop evaluates its
\* condition again, the wait for the responses is over.
ClientSpurious ==
  /\ \/ cpc \in {"asleep1", "asleep2"} /\ counting = {}
        /\ cpc' = SignalWarmup(cpc) /\ UNCHANGED clientEarly
     \/ cpc = "asleep" /\ MayReturn
        /\ cpc' = "woken" /\ clientEarly' = TRUE
  /\ UNCHANGED <<numTotal, warmupCount, countRead, counting, responseReceived,
                 masterVars, workerVars, toMaster, toWorker, toClient>>

ClientMain ==
  \/ ClientSetup
  \/ ClientAwaitWarmups("guard1", "asleep1", "reset")
  \/ ClientReset \/ ClientCallWarmup \/ ClientWarmupReturns
  \/ ClientAwaitWarmups("guard2", "asleep2", "schedule")
  \/ ClientSchedule \/ ClientSendQuery \/ ClientAwaitResponses \/ ClientReport

-----------------------------------------------------------------------------
(* The client's RPC server thread: sendResponse. *)

\* Mutant of CountWarmupBegin: the warm-up is counted twice.
CountWarmupBeginTwice(w) ==
  /\ counting = {}
  /\ toClient[w] = "warmup"
  /\ counting' = {w}
  /\ countRead' = warmupCount + 1
  /\ UNCHANGED <<cpc, numTotal, warmupCount, responseReceived, clientEarly,
                 masterVars, workerVars, toMaster, toWorker, toClient>>

\* id = -1: take warmup_lock and read warmup_count ...
CountWarmupBegin(w) ==
  /\ counting = {}
  /\ toClient[w] = "warmup"
  /\ counting' = {w}
  /\ countRead' = warmupCount
  /\ UNCHANGED <<cpc, numTotal, warmupCount, responseReceived, clientEarly,
                 masterVars, workerVars, toMaster, toWorker, toClient>>

\* ... write it back incremented, signal when it is the total, unlock and reply.
CountWarmupEnd(w) ==
  /\ counting = {w}
  /\ warmupCount' = countRead + 1
  /\ cpc' = IF countRead + 1 = numTotal THEN SignalWarmup(cpc) ELSE cpc
  /\ counting' = {}
  /\ toClient' = [toClient EXCEPT ![w] = "reply"]
  /\ UNCHANGED <<numTotal, countRead, responseReceived, clientEarly,
                 masterVars, workerVars, toMaster, toWorker>>

\* Mutant of ReceiveResponse: the broadcast comes one answer too early.
ReceiveResponseEarly(w) ==
  /\ counting = {}
  /\ toClient[w] = "response"
  /\ responseReceived' = responseReceived + 1
  /\ cpc' = IF responseReceived + 2 = numTotal /\ cpc = "asleep" THEN "woken" ELSE cpc
  /\ toClient' = [toClient EXCEPT ![w] = "reply"]
  /\ UNCHANGED <<numTotal, warmupCount, countRead, counting, clientEarly,
                 masterVars, workerVars, toMaster, toWorker>>

\* A worker's answer: count it under response_lock, broadcast on the last.
ReceiveResponse(w) ==
  /\ counting = {}
  /\ toClient[w] = "response"
  /\ responseReceived' = responseReceived + 1
  /\ cpc' = IF responseReceived + 1 = numTotal /\ cpc = "asleep" THEN "woken" ELSE cpc
  /\ toClient' = [toClient EXCEPT ![w] = "reply"]
  /\ UNCHANGED <<numTotal, warmupCount, countRead, counting, clientEarly,
                 masterVars, workerVars, toMaster, toWorker>>

\* The server is gone once main has returned.
ClientServer ==
  /\ cpc \notin {"done", "null"}
  /\ \E w \in Workers: CountWarmupBegin(w) \/ CountWarmupEnd(w) \/ ReceiveResponse(w)

-----------------------------------------------------------------------------
(* The master's main thread and its RPC server thread: sendQuery. *)

MasterInit ==
  /\ mpc = "boot" /\ mWarm = FALSE /\ mQuery = "none" /\ mh = "idle"
  /\ spc = [w \in Workers |-> "none"]
  /\ masterEarly = FALSE /\ senderEarly = {}

\* pthread_cond_wait on warmup_cond, with no condition around it.
MasterAwaitWarmup ==
  /\ mpc = "boot"
  /\ mh # "first"
  /\ mpc' = "asleep"
  /\ UNCHANGED <<clientVars, mWarm, mQuery, mh, spc, early, workerVars,
                 toMaster, toWorker, toClient>>

\* ... which may return without a signal while nobody holds warmup_lock.
MasterSpurious ==
  /\ mpc = "asleep" /\ MayReturn
  /\ mh # "first"
  /\ mpc' = "woken" /\ masterEarly' = TRUE
  /\ UNCHANGED <<clientVars, mWarm, mQuery, mh, spc, senderEarly, workerVars,
                 toMaster, toWorker, toClient>>

\* prepareSendThread: one sender thread per worker ...
MasterStartSenders ==
  /\ mpc = "woken"
  /\ mpc' = "join"
  /\ spc' = [w \in Workers |-> "connect"]
  /\ UNCHANGED <<clientVars, mWarm, mQuery, mh, early, workerVars, toMaster, toWorker, toClient>>

\* ... and join them all.
MasterJoin ==
  /\ mpc = "join"
  /\ \A w \in Workers: spc[w] = "done"
  /\ mpc' = "done"
  /\ UNCHANGED <<clientVars, mWarm, mQuery, mh, spc, early, workerVars, toMaster, toWorker, toClient>>

MasterMain == MasterAwaitWarmup \/ MasterStartSenders \/ MasterJoin

\* The first call takes warmup_lock and assigns the query ...
MasterFirstBegin ==
  /\ mh = "idle" /\ toMaster \in Query
  /\ ~mWarm
  /\ mWarm' = TRUE
  /\ mQuery' = "torn"
  /\ mh' = "first"
  /\ UNCHANGED <<clientVars, mpc, spc, early, workerVars, toMaster, toWorker, toClient>>

\* ... then signals warmup_cond and unlocks.
MasterFirstEnd ==
  /\ mh = "first"
  /\ mQuery' = toMaster
  /\ mh' = "idle"
  /\ mpc' = IF mpc = "asleep" THEN "woken" ELSE mpc
  /\ toMaster' = "reply"
  /\ UNCHANGED <<clientVars, mWarm, spc, early, workerVars, toWorker, toClient>>

\* Mutant of MasterStoreBegin: the broadcast comes before the assignment.
MasterStoreBeginWakesFirst ==
  /\ mh = "idle" /\ toMaster \in Query
  /\ mWarm
  /\ mQuery' = "torn"
  /\ mh' = "storing"
  /\ spc' = [w \in Workers |-> IF spc[w] = "asleep" THEN "woken" ELSE spc[w]]
  /\ UNCHANGED <<clientVars, mpc, mWarm, early, workerVars, toMaster, toWorker, toClient>>

\* A later call: assign the query without a lock ...
MasterStoreBegin ==
  /\ mh = "idle" /\ toMaster \in Query
  /\ mWarm
  /\ mQuery' = "torn"
  /\ mh' = "storing"
  /\ UNCHANGED <<clientVars, mpc, mWarm, spc, early, workerVars, toMaster, toWorker, toClient>>

MasterStoreEnd ==
  /\ mh = "storing"
  /\ mQuery' = toMaster
  /\ mh' = "waking"
  /\ UNCHANGED <<clientVars, mpc, mWarm, spc, early, workerVars, toMaster, toWorker, toClient>>

\* ... then broadcast to the sender threads, under request_received_lock.
MasterBroadcast ==
  /\ mh = "waking"
  /\ mh' = "idle"
  /\ spc' = [w \in Workers |-> IF spc[w] = "asleep" THEN "woken" ELSE spc[w]]
  /\ toMaster' = "reply"
  /\ UNCHANGED <<clientVars, mpc, mWarm, mQuery, early, workerVars, toWorker, toClient>>

\* The server is gone with its process.
MasterServer ==
  /\ mpc \notin {"crashed", "done"}
  /\ MasterFirstBegin \/ MasterFirstEnd \/ MasterStoreBegin \/ MasterStoreEnd \/ MasterBroadcast

-----------------------------------------------------------------------------
(* The master's sender threads: sendToWorker. *)

\* A call copies serialized_query[my_id] and blocks until the worker's handler returns.
SenderCall(w, from, to) ==
  /\ spc[w] = from
  /\ mQuery # "none"
  /\ spc' = [spc EXCEPT ![w] = to]
  /\ toWorker' = [toWorker EXCEPT ![w] = mQuery]
  /\ UNCHANGED <<clientVars, mpc, mWarm, mQuery, mh, early, workerVars, toMaster, toClient>>

SenderReturns(w, from, to) ==
  /\ spc[w] = from
  /\ toWorker[w] = "reply"
  /\ spc' = [spc EXCEPT ![w] = to]
  /\ toWorker' = [toWorker EXCEPT ![w] = "idle"]
  /\ UNCHANGED <<clientVars, mpc, mWarm, mQuery, mh, early, workerVars, toMaster, toClient>>

\* pthread_cond_wait on request_received_cond, with no condition around it.
SenderAwaitQuery(w) ==
  /\ spc[w] = "await"
  /\ spc' = [spc EXCEPT ![w] = "asleep"]
  /\ UNCHANGED <<clientVars, mpc, mWarm, mQuery, mh, early, workerVars,
                 toMaster, toWorker, toClient>>

\* ... which may return without a signal.
SenderSpurious(w) ==
  /\ mpc # "crashed"
  /\ spc[w] = "asleep" /\ MayReturn
  /\ spc' = [spc EXCEPT ![w] = "woken"]
  /\ senderEarly' = senderEarly \cup {w}
  /\ UNCHANGED <<clientVars, mpc, mWarm, mQuery, mh, masterEarly, workerVars,
                 toMaster, toWorker, toClient>>

\* The vector is empty, or its memory is being replaced: the read kills the process.
SenderCrash(w) ==
  /\ spc[w] \in {"connect", "woken"}
  /\ mQuery \in {"none", "torn"}
  /\ mpc' = "crashed"
  /\ UNCHANGED <<clientVars, mWarm, mQuery, mh, spc, early, workerVars,
                 toMaster, toWorker, toClient>>

Sender(w) ==
  /\ mpc # "crashed"
  /\ \/ SenderCall(w, "connect", "warming")
     \/ SenderReturns(w, "warming", "await")
     \/ SenderAwaitQuery(w)
     \/ SenderCall(w, "woken", "sending")
     \/ SenderReturns(w, "sending", "done")
     \/ SenderCrash(w)

-----------------------------------------------------------------------------
(* The workers' main threads. *)

WorkerInit ==
  /\ wpc = [w \in Workers |-> "build"]
  /\ wWarm = [w \in Workers |-> FALSE]
  /\ wKeys = [w \in Workers |-> FALSE]
  /\ wQuery = [w \in Workers |-> "none"]
  /\ wh = [w \in Workers |-> "idle"]
  /\ used = [w \in Workers |-> "none"] /\ workerEarly = {}

\* response_client.call("sendResponse", ...): the worker blocks until the reply.
WorkerCall(w, from, to, message) ==
  /\ wpc[w] = from
  /\ wpc' = [wpc EXCEPT ![w] = to]
  /\ toClient' = [toClient EXCEPT ![w] = message]
  /\ UNCHANGED <<clientVars, masterVars, wWarm, wKeys, wQuery, wh, used, workerEarly,
                 toMaster, toWorker>>

WorkerReturns(w, from, to) ==
  /\ wpc[w] = from
  /\ toClient[w] = "reply"
  /\ wpc' = [wpc EXCEPT ![w] = to]
  /\ toClient' = [toClient EXCEPT ![w] = "idle"]
  /\ UNCHANGED <<clientVars, masterVars, wWarm, wKeys, wQuery, wh, used, workerEarly,
                 toMaster, toWorker>>

\* while (!warmup_received) pthread_cond_wait(...), under warmup_received_lock.
WorkerAwaitWarmup(w) ==
  /\ wpc[w] = "guard"
  /\ wpc' = [wpc EXCEPT ![w] = IF wWarm[w] THEN "ready" ELSE "asleep1"]
  /\ UNCHANGED <<clientVars, masterVars, wWarm, wKeys, wQuery, wh, used, workerEarly,
                 toMaster, toWorker, toClient>>

\* pthread_cond_wait on request_received_cond, with no condition around it.
WorkerAwaitQuery(w) ==
  /\ wpc[w] = "await"
  /\ wpc' = [wpc EXCEPT ![w] = "asleep"]
  /\ UNCHANGED <<clientVars, masterVars, wWarm, wKeys, wQuery, wh, used, workerEarly,
                 toMaster, toWorker, toClient>>

\* Either wait may return without a signal; the first evaluates its condition again.
WorkerSpurious(w) ==
  /\ \/ wpc[w] = "asleep1"
        /\ wpc' = [wpc EXCEPT ![w] = "guard"] /\ UNCHANGED workerEarly
     \/ wpc[w] = "asleep" /\ MayReturn
        /\ wpc' = [wpc EXCEPT ![w] = "woken"] /\ workerEarly' = workerEarly \cup {w}
  /\ UNCHANGED <<clientVars, masterVars, wWarm, wKeys, wQuery, wh, used,
                 toMaster, toWorker, toClient>>

\* Main deserializes the keys and what serialized_query holds now, generates the
\* reply and sends it with its id.
WorkerAnswer(w) ==
  /\ wpc[w] = "woken"
  /\ wKeys[w] /\ wQuery[w] \in {"real", "torn"}
  /\ used' = [used EXCEPT ![w] = wQuery[w]]
  /\ wpc' = [wpc EXCEPT ![w] = "answering"]
  /\ toClient' = [toClient EXCEPT ![w] = "response"]
  /\ UNCHANGED <<clientVars, masterVars, wWarm, wKeys, wQuery, wh, workerEarly,
                 toMaster, toWorker>>

\* Without keys, or with bytes that are no ciphertext, unsafe_load throws.
WorkerCrash(w) ==
  /\ wpc[w] = "woken"
  /\ ~wKeys[w] \/ wQuery[w] # "real"
  /\ wpc' = [wpc EXCEPT ![w] = "crashed"]
  /\ UNCHANGED <<clientVars, masterVars, wWarm, wKeys, wQuery, wh, used, workerEarly,
                 toMaster, toWorker, toClient>>

WorkerMain(w) ==
  \/ WorkerCall(w, "build", "hello", "warmup")
  \/ WorkerReturns(w, "hello", "guard")
  \/ WorkerAwaitWarmup(w)
  \/ WorkerCall(w, "ready", "arming", "warmup")
  \/ WorkerReturns(w, "arming", "await")
  \/ WorkerAwaitQuery(w)
  \/ WorkerAnswer(w) \/ WorkerCrash(w)
  \/ WorkerReturns(w, "answering", "done")

-----------------------------------------------------------------------------
(* The workers' RPC server threads: sendQuery. *)

\* Mutant of WorkerFirstQuery: no signal.
WorkerFirstQuerySilent(w) ==
  /\ wh[w] = "idle" /\ toWorker[w] \in Query
  /\ ~wWarm[w]
  /\ wWarm' = [wWarm EXCEPT ![w] = TRUE]
  /\ wQuery' = [wQuery EXCEPT ![w] = toWorker[w]]
  /\ toWorker' = [toWorker EXCEPT ![w] = "reply"]
  /\ UNCHANGED <<clientVars, masterVars, wpc, wKeys, wh, used, workerEarly, toMaster, toClient>>

\* The first call: store the query, not the keys, and signal warmup_received_cond,
\* all under warmup_received_lock.
WorkerFirstQuery(w) ==
  /\ wh[w] = "idle" /\ toWorker[w] \in Query
  /\ ~wWarm[w]
  /\ wWarm' = [wWarm EXCEPT ![w] = TRUE]
  /\ wQuery' = [wQuery EXCEPT ![w] = toWorker[w]]
  /\ wpc' = IF wpc[w] = "asleep1" THEN [wpc EXCEPT ![w] = "guard"] ELSE wpc
  /\ toWorker' = [toWorker EXCEPT ![w] = "reply"]
  /\ UNCHANGED <<clientVars, masterVars, wKeys, wh, used, workerEarly, toMaster, toClient>>

\* A later call: assign the keys and the query without a lock, then broadcast to main
\* under request_received_lock.
WorkerStoreBegin(w) ==
  /\ wh[w] = "idle" /\ toWorker[w] \in Query
  /\ wWarm[w]
  /\ wKeys' = [wKeys EXCEPT ![w] = TRUE]
  /\ wQuery' = [wQuery EXCEPT ![w] = "torn"]
  /\ wh' = [wh EXCEPT ![w] = "storing"]
  /\ UNCHANGED <<clientVars, masterVars, wpc, wWarm, used, workerEarly,
                 toMaster, toWorker, toClient>>

WorkerStoreEnd(w) ==
  /\ wh[w] = "storing"
  /\ wQuery' = [wQuery EXCEPT ![w] = toWorker[w]]
  /\ wh' = [wh EXCEPT ![w] = "waking"]
  /\ UNCHANGED <<clientVars, masterVars, wpc, wWarm, wKeys, used, workerEarly,
                 toMaster, toWorker, toClient>>

WorkerBroadcast(w) ==
  /\ wh[w] = "waking"
  /\ wh' = [wh EXCEPT ![w] = "idle"]
  /\ wpc' = IF wpc[w] = "asleep" THEN [wpc EXCEPT ![w] = "woken"] ELSE wpc
  /\ toWorker' = [toWorker EXCEPT ![w] = "reply"]
  /\ UNCHANGED <<clientVars, masterVars, wWarm, wKeys, wQuery, used, workerEarly,
                 toMaster, toClient>>

\* The server is gone with its process.
WorkerServer(w) ==
  /\ wpc[w] \notin {"crashed", "done"}
  /\ WorkerFirstQuery(w) \/ WorkerStoreBegin(w) \/ WorkerStoreEnd(w) \/ WorkerBroadcast(w)

-----------------------------------------------------------------------------
Init ==
  /\ ClientInit /\ MasterInit /\ WorkerInit
  /\ toMaster = "idle"
  /\ toWorker = [w \in Workers |-> "idle"]
  /\ toClient = [w \in Workers |-> "idle"]

\* What the system may do by itself, at any time and never surely.
SpuriousReturn ==
  \/ ClientSpurious \/ MasterSpurious
  \/ \E w \in Workers: SenderSpurious(w) \/ WorkerSpurious(w)

Next ==
  \/ ClientMain \/ ClientServer
  \/ MasterMain \/ MasterServer
  \/ \E w \in Workers: Sender(w) \/ WorkerMain(w) \/ WorkerServer(w)
  \/ SpuriousReturn

\* Every thread that can go on is scheduled eventually; no wait returns by itself
\* for fairness' sake.
Fairness ==
  /\ WF_vars(ClientMain) /\ WF_vars(ClientServer)
  /\ WF_vars(MasterMain) /\ WF_vars(MasterServer)
  /\ \A w \in Workers: /\ WF_vars(Sender(w))
                       /\ WF_vars(WorkerMain(w))
                       /\ WF_vars(WorkerServer(w))

Spec == Init /\ [][Next]_vars
FairSpec == Spec /\ Fairness

-----------------------------------------------------------------------------
(* What has happened to a worker, read off its program counter and its call. *)

HelloStates == {"build", "hello"}
WarmupStates == {"guard", "asleep1", "ready", "arming"}
QueryStates == {"await", "asleep", "woken", "answering"}

\* The client has counted w's first warm-up, its second, its response.
SaidHello(w) == wpc[w] # "build" /\ (wpc[w] = "hello" => toClient[w] = "reply")
Armed(w) == wpc[w] \in QueryStates \cup {"done", "crashed"} \/ (wpc[w] = "arming" /\ toClient[w] = "reply")
Answered(w) == wpc[w] = "done" \/ (wpc[w] = "answering" /\ toClient[w] = "reply")

Up == {w \in Workers: SaidHello(w)}
ArmedWorkers == {w \in Workers: Armed(w)}
AnsweredWorkers == {w \in Workers: Answered(w)}

\* The phases of the client's main thread.
HelloPhase == {"init", "guard1", "asleep1", "reset"}
WarmupPhase == {"warm", "warming", "guard2", "asleep2", "schedule"}
QueryPhase == {"send", "await", "asleep", "woken"}

\* A broadcast or a signal of an unguarded wait is over and its thread is not past it.
MasterMissed == mWarm /\ mh # "first" /\ mpc \in {"boot", "asleep"}
SenderMissed(w) == mQuery = "real" /\ mh = "idle" /\ spc[w] \in {"connect", "warming", "await", "asleep"}
WorkerMissed(w) == wQuery[w] = "real" /\ wh[w] = "idle" /\ wpc[w] \in {"ready", "arming", "await", "asleep"}
ClientMissed == responseReceived = numTotal /\ cpc \in {"await", "asleep"}
WakeupMissed ==
  MasterMissed \/ ClientMissed \/ \E w \in Workers: SenderMissed(w) \/ WorkerMissed(w)

Finished == cpc = "done" /\ mpc = "done" /\ \A w \in Workers: wpc[w] = "done"

-----------------------------------------------------------------------------
(* Correctness. *)

\* Every variable holds a value the program can give it (all of the globals of
\* client.cpp, master.cpp and worker.cpp that the session uses).
TypeOK ==
  /\ cpc \in HelloPhase \cup WarmupPhase \cup QueryPhase \cup {"done", "null"}
  /\ numTotal \in {0, Cardinality(Workers)}
  /\ warmupCount \in Nat /\ countRead \in Nat /\ responseReceived \in Nat
  /\ counting \in SUBSET Workers
  /\ clientEarly \in BOOLEAN /\ masterEarly \in BOOLEAN
  /\ senderEarly \in SUBSET Workers /\ workerEarly \in SUBSET Workers
  /\ mpc \in {"boot", "asleep", "woken", "join", "done", "crashed"}
  /\ mWarm \in BOOLEAN /\ mQuery \in Query /\ mh \in {"idle", "first", "storing", "waking"}
  /\ spc \in [Workers -> {"none", "connect", "warming", "await", "asleep", "woken",
                          "sending", "done"}]
  /\ wpc \in [Workers -> HelloStates \cup WarmupStates \cup QueryStates \cup {"done", "crashed"}]
  /\ wWarm \in [Workers -> BOOLEAN] /\ wKeys \in [Workers -> BOOLEAN]
  /\ wQuery \in [Workers -> Query] /\ used \in [Workers -> {"none", "real", "torn"}]
  /\ wh \in [Workers -> {"idle", "storing", "waking"}]
  /\ toMaster \in Request
  /\ toWorker \in [Workers -> Request]
  /\ toClient \in [Workers -> {"idle", "warmup", "response", "reply"}]

\* The client's counter is the number of workers whose warm-up of the current
\* round has been counted, although main clears it without the lock: no warm-up
\* of either round is lost or counted twice.
WarmupCountExact ==
  /\ cpc \in HelloPhase => warmupCount = Cardinality(Up)
  /\ cpc \in WarmupPhase => warmupCount = Cardinality(ArmedWorkers)

\* The query leaves the client only when every worker has built its database,
\* received its own warm-up query and said so.
QueryNeedsArmedWorkers ==
  cpc \in QueryPhase \cup {"done"} => \A w \in Workers: Armed(w) /\ wWarm[w]

\* sendQuery assigns serialized_query without a lock and the waits for it have no
\* predicate: only the signals keep a sender thread from copying, and a worker from
\* deserializing, a query that is half-assigned or that of another round.  A thread
\* that was woken by its signal always reads the complete query of its own round; what
\* a worker answers is something else only if its own wait or its sender's returned by
\* itself, whatever the other threads' waits did.
NoTornQuery ==
  \A w \in Workers:
    /\ spc[w] = "connect" /\ ~masterEarly => mQuery = "dummy"
    /\ spc[w] = "woken" /\ w \notin senderEarly => mQuery = "real"
    /\ wpc[w] = "woken" /\ w \notin EarlyWorkers => wKeys[w] /\ wQuery[w] = "real"
    /\ used[w] = "torn" => w \in EarlyWorkers

\* The client reports only after every worker has answered, unless its own wait, which
\* has no predicate, returned by itself; and then every worker whose query came by the
\* broadcasts has answered the real one.
ReportNeedsAllAnswers ==
  cpc \in {"woken", "done"} /\ ~clientEarly =>
    \A w \in Workers: Answered(w) /\ (w \notin EarlyWorkers => used[w] = "real")

\* Main clears warmup_count, without the lock, only while no handler is between
\* reading and writing it, and when it holds the count of all the workers.
ResetLosesNothing ==
  [][(cpc = "reset" /\ cpc' = "warm") =>
        counting = {} /\ warmupCount = Cardinality(Workers)]_vars

\* The query a sender thread has still to copy is not overwritten under it, unless the
\* wait before, the master's or its own, returned by itself.
NoOverwriteBeforeSend ==
  [][mQuery' # mQuery => \A w \in Workers: /\ spc[w] = "connect" => masterEarly
                                          /\ spc[w] = "woken" => w \in senderEarly]_vars

\* A scheduled session ends with the report unless a wake-up is missed or comes without
\* its signal: the unguarded waits are the only thing that can stop it, and of these
\* only the master's first can stop the warm-up rounds, whose other waits have their
\* conditions around them: by a missed signal, or by returning before the first query
\* is there.
OnlyMissedWakeupsHang ==
  /\ <>(cpc = "schedule" \/ MasterMissed \/ mpc = "crashed")
  /\ <>(Finished \/ cpc = "null" \/ WakeupMissed \/ EarlyReturn)

\* What aws_scripts/README.md says: a run hangs on a disruption of the network or
\* an internal error of AWS; here there is none.
SessionEnds == <>(cpc \in {"done", "null"})

-----------------------------------------------------------------------------
(* The inductive invariant behind these: how the states of the threads on the *)
(* two ends of each connection go together.                                   *)

\* The client's main thread, its connection to the master and the master's handler.
MasterCallInv ==
  /\ cpc = "init" <=> numTotal = 0
  /\ cpc \in HelloPhase \cup {"warm"} => toMaster = "idle"
  /\ cpc = "warming" =>
       \/ toMaster = "dummy" /\ ~mWarm
       \/ toMaster = "dummy" /\ mWarm /\ mh = "first" /\ mQuery = "torn"
       \/ toMaster = "reply" /\ mWarm /\ mh = "idle" /\ mQuery = "dummy"
  /\ cpc \in {"guard2", "asleep2", "schedule", "send", "null"} => toMaster = "idle"
  /\ mWarm <=> cpc \notin HelloPhase \cup {"warm"} /\ (toMaster = "dummy" => mh = "first")
  /\ ~mWarm => mQuery = "none" /\ mh = "idle" /\ (mpc \in {"boot", "asleep"} \/ masterEarly)
  /\ mh = "first" => mpc \in {"boot", "asleep"} \/ masterEarly
  /\ cpc \in {"await", "asleep", "woken", "done"} =>
       \/ toMaster \in {"real", "idle"} /\ mh = "idle" /\ mQuery = "dummy"
       \/ toMaster = "real" /\ mh = "storing" /\ mQuery = "torn"
       \/ toMaster = "real" /\ mh = "waking" /\ mQuery = "real"
       \/ toMaster = "reply" /\ mh = "idle" /\ mQuery = "real"
  /\ cpc \notin {"warming", "await", "asleep", "woken", "done"} =>
       mh = "idle" /\ mQuery \in {"none", "dummy"} /\ (mWarm => mQuery = "dummy")

\* A sender thread, its connection and the worker's handler.
SenderInv(w) ==
  /\ spc[w] = "none" => mpc \in {"boot", "asleep", "woken"}
  /\ mpc \in {"boot", "asleep", "woken"} => spc[w] = "none"
  /\ mpc = "done" => spc[w] = "done"
  /\ spc[w] \in {"none", "connect"} =>
       toWorker[w] = "idle" /\ ~wWarm[w] /\ wh[w] = "idle" /\ wQuery[w] = "none"
  /\ spc[w] \notin {"none", "connect"} => mWarm
  /\ spc[w] = "connect" => mQuery # "real" /\ (mQuery = "dummy" \/ masterEarly)
  /\ spc[w] = "warming" =>
       /\ wh[w] = "idle"
       /\ \/ toWorker[w] \in {"dummy", "torn"} /\ ~wWarm[w] /\ wQuery[w] = "none"
          \/ toWorker[w] = "reply" /\ wWarm[w] /\ wQuery[w] \in {"dummy", "torn"}
  /\ spc[w] \in {"await", "asleep", "woken"} =>
       toWorker[w] = "idle" /\ wWarm[w] /\ wh[w] = "idle" /\ wQuery[w] \in {"dummy", "torn"}
  /\ spc[w] \in {"woken", "sending", "done"} /\ w \notin senderEarly => mQuery = "real" /\ mh = "idle"
  /\ w \in senderEarly => spc[w] \in {"woken", "sending", "done"}
  /\ wKeys[w] <=> wh[w] # "idle" \/ spc[w] = "done" \/ (spc[w] = "sending" /\ toWorker[w] = "reply")
  /\ spc[w] = "sending" =>
       /\ wWarm[w]
       /\ \/ toWorker[w] \in {"dummy", "torn", "real"} /\ wh[w] = "idle" /\ wQuery[w] \in {"dummy", "torn"}
          \/ toWorker[w] \in {"dummy", "torn", "real"} /\ wh[w] = "storing" /\ wQuery[w] = "torn"
          \/ toWorker[w] \in {"dummy", "torn", "real"} /\ wh[w] = "waking" /\ wQuery[w] = toWorker[w]
          \/ toWorker[w] = "reply" /\ wh[w] = "idle" /\ (w \in senderEarly \/ wQuery[w] = "real")
       /\ w \notin senderEarly => toWorker[w] \in {"real", "reply"}
  /\ spc[w] = "done" => toWorker[w] = "idle" /\ wWarm[w] /\ wh[w] = "idle"
                        /\ (w \in senderEarly \/ wQuery[w] = "real")
  /\ "real" \in {toWorker[w], wQuery[w]} => mQuery = "real"

\* A worker's main thread and its connection to the client.
WorkerInv(w) ==
  /\ wpc[w] \in {"hello", "arming"} => toClient[w] \in {"warmup", "reply"}
  /\ wpc[w] = "answering" => toClient[w] \in {"response", "reply"}
  /\ wpc[w] \notin {"hello", "arming", "answering"} => toClient[w] = "idle"
  /\ wpc[w] \in {"ready", "arming"} \cup QueryStates \cup {"done", "crashed"} => wWarm[w]
  /\ wpc[w] = "woken" /\ w \notin EarlyWorkers => wKeys[w] /\ wQuery[w] = "real"
  /\ wpc[w] = "crashed" => w \in EarlyWorkers
  /\ w \in workerEarly => wpc[w] \in {"woken", "answering", "done", "crashed"}
  /\ used[w] # "none" <=> wpc[w] \in {"answering", "done"}
  /\ used[w] = "torn" => w \in EarlyWorkers
  /\ used[w] = "real" => wQuery[w] = "real"

\* The client's counters, its handler, and what they let main conclude.
CountInv ==
  /\ \A w \in counting: toClient[w] = "warmup" /\ counting = {w} /\ countRead = warmupCount
  /\ WarmupCountExact
  /\ responseReceived = Cardinality(AnsweredWorkers)
  /\ cpc = "reset" \/ cpc \notin HelloPhase => \A w \in Workers: SaidHello(w)
  /\ cpc \in {"schedule", "null", "done"} \cup QueryPhase => \A w \in Workers: Armed(w)
  /\ cpc \in {"woken", "done"} /\ ~clientEarly => \A w \in Workers: Answered(w)
  /\ clientEarly => cpc \in {"woken", "done"}

\* The conjunction holds in every reachable state and every step preserves it; it
\* ties the threads of the three processes together across their connections.
SessionInv ==
  /\ TypeOK
  /\ MasterCallInv
  /\ \A w \in Workers: SenderInv(w) /\ WorkerInv(w)
  /\ CountInv

-----------------------------------------------------------------------------
(* The abstract session it implements. *)

Round == CASE cpc \in HelloPhase -> "hello"
           [] cpc \in WarmupPhase -> "warmup"
           [] cpc \in QueryPhase -> "query"
           [] OTHER -> cpc

\* An answer is a report of the last round if it answers the real query.
Reported == CASE cpc \in HelloPhase -> Up
              [] cpc \in WarmupPhase -> ArmedWorkers
              [] OTHER -> {w \in AnsweredWorkers: used[w] = "real"}

\* Those the last round may end without.
Excused == IF clientEarly THEN Workers ELSE EarlyWorkers

Rounds == INSTANCE SessionRounds WITH round <- Round, reported <- Reported, excused <- Excused

\* The session is three rounds of reports, each begun only when every worker has
\* reported in the one before; what a wait does that returns by itself is no more than
\* to excuse workers from the last.
ImplementsRounds == Rounds!Spec
=============================================================================
