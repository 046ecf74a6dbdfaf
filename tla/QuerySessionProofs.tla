-------------------------- MODULE QuerySessionProofs --------------------------
(***************************************************************************)
(* Proofs about QuerySession, for every finite set of workers: SessionInv  *)
(* is inductive, and with it the safety properties of the session and its  *)
(* refinement of SessionRounds.                                            *)
(***************************************************************************)
EXTENDS QuerySession, FiniteSetTheorems, TLAPS

USE DEF HelloPhase, WarmupPhase, QueryPhase, HelloStates, WarmupStates, QueryStates,
        Query, Request, early

\* A step that leaves the workers' main threads and their calls alone leaves the
\* workers' progress alone.
LEMMA ProgressFrame ==
  ASSUME UNCHANGED <<wpc, toClient>>
  PROVE  UNCHANGED <<Up, ArmedWorkers, AnsweredWorkers>>
BY DEF Up, ArmedWorkers, AnsweredWorkers, SaidHello, Armed, Answered

\* The workers are finitely many, at least one, and a set of them that is as large
\* as all of them is all of them.
LEMMA WorkerCount ==
  /\ Cardinality(Workers) \in Nat \ {0}
  /\ \A S \in SUBSET Workers: /\ IsFiniteSet(S)
                              /\ Cardinality(S) \in Nat
                              /\ Cardinality(S) <= Cardinality(Workers)
                              /\ Cardinality(S) = Cardinality(Workers) => S = Workers
                              /\ \A w \in Workers \ S:
                                   Cardinality(S \cup {w}) = Cardinality(S) + 1
<1>1. IsFiniteSet(Workers) /\ Workers # {} BY WorkersAssumption
<1>2. Cardinality(Workers) \in Nat BY <1>1, FS_CardinalityType
<1>3. Cardinality(Workers) # 0 BY <1>1, FS_EmptySet
<1>4. ASSUME NEW S \in SUBSET Workers
      PROVE  /\ IsFiniteSet(S)
             /\ Cardinality(S) \in Nat
             /\ Cardinality(S) <= Cardinality(Workers)
             /\ Cardinality(S) = Cardinality(Workers) => S = Workers
  <2>1. IsFiniteSet(S) /\ Cardinality(S) <= Cardinality(Workers)
        /\ (Cardinality(S) = Cardinality(Workers) => S = Workers)
    BY <1>1, FS_Subset
  <2> QED BY <2>1, FS_CardinalityType
<1>5. ASSUME NEW S \in SUBSET Workers, NEW w \in Workers \ S
      PROVE  Cardinality(S \cup {w}) = Cardinality(S) + 1
  BY <1>4, FS_AddElement
<1> QED BY <1>2, <1>3, <1>4, <1>5

-------------------------------------------------------------------------------
LEMMA InitInv == Init => SessionInv
<1> SUFFICES ASSUME Init PROVE SessionInv
  OBVIOUS
<1> USE DEF Init, ClientInit, MasterInit, WorkerInit
<1>1. TypeOK BY WorkerCount DEF TypeOK
<1>2. MasterCallInv BY DEF MasterCallInv
<1>3. \A w \in Workers: SenderInv(w) /\ WorkerInv(w) BY DEF SenderInv, WorkerInv, EarlyWorkers
<1>4. Up = {} /\ ArmedWorkers = {} /\ AnsweredWorkers = {}
  BY DEF Up, ArmedWorkers, AnsweredWorkers, SaidHello, Armed, Answered
<1>5. Cardinality({}) = 0 BY FS_EmptySet
<1>6. CountInv BY <1>4, <1>5 DEF CountInv, WarmupCountExact
<1> QED BY <1>1, <1>2, <1>3, <1>6 DEF SessionInv

-------------------------------------------------------------------------------
(* The steps of the client's main thread. *)

LEMMA ClientMainInv == ASSUME SessionInv, ClientMain PROVE SessionInv'
<1> USE DEF SessionInv
<1>0. UNCHANGED <<masterVars, workerVars, toWorker, toClient, countRead, counting, responseReceived,
                  clientEarly>>
  BY DEF ClientMain, ClientSetup, ClientAwaitWarmups, ClientReset, ClientCallWarmup,
         ClientWarmupReturns, ClientSchedule, ClientSendQuery, ClientAwaitResponses, ClientReport
<1>1. UNCHANGED <<Up, ArmedWorkers, AnsweredWorkers>>
  BY <1>0, ProgressFrame DEF workerVars
<1>2. \A w \in Workers: SenderInv(w)' /\ WorkerInv(w)'
  BY <1>0 DEF masterVars, workerVars, SenderInv, WorkerInv, EarlyWorkers
<1>3. /\ \A w \in Workers: /\ SaidHello(w)' <=> SaidHello(w)
                           /\ Armed(w)' <=> Armed(w)
                           /\ Answered(w)' <=> Answered(w)
  BY <1>0 DEF workerVars, SaidHello, Armed, Answered
<1> USE DEF masterVars, workerVars
<1>4. CASE ClientSetup
  <2>1. TypeOK' BY <1>4, WorkerCount DEF TypeOK, ClientSetup
  <2>2. MasterCallInv' BY <1>4, WorkerCount DEF TypeOK, MasterCallInv, ClientSetup
  <2>3. CountInv' BY <1>0, <1>1, <1>3, <1>4 DEF CountInv, WarmupCountExact, ClientSetup
  <2> QED BY <1>2, <2>1, <2>2, <2>3
<1>5. CASE ClientAwaitWarmups("guard1", "asleep1", "reset")
  <2>1. TypeOK' BY <1>5 DEF TypeOK, ClientAwaitWarmups
  <2>2. MasterCallInv' BY <1>5 DEF TypeOK, MasterCallInv, ClientAwaitWarmups
  <2>3. cpc' = "reset" => Up = Workers
    BY <1>5, WorkerCount DEF TypeOK, MasterCallInv, CountInv, WarmupCountExact,
                             ClientAwaitWarmups, Up
  <2>4. CountInv'
    BY <1>0, <1>1, <1>3, <1>5, <2>3 DEF CountInv, WarmupCountExact, ClientAwaitWarmups, Up
  <2> QED BY <1>2, <2>1, <2>2, <2>4
<1>6. CASE ClientReset
  <2>1. TypeOK' BY <1>6 DEF TypeOK, ClientReset
  <2>2. MasterCallInv' BY <1>6 DEF TypeOK, MasterCallInv, ClientReset
  <2>3. ArmedWorkers = {} /\ counting = {}
    BY <1>6 DEF TypeOK, MasterCallInv, SenderInv, WorkerInv, CountInv, ClientReset,
                ArmedWorkers, Armed, SaidHello
  <2>4. CountInv'
    BY <1>0, <1>1, <1>3, <1>6, <2>3, FS_EmptySet DEF CountInv, WarmupCountExact, ClientReset
  <2> QED BY <1>2, <2>1, <2>2, <2>4
<1>7. CASE ClientCallWarmup
  <2>1. TypeOK' BY <1>7 DEF TypeOK, ClientCallWarmup
  <2>2. MasterCallInv' BY <1>7 DEF TypeOK, MasterCallInv, ClientCallWarmup
  <2>3. CountInv' BY <1>0, <1>1, <1>3, <1>7 DEF CountInv, WarmupCountExact, ClientCallWarmup
  <2> QED BY <1>2, <2>1, <2>2, <2>3
<1>8. CASE ClientWarmupReturns
  <2>1. TypeOK' BY <1>8 DEF TypeOK, ClientWarmupReturns
  <2>2. MasterCallInv' BY <1>8 DEF TypeOK, MasterCallInv, ClientWarmupReturns
  <2>3. CountInv' BY <1>0, <1>1, <1>3, <1>8 DEF CountInv, WarmupCountExact, ClientWarmupReturns
  <2> QED BY <1>2, <2>1, <2>2, <2>3
<1>9. CASE ClientAwaitWarmups("guard2", "asleep2", "schedule")
  <2>1. TypeOK' BY <1>9 DEF TypeOK, ClientAwaitWarmups
  <2>2. MasterCallInv' BY <1>9 DEF TypeOK, MasterCallInv, ClientAwaitWarmups
  <2>3. cpc' = "schedule" => ArmedWorkers = Workers
    BY <1>9, WorkerCount DEF TypeOK, MasterCallInv, CountInv, WarmupCountExact,
                             ClientAwaitWarmups, ArmedWorkers
  <2>4. CountInv'
    BY <1>0, <1>1, <1>3, <1>9, <2>3
    DEF CountInv, WarmupCountExact, ClientAwaitWarmups, ArmedWorkers
  <2> QED BY <1>2, <2>1, <2>2, <2>4
<1>10. CASE ClientSchedule
  <2>1. TypeOK' BY <1>10 DEF TypeOK, ClientSchedule
  <2>2. MasterCallInv' BY <1>10 DEF TypeOK, MasterCallInv, ClientSchedule
  <2>3. CountInv' BY <1>0, <1>1, <1>3, <1>10 DEF CountInv, WarmupCountExact, ClientSchedule
  <2> QED BY <1>2, <2>1, <2>2, <2>3
<1>11. CASE ClientSendQuery
  <2>1. TypeOK' BY <1>11 DEF TypeOK, ClientSendQuery
  <2>2. MasterCallInv' BY <1>11 DEF TypeOK, MasterCallInv, ClientSendQuery
  <2>3. CountInv' BY <1>0, <1>1, <1>3, <1>11 DEF CountInv, WarmupCountExact, ClientSendQuery
  <2> QED BY <1>2, <2>1, <2>2, <2>3
<1>12. CASE ClientAwaitResponses
  <2>1. TypeOK' BY <1>12 DEF TypeOK, ClientAwaitResponses
  <2>2. MasterCallInv' BY <1>12 DEF TypeOK, MasterCallInv, ClientAwaitResponses
  <2>3. CountInv' BY <1>0, <1>1, <1>3, <1>12 DEF CountInv, WarmupCountExact, ClientAwaitResponses
  <2> QED BY <1>2, <2>1, <2>2, <2>3
<1>13. CASE ClientReport
  <2>1. TypeOK' BY <1>13 DEF TypeOK, ClientReport
  <2>2. MasterCallInv' BY <1>13 DEF TypeOK, MasterCallInv, ClientReport
  <2>3. CountInv' BY <1>0, <1>1, <1>3, <1>13 DEF CountInv, WarmupCountExact, ClientReport
  <2> QED BY <1>2, <2>1, <2>2, <2>3
<1> QED
  BY <1>4, <1>5, <1>6, <1>7, <1>8, <1>9, <1>10, <1>11, <1>12, <1>13 DEF ClientMain

-------------------------------------------------------------------------------
(* The steps of the client's RPC server thread. *)

LEMMA CountWarmupBeginInv ==
  ASSUME SessionInv, NEW w \in Workers, CountWarmupBegin(w) PROVE SessionInv'
<1> USE DEF SessionInv, CountWarmupBegin, masterVars, workerVars
<1>1. TypeOK' BY DEF TypeOK
<1>2. MasterCallInv' BY DEF MasterCallInv
<1>3. \A v \in Workers: SenderInv(v)' /\ WorkerInv(v)' BY DEF SenderInv, WorkerInv, EarlyWorkers
<1>4. /\ \A v \in Workers: /\ SaidHello(v)' <=> SaidHello(v)
                           /\ Armed(v)' <=> Armed(v)
                           /\ Answered(v)' <=> Answered(v)
  BY DEF SaidHello, Armed, Answered
<1>5. CountInv' BY <1>4, ProgressFrame DEF CountInv, WarmupCountExact
<1> QED BY <1>1, <1>2, <1>3, <1>5

\* Counting a warm-up adds its worker to those that reported in this round.
LEMMA CountWarmupEndProgress ==
  ASSUME SessionInv, cpc \notin {"done", "null"}, NEW w \in Workers, CountWarmupEnd(w)
  PROVE  /\ countRead = warmupCount
         /\ AnsweredWorkers' = AnsweredWorkers
         /\ \/ /\ cpc \in HelloPhase /\ cpc # "reset"
               /\ Up' = Up \cup {w} /\ w \in Workers \ Up /\ Up \in SUBSET Workers
            \/ /\ cpc \in WarmupPhase /\ cpc # "schedule"
               /\ Up' = Up
               /\ ArmedWorkers' = ArmedWorkers \cup {w}
               /\ w \in Workers \ ArmedWorkers /\ ArmedWorkers \in SUBSET Workers
<1> USE DEF SessionInv, CountWarmupEnd
<1>1. toClient[w] = "warmup" /\ countRead = warmupCount /\ wpc[w] \in {"hello", "arming"}
  BY DEF CountInv, TypeOK, WorkerInv
<1>2. /\ wpc' = wpc
      /\ toClient'[w] = "reply"
      /\ \A v \in Workers: v # w => toClient'[v] = toClient[v]
  BY DEF TypeOK, workerVars
<1>3. AnsweredWorkers' = AnsweredWorkers
  BY <1>1, <1>2 DEF AnsweredWorkers, Answered
<1>4. CASE wpc[w] = "hello"
  <2>1. ~SaidHello(w) /\ cpc \in HelloPhase /\ cpc # "reset"
    BY <1>1, <1>4 DEF SaidHello, CountInv, TypeOK
  <2>2. Up' = Up \cup {w} BY <1>1, <1>2, <1>4 DEF Up, SaidHello
  <2> QED BY <1>1, <1>3, <2>1, <2>2 DEF Up
<1>5. CASE wpc[w] = "arming"
  <2>1. ~Armed(w) /\ cpc \in WarmupPhase /\ cpc # "schedule"
    BY <1>1, <1>5 DEF Armed, CountInv, TypeOK, MasterCallInv, SenderInv, WorkerInv
  <2>2. ArmedWorkers' = ArmedWorkers \cup {w} BY <1>1, <1>2, <1>5 DEF ArmedWorkers, Armed
  <2>3. Up' = Up BY <1>1, <1>2, <1>5 DEF Up, SaidHello
  <2> QED BY <1>1, <1>3, <2>1, <2>2, <2>3 DEF ArmedWorkers
<1> QED BY <1>1, <1>4, <1>5

LEMMA CountWarmupEndInv ==
  ASSUME SessionInv, cpc \notin {"done", "null"}, NEW w \in Workers, CountWarmupEnd(w)
  PROVE  SessionInv'
<1>0. wpc[w] \in {"hello", "arming"} /\ toClient'[w] = "reply"
      /\ \A v \in Workers: v # w => toClient'[v] = toClient[v]
  BY DEF SessionInv, CountInv, TypeOK, WorkerInv, CountWarmupEnd
<1>1. TypeOK' BY DEF SessionInv, TypeOK, CountWarmupEnd, SignalWarmup, masterVars, workerVars
<1> USE DEF SessionInv, CountWarmupEnd, SignalWarmup, masterVars, workerVars
<1>2. MasterCallInv' BY DEF TypeOK, MasterCallInv
<1>3. \A v \in Workers: SenderInv(v)' BY DEF SenderInv
<1>4. \A v \in Workers: WorkerInv(v)' BY <1>0 DEF WorkerInv, EarlyWorkers
<1>5. cpc' \in HelloPhase <=> cpc \in HelloPhase BY DEF TypeOK
<1>6. \A v \in Workers: /\ SaidHello(v) => SaidHello(v)'
                        /\ Armed(v) => Armed(v)'
                        /\ Answered(v) => Answered(v)'
  BY <1>0 DEF SaidHello, Armed, Answered
<1>7. counting' = {} /\ warmupCount' = warmupCount + 1 /\ responseReceived' = responseReceived
  BY CountWarmupEndProgress
<1>8. WarmupCountExact'
  <2>1. CASE Up' = Up \cup {w} /\ w \in Workers \ Up /\ Up \in SUBSET Workers /\ cpc \in HelloPhase
    <3>1. Cardinality(Up') = Cardinality(Up) + 1 BY <2>1, WorkerCount
    <3> QED BY <1>5, <1>7, <2>1, <3>1 DEF CountInv, WarmupCountExact
  <2>2. CASE /\ ArmedWorkers' = ArmedWorkers \cup {w} /\ w \in Workers \ ArmedWorkers
             /\ ArmedWorkers \in SUBSET Workers /\ cpc \in WarmupPhase
    <3>1. Cardinality(ArmedWorkers') = Cardinality(ArmedWorkers) + 1 BY <2>2, WorkerCount
    <3> QED BY <1>5, <1>7, <2>2, <3>1 DEF CountInv, WarmupCountExact
  <2> QED BY <2>1, <2>2, CountWarmupEndProgress
<1>9. CountInv'
  <2>1. cpc' = cpc \/ (cpc = "asleep1" /\ cpc' = "guard1") \/ (cpc = "asleep2" /\ cpc' = "guard2")
    OBVIOUS
  <2>2. AnsweredWorkers' = AnsweredWorkers BY CountWarmupEndProgress
  <2> QED BY <1>6, <1>7, <1>8, <2>1, <2>2 DEF CountInv
<1> QED BY <1>1, <1>2, <1>3, <1>4, <1>9

LEMMA ReceiveResponseInv ==
  ASSUME SessionInv, cpc \notin {"done", "null"}, NEW w \in Workers, ReceiveResponse(w)
  PROVE  SessionInv'
<1> USE DEF SessionInv, ReceiveResponse, masterVars, workerVars
<1>1. toClient[w] = "response" /\ wpc[w] = "answering"
  BY DEF TypeOK, WorkerInv
<1>2. \A v \in Workers: v # w => toClient'[v] = toClient[v] BY DEF TypeOK
<1>3. toClient'[w] = "reply" BY DEF TypeOK
<1>4. /\ Up' = Up /\ \A v \in Workers: SaidHello(v)' <=> SaidHello(v)
      /\ ArmedWorkers' = ArmedWorkers /\ \A v \in Workers: Armed(v)' <=> Armed(v)
  BY <1>1, <1>2, <1>3 DEF Up, ArmedWorkers, SaidHello, Armed
<1>5. /\ AnsweredWorkers' = AnsweredWorkers \cup {w}
      /\ w \notin AnsweredWorkers /\ AnsweredWorkers \subseteq Workers
  BY <1>1, <1>2, <1>3 DEF AnsweredWorkers, Answered
<1>6. Cardinality(AnsweredWorkers') = Cardinality(AnsweredWorkers) + 1 BY <1>5, WorkerCount
<1>7. AnsweredWorkers' \subseteq Workers BY <1>5
<1>8. cpc' = "woken" /\ ~clientEarly => AnsweredWorkers' = Workers
  <2>1. CASE cpc = "woken" /\ ~clientEarly
    BY <1>5, <2>1 DEF CountInv, AnsweredWorkers
  <2>2. CASE cpc # "woken" /\ cpc' = "woken"
    <3>1. Cardinality(AnsweredWorkers') = Cardinality(Workers)
      BY <1>6, <2>2 DEF CountInv, MasterCallInv, TypeOK
    <3> QED BY <1>7, <3>1, WorkerCount
  <2> QED BY <2>1, <2>2
<1>9. cpc' = "woken" /\ ~clientEarly => \A v \in Workers: Answered(v)'
  BY <1>8 DEF AnsweredWorkers
<1>10. cpc' = cpc \/ (cpc = "asleep" /\ cpc' = "woken") OBVIOUS
<1>11. TypeOK' BY DEF TypeOK
<1>12. MasterCallInv' BY <1>10 DEF TypeOK, MasterCallInv
<1>13. \A v \in Workers: SenderInv(v)' /\ WorkerInv(v)'
  BY <1>1, <1>2, <1>3 DEF SenderInv, WorkerInv, EarlyWorkers
<1>14. CountInv'
  BY <1>4, <1>6, <1>9, <1>10 DEF CountInv, WarmupCountExact, TypeOK
<1> QED BY <1>11, <1>12, <1>13, <1>14

LEMMA ClientServerInv == ASSUME SessionInv, ClientServer PROVE SessionInv'
BY CountWarmupBeginInv, CountWarmupEndInv, ReceiveResponseInv DEF ClientServer

-------------------------------------------------------------------------------
(* The steps of the master: main, the RPC server thread, the sender threads. *)

LEMMA MasterInv == ASSUME SessionInv, MasterMain \/ MasterServer PROVE SessionInv'
<1> USE DEF SessionInv, clientVars, workerVars
<1>0. UNCHANGED <<clientVars, early, workerVars, toWorker, toClient>>
  BY DEF MasterMain, MasterAwaitWarmup, MasterStartSenders, MasterJoin, MasterServer,
         MasterFirstBegin, MasterFirstEnd, MasterStoreBegin, MasterStoreEnd, MasterBroadcast
<1>1. CountInv'
  <2>1. \A v \in Workers: /\ SaidHello(v)' <=> SaidHello(v)
                          /\ Armed(v)' <=> Armed(v)
                          /\ Answered(v)' <=> Answered(v)
    BY <1>0 DEF SaidHello, Armed, Answered
  <2> QED BY <1>0, <2>1, ProgressFrame DEF CountInv, WarmupCountExact
<1>2. \A w \in Workers: WorkerInv(w)' BY <1>0 DEF WorkerInv, EarlyWorkers
<1>3. CASE MasterAwaitWarmup
  <2>1. TypeOK' BY <1>3 DEF TypeOK, MasterAwaitWarmup
  <2>2. MasterCallInv' BY <1>3 DEF TypeOK, MasterCallInv, MasterAwaitWarmup
  <2>3. \A w \in Workers: SenderInv(w)' BY <1>3 DEF SenderInv, MasterAwaitWarmup
  <2> QED BY <1>1, <1>2, <2>1, <2>2, <2>3
<1>4. CASE MasterStartSenders
  <2>1. TypeOK' BY <1>4 DEF TypeOK, MasterStartSenders
  <2>2. MasterCallInv' BY <1>4 DEF TypeOK, MasterCallInv, MasterStartSenders
  <2>3. mQuery # "real" /\ (mQuery = "dummy" \/ masterEarly)
    <3>1. PICK w \in Workers: TRUE BY WorkersAssumption
    <3>2. ~wWarm[w] BY <1>4 DEF SenderInv, MasterStartSenders
    <3>3. ~Armed(w) BY <3>2 DEF Armed, WorkerInv
    <3> QED BY <1>4, <3>3 DEF TypeOK, MasterCallInv, CountInv, MasterStartSenders
  <2>4. \A w \in Workers: SenderInv(w)' BY <1>4, <2>3 DEF SenderInv, MasterStartSenders
  <2> QED BY <1>1, <1>2, <2>1, <2>2, <2>4
<1>5. CASE MasterJoin
  <2>1. TypeOK' BY <1>5 DEF TypeOK, MasterJoin
  <2>2. MasterCallInv' BY <1>5 DEF TypeOK, MasterCallInv, MasterJoin
  <2>3. \A w \in Workers: SenderInv(w)' BY <1>5 DEF SenderInv, MasterJoin
  <2> QED BY <1>1, <1>2, <2>1, <2>2, <2>3
<1>6. CASE MasterFirstBegin
  <2>1. toMaster = "dummy" BY <1>6 DEF TypeOK, MasterCallInv, MasterFirstBegin
  <2>2. TypeOK' BY <1>6, <2>1 DEF TypeOK, MasterFirstBegin
  <2>3. MasterCallInv' BY <1>6, <2>1 DEF TypeOK, MasterCallInv, MasterFirstBegin
  <2>4. \A w \in Workers: SenderInv(w)'
    BY <1>6, <2>1 DEF TypeOK, MasterCallInv, SenderInv, MasterFirstBegin
  <2> QED BY <1>1, <1>2, <2>2, <2>3, <2>4
<1>10. CASE MasterFirstEnd
  <2>1. toMaster = "dummy" BY <1>10 DEF TypeOK, MasterCallInv, MasterFirstEnd
  <2>2. TypeOK' BY <1>10, <2>1 DEF TypeOK, MasterFirstEnd
  <2>3. MasterCallInv' BY <1>10, <2>1 DEF TypeOK, MasterCallInv, MasterFirstEnd
  <2>4. \A w \in Workers: SenderInv(w)'
    BY <1>10, <2>1 DEF TypeOK, MasterCallInv, SenderInv, MasterFirstEnd
  <2> QED BY <1>1, <1>2, <2>2, <2>3, <2>4
<1>7. CASE MasterStoreBegin
  <2>1. TypeOK' BY <1>7 DEF TypeOK, MasterStoreBegin
  <2>2. MasterCallInv' BY <1>7 DEF TypeOK, MasterCallInv, MasterStoreBegin
  <2>3. \A w \in Workers: wWarm[w]
    BY <1>7 DEF TypeOK, MasterCallInv, MasterStoreBegin, CountInv, Armed, WorkerInv
  <2>4. \A w \in Workers: SenderInv(w)'
    BY <1>7, <2>3 DEF TypeOK, MasterCallInv, SenderInv, MasterStoreBegin
  <2> QED BY <1>1, <1>2, <2>1, <2>2, <2>4
<1>8. CASE MasterStoreEnd
  <2>1. toMaster = "real" BY <1>8 DEF TypeOK, MasterCallInv, MasterStoreEnd
  <2>2. TypeOK' BY <1>8, <2>1 DEF TypeOK, MasterStoreEnd
  <2>3. MasterCallInv' BY <1>8, <2>1 DEF TypeOK, MasterCallInv, MasterStoreEnd
  <2>5. \A w \in Workers: wWarm[w]
    BY <1>8 DEF TypeOK, MasterCallInv, MasterStoreEnd, CountInv, Armed, WorkerInv
  <2>4. \A w \in Workers: SenderInv(w)'
    BY <1>8, <2>1, <2>5 DEF TypeOK, MasterCallInv, SenderInv, MasterStoreEnd
  <2> QED BY <1>1, <1>2, <2>2, <2>3, <2>4
<1>9. CASE MasterBroadcast
  <2>1. mQuery = "real" BY <1>9 DEF TypeOK, MasterCallInv, MasterBroadcast
  <2>2. TypeOK' BY <1>9 DEF TypeOK, MasterBroadcast
  <2>3. MasterCallInv' BY <1>9 DEF TypeOK, MasterCallInv, MasterBroadcast
  <2>4. \A w \in Workers: SenderInv(w)'
    BY <1>9, <2>1 DEF TypeOK, MasterCallInv, SenderInv, MasterBroadcast
  <2> QED BY <1>1, <1>2, <2>2, <2>3, <2>4
<1> QED
  BY <1>3, <1>4, <1>5, <1>6, <1>7, <1>8, <1>9, <1>10 DEF MasterMain, MasterServer

LEMMA SenderThreadInv ==
  ASSUME SessionInv, NEW w \in Workers, Sender(w) PROVE SessionInv'
<1> USE DEF SessionInv, clientVars, workerVars
<1>0. /\ UNCHANGED <<clientVars, mWarm, mQuery, mh, early, workerVars, toMaster, toClient>>
      /\ mpc' = mpc \/ (mpc' = "crashed" /\ mpc \notin {"boot", "asleep", "woken", "done"})
      /\ \A v \in Workers \ {w}: spc'[v] = spc[v] /\ toWorker'[v] = toWorker[v]
  <2>1. CASE SenderCrash(w)
    BY <2>1 DEF SenderCrash, SenderInv
  <2>2. CASE ~SenderCrash(w)
    BY <2>2 DEF Sender, SenderCall, SenderReturns, SenderAwaitQuery, TypeOK
  <2> QED BY <2>1, <2>2
<1>1. CountInv'
  <2>1. \A v \in Workers: /\ SaidHello(v)' <=> SaidHello(v)
                          /\ Armed(v)' <=> Armed(v)
                          /\ Answered(v)' <=> Answered(v)
    BY <1>0 DEF SaidHello, Armed, Answered
  <2> QED BY <1>0, <2>1, ProgressFrame DEF CountInv, WarmupCountExact
<1>2. MasterCallInv' BY <1>0 DEF MasterCallInv
<1>3. \A v \in Workers: WorkerInv(v)' BY <1>0 DEF WorkerInv, EarlyWorkers
<1>4. TypeOK'
  <2>1. CASE SenderCrash(w) BY <2>1 DEF TypeOK, SenderCrash
  <2>2. CASE ~SenderCrash(w)
    BY <2>2 DEF TypeOK, Sender, SenderCall, SenderReturns, SenderAwaitQuery
  <2> QED BY <2>1, <2>2
<1>5. ASSUME NEW v \in Workers \ {w} PROVE SenderInv(v)'
  <2>1. SenderInv(v) OBVIOUS
  <2>2. CASE mpc' = mpc BY <1>0, <2>1, <2>2 DEF SenderInv
  <2>3. CASE mpc' # mpc BY <1>0, <2>1, <2>3 DEF SenderInv
  <2> QED BY <2>2, <2>3
<1>6. SenderInv(w)'
  <2>1. CASE SenderCall(w, "connect", "warming")
    BY <2>1 DEF TypeOK, MasterCallInv, SenderInv, SenderCall
  <2>2. CASE SenderReturns(w, "warming", "await") BY <2>2 DEF TypeOK, SenderInv, SenderReturns
  <2>3. CASE SenderAwaitQuery(w) BY <2>3 DEF TypeOK, SenderInv, SenderAwaitQuery
  <2>4. CASE SenderCall(w, "woken", "sending") BY <2>4 DEF TypeOK, SenderInv, SenderCall
  <2>5. CASE SenderReturns(w, "sending", "done") BY <2>5 DEF TypeOK, SenderInv, SenderReturns
  <2>6. CASE SenderCrash(w) BY <2>6 DEF TypeOK, SenderInv, SenderCrash
  <2> QED BY <2>1, <2>2, <2>3, <2>4, <2>5, <2>6 DEF Sender
<1> QED BY <1>1, <1>2, <1>3, <1>4, <1>5, <1>6

-------------------------------------------------------------------------------
(* The steps of a worker's main thread and of its RPC server thread. *)

\* A worker's step is its own: it keeps what the other workers, the client and the
\* master have, and the invariant of the others.
LEMMA WorkerFrame ==
  ASSUME SessionInv, NEW w \in Workers, WorkerMain(w) \/ WorkerServer(w)
  PROVE  /\ UNCHANGED <<clientVars, masterVars, toMaster>>
         /\ workerEarly' = workerEarly
         /\ \A v \in Workers \ {w}: /\ wpc'[v] = wpc[v] /\ wWarm'[v] = wWarm[v] /\ wKeys'[v] = wKeys[v]
                                    /\ wQuery'[v] = wQuery[v] /\ wh'[v] = wh[v] /\ used'[v] = used[v]
                                    /\ toWorker'[v] = toWorker[v] /\ toClient'[v] = toClient[v]
         /\ TypeOK' /\ MasterCallInv'
         /\ \A v \in Workers \ {w}: SenderInv(v)' /\ WorkerInv(v)'
<1> USE DEF SessionInv
<1>1. TypeOK'
  <2> USE DEF TypeOK, clientVars, masterVars
  <2>1. CASE WorkerMain(w)
    <3>1. CASE WorkerAwaitWarmup(w) \/ WorkerAwaitQuery(w)
      BY <3>1 DEF WorkerAwaitWarmup, WorkerAwaitQuery
    <3>4. CASE WorkerAnswer(w) \/ WorkerCrash(w) BY <3>4 DEF WorkerAnswer, WorkerCrash
    <3>2. CASE WorkerCall(w, "build", "hello", "warmup") \/ WorkerCall(w, "ready", "arming", "warmup")
      BY <3>2 DEF WorkerCall
    <3>3. CASE WorkerReturns(w, "hello", "guard") \/ WorkerReturns(w, "arming", "await")
               \/ WorkerReturns(w, "answering", "done")
      BY <3>3 DEF WorkerReturns
    <3> QED BY <2>1, <3>1, <3>2, <3>3, <3>4 DEF WorkerMain
  <2>2. CASE WorkerServer(w)
    <3>1. CASE WorkerFirstQuery(w) BY <3>1 DEF WorkerFirstQuery
    <3>2. CASE WorkerStoreBegin(w) BY <3>2 DEF WorkerStoreBegin
    <3>3. CASE WorkerStoreEnd(w)
      <4>1. toWorker[w] \in Query BY <3>3 DEF WorkerStoreEnd, SenderInv
      <4> QED BY <3>3, <4>1 DEF WorkerStoreEnd
    <3>4. CASE WorkerBroadcast(w) BY <3>4 DEF WorkerBroadcast
    <3> QED BY <2>2, <3>1, <3>2, <3>3, <3>4 DEF WorkerServer
  <2> QED BY <2>1, <2>2
<1>2. UNCHANGED <<clientVars, masterVars, toMaster, workerEarly>>
  BY DEF WorkerMain, WorkerCall, WorkerReturns, WorkerAwaitWarmup, WorkerAwaitQuery,
         WorkerAnswer, WorkerCrash, WorkerServer, WorkerFirstQuery, WorkerStoreBegin, WorkerStoreEnd, WorkerBroadcast
<1>3. \A v \in Workers \ {w}: /\ wpc'[v] = wpc[v] /\ wWarm'[v] = wWarm[v] /\ wKeys'[v] = wKeys[v]
                              /\ wQuery'[v] = wQuery[v] /\ wh'[v] = wh[v] /\ used'[v] = used[v]
                              /\ toWorker'[v] = toWorker[v] /\ toClient'[v] = toClient[v]
  BY DEF TypeOK, WorkerMain, WorkerCall, WorkerReturns, WorkerAwaitWarmup, WorkerAwaitQuery,
         WorkerAnswer, WorkerCrash, WorkerServer, WorkerFirstQuery, WorkerStoreBegin, WorkerStoreEnd, WorkerBroadcast
<1>4. MasterCallInv' BY <1>2 DEF MasterCallInv, clientVars, masterVars
<1>5. \A v \in Workers \ {w}: SenderInv(v)' /\ WorkerInv(v)'
  BY <1>2, <1>3 DEF SenderInv, WorkerInv, EarlyWorkers, masterVars
<1> QED BY <1>1, <1>2, <1>3, <1>4, <1>5

\* What a worker has reported changes only when the client counts it, never by a
\* step of its own.
LEMMA WorkerProgress ==
  ASSUME SessionInv, NEW w \in Workers, WorkerMain(w) \/ WorkerServer(w)
  PROVE  /\ \A v \in Workers: /\ SaidHello(v)' <=> SaidHello(v)
                              /\ Armed(v)' <=> Armed(v)
                              /\ Answered(v)' <=> Answered(v)
         /\ UNCHANGED <<Up, ArmedWorkers, AnsweredWorkers>>
<1>1. \A v \in Workers \ {w}: wpc'[v] = wpc[v] /\ toClient'[v] = toClient[v]
  BY WorkerFrame
<1> USE DEF SessionInv, TypeOK
<1>2. /\ SaidHello(w)' <=> SaidHello(w)
      /\ Armed(w)' <=> Armed(w)
      /\ Answered(w)' <=> Answered(w)
  <2> USE DEF SaidHello, Armed, Answered, WorkerInv
  <2>1. CASE WorkerMain(w)
    <3>1. CASE WorkerCall(w, "build", "hello", "warmup") BY <3>1 DEF WorkerCall
    <3>2. CASE WorkerReturns(w, "hello", "guard") BY <3>2 DEF WorkerReturns
    <3>3. CASE WorkerAwaitWarmup(w) BY <3>3 DEF WorkerAwaitWarmup
    <3>4. CASE WorkerCall(w, "ready", "arming", "warmup") BY <3>4 DEF WorkerCall
    <3>5. CASE WorkerReturns(w, "arming", "await") BY <3>5 DEF WorkerReturns
    <3>6. CASE WorkerAwaitQuery(w) BY <3>6 DEF WorkerAwaitQuery
    <3>7. CASE WorkerAnswer(w) \/ WorkerCrash(w) BY <3>7 DEF WorkerAnswer, WorkerCrash
    <3>8. CASE WorkerReturns(w, "answering", "done") BY <3>8 DEF WorkerReturns
    <3> QED BY <2>1, <3>1, <3>2, <3>3, <3>4, <3>5, <3>6, <3>7, <3>8 DEF WorkerMain
  <2>2. CASE WorkerServer(w)
    <3>1. CASE WorkerFirstQuery(w) BY <3>1 DEF WorkerFirstQuery
    <3>2. CASE WorkerStoreBegin(w) \/ WorkerStoreEnd(w)
      BY <3>2 DEF WorkerStoreBegin, WorkerStoreEnd
    <3>3. CASE WorkerBroadcast(w) BY <3>3 DEF WorkerBroadcast
    <3> QED BY <2>2, <3>1, <3>2, <3>3 DEF WorkerServer
  <2> QED BY <2>1, <2>2
<1>3. \A v \in Workers: /\ SaidHello(v)' <=> SaidHello(v)
                        /\ Armed(v)' <=> Armed(v)
                        /\ Answered(v)' <=> Answered(v)
  BY <1>1, <1>2 DEF SaidHello, Armed, Answered
<1> QED BY <1>3 DEF Up, ArmedWorkers, AnsweredWorkers

LEMMA WorkerCountInv ==
  ASSUME SessionInv, NEW w \in Workers, WorkerMain(w) \/ WorkerServer(w)
  PROVE  CountInv'
<1> USE DEF SessionInv
<1>1. UNCHANGED clientVars /\ \A v \in Workers \ {w}: toClient'[v] = toClient[v]
  BY WorkerFrame
<1>2. toClient[w] = "warmup" => toClient'[w] = "warmup"
  BY DEF TypeOK, WorkerInv, WorkerMain, WorkerCall, WorkerReturns, WorkerAwaitWarmup,
         WorkerAwaitQuery, WorkerAnswer, WorkerCrash, WorkerServer, WorkerFirstQuery, WorkerStoreBegin, WorkerStoreEnd,
         WorkerBroadcast
<1>3. \A v \in counting: v \in Workers BY DEF TypeOK
<1>4. \A v \in counting: toClient'[v] = "warmup" BY <1>1, <1>2, <1>3 DEF CountInv
<1> QED BY <1>1, <1>4, WorkerProgress DEF CountInv, WarmupCountExact, clientVars

LEMMA WorkerMainInv ==
  ASSUME SessionInv, NEW w \in Workers, WorkerMain(w) PROVE SessionInv'
<1>0. /\ TypeOK' /\ MasterCallInv' /\ \A v \in Workers \ {w}: SenderInv(v)' /\ WorkerInv(v)'
      /\ CountInv'
      /\ UNCHANGED <<mpc, mWarm, mQuery, mh, spc, early, workerEarly>>
  BY WorkerFrame, WorkerCountInv DEF masterVars
<1> USE DEF SessionInv
<1>1. SenderInv(w)'
  <2>1. UNCHANGED <<wWarm, wKeys, wQuery, wh, toWorker>>
    BY DEF WorkerMain, WorkerCall, WorkerReturns, WorkerAwaitWarmup, WorkerAwaitQuery,
           WorkerAnswer, WorkerCrash
  <2> QED BY <1>0, <2>1 DEF SenderInv
<1>2. WorkerInv(w)'
  <2> USE <1>0 DEF TypeOK, WorkerInv, EarlyWorkers
  <2>1. CASE WorkerCall(w, "build", "hello", "warmup") BY <2>1 DEF WorkerCall
  <2>2. CASE WorkerReturns(w, "hello", "guard") BY <2>2 DEF WorkerReturns
  <2>3. CASE WorkerAwaitWarmup(w) BY <2>3 DEF WorkerAwaitWarmup
  <2>4. CASE WorkerCall(w, "ready", "arming", "warmup") BY <2>4 DEF WorkerCall
  <2>5. CASE WorkerReturns(w, "arming", "await") BY <2>5 DEF WorkerReturns
  <2>6. CASE WorkerAwaitQuery(w) BY <2>6 DEF WorkerAwaitQuery
  <2>7. CASE WorkerAnswer(w) \/ WorkerCrash(w) BY <2>7 DEF WorkerAnswer, WorkerCrash
  <2>8. CASE WorkerReturns(w, "answering", "done") BY <2>8 DEF WorkerReturns
  <2> QED BY <2>1, <2>2, <2>3, <2>4, <2>5, <2>6, <2>7, <2>8 DEF WorkerMain
<1> QED BY <1>0, <1>1, <1>2

LEMMA WorkerServerInv ==
  ASSUME SessionInv, NEW w \in Workers, WorkerServer(w) PROVE SessionInv'
<1> USE DEF SessionInv
<1>0. /\ TypeOK' /\ MasterCallInv' /\ \A v \in Workers \ {w}: SenderInv(v)' /\ WorkerInv(v)'
      /\ UNCHANGED <<mpc, mWarm, mQuery, mh, spc, early, workerEarly>>
  BY WorkerFrame DEF masterVars
<1>3. CountInv' BY WorkerCountInv
<1> SUFFICES SenderInv(w)' /\ WorkerInv(w)' BY <1>0, <1>3
<1>4. toWorker[w] \in Query =>
        /\ toWorker[w] # "none"
        /\ ~wWarm[w] => toWorker[w] # "real" /\ spc[w] = "warming"
        /\ wWarm[w] => spc[w] = "sending"
  BY DEF TypeOK, SenderInv
<1>5. wh[w] # "idle" => toWorker[w] \in {"dummy", "torn", "real"} /\ spc[w] = "sending"
  <2>1. spc[w] \in {"none", "connect", "warming", "await", "asleep", "woken", "sending", "done"}
    BY DEF TypeOK
  <2>2. SenderInv(w) OBVIOUS
  <2>3. CASE spc[w] = "sending" BY <2>2, <2>3 DEF SenderInv
  <2>4. CASE spc[w] # "sending" BY <2>1, <2>2, <2>4 DEF SenderInv
  <2> QED BY <2>3, <2>4
<1>10. toWorker[w] = "real" => mQuery = "real" BY DEF SenderInv
<1> USE <1>0 DEF TypeOK, EarlyWorkers
<1>6. CASE WorkerFirstQuery(w)
  <2>1. SenderInv(w)' BY <1>4, <1>6 DEF WorkerFirstQuery, SenderInv, masterVars
  <2>2. WorkerInv(w)' BY <1>4, <1>6 DEF WorkerFirstQuery, WorkerInv, SenderInv
  <2> QED BY <2>1, <2>2
<1>7. CASE WorkerStoreBegin(w)
  <2>1. SenderInv(w)' BY <1>4, <1>7 DEF WorkerStoreBegin, SenderInv, masterVars
  <2>2. wQuery[w] # "real" /\ ~wKeys[w] BY <1>4, <1>7 DEF WorkerStoreBegin, SenderInv
  <2>3. WorkerInv(w)' BY <1>7, <2>2 DEF WorkerStoreBegin, WorkerInv
  <2> QED BY <2>1, <2>3
<1>8. CASE WorkerStoreEnd(w)
  <2>1. SenderInv(w)' BY <1>5, <1>8, <1>10 DEF WorkerStoreEnd, SenderInv, masterVars
  <2>2. wQuery[w] # "real" BY <1>5, <1>8 DEF WorkerStoreEnd, SenderInv
  <2>3. WorkerInv(w)' BY <1>5, <1>8, <2>2 DEF WorkerStoreEnd, WorkerInv
  <2> QED BY <2>1, <2>3
<1>9. CASE WorkerBroadcast(w)
  <2>1. SenderInv(w)' BY <1>5, <1>9 DEF WorkerBroadcast, SenderInv, masterVars
  <2>2. w \notin senderEarly => wKeys[w] /\ wQuery[w] = "real"
    BY <1>5, <1>9 DEF WorkerBroadcast, SenderInv
  <2>3. WorkerInv(w)' BY <1>9, <2>2 DEF WorkerBroadcast, WorkerInv
  <2> QED BY <2>1, <2>3
<1> QED BY <1>6, <1>7, <1>8, <1>9 DEF WorkerServer

-------------------------------------------------------------------------------
(* The waits that return by themselves. *)

LEMMA SpuriousReturnInv == ASSUME SessionInv, SpuriousReturn PROVE SessionInv'
<1> USE DEF SessionInv, clientVars, masterVars, workerVars
<1>1. UNCHANGED <<numTotal, warmupCount, countRead, counting, responseReceived, mWarm, mQuery, mh,
                  wWarm, wKeys, wQuery, wh, used, toMaster, toWorker, toClient>>
  BY DEF SpuriousReturn, ClientSpurious, MasterSpurious, SenderSpurious, WorkerSpurious
<1>2. CASE ClientSpurious
  <2>1. UNCHANGED <<Up, ArmedWorkers, AnsweredWorkers>>
    BY <1>2, ProgressFrame DEF ClientSpurious
  <2>2. /\ \A w \in Workers: /\ SaidHello(w)' <=> SaidHello(w)
                             /\ Armed(w)' <=> Armed(w)
                             /\ Answered(w)' <=> Answered(w)
    BY <1>2 DEF ClientSpurious, SaidHello, Armed, Answered
  <2>3. \/ cpc = "asleep1" /\ cpc' = "guard1" /\ clientEarly' = clientEarly
        \/ cpc = "asleep2" /\ cpc' = "guard2" /\ clientEarly' = clientEarly
        \/ cpc = "asleep" /\ cpc' = "woken" /\ clientEarly' = TRUE
    <3>1. CASE cpc = "asleep1" BY <1>2, <3>1 DEF ClientSpurious, SignalWarmup
    <3>2. CASE cpc = "asleep2" BY <1>2, <3>2 DEF ClientSpurious, SignalWarmup
    <3>3. CASE cpc \notin {"asleep1", "asleep2"} BY <1>2, <3>3 DEF ClientSpurious
    <3> QED BY <3>1, <3>2, <3>3
  <2>8. UNCHANGED <<mpc, spc, masterEarly, senderEarly, wpc, workerEarly>>
    BY <1>2 DEF ClientSpurious
  <2>9. TypeOK OBVIOUS
  <2>10. cpc' \in HelloPhase \cup WarmupPhase \cup QueryPhase BY <2>3
  <2>11. clientEarly' \in BOOLEAN BY <2>3, <2>9 DEF TypeOK
  <2>4. TypeOK' BY <1>1, <2>8, <2>9, <2>10, <2>11 DEF TypeOK
  <2>5. MasterCallInv' BY <1>1, <1>2, <2>3 DEF TypeOK, MasterCallInv, ClientSpurious
  <2>6. \A w \in Workers: SenderInv(w)' /\ WorkerInv(w)'
    BY <1>2 DEF ClientSpurious, SenderInv, WorkerInv, EarlyWorkers
  <2>7. CountInv' BY <1>1, <2>1, <2>2, <2>3 DEF CountInv, WarmupCountExact
  <2> QED BY <2>4, <2>5, <2>6, <2>7
<1>3. CASE MasterSpurious
  <2>1. TypeOK' BY <1>3 DEF TypeOK, MasterSpurious
  <2>2. MasterCallInv' BY <1>3 DEF MasterCallInv, MasterSpurious
  <2>3. \A w \in Workers: SenderInv(w)' /\ WorkerInv(w)'
    BY <1>3 DEF MasterSpurious, SenderInv, WorkerInv, EarlyWorkers
  <2>4. CountInv'
    <3>1. \A v \in Workers: /\ SaidHello(v)' <=> SaidHello(v)
                            /\ Armed(v)' <=> Armed(v)
                            /\ Answered(v)' <=> Answered(v)
      BY <1>3 DEF MasterSpurious, SaidHello, Armed, Answered
    <3> QED BY <1>3, <3>1, ProgressFrame DEF MasterSpurious, CountInv, WarmupCountExact
  <2> QED BY <2>1, <2>2, <2>3, <2>4
<1>4. ASSUME NEW w \in Workers, SenderSpurious(w) PROVE SessionInv'
  <2>1. TypeOK' BY <1>4 DEF TypeOK, SenderSpurious
  <2>2. MasterCallInv' BY <1>4 DEF MasterCallInv, SenderSpurious
  <2>3. \A v \in Workers: WorkerInv(v)'
    BY <1>4 DEF SenderSpurious, WorkerInv, EarlyWorkers
  <2>4. \A v \in Workers \ {w}: SenderInv(v)' BY <1>4 DEF TypeOK, SenderSpurious, SenderInv
  <2>5. SenderInv(w)' BY <1>4 DEF TypeOK, SenderSpurious, SenderInv
  <2>6. CountInv'
    <3>1. \A v \in Workers: /\ SaidHello(v)' <=> SaidHello(v)
                            /\ Armed(v)' <=> Armed(v)
                            /\ Answered(v)' <=> Answered(v)
      BY <1>4 DEF SenderSpurious, SaidHello, Armed, Answered
    <3> QED BY <1>4, <3>1, ProgressFrame DEF SenderSpurious, CountInv, WarmupCountExact
  <2> QED BY <2>1, <2>2, <2>3, <2>4, <2>5, <2>6
<1>5. ASSUME NEW w \in Workers, WorkerSpurious(w) PROVE SessionInv'
  <2>1. TypeOK' BY <1>5 DEF TypeOK, WorkerSpurious
  <2>2. MasterCallInv' BY <1>5 DEF MasterCallInv, WorkerSpurious
  <2>3. \A v \in Workers: SenderInv(v)' BY <1>5 DEF WorkerSpurious, SenderInv
  <2>4. \A v \in Workers \ {w}: WorkerInv(v)'
    BY <1>5 DEF TypeOK, WorkerSpurious, WorkerInv, EarlyWorkers
  <2>5. WorkerInv(w)' BY <1>5 DEF TypeOK, WorkerSpurious, WorkerInv, EarlyWorkers
  <2>6. CountInv'
    <3>1. \A v \in Workers: /\ SaidHello(v)' <=> SaidHello(v)
                            /\ Armed(v)' <=> Armed(v)
                            /\ Answered(v)' <=> Answered(v)
      BY <1>5 DEF TypeOK, WorkerSpurious, SaidHello, Armed, Answered
    <3>2. UNCHANGED <<Up, ArmedWorkers, AnsweredWorkers>>
      BY <3>1 DEF Up, ArmedWorkers, AnsweredWorkers
    <3> QED BY <1>5, <3>1, <3>2 DEF WorkerSpurious, CountInv, WarmupCountExact
  <2> QED BY <2>1, <2>2, <2>3, <2>4, <2>5, <2>6
<1> QED BY <1>2, <1>3, <1>4, <1>5 DEF SpuriousReturn

-------------------------------------------------------------------------------
(* The invariant and the properties that follow from it. *)

LEMMA NextInv == SessionInv /\ [Next]_vars => SessionInv'
<1> SUFFICES ASSUME SessionInv, [Next]_vars PROVE SessionInv'
  OBVIOUS
<1>1. CASE UNCHANGED vars
  <2>1. UNCHANGED <<clientVars, masterVars, workerVars, toMaster, toWorker, toClient>>
    BY <1>1 DEF vars
  <2>2. UNCHANGED <<Up, ArmedWorkers, AnsweredWorkers>>
    BY <2>1, ProgressFrame DEF workerVars
  <2>3. \A w \in Workers: /\ SaidHello(w)' <=> SaidHello(w)
                          /\ Armed(w)' <=> Armed(w)
                          /\ Answered(w)' <=> Answered(w)
    BY <2>1 DEF workerVars, SaidHello, Armed, Answered
  <2>4. TypeOK' /\ MasterCallInv'
    BY <2>1 DEF SessionInv, TypeOK, MasterCallInv, clientVars, masterVars, workerVars
  <2>5. \A w \in Workers: SenderInv(w)' /\ WorkerInv(w)'
    BY <2>1 DEF SessionInv, SenderInv, WorkerInv, EarlyWorkers, clientVars, masterVars, workerVars
  <2>6. CountInv'
    BY <2>1, <2>2, <2>3 DEF SessionInv, CountInv, WarmupCountExact, clientVars
  <2> QED BY <2>4, <2>5, <2>6 DEF SessionInv
<1>2. CASE Next
  BY <1>2, ClientMainInv, ClientServerInv, MasterInv, SenderThreadInv, WorkerMainInv,
     WorkerServerInv, SpuriousReturnInv DEF Next
<1> QED BY <1>1, <1>2

\* The invariant that ties the threads of the client, the master and the workers
\* together holds for every finite set of workers.
THEOREM SessionInvariant == Spec => []SessionInv
BY InitInv, NextInv, PTL DEF Spec

\* Every variable of the session always has a value the program can give it.
THEOREM TypeCorrect == Spec => []TypeOK
<1>1. SessionInv => TypeOK BY DEF SessionInv
<1> QED BY <1>1, SessionInvariant, PTL

\* warmup_count is always the number of warm-ups of the round, although main clears
\* it without the lock.
THEOREM WarmupsCounted == Spec => []WarmupCountExact
<1>1. SessionInv => WarmupCountExact BY DEF SessionInv, CountInv
<1> QED BY <1>1, SessionInvariant, PTL

\* The client sends its query only when every worker is ready for it.
THEOREM QueryAfterWarmup == Spec => []QueryNeedsArmedWorkers
<1>1. SessionInv => QueryNeedsArmedWorkers
  BY DEF SessionInv, CountInv, QueryNeedsArmedWorkers, WorkerInv, Armed
<1> QED BY <1>1, SessionInvariant, PTL

\* A sender thread or a worker that was woken by its signal reads the complete query of
\* its own round; only a wait that returned by itself lets a worker answer another.
THEOREM QueriesWhole == Spec => []NoTornQuery
<1>1. SessionInv => NoTornQuery
  BY DEF SessionInv, NoTornQuery, SenderInv, WorkerInv, EarlyWorkers
<1> QED BY <1>1, SessionInvariant, PTL

\* A client whose wait was ended by the broadcast reports only when every worker has
\* answered, and each whose own waits were ended by theirs has answered the real query.
THEOREM ReportComplete == Spec => []ReportNeedsAllAnswers
<1>1. SessionInv => ReportNeedsAllAnswers
  BY DEF SessionInv, CountInv, ReportNeedsAllAnswers, TypeOK, WorkerInv, Answered
<1> QED BY <1>1, SessionInvariant, PTL

\* Main clears warmup_count only between two handlers, when it has counted all.
THEOREM ResetSafe == Spec => ResetLosesNothing
<1>1. SessionInv /\ [Next]_vars =>
        [(cpc = "reset" /\ cpc' = "warm") =>
            counting = {} /\ warmupCount = Cardinality(Workers)]_vars
  <2> SUFFICES ASSUME SessionInv, cpc = "reset"
               PROVE  counting = {} /\ warmupCount = Cardinality(Workers)
    OBVIOUS
  <2>1. Up = Workers BY DEF SessionInv, CountInv, Up
  <2>2. counting = {}
    BY DEF SessionInv, TypeOK, CountInv, SaidHello, WorkerInv, MasterCallInv, SenderInv
  <2> QED BY <2>1, <2>2 DEF SessionInv, CountInv, WarmupCountExact
<1> QED BY <1>1, SessionInvariant, PTL DEF Spec, ResetLosesNothing

\* The master's serialized_query changes only while no sender thread that waited for its
\* signal has yet to copy it.
THEOREM SendersReadFirst == Spec => NoOverwriteBeforeSend
<1>1. SessionInv /\ [Next]_vars =>
        [mQuery' # mQuery => \A w \in Workers: /\ spc[w] = "connect" => masterEarly
                                              /\ spc[w] = "woken" => w \in senderEarly]_vars
  <2> SUFFICES ASSUME SessionInv, Next, mQuery' # mQuery, NEW w \in Workers
               PROVE  /\ spc[w] = "connect" => masterEarly
                      /\ spc[w] = "woken" => w \in senderEarly
    BY DEF vars, masterVars
  <2>1. MasterFirstBegin \/ MasterFirstEnd \/ MasterStoreBegin \/ MasterStoreEnd
    BY DEF Next, ClientMain, ClientSetup, ClientAwaitWarmups, ClientReset, ClientCallWarmup,
           ClientWarmupReturns, ClientSchedule, ClientSendQuery, ClientAwaitResponses,
           ClientReport, ClientServer, CountWarmupBegin, CountWarmupEnd, ReceiveResponse,
           MasterMain, MasterAwaitWarmup, MasterStartSenders, MasterJoin, MasterServer,
           MasterBroadcast, Sender, SenderCall, SenderReturns, SenderAwaitQuery, SenderCrash,
           WorkerMain, WorkerCall, WorkerReturns, WorkerAwaitWarmup, WorkerAwaitQuery,
           WorkerAnswer, WorkerCrash, WorkerServer, WorkerFirstQuery, WorkerStoreBegin,
           WorkerStoreEnd, WorkerBroadcast, SpuriousReturn, ClientSpurious, MasterSpurious,
           SenderSpurious, WorkerSpurious, masterVars
  <2>2. CASE MasterFirstBegin
    BY <2>2 DEF SessionInv, MasterFirstBegin, MasterCallInv, SenderInv
  <2>5. CASE MasterFirstEnd
    BY <2>5 DEF SessionInv, MasterFirstEnd, MasterCallInv, SenderInv
  <2>3. CASE MasterStoreBegin
    <3>1. Armed(w) /\ mQuery = "dummy"
      BY <2>3 DEF SessionInv, TypeOK, MasterStoreBegin, MasterCallInv, CountInv
    <3>2. wWarm[w] BY <3>1 DEF SessionInv, WorkerInv, Armed
    <3> QED BY <3>1, <3>2 DEF SessionInv, SenderInv
  <2>4. CASE MasterStoreEnd
    BY <2>4 DEF SessionInv, MasterStoreEnd, MasterCallInv, SenderInv
  <2> QED BY <2>1, <2>2, <2>3, <2>4, <2>5
<1> QED BY <1>1, SessionInvariant, PTL DEF Spec, NoOverwriteBeforeSend

-------------------------------------------------------------------------------
(* The refinement of SessionRounds. *)

LEMMA RoundsInit == Init => Rounds!Init
BY DEF Init, ClientInit, MasterInit, WorkerInit, Rounds!Init, Round, Reported, Excused,
       EarlyWorkers, Up, SaidHello

\* The workers whose answer to the real query the client has counted.
RealAnswers == {w \in AnsweredWorkers: used[w] = "real"}

\* Until the query is sent no worker has answered it.
LEMMA NoAnswerBeforeQuery ==
  ASSUME SessionInv, cpc \notin {"await", "asleep", "woken", "done"}
  PROVE  \A w \in Workers: used[w] # "real"
<1> SUFFICES ASSUME NEW w \in Workers PROVE used[w] # "real"
  OBVIOUS
<1>1. mQuery # "real" BY DEF SessionInv, TypeOK, MasterCallInv
<1>2. wQuery[w] # "real" BY <1>1 DEF SessionInv, SenderInv
<1> QED BY <1>2 DEF SessionInv, WorkerInv

\* A step that leaves these alone leaves the abstract session alone.
LEMMA RoundsFrame ==
  ASSUME UNCHANGED <<cpc, clientEarly, senderEarly, workerEarly, wpc, used, toClient>>
  PROVE  UNCHANGED <<Round, Reported, Excused>>
BY ProgressFrame DEF Round, Reported, Excused, EarlyWorkers

LEMMA RoundsClientMain ==
  ASSUME SessionInv, ClientMain PROVE [Rounds!Next]_<<Round, Reported, Excused>>
<1> USE DEF Rounds!Next, Rounds!Advance, Rounds!Finish, Round, Reported
<1>0. UNCHANGED <<wpc, used, toClient, Excused>>
  <2>1. UNCHANGED <<masterVars, workerVars, toClient, clientEarly>>
    BY DEF ClientMain, ClientSetup, ClientAwaitWarmups, ClientReset, ClientCallWarmup,
      ClientWarmupReturns, ClientSchedule, ClientSendQuery, ClientAwaitResponses, ClientReport
  <2> QED BY <2>1 DEF masterVars, workerVars, Excused, EarlyWorkers
<1>1. UNCHANGED <<Up, ArmedWorkers, AnsweredWorkers, RealAnswers>>
  BY <1>0, ProgressFrame DEF RealAnswers
<1>2. CASE ClientReset
  <2>1. Up = Workers BY <1>2 DEF ClientReset, SessionInv, CountInv, Up
  <2>2. ArmedWorkers = {}
    BY <1>2 DEF ClientReset, SessionInv, MasterCallInv, SenderInv, WorkerInv, TypeOK,
                ArmedWorkers, Armed
  <2> QED BY <1>0, <1>1, <1>2, <2>1, <2>2 DEF ClientReset
<1>3. CASE ClientSchedule
  <2>1. ArmedWorkers = Workers BY <1>3 DEF ClientSchedule, SessionInv, CountInv, ArmedWorkers
  <2>2. RealAnswers = {}
    BY <1>3, NoAnswerBeforeQuery DEF ClientSchedule, RealAnswers, AnsweredWorkers
  <2> QED BY <1>0, <1>1, <1>3, <2>1, <2>2 DEF ClientSchedule, RealAnswers
<1>4. CASE ClientReport
  <2>1. Workers \ Excused \subseteq RealAnswers
    BY <1>4 DEF ClientReport, SessionInv, CountInv, TypeOK, WorkerInv, Answered,
                AnsweredWorkers, RealAnswers, Excused
  <2> QED BY <1>0, <1>1, <1>4, <2>1 DEF ClientReport, RealAnswers
<1>5. CASE ClientSetup \/ ClientAwaitWarmups("guard1", "asleep1", "reset")
  BY <1>0, <1>1, <1>5 DEF ClientSetup, ClientAwaitWarmups
<1>6. CASE \/ ClientCallWarmup \/ ClientWarmupReturns
           \/ ClientAwaitWarmups("guard2", "asleep2", "schedule")
  BY <1>0, <1>1, <1>6 DEF ClientCallWarmup, ClientWarmupReturns, ClientAwaitWarmups
<1>7. CASE ClientSendQuery \/ ClientAwaitResponses
  BY <1>0, <1>1, <1>7 DEF ClientSendQuery, ClientAwaitResponses, RealAnswers
<1> QED BY <1>2, <1>3, <1>4, <1>5, <1>6, <1>7 DEF ClientMain

LEMMA RoundsClientServer ==
  ASSUME SessionInv, ClientServer PROVE [Rounds!Next]_<<Round, Reported, Excused>>
<1> USE DEF Rounds!Next, Rounds!Report, Round, Reported
<1>0. cpc \notin {"done", "null"} BY DEF ClientServer
<1>4. UNCHANGED <<wpc, used, Excused>>
  BY DEF ClientServer, CountWarmupBegin, CountWarmupEnd, ReceiveResponse, masterVars, workerVars,
         Excused, EarlyWorkers
<1>1. ASSUME NEW w \in Workers, CountWarmupBegin(w) PROVE UNCHANGED <<Round, Reported>>
  BY <1>1, <1>4, ProgressFrame DEF CountWarmupBegin
<1>2. ASSUME NEW w \in Workers, CountWarmupEnd(w) PROVE Rounds!Report(w)
  <2>1. /\ cpc \in HelloPhase <=> cpc' \in HelloPhase
        /\ cpc \in WarmupPhase <=> cpc' \in WarmupPhase
    BY <1>2 DEF CountWarmupEnd, SignalWarmup, SessionInv, TypeOK
  <2> QED BY <1>0, <1>2, <1>4, <2>1, CountWarmupEndProgress DEF SessionInv, TypeOK
<1>3. ASSUME NEW w \in Workers, ReceiveResponse(w)
      PROVE  Rounds!Report(w) \/ UNCHANGED <<Round, Reported>>
  <2>1. wpc[w] = "answering" /\ toClient[w] = "response"
    BY <1>3 DEF ReceiveResponse, SessionInv, TypeOK, WorkerInv
  <2>2. toClient'[w] = "reply" /\ \A v \in Workers \ {w}: toClient'[v] = toClient[v]
    BY <1>3 DEF ReceiveResponse, SessionInv, TypeOK
  <2>3. AnsweredWorkers' = AnsweredWorkers \cup {w} /\ w \notin AnsweredWorkers
    BY <1>4, <2>1, <2>2 DEF AnsweredWorkers, Answered
  <2>4. UNCHANGED <<Up, ArmedWorkers>>
    BY <1>4, <2>1, <2>2 DEF Up, SaidHello, ArmedWorkers, Armed
  <2>5. cpc' = cpc \/ (cpc = "asleep" /\ cpc' = "woken")
    BY <1>3 DEF ReceiveResponse
  <2>6. CASE used[w] = "real"
    <3>1. cpc \in QueryPhase
      BY <1>0, <2>6, NoAnswerBeforeQuery DEF SessionInv, TypeOK
    <3>2. RealAnswers' = RealAnswers \cup {w} /\ w \notin RealAnswers
      BY <1>4, <2>3, <2>6 DEF RealAnswers
    <3> QED BY <1>4, <2>5, <3>1, <3>2 DEF RealAnswers
  <2>7. CASE used[w] # "real"
    <3>1. RealAnswers' = RealAnswers BY <1>4, <2>3, <2>7 DEF RealAnswers
    <3> QED BY <2>4, <2>5, <3>1 DEF RealAnswers
  <2> QED BY <2>6, <2>7
<1> QED BY <1>1, <1>2, <1>3, <1>4 DEF ClientServer

LEMMA RoundsSpurious ==
  ASSUME SessionInv, SpuriousReturn PROVE [Rounds!Next]_<<Round, Reported, Excused>>
<1> USE DEF SessionInv
<1>1. UNCHANGED <<used, toClient, mQuery>>
  BY DEF SpuriousReturn, ClientSpurious, MasterSpurious, SenderSpurious, WorkerSpurious,
         masterVars, workerVars
<1>2. UNCHANGED <<Up, ArmedWorkers, AnsweredWorkers, RealAnswers>>
  <2>1. CASE wpc' = wpc BY <1>1, <2>1, ProgressFrame DEF RealAnswers
  <2>2. CASE wpc' # wpc
    <3>1. PICK w \in Workers: WorkerSpurious(w)
      BY <2>2 DEF SpuriousReturn, ClientSpurious, MasterSpurious, SenderSpurious, workerVars
    <3>2. \A v \in Workers: /\ SaidHello(v)' <=> SaidHello(v)
                            /\ Armed(v)' <=> Armed(v)
                            /\ Answered(v)' <=> Answered(v)
      BY <3>1 DEF TypeOK, WorkerSpurious, SaidHello, Armed, Answered
    <3> QED BY <1>1, <3>2 DEF Up, ArmedWorkers, AnsweredWorkers, RealAnswers
  <2> QED BY <2>1, <2>2
<1>3. UNCHANGED <<Round, Reported>>
  <2>1. cpc' = cpc \/ ClientSpurious
    BY DEF SpuriousReturn, MasterSpurious, SenderSpurious, WorkerSpurious, clientVars
  <2>2. CASE cpc' = cpc BY <1>2, <2>2 DEF Round, Reported, RealAnswers
  <2>3. CASE ClientSpurious
    BY <1>2, <2>3 DEF ClientSpurious, SignalWarmup, Round, Reported, RealAnswers
  <2> QED BY <2>1, <2>2, <2>3
<1>4. Excused \subseteq Excused' /\ Excused' \subseteq Workers
  BY DEF TypeOK, SpuriousReturn, ClientSpurious, MasterSpurious, SenderSpurious, WorkerSpurious,
         clientVars, masterVars, workerVars, Excused, EarlyWorkers
<1>5. CASE Excused' # Excused
  <2>1. Excused' \ Excused \in SUBSET Workers /\ Excused' \ Excused # {}
        /\ Excused' = Excused \cup (Excused' \ Excused)
    BY <1>4, <1>5
  <2>2. cpc \notin HelloPhase
    <3>1. CASE ClientSpurious BY <1>5, <3>1 DEF ClientSpurious, masterVars, workerVars, Excused, EarlyWorkers
    <3>2. CASE MasterSpurious BY <1>5, <3>2 DEF MasterSpurious, clientVars, workerVars, Excused, EarlyWorkers
    <3>3. ASSUME NEW w \in Workers, SenderSpurious(w) PROVE mWarm
      BY <3>3 DEF SenderSpurious, SenderInv
    <3>4. ASSUME NEW w \in Workers, WorkerSpurious(w), wpc[w] = "asleep" PROVE mWarm
      BY <3>4 DEF WorkerInv, SenderInv
    <3>5. ASSUME NEW w \in Workers, WorkerSpurious(w), wpc[w] # "asleep" PROVE FALSE
      BY <1>5, <3>5 DEF WorkerSpurious, clientVars, masterVars, Excused, EarlyWorkers
    <3>6. mWarm => cpc \notin HelloPhase BY DEF MasterCallInv
    <3> QED BY <3>1, <3>2, <3>3, <3>4, <3>5, <3>6 DEF SpuriousReturn
  <2>3. Round # "hello" BY <2>2 DEF Round, TypeOK
  <2> QED BY <1>3, <2>1, <2>3 DEF Rounds!Next, Rounds!Excuse
<1> QED BY <1>3, <1>5

\* The session is three rounds of reports, each begun when the one before is complete; a
\* wait that returns by itself can only excuse workers from the last.
THEOREM SessionImplementsRounds == Spec => ImplementsRounds
<1>1. SessionInv /\ [Next]_vars => [Rounds!Next]_<<Round, Reported, Excused>>
  <2> SUFFICES ASSUME SessionInv, [Next]_vars PROVE [Rounds!Next]_<<Round, Reported, Excused>>
    OBVIOUS
  <2>1. CASE UNCHANGED vars
    <3>1. UNCHANGED <<cpc, clientEarly, senderEarly, workerEarly, wpc, used, toClient>>
      BY <2>1 DEF vars, clientVars, masterVars, workerVars
    <3> QED BY <3>1, RoundsFrame
  <2>2. CASE MasterMain \/ MasterServer
    <3>1. UNCHANGED <<cpc, clientEarly, senderEarly, workerEarly, wpc, used, toClient>>
      BY <2>2
      DEF MasterMain, MasterAwaitWarmup, MasterStartSenders, MasterJoin, MasterServer,
          MasterFirstBegin, MasterFirstEnd, MasterStoreBegin, MasterStoreEnd, MasterBroadcast,
          clientVars, workerVars
    <3> QED BY <3>1, RoundsFrame
  <2>3. CASE \E w \in Workers: Sender(w)
    <3>1. UNCHANGED <<cpc, clientEarly, senderEarly, workerEarly, wpc, used, toClient>>
      BY <2>3
      DEF Sender, SenderCall, SenderReturns, SenderAwaitQuery, SenderCrash, clientVars, workerVars
    <3> QED BY <3>1, RoundsFrame
  <2>4. ASSUME NEW w \in Workers, WorkerMain(w) \/ WorkerServer(w)
        PROVE  UNCHANGED <<Round, Reported, Excused>>
    <3>5. UNCHANGED <<cpc, clientEarly, senderEarly, workerEarly>>
      BY <2>4, WorkerFrame DEF clientVars, masterVars
    <3>1. cpc' = cpc /\ Excused' = Excused BY <3>5 DEF Excused, EarlyWorkers
    <3>2. UNCHANGED <<Up, ArmedWorkers, AnsweredWorkers>> BY <2>4, WorkerProgress
    <3>3. \A v \in AnsweredWorkers: used'[v] = used[v]
      BY <2>4 DEF AnsweredWorkers, Answered, SessionInv, TypeOK, WorkerMain, WorkerCall,
                  WorkerReturns, WorkerAwaitWarmup, WorkerAwaitQuery, WorkerAnswer, WorkerCrash,
                  WorkerServer, WorkerFirstQuery, WorkerStoreBegin, WorkerStoreEnd, WorkerBroadcast
    <3>4. RealAnswers' = RealAnswers BY <3>2, <3>3 DEF RealAnswers
    <3> QED BY <3>1, <3>2, <3>4 DEF Round, Reported, RealAnswers
  <2> QED
    BY <2>1, <2>2, <2>3, <2>4, RoundsClientMain, RoundsClientServer, RoundsSpurious DEF Next
<1> QED
  BY <1>1, RoundsInit, SessionInvariant, PTL DEF Spec, ImplementsRounds, Rounds!Spec, Rounds!vars
===============================================================================
