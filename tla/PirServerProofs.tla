---------------------------- MODULE PirServerProofs ----------------------------
(***************************************************************************)
(* The order that request_received and the two barriers put on the shared  *)
(* vectors of a PIR reply, and from it what is in the reply, for any       *)
(* number of threads, columns and digits.                                  *)
(*                                                                         *)
(* And what the client's query becomes: the factor 2^logm has an inverse,  *)
(* the expansion makes unit vectors of the monomials, and these select the *)
(* entry of the wanted element, for which the server takes the plaintext   *)
(* of column 0 if it is the first of a thread; and the codec gives the     *)
(* bytes back that it has spread over the coefficients of it.  For any     *)
(* degree, modulus, database, number of threads and bits per coefficient.  *)
(***************************************************************************)
EXTENDS PirServer, PirQuery, PartitionProofs, FiniteSetTheorems, SequenceTheorems

LEMMA Sizes == NumThreads \in Nat \ {0} /\ N1 \in Nat \ {0} /\ Ratio \in Nat \ {0}
  BY SizesAssumption

\* The plaintexts of column c are those whose index is c when divided by Ratio.
LEMMA Slot ==
  ASSUME NEW c \in Columns, NEW i \in Digits
  PROVE  /\ i + c * Ratio \in 0 .. Ratio * N1 - 1
         /\ (i + c * Ratio) \div Ratio = c
         /\ (i + c * Ratio) % Ratio = i
  <1> DEFINE s == i + c * Ratio
             q == s \div Ratio
             m == s % Ratio
  <1>0. c \in Nat /\ c + 1 <= N1 /\ i \in Nat /\ i < Ratio /\ Ratio \in Nat \ {0} /\ N1 \in Nat
    BY Sizes DEF Columns, Digits
  <1>1. c * Ratio \in Nat /\ (c + 1) * Ratio = c * Ratio + Ratio
    BY <1>0, Products
  <1>2. s \in Nat
    BY <1>0, <1>1
  <1>3. q \in Nat /\ m \in 0 .. Ratio - 1 /\ s = Ratio * q + m
    BY <1>0, <1>2, DivMod
  <1>4. q = c
    <2>1. CASE q < c
      <3>1. PICK d \in Nat: c = (q + 1) + d
        <4>1. c - (q + 1) \in Nat /\ c = (q + 1) + (c - (q + 1))
          BY <2>1, <1>0, <1>3
        <4> QED BY <4>1
      <3>2. c * Ratio = ((q + 1) * Ratio) + (d * Ratio) /\ d * Ratio \in Nat
        BY <3>1, <1>0, <1>3, Products
      <3>3. (q + 1) * Ratio = (q * Ratio) + Ratio /\ q * Ratio = Ratio * q /\ q * Ratio \in Nat
        BY <1>0, <1>3, Products
      <3> HIDE DEF s, q, m
      <3> QED BY <1>0, <1>3, <3>2, <3>3 DEF s
    <2>2. CASE q > c
      <3>1. PICK d \in Nat: q = (c + 1) + d
        <4>1. q - (c + 1) \in Nat /\ q = (c + 1) + (q - (c + 1))
          BY <2>2, <1>0, <1>3
        <4> QED BY <4>1
      <3>2. q * Ratio = ((c + 1) * Ratio) + (d * Ratio) /\ d * Ratio \in Nat /\ q * Ratio = Ratio * q
        BY <3>1, <1>0, <1>3, Products
      <3> HIDE DEF q, m
      <3> QED BY <1>0, <1>1, <1>3, <3>2
    <2> HIDE DEF q
    <2> QED BY <2>1, <2>2, <1>0, <1>3
  <1>5. m = i
    <2>1. Ratio * q = c * Ratio
      BY <1>4, <1>0, Products
    <2> HIDE DEF q, m
    <2> QED BY <1>3, <2>1, <1>0, <1>1
  <1>6. s < Ratio * N1
    <2>1. PICK d \in Nat: N1 = (c + 1) + d
      <3>1. N1 - (c + 1) \in Nat /\ N1 = (c + 1) + (N1 - (c + 1))
        BY <1>0
      <3> QED BY <3>1
    <2>2. N1 * Ratio = ((c + 1) * Ratio) + (d * Ratio) /\ d * Ratio \in Nat /\ N1 * Ratio = Ratio * N1
      BY <2>1, <1>0, Products
    <2> QED BY <2>2, <1>0, <1>1
  <1>7. Ratio * N1 \in Nat
    BY Sizes, Products
  <1> QED BY <1>2, <1>4, <1>5, <1>6, <1>7

\* Each column belongs to a thread.
LEMMA ColumnsCovered ==
  \A c \in Columns: \E t \in Threads: c \in StartId(t) .. EndId(t) - 1
  BY Sizes, PartsCover DEF Columns, Threads, StartId, EndId, Part

LEMMA ColumnRange ==
  \A t \in Threads: StartId(t) \in Nat /\ EndId(t) \in Nat /\ StartId(t) <= EndId(t)
  <1> TAKE t \in Threads
  <1>1. First(N1, NumThreads, t) \in Nat /\ Share(N1, NumThreads, t) \in Nat
    BY Sizes, PartsInOrder DEF Threads
  <1> QED BY <1>1 DEF StartId, EndId, End

-----------------------------------------------------------------------------
(* What main has done before the threads go to work. *)

Prepared == preprocessed /\ queryNtt /\ expandedQuery = Dimensions /\ expanding = {}

ReadyInv ==
  /\ requestReceived => mpc \in {"join", "done", "aborted"}
  /\ mpc \in {"notify", "join", "done", "aborted"} => Prepared
  /\ mpc \in {"construct", "load", "expand"} => expandedQuery = {} /\ expanding = {}
  /\ mpc \in {"expand", "joinExpand"} => preprocessed
  /\ mpc = "joinExpand" =>
       expandedQuery \cup expanding = Dimensions
  /\ mpc = "construct" => created \in 0 .. NumThreads - 1
  /\ DOMAIN pc = Threads
  /\ \A t \in Threads: Awake(t) => requestReceived

LEMMA ReadyInductive == Spec => []ReadyInv
  <1>1. Init => ReadyInv
    BY Sizes DEF Init, ReadyInv, Awake
  <1>2. ReadyInv /\ [Next]_vars => ReadyInv'
    <2> SUFFICES ASSUME ReadyInv, [Next]_vars PROVE ReadyInv'
      OBVIOUS
    <2> USE DEF ReadyInv, Prepared, Awake
    <2>1. CASE CreateThread
      BY <2>1, Sizes DEF CreateThread, Threads
    <2>2. CASE Load
      BY <2>2 DEF Load
    <2>3. CASE StartExpand
      BY <2>3 DEF StartExpand
    <2>4. CASE \E d \in Dimensions: Expand(d)
      BY <2>4 DEF Expand
    <2>5. CASE JoinExpand
      BY <2>5 DEF JoinExpand
    <2>6. CASE Notify
      BY <2>6 DEF Notify
    <2>7. CASE Join
      BY <2>7 DEF Join
    <2>8. ASSUME NEW t \in Threads, CheckRequest(t) PROVE ReadyInv'
      BY <2>8 DEF CheckRequest, mainVars
    <2>9. ASSUME NEW t \in Threads, AwaitRequest(t) \/ SpuriousWakeup(t) PROVE ReadyInv'
      BY <2>9 DEF AwaitRequest, SpuriousWakeup, mainVars
    <2>10. ASSUME NEW t \in Threads, SecondPhase(t) PROVE ReadyInv'
      BY <2>10 DEF SecondPhase
    <2>11. ASSUME NEW t \in Threads,
                  \/ FirstPhase(t) \/ FirstPhaseEnds(t) \/ PassFirstBarrier(t)
                  \/ SecondPhaseEnds(t) \/ PassSecondBarrier(t) \/ AddPartial(t) \/ DigitEnds(t)
           PROVE  ReadyInv'
      BY <2>11 DEF FirstPhase, FirstPhaseEnds, PassFirstBarrier, SecondPhaseEnds, ReachBarrier,
                   PassSecondBarrier, AddPartial, DigitEnds, mainVars
    <2>12. CASE UNCHANGED vars
      BY <2>12 DEF vars, mainVars
    <2> QED BY <2>1, <2>2, <2>3, <2>4, <2>5, <2>6, <2>7, <2>8, <2>9, <2>10, <2>11, <2>12
            DEF Next, Main, Pir
  <1> QED BY <1>1, <1>2, PTL DEF Spec

\* A pir thread leaves its unlocked loop only when the database and both dimensions of
\* the query are ready (pir, generate_reply).
THEOREM ReadyBeforeWork == Spec => []WorkOnlyWhenReady
  <1>1. ReadyInv => WorkOnlyWhenReady
    BY DEF ReadyInv, WorkOnlyWhenReady, Prepared
  <1> QED BY <1>1, ReadyInductive, PTL

-----------------------------------------------------------------------------
(* What the first barrier separates. *)

\* Column c of intermediate_plain holds what the first phase computes for it.
Written(c) ==
  \A s \in DOMAIN intermediatePlain: s \div Ratio = c => intermediatePlain[s] = <<c, s % Ratio>>

Past1(t) == pc[t] \in {"second", "barrier2", "sum", "done"}

FirstPhaseInv ==
  /\ DOMAIN pc = Threads
  /\ k \in [Threads -> Int]
  /\ arrived \in [{1, 2} -> SUBSET Threads]
  /\ DOMAIN intermediatePlain = 0 .. Ratio * N1 - 1
  /\ \A t \in Threads: pc[t] = "first" =>
       /\ k[t] \in StartId(t) .. EndId(t)
       /\ \A c \in StartId(t) .. k[t] - 1: Written(c)
  /\ \A t \in arrived[1]: \A c \in StartId(t) .. EndId(t) - 1: Written(c)
  /\ \A t \in Threads: Past1(t) => arrived[1] = Threads

LEMMA FirstPhaseInductive == Spec => []FirstPhaseInv
  <1>1. Init => FirstPhaseInv
    BY DEF Init, FirstPhaseInv, Past1
  <1>2. FirstPhaseInv /\ [Next]_vars => FirstPhaseInv'
    <2> SUFFICES ASSUME FirstPhaseInv, [Next]_vars PROVE FirstPhaseInv'
      OBVIOUS
    <2>0. \A t \in Threads: StartId(t) \in Nat /\ EndId(t) \in Nat /\ StartId(t) <= EndId(t)
      BY ColumnRange
    <2>00. /\ DOMAIN pc = Threads /\ k \in [Threads -> Int]
           /\ arrived \in [{1, 2} -> SUBSET Threads]
      BY DEF FirstPhaseInv
    <2>1. CASE Main \/ \E d \in Dimensions: Expand(d)
      <3>1. /\ UNCHANGED <<k, arrived, intermediatePlain>>
            /\ DOMAIN pc' = Threads
            /\ \A t \in Threads: pc'[t] = pc[t] \/ pc'[t] = "check"
        BY <2>1 DEF Main, Expand, CreateThread, Load, StartExpand, JoinExpand, Notify, Join,
                    dataVars, FirstPhaseInv
      <3> QED BY <3>1 DEF FirstPhaseInv, Past1, Written
    <2>2. ASSUME NEW t \in Threads, CheckRequest(t) PROVE FirstPhaseInv'
      <3>1. /\ UNCHANGED <<arrived, intermediatePlain>>
            /\ pc' = [pc EXCEPT ![t] = IF requestReceived THEN "first" ELSE "lock"]
            /\ k' = [k EXCEPT ![t] = StartId(t)]
        BY <2>2 DEF CheckRequest, dataVars
      <3>2. \A c: Written(c)' <=> Written(c)
        BY <3>1 DEF Written
      <3>3. DOMAIN pc' = Threads /\ k' \in [Threads -> Int] /\ k'[t] = StartId(t)
        BY <3>1, <2>0 DEF FirstPhaseInv
      <3>4. \A u \in Threads: Past1(u)' => Past1(u)
        BY <3>1 DEF Past1, FirstPhaseInv
      <3>5. ASSUME NEW u \in Threads, pc'[u] = "first"
            PROVE  k'[u] \in StartId(u) .. EndId(u) /\ \A c \in StartId(u) .. k'[u] - 1: Written(c)
        <4>1. CASE u = t BY <4>1, <3>3, <2>0
        <4>2. CASE u # t BY <4>2, <3>1, <3>5 DEF FirstPhaseInv
        <4> QED BY <4>1, <4>2
      <3> QED BY <3>1, <3>2, <3>3, <3>4, <3>5 DEF FirstPhaseInv
    <2>3. ASSUME NEW t \in Threads, AwaitRequest(t) \/ SpuriousWakeup(t) PROVE FirstPhaseInv'
      <3>1. /\ UNCHANGED <<k, arrived, intermediatePlain>>
            /\ DOMAIN pc' = Threads
            /\ \A u \in Threads: pc'[u] = pc[u] \/ pc'[u] \in {"asleep", "check"}
        BY <2>3 DEF AwaitRequest, SpuriousWakeup, dataVars, FirstPhaseInv
      <3> QED BY <3>1 DEF FirstPhaseInv, Past1, Written
    <2>4. ASSUME NEW t \in Threads, FirstPhase(t) PROVE FirstPhaseInv'
      <3>1. /\ UNCHANGED <<pc, arrived>>
            /\ pc[t] = "first" /\ k[t] < EndId(t) /\ k' = [k EXCEPT ![t] = @ + 1]
            /\ k[t] \in StartId(t) .. EndId(t)
        BY <2>4 DEF FirstPhase, FirstPhaseInv
      <3>2. DOMAIN intermediatePlain' = DOMAIN intermediatePlain
        BY <2>4 DEF FirstPhase
      <3>3. \A s \in DOMAIN intermediatePlain:
              intermediatePlain'[s] = IF s \div Ratio = k[t] THEN <<k[t], s % Ratio>>
                                      ELSE intermediatePlain[s]
        BY <2>4 DEF FirstPhase
      <3>4. \A c: Written(c) \/ c = k[t] => Written(c)'
        <4>1. ASSUME NEW c, Written(c) \/ c = k[t], NEW s \in DOMAIN intermediatePlain, s \div Ratio = c
              PROVE  intermediatePlain'[s] = <<c, s % Ratio>>
          <5>1. CASE c = k[t]
            BY ONLY <5>1, <4>1, <3>3
          <5>2. CASE c # k[t]
            <6>1. intermediatePlain'[s] = intermediatePlain[s]
              BY ONLY <5>2, <4>1, <3>3
            <6>2. intermediatePlain[s] = <<c, s % Ratio>>
              BY ONLY <5>2, <4>1 DEF Written
            <6> QED BY ONLY <6>1, <6>2
          <5> QED BY ONLY <5>1, <5>2
        <4> QED BY <4>1, <3>2 DEF Written
      <3>5. k' \in [Threads -> Int] /\ k'[t] = k[t] + 1
        BY <3>1 DEF FirstPhaseInv
      <3>6. ASSUME NEW u \in Threads, pc'[u] = "first"
            PROVE  k'[u] \in StartId(u) .. EndId(u) /\ \A c \in StartId(u) .. k'[u] - 1: Written(c)'
        <4>1. CASE u = t
          <5>1. \A c \in StartId(t) .. k[t]: c = k[t] \/ c \in StartId(t) .. k[t] - 1
            BY <3>1, <2>0
          <5>2. \A c \in StartId(t) .. k[t] - 1: Written(c)
            BY <3>1 DEF FirstPhaseInv
          <5>3. k[t] + 1 - 1 = k[t] /\ k[t] + 1 \in StartId(t) .. EndId(t)
            BY <3>1, <2>0
          <5>4. \A c \in StartId(t) .. k[t]: Written(c)'
            BY <5>1, <5>2, <3>4
          <5>5. k'[t] - 1 = k[t] /\ k'[t] \in StartId(t) .. EndId(t)
            BY <5>3, <3>5, <2>00
          <5>6. \A c \in StartId(t) .. k'[t] - 1: Written(c)'
            BY <5>4, <5>5, Zenon
          <5> QED BY <4>1, <5>5, <5>6, Zenon
        <4>2. CASE u # t BY <4>2, <3>1, <3>4, <3>6 DEF FirstPhaseInv
        <4> QED BY <4>1, <4>2
      <3> QED BY <3>1, <3>2, <3>4, <3>5, <3>6 DEF FirstPhaseInv, Past1
    <2>5. ASSUME NEW t \in Threads, FirstPhaseEnds(t) PROVE FirstPhaseInv'
      <3>1. /\ pc[t] = "first" /\ k[t] >= EndId(t) /\ UNCHANGED <<k, intermediatePlain>>
            /\ arrived' = [arrived EXCEPT ![1] = @ \cup {t}]
            /\ pc' = [pc EXCEPT ![t] = "barrier1"]
        BY <2>5 DEF FirstPhaseEnds, ReachBarrier, dataVars
      <3>2. \A c: Written(c)' <=> Written(c)
        BY <3>1 DEF Written
      <3>3. arrived'[1] = arrived[1] \cup {t} /\ arrived' \in [{1, 2} -> SUBSET Threads]
        BY <3>1 DEF FirstPhaseInv
      <3>4. \A c \in StartId(t) .. EndId(t) - 1: Written(c)
        <4>1. k[t] = EndId(t)
          BY <3>1, <2>0 DEF FirstPhaseInv
        <4> QED BY <4>1, <3>1 DEF FirstPhaseInv
      <3>5. \A u \in arrived'[1]: \A c \in StartId(u) .. EndId(u) - 1: Written(c)'
        BY <3>2, <3>3, <3>4 DEF FirstPhaseInv
      <3>6. \A u \in Threads: Past1(u)' => arrived'[1] = Threads
        BY <3>1, <3>3 DEF FirstPhaseInv, Past1
      <3>7. \A u \in Threads: pc'[u] = "first" => pc[u] = "first"
        BY <3>1 DEF FirstPhaseInv
      <3> QED BY <3>1, <3>2, <3>3, <3>5, <3>6, <3>7 DEF FirstPhaseInv
    <2>6. ASSUME NEW t \in Threads, PassFirstBarrier(t) PROVE FirstPhaseInv'
      <3>1. /\ pc[t] = "barrier1" /\ arrived[1] = Threads /\ UNCHANGED <<arrived, intermediatePlain>>
            /\ pc' = [pc EXCEPT ![t] = "second"] /\ k' = [k EXCEPT ![t] = 0]
        BY <2>6 DEF PassFirstBarrier, BarrierOpen, dataVars
      <3> QED BY <3>1 DEF FirstPhaseInv, Past1, Written
    <2>7. ASSUME NEW t \in Threads, SecondPhase(t) \/ SecondPhaseEnds(t) PROVE FirstPhaseInv'
      <3>1. pc[t] = "second" /\ arrived[1] = Threads
        BY <2>7 DEF SecondPhase, SecondPhaseEnds, FirstPhaseInv, Past1
      <3>2. /\ UNCHANGED intermediatePlain
            /\ arrived'[1] = Threads /\ arrived' \in [{1, 2} -> SUBSET Threads]
            /\ k' \in [Threads -> Int] /\ DOMAIN pc' = Threads
            /\ \A u \in Threads: pc'[u] = pc[u] \/ (u = t /\ pc'[u] = "barrier2")
            /\ \A u \in Threads: u # t => k'[u] = k[u]
        <4>1. CASE SecondPhase(t)
          <5>1. /\ UNCHANGED <<pc, arrived, intermediatePlain>>
                /\ k' = k \/ k' = [k EXCEPT ![t] = @ + 1]
            BY <4>1 DEF SecondPhase
          <5> QED BY <5>1, <3>1, <2>00
        <4>2. CASE SecondPhaseEnds(t)
          <5>1. /\ UNCHANGED <<k, intermediatePlain>>
                /\ arrived' = [arrived EXCEPT ![2] = @ \cup {t}]
                /\ pc' = [pc EXCEPT ![t] = "barrier2"]
            BY <4>2 DEF SecondPhaseEnds, ReachBarrier, dataVars
          <5> QED BY <5>1, <3>1, <2>00
        <4> QED BY <2>7, <4>1, <4>2
      <3>3. \A c: Written(c)' <=> Written(c)
        BY <3>2 DEF Written
      <3>4. \A u \in Threads: pc'[u] = "first" => pc[u] = "first" /\ u # t
        BY <3>1, <3>2
      <3> QED BY <3>1, <3>2, <3>3, <3>4 DEF FirstPhaseInv
    <2>8. ASSUME NEW t \in Threads, PassSecondBarrier(t) \/ AddPartial(t) \/ DigitEnds(t)
          PROVE  FirstPhaseInv'
      <3>1. pc[t] \in {"barrier2", "sum"} /\ UNCHANGED <<arrived, intermediatePlain>>
        BY <2>8 DEF PassSecondBarrier, AddPartial, DigitEnds, dataVars
      <3>2. /\ DOMAIN pc' = Threads
            /\ \A u \in Threads: pc'[u] = pc[u] \/ (u = t /\ pc'[u] \in {"sum", "done"})
            /\ \A u \in Threads: u # t => k'[u] = k[u]
        <4>1. CASE PassSecondBarrier(t)
          <5>1. \/ pc' = [pc EXCEPT ![t] = "done"] /\ k' = k
                \/ pc' = [pc EXCEPT ![t] = "sum"] /\ k' = [k EXCEPT ![t] = SumStart(t)]
            BY <4>1 DEF PassSecondBarrier
          <5> QED BY <5>1, <2>00
        <4>2. CASE AddPartial(t)
          BY <4>2, <2>00 DEF AddPartial
        <4>3. CASE DigitEnds(t)
          <5>1. \/ pc' = [pc EXCEPT ![t] = "done"] /\ k' = k
                \/ pc' = pc /\ k' = [k EXCEPT ![t] = @ + 1]
            BY <4>3 DEF DigitEnds
          <5> QED BY <5>1, <2>00
        <4> QED BY <2>8, <4>1, <4>2, <4>3
      <3>3. k' \in [Threads -> Int]
        <4>1. SumStart(t) \in Int
          BY Sizes, PartsInOrder DEF SumStart, Threads
        <4> QED BY <2>8, <4>1 DEF PassSecondBarrier, AddPartial, DigitEnds, FirstPhaseInv
      <3>4. arrived[1] = Threads
        BY <3>1 DEF FirstPhaseInv, Past1
      <3>5. \A c: Written(c)' <=> Written(c)
        BY <3>1 DEF Written
      <3>6. \A u \in Threads: pc'[u] = "first" => pc[u] = "first" /\ u # t
        BY <3>1, <3>2
      <3> QED BY <3>1, <3>2, <3>3, <3>4, <3>5, <3>6 DEF FirstPhaseInv
    <2>9. CASE UNCHANGED vars
      BY <2>9 DEF vars, dataVars, FirstPhaseInv, Past1, Written
    <2> QED BY <2>1, <2>2, <2>3, <2>4, <2>5, <2>6, <2>7, <2>8, <2>9 DEF Next, Pir
  <1> QED BY <1>1, <1>2, PTL DEF Spec

\* No thread reads a plaintext of intermediate_plain before the thread that owns its
\* column has written it (pir, the barrier between the first and the second phase).
THEOREM FirstBarrierSuffices == Spec => []SecondPhaseReadsAll
  <1>1. FirstPhaseInv => SecondPhaseReadsAll
    <2> SUFFICES ASSUME FirstPhaseInv, NEW t \in Threads, Past1(t),
                        NEW c \in Columns, NEW i \in Digits
                 PROVE  intermediatePlain[i + c * Ratio] = <<c, i>>
      BY DEF SecondPhaseReadsAll, Past1
    <2>1. PICK u \in Threads: c \in StartId(u) .. EndId(u) - 1
      BY ColumnsCovered
    <2>2. Written(c)
      BY <2>1 DEF FirstPhaseInv
    <2> DEFINE s == i + c * Ratio
    <2>3. s \in DOMAIN intermediatePlain /\ s \div Ratio = c /\ s % Ratio = i
      BY Slot DEF FirstPhaseInv
    <2> HIDE DEF s
    <2>4. intermediatePlain[s] = <<c, i>>
      BY <2>2, <2>3 DEF Written
    <2> QED BY <2>4 DEF s
  <1> QED BY <1>1, FirstPhaseInductive, PTL

-----------------------------------------------------------------------------
(* What the second barrier separates. *)

\* The columns whose products are in digit i of thread u.
Summed(u, i) == {p[1] : p \in DOMAIN partialResults[u][i]}

Owned(u) == Part(N1, NumThreads, u) \cup {StartId(u)}

Past2(t) == pc[t] \in {"sum", "done"}

SumInv ==
  /\ DOMAIN pc = Threads
  /\ k \in [Threads -> Int]
  /\ arrived \in [{1, 2} -> SUBSET Threads]
  /\ DOMAIN partialResults = Threads
  /\ \A t \in Threads: DOMAIN partialResults[t] = Digits
  /\ \A t \in Threads: pc[t] = "second" =>
       k[t] \in 0 .. Ratio /\ \A i \in 0 .. k[t] - 1: Summed(t, i) = Owned(t)
  /\ \A t \in Threads: Past2(t) => arrived[2] = Threads
  /\ \A t \in arrived[2]: /\ pc[t] \in {"barrier2", "sum", "done"}
                          /\ t # 0 => \A i \in Digits: Summed(t, i) = Owned(t)
  /\ \A t \in Threads: pc[t] = "sum" => t < Ratio /\ k[t] \in SumStart(t) .. SumEnd(t) - 1

\* A thread with digits to sum has at least one, and none beyond the last digit.
LEMMA SumRange ==
  ASSUME NEW t \in Threads, t < Ratio
  PROVE  /\ SumStart(t) \in Int /\ SumEnd(t) \in Int /\ SumStart(t) < SumEnd(t)
         /\ SumStart(t) .. SumEnd(t) - 1 \subseteq Digits
  <1>0. t \in Nat /\ t \in 0 .. NumThreads - 1 /\ NumThreads \in Nat \ {0} /\ Ratio \in Nat \ {0}
    BY Sizes DEF Threads
  <1>1. CASE NumThreads >= Ratio
    BY <1>0, <1>1 DEF SumStart, SumEnd, Digits
  <1>2. CASE ~(NumThreads >= Ratio)
    <2> DEFINE q == Ratio \div NumThreads
               r == Ratio % NumThreads
    <2>1. q \in Nat /\ r \in 0 .. NumThreads - 1 /\ Ratio = NumThreads * q + r
      BY <1>0, DivMod
    <2>2. q # 0
      <3> SUFFICES ASSUME q = 0 PROVE FALSE
        OBVIOUS
      <3>1. NumThreads * q = 0
        <4> HIDE DEF q
        <4> QED BY <1>0
      <3> HIDE DEF q, r
      <3> QED BY <3>1, <2>1, <1>0, <1>2
    <2>3. Share(Ratio, NumThreads, t) \in Nat \ {0}
      <3>1. Share(Ratio, NumThreads, t) = q + IF r > t THEN 1 ELSE 0
        BY DEF Share
      <3> HIDE DEF q, r
      <3> QED BY <3>1, <2>1, <2>2
    <2>4. First(Ratio, NumThreads, t) \in Nat
      BY <1>0, PartsInOrder
    <2>5. Part(Ratio, NumThreads, t) \subseteq 0 .. Ratio - 1
      BY <1>0, PartsWithin
    <2>6. SumStart(t) = First(Ratio, NumThreads, t) /\ SumEnd(t) = End(Ratio, NumThreads, t)
      BY <1>2 DEF SumStart, SumEnd
    <2>7. SumStart(t) .. SumEnd(t) - 1 = Part(Ratio, NumThreads, t)
      BY <2>6 DEF Part
    <2>8. End(Ratio, NumThreads, t) = First(Ratio, NumThreads, t) + Share(Ratio, NumThreads, t)
      BY DEF End
    <2> HIDE DEF q, r
    <2> QED BY <2>3, <2>4, <2>5, <2>6, <2>7, <2>8 DEF Digits
  <1> QED BY <1>1, <1>2

\* No digit has two summers.
LEMMA SumRangesDisjoint ==
  ASSUME NEW t \in Threads, NEW u \in Threads, t # u
  PROVE  (SumStart(t) .. SumEnd(t) - 1) \cap (SumStart(u) .. SumEnd(u) - 1) = {}
  <1>1. CASE NumThreads >= Ratio
    BY <1>1, Sizes DEF SumStart, SumEnd, Threads
  <1>2. CASE ~(NumThreads >= Ratio)
    <2>1. Part(Ratio, NumThreads, t) \cap Part(Ratio, NumThreads, u) = {}
      BY Sizes, PartsDisjoint DEF Threads
    <2> QED BY <1>2, <2>1 DEF SumStart, SumEnd, Part
  <1> QED BY <1>1, <1>2

\* One digit of the second phase adds up the columns of the thread.
LEMMA SecondSumOwned ==
  ASSUME NEW t \in Threads, NEW i
  PROVE  {p[1] : p \in DOMAIN SecondSum(t, i)} = Owned(t)
  <1> DEFINE S == {<<StartId(t), intermediatePlain[i]>>}
                    \cup {<<c, intermediatePlain[i + c * Ratio]>> : c \in StartId(t) + 1 .. EndId(t) - 1}
  <1>1. DOMAIN SecondSum(t, i) = S
    BY DEF SecondSum, SetToBag
  <1>2. {p[1] : p \in S} = {StartId(t)} \cup (StartId(t) + 1 .. EndId(t) - 1)
    <2>1. ASSUME NEW p \in S
          PROVE  p[1] \in {StartId(t)} \cup (StartId(t) + 1 .. EndId(t) - 1)
      <3>1. CASE p = <<StartId(t), intermediatePlain[i]>>
        BY <3>1
      <3>2. CASE p \in {<<c, intermediatePlain[i + c * Ratio]>> : c \in StartId(t) + 1 .. EndId(t) - 1}
        <4>1. PICK c \in StartId(t) + 1 .. EndId(t) - 1: p = <<c, intermediatePlain[i + c * Ratio]>>
          BY <3>2
        <4> QED BY <4>1
      <3> QED BY <2>1, <3>1, <3>2
    <2>2. ASSUME NEW c \in StartId(t) + 1 .. EndId(t) - 1 PROVE \E p \in S: p[1] = c
      <3>1. <<c, intermediatePlain[i + c * Ratio]>> \in S
        OBVIOUS
      <3> QED BY <3>1
    <2>3. \E p \in S: p[1] = StartId(t)
      <3>1. <<StartId(t), intermediatePlain[i]>> \in S
        OBVIOUS
      <3> QED BY <3>1
    <2> HIDE DEF S
    <2> QED BY <2>1, <2>2, <2>3
  <1>3. Owned(t) = {StartId(t)} \cup (StartId(t) .. EndId(t) - 1)
    BY DEF Owned, Part, StartId, EndId
  <1>4. {StartId(t)} \cup (StartId(t) + 1 .. EndId(t) - 1)
          = {StartId(t)} \cup (StartId(t) .. EndId(t) - 1)
    BY ColumnRange
  <1> QED BY <1>1, <1>2, <1>3, <1>4

LEMMA SumInductive == Spec => []SumInv
  <1>1. Init => SumInv
    BY DEF Init, SumInv, Past2
  <1>2. ReadyInv /\ SumInv /\ [Next]_vars => SumInv'
    <2> SUFFICES ASSUME ReadyInv, SumInv, [Next]_vars PROVE SumInv'
      OBVIOUS
    <2>0. /\ DOMAIN pc = Threads /\ k \in [Threads -> Int]
          /\ arrived \in [{1, 2} -> SUBSET Threads]
          /\ DOMAIN partialResults = Threads
          /\ \A t \in Threads: DOMAIN partialResults[t] = Digits
      BY DEF SumInv
    <2>1. CASE Main \/ \E d \in Dimensions: Expand(d)
      <3>1. UNCHANGED <<k, arrived, partialResults>>
        BY <2>1 DEF Main, Expand, CreateThread, Load, StartExpand, JoinExpand, Notify, Join, dataVars
      <3>2. DOMAIN pc' = Threads
        BY <2>1, <2>0 DEF Main, Expand, CreateThread, Load, StartExpand, JoinExpand, Notify, Join
      <3>3. \A t \in Threads: pc'[t] = pc[t] \/ pc'[t] = "check"
        BY <2>1, <2>0 DEF Main, Expand, CreateThread, Load, StartExpand, JoinExpand, Notify, Join
      <3>4. \A t \in arrived[2]: pc'[t] = pc[t]
        <4>1. ASSUME CreateThread PROVE arrived[2] = {}
          BY <4>1, <2>0 DEF CreateThread, ReadyInv, SumInv, Awake
        <4>2. CASE Notify
          BY <4>2, <2>0 DEF Notify, SumInv
        <4> QED BY <2>1, <4>1, <4>2 DEF Main, Expand, Load, StartExpand, JoinExpand, Join
      <3> QED BY <3>1, <3>2, <3>3, <3>4 DEF SumInv, Past2, Summed
    <2>2. ASSUME NEW t \in Threads,
                 \/ CheckRequest(t) \/ AwaitRequest(t) \/ SpuriousWakeup(t)
                 \/ FirstPhase(t) \/ FirstPhaseEnds(t) \/ PassFirstBarrier(t)
          PROVE  SumInv'
      <3>1. /\ pc[t] \in {"check", "lock", "asleep", "first", "barrier1"}
            /\ arrived'[2] = arrived[2] /\ arrived' \in [{1, 2} -> SUBSET Threads]
            /\ UNCHANGED partialResults
        BY <2>2, <2>0 DEF CheckRequest, AwaitRequest, SpuriousWakeup, FirstPhase, FirstPhaseEnds,
                          ReachBarrier, PassFirstBarrier, dataVars
      <3>2. /\ DOMAIN pc' = Threads
            /\ \A u \in Threads: u # t => pc'[u] = pc[u]
            /\ ~Past2(t)' /\ pc'[t] # "sum"
        BY <2>2, <2>0 DEF CheckRequest, AwaitRequest, SpuriousWakeup, FirstPhase, FirstPhaseEnds,
                          ReachBarrier, PassFirstBarrier, Past2
      <3>3. pc'[t] = "second" => k'[t] = 0
        BY <2>2, <2>0 DEF CheckRequest, AwaitRequest, SpuriousWakeup, FirstPhase, FirstPhaseEnds,
                          ReachBarrier, PassFirstBarrier
      <3>4. k' \in [Threads -> Int] /\ \A u \in Threads: u # t => k'[u] = k[u]
        BY <2>2, <2>0, ColumnRange DEF CheckRequest, AwaitRequest, SpuriousWakeup, FirstPhase,
                                       FirstPhaseEnds, ReachBarrier, PassFirstBarrier
      <3>5. t \notin arrived[2]
        BY <3>1 DEF SumInv
      <3>6. \A u, i: Summed(u, i)' = Summed(u, i)
        BY <3>1 DEF Summed
      <3>7. ASSUME NEW u \in Threads, pc'[u] = "second"
            PROVE  k'[u] \in 0 .. Ratio /\ \A i \in 0 .. k'[u] - 1: Summed(u, i) = Owned(u)
        <4>1. CASE u = t BY <4>1, <3>3, <3>7, Sizes
        <4>2. CASE u # t BY <4>2, <3>2, <3>4, <3>7 DEF SumInv
        <4> QED BY <4>1, <4>2
      <3>8. ASSUME NEW u \in Threads, pc'[u] = "sum"
            PROVE  u < Ratio /\ k'[u] \in SumStart(u) .. SumEnd(u) - 1
        BY <3>2, <3>4, <3>8 DEF SumInv
      <3>9. \A u \in Threads: Past2(u)' => arrived'[2] = Threads
        BY <3>1, <3>2 DEF SumInv, Past2
      <3>10. \A u \in arrived'[2]: pc'[u] = pc[u]
        BY <3>1, <3>2, <3>5, <2>0
      <3>11. /\ DOMAIN partialResults' = Threads
             /\ \A u \in Threads: DOMAIN partialResults'[u] = Digits
        BY <3>1, <2>0
      <3>12. \A u \in arrived'[2]: /\ pc'[u] \in {"barrier2", "sum", "done"}
                                   /\ u # 0 => \A i \in Digits: Summed(u, i)' = Owned(u)
        BY <3>1, <3>6, <3>10 DEF SumInv
      <3> QED BY <3>1, <3>2, <3>4, <3>6, <3>7, <3>8, <3>9, <3>11, <3>12 DEF SumInv
    <2>3. ASSUME NEW t \in Threads, SecondPhase(t) PROVE SumInv'
      <3>1. pc[t] = "second" /\ k[t] \in 0 .. Ratio - 1 /\ UNCHANGED <<pc, arrived>>
        BY <2>3, Sizes DEF SecondPhase, SumInv
      <3>2. t \notin arrived[2]
        BY <3>1 DEF SumInv
      <3>3. CASE UNCHANGED <<k, partialResults>>
        BY <3>1, <3>3 DEF SumInv, Past2, Summed
      <3>4. CASE /\ partialResults' = [partialResults EXCEPT ![t][k[t]] = SecondSum(t, k[t])]
                 /\ k' = [k EXCEPT ![t] = @ + 1]
        <4>1. /\ DOMAIN partialResults' = Threads
              /\ \A u \in Threads: DOMAIN partialResults'[u] = Digits
          BY <3>4, <2>0
        <4>2. k' \in [Threads -> Int] /\ k'[t] = k[t] + 1 /\ \A u \in Threads: u # t => k'[u] = k[u]
          BY <3>4, <2>0
        <4>3. \A u \in Threads: u # t => partialResults'[u] = partialResults[u]
          BY <3>4, <2>0
        <4>4. \A i \in Digits: partialResults'[t][i] =
                IF i = k[t] THEN SecondSum(t, i) ELSE partialResults[t][i]
          BY <3>4, <2>0
        <4>5. \A u \in Threads: u # t => \A i: Summed(u, i)' = Summed(u, i)
          BY <4>3 DEF Summed
        <4>6. ASSUME NEW i \in 0 .. k[t] PROVE Summed(t, i)' = Owned(t)
          <5>1. i \in Digits /\ (i = k[t] \/ i \in 0 .. k[t] - 1)
            BY <3>1, Sizes DEF Digits
          <5>2. CASE i = k[t]
            <6>1. partialResults'[t][i] = SecondSum(t, i)
              BY <4>4, <5>1, <5>2
            <6> QED BY <6>1, SecondSumOwned DEF Summed
          <5>3. CASE i # k[t]
            <6>1. partialResults'[t][i] = partialResults[t][i]
              BY <4>4, <5>1, <5>3
            <6>2. Summed(t, i) = Owned(t)
              BY <3>1, <5>1, <5>3 DEF SumInv
            <6> QED BY <6>1, <6>2 DEF Summed
          <5> QED BY <5>2, <5>3
        <4>7. k'[t] \in 0 .. Ratio /\ k'[t] - 1 = k[t]
          BY <3>1, <4>2, Sizes
        <4>8. \A i \in 0 .. k'[t] - 1: Summed(t, i)' = Owned(t)
          BY <4>6, <4>7
        <4>9. ASSUME NEW u \in Threads, pc'[u] = "second"
              PROVE  k'[u] \in 0 .. Ratio /\ \A i \in 0 .. k'[u] - 1: Summed(u, i)' = Owned(u)
          <5>1. CASE u = t BY <5>1, <4>7, <4>8
          <5>2. CASE u # t BY <5>2, <3>1, <4>2, <4>5, <4>9 DEF SumInv
          <5> QED BY <5>1, <5>2
        <4>10. \A u \in arrived'[2]: /\ pc'[u] \in {"barrier2", "sum", "done"}
                                     /\ u # 0 => \A i \in Digits: Summed(u, i)' = Owned(u)
          BY <3>1, <3>2, <4>5, <2>0 DEF SumInv
        <4>11. ASSUME NEW u \in Threads, pc'[u] = "sum"
               PROVE  u < Ratio /\ k'[u] \in SumStart(u) .. SumEnd(u) - 1
          BY <3>1, <4>2, <4>11 DEF SumInv
        <4> QED BY <3>1, <4>1, <4>2, <4>9, <4>10, <4>11 DEF SumInv, Past2
      <3> QED BY <2>3, <3>3, <3>4 DEF SecondPhase
    <2>4. ASSUME NEW t \in Threads, SecondPhaseEnds(t) PROVE SumInv'
      <3>1. /\ pc[t] = "second" /\ k[t] = Ratio /\ UNCHANGED <<k, partialResults>>
            /\ arrived' = [arrived EXCEPT ![2] = @ \cup {t}]
            /\ pc' = [pc EXCEPT ![t] = "barrier2"]
        BY <2>4 DEF SecondPhaseEnds, ReachBarrier, dataVars
      <3>2. \A u, i: Summed(u, i)' = Summed(u, i)
        BY <3>1 DEF Summed
      <3>3. arrived'[2] = arrived[2] \cup {t} /\ arrived' \in [{1, 2} -> SUBSET Threads]
        BY <3>1, <2>0
      <3>4. \A i \in Digits: Summed(t, i) = Owned(t)
        BY <3>1 DEF SumInv, Digits
      <3>5. DOMAIN pc' = Threads /\ pc'[t] = "barrier2" /\ \A u \in Threads: u # t => pc'[u] = pc[u]
        BY <3>1, <2>0
      <3>6. \A u \in arrived'[2]: /\ pc'[u] \in {"barrier2", "sum", "done"}
                                  /\ u # 0 => \A i \in Digits: Summed(u, i)' = Owned(u)
        BY <3>2, <3>3, <3>4, <3>5, <2>0 DEF SumInv
      <3>7. \A u \in Threads: Past2(u)' => arrived'[2] = Threads
        BY <3>3, <3>5 DEF SumInv, Past2
      <3> QED BY <3>1, <3>2, <3>3, <3>5, <3>6, <3>7 DEF SumInv
    <2>5. ASSUME NEW t \in Threads, PassSecondBarrier(t) PROVE SumInv'
      <3>1. pc[t] = "barrier2" /\ arrived[2] = Threads /\ UNCHANGED <<arrived, partialResults>>
        BY <2>5 DEF PassSecondBarrier, BarrierOpen, dataVars
      <3>2. \/ pc' = [pc EXCEPT ![t] = "done"] /\ k' = k
            \/ t < Ratio /\ pc' = [pc EXCEPT ![t] = "sum"] /\ k' = [k EXCEPT ![t] = SumStart(t)]
        BY <2>5, Sizes DEF PassSecondBarrier, Threads
      <3>3. /\ DOMAIN pc' = Threads /\ pc'[t] \in {"sum", "done"}
            /\ \A u \in Threads: u # t => pc'[u] = pc[u] /\ k'[u] = k[u]
        BY <3>2, <2>0
      <3>4. k' \in [Threads -> Int] /\ (pc'[t] = "sum" => t < Ratio /\ k'[t] = SumStart(t))
        BY <3>2, <2>0, SumRange
      <3>5. pc'[t] = "sum" => k'[t] \in SumStart(t) .. SumEnd(t) - 1
        BY <3>4, SumRange
      <3>6. \A u, i: Summed(u, i)' = Summed(u, i)
        BY <3>1 DEF Summed
      <3>7. \A u \in Threads: Past2(u)' => arrived'[2] = Threads
        BY <3>1
      <3>8. \A u \in arrived'[2]: /\ pc'[u] \in {"barrier2", "sum", "done"}
                                  /\ u # 0 => \A i \in Digits: Summed(u, i)' = Owned(u)
        BY <3>1, <3>3, <3>6 DEF SumInv
      <3>9. \A u \in Threads: pc'[u] = "second" => u # t /\ pc[u] = "second"
        BY <3>3
      <3>10. \A u \in Threads: pc'[u] = "sum" => u < Ratio /\ k'[u] \in SumStart(u) .. SumEnd(u) - 1
        BY <3>3, <3>4, <3>5 DEF SumInv
      <3> QED BY <3>1, <3>3, <3>4, <3>6, <3>7, <3>8, <3>9, <3>10 DEF SumInv
    <2>6. ASSUME NEW t \in Threads, AddPartial(t) PROVE SumInv'
      <3>1. /\ pc[t] = "sum" /\ UNCHANGED <<pc, k, arrived>>
            /\ \E B: partialResults' = [partialResults EXCEPT ![0][k[t]] = B]
        BY <2>6 DEF AddPartial
      <3>2. /\ DOMAIN partialResults' = Threads
            /\ \A u \in Threads: DOMAIN partialResults'[u] = Digits
            /\ \A u \in Threads: u # 0 => partialResults'[u] = partialResults[u]
        BY <3>1, <2>0
      <3>3. \A u \in Threads: u # 0 => \A i: Summed(u, i)' = Summed(u, i)
        BY <3>2 DEF Summed
      <3>4. \A u \in Threads: pc[u] # "second"
        BY <3>1 DEF SumInv, Past2
      <3>5. \A u \in arrived[2]: u # 0 => \A i \in Digits: Summed(u, i)' = Owned(u)
        BY <3>3, <2>0 DEF SumInv
      <3> QED BY <3>1, <3>2, <3>4, <3>5 DEF SumInv, Past2
    <2>7. ASSUME NEW t \in Threads, DigitEnds(t) PROVE SumInv'
      <3>1. pc[t] = "sum" /\ UNCHANGED <<arrived, partialResults>>
        BY <2>7 DEF DigitEnds
      <3>2. \/ pc' = [pc EXCEPT ![t] = "done"] /\ k' = k
            \/ k[t] + 1 < SumEnd(t) /\ pc' = pc /\ k' = [k EXCEPT ![t] = @ + 1]
        BY <2>7 DEF DigitEnds
      <3>3. /\ DOMAIN pc' = Threads /\ pc'[t] \in {"sum", "done"}
            /\ \A u \in Threads: u # t => pc'[u] = pc[u] /\ k'[u] = k[u]
            /\ k' \in [Threads -> Int]
        BY <3>1, <3>2, <2>0
      <3>4. t < Ratio /\ k[t] \in SumStart(t) .. SumEnd(t) - 1
        BY <3>1 DEF SumInv
      <3>5. pc'[t] = "sum" => k'[t] \in SumStart(t) .. SumEnd(t) - 1
        BY <3>2, <3>4, <2>0, SumRange
      <3>6. \A u, i: Summed(u, i)' = Summed(u, i)
        BY <3>1 DEF Summed
      <3>7. arrived'[2] = Threads
        BY <3>1 DEF SumInv, Past2
      <3>8. \A u \in arrived'[2]: /\ pc'[u] \in {"barrier2", "sum", "done"}
                                  /\ u # 0 => \A i \in Digits: Summed(u, i)' = Owned(u)
        BY <3>1, <3>3, <3>6 DEF SumInv
      <3>9. \A u \in Threads: pc'[u] = "second" => u # t /\ pc[u] = "second"
        BY <3>3
      <3>10. \A u \in Threads: pc'[u] = "sum" => u < Ratio /\ k'[u] \in SumStart(u) .. SumEnd(u) - 1
        BY <3>3, <3>4, <3>5 DEF SumInv
      <3> QED BY <3>1, <3>3, <3>6, <3>7, <3>8, <3>9, <3>10, <2>0 DEF SumInv
    <2>8. CASE UNCHANGED vars
      BY <2>8 DEF vars, dataVars, SumInv, Past2, Summed
    <2> QED BY <2>1, <2>2, <2>3, <2>4, <2>5, <2>6, <2>7, <2>8 DEF Next, Pir
  <1> QED BY <1>1, <1>2, ReadyInductive, PTL DEF Spec

\* While the digits are summed in partial_results[0], what the other threads contribute
\* is complete and no longer changes, and no two threads sum the same digit (pir, the
\* barrier between the second and the last phase).
THEOREM SecondBarrierSuffices == Spec => []SumsSettled
  <1>1. SumInv => SumsSettled
    <2> SUFFICES ASSUME SumInv, NEW t \in Threads, pc[t] = "sum"
                 PROVE  /\ k[t] \in Digits
                        /\ \A u \in Threads:
                             /\ pc[u] \in {"barrier2", "sum", "done"}
                             /\ pc[u] = "sum" /\ u # t => k[u] # k[t]
                             /\ u # 0 => Summed(u, k[t]) = Owned(u)
      BY DEF SumsSettled, Summed, Owned
    <2>1. t < Ratio /\ k[t] \in SumStart(t) .. SumEnd(t) - 1 /\ arrived[2] = Threads
      BY DEF SumInv, Past2
    <2>2. k[t] \in Digits
      BY <2>1, SumRange
    <2>3. ASSUME NEW u \in Threads, pc[u] = "sum", u # t PROVE k[u] # k[t]
      <3>1. k[u] \in SumStart(u) .. SumEnd(u) - 1
        BY <2>3 DEF SumInv
      <3> QED BY <3>1, <2>1, <2>3, SumRangesDisjoint
    <2>4. \A u \in Threads: /\ pc[u] \in {"barrier2", "sum", "done"}
                            /\ u # 0 => Summed(u, k[t]) = Owned(u)
      BY <2>1, <2>2 DEF SumInv
    <2> QED BY <2>2, <2>3, <2>4
  <1> QED BY <1>1, SumInductive, PTL

\* The two barriers are enough for every read of what another thread has written
\* (pir_server.cpp:315 and :331).
THEOREM BarriersSuffice == Spec => []BarriersSeparate
  BY FirstBarrierSuffices, SecondBarrierSuffices, PTL DEF BarriersSeparate

-----------------------------------------------------------------------------
(* What the last phase adds up. *)

\* The products of thread u in digit i: the first one has the plaintext of column 0.
Terms(u, i) ==
  {<<StartId(u), <<0, i>>>>} \cup {<<c, <<c, i>>>> : c \in StartId(u) + 1 .. EndId(u) - 1}

Adding(n, i, p) == {u \in 0 .. n - 1: p \in Terms(u, i)}

\* The sum of what the first n threads have in digit i.
Collected(i, n) ==
  [p \in UNION {Terms(u, i) : u \in 0 .. n - 1} |-> Cardinality(Adding(n, i, p))]

SumPart(t) == SumStart(t) .. SumEnd(t) - 1

After == {"barrier2", "sum", "done"}

\* Thread t has done with digit i, one of its own.
Finished(t, i) == pc[t] = "done" \/ (pc[t] = "sum" /\ i < k[t])

\* How many threads are in the sum of digit i, which t is to add up.
Upto(t, i) ==
  IF Finished(t, i) THEN NumThreads ELSE IF pc[t] = "sum" /\ i = k[t] THEN j[t] ELSE 1

ReplyInv ==
  /\ j \in [Threads -> Int] /\ inverted \in [Digits -> Int]
  /\ \A t \in Threads: pc[t] = "sum" => j[t] \in 1 .. NumThreads
  /\ \A t \in Threads: pc[t] = "second" =>
       \A i \in 0 .. k[t] - 1: partialResults[t][i] = SetToBag(Terms(t, i))
  /\ \A t \in Threads: t # 0 /\ pc[t] \in After =>
       \A i \in Digits: partialResults[t][i] = SetToBag(Terms(t, i))
  /\ pc[0] \in After =>
       \A t \in Threads: t < Ratio =>
         \A i \in SumPart(t): partialResults[0][i] = Collected(i, Upto(t, i))
  /\ \A t \in Threads: t < Ratio =>
       \A i \in SumPart(t): inverted[i] = IF Finished(t, i) THEN 1 ELSE 0
  /\ mpc = "done" => \A t \in Threads: pc[t] = "done"

LEMMA AddingFinite ==
  ASSUME NEW n \in Nat, NEW i, NEW p
  PROVE  IsFiniteSet(Adding(n, i, p)) /\ Cardinality(Adding(n, i, p)) \in Nat
  <1>1. IsFiniteSet(0 .. n - 1)
    BY FS_Interval
  <1>2. IsFiniteSet(Adding(n, i, p))
    BY <1>1, FS_Subset DEF Adding
  <1> QED BY <1>2, FS_CardinalityType

\* One more thread adds its products to the sum.
LEMMA CollectedNext ==
  ASSUME NEW n \in Nat, NEW i
  PROVE  Collected(i, n) (+) SetToBag(Terms(n, i)) = Collected(i, n + 1)
  <1> DEFINE A == UNION {Terms(u, i) : u \in 0 .. n - 1}
             B == UNION {Terms(u, i) : u \in 0 .. (n + 1) - 1}
  <1>1. B = A \cup Terms(n, i)
    <2>1. 0 .. (n + 1) - 1 = (0 .. n - 1) \cup {n}
      OBVIOUS
    <2> QED BY <2>1
  <1>2. ASSUME NEW p
        PROVE  /\ p \notin A => Cardinality(Adding(n, i, p)) = 0
               /\ Cardinality(Adding(n + 1, i, p)) =
                    Cardinality(Adding(n, i, p)) + IF p \in Terms(n, i) THEN 1 ELSE 0
    <2>1. p \notin A => Adding(n, i, p) = {}
      BY DEF Adding
    <2>2. Adding(n + 1, i, p) = Adding(n, i, p) \cup IF p \in Terms(n, i) THEN {n} ELSE {}
      <3>1. 0 .. (n + 1) - 1 = (0 .. n - 1) \cup {n}
        OBVIOUS
      <3> QED BY <3>1 DEF Adding
    <2>3. n \notin Adding(n, i, p)
      BY DEF Adding
    <2>4. IsFiniteSet(Adding(n, i, p)) /\ Cardinality(Adding(n, i, p)) \in Nat
      BY AddingFinite
    <2>5. Cardinality(Adding(n, i, p) \cup {n}) = Cardinality(Adding(n, i, p)) + 1
      BY <2>3, <2>4, FS_AddElement
    <2>6. p \notin A => Cardinality(Adding(n, i, p)) = 0
      BY <2>1, FS_EmptySet
    <2>7. CASE p \in Terms(n, i)
      BY <2>2, <2>5, <2>6, <2>7
    <2>8. CASE p \notin Terms(n, i)
      <3>1. Adding(n + 1, i, p) = Adding(n, i, p)
        BY <2>2, <2>8
      <3> QED BY <3>1, <2>4, <2>6, <2>8
    <2> QED BY <2>7, <2>8
  <1>3. \A p: Cardinality(Adding(n, i, p)) \in Nat
    BY AddingFinite
  <1>4. Collected(i, n) = [p \in A |-> Cardinality(Adding(n, i, p))]
    BY DEF Collected
  <1>5. Collected(i, n + 1) = [p \in B |-> Cardinality(Adding(n + 1, i, p))]
    BY DEF Collected
  <1>6. Collected(i, n) (+) SetToBag(Terms(n, i)) =
          [p \in A \cup Terms(n, i) |->
             (IF p \in A THEN Cardinality(Adding(n, i, p)) ELSE 0)
               + (IF p \in Terms(n, i) THEN 1 ELSE 0)]
    <2> HIDE DEF A
    <2> QED BY <1>4 DEF (+), SetToBag
  <1> HIDE DEF A, B
  <1>7. \A p \in A \cup Terms(n, i):
          (IF p \in A THEN Cardinality(Adding(n, i, p)) ELSE 0) + (IF p \in Terms(n, i) THEN 1 ELSE 0)
            = Cardinality(Adding(n + 1, i, p))
    BY <1>2, <1>3
  <1> QED BY <1>1, <1>5, <1>6, <1>7

LEMMA CollectedOne ==
  ASSUME NEW i
  PROVE  Collected(i, 1) = SetToBag(Terms(0, i))
  <1>1. UNION {Terms(u, i) : u \in 0 .. 1 - 1} = Terms(0, i)
    <2>1. 0 .. 1 - 1 = {0}
      OBVIOUS
    <2> QED BY <2>1
  <1>2. ASSUME NEW p \in Terms(0, i) PROVE Cardinality(Adding(1, i, p)) = 1
    <2>1. Adding(1, i, p) = {0}
      <3>1. 0 .. 1 - 1 = {0}
        OBVIOUS
      <3> QED BY <3>1, <1>2 DEF Adding
    <2> QED BY <2>1, FS_Singleton
  <1>3. Collected(i, 1) = [p \in Terms(0, i) |-> Cardinality(Adding(1, i, p))]
    BY <1>1 DEF Collected
  <1> QED BY <1>2, <1>3 DEF SetToBag

\* Behind the first barrier the products of a thread are its terms.
LEMMA SecondSumTerms ==
  ASSUME NEW t \in Threads, NEW i \in Digits,
         \A c \in Columns, d \in Digits: intermediatePlain[d + c * Ratio] = <<c, d>>
  PROVE  SecondSum(t, i) = SetToBag(Terms(t, i))
  <1>1. /\ N1 \in Nat \ {0} /\ Ratio \in Nat \ {0} /\ i \in Nat /\ 0 \in Columns
        /\ StartId(t) \in Nat /\ EndId(t) \in Nat /\ EndId(t) <= N1
    <2>1. End(N1, NumThreads, t) <= N1
      BY Sizes, PartsWithin DEF Threads
    <2> QED BY <2>1, Sizes, ColumnRange DEF Digits, Columns, EndId
  <1>2. intermediatePlain[i] = <<0, i>>
    <2>1. 0 * Ratio = 0 /\ i + 0 = i
      BY <1>1
    <2> QED BY <1>1, <2>1
  <1>3. StartId(t) + 1 .. EndId(t) - 1 \subseteq Columns
    BY <1>1 DEF Columns
  <1>4. {<<c, intermediatePlain[i + c * Ratio]>> : c \in StartId(t) + 1 .. EndId(t) - 1}
          = {<<c, <<c, i>>>> : c \in StartId(t) + 1 .. EndId(t) - 1}
    <2>1. \A c \in StartId(t) + 1 .. EndId(t) - 1: intermediatePlain[i + c * Ratio] = <<c, i>>
      BY <1>3
    <2> QED BY <2>1
  <1> QED BY <1>2, <1>4 DEF SecondSum, Terms

\* Each digit has a thread that adds it up.
LEMMA DigitHasSummer ==
  ASSUME NEW i \in Digits
  PROVE  \E t \in Threads: t < Ratio /\ i \in SumPart(t)
  <1>0. NumThreads \in Nat \ {0} /\ Ratio \in Nat \ {0} /\ i \in 0 .. Ratio - 1
    BY Sizes DEF Digits
  <1>1. CASE NumThreads >= Ratio
    <2>1. i \in Threads /\ i < Ratio /\ i \in SumPart(i)
      BY <1>0, <1>1 DEF SumPart, SumStart, SumEnd, Threads
    <2> QED BY <2>1
  <1>2. CASE ~(NumThreads >= Ratio)
    <2>1. PICK t \in 0 .. NumThreads - 1: i \in Part(Ratio, NumThreads, t)
      BY <1>0, PartsCover
    <2>2. t \in Threads /\ t < Ratio /\ SumPart(t) = Part(Ratio, NumThreads, t)
      BY <1>0, <1>2 DEF SumPart, SumStart, SumEnd, Threads, Part
    <2> QED BY <2>1, <2>2
  <1> QED BY <1>1, <1>2

Early == {"unborn", "check", "lock", "asleep", "first", "barrier1"}

\* A step that only moves threads towards the second phase.
LEMMA EarlyStep ==
  ASSUME ReplyInv, 0 \in Threads,
         UNCHANGED <<j, inverted, partialResults>>,
         \A t \in Threads:
           \/ pc'[t] = pc[t] /\ (pc[t] \in {"second", "sum"} => k'[t] = k[t])
           \/ /\ pc[t] \in Early
              /\ pc'[t] \in Early \/ (pc'[t] = "second" /\ k'[t] = 0),
         mpc' = "done" => \A t \in Threads: pc'[t] = "done"
  PROVE  ReplyInv'
  <1>1. \A t \in Threads: pc'[t] \in After \/ pc'[t] = "sum" => pc'[t] = pc[t]
    BY DEF Early, After
  <1>2. \A t \in Threads: \A i: Finished(t, i)' <=> Finished(t, i)
    BY DEF Finished, Early
  <1>3. \A t \in Threads: \A i: Upto(t, i)' = Upto(t, i)
    BY <1>2 DEF Upto, Finished, Early
  <1>4. \A t \in Threads: pc'[t] = "sum" => j'[t] \in 1 .. NumThreads
    BY <1>1 DEF ReplyInv
  <1>5. ASSUME NEW t \in Threads, pc'[t] = "second", NEW i \in 0 .. k'[t] - 1
        PROVE  partialResults'[t][i] = SetToBag(Terms(t, i))
    <2>1. CASE pc[t] = "second" /\ k'[t] = k[t]
      BY <2>1, <1>5 DEF ReplyInv
    <2>2. CASE k'[t] = 0
      BY <2>2, <1>5
    <2> QED BY <1>5, <2>1, <2>2 DEF Early
  <1>6. \A t \in Threads: t # 0 /\ pc'[t] \in After =>
          \A i \in Digits: partialResults'[t][i] = SetToBag(Terms(t, i))
    BY <1>1 DEF ReplyInv
  <1>7. pc'[0] \in After => \A t \in Threads: t < Ratio =>
          \A i \in SumPart(t): partialResults'[0][i] = Collected(i, Upto(t, i)')
    BY <1>1, <1>3 DEF ReplyInv
  <1>8. \A t \in Threads: t < Ratio =>
          \A i \in SumPart(t): inverted'[i] = IF Finished(t, i)' THEN 1 ELSE 0
    BY <1>2 DEF ReplyInv
  <1>9. j' \in [Threads -> Int] /\ inverted' \in [Digits -> Int]
    BY DEF ReplyInv
  <1> QED BY <1>4, <1>5, <1>6, <1>7, <1>8, <1>9 DEF ReplyInv

LEMMA ReplyInductive == Spec => []ReplyInv
  <1>0. 0 \in Threads /\ NumThreads \in Nat \ {0} /\ Ratio \in Nat \ {0}
    BY Sizes DEF Threads
  <1>1. Init => ReplyInv
    <2> SUFFICES ASSUME Init PROVE ReplyInv
      OBVIOUS
    <2>1. \A t \in Threads: pc[t] = "unborn"
      BY DEF Init
    <2>2. j \in [Threads -> Int] /\ inverted \in [Digits -> Int] /\ \A i \in Digits: inverted[i] = 0
      BY DEF Init
    <2>3. \A t \in Threads: t < Ratio => SumPart(t) \subseteq Digits
      BY SumRange DEF SumPart
    <2>4. mpc # "done"
      BY DEF Init
    <2> QED BY <1>0, <2>1, <2>2, <2>3, <2>4 DEF ReplyInv, Finished, After
  <1>2. ReadyInv /\ SecondPhaseReadsAll /\ SumInv /\ ReplyInv /\ [Next]_vars => ReplyInv'
    <2> SUFFICES ASSUME ReadyInv, SecondPhaseReadsAll, SumInv, ReplyInv, [Next]_vars PROVE ReplyInv'
      OBVIOUS
    <2>0. /\ DOMAIN pc = Threads /\ k \in [Threads -> Int]
          /\ arrived \in [{1, 2} -> SUBSET Threads]
          /\ DOMAIN partialResults = Threads
          /\ \A t \in Threads: DOMAIN partialResults[t] = Digits
          /\ j \in [Threads -> Int] /\ inverted \in [Digits -> Int]
      BY DEF SumInv, ReplyInv
    <2>00. \A t \in Threads: t < Ratio => SumPart(t) \subseteq Digits
      BY SumRange DEF SumPart
    <2>1. CASE Main \/ \E d \in Dimensions: Expand(d)
      <3>1. UNCHANGED <<j, k, inverted, partialResults>>
        BY <2>1 DEF Main, Expand, CreateThread, Load, StartExpand, JoinExpand, Notify, Join, dataVars
      <3>2. \A t \in Threads: pc'[t] = pc[t] \/ (pc[t] \in Early /\ pc'[t] \in Early)
        <4>1. CASE CreateThread
          BY <4>1, <2>0 DEF CreateThread, ReadyInv, Awake, Early
        <4>2. CASE Notify
          BY <4>2, <2>0 DEF Notify, Early
        <4> QED BY <2>1, <4>1, <4>2 DEF Main, Expand, Load, StartExpand, JoinExpand, Join
      <3>3. mpc' = "done" => \A t \in Threads: pc'[t] = "done"
        BY <2>1 DEF Main, Expand, CreateThread, Load, StartExpand, JoinExpand, Notify, Join, ReplyInv
      <3> QED BY <1>0, <3>1, <3>2, <3>3, EarlyStep
    <2>2. ASSUME NEW t \in Threads,
                 \/ CheckRequest(t) \/ AwaitRequest(t) \/ SpuriousWakeup(t)
                 \/ FirstPhase(t) \/ FirstPhaseEnds(t) \/ PassFirstBarrier(t)
          PROVE  ReplyInv'
      <3>1. UNCHANGED <<j, inverted, partialResults>> /\ mpc' = mpc
        BY <2>2 DEF CheckRequest, AwaitRequest, SpuriousWakeup, FirstPhase, FirstPhaseEnds,
                    PassFirstBarrier, dataVars, mainVars
      <3>2. pc[t] \in Early /\ (pc'[t] \in Early \/ (pc'[t] = "second" /\ k'[t] = 0))
        BY <2>2, <2>0 DEF CheckRequest, AwaitRequest, SpuriousWakeup, FirstPhase, FirstPhaseEnds,
                          ReachBarrier, PassFirstBarrier, Early
      <3>3. \A u \in Threads: u # t => pc'[u] = pc[u] /\ k'[u] = k[u]
        BY <2>2, <2>0 DEF CheckRequest, AwaitRequest, SpuriousWakeup, FirstPhase, FirstPhaseEnds,
                          ReachBarrier, PassFirstBarrier
      <3>4. mpc' # "done"
        BY <3>1, <3>2 DEF ReplyInv, Early
      <3>5. \A u \in Threads:
              \/ pc'[u] = pc[u] /\ (pc[u] \in {"second", "sum"} => k'[u] = k[u])
              \/ /\ pc[u] \in Early
                 /\ pc'[u] \in Early \/ (pc'[u] = "second" /\ k'[u] = 0)
        BY <3>2, <3>3
      <3> QED BY <1>0, <3>1, <3>4, <3>5, EarlyStep
    <2>3. ASSUME NEW t \in Threads, SecondPhase(t) PROVE ReplyInv'
      <3>1. /\ pc[t] = "second" /\ k[t] \in 0 .. Ratio - 1 /\ UNCHANGED <<pc, j, inverted>>
            /\ mpc' = mpc \/ mpc' = "aborted"
        BY <2>3, Sizes DEF SecondPhase, SumInv
      <3>2. mpc' # "done"
        BY <3>1 DEF ReplyInv
      <3>3. CASE UNCHANGED <<k, partialResults>>
        BY <1>0, <3>1, <3>2, <3>3, EarlyStep
      <3>4. CASE /\ partialResults' = [partialResults EXCEPT ![t][k[t]] = SecondSum(t, k[t])]
                 /\ k' = [k EXCEPT ![t] = @ + 1]
        <4>1. k[t] \in Digits
          BY <3>1 DEF Digits
        <4>2. SecondSum(t, k[t]) = SetToBag(Terms(t, k[t]))
          <5>1. \A c \in Columns, d \in Digits: intermediatePlain[d + c * Ratio] = <<c, d>>
            BY <3>1 DEF SecondPhaseReadsAll
          <5> QED BY <4>1, <5>1, SecondSumTerms
        <4>3. \A u \in Threads: u # t => partialResults'[u] = partialResults[u] /\ k'[u] = k[u]
          BY <3>4, <2>0
        <4>4. \A i \in Digits: partialResults'[t][i] =
                IF i = k[t] THEN SetToBag(Terms(t, i)) ELSE partialResults[t][i]
          BY <3>4, <2>0, <4>2
        <4>5. k'[t] = k[t] + 1
          BY <3>4, <2>0
        <4>6. ASSUME NEW u \in Threads, pc'[u] = "second", NEW i \in 0 .. k'[u] - 1
              PROVE  partialResults'[u][i] = SetToBag(Terms(u, i))
          <5>1. CASE u = t
            <6>1. i \in Digits /\ (i = k[t] \/ i \in 0 .. k[t] - 1)
              BY <5>1, <4>5, <4>6, <3>1, <1>0 DEF Digits
            <6>2. i # k[t] => partialResults[t][i] = SetToBag(Terms(t, i))
              BY <6>1, <3>1 DEF ReplyInv
            <6> QED BY <5>1, <6>1, <6>2, <4>4
          <5>2. CASE u # t
            BY <5>2, <4>3, <4>6, <3>1 DEF ReplyInv
          <5> QED BY <5>1, <5>2
        <4>7. \A u \in Threads: u # 0 /\ pc'[u] \in After =>
                \A i \in Digits: partialResults'[u][i] = SetToBag(Terms(u, i))
          BY <4>3, <3>1 DEF ReplyInv, After
        <4>8. \A u \in Threads: \A i: (Finished(u, i)' <=> Finished(u, i)) /\ Upto(u, i)' = Upto(u, i)
          BY <4>3, <3>1 DEF Finished, Upto
        <4>9. pc'[0] \in After => \A u \in Threads: u < Ratio =>
                \A i \in SumPart(u): partialResults'[0][i] = Collected(i, Upto(u, i)')
          BY <1>0, <4>3, <4>8, <3>1 DEF ReplyInv, After
        <4> QED BY <4>6, <4>7, <4>8, <4>9, <3>1, <3>2 DEF ReplyInv
      <3> QED BY <2>3, <3>3, <3>4 DEF SecondPhase
    <2>4. ASSUME NEW t \in Threads, SecondPhaseEnds(t) PROVE ReplyInv'
      <3>1. /\ pc[t] = "second" /\ k[t] = Ratio /\ UNCHANGED <<k, j, inverted, partialResults, mpc>>
            /\ pc' = [pc EXCEPT ![t] = "barrier2"]
        BY <2>4 DEF SecondPhaseEnds, ReachBarrier, dataVars, mainVars
      <3>2. pc'[t] = "barrier2" /\ \A u \in Threads: u # t => pc'[u] = pc[u]
        BY <3>1, <2>0
      <3>3. mpc' # "done"
        BY <3>1 DEF ReplyInv
      <3>4. \A i \in Digits: partialResults[t][i] = SetToBag(Terms(t, i))
        BY <3>1 DEF ReplyInv, Digits
      <3>5. \A u \in Threads: u # 0 /\ pc'[u] \in After =>
              \A i \in Digits: partialResults'[u][i] = SetToBag(Terms(u, i))
        BY <3>1, <3>2, <3>4 DEF ReplyInv
      <3>6. \A u \in Threads: pc[u] \notin {"sum", "done"}
        <4>1. t \notin arrived[2]
          BY <3>1 DEF SumInv
        <4> QED BY <4>1 DEF SumInv, Past2
      <3>7. \A u \in Threads: \A i: ~Finished(u, i) /\ ~Finished(u, i)' /\ Upto(u, i) = 1 /\ Upto(u, i)' = 1
        BY <3>2, <3>6 DEF Finished, Upto
      <3>8. pc'[0] \in After => \A u \in Threads: u < Ratio =>
              \A i \in SumPart(u): partialResults'[0][i] = Collected(i, Upto(u, i)')
        <4>1. CASE t = 0
          BY <4>1, <3>1, <3>4, <3>7, <2>00, CollectedOne
        <4>2. CASE t # 0
          BY <1>0, <4>2, <3>1, <3>2, <3>7 DEF ReplyInv
        <4> QED BY <4>1, <4>2
      <3>9. \A u \in Threads: pc'[u] = "second" \/ pc'[u] = "sum" => pc[u] = pc'[u]
        BY <3>2
      <3> QED BY <3>1, <3>3, <3>5, <3>7, <3>8, <3>9 DEF ReplyInv
    <2>5. ASSUME NEW t \in Threads, PassSecondBarrier(t) PROVE ReplyInv'
      <3>1. pc[t] = "barrier2" /\ UNCHANGED <<inverted, partialResults, mpc>>
        BY <2>5 DEF PassSecondBarrier, dataVars, mainVars
      <3>2. /\ \A u \in Threads: u # t => pc'[u] = pc[u] /\ k'[u] = k[u] /\ j'[u] = j[u]
            /\ t < Ratio => pc'[t] = "sum" /\ k'[t] = SumStart(t) /\ j'[t] = 1
            /\ pc'[t] \in {"sum", "done"} /\ j' \in [Threads -> Int]
            /\ pc'[t] = "sum" => j'[t] = 1
        <4>1. \/ t >= Ratio /\ pc' = [pc EXCEPT ![t] = "done"] /\ UNCHANGED <<k, j>>
              \/ ~(t >= Ratio) /\ pc' = [pc EXCEPT ![t] = "sum"]
                 /\ k' = [k EXCEPT ![t] = SumStart(t)] /\ j' = [j EXCEPT ![t] = 1]
          BY <2>5 DEF PassSecondBarrier
        <4>2. t < Ratio <=> ~(t >= Ratio)
          BY <1>0 DEF Threads
        <4> QED BY <4>1, <4>2, <2>0
      <3>3. mpc' # "done"
        BY <3>1 DEF ReplyInv
      <3>4. \A u \in Threads: u < Ratio => \A i \in SumPart(u):
              (Finished(u, i)' <=> Finished(u, i)) /\ Upto(u, i)' = Upto(u, i)
        <4>1. ASSUME t < Ratio, NEW i \in SumPart(t)
              PROVE  ~Finished(t, i) /\ ~Finished(t, i)' /\ Upto(t, i) = 1 /\ Upto(t, i)' = 1
          <5>1. SumStart(t) \in Int /\ SumEnd(t) \in Int
            BY <4>1, SumRange
          <5>2. ~(i < SumStart(t))
            BY <5>1 DEF SumPart
          <5> QED BY <5>2, <4>1, <3>1, <3>2 DEF Finished, Upto
        <4>2. \A u \in Threads: \A i: u # t =>
                (Finished(u, i)' <=> Finished(u, i)) /\ Upto(u, i)' = Upto(u, i)
          BY <3>2 DEF Finished, Upto
        <4> QED BY <4>1, <4>2
      <3>5. \A u \in Threads: pc'[u] \in After <=> pc[u] \in After
        BY <3>1, <3>2 DEF After
      <3>6. \A u \in Threads: pc'[u] = "second" => pc[u] = "second" /\ k'[u] = k[u]
        BY <3>2
      <3>7. \A u \in Threads: pc'[u] = "sum" => j'[u] \in 1 .. NumThreads
        BY <1>0, <3>2 DEF ReplyInv
      <3> QED BY <1>0, <2>0, <3>1, <3>2, <3>3, <3>4, <3>5, <3>6, <3>7 DEF ReplyInv
    <2>6. ASSUME NEW t \in Threads, AddPartial(t) PROVE ReplyInv'
      <3>1. /\ pc[t] = "sum" /\ j[t] < NumThreads /\ UNCHANGED <<pc, k, mpc, inverted>>
            /\ partialResults' = [partialResults EXCEPT ![0][k[t]] = @ (+) partialResults[j[t]][k[t]]]
            /\ j' = [j EXCEPT ![t] = @ + 1]
        BY <2>6 DEF AddPartial, mainVars
      <3>2. t < Ratio /\ k[t] \in SumPart(t) /\ k[t] \in Digits /\ arrived[2] = Threads
        BY <3>1, <2>00 DEF SumInv, SumPart, Past2
      <3>3. j[t] \in 1 .. NumThreads - 1 /\ j[t] \in Threads /\ j[t] # 0
        BY <3>1, <1>0 DEF ReplyInv, Threads
      <3>4. \A u \in Threads: pc[u] \in After
        BY <3>2 DEF SumInv, After
      <3>5. partialResults[j[t]][k[t]] = SetToBag(Terms(j[t], k[t]))
        BY <3>2, <3>3, <3>4 DEF ReplyInv
      <3>6. ~Finished(t, k[t]) /\ Upto(t, k[t]) = j[t]
        BY <3>1, <2>0 DEF Finished, Upto
      <3>7. partialResults[0][k[t]] = Collected(k[t], j[t])
        BY <1>0, <3>2, <3>4, <3>6 DEF ReplyInv
      <3>8. partialResults'[0][k[t]] = Collected(k[t], j[t] + 1)
        <4>1. partialResults'[0][k[t]] = partialResults[0][k[t]] (+) partialResults[j[t]][k[t]]
          BY <1>0, <2>0, <3>1, <3>2
        <4>2. j[t] \in Nat
          BY <3>3
        <4> QED BY <4>1, <4>2, <3>5, <3>7, CollectedNext
      <3>9. /\ \A u \in Threads: u # 0 => partialResults'[u] = partialResults[u]
            /\ \A i \in Digits: i # k[t] => partialResults'[0][i] = partialResults[0][i]
        BY <1>0, <2>0, <3>1
      <3>10. \A u \in Threads: \A i: Finished(u, i)' <=> Finished(u, i)
        BY <3>1 DEF Finished
      <3>11. j'[t] = j[t] + 1 /\ j' \in [Threads -> Int] /\ \A u \in Threads: u # t => j'[u] = j[u]
        BY <3>1, <2>0
      <3>12. ASSUME NEW u \in Threads, u < Ratio, NEW i \in SumPart(u)
             PROVE  partialResults'[0][i] = Collected(i, Upto(u, i)')
        <4>1. partialResults[0][i] = Collected(i, Upto(u, i)) /\ i \in Digits
          BY <1>0, <3>4, <3>12, <2>00 DEF ReplyInv
        <4>2. CASE u = t /\ i = k[t]
          <5>1. Upto(t, k[t])' = j[t] + 1
            BY <3>1, <3>6, <3>10, <3>11 DEF Upto
          <5> QED BY <4>2, <5>1, <3>8, <3>1
        <4>3. CASE u = t /\ i # k[t]
          <5>1. Upto(t, i)' = Upto(t, i)
            BY <4>3, <3>1, <3>10 DEF Upto
          <5> QED BY <4>1, <4>3, <5>1, <3>9
        <4>4. CASE u # t
          <5>1. i # k[t]
            BY <4>4, <3>2, <3>12, SumRangesDisjoint DEF SumPart
          <5>2. Upto(u, i)' = Upto(u, i)
            BY <4>4, <3>1, <3>10, <3>11 DEF Upto
          <5> QED BY <4>1, <5>1, <5>2, <3>9
        <4> QED BY <4>2, <4>3, <4>4
      <3>13. \A u \in Threads: pc'[u] = "sum" => j'[u] \in 1 .. NumThreads
        BY <3>1, <3>3, <3>11, <1>0 DEF ReplyInv
      <3>14. \A u \in Threads: pc'[u] # "second"
        BY <3>1, <3>4 DEF After
      <3>15. mpc' # "done"
        BY <3>1 DEF ReplyInv
      <3> QED BY <2>0, <3>1, <3>9, <3>10, <3>11, <3>12, <3>13, <3>14, <3>15 DEF ReplyInv
    <2>7. ASSUME NEW t \in Threads, DigitEnds(t) PROVE ReplyInv'
      <3>1. /\ pc[t] = "sum" /\ j[t] = NumThreads /\ UNCHANGED <<mpc, partialResults>>
            /\ inverted' = [inverted EXCEPT ![k[t]] = @ + 1]
        BY <2>7 DEF DigitEnds, mainVars
      <3>2. \/ /\ k[t] + 1 < SumEnd(t) /\ pc' = pc
               /\ k' = [k EXCEPT ![t] = @ + 1] /\ j' = [j EXCEPT ![t] = 1]
            \/ ~(k[t] + 1 < SumEnd(t)) /\ pc' = [pc EXCEPT ![t] = "done"] /\ UNCHANGED <<k, j>>
        BY <2>7 DEF DigitEnds
      <3>3. /\ t < Ratio /\ k[t] \in SumPart(t) /\ k[t] \in Digits /\ arrived[2] = Threads
            /\ SumEnd(t) \in Int /\ k[t] \in Int
        BY <3>1, <2>00, <2>0, SumRange DEF SumInv, SumPart, Past2
      <3>4. /\ \A u \in Threads: u # t => pc'[u] = pc[u] /\ k'[u] = k[u] /\ j'[u] = j[u]
            /\ j' \in [Threads -> Int]
            /\ \/ pc'[t] = "sum" /\ k'[t] = k[t] + 1 /\ j'[t] = 1
               \/ pc'[t] = "done" /\ ~(k[t] + 1 < SumEnd(t))
        BY <3>1, <3>2, <2>0
      <3>5. \A u \in Threads: pc[u] \in After /\ pc'[u] \in After
        BY <3>3, <3>4 DEF SumInv, After
      <3>6. \A i \in SumPart(t): i \in Int /\ i < SumEnd(t)
        BY <3>3 DEF SumPart
      <3>7. ASSUME NEW i \in SumPart(t)
            PROVE  /\ Finished(t, i)' <=> Finished(t, i) \/ i = k[t]
                   /\ Upto(t, i)' = Upto(t, i)
        <4>1. Finished(t, i) <=> i < k[t]
          BY <3>1 DEF Finished
        <4>2. Finished(t, i)' <=> i < k[t] + 1
          BY <3>3, <3>4, <3>6 DEF Finished
        <4>3. Finished(t, i)' <=> Finished(t, i) \/ i = k[t]
          BY <4>1, <4>2, <3>3, <3>6
        <4>4. CASE i < k[t] \/ i = k[t]
          BY <4>1, <4>3, <4>4, <3>1, <3>3 DEF Upto
        <4>5. CASE ~(i < k[t] \/ i = k[t])
          BY <4>1, <4>3, <4>5, <3>1, <3>4 DEF Upto
        <4> QED BY <4>3, <4>4, <4>5
      <3>8. \A u \in Threads: \A i: u # t => (Finished(u, i)' <=> Finished(u, i)) /\ Upto(u, i)' = Upto(u, i)
        BY <3>4 DEF Finished, Upto
      <3>9. \A u \in Threads: u < Ratio =>
              \A i \in SumPart(u): partialResults'[0][i] = Collected(i, Upto(u, i)')
        BY <1>0, <3>1, <3>5, <3>7, <3>8 DEF ReplyInv
      <3>10. ASSUME NEW u \in Threads, u < Ratio, NEW i \in SumPart(u)
             PROVE  inverted'[i] = IF Finished(u, i)' THEN 1 ELSE 0
        <4>1. inverted[i] = (IF Finished(u, i) THEN 1 ELSE 0) /\ i \in Digits
          BY <3>10, <2>00 DEF ReplyInv
        <4>2. CASE u = t /\ i = k[t]
          <5>1. ~Finished(t, k[t])
            BY <3>1, <3>3 DEF Finished
          <5>2. inverted'[k[t]] = inverted[k[t]] + 1
            BY <3>1, <3>3, <2>0
          <5> QED BY <4>1, <4>2, <5>1, <5>2, <3>7
        <4>3. CASE u = t /\ i # k[t]
          <5>1. inverted'[i] = inverted[i]
            BY <4>1, <4>3, <3>1, <2>0
          <5> QED BY <4>1, <4>3, <5>1, <3>7, <3>10
        <4>4. CASE u # t
          <5>1. i # k[t]
            BY <4>4, <3>3, <3>10, SumRangesDisjoint DEF SumPart
          <5>2. inverted'[i] = inverted[i]
            BY <4>1, <5>1, <3>1, <2>0
          <5> QED BY <4>1, <4>4, <5>2, <3>8
        <4> QED BY <4>2, <4>3, <4>4
      <3>11. \A u \in Threads: pc'[u] = "sum" => j'[u] \in 1 .. NumThreads
        BY <3>1, <3>4, <1>0 DEF ReplyInv
      <3>12. \A u \in Threads: pc'[u] # "second"
        BY <3>5 DEF After
      <3>13. mpc' # "done"
        BY <3>1 DEF ReplyInv
      <3>14. inverted' \in [Digits -> Int]
        BY <3>1, <3>3, <2>0
      <3>15. \A u \in Threads: u # 0 /\ pc'[u] \in After =>
               \A i \in Digits: partialResults'[u][i] = SetToBag(Terms(u, i))
        BY <3>1, <3>5 DEF ReplyInv
      <3> QED BY <3>4, <3>9, <3>10, <3>11, <3>12, <3>13, <3>14, <3>15 DEF ReplyInv
    <2>8. CASE UNCHANGED vars
      <3>1. UNCHANGED <<j, k, pc, mpc, inverted, partialResults>>
        BY <2>8 DEF vars, dataVars, mainVars
      <3> QED BY <1>0, <3>1, EarlyStep DEF ReplyInv
    <2> QED BY <2>1, <2>2, <2>3, <2>4, <2>5, <2>6, <2>7, <2>8 DEF Next, Pir
  <1> QED BY <1>1, <1>2, ReadyInductive, FirstBarrierSuffices, SumInductive, PTL DEF Spec

-----------------------------------------------------------------------------
(* What the sum of all threads holds. *)

\* A thread without columns starts one past the last column.
LEMMA ThreadColumns ==
  ASSUME NEW t \in Threads
  PROVE  /\ StartId(t) .. EndId(t) - 1 \subseteq Columns
         /\ t \in Idle \/ StartId(t) \in StartId(t) .. EndId(t) - 1
         /\ t \in Idle => StartId(t) + 1 .. EndId(t) - 1 = {}
  <1> DEFINE q == N1 \div NumThreads
             r == N1 % NumThreads
  <1>0. t \in Nat /\ t \in 0 .. NumThreads - 1 /\ NumThreads \in Nat \ {0} /\ N1 \in Nat \ {0}
    BY Sizes DEF Threads
  <1>1. StartId(t) \in Nat /\ EndId(t) \in Nat /\ StartId(t) <= EndId(t)
    BY ColumnRange
  <1>2. EndId(t) <= N1 /\ StartId(t) .. EndId(t) - 1 \subseteq Columns
    BY <1>0, PartsWithin DEF EndId, StartId, Part, Columns
  <1>3. StartId(t) = EndId(t) => StartId(t) = N1
    <2> SUFFICES ASSUME StartId(t) = EndId(t) PROVE StartId(t) = N1
      OBVIOUS
    <2>1. q \in Nat /\ r \in 0 .. NumThreads - 1 /\ N1 = NumThreads * q + r
      BY <1>0, DivMod
    <2>2. StartId(t) = t * q + (IF r > t THEN t ELSE r)
      BY DEF StartId, First
    <2>3. EndId(t) = StartId(t) + (q + IF r > t THEN 1 ELSE 0)
      BY DEF EndId, StartId, End, Share
    <2>4. q = 0 /\ ~(r > t)
      <3> HIDE DEF q, r
      <3> QED BY <1>0, <1>1, <2>1, <2>3
    <2>5. t * q = 0 /\ NumThreads * q = 0
      <3>1. t * 0 = 0 /\ NumThreads * 0 = 0
        BY <1>0
      <3> QED BY <3>1, <2>4
    <2> HIDE DEF q, r
    <2> QED BY <2>1, <2>2, <2>4, <2>5
  <1> QED BY <1>0, <1>1, <1>2, <1>3 DEF Idle

\* A product in the sum is one of a column of its thread, or the one of an idle thread.
LEMMA TermOf ==
  ASSUME NEW t \in Threads, NEW i, NEW p \in Terms(t, i)
  PROVE  /\ p = IF p[1] = StartId(t) THEN <<p[1], <<0, i>>>> ELSE <<p[1], <<p[1], i>>>>
         /\ \/ p[1] \in StartId(t) .. EndId(t) - 1
            \/ t \in Idle /\ p[1] = N1
  <1>1. CASE p = <<StartId(t), <<0, i>>>>
    BY <1>1, ThreadColumns DEF Idle
  <1>2. CASE p \in {<<c, <<c, i>>>> : c \in StartId(t) + 1 .. EndId(t) - 1}
    <2>1. PICK c \in StartId(t) + 1 .. EndId(t) - 1: p = <<c, <<c, i>>>>
      BY <1>2
    <2>2. c # StartId(t) /\ c \in StartId(t) .. EndId(t) - 1
      BY ColumnRange
    <2> QED BY <2>1, <2>2
  <1> QED BY <1>1, <1>2 DEF Terms

\* The sum of all threads has each column once, and the idle threads' product once per
\* idle thread.
LEMMA CollectedWhole ==
  ASSUME NEW i \in Digits, NEW products, products = Collected(i, NumThreads)
  PROVE  /\ Columns \subseteq {p[1] : p \in DOMAIN products}
         /\ \A p \in DOMAIN products:
              /\ p[1] \in Columns \cup {N1} /\ p[2][2] = i
              /\ products[p] = IF p[1] \in Columns THEN 1 ELSE Cardinality(Idle)
              /\ \A q \in DOMAIN products: p[1] = q[1] => p = q
  <1>0. Threads = 0 .. NumThreads - 1 /\ N1 \notin Columns
    BY Sizes DEF Threads, Columns
  <1>1. /\ \A p: p \in DOMAIN products <=> \E t \in Threads: p \in Terms(t, i)
        /\ \A p \in DOMAIN products: products[p] = Cardinality(Adding(NumThreads, i, p))
    BY <1>0 DEF Collected
  <1>2. ASSUME NEW c \in Columns PROVE \E p \in DOMAIN products: p[1] = c
    <2>1. PICK t \in Threads: c \in StartId(t) .. EndId(t) - 1
      BY ColumnsCovered
    <2>2. \E p \in Terms(t, i): p[1] = c
      <3>1. CASE c = StartId(t)
        <4>1. <<StartId(t), <<0, i>>>> \in Terms(t, i)
          BY DEF Terms
        <4> QED BY <3>1, <4>1
      <3>2. CASE c # StartId(t)
        <4>1. c \in StartId(t) + 1 .. EndId(t) - 1
          BY <2>1, <3>2, ColumnRange
        <4>2. <<c, <<c, i>>>> \in Terms(t, i)
          BY <4>1 DEF Terms
        <4> QED BY <4>2
      <3> QED BY <3>1, <3>2
    <2> QED BY <1>1, <2>2
  <1>3. ASSUME NEW t \in Threads, NEW u \in Threads, NEW c \in Columns,
               c \in StartId(t) .. EndId(t) - 1, c \in StartId(u) .. EndId(u) - 1
        PROVE  t = u
    <2>1. t # u => Part(N1, NumThreads, t) \cap Part(N1, NumThreads, u) = {}
      BY Sizes, PartsDisjoint DEF Threads
    <2> QED BY <2>1, <1>3 DEF Part, StartId, EndId
  <1>4. ASSUME NEW t \in Threads, NEW p \in Terms(t, i), p[1] \in Columns, NEW u \in Threads,
               NEW q \in Terms(u, i), p[1] = q[1]
        PROVE  t = u
    <2>1. p[1] \in StartId(t) .. EndId(t) - 1 /\ q[1] \in StartId(u) .. EndId(u) - 1
      BY <1>0, <1>4, TermOf
    <2> QED BY <1>3, <1>4, <2>1
  <1>5. ASSUME NEW t \in Threads, NEW p \in Terms(t, i), p[1] \notin Columns
        PROVE  t \in Idle /\ p = <<N1, <<0, i>>>>
    <2>1. t \in Idle /\ p[1] = N1
      BY <1>5, TermOf, ThreadColumns
    <2>2. p[1] = StartId(t)
      BY <2>1 DEF Idle
    <2> QED BY <2>1, <2>2, TermOf
  <1>6. ASSUME NEW p \in DOMAIN products
        PROVE  /\ p[1] \in Columns \cup {N1} /\ p[2][2] = i
               /\ products[p] = IF p[1] \in Columns THEN 1 ELSE Cardinality(Idle)
               /\ \A q \in DOMAIN products: p[1] = q[1] => p = q
    <2>1. PICK t \in Threads: p \in Terms(t, i)
      BY <1>1
    <2>2. p[1] \in Columns \cup {N1}
      <3>1. \/ p[1] \in StartId(t) .. EndId(t) - 1
            \/ t \in Idle /\ p[1] = N1
        BY <2>1, TermOf
      <3> QED BY <3>1, ThreadColumns
    <2>3. p[2][2] = i
      <3>1. p = IF p[1] = StartId(t) THEN <<p[1], <<0, i>>>> ELSE <<p[1], <<p[1], i>>>>
        BY <2>1, TermOf
      <3> QED BY <3>1
    <2>4. CASE p[1] \in Columns
      <3>1. Adding(NumThreads, i, p) = {t}
        BY <1>0, <1>4, <2>1, <2>4 DEF Adding
      <3>2. products[p] = 1
        BY <1>1, <3>1, FS_Singleton
      <3>3. ASSUME NEW q \in DOMAIN products, p[1] = q[1] PROVE p = q
        <4>1. PICK u \in Threads: q \in Terms(u, i)
          BY <1>1
        <4>2. u = t
          BY <1>4, <2>1, <2>4, <3>3, <4>1
        <4>3. /\ p = IF p[1] = StartId(t) THEN <<p[1], <<0, i>>>> ELSE <<p[1], <<p[1], i>>>>
              /\ q = IF q[1] = StartId(t) THEN <<q[1], <<0, i>>>> ELSE <<q[1], <<q[1], i>>>>
          BY <2>1, <4>1, <4>2, TermOf
        <4> QED BY <3>3, <4>3
      <3> QED BY <2>2, <2>3, <2>4, <3>2, <3>3
    <2>5. CASE p[1] \notin Columns
      <3>1. p = <<N1, <<0, i>>>>
        BY <1>5, <2>1, <2>5
      <3>2. Adding(NumThreads, i, p) = Idle
        <4>1. \A u \in Threads: p \in Terms(u, i) => u \in Idle
          BY <1>5, <2>5
        <4>2. \A u \in Idle: u \in Threads /\ p \in Terms(u, i)
          BY <3>1 DEF Idle, Terms
        <4> QED BY <1>0, <4>1, <4>2 DEF Adding
      <3>3. products[p] = Cardinality(Idle)
        BY <1>1, <3>2
      <3>4. ASSUME NEW q \in DOMAIN products, p[1] = q[1] PROVE p = q
        <4>1. PICK u \in Threads: q \in Terms(u, i)
          BY <1>1
        <4> QED BY <1>5, <2>5, <3>1, <3>4, <4>1
      <3> QED BY <2>2, <2>3, <2>5, <3>3, <3>4
    <2> QED BY <2>4, <2>5
  <1> QED BY <1>2, <1>6

\* When the reply is sent, each of its ciphertexts has added up one product of every
\* column, no column twice, only plaintexts of its own digit, and has been transformed
\* back once, whatever order the threads took (pir, generate_reply).
THEOREM ReplyAlwaysWhole == Spec => []ReplyWhole
  <1>1. ReplyInv => ReplyWhole
    <2> SUFFICES ASSUME ReplyInv, mpc = "done", NEW i \in Digits
                 PROVE  LET products == partialResults[0][i]
                        IN /\ inverted[i] = 1
                           /\ Columns \subseteq {p[1] : p \in DOMAIN products}
                           /\ \A p \in DOMAIN products:
                                /\ p[1] \in Columns \cup {N1} /\ p[2][2] = i
                                /\ products[p] = IF p[1] \in Columns THEN 1 ELSE Cardinality(Idle)
                                /\ \A q \in DOMAIN products: p[1] = q[1] => p = q
      BY DEF ReplyWhole
    <2>1. 0 \in Threads /\ \A t \in Threads: pc[t] = "done"
      BY Sizes DEF ReplyInv, Threads
    <2>2. PICK t \in Threads: t < Ratio /\ i \in SumPart(t)
      BY DigitHasSummer
    <2>3. Finished(t, i) /\ Upto(t, i) = NumThreads
      BY <2>1 DEF Finished, Upto
    <2>4. partialResults[0][i] = Collected(i, NumThreads) /\ inverted[i] = 1
      BY <2>1, <2>2, <2>3 DEF ReplyInv, After
    <2> QED BY <2>4, CollectedWhole
  <1> QED BY <1>1, ReplyInductive, PTL

-----------------------------------------------------------------------------
(* The values of the variables. *)

Labels == {"unborn", "check", "lock", "asleep", "first", "barrier1",
           "second", "barrier2", "sum", "done"}

MainOK ==
  /\ mpc \in {"construct", "load", "expand", "joinExpand", "notify", "join", "done", "aborted"}
  /\ created \in 0 .. NumThreads
  /\ preprocessed \in BOOLEAN /\ queryNtt \in BOOLEAN /\ requestReceived \in BOOLEAN
  /\ expanding \subseteq Dimensions /\ expandedQuery \subseteq Dimensions

CountersOK ==
  /\ MainOK
  /\ pc \in [Threads -> Labels]
  /\ k \in [Threads -> 0 .. N1 + Ratio]
  /\ j \in [Threads -> 0 .. NumThreads]
  /\ arrived \in [{1, 2} -> SUBSET Threads]
  /\ intermediatePlain \in [0 .. Ratio * N1 - 1 -> Plain]

\* What the first phase stores is a plaintext of the column it computes.
LEMMA FirstPhaseStores ==
  ASSUME FirstPhaseInv, CountersOK, NEW t \in Threads, FirstPhase(t)
  PROVE  /\ k[t] + 1 \in 0 .. N1 + Ratio
         /\ intermediatePlain' \in [0 .. Ratio * N1 - 1 -> Plain]
  <1>0. /\ Ratio \in Nat \ {0} /\ N1 \in Nat \ {0} /\ Ratio * N1 \in Nat
        /\ StartId(t) \in Nat /\ EndId(t) \in Nat
    BY Sizes, Products, ColumnRange
  <1>1. EndId(t) <= N1
    BY Sizes, PartsWithin DEF Threads, EndId
  <1>2. k[t] \in StartId(t) .. EndId(t) /\ k[t] < EndId(t)
    BY DEF FirstPhase, FirstPhaseInv
  <1>3. k[t] \in Columns /\ k[t] + 1 \in 0 .. N1 + Ratio
    BY <1>0, <1>1, <1>2 DEF Columns
  <1>4. DOMAIN intermediatePlain = 0 .. Ratio * N1 - 1
    BY DEF CountersOK
  <1>5. \A s \in 0 .. Ratio * N1 - 1: s % Ratio \in Digits
    <2> TAKE s \in 0 .. Ratio * N1 - 1
    <2>1. s \in Nat
      BY <1>0
    <2> QED BY <1>0, <2>1, DivMod DEF Digits
  <1>6. intermediatePlain' = [s \in 0 .. Ratio * N1 - 1 |->
          IF s \div Ratio = k[t] THEN <<k[t], s % Ratio>> ELSE intermediatePlain[s]]
    BY <1>4 DEF FirstPhase
  <1>7. ASSUME NEW s \in 0 .. Ratio * N1 - 1
        PROVE  (IF s \div Ratio = k[t] THEN <<k[t], s % Ratio>> ELSE intermediatePlain[s]) \in Plain
    <2>1. <<k[t], s % Ratio>> \in Plain
      BY <1>3, <1>5 DEF Plain
    <2>2. intermediatePlain[s] \in Plain
      BY DEF CountersOK
    <2> QED BY <2>1, <2>2
  <1> QED BY <1>3, <1>6, <1>7

LEMMA CountersInductive == Spec => []CountersOK
  <1>0. 0 \in Threads /\ NumThreads \in Nat \ {0} /\ Ratio \in Nat \ {0} /\ N1 \in Nat \ {0}
    BY Sizes DEF Threads
  <1>1. Init => CountersOK
    <2> SUFFICES ASSUME Init PROVE CountersOK
      OBVIOUS
    <2>1. MainOK
      <3>1. created \in 0 .. NumThreads
        BY <1>0 DEF Init
      <3> QED BY <3>1, Zenon DEF Init, MainOK
    <2>2. pc \in [Threads -> Labels] /\ arrived \in [{1, 2} -> SUBSET Threads]
      BY DEF Init, Labels
    <2>3. k \in [Threads -> 0 .. N1 + Ratio] /\ j \in [Threads -> 0 .. NumThreads]
      BY <1>0 DEF Init
    <2>4. intermediatePlain \in [0 .. Ratio * N1 - 1 -> Plain]
      BY DEF Init, Plain
    <2> QED BY <2>1, <2>2, <2>3, <2>4 DEF CountersOK
  <1>2. ReadyInv /\ FirstPhaseInv /\ SumInv /\ CountersOK /\ [Next]_vars => CountersOK'
    <2> SUFFICES ASSUME ReadyInv, FirstPhaseInv, SumInv, CountersOK, [Next]_vars PROVE CountersOK'
      OBVIOUS
    <2>0. \A t \in Threads: StartId(t) \in 0 .. N1 + Ratio
      <3> TAKE t \in Threads
      <3>1. StartId(t) \in Nat /\ EndId(t) \in Nat /\ StartId(t) <= EndId(t)
        BY ColumnRange
      <3>2. EndId(t) <= N1
        BY Sizes, PartsWithin DEF Threads, EndId
      <3> QED BY <1>0, <3>1, <3>2
    <2>1. CASE CreateThread
      <3>1. MainOK'
        <4>1. created' \in 0 .. NumThreads
          BY <1>0, <2>1 DEF CreateThread, ReadyInv
        <4>2. mpc' \in {"load", mpc} /\ MainOK
              /\ UNCHANGED <<preprocessed, expanding, expandedQuery, queryNtt, requestReceived>>
          BY <2>1 DEF CreateThread, CountersOK
        <4> QED BY <4>1, <4>2 DEF MainOK
      <3>2. UNCHANGED <<k, j, arrived, dataVars>> /\ pc' = [pc EXCEPT ![created] = "check"]
        BY <2>1 DEF CreateThread
      <3>3. pc' \in [Threads -> Labels]
        BY <3>2 DEF CountersOK, Labels
      <3> QED BY <3>1, <3>2, <3>3 DEF CountersOK, dataVars
    <2>2. CASE Load \/ StartExpand \/ JoinExpand \/ Join
      <3>1. MainOK' /\ UNCHANGED <<pc, k, j, arrived, dataVars>>
        BY <2>2 DEF Load, StartExpand, JoinExpand, Join, CountersOK, MainOK
      <3> QED BY <3>1 DEF CountersOK, dataVars
    <2>3. CASE Notify
      <3>1. MainOK' /\ UNCHANGED <<k, j, arrived, dataVars>>
        BY <2>3 DEF Notify, CountersOK, MainOK
      <3>2. pc' \in [Threads -> Labels]
        BY <2>3 DEF Notify, CountersOK, Labels
      <3> QED BY <3>1, <3>2 DEF CountersOK, dataVars
    <2>4. ASSUME NEW d \in Dimensions, Expand(d) PROVE CountersOK'
      <3>1. MainOK' /\ UNCHANGED <<pc, k, j, arrived, dataVars>>
        BY <2>4 DEF Expand, CountersOK, MainOK
      <3> QED BY <3>1 DEF CountersOK, dataVars
    <2>5. ASSUME NEW t \in Threads,
                 \/ CheckRequest(t) \/ AwaitRequest(t) \/ SpuriousWakeup(t)
                 \/ PassFirstBarrier(t)
          PROVE  CountersOK'
      <3>1. UNCHANGED <<mainVars, j, arrived, dataVars>>
        BY <2>5 DEF CheckRequest, AwaitRequest, SpuriousWakeup, PassFirstBarrier
      <3>2. pc' \in [Threads -> Labels]
        BY <2>5 DEF CheckRequest, AwaitRequest, SpuriousWakeup, PassFirstBarrier, CountersOK, Labels
      <3>3. k' \in [Threads -> 0 .. N1 + Ratio]
        <4>1. k' = k \/ k' = [k EXCEPT ![t] = StartId(t)] \/ k' = [k EXCEPT ![t] = 0]
          BY <2>5 DEF CheckRequest, AwaitRequest, SpuriousWakeup, PassFirstBarrier
        <4>2. 0 \in 0 .. N1 + Ratio
          BY <1>0
        <4> QED BY <2>0, <4>1, <4>2 DEF CountersOK
      <3> QED BY <3>1, <3>2, <3>3 DEF CountersOK, MainOK, dataVars, mainVars
    <2>6. ASSUME NEW t \in Threads, FirstPhase(t) PROVE CountersOK'
      <3>1. UNCHANGED <<mainVars, pc, j, arrived>> /\ k' = [k EXCEPT ![t] = @ + 1]
        BY <2>6 DEF FirstPhase
      <3>2. k[t] + 1 \in 0 .. N1 + Ratio /\ intermediatePlain' \in [0 .. Ratio * N1 - 1 -> Plain]
        BY <2>6, FirstPhaseStores
      <3>3. k' \in [Threads -> 0 .. N1 + Ratio]
        BY <3>1, <3>2 DEF CountersOK
      <3> QED BY <3>1, <3>2, <3>3 DEF CountersOK, MainOK, mainVars
    <2>7. ASSUME NEW t \in Threads, FirstPhaseEnds(t) \/ SecondPhaseEnds(t) PROVE CountersOK'
      <3>1. UNCHANGED <<mainVars, k, j, dataVars>>
        BY <2>7 DEF FirstPhaseEnds, SecondPhaseEnds
      <3>2. pc' \in [Threads -> Labels]
        BY <2>7 DEF FirstPhaseEnds, SecondPhaseEnds, ReachBarrier, CountersOK, Labels
      <3>3. arrived' \in [{1, 2} -> SUBSET Threads]
        BY <2>7 DEF FirstPhaseEnds, SecondPhaseEnds, ReachBarrier, CountersOK
      <3> QED BY <3>1, <3>2, <3>3 DEF CountersOK, MainOK, dataVars, mainVars
    <2>8. ASSUME NEW t \in Threads, SecondPhase(t) PROVE CountersOK'
      <3>1. MainOK' /\ UNCHANGED <<pc, j, arrived, intermediatePlain>>
        BY <2>8 DEF SecondPhase, CountersOK, MainOK
      <3>2. k' \in [Threads -> 0 .. N1 + Ratio]
        <4>1. k[t] \in 0 .. N1 + Ratio
          BY DEF CountersOK
        <4>2. k[t] < Ratio => k[t] + 1 \in 0 .. N1 + Ratio
          BY <1>0, <4>1
        <4>3. k' = k \/ (k[t] < Ratio /\ k' = [k EXCEPT ![t] = @ + 1])
          BY <2>8 DEF SecondPhase
        <4> QED BY <4>2, <4>3 DEF CountersOK
      <3> QED BY <3>1, <3>2 DEF CountersOK
    <2>9. ASSUME NEW t \in Threads, PassSecondBarrier(t) PROVE CountersOK'
      <3>1. UNCHANGED <<mainVars, arrived, dataVars>>
        BY <2>9 DEF PassSecondBarrier
      <3>2. pc' \in [Threads -> Labels]
        BY <2>9 DEF PassSecondBarrier, CountersOK, Labels
      <3>3. ~(t >= Ratio) => SumStart(t) \in 0 .. N1 + Ratio
        <4>1. ~(t >= Ratio) => t < Ratio
          BY <1>0 DEF Threads
        <4>2. t < Ratio => SumStart(t) \in Digits
          BY SumRange
        <4> QED BY <1>0, <4>1, <4>2 DEF Digits
      <3>4. k' \in [Threads -> 0 .. N1 + Ratio] /\ j' \in [Threads -> 0 .. NumThreads]
        <4>1. \/ UNCHANGED <<k, j>>
              \/ /\ ~(t >= Ratio)
                 /\ k' = [k EXCEPT ![t] = SumStart(t)] /\ j' = [j EXCEPT ![t] = 1]
          BY <2>9 DEF PassSecondBarrier
        <4>2. 1 \in 0 .. NumThreads
          BY <1>0
        <4> QED BY <3>3, <4>1, <4>2 DEF CountersOK
      <3> QED BY <3>1, <3>2, <3>4 DEF CountersOK, MainOK, dataVars, mainVars
    <2>10. ASSUME NEW t \in Threads, AddPartial(t) PROVE CountersOK'
      <3>1. UNCHANGED <<mainVars, pc, k, arrived, intermediatePlain>>
        BY <2>10 DEF AddPartial
      <3>2. j' \in [Threads -> 0 .. NumThreads]
        BY <1>0, <2>10 DEF AddPartial, CountersOK
      <3> QED BY <3>1, <3>2 DEF CountersOK, MainOK, mainVars
    <2>11. ASSUME NEW t \in Threads, DigitEnds(t) PROVE CountersOK'
      <3>1. t < Ratio /\ k[t] \in SumStart(t) .. SumEnd(t) - 1
        BY <2>11 DEF DigitEnds, SumInv
      <3>2. k[t] + 1 \in 0 .. N1 + Ratio
        <4>1. k[t] \in Digits
          BY <3>1, SumRange
        <4> QED BY <1>0, <4>1 DEF Digits
      <3>3. UNCHANGED <<mainVars, arrived, intermediatePlain>>
        BY <2>11 DEF DigitEnds
      <3>4. pc' \in [Threads -> Labels]
        BY <2>11 DEF DigitEnds, CountersOK, Labels
      <3>5. k' \in [Threads -> 0 .. N1 + Ratio] /\ j' \in [Threads -> 0 .. NumThreads]
        <4>1. \/ UNCHANGED <<k, j>>
              \/ k' = [k EXCEPT ![t] = @ + 1] /\ j' = [j EXCEPT ![t] = 1]
          BY <2>11 DEF DigitEnds
        <4>2. 1 \in 0 .. NumThreads
          BY <1>0
        <4> QED BY <3>2, <4>1, <4>2 DEF CountersOK
      <3> QED BY <3>3, <3>4, <3>5 DEF CountersOK, MainOK, mainVars
    <2>12. CASE UNCHANGED vars
      BY <2>12 DEF vars, dataVars, mainVars, CountersOK, MainOK
    <2> QED BY <2>1, <2>2, <2>3, <2>4, <2>5, <2>6, <2>7, <2>8, <2>9, <2>10, <2>11, <2>12
            DEF Next, Main, Pir
  <1> QED BY <1>1, <1>2, ReadyInductive, FirstPhaseInductive, SumInductive, PTL DEF Spec

\* Every counter and every stored plaintext stays in the range its vector has in
\* pir_server.cpp: no thread writes past a column, a digit or a partial result.
THEOREM TypeCorrect == Spec => []TypeOK
  <1>1. CountersOK /\ ReplyInv => TypeOK
    <2> SUFFICES ASSUME CountersOK, ReplyInv PROVE inverted \in [Digits -> 0 .. NumThreads]
      BY DEF TypeOK, CountersOK, MainOK, Labels
    <2>1. ASSUME NEW i \in Digits PROVE inverted[i] \in 0 .. NumThreads
      <3>1. inverted[i] \in {0, 1}
        BY DigitHasSummer DEF ReplyInv
      <3> QED BY <3>1, Sizes
    <2> QED BY <2>1 DEF ReplyInv
  <1> QED BY <1>1, CountersInductive, ReplyInductive, PTL

-----------------------------------------------------------------------------
(* Powers of two *)

\* A table of the powers up to m.
Table(m, g) == g \in [0 .. m -> Nat] /\ g[0] = 1 /\ \A n \in 0 .. m - 1: g[n + 1] = 2 * g[n]

LEMMA TableExists ==
  ASSUME NEW m \in Nat
  PROVE  \E g: Table(m, g)
<1> DEFINE S == {n \in Nat: ~ \E g: Table(n, g)}
<1>1. SUFFICES ASSUME S # {} PROVE FALSE OBVIOUS
<1>2. PICK n \in S: \A x \in S: n <= x
  <2>1. S \in SUBSET Nat OBVIOUS
  <2> HIDE DEF S
  <2> QED BY <1>1, <2>1, LeastNatural
<1>3. n \in Nat /\ ~ \E g: Table(n, g) OBVIOUS
<1>4. n # 0
  <2>1. Table(0, [x \in 0 .. 0 |-> 1]) BY DEF Table
  <2> QED BY <1>3, <2>1
<1>5. n - 1 \in Nat /\ n - 1 \notin S
  <2>1. n - 1 \in Nat /\ ~ (n <= n - 1) BY <1>3, <1>4
  <2> HIDE DEF S
  <2> QED BY <1>2, <2>1
<1>6. PICK g: Table(n - 1, g) BY <1>5
<1> DEFINE h == [x \in 0 .. n |-> IF x = n THEN 2 * g[n - 1] ELSE g[x]]
<1>7. g \in [0 .. n - 1 -> Nat] /\ g[0] = 1 /\ \A x \in 0 .. n - 2: g[x + 1] = 2 * g[x]
  <2>1. (n - 1) - 1 = n - 2 BY <1>3
  <2> QED BY <1>6, <2>1 DEF Table
<1>8. \A x \in 0 .. n - 1: g[x] \in Nat /\ h[x] = g[x] BY <1>3, <1>7
<1>9. h[n] = 2 * g[n - 1] /\ n - 1 \in 0 .. n - 1 /\ 0 \in 0 .. n - 1 BY <1>3, <1>4, <1>5
<1>10. h \in [0 .. n -> Nat]
  <2>1. ASSUME NEW x \in 0 .. n PROVE h[x] \in Nat
    <3>1. x = n \/ x \in 0 .. n - 1 BY <1>3
    <3>2. g[n - 1] \in Nat BY <1>8, <1>9
    <3> HIDE DEF h
    <3> QED BY <1>8, <1>9, <3>1, <3>2
  <2> QED BY <2>1
<1>11. ASSUME NEW x \in 0 .. n - 1 PROVE h[x + 1] = 2 * h[x]
  <2>1. CASE x = n - 1
    <3>1. x + 1 = n BY <1>3, <2>1
    <3> HIDE DEF h
    <3> QED BY <1>8, <1>9, <2>1, <3>1
  <2>2. CASE x # n - 1
    <3>1. x \in 0 .. n - 2 /\ x + 1 \in 0 .. n - 1 BY <1>3, <2>2
    <3> HIDE DEF h
    <3> QED BY <1>7, <1>8, <3>1
  <2> QED BY <2>1, <2>2
<1>12. h[0] = 1
  <2> HIDE DEF h
  <2> QED BY <1>7, <1>8, <1>9
<1> HIDE DEF h
<1> QED BY <1>3, <1>10, <1>11, <1>12 DEF Table

LEMMA TablesAgree ==
  ASSUME NEW a \in Nat, NEW b \in Nat, a <= b, NEW f, Table(a, f), NEW g, Table(b, g)
  PROVE  \A n \in 0 .. a: f[n] = g[n]
<1> DEFINE S == {n \in 0 .. a: f[n] # g[n]}
<1>1. SUFFICES ASSUME S # {} PROVE FALSE OBVIOUS
<1>2. PICK n \in S: \A x \in S: n <= x
  <2>1. S \in SUBSET Nat OBVIOUS
  <2> HIDE DEF S
  <2> QED BY <1>1, <2>1, LeastNatural
<1>3. n \in 0 .. a /\ f[n] # g[n] OBVIOUS
<1>4. n # 0 BY <1>3 DEF Table
<1>5. n - 1 \in 0 .. a - 1 /\ n - 1 \in 0 .. b - 1 /\ n - 1 \in 0 .. a /\ ~ (n <= n - 1)
      /\ (n - 1) + 1 = n
  BY <1>3, <1>4
<1>6. n - 1 \notin S
  <2> HIDE DEF S
  <2> QED BY <1>2, <1>5
<1>7. f[n - 1] = g[n - 1] BY <1>5, <1>6
<1>8. f[n] = 2 * f[n - 1] /\ g[n] = 2 * g[n - 1]
  <2>1. f[(n - 1) + 1] = 2 * f[n - 1] BY <1>5 DEF Table
  <2>2. g[(n - 1) + 1] = 2 * g[n - 1] BY <1>5 DEF Table
  <2> QED BY <1>5, <2>1, <2>2
<1> QED BY <1>3, <1>7, <1>8

\* The recursive definition defines a function.
LEMMA Pow2Is ==
  Pow2 = [n \in Nat |-> IF n = 0 THEN 1 ELSE 2 * Pow2[n - 1]]
<1> DEFINE G(m) == CHOOSE g: Table(m, g)
           F == [n \in Nat |-> G(n)[n]]
<1>1. \A m \in Nat: Table(m, G(m)) BY TableExists
<1> HIDE DEF G
<1>2. F[0] = 1 BY <1>1 DEF Table
<1>3. ASSUME NEW n \in Nat, n # 0 PROVE F[n] = 2 * F[n - 1]
  <2>1. n - 1 \in Nat /\ n - 1 <= n /\ n - 1 \in 0 .. n - 1 /\ (n - 1) + 1 = n BY <1>3
  <2>2. G(n)[(n - 1) + 1] = 2 * G(n)[n - 1] BY <1>1, <2>1 DEF Table
  <2>3. G(n - 1)[n - 1] = G(n)[n - 1] BY <1>1, <2>1, TablesAgree
  <2> QED BY <2>1, <2>2, <2>3
<1>4. F = [n \in Nat |-> IF n = 0 THEN 1 ELSE 2 * F[n - 1]]
  <2>1. \A n \in Nat: F[n] = IF n = 0 THEN 1 ELSE 2 * F[n - 1] BY <1>2, <1>3
  <2>2. F = [n \in Nat |-> F[n]] OBVIOUS
  <2> HIDE DEF F
  <2> QED BY <2>1, <2>2
<1> HIDE DEF F
<1>5. \E f: f = [n \in Nat |-> IF n = 0 THEN 1 ELSE 2 * f[n - 1]] BY <1>4
<1> QED BY <1>5 DEF Pow2

LEMMA Powers ==
  /\ Pow2[0] = 1
  /\ \A n \in Nat: Pow2[n + 1] = 2 * Pow2[n]
  /\ \A n \in Nat: Pow2[n] \in Nat \ {0}
<1>1. Pow2[0] = 1 BY Pow2Is
<1>2. ASSUME NEW n \in Nat PROVE Pow2[n + 1] = 2 * Pow2[n]
  <2>1. n + 1 \in Nat /\ n + 1 # 0 /\ (n + 1) - 1 = n OBVIOUS
  <2>2. \A x \in Nat: x # 0 => Pow2[x] = 2 * Pow2[x - 1] BY Pow2Is
  <2> QED BY <2>1, <2>2
<1>3. \A n \in Nat: Pow2[n] \in Nat \ {0}
  <2> DEFINE S == {n \in Nat: Pow2[n] \notin Nat \ {0}}
  <2>1. SUFFICES ASSUME S # {} PROVE FALSE OBVIOUS
  <2>2. PICK n \in S: \A x \in S: n <= x
    <3>1. S \in SUBSET Nat OBVIOUS
    <3> HIDE DEF S
    <3> QED BY <2>1, <3>1, LeastNatural
  <2>3. n \in Nat /\ Pow2[n] \notin Nat \ {0} OBVIOUS
  <2>4. n - 1 \in Nat /\ (n - 1) + 1 = n /\ ~ (n <= n - 1) BY <1>1, <2>3
  <2>5. n - 1 \notin S
    <3> HIDE DEF S
    <3> QED BY <2>2, <2>4
  <2>6. Pow2[n - 1] \in Nat \ {0} BY <2>4, <2>5
  <2>7. Pow2[n] = 2 * Pow2[n - 1]
    <3>1. Pow2[(n - 1) + 1] = 2 * Pow2[n - 1] BY <1>2, <2>4
    <3> QED BY <2>4, <3>1
  <2> QED BY <2>3, <2>6, <2>7
<1> QED BY <1>1, <1>2, <1>3

LEMMA PowerSum ==
  \A a, b \in Nat: Pow2[a + b] = Pow2[a] * Pow2[b]
<1> SUFFICES ASSUME NEW a \in Nat PROVE \A b \in Nat: Pow2[a + b] = Pow2[a] * Pow2[b]
  OBVIOUS
<1> DEFINE S == {b \in Nat: Pow2[a + b] # Pow2[a] * Pow2[b]}
<1>1. SUFFICES ASSUME S # {} PROVE FALSE OBVIOUS
<1>2. PICK n \in S: \A x \in S: n <= x
  <2>1. S \in SUBSET Nat OBVIOUS
  <2> HIDE DEF S
  <2> QED BY <1>1, <2>1, LeastNatural
<1>3. n \in Nat /\ Pow2[a + n] # Pow2[a] * Pow2[n] OBVIOUS
<1>4. n # 0
  <2>1. a + 0 = a /\ Pow2[a] * 1 = Pow2[a] BY Powers
  <2> QED BY <1>3, <2>1, Powers
<1>5. n - 1 \in Nat /\ (n - 1) + 1 = n /\ ~ (n <= n - 1) /\ a + (n - 1) \in Nat
      /\ (a + (n - 1)) + 1 = a + n
  BY <1>3, <1>4
<1>6. n - 1 \notin S
  <2> HIDE DEF S
  <2> QED BY <1>2, <1>5
<1> DEFINE p == Pow2[a]
           q == Pow2[n - 1]
<1>7. Pow2[a + (n - 1)] = p * q BY <1>5, <1>6
<1>8. Pow2[a + n] = 2 * (p * q)
  <2>1. Pow2[(a + (n - 1)) + 1] = 2 * Pow2[a + (n - 1)] BY <1>5, Powers
  <2> QED BY <1>5, <1>7, <2>1
<1>9. Pow2[n] = 2 * q
  <2>1. Pow2[(n - 1) + 1] = 2 * Pow2[n - 1] BY <1>5, Powers
  <2> QED BY <1>5, <2>1
<1>10. p \in Nat /\ q \in Nat BY <1>5, Powers
<1>11. p * (2 * q) = 2 * (p * q)
  <2> HIDE DEF p, q
  <2> QED BY <1>10
<1> QED BY <1>3, <1>8, <1>9, <1>11

LEMMA PowerDivides ==
  ASSUME NEW a \in Nat, NEW b \in Nat, a <= b
  PROVE  /\ \E m \in Nat \ {0}: Pow2[b] = m * Pow2[a]
         /\ Pow2[a] <= Pow2[b]
         /\ a < b => 2 * Pow2[a] <= Pow2[b]
<1>1. b - a \in Nat /\ a + (b - a) = b OBVIOUS
<1>2. Pow2[b] = Pow2[a] * Pow2[b - a] BY <1>1, PowerSum
<1> DEFINE p == Pow2[a]
           m == Pow2[b - a]
<1>3. p \in Nat \ {0} /\ m \in Nat \ {0} BY <1>1, Powers
<1>4. a < b => m >= 2
  <2> SUFFICES ASSUME a < b PROVE m >= 2 OBVIOUS
  <2>1. b - a - 1 \in Nat /\ (b - a - 1) + 1 = b - a OBVIOUS
  <2>2. Pow2[(b - a - 1) + 1] = 2 * Pow2[b - a - 1] /\ Pow2[b - a - 1] \in Nat \ {0}
    BY <2>1, Powers
  <2> QED BY <2>1, <2>2
<1>5. Pow2[b] = p * m BY <1>2
<1> HIDE DEF p, m
<1>6. p * m = m * p /\ p <= p * m BY <1>3
<1>7. m >= 2 => 2 * p <= p * m BY <1>3
<1> QED BY <1>3, <1>4, <1>5, <1>6, <1>7 DEF p

\* N and the modulus are what they are in the code.
LEMMA QuerySizes ==
  /\ LogN \in Nat \ {0} /\ N \in Nat \ {0} /\ N = Pow2[LogN] /\ N >= 2
  /\ LogT \in Nat \ {0} /\ Modulus \in Nat \ {0} /\ Modulus >= 3
  /\ PerPtxt \in Nat \ {0}
<1>1. LogN \in Nat \ {0} /\ N = Pow2[LogN] /\ LogT \in Nat \ {0}
  BY DegreeAssumption, LogTAssumption
<1>2. \A l \in Nat \ {0}: Pow2[l] \in Nat /\ Pow2[l] >= 2
  <2> SUFFICES ASSUME NEW l \in Nat \ {0} PROVE Pow2[l] \in Nat /\ Pow2[l] >= 2 OBVIOUS
  <2>1. Pow2[0] = 1 /\ 0 < l /\ l \in Nat /\ Pow2[l] \in Nat BY Powers
  <2>2. 2 * Pow2[0] <= Pow2[l] BY <2>1, PowerDivides
  <2> QED BY <2>1, <2>2
<1>3. N \in Nat \ {0} /\ N >= 2 BY <1>1, <1>2
<1>4. Modulus \in Nat \ {0} /\ Modulus >= 3 BY <1>1, <1>2 DEF Modulus
<1>5. PerPtxt \in Nat \ {0}
  <2> DEFINE n == 8 * EleSize + LogT - 1
             c == n \div LogT
  <2>1. EleSize \in Nat \ {0} /\ n \in Nat BY <1>1, CountsAssumption
  <2> HIDE DEF n
  <2>2. c \in Nat /\ n = (LogT * c) + (n % LogT) /\ n % LogT \in 0 .. LogT - 1
    BY <1>1, <2>1, DivMod
  <2>3. c # 0
    <3>1. n >= LogT BY <1>1, <2>1 DEF n
    <3>2. c = 0 => LogT * c = 0 BY <1>1
    <3> HIDE DEF c
    <3> QED BY <1>1, <2>1, <2>2, <3>1, <3>2
  <2>4. PerPtxt = N \div c BY DEF PerPtxt, CoefficientsPerElement, CeilDiv, c, n
  <2> HIDE DEF c
  <2>5. PerPtxt \in Nat BY <1>3, <2>2, <2>3, <2>4, DivMod
  <2> QED BY <2>5, SizeAssumption
<1> QED BY <1>1, <1>3, <1>4, <1>5

-----------------------------------------------------------------------------
(* The layout of the database *)

LEMMA CeilLogIs ==
  ASSUME NEW m \in Nat, m <= N
  PROVE  /\ CeilLog(m) \in 0 .. LogN
         /\ Pow2[CeilLog(m)] >= m
         /\ \A s \in 0 .. CeilLog(m) - 1: Pow2[s] < m
<1> DEFINE S == {l \in Nat: Pow2[l] >= m}
<1>1. LogN \in S BY QuerySizes
<1>2. PICK l \in S: \A x \in S: l <= x
  <2>1. S \in SUBSET Nat OBVIOUS
  <2> HIDE DEF S
  <2> QED BY <1>1, <2>1, LeastNatural
<1>3. l \in 0 .. LogN
  <2>1. l \in Nat OBVIOUS
  <2>2. l <= LogN
    <3> HIDE DEF S
    <3> QED BY <1>1, <1>2
  <2> QED BY <2>1, <2>2, QuerySizes
<1>4. \A s \in 0 .. l - 1: Pow2[s] < m
  <2> SUFFICES ASSUME NEW s \in 0 .. l - 1 PROVE Pow2[s] < m OBVIOUS
  <2>1. s \in Nat /\ ~ (l <= s) /\ Pow2[s] \in Nat BY <1>3, Powers
  <2>2. s \notin S
    <3> HIDE DEF S
    <3> QED BY <1>2, <2>1
  <2> QED BY <2>1, <2>2
<1>5. \E x \in 0 .. LogN: Pow2[x] >= m /\ \A s \in 0 .. x - 1: Pow2[s] < m
  BY <1>3, <1>4
<1> QED BY <1>5 DEF CeilLog

\* floor(sqrt(n)), at least 2, is a number whose successor's square is above n.
LEMMA SideIs ==
  ASSUME NEW n \in Nat \ {0}
  PROVE  Side(n) \in Nat /\ Side(n) >= 2 /\ n < (Side(n) + 1) * (Side(n) + 1)
<1> DEFINE S == {r \in Nat: n < (r + 1) * (r + 1)}
           Root(r) == r * r <= n /\ n < (r + 1) * (r + 1)
<1>1. n \in S
  <2>1. (n + 1) * (n + 1) = (n * n) + (2 * n) + 1 /\ n * n \in Nat OBVIOUS
  <2> QED BY <2>1
<1>2. PICK r \in S: \A x \in S: r <= x
  <2>1. S \in SUBSET Nat OBVIOUS
  <2> HIDE DEF S
  <2> QED BY <1>1, <2>1, LeastNatural
<1>3. r \in Nat /\ n < (r + 1) * (r + 1) OBVIOUS
<1>4. r * r <= n
  <2>1. CASE r = 0 BY <2>1
  <2>2. CASE r # 0
    <3>1. r - 1 \in Nat /\ ~ (r <= r - 1) /\ (r - 1) + 1 = r BY <1>3, <2>2
    <3>2. r - 1 \notin S
      <4> HIDE DEF S
      <4> QED BY <1>2, <3>1
    <3>3. ~ (n < r * r) BY <3>1, <3>2
    <3>4. r * r \in Nat BY <1>3
    <3> QED BY <3>3, <3>4
  <2> QED BY <2>1, <2>2
<1>5. r \in 0 .. n
  <2>1. r <= r * r
    <3> HIDE DEF S
    <3> QED BY <1>3
  <2>2. r * r \in Nat BY <1>3
  <2> QED BY <1>3, <1>4, <2>1, <2>2
<1>6. \E x \in 0 .. n: Root(x) BY <1>3, <1>4, <1>5
<1> DEFINE c == CHOOSE x \in 0 .. n: Root(x)
<1>7. c \in 0 .. n /\ Root(c) BY <1>6
<1>8. Side(n) = IF c < 2 THEN 2 ELSE c BY DEF Side
<1>9. c \in Nat /\ n < (c + 1) * (c + 1) BY <1>7
<1> HIDE DEF c, Root
<1>10. CASE c < 2
  <2>1. c = 0 \/ c = 1 BY <1>9, <1>10
  <2>2. n < 4 BY <1>9, <2>1
  <2> QED BY <1>8, <1>10, <2>2
<1>11. CASE ~ (c < 2) BY <1>8, <1>9, <1>11
<1> QED BY <1>10, <1>11

\* The dimensions are at least 2 and have room for all plaintexts.
LEMMA DimensionsFit ==
  ASSUME NEW n \in Nat \ {0}
  PROVE  LET dims == GetDimensions(n)
         IN /\ dims = <<dims[1], dims[2]>>
            /\ dims[1] \in Nat /\ dims[1] >= 2 /\ dims[2] \in Nat /\ dims[2] >= 2
            /\ n <= dims[1] * dims[2]
<1> DEFINE s == Side(n)
<1>1. s \in Nat /\ s >= 2 /\ n < (s + 1) * (s + 1) BY SideIs
<1>2. GetDimensions(n) =
        IF s * s = n \/ n = 1 THEN <<s, s>>
        ELSE <<s + 1, IF (s + 1) * s >= n THEN s ELSE s + 1>>
  BY DEF GetDimensions
<1> HIDE DEF s
<1>3. CASE s * s = n \/ n = 1
  <2>1. s * s \in Nat /\ s * s >= 1 BY <1>1
  <2> QED BY <1>1, <1>2, <1>3, <2>1
<1>4. CASE ~ (s * s = n \/ n = 1)
  <2>1. CASE (s + 1) * s >= n
    <3>1. (s + 1) * s \in Nat BY <1>1
    <3> QED BY <1>1, <1>2, <1>4, <2>1, <3>1
  <2>2. CASE ~ ((s + 1) * s >= n)
    <3>1. GetDimensions(n) = <<s + 1, s + 1>> BY <1>2, <1>4, <2>2
    <3>2. (s + 1) * (s + 1) \in Nat BY <1>1
    <3> QED BY <1>1, <3>1, <3>2
  <2> QED BY <2>1, <2>2
<1> QED BY <1>3, <1>4

\* Where an element lies: in one of the plaintexts.
LEMMA PlaintextOf ==
  ASSUME NEW n \in Nat \ {0}
  PROVE  /\ PlaintextsPerDb(n) \in Nat \ {0}
         /\ \A e \in 0 .. n - 1: e \div PerPtxt \in 0 .. PlaintextsPerDb(n) - 1
<1> DEFINE p == PerPtxt
           a == n + p - 1
           c == a \div p
           r == a % p
<1>1. p \in Nat \ {0} /\ a \in Nat /\ a >= p BY QuerySizes
<1>2. PlaintextsPerDb(n) = c BY DEF PlaintextsPerDb, CeilDiv
<1>3. c \in Nat /\ r \in 0 .. p - 1 /\ a = p * c + r
  <2> HIDE DEF a, p
  <2> QED BY <1>1, DivMod
<1>4. c # 0
  <2>1. c = 0 => p * c = 0 BY <1>1
  <2> HIDE DEF a, p, c, r
  <2> QED BY <1>1, <1>3, <2>1
<1>5. ASSUME NEW e \in 0 .. n - 1 PROVE e \div p \in 0 .. c - 1
  <2> DEFINE q == e \div p
             s == e % p
  <2>1. q \in Nat /\ s \in 0 .. p - 1 /\ e = p * q + s /\ e \in Nat /\ e < n
    <3>1. e \in Nat /\ e < n OBVIOUS
    <3> HIDE DEF p
    <3> QED BY <1>1, <3>1, DivMod
  <2>2. CASE q >= c
    <3>1. PICK d \in Nat: q = c + d
      <4>1. q - c \in Nat /\ q = c + (q - c) BY <1>3, <2>1, <2>2
      <4> QED BY <4>1
    <3>2. p * q = p * c + p * d /\ p * d \in Nat /\ p * c \in Nat BY <1>1, <1>3, <3>1
    <3>3. n = a - p + 1 BY <1>1
    <3> HIDE DEF p, a, c, r, q, s
    <3> QED BY <1>1, <1>3, <2>1, <3>2, <3>3
  <2>3. CASE ~ (q >= c)
    <3>1. q \in Nat /\ c \in Nat BY <1>3, <2>1
    <3>2. q \in 0 .. c - 1
      <4> HIDE DEF q, c
      <4> QED BY <2>3, <3>1
    <3> QED BY <3>2
  <2> QED BY <2>2, <2>3
<1> HIDE DEF c
<1> QED BY <1>2, <1>3, <1>4, <1>5

\* What the two buckets, their dimensions and the wanted elements are.
Buckets ==
  /\ elements \in Counts
  /\ wanted \in (0 .. elements - 1) \X (0 .. elements - 1)
  /\ nvec = GetDimensions(PlaintextsPerDb(elements))
  /\ numThread \in ThreadCounts

LEMMA BucketsAre ==
  ASSUME Buckets
  PROVE  /\ elements \in Nat \ {0}
         /\ nvec = <<nvec[1], nvec[2]>>
         /\ \A d \in Dims: nvec[d] \in Nat /\ nvec[d] >= 2 /\ nvec[d] <= N
         /\ PlaintextsPerDb(elements) \in Nat \ {0}
         /\ PlaintextsPerDb(elements) <= nvec[1] * nvec[2]
         /\ \A b \in {1, 2}: wanted[b] \div PerPtxt \in 0 .. PlaintextsPerDb(elements) - 1
<1>1. elements \in Nat \ {0} BY CountsAssumption DEF Buckets
<1>2. PlaintextsPerDb(elements) \in Nat \ {0} BY <1>1, PlaintextOf
<1>3. /\ nvec = <<nvec[1], nvec[2]>>
      /\ nvec[1] \in Nat /\ nvec[1] >= 2 /\ nvec[2] \in Nat /\ nvec[2] >= 2
      /\ PlaintextsPerDb(elements) <= nvec[1] * nvec[2]
  BY <1>2, DimensionsFit DEF Buckets
<1>4. \A d \in {1, 2}: nvec[d] <= N BY OneCiphertextAssumption DEF Buckets
<1>5. ASSUME NEW b \in {1, 2}
      PROVE  wanted[b] \div PerPtxt \in 0 .. PlaintextsPerDb(elements) - 1
  <2>1. wanted[b] \in 0 .. elements - 1 BY DEF Buckets
  <2> QED BY <1>1, <2>1, PlaintextOf
<1> QED BY <1>1, <1>2, <1>3, <1>4, <1>5 DEF Dims

\* The indices of a plaintext are its row and its column in the matrix of the dimensions.
LEMMA IndicesOf ==
  ASSUME Buckets, NEW i \in Nat, i < nvec[1] * nvec[2]
  PROVE  /\ ComputeIndices(i) = <<i \div nvec[2], i % nvec[2]>>
         /\ i \div nvec[2] \in 0 .. nvec[1] - 1 /\ i % nvec[2] \in 0 .. nvec[2] - 1
         /\ i = nvec[2] * (i \div nvec[2]) + (i % nvec[2])
<1> DEFINE m == nvec[1]
           n == nvec[2]
           q == i \div n
           r == i % n
<1>1. m \in Nat \ {0} /\ n \in Nat \ {0} /\ i < m * n BY BucketsAre DEF Dims
<1>2. q \in Nat /\ r \in 0 .. n - 1 /\ i = n * q + r
  <2> HIDE DEF n
  <2> QED BY <1>1, DivMod
<1>3. q < m
  <2>1. CASE q >= m
    <3>1. PICK d \in Nat: q = m + d
      <4>1. q - m \in Nat /\ q = m + (q - m) BY <1>1, <1>2, <2>1
      <4> QED BY <4>1
    <3>2. n * q = m * n + n * d /\ n * d \in Nat /\ m * n \in Nat BY <1>1, <3>1
    <3> HIDE DEF m, n, q, r
    <3> QED BY <1>1, <1>2, <3>2
  <2>2. CASE ~ (q >= m)
    <3> HIDE DEF m, q
    <3> QED BY <1>1, <1>2, <2>2
  <2> QED BY <2>1, <2>2
<1>4. i - q * n = r
  <2>1. q * n = n * q /\ n * q \in Nat
    <3>1. q \in Nat /\ n \in Nat BY <1>1, <1>2
    <3> HIDE DEF n, q
    <3> QED BY <3>1, Products
  <2> HIDE DEF n, q, r
  <2> QED BY <1>2, <2>1
<1>5. ComputeIndices(i) = <<q, r>> BY <1>4 DEF ComputeIndices
<1>6. q \in 0 .. m - 1
  <2> HIDE DEF m, q
  <2> QED BY <1>1, <1>2, <1>3
<1> QED BY <1>2, <1>5, <1>6

LEMMA Addressed ==
  Buckets => PlaintextsAddressed
<1> SUFFICES ASSUME Buckets PROVE PlaintextsAddressed
  OBVIOUS
<1> DEFINE n == PlaintextsPerDb(elements)
           P == 0 .. n - 1
           T == {ComputeIndices(i) : i \in P}
           f == [i \in P |-> ComputeIndices(i)]
<1>1. n \in Nat \ {0} /\ n <= nvec[1] * nvec[2] /\ nvec[1] * nvec[2] \in Nat
  BY BucketsAre DEF Dims
<1>2. \A i \in P: i \in Nat /\ i < nvec[1] * nvec[2]
  <2> HIDE DEF n
  <2> QED BY <1>1
<1>3. \A i \in P, d \in Dims: ComputeIndices(i)[d] \in 0 .. nvec[d] - 1
  BY <1>2, IndicesOf DEF Dims
<1>4. ASSUME NEW i \in P, NEW other \in P, ComputeIndices(i) = ComputeIndices(other) PROVE i = other
  <2>1. i \div nvec[2] = other \div nvec[2] /\ i % nvec[2] = other % nvec[2]
    BY <1>2, <1>4, IndicesOf
  <2>2. /\ i = nvec[2] * (i \div nvec[2]) + (i % nvec[2])
        /\ other = nvec[2] * (other \div nvec[2]) + (other % nvec[2])
    BY <1>2, IndicesOf
  <2> QED BY <2>1, <2>2
<1>5. IsFiniteSet(P) /\ Cardinality(P) = n
  <2>1. 0 \in Int /\ n - 1 \in Int /\ ~ (0 > n - 1) /\ (n - 1) - 0 + 1 = n
    <3> HIDE DEF n
    <3> QED BY <1>1
  <2>2. IsFiniteSet(0 .. n - 1) /\ Cardinality(0 .. n - 1) = (n - 1) - 0 + 1
    <3> HIDE DEF n
    <3> QED BY <2>1, FS_Interval
  <2> QED BY <2>1, <2>2
<1>6. f \in Surjection(P, T) /\ f \in Injection(P, T)
  <2>1. f \in [P -> T] OBVIOUS
  <2>2. \A x \in T: \E i \in P: f[i] = x OBVIOUS
  <2>3. \A i, other \in P: f[i] = f[other] => i = other BY <1>4
  <2> HIDE DEF P, T, f
  <2> QED BY <2>1, <2>2, <2>3 DEF Surjection, Injection, IsInjective
<1>7. Cardinality(T) = n
  <2> HIDE DEF P, T, f
  <2> QED BY <1>5, <1>6, FS_Surjection
<1> QED BY <1>3, <1>7 DEF PlaintextsAddressed

-----------------------------------------------------------------------------
(* Arithmetic modulo the modulus *)

\* The remainder of a multiple and a number is that of the number.
LEMMA RestOf ==
  ASSUME NEW m \in Nat \ {0}, NEW times \in Nat, NEW y \in Nat
  PROVE  (m * times + y) % m = y % m
<1> DEFINE q == y \div m
           r == y % m
<1>1. q \in Nat /\ r \in 0 .. m - 1 /\ y = m * q + r BY DivMod
<1> HIDE DEF q, r
<1>2. m * times + y = (times + q) * m + r
  <2>1. (times + q) * m = times * m + q * m /\ times * m = m * times /\ q * m = m * q BY <1>1, Products
  <2>2. m * times \in Nat /\ m * q \in Nat BY <1>1
  <2> QED BY <1>1, <2>1, <2>2
<1>3. times + q \in Nat BY <1>1
<1>4. ((times + q) * m + r) % m = r BY <1>1, <1>3, DivUnique
<1> QED BY <1>2, <1>4 DEF r

\* A factor can be reduced before the product is.
LEMMA RestProduct ==
  ASSUME NEW m \in Nat \ {0}, NEW s \in Nat, NEW x \in Nat
  PROVE  (s * (x % m)) % m = (s * x) % m /\ s * (x % m) \in Nat
<1> DEFINE q == x \div m
           r == x % m
<1>1. q \in Nat /\ r \in Nat /\ x = m * q + r BY DivMod
<1> HIDE DEF q, r
<1>2. s * x = m * (s * q) + s * r /\ s * q \in Nat /\ s * r \in Nat BY <1>1
<1>3. (m * (s * q) + s * r) % m = (s * r) % m BY <1>2, RestOf
<1> QED BY <1>2, <1>3 DEF r

\* The opposite of a coefficient.
Minus(c) == (Modulus - c) % Modulus

LEMMA Opposite ==
  ASSUME NEW c \in 0 .. Modulus - 1
  PROVE  /\ Minus(c) \in 0 .. Modulus - 1
         /\ Minus(c) = IF c = 0 THEN 0 ELSE Modulus - c
         /\ Minus(Minus(c)) = c
         /\ (c + Minus(c)) % Modulus = 0
<1> DEFINE m == Modulus
<1>1. m \in Nat \ {0} /\ m >= 3 BY QuerySizes
<1>2. \A x \in 0 .. m - 1: x % m = x
  <2> HIDE DEF m
  <2> QED BY <1>1
<1>3. m % m = 0
  <2> HIDE DEF m
  <2> QED BY <1>1
<1>4. \A x \in 0 .. m - 1: Minus(x) = IF x = 0 THEN 0 ELSE m - x
  <2> SUFFICES ASSUME NEW x \in 0 .. m - 1
               PROVE Minus(x) = IF x = 0 THEN 0 ELSE m - x
    OBVIOUS
  <2>1. Minus(x) = (m - x) % m BY DEF Minus
  <2>2. x = 0 => m - x = m
    <3> HIDE DEF m
    <3> QED BY <1>1
  <2>3. x # 0 => m - x \in 0 .. m - 1
    <3> HIDE DEF m
    <3> QED BY <1>1
  <2> HIDE DEF m
  <2> QED BY <1>2, <1>3, <2>1, <2>2, <2>3
<1>5. c \in 0 .. m - 1 OBVIOUS
<1>6. Minus(c) \in 0 .. m - 1 /\ Minus(Minus(c)) = c
  <2>1. CASE c = 0 BY <1>4, <1>5, <2>1
  <2>2. CASE c # 0
    <3>1. Minus(c) = m - c BY <1>4, <1>5, <2>2
    <3>2. m - c \in 0 .. m - 1 /\ m - c # 0 /\ m - (m - c) = c
      <4> HIDE DEF m
      <4> QED BY <1>1, <1>5, <2>2
    <3>3. Minus(m - c) = m - (m - c)
      <4> HIDE DEF m
      <4> QED BY <1>4, <3>2
    <3> HIDE DEF m
    <3> QED BY <3>1, <3>2, <3>3
  <2> QED BY <2>1, <2>2
<1>7. (c + Minus(c)) % m = 0
  <2>1. c + Minus(c) = 0 \/ c + Minus(c) = m
    <3> HIDE DEF m
    <3> QED BY <1>1, <1>4, <1>5
  <2>2. 0 % m = 0
    <3> HIDE DEF m
    <3> QED BY <1>1
  <2> QED BY <1>3, <2>1, <2>2
<1> QED BY <1>4, <1>5, <1>6, <1>7

\* 2^LogT is -1, so its powers are 1 and -1 in turns.
LEMMA TurnsOf ==
  ASSUME NEW a \in Nat
  PROVE  \E times \in Nat: Pow2[a * LogT] = Modulus * times + (IF a % 2 = 0 THEN 1 ELSE Modulus - 1)
<1> DEFINE Good(n) == \E times \in Nat: Pow2[n * LogT] = Modulus * times + (IF n % 2 = 0 THEN 1 ELSE Modulus - 1)
           S == {n \in Nat: ~ Good(n)}
           T == Pow2[LogT]
<1>0. T \in Nat \ {0} /\ LogT \in Nat \ {0} /\ Modulus = T + 1 /\ Modulus \in Nat \ {0}
  BY QuerySizes, Powers DEF Modulus
<1>1. SUFFICES ASSUME S # {} PROVE FALSE OBVIOUS
<1>2. PICK n \in S: \A x \in S: n <= x
  <2>1. S \in SUBSET Nat OBVIOUS
  <2> HIDE DEF S
  <2> QED BY <1>1, <2>1, LeastNatural
<1>3. n \in Nat /\ ~ Good(n) OBVIOUS
<1>4. n # 0
  <2>1. 0 * LogT = 0 /\ Pow2[0] = 1 /\ 0 % 2 = 0 /\ Modulus * 0 + 1 = 1 BY <1>0, Powers
  <2>2. Good(0) BY <2>1
  <2> HIDE DEF Good
  <2> QED BY <1>3, <2>2
<1>5. n - 1 \in Nat /\ (n - 1) + 1 = n /\ ~ (n <= n - 1) BY <1>3, <1>4
<1>6. n - 1 \notin S
  <2> HIDE DEF S
  <2> QED BY <1>2, <1>5
<1>7. PICK times \in Nat: Pow2[(n - 1) * LogT] = Modulus * times + (IF (n - 1) % 2 = 0 THEN 1 ELSE Modulus - 1)
  BY <1>5, <1>6
<1>8. Pow2[n * LogT] = Pow2[(n - 1) * LogT] * T
  <2>1. n * LogT = (n - 1) * LogT + LogT /\ (n - 1) * LogT \in Nat /\ LogT \in Nat
    <3> HIDE DEF S, Good, T
    <3> QED BY <1>0, <1>3, <1>5
  <2> QED BY <2>1, PowerSum
<1>9. CASE (n - 1) % 2 = 0
  <2>1. n % 2 = 1
    <3> HIDE DEF S, Good, T
    <3> QED BY <1>5, <1>9
  <2>2. (Modulus * times + 1) * T = Modulus * (times * T) + (Modulus - 1) /\ times * T \in Nat
    <3> HIDE DEF T
    <3> QED BY <1>0
  <2>3. Pow2[n * LogT] = Modulus * (times * T) + (Modulus - 1) BY <1>7, <1>8, <1>9, <2>2
  <2>4. Good(n) BY <2>1, <2>2, <2>3
  <2> HIDE DEF Good
  <2> QED BY <1>3, <2>4
<1>10. CASE (n - 1) % 2 # 0
  <2>1. n % 2 = 0
    <3> HIDE DEF S, Good, T
    <3> QED BY <1>5, <1>10
  <2>2. (Modulus * times + (Modulus - 1)) * T = Modulus * (times * T + (T - 1)) + 1 /\ times * T + (T - 1) \in Nat
    <3>1. times * T \in Nat /\ T - 1 \in Nat /\ Modulus * times = times * T + times
      <4> HIDE DEF T
      <4> QED BY <1>0
    <3>2. (Modulus * times) * T = Modulus * (times * T)
      <4> HIDE DEF T
      <4> QED BY <1>0
    <3>3. (Modulus - 1) * T = Modulus * (T - 1) + 1
      <4> HIDE DEF T
      <4> QED BY <1>0
    <3> HIDE DEF T
    <3> QED BY <1>0, <3>1, <3>2, <3>3
  <2>3. Pow2[n * LogT] = Modulus * (times * T + (T - 1)) + 1 BY <1>7, <1>8, <1>10, <2>2
  <2>4. Good(n) BY <2>1, <2>2, <2>3
  <2> HIDE DEF Good
  <2> QED BY <1>3, <2>4
<1> QED BY <1>9, <1>10

\* The factor of a dimension and its inverse, whatever its logarithm is.
LEMMA InverseOf ==
  ASSUME NEW l \in Nat
  PROVE  LET power == Pow2[LogT - (l % LogT)]
             inverse == IF ((l \div LogT) + 1) % 2 # 0 THEN Modulus - power ELSE power
         IN inverse \in 1 .. Modulus - 1 /\ (inverse * Pow2[l]) % Modulus = 1
<1> DEFINE a == l \div LogT
           b == l % LogT
           M == Modulus
           T == Pow2[LogT]
           power == Pow2[LogT - b]
           inverse == IF (a + 1) % 2 # 0 THEN M - power ELSE power
           low == Pow2[b]
           high == Pow2[a * LogT]
<1>0. LogT \in Nat \ {0} /\ T \in Nat \ {0} /\ T >= 2 /\ M = T + 1
  BY QuerySizes, Powers DEF Modulus
<1>1. a \in Nat /\ b \in 0 .. LogT - 1 /\ l = LogT * a + b BY <1>0, DivMod
<1>2. b \in Nat /\ LogT - b \in Nat /\ LogT - b <= LogT /\ (LogT - b) + b = LogT
  <2> HIDE DEF a, b
  <2> QED BY <1>0, <1>1
<1>3. power \in Nat \ {0} /\ low \in Nat \ {0} BY <1>2, Powers
<1>4. power <= T BY <1>0, <1>2, PowerDivides
<1>5. power * low = T
  <2>1. Pow2[(LogT - b) + b] = power * low BY <1>2, PowerSum
  <2> QED BY <1>2, <2>1
<1>6. Pow2[l] = high * low
  <2>1. l = a * LogT + b /\ a * LogT \in Nat
    <3> HIDE DEF a, b
    <3> QED BY <1>0, <1>1, <1>2
  <2>2. Pow2[a * LogT + b] = high * low BY <1>2, <2>1, PowerSum
  <2> QED BY <2>1, <2>2
<1>7. PICK times \in Nat: high = M * times + (IF a % 2 = 0 THEN 1 ELSE M - 1)
  BY <1>1, TurnsOf
<1>8. inverse \in 1 .. M - 1
  <2> HIDE DEF M, T, power, a
  <2> QED BY <1>0, <1>3, <1>4
<1>9. M \in Nat \ {0} /\ 1 \in 0 .. M - 1
  <2> HIDE DEF M, T
  <2> QED BY <1>0
<1>10. 1 % M = 1
  <2> HIDE DEF M
  <2> QED BY <1>9
<1>11. \E x \in Nat: inverse * Pow2[l] = M * x + 1
  <2>1. CASE a % 2 = 0
    <3>1. (a + 1) % 2 # 0
      <4> HIDE DEF a
      <4> QED BY <1>1, <2>1
    <3>2. inverse = M - power /\ high = M * times + 1 BY <1>7, <2>1, <3>1
    <3>3. (M - power) * low = M * (low - 1) + 1 /\ low - 1 \in Nat
      <4>1. (M - power) * low = M * low - power * low /\ M * low = M * (low - 1) + M
        <5> HIDE DEF M, power, low
        <5> QED BY <1>3, <1>9
      <4>2. low - 1 \in Nat /\ M * (low - 1) \in Nat
        <5>1. low - 1 \in Nat
          <6> HIDE DEF low
          <6> QED BY <1>3
        <5> HIDE DEF low, M
        <5> QED BY <1>9, <5>1
      <4> HIDE DEF M, power, low, T
      <4> QED BY <1>0, <1>5, <1>9, <4>1, <4>2
    <3> DEFINE y == low - 1
    <3>4. (M - power) * (high * low) = (M * y + 1) * (M * times + 1)
      <4>1. M - power \in Nat /\ high \in Nat
        <5>1. high \in Nat
          <6> HIDE DEF high, M
          <6> QED BY <1>9, <3>2
        <5> HIDE DEF M, power, T, high
        <5> QED BY <1>0, <1>3, <1>4, <5>1
      <4>2. (M - power) * (high * low) = ((M - power) * low) * high
        <5> DEFINE z == M - power
        <5>1. z \in Nat BY <4>1
        <5> HIDE DEF z, high, low
        <5>2. z * (high * low) = (z * low) * high BY <1>3, <4>1, <5>1
        <5> QED BY <5>2 DEF z
      <4> QED BY <3>2, <3>3, <4>2
    <3>5. (M * y + 1) * (M * times + 1) = M * (y * (M * times + 1) + times) + 1 /\ y * (M * times + 1) + times \in Nat
      <4>1. y \in Nat BY <3>3
      <4>2. M * times + 1 \in Nat /\ (M * y) * (M * times + 1) = M * (y * (M * times + 1)) /\ y * (M * times + 1) \in Nat
        <5> HIDE DEF M, y
        <5> QED BY <1>9, <4>1
      <4>3. (M * y + 1) * (M * times + 1) = (M * y) * (M * times + 1) + (M * times + 1)
        <5> HIDE DEF M, y
        <5> QED BY <1>9, <4>1
      <4>4. M * (y * (M * times + 1) + times) = M * (y * (M * times + 1)) + M * times /\ M * (y * (M * times + 1)) \in Nat
             /\ M * times \in Nat
        <5> HIDE DEF M, y
        <5> QED BY <1>9, <4>1, <4>2
      <4> HIDE DEF M, y
      <4> QED BY <4>2, <4>3, <4>4
    <3> QED BY <1>6, <3>2, <3>4, <3>5
  <2>2. CASE a % 2 # 0
    <3>1. (a + 1) % 2 = 0
      <4> HIDE DEF a
      <4> QED BY <1>1, <2>2
    <3>2. inverse = power /\ high = M * times + T
      <4>1. M - 1 = T
        <5> HIDE DEF M, T
        <5> QED BY <1>0
      <4> QED BY <1>7, <2>2, <3>1, <4>1
    <3>3. power * (high * low) = T * high
      <4>1. high \in Nat
        <5> HIDE DEF high, M, T
        <5> QED BY <1>0, <1>9, <3>2
      <4>2. power * (high * low) = (power * low) * high
        <5> HIDE DEF high, power, low
        <5> QED BY <1>3, <4>1
      <4> QED BY <1>5, <4>2
    <3>4. T * (M * times + T) = M * (T * times + (T - 1)) + 1 /\ T * times + (T - 1) \in Nat
      <4>1. T * times \in Nat /\ T - 1 \in Nat /\ T * (M * times + T) = T * (M * times) + T * T
        <5> HIDE DEF M, T
        <5> QED BY <1>0, <1>9
      <4>2. T * (M * times) = M * (T * times) /\ M * (T * times) \in Nat
        <5> HIDE DEF M, T
        <5> QED BY <1>0, <1>9
      <4>3. T * T = M * (T - 1) + 1 /\ M * (T - 1) \in Nat
        <5> HIDE DEF M, T
        <5> QED BY <1>0, <4>1
      <4>4. M * (T * times + (T - 1)) = M * (T * times) + M * (T - 1)
        <5> HIDE DEF M, T
        <5> QED BY <1>0, <1>9, <4>1
      <4> HIDE DEF M, T
      <4> QED BY <4>1, <4>2, <4>3, <4>4
    <3> QED BY <1>6, <3>2, <3>3, <3>4
  <2> QED BY <2>1, <2>2
<1>12. (inverse * Pow2[l]) % M = 1
  <2>1. PICK x \in Nat: inverse * Pow2[l] = M * x + 1 BY <1>11
  <2>2. (M * x + 1) % M = 1 % M
    <3> HIDE DEF M
    <3> QED BY <1>9, RestOf
  <2> QED BY <1>10, <2>1, <2>2
<1> QED BY <1>8, <1>12

\* compute_inverse_scales takes a dimension below N, and throws for N itself.
LEMMA ThrowsIs ==
  ASSUME Buckets
  PROVE  /\ Throws => \E d \in Dims: nvec[d] = N
         /\ ~ Throws => \A d \in Dims: /\ nvec[d] < N
                                       /\ ClientLog(d) = Logm(d)
                                       /\ InverseScale(d) \in 1 .. Modulus - 1
                                       /\ (InverseScale(d) * Pow2[Logm(d)]) % Modulus = 1
<1>1. \A d \in Dims: nvec[d] \in Nat /\ nvec[d] >= 2 /\ nvec[d] <= N /\ N \in Nat \ {0}
  BY BucketsAre, QuerySizes
<1>2. \A d \in Dims: nvec[d] % N = IF nvec[d] = N THEN 0 ELSE nvec[d] BY <1>1
<1>3. ASSUME NEW d \in Dims
      PROVE  InverseScale(d) \in 1 .. Modulus - 1 /\ (InverseScale(d) * Pow2[ClientLog(d)]) % Modulus = 1
  <2>1. ClientLog(d) \in Nat
    <3>1. nvec[d] % N \in Nat /\ nvec[d] % N <= N BY <1>1, <1>2
    <3> QED BY <3>1, CeilLogIs, QuerySizes DEF ClientLog
  <2> QED BY <2>1, InverseOf DEF InverseScale
<1>4. ASSUME Throws PROVE \E d \in Dims: nvec[d] = N
  <2>1. PICK d \in Dims: nvec[d] % N = 0 BY <1>3, <1>4 DEF Throws
  <2> QED BY <1>1, <1>2, <2>1
<1>5. ASSUME ~ Throws, NEW d \in Dims
      PROVE  nvec[d] < N /\ ClientLog(d) = Logm(d)
  <2>1. nvec[d] % N # 0 BY <1>5 DEF Throws
  <2>2. nvec[d] < N /\ nvec[d] % N = nvec[d] BY <1>1, <1>2, <2>1
  <2>3. ((nvec[d] - 1) % N) + 1 = nvec[d]
    <3>1. nvec[d] - 1 \in 0 .. N - 1 BY <1>1
    <3>2. (nvec[d] - 1) % N = nvec[d] - 1 BY <1>1, <3>1
    <3> QED BY <1>1, <3>2
  <2> QED BY <2>2, <2>3 DEF ClientLog, Logm, Total
<1> QED BY <1>3, <1>4, <1>5

-----------------------------------------------------------------------------
(* Monomials *)

\* A monomial is a polynomial, and one with coefficient 0 is no other than zero.
LEMMA MonomialIs ==
  /\ \A c \in 0 .. Modulus - 1: \A e: Monomial(c, e) \in Poly
  /\ \A e: Monomial(0, e) = Zero
  /\ Zero \in Poly
<1>1. \A c \in 0 .. Modulus - 1: \A e: Monomial(c, e) \in Poly
  BY QuerySizes DEF Monomial, Poly
<1>2. \A e: Monomial(0, e) = Zero BY DEF Monomial, Zero
<1>3. 0 \in 0 .. Modulus - 1 BY QuerySizes
<1> QED BY <1>1, <1>2, <1>3 DEF Zero

LEMMA AddMonomials ==
  ASSUME NEW c \in 0 .. Modulus - 1, NEW b \in 0 .. Modulus - 1, NEW e
  PROVE  Add(Monomial(c, e), Monomial(b, e)) = Monomial((c + b) % Modulus, e)
<1>1. (0 + 0) % Modulus = 0 BY QuerySizes
<1> QED BY <1>1 DEF Add, Monomial

LEMMA ScaleMonomial ==
  ASSUME NEW s \in Nat, NEW c, NEW e
  PROVE  Scale(s, Monomial(c, e)) = Monomial((s * c) % Modulus, e)
<1>1. (s * 0) % Modulus = 0
  <2>1. s * 0 = 0 OBVIOUS
  <2> QED BY <2>1, QuerySizes
<1> QED BY <1>1 DEF Scale, Monomial

\* A monomial moves to the exponent of its own, when no other exponent moves there.
LEMMA MoveMonomial ==
  ASSUME NEW c \in 0 .. Modulus - 1, NEW e \in Exponents, NEW to,
         \A x \in Exponents: to[x] % N = to[e] % N => x = e
  PROVE  Move(Monomial(c, e), to) =
           Monomial(IF to[e] = to[e] % N THEN c ELSE Minus(c), to[e] % N)
<1> DEFINE f == to[e] % N
           p == Monomial(c, e)
           sign == IF to[e] = f THEN c ELSE Minus(c)
           At(x) == IF \E y \in Exponents: to[y] % N = x
                    THEN LET z == CHOOSE y \in Exponents: to[y] % N = x
                         IN IF to[z] = x THEN p[z] ELSE (Modulus - p[z]) % Modulus
                    ELSE 0
<1>1. Move(p, to) = [x \in Exponents |-> At(x)] BY DEF Move
<1>2. p[e] = c /\ \A x \in Exponents: x # e => p[x] = 0 BY DEF Monomial
<1>3. ASSUME NEW x \in Exponents PROVE At(x) = IF x = f THEN sign ELSE 0
  <2>1. CASE x = f
    <3> DEFINE z == CHOOSE y \in Exponents: to[y] % N = x
    <3>1. z \in Exponents /\ to[z] % N = x BY <2>1
    <3>2. z = e BY <2>1, <3>1
    <3>3. At(x) = IF to[z] = x THEN p[z] ELSE (Modulus - p[z]) % Modulus BY <2>1
    <3> HIDE DEF z, p, At
    <3> QED BY <1>2, <2>1, <3>2, <3>3 DEF Minus
  <2>2. CASE x # f
    <3>1. CASE \E y \in Exponents: to[y] % N = x
      <4> DEFINE z == CHOOSE y \in Exponents: to[y] % N = x
      <4>1. z \in Exponents /\ to[z] % N = x BY <3>1
      <4>2. z # e BY <2>2, <4>1
      <4>3. p[z] = 0 BY <1>2, <4>1, <4>2
      <4>4. At(x) = IF to[z] = x THEN p[z] ELSE (Modulus - p[z]) % Modulus BY <3>1
      <4>5. (Modulus - 0) % Modulus = 0
        <5>1. 0 \in 0 .. Modulus - 1 BY QuerySizes
        <5> QED BY <5>1, Opposite DEF Minus
      <4> HIDE DEF z, p, At, f
      <4> QED BY <2>2, <4>3, <4>4, <4>5
    <3>2. CASE ~ \E y \in Exponents: to[y] % N = x BY <2>2, <3>2
    <3> QED BY <3>1, <3>2
  <2> QED BY <2>1, <2>2
<1> HIDE DEF At
<1>4. Move(p, to) = [x \in Exponents |-> IF x = f THEN sign ELSE 0]
  <2> HIDE DEF f, sign, p
  <2> QED BY <1>1, <1>3
<1> QED BY <1>4 DEF Monomial

\* Zero stays zero.
LEMMA MoveZero ==
  ASSUME NEW to
  PROVE  Move(Zero, to) = Zero
<1>1. \A x \in Exponents: Zero[x] = 0 BY DEF Zero, Monomial
<1>2. (Modulus - 0) % Modulus = 0
  <2>1. 0 \in 0 .. Modulus - 1 BY QuerySizes
  <2> QED BY <2>1, Opposite DEF Minus
<1> DEFINE At(x) == IF \E y \in Exponents: to[y] % N = x
                    THEN LET z == CHOOSE y \in Exponents: to[y] % N = x
                         IN IF to[z] = x THEN Zero[z] ELSE (Modulus - Zero[z]) % Modulus
                    ELSE 0
<1>3. ASSUME NEW x \in Exponents PROVE At(x) = 0
  <2>1. CASE \E y \in Exponents: to[y] % N = x
    <3> DEFINE z == CHOOSE y \in Exponents: to[y] % N = x
    <3>1. z \in Exponents BY <2>1
    <3>2. Zero[z] = 0 BY <1>1, <3>1
    <3>3. At(x) = IF to[z] = x THEN Zero[z] ELSE (Modulus - Zero[z]) % Modulus BY <2>1
    <3> HIDE DEF z, At
    <3> QED BY <1>2, <3>2, <3>3
  <2>2. CASE ~ \E y \in Exponents: to[y] % N = x BY <2>2
  <2> QED BY <2>1, <2>2
<1>4. Move(Zero, to) = [x \in Exponents |-> At(x)] BY DEF Move
<1> HIDE DEF At
<1>5. Move(Zero, to) = [x \in Exponents |-> 0] BY <1>3, <1>4
<1>6. Zero = [x \in Exponents |-> 0] BY DEF Zero, Monomial
<1> QED BY <1>5, <1>6

\* Exponents that are the same modulo N are the same.
LEMMA SameExponent ==
  ASSUME NEW a \in Exponents, NEW b \in Exponents, NEW times \in Nat, NEW l \in Nat,
         a + N * times = b + N * l
  PROVE  a = b
<1>1. N \in Nat \ {0} /\ a \in 0 .. N - 1 /\ b \in 0 .. N - 1 BY QuerySizes DEF Exponents
<1>2. a + N * times = times * N + a /\ b + N * l = l * N + b
  <2>1. N * times = times * N /\ N * l = l * N /\ N * times \in Nat /\ N * l \in Nat BY <1>1
  <2> QED BY <1>1, <2>1
<1>3. (times * N + a) % N = a /\ (l * N + b) % N = b BY <1>1, DivUnique
<1> QED BY <1>2, <1>3

\* Modulo 2 N and then modulo N.
LEMMA TwiceRest ==
  ASSUME NEW x \in Nat
  PROVE  /\ x % (2 * N) \in Nat
         /\ \E times \in Nat: x = N * times + ((x % (2 * N)) % N)
         /\ (x % (2 * N)) % N \in Exponents
<1> DEFINE n == 2 * N
           y == x % n
           q == x \div n
           r == y \div N
           s == y % N
<1>1. N \in Nat \ {0} /\ n \in Nat \ {0} BY QuerySizes
<1>2. q \in Nat /\ y \in Nat /\ x = n * q + y
  <2> HIDE DEF n
  <2> QED BY <1>1, DivMod
<1>3. r \in Nat /\ s \in 0 .. N - 1 /\ y = N * r + s
  <2> HIDE DEF y
  <2> QED BY <1>1, <1>2, DivMod
<1>4. n * q = N * (2 * q) /\ N * (2 * q) + N * r = N * (2 * q + r) /\ 2 * q + r \in Nat
      /\ N * (2 * q) \in Nat /\ N * r \in Nat
  <2> HIDE DEF q, r
  <2> QED BY <1>1, <1>2, <1>3
<1>5. x = N * (2 * q + r) + s
  <2> HIDE DEF n, q, r, s, y
  <2> QED BY <1>2, <1>3, <1>4
<1>6. s \in Exponents BY <1>3 DEF Exponents
<1> HIDE DEF q, r
<1> QED BY <1>2, <1>4, <1>5, <1>6

\* Times X^s.
LEMMA ShiftMonomial ==
  ASSUME NEW c \in 0 .. Modulus - 1, NEW e \in Exponents, NEW s \in Nat
  PROVE  LET to == (e + s) % (2 * N)
         IN MultiplyPowerOfX(Monomial(c, e), s) =
              Monomial(IF to = to % N THEN c ELSE Minus(c), to % N)
<1> DEFINE to == [x \in Exponents |-> (x + s) % (2 * N)]
<1>1. \A x \in Exponents: x \in Nat /\ x + s \in Nat /\ to[x] = (x + s) % (2 * N)
  BY QuerySizes DEF Exponents
<1>2. ASSUME NEW x \in Exponents, to[x] % N = to[e] % N PROVE x = e
  <2>1. PICK times \in Nat: x + s = N * times + (to[x] % N) BY <1>1, TwiceRest
  <2>2. PICK l \in Nat: e + s = N * l + (to[e] % N) BY <1>1, TwiceRest
  <2> DEFINE f == to[e] % N
  <2>3. x + s = N * times + f /\ e + s = N * l + f BY <1>2, <2>1, <2>2
  <2>4. f \in Exponents
    <3>1. ((e + s) % (2 * N)) % N \in Exponents BY <1>1, TwiceRest
    <3> QED BY <1>1, <3>1
  <2>5. f \in Nat BY <2>4, QuerySizes DEF Exponents
  <2>6. N * times \in Nat /\ N * l \in Nat BY QuerySizes
  <2>7. x + N * l = e + N * times
    <3> DEFINE u == N * times
               v == N * l
    <3>1. x \in Nat /\ e \in Nat /\ x + s = u + f /\ e + s = v + f BY <1>1, <2>3
    <3>2. u \in Nat /\ v \in Nat /\ f \in Nat BY <2>5, <2>6
    <3>3. x + v = e + u
      <4> HIDE DEF f, to, u, v
      <4> QED BY <3>1, <3>2
    <3> QED BY <3>3
  <2> QED BY <2>7, SameExponent
<1> HIDE DEF to
<1>3. Move(Monomial(c, e), to) =
        Monomial(IF to[e] = to[e] % N THEN c ELSE Minus(c), to[e] % N)
  BY <1>2, MoveMonomial
<1>4. MultiplyPowerOfX(Monomial(c, e), s) = Move(Monomial(c, e), to)
  BY DEF MultiplyPowerOfX, to
<1> QED BY <1>1, <1>3, <1>4

\* An odd factor does not help to reach a power of two.
LEMMA OddFactor ==
  ASSUME NEW h \in Nat, NEW n \in Nat
  PROVE  \A x, times \in Nat: x * (2 * h + 1) = Pow2[n] * times => \E part \in Nat: x = Pow2[n] * part
<1> DEFINE Good(i) == \A x, times \in Nat: x * (2 * h + 1) = Pow2[i] * times => \E part \in Nat: x = Pow2[i] * part
           S == {i \in Nat: ~ Good(i)}
<1>1. SUFFICES ASSUME S # {} PROVE FALSE OBVIOUS
<1>2. PICK i \in S: \A x \in S: i <= x
  <2>1. S \in SUBSET Nat OBVIOUS
  <2> HIDE DEF S
  <2> QED BY <1>1, <2>1, LeastNatural
<1>3. i \in Nat /\ ~ Good(i) OBVIOUS
<1>4. i # 0
  <2>1. ASSUME NEW x \in Nat PROVE x = Pow2[0] * x BY Powers
  <2>2. Good(0) BY <2>1
  <2> HIDE DEF Good
  <2> QED BY <1>3, <2>2
<1>5. i - 1 \in Nat /\ (i - 1) + 1 = i /\ ~ (i <= i - 1) BY <1>3, <1>4
<1>6. i - 1 \notin S
  <2> HIDE DEF S
  <2> QED BY <1>2, <1>5
<1>7. Good(i - 1) BY <1>5, <1>6
<1> DEFINE p == Pow2[i - 1]
<1>8. p \in Nat \ {0} /\ Pow2[i] = 2 * p
  <2>1. Pow2[(i - 1) + 1] = 2 * Pow2[i - 1] BY <1>5, Powers
  <2> QED BY <1>5, <2>1, Powers
<1>9. PICK x \in Nat: (\E times \in Nat: x * (2 * h + 1) = Pow2[i] * times) /\ ~ \E part \in Nat: x = Pow2[i] * part
  BY <1>3
<1>10. PICK times \in Nat: x * (2 * h + 1) = Pow2[i] * times BY <1>9
<1>11. x * (2 * h + 1) = (2 * p) * times BY <1>8, <1>10
<1> DEFINE half == p * times - x * h
<1>12. x = 2 * half /\ half \in Int
  <2>1. x * (2 * h + 1) = 2 * (x * h) + x /\ x * h \in Nat OBVIOUS
  <2>2. (2 * p) * times = 2 * (p * times) /\ p * times \in Nat
    <3> HIDE DEF p
    <3> QED BY <1>8
  <2> DEFINE u == p * times
             v == x * h
  <2>3. 2 * v + x = 2 * u /\ u \in Nat /\ v \in Nat BY <1>11, <2>1, <2>2
  <2>4. x = 2 * (u - v) /\ u - v \in Int
    <3> HIDE DEF u, v
    <3> QED BY <2>3
  <2> QED BY <2>4
<1>13. half \in Nat
  <2> HIDE DEF half
  <2> QED BY <1>12
<1>14. half * (2 * h + 1) = p * times
  <2>1. (2 * half) * (2 * h + 1) = 2 * (half * (2 * h + 1)) /\ half * (2 * h + 1) \in Nat
    <3> HIDE DEF half
    <3> QED BY <1>13
  <2>2. (2 * p) * times = 2 * (p * times) /\ p * times \in Nat
    <3> HIDE DEF p
    <3> QED BY <1>8
  <2>3. (2 * half) * (2 * h + 1) = (2 * p) * times
    <3> HIDE DEF half, p
    <3> QED BY <1>11, <1>12
  <2> DEFINE u == half * (2 * h + 1)
             v == p * times
  <2>4. 2 * u = 2 * v /\ u \in Nat /\ v \in Nat BY <2>1, <2>2, <2>3
  <2>5. u = v
    <3> HIDE DEF u, v
    <3> QED BY <2>4
  <2> QED BY <2>5
<1>15. PICK part \in Nat: half = p * part
  <2> HIDE DEF half
  <2> QED BY <1>7, <1>13, <1>14
<1>16. x = Pow2[i] * part
  <2> HIDE DEF half, p
  <2>1. 2 * (p * part) = (2 * p) * part BY <1>8
  <2> QED BY <1>8, <1>12, <1>15, <2>1
<1> QED BY <1>9, <1>16

\* The Galois element of a level: N/P + 1 for the P ciphertexts of the level.
LEMMA GaloisIs ==
  ASSUME NEW i \in 0 .. LogN - 1
  PROVE  \E m \in Nat \ {0}: N = Pow2[i] * (2 * m) /\ GaloisElement(i) = 2 * m + 1
<1>1. i \in Nat /\ i + 1 \in Nat /\ i + 1 <= LogN /\ LogN \in Nat BY QuerySizes
<1>2. PICK m \in Nat \ {0}: Pow2[LogN] = m * Pow2[i + 1] BY <1>1, PowerDivides
<1> DEFINE p == Pow2[i]
<1>3. p \in Nat \ {0} /\ Pow2[i + 1] = 2 * p BY <1>1, Powers
<1>4. N = p * (2 * m)
  <2> HIDE DEF p
  <2>1. m * (2 * p) = p * (2 * m) BY <1>3
  <2> QED BY <1>2, <1>3, <2>1, QuerySizes
<1>5. N + p = (2 * m + 1) * p + 0
  <2> HIDE DEF p
  <2>1. (2 * m + 1) * p = (2 * m) * p + p /\ (2 * m) * p = p * (2 * m) BY <1>3
  <2>2. p * (2 * m) \in Nat BY <1>3
  <2> QED BY <1>3, <1>4, <2>1, <2>2
<1>6. ((2 * m + 1) * p + 0) \div p = 2 * m + 1
  <2>1. 2 * m + 1 \in Nat /\ 0 \in 0 .. p - 1
    <3> HIDE DEF p
    <3> QED BY <1>3
  <2> HIDE DEF p
  <2> QED BY <1>3, <2>1, DivUnique
<1>7. GaloisElement(i) = 2 * m + 1
  <2>1. GaloisElement(i) = (N + p) \div p BY DEF GaloisElement
  <2> HIDE DEF p
  <2> QED BY <1>5, <1>6, <2>1
<1> QED BY <1>4, <1>7

\* X becomes X^g for an odd g.
LEMMA GaloisMonomial ==
  ASSUME NEW c \in 0 .. Modulus - 1, NEW e \in Exponents, NEW h \in Nat
  PROVE  LET to == (e * (2 * h + 1)) % (2 * N)
         IN ApplyGalois(Monomial(c, e), 2 * h + 1) =
              Monomial(IF to = to % N THEN c ELSE Minus(c), to % N)
<1> DEFINE g == 2 * h + 1
           to == [x \in Exponents |-> (x * g) % (2 * N)]
<1>1. \A x \in Exponents: x \in Nat /\ x * g \in Nat /\ to[x] = (x * g) % (2 * N)
  <2>1. \A x \in Exponents: x \in Nat BY QuerySizes DEF Exponents
  <2>2. \A x \in Nat: x * g \in Nat OBVIOUS
  <2> QED BY <2>1, <2>2
<1>2. ASSUME NEW a \in Exponents, NEW b \in Exponents, a <= b, to[a] % N = to[b] % N
      PROVE  a = b
  <2>1. PICK times \in Nat: a * g = N * times + (to[a] % N) BY <1>1, TwiceRest
  <2>2. PICK l \in Nat: b * g = N * l + (to[b] % N) BY <1>1, TwiceRest
  <2> DEFINE f == to[a] % N
             x == b - a
  <2>3. f \in Nat
    <3>1. ((a * g) % (2 * N)) % N \in Exponents BY <1>1, TwiceRest
    <3> QED BY <1>1, <3>1, QuerySizes DEF Exponents
  <2>4. a \in Nat /\ b \in Nat /\ x \in Nat /\ a + x = b
    <3>1. a \in Nat /\ b \in Nat BY <1>1
    <3> QED BY <1>2, <3>1
  <2>5. a * g = N * times + f /\ b * g = N * l + f BY <1>2, <2>1, <2>2
  <2> HIDE DEF f, x, to
  <2>6. b * g = a * g + x * g /\ a * g \in Nat /\ x * g \in Nat
    <3>1. g \in Nat OBVIOUS
    <3> HIDE DEF g
    <3> QED BY <2>4, <3>1
  <2>7. N * times \in Nat /\ N * l \in Nat /\ N \in Nat BY QuerySizes
  <2>8. l >= times /\ x * g = N * l - N * times
    <3>1. x * g = N * l - N * times
      <4> DEFINE u == N * times
                 v == N * l
                 w == x * g
                 y == a * g
      <4>1. y = u + f /\ y + w = v + f /\ u \in Nat /\ v \in Nat /\ w \in Nat BY <2>5, <2>6, <2>7
      <4>2. w = v - u
        <5> HIDE DEF u, v, w, y
        <5> QED BY <2>3, <4>1
      <4> QED BY <4>2
    <3>2. CASE l >= times BY <3>1, <3>2
    <3>3. CASE ~ (l >= times)
      <4>1. l + 1 <= times BY <3>3
      <4>2. PICK d \in Nat: times = l + 1 + d
        <5>1. times - (l + 1) \in Nat /\ times = l + 1 + (times - (l + 1)) BY <4>1
        <5> QED BY <5>1
      <4>3. N * times = N * l + N + N * d /\ N * d \in Nat
        <5>1. N * (l + 1 + d) = N * l + N + N * d BY <2>7
        <5> QED BY <2>7, <4>2, <5>1
      <4> HIDE DEF g
      <4> QED BY <2>6, <2>7, <3>1, <4>3, QuerySizes
    <3> QED BY <3>2, <3>3
  <2>9. l - times \in Nat /\ x * (2 * h + 1) = Pow2[LogN] * (l - times)
    <3>1. N * (l - times) = N * l - N * times BY <2>7
    <3> QED BY <2>8, <3>1, QuerySizes
  <2>10. PICK part \in Nat: x = Pow2[LogN] * part
    <3>1. LogN \in Nat BY QuerySizes
    <3>2. \A y, z \in Nat: y * (2 * h + 1) = Pow2[LogN] * z => \E part \in Nat: y = Pow2[LogN] * part
      BY <3>1, OddFactor
    <3> DEFINE z == l - times
    <3>3. z \in Nat /\ x * (2 * h + 1) = Pow2[LogN] * z BY <2>9
    <3> HIDE DEF z
    <3> QED BY <2>4, <3>2, <3>3
  <2>11. b + N * 0 = a + N * part
    <3>1. N * 0 = 0 /\ N * part \in Nat BY <2>7
    <3>2. x = N * part BY <2>10, QuerySizes
    <3> QED BY <2>4, <3>1, <3>2
  <2> QED BY <2>11, SameExponent
<1>3. \A x \in Exponents: to[x] % N = to[e] % N => x = e
  <2> SUFFICES ASSUME NEW x \in Exponents, to[x] % N = to[e] % N PROVE x = e OBVIOUS
  <2>1. x \in Nat /\ e \in Nat BY <1>1
  <2>2. x <= e \/ e <= x BY <2>1
  <2> HIDE DEF to
  <2> QED BY <1>2, <2>2
<1>4. ApplyGalois(Monomial(c, e), g) = Move(Monomial(c, e), to) BY DEF ApplyGalois
<1>5. to[e] = (e * g) % (2 * N) OBVIOUS
<1> HIDE DEF to
<1>6. Move(Monomial(c, e), to) =
        Monomial(IF to[e] = to[e] % N THEN c ELSE Minus(c), to[e] % N)
  BY <1>3, MoveMonomial
<1> QED BY <1>4, <1>5, <1>6

\* Where an exponent of at most 2 N and some rounds of 2 N lies.
LEMMA RestsAt ==
  ASSUME NEW e \in Exponents, NEW times \in Nat
  PROVE  /\ e \in Nat /\ e < N
         /\ ((2 * N) * times + e) % (2 * N) = e /\ ((2 * N) * times + (N + e)) % (2 * N) = N + e
         /\ e % N = e /\ (N + e) % N = e /\ N + e # e
<1> DEFINE n == 2 * N
<1>1. N \in Nat \ {0} /\ n \in Nat \ {0} /\ e \in 0 .. N - 1 /\ n = N + N
  BY QuerySizes DEF Exponents
<1>2. n * times = times * n /\ n * times \in Nat
  <2> HIDE DEF n
  <2> QED BY <1>1
<1>3. e \in 0 .. n - 1 /\ N + e \in 0 .. n - 1
  <2> HIDE DEF n
  <2> QED BY <1>1
<1>4. (times * n + e) % n = e /\ (times * n + (N + e)) % n = N + e
  <2> HIDE DEF n
  <2> QED BY <1>1, <1>3, DivUnique
<1>5. e % N = e /\ (N + e) % N = e
  <2>1. 0 * N + e = e /\ 1 * N + e = N + e BY <1>1
  <2>2. (0 * N + e) % N = e /\ (1 * N + e) % N = e BY <1>1, DivUnique
  <2> QED BY <2>1, <2>2
<1> HIDE DEF n
<1>6. e \in Nat /\ e < N /\ N + e # e BY <1>1
<1> QED BY <1>2, <1>4, <1>5, <1>6 DEF n

\* A monomial whose exponent is a multiple h of P, at the level of P ciphertexts: one of
\* its two children is zero, the other one twice the monomial, by parity of h.
LEMMA Children ==
  ASSUME NEW i \in 0 .. LogN - 1, NEW h \in Nat, Pow2[i] * h < N, NEW c \in 0 .. Modulus - 1
  PROVE  LET e == Pow2[i] * h
             twice == (c + c) % Modulus
         IN /\ EvenChild(Monomial(c, e), i) = IF h % 2 = 0 THEN Monomial(twice, e) ELSE Zero
            /\ OddChild(Monomial(c, e), i) =
                 IF h % 2 = 0 THEN Zero ELSE Monomial(twice, e - Pow2[i])
<1> DEFINE P == Pow2[i]
           e == P * h
           g == GaloisElement(i)
           twice == (c + c) % Modulus
           moved == ApplyGalois(Monomial(c, e), g)
           raw == 2 * N - P
           index == (raw * g) % (2 * N)
<1>0. N \in Nat \ {0} /\ i \in Nat /\ P \in Nat \ {0} BY QuerySizes, Powers
<1>1. PICK m \in Nat \ {0}: N = P * (2 * m) /\ g = 2 * m + 1 BY GaloisIs
<1>2. e \in Nat /\ e < N /\ e \in Exponents
  <2>1. e \in Nat
    <3> HIDE DEF P
    <3> QED BY <1>0
  <2>2. e < N OBVIOUS
  <2> HIDE DEF e
  <2> QED BY <1>0, <2>1, <2>2 DEF Exponents
<1>3. P <= N /\ N - P \in Exponents /\ raw = N + (N - P) /\ raw \in Nat
  <2>1. P <= N
    <3>1. P * (2 * m) = P + P * (2 * m - 1) /\ P * (2 * m - 1) \in Nat
      <4> DEFINE l == 2 * m - 1
      <4>1. l \in Nat /\ 2 * m = 1 + l OBVIOUS
      <4>2. P * (1 + l) = P + P * l /\ P * l \in Nat
        <5> HIDE DEF P, l
        <5> QED BY <1>0, <4>1
      <4> QED BY <4>1, <4>2
    <3> HIDE DEF P
    <3> QED BY <1>0, <1>1, <3>1
  <2> HIDE DEF P
  <2> QED BY <1>0, <2>1 DEF Exponents
<1>4. e * g = N * h + e
  <2>1. e * (2 * m + 1) = e * (2 * m) + e
    <3> HIDE DEF e
    <3> QED BY <1>2
  <2>2. (P * h) * (2 * m) = (P * (2 * m)) * h
    <3> HIDE DEF P
    <3> QED BY <1>0
  <2> QED BY <1>1, <2>1, <2>2
<1>5. index = N - P
  <2>1. raw * g = (2 * N) * (2 * m) + (N - P)
    <3>1. raw * g = raw * (2 * m) + raw
      <4> HIDE DEF raw
      <4> QED BY <1>1, <1>3
    <3>2. raw * (2 * m) = (2 * N) * (2 * m) - N
      <4>1. (2 * N - P) * (2 * m) = (2 * N) * (2 * m) - P * (2 * m)
        <5> DEFINE n == 2 * N
                   times == 2 * m
        <5>1. n \in Nat /\ times \in Nat BY <1>0
        <5> HIDE DEF n, times, P
        <5>2. (n - P) * times = n * times - P * times BY <1>0, <5>1
        <5> QED BY <5>2 DEF n, times
      <4> QED BY <1>1, <4>1
    <3> DEFINE s == (2 * N) * (2 * m)
    <3>3. s \in Nat BY <1>0
    <3> HIDE DEF P, s
    <3>4. raw = 2 * N - P OBVIOUS
    <3>5. raw * g = (s - N) + (2 * N - P) BY <3>1, <3>2, <3>4 DEF s
    <3>6. (s - N) + (2 * N - P) = s + (N - P) BY <1>0, <3>3
    <3> QED BY <3>5, <3>6 DEF s
  <2>2. ((2 * N) * (2 * m) + (N - P)) % (2 * N) = N - P
    <3>1. 2 * m \in Nat OBVIOUS
    <3> HIDE DEF P
    <3> QED BY <1>3, <3>1, RestsAt
  <2> QED BY <2>1, <2>2
<1>6. /\ Minus(c) \in 0 .. Modulus - 1 /\ Minus(Minus(c)) = c
      /\ (c + Minus(c)) % Modulus = 0 /\ (Minus(c) + c) % Modulus = 0
  <2>1. Minus(c) \in 0 .. Modulus - 1 /\ Minus(Minus(c)) = c /\ (c + Minus(c)) % Modulus = 0
    BY Opposite
  <2>2. c + Minus(c) = Minus(c) + c BY <2>1, QuerySizes
  <2> QED BY <2>1, <2>2
<1>7. moved = LET to == (e * g) % (2 * N)
              IN Monomial(IF to = to % N THEN c ELSE Minus(c), to % N)
  <2> HIDE DEF e
  <2> QED BY <1>1, <1>2, GaloisMonomial
<1>8. EvenChild(Monomial(c, e), i) = Add(Monomial(c, e), moved) BY DEF EvenChild
<1>9. OddChild(Monomial(c, e), i) =
        Add(MultiplyPowerOfX(Monomial(c, e), raw), MultiplyPowerOfX(moved, N - P))
  <2>1. OddChild(Monomial(c, e), i) =
          Add(MultiplyPowerOfX(Monomial(c, e), raw), MultiplyPowerOfX(moved, index))
    BY DEF OddChild
  <2> QED BY <1>5, <2>1
<1> HIDE DEF moved, index
\* The monomial times X^(2 N - P) and times X^(N - P).
<1>10. CASE h = 0
  <2>1. e = 0 /\ h % 2 = 0
    <3> HIDE DEF P
    <3> QED BY <1>0, <1>10
  <2>2. moved = Monomial(c, e)
    <3>1. e * g = (2 * N) * 0 + e
      <4> HIDE DEF e
      <4> QED BY <1>0, <1>4, <1>10, <2>1
    <3>2. (e * g) % (2 * N) = e /\ e % N = e
      <4>1. 0 \in Nat OBVIOUS
      <4>2. ((2 * N) * 0 + e) % (2 * N) = e /\ e % N = e
        <5> HIDE DEF e
        <5> QED BY <1>2, <4>1, RestsAt
      <4> QED BY <3>1, <4>2
    <3> HIDE DEF e
    <3> QED BY <1>7, <3>2
  <2>3. EvenChild(Monomial(c, e), i) = Monomial(twice, e)
    <3> HIDE DEF e
    <3> QED BY <1>8, <2>2, AddMonomials
  <2>4. MultiplyPowerOfX(Monomial(c, e), N - P) = Monomial(c, N - P)
    <3>1. e + (N - P) = (2 * N) * 0 + (N - P) BY <1>0, <2>1
    <3>2. (e + (N - P)) % (2 * N) = N - P /\ (N - P) % N = N - P BY <1>3, <3>1, RestsAt
    <3>3. N - P \in Nat BY <1>3, RestsAt
    <3> HIDE DEF e, P
    <3> QED BY <1>2, <3>2, <3>3, ShiftMonomial
  <2>5. MultiplyPowerOfX(Monomial(c, e), raw) = Monomial(Minus(c), N - P)
    <3>1. e + raw = (2 * N) * 0 + (N + (N - P)) BY <1>0, <1>3, <2>1
    <3>2. /\ (e + raw) % (2 * N) = N + (N - P) /\ (N + (N - P)) % N = N - P
          /\ N + (N - P) # N - P
      BY <1>3, <3>1, RestsAt
    <3> HIDE DEF e, P, raw
    <3> QED BY <1>2, <1>3, <3>2, ShiftMonomial
  <2>6. OddChild(Monomial(c, e), i) = Zero
    <3>1. Add(Monomial(Minus(c), N - P), Monomial(c, N - P)) = Monomial(0, N - P)
      BY <1>6, AddMonomials
    <3> QED BY <1>9, <2>2, <2>4, <2>5, <3>1, MonomialIs
  <2> QED BY <2>1, <2>3, <2>6
<1>11. CASE h # 0
  <2>1. e - P \in Exponents /\ e = (e - P) + P
    <3>1. h - 1 \in Nat /\ h = (h - 1) + 1 BY <1>11
    <3>2. P * ((h - 1) + 1) = P * (h - 1) + P /\ P * (h - 1) \in Nat
      <4> DEFINE l == h - 1
      <4> HIDE DEF P, l
      <4>1. P * (l + 1) = P * l + P /\ P * l \in Nat BY <1>0, <3>1 DEF l
      <4> QED BY <4>1 DEF l
    <3>3. P <= e BY <1>0, <3>1, <3>2
    <3> HIDE DEF P, e
    <3> QED BY <1>0, <1>2, <3>3 DEF Exponents
  <2>2. ASSUME NEW b \in 0 .. Modulus - 1
        PROVE  MultiplyPowerOfX(Monomial(b, e), N - P) = Monomial(Minus(b), e - P)
    <3>1. e + (N - P) = (2 * N) * 0 + (N + (e - P))
      <4> HIDE DEF P, e
      <4> QED BY <1>0, <1>2
    <3>2. /\ (e + (N - P)) % (2 * N) = N + (e - P) /\ (N + (e - P)) % N = e - P
          /\ N + (e - P) # e - P
      <4> HIDE DEF P, e
      <4> QED BY <2>1, <3>1, RestsAt
    <3>3. N - P \in Nat BY <1>3, RestsAt
    <3> HIDE DEF e, P
    <3> QED BY <1>2, <3>2, <3>3, ShiftMonomial
  <2>3. MultiplyPowerOfX(Monomial(c, e), raw) = Monomial(c, e - P)
    <3>1. e + raw = (2 * N) * 1 + (e - P)
      <4> HIDE DEF P, e
      <4> QED BY <1>0, <1>2
    <3>2. (e + raw) % (2 * N) = e - P /\ (e - P) % N = e - P
      <4> HIDE DEF P, e
      <4> QED BY <2>1, <3>1, RestsAt
    <3> HIDE DEF e, P, raw
    <3> QED BY <1>2, <1>3, <3>2, ShiftMonomial
  <2>4. CASE h % 2 = 0
    <3>1. PICK times \in Nat: h = 2 * times
      <4>1. h \div 2 \in Nat /\ h = 2 * (h \div 2) BY <2>4
      <4> QED BY <4>1
    <3>2. e * g = (2 * N) * times + e
      <4>1. N * (2 * times) = (2 * N) * times BY <1>0
      <4> QED BY <1>4, <3>1, <4>1
    <3>3. moved = Monomial(c, e)
      <4>1. (e * g) % (2 * N) = e /\ e % N = e
        <5>1. ((2 * N) * times + e) % (2 * N) = e /\ e % N = e
          <6> HIDE DEF e
          <6> QED BY <1>2, RestsAt
        <5> QED BY <3>2, <5>1
      <4> HIDE DEF e
      <4> QED BY <1>7, <4>1
    <3>4. EvenChild(Monomial(c, e), i) = Monomial(twice, e)
      <4> HIDE DEF e
      <4> QED BY <1>8, <3>3, AddMonomials
    <3>5. OddChild(Monomial(c, e), i) = Zero
      <4>1. MultiplyPowerOfX(moved, N - P) = Monomial(Minus(c), e - P) BY <2>2, <3>3
      <4>2. Add(Monomial(c, e - P), Monomial(Minus(c), e - P)) = Monomial(0, e - P)
        <5> DEFINE f == e - P
        <5> HIDE DEF f
        <5> QED BY <1>6, AddMonomials DEF f
      <4> QED BY <1>9, <2>3, <4>1, <4>2, MonomialIs
    <3> QED BY <2>4, <3>4, <3>5
  <2>5. CASE h % 2 # 0
    <3>1. PICK times \in Nat: h = 2 * times + 1
      <4>1. h \div 2 \in Nat /\ h = 2 * (h \div 2) + 1 BY <2>5
      <4> QED BY <4>1
    <3>2. e * g = (2 * N) * times + (N + e)
      <4>1. N * (2 * times + 1) = (2 * N) * times + N /\ (2 * N) * times \in Nat BY <1>0
      <4> HIDE DEF e
      <4> QED BY <1>0, <1>2, <1>4, <3>1, <4>1
    <3>3. moved = Monomial(Minus(c), e)
      <4>1. (e * g) % (2 * N) = N + e /\ (N + e) % N = e /\ N + e # e
        <5>1. ((2 * N) * times + (N + e)) % (2 * N) = N + e /\ (N + e) % N = e /\ N + e # e
          <6> HIDE DEF e
          <6> QED BY <1>2, RestsAt
        <5> QED BY <3>2, <5>1
      <4> HIDE DEF e
      <4> QED BY <1>7, <4>1
    <3>4. EvenChild(Monomial(c, e), i) = Zero
      <4>1. Add(Monomial(c, e), Monomial(Minus(c), e)) = Monomial(0, e)
        <5> HIDE DEF e
        <5> QED BY <1>6, AddMonomials
      <4> QED BY <1>8, <3>3, <4>1, MonomialIs
    <3>5. OddChild(Monomial(c, e), i) = Monomial(twice, e - P)
      <4>1. MultiplyPowerOfX(moved, N - P) = Monomial(c, e - P) BY <1>6, <2>2, <3>3
      <4>2. Add(Monomial(c, e - P), Monomial(c, e - P)) = Monomial(twice, e - P)
        <5> DEFINE f == e - P
        <5> HIDE DEF f
        <5> QED BY AddMonomials DEF f
      <4> QED BY <1>9, <2>3, <4>1, <4>2
    <3> QED BY <2>5, <3>4, <3>5
  <2> QED BY <2>4, <2>5
<1> QED BY <1>10, <1>11

\* Both children of zero are zero.
LEMMA ZeroChildren ==
  ASSUME NEW i
  PROVE  EvenChild(Zero, i) = Zero /\ OddChild(Zero, i) = Zero /\ Scale(2, Zero) = Zero
<1>1. Add(Zero, Zero) = Zero
  <2>1. 0 \in 0 .. Modulus - 1 /\ (0 + 0) % Modulus = 0 BY QuerySizes
  <2> QED BY <2>1, AddMonomials DEF Zero
<1>2. Scale(2, Zero) = Zero
  <2>1. (2 * 0) % Modulus = 0 BY QuerySizes
  <2>2. 2 \in Nat OBVIOUS
  <2> QED BY <2>1, <2>2, ScaleMonomial DEF Zero
<1>3. ApplyGalois(Zero, GaloisElement(i)) = Zero BY MoveZero DEF ApplyGalois
<1>4. \A s: MultiplyPowerOfX(Zero, s) = Zero BY MoveZero DEF MultiplyPowerOfX
<1> QED BY <1>1, <1>2, <1>3, <1>4 DEF EvenChild, OddChild

-----------------------------------------------------------------------------
(* The expansion *)

\* What the query X^x has become when there are 2^i ciphertexts: only that of the place
\* of x among them is not zero.
Carried(x, i) == Monomial(Pow2[i] % Modulus, Pow2[i] * (x \div Pow2[i]))
Spread(x, i) ==
  [a \in 1 .. Pow2[i] |-> IF a - 1 = x % Pow2[i] THEN Carried(x, i) ELSE Zero]

\* Quotient and remainder of the next power.
LEMMA Halves ==
  ASSUME NEW x \in Nat, NEW p \in Nat \ {0}
  PROVE  /\ x \div p \in Nat /\ x % p \in 0 .. p - 1 /\ p * (x \div p) <= x
         /\ (x \div p) % 2 = 0 => /\ x % (2 * p) = x % p
                                  /\ (2 * p) * (x \div (2 * p)) = p * (x \div p)
         /\ (x \div p) % 2 # 0 => /\ x % (2 * p) = p + (x % p)
                                  /\ (2 * p) * (x \div (2 * p)) = p * (x \div p) - p
<1> DEFINE h == x \div p
           r == x % p
           n == 2 * p
<1>1. h \in Nat /\ r \in 0 .. p - 1 /\ x = p * h + r BY DivMod
<1> HIDE DEF h, r
<1>2. p * h <= x
  <2>1. p * h \in Nat BY <1>1
  <2> QED BY <1>1, <2>1
<1>3. ASSUME h % 2 = 0 PROVE x % n = r /\ n * (x \div n) = p * h
  <2>1. PICK times \in Nat: h = 2 * times
    <3>1. h \div 2 \in Nat /\ h = 2 * (h \div 2) BY <1>1, <1>3
    <3> QED BY <3>1
  <2>2. p * (2 * times) = times * n /\ times * n = n * times /\ n \in Nat \ {0} OBVIOUS
  <2>3. r \in 0 .. n - 1 BY <1>1
  <2> HIDE DEF n
  <2>4. (times * n + r) \div n = times /\ (times * n + r) % n = r BY <2>2, <2>3, DivUnique
  <2>5. x = times * n + r BY <1>1, <2>1, <2>2
  <2> QED BY <2>1, <2>2, <2>4, <2>5
<1>4. ASSUME h % 2 # 0 PROVE x % n = p + r /\ n * (x \div n) = p * h - p
  <2>1. PICK times \in Nat: h = 2 * times + 1
    <3>1. h \div 2 \in Nat /\ h = 2 * (h \div 2) + 1 BY <1>1, <1>4
    <3> QED BY <3>1
  <2>2. p * (2 * times + 1) = times * n + p /\ times * n = n * times /\ times * n \in Nat /\ n \in Nat \ {0} OBVIOUS
  <2>3. p + r \in 0 .. n - 1 BY <1>1
  <2> HIDE DEF n
  <2>4. (times * n + (p + r)) \div n = times /\ (times * n + (p + r)) % n = p + r BY <2>2, <2>3, DivUnique
  <2> DEFINE u == times * n
  <2>5. p * h = u + p /\ u \in Nat /\ n * times = u BY <2>1, <2>2
  <2>6. x = u + (p + r) /\ p * h - p = u
    <3> HIDE DEF u
    <3> QED BY <1>1, <2>5
  <2>7. x \div n = times /\ x % n = p + r BY <2>4, <2>6
  <2> QED BY <2>5, <2>6, <2>7
<1> QED BY <1>1, <1>2, <1>3, <1>4 DEF h, r, n

LEMMA SpreadIs ==
  ASSUME NEW x \in Exponents, NEW i \in 0 .. LogN
  PROVE  /\ Carried(x, i) \in Poly
         /\ Spread(x, i) \in Seq(Poly) /\ Len(Spread(x, i)) = Pow2[i] /\ Spread(x, i) # <<>>
<1> DEFINE p == Pow2[i]
<1>1. p \in Nat \ {0} BY QuerySizes, Powers
<1>2. Carried(x, i) \in Poly
  <2>1. p % Modulus \in 0 .. Modulus - 1 BY <1>1, QuerySizes, DivMod
  <2> QED BY <2>1, MonomialIs DEF Carried
<1> HIDE DEF p
<1>3. Spread(x, i) = [a \in 1 .. p |-> IF a - 1 = x % p THEN Carried(x, i) ELSE Zero]
  BY DEF Spread, p
<1>4. Zero \in Poly BY MonomialIs
<1>5. Spread(x, i) \in [1 .. p -> Poly] BY <1>2, <1>3, <1>4
<1>6. Spread(x, i) \in Seq(Poly) BY <1>1, <1>5
<1>7. DOMAIN Spread(x, i) = 1 .. p BY <1>5
<1>8. Len(Spread(x, i)) = p BY <1>1, <1>6, <1>7
<1> QED BY <1>1, <1>2, <1>6, <1>8 DEF p

\* The children of a ciphertext of one level are those of the next.
LEMMA SpreadChildren ==
  ASSUME NEW x \in Exponents, NEW i \in 0 .. LogN - 1, NEW a \in 1 .. Pow2[i]
  PROVE  /\ EvenChild(Spread(x, i)[a], i) =
              IF a - 1 = x % Pow2[i + 1] THEN Carried(x, i + 1) ELSE Zero
         /\ OddChild(Spread(x, i)[a], i) =
              IF (a + Pow2[i]) - 1 = x % Pow2[i + 1] THEN Carried(x, i + 1) ELSE Zero
<1> DEFINE p == Pow2[i]
           h == x \div p
           r == x % p
           c == p % Modulus
<1>1. i \in Nat /\ p \in Nat \ {0} /\ Pow2[i + 1] = 2 * p /\ x \in Nat /\ x < N /\ a \in 1 .. p
  BY QuerySizes, Powers DEF Exponents
<1>2. /\ h \in Nat /\ r \in 0 .. p - 1 /\ p * h <= x
      /\ h % 2 = 0 => x % (2 * p) = r /\ (2 * p) * (x \div (2 * p)) = p * h
      /\ h % 2 # 0 => x % (2 * p) = p + r /\ (2 * p) * (x \div (2 * p)) = p * h - p
  <2> HIDE DEF p
  <2> QED BY <1>1, Halves
<1>3. c \in 0 .. Modulus - 1 /\ (c + c) % Modulus = (2 * p) % Modulus
  <2>1. c \in 0 .. Modulus - 1 BY <1>1, QuerySizes, DivMod
  <2>2. (2 * c) % Modulus = (2 * p) % Modulus
    <3> HIDE DEF p
    <3> QED BY <1>1, QuerySizes, RestProduct
  <2>3. 2 * c = c + c
    <3> HIDE DEF c
    <3> QED BY <2>1, QuerySizes
  <2> QED BY <2>1, <2>2, <2>3
<1>4. p * h < N
  <2>1. p * h \in Nat
    <3> HIDE DEF p, h
    <3> QED BY <1>1, <1>2
  <2> HIDE DEF p, h
  <2> QED BY <1>1, <1>2, <2>1, QuerySizes
<1>5. Carried(x, i) = Monomial(c, p * h) BY DEF Carried
<1>6. Carried(x, i + 1) = Monomial((c + c) % Modulus, (2 * p) * (x \div (2 * p)))
  BY <1>1, <1>3 DEF Carried
<1>7. Spread(x, i)[a] = IF a - 1 = r THEN Monomial(c, p * h) ELSE Zero
  BY <1>5 DEF Spread
<1>8. /\ EvenChild(Monomial(c, p * h), i) =
           IF h % 2 = 0 THEN Monomial((c + c) % Modulus, p * h) ELSE Zero
      /\ OddChild(Monomial(c, p * h), i) =
           IF h % 2 = 0 THEN Zero ELSE Monomial((c + c) % Modulus, p * h - p)
  <2> HIDE DEF h, c
  <2> QED BY <1>2, <1>3, <1>4, Children
<1>9. EvenChild(Zero, i) = Zero /\ OddChild(Zero, i) = Zero BY ZeroChildren
<1> DEFINE next == x % (2 * p)
           carried == Carried(x, i + 1)
<1>10. /\ EvenChild(Spread(x, i)[a], i) = IF a - 1 = next THEN carried ELSE Zero
       /\ OddChild(Spread(x, i)[a], i) = IF (a + p) - 1 = next THEN carried ELSE Zero
  <2>1. CASE h % 2 = 0
    <3>1. next = r /\ carried = Monomial((c + c) % Modulus, p * h)
      <4> HIDE DEF h, c, r
      <4> QED BY <1>2, <1>6, <2>1
    <3>2. (a + p) - 1 # r
      <4> HIDE DEF p, r
      <4> QED BY <1>1, <1>2
    <3> HIDE DEF p, h, c, r, next, carried
    <3> QED BY <1>7, <1>8, <1>9, <2>1, <3>1, <3>2
  <2>2. CASE h % 2 # 0
    <3>1. next = p + r /\ carried = Monomial((c + c) % Modulus, p * h - p)
      <4> HIDE DEF h, c, r
      <4> QED BY <1>2, <1>6, <2>2
    <3>2. a - 1 # p + r /\ ((a + p) - 1 = p + r <=> a - 1 = r)
      <4> HIDE DEF p, r
      <4> QED BY <1>1, <1>2
    <3> HIDE DEF p, h, c, r, next, carried
    <3> QED BY <1>7, <1>8, <1>9, <2>2, <3>1, <3>2
  <2> QED BY <2>1, <2>2
<1> QED BY <1>1, <1>10

\* A round of the loop doubles the vector.
LEMMA SpreadLevel ==
  ASSUME NEW x \in Exponents, NEW i \in 0 .. LogN - 1
  PROVE  LET s == Spread(x, i)
         IN [a \in 1 .. 2 * Len(s) |-> IF a <= Len(s) THEN EvenChild(s[a], i)
                                       ELSE OddChild(s[a - Len(s)], i)] = Spread(x, i + 1)
<1> DEFINE s == Spread(x, i)
           p == Pow2[i]
           At(a) == IF a <= p THEN EvenChild(s[a], i) ELSE OddChild(s[a - p], i)
           Wanted(a) == IF a - 1 = x % Pow2[i + 1] THEN Carried(x, i + 1) ELSE Zero
<1>1. p \in Nat \ {0} /\ Pow2[i + 1] = 2 * p /\ Len(s) = p
  <2>1. i \in Nat /\ i \in 0 .. LogN BY QuerySizes
  <2> QED BY <2>1, Powers, SpreadIs
<1>2. ASSUME NEW a \in 1 .. 2 * p PROVE At(a) = Wanted(a)
  <2>1. CASE a <= p
    <3>1. a \in 1 .. p
      <4> HIDE DEF p
      <4> QED BY <1>1, <2>1
    <3> QED BY <2>1, <3>1, SpreadChildren
  <2>2. CASE ~ (a <= p)
    <3> DEFINE b == a - p
    <3>1. b \in 1 .. p /\ (b + p) - 1 = a - 1
      <4> HIDE DEF p
      <4> QED BY <1>1, <2>2
    <3>2. OddChild(s[b], i) = IF (b + p) - 1 = x % Pow2[i + 1] THEN Carried(x, i + 1) ELSE Zero
      <4>1. b \in 1 .. Pow2[i] BY <3>1
      <4> HIDE DEF b
      <4> QED BY <4>1, SpreadChildren
    <3>3. At(a) = OddChild(s[b], i) BY <2>2
    <3> HIDE DEF b, At, s, p
    <3> QED BY <3>1, <3>2, <3>3
  <2> QED BY <2>1, <2>2
<1>3. Spread(x, i + 1) = [a \in 1 .. 2 * p |-> Wanted(a)] BY <1>1 DEF Spread
<1>4. [a \in 1 .. 2 * p |-> At(a)] = [a \in 1 .. 2 * p |-> Wanted(a)]
  <2> HIDE DEF At, Wanted, p
  <2> QED BY <1>2
<1>5. [a \in 1 .. 2 * Len(s) |-> IF a <= Len(s) THEN EvenChild(s[a], i)
                                 ELSE OddChild(s[a - Len(s)], i)] = [a \in 1 .. 2 * p |-> At(a)]
  BY <1>1
<1> QED BY <1>3, <1>4, <1>5

\* The unit vector of a dimension, times the factor of the expansion.
Unit(x, n) ==
  [a \in 1 .. n |-> IF a - 1 = x THEN Monomial(Pow2[CeilLog(n)] % Modulus, 0) ELSE Zero]

\* The last step makes the vector as long as the dimension.
LEMMA SpreadLast ==
  ASSUME NEW n \in 2 .. N, NEW x \in 0 .. n - 1, NEW i, i = CeilLog(n) - 1
  PROVE  /\ i \in 0 .. LogN - 1 /\ x \in Exponents
         /\ LET s == Spread(x, i)
            IN [a \in 1 .. n |-> IF a > Len(s) THEN OddChild(s[a - Len(s)], i)
                                 ELSE IF a > n - Pow2[i] THEN Scale(2, s[a])
                                 ELSE EvenChild(s[a], i)] = Unit(x, n)
<1> DEFINE s == Spread(x, i)
           p == Pow2[i]
           At(a) == IF a > p THEN OddChild(s[a - p], i)
                    ELSE IF a > n - p THEN Scale(2, s[a])
                    ELSE EvenChild(s[a], i)
           unit == Monomial((2 * p) % Modulus, 0)
           Final(a) == IF a - 1 = x THEN unit ELSE Zero
<1>1. n \in Nat /\ n <= N /\ n >= 2 /\ x \in Nat /\ x < n /\ x \in Exponents
  BY QuerySizes DEF Exponents
<1>2. /\ CeilLog(n) \in 0 .. LogN /\ Pow2[CeilLog(n)] >= n
      /\ \A l \in 0 .. CeilLog(n) - 1: Pow2[l] < n
  BY <1>1, CeilLogIs
<1>3. i \in 0 .. LogN - 1 /\ CeilLog(n) = i + 1 /\ i \in Nat
  <2>1. CeilLog(n) # 0 BY <1>1, <1>2, Powers
  <2> QED BY <1>2, <2>1, QuerySizes
<1>4. p \in Nat \ {0} /\ Pow2[CeilLog(n)] = 2 * p /\ p < n /\ n <= 2 * p /\ Len(s) = p
  <2>1. p \in Nat \ {0} /\ Pow2[i + 1] = 2 * p BY <1>3, Powers
  <2>2. i \in 0 .. CeilLog(n) - 1 BY <1>3
  <2>3. Len(s) = p
    <3>1. i \in 0 .. LogN BY <1>3, QuerySizes
    <3> QED BY <1>1, <3>1, SpreadIs
  <2>4. p < n BY <1>2, <2>2
  <2>5. 2 * p >= n BY <1>2, <1>3, <2>1
  <2> HIDE DEF p
  <2> QED BY <1>1, <1>3, <2>1, <2>3, <2>4, <2>5
<1>5. x % (2 * p) = x /\ x \div (2 * p) = 0
  <2>1. 0 * (2 * p) + x = x /\ 2 * p \in Nat \ {0} /\ x \in 0 .. (2 * p) - 1
    <3> HIDE DEF p
    <3> QED BY <1>1, <1>4
  <2>2. 0 \in Nat OBVIOUS
  <2> DEFINE t == 2 * p
  <2>3. (0 * t + x) \div t = 0 /\ (0 * t + x) % t = x
    <3>1. t \in Nat \ {0} /\ x \in 0 .. t - 1 BY <2>1
    <3> HIDE DEF t
    <3> QED BY <2>2, <3>1, DivUnique
  <2> QED BY <2>1, <2>3
<1>6. Carried(x, i + 1) = unit
  <2>1. Pow2[i + 1] = 2 * p BY <1>3, <1>4
  <2>2. (2 * p) * 0 = 0 BY <1>4
  <2> QED BY <1>5, <2>1, <2>2 DEF Carried
<1>7. ASSUME NEW a \in 1 .. p
      PROVE  /\ EvenChild(s[a], i) = IF a - 1 = x THEN unit ELSE Zero
             /\ OddChild(s[a], i) = IF (a + p) - 1 = x THEN unit ELSE Zero
  <2>1. Pow2[i + 1] = 2 * p BY <1>3, <1>4
  <2> HIDE DEF unit
  <2> QED BY <1>1, <1>3, <1>5, <1>6, <2>1, SpreadChildren
<1>8. ASSUME NEW a \in 1 .. p, a > n - p
      PROVE  Scale(2, s[a]) = IF a - 1 = x THEN unit ELSE Zero
  <2> DEFINE h == x \div p
             r == x % p
  <2>1. h \in Nat /\ r \in 0 .. p - 1 /\ x = p * h + r
    <3> HIDE DEF p
    <3> QED BY <1>1, <1>4, DivMod
  <2>2. s[a] = IF a - 1 = r THEN Carried(x, i) ELSE Zero BY DEF Spread
  <2>3. h = 0 \/ h = 1
    <3>1. CASE h >= 2
      <4>1. p * h >= 2 * p
        <5> HIDE DEF p, h
        <5> QED BY <1>4, <2>1, <3>1
      <4>2. p * h \in Nat
        <5> HIDE DEF p, h
        <5> QED BY <1>4, <2>1
      <4> HIDE DEF p, h, r
      <4> QED BY <1>1, <1>4, <2>1, <4>1, <4>2
    <3>2. CASE ~ (h >= 2)
      <4> HIDE DEF h
      <4> QED BY <2>1, <3>2
    <3> QED BY <3>1, <3>2
  <2>4. CASE h = 0
    <3>1. x = r
      <4>1. p * h = 0
        <5> HIDE DEF p, h
        <5> QED BY <1>4, <2>4
      <4> HIDE DEF p, h, r
      <4> QED BY <1>4, <2>1, <4>1
    <3>2. Carried(x, i) = Monomial(p % Modulus, 0)
      <4>1. p * h = 0
        <5> HIDE DEF p, h
        <5> QED BY <1>4, <2>4
      <4> QED BY <4>1 DEF Carried
    <3>3. Scale(2, Monomial(p % Modulus, 0)) = unit
      <4>1. Scale(2, Monomial(p % Modulus, 0)) = Monomial((2 * (p % Modulus)) % Modulus, 0)
        <5>1. 2 \in Nat OBVIOUS
        <5> QED BY <5>1, ScaleMonomial
      <4>2. (2 * (p % Modulus)) % Modulus = (2 * p) % Modulus
        <5>1. 2 \in Nat OBVIOUS
        <5> HIDE DEF p
        <5> QED BY <1>4, <5>1, QuerySizes, RestProduct
      <4> QED BY <4>1, <4>2
    <3>4. Scale(2, Zero) = Zero BY ZeroChildren
    <3> HIDE DEF s, r, unit, p
    <3> QED BY <2>2, <3>1, <3>2, <3>3, <3>4
  <2>5. CASE h = 1
    <3>1. x = p + r
      <4> HIDE DEF p, h, r
      <4> QED BY <1>4, <2>1, <2>5
    <3>2. a - 1 # r /\ a - 1 # x
      <4> HIDE DEF p, r
      <4> QED BY <1>1, <1>4, <1>8, <2>1, <3>1
    <3>3. Scale(2, Zero) = Zero BY ZeroChildren
    <3> HIDE DEF s, r, unit, p
    <3> QED BY <2>2, <3>2, <3>3
  <2> QED BY <2>3, <2>4, <2>5
<1>9. ASSUME NEW a \in 1 .. n PROVE At(a) = Final(a)
  <2>1. CASE a > p
    <3> DEFINE b == a - p
    <3>1. b \in 1 .. p /\ (b + p) - 1 = a - 1
      <4> HIDE DEF p
      <4> QED BY <1>1, <1>4, <2>1
    <3>2. At(a) = OddChild(s[b], i) BY <2>1
    <3> HIDE DEF b, At, s, p, unit
    <3> QED BY <1>7, <3>1, <3>2
  <2>2. CASE ~ (a > p)
    <3>1. a \in 1 .. p
      <4> HIDE DEF p
      <4> QED BY <1>4, <2>2
    <3>2. At(a) = IF a > n - p THEN Scale(2, s[a]) ELSE EvenChild(s[a], i) BY <2>2
    <3> HIDE DEF At, s, p, unit
    <3> QED BY <1>7, <1>8, <3>1, <3>2
  <2> QED BY <2>1, <2>2
<1>10. [a \in 1 .. n |-> At(a)] = [a \in 1 .. n |-> Final(a)]
  <2> HIDE DEF At, Final
  <2> QED BY <1>9
<1>11. Unit(x, n) = [a \in 1 .. n |-> Final(a)] BY <1>4 DEF Unit
<1>12. [a \in 1 .. n |-> IF a > Len(s) THEN OddChild(s[a - Len(s)], i)
                         ELSE IF a > n - Pow2[i] THEN Scale(2, s[a])
                         ELSE EvenChild(s[a], i)] = [a \in 1 .. n |-> At(a)]
  BY <1>4
<1> QED BY <1>1, <1>3, <1>10, <1>11, <1>12

-----------------------------------------------------------------------------
(* The invariant *)

\* What the client decodes when both vectors select the entry of the wanted plaintext.
Decoded == ElementIn(Plaintext(Fetched(wanted[1] \div PerPtxt)))

ClientRight ==
  /\ client \in {"first", "second", "sent", "thrown", "done", "unanswered"}
  /\ client # "first" => \A d \in Dims: indices[d] \in 0 .. nvec[d] - 1
  /\ client = "thrown" => Throws
  /\ client \in {"second", "sent", "done"} =>
       ~ Throws /\ query = [d \in Dims |-> Monomial(1, Index(d))]
  /\ client \in {"sent", "done"} => scales = <<InverseScale(1), InverseScale(2)>>
  /\ client = "done" /\ ~ PastTheEnd => answer = {Decoded}

\* A thread has not begun, or it has the vector of its level, or it has the unit vector.
ServerRight(d) ==
  /\ level[d] \in 0 .. Logm(d) - 1
  /\ temp[d] \in {<<>>, Spread(Index(d), level[d])}
  /\ expanded[d] \in {<<>>, Unit(Index(d), nvec[d])}
  /\ temp[d] = <<>> /\ expanded[d] = <<>> => level[d] = 0

QueryInvariant ==
  /\ Buckets
  /\ ClientRight
  /\ level = [d \in Dims |-> level[d]]
  /\ temp = [d \in Dims |-> temp[d]]
  /\ expanded = [d \in Dims |-> expanded[d]]
  /\ \A d \in Dims: ServerRight(d)

\* The index that is queried in each dimension, and how far the expansion goes.
LEMMA IndexIs ==
  ASSUME Buckets, NEW d \in Dims
  PROVE  /\ Index(d) \in 0 .. nvec[d] - 1 /\ Index(d) \in Exponents
         /\ nvec[d] \in 2 .. N /\ Total(d) = nvec[d]
         /\ Logm(d) = CeilLog(nvec[d]) /\ Logm(d) \in 1 .. LogN
<1>1. nvec[d] \in Nat /\ nvec[d] >= 2 /\ nvec[d] <= N /\ N \in Nat \ {0} BY BucketsAre, QuerySizes
<1>2. Index(d) \in 0 .. nvec[d] - 1
  <2> DEFINE w == wanted[1] \div PerPtxt
  <2>1. w \in 0 .. PlaintextsPerDb(elements) - 1 BY BucketsAre
  <2>2. /\ PlaintextsPerDb(elements) \in Nat /\ PlaintextsPerDb(elements) <= nvec[1] * nvec[2]
        /\ nvec[1] * nvec[2] \in Nat
    BY BucketsAre DEF Dims
  <2>3. w \in Nat /\ w < nvec[1] * nvec[2]
    <3> HIDE DEF w
    <3> QED BY <2>1, <2>2
  <2>4. \A e \in Dims: ComputeIndices(w)[e] \in 0 .. nvec[e] - 1
    <3> HIDE DEF w
    <3> QED BY <2>3, IndicesOf DEF Dims
  <2> QED BY <2>4 DEF Index
<1>3. Index(d) \in Exponents BY <1>1, <1>2 DEF Exponents
<1>4. Total(d) = nvec[d]
  <2>1. nvec[d] - 1 \in 0 .. N - 1 BY <1>1
  <2>2. (nvec[d] - 1) % N = nvec[d] - 1 BY <1>1, <2>1
  <2> QED BY <1>1, <2>2 DEF Total
<1>5. Logm(d) = CeilLog(nvec[d]) BY <1>4 DEF Logm
<1>6. CeilLog(nvec[d]) \in 1 .. LogN
  <2>1. CeilLog(nvec[d]) \in 0 .. LogN /\ Pow2[CeilLog(nvec[d])] >= nvec[d] BY <1>1, CeilLogIs
  <2>2. CeilLog(nvec[d]) # 0 BY <1>1, <2>1, Powers
  <2> QED BY <2>1, <2>2, QuerySizes
<1> QED BY <1>1, <1>2, <1>3, <1>4, <1>5, <1>6

\* The query is the vector of the first level.
LEMMA SpreadFirst ==
  ASSUME NEW x \in Exponents
  PROVE  Spread(x, 0) = <<Monomial(1, x)>>
<1>1. x \in Nat BY QuerySizes DEF Exponents
<1>2. x % 1 = 0 /\ 1 * (x \div 1) = x BY <1>1
<1>3. 1 % Modulus = 1 BY QuerySizes
<1>4. Pow2[0] = 1 BY Powers
<1>5. Carried(x, 0) = Monomial(1, x) BY <1>2, <1>3, <1>4 DEF Carried
<1>6. Spread(x, 0) = [a \in 1 .. 1 |-> IF a - 1 = 0 THEN Monomial(1, x) ELSE Zero]
  BY <1>2, <1>4, <1>5 DEF Spread
<1> DEFINE m == Monomial(1, x)
<1>7. [a \in 1 .. 1 |-> IF a - 1 = 0 THEN m ELSE Zero] = <<m>>
  <2> HIDE DEF m
  <2> QED OBVIOUS
<1> QED BY <1>6, <1>7

LEMMA UnitIs ==
  ASSUME NEW n \in 2 .. N, NEW x \in 0 .. n - 1
  PROVE  /\ Unit(x, n) \in Seq(Poly) /\ Len(Unit(x, n)) = n /\ Unit(x, n) # <<>>
         /\ \A a \in 1 .. n: Unit(x, n)[a] = IF a - 1 = x
                                             THEN Monomial(Pow2[CeilLog(n)] % Modulus, 0) ELSE Zero
<1> DEFINE unit == Monomial(Pow2[CeilLog(n)] % Modulus, 0)
<1>1. n \in Nat /\ n >= 2 BY QuerySizes
<1>2. unit \in Poly /\ Zero \in Poly
  <2>1. CeilLog(n) \in Nat
    <3>1. n <= N BY QuerySizes
    <3> QED BY <1>1, <3>1, CeilLogIs, QuerySizes
  <2>2. Pow2[CeilLog(n)] % Modulus \in 0 .. Modulus - 1 BY <2>1, Powers, QuerySizes, DivMod
  <2> QED BY <2>2, MonomialIs
<1> HIDE DEF unit
<1>3. Unit(x, n) = [a \in 1 .. n |-> IF a - 1 = x THEN unit ELSE Zero] BY DEF Unit, unit
<1>4. Unit(x, n) \in [1 .. n -> Poly] BY <1>2, <1>3
<1>5. Unit(x, n) \in Seq(Poly) /\ DOMAIN Unit(x, n) = 1 .. n BY <1>1, <1>4
<1>6. Len(Unit(x, n)) = n BY <1>1, <1>5
<1>7. Unit(x, n) # <<>> BY <1>1, <1>6
<1> QED BY <1>3, <1>5, <1>6, <1>7 DEF unit

\* The vectors select the entry of the wanted element's plaintext, and no other.
LEMMA SelectedIs ==
  ASSUME Buckets, ~ Throws, scales = <<InverseScale(1), InverseScale(2)>>,
         \A d \in Dims: expanded[d] = Unit(Index(d), nvec[d])
  PROVE  Selected = {wanted[1] \div PerPtxt}
<1> DEFINE w == wanted[1] \div PerPtxt
           one == Monomial(1, 0)
<1>1. /\ w \in 0 .. PlaintextsPerDb(elements) - 1
      /\ PlaintextsPerDb(elements) \in Nat /\ PlaintextsPerDb(elements) <= nvec[1] * nvec[2]
      /\ nvec[1] * nvec[2] \in Nat
  BY BucketsAre DEF Dims
<1>2. w \in Nat /\ w < nvec[1] * nvec[2] /\ w \in 0 .. nvec[1] * nvec[2] - 1
  <2> HIDE DEF w
  <2> QED BY <1>1
<1>3. \A d \in Dims: Index(d) = ComputeIndices(w)[d] BY DEF Index
<1> HIDE DEF w
<1>4. one # Zero
  <2>1. 0 \in Exponents BY QuerySizes DEF Exponents
  <2>2. one[0] = 1 /\ Zero[0] = 0 BY <2>1 DEF Monomial, Zero
  <2> HIDE DEF one
  <2> QED BY <2>2
<1>5. ASSUME NEW d \in Dims, NEW a \in 1 .. nvec[d]
      PROVE  Scale(scales[d], expanded[d][a]) = IF a - 1 = Index(d) THEN one ELSE Zero
  <2> DEFINE s == InverseScale(d)
             x == Pow2[CeilLog(nvec[d])]
  <2>1. /\ s \in 1 .. Modulus - 1 /\ (s * Pow2[Logm(d)]) % Modulus = 1
        /\ Logm(d) = CeilLog(nvec[d]) /\ Logm(d) \in Nat
        /\ nvec[d] \in 2 .. N /\ Index(d) \in 0 .. nvec[d] - 1
    BY ThrowsIs, IndexIs, QuerySizes
  <2>2. scales[d] = s BY DEF Dims
  <2>3. s \in Nat /\ x \in Nat
    <3>1. x \in Nat BY <2>1, Powers
    <3> HIDE DEF s
    <3> QED BY <2>1, <3>1, QuerySizes
  <2>4. (s * (x % Modulus)) % Modulus = 1
    <3>1. (s * x) % Modulus = 1 BY <2>1
    <3> HIDE DEF s, x
    <3> QED BY <2>3, <3>1, QuerySizes, RestProduct
  <2>5. expanded[d][a] = IF a - 1 = Index(d) THEN Monomial(x % Modulus, 0) ELSE Zero
    BY <2>1, UnitIs
  <2> HIDE DEF s, x
  <2>6. Scale(s, Monomial(x % Modulus, 0)) = one BY <2>3, <2>4, ScaleMonomial
  <2>7. Scale(s, Zero) = Zero
    <3>1. (s * 0) % Modulus = 0 BY <2>3, QuerySizes
    <3> QED BY <2>3, <3>1, ScaleMonomial DEF Zero
  <2> QED BY <2>2, <2>5, <2>6, <2>7
<1> DEFINE Is(p) == \A d \in Dims: \A a \in 1 .. nvec[d]:
                      Scale(scales[d], expanded[d][a]) =
                        Monomial(IF a - 1 = <<p \div nvec[2], p % nvec[2]>>[d] THEN 1 ELSE 0, 0)
<1>6. ASSUME NEW p \in 0 .. nvec[1] * nvec[2] - 1
      PROVE  Is(p) <=> p = w
  <2>0. p \in Nat /\ p < nvec[1] * nvec[2] BY <1>1
  <2> DEFINE at == <<p \div nvec[2], p % nvec[2]>>
  <2>1. /\ ComputeIndices(p) = at
        /\ p \div nvec[2] \in 0 .. nvec[1] - 1 /\ p % nvec[2] \in 0 .. nvec[2] - 1
        /\ p = nvec[2] * (p \div nvec[2]) + (p % nvec[2])
    BY <2>0, IndicesOf
  <2>2. /\ ComputeIndices(w) = <<w \div nvec[2], w % nvec[2]>>
        /\ w = nvec[2] * (w \div nvec[2]) + (w % nvec[2])
    BY <1>2, IndicesOf
  <2>3. \A d \in Dims: at[d] \in 0 .. nvec[d] - 1 BY <2>1 DEF Dims
  <2>4. \A d \in Dims: nvec[d] \in Nat /\ Index(d) \in 0 .. nvec[d] - 1
    BY IndexIs, BucketsAre
  <2>5. ASSUME Is(p), NEW d \in Dims PROVE at[d] = Index(d)
    <3> DEFINE a == Index(d) + 1
    <3>1. a \in 1 .. nvec[d] /\ a - 1 = Index(d) BY <2>4
    <3>2. Scale(scales[d], expanded[d][a]) = Monomial(IF a - 1 = at[d] THEN 1 ELSE 0, 0)
      BY <2>5, <3>1
    <3>3. Scale(scales[d], expanded[d][a]) = one BY <1>5, <3>1
    <3> HIDE DEF a, at
    <3>4. CASE a - 1 # at[d]
      <4>1. one = Zero BY <3>2, <3>3, <3>4 DEF Zero
      <4> QED BY <1>4, <4>1
    <3> QED BY <3>1, <3>4
  <2>6. ASSUME Is(p) PROVE p = w
    <3>1. at[1] = ComputeIndices(w)[1] /\ at[2] = ComputeIndices(w)[2]
      <4> HIDE DEF Is, at
      <4> QED BY <1>3, <2>5, <2>6 DEF Dims
    <3>2. p \div nvec[2] = w \div nvec[2] /\ p % nvec[2] = w % nvec[2] BY <2>2, <3>1
    <3> QED BY <2>1, <2>2, <3>2
  <2>7. ASSUME p = w PROVE Is(p)
    <3>1. \A d \in Dims: at[d] = Index(d) BY <1>3, <2>1, <2>7
    <3>2. ASSUME NEW d \in Dims, NEW a \in 1 .. nvec[d]
          PROVE  Scale(scales[d], expanded[d][a]) = Monomial(IF a - 1 = at[d] THEN 1 ELSE 0, 0)
      <4> HIDE DEF at
      <4> QED BY <1>5, <3>1 DEF Zero
    <3> QED BY <3>2
  <2> HIDE DEF Is
  <2> QED BY <2>6, <2>7
<1>7. Selected = {p \in 0 .. nvec[1] * nvec[2] - 1: Is(p)} BY DEF Selected
<1> HIDE DEF Is
<1>8. Selected = {w} BY <1>2, <1>6, <1>7
<1> QED BY <1>8 DEF w

\* What depends on the buckets alone stays as long as they do.
LEMMA BucketsStay ==
  ASSUME UNCHANGED bucketVars
  PROVE  /\ Buckets' = Buckets /\ nvec' = nvec /\ Throws' = Throws /\ Decoded' = Decoded
         /\ PastTheEnd' = PastTheEnd
         /\ \A d \in Dims: /\ Index(d)' = Index(d) /\ Logm(d)' = Logm(d)
                           /\ InverseScale(d)' = InverseScale(d)
<1>1. elements' = elements /\ wanted' = wanted /\ nvec' = nvec /\ numThread' = numThread
  BY DEF bucketVars
<1>2. Buckets' = Buckets BY <1>1 DEF Buckets
<1>3. Throws' = Throws BY <1>1 DEF Throws, InverseScale, ClientLog
<1>4. Decoded' = Decoded
  <2>1. FirstColumns' = FirstColumns BY <1>1 DEF FirstColumns
  <2>2. Fetched(wanted[1] \div PerPtxt)' = Fetched(wanted[1] \div PerPtxt)
    BY <1>1, <2>1 DEF Fetched
  <2> QED BY <1>1, <2>2 DEF Decoded, ElementIn, Plaintext, PlaintextBytes
<1>6. PastTheEnd' = PastTheEnd BY <1>1 DEF PastTheEnd
<1>5. \A d \in Dims: /\ Index(d)' = Index(d) /\ Logm(d)' = Logm(d)
                     /\ InverseScale(d)' = InverseScale(d)
  BY <1>1 DEF Index, ComputeIndices, Logm, Total, InverseScale, ClientLog
<1> QED BY <1>1, <1>2, <1>3, <1>4, <1>5, <1>6

LEMMA InitRight ==
  QueryInit => QueryInvariant
<1> SUFFICES ASSUME QueryInit PROVE QueryInvariant
  OBVIOUS
<1>1. Buckets
  <2>1. elements \in Nat \ {0} BY CountsAssumption DEF QueryInit
  <2>2. {0, elements - 1} \subseteq 0 .. elements - 1 BY <2>1
  <2>3. wanted \in (0 .. elements - 1) \X (0 .. elements - 1)
    <3>1. wanted \in (0 .. elements - 1) \X {0, elements - 1} BY DEF QueryInit
    <3> QED BY <2>2, <3>1
  <2> QED BY <2>3 DEF QueryInit, Buckets
<1>2. ClientRight BY DEF QueryInit, ClientRight
<1>3. ASSUME NEW d \in Dims PROVE ServerRight(d)
  <2>1. level[d] = 0 /\ temp[d] = <<>> /\ expanded[d] = <<>> BY DEF QueryInit
  <2>2. 0 \in 0 .. Logm(d) - 1 BY <1>1, IndexIs, QuerySizes
  <2> QED BY <2>1, <2>2 DEF ServerRight
<1>4. /\ level = [d \in Dims |-> level[d]] /\ temp = [d \in Dims |-> temp[d]]
      /\ expanded = [d \in Dims |-> expanded[d]]
  BY DEF QueryInit
<1> QED BY <1>1, <1>2, <1>3, <1>4 DEF QueryInvariant

\* The server's part does not change with the client's.
LEMMA ServerStays ==
  ASSUME QueryInvariant, UNCHANGED <<bucketVars, serverVars>>
  PROVE  /\ Buckets' /\ \A d \in Dims: ServerRight(d)'
         /\ (level = [d \in Dims |-> level[d]])' /\ (temp = [d \in Dims |-> temp[d]])'
         /\ (expanded = [d \in Dims |-> expanded[d]])'
<1>1. level' = level /\ temp' = temp /\ expanded' = expanded BY DEF serverVars
<1>2. UNCHANGED bucketVars OBVIOUS
<1>3. /\ Buckets' = Buckets /\ nvec' = nvec
      /\ \A d \in Dims: Index(d)' = Index(d) /\ Logm(d)' = Logm(d)
  BY <1>2, BucketsStay
<1>4. ASSUME NEW d \in Dims PROVE ServerRight(d)'
  <2>1. ServerRight(d) BY DEF QueryInvariant
  <2>2. Spread(Index(d), level[d])' = Spread(Index(d), level[d])
    BY <1>1, <1>3 DEF Spread, Carried
  <2>3. Unit(Index(d), nvec[d])' = Unit(Index(d), nvec[d]) BY <1>3 DEF Unit
  <2> QED BY <1>1, <1>3, <2>1, <2>2, <2>3 DEF ServerRight
<1> QED BY <1>1, <1>3, <1>4 DEF QueryInvariant

\* The client's part does not change with the server's.
LEMMA ClientStays ==
  ASSUME QueryInvariant, UNCHANGED <<bucketVars, clientVars>>
  PROVE  Buckets' /\ ClientRight'
<1>1. /\ client' = client /\ indices' = indices /\ scales' = scales /\ query' = query
      /\ answer' = answer
  BY DEF clientVars
<1>2. UNCHANGED bucketVars OBVIOUS
<1>3. /\ Buckets' = Buckets /\ nvec' = nvec /\ Throws' = Throws /\ Decoded' = Decoded
      /\ PastTheEnd' = PastTheEnd
      /\ \A d \in Dims: Index(d)' = Index(d) /\ InverseScale(d)' = InverseScale(d)
  BY <1>2, BucketsStay
<1>4. Buckets /\ ClientRight BY DEF QueryInvariant
<1>5. [d \in Dims |-> Monomial(1, Index(d))]' = [d \in Dims |-> Monomial(1, Index(d))]
  BY <1>3 DEF Monomial
<1>6. <<InverseScale(1), InverseScale(2)>>' = <<InverseScale(1), InverseScale(2)>>
  BY <1>3 DEF Dims
<1>7. ClientRight' BY <1>1, <1>3, <1>4, <1>5, <1>6 DEF ClientRight
<1> QED BY <1>3, <1>4, <1>7

\* generate_query for either bucket.
LEMMA GenerateRight ==
  ASSUME QueryInvariant, NEW from, NEW bucket, NEW to,
         <<from, bucket, to>> \in {<<"first", 1, "second">>, <<"second", 2, "sent">>},
         GenerateQuery(from, bucket, to)
  PROVE  QueryInvariant'
<1>1. UNCHANGED bucketVars /\ UNCHANGED serverVars /\ answer' = answer /\ client = from
  BY DEF GenerateQuery
<1>2. /\ Buckets' = Buckets /\ nvec' = nvec /\ Throws' = Throws /\ Decoded' = Decoded
      /\ PastTheEnd' = PastTheEnd
      /\ \A d \in Dims: Index(d)' = Index(d) /\ InverseScale(d)' = InverseScale(d)
  BY <1>1, BucketsStay
<1>3. Buckets /\ ClientRight BY DEF QueryInvariant
<1>4. bucket \in {1, 2} OBVIOUS
<1>5. \A d \in Dims: indices'[d] \in 0 .. nvec[d] - 1
  <2> DEFINE w == wanted[bucket] \div PerPtxt
  <2>1. /\ w \in 0 .. PlaintextsPerDb(elements) - 1
        /\ PlaintextsPerDb(elements) \in Nat /\ PlaintextsPerDb(elements) <= nvec[1] * nvec[2]
        /\ nvec[1] * nvec[2] \in Nat
    BY <1>3, <1>4, BucketsAre DEF Dims
  <2>2. w \in Nat /\ w < nvec[1] * nvec[2]
    <3> HIDE DEF w
    <3> QED BY <2>1
  <2>3. indices' = ComputeIndices(w) BY DEF GenerateQuery
  <2> HIDE DEF w
  <2>4. /\ ComputeIndices(w) = <<w \div nvec[2], w % nvec[2]>>
        /\ w \div nvec[2] \in 0 .. nvec[1] - 1 /\ w % nvec[2] \in 0 .. nvec[2] - 1
    BY <1>3, <2>2, IndicesOf
  <2> QED BY <2>3, <2>4 DEF Dims
<1>6. [d \in Dims |-> Monomial(1, Index(d))]' = [d \in Dims |-> Monomial(1, Index(d))]
  BY <1>2 DEF Monomial
<1>7. <<InverseScale(1), InverseScale(2)>>' = <<InverseScale(1), InverseScale(2)>>
  BY <1>2 DEF Dims
<1>8. ClientRight'
  <2>1. CASE Throws
    <3>1. client' = "thrown" BY <2>1 DEF GenerateQuery
    <3> QED BY <1>2, <1>5, <2>1, <3>1 DEF ClientRight
  <2>2. CASE ~ Throws
    <3>1. client' = to /\ scales' = <<InverseScale(1), InverseScale(2)>>
      BY <2>2 DEF GenerateQuery
    <3>2. query' = [d \in Dims |-> Monomial(1, Index(d))]
      <4>1. CASE bucket = 1
        <5>1. indices' = ComputeIndices(wanted[1] \div PerPtxt) BY <4>1 DEF GenerateQuery
        <5>2. \A d \in Dims: indices'[d] = Index(d) BY <5>1 DEF Index
        <5>3. query' = [d \in Dims |-> Monomial(1, indices'[d])] BY <2>2, <4>1 DEF GenerateQuery
        <5> QED BY <5>2, <5>3
      <4>2. CASE bucket # 1
        <5>1. query' = query BY <2>2, <4>2 DEF GenerateQuery
        <5>2. client = "second" BY <1>1, <4>2
        <5> QED BY <1>3, <5>1, <5>2 DEF ClientRight
      <4> QED BY <4>1, <4>2
    <3>3. to \in {"second", "sent"} OBVIOUS
    <3> QED BY <1>2, <1>5, <1>6, <1>7, <2>2, <3>1, <3>2, <3>3 DEF ClientRight
  <2> QED BY <2>1, <2>2
<1> QED BY <1>1, <1>8, ServerStays DEF QueryInvariant

\* decode_reply.
LEMMA DecodeRight ==
  ASSUME QueryInvariant, DecodeReply
  PROVE  QueryInvariant'
<1>1. /\ client = "sent" /\ client' \in {"done", "unanswered"}
      /\ \A d \in Dims: expanded[d] # <<>>
      /\ indices' = indices /\ scales' = scales /\ query' = query
      /\ UNCHANGED bucketVars /\ UNCHANGED serverVars
  BY DEF DecodeReply
<1>2. /\ Buckets' = Buckets /\ nvec' = nvec /\ Throws' = Throws /\ Decoded' = Decoded
      /\ PastTheEnd' = PastTheEnd
      /\ \A d \in Dims: Index(d)' = Index(d) /\ InverseScale(d)' = InverseScale(d)
  BY <1>1, BucketsStay
<1>3. /\ Buckets /\ ~ Throws /\ scales = <<InverseScale(1), InverseScale(2)>>
      /\ query = [d \in Dims |-> Monomial(1, Index(d))]
      /\ \A d \in Dims: indices[d] \in 0 .. nvec[d] - 1
  BY <1>1 DEF QueryInvariant, ClientRight
<1>4. \A d \in Dims: expanded[d] = Unit(Index(d), nvec[d])
  BY <1>1 DEF QueryInvariant, ServerRight
<1>5. Selected = {wanted[1] \div PerPtxt} BY <1>3, <1>4, SelectedIs
<1>6. ~ PastTheEnd => answer' = {Decoded}
  <2> SUFFICES ASSUME ~ PastTheEnd PROVE answer' = {Decoded}
    OBVIOUS
  <2>1. answer' = {ElementIn(Plaintext(Fetched(p))) : p \in Selected} BY DEF DecodeReply
  <2> QED BY <1>5, <2>1 DEF Decoded
<1>7. [d \in Dims |-> Monomial(1, Index(d))]' = [d \in Dims |-> Monomial(1, Index(d))]
  BY <1>2 DEF Monomial
<1>8. <<InverseScale(1), InverseScale(2)>>' = <<InverseScale(1), InverseScale(2)>>
  BY <1>2 DEF Dims
<1>9. ClientRight' BY <1>1, <1>2, <1>3, <1>6, <1>7, <1>8 DEF ClientRight
<1> QED BY <1>1, <1>9, ServerStays DEF QueryInvariant

\* A step of one thread, when what it leaves of its own dimension is right.
LEMMA ThreadRight ==
  ASSUME QueryInvariant, NEW d \in Dims, UNCHANGED <<bucketVars, clientVars>>,
         NEW l, NEW t, NEW x,
         level' = [level EXCEPT ![d] = l], temp' = [temp EXCEPT ![d] = t],
         expanded' = [expanded EXCEPT ![d] = x],
         l \in 0 .. Logm(d) - 1, t \in {<<>>, Spread(Index(d), l)},
         x \in {<<>>, Unit(Index(d), nvec[d])}, ~ (t = <<>> /\ x = <<>>)
  PROVE  QueryInvariant'
<1>1. UNCHANGED bucketVars OBVIOUS
<1>2. /\ nvec' = nvec
      /\ \A e \in Dims: Index(e)' = Index(e) /\ Logm(e)' = Logm(e)
  BY <1>1, BucketsStay
<1>3. /\ level = [e \in Dims |-> level[e]] /\ temp = [e \in Dims |-> temp[e]]
      /\ expanded = [e \in Dims |-> expanded[e]]
  BY DEF QueryInvariant
<1>4. /\ level' = [e \in Dims |-> IF e = d THEN l ELSE level[e]]
      /\ temp' = [e \in Dims |-> IF e = d THEN t ELSE temp[e]]
      /\ expanded' = [e \in Dims |-> IF e = d THEN x ELSE expanded[e]]
  BY <1>3
<1>5. ASSUME NEW e \in Dims PROVE ServerRight(e)'
  <2>1. Spread(Index(e), level[e])' = Spread(Index(e), level'[e])
    BY <1>2 DEF Spread, Carried
  <2>2. Unit(Index(e), nvec[e])' = Unit(Index(e), nvec[e]) BY <1>2 DEF Unit
  <2>3. CASE e = d
    <3>1. level'[e] = l /\ temp'[e] = t /\ expanded'[e] = x BY <1>4, <2>3
    <3> QED BY <1>2, <2>1, <2>2, <2>3, <3>1 DEF ServerRight
  <2>4. CASE e # d
    <3>1. level'[e] = level[e] /\ temp'[e] = temp[e] /\ expanded'[e] = expanded[e]
      BY <1>4, <2>4
    <3>2. ServerRight(e) BY DEF QueryInvariant
    <3> QED BY <1>2, <2>1, <2>2, <3>1, <3>2 DEF ServerRight
  <2> QED BY <2>3, <2>4
<1>6. /\ (level = [e \in Dims |-> level[e]])' /\ (temp = [e \in Dims |-> temp[e]])'
      /\ (expanded = [e \in Dims |-> expanded[e]])'
  BY <1>4
<1> QED BY <1>5, <1>6, ClientStays DEF QueryInvariant

LEMMA ExpandBeginRight ==
  ASSUME QueryInvariant, NEW d \in Dims, ExpandBegin(d)
  PROVE  QueryInvariant'
<1>1. /\ client = "sent" /\ temp[d] = <<>> /\ expanded[d] = <<>>
      /\ temp' = [temp EXCEPT ![d] = <<query[d]>>]
      /\ UNCHANGED <<bucketVars, clientVars>> /\ level' = level /\ expanded' = expanded
  BY DEF ExpandBegin
<1>2. Buckets /\ ServerRight(d) /\ query = [e \in Dims |-> Monomial(1, Index(e))]
  BY <1>1 DEF QueryInvariant, ClientRight
<1>3. level[d] = 0 /\ 0 \in 0 .. Logm(d) - 1 BY <1>1, <1>2 DEF ServerRight
<1>4. Index(d) \in Exponents BY <1>2, IndexIs
<1>5. <<query[d]>> = Spread(Index(d), 0) BY <1>2, <1>4, SpreadFirst
<1>6. <<query[d]>> # <<>> OBVIOUS
<1>7. /\ level = [e \in Dims |-> level[e]] /\ expanded = [e \in Dims |-> expanded[e]]
  BY DEF QueryInvariant
<1>8. level' = [level EXCEPT ![d] = 0] /\ expanded' = [expanded EXCEPT ![d] = <<>>]
  BY <1>1, <1>3, <1>7
<1> QED BY <1>1, <1>3, <1>5, <1>6, <1>8, ThreadRight

LEMMA ExpandLevelRight ==
  ASSUME QueryInvariant, NEW d \in Dims, ExpandLevel(d)
  PROVE  QueryInvariant'
<1> DEFINE i == level[d]
           s == temp[d]
           t == [a \in 1 .. 2 * Len(s) |-> IF a <= Len(s) THEN EvenChild(s[a], i)
                                           ELSE OddChild(s[a - Len(s)], i)]
<1>1. /\ Len(s) > 0 /\ i < Logm(d) - 1
      /\ temp' = [temp EXCEPT ![d] = t] /\ level' = [level EXCEPT ![d] = i + 1]
      /\ UNCHANGED <<bucketVars, clientVars>> /\ expanded' = expanded
  BY DEF ExpandLevel
<1>2. Buckets /\ ServerRight(d) BY DEF QueryInvariant
<1>3. Index(d) \in Exponents /\ Logm(d) \in 1 .. LogN BY <1>2, IndexIs
<1>4. i \in 0 .. Logm(d) - 1 /\ i \in 0 .. LogN - 1 /\ i + 1 \in 0 .. Logm(d) - 1
      /\ i + 1 \in 0 .. LogN
  <2>1. i \in 0 .. Logm(d) - 1 BY <1>2 DEF ServerRight
  <2> HIDE DEF i
  <2> QED BY <1>1, <1>3, <2>1, QuerySizes
<1>5. s = Spread(Index(d), i)
  <2>1. s # <<>> BY <1>1
  <2> QED BY <1>2, <2>1 DEF ServerRight
<1>6. t = Spread(Index(d), i + 1)
  <2> HIDE DEF i, s
  <2> QED BY <1>3, <1>4, <1>5, SpreadLevel
<1>7. t # <<>>
  <2> HIDE DEF t, i
  <2> QED BY <1>3, <1>4, <1>6, SpreadIs
<1>8. expanded' = [expanded EXCEPT ![d] = expanded[d]]
  BY <1>1 DEF QueryInvariant
<1>9. expanded[d] \in {<<>>, Unit(Index(d), nvec[d])} BY <1>2 DEF ServerRight
<1> HIDE DEF t, i
<1> QED BY <1>1, <1>4, <1>6, <1>7, <1>8, <1>9, ThreadRight

LEMMA ExpandLastRight ==
  ASSUME QueryInvariant, NEW d \in Dims, ExpandLast(d)
  PROVE  QueryInvariant'
<1> DEFINE i == level[d]
           s == temp[d]
           n == nvec[d]
           x == [a \in 1 .. n |-> IF a > Len(s) THEN OddChild(s[a - Len(s)], i)
                                  ELSE IF a > n - Pow2[i] THEN Scale(2, s[a])
                                  ELSE EvenChild(s[a], i)]
<1>1. Buckets /\ ServerRight(d) BY DEF QueryInvariant
<1>2. /\ Index(d) \in 0 .. n - 1 /\ n \in 2 .. N /\ Total(d) = n /\ Logm(d) = CeilLog(n)
      /\ Logm(d) \in 1 .. LogN
  BY <1>1, IndexIs
<1>3. Len(s) > 0 /\ i = Logm(d) - 1 /\ temp' = [temp EXCEPT ![d] = <<>>]
      /\ UNCHANGED <<bucketVars, clientVars>> /\ level' = level
  BY DEF ExpandLast
<1>4. expanded' = [expanded EXCEPT ![d] = x]
  BY <1>2, <1>3 DEF ExpandLast
<1>5. s = Spread(Index(d), i)
  <2>1. s # <<>> BY <1>3
  <2> QED BY <1>1, <2>1 DEF ServerRight
<1>6. x = Unit(Index(d), n)
  <2>1. i = CeilLog(n) - 1 BY <1>2, <1>3
  <2> HIDE DEF i, s, n
  <2> QED BY <1>2, <1>5, <2>1, SpreadLast
<1>7. x # <<>>
  <2> HIDE DEF x, n
  <2> QED BY <1>2, <1>6, UnitIs
<1>8. level' = [level EXCEPT ![d] = i] /\ i \in 0 .. Logm(d) - 1
  BY <1>1, <1>3 DEF QueryInvariant, ServerRight
<1>9. x \in {<<>>, Unit(Index(d), nvec[d])} BY <1>6
<1> HIDE DEF x, i, s, n
<1>10. <<>> \in {<<>>, Spread(Index(d), i)} OBVIOUS
<1> QED BY <1>3, <1>4, <1>7, <1>8, <1>9, <1>10, ThreadRight

\* The invariant: it says of each stage of the client what it has, and of each thread which
\* vector of monomials its ciphertexts are.
THEOREM QueryInvariantHolds ==
  QuerySpec => []QueryInvariant
<1>1. QueryInvariant /\ [QueryNext]_queryVars => QueryInvariant'
  <2> SUFFICES ASSUME QueryInvariant, [QueryNext]_queryVars PROVE QueryInvariant'
    OBVIOUS
  <2>1. CASE GenerateQuery("first", 1, "second") BY <2>1, GenerateRight
  <2>2. CASE GenerateQuery("second", 2, "sent") BY <2>2, GenerateRight
  <2>3. ASSUME NEW d \in Dims, ExpandThread(d) PROVE QueryInvariant'
    BY <2>3, ExpandBeginRight, ExpandLevelRight, ExpandLastRight DEF ExpandThread
  <2>4. CASE DecodeReply BY <2>4, DecodeRight
  <2>5. CASE UNCHANGED queryVars
    <3>1. UNCHANGED <<bucketVars, clientVars>> /\ UNCHANGED <<bucketVars, serverVars>>
      BY <2>5 DEF queryVars
    <3> QED BY <3>1, ClientStays, ServerStays DEF QueryInvariant
  <2> QED BY <2>1, <2>2, <2>3, <2>4, <2>5 DEF QueryNext
<1> QED BY <1>1, InitRight, PTL DEF QuerySpec

\* Every variable holds a value the code can give it: the indices lie in the dimensions, the
\* scales are units of the modulus and every ciphertext is a polynomial.
THEOREM QueryTypes ==
  QuerySpec => []QueryTypeOK
<1>1. QueryInvariant => QueryTypeOK
  <2> SUFFICES ASSUME QueryInvariant PROVE QueryTypeOK
    OBVIOUS
  <2>1. Buckets /\ ClientRight BY DEF QueryInvariant
  <2>2. ASSUME NEW d \in Dims
        PROVE  /\ level[d] \in 0 .. LogN - 1
               /\ temp[d] \in Seq(Poly)
               /\ expanded[d] \in Seq(Poly)
    <3>1. ServerRight(d) BY DEF QueryInvariant
    <3>2. /\ Index(d) \in Exponents /\ Index(d) \in 0 .. nvec[d] - 1 /\ nvec[d] \in 2 .. N
          /\ Logm(d) \in 1 .. LogN
      BY <2>1, IndexIs
    <3>3. level[d] \in 0 .. LogN - 1 /\ level[d] \in 0 .. LogN
      <4>1. level[d] \in 0 .. Logm(d) - 1 BY <3>1 DEF ServerRight
      <4> QED BY <3>2, <4>1, QuerySizes
    <3>4. <<>> \in Seq(Poly) OBVIOUS
    <3>5. temp[d] \in Seq(Poly) BY <3>1, <3>2, <3>3, <3>4, SpreadIs DEF ServerRight
    <3>6. expanded[d] \in Seq(Poly) BY <3>1, <3>2, <3>4, UnitIs DEF ServerRight
    <3> QED BY <3>3, <3>5, <3>6
  <2>3. client \in {"sent", "done"} =>
          DOMAIN scales = Dims /\ \A d \in Dims: scales[d] \in 1 .. Modulus - 1
    <3> SUFFICES ASSUME client \in {"sent", "done"}
                 PROVE DOMAIN scales = Dims /\ \A d \in Dims: scales[d] \in 1 .. Modulus - 1
      OBVIOUS
    <3>1. ~ Throws /\ scales = <<InverseScale(1), InverseScale(2)>> BY <2>1 DEF ClientRight
    <3>2. \A d \in Dims: InverseScale(d) \in 1 .. Modulus - 1 BY <2>1, <3>1, ThrowsIs
    <3>3. DOMAIN scales = Dims /\ \A d \in Dims: scales[d] = InverseScale(d) BY <3>1 DEF Dims
    <3> QED BY <3>2, <3>3
  <2> QED BY <2>1, <2>2, <2>3 DEF QueryTypeOK, ClientRight, Buckets
<1> QED BY <1>1, QueryInvariantHolds, PTL

\* What a thread of the server's expansion hands over is the unit vector of the queried
\* index, as long as the dimension, every entry with the same factor.
THEOREM ExpansionRight ==
  QuerySpec => []ExpandedIsUnit
<1>1. QueryInvariant => ExpandedIsUnit
  <2> SUFFICES ASSUME QueryInvariant, NEW d \in Dims, expanded[d] # <<>>
               PROVE  /\ Len(expanded[d]) = nvec[d]
                      /\ \A a \in 1 .. nvec[d]:
                           expanded[d][a] = IF a - 1 = Index(d)
                                            THEN Monomial(Pow2[Logm(d)] % Modulus, 0) ELSE Zero
    BY DEF ExpandedIsUnit
  <2>1. expanded[d] = Unit(Index(d), nvec[d]) BY DEF QueryInvariant, ServerRight
  <2>2. nvec[d] \in 2 .. N /\ Index(d) \in 0 .. nvec[d] - 1 /\ Logm(d) = CeilLog(nvec[d])
    BY IndexIs DEF QueryInvariant
  <2> QED BY <2>1, <2>2, UnitIs
<1> QED BY <1>1, QueryInvariantHolds, PTL

\* The inverse of the factor that compute_inverse_scales takes is right for every dimension
\* below N: it throws for no other than a full one.
THEOREM ThrowsRight ==
  QuerySpec => []ThrowsOnlyWhenFull
<1>1. QueryInvariant => ThrowsOnlyWhenFull
  BY ThrowsIs DEF QueryInvariant, ClientRight, ThrowsOnlyWhenFull
<1> QED BY <1>1, QueryInvariantHolds, PTL

-----------------------------------------------------------------------------
(* Loops *)

\* A loop of at most n rounds has results, when a round makes a state of a state.
HasRounds(S, s, F, n) ==
  \E g \in [0 .. n -> S]: g[0] = s /\ \A i \in 0 .. n - 1: g[i + 1] = F[g[i]]

\* By the least number of rounds that would have none.
LEMMA RoundsExist ==
  ASSUME NEW S, NEW s \in S, NEW F \in [S -> S], NEW n \in Nat
  PROVE  HasRounds(S, s, F, n)
<1> DEFINE Good(m) == HasRounds(S, s, F, m)
           B == {m \in Nat: ~ Good(m)}
<1>1. SUFFICES ASSUME B # {} PROVE FALSE OBVIOUS
<1>2. PICK m \in B: \A x \in B: m <= x
  <2>1. B \in SUBSET Nat OBVIOUS
  <2> HIDE DEF B
  <2> QED BY <1>1, <2>1, LeastNatural
<1>3. m \in Nat /\ ~ Good(m) OBVIOUS
<1>4. m # 0
  <2> DEFINE h == [x \in 0 .. 0 |-> s]
  <2>1. h \in [0 .. 0 -> S] /\ h[0] = s /\ \A i \in 0 .. 0 - 1: h[i + 1] = F[h[i]] OBVIOUS
  <2>2. Good(0)
    <3> HIDE DEF h
    <3> QED BY <2>1 DEF HasRounds
  <2> HIDE DEF Good
  <2> QED BY <1>3, <2>2
<1>5. m - 1 \in Nat /\ ~ (m <= m - 1) BY <1>3, <1>4
<1>6. m - 1 \notin B
  <2> HIDE DEF B
  <2> QED BY <1>2, <1>5
<1>7. PICK g \in [0 .. m - 1 -> S]: g[0] = s /\ \A i \in 0 .. (m - 1) - 1: g[i + 1] = F[g[i]]
  BY <1>5, <1>6 DEF HasRounds
<1> DEFINE h == [x \in 0 .. m |-> IF x = m THEN F[g[m - 1]] ELSE g[x]]
<1>8. \A x \in 0 .. m - 1: h[x] = g[x] /\ g[x] \in S BY <1>3
<1>9. h[m] = F[g[m - 1]] /\ m - 1 \in 0 .. m - 1 /\ 0 \in 0 .. m - 1 BY <1>3, <1>4
<1>10. h \in [0 .. m -> S]
  <2>1. ASSUME NEW x \in 0 .. m PROVE h[x] \in S
    <3>1. CASE x = m
      <4>1. F[g[m - 1]] \in S BY <1>8, <1>9
      <4> HIDE DEF h
      <4> QED BY <1>9, <3>1, <4>1
    <3>2. CASE x # m
      <4>1. x \in 0 .. m - 1 BY <1>3, <3>2
      <4> HIDE DEF h
      <4> QED BY <1>8, <4>1
    <3> QED BY <3>1, <3>2
  <2> QED BY <2>1
<1>11. ASSUME NEW x \in 0 .. m - 1 PROVE h[x + 1] = F[h[x]]
  <2>1. CASE x = m - 1
    <3>1. x + 1 = m BY <1>3, <2>1
    <3> HIDE DEF h
    <3> QED BY <1>8, <1>9, <2>1, <3>1
  <2>2. CASE x # m - 1
    <3>1. x \in 0 .. (m - 1) - 1 /\ x + 1 \in 0 .. m - 1 BY <1>3, <2>2
    <3> HIDE DEF h
    <3> QED BY <1>7, <1>8, <3>1
  <2> QED BY <2>1, <2>2
<1>12. h[0] = s
  <2> HIDE DEF h
  <2> QED BY <1>7, <1>8, <1>9
<1> HIDE DEF h
<1>13. Good(m) BY <1>10, <1>11, <1>12 DEF HasRounds
<1> QED BY <1>3, <1>13

\* The largest number of an initial part is its last one.
LEMMA LastOf ==
  ASSUME NEW n \in Nat \ {0}
  PROVE  Max(1 .. n) = n /\ (1 .. n) \ {Max(1 .. n)} = 1 .. n - 1 /\ 1 .. n # {}
<1>1. n \in 1 .. n /\ \A y \in 1 .. n: n >= y OBVIOUS
<1>2. Max(1 .. n) \in 1 .. n /\ \A y \in 1 .. n: Max(1 .. n) >= y BY <1>1 DEF Max
<1>3. Max(1 .. n) = n BY <1>1, <1>2
<1>4. (1 .. n) \ {n} = 1 .. n - 1 /\ 1 .. n # {} BY <1>1
<1> QED BY <1>3, <1>4

\* A nonempty part of a sequence's domain has a last member.
LEMMA MaxIn ==
  ASSUME NEW n \in Nat, NEW s \in SUBSET (1 .. n), s # {}
  PROVE  Max(s) \in s
<1>1. \E x \in s: \A y \in s: x >= y
  <2> DEFINE U == {n - y : y \in s}
  <2>0. \A y \in s: y \in 1 .. n /\ n - y \in Nat OBVIOUS
  <2>1. U \in SUBSET Nat /\ U # {} BY <2>0
  <2>2. PICK u \in U: \A x \in U: u <= x
    <3> HIDE DEF U
    <3> QED BY <2>1, LeastNatural
  <2>3. PICK x \in s: u = n - x OBVIOUS
  <2>4. ASSUME NEW y \in s PROVE x >= y
    <3>1. n - y \in U OBVIOUS
    <3>2. u <= n - y
      <4> HIDE DEF U
      <4> QED BY <2>2, <3>1
    <3> QED BY <2>3, <3>2
  <2> QED BY <2>4
<1> QED BY <1>1 DEF Max

\* The recursion over subsets that FoldLeft is defined by has a solution.
HasFold(S, base, F, n, seq) ==
  \E g \in [SUBSET (1 .. n) -> S]:
    \A s \in SUBSET (1 .. n):
      g[s] = IF s = {} THEN base ELSE F[<<g[s \ {Max(s)}], seq[Max(s)]>>]

\* A fold has such a table, for sets of 0, 1, 2, ... items in turn.
LEMMA FoldExists ==
  ASSUME NEW S, NEW base \in S, NEW T, NEW F \in [S \X T -> S], NEW n \in Nat,
         NEW seq \in [1 .. n -> T]
  PROVE  HasFold(S, base, F, n, seq)
<1> DEFINE Rule(g, s) == g[s] = IF s = {} THEN base ELSE F[<<g[s \ {Max(s)}], seq[Max(s)]>>]
           D == SUBSET (1 .. n)
           Good(m) == \E g \in [D -> S]: \A s \in D: Cardinality(s) <= m => Rule(g, s)
           B == {m \in Nat: ~ Good(m)}
<1>1. \A s \in D: IsFiniteSet(s) /\ Cardinality(s) \in Nat /\ Cardinality(s) <= n
  <2>1. IsFiniteSet(1 .. n) /\ Cardinality(1 .. n) = IF 1 > n THEN 0 ELSE n - 1 + 1
    BY FS_Interval
  <2>2. Cardinality(1 .. n) = n BY <2>1
  <2> QED BY <2>1, <2>2, FS_Subset, FS_CardinalityType
<1>2. \A s \in D: s # {} => Max(s) \in s /\ Cardinality(s \ {Max(s)}) = Cardinality(s) - 1
  <2> SUFFICES ASSUME NEW s \in D, s # {}
               PROVE Max(s) \in s /\ Cardinality(s \ {Max(s)}) = Cardinality(s) - 1
    OBVIOUS
  <2>2. Max(s) \in s BY MaxIn
  <2> QED BY <1>1, <2>2, FS_RemoveElement
<1>3. Good(n)
  <2>1. SUFFICES ASSUME B # {} PROVE FALSE OBVIOUS
  <2>2. PICK m \in B: \A x \in B: m <= x
    <3>1. B \in SUBSET Nat OBVIOUS
    <3> HIDE DEF B
    <3> QED BY <2>1, <3>1, LeastNatural
  <2>3. m \in Nat /\ ~ Good(m) OBVIOUS
  <2>4. CASE m = 0
    <3> DEFINE h == [s \in D |-> base]
    <3>1. h \in [D -> S] OBVIOUS
    <3>2. ASSUME NEW s \in D, Cardinality(s) <= 0 PROVE Rule(h, s)
      <4>1. s = {} BY <1>1, <3>2, FS_EmptySet
      <4> QED BY <4>1
    <3>3. Good(0)
      <4> HIDE DEF h, Rule, D
      <4> QED BY <3>1, <3>2
    <3> HIDE DEF Good
    <3> QED BY <2>3, <2>4, <3>3
  <2>5. CASE m # 0
    <3>1. m - 1 \in Nat /\ ~ (m <= m - 1) BY <2>3, <2>5
    <3>2. m - 1 \notin B
      <4> HIDE DEF B
      <4> QED BY <2>2, <3>1
    <3>3. PICK g \in [D -> S]: \A s \in D: Cardinality(s) <= m - 1 => Rule(g, s)
      BY <3>1, <3>2
    <3> DEFINE New(s) == F[<<g[s \ {Max(s)}], seq[Max(s)]>>]
               h == [s \in D |-> IF Cardinality(s) <= m - 1 THEN g[s] ELSE
                                 IF s = {} THEN base ELSE New(s)]
    <3>4. ASSUME NEW s \in D, s # {} PROVE New(s) \in S /\ s \ {Max(s)} \in D
      <4>1. s \ {Max(s)} \in D /\ Max(s) \in 1 .. n BY <1>2, <3>4
      <4>2. g[s \ {Max(s)}] \in S /\ seq[Max(s)] \in T
        <5> HIDE DEF D
        <5> QED BY <4>1
      <4> QED BY <4>1, <4>2
    <3> HIDE DEF New
    <3>5. h \in [D -> S]
      <4> HIDE DEF D
      <4> QED BY <3>4
    <3>6. ASSUME NEW s \in D, Cardinality(s) <= m PROVE Rule(h, s)
      <4>1. CASE s = {}
        <5>1. Cardinality(s) <= m - 1 /\ Rule(g, s)
          <6>1. Cardinality({}) = 0 BY FS_EmptySet
          <6> HIDE DEF Rule, D
          <6> QED BY <3>1, <3>3, <4>1, <6>1
        <5> QED BY <4>1, <5>1
      <4>2. CASE s # {}
        <5> DEFINE r == s \ {Max(s)}
        <5>1. r \in D /\ Cardinality(r) = Cardinality(s) - 1 BY <1>2, <3>4, <4>2
        <5>2. h[r] = g[r] BY <1>1, <2>3, <3>6, <5>1
        <5>3. New(s) = F[<<g[r], seq[Max(s)]>>] BY DEF New
        <5>4. CASE Cardinality(s) <= m - 1
          <6>1. Rule(g, s) BY <3>3, <5>4
          <6>2. h[s] = g[s] BY <5>4
          <6> QED BY <4>2, <5>2, <6>1, <6>2
        <5>5. CASE ~ (Cardinality(s) <= m - 1)
          <6>1. h[s] = New(s) BY <4>2, <5>5
          <6> QED BY <4>2, <5>2, <5>3, <6>1
        <5> QED BY <5>4, <5>5
      <4> QED BY <4>1, <4>2
    <3>7. Good(m)
      <4> HIDE DEF h, Rule, D
      <4> QED BY <3>5, <3>6
    <3> QED BY <2>3, <3>7
  <2> QED BY <2>4, <2>5
<1>4. PICK g \in [D -> S]: \A s \in D: Cardinality(s) <= n => Rule(g, s) BY <1>3
<1>5. \A s \in D: Rule(g, s)
  <2> HIDE DEF Rule, D
  <2> QED BY <1>1, <1>4
<1> QED BY <1>5 DEF HasFold

-----------------------------------------------------------------------------
(* Digits *)

\* Quotients by products.
LEMMA DivTwice ==
  \A y \in Nat: \A p, q \in Nat \ {0}: (y \div p) \div q = y \div (p * q)
<1> SUFFICES ASSUME NEW y \in Nat, NEW p \in Nat \ {0}, NEW q \in Nat \ {0}
             PROVE  (y \div p) \div q = y \div (p * q)
  OBVIOUS
<1> DEFINE n == p * q
           a == y \div n
           b == y % n
           c == b \div p
           d == b % p
<1>1. n \in Nat \ {0}
  <2>1. p * q \in Nat /\ p * q >= p OBVIOUS
  <2> QED BY <2>1
<1>2. a \in Nat /\ b \in 0 .. n - 1 /\ y = n * a + b
  <2> HIDE DEF n
  <2> QED BY <1>1, DivMod
<1>3. b \in Nat /\ b < n
  <2> HIDE DEF n, b
  <2> QED BY <1>1, <1>2
<1>4. c \in Nat /\ d \in 0 .. p - 1 /\ b = p * c + d
  <2> HIDE DEF b
  <2> QED BY <1>3, DivMod
<1> HIDE DEF a, b, c, d
<1>5. c < q
  <2>1. CASE c >= q
    <3>1. p * c >= p * q /\ p * c \in Nat
      <4>1. c - q \in Nat /\ c = q + (c - q) BY <1>4, <2>1
      <4> DEFINE e == c - q
      <4>2. e \in Nat /\ c = q + e BY <4>1
      <4> HIDE DEF e
      <4>3. p * c = p * q + p * e /\ p * e \in Nat /\ p * q \in Nat BY <4>2
      <4> QED BY <4>3
    <3> HIDE DEF n
    <3> QED BY <1>1, <1>3, <1>4, <3>1 DEF n
  <2>2. CASE ~ (c >= q) BY <1>4, <2>2
  <2> QED BY <2>1, <2>2
<1>6. y = (a * q + c) * p + d /\ a * q + c \in Nat
  <2>1. n * a = (a * q) * p /\ a * q \in Nat BY <1>2
  <2>2. (a * q + c) * p = (a * q) * p + c * p /\ c * p = p * c /\ p * c \in Nat /\ (a * q) * p \in Nat
    <3>1. a * q \in Nat BY <2>1
    <3> DEFINE e == a * q
    <3> HIDE DEF e
    <3>2. (e + c) * p = e * p + c * p /\ c * p = p * c /\ p * c \in Nat /\ e * p \in Nat
      BY <1>4, <3>1 DEF e
    <3> QED BY <3>2 DEF e
  <2> HIDE DEF n
  <2> QED BY <1>2, <1>4, <2>1, <2>2
<1>7. y \div p = a * q + c /\ y % p = d BY <1>4, <1>6, DivUnique
<1>8. (a * q + c) \div q = a
  <2>1. c \in 0 .. q - 1 BY <1>4, <1>5
  <2> QED BY <1>2, <2>1, DivUnique
<1>9. (y \div p) \div q = a BY <1>7, <1>8
<1> QED BY <1>9 DEF a, n

\* A number below a product has a quotient below the other factor.
LEMMA DivBelow ==
  ASSUME NEW y \in Nat, NEW p \in Nat \ {0}, NEW q \in Nat \ {0}, y < p * q
  PROVE  y \div p \in 0 .. q - 1
<1> DEFINE c == y \div p
           d == y % p
<1>1. c \in Nat /\ d \in 0 .. p - 1 /\ y = p * c + d BY DivMod
<1> HIDE DEF c, d
<1>2. CASE c >= q
  <2> DEFINE e == c - q
  <2>1. e \in Nat /\ c = q + e BY <1>1, <1>2
  <2> HIDE DEF e
  <2>2. p * c = p * q + p * e /\ p * e \in Nat /\ p * q \in Nat BY <2>1
  <2> QED BY <1>1, <2>2
<1>3. CASE ~ (c >= q) BY <1>1, <1>3 DEF c
<1> QED BY <1>2, <1>3

\* s holds the n digits of w bits of the number v, the highest first.
DigitsOf(s, n, w, v) ==
  /\ v \in 0 .. Pow2[w * n] - 1
  /\ \A i \in 1 .. n: s[i] = (v \div Pow2[w * (n - i)]) % Pow2[w]

\* Without digits the number is 0.
LEMMA NoDigits ==
  ASSUME NEW s, NEW w \in Nat
  PROVE  DigitsOf(s, 0, w, 0)
<1>1. w * 0 = 0 OBVIOUS
<1> QED BY <1>1, Powers DEF DigitsOf

\* One digit more.
LEMMA DigitsAppend ==
  ASSUME NEW s, NEW n \in Nat, NEW w \in Nat, NEW v, DigitsOf(s, n, w, v),
         NEW t, \A i \in 1 .. n: t[i] = s[i], t[n + 1] \in 0 .. Pow2[w] - 1
  PROVE  DigitsOf(t, n + 1, w, v * Pow2[w] + t[n + 1]) /\ v \in Nat
<1> DEFINE W == Pow2[w]
           A == Pow2[w * n]
           x == t[n + 1]
           u == v * W + x
<1>0. w * n \in Nat /\ w * (n + 1) = w * n + w OBVIOUS
<1>1. W \in Nat \ {0} /\ A \in Nat \ {0} /\ Pow2[w * (n + 1)] = A * W
  BY <1>0, Powers, PowerSum
<1>2. v \in Nat /\ v <= A - 1
  <2>1. v \in 0 .. A - 1 BY DEF DigitsOf
  <2> HIDE DEF A
  <2> QED BY <1>1, <2>1
<1>3. x \in Nat /\ x <= W - 1 /\ x \in 0 .. W - 1
  <2>1. x \in 0 .. W - 1 OBVIOUS
  <2> HIDE DEF W, x
  <2> QED BY <1>1, <2>1
<1> HIDE DEF W, A, x
<1>4. u \in 0 .. A * W - 1
  <2>1. PICK e \in Nat: A = v + 1 + e
    <3>1. A - 1 - v \in Nat /\ A = v + 1 + (A - 1 - v) BY <1>1, <1>2
    <3> QED BY <3>1
  <2>2. A * W = v * W + W + e * W /\ e * W \in Nat /\ v * W \in Nat
    <3>1. (v + 1 + e) * W = v * W + W + e * W BY <1>1, <1>2
    <3> QED BY <1>1, <1>2, <2>1, <3>1
  <2> QED BY <1>1, <1>3, <2>2
<1>5. u \div W = v /\ u % W = x /\ u \in Nat
  <2>1. u \in Nat BY <1>1, <1>2, <1>3
  <2> QED BY <1>1, <1>2, <1>3, <2>1, DivUnique
<1> HIDE DEF u
<1>6. ASSUME NEW i \in 1 .. n + 1
      PROVE  t[i] = (u \div Pow2[w * ((n + 1) - i)]) % W
  <2>1. CASE i = n + 1
    <3>1. w * ((n + 1) - i) = 0 BY <2>1
    <3>2. u \div 1 = u BY <1>5
    <3> QED BY <1>5, <2>1, <3>1, <3>2, Powers DEF x
  <2>2. CASE i # n + 1
    <3>1. i \in 1 .. n /\ n - i \in Nat /\ (n + 1) - i = (n - i) + 1 BY <2>2
    <3> DEFINE m == n - i
    <3>2. w * (m + 1) = w + w * m /\ w * m \in Nat
      <4>1. m \in Nat BY <3>1
      <4> HIDE DEF m
      <4> QED BY <4>1
    <3>3. Pow2[w * ((n + 1) - i)] = W * Pow2[w * m]
      <4>1. Pow2[w + w * m] = W * Pow2[w * m] BY <3>2, PowerSum DEF W
      <4> QED BY <3>1, <3>2, <4>1
    <3>4. Pow2[w * m] \in Nat \ {0} BY <3>2, Powers
    <3>5. u \div (W * Pow2[w * m]) = v \div Pow2[w * m]
      <4> DEFINE Z == Pow2[w * m]
      <4>1. Z \in Nat \ {0} BY <3>4
      <4> HIDE DEF m, Z
      <4>2. u \in Nat /\ W \in Nat \ {0} BY <1>1, <1>5
      <4>3. (u \div W) \div Z = u \div (W * Z) BY <4>1, <4>2, DivTwice
      <4> QED BY <1>5, <4>3 DEF Z
    <3>6. t[i] = (v \div Pow2[w * m]) % W BY <3>1 DEF DigitsOf, W
    <3> QED BY <3>3, <3>5, <3>6
  <2> QED BY <2>1, <2>2
<1> QED BY <1>1, <1>2, <1>4, <1>6 DEF DigitsOf, u, x, W

\* The first digits are those of a quotient.
LEMMA DigitsPrefix ==
  ASSUME NEW s, NEW n \in Nat, NEW m \in 0 .. n, NEW w \in Nat, NEW v, DigitsOf(s, n, w, v)
  PROVE  DigitsOf(s, m, w, v \div Pow2[w * (n - m)]) /\ v \in Nat
<1> DEFINE P == Pow2[w * (n - m)]
           A == Pow2[w * m]
           u == v \div P
<1>0. n - m \in Nat /\ w * (n - m) \in Nat /\ w * m \in Nat /\ w * n = w * (n - m) + w * m
      /\ m \in Nat
  <2> DEFINE e == n - m
  <2>1. e \in Nat /\ m \in Nat /\ n = e + m OBVIOUS
  <2> HIDE DEF e
  <2>2. w * e \in Nat /\ w * m \in Nat /\ w * (e + m) = w * e + w * m BY <2>1
  <2> QED BY <2>1, <2>2 DEF e
<1>1. P \in Nat \ {0} /\ A \in Nat \ {0} /\ Pow2[w * n] = P * A
  <2>1. Pow2[w * (n - m) + w * m] = P * A BY <1>0, PowerSum
  <2> QED BY <1>0, <2>1, Powers
<1>2. v \in Nat /\ v < P * A
  <2>1. v \in 0 .. P * A - 1 BY <1>1 DEF DigitsOf
  <2>2. P * A \in Nat
    <3> HIDE DEF P, A
    <3> QED BY <1>1
  <2> HIDE DEF P, A
  <2> QED BY <2>1, <2>2
<1>3. u \in 0 .. A - 1
  <2> HIDE DEF P, A
  <2> QED BY <1>1, <1>2, DivBelow
<1>4. ASSUME NEW i \in 1 .. m
      PROVE  s[i] = (u \div Pow2[w * (m - i)]) % Pow2[w]
  <2> DEFINE e == n - m
             f == m - i
  <2>1. e \in Nat /\ f \in Nat /\ n - i = e + f /\ i \in 1 .. n BY <1>0
  <2>2. w * (n - i) = w * e + w * f /\ w * e \in Nat /\ w * f \in Nat
    <3>1. w * (e + f) = w * e + w * f /\ w * e \in Nat /\ w * f \in Nat
      <4> HIDE DEF e, f
      <4> QED BY <2>1
    <3> QED BY <2>1, <3>1
  <2>3. Pow2[w * (n - i)] = P * Pow2[w * f] /\ Pow2[w * f] \in Nat \ {0}
    <3>1. Pow2[w * e + w * f] = Pow2[w * e] * Pow2[w * f] BY <2>2, PowerSum
    <3> QED BY <2>2, <3>1, Powers
  <2>4. s[i] = (v \div Pow2[w * (n - i)]) % Pow2[w] BY <2>1 DEF DigitsOf
  <2>5. v \div (P * Pow2[w * f]) = u \div Pow2[w * f]
    <3> DEFINE Z == Pow2[w * f]
    <3>1. Z \in Nat \ {0} BY <2>3
    <3> HIDE DEF P, f, Z
    <3>2. v \in Nat /\ P \in Nat \ {0} BY <1>1, <1>2
    <3>3. (v \div P) \div Z = v \div (P * Z) BY <3>1, <3>2, DivTwice
    <3> QED BY <3>3 DEF Z
  <2> QED BY <2>3, <2>4, <2>5
<1> QED BY <1>2, <1>3, <1>4 DEF DigitsOf

\* Every sequence of digits is that of a number.
LEMMA DigitsExist ==
  ASSUME NEW s, NEW w \in Nat, NEW n \in Nat, \A i \in 1 .. n: s[i] \in 0 .. Pow2[w] - 1
  PROVE  \E v \in Nat: DigitsOf(s, n, w, v)
<1> DEFINE Good(m) == \E v \in Nat: DigitsOf(s, m, w, v)
           B == {m \in 0 .. n: ~ Good(m)}
<1>1. SUFFICES ASSUME B # {} PROVE FALSE
  <2>1. n \in 0 .. n OBVIOUS
  <2> QED BY <2>1
<1>2. PICK m \in B: \A x \in B: m <= x
  <2>1. B \in SUBSET Nat OBVIOUS
  <2> HIDE DEF B
  <2> QED BY <1>1, <2>1, LeastNatural
<1>3. m \in 0 .. n /\ ~ Good(m) OBVIOUS
<1>4. m # 0
  <2>1. Good(0) BY NoDigits
  <2> HIDE DEF Good
  <2> QED BY <1>3, <2>1
<1>5. m - 1 \in 0 .. n /\ m - 1 \in Nat /\ (m - 1) + 1 = m /\ ~ (m <= m - 1) /\ m \in 1 .. n
  BY <1>3, <1>4
<1>6. m - 1 \notin B
  <2> HIDE DEF B
  <2> QED BY <1>2, <1>5
<1>7. PICK v \in Nat: DigitsOf(s, m - 1, w, v) BY <1>5, <1>6
<1> DEFINE e == m - 1
           u == v * Pow2[w] + s[m]
<1>8. DigitsOf(s, m, w, u)
  <2>1. e \in Nat /\ e + 1 = m /\ DigitsOf(s, e, w, v) BY <1>5, <1>7
  <2>2. s[m] \in 0 .. Pow2[w] - 1 BY <1>5
  <2> HIDE DEF e
  <2>3. DigitsOf(s, e + 1, w, v * Pow2[w] + s[e + 1]) BY <2>1, <2>2, DigitsAppend
  <2> QED BY <2>1, <2>3
<1>9. u \in Nat
  <2>1. u \in 0 .. Pow2[w * m] - 1 BY <1>8 DEF DigitsOf
  <2>2. w * m \in Nat BY <1>5
  <2>3. Pow2[w * m] \in Nat BY <2>2, Powers
  <2> HIDE DEF u
  <2> QED BY <2>1, <2>3
<1>10. Good(m)
  <2> HIDE DEF u
  <2> QED BY <1>8, <1>9
<1> QED BY <1>3, <1>10

\* And of one only.
LEMMA DigitsUnique ==
  ASSUME NEW s, NEW w \in Nat
  PROVE  \A n, u, v \in Nat: DigitsOf(s, n, w, u) /\ DigitsOf(s, n, w, v) => u = v
<1> DEFINE Good(m) == \A u, v \in Nat: DigitsOf(s, m, w, u) /\ DigitsOf(s, m, w, v) => u = v
           B == {m \in Nat: ~ Good(m)}
<1>1. SUFFICES ASSUME B # {} PROVE FALSE OBVIOUS
<1>2. PICK m \in B: \A x \in B: m <= x
  <2>1. B \in SUBSET Nat OBVIOUS
  <2> HIDE DEF B
  <2> QED BY <1>1, <2>1, LeastNatural
<1>3. m \in Nat /\ ~ Good(m) OBVIOUS
<1>4. m # 0
  <2>1. w * 0 = 0 /\ Pow2[0] = 1 BY Powers
  <2>2. Good(0) BY <2>1 DEF DigitsOf
  <2> HIDE DEF Good
  <2> QED BY <1>3, <2>2
<1>5. m - 1 \in Nat /\ (m - 1) + 1 = m /\ ~ (m <= m - 1) /\ m \in 1 .. m /\ m - 1 \in 0 .. m
      /\ m - (m - 1) = 1 /\ m - m = 0
  BY <1>3, <1>4
<1>6. m - 1 \notin B
  <2> HIDE DEF B
  <2> QED BY <1>2, <1>5
<1>7. Good(m - 1) BY <1>5, <1>6
<1>8. PICK u \in Nat, v \in Nat: DigitsOf(s, m, w, u) /\ DigitsOf(s, m, w, v) /\ u # v BY <1>3
<1> DEFINE W == Pow2[w]
<1>9. W \in Nat \ {0} BY Powers
<1>10. ASSUME NEW x \in Nat, DigitsOf(s, m, w, x)
       PROVE  DigitsOf(s, m - 1, w, x \div W) /\ x \div W \in Nat /\ x = W * (x \div W) + s[m]
  <2>1. w * (m - (m - 1)) = w /\ w * (m - m) = 0 BY <1>5
  <2>2. DigitsOf(s, m - 1, w, x \div Pow2[w * (m - (m - 1))]) BY <1>3, <1>5, <1>10, DigitsPrefix
  <2>3. s[m] = (x \div Pow2[w * (m - m)]) % W BY <1>5, <1>10 DEF DigitsOf
  <2>4. x \div 1 = x OBVIOUS
  <2>5. s[m] = x % W BY <2>1, <2>3, <2>4, Powers
  <2>6. x \div W \in Nat /\ x = W * (x \div W) + (x % W)
    <3> HIDE DEF W
    <3> QED BY <1>9, DivMod
  <2> QED BY <2>1, <2>2, <2>5, <2>6
<1>11. u \div W = v \div W BY <1>7, <1>8, <1>10
<1> QED BY <1>8, <1>10, <1>11

-----------------------------------------------------------------------------
(* Quotients and rests of products *)

\* A number below the divisor is its own rest.
LEMMA SmallRest ==
  \A n \in Nat \ {0}: \A b \in 0 .. n - 1: b % n = b
OBVIOUS

\* A common factor of a quotient.
LEMMA DivCancel ==
  \A y \in Nat: \A p, q \in Nat \ {0}: (y * p) \div (p * q) = y \div q
<1> SUFFICES ASSUME NEW y \in Nat, NEW p \in Nat \ {0}, NEW q \in Nat \ {0}
             PROVE  (y * p) \div (p * q) = y \div q
  OBVIOUS
<1> DEFINE u == y * p
<1>1. u \in Nat /\ u = y * p + 0 /\ 0 \in 0 .. p - 1 OBVIOUS
<1>2. u \div p = y
  <2>1. (y * p + 0) \div p = y BY DivUnique
  <2> QED BY <1>1, <2>1
<1> HIDE DEF u
<1>3. (u \div p) \div q = u \div (p * q) BY <1>1, DivTwice
<1> QED BY <1>2, <1>3 DEF u

\* A common factor of a rest.
LEMMA RestCancel ==
  \A y \in Nat: \A p, q \in Nat \ {0}: (y * p) % (q * p) = (y % q) * p
<1> SUFFICES ASSUME NEW y \in Nat, NEW p \in Nat \ {0}, NEW q \in Nat \ {0}
             PROVE  (y * p) % (q * p) = (y % q) * p
  OBVIOUS
<1> DEFINE a == y \div q
           b == y % q
           n == q * p
           c == b * p
<1>1. a \in Nat /\ b \in 0 .. q - 1 /\ y = q * a + b BY DivMod
<1> HIDE DEF a, b
<1>2. n \in Nat \ {0} /\ c \in 0 .. n - 1
  <2>1. PICK e \in Nat: q = b + 1 + e
    <3>1. q - 1 - b \in Nat /\ q = b + 1 + (q - 1 - b) BY <1>1
    <3> QED BY <3>1
  <2>2. n = b * p + p + e * p /\ e * p \in Nat /\ b * p \in Nat
    <3>1. (b + 1 + e) * p = b * p + p + e * p BY <1>1
    <3> QED BY <1>1, <2>1, <3>1
  <2> HIDE DEF n
  <2> QED BY <2>2
<1>3. y * p = a * n + c
  <2>1. (q * a + b) * p = a * (q * p) + b * p BY <1>1
  <2> QED BY <1>1, <2>1
<1>4. (a * n + c) % n = c
  <2> HIDE DEF n, c
  <2> QED BY <1>1, <1>2, DivUnique
<1> QED BY <1>3, <1>4 DEF b

\* A rest modulo a product, divided by the first factor or taken modulo it.
LEMMA RestDiv ==
  \A y \in Nat: \A p, q \in Nat \ {0}:
    (y % (p * q)) \div p = (y \div p) % q /\ (y % (p * q)) % p = y % p
<1> SUFFICES ASSUME NEW y \in Nat, NEW p \in Nat \ {0}, NEW q \in Nat \ {0}
             PROVE  (y % (p * q)) \div p = (y \div p) % q /\ (y % (p * q)) % p = y % p
  OBVIOUS
<1> DEFINE c == y \div p
           d == y % p
           a == c \div q
           b == c % q
           n == p * q
           r == b * p + d
<1>1. c \in Nat /\ d \in 0 .. p - 1 /\ y = p * c + d BY DivMod
<1> HIDE DEF c, d
<1>2. a \in Nat /\ b \in 0 .. q - 1 /\ c = q * a + b BY <1>1, DivMod
<1> HIDE DEF a, b
<1>3. n \in Nat \ {0} /\ r \in 0 .. n - 1
  <2>1. PICK e \in Nat: q = b + 1 + e
    <3>1. q - 1 - b \in Nat /\ q = b + 1 + (q - 1 - b) BY <1>2
    <3> QED BY <3>1
  <2>2. n = b * p + p + e * p /\ e * p \in Nat /\ b * p \in Nat
    <3>1. (b + 1 + e) * p = b * p + p + e * p BY <1>2
    <3> QED BY <1>2, <2>1, <3>1
  <2> DEFINE u == b * p
  <2>3. u \in Nat /\ r = u + d /\ n = u + p + e * p BY <2>2
  <2> HIDE DEF n, r, u
  <2> QED BY <1>1, <2>2, <2>3
<1>4. y = a * n + r
  <2>1. p * (q * a + b) = a * (p * q) + b * p /\ a * (p * q) \in Nat /\ b * p \in Nat BY <1>2
  <2> QED BY <1>1, <1>2, <2>1
<1>5. y % n = r
  <2>1. (a * n + r) % n = r
    <3> HIDE DEF n, r
    <3> QED BY <1>2, <1>3, DivUnique
  <2> HIDE DEF n, r
  <2> QED BY <1>4, <2>1
<1>6. r \div p = b /\ r % p = d
  <2> b \in Nat BY <1>2
  <2> QED BY <1>1, DivUnique
<1>7. (y % n) \div p = b /\ (y % n) % p = d
  <2> HIDE DEF n, r
  <2> QED BY <1>5, <1>6
<1> QED BY <1>7 DEF b, c, d

\* A quotient by the first factor from that by the product.
LEMMA DivStep ==
  \A y \in Nat: \A p, q \in Nat \ {0}:
    y \div p = (y \div (p * q)) * q + ((y \div p) % q)
<1> SUFFICES ASSUME NEW y \in Nat, NEW p \in Nat \ {0}, NEW q \in Nat \ {0}
             PROVE  y \div p = (y \div (p * q)) * q + ((y \div p) % q)
  OBVIOUS
<1> DEFINE c == y \div p
<1>1. c \in Nat BY DivMod
<1>2. c \div q = y \div (p * q) BY DivTwice
<1> HIDE DEF c
<1>3. c \div q \in Nat /\ c % q \in Nat /\ c = q * (c \div q) + (c % q) BY <1>1, DivMod
<1> DEFINE a == c \div q
           b == c % q
<1>4. c = a * q + b
  <2>1. a \in Nat /\ b \in Nat /\ c = q * a + b BY <1>3
  <2> HIDE DEF a, b
  <2> QED BY <2>1
<1>5. c = (y \div (p * q)) * q + (c % q) BY <1>2, <1>4
<1> QED BY <1>5 DEF c

-----------------------------------------------------------------------------
(* Streams of digits *)

\* s holds the number x, of count bits, in digits of w bits; the last of them has room
\* for room bits more, and maybe bits that do not count above its own.
Holds(s, w, room, x, count) ==
  /\ s \in Seq(Nat)
  /\ count + room = w * Len(s)
  /\ \/ s = <<>> /\ room = 0 /\ x = 0
     \/ \E h \in Nat: /\ s # <<>> /\ room \in 0 .. w
                      /\ DigitsOf(s, Len(s) - 1, w, h)
                      /\ s[Len(s)] \in 0 .. Pow2[w] - 1
                      /\ x = h * Pow2[w - room] + (s[Len(s)] % Pow2[w - room])


\* What has no room left is a sequence of digits.
LEMMA HoldsDigits ==
  ASSUME NEW s, NEW w \in Nat \ {0}, NEW x, NEW count, Holds(s, w, 0, x, count)
  PROVE  DigitsOf(s, Len(s), w, x) /\ x \in Nat
<1>1. CASE s = <<>>
  <2>1. Len(s) = 0 BY <1>1
  <2>2. DigitsOf(s, 0, w, 0) BY NoDigits
  <2>3. x = 0
    <3>1. CASE s = <<>> /\ x = 0 BY <3>1
    <3>2. CASE ~ (s = <<>> /\ x = 0) BY <1>1, <3>2 DEF Holds
    <3> QED BY <3>1, <3>2
  <2> QED BY <2>1, <2>2, <2>3
<1>2. CASE s # <<>>
  <2> DEFINE m == Len(s) - 1
             last == s[Len(s)]
  <2>1. s \in Seq(Nat) /\ m \in Nat /\ m + 1 = Len(s) BY <1>2 DEF Holds
  <2>2. PICK h \in Nat: /\ DigitsOf(s, m, w, h)
                        /\ last \in 0 .. Pow2[w] - 1
                        /\ x = h * Pow2[w - 0] + (last % Pow2[w - 0])
    BY <1>2 DEF Holds
  <2>3. w - 0 = w /\ Pow2[w] \in Nat \ {0} BY Powers
  <2>4. last % Pow2[w] = last /\ last \in Nat
    <3> DEFINE W == Pow2[w]
    <3>1. W \in Nat \ {0} /\ last \in 0 .. W - 1 BY <2>2, <2>3
    <3> HIDE DEF W, last
    <3>2. last % W = last BY <3>1
    <3> QED BY <3>1, <3>2 DEF W
  <2>5. x = h * Pow2[w] + last BY <2>2, <2>3, <2>4
  <2>6. DigitsOf(s, m + 1, w, h * Pow2[w] + s[m + 1])
    <3>1. s[m + 1] \in 0 .. Pow2[w] - 1 BY <2>1, <2>2
    <3> HIDE DEF m, last
    <3> QED BY <2>1, <2>2, <3>1, DigitsAppend
  <2>7. x \in Nat
    <3> DEFINE W == Pow2[w]
    <3>1. W \in Nat /\ x = h * W + last BY <2>3, <2>5
    <3> HIDE DEF W, last
    <3> QED BY <2>4, <3>1
  <2> QED BY <2>1, <2>5, <2>6, <2>7
<1> QED BY <1>1, <1>2

\* A digit more, of which no bit is there yet.
LEMMA HoldsAppend ==
  ASSUME NEW s, NEW w \in Nat \ {0}, NEW x, NEW count \in Nat, Holds(s, w, 0, x, count)
  PROVE  Holds(Append(s, 0), w, w, x, count) /\ Append(s, 0) # <<>>
<1> DEFINE t == Append(s, 0)
           n == Len(s)
<1>1. s \in Seq(Nat) /\ count + 0 = w * n BY DEF Holds
<1>2. n \in Nat /\ t \in Seq(Nat) /\ Len(t) = n + 1 /\ t[n + 1] = 0 /\ t # <<>>
      /\ \A i \in 1 .. n: t[i] = s[i]
  BY <1>1
<1>3. x \in Nat /\ DigitsOf(s, n, w, x) BY HoldsDigits
<1>4. DigitsOf(t, n, w, x) BY <1>2, <1>3 DEF DigitsOf
<1>5. count + w = w * (n + 1)
  <2>1. w * (n + 1) = w * n + w BY <1>2
  <2> QED BY <1>1, <2>1
<1>6. w - w = 0 /\ Pow2[0] = 1 /\ x = x * 1 + (0 % 1) BY <1>3, Powers
<1>7. 0 \in 0 .. Pow2[w] - 1
  <2> DEFINE W == Pow2[w]
  <2>1. W \in Nat \ {0} BY Powers
  <2> HIDE DEF W
  <2>2. 0 \in 0 .. W - 1 BY <2>1
  <2> QED BY <2>2 DEF W
<1>8. (n + 1) - 1 = n /\ w \in 0 .. w BY <1>2
<1> DEFINE last == t[Len(t)]
<1>9. last = 0 BY <1>2
<1>10. x = x * Pow2[w - w] + (last % Pow2[w - w]) BY <1>6, <1>9
<1>11. DigitsOf(t, Len(t) - 1, w, x) BY <1>2, <1>4, <1>8
<1>12. last \in 0 .. Pow2[w] - 1 BY <1>7, <1>9
<1>13. count + w = w * Len(t) BY <1>2, <1>5
<1> HIDE DEF n
<1> QED BY <1>2, <1>3, <1>8, <1>10, <1>11, <1>12, <1>13 DEF Holds

\* The last digit takes shift bits more: the number b of them is put behind its own.
LEMMA HoldsPut ==
  ASSUME NEW s, NEW w \in Nat \ {0}, NEW room \in Nat, NEW x, NEW count \in Nat,
         Holds(s, w, room, x, count), s # <<>>,
         NEW shift \in 0 .. room, NEW b \in Nat, NEW y \in 0 .. Pow2[w] - 1,
         y % Pow2[(w - room) + shift] = (s[Len(s)] % Pow2[w - room]) * Pow2[shift] + b
  PROVE  Holds([s EXCEPT ![Len(s)] = y], w, room - shift, x * Pow2[shift] + b, count + shift)
<1> DEFINE n == Len(s)
           t == [s EXCEPT ![Len(s)] = y]
           m == n - 1
<1>1. s \in Seq(Nat) /\ count + room = w * n /\ n \in Nat \ {0} BY DEF Holds
<1>2. PICK h \in Nat: /\ room \in 0 .. w
                      /\ DigitsOf(s, m, w, h)
                      /\ x = h * Pow2[w - room] + (s[n] % Pow2[w - room])
  BY DEF Holds
<1>3. y \in Nat /\ Pow2[w] \in Nat \ {0}
  <2> DEFINE W == Pow2[w]
  <2>1. W \in Nat \ {0} /\ y \in 0 .. W - 1 BY Powers
  <2> HIDE DEF W
  <2>2. y \in Nat BY <2>1
  <2> QED BY <2>1, <2>2 DEF W
<1>4. t \in Seq(Nat) /\ Len(t) = n /\ t[n] = y /\ t # <<>> /\ \A i \in 1 .. m: t[i] = s[i]
  BY <1>1, <1>3
<1>5. DigitsOf(t, m, w, h) BY <1>2, <1>4 DEF DigitsOf
<1>6. /\ w - room \in Nat /\ room - shift \in 0 .. w /\ w - (room - shift) = (w - room) + shift
      /\ shift \in Nat
  BY <1>2
<1> DEFINE A == Pow2[w - room]
           S == Pow2[shift]
           q == s[n] % A
<1>7. A \in Nat \ {0} /\ S \in Nat \ {0} /\ Pow2[(w - room) + shift] = A * S
  BY <1>6, Powers, PowerSum
<1>8. q \in Nat
  <2>1. s[n] \in Nat BY <1>1
  <2> DEFINE z == s[n]
  <2>2. z \in Nat BY <2>1
  <2> HIDE DEF A, z
  <2>3. z % A \in 0 .. A - 1 BY <1>7, <2>2, DivMod
  <2>4. z % A \in Nat BY <1>7, <2>3
  <2> QED BY <2>4 DEF z
<1>9. x * S + b = h * (A * S) + (q * S + b)
  <2>1. x = h * A + q BY <1>2
  <2> HIDE DEF A, S, q
  <2>2. (h * A + q) * S = h * (A * S) + q * S BY <1>7, <1>8
  <2>3. h * (A * S) \in Nat /\ q * S \in Nat BY <1>7, <1>8
  <2> QED BY <2>1, <2>2, <2>3
<1>10. y % (A * S) = q * S + b BY <1>7
<1>11. (count + shift) + (room - shift) = w * Len(t)
  <2> DEFINE z == w * n
  <2>1. count + room = z BY <1>1
  <2> HIDE DEF z
  <2>2. (count + shift) + (room - shift) = z BY <1>6, <2>1
  <2> QED BY <1>4, <2>2 DEF z
<1>12. x * Pow2[shift] + b = h * Pow2[w - (room - shift)] + (t[Len(t)] % Pow2[w - (room - shift)])
  BY <1>4, <1>6, <1>7, <1>9, <1>10
<1>13. DigitsOf(t, Len(t) - 1, w, h) /\ t[Len(t)] \in 0 .. Pow2[w] - 1 BY <1>4, <1>5
<1> HIDE DEF t
<1>14. Holds(t, w, room - shift, x * Pow2[shift] + b, count + shift)
  BY <1>2, <1>4, <1>6, <1>11, <1>12, <1>13 DEF Holds
<1> QED BY <1>14 DEF t


-----------------------------------------------------------------------------
(* The loops of the codec *)

\* The states of packing.
PackStates == [src: Nat, rest: 0 .. 8, coeffs: Seq(Nat), room: Nat]

\* An item of a sequence of numbers with bits put in.
LEMMA PutInType ==
  ASSUME NEW s \in Seq(Nat), NEW i \in Nat, NEW shift \in Nat, NEW src \in Nat, NEW from \in Nat
  PROVE  PutIn(s, i, shift, src, from) \in Seq(Nat)
         /\ (i \in 1 .. Len(s) => s[i] * Pow2[shift] + src \div Pow2[from] \in Nat)
<1> DEFINE z == s[i] * Pow2[shift] + src \div Pow2[from]
<1>1. src \div Pow2[from] \in Nat /\ Pow2[shift] \in Nat
  <2> DEFINE F == Pow2[from]
  <2>1. F \in Nat \ {0} /\ Pow2[shift] \in Nat BY Powers
  <2> HIDE DEF F
  <2>2. src \div F \in Nat BY <2>1, DivMod
  <2> QED BY <2>1, <2>2 DEF F
<1>2. CASE i \in 1 .. Len(s)
  <2>1. s[i] \in Nat BY <1>2
  <2>2. z \in Nat
    <3> DEFINE a == s[i]
               c == Pow2[shift]
               d == src \div Pow2[from]
    <3>1. a \in Nat /\ c \in Nat /\ d \in Nat BY <1>1, <2>1
    <3> HIDE DEF a, c, d
    <3>2. a * c + d \in Nat BY <3>1
    <3> QED BY <3>2 DEF a, c, d
  <2>3. PutIn(s, i, shift, src, from) = [s EXCEPT ![i] = z] BY DEF PutIn
  <2> HIDE DEF z
  <2>4. [s EXCEPT ![i] = z] \in Seq(Nat) BY <1>2, <2>2
  <2> QED BY <2>2, <2>3, <2>4 DEF z
<1>3. CASE i \notin 1 .. Len(s)
  <2>1. PutIn(s, i, shift, src, from) = s BY <1>3 DEF PutIn
  <2> QED BY <1>3, <2>1
<1> QED BY <1>2, <1>3

\* A round of packing makes a state of a state.
LEMMA PackBitsType ==
  ASSUME NEW out \in PackStates
  PROVE  PackBits(out) \in PackStates
<1> DEFINE full == out.room = 0
           room == IF full THEN LogT ELSE out.room
           coeffs == IF full THEN Append(out.coeffs, 0) ELSE out.coeffs
           shift == Smaller(room, out.rest)
           put == PutIn(coeffs, Len(coeffs), shift, out.src, 8 - shift)
           src == (out.src * Pow2[shift]) % 256
<1>1. /\ out.src \in Nat /\ out.rest \in 0 .. 8 /\ out.coeffs \in Seq(Nat) /\ out.room \in Nat
      /\ LogT \in Nat \ {0}
  BY LogTAssumption DEF PackStates
<1>2. /\ room \in Nat /\ coeffs \in Seq(Nat) /\ Len(coeffs) \in Nat
      /\ shift \in 0 .. 8 /\ out.rest - shift \in 0 .. 8 /\ room - shift \in Nat
  <2>1. room \in Nat BY <1>1
  <2>2. coeffs \in Seq(Nat) /\ Len(coeffs) \in Nat BY <1>1
  <2> DEFINE r == out.rest
  <2>3. r \in 0 .. 8 BY <1>1
  <2>4. shift = IF room < r THEN room ELSE r BY DEF Smaller
  <2> HIDE DEF room, coeffs, shift, r
  <2>5. shift \in 0 .. 8 /\ r - shift \in 0 .. 8 /\ room - shift \in Nat BY <2>1, <2>3, <2>4
  <2> QED BY <2>1, <2>2, <2>5 DEF r
<1>3. src \in Nat
  <2> HIDE DEF shift
  <2> DEFINE S == Pow2[shift]
  <2>0. shift \in Nat BY <1>2
  <2>1. S \in Nat BY <2>0, Powers
  <2> HIDE DEF S
  <2>2. out.src * S \in Nat BY <1>1, <2>1
  <2> DEFINE z == out.src * S
  <2> HIDE DEF z
  <2>3. z % 256 \in 0 .. 255 BY <2>2 DEF z
  <2> QED BY <2>3 DEF S, z
<1>4. put \in Seq(Nat)
  <2>1. shift \in Nat /\ 8 - shift \in Nat BY <1>2
  <2> HIDE DEF shift, coeffs
  <2> QED BY <1>1, <1>2, <2>1, PutInType
<1>5. PackBits(out) = IF out.rest = 0 THEN out
                      ELSE [src |-> src, rest |-> out.rest - shift, room |-> room - shift,
                            coeffs |-> put]
  BY DEF PackBits
<1> HIDE DEF src, shift, room, coeffs, put
<1>6. [src |-> src, rest |-> out.rest - shift, room |-> room - shift, coeffs |-> put] \in PackStates
  BY <1>2, <1>3, <1>4 DEF PackStates
<1> QED BY <1>5, <1>6

\* What a number of rounds make.
PackLoop(s, n) ==
  \E g \in [0 .. n -> PackStates]:
    /\ g[0] = s /\ g[n] = Rounds(PackBits, n, s)
    /\ \A i \in 0 .. n - 1: g[i + 1] = PackBits(g[i])

\* The states after each of the rounds of a byte.
LEMMA PackRounds ==
  ASSUME NEW s \in PackStates, NEW n \in Nat
  PROVE  PackLoop(s, n)
<1> DEFINE F == [x \in PackStates |-> PackBits(x)]
           Rule(f) == f = [i \in 0 .. n |-> IF i = 0 THEN s ELSE PackBits(f[i - 1])]
           h == CHOOSE f: Rule(f)
<1>1. F \in [PackStates -> PackStates]
  <2>1. \A x \in PackStates: PackBits(x) \in PackStates BY PackBitsType
  <2> QED BY <2>1
<1>2. PICK g \in [0 .. n -> PackStates]: g[0] = s /\ \A i \in 0 .. n - 1: g[i + 1] = F[g[i]]
  <2> HIDE DEF F
  <2>1. HasRounds(PackStates, s, F, n) BY <1>1, RoundsExist
  <2> QED BY <2>1 DEF HasRounds
<1>3. ASSUME NEW i \in 0 .. n - 1 PROVE g[i + 1] = PackBits(g[i]) /\ i \in 0 .. n
  <2>1. i \in 0 .. n OBVIOUS
  <2>2. g[i] \in PackStates BY <2>1
  <2> QED BY <1>2, <2>1, <2>2
<1>4. Rule(g)
  <2>1. ASSUME NEW i \in 0 .. n, i # 0 PROVE g[i] = PackBits(g[i - 1])
    <3>1. i - 1 \in 0 .. n - 1 /\ (i - 1) + 1 = i BY <2>1
    <3>2. g[(i - 1) + 1] = PackBits(g[i - 1]) BY <1>3, <3>1
    <3> QED BY <3>1, <3>2
  <2> QED BY <1>2, <2>1
<1>5. Rule(h) BY <1>4
<1>6. \A i \in 0 .. n: h[i] = g[i]
  <2> DEFINE B == {i \in 0 .. n: h[i] # g[i]}
  <2>1. SUFFICES ASSUME B # {} PROVE FALSE OBVIOUS
  <2>2. PICK i \in B: \A x \in B: i <= x
    <3>1. B \in SUBSET Nat OBVIOUS
    <3> HIDE DEF B
    <3> QED BY <2>1, <3>1, LeastNatural
  <2>3. i \in 0 .. n /\ h[i] # g[i] OBVIOUS
  <2>4. h[i] = IF i = 0 THEN s ELSE PackBits(h[i - 1])
    <3> HIDE DEF h
    <3> QED BY <1>5, <2>3
  <2>5. g[i] = IF i = 0 THEN s ELSE PackBits(g[i - 1]) BY <1>4, <2>3
  <2>6. i # 0 /\ h[i - 1] # g[i - 1]
    <3> HIDE DEF h
    <3> QED BY <2>3, <2>4, <2>5
  <2>7. i - 1 \in B /\ ~ (i <= i - 1)
    <3> HIDE DEF h
    <3> QED BY <2>3, <2>6
  <2> HIDE DEF B
  <2> QED BY <2>2, <2>7
<1>7. Rounds(PackBits, n, s) = h[n] BY DEF Rounds
<1>8. h[n] = g[n]
  <2> HIDE DEF h
  <2>1. n \in 0 .. n OBVIOUS
  <2> QED BY <1>6, <2>1
<1>9. g[n] = Rounds(PackBits, n, s)
  <2> HIDE DEF h
  <2> QED BY <1>7, <1>8
<1> HIDE DEF h
<1> QED BY <1>2, <1>3, <1>9 DEF PackLoop

\* A byte makes a state of a state.
LEMMA PackByteType ==
  ASSUME NEW out \in PackStates, NEW byte \in 0 .. 255
  PROVE  /\ [out EXCEPT !.src = byte, !.rest = 8] \in PackStates
         /\ PackByte(out, byte) \in PackStates
<1> DEFINE s == [out EXCEPT !.src = byte, !.rest = 8]
<1>1. s \in PackStates
  <2> DEFINE A == Seq(Nat)
             Q == 0 .. 8
             R == Nat
  <2>1. out \in [src: R, rest: Q, coeffs: A, room: R] BY DEF PackStates
  <2>2. byte \in R /\ 8 \in Q OBVIOUS
  <2>3. PackStates = [src: R, rest: Q, coeffs: A, room: R] BY DEF PackStates
  <2> HIDE DEF A, Q, R
  <2>4. s \in [src: R, rest: Q, coeffs: A, room: R] BY <2>1, <2>2
  <2> QED BY <2>3, <2>4
<1> HIDE DEF s
<1>2. PICK g \in [0 .. 8 -> PackStates]: g[8] = Rounds(PackBits, 8, s)
  <2>1. PackLoop(s, 8) BY <1>1, PackRounds
  <2> QED BY <2>1 DEF PackLoop
<1>3. g[8] \in PackStates OBVIOUS
<1> QED BY <1>1, <1>2, <1>3 DEF PackByte, s

\* Where packing begins.
PackBegin == [src |-> 0, rest |-> 0, coeffs |-> <<>>, room |-> 0]

\* What the bytes make one after the other.
LEMMA PackFold ==
  ASSUME NEW bytes \in Seq(0 .. 255)
  PROVE  \E g \in [0 .. Len(bytes) -> PackStates]:
           /\ g[0] = PackBegin /\ g[Len(bytes)] = PackBytes(bytes)
           /\ \A i \in 1 .. Len(bytes): g[i] = PackByte(g[i - 1], bytes[i])
<1> DEFINE n == Len(bytes)
           T == 0 .. 255
           F == [p \in PackStates \X T |-> PackByte(p[1], p[2])]
           D == SUBSET (1 .. n)
           Rule(f) == f = [s \in D |-> IF s = {} THEN PackBegin
                                       ELSE PackByte(f[s \ {Max(s)}], bytes[Max(s)])]
           h == CHOOSE f: Rule(f)
<1>1. n \in Nat /\ bytes \in [1 .. n -> T]
  <2>1. bytes \in Seq(T) OBVIOUS
  <2> HIDE DEF T
  <2> QED BY <2>1
<1>2. PackBegin \in PackStates BY DEF PackBegin, PackStates
<1>3. F \in [PackStates \X T -> PackStates]
  <2>1. \A p \in PackStates \X T: PackByte(p[1], p[2]) \in PackStates BY PackByteType
  <2> QED BY <2>1
<1>4. HasFold(PackStates, PackBegin, F, n, bytes)
  <2> HIDE DEF F, n, T
  <2> QED BY <1>1, <1>2, <1>3, FoldExists
<1>5. PICK f \in [D -> PackStates]:
        \A s \in D: f[s] = IF s = {} THEN PackBegin ELSE F[<<f[s \ {Max(s)}], bytes[Max(s)]>>]
  <2> HIDE DEF F, n
  <2> QED BY <1>4 DEF HasFold
<1>6. PackBytes(bytes) = h[1 .. n]
  <2>1. DOMAIN bytes = 1 .. n BY <1>1
  <2> QED BY <2>1 DEF PackBytes, FoldLeft, MapThenFoldSet, PackBegin
<1>7. Rule(h)
  <2>1. ASSUME NEW s \in D, s # {}
        PROVE F[<<f[s \ {Max(s)}], bytes[Max(s)]>>] = PackByte(f[s \ {Max(s)}], bytes[Max(s)])
    <3>1. Max(s) \in 1 .. n BY <1>1, <2>1, MaxIn
    <3>2. bytes[Max(s)] \in T BY <1>1, <3>1
    <3>3. f[s \ {Max(s)}] \in PackStates
      <4>1. s \ {Max(s)} \in D OBVIOUS
      <4> HIDE DEF D
      <4> QED BY <4>1
    <3> DEFINE p == f[s \ {Max(s)}]
               q == bytes[Max(s)]
    <3>4. p \in PackStates /\ q \in T BY <3>2, <3>3
    <3> HIDE DEF p, q
    <3>5. F[<<p, q>>] = PackByte(p, q) BY <3>4
    <3> HIDE DEF F
    <3> QED BY <3>5 DEF p, q
  <2> HIDE DEF F, D
  <2>2. \A s \in D: f[s] = IF s = {} THEN PackBegin
                           ELSE PackByte(f[s \ {Max(s)}], bytes[Max(s)])
    BY <1>5, <2>1
  <2>3. Rule(f) BY <2>2
  <2> QED BY <2>3
<1> DEFINE g == [i \in 0 .. n |-> h[1 .. i]]
<1>8. h[1 .. 0] = PackBegin
  <2>1. 1 .. 0 = {} /\ 1 .. 0 \in D BY <1>1
  <2> HIDE DEF D, h, n
  <2> QED BY <1>7, <2>1
<1>9. ASSUME NEW i \in 1 .. n
      PROVE  h[1 .. i] = PackByte(h[1 .. i - 1], bytes[i]) /\ bytes[i] \in 0 .. 255
  <2>0. i \in Nat \ {0} BY <1>1
  <2>1. 1 .. i \in D BY <1>1
  <2>2. Max(1 .. i) = i /\ (1 .. i) \ {Max(1 .. i)} = 1 .. i - 1 /\ 1 .. i # {} BY <2>0, LastOf
  <2>3. h[1 .. i] = IF 1 .. i = {} THEN PackBegin
                    ELSE PackByte(h[(1 .. i) \ {Max(1 .. i)}], bytes[Max(1 .. i)])
    <3> HIDE DEF D, h, n
    <3> QED BY <1>7, <2>1
  <2>4. bytes[i] \in T BY <1>1
  <2> HIDE DEF h, D, n
  <2> QED BY <2>2, <2>3, <2>4 DEF T
<1> HIDE DEF h
<1>10. \A i \in 0 .. n: h[1 .. i] \in PackStates
  <2> DEFINE B == {i \in 0 .. n: h[1 .. i] \notin PackStates}
  <2>1. SUFFICES ASSUME B # {} PROVE FALSE OBVIOUS
  <2>2. PICK i \in B: \A x \in B: i <= x
    <3>1. B \in SUBSET Nat OBVIOUS
    <3> HIDE DEF B
    <3> QED BY <2>1, <3>1, LeastNatural
  <2>3. i \in 0 .. n /\ h[1 .. i] \notin PackStates OBVIOUS
  <2>4. i # 0 BY <1>2, <1>8, <2>3
  <2>5. i \in 1 .. n /\ i - 1 \in 0 .. n /\ ~ (i <= i - 1) BY <1>1, <2>3, <2>4
  <2>6. h[1 .. i - 1] \in PackStates
    <3>1. i - 1 \notin B
      <4> HIDE DEF B
      <4> QED BY <2>2, <2>5
    <3> QED BY <2>5, <3>1
  <2>7. PackByte(h[1 .. i - 1], bytes[i]) \in PackStates BY <1>9, <2>5, <2>6, PackByteType
  <2> QED BY <1>9, <2>3, <2>5, <2>7
<1>11. g \in [0 .. n -> PackStates] BY <1>10
<1>12. /\ g[0] = PackBegin /\ g[n] = PackBytes(bytes)
       /\ \A i \in 1 .. n: g[i] = PackByte(g[i - 1], bytes[i])
  <2>1. 0 \in 0 .. n /\ n \in 0 .. n /\ \A i \in 1 .. n: i \in 0 .. n /\ i - 1 \in 0 .. n
    BY <1>1
  <2>2. \A i \in 0 .. n: g[i] = h[1 .. i] OBVIOUS
  <2> HIDE DEF g, n
  <2> QED BY <1>6, <1>8, <1>9, <2>1, <2>2
<1> HIDE DEF g
<1> QED BY <1>11, <1>12

-----------------------------------------------------------------------------
(* From bytes to coefficients *)

\* A byte has eight bits.
LEMMA ByteBits == Pow2[8] = 256
<1>1. Pow2[0 + 1] = 2 * Pow2[0] /\ Pow2[1 + 1] = 2 * Pow2[1] /\ Pow2[2 + 1] = 2 * Pow2[2]
      /\ Pow2[3 + 1] = 2 * Pow2[3] /\ Pow2[4 + 1] = 2 * Pow2[4] /\ Pow2[5 + 1] = 2 * Pow2[5]
      /\ Pow2[6 + 1] = 2 * Pow2[6] /\ Pow2[7 + 1] = 2 * Pow2[7]
  BY Powers
<1>2. Pow2[1] = 2 BY <1>1, Powers
<1>3. Pow2[2] = 4 BY <1>1, <1>2
<1>4. Pow2[3] = 8 BY <1>1, <1>3
<1>5. Pow2[4] = 16 BY <1>1, <1>4
<1>6. Pow2[5] = 32 BY <1>1, <1>5
<1>7. Pow2[6] = 64 BY <1>1, <1>6
<1>8. Pow2[7] = 128 BY <1>1, <1>7
<1> QED BY <1>1, <1>8

\* Of the lowest rest bits of a number, the highest shift are taken.
Taking(v, rest, shift) ==
  LET low == v % Pow2[rest]
      left == rest - shift
      taken == (v \div Pow2[left]) % Pow2[shift]
  IN /\ left \in Nat
     /\ low \in Nat
     /\ low \div Pow2[left] = taken
     /\ taken \in 0 .. Pow2[shift] - 1
     /\ low % Pow2[left] = v % Pow2[left]
     /\ v \div Pow2[left] = (v \div Pow2[rest]) * Pow2[shift] + taken

\* The shift bits that are taken from the top of a value of which the lower have been cut off.
LEMMA TakenBits ==
  ASSUME NEW v \in Nat, NEW rest \in Nat, NEW shift \in 0 .. rest
  PROVE  Taking(v, rest, shift)
<1> DEFINE left == rest - shift
           L == Pow2[left]
           S == Pow2[shift]
           R == Pow2[rest]
           c == v \div L
<1>1. left \in Nat /\ shift \in Nat /\ left + shift = rest OBVIOUS
<1>2. L \in Nat \ {0} /\ S \in Nat \ {0} /\ R = L * S /\ R \in Nat \ {0}
  <2> HIDE DEF left
  <2>1. Pow2[left + shift] = Pow2[left] * Pow2[shift] BY <1>1, PowerSum
  <2> QED BY <1>1, <2>1, Powers
<1> HIDE DEF left, L, S, R
<1>3. v % R \in Nat
  <2>1. v % R \in 0 .. R - 1 BY <1>2, DivMod
  <2> QED BY <1>2, <2>1
<1>4. (v % (L * S)) \div L = c % S /\ (v % (L * S)) % L = v % L BY <1>2, RestDiv
<1>5. c \in Nat BY <1>2, DivMod
<1>6. c = (v \div (L * S)) * S + (c % S) BY <1>2, DivStep
<1> HIDE DEF c
<1>7. c % S \in 0 .. S - 1 BY <1>2, <1>5, DivMod
<1>8. /\ (v % R) \div L = c % S
      /\ (v % R) % L = v % L
      /\ c = (v \div R) * S + (c % S)
  BY <1>2, <1>4, <1>6
<1> QED BY <1>1, <1>3, <1>7, <1>8 DEF c, left, L, S, R, Taking

\* The bytes so far are the number v of total bits, of which the last out.rest are still
\* in out.src, above the others.
PackRight(out, v, total) ==
  /\ out \in PackStates
  /\ Holds(out.coeffs, LogT, out.room, v \div Pow2[out.rest], total - out.rest)
  /\ out.room \in 0 .. LogT - 1
  /\ out.src = (v % Pow2[out.rest]) * Pow2[8 - out.rest]
  /\ out.coeffs # <<>> => out.coeffs[Len(out.coeffs)] < Pow2[LogT - out.room]

\* The coefficient that the next bits go into, and the room it has.
LEMMA PackPlace ==
  ASSUME NEW out, NEW v \in Nat, NEW total \in Nat, total >= out.rest, PackRight(out, v, total)
  PROVE  LET full == out.room = 0
             room == IF full THEN LogT ELSE out.room
             coeffs == IF full THEN Append(out.coeffs, 0) ELSE out.coeffs
         IN /\ Holds(coeffs, LogT, room, v \div Pow2[out.rest], total - out.rest)
            /\ coeffs # <<>> /\ room \in 1 .. LogT
            /\ coeffs[Len(coeffs)] < Pow2[LogT - room]
<1> DEFINE x == v \div Pow2[out.rest]
           count == total - out.rest
<1>1. LogT \in Nat \ {0} BY LogTAssumption
<1>2. out.coeffs \in Seq(Nat) /\ out.room \in 0 .. LogT - 1 /\ out.rest \in 0 .. 8
      /\ Holds(out.coeffs, LogT, out.room, x, count)
  BY DEF PackRight, PackStates
<1>3. count \in Nat BY <1>2
<1>4. CASE out.room = 0
  <2> DEFINE coeffs == Append(out.coeffs, 0)
  <2>1. Holds(out.coeffs, LogT, 0, x, count) BY <1>2, <1>4
  <2>2. Holds(coeffs, LogT, LogT, x, count) /\ coeffs # <<>>
    <3> HIDE DEF x, count
    <3> QED BY <1>1, <1>3, <2>1, HoldsAppend
  <2>3. coeffs[Len(coeffs)] = 0
    <3>1. Len(coeffs) = Len(out.coeffs) + 1 /\ coeffs[Len(out.coeffs) + 1] = 0 BY <1>2
    <3> QED BY <3>1
  <2>4. LogT - LogT = 0 /\ 0 < 1 /\ LogT \in 1 .. LogT BY <1>1
  <2>5. coeffs[Len(coeffs)] < Pow2[LogT - LogT]
    <3> HIDE DEF coeffs
    <3> QED BY <2>3, <2>4, Powers
  <2> HIDE DEF coeffs, x, count
  <2> QED BY <1>4, <2>2, <2>4, <2>5 DEF coeffs, x, count
<1>5. CASE out.room # 0
  <2>1. out.coeffs # <<>>
    <3> HIDE DEF x, count
    <3> QED BY <1>2, <1>5 DEF Holds
  <2>2. out.coeffs[Len(out.coeffs)] < Pow2[LogT - out.room] BY <2>1 DEF PackRight
  <2>3. out.room \in 1 .. LogT BY <1>1, <1>2, <1>5
  <2> QED BY <1>2, <1>5, <2>1, <2>2, <2>3
<1> QED BY <1>4, <1>5

\* A round of packing keeps the right state right, and takes a bit or more.
LEMMA PackBitsRight ==
  ASSUME NEW out, NEW v \in Nat, NEW total \in Nat, total >= out.rest, PackRight(out, v, total)
  PROVE  /\ PackRight(PackBits(out), v, total)
         /\ PackBits(out).rest \in 0 .. out.rest
         /\ out.rest # 0 => PackBits(out).rest # out.rest
<1> DEFINE full == out.room = 0
           room == IF full THEN LogT ELSE out.room
           coeffs == IF full THEN Append(out.coeffs, 0) ELSE out.coeffs
           rest == out.rest
           shift == Smaller(room, rest)
           put == PutIn(coeffs, Len(coeffs), shift, out.src, 8 - shift)
           src == (out.src * Pow2[shift]) % 256
           new == [src |-> src, rest |-> rest - shift, room |-> room - shift, coeffs |-> put]
<1>1. /\ out \in PackStates /\ rest \in 0 .. 8 /\ rest \in Nat /\ LogT \in Nat \ {0}
      /\ out.src = (v % Pow2[rest]) * Pow2[8 - rest]
  BY LogTAssumption DEF PackRight, PackStates
<1>2. PackBits(out) = IF rest = 0 THEN out ELSE new BY DEF PackBits
<1>3. CASE rest = 0 BY <1>1, <1>2, <1>3
<1>4. CASE rest # 0
  <2>1. /\ Holds(coeffs, LogT, room, v \div Pow2[rest], total - rest)
        /\ coeffs # <<>> /\ room \in 1 .. LogT
        /\ coeffs[Len(coeffs)] < Pow2[LogT - room]
    BY PackPlace
  <2>2. coeffs \in Seq(Nat) /\ Len(coeffs) \in Nat \ {0} BY <2>1 DEF Holds
  <2> HIDE DEF room, coeffs, rest
  <2>3. /\ shift \in 1 .. rest /\ shift \in 1 .. room /\ shift \in Nat
        /\ shift = room \/ shift = rest
    BY <1>1, <1>4, <2>1 DEF Smaller
  <2> HIDE DEF shift
  <2> DEFINE left == rest - shift
             low == v % Pow2[rest]
             b == (v \div Pow2[left]) % Pow2[shift]
             last == coeffs[Len(coeffs)]
             S == Pow2[shift]
             A == Pow2[LogT - room]
  <2>4. /\ left \in 0 .. 8 /\ 8 - rest \in Nat /\ 8 - shift = (8 - rest) + left
        /\ 8 - left = (8 - rest) + shift /\ left + (8 - left) = 8 /\ 8 - left \in Nat
        /\ LogT - room \in Nat /\ room - shift \in 0 .. LogT - 1 /\ shift \in 0 .. rest
        /\ left \in 0 .. rest /\ left # rest
        /\ shift \in 0 .. room /\ room \in Nat
    BY <1>1, <2>1, <2>3
  <2>5. /\ left \in Nat /\ low \in Nat /\ low \div Pow2[left] = b /\ b \in 0 .. S - 1
        /\ low % Pow2[left] = v % Pow2[left]
        /\ v \div Pow2[left] = (v \div Pow2[rest]) * S + b
    <3>1. Taking(v, rest, shift)
      <4> HIDE DEF left, low, b, S
      <4> QED BY <1>1, <2>4, TakenBits
    <3> QED BY <3>1 DEF Taking
  <2> HIDE DEF left
  <2>6. S \in Nat \ {0} /\ A \in Nat \ {0} /\ Pow2[(LogT - room) + shift] = A * S
        /\ Pow2[left] \in Nat \ {0} /\ Pow2[8 - rest] \in Nat \ {0} /\ Pow2[8 - left] \in Nat \ {0}
    BY <2>3, <2>4, <2>5, Powers, PowerSum
  <2>7. out.src \div Pow2[8 - shift] = b
    <3> DEFINE P == Pow2[8 - rest]
               Q == Pow2[left]
    <3>1. Pow2[8 - shift] = P * Q
      <4>1. Pow2[(8 - rest) + left] = P * Q BY <2>4, <2>5, PowerSum
      <4> QED BY <2>4, <4>1
    <3>2. P \in Nat \ {0} /\ Q \in Nat \ {0} BY <2>6
    <3>3. out.src = low * P BY <1>1
    <3> HIDE DEF P, Q, low, b
    <3>4. (low * P) \div (P * Q) = low \div Q BY <2>5, <3>2, DivCancel
    <3>5. low \div Q = b BY <2>5 DEF Q
    <3> QED BY <3>1, <3>3, <3>4, <3>5
  <2>8. src = (v % Pow2[left]) * Pow2[8 - left]
    <3> DEFINE P == Pow2[8 - left]
               Q == Pow2[left]
    <3>1. Q * P = 256
      <4>1. Pow2[left + (8 - left)] = Q * P BY <2>4, <2>5, PowerSum
      <4> QED BY <2>4, <4>1, ByteBits
    <3>2. P \in Nat \ {0} /\ Q \in Nat \ {0} BY <2>6
    <3>3. P = Pow2[8 - rest] * S BY <2>3, <2>4, PowerSum
    <3>4. out.src * S = low * P
      <4> DEFINE U == Pow2[8 - rest]
      <4>1. out.src = low * U /\ P = U * S /\ U \in Nat BY <1>1, <2>6, <3>3
      <4> HIDE DEF U, P, S, low
      <4>2. (low * U) * S = low * (U * S) BY <2>5, <2>6, <4>1
      <4> QED BY <4>1, <4>2
    <3> HIDE DEF P, Q, low, S
    <3>5. (low * P) % (Q * P) = (low % Q) * P BY <2>5, <3>2, RestCancel
    <3>6. low % Q = v % Q BY <2>5 DEF Q
    <3>7. (out.src * S) % 256 = (v % Q) * P BY <3>1, <3>4, <3>5, <3>6
    <3> QED BY <3>7 DEF P, Q, S
  <2> DEFINE y == last * S + b
  <2>9. last \in Nat /\ last < A
    <3>1. last \in Nat BY <2>2
    <3> QED BY <2>1, <3>1
  <2>10. y \in Nat /\ y < A * S
    <3> HIDE DEF last, S, A, b
    <3>1. PICK e \in Nat: A = last + 1 + e
      <4>1. A - 1 - last \in Nat /\ A = last + 1 + (A - 1 - last) BY <2>6, <2>9
      <4> QED BY <4>1
    <3>2. A * S = last * S + S + e * S /\ e * S \in Nat /\ last * S \in Nat
      <4>1. (last + 1 + e) * S = last * S + S + e * S BY <2>6, <2>9
      <4> QED BY <2>6, <2>9, <3>1, <4>1
    <3> QED BY <2>5, <2>6, <3>2
  <2>11. LogT - (room - shift) = (LogT - room) + shift /\ (LogT - room) + shift \in Nat
         /\ room - shift \in Nat /\ LogT = ((LogT - room) + shift) + (room - shift)
    BY <1>1, <2>1, <2>3, <2>4
  <2>12. y \in 0 .. Pow2[LogT] - 1
    <3> DEFINE U == A * S
               V == Pow2[room - shift]
    <3>1. Pow2[LogT] = U * V /\ V \in Nat \ {0}
      <4>1. Pow2[((LogT - room) + shift) + (room - shift)] = Pow2[(LogT - room) + shift] * V
        BY <2>11, PowerSum
      <4> QED BY <2>6, <2>11, <4>1, Powers
    <3>2. U \in Nat \ {0}
      <4>1. Pow2[(LogT - room) + shift] \in Nat \ {0} BY <2>11, Powers
      <4> QED BY <2>6, <4>1
    <3>3. y < U BY <2>10
    <3>4. y \in Nat BY <2>10
    <3> HIDE DEF U, V, y
    <3> DEFINE W == U * V
    <3>5. W >= U /\ W \in Nat BY <3>1, <3>2
    <3>6. Pow2[LogT] = W BY <3>1
    <3> HIDE DEF W
    <3>7. y \in 0 .. W - 1 BY <3>2, <3>3, <3>4, <3>5
    <3> QED BY <3>6, <3>7
  <2>13. y % Pow2[(LogT - room) + shift] = (last % A) * S + b
    <3>1. last % A = last
      <4> HIDE DEF last, A
      <4> QED BY <2>6, <2>9
    <3>2. y % (A * S) = y
      <4> DEFINE U == A * S
      <4>1. U \in Nat \ {0}
        <5>1. Pow2[(LogT - room) + shift] \in Nat \ {0} BY <2>11, Powers
        <5> QED BY <2>6, <5>1
      <4>2. y < U BY <2>10
      <4> HIDE DEF U, y
      <4>3. y % U = y BY <2>10, <4>1, <4>2
      <4> QED BY <4>3 DEF U
    <3> HIDE DEF A, last, S, b
    <3> QED BY <2>6, <3>1, <3>2 DEF y
  <2> DEFINE t == [coeffs EXCEPT ![Len(coeffs)] = y]
             x == v \div Pow2[rest]
             count == total - rest
  <2>14. put = t
    <3>1. coeffs[Len(coeffs)] * Pow2[shift] + out.src \div Pow2[8 - shift] = y BY <2>7
    <3> HIDE DEF y, b
    <3> QED BY <3>1 DEF PutIn
  <2>15. Holds(t, LogT, room - shift, x * S + b, count + shift)
    <3>1. count \in Nat BY <1>1 DEF rest
    <3>2. b \in Nat
      <4> HIDE DEF b, S
      <4> QED BY <2>5, <2>6
    <3>3. Holds(coeffs, LogT, room, x, count) BY <2>1
    <3>4. y % Pow2[(LogT - room) + shift] = (coeffs[Len(coeffs)] % Pow2[LogT - room]) * Pow2[shift] + b
      BY <2>13
    <3> HIDE DEF x, b, y, count
    <3>5. Holds([coeffs EXCEPT ![Len(coeffs)] = y], LogT, room - shift, x * Pow2[shift] + b,
                count + shift)
      BY <1>1, <2>1, <2>4, <2>12, <3>1, <3>2, <3>3, <3>4, HoldsPut
    <3> QED BY <3>5
  <2>16. count + shift = total - left BY <1>1, <2>3 DEF left
  <2>17. Len(t) = Len(coeffs) /\ t[Len(coeffs)] = y
    <3> HIDE DEF y
    <3> QED BY <2>2
  <2>18. put[Len(put)] < Pow2[LogT - (room - shift)]
    <3> HIDE DEF t, put, y, A, S
    <3> QED BY <2>6, <2>10, <2>11, <2>14, <2>17
  <2>19. PackBits(out) = new BY <1>2, <1>4
  <2>20. new.src = src /\ new.rest = left /\ new.room = room - shift /\ new.coeffs = put
    <3> HIDE DEF src, put
    <3> QED BY DEF left
  <2>21. new \in PackStates BY <1>1, <2>19, PackBitsType
  <2>22. Holds(put, LogT, room - shift, v \div Pow2[left], total - left)
    <3> HIDE DEF put, t, b, S, count
    <3> QED BY <2>5, <2>14, <2>15, <2>16
  <2>23. PackRight(new, v, total)
    <3> HIDE DEF new, put, src
    <3> QED BY <2>4, <2>8, <2>18, <2>20, <2>21, <2>22 DEF PackRight
  <2> HIDE DEF new
  <2> QED BY <2>4, <2>19, <2>20, <2>23 DEF rest
<1> QED BY <1>3, <1>4

\* The state between two bytes.
PackDone(out, v, total) == PackRight(out, v, total) /\ out.rest = 0

\* When its rounds are over, all bits of a byte are in the stream.
LEMMA PackByteRight ==
  ASSUME NEW out, NEW v \in Nat, NEW total \in Nat, PackDone(out, v, total),
         NEW byte \in 0 .. 255
  PROVE  PackDone(PackByte(out, byte), v * 256 + byte, total + 8)
<1> DEFINE s == [out EXCEPT !.src = byte, !.rest = 8]
           u == v * 256 + byte
           all == total + 8
<1>1. /\ out \in PackStates /\ out.room \in 0 .. LogT - 1
      /\ Holds(out.coeffs, LogT, out.room, v \div Pow2[0], total - 0)
      /\ out.coeffs # <<>> => out.coeffs[Len(out.coeffs)] < Pow2[LogT - out.room]
  BY DEF PackRight, PackDone
<1>2. s \in PackStates BY <1>1, PackByteType
<1>3. s.src = byte /\ s.rest = 8 /\ s.coeffs = out.coeffs /\ s.room = out.room
  BY <1>1 DEF PackStates
<1>4. u \in Nat /\ u \div 256 = v /\ u % 256 = byte /\ all \in Nat BY DivUnique
<1> HIDE DEF u, s
<1>5. PackRight(s, u, all)
  <2>1. v \div Pow2[0] = v /\ total - 0 = total
    <3>1. v \div 1 = v OBVIOUS
    <3> QED BY <3>1, Powers
  <2>2. u \div Pow2[8] = v /\ u % Pow2[8] = byte BY <1>4, ByteBits
  <2>3. 8 - 8 = 0 /\ byte * 1 = byte /\ all - 8 = total OBVIOUS
  <2>4. s.src = (u % Pow2[s.rest]) * Pow2[8 - s.rest] BY <1>3, <2>2, <2>3, Powers
  <2>5. Holds(s.coeffs, LogT, s.room, u \div Pow2[s.rest], all - s.rest)
    BY <1>1, <1>3, <2>1, <2>2, <2>3
  <2> QED BY <1>1, <1>2, <1>3, <2>4, <2>5 DEF PackRight
<1> HIDE DEF all
<1>6. PICK g \in [0 .. 8 -> PackStates]: /\ g[0] = s /\ g[8] = Rounds(PackBits, 8, s)
                                         /\ \A i \in 0 .. 8 - 1: g[i + 1] = PackBits(g[i])
  <2>1. PackLoop(s, 8) BY <1>2, PackRounds
  <2> QED BY <2>1 DEF PackLoop
<1> DEFINE Good(i) == PackRight(g[i], u, all) /\ g[i].rest \in 0 .. 8 - i
<1>7. \A i \in 0 .. 8: Good(i)
  <2> DEFINE B == {i \in 0 .. 8: ~ Good(i)}
  <2>1. SUFFICES ASSUME B # {} PROVE FALSE OBVIOUS
  <2>2. PICK i \in B: \A x \in B: i <= x
    <3>1. B \in SUBSET Nat OBVIOUS
    <3> HIDE DEF B
    <3> QED BY <2>1, <3>1, LeastNatural
  <2>3. i \in 0 .. 8 /\ ~ Good(i) OBVIOUS
  <2>4. i # 0
    <3>1. Good(0) BY <1>3, <1>5, <1>6
    <3> HIDE DEF Good
    <3> QED BY <2>3, <3>1
  <2>5. i - 1 \in 0 .. 8 /\ i - 1 \in 0 .. 8 - 1 /\ ~ (i <= i - 1) /\ (i - 1) + 1 = i
    BY <2>3, <2>4
  <2>6. Good(i - 1)
    <3>1. i - 1 \notin B
      <4> HIDE DEF B
      <4> QED BY <2>2, <2>5
    <3> HIDE DEF Good
    <3> QED BY <2>5, <3>1
  <2>7. g[i] = PackBits(g[i - 1]) BY <1>6, <2>5
  <2> DEFINE o == g[i - 1]
  <2>8. PackRight(o, u, all) /\ o.rest \in 0 .. 8 - (i - 1) /\ all >= o.rest BY <2>5, <2>6 DEF all
  <2> HIDE DEF o
  <2>9. /\ PackRight(PackBits(o), u, all) /\ PackBits(o).rest \in 0 .. o.rest
        /\ o.rest # 0 => PackBits(o).rest # o.rest
    BY <1>4, <2>8, PackBitsRight
  <2>10. PackBits(o).rest \in 0 .. 8 - i
    <3> DEFINE a == o.rest
               b == PackBits(o).rest
    <3>1. a \in 0 .. 8 - (i - 1) /\ b \in 0 .. a /\ (a # 0 => b # a) BY <2>8, <2>9
    <3> HIDE DEF a, b
    <3>2. b \in 0 .. 8 - i BY <2>3, <3>1
    <3> QED BY <3>2 DEF b
  <2>11. g[i] = PackBits(o) BY <2>7 DEF o
  <2>12. Good(i) BY <2>9, <2>10, <2>11
  <2> HIDE DEF Good
  <2> QED BY <2>3, <2>12
<1>8. PackByte(out, byte) = g[8] BY <1>6 DEF PackByte, s
<1>9. PackRight(g[8], u, all) /\ g[8].rest = 0
  <2>1. Good(8) BY <1>7
  <2> QED BY <2>1
<1> QED BY <1>8, <1>9 DEF u, all, PackDone

\* The items of a sequence of bytes.
LEMMA BytesAre ==
  ASSUME NEW bytes \in Seq(0 .. 255)
  PROVE  Len(bytes) \in Nat /\ \A i \in 1 .. Len(bytes): bytes[i] \in 0 .. 255
<1> DEFINE T == 0 .. 255
<1>1. bytes \in Seq(T) OBVIOUS
<1> HIDE DEF T
<1>2. Len(bytes) \in Nat /\ \A i \in 1 .. Len(bytes): bytes[i] \in T BY <1>1
<1> QED BY <1>2 DEF T

\* The bytes of a plaintext are the digits of a number; it is what the coefficients hold.
LEMMA PackBytesRight ==
  ASSUME NEW bytes \in Seq(0 .. 255), NEW v \in Nat, DigitsOf(bytes, Len(bytes), 8, v)
  PROVE  PackDone(PackBytes(bytes), v, 8 * Len(bytes))
<1> DEFINE n == Len(bytes)
<1>1. n \in Nat /\ \A i \in 1 .. n: bytes[i] \in 0 .. 255 /\ bytes[i] \in 0 .. Pow2[8] - 1
  <2>1. n \in Nat /\ \A i \in 1 .. n: bytes[i] \in 0 .. 255 BY BytesAre
  <2> HIDE DEF n
  <2> QED BY <2>1, ByteBits
<1>2. PICK g \in [0 .. n -> PackStates]: /\ g[0] = PackBegin /\ g[n] = PackBytes(bytes)
                                         /\ \A i \in 1 .. n: g[i] = PackByte(g[i - 1], bytes[i])
  BY PackFold
<1> DEFINE Good(i) == \E u \in Nat: DigitsOf(bytes, i, 8, u) /\ PackDone(g[i], u, 8 * i)
<1> HIDE DEF n
<1>3. Good(0)
  <2>1. PackBegin \in PackStates /\ PackBegin.rest = 0 /\ PackBegin.room = 0
        /\ PackBegin.coeffs = <<>> /\ PackBegin.src = 0
    BY DEF PackBegin, PackStates
  <2>2. 0 % 1 = 0 /\ 0 \div 1 = 0 /\ 8 * 0 = 0 /\ 0 - 0 = 0 /\ 8 - 0 = 8 /\ 0 * 256 = 0 OBVIOUS
  <2>3. 0 \in 0 .. LogT - 1 BY LogTAssumption
  <2>4. Holds(<<>>, LogT, 0, 0, 0)
    <3>1. Len(<<>>) = 0 /\ <<>> \in Seq(Nat) OBVIOUS
    <3>2. 0 + 0 = LogT * 0 BY LogTAssumption
    <3> QED BY <3>1, <3>2 DEF Holds
  <2>5. PackRight(PackBegin, 0, 8 * 0)
    <3>1. 0 \div Pow2[0] = 0 /\ 0 % Pow2[0] = 0 BY <2>2, Powers
    <3>2. Pow2[8 - 0] = 256 BY <2>2, ByteBits
    <3>3. 0 = 0 * Pow2[8 - 0] BY <3>2
    <3>4. Holds(PackBegin.coeffs, LogT, PackBegin.room, 0 \div Pow2[0], (8 * 0) - 0)
      BY <2>1, <2>2, <2>4, <3>1
    <3> QED BY <2>1, <2>3, <3>1, <3>3, <3>4 DEF PackRight
  <2>6. DigitsOf(bytes, 0, 8, 0) BY NoDigits
  <2>7. PackDone(PackBegin, 0, 8 * 0) BY <2>1, <2>5 DEF PackDone
  <2> QED BY <1>2, <2>6, <2>7
<1>4. ASSUME NEW i \in 1 .. n, Good(i - 1)
      PROVE  Good(i)
  <2> DEFINE m == i - 1
             o == g[m]
             byte == bytes[i]
  <2>1. m \in Nat /\ m + 1 = i /\ byte \in 0 .. 255 /\ byte \in 0 .. Pow2[8] - 1 BY <1>1
  <2>2. g[i] = PackByte(o, byte) BY <1>2, <1>4
  <2>3. PICK u \in Nat: DigitsOf(bytes, m, 8, u) /\ PackDone(o, u, 8 * m) BY <1>4
  <2> HIDE DEF o, byte, m
  <2>4. 8 * m \in Nat /\ 8 * m + 8 = 8 * i BY <2>1
  <2> DEFINE w == u * 256 + byte
  <2>5. PackDone(PackByte(o, byte), w, 8 * m + 8)
    <3> DEFINE all == 8 * m
    <3>1. all \in Nat /\ PackDone(o, u, all) BY <2>3, <2>4
    <3> HIDE DEF all, w
    <3>2. PackDone(PackByte(o, byte), u * 256 + byte, all + 8)
      BY <2>1, <2>2, <2>3, <3>1, PackByteRight
    <3> QED BY <3>2 DEF all, w
  <2>6. DigitsOf(bytes, m + 1, 8, w)
    <3>1. bytes[m + 1] = byte BY <2>1 DEF byte
    <3>2. DigitsOf(bytes, m + 1, 8, u * Pow2[8] + bytes[m + 1])
      BY <2>1, <2>3, <3>1, DigitsAppend
    <3> QED BY <3>1, <3>2, ByteBits
  <2>7. w \in Nat BY <2>1
  <2> HIDE DEF w
  <2> QED BY <2>1, <2>2, <2>4, <2>5, <2>6, <2>7
<1>5. \A i \in 0 .. n: Good(i)
  <2> DEFINE B == {i \in 0 .. n: ~ Good(i)}
  <2> HIDE DEF Good
  <2>1. SUFFICES ASSUME B # {} PROVE FALSE OBVIOUS
  <2>2. PICK i \in B: \A x \in B: i <= x
    <3>1. B \in SUBSET Nat OBVIOUS
    <3> HIDE DEF B
    <3> QED BY <2>1, <3>1, LeastNatural
  <2>3. i \in 0 .. n /\ ~ Good(i) OBVIOUS
  <2>4. i \in 1 .. n /\ i - 1 \in 0 .. n /\ ~ (i <= i - 1) BY <1>1, <1>3, <2>3
  <2>5. i - 1 \notin B
    <3> HIDE DEF B
    <3> QED BY <2>2, <2>4
  <2> QED BY <1>4, <2>3, <2>4, <2>5
<1>6. Good(n) BY <1>1, <1>5
<1>7. PICK u \in Nat: DigitsOf(bytes, n, 8, u) /\ PackDone(g[n], u, 8 * n) BY <1>6
<1>8. u = v BY <1>1, <1>7, DigitsUnique DEF n
<1> QED BY <1>2, <1>6, <1>7, <1>8 DEF n

\* Bits put behind a number make one that is below the product.
LEMMA BitsBehind ==
  ASSUME NEW A \in Nat \ {0}, NEW S \in Nat \ {0}, NEW p \in 0 .. A - 1, NEW b \in 0 .. S - 1
  PROVE  p * S + b \in 0 .. A * S - 1 /\ A * S \in Nat \ {0}
<1> DEFINE y == p * S + b
           n == A * S
<1>1. PICK e \in Nat: A = p + 1 + e
  <2>1. A - 1 - p \in Nat /\ A = p + 1 + (A - 1 - p) OBVIOUS
  <2> QED BY <2>1
<1>2. n = p * S + S + e * S /\ e * S \in Nat /\ p * S \in Nat
  <2>1. (p + 1 + e) * S = p * S + S + e * S OBVIOUS
  <2> QED BY <1>1, <2>1
<1> DEFINE q == p * S
           r == e * S
<1>3. y = q + b /\ n = q + S + r /\ q \in Nat /\ r \in Nat BY <1>2
<1> HIDE DEF y, n, q, r
<1>4. y \in 0 .. n - 1 /\ n \in Nat \ {0} BY <1>3
<1> QED BY <1>4 DEF y, n

\* The coefficients are the digits of the bytes' number, moved up over the room that the
\* last of them has.
CoeffsHold(c, v, count) ==
  \E room \in 0 .. LogT - 1:
    /\ c \in Seq(Nat) /\ LogT * Len(c) = count + room
    /\ DigitsOf(c, Len(c), LogT, v * Pow2[room])

\* The coefficients hold the bits of the bytes, and zeros in the room of the last.
LEMMA CoeffsRight ==
  ASSUME NEW bytes \in Seq(0 .. 255), NEW v \in Nat, DigitsOf(bytes, Len(bytes), 8, v)
  PROVE  CoeffsHold(BytesToCoeffs(bytes), v, 8 * Len(bytes))
<1> DEFINE n == Len(bytes)
           out == PackBytes(bytes)
           s == out.coeffs
           room == out.room
           last == s[Len(s)]
           c == BytesToCoeffs(bytes)
<1>0. n \in Nat /\ LogT \in Nat \ {0} BY BytesAre, LogTAssumption
<1>1. CASE bytes = <<>>
  <2>1. n = 0 /\ c = <<>> /\ Len(c) = 0 /\ c \in Seq(Nat) BY <1>1 DEF BytesToCoeffs
  <2>2. v \in 0 .. Pow2[8 * 0] - 1 BY <2>1 DEF DigitsOf
  <2>3. v = 0
    <3>1. 8 * 0 = 0 OBVIOUS
    <3>2. v \in 0 .. 1 - 1 BY <2>2, <3>1, Powers
    <3> QED BY <3>2
  <2>4. 0 \in 0 .. LogT - 1 /\ LogT * 0 = 8 * 0 + 0 /\ 0 * 1 = 0 BY <1>0
  <2>5. DigitsOf(c, 0, LogT, 0) BY <1>0, NoDigits
  <2>6. DigitsOf(c, Len(c), LogT, v * Pow2[0]) /\ LogT * Len(c) = 8 * n + 0
    BY <2>1, <2>3, <2>4, <2>5, Powers
  <2> DEFINE r == 0
  <2>7. c \in Seq(Nat) /\ LogT * Len(c) = 8 * Len(bytes) + r
        /\ DigitsOf(c, Len(c), LogT, v * Pow2[r]) /\ r \in 0 .. LogT - 1
    BY <2>1, <2>4, <2>6
  <2> HIDE DEF c, r
  <2>8. CoeffsHold(c, v, 8 * Len(bytes)) BY <2>7 DEF CoeffsHold
  <2> QED BY <2>8 DEF c
<1>2. CASE bytes # <<>>
  <2>0. n # 0
    <3> DEFINE T == 0 .. 255
    <3>1. bytes \in Seq(T) OBVIOUS
    <3> HIDE DEF T
    <3> QED BY <1>2, <3>1
  <2>1. c = PutIn(s, Len(s), room, 0, 0) BY <1>2 DEF BytesToCoeffs
  <2>2. /\ out \in PackStates /\ room \in 0 .. LogT - 1
        /\ Holds(s, LogT, room, v \div Pow2[0], 8 * n - 0)
        /\ s # <<>> => last < Pow2[LogT - room]
    <3>1. PackDone(out, v, 8 * n) BY PackBytesRight
    <3> HIDE DEF out, n
    <3> QED BY <3>1 DEF PackDone, PackRight
  <2> HIDE DEF out, n, c
  <2> DEFINE count == 8 * n
  <2>3. count \in Nat /\ count # 0 /\ count - 0 = count BY <1>0, <2>0
  <2>4. v \div Pow2[0] = v
    <3>1. v \div 1 = v OBVIOUS
    <3> QED BY <3>1, Powers
  <2> HIDE DEF count
  <2>5. Holds(s, LogT, room, v, count) BY <2>2, <2>3, <2>4 DEF count
  <2>6. s \in Seq(Nat) /\ count + room = LogT * Len(s) BY <2>5 DEF Holds
  <2>7. s # <<>>
    <3>1. s = <<>> => LogT * Len(s) = 0 BY <1>0
    <3> HIDE DEF s, room
    <3> QED BY <2>2, <2>3, <2>6, <3>1
  <2>8. Len(s) \in Nat /\ Len(s) \in 1 .. Len(s) /\ last \in Nat BY <2>6, <2>7
  <2> DEFINE A == Pow2[LogT - room]
             S == Pow2[room]
             y == last * S + 0
  <2>9. room \in Nat /\ LogT - room \in Nat /\ (LogT - room) + room = LogT /\ room \in 0 .. room
        /\ room - room = 0
    BY <1>0, <2>2
  <2>10. A \in Nat \ {0} /\ S \in Nat \ {0} /\ Pow2[LogT] = A * S
    <3>1. Pow2[(LogT - room) + room] = A * S BY <2>9, PowerSum
    <3> QED BY <2>9, <3>1, Powers
  <2>11. last < A BY <2>2, <2>7
  <2>12. y \in 0 .. A * S - 1 /\ A * S \in Nat \ {0}
    <3> HIDE DEF A, S, last
    <3>1. last \in 0 .. A - 1 /\ 0 \in 0 .. S - 1 BY <2>8, <2>10, <2>11
    <3> QED BY <2>10, <3>1, BitsBehind
  <2>13. y % Pow2[(LogT - room) + room] = (last % A) * S + 0
    <3>1. last % A = last
      <4> HIDE DEF last, A
      <4>1. last \in 0 .. A - 1 BY <2>8, <2>10, <2>11
      <4> QED BY <2>10, <4>1, SmallRest
    <3>2. y % (A * S) = y BY <2>12, SmallRest
    <3> HIDE DEF A, S, last
    <3> QED BY <2>9, <2>10, <3>1, <3>2 DEF y
  <2> DEFINE t == [s EXCEPT ![Len(s)] = y]
  <2>14. c = t
    <3>1. 0 \div Pow2[0] = 0
      <4>1. 0 \div 1 = 0 OBVIOUS
      <4> QED BY <4>1, Powers
    <3>2. s[Len(s)] * Pow2[room] + 0 \div Pow2[0] = y BY <3>1
    <3> HIDE DEF y
    <3> QED BY <2>1, <3>2 DEF PutIn
  <2>15. Holds(t, LogT, 0, v * S + 0, count + room)
    <3>1. y \in 0 .. Pow2[LogT] - 1 BY <2>10, <2>12
    <3>2. y % Pow2[(LogT - room) + room] = (s[Len(s)] % Pow2[LogT - room]) * Pow2[room] + 0 BY <2>13
    <3> HIDE DEF y, s, room
    <3>3. 0 \in Nat OBVIOUS
    <3>4. Holds([s EXCEPT ![Len(s)] = y], LogT, room - room, v * Pow2[room] + 0, count + room)
      BY <1>0, <2>3, <2>5, <2>7, <2>9, <3>1, <3>2, <3>3, HoldsPut
    <3> QED BY <2>9, <3>4
  <2>16. v * S + 0 = v * S BY <2>10
  <2>17. Holds(c, LogT, 0, v * S, count + room)
    <3> HIDE DEF t, S
    <3> QED BY <2>14, <2>15, <2>16
  <2>18. DigitsOf(c, Len(c), LogT, v * S)
    <3> HIDE DEF S, room
    <3> QED BY <1>0, <2>17, HoldsDigits
  <2>19. c \in Seq(Nat) /\ (count + room) + 0 = LogT * Len(c)
    <3> HIDE DEF S, room
    <3> QED BY <2>17 DEF Holds
  <2>20. count + room \in Nat BY <2>3, <2>9
  <2>21. LogT * Len(c) = count + room BY <2>19, <2>20
  <2>22. room \in 0 .. LogT - 1 BY <2>2
  <2> HIDE DEF room
  <2>23. CoeffsHold(c, v, count) BY <2>18, <2>19, <2>21, <2>22 DEF CoeffsHold
  <2> QED BY <2>23 DEF c, count, n
<1> QED BY <1>1, <1>2

-----------------------------------------------------------------------------
(* From coefficients to bytes *)

\* The states of unpacking.
UnpackStates == [src: Nat, rest: 0 .. LogT, bytes: Seq(Nat), room: Nat, size: Nat]

\* A round of unpacking makes a state of a state.
LEMMA UnpackBitsType ==
  ASSUME NEW out \in UnpackStates
  PROVE  UnpackBits(out) \in UnpackStates
<1> DEFINE full == out.room = 0
           room == IF full THEN 8 ELSE out.room
           bytes == IF full THEN Append(out.bytes, 0) ELSE out.bytes
           last == Len(bytes)
           shift == Smaller(room, out.rest)
           put == PutIn(bytes, last, shift, out.src, LogT - shift)
           src == out.src * Pow2[shift]
           cut == [put EXCEPT ![last] = @ % 256]
           new == [out EXCEPT !.src = @ * Pow2[shift], !.rest = @ - shift, !.room = room - shift,
                              !.bytes = [put EXCEPT ![last] = @ % 256]]
<1>1. /\ out.src \in Nat /\ out.rest \in 0 .. LogT /\ out.bytes \in Seq(Nat) /\ out.room \in Nat
      /\ out.size \in Nat /\ LogT \in Nat \ {0}
  BY LogTAssumption DEF UnpackStates
<1>2. /\ room \in Nat /\ bytes \in Seq(Nat) /\ last \in Nat
      /\ shift \in 0 .. LogT /\ out.rest - shift \in 0 .. LogT /\ room - shift \in Nat
  <2>1. room \in Nat BY <1>1
  <2>2. bytes \in Seq(Nat) /\ last \in Nat BY <1>1
  <2> DEFINE r == out.rest
  <2>3. r \in 0 .. LogT BY <1>1
  <2>4. shift = IF room < r THEN room ELSE r BY DEF Smaller
  <2> HIDE DEF room, bytes, shift, r
  <2>5. shift \in 0 .. LogT /\ r - shift \in 0 .. LogT /\ room - shift \in Nat
    BY <1>1, <2>1, <2>3, <2>4
  <2> QED BY <2>1, <2>2, <2>5 DEF r
<1>3. src \in Nat
  <2> HIDE DEF shift
  <2> DEFINE S == Pow2[shift]
  <2>0. shift \in Nat BY <1>1, <1>2
  <2>1. S \in Nat BY <2>0, Powers
  <2> HIDE DEF S
  <2>2. out.src * S \in Nat BY <1>1, <2>1
  <2> QED BY <2>2 DEF S
<1>4. put \in Seq(Nat)
  <2>1. shift \in Nat /\ LogT - shift \in Nat BY <1>1, <1>2
  <2> HIDE DEF shift, bytes, last
  <2> QED BY <1>1, <1>2, <2>1, PutInType
<1> HIDE DEF put
<1>5. cut \in Seq(Nat)
  <2>1. CASE last \in 1 .. Len(put)
    <3>1. put[last] \in Nat BY <1>4, <2>1
    <3> DEFINE z == put[last] % 256
    <3>2. z \in Nat BY <3>1
    <3> HIDE DEF z
    <3>3. [put EXCEPT ![last] = z] \in Seq(Nat) BY <1>4, <2>1, <3>2
    <3> QED BY <3>3 DEF z
  <2>2. CASE last \notin 1 .. Len(put)
    <3>1. cut = put BY <1>4, <2>2
    <3> QED BY <1>4, <3>1
  <2> QED BY <2>1, <2>2
<1>6. UnpackBits(out) = IF out.rest = 0 \/ last > out.size THEN out ELSE new
  BY DEF UnpackBits, put
<1>7. new \in UnpackStates
  <2> DEFINE A == Seq(Nat)
             Q == 0 .. LogT
             R == Nat
             a == out.src * Pow2[shift]
             b == out.rest - shift
             c == room - shift
  <2>1. out \in [src: R, rest: Q, bytes: A, room: R, size: R] BY DEF UnpackStates
  <2>2. a \in R /\ b \in Q /\ c \in R /\ cut \in A BY <1>2, <1>3, <1>5
  <2>3. UnpackStates = [src: R, rest: Q, bytes: A, room: R, size: R] BY DEF UnpackStates
  <2>4. new = [out EXCEPT !.src = a, !.rest = b, !.room = c, !.bytes = cut]
    BY <2>1
  <2> HIDE DEF A, Q, R, a, b, c, cut, new
  <2>5. [out EXCEPT !.src = a, !.rest = b, !.room = c, !.bytes = cut]
          \in [src: R, rest: Q, bytes: A, room: R, size: R]
    BY <2>1, <2>2
  <2> QED BY <2>3, <2>4, <2>5
<1> HIDE DEF new
<1> QED BY <1>6, <1>7

\* What a number of rounds make of it.
UnpackLoop(s, n) ==
  \E g \in [0 .. n -> UnpackStates]:
    /\ g[0] = s /\ g[n] = Rounds(UnpackBits, n, s)
    /\ \A i \in 0 .. n - 1: g[i + 1] = UnpackBits(g[i])

\* The states after each of the rounds of a coefficient.
LEMMA UnpackRounds ==
  ASSUME NEW s \in UnpackStates, NEW n \in Nat
  PROVE  UnpackLoop(s, n)
<1> DEFINE F == [x \in UnpackStates |-> UnpackBits(x)]
           Rule(f) == f = [i \in 0 .. n |-> IF i = 0 THEN s ELSE UnpackBits(f[i - 1])]
           h == CHOOSE f: Rule(f)
<1>1. F \in [UnpackStates -> UnpackStates]
  <2>1. \A x \in UnpackStates: UnpackBits(x) \in UnpackStates BY UnpackBitsType
  <2> QED BY <2>1
<1>2. PICK g \in [0 .. n -> UnpackStates]: g[0] = s /\ \A i \in 0 .. n - 1: g[i + 1] = F[g[i]]
  <2> HIDE DEF F
  <2>1. HasRounds(UnpackStates, s, F, n) BY <1>1, RoundsExist
  <2> QED BY <2>1 DEF HasRounds
<1>3. ASSUME NEW i \in 0 .. n - 1 PROVE g[i + 1] = UnpackBits(g[i]) /\ i \in 0 .. n
  <2>1. i \in 0 .. n OBVIOUS
  <2>2. g[i] \in UnpackStates BY <2>1
  <2> QED BY <1>2, <2>1, <2>2
<1>4. Rule(g)
  <2>1. ASSUME NEW i \in 0 .. n, i # 0 PROVE g[i] = UnpackBits(g[i - 1])
    <3>1. i - 1 \in 0 .. n - 1 /\ (i - 1) + 1 = i BY <2>1
    <3>2. g[(i - 1) + 1] = UnpackBits(g[i - 1]) BY <1>3, <3>1
    <3> QED BY <3>1, <3>2
  <2> QED BY <1>2, <2>1
<1>5. Rule(h) BY <1>4
<1>6. \A i \in 0 .. n: h[i] = g[i]
  <2> DEFINE B == {i \in 0 .. n: h[i] # g[i]}
  <2>1. SUFFICES ASSUME B # {} PROVE FALSE OBVIOUS
  <2>2. PICK i \in B: \A x \in B: i <= x
    <3>1. B \in SUBSET Nat OBVIOUS
    <3> HIDE DEF B
    <3> QED BY <2>1, <3>1, LeastNatural
  <2>3. i \in 0 .. n /\ h[i] # g[i] OBVIOUS
  <2>4. h[i] = IF i = 0 THEN s ELSE UnpackBits(h[i - 1])
    <3> HIDE DEF h
    <3> QED BY <1>5, <2>3
  <2>5. g[i] = IF i = 0 THEN s ELSE UnpackBits(g[i - 1]) BY <1>4, <2>3
  <2>6. i # 0 /\ h[i - 1] # g[i - 1]
    <3> HIDE DEF h
    <3> QED BY <2>3, <2>4, <2>5
  <2>7. i - 1 \in B /\ ~ (i <= i - 1)
    <3> HIDE DEF h
    <3> QED BY <2>3, <2>6
  <2> HIDE DEF B
  <2> QED BY <2>2, <2>7
<1>7. Rounds(UnpackBits, n, s) = h[n] BY DEF Rounds
<1>8. h[n] = g[n]
  <2> HIDE DEF h
  <2>1. n \in 0 .. n OBVIOUS
  <2> QED BY <1>6, <2>1
<1>9. g[n] = Rounds(UnpackBits, n, s)
  <2> HIDE DEF h
  <2> QED BY <1>7, <1>8
<1> HIDE DEF h
<1> QED BY <1>2, <1>3, <1>9 DEF UnpackLoop

\* A coefficient makes a state of a state.
LEMMA UnpackCoeffType ==
  ASSUME NEW out \in UnpackStates, NEW coeff \in Nat
  PROVE  /\ [out EXCEPT !.src = coeff, !.rest = LogT] \in UnpackStates
         /\ UnpackCoeff(out, coeff) \in UnpackStates
<1> DEFINE s == [out EXCEPT !.src = coeff, !.rest = LogT]
<1>0. LogT \in Nat /\ LogT \in 0 .. LogT BY LogTAssumption
<1>1. s \in UnpackStates
  <2> DEFINE A == Seq(Nat)
             Q == 0 .. LogT
             R == Nat
  <2>1. out \in [src: R, rest: Q, bytes: A, room: R, size: R] BY DEF UnpackStates
  <2>2. coeff \in R /\ LogT \in Q BY <1>0
  <2>3. UnpackStates = [src: R, rest: Q, bytes: A, room: R, size: R] BY DEF UnpackStates
  <2> HIDE DEF A, Q, R
  <2>4. s \in [src: R, rest: Q, bytes: A, room: R, size: R] BY <2>1, <2>2
  <2> QED BY <2>3, <2>4
<1> HIDE DEF s
<1>2. PICK g \in [0 .. LogT -> UnpackStates]: g[LogT] = Rounds(UnpackBits, LogT, s)
  <2>1. UnpackLoop(s, LogT) BY <1>0, <1>1, UnpackRounds
  <2> QED BY <2>1 DEF UnpackLoop
<1>3. g[LogT] \in UnpackStates BY <1>0
<1> QED BY <1>1, <1>2, <1>3 DEF UnpackCoeff, s

\* Where unpacking begins.
UnpackBegin(size) == [src |-> 0, rest |-> 0, bytes |-> <<>>, room |-> 0, size |-> size]

\* What the coefficients make one after the other.
LEMMA UnpackFold ==
  ASSUME NEW coeffs \in Seq(Nat), NEW size \in Nat
  PROVE  \E g \in [0 .. Len(coeffs) -> UnpackStates]:
           /\ g[0] = UnpackBegin(size) /\ g[Len(coeffs)].bytes = CoeffsToBytes(coeffs, size)
           /\ \A i \in 1 .. Len(coeffs): g[i] = UnpackCoeff(g[i - 1], coeffs[i])
<1> DEFINE n == Len(coeffs)
           T == Nat
           F == [p \in UnpackStates \X T |-> UnpackCoeff(p[1], p[2])]
           D == SUBSET (1 .. n)
           Rule(f) == f = [s \in D |-> IF s = {} THEN UnpackBegin(size)
                                       ELSE UnpackCoeff(f[s \ {Max(s)}], coeffs[Max(s)])]
           h == CHOOSE f: Rule(f)
<1>1. n \in Nat /\ coeffs \in [1 .. n -> T]
  <2>1. coeffs \in Seq(T) OBVIOUS
  <2> HIDE DEF T
  <2> QED BY <2>1
<1>2. UnpackBegin(size) \in UnpackStates BY LogTAssumption DEF UnpackBegin, UnpackStates
<1>3. F \in [UnpackStates \X T -> UnpackStates]
  <2>1. \A p \in UnpackStates \X T: UnpackCoeff(p[1], p[2]) \in UnpackStates BY UnpackCoeffType
  <2> QED BY <2>1
<1>4. HasFold(UnpackStates, UnpackBegin(size), F, n, coeffs)
  <2> HIDE DEF F, n, T
  <2> QED BY <1>1, <1>2, <1>3, FoldExists
<1>5. PICK f \in [D -> UnpackStates]:
        \A s \in D: f[s] = IF s = {} THEN UnpackBegin(size) ELSE F[<<f[s \ {Max(s)}], coeffs[Max(s)]>>]
  <2> HIDE DEF F, n
  <2> QED BY <1>4 DEF HasFold
<1>6. CoeffsToBytes(coeffs, size) = h[1 .. n].bytes
  <2>1. DOMAIN coeffs = 1 .. n BY <1>1
  <2> QED BY <2>1 DEF CoeffsToBytes, FoldLeft, MapThenFoldSet, UnpackBegin
<1>7. Rule(h)
  <2>1. ASSUME NEW s \in D, s # {}
        PROVE F[<<f[s \ {Max(s)}], coeffs[Max(s)]>>] = UnpackCoeff(f[s \ {Max(s)}], coeffs[Max(s)])
    <3>1. Max(s) \in 1 .. n BY <1>1, <2>1, MaxIn
    <3>2. coeffs[Max(s)] \in T BY <1>1, <3>1
    <3>3. f[s \ {Max(s)}] \in UnpackStates
      <4>1. s \ {Max(s)} \in D OBVIOUS
      <4> HIDE DEF D
      <4> QED BY <4>1
    <3> DEFINE p == f[s \ {Max(s)}]
               q == coeffs[Max(s)]
    <3>4. p \in UnpackStates /\ q \in T BY <3>2, <3>3
    <3> HIDE DEF p, q
    <3>5. F[<<p, q>>] = UnpackCoeff(p, q) BY <3>4
    <3> HIDE DEF F
    <3> QED BY <3>5 DEF p, q
  <2> HIDE DEF F, D
  <2>2. \A s \in D: f[s] = IF s = {} THEN UnpackBegin(size)
                           ELSE UnpackCoeff(f[s \ {Max(s)}], coeffs[Max(s)])
    BY <1>5, <2>1
  <2>3. Rule(f) BY <2>2
  <2> QED BY <2>3
<1> DEFINE g == [i \in 0 .. n |-> h[1 .. i]]
<1>8. h[1 .. 0] = UnpackBegin(size)
  <2>1. 1 .. 0 = {} /\ 1 .. 0 \in D BY <1>1
  <2> HIDE DEF D, h, n
  <2> QED BY <1>7, <2>1
<1>9. ASSUME NEW i \in 1 .. n
      PROVE  h[1 .. i] = UnpackCoeff(h[1 .. i - 1], coeffs[i]) /\ coeffs[i] \in Nat
  <2>0. i \in Nat \ {0} BY <1>1
  <2>1. 1 .. i \in D BY <1>1
  <2>2. Max(1 .. i) = i /\ (1 .. i) \ {Max(1 .. i)} = 1 .. i - 1 /\ 1 .. i # {} BY <2>0, LastOf
  <2>3. h[1 .. i] = IF 1 .. i = {} THEN UnpackBegin(size)
                    ELSE UnpackCoeff(h[(1 .. i) \ {Max(1 .. i)}], coeffs[Max(1 .. i)])
    <3> HIDE DEF D, h, n
    <3> QED BY <1>7, <2>1
  <2>4. coeffs[i] \in T BY <1>1
  <2> HIDE DEF h, D, n
  <2> QED BY <2>2, <2>3, <2>4 DEF T
<1> HIDE DEF h
<1>10. \A i \in 0 .. n: h[1 .. i] \in UnpackStates
  <2> DEFINE B == {i \in 0 .. n: h[1 .. i] \notin UnpackStates}
  <2>1. SUFFICES ASSUME B # {} PROVE FALSE OBVIOUS
  <2>2. PICK i \in B: \A x \in B: i <= x
    <3>1. B \in SUBSET Nat OBVIOUS
    <3> HIDE DEF B
    <3> QED BY <2>1, <3>1, LeastNatural
  <2>3. i \in 0 .. n /\ h[1 .. i] \notin UnpackStates OBVIOUS
  <2>4. i # 0 BY <1>2, <1>8, <2>3
  <2>5. i \in 1 .. n /\ i - 1 \in 0 .. n /\ ~ (i <= i - 1) BY <1>1, <2>3, <2>4
  <2>6. h[1 .. i - 1] \in UnpackStates
    <3>1. i - 1 \notin B
      <4> HIDE DEF B
      <4> QED BY <2>2, <2>5
    <3> QED BY <2>5, <3>1
  <2>7. UnpackCoeff(h[1 .. i - 1], coeffs[i]) \in UnpackStates BY <1>9, <2>5, <2>6, UnpackCoeffType
  <2> QED BY <1>9, <2>3, <2>5, <2>7
<1>11. g \in [0 .. n -> UnpackStates] BY <1>10
<1>12. /\ g[0] = UnpackBegin(size) /\ g[n].bytes = CoeffsToBytes(coeffs, size)
       /\ \A i \in 1 .. n: g[i] = UnpackCoeff(g[i - 1], coeffs[i])
  <2>1. 0 \in 0 .. n /\ n \in 0 .. n /\ \A i \in 1 .. n: i \in 0 .. n /\ i - 1 \in 0 .. n
    BY <1>1
  <2>2. \A i \in 0 .. n: g[i] = h[1 .. i] OBVIOUS
  <2> HIDE DEF g, n
  <2> QED BY <1>6, <1>8, <1>9, <2>1, <2>2
<1> HIDE DEF g
<1> QED BY <1>11, <1>12

\* No byte is written any more.
Full(out, size) == out.room = 0 /\ Len(out.bytes) = size

\* The coefficients so far are the number y of total bits, of which the last out.rest are
\* still in out.src, below the others of its coefficient.
UnpackRight(out, y, total, size) ==
  /\ out \in UnpackStates /\ out.size = size
  /\ Holds(out.bytes, 8, out.room, y \div Pow2[out.rest], total - out.rest)
  /\ Len(out.bytes) <= size
  /\ out.room \in 0 .. 7
  /\ out.src = (y % Pow2[LogT]) * Pow2[LogT - out.rest]
  /\ out.rest \notin {0, LogT} => out.room = 0

\* The byte that the next bits go into, and the room it has.
LEMMA UnpackPlace ==
  ASSUME NEW out, NEW y \in Nat, NEW total \in Nat, NEW size \in Nat, total >= out.rest,
         UnpackRight(out, y, total, size), ~ Full(out, size)
  PROVE  LET full == out.room = 0
             room == IF full THEN 8 ELSE out.room
             bytes == IF full THEN Append(out.bytes, 0) ELSE out.bytes
         IN /\ Holds(bytes, 8, room, y \div Pow2[out.rest], total - out.rest)
            /\ bytes # <<>> /\ room \in 1 .. 8 /\ Len(bytes) <= size
            /\ full => bytes[Len(bytes)] = 0
<1> DEFINE x == y \div Pow2[out.rest]
           count == total - out.rest
<1>1. LogT \in Nat \ {0} BY LogTAssumption
<1>2. out.bytes \in Seq(Nat) /\ out.room \in 0 .. 7 /\ out.rest \in 0 .. LogT
      /\ Holds(out.bytes, 8, out.room, x, count) /\ Len(out.bytes) <= size
  BY DEF UnpackRight, UnpackStates
<1>3. count \in Nat BY <1>1, <1>2
<1>4. CASE out.room = 0
  <2> DEFINE bytes == Append(out.bytes, 0)
  <2>1. Holds(out.bytes, 8, 0, x, count) BY <1>2, <1>4
  <2>2. Holds(bytes, 8, 8, x, count) /\ bytes # <<>>
    <3>1. 8 \in Nat \ {0} OBVIOUS
    <3> HIDE DEF x, count
    <3> QED BY <1>3, <2>1, <3>1, HoldsAppend
  <2>3. Len(bytes) = Len(out.bytes) + 1 /\ bytes[Len(bytes)] = 0
    <3>1. Len(bytes) = Len(out.bytes) + 1 /\ bytes[Len(out.bytes) + 1] = 0 BY <1>2
    <3> QED BY <3>1
  <2>4. Len(out.bytes) # size BY <1>4 DEF Full
  <2>5. Len(bytes) <= size
    <3>1. Len(out.bytes) \in Nat BY <1>2
    <3> DEFINE a == Len(out.bytes)
               b == Len(bytes)
    <3>2. a \in Nat /\ b = a + 1 /\ a # size /\ a <= size BY <1>2, <2>3, <2>4, <3>1
    <3> HIDE DEF a, b
    <3>3. b <= size BY <3>2
    <3> QED BY <3>3 DEF b
  <2> HIDE DEF bytes, x, count
  <2> QED BY <1>4, <2>2, <2>3, <2>5 DEF bytes, x, count
<1>5. CASE out.room # 0
  <2>1. out.bytes # <<>>
    <3> HIDE DEF x, count
    <3> QED BY <1>2, <1>5 DEF Holds
  <2>2. out.room \in 1 .. 8 BY <1>2, <1>5
  <2> QED BY <1>2, <1>5, <2>1, <2>2
<1> QED BY <1>4, <1>5

\* The byte that is written: behind the bits it had come those that are taken, whatever
\* used ones are above them.
Takes(y, rest, room, last, shift, src) ==
  LET left == rest - shift
      b == (y \div Pow2[left]) % Pow2[shift]
      z == last * Pow2[shift] + src \div Pow2[LogT - shift]
  IN /\ z \in Nat
     /\ (z % 256) % Pow2[(8 - room) + shift] = (last % Pow2[8 - room]) * Pow2[shift] + b

\* The bits used before are shifted out of the byte, whether it is a new one or holds some already.
LEMMA ByteTakes ==
  ASSUME NEW y \in Nat, NEW rest \in 1 .. LogT, NEW room \in 1 .. 8, NEW last \in Nat,
         NEW shift \in 1 .. rest, shift <= room, rest = LogT \/ (room = 8 /\ last = 0),
         NEW src, src = (y % Pow2[LogT]) * Pow2[LogT - rest]
  PROVE  Takes(y, rest, room, last, shift, src)
<1> DEFINE left == rest - shift
           W == Pow2[LogT]
           c == y % W
           L == Pow2[left]
           S == Pow2[shift]
           A == Pow2[8 - room]
           P == Pow2[LogT - rest]
           d == c \div L
           b == (y \div L) % S
           z == last * S + d
<1>0. LogT \in Nat \ {0} BY LogTAssumption
<1>1. /\ left \in Nat /\ rest \in Nat /\ shift \in Nat /\ LogT - rest \in Nat /\ 8 - room \in Nat
      /\ LogT - shift = (LogT - rest) + left /\ LogT = left + (LogT - left) /\ LogT - left \in Nat
      /\ LogT - left = shift + (LogT - rest)
      /\ 8 = ((8 - room) + shift) + (room - shift) /\ room - shift \in Nat
      /\ (8 - room) + shift \in Nat
  BY <1>0
<1> HIDE DEF left
<1>2. /\ W \in Nat \ {0} /\ L \in Nat \ {0} /\ S \in Nat \ {0} /\ A \in Nat \ {0} /\ P \in Nat \ {0}
      /\ Pow2[LogT - shift] = P * L /\ Pow2[(8 - room) + shift] = A * S
  <2>1. Pow2[(LogT - rest) + left] = P * L BY <1>1, PowerSum
  <2>2. Pow2[(8 - room) + shift] = A * S BY <1>1, PowerSum
  <2> QED BY <1>0, <1>1, <2>1, <2>2, Powers
<1>3. c \in 0 .. W - 1
  <2> HIDE DEF W
  <2> QED BY <1>2, DivMod
<1>4. c \in Nat
  <2> HIDE DEF W, c
  <2> QED BY <1>2, <1>3
<1>5. src \div Pow2[LogT - shift] = d
  <2>1. src = c * P OBVIOUS
  <2> HIDE DEF W, c, P, L
  <2>2. (c * P) \div (P * L) = c \div L BY <1>2, <1>4, DivCancel
  <2> QED BY <1>2, <2>1, <2>2
<1>6. d \in Nat
  <2> HIDE DEF c, L
  <2> QED BY <1>2, <1>4, DivMod
<1>7. d = (y \div L) % (S * P)
  <2>1. W = L * (S * P)
    <3>1. Pow2[left + (LogT - left)] = L * Pow2[LogT - left] BY <1>1, PowerSum
    <3>2. Pow2[shift + (LogT - rest)] = S * P BY <1>1, PowerSum
    <3> QED BY <1>1, <3>1, <3>2
  <2>2. S * P \in Nat \ {0}
    <3>1. Pow2[shift + (LogT - rest)] = S * P BY <1>1, PowerSum
    <3>2. Pow2[shift + (LogT - rest)] \in Nat \ {0} BY <1>1, Powers
    <3> QED BY <3>1, <3>2
  <2> DEFINE Q == S * P
  <2>3. Q \in Nat \ {0} /\ W = L * Q BY <2>1, <2>2
  <2> HIDE DEF W, L, Q
  <2>4. (y % (L * Q)) \div L = (y \div L) % Q /\ (y % (L * Q)) % L = y % L
    BY <1>2, <2>3, RestDiv
  <2> QED BY <2>3, <2>4 DEF Q
<1>8. y \div L \in Nat
  <2> HIDE DEF L
  <2> QED BY <1>2, DivMod
<1>9. b \in 0 .. S - 1
  <2> DEFINE e == y \div L
  <2>1. e \in Nat BY <1>8
  <2> HIDE DEF e, S
  <2>2. e % S \in 0 .. S - 1 BY <1>2, <2>1, DivMod
  <2> QED BY <2>2 DEF e
<1>10. d % S = b
  <2> DEFINE e == y \div L
  <2>1. e \in Nat /\ d = e % (S * P) /\ b = e % S BY <1>7, <1>8
  <2> HIDE DEF e, S, P, d, b
  <2>2. (e % (S * P)) % S = e % S BY <1>2, <2>1, RestDiv
  <2> QED BY <2>1, <2>2
<1>11. z \in Nat
  <2> HIDE DEF d, S
  <2> QED BY <1>2, <1>6
<1>12. (z % 256) % (A * S) = z % (A * S)
  <2> DEFINE U == A * S
             V == Pow2[room - shift]
  <2>1. U * V = 256 /\ V \in Nat \ {0} /\ U \in Nat \ {0}
    <3>1. Pow2[((8 - room) + shift) + (room - shift)] = Pow2[(8 - room) + shift] * V
      BY <1>1, PowerSum
    <3>2. Pow2[(8 - room) + shift] \in Nat \ {0} /\ V \in Nat \ {0} BY <1>1, Powers
    <3> QED BY <1>1, <1>2, <3>1, <3>2, ByteBits
  <2> HIDE DEF U, V, z
  <2>2. (z % (U * V)) % U = z % U BY <1>11, <2>1, RestDiv
  <2>3. (z % 256) % U = z % U BY <2>1, <2>2
  <2> QED BY <2>3 DEF U
<1>13. CASE rest = LogT
  <2>1. LogT - rest = 0 /\ P = 1 BY <1>1, <1>13, Powers
  <2>2. d = b
    <3>1. S * P = S BY <1>2, <2>1
    <3> HIDE DEF S, P, L, d
    <3> QED BY <1>7, <3>1
  <2> DEFINE q == last \div A
             m == last % A
  <2>3. q \in Nat /\ m \in 0 .. A - 1 /\ last = A * q + m
    <3> HIDE DEF A
    <3> QED BY <1>2, DivMod
  <2> HIDE DEF q, m, A, S, b, d
  <2> DEFINE n == A * S
             r == m * S + b
  <2>4. r \in 0 .. n - 1 /\ n \in Nat \ {0} BY <1>2, <1>9, <2>3, BitsBehind
  <2>5. z = q * n + r
    <3>1. (A * q + m) * S = q * (A * S) + m * S /\ q * (A * S) \in Nat /\ m * S \in Nat
      BY <1>2, <2>3
    <3>2. z = (A * q + m) * S + b BY <2>2, <2>3
    <3> DEFINE e == (A * q + m) * S
               f == q * (A * S)
               g == m * S
    <3>3. e = f + g /\ z = e + b /\ f \in Nat /\ g \in Nat /\ b \in Nat
      <4>1. b \in Nat BY <1>2, <1>9
      <4> QED BY <3>1, <3>2, <4>1
    <3> HIDE DEF e, f, g, z
    <3>4. z = f + (g + b) BY <3>3
    <3> QED BY <3>4 DEF f, g
  <2>6. (q * n + r) % n = r
    <3> HIDE DEF n, r
    <3> QED BY <2>3, <2>4, DivUnique
  <2>7. z % (A * S) = m * S + b
    <3>1. z % n = r
      <4> HIDE DEF z, n, r
      <4> QED BY <2>5, <2>6
    <3> QED BY <3>1
  <2>8. (z % 256) % (A * S) = (last % A) * S + b
    <3> HIDE DEF z
    <3> QED BY <1>12, <2>7 DEF m
  <2> HIDE DEF z
  <2> QED BY <1>2, <1>5, <1>11, <2>8 DEF z, A, S, b, d, left, L, Takes
<1>14. CASE room = 8 /\ last = 0
  <2>1. 8 - room = 0 /\ A = 1 BY <1>14, Powers
  <2>2. z = d /\ A * S = S /\ (last % A) * S + b = b
    <3>1. 0 % 1 = 0 OBVIOUS
    <3>2. b \in Nat
      <4> HIDE DEF b, S
      <4> QED BY <1>2, <1>9
    <3> HIDE DEF b, d, S, A
    <3> QED BY <1>2, <1>6, <1>14, <2>1, <3>1, <3>2
  <2>3. (z % 256) % (A * S) = (last % A) * S + b
    <3> HIDE DEF z, A, S, b, d
    <3> QED BY <1>10, <1>12, <2>2
  <2> HIDE DEF z
  <2> QED BY <1>2, <1>5, <1>11, <2>3 DEF z, A, S, b, d, left, L, Takes
<1> QED BY <1>13, <1>14

\* A round of unpacking keeps the right state right, and takes a bit or more until all bytes
\* are written.
LEMMA UnpackBitsRight ==
  ASSUME NEW out, NEW y \in Nat, NEW total \in Nat, NEW size \in Nat, total >= out.rest,
         UnpackRight(out, y, total, size)
  PROVE  /\ UnpackRight(UnpackBits(out), y, total, size)
         /\ UnpackBits(out).rest \in 0 .. out.rest
         /\ out.rest # 0 /\ ~ Full(out, size) => UnpackBits(out).rest # out.rest
         /\ Full(out, size) => UnpackBits(out) = out
<1> DEFINE full == out.room = 0
           room == IF full THEN 8 ELSE out.room
           bytes == IF full THEN Append(out.bytes, 0) ELSE out.bytes
           n == Len(bytes)
           rest == out.rest
           shift == Smaller(room, rest)
           put == PutIn(bytes, n, shift, out.src, LogT - shift)
           new == [out EXCEPT !.src = @ * Pow2[shift], !.rest = @ - shift, !.room = room - shift,
                              !.bytes = [put EXCEPT ![n] = @ % 256]]
<1>0. LogT \in Nat \ {0} BY LogTAssumption
<1>1. /\ out \in UnpackStates /\ rest \in 0 .. LogT /\ rest \in Nat
      /\ out.src = (y % Pow2[LogT]) * Pow2[LogT - rest]
      /\ out.size = size /\ out.bytes \in Seq(Nat) /\ Len(out.bytes) <= size
      /\ rest \notin {0, LogT} => out.room = 0
  BY <1>0 DEF UnpackRight, UnpackStates
<1>2. UnpackBits(out) = IF rest = 0 \/ n > size THEN out ELSE new BY <1>1 DEF UnpackBits
<1>3. CASE Full(out, size)
  <2>1. n = size + 1
    <3>1. out.room = 0 /\ Len(out.bytes) = size BY <1>3 DEF Full
    <3>2. Len(Append(out.bytes, 0)) = Len(out.bytes) + 1 BY <1>1
    <3> QED BY <3>1, <3>2
  <2>2. n > size BY <2>1
  <2> HIDE DEF n, new
  <2>3. UnpackBits(out) = out BY <1>2, <2>2
  <2> QED BY <1>1, <1>3, <2>3
<1>4. CASE rest = 0
  <2>1. UnpackBits(out) = out BY <1>2, <1>4
  <2> QED BY <1>1, <1>4, <2>1
<1>5. CASE rest # 0 /\ ~ Full(out, size)
  <2>1. /\ Holds(bytes, 8, room, y \div Pow2[rest], total - rest)
        /\ bytes # <<>> /\ room \in 1 .. 8 /\ n <= size
        /\ full => bytes[n] = 0
    BY <1>5, UnpackPlace
  <2>2. bytes \in Seq(Nat) /\ n \in Nat \ {0} BY <2>1 DEF Holds
  <2>3. rest = LogT \/ (room = 8 /\ bytes[n] = 0) BY <1>1, <1>5, <2>1
  <2> HIDE DEF room, bytes, rest, full
  <2>4. UnpackBits(out) = new
    <3>1. ~ (n > size) BY <2>1, <2>2
    <3> HIDE DEF n, new
    <3> QED BY <1>2, <1>5, <3>1
  <2>5. /\ shift \in 1 .. rest /\ shift \in 1 .. room /\ shift \in Nat /\ shift <= room
        /\ shift = room \/ shift = rest
    BY <1>1, <1>5, <2>1 DEF Smaller
  <2> HIDE DEF shift, n
  <2> DEFINE left == rest - shift
             b == (y \div Pow2[left]) % Pow2[shift]
             last == bytes[n]
             S == Pow2[shift]
             z == last * S + out.src \div Pow2[LogT - shift]
             byte == z % 256
  <2>6. /\ left \in 0 .. LogT /\ left \in Nat /\ LogT - rest \in Nat /\ LogT - left = (LogT - rest) + shift
        /\ room - shift \in 0 .. 7 /\ shift \in 0 .. rest /\ shift \in 0 .. room /\ room \in Nat
        /\ left \in 0 .. rest /\ left # rest /\ left # LogT /\ (left # 0 => room - shift = 0)
        /\ LogT - shift \in Nat /\ rest \in 1 .. LogT
    BY <1>0, <1>1, <1>5, <2>1, <2>5
  <2>7. last \in Nat BY <2>2 DEF n
  <2>8. z \in Nat /\ byte % Pow2[(8 - room) + shift] = (last % Pow2[8 - room]) * S + b
    <3>1. rest = LogT \/ (room = 8 /\ last = 0) BY <2>3
    <3> DEFINE src == out.src
    <3>2. src = (y % Pow2[LogT]) * Pow2[LogT - rest] BY <1>1
    <3>3. Takes(y, rest, room, last, shift, src)
      <4> HIDE DEF last, src, b, z, byte, S, left
      <4> QED BY <1>1, <2>1, <2>5, <2>6, <2>7, <3>1, <3>2, ByteTakes
    <3> QED BY <3>3 DEF Takes
  <2>9. b \in Nat /\ y \div Pow2[left] = (y \div Pow2[rest]) * S + b
    <3>1. Taking(y, rest, shift) BY <1>1, <2>6, TakenBits
    <3>2. b \in 0 .. S - 1 /\ y \div Pow2[left] = (y \div Pow2[rest]) * S + b BY <3>1 DEF Taking
    <3>3. S \in Nat BY <2>5, Powers
    <3> HIDE DEF b, S, left
    <3> QED BY <3>2, <3>3
  <2>10. byte \in 0 .. 255 /\ byte \in 0 .. Pow2[8] - 1
    <3> HIDE DEF z
    <3> QED BY <2>8, ByteBits
  <2> DEFINE t == [bytes EXCEPT ![n] = byte]
             x == y \div Pow2[rest]
             count == total - rest
  <2>11. [put EXCEPT ![n] = @ % 256] = t
    <3> HIDE DEF z
    <3>1. put = [bytes EXCEPT ![n] = z] BY DEF PutIn, z
    <3>2. n \in DOMAIN bytes BY <2>2 DEF n
    <3> HIDE DEF put
    <3> QED BY <3>1, <3>2
  <2>12. Holds(t, 8, room - shift, x * S + b, count + shift)
    <3>1. count \in Nat BY <1>1 DEF rest
    <3>2. Holds(bytes, 8, room, x, count) BY <2>1
    <3>3. 8 \in Nat \ {0} OBVIOUS
    <3>4. byte % Pow2[(8 - room) + shift] = (bytes[Len(bytes)] % Pow2[8 - room]) * Pow2[shift] + b
      BY <2>8 DEF n
    <3> HIDE DEF x, b, byte, count
    <3>5. Holds([bytes EXCEPT ![Len(bytes)] = byte], 8, room - shift, x * Pow2[shift] + b,
                count + shift)
      BY <2>1, <2>6, <2>9, <2>10, <3>1, <3>2, <3>3, <3>4, HoldsPut
    <3> QED BY <3>5 DEF n
  <2>13. count + shift = total - left BY <1>1, <2>5
  <2>14. Len(t) = n
    <3> HIDE DEF byte
    <3> QED BY <2>2 DEF n
  <2>15. out.src * S = (y % Pow2[LogT]) * Pow2[LogT - left]
    <3> DEFINE c == y % Pow2[LogT]
               P == Pow2[LogT - rest]
    <3>1. Pow2[LogT - left] = P * S /\ P \in Nat /\ S \in Nat
      <4>1. Pow2[(LogT - rest) + shift] = P * S BY <2>5, <2>6, PowerSum
      <4> QED BY <2>5, <2>6, <4>1, Powers
    <3>2. c \in Nat
      <4> DEFINE W == Pow2[LogT]
      <4>1. W \in Nat \ {0} BY <1>0, Powers
      <4> HIDE DEF W
      <4>2. y % W \in 0 .. W - 1 BY <4>1, DivMod
      <4>3. y % W \in Nat BY <4>1, <4>2
      <4> QED BY <4>3 DEF W
    <3>3. out.src = c * P BY <1>1
    <3> HIDE DEF c, P, S, left
    <3>4. (c * P) * S = c * (P * S) BY <3>1, <3>2
    <3> QED BY <3>1, <3>3, <3>4 DEF c
  <2>16. /\ new.src = out.src * S /\ new.rest = left /\ new.room = room - shift
         /\ new.bytes = [put EXCEPT ![n] = @ % 256] /\ new.size = out.size
    <3> HIDE DEF put
    <3> QED BY <1>1 DEF left, UnpackStates, rest
  <2>17. new \in UnpackStates
    <3> HIDE DEF new
    <3> QED BY <1>1, <2>4, UnpackBitsType
  <2>18. Holds(t, 8, room - shift, y \div Pow2[left], total - left)
    <3> HIDE DEF t, b, S, count, left
    <3> QED BY <2>9, <2>12, <2>13
  <2> HIDE DEF new, put, t, left
  <2>19. UnpackRight(new, y, total, size)
    <3>1. new.bytes = t BY <2>11, <2>16
    <3>2. new.src = (y % Pow2[LogT]) * Pow2[LogT - new.rest] BY <2>15, <2>16
    <3>3. new.rest \notin {0, LogT} => new.room = 0 BY <2>6, <2>16
    <3>4. Holds(new.bytes, 8, new.room, y \div Pow2[new.rest], total - new.rest)
      BY <2>16, <2>18, <3>1
    <3>5. Len(new.bytes) <= size /\ new.room \in 0 .. 7 /\ new.size = size
      BY <1>1, <2>1, <2>6, <2>14, <2>16, <3>1
    <3> QED BY <2>17, <3>2, <3>3, <3>4, <3>5 DEF UnpackRight
  <2> QED BY <1>5, <2>4, <2>6, <2>16, <2>19 DEF rest
<1> QED BY <1>3, <1>4, <1>5

\* All bytes are written; they are the digits of the first bits of y.
Stopped(out, y, total, size) ==
  /\ out \in UnpackStates /\ out.size = size /\ Full(out, size) /\ 8 * size <= total
  /\ DigitsOf(out.bytes, size, 8, y \div Pow2[total - 8 * size])

\* When the last of the bytes is full, the bytes hold the first bits of y.
LEMMA FullStops ==
  ASSUME NEW out, NEW y \in Nat, NEW total \in Nat, NEW size \in Nat, total >= out.rest,
         UnpackRight(out, y, total, size), Full(out, size)
  PROVE  Stopped(out, y, total, size)
<1> DEFINE rest == out.rest
           x == y \div Pow2[rest]
           count == total - rest
<1>0. LogT \in Nat BY LogTAssumption
<1>1. /\ out \in UnpackStates /\ out.size = size /\ out.room = 0 /\ Len(out.bytes) = size
      /\ Holds(out.bytes, 8, 0, x, count) /\ rest \in Nat
  BY <1>0 DEF UnpackRight, Full, UnpackStates
<1>2. count + 0 = 8 * size BY <1>1 DEF Holds
<1>3. 8 * size <= total /\ rest = total - 8 * size BY <1>1, <1>2
<1>4. DigitsOf(out.bytes, size, 8, x)
  <2>1. 8 \in Nat \ {0} OBVIOUS
  <2> HIDE DEF x, count
  <2>2. DigitsOf(out.bytes, Len(out.bytes), 8, x) BY <1>1, <2>1, HoldsDigits
  <2> QED BY <1>1, <2>2
<1> HIDE DEF rest
<1> QED BY <1>1, <1>3, <1>4 DEF Stopped

\* A round changes nothing then.
LEMMA FullStays ==
  ASSUME NEW out \in UnpackStates, NEW size \in Nat, out.size = size, Full(out, size)
  PROVE  UnpackBits(out) = out
<1>1. out.room = 0 /\ Len(out.bytes) = size /\ out.bytes \in Seq(Nat) BY DEF Full, UnpackStates
<1>2. Len(Append(out.bytes, 0)) = size + 1 BY <1>1
<1>3. Len(Append(out.bytes, 0)) > out.size BY <1>2
<1> QED BY <1>1, <1>3 DEF UnpackBits

\* Between two coefficients.
Between(out, y, total, size) ==
  (UnpackRight(out, y, total, size) /\ out.rest = 0) \/ Stopped(out, y, total, size)

\* When its rounds are over, all bits of a coefficient are in the stream, or all bytes are
\* written.
LEMMA UnpackCoeffRight ==
  ASSUME NEW out, NEW y \in Nat, NEW total \in Nat, NEW size \in Nat,
         Between(out, y, total, size), NEW coeff \in 0 .. Pow2[LogT] - 1
  PROVE  Between(UnpackCoeff(out, coeff), y * Pow2[LogT] + coeff, total + LogT, size)
<1> DEFINE s == [out EXCEPT !.src = coeff, !.rest = LogT]
           W == Pow2[LogT]
           u == y * W + coeff
           all == total + LogT
<1>0. LogT \in Nat \ {0} /\ W \in Nat \ {0} /\ LogT \in 0 .. LogT BY LogTAssumption, Powers
<1>1. out \in UnpackStates /\ out.size = size
  BY DEF Between, UnpackRight, Stopped
<1>2. coeff \in Nat
  <2>1. coeff \in 0 .. W - 1 OBVIOUS
  <2> HIDE DEF W
  <2> QED BY <1>0, <2>1
<1>3. s \in UnpackStates BY <1>1, <1>2, UnpackCoeffType
<1>4. s.src = coeff /\ s.rest = LogT /\ s.bytes = out.bytes /\ s.room = out.room /\ s.size = size
  BY <1>1 DEF UnpackStates
<1>5. u \in Nat /\ u \div W = y /\ u % W = coeff /\ all \in Nat
  <2>1. coeff \in 0 .. W - 1 OBVIOUS
  <2>2. all \in Nat BY <1>0
  <2> HIDE DEF W, all
  <2>3. u \in Nat BY <1>0, <1>2
  <2> QED BY <1>0, <2>1, <2>2, <2>3, DivUnique
<1>6. PICK g \in [0 .. LogT -> UnpackStates]:
        /\ g[0] = s /\ g[LogT] = Rounds(UnpackBits, LogT, s)
        /\ \A i \in 0 .. LogT - 1: g[i + 1] = UnpackBits(g[i])
  <2> HIDE DEF s
  <2>1. UnpackLoop(s, LogT) BY <1>0, <1>3, UnpackRounds
  <2> QED BY <2>1 DEF UnpackLoop
<1>7. UnpackCoeff(out, coeff) = g[LogT] BY <1>6 DEF UnpackCoeff
<1> HIDE DEF s, u, W
<1>8. CASE UnpackRight(out, y, total, size) /\ out.rest = 0
  <2>1. /\ Holds(out.bytes, 8, out.room, y \div Pow2[0], total - 0)
        /\ Len(out.bytes) <= size /\ out.room \in 0 .. 7
    BY <1>8 DEF UnpackRight
  <2>2. y \div Pow2[0] = y /\ total - 0 = total
    <3>1. y \div 1 = y OBVIOUS
    <3> QED BY <3>1, Powers
  <2>3. UnpackRight(s, u, all, size)
    <3>1. LogT - LogT = 0 /\ coeff * 1 = coeff /\ all - LogT = total BY <1>0, <1>2
    <3>2. s.src = (u % Pow2[LogT]) * Pow2[LogT - s.rest] BY <1>4, <1>5, <3>1, Powers DEF W
    <3>3. Holds(s.bytes, 8, s.room, u \div Pow2[s.rest], all - s.rest)
      BY <1>4, <1>5, <2>1, <2>2, <3>1 DEF W
    <3> QED BY <1>3, <1>4, <2>1, <3>2, <3>3 DEF UnpackRight
  <2> DEFINE Good(i) == UnpackRight(g[i], u, all, size)
                        /\ (Full(g[i], size) \/ g[i].rest \in 0 .. LogT - i)
  <2>4. \A i \in 0 .. LogT: Good(i)
    <3> DEFINE B == {i \in 0 .. LogT: ~ Good(i)}
    <3>1. SUFFICES ASSUME B # {} PROVE FALSE OBVIOUS
    <3>2. PICK i \in B: \A x \in B: i <= x
      <4>1. B \in SUBSET Nat BY <1>0
      <4> HIDE DEF B
      <4> QED BY <3>1, <4>1, LeastNatural
    <3>3. i \in 0 .. LogT /\ ~ Good(i) OBVIOUS
    <3>4. i # 0
      <4>1. Good(0)
        <5>1. LogT \in 0 .. LogT - 0 BY <1>0
        <5> QED BY <1>4, <1>6, <2>3, <5>1
      <4> HIDE DEF Good
      <4> QED BY <3>3, <4>1
    <3>5. i - 1 \in 0 .. LogT /\ i - 1 \in 0 .. LogT - 1 /\ ~ (i <= i - 1) /\ (i - 1) + 1 = i
          /\ i \in Nat
      BY <1>0, <3>3, <3>4
    <3>6. Good(i - 1)
      <4>1. i - 1 \notin B
        <5> HIDE DEF B
        <5> QED BY <3>2, <3>5
      <4> HIDE DEF Good
      <4> QED BY <3>5, <4>1
    <3>7. g[i] = UnpackBits(g[i - 1]) BY <1>6, <3>5
    <3> DEFINE o == g[i - 1]
    <3>8. /\ UnpackRight(o, u, all, size) /\ (Full(o, size) \/ o.rest \in 0 .. LogT - (i - 1))
          /\ o \in UnpackStates
      BY <3>5, <3>6
    <3> HIDE DEF o
    <3>9. o.rest \in 0 .. LogT /\ all >= o.rest BY <1>0, <3>8 DEF UnpackStates, all
    <3>10. /\ UnpackRight(UnpackBits(o), u, all, size) /\ UnpackBits(o).rest \in 0 .. o.rest
           /\ o.rest # 0 /\ ~ Full(o, size) => UnpackBits(o).rest # o.rest
           /\ Full(o, size) => UnpackBits(o) = o
      BY <1>5, <3>8, <3>9, UnpackBitsRight
    <3>11. Full(UnpackBits(o), size) \/ UnpackBits(o).rest \in 0 .. LogT - i
      <4>1. CASE Full(o, size) BY <3>10, <4>1
      <4>2. CASE ~ Full(o, size)
        <5> DEFINE a == o.rest
                   b == UnpackBits(o).rest
        <5>1. a \in 0 .. LogT - (i - 1) /\ b \in 0 .. a /\ (a # 0 => b # a)
          BY <3>8, <3>10, <4>2
        <5> HIDE DEF a, b
        <5>2. b \in 0 .. LogT - i BY <1>0, <3>3, <5>1
        <5> QED BY <5>2 DEF b
      <4> QED BY <4>1, <4>2
    <3>12. g[i] = UnpackBits(o) BY <3>7 DEF o
    <3>13. Good(i) BY <3>10, <3>11, <3>12
    <3> HIDE DEF Good
    <3> QED BY <3>3, <3>13
  <2>5. UnpackRight(g[LogT], u, all, size) /\ (Full(g[LogT], size) \/ g[LogT].rest = 0)
    <3>1. Good(LogT) BY <1>0, <2>4
    <3>2. 0 .. LogT - LogT = {0} BY <1>0
    <3> QED BY <3>1, <3>2
  <2> DEFINE o == g[LogT]
  <2> HIDE DEF o
  <2>6. UnpackRight(o, u, all, size) /\ (Full(o, size) \/ o.rest = 0) BY <2>5 DEF o
  <2>7. all >= o.rest
    <3>1. o \in UnpackStates BY <2>6 DEF UnpackRight
    <3>2. o.rest \in 0 .. LogT BY <3>1 DEF UnpackStates
    <3> QED BY <1>0, <3>2 DEF all
  <2>8. Between(o, u, all, size)
    <3>1. CASE o.rest = 0 BY <2>6, <3>1 DEF Between
    <3>2. CASE Full(o, size)
      <4>1. Stopped(o, u, all, size) BY <1>5, <2>6, <2>7, <3>2, FullStops
      <4> QED BY <4>1 DEF Between
    <3> QED BY <2>6, <3>1, <3>2
  <2> QED BY <1>7, <2>8 DEF o, u, W, all
<1>9. CASE Stopped(out, y, total, size)
  <2> DEFINE r == total - 8 * size
  <2>1. /\ Full(out, size) /\ 8 * size <= total
        /\ DigitsOf(out.bytes, size, 8, y \div Pow2[r])
    BY <1>9 DEF Stopped
  <2>2. Full(s, size) BY <1>4, <2>1 DEF Full
  <2>3. r \in Nat /\ all - 8 * size = LogT + r /\ 8 * size <= all BY <1>0, <2>1
  <2>4. u \div Pow2[all - 8 * size] = y \div Pow2[r]
    <3> DEFINE R == Pow2[r]
    <3>1. R \in Nat \ {0} /\ Pow2[LogT + r] = W * R BY <1>0, <2>3, Powers, PowerSum DEF W
    <3> HIDE DEF R
    <3>2. (u \div W) \div R = u \div (W * R) BY <1>0, <1>5, <3>1, DivTwice
    <3> QED BY <1>5, <2>3, <3>1, <3>2 DEF R
  <2>5. Stopped(s, u, all, size)
    <3> HIDE DEF r, all
    <3> QED BY <1>3, <1>4, <2>1, <2>2, <2>3, <2>4 DEF Stopped
  <2>6. \A i \in 0 .. LogT: g[i] = s
    <3> DEFINE B == {i \in 0 .. LogT: g[i] # s}
    <3>1. SUFFICES ASSUME B # {} PROVE FALSE OBVIOUS
    <3>2. PICK i \in B: \A x \in B: i <= x
      <4>1. B \in SUBSET Nat BY <1>0
      <4> HIDE DEF B
      <4> QED BY <3>1, <4>1, LeastNatural
    <3>3. i \in 0 .. LogT /\ g[i] # s OBVIOUS
    <3>4. i - 1 \in 0 .. LogT /\ i - 1 \in 0 .. LogT - 1 /\ ~ (i <= i - 1) /\ (i - 1) + 1 = i
      BY <1>0, <1>6, <3>3
    <3>5. g[i - 1] = s
      <4>1. i - 1 \notin B
        <5> HIDE DEF B
        <5> QED BY <3>2, <3>4
      <4> QED BY <3>4, <4>1
    <3>6. g[i] = UnpackBits(s)
      <4>1. g[(i - 1) + 1] = UnpackBits(g[i - 1]) BY <1>6, <3>4
      <4> QED BY <3>4, <3>5, <4>1
    <3>7. UnpackBits(s) = s BY <1>3, <1>4, <2>2, FullStays
    <3> QED BY <3>3, <3>6, <3>7
  <2>7. g[LogT] = s BY <1>0, <2>6
  <2>8. Between(s, u, all, size) BY <2>5 DEF Between
  <2> HIDE DEF all
  <2> QED BY <1>7, <2>7, <2>8 DEF u, W, all
<1> QED BY <1>8, <1>9 DEF Between

\* What is decoded of coefficients that have bits enough.
LEMMA UnpackBytesRight ==
  ASSUME NEW coeffs \in Seq(Nat), NEW y \in Nat, NEW size \in Nat,
         \A i \in 1 .. Len(coeffs): coeffs[i] \in 0 .. Pow2[LogT] - 1,
         DigitsOf(coeffs, Len(coeffs), LogT, y), 8 * size < LogT * Len(coeffs)
  PROVE  /\ CoeffsToBytes(coeffs, size) \in Seq(Nat) /\ Len(CoeffsToBytes(coeffs, size)) = size
         /\ DigitsOf(CoeffsToBytes(coeffs, size), size, 8,
                     y \div Pow2[LogT * Len(coeffs) - 8 * size])
<1> DEFINE n == Len(coeffs)
<1>0. LogT \in Nat \ {0} BY LogTAssumption
<1>1. n \in Nat /\ \A i \in 1 .. n: coeffs[i] \in 0 .. Pow2[LogT] - 1 OBVIOUS
<1>2. PICK g \in [0 .. n -> UnpackStates]:
        /\ g[0] = UnpackBegin(size) /\ g[n].bytes = CoeffsToBytes(coeffs, size)
        /\ \A i \in 1 .. n: g[i] = UnpackCoeff(g[i - 1], coeffs[i])
  BY UnpackFold
<1> DEFINE Good(i) == \E u \in Nat: DigitsOf(coeffs, i, LogT, u) /\ Between(g[i], u, LogT * i, size)
<1> HIDE DEF n
<1>3. Good(0)
  <2> DEFINE o == UnpackBegin(size)
  <2>1. /\ o \in UnpackStates /\ o.rest = 0 /\ o.room = 0 /\ o.bytes = <<>> /\ o.src = 0
        /\ o.size = size
    BY <1>0 DEF UnpackBegin, UnpackStates
  <2>2. 0 % 1 = 0 /\ 0 \div 1 = 0 /\ 0 - 0 = 0 /\ 0 \in 0 .. 7 OBVIOUS
  <2>3. LogT * 0 = 0 /\ LogT - 0 = LogT BY <1>0
  <2>4. Holds(<<>>, 8, 0, 0, 0)
    <3>1. Len(<<>>) = 0 /\ <<>> \in Seq(Nat) OBVIOUS
    <3>2. 0 + 0 = 8 * 0 OBVIOUS
    <3> QED BY <3>1, <3>2 DEF Holds
  <2> HIDE DEF o
  <2>5. UnpackRight(o, 0, 0, size)
    <3>1. 0 \div Pow2[0] = 0 BY <2>2, Powers
    <3>2. 0 = (0 % Pow2[LogT]) * Pow2[LogT - 0]
      <4> DEFINE W == Pow2[LogT]
      <4>1. W \in Nat \ {0} BY <1>0, Powers
      <4> HIDE DEF W
      <4>2. 0 % W = 0
        <5>1. 0 \in 0 .. W - 1 BY <4>1
        <5> QED BY <4>1, <5>1, SmallRest
      <4>3. 0 = 0 * W BY <4>1
      <4> QED BY <2>3, <4>2, <4>3 DEF W
    <3>3. Holds(o.bytes, 8, o.room, 0 \div Pow2[o.rest], 0 - o.rest) BY <2>1, <2>2, <2>4, <3>1
    <3>4. Len(o.bytes) <= size
      <4>1. Len(<<>>) = 0 OBVIOUS
      <4> QED BY <2>1, <4>1
    <3>5. o.src = (0 % Pow2[LogT]) * Pow2[LogT - o.rest] BY <2>1, <3>2
    <3> QED BY <2>1, <2>2, <3>3, <3>4, <3>5 DEF UnpackRight
  <2>6. DigitsOf(coeffs, 0, LogT, 0) BY <1>0, NoDigits
  <2>7. Between(o, 0, LogT * 0, size) BY <2>1, <2>3, <2>5 DEF Between
  <2> QED BY <1>2, <2>6, <2>7 DEF o
<1>4. ASSUME NEW i \in 1 .. n, Good(i - 1)
      PROVE  Good(i)
  <2> DEFINE m == i - 1
             o == g[m]
             coeff == coeffs[i]
             W == Pow2[LogT]
  <2>1. m \in Nat /\ m + 1 = i /\ coeff \in 0 .. Pow2[LogT] - 1 BY <1>1
  <2>2. g[i] = UnpackCoeff(o, coeff) BY <1>2
  <2>3. PICK u \in Nat: DigitsOf(coeffs, m, LogT, u) /\ Between(o, u, LogT * m, size) BY <1>4
  <2> HIDE DEF o, coeff, m
  <2>4. LogT * m \in Nat /\ LogT * m + LogT = LogT * i BY <1>0, <2>1
  <2> DEFINE w == u * W + coeff
  <2>5. Between(UnpackCoeff(o, coeff), w, LogT * m + LogT, size)
    <3> DEFINE all == LogT * m
    <3>1. all \in Nat /\ Between(o, u, all, size) BY <2>3, <2>4
    <3> HIDE DEF all, w
    <3>2. Between(UnpackCoeff(o, coeff), u * Pow2[LogT] + coeff, all + LogT, size)
      BY <2>1, <2>3, <3>1, UnpackCoeffRight
    <3> QED BY <3>2 DEF all, w
  <2>6. DigitsOf(coeffs, m + 1, LogT, w)
    <3>1. coeffs[m + 1] = coeff BY <2>1 DEF coeff
    <3>2. DigitsOf(coeffs, m + 1, LogT, u * Pow2[LogT] + coeffs[m + 1])
      BY <1>0, <2>1, <2>3, <3>1, DigitsAppend
    <3> QED BY <3>1, <3>2
  <2>7. w \in Nat
    <3>1. W \in Nat /\ coeff \in 0 .. W - 1 BY <1>0, <2>1, Powers
    <3> HIDE DEF W, coeff
    <3>2. coeff \in Nat BY <3>1
    <3>3. u \in Nat BY <2>3
    <3>4. u * W \in Nat BY <3>1, <3>3, Products
    <3> QED BY <3>2, <3>4
  <2> HIDE DEF w
  <2> QED BY <2>1, <2>2, <2>4, <2>5, <2>6, <2>7
<1>5. \A i \in 0 .. n: Good(i)
  <2> DEFINE B == {i \in 0 .. n: ~ Good(i)}
  <2> HIDE DEF Good
  <2>1. SUFFICES ASSUME B # {} PROVE FALSE OBVIOUS
  <2>2. PICK i \in B: \A x \in B: i <= x
    <3>1. B \in SUBSET Nat OBVIOUS
    <3> HIDE DEF B
    <3> QED BY <2>1, <3>1, LeastNatural
  <2>3. i \in 0 .. n /\ ~ Good(i) OBVIOUS
  <2>4. i \in 1 .. n /\ i - 1 \in 0 .. n /\ ~ (i <= i - 1) BY <1>1, <1>3, <2>3
  <2>5. i - 1 \notin B
    <3> HIDE DEF B
    <3> QED BY <2>2, <2>4
  <2> QED BY <1>4, <2>3, <2>4, <2>5
<1>6. PICK u \in Nat: DigitsOf(coeffs, n, LogT, u) /\ Between(g[n], u, LogT * n, size)
  BY <1>1, <1>5
<1>7. u = y BY <1>0, <1>1, <1>6, DigitsUnique DEF n
<1> DEFINE o == g[n]
           total == LogT * n
<1>8. total \in Nat /\ 8 * size < total BY <1>0, <1>1 DEF n
<1>9. Between(o, y, total, size) BY <1>6, <1>7
<1> HIDE DEF o, total
<1>10. ~ (UnpackRight(o, y, total, size) /\ o.rest = 0)
  <2> SUFFICES ASSUME UnpackRight(o, y, total, size) /\ o.rest = 0 PROVE FALSE OBVIOUS
  <2>1. /\ o.bytes \in Seq(Nat) /\ (total - 0) + o.room = 8 * Len(o.bytes)
        /\ Len(o.bytes) <= size /\ o.room \in 0 .. 7
    BY DEF UnpackRight, Holds
  <2> DEFINE a == Len(o.bytes)
  <2>2. a \in Nat /\ total + o.room = 8 * a /\ a <= size BY <1>8, <2>1
  <2> HIDE DEF a
  <2> QED BY <1>8, <2>1, <2>2
<1>11. /\ DigitsOf(o.bytes, size, 8, y \div Pow2[total - 8 * size])
       /\ o.bytes \in Seq(Nat) /\ Len(o.bytes) = size
  BY <1>9, <1>10 DEF Between, Stopped, Full, UnpackStates
<1> QED BY <1>2, <1>11 DEF o, total, n

-----------------------------------------------------------------------------
(* There and back *)

\* bytes_to_coeffs and coeffs_to_bytes: the bytes decoded from coefficients that begin with
\* those of some bytes begin with these bytes, whatever comes behind them.
THEOREM BytesComeBack ==
  ASSUME NEW bytes \in Seq(0 .. 255), NEW coeffs \in Seq(Nat), NEW size \in Nat,
         Len(bytes) <= size, 8 * size < LogT * Len(coeffs),
         \A i \in 1 .. Len(coeffs): coeffs[i] \in 0 .. Pow2[LogT] - 1,
         Len(BytesToCoeffs(bytes)) <= Len(coeffs),
         \A i \in 1 .. Len(BytesToCoeffs(bytes)): coeffs[i] = BytesToCoeffs(bytes)[i]
  PROVE  /\ CoeffsToBytes(coeffs, size) \in Seq(Nat) /\ Len(CoeffsToBytes(coeffs, size)) = size
         /\ \A i \in 1 .. Len(bytes): CoeffsToBytes(coeffs, size)[i] = bytes[i]
<1> DEFINE n == Len(bytes)
           m == Len(coeffs)
           c == BytesToCoeffs(bytes)
           l == Len(c)
           back == CoeffsToBytes(coeffs, size)
<1>0. /\ LogT \in Nat \ {0} /\ n \in Nat /\ m \in Nat /\ \A i \in 1 .. n: bytes[i] \in 0 .. Pow2[8] - 1
      /\ n \in 0 .. size
  <2>1. n \in Nat /\ \A i \in 1 .. n: bytes[i] \in 0 .. 255 BY BytesAre
  <2> HIDE DEF n
  <2>2. n \in 0 .. size BY <2>1 DEF n
  <2> QED BY <2>1, <2>2, LogTAssumption, ByteBits
<1> HIDE DEF n, m, l, c, back
<1>1. PICK v \in Nat: DigitsOf(bytes, n, 8, v) BY <1>0, DigitsExist
<1>2. PICK y \in Nat: DigitsOf(coeffs, m, LogT, y) BY <1>0, DigitsExist DEF m
<1>3. CoeffsHold(c, v, 8 * n) BY <1>1, CoeffsRight DEF c, n
<1>4. PICK room \in 0 .. LogT - 1:
        c \in Seq(Nat) /\ LogT * l = 8 * n + room /\ DigitsOf(c, l, LogT, v * Pow2[room])
  BY <1>3 DEF CoeffsHold, l
<1>5. l \in Nat /\ l \in 0 .. m /\ room \in Nat BY <1>0, <1>4 DEF l, c, m
<1> DEFINE R == Pow2[room]
           P == Pow2[LogT * (m - l)]
           bits == LogT * m
           left == bits - 8 * n
<1>6. LogT * (m - l) \in Nat /\ LogT * (m - l) + room = left /\ left \in Nat /\ bits \in Nat
  <2> DEFINE d == m - l
             e == LogT * d
  <2>1. d \in Nat /\ m = d + l BY <1>0, <1>5
  <2> HIDE DEF d
  <2>2. LogT * (d + l) = LogT * d + LogT * l /\ LogT * d \in Nat BY <1>0, <1>5, <2>1
  <2>3. bits = e + LogT * l /\ e \in Nat BY <2>1, <2>2
  <2> HIDE DEF e, bits
  <2>4. bits = e + (8 * n + room) BY <1>4, <2>3
  <2>5. left = e + room /\ left \in Nat /\ bits \in Nat BY <1>0, <1>5, <2>3, <2>4
  <2> QED BY <2>3, <2>5 DEF e, d
<1>7. R \in Nat \ {0} /\ P \in Nat \ {0} /\ Pow2[left] = P * R
  <2> HIDE DEF left
  <2>1. Pow2[LogT * (m - l) + room] = P * R BY <1>5, <1>6, PowerSum
  <2> QED BY <1>5, <1>6, <2>1, Powers
<1>8. v * R = y \div P
  <2>1. DigitsOf(coeffs, l, LogT, y \div P) BY <1>0, <1>2, <1>5, DigitsPrefix
  <2>2. DigitsOf(coeffs, l, LogT, v * R)
    <3>1. \A i \in 1 .. l: coeffs[i] = c[i] BY DEF l, c
    <3> HIDE DEF R
    <3>2. DigitsOf(c, l, LogT, v * R) BY <1>4 DEF R
    <3> QED BY <3>1, <3>2 DEF DigitsOf
  <2>3. v * R \in Nat /\ y \div P \in Nat
    <3> HIDE DEF R, P
    <3>1. v * R \in Nat BY <1>7
    <3>2. y \div P \in Nat BY <1>7, DivMod
    <3> QED BY <3>1, <3>2
  <2> DEFINE a == v * R
             b == y \div P
  <2>4. a \in Nat /\ b \in Nat /\ DigitsOf(coeffs, l, LogT, a) /\ DigitsOf(coeffs, l, LogT, b)
    BY <2>1, <2>2, <2>3
  <2> HIDE DEF a, b
  <2>5. a = b BY <1>0, <1>5, <2>4, DigitsUnique
  <2> QED BY <2>5 DEF a, b
<1>9. y \div Pow2[left] = v
  <2> HIDE DEF R, P, left
  <2>1. (y \div P) \div R = y \div (P * R) BY <1>7, DivTwice
  <2>2. (v * R) \div R = v
    <3>1. 0 \in 0 .. R - 1 /\ v * R + 0 = v * R BY <1>7
    <3>2. (v * R + 0) \div R = v BY <1>7, <3>1, DivUnique
    <3> QED BY <3>1, <3>2
  <2> QED BY <1>7, <1>8, <2>1, <2>2
<1> DEFINE Q == Pow2[bits - 8 * size]
           S == Pow2[8 * (size - n)]
<1>10. back \in Seq(Nat) /\ Len(back) = size /\ DigitsOf(back, size, 8, y \div Q)
  <2>1. 8 * size < LogT * Len(coeffs) /\ LogT * Len(coeffs) = bits BY DEF m
  <2>2. \A i \in 1 .. Len(coeffs): coeffs[i] \in 0 .. Pow2[LogT] - 1 OBVIOUS
  <2>3. DigitsOf(coeffs, Len(coeffs), LogT, y) BY <1>2 DEF m
  <2>4. DigitsOf(CoeffsToBytes(coeffs, size), size, 8, y \div Pow2[LogT * Len(coeffs) - 8 * size])
        /\ CoeffsToBytes(coeffs, size) \in Seq(Nat) /\ Len(CoeffsToBytes(coeffs, size)) = size
    BY <2>1, <2>2, <2>3, UnpackBytesRight
  <2> QED BY <2>4 DEF back, m
<1>11. /\ bits - 8 * size \in Nat /\ 8 * (size - n) \in Nat
       /\ (bits - 8 * size) + 8 * (size - n) = left
  <2>1. 8 * size < bits BY DEF m
  <2> HIDE DEF bits
  <2> QED BY <1>0, <1>6, <2>1
<1>12. Q \in Nat \ {0} /\ S \in Nat \ {0} /\ Pow2[left] = Q * S
  <2> HIDE DEF left, bits
  <2>1. Pow2[(bits - 8 * size) + 8 * (size - n)] = Q * S BY <1>11, PowerSum
  <2> QED BY <1>11, <2>1, Powers
<1>13. DigitsOf(back, n, 8, v)
  <2>1. DigitsOf(back, n, 8, (y \div Q) \div S)
    <3> DEFINE x == y \div Q
    <3>1. DigitsOf(back, size, 8, x) BY <1>10
    <3> HIDE DEF x, Q
    <3>2. DigitsOf(back, n, 8, x \div Pow2[8 * (size - n)]) BY <1>0, <3>1, DigitsPrefix
    <3> QED BY <3>2 DEF x
  <2> HIDE DEF Q, S, left
  <2>2. (y \div Q) \div S = y \div (Q * S) BY <1>12, DivTwice
  <2> QED BY <1>9, <1>12, <2>1, <2>2
<1>14. ASSUME NEW i \in 1 .. n PROVE back[i] = bytes[i] BY <1>1, <1>13 DEF DigitsOf
<1> QED BY <1>10, <1>14 DEF back, n

-----------------------------------------------------------------------------
(* The element that is decoded *)

\* The elements of plaintext p.
Count(p) == Cardinality({e \in p * PerPtxt .. (p + 1) * PerPtxt - 1: e < elements})

\* It has one at least, and as many as it can hold or all that are left.
LEMMA CountIs ==
  ASSUME Buckets, NEW p \in Nat, p * PerPtxt < elements
  PROVE  /\ Count(p) \in 1 .. PerPtxt
         /\ p * PerPtxt + Count(p) <= elements
         /\ Count(p) = PerPtxt \/ p * PerPtxt + Count(p) = elements
<1> DEFINE P == PerPtxt
           a == p * P
           z == IF a + P < elements THEN a + P ELSE elements
           S == {e \in a .. (p + 1) * P - 1: e < elements}
<1>1. P \in Nat \ {0} /\ elements \in Nat \ {0} BY QuerySizes, BucketsAre
<1>2. a \in Nat /\ a < elements /\ (p + 1) * P = a + P
  <2>1. a < elements OBVIOUS
  <2> HIDE DEF P
  <2>2. (p + 1) * P = p * P + 1 * P /\ p * P \in Nat BY <1>1, Products
  <2> QED BY <1>1, <2>1, <2>2
<1>3. Count(p) = Cardinality(S) BY DEF Count
<1> HIDE DEF P
<1> DEFINE u == (p + 1) * P
<1>4. S = {e \in a .. u - 1: e < elements} OBVIOUS
<1> HIDE DEF a, S, u
<1>5. S = a .. z - 1
  <2>1. u = a + P /\ P \in Nat \ {0} /\ elements \in Nat /\ a \in Nat BY <1>1, <1>2 DEF u
  <2>2. \A x \in Int: (x <= u - 1 /\ x < elements) <=> x <= z - 1 BY <2>1
  <2>3. \A x \in Int: (x \in a .. u - 1 /\ x < elements) <=> x \in a .. z - 1
    <3> HIDE DEF z
    <3> QED BY <2>2
  <2> QED BY <1>4, <2>1, <2>3
<1>6. Cardinality(S) = z - a
  <2>1. a \in Int /\ z - 1 \in Int /\ a <= z - 1 BY <1>1, <1>2
  <2>2. Cardinality(a .. z - 1) = (z - 1) - a + 1
    <3> HIDE DEF z
    <3> QED BY <2>1, FS_Interval
  <2>3. z \in Nat BY <1>1, <1>2
  <2> HIDE DEF z
  <2> QED BY <1>2, <1>5, <2>2, <2>3
<1>7. Count(p) \in 1 .. P /\ a + Count(p) <= elements /\ (Count(p) = P \/ a + Count(p) = elements)
  BY <1>1, <1>2, <1>3, <1>6
<1> QED BY <1>7 DEF P, a

\* The wanted element of the first bucket, by its plaintext and its place in it.
LEMMA WantedIs ==
  ASSUME Buckets
  PROVE  LET p == wanted[1] \div PerPtxt
             o == wanted[1] % PerPtxt
         IN /\ p \in Nat /\ o \in 0 .. PerPtxt - 1 /\ p * PerPtxt < elements
            /\ wanted[1] = p * PerPtxt + o /\ o < Count(p)
<1> DEFINE P == PerPtxt
           e == wanted[1]
           p == e \div P
           o == e % P
           a == p * P
<1>1. P \in Nat \ {0} /\ elements \in Nat \ {0} /\ e \in Nat /\ e < elements
  <2>1. P \in Nat \ {0} /\ elements \in Nat \ {0} BY QuerySizes, BucketsAre
  <2>2. e \in 0 .. elements - 1 BY DEF Buckets
  <2> HIDE DEF e, P
  <2> QED BY <2>1, <2>2
<1> HIDE DEF e, P
<1>2. p \in Nat /\ o \in 0 .. P - 1 /\ e = P * p + o BY <1>1, DivMod
<1> HIDE DEF p, o
<1>3. a \in Nat /\ P * p = a BY <1>1, <1>2, Products
<1> HIDE DEF a
<1>4. a < elements /\ e = a + o BY <1>1, <1>2, <1>3
<1>5. Count(p) \in 1 .. P /\ (Count(p) = P \/ a + Count(p) = elements)
  <2>1. p * PerPtxt < elements BY <1>4 DEF a, P
  <2> QED BY <1>2, <2>1, CountIs DEF a, P
<1>6. o < Count(p) BY <1>1, <1>2, <1>3, <1>4, <1>5
<1> QED BY <1>2, <1>4, <1>6 DEF e, P, p, o, a

\* The plaintext the server takes lies in the row of the wanted one, in column 0 if that
\* is in the first column of a thread other than the first.
LEMMA FetchedIs ==
  ASSUME Buckets
  PROVE  LET w == wanted[1] \div PerPtxt
             x == IF InFirstColumn THEN Index(2) ELSE 0
         IN Fetched(w) \in Nat /\ x \in Nat /\ Index(2) \in Nat /\ w = Fetched(w) + x
<1> DEFINE w == wanted[1] \div PerPtxt
           n == nvec[2]
           c == w % n
           r == n * (w \div n)
           x == IF InFirstColumn THEN Index(2) ELSE 0
<1>1. w \in Nat /\ w < nvec[1] * nvec[2]
  <2>1. /\ w \in 0 .. PlaintextsPerDb(elements) - 1
        /\ PlaintextsPerDb(elements) \in Nat /\ PlaintextsPerDb(elements) <= nvec[1] * nvec[2]
        /\ nvec[1] \in Nat /\ nvec[2] \in Nat
    BY BucketsAre DEF Dims
  <2>2. nvec[1] * nvec[2] \in Nat BY <2>1, Products
  <2> HIDE DEF w
  <2> QED BY <2>1, <2>2
<1>2. Index(2) = ComputeIndices(w)[2] BY DEF Index
<1> HIDE DEF w
<1>3. n \in Nat \ {0} /\ numThread \in Nat \ {0}
  <2>1. n \in Nat /\ n >= 2 BY BucketsAre DEF Dims
  <2>2. numThread \in Nat \ {0} BY ThreadsAssumption DEF Buckets
  <2> QED BY <2>1, <2>2
<1>4. c \in Nat /\ Index(2) = c /\ w = r + c
  <2>1. /\ ComputeIndices(w) = <<w \div n, w % n>> /\ w % n \in 0 .. n - 1
        /\ w = n * (w \div n) + (w % n)
    BY <1>1, IndicesOf
  <2> QED BY <1>2, <1>3, <2>1
<1>5. r \in Nat
  <2>1. w \div n \in Nat BY <1>1, <1>3, DivMod
  <2> QED BY <1>3, <2>1, Products
<1>6. Fetched(w) = r + (IF c \in FirstColumns THEN 0 ELSE c) BY DEF Fetched
<1> HIDE DEF n, c, r
<1>7. ASSUME InFirstColumn PROVE Fetched(w) = r /\ x = c
  <2>1. PICK t \in 1 .. numThread - 1: Index(2) = First(nvec[2], numThread, t)
    BY <1>7 DEF InFirstColumn
  <2>2. t \in 0 .. numThread - 1 BY <1>3, <2>1
  <2>3. c \in FirstColumns BY <1>4, <2>1, <2>2 DEF FirstColumns
  <2> QED BY <1>4, <1>5, <1>6, <1>7, <2>3
<1>8. ASSUME ~ InFirstColumn PROVE Fetched(w) = w /\ x = 0
  <2>1. CASE c \in FirstColumns
    <3>1. PICK t \in 0 .. numThread - 1: c = First(nvec[2], numThread, t)
      BY <2>1 DEF FirstColumns
    <3>2. t \notin 1 .. numThread - 1 BY <1>4, <1>8, <3>1 DEF InFirstColumn
    <3>3. t = 0 BY <1>3, <3>1, <3>2
    <3>4. First(n, numThread, 0) = 0 BY <1>3, PartsInOrder
    <3>5. c = 0 BY <3>1, <3>3, <3>4 DEF n
    <3> QED BY <1>4, <1>5, <1>6, <1>8, <2>1, <3>5
  <2>2. CASE c \notin FirstColumns BY <1>4, <1>5, <1>6, <1>8, <2>2
  <2> QED BY <2>1, <2>2
<1> HIDE DEF x
<1>9. Fetched(w) \in Nat /\ x \in Nat /\ w = Fetched(w) + x BY <1>1, <1>4, <1>5, <1>7, <1>8
<1> QED BY <1>4, <1>9 DEF w, x

\* The element the client decodes, by the plaintext it is taken from and its place in it.
LEMMA FetchedElement ==
  ASSUME Buckets
  PROVE  LET p == Fetched(wanted[1] \div PerPtxt)
             o == wanted[1] % PerPtxt
         IN /\ p \in Nat /\ o \in 0 .. PerPtxt - 1 /\ p * PerPtxt < elements
            /\ wanted[1] - (IF InFirstColumn THEN Index(2) * PerPtxt ELSE 0) = p * PerPtxt + o
            /\ o < Count(p)
<1> DEFINE P == PerPtxt
           w == wanted[1] \div P
           o == wanted[1] % P
           p == Fetched(w)
           x == IF InFirstColumn THEN Index(2) ELSE 0
           a == p * P
           b == x * P
<1>1. /\ w \in Nat /\ o \in 0 .. P - 1 /\ w * P < elements
      /\ wanted[1] = w * P + o /\ o < Count(w)
  BY WantedIs
<1>2. p \in Nat /\ x \in Nat /\ w = p + x BY FetchedIs
<1>3. P \in Nat \ {0} /\ elements \in Nat BY QuerySizes, BucketsAre
<1>4. b = IF InFirstColumn THEN Index(2) * PerPtxt ELSE 0
  <2>1. 0 * P = 0 BY <1>3
  <2> QED BY <2>1
<1> HIDE DEF P, w, o, p, x
<1>5. w * P = a + b /\ a \in Nat /\ b \in Nat BY <1>2, <1>3, Products
<1>6. x # 0 => b >= P
  <2> SUFFICES ASSUME x # 0 PROVE b >= P
    OBVIOUS
  <2>1. x - 1 \in Nat /\ x = (x - 1) + 1 BY <1>2
  <2>2. /\ ((x - 1) + 1) * P = (x - 1) * P + 1 * P /\ (x - 1) * P \in Nat /\ 1 * P = P
    BY <1>3, <2>1, Products
  <2> DEFINE u == (x - 1) * P
  <2>3. b = u + P /\ u \in Nat BY <2>1, <2>2
  <2> HIDE DEF b, u
  <2> QED BY <1>3, <2>3
<1> HIDE DEF a, b
<1>7. a < elements /\ wanted[1] - b = a + o BY <1>1, <1>3, <1>5
<1>8. o < Count(p)
  <2>1. CASE x = 0
    <3>1. w = p BY <1>2, <2>1
    <3> QED BY <1>1, <3>1
  <2>2. CASE x # 0
    <3>1. p * PerPtxt < elements BY <1>7 DEF a, P
    <3>2. Count(p) \in 1 .. P /\ (Count(p) = P \/ a + Count(p) = elements)
      BY <1>2, <3>1, CountIs DEF P, a
    <3>3. b >= P BY <1>6, <2>2
    <3> QED BY <1>1, <1>3, <1>5, <3>2, <3>3
  <2> QED BY <2>1, <2>2
<1> QED BY <1>1, <1>2, <1>4, <1>7, <1>8 DEF P, w, o, p, a

\* The bytes of a plaintext are those of its elements, one after another.
LEMMA PlaintextBytesAre ==
  ASSUME Buckets, NEW p \in Nat, p * PerPtxt < elements
  PROVE  /\ Count(p) * EleSize \in Nat
         /\ PlaintextBytes(p) \in Seq(0 .. 255) /\ Len(PlaintextBytes(p)) = Count(p) * EleSize
         /\ \A b \in 1 .. Count(p) * EleSize:
              PlaintextBytes(p)[b]
                = Byte(p * PerPtxt + (b - 1) \div EleSize, ((b - 1) % EleSize) + 1)
<1> DEFINE n == Count(p) * EleSize
           a == p * PerPtxt
           T == 0 .. 255
           At(b) == Byte(a + (b - 1) \div EleSize, ((b - 1) % EleSize) + 1)
           s == [b \in 1 .. n |-> At(b)]
<1>1. /\ Count(p) \in Nat \ {0} /\ a + Count(p) <= elements /\ a \in Nat
      /\ EleSize \in Nat \ {0} /\ elements \in Nat /\ elements \in Counts
  <2>1. p * PerPtxt \in Nat BY QuerySizes, Products
  <2>2. PerPtxt \in Nat \ {0} /\ elements \in Nat BY QuerySizes, BucketsAre
  <2> QED BY <2>1, <2>2, CountIs, CountsAssumption DEF Buckets
<1>2. n \in Nat BY <1>1, Products
<1>3. PlaintextBytes(p) = s BY DEF PlaintextBytes, Count
<1> HIDE DEF a
<1>4. ASSUME NEW b \in 1 .. n PROVE At(b) \in T
  <2> DEFINE q == (b - 1) \div EleSize
             r == (b - 1) % EleSize
             x == b - 1
  <2>1. x \in Nat /\ x < n
    <3> HIDE DEF n
    <3> QED BY <1>2
  <2>2. x < EleSize * Count(p) BY <1>1, <2>1, Products
  <2>3. q \in 0 .. Count(p) - 1 /\ r \in 0 .. EleSize - 1
    <3> HIDE DEF x, n
    <3>1. x \div EleSize \in 0 .. Count(p) - 1 BY <1>1, <2>1, <2>2, DivBelow
    <3>2. x % EleSize \in 0 .. EleSize - 1 BY <1>1, <2>1, DivMod
    <3> QED BY <3>1, <3>2 DEF x
  <2> HIDE DEF q, r, n
  <2>4. a + q \in 0 .. elements - 1 /\ r + 1 \in 1 .. EleSize BY <1>1, <2>3
  <2>5. Byte(a + q, r + 1) \in 0 .. 255 BY <1>1, <2>4, ByteAssumption
  <2> QED BY <2>5 DEF q, r
<1> HIDE DEF n, T, At
<1>5. s \in Seq(T) /\ Len(s) = n /\ \A b \in 1 .. n: s[b] = At(b) BY <1>2, <1>4
<1> QED BY <1>2, <1>3, <1>5 DEF n, T, At, a

\* A plaintext has room for all elements it can hold, and for one coefficient more.
LEMMA Room ==
  /\ PerPtxt * EleSize \in Nat /\ LogT * N \in Nat
  /\ 8 * (PerPtxt * EleSize) + LogT <= LogT * N
<1> DEFINE size == PerPtxt * EleSize
           x == 8 * size + LogT - 1
           c == x \div LogT
           r == x % LogT
<1>1. PerPtxt \in Nat \ {0} /\ EleSize \in Nat \ {0} /\ LogT \in Nat \ {0} /\ N \in Nat
  BY QuerySizes, CountsAssumption
<1>2. size \in Nat BY <1>1, Products
<1>3. c < N BY SizeAssumption DEF CoefficientsPerElement, CeilDiv
<1> HIDE DEF size
<1>4. x \in Nat BY <1>1, <1>2
<1>5. c \in Nat /\ r \in 0 .. LogT - 1 /\ x = LogT * c + r
  <2> HIDE DEF x
  <2> QED BY <1>1, <1>4, DivMod
<1> HIDE DEF c, r
<1>6. PICK d \in Nat: N = (c + 1) + d
  <2>1. N - (c + 1) \in Nat /\ N = (c + 1) + (N - (c + 1)) BY <1>1, <1>3, <1>5
  <2> QED BY <2>1
<1>7. /\ (c + (d + 1)) * LogT = c * LogT + (d + 1) * LogT
      /\ (d + 1) * LogT = d * LogT + 1 * LogT
      /\ c * LogT \in Nat /\ d * LogT \in Nat
      /\ N * LogT = LogT * N /\ N * LogT \in Nat /\ c * LogT = LogT * c
  BY <1>1, <1>5, <1>6, Products
<1>8. N = c + (d + 1) BY <1>5, <1>6
<1> DEFINE a == c * LogT
           b == d * LogT
           total == N * LogT
<1>9. total = a + (b + LogT) /\ a \in Nat /\ b \in Nat /\ total \in Nat /\ LogT * N = total
      /\ x = a + r
  <2>1. 1 * LogT = LogT BY <1>1
  <2> QED BY <1>5, <1>7, <1>8, <2>1
<1> HIDE DEF a, b, total
<1>10. 8 * size + LogT <= total BY <1>1, <1>2, <1>5, <1>9
<1> QED BY <1>2, <1>9, <1>10 DEF size

\* What is packed of a plaintext leaves room in it, and with the padding behind it all
\* coefficients are below 2^LogT.
LEMMA PlaintextIs ==
  ASSUME Buckets, NEW p \in Nat, p * PerPtxt < elements
  PROVE  LET c == BytesToCoeffs(PlaintextBytes(p))
         IN /\ Plaintext(p) \in Seq(Nat) /\ Len(Plaintext(p)) = N
            /\ \A i \in 1 .. N: Plaintext(p)[i] \in 0 .. Pow2[LogT] - 1
            /\ Len(c) \in 0 .. N /\ \A i \in 1 .. Len(c): Plaintext(p)[i] = c[i]
<1> DEFINE bytes == PlaintextBytes(p)
           c == BytesToCoeffs(bytes)
           l == Len(c)
           n == Len(bytes)
           t == Plaintext(p)
<1>1. bytes \in Seq(0 .. 255) /\ n \in Nat /\ n <= PerPtxt * EleSize
  <2>1. /\ bytes \in Seq(0 .. 255) /\ n = Count(p) * EleSize /\ n \in Nat BY PlaintextBytesAre
  <2>2. PICK d \in Nat: PerPtxt = Count(p) + d
    <3>1. Count(p) \in 1 .. PerPtxt /\ PerPtxt \in Nat BY CountIs, QuerySizes
    <3>2. PerPtxt - Count(p) \in Nat /\ PerPtxt = Count(p) + (PerPtxt - Count(p)) BY <3>1
    <3> QED BY <3>2
  <2>3. Count(p) \in Nat /\ EleSize \in Nat
    <3>1. Count(p) \in 1 .. PerPtxt /\ PerPtxt \in Nat BY CountIs, QuerySizes
    <3> QED BY <3>1, CountsAssumption
  <2>4. /\ (Count(p) + d) * EleSize = Count(p) * EleSize + d * EleSize
        /\ d * EleSize \in Nat
    BY <2>2, <2>3, Products
  <2> DEFINE x == d * EleSize
  <2> HIDE DEF n, x
  <2>5. PerPtxt * EleSize = n + x /\ x \in Nat /\ n \in Nat BY <2>1, <2>2, <2>4 DEF x
  <2>6. n <= PerPtxt * EleSize BY <2>5
  <2> QED BY <2>1, <2>6
<1>2. /\ LogT \in Nat \ {0} /\ N \in Nat \ {0} /\ PerPtxt * EleSize \in Nat /\ LogT * N \in Nat
      /\ 8 * (PerPtxt * EleSize) + LogT <= LogT * N /\ Pow2[LogT] \in Nat /\ Pow2[LogT] >= 2
  <2>1. Pow2[LogT] \in Nat BY LogTAssumption, Powers
  <2>2. Modulus = Pow2[LogT] + 1 /\ Modulus >= 3 /\ LogT \in Nat \ {0} /\ N \in Nat \ {0}
    BY QuerySizes DEF Modulus
  <2>3. Pow2[LogT] >= 2 BY <2>1, <2>2
  <2> QED BY <2>1, <2>2, <2>3, Room
<1>3. PICK v \in Nat: DigitsOf(bytes, n, 8, v)
  <2>1. \A i \in 1 .. n: bytes[i] \in 0 .. Pow2[8] - 1 BY <1>1, BytesAre, ByteBits
  <2> HIDE DEF bytes, n
  <2> QED BY <1>1, <2>1, DigitsExist
<1>4. CoeffsHold(c, v, 8 * n)
  <2> HIDE DEF bytes
  <2> QED BY <1>1, <1>3, CoeffsRight
<1> HIDE DEF c, n
<1>5. PICK room \in 0 .. LogT - 1:
        /\ c \in Seq(Nat) /\ LogT * Len(c) = 8 * n + room
        /\ DigitsOf(c, Len(c), LogT, v * Pow2[room])
  BY <1>4 DEF CoeffsHold
<1>6. l \in Nat /\ \A i \in 1 .. l: c[i] \in Nat BY <1>5
<1>7. l < N
  <2> SUFFICES ASSUME ~ (l < N) PROVE FALSE OBVIOUS
  <2>1. PICK d \in Nat: l = N + d
    <3>1. l - N \in Nat /\ l = N + (l - N) BY <1>2, <1>6
    <3> QED BY <3>1
  <2>2. LogT * (N + d) = LogT * N + LogT * d /\ LogT * d \in Nat
    <3>1. (N + d) * LogT = N * LogT + d * LogT /\ d * LogT \in Nat
          /\ LogT * (N + d) = (N + d) * LogT /\ LogT * N = N * LogT /\ LogT * d = d * LogT
      BY <1>2, <2>1, Products
    <3> QED BY <3>1
  <2> DEFINE a == LogT * N
             b == LogT * d
             s == PerPtxt * EleSize
  <2>3. a + b = 8 * n + room /\ a \in Nat /\ b \in Nat /\ s \in Nat /\ n <= s /\ 8 * s + LogT <= a
    BY <1>1, <1>2, <1>5, <2>1, <2>2 DEF l
  <2> HIDE DEF a, b, s
  <2> QED BY <1>1, <1>2, <1>5, <2>3
<1>8. ASSUME NEW i \in 1 .. l PROVE c[i] \in 0 .. Pow2[LogT] - 1
  <2> DEFINE x == (v * Pow2[room]) \div Pow2[LogT * (l - i)]
  <2>1. c[i] = x % Pow2[LogT]
    <3> DEFINE y == v * Pow2[room]
    <3> HIDE DEF y
    <3>1. DigitsOf(c, Len(c), LogT, y) BY <1>5 DEF y
    <3>2. \A b \in 1 .. Len(c): c[b] = (y \div Pow2[LogT * (Len(c) - b)]) % Pow2[LogT]
      BY <3>1 DEF DigitsOf
    <3>3. c[i] = (y \div Pow2[LogT * (l - i)]) % Pow2[LogT] BY <3>2 DEF l
    <3> QED BY <3>3 DEF y
  <2>2. v * Pow2[room] \in Nat
    <3>1. room \in 0 .. LogT - 1 BY <1>5
    <3>2. room \in Nat BY <1>2, <3>1
    <3>3. Pow2[room] \in Nat BY <3>2, Powers
    <3> QED BY <3>3, Products
  <2>3. LogT * (l - i) \in Nat
    <3>1. l - i \in Nat BY <1>6
    <3> QED BY <1>2, <3>1, Products
  <2>4. Pow2[LogT * (l - i)] \in Nat \ {0} BY <2>3, Powers
  <2>5. x \in Nat
    <3> DEFINE a == v * Pow2[room]
               b == Pow2[LogT * (l - i)]
    <3>1. a \in Nat /\ b \in Nat \ {0} BY <2>2, <2>4
    <3> HIDE DEF a, b
    <3>2. a \div b \in Nat BY <3>1, DivMod
    <3> QED BY <3>2 DEF a, b
  <2> DEFINE q == Pow2[LogT]
  <2>6. q \in Nat \ {0} BY <1>2
  <2> HIDE DEF x, q
  <2>7. x % q \in 0 .. q - 1 BY <2>5, <2>6, DivMod
  <2> QED BY <2>1, <2>7 DEF q
<1>9. t = [i \in 1 .. N |-> IF i <= l THEN c[i] ELSE 1] BY DEF Plaintext, c
<1> HIDE DEF t, l
<1>10. \A i \in 1 .. N: /\ i <= l => i \in 1 .. l
                        /\ t[i] = IF i <= l THEN c[i] ELSE 1 BY <1>6, <1>9
<1>11. \A i \in 1 .. N: t[i] \in 0 .. Pow2[LogT] - 1 /\ t[i] \in Nat BY <1>2, <1>8, <1>10
<1>12. t \in Seq(Nat) /\ Len(t) = N BY <1>2, <1>9, <1>11
<1>13. l \in 0 .. N /\ \A i \in 1 .. l: i \in 1 .. N BY <1>2, <1>6, <1>7
<1>14. \A i \in 1 .. l: t[i] = c[i] BY <1>10, <1>13
<1> QED BY <1>11, <1>12, <1>13, <1>14 DEF t, l, c

\* The bytes the client cuts out of the plaintext are those of the element at its place.
LEMMA DecodedIs ==
  Buckets => Decoded = Element(wanted[1] - (IF InFirstColumn THEN Index(2) * PerPtxt ELSE 0))
<1> DEFINE e == wanted[1] - (IF InFirstColumn THEN Index(2) * PerPtxt ELSE 0)
           p == Fetched(wanted[1] \div PerPtxt)
           o == wanted[1] % PerPtxt
           bytes == PlaintextBytes(p)
           t == Plaintext(p)
           size == PerPtxt * EleSize
           back == CoeffsToBytes(t, size)
           n == Len(bytes)
           from == o * EleSize
           S == EleSize
<1> SUFFICES ASSUME Buckets PROVE Decoded = Element(e)
  OBVIOUS
<1>1. /\ p \in Nat /\ o \in 0 .. PerPtxt - 1 /\ p * PerPtxt < elements
      /\ e = p * PerPtxt + o /\ o < Count(p)
  BY FetchedElement
<1> HIDE DEF e, p, o
<1>2. /\ bytes \in Seq(0 .. 255) /\ n = Count(p) * S /\ n \in Nat
      /\ \A b \in 1 .. n: bytes[b] = Byte(p * PerPtxt + (b - 1) \div S, ((b - 1) % S) + 1)
  BY <1>1, PlaintextBytesAre
<1>3. /\ Count(p) \in Nat \ {0} /\ Count(p) <= PerPtxt /\ PerPtxt \in Nat \ {0} /\ S \in Nat \ {0}
      /\ o \in Nat
  <2>1. Count(p) \in 1 .. PerPtxt BY <1>1, CountIs
  <2> QED BY <1>1, <2>1, QuerySizes, CountsAssumption
<1>4. /\ (o + 1) * S = from + S /\ from \in Nat /\ size \in Nat
      /\ from + S <= n /\ n <= size
  <2>1. PICK d \in Nat: Count(p) = (o + 1) + d
    <3>1. Count(p) - (o + 1) \in Nat /\ Count(p) = (o + 1) + (Count(p) - (o + 1)) BY <1>1, <1>3
    <3> QED BY <3>1
  <2>2. PICK r \in Nat: PerPtxt = Count(p) + r
    <3>1. PerPtxt - Count(p) \in Nat /\ PerPtxt = Count(p) + (PerPtxt - Count(p)) BY <1>3
    <3> QED BY <3>1
  <2>3. /\ ((o + 1) + d) * S = (o + 1) * S + d * S /\ d * S \in Nat
        /\ (o + 1) * S = o * S + 1 * S /\ o * S \in Nat /\ 1 * S = S
        /\ (Count(p) + r) * S = Count(p) * S + r * S /\ r * S \in Nat
    BY <1>3, <2>1, <2>2, Products
  <2> DEFINE x == d * S
             y == r * S
  <2>4. /\ (o + 1) * S = from + S /\ from \in Nat /\ x \in Nat /\ y \in Nat
        /\ n = (from + S) + x /\ size = n + y
    BY <1>2, <2>1, <2>2, <2>3
  <2> HIDE DEF x, y, n, from, size, S
  <2> QED BY <1>2, <1>3, <2>4
<1>5. /\ t \in Seq(Nat) /\ Len(t) = N /\ \A i \in 1 .. N: t[i] \in 0 .. Pow2[LogT] - 1
      /\ Len(BytesToCoeffs(bytes)) <= N
      /\ \A i \in 1 .. Len(BytesToCoeffs(bytes)): t[i] = BytesToCoeffs(bytes)[i]
  BY <1>1, PlaintextIs, QuerySizes
<1>6. 8 * size < LogT * N
  <2>1. /\ size \in Nat /\ LogT * N \in Nat /\ LogT \in Nat \ {0} /\ 8 * size + LogT <= LogT * N
    BY Room, QuerySizes
  <2> HIDE DEF size
  <2> QED BY <2>1
<1>7. Len(back) = size /\ back \in Seq(Nat) /\ \A b \in 1 .. n: back[b] = bytes[b]
  <2>1. Len(bytes) <= size BY <1>4
  <2> HIDE DEF bytes, t, size
  <2>2. 8 * size < LogT * Len(t) /\ \A i \in 1 .. Len(t): t[i] \in 0 .. Pow2[LogT] - 1
    BY <1>5, <1>6
  <2> QED BY <1>2, <1>4, <1>5, <2>1, <2>2, BytesComeBack
<1>8. ASSUME NEW x \in 1 .. S
      PROVE  from + x \in 1 .. n /\ bytes[from + x] = Byte(e, x)
  <2> DEFINE b == from + x
  <2>1. b \in 1 .. n /\ b - 1 = from + (x - 1) /\ x - 1 \in 0 .. S - 1 /\ (x - 1) + 1 = x
    <3> HIDE DEF n, from, S
    <3> QED BY <1>2, <1>3, <1>4
  <2>2. (o * S + (x - 1)) \div S = o /\ (o * S + (x - 1)) % S = x - 1
    <3> DEFINE y == x - 1
    <3>1. y \in 0 .. S - 1 BY <2>1
    <3> HIDE DEF y, S
    <3>2. (o * S + y) \div S = o /\ (o * S + y) % S = y BY <1>3, <3>1, DivUnique
    <3> QED BY <3>2 DEF y
  <2>3. bytes[b] = Byte(p * PerPtxt + (b - 1) \div S, ((b - 1) % S) + 1) BY <1>2, <2>1
  <2>4. (b - 1) \div S = o /\ (b - 1) % S = x - 1 BY <2>1, <2>2
  <2> QED BY <1>1, <2>1, <2>3, <2>4
<1>9. Decoded = SubSeq(back, from + 1, from + S)
  BY <1>4 DEF Decoded, ElementIn, p, o
<1> HIDE DEF back, size, from, n, bytes, t, S
<1>10. \A x \in 1 .. S: back[from + x] = Byte(e, x) /\ from + x \in 1 .. Len(back)
  <2> SUFFICES ASSUME NEW x \in 1 .. S
               PROVE  back[from + x] = Byte(e, x) /\ from + x \in 1 .. Len(back)
    OBVIOUS
  <2>1. from + x \in 1 .. n /\ bytes[from + x] = Byte(e, x) BY <1>8
  <2>2. back[from + x] = bytes[from + x] BY <1>7, <2>1
  <2>3. n \in Nat /\ size \in Nat /\ n <= size /\ Len(back) = size BY <1>2, <1>4, <1>7
  <2> QED BY <2>1, <2>2, <2>3
<1>11. SubSeq(back, from + 1, from + S) = [x \in 1 .. S |-> Byte(e, x)]
  <2>1. (from + S) - (from + 1) + 1 = S /\ from + S <= Len(back) /\ from + 1 >= 1
    BY <1>2, <1>3, <1>4, <1>7
  <2> DEFINE u == SubSeq(back, from + 1, from + S)
  <2>2. from \in Nat /\ S \in Nat \ {0} BY <1>3, <1>4
  <2>3. \A i \in from + 1 .. from + S: back[i] \in Nat BY <1>7, <2>1, <2>2
  <2>4. u \in Seq(Nat) /\ Len(u) = S /\ \A x \in 1 .. S: u[x] = back[from + x]
    <3> DEFINE a == from + 1
               b == from + S
    <3>1. a \in Int /\ b \in Int /\ a <= b /\ b - a + 1 = S
          /\ \A x \in 1 .. S: a + x - 1 = from + x
      BY <2>2
    <3>2. \A i \in a .. b: back[i] \in Nat BY <2>3
    <3> HIDE DEF a, b
    <3>3. /\ SubSeq(back, a, b) \in Seq(Nat) /\ Len(SubSeq(back, a, b)) = S
          /\ \A x \in 1 .. S: SubSeq(back, a, b)[x] = back[a + x - 1]
      BY <3>1, <3>2, SubSeqProperties
    <3> QED BY <3>1, <3>3 DEF a, b
  <2> HIDE DEF u
  <2>5. u = [x \in 1 .. S |-> Byte(e, x)] BY <1>10, <2>4
  <2> QED BY <2>5 DEF u
<1> QED BY <1>9, <1>11 DEF Element, S

\* The matrix addresses every plaintext, and when every pir thread has a column the client
\* decodes the bytes of the element it wants of the first bucket; when that lies in the
\* first column of a thread other than the first, those of the element at the same place
\* of column 0 of its row.
THEOREM RetrievalAlwaysRight ==
  QuerySpec => []RetrievalRight
<1>1. QueryInvariant => RetrievalRight
  BY Addressed, DecodedIs DEF QueryInvariant, ClientRight, RetrievalRight
<1> QED BY <1>1, QueryInvariantHolds, PTL
=============================================================================
