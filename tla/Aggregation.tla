----------------------------- MODULE Aggregation -----------------------------
(***************************************************************************)
(* step1 after the query has arrived: the workers of a group multiply      *)
(* their columns of the matrix, exchange partial results so that each of   *)
(* them sums its own rows over the whole group, and send the sums to the   *)
(* client, which counts rows.  The client is client/merge.cpp, which       *)
(* stores the rows, or client/split.cpp, which decrypts each of them at    *)
(* once, in two RPC threads that share one ciphertext.                     *)
(*                                                                         *)
(* A ciphertext is the set of <<worker, row>> products added up in it.  A  *)
(* copy and a decryption take time, and memory that two threads work on at *)
(* once may hold anything; histories record which handlers, and which rows *)
(* of the result, that has happened to.                                    *)
(*                                                                         *)
(* async_call puts a message in flight; each worker's only worker_server   *)
(* thread handles those that reach it one by one, in any order.            *)
(***************************************************************************)
EXTENDS Partition, FiniteSets

CONSTANTS Shapes,     \* the pairs of NUM_GROUP and NUM_WORKER_PER_GROUP it is run with
          ClientRows, \* RESPONSE_CT of the client: the rows of all groups
          Programs    \* the programs of the client: "merge", "split"

\* run_experiments.py rounds the rows up to a multiple of the groups.
ASSUME ShapesAssumption ==
  /\ Shapes \subseteq (Nat \ {0}) \X (Nat \ {0})
  /\ ClientRows \in Nat \ {0} /\ \A s \in Shapes: ClientRows % s[1] = 0
ASSUME ProgramsAssumption == Programs \subseteq {"merge", "split"} /\ Programs # {}

VARIABLES
  shape,             \* the shape it is run with
  pc,                \* worker: program counter of main
  sendTo,            \* worker: i of SEND_RESULT_TO_OTHERS
  itr,               \* worker: itr of SEND_RESULT_TO_OTHERS
  aggregationCount,  \* worker: aggregation_count
  aggregation,       \* worker: aggregation_result, by row
  partial,           \* the sendPartialResult calls in flight
  cpc,               \* client: program counter of main
  program,           \* client: the program it runs
  finalResult,       \* client: final_result of merge, the rows of plain_scores of split
  responseReceived,  \* client: response_received
  clientEarly,       \* history: the client's wait returned by itself, before the last row
  handler,           \* split client: the step of the sendResponse called by each worker
  rowAt,             \* split client: i of that sendResponse
  tempCt,            \* split client: temp_ct
  racing,            \* history: the handlers another has overlapped since the row's copy began
  raced              \* history: the rows whose scores such a handler has written

setup == <<shape, program>>
workerVars == <<pc, sendTo, itr, aggregationCount, aggregation, partial>>
splitVars == <<handler, rowAt, tempCt, racing, raced>>
clientVars == <<cpc, setup, finalResult, responseReceived, clientEarly, splitVars>>
vars == <<workerVars, clientVars>>

NumGroup == shape[1]
PerGroup == shape[2]

\* RESPONSE_CT of the workers: the rows of one group.
Rows == ClientRows \div NumGroup

Workers == 0 .. NumGroup * PerGroup - 1
AllWorkers == UNION {0 .. s[1] * s[2] - 1 : s \in Shapes}

GroupStart(w) == (w \div PerGroup) * PerGroup
GroupEnd(w) == GroupStart(w) + PerGroup
Group(w) == GroupStart(w) .. GroupEnd(w) - 1

\* The rows w sums: [agg_start, agg_end).
AggStart(w) == First(Rows, PerGroup, w % PerGroup)
AggEnd(w) == End(Rows, PerGroup, w % PerGroup)
AggRows(w) == AggStart(w) .. AggEnd(w) - 1

\* What the memory of a sum holds after the warm-up, before the first assignment.
Warmup == <<-1, -1>>

\* Parts of two rows, or of one, or nothing usable.
Mixture == {<<-2, -2>>}

Init ==
  /\ shape \in Shapes
  /\ pc = [w \in Workers |-> "multiply"]
  /\ sendTo = [w \in Workers |-> 0]
  /\ itr = [w \in Workers |-> 0]
  /\ aggregationCount = [w \in Workers |-> 0]
  /\ aggregation = [w \in Workers |-> [row \in AggRows(w) |-> {Warmup}]]
  /\ partial = {}
  /\ cpc = "asleep" /\ program \in Programs
  /\ finalResult = [row \in 0 .. ClientRows - 1 |-> {Warmup}]
  /\ responseReceived = 0 /\ clientEarly = FALSE
  /\ handler = [w \in Workers |-> "none"]
  /\ rowAt = [w \in Workers |-> 0]
  /\ tempCt = {Warmup}
  /\ racing = {} /\ raced = {}

\* The threads have computed final_result: w's product with every row.
Multiply(w) ==
  /\ pc[w] = "multiply"
  /\ pc' = [pc EXCEPT ![w] = "send"]
  /\ sendTo' = [sendTo EXCEPT ![w] = GroupStart(w)]
  /\ itr' = [itr EXCEPT ![w] = 0]
  /\ UNCHANGED <<aggregationCount, aggregation, partial, clientVars>>

\* Mutant of SliceEnd: the remaining rows are dealt to nobody.
SliceEndEven(start, i) == start + Rows \div PerGroup

\* Mutant of SliceEnd: every slice gets one of the remaining rows.
SliceEndMore(start, i) ==
  start + (Rows \div PerGroup) + IF Rows % PerGroup > 0 THEN 1 ELSE 0

\* The end of the slice for worker i, as the sender computes it.
SliceEnd(start, i) ==
  start + (Rows \div PerGroup) + IF Rows % PerGroup > i % PerGroup THEN 1 ELSE 0

\* One round of the loop of SEND_RESULT_TO_OTHERS.
SendPartial(w) ==
  /\ pc[w] = "send"
  /\ LET i == sendTo[w]
         end == SliceEnd(itr[w], i)
     IN /\ partial' = IF i = w THEN partial
                      ELSE partial \cup {[from |-> w, to |-> i, first |-> itr[w], end |-> end]}
        /\ itr' = [itr EXCEPT ![w] = end]
        /\ sendTo' = [sendTo EXCEPT ![w] = i + 1]
        /\ pc' = [pc EXCEPT ![w] = IF i + 1 < GroupEnd(w) THEN "send" ELSE "add"]
  /\ UNCHANGED <<aggregationCount, aggregation, clientVars>>

\* The first partial result of a sum is assigned to it, the others are added.
\* Row r of the sum of w takes row r - AggStart(w) of the slice that starts at first.
AddTo(w, from, first) ==
  [row \in AggRows(w) |->
     (IF aggregationCount[w] = 0 THEN {} ELSE aggregation[w][row])
        \cup {<<from, first + row - AggStart(w)>>}]

\* Main adds its own result under aggregation_lock and waits for the others.
AddOwn(w) ==
  /\ pc[w] = "add"
  /\ aggregation' = [aggregation EXCEPT ![w] = AddTo(w, w, AggStart(w))]
  /\ aggregationCount' = [aggregationCount EXCEPT ![w] = @ + 1]
  /\ pc' = [pc EXCEPT ![w] = "wait"]
  /\ UNCHANGED <<sendTo, itr, partial, clientVars>>

\* Mutant of AwaitOthers: the loop ends one result too early.
AwaitOthersEarly(w) ==
  /\ pc[w] = "wait"
  /\ pc' = [pc EXCEPT ![w] = IF aggregationCount[w] < PerGroup - 1 THEN "asleep" ELSE "respond"]
  /\ UNCHANGED <<sendTo, itr, aggregationCount, aggregation, partial, clientVars>>

\* while (aggregation_count != NUM_WORKER_PER_GROUP) pthread_cond_wait(...).
AwaitOthers(w) ==
  /\ pc[w] = "wait"
  /\ pc' = [pc EXCEPT ![w] = IF aggregationCount[w] # PerGroup THEN "asleep" ELSE "respond"]
  /\ UNCHANGED <<sendTo, itr, aggregationCount, aggregation, partial, clientVars>>

\* The wait may return without a signal; the loop then compares again.
AwaitSpurious(w) ==
  /\ w \in Workers /\ pc[w] = "asleep"
  /\ pc' = [pc EXCEPT ![w] = "wait"]
  /\ UNCHANGED <<sendTo, itr, aggregationCount, aggregation, partial, clientVars>>

\* Mutant of ReceivePartial: the count is compared before it is incremented.
ReceivePartialSilent(w) ==
  \E m \in partial:
    /\ m.to = w
    /\ partial' = partial \ {m}
    /\ aggregation' = [aggregation EXCEPT ![w] = AddTo(w, m.from, m.first)]
    /\ aggregationCount' = [aggregationCount EXCEPT ![w] = @ + 1]
    /\ pc' = IF aggregationCount[w] = PerGroup /\ pc[w] = "asleep"
             THEN [pc EXCEPT ![w] = "wait"] ELSE pc
    /\ UNCHANGED <<sendTo, itr, clientVars>>

\* sendPartialResult: add another worker's slice under aggregation_lock, signal on the last.
ReceivePartial(w) ==
  \E m \in partial:
    /\ m.to = w
    /\ partial' = partial \ {m}
    /\ aggregation' = [aggregation EXCEPT ![w] = AddTo(w, m.from, m.first)]
    /\ aggregationCount' = [aggregationCount EXCEPT ![w] = @ + 1]
    /\ pc' = IF aggregationCount[w] + 1 = PerGroup /\ pc[w] = "asleep"
             THEN [pc EXCEPT ![w] = "wait"] ELSE pc
    /\ UNCHANGED <<sendTo, itr, clientVars>>

WorkerServer(w) == w \in Workers /\ ReceivePartial(w)

\* SEND_TO_CLIENT: a call that blocks until the client has handled it.
Respond(w) ==
  /\ pc[w] = "respond"
  /\ pc' = [pc EXCEPT ![w] = "responding"]
  /\ UNCHANGED <<sendTo, itr, aggregationCount, aggregation, partial, clientVars>>

\* Mutant of ReceiveResponse: the broadcast comes one row too early.
ReceiveResponseEarly(w) ==
  /\ program = "merge" /\ cpc # "done"
  /\ pc[w] = "responding"
  /\ finalResult' = [row \in 0 .. ClientRows - 1 |->
                       IF row \in AggRows(w) THEN aggregation[w][row] ELSE finalResult[row]]
  /\ responseReceived' = responseReceived + (AggEnd(w) - AggStart(w))
  /\ cpc' = IF responseReceived' >= ClientRows - 1 /\ cpc = "asleep" THEN "woken" ELSE cpc
  /\ pc' = [pc EXCEPT ![w] = "done"]
  /\ UNCHANGED <<sendTo, itr, aggregationCount, aggregation, partial, clientEarly, setup, splitVars>>

\* sendResponse of merge: store the rows, count them, broadcast on the last.
\* After main has returned the server is gone and the caller stays blocked.
ReceiveResponse(w) ==
  /\ program = "merge" /\ cpc # "done"
  /\ pc[w] = "responding"
  /\ finalResult' = [row \in 0 .. ClientRows - 1 |->
                       IF row \in AggRows(w) THEN aggregation[w][row] ELSE finalResult[row]]
  /\ responseReceived' = responseReceived + (AggEnd(w) - AggStart(w))
  /\ cpc' = IF responseReceived' = ClientRows /\ cpc = "asleep" THEN "woken" ELSE cpc
  /\ pc' = [pc EXCEPT ![w] = "done"]
  /\ UNCHANGED <<sendTo, itr, aggregationCount, aggregation, partial, clientEarly, setup, splitVars>>

\* sendResponse of split begins in one of the two RPC threads.
BeginResponse(w) ==
  /\ program = "split" /\ cpc # "done"
  /\ pc[w] = "responding" /\ handler[w] = "none"
  /\ Cardinality({v \in Workers: handler[v] # "none"}) < 2
  /\ handler' = [handler EXCEPT ![w] = "copy"]
  /\ rowAt' = [rowAt EXCEPT ![w] = AggStart(w)]
  /\ UNCHANGED <<workerVars, cpc, setup, finalResult, responseReceived, clientEarly, tempCt,
                 racing, raced>>

\* The handlers of other workers that are at one of these steps.
Others(w, steps) == {v \in Workers \ {w}: handler[v] \in steps}

\* Without a lock the next row of the response is copied to temp_ct, which overlaps
\* what the other handler does with the row it has there ...
CopyBegin(w) ==
  /\ handler[w] = "copy" /\ cpc # "done"
  /\ rowAt[w] < AggEnd(w)
  /\ tempCt' = Mixture
  /\ handler' = [handler EXCEPT ![w] = "copying"]
  /\ racing' = Others(w, {"copying", "decrypt"})
                \cup (IF Others(w, {"copying"}) = {} THEN racing \ {w} ELSE racing \cup {w})
  /\ UNCHANGED <<workerVars, cpc, setup, finalResult, responseReceived, clientEarly, rowAt, raced>>

\* ... and at the end the row is in temp_ct, if there was no other copy meanwhile. It is
\* decrypted at once; the handlers of two groups may write the scores of the same row.
CopyEnd(w) ==
  /\ handler[w] = "copying" /\ cpc # "done"
  /\ tempCt' \in {aggregation[w][rowAt[w]]} \cup (IF w \in racing THEN {Mixture} ELSE {})
  /\ handler' = [handler EXCEPT ![w] = "decrypt"]
  /\ racing' = racing \cup {u \in {w}: \E v \in Others(w, {"decrypt"}): rowAt[v] = rowAt[w]}
  /\ UNCHANGED <<workerVars, cpc, setup, finalResult, responseReceived, clientEarly, rowAt, raced>>

\* The scores are those of what was in temp_ct, if nothing overlapped.
DecryptRow(w) ==
  /\ handler[w] = "decrypt" /\ cpc # "done"
  /\ \E scores \in {tempCt} \cup (IF w \in racing THEN {Mixture} ELSE {}):
       finalResult' = [finalResult EXCEPT ![rowAt[w]] = scores]
  /\ raced' = IF w \in racing THEN raced \cup {rowAt[w]} ELSE raced \ {rowAt[w]}
  /\ rowAt' = [rowAt EXCEPT ![w] = @ + 1]
  /\ handler' = [handler EXCEPT ![w] = "copy"]
  /\ UNCHANGED <<workerVars, cpc, setup, responseReceived, clientEarly, tempCt, racing>>

\* After the loop: count the rows under response_lock, broadcast on the last.
CountRows(w) ==
  /\ handler[w] = "copy" /\ cpc # "done"
  /\ rowAt[w] >= AggEnd(w)
  /\ responseReceived' = responseReceived + (AggEnd(w) - AggStart(w))
  /\ cpc' = IF responseReceived' = ClientRows /\ cpc = "asleep" THEN "woken" ELSE cpc
  /\ handler' = [handler EXCEPT ![w] = "none"]
  /\ pc' = [pc EXCEPT ![w] = "done"]
  /\ UNCHANGED <<sendTo, itr, aggregationCount, aggregation, partial, setup, finalResult,
                 clientEarly, rowAt, tempCt, racing, raced>>

ClientServer(w) ==
  /\ w \in Workers
  /\ \/ ReceiveResponse(w) \/ BeginResponse(w)
     \/ CopyBegin(w) \/ CopyEnd(w) \/ DecryptRow(w) \/ CountRows(w)

ClientReport ==
  /\ cpc = "woken"
  /\ cpc' = "done"
  /\ UNCHANGED <<setup, finalResult, responseReceived, clientEarly, splitVars, workerVars>>

\* The client's pthread_cond_wait has no condition around it: that it returns without a
\* signal is early, unless the last row is there.
ClientSpurious ==
  /\ cpc = "asleep"
  /\ cpc' = "woken"
  /\ clientEarly' = (responseReceived # ClientRows)
  /\ UNCHANGED <<setup, finalResult, responseReceived, splitVars, workerVars>>

WorkerMain(w) ==
  /\ w \in Workers
  /\ Multiply(w) \/ SendPartial(w) \/ AddOwn(w) \/ AwaitOthers(w) \/ Respond(w)

Next ==
  \/ \E w \in AllWorkers: WorkerMain(w) \/ WorkerServer(w) \/ ClientServer(w)
  \/ ClientReport
  \/ ClientSpurious \/ \E w \in AllWorkers: AwaitSpurious(w)

\* Every thread goes on; no wait returns by itself for fairness' sake.
Fairness ==
  /\ \A w \in AllWorkers: /\ WF_vars(WorkerMain(w))
                          /\ WF_vars(WorkerServer(w))
                          /\ WF_vars(ClientServer(w))
  /\ WF_vars(ClientReport)

Spec == Init /\ [][Next]_vars
FairSpec == Spec /\ Fairness

-----------------------------------------------------------------------------
\* The workers whose result is in the sum of w.
Contributors(w) ==
  {v \in Workers: \A row \in AggRows(w): <<v, row>> \in aggregation[w][row]}

Message == [from: Workers, to: Workers, first: 0 .. Rows, end: 0 .. Rows]

\* Every variable holds a value that worker/merge.cpp and client/merge.cpp can give it.
TypeOK ==
  /\ pc \in [Workers -> {"multiply", "send", "add", "wait", "asleep", "respond",
                         "responding", "done"}]
  /\ sendTo \in [Workers -> 0 .. NumGroup * PerGroup]
  /\ itr \in [Workers -> 0 .. Rows]
  /\ aggregationCount \in [Workers -> 0 .. PerGroup]
  /\ partial \subseteq Message
  /\ cpc \in {"asleep", "woken", "done"}
  /\ shape \in Shapes /\ program \in Programs
  /\ responseReceived \in 0 .. ClientRows /\ clientEarly \in BOOLEAN
  /\ handler \in [Workers -> {"none", "copy", "copying", "decrypt"}]
  /\ rowAt \in [Workers -> 0 .. ClientRows]
  /\ racing \subseteq Workers /\ raced \subseteq 0 .. ClientRows - 1

\* A slice holds exactly the rows its receiver sums: the sender adds up the shares
\* in a loop, the receiver computes its own start, and sendPartialResult asserts
\* that the sizes agree.
SlicesFit ==
  \A m \in partial: m.first = AggStart(m.to) /\ m.end = AggEnd(m.to)

\* aggregation_count is the number of workers whose result is in the sum, each of
\* the sum's rows holds one product of each of them, of that row, and nothing of
\* the warm-up is left in it, whichever of them comes first.
SumsAreSums ==
  \A w \in Workers: aggregationCount[w] > 0 =>
    \A row \in AggRows(w):
      /\ aggregation[w][row] = {<<v, row>> : v \in Contributors(w)}
      /\ Cardinality(Contributors(w)) = aggregationCount[w]

\* What a worker sends to the client has the result of every worker of its group,
\* and no partial result is still on its way to it.
ResponseWhole ==
  \A w \in Workers: pc[w] \in {"respond", "responding", "done"} =>
    /\ \A row \in AggRows(w): aggregation[w][row] = {<<v, row>> : v \in Group(w)}
    /\ \A m \in partial: m.to # w

\* A sum is right while it grows, and whole when it is sent.
SumsRight == SumsAreSums /\ ResponseWhole

\* Row r of group g, summed over the group.
WholeRow(g, row) == {<<v, row>> : v \in Group(g * PerGroup)}

Groups == 0 .. NumGroup - 1

\* The client reports only when every response that has rows has been stored, whichever
\* workers answer last and, in split, whichever RPC thread ends first, unless its wait,
\* which has no predicate, returned by itself. Each row of a group then holds the whole
\* sum of that row over one group: in merge always, in split unless the handler that
\* wrote its scores was overlapped by the other between the start of the copy to temp_ct
\* and the end of the decryption. The groups number their rows alike, so they all store
\* at the places of the first group and the client keeps only one group's sum of each
\* row: that is what the code does, not what a report should hold.
ReportWhole ==
  cpc = "done" /\ ~clientEarly =>
    /\ \A w \in Workers: AggRows(w) # {} => pc[w] = "done" /\ handler[w] = "none"
    /\ program = "merge" => raced = {}
    /\ \A row \in (0 .. Rows - 1) \ raced: \E g \in Groups: finalResult[row] = WholeRow(g, row)
    /\ \A row \in Rows .. ClientRows - 1: finalResult[row] = {Warmup}

\* The rows of the groups follow one another in the client's result, and the scores of
\* each are those of its response.
RowsRight ==
  cpc = "done" /\ ~clientEarly => \A g \in Groups, row \in 0 .. Rows - 1:
    finalResult[g * Rows + row] = WholeRow(g, row)

\* Every exchange ends and the client reports; a worker that has rows to send does
\* not stay blocked in its call, unless the client's wait returned by itself (one that
\* has none may: the client need not wait for it). Even then each gets to its response.
ExchangeEnds ==
  <>(/\ cpc = "done"
     /\ \A w \in Workers: AggRows(w) # {} =>
          pc[w] = "done" \/ (clientEarly /\ pc[w] = "responding"))
=============================================================================
