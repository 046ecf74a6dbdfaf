---------------------------- MODULE SessionRounds ----------------------------
(***************************************************************************)
(* What a query session promises: three rounds.  In each of them every     *)
(* worker reports to the client once, and the next round begins only when  *)
(* all have: the workers are up, then they have been warmed up, then they  *)
(* have answered the query.  Instead of sending the query the client may   *)
(* give up.                                                                *)
(*                                                                         *)
(* The last round alone can be cut short, by a wake-up that nobody meant   *)
(* to give: it excuses a worker, or all of them, from reporting.           *)
(***************************************************************************)
CONSTANT Workers

VARIABLES round, reported, excused

vars == <<round, reported, excused>>

Init == round = "hello" /\ reported = {} /\ excused = {}

Report(w) ==
  /\ round \in {"hello", "warmup", "query"}
  /\ w \notin reported
  /\ reported' = reported \cup {w}
  /\ UNCHANGED <<round, excused>>

\* A warm-up round is complete, and the next begins with nobody's report.
Advance(from, to) ==
  /\ round = from
  /\ reported = Workers
  /\ round' = to
  /\ reported' = {}
  /\ UNCHANGED excused

\* The client is done when everybody has answered who is not excused.
Finish ==
  /\ round = "query"
  /\ Workers \ excused \subseteq reported
  /\ round' = "done"
  /\ UNCHANGED <<reported, excused>>

\* A wake-up without a signal, after the first round.
Excuse ==
  /\ round # "hello"
  /\ \E more \in SUBSET Workers: more # {} /\ excused' = excused \cup more
  /\ UNCHANGED <<round, reported>>

Next ==
  \/ \E w \in Workers: Report(w)
  \/ Advance("hello", "warmup")
  \/ Advance("warmup", "query")
  \/ Advance("warmup", "null")
  \/ Finish
  \/ Excuse

Spec == Init /\ [][Next]_vars
=============================================================================
