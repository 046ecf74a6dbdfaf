---------------------------- MODULE MCExperiments ----------------------------
(* Every part once, figure 5 with two sizes of the worker pool; one worker or two. *)
EXTENDS Experiments

MCPoints == <<[part |-> "coeus", workers |-> 1], [part |-> "coeus", workers |-> 2],
              [part |-> "baseline", workers |-> 1], [part |-> "step2", workers |-> 1],
              [part |-> "step3", workers |-> 1], [part |-> "split", workers |-> 2],
              [part |-> "merge", workers |-> 2]>>
=============================================================================
