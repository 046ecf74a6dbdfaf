---------------------------- MODULE MCRotationTree ----------------------------
\* RotationTree for TLC: the ranges of threads that start anywhere in the tree.
EXTENDS RotationTree

Shape(of, factor, workers, threads) ==
  [program |-> of, factor |-> factor, workers |-> workers, threads |-> threads]

\* merge, baseline: 1 to 32 pairs of threads for one query, and two queries of a worker.
\* split: 2 to 32 workers for one query, also 6, 10 and 12, 1 to 5 threads each.
AllShapes ==
  {Shape("merge", 1, 1, 2 * pairs) : pairs \in {1, 2, 3, 4, 5, 6, 7, 8, 12, 16, 31, 32}}
  \cup {Shape("merge", 2, 2, 4)}
  \cup {s \in {Shape("split", f, f, threads) : f \in {2, 4, 6, 8, 10, 12, 16, 32}, threads \in 1 .. 5}:
           ShapeOK(s)}
===============================================================================
