----------------------------- MODULE MCWorkSplit -----------------------------
\* WorkSplit for TLC: shapes small enough that the divisions are uneven.
EXTENDS WorkSplit

Shape(program, factor, workers, threads) ==
  [program |-> program, factor |-> factor, workers |-> workers, threads |-> threads]

\* merge: one pair of threads per query, three pairs on eight rotations, two queries.
\* split: two, six and eight workers per query (eight rotations over three workers),
\* three threads on eight rotations.
SmallShapes ==
  {Shape("merge", 1, 2, 2), Shape("merge", 1, 1, 6), Shape("merge", 2, 2, 4),
   Shape("split", 2, 2, 3), Shape("split", 6, 12, 2), Shape("split", 8, 8, 1)}
=============================================================================
