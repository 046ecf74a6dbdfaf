------------------------------- MODULE MCCuckoo -------------------------------
EXTENDS Cuckoo

\* Tables under which two or three keys compete for buckets 0, 1 and 2: in most of them
\* every bucket has an item, in the last one bucket 4 has none.
MCHashTables ==
  {[x \in Items |-> IF x = 0 THEN [n \in 1 .. D |-> (n + 2) % NumBuckets] ELSE table[x]] :
     table \in [1 .. NumItems - 1 -> {<<0, 1>>, <<1, 2>>}]}
  \cup {[x \in Items |-> IF x = 0 THEN <<3, 1>> ELSE IF x = 1 THEN <<0, 2>> ELSE <<1, 2>>]}
=============================================================================
