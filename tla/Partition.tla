------------------------------ MODULE Partition ------------------------------
(***************************************************************************)
(* The contiguous split that the workers and their threads use wherever n  *)
(* items (rows, rotations, plaintexts) are shared by p parts: part i gets  *)
(* n / p items, and each of the first n % p parts gets one more.           *)
(***************************************************************************)
EXTENDS Integers

\* One item more for the last n % p parts instead of the first (mutant of Share).
ShareLast(n, p, i) == n \div p + IF n % p > p - 1 - i THEN 1 ELSE 0

Share(n, p, i) == n \div p + IF n % p > i THEN 1 ELSE 0

First(n, p, i) == i * (n \div p) + IF n % p > i THEN i ELSE n % p

\* One past the last item of part i.
End(n, p, i) == First(n, p, i) + Share(n, p, i)

Part(n, p, i) == First(n, p, i) .. End(n, p, i) - 1
=============================================================================
