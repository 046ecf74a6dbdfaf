---------------------------- MODULE MCPirQuery ----------------------------
(* Elements of one byte, in coefficients of three bits; no two are equal. *)
EXTENDS PirQuery

MCByte(e, k) == (37 * e + 90 * k) % 256
=============================================================================
