------------------------------ MODULE PirCodec ------------------------------
(***************************************************************************)
(* How the elements of a PIR database become the coefficients of a         *)
(* plaintext and bytes again: a stream of bits cut into LogT bits per      *)
(* coefficient, so that the bits of a byte may lie in two coefficients and *)
(* those of an element need not begin with a coefficient.                  *)
(*                                                                         *)
(* A shift to the left is a product and the OR with the bits shifted in a  *)
(* sum; a byte keeps 8 bits and a coefficient (uint64_t) all.              *)
(***************************************************************************)
EXTENDS Integers, Sequences, SequencesExt

CONSTANT LogT  \* logt (limit): the bits a coefficient holds

ASSUME LogTAssumption == LogT \in Nat \ {0}

\* The powers of two.
Pow2[n \in Nat] == IF n = 0 THEN 1 ELSE 2 * Pow2[n - 1]

CeilDiv(a, b) == (a + b - 1) \div b

\* coefficients_per_element
CoefficientsPerElement(size) == CeilDiv(8 * size, LogT)

Smaller(a, b) == IF a < b THEN a ELSE b

\* Item i of a sequence with shift bits of src, those above position from, put in.
PutIn(s, i, shift, src, from) == [s EXCEPT ![i] = @ * Pow2[shift] + src \div Pow2[from]]

\* What n rounds of a loop make of s.
Rounds(Round(_), n, s) ==
  LET after[k \in 0 .. n] == IF k = 0 THEN s ELSE Round(after[k - 1])
  IN after[n]

\* One round of the loop over the rest bits of a byte in bytes_to_coeffs; the last of
\* the coefficients written so far has room for room bits more.
PackBits(out) ==
  LET full == out.room = 0
      room == IF full THEN LogT ELSE out.room
      coeffs == IF full THEN Append(out.coeffs, 0) ELSE out.coeffs
      shift == Smaller(room, out.rest)
  IN IF out.rest = 0 THEN out
     ELSE [src |-> (out.src * Pow2[shift]) % 256, rest |-> out.rest - shift, room |-> room - shift,
           coeffs |-> PutIn(coeffs, Len(coeffs), shift, out.src, 8 - shift)]

\* A byte: every round takes a bit or more.
PackByte(out, byte) == Rounds(PackBits, 8, [out EXCEPT !.src = byte, !.rest = 8])

PackBytes(bytes) ==
  FoldLeft(PackByte, [src |-> 0, rest |-> 0, coeffs |-> <<>>, room |-> 0], bytes)

\* Mutant of BytesToCoeffs: the last coefficient stays as it is.
BytesToCoeffsUnshifted(bytes) == PackBytes(bytes).coeffs

\* bytes_to_coeffs: at the end the last coefficient is shifted over the room it has.
\* Of no byte there is no coefficient, and the padding of the plaintext is all there is.
BytesToCoeffs(bytes) ==
  LET out == PackBytes(bytes)
  IN IF bytes = <<>> THEN <<>>
     ELSE PutIn(out.coeffs, Len(out.coeffs), out.room, 0, 0)

\* One round of the loop over the rest bits of a coefficient in coeffs_to_bytes, which
\* writes size bytes.  The bits of src that are used stay above the others: they are put
\* into an empty byte and shifted out of it.
UnpackBits(out) ==
  LET full == out.room = 0
      room == IF full THEN 8 ELSE out.room
      bytes == IF full THEN Append(out.bytes, 0) ELSE out.bytes
      last == Len(bytes)
      shift == Smaller(room, out.rest)
      put == PutIn(bytes, last, shift, out.src, LogT - shift)
  IN IF out.rest = 0 \/ last > out.size THEN out
     ELSE [out EXCEPT !.src = @ * Pow2[shift], !.rest = @ - shift, !.room = room - shift,
                      !.bytes = [put EXCEPT ![last] = @ % 256]]

UnpackCoeff(out, coeff) ==
  Rounds(UnpackBits, LogT, [out EXCEPT !.src = coeff, !.rest = LogT])

\* coeffs_to_bytes
CoeffsToBytes(coeffs, size) ==
  FoldLeft(UnpackCoeff, [src |-> 0, rest |-> 0, bytes |-> <<>>, room |-> 0, size |-> size],
           coeffs).bytes
=============================================================================
