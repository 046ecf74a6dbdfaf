------------------------------ MODULE PirQuery ------------------------------
(***************************************************************************)
(* What a single-database PIR of step2 and step3 computes.  The client     *)
(* encodes the two indices of a plaintext as monomials, one per dimension; *)
(* the server expands each of them into a vector of ciphertexts, one per   *)
(* index of the dimension, and multiplies the database by both vectors;    *)
(* the client removes the factors the expansion has left.                  *)
(*                                                                         *)
(* A ciphertext is the plaintext polynomial under it: a function from      *)
(* exponents to coefficients modulo Modulus, in which X^N = -1.  PirServer *)
(* has the threads that do the multiplication.                             *)
(*                                                                         *)
(* The client has one PIRClient object for all buckets: it generates the   *)
(* queries of all of them before it decodes the first reply.  Here there   *)
(* are two, and the server and the reply are those of the first.           *)
(***************************************************************************)
EXTENDS PirCodec, Partition, FiniteSets

CONSTANTS N,          \* poly_modulus_degree
          LogN,       \* its logarithm
          EleSize,    \* ele_size: the bytes of an element
          Byte(_, _), \* the bytes of each element
          Counts,     \* the numbers of elements a bucket can have
          ThreadCounts \* the numbers of pir threads a worker can be started with

\* The plaintext modulus, of which logt is the logarithm rounded down.
Modulus == Pow2[LogT] + 1

\* elements_per_ptxt
PerPtxt == N \div CoefficientsPerElement(EleSize)

\* ceil(log2(m))
CeilLog(m) == CHOOSE l \in 0 .. LogN: Pow2[l] >= m /\ \A s \in 0 .. l - 1: Pow2[s] < m

\* plaintexts_per_db
PlaintextsPerDb(elements) == CeilDiv(elements, PerPtxt)

\* max(2, floor(sqrt(n)))
Side(n) == LET root == CHOOSE r \in 0 .. n: r * r <= n /\ n < (r + 1) * (r + 1)
           IN IF root < 2 THEN 2 ELSE root

\* get_dimensions for d = 2: a square, or a rectangle with room for n plaintexts.
GetDimensions(n) ==
  LET s == Side(n)
  IN IF s * s = n \/ n = 1 THEN <<s, s>>
     ELSE <<s + 1, IF (s + 1) * s >= n THEN s ELSE s + 1>>

ASSUME DegreeAssumption == LogN \in Nat \ {0} /\ N = Pow2[LogN]
ASSUME CountsAssumption == EleSize \in Nat \ {0} /\ Counts \subseteq Nat \ {0}
ASSUME ThreadsAssumption == ThreadCounts \subseteq Nat \ {0}
ASSUME ByteAssumption ==
  \A c \in Counts: \A e \in 0 .. c - 1, b \in 1 .. EleSize: Byte(e, b) \in 0 .. 255
\* elements_per_ptxt asserts that an element fits.  A plaintext has a coefficient of
\* padding, which is 1: without one, as in step3 with its ITEM_SIZE, zeros at its end
\* would be lost in decryption.
ASSUME SizeAssumption ==
  PerPtxt > 0 /\ CoefficientsPerElement(PerPtxt * EleSize) < N
\* The server reads one ciphertext per dimension (deserialize_query(DIM, 1, ...)).
ASSUME OneCiphertextAssumption ==
  \A c \in Counts: \A d \in {1, 2}: GetDimensions(PlaintextsPerDb(c))[d] <= N

-----------------------------------------------------------------------------
(* Polynomials modulo X^N + 1 and the modulus. *)

Exponents == 0 .. N - 1
Poly == [Exponents -> 0 .. Modulus - 1]

Monomial(c, e) == [x \in Exponents |-> IF x = e THEN c ELSE 0]
Zero == Monomial(0, 0)
Add(p, q) == [x \in Exponents |-> (p[x] + q[x]) % Modulus]
Scale(c, p) == [x \in Exponents |-> (c * p[x]) % Modulus]

\* Every term c X^e becomes c X^to[e]; an exponent of N or more changes the sign.
Move(p, to) ==
  [x \in Exponents |->
     IF \E e \in Exponents: to[e] % N = x
     THEN LET e == CHOOSE y \in Exponents: to[y] % N = x
          IN IF to[e] = x THEN p[e] ELSE (Modulus - p[e]) % Modulus
     ELSE 0]

\* apply_galois: X becomes X^g.
ApplyGalois(p, g) == Move(p, [e \in Exponents |-> (e * g) % (2 * N)])

MultiplyPowerOfX(p, s) == Move(p, [e \in Exponents |-> (e + s) % (2 * N)])

-----------------------------------------------------------------------------
VARIABLES
  elements,  \* the number of elements of a bucket
  wanted,    \* the element the client wants of each bucket
  nvec,      \* the dimensions
  numThread, \* num_thread of the server
  client,    \* client: the bucket it generates the query of, or what comes after
  indices,   \* client: indices_
  scales,    \* client: inverse_scales_
  query,     \* the query of the first bucket: a polynomial per dimension
  level,     \* expand_query of each dimension: the level it has reached
  temp,      \* expand_query of each dimension: temp
  expanded,  \* server: expanded_query
  answer     \* the bytes the client decodes

bucketVars == <<elements, wanted, nvec, numThread>>
clientVars == <<client, indices, scales, query, answer>>
serverVars == <<level, temp, expanded>>
queryVars == <<bucketVars, clientVars, serverVars>>

Dims == {1, 2}

QueryInit ==
  /\ elements \in Counts
  /\ wanted \in (0 .. elements - 1) \X {0, elements - 1}
  /\ nvec = GetDimensions(PlaintextsPerDb(elements))
  /\ numThread \in ThreadCounts
  /\ client = "first" /\ indices = <<>> /\ scales = <<>> /\ query = <<>> /\ answer = {}
  /\ level = [d \in Dims |-> 0]
  /\ temp = [d \in Dims |-> <<>>] /\ expanded = [d \in Dims |-> <<>>]

\* Mutant of ComputeIndices: the dimensions are swapped.
ComputeIndicesSwapped(i) == <<i % nvec[1], i \div nvec[1]>>

\* compute_indices for two dimensions.
ComputeIndices(i) == <<i \div nvec[2], i - (i \div nvec[2]) * nvec[2]>>

\* The factor 2^logm that the client expects, as a logarithm.
ClientLog(d) == CeilLog(nvec[d] % N)

\* Mutant of InverseScale: the sign is never changed.
InverseScalePositive(d) == Pow2[LogT - (ClientLog(d) % LogT)]

\* The inverse of 2^logm modulo 2^LogT + 1, where 2^LogT is -1.
InverseScale(d) ==
  LET power == Pow2[LogT - (ClientLog(d) % LogT)]
  IN IF ((ClientLog(d) \div LogT) + 1) % 2 # 0 THEN Modulus - power ELSE power

\* compute_inverse_scales throws when the product is not 1.  For a dimension of N,
\* whose rest modulo N is 0, it takes the logarithm of 0, and what it makes of that
\* is not 1 either.
Throws == \E d \in Dims: nvec[d] % N = 0 \/ (InverseScale(d) * Pow2[ClientLog(d)]) % Modulus # 1

\* Mutant of GenerateQuery: inverse_scales_ is not cleared.
GenerateQueryKeep(from, bucket, to) ==
  /\ client = from
  /\ indices' = ComputeIndices(wanted[bucket] \div PerPtxt)
  /\ IF Throws
     THEN client' = "thrown" /\ UNCHANGED <<scales, query>>
     ELSE /\ scales' = scales \o <<InverseScale(1), InverseScale(2)>>
          /\ query' = IF bucket = 1 THEN [d \in Dims |-> Monomial(1, indices'[d])] ELSE query
          /\ client' = to
  /\ UNCHANGED <<bucketVars, serverVars, answer>>

\* generate_query for an element of a bucket.
GenerateQuery(from, bucket, to) ==
  /\ client = from
  /\ indices' = ComputeIndices(wanted[bucket] \div PerPtxt)
  /\ IF Throws
     THEN client' = "thrown" /\ UNCHANGED <<scales, query>>
     ELSE /\ scales' = <<InverseScale(1), InverseScale(2)>>
          /\ query' = IF bucket = 1 THEN [d \in Dims |-> Monomial(1, indices'[d])] ELSE query
          /\ client' = to
  /\ UNCHANGED <<bucketVars, serverVars, answer>>

-----------------------------------------------------------------------------
(* The server's expansion, one thread per dimension. *)

\* total, the number of ciphertexts to expand into, and its logarithm.
Total(d) == ((nvec[d] - 1) % N) + 1
Logm(d) == CeilLog(Total(d))

GaloisElement(i) == (N + Pow2[i]) \div Pow2[i]

\* The two children of a ciphertext at level i.
EvenChild(p, i) == Add(p, ApplyGalois(p, GaloisElement(i)))
OddChild(p, i) ==
  LET raw == 2 * N - Pow2[i]
      index == (raw * GaloisElement(i)) % (2 * N)
  IN Add(MultiplyPowerOfX(p, raw),
         MultiplyPowerOfX(ApplyGalois(p, GaloisElement(i)), index))

ExpandBegin(d) ==
  /\ client = "sent"
  /\ temp[d] = <<>> /\ expanded[d] = <<>>
  /\ temp' = [temp EXCEPT ![d] = <<query[d]>>]
  /\ UNCHANGED <<bucketVars, clientVars, level, expanded>>

\* One round of the loop: twice as many ciphertexts.
ExpandLevel(d) ==
  LET size == Len(temp[d])
  IN /\ size > 0
     /\ level[d] < Logm(d) - 1
     /\ temp' = [temp EXCEPT ![d] =
          [a \in 1 .. 2 * size |-> IF a <= size THEN EvenChild(temp[d][a], level[d])
                                   ELSE OddChild(temp[d][a - size], level[d])]]
     /\ level' = [level EXCEPT ![d] = @ + 1]
     /\ UNCHANGED <<bucketVars, clientVars, expanded>>

\* Mutant of ExpandLast: the ciphertexts without a second child are not doubled.
ExpandLastPlain(d) ==
  LET size == Len(temp[d])
      single == Total(d) - Pow2[Logm(d) - 1]
  IN /\ size > 0 /\ level[d] = Logm(d) - 1
     /\ expanded' = [expanded EXCEPT ![d] =
          [a \in 1 .. Total(d) |-> IF a > size THEN OddChild(temp[d][a - size], level[d])
                                   ELSE IF a > single THEN temp[d][a]
                                   ELSE EvenChild(temp[d][a], level[d])]]
     /\ temp' = [temp EXCEPT ![d] = <<>>]
     /\ UNCHANGED <<bucketVars, clientVars, level>>

\* The last step: only so many second children as are needed; a ciphertext without
\* one is doubled instead.  Then the first total of them.
ExpandLast(d) ==
  LET size == Len(temp[d])
      single == Total(d) - Pow2[Logm(d) - 1]
  IN /\ size > 0 /\ level[d] = Logm(d) - 1
     /\ expanded' = [expanded EXCEPT ![d] =
          [a \in 1 .. Total(d) |-> IF a > size THEN OddChild(temp[d][a - size], level[d])
                                   ELSE IF a > single THEN Scale(2, temp[d][a])
                                   ELSE EvenChild(temp[d][a], level[d])]]
     /\ temp' = [temp EXCEPT ![d] = <<>>]
     /\ UNCHANGED <<bucketVars, clientVars, level>>

ExpandThread(d) == ExpandBegin(d) \/ ExpandLevel(d) \/ ExpandLast(d)

-----------------------------------------------------------------------------
(* The database and the reply. *)

Element(e) == [k \in 1 .. EleSize |-> Byte(e, k)]

\* set_database: the bytes that are packed into plaintext p, none in the padding of the
\* matrix, and the plaintext, whose other coefficients are 1.
PlaintextBytes(p) ==
  LET count == Cardinality({e \in p * PerPtxt .. (p + 1) * PerPtxt - 1: e < elements})
  IN [b \in 1 .. count * EleSize |->
        Byte(p * PerPtxt + (b - 1) \div EleSize, ((b - 1) % EleSize) + 1)]
Plaintext(p) ==
  LET coeffs == BytesToCoeffs(PlaintextBytes(p))
  IN [x \in 1 .. N |-> IF x <= Len(coeffs) THEN coeffs[x] ELSE 1]

\* The entries of the matrix at which both expanded vectors are 1, and 0 elsewhere, when
\* each has been multiplied by the scale of its dimension.
Selected ==
  {p \in 0 .. nvec[1] * nvec[2] - 1:
     \A d \in Dims: \A a \in 1 .. nvec[d]:
       Scale(scales[d], expanded[d][a]) =
         Monomial(IF a - 1 = <<p \div nvec[2], p % nvec[2]>>[d] THEN 1 ELSE 0, 0)}

\* The bytes of the element in a plaintext, where get_fv_offset finds it.
ElementIn(plaintext) ==
  LET offset == wanted[1] % PerPtxt
  IN SubSeq(CoeffsToBytes(plaintext, PerPtxt * EleSize),
            offset * EleSize + 1, (offset + 1) * EleSize)

\* The columns with which the pir threads begin their second phase.
FirstColumns == {First(nvec[2], numThread, t) : t \in 0 .. numThread - 1}

\* The plaintext that pir multiplies by entry p of the two vectors: that of its own row
\* and column, but for a thread's first column that of column 0.
Fetched(p) == nvec[2] * (p \div nvec[2])
                + (IF p % nvec[2] \in FirstColumns THEN 0 ELSE p % nvec[2])

\* A pir thread has no column: it multiplies what is behind the end of expanded_query[1].
PastTheEnd == numThread > nvec[2]

\* generate_reply and decode_reply.  With what a thread found past the end added to it,
\* the reply may be the same, or decode to nothing the database has, or never come.
DecodeReply ==
  /\ client = "sent"
  /\ \A d \in Dims: expanded[d] # <<>>
  /\ \/ /\ answer' = {ElementIn(Plaintext(Fetched(p))) : p \in Selected}
        /\ client' = "done"
     \/ PastTheEnd /\ answer' = {} /\ client' \in {"done", "unanswered"}
  /\ UNCHANGED <<bucketVars, indices, scales, query, serverVars>>

QueryNext ==
  \/ GenerateQuery("first", 1, "second")
  \/ GenerateQuery("second", 2, "sent")
  \/ \E d \in Dims: ExpandThread(d)
  \/ DecodeReply

QuerySpec == QueryInit /\ [][QueryNext]_queryVars

-----------------------------------------------------------------------------
\* The index of the first bucket's plaintext in each dimension.
Index(d) == ComputeIndices(wanted[1] \div PerPtxt)[d]

\* Every variable holds a value that the code can give it.
QueryTypeOK ==
  /\ elements \in Counts
  /\ numThread \in ThreadCounts
  /\ client \in {"first", "second", "sent", "thrown", "done", "unanswered"}
  /\ client # "first" => \A d \in Dims: indices[d] \in 0 .. nvec[d] - 1
  /\ client \in {"sent", "done"} => DOMAIN scales = Dims /\ \A d \in Dims: scales[d] \in 1 .. Modulus - 1
  /\ \A d \in Dims: /\ level[d] \in 0 .. LogN - 1
                    /\ temp[d] \in Seq(Poly)
                    /\ expanded[d] \in Seq(Poly)

\* The dimensions hold every plaintext, and different plaintexts have different
\* indices inside them: what get_dimensions lays out, compute_indices addresses.
PlaintextsAddressed ==
  LET plaintexts == 0 .. PlaintextsPerDb(elements) - 1
  IN /\ \A i \in plaintexts, d \in Dims: ComputeIndices(i)[d] \in 0 .. nvec[d] - 1
     /\ Cardinality({ComputeIndices(i) : i \in plaintexts}) = PlaintextsPerDb(elements)

\* The expansion has one ciphertext per index of the dimension (else expand_thread
\* prints "size mismatch"), and only the queried one is not zero; all carry the same
\* factor, those of the last level with one child too.
ExpandedIsUnit ==
  \A d \in Dims: expanded[d] # <<>> =>
    /\ Len(expanded[d]) = nvec[d]
    /\ \A a \in 1 .. nvec[d]:
         expanded[d][a] = IF a - 1 = Index(d) THEN Monomial(Pow2[Logm(d)] % Modulus, 0) ELSE Zero

\* The column of the wanted plaintext is the first one of a pir thread other than the first.
InFirstColumn == \E t \in 1 .. numThread - 1: Index(2) = First(nvec[2], numThread, t)

\* The client decodes the bytes of the element it wants of the first bucket, although its
\* indices and scales are by then those of the second and the bits of the element are
\* spread over coefficients it shares with others; and it could have wanted any.  But
\* for a wanted plaintext in the first column of a thread it gets, in full and from the
\* same place, an element of column 0, which lies so many plaintexts before
\* (pir_server.cpp:322).  No claim is made when some thread has no column.
RetrievalRight ==
  /\ PlaintextsAddressed
  /\ client = "done" /\ ~ PastTheEnd =>
       answer = {Element(wanted[1] - (IF InFirstColumn THEN Index(2) * PerPtxt ELSE 0))}

\* A query fails only in a database with a dimension of exactly N.
ThrowsOnlyWhenFull == client = "thrown" => \E d \in Dims: nvec[d] = N
=============================================================================
