--------------------------- MODULE WorkSplitProofs ---------------------------
(***************************************************************************)
(* For every shape and every size: each rotation of each half of each      *)
(* query is the work of one thread of one worker, and of no other          *)
(* (WorkShare); and of WorkSplit, types, the barrier separates products    *)
(* from sums, and every row of the group is the whole product.             *)
(*                                                                         *)
(* The invariant names, for every place a thread can be at, exactly the    *)
(* products in its rows; with those of the workers that have finished they *)
(* are the products that the first part counts.                            *)
(***************************************************************************)
EXTENDS WorkSplit, PartitionProofs

-----------------------------------------------------------------------------
(* The division of the work: WorkShare *)

\* The pairs of threads that share a query in merge.
Pairs(s) == ThreadPerQuery(s) \div 2

\* What a shape of merge says about its threads.
LEMMA MergeThreads ==
  ASSUME NEW s \in Shapes, IsMerge(s)
  PROVE  /\ s.factor \in Nat \ {0} /\ s.workers \in Nat \ {0} /\ s.threads \in Nat \ {0}
         /\ Pairs(s) \in Nat \ {0}
         /\ ThreadPerQuery(s) = 2 * Pairs(s)
         /\ s.threads = s.factor * (2 * Pairs(s))
<1> DEFINE f == s.factor
           th == s.threads
           c == th \div (2 * f)
<1>1. /\ f \in Nat \ {0} /\ s.workers \in Nat \ {0} /\ th \in Nat \ {0}
      /\ th % (2 * f) = 0
  BY ShapesAssumption DEF ShapeOK, IsMerge
<1>2. 2 * f \in Nat \ {0} BY <1>1
<1>3. c \in Nat /\ th = (2 * f) * c
  <2> DEFINE b == 2 * f
  <2> b \in Nat \ {0} BY <1>2
  <2>1. th \div b \in Nat /\ th = (b * (th \div b)) + (th % b)
    <3> HIDE DEF b, th
    <3> QED BY <1>1, DivMod
  <2> QED BY <1>1, <2>1
<1>4. 2 * c \in Nat /\ th = (2 * c) * f + 0 /\ th = f * (2 * c)
  <2> HIDE DEF c, f, th
  <2> QED BY <1>1, <1>3
<1>5. th \div f = 2 * c
  <2> HIDE DEF c, f, th
  <2>1. 0 \in 0 .. f - 1 BY <1>1
  <2> QED BY <1>1, <1>4, <2>1, DivUnique
<1>6. c # 0
  <2> HIDE DEF c, f, th
  <2> QED BY <1>1, <1>3
<1>7. (2 * c) \div 2 = c
  <2> HIDE DEF c
  <2> QED BY <1>3
<1>8. ThreadPerQuery(s) = 2 * c /\ Pairs(s) = c
  BY <1>5, <1>7 DEF ThreadPerQuery, Pairs
<1> HIDE DEF c, f, th
<1> QED BY <1>1, <1>3, <1>4, <1>6, <1>8 DEF f, th

\* In merge thread t is one of the pair Pair(s, t) of its query, and its rotations are
\* the part of that pair.
LEMMA MergeRange ==
  ASSUME NEW s \in Shapes, IsMerge(s), NEW w \in Workers(s), NEW t \in Threads(s)
  PROVE  /\ QueryIdx(s, t) \in 0 .. s.factor - 1
         /\ Half(s, w, t) \in {0, 1}
         /\ Pair(s, t) \in 0 .. Pairs(s) - 1
         /\ t = QueryIdx(s, t) * (2 * Pairs(s)) + (2 * Pair(s, t) + Half(s, w, t))
         /\ StartRot(s, w, t) = First(HalfN, Pairs(s), Pair(s, t))
         /\ EndRot(s, w, t) = End(HalfN, Pairs(s), Pair(s, t))
<1> DEFINE f == s.factor
           p == Pairs(s)
           b == 2 * p
           qi == t \div b
           m == t % b
           pr == m \div 2
           h == m % 2
<1>1. /\ f \in Nat \ {0} /\ p \in Nat \ {0} /\ ThreadPerQuery(s) = b
      /\ s.threads = f * b /\ s.threads \in Nat \ {0}
  BY MergeThreads
<1>2. t \in Nat /\ t < f * b
  BY <1>1 DEF Threads
<1>3. b \in Nat \ {0} BY <1>1
<1>4. qi \in Nat /\ m \in 0 .. b - 1 /\ t = (b * qi) + m
  <2> HIDE DEF b
  <2> QED BY <1>2, <1>3, DivMod
<1>5. pr \in Nat /\ h \in 0 .. 1 /\ m = 2 * pr + h
  <2>1. m \in Nat BY <1>4, <1>3
  <2> HIDE DEF m
  <2> QED BY <2>1
<1>6. pr \in 0 .. p - 1
  <2> HIDE DEF m, pr, h, p
  <2> QED BY <1>1, <1>4, <1>5
<1>7. qi \in 0 .. f - 1
  <2>1. ASSUME qi >= f PROVE FALSE
    <3>1. PICK d \in Nat: qi = f + d
      <4>1. qi - f \in Nat /\ qi = f + (qi - f) BY <1>1, <1>4, <2>1
      <4> QED BY <4>1
    <3>2. b * qi = f * b + b * d /\ b * d \in Nat /\ f * b \in Nat
      <4> HIDE DEF b, qi, f
      <4> QED BY <1>1, <1>3, <3>1
    <3> HIDE DEF b, qi, f, m
    <3> QED BY <1>1, <1>2, <1>3, <1>4, <3>2
  <2> HIDE DEF qi, f
  <2> QED BY <1>1, <1>4, <2>1
<1>8. /\ QueryIdx(s, t) = qi /\ Pair(s, t) = pr
  BY <1>1 DEF QueryIdx, Pair
<1>9. t % 2 = h
  <2> DEFINE k == p * qi + pr
  <2>1. k \in Nat /\ t = k * 2 + h
    <3> HIDE DEF qi, m, pr, h, p
    <3>1. b * qi = 2 * (p * qi) /\ p * qi \in Nat BY <1>1, <1>4
    <3> QED BY <1>4, <1>5, <3>1
  <2>2. h \in 0 .. 2 - 1 BY <1>5
  <2> HIDE DEF k, h
  <2> QED BY <2>1, <2>2, DivUnique
<1>10. Half(s, w, t) = h
  BY <1>9 DEF Half
<1>11. N \div b = HalfN \div p
  <2> DEFINE q == HalfN \div p
             r == HalfN % p
  <2>1. q \in Nat /\ r \in 0 .. p - 1 /\ HalfN = (p * q) + r
    <3> HIDE DEF p
    <3> QED BY <1>1, SizesAssumption, DivMod
  <2>2. N = q * b + 2 * r /\ 2 * r \in 0 .. b - 1
    <3> HIDE DEF q, r, p
    <3>1. q * b = 2 * (p * q) /\ p * q \in Nat BY <1>1, <2>1
    <3> QED BY <1>1, <2>1, <3>1 DEF N
  <2> HIDE DEF q, r, b
  <2>3. N \div b = q BY <1>3, <2>1, <2>2, DivUnique
  <2> QED BY <2>3 DEF q
<1>12. StartRot(s, w, t) = First(HalfN, p, pr)
  BY <1>1, <1>8, <1>11 DEF StartRot, RestRot, First, Pairs
<1>13. EndRot(s, w, t) = End(HalfN, p, pr)
  BY <1>1, <1>8, <1>11, <1>12 DEF EndRot, RestRot, End, Share, Pairs
<1>14. t = qi * b + (2 * pr + h)
  <2> HIDE DEF b, qi, m, pr, h
  <2>1. b * qi = qi * b BY <1>3, <1>4
  <2> QED BY <1>4, <1>5, <2>1
<1>15. h \in {0, 1} BY <1>5
<1> HIDE DEF qi, pr, h, m
<1> QED BY <1>6, <1>7, <1>8, <1>10, <1>12, <1>13, <1>14, <1>15

\* The workers that share one half of a query in split.
Sharers(s) == s.factor \div 2

\* What a shape of split says about its workers.
LEMMA SplitWorkers ==
  ASSUME NEW s \in Shapes, ~ IsMerge(s)
  PROVE  /\ s.factor \in Nat \ {0} /\ s.workers \in Nat \ {0} /\ s.threads \in Nat \ {0}
         /\ Sharers(s) \in Nat \ {0} /\ s.factor = 2 * Sharers(s)
         /\ QueryCt(s) \in Nat /\ s.workers = s.factor * QueryCt(s)
<1> DEFINE f == s.factor
           wk == s.workers
<1>1. /\ f \in Nat \ {0} /\ wk \in Nat \ {0} /\ s.threads \in Nat \ {0}
      /\ f % 2 = 0 /\ wk % f = 0
  BY ShapesAssumption DEF ShapeOK, IsMerge
<1>2. f \div 2 \in Nat \ {0} /\ f = 2 * (f \div 2)
  <2> HIDE DEF f
  <2> QED BY <1>1
<1>3. wk \div f \in Nat /\ wk = f * (wk \div f)
  <2> HIDE DEF f, wk
  <2>1. wk \div f \in Nat /\ wk = (f * (wk \div f)) + (wk % f) BY <1>1, DivMod
  <2> QED BY <1>1, <2>1
<1>4. QueryCt(s) = wk \div f BY DEF QueryCt
<1> QED BY <1>1, <1>2, <1>3, <1>4 DEF Sharers

\* In split worker w has a part of the rotations of a half of its query, and thread t
\* a part of those.
LEMMA SplitRange ==
  ASSUME NEW s \in Shapes, ~ IsMerge(s), NEW w \in Workers(s), NEW t \in Threads(s)
  PROVE  /\ w \div s.factor \in 0 .. QueryCt(s) - 1
         /\ Half(s, w, t) \in {0, 1}
         /\ w % Sharers(s) \in 0 .. Sharers(s) - 1
         /\ w = (2 * (w \div s.factor) + Half(s, w, t)) * Sharers(s) + (w % Sharers(s))
         /\ StartRot(s, w, t) = First(HalfN, Sharers(s), w % Sharers(s))
                                  + First(WorkerTotRot(s, w), s.threads, t)
         /\ EndRot(s, w, t) = First(HalfN, Sharers(s), w % Sharers(s))
                                + End(WorkerTotRot(s, w), s.threads, t)
         /\ WorkerTotRot(s, w) \in Nat
<1> DEFINE f == s.factor
           hf == Sharers(s)
           q == w \div f
           m == w % f
           h == IF m >= hf THEN 1 ELSE 0
           j == m - h * hf
<1>1. /\ f \in Nat \ {0} /\ hf \in Nat \ {0} /\ f = 2 * hf
      /\ QueryCt(s) \in Nat /\ s.workers = f * QueryCt(s) /\ s.threads \in Nat \ {0}
  BY SplitWorkers
<1>2. w \in Nat /\ w < f * QueryCt(s)
  BY <1>1, SplitWorkers DEF Workers
<1>3. q \in Nat /\ m \in 0 .. f - 1 /\ w = (f * q) + m
  <2> HIDE DEF f
  <2> QED BY <1>1, <1>2, DivMod
<1>4. h \in {0, 1} /\ j \in 0 .. hf - 1 /\ m = h * hf + j
  <2> HIDE DEF m, f, hf
  <2> QED BY <1>1, <1>3
<1>5. q \in 0 .. QueryCt(s) - 1
  <2>1. ASSUME q >= QueryCt(s) PROVE FALSE
    <3>1. PICK d \in Nat: q = QueryCt(s) + d
      <4> HIDE DEF q, f
      <4>1. q - QueryCt(s) \in Nat /\ q = QueryCt(s) + (q - QueryCt(s)) BY <1>1, <1>3, <2>1
      <4> QED BY <4>1
    <3>2. /\ f * q = f * QueryCt(s) + f * d
          /\ f * d \in Nat /\ f * QueryCt(s) \in Nat
      <4> HIDE DEF q, f
      <4> QED BY <1>1, <3>1
    <3> HIDE DEF q, f, m
    <3> QED BY <1>1, <1>2, <1>3, <3>2
  <2> HIDE DEF q, f
  <2> QED BY <1>1, <1>3, <2>1
<1>6. w = (2 * q + h) * hf + j /\ 2 * q + h \in Nat
  <2> HIDE DEF q, m, f, hf, h, j
  <2>1. (2 * q + h) * hf = (2 * hf) * q + h * hf
    <3>1. CASE h = 0 BY <1>1, <1>3, <3>1
    <3>2. CASE h = 1 BY <1>1, <1>3, <3>2
    <3> QED BY <1>4, <3>1, <3>2
  <2>2. f * q = (2 * hf) * q BY <1>1
  <2>3. f * q \in Nat /\ h * hf \in Nat
    <3>1. CASE h = 0 BY <1>1, <1>3, <3>1
    <3>2. CASE h = 1 BY <1>1, <1>3, <3>2
    <3> QED BY <1>4, <3>1, <3>2
  <2>4. w = f * q + (h * hf + j) BY <1>3, <1>4
  <2>5. w = (f * q + h * hf) + j
    <3> DEFINE a == f * q
               b == h * hf
    <3>1. a \in Nat /\ b \in Nat /\ w = a + (b + j) /\ j \in Nat BY <1>1, <1>4, <2>3, <2>4
    <3> HIDE DEF a, b
    <3>2. w = (a + b) + j BY <3>1
    <3> QED BY <3>2 DEF a, b
  <2> QED BY <1>3, <1>4, <2>1, <2>2, <2>5
<1>7. w % hf = j
  <2> DEFINE k == 2 * q + h
  <2>1. k \in Nat /\ w = k * hf + j BY <1>6
  <2> HIDE DEF k, j, hf
  <2> QED BY <1>1, <1>4, <2>1, DivUnique
<1>8. Half(s, w, t) = h BY DEF Half, Sharers
<1>9. /\ WorkerRotStart(s, w) = First(HalfN, hf, w % hf)
      /\ WorkerTotRot(s, w) = Share(HalfN, hf, w % hf)
  BY DEF WorkerRotStart, WorkerTotRot, Sharers
<1>10. First(HalfN, hf, j) \in Nat /\ Share(HalfN, hf, j) \in Nat
  <2> HIDE DEF hf, j
  <2> QED BY <1>1, <1>4, SizesAssumption, PartsInOrder
<1>11. WorkerTotRot(s, w) \in Nat BY <1>7, <1>9, <1>10
<1>12. StartRot(s, w, t) = First(HalfN, hf, w % hf) + First(WorkerTotRot(s, w), s.threads, t)
  BY <1>9 DEF StartRot
<1>13. EndRot(s, w, t) = First(HalfN, hf, w % hf) + End(WorkerTotRot(s, w), s.threads, t)
  <2>1. t \in 0 .. s.threads - 1 BY DEF Threads
  <2> DEFINE a == First(HalfN, hf, w % hf)
             b == First(WorkerTotRot(s, w), s.threads, t)
             c == Share(WorkerTotRot(s, w), s.threads, t)
  <2>2. b \in Nat /\ c \in Nat BY <1>1, <1>11, <2>1, PartsInOrder
  <2>3. a \in Nat BY <1>7, <1>10
  <2>4. EndRot(s, w, t) = (a + b) + c BY <1>12 DEF EndRot
  <2>5. End(WorkerTotRot(s, w), s.threads, t) = b + c BY DEF End
  <2>6. (a + b) + c = a + (b + c)
    <3> HIDE DEF a, b, c
    <3> QED BY <2>2, <2>3
  <2> QED BY <2>4, <2>5, <2>6
<1> HIDE DEF q, m, h, j, hf
<1> QED BY <1>4, <1>5, <1>6, <1>7, <1>8, <1>11, <1>12, <1>13 DEF q, hf

\* Thread t of worker w multiplies rotation x of half h of query q.
Does(s, w, t, q, h, x) ==
  /\ w \in Workers(s) /\ t \in Threads(s)
  /\ WorkerQueries(s, w)[QueryIdx(s, t)] = q
  /\ Half(s, w, t) = h
  /\ x \in StartRot(s, w, t) .. EndRot(s, w, t) - 1

\* The rotations of a thread of merge, in terms of Partition.
LEMMA MergeDoes ==
  ASSUME NEW s \in Shapes, IsMerge(s), NEW w \in Workers(s), NEW t \in Threads(s),
         NEW q, NEW h, NEW x
  PROVE  Does(s, w, t, q, h, x) <=>
           /\ q = w * s.factor + QueryIdx(s, t) /\ h = Half(s, w, t)
           /\ x \in Part(HalfN, Pairs(s), Pair(s, t))
BY MergeRange DEF Does, WorkerQueries, Part

\* The rotations of a worker of split, and those of its threads among them.
SharePart(s, w) == Part(HalfN, Sharers(s), w % Sharers(s))
ShareFirst(s, w) == First(HalfN, Sharers(s), w % Sharers(s))

\* The rotations of a thread of split: a part of the worker's part.
LEMMA SplitDoes ==
  ASSUME NEW s \in Shapes, ~ IsMerge(s), NEW w \in Workers(s), NEW t \in Threads(s),
         NEW q, NEW h, NEW x
  PROVE  Does(s, w, t, q, h, x) <=>
           /\ q = w \div s.factor /\ h = Half(s, w, t)
           /\ x \in SharePart(s, w)
           /\ x - ShareFirst(s, w) \in Part(WorkerTotRot(s, w), s.threads, t)
<1> DEFINE k == w % Sharers(s)
           a == First(HalfN, Sharers(s), k)
           n == WorkerTotRot(s, w)
           th == s.threads
<1>1. /\ StartRot(s, w, t) = a + First(n, th, t)
      /\ EndRot(s, w, t) = a + End(n, th, t)
      /\ k \in 0 .. Sharers(s) - 1 /\ n \in Nat
  BY SplitRange
<1>2. n = Share(HalfN, Sharers(s), k)
  BY DEF WorkerTotRot, Sharers
<1>3. Sharers(s) \in Nat \ {0} /\ th \in Nat \ {0} /\ t \in 0 .. th - 1
  BY SplitWorkers DEF Threads
<1>4. a \in Nat /\ End(HalfN, Sharers(s), k) = a + n
  <2> HIDE DEF k
  <2> QED BY <1>1, <1>2, <1>3, SizesAssumption, PartsInOrder DEF End
<1>5. /\ First(n, th, t) \in Nat /\ Share(n, th, t) \in Nat
      /\ End(n, th, t) = First(n, th, t) + Share(n, th, t) /\ End(n, th, t) <= n
  <2> HIDE DEF n, th
  <2>1. First(n, th, t) \in Nat /\ Share(n, th, t) \in Nat BY <1>1, <1>3, PartsInOrder
  <2>2. End(n, th, t) <= n BY <1>1, <1>3, PartsWithin
  <2> QED BY <2>1, <2>2 DEF End
<1>6. WorkerQueries(s, w)[QueryIdx(s, t)] = w \div s.factor
  BY DEF WorkerQueries, QueryIdx
<1> DEFINE fi == First(n, th, t)
           e == End(n, th, t)
<1>7. x \in (a + fi) .. (a + e) - 1 <=>
        x \in a .. (a + n) - 1 /\ x - a \in fi .. e - 1
  <2>1. fi \in Nat /\ e \in Nat /\ e <= n BY <1>5
  <2> HIDE DEF a, n, fi, e
  <2>2. CASE x \in Int BY <1>1, <1>4, <2>1, <2>2
  <2>3. CASE x \notin Int BY <1>1, <1>4, <2>1, <2>3
  <2> QED BY <2>2, <2>3
<1>8. SharePart(s, w) = a .. (a + n) - 1 /\ ShareFirst(s, w) = a
  BY <1>4 DEF SharePart, ShareFirst, Part
<1>9. Part(n, th, t) = fi .. e - 1 BY DEF Part
<1>10. Does(s, w, t, q, h, x) <=>
         /\ q = w \div s.factor /\ h = Half(s, w, t)
         /\ x \in (a + fi) .. (a + e) - 1
  BY <1>1, <1>6 DEF Does
<1> HIDE DEF a, n, fi, e, th, k
<1> QED BY <1>7, <1>8, <1>9, <1>10 DEF n, th

\* The work of a thread is a rotation of a half of a query of the client.
THEOREM WorkWithin ==
  ASSUME NEW s \in Shapes, NEW w, NEW t, NEW q, NEW h, NEW x, Does(s, w, t, q, h, x)
  PROVE  q \in 0 .. QueryCt(s) - 1 /\ h \in {0, 1} /\ x \in 0 .. HalfN - 1
<1>1. w \in Workers(s) /\ t \in Threads(s) BY DEF Does
<1>2. CASE IsMerge(s)
  <2> DEFINE f == s.factor
             qi == QueryIdx(s, t)
  <2>1. q = w * f + qi /\ h = Half(s, w, t) /\ x \in Part(HalfN, Pairs(s), Pair(s, t))
    BY <1>1, <1>2, MergeDoes
  <2>2. qi \in 0 .. f - 1 /\ h \in {0, 1} /\ Pair(s, t) \in 0 .. Pairs(s) - 1
    BY <1>1, <1>2, <2>1, MergeRange
  <2>3. f \in Nat \ {0} /\ s.workers \in Nat \ {0} /\ Pairs(s) \in Nat \ {0}
    BY <1>2, MergeThreads
  <2>4. x \in 0 .. HalfN - 1
    BY <2>1, <2>2, <2>3, SizesAssumption, PartsWithin
  <2>5. PICK d \in Nat: s.workers = (w + 1) + d /\ w \in Nat
    <3>1. w \in Nat /\ s.workers - (w + 1) \in Nat
          /\ s.workers = (w + 1) + (s.workers - (w + 1))
      BY <1>1, <2>3 DEF Workers
    <3> QED BY <3>1
  <2>6. s.workers * f = (w * f + f) + d * f /\ w * f \in Nat /\ d * f \in Nat
    <3> HIDE DEF f
    <3> QED BY <2>3, <2>5
  <2>7. QueryCt(s) = s.workers * f BY <1>2 DEF QueryCt
  <2>8. q \in 0 .. QueryCt(s) - 1
    <3> DEFINE wf == w * f
               df == d * f
    <3>1. wf \in Nat /\ df \in Nat /\ q = wf + qi /\ QueryCt(s) = (wf + f) + df
      BY <2>1, <2>6, <2>7
    <3> HIDE DEF wf, df, f, qi
    <3> QED BY <2>2, <2>3, <3>1
  <2> QED BY <2>2, <2>4, <2>8
<1>3. CASE ~ IsMerge(s)
  <2>1. q = w \div s.factor /\ h = Half(s, w, t) /\ x \in SharePart(s, w)
    BY <1>1, <1>3, SplitDoes
  <2>2. q \in 0 .. QueryCt(s) - 1 /\ h \in {0, 1} /\ w % Sharers(s) \in 0 .. Sharers(s) - 1
    BY <1>1, <1>3, <2>1, SplitRange
  <2>3. Sharers(s) \in Nat \ {0} BY <1>3, SplitWorkers
  <2>4. x \in 0 .. HalfN - 1
    BY <2>1, <2>2, <2>3, SizesAssumption, PartsWithin DEF SharePart
  <2> QED BY <2>2, <2>4
<1> QED BY <1>2, <1>3

\* No two threads, of one worker or of two, multiply the same rotation of the same
\* half of the same query.
THEOREM WorkOnce ==
  ASSUME NEW s \in Shapes, NEW q, NEW h, NEW x,
         NEW w, NEW t, Does(s, w, t, q, h, x),
         NEW v, NEW u, Does(s, v, u, q, h, x)
  PROVE  w = v /\ t = u
<1>1. /\ w \in Workers(s) /\ t \in Threads(s)
      /\ v \in Workers(s) /\ u \in Threads(s)
  BY DEF Does
<1>2. CASE IsMerge(s)
  <2> DEFINE f == s.factor
             b == 2 * Pairs(s)
             qt == QueryIdx(s, t)
             qu == QueryIdx(s, u)
             pt == Pair(s, t)
             pu == Pair(s, u)
  <2>1. /\ q = w * f + qt /\ q = v * f + qu
        /\ h = Half(s, w, t) /\ h = Half(s, v, u)
        /\ x \in Part(HalfN, Pairs(s), pt) /\ x \in Part(HalfN, Pairs(s), pu)
    BY <1>1, <1>2, MergeDoes
  <2>2. /\ qt \in 0 .. f - 1 /\ pt \in 0 .. Pairs(s) - 1 /\ t = qt * b + (2 * pt + h)
        /\ qu \in 0 .. f - 1 /\ pu \in 0 .. Pairs(s) - 1 /\ u = qu * b + (2 * pu + h)
    BY <1>1, <1>2, <2>1, MergeRange
  <2>3. f \in Nat \ {0} /\ Pairs(s) \in Nat \ {0} /\ w \in Nat /\ v \in Nat
    BY <1>1, <1>2, MergeThreads DEF Workers
  <2>4. w = v /\ qt = qu
    <3> HIDE DEF f, qt, qu
    <3>0. f \in Nat \ {0} /\ w \in Nat /\ v \in Nat /\ qt \in 0 .. f - 1 /\ qu \in 0 .. f - 1
      BY <2>2, <2>3
    <3>1. (w * f + qt) \div f = w /\ (w * f + qt) % f = qt BY <3>0, DivUnique
    <3>2. (v * f + qu) \div f = v /\ (v * f + qu) % f = qu BY <3>0, DivUnique
    <3>3. w * f + qt = v * f + qu BY <2>1
    <3> QED BY <3>1, <3>2, <3>3
  <2>5. pt = pu
    BY <2>1, <2>2, <2>3, SizesAssumption, PartsDisjoint
  <2> HIDE DEF b, qt, qu, pt, pu
  <2> QED BY <2>2, <2>4, <2>5
<1>3. CASE ~ IsMerge(s)
  <2> DEFINE hf == Sharers(s)
             jw == w % hf
             jv == v % hf
  <2>1. /\ q = w \div s.factor /\ h = Half(s, w, t) /\ x \in Part(HalfN, hf, jw)
        /\ x - ShareFirst(s, w) \in Part(WorkerTotRot(s, w), s.threads, t)
    BY <1>1, <1>3, SplitDoes DEF SharePart
  <2>2. /\ q = v \div s.factor /\ h = Half(s, v, u) /\ x \in Part(HalfN, hf, jv)
        /\ x - ShareFirst(s, v) \in Part(WorkerTotRot(s, v), s.threads, u)
    BY <1>1, <1>3, SplitDoes DEF SharePart
  <2>3. jw \in 0 .. hf - 1 /\ w = (2 * q + h) * hf + jw /\ WorkerTotRot(s, w) \in Nat
    BY <1>1, <1>3, <2>1, SplitRange
  <2>4. jv \in 0 .. hf - 1 /\ v = (2 * q + h) * hf + jv
    BY <1>1, <1>3, <2>2, SplitRange
  <2>5. hf \in Nat \ {0} /\ s.threads \in Nat \ {0} BY <1>3, SplitWorkers
  <2>6. jw = jv
    <3> HIDE DEF hf, jw, jv
    <3> QED BY <2>1, <2>2, <2>3, <2>4, <2>5, SizesAssumption, PartsDisjoint
  <2>7. w = v
    <3> HIDE DEF hf, jw, jv
    <3> QED BY <2>3, <2>4, <2>6
  <2>8. t = u
    BY <1>1, <2>1, <2>2, <2>3, <2>5, <2>7, PartsDisjoint DEF Threads
  <2> QED BY <2>7, <2>8
<1> QED BY <1>2, <1>3

\* Every rotation of every half of every query is the work of a thread.
THEOREM WorkDone ==
  ASSUME NEW s \in Shapes, NEW q \in 0 .. QueryCt(s) - 1, NEW h \in {0, 1},
         NEW x \in 0 .. HalfN - 1
  PROVE  \E w \in Workers(s), t \in Threads(s): Does(s, w, t, q, h, x)
<1>1. CASE IsMerge(s)
  <2> DEFINE f == s.factor
             wk == s.workers
             n == Pairs(s)
             b == 2 * n
             w == q \div f
             qi == q % f
  <2>1. f \in Nat \ {0} /\ wk \in Nat \ {0} /\ n \in Nat \ {0} /\ s.threads = f * b
        /\ ThreadPerQuery(s) = b
    BY <1>1, MergeThreads
  <2>2. q \in Nat /\ q < wk * f
    <3>1. wk * f \in Nat
      <4> HIDE DEF wk, f
      <4> QED BY <2>1
    <3>2. QueryCt(s) = wk * f BY <1>1 DEF QueryCt
    <3> QED BY <3>1, <3>2
  <2>3. w \in Nat /\ qi \in 0 .. f - 1 /\ q = (f * w) + qi
    <3> HIDE DEF f
    <3> QED BY <2>1, <2>2, DivMod
  <2>4. w \in 0 .. wk - 1
    <3> HIDE DEF w, f, qi, wk
    <3>1. ASSUME w >= wk PROVE FALSE
      <4>1. PICK d \in Nat: w = wk + d
        <5>1. w - wk \in Nat /\ w = wk + (w - wk) BY <2>1, <2>3, <3>1
        <5> QED BY <5>1
      <4>2. f * w = wk * f + f * d /\ f * d \in Nat /\ wk * f \in Nat BY <2>1, <4>1
      <4> QED BY <2>1, <2>2, <2>3, <4>2
    <3> QED BY <2>1, <2>3, <3>1
  <2>5. PICK p \in 0 .. n - 1: x \in Part(HalfN, n, p)
    <3> HIDE DEF n
    <3> QED BY <2>1, SizesAssumption, PartsCover
  <2> DEFINE m == 2 * p + h
             t == qi * b + m
  <2>6. m \in 0 .. b - 1
    <3>1. p \in 0 .. n - 1 OBVIOUS
    <3> HIDE DEF n
    <3>2. h = 0 \/ h = 1 OBVIOUS
    <3> QED BY <2>1, <3>1, <3>2
  <2>7. t \in 0 .. f * b - 1
    <3> HIDE DEF f, b, m, qi
    <3>0. b \in Nat \ {0} BY <2>1 DEF b
    <3>1. PICK d \in Nat: f = (qi + 1) + d
      <4>1. f - (qi + 1) \in Nat /\ f = (qi + 1) + (f - (qi + 1)) BY <2>1, <2>3
      <4> QED BY <4>1
    <3>2. f * b = (qi * b + b) + d * b /\ qi * b \in Nat /\ d * b \in Nat
      BY <2>1, <2>3, <3>0, <3>1
    <3> DEFINE qb == qi * b
               db == d * b
    <3>3. qb \in Nat /\ db \in Nat /\ f * b = (qb + b) + db /\ t = qb + m BY <3>2
    <3> HIDE DEF qb, db, t
    <3> QED BY <2>6, <3>0, <3>3
  <2>8. t \in Threads(s) /\ w \in Workers(s) BY <2>1, <2>4, <2>7 DEF Threads, Workers
  <2>9. t \div b = qi /\ t % b = m
    <3>0. b \in Nat \ {0}
      <4>1. n \in Nat \ {0} BY <2>1
      <4> HIDE DEF n
      <4> QED BY <4>1
    <3>1. b \in Nat \ {0} /\ qi \in Nat
      <4> HIDE DEF b, qi, f
      <4> QED BY <2>1, <2>3, <3>0
    <3> HIDE DEF b, m, qi
    <3>2. (qi * b + m) \div b = qi /\ (qi * b + m) % b = m BY <2>6, <3>1, DivUnique
    <3> QED BY <3>2
  <2>10. m \div 2 = p /\ m % 2 = h
    <3>1. p \in Nat /\ h \in 0 .. 2 - 1 /\ m = p * 2 + h BY <2>1
    <3> HIDE DEF m
    <3> QED BY <3>1, DivUnique
  <2>11. QueryIdx(s, t) = qi /\ Pair(s, t) = p
    BY <1>1, <2>1, <2>9, <2>10 DEF QueryIdx, Pair
  <2>12. Half(s, w, t) = h
    <3> DEFINE k == qi * n + p
    <3>1. k \in Nat /\ t = k * 2 + h
      <4>1. qi * b = (qi * n) * 2 /\ qi * n \in Nat
        <5> HIDE DEF n, qi
        <5>1. n \in Nat /\ qi \in Nat BY <2>1, <2>3
        <5> QED BY <5>1
      <4>2. p \in Nat /\ (h = 0 \/ h = 1) BY <2>1
      <4> DEFINE qn == qi * n
      <4>3. qn \in Nat /\ t = qn * 2 + (2 * p + h) /\ k = qn + p BY <4>1
      <4> HIDE DEF qn, t, k
      <4> QED BY <4>2, <4>3
    <3>2. t % 2 = h
      <4> HIDE DEF k, t
      <4>1. h \in 0 .. 2 - 1 OBVIOUS
      <4> QED BY <3>1, <4>1, DivUnique
    <3> QED BY <1>1, <3>2 DEF Half
  <2>13. q = w * f + qi
    <3> HIDE DEF w, f, qi
    <3>1. f * w = w * f BY <2>1, <2>3
    <3> QED BY <2>3, <3>1
  <2>14. Does(s, w, t, q, h, x)
    <3> HIDE DEF w, t, qi, n
    <3> QED BY <1>1, <2>5, <2>8, <2>11, <2>12, <2>13, MergeDoes DEF n
  <2> QED BY <2>8, <2>14
<1>2. CASE ~ IsMerge(s)
  <2> DEFINE f == s.factor
             hf == Sharers(s)
             c == QueryCt(s)
  <2>1. /\ f \in Nat \ {0} /\ hf \in Nat \ {0} /\ f = 2 * hf /\ s.threads \in Nat \ {0}
        /\ c \in Nat /\ s.workers = f * c
    BY <1>2, SplitWorkers
  <2>2. PICK j \in 0 .. hf - 1: x \in Part(HalfN, hf, j)
    <3> HIDE DEF hf
    <3> QED BY <2>1, SizesAssumption, PartsCover
  <2> DEFINE m == h * hf + j
             w == q * f + m
             k == 2 * q + h
  <2>3. j \in Nat /\ (h = 0 \/ h = 1) /\ q \in Nat BY <2>1
  <2>4. m \in 0 .. f - 1
    <3> HIDE DEF hf, f
    <3>1. CASE h = 0 BY <2>1, <3>1
    <3>2. CASE h = 1 BY <2>1, <3>2
    <3> QED BY <2>3, <3>1, <3>2
  <2>5. w \in 0 .. f * c - 1
    <3>1. q \in 0 .. c - 1 OBVIOUS
    <3> HIDE DEF f, m, c
    <3>2. PICK d \in Nat: c = (q + 1) + d
      <4>1. c - (q + 1) \in Nat /\ c = (q + 1) + (c - (q + 1)) BY <2>1, <3>1
      <4> QED BY <4>1
    <3>3. f * c = (q * f + f) + d * f /\ q * f \in Nat /\ d * f \in Nat
      BY <2>1, <2>3, <3>2
    <3> DEFINE qf == q * f
               df == d * f
    <3>4. qf \in Nat /\ df \in Nat /\ f * c = (qf + f) + df /\ w = qf + m BY <3>3
    <3> HIDE DEF qf, df, w
    <3> QED BY <2>1, <2>4, <3>4
  <2>6. w \in Workers(s) BY <2>1, <2>5 DEF Workers
  <2>7. w \div f = q /\ w % f = m
    <3> HIDE DEF f, m
    <3>1. f \in Nat \ {0} /\ q \in Nat /\ m \in 0 .. f - 1 BY <2>1, <2>3, <2>4
    <3>2. (q * f + m) \div f = q /\ (q * f + m) % f = m BY <3>1, DivUnique
    <3> QED BY <3>2
  <2>8. w = k * hf + j /\ k \in Nat
    <3> HIDE DEF hf, f
    <3>1. q * f = (2 * q) * hf /\ q * f \in Nat BY <2>1, <2>3
    <3>2. CASE h = 0 BY <2>1, <2>3, <3>1, <3>2
    <3>3. CASE h = 1
      <4>1. (2 * q + 1) * hf = (2 * q) * hf + hf BY <2>1, <2>3
      <4>2. m = hf + j BY <2>1, <3>3
      <4> DEFINE a == (2 * q) * hf
      <4>3. a \in Nat /\ w = a + (hf + j) /\ k * hf = a + hf /\ k \in Nat
        BY <2>3, <3>1, <3>3, <4>1, <4>2
      <4> HIDE DEF a, w, k
      <4>4. w = k * hf + j BY <2>1, <2>3, <4>3
      <4> QED BY <4>3, <4>4
    <3> QED BY <2>3, <3>2, <3>3
  <2>9. w % hf = j
    <3> HIDE DEF hf, w, k
    <3> QED BY <2>1, <2>8, DivUnique
  <2>10. ASSUME NEW t PROVE Half(s, w, t) = h
    <3>1. Half(s, w, t) = IF m >= hf THEN 1 ELSE 0 BY <1>2, <2>7 DEF Half, Sharers
    <3> HIDE DEF hf, w
    <3>2. CASE h = 0 BY <2>1, <2>3, <3>1, <3>2
    <3>3. CASE h = 1 BY <2>1, <2>3, <3>1, <3>3
    <3> QED BY <2>3, <3>2, <3>3
  <2> DEFINE tot == WorkerTotRot(s, w)
             a == First(HalfN, hf, j)
  <2>11. tot = Share(HalfN, hf, j) BY <2>9 DEF WorkerTotRot, Sharers
  <2>12. ShareFirst(s, w) = a /\ SharePart(s, w) = Part(HalfN, hf, j)
    BY <2>9 DEF ShareFirst, SharePart
  <2>13. x - a \in 0 .. tot - 1 /\ tot \in Nat
    <3>1. a \in Nat /\ Share(HalfN, hf, j) \in Nat
      <4> HIDE DEF hf
      <4> QED BY <2>1, SizesAssumption, PartsInOrder
    <3>2. x \in a .. (a + tot) - 1 BY <2>2, <2>11 DEF Part, End
    <3>3. tot \in Nat BY <2>11, <3>1
    <3> HIDE DEF a, tot
    <3> QED BY <3>1, <3>2, <3>3
  <2>14. PICK t \in 0 .. s.threads - 1: x - a \in Part(tot, s.threads, t)
    <3> HIDE DEF tot, a
    <3> QED BY <2>1, <2>13, PartsCover
  <2>15. t \in Threads(s) BY DEF Threads
  <2>16. Does(s, w, t, q, h, x)
    <3>1. q = w \div s.factor /\ h = Half(s, w, t) BY <2>7, <2>10
    <3>2. x \in SharePart(s, w) /\ x - ShareFirst(s, w) \in Part(WorkerTotRot(s, w), s.threads, t)
      BY <2>2, <2>12, <2>14
    <3> HIDE DEF w
    <3> QED BY <1>2, <2>6, <2>15, <3>1, <3>2, SplitDoes
  <2> QED BY <2>6, <2>15, <2>16
<1> QED BY <1>1, <1>2

-----------------------------------------------------------------------------
\* In merge the plaintext lies in the block of the thread's query, the row and the half.
LEMMA MergePlain ==
  ASSUME NEW s \in Shapes, IsMerge(s), NEW w \in Workers(s), NEW t \in Threads(s),
         NEW row \in 0 .. Rows - 1, NEW x \in StartRot(s, w, t) .. EndRot(s, w, t) - 1
  PROVE  /\ QueryIdx(s, t) \in 0 .. s.factor - 1
         /\ DbIndex(s, w, t, row, x) < DbElements(s, w)
         /\ \E y \in 0 .. HalfN - 1:
              DbIndex(s, w, t, row, x)
                = (QueryIdx(s, t) * Rows + row) * N + Half(s, w, t) * HalfN + y
<1> DEFINE f == s.factor
           qi == QueryIdx(s, t)
           h == Half(s, w, t)
           n == Pairs(s)
           p == Pair(s, t)
           y == x - StartRot(s, w, t)
           block == qi * Rows + row
<1>1. f \in Nat \ {0} /\ n \in Nat \ {0} /\ HalfN \in Nat \ {0} /\ Rows \in Nat \ {0}
  BY MergeThreads, SizesAssumption
<1>2. /\ qi \in 0 .. f - 1 /\ h \in {0, 1} /\ p \in 0 .. n - 1
      /\ StartRot(s, w, t) = First(HalfN, n, p) /\ EndRot(s, w, t) = End(HalfN, n, p)
  BY MergeRange
<1>3. First(HalfN, n, p) \in Nat /\ Share(HalfN, n, p) \in Nat /\ End(HalfN, n, p) <= HalfN
  <2> HIDE DEF n, p
  <2>1. First(HalfN, n, p) \in Nat /\ Share(HalfN, n, p) \in Nat
    BY <1>1, <1>2, PartsInOrder
  <2>2. End(HalfN, n, p) <= HalfN BY <1>1, <1>2, PartsWithin
  <2> QED BY <2>1, <2>2
<1>4. y \in 0 .. HalfN - 1
  <2>1. End(HalfN, n, p) \in Nat BY <1>3 DEF End
  <2>2. x \in First(HalfN, n, p) .. End(HalfN, n, p) - 1 /\ y = x - First(HalfN, n, p)
    BY <1>2
  <2> HIDE DEF n, p, y
  <2> QED BY <1>1, <1>3, <2>1, <2>2
<1>5. N \in Nat /\ N = 2 * HalfN BY <1>1 DEF N
<1>6. qi * Rows \in Nat /\ block \in Nat
  <2>1. qi \in Nat /\ row \in Nat BY <1>1, <1>2
  <2> HIDE DEF qi
  <2>2. qi * Rows \in Nat BY <1>1, <2>1
  <2> QED BY <2>1, <2>2
<1>7. DbIndex(s, w, t, row, x) = block * N + h * HalfN + y
  <2>1. DbIndex(s, w, t, row, x) = y + (qi * Rows * N + row * N + h * HalfN)
    BY DEF DbIndex
  <2>2. block * N = qi * Rows * N + row * N /\ qi * Rows * N \in Nat /\ row * N \in Nat
    <3> DEFINE a == qi * Rows
    <3>1. a \in Nat /\ row \in Nat BY <1>1, <1>6
    <3>2. (a + row) * N = a * N + row * N /\ a * N \in Nat /\ row * N \in Nat
      <4> HIDE DEF a
      <4> QED BY <1>5, <3>1, Products
    <3> QED BY <3>2
  <2>3. h * HalfN \in Nat
    <3>1. CASE h = 0 BY <1>1, <3>1
    <3>2. CASE h = 1 BY <1>1, <3>2
    <3> QED BY <1>2, <3>1, <3>2
  <2> DEFINE a == qi * Rows * N
             b == row * N
             c == h * HalfN
  <2>4. /\ a \in Nat /\ b \in Nat /\ c \in Nat /\ y \in Int
        /\ DbIndex(s, w, t, row, x) = y + (a + b + c) /\ block * N = a + b
    BY <1>4, <2>1, <2>2, <2>3
  <2>5. y + (a + b + c) = (a + b) + c + y
    <3> HIDE DEF a, b, c, y
    <3> QED BY <2>4
  <2> QED BY <2>4, <2>5
<1>8. h * HalfN + y \in 0 .. N - 1 /\ h * HalfN \in Nat
  <2> HIDE DEF y, h
  <2>1. CASE h = 0 BY <1>1, <1>4, <1>5, <2>1
  <2>2. CASE h = 1 BY <1>1, <1>4, <1>5, <2>2
  <2> QED BY <1>2, <2>1, <2>2
<1>9. block + 1 <= f * Rows /\ f * Rows \in Nat
  <2> HIDE DEF qi, f
  <2>1. PICK d \in Nat: f = (qi + 1) + d
    <3>1. f - (qi + 1) \in Nat /\ f = (qi + 1) + (f - (qi + 1)) BY <1>1, <1>2
    <3> QED BY <3>1
  <2>2. f * Rows = qi * Rows + Rows + d * Rows /\ d * Rows \in Nat BY <1>1, <1>2, <2>1
  <2> DEFINE a == qi * Rows
             b == d * Rows
  <2>3. a \in Nat /\ b \in Nat /\ f * Rows = a + Rows + b /\ block = a + row
    BY <1>6, <2>2
  <2> HIDE DEF a, b, block
  <2> QED BY <1>1, <2>3
<1>10. DbElements(s, w) = (f * Rows) * N
  <2>1. DbElements(s, w) = N * f * Rows BY DEF DbElements
  <2> HIDE DEF f
  <2>2. N * f * Rows = (f * Rows) * N BY <1>1, <1>5
  <2> QED BY <2>1, <2>2
<1>11. block * N + N <= (f * Rows) * N /\ block * N \in Nat
  <2> DEFINE c == f * Rows
  <2>1. c \in Nat /\ block + 1 <= c BY <1>9
  <2> HIDE DEF c, block
  <2>2. PICK d \in Nat: c = (block + 1) + d
    <3>1. c - (block + 1) \in Nat /\ c = (block + 1) + (c - (block + 1)) BY <1>6, <2>1
    <3> QED BY <3>1
  <2>3. c * N = (block * N + N) + d * N /\ d * N \in Nat /\ block * N \in Nat
    BY <1>5, <1>6, <2>2
  <2>4. block * N + N <= c * N BY <1>5, <2>3
  <2> QED BY <2>3, <2>4 DEF c
<1>12. DbIndex(s, w, t, row, x) < DbElements(s, w)
  <2> DEFINE a == block * N
             b == h * HalfN
             e == (f * Rows) * N
  <2>1. /\ a \in Nat /\ b + y \in 0 .. N - 1 /\ b \in Nat /\ y \in Int /\ a + N <= e
        /\ DbIndex(s, w, t, row, x) = a + b + y /\ DbElements(s, w) = e
    BY <1>4, <1>7, <1>8, <1>10, <1>11
  <2>2. e \in Nat
    <3> DEFINE c == f * Rows
    <3>1. c \in Nat BY <1>9
    <3>2. c * N \in Nat
      <4> HIDE DEF c
      <4> QED BY <1>5, <3>1
    <3> QED BY <3>2
  <2>3. a + b + y < e
    <3> HIDE DEF a, b, e, y
    <3> QED BY <1>5, <2>1, <2>2
  <2> QED BY <2>1, <2>3
<1> QED BY <1>2, <1>4, <1>7, <1>12

\* The largest of several parts is smaller than the whole.
LEMMA ShareSmaller ==
  ASSUME NEW n \in Nat, NEW p \in Nat, p > 1, p <= n, NEW part \in 0 .. p - 1
  PROVE  Share(n, p, part) <= n - 1
<1> DEFINE q == n \div p
           r == n % p
<1>1. q \in Nat /\ r \in 0 .. p - 1 /\ n = (p * q) + r
  <2>1. p \in Nat \ {0} OBVIOUS
  <2> QED BY <2>1, DivMod
<1>2. Share(n, p, part) = q + IF r > part THEN 1 ELSE 0 BY DEF Share
<1>3. q # 0
  <2> HIDE DEF q, r
  <2>1. ASSUME q = 0 PROVE FALSE BY <1>1, <2>1
  <2> QED BY <2>1
<1>4. PICK d \in Nat: p = 2 + d
  <2>1. p - 2 \in Nat /\ p = 2 + (p - 2) OBVIOUS
  <2> QED BY <2>1
<1>5. p * q = 2 * q + d * q /\ d * q \in Nat
  <2> HIDE DEF q
  <2> QED BY <1>1, <1>4
<1> DEFINE dq == d * q
<1>6. dq \in Nat /\ n = 2 * q + dq + r BY <1>1, <1>5
<1> HIDE DEF dq, q, r
<1> QED BY <1>1, <1>2, <1>3, <1>6

\* In split it lies in the part of the database for the row.
LEMMA SplitPlain ==
  ASSUME NEW s \in Shapes, ~ IsMerge(s), NEW w \in Workers(s), NEW t \in Threads(s),
         NEW row \in 0 .. Rows - 1, NEW x \in StartRot(s, w, t) .. EndRot(s, w, t) - 1
  PROVE  /\ DbIndex(s, w, t, row, x) < DbElements(s, w)
         /\ DbIndex(s, w, t, row, x)
              \in row * (N \div s.factor) .. (row + 1) * (N \div s.factor) - 1
<1> DEFINE f == s.factor
           hf == Sharers(s)
           th == s.threads
           j == w % hf
           tot == WorkerTotRot(s, w)
           q == HalfN \div hf
           r == HalfN % hf
           y == x - StartRot(s, w, t)
<1>1. /\ f \in Nat \ {0} /\ hf \in Nat \ {0} /\ f = 2 * hf /\ th \in Nat \ {0}
      /\ HalfN \in Nat \ {0} /\ Rows \in Nat \ {0}
  BY SplitWorkers, SizesAssumption
<1>2. q \in Nat /\ r \in 0 .. hf - 1 /\ HalfN = (hf * q) + r
  <2> HIDE DEF hf
  <2> QED BY <1>1, DivMod
<1>3. N \div f = q /\ N % f = 2 * r
  <2> HIDE DEF q, r, hf, f
  <2>1. q * f = 2 * (hf * q) /\ hf * q \in Nat BY <1>1, <1>2
  <2>2. N = q * f + 2 * r /\ 2 * r \in 0 .. f - 1 BY <1>1, <1>2, <2>1 DEF N
  <2>3. (q * f + 2 * r) \div f = q /\ (q * f + 2 * r) % f = 2 * r
    <3>1. f \in Nat \ {0} /\ q \in Nat /\ 2 * r \in 0 .. f - 1 BY <1>1, <1>2, <2>2
    <3> QED BY <3>1, DivUnique
  <2> QED BY <2>2, <2>3
<1>4. tot = q + IF r > j THEN 1 ELSE 0
  BY DEF WorkerTotRot, Share, Sharers
<1>5. th <= q /\ (th > 1 \/ r = 0)
  <2>1. th <= N \div f /\ (th > 1 \/ N % f = 0)
    BY ShapesAssumption DEF ShapeOK, IsMerge
  <2>2. r \in Nat BY <1>1, <1>2
  <2> HIDE DEF q, r, th, f
  <2> QED BY <1>3, <2>1, <2>2
<1>6. /\ j \in 0 .. hf - 1 /\ tot \in Nat
      /\ StartRot(s, w, t) = First(HalfN, hf, j) + First(tot, th, t)
      /\ EndRot(s, w, t) = First(HalfN, hf, j) + End(tot, th, t)
  BY SplitRange
<1>7. t \in 0 .. th - 1 BY DEF Threads
<1>8. First(tot, th, t) \in Nat /\ Share(tot, th, t) \in Nat /\ First(HalfN, hf, j) \in Nat
  <2>1. First(tot, th, t) \in Nat /\ Share(tot, th, t) \in Nat
    <3> HIDE DEF tot, th
    <3> QED BY <1>1, <1>6, <1>7, PartsInOrder
  <2>2. First(HalfN, hf, j) \in Nat
    <3> HIDE DEF hf, j
    <3> QED BY <1>1, <1>6, PartsInOrder
  <2> QED BY <2>1, <2>2
<1>9. y \in 0 .. Share(tot, th, t) - 1
  <2> DEFINE a == First(HalfN, hf, j)
             b == First(tot, th, t)
             c == Share(tot, th, t)
  <2>1. a \in Nat /\ b \in Nat /\ c \in Nat BY <1>8
  <2>2. StartRot(s, w, t) = a + b /\ EndRot(s, w, t) = a + (b + c)
    BY <1>6 DEF End
  <2>3. x \in a + b .. a + (b + c) - 1 /\ y = x - (a + b)
    <3>1. x \in StartRot(s, w, t) .. EndRot(s, w, t) - 1 /\ y = x - StartRot(s, w, t)
      OBVIOUS
    <3> HIDE DEF a, b, c, y
    <3> QED BY <2>1, <2>2, <3>1
  <2>4. y \in 0 .. c - 1
    <3> HIDE DEF a, b, c, y
    <3> QED BY <2>1, <2>3
  <2> QED BY <2>4
<1>10. Share(tot, th, t) <= q
  <2>1. CASE th > 1
    <3>1. tot \in q .. q + 1 /\ th <= tot
      <4> HIDE DEF q, r, tot, j, th
      <4> QED BY <1>1, <1>2, <1>4, <1>5, <1>6
    <3>2. Share(tot, th, t) <= tot - 1
      <4> HIDE DEF tot, th
      <4> QED BY <1>1, <1>6, <1>7, <2>1, <3>1, ShareSmaller
    <3> DEFINE c == Share(tot, th, t)
    <3>3. c <= q
      <4>1. c \in Nat /\ c <= tot - 1 BY <1>8, <3>2
      <4> HIDE DEF c, tot, q
      <4> QED BY <1>2, <3>1, <4>1
    <3> QED BY <3>3
  <2>2. CASE th = 1
    <3>1. tot = q
      <4> HIDE DEF q, r, tot, j, th
      <4> QED BY <1>2, <1>4, <1>5, <1>6, <2>2
    <3>2. Share(tot, 1, t) = tot \div 1 + IF tot % 1 > t THEN 1 ELSE 0 BY DEF Share
    <3>3. t = 0 /\ tot \div 1 = tot /\ tot % 1 = 0
      <4> HIDE DEF tot, th
      <4> QED BY <1>6, <1>7, <2>2
    <3>4. Share(tot, 1, t) = tot
      <4> HIDE DEF tot
      <4> QED BY <1>6, <3>2, <3>3
    <3> QED
      <4> HIDE DEF tot, q, th
      <4> QED BY <1>2, <2>2, <3>1, <3>4
  <2> HIDE DEF th
  <2> QED BY <1>1, <2>1, <2>2
<1>11. y \in 0 .. q - 1
  <2> DEFINE c == Share(tot, th, t)
  <2>1. c \in Nat /\ c <= q /\ y \in 0 .. c - 1 BY <1>8, <1>9, <1>10
  <2> HIDE DEF c, q, y
  <2> QED BY <1>2, <2>1
<1>12. DbIndex(s, w, t, row, x) = y + row * q
  BY <1>3 DEF DbIndex
<1>13. row * q \in Nat /\ (row + 1) * q = row * q + q
  <2>1. row \in Nat BY <1>1
  <2> HIDE DEF q
  <2> QED BY <1>2, <2>1
<1>14. DbIndex(s, w, t, row, x) \in row * q .. (row + 1) * q - 1
  <2> DEFINE a == row * q
  <2>1. a \in Nat /\ (row + 1) * q = a + q /\ DbIndex(s, w, t, row, x) = y + a
    BY <1>12, <1>13
  <2>2. y + a \in a .. a + q - 1
    <3>1. q \in Nat /\ a \in Nat /\ y \in 0 .. q - 1 BY <1>2, <1>11, <2>1
    <3> HIDE DEF a, y, q
    <3> QED BY <3>1
  <2>3. DbIndex(s, w, t, row, x) \in a .. (row + 1) * q - 1
    <3>1. q \in Nat BY <1>2
    <3> HIDE DEF a, y, q
    <3> QED BY <2>1, <2>2, <3>1
  <2> QED BY <2>3
<1>15. (row + 1) * q <= DbElements(s, w)
  <2>1. DbElements(s, w) = tot * Rows BY DEF DbElements
  <2>2. PICK d \in Nat: Rows = (row + 1) + d
    <3>1. Rows - (row + 1) \in Nat /\ Rows = (row + 1) + (Rows - (row + 1)) BY <1>1
    <3> QED BY <3>1
  <2>3. PICK e \in Nat: tot = q + e
    <3>1. tot - q \in Nat /\ tot = q + (tot - q)
      <4> HIDE DEF tot, q, r, j
      <4> QED BY <1>2, <1>4
    <3> QED BY <3>1
  <2>4. tot * Rows = (row + 1) * q + d * q + e * Rows /\ d * q \in Nat /\ e * Rows \in Nat
    <3> HIDE DEF tot, q
    <3>1. tot * Rows = q * Rows + e * Rows /\ e * Rows \in Nat BY <1>1, <1>2, <2>3
    <3>2. q * Rows = (row + 1) * q + d * q /\ d * q \in Nat BY <1>1, <1>2, <2>2
    <3> QED BY <3>1, <3>2
  <2> DEFINE a == (row + 1) * q
             b == d * q
             c == e * Rows
  <2>5. a \in Nat /\ b \in Nat /\ c \in Nat /\ DbElements(s, w) = a + b + c
    <3>1. a \in Nat
      <4>1. row \in Nat BY <1>1
      <4> HIDE DEF q
      <4> QED BY <1>2, <4>1
    <3> QED BY <2>1, <2>4, <3>1
  <2> HIDE DEF a, b, c
  <2>6. a <= DbElements(s, w) BY <2>5
  <2> QED BY <2>6 DEF a
<1>16. DbIndex(s, w, t, row, x) < DbElements(s, w)
  <2> DEFINE a == row * q
             b == (row + 1) * q
  <2>1. /\ a \in Nat /\ b = a + q /\ DbIndex(s, w, t, row, x) \in a .. b - 1
        /\ b <= DbElements(s, w)
    BY <1>13, <1>14, <1>15
  <2>2. DbElements(s, w) \in Nat
    <3>1. tot * Rows \in Nat
      <4> HIDE DEF tot
      <4> QED BY <1>1, <1>6
    <3> QED BY <3>1 DEF DbElements
  <2> HIDE DEF a, b, q
  <2> QED BY <1>2, <2>1, <2>2
<1> QED BY <1>3, <1>14, <1>16

-----------------------------------------------------------------------------
(* The workers and the threads: WorkSplit *)

\* The product of thread t of worker w for a row and a rotation.
Prod(s, w, t, row, x) ==
  [worker |-> w, thread |-> t,
   query |-> WorkerQueries(s, w)[QueryIdx(s, t)], half |-> Half(s, w, t),
   rot |-> x, plain |-> DbIndex(s, w, t, row, x)]

\* Those before rotation n, all of a thread, all of a worker, all of the first n workers.
ProdsTo(s, w, t, row, n) == {Prod(s, w, t, row, x) : x \in StartRot(s, w, t) .. n - 1}
ThreadProds(s, w, t, row) == ProdsTo(s, w, t, row, EndRot(s, w, t))
WorkerProds(s, w, row) == UNION {ThreadProds(s, w, t, row) : t \in Threads(s)}
GroupProds(s, n, row) == UNION {WorkerProds(s, w, row) : w \in 0 .. n - 1}

Summed(row) == finalResult[row] = UNION {threadResult[u][row] : u \in Threads(shape)}

Places ==
  /\ shape \in Shapes /\ worker \in Workers(shape)
  /\ main \in {"wait", "join", "done"}
  /\ pc \in [Threads(shape) -> {"none", "multiply", "barrier", "sum", "done"}]
  /\ i \in [Threads(shape) -> Nat]
  /\ threadResult \in [Threads(shape) -> [RowIds -> SUBSET Product]]
  /\ finalResult \in [RowIds -> SUBSET Product]
  /\ group \in [RowIds -> SUBSET Product]

\* Outside the threads' run their results are empty.
Idle ==
  /\ main # "join" => /\ \A t \in Threads(shape): pc[t] = "none" /\ threadResult[t] = NoRows
                      /\ finalResult = NoRows
  /\ main = "join" => /\ queries = WorkerQueries(shape, worker)
                      /\ \A t \in Threads(shape): pc[t] # "none"

\* What thread t has multiplied.
Multiplied(t) ==
  /\ pc[t] = "multiply" =>
       /\ i[t] \in StartRot(shape, worker, t) .. EndRot(shape, worker, t)
       /\ \A row \in RowIds: threadResult[t][row] = ProdsTo(shape, worker, t, row, i[t])
  /\ pc[t] \in {"barrier", "sum", "done"} =>
       \A row \in RowIds: threadResult[t][row] = ThreadProds(shape, worker, t, row)

\* What thread t has summed, and that this began after all had multiplied.
SummedRows(t) ==
  /\ pc[t] \in {"sum", "done"} => \A u \in Threads(shape): pc[u] # "multiply"
  /\ pc[t] = "sum" => /\ i[t] \in StartResp(t) .. EndResp(t) - 1
                      /\ \A row \in StartResp(t) .. i[t] - 1: Summed(row)
  /\ pc[t] = "done" => \A row \in StartResp(t) .. EndResp(t) - 1: Summed(row)

\* The rows of the group hold the products of the workers that have finished.
Finished ==
  /\ main = "done" => worker + 1 = shape.workers
  /\ \A row \in RowIds:
       group[row] = GroupProds(shape, IF main = "done" THEN worker + 1 ELSE worker, row)

IInv ==
  /\ Places
  /\ Idle
  /\ \A t \in Threads(shape): Multiplied(t)
  /\ \A t \in Threads(shape): SummedRows(t)
  /\ Finished

-----------------------------------------------------------------------------
\* The sizes of a shape.
LEMMA ShapeSizes ==
  ASSUME NEW s \in Shapes
  PROVE  /\ s.factor \in Nat \ {0} /\ s.workers \in Nat \ {0} /\ s.threads \in Nat \ {0}
         /\ s.program \in {"merge", "split"}
BY ShapesAssumption DEF ShapeOK

\* The rotations, the query and the half of a thread.
LEMMA ThreadWork ==
  ASSUME NEW s \in Shapes, NEW w \in Workers(s), NEW t \in Threads(s)
  PROVE  /\ StartRot(s, w, t) \in Nat /\ EndRot(s, w, t) \in Nat
         /\ StartRot(s, w, t) <= EndRot(s, w, t)
         /\ QueryIdx(s, t) \in Nat
         /\ WorkerQueries(s, w)[QueryIdx(s, t)] \in Nat
         /\ Half(s, w, t) \in {0, 1}
<1>1. CASE IsMerge(s)
  <2> DEFINE n == Pairs(s)
             p == Pair(s, t)
  <2>1. n \in Nat \ {0} /\ s.factor \in Nat \ {0} BY <1>1, MergeThreads
  <2>2. /\ QueryIdx(s, t) \in 0 .. s.factor - 1 /\ Half(s, w, t) \in {0, 1}
        /\ p \in 0 .. n - 1
        /\ StartRot(s, w, t) = First(HalfN, n, p) /\ EndRot(s, w, t) = End(HalfN, n, p)
    BY <1>1, MergeRange
  <2>3. First(HalfN, n, p) \in Nat /\ Share(HalfN, n, p) \in Nat
    <3> HIDE DEF n, p
    <3> QED BY <2>1, <2>2, SizesAssumption, PartsInOrder
  <2>4. End(HalfN, n, p) \in Nat /\ First(HalfN, n, p) <= End(HalfN, n, p)
    BY <2>3 DEF End
  <2>5. WorkerQueries(s, w)[QueryIdx(s, t)] = w * s.factor + QueryIdx(s, t)
    BY <1>1, <2>2 DEF WorkerQueries
  <2>6. w \in Nat /\ w * s.factor \in Nat BY <2>1 DEF Workers
  <2> QED BY <2>1, <2>2, <2>3, <2>4, <2>5, <2>6
<1>2. CASE ~ IsMerge(s)
  <2> DEFINE n == Sharers(s)
             j == w % n
             tot == WorkerTotRot(s, w)
             th == s.threads
  <2>1. n \in Nat \ {0} /\ th \in Nat \ {0} BY <1>2, SplitWorkers
  <2>2. /\ w \div s.factor \in 0 .. QueryCt(s) - 1 /\ Half(s, w, t) \in {0, 1}
        /\ j \in 0 .. n - 1 /\ tot \in Nat
        /\ StartRot(s, w, t) = First(HalfN, n, j) + First(tot, th, t)
        /\ EndRot(s, w, t) = First(HalfN, n, j) + End(tot, th, t)
    BY <1>2, SplitRange
  <2>3. t \in 0 .. th - 1 BY DEF Threads
  <2>4. First(HalfN, n, j) \in Nat
    <3> HIDE DEF n, j
    <3> QED BY <2>1, <2>2, SizesAssumption, PartsInOrder
  <2>5. First(tot, th, t) \in Nat /\ Share(tot, th, t) \in Nat
    <3> HIDE DEF tot, th
    <3> QED BY <2>1, <2>2, <2>3, PartsInOrder
  <2>6. End(tot, th, t) \in Nat /\ First(tot, th, t) <= End(tot, th, t)
    BY <2>5 DEF End
  <2>7. QueryIdx(s, t) = 0 /\ WorkerQueries(s, w)[0] = w \div s.factor
    BY <1>2 DEF QueryIdx, WorkerQueries
  <2>8. w \div s.factor \in Nat BY <2>2
  <2> HIDE DEF n, j, tot, th
  <2> QED BY <2>2, <2>4, <2>5, <2>6, <2>7, <2>8
<1> QED BY <1>1, <1>2

\* Products of naturals are naturals.
LEMMA TimesNat ==
  \A a, b \in Nat: a * b \in Nat
OBVIOUS

\* A product has its type.
LEMMA ProdType ==
  ASSUME NEW s \in Shapes, NEW w \in Workers(s), NEW t \in Threads(s), NEW row \in RowIds,
         NEW x \in StartRot(s, w, t) .. EndRot(s, w, t) - 1
  PROVE  Prod(s, w, t, row, x) \in Product
<1>1. /\ StartRot(s, w, t) \in Nat /\ EndRot(s, w, t) \in Nat
      /\ QueryIdx(s, t) \in Nat /\ Half(s, w, t) \in {0, 1}
      /\ WorkerQueries(s, w)[QueryIdx(s, t)] \in Nat
  BY ThreadWork
<1>2. w \in Nat /\ t \in Nat BY ShapeSizes DEF Workers, Threads
<1>3. x \in Nat /\ x - StartRot(s, w, t) \in Nat BY <1>1
<1>4. row \in Nat /\ N \in Nat /\ HalfN \in Nat /\ Rows \in Nat
  BY SizesAssumption DEF RowIds, N
<1>5. N \div s.factor \in Nat
  <2>1. s.factor \in Nat \ {0} BY ShapeSizes
  <2> QED BY <1>4, <2>1, DivMod
<1>6. DbIndex(s, w, t, row, x) \in Nat
  <2>1. /\ QueryIdx(s, t) * Rows * N \in Nat /\ row * N \in Nat
        /\ row * (N \div s.factor) \in Nat
    <3>1. QueryIdx(s, t) * Rows \in Nat BY <1>1, <1>4, TimesNat
    <3> QED BY <1>4, <1>5, <3>1, TimesNat
  <2>2. Half(s, w, t) * HalfN \in Nat BY <1>1, <1>4, TimesNat
  <2> DEFINE a == QueryIdx(s, t) * Rows * N
             b == row * N
             c == row * (N \div s.factor)
             d == Half(s, w, t) * HalfN
             e == x - StartRot(s, w, t)
  <2>3. a \in Nat /\ b \in Nat /\ c \in Nat /\ d \in Nat /\ e \in Nat
    BY <1>3, <2>1, <2>2
  <2>4. DbIndex(s, w, t, row, x) = e + IF IsMerge(s) THEN a + b + d ELSE c
    BY DEF DbIndex
  <2> HIDE DEF a, b, c, d, e
  <2> QED BY <2>3, <2>4
<1> QED BY <1>1, <1>2, <1>3, <1>6 DEF Prod, Product

\* The rows a thread sums: those of a thread that has rows are some, and each row is
\* one of some thread.
LEMMA ThreadRows ==
  ASSUME shape \in Shapes
  PROVE  /\ \A t \in Threads(shape):
              /\ StartResp(t) \in Nat /\ EndResp(t) \in Nat
              /\ StartResp(t) .. EndResp(t) - 1 \subseteq RowIds
              /\ t < Rows => StartResp(t) < EndResp(t)
              /\ t >= Rows => StartResp(t) = EndResp(t)
         /\ \A row \in RowIds: \E t \in Threads(shape): row \in StartResp(t) .. EndResp(t) - 1
<1> DEFINE th == shape.threads
           q == Rows \div th
           r == Rows % th
<1>1. th \in Nat \ {0} /\ Rows \in Nat \ {0} BY ShapeSizes, SizesAssumption
<1>2. q \in Nat /\ r \in 0 .. th - 1 /\ Rows = (th * q) + r
  <2> HIDE DEF th
  <2> QED BY <1>1, DivMod
<1>3. ASSUME NEW t \in Threads(shape)
      PROVE  /\ StartResp(t) \in Nat /\ EndResp(t) \in Nat
             /\ StartResp(t) .. EndResp(t) - 1 \subseteq RowIds
             /\ t < Rows => StartResp(t) < EndResp(t)
             /\ t >= Rows => StartResp(t) = EndResp(t)
  <2>1. t \in 0 .. th - 1 BY DEF Threads
  <2>2. First(Rows, th, t) \in Nat /\ Share(Rows, th, t) \in Nat
    <3> HIDE DEF th
    <3> QED BY <1>1, <2>1, PartsInOrder
  <2>3. Part(Rows, th, t) \subseteq 0 .. Rows - 1
    <3> HIDE DEF th
    <3> QED BY <1>1, <2>1, PartsWithin
  <2>4. /\ StartResp(t) = First(Rows, th, t) /\ EndResp(t) = First(Rows, th, t) + Share(Rows, th, t)
        /\ Part(Rows, th, t) = StartResp(t) .. EndResp(t) - 1
    BY DEF StartResp, EndResp, End, Part
  <2>5. Share(Rows, th, t) = q + IF r > t THEN 1 ELSE 0 BY DEF Share
  <2>6. CASE q = 0
    <3>1. Rows = r
      <4> HIDE DEF q, r, th
      <4> QED BY <1>1, <1>2, <2>6
    <3> HIDE DEF q, r, th
    <3> QED BY <1>1, <1>2, <2>1, <2>2, <2>3, <2>4, <2>5, <2>6, <3>1 DEF RowIds
  <2>7. CASE q # 0
    <3>1. Rows >= th
      <4> HIDE DEF q, r, th
      <4>1. PICK d \in Nat: q = 1 + d
        <5>1. q - 1 \in Nat /\ q = 1 + (q - 1) BY <1>2, <2>7
        <5> QED BY <5>1
      <4>2. th * q = th + th * d /\ th * d \in Nat BY <1>1, <4>1
      <4> QED BY <1>1, <1>2, <4>2
    <3> HIDE DEF q, r, th
    <3> QED BY <1>1, <1>2, <2>1, <2>2, <2>3, <2>4, <2>5, <2>7, <3>1 DEF RowIds
  <2> QED BY <2>6, <2>7
<1>4. ASSUME NEW row \in RowIds
      PROVE  \E t \in Threads(shape): row \in StartResp(t) .. EndResp(t) - 1
  <2>1. \E t \in 0 .. th - 1: row \in Part(Rows, th, t)
    <3> HIDE DEF th
    <3> QED BY <1>1, PartsCover DEF RowIds
  <2> QED BY <2>1 DEF Threads, StartResp, EndResp, Part
<1> QED BY <1>3, <1>4

-----------------------------------------------------------------------------
\* Before anything has run nothing is summed.
LEMMA InitInv ==
  Init => IInv
<1> SUFFICES ASSUME Init PROVE IInv
  OBVIOUS
<1> USE DEF Init
<1>1. worker \in Workers(shape) BY ShapeSizes DEF Workers
<1>2. NoRows \in [RowIds -> SUBSET Product] BY DEF NoRows
<1>3. Places BY <1>1, <1>2 DEF Places
<1>4. Idle BY DEF Idle
<1>5. \A t \in Threads(shape): Multiplied(t) BY DEF Multiplied
<1>6. \A t \in Threads(shape): SummedRows(t) BY DEF SummedRows
<1>7. Finished
  <2>1. ASSUME NEW row \in RowIds PROVE group[row] = GroupProds(shape, 0, row)
    BY DEF NoRows, GroupProds
  <2> QED BY <2>1 DEF Finished
<1> QED BY <1>3, <1>4, <1>5, <1>6, <1>7 DEF IInv

\* The threads begin with empty rows at their first rotation.
LEMMA StartThreadsInv ==
  IInv /\ StartThreads => IInv'
<1> SUFFICES ASSUME IInv, StartThreads PROVE IInv'
  OBVIOUS
<1> USE DEF IInv, StartThreads
<1>1. Places /\ shape' = shape /\ worker' = worker /\ Idle
  OBVIOUS
<1>2. ASSUME NEW t \in Threads(shape)
      PROVE  /\ StartRot(shape, worker, t) \in Nat /\ EndRot(shape, worker, t) \in Nat
             /\ StartRot(shape, worker, t) <= EndRot(shape, worker, t)
  BY <1>1, ThreadWork DEF Places
<1>3. Places'
  BY <1>1, <1>2 DEF Places
<1>4. Idle'
  BY <1>1 DEF Idle
<1>5. \A t \in Threads(shape'): Multiplied(t)'
  <2> SUFFICES ASSUME NEW t \in Threads(shape) PROVE Multiplied(t)'
    BY <1>1
  <2>1. pc'[t] = "multiply" /\ i'[t] = StartRot(shape, worker, t) /\ threadResult'[t] = NoRows
    BY <1>1 DEF Idle
  <2>2. i'[t] \in StartRot(shape, worker, t) .. EndRot(shape, worker, t)
    BY <1>2, <2>1
  <2>3. ASSUME NEW row \in RowIds
        PROVE  threadResult'[t][row] = ProdsTo(shape, worker, t, row, i'[t])
    <3>1. StartRot(shape, worker, t) .. i'[t] - 1 = {} BY <1>2, <2>1
    <3>2. ProdsTo(shape, worker, t, row, i'[t]) = {} BY <3>1 DEF ProdsTo
    <3> QED BY <2>1, <3>2 DEF NoRows
  <2> QED BY <1>1, <2>1, <2>2, <2>3 DEF Multiplied
<1>6. \A t \in Threads(shape'): SummedRows(t)'
  BY <1>1 DEF SummedRows
<1>7. Finished'
  BY <1>1 DEF Finished
<1> QED BY <1>3, <1>4, <1>5, <1>6, <1>7

\* One more rotation of thread t is in its rows.
LEMMA MultiplyInv ==
  ASSUME NEW t \in Threads(shape), IInv, Multiply(t)
  PROVE  IInv'
<1> USE DEF IInv, Multiply
<1>1. Places /\ shape' = shape /\ worker' = worker /\ pc' = pc /\ pc[t] = "multiply"
  OBVIOUS
<1>2. main = "join"
  BY <1>1 DEF Idle, Places
<1>3. queries = WorkerQueries(shape, worker)
  BY <1>2 DEF Idle
<1> DEFINE n == i[t]
<1>4. /\ StartRot(shape, worker, t) \in Nat /\ EndRot(shape, worker, t) \in Nat
      /\ n \in StartRot(shape, worker, t) .. EndRot(shape, worker, t) - 1
  <2>1. StartRot(shape, worker, t) \in Nat /\ EndRot(shape, worker, t) \in Nat
    BY <1>1, ThreadWork DEF Places
  <2>2. n \in StartRot(shape, worker, t) .. EndRot(shape, worker, t)
    BY <1>1 DEF Multiplied
  <2> QED BY <2>1, <2>2
<1>5. threadResult' = [threadResult EXCEPT ![t] =
        [row \in RowIds |-> @[row] \cup {Prod(shape, worker, t, row, n)}]]
  BY <1>3 DEF Prod
<1>6. /\ threadResult'[t] = [row \in RowIds |-> threadResult[t][row] \cup {Prod(shape, worker, t, row, n)}]
      /\ \A u \in Threads(shape) \ {t}: threadResult'[u] = threadResult[u] /\ i'[u] = i[u]
      /\ i'[t] = n + 1
  BY <1>1, <1>5 DEF Places
<1>7. Places'
  <2>1. \A row \in RowIds: Prod(shape, worker, t, row, n) \in Product
    BY <1>1, <1>4, ProdType DEF Places
  <2>2. [row \in RowIds |-> threadResult[t][row] \cup {Prod(shape, worker, t, row, n)}]
          \in [RowIds -> SUBSET Product]
    <3>1. \A row \in RowIds: threadResult[t][row] \in SUBSET Product BY <1>1 DEF Places
    <3> QED BY <2>1, <3>1
  <2>3. threadResult' \in [Threads(shape) -> [RowIds -> SUBSET Product]]
    BY <1>1, <1>5, <2>2 DEF Places
  <2>4. i' \in [Threads(shape) -> Nat]
    BY <1>1 DEF Places
  <2> QED BY <1>1, <2>3, <2>4 DEF Places
<1>8. Idle'
  BY <1>1, <1>2 DEF Idle
<1>9. \A u \in Threads(shape'): Multiplied(u)'
  <2> SUFFICES ASSUME NEW u \in Threads(shape) PROVE Multiplied(u)'
    BY <1>1
  <2>1. CASE u # t
    BY <1>1, <1>6, <2>1 DEF Multiplied
  <2>2. CASE u = t
    <3>1. i'[t] \in StartRot(shape, worker, t) .. EndRot(shape, worker, t)
      BY <1>4, <1>6
    <3>2. ASSUME NEW row \in RowIds
          PROVE  threadResult'[t][row] = ProdsTo(shape, worker, t, row, i'[t])
      <4>1. threadResult[t][row] = ProdsTo(shape, worker, t, row, n)
        BY <1>1 DEF Multiplied
      <4>2. StartRot(shape, worker, t) .. i'[t] - 1
              = (StartRot(shape, worker, t) .. n - 1) \cup {n}
        BY <1>4, <1>6
      <4>3. ProdsTo(shape, worker, t, row, i'[t])
              = ProdsTo(shape, worker, t, row, n) \cup {Prod(shape, worker, t, row, n)}
        BY <4>2 DEF ProdsTo
      <4> QED BY <1>6, <4>1, <4>3
    <3> QED BY <1>1, <2>2, <3>1, <3>2 DEF Multiplied
  <2> QED BY <2>1, <2>2
<1>10. \A u \in Threads(shape'): SummedRows(u)'
  <2> SUFFICES ASSUME NEW u \in Threads(shape) PROVE SummedRows(u)'
    BY <1>1
  <2>1. pc[u] \notin {"sum", "done"}
    BY <1>1 DEF SummedRows
  <2> QED BY <1>1, <2>1 DEF SummedRows
<1>11. Finished'
  BY <1>1 DEF Finished
<1> QED BY <1>7, <1>8, <1>9, <1>10, <1>11

\* At the barrier the rows of a thread are complete.
LEMMA ReachBarrierInv ==
  ASSUME NEW t \in Threads(shape), IInv, ReachBarrier(t)
  PROVE  IInv'
<1> USE DEF IInv, ReachBarrier
<1>1. /\ Places /\ shape' = shape /\ worker' = worker /\ pc[t] = "multiply"
      /\ pc' = [pc EXCEPT ![t] = "barrier"] /\ i' = i /\ threadResult' = threadResult
      /\ finalResult' = finalResult /\ group' = group /\ main' = main /\ queries' = queries
  OBVIOUS
<1>2. pc'[t] = "barrier" /\ \A u \in Threads(shape) \ {t}: pc'[u] = pc[u]
  BY <1>1 DEF Places
<1>3. Places' BY <1>1 DEF Places
<1>4. Idle' BY <1>1, <1>2 DEF Idle
<1>5. \A u \in Threads(shape'): Multiplied(u)'
  <2> SUFFICES ASSUME NEW u \in Threads(shape) PROVE Multiplied(u)'
    BY <1>1
  <2>1. CASE u # t BY <1>1, <1>2, <2>1 DEF Multiplied
  <2>2. CASE u = t
    <3>1. i[t] = EndRot(shape, worker, t)
      <4>1. StartRot(shape, worker, t) \in Nat /\ EndRot(shape, worker, t) \in Nat
        BY <1>1, ThreadWork DEF Places
      <4>2. i[t] \in StartRot(shape, worker, t) .. EndRot(shape, worker, t)
        BY <1>1 DEF Multiplied
      <4> QED BY <4>1, <4>2
    <3>2. \A row \in RowIds: threadResult[t][row] = ThreadProds(shape, worker, t, row)
      BY <1>1, <3>1 DEF Multiplied, ThreadProds
    <3> QED BY <1>1, <1>2, <2>2, <3>2 DEF Multiplied
  <2> QED BY <2>1, <2>2
<1>6. \A u \in Threads(shape'): SummedRows(u)'
  <2> SUFFICES ASSUME NEW u \in Threads(shape) PROVE SummedRows(u)'
    BY <1>1
  <2>1. pc[u] \notin {"sum", "done"}
    BY <1>1 DEF SummedRows
  <2>2. pc'[u] \notin {"sum", "done"}
    BY <1>2, <2>1
  <2> QED BY <2>2 DEF SummedRows
<1>7. Finished' BY <1>1 DEF Finished
<1> QED BY <1>3, <1>4, <1>5, <1>6, <1>7

\* Behind the barrier all have multiplied.
LEMMA PassBarrierInv ==
  ASSUME NEW t \in Threads(shape), IInv, PassBarrier(t)
  PROVE  IInv'
<1> USE DEF IInv, PassBarrier
<1>1. /\ Places /\ shape' = shape /\ worker' = worker /\ pc[t] = "barrier" /\ BarrierOpen
      /\ pc' = [pc EXCEPT ![t] = IF t >= Rows THEN "done" ELSE "sum"]
      /\ i' = [i EXCEPT ![t] = StartResp(t)] /\ threadResult' = threadResult
      /\ finalResult' = finalResult /\ group' = group /\ main' = main /\ queries' = queries
  OBVIOUS
<1>2. /\ pc'[t] = IF t >= Rows THEN "done" ELSE "sum"
      /\ i'[t] = StartResp(t)
      /\ \A u \in Threads(shape) \ {t}: pc'[u] = pc[u] /\ i'[u] = i[u]
  BY <1>1 DEF Places
<1>3. /\ StartResp(t) \in Nat /\ EndResp(t) \in Nat
      /\ t < Rows => StartResp(t) < EndResp(t)
      /\ t >= Rows => StartResp(t) = EndResp(t)
  BY <1>1, ThreadRows DEF Places
<1>4. \A u \in Threads(shape): StartResp(u)' = StartResp(u) /\ EndResp(u)' = EndResp(u)
  BY <1>1 DEF StartResp, EndResp
<1>5. \A row: Summed(row)' <=> Summed(row)
  BY <1>1 DEF Summed
<1>6. Places' BY <1>1, <1>3 DEF Places
<1>7. Idle' BY <1>1, <1>2 DEF Idle
<1>8. \A u \in Threads(shape'): Multiplied(u)'
  BY <1>1, <1>2 DEF Multiplied
<1>9. \A u \in Threads(shape): pc'[u] # "multiply"
  BY <1>1, <1>2 DEF BarrierOpen
<1>10. \A u \in Threads(shape'): SummedRows(u)'
  <2> SUFFICES ASSUME NEW u \in Threads(shape) PROVE SummedRows(u)'
    BY <1>1
  <2>1. CASE u # t
    BY <1>1, <1>2, <1>4, <1>5, <1>9, <2>1 DEF SummedRows
  <2>2. CASE u = t
    <3>1. t \in Nat /\ Rows \in Nat BY <1>1, ShapeSizes, SizesAssumption DEF Threads, Places
    <3>2. CASE t >= Rows
      <4>1. pc'[t] = "done" /\ StartResp(t) .. EndResp(t) - 1 = {}
        BY <1>2, <1>3, <3>2
      <4> QED BY <1>1, <1>4, <1>9, <2>2, <4>1 DEF SummedRows
    <3>3. CASE t < Rows
      <4>1. pc'[t] = "sum" /\ i'[t] \in StartResp(t) .. EndResp(t) - 1
        BY <1>2, <1>3, <3>1, <3>3
      <4>2. StartResp(t) .. i'[t] - 1 = {}
        BY <1>2, <1>3
      <4> QED BY <1>1, <1>4, <1>9, <2>2, <4>1, <4>2 DEF SummedRows
    <3> QED BY <3>1, <3>2, <3>3
  <2> QED BY <2>1, <2>2
<1>11. Finished' BY <1>1 DEF Finished
<1> QED BY <1>6, <1>7, <1>8, <1>10, <1>11

\* One more row of thread t is the sum over all threads.
LEMMA SumRowInv ==
  ASSUME NEW t \in Threads(shape), IInv, SumRow(t)
  PROVE  IInv'
<1> USE DEF IInv, SumRow
<1>0. PICK n: n = i[t]
  OBVIOUS
<1>1. /\ Places /\ shape' = shape /\ worker' = worker /\ pc[t] = "sum"
      /\ finalResult' = [finalResult EXCEPT ![n] = UNION {threadResult[u][n] : u \in Threads(shape)}]
      /\ i' = [i EXCEPT ![t] = n + 1]
      /\ pc' = [pc EXCEPT ![t] = IF n + 1 < EndResp(t) THEN "sum" ELSE "done"]
      /\ threadResult' = threadResult /\ group' = group /\ main' = main /\ queries' = queries
  BY <1>0
<1>2. /\ pc'[t] = IF n + 1 < EndResp(t) THEN "sum" ELSE "done"
      /\ i'[t] = n + 1
      /\ \A u \in Threads(shape) \ {t}: pc'[u] = pc[u] /\ i'[u] = i[u]
  BY <1>1 DEF Places
<1>3. /\ StartResp(t) \in Nat /\ EndResp(t) \in Nat
      /\ n \in StartResp(t) .. EndResp(t) - 1
      /\ \A row \in StartResp(t) .. n - 1: Summed(row)
  <2>1. StartResp(t) \in Nat /\ EndResp(t) \in Nat BY <1>1, ThreadRows DEF Places
  <2>2. SummedRows(t) BY <1>1
  <2> QED BY <1>0, <1>1, <2>1, <2>2 DEF SummedRows
<1>4. n \in RowIds
  BY <1>1, <1>3, ThreadRows DEF Places
<1>5. Summed(n)' /\ \A row \in RowIds: Summed(row) => Summed(row)'
  BY <1>1, <1>4 DEF Summed, Places
<1>6. \A u \in Threads(shape): StartResp(u)' = StartResp(u) /\ EndResp(u)' = EndResp(u)
  BY <1>1 DEF StartResp, EndResp
<1>7. Places'
  <2>1. UNION {threadResult[u][n] : u \in Threads(shape)} \in SUBSET Product
    BY <1>1, <1>4 DEF Places
  <2>2. finalResult' \in [RowIds -> SUBSET Product]
    BY <1>1, <1>4, <2>1 DEF Places
  <2>3. i' \in [Threads(shape) -> Nat]
    BY <1>1, <1>3 DEF Places
  <2> QED BY <1>1, <2>2, <2>3 DEF Places
<1>8. main = "join"
  BY <1>1 DEF Idle, Places
<1>9. Idle'
  BY <1>1, <1>2, <1>8 DEF Idle
<1>10. \A u \in Threads(shape'): Multiplied(u)'
  BY <1>1, <1>2 DEF Multiplied
<1>11. \A u \in Threads(shape): pc'[u] # "multiply"
  BY <1>1, <1>2 DEF SummedRows
<1>12. \A u \in Threads(shape'): SummedRows(u)'
  <2> SUFFICES ASSUME NEW u \in Threads(shape) PROVE SummedRows(u)'
    BY <1>1
  <2>1. StartResp(u) \in Nat /\ EndResp(u) \in Nat
        /\ StartResp(u) .. EndResp(u) - 1 \subseteq RowIds
    BY <1>1, ThreadRows DEF Places
  <2>2. CASE u # t
    <3>1. CASE pc[u] = "sum"
      <4>1. i[u] \in StartResp(u) .. EndResp(u) - 1 /\ \A row \in StartResp(u) .. i[u] - 1: Summed(row)
        BY <3>1 DEF SummedRows
      <4>2. StartResp(u) .. i[u] - 1 \subseteq RowIds
        <5>1. StartResp(u) .. i[u] - 1 \subseteq StartResp(u) .. EndResp(u) - 1 BY <2>1, <4>1
        <5> QED BY <2>1, <5>1
      <4> QED BY <1>1, <1>2, <1>5, <1>6, <1>11, <2>2, <3>1, <4>1, <4>2 DEF SummedRows
    <3>2. CASE pc[u] = "done"
      <4>1. \A row \in StartResp(u) .. EndResp(u) - 1: Summed(row)
        BY <3>2 DEF SummedRows
      <4> QED BY <1>1, <1>2, <1>5, <1>6, <1>11, <2>1, <2>2, <3>2, <4>1 DEF SummedRows
    <3>3. CASE pc[u] \notin {"sum", "done"}
      BY <1>2, <2>2, <3>3 DEF SummedRows
    <3> QED BY <3>1, <3>2, <3>3
  <2>3. CASE u = t
    <3>1. ASSUME NEW row \in StartResp(t) .. n PROVE Summed(row)'
      <4>1. row \in RowIds BY <1>3, <2>1, <2>3
      <4>2. CASE row = n BY <1>5, <4>2
      <4>3. CASE row # n
        <5>1. row \in StartResp(t) .. n - 1 BY <1>3, <4>3
        <5> QED BY <1>3, <1>5, <4>1, <5>1
      <4> QED BY <4>2, <4>3
    <3>2. CASE n + 1 < EndResp(t)
      <4>1. pc'[t] = "sum" /\ i'[t] \in StartResp(t) .. EndResp(t) - 1 /\ i'[t] - 1 = n
        BY <1>2, <1>3, <3>2
      <4> QED BY <1>1, <1>6, <1>11, <2>3, <3>1, <4>1 DEF SummedRows
    <3>3. CASE ~ (n + 1 < EndResp(t))
      <4>1. pc'[t] = "done" /\ EndResp(t) - 1 = n
        BY <1>2, <1>3, <3>3
      <4> QED BY <1>1, <1>6, <1>11, <2>3, <3>1, <4>1 DEF SummedRows
    <3> QED BY <3>2, <3>3
  <2> QED BY <2>2, <2>3
<1>13. Finished' BY <1>1 DEF Finished
<1> QED BY <1>7, <1>9, <1>10, <1>12, <1>13

\* The products of one more worker are in the rows of the group.
LEMMA JoinThreadsInv ==
  IInv /\ JoinThreads => IInv'
<1> SUFFICES ASSUME IInv, JoinThreads PROVE IInv'
  OBVIOUS
<1> USE DEF IInv, JoinThreads
<1>1. /\ Places /\ shape' = shape /\ main = "join" /\ \A t \in Threads(shape): pc[t] = "done"
      /\ group' = [row \in RowIds |-> group[row] \cup finalResult[row]]
      /\ threadResult' = [t \in Threads(shape) |-> NoRows] /\ finalResult' = NoRows
      /\ pc' = [t \in Threads(shape) |-> "none"] /\ queries' = queries /\ i' = i
  OBVIOUS
<1>2. \/ worker + 1 < shape.workers /\ worker' = worker + 1 /\ main' = "wait"
      \/ ~ (worker + 1 < shape.workers) /\ worker' = worker /\ main' = "done"
  OBVIOUS
<1>3. worker \in Nat /\ worker < shape.workers /\ shape.workers \in Nat
  BY <1>1, ShapeSizes DEF Places, Workers
<1>4. \A row \in RowIds: finalResult[row] = WorkerProds(shape, worker, row)
  <2> TAKE row \in RowIds
  <2>1. PICK t \in Threads(shape): row \in StartResp(t) .. EndResp(t) - 1
    BY <1>1, ThreadRows DEF Places
  <2>2. Summed(row)
    BY <1>1, <2>1 DEF SummedRows
  <2>3. \A u \in Threads(shape): threadResult[u][row] = ThreadProds(shape, worker, u, row)
    BY <1>1 DEF Multiplied
  <2> QED BY <2>2, <2>3 DEF Summed, WorkerProds
<1>5. \A row \in RowIds: group'[row] = GroupProds(shape, worker + 1, row)
  <2> TAKE row \in RowIds
  <2>1. group[row] = GroupProds(shape, worker, row)
    BY <1>1 DEF Finished
  <2>2. 0 .. (worker + 1) - 1 = (0 .. worker - 1) \cup {worker}
    BY <1>3
  <2>3. GroupProds(shape, worker + 1, row)
          = GroupProds(shape, worker, row) \cup WorkerProds(shape, worker, row)
    BY <2>2 DEF GroupProds
  <2> QED BY <1>1, <1>4, <2>1, <2>3
<1>6. NoRows \in [RowIds -> SUBSET Product] BY DEF NoRows
<1>7. worker' \in Workers(shape) /\ main' \in {"wait", "done"}
  BY <1>2, <1>3 DEF Workers
<1>8. Places'
  <2>1. group' \in [RowIds -> SUBSET Product]
    BY <1>1 DEF Places
  <2> QED BY <1>1, <1>6, <1>7, <2>1 DEF Places
<1>9. Idle'
  BY <1>1, <1>7 DEF Idle
<1>10. \A t \in Threads(shape'): Multiplied(t)' /\ SummedRows(t)'
  BY <1>1 DEF Multiplied, SummedRows
<1>11. Finished'
  <2>1. CASE worker + 1 < shape.workers
    BY <1>1, <1>2, <1>5, <2>1 DEF Finished
  <2>2. CASE ~ (worker + 1 < shape.workers)
    <3>1. worker' = worker /\ main' = "done" /\ worker + 1 = shape.workers
      BY <1>2, <1>3, <2>2
    <3> QED BY <1>1, <1>5, <3>1 DEF Finished
  <2> QED BY <2>1, <2>2
<1> QED BY <1>8, <1>9, <1>10, <1>11

\* A step that changes nothing.
LEMMA StutterInv ==
  IInv /\ UNCHANGED vars => IInv'
BY DEF IInv, vars, threadVars, Places, Idle, Multiplied, SummedRows, Finished, Summed,
       StartResp, EndResp

THEOREM InvHolds ==
  Spec => []IInv
<1>1. Init => IInv BY InitInv
<1>2. IInv /\ [Next]_vars => IInv'
  <2> SUFFICES ASSUME IInv, [Next]_vars PROVE IInv'
    OBVIOUS
  <2>1. CASE StartThreads BY <2>1, StartThreadsInv
  <2>2. ASSUME NEW t \in Threads(shape), Thread(t) PROVE IInv'
    BY <2>2, MultiplyInv, ReachBarrierInv, PassBarrierInv, SumRowInv DEF Thread
  <2>3. CASE JoinThreads BY <2>3, JoinThreadsInv
  <2>4. CASE UNCHANGED vars BY <2>4, StutterInv
  <2> QED BY <2>1, <2>2, <2>3, <2>4 DEF Next
<1> QED BY <1>1, <1>2, PTL DEF Spec

-----------------------------------------------------------------------------
\* A product of the first workers is some thread's work.
LEMMA GroupMembers ==
  ASSUME shape \in Shapes, NEW row \in RowIds, NEW p
  PROVE  p \in GroupProds(shape, shape.workers, row) <=>
           \E w \in Workers(shape), t \in Threads(shape):
             \E x \in StartRot(shape, w, t) .. EndRot(shape, w, t) - 1:
               p = Prod(shape, w, t, row, x)
BY DEF GroupProds, WorkerProds, ThreadProds, ProdsTo, Workers

\* What a product says about itself is what the thread does.
LEMMA ProdDoes ==
  ASSUME NEW s, NEW w \in Workers(s), NEW t \in Threads(s), NEW row,
         NEW x \in StartRot(s, w, t) .. EndRot(s, w, t) - 1,
         NEW p, p = Prod(s, w, t, row, x)
  PROVE  /\ Does(s, w, t, p.query, p.half, p.rot)
         /\ p.worker = w /\ p.thread = t /\ p.rot = x
BY DEF Does, Prod

\* The invariant gives the whole product.
LEMMA InvWhole ==
  IInv => ProductWhole
<1> SUFFICES ASSUME IInv, main = "done", NEW row \in RowIds
             PROVE  /\ {<<p.query, p.half, p.rot>> : p \in group[row]} =
                         (0 .. QueryCt(shape) - 1) \X {0, 1} \X (0 .. HalfN - 1)
                    /\ \A p, q \in group[row]:
                         (p.query = q.query /\ p.half = q.half /\ p.rot = q.rot) => p = q
  BY DEF ProductWhole
<1>1. shape \in Shapes BY DEF IInv, Places
<1>2. group[row] = GroupProds(shape, shape.workers, row) BY DEF IInv, Finished
<1>3. ASSUME NEW p \in group[row]
      PROVE  \E w \in Workers(shape), t \in Threads(shape):
               \E x \in StartRot(shape, w, t) .. EndRot(shape, w, t) - 1:
                 p = Prod(shape, w, t, row, x)
  BY <1>1, <1>2, GroupMembers
<1>4. ASSUME NEW p \in group[row]
      PROVE  /\ p.query \in 0 .. QueryCt(shape) - 1
             /\ p.half \in {0, 1} /\ p.rot \in 0 .. HalfN - 1
  <2>1. PICK w \in Workers(shape), t \in Threads(shape):
         \E x \in StartRot(shape, w, t) .. EndRot(shape, w, t) - 1:
           p = Prod(shape, w, t, row, x)
    BY <1>3
  <2>2. PICK x \in StartRot(shape, w, t) .. EndRot(shape, w, t) - 1:
         p = Prod(shape, w, t, row, x)
    BY <2>1
  <2>3. Does(shape, w, t, p.query, p.half, p.rot) BY <2>2, ProdDoes
  <2> QED BY <1>1, <2>3, WorkWithin
<1>5. ASSUME NEW q \in 0 .. QueryCt(shape) - 1, NEW h \in {0, 1}, NEW x \in 0 .. HalfN - 1
      PROVE  \E p \in group[row]: p.query = q /\ p.half = h /\ p.rot = x
  <2>1. PICK w \in Workers(shape), t \in Threads(shape): Does(shape, w, t, q, h, x)
    BY <1>1, WorkDone
  <2>2. x \in StartRot(shape, w, t) .. EndRot(shape, w, t) - 1
    BY <2>1 DEF Does
  <2>3. Prod(shape, w, t, row, x) \in group[row]
    BY <1>1, <1>2, <2>2, GroupMembers
  <2>4. /\ Prod(shape, w, t, row, x).query = q /\ Prod(shape, w, t, row, x).half = h
        /\ Prod(shape, w, t, row, x).rot = x
    BY <2>1 DEF Does, Prod
  <2> QED BY <2>3, <2>4
<1>6. ASSUME NEW p \in group[row], NEW q \in group[row],
             p.query = q.query, p.half = q.half, p.rot = q.rot
      PROVE  p = q
  <2>1. PICK w \in Workers(shape), t \in Threads(shape):
         \E x \in StartRot(shape, w, t) .. EndRot(shape, w, t) - 1:
           p = Prod(shape, w, t, row, x)
    BY <1>3
  <2>2. PICK x \in StartRot(shape, w, t) .. EndRot(shape, w, t) - 1:
         p = Prod(shape, w, t, row, x)
    BY <2>1
  <2>3. PICK v \in Workers(shape), u \in Threads(shape):
         \E y \in StartRot(shape, v, u) .. EndRot(shape, v, u) - 1:
           q = Prod(shape, v, u, row, y)
    BY <1>3
  <2>4. PICK y \in StartRot(shape, v, u) .. EndRot(shape, v, u) - 1:
         q = Prod(shape, v, u, row, y)
    BY <2>3
  <2>5. Does(shape, w, t, p.query, p.half, p.rot) /\ p.rot = x
    BY <2>2, ProdDoes
  <2>6. Does(shape, v, u, p.query, p.half, p.rot) /\ p.rot = y
    <3>1. Does(shape, v, u, q.query, q.half, q.rot) /\ q.rot = y BY <2>4, ProdDoes
    <3> QED BY <1>6, <3>1
  <2>7. w = v /\ t = u
    BY <1>1, <2>5, <2>6, WorkOnce
  <2> QED BY <2>2, <2>4, <2>5, <2>6, <2>7
<1>7. {<<p.query, p.half, p.rot>> : p \in group[row]} =
        (0 .. QueryCt(shape) - 1) \X {0, 1} \X (0 .. HalfN - 1)
  <2>1. ASSUME NEW p \in group[row]
        PROVE  <<p.query, p.half, p.rot>>
                 \in (0 .. QueryCt(shape) - 1) \X {0, 1} \X (0 .. HalfN - 1)
    BY <1>4
  <2>2. ASSUME NEW e \in (0 .. QueryCt(shape) - 1) \X {0, 1} \X (0 .. HalfN - 1)
        PROVE  \E p \in group[row]: e = <<p.query, p.half, p.rot>>
    <3>1. PICK q \in 0 .. QueryCt(shape) - 1, h \in {0, 1}, x \in 0 .. HalfN - 1:
            e = <<q, h, x>>
      OBVIOUS
    <3>2. PICK p \in group[row]: p.query = q /\ p.half = h /\ p.rot = x
      BY <1>5
    <3> QED BY <3>1, <3>2
  <2> QED BY <2>1, <2>2
<1> QED BY <1>6, <1>7

\* Types hold for every shape.
THEOREM TypeCorrect ==
  Spec => []TypeOK
<1>1. IInv => TypeOK
  <2> SUFFICES ASSUME IInv PROVE TypeOK
    OBVIOUS
  <2>1. ASSUME NEW t \in Threads(shape), pc[t] = "sum" PROVE i[t] \in RowIds
    <3>1. shape \in Shapes BY DEF IInv, Places
    <3>2. i[t] \in StartResp(t) .. EndResp(t) - 1 BY <2>1 DEF IInv, SummedRows
    <3>3. StartResp(t) .. EndResp(t) - 1 \subseteq RowIds BY <3>1, ThreadRows
    <3> QED BY <3>2, <3>3
  <2> QED BY <2>1 DEF IInv, Places, TypeOK
<1> QED BY <1>1, InvHolds, PTL

\* mult_barrier is enough: no thread sums before all have multiplied, and no row changes
\* behind a sum.
THEOREM BarrierSuffices ==
  Spec => []SumsSettled
<1>1. IInv => SumsSettled
  BY DEF IInv, SummedRows, Summed, SumsSettled
<1> QED BY <1>1, InvHolds, PTL

\* In reach of every plaintext index: the database as main has sized it, and the part
\* of it for the row, and in merge for the query and the half.
THEOREM PlaintextsInPlace ==
  Spec => []PlaintextFits
<1>1. IInv => PlaintextFits
  <2> SUFFICES ASSUME IInv, NEW t \in Threads(shape), NEW row \in RowIds,
                      NEW p \in threadResult[t][row]
               PROVE  /\ p.plain < DbElements(shape, worker)
                      /\ IF IsMerge(shape)
                         THEN \E q \in 0 .. shape.factor - 1, x \in 0 .. HalfN - 1:
                                /\ p.plain = (q * Rows + row) * N + p.half * HalfN + x
                                /\ queries[q] = p.query
                         ELSE p.plain \in row * (N \div shape.factor)
                                            .. (row + 1) * (N \div shape.factor) - 1
    BY DEF PlaintextFits
  <2>1. shape \in Shapes /\ worker \in Workers(shape) /\ main \in {"wait", "join", "done"}
        /\ pc[t] \in {"none", "multiply", "barrier", "sum", "done"}
    BY DEF IInv, Places
  <2>2. pc[t] # "none" /\ queries = WorkerQueries(shape, worker)
    <3>1. CASE main = "join" BY <3>1 DEF IInv, Idle
    <3>2. CASE main # "join"
      <4>1. threadResult[t] = NoRows BY <3>2 DEF IInv, Idle
      <4> QED BY <4>1 DEF NoRows
    <3> QED BY <3>1, <3>2
  <2>3. StartRot(shape, worker, t) \in Nat /\ EndRot(shape, worker, t) \in Nat
    BY <2>1, ThreadWork
  <2>4. PICK x \in StartRot(shape, worker, t) .. EndRot(shape, worker, t) - 1:
          p = Prod(shape, worker, t, row, x)
    <3>1. CASE pc[t] = "multiply"
      <4>1. /\ threadResult[t][row] = ProdsTo(shape, worker, t, row, i[t])
            /\ i[t] \in StartRot(shape, worker, t) .. EndRot(shape, worker, t)
        BY <3>1 DEF IInv, Multiplied
      <4>2. PICK x \in StartRot(shape, worker, t) .. i[t] - 1: p = Prod(shape, worker, t, row, x)
        BY <4>1 DEF ProdsTo
      <4>3. x \in StartRot(shape, worker, t) .. EndRot(shape, worker, t) - 1
        BY <2>3, <4>1, <4>2
      <4> QED BY <4>2, <4>3
    <3>2. CASE pc[t] # "multiply"
      <4>1. threadResult[t][row] = ThreadProds(shape, worker, t, row)
        BY <2>1, <2>2, <3>2 DEF IInv, Multiplied
      <4> QED BY <4>1 DEF ThreadProds, ProdsTo
    <3> QED BY <3>1, <3>2
  <2>5. /\ p.plain = DbIndex(shape, worker, t, row, x) /\ p.half = Half(shape, worker, t)
        /\ p.query = queries[QueryIdx(shape, t)]
    BY <2>2, <2>4 DEF Prod
  <2>6. CASE IsMerge(shape)
    <3>1. /\ QueryIdx(shape, t) \in 0 .. shape.factor - 1
          /\ DbIndex(shape, worker, t, row, x) < DbElements(shape, worker)
          /\ \E y \in 0 .. HalfN - 1:
               DbIndex(shape, worker, t, row, x)
                 = (QueryIdx(shape, t) * Rows + row) * N + Half(shape, worker, t) * HalfN + y
      BY <2>1, <2>6, MergePlain DEF RowIds
    <3> QED BY <2>5, <2>6, <3>1
  <2>7. CASE ~ IsMerge(shape)
    BY <2>1, <2>5, <2>7, SplitPlain DEF RowIds
  <2> QED BY <2>6, <2>7
<1> QED BY <1>1, InvHolds, PTL

\* Every rotation of each half of each query counts once in every row, however many
\* workers and threads there are.
THEOREM WholeProduct ==
  Spec => []ProductWhole
BY InvWhole, InvHolds, PTL
=============================================================================
