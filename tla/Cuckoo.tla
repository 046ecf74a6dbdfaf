-------------------------------- MODULE Cuckoo --------------------------------
(***************************************************************************)
(* How the client of step2 turns a batch of keys into one index per        *)
(* bucket: encode puts every item into D buckets, get_schedule places the  *)
(* keys into distinct buckets by cuckoo insertion, and getIndices looks up *)
(* where in its bucket each key stands.                                    *)
(*                                                                         *)
(* The hash function is a table that gives every item a sequence of        *)
(* distinct buckets; hash_and_mod retries with a nonce until they are.     *)
(***************************************************************************)
EXTENDS Integers, FiniteSets, Functions

CONSTANTS NumItems,    \* number_of_items
          K,           \* k, the size of a batch
          NumBuckets,  \* total_buckets = ceil(k * r)
          D,           \* d, the buckets of an item
          MaxAttempts, \* MAX_ATTEMSTS
          HashTables   \* the tables the hash function may give

ASSUME SizesAssumption == /\ NumItems \in Nat \ {0} /\ K \in Nat \ {0}
                          /\ NumBuckets \in Nat /\ D \in 1 .. NumBuckets
                          /\ MaxAttempts \in Nat

Items == 0 .. NumItems - 1
Buckets == 0 .. NumBuckets - 1
None == -1

ASSUME HashAssumption ==
  \A table \in HashTables:
    /\ table \in [Items -> [1 .. D -> Buckets]]
    /\ \A x \in Items: \A a, b \in 1 .. D: table[x][a] = table[x][b] => a = b

VARIABLES
  choices,   \* buckets: the D buckets of every item
  keys,      \* keys, drawn with repetition
  pc,        \* program counter
  taken,     \* how many keys get_schedule has taken
  hand,      \* the key insert is called for, or None
  attempt,   \* attempt
  elements,  \* elements: the key placed in each bucket, or None
  schedule,  \* schedule: the bucket of each key that has one
  looked,    \* the keys getIndices has been through
  indexes,   \* its map indexes, by key or by bucket, or None
  indVec     \* ind_vec

tableVars == <<choices, keys>>
insertVars == <<taken, hand, attempt, elements>>
indexVars == <<schedule, looked, indexes, indVec>>
vars == <<tableVars, pc, insertVars, indexVars>>

InBucket(b) == {x \in Items: b \in Range(choices[x])}
Size(b) == Cardinality(InBucket(b))

\* Where x stands in bucket b: encode goes through the items in their order.
Position(x, b) == Cardinality({y \in InBucket(b): y < x})

Init ==
  /\ choices \in HashTables
  /\ keys \in [1 .. K -> Items]
  /\ pc = "insert"
  /\ taken = 0 /\ hand = None /\ attempt = 0
  /\ elements = [b \in Buckets |-> None]
  /\ schedule = << >> /\ looked = {}
  /\ indexes = [n \in Items \cup Buckets |-> None]
  /\ indVec = << >>

\* The next key: insert is called with attempt 0.
TakeKey ==
  /\ pc = "insert" /\ hand = None
  /\ taken < K
  /\ taken' = taken + 1
  /\ hand' = keys[taken']
  /\ attempt' = 0
  /\ UNCHANGED <<tableVars, pc, elements, indexVars>>

\* Mutant of Free: the bucket of another choice is looked at.
FreeOther(n) == elements[choices[hand][(n % D) + 1]] = None

\* The n-th choice of the key is a bucket without an element.
Free(n) == elements[choices[hand][n]] = None

\* Case 1 of insert: the first empty one of the key's buckets.
InsertFree ==
  /\ pc = "insert" /\ hand # None
  /\ attempt < MaxAttempts
  /\ \E n \in 1 .. D:
       /\ Free(n)
       /\ \A m \in 1 .. n - 1: ~ Free(m)
       /\ elements' = [elements EXCEPT ![choices[hand][n]] = hand]
  /\ hand' = None
  /\ UNCHANGED <<tableVars, pc, taken, attempt, indexVars>>

\* Mutant of Relocate: the new key is not stored.
RelocateDrop ==
  /\ pc = "insert" /\ hand # None
  /\ attempt < MaxAttempts
  /\ \A n \in 1 .. D: ~ Free(n)
  /\ \E n \in 1 .. D: hand' = elements[choices[hand][n]]
  /\ attempt' = attempt + 1
  /\ UNCHANGED <<tableVars, pc, taken, elements, indexVars>>

\* Mutant of Relocate: the attempts are not counted.
RelocateForever ==
  /\ pc = "insert" /\ hand # None
  /\ attempt < MaxAttempts
  /\ \A n \in 1 .. D: ~ Free(n)
  /\ \E n \in 1 .. D:
       /\ elements' = [elements EXCEPT ![choices[hand][n]] = hand]
       /\ hand' = elements[choices[hand][n]]
  /\ UNCHANGED <<tableVars, pc, taken, attempt, indexVars>>

\* Mutant of Relocate: the attempts are counted by the caller and by the callee.
RelocateCountTwice ==
  /\ pc = "insert" /\ hand # None
  /\ attempt < MaxAttempts
  /\ \A n \in 1 .. D: ~ Free(n)
  /\ \E n \in 1 .. D:
       /\ elements' = [elements EXCEPT ![choices[hand][n]] = hand]
       /\ hand' = elements[choices[hand][n]]
  /\ attempt' = attempt + 2
  /\ UNCHANGED <<tableVars, pc, taken, indexVars>>

\* Case 2: put the key into any of its buckets and insert the one it held.
Relocate ==
  /\ pc = "insert" /\ hand # None
  /\ attempt < MaxAttempts
  /\ \A n \in 1 .. D: ~ Free(n)
  /\ \E n \in 1 .. D:
       /\ elements' = [elements EXCEPT ![choices[hand][n]] = hand]
       /\ hand' = elements[choices[hand][n]]
  /\ attempt' = attempt + 1
  /\ UNCHANGED <<tableVars, pc, taken, indexVars>>

\* Too many attempts: the empty schedule, on which the client's main returns -1.
GiveUp ==
  /\ pc = "insert" /\ hand # None
  /\ attempt >= MaxAttempts
  /\ pc' = "null"
  /\ UNCHANGED <<tableVars, insertVars, indexVars>>

Placed == {elements[b] : b \in Buckets} \ {None}

\* Every key is in: for one that was drawn twice, the bucket that the map happens to
\* go through first.
Schedule ==
  /\ pc = "insert" /\ hand = None
  /\ taken = K
  /\ schedule' \in {s \in [Placed -> Buckets]: \A x \in Placed: elements[s[x]] = x}
  /\ pc' = "index"
  /\ UNCHANGED <<tableVars, insertVars, looked, indexes, indVec>>

\* Mutant of LookUp: the position is one too far, as if the count were not stopped.
LookUpFar ==
  /\ pc = "index"
  /\ \E x \in DOMAIN schedule \ looked:
       /\ indexes' = [indexes EXCEPT ![schedule[x]] = Position(x, schedule[x]) + 1]
       /\ looked' = looked \cup {x}
  /\ UNCHANGED <<tableVars, pc, insertVars, schedule, indVec>>

\* One entry of the schedule, in any order: the bucket is stored under the key, and the
\* position under the bucket unless something is stored there.
LookUp ==
  /\ pc = "index"
  /\ \E x \in DOMAIN schedule \ looked:
       LET b == schedule[x]
           noted == [indexes EXCEPT ![x] = b]
       IN /\ indexes' = IF noted[b] = None THEN [noted EXCEPT ![b] = Position(x, b)] ELSE noted
          /\ looked' = looked \cup {x}
  /\ UNCHANGED <<tableVars, pc, insertVars, schedule, indVec>>

\* The index of each bucket: the stored one, or a random one of the bucket (one draw
\* stands for all of them); for an empty bucket rand() % 0 ends the process.
Choose ==
  /\ pc = "index"
  /\ looked = DOMAIN schedule
  /\ IF \E b \in Buckets: indexes[b] = None /\ Size(b) = 0
     THEN pc' = "aborted" /\ UNCHANGED indVec
     ELSE /\ \E drawn \in Items:
               indVec' = [b \in Buckets |-> IF indexes[b] = None THEN drawn % Size(b)
                                            ELSE indexes[b]]
          /\ pc' = "done"
  /\ UNCHANGED <<tableVars, insertVars, schedule, looked, indexes>>

Next == TakeKey \/ InsertFree \/ Relocate \/ GiveUp \/ Schedule \/ LookUp \/ Choose

Spec == Init /\ [][Next]_vars
FairSpec == Spec /\ WF_vars(Next)

-----------------------------------------------------------------------------
\* Every variable holds a value that cuckoo.cpp and client.cpp can give it.
TypeOK ==
  /\ choices \in HashTables
  /\ keys \in [1 .. K -> Items]
  /\ pc \in {"insert", "null", "index", "done", "aborted"}
  /\ taken \in 0 .. K /\ hand \in Items \cup {None} /\ attempt \in 0 .. MaxAttempts
  /\ elements \in [Buckets -> Items \cup {None}]
  /\ looked \subseteq Items
  /\ indexes \in [Items \cup Buckets -> Items \cup Buckets \cup {None}]

\* Whatever is relocated, a key stands only in a bucket that its hashes name: there
\* the workers have put the item.
InOwnBucket ==
  \A b \in Buckets: elements[b] # None => b \in Range(choices[elements[b]])

\* However long the chain of relocations, no key is lost and none is doubled: a key is
\* placed, or in hand, as often as it was drawn so far.
CopiesKept ==
  \A x \in Items:
    Cardinality({b \in Buckets: elements[b] = x}) + (IF hand = x THEN 1 ELSE 0)
      = Cardinality({n \in 1 .. taken: keys[n] = x})

\* Relocations only move keys between their own buckets.
KeysInPlace == InOwnBucket /\ CopiesKept

\* A schedule gives every key of the batch a bucket that holds it, and no two keys
\* the same one.
ScheduleWhole ==
  pc \in {"index", "done"} =>
    /\ DOMAIN schedule = Range(keys)
    /\ \A x \in DOMAIN schedule: schedule[x] \in Range(choices[x])
    /\ \A x, y \in DOMAIN schedule: schedule[x] = schedule[y] => x = y

AskedFor(x) == indVec[schedule[x]] = Position(x, schedule[x])

\* Unless a key is so small that it is also the number of a bucket, every scheduled
\* bucket is asked for its key, and every other one for an item it has.
IndicesRight ==
  (pc = "done" /\ Range(keys) \cap Buckets = {}) =>
    /\ \A x \in DOMAIN schedule: AskedFor(x)
    /\ \A b \in Buckets: indVec[b] \in 0 .. Size(b) - 1

\* A batch is scheduled or given up, however its buckets collide.
ScheduleEnds == <>(pc \in {"null", "done", "aborted"})
=============================================================================
