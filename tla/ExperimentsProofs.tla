--------------------------- MODULE ExperimentsProofs ---------------------------
(***************************************************************************)
(* What the scripts of the figures keep through interruptions, kills and   *)
(* programs that end early or hang, for all data points and any number of  *)
(* stops and faults.                                                       *)
(***************************************************************************)
EXTENDS Experiments, SequenceTheorems, WellFoundedInduction, TLAPS

\* A set of naturals has a least element.
LEMMA LeastNatural ==
  ASSUME NEW S \in SUBSET Nat, S # {}
  PROVE  \E m \in S: \A x \in S: m <= x
<1> DEFINE R == OpToRel(<, Nat)
<1>1. IsWellFoundedOn(R, Nat) BY NatLessThanWellFounded
<1>2. \A x, y \in Nat: x < y => <<x, y>> \in R BY DEF OpToRel
<1> HIDE DEF R
<1>3. PICK m \in S: \A x \in S: ~ (<<x, m>> \in R)
  <2>1. S \subseteq Nat OBVIOUS
  <2> QED BY ONLY <1>1, <2>1, S # {}, WFMin
<1>4. \A x \in S: x \in Nat OBVIOUS
<1>5. \A x \in S: ~ (x < m) BY <1>2, <1>3, <1>4
<1> QED BY <1>4, <1>5

LEMMA PointFacts ==
  /\ Len(Points) \in Nat /\ DOMAIN Points = 1 .. Len(Points)
  /\ \A i \in DOMAIN Points:
       /\ i \in Nat \ {0} /\ i <= Len(Points)
       /\ Points[i].workers \in Nat \ {0}
       /\ Figure(i) \in {5, 6, 9} /\ Figure(i) \in Figures /\ Directory(i) \in Directories
<1>1. /\ Len(Points) \in Nat /\ DOMAIN Points = 1 .. Len(Points)
      /\ \A i \in 1 .. Len(Points):
           Points[i] \in [part: {"coeus", "baseline", "step2", "step3", "split", "merge"},
                          workers: Nat \ {0}]
  BY PointsAssumption, LenProperties, ElementOfSeq
<1>2. \A i \in DOMAIN Points: Points[i].workers \in Nat \ {0} BY <1>1
<1> QED BY <1>1, <1>2 DEF Figure, Figures, Directories

LEMMA PointParts ==
  \A i \in DOMAIN Points: Part(i) \in {"coeus", "baseline", "step2", "step3", "split", "merge"}
<1>1. \A i \in 1 .. Len(Points):
        Points[i] \in [part: {"coeus", "baseline", "step2", "step3", "split", "merge"},
                       workers: Nat \ {0}]
  BY PointsAssumption, ElementOfSeq
<1> QED BY <1>1, PointFacts DEF Part

\* A script begins with the first of its points.
LEMMA FirstIs ==
  ASSUME NEW figure \in Figures
  PROVE  /\ First(figure) \in DOMAIN Points /\ Figure(First(figure)) = figure
         /\ \A j \in DOMAIN Points: Figure(j) = figure => First(figure) <= j
<1> DEFINE S == {i \in DOMAIN Points: Figure(i) = figure}
<1>1. S \in SUBSET Nat /\ S # {} BY PointFacts DEF Figures
<1>2. PICK m \in S: \A x \in S: m <= x
  <2> HIDE DEF S
  <2> QED BY <1>1, LeastNatural
<1>3. m \in DOMAIN Points /\ Figure(m) = figure
      /\ \A j \in DOMAIN Points: Figure(j) = figure => m <= j
  BY <1>2
<1> QED BY <1>3 DEF First

\* s goes through each of the roles R once, if it is two programs and then the workers ws.
TwoThen(n, s, a, b, ws, R) ==
  /\ a # b /\ s[1] = a /\ s[2] = b
  /\ \A w \in 1 .. n: s[w + 2] = ws[w] /\ ws[w] # a /\ ws[w] # b
  /\ \A v, w \in 1 .. n: ws[v] = ws[w] => v = w
  /\ R = {a, b} \cup {ws[w] : w \in 1 .. n}
Once(n, s, R) ==
  /\ \A j \in 1 .. n + 2: s[j] \in R
  /\ \A role \in R: \E j \in 1 .. n + 2: s[j] = role
  /\ \A j, l \in 1 .. n + 2: s[j] = s[l] => j = l
LEMMA TwoThenOnce ==
  ASSUME NEW n \in Nat, NEW s, NEW a, NEW b, NEW ws, NEW R, TwoThen(n, s, a, b, ws, R)
  PROVE  Once(n, s, R)
<1> USE DEF TwoThen, Once
<1>1. \A j \in 1 .. n + 2: \/ j = 1 /\ s[j] = a
                           \/ j = 2 /\ s[j] = b
                           \/ j - 2 \in 1 .. n /\ s[j] = ws[j - 2]
  <2> TAKE j \in 1 .. n + 2
  <2>1. j = 1 \/ j = 2 \/ (j - 2 \in 1 .. n /\ (j - 2) + 2 = j) OBVIOUS
  <2>2. ASSUME j - 2 \in 1 .. n, (j - 2) + 2 = j PROVE s[j] = ws[j - 2]
    <3>1. s[(j - 2) + 2] = ws[j - 2] BY <2>2
    <3> QED BY <2>2, <3>1
  <2> QED BY <2>1, <2>2
<1>2. 1 \in 1 .. n + 2 /\ 2 \in 1 .. n + 2 /\ \A w \in 1 .. n: w + 2 \in 1 .. n + 2
  OBVIOUS
<1>3. \A j \in 1 .. n + 2: s[j] \in {a, b} \cup {ws[w] : w \in 1 .. n} BY <1>1
<1>4. ASSUME NEW j \in 1 .. n + 2, NEW l \in 1 .. n + 2, s[j] = s[l] PROVE j = l
  <2>1. CASE j - 2 \in 1 .. n /\ l - 2 \in 1 .. n /\ s[j] = ws[j - 2] /\ s[l] = ws[l - 2]
    <3>1. j - 2 = l - 2 BY <1>4, <2>1
    <3> QED BY <3>1
  <2> QED BY <1>1, <1>4, <2>1
<1>5. ASSUME NEW role \in {a, b} \cup {ws[w] : w \in 1 .. n}
      PROVE  \E j \in 1 .. n + 2: s[j] = role
  <2>1. CASE role = a BY <1>2, <2>1
  <2>2. CASE role = b BY <1>2, <2>2
  <2>3. ASSUME NEW w \in 1 .. n, role = ws[w] PROVE \E j \in 1 .. n + 2: s[j] = role
    <3>1. w + 2 \in 1 .. n + 2 /\ s[w + 2] = role BY <1>2, <2>3
    <3> QED BY <3>1
  <2> QED BY <2>1, <2>2, <2>3
<1> QED BY <1>3, <1>4, <1>5

\* Every order of the programs of a point goes through each of them once.
Size(i) == Points[i].workers + 2
LEMMA Orders ==
  ASSUME NEW i \in DOMAIN Points
  PROVE  /\ Size(i) \in Nat /\ Size(i) > 2
         /\ Len(StartOrder(i)) = Size(i) /\ Len(ReadOrder(i)) = Size(i)
         /\ Len(WriteOrder(i)) = Size(i)
         /\ \A j \in 1 .. Size(i): /\ StartOrder(i)[j] \in Roles(i)
                                  /\ ReadOrder(i)[j] \in Roles(i)
                                  /\ WriteOrder(i)[j] \in Roles(i)
         /\ \A role \in Roles(i): \E j \in 1 .. Size(i): StartOrder(i)[j] = role
         /\ \A role \in Roles(i): \E j \in 1 .. Size(i): ReadOrder(i)[j] = role
         /\ \A role \in Roles(i): \E j \in 1 .. Size(i): WriteOrder(i)[j] = role
         /\ \A j, l \in 1 .. Size(i): StartOrder(i)[j] = StartOrder(i)[l] => j = l
         /\ \A j, l \in 1 .. Size(i): WriteOrder(i)[j] = WriteOrder(i)[l] => j = l
         /\ WriteOrder(i)[1] = Client /\ Client \in Roles(i)
<1> DEFINE n == Points[i].workers
           R == Roles(i)
           ws == Workers(i)
<1>1. n \in Nat \ {0} BY PointFacts
<1>2. /\ ws \in [1 .. n -> R] /\ \A w \in 1 .. n: ws[w] = <<"worker", w - 1>>
      /\ R = {Client, Master} \cup {ws[w] : w \in 1 .. n}
  <2>1. DOMAIN ws = 1 .. n BY DEF Workers
  <2>2. R = {Client, Master} \cup {ws[w] : w \in 1 .. n} BY <2>1 DEF Roles, ToSet
  <2>3. \A w \in 1 .. n: ws[w] = <<"worker", w - 1>> BY DEF Workers
  <2>4. ws = [w \in 1 .. n |-> ws[w]] BY DEF Workers
  <2> HIDE DEF ws, R, n
  <2> QED BY <2>2, <2>3, <2>4
<1> HIDE DEF ws, R
<1>3. ws \in Seq(R) /\ Len(ws) = n
  <2>1. ws \in Seq(R)
    <3> HIDE DEF n
    <3> QED BY <1>1, <1>2, SeqDef
  <2>2. DOMAIN ws = 1 .. n /\ DOMAIN ws = 1 .. Len(ws) /\ Len(ws) \in Nat
    BY <1>2, <2>1, LenProperties
  <2> HIDE DEF n
  <2> QED BY <1>1, <2>1, <2>2
<1>4. Client \in R /\ Master \in R BY <1>2
<1> DEFINE mc == <<Master, Client>>
           cm == <<Client, Master>>
<1>5. /\ mc \in Seq(R) /\ Len(mc) = 2 /\ mc[1] = Master /\ mc[2] = Client
      /\ cm \in Seq(R) /\ Len(cm) = 2 /\ cm[1] = Client /\ cm[2] = Master
  BY <1>4
<1> HIDE DEF mc, cm, n
<1>6. /\ Len(mc \o ws) = n + 2
      /\ \A j \in 1 .. n + 2: (mc \o ws)[j] = IF j <= 2 THEN mc[j] ELSE ws[j - 2]
  <2>1. /\ Len(mc \o ws) = Len(mc) + Len(ws)
        /\ \A j \in 1 .. Len(mc) + Len(ws): (mc \o ws)[j] =
             IF j <= Len(mc) THEN mc[j] ELSE ws[j - Len(mc)]
    BY ONLY <1>3, <1>5, ConcatProperties
  <2>2. Len(mc) = 2 /\ Len(mc) + Len(ws) = n + 2 BY <1>1, <1>3, <1>5
  <2> QED BY <2>1, <2>2
<1>7. /\ Len(cm \o ws) = n + 2
      /\ \A j \in 1 .. n + 2: (cm \o ws)[j] = IF j <= 2 THEN cm[j] ELSE ws[j - 2]
  <2>1. /\ Len(cm \o ws) = Len(cm) + Len(ws)
        /\ \A j \in 1 .. Len(cm) + Len(ws): (cm \o ws)[j] =
             IF j <= Len(cm) THEN cm[j] ELSE ws[j - Len(cm)]
    BY ONLY <1>3, <1>5, ConcatProperties
  <2>2. Len(cm) = 2 /\ Len(cm) + Len(ws) = n + 2 BY <1>1, <1>3, <1>5
  <2> QED BY <2>1, <2>2
<1>8. /\ Len(ws \o cm) = n + 2
      /\ \A j \in 1 .. n + 2: (ws \o cm)[j] = IF j <= n THEN ws[j] ELSE cm[j - n]
  <2>1. /\ Len(ws \o cm) = Len(ws) + Len(cm)
        /\ \A j \in 1 .. Len(ws) + Len(cm): (ws \o cm)[j] =
             IF j <= Len(ws) THEN ws[j] ELSE cm[j - Len(ws)]
    BY ONLY <1>3, <1>5, ConcatProperties
  <2>2. Len(ws) = n /\ Len(ws) + Len(cm) = n + 2 BY <1>1, <1>3, <1>5
  <2> QED BY <2>1, <2>2
<1>9. Client # Master /\ Master # Client /\ \A w \in 1 .. n: ws[w] # Client /\ ws[w] # Master
  BY <1>2 DEF Client, Master
<1>10. \A v, w \in 1 .. n: ws[v] = ws[w] => v = w BY <1>1, <1>2
<1>11. /\ \A j \in 1 .. n + 2: (mc \o ws)[j] \in R
       /\ \A role \in R: \E j \in 1 .. n + 2: (mc \o ws)[j] = role
       /\ \A j, l \in 1 .. n + 2: (mc \o ws)[j] = (mc \o ws)[l] => j = l
  <2> DEFINE s == mc \o ws
  <2>1. s[1] = Master /\ s[2] = Client /\ \A w \in 1 .. n: s[w + 2] = ws[w]
    BY <1>1, <1>5, <1>6
  <2>2. R = {Master, Client} \cup {ws[w] : w \in 1 .. n} BY <1>2
  <2> HIDE DEF s
  <2>3. n \in Nat /\ \A w \in 1 .. n: s[w + 2] = ws[w] /\ ws[w] # Master /\ ws[w] # Client
    BY <1>1, <1>9, <2>1
  <2>4. TwoThen(n, s, Master, Client, ws, R) BY <1>9, <1>10, <2>1, <2>2, <2>3 DEF TwoThen
  <2>5. Once(n, s, R) BY ONLY <2>3, <2>4, TwoThenOnce
  <2> QED BY <2>1, <2>5 DEF s, Once
<1>12. /\ \A j \in 1 .. n + 2: (cm \o ws)[j] \in R
       /\ \A role \in R: \E j \in 1 .. n + 2: (cm \o ws)[j] = role
       /\ \A j, l \in 1 .. n + 2: (cm \o ws)[j] = (cm \o ws)[l] => j = l
       /\ (cm \o ws)[1] = Client
  <2> DEFINE s == cm \o ws
  <2>1. s[1] = Client /\ s[2] = Master /\ \A w \in 1 .. n: s[w + 2] = ws[w]
    BY <1>1, <1>5, <1>7
  <2>2. R = {Client, Master} \cup {ws[w] : w \in 1 .. n} BY <1>2
  <2> HIDE DEF s
  <2>3. n \in Nat /\ \A w \in 1 .. n: s[w + 2] = ws[w] /\ ws[w] # Client /\ ws[w] # Master
    BY <1>1, <1>9, <2>1
  <2>4. TwoThen(n, s, Client, Master, ws, R) BY <1>9, <1>10, <2>1, <2>2, <2>3 DEF TwoThen
  <2>5. Once(n, s, R) BY ONLY <2>3, <2>4, TwoThenOnce
  <2> QED BY <2>1, <2>5 DEF s, Once
<1>13. /\ \A j \in 1 .. n + 2: (ws \o cm)[j] \in R
       /\ \A role \in R: \E j \in 1 .. n + 2: (ws \o cm)[j] = role
  <2>1. /\ (ws \o cm)[n + 1] = Client /\ (ws \o cm)[n + 2] = Master
        /\ \A w \in 1 .. n: (ws \o cm)[w] = ws[w]
    BY <1>1, <1>5, <1>8
  <2>2. \A j \in 1 .. n + 2: j = n + 1 \/ j = n + 2 \/ j \in 1 .. n BY <1>1
  <2>3. n + 1 \in 1 .. n + 2 /\ n + 2 \in 1 .. n + 2 /\ \A w \in 1 .. n: w \in 1 .. n + 2
    BY <1>1
  <2> QED BY <1>2, <1>4, <2>1, <2>2, <2>3
<1>14. /\ StartOrder(i) = mc \o ws /\ WriteOrder(i) = cm \o ws
       /\ ReadOrder(i) \in {ws \o cm, cm \o ws}
  BY DEF StartOrder, WriteOrder, ReadOrder, mc, cm, ws
<1>15. Size(i) = n + 2 BY DEF Size, n
<1>16. Size(i) \in Nat /\ Size(i) > 2 BY <1>1, <1>15
<1>17. /\ Len(ReadOrder(i)) = n + 2
       /\ \A j \in 1 .. n + 2: ReadOrder(i)[j] \in R
       /\ \A role \in R: \E j \in 1 .. n + 2: ReadOrder(i)[j] = role
  BY <1>7, <1>8, <1>12, <1>13, <1>14
<1>18. R = Roles(i) BY DEF R
<1>19. /\ Len(StartOrder(i)) = Size(i) /\ Len(WriteOrder(i)) = Size(i)
       /\ \A j \in 1 .. Size(i): StartOrder(i)[j] \in Roles(i) /\ WriteOrder(i)[j] \in Roles(i)
  BY <1>6, <1>7, <1>11, <1>12, <1>14, <1>15, <1>18
<1>20. /\ \A role \in Roles(i): \E j \in 1 .. Size(i): StartOrder(i)[j] = role
       /\ \A j, l \in 1 .. Size(i): StartOrder(i)[j] = StartOrder(i)[l] => j = l
  BY <1>11, <1>14, <1>15, <1>18
<1>21. /\ \A role \in Roles(i): \E j \in 1 .. Size(i): WriteOrder(i)[j] = role
       /\ \A j, l \in 1 .. Size(i): WriteOrder(i)[j] = WriteOrder(i)[l] => j = l
       /\ WriteOrder(i)[1] = Client
  BY <1>12, <1>14, <1>15, <1>18
<1>22. /\ Len(ReadOrder(i)) = Size(i)
       /\ \A j \in 1 .. Size(i): ReadOrder(i)[j] \in Roles(i)
       /\ \A role \in Roles(i): \E j \in 1 .. Size(i): ReadOrder(i)[j] = role
  BY <1>15, <1>17, <1>18
<1> HIDE DEF R
<1> QED BY <1>4, <1>16, <1>18, <1>19, <1>20, <1>21, <1>22

-----------------------------------------------------------------------------
Sizes == {"missing", "cut", "short", "whole"}
Files(i) == [Roles(i) -> [size: Sizes, run: Nat]]

\* Where the script is: in which figure, at which of its points.
Place ==
  /\ run \in Nat /\ connected \in Nat
  /\ pc \in {"idle", "killall", "copy", "copying", "point", "put", "start", "read", "write",
             "close"}
  /\ script = 0 <=> pc \in {"idle", "killall"}
  /\ script # 0 => /\ script \in Figures \ {0} /\ script \notin DOMAIN done
                   /\ at \in DOMAIN Points /\ Figure(at) = script
                   /\ pc \in {"copy", "copying"} => at = First(script)

\* The programs on the machines: when the script is gone those it has left behind, all of
\* them under names that kill_all.py knows; else those of the data point that have not ended.
Machines ==
  /\ \A p \in running:
       /\ p.point \in DOMAIN Points /\ p.role \in Roles(p.point)
       /\ p = [run |-> p.run, point |-> p.point, role |-> p.role,
               program |-> Program(p.point, p.role)]
  /\ pc \in {"idle", "copy", "copying", "point", "put", "write", "close"} => running = {}
  /\ pc \in {"start", "read"} =>
       \A p \in running: Heard(p) /\ output[p.role] = "none"

\* The loops over the programs: those from k on are still to be started, the output of
\* those before k has been read, and the files of those before k have been written.
Loops ==
  /\ pc \in {"start", "read", "write", "close"} =>
       /\ k \in 1 .. Size(at)
       /\ output \in [Roles(at) -> {"none", "short", "whole"}]
  /\ pc = "start" =>
       /\ \A j \in k .. Size(at): output[StartOrder(at)[j]] = "none"
       /\ \A p \in running: \E j \in 1 .. k - 1: p.role = StartOrder(at)[j]
  /\ pc = "read" => \A j \in 1 .. k - 1: output[ReadOrder(at)[j]] # "none"
  /\ pc \in {"write", "close"} =>
       /\ \A role \in Roles(at): output[role] # "none"
       /\ \A j \in 1 .. k - 1:
            /\ file[at][WriteOrder(at)[j]].size \in {"short", "whole"}
            /\ file[at][WriteOrder(at)[j]].run = run
  /\ pc = "close" => file[at][WriteOrder(at)[k]].run = run

\* The addresses are those of the connections, once there are any.
Addresses ==
  /\ addresses \in [Directories -> Nat]
  /\ pc = "put" => connected >= Points[at].workers
  /\ pc \in {"copy", "copying"} => connected = 0
  /\ script # 0 /\ pc # "put" /\ connected # 0 => addresses[Directory(at)] = connected
  /\ pc \in {"start", "read", "write", "close"} => Points[at].workers <= connected

\* What the script has gone past is written, as is what an earlier one has finished.
Written(files, i, r) ==
  \A role \in GraphRoles(i):
    /\ files[i][role].size \in {"short", "whole"}
    /\ files[i][role].size = "short" => files[i][role].run = r
Results ==
  /\ \A i \in DOMAIN Points: file[i] \in Files(i)
  /\ file = [i \in DOMAIN Points |-> file[i]]
  /\ DOMAIN done \subseteq Figures
  /\ \A i \in DOMAIN Points: Figure(i) \in DOMAIN done => Written(file, i, done[Figure(i)])
  /\ script # 0 => \A i \in DOMAIN Points: Figure(i) = script /\ i < at => Written(file, i, run)
  /\ pc \in {"start", "read"} \/ (pc = "write" /\ k = 1) => ~ Accepted(at)

Inv == Place /\ Machines /\ Loops /\ Addresses /\ Results

-----------------------------------------------------------------------------
LEMMA InvInit == Init => Inv
<1> SUFFICES ASSUME Init PROVE Inv
  OBVIOUS
<1>1. Place BY DEF Init, Place
<1>2. Machines BY DEF Init, Machines
<1>3. Loops BY DEF Init, Loops
<1>4. Addresses BY DEF Init, Addresses
<1>5. Results
  <2>1. file = [i \in DOMAIN Points |-> file[i]] BY DEF Init
  <2>2. \A i \in DOMAIN Points: file[i] \in Files(i) BY DEF Init, Files, Sizes
  <2> QED BY <2>1, <2>2 DEF Init, Results
<1> QED BY <1>1, <1>2, <1>3, <1>4, <1>5 DEF Inv

USE DEF Inv

\* A script that is started begins at the first of its points, with nothing running.
LEMMA RunScriptKeeps ==
  ASSUME Inv, NEW figure \in Figures, RunScript(figure)
  PROVE  Inv'
<1>1. /\ First(figure) \in DOMAIN Points /\ Figure(First(figure)) = figure
      /\ \A j \in DOMAIN Points: Figure(j) = figure => First(figure) <= j
      /\ figure # 0
  <2>1. figure # 0 BY PointFacts DEF Figures
  <2> QED BY <2>1, FirstIs
<1>2. /\ pc = "idle" /\ script = 0 /\ running = {} /\ figure \notin DOMAIN done
      /\ script' = figure /\ run' = run + 1 /\ pc' \in {"copy", "point"}
      /\ at' = First(figure) /\ connected' = 0
      /\ UNCHANGED <<done, k, addresses, running, hung, output, file, copied, stops, faults>>
  BY DEF RunScript, Place, Machines, machineVars
<1>3. Place' BY <1>1, <1>2 DEF Place
<1>4. Machines' BY <1>2 DEF Machines
<1>5. Loops' BY <1>2 DEF Loops
<1>6. Addresses' BY <1>2 DEF Addresses
<1>7. Results'
  <2>1. \A i \in DOMAIN Points: ~ (Figure(i) = figure /\ i < First(figure))
    BY <1>1, PointFacts
  <2> QED BY <1>1, <1>2, <2>1 DEF Results, Written
<1> QED BY <1>3, <1>4, <1>5, <1>6, <1>7

LEMMA DeleteKeeps ==
  ASSUME Inv, NEW d \in DOMAIN Points, DeleteResults(d)
  PROVE  Inv'
<1> DEFINE none == [role \in Roles(d) |-> [size |-> "missing", run |-> 0]]
<1>1. /\ pc = "idle" /\ script = 0
      /\ file' = [file EXCEPT ![d] = none]
      /\ done' = [f \in DOMAIN done \ {Figure(d)} |-> done[f]]
      /\ UNCHANGED <<script, run, pc, at, k, connected, addresses, running, hung, output,
                     copied, faults>>
  BY DEF DeleteResults, Place, Undone, machineVars
<1>2. none \in Files(d) BY DEF Files, Sizes
<1>3. Place' BY <1>1 DEF Place
<1>4. Machines' BY <1>1 DEF Machines
<1>5. Loops' BY <1>1 DEF Loops
<1>6. Addresses' BY <1>1 DEF Addresses
<1>7. Results'
  <2> HIDE DEF none
  <2>1. /\ file' = [i \in DOMAIN Points |-> file'[i]]
        /\ \A i \in DOMAIN Points: file'[i] = IF i = d THEN none ELSE file[i]
    BY <1>1 DEF Results
  <2>2. \A i \in DOMAIN Points: file'[i] \in Files(i) BY <1>2, <2>1 DEF Results
  <2>3. /\ DOMAIN done' = DOMAIN done \ {Figure(d)}
        /\ \A f \in DOMAIN done': done'[f] = done[f]
    BY <1>1
  <2>4. (\A i \in DOMAIN Points: Figure(i) \in DOMAIN done => Written(file, i, done[Figure(i)]))'
    <3> SUFFICES ASSUME NEW i \in DOMAIN Points, Figure(i) \in DOMAIN done'
                 PROVE  Written(file, i, done[Figure(i)])'
      OBVIOUS
    <3>1. i # d /\ Figure(i) \in DOMAIN done /\ done'[Figure(i)] = done[Figure(i)] BY <2>3
    <3> QED BY <2>1, <3>1 DEF Results, Written
  <2>5. (DOMAIN done \subseteq Figures)' BY <2>3 DEF Results
  <2> QED BY <1>1, <2>1, <2>2, <2>4, <2>5 DEF Results
<1> QED BY <1>3, <1>4, <1>5, <1>6, <1>7

LEMMA TerminateKeeps == ASSUME Inv, Terminate PROVE Inv'
<1>1. /\ script' = 0 /\ pc' = "killall"
      /\ UNCHANGED <<done, run, at, k, connected, addresses, running, hung, output, file>>
  BY DEF Terminate, machineVars
<1>2. Place' BY <1>1 DEF Place
<1>3. Machines' BY <1>1 DEF Machines
<1>4. Loops' BY <1>1 DEF Loops
<1>5. Addresses' BY <1>1 DEF Addresses
<1>6. Results' BY <1>1 DEF Results, Written
<1> QED BY <1>2, <1>3, <1>4, <1>5, <1>6

\* Every program runs under a name that kill_all.py kills on its machine.
LEMMA KillAllKeeps == ASSUME Inv, KillAll PROVE Inv'
<1>1. /\ pc = "killall" /\ script = 0 /\ pc' = "idle"
      /\ running' = {p \in running : p.program \notin Killed(p.role)}
      /\ UNCHANGED <<script, done, run, at, k, connected, addresses, output, file>>
  BY DEF KillAll, Place
<1>2. running' = {}
  <2> SUFFICES ASSUME NEW p \in running PROVE p.program \in Killed(p.role)
    BY <1>1
  <2>1. p.program = Program(p.point, p.role) BY DEF Machines
  <2> QED BY <2>1 DEF Program, Killed
<1>3. Place' BY <1>1 DEF Place
<1>4. Machines' BY <1>2 DEF Machines
<1>5. Loops' BY <1>1 DEF Loops
<1>6. Addresses' BY <1>1 DEF Addresses
<1>7. Results' BY <1>1 DEF Results, Written
<1> QED BY <1>3, <1>4, <1>5, <1>6, <1>7

LEMMA CopyKeeps == ASSUME Inv, Copy PROVE Inv'
<1>1. CASE CopySkip \/ CopyOpen \/ CopyEnd
  <2>1. /\ pc \in {"copy", "copying"} /\ pc' \in {"copying", "point"} /\ script # 0
        /\ UNCHANGED <<script, done, run, at, k, connected, addresses, running, hung, output, file>>
    BY <1>1 DEF CopySkip, CopyOpen, CopyEnd, machineVars, Place
  <2>2. Place' BY <2>1 DEF Place
  <2>3. Machines' BY <2>1 DEF Machines
  <2>4. Loops' BY <2>1 DEF Loops
  <2>5. Addresses' BY <2>1 DEF Addresses
  <2>6. Results' BY <2>1 DEF Results, Written
  <2> QED BY <2>2, <2>3, <2>4, <2>5, <2>6
<1>2. CASE CopyFails
  <2>1. /\ pc = "copy" /\ running = {} /\ script' = 0 /\ pc' = "idle"
        /\ done' = [f \in DOMAIN done \ {5} |-> done[f]]
        /\ UNCHANGED <<run, at, k, connected, addresses, running, hung, output, file>>
    BY <1>2 DEF CopyFails, Undone, machineVars, Machines
  <2>2. Place' BY <2>1 DEF Place
  <2>3. Machines' BY <2>1 DEF Machines
  <2>4. Loops' BY <2>1 DEF Loops
  <2>5. Addresses' BY <2>1 DEF Addresses
  <2>6. Results'
    <3>1. /\ DOMAIN done' = DOMAIN done \ {5}
          /\ \A f \in DOMAIN done': done'[f] = done[f]
      BY <2>1
    <3>2. (\A i \in DOMAIN Points: Figure(i) \in DOMAIN done => Written(file, i, done[Figure(i)]))'
      BY <2>1, <3>1 DEF Results, Written
    <3> QED BY <2>1, <3>1, <3>2 DEF Results
  <2> QED BY <2>2, <2>3, <2>4, <2>5, <2>6
<1> QED BY <1>1, <1>2 DEF Copy

\* The end of a point whose files are written: the next point has its own connections or
\* those that were made; after the last of a script every point of it is written, since no
\* other point of the script comes later.
LEMMA AdvanceKeeps ==
  ASSUME Inv, script # 0, pc # "put", running = {}, Advance,
         UNCHANGED <<run, addresses, running>>,
         file' = [i \in DOMAIN Points |-> file'[i]],
         \A i \in DOMAIN Points: file'[i] \in Files(i) /\ (i # at => file'[i] = file[i]),
         Written(file', at, run)
  PROVE  Inv'
<1>1. /\ at \in DOMAIN Points /\ Figure(at) = script /\ script \in Figures /\ script # 0
      /\ script \notin DOMAIN done /\ run \in Nat /\ connected \in Nat
      /\ addresses \in [Directories -> Nat]
      /\ connected # 0 => addresses[Directory(at)] = connected
  BY DEF Place, Addresses
<1>2. \A i \in DOMAIN Points: Figure(i) \in DOMAIN done => Written(file', i, done[Figure(i)])
  BY <1>1 DEF Results, Written
<1>3. \A i \in DOMAIN Points: Figure(i) = script /\ i <= at => Written(file', i, run)
  <2> SUFFICES ASSUME NEW i \in DOMAIN Points, Figure(i) = script, i <= at
               PROVE  Written(file', i, run)
    OBVIOUS
  <2>1. CASE i = at BY <2>1
  <2>2. CASE i # at
    <3>1. i < at BY <1>1, <2>2, PointFacts
    <3> QED BY <2>2, <3>1 DEF Results, Written
  <2> QED BY <2>1, <2>2
<1>4. Machines' /\ Loops'
  <2>1. pc' \in {"point", "idle"} /\ running' = {} BY DEF Advance
  <2> QED BY <2>1 DEF Machines, Loops
<1>5. CASE at < Len(Points) /\ Figure(at + 1) = script
  <2>1. /\ at' = at + 1 /\ pc' = "point"
        /\ connected' = IF Part(at + 1) # Part(at) /\ script # 9 THEN 0 ELSE connected
        /\ UNCHANGED <<script, done>>
    BY <1>5 DEF Advance
  <2>2. at + 1 \in DOMAIN Points /\ at \in Nat BY <1>1, <1>5, PointFacts
  <2>3. Place' BY <1>1, <1>5, <2>1, <2>2 DEF Place
  <2>4. connected' # 0 => Directory(at + 1) = Directory(at)
    <3> SUFFICES ASSUME connected' # 0 PROVE Directory(at + 1) = Directory(at)
      OBVIOUS
    <3>1. Part(at + 1) = Part(at) \/ script = 9 BY <2>1
    <3>2. CASE Part(at + 1) = Part(at) BY <3>2 DEF Directory
    <3>3. CASE script = 9
      <4>1. \A i \in DOMAIN Points: Figure(i) = 9 => Part(i) \in {"split", "merge"}
        BY PointParts DEF Figure
      <4> QED BY <1>1, <1>5, <2>2, <3>3, <4>1 DEF Directory
    <3> QED BY <3>1, <3>2, <3>3
  <2>5. Addresses' BY <1>1, <2>1, <2>4 DEF Addresses
  <2>6. Results'
    <3>1. \A i \in DOMAIN Points: i < at + 1 <=> i <= at BY <2>2, PointFacts
    <3> QED BY <1>2, <1>3, <2>1, <3>1 DEF Results
  <2> QED BY <1>4, <2>3, <2>5, <2>6
<1>6. CASE ~ (at < Len(Points) /\ Figure(at + 1) = script)
  <2>1. /\ script' = 0 /\ pc' = "idle" /\ UNCHANGED <<at, connected>>
        /\ done' = [f \in DOMAIN done \cup {script} |-> IF f = script THEN run ELSE done[f]]
    BY <1>6 DEF Advance
  <2>2. /\ DOMAIN done' = DOMAIN done \cup {script} /\ done'[script] = run
        /\ \A f \in DOMAIN done: done'[f] = done[f]
    BY <1>1, <2>1
  <2>3. Place' BY <1>1, <2>1 DEF Place
  <2>4. Addresses' BY <1>1, <2>1 DEF Addresses
  <2>5. \A i \in DOMAIN Points: Figure(i) = script => i <= at
    <3> SUFFICES ASSUME NEW i \in DOMAIN Points, Figure(i) = script, ~ (i <= at)
                 PROVE  FALSE
      OBVIOUS
    <3>1. /\ at + 1 \in DOMAIN Points /\ at < Len(Points) /\ at <= at + 1 /\ at + 1 <= i
      BY <1>1, PointFacts
    <3>2. Figure(at) <= Figure(at + 1) /\ Figure(at + 1) <= Figure(i)
      BY <1>1, <3>1, OrderAssumption
    <3>3. Figure(at + 1) \in {5, 6, 9} /\ Figure(at) = script /\ script \in {5, 6, 9}
      BY <1>1, <3>1, PointFacts
    <3>4. Figure(at + 1) = script BY <3>1, <3>2, <3>3
    <3> QED BY <1>6, <3>1, <3>4
  <2>6. Results' BY <1>1, <1>2, <1>3, <2>1, <2>2, <2>5 DEF Results
  <2> QED BY <1>4, <2>3, <2>4, <2>6
<1> QED BY <1>5, <1>6

LEMMA ConnectKeeps == ASSUME Inv, Connect \/ PutAddresses PROVE Inv'
<1>1. CASE Connect
  <2>1. /\ pc = "point" /\ pc' = "put" /\ connected' = Points[at].workers /\ script # 0
        /\ at \in DOMAIN Points /\ running = {}
        /\ UNCHANGED <<script, done, run, at, k, addresses, running, hung, output, file>>
    BY <1>1 DEF Connect, machineVars, Place, Machines
  <2>2. connected' \in Nat /\ connected' # 0 /\ connected' >= Points[at].workers
    BY <2>1, PointFacts
  <2>3. Place' BY <2>1, <2>2 DEF Place
  <2>4. Machines' BY <2>1 DEF Machines
  <2>5. Loops' BY <2>1 DEF Loops
  <2>6. Addresses' BY <2>1, <2>2 DEF Addresses
  <2>7. Results' BY <2>1 DEF Results
  <2> QED BY <2>3, <2>4, <2>5, <2>6, <2>7
<1>2. CASE PutAddresses
  <2>1. /\ pc = "put" /\ pc' = "point" /\ script # 0 /\ at \in DOMAIN Points /\ running = {}
        /\ addresses' = [addresses EXCEPT ![Directory(at)] = connected]
        /\ UNCHANGED <<script, done, run, at, k, connected, running, hung, output, file>>
    BY <1>2 DEF PutAddresses, Place, Machines
  <2>2. Directory(at) \in Directories BY <2>1, PointFacts
  <2>3. Place' BY <2>1 DEF Place
  <2>4. Machines' BY <2>1 DEF Machines
  <2>5. Loops' BY <2>1 DEF Loops
  <2>6. Addresses'
    <3>1. addresses' \in [Directories -> Nat] /\ addresses'[Directory(at)] = connected
      BY <2>1, <2>2 DEF Addresses, Place
    <3> QED BY <2>1, <3>1 DEF Addresses
  <2>7. Results' BY <2>1 DEF Results
  <2> QED BY <2>3, <2>4, <2>5, <2>6, <2>7
<1> QED BY <1>1, <1>2

\* A skipped point has all files of its graph whole.
LEMMA SkipKeeps == ASSUME Inv, SkipPoint PROVE Inv'
<1>1. /\ pc = "point" /\ Accepted(at) /\ script # 0 /\ running = {} /\ Advance
      /\ UNCHANGED <<run, addresses, running, file>>
  BY DEF SkipPoint, machineVars, Place, Machines
<1>2. Written(file', at, run) BY <1>1 DEF Accepted, Written, GraphRoles
<1>3. file' = [i \in DOMAIN Points |-> file'[i]] BY <1>1 DEF Results
<1>4. \A i \in DOMAIN Points: file'[i] \in Files(i) /\ (i # at => file'[i] = file[i])
  BY <1>1 DEF Results
<1> QED BY <1>1, <1>2, <1>3, <1>4, AdvanceKeeps

LEMMA BeginKeeps == ASSUME Inv, BeginPoint PROVE Inv'
<1>1. /\ pc = "point" /\ ~ Accepted(at) /\ Points[at].workers <= connected
      /\ pc' = "start" /\ k' = 1 /\ output' = [role \in Roles(at) |-> "none"]
      /\ script # 0 /\ at \in DOMAIN Points /\ running = {}
      /\ UNCHANGED <<script, done, run, at, connected, addresses, running, hung, file>>
  BY DEF BeginPoint, Place, Machines
<1>2. Place' BY <1>1 DEF Place
<1>3. Machines' BY <1>1 DEF Machines
<1>4. Loops'
  <2>1. /\ Size(at) \in Nat /\ Size(at) > 2
        /\ \A j \in 1 .. Size(at): StartOrder(at)[j] \in Roles(at)
    BY <1>1, Orders
  <2>2. \A role \in Roles(at): output'[role] = "none" BY <1>1
  <2> QED BY <1>1, <2>1, <2>2 DEF Loops
<1>5. Addresses' BY <1>1 DEF Addresses
<1>6. Results' BY <1>1 DEF Results, Accepted
<1> QED BY <1>2, <1>3, <1>4, <1>5, <1>6

LEMMA StartKeeps == ASSUME Inv, StartProgram PROVE Inv'
<1> DEFINE role == StartOrder(at)[k]
           new == [run |-> run, point |-> at, role |-> role, program |-> Program(at, role)]
<1>1. /\ pc = "start" /\ script # 0 /\ at \in DOMAIN Points
      /\ running' = running \cup {new}
      /\ IF k < Len(StartOrder(at)) THEN k' = k + 1 /\ pc' = pc ELSE k' = 1 /\ pc' = "read"
      /\ UNCHANGED <<script, done, run, at, connected, addresses, output, file>>
  BY DEF StartProgram, Following, Place
<1>2. /\ Size(at) \in Nat /\ Size(at) > 2 /\ Len(StartOrder(at)) = Size(at)
      /\ \A j \in 1 .. Size(at): StartOrder(at)[j] \in Roles(at)
      /\ k \in 1 .. Size(at)
      /\ output[role] = "none" /\ role \in Roles(at)
  <2>1. k \in 1 .. Size(at) /\ k \in k .. Size(at) BY <1>1 DEF Loops
  <2> QED BY <1>1, <2>1, Orders DEF Loops
<1>3. pc' \in {"start", "read"} BY <1>1
<1> HIDE DEF role
<1>4. Place' BY <1>1, <1>3 DEF Place
<1>5. Machines'
  <2>1. new.run = run' /\ new.point = at' /\ script' # 0 BY <1>1
  <2>2. \A p \in running: Heard(p)' /\ output'[p.role] = "none" BY <1>1 DEF Machines, Heard
  <2>3. new.point \in DOMAIN Points /\ new.role \in Roles(new.point)
        /\ new = [run |-> new.run, point |-> new.point, role |-> new.role,
                  program |-> Program(new.point, new.role)]
    BY <1>1, <1>2
  <2> HIDE DEF new
  <2>4. new.role = role BY DEF new
  <2>5. output'[new.role] = "none" BY <1>1, <1>2, <2>4
  <2>6. ASSUME NEW p \in running' PROVE Heard(p)' /\ output'[p.role] = "none"
    <3>1. p \in running \/ p = new BY <1>1
    <3>2. CASE p \in running BY <2>2, <3>2
    <3>3. CASE p = new
      <4>1. p.run = run' /\ p.point = at' /\ output'[p.role] = "none" BY <2>1, <2>5, <3>3
      <4> QED BY <2>1, <4>1 DEF Heard
    <3> QED BY <3>1, <3>2, <3>3
  <2>7. \A p \in running':
          /\ p.point \in DOMAIN Points /\ p.role \in Roles(p.point)
          /\ p = [run |-> p.run, point |-> p.point, role |-> p.role,
                  program |-> Program(p.point, p.role)]
    BY <1>1, <2>3 DEF Machines
  <2> QED BY <1>3, <2>6, <2>7 DEF Machines
<1>6. Loops'
  <2>1. new.role = role OBVIOUS
  <2> HIDE DEF new
  <2>2. CASE k < Size(at)
    <3>1. k' = k + 1 /\ pc' = "start" BY <1>1, <1>2, <2>2
    <3>2. \A j \in k' .. Size(at): output[StartOrder(at)[j]] = "none"
      <4>1. \A j \in k' .. Size(at): j \in k .. Size(at) BY <1>2, <3>1
      <4> QED BY <1>1, <4>1 DEF Loops
    <3>3. \A p \in running': \E j \in 1 .. k' - 1: p.role = StartOrder(at)[j]
      <4>1. k \in 1 .. k' - 1 /\ \A j \in 1 .. k - 1: j \in 1 .. k' - 1 BY <1>2, <3>1
      <4>2. role = StartOrder(at)[k] BY DEF role
      <4> QED BY <1>1, <2>1, <4>1, <4>2 DEF Loops
    <3>4. k' \in 1 .. Size(at) BY <1>2, <2>2, <3>1
    <3> QED BY <1>1, <3>1, <3>2, <3>3, <3>4 DEF Loops
  <2>3. CASE ~ (k < Size(at))
    <3>1. k' = 1 /\ pc' = "read" BY <1>1, <1>2, <2>3
    <3>2. k' \in 1 .. Size(at) /\ 1 .. k' - 1 = {} BY <1>2, <3>1
    <3> QED BY <1>1, <3>1, <3>2 DEF Loops
  <2> QED BY <2>2, <2>3
<1>7. Addresses' BY <1>1, <1>3 DEF Addresses
<1>8. Results' BY <1>1, <1>3 DEF Results, Accepted
<1> QED BY <1>4, <1>5, <1>6, <1>7, <1>8

\* When the output of every program has been read, all of them have ended.
LEMMA ReadKeeps == ASSUME Inv, ReadOutput PROVE Inv'
<1>1. /\ pc = "read" /\ script # 0 /\ at \in DOMAIN Points
      /\ output[ReadOrder(at)[k]] # "none"
      /\ IF k < Len(ReadOrder(at)) THEN k' = k + 1 /\ pc' = pc ELSE k' = 1 /\ pc' = "write"
      /\ UNCHANGED <<script, done, run, at, connected, addresses, running, output, file>>
  BY DEF ReadOutput, Following, machineVars, Place
<1>2. /\ Size(at) \in Nat /\ Size(at) > 2 /\ Len(ReadOrder(at)) = Size(at)
      /\ \A role \in Roles(at): \E j \in 1 .. Size(at): ReadOrder(at)[j] = role
      /\ k \in 1 .. Size(at)
  BY <1>1, Orders DEF Loops
<1>3. \A j \in 1 .. k: output[ReadOrder(at)[j]] # "none"
  <2>1. \A j \in 1 .. k: j \in 1 .. k - 1 \/ j = k BY <1>2
  <2> QED BY <1>1, <2>1 DEF Loops
<1>4. CASE k < Size(at)
  <2>1. pc' = "read" /\ k' = k + 1 BY <1>1, <1>2, <1>4
  <2>2. k' \in 1 .. Size(at) /\ k' - 1 = k BY <1>2, <1>4, <2>1
  <2>3. Place' BY <1>1, <2>1 DEF Place
  <2>4. Machines' BY <1>1, <2>1 DEF Machines, Heard
  <2>5. Loops' BY <1>1, <1>3, <2>1, <2>2 DEF Loops
  <2>6. Addresses' BY <1>1, <2>1 DEF Addresses
  <2>7. Results' BY <1>1, <2>1 DEF Results, Accepted
  <2> QED BY <2>3, <2>4, <2>5, <2>6, <2>7
<1>5. CASE ~ (k < Size(at))
  <2>1. pc' = "write" /\ k' = 1 BY <1>1, <1>2, <1>5
  <2>2. \A role \in Roles(at): output[role] # "none"
    <3>1. k = Size(at) BY <1>2, <1>5
    <3> QED BY <1>2, <1>3, <3>1
  <2>3. running = {} BY <1>1, <2>2 DEF Machines, Heard
  <2>4. Place' BY <1>1, <2>1 DEF Place
  <2>5. Machines' BY <1>1, <2>3 DEF Machines
  <2>6. Loops'
    <3>1. k' \in 1 .. Size(at) /\ 1 .. k' - 1 = {} BY <1>2, <2>1
    <3> QED BY <1>1, <2>1, <2>2, <3>1 DEF Loops
  <2>7. Addresses' BY <1>1, <2>1 DEF Addresses
  <2>8. Results' BY <1>1, <2>1 DEF Results, Accepted
  <2> QED BY <2>4, <2>5, <2>6, <2>7, <2>8
<1> QED BY <1>4, <1>5

\* Writing a file of the current point leaves every other file as it is.
LEMMA FileWritten ==
  ASSUME Results, at \in DOMAIN Points, NEW size \in Sizes, run \in Nat,
         WriteOrder(at)[k] \in Roles(at), WriteFile(size)
  PROVE  /\ file' = [i \in DOMAIN Points |-> file'[i]]
         /\ \A i \in DOMAIN Points: file'[i] \in Files(i) /\ (i # at => file'[i] = file[i])
         /\ \A role \in Roles(at):
              file'[at][role] = IF role = WriteOrder(at)[k] THEN [size |-> size, run |-> run]
                                ELSE file[at][role]
<1> DEFINE r == WriteOrder(at)[k]
           cell == [size |-> size, run |-> run]
<1>1. cell \in [size: Sizes, run: Nat] OBVIOUS
<1>2. file' = [file EXCEPT ![at] = [file[at] EXCEPT ![r] = cell]]
  BY DEF WriteFile
<1>3. file = [i \in DOMAIN Points |-> file[i]] /\ \A i \in DOMAIN Points: file[i] \in Files(i)
  BY DEF Results
<1> DEFINE point == [file[at] EXCEPT ![r] = cell]
<1>4. /\ point \in Files(at)
      /\ \A role \in Roles(at): point[role] = IF role = r THEN cell ELSE file[at][role]
  <2>1. file[at] \in [Roles(at) -> [size: Sizes, run: Nat]] BY <1>3 DEF Files
  <2>2. r \in Roles(at) OBVIOUS
  <2> HIDE DEF r, cell
  <2> QED BY <1>1, <2>1, <2>2 DEF Files
<1> HIDE DEF point
<1>5. /\ file' = [i \in DOMAIN Points |-> file'[i]]
      /\ \A i \in DOMAIN Points: file'[i] = IF i = at THEN point ELSE file[i]
  BY <1>2, <1>3 DEF point
<1> QED BY <1>3, <1>4, <1>5

LEMMA OpenKeeps == ASSUME Inv, OpenFile PROVE Inv'
<1>1. /\ pc = "write" /\ pc' = "close" /\ script # 0 /\ at \in DOMAIN Points /\ run \in Nat
      /\ Figure(at) = script /\ script \notin DOMAIN done /\ running = {} /\ WriteFile("cut")
      /\ UNCHANGED <<script, done, run, at, k, connected, addresses, running, output>>
  BY DEF OpenFile, machineVars, Place, Machines
<1>2. /\ Size(at) \in Nat /\ k \in 1 .. Size(at) /\ WriteOrder(at)[k] \in Roles(at)
      /\ \A j \in 1 .. Size(at): WriteOrder(at)[j] \in Roles(at)
      /\ \A j, l \in 1 .. Size(at): WriteOrder(at)[j] = WriteOrder(at)[l] => j = l
  BY <1>1, Orders DEF Loops
<1>3. /\ file' = [i \in DOMAIN Points |-> file'[i]]
      /\ \A i \in DOMAIN Points: file'[i] \in Files(i) /\ (i # at => file'[i] = file[i])
      /\ \A role \in Roles(at):
           file'[at][role] = IF role = WriteOrder(at)[k] THEN [size |-> "cut", run |-> run]
                             ELSE file[at][role]
  <2>1. "cut" \in Sizes BY DEF Sizes
  <2> QED BY <1>1, <1>2, <2>1, FileWritten
<1>4. \A j \in 1 .. k - 1: file'[at][WriteOrder(at)[j]] = file[at][WriteOrder(at)[j]]
  <2>1. \A j \in 1 .. k - 1: j \in 1 .. Size(at) /\ j # k BY <1>2
  <2> QED BY <1>2, <1>3, <2>1
<1>5. Place' BY <1>1 DEF Place
<1>6. Machines' BY <1>1 DEF Machines
<1>7. Loops' BY <1>1, <1>2, <1>3, <1>4 DEF Loops
<1>8. Addresses' BY <1>1 DEF Addresses
<1>9. Results'
  <2>1. \A i \in DOMAIN Points: Figure(i) \in DOMAIN done => Written(file', i, done[Figure(i)])
    BY <1>1, <1>3 DEF Results, Written
  <2>2. \A i \in DOMAIN Points: Figure(i) = script /\ i < at => Written(file', i, run)
    <3>1. \A i \in DOMAIN Points: i < at => i # at BY <1>1, PointFacts
    <3> QED BY <1>1, <1>3, <3>1 DEF Results, Written
  <2> QED BY <1>1, <1>3, <2>1, <2>2 DEF Results
<1> QED BY <1>5, <1>6, <1>7, <1>8, <1>9

LEMMA CloseKeeps == ASSUME Inv, CloseFile PROVE Inv'
<1> DEFINE size == output[WriteOrder(at)[k]]
<1>1. /\ pc = "close" /\ script # 0 /\ at \in DOMAIN Points /\ run \in Nat
      /\ Figure(at) = script /\ script \notin DOMAIN done /\ running = {} /\ WriteFile(size)
      /\ UNCHANGED <<run, addresses, running, output>>
  BY DEF CloseFile, machineVars, Place, Machines
<1>2. /\ Size(at) \in Nat /\ Size(at) > 2 /\ Len(WriteOrder(at)) = Size(at)
      /\ k \in 1 .. Size(at) /\ WriteOrder(at)[k] \in Roles(at)
      /\ \A j \in 1 .. Size(at): WriteOrder(at)[j] \in Roles(at)
      /\ \A j, l \in 1 .. Size(at): WriteOrder(at)[j] = WriteOrder(at)[l] => j = l
      /\ \A role \in Roles(at): \E j \in 1 .. Size(at): WriteOrder(at)[j] = role
      /\ WriteOrder(at)[1] = Client /\ Client \in Roles(at)
  BY <1>1, Orders DEF Loops
<1>3. size \in {"short", "whole"} /\ size \in Sizes
  BY <1>1, <1>2 DEF Loops, Sizes
<1> HIDE DEF size
<1>4. /\ file' = [i \in DOMAIN Points |-> file'[i]]
      /\ \A i \in DOMAIN Points: file'[i] \in Files(i) /\ (i # at => file'[i] = file[i])
      /\ \A role \in Roles(at):
           file'[at][role] = IF role = WriteOrder(at)[k] THEN [size |-> size, run |-> run]
                             ELSE file[at][role]
  BY <1>1, <1>2, <1>3, FileWritten
<1>5. \A j \in 1 .. k: /\ file'[at][WriteOrder(at)[j]].size \in {"short", "whole"}
                       /\ file'[at][WriteOrder(at)[j]].run = run
  <2> SUFFICES ASSUME NEW j \in 1 .. k
               PROVE  /\ file'[at][WriteOrder(at)[j]].size \in {"short", "whole"}
                      /\ file'[at][WriteOrder(at)[j]].run = run
    OBVIOUS
  <2>1. j \in 1 .. Size(at) /\ (j = k \/ j \in 1 .. k - 1) BY <1>2
  <2>2. CASE j = k BY <1>2, <1>3, <1>4, <2>2
  <2>3. CASE j # k
    <3>1. file'[at][WriteOrder(at)[j]] = file[at][WriteOrder(at)[j]] BY <1>2, <1>4, <2>1, <2>3
    <3> QED BY <1>1, <2>1, <2>3, <3>1 DEF Loops
  <2> QED BY <2>2, <2>3
<1>6. CASE k < Size(at)
  <2>1. k' = k + 1 /\ pc' = "write" /\ UNCHANGED <<script, done, at, connected>>
    BY <1>2, <1>6 DEF CloseFile
  <2>2. k' \in 1 .. Size(at) /\ k' - 1 = k /\ k' # 1 BY <1>2, <1>6, <2>1
  <2>3. Place' BY <1>1, <2>1 DEF Place
  <2>4. Machines' BY <1>1 DEF Machines
  <2>5. Loops' BY <1>1, <1>5, <2>1, <2>2 DEF Loops
  <2>6. Addresses' BY <1>1, <2>1 DEF Addresses
  <2>7. Results'
    <3>1. \A i \in DOMAIN Points: Figure(i) \in DOMAIN done => Written(file', i, done[Figure(i)])
      BY <1>1, <1>4 DEF Results, Written
    <3>2. \A i \in DOMAIN Points: Figure(i) = script /\ i < at => Written(file', i, run)
      <4>1. \A i \in DOMAIN Points: i < at => i # at BY <1>1, PointFacts
      <4> QED BY <1>1, <1>4, <4>1 DEF Results, Written
    <3> QED BY <1>1, <1>4, <2>1, <2>2, <3>1, <3>2 DEF Results
  <2> QED BY <2>3, <2>4, <2>5, <2>6, <2>7
<1>7. CASE ~ (k < Size(at))
  <2>1. Advance BY <1>2, <1>7 DEF CloseFile
  <2>2. Written(file', at, run)
    <3>1. \A role \in Roles(at): /\ file'[at][role].size \in {"short", "whole"}
                                 /\ file'[at][role].run = run
      <4>1. k = Size(at) BY <1>2, <1>7
      <4> QED BY <1>2, <1>5, <4>1
    <3> QED BY <1>2, <3>1 DEF Written, GraphRoles
  <2> QED BY <1>1, <1>4, <2>1, <2>2, AdvanceKeeps
<1> QED BY <1>6, <1>7

\* A program that ends was the only one of its role.
LEMMA EndKeeps == ASSUME Inv, NEW p \in running, End(p) PROVE Inv'
<1>1. PICK size \in {"whole", "short"}:
        /\ running' = running \ {p}
        /\ output' = IF Heard(p) THEN [output EXCEPT ![p.role] = size] ELSE output
        /\ UNCHANGED <<script, done, run, pc, at, k, connected, addresses, file>>
  BY DEF End, scriptVars
<1>2. Place' BY <1>1 DEF Place
<1>3. Addresses' BY <1>1 DEF Addresses
<1>4. Results' BY <1>1 DEF Results, Accepted
<1>5. CASE pc \in {"start", "read"}
  <2>1. /\ Heard(p) /\ p.run = run /\ p.point = at /\ p.role \in Roles(at)
        /\ output[p.role] = "none" /\ output \in [Roles(at) -> {"none", "short", "whole"}]
    BY <1>5 DEF Machines, Heard, Loops
  <2>2. /\ output' \in [Roles(at) -> {"none", "short", "whole"}] /\ output'[p.role] = size
        /\ \A role \in Roles(at) \ {p.role}: output'[role] = output[role]
    BY <1>1, <2>1
  <2>3. \A q \in running': q \in running /\ q.role \in Roles(at) \ {p.role}
    <3> SUFFICES ASSUME NEW q \in running, q # p
                 PROVE  q.role \in Roles(at) \ {p.role}
      BY <1>1
    <3>1. q.run = run /\ q.point = at BY <1>5 DEF Machines, Heard
    <3>2. /\ q.role \in Roles(q.point)
          /\ q = [run |-> q.run, point |-> q.point, role |-> q.role,
                  program |-> Program(q.point, q.role)]
          /\ p = [run |-> p.run, point |-> p.point, role |-> p.role,
                  program |-> Program(p.point, p.role)]
      BY DEF Machines
    <3>3. q.role # p.role BY <2>1, <3>1, <3>2
    <3> QED BY <3>1, <3>2, <3>3
  <2>4. Machines' BY <1>1, <1>5, <2>2, <2>3 DEF Machines, Heard
  <2>5. Loops'
    <3>1. ASSUME pc = "start"
          PROVE  \A j \in k .. Size(at): output'[StartOrder(at)[j]] = "none"
      <4> SUFFICES ASSUME NEW j \in k .. Size(at) PROVE output'[StartOrder(at)[j]] = "none"
        OBVIOUS
      <4>1. PICK l \in 1 .. k - 1: p.role = StartOrder(at)[l] BY <3>1 DEF Loops
      <4>2. k \in 1 .. Size(at) /\ Size(at) \in Nat /\ at \in DOMAIN Points
        BY <1>5, Orders DEF Loops, Place
      <4>3. j \in 1 .. Size(at) /\ l \in 1 .. Size(at) /\ j # l BY <4>2
      <4>4. StartOrder(at)[j] \in Roles(at) \ {p.role} BY <4>1, <4>2, <4>3, Orders
      <4> QED BY <2>2, <3>1, <4>4 DEF Loops
    <3>2. ASSUME pc = "read"
          PROVE  \A j \in 1 .. k - 1: output'[ReadOrder(at)[j]] # "none"
      <4> SUFFICES ASSUME NEW j \in 1 .. k - 1 PROVE output'[ReadOrder(at)[j]] # "none"
        OBVIOUS
      <4>1. k \in 1 .. Size(at) /\ Size(at) \in Nat /\ at \in DOMAIN Points
        BY <1>5, Orders DEF Loops, Place
      <4>2. j \in 1 .. Size(at) BY <4>1
      <4>3. ReadOrder(at)[j] \in Roles(at) BY <4>1, <4>2, Orders
      <4> QED BY <2>2, <3>2, <4>3 DEF Loops
    <3> QED BY <1>1, <1>5, <2>2, <2>3, <3>1, <3>2 DEF Loops
  <2> QED BY <1>2, <1>3, <1>4, <2>4, <2>5
<1>6. CASE pc \notin {"start", "read"}
  <2>1. pc = "killall" /\ script = 0 BY <1>6 DEF Machines, Place
  <2>2. output' = output BY <1>1, <2>1 DEF Heard
  <2>3. Machines' BY <1>1, <2>1 DEF Machines
  <2>4. Loops' BY <1>1, <2>1 DEF Loops
  <2> QED BY <1>2, <1>3, <1>4, <2>3, <2>4
<1> QED BY <1>5, <1>6

LEMMA StutterKeeps ==
  ASSUME Inv, UNCHANGED <<script, done, run, pc, at, k, connected, addresses, running, output, file>>
  PROVE  Inv'
<1>1. Place' BY DEF Place
<1>2. Machines' BY DEF Machines, Heard
<1>3. Loops' BY DEF Loops
<1>4. Addresses' BY DEF Addresses
<1>5. Results' BY DEF Results, Accepted
<1> QED BY <1>1, <1>2, <1>3, <1>4, <1>5

-----------------------------------------------------------------------------
\* The inductive invariant of the scripts and the machines.
THEOREM ScriptInvariant == Spec => []Inv
<1>1. Init => Inv BY InvInit
<1>2. Inv /\ [Next]_vars => Inv'
  <2> SUFFICES ASSUME Inv, [Next]_vars PROVE Inv'
    OBVIOUS
  <2>1. ASSUME NEW figure \in Figures, RunScript(figure) PROVE Inv' BY <2>1, RunScriptKeeps
  <2>2. ASSUME NEW i \in DOMAIN Points, DeleteResults(i) PROVE Inv' BY <2>2, DeleteKeeps
  <2>3. CASE Terminate BY <2>3, TerminateKeeps
  <2>4. CASE KillAll BY <2>4, KillAllKeeps
  <2>5. CASE Copy BY <2>5, CopyKeeps
  <2>6. CASE DataPoint
    BY <2>6, ConnectKeeps, SkipKeeps, BeginKeeps, StartKeeps, ReadKeeps, OpenKeeps, CloseKeeps
    DEF DataPoint
  <2>7. ASSUME NEW p \in running, End(p) PROVE Inv' BY <2>7, EndKeeps
  <2>8. ASSUME NEW p \in running, Hang(p) PROVE Inv'
    BY <2>8, StutterKeeps DEF Hang, scriptVars
  <2>9. CASE UNCHANGED vars BY <2>9, StutterKeeps DEF vars, scriptVars, machineVars
  <2> QED BY <2>1, <2>2, <2>3, <2>4, <2>5, <2>6, <2>7, <2>8, <2>9 DEF Next
<1> QED BY <1>1, <1>2, PTL DEF Spec

\* Whatever was interrupted, the programs of a data point have the machines to themselves
\* and know the addresses of all their workers.
THEOREM MachinesAlwaysReady == Spec => []MachinesReady
<1>1. Inv => MachinesReady
  <2> SUFFICES ASSUME Inv PROVE MachinesReady
    OBVIOUS
  <2>1. script # 0 => \A p \in running: Heard(p) BY DEF Place, Machines
  <2>2. ASSUME pc \in {"start", "read"} PROVE addresses[Directory(at)] >= Points[at].workers
    <3>1. /\ script # 0 /\ at \in DOMAIN Points /\ connected \in Nat
          /\ Points[at].workers <= connected
      BY <2>2 DEF Place, Addresses
    <3>2. Points[at].workers \in Nat \ {0} BY <3>1, PointFacts
    <3>3. connected # 0 BY <3>1, <3>2
    <3>4. addresses[Directory(at)] = connected BY <2>2, <3>1, <3>3 DEF Addresses
    <3> QED BY <3>1, <3>2, <3>4
  <2> QED BY <2>1, <2>2 DEF MachinesReady
<1> QED BY <1>1, ScriptInvariant, PTL

\* The copy of the step1 result, while it is made and after: it is cut short only by an
\* interruption of the run that makes it, and a script of figure 6 that goes on has one.
CopyPlace ==
  /\ pc = "copy" => script = 6
  /\ pc = "copying" => script = 6 /\ copied.run = run /\ Step1Sizes \subseteq {"short", "whole"}
  /\ copied.size = "cut" => copied.run \in Nat /\ copied.run <= run
  /\ copied.size = "cut" /\ copied.run = run => pc \in {"copying", "killall", "idle"}
  /\ script = 6 /\ pc # "copy" => copied.size # "missing"
  /\ 6 \in DOMAIN done =>
       /\ copied.size # "missing"
       /\ copied.size = "cut" => copied.run < done[6]

LEMMA CopyPlaceInit == Init => CopyPlace BY DEF Init, CopyPlace

\* A step of the loop over the data points leaves the copy alone; one that ends the script
\* makes it a finished one.
LEMMA CopyPlaceAdvance ==
  ASSUME Inv, CopyPlace, Advance, pc \in {"point", "close"}, UNCHANGED <<run, copied>>
  PROVE  CopyPlace'
<1>1. script # 0 /\ run \in Nat BY DEF Place
<1>2. CASE pc' = "point" /\ UNCHANGED <<script, done>> BY <1>2 DEF CopyPlace
<1>3. CASE /\ script' = 0 /\ pc' = "idle"
           /\ done' = [f \in DOMAIN done \cup {script} |-> IF f = script THEN run ELSE done[f]]
  <2>1. CASE script = 6
    <3>1. /\ copied.size # "missing"
          /\ copied.size = "cut" => copied.run \in Nat /\ copied.run <= run /\ copied.run # run
      BY <2>1 DEF CopyPlace
    <3>2. copied.size = "cut" => copied.run < run BY <1>1, <3>1
    <3>3. done'[6] = run BY <1>3, <2>1
    <3> QED BY <1>3, <3>1, <3>2, <3>3 DEF CopyPlace
  <2>2. CASE script # 6
    <3>1. 6 \in DOMAIN done' => 6 \in DOMAIN done /\ done'[6] = done[6] BY <1>3, <2>2
    <3> QED BY <1>3, <3>1 DEF CopyPlace
  <2> QED BY <2>1, <2>2
<1> QED BY <1>2, <1>3 DEF Advance

LEMMA CopyPlacePoint == ASSUME Inv, CopyPlace, DataPoint PROVE CopyPlace'
<1> DEFINE Loop == {"point", "put", "start", "read", "write", "close"}
<1>1. ASSUME pc \in Loop, pc' \in Loop, UNCHANGED <<script, done, run, copied>>
      PROVE  CopyPlace'
  BY <1>1 DEF CopyPlace
<1>2. CASE Connect \/ PutAddresses \/ BeginPoint \/ OpenFile
  BY <1>1, <1>2 DEF Connect, PutAddresses, BeginPoint, OpenFile
<1>3. CASE SkipPoint BY <1>3, CopyPlaceAdvance DEF SkipPoint
<1>4. CASE StartProgram \/ ReadOutput
  <2>1. pc \in Loop /\ pc' \in Loop BY <1>4 DEF StartProgram, ReadOutput, Following
  <2> QED BY <1>1, <1>4, <2>1 DEF StartProgram, ReadOutput
<1>5. CASE CloseFile
  <2>1. CASE k < Len(WriteOrder(at)) BY <1>1, <1>5, <2>1 DEF CloseFile
  <2>2. CASE ~ (k < Len(WriteOrder(at)))
    BY <1>5, <2>2, CopyPlaceAdvance DEF CloseFile
  <2> QED BY <2>1, <2>2
<1> QED BY <1>2, <1>3, <1>4, <1>5 DEF DataPoint

LEMMA CopyPlaceNext == Inv /\ CopyPlace /\ [Next]_vars => CopyPlace'
<1> SUFFICES ASSUME Inv, CopyPlace, [Next]_vars PROVE CopyPlace'
  OBVIOUS
<1>1. ASSUME NEW figure \in Figures, RunScript(figure) PROVE CopyPlace'
  <2>1. /\ pc = "idle" /\ script' = figure /\ run' = run + 1 /\ run \in Nat
        /\ pc' = (IF figure = 6 THEN "copy" ELSE "point")
        /\ UNCHANGED <<done, copied>>
    BY <1>1 DEF RunScript, Place
  <2> QED BY <2>1 DEF CopyPlace
<1>2. ASSUME NEW d \in DOMAIN Points, DeleteResults(d) PROVE CopyPlace'
  <2>1. /\ pc = "idle" /\ UNCHANGED <<script, run, pc, copied>>
        /\ done' = [f \in DOMAIN done \ {Figure(d)} |-> done[f]]
    BY <1>2 DEF DeleteResults, Undone
  <2>2. 6 \in DOMAIN done' => 6 \in DOMAIN done /\ done'[6] = done[6] BY <2>1
  <2> QED BY <2>1, <2>2 DEF CopyPlace
<1>3. CASE Terminate
  <2>1. script' = 0 /\ pc' = "killall" /\ UNCHANGED <<done, run, copied>> BY <1>3 DEF Terminate
  <2> QED BY <2>1 DEF CopyPlace
<1>4. CASE KillAll
  <2>1. pc = "killall" /\ pc' = "idle" /\ script' = script /\ UNCHANGED <<done, run, copied>>
    BY <1>4 DEF KillAll
  <2> QED BY <2>1 DEF CopyPlace, Place
<1>5. CASE CopySkip
  <2>1. /\ pc = "copy" /\ copied.size # "missing" /\ pc' = "point"
        /\ UNCHANGED <<script, done, run, copied>>
    BY <1>5 DEF CopySkip
  <2> QED BY <2>1 DEF CopyPlace
<1>6. CASE CopyFails
  <2>1. /\ pc = "copy" /\ script' = 0 /\ pc' = "idle" /\ UNCHANGED <<run, copied>>
        /\ done' = [f \in DOMAIN done \ {5} |-> done[f]]
    BY <1>6 DEF CopyFails, Undone
  <2>2. 6 \in DOMAIN done' => 6 \in DOMAIN done /\ done'[6] = done[6] BY <2>1
  <2> QED BY <2>1, <2>2 DEF CopyPlace
<1>7. CASE CopyOpen
  <2>1. /\ pc = "copy" /\ pc' = "copying" /\ copied' = [size |-> "cut", run |-> run]
        /\ Step1Sizes \subseteq {"short", "whole"}
        /\ UNCHANGED <<script, done, run, file>>
    BY <1>7 DEF CopyOpen
  <2>2. script # 0 /\ script \in Figures /\ script \notin DOMAIN done /\ run \in Nat
    BY <2>1 DEF Place
  <2>3. script = 6 BY <2>1 DEF CopyPlace
  <2>4. Step1Sizes' = Step1Sizes BY <2>1 DEF Step1Sizes
  <2> QED BY <2>1, <2>2, <2>3, <2>4 DEF CopyPlace
<1>8. CASE CopyEnd
  <2>1. PICK size \in Step1Sizes: copied' = [copied EXCEPT !.size = size] BY <1>8 DEF CopyEnd
  <2>2. pc = "copying" /\ pc' = "point" /\ UNCHANGED <<script, done, run>> BY <1>8 DEF CopyEnd
  <2>3. size \in {"short", "whole"} /\ script = 6 /\ script \notin DOMAIN done
    BY <2>1, <2>2 DEF CopyPlace, Place
  <2> QED BY <2>1, <2>2, <2>3 DEF CopyPlace
<1>9. CASE DataPoint BY <1>9, CopyPlacePoint
<1>10. ASSUME UNCHANGED <<script, done, run, pc, file, copied>> PROVE CopyPlace'
  <2>1. Step1Sizes' = Step1Sizes BY <1>10 DEF Step1Sizes
  <2> QED BY <1>10, <2>1 DEF CopyPlace
<1>11. ASSUME NEW p \in running, End(p) \/ Hang(p) PROVE CopyPlace'
  BY <1>10, <1>11 DEF End, Hang, scriptVars
<1>12. CASE UNCHANGED vars BY <1>10, <1>12 DEF vars, scriptVars
<1> QED BY <1>1, <1>2, <1>3, <1>4, <1>5, <1>6, <1>7, <1>8, <1>9, <1>11, <1>12 DEF Next, Copy

\* A script that has ended leaves every file of its graphs written to the end, by its last
\* run where the program had ended early, and the copy too unless an earlier run was
\* interrupted in the middle of it.
THEOREM FinishedAlwaysWritten == Spec => []FinishedIsWritten
<1>1. Inv /\ CopyPlace => FinishedIsWritten
  <2> SUFFICES ASSUME Inv, CopyPlace, NEW figure \in DOMAIN done
               PROVE  /\ \A i \in {j \in DOMAIN Points : Figure(j) = figure}: \A f \in GraphFiles(i):
                           /\ f.size \in {"short", "whole"}
                           /\ f.size = "short" => f.run = done[figure]
                      /\ \A f \in GraphCopies(figure):
                           /\ f.size # "missing"
                           /\ f.size = "cut" => f.run < done[figure]
    BY DEF FinishedIsWritten
  <2>1. \A i \in DOMAIN Points: Figure(i) = figure => Written(file, i, done[figure])
    BY DEF Results
  <2>2. \A f \in GraphCopies(figure): figure = 6 /\ f = copied BY DEF GraphCopies
  <2>3. ASSUME NEW i \in DOMAIN Points, Figure(i) = figure, NEW f \in GraphFiles(i)
        PROVE  /\ f.size \in {"short", "whole"}
               /\ f.size = "short" => f.run = done[figure]
    <3>1. PICK role \in GraphRoles(i): f = file[i][role] BY DEF GraphFiles
    <3> QED BY <2>1, <2>3, <3>1 DEF Written
  <2>4. ASSUME NEW f \in GraphCopies(figure)
        PROVE  f.size # "missing" /\ (f.size = "cut" => f.run < done[figure])
    <3>1. figure = 6 /\ f = copied /\ 6 \in DOMAIN done BY <2>2, <2>4
    <3>2. copied.size # "missing" /\ (copied.size = "cut" => copied.run < done[6])
      BY <3>1 DEF CopyPlace
    <3> QED BY <3>1, <3>2
  <2> QED BY <2>3, <2>4
<1>2. Spec => []CopyPlace
  <2>1. Init => CopyPlace BY CopyPlaceInit
  <2>2. Inv /\ CopyPlace /\ [Next]_vars => CopyPlace' BY CopyPlaceNext
  <2> QED BY <2>1, <2>2, ScriptInvariant, PTL DEF Spec
<1> QED BY <1>1, <1>2, ScriptInvariant, PTL

\* What one run has completed no later one touches: a file that is opened belongs to a point
\* that was not complete when the script came to it, and whose client's file, the first to
\* be written, carries the number of this run from then on.
THEOREM FinishedStays == Spec => FinishedIsKept
<1>1. Inv /\ [Next]_vars =>
        [\A i \in DOMAIN Points:
           Accepted(i) /\ ~ StillWriting(i) /\ file'[i] # file[i] => pc = "idle"]_vars
  <2> SUFFICES ASSUME Inv, [Next]_vars,
                      NEW i \in DOMAIN Points, Accepted(i), ~ StillWriting(i),
                      file'[i] # file[i], pc # "idle"
               PROVE  FALSE
    OBVIOUS
  <2>1. CASE OpenFile \/ CloseFile
    <3>1. /\ pc \in {"write", "close"} /\ at \in DOMAIN Points
          /\ \E size: WriteFile(size)
      BY <2>1 DEF OpenFile, CloseFile, Place
    <3>2. at = i BY <3>1 DEF WriteFile, Results
    <3>3. /\ k \in 1 .. Size(at) /\ Size(at) \in Nat /\ WriteOrder(at)[1] = Client
      BY <3>1, Orders DEF Loops
    <3>4. pc = "write" => k # 1 BY <3>2 DEF Results
    <3>5. file[at][Client].run = run
      <4>1. CASE k = 1 BY <3>1, <3>3, <3>4, <4>1 DEF Loops
      <4>2. CASE k # 1
        <5>1. 1 \in 1 .. k - 1 BY <3>3, <4>2
        <5> QED BY <3>1, <3>3, <5>1 DEF Loops
      <4> QED BY <4>1, <4>2
    <3> QED BY <3>1, <3>2, <3>5 DEF StillWriting
  <2>2. ASSUME NEW figure \in Figures, RunScript(figure) PROVE FALSE BY <2>2 DEF RunScript
  <2>3. ASSUME NEW d \in DOMAIN Points, DeleteResults(d) PROVE FALSE BY <2>3 DEF DeleteResults
  <2>4. CASE Terminate \/ KillAll BY <2>4 DEF Terminate, KillAll
  <2>5. CASE Copy BY <2>5 DEF Copy, CopySkip, CopyFails, CopyOpen, CopyEnd
  <2>6. CASE DataPoint
    BY <2>1, <2>6 DEF DataPoint, Connect, PutAddresses, SkipPoint, BeginPoint, StartProgram,
                      ReadOutput
  <2>7. ASSUME NEW p \in running, End(p) \/ Hang(p) PROVE FALSE BY <2>7 DEF End, Hang
  <2>8. CASE UNCHANGED vars BY <2>8 DEF vars
  <2> QED BY <2>2, <2>3, <2>4, <2>5, <2>6, <2>7, <2>8 DEF Next
<1> QED BY <1>1, ScriptInvariant, PTL DEF Spec, FinishedIsKept
=============================================================================
