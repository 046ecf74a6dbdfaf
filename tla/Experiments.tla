----------------------------- MODULE Experiments -----------------------------
(***************************************************************************)
(* The scripts that run the programs of the other modules for the figures: *)
(* aws_scripts/figure_*/run_experiments.py.  A script goes through its     *)
(* data points; it skips a point whose result files it finds complete, and *)
(* else starts the programs, reads their output to its end and writes one  *)
(* file per program.  A script that hangs is terminated, kill_all.py is    *)
(* run and the script is started again (aws_scripts/README.md).            *)
(*                                                                         *)
(* A file is "missing", "cut" (opened, which truncates it, and not yet     *)
(* written), "short" (the program ended early) or "whole" (the number of   *)
(* lines the script expects), and remembers the run that wrote it.         *)
(***************************************************************************)
EXTENDS Integers, Sequences, SequencesExt, FiniteSets

CONSTANTS
  Points,     \* the data points in the order of the scripts: records [part, workers]
  MaxStops,   \* how often the operator terminates a script or deletes results at will
  MaxFaults   \* how many programs end early or hang

ASSUME PointsAssumption ==
  /\ Points \in Seq([part: {"coeus", "baseline", "step2", "step3", "split", "merge"},
                     workers: Nat \ {0}])
  /\ MaxStops \in Nat /\ MaxFaults \in Nat

VARIABLES
  script,     \* the figure whose script is running, 0 for none
  done,       \* the figures whose script ended with "All done!", by the run in which it did
  run,        \* how many scripts have been started
  pc, at, k,  \* the script: program counter, data point, place in the loop over programs
  connected,  \* len(worker_connections)
  addresses,  \* lines of common/worker_ip.txt on the machines, by program directory
  running,    \* the programs on the machines
  hung,       \* those of them that will never end
  output,     \* what the programs of the data point have printed when they ended
  file,       \* the result files
  copied,     \* figure_6_7: the copy of a step1 result of figure_5, step1/client.txt
  stops, faults

scriptVars == <<script, done, run, pc, at, k, connected>>
machineVars == <<addresses, running, hung, output>>
vars == <<scriptVars, machineVars, file, copied, stops, faults>>

Part(i) == Points[i].part
Figure(i) == IF Part(i) \in {"coeus", "baseline"} THEN 5
             ELSE IF Part(i) \in {"step2", "step3"} THEN 6 ELSE 9
Figures == {Figure(i) : i \in DOMAIN Points}

\* One script's points follow one another.
ASSUME OrderAssumption == \A i, j \in DOMAIN Points: i <= j => Figure(i) <= Figure(j)

First(figure) == CHOOSE i \in DOMAIN Points:
                   Figure(i) = figure /\ \A j \in DOMAIN Points: Figure(j) = figure => i <= j

\* The programs of point i, by the machine they run on, in the orders of the script's loops.
Client == <<"client", 0>>
Master == <<"master", 0>>
Workers(i) == [w \in 1 .. Points[i].workers |-> <<"worker", w - 1>>]
Roles(i) == {Client, Master} \cup ToSet(Workers(i))
StartOrder(i) == <<Master, Client>> \o Workers(i)

\* Mutant of ReadOrder: the output of the workers is not awaited.
ReadOrderClient(i) == <<Client, Master>>

ReadOrder(i) == IF Part(i) = "step2" THEN Workers(i) \o <<Client, Master>>
                ELSE <<Client, Master>> \o Workers(i)

WriteOrder(i) == <<Client, Master>> \o Workers(i)

\* The executable a program of point i is started from, and the directory of its addresses.
Program(i, role) == IF Part(i) \in {"coeus", "split"} THEN "split"
                    ELSE IF Part(i) = "merge" THEN "merge" ELSE role[1]
Directory(i) == IF Part(i) \in {"coeus", "split", "merge"} THEN "step1" ELSE Part(i)
Directories == {Directory(i) : i \in DOMAIN Points}

\* The names kill_all.py kills on the machine of a role.
Killed(role) == {role[1], "split", "merge"}

\* Mutant of Accepted: the lines of the files are not counted.
AcceptedExists(i) ==
  \A role \in IF Figure(i) = 9 THEN Roles(i) ELSE {Client}: file[i][role].size # "missing"

\* When a script skips point i: figure_5 and figure_6_7 look at the client's file only.
Accepted(i) ==
  \A role \in IF Figure(i) = 9 THEN Roles(i) ELSE {Client}: file[i][role].size = "whole"

Init ==
  /\ script = 0 /\ done = [figure \in {} |-> 0] /\ run = 0
  /\ pc = "idle" /\ at = 1 /\ k = 1 /\ connected = 0
  /\ addresses = [d \in Directories |-> 0] /\ running = {} /\ hung = {}
  /\ output = [role \in Roles(1) |-> "none"]
  /\ file = [i \in DOMAIN Points |-> [role \in Roles(i) |-> [size |-> "missing", run |-> 0]]]
  /\ copied = [size |-> "missing", run |-> 0]
  /\ stops = 0 /\ faults = 0

-----------------------------------------------------------------------------
(* The operator *)

\* Runs the first script that has not ended yet: figure 5 goes before figures 6 and 7.
RunScript(figure) ==
  /\ pc = "idle" /\ figure \notin DOMAIN done
  /\ \A f \in Figures: f < figure => f \in DOMAIN done
  /\ script' = figure /\ run' = run + 1
  /\ pc' = IF figure = 6 THEN "copy" ELSE "point"
  /\ at' = First(figure) /\ connected' = 0
  /\ UNCHANGED <<done, k, machineVars, file, copied, stops, faults>>

Undone(figure) == [f \in DOMAIN done \ {figure} |-> done[f]]

\* Removes the results of one point to have it run again.
DeleteResults(i) ==
  /\ pc = "idle" /\ Figure(i) \in DOMAIN done /\ stops < MaxStops
  /\ file' = [file EXCEPT ![i] = [role \in Roles(i) |-> [size |-> "missing", run |-> 0]]]
  /\ done' = Undone(Figure(i)) /\ stops' = stops + 1
  /\ UNCHANGED <<script, run, pc, at, k, connected, machineVars, copied, faults>>

Terminate ==
  /\ script # 0 /\ script' = 0 /\ pc' = "killall"
  /\ \/ hung # {} /\ stops' = stops
     \/ stops < MaxStops /\ stops' = stops + 1
  /\ UNCHANGED <<done, run, at, k, connected, machineVars, file, copied, faults>>

KillAll ==
  /\ pc = "killall" /\ pc' = "idle"
  /\ running' = {p \in running : p.program \notin Killed(p.role)}
  /\ hung' = hung \cap running'
  /\ UNCHANGED <<script, done, run, at, k, connected, addresses, output, file, copied, stops,
                 faults>>

-----------------------------------------------------------------------------
(* figure_6_7: the copy of the best step1 result of figure_5 *)

Step1Sizes == {file[i][Client].size : i \in {j \in DOMAIN Points : Part(j) = "coeus"}}

CopySkip ==
  /\ pc = "copy" /\ copied.size # "missing" /\ pc' = "point"
  /\ UNCHANGED <<script, done, run, at, k, connected, machineVars, file, copied, stops, faults>>

\* A result of figure_5 is missing, or too short to hold the latency: the script exits, and
\* the operator runs figure 5 again.
CopyFails ==
  /\ pc = "copy" /\ copied.size = "missing" /\ Step1Sizes # {"whole"}
  /\ script' = 0 /\ pc' = "idle" /\ done' = Undone(5)
  /\ UNCHANGED <<run, at, k, connected, machineVars, file, copied, stops, faults>>

\* shutil.copy truncates its destination, then writes it.
CopyOpen ==
  /\ pc = "copy" /\ copied.size = "missing" /\ Step1Sizes \subseteq {"short", "whole"}
  /\ copied' = [size |-> "cut", run |-> run] /\ pc' = "copying"
  /\ UNCHANGED <<script, done, run, at, k, connected, machineVars, file, stops, faults>>

CopyEnd ==
  /\ pc = "copying" /\ pc' = "point"
  /\ \E size \in Step1Sizes: copied' = [copied EXCEPT !.size = size]
  /\ UNCHANGED <<script, done, run, at, k, connected, machineVars, file, stops, faults>>

Copy == CopySkip \/ CopyFails \/ CopyOpen \/ CopyEnd

-----------------------------------------------------------------------------
(* The loop over the data points *)

\* The next point of the script, if there is one; between the parts of figures 5 and 6
\* the connections are closed and forgotten.
Advance ==
  IF at < Len(Points) /\ Figure(at + 1) = script
  THEN /\ at' = at + 1 /\ pc' = "point"
       /\ connected' = IF Part(at + 1) # Part(at) /\ script # 9 THEN 0 ELSE connected
       /\ UNCHANGED <<script, done>>
  ELSE /\ script' = 0 /\ pc' = "idle"
       /\ done' = [f \in DOMAIN done \cup {script} |-> IF f = script THEN run ELSE done[f]]
       /\ UNCHANGED <<at, connected>>

\* The connections are made before the first point is looked at, except in figure 5,
\* where a point that is not skipped and needs more workers makes them.
Connect ==
  /\ pc = "point" /\ Points[at].workers > connected /\ (script = 5 => ~Accepted(at))
  /\ connected' = Points[at].workers /\ pc' = "put"
  /\ UNCHANGED <<script, done, run, at, k, machineVars, file, copied, stops, faults>>

PutAddresses ==
  /\ pc = "put" /\ pc' = "point"
  /\ addresses' = [addresses EXCEPT ![Directory(at)] = connected]
  /\ UNCHANGED <<script, done, run, at, k, connected, running, hung, output, file, copied, stops,
                 faults>>

SkipPoint ==
  /\ pc = "point" /\ Accepted(at) /\ (script = 5 \/ Points[at].workers <= connected)
  /\ Advance
  /\ UNCHANGED <<run, k, machineVars, file, copied, stops, faults>>

\* Mutant of BeginPoint: the results that are there are not looked at.
BeginPointAlways ==
  /\ pc = "point" /\ Points[at].workers <= connected
  /\ pc' = "start" /\ k' = 1 /\ output' = [role \in Roles(at) |-> "none"]
  /\ UNCHANGED <<script, done, run, at, connected, addresses, running, hung, file, copied, stops,
                 faults>>

BeginPoint ==
  /\ pc = "point" /\ ~Accepted(at) /\ Points[at].workers <= connected
  /\ pc' = "start" /\ k' = 1 /\ output' = [role \in Roles(at) |-> "none"]
  /\ UNCHANGED <<script, done, run, at, connected, addresses, running, hung, file, copied, stops,
                 faults>>

\* The place after k in a loop over the programs of the point, which then goes on to next.
Following(order, next) ==
  IF k < Len(order) THEN k' = k + 1 /\ pc' = pc ELSE k' = 1 /\ pc' = next

StartProgram ==
  /\ pc = "start"
  /\ LET role == StartOrder(at)[k] IN
     running' = running \cup {[run |-> run, point |-> at, role |-> role,
                               program |-> Program(at, role)]}
  /\ Following(StartOrder(at), "read")
  /\ UNCHANGED <<script, done, run, at, connected, addresses, hung, output, file, copied, stops,
                 faults>>

\* Mutant of ReadOutput: a program that printed too little is waited for.
ReadOutputWhole ==
  /\ pc = "read" /\ output[ReadOrder(at)[k]] = "whole"
  /\ Following(ReadOrder(at), "write")
  /\ UNCHANGED <<script, done, run, at, connected, machineVars, file, copied, stops, faults>>

\* readlines() returns when the program has closed its output.
ReadOutput ==
  /\ pc = "read" /\ output[ReadOrder(at)[k]] # "none"
  /\ Following(ReadOrder(at), "write")
  /\ UNCHANGED <<script, done, run, at, connected, machineVars, file, copied, stops, faults>>

WriteFile(size) ==
  file' = [file EXCEPT ![at][WriteOrder(at)[k]] = [size |-> size, run |-> run]]

OpenFile ==
  /\ pc = "write" /\ WriteFile("cut") /\ pc' = "close"
  /\ UNCHANGED <<script, done, run, at, k, connected, machineVars, copied, stops, faults>>

CloseFile ==
  /\ pc = "close" /\ WriteFile(output[WriteOrder(at)[k]])
  /\ IF k < Len(WriteOrder(at))
     THEN k' = k + 1 /\ pc' = "write" /\ UNCHANGED <<script, done, at, connected>>
     ELSE k' = 1 /\ Advance
  /\ UNCHANGED <<run, machineVars, copied, stops, faults>>

DataPoint ==
  \/ Connect \/ PutAddresses \/ SkipPoint \/ BeginPoint
  \/ StartProgram \/ ReadOutput \/ OpenFile \/ CloseFile

-----------------------------------------------------------------------------
(* The programs, as the script sees them *)

\* The script still holds the channel of the program's output.
Heard(p) == script # 0 /\ p.run = run /\ p.point = at

\* A program ends, early or with all its output, which is lost if the script is gone.
End(p) ==
  /\ p \in running \ hung /\ running' = running \ {p}
  /\ \E size \in {"whole", "short"}:
       /\ size = "short" => faults < MaxFaults
       /\ faults' = faults + (IF size = "short" THEN 1 ELSE 0)
       /\ output' = IF Heard(p) THEN [output EXCEPT ![p.role] = size] ELSE output
  /\ UNCHANGED <<scriptVars, addresses, hung, file, copied, stops>>

\* A missed wake-up (QuerySession, RankSession) or a disruption of the network.
Hang(p) ==
  /\ p \in running \ hung /\ faults < MaxFaults
  /\ hung' = hung \cup {p} /\ faults' = faults + 1
  /\ UNCHANGED <<scriptVars, addresses, running, output, file, copied, stops>>

Next ==
  \/ \E figure \in Figures: RunScript(figure)
  \/ \E i \in DOMAIN Points: DeleteResults(i)
  \/ Terminate \/ KillAll \/ Copy \/ DataPoint
  \/ \E p \in running: End(p) \/ Hang(p)

Spec == Init /\ [][Next]_vars

\* The script runs on; a program that does not hang ends; the operator terminates a script
\* that hangs and starts the scripts again until all have ended.
Fairness ==
  /\ WF_vars(Copy \/ DataPoint)
  /\ WF_vars(\E p \in running: End(p))
  /\ WF_vars(hung # {} /\ Terminate) /\ WF_vars(KillAll)
  /\ WF_vars(\E figure \in Figures: RunScript(figure))

FairSpec == Spec /\ Fairness

-----------------------------------------------------------------------------
\* The programs of a data point have the machines, and their ports, to themselves: none of
\* another point or of a terminated run is left, although a script starts programs on many
\* machines one after the other and can be stopped anywhere.  And all their addresses have
\* been distributed, into the directory of the programs that are run.
MachinesReady ==
  /\ script # 0 => \A p \in running: Heard(p)
  /\ pc \in {"start", "read"} => addresses[Directory(at)] >= Points[at].workers

\* The files of point i that the graphs read: figure_*/gen_graph.py. Figure 6's graphs read
\* the copy of the step1 result too.
GraphRoles(i) == IF Figure(i) = 9 THEN Roles(i) ELSE {Client}
GraphFiles(i) == {file[i][role] : role \in GraphRoles(i)}
GraphCopies(figure) == IF figure = 6 THEN {copied} ELSE {}

\* When a script has said "All done!" every file its graphs read is there. Those it writes
\* itself were written to their end, whatever was interrupted on the way; one that is short
\* is so because the program ended early in the script's last run, which has therefore
\* reported it. The copy of the step1 result, which is kept as it is found, was written to
\* its end too, unless an earlier run of the script was interrupted while it copied.
FinishedIsWritten ==
  \A figure \in DOMAIN done:
    /\ \A i \in {j \in DOMAIN Points : Figure(j) = figure}: \A f \in GraphFiles(i):
         /\ f.size \in {"short", "whole"}
         /\ f.size = "short" => f.run = done[figure]
    /\ \A f \in GraphCopies(figure):
         /\ f.size # "missing"
         /\ f.size = "cut" => f.run < done[figure]

\* The attempt that has written the client's file of point i is writing the other files.
StillWriting(i) == at = i /\ pc \in {"write", "close"} /\ file[i][Client].run = run

\* The result of a finished point is not measured again: what one run has completed no later
\* run, interruption or failure touches, unless the operator deletes it.
FinishedIsKept ==
  [][\A i \in DOMAIN Points:
       Accepted(i) /\ ~StillWriting(i) /\ file'[i] # file[i] => pc = "idle"]_vars

\* Terminating what hangs and starting again leads to the end of all scripts.
AllFiguresDone == <>[](DOMAIN done = Figures)
=============================================================================
