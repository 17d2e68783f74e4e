-------------------------------- MODULE LoadRun --------------------------------
(***************************************************************************)
(* What executor.Run promises, whichever arrival model drives it: flow-runs *)
(* finish one after the other, and at some point Run returns a report that *)
(* holds exactly the flow-runs that finished, with the kill switch set if  *)
(* one of them tripped it.  After that nothing finishes any more.          *)
(***************************************************************************)
EXTENDS Integers

CONSTANTS
  FlowRun,        \* the flow-runs, as a reader of the report tells them apart
  NoReport

VARIABLES
  finished,       \* the flow-runs that have finished
  report          \* what Run returned

vars == <<finished, report>>

Report == [runs : SUBSET FlowRun, aborted : BOOLEAN]

TypeOK ==
  /\ finished \subseteq FlowRun
  /\ report \in Report \cup {NoReport}

Init ==
  /\ finished = {}
  /\ report = NoReport

Finish ==
  /\ report = NoReport
  /\ \E f \in finished' \ finished :
       f \in FlowRun /\ finished' = finished \cup {f}
  /\ UNCHANGED report

Return ==
  /\ report = NoReport
  /\ report' = [runs    |-> finished,
                aborted |-> \E f \in finished : f.aborted]
  /\ UNCHANGED finished

Next == Finish \/ Return

Spec == Init /\ [][Next]_vars

===============================================================================
