------------------------------- MODULE MCPlanner -------------------------------
(***************************************************************************)
(* Instances of Planner for TLC: profiles over a few virtual users and a   *)
(* few ticks, in every combination of ramp, hold, cap and mode.            *)
(***************************************************************************)
EXTENDS Planner

Ramps == [from : -1 .. 4, to : -1 .. 4, over : 0 .. 5] \cup {Unset, Malformed}
Caps  == [count : 0 .. 3, per : {0, 2, 4}] \cup {Unset, Malformed}

ClosedProfiles ==
  [mode : {"system", "load", "stress"}, vus : 0 .. 3, ramp : Ramps,
   hold : {0, 2}, cap : {Unset}]

CappedProfiles ==
  [mode : {"integration", "soak"}, vus : 0 .. 2,
   ramp : {Unset, [from |-> 0, to |-> 2, over |-> 2]}, hold : {0, 2}, cap : Caps]

AllProfiles == ClosedProfiles \cup CappedProfiles

SomeCeilings == [vus : {0, 2, 3}, rps : {0, 2}]

===============================================================================
