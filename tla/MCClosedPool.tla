----------------------------- MODULE MCClosedPool -----------------------------
(***************************************************************************)
(* Instances of ClosedPool for TLC.                                        *)
(***************************************************************************)
EXTENDS ClosedPool, TLC

Aborting        == [outcome |-> "failed", throttled |-> FALSE, aborted |-> TRUE]
AbortingLimited == [outcome |-> "failed", throttled |-> TRUE, aborted |-> TRUE]

Killing == {OK, Aborting}
Limited == {AbortingLimited}

(* Curves over 0..Duration: a ramp that holds, and the flat zero of a      *)
(* StopOnce run, which has no segments.                                    *)
RampOneTwo == [t \in 0 .. Duration |-> IF t = 0 THEN 1 ELSE 2]
NoCurve    == [t \in 0 .. Duration |-> 0]

Symmetry == Permutations(VU)

===============================================================================
