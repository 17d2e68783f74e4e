------------------------------ MODULE MCOpenPool ------------------------------
(***************************************************************************)
(* Instances of OpenPool for TLC.                                          *)
(***************************************************************************)
EXTENDS OpenPool, TLC

Aborting == [outcome |-> "failed", throttled |-> FALSE, aborted |-> TRUE]

Killing == {OK, Aborting}
Passing == {OK}

===============================================================================
