------------------------------- MODULE PoolTurns -------------------------------
(***************************************************************************)
(* A data pool (DataPool) under the two distributions that the pools of    *)
(* the runs do not draw by: its rows in turn, or at random.                *)
(***************************************************************************)
EXTENDS Integers

CONSTANTS
  Rows,      \* rows in the fixture
  MaxDraws   \* how often a row is handed out at most

ASSUME TurnsAssumption == Rows \in Nat \ {0} /\ MaxDraws \in Nat

VARIABLES
  order,           \* how this pool hands out its rows
  cursor, drawn    \* see DataPool

turnVars == <<order, cursor, drawn>>

RoundRobin == INSTANCE DataPool WITH Distribution <- "round-robin", Exhaustion <- "fail", RowCount <- Rows
Random     == INSTANCE DataPool WITH Distribution <- "random", Exhaustion <- "fail", RowCount <- Rows

TurnsInit == order \in {"round-robin", "random"} /\ RoundRobin!PoolInit

(* The bound of the instance. *)
Drawing == \A row \in 1 .. Rows : drawn[row] < MaxDraws

NextInTurn == order = "round-robin" /\ Drawing /\ (\E row \in 1 .. Rows : RoundRobin!DrawRow(row)) /\ UNCHANGED order
NextRandom == order = "random" /\ Drawing /\ (\E row \in 1 .. Rows : Random!DrawRow(row)) /\ UNCHANGED order

TurnsNext == NextInTurn \/ NextRandom

TurnsSpec == TurnsInit /\ [][TurnsNext]_turnVars

(* A pool that hands its rows out in turn does so evenly, and of a pool    *)
(* that draws at random nothing of the kind is said (Pool.Next).           *)
PoolsEvenHanded == order = "round-robin" => RoundRobin!EvenHanded
===============================================================================
