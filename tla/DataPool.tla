------------------------------- MODULE DataPool -------------------------------
(***************************************************************************)
(* A fixture pool (internal/data/pool.go): rows handed to concurrent       *)
(* consumers, one draw at a time under the pool's mutex, so a draw is one  *)
(* atomic step.  Rows are 1..RowCount; NoRow is the nil row a consumer     *)
(* goes on with when the pool is dry (or when the flow binds no pool,      *)
(* which is RowCount = 0: New refuses an empty pool).                      *)
(***************************************************************************)
EXTENDS Integers, FiniteSets

CONSTANTS
  RowCount,       \* rows in the fixture; 0 when the flow binds no data pool
  Distribution,   \* ir.PoolDistribution
  Exhaustion      \* ir.PoolExhaustion

Distributions == {"unique-per-vu", "round-robin", "random"}
Exhaustions   == {"fail", "cycle", "stop"}

ASSUME PoolAssumption ==
  /\ RowCount \in Nat
  /\ Distribution \in Distributions
  /\ Exhaustion \in Exhaustions

VARIABLES
  cursor,   \* Pool.cursor
  drawn     \* history: how many times each row was handed out

poolVars == <<cursor, drawn>>

NoRow == 0
Row   == 1 .. RowCount

PoolTypeOK ==
  /\ cursor \in 0 .. RowCount
  /\ Distribution # "unique-per-vu" /\ RowCount > 0 => cursor < RowCount
  /\ drawn \in [Row -> Nat]

PoolInit ==
  /\ cursor = 0
  /\ drawn = [r \in Row |-> 0]

HandOut(row) == drawn' = [drawn EXCEPT ![row] = @ + 1]

(* Mutant of DrawUnique: the cursor stays put. *)
DrawUniqueNoAdvance(row) ==
  /\ Distribution = "unique-per-vu"
  /\ cursor < RowCount
  /\ row = cursor + 1
  /\ HandOut(row)
  /\ UNCHANGED cursor

(* A unique-per-vu draw while rows are left. *)
DrawUnique(row) ==
  /\ Distribution = "unique-per-vu"
  /\ cursor < RowCount
  /\ row = cursor + 1
  /\ cursor' = cursor + 1
  /\ HandOut(row)

(* Mutants of DrawExhausted: the cursor runs on; the wrap leaves it on the  *)
(* row it gave.                                                            *)
DrawExhaustedRunsOn(row) ==
  /\ Distribution = "unique-per-vu"
  /\ RowCount > 0
  /\ cursor >= RowCount
  /\ row = (cursor % RowCount) + 1
  /\ cursor' = cursor + 1
  /\ HandOut(row)

DrawExhaustedAgain(row) ==
  /\ Distribution = "unique-per-vu"
  /\ RowCount > 0
  /\ cursor >= RowCount
  /\ row = 1
  /\ cursor' = 0
  /\ HandOut(row)

(* Pool.exhausted: "cycle" hands out the first row again and leaves the    *)
(* cursor on the second; "stop" and "fail" hand out nothing.               *)
DrawExhausted(row) ==
  /\ Distribution = "unique-per-vu"
  /\ RowCount > 0
  /\ cursor >= RowCount
  /\ \/ /\ Exhaustion = "cycle"
        /\ row = 1
        /\ cursor' = 1
        /\ HandOut(row)
     \/ /\ Exhaustion \in {"stop", "fail"}
        /\ row = NoRow
        /\ UNCHANGED poolVars

(* Mutant of DrawRoundRobin: a wrap that skips the first row. *)
DrawRoundRobinSkipping(row) ==
  /\ Distribution = "round-robin"
  /\ RowCount > 0
  /\ row = cursor + 1
  /\ cursor' = IF cursor + 1 = RowCount THEN RowCount - 1 ELSE cursor + 1
  /\ HandOut(row)

DrawRoundRobin(row) ==
  /\ Distribution = "round-robin"
  /\ RowCount > 0
  /\ row = cursor + 1
  /\ cursor' = (cursor + 1) % RowCount
  /\ HandOut(row)

(* The seeded RNG is abstracted to the rows it can return. *)
DrawRandom(row) ==
  /\ Distribution = "random"
  /\ row \in Row
  /\ HandOut(row)
  /\ UNCHANGED cursor

(* pool.drawRow on a flow that binds no pool. *)
DrawNothing(row) ==
  /\ RowCount = 0
  /\ row = NoRow
  /\ UNCHANGED poolVars

(* Pool.Next as the executor's drawRow sees it: an exhausted pool's error  *)
(* and its ok = FALSE both come out as the nil row.                        *)
DrawRow(row) ==
  \/ DrawUnique(row)
  \/ DrawExhausted(row)
  \/ DrawRoundRobin(row)
  \/ DrawRandom(row)
  \/ DrawNothing(row)

-------------------------------------------------------------------------------

(* Rows are dispensed evenly: at any moment an earlier row of the fixture  *)
(* was handed out as often as a later one, or once more - across every     *)
(* wrap of a "cycle" pool and of a round-robin one (pool.go:88, 103).      *)
EvenHanded ==
  Distribution # "random" =>
    \A i, j \in Row : i < j => drawn[i] - drawn[j] \in {0, 1}

===============================================================================
