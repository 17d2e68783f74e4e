------------------------------ MODULE ClosedPool ------------------------------
(***************************************************************************)
(* The VU-driven model: executor.Run with runClosed and vu                 *)
(* (internal/executor/pool.go).  A spawner follows the schedule's curve,   *)
(* each virtual user loops iterations until the deadline or the end of the *)
(* context, and the run ends when the last of them has merged.             *)
(*                                                                         *)
(* Time is in whole ticks from p.start; what happens at Duration and after *)
(* it is the same to every reader of the clock, so the clock stops there.  *)
(***************************************************************************)
EXTENDS VirtualUsers

CONSTANTS
  Once,            \* sched.Stop = StopOnce
  Peak,            \* pool.peak()
  Duration,        \* sched.Duration
  Curve,           \* curveAt(sched.Segments, .)
  MaxIterations    \* bound of the instance: iterations begun in the run

ASSUME ClosedAssumption ==
  /\ Once \in BOOLEAN
  /\ Peak \in Nat \ {0}
  /\ Duration \in Nat
  /\ Curve \in [0 .. Duration -> Nat]
  /\ MaxIterations \in Nat
  /\ Cardinality(VU) >= Peak
  /\ ~ Once => \A t \in 0 .. Duration : Cardinality(VU) >= Curve[t]

VARIABLES
  now,       \* time.Since(p.start), up to Duration
  tick,      \* the ticker's channel: the time of the tick it holds, or NoTick
  target,    \* what the spawner is spawning up to
  begun      \* iterations begun (for MaxIterations)

closedVars == <<now, tick, target, begun>>
vars == <<sharedVars, closedVars>>

NoTick == -1

TypeOK ==
  /\ SharedTypeOK
  /\ main \in {"spawn", "select", "join", "stopping", "returned"}
  /\ now \in 0 .. Duration
  /\ tick \in (0 .. Duration) \cup {NoTick}
  /\ target \in Nat
  /\ begun \in 0 .. MaxIterations

Init ==
  /\ SharedInit
  /\ main = "spawn"
  /\ now = 0
  /\ tick = NoTick
  /\ target = IF Once THEN Peak ELSE Curve[0]
  /\ begun = 0

-------------------------------------------------------------------------------

(* The clock runs on. *)
Advance ==
  /\ now < Duration
  /\ now' = now + 1
  /\ UNCHANGED <<sharedVars, tick, target, begun>>

(* A time.Ticker's channel holds one tick, and drops those that come while *)
(* it is full: the spawner may read a time that is long past.              *)
Tick ==
  /\ ~ Once
  /\ main \in {"spawn", "select"}
  /\ tick = NoTick
  /\ tick' = now
  /\ UNCHANGED <<sharedVars, now, target, begun>>

Spawned == {v \in VU : pc[v] # "unborn"}

(* One turn of spawn's loop (of the StopOnce loop): wg.Add and go p.vu.    *)
Spawn(v) ==
  /\ main = "spawn"
  /\ Cardinality(Spawned) < target
  /\ At(v, "unborn")
  /\ Goto(v, "loop")
  /\ UNCHANGED <<cur, acc, counterVars, budgetVars, ctxVars, merged, main,
                 watchVars, result, poolVars, closedVars>>

(* spawn has caught up with the curve; a StopOnce run goes straight to     *)
(* wg.Wait.                                                                *)
SpawnedEnough ==
  /\ main = "spawn"
  /\ Cardinality(Spawned) >= target
  /\ main' = IF Once THEN "join" ELSE "select"
  /\ UNCHANGED <<pc, cur, acc, counterVars, budgetVars, ctxVars, merged,
                 watchVars, result, poolVars, closedVars>>

(* The select of runClosed, which may take either ready case. *)
SelectDone ==
  /\ main = "select"
  /\ cancelled
  /\ main' = "join"
  /\ UNCHANGED <<pc, cur, acc, counterVars, budgetVars, ctxVars, merged,
                 watchVars, result, poolVars, closedVars>>

SelectTick ==
  /\ main = "select"
  /\ tick # NoTick
  /\ tick' = NoTick
  /\ IF tick >= Duration
       THEN main' = "join" /\ UNCHANGED target
       ELSE main' = "spawn" /\ target' = Curve[tick]
  /\ UNCHANGED <<pc, cur, acc, counterVars, budgetVars, ctxVars, merged,
                 watchVars, result, poolVars, now, begun>>

Spawner == SpawnedEnough \/ SelectDone \/ SelectTick \/ \E v \in VU : Spawn(v)

(* The head of vu's loop. *)
Expired == ~ Once /\ now >= Duration

(* Mutant of StopLooping: only the deadline ends the loop. *)
StopLoopingExpired(v) ==
  /\ At(v, "loop")
  /\ Expired
  /\ Goto(v, "merge")
  /\ UNCHANGED <<cur, acc, counterVars, budgetVars, ctxVars, merged, main,
                 watchVars, result, poolVars, closedVars>>

StopLooping(v) ==
  /\ At(v, "loop")
  /\ cancelled \/ Expired
  /\ Goto(v, "merge")
  /\ UNCHANGED <<cur, acc, counterVars, budgetVars, ctxVars, merged, main,
                 watchVars, result, poolVars, closedVars>>

(* Mutant of NextIteration: the context is not looked at. *)
NextIterationUnasked(v) ==
  /\ At(v, "loop")
  /\ ~ Expired
  /\ begun < MaxIterations
  /\ begun' = begun + 1
  /\ Goto(v, "enter")
  /\ UNCHANGED <<cur, acc, counterVars, budgetVars, ctxVars, merged, main,
                 watchVars, result, poolVars, now, tick, target>>

NextIteration(v) ==
  /\ At(v, "loop")
  /\ ~ cancelled
  /\ ~ Expired
  /\ begun < MaxIterations
  /\ begun' = begun + 1
  /\ Goto(v, "enter")
  /\ UNCHANGED <<cur, acc, counterVars, budgetVars, ctxVars, merged, main,
                 watchVars, result, poolVars, now, tick, target>>

Iterate(v) ==
  /\ \/ EnterIteration(v)
     \/ StartFlow(v, 0)
     \/ FinishFlow(v)
     \/ CountFailed(v)
     \/ CountThrottled(v)
     \/ RecordFlow(v)
     \/ LeaveIteration(v, IF Once THEN "merge" ELSE "loop")
     \/ Merge(v)
  /\ UNCHANGED closedVars

VirtualUser(v) == StopLooping(v) \/ NextIteration(v) \/ Iterate(v)

Lifecycle ==
  /\ Interrupt \/ StopObservers \/ Observe \/ Return
  /\ UNCHANGED closedVars

Finished == main = "returned" /\ UNCHANGED vars

Next ==
  \/ Advance
  \/ Tick
  \/ Spawner
  \/ \E v \in VU : VirtualUser(v)
  \/ Lifecycle
  \/ Finished

Spec == Init /\ [][Next]_vars

-------------------------------------------------------------------------------
(* Fairness: the Go scheduler runs every runnable goroutine, a flow-run    *)
(* ends because every call in it has a deadline (RequestTimeout) and every *)
(* loop in it a bound, and select is fair between ready cases.  Whether    *)
(* anybody interrupts is left open, and so is whether the clock moves.     *)

SchedulerFairness ==
  /\ WF_vars(Spawner)
  /\ \A v \in VU : WF_vars(VirtualUser(v))
  /\ WF_vars((StopObservers \/ StopSampler \/ Return) /\ UNCHANGED closedVars)
  /\ WF_vars((LoadFailed \/ Publish) /\ UNCHANGED closedVars)
  /\ SF_vars(SelectDone)
  /\ SF_vars(FinalSnapshot /\ UNCHANGED closedVars)

ClockFairness == WF_vars(Advance) /\ WF_vars(Tick)

FairSpec == Spec /\ SchedulerFairness

(* Run returns when the clock moves: the schedule elapses, no virtual user *)
(* is waited for forever, and every observer joins.                        *)
RunReturns == ClockFairness => <>(main = "returned")

(* Cancelling is enough: a run that was interrupted or that tripped its    *)
(* kill switch unwinds and returns without help from the clock.            *)
CancelUnwinds == cancelled ~> main = "returned"

(* A run comes to its end in either way.                                   *)
RunUnwinds == RunReturns /\ CancelUnwinds

===============================================================================
