--------------------------- MODULE ClosedPoolProofs ---------------------------
(***************************************************************************)
(* The VU-driven model, for every number of virtual users, flows and       *)
(* iterations and every curve: its types, the inductive invariant RunInv   *)
(* (VirtualUsers) with the properties it implies, and that it implements   *)
(* LoadRun.                                                                *)
(***************************************************************************)
EXTENDS ClosedPool, TallyProofs

(* The steps of the spawner, and of a virtual user between two iterations. *)
ClosedStep ==
  \/ Advance
  \/ Tick
  \/ Spawner
  \/ \E v \in VU : StopLooping(v) \/ NextIteration(v)

-------------------------------------------------------------------------------
(* Types. *)

LEMMA ClosedStepType ==
  ASSUME TypeOK, ClosedStep
  PROVE  TypeOK'
<1> USE ClosedAssumption
<1>1. CASE Advance
  <2>1. now \in 0 .. Duration /\ now < Duration /\ now' = now + 1 /\ Duration \in Nat
    BY <1>1 DEF TypeOK, Advance
  <2>2. now' \in 0 .. Duration
    BY <2>1
  <2>3. SharedTypeOK' /\ main' = main
    BY <1>1, UnchangedType DEF TypeOK, Advance
  <2>4. QED BY <1>1, <2>2, <2>3 DEF TypeOK, Advance
<1>2. CASE Tick
  <2>1. SharedTypeOK' /\ main' = main
    BY <1>2, UnchangedType DEF TypeOK, Tick
  <2>2. QED BY <1>2, <2>1 DEF TypeOK, Tick
<1>3. CASE \E v \in VU : Spawn(v)
  <2>1. PICK v \in VU : Spawn(v)
    BY <1>3
  <2>2. SharedTypeOK'
    BY <2>1 DEF TypeOK, Spawn, Goto, Steps, SharedTypeOK, PoolTypeOK, poolVars,
       counterVars, budgetVars, ctxVars, watchVars
  <2>3. QED BY <2>1, <2>2 DEF TypeOK, Spawn, closedVars
<1>4. CASE SpawnedEnough \/ SelectDone \/ SelectTick
  <2>1. UNCHANGED <<pc, cur, acc, counterVars, budgetVars, ctxVars, merged,
                    watchVars, result, poolVars>>
    BY <1>4 DEF SpawnedEnough, SelectDone, SelectTick
  <2>2. SharedTypeOK'
    BY <2>1 DEF TypeOK, SharedTypeOK, PoolTypeOK, poolVars, counterVars, budgetVars,
       ctxVars, watchVars
  <2>3. main' \in {"spawn", "select", "join"}
    BY <1>4 DEF SpawnedEnough, SelectDone, SelectTick
  <2>4. CASE SpawnedEnough \/ SelectDone
    BY <2>2, <2>3, <2>4 DEF TypeOK, SpawnedEnough, SelectDone, closedVars
  <2>5. CASE SelectTick
    <3>1. tick \in 0 .. Duration
      BY <2>5 DEF TypeOK, SelectTick
    <3>2. Curve[tick] \in Nat
      BY <3>1
    <3>3. QED BY <2>2, <2>3, <2>5, <3>2 DEF TypeOK, SelectTick
  <2>6. QED BY <1>4, <2>4, <2>5
<1>5. CASE \E v \in VU : StopLooping(v)
  <2>1. PICK v \in VU : StopLooping(v)
    BY <1>5
  <2>2. SharedTypeOK'
    BY <2>1 DEF TypeOK, StopLooping, Goto, Steps, SharedTypeOK, PoolTypeOK, poolVars,
       counterVars, budgetVars, ctxVars, watchVars
  <2>3. QED BY <2>1, <2>2 DEF TypeOK, StopLooping, closedVars
<1>6. CASE \E v \in VU : NextIteration(v)
  <2>1. PICK v \in VU : NextIteration(v)
    BY <1>6
  <2>2. SharedTypeOK'
    BY <2>1 DEF TypeOK, NextIteration, Goto, Steps, SharedTypeOK, PoolTypeOK, poolVars,
       counterVars, budgetVars, ctxVars, watchVars
  <2>3. begun' \in 0 .. MaxIterations
    <3>1. begun \in 0 .. MaxIterations /\ begun < MaxIterations /\ begun' = begun + 1
      BY <2>1 DEF TypeOK, NextIteration
    <3>2. QED BY <3>1
  <2>4. QED BY <2>1, <2>2, <2>3 DEF TypeOK, NextIteration
<1>7. QED BY <1>1, <1>2, <1>3, <1>4, <1>5, <1>6 DEF ClosedStep, Spawner

LEMMA IterateType ==
  ASSUME TypeOK, NEW v \in VU, Iterate(v)
  PROVE  TypeOK'
<1>1. SharedTypeOK' /\ main' = main
  <2>1. CASE EnterIteration(v)
    BY <2>1, EnterIterationType DEF TypeOK, EnterIteration
  <2>2. CASE StartFlow(v, 0)
    <3>1. SharedTypeOK'
      BY <2>2, StartFlowType DEF TypeOK
    <3>2. QED BY <2>2, <3>1 DEF StartFlow
  <2>3. CASE FinishFlow(v)
    BY <2>3, FinishFlowType DEF TypeOK, FinishFlow
  <2>4. CASE CountFailed(v)
    BY <2>4, CountFailedType DEF TypeOK, CountFailed
  <2>5. CASE CountThrottled(v)
    BY <2>5, CountThrottledType DEF TypeOK, CountThrottled
  <2>6. CASE RecordFlow(v)
    BY <2>6, RecordFlowType DEF TypeOK, RecordFlow
  <2>7. CASE LeaveIteration(v, IF Once THEN "merge" ELSE "loop")
    <3>1. (IF Once THEN "merge" ELSE "loop") \in Steps
      BY DEF Steps
    <3>2. QED BY <2>7, <3>1, LeaveIterationType DEF TypeOK, LeaveIteration
  <2>8. CASE Merge(v)
    BY <2>8, MergeType DEF TypeOK, Merge
  <2>9. QED BY <2>1, <2>2, <2>3, <2>4, <2>5, <2>6, <2>7, <2>8 DEF Iterate
<1>2. QED BY <1>1 DEF TypeOK, Iterate, closedVars

LEMMA ClosedLifecycleType ==
  ASSUME TypeOK, Lifecycle
  PROVE  TypeOK'
<1>1. SharedTypeOK'
  BY LifecycleType DEF TypeOK, Lifecycle
<1>2. main' \in {main, "stopping", "returned"}
  BY DEF Lifecycle, Interrupt, StopObservers, Observe, TickSnapshot, FinalSnapshot,
     LoadCompleted, LoadFailed, Publish, StopSampler, Return
<1>3. QED BY <1>1, <1>2 DEF TypeOK, Lifecycle, closedVars

LEMMA InitType == Init => TypeOK
<1>1. SUFFICES ASSUME Init PROVE TypeOK
  OBVIOUS
<1>2. SharedTypeOK
  BY <1>1, SharedInitType DEF Init
<1>3. target \in Nat
  BY <1>1, ClosedAssumption DEF Init
<1>4. QED BY <1>1, <1>2, <1>3, ClosedAssumption DEF Init, TypeOK

(* Every variable of the VU-driven model keeps its type.                   *)
THEOREM TypeCorrect == Spec => []TypeOK
<1>1. TypeOK /\ [Next]_vars => TypeOK'
  <2>1. SUFFICES ASSUME TypeOK, [Next]_vars PROVE TypeOK'
    OBVIOUS
  <2>2. CASE ClosedStep
    BY <2>1, <2>2, ClosedStepType
  <2>3. CASE \E v \in VU : Iterate(v)
    BY <2>1, <2>3, IterateType
  <2>4. CASE Lifecycle
    BY <2>1, <2>4, ClosedLifecycleType
  <2>5. CASE UNCHANGED vars
    <3>1. SharedTypeOK' /\ main' = main
      BY <2>1, <2>5, UnchangedType DEF TypeOK, vars
    <3>2. QED BY <2>1, <2>5, <3>1 DEF TypeOK, vars, closedVars
  <2>6. QED
    BY <2>1, <2>2, <2>3, <2>4, <2>5 DEF Next, ClosedStep, VirtualUser, Finished
<1>2. QED BY <1>1, InitType, PTL DEF Spec

-------------------------------------------------------------------------------
(* The invariant. *)

LEMMA ClosedStepQuiet ==
  ASSUME ClosedStep
  PROVE  UNCHANGED <<cur, acc, merged, completed, aborted, cancelled, result>>
<1>1. UNCHANGED <<cur, acc, merged, counterVars, ctxVars, result>>
  BY DEF ClosedStep, Advance, Tick, Spawner, Spawn, SpawnedEnough, SelectDone,
     SelectTick, StopLooping, NextIteration, sharedVars
<1>2. QED BY <1>1 DEF counterVars, ctxVars

LEMMA ClosedStepInv ==
  ASSUME TypeOK, RunInv, ClosedStep
  PROVE  RunInv' /\ (main' = "returned" <=> main = "returned")
<1>1. UNCHANGED <<cur, acc, merged, completed, aborted, cancelled, result>>
  BY ClosedStepQuiet
<1>2. CASE Advance \/ Tick
  <2>1. UNCHANGED <<pc, main>>
    BY <1>2 DEF Advance, Tick, sharedVars
  <2>2. QED BY <1>1, <2>1, IdleInv
<1>3. CASE SpawnedEnough \/ SelectDone \/ SelectTick
  <2>1. /\ main \notin {"stopping", "returned"}
        /\ main' \notin {"stopping", "returned"}
        /\ pc' = pc
    BY <1>3 DEF SpawnedEnough, SelectDone, SelectTick
  <2>2. EmptyHanded' /\ Settled'
    BY <1>1, <2>1 DEF RunInv, EmptyHanded, Settled
  <2>3. \A w \in VU : Counting(w)' <=> Counting(w)
    BY <2>1 DEF Counting
  <2>4. QED BY <1>1, <2>1, <2>2, <2>3, QuietStep
<1>4. CASE \E v \in VU : Spawn(v)
  <2>1. PICK v \in VU : Spawn(v)
    BY <1>4
  <2>2. /\ Goto(v, "loop") /\ ~ Counting(v)
        /\ main \notin {"stopping", "returned"} /\ main' = main
    BY <2>1 DEF Spawn, At, Counting
  <2>3. QED BY <1>1, <2>2, MoveInv DEF TypeOK
<1>5. CASE \E v \in VU : StopLooping(v)
  <2>1. PICK v \in VU : StopLooping(v)
    BY <1>5
  <2>2. /\ Goto(v, "merge") /\ ~ Counting(v)
        /\ main \notin {"stopping", "returned"} /\ main' = main
    BY <2>1, AtWork DEF StopLooping, At, Counting, RunInv
  <2>3. QED BY <1>1, <2>2, MoveInv DEF TypeOK
<1>6. CASE \E v \in VU : NextIteration(v)
  <2>1. PICK v \in VU : NextIteration(v)
    BY <1>6
  <2>2. /\ Goto(v, "enter") /\ ~ Counting(v)
        /\ main \notin {"stopping", "returned"} /\ main' = main
    BY <2>1, AtWork DEF NextIteration, At, Counting, RunInv
  <2>3. QED BY <1>1, <2>2, MoveInv DEF TypeOK
<1>7. QED BY <1>2, <1>3, <1>4, <1>5, <1>6 DEF ClosedStep, Spawner

LEMMA IterateInv ==
  ASSUME TypeOK, RunInv, NEW v \in VU, Iterate(v)
  PROVE  RunInv'
<1>1. SharedTypeOK
  BY DEF TypeOK
<1>2. (IF Once THEN "merge" ELSE "loop") \in {"loop", "merge"}
  OBVIOUS
<1>3. CASE EnterIteration(v)
  BY <1>1, <1>3, EnterIterationInv
<1>4. CASE StartFlow(v, 0)
  BY <1>1, <1>4, StartFlowInv
<1>5. CASE FinishFlow(v)
  BY <1>1, <1>5, FinishFlowInv
<1>6. CASE CountFailed(v)
  BY <1>1, <1>6, CountFailedInv
<1>7. CASE CountThrottled(v)
  BY <1>1, <1>7, CountThrottledInv
<1>8. CASE RecordFlow(v)
  BY <1>1, <1>8, RecordFlowInv
<1>9. CASE LeaveIteration(v, IF Once THEN "merge" ELSE "loop")
  BY <1>1, <1>2, <1>9, LeaveIterationInv
<1>10. CASE Merge(v)
  BY <1>1, <1>10, MergeInv
<1>11. QED BY <1>3, <1>4, <1>5, <1>6, <1>7, <1>8, <1>9, <1>10 DEF Iterate

(* RunInv is an invariant: it holds at the start and every step of the     *)
(* spawner, of a virtual user and of Run keeps it.                         *)
THEOREM Inductive == Spec => []RunInv
<1>1. Init => RunInv
  BY SharedInitInv DEF Init
<1>2. TypeOK /\ RunInv /\ [Next]_vars => RunInv'
  <2>1. SUFFICES ASSUME TypeOK, RunInv, [Next]_vars PROVE RunInv'
    OBVIOUS
  <2>2. CASE ClosedStep
    BY <2>1, <2>2, ClosedStepInv
  <2>3. CASE \E v \in VU : Iterate(v)
    BY <2>1, <2>3, IterateInv
  <2>4. CASE Lifecycle
    BY <2>1, <2>4, LifecycleInv DEF Lifecycle
  <2>5. CASE UNCHANGED vars
    <3>1. UNCHANGED <<pc, cur, acc, merged, completed, aborted, cancelled, main, result>>
      BY <2>5 DEF vars, sharedVars, counterVars, ctxVars
    <3>2. QED BY <2>1, <3>1, IdleInv
  <2>6. QED
    BY <2>1, <2>2, <2>3, <2>4, <2>5 DEF Next, ClosedStep, VirtualUser, Finished
<1>3. QED BY <1>1, <1>2, TypeCorrect, PTL DEF Spec

(* Whatever the interleaving of completions and merges, no counted         *)
(* flow-run is lost and none is held twice.                                *)
THEOREM NothingLost == Spec => []NoFlowRunLost
<1>1. RunInv => NoFlowRunLost
  BY RunInvImplies
<1>2. QED BY <1>1, Inductive, PTL

(* A run that returned, on time or stopped, reports all that completed,    *)
(* and every goroutine it started is gone.                                 *)
THEOREM Returned == Spec => []ReturnedInFull
<1>1. RunInv => ReturnedInFull
  BY RunInvImplies
<1>2. QED BY <1>1, Inductive, PTL

(* The kill switch is reported exactly when a flow-run of the Result asked *)
(* for it.                                                                 *)
THEOREM KillSwitch == Spec => []KillSwitchReported
<1>1. RunInv => KillSwitchReported
  BY RunInvImplies
<1>2. QED BY <1>1, Inductive, PTL

(* The Result is whole: nothing lost or held twice, nobody still running,  *)
(* an abort reported if and only if it was asked for.                      *)
THEOREM WholeResult == Spec => []ResultWhole
<1>1. NoFlowRunLost /\ ReturnedInFull /\ KillSwitchReported => ResultWhole
  BY DEF ResultWhole
<1>2. QED BY <1>1, NothingLost, Returned, KillSwitch, PTL

-------------------------------------------------------------------------------
(* The data pool. *)

PoolInv == RowsInv /\ InRounds

LEMMA ClosedStepRows ==
  ASSUME TypeOK, PoolInv, ClosedStep
  PROVE  PoolInv'
<1>1. UNCHANGED <<cur, acc, merged, poolVars>>
  BY DEF ClosedStep, Advance, Tick, Spawner, Spawn, SpawnedEnough, SelectDone,
     SelectTick, StopLooping, NextIteration, sharedVars
<1>2. Held' = Held
  BY <1>1 DEF Held
<1>3. \A w \in VU : At(w, "running")' => At(w, "running")
  BY DEF ClosedStep, Advance, Tick, Spawner, Spawn, SpawnedEnough, SelectDone,
     SelectTick, StopLooping, NextIteration, sharedVars, Goto, At, TypeOK, SharedTypeOK
<1>4. QED BY <1>1, <1>2, <1>3, RowlessStep, PoolStepInRounds DEF PoolInv

LEMMA IterateRows ==
  ASSUME TypeOK, RunInv, PoolInv, NEW v \in VU, Iterate(v)
  PROVE  PoolInv'
<1>1. SharedTypeOK /\ RowsInv /\ InRounds
  BY DEF TypeOK, PoolInv
<1>2. CASE StartFlow(v, 0)
  BY <1>1, <1>2, StartFlowRows, StartFlowInRounds DEF PoolInv
<1>3. CASE FinishFlow(v)
  <2>1. UNCHANGED poolVars
    BY <1>3 DEF FinishFlow
  <2>2. QED BY <1>1, <1>3, <2>1, FinishFlowRows, PoolStepInRounds DEF PoolInv
<1>4. CASE \/ EnterIteration(v)
           \/ CountFailed(v)
           \/ CountThrottled(v)
           \/ RecordFlow(v)
           \/ LeaveIteration(v, IF Once THEN "merge" ELSE "loop")
           \/ Merge(v)
  BY <1>1, <1>4, IterationRows, PoolStepInRounds DEF PoolInv
<1>5. QED BY <1>2, <1>3, <1>4 DEF Iterate

(* The rows of a pool go out in rounds, and no row goes out twice before   *)
(* the pool wraps.                                                         *)
THEOREM PoolInvariant == Spec => []PoolInv
<1>1. Init => PoolInv
  BY SharedInitRows DEF Init, PoolInv
<1>2. TypeOK /\ RunInv /\ PoolInv /\ [Next]_vars => PoolInv'
  <2>1. SUFFICES ASSUME TypeOK, RunInv, PoolInv, [Next]_vars PROVE PoolInv'
    OBVIOUS
  <2>2. CASE ClosedStep
    BY <2>1, <2>2, ClosedStepRows
  <2>3. CASE \E v \in VU : Iterate(v)
    BY <2>1, <2>3, IterateRows
  <2>4. CASE Lifecycle
    BY <2>1, <2>4, LifecycleRows, PoolStepInRounds DEF Lifecycle, PoolInv
  <2>5. CASE UNCHANGED vars
    <3>1. UNCHANGED <<pc, cur, acc, merged, poolVars>>
      BY <2>5 DEF vars, sharedVars
    <3>2. Held' = Held
      BY <3>1 DEF Held
    <3>3. QED BY <2>1, <3>1, <3>2, RowlessStep, PoolStepInRounds DEF PoolInv, At
  <2>6. QED
    BY <2>1, <2>2, <2>3, <2>4, <2>5 DEF Next, ClosedStep, VirtualUser, Finished
<1>3. QED BY <1>1, <1>2, TypeCorrect, Inductive, PTL DEF Spec

(* A unique-per-vu pool that does not cycle hands each row to one flow-run *)
(* only, whichever virtual users draw.                                     *)
THEOREM RowsUnique == Spec => []UniqueRows
<1>1. PoolInv => UniqueRows
  BY DEF PoolInv, RowsInv
<1>2. QED BY <1>1, PoolInvariant, PTL

(* Rows are dispensed evenly, across every wrap.                           *)
THEOREM RowsEven == Spec => []EvenHanded
<1>1. TypeOK /\ PoolInv => EvenHanded
  BY InRoundsImplies DEF PoolInv, TypeOK, SharedTypeOK
<1>2. QED BY <1>1, TypeCorrect, PoolInvariant, PTL

-------------------------------------------------------------------------------
(* Refinement. *)

(* The VU-driven model implements LoadRun: FinishFlow is its Finish,       *)
(* Return its Return, and no other step shows.                             *)
THEOREM Refines == Spec => ImplementsLoadRun
<1>1. Init => Abstract!Init
  <2>1. SUFFICES ASSUME Init PROVE Held = {} /\ Reported = NoResult
    BY DEF Abstract!Init
  <2>2. Held = {}
    BY <2>1, SharedInitInv DEF Init
  <2>3. Reported = NoResult
    BY <2>1 DEF Init, Reported
  <2>4. QED BY <2>2, <2>3
<1>2. TypeOK /\ RunInv /\ [Next]_vars => [Abstract!Next]_(Abstract!vars)
  <2>1. SUFFICES ASSUME TypeOK, RunInv, [Next]_vars
                 PROVE  [Abstract!Next]_(Abstract!vars)
    OBVIOUS
  <2>2. SharedTypeOK
    BY <2>1 DEF TypeOK
  <2>3. CASE ClosedStep
    <3>1. UNCHANGED <<acc, merged, result>>
      BY <2>3, ClosedStepQuiet
    <3>2. Held' = Held
      BY <3>1 DEF Held
    <3>3. QED BY <2>1, <2>3, <3>1, <3>2, ClosedStepInv, Stutters
  <2>4. CASE \E v \in VU : FinishFlow(v)
    BY <2>1, <2>2, <2>4, FinishFlowFinishes DEF Abstract!Next
  <2>5. CASE \E v \in VU : Iterate(v) /\ ~ FinishFlow(v)
    <3>1. PICK v \in VU : Iterate(v) /\ ~ FinishFlow(v)
      BY <2>5
    <3>2. QED BY <2>1, <2>2, <3>1, IterationStutters DEF Iterate
  <2>6. CASE Lifecycle
    BY <2>1, <2>2, <2>6, LifecycleImplements DEF Lifecycle
  <2>7. CASE UNCHANGED vars
    <3>1. UNCHANGED <<acc, merged, result, main>>
      BY <2>7 DEF vars, sharedVars
    <3>2. Held' = Held
      BY <3>1 DEF Held
    <3>3. QED BY <3>1, <3>2, Stutters
  <2>8. QED
    BY <2>1, <2>3, <2>4, <2>5, <2>6, <2>7 DEF Next, ClosedStep, VirtualUser, Finished
<1>3. QED BY <1>1, <1>2, TypeCorrect, Inductive, PTL DEF Spec, ImplementsLoadRun, Abstract!Spec

-------------------------------------------------------------------------------
(* What a run counts. *)

(* Every step of the VU-driven model is one TallyProofs knows.             *)
LEMMA NextIsShared ==
  ASSUME TypeOK, [Next]_vars
  PROVE  SharedStep
<1>1. CASE UNCHANGED vars \/ Advance \/ Tick
  BY <1>1, IdleShared DEF vars, Advance, Tick
<1>2. CASE Spawner \/ \E v \in VU : StopLooping(v) \/ NextIteration(v)
  <2>1. /\ UNCHANGED <<acc, counterVars, budgetVars, ctxVars, merged, watchVars, result, cur>>
        /\ main' = main \/ {main, main'} \cap {"stopping", "returned"} = {}
    BY <1>2 DEF Spawner, Spawn, SpawnedEnough, SelectDone, SelectTick, StopLooping, NextIteration
  <2>2. \A w \in VU :
          \/ pc'[w] = pc[w]
          \/ /\ pc[w] \in {"unborn", "loop"} /\ pc'[w] \in {"loop", "enter", "merge"}
             /\ pc'[w] = "enter" => ~ cancelled
    BY <1>2 DEF Spawner, Spawn, SpawnedEnough, SelectDone, SelectTick, StopLooping,
       NextIteration, Goto, At, TypeOK, SharedTypeOK
  <2>3. DriverStep
    BY <2>1, <2>2 DEF DriverStep
  <2>4. QED BY <2>3 DEF SharedStep
<1>3. CASE \E v \in VU : Iterate(v)
  <2>1. PICK v \in VU : Iterate(v)
    BY <1>3
  <2>2. FlowStep(v)
    BY <2>1 DEF Iterate, FlowStep
  <2>3. QED BY <2>2 DEF SharedStep
<1>4. CASE Lifecycle
  BY <1>4 DEF Lifecycle, SharedStep
<1>5. QED BY <1>1, <1>2, <1>3, <1>4 DEF Next, VirtualUser, Finished

(* Passes, the gauge, the live counters, the snapshots of them and the     *)
(* trace budgets are in step with the flow-runs all along.                 *)
THEOREM Tally == Spec => []TallyInv
<1>1. Init => TallyInv
  BY TallyStart DEF Init
<1>2. TypeOK /\ TypeOK' /\ RunInv /\ RunInv' /\ TallyInv /\ [Next]_vars => TallyInv'
  BY NextIsShared, TallyStep DEF TypeOK, Sound
<1>3. QED BY <1>1, <1>2, TypeCorrect, Inductive, PTL DEF Spec

(* A run that returned has no flow-run in flight, and every iteration it   *)
(* counts stands for one pass over all the flows.                          *)
THEOREM PassesWhole == Spec => []WholePasses
<1>1. TypeOK /\ RunInv /\ TallyInv => WholePasses
  BY TallyInvImplies DEF TypeOK, Sound
<1>2. QED BY <1>1, TypeCorrect, Inductive, Tally, PTL

(* After the end of the context no virtual user completes more than the    *)
(* iteration it is on.                                                     *)
THEOREM CancelBound == Spec => []CancelBoundsWork
<1>1. TypeOK /\ RunInv /\ TallyInv => CancelBoundsWork
  BY TallyInvImplies DEF TypeOK, Sound
<1>2. QED BY <1>1, TypeCorrect, Inductive, Tally, PTL

(* No Progress invents a failure, and the last one says what the Result    *)
(* says.                                                                   *)
THEOREM Truthful == Spec => []ProgressTruthful
<1>1. TypeOK /\ RunInv /\ TallyInv => ProgressTruthful
  BY TallyInvImplies DEF TypeOK, Sound
<1>2. QED BY <1>1, TypeCorrect, Inductive, Tally, PTL

(* The counters a watcher sees never run backwards.                        *)
THEOREM NoRewinds == Spec => ProgressNeverRewinds
<1>1. TypeOK /\ RunInv /\ TallyInv /\ [Next]_vars =>
        [\A k \in DOMAIN published : published'[k] >= published[k]]_published
  BY NextIsShared, NoRewind DEF TypeOK, Sound, TallyInv
<1>2. QED BY <1>1, TypeCorrect, Inductive, Tally, PTL DEF Spec, ProgressNeverRewinds

(* Exactly as many traces are kept as the capture policy says, however the *)
(* virtual users' keepTrace calls interleave.                              *)
THEOREM Retention == Spec => []RetentionExact
<1>1. TypeOK /\ RunInv /\ TallyInv => RetentionExact
  BY TallyInvImplies DEF TypeOK, Sound
<1>2. QED BY <1>1, TypeCorrect, Inductive, Tally, PTL

===============================================================================
