---------------------------- MODULE OpenPoolProofs ----------------------------
(***************************************************************************)
(* The arrival-driven model, for every number of workers, flows and        *)
(* arrivals: its types, RunInv and what it implies, that no arrival is     *)
(* served early, and that it implements LoadRun.                           *)
(***************************************************************************)
EXTENDS OpenPool, TallyProofs

(* The steps of the generator, and of a worker between two iterations. *)
OpenStep ==
  \/ Advance
  \/ Generator
  \/ \E v \in VU : LeaveLoop(v) \/ TakeJob(v)

LEMMA IntendedType == \A k \in Nat : Intended(k) \in Nat
BY OpenAssumption DEF Intended

-------------------------------------------------------------------------------
(* Types. *)

LEMMA OpenStepType ==
  ASSUME TypeOK, OpenStep
  PROVE  TypeOK'
<1> USE OpenAssumption
<1>1. CASE Advance
  <2>1. now \in 0 .. MaxNow /\ now < MaxNow /\ now' = now + 1 /\ MaxNow \in Nat
    BY <1>1 DEF TypeOK, Advance
  <2>2. now' \in 0 .. MaxNow
    BY <2>1
  <2>3. SharedTypeOK' /\ main' = main
    BY <1>1, UnchangedType DEF TypeOK, Advance
  <2>4. QED BY <1>1, <2>2, <2>3 DEF TypeOK, Advance
<1>2. CASE StartWorkers \/ Due \/ CloseJobs
  <2>1. UNCHANGED <<cur, acc, counterVars, budgetVars, ctxVars, merged,
                    watchVars, result, poolVars, openVars>>
    BY <1>2 DEF StartWorkers, Due, CloseJobs
  <2>2. pc' \in [VU -> Steps]
    BY <1>2 DEF StartWorkers, Due, CloseJobs, TypeOK, SharedTypeOK, Steps
  <2>3. main' \in {"issue", "send", "join"}
    BY <1>2 DEF StartWorkers, Due, CloseJobs
  <2>4. SharedTypeOK'
    BY <2>1, <2>2 DEF TypeOK, SharedTypeOK, PoolTypeOK, poolVars, counterVars,
       budgetVars, ctxVars, watchVars
  <2>5. QED BY <2>1, <2>3, <2>4 DEF TypeOK, openVars
<1>3. CASE \E v \in VU : Send(v)
  <2>1. PICK v \in VU : Send(v)
    BY <1>3
  <2>2. n \in Nat /\ n' = n + 1
    BY <2>1 DEF TypeOK, Send
  <2>3. n' \in Nat /\ Job(n) \in Work
    BY <2>2, WorkType
  <2>4. cur' \in [VU -> Work]
    BY <2>1, <2>3 DEF Send, TypeOK, SharedTypeOK
  <2>5. SharedTypeOK'
    BY <2>1, <2>4 DEF Send, Goto, Steps, TypeOK, SharedTypeOK, PoolTypeOK, poolVars,
       counterVars, budgetVars, ctxVars, watchVars
  <2>6. QED BY <2>1, <2>3, <2>5 DEF TypeOK, Send
<1>4. CASE \E v \in VU : LeaveLoop(v) \/ TakeJob(v)
  <2>1. PICK v \in VU : LeaveLoop(v) \/ TakeJob(v)
    BY <1>4
  <2>2. /\ pc' \in [VU -> Steps]
        /\ UNCHANGED <<cur, acc, counterVars, budgetVars, ctxVars, merged, main,
                       watchVars, result, poolVars, openVars>>
    BY <2>1 DEF LeaveLoop, TakeJob, Goto, Steps, TypeOK, SharedTypeOK
  <2>3. SharedTypeOK'
    BY <2>2 DEF TypeOK, SharedTypeOK, PoolTypeOK, poolVars, counterVars, budgetVars,
       ctxVars, watchVars
  <2>4. QED BY <2>2, <2>3 DEF TypeOK, openVars
<1>5. QED BY <1>1, <1>2, <1>3, <1>4 DEF OpenStep, Generator

LEMMA LagType ==
  ASSUME TypeOK, NEW v \in VU
  PROVE  /\ cur[v].job \in Nat
         /\ now - Intended(cur[v].job) \in Int
<1>1. cur[v].job \in Nat
  BY DEF TypeOK, SharedTypeOK, Work
<1>2. Intended(cur[v].job) \in Nat
  BY <1>1, IntendedType
<1>3. now \in Nat
  BY OpenAssumption DEF TypeOK
<1>4. QED BY <1>1, <1>2, <1>3

LEMMA IterateType ==
  ASSUME TypeOK, NEW v \in VU, Iterate(v)
  PROVE  TypeOK'
<1>1. SharedTypeOK' /\ main' = main
  <2>1. CASE EnterIteration(v)
    BY <2>1, EnterIterationType DEF TypeOK, EnterIteration
  <2>2. CASE StartFlow(v, now - Intended(cur[v].job))
    <3>1. SharedTypeOK'
      BY <2>2, LagType, StartFlowType DEF TypeOK
    <3>2. QED BY <2>2, <3>1 DEF StartFlow
  <2>3. CASE FinishFlow(v)
    BY <2>3, FinishFlowType DEF TypeOK, FinishFlow
  <2>4. CASE CountFailed(v)
    BY <2>4, CountFailedType DEF TypeOK, CountFailed
  <2>5. CASE CountThrottled(v)
    BY <2>5, CountThrottledType DEF TypeOK, CountThrottled
  <2>6. CASE RecordFlow(v)
    BY <2>6, RecordFlowType DEF TypeOK, RecordFlow
  <2>7. CASE LeaveIteration(v, "loop")
    <3>1. "loop" \in Steps
      BY DEF Steps
    <3>2. QED BY <2>7, <3>1, LeaveIterationType DEF TypeOK, LeaveIteration
  <2>8. CASE Merge(v)
    BY <2>8, MergeType DEF TypeOK, Merge
  <2>9. QED BY <2>1, <2>2, <2>3, <2>4, <2>5, <2>6, <2>7, <2>8 DEF Iterate
<1>2. QED BY <1>1 DEF TypeOK, Iterate, openVars

LEMMA OpenLifecycleType ==
  ASSUME TypeOK, Lifecycle
  PROVE  TypeOK'
<1>1. SharedTypeOK'
  BY LifecycleType DEF TypeOK, Lifecycle
<1>2. main' \in {main, "stopping", "returned"}
  BY DEF Lifecycle, Interrupt, StopObservers, Observe, TickSnapshot, FinalSnapshot,
     LoadCompleted, LoadFailed, Publish, StopSampler, Return
<1>3. QED BY <1>1, <1>2 DEF TypeOK, Lifecycle, openVars

(* Every variable of the arrival-driven model keeps its type.              *)
THEOREM TypeCorrect == Spec => []TypeOK
<1>1. Init => TypeOK
  BY SharedInitType, OpenAssumption DEF Init, TypeOK
<1>2. TypeOK /\ [Next]_vars => TypeOK'
  <2>1. SUFFICES ASSUME TypeOK, [Next]_vars PROVE TypeOK'
    OBVIOUS
  <2>2. CASE OpenStep
    BY <2>1, <2>2, OpenStepType
  <2>3. CASE \E v \in VU : Iterate(v)
    BY <2>1, <2>3, IterateType
  <2>4. CASE Lifecycle
    BY <2>1, <2>4, OpenLifecycleType
  <2>5. CASE UNCHANGED vars
    <3>1. SharedTypeOK' /\ main' = main
      BY <2>1, <2>5, UnchangedType DEF TypeOK, vars
    <3>2. QED BY <2>1, <2>5, <3>1 DEF TypeOK, vars, openVars
  <2>6. QED
    BY <2>1, <2>2, <2>3, <2>4, <2>5 DEF Next, OpenStep, Worker, Finished
<1>3. QED BY <1>1, <1>2, PTL DEF Spec

-------------------------------------------------------------------------------
(* The invariant: RunInv, and no worker before StartWorkers. *)

NoneYet == main = "spawn" => \A v \in VU : pc[v] = "unborn"

OpenInv == RunInv /\ NoneYet

LEMMA OpenStepQuiet ==
  ASSUME OpenStep
  PROVE  UNCHANGED <<acc, merged, completed, aborted, cancelled, result>>
<1>1. UNCHANGED <<acc, merged, counterVars, ctxVars, result>>
  BY DEF OpenStep, Advance, Generator, StartWorkers, Due, Send, CloseJobs, LeaveLoop,
     TakeJob, sharedVars
<1>2. QED BY <1>1 DEF counterVars, ctxVars

LEMMA OpenStepInv ==
  ASSUME TypeOK, OpenInv, OpenStep
  PROVE  OpenInv' /\ (main' = "returned" <=> main = "returned")
<1>1. UNCHANGED <<acc, merged, completed, aborted, cancelled, result>>
  BY OpenStepQuiet
<1>2. RunInv
  BY DEF OpenInv
<1>3. CASE Advance
  <2>1. UNCHANGED <<pc, cur, main>>
    BY <1>3 DEF Advance, sharedVars
  <2>2. QED BY <1>1, <1>2, <2>1, IdleInv DEF OpenInv, NoneYet
<1>4. CASE StartWorkers \/ Due \/ CloseJobs
  <2>1. /\ main \notin {"stopping", "returned"}
        /\ main' \notin {"spawn", "stopping", "returned"}
        /\ cur' = cur
    BY <1>4 DEF StartWorkers, Due, CloseJobs
  <2>2. \A w \in VU : \/ pc'[w] = pc[w]
                      \/ pc[w] = "unborn" /\ pc'[w] = "loop"
    BY <1>4 DEF StartWorkers, Due, CloseJobs, OpenInv, NoneYet
  <2>3. EmptyHanded'
    BY <1>1, <1>2, <2>2 DEF RunInv, EmptyHanded
  <2>4. Settled'
    BY <1>1, <1>2, <2>1 DEF RunInv, Settled
  <2>5. \A w \in VU : Counting(w)' <=> Counting(w)
    BY <2>2 DEF Counting
  <2>6. RunInv'
    BY <1>1, <1>2, <2>1, <2>3, <2>4, <2>5, QuietStep
  <2>7. QED BY <2>1, <2>6 DEF OpenInv, NoneYet
<1>5. CASE \E v \in VU : Send(v)
  <2>1. PICK v \in VU : Send(v)
    BY <1>5
  <2>2. /\ main \notin {"stopping", "returned"}
        /\ main' \notin {"spawn", "stopping", "returned"}
    BY <2>1 DEF Send
  <2>3. EmptyHanded'
    BY <1>1, <1>2, <2>1 DEF RunInv, EmptyHanded, Send, Goto, TypeOK, SharedTypeOK
  <2>4. Settled'
    BY <1>1, <1>2, <2>2 DEF RunInv, Settled
  <2>5. \A w \in VU : /\ Counting(w)' <=> Counting(w)
                      /\ Counting(w) => cur'[w] = cur[w]
    BY <2>1 DEF Send, At, Goto, Counting, TypeOK, SharedTypeOK
  <2>6. RunInv'
    BY <1>1, <1>2, <2>3, <2>4, <2>5, QuietStep
  <2>7. QED BY <2>2, <2>6 DEF OpenInv, NoneYet
<1>6. CASE \E v \in VU : LeaveLoop(v) \/ TakeJob(v)
  <2>1. PICK v \in VU : LeaveLoop(v) \/ TakeJob(v)
    BY <1>6
  <2>2. /\ Goto(v, "merge") \/ Goto(v, "enter")
        /\ pc[v] \in {"loop", "received"}
        /\ main' = main /\ cur' = cur
    BY <2>1 DEF LeaveLoop, TakeJob, At
  <2>3. main \notin {"spawn", "stopping", "returned"} /\ ~ Counting(v)
    BY <1>2, <2>2, AtWork DEF RunInv, Counting, OpenInv, NoneYet
  <2>4. RunInv'
    BY <1>1, <1>2, <2>2, <2>3, MoveInv DEF TypeOK
  <2>5. QED BY <2>2, <2>3, <2>4 DEF OpenInv, NoneYet
<1>7. QED BY <1>3, <1>4, <1>5, <1>6 DEF OpenStep, Generator

LEMMA IterateInv ==
  ASSUME TypeOK, OpenInv, NEW v \in VU, Iterate(v)
  PROVE  OpenInv'
<1> DEFINE lag == now - Intended(cur[v].job)
<1>1. SharedTypeOK /\ RunInv
  BY DEF TypeOK, OpenInv
<1>2. CASE EnterIteration(v)
  BY <1>1, <1>2, EnterIterationInv DEF OpenInv, NoneYet, EnterIteration, At
<1>3. CASE StartFlow(v, lag)
  <2>1. RunInv'
    BY <1>1, <1>3, StartFlowInv
  <2>2. main' = main /\ pc[v] # "unborn"
    BY <1>3 DEF StartFlow, At
  <2>3. QED BY <2>1, <2>2 DEF OpenInv, NoneYet
<1>4. CASE FinishFlow(v)
  BY <1>1, <1>4, FinishFlowInv DEF OpenInv, NoneYet, FinishFlow, At
<1>5. CASE CountFailed(v)
  BY <1>1, <1>5, CountFailedInv DEF OpenInv, NoneYet, CountFailed, At
<1>6. CASE CountThrottled(v)
  BY <1>1, <1>6, CountThrottledInv DEF OpenInv, NoneYet, CountThrottled, At
<1>7. CASE RecordFlow(v)
  BY <1>1, <1>7, RecordFlowInv DEF OpenInv, NoneYet, RecordFlow, At
<1>8. CASE LeaveIteration(v, "loop")
  BY <1>1, <1>8, LeaveIterationInv DEF OpenInv, NoneYet, LeaveIteration, At
<1>9. CASE Merge(v)
  BY <1>1, <1>9, MergeInv DEF OpenInv, NoneYet, Merge, At
<1>10. QED BY <1>2, <1>3, <1>4, <1>5, <1>6, <1>7, <1>8, <1>9 DEF Iterate

LEMMA OpenLifecycleInv ==
  ASSUME OpenInv, Lifecycle
  PROVE  OpenInv'
<1>1. RunInv'
  BY LifecycleInv DEF Lifecycle, OpenInv
<1>2. main' \in {main, "stopping", "returned"} /\ pc' = pc
  BY DEF Lifecycle, Interrupt, StopObservers, Observe, TickSnapshot, FinalSnapshot,
     LoadCompleted, LoadFailed, Publish, StopSampler, Return
<1>3. QED BY <1>1, <1>2 DEF OpenInv, NoneYet

(* RunInv is an invariant of the arrival-driven model too. *)
THEOREM Inductive == Spec => []OpenInv
<1>1. Init => OpenInv
  BY SharedInitInv DEF Init, OpenInv, NoneYet, SharedInit
<1>2. TypeOK /\ OpenInv /\ [Next]_vars => OpenInv'
  <2>1. SUFFICES ASSUME TypeOK, OpenInv, [Next]_vars PROVE OpenInv'
    OBVIOUS
  <2>2. CASE OpenStep
    BY <2>1, <2>2, OpenStepInv
  <2>3. CASE \E v \in VU : Iterate(v)
    BY <2>1, <2>3, IterateInv
  <2>4. CASE Lifecycle
    BY <2>1, <2>4, OpenLifecycleInv
  <2>5. CASE UNCHANGED vars
    <3>1. UNCHANGED <<pc, cur, acc, merged, completed, aborted, cancelled, main, result>>
      BY <2>5 DEF vars, sharedVars, counterVars, ctxVars
    <3>2. QED BY <2>1, <3>1, IdleInv DEF OpenInv, NoneYet
  <2>6. QED
    BY <2>1, <2>2, <2>3, <2>4, <2>5 DEF Next, OpenStep, Worker, Finished
<1>3. QED BY <1>1, <1>2, TypeCorrect, PTL DEF Spec

(* No counted flow-run is lost and none is held twice, however arrivals,   *)
(* completions and merges interleave.                                      *)
THEOREM NothingLost == Spec => []NoFlowRunLost
<1>1. OpenInv => NoFlowRunLost
  BY RunInvImplies DEF OpenInv
<1>2. QED BY <1>1, Inductive, PTL

(* A run that returned reports all that completed, and left no worker.     *)
THEOREM Returned == Spec => []ReturnedInFull
<1>1. OpenInv => ReturnedInFull
  BY RunInvImplies DEF OpenInv
<1>2. QED BY <1>1, Inductive, PTL

(* The kill switch is reported exactly when a flow-run of the Result asked *)
(* for it.                                                                 *)
THEOREM KillSwitch == Spec => []KillSwitchReported
<1>1. OpenInv => KillSwitchReported
  BY RunInvImplies DEF OpenInv
<1>2. QED BY <1>1, Inductive, PTL

(* The Result of an arrival-driven run is whole too.                       *)
THEOREM WholeResult == Spec => []ResultWhole
<1>1. NoFlowRunLost /\ ReturnedInFull /\ KillSwitchReported => ResultWhole
  BY DEF ResultWhole
<1>2. QED BY <1>1, NothingLost, Returned, KillSwitch, PTL

-------------------------------------------------------------------------------
(* The data pool. *)

(* The generator draws no row, and a worker that is running is not handed  *)
(* another job.                                                            *)
LEMMA OpenStepRows ==
  ASSUME TypeOK, RowsInv, OpenStep
  PROVE  RowsInv'
<1>1. UNCHANGED <<acc, merged, poolVars>>
  BY DEF OpenStep, Advance, Generator, StartWorkers, Due, Send, CloseJobs, LeaveLoop,
     TakeJob, sharedVars
<1>2. Held' = Held
  BY <1>1 DEF Held
<1>3. \A w \in VU : At(w, "running")' => At(w, "running") /\ cur'[w] = cur[w]
  <2>1. CASE Advance \/ Due \/ CloseJobs
    BY <2>1 DEF Advance, Due, CloseJobs, sharedVars, At
  <2>2. CASE StartWorkers
    BY <2>2 DEF StartWorkers, At
  <2>3. CASE \E v \in VU : Send(v)
    BY <2>3 DEF Send, Goto, At, TypeOK, SharedTypeOK
  <2>4. CASE \E v \in VU : LeaveLoop(v) \/ TakeJob(v)
    BY <2>4 DEF LeaveLoop, TakeJob, Goto, At, TypeOK, SharedTypeOK
  <2>5. QED BY <2>1, <2>2, <2>3, <2>4 DEF OpenStep, Generator
<1>4. QED BY <1>1, <1>2, <1>3, RowlessStep

LEMMA OpenIterateRows ==
  ASSUME TypeOK, RunInv, RowsInv, NEW v \in VU, Iterate(v)
  PROVE  RowsInv'
<1> DEFINE lag == now - Intended(cur[v].job)
<1>1. SharedTypeOK
  BY DEF TypeOK
<1>2. CASE StartFlow(v, lag)
  BY <1>1, <1>2, StartFlowRows
<1>3. CASE FinishFlow(v)
  BY <1>1, <1>3, FinishFlowRows
<1>4. CASE \/ EnterIteration(v)
           \/ CountFailed(v)
           \/ CountThrottled(v)
           \/ RecordFlow(v)
           \/ LeaveIteration(v, "loop")
           \/ Merge(v)
  BY <1>1, <1>4, IterationRows
<1>5. QED BY <1>2, <1>3, <1>4 DEF Iterate

(* A unique-per-vu pool that does not cycle hands each row to one flow-run *)
(* only, whichever workers draw, for any number of arrivals.               *)
THEOREM RowsUnique == Spec => []UniqueRows
<1>1. Init => RowsInv
  BY SharedInitRows DEF Init
<1>2. TypeOK /\ OpenInv /\ RowsInv /\ [Next]_vars => RowsInv'
  <2>1. SUFFICES ASSUME TypeOK, OpenInv, RowsInv, [Next]_vars PROVE RowsInv'
    OBVIOUS
  <2>2. CASE OpenStep
    BY <2>1, <2>2, OpenStepRows
  <2>3. CASE \E v \in VU : Iterate(v)
    BY <2>1, <2>3, OpenIterateRows DEF OpenInv
  <2>4. CASE Lifecycle
    BY <2>1, <2>4, LifecycleRows DEF Lifecycle
  <2>5. CASE UNCHANGED vars
    <3>1. UNCHANGED <<pc, cur, acc, merged, poolVars>>
      BY <2>5 DEF vars, sharedVars
    <3>2. Held' = Held
      BY <3>1 DEF Held
    <3>3. QED BY <2>1, <3>1, <3>2, RowlessStep DEF At
  <2>6. QED
    BY <2>1, <2>2, <2>3, <2>4, <2>5 DEF Next, OpenStep, Worker, Finished
<1>3. RowsInv => UniqueRows
  BY DEF RowsInv
<1>4. QED BY <1>1, <1>2, <1>3, TypeCorrect, Inductive, PTL DEF Spec

(* The arrival-driven model implements LoadRun. *)
THEOREM Refines == Spec => ImplementsLoadRun
<1>1. Init => Abstract!Init
  <2>1. SUFFICES ASSUME Init PROVE Held = {} /\ Reported = NoResult
    BY DEF Abstract!Init
  <2>2. Held = {}
    BY <2>1, SharedInitInv DEF Init
  <2>3. Reported = NoResult
    BY <2>1 DEF Init, Reported
  <2>4. QED BY <2>2, <2>3
<1>2. TypeOK /\ OpenInv /\ [Next]_vars => [Abstract!Next]_(Abstract!vars)
  <2>1. SUFFICES ASSUME TypeOK, OpenInv, [Next]_vars
                 PROVE  [Abstract!Next]_(Abstract!vars)
    OBVIOUS
  <2>2. SharedTypeOK /\ RunInv
    BY <2>1 DEF TypeOK, OpenInv
  <2>3. CASE OpenStep
    <3>1. UNCHANGED <<acc, merged, result>>
      BY <2>3, OpenStepQuiet
    <3>2. Held' = Held
      BY <3>1 DEF Held
    <3>3. QED BY <2>1, <2>3, <3>1, <3>2, OpenStepInv, Stutters
  <2>4. CASE \E v \in VU : FinishFlow(v)
    BY <2>2, <2>4, FinishFlowFinishes DEF Abstract!Next
  <2>5. CASE \E v \in VU : Iterate(v) /\ ~ FinishFlow(v)
    <3>1. PICK v \in VU : Iterate(v) /\ ~ FinishFlow(v)
      BY <2>5
    <3>2. QED BY <2>2, <3>1, IterationStutters DEF Iterate
  <2>6. CASE Lifecycle
    BY <2>2, <2>6, LifecycleImplements DEF Lifecycle
  <2>7. CASE UNCHANGED vars
    <3>1. UNCHANGED <<acc, merged, result, main>>
      BY <2>7 DEF vars, sharedVars
    <3>2. Held' = Held
      BY <3>1 DEF Held
    <3>3. QED BY <3>1, <3>2, Stutters
  <2>8. QED
    BY <2>1, <2>3, <2>4, <2>5, <2>6, <2>7 DEF Next, OpenStep, Worker, Finished
<1>3. QED BY <1>1, <1>2, TypeCorrect, Inductive, PTL DEF Spec, ImplementsLoadRun, Abstract!Spec

-------------------------------------------------------------------------------
(* Arrivals. *)

(* A step that takes no flow-run further keeps ArrivalInv. *)
LEMMA ArrivalFrame ==
  ASSUME TypeOK, ArrivalInv, Held' = Held, n' = n, now' \in Nat, now' >= now,
         main' = "send" => main = "send" \/ Intended(n) <= now,
         \A w \in VU : Serving(w)' => Serving(w) /\ cur'[w] = cur[w],
         \A w \in VU : Started(w)' => Started(w),
         \A w \in VU : Serving(w)' /\ Counting(w) => Counting(w)'
  PROVE  ArrivalInv'
<1> USE DEF ArrivalInv
<1>1. /\ now \in Nat /\ n \in Nat
      /\ \A w \in VU : cur[w].job \in Nat
      /\ \A k \in Nat : Intended(k) \in Nat
  BY LagType, IntendedType, OpenAssumption DEF TypeOK
<1>2. \A k : Intended(k)' = Intended(k)
  BY DEF Intended
<1>3. \A w \in VU : Serving(w)' => Intended(cur'[w].job) <= now'
  <2>1. SUFFICES ASSUME NEW w \in VU, Serving(w)' PROVE Intended(cur'[w].job) <= now'
    OBVIOUS
  <2>2. cur'[w] = cur[w] /\ Intended(cur[w].job) <= now
    BY <2>1 DEF DueInv
  <2>3. QED BY <1>1, <2>2
<1>4. main' = "send" => Intended(n') <= now'
  BY <1>1 DEF DueInv
<1>5. \A w \in VU : Started(w)' => cur'[w].lag >= 0
  BY DEF DueInv, Serving
<1>6. DueInv'
  BY <1>2, <1>3, <1>4, <1>5 DEF DueInv
<1>7. OnceInv'
  BY DEF OnceInv
<1>8. QED BY <1>6, <1>7

(* What the steps below need of the types. *)
LEMMA ArrivalTypes ==
  ASSUME TypeOK
  PROVE  /\ now \in Nat /\ n \in Nat
         /\ \A v \in VU : cur[v].job \in Nat /\ cur[v].flow \in Int
         /\ \A s \in Held : s.flow \in Int /\ s.job \in Nat
         /\ \A k \in Nat : Intended(k) \in Nat
<1>1. \A v \in VU : cur[v].job \in Nat /\ cur[v].flow \in Int
  <2>1. \A v \in VU : cur[v].job \in Nat /\ cur[v].flow \in 1 .. NumFlows
    BY DEF TypeOK, SharedTypeOK, Work
  <2>2. QED BY <2>1, RunAssumption
<1>2. Held \subseteq Samples
  BY Members DEF TypeOK, SharedTypeOK, Accs
<1>3. \A s \in Held : s.flow \in Int /\ s.job \in Nat
  BY <1>2, RunAssumption DEF Samples
<1>4. now \in Nat /\ n \in Nat
  BY OpenAssumption DEF TypeOK
<1>5. QED BY <1>1, <1>3, <1>4, IntendedType

LEMMA SendArrival ==
  ASSUME TypeOK, ArrivalInv, NEW v \in VU, Send(v)
  PROVE  ArrivalInv'
<1> USE DEF ArrivalInv
<1>1. /\ now \in Nat /\ n \in Nat /\ n' = n + 1 /\ now' = now
      /\ \A w \in VU : cur[w].job \in Nat
      /\ \A s \in Held : s.job \in Nat
      /\ \A k : Intended(k)' = Intended(k)
  BY ArrivalTypes DEF Send, Intended
<1>2. /\ main = "send" /\ main' = "issue" /\ pc[v] = "loop" /\ pc'[v] = "received"
      /\ cur'[v] = Job(n) /\ Held' = Held
      /\ \A w \in VU \ {v} : pc'[w] = pc[w] /\ cur'[w] = cur[w]
  BY DEF Send, At, Goto, Held, TypeOK, SharedTypeOK
<1>3. /\ Serving(v)' /\ ~ Started(v)' /\ ~ Counting(v)'
      /\ \A w \in VU \ {v} : /\ Serving(w)' <=> Serving(w)
                             /\ Started(w)' <=> Started(w)
                             /\ Counting(w)' <=> Counting(w)
  BY <1>2 DEF Serving, Started, Counting
<1>4. cur'[v].job = n
  BY <1>2 DEF Job
<1>5. Intended(n) <= now
  BY <1>2 DEF DueInv
<1>6. DueInv'
  BY <1>1, <1>2, <1>3, <1>4, <1>5 DEF DueInv
<1>7. \A w \in VU \ {v} : Serving(w) => cur[w].job < n /\ cur[w].job # n
  BY <1>1 DEF OnceInv
<1>8. \A s \in Held : s.job < n /\ s.job < n' /\ s.job # n
  BY <1>1 DEF OnceInv
<1>9. \A w \in VU : Serving(w)' => cur'[w].job < n'
  BY <1>1, <1>2, <1>3, <1>4, <1>7
<1>10. OnceInv'
  BY <1>2, <1>3, <1>4, <1>7, <1>8, <1>9 DEF OnceInv
<1>11. QED BY <1>6, <1>10

LEMMA StartFlowArrival ==
  ASSUME TypeOK, ArrivalInv, NEW v \in VU, UNCHANGED openVars,
         StartFlow(v, now - Intended(cur[v].job))
  PROVE  ArrivalInv'
<1> USE DEF ArrivalInv
<1> DEFINE lag == now - Intended(cur[v].job)
<1>1. PICK row \in Row \cup {NoRow} : cur' = [cur EXCEPT ![v] = Dispatch(@, row, lag)]
  BY DEF StartFlow
<1>2. /\ pc[v] = "draw" /\ pc'[v] = "running" /\ Held' = Held /\ main' = main
      /\ \A w \in VU \ {v} : pc'[w] = pc[w]
  BY DEF StartFlow, At, Goto, Held, TypeOK, SharedTypeOK
<1>3. /\ cur'[v].job = cur[v].job /\ cur'[v].flow = cur[v].flow /\ cur'[v].lag = lag
      /\ \A w \in VU \ {v} : cur'[w] = cur[w]
  BY <1>1 DEF Dispatch, TypeOK, SharedTypeOK
<1>4. /\ \A w \in VU : /\ Serving(w)' <=> Serving(w)
                       /\ Counting(w)' <=> Counting(w)
      /\ Serving(v) /\ ~ Counting(v)
      /\ \A w \in VU \ {v} : Started(w)' <=> Started(w)
  BY <1>2 DEF Serving, Started, Counting
<1>5. /\ now' = now /\ n' = n
      /\ \A k : Intended(k)' = Intended(k)
  BY DEF openVars, Intended
<1>6. lag >= 0
  <2>1. Intended(cur[v].job) <= now
    BY <1>4 DEF DueInv
  <2>2. QED BY <2>1, ArrivalTypes
<1>7. DueInv'
  BY <1>2, <1>3, <1>4, <1>5, <1>6 DEF DueInv
<1>8. OnceInv'
  BY <1>2, <1>3, <1>4, <1>5 DEF OnceInv
<1>9. QED BY <1>7, <1>8

LEMMA FinishFlowArrival ==
  ASSUME TypeOK, RunInv, ArrivalInv, NEW v \in VU, UNCHANGED openVars, FinishFlow(v)
  PROVE  ArrivalInv'
<1> USE DEF ArrivalInv
<1>1. PICK r \in FlowResults :
        /\ acc' = [acc EXCEPT ![v] = AddSample(@, SampleOf(v, completed + 1, r))]
        /\ cur' = [cur EXCEPT ![v] = Back(@, completed + 1, r)]
  BY DEF FinishFlow
<1> DEFINE s == SampleOf(v, completed + 1, r)
<1>2. \A x : x \in Held' <=> x \in Held \/ x = s
  <2>1. /\ \A w \in VU : acc'[w].samples = IF w = v THEN acc[v].samples \cup {s}
                                                  ELSE acc[w].samples
        /\ merged' = merged
    BY <1>1 DEF TypeOK, SharedTypeOK, AddSample, FinishFlow
  <2>2. QED BY <2>1, Members
<1>3. s.job = cur[v].job /\ s.flow = cur[v].flow /\ s.lag = cur[v].lag
  BY DEF SampleOf
<1>4. /\ pc[v] = "running" /\ pc'[v] = "failed" /\ main' = main
      /\ \A w \in VU \ {v} : pc'[w] = pc[w]
  BY DEF FinishFlow, At, Goto, TypeOK, SharedTypeOK
<1>5. /\ cur'[v].job = cur[v].job /\ cur'[v].flow = cur[v].flow /\ cur'[v].lag = cur[v].lag
      /\ \A w \in VU \ {v} : cur'[w] = cur[w]
  BY <1>1 DEF Back, TypeOK, SharedTypeOK
<1>6. /\ \A w \in VU : /\ Serving(w)' <=> Serving(w)
                       /\ Started(w)' <=> Started(w)
      /\ Serving(v) /\ Started(v) /\ ~ Counting(v) /\ Counting(v)'
      /\ \A w \in VU \ {v} : Counting(w)' <=> Counting(w)
  BY <1>4 DEF Serving, Started, Counting
<1>7. /\ now' = now /\ n' = n
      /\ \A k : Intended(k)' = Intended(k)
  BY DEF openVars, Intended
<1>8. DueInv'
  BY <1>2, <1>3, <1>4, <1>5, <1>6, <1>7 DEF DueInv
<1>9. \A x \in Held : x.job = cur[v].job => x.flow # cur[v].flow
  <2>1. \A x \in Held : x.job = cur[v].job => x.flow < cur[v].flow
    BY <1>6 DEF OnceInv
  <2>2. QED BY <2>1, ArrivalTypes
<1>10. \A x, y \in Held' : x.job = y.job /\ x.flow = y.flow => x = y
  BY <1>2, <1>3, <1>9 DEF OnceInv
<1>11. \A w \in VU : Serving(w)' => \A x \in Held' : x.job = cur'[w].job =>
         \/ x.flow < cur'[w].flow
         \/ Counting(w)' /\ x.flow = cur'[w].flow /\ x.lag = cur'[w].lag
  BY <1>2, <1>3, <1>5, <1>6 DEF OnceInv
<1>12. OnceInv'
  BY <1>2, <1>3, <1>5, <1>6, <1>7, <1>10, <1>11 DEF OnceInv
<1>13. QED BY <1>8, <1>12

LEMMA RecordFlowArrival ==
  ASSUME TypeOK, RunInv, ArrivalInv, NEW v \in VU, UNCHANGED openVars, RecordFlow(v)
  PROVE  ArrivalInv'
<1> USE DEF ArrivalInv
<1>1. Held' = Held
  BY RecordFlowInv DEF TypeOK
<1>2. /\ now' = now /\ n' = n
      /\ \A k : Intended(k)' = Intended(k)
  BY DEF openVars, Intended
<1>3. /\ pc[v] = "record" /\ main' = main
      /\ \A w \in VU \ {v} : pc'[w] = pc[w] /\ cur'[w] = cur[w]
  BY DEF RecordFlow, At, Goto, TypeOK, SharedTypeOK
<1>4. /\ \A w \in VU \ {v} : /\ Serving(w)' <=> Serving(w)
                             /\ Started(w)' <=> Started(w)
                             /\ Counting(w)' <=> Counting(w)
      /\ Serving(v) /\ Counting(v)
  BY <1>3 DEF Serving, Started, Counting
<1>5. CASE cur[v].flow < NumFlows
  <2>1. pc'[v] = "draw" /\ cur'[v].job = cur[v].job /\ cur'[v].flow = cur[v].flow + 1
    <3>1. pc' = [pc EXCEPT ![v] = "draw"] /\ cur' = [cur EXCEPT ![v] = Onward(@)]
      BY <1>5 DEF RecordFlow, Goto
    <3>2. pc'[v] = "draw" /\ cur'[v] = Onward(cur[v])
      BY <3>1 DEF TypeOK, SharedTypeOK
    <3>3. QED BY <3>2 DEF Onward
  <2>2. Serving(v)' /\ ~ Started(v)' /\ ~ Counting(v)'
    BY <2>1 DEF Serving, Started, Counting
  <2>3. DueInv'
    BY <1>1, <1>2, <1>3, <1>4, <2>1, <2>2 DEF DueInv
  <2>4. \A s \in Held : s.job = cur'[v].job => s.flow < cur'[v].flow
    <3>1. \A s \in Held : s.job = cur[v].job => s.flow < cur[v].flow \/ s.flow = cur[v].flow
      BY <1>4 DEF OnceInv
    <3>2. QED BY <2>1, <3>1, ArrivalTypes
  <2>5. OnceInv'
    BY <1>1, <1>2, <1>3, <1>4, <2>1, <2>2, <2>4 DEF OnceInv
  <2>6. QED BY <2>3, <2>5
<1>6. CASE ~ (cur[v].flow < NumFlows)
  <2>1. pc'[v] = "leave"
    BY <1>6 DEF RecordFlow, Goto, TypeOK, SharedTypeOK
  <2>2. ~ Serving(v)' /\ ~ Started(v)' /\ ~ Counting(v)'
    BY <2>1 DEF Serving, Started, Counting
  <2>3. DueInv'
    BY <1>1, <1>2, <1>3, <1>4, <2>2 DEF DueInv
  <2>4. OnceInv'
    BY <1>1, <1>2, <1>3, <1>4, <2>2 DEF OnceInv
  <2>5. QED BY <2>3, <2>4
<1>7. QED BY <1>5, <1>6

(* The steps of an iteration that take its flow-run no further. *)
LEMMA IterationArrival ==
  ASSUME TypeOK, RunInv, ArrivalInv, NEW v \in VU, UNCHANGED openVars,
         \/ EnterIteration(v)
         \/ CountFailed(v)
         \/ CountThrottled(v)
         \/ LeaveIteration(v, "loop")
         \/ Merge(v)
  PROVE  ArrivalInv'
<1>1. /\ cur' = cur /\ main' = main
      /\ \E step \in {"draw", "throttled", "record", "loop", "done"} :
           pc' = [pc EXCEPT ![v] = step]
  BY DEF EnterIteration, CountFailed, CountThrottled, LeaveIteration, Merge, Goto
<1>2. \/ pc[v] = "enter" /\ pc'[v] = "draw"
      \/ pc[v] = "failed" /\ pc'[v] = "throttled"
      \/ pc[v] = "throttled" /\ pc'[v] = "record"
      \/ pc'[v] \in {"loop", "done"} /\ pc[v] \in {"leave", "merge"}
  BY DEF EnterIteration, CountFailed, CountThrottled, LeaveIteration, Merge, Goto, At,
     TypeOK, SharedTypeOK
<1>3. \A w \in VU \ {v} : pc'[w] = pc[w]
  BY <1>1 DEF TypeOK, SharedTypeOK
<1>4. \A w \in VU : /\ Serving(w)' => Serving(w)
                    /\ Started(w)' => Started(w)
                    /\ Counting(w) => Counting(w)'
  BY <1>2, <1>3 DEF Serving, Started, Counting
<1>5. Held' = Held
  <2>1. CASE EnterIteration(v) \/ CountFailed(v) \/ CountThrottled(v)
    BY <2>1 DEF EnterIteration, CountFailed, CountThrottled, Held
  <2>2. CASE LeaveIteration(v, "loop") \/ Merge(v)
    BY <2>2, LeaveIterationInv, MergeInv DEF TypeOK
  <2>3. QED BY <2>1, <2>2
<1>6. now' = now /\ n' = n /\ now \in Nat
  BY ArrivalTypes DEF openVars
<1>7. now' \in Nat /\ now' >= now
  BY <1>6
<1>8. QED BY <1>1, <1>4, <1>5, <1>6, <1>7, ArrivalFrame

LEMMA OpenStepArrival ==
  ASSUME TypeOK, OpenInv, ArrivalInv, OpenStep
  PROVE  ArrivalInv'
<1>1. Held' = Held
  BY OpenStepQuiet DEF Held
<1>2. now \in Nat /\ n \in Nat
  BY ArrivalTypes
<1>3. CASE Advance
  <2>1. UNCHANGED <<pc, cur, main, n>> /\ now' = now + 1
    BY <1>3 DEF Advance, sharedVars
  <2>2. now' \in Nat /\ now' >= now
    BY <1>2, <2>1
  <2>3. \A w \in VU : /\ Serving(w)' <=> Serving(w)
                      /\ Started(w)' <=> Started(w)
                      /\ Counting(w)' <=> Counting(w)
    BY <2>1 DEF Serving, Started, Counting
  <2>4. QED BY <1>1, <2>1, <2>2, <2>3, ArrivalFrame
<1>4. CASE StartWorkers \/ Due \/ CloseJobs
  <2>1. /\ cur' = cur /\ now' = now /\ n' = n
        /\ main' = "send" => Intended(n) <= now
    BY <1>2, <1>4, ArrivalTypes DEF StartWorkers, Due, CloseJobs, openVars
  <2>2. \A w \in VU : \/ pc'[w] = pc[w]
                      \/ pc[w] = "unborn" /\ pc'[w] = "loop"
    BY <1>4 DEF StartWorkers, Due, CloseJobs, OpenInv, NoneYet
  <2>3. \A w \in VU : /\ Serving(w)' <=> Serving(w)
                      /\ Started(w)' <=> Started(w)
                      /\ Counting(w)' <=> Counting(w)
    BY <2>2 DEF Serving, Started, Counting
  <2>4. now' \in Nat /\ now' >= now
    BY <1>2, <2>1
  <2>5. QED BY <1>1, <2>1, <2>3, <2>4, ArrivalFrame
<1>5. CASE \E v \in VU : Send(v)
  BY <1>5, SendArrival
<1>6. CASE \E v \in VU : LeaveLoop(v) \/ TakeJob(v)
  <2>1. PICK v \in VU : LeaveLoop(v) \/ TakeJob(v)
    BY <1>6
  <2>2. /\ cur' = cur /\ now' = now /\ n' = n /\ main' = main
        /\ \A w \in VU \ {v} : pc'[w] = pc[w]
        /\ \/ pc'[v] = "merge" /\ pc[v] \in {"loop", "received"}
           \/ pc'[v] = "enter" /\ pc[v] = "received"
    BY <2>1 DEF LeaveLoop, TakeJob, At, Goto, openVars, TypeOK, SharedTypeOK
  <2>3. \A w \in VU : /\ Serving(w)' => Serving(w)
                      /\ Started(w)' <=> Started(w)
                      /\ Counting(w)' <=> Counting(w)
    BY <2>2 DEF Serving, Started, Counting
  <2>4. now' \in Nat /\ now' >= now
    BY <1>2, <2>2
  <2>5. QED BY <1>1, <2>2, <2>3, <2>4, ArrivalFrame
<1>7. QED BY <1>3, <1>4, <1>5, <1>6 DEF OpenStep, Generator

(* Steps that leave every goroutine and the generator as they are. *)
LEMMA IdleArrival ==
  ASSUME TypeOK, ArrivalInv, UNCHANGED <<pc, cur, acc, merged, openVars>>,
         main' = "send" => main = "send"
  PROVE  ArrivalInv'
<1>1. Held' = Held
  BY DEF Held
<1>2. now' = now /\ n' = n /\ now \in Nat
  BY ArrivalTypes DEF openVars
<1>3. now' \in Nat /\ now' >= now
  BY <1>2
<1>4. \A w \in VU : /\ Serving(w)' <=> Serving(w)
                    /\ Started(w)' <=> Started(w)
                    /\ Counting(w)' <=> Counting(w)
  BY DEF Serving, Started, Counting
<1>5. QED BY <1>1, <1>2, <1>3, <1>4, ArrivalFrame

(* Arrivals are sent when due and each goes to one worker: ArrivalInv is an *)
(* invariant of the generator and its workers.                             *)
THEOREM Arrivals == Spec => []ArrivalInv
<1>1. Init => ArrivalInv
  <2>1. SUFFICES ASSUME Init PROVE ArrivalInv
    OBVIOUS
  <2>2. Held = {} /\ main = "spawn"
    BY <2>1, SharedInitInv DEF Init
  <2>3. \A v \in VU : ~ Serving(v) /\ ~ Started(v)
    BY <2>1 DEF Init, SharedInit, Serving, Started
  <2>4. QED BY <2>2, <2>3 DEF ArrivalInv, DueInv, OnceInv
<1>2. TypeOK /\ OpenInv /\ ArrivalInv /\ [Next]_vars => ArrivalInv'
  <2>1. SUFFICES ASSUME TypeOK, OpenInv, ArrivalInv, [Next]_vars PROVE ArrivalInv'
    OBVIOUS
  <2>2. RunInv
    BY <2>1 DEF OpenInv
  <2>3. CASE OpenStep
    BY <2>1, <2>3, OpenStepArrival
  <2>4. CASE \E v \in VU : Iterate(v)
    <3>1. PICK v \in VU : Iterate(v)
      BY <2>4
    <3>2. UNCHANGED openVars
      BY <3>1 DEF Iterate
    <3>3. CASE StartFlow(v, now - Intended(cur[v].job))
      BY <2>1, <3>2, <3>3, StartFlowArrival
    <3>4. CASE FinishFlow(v)
      BY <2>1, <2>2, <3>2, <3>4, FinishFlowArrival
    <3>5. CASE RecordFlow(v)
      BY <2>1, <2>2, <3>2, <3>5, RecordFlowArrival
    <3>6. CASE \/ EnterIteration(v)
               \/ CountFailed(v)
               \/ CountThrottled(v)
               \/ LeaveIteration(v, "loop")
               \/ Merge(v)
      BY <2>1, <2>2, <3>2, <3>6, IterationArrival
    <3>7. QED BY <3>1, <3>3, <3>4, <3>5, <3>6 DEF Iterate
  <2>5. CASE Lifecycle
    <3>1. UNCHANGED <<pc, cur, acc, merged, openVars>> /\ main' \in {main, "stopping", "returned"}
      BY <2>5 DEF Lifecycle, Interrupt, StopObservers, Observe, TickSnapshot, FinalSnapshot,
         LoadCompleted, LoadFailed, Publish, StopSampler, Return
    <3>2. QED BY <2>1, <3>1, IdleArrival
  <2>6. CASE UNCHANGED vars
    <3>1. UNCHANGED <<pc, cur, acc, merged, openVars, main>>
      BY <2>6 DEF vars, sharedVars
    <3>2. QED BY <2>1, <3>1, IdleArrival
  <2>7. QED
    BY <2>1, <2>3, <2>4, <2>5, <2>6 DEF Next, OpenStep, Worker, Finished
<1>3. QED BY <1>1, <1>2, TypeCorrect, Inductive, PTL DEF Spec

(* No arrival is served before its scheduled time. *)
THEOREM NoneEarly == Spec => []NeverEarly
<1>1. TypeOK /\ ArrivalInv => NeverEarly
  <2>1. SUFFICES ASSUME TypeOK, ArrivalInv PROVE NeverEarly
    OBVIOUS
  <2>2. \A s \in Held : Intended(s.job) + s.lag >= Intended(s.job)
    <3>1. \A s \in Held : Intended(s.job) \in Nat /\ s.lag \in Int /\ s.lag >= 0
      <4>1. Held \subseteq Samples
        BY <2>1, Members DEF TypeOK, SharedTypeOK, Accs
      <4>2. QED BY <2>1, <4>1, ArrivalTypes DEF ArrivalInv, DueInv, Samples
    <3>2. QED BY <3>1
  <2>3. \A v \in VU : Started(v) => Intended(cur[v].job) + cur[v].lag >= Intended(cur[v].job)
    <3>1. \A v \in VU : Intended(cur[v].job) \in Nat /\ cur[v].lag \in Int
      BY <2>1, ArrivalTypes DEF TypeOK, SharedTypeOK, Work
    <3>2. \A v \in VU : Started(v) => cur[v].lag >= 0
      BY <2>1 DEF ArrivalInv, DueInv
    <3>3. QED BY <3>1, <3>2
  <2>4. QED BY <2>2, <2>3 DEF NeverEarly, Dispatches
<1>2. QED BY <1>1, TypeCorrect, Arrivals, PTL

(* No flow of an arrival is dispatched twice, and no arrival goes to two   *)
(* workers.                                                                *)
THEOREM NoneTwice == Spec => []ServedOnce
<1>1. TypeOK /\ ArrivalInv => ServedOnce
  <2>1. SUFFICES ASSUME TypeOK, ArrivalInv PROVE ServedOnce
    OBVIOUS
  <2>2. \A v \in VU : Started(v) => Serving(v)
    BY DEF Serving
  <2>3. \A v, w \in VU : v # w /\ Started(v) /\ Started(w) => cur[v].job # cur[w].job
    BY <2>1, <2>2 DEF ArrivalInv, OnceInv
  <2>4. \A s, t \in Held : s.job = t.job /\ s.flow = t.flow => s = t
    BY <2>1 DEF ArrivalInv, OnceInv
  <2>5. \A v \in VU, s \in Held :
          Started(v) /\ s.job = cur[v].job /\ s.flow = cur[v].flow => s.lag = cur[v].lag
    <3>1. \A v \in VU, s \in Held : Started(v) /\ s.job = cur[v].job =>
            s.flow < cur[v].flow \/ s.lag = cur[v].lag
      BY <2>1, <2>2 DEF ArrivalInv, OnceInv
    <3>2. QED BY <2>1, <3>1, ArrivalTypes
  <2>6. \A d, e \in Dispatches : d.job = e.job /\ d.flow = e.flow => d = e
    BY <2>3, <2>4, <2>5 DEF Dispatches
  <2>7. QED BY <2>3, <2>6 DEF ServedOnce
<1>2. QED BY <1>1, TypeCorrect, Arrivals, PTL

(* Each arrival is served by one worker, at its time or later, for any     *)
(* rate, schedule and number of workers.                                   *)
THEOREM AllServed == Spec => []ArrivalsServed
<1>1. NeverEarly /\ ServedOnce => ArrivalsServed
  BY DEF ArrivalsServed
<1>2. QED BY <1>1, NoneEarly, NoneTwice, PTL

-------------------------------------------------------------------------------
(* What a run counts. *)

(* Every step of the arrival-driven model is one TallyProofs knows.        *)
LEMMA NextIsShared ==
  ASSUME TypeOK, OpenInv, [Next]_vars
  PROVE  SharedStep
<1>1. CASE UNCHANGED vars \/ Advance
  BY <1>1, IdleShared DEF vars, Advance
<1>2. CASE StartWorkers \/ Due \/ CloseJobs
  <2>1. /\ UNCHANGED <<acc, counterVars, budgetVars, ctxVars, merged, watchVars, result, cur>>
        /\ {main, main'} \cap {"stopping", "returned"} = {}
    BY <1>2 DEF StartWorkers, Due, CloseJobs
  <2>2. \A w \in VU : \/ pc'[w] = pc[w]
                      \/ pc[w] = "unborn" /\ pc'[w] = "loop"
    BY <1>2 DEF StartWorkers, Due, CloseJobs, OpenInv, NoneYet
  <2>3. DriverStep
    BY <2>1, <2>2 DEF DriverStep
  <2>4. QED BY <2>3 DEF SharedStep
<1>3. CASE \E v \in VU : Send(v)
  <2>1. PICK v \in VU : Send(v)
    BY <1>3
  <2>2. /\ UNCHANGED <<acc, counterVars, budgetVars, ctxVars, merged, watchVars, result>>
        /\ {main, main'} \cap {"stopping", "returned"} = {}
    BY <2>1 DEF Send
  <2>3. /\ pc[v] = "loop" /\ pc'[v] = "received" /\ cur'[v].flow = 1
        /\ \A w \in VU \ {v} : pc'[w] = pc[w] /\ cur'[w] = cur[w]
    BY <2>1 DEF Send, Goto, At, Job, TypeOK, SharedTypeOK
  <2>4. DriverStep
    BY <2>2, <2>3 DEF DriverStep
  <2>5. QED BY <2>4 DEF SharedStep
<1>4. CASE \E v \in VU : LeaveLoop(v) \/ TakeJob(v)
  <2>1. PICK v \in VU : LeaveLoop(v) \/ TakeJob(v)
    BY <1>4
  <2>2. /\ UNCHANGED <<acc, counterVars, budgetVars, ctxVars, merged, watchVars, result, cur>>
        /\ main' = main
    BY <2>1 DEF LeaveLoop, TakeJob
  <2>3. /\ pc[v] \in {"loop", "received"}
        /\ pc'[v] \in {"merge", "enter"} /\ (pc'[v] = "enter" => ~ cancelled)
        /\ \A w \in VU \ {v} : pc'[w] = pc[w]
    BY <2>1 DEF LeaveLoop, TakeJob, Goto, At, TypeOK, SharedTypeOK
  <2>4. DriverStep
    BY <2>2, <2>3 DEF DriverStep
  <2>5. QED BY <2>4 DEF SharedStep
<1>5. CASE \E v \in VU : Iterate(v)
  <2>1. PICK v \in VU : Iterate(v)
    BY <1>5
  <2>2. FlowStep(v)
    BY <2>1, LagType DEF Iterate, FlowStep
  <2>3. QED BY <2>2 DEF SharedStep
<1>6. CASE Lifecycle
  BY <1>6 DEF Lifecycle, SharedStep
<1>7. QED
  BY <1>1, <1>2, <1>3, <1>4, <1>5, <1>6 DEF Next, Generator, Worker, Finished

(* Passes, the gauge, the live counters, the snapshots of them and the     *)
(* trace budgets are in step with the flow-runs all along.                 *)
THEOREM Tally == Spec => []TallyInv
<1>1. Init => TallyInv
  BY TallyStart DEF Init
<1>2. TypeOK /\ TypeOK' /\ OpenInv /\ OpenInv' /\ TallyInv /\ [Next]_vars => TallyInv'
  BY NextIsShared, TallyStep DEF TypeOK, OpenInv, Sound
<1>3. QED BY <1>1, <1>2, TypeCorrect, Inductive, PTL DEF Spec

(* A run that returned has no flow-run in flight, and every iteration it   *)
(* counts stands for one pass over all the flows.                          *)
THEOREM PassesWhole == Spec => []WholePasses
<1>1. TypeOK /\ OpenInv /\ TallyInv => WholePasses
  BY TallyInvImplies DEF TypeOK, OpenInv, Sound
<1>2. QED BY <1>1, TypeCorrect, Inductive, Tally, PTL

(* After the end of the context no worker completes more than the          *)
(* arrival it is on.                                                       *)
THEOREM CancelBound == Spec => []CancelBoundsWork
<1>1. TypeOK /\ OpenInv /\ TallyInv => CancelBoundsWork
  BY TallyInvImplies DEF TypeOK, OpenInv, Sound
<1>2. QED BY <1>1, TypeCorrect, Inductive, Tally, PTL

(* No Progress invents a failure, and the last one says what the Result    *)
(* says.                                                                   *)
THEOREM Truthful == Spec => []ProgressTruthful
<1>1. TypeOK /\ OpenInv /\ TallyInv => ProgressTruthful
  BY TallyInvImplies DEF TypeOK, OpenInv, Sound
<1>2. QED BY <1>1, TypeCorrect, Inductive, Tally, PTL

(* The counters a watcher sees never run backwards.                        *)
THEOREM NoRewinds == Spec => ProgressNeverRewinds
<1>1. TypeOK /\ OpenInv /\ TallyInv /\ [Next]_vars =>
        [\A k \in DOMAIN published : published'[k] >= published[k]]_published
  BY NextIsShared, NoRewind DEF TypeOK, OpenInv, Sound, TallyInv
<1>2. QED BY <1>1, TypeCorrect, Inductive, Tally, PTL DEF Spec, ProgressNeverRewinds

(* Exactly as many traces are kept as the capture policy says, however the *)
(* workers' keepTrace calls interleave.                                    *)
THEOREM Retention == Spec => []RetentionExact
<1>1. TypeOK /\ OpenInv /\ TallyInv => RetentionExact
  BY TallyInvImplies DEF TypeOK, OpenInv, Sound
<1>2. QED BY <1>1, TypeCorrect, Inductive, Tally, PTL

-------------------------------------------------------------------------------
(* No arrival is omitted. *)

(* Arrivals are as far apart as the interval says.                         *)
LEMMA IntendedOrder ==
  /\ \A j, k \in Nat : j <= k => Intended(j) <= Intended(k)
  /\ \A j \in Nat : j <= Intended(j)
<1>1. \A j, k \in Nat : j <= k => j * Interval <= k * Interval
  <2>1. SUFFICES ASSUME NEW j \in Nat, NEW k \in Nat, j <= k
                 PROVE  j * Interval <= k * Interval
    OBVIOUS
  <2>2. k - j \in Nat /\ Interval \in Nat
    BY <2>1, OpenAssumption
  <2>3. (k - j) * Interval \in Nat
    BY <2>2
  <2>4. k * Interval = j * Interval + (k - j) * Interval
    BY <2>2
  <2>5. j * Interval \in Nat
    BY <2>2
  <2>6. QED BY <2>3, <2>4, <2>5
<1>2. \A j \in Nat : j <= j * Interval
  <2>1. SUFFICES ASSUME NEW j \in Nat
                 PROVE  j <= j * Interval
    OBVIOUS
  <2>2. PICK d \in Nat : Interval = d + 1
    <3>1. Interval - 1 \in Nat /\ Interval = (Interval - 1) + 1
      BY OpenAssumption
    <3>2. QED BY <3>1
  <2>3. j * d \in Nat
    OBVIOUS
  <2>4. j * Interval = j + j * d
    BY <2>2
  <2>5. QED BY <2>3, <2>4
<1>3. QED BY <1>1, <1>2 DEF Intended

(* A flow ahead of a worker stays ahead of it or becomes a sample.         *)
LEMMA DropFrame ==
  ASSUME NoneDropped, n' = n, cancelled => cancelled', Held \subseteq Held',
         ~ cancelled' => \A w \in VU : Serving(w) => \A f \in Ahead(w) :
           \/ Serving(w)' /\ cur'[w].job = cur[w].job /\ f \in Ahead(w)'
           \/ \E s \in Held' : s.job = cur[w].job /\ s.flow = f
  PROVE  NoneDropped'
<1>1. SUFFICES ASSUME ~ cancelled', NEW j \in 0 .. n - 1, NEW f \in 1 .. NumFlows
               PROVE  \/ \E s \in Held' : s.job = j /\ s.flow = f
                      \/ \E v \in VU : Serving(v)' /\ cur'[v].job = j /\ f \in Ahead(v)'
  BY DEF NoneDropped
<1>2. CASE \E s \in Held : s.job = j /\ s.flow = f
  BY <1>2
<1>3. CASE \E v \in VU : Serving(v) /\ cur[v].job = j /\ f \in Ahead(v)
  BY <1>1, <1>3
<1>4. QED BY <1>1, <1>2, <1>3 DEF NoneDropped

LEMMA DropIdle ==
  ASSUME NoneDropped, UNCHANGED <<pc, cur, acc, merged, n>>, cancelled => cancelled'
  PROVE  NoneDropped'
<1>1. Held' = Held
  BY DEF Held
<1>2. \A w \in VU : (Serving(w)' <=> Serving(w)) /\ Ahead(w)' = Ahead(w)
  BY DEF Serving, Started, Ahead, Counting
<1>3. QED BY <1>1, <1>2, DropFrame

LEMMA OpenStepDrops ==
  ASSUME TypeOK, OpenInv, OmissionInv, OpenStep
  PROVE  OmissionInv'
<1>1. Held' = Held /\ cancelled' = cancelled
  BY OpenStepQuiet DEF Held
<1>2. n \in Nat /\ \A j : Intended(j)' = Intended(j)
  BY ArrivalTypes DEF Intended
<1>3. CASE Advance
  <2>1. UNCHANGED <<pc, cur, acc, merged, n, main>>
    BY <1>3 DEF Advance, sharedVars
  <2>2. QED BY <1>1, <1>2, <2>1, DropIdle DEF OmissionInv, InSchedule, JobsClosed
<1>4. CASE StartWorkers \/ Due \/ CloseJobs
  <2>1. cur' = cur /\ n' = n
    BY <1>4 DEF StartWorkers, Due, CloseJobs, openVars
  <2>2. \A w \in VU : \/ pc'[w] = pc[w]
                      \/ pc[w] = "unborn" /\ pc'[w] = "loop"
    BY <1>4 DEF StartWorkers, Due, CloseJobs, OpenInv, NoneYet
  <2>3. \A w \in VU : (Serving(w) => Serving(w)') /\ Ahead(w)' = Ahead(w)
    BY <2>1, <2>2 DEF Serving, Started, Ahead, Counting
  <2>4. NoneDropped'
    BY <1>1, <2>1, <2>3, DropFrame DEF OmissionInv
  <2>5. InSchedule'
    <3>1. main' = "send" => Intended(n) < Duration
      BY <1>4 DEF StartWorkers, Due, CloseJobs
    <3>2. ~ cancelled /\ JobsClosed' => Intended(n) >= Duration
      BY <1>4 DEF StartWorkers, Due, CloseJobs, JobsClosed
    <3>3. QED BY <1>1, <1>2, <2>1, <3>1, <3>2 DEF OmissionInv, InSchedule
  <2>6. QED BY <2>4, <2>5 DEF OmissionInv
<1>5. CASE \E v \in VU : Send(v)
  <2>1. PICK v \in VU : Send(v)
    BY <1>5
  <2>2. /\ main = "send" /\ main' = "issue" /\ n' = n + 1 /\ pc[v] = "loop"
        /\ pc'[v] = "received" /\ cur'[v].job = n /\ cur'[v].flow = 1
        /\ \A w \in VU \ {v} : pc'[w] = pc[w] /\ cur'[w] = cur[w]
    BY <2>1 DEF Send, Goto, At, Job, TypeOK, SharedTypeOK
  <2>3. InSchedule'
    <3>1. \A j \in 0 .. n' - 1 : j \in 0 .. n - 1 \/ j = n
      BY <1>2, <2>2
    <3>2. \A j \in 0 .. n' - 1 : Intended(j)' < Duration
      BY <1>2, <2>2, <3>1 DEF OmissionInv, InSchedule
    <3>3. QED BY <2>2, <3>2 DEF InSchedule, JobsClosed
  <2>4. /\ ~ Serving(v) /\ Serving(v)' /\ ~ Counting(v)'
        /\ \A w \in VU \ {v} : (Serving(w)' <=> Serving(w)) /\ Ahead(w)' = Ahead(w)
    BY <2>2 DEF Serving, Started, Counting, Ahead
  <2>5. Ahead(v)' = 1 .. NumFlows
    <3>1. \A f \in 1 .. NumFlows : f > 1 \/ f = 1
      BY RunAssumption
    <3>2. QED BY <2>2, <2>4, <3>1 DEF Ahead
  <2>6. SUFFICES ASSUME ~ cancelled', NEW j \in 0 .. n' - 1, NEW f \in 1 .. NumFlows
                 PROVE  \/ \E s \in Held' : s.job = j /\ s.flow = f
                        \/ \E w \in VU : Serving(w)' /\ cur'[w].job = j /\ f \in Ahead(w)'
    BY <2>3 DEF OmissionInv, NoneDropped
  <2>7. CASE j = n
    BY <2>2, <2>4, <2>5, <2>7
  <2>8. CASE j \in 0 .. n - 1
    <3>1. \/ \E s \in Held : s.job = j /\ s.flow = f
          \/ \E w \in VU : Serving(w) /\ cur[w].job = j /\ f \in Ahead(w)
      BY <1>1, <2>6, <2>8 DEF OmissionInv, NoneDropped
    <3>2. QED BY <1>1, <2>2, <2>4, <3>1
  <2>9. QED BY <1>2, <2>2, <2>7, <2>8
<1>6. CASE \E v \in VU : LeaveLoop(v) \/ TakeJob(v)
  <2>1. PICK v \in VU : LeaveLoop(v) \/ TakeJob(v)
    BY <1>6
  <2>2. /\ cur' = cur /\ n' = n /\ main' = main
        /\ \A w \in VU \ {v} : pc'[w] = pc[w]
        /\ pc[v] \in {"loop", "received"}
        /\ pc[v] = "received" => cancelled \/ pc'[v] = "enter"
        /\ pc'[v] \in {"enter", "merge"}
    BY <2>1 DEF LeaveLoop, TakeJob, At, Goto, openVars, TypeOK, SharedTypeOK
  <2>3. \A w \in VU : /\ ~ cancelled => (Serving(w) => Serving(w)')
                      /\ Ahead(w)' = Ahead(w)
    BY <2>2 DEF Serving, Started, Ahead, Counting
  <2>4. NoneDropped'
    BY <1>1, <2>2, <2>3, DropFrame DEF OmissionInv
  <2>5. QED BY <1>1, <1>2, <2>2, <2>4 DEF OmissionInv, InSchedule, JobsClosed
<1>7. QED BY <1>3, <1>4, <1>5, <1>6 DEF OpenStep, Generator

(* A worker's flow leaves its path ahead as a sample only.                 *)
LEMMA IterateDrops ==
  ASSUME TypeOK, OpenInv, NoneDropped, NEW v \in VU, Iterate(v)
  PROVE  NoneDropped'
<1>1. FlowStep(v) /\ n' = n /\ SharedTypeOK /\ Sound
  BY LagType DEF Iterate, FlowStep, openVars, TypeOK, OpenInv, Sound
<1>2. \A w \in VU \ {v} : /\ Serving(w)' <=> Serving(w)
                          /\ cur'[w] = cur[w] /\ Ahead(w)' = Ahead(w)
  <2>1. \A w \in VU \ {v} : /\ pc'[w] = pc[w] /\ cur'[w] = cur[w]
                            /\ Counting(w)' <=> Counting(w)
    BY <1>1, OnlyOwn
  <2>2. QED BY <2>1 DEF Serving, Started, Ahead
<1>3. cancelled => cancelled'
  BY DEF Iterate, EnterIteration, StartFlow, FinishFlow, CountFailed, CountThrottled,
     RecordFlow, CancelRun, LeaveIteration, Merge, ctxVars
<1>4. Held \subseteq Held'
  <2>1. Held' = Held \/ \E u \in VU : FinishFlow(u)
    BY <1>1, HeldKept DEF SharedStep
  <2>2. QED BY <1>1, <2>1, Finished1
<1>5. SUFFICES ASSUME ~ cancelled', Serving(v), NEW f \in Ahead(v)
               PROVE  \/ Serving(v)' /\ cur'[v].job = cur[v].job /\ f \in Ahead(v)'
                      \/ \E s \in Held' : s.job = cur[v].job /\ s.flow = f
  BY <1>1, <1>2, <1>3, <1>4, DropFrame
<1>6. f \in 1 .. NumFlows /\ (f > cur[v].flow \/ (f = cur[v].flow /\ ~ Counting(v)))
  BY <1>5 DEF Ahead
<1>7. CASE EnterIteration(v) \/ StartFlow(v, now - Intended(cur[v].job))
  <2>1. pc'[v] \in {"draw", "running"} /\ ~ Counting(v)
    BY <1>7 DEF EnterIteration, StartFlow, Goto, At, Counting, TypeOK, SharedTypeOK
  <2>2. cur'[v].job = cur[v].job /\ cur'[v].flow = cur[v].flow
    <3>1. CASE EnterIteration(v)
      BY <3>1 DEF EnterIteration
    <3>2. CASE StartFlow(v, now - Intended(cur[v].job))
      <4>1. PICK row, lag : cur' = [cur EXCEPT ![v] = Dispatch(@, row, lag)]
        BY <3>2 DEF StartFlow
      <4>2. QED BY <4>1 DEF Dispatch, TypeOK, SharedTypeOK
    <3>3. QED BY <1>7, <3>1, <3>2
  <2>3. QED BY <1>6, <2>1, <2>2 DEF Serving, Started, Counting, Ahead
<1>8. CASE FinishFlow(v)
  <2>1. PICK r \in FlowResults, s \in Samples :
          /\ s = SampleOf(v, completed + 1, r)
          /\ cur' = [cur EXCEPT ![v] = Back(@, completed + 1, r)]
          /\ Held' = Held \cup {s}
    BY <1>1, <1>8, Finished1
  <2>2. /\ cur'[v].job = cur[v].job /\ cur'[v].flow = cur[v].flow
        /\ s.job = cur[v].job /\ s.flow = cur[v].flow /\ s \in Held'
    <3>1. s.job = cur[v].job /\ s.flow = cur[v].flow /\ s \in Held'
      BY <2>1 DEF SampleOf
    <3>2. QED BY <2>1, <3>1 DEF Back, TypeOK, SharedTypeOK
  <2>3. pc'[v] = "failed"
    BY <1>8 DEF FinishFlow, Goto, TypeOK, SharedTypeOK
  <2>4. QED BY <1>6, <2>2, <2>3 DEF Serving, Started, Ahead
<1>9. CASE CountFailed(v) \/ CountThrottled(v)
  <2>1. /\ pc[v] \in {"failed", "throttled"} /\ pc'[v] \in {"throttled", "record"}
        /\ cur' = cur
    BY <1>9 DEF CountFailed, CountThrottled, Goto, At, TypeOK, SharedTypeOK
  <2>2. QED BY <1>6, <2>1 DEF Serving, Started, Counting, Ahead
<1>10. CASE RecordFlow(v)
  <2>1. pc[v] = "record" /\ Counting(v)
    BY <1>10 DEF RecordFlow, At, Counting
  <2>2. f > cur[v].flow /\ cur[v].flow \in Int /\ NumFlows \in Nat
    BY <1>6, <2>1, ArrivalTypes, RunAssumption
  <2>3. cur[v].flow < NumFlows
    BY <1>6, <2>2
  <2>4. pc' = [pc EXCEPT ![v] = "draw"] /\ cur' = [cur EXCEPT ![v] = Onward(@)]
    BY <1>10, <2>3 DEF RecordFlow, Goto
  <2>5. pc'[v] = "draw" /\ cur'[v] = Onward(cur[v])
    BY <2>4 DEF TypeOK, SharedTypeOK
  <2>6. cur'[v].job = cur[v].job /\ cur'[v].flow = cur[v].flow + 1
    BY <2>5 DEF Onward
  <2>7. f > cur'[v].flow \/ f = cur'[v].flow
    BY <1>6, <2>2, <2>6
  <2>8. QED BY <1>6, <2>5, <2>6, <2>7 DEF Serving, Counting, Ahead
<1>11. CASE LeaveIteration(v, "loop") \/ Merge(v)
  BY <1>5, <1>11 DEF LeaveIteration, Merge, At, Serving, Started
<1>12. QED BY <1>7, <1>8, <1>9, <1>10, <1>11 DEF Iterate

(* Nothing the generator sent is dropped while nobody stops the run.       *)
THEOREM NoneOmitted == Spec => []OmissionInv
<1>1. Init => OmissionInv
  BY DEF Init, OmissionInv, InSchedule, JobsClosed, NoneDropped
<1>2. TypeOK /\ OpenInv /\ OmissionInv /\ [Next]_vars => OmissionInv'
  <2>1. SUFFICES ASSUME TypeOK, OpenInv, OmissionInv, [Next]_vars PROVE OmissionInv'
    OBVIOUS
  <2>2. CASE OpenStep
    BY <2>1, <2>2, OpenStepDrops
  <2>3. CASE \E v \in VU : Iterate(v)
    <3>1. PICK v \in VU : Iterate(v)
      BY <2>3
    <3>2. NoneDropped'
      BY <2>1, <3>1, IterateDrops DEF OmissionInv
    <3>3. main' = main /\ n' = n /\ (cancelled => cancelled')
      BY <3>1 DEF Iterate, EnterIteration, StartFlow, FinishFlow, CountFailed, CountThrottled,
         RecordFlow, CancelRun, LeaveIteration, Merge, ctxVars, openVars
    <3>4. QED BY <2>1, <3>2, <3>3 DEF OmissionInv, InSchedule, JobsClosed, Intended
  <2>4. CASE Lifecycle
    <3>1. /\ UNCHANGED <<pc, cur, acc, merged, n>> /\ (cancelled => cancelled')
          /\ main' = main \/ (main \in {"join", "stopping"} /\ main' \in {"stopping", "returned"})
      BY <2>4 DEF Lifecycle, Interrupt, CancelRun, StopObservers, Observe, TickSnapshot,
         FinalSnapshot, LoadCompleted, LoadFailed, Publish, StopSampler, Return, ctxVars, openVars
    <3>2. NoneDropped'
      BY <2>1, <3>1, DropIdle DEF OmissionInv
    <3>3. QED BY <2>1, <3>1, <3>2 DEF OmissionInv, InSchedule, JobsClosed, Intended
  <2>5. CASE UNCHANGED vars
    <3>1. UNCHANGED <<pc, cur, acc, merged, n, main, cancelled>>
      BY <2>5 DEF vars, sharedVars, openVars, ctxVars
    <3>2. NoneDropped'
      BY <2>1, <3>1, DropIdle DEF OmissionInv
    <3>3. QED BY <2>1, <3>1, <3>2 DEF OmissionInv, InSchedule, JobsClosed, Intended
  <2>6. QED
    BY <2>1, <2>2, <2>3, <2>4, <2>5 DEF Next, OpenStep, Worker, Finished
<1>3. QED BY <1>1, <1>2, TypeCorrect, Inductive, PTL DEF Spec

(* A run nobody stopped serves every flow of every arrival of its schedule, *)
(* for any rate, duration and number of workers.                           *)
THEOREM AllArrivals == Spec => []NoArrivalOmitted
<1>1. TypeOK /\ OpenInv /\ ArrivalInv /\ OmissionInv => NoArrivalOmitted
  <2>1. SUFFICES ASSUME TypeOK, OpenInv, ArrivalInv, OmissionInv, main = "returned", ~ cancelled
                 PROVE  {<<s.job, s.flow>> : s \in result.acc.samples} =
                          {j \in 0 .. Duration : Intended(j) < Duration} \X (1 .. NumFlows)
    BY DEF NoArrivalOmitted
  <2>2. result.acc.samples = Held /\ Joined
    BY <2>1, ResultIsHeld DEF OpenInv, RunInv, Settled
  <2>3. \A v \in VU : ~ Serving(v)
    BY <2>2 DEF Joined, Serving, Started
  <2>4. n \in Nat /\ Duration \in Nat /\ \A k \in Nat : Intended(k) \in Nat
    BY <2>1, ArrivalTypes, OpenAssumption
  <2>5. \A j \in 0 .. n - 1 : j \in 0 .. Duration /\ Intended(j) < Duration
    <3>1. \A j \in 0 .. n - 1 : Intended(j) < Duration /\ j <= Intended(j) /\ j \in Nat
      BY <2>1, <2>4, IntendedOrder DEF OmissionInv, InSchedule
    <3>2. QED BY <2>4, <3>1
  <2>6. \A j \in Nat : Intended(j) < Duration => j \in 0 .. n - 1
    <3>1. Intended(n) >= Duration
      BY <2>1 DEF OmissionInv, InSchedule, JobsClosed
    <3>2. SUFFICES ASSUME NEW j \in Nat, Intended(j) < Duration, ~ (j < n)
                   PROVE  FALSE
      BY <2>4
    <3>3. Intended(n) <= Intended(j)
      BY <2>4, <3>2, IntendedOrder
    <3>4. QED BY <2>4, <3>1, <3>2, <3>3
  <2>7. \A s \in Held : s.job \in 0 .. n - 1 /\ s.flow \in 1 .. NumFlows
    <3>1. \A s \in Held : s.job < n /\ s.job \in Nat
      BY <2>1, ArrivalTypes DEF ArrivalInv, OnceInv
    <3>2. \A s \in Held : s.flow \in 1 .. NumFlows
      BY <2>1, Members DEF TypeOK, SharedTypeOK, Accs, Samples
    <3>3. QED BY <2>4, <3>1, <3>2
  <2>8. \A j \in 0 .. n - 1, f \in 1 .. NumFlows : \E s \in Held : s.job = j /\ s.flow = f
    BY <2>1, <2>3 DEF OmissionInv, NoneDropped
  <2>9. \A s \in Held : <<s.job, s.flow>> \in
          {j \in 0 .. Duration : Intended(j) < Duration} \X (1 .. NumFlows)
    BY <2>5, <2>7
  <2>10. \A j \in {k \in 0 .. Duration : Intended(k) < Duration}, f \in 1 .. NumFlows :
           \E s \in Held : <<j, f>> = <<s.job, s.flow>>
    BY <2>4, <2>6, <2>8
  <2>11. QED BY <2>2, <2>9, <2>10
<1>2. QED BY <1>1, TypeCorrect, Inductive, Arrivals, NoneOmitted, PTL

===============================================================================
