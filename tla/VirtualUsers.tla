----------------------------- MODULE VirtualUsers -----------------------------
(***************************************************************************)
(* What the two arrival models of internal/executor/pool.go share: the     *)
(* goroutines that run iterations (iterate, record, keepTrace, drawRow,    *)
(* merge), the counters and budgets they bump without a lock, the kill     *)
(* switch, and the end of Run, which stops the observers and assembles the *)
(* Result.  ClosedPool and OpenPool add the goroutine that drives them.    *)
(*                                                                         *)
(* One step is one access to shared state: each atomic counter, the data   *)
(* pool's mutex, the merge under p.mu, the context.  A flow-run's result   *)
(* is an input: FlowResults, what Runner.RunFlow may come back with.       *)
(***************************************************************************)
EXTENDS DataPool, FlowOutcome

CONSTANTS
  VU,             \* the goroutines (virtual users, workers) a run may spawn
  NumFlows,       \* len(opts.Flows)
  FlowResults,    \* the results a flow-run may have in this instance
  SampleEvery,    \* opts.SampleEvery, defaults resolved
  MaxTraces,      \* opts.MaxTraces, defaults resolved
  MaxFailures,    \* opts.MaxFailures, defaults resolved
  WatchProgress   \* opts.Progress # nil

ASSUME RunAssumption ==
  /\ IsFiniteSet(VU)
  /\ NumFlows \in Nat \ {0}
  /\ FlowResults \subseteq FlowResult
  /\ SampleEvery \in Nat \ {0}
  /\ MaxTraces \in Nat \ {0}
  /\ MaxFailures \in Nat \ {0}
  /\ WatchProgress \in BOOLEAN

VARIABLES
  pc,              \* where each goroutine is
  cur,             \* the flow-run each goroutine is on
  acc,             \* each goroutine's private acc
  active,          \* pool.active
  completed,       \* pool.completed
  failed,          \* pool.failed
  throttled,       \* pool.throttled
  aborted,         \* pool.aborted
  successSeen,     \* pool.successSeen
  successBudget,   \* pool.successBudget
  failBudget,      \* pool.failBudget
  merged,          \* pool.samples, traces, folded and iterations, under pool.mu
  cancelled,       \* ctx.Err() # nil
  doneAtCancel,    \* history: flow-runs completed when ctx was cancelled
  main,            \* where Run is
  prog,            \* where the progress goroutine is
  reading,         \* the counters its current snapshot has loaded so far
  published,       \* the last Progress it delivered
  sampler,         \* the self-metrics goroutine: "sampling" or "done"
  result           \* what Run returned

counterVars == <<active, completed, failed, throttled>>
budgetVars  == <<successSeen, successBudget, failBudget>>
ctxVars     == <<cancelled, doneAtCancel, aborted>>
watchVars   == <<prog, reading, published, sampler>>
sharedVars  == <<pc, cur, acc, counterVars, budgetVars, ctxVars, merged,
                 main, watchVars, result, poolVars>>

-------------------------------------------------------------------------------

(* A Sample, with a ghost n that numbers the flow-runs of the run in the   *)
(* order they completed.  job is the index of the arrival it serves and    *)
(* lag is Actual - Intended; both are 0 in the closed model, where a run   *)
(* is its own reference.                                                   *)
Samples ==
  [n : Nat \ {0}, flow : 1 .. NumFlows, outcome : {"ok", "throttled", "failed"},
   throttled : BOOLEAN, aborted : BOOLEAN, row : Row \cup {NoRow},
   job : Nat, lag : Int]

(* acc: samples, trace trees kept, trace trees folded (by the n of their   *)
(* flow-run) and iterations.                                               *)
Accs == [samples : SUBSET Samples, traces : SUBSET Nat, folded : SUBSET Nat,
         iters : Nat]

NewAcc == [samples |-> {}, traces |-> {}, folded |-> {}, iters |-> 0]

(* What is appended to an acc after a flow-run, after its record and after *)
(* a pass, and what merge makes of two of them.                            *)
AddSample(a, s) ==
  [samples |-> a.samples \cup {s}, traces |-> a.traces, folded |-> a.folded,
   iters |-> a.iters]
AddTree(a, k, kept) ==
  [samples |-> a.samples,
   traces  |-> IF kept THEN a.traces \cup {k} ELSE a.traces,
   folded  |-> a.folded \cup {k}, iters |-> a.iters]
AddPass(a) ==
  [samples |-> a.samples, traces |-> a.traces, folded |-> a.folded,
   iters |-> a.iters + 1]
Joint(a, b) ==
  [samples |-> a.samples \cup b.samples, traces |-> a.traces \cup b.traces,
   folded |-> a.folded \cup b.folded, iters |-> a.iters + b.iters]

OK == [outcome |-> "ok", throttled |-> FALSE, aborted |-> FALSE]

Work == [flow : 1 .. NumFlows, row : Row \cup {NoRow}, job : Nat, lag : Int,
         n : Nat, res : FlowResult]

(* The job a worker takes, a flow-run dispatched, a flow-run come back, and *)
(* the next one of the same iteration.                                     *)
Job(k)               == [flow |-> 1, row |-> NoRow, job |-> k, lag |-> 0, n |-> 0, res |-> OK]
Dispatch(w, row, lag) == [flow |-> w.flow, row |-> row, job |-> w.job, lag |-> lag,
                          n |-> 0, res |-> OK]
Back(w, k, r)        == [flow |-> w.flow, row |-> w.row, job |-> w.job, lag |-> w.lag,
                         n |-> k, res |-> r]
Onward(w)            == [flow |-> w.flow + 1, row |-> NoRow, job |-> w.job, lag |-> 0,
                         n |-> 0, res |-> OK]
Idle                 == Job(0)

Steps == {"unborn", "loop", "received", "enter", "draw", "running", "failed", "throttled",
          "record", "leave", "merge", "done"}

(* The steps of iterate between active.Add(1) and active.Add(-1). *)
InFlight == {"draw", "running", "failed", "throttled", "record", "leave"}

Counts == [completed : Nat, failed : Nat, throttled : Nat]
Zero   == [completed |-> 0, failed |-> 0, throttled |-> 0]

NoResult == [none |-> TRUE]
Results  == [acc : Accs, aborted : BOOLEAN]

SharedTypeOK ==
  /\ PoolTypeOK
  /\ pc \in [VU -> Steps]
  /\ cur \in [VU -> Work]
  /\ acc \in [VU -> Accs]
  /\ active \in Int
  /\ completed \in Nat
  /\ failed \in Nat
  /\ throttled \in Nat
  /\ aborted \in BOOLEAN
  /\ successSeen \in Nat
  /\ successBudget \in Int
  /\ failBudget \in Int
  /\ merged \in Accs
  /\ cancelled \in BOOLEAN
  /\ doneAtCancel \in Nat
  /\ prog \in {"idle", "failed", "throttled", "last_failed", "last_throttled", "done"}
  /\ reading \in Counts
  /\ published \in Counts
  /\ sampler \in {"sampling", "done"}
  /\ result \in Results \cup {NoResult}

SharedInit ==
  /\ PoolInit
  /\ pc = [v \in VU |-> "unborn"]
  /\ cur = [v \in VU |-> Idle]
  /\ acc = [v \in VU |-> NewAcc]
  /\ active = 0 /\ completed = 0 /\ failed = 0 /\ throttled = 0
  /\ aborted = FALSE
  /\ successSeen = 0
  /\ successBudget = MaxTraces
  /\ failBudget = MaxFailures
  /\ merged = NewAcc
  /\ cancelled = FALSE
  /\ doneAtCancel = 0
  /\ prog = IF WatchProgress THEN "idle" ELSE "done"
  /\ reading = Zero
  /\ published = Zero
  /\ sampler = "sampling"
  /\ result = NoResult

-------------------------------------------------------------------------------
(* A goroutine's steps. *)

Goto(v, step) == pc' = [pc EXCEPT ![v] = step]
At(v, step)   == pc[v] = step

(* cancel(): the first call closes the context for good. *)
CancelRun ==
  /\ cancelled' = TRUE
  /\ doneAtCancel' = IF cancelled THEN doneAtCancel ELSE completed

(* iterate's entry. *)
EnterIteration(v) ==
  /\ At(v, "enter")
  /\ active' = active + 1
  /\ Goto(v, "draw")
  /\ UNCHANGED <<cur, acc, completed, failed, throttled, budgetVars, ctxVars,
                 merged, main, watchVars, result, poolVars>>

(* The head of iterate's loop over the flows: the dispatch offset is taken *)
(* and a row drawn, then RunFlow starts.  lag is how late the dispatch is. *)
StartFlow(v, lag) ==
  /\ At(v, "draw")
  /\ \E row \in Row \cup {NoRow} :
       /\ DrawRow(row)
       /\ cur' = [cur EXCEPT ![v] = Dispatch(@, row, lag)]
  /\ Goto(v, "running")
  /\ UNCHANGED <<acc, counterVars, budgetVars, ctxVars, merged, main,
                 watchVars, result>>

SampleOf(v, n, r) ==
  [n |-> n, flow |-> cur[v].flow, outcome |-> r.outcome,
   throttled |-> r.throttled, aborted |-> r.aborted, row |-> cur[v].row,
   job |-> cur[v].job, lag |-> cur[v].lag]

(* Mutant of FinishFlow: only what succeeds is counted as completed. *)
FinishFlowCountingPasses(v) ==
  /\ At(v, "running")
  /\ \E r \in FlowResults :
       /\ acc' = [acc EXCEPT ![v] = AddSample(@, SampleOf(v, completed + 1, r))]
       /\ cur' = [cur EXCEPT ![v] = Back(@, completed + 1, r)]
       /\ completed' = IF r.outcome = "ok" THEN completed + 1 ELSE completed
  /\ Goto(v, "failed")
  /\ UNCHANGED <<active, failed, throttled, budgetVars, ctxVars, merged, main,
                 watchVars, result, poolVars>>

(* RunFlow returns: the sample goes to the private accumulator, and the    *)
(* first of the three live counters is bumped.                             *)
FinishFlow(v) ==
  /\ At(v, "running")
  /\ \E r \in FlowResults :
       /\ acc' = [acc EXCEPT ![v] = AddSample(@, SampleOf(v, completed + 1, r))]
       /\ cur' = [cur EXCEPT ![v] = Back(@, completed + 1, r)]
  /\ completed' = completed + 1
  /\ Goto(v, "failed")
  /\ UNCHANGED <<active, failed, throttled, budgetVars, ctxVars, merged, main,
                 watchVars, result, poolVars>>

CountFailed(v) ==
  /\ At(v, "failed")
  /\ failed' = IF cur[v].res.outcome = "failed" THEN failed + 1 ELSE failed
  /\ Goto(v, "throttled")
  /\ UNCHANGED <<cur, acc, active, completed, throttled, budgetVars, ctxVars,
                 merged, main, watchVars, result, poolVars>>

CountThrottled(v) ==
  /\ At(v, "throttled")
  /\ throttled' = IF cur[v].res.throttled THEN throttled + 1 ELSE throttled
  /\ Goto(v, "record")
  /\ UNCHANGED <<cur, acc, active, completed, failed, budgetVars, ctxVars,
                 merged, main, watchVars, result, poolVars>>

(* keepTrace: a failure draws on its own budget; of the others the first   *)
(* of every SampleEvery seen draws on the success budget.  Each counter    *)
(* moves by one atomic add, and a trace's fate hangs on the value its own  *)
(* add returned, so the adds of one call are taken together.               *)
Sampled == successSeen % SampleEvery = 0

KeepFailure(kept) ==
  /\ failBudget' = failBudget - 1
  /\ kept = (failBudget > 0)
  /\ UNCHANGED <<successSeen, successBudget>>

(* Mutant of KeepSuccess: one trace over the ceiling. *)
KeepSuccessOneMore(kept) ==
  /\ successSeen' = successSeen + 1
  /\ successBudget' = IF Sampled THEN successBudget - 1 ELSE successBudget
  /\ kept = (Sampled /\ successBudget >= 0)
  /\ UNCHANGED failBudget

KeepSuccess(kept) ==
  /\ successSeen' = successSeen + 1
  /\ successBudget' = IF Sampled THEN successBudget - 1 ELSE successBudget
  /\ kept = (Sampled /\ successBudget > 0)
  /\ UNCHANGED failBudget

KeepTrace(outcome, kept) ==
  IF outcome = "failed" THEN KeepFailure(kept) ELSE KeepSuccess(kept)

(* Mutant of RecordFlow: the last flow is left out. *)
RecordFlowShort(v) ==
  /\ At(v, "record")
  /\ \E kept \in BOOLEAN :
       /\ KeepTrace(cur[v].res.outcome, kept)
       /\ acc' = [acc EXCEPT ![v] = AddTree(@, cur[v].n, kept)]
  /\ IF cur[v].res.aborted
       THEN aborted' = TRUE /\ CancelRun
       ELSE UNCHANGED ctxVars
  /\ IF cur[v].flow + 1 < NumFlows
       THEN Goto(v, "draw") /\ cur' = [cur EXCEPT ![v] = Onward(@)]
       ELSE Goto(v, "leave") /\ cur' = [cur EXCEPT ![v] = Idle]
  /\ UNCHANGED <<counterVars, merged, main, watchVars, result, poolVars>>

(* record, then the kill switch, then the next flow or the end of the      *)
(* loop: iterate looks at neither ctx nor aborted between two flows.       *)
RecordFlow(v) ==
  /\ At(v, "record")
  /\ \E kept \in BOOLEAN :
       /\ KeepTrace(cur[v].res.outcome, kept)
       /\ acc' = [acc EXCEPT ![v] = AddTree(@, cur[v].n, kept)]
  /\ IF cur[v].res.aborted
       THEN aborted' = TRUE /\ CancelRun
       ELSE UNCHANGED ctxVars
  /\ IF cur[v].flow < NumFlows
       THEN /\ Goto(v, "draw")
            /\ cur' = [cur EXCEPT ![v] = Onward(@)]
       ELSE /\ Goto(v, "leave")
            /\ cur' = [cur EXCEPT ![v] = Idle]
  /\ UNCHANGED <<counterVars, merged, main, watchVars, result, poolVars>>

(* iterate's exit; next is where its caller goes on. *)
LeaveIteration(v, next) ==
  /\ At(v, "leave")
  /\ acc' = [acc EXCEPT ![v] = AddPass(@)]
  /\ active' = active - 1
  /\ Goto(v, next)
  /\ UNCHANGED <<cur, completed, failed, throttled, budgetVars, ctxVars,
                 merged, main, watchVars, result, poolVars>>

(* Mutant of Merge: the pool's samples are assigned, not appended to. *)
MergeOver(v) ==
  /\ At(v, "merge")
  /\ merged' = Joint(NewAcc, acc[v])
  /\ acc' = [acc EXCEPT ![v] = NewAcc]
  /\ Goto(v, "done")
  /\ UNCHANGED <<cur, counterVars, budgetVars, ctxVars, main, watchVars,
                 result, poolVars>>

(* merge, then the goroutine is gone (wg.Done). *)
Merge(v) ==
  /\ At(v, "merge")
  /\ merged' = Joint(merged, acc[v])
  /\ acc' = [acc EXCEPT ![v] = NewAcc]
  /\ Goto(v, "done")
  /\ UNCHANGED <<cur, counterVars, budgetVars, ctxVars, main, watchVars,
                 result, poolVars>>

-------------------------------------------------------------------------------
(* Run around the arrival model. *)

(* Ctrl-C, or the live view's abort: the caller cancels ctx. *)
Interrupt ==
  /\ main # "returned"
  /\ ~ cancelled
  /\ CancelRun
  /\ UNCHANGED <<pc, cur, acc, counterVars, budgetVars, aborted, merged, main,
                 watchVars, result, poolVars>>

Joined == \A v \in VU : pc[v] \in {"unborn", "done"}

(* wg.Wait of runClosed or runOpen returns, and mstop is called. *)
StopObservers ==
  /\ main = "join"
  /\ Joined
  /\ main' = "stopping"
  /\ UNCHANGED <<pc, cur, acc, counterVars, budgetVars, ctxVars, merged,
                 watchVars, result, poolVars>>

StopSampler ==
  /\ main = "stopping"
  /\ sampler = "sampling"
  /\ sampler' = "done"
  /\ UNCHANGED <<pc, cur, acc, counterVars, budgetVars, ctxVars, merged, main,
                 prog, reading, published, result, poolVars>>

(* snapshot loads the counters one by one; it is taken on a tick of the    *)
(* progress ticker, and one last time once mctx is done.                   *)
LoadCompleted(next) ==
  /\ prog = "idle"
  /\ reading' = [completed |-> completed, failed |-> 0, throttled |-> 0]
  /\ prog' = next
  /\ UNCHANGED <<pc, cur, acc, counterVars, budgetVars, ctxVars, merged, main,
                 published, sampler, result, poolVars>>

TickSnapshot  == main # "returned" /\ LoadCompleted("failed")

FinalSnapshot == main = "stopping" /\ LoadCompleted("last_failed")

(* Mutant of LoadFailed: the counter is swapped for 0 as it is read. *)
SwapFailed ==
  /\ prog \in {"failed", "last_failed"}
  /\ reading' = [completed |-> reading.completed, failed |-> failed, throttled |-> 0]
  /\ prog' = IF prog = "failed" THEN "throttled" ELSE "last_throttled"
  /\ failed' = 0
  /\ UNCHANGED <<pc, cur, acc, active, completed, throttled, budgetVars, ctxVars,
                 merged, main, published, sampler, result, poolVars>>

LoadFailed ==
  /\ prog \in {"failed", "last_failed"}
  /\ reading' = [completed |-> reading.completed, failed |-> failed, throttled |-> 0]
  /\ prog' = IF prog = "failed" THEN "throttled" ELSE "last_throttled"
  /\ UNCHANGED <<pc, cur, acc, counterVars, budgetVars, ctxVars, merged, main,
                 published, sampler, result, poolVars>>

(* The last load, and opts.Progress is called. *)
Publish ==
  /\ prog \in {"throttled", "last_throttled"}
  /\ published' = [completed |-> reading.completed, failed |-> reading.failed,
                    throttled |-> throttled]
  /\ reading' = Zero
  /\ prog' = IF prog = "throttled" THEN "idle" ELSE "done"
  /\ UNCHANGED <<pc, cur, acc, counterVars, budgetVars, ctxVars, merged, main,
                 sampler, result, poolVars>>

(* Mutant of Return: the Result says nothing of the kill switch. *)
ReturnUnflagged ==
  /\ main = "stopping"
  /\ sampler = "done"
  /\ prog = "done"
  /\ result' = [acc |-> merged, aborted |-> FALSE]
  /\ main' = "returned"
  /\ UNCHANGED <<pc, cur, acc, counterVars, budgetVars, ctxVars, merged,
                 watchVars, poolVars>>

(* mwg.Wait returns and the Result is assembled. *)
Return ==
  /\ main = "stopping"
  /\ sampler = "done"
  /\ prog = "done"
  /\ result' = [acc |-> merged, aborted |-> aborted]
  /\ main' = "returned"
  /\ UNCHANGED <<pc, cur, acc, counterVars, budgetVars, ctxVars, merged,
                 watchVars, poolVars>>

Observe == TickSnapshot \/ FinalSnapshot \/ LoadFailed \/ Publish \/ StopSampler

-------------------------------------------------------------------------------
(* Properties of a run under either arrival model. *)

Numbers(samples) == {s.n : s \in samples}
Failures(samples) == {s \in samples : s.outcome = "failed"}
Throttles(samples) == {s \in samples : s.throttled}

(* The samples, and the folded trace trees, in whatever accumulator. *)
Held   == merged.samples \cup UNION {acc[v].samples : v \in VU}
Folded == merged.folded \cup UNION {acc[v].folded : v \in VU}

(* Every flow-run that was counted is in exactly one accumulator, a        *)
(* goroutine's own or the pool's, whatever the interleaving of completions *)
(* and merges: no sample is lost and none is merged twice.                 *)
NoFlowRunLost ==
  /\ Numbers(Held) = 1 .. completed
  /\ \A s, t \in Held : s.n = t.n => s = t
  /\ \A v \in VU : acc[v].samples \cap merged.samples = {}
  /\ \A v, w \in VU : v # w => acc[v].samples \cap acc[w].samples = {}

(* When Run has returned nothing is still running, and its Result holds    *)
(* every flow-run that ever completed, each one folded into the aggregate  *)
(* - after an abort or an interrupt as well: the partial run is reported   *)
(* whole.                                                                  *)
ReturnedInFull ==
  main = "returned" =>
    /\ Joined
    /\ Numbers(result.acc.samples) = 1 .. completed
    /\ result.acc.folded = 1 .. completed

(* The gauge and the tally of a returned run: nothing is left in flight,   *)
(* and every iteration counted stands for one full pass over the flows.    *)
WholePasses ==
  main = "returned" =>
    active = 0 /\ completed = result.acc.iters * NumFlows

(* The kill switch is reported if and only if a flow-run asked for it, and *)
(* never trips without the context being cancelled with it.                *)
KillSwitchReported ==
  /\ aborted => cancelled
  /\ main = "returned" =>
       (result.aborted <=> \E s \in result.acc.samples : s.aborted)

(* So the Result is whole, however completions, merges, the kill switch    *)
(* and an interrupt interleave.                                            *)
ResultWhole == NoFlowRunLost /\ ReturnedInFull /\ KillSwitchReported

Least(a, b) == IF a < b THEN a ELSE b
CeilDiv(a, b) == (a + b - 1) \div b

(* The capture policy holds across goroutines, exactly: every failure's    *)
(* trace up to the failure ceiling, and of the other flow-runs one in      *)
(* SampleEvery, up to the success ceiling (keepTrace's comment).           *)
RetentionExact ==
  main = "returned" =>
    LET bad  == Failures(result.acc.samples)
        good == result.acc.samples \ bad
        Kept(samples) == Cardinality(Numbers(samples) \cap result.acc.traces)
    IN  /\ Kept(bad) = Least(MaxFailures, Cardinality(bad))
        /\ Kept(good) = Least(MaxTraces, CeilDiv(Cardinality(good), SampleEvery))

(* The last Progress a watcher gets carries the counts the Result itself   *)
(* has, "so a live rate matches the run's own once it ends" (Progress).    *)
LastProgressIsResult ==
  main = "returned" /\ WatchProgress =>
    LET samples == result.acc.samples
    IN  published = [completed |-> Cardinality(samples),
                     failed    |-> Cardinality(Failures(samples)),
                     throttled |-> Cardinality(Throttles(samples))]

(* The counters a watcher sees never run backwards, although a snapshot is *)
(* torn: its three loads see three different moments.                      *)
ProgressNeverRewinds ==
  [][\A k \in DOMAIN published : published'[k] >= published[k]]_published

(* A torn snapshot still never claims a failure that no completed flow-run *)
(* accounts for by the time it is delivered.                               *)
ProgressNeverInvents ==
  published.failed <= completed /\ published.throttled <= completed

(* What a watcher is told of a run it may believe (Progress, snapshot).    *)
ProgressTruthful == ProgressNeverInvents /\ LastProgressIsResult

(* Once the context is cancelled a goroutine finishes at most the          *)
(* iteration it is on (or has just been let into), so what still completes *)
(* is bounded whatever the time left on the schedule.                      *)
CancelBoundsWork ==
  cancelled => completed - doneAtCancel <= NumFlows * Cardinality(VU)

(* While a unique-per-vu pool does not cycle no two flow-runs ever draw    *)
(* the same row, on whichever goroutines they run and however long ago.    *)
UniqueRows ==
  Distribution = "unique-per-vu" /\ Exhaustion # "cycle" =>
    LET running == {v \in VU : At(v, "running") /\ cur[v].row # NoRow}
    IN  /\ \A s, t \in Held : s.row = t.row => s = t \/ s.row = NoRow
        /\ \A v, w \in running : cur[v].row = cur[w].row => v = w
        /\ \A v \in running : \A s \in Held : cur[v].row # s.row

-------------------------------------------------------------------------------
(* The run as LoadRun promises it. *)

Reported ==
  IF main = "returned"
    THEN [runs |-> result.acc.samples, aborted |-> result.aborted]
    ELSE NoResult

Abstract == INSTANCE LoadRun WITH
  FlowRun  <- Samples,
  NoReport <- NoResult,
  finished <- Held,
  report   <- Reported

(* Seen through the flow-runs it holds and the Result it returned, a run   *)
(* under either model is a LoadRun: nothing finishes after it returned,    *)
(* and no merge, snapshot or cancellation shows.                           *)
ImplementsLoadRun == Abstract!Spec

-------------------------------------------------------------------------------
(* What makes the invariants above inductive. *)

(* Between its sample and its record a flow-run is still being counted. *)
Counting(v) == pc[v] \in {"failed", "throttled", "record"}

(* A goroutine that is not there holds nothing: it merged before it left.  *)
EmptyHanded == \A v \in VU : pc[v] \in {"unborn", "done"} => acc[v] = NewAcc

(* Run is past wg.Wait only when every goroutine it started has left, and  *)
(* what it returns is the pool's state, which nothing touches any more.    *)
Settled ==
  /\ main \in {"stopping", "returned"} => Joined
  /\ result = IF main = "returned" THEN [acc |-> merged, aborted |-> aborted]
                                   ELSE NoResult

(* A counted flow-run is folded, or the goroutine it ran on is about to.   *)
FoldedOrCounting ==
  Folded \cup {cur[v].n : v \in {w \in VU : Counting(w)}} = 1 .. completed

(* The kill switch is thrown for a flow-run that asked, and a flow-run     *)
(* that asked and was not heard yet is still being counted.                *)
AbortAccounted ==
  /\ aborted => cancelled /\ \E s \in Held : s.aborted
  /\ \A s \in Held : s.aborted =>
       aborted \/ \E v \in VU : Counting(v) /\ cur[v].n = s.n /\ cur[v].res.aborted
  /\ \A v \in VU : Counting(v) =>
       \E s \in Held : s.n = cur[v].n /\ s.aborted = cur[v].res.aborted

RunInv ==
  NoFlowRunLost /\ EmptyHanded /\ Settled /\ FoldedOrCounting /\ AbortAccounted

(* The rows drawn so far are those up to the cursor. *)
RowsBelowCursor ==
  Distribution = "unique-per-vu" /\ Exhaustion # "cycle" =>
    /\ \A s \in Held : s.row <= cursor
    /\ \A v \in VU : At(v, "running") => cur[v].row <= cursor

RowsInv == UniqueRows /\ RowsBelowCursor

(* Where a goroutine is in its pass over the flows: how many of them it    *)
(* has a sample of.  Outside a pass it is set on the first flow.           *)
InPass(v) == Counting(v) \/ pc[v] \in {"draw", "running"}

PassDone(v) ==
  IF Counting(v) THEN cur[v].flow
  ELSE IF pc[v] \in {"draw", "running"} THEN cur[v].flow - 1
  ELSE IF pc[v] = "leave" THEN NumFlows
  ELSE 0

FromTheFirst == \A v \in VU : ~ InPass(v) => cur[v].flow = 1

(* An accumulator holds the samples of the passes it counts, and those of  *)
(* the pass under way; the pool's holds whole passes only.                 *)
PassesCounted ==
  /\ \A v \in VU : /\ IsFiniteSet(acc[v].samples)
                    /\ Cardinality(acc[v].samples) = acc[v].iters * NumFlows + PassDone(v)
  /\ IsFiniteSet(merged.samples)
  /\ Cardinality(merged.samples) = merged.iters * NumFlows

GaugeExact == active = Cardinality({v \in VU : pc[v] \in InFlight})

PassInv == FromTheFirst /\ PassesCounted /\ GaugeExact

(* What may still complete once the context is cancelled: the flows ahead  *)
(* of every goroutine that is in an iteration or about to enter one.       *)
Owed ==
  {o \in VU \X (1 .. NumFlows) :
     pc[o[1]] \in InFlight \cup {"enter"} /\ o[2] > PassDone(o[1])}

CancelInv ==
  cancelled =>
    /\ completed - doneAtCancel + Cardinality(Owed) <= NumFlows * Cardinality(VU)
    /\ doneAtCancel <= completed

(* The flow-run being counted has its sample with the goroutine it ran on, *)
(* and its tree is not folded yet.                                         *)
OwnSample(v) ==
  {s \in acc[v].samples :
     s.n = cur[v].n /\ s.outcome = cur[v].res.outcome /\ s.throttled = cur[v].res.throttled}

SampleAtHand ==
  \A v \in VU : Counting(v) => OwnSample(v) # {} /\ cur[v].n \notin Folded

(* The live counters lag behind the samples by the flow-runs whose         *)
(* goroutine has still to bump them.                                       *)
Uncounted(s, steps) == \E v \in VU : pc[v] \in steps /\ cur[v].n = s.n

CountedFailures  == {s \in Failures(Held) : ~ Uncounted(s, {"failed"})}
CountedThrottles == {s \in Throttles(Held) : ~ Uncounted(s, {"failed", "throttled"})}

CountersExact ==
  /\ IsFiniteSet(Held)
  /\ completed = Cardinality(Held)
  /\ failed = Cardinality(CountedFailures)
  /\ throttled = Cardinality(CountedThrottles)

(* A snapshot under way was loaded after the one before was published, and *)
(* the last one is loaded when nothing runs any more.                      *)
SnapshotsInOrder ==
  /\ published.completed <= completed
  /\ published.failed <= failed
  /\ published.throttled <= throttled
  /\ prog \notin {"idle", "done"} =>
       published.completed <= reading.completed /\ reading.completed <= completed
  /\ prog \in {"throttled", "last_throttled"} =>
       published.failed <= reading.failed /\ reading.failed <= failed

LastSnapshotWhole ==
  /\ prog \in {"last_failed", "last_throttled"} =>
       main = "stopping" /\ reading.completed = completed
  /\ prog = "last_throttled" => reading.failed = failed
  /\ prog = "done" /\ WatchProgress =>
       /\ main \in {"stopping", "returned"}
       /\ published = [completed |-> completed, failed |-> failed, throttled |-> throttled]
  /\ main = "returned" => prog = "done"

WatchInv == SampleAtHand /\ CountersExact /\ SnapshotsInOrder /\ LastSnapshotWhole

(* The budgets say how many flow-runs were recorded, and of those as many  *)
(* trees are kept as the policy has room for.                              *)
KeptTrees == merged.traces \cup UNION {acc[v].traces : v \in VU}

RecordedBad  == Numbers(Failures(Held)) \cap Folded
RecordedGood == Numbers(Held \ Failures(Held)) \cap Folded

BudgetsAccounted ==
  LET bad  == Cardinality(RecordedBad)
      good == Cardinality(RecordedGood)
  IN  /\ failBudget = MaxFailures - bad
      /\ successSeen = good
      /\ successBudget = MaxTraces - CeilDiv(good, SampleEvery)
      /\ Cardinality(RecordedBad \cap KeptTrees) = Least(MaxFailures, bad)
      /\ Cardinality(RecordedGood \cap KeptTrees) = Least(MaxTraces, CeilDiv(good, SampleEvery))

KeepInv == SampleAtHand /\ KeptTrees \subseteq Folded /\ BudgetsAccounted

===============================================================================
