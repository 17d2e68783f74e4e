----------------------------- MODULE FlowCallers -----------------------------
(***************************************************************************)
(* The two callers of RunFlow and what they make of what it returns:       *)
(* executeOnce (cmd/flowbench/run.go), which runs a flow once for every    *)
(* row of its fixture in integration and system mode, and pool.iterate     *)
(* (internal/executor/pool.go), under a context that is cancelled when     *)
(* the run is; the rest of the pool is in VirtualUsers.                    *)
(***************************************************************************)
EXTENDS FlowRun

CONSTANT Rows     \* rows of the fixture, or flow-runs of a virtual user

ASSUME RowsAssumption == Rows \in Nat \ {0}

VARIABLES
  flow,        \* the flow that is run
  left,        \* rows to go
  samples,     \* Result.Samples
  failedRuns,  \* executeOnce's failed
  aborted,     \* executeOnce's aborted, the pool's aborted
  exit,        \* executeOnce's exit code, -1 until it returns
  unsound      \* history: rows whose flow failed or was in error

callerVars == <<flow, left, samples, failedRuns, aborted, exit, unsound>>
vars       == <<flowVars, callerVars>>

Once == mode = "integration"

Init ==
  /\ FlowInit
  /\ flow \in {f \in Entry : Valid(f)}
  /\ left = Rows
  /\ samples = <<>>
  /\ failedRuns = 0
  /\ aborted = FALSE
  /\ exit = -1
  /\ unsound = 0

(* A sample, with a ghost that says whether the flow-run was in error. *)
SampleOf(r, outcome) ==
  [outcome |-> outcome, throttled |-> r.throttled,
   error |-> r.err \/ r.failures # <<>>]

Unsound(r) == r.err \/ r.failures # <<>>

Start ==
  /\ returned = Unreturned
  /\ left > 0
  /\ exit = -1
  /\ Once \/ ~ (aborted \/ cancelled)
  /\ Call(flow)
  /\ UNCHANGED callerVars

(* Mutant of JudgeOnce: a row is judged by the outcome of its spans. *)
JudgeOnceBySpans ==
  /\ Once
  /\ returned # Unreturned
  /\ failedRuns' = failedRuns + (IF returned.err \/ returned.outcome = "failed" THEN 1 ELSE 0)
  /\ samples' = IF returned.err THEN samples
                ELSE Append(samples, SampleOf(returned, returned.outcome))
  /\ aborted' = (aborted \/ (~ returned.err /\ returned.aborted))

(* executeOnce: a row in error is counted but not sampled, any other gives *)
(* a sample with the outcome of its spans; an abort is noted.              *)
JudgeOnce ==
  /\ Once
  /\ returned # Unreturned
  /\ failedRuns' = failedRuns + (IF Unsound(returned) THEN 1 ELSE 0)
  /\ samples' = IF returned.err THEN samples
                ELSE Append(samples, SampleOf(returned, returned.outcome))
  /\ aborted' = (aborted \/ (~ returned.err /\ returned.aborted))

(* iterate: a failure or an error makes the outcome, and an abort cancels  *)
(* the run.                                                                *)
Judged(r) ==
  [outcome   |-> IF Unsound(r) THEN "failed" ELSE r.outcome,
   throttled |-> r.throttled,
   aborted   |-> r.aborted]

JudgeInPool ==
  /\ ~ Once
  /\ returned # Unreturned
  /\ samples' = Append(samples, SampleOf(returned, Judged(returned).outcome))
  /\ aborted' = (aborted \/ returned.aborted)
  /\ UNCHANGED failedRuns

NextRow ==
  /\ JudgeOnce \/ JudgeInPool
  /\ cancelled' = (cancelled \/ (~ Once /\ returned.aborted))
  /\ returned' = Unreturned
  /\ left' = left - 1
  /\ unsound' = unsound + (IF Unsound(returned) THEN 1 ELSE 0)
  /\ UNCHANGED <<mode, stack, pc, io, conns, historyVars, flow, exit>>

Exit ==
  /\ Once
  /\ stack = <<>> /\ returned = Unreturned /\ left = 0 /\ exit = -1
  /\ exit' = IF failedRuns > 0 THEN 1 ELSE 0
  /\ UNCHANGED <<flowVars, flow, left, samples, failedRuns, aborted, unsound>>

(* An interrupt, the end of the schedule, or the kill switch of somebody   *)
(* else.  executeOnce runs its flows under a context nobody cancels.       *)
Cancel ==
  /\ ~ Once
  /\ ~ cancelled
  /\ cancelled' = TRUE
  /\ UNCHANGED <<mode, stack, pc, io, conns, returned, historyVars, callerVars>>

FlowStep == RunFlowStep /\ UNCHANGED callerVars

Finished ==
  /\ stack = <<>> /\ returned = Unreturned
  /\ exit # -1 \/ (~ Once /\ (left = 0 \/ aborted \/ cancelled))
  /\ UNCHANGED vars

Next == Start \/ FlowStep \/ NextRow \/ Exit \/ Cancel \/ Finished

Spec == Init /\ [][Next]_vars

(* The program runs, a call ends by its request timeout at the latest, and *)
(* a write gives up when its context is cancelled.  Nothing else ends one. *)
FairSpec ==
  /\ Spec
  /\ WF_vars(Start \/ NextRow \/ Exit)
  /\ WF_vars(Progress /\ UNCHANGED callerVars)
  /\ WF_vars(cancelled /\ SessionLost /\ UNCHANGED callerVars)

-------------------------------------------------------------------------------

TypeOK ==
  /\ FlowTypeOK
  /\ flow \in FlowName
  /\ left \in 0 .. Rows
  /\ failedRuns \in Nat
  /\ aborted \in BOOLEAN
  /\ exit \in {-1, 0, 1}
  /\ unsound \in Nat

(* What RunFlow returns, as iterate judges it, is what VirtualUsers takes  *)
(* for granted: only a failed flow-run aborts, and throttled ones say so.  *)
AsThePoolAssumes ==
  returned # Unreturned => Judged(returned) \in FlowResult

(* executeOnce exits with 0 exactly if every row's flow returned without   *)
(* an error and without a failure, throttles that count as one included.   *)
ExitCodeTruthful ==
  exit # -1 => (exit = 0 <=> unsound = 0)

(* A virtual user's flow-run in error is among the failed, a throttle that *)
(* counts as one included.  executeOnce's sample has the outcome of the    *)
(* spans, which such a throttle leaves at "throttled".                     *)
SamplesTruthful ==
  ~ Once => \A i \in DOMAIN samples : samples[i].error => samples[i].outcome = "failed"

(* Both callers make of what RunFlow returned what it was.                 *)
CallersTruthful == AsThePoolAssumes /\ SamplesTruthful /\ ExitCodeTruthful

(* A flow-run ends, provided that the target lets what is sent to it go    *)
(* out: retries and receives are bounded, and frames that are not the one  *)
(* waited for do not put the deadline off.                                 *)
FlowReturns ==
  ([]<> ~ At("send")) => ((stack # <<>>) ~> (stack = <<>>))

(* A cancelled run's flow-runs end even when the target reads nothing.     *)
CancelledFlowReturns == cancelled ~> (stack = <<>>)

(* Nothing a target does, or leaves undone, keeps a flow-run for ever that *)
(* was cancelled or whose target reads.                                    *)
FlowEnds == FlowReturns /\ CancelledFlowReturns

(* The guide's promise for on_failure: abort_run stops the whole run.      *)
(* executeOnce notes the abort and goes on to the next row.                *)
AbortRunStopsTheRun ==
  [][Once /\ aborted => left' = left]_vars

-------------------------------------------------------------------------------
(* What makes CallersTruthful inductive. *)

(* The flow that is called is valid, a flow-run is the row's that is left, *)
(* and executeOnce counts the rows in error.                               *)
CallerInv ==
  /\ Valid(flow)
  /\ stack # <<>> \/ returned # Unreturned => left > 0 /\ exit = -1
  /\ Once => failedRuns = unsound
  /\ exit # -1 => Once /\ (exit = 0 <=> failedRuns = 0)

FlowInv ==
  /\ Nested /\ TriesInv /\ KillInv /\ FlagsInv /\ ToldInv /\ SessionsInv
  /\ ObeyedInv
  /\ CallerInv

===============================================================================
