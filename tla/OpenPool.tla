------------------------------- MODULE OpenPool -------------------------------
(***************************************************************************)
(* The arrival-driven model: executor.Run with runOpen and worker          *)
(* (internal/executor/pool.go).  A generator issues arrival n at n times   *)
(* the interval over an unbuffered channel, and a fixed pool of workers    *)
(* serves them.  Time is in whole ticks from p.start.                      *)
(***************************************************************************)
EXTENDS VirtualUsers

CONSTANTS
  Interval,        \* ticks between arrivals: a second over the rate
  Duration,        \* sched.Duration
  MaxNow           \* bound of the instance: where the clock stops

ASSUME OpenAssumption ==
  /\ Interval \in Nat \ {0}
  /\ Duration \in Nat
  /\ MaxNow \in Nat
  /\ MaxNow >= Duration

VARIABLES
  now,       \* time.Since(p.start)
  n          \* the generator's iteration index

openVars == <<now, n>>
vars == <<sharedVars, openVars>>

Intended(job) == job * Interval

TypeOK ==
  /\ SharedTypeOK
  /\ main \in {"spawn", "issue", "send", "join", "stopping", "returned"}
  /\ now \in 0 .. MaxNow
  /\ n \in Nat

Init ==
  /\ SharedInit
  /\ main = "spawn"
  /\ now = 0
  /\ n = 0

-------------------------------------------------------------------------------

Advance ==
  /\ now < MaxNow
  /\ now' = now + 1
  /\ UNCHANGED <<sharedVars, n>>

(* The loop that starts the workers: until the generator sends, a worker   *)
(* can only wait on jobs, so they are started together.                    *)
StartWorkers ==
  /\ main = "spawn"
  /\ pc' = [v \in VU |-> "loop"]
  /\ main' = "issue"
  /\ UNCHANGED <<cur, acc, counterVars, budgetVars, ctxVars, merged, watchVars,
                 result, poolVars, openVars>>

(* Arrival n is due: at once when the generator is behind, otherwise when  *)
(* its timer fires.                                                        *)
Due ==
  /\ main = "issue"
  /\ Intended(n) < Duration
  /\ now >= Intended(n)
  /\ main' = "send"
  /\ UNCHANGED <<pc, cur, acc, counterVars, budgetVars, ctxVars, merged,
                 watchVars, result, poolVars, openVars>>

(* Mutants of Send: the index stays; it is set by the clock after a stall. *)
SendAgain(v) ==
  /\ main = "send"
  /\ At(v, "loop")
  /\ Goto(v, "received")
  /\ cur' = [cur EXCEPT ![v] = Job(n)]
  /\ main' = "issue"
  /\ UNCHANGED <<acc, counterVars, budgetVars, ctxVars, merged, watchVars,
                 result, poolVars, openVars>>

SendResync(v) ==
  /\ main = "send"
  /\ At(v, "loop")
  /\ Goto(v, "received")
  /\ cur' = [cur EXCEPT ![v] = Job(n)]
  /\ n' = IF now \div Interval > n THEN now \div Interval ELSE n + 1
  /\ main' = "issue"
  /\ UNCHANGED <<acc, counterVars, budgetVars, ctxVars, merged, watchVars,
                 result, poolVars, now>>

(* jobs <- intended meets a worker that is receiving. *)
Send(v) ==
  /\ main = "send"
  /\ At(v, "loop")
  /\ Goto(v, "received")
  /\ cur' = [cur EXCEPT ![v] = Job(n)]
  /\ n' = n + 1
  /\ main' = "issue"
  /\ UNCHANGED <<acc, counterVars, budgetVars, ctxVars, merged, watchVars,
                 result, poolVars, now>>

(* Mutant of CloseJobs: the wait for the timer does not end with the context. *)
CloseJobsAfterTimer ==
  /\ \/ main = "issue" /\ Intended(n) >= Duration
     \/ main = "send" /\ cancelled
  /\ main' = "join"
  /\ UNCHANGED <<pc, cur, acc, counterVars, budgetVars, ctxVars, merged,
                 watchVars, result, poolVars, openVars>>

(* The schedule is out of arrivals, or one of the two selects takes        *)
(* ctx.Done: the jobs channel is closed and the workers are waited for.    *)
CloseJobs ==
  /\ \/ main = "issue" /\ Intended(n) >= Duration
     \/ main = "issue" /\ now < Intended(n) /\ cancelled
     \/ main = "send" /\ cancelled
  /\ main' = "join"
  /\ UNCHANGED <<pc, cur, acc, counterVars, budgetVars, ctxVars, merged,
                 watchVars, result, poolVars, openVars>>

Generator == StartWorkers \/ Due \/ CloseJobs \/ \E v \in VU : Send(v)

JobsClosed == main \in {"join", "stopping", "returned"}

(* Mutant of LeaveLoop: the job dropped at the end of the context takes    *)
(* the worker out past its merge.                                          *)
LeaveLoopUnmerged(v) ==
  /\ \/ At(v, "loop") /\ JobsClosed /\ Goto(v, "merge")
     \/ At(v, "received") /\ cancelled /\ Goto(v, "done")
  /\ UNCHANGED <<cur, acc, counterVars, budgetVars, ctxVars, merged, main,
                 watchVars, result, poolVars, openVars>>

(* worker's loop ends: the channel is closed, or a job came after the end  *)
(* of the context and is dropped.                                          *)
LeaveLoop(v) ==
  /\ \/ At(v, "loop") /\ JobsClosed
     \/ At(v, "received") /\ cancelled
  /\ Goto(v, "merge")
  /\ UNCHANGED <<cur, acc, counterVars, budgetVars, ctxVars, merged, main,
                 watchVars, result, poolVars, openVars>>

TakeJob(v) ==
  /\ At(v, "received")
  /\ ~ cancelled
  /\ Goto(v, "enter")
  /\ UNCHANGED <<cur, acc, counterVars, budgetVars, ctxVars, merged, main,
                 watchVars, result, poolVars, openVars>>

Iterate(v) ==
  /\ \/ EnterIteration(v)
     \/ StartFlow(v, now - Intended(cur[v].job))
     \/ FinishFlow(v)
     \/ CountFailed(v)
     \/ CountThrottled(v)
     \/ RecordFlow(v)
     \/ LeaveIteration(v, "loop")
     \/ Merge(v)
  /\ UNCHANGED openVars

Worker(v) == LeaveLoop(v) \/ TakeJob(v) \/ Iterate(v)

Lifecycle ==
  /\ Interrupt \/ StopObservers \/ Observe \/ Return
  /\ UNCHANGED openVars

Finished == main = "returned" /\ UNCHANGED vars

Next ==
  \/ Advance
  \/ Generator
  \/ \E v \in VU : Worker(v)
  \/ Lifecycle
  \/ Finished

Spec == Init /\ [][Next]_vars

(* The same fairness as in ClosedPool. *)
SchedulerFairness ==
  /\ WF_vars(Generator)
  /\ \A v \in VU : WF_vars(Worker(v))
  /\ WF_vars((StopObservers \/ StopSampler \/ Return) /\ UNCHANGED openVars)
  /\ WF_vars((LoadFailed \/ Publish) /\ UNCHANGED openVars)
  /\ SF_vars(FinalSnapshot /\ UNCHANGED openVars)

FairSpec == Spec /\ SchedulerFairness

-------------------------------------------------------------------------------

Started(v) == pc[v] \in {"running", "failed", "throttled", "record"}

(* When each flow-run was dispatched, and for which arrival. *)
Dispatches ==
  {[job |-> s.job, flow |-> s.flow, at |-> Intended(s.job) + s.lag] : s \in Held}
    \cup {[job |-> cur[v].job, flow |-> cur[v].flow,
           at |-> Intended(cur[v].job) + cur[v].lag] : v \in {w \in VU : Started(w)}}

(* No arrival is served before its scheduled time, so the latency counted  *)
(* from the intended dispatch never flatters the target.                   *)
NeverEarly == \A d \in Dispatches : d.at >= Intended(d.job)

(* An arrival is served by one worker only: no flow of it is dispatched    *)
(* twice.                                                                  *)
ServedOnce ==
  /\ \A d, e \in Dispatches : d.job = e.job /\ d.flow = e.flow => d = e
  /\ \A v, w \in VU :
       v # w /\ Started(v) /\ Started(w) => cur[v].job # cur[w].job

(* Each arrival goes to one worker, at its time or later.                  *)
ArrivalsServed == NeverEarly /\ ServedOnce

(* "A backed-up pool shows up as latency rather than as omitted requests": *)
(* a run nobody stopped serves every arrival of its schedule, every flow   *)
(* of it, however late.                                                    *)
NoArrivalOmitted ==
  main = "returned" /\ ~ cancelled =>
    {<<s.job, s.flow>> : s \in result.acc.samples} =
      {j \in 0 .. Duration : Intended(j) < Duration} \X (1 .. NumFlows)

(* Run returns when the clock moves: the generator runs out of arrivals    *)
(* and the workers of jobs.                                                *)
RunReturns == WF_vars(Advance) => <>(main = "returned")

(* Cancelling is enough: neither the generator's timer nor its blocked     *)
(* send keeps an interrupted or aborted run from returning.                *)
CancelUnwinds == cancelled ~> main = "returned"

(* A run comes to its end in either way.                                   *)
RunUnwinds == RunReturns /\ CancelUnwinds

(* "The target never sees more than N/s regardless of VU count" (runOpen), *)
(* a "true ceiling" (ADR 0013): with N arrivals to a second, no window of  *)
(* a second holds more than N iteration starts.  Stated for N = 2.         *)
PerSecond == 2
WithinCap ==
  \A t \in 0 .. MaxNow :
    Cardinality({d.job : d \in {e \in Dispatches :
                   e.flow = 1 /\ e.at >= t /\ e.at < t + PerSecond * Interval}})
      <= PerSecond

-------------------------------------------------------------------------------
(* What makes NeverEarly and ServedOnce inductive. *)

Serving(v) == pc[v] \in {"received", "enter", "draw"} \/ Started(v)

(* An arrival is sent when it is due, so whatever is dispatched for it is  *)
(* dispatched at its time or later.                                        *)
DueInv ==
  /\ main = "send" => Intended(n) <= now
  /\ \A v \in VU : Serving(v) => Intended(cur[v].job) <= now
  /\ \A v \in VU : Started(v) => cur[v].lag >= 0
  /\ \A s \in Held : s.lag >= 0

(* The arrivals below n have each gone to one worker, which takes its      *)
(* flows one after the other.                                              *)
OnceInv ==
  /\ \A v \in VU : Serving(v) => cur[v].job < n
  /\ \A v, w \in VU : v # w /\ Serving(v) /\ Serving(w) => cur[v].job # cur[w].job
  /\ \A s \in Held : s.job < n
  /\ \A s, t \in Held : s.job = t.job /\ s.flow = t.flow => s = t
  /\ \A v \in VU : Serving(v) => \A s \in Held : s.job = cur[v].job =>
       \/ s.flow < cur[v].flow
       \/ Counting(v) /\ s.flow = cur[v].flow /\ s.lag = cur[v].lag

ArrivalInv == DueInv /\ OnceInv

(* The generator skips no arrival of the schedule, and goes past its end   *)
(* only when it has sent them all, or is stopped.                          *)
InSchedule ==
  /\ main = "send" => Intended(n) < Duration
  /\ \A j \in 0 .. n - 1 : Intended(j) < Duration
  /\ ~ cancelled /\ JobsClosed => Intended(n) >= Duration

(* The flows of its arrival a worker has still to finish. *)
Ahead(v) ==
  {f \in 1 .. NumFlows : f > cur[v].flow \/ (f = cur[v].flow /\ ~ Counting(v))}

(* As long as nobody stops the run, every flow of every arrival sent is    *)
(* held as a sample or ahead of the worker that took the arrival.          *)
NoneDropped ==
  ~ cancelled =>
    \A j \in 0 .. n - 1, f \in 1 .. NumFlows :
      \/ \E s \in Held : s.job = j /\ s.flow = f
      \/ \E v \in VU : Serving(v) /\ cur[v].job = j /\ f \in Ahead(v)

OmissionInv == InSchedule /\ NoneDropped

===============================================================================
