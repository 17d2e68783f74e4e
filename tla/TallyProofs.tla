------------------------------ MODULE TallyProofs ------------------------------
(***************************************************************************)
(* What both arrival models keep.  First the draws of the data pool and    *)
(* the steps the models share: each preserves the types and RunInv, one    *)
(* lemma per action.  Then what a run counts - iterations, flow-runs in    *)
(* flight, the live counters, the snapshots of them, the trace budgets -   *)
(* and why the counts come out: the invariants PassInv, CancelInv,         *)
(* WatchInv and KeepInv of VirtualUsers are kept by every step a run of    *)
(* either arrival model may take.                                          *)
(***************************************************************************)
EXTENDS VirtualUsers, FiniteSetTheorems, TLAPS

-------------------------------------------------------------------------------
(* One draw of a fixture pool, for any number of rows. *)

LEMMA RowType == \A row \in Row \cup {NoRow} : row \in Int
BY PoolAssumption DEF Row, NoRow

(* A draw keeps the pool well-formed and yields a row or none.             *)
LEMMA DrawRowType ==
  ASSUME PoolTypeOK, NEW row, DrawRow(row)
  PROVE  PoolTypeOK' /\ row \in Row \cup {NoRow}
<1> USE PoolAssumption DEF PoolTypeOK, Row, NoRow, HandOut, poolVars
<1>1. CASE DrawUnique(row)
  BY <1>1 DEF DrawUnique
<1>2. CASE DrawExhausted(row)
  BY <1>2 DEF DrawExhausted
<1>3. CASE DrawRoundRobin(row)
  BY <1>3 DEF DrawRoundRobin
<1>4. CASE DrawRandom(row)
  BY <1>4 DEF DrawRandom
<1>5. CASE DrawNothing(row)
  BY <1>5 DEF DrawNothing
<1>6. QED BY <1>1, <1>2, <1>3, <1>4, <1>5 DEF DrawRow

(* What makes EvenHanded inductive: a round gives every row one draw, and  *)
(* the cursor is how far the current round has come.                       *)
InRounds ==
  Distribution # "random" =>
    \E k \in Nat : \A i \in Row : drawn[i] = IF i <= cursor THEN k + 1 ELSE k

LEMMA InRoundsImplies == PoolTypeOK /\ InRounds => EvenHanded
<1>1. SUFFICES ASSUME PoolTypeOK, InRounds, Distribution # "random",
                      NEW i \in Row, NEW j \in Row, i < j
               PROVE  drawn[i] - drawn[j] \in {0, 1}
  BY DEF EvenHanded
<1>2. PICK k \in Nat : \A r \in Row : drawn[r] = IF r <= cursor THEN k + 1 ELSE k
  BY <1>1 DEF InRounds
<1>3. i \in Int /\ j \in Int /\ cursor \in Int
  BY <1>1, PoolAssumption DEF Row, PoolTypeOK
<1>4. CASE j <= cursor
  BY <1>1, <1>2, <1>3, <1>4
<1>5. CASE ~ (j <= cursor)
  BY <1>1, <1>2, <1>3, <1>5
<1>6. QED BY <1>4, <1>5

(* A draw keeps to the rounds: it takes the row after the cursor, and      *)
(* where it starts again all rows have had as many draws.                  *)
LEMMA DrawRowInRounds ==
  ASSUME PoolTypeOK, InRounds, NEW row, DrawRow(row)
  PROVE  InRounds'
<1> SUFFICES ASSUME Distribution # "random"
             PROVE  \E k \in Nat : \A i \in Row :
                      drawn'[i] = IF i <= cursor' THEN k + 1 ELSE k
  BY DEF InRounds
<1> USE PoolAssumption
<1>1. PICK k \in Nat : \A i \in Row : drawn[i] = IF i <= cursor THEN k + 1 ELSE k
  BY DEF InRounds
<1>2. CASE DrawUnique(row)
  <2>1. \A i \in Row : drawn'[i] = IF i <= cursor' THEN k + 1 ELSE k
    BY <1>1, <1>2 DEF DrawUnique, HandOut, PoolTypeOK, Row
  <2>2. QED BY <2>1
<1>3. CASE DrawExhausted(row) /\ row = NoRow
  BY <1>1, <1>3 DEF DrawExhausted, poolVars, NoRow
<1>4. CASE DrawExhausted(row) /\ row # NoRow
  <2>1. /\ cursor = RowCount /\ cursor' = 1 /\ row = 1 /\ RowCount > 0
        /\ drawn' = [drawn EXCEPT ![row] = @ + 1]
    BY <1>4 DEF DrawExhausted, PoolTypeOK, HandOut
  <2>2. \A i \in Row : drawn[i] = k + 1
    BY <1>1, <2>1 DEF Row
  <2>3. \A i \in Row : drawn'[i] = IF i <= cursor' THEN (k + 1) + 1 ELSE k + 1
    BY <2>1, <2>2 DEF PoolTypeOK, Row
  <2>4. QED BY <2>3
<1>5. CASE DrawRoundRobin(row)
  <2>1. /\ cursor < RowCount /\ row = cursor + 1 /\ cursor' = (cursor + 1) % RowCount
        /\ cursor \in Nat /\ RowCount \in Nat /\ RowCount > 0
        /\ drawn' = [drawn EXCEPT ![row] = @ + 1]
    BY <1>5 DEF DrawRoundRobin, PoolTypeOK, HandOut
  <2>2. CASE cursor + 1 < RowCount
    <3>1. cursor' = cursor + 1
      BY <2>1, <2>2
    <3>2. \A i \in Row : drawn'[i] = IF i <= cursor' THEN k + 1 ELSE k
      BY <1>1, <2>1, <3>1 DEF PoolTypeOK, Row
    <3>3. QED BY <3>2
  <2>3. CASE cursor + 1 = RowCount
    <3>1. cursor' = 0
      BY <2>1, <2>3
    <3>2. \A i \in Row : drawn'[i] = IF i <= cursor' THEN (k + 1) + 1 ELSE k + 1
      BY <1>1, <2>1, <2>3, <3>1 DEF PoolTypeOK, Row
    <3>3. QED BY <3>2
  <2>4. QED BY <2>1, <2>2, <2>3
<1>6. CASE DrawNothing(row)
  BY <1>1, <1>6 DEF DrawNothing, poolVars
<1>7. QED BY <1>2, <1>3, <1>4, <1>5, <1>6 DEF DrawRow, DrawRandom

(* Of a unique-per-vu pool that does not cycle, a draw gives a row no      *)
(* earlier draw gave - one past the cursor - or none.                      *)
LEMMA DrawRowFresh ==
  ASSUME PoolTypeOK, NEW row, DrawRow(row),
         Distribution = "unique-per-vu", Exhaustion # "cycle"
  PROVE  /\ row = NoRow \/ row > cursor
         /\ cursor' >= cursor /\ row <= cursor'
<1> USE PoolAssumption DEF PoolTypeOK, Row, NoRow, poolVars
<1>1. CASE DrawUnique(row)
  BY <1>1 DEF DrawUnique
<1>2. CASE DrawExhausted(row)
  BY <1>2 DEF DrawExhausted
<1>3. CASE DrawNothing(row)
  BY <1>3 DEF DrawNothing
<1>4. QED BY <1>1, <1>2, <1>3 DEF DrawRow, DrawRoundRobin, DrawRandom

-------------------------------------------------------------------------------
(* Types. *)

LEMMA AccType ==
  /\ NewAcc \in Accs
  /\ \A a \in Accs, s \in Samples : AddSample(a, s) \in Accs
  /\ \A a \in Accs, k \in Nat, kept \in BOOLEAN : AddTree(a, k, kept) \in Accs
  /\ \A a \in Accs : AddPass(a) \in Accs
  /\ \A a, b \in Accs : Joint(a, b) \in Accs
BY DEF Accs, NewAcc, AddSample, AddTree, AddPass, Joint

LEMMA OKType == OK \in FlowResult
BY DEF OK, FlowResult

LEMMA WorkType ==
  /\ \A k \in Nat : Job(k) \in Work
  /\ Idle \in Work
  /\ \A w \in Work, row \in Row \cup {NoRow}, lag \in Int : Dispatch(w, row, lag) \in Work
  /\ \A w \in Work, k \in Nat, r \in FlowResult : Back(w, k, r) \in Work
  /\ \A w \in Work : w.flow < NumFlows => Onward(w) \in Work
BY OKType, RunAssumption DEF Work, Job, Idle, Dispatch, Back, Onward

(* A flow-run's sample is well-formed. *)
LEMMA SampleType ==
  ASSUME SharedTypeOK, NEW v \in VU, NEW n \in Nat \ {0}, NEW r \in FlowResult
  PROVE  SampleOf(v, n, r) \in Samples
<1>1. cur[v] \in Work
  BY DEF SharedTypeOK
<1>2. QED BY <1>1 DEF SampleOf, Samples, Work, FlowResult

LEMMA UnchangedType ==
  ASSUME SharedTypeOK, UNCHANGED sharedVars
  PROVE  SharedTypeOK' /\ main' = main
BY DEF SharedTypeOK, PoolTypeOK, sharedVars, poolVars, counterVars, budgetVars,
       ctxVars, watchVars

LEMMA SharedInitType ==
  ASSUME SharedInit
  PROVE  SharedTypeOK
<1>1. PoolTypeOK
  BY PoolAssumption DEF SharedInit, PoolInit, PoolTypeOK, Row
<1>2. cur \in [VU -> Work] /\ acc \in [VU -> Accs] /\ merged \in Accs
  BY WorkType, AccType DEF SharedInit
<1>3. successBudget \in Int /\ failBudget \in Int
  BY RunAssumption DEF SharedInit
<1>4. reading \in Counts /\ published \in Counts
  BY DEF SharedInit, Zero, Counts
<1>5. /\ active \in Int /\ completed \in Nat /\ failed \in Nat /\ throttled \in Nat
      /\ successSeen \in Nat /\ doneAtCancel \in Nat
  BY DEF SharedInit
<1>6. /\ pc \in [VU -> Steps]
      /\ aborted \in BOOLEAN /\ cancelled \in BOOLEAN
      /\ prog \in {"idle", "done"} /\ sampler = "sampling" /\ result = NoResult
  BY DEF SharedInit, Steps
<1>7. QED BY <1>1, <1>2, <1>3, <1>4, <1>5, <1>6 DEF SharedTypeOK

LEMMA EnterIterationType ==
  ASSUME SharedTypeOK, NEW v \in VU, EnterIteration(v)
  PROVE  SharedTypeOK'
<1>1. active \in Int /\ active' = active + 1
  BY DEF SharedTypeOK, EnterIteration
<1>2. active' \in Int
  BY <1>1
<1>3. QED
  BY <1>2 DEF SharedTypeOK, EnterIteration, Goto, Steps, PoolTypeOK, poolVars,
     budgetVars, ctxVars, watchVars

LEMMA StartFlowType ==
  ASSUME SharedTypeOK, NEW v \in VU, NEW lag \in Int, StartFlow(v, lag)
  PROVE  SharedTypeOK'
<1>1. PICK row \in Row \cup {NoRow} :
        /\ DrawRow(row)
        /\ cur' = [cur EXCEPT ![v] = Dispatch(@, row, lag)]
  BY DEF StartFlow
<1>2. PoolTypeOK'
  BY <1>1, DrawRowType DEF SharedTypeOK
<1>3. cur' \in [VU -> Work]
  BY <1>1, WorkType DEF SharedTypeOK
<1>4. QED
  BY <1>2, <1>3 DEF SharedTypeOK, StartFlow, Goto, Steps, counterVars,
     budgetVars, ctxVars, watchVars

LEMMA FinishFlowType ==
  ASSUME SharedTypeOK, NEW v \in VU, FinishFlow(v)
  PROVE  SharedTypeOK'
<1>1. PICK r \in FlowResults :
        /\ acc' = [acc EXCEPT ![v] = AddSample(@, SampleOf(v, completed + 1, r))]
        /\ cur' = [cur EXCEPT ![v] = Back(@, completed + 1, r)]
  BY DEF FinishFlow
<1>2. r \in FlowResult
  BY RunAssumption
<1>3. completed + 1 \in Nat \ {0}
  <2>1. completed \in Nat
    BY DEF SharedTypeOK
  <2>2. QED BY <2>1
<1>4. acc' \in [VU -> Accs]
  <2>1. SampleOf(v, completed + 1, r) \in Samples
    BY <1>2, <1>3, SampleType
  <2>2. QED BY <1>1, <2>1, AccType DEF SharedTypeOK
<1>5. cur' \in [VU -> Work]
  BY <1>1, <1>2, <1>3, WorkType DEF SharedTypeOK
<1>6. QED
  BY <1>3, <1>4, <1>5 DEF SharedTypeOK, FinishFlow, Goto, Steps, PoolTypeOK, poolVars,
     budgetVars, ctxVars, watchVars

LEMMA CountFailedType ==
  ASSUME SharedTypeOK, NEW v \in VU, CountFailed(v)
  PROVE  SharedTypeOK'
<1>1. failed \in Nat /\ failed' \in {failed, failed + 1}
  BY DEF SharedTypeOK, CountFailed
<1>2. failed' \in Nat
  BY <1>1
<1>3. QED
  BY <1>2 DEF SharedTypeOK, CountFailed, Goto, Steps, PoolTypeOK, poolVars,
     budgetVars, ctxVars, watchVars

LEMMA CountThrottledType ==
  ASSUME SharedTypeOK, NEW v \in VU, CountThrottled(v)
  PROVE  SharedTypeOK'
<1>1. throttled \in Nat /\ throttled' \in {throttled, throttled + 1}
  BY DEF SharedTypeOK, CountThrottled
<1>2. throttled' \in Nat
  BY <1>1
<1>3. QED
  BY <1>2 DEF SharedTypeOK, CountThrottled, Goto, Steps, PoolTypeOK, poolVars,
     budgetVars, ctxVars, watchVars

LEMMA RecordFlowType ==
  ASSUME SharedTypeOK, NEW v \in VU, RecordFlow(v)
  PROVE  SharedTypeOK'
<1>1. PICK kept \in BOOLEAN :
        /\ KeepTrace(cur[v].res.outcome, kept)
        /\ acc' = [acc EXCEPT ![v] = AddTree(@, cur[v].n, kept)]
  BY DEF RecordFlow
<1>2. acc' \in [VU -> Accs]
  <2>1. cur[v].n \in Nat
    BY DEF SharedTypeOK, Work
  <2>2. QED BY <1>1, <2>1, AccType DEF SharedTypeOK
<1>3. cur' \in [VU -> Work]
  <2>1. CASE cur[v].flow < NumFlows
    BY <2>1, WorkType DEF SharedTypeOK, RecordFlow
  <2>2. CASE ~ (cur[v].flow < NumFlows)
    BY <2>2, WorkType DEF SharedTypeOK, RecordFlow
  <2>3. QED BY <2>1, <2>2
<1>4. pc' \in [VU -> Steps]
  BY DEF SharedTypeOK, RecordFlow, Goto, Steps
<1>5. successSeen' \in Nat /\ successBudget' \in Int /\ failBudget' \in Int
  <2>1. successSeen \in Nat /\ successBudget \in Int /\ failBudget \in Int
    BY DEF SharedTypeOK
  <2>2. /\ successSeen' \in {successSeen, successSeen + 1}
        /\ successBudget' \in {successBudget, successBudget - 1}
        /\ failBudget' \in {failBudget, failBudget - 1}
    BY <1>1 DEF KeepTrace, KeepFailure, KeepSuccess
  <2>3. QED BY <2>1, <2>2
<1>6. cancelled' \in BOOLEAN /\ doneAtCancel' \in Nat /\ aborted' \in BOOLEAN
  BY DEF SharedTypeOK, RecordFlow, CancelRun, ctxVars
<1>7. QED
  BY <1>2, <1>3, <1>4, <1>5, <1>6 DEF SharedTypeOK, RecordFlow, PoolTypeOK,
     poolVars, counterVars, watchVars

LEMMA LeaveIterationType ==
  ASSUME SharedTypeOK, NEW v \in VU, NEW next \in Steps, LeaveIteration(v, next)
  PROVE  SharedTypeOK'
<1>1. active \in Int /\ active' = active - 1
  BY DEF SharedTypeOK, LeaveIteration
<1>2. active' \in Int
  BY <1>1
<1>3. acc' \in [VU -> Accs]
  BY AccType DEF SharedTypeOK, LeaveIteration
<1>4. QED
  BY <1>2, <1>3 DEF SharedTypeOK, LeaveIteration, Goto, PoolTypeOK, poolVars,
     budgetVars, ctxVars, watchVars

LEMMA MergeType ==
  ASSUME SharedTypeOK, NEW v \in VU, Merge(v)
  PROVE  SharedTypeOK'
<1>1. merged' \in Accs /\ acc' \in [VU -> Accs]
  BY AccType DEF SharedTypeOK, Merge
<1>2. QED
  BY <1>1 DEF SharedTypeOK, Merge, Goto, Steps, PoolTypeOK, poolVars, counterVars,
     budgetVars, ctxVars, watchVars

(* The steps around the goroutines. *)
LEMMA LifecycleType ==
  ASSUME SharedTypeOK, Interrupt \/ StopObservers \/ Observe \/ Return
  PROVE  SharedTypeOK'
<1> USE DEF SharedTypeOK, PoolTypeOK, poolVars, counterVars, budgetVars, ctxVars,
            watchVars
<1>1. CASE Interrupt
  BY <1>1 DEF Interrupt, CancelRun
<1>2. CASE StopObservers
  BY <1>2 DEF StopObservers
<1>3. CASE TickSnapshot \/ FinalSnapshot
  <2>1. reading' \in Counts /\ prog' \in {"failed", "last_failed"}
    <3>1. /\ reading' = [completed |-> completed, failed |-> 0, throttled |-> 0]
          /\ prog' \in {"failed", "last_failed"}
      BY <1>3 DEF TickSnapshot, FinalSnapshot, LoadCompleted
    <3>2. completed \in Nat
      OBVIOUS
    <3>3. QED BY <3>1, <3>2 DEF Counts
  <2>2. UNCHANGED <<pc, cur, acc, counterVars, budgetVars, ctxVars, merged, main,
                    published, sampler, result, poolVars>>
    BY <1>3 DEF TickSnapshot, FinalSnapshot, LoadCompleted
  <2>3. QED BY <2>1, <2>2
<1>4. CASE LoadFailed
  BY <1>4 DEF LoadFailed, Counts
<1>5. CASE Publish
  BY <1>5 DEF Publish, Counts, Zero
<1>6. CASE StopSampler
  BY <1>6 DEF StopSampler
<1>7. CASE Return
  BY <1>7 DEF Return, Results
<1>8. QED BY <1>1, <1>2, <1>3, <1>4, <1>5, <1>6, <1>7 DEF Observe

-------------------------------------------------------------------------------
(* RunInv. *)

(* Membership in Held, Folded and Numbers, now and after a step. *)
LEMMA Members ==
  /\ \A s : s \in Held <=> s \in merged.samples \/ \E v \in VU : s \in acc[v].samples
  /\ \A s : s \in Held' <=> s \in merged'.samples \/ \E v \in VU : s \in acc'[v].samples
  /\ \A n : n \in Folded <=> n \in merged.folded \/ \E v \in VU : n \in acc[v].folded
  /\ \A n : n \in Folded' <=> n \in merged'.folded \/ \E v \in VU : n \in acc'[v].folded
BY DEF Held, Folded

LEMMA NumbersOf == \A S : \A n : n \in Numbers(S) <=> \E s \in S : s.n = n
BY DEF Numbers

(* While a goroutine is at work Run is still in its arrival model, and it  *)
(* has no Result.                                                          *)
LEMMA AtWork ==
  ASSUME Settled, NEW v \in VU, pc[v] \notin {"unborn", "done"}
  PROVE  main \notin {"stopping", "returned"} /\ result = NoResult
BY DEF Settled, Joined

(* A step that moves neither samples nor folded trees nor the count, and   *)
(* leaves every flow-run being counted as it is, preserves RunInv as soon  *)
(* as it preserves the two conjuncts about goroutines and Run.             *)
LEMMA QuietStep ==
  ASSUME RunInv, EmptyHanded', Settled',
         UNCHANGED <<merged, completed, aborted>>,
         cancelled => cancelled',
         \A w \in VU : /\ acc'[w].samples = acc[w].samples
                       /\ acc'[w].folded = acc[w].folded,
         \A w \in VU : Counting(w)' <=> Counting(w),
         \A w \in VU : Counting(w) =>
           cur'[w].n = cur[w].n /\ cur'[w].res.aborted = cur[w].res.aborted
  PROVE  RunInv'
<1>1. Held' = Held /\ Folded' = Folded
  BY Members DEF Held, Folded
<1>2. NoFlowRunLost'
  BY <1>1 DEF RunInv, NoFlowRunLost
<1>3. FoldedOrCounting'
  <2>1. {cur[w].n : w \in {u \in VU : Counting(u)}}'
          = {cur[w].n : w \in {u \in VU : Counting(u)}}
    OBVIOUS
  <2>2. QED BY <1>1, <2>1 DEF RunInv, FoldedOrCounting
<1>4. AbortAccounted'
  BY <1>1 DEF RunInv, AbortAccounted
<1>5. QED BY <1>2, <1>3, <1>4 DEF RunInv

(* The quiet steps of a goroutine. *)
LEMMA EnterIterationInv ==
  ASSUME SharedTypeOK, RunInv, NEW v \in VU, EnterIteration(v)
  PROVE  RunInv'
<1>1. EmptyHanded' /\ Settled'
  BY AtWork DEF RunInv, EmptyHanded, Settled, EnterIteration, At, Goto, SharedTypeOK,
     ctxVars
<1>2. \A w \in VU : Counting(w)' <=> Counting(w)
  BY DEF EnterIteration, At, Goto, SharedTypeOK, Counting
<1>3. UNCHANGED <<cur, acc, merged, completed, aborted, cancelled>>
  BY DEF EnterIteration, ctxVars
<1>4. QED BY <1>1, <1>2, <1>3, QuietStep

LEMMA StartFlowInv ==
  ASSUME SharedTypeOK, RunInv, NEW v \in VU, NEW lag, StartFlow(v, lag)
  PROVE  RunInv'
<1>1. EmptyHanded' /\ Settled'
  BY AtWork DEF RunInv, EmptyHanded, Settled, StartFlow, At, Goto, SharedTypeOK,
     ctxVars
<1>2. \A w \in VU : /\ Counting(w)' <=> Counting(w)
                    /\ Counting(w) => cur'[w] = cur[w]
  BY DEF StartFlow, At, Goto, SharedTypeOK, Counting
<1>3. UNCHANGED <<acc, merged, completed, aborted, cancelled>>
  BY DEF StartFlow, ctxVars, counterVars
<1>4. QED BY <1>1, <1>2, <1>3, QuietStep

LEMMA CountFailedInv ==
  ASSUME SharedTypeOK, RunInv, NEW v \in VU, CountFailed(v)
  PROVE  RunInv'
<1>1. EmptyHanded' /\ Settled'
  BY AtWork DEF RunInv, EmptyHanded, Settled, CountFailed, At, Goto, SharedTypeOK,
     ctxVars
<1>2. \A w \in VU : Counting(w)' <=> Counting(w)
  BY DEF CountFailed, At, Goto, SharedTypeOK, Counting
<1>3. UNCHANGED <<cur, acc, merged, completed, aborted, cancelled>>
  BY DEF CountFailed, ctxVars
<1>4. QED BY <1>1, <1>2, <1>3, QuietStep

LEMMA CountThrottledInv ==
  ASSUME SharedTypeOK, RunInv, NEW v \in VU, CountThrottled(v)
  PROVE  RunInv'
<1>1. EmptyHanded' /\ Settled'
  BY AtWork DEF RunInv, EmptyHanded, Settled, CountThrottled, At, Goto, SharedTypeOK,
     ctxVars
<1>2. \A w \in VU : Counting(w)' <=> Counting(w)
  BY DEF CountThrottled, At, Goto, SharedTypeOK, Counting
<1>3. UNCHANGED <<cur, acc, merged, completed, aborted, cancelled>>
  BY DEF CountThrottled, ctxVars
<1>4. QED BY <1>1, <1>2, <1>3, QuietStep

LEMMA LeaveIterationInv ==
  ASSUME SharedTypeOK, RunInv, NEW v \in VU, NEW next \in {"loop", "merge"},
         LeaveIteration(v, next)
  PROVE  RunInv' /\ Held' = Held
<1>1. EmptyHanded' /\ Settled'
  BY AtWork DEF RunInv, EmptyHanded, Settled, LeaveIteration, At, Goto, SharedTypeOK,
     ctxVars
<1>2. \A w \in VU : Counting(w)' <=> Counting(w)
  BY DEF LeaveIteration, At, Goto, SharedTypeOK, Counting
<1>3. UNCHANGED <<cur, merged, completed, aborted, cancelled>>
  BY DEF LeaveIteration, ctxVars
<1>4. \A w \in VU : /\ acc'[w].samples = acc[w].samples
                    /\ acc'[w].folded = acc[w].folded
  BY DEF LeaveIteration, SharedTypeOK, AddPass
<1>5. Held' = Held
  BY <1>3, <1>4 DEF Held
<1>6. QED BY <1>1, <1>2, <1>3, <1>4, <1>5, QuietStep

(* A goroutine of the arrival model that moves on without touching what    *)
(* the iterations share.                                                   *)
LEMMA MoveInv ==
  ASSUME SharedTypeOK, RunInv, NEW v \in VU, NEW step, Goto(v, step),
         ~ Counting(v), step \notin {"failed", "throttled", "record"},
         step \in {"unborn", "done"} => acc[v] = NewAcc,
         main \notin {"stopping", "returned"}, main' = main,
         \A w \in VU : Counting(w) => cur'[w] = cur[w],
         UNCHANGED <<acc, merged, completed, aborted, cancelled, result>>
  PROVE  RunInv'
<1>1. EmptyHanded' /\ Settled'
  BY DEF RunInv, EmptyHanded, Settled, Goto, SharedTypeOK
<1>2. \A w \in VU : Counting(w)' <=> Counting(w)
  BY DEF Goto, SharedTypeOK, Counting
<1>3. QED BY <1>1, <1>2, QuietStep

(* Steps that leave the goroutines and Run where they are. *)
LEMMA IdleInv ==
  ASSUME RunInv, UNCHANGED <<pc, cur, acc, merged, completed, aborted, main, result>>,
         cancelled => cancelled'
  PROVE  RunInv'
<1>1. EmptyHanded' /\ Settled'
  BY DEF RunInv, EmptyHanded, Settled, Joined
<1>2. \A w \in VU : Counting(w)' <=> Counting(w)
  BY DEF Counting
<1>3. QED BY <1>1, <1>2, QuietStep

(* The steps around the goroutines. *)
LEMMA LifecycleInv ==
  ASSUME RunInv, Interrupt \/ StopObservers \/ Observe \/ Return
  PROVE  RunInv'
<1>1. CASE Interrupt
  BY <1>1, IdleInv DEF Interrupt, CancelRun, counterVars
<1>2. CASE Observe
  <2>1. UNCHANGED <<pc, cur, acc, counterVars, ctxVars, merged, main, result>>
    BY <1>2 DEF Observe, TickSnapshot, FinalSnapshot, LoadCompleted, LoadFailed,
       Publish, StopSampler
  <2>2. QED BY <2>1, IdleInv DEF counterVars, ctxVars
<1>3. CASE StopObservers \/ Return
  <2>1. UNCHANGED <<pc, cur, acc, merged, completed, aborted, cancelled>>
    BY <1>3 DEF StopObservers, Return, counterVars, ctxVars
  <2>2. EmptyHanded'
    BY <2>1 DEF RunInv, EmptyHanded
  <2>3. Settled'
    BY <1>3, <2>1 DEF RunInv, Settled, Joined, StopObservers, Return
  <2>4. \A w \in VU : Counting(w)' <=> Counting(w)
    BY <2>1 DEF Counting
  <2>5. QED BY <2>1, <2>2, <2>3, <2>4, QuietStep
<1>4. QED BY <1>1, <1>2, <1>3

(* A sample is added: its number is the next one. *)
LEMMA FinishFlowInv ==
  ASSUME SharedTypeOK, RunInv, NEW v \in VU, FinishFlow(v)
  PROVE  RunInv' /\ \E s \in Samples \ Held : Held' = Held \cup {s}
<1>1. PICK r \in FlowResults :
        /\ acc' = [acc EXCEPT ![v] = AddSample(@, SampleOf(v, completed + 1, r))]
        /\ cur' = [cur EXCEPT ![v] = Back(@, completed + 1, r)]
  BY DEF FinishFlow
<1> DEFINE s == SampleOf(v, completed + 1, r)
<1>2. s \in Samples /\ s.n = completed + 1 /\ s.aborted = r.aborted
  <2>1. completed \in Nat /\ r \in FlowResult
    BY RunAssumption DEF SharedTypeOK
  <2>2. completed + 1 \in Nat \ {0}
    BY <2>1
  <2>3. QED BY <2>1, <2>2, SampleType DEF SampleOf
<1>3. /\ \A w \in VU : /\ acc'[w].samples = IF w = v THEN acc[v].samples \cup {s}
                                                   ELSE acc[w].samples
                       /\ acc'[w].folded = acc[w].folded
      /\ UNCHANGED <<merged, aborted, cancelled, main, result>>
      /\ completed' = completed + 1
  BY <1>1 DEF SharedTypeOK, AddSample, FinishFlow, ctxVars
<1>4. /\ cur'[v].n = completed + 1 /\ cur'[v].res.aborted = r.aborted
      /\ \A w \in VU \ {v} : cur'[w] = cur[w]
  BY <1>1 DEF SharedTypeOK, Back
<1>5. /\ Counting(v)' /\ ~ Counting(v)
      /\ \A w \in VU \ {v} : Counting(w)' <=> Counting(w)
  BY DEF FinishFlow, At, Goto, SharedTypeOK, Counting
<1>6. Held' = Held \cup {s} /\ Folded' = Folded
  <2>1. \A x : x \in Held' <=> x \in Held \/ x = s
    BY <1>3, Members
  <2>2. \A x : x \in Folded' <=> x \in Folded
    BY <1>3, Members
  <2>3. QED BY <2>1, <2>2
<1>7. \A x \in Held : x.n \in 1 .. completed
  BY NumbersOf DEF RunInv, NoFlowRunLost
<1>8. completed \in Nat
  BY DEF SharedTypeOK
<1>9. \A x \in Held : x # s /\ x.n # s.n
  BY <1>2, <1>7, <1>8
<1>10. NoFlowRunLost'
  <2>1. Numbers(Held') = 1 .. completed'
    <3>1. \A n : n \in Numbers(Held') <=> n \in Numbers(Held) \/ n = completed + 1
      BY <1>2, <1>6, NumbersOf
    <3>2. Numbers(Held) = 1 .. completed
      BY DEF RunInv, NoFlowRunLost
    <3>3. (1 .. completed) \cup {completed + 1} = 1 .. (completed + 1)
      BY <1>8
    <3>4. QED BY <1>3, <3>1, <3>2, <3>3
  <2>2. \A x, y \in Held' : x.n = y.n => x = y
    BY <1>6, <1>9 DEF RunInv, NoFlowRunLost
  <2>3. /\ \A w \in VU : \A x \in acc[w].samples : x # s
        /\ \A x \in merged.samples : x # s
    BY <1>9, Members
  <2>4. \A w \in VU : acc'[w].samples \cap merged'.samples = {}
    BY <1>3, <2>3 DEF RunInv, NoFlowRunLost
  <2>5. \A w, u \in VU : w # u => acc'[w].samples \cap acc'[u].samples = {}
    BY <1>3, <2>3 DEF RunInv, NoFlowRunLost
  <2>6. QED BY <2>1, <2>2, <2>4, <2>5 DEF NoFlowRunLost, Numbers
<1>11. EmptyHanded' /\ Settled'
  BY <1>1, AtWork DEF RunInv, EmptyHanded, Settled, FinishFlow, At, Goto, SharedTypeOK,
     ctxVars
<1>12. FoldedOrCounting'
  <2>1. Folded \cup {cur[w].n : w \in {u \in VU : Counting(u)}} = 1 .. completed
    BY DEF RunInv, FoldedOrCounting
  <2>2. {cur[w].n : w \in {u \in VU : Counting(u)}}'
          = {cur[w].n : w \in {u \in VU : Counting(u)}} \cup {completed + 1}
    BY <1>4, <1>5
  <2>3. (1 .. completed) \cup {completed + 1} = 1 .. (completed + 1)
    BY <1>8
  <2>4. QED BY <1>3, <1>6, <2>1, <2>2, <2>3 DEF FoldedOrCounting
<1>13. AbortAccounted'
  BY <1>2, <1>3, <1>4, <1>5, <1>6 DEF RunInv, AbortAccounted
<1>14. QED BY <1>2, <1>6, <1>9, <1>10, <1>11, <1>12, <1>13 DEF RunInv

(* A flow-run is folded, and no longer being counted. *)
LEMMA RecordFlowInv ==
  ASSUME SharedTypeOK, RunInv, NEW v \in VU, RecordFlow(v)
  PROVE  RunInv' /\ Held' = Held
<1>1. PICK kept \in BOOLEAN :
        acc' = [acc EXCEPT ![v] = AddTree(@, cur[v].n, kept)]
  BY DEF RecordFlow
<1>2. \A w \in VU : /\ acc'[w].samples = acc[w].samples
                    /\ acc'[w].folded = IF w = v THEN acc[v].folded \cup {cur[v].n}
                                                 ELSE acc[w].folded
  BY <1>1 DEF SharedTypeOK, AddTree
<1>3. UNCHANGED <<merged, completed, main, result>>
  BY DEF RecordFlow, counterVars
<1>4. /\ aborted' = (aborted \/ cur[v].res.aborted)
      /\ (cancelled \/ cur[v].res.aborted) => cancelled'
  BY DEF RecordFlow, CancelRun, ctxVars, SharedTypeOK
<1>5. /\ ~ Counting(v)' /\ Counting(v)
      /\ \A w \in VU \ {v} : (Counting(w)' <=> Counting(w)) /\ cur'[w] = cur[w]
  BY DEF RecordFlow, At, Goto, SharedTypeOK, Counting
<1>6. Held' = Held /\ Folded' = Folded \cup {cur[v].n}
  <2>1. \A x : x \in Held' <=> x \in Held
    BY <1>2, <1>3, Members
  <2>2. \A x : x \in Folded' <=> x \in Folded \/ x = cur[v].n
    BY <1>2, <1>3, Members
  <2>3. QED BY <2>1, <2>2
<1>7. NoFlowRunLost'
  BY <1>2, <1>3, <1>6 DEF RunInv, NoFlowRunLost
<1>8. EmptyHanded' /\ Settled'
  BY <1>1, <1>3, AtWork DEF RunInv, EmptyHanded, Settled, RecordFlow, At, Goto, SharedTypeOK
<1>9. FoldedOrCounting'
  <2>1. Folded \cup {cur[w].n : w \in {u \in VU : Counting(u)}} = 1 .. completed
    BY DEF RunInv, FoldedOrCounting
  <2>2. {cur[w].n : w \in {u \in VU : Counting(u)}}
          = {cur[w].n : w \in {u \in VU : Counting(u)}}' \cup {cur[v].n}
    BY <1>5
  <2>3. QED BY <1>3, <1>6, <2>1, <2>2 DEF FoldedOrCounting
<1>10. AbortAccounted'
  <2>1. aborted' => cancelled' /\ \E s \in Held' : s.aborted
    BY <1>4, <1>5, <1>6 DEF RunInv, AbortAccounted
  <2>2. ASSUME NEW s \in Held', s.aborted
        PROVE  aborted' \/ \E w \in VU : Counting(w)' /\ cur'[w].n = s.n /\ cur'[w].res.aborted
    <3>1. CASE aborted
      BY <1>4, <3>1
    <3>2. CASE ~ aborted
      <4>1. PICK w \in VU : Counting(w) /\ cur[w].n = s.n /\ cur[w].res.aborted
        BY <1>6, <2>2, <3>2 DEF RunInv, AbortAccounted
      <4>2. CASE w = v
        BY <1>4, <4>1, <4>2
      <4>3. CASE w # v
        BY <1>5, <4>1, <4>3
      <4>4. QED BY <4>2, <4>3
    <3>3. QED BY <3>1, <3>2
  <2>3. \A w \in VU : Counting(w)' =>
          \E s \in Held' : s.n = cur'[w].n /\ s.aborted = cur'[w].res.aborted
    BY <1>5, <1>6 DEF RunInv, AbortAccounted
  <2>4. QED BY <2>1, <2>2, <2>3 DEF AbortAccounted
<1>11. QED BY <1>6, <1>7, <1>8, <1>9, <1>10 DEF RunInv

(* What a goroutine held is the pool's. *)
LEMMA MergeInv ==
  ASSUME SharedTypeOK, RunInv, NEW v \in VU, Merge(v)
  PROVE  RunInv' /\ Held' = Held
<1>1. /\ merged'.samples = merged.samples \cup acc[v].samples
      /\ merged'.folded = merged.folded \cup acc[v].folded
  BY DEF Merge, Joint
<1>2. \A w \in VU : /\ acc'[w].samples = IF w = v THEN {} ELSE acc[w].samples
                    /\ acc'[w].folded = IF w = v THEN {} ELSE acc[w].folded
  BY DEF Merge, SharedTypeOK, NewAcc
<1>3. UNCHANGED <<cur, completed, aborted, cancelled, main, result>>
  BY DEF Merge, counterVars, ctxVars
<1>4. \A w \in VU : Counting(w)' <=> Counting(w)
  BY DEF Merge, At, Goto, SharedTypeOK, Counting
<1>5. Held' = Held /\ Folded' = Folded
  <2>1. \A x : x \in Held' <=> x \in Held
    BY <1>1, <1>2, Members
  <2>2. \A x : x \in Folded' <=> x \in Folded
    BY <1>1, <1>2, Members
  <2>3. QED BY <2>1, <2>2
<1>6. NoFlowRunLost'
  BY <1>1, <1>2, <1>3, <1>5 DEF RunInv, NoFlowRunLost
<1>7. EmptyHanded' /\ Settled'
  BY <1>3, AtWork DEF RunInv, EmptyHanded, Settled, Merge, At, Goto, SharedTypeOK
<1>8. FoldedOrCounting'
  <2>1. {cur[w].n : w \in {u \in VU : Counting(u)}}'
          = {cur[w].n : w \in {u \in VU : Counting(u)}}
    BY <1>3, <1>4
  <2>2. QED BY <1>3, <1>5, <2>1 DEF RunInv, FoldedOrCounting
<1>9. AbortAccounted'
  BY <1>3, <1>4, <1>5 DEF RunInv, AbortAccounted
<1>10. QED BY <1>5, <1>6, <1>7, <1>8, <1>9 DEF RunInv

(* What RunInv says of a run that returned. *)
LEMMA RunInvImplies ==
  ASSUME RunInv
  PROVE  NoFlowRunLost /\ ReturnedInFull /\ KillSwitchReported
<1>1. main = "returned" => Joined /\ result = [acc |-> merged, aborted |-> aborted]
  BY DEF RunInv, Settled
<1>2. Joined => Held = merged.samples /\ Folded = merged.folded
  <2>1. SUFFICES ASSUME Joined PROVE \A v \in VU : acc[v].samples = {} /\ acc[v].folded = {}
    BY Members
  <2>2. QED BY <2>1 DEF RunInv, EmptyHanded, Joined, NewAcc
<1>3. Joined => \A v \in VU : ~ Counting(v)
  BY DEF Joined, Counting
<1>4. ReturnedInFull
  <2>1. SUFFICES ASSUME main = "returned"
                 PROVE  Numbers(Held) = 1 .. completed /\ Folded = 1 .. completed
    BY <1>1, <1>2 DEF ReturnedInFull
  <2>2. {cur[w].n : w \in {u \in VU : Counting(u)}} = {}
    BY <1>1, <1>3, <2>1
  <2>3. QED BY <2>2 DEF RunInv, NoFlowRunLost, FoldedOrCounting
<1>5. KillSwitchReported
  BY <1>1, <1>2, <1>3 DEF KillSwitchReported, RunInv, AbortAccounted
<1>6. QED BY <1>4, <1>5 DEF RunInv

(* The Result of a run that returned holds what its goroutines held. *)
LEMMA ResultIsHeld ==
  ASSUME RunInv, Joined
  PROVE  merged.samples = Held /\ (aborted <=> \E s \in Held : s.aborted)
<1>1. \A v \in VU : acc[v].samples = {} /\ ~ Counting(v)
  BY DEF RunInv, EmptyHanded, Joined, NewAcc, Counting
<1>2. QED BY <1>1, Members DEF RunInv, AbortAccounted

(* No goroutine, nothing counted: the start of a run. *)
LEMMA SharedInitInv ==
  ASSUME SharedInit, main \notin {"stopping", "returned"}
  PROVE  RunInv /\ Held = {}
<1>1. /\ merged.samples = {} /\ merged.folded = {}
      /\ \A v \in VU : acc[v] = NewAcc /\ acc[v].samples = {} /\ acc[v].folded = {}
  BY DEF SharedInit, NewAcc
<1>2. Held = {} /\ Folded = {}
  BY <1>1, Members
<1>3. \A v \in VU : ~ Counting(v)
  BY DEF SharedInit, Counting
<1>4. completed = 0 /\ aborted = FALSE /\ result = NoResult
  BY DEF SharedInit
<1>5. 1 .. completed = {}
  BY <1>4
<1>6. NoFlowRunLost
  BY <1>1, <1>2, <1>5, NumbersOf DEF NoFlowRunLost
<1>7. FoldedOrCounting
  BY <1>2, <1>3, <1>5 DEF FoldedOrCounting
<1>8. AbortAccounted
  BY <1>2, <1>3, <1>4 DEF AbortAccounted
<1>9. EmptyHanded /\ Settled
  BY <1>1, <1>4 DEF EmptyHanded, Settled
<1>10. QED BY <1>2, <1>6, <1>7, <1>8, <1>9 DEF RunInv

-------------------------------------------------------------------------------
(* The data pool's rows. *)

(* A step that takes no row and adds no sample keeps the rows unique. *)
LEMMA RowlessStep ==
  ASSUME RowsInv, Held' = Held, UNCHANGED poolVars,
         \A w \in VU : At(w, "running")' => At(w, "running") /\ cur'[w] = cur[w]
  PROVE  RowsInv'
<1>1. UniqueRows'
  BY DEF RowsInv, UniqueRows
<1>2. RowsBelowCursor'
  BY DEF RowsInv, RowsBelowCursor, poolVars
<1>3. QED BY <1>1, <1>2 DEF RowsInv

LEMMA StartFlowRows ==
  ASSUME SharedTypeOK, RowsInv, NEW v \in VU, NEW lag, StartFlow(v, lag)
  PROVE  RowsInv'
<1> SUFFICES ASSUME Distribution = "unique-per-vu", Exhaustion # "cycle"
             PROVE  RowsInv'
  BY DEF RowsInv, UniqueRows, RowsBelowCursor
<1>1. PICK row \in Row \cup {NoRow} :
        /\ DrawRow(row)
        /\ cur' = [cur EXCEPT ![v] = Dispatch(@, row, lag)]
  BY DEF StartFlow
<1>2. /\ row = NoRow \/ row > cursor
      /\ cursor' >= cursor /\ row <= cursor'
  BY <1>1, DrawRowFresh DEF SharedTypeOK
<1>3. /\ cursor \in Int /\ cursor' \in Int /\ row \in Int
  <2>1. PoolTypeOK /\ PoolTypeOK' /\ row \in Int
    BY <1>1, DrawRowType, RowType DEF SharedTypeOK
  <2>2. QED BY <2>1, PoolAssumption DEF PoolTypeOK
<1>4. /\ cur'[v].row = row
      /\ \A w \in VU \ {v} : cur'[w] = cur[w]
  BY <1>1 DEF SharedTypeOK, Dispatch
<1>5. /\ ~ At(v, "running")
      /\ \A w \in VU \ {v} : At(w, "running")' <=> At(w, "running")
  BY DEF StartFlow, At, Goto, SharedTypeOK
<1>6. Held' = Held
  BY DEF StartFlow, Held
<1>7. /\ \A s \in Held : s.row \in Int /\ s.row <= cursor
      /\ \A w \in VU : cur[w].row \in Int
      /\ \A w \in VU : At(w, "running") => cur[w].row <= cursor
  <2>1. Held \subseteq Samples
    BY Members DEF SharedTypeOK, Accs
  <2>2. \A s \in Held : s.row \in Int
    BY <2>1, RowType DEF Samples
  <2>3. \A w \in VU : cur[w].row \in Int
    <3>1. \A w \in VU : cur[w].row \in Row \cup {NoRow}
      BY DEF SharedTypeOK, Work
    <3>2. QED BY <3>1, RowType
  <2>4. QED BY <2>2, <2>3 DEF RowsInv, RowsBelowCursor
<1>8. RowsBelowCursor'
  <2>1. \A s \in Held : s.row <= cursor'
    BY <1>2, <1>3, <1>7
  <2>2. \A w \in VU : At(w, "running")' => cur'[w].row <= cursor'
    BY <1>2, <1>3, <1>4, <1>5, <1>7
  <2>3. QED BY <1>6, <2>1, <2>2 DEF RowsBelowCursor
<1>9. /\ row # NoRow => \A s \in Held : s.row # row
      /\ row # NoRow => \A w \in VU : At(w, "running") => cur[w].row # row
  BY <1>2, <1>3, <1>7
<1>10. /\ \A s, t \in Held : s.row = t.row => s = t \/ s.row = NoRow
       /\ \A w, u \in VU : At(w, "running") /\ At(u, "running") /\ cur[w].row # NoRow
                             /\ cur[w].row = cur[u].row => w = u
       /\ \A w \in VU : At(w, "running") /\ cur[w].row # NoRow =>
            \A s \in Held : cur[w].row # s.row
  BY DEF RowsInv, UniqueRows
<1>11. /\ \A w, u \in VU : At(w, "running")' /\ At(u, "running")' /\ cur'[w].row # NoRow
                             /\ cur'[w].row = cur'[u].row => w = u
       /\ \A w \in VU : At(w, "running")' /\ cur'[w].row # NoRow =>
            \A s \in Held : cur'[w].row # s.row
  BY <1>4, <1>5, <1>9, <1>10
<1>12. UniqueRows'
  BY <1>6, <1>10, <1>11 DEF UniqueRows
<1>13. QED BY <1>8, <1>12 DEF RowsInv

LEMMA FinishFlowRows ==
  ASSUME SharedTypeOK, RunInv, RowsInv, NEW v \in VU, FinishFlow(v)
  PROVE  RowsInv'
<1>1. PICK r \in FlowResults :
        /\ acc' = [acc EXCEPT ![v] = AddSample(@, SampleOf(v, completed + 1, r))]
        /\ cur' = [cur EXCEPT ![v] = Back(@, completed + 1, r)]
  BY DEF FinishFlow
<1> DEFINE s == SampleOf(v, completed + 1, r)
<1>2. /\ \A w \in VU : acc'[w].samples = IF w = v THEN acc[v].samples \cup {s}
                                                ELSE acc[w].samples
      /\ UNCHANGED <<merged, cursor>>
  BY <1>1 DEF SharedTypeOK, AddSample, FinishFlow, poolVars
<1>3. \A x : x \in Held' <=> x \in Held \/ x = s
  BY <1>2, Members
<1>4. s.row = cur[v].row
  BY DEF SampleOf
<1>5. /\ At(v, "running") /\ ~ At(v, "running")'
      /\ \A w \in VU \ {v} : (At(w, "running")' <=> At(w, "running")) /\ cur'[w] = cur[w]
  BY <1>1 DEF FinishFlow, At, Goto, SharedTypeOK
<1>6. RowsBelowCursor'
  BY <1>2, <1>3, <1>4, <1>5 DEF RowsInv, RowsBelowCursor
<1>7. UniqueRows'
  <2>1. SUFFICES ASSUME Distribution = "unique-per-vu", Exhaustion # "cycle"
                 PROVE  UniqueRows'
    BY DEF UniqueRows
  <2>2. /\ \A x, y \in Held : x.row = y.row => x = y \/ x.row = NoRow
        /\ \A w, u \in VU : At(w, "running") /\ At(u, "running") /\ cur[w].row # NoRow
                              /\ cur[w].row = cur[u].row => w = u
        /\ \A w \in VU : At(w, "running") /\ cur[w].row # NoRow =>
             \A x \in Held : cur[w].row # x.row
    BY <2>1 DEF RowsInv, UniqueRows
  <2>3. \A x, y \in Held' : x.row = y.row => x = y \/ x.row = NoRow
    BY <1>3, <1>4, <1>5, <2>2
  <2>4. \A w, u \in VU : At(w, "running")' /\ At(u, "running")' /\ cur'[w].row # NoRow
                           /\ cur'[w].row = cur'[u].row => w = u
    BY <1>5, <2>2
  <2>5. \A w \in VU : At(w, "running")' /\ cur'[w].row # NoRow =>
          \A x \in Held' : cur'[w].row # x.row
    BY <1>3, <1>4, <1>5, <2>2
  <2>6. QED BY <2>3, <2>4, <2>5 DEF UniqueRows
<1>8. QED BY <1>6, <1>7 DEF RowsInv

(* The other steps of an iteration. *)
LEMMA IterationRows ==
  ASSUME SharedTypeOK, RunInv, RowsInv, NEW v \in VU,
         \/ EnterIteration(v)
         \/ CountFailed(v)
         \/ CountThrottled(v)
         \/ RecordFlow(v)
         \/ LeaveIteration(v, "loop")
         \/ LeaveIteration(v, "merge")
         \/ Merge(v)
  PROVE  RowsInv' /\ UNCHANGED poolVars
<1>1. UNCHANGED poolVars
  BY DEF EnterIteration, CountFailed, CountThrottled, RecordFlow, LeaveIteration, Merge
<1>2. Held' = Held
  <2>1. CASE EnterIteration(v) \/ CountFailed(v) \/ CountThrottled(v)
    BY <2>1 DEF EnterIteration, CountFailed, CountThrottled, Held
  <2>2. CASE RecordFlow(v) \/ Merge(v)
    BY <2>2, RecordFlowInv, MergeInv
  <2>3. CASE LeaveIteration(v, "loop") \/ LeaveIteration(v, "merge")
    BY <2>3, LeaveIterationInv
  <2>4. QED BY <2>1, <2>2, <2>3
<1>3. \E step \in {"draw", "throttled", "record", "leave", "loop", "merge", "done"} :
        pc' = [pc EXCEPT ![v] = step]
  BY DEF EnterIteration, CountFailed, CountThrottled, RecordFlow, LeaveIteration, Merge, Goto
<1>4. \A w \in VU \ {v} : cur'[w] = cur[w]
  BY DEF EnterIteration, CountFailed, CountThrottled, RecordFlow, LeaveIteration, Merge,
     SharedTypeOK
<1>5. \A w \in VU : At(w, "running")' => At(w, "running") /\ cur'[w] = cur[w]
  BY <1>3, <1>4 DEF At, SharedTypeOK
<1>6. QED BY <1>1, <1>2, <1>5, RowlessStep

LEMMA LifecycleRows ==
  ASSUME RowsInv, Interrupt \/ StopObservers \/ Observe \/ Return
  PROVE  RowsInv' /\ UNCHANGED poolVars
<1>1. UNCHANGED <<pc, cur, acc, merged, poolVars>>
  BY DEF Interrupt, StopObservers, Observe, TickSnapshot, FinalSnapshot,
     LoadCompleted, LoadFailed, Publish, StopSampler, Return
<1>2. Held' = Held
  BY <1>1 DEF Held
<1>3. QED BY <1>1, <1>2, RowlessStep DEF At

(* The pool's state at the start of a run. *)
LEMMA SharedInitRows ==
  ASSUME SharedInit, main \notin {"stopping", "returned"}
  PROVE  RowsInv /\ InRounds
<1>1. Held = {}
  BY SharedInitInv
<1>2. \A v \in VU : ~ At(v, "running")
  BY DEF SharedInit, At
<1>3. RowsInv
  BY <1>1, <1>2 DEF RowsInv, UniqueRows, RowsBelowCursor
<1>4. \A i \in Row : drawn[i] = IF i <= cursor THEN 0 + 1 ELSE 0
  BY PoolAssumption DEF SharedInit, PoolInit, Row
<1>5. QED BY <1>3, <1>4 DEF InRounds

(* What a flow-run's start does to the rounds. *)
LEMMA StartFlowInRounds ==
  ASSUME SharedTypeOK, InRounds, NEW v \in VU, NEW lag, StartFlow(v, lag)
  PROVE  InRounds'
BY DrawRowInRounds DEF StartFlow, SharedTypeOK

LEMMA PoolStepInRounds ==
  ASSUME InRounds, UNCHANGED poolVars
  PROVE  InRounds'
BY DEF InRounds, poolVars

-------------------------------------------------------------------------------
(* Steps of LoadRun. *)

LEMMA Stutters ==
  ASSUME Held' = Held, UNCHANGED result, main' = "returned" <=> main = "returned"
  PROVE  UNCHANGED Abstract!vars
BY DEF Abstract!vars, Reported

LEMMA FinishFlowFinishes ==
  ASSUME SharedTypeOK, RunInv, NEW v \in VU, FinishFlow(v)
  PROVE  Abstract!Finish
<1>1. PICK s \in Samples \ Held : Held' = Held \cup {s}
  BY FinishFlowInv
<1>2. main # "returned" /\ main' = main
  BY AtWork DEF RunInv, FinishFlow, At
<1>3. Reported = NoResult /\ Reported' = NoResult
  BY <1>2 DEF Reported
<1>4. s \in Held' \ Held
  BY <1>1
<1>5. QED BY <1>1, <1>3, <1>4 DEF Abstract!Finish

LEMMA ReturnReturns ==
  ASSUME SharedTypeOK, RunInv, Return
  PROVE  Abstract!Return
<1>1. main = "stopping" /\ main' = "returned"
      /\ result' = [acc |-> merged, aborted |-> aborted]
      /\ UNCHANGED <<acc, merged>>
  BY DEF Return
<1>2. Joined
  BY <1>1 DEF RunInv, Settled
<1>3. merged.samples = Held /\ (aborted <=> \E s \in Held : s.aborted)
  BY <1>2, ResultIsHeld
<1>4. aborted = \E s \in Held : s.aborted
  BY <1>3 DEF SharedTypeOK
<1>5. Held' = Held
  BY <1>1 DEF Held
<1>6. Reported = NoResult
  BY <1>1 DEF Reported
<1>7. Reported' = [runs |-> Held, aborted |-> \E s \in Held : s.aborted]
  BY <1>1, <1>3, <1>4 DEF Reported
<1>8. QED BY <1>5, <1>6, <1>7 DEF Abstract!Return

(* Every step a goroutine takes in an iteration finishes a flow-run or     *)
(* does not show.                                                          *)
LEMMA IterationStutters ==
  ASSUME SharedTypeOK, RunInv, NEW v \in VU, NEW lag,
         \/ EnterIteration(v)
         \/ StartFlow(v, lag)
         \/ CountFailed(v)
         \/ CountThrottled(v)
         \/ RecordFlow(v)
         \/ LeaveIteration(v, "loop")
         \/ LeaveIteration(v, "merge")
         \/ Merge(v)
  PROVE  UNCHANGED Abstract!vars
<1>1. main' = main /\ result' = result
  BY DEF EnterIteration, StartFlow, CountFailed, CountThrottled, RecordFlow,
     LeaveIteration, Merge
<1>2. Held' = Held
  <2>1. CASE EnterIteration(v) \/ StartFlow(v, lag) \/ CountFailed(v) \/ CountThrottled(v)
    BY <2>1 DEF EnterIteration, StartFlow, CountFailed, CountThrottled, Held
  <2>2. CASE RecordFlow(v) \/ Merge(v)
    BY <2>2, RecordFlowInv, MergeInv
  <2>3. CASE LeaveIteration(v, "loop") \/ LeaveIteration(v, "merge")
    BY <2>3, LeaveIterationInv
  <2>4. QED BY <2>1, <2>2, <2>3
<1>3. QED BY <1>1, <1>2, Stutters

(* Of the steps around the goroutines only Return shows. *)
LEMMA LifecycleImplements ==
  ASSUME SharedTypeOK, RunInv, Interrupt \/ StopObservers \/ Observe \/ Return
  PROVE  [Abstract!Next]_(Abstract!vars)
<1>1. CASE Return
  BY <1>1, ReturnReturns DEF Abstract!Next
<1>2. CASE Interrupt \/ StopObservers \/ Observe
  <2>1. UNCHANGED <<acc, merged, result>>
    BY <1>2 DEF Interrupt, StopObservers, Observe, TickSnapshot, FinalSnapshot,
       LoadCompleted, LoadFailed, Publish, StopSampler
  <2>2. main' = "returned" <=> main = "returned"
    BY <1>2 DEF Interrupt, StopObservers, Observe, TickSnapshot, FinalSnapshot,
       LoadCompleted, LoadFailed, Publish, StopSampler
  <2>3. Held' = Held
    BY <2>1 DEF Held
  <2>4. QED BY <2>1, <2>2, <2>3, Stutters
<1>3. QED BY <1>1, <1>2

-------------------------------------------------------------------------------
(* What a run counts. *)

(* The steps of a goroutine in an iteration, and of one that merges. *)
FlowStep(v) ==
  \/ EnterIteration(v)
  \/ \E lag \in Int : StartFlow(v, lag)
  \/ FinishFlow(v)
  \/ CountFailed(v)
  \/ CountThrottled(v)
  \/ RecordFlow(v)
  \/ LeaveIteration(v, "loop")
  \/ LeaveIteration(v, "merge")
  \/ Merge(v)

(* All that the lemmas below need to know of an arrival model: its steps   *)
(* start goroutines, give them jobs, let them into an iteration unless the *)
(* context is cancelled, send them to their merge, and leave alone what    *)
(* the iterations and the observers share.                                 *)
DriverStep ==
  /\ UNCHANGED <<acc, counterVars, budgetVars, ctxVars, merged, watchVars, result>>
  /\ main' = main \/ {main, main'} \cap {"stopping", "returned"} = {}
  /\ \A v \in VU :
       \/ UNCHANGED <<pc[v], cur[v]>>
       \/ /\ pc[v] \in {"unborn", "loop", "received"}
          /\ pc'[v] \in {"loop", "received", "enter", "merge"}
          /\ pc'[v] = "enter" => ~ cancelled
          /\ cur'[v] = cur[v] \/ cur'[v].flow = 1

SharedStep ==
  \/ \E v \in VU : FlowStep(v)
  \/ Interrupt \/ StopObservers \/ Observe \/ Return
  \/ DriverStep

(* The state before such a step, and the one after it. *)
Sound == SharedTypeOK /\ RunInv

-------------------------------------------------------------------------------
(* Lemmas on what the steps touch. *)

(* A goroutine leaves the others as they are, and what is said of them.    *)
LEMMA OnlyOwn ==
  ASSUME SharedTypeOK, NEW v \in VU, FlowStep(v), NEW w \in VU \ {v}
  PROVE  /\ UNCHANGED <<pc[w], cur[w], acc[w]>>
         /\ Counting(w)' <=> Counting(w)
         /\ InPass(w)' <=> InPass(w)
         /\ PassDone(w)' = PassDone(w)
<1>1. UNCHANGED <<pc[w], cur[w], acc[w]>>
  BY DEF FlowStep, EnterIteration, StartFlow, FinishFlow, CountFailed, CountThrottled,
     RecordFlow, LeaveIteration, Merge, Goto, SharedTypeOK
<1>2. QED BY <1>1 DEF Counting, InPass, PassDone

(* A lifecycle step leaves every goroutine as it is.                       *)
LEMMA LifecycleFrame ==
  ASSUME Interrupt \/ StopObservers \/ Observe \/ Return
  PROVE  /\ UNCHANGED <<pc, cur, acc, merged, counterVars, budgetVars, aborted>>
         /\ ~ Interrupt => UNCHANGED ctxVars
BY DEF Interrupt, StopObservers, Observe, TickSnapshot, FinalSnapshot, LoadCompleted,
   LoadFailed, Publish, StopSampler, Return, ctxVars

LEMMA SamePlaces ==
  ASSUME UNCHANGED <<pc, cur>>
  PROVE  \A v \in VU : /\ Counting(v)' <=> Counting(v)
                       /\ InPass(v)' <=> InPass(v)
                       /\ PassDone(v)' = PassDone(v)
BY DEF Counting, InPass, PassDone

(* The arrival model moves only goroutines outside a pass.                 *)
LEMMA DriverFrame ==
  ASSUME DriverStep, NEW v \in VU
  PROVE  /\ Counting(v)' <=> Counting(v)
         /\ InPass(v)' <=> InPass(v)
         /\ Counting(v) \/ InPass(v) => cur'[v] = cur[v]
         /\ PassDone(v)' = PassDone(v)
         /\ pc'[v] \in InFlight <=> pc[v] \in InFlight
         /\ pc'[v] \in {"failed", "throttled"} => pc'[v] = pc[v]
BY DEF DriverStep, Counting, InPass, PassDone, InFlight

LEMMA PassDoneType ==
  ASSUME SharedTypeOK, NEW v \in VU
  PROVE  PassDone(v) \in 0 .. NumFlows
<1>1. cur[v].flow \in 1 .. NumFlows
  BY DEF SharedTypeOK, Work
<1>2. QED BY <1>1, RunAssumption DEF PassDone

-------------------------------------------------------------------------------
(* Lemmas on the samples held. *)

(* Samples numbered 1 to k, no number given twice, are k samples.          *)
LEMMA CountByNumber ==
  ASSUME NEW S, NEW k \in Nat, Numbers(S) = 1 .. k, \A s, t \in S : s.n = t.n => s = t
  PROVE  IsFiniteSet(S) /\ Cardinality(S) = k
<1> DEFINE number == [s \in S |-> s.n]
<1>1. IsFiniteSet(1 .. k) /\ Cardinality(1 .. k) = k
  BY FS_Interval
<1>2. number \in [S -> 1 .. k]
  BY NumbersOf
<1>3. \A s, t \in S : number[s] = number[t] => s = t
  OBVIOUS
<1>4. number \in Injection(S, 1 .. k)
  BY <1>2, <1>3 DEF Injection, IsInjective
<1>5. number \in Surjection(S, 1 .. k)
  <2>1. \A m \in 1 .. k : \E s \in S : number[s] = m
    BY NumbersOf
  <2>2. QED BY <1>2, <2>1 DEF Surjection
<1>6. QED BY <1>1, <1>4, <1>5, FS_Injection

(* As many samples are held as were counted, and a set of them has as many *)
(* numbers as it has samples.                                              *)
LEMMA HeldCount ==
  ASSUME Sound
  PROVE  IsFiniteSet(Held) /\ Cardinality(Held) = completed
BY CountByNumber DEF Sound, SharedTypeOK, RunInv, NoFlowRunLost

LEMMA NumbersCount ==
  ASSUME Sound, NEW S \in SUBSET Held
  PROVE  /\ IsFiniteSet(S) /\ IsFiniteSet(Numbers(S))
         /\ Cardinality(Numbers(S)) = Cardinality(S)
<1> DEFINE number == [s \in S |-> s.n]
<1>1. IsFiniteSet(S)
  BY HeldCount, FS_Subset
<1>2. number \in [S -> Numbers(S)]
  BY NumbersOf
<1>3. \A s, t \in S : number[s] = number[t] => s = t
  BY DEF Sound, RunInv, NoFlowRunLost
<1>4. number \in Injection(S, Numbers(S))
  BY <1>2, <1>3 DEF Injection, IsInjective
<1>5. number \in Surjection(S, Numbers(S))
  <2>1. \A k \in Numbers(S) : \E s \in S : number[s] = k
    BY NumbersOf
  <2>2. QED BY <1>2, <2>1 DEF Surjection
<1>6. number \in Bijection(S, Numbers(S))
  BY <1>4, <1>5 DEF Bijection
<1>7. QED BY <1>1, <1>6, FS_Bijection DEF ExistsBijection

(* What is held after a flow-run finished.                                 *)
LEMMA Finished1 ==
  ASSUME Sound, NEW v \in VU, FinishFlow(v)
  PROVE  \E r \in FlowResults : \E s \in Samples \ Held :
           /\ s = SampleOf(v, completed + 1, r)
           /\ cur' = [cur EXCEPT ![v] = Back(@, completed + 1, r)]
           /\ acc' = [acc EXCEPT ![v] = AddSample(@, s)]
           /\ Held' = Held \cup {s}
           /\ \A t \in Held : t.n # s.n
<1>1. PICK r \in FlowResults :
        /\ acc' = [acc EXCEPT ![v] = AddSample(@, SampleOf(v, completed + 1, r))]
        /\ cur' = [cur EXCEPT ![v] = Back(@, completed + 1, r)]
  BY DEF FinishFlow
<1> DEFINE s == SampleOf(v, completed + 1, r)
<1>2. completed \in Nat /\ r \in FlowResult
  BY RunAssumption DEF Sound, SharedTypeOK
<1>3. s \in Samples /\ s.n = completed + 1
  <2>1. completed + 1 \in Nat \ {0}
    BY <1>2
  <2>2. QED BY <1>2, <2>1, SampleType DEF SampleOf, Sound
<1>4. \A t \in Held : t.n \in 1 .. completed
  BY NumbersOf DEF Sound, RunInv, NoFlowRunLost
<1>5. \A t \in Held : t.n # s.n
  BY <1>2, <1>3, <1>4
<1>6. /\ \A w \in VU : acc'[w].samples = IF w = v THEN acc[v].samples \cup {s}
                                               ELSE acc[w].samples
      /\ UNCHANGED merged
  BY <1>1 DEF Sound, SharedTypeOK, AddSample, FinishFlow
<1>7. \A x : x \in Held' <=> x \in Held \/ x = s
  BY <1>6, Members
<1>8. Held' = Held \cup {s} /\ s \notin Held
  BY <1>5, <1>7
<1>9. QED BY <1>1, <1>3, <1>5, <1>8

(* The other steps hold on to the samples they find.                       *)
LEMMA HeldKept ==
  ASSUME Sound, SharedStep
  PROVE  Held' = Held \/ \E v \in VU : FinishFlow(v)
<1>1. CASE \E v \in VU : FlowStep(v) /\ ~ FinishFlow(v)
  <2>1. PICK v \in VU : FlowStep(v) /\ ~ FinishFlow(v)
    BY <1>1
  <2>2. CASE \/ EnterIteration(v) \/ \E lag \in Int : StartFlow(v, lag)
             \/ CountFailed(v) \/ CountThrottled(v)
    BY <2>2 DEF EnterIteration, StartFlow, CountFailed, CountThrottled, Held
  <2>3. CASE RecordFlow(v) \/ Merge(v)
    BY <2>3, RecordFlowInv, MergeInv DEF Sound
  <2>4. CASE LeaveIteration(v, "loop") \/ LeaveIteration(v, "merge")
    BY <2>4, LeaveIterationInv DEF Sound
  <2>5. QED BY <2>1, <2>2, <2>3, <2>4 DEF FlowStep
<1>2. CASE Interrupt \/ StopObservers \/ Observe \/ Return
  BY <1>2, LifecycleFrame DEF Held
<1>3. CASE DriverStep
  BY <1>3 DEF DriverStep, Held
<1>4. QED BY <1>1, <1>2, <1>3 DEF SharedStep

-------------------------------------------------------------------------------
(* Passes over the flows. *)

LEMMA FromTheFirstKept ==
  ASSUME Sound, FromTheFirst, SharedStep
  PROVE  FromTheFirst'
<1>1. CASE \E v \in VU : FlowStep(v)
  <2>1. PICK v \in VU : FlowStep(v)
    BY <1>1
  <2>2. \A w \in VU \ {v} : ~ InPass(w)' => cur'[w].flow = 1
    BY <2>1, OnlyOwn DEF FromTheFirst, Sound
  <2>3. ~ InPass(v)' => cur'[v].flow = 1
    <3>1. CASE RecordFlow(v)
      <4>1. CASE cur[v].flow < NumFlows
        <5>1. pc'[v] = "draw"
          BY <3>1, <4>1 DEF RecordFlow, Goto, Sound, SharedTypeOK
        <5>2. QED BY <5>1 DEF InPass
      <4>2. CASE ~ (cur[v].flow < NumFlows)
        <5>1. cur' = [cur EXCEPT ![v] = Idle]
          BY <3>1, <4>2 DEF RecordFlow
        <5>2. QED BY <5>1 DEF Sound, SharedTypeOK, Idle, Job
      <4>3. QED BY <4>1, <4>2
    <3>2. CASE LeaveIteration(v, "loop") \/ LeaveIteration(v, "merge") \/ Merge(v)
      BY <3>2 DEF LeaveIteration, Merge, InPass, Counting, At, FromTheFirst
    <3>3. CASE \/ EnterIteration(v) \/ \E lag \in Int : StartFlow(v, lag)
               \/ FinishFlow(v) \/ CountFailed(v) \/ CountThrottled(v)
      <4>1. pc'[v] \in {"draw", "running", "failed", "throttled", "record"}
        BY <3>3 DEF EnterIteration, StartFlow, FinishFlow, CountFailed, CountThrottled,
           Goto, Sound, SharedTypeOK
      <4>2. QED BY <4>1 DEF InPass, Counting
    <3>4. QED BY <2>1, <3>1, <3>2, <3>3 DEF FlowStep
  <2>4. QED BY <2>2, <2>3 DEF FromTheFirst
<1>2. CASE Interrupt \/ StopObservers \/ Observe \/ Return
  BY <1>2, LifecycleFrame, SamePlaces DEF FromTheFirst
<1>3. CASE DriverStep
  <2>1. ASSUME NEW v \in VU, ~ InPass(v)'
        PROVE  cur'[v].flow = 1
    BY <1>3, <2>1, DriverFrame DEF DriverStep, FromTheFirst
  <2>2. QED BY <2>1 DEF FromTheFirst
<1>4. QED BY <1>1, <1>2, <1>3 DEF SharedStep

(* An accumulator and the pass its goroutine is on.                        *)
Tallied(v) ==
  /\ IsFiniteSet(acc[v].samples)
  /\ Cardinality(acc[v].samples) = acc[v].iters * NumFlows + PassDone(v)

LEMMA PassesCountedIs ==
  PassesCounted <=> /\ \A v \in VU : Tallied(v)
                    /\ IsFiniteSet(merged.samples)
                    /\ Cardinality(merged.samples) = merged.iters * NumFlows
BY DEF PassesCounted, Tallied

(* Finishing a flow-run moves a goroutine on in its pass, and leaving the  *)
(* iteration ends the pass; the other steps do neither.                    *)
LEMMA PassDoneStep ==
  ASSUME Sound, FromTheFirst, NEW v \in VU, FlowStep(v)
  PROVE  \/ FinishFlow(v) /\ PassDone(v) = cur[v].flow - 1 /\ PassDone(v)' = cur[v].flow
         \/ /\ LeaveIteration(v, "loop") \/ LeaveIteration(v, "merge")
            /\ PassDone(v) = NumFlows /\ PassDone(v)' = 0
         \/ Merge(v) /\ PassDone(v) = 0 /\ PassDone(v)' = 0
         \/ /\ \/ EnterIteration(v) \/ \E lag \in Int : StartFlow(v, lag)
               \/ CountFailed(v) \/ CountThrottled(v) \/ RecordFlow(v)
            /\ PassDone(v)' = PassDone(v)
<1>1. cur[v].flow \in 1 .. NumFlows /\ NumFlows \in Nat \ {0}
  BY RunAssumption DEF Sound, SharedTypeOK, Work
<1>2. CASE EnterIteration(v)
  <2>1. UNCHANGED cur /\ pc[v] = "enter" /\ pc'[v] = "draw"
    BY <1>2 DEF EnterIteration, At, Goto, Sound, SharedTypeOK
  <2>2. cur[v].flow = 1
    BY <2>1 DEF FromTheFirst, InPass, Counting
  <2>3. PassDone(v) = 0 /\ PassDone(v)' = 0
    BY <2>1, <2>2 DEF PassDone, Counting
  <2>4. QED BY <1>2, <2>3
<1>3. CASE \E lag \in Int : StartFlow(v, lag)
  <2>1. PICK lag \in Int, row \in Row \cup {NoRow} :
          /\ At(v, "draw") /\ Goto(v, "running")
          /\ cur' = [cur EXCEPT ![v] = Dispatch(@, row, lag)]
    BY <1>3 DEF StartFlow
  <2>2. pc[v] = "draw" /\ pc'[v] = "running" /\ cur'[v].flow = cur[v].flow
    BY <2>1 DEF At, Goto, Sound, SharedTypeOK, Dispatch
  <2>3. PassDone(v)' = PassDone(v)
    BY <2>2 DEF PassDone, Counting
  <2>4. QED BY <1>3, <2>3
<1>4. CASE FinishFlow(v)
  <2>1. PICK r \in FlowResults :
          cur' = [cur EXCEPT ![v] = Back(@, completed + 1, r)]
    BY <1>4, Finished1
  <2>2. cur'[v].flow = cur[v].flow
    BY <2>1 DEF Sound, SharedTypeOK, Back
  <2>3. PassDone(v) = cur[v].flow - 1 /\ PassDone(v)' = cur[v].flow
    BY <1>4, <2>2 DEF FinishFlow, At, Goto, Sound, SharedTypeOK, PassDone, Counting
  <2>4. QED BY <1>4, <2>3
<1>5. CASE CountFailed(v) \/ CountThrottled(v)
  <2>1. UNCHANGED cur /\ Counting(v) /\ Counting(v)'
    BY <1>5 DEF CountFailed, CountThrottled, At, Goto, Sound, SharedTypeOK, Counting
  <2>2. PassDone(v)' = PassDone(v)
    BY <2>1 DEF PassDone
  <2>3. QED BY <1>5, <2>2
<1>6. CASE RecordFlow(v)
  <2>1. PassDone(v) = cur[v].flow
    BY <1>6 DEF RecordFlow, At, PassDone, Counting
  <2>2. CASE cur[v].flow < NumFlows
    <3>1. Goto(v, "draw") /\ cur' = [cur EXCEPT ![v] = Onward(@)]
      BY <1>6, <2>2 DEF RecordFlow
    <3>2. pc'[v] = "draw" /\ cur'[v].flow = cur[v].flow + 1
      BY <3>1 DEF Goto, Sound, SharedTypeOK, Onward
    <3>3. PassDone(v)' = cur[v].flow
      BY <1>1, <3>2 DEF PassDone, Counting
    <3>4. QED BY <1>6, <2>1, <3>3
  <2>3. CASE ~ (cur[v].flow < NumFlows)
    <3>1. pc'[v] = "leave"
      BY <1>6, <2>3 DEF RecordFlow, Goto, Sound, SharedTypeOK
    <3>2. PassDone(v)' = cur[v].flow
      BY <1>1, <2>3, <3>1 DEF PassDone, Counting
    <3>3. QED BY <1>6, <2>1, <3>2
  <2>4. QED BY <2>2, <2>3
<1>7. CASE LeaveIteration(v, "loop") \/ LeaveIteration(v, "merge")
  <2>1. PassDone(v) = NumFlows /\ PassDone(v)' = 0
    BY <1>7 DEF LeaveIteration, At, Goto, Sound, SharedTypeOK, PassDone, Counting
  <2>2. QED BY <1>7, <2>1
<1>8. CASE Merge(v)
  <2>1. PassDone(v) = 0 /\ PassDone(v)' = 0
    BY <1>8 DEF Merge, At, Goto, Sound, SharedTypeOK, PassDone, Counting
  <2>2. QED BY <1>8, <2>1
<1>9. QED BY <1>2, <1>3, <1>4, <1>5, <1>6, <1>7, <1>8 DEF FlowStep

LEMMA TalliedKept ==
  ASSUME Sound, FromTheFirst, NEW v \in VU, FlowStep(v), Tallied(v)
  PROVE  Tallied(v)'
<1>1. /\ acc[v].iters \in Nat /\ cur[v].flow \in 1 .. NumFlows /\ NumFlows \in Nat \ {0}
      /\ acc[v].iters * NumFlows \in Int
  <2>1. acc[v].iters \in Nat /\ cur[v].flow \in 1 .. NumFlows /\ NumFlows \in Nat \ {0}
    BY RunAssumption DEF Sound, SharedTypeOK, Accs, Work
  <2>2. QED BY <2>1
<1>2. CASE FinishFlow(v) /\ PassDone(v) = cur[v].flow - 1 /\ PassDone(v)' = cur[v].flow
  <2>1. PICK s \in Samples \ Held : acc' = [acc EXCEPT ![v] = AddSample(@, s)]
    BY <1>2, Finished1
  <2>2. acc'[v].samples = acc[v].samples \cup {s} /\ acc'[v].iters = acc[v].iters
    BY <2>1 DEF Sound, SharedTypeOK, AddSample
  <2>3. s \notin acc[v].samples
    BY <2>1, Members
  <2>4. IsFiniteSet(acc[v].samples \cup {s})
        /\ Cardinality(acc[v].samples \cup {s}) = Cardinality(acc[v].samples) + 1
    BY <2>3, FS_AddElement DEF Tallied
  <2>5. (acc[v].iters * NumFlows + PassDone(v)) + 1 = acc[v].iters * NumFlows + PassDone(v)'
    BY <1>1, <1>2
  <2>6. QED BY <2>2, <2>4, <2>5 DEF Tallied
<1>3. CASE /\ LeaveIteration(v, "loop") \/ LeaveIteration(v, "merge")
           /\ PassDone(v) = NumFlows /\ PassDone(v)' = 0
  <2>1. acc' = [acc EXCEPT ![v] = AddPass(@)]
    BY <1>3 DEF LeaveIteration
  <2>2. acc'[v].samples = acc[v].samples /\ acc'[v].iters = acc[v].iters + 1
    BY <2>1 DEF Sound, SharedTypeOK, AddPass
  <2>3. acc[v].iters * NumFlows + NumFlows = (acc[v].iters + 1) * NumFlows + 0
    BY <1>1
  <2>4. QED BY <1>3, <2>2, <2>3 DEF Tallied
<1>4. CASE Merge(v) /\ PassDone(v) = 0 /\ PassDone(v)' = 0
  <2>1. acc'[v].samples = {} /\ acc'[v].iters = 0
    BY <1>4 DEF Merge, Sound, SharedTypeOK, NewAcc
  <2>2. 0 * NumFlows + 0 = 0
    BY <1>1
  <2>3. QED BY <1>4, <2>1, <2>2, FS_EmptySet DEF Tallied
<1>5. CASE /\ \/ EnterIteration(v) \/ \E lag \in Int : StartFlow(v, lag)
              \/ CountFailed(v) \/ CountThrottled(v) \/ RecordFlow(v)
           /\ PassDone(v)' = PassDone(v)
  <2>1. acc'[v].samples = acc[v].samples /\ acc'[v].iters = acc[v].iters
    <3>1. CASE RecordFlow(v)
      <4>1. PICK kept \in BOOLEAN : acc' = [acc EXCEPT ![v] = AddTree(@, cur[v].n, kept)]
        BY <3>1 DEF RecordFlow
      <4>2. QED BY <4>1 DEF Sound, SharedTypeOK, AddTree
    <3>2. CASE ~ RecordFlow(v)
      BY <1>5, <3>2 DEF EnterIteration, StartFlow, CountFailed, CountThrottled
    <3>3. QED BY <3>1, <3>2
  <2>2. QED BY <1>5, <2>1 DEF Tallied
<1>6. QED BY <1>2, <1>3, <1>4, <1>5, PassDoneStep

LEMMA PassesCountedKept ==
  ASSUME Sound, FromTheFirst, PassesCounted, SharedStep
  PROVE  PassesCounted'
<1>1. CASE \E v \in VU : FlowStep(v)
  <2>1. PICK v \in VU : FlowStep(v)
    BY <1>1
  <2>2. \A w \in VU \ {v} : Tallied(w)'
    BY <2>1, OnlyOwn, PassesCountedIs DEF Tallied, Sound
  <2>3. Tallied(v)'
    BY <2>1, TalliedKept, PassesCountedIs
  <2>4. /\ IsFiniteSet(merged'.samples)
        /\ Cardinality(merged'.samples) = merged'.iters * NumFlows
    <3>1. CASE Merge(v)
      <4>1. /\ merged'.samples = merged.samples \cup acc[v].samples
            /\ merged'.iters = merged.iters + acc[v].iters
        BY <3>1 DEF Merge, Joint
      <4>2. merged.samples \cap acc[v].samples = {}
        BY DEF Sound, RunInv, NoFlowRunLost
      <4>3. /\ IsFiniteSet(merged.samples) /\ IsFiniteSet(acc[v].samples)
            /\ Cardinality(merged.samples) = merged.iters * NumFlows
            /\ Cardinality(acc[v].samples) = acc[v].iters * NumFlows + PassDone(v)
        BY PassesCountedIs DEF Tallied
      <4>4. PassDone(v) = 0
        BY <3>1 DEF Merge, At, PassDone, Counting
      <4>5. merged.iters \in Nat /\ acc[v].iters \in Nat /\ NumFlows \in Nat
        BY RunAssumption DEF Sound, SharedTypeOK, Accs
      <4>6. /\ IsFiniteSet(merged.samples \cup acc[v].samples)
            /\ Cardinality(merged.samples \cup acc[v].samples)
                 = merged.iters * NumFlows + (acc[v].iters * NumFlows + 0) - 0
        BY <4>2, <4>3, <4>4, FS_Union, FS_EmptySet
      <4>7. merged.iters * NumFlows + (acc[v].iters * NumFlows + 0) - 0
              = (merged.iters + acc[v].iters) * NumFlows
        BY <4>5
      <4>8. QED BY <4>1, <4>6, <4>7
    <3>2. CASE ~ Merge(v)
      <4>1. merged' = merged
        BY <2>1, <3>2 DEF FlowStep, EnterIteration, StartFlow, FinishFlow, CountFailed,
           CountThrottled, RecordFlow, LeaveIteration
      <4>2. QED BY <4>1, PassesCountedIs
    <3>3. QED BY <3>1, <3>2
  <2>5. QED BY <2>2, <2>3, <2>4 DEF PassesCounted, Tallied
<1>2. CASE Interrupt \/ StopObservers \/ Observe \/ Return
  BY <1>2, LifecycleFrame, SamePlaces DEF PassesCounted
<1>3. CASE DriverStep
  BY <1>3, DriverFrame DEF PassesCounted, DriverStep
<1>4. QED BY <1>1, <1>2, <1>3 DEF SharedStep

LEMMA GaugeKept ==
  ASSUME Sound, GaugeExact, SharedStep
  PROVE  GaugeExact'
<1> DEFINE flying == {v \in VU : pc[v] \in InFlight}
<1>1. IsFiniteSet(flying) /\ Cardinality(flying) \in Nat
  BY RunAssumption, FS_Subset, FS_CardinalityType
<1>2. active = Cardinality(flying)
  BY DEF GaugeExact
<1>3. CASE \E v \in VU : FlowStep(v)
  <2>1. PICK v \in VU : FlowStep(v)
    BY <1>3
  <2>2. \A w \in VU \ {v} : pc'[w] = pc[w]
    BY <2>1, OnlyOwn DEF Sound
  <2>3. CASE EnterIteration(v)
    <3>1. v \notin flying /\ flying' = flying \cup {v}
      BY <2>2, <2>3 DEF EnterIteration, At, Goto, Sound, SharedTypeOK, InFlight
    <3>2. active' = active + 1
      BY <2>3 DEF EnterIteration
    <3>3. Cardinality(flying \cup {v}) = Cardinality(flying) + 1
      BY <1>1, <3>1, FS_AddElement
    <3>4. QED BY <1>2, <3>1, <3>2, <3>3 DEF GaugeExact
  <2>4. CASE LeaveIteration(v, "loop") \/ LeaveIteration(v, "merge")
    <3>1. v \in flying /\ flying' = flying \ {v}
      BY <2>2, <2>4 DEF LeaveIteration, At, Goto, Sound, SharedTypeOK, InFlight
    <3>2. active' = active - 1
      BY <2>4 DEF LeaveIteration
    <3>3. Cardinality(flying \ {v}) = Cardinality(flying) - 1
      BY <1>1, <3>1, FS_RemoveElement
    <3>4. QED BY <1>2, <3>1, <3>2, <3>3 DEF GaugeExact
  <2>5. CASE \/ \E lag \in Int : StartFlow(v, lag)
             \/ FinishFlow(v) \/ CountFailed(v) \/ CountThrottled(v) \/ RecordFlow(v)
             \/ Merge(v)
    <3>1. pc'[v] \in InFlight <=> pc[v] \in InFlight
      BY <2>5 DEF StartFlow, FinishFlow, CountFailed, CountThrottled, RecordFlow, Merge,
         At, Goto, Sound, SharedTypeOK, InFlight
    <3>2. active' = active
      BY <2>5 DEF StartFlow, FinishFlow, CountFailed, CountThrottled, RecordFlow, Merge,
         counterVars
    <3>3. flying' = flying
      BY <2>2, <3>1
    <3>4. QED BY <1>2, <3>2, <3>3 DEF GaugeExact
  <2>6. QED BY <2>1, <2>3, <2>4, <2>5 DEF FlowStep
<1>4. CASE Interrupt \/ StopObservers \/ Observe \/ Return
  BY <1>4, LifecycleFrame DEF GaugeExact, counterVars
<1>5. CASE DriverStep
  <2>1. flying' = flying
    BY <1>5, DriverFrame
  <2>2. QED BY <1>2, <1>5, <2>1 DEF GaugeExact, DriverStep, counterVars
<1>6. QED BY <1>3, <1>4, <1>5 DEF SharedStep

(* Every step a run may take keeps passes and gauge in step.               *)
LEMMA PassStep ==
  ASSUME Sound, PassInv, SharedStep
  PROVE  PassInv'
BY FromTheFirstKept, PassesCountedKept, GaugeKept DEF PassInv

LEMMA PassStart ==
  ASSUME SharedInit
  PROVE  PassInv
<1>1. /\ \A v \in VU : pc[v] = "unborn" /\ cur[v].flow = 1
      /\ \A v \in VU : acc[v].samples = {} /\ acc[v].iters = 0
      /\ merged.samples = {} /\ merged.iters = 0 /\ active = 0
  BY DEF SharedInit, Idle, Job, NewAcc
<1>2. 0 * NumFlows = 0 /\ 0 * NumFlows + 0 = 0
  BY RunAssumption
<1>3. FromTheFirst
  BY <1>1 DEF FromTheFirst
<1>4. PassesCounted
  BY <1>1, <1>2, FS_EmptySet DEF PassesCounted, PassDone, Counting
<1>5. {v \in VU : pc[v] \in InFlight} = {}
  BY <1>1 DEF InFlight
<1>6. GaugeExact
  BY <1>1, <1>5, FS_EmptySet DEF GaugeExact
<1>7. QED BY <1>3, <1>4, <1>6 DEF PassInv

(* A run that returned has nothing in flight and counts whole passes.      *)
LEMMA PassInvImplies ==
  ASSUME Sound, PassInv
  PROVE  WholePasses
<1> SUFFICES ASSUME main = "returned"
             PROVE  active = 0 /\ completed = result.acc.iters * NumFlows
  BY DEF WholePasses
<1>1. Joined /\ result.acc = merged
  BY DEF Sound, RunInv, Settled
<1>2. {v \in VU : pc[v] \in InFlight} = {}
  BY <1>1 DEF Joined, InFlight
<1>3. active = 0
  BY <1>2, FS_EmptySet DEF PassInv, GaugeExact
<1>4. merged.samples = Held
  BY <1>1, ResultIsHeld DEF Sound
<1>5. completed = merged.iters * NumFlows
  BY <1>4, HeldCount DEF PassInv, PassesCounted
<1>6. QED BY <1>1, <1>3, <1>5

-------------------------------------------------------------------------------
(* After the context is cancelled. *)

(* A goroutine that is in an iteration, or has been let into one.          *)
LetIn(v) == pc[v] \in InFlight \cup {"enter"}

LEMMA OwedIs ==
  /\ \A v \in VU, k \in 1 .. NumFlows :
       <<v, k>> \in Owed <=> LetIn(v) /\ k > PassDone(v)
  /\ \A v \in VU, k \in 1 .. NumFlows :
       <<v, k>> \in Owed' <=> LetIn(v)' /\ k > PassDone(v)'
  /\ Owed \subseteq VU \X (1 .. NumFlows) /\ Owed' \subseteq VU \X (1 .. NumFlows)
BY DEF Owed, LetIn

(* Nobody owes more than a pass.                                           *)
LEMMA OwedBound ==
  ASSUME NEW S \in SUBSET (VU \X (1 .. NumFlows))
  PROVE  /\ IsFiniteSet(S) /\ Cardinality(S) \in Nat
         /\ Cardinality(S) <= NumFlows * Cardinality(VU)
<1>1. IsFiniteSet(VU) /\ NumFlows \in Nat /\ NumFlows >= 1
  BY RunAssumption
<1>2. IsFiniteSet(1 .. NumFlows) /\ Cardinality(1 .. NumFlows) = NumFlows
  BY <1>1, FS_Interval
<1>3. /\ IsFiniteSet(VU \X (1 .. NumFlows))
      /\ Cardinality(VU \X (1 .. NumFlows)) = Cardinality(VU) * NumFlows
  BY <1>1, <1>2, FS_Product
<1>4. Cardinality(VU) \in Nat
  BY <1>1, FS_CardinalityType
<1>5. Cardinality(VU) * NumFlows = NumFlows * Cardinality(VU)
  BY <1>1, <1>4
<1>6. IsFiniteSet(S) /\ Cardinality(S) <= Cardinality(VU \X (1 .. NumFlows))
  BY <1>3, FS_Subset
<1>7. QED BY <1>3, <1>5, <1>6, FS_CardinalityType

LEMMA OwedSubset ==
  ASSUME Sound, SharedTypeOK',
         \A w \in VU : LetIn(w)' => LetIn(w) /\ PassDone(w)' >= PassDone(w)
  PROVE  Owed' \subseteq Owed
<1>1. SUFFICES ASSUME NEW w \in VU, NEW k \in 1 .. NumFlows, <<w, k>> \in Owed'
               PROVE  <<w, k>> \in Owed
  BY OwedIs
<1>2. LetIn(w) /\ PassDone(w)' >= PassDone(w) /\ k > PassDone(w)'
  BY <1>1, OwedIs
<1>3. k \in Int /\ PassDone(w) \in Int /\ PassDone(w)' \in Int
  <2>1. PassDone(w) \in 0 .. NumFlows
    BY PassDoneType DEF Sound
  <2>2. PassDone(w)' \in 0 .. NumFlows
    <3>1. cur'[w].flow \in 1 .. NumFlows
      BY DEF SharedTypeOK, Work
    <3>2. QED BY <3>1, RunAssumption DEF PassDone
  <2>3. QED BY <2>1, <2>2, RunAssumption
<1>4. QED BY <1>2, <1>3, OwedIs

LEMMA CancelStep ==
  ASSUME Sound, SharedTypeOK', FromTheFirst, CancelInv, SharedStep
  PROVE  CancelInv'
<1> SUFFICES ASSUME cancelled'
             PROVE  /\ completed' - doneAtCancel' + Cardinality(Owed')
                         <= NumFlows * Cardinality(VU)
                    /\ doneAtCancel' <= completed'
  BY DEF CancelInv
<1>1. /\ completed \in Nat /\ doneAtCancel \in Nat
      /\ Cardinality(Owed) \in Nat /\ IsFiniteSet(Owed)
      /\ Cardinality(Owed') \in Nat /\ Cardinality(Owed') <= NumFlows * Cardinality(VU)
      /\ NumFlows * Cardinality(VU) \in Int
  <2>1. /\ Cardinality(Owed) \in Nat /\ IsFiniteSet(Owed)
        /\ Cardinality(Owed') \in Nat /\ Cardinality(Owed') <= NumFlows * Cardinality(VU)
    BY OwedIs, OwedBound
  <2>2. NumFlows * Cardinality(VU) \in Int
    <3>1. Cardinality(VU) \in Nat /\ NumFlows \in Nat
      BY RunAssumption, FS_CardinalityType
    <3>2. QED BY <3>1
  <2>3. QED BY <2>1, <2>2 DEF Sound, SharedTypeOK
<1>2. CASE ~ cancelled
  <2>1. doneAtCancel' = completed /\ completed' = completed
    <3>1. CASE \E v \in VU : FlowStep(v)
      BY <1>2, <3>1 DEF FlowStep, EnterIteration, StartFlow, FinishFlow, CountFailed,
         CountThrottled, RecordFlow, LeaveIteration, Merge, ctxVars, CancelRun, counterVars
    <3>2. CASE Interrupt
      BY <1>2, <3>2 DEF Interrupt, CancelRun, counterVars
    <3>3. CASE StopObservers \/ Observe \/ Return
      <4>1. cancelled' = cancelled
        BY <3>3 DEF StopObservers, Observe, TickSnapshot, FinalSnapshot, LoadCompleted,
           LoadFailed, Publish, StopSampler, Return, ctxVars
      <4>2. QED BY <1>2, <4>1
    <3>4. CASE DriverStep
      BY <1>2, <3>4 DEF DriverStep, ctxVars
    <3>5. QED BY <3>1, <3>2, <3>3, <3>4 DEF SharedStep
  <2>2. QED BY <1>1, <2>1
<1>3. CASE cancelled /\ ~ \E v \in VU : FinishFlow(v)
  <2>1. completed' = completed /\ doneAtCancel' = doneAtCancel
    <3>1. CASE \E v \in VU : FlowStep(v)
      BY <1>3, <3>1 DEF FlowStep, EnterIteration, StartFlow, CountFailed,
         CountThrottled, RecordFlow, LeaveIteration, Merge, ctxVars, CancelRun, counterVars
    <3>2. CASE Interrupt \/ StopObservers \/ Observe \/ Return
      BY <1>3, <3>2, LifecycleFrame DEF ctxVars, counterVars, Interrupt
    <3>3. CASE DriverStep
      BY <3>3 DEF DriverStep, ctxVars, counterVars
    <3>4. QED BY <3>1, <3>2, <3>3 DEF SharedStep
  <2>2. \A w \in VU : LetIn(w)' => LetIn(w) /\ PassDone(w)' >= PassDone(w)
    <3>0. \A w \in VU : PassDone(w) \in Int
      BY PassDoneType, RunAssumption DEF Sound
    <3>1. CASE \E v \in VU : FlowStep(v)
      <4>1. PICK v \in VU : FlowStep(v)
        BY <3>1
      <4>2. \A w \in VU \ {v} : PassDone(w)' = PassDone(w) /\ (LetIn(w)' <=> LetIn(w))
        BY <4>1, OnlyOwn DEF LetIn, Sound
      <4>3. LetIn(v)' => LetIn(v) /\ PassDone(v)' = PassDone(v)
        <5>1. CASE \/ LeaveIteration(v, "loop") \/ LeaveIteration(v, "merge")
                   \/ Merge(v)
          <6>1. pc'[v] \in {"loop", "merge", "done"}
            BY <5>1 DEF LeaveIteration, Merge, Goto, Sound, SharedTypeOK
          <6>2. QED BY <6>1 DEF LetIn, InFlight
        <5>2. CASE \/ EnterIteration(v) \/ \E lag \in Int : StartFlow(v, lag)
                   \/ CountFailed(v) \/ CountThrottled(v) \/ RecordFlow(v)
          <6>1. LetIn(v)
            BY <5>2 DEF EnterIteration, StartFlow, CountFailed, CountThrottled,
               RecordFlow, At, LetIn, InFlight
          <6>2. ~ LeaveIteration(v, "loop") /\ ~ LeaveIteration(v, "merge") /\ ~ Merge(v)
            BY <5>2 DEF EnterIteration, StartFlow, CountFailed, CountThrottled,
               RecordFlow, LeaveIteration, Merge, At
          <6>3. PassDone(v)' = PassDone(v)
            BY <1>3, <4>1, <6>2, PassDoneStep
          <6>4. QED BY <6>1, <6>3
        <5>3. QED BY <1>3, <4>1, <5>1, <5>2 DEF FlowStep
      <4>4. QED BY <3>0, <4>2, <4>3
    <3>2. CASE Interrupt \/ StopObservers \/ Observe \/ Return
      BY <3>0, <3>2, LifecycleFrame, SamePlaces DEF LetIn
    <3>3. CASE DriverStep
      <4>1. \A w \in VU : PassDone(w)' = PassDone(w)
        BY <3>3, DriverFrame
      <4>2. \A w \in VU : LetIn(w)' => LetIn(w)
        BY <1>3, <3>3 DEF DriverStep, LetIn, InFlight
      <4>3. QED BY <3>0, <4>1, <4>2
    <3>4. QED BY <3>1, <3>2, <3>3 DEF SharedStep
  <2>3. Owed' \subseteq Owed
    BY <2>2, OwedSubset
  <2>4. Cardinality(Owed') <= Cardinality(Owed)
    BY <1>1, <2>3, FS_Subset
  <2>5. /\ completed - doneAtCancel + Cardinality(Owed) <= NumFlows * Cardinality(VU)
        /\ doneAtCancel <= completed
    BY <1>3 DEF CancelInv
  <2>6. QED BY <1>1, <2>1, <2>4, <2>5
<1>4. CASE cancelled /\ \E v \in VU : FinishFlow(v)
  <2>1. PICK v \in VU : FinishFlow(v)
    BY <1>4
  <2>2. FlowStep(v)
    BY <2>1 DEF FlowStep
  <2>3. completed' = completed + 1 /\ doneAtCancel' = doneAtCancel /\ LetIn(v)
    BY <2>1 DEF FinishFlow, ctxVars, At, LetIn, InFlight
  <2>4. PassDone(v) = cur[v].flow - 1 /\ PassDone(v)' = cur[v].flow
    <3>1. /\ ~ LeaveIteration(v, "loop") /\ ~ LeaveIteration(v, "merge") /\ ~ Merge(v)
          /\ ~ EnterIteration(v) /\ ~ (\E lag \in Int : StartFlow(v, lag))
          /\ ~ CountFailed(v) /\ ~ CountThrottled(v) /\ ~ RecordFlow(v)
      BY <2>1 DEF EnterIteration, StartFlow, FinishFlow, CountFailed, CountThrottled,
         RecordFlow, LeaveIteration, Merge, At
    <3>2. QED BY <2>2, <3>1, PassDoneStep
  <2>5. cur[v].flow \in 1 .. NumFlows /\ NumFlows \in Nat
    BY RunAssumption DEF Sound, SharedTypeOK, Work
  <2>6. \A w \in VU \ {v} : PassDone(w)' = PassDone(w) /\ (LetIn(w)' <=> LetIn(w))
    BY <2>2, OnlyOwn DEF LetIn, Sound
  <2>7. \A w \in VU : LetIn(w)' => LetIn(w) /\ PassDone(w)' >= PassDone(w)
    <3>1. \A w \in VU : PassDone(w) \in Int
      BY PassDoneType, RunAssumption DEF Sound
    <3>2. QED BY <2>3, <2>4, <2>5, <2>6, <3>1
  <2>8. Owed' \subseteq Owed
    BY <2>7, OwedSubset
  <2>9. <<v, cur[v].flow>> \in Owed /\ <<v, cur[v].flow>> \notin Owed'
    BY <2>3, <2>4, <2>5, OwedIs
  <2>10. Owed' \subseteq Owed \ {<<v, cur[v].flow>>}
    BY <2>8, <2>9
  <2>11. /\ IsFiniteSet(Owed \ {<<v, cur[v].flow>>})
         /\ Cardinality(Owed \ {<<v, cur[v].flow>>}) = Cardinality(Owed) - 1
    BY <1>1, <2>9, FS_RemoveElement
  <2>12. Cardinality(Owed') <= Cardinality(Owed) - 1
    BY <2>10, <2>11, FS_Subset
  <2>13. /\ completed - doneAtCancel + Cardinality(Owed) <= NumFlows * Cardinality(VU)
         /\ doneAtCancel <= completed
    BY <1>4 DEF CancelInv
  <2>14. QED BY <1>1, <2>3, <2>12, <2>13
<1>5. QED BY <1>2, <1>3, <1>4

(* What was still owed when the context was cancelled bounds what may      *)
(* complete after it.                                                      *)
LEMMA CancelInvImplies ==
  ASSUME Sound, CancelInv
  PROVE  CancelBoundsWork
<1>1. completed \in Nat /\ doneAtCancel \in Nat
  BY DEF Sound, SharedTypeOK
<1>2. Cardinality(Owed) \in Nat
  BY OwedIs, OwedBound
<1>3. NumFlows * Cardinality(VU) \in Int
  <2>1. Cardinality(VU) \in Nat /\ NumFlows \in Nat
    BY RunAssumption, FS_CardinalityType
  <2>2. QED BY <2>1
<1>4. QED BY <1>1, <1>2, <1>3 DEF CancelInv, CancelBoundsWork

-------------------------------------------------------------------------------
(* The flow-run being counted. *)

(* Two goroutines never count the same flow-run.                           *)
LEMMA OwnNumbers ==
  ASSUME Sound, SampleAtHand, NEW v \in VU, NEW w \in VU \ {v}, Counting(v), Counting(w)
  PROVE  cur[v].n # cur[w].n
<1>1. PICK s \in acc[v].samples : s.n = cur[v].n
  BY DEF SampleAtHand, OwnSample
<1>2. PICK t \in acc[w].samples : t.n = cur[w].n
  BY DEF SampleAtHand, OwnSample
<1>3. s # t
  BY <1>1, <1>2 DEF Sound, RunInv, NoFlowRunLost
<1>4. s \in Held /\ t \in Held
  BY Members
<1>5. QED BY <1>1, <1>2, <1>3, <1>4 DEF Sound, RunInv, NoFlowRunLost

(* The sample at hand is the one of that number.                           *)
LEMMA TheSample ==
  ASSUME Sound, SampleAtHand, NEW v \in VU, Counting(v)
  PROVE  \E s \in Held :
           /\ s.n = cur[v].n
           /\ s.outcome = cur[v].res.outcome /\ s.throttled = cur[v].res.throttled
           /\ \A t \in Held : t.n = cur[v].n => t = s
<1>1. PICK s \in acc[v].samples :
        s.n = cur[v].n /\ s.outcome = cur[v].res.outcome /\ s.throttled = cur[v].res.throttled
  BY DEF SampleAtHand, OwnSample
<1>2. s \in Held
  BY Members
<1>3. QED BY <1>1, <1>2 DEF Sound, RunInv, NoFlowRunLost

LEMMA KeptIs ==
  /\ \A k : k \in KeptTrees <=> k \in merged.traces \/ \E v \in VU : k \in acc[v].traces
  /\ \A k : k \in KeptTrees' <=> k \in merged'.traces \/ \E v \in VU : k \in acc'[v].traces
BY DEF KeptTrees

(* Only a record folds a tree, the one of the flow-run it records, and may *)
(* keep it; what else happens leaves the trees and the budgets alone.      *)
LEMMA TreesStep ==
  ASSUME Sound, SharedStep
  PROVE  \/ UNCHANGED <<Folded, KeptTrees, budgetVars>>
         \/ \E v \in VU : \E kept \in BOOLEAN :
              /\ RecordFlow(v)
              /\ KeepTrace(cur[v].res.outcome, kept)
              /\ Folded' = Folded \cup {cur[v].n}
              /\ KeptTrees' = IF kept THEN KeptTrees \cup {cur[v].n} ELSE KeptTrees
<1> DEFINE Same == UNCHANGED <<Folded, KeptTrees, budgetVars>>
<1>1. CASE \E v \in VU : FlowStep(v)
  <2>1. PICK v \in VU : FlowStep(v)
    BY <1>1
  <2>2. CASE RecordFlow(v)
    <3>1. PICK kept \in BOOLEAN : /\ KeepTrace(cur[v].res.outcome, kept)
                                  /\ acc' = [acc EXCEPT ![v] = AddTree(@, cur[v].n, kept)]
      BY <2>2 DEF RecordFlow
    <3>2. \A w \in VU :
            /\ acc'[w].folded = IF w = v THEN acc[v].folded \cup {cur[v].n}
                                         ELSE acc[w].folded
            /\ acc'[w].traces = IF w = v /\ kept THEN acc[v].traces \cup {cur[v].n}
                                                   ELSE acc[w].traces
      BY <3>1 DEF Sound, SharedTypeOK, AddTree
    <3>3. merged' = merged
      BY <2>2 DEF RecordFlow
    <3>4. \A k : k \in Folded' <=> k \in Folded \cup {cur[v].n}
      BY <3>2, <3>3, Members
    <3>5. \A k : k \in KeptTrees' <=> k \in IF kept THEN KeptTrees \cup {cur[v].n} ELSE KeptTrees
      BY <3>2, <3>3, KeptIs
    <3>6. /\ Folded' = Folded \cup {cur[v].n}
          /\ KeptTrees' = IF kept THEN KeptTrees \cup {cur[v].n} ELSE KeptTrees
      BY <3>4, <3>5
    <3>7. QED BY <2>2, <3>1, <3>6
  <2>3. CASE Merge(v)
    <3>1. /\ merged'.folded = merged.folded \cup acc[v].folded
          /\ merged'.traces = merged.traces \cup acc[v].traces
      BY <2>3 DEF Merge, Joint
    <3>2. \A w \in VU : /\ acc'[w].folded = IF w = v THEN {} ELSE acc[w].folded
                        /\ acc'[w].traces = IF w = v THEN {} ELSE acc[w].traces
      BY <2>3 DEF Merge, Sound, SharedTypeOK, NewAcc
    <3>3. \A k : (k \in Folded' <=> k \in Folded) /\ (k \in KeptTrees' <=> k \in KeptTrees)
      BY <3>1, <3>2, Members, KeptIs
    <3>4. Folded' = Folded /\ KeptTrees' = KeptTrees
      BY <3>3
    <3>5. QED BY <2>3, <3>4 DEF Merge
  <2>4. CASE FinishFlow(v)
    <3>1. PICK s : acc' = [acc EXCEPT ![v] = AddSample(@, s)]
      BY <2>4, Finished1
    <3>2. \A w \in VU : acc'[w].folded = acc[w].folded /\ acc'[w].traces = acc[w].traces
      BY <3>1 DEF Sound, SharedTypeOK, AddSample
    <3>3. UNCHANGED <<merged, budgetVars>>
      BY <2>4 DEF FinishFlow
    <3>4. QED BY <3>2, <3>3 DEF Folded, KeptTrees
  <2>5. CASE LeaveIteration(v, "loop") \/ LeaveIteration(v, "merge")
    <3>1. acc' = [acc EXCEPT ![v] = AddPass(@)] /\ UNCHANGED <<merged, budgetVars>>
      BY <2>5 DEF LeaveIteration
    <3>2. \A w \in VU : acc'[w].folded = acc[w].folded /\ acc'[w].traces = acc[w].traces
      BY <3>1 DEF Sound, SharedTypeOK, AddPass
    <3>3. QED BY <3>1, <3>2 DEF Folded, KeptTrees
  <2>6. CASE \/ EnterIteration(v) \/ \E lag \in Int : StartFlow(v, lag)
             \/ CountFailed(v) \/ CountThrottled(v)
    BY <2>6 DEF EnterIteration, StartFlow, CountFailed, CountThrottled, Folded, KeptTrees
  <2>7. QED BY <2>1, <2>2, <2>3, <2>4, <2>5, <2>6 DEF FlowStep
<1>2. CASE Interrupt \/ StopObservers \/ Observe \/ Return
  BY <1>2, LifecycleFrame DEF Folded, KeptTrees
<1>3. CASE DriverStep
  BY <1>3 DEF DriverStep, Folded, KeptTrees
<1>4. QED BY <1>1, <1>2, <1>3 DEF SharedStep

LEMMA FoldedStep ==
  ASSUME Sound, SharedStep
  PROVE  \/ Folded' = Folded
         \/ \E v \in VU : RecordFlow(v) /\ Folded' = Folded \cup {cur[v].n}
BY TreesStep

(* Who is counting after a step was counting the same flow-run before, or  *)
(* has just finished one.                                                  *)
LEMMA CountingStep ==
  ASSUME Sound, SharedStep, NEW w \in VU, Counting(w)'
  PROVE  \/ /\ Counting(w) /\ cur'[w] = cur[w] /\ acc'[w].samples = acc[w].samples
            /\ ~ RecordFlow(w)
         \/ FinishFlow(w)
<1>1. CASE \E v \in VU : FlowStep(v)
  <2>1. PICK v \in VU : FlowStep(v)
    BY <1>1
  <2>2. CASE w # v
    <3>1. ~ RecordFlow(w) \/ Counting(w)' = FALSE
      BY DEF RecordFlow, Goto, Counting, Sound, SharedTypeOK
    <3>2. QED BY <2>1, <2>2, <3>1, OnlyOwn DEF Sound
  <2>3. CASE w = v
    <3>1. CASE CountFailed(v) \/ CountThrottled(v)
      <4>1. UNCHANGED <<cur, acc>> /\ Counting(v)
        BY <3>1 DEF CountFailed, CountThrottled, At, Counting
      <4>2. ~ RecordFlow(v)
        BY <3>1 DEF CountFailed, CountThrottled, RecordFlow, At
      <4>3. QED BY <2>3, <4>1, <4>2
    <3>2. CASE FinishFlow(v)
      BY <2>3, <3>2
    <3>3. CASE \/ EnterIteration(v) \/ \E lag \in Int : StartFlow(v, lag)
               \/ RecordFlow(v)
               \/ LeaveIteration(v, "loop") \/ LeaveIteration(v, "merge") \/ Merge(v)
      <4>1. pc'[v] \in {"draw", "running", "leave", "loop", "merge", "done"}
        BY <3>3 DEF EnterIteration, StartFlow, RecordFlow, LeaveIteration, Merge, Goto,
           Sound, SharedTypeOK
      <4>2. QED BY <2>3, <4>1 DEF Counting
    <3>4. QED BY <2>1, <3>1, <3>2, <3>3 DEF FlowStep
  <2>4. QED BY <2>2, <2>3
<1>2. CASE Interrupt \/ StopObservers \/ Observe \/ Return
  <2>1. UNCHANGED <<pc, cur, acc>>
    BY <1>2, LifecycleFrame
  <2>2. ~ RecordFlow(w)
    BY <2>1 DEF RecordFlow, Goto, At, Counting, Sound, SharedTypeOK
  <2>3. QED BY <2>1, <2>2, SamePlaces
<1>3. CASE DriverStep
  <2>1. Counting(w) /\ cur'[w] = cur[w] /\ acc' = acc
    BY <1>3, DriverFrame DEF DriverStep
  <2>2. ~ RecordFlow(w)
    BY DEF RecordFlow, Goto, Counting, Sound, SharedTypeOK
  <2>3. QED BY <2>1, <2>2
<1>4. QED BY <1>1, <1>2, <1>3 DEF SharedStep

LEMMA SampleAtHandKept ==
  ASSUME Sound, SampleAtHand, SharedStep
  PROVE  SampleAtHand'
<1>1. SUFFICES ASSUME NEW w \in VU, Counting(w)'
               PROVE  /\ \E s \in acc'[w].samples :
                           /\ s.n = cur'[w].n /\ s.outcome = cur'[w].res.outcome
                           /\ s.throttled = cur'[w].res.throttled
                      /\ cur'[w].n \notin Folded'
  BY DEF SampleAtHand, OwnSample
<1>2. CASE FinishFlow(w)
  <2>1. PICK r \in FlowResults : \E s \in Samples \ Held :
           /\ s = SampleOf(w, completed + 1, r)
           /\ cur' = [cur EXCEPT ![w] = Back(@, completed + 1, r)]
           /\ acc' = [acc EXCEPT ![w] = AddSample(@, s)]
    BY <1>2, Finished1
  <2> DEFINE s == SampleOf(w, completed + 1, r)
  <2>2. /\ acc'[w].samples = acc[w].samples \cup {s}
        /\ cur'[w].n = completed + 1 /\ cur'[w].res = r
    <3>1. /\ cur' = [cur EXCEPT ![w] = Back(@, completed + 1, r)]
          /\ acc' = [acc EXCEPT ![w] = AddSample(@, s)]
      BY <2>1
    <3> HIDE DEF s
    <3>2. QED BY <3>1 DEF Sound, SharedTypeOK, AddSample, Back
  <2>3. s.n = completed + 1 /\ s.outcome = r.outcome /\ s.throttled = r.throttled
    BY DEF SampleOf
  <2>4. Folded' = Folded
    <3>1. ~ \E v \in VU : RecordFlow(v)
      <4>1. completed' = completed + 1 /\ completed \in Nat
        BY <1>2 DEF FinishFlow, Sound, SharedTypeOK
      <4>2. completed' # completed
        BY <4>1
      <4>3. QED BY <4>2 DEF RecordFlow, counterVars
    <3>2. QED BY <3>1, FoldedStep
  <2>5. Folded \subseteq 1 .. completed /\ completed \in Nat
    BY DEF Sound, SharedTypeOK, RunInv, FoldedOrCounting
  <2>6. completed + 1 \notin Folded
    BY <2>5
  <2>7. QED BY <2>2, <2>3, <2>4, <2>6
<1>3. CASE /\ Counting(w) /\ cur'[w] = cur[w] /\ acc'[w].samples = acc[w].samples
           /\ ~ RecordFlow(w)
  <2>1. PICK s \in acc[w].samples : s.n = cur[w].n /\ s.outcome = cur[w].res.outcome
                                      /\ s.throttled = cur[w].res.throttled
    BY <1>3 DEF SampleAtHand, OwnSample
  <2>2. cur[w].n \notin Folded
    BY <1>3 DEF SampleAtHand
  <2>3. ASSUME NEW v \in VU, RecordFlow(v)
        PROVE  cur[v].n # cur[w].n
    <3>1. v # w /\ Counting(v)
      BY <1>3, <2>3 DEF RecordFlow, At, Counting
    <3>2. QED BY <1>3, <3>1, OwnNumbers
  <2>4. cur[w].n \notin Folded'
    BY <2>2, <2>3, FoldedStep
  <2>5. QED BY <1>3, <2>1, <2>4
<1>4. QED BY <1>1, <1>2, <1>3, CountingStep

-------------------------------------------------------------------------------
(* The live counters and the snapshots of them. *)

LEMMA CountedIs ==
  /\ \A s : s \in CountedFailures <=>
       s \in Held /\ s.outcome = "failed" /\ ~ Uncounted(s, {"failed"})
  /\ \A s : s \in CountedFailures' <=>
       s \in Held' /\ s.outcome = "failed" /\ ~ Uncounted(s, {"failed"})'
  /\ \A s : s \in CountedThrottles <=>
       s \in Held /\ s.throttled /\ ~ Uncounted(s, {"failed", "throttled"})
  /\ \A s : s \in CountedThrottles' <=>
       s \in Held' /\ s.throttled /\ ~ Uncounted(s, {"failed", "throttled"})'
BY DEF CountedFailures, CountedThrottles, Failures, Throttles

LEMMA UncountedIs ==
  ASSUME NEW s, NEW steps
  PROVE  /\ Uncounted(s, steps) <=> \E v \in VU : pc[v] \in steps /\ cur[v].n = s.n
         /\ Uncounted(s, steps)' <=> \E v \in VU : pc'[v] \in steps /\ cur'[v].n = s.n
BY DEF Uncounted

(* A step after which the same goroutines have still to bump a counter     *)
(* counts nothing.                                                         *)
LEMMA SameUncounted ==
  ASSUME NEW steps,
         \A w \in VU : /\ pc'[w] \in steps <=> pc[w] \in steps
                       /\ pc[w] \in steps => cur'[w].n = cur[w].n
  PROVE  \A s : Uncounted(s, steps)' <=> Uncounted(s, steps)
BY UncountedIs

(* Finishing a flow-run adds one that has still to be counted.             *)
LEMMA FinishUncounted ==
  ASSUME Sound, NEW v \in VU, FinishFlow(v),
         NEW steps, "failed" \in steps, "running" \notin steps
  PROVE  \E s \in Held' \ Held :
           /\ Held' = Held \cup {s} /\ Uncounted(s, steps)'
           /\ \A t \in Held : Uncounted(t, steps)' <=> Uncounted(t, steps)
<1>1. PICK r \in FlowResults, s \in Samples \ Held :
         /\ s = SampleOf(v, completed + 1, r)
         /\ cur' = [cur EXCEPT ![v] = Back(@, completed + 1, r)]
         /\ Held' = Held \cup {s} /\ \A t \in Held : t.n # s.n
  BY Finished1
<1>2. cur'[v].n = completed + 1 /\ \A w \in VU \ {v} : cur'[w] = cur[w]
  BY <1>1 DEF Sound, SharedTypeOK, Back
<1>3. pc[v] = "running" /\ pc'[v] = "failed" /\ \A w \in VU \ {v} : pc'[w] = pc[w]
  BY DEF FinishFlow, At, Goto, Sound, SharedTypeOK
<1>4. s.n = completed + 1
  BY <1>1 DEF SampleOf
<1>5. Uncounted(s, steps)'
  BY <1>2, <1>3, <1>4, UncountedIs
<1>6. \A t \in Held : Uncounted(t, steps)' <=> Uncounted(t, steps)
  BY <1>1, <1>2, <1>3, <1>4, UncountedIs
<1>7. s \in Held' \ Held
  BY <1>1
<1>8. QED BY <1>1, <1>5, <1>6, <1>7

(* A goroutine that goes past the steps before a counter has bumped it for *)
(* its own flow-run, and for no other.                                     *)
LEMMA BumpUncounted ==
  ASSUME Sound, SampleAtHand, NEW v \in VU,
         NEW steps \in SUBSET {"failed", "throttled"},
         pc[v] \in steps, pc'[v] \notin steps, UNCHANGED cur,
         \A w \in VU \ {v} : pc'[w] = pc[w]
  PROVE  \E s \in Held :
           /\ s.outcome = cur[v].res.outcome /\ s.throttled = cur[v].res.throttled
           /\ Uncounted(s, steps) /\ ~ Uncounted(s, steps)'
           /\ \A t \in Held \ {s} : Uncounted(t, steps)' <=> Uncounted(t, steps)
<1>1. Counting(v) /\ \A w \in VU : pc[w] \in steps => Counting(w)
  BY DEF Counting
<1>2. PICK s \in Held :
         /\ s.n = cur[v].n
         /\ s.outcome = cur[v].res.outcome /\ s.throttled = cur[v].res.throttled
         /\ \A t \in Held : t.n = cur[v].n => t = s
  BY <1>1, TheSample
<1>3. Uncounted(s, steps)
  BY <1>2, UncountedIs
<1>4. ~ Uncounted(s, steps)'
  <2>1. \A w \in VU \ {v} : pc[w] \in steps => cur[w].n # cur[v].n
    BY <1>1, OwnNumbers
  <2>2. QED BY <1>2, <2>1, UncountedIs
<1>5. \A t \in Held \ {s} : Uncounted(t, steps)' <=> Uncounted(t, steps)
  BY <1>2, UncountedIs
<1>6. QED BY <1>2, <1>3, <1>4, <1>5

LEMMA FailedCountedFrame ==
  ASSUME Sound, SharedStep, ~ \E v \in VU : FinishFlow(v), ~ \E v \in VU : CountFailed(v)
  PROVE  /\ failed' = failed
         /\ \A w \in VU : /\ pc'[w] \in {"failed"} <=> pc[w] \in {"failed"}
                          /\ pc[w] \in {"failed"} => cur'[w].n = cur[w].n
<1>1. CASE \E v \in VU : FlowStep(v)
  <2>1. PICK v \in VU : FlowStep(v)
    BY <1>1
  <2>2. failed' = failed
    BY <2>1 DEF FlowStep, EnterIteration, StartFlow, CountThrottled, RecordFlow,
       LeaveIteration, Merge, counterVars
  <2>3. pc[v] # "failed"
    BY <2>1 DEF FlowStep, EnterIteration, StartFlow, CountThrottled, RecordFlow,
       LeaveIteration, Merge, At
  <2>4. pc[v] # "failed" /\ pc'[v] # "failed"
    <3>1. pc'[v] \in {"draw", "running", "record", "leave", "loop", "merge", "done"}
      BY <2>1 DEF FlowStep, EnterIteration, StartFlow, CountThrottled, RecordFlow,
         LeaveIteration, Merge, Goto, Sound, SharedTypeOK
    <3>2. QED BY <2>3, <3>1
  <2>5. QED BY <2>1, <2>2, <2>4, OnlyOwn DEF Sound
<1>2. CASE Interrupt \/ StopObservers \/ Observe \/ Return
  BY <1>2, LifecycleFrame DEF counterVars
<1>3. CASE DriverStep
  BY <1>3 DEF DriverStep, counterVars
<1>4. QED BY <1>1, <1>2, <1>3 DEF SharedStep

LEMMA FailedCounted ==
  ASSUME Sound, SampleAtHand, failed = Cardinality(CountedFailures), SharedStep
  PROVE  failed' = Cardinality(CountedFailures')
<1> DEFINE steps == {"failed"}
<1>1. CASE \E v \in VU : FinishFlow(v)
  <2>1. PICK v \in VU : FinishFlow(v)
    BY <1>1
  <2>2. PICK s \in Held' \ Held :
           /\ Held' = Held \cup {s} /\ Uncounted(s, steps)'
           /\ \A t \in Held : Uncounted(t, steps)' <=> Uncounted(t, steps)
    BY <2>1, FinishUncounted
  <2>3. \A t : t \in CountedFailures' <=> t \in CountedFailures
    BY <2>2, CountedIs
  <2>4. CountedFailures' = CountedFailures
    BY <2>3
  <2>5. failed' = failed
    BY <2>1 DEF FinishFlow
  <2>6. QED BY <2>4, <2>5
<1>2. CASE \E v \in VU : CountFailed(v)
  <2>1. PICK v \in VU : CountFailed(v)
    BY <1>2
  <2>2. /\ pc[v] \in steps /\ pc'[v] \notin steps
        /\ UNCHANGED <<cur, acc, merged>> /\ \A w \in VU \ {v} : pc'[w] = pc[w]
        /\ failed' = IF cur[v].res.outcome = "failed" THEN failed + 1 ELSE failed
    BY <2>1 DEF CountFailed, At, Goto, Sound, SharedTypeOK
  <2>3. PICK s \in Held :
           /\ s.outcome = cur[v].res.outcome /\ s.throttled = cur[v].res.throttled
           /\ Uncounted(s, steps) /\ ~ Uncounted(s, steps)'
           /\ \A t \in Held \ {s} : Uncounted(t, steps)' <=> Uncounted(t, steps)
    BY <2>2, BumpUncounted
  <2>4. Held' = Held
    BY <2>2 DEF Held
  <2>5. CASE cur[v].res.outcome = "failed"
    <3>1. \A t : t \in CountedFailures' <=> t \in CountedFailures \cup {s}
      BY <2>3, <2>4, <2>5, CountedIs
    <3>2. CountedFailures' = CountedFailures \cup {s} /\ s \notin CountedFailures
      BY <2>3, <3>1, CountedIs
    <3>3. IsFiniteSet(CountedFailures)
      BY HeldCount, FS_Subset, CountedIs
    <3>4. Cardinality(CountedFailures \cup {s}) = Cardinality(CountedFailures) + 1
      BY <3>2, <3>3, FS_AddElement
    <3>5. QED BY <2>2, <2>5, <3>2, <3>4
  <2>6. CASE ~ (cur[v].res.outcome = "failed")
    <3>1. \A t : t \in CountedFailures' <=> t \in CountedFailures
      BY <2>3, <2>4, <2>6, CountedIs
    <3>2. CountedFailures' = CountedFailures
      BY <3>1
    <3>3. QED BY <2>2, <2>6, <3>2
  <2>7. QED BY <2>5, <2>6
<1>3. CASE ~ (\E v \in VU : FinishFlow(v)) /\ ~ \E v \in VU : CountFailed(v)
  <2>1. Held' = Held
    BY <1>3, HeldKept
  <2>2. /\ failed' = failed
        /\ \A w \in VU : /\ pc'[w] \in steps <=> pc[w] \in steps
                         /\ pc[w] \in steps => cur'[w].n = cur[w].n
    BY <1>3, FailedCountedFrame
  <2>3. \A s : Uncounted(s, steps)' <=> Uncounted(s, steps)
    BY <2>2, SameUncounted
  <2>4. \A t : t \in CountedFailures' <=> t \in CountedFailures
    BY <2>1, <2>3, CountedIs
  <2>5. CountedFailures' = CountedFailures
    BY <2>4
  <2>6. QED BY <2>2, <2>5
<1>4. QED BY <1>1, <1>2, <1>3

LEMMA ThrottledCountedFrame ==
  ASSUME Sound, SharedStep, ~ \E v \in VU : FinishFlow(v), ~ \E v \in VU : CountThrottled(v)
  PROVE  /\ throttled' = throttled
         /\ \A w \in VU : /\ pc'[w] \in {"failed", "throttled"} <=> pc[w] \in {"failed", "throttled"}
                          /\ pc[w] \in {"failed", "throttled"} => cur'[w].n = cur[w].n
<1>1. CASE \E v \in VU : FlowStep(v)
  <2>1. PICK v \in VU : FlowStep(v)
    BY <1>1
  <2>2. throttled' = throttled
    BY <2>1 DEF FlowStep, EnterIteration, StartFlow, CountFailed, RecordFlow,
       LeaveIteration, Merge, counterVars
  <2>4. \/ pc[v] = "failed" /\ pc'[v] = "throttled" /\ cur' = cur
        \/ pc[v] \notin {"failed", "throttled"} /\ pc'[v] \notin {"failed", "throttled"}
    <3>1. CASE CountFailed(v)
      BY <3>1 DEF CountFailed, At, Goto, Sound, SharedTypeOK
    <3>2. CASE ~ CountFailed(v)
      <4>1. pc[v] \notin {"failed", "throttled"}
        BY <2>1, <3>2 DEF FlowStep, EnterIteration, StartFlow, RecordFlow, LeaveIteration,
           Merge, At
      <4>2. pc'[v] \in {"draw", "running", "leave", "loop", "merge", "done"}
        BY <2>1, <3>2 DEF FlowStep, EnterIteration, StartFlow, RecordFlow, LeaveIteration,
           Merge, Goto, Sound, SharedTypeOK
      <4>3. QED BY <4>1, <4>2
    <3>3. QED BY <3>1, <3>2
  <2>5. QED BY <2>1, <2>2, <2>4, OnlyOwn DEF Sound
<1>2. CASE Interrupt \/ StopObservers \/ Observe \/ Return
  BY <1>2, LifecycleFrame DEF counterVars
<1>3. CASE DriverStep
  BY <1>3 DEF DriverStep, counterVars
<1>4. QED BY <1>1, <1>2, <1>3 DEF SharedStep

LEMMA ThrottledCounted ==
  ASSUME Sound, SampleAtHand, throttled = Cardinality(CountedThrottles), SharedStep
  PROVE  throttled' = Cardinality(CountedThrottles')
<1> DEFINE steps == {"failed", "throttled"}
<1>1. CASE \E v \in VU : FinishFlow(v)
  <2>1. PICK v \in VU : FinishFlow(v)
    BY <1>1
  <2>2. PICK s \in Held' \ Held :
           /\ Held' = Held \cup {s} /\ Uncounted(s, steps)'
           /\ \A t \in Held : Uncounted(t, steps)' <=> Uncounted(t, steps)
    BY <2>1, FinishUncounted
  <2>3. \A t : t \in CountedThrottles' <=> t \in CountedThrottles
    BY <2>2, CountedIs
  <2>4. CountedThrottles' = CountedThrottles
    BY <2>3
  <2>5. throttled' = throttled
    BY <2>1 DEF FinishFlow
  <2>6. QED BY <2>4, <2>5
<1>2. CASE \E v \in VU : CountThrottled(v)
  <2>1. PICK v \in VU : CountThrottled(v)
    BY <1>2
  <2>2. /\ pc[v] \in steps /\ pc'[v] \notin steps
        /\ UNCHANGED <<cur, acc, merged>> /\ \A w \in VU \ {v} : pc'[w] = pc[w]
        /\ throttled' = IF cur[v].res.throttled THEN throttled + 1 ELSE throttled
    BY <2>1 DEF CountThrottled, At, Goto, Sound, SharedTypeOK
  <2>3. PICK s \in Held :
           /\ s.outcome = cur[v].res.outcome /\ s.throttled = cur[v].res.throttled
           /\ Uncounted(s, steps) /\ ~ Uncounted(s, steps)'
           /\ \A t \in Held \ {s} : Uncounted(t, steps)' <=> Uncounted(t, steps)
    BY <2>2, BumpUncounted
  <2>4. Held' = Held
    BY <2>2 DEF Held
  <2>5. CASE cur[v].res.throttled
    <3>1. \A t : t \in CountedThrottles' <=> t \in CountedThrottles \cup {s}
      BY <2>3, <2>4, <2>5, CountedIs
    <3>2. CountedThrottles' = CountedThrottles \cup {s} /\ s \notin CountedThrottles
      BY <2>3, <3>1, CountedIs
    <3>3. IsFiniteSet(CountedThrottles)
      BY HeldCount, FS_Subset, CountedIs
    <3>4. Cardinality(CountedThrottles \cup {s}) = Cardinality(CountedThrottles) + 1
      BY <3>2, <3>3, FS_AddElement
    <3>5. QED BY <2>2, <2>5, <3>2, <3>4
  <2>6. CASE ~ (cur[v].res.throttled)
    <3>1. \A t : t \in CountedThrottles' <=> t \in CountedThrottles
      BY <2>3, <2>4, <2>6, CountedIs
    <3>2. CountedThrottles' = CountedThrottles
      BY <3>1
    <3>3. QED BY <2>2, <2>6, <3>2
  <2>7. QED BY <2>5, <2>6
<1>3. CASE ~ (\E v \in VU : FinishFlow(v)) /\ ~ \E v \in VU : CountThrottled(v)
  <2>1. Held' = Held
    BY <1>3, HeldKept
  <2>2. /\ throttled' = throttled
        /\ \A w \in VU : /\ pc'[w] \in steps <=> pc[w] \in steps
                         /\ pc[w] \in steps => cur'[w].n = cur[w].n
    BY <1>3, ThrottledCountedFrame
  <2>3. \A s : Uncounted(s, steps)' <=> Uncounted(s, steps)
    BY <2>2, SameUncounted
  <2>4. \A t : t \in CountedThrottles' <=> t \in CountedThrottles
    BY <2>1, <2>3, CountedIs
  <2>5. CountedThrottles' = CountedThrottles
    BY <2>4
  <2>6. QED BY <2>2, <2>5
<1>4. QED BY <1>1, <1>2, <1>3

(* The counters only grow, and only while a goroutine is there.            *)
LEMMA CountersGrow ==
  ASSUME Sound, SharedStep
  PROVE  /\ completed' >= completed /\ failed' >= failed /\ throttled' >= throttled
         /\ main \in {"stopping", "returned"} => UNCHANGED counterVars
<1>1. completed \in Nat /\ failed \in Nat /\ throttled \in Nat
  BY DEF Sound, SharedTypeOK
<1>2. CASE \E v \in VU : FlowStep(v)
  <2>1. PICK v \in VU : FlowStep(v)
    BY <1>2
  <2>2. /\ completed' \in {completed, completed + 1}
        /\ failed' \in {failed, failed + 1}
        /\ throttled' \in {throttled, throttled + 1}
    BY <2>1 DEF FlowStep, EnterIteration, StartFlow, FinishFlow, CountFailed,
       CountThrottled, RecordFlow, LeaveIteration, Merge, counterVars
  <2>3. pc[v] \notin {"unborn", "done"}
    BY <2>1 DEF FlowStep, EnterIteration, StartFlow, FinishFlow, CountFailed,
       CountThrottled, RecordFlow, LeaveIteration, Merge, At
  <2>4. main \notin {"stopping", "returned"}
    BY <2>3, AtWork DEF Sound, RunInv
  <2>5. QED BY <1>1, <2>2, <2>4
<1>3. CASE Interrupt \/ StopObservers \/ Observe \/ Return
  BY <1>1, <1>3, LifecycleFrame DEF counterVars
<1>4. CASE DriverStep
  BY <1>1, <1>4 DEF DriverStep, counterVars
<1>5. QED BY <1>2, <1>3, <1>4 DEF SharedStep

(* The observers' steps, and what the others leave alone of them.          *)
LEMMA ObserverFrame ==
  ASSUME Sound, SharedStep
  PROVE  \/ UNCHANGED <<prog, reading, published>>
         \/ TickSnapshot
         \/ FinalSnapshot
         \/ LoadFailed
         \/ Publish
<1>1. CASE \E v \in VU : FlowStep(v)
  BY <1>1 DEF FlowStep, EnterIteration, StartFlow, FinishFlow, CountFailed,
     CountThrottled, RecordFlow, LeaveIteration, Merge, watchVars
<1>2. CASE Interrupt \/ StopObservers \/ Return
  BY <1>2 DEF Interrupt, StopObservers, Return, watchVars
<1>3. CASE Observe
  BY <1>3 DEF Observe, StopSampler
<1>4. CASE DriverStep
  BY <1>4 DEF DriverStep, watchVars
<1>5. QED BY <1>1, <1>2, <1>3, <1>4 DEF SharedStep

(* Run goes on from stopping to returned, and only Return takes it there.  *)
LEMMA MainStep ==
  ASSUME Sound, SharedStep
  PROVE  /\ main = "stopping" => main' \in {"stopping", "returned"}
         /\ main = "returned" => main' = "returned"
         /\ main' = "returned" => main = "returned" \/ Return
<1>1. CASE \E v \in VU : FlowStep(v)
  BY <1>1 DEF FlowStep, EnterIteration, StartFlow, FinishFlow, CountFailed,
     CountThrottled, RecordFlow, LeaveIteration, Merge
<1>2. CASE Interrupt \/ StopObservers \/ Observe \/ Return
  BY <1>2 DEF Interrupt, StopObservers, Observe, TickSnapshot, FinalSnapshot,
     LoadCompleted, LoadFailed, Publish, StopSampler, Return
<1>3. CASE DriverStep
  BY <1>3 DEF DriverStep
<1>4. QED BY <1>1, <1>2, <1>3 DEF SharedStep

LEMMA SnapshotType ==
  ASSUME Sound
  PROVE  /\ completed \in Int /\ failed \in Int /\ throttled \in Int
         /\ published.completed \in Int /\ published.failed \in Int
         /\ published.throttled \in Int
         /\ reading.completed \in Int /\ reading.failed \in Int
         /\ DOMAIN published = {"completed", "failed", "throttled"}
<1>1. completed \in Nat /\ failed \in Nat /\ throttled \in Nat
  BY DEF Sound, SharedTypeOK
<1>2. published \in Counts /\ reading \in Counts
  BY DEF Sound, SharedTypeOK
<1>3. /\ published.completed \in Nat /\ published.failed \in Nat
      /\ published.throttled \in Nat
      /\ reading.completed \in Nat /\ reading.failed \in Nat
  BY <1>2 DEF Counts
<1>4. DOMAIN published = {"completed", "failed", "throttled"}
  BY <1>2 DEF Counts
<1>5. QED BY <1>1, <1>3, <1>4

LEMMA SnapshotsInOrderKept ==
  ASSUME Sound, SharedTypeOK', SnapshotsInOrder, SharedStep
  PROVE  SnapshotsInOrder'
<1>1. /\ completed \in Int /\ failed \in Int /\ throttled \in Int
      /\ completed' \in Int /\ failed' \in Int /\ throttled' \in Int
      /\ published.completed \in Int /\ published.failed \in Int /\ published.throttled \in Int
      /\ reading.completed \in Int /\ reading.failed \in Int
  <2>1. completed' \in Nat /\ failed' \in Nat /\ throttled' \in Nat
    BY DEF SharedTypeOK
  <2>2. QED BY <2>1, SnapshotType
<1>2. completed' >= completed /\ failed' >= failed /\ throttled' >= throttled
  BY CountersGrow
<1>3. CASE UNCHANGED <<prog, reading, published>>
  <2>1. /\ published'.completed <= completed'
        /\ published'.failed <= failed'
        /\ published'.throttled <= throttled'
    BY <1>1, <1>2, <1>3 DEF SnapshotsInOrder
  <2>2. prog' \notin {"idle", "done"} =>
          published'.completed <= reading'.completed /\ reading'.completed <= completed'
    BY <1>1, <1>2, <1>3 DEF SnapshotsInOrder
  <2>3. prog' \in {"throttled", "last_throttled"} =>
          published'.failed <= reading'.failed /\ reading'.failed <= failed'
    BY <1>1, <1>2, <1>3 DEF SnapshotsInOrder
  <2>4. QED BY <2>1, <2>2, <2>3 DEF SnapshotsInOrder
<1>4. CASE TickSnapshot \/ FinalSnapshot
  <2>1. /\ reading'.completed = completed /\ published' = published
        /\ completed' = completed /\ failed' = failed /\ throttled' = throttled
        /\ prog' \in {"failed", "last_failed"}
    <3>1. /\ reading' = [completed |-> completed, failed |-> 0, throttled |-> 0]
          /\ UNCHANGED <<published, counterVars>> /\ prog' \in {"failed", "last_failed"}
      BY <1>4 DEF TickSnapshot, FinalSnapshot, LoadCompleted
    <3>2. QED BY <3>1 DEF counterVars
  <2>2. QED BY <1>1, <2>1 DEF SnapshotsInOrder
<1>5. CASE LoadFailed
  <2>1. /\ reading'.completed = reading.completed /\ reading'.failed = failed
        /\ prog \in {"failed", "last_failed"} /\ published' = published
        /\ completed' = completed /\ failed' = failed /\ throttled' = throttled
    BY <1>5 DEF LoadFailed, counterVars
  <2>2. QED BY <1>1, <2>1 DEF SnapshotsInOrder
<1>6. CASE Publish
  <2>1. /\ published'.completed = reading.completed /\ published'.failed = reading.failed
        /\ published'.throttled = throttled
        /\ prog \in {"throttled", "last_throttled"} /\ prog' \in {"idle", "done"}
        /\ completed' = completed /\ failed' = failed /\ throttled' = throttled
    BY <1>6 DEF Publish, counterVars
  <2>2. QED BY <1>1, <2>1 DEF SnapshotsInOrder
<1>7. QED BY <1>3, <1>4, <1>5, <1>6, ObserverFrame

LEMMA LastSnapshotWholeKept ==
  ASSUME Sound, LastSnapshotWhole, SharedStep
  PROVE  LastSnapshotWhole'
<1>1. main \in {"stopping", "returned"} =>
        completed' = completed /\ failed' = failed /\ throttled' = throttled
  BY CountersGrow DEF counterVars
<1>2. main' = "returned" => prog = "done"
  <2>1. Return => prog = "done"
    BY DEF Return
  <2>2. QED BY <2>1, MainStep DEF LastSnapshotWhole
<1>3. main = "stopping" /\ prog # "done" => main' = "stopping"
  BY <1>2, MainStep
<1>4. CASE UNCHANGED <<prog, reading, published>>
  BY <1>1, <1>2, <1>3, <1>4, MainStep DEF LastSnapshotWhole
<1>5. CASE TickSnapshot
  <2>1. prog = "idle" /\ prog' = "failed" /\ main' = main
    BY <1>5 DEF TickSnapshot, LoadCompleted
  <2>2. QED BY <1>2, <2>1 DEF LastSnapshotWhole
<1>6. CASE FinalSnapshot
  <2>1. /\ main = "stopping" /\ main' = main /\ prog' = "last_failed" /\ prog = "idle"
        /\ reading'.completed = completed /\ completed' = completed
    BY <1>6 DEF FinalSnapshot, LoadCompleted, counterVars
  <2>2. QED BY <2>1 DEF LastSnapshotWhole
<1>7. CASE LoadFailed
  <2>1. /\ main' = main /\ reading'.completed = reading.completed /\ reading'.failed = failed
        /\ completed' = completed /\ failed' = failed
        /\ \/ prog = "failed" /\ prog' = "throttled"
           \/ prog = "last_failed" /\ prog' = "last_throttled"
    BY <1>7 DEF LoadFailed, counterVars
  <2>2. QED BY <1>2, <2>1 DEF LastSnapshotWhole
<1>8. CASE Publish
  <2>1. /\ main' = main
        /\ published' = [completed |-> reading.completed, failed |-> reading.failed,
                         throttled |-> throttled]
        /\ completed' = completed /\ failed' = failed /\ throttled' = throttled
        /\ \/ prog = "throttled" /\ prog' = "idle"
           \/ prog = "last_throttled" /\ prog' = "done"
    BY <1>8 DEF Publish, counterVars
  <2>2. QED BY <1>2, <2>1 DEF LastSnapshotWhole
<1>9. QED BY <1>4, <1>5, <1>6, <1>7, <1>8, ObserverFrame

(* Every step a run may take keeps counters and snapshots truthful.        *)
LEMMA WatchStep ==
  ASSUME Sound, Sound', WatchInv, SharedStep
  PROVE  WatchInv'
<1>1. SampleAtHand'
  BY SampleAtHandKept DEF WatchInv
<1>2. CountersExact'
  <2>1. IsFiniteSet(Held') /\ completed' = Cardinality(Held')
    BY CountByNumber DEF Sound, SharedTypeOK, RunInv, NoFlowRunLost
  <2>2. QED BY <2>1, FailedCounted, ThrottledCounted DEF WatchInv, CountersExact
<1>3. SnapshotsInOrder' /\ LastSnapshotWhole'
  BY SnapshotsInOrderKept, LastSnapshotWholeKept DEF WatchInv, Sound
<1>4. QED BY <1>1, <1>2, <1>3 DEF WatchInv

LEMMA WatchStart ==
  ASSUME SharedInit, main \notin {"stopping", "returned"}
  PROVE  WatchInv
<1>1. Held = {}
  BY SharedInitInv
<1>2. CountedFailures = {} /\ CountedThrottles = {}
  BY <1>1 DEF CountedFailures, CountedThrottles, Failures, Throttles
<1>3. CountersExact
  BY <1>1, <1>2, FS_EmptySet DEF CountersExact, SharedInit
<1>4. SampleAtHand
  BY DEF SampleAtHand, SharedInit, Counting
<1>5. SnapshotsInOrder
  BY DEF SnapshotsInOrder, SharedInit, Zero
<1>6. LastSnapshotWhole
  BY DEF LastSnapshotWhole, SharedInit
<1>7. QED BY <1>3, <1>4, <1>5, <1>6 DEF WatchInv

(* The last Progress says what the Result says, and none before it claimed *)
(* more than completed.                                                    *)
LEMMA WatchInvImplies ==
  ASSUME Sound, WatchInv
  PROVE  ProgressTruthful
<1>1. /\ completed = Cardinality(Held) /\ IsFiniteSet(Held)
      /\ failed = Cardinality(CountedFailures)
      /\ throttled = Cardinality(CountedThrottles)
  BY DEF WatchInv, CountersExact
<1>2. failed <= completed /\ throttled <= completed
  BY <1>1, FS_Subset, CountedIs
<1>3. ProgressNeverInvents
  <2>1. published.failed <= failed /\ published.throttled <= throttled
    BY DEF WatchInv, SnapshotsInOrder
  <2>2. QED BY <1>2, <2>1, SnapshotType DEF ProgressNeverInvents
<1>4. LastProgressIsResult
  <2>1. SUFFICES ASSUME main = "returned", WatchProgress
                 PROVE  published = [completed |-> Cardinality(result.acc.samples),
                                     failed    |-> Cardinality(Failures(result.acc.samples)),
                                     throttled |-> Cardinality(Throttles(result.acc.samples))]
    BY DEF LastProgressIsResult
  <2>2. Joined /\ result.acc = merged
    BY <2>1 DEF Sound, RunInv, Settled
  <2>3. merged.samples = Held
    BY <2>2, ResultIsHeld DEF Sound
  <2>4. \A s : ~ Uncounted(s, {"failed"}) /\ ~ Uncounted(s, {"failed", "throttled"})
    BY <2>2, UncountedIs DEF Joined
  <2>5. CountedFailures = Failures(Held) /\ CountedThrottles = Throttles(Held)
    BY <2>4 DEF CountedFailures, CountedThrottles
  <2>6. published = [completed |-> completed, failed |-> failed, throttled |-> throttled]
    BY <2>1 DEF WatchInv, LastSnapshotWhole
  <2>7. QED BY <1>1, <2>2, <2>3, <2>5, <2>6
<1>5. QED BY <1>3, <1>4 DEF ProgressTruthful

(* A snapshot published later counts no less.                              *)
LEMMA NoRewind ==
  ASSUME Sound, WatchInv, SharedStep
  PROVE  UNCHANGED published \/ \A k \in DOMAIN published : published'[k] >= published[k]
<1>1. CASE UNCHANGED <<prog, reading, published>>
  BY <1>1
<1>2. CASE TickSnapshot \/ FinalSnapshot \/ LoadFailed
  BY <1>2 DEF TickSnapshot, FinalSnapshot, LoadCompleted, LoadFailed
<1>3. CASE Publish
  <2>1. /\ published'.completed = reading.completed /\ published'.failed = reading.failed
        /\ published'.throttled = throttled
        /\ prog \in {"throttled", "last_throttled"}
    BY <1>3 DEF Publish
  <2>2. /\ published'.completed >= published.completed
        /\ published'.failed >= published.failed
        /\ published'.throttled >= published.throttled
    BY <2>1, SnapshotType DEF WatchInv, SnapshotsInOrder
  <2>3. QED BY <2>2, SnapshotType
<1>4. QED BY <1>1, <1>2, <1>3, ObserverFrame

-------------------------------------------------------------------------------
(* Arithmetic of the sampling rate. *)

LEMMA DivMod ==
  ASSUME NEW a \in Nat, NEW b \in Nat \ {0}
  PROVE  a = b * (a \div b) + (a % b) /\ a % b \in 0 .. b - 1 /\ a \div b \in Nat
OBVIOUS

LEMMA NoMultiple ==
  ASSUME NEW b \in Nat \ {0}, NEW k \in Int, b * k < b, b * k > -b
  PROVE  k = 0
OBVIOUS

(* The quotient is the only one with a remainder below the divisor.        *)
LEMMA DivIs ==
  ASSUME NEW b \in Nat \ {0}, NEW q \in Nat, NEW r \in 0 .. b - 1
  PROVE  (b * q + r) \div b = q
<1> DEFINE a == b * q + r
           p == a \div b
           m == a % b
<1>1. a \in Nat
  OBVIOUS
<1>2. p \in Nat /\ m \in 0 .. b - 1 /\ b * q + r = b * p + m
  BY <1>1, DivMod
<1> HIDE DEF p, m, a
<1>3. b * (q - p) = m - r
  BY <1>2
<1>4. m - r < b /\ m - r > -b /\ q - p \in Int
  BY <1>2
<1>5. q - p = 0
  BY <1>3, <1>4, NoMultiple
<1>6. p = q
  BY <1>2, <1>5
<1>7. QED BY <1>6 DEF p, a

(* One more flow-run seen takes one more trace exactly when it is the      *)
(* first of its SampleEvery.                                               *)
LEMMA CeilDivNext ==
  ASSUME NEW a \in Nat, NEW b \in Nat \ {0}
  PROVE  /\ CeilDiv(a, b) \in Nat
         /\ CeilDiv(a + 1, b) = IF a % b = 0 THEN CeilDiv(a, b) + 1 ELSE CeilDiv(a, b)
<1> DEFINE q == a \div b
           r == a % b
<1>1. a = b * q + r /\ r \in 0 .. b - 1 /\ q \in Nat
  BY DivMod
<1> HIDE DEF q, r
<1>2. CeilDiv(a + 1, b) = q + 1
  <2>1. (a + 1) + b - 1 = b * (q + 1) + r /\ q + 1 \in Nat
    BY <1>1
  <2>2. QED BY <2>1, <1>1, DivIs DEF CeilDiv
<1>3. CASE r = 0
  <2>1. a + b - 1 = b * q + (b - 1) /\ b - 1 \in 0 .. b - 1
    BY <1>1, <1>3
  <2>2. CeilDiv(a, b) = q
    BY <2>1, <1>1, DivIs DEF CeilDiv
  <2>3. QED BY <2>2, <1>1, <1>2, <1>3 DEF r
<1>4. CASE r # 0
  <2>1. a + b - 1 = b * (q + 1) + (r - 1) /\ r - 1 \in 0 .. b - 1 /\ q + 1 \in Nat
    BY <1>1, <1>4
  <2>2. CeilDiv(a, b) = q + 1
    BY <2>1, <1>1, DivIs DEF CeilDiv
  <2>3. QED BY <2>2, <1>1, <1>2, <1>4 DEF r
<1>5. QED BY <1>3, <1>4

-------------------------------------------------------------------------------
(* The trace budgets. *)

LEMMA RecordedIs ==
  /\ \A k : k \in RecordedBad <=>
             k \in Folded /\ \E s \in Held : s.n = k /\ s.outcome = "failed"
  /\ \A k : k \in RecordedGood <=>
             k \in Folded /\ \E s \in Held : s.n = k /\ s.outcome # "failed"
  /\ \A k : k \in RecordedBad' <=>
             k \in Folded' /\ \E s \in Held' : s.n = k /\ s.outcome = "failed"
  /\ \A k : k \in RecordedGood' <=>
             k \in Folded' /\ \E s \in Held' : s.n = k /\ s.outcome # "failed"
BY DEF RecordedBad, RecordedGood, Numbers, Failures

LEMMA FoldedBound ==
  ASSUME Sound
  PROVE  /\ Folded \subseteq 1 .. completed /\ completed \in Nat /\ completed + 1 \notin Folded
         /\ IsFiniteSet(RecordedBad) /\ IsFiniteSet(RecordedGood)
<1>1. Folded \subseteq 1 .. completed /\ completed \in Nat
  BY DEF Sound, SharedTypeOK, RunInv, FoldedOrCounting
<1>2. completed + 1 \notin Folded
  BY <1>1
<1>3. IsFiniteSet(Folded)
  <2>1. IsFiniteSet(1 .. completed)
    BY <1>1, FS_Interval
  <2>2. QED BY <1>1, <2>1, FS_Subset
<1>4. RecordedBad \subseteq Folded /\ RecordedGood \subseteq Folded
  BY DEF RecordedBad, RecordedGood
<1>5. QED BY <1>1, <1>2, <1>3, <1>4, FS_Subset

(* A record counts its flow-run on one side, the one whose budget it drew  *)
(* on; nothing else changes what was recorded.                             *)
LEMMA RecordedStep ==
  ASSUME Sound, SampleAtHand, SharedStep
  PROVE  \/ UNCHANGED <<RecordedBad, RecordedGood, Folded, KeptTrees, budgetVars>>
         \/ \E k, kept :
              /\ k \notin Folded
              /\ Folded' = Folded \cup {k}
              /\ KeptTrees' = IF kept THEN KeptTrees \cup {k} ELSE KeptTrees
              /\ kept \in BOOLEAN
              /\ \/ /\ KeepFailure(kept)
                    /\ RecordedBad' = RecordedBad \cup {k}
                    /\ RecordedGood' = RecordedGood
                 \/ /\ KeepSuccess(kept)
                    /\ RecordedGood' = RecordedGood \cup {k}
                    /\ RecordedBad' = RecordedBad
<1>1. CASE UNCHANGED <<Folded, KeptTrees, budgetVars>>
  <2>1. CASE Held' = Held
    BY <1>1, <2>1 DEF RecordedBad, RecordedGood
  <2>2. CASE \E v \in VU : FinishFlow(v)
    <3>1. PICK v \in VU, r \in FlowResults, s \in Samples :
            s = SampleOf(v, completed + 1, r) /\ Held' = Held \cup {s}
      BY <2>2, Finished1
    <3>2. s.n \notin Folded
      BY <3>1, FoldedBound DEF SampleOf
    <3>3. \A k : /\ k \in RecordedBad' <=> k \in RecordedBad
                 /\ k \in RecordedGood' <=> k \in RecordedGood
      BY <1>1, <3>1, <3>2, RecordedIs
    <3>4. QED BY <1>1, <3>3
  <2>3. QED BY <2>1, <2>2, HeldKept
<1>2. CASE \E v \in VU : \E kept \in BOOLEAN :
              /\ RecordFlow(v)
              /\ KeepTrace(cur[v].res.outcome, kept)
              /\ Folded' = Folded \cup {cur[v].n}
              /\ KeptTrees' = IF kept THEN KeptTrees \cup {cur[v].n} ELSE KeptTrees
  <2>1. PICK v \in VU, kept \in BOOLEAN :
              /\ RecordFlow(v)
              /\ KeepTrace(cur[v].res.outcome, kept)
              /\ Folded' = Folded \cup {cur[v].n}
              /\ KeptTrees' = IF kept THEN KeptTrees \cup {cur[v].n} ELSE KeptTrees
    BY <1>2
  <2>2. Counting(v) /\ Held' = Held
    BY <2>1, RecordFlowInv DEF RecordFlow, At, Counting, Sound
  <2>3. PICK s \in Held : /\ s.n = cur[v].n /\ s.outcome = cur[v].res.outcome
                          /\ \A t \in Held : t.n = cur[v].n => t = s
    BY <2>2, TheSample
  <2>4. cur[v].n \notin Folded
    BY <2>2 DEF SampleAtHand
  <2>5. CASE cur[v].res.outcome = "failed"
    <3>1. \A k : /\ k \in RecordedBad' <=> k \in RecordedBad \cup {cur[v].n}
                 /\ k \in RecordedGood' <=> k \in RecordedGood
      BY <2>1, <2>2, <2>3, <2>5, RecordedIs
    <3>2. RecordedBad' = RecordedBad \cup {cur[v].n} /\ RecordedGood' = RecordedGood
      BY <3>1
    <3>3. KeepFailure(kept)
      BY <2>1, <2>5 DEF KeepTrace
    <3>4. QED BY <2>1, <2>4, <3>2, <3>3
  <2>6. CASE cur[v].res.outcome # "failed"
    <3>1. \A k : /\ k \in RecordedGood' <=> k \in RecordedGood \cup {cur[v].n}
                 /\ k \in RecordedBad' <=> k \in RecordedBad
      BY <2>1, <2>2, <2>3, <2>6, RecordedIs
    <3>2. RecordedGood' = RecordedGood \cup {cur[v].n} /\ RecordedBad' = RecordedBad
      BY <3>1
    <3>3. KeepSuccess(kept)
      BY <2>1, <2>6 DEF KeepTrace
    <3>4. QED BY <2>1, <2>4, <3>2, <3>3
  <2>7. QED BY <2>5, <2>6
<1>3. QED BY <1>1, <1>2, TreesStep

(* A flow-run more on one side is a tree more of that side, if it is kept. *)
LEMMA OneMoreTree ==
  ASSUME NEW S, NEW K, NEW k, IsFiniteSet(S), k \notin S, k \notin K
  PROVE  /\ Cardinality(S \cup {k}) = Cardinality(S) + 1
         /\ Cardinality((S \cup {k}) \cap (K \cup {k})) = Cardinality(S \cap K) + 1
         /\ Cardinality((S \cup {k}) \cap K) = Cardinality(S \cap K)
<1>1. IsFiniteSet(S \cap K)
  BY FS_Subset
<1>2. /\ (S \cup {k}) \cap (K \cup {k}) = (S \cap K) \cup {k}
      /\ (S \cup {k}) \cap K = S \cap K
  OBVIOUS
<1>3. QED BY <1>1, <1>2, FS_AddElement

LEMMA OtherTrees ==
  ASSUME NEW S, NEW K, NEW k, k \notin S, NEW kept \in BOOLEAN
  PROVE  S \cap (IF kept THEN K \cup {k} ELSE K) = S \cap K
OBVIOUS

(* A step of a run preserves what the budgets say.                         *)
LEMMA KeepStep ==
  ASSUME Sound, KeepInv, SharedStep
  PROVE  KeepInv'
<1>1. SampleAtHand'
  BY SampleAtHandKept DEF KeepInv
<1>2. CASE UNCHANGED <<RecordedBad, RecordedGood, Folded, KeptTrees, budgetVars>>
  BY <1>1, <1>2 DEF KeepInv, BudgetsAccounted, budgetVars
<1>3. ASSUME NEW k, NEW kept \in BOOLEAN,
             k \notin Folded, Folded' = Folded \cup {k},
             KeptTrees' = (IF kept THEN KeptTrees \cup {k} ELSE KeptTrees),
             \/ /\ KeepFailure(kept)
                /\ RecordedBad' = RecordedBad \cup {k}
                /\ RecordedGood' = RecordedGood
             \/ /\ KeepSuccess(kept)
                /\ RecordedGood' = RecordedGood \cup {k}
                /\ RecordedBad' = RecordedBad
      PROVE  KeepInv'
  <2> DEFINE bad == Cardinality(RecordedBad)
             good == Cardinality(RecordedGood)
             keptBad == Cardinality(RecordedBad \cap KeptTrees)
             keptGood == Cardinality(RecordedGood \cap KeptTrees)
  <2>1. k \notin RecordedBad /\ k \notin RecordedGood /\ k \notin KeptTrees
    BY <1>3 DEF RecordedBad, RecordedGood, KeepInv
  <2>2. KeptTrees' \subseteq Folded'
    BY <1>3 DEF KeepInv
  <2>3. /\ failBudget = MaxFailures - bad /\ successSeen = good
        /\ successBudget = MaxTraces - CeilDiv(good, SampleEvery)
        /\ keptBad = Least(MaxFailures, bad)
        /\ keptGood = Least(MaxTraces, CeilDiv(good, SampleEvery))
    BY DEF KeepInv, BudgetsAccounted
  <2>4. bad \in Nat /\ good \in Nat
    BY FoldedBound, FS_CardinalityType
  <2>5. MaxFailures \in Nat \ {0} /\ MaxTraces \in Nat \ {0} /\ SampleEvery \in Nat \ {0}
    BY RunAssumption
  <2>6. CeilDiv(good, SampleEvery) \in Nat
    BY <2>4, <2>5, CeilDivNext
  <2>7. CASE /\ KeepFailure(kept)
             /\ RecordedBad' = RecordedBad \cup {k}
             /\ RecordedGood' = RecordedGood
    <3>1. /\ Cardinality(RecordedBad') = bad + 1
          /\ Cardinality(RecordedBad' \cap KeptTrees')
               = IF failBudget > 0 THEN keptBad + 1 ELSE keptBad
      <4>1. IsFiniteSet(RecordedBad)
        BY FoldedBound
      <4>2. /\ Cardinality(RecordedBad \cup {k}) = bad + 1
            /\ Cardinality((RecordedBad \cup {k}) \cap (KeptTrees \cup {k})) = keptBad + 1
            /\ Cardinality((RecordedBad \cup {k}) \cap KeptTrees) = keptBad
        BY <2>1, <4>1, OneMoreTree
      <4>3. kept <=> failBudget > 0
        BY <2>7 DEF KeepFailure
      <4>4. KeptTrees' = IF failBudget > 0 THEN KeptTrees \cup {k} ELSE KeptTrees
        BY <1>3, <4>3
      <4>5. QED BY <2>7, <4>2, <4>4
    <3>2. RecordedGood' \cap KeptTrees' = RecordedGood \cap KeptTrees
      BY <1>3, <2>1, <2>7, OtherTrees
    <3>3. /\ failBudget' = failBudget - 1
          /\ UNCHANGED <<successSeen, successBudget>>
      BY <2>7 DEF KeepFailure
    <3> HIDE DEF bad, keptBad
    <3>4. /\ failBudget' = MaxFailures - (bad + 1)
          /\ Cardinality(RecordedBad' \cap KeptTrees') = Least(MaxFailures, bad + 1)
      BY <2>3, <2>4, <2>5, <3>1, <3>3 DEF Least
    <3>5. BudgetsAccounted'
      BY <2>3, <2>7, <3>1, <3>2, <3>3, <3>4 DEF BudgetsAccounted
    <3>6. QED BY <1>1, <2>2, <3>5 DEF KeepInv
  <2>8. CASE /\ KeepSuccess(kept)
             /\ RecordedGood' = RecordedGood \cup {k}
             /\ RecordedBad' = RecordedBad
    <3>1. /\ Cardinality(RecordedGood') = good + 1
          /\ Cardinality(RecordedGood' \cap KeptTrees')
               = IF Sampled /\ successBudget > 0 THEN keptGood + 1 ELSE keptGood
      <4>1. IsFiniteSet(RecordedGood)
        BY FoldedBound
      <4>2. /\ Cardinality(RecordedGood \cup {k}) = good + 1
            /\ Cardinality((RecordedGood \cup {k}) \cap (KeptTrees \cup {k})) = keptGood + 1
            /\ Cardinality((RecordedGood \cup {k}) \cap KeptTrees) = keptGood
        BY <2>1, <4>1, OneMoreTree
      <4>3. kept <=> Sampled /\ successBudget > 0
        BY <2>8 DEF KeepSuccess
      <4>4. KeptTrees' = IF Sampled /\ successBudget > 0 THEN KeptTrees \cup {k} ELSE KeptTrees
        BY <1>3, <4>3
      <4>5. QED BY <2>8, <4>2, <4>4
    <3>2. RecordedBad' \cap KeptTrees' = RecordedBad \cap KeptTrees
      BY <1>3, <2>1, <2>8, OtherTrees
    <3>3. /\ successSeen' = successSeen + 1 /\ failBudget' = failBudget
          /\ successBudget' = IF Sampled THEN successBudget - 1 ELSE successBudget
      BY <2>8 DEF KeepSuccess
    <3> DEFINE ceil == CeilDiv(good, SampleEvery)
               next == CeilDiv(good + 1, SampleEvery)
    <3>4. next = IF Sampled THEN ceil + 1 ELSE ceil
      BY <2>3, <2>4, <2>5, CeilDivNext DEF Sampled
    <3> HIDE DEF good, keptGood, ceil, next
    <3>5. /\ successBudget = MaxTraces - ceil /\ keptGood = Least(MaxTraces, ceil)
          /\ ceil \in Nat
      BY <2>3, <2>6 DEF ceil
    <3>6. /\ successBudget' = MaxTraces - next
          /\ Cardinality(RecordedGood' \cap KeptTrees') = Least(MaxTraces, next)
      BY <2>5, <3>1, <3>3, <3>4, <3>5 DEF Least
    <3>7. BudgetsAccounted'
      BY <2>3, <2>8, <3>1, <3>2, <3>3, <3>6 DEF BudgetsAccounted, next
    <3>8. QED BY <1>1, <2>2, <3>7 DEF KeepInv
  <2>9. QED BY <1>3, <2>7, <2>8
<1>4. QED BY <1>2, <1>3, RecordedStep DEF KeepInv

LEMMA KeepStart ==
  ASSUME SharedInit, main \notin {"stopping", "returned"}
  PROVE  KeepInv
<1>1. Held = {}
  BY SharedInitInv
<1>2. Folded = {} /\ KeptTrees = {}
  BY Members, KeptIs DEF SharedInit, NewAcc
<1>3. RecordedBad = {} /\ RecordedGood = {}
  BY <1>2 DEF RecordedBad, RecordedGood
<1>4. CeilDiv(0, SampleEvery) = 0
  <2>1. 0 + SampleEvery - 1 = SampleEvery * 0 + (SampleEvery - 1)
    BY RunAssumption
  <2>2. SampleEvery - 1 \in 0 .. SampleEvery - 1
    BY RunAssumption
  <2>3. QED BY <2>1, <2>2, DivIs, RunAssumption DEF CeilDiv
<1>5. Cardinality({}) = 0 /\ MaxFailures \in Nat /\ MaxTraces \in Nat
  BY FS_EmptySet, RunAssumption
<1>6. BudgetsAccounted
  <2>1. {} \cap KeptTrees = {}
    OBVIOUS
  <2>2. QED BY <1>3, <1>4, <1>5, <2>1 DEF BudgetsAccounted, SharedInit, Least
<1>7. SampleAtHand
  BY DEF SampleAtHand, SharedInit, Counting
<1>8. QED BY <1>2, <1>6, <1>7 DEF KeepInv

(* What Run returned keeps as many traces as the policy says.              *)
LEMMA KeepInvImplies ==
  ASSUME Sound, KeepInv
  PROVE  RetentionExact
<1>1. SUFFICES ASSUME main = "returned"
               PROVE  LET bad  == Failures(result.acc.samples)
                          good == result.acc.samples \ bad
                          Kept(samples) == Cardinality(Numbers(samples) \cap result.acc.traces)
                      IN  /\ Kept(bad) = Least(MaxFailures, Cardinality(bad))
                          /\ Kept(good) = Least(MaxTraces, CeilDiv(Cardinality(good), SampleEvery))
  BY DEF RetentionExact
<1>2. Joined /\ result.acc = merged
  BY <1>1 DEF Sound, RunInv, Settled
<1>3. merged.samples = Held
  BY <1>2, ResultIsHeld DEF Sound
<1>4. \A v \in VU : acc[v].traces = {} /\ ~ Counting(v)
  BY <1>2 DEF Sound, RunInv, EmptyHanded, Joined, NewAcc, Counting
<1>5. merged.traces = KeptTrees
  BY <1>4, KeptIs
<1>6. Folded = Numbers(Held)
  BY <1>4 DEF Sound, RunInv, FoldedOrCounting, NoFlowRunLost
<1>7. /\ RecordedBad = Numbers(Failures(Held))
      /\ RecordedGood = Numbers(Held \ Failures(Held))
  BY <1>6 DEF RecordedBad, RecordedGood, Numbers, Failures
<1>8. /\ Cardinality(RecordedBad) = Cardinality(Failures(Held))
      /\ Cardinality(RecordedGood) = Cardinality(Held \ Failures(Held))
  <2>1. Failures(Held) \in SUBSET Held /\ Held \ Failures(Held) \in SUBSET Held
    BY DEF Failures
  <2>2. QED BY <1>7, <2>1, NumbersCount
<1>9. QED BY <1>2, <1>3, <1>5, <1>7, <1>8 DEF KeepInv, BudgetsAccounted

-------------------------------------------------------------------------------
(* All that is counted, together. *)

TallyInv == PassInv /\ CancelInv /\ WatchInv /\ KeepInv

LEMMA TallyStep ==
  ASSUME Sound, Sound', TallyInv, SharedStep
  PROVE  TallyInv'
BY PassStep, CancelStep, WatchStep, KeepStep DEF TallyInv, PassInv, Sound

LEMMA TallyStart ==
  ASSUME SharedInit, main \notin {"stopping", "returned"}
  PROVE  TallyInv
<1>1. CancelInv
  BY DEF SharedInit, CancelInv
<1>2. QED BY <1>1, PassStart, WatchStart, KeepStart DEF TallyInv

LEMMA TallyInvImplies ==
  ASSUME Sound, TallyInv
  PROVE  WholePasses /\ CancelBoundsWork /\ ProgressTruthful /\ RetentionExact
BY PassInvImplies, CancelInvImplies, WatchInvImplies, KeepInvImplies DEF TallyInv

(* A step that is not one of a run's changes nothing that is counted.      *)
LEMMA IdleShared ==
  ASSUME UNCHANGED sharedVars
  PROVE  SharedStep
BY DEF SharedStep, DriverStep, sharedVars, counterVars, budgetVars, ctxVars, watchVars
===============================================================================
