------------------------------ MODULE TraceTiers ------------------------------
(***************************************************************************)
(* What becomes of the span trees of a run: every one is folded by its     *)
(* span-paths into the accumulator of its virtual user, and the            *)
(* accumulators into the run's (internal/span/fold.go); the kept ones are  *)
(* grouped by what failed in them (internal/report/failures.go) and give   *)
(* the funnel the order of its stages (internal/report/funnel.go).         *)
(*                                                                         *)
(* A tree is a function from paths - sequences of child numbers, <<>> the  *)
(* root - to spans [name, kind, duration, outcome, status, reason].        *)
(***************************************************************************)
EXTENDS Integers, Sequences, SequencesExt, FiniteSets, Functions

CONSTANTS
  Folder,         \* goroutines that fold
  Trees,          \* trees a flow-run may leave
  MaxRecorded,    \* flow-runs of the instance
  RunsPerGroup    \* runsPerGroup

VARIABLES
  recorded,    \* every tree of the run, in the order of completion
  keptTrees,   \* the numbers of those that are kept
  folds,       \* folder -> its accumulator
  runFold      \* what has been merged

tierVars == <<recorded, keptTrees, folds, runFold>>

Children(tr, p) == {q \in DOMAIN tr : Len(q) = Len(p) + 1 /\ SubSeq(q, 1, Len(p)) = p}

NamePath(tr, p) == [i \in 1 .. Len(p) + 1 |-> tr[SubSeq(p, 1, i - 1)].name]

SpansAt(tr, n) == {p \in DOMAIN tr : NamePath(tr, p) = n}

IsTree(tr) ==
  /\ IsFiniteSet(DOMAIN tr) /\ DOMAIN tr \subseteq Seq(Nat) /\ <<>> \in DOMAIN tr
  /\ \A p \in DOMAIN tr : tr[p].duration \in Nat
  /\ Children(tr, <<>>) = {<<i>> : i \in 1 .. Cardinality(Children(tr, <<>>))}

Durations(tr, paths) == SumFunction([p \in paths |-> tr[p].duration])

SelfTime(tr, p) ==
  LET self == tr[p].duration - Durations(tr, Children(tr, p)) IN IF self < 0 THEN 0 ELSE self

-------------------------------------------------------------------------------
(* Folding.  An accumulator is a function from name paths to totals. *)

Nothing == [count |-> 0, total |-> 0, self |-> 0]
At(fold, n) == IF n \in DOMAIN fold THEN fold[n] ELSE Nothing
Plus(a, b)  == [count |-> a.count + b.count, total |-> a.total + b.total, self |-> a.self + b.self]

FoldOf(tr) ==
  [n \in {NamePath(tr, p) : p \in DOMAIN tr} |->
     [count |-> Cardinality(SpansAt(tr, n)),
      total |-> Durations(tr, SpansAt(tr, n)),
      self  |-> SumFunction([p \in SpansAt(tr, n) |-> SelfTime(tr, p)])]]

(* Mutant of Join: what one side does not know yet is taken over, what it  *)
(* knows is left.                                                          *)
JoinNew(a, b) == [n \in DOMAIN a \cup DOMAIN b |-> IF n \in DOMAIN a THEN a[n] ELSE b[n]]

(* Folded.Merge, and Folded.Add of a tree that is folded. *)
Join(a, b) == [n \in DOMAIN a \cup DOMAIN b |-> Plus(At(a, n), At(b, n))]

-------------------------------------------------------------------------------
(* Failures. *)

Fails(sp) == sp.outcome \in {"failed", "throttled"}

FailingPaths(tr) == {p \in DOMAIN tr : Fails(tr[p])}

(* Those that failed and have no failed descendant. *)
Findings(tr) ==
  {p \in FailingPaths(tr) :
     ~ \E q \in FailingPaths(tr) : Len(q) > Len(p) /\ SubSeq(q, 1, Len(p)) = p}

StepOf(p) == IF p = <<>> THEN p ELSE SubSeq(p, 1, 1)

(* causeOf; statusOf and detailOf fall back to the step's. *)
Cause(tr, p) ==
  LET sp     == tr[p]
      st     == tr[StepOf(p)]
      status == IF sp.status # 0 THEN sp.status ELSE st.status
      reason == IF sp.reason # "" THEN sp.reason ELSE st.reason
  IN CASE sp.outcome = "throttled" \/ st.outcome = "throttled" \/ status = 429 -> "throttled"
       [] sp.outcome # "throttled" /\ st.outcome # "throttled" /\ status # 429 ->
            IF status >= 400 THEN "status"
            ELSE IF sp.kind = "assert" THEN "assertion"
            ELSE IF sp.kind = "logic" THEN "extraction"
            ELSE IF reason = "" THEN "error" ELSE reason

Key(tr, p) == <<tr[StepOf(p)].name, Cause(tr, p)>>

(* FailureGroups: a trace counts once in each group it is in. *)
Groups ==
  LET keys == UNION {{Key(recorded[i], p) : p \in Findings(recorded[i])} : i \in keptTrees}
      of(k) == {i \in keptTrees : \E p \in Findings(recorded[i]) : Key(recorded[i], p) = k}
      least(S, n) == {i \in S : Cardinality({j \in S : j < i}) < n}
  IN [k \in keys |-> [count |-> Cardinality(of(k)), runs |-> least(of(k), RunsPerGroup)]]

-------------------------------------------------------------------------------
(* The funnel of a flow. *)

Steps(tr) == [i \in 1 .. Cardinality(Children(tr, <<>>)) |-> tr[<<i>>].name]

(* Flow-runs of one flow run the same steps, as far as they come, and no   *)
(* two steps of a flow have one name (Runner.runSteps, Flow.validateAs).   *)
SameFlow(tr, other) ==
  tr[<<>>].name = other[<<>>].name =>
    \A i \in DOMAIN Steps(tr), j \in DOMAIN Steps(other) :
      (Steps(tr)[i] = Steps(other)[j]) = (i = j)

ASSUME TreesAssumption ==
  /\ IsFiniteSet(Folder) /\ RunsPerGroup \in Nat
  /\ \A tr \in Trees : IsTree(tr) /\ \A other \in Trees : SameFlow(tr, other)

(* stepOrder: the first of the longest.  Its comment says the first trace  *)
(* and that later ones are ignored; the code lets a longer one take over.  *)
StepOrder(flow) ==
  LET own == {i \in keptTrees : recorded[i][<<>>].name = flow}
      longest == {i \in own : \A j \in own : Len(Steps(recorded[j])) =< Len(Steps(recorded[i]))}
  IN IF own = {} THEN <<>> ELSE Steps(recorded[CHOOSE i \in longest : \A j \in longest : i =< j])

(* buildFunnel: a stage to each step, with the flow-runs that reached it. *)
Funnel(flow) ==
  LET stages == [i \in DOMAIN StepOrder(flow) |-> At(runFold, <<flow, StepOrder(flow)[i]>>).count]
  IN IF Len(stages) < 2 \/ stages[1] =< 0 THEN <<>> ELSE stages

-------------------------------------------------------------------------------

TiersInit ==
  /\ recorded = <<>> /\ keptTrees = {}
  /\ folds = [f \in Folder |-> <<>>]
  /\ runFold = <<>>

(* pool.record: every tree is folded, and kept perhaps: one that passed is *)
(* sampled, and either budget may be spent by others.                      *)
Record(f) ==
  /\ Len(recorded) < MaxRecorded
  /\ \E tr \in Trees :
       /\ recorded' = Append(recorded, tr)
       /\ folds' = [folds EXCEPT ![f] = Join(@, FoldOf(tr))]
       /\ keptTrees' \in {keptTrees, keptTrees \cup {Len(recorded) + 1}}
  /\ UNCHANGED runFold

MergeFold(f) ==
  /\ folds[f] # <<>>
  /\ runFold' = Join(runFold, folds[f])
  /\ folds' = [folds EXCEPT ![f] = <<>>]
  /\ UNCHANGED <<recorded, keptTrees>>

TiersNext == \E f \in Folder : Record(f) \/ MergeFold(f)

TiersSpec == TiersInit /\ [][TiersNext]_tierVars

-------------------------------------------------------------------------------

AllFolds ==
  LET all(n, total) == At(runFold, n)[total] + SumFunction([f \in Folder |-> At(folds[f], n)[total]])
  IN [n \in DOMAIN runFold \cup UNION {DOMAIN folds[f] : f \in Folder} |->
        [count |-> all(n, "count"), total |-> all(n, "total"), self |-> all(n, "self")]]

(* However the trees were spread over the goroutines and whenever these    *)
(* merged, the folded tier counts every span of every flow-run once, under *)
(* its own path, and as a flame graph it holds together: a frame's time is *)
(* covered by its own and its children's (Folded.Add, Merge, SelfTime).    *)
FoldsAgree ==
  /\ \A n \in DOMAIN AllFolds :
       /\ AllFolds[n].count = SumFunction([i \in DOMAIN recorded |-> Cardinality(SpansAt(recorded[i], n))])
       /\ AllFolds[n].total = SumFunction([i \in DOMAIN recorded |-> Durations(recorded[i], SpansAt(recorded[i], n))])
       /\ AllFolds[n].self \in 0 .. AllFolds[n].total
       /\ AllFolds[n].total =< AllFolds[n].self + SumFunction([c \in Children(AllFolds, n) |-> AllFolds[c].total])
  /\ \A i \in DOMAIN recorded : \A p \in DOMAIN recorded[i] : NamePath(recorded[i], p) \in DOMAIN AllFolds

(* A failing trace is in a group and a passing one in none; within a trace *)
(* one failure is one finding, however many spans around it it marked and  *)
(* however often the call was tried; and a throttle is never found among   *)
(* the errors (findings, causeOf, FailingTraces).                          *)
GroupsHonest ==
  /\ \A i \in keptTrees :
       IF FailingPaths(recorded[i]) = {}
         THEN \A k \in DOMAIN Groups : i \notin Groups[k].runs
         ELSE \E p \in Findings(recorded[i]) :
                LET group == Groups[Key(recorded[i], p)] IN
                i \in group.runs \/ group.count > RunsPerGroup
  /\ \A k \in DOMAIN Groups :
       /\ Groups[k].count \in 1 .. Cardinality({i \in keptTrees : FailingPaths(recorded[i]) # {}})
       /\ k[2] # "throttled" =>
            \A i \in Groups[k].runs : \E p \in FailingPaths(recorded[i]) : recorded[i][p].outcome = "failed"
  /\ \A i \in keptTrees : \A p, q \in Findings(recorded[i]) :
       Len(p) < Len(q) => SubSeq(q, 1, Len(p)) # p

(* Once all is merged a funnel only narrows, and what it loses between two *)
(* stages are the flow-runs that ended there: the two tiers agree on the   *)
(* order although neither has both (Funnels and its comment).              *)
FunnelHonest ==
  (\A f \in Folder : folds[f] = <<>>) =>
    \A flow \in {recorded[i][<<>>].name : i \in DOMAIN recorded} :
      LET own    == {i \in DOMAIN recorded : recorded[i][<<>>].name = flow}
          stages == Funnel(flow)
      IN \A s \in DOMAIN stages :
           stages[s] = Cardinality({i \in own : Len(Steps(recorded[i])) >= s})

TiersHonest == FoldsAgree /\ GroupsHonest /\ FunnelHonest
===============================================================================
