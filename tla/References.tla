------------------------------ MODULE References ------------------------------
(***************************************************************************)
(* {{ references }}: what the validator lets a flow name                   *)
(* (Flow.validateAs, checkRef and UseSpec.validate, internal/ir), and what *)
(* the names stand for when the flow runs (internal/executor/scope.go and  *)
(* runUse).  A reference is <<root, rest>>, rest "" when it has no dot.    *)
(*                                                                         *)
(* A step makes a request or uses a flow: it has refs, the variables it    *)
(* extracts and the ones its assertions look at; a flow has an optional    *)
(* pool, inputs with an optional default, steps and outputs.               *)
(***************************************************************************)
EXTENDS Integers, Sequences, SequencesExt

CONSTANTS
  Flows,      \* entry flows somebody may write
  EnvVars,    \* variables the environment may hold
  Fields,     \* columns a pool's row may have
  MaxNested   \* how deep they use one another: the loader refuses cycles

VARIABLES
  flow,      \* the entry flow
  outside,   \* the environment and the row of this iteration
  frames,    \* runSteps and runUse: flow, next step, vars, what was missed
  failed     \* references that could not be resolved, with their frame

refVars == <<flow, outside, frames, failed>>

NoFlow   == [steps |-> <<>>]
Required == {<<"required", "">>}   \* in place of the refs of a default

UsedBy(f) == {f.steps[i].use : i \in DOMAIN f.steps} \ {NoFlow}

(* A flow and the flows it uses, at any depth (Flow.Walk). *)
Within(f) ==
  LET level[d \in 0 .. MaxNested] == IF d = 0 THEN {f} ELSE UNION {UsedBy(g) : g \in level[d - 1]}
  IN {f} \cup UNION {level[d] : d \in 1 .. MaxNested}

WithRefs(st) == UNION {st.with[i] : i \in DOMAIN st.with}

(* templateRefs *)
RefsOf(st) == st.refs \cup WithRefs(st)

WellFormed(f) ==
  /\ f.steps \in Seq(Range(f.steps)) /\ f.outputs \in Seq(Range(f.outputs))
  /\ \A i \in DOMAIN f.steps :
       /\ f.steps[i].extract \in Seq(Range(f.steps[i].extract))
       /\ \A ref \in RefsOf(f.steps[i]) : ref = <<ref[1], ref[2]>>

ASSUME RefAssumption ==
  /\ MaxNested \in Nat
  /\ \A f \in Flows : \A g \in Within(f) : WellFormed(g) /\ UsedBy(g) \subseteq Within(f)

-------------------------------------------------------------------------------
(* The validator: what it has seen of a flow after its first steps. *)

Start(f) ==
  LET given == IF DOMAIN f.inputs = {} THEN {} ELSE {"inputs"} IN
  [available |-> {"env"} \cup (IF f.data = "" THEN {} ELSE {f.data}) \cup given,
   closed    |-> [root \in given |-> DOMAIN f.inputs],
   extracted |-> {}, ids |-> {}, ok |-> TRUE]

(* Mutant of CheckRef: the members of a closed root are not looked at. *)
CheckRefRoot(seen, ref) == ref[1] \in seen.available

CheckRef(seen, ref) ==
  /\ ref[1] \in seen.available
  /\ ref[1] \in DOMAIN seen.closed => ref[2] \in seen.closed[ref[1]]

(* A use step's id becomes a root, then extractions become variables, then *)
(* assertions may look at them. *)
AddStep(seen, st) ==
  LET used   == st.use # NoFlow
      named  == IF used THEN {st.id} ELSE {}
      fields == [root \in DOMAIN seen.closed \cup named |->
                   IF root \in named THEN ToSet(st.use.outputs) ELSE seen.closed[root]]
      new    == ToSet(st.extract) \ DOMAIN fields
      roots  == seen.available \cup named
  IN [available |-> roots \cup new,
      closed    |-> fields,
      extracted |-> seen.extracted \cup new,
      ids       |-> seen.ids \cup {st.id},
      ok        |-> /\ seen.ok /\ st.id \notin seen.ids
                    /\ \A ref \in RefsOf(st) : CheckRef(seen, ref)
                    /\ used => st.id \notin seen.available
                    /\ ToSet(st.extract) \cap DOMAIN fields = {}
                    /\ ToSet(st.assert) \subseteq roots \cup new]

Seen(f) ==
  LET seen[i \in 0 .. Len(f.steps)] ==
        IF i = 0 THEN Start(f) ELSE AddStep(seen[i - 1], f.steps[i])
  IN seen

(* UseSpec.validate: what a used flow is given. *)
UseOK(st) ==
  st.use # NoFlow =>
    /\ st.use.data = ""
    /\ \A i \in DOMAIN st.use.inputs : st.use.inputs[i] = Required => i \in DOMAIN st.with
    /\ DOMAIN st.with \subseteq DOMAIN st.use.inputs
    /\ st.extract = <<>> /\ st.assert = <<>>

OwnOK(f) ==
  LET seen == Seen(f)[Len(f.steps)] IN
  /\ seen.ok
  /\ f.steps # <<>>
  /\ \A i \in DOMAIN f.inputs : f.inputs[i] # Required => \A ref \in f.inputs[i] : ref[1] = "env"
  /\ IsInjective(f.outputs) /\ ToSet(f.outputs) \subseteq seen.extracted
  /\ \A i \in DOMAIN f.steps : UseOK(f.steps[i])

(* Flow.validateAs, which looks into the used flows too. *)
FlowOK(f) == \A g \in Within(f) : OwnOK(g)

-------------------------------------------------------------------------------
(* The run. *)

Frame(f, vars) == [flow |-> f, next |-> 1, vars |-> vars, missed |-> {}]

TopFrame  == frames[Len(frames)]
Step == TopFrame.flow.steps[TopFrame.next]

(* Scope.value, in its order: env, the pool, then whatever was set. *)
Resolves(frame, ref) ==
  CASE ref[1] = "env" -> ref[2] \in outside.env
    [] ref[1] # "env" /\ frame.flow.data # "" /\ ref[1] = frame.flow.data -> ref[2] \in outside.row
    [] OTHER -> ref \in frame.vars

Unresolved(frame, refs) == {ref \in refs : ~ Resolves(frame, ref)}

RefInit ==
  /\ flow \in Flows
  /\ outside \in [env : SUBSET EnvVars, row : SUBSET Fields]
  /\ frames = IF FlowOK(flow) THEN <<Frame(flow, {})>> ELSE <<>>
  /\ failed = {}

Going == frames # <<>> /\ failed = {} /\ TopFrame.next =< Len(TopFrame.flow.steps)

Fail(refs) ==
  /\ failed' = {[ref |-> ref, frame |-> TopFrame] : ref \in refs}
  /\ UNCHANGED <<flow, outside, frames>>

(* A request: its references, then its extractions until one finds         *)
(* nothing, then its assertions; on_failure decides whether the flow goes  *)
(* on after one that found nothing, so here it may.                        *)
Request ==
  /\ Going /\ Step.use = NoFlow
  /\ LET broken == Unresolved(TopFrame, Step.refs) IN
     IF broken # {} THEN Fail(broken)
     ELSE \E found \in 0 .. Len(Step.extract) :
            LET got  == {<<Step.extract[i], "">> : i \in 1 .. found}
                vars == TopFrame.vars \cup got
                lost == IF found < Len(Step.extract) THEN {}
                        ELSE {<<v, "">> : v \in ToSet(Step.assert)} \ vars
            IN /\ frames' = [frames EXCEPT ![Len(frames)] =
                    [TopFrame EXCEPT !.next = @ + 1, !.vars = vars,
                              !.missed = @ \cup {Step.extract[i] : i \in found + 1 .. Len(Step.extract)}]]
               /\ failed' = {[ref |-> ref, frame |-> TopFrame] : ref \in lost}
               /\ UNCHANGED <<flow, outside>>

(* runUse: the inputs resolve in the caller's scope, defaults in the       *)
(* child's, which has nothing but the environment.                         *)
Use ==
  /\ Going /\ Step.use # NoFlow
  /\ LET used    == Step.use
         given   == DOMAIN Step.with
         broken  == Unresolved(TopFrame, UNION {Step.with[i] : i \in given \cap DOMAIN used.inputs})
         default == UNION {Unresolved(Frame(used, {}), used.inputs[i]) : i \in DOMAIN used.inputs \ given}
     IN IF broken \cup default # {} THEN Fail(broken \cup default)
        ELSE /\ frames' = Append(frames, Frame(used, {<<"inputs", i>> : i \in DOMAIN used.inputs}))
             /\ UNCHANGED <<flow, outside, failed>>

(* The outputs that have a value come back, as <step id>.<output>. *)
UseReturns ==
  /\ Len(frames) > 1 /\ failed = {} /\ TopFrame.next > Len(TopFrame.flow.steps)
  /\ LET caller == frames[Len(frames) - 1]
         id     == caller.flow.steps[caller.next].id
         back   == {o \in ToSet(TopFrame.flow.outputs) : <<o, "">> \in TopFrame.vars}
     IN frames' = Append(SubSeq(frames, 1, Len(frames) - 2),
          [caller EXCEPT !.next = @ + 1,
                         !.vars = @ \cup {<<id, o>> : o \in back},
                         !.missed = @ \cup (IF TopFrame.missed = {} THEN {} ELSE {id})])
  /\ UNCHANGED <<flow, outside, failed>>

RefNext == Request \/ Use \/ UseReturns

RefSpec == RefInit /\ [][RefNext]_refVars

-------------------------------------------------------------------------------

(* A reference is an error before the run or has a value in it (validateAs *)
(* and checkRef): in a flow that was accepted one fails only for what lies *)
(* outside the flow, a variable of the environment or a column of the row, *)
(* or for an extraction that found nothing.  What the validator does not   *)
(* look at is left out by name: a dotted reference under a plain variable, *)
(* an assertion on a root that is not a variable, and the inputs of the    *)
(* entry flow, which are for a caller to fill and have not even their      *)
(* defaults when the flow runs on its own.                                 *)
RefsResolve ==
  \A lost \in failed :
    LET root == lost.ref[1]
        seen == Seen(lost.frame.flow)[lost.frame.next]
    IN \/ root \in {"env", lost.frame.flow.data}
       \/ root \in lost.frame.missed
       \/ root = "inputs" /\ Len(frames) = 1
       \/ root \in seen.extracted /\ lost.ref[2] # ""
       \/ root \in DOMAIN seen.closed /\ lost.ref[2] = ""

(* A used flow sees nothing of its caller but what it was given (Scope.    *)
(* Child, runUse), and the caller nothing of it but its outputs.           *)
ScopesAreApart ==
  \A k \in DOMAIN frames :
    LET own == frames[k].flow.steps IN
    \A v \in frames[k].vars :
      \/ v[1] = "inputs" /\ v[2] \in DOMAIN frames[k].flow.inputs
      \/ \E i \in 1 .. Len(own) : i =< frames[k].next /\ v[2] = "" /\ v[1] \in ToSet(own[i].extract)
      \/ \E i \in 1 .. Len(own) :
           /\ i < frames[k].next /\ own[i].id = v[1] /\ own[i].use # NoFlow
           /\ v[2] \in ToSet(own[i].use.outputs)

(* A name means one thing, and it is there. *)
NamesHold == RefsResolve /\ ScopesAreApart
===============================================================================
