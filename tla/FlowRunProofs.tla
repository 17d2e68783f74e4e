---------------------------- MODULE FlowRunProofs ----------------------------
(***************************************************************************)
(* Proofs about a flow-run and its two callers (FlowRun, FlowCallers): for *)
(* every set of flows and steps, however deep flows use each other, every  *)
(* retry policy and every choice of the target.                            *)
(***************************************************************************)
EXTENDS FlowCallers, SequenceTheorems, TLAPS

-------------------------------------------------------------------------------
(* The operators of a frame. *)

Outcomes == {"ok", "throttled", "failed"}

LEMMA WorstIs ==
  ASSUME NEW a \in Outcomes, NEW b \in Outcomes
  PROVE  /\ Worst(a, b) \in Outcomes
         /\ Worst(a, b) = "ok" => a = "ok" /\ b = "ok"
         /\ Worst(a, b) = "throttled" => a = "throttled" \/ b = "throttled"
<1>1. PICK o \in {a, b} : /\ Worst(a, b) = o
                          /\ \/ o = "failed"
                             \/ o = "throttled" /\ "failed" \notin {a, b}
                             \/ {a, b} = {"ok"}
  <2>1. \E o \in {a, b} : \/ o = "failed"
                          \/ o = "throttled" /\ "failed" \notin {a, b}
                          \/ {a, b} = {"ok"}
    BY DEF Outcomes
  <2>2. QED BY <2>1 DEF Worst
<1>2. QED BY <1>1 DEF Outcomes

(* What of a frame a change of its sessions leaves alone.                  *)
Alike(fr, g) ==
  /\ fr \in Frames
  /\ fr.flow = g.flow /\ fr.path = g.path /\ fr.at = g.at /\ fr.exit = g.exit
  /\ fr.failures = g.failures
  /\ fr.throttled = g.throttled /\ fr.aborted = g.aborted /\ fr.outcome = g.outcome

LEMMA AlikeItself ==
  ASSUME NEW fr \in Frames
  PROVE  Alike(fr, fr)
BY DEF Alike

LEMMA MarkedAlike ==
  ASSUME NEW fr \in Frames, NEW s \in Session,
         NEW state \in {"unopened", "refused", "open", "retired"}
  PROVE  /\ Alike(Marked(fr, s, state), fr)
         /\ Marked(fr, s, state).ws = [fr.ws EXCEPT ![s] = state]
BY DEF Marked, Alike, Frames

AddedTo(fr, outcome, goOn, g) ==
  /\ g \in Frames
  /\ g.flow = fr.flow /\ g.path = fr.path /\ g.ws = fr.ws
  /\ g.failures = fr.failures
  /\ g.throttled = fr.throttled /\ g.aborted = fr.aborted
  /\ g.exit = IF goOn THEN "none" ELSE "stop"
  /\ g.at = IF goOn THEN fr.at + 1 ELSE fr.at
  /\ g.outcome = Worst(fr.outcome, outcome)

LEMMA AddedIs ==
  ASSUME NEW fr \in Frames, NEW outcome \in Outcomes, NEW goOn \in BOOLEAN
  PROVE  AddedTo(fr, outcome, goOn, Added(fr, outcome, goOn))
<1>1. Worst(fr.outcome, outcome) \in Outcomes
  BY WorstIs DEF Frames, Outcomes
<1>2. PICK g : g = Added(fr, outcome, goOn)
  OBVIOUS
<1>3. ASSUME goOn PROVE AddedTo(fr, outcome, goOn, g)
  <2>1. fr.at \in Nat \ {0}
    BY DEF Frames
  <2>2. PICK n \in Nat \ {0} : n = fr.at + 1
    BY <2>1
  <2>3. g = [fr EXCEPT !.outcome = Worst(@, outcome), !.at = n, !.exit = "none"]
    BY <1>2, <1>3, <2>2 DEF Added
  <2>4. QED BY <1>1, <1>3, <2>2, <2>3 DEF AddedTo, Frames, Outcomes
<1>4. ASSUME ~ goOn PROVE AddedTo(fr, outcome, goOn, g)
  <2>1. g = [fr EXCEPT !.outcome = Worst(@, outcome), !.at = @, !.exit = "stop"]
    BY <1>2, <1>4 DEF Added
  <2>2. g = [fr EXCEPT !.outcome = Worst(@, outcome), !.exit = "stop"]
    BY <2>1 DEF Frames
  <2>3. QED BY <1>1, <1>4, <2>2 DEF AddedTo, Frames, Outcomes
<1>5. AddedTo(fr, outcome, goOn, g)
  BY <1>3, <1>4
<1>6. QED BY <1>2, <1>5

Noticed(n, id) == [i \in 1 .. n |-> <<id>>]

NotedIn(fr, st, n, g) ==
  /\ g \in Frames
  /\ g.flow = fr.flow /\ g.path = fr.path /\ g.ws = fr.ws
  /\ g.at = fr.at /\ g.exit = fr.exit
  /\ g.failures = fr.failures \o Noticed(n, st.id)
  /\ g.throttled = fr.throttled /\ g.outcome = fr.outcome
  /\ g.aborted <=> fr.aborted \/ (n > 0 /\ EffectiveAction(st) = "abort_run")

LEMMA NotedIs ==
  ASSUME NEW fr \in Frames, NEW st \in Step, NEW n \in Nat
  PROVE  NotedIn(fr, st, n, Noted(fr, st, n))
<1>1. Noticed(n, st.id) \in Seq(Paths)
  <2>1. st.id \in STRING
    BY DEF Step
  <2>2. <<st.id>> \in Paths
    BY <2>1 DEF Paths
  <2>3. QED BY <2>2 DEF Noticed
<1>2. fr.failures \o Noticed(n, st.id) \in Seq(Paths)
  BY <1>1, ConcatProperties DEF Frames
<1>3. QED BY <1>2 DEF Noted, NotedIn, Noticed, Frames

-------------------------------------------------------------------------------
(* The stack. *)

LEMMA TopIs ==
  ASSUME FlowTypeOK, stack # <<>>
  PROVE  /\ Len(stack) \in Nat \ {0}
         /\ Top = stack[Len(stack)]
         /\ Top \in Frames
BY DEF Top, Last, FlowTypeOK

LEMMA OnTopIs ==
  ASSUME FlowTypeOK, stack # <<>>, NEW fr \in Frames
  PROVE  /\ OnTop(fr) \in Seq(Frames)
         /\ OnTop(fr) # <<>>
         /\ Len(OnTop(fr)) = Len(stack)
         /\ OnTop(fr)[Len(stack)] = fr
         /\ \A i \in 1 .. Len(stack) - 1 : OnTop(fr)[i] = stack[i]
BY TopIs DEF OnTop, FlowTypeOK

LEMMA HereIs ==
  ASSUME FlowTypeOK, stack # <<>>, AtStep(Top)
  PROVE  /\ Here \in Step
         /\ Here = StepOf(Top)
         /\ Path = Append(Top.path, Here.id)
         /\ Path \in Paths
<1>1. Top \in Frames
  BY TopIs
<1>2. StepsOf[Top.flow] \in Seq(Step)
  BY <1>1, FlowAssumption DEF Frames
<1>3. Top.at \in 1 .. Len(StepsOf[Top.flow])
  BY <1>2, LenProperties DEF AtStep
<1>4. Here \in Step
  BY <1>2, <1>3, ElementOfSeq DEF Here
<1>5. Here.id \in STRING
  BY <1>4 DEF Step
<1>6. Top.path \in Seq(STRING)
  BY <1>1 DEF Frames, Paths
<1>7. Path = Append(Top.path, Here.id) /\ Path \in Paths
  BY <1>5, <1>6, AppendProperties DEF Path, Paths
<1>8. QED BY <1>4, <1>7 DEF Here, StepOf

(* A frame whose step failed n times, or was throttled, has noted it.      *)
FailedFrom(fr, st, n, outcome, g) ==
  /\ g \in Frames
  /\ g.flow = fr.flow /\ g.path = fr.path /\ g.ws = fr.ws
  /\ g.failures = fr.failures \o Noticed(n, st.id)
  /\ g.throttled = fr.throttled
  /\ g.aborted <=> fr.aborted \/ (n > 0 /\ EffectiveAction(st) = "abort_run")
  /\ g.exit = IF GoesOn(st) THEN "none" ELSE "stop"
  /\ g.at = IF GoesOn(st) THEN fr.at + 1 ELSE fr.at
  /\ g.outcome = Worst(fr.outcome, outcome)

LEMMA FailedIs ==
  ASSUME NEW fr \in Frames, NEW st \in Step, NEW n \in Nat, NEW outcome \in Outcomes
  PROVE  FailedFrom(fr, st, n, outcome, Added(Noted(fr, st, n), outcome, GoesOn(st)))
<1>1. PICK h : h = Noted(fr, st, n)
  OBVIOUS
<1>2. NotedIn(fr, st, n, h)
  BY <1>1, NotedIs
<1>3. h \in Frames
  BY <1>2 DEF NotedIn
<1>4. GoesOn(st) \in BOOLEAN
  BY DEF GoesOn
<1>5. PICK g : g = Added(h, outcome, GoesOn(st))
  OBVIOUS
<1>6. AddedTo(h, outcome, GoesOn(st), g)
  BY <1>3, <1>4, <1>5, AddedIs
<1>7. FailedFrom(fr, st, n, outcome, g)
  BY <1>2, <1>6 DEF FailedFrom, NotedIn, AddedTo
<1>8. QED BY <1>1, <1>5, <1>7

-------------------------------------------------------------------------------
(* What a step of RunFlow comes to. *)

(* The step on top ends in frame fr with n failures, throttled or not.     *)
EndsAs(fr, n, throttle) ==
  /\ EndStep(fr, n, throttle)
  /\ fr \in Frames
  /\ fr.flow = Top.flow /\ fr.path = Top.path
  /\ fr.failures = Top.failures \o Noticed(n, Here.id)
  /\ fr.aborted <=> Top.aborted \/ (n > 0 /\ EffectiveAction(Here) = "abort_run")
  /\ fr.throttled <=> Top.throttled \/ throttle
  /\ n = 0 => fr.exit \in {"none", "error"}
  /\ n > 0 => fr.exit = IF GoesOn(Here) THEN "none" ELSE "stop"
  /\ fr.at = IF fr.exit = "none" THEN Top.at + 1 ELSE Top.at
  /\ fr.outcome = "ok" => Top.outcome = "ok" /\ ~ throttle
  /\ fr.outcome = "throttled" => Top.outcome = "throttled" \/ throttle

EndsWith(mid, exits) ==
  \E fr \in Frames, n \in Nat, throttle \in BOOLEAN :
    EndsAs(fr, n, throttle) /\ fr.ws = mid.ws /\ fr.exit \in exits

LEMMA NoneNoticed ==
  ASSUME NEW fr \in Frames, NEW id
  PROVE  fr.failures \o Noticed(0, id) = fr.failures
<1>1. Noticed(0, id) = <<>>
  BY DEF Noticed
<1>2. fr.failures \in Seq(Paths)
  BY DEF Frames
<1>3. QED BY <1>1, <1>2, ConcatEmptySeq

LEMMA PassedEnds ==
  ASSUME FlowTypeOK, stack # <<>>, AtStep(Top), NEW mid, Alike(mid, Top), StepPassed(mid)
  PROVE  EndsWith(mid, {"none", "stop"})
<1>1. PICK fr : fr = Passed(mid)
  OBVIOUS
<1>2. mid \in Frames /\ Top \in Frames
  BY TopIs DEF Alike
<1>3. AddedTo(mid, "ok", TRUE, fr)
  BY <1>1, <1>2, AddedIs DEF Passed, Outcomes
<1>4. /\ fr.outcome = "ok" => mid.outcome = "ok"
      /\ fr.outcome = "throttled" => mid.outcome = "throttled"
  BY <1>2, <1>3, WorstIs DEF AddedTo, Frames, Outcomes
<1>5. Top.failures = Top.failures \o Noticed(0, Here.id)
  BY <1>2, NoneNoticed
<1>6. EndStep(fr, 0, FALSE)
  BY <1>1 DEF StepPassed
<1>7. EndsAs(fr, 0, FALSE)
  <2>1. ASSUME NEW n \in Nat, n = 0, NEW throttle \in BOOLEAN, throttle = FALSE,
              EndStep(fr, n, throttle)
       PROVE  EndsAs(fr, n, throttle)
    <3>1. ~ (n > 0)
      BY <2>1
    <3>2. QED BY <1>2, <1>3, <1>4, <1>5, <1>6, <2>1, <3>1 DEF EndsAs, Alike, AddedTo
  <2>2. QED BY <1>2, <1>3, <1>4, <1>5, <1>6, <2>1
<1>8. QED BY <1>3, <1>7 DEF EndsWith, EndsAs, AddedTo

LEMMA ErredEnds ==
  ASSUME FlowTypeOK, stack # <<>>, AtStep(Top), NEW mid, Alike(mid, Top), StepErred(mid)
  PROVE  EndsWith(mid, {"error"})
<1>1. PICK fr : fr = Erred(mid)
  OBVIOUS
<1>2. mid \in Frames /\ Top \in Frames
  BY TopIs DEF Alike
<1>3. /\ fr \in Frames
      /\ fr.flow = mid.flow /\ fr.path = mid.path /\ fr.ws = mid.ws
      /\ fr.failures = mid.failures
      /\ fr.throttled = mid.throttled /\ fr.aborted = mid.aborted
      /\ fr.exit = "error"
      /\ fr.at = mid.at
      /\ fr.outcome = mid.outcome
  BY <1>1, <1>2 DEF Erred, Frames
<1>5. Top.failures = Top.failures \o Noticed(0, Here.id)
  BY <1>2, NoneNoticed
<1>6. EndStep(fr, 0, FALSE)
  BY <1>1 DEF StepErred
<1>7. EndsAs(fr, 0, FALSE)
  <2>1. ASSUME NEW n \in Nat, n = 0, NEW throttle \in BOOLEAN, throttle = FALSE,
              EndStep(fr, n, throttle)
       PROVE  EndsAs(fr, n, throttle)
    <3>1. ~ (n > 0)
      BY <2>1
    <3>2. QED BY <1>2, <1>3, <1>5, <1>6, <2>1, <3>1 DEF EndsAs, Alike
  <2>2. QED BY <1>2, <1>3, <1>5, <1>6, <2>1
<1>8. QED BY <1>3, <1>7 DEF EndsWith

LEMMA FailedEnds ==
  ASSUME FlowTypeOK, stack # <<>>, AtStep(Top), NEW mid, Alike(mid, Top),
         NEW n \in Nat \ {0}, EndStep(Failed(mid, Here, n), n, FALSE)
  PROVE  EndsWith(mid, {"none", "stop"})
<1>1. PICK fr : fr = Failed(mid, Here, n)
  OBVIOUS
<1>2. mid \in Frames /\ Top \in Frames /\ Here \in Step
  BY TopIs, HereIs DEF Alike
<1>3. FailedFrom(mid, Here, n, "failed", fr)
  BY <1>1, <1>2, FailedIs DEF Failed, Outcomes
<1>4. /\ fr.outcome = "ok" => mid.outcome = "ok"
      /\ fr.outcome = "throttled" => mid.outcome = "throttled"
  BY <1>2, <1>3, WorstIs DEF FailedFrom, Frames, Outcomes
<1>6. EndStep(fr, n, FALSE)
  BY <1>1
<1>7. fr.at = IF fr.exit = "none" THEN Top.at + 1 ELSE Top.at
  BY <1>3 DEF Alike, FailedFrom
<1>8. EndsAs(fr, n, FALSE)
  BY <1>2, <1>3, <1>4, <1>6, <1>7 DEF EndsAs, Alike, FailedFrom
<1>9. QED BY <1>3, <1>8 DEF EndsWith, EndsAs, FailedFrom

LEMMA FailedOnce ==
  ASSUME FlowTypeOK, stack # <<>>, AtStep(Top), NEW mid, Alike(mid, Top), StepFailed(mid)
  PROVE  EndsWith(mid, {"none", "stop"})
<1>1. PICK n \in Nat \ {0} : n = 1
  OBVIOUS
<1>2. EndStep(Failed(mid, Here, n), n, FALSE)
  BY <1>1 DEF StepFailed
<1>3. QED BY <1>2, FailedEnds

LEMMA ThrottledEnds ==
  ASSUME FlowTypeOK, stack # <<>>, AtStep(Top), NEW mid, Alike(mid, Top),
         StepThrottled(mid)
  PROVE  EndsWith(mid, {"none", "stop"})
<1>1. PICK flagged : flagged = [mid EXCEPT !.throttled = TRUE]
  OBVIOUS
<1>2. mid \in Frames /\ Top \in Frames /\ Here \in Step
  BY TopIs, HereIs DEF Alike
<1>3. /\ flagged \in Frames
      /\ flagged.flow = mid.flow /\ flagged.path = mid.path /\ flagged.ws = mid.ws
      /\ flagged.at = mid.at
      /\ flagged.failures = mid.failures
      /\ flagged.throttled = TRUE /\ flagged.aborted = mid.aborted
      /\ flagged.outcome = mid.outcome
  BY <1>1, <1>2 DEF Frames
<1>4. CASE ThrottleIsError(Here)
  <2>1. PICK fr : fr = Added(Noted(flagged, Here, 1), "throttled", GoesOn(Here))
    OBVIOUS
  <2>2. EndStep(fr, 1, TRUE)
    BY <1>1, <1>4, <2>1 DEF StepThrottled, ThrottledBy
  <2>3. FailedFrom(flagged, Here, 1, "throttled", fr)
    BY <1>2, <1>3, <2>1, FailedIs DEF Outcomes
  <2>4. fr.outcome # "ok"
    BY <1>3, <2>3, WorstIs DEF FailedFrom, Frames, Outcomes
  <2>5. fr.at = IF fr.exit = "none" THEN Top.at + 1 ELSE Top.at
    BY <1>3, <2>3 DEF Alike, FailedFrom
  <2>6. EndsAs(fr, 1, TRUE)
    <3>1. ASSUME NEW n \in Nat, n = 1, NEW throttle \in BOOLEAN, throttle = TRUE,
                EndStep(fr, n, throttle)
         PROVE  EndsAs(fr, n, throttle)
      <4>1. n > 0 /\ n # 0
        BY <3>1
      <4>2. QED BY <1>2, <1>3, <2>2, <2>3, <2>4, <2>5, <3>1, <4>1 DEF EndsAs, Alike, FailedFrom
    <3>2. QED BY <1>2, <1>3, <2>2, <2>3, <2>4, <2>5, <3>1
  <2>7. QED BY <1>3, <2>3, <2>6 DEF EndsWith, EndsAs, FailedFrom
<1>5. CASE ~ ThrottleIsError(Here)
  <2>1. PICK fr : fr = Added(flagged, "throttled", TRUE)
    OBVIOUS
  <2>2. EndStep(fr, 0, TRUE)
    BY <1>1, <1>5, <2>1 DEF StepThrottled, ThrottledBy
  <2>3. AddedTo(flagged, "throttled", TRUE, fr)
    BY <1>3, <2>1, AddedIs DEF Outcomes
  <2>4. fr.outcome # "ok"
    BY <1>3, <2>3, WorstIs DEF AddedTo, Frames, Outcomes
  <2>5. Top.failures = Top.failures \o Noticed(0, Here.id)
    BY <1>2, NoneNoticed
  <2>6. EndsAs(fr, 0, TRUE)
    <3>1. ASSUME NEW n \in Nat, n = 0, NEW throttle \in BOOLEAN, throttle = TRUE,
                EndStep(fr, n, throttle)
         PROVE  EndsAs(fr, n, throttle)
      <4>1. ~ (n > 0)
        BY <3>1
      <4>2. QED BY <1>2, <1>3, <2>2, <2>3, <2>4, <2>5, <3>1, <4>1 DEF EndsAs, Alike, AddedTo
    <3>2. QED BY <1>2, <1>3, <2>2, <2>3, <2>4, <2>5, <3>1
  <2>7. QED BY <1>3, <2>3, <2>6 DEF EndsWith, EndsAs, AddedTo
<1>6. QED BY <1>4, <1>5

LEMMA EvaluatedEnds ==
  ASSUME FlowTypeOK, stack # <<>>, AtStep(Top), NEW mid, Alike(mid, Top),
         StepEvaluated(mid)
  PROVE  EndsWith(mid, {"none", "stop"})
<1>1. CASE StepPassed(mid)
  BY <1>1, PassedEnds
<1>2. CASE \E n \in 1 .. Here.checks : /\ n > 1 => GoesOn(Here)
                                       /\ EndStep(Failed(mid, Here, n), n, FALSE)
  <2>1. Here.checks \in Nat
    BY HereIs DEF Step
  <2>2. PICK n \in 1 .. Here.checks : EndStep(Failed(mid, Here, n), n, FALSE)
    BY <1>2
  <2>3. n \in Nat \ {0}
    BY <2>1, <2>2
  <2>4. QED BY <2>2, <2>3, FailedEnds
<1>3. QED BY <1>1, <1>2 DEF StepEvaluated

-------------------------------------------------------------------------------
(* The forms of a step of RunFlow. *)

(* The step on top is begun, or goes on.                                   *)
StepRuns ==
  /\ stack # <<>> /\ AtStep(Top)
  /\ begun' = IF pc = "head" THEN begun \cup {Path} ELSE begun
  /\ UNCHANGED <<mode, cancelled, returned>>

(* What may become of the step's session in its frame's Iteration.         *)
Session0 == Top.ws[Here.session]

WsMoves(fr) ==
  \/ /\ fr.ws = Top.ws
     /\ UNCHANGED conns
     /\ Here.kind = "ws" /\ fr.exit = "none" /\ pc' # "dial" => Session0 # "unopened"
  \/ /\ Here.kind = "ws" /\ Here.opens /\ pc \in {"head", "dial"}
     /\ fr.ws = [Top.ws EXCEPT ![Here.session] = "refused"]
     /\ UNCHANGED conns
  \/ /\ Here.kind = "ws" /\ Here.opens /\ pc = "dial"
     /\ fr.ws = [Top.ws EXCEPT ![Here.session] = "open"]
     /\ conns' = conns \cup {<<Top.path, Here.session>>}
  \/ /\ Here.kind = "ws" /\ pc \in {"send", "receive"}
     /\ fr.ws = [Top.ws EXCEPT ![Here.session] = "retired"]
     /\ UNCHANGED conns

Ending ==
  /\ StepRuns
  /\ \E fr \in Frames, n \in Nat, throttle \in BOOLEAN :
       EndsAs(fr, n, throttle) /\ WsMoves(fr)

Waiting ==
  /\ StepRuns
  /\ \E fr \in Frames, p \in {"try", "dial", "send", "receive"}, call \in Calls :
       /\ WaitAt(p, fr, call)
       /\ Alike(fr, Top) /\ WsMoves(fr)
       /\ p = "try" => Here.kind \in {"call", "grpc"}
       /\ p = "dial" => /\ Here.kind = "ws" /\ Here.opens
                       /\ pc = "head" /\ fr.ws = Top.ws
       /\ p \in {"send", "receive"} => Here.kind = "ws" /\ fr.ws[Here.session] = "open"

Moving ==
  /\ StepRuns
  /\ pc # "head"
  /\ pc' = pc \/ (pc \in {"try", "backoff"} /\ pc' \in {"try", "backoff", "judge"})
  /\ io' \in Calls
  /\ UNCHANGED <<stack, conns, told, killed, limited>>

Using ==
  /\ StepRuns
  /\ pc = "head"
  /\ Here.kind = "use"
  /\ stack' = Append(stack, NewFrame(Here.uses, Path))
  /\ UNCHANGED <<pc, io, conns, told, killed, limited>>

LEMMA EndsUnmarked ==
  ASSUME FlowTypeOK, StepRuns, UNCHANGED conns,
         NEW exits, EndsWith(Top, exits),
         Here.kind = "ws" => (exits = {"error"} \/ Session0 # "unopened")
  PROVE  Ending
<1>1. PICK fr \in Frames, n \in Nat, throttle \in BOOLEAN :
        EndsAs(fr, n, throttle) /\ fr.ws = Top.ws /\ fr.exit \in exits
  BY DEF EndsWith
<1>2. fr.exit = "none" => exits # {"error"}
  BY <1>1
<1>3. WsMoves(fr)
  BY <1>1, <1>2 DEF WsMoves
<1>4. QED BY <1>1, <1>3 DEF Ending

LEMMA EndsMarked ==
  ASSUME FlowTypeOK, StepRuns, Here.kind = "ws", NEW state,
         NEW exits, EndsWith(Marked(Top, Here.session, state), exits),
         \/ state = "refused" /\ Here.opens /\ pc \in {"head", "dial"} /\ UNCHANGED conns
         \/ /\ state = "open" /\ Here.opens /\ pc = "dial"
            /\ conns' = conns \cup {<<Top.path, Here.session>>}
         \/ state = "retired" /\ pc \in {"send", "receive"} /\ UNCHANGED conns
  PROVE  Ending
<1>1. PICK fr \in Frames, n \in Nat, throttle \in BOOLEAN :
        /\ EndsAs(fr, n, throttle)
        /\ fr.ws = Marked(Top, Here.session, state).ws
  BY DEF EndsWith
<1>2. Top \in Frames /\ Here.session \in Session
  BY TopIs, HereIs DEF StepRuns, Step
<1>3. state \in {"unopened", "refused", "open", "retired"}
  OBVIOUS
<1>4. Marked(Top, Here.session, state).ws = [Top.ws EXCEPT ![Here.session] = state]
  BY <1>2, <1>3 DEF Marked, Frames
<1>5. fr.ws = [Top.ws EXCEPT ![Here.session] = state]
  BY <1>1, <1>4
<1>6. WsMoves(fr)
  BY <1>5 DEF WsMoves
<1>7. QED BY <1>1, <1>6 DEF Ending

(* The frame in which a step waits is the one on top, but for its session. *)
LEMMA Waits ==
  ASSUME FlowTypeOK, StepRuns, UNCHANGED conns,
         NEW p \in {"try", "dial", "send", "receive"}, NEW call \in Calls,
         WaitAt(p, Top, call),
         p = "try" => Here.kind \in {"call", "grpc"},
         p = "dial" => Here.kind = "ws" /\ Here.opens /\ pc = "head",
         p \in {"send", "receive"} => Here.kind = "ws" /\ Session0 = "open"
  PROVE  Waiting
<1>1. Top \in Frames
  BY TopIs DEF StepRuns
<1>2. pc' = p
  BY DEF WaitAt
<1>3. WsMoves(Top)
  BY <1>2 DEF WsMoves
<1>4. QED BY <1>1, <1>3, AlikeItself DEF Waiting, Session0

LEMMA NewCallIs ==
  ASSUME FlowTypeOK
  PROVE  NewCall \in Calls /\ Idle \in Calls /\ NewCall.late = cancelled
<1>1. cancelled \in BOOLEAN /\ 0 \in 0 .. ReceiveTimeout
  BY FlowAssumption DEF FlowTypeOK
<1>2. Idle \in Calls
  BY <1>1 DEF Idle, Calls
<1>3. [Idle EXCEPT !.n = 1, !.late = cancelled] \in Calls
  BY <1>1, <1>2 DEF Calls
<1>4. [Idle EXCEPT !.n = 1, !.late = cancelled].late = cancelled
  BY <1>2 DEF Calls
<1>5. QED BY <1>2, <1>3, <1>4 DEF NewCall

(* runWS once its session is open.                                         *)
LEMMA AwaitForms ==
  ASSUME FlowTypeOK, StepRuns, UNCHANGED conns, Here.kind = "ws", Session0 = "open",
         Await(Top) \/ Exchange(Top)
  PROVE  Ending \/ Waiting
<1>1. ASSUME Await(Top) PROVE Ending \/ Waiting
  <2>1. CASE WaitAt("receive", Top, NewCall)
    BY <2>1, NewCallIs, Waits
  <2>2. CASE StepPassed(Top)
    <3>1. EndsWith(Top, {"none", "stop"})
      BY <2>2, TopIs, AlikeItself, PassedEnds DEF StepRuns
    <3>2. QED BY <3>1, EndsUnmarked
  <2>3. QED BY <1>1, <2>1, <2>2 DEF Await
<1>2. ASSUME Exchange(Top) PROVE Ending \/ Waiting
  <2>1. CASE WaitAt("send", Top, NewCall)
    BY <2>1, NewCallIs, Waits
  <2>2. CASE Await(Top)
    BY <2>2, <1>1
  <2>3. QED BY <1>2, <2>1, <2>2 DEF Exchange
<1>3. QED BY <1>1, <1>2

LEMMA DialForms ==
  ASSUME FlowTypeOK, Nested, DialUp
  PROVE  Ending \/ Waiting
<1>1. /\ StepRuns /\ pc = "dial"
      /\ Here.kind = "ws" /\ Here.opens
      /\ Top \in Frames /\ Here.session \in Session
  BY TopIs, HereIs DEF DialUp, At, WsUnchanged, StepRuns, Nested, Step
<1>2. PICK mid : mid = Marked(Top, Here.session, "open")
  OBVIOUS
<1>3. /\ Alike(mid, Top)
      /\ mid.ws = [Top.ws EXCEPT ![Here.session] = "open"]
  BY <1>1, <1>2, MarkedAlike
<1>4. conns' = conns \cup {<<Top.path, Here.session>>} /\ Exchange(mid)
  BY <1>2 DEF DialUp
<1>5. WsMoves(mid)
  BY <1>1, <1>3, <1>4 DEF WsMoves
<1>6. mid.ws[Here.session] = "open" /\ mid \in Frames
  BY <1>1, <1>3 DEF Frames, Alike
<1>7. ASSUME NEW p \in {"send", "receive"}, WaitAt(p, mid, NewCall)
      PROVE  Waiting
  BY <1>1, <1>3, <1>5, <1>6, <1>7, NewCallIs DEF Waiting
<1>8. ASSUME StepPassed(mid) PROVE Ending
  <2>1. EndsWith(Marked(Top, Here.session, "open"), {"none", "stop"})
    BY <1>1, <1>2, <1>3, <1>8, PassedEnds DEF StepRuns
  <2>2. QED BY <1>1, <1>4, <2>1, EndsMarked
<1>9. QED BY <1>4, <1>7, <1>8 DEF Exchange, Await

(* What a step does first.                                                 *)
LEMMA BeginForms ==
  ASSUME FlowTypeOK, Nested, BeginStep
  PROVE  Ending \/ Waiting \/ Using
<1>1. /\ StepRuns /\ pc = "head" /\ UNCHANGED conns
      /\ Top \in Frames /\ Here \in Step /\ Alike(Top, Top)
  <2>1. stack # <<>> /\ pc = "head" /\ Top \in Frames
    BY TopIs DEF BeginStep, At
  <2>2. AtStep(Top)
    <3>1. StepsOf[Top.flow] \in Seq(Step)
      BY <2>1, FlowAssumption DEF Frames
    <3>2. Top.at \in Nat \ {0} /\ Top.exit = "none" /\ Top.at <= Len(StepsOf[Top.flow])
      BY <2>1 DEF BeginStep, Frames
    <3>3. DOMAIN StepsOf[Top.flow] = 1 .. Len(StepsOf[Top.flow])
      BY <3>1, LenProperties
    <3>4. PICK n \in Nat : n = Len(StepsOf[Top.flow])
      BY <3>1, LenProperties
    <3>5. PICK k \in Nat \ {0} : k = Top.at
      BY <3>2
    <3>6. k \in 1 .. n
      BY <3>2, <3>4, <3>5
    <3>7. QED BY <3>2, <3>3, <3>4, <3>5, <3>6 DEF AtStep
  <2>3. QED BY <2>1, <2>2, HereIs, AlikeItself DEF BeginStep, StepRuns
<1>2. CASE CannotRun
  <2>1. EndsWith(Top, {"error"})
    BY <1>1, <1>2, ErredEnds DEF CannotRun, StepRuns
  <2>2. QED BY <1>1, <2>1, EndsUnmarked
<1>3. CASE Refused
  <2>1. CASE Here.kind = "ws"
    <3>1. Here.opens /\ Here.session \in Session
      BY <1>1, <1>3, <2>1 DEF Refused, MakesRequest, Step
    <3>2. Alike(Marked(Top, Here.session, "refused"), Top)
      BY <1>1, <3>1, MarkedAlike
    <3>3. StepFailed(Marked(Top, Here.session, "refused"))
      BY <1>3, <2>1 DEF Refused
    <3>4. EndsWith(Marked(Top, Here.session, "refused"), {"none", "stop"})
      BY <1>1, <3>2, <3>3, FailedOnce DEF StepRuns
    <3>5. QED BY <1>1, <2>1, <3>1, <3>4, EndsMarked
  <2>2. CASE Here.kind # "ws"
    <3>1. StepFailed(Top)
      BY <1>3, <2>2 DEF Refused
    <3>2. EndsWith(Top, {"none", "stop"})
      BY <1>1, <3>1, FailedOnce DEF StepRuns
    <3>3. QED BY <1>1, <2>2, <3>2, EndsUnmarked
  <2>3. QED BY <2>1, <2>2
<1>4. CASE BeginCall
  <2>1. Here.kind \in {"call", "grpc"} /\ WaitAt("try", Top, NewCall)
    BY <1>4 DEF BeginCall
  <2>2. QED BY <1>1, <2>1, NewCallIs, Waits
<1>5. CASE BeginSession
  <2>1. Here.kind = "ws" /\ Here.opens /\ WaitAt("dial", Top, NewCall)
    BY <1>5 DEF BeginSession
  <2>2. QED BY <1>1, <2>1, NewCallIs, Waits
<1>6. CASE OnOpenSession
  BY <1>1, <1>6, AwaitForms DEF OnOpenSession, Session0
<1>7. CASE OnDeadSession
  <2>1. EndsWith(Top, {"none", "stop"})
    BY <1>1, <1>7, FailedOnce DEF OnDeadSession, StepRuns
  <2>2. QED BY <1>1, <1>7, <2>1, EndsUnmarked DEF OnDeadSession, Session0
<1>8. CASE BeginUse
  BY <1>1, <1>8 DEF BeginUse, Using
<1>9. CASE Sleep
  <2>1. EndsWith(Top, {"none", "stop"})
    BY <1>1, <1>9, PassedEnds DEF Sleep, StepRuns
  <2>2. QED BY <1>1, <1>9, <2>1, EndsUnmarked DEF Sleep
<1>10. QED BY <1>2, <1>3, <1>4, <1>5, <1>6, <1>7, <1>8, <1>9 DEF BeginStep

(* A try ends, or the backoff after it; the flow itself is not touched.    *)
LEMMA ReceiveForms ==
  ASSUME FlowTypeOK, Nested, pc = "try", NEW a \in Answers(Here), Receive(a)
  PROVE  Moving
<1>1. a.status \in {"none", "ok", "busy", "throttle"} /\ a.err \in BOOLEAN
  <2>1. \/ a \in [status : {"ok", "busy", "throttle"}, err : {FALSE}]
        \/ a = NoAnswer
        \/ a \in [status : {"busy", "throttle"}, err : {TRUE}]
    BY DEF Answers
  <2>2. CASE a \in [status : {"ok", "busy", "throttle"}, err : {FALSE}]
    BY <2>2
  <2>3. CASE a = NoAnswer
    BY <2>3 DEF NoAnswer
  <2>4. CASE a \in [status : {"busy", "throttle"}, err : {TRUE}]
    BY <2>4
  <2>5. QED BY <2>1, <2>2, <2>3, <2>4
<1>2. io' = [io EXCEPT !.status = a.status, !.err = a.err, !.late = cancelled]
  BY DEF Receive
<1>3. io' \in Calls
  BY <1>1, <1>2 DEF FlowTypeOK, Calls
<1>4. pc' \in {"backoff", "judge"}
  BY DEF Receive
<1>5. stack # <<>> /\ AtStep(Top)
  BY DEF Nested
<1>6. StepRuns /\ UNCHANGED <<stack, conns, told, killed, limited>>
  BY <1>5 DEF Receive, CallUnchanged, StepRuns
<1>7. QED BY <1>3, <1>4, <1>6 DEF Moving

LEMMA TryForms ==
  ASSUME FlowTypeOK, Nested, Answered \/ CutOff \/ Retry \/ GiveUp
  PROVE  Moving
<1>1. CASE Answered
  BY <1>1, ReceiveForms DEF Answered, At
<1>2. CASE CutOff
  <2>1. NoAnswer \in Answers(Here)
    BY DEF Answers
  <2>2. QED BY <1>2, <2>1, ReceiveForms DEF CutOff, At
<1>3. CASE Retry
  <2>1. pc = "backoff" /\ pc' = "try" /\ StepRuns
        /\ UNCHANGED <<stack, conns, told, killed, limited>>
    BY <1>3 DEF Retry, At, CallUnchanged, StepRuns, Nested
  <2>2. NewCall \in Calls /\ io \in Calls
    BY NewCallIs DEF FlowTypeOK
  <2>3. PICK n \in Nat : n = io.n + 1
    BY <2>2 DEF Calls
  <2>4. io' = [NewCall EXCEPT !.n = n]
    BY <1>3, <2>3 DEF Retry
  <2>5. io' \in Calls
    BY <2>2, <2>4 DEF Calls
  <2>6. QED BY <2>1, <2>5 DEF Moving
<1>4. CASE GiveUp
  <2>1. pc = "backoff" /\ pc' = "judge" /\ StepRuns /\ io' = io
        /\ UNCHANGED <<stack, conns, told, killed, limited>>
    BY <1>4 DEF GiveUp, At, CallUnchanged, StepRuns, Nested
  <2>2. QED BY <2>1 DEF Moving, FlowTypeOK
<1>5. QED BY <1>1, <1>2, <1>3, <1>4

LEMMA JudgeForms ==
  ASSUME FlowTypeOK, Nested, Judge
  PROVE  Ending
<1>1. /\ StepRuns /\ UNCHANGED conns
      /\ Here.kind # "ws"
      /\ Alike(Top, Top)
  BY TopIs, AlikeItself DEF Judge, At, StepRuns, Nested
<1>2. EndsWith(Top, {"none", "stop"})
  <2>1. CASE StepThrottled(Top)
    BY <1>1, <2>1, ThrottledEnds DEF StepRuns
  <2>2. CASE StepFailed(Top)
    BY <1>1, <2>2, FailedOnce DEF StepRuns
  <2>3. CASE StepEvaluated(Top)
    BY <1>1, <2>3, EvaluatedEnds DEF StepRuns
  <2>4. QED BY <2>1, <2>2, <2>3 DEF Judge
<1>3. QED BY <1>1, <1>2, EndsUnmarked

(* The other steps of a session: a dial that failed, a frame sent, one     *)
(* received or not.                                                        *)
LEMMA SessionForms ==
  ASSUME FlowTypeOK, Nested,
         \/ DialThrottled \/ DialFailed
         \/ Tick \/ Matched \/ TimedOut \/ SkipFrame
         \/ Sent \/ FrameErred \/ TryAgainLater \/ SessionLost
  PROVE  Ending \/ Waiting \/ Moving
<1>1. pc \in {"dial", "send", "receive"} /\ Here.kind = "ws"
  BY DEF DialThrottled, DialFailed, Tick, Matched, TimedOut, SkipFrame, Sent,
         FrameErred, TryAgainLater, SessionLost, At, Nested
<1>2. /\ stack # <<>> /\ AtStep(Top)
      /\ UNCHANGED <<mode, cancelled, returned, begun>>
  BY DEF DialThrottled, DialFailed, Tick, Matched, TimedOut, SkipFrame, Sent, FrameErred,
         TryAgainLater, SessionLost, At, Nested, WsUnchanged, flowVars, historyVars
<1>3. StepRuns
  BY <1>1, <1>2 DEF StepRuns
<1>4. UNCHANGED conns
  BY DEF DialThrottled, DialFailed, Tick, Matched, TimedOut, SkipFrame, Sent, FrameErred,
         TryAgainLater, SessionLost, flowVars
<1>5. Top \in Frames /\ Here.session \in Session /\ Alike(Top, Top)
  BY <1>2, TopIs, HereIs, AlikeItself DEF Step
<1>6. ASSUME NEW state \in {"refused", "retired"}
      PROVE  Alike(Marked(Top, Here.session, state), Top)
  BY <1>5, MarkedAlike
<1>7. ASSUME NEW state \in {"refused", "retired"},
             \/ StepThrottled(Marked(Top, Here.session, state))
             \/ StepFailed(Marked(Top, Here.session, state)),
             \/ state = "refused" /\ pc = "dial"
             \/ state = "retired" /\ pc \in {"send", "receive"}
      PROVE  Ending
  <2>1. EndsWith(Marked(Top, Here.session, state), {"none", "stop"})
    BY <1>2, <1>6, <1>7, ThrottledEnds, FailedOnce
  <2>2. pc = "dial" => Here.opens
    BY DEF Nested
  <2>3. QED BY <1>1, <1>3, <1>4, <1>7, <2>1, <2>2, EndsMarked
<1>8. CASE DialThrottled
  BY <1>7, <1>8 DEF DialThrottled, At
<1>9. CASE DialFailed
  BY <1>7, <1>9 DEF DialFailed, At
<1>10. CASE TimedOut
  BY <1>7, <1>10 DEF TimedOut, At
<1>11. CASE TryAgainLater
  BY <1>7, <1>11 DEF TryAgainLater, At
<1>12. CASE SessionLost
  BY <1>7, <1>12 DEF SessionLost, At
<1>13. CASE Tick
  <2>1. /\ pc = "receive" /\ pc' = pc
        /\ UNCHANGED <<stack, conns, told, killed, limited>>
    BY <1>13 DEF Tick, At
  <2>2. io \in Calls /\ io.waited < ReceiveTimeout /\ io' = [io EXCEPT !.waited = @ + 1]
    BY <1>13 DEF Tick, FlowTypeOK
  <2>3. PICK w \in 0 .. ReceiveTimeout : w = io.waited + 1
    BY <2>2, FlowAssumption DEF Calls
  <2>4. io' = [io EXCEPT !.waited = w]
    BY <2>2, <2>3
  <2>5. io' \in Calls
    BY <2>2, <2>4 DEF Calls
  <2>6. QED BY <1>3, <2>1, <2>5 DEF Moving
<1>14. CASE SkipFrame
  <2>1. /\ pc = "receive"
        /\ UNCHANGED <<pc, io, stack, conns, told, killed, limited>>
    BY <1>14 DEF SkipFrame, At, flowVars, historyVars
  <2>2. QED BY <1>3, <2>1 DEF Moving, FlowTypeOK
<1>15. CASE Matched
  <2>1. pc = "receive" /\ StepEvaluated(Top)
    BY <1>15 DEF Matched, At
  <2>2. EndsWith(Top, {"none", "stop"})
    BY <1>2, <1>5, <2>1, EvaluatedEnds
  <2>3. Session0 = "open"
    BY <2>1 DEF Nested, Session0
  <2>4. QED BY <1>3, <1>4, <2>2, <2>3, EndsUnmarked
<1>16. CASE Sent
  <2>1. pc = "send" /\ Await(Top)
    BY <1>16 DEF Sent, At
  <2>2. Session0 = "open"
    BY <2>1 DEF Nested, Session0
  <2>3. QED BY <1>1, <1>3, <1>4, <2>1, <2>2, AwaitForms
<1>17. CASE FrameErred
  <2>1. EndsWith(Top, {"error"})
    BY <1>2, <1>5, <1>17, ErredEnds DEF FrameErred
  <2>2. QED BY <1>3, <1>4, <2>1, EndsUnmarked
<1>18. QED
  BY <1>8, <1>9, <1>10, <1>11, <1>12, <1>13, <1>14, <1>15, <1>16, <1>17

(* A step of RunFlow takes one of these forms.                             *)
Forms == Ending \/ Waiting \/ Moving \/ Using \/ EndUse \/ ReturnFlow

LEMMA StepForms ==
  ASSUME FlowTypeOK, Nested, RunFlowStep
  PROVE  Forms
BY BeginForms, TryForms, JudgeForms, DialForms, SessionForms
   DEF RunFlowStep, Progress, SendUnblocked, Forms

-------------------------------------------------------------------------------
(* A used flow is entered and left. *)

LEMMA EnteredIs ==
  ASSUME FlowTypeOK, NEW f \in FlowName, NEW path \in Paths
  PROVE  /\ NewFrame(f, path) \in Frames
         /\ Append(stack, NewFrame(f, path)) \in Seq(Frames)
         /\ Len(Append(stack, NewFrame(f, path))) = Len(stack) + 1
         /\ Append(stack, NewFrame(f, path))[Len(stack) + 1] = NewFrame(f, path)
         /\ \A i \in 1 .. Len(stack) : Append(stack, NewFrame(f, path))[i] = stack[i]
<1>1. NewFrame(f, path) \in Frames
  <2>1. <<>> \in Seq(Paths)
    BY EmptySeq
  <2>2. QED BY <2>1 DEF NewFrame, Frames
<1>2. stack \in Seq(Frames)
  BY DEF FlowTypeOK
<1>3. QED BY <1>1, <1>2, AppendProperties

Left(g) == [Front(stack) EXCEPT ![Len(stack) - 1] = g]

LEMMA LeftIs ==
  ASSUME FlowTypeOK, Len(stack) > 1, NEW g \in Frames
  PROVE  /\ Left(g) \in Seq(Frames)
         /\ Left(g) # <<>>
         /\ Len(Left(g)) = Len(stack) - 1
         /\ Left(g)[Len(stack) - 1] = g
         /\ \A i \in 1 .. Len(stack) - 2 : Left(g)[i] = stack[i]
<1>1. PICK n \in Nat : n = Len(stack) /\ n > 1
  BY LenProperties DEF FlowTypeOK
<1>2. stack \in Seq(Frames)
  BY DEF FlowTypeOK
<1>3. \A i \in 1 .. n - 1 : stack[i] \in Frames
  BY <1>1, <1>2, ElementOfSeq
<1>4. PICK low : low = SubSeq(stack, 1, n - 1)
  OBVIOUS
<1>5. /\ low \in Seq(Frames)
      /\ Len(low) = n - 1
      /\ \A i \in 1 .. n - 1 : low[i] = stack[i]
  <2>1. 1 \in Int /\ n - 1 \in Int /\ 1 <= n - 1
    BY <1>1
  <2>2. /\ SubSeq(stack, 1, n - 1) \in Seq(Frames)
        /\ Len(SubSeq(stack, 1, n - 1)) = (n - 1) - 1 + 1
        /\ \A i \in 1 .. (n - 1) - 1 + 1 : SubSeq(stack, 1, n - 1)[i] = stack[1 + i - 1]
    BY <1>3, <2>1, SubSeqProperties
  <2>3. /\ (n - 1) - 1 + 1 = n - 1
        /\ \A i \in 1 .. n - 1 : 1 + i - 1 = i
    BY <1>1
  <2>4. QED BY <1>4, <2>2, <2>3
<1>6. Left(g) = [low EXCEPT ![n - 1] = g]
  BY <1>1, <1>4 DEF Left, Front
<1>7. n - 1 \in 1 .. Len(low)
  BY <1>1, <1>5
<1>8. /\ Left(g) \in Seq(Frames)
      /\ Len(Left(g)) = Len(low)
      /\ Left(g)[n - 1] = g
      /\ \A i \in 1 .. Len(low) : i # n - 1 => Left(g)[i] = low[i]
  BY <1>5, <1>6, <1>7
<1>9. QED BY <1>1, <1>5, <1>8

(* The caller's frame after the used flow.                                 *)
Prefixed(id, failures) == [i \in DOMAIN failures |-> <<id>> \o failures[i]]

LEMMA OneIsSeq ==
  ASSUME NEW S, NEW e \in S
  PROVE  <<e>> \in Seq(S)
OBVIOUS

LEMMA OneIsPath ==
  ASSUME NEW id \in STRING
  PROVE  <<id>> \in Paths
BY OneIsSeq DEF Paths

LEMMA PrefixedIs ==
  ASSUME NEW failures \in Seq(Paths), NEW id \in STRING
  PROVE  /\ Prefixed(id, failures) \in Seq(Paths)
         /\ Len(Prefixed(id, failures)) = Len(failures)
         /\ \A i \in 1 .. Len(failures) : Prefixed(id, failures)[i] = <<id>> \o failures[i]
<1>1. <<id>> \in Paths
  BY OneIsPath
<1>2. PICK n \in Nat : n = Len(failures) /\ DOMAIN failures = 1 .. n
  BY LenProperties
<1>3. \A i \in 1 .. n : failures[i] \in Paths
  BY <1>2, ElementOfSeq
<1>4. \A i \in 1 .. n : <<id>> \o failures[i] \in Paths
  BY <1>1, <1>3, ConcatProperties DEF Paths
<1>5. Prefixed(id, failures) = [i \in 1 .. n |-> <<id>> \o failures[i]]
  BY <1>2 DEF Prefixed
<1>6. Prefixed(id, failures) \in [1 .. n -> Paths]
  BY <1>4, <1>5
<1>7. PICK up \in [1 .. n -> Paths] : up = Prefixed(id, failures)
  BY <1>6
<1>8. up \in Seq(Paths) /\ Len(up) = n
  OBVIOUS
<1>9. QED BY <1>2, <1>5, <1>7, <1>8

Judges(sub, st) ==
  /\ sub.exit # "error" /\ ~ sub.aborted /\ sub.failures # <<>>
  /\ EffectiveAction(st) = "abort_run"

UsedIn(par, sub, st, g) ==
  /\ g \in Frames
  /\ g.flow = par.flow /\ g.path = par.path /\ g.ws = par.ws
  /\ g.failures = par.failures \o Prefixed(Last(sub.path), sub.failures)
  /\ g.throttled <=> par.throttled \/ sub.throttled
  /\ g.aborted <=> par.aborted \/ sub.aborted \/ Judges(sub, st)
  /\ g.exit = IF sub.exit = "error" THEN "error"
              ELSE IF sub.aborted THEN "stop"
              ELSE IF sub.failures = <<>> THEN "none"
              ELSE IF GoesOn(st) THEN "none" ELSE "stop"
  /\ g.at = IF g.exit = "none" THEN par.at + 1 ELSE par.at
  /\ g.outcome = "ok" => par.outcome = "ok" /\ sub.outcome = "ok"
  /\ g.outcome = "throttled" => par.outcome = "throttled" \/ sub.outcome = "throttled"

LEMMA UsedIs ==
  ASSUME NEW par \in Frames, NEW sub \in Frames, NEW st \in Step,
         sub.path # <<>>, par.exit = "none"
  PROVE  UsedIn(par, sub, st, Used(par, sub, st))
<1>1. PICK m : m = Merged(par, sub)
  OBVIOUS
<1>2. /\ m \in Frames
      /\ m.flow = par.flow /\ m.path = par.path /\ m.ws = par.ws
      /\ m.at = par.at /\ m.exit = par.exit /\ m.outcome = par.outcome
      /\ m.failures = par.failures \o Prefixed(Last(sub.path), sub.failures)
      /\ m.throttled <=> par.throttled \/ sub.throttled
      /\ m.aborted <=> par.aborted \/ sub.aborted
  <2>1. PICK id \in STRING : id = Last(sub.path)
    <3>1. sub.path \in Seq(STRING)
      BY DEF Frames, Paths
    <3>2. Len(sub.path) \in 1 .. Len(sub.path)
      BY <3>1, LenProperties
    <3>3. QED BY <3>1, <3>2, ElementOfSeq DEF Last
  <2>2. sub.failures \in Seq(Paths) /\ par.failures \in Seq(Paths)
    BY DEF Frames
  <2>3. PICK up \in Seq(Paths) : up = Prefixed(id, sub.failures)
    BY <2>2, PrefixedIs
  <2>6. PICK all \in Seq(Paths) : all = par.failures \o up
    BY <2>2, ConcatProperties
  <2>7. m = [par EXCEPT !.failures = all, !.throttled = @ \/ sub.throttled,
                        !.aborted = @ \/ sub.aborted]
    BY <1>1, <2>1, <2>3, <2>6 DEF Merged, Prefixed
  <2>8. QED BY <2>1, <2>3, <2>6, <2>7 DEF Frames
<1>3. PICK g : g = Used(par, sub, st)
  OBVIOUS
<1>4. par.outcome \in Outcomes /\ sub.outcome \in Outcomes
  BY DEF Frames, Outcomes
<1>5. PICK w \in Outcomes : w = Worst(par.outcome, sub.outcome)
  BY <1>4, WorstIs
<1>6. /\ w = "ok" => par.outcome = "ok" /\ sub.outcome = "ok"
      /\ w = "throttled" => par.outcome = "throttled" \/ sub.outcome = "throttled"
  BY <1>4, <1>5, WorstIs
<1>7. ASSUME sub.exit = "error" PROVE UsedIn(par, sub, st, g)
  <2>1. g = Erred([m EXCEPT !.outcome = w])
    BY <1>1, <1>2, <1>3, <1>5, <1>7 DEF Used
  <2>2. /\ g \in Frames
        /\ g.flow = m.flow /\ g.path = m.path /\ g.ws = m.ws
        /\ g.failures = m.failures /\ g.at = m.at
        /\ g.throttled = m.throttled /\ g.aborted = m.aborted
        /\ g.exit = "error" /\ g.outcome = w
    BY <1>2, <2>1 DEF Erred, Frames, Outcomes
  <2>3. QED BY <1>2, <1>6, <1>7, <2>2 DEF UsedIn, Judges
<1>8. ASSUME sub.exit # "error", sub.aborted PROVE UsedIn(par, sub, st, g)
  <2>1. g = Added(m, sub.outcome, FALSE)
    BY <1>1, <1>3, <1>8 DEF Used
  <2>2. AddedTo(m, sub.outcome, FALSE, g)
    BY <1>2, <1>4, <2>1, AddedIs
  <2>3. g.outcome = w
    BY <1>2, <1>5, <2>2 DEF AddedTo
  <2>4. QED BY <1>2, <1>6, <1>8, <2>2, <2>3 DEF UsedIn, AddedTo, Judges
<1>9. ASSUME sub.exit # "error", ~ sub.aborted, sub.failures = <<>>
      PROVE  UsedIn(par, sub, st, g)
  <2>1. g = Added(m, sub.outcome, TRUE)
    BY <1>1, <1>3, <1>9 DEF Used
  <2>2. AddedTo(m, sub.outcome, TRUE, g)
    BY <1>2, <1>4, <2>1, AddedIs
  <2>3. g.outcome = w
    BY <1>2, <1>5, <2>2 DEF AddedTo
  <2>4. g.at = par.at + 1
    BY <1>2, <2>2 DEF AddedTo
  <2>5. QED BY <1>2, <1>6, <1>9, <2>2, <2>3, <2>4 DEF UsedIn, AddedTo, Judges
<1>10. ASSUME sub.exit # "error", ~ sub.aborted, sub.failures # <<>>
       PROVE  UsedIn(par, sub, st, g)
  <2>1. PICK h : h = [m EXCEPT !.aborted = @ \/ EffectiveAction(st) = "abort_run"]
    OBVIOUS
  <2>2. /\ h \in Frames
        /\ h.flow = m.flow /\ h.path = m.path /\ h.ws = m.ws
        /\ h.failures = m.failures /\ h.at = m.at /\ h.outcome = m.outcome
        /\ h.throttled = m.throttled
        /\ h.aborted <=> m.aborted \/ EffectiveAction(st) = "abort_run"
    BY <1>2, <2>1 DEF Frames
  <2>3. GoesOn(st) \in BOOLEAN
    BY DEF GoesOn
  <2>4. g = Added(h, "failed", GoesOn(st))
    BY <1>1, <1>3, <1>10, <2>1 DEF Used
  <2>5. AddedTo(h, "failed", GoesOn(st), g)
    BY <2>2, <2>3, <2>4, AddedIs DEF Outcomes
  <2>6. g.outcome = "ok" => par.outcome = "ok" /\ sub.outcome = "ok"
    BY <1>2, <1>4, <2>2, <2>5, WorstIs DEF AddedTo, Outcomes
  <2>7. g.outcome = "throttled" => par.outcome = "throttled"
    BY <1>2, <1>4, <2>2, <2>5, WorstIs DEF AddedTo, Outcomes
  <2>8. g.at = IF g.exit = "none" THEN par.at + 1 ELSE par.at
    BY <1>2, <2>2, <2>5 DEF AddedTo
  <2>9. QED BY <1>2, <1>10, <2>2, <2>5, <2>6, <2>7, <2>8 DEF UsedIn, AddedTo, Judges
<1>11. UsedIn(par, sub, st, g)
  BY <1>7, <1>8, <1>9, <1>10
<1>12. QED BY <1>3, <1>11

(* The frame below the top, when there is one, and what its step becomes.  *)
Below == stack[Len(stack) - 1]

LEMMA BelowIs ==
  ASSUME FlowTypeOK, Nested, Len(stack) > 1
  PROVE  /\ Below \in Frames /\ AtStep(Below)
         /\ StepOf(Below) \in Step /\ StepOf(Below).kind = "use"
         /\ Top.path = Append(Below.path, StepOf(Below).id)
         /\ Top.path # <<>> /\ Last(Top.path) = StepOf(Below).id
<1>1. PICK n \in Nat : n = Len(stack) /\ n > 1
  BY LenProperties DEF FlowTypeOK
<1>2. n - 1 \in 1 .. n - 1 /\ n - 1 \in 1 .. n /\ (n - 1) + 1 = n
  BY <1>1
<1>3. Below \in Frames
  BY <1>1, <1>2, ElementOfSeq DEF Below, FlowTypeOK
<1>4. /\ AtStep(Below) /\ StepOf(Below).kind = "use"
      /\ stack[n].path = Append(Below.path, StepOf(Below).id)
  BY <1>1, <1>2 DEF Nested, Below
<1>5. stack # <<>>
  BY <1>1
<1>6. Top.path = Append(Below.path, StepOf(Below).id)
  BY <1>1, <1>4, <1>5, TopIs
<1>7. StepsOf[Below.flow] \in Seq(Step)
  BY <1>3, FlowAssumption DEF Frames
<1>8. Below.at \in 1 .. Len(StepsOf[Below.flow])
  BY <1>4, <1>7, LenProperties DEF AtStep
<1>9. StepOf(Below) \in Step
  BY <1>7, <1>8, ElementOfSeq DEF StepOf
<1>10. PICK id \in STRING : id = StepOf(Below).id
  BY <1>9 DEF Step
<1>11. PICK p \in Seq(STRING) : p = Below.path
  BY <1>3 DEF Frames, Paths
<1>12. Append(p, id) # <<>> /\ Last(Append(p, id)) = id
  BY <1>10, <1>11 DEF Last
<1>13. QED BY <1>3, <1>4, <1>6, <1>9, <1>10, <1>11, <1>12

Returning(g) ==
  /\ UsedIn(Below, Top, StepOf(Below), g)
  /\ stack' = Left(g)
  /\ killed' = IF Judges(Top, StepOf(Below)) THEN Top.path ELSE killed
  /\ conns' = conns \ Sessions(Top)
  /\ UNCHANGED <<mode, pc, io, cancelled, returned, told, limited, begun, lateTries>>

LEMMA EndUseIs ==
  ASSUME FlowTypeOK, Nested, EndUse
  PROVE  /\ pc = "head" /\ stack # <<>> /\ Len(stack) > 1
         /\ \E g \in Frames : Returning(g)
<1>1. pc = "head" /\ stack # <<>> /\ Len(stack) > 1
  BY DEF EndUse, Ended, At
<1>2. /\ Below \in Frames /\ Below.exit = "none"
      /\ StepOf(Below) \in Step
      /\ Top \in Frames /\ Top.path # <<>>
  BY <1>1, BelowIs, TopIs DEF AtStep
<1>3. PICK g : g = Used(Below, Top, StepOf(Below))
  OBVIOUS
<1>4. UsedIn(Below, Top, StepOf(Below), g)
  BY <1>2, <1>3, UsedIs
<1>5. /\ stack' = Left(g)
      /\ killed' = IF Judges(Top, StepOf(Below)) THEN Top.path ELSE killed
  BY <1>3 DEF EndUse, Left, Below, StepOf, Judges
<1>6. Returning(g)
  BY <1>4, <1>5 DEF Returning, EndUse
<1>7. QED BY <1>1, <1>4, <1>6 DEF UsedIn

(* What the validator says of the steps of a flow that passed it.          *)
LEMMA ValidIs ==
  ASSUME NEW f, Valid(f)
  PROVE  /\ f \in FlowName
         /\ IdsDiffer(f) /\ SessionsResolve(f)
         /\ \A i \in DOMAIN StepsOf[f] :
              StepsOf[f][i].kind = "use" =>
                StepsOf[f][i].uses \in FlowName /\ Valid(StepsOf[f][i].uses)
<1>1. PICK flows \in SUBSET FlowName :
        /\ f \in flows
        /\ \A g \in flows :
             /\ IdsDiffer(g)
             /\ SessionsResolve(g)
             /\ \A i \in DOMAIN StepsOf[g] :
                  StepsOf[g][i].kind = "use" => StepsOf[g][i].uses \in flows
  BY DEF Valid
<1>2. \A g \in flows : g \in FlowName /\ Valid(g)
  BY <1>1 DEF Valid
<1>3. QED BY <1>1, <1>2

LEMMA UsingIs ==
  ASSUME FlowTypeOK, Nested, Using
  PROVE  /\ Here \in Step /\ Here = StepOf(Top) /\ Here.kind = "use"
         /\ Top \in Frames
         /\ Path \in Paths /\ Path = Append(Top.path, Here.id)
         /\ Here.uses \in FlowName /\ Valid(Here.uses)
         /\ NewFrame(Here.uses, Path) \in Frames
<1>1. stack # <<>> /\ AtStep(Top) /\ Here.kind = "use"
  BY DEF Using, StepRuns
<1>2. Top \in Frames /\ Top = stack[Len(stack)] /\ Len(stack) \in 1 .. Len(stack)
  BY <1>1, TopIs
<1>3. Valid(Top.flow)
  BY <1>2 DEF Nested
<1>4. Here.uses \in FlowName /\ Valid(Here.uses)
  BY <1>1, <1>3, ValidIs DEF Here, AtStep
<1>5. QED BY <1>1, <1>2, <1>4, HereIs, EnteredIs

-------------------------------------------------------------------------------
(* Types. *)

LEMMA RunTypes ==
  ASSUME FlowTypeOK, Nested, StepRuns
  PROVE  /\ mode' \in {"integration", "load"} /\ cancelled' \in BOOLEAN
         /\ returned' \in Returns \cup {Unreturned}
         /\ begun' \in SUBSET Paths
         /\ Path \in Paths /\ Top \in Frames /\ Here \in Step
         /\ stack \in Seq(Frames) /\ stack # <<>>
BY HereIs, TopIs DEF StepRuns, FlowTypeOK

LEMMA WsTypes ==
  ASSUME FlowTypeOK, StepRuns, NEW fr, WsMoves(fr)
  PROVE  conns' \in SUBSET (Paths \X Session)
<1>1. Top.path \in Paths /\ Here.session \in Session
  BY HereIs, TopIs DEF StepRuns, Frames, Step
<1>2. QED BY <1>1 DEF WsMoves, FlowTypeOK

LEMMA TriesType ==
  ASSUME FlowTypeOK, RunFlowStep
  PROVE  lateTries' \in Nat
<1>1. lateTries \in Nat
  BY DEF FlowTypeOK
<1>2. CASE BeginStep
  <2>1. lateTries' = 0 \/ lateTries' = 1
    BY <1>2 DEF BeginStep
  <2>2. QED BY <2>1
<1>3. CASE Retry
  <2>1. lateTries' = lateTries + 1 \/ lateTries' = lateTries
    BY <1>3 DEF Retry
  <2>2. QED BY <1>1, <2>1
<1>4. CASE ~ BeginStep /\ ~ Retry
  <2>1. UNCHANGED lateTries
    BY <1>4 DEF RunFlowStep, Progress, SendUnblocked, Answered, CutOff, Receive, GiveUp, Judge,
       DialUp, DialThrottled, DialFailed, Tick, Matched, TimedOut, EndUse, ReturnFlow, Sent,
       FrameErred, TryAgainLater, SessionLost, SkipFrame, WsUnchanged, historyVars, flowVars
  <2>2. QED BY <1>1, <2>1
<1>5. QED BY <1>2, <1>3, <1>4

LEMMA FlowTypeStep ==
  ASSUME FlowTypeOK, Nested, RunFlowStep
  PROVE  FlowTypeOK'
<1>1. lateTries' \in Nat
  BY TriesType
<1>2. CASE Ending
  <2>1. PICK fr \in Frames, n \in Nat, throttle \in BOOLEAN :
          EndsAs(fr, n, throttle) /\ WsMoves(fr)
    BY <1>2 DEF Ending
  <2>2. StepRuns /\ EndStep(fr, n, throttle)
    BY <1>2, <2>1 DEF Ending, EndsAs
  <2>3. stack' \in Seq(Frames)
    BY <2>2, RunTypes, OnTopIs DEF EndStep
  <2>4. told' \in Seq(Paths)
    <3>1. Path \in Paths /\ told \in Seq(Paths)
      BY <2>2, RunTypes DEF FlowTypeOK
    <3>2. PICK path \in Paths : path = Path
      BY <3>1
    <3>3. [i \in 1 .. n |-> path] \in Seq(Paths)
      BY <2>1, <3>2
    <3>4. told' = told \o [i \in 1 .. n |-> path]
      BY <2>2, <3>2 DEF EndStep
    <3>5. QED BY <3>1, <3>3, <3>4, ConcatProperties
  <2>5. killed' \in Paths
    BY <2>2, RunTypes DEF EndStep, FlowTypeOK
  <2>6. limited' \in BOOLEAN /\ pc' = "head" /\ io' \in Calls
    BY <2>2, NewCallIs DEF EndStep
  <2>7. conns' \in SUBSET (Paths \X Session)
    BY <2>1, <2>2, WsTypes
  <2>8. QED BY <1>1, <2>2, <2>3, <2>4, <2>5, <2>6, <2>7, RunTypes DEF FlowTypeOK
<1>3. CASE Waiting
  <2>1. PICK fr \in Frames, p \in {"try", "dial", "send", "receive"}, call \in Calls :
          WaitAt(p, fr, call) /\ WsMoves(fr)
    BY <1>3 DEF Waiting
  <2>2. StepRuns
    BY <1>3 DEF Waiting
  <2>3. stack' \in Seq(Frames)
    BY <2>1, <2>2, RunTypes, OnTopIs DEF WaitAt
  <2>4. pc' = p /\ io' \in Calls /\ UNCHANGED <<told, killed, limited>>
    BY <2>1 DEF WaitAt
  <2>5. conns' \in SUBSET (Paths \X Session)
    BY <2>1, <2>2, WsTypes
  <2>6. QED BY <1>1, <2>2, <2>3, <2>4, <2>5, RunTypes DEF FlowTypeOK
<1>4. CASE Moving
  BY <1>1, <1>4, RunTypes DEF Moving, FlowTypeOK
<1>5. CASE Using
  <2>1. stack' \in Seq(Frames)
    BY <1>5, UsingIs, EnteredIs DEF Using
  <2>2. StepRuns
    BY <1>5 DEF Using
  <2>3. UNCHANGED <<pc, io, conns, told, killed, limited>>
    BY <1>5 DEF Using
  <2>4. QED BY <1>1, <2>1, <2>2, <2>3, RunTypes DEF FlowTypeOK
<1>6. CASE EndUse
  <2>1. Len(stack) > 1 /\ stack # <<>>
    BY <1>6, EndUseIs
  <2>2. PICK g \in Frames : Returning(g)
    BY <1>6, EndUseIs
  <2>3. stack' \in Seq(Frames)
    BY <2>1, <2>2, LeftIs DEF Returning
  <2>4. killed' \in Paths /\ conns' \in SUBSET (Paths \X Session)
    BY <2>1, <2>2, TopIs DEF Returning, FlowTypeOK, Frames
  <2>5. QED BY <2>2, <2>3, <2>4 DEF Returning, FlowTypeOK
<1>7. CASE ReturnFlow
  <2>1. Top \in Frames
    BY <1>7, TopIs DEF ReturnFlow, Ended, At
  <2>2. PICK err \in BOOLEAN : err = (Top.exit = "error")
    OBVIOUS
  <2>3. returned' = [flow |-> Top.flow, failures |-> Top.failures,
                     throttled |-> Top.throttled, aborted |-> Top.aborted,
                     outcome |-> Top.outcome, err |-> err]
    BY <1>7, <2>2 DEF ReturnFlow
  <2>4. returned' \in Returns
    BY <2>1, <2>3 DEF Frames, Returns
  <2>5. stack' \in Seq(Frames)
    BY <1>7, EmptySeq DEF ReturnFlow
  <2>6. conns' \in SUBSET (Paths \X Session)
    BY <1>7 DEF ReturnFlow, FlowTypeOK
  <2>7. UNCHANGED <<mode, pc, io, cancelled, historyVars>>
    BY <1>7 DEF ReturnFlow
  <2>8. QED BY <2>4, <2>5, <2>6, <2>7 DEF FlowTypeOK, historyVars
<1>8. QED BY <1>2, <1>3, <1>4, <1>5, <1>6, <1>7, StepForms DEF Forms

-------------------------------------------------------------------------------
(* Used flows lie above the steps that use them. *)

(* The step on top has not left its frame: the frames below are as they    *)
(* were, and the one on top is of the same flow.                           *)
StaysOn(fr) ==
  /\ stack # <<>> /\ stack' = OnTop(fr)
  /\ fr \in Frames /\ fr.flow = Top.flow /\ fr.path = Top.path

LEMMA StaysOnIs ==
  ASSUME FlowTypeOK, NEW fr, StaysOn(fr)
  PROVE  /\ stack' # <<>> /\ Len(stack') = Len(stack)
         /\ Len(stack) \in Nat \ {0}
         /\ Top = stack[Len(stack)] /\ Top' = fr
         /\ stack'[Len(stack)] = fr
         /\ \A i \in 1 .. Len(stack) - 1 : stack'[i] = stack[i]
<1>1. /\ stack' # <<>> /\ Len(stack') = Len(stack)
      /\ stack'[Len(stack)] = fr
      /\ \A i \in 1 .. Len(stack) - 1 : stack'[i] = stack[i]
  BY OnTopIs DEF StaysOn
<1>2. Top' = fr
  BY <1>1 DEF Top, Last
<1>3. QED BY <1>1, <1>2, TopIs DEF StaysOn

Chained ==
  /\ \A i \in 1 .. Len(stack) : Valid(stack[i].flow)
  /\ stack # <<>> => stack[1].path = <<>>
  /\ \A i \in 1 .. Len(stack) - 1 :
       /\ AtStep(stack[i])
       /\ StepOf(stack[i]).kind = "use"
       /\ stack[i + 1].path = Append(stack[i].path, StepOf(stack[i]).id)

LEMMA StaysChained ==
  ASSUME FlowTypeOK, Nested, NEW fr, StaysOn(fr)
  PROVE  Chained'
<1>1. PICK n \in Nat \ {0} : n = Len(stack)
  BY StaysOnIs
<1>2. /\ stack' # <<>> /\ Len(stack') = n
      /\ stack[n] = Top /\ stack'[n] = fr
      /\ \A i \in 1 .. n - 1 : stack'[i] = stack[i]
  BY <1>1, StaysOnIs
<1>3. \A i \in 1 .. n : stack'[i].flow = stack[i].flow /\ stack'[i].path = stack[i].path
  <2>1. TAKE i \in 1 .. n
  <2>2. CASE i = n
    BY <1>2, <2>2 DEF StaysOn
  <2>3. CASE i # n
    <3>1. i \in 1 .. n - 1
      BY <1>1, <2>3
    <3>2. QED BY <1>2, <3>1
  <2>4. QED BY <2>2, <2>3
<1>4. \A i \in 1 .. n : Valid(stack'[i].flow)
  BY <1>1, <1>3 DEF Nested
<1>5. stack'[1].path = <<>>
  BY <1>1, <1>3 DEF Nested, StaysOn
<1>6. \A i \in 1 .. n - 1 :
        /\ AtStep(stack'[i])
        /\ StepOf(stack'[i]).kind = "use"
        /\ stack'[i + 1].path = Append(stack'[i].path, StepOf(stack'[i]).id)
  <2>1. TAKE i \in 1 .. n - 1
  <2>2. stack'[i] = stack[i] /\ i + 1 \in 1 .. n
    BY <1>1, <1>2
  <2>3. stack'[i + 1].path = stack[i + 1].path
    BY <1>3, <2>2
  <2>4. QED BY <1>1, <2>2, <2>3 DEF Nested
<1>7. QED BY <1>2, <1>4, <1>5, <1>6 DEF Chained, AtStep, StepOf

LEMMA RunsUnreturned ==
  ASSUME Nested, StepRuns
  PROVE  returned' = Unreturned /\ returned = Unreturned
BY DEF Nested, StepRuns

LEMMA NestedStep ==
  ASSUME FlowTypeOK, Nested, RunFlowStep
  PROVE  Nested'
<1>1. CASE Ending
  <2>1. PICK fr \in Frames, n \in Nat, throttle \in BOOLEAN : EndsAs(fr, n, throttle)
    BY <1>1 DEF Ending
  <2>2. StaysOn(fr) /\ pc' = "head"
    BY <1>1, <2>1 DEF Ending, StepRuns, EndsAs, EndStep, StaysOn
  <2>3. Chained'
    BY <2>2, StaysChained
  <2>4. returned' = Unreturned
    BY <1>1, RunsUnreturned DEF Ending
  <2>5. QED BY <2>2, <2>3, <2>4 DEF Nested, Chained
<1>2. CASE Waiting
  <2>1. PICK fr \in Frames, p \in {"try", "dial", "send", "receive"}, call \in Calls :
          /\ WaitAt(p, fr, call)
          /\ Alike(fr, Top)
          /\ p = "try" => Here.kind \in {"call", "grpc"}
          /\ p = "dial" => Here.kind = "ws" /\ Here.opens
          /\ p \in {"send", "receive"} => Here.kind = "ws" /\ fr.ws[Here.session] = "open"
    BY <1>2 DEF Waiting
  <2>2. StaysOn(fr) /\ pc' = p
    BY <1>2, <2>1 DEF Waiting, StepRuns, WaitAt, StaysOn, Alike
  <2>3. Chained' /\ Top' = fr /\ stack' # <<>>
    BY <2>2, StaysChained, StaysOnIs
  <2>4. returned' = Unreturned /\ AtStep(Top)
    BY <1>2, RunsUnreturned DEF Waiting, StepRuns
  <2>5. AtStep(fr)
    BY <2>1, <2>4 DEF AtStep, Alike
  <2>6. Here' = Here
    BY <2>1, <2>3 DEF Here, Alike
  <2>7. QED BY <2>1, <2>2, <2>3, <2>4, <2>5, <2>6 DEF Nested, Chained
<1>3. CASE Moving
  <2>1. /\ UNCHANGED stack /\ pc # "head"
        /\ pc' = pc \/ (pc \in {"try", "backoff"} /\ pc' \in {"try", "backoff", "judge"})
    BY <1>3 DEF Moving
  <2>2. Top' = Top /\ Here' = Here
    BY <2>1 DEF Top, Here, Last
  <2>3. returned' = Unreturned
    BY <1>3, RunsUnreturned DEF Moving
  <2>4. QED BY <2>1, <2>2, <2>3 DEF Nested, AtStep, StepOf
<1>4. CASE Using
  <2>1. PICK fr \in Frames : fr = NewFrame(Here.uses, Path)
    BY <1>4, UsingIs
  <2>2. /\ fr.flow = Here.uses /\ fr.path = Path
        /\ Valid(fr.flow)
        /\ fr.path = Append(Top.path, StepOf(Top).id) /\ StepOf(Top).kind = "use"
        /\ AtStep(Top)
    BY <1>4, <2>1, UsingIs DEF NewFrame, Using, StepRuns
  <2>3. PICK n \in Nat \ {0} : n = Len(stack) /\ stack[n] = Top
    BY <1>4, TopIs DEF Using, StepRuns
  <2>4. /\ stack' # <<>> /\ Len(stack') = n + 1
        /\ stack'[n + 1] = fr
        /\ \A i \in 1 .. n : stack'[i] = stack[i]
    <3>1. /\ Len(stack') = n + 1
          /\ stack'[n + 1] = fr
          /\ \A i \in 1 .. n : stack'[i] = stack[i]
      BY <1>4, <2>1, <2>3, UsingIs, EnteredIs DEF Using
    <3>2. QED BY <2>3, <3>1
  <2>5. \A i \in 1 .. n + 1 : Valid(stack'[i].flow)
    <3>1. TAKE i \in 1 .. n + 1
    <3>2. CASE i = n + 1
      BY <2>2, <2>4, <3>2
    <3>3. CASE i # n + 1
      <4>1. i \in 1 .. n
        BY <2>3, <3>3
      <4>2. QED BY <2>3, <2>4, <4>1 DEF Nested
    <3>4. QED BY <3>2, <3>3
  <2>6. stack'[1].path = <<>>
    BY <2>3, <2>4 DEF Nested
  <2>7. \A i \in 1 .. n :
          /\ AtStep(stack'[i])
          /\ StepOf(stack'[i]).kind = "use"
          /\ stack'[i + 1].path = Append(stack'[i].path, StepOf(stack'[i]).id)
    <3>1. TAKE i \in 1 .. n
    <3>2. CASE i = n
      BY <2>2, <2>3, <2>4, <3>2
    <3>3. CASE i # n
      <4>1. i \in 1 .. n - 1 /\ i + 1 \in 1 .. n
        BY <2>3, <3>3
      <4>2. QED BY <2>3, <2>4, <4>1 DEF Nested
    <3>4. QED BY <3>2, <3>3
  <2>8. pc' = "head" /\ returned' = Unreturned
    BY <1>4, RunsUnreturned DEF Using
  <2>9. (n + 1) - 1 = n
    BY <2>3
  <2>10. QED BY <2>4, <2>5, <2>6, <2>7, <2>8, <2>9 DEF Nested, AtStep, StepOf
<1>5. CASE EndUse
  <2>1. pc = "head" /\ stack # <<>> /\ Len(stack) > 1
    BY <1>5, EndUseIs
  <2>2. PICK g \in Frames : Returning(g)
    BY <1>5, EndUseIs
  <2>3. PICK n \in Nat \ {0} : n = Len(stack) - 1 /\ Len(stack) = n + 1
    BY <2>1, LenProperties DEF FlowTypeOK
  <2>4. /\ stack' # <<>> /\ Len(stack') = n
        /\ stack'[n] = g
        /\ \A i \in 1 .. n - 1 : stack'[i] = stack[i]
    <3>1. /\ Left(g) # <<>> /\ Len(Left(g)) = n
          /\ Left(g)[n] = g
          /\ \A i \in 1 .. Len(stack) - 2 : Left(g)[i] = stack[i]
      BY <2>1, <2>3, LeftIs
    <3>2. Len(stack) - 2 = n - 1
      BY <2>3
    <3>3. QED BY <2>2, <3>1, <3>2 DEF Returning
  <2>5. g.flow = stack[n].flow /\ g.path = stack[n].path
    BY <2>2, <2>3 DEF Returning, UsedIn, Below
  <2>6. \A i \in 1 .. n : stack'[i].flow = stack[i].flow /\ stack'[i].path = stack[i].path
    <3>1. TAKE i \in 1 .. n
    <3>2. CASE i = n
      BY <2>4, <2>5, <3>2
    <3>3. CASE i # n
      <4>1. i \in 1 .. n - 1
        BY <2>3, <3>3
      <4>2. QED BY <2>4, <4>1
    <3>4. QED BY <3>2, <3>3
  <2>7. \A i \in 1 .. n : Valid(stack'[i].flow)
    BY <2>3, <2>6 DEF Nested
  <2>8. stack'[1].path = <<>>
    BY <2>1, <2>3, <2>6 DEF Nested
  <2>9. \A i \in 1 .. n - 1 :
          /\ AtStep(stack'[i])
          /\ StepOf(stack'[i]).kind = "use"
          /\ stack'[i + 1].path = Append(stack'[i].path, StepOf(stack'[i]).id)
    <3>1. TAKE i \in 1 .. n - 1
    <3>2. stack'[i] = stack[i] /\ i + 1 \in 1 .. n /\ i \in 1 .. (n + 1) - 1
      BY <2>3, <2>4
    <3>3. stack'[i + 1].path = stack[i + 1].path
      BY <2>6, <3>2
    <3>4. QED BY <2>3, <3>2, <3>3 DEF Nested
  <2>10. pc' = "head" /\ returned' = returned
    BY <2>1, <2>2 DEF Returning
  <2>11. returned' = Unreturned
    BY <2>1, <2>10 DEF Nested
  <2>12. QED BY <2>4, <2>7, <2>8, <2>9, <2>10, <2>11 DEF Nested, AtStep, StepOf
<1>6. CASE ReturnFlow
  <2>1. stack' = <<>> /\ pc' = "head"
    BY <1>6 DEF ReturnFlow, Ended, At
  <2>2. Len(stack') = 0
    BY <2>1
  <2>3. QED BY <2>1, <2>2 DEF Nested
<1>7. QED BY <1>1, <1>2, <1>3, <1>4, <1>5, <1>6, StepForms DEF Forms

-------------------------------------------------------------------------------
(* The callers: a flow is called, and what it returned is taken. *)

(* A step that is not the flow's leaves it alone; what it returned may be  *)
(* taken away.                                                             *)
Quiet ==
  /\ UNCHANGED <<mode, stack, pc, io, conns, historyVars>>
  /\ returned' \in {returned, Unreturned}

LEMMA NextForms ==
  ASSUME [Next]_vars
  PROVE  Start \/ RunFlowStep \/ Quiet
<1>1. CASE NextRow
  BY <1>1 DEF NextRow, Quiet
<1>2. CASE Exit
  BY <1>2 DEF Exit, Quiet, flowVars
<1>3. CASE Cancel
  BY <1>3 DEF Cancel, Quiet
<1>4. CASE Finished \/ UNCHANGED vars
  BY <1>4 DEF Finished, Quiet, vars, flowVars
<1>5. QED BY <1>1, <1>2, <1>3, <1>4 DEF Next, FlowStep

(* A flow is entered for the first time.                                   *)
LEMMA StartIs ==
  ASSUME TypeOK, Nested, Start
  PROVE  /\ stack = <<>> /\ pc = "head" /\ pc' = "head" /\ io' = io
         /\ NewFrame(flow, <<>>) \in Frames
         /\ stack' = <<NewFrame(flow, <<>>)>>
         /\ stack' # <<>> /\ Len(stack') = 1
         /\ stack'[1] = NewFrame(flow, <<>>) /\ Top' = NewFrame(flow, <<>>)
         /\ UNCHANGED <<mode, conns, cancelled, returned, callerVars>>
         /\ returned = Unreturned
<1>1. /\ stack = <<>> /\ stack' = <<NewFrame(flow, <<>>)>>
      /\ UNCHANGED <<mode, pc, io, conns, cancelled, returned, callerVars>>
      /\ returned = Unreturned
  BY DEF Start, Call
<1>2. pc = "head"
  BY <1>1 DEF Nested
<1>3. <<>> \in Paths /\ flow \in FlowName
  BY EmptySeq DEF Paths, TypeOK
<1>4. NewFrame(flow, <<>>) \in Frames
  BY <1>3, EnteredIs DEF TypeOK
<1>5. PICK fr \in Frames : fr = NewFrame(flow, <<>>)
  BY <1>4
<1>6. stack' # <<>> /\ Len(stack') = 1 /\ stack'[1] = fr /\ Top' = fr
  BY <1>1, <1>5 DEF Top, Last
<1>7. QED BY <1>1, <1>2, <1>4, <1>5, <1>6

Base == TypeOK /\ Nested /\ CallerInv

LEMMA BaseStart ==
  ASSUME Init
  PROVE  Base
<1>1. stack = <<>> /\ Len(stack) = 0 /\ pc = "head" /\ returned = Unreturned
  BY DEF Init, FlowInit
<1>2. <<>> \in Seq(Frames) /\ <<>> \in Seq(Paths) /\ <<>> \in Seq(STRING)
  BY EmptySeq
<1>3. Idle \in Calls
  BY FlowAssumption DEF Idle, Calls
<1>4. FlowTypeOK
  BY <1>1, <1>2, <1>3, FlowAssumption DEF Init, FlowInit, FlowTypeOK, Paths
<1>5. TypeOK
  <2>1. flow \in FlowName
    BY FlowAssumption DEF Init
  <2>2. left = Rows /\ left \in 0 .. Rows
    BY RowsAssumption DEF Init
  <2>3. failedRuns = 0 /\ aborted = FALSE /\ exit = -1 /\ unsound = 0
    BY DEF Init
  <2>4. QED BY <1>4, <2>1, <2>2, <2>3 DEF TypeOK
<1>6. Nested
  BY <1>1 DEF Nested
<1>7. CallerInv
  BY <1>1, RowsAssumption DEF Init, CallerInv
<1>8. QED BY <1>5, <1>6, <1>7 DEF Base

LEMMA NextRowIs ==
  ASSUME Base, NextRow
  PROVE  /\ returned # Unreturned /\ stack = <<>> /\ left > 0 /\ exit = -1
         /\ left' = left - 1 /\ returned' = Unreturned
         /\ UNCHANGED <<mode, stack, flow, exit>>
         /\ aborted' \in BOOLEAN /\ cancelled' \in BOOLEAN
         /\ unsound' = unsound \/ unsound' = unsound + 1
         /\ failedRuns' = failedRuns \/ failedRuns' = failedRuns + 1
         /\ Once /\ failedRuns = unsound => failedRuns' = unsound'
<1>1. returned # Unreturned /\ stack = <<>>
  BY DEF NextRow, JudgeOnce, JudgeInPool, Base, Nested
<1>2. returned \in Returns
  BY <1>1 DEF Base, TypeOK, FlowTypeOK
<1>3. unsound \in Nat /\ failedRuns \in Nat
  BY DEF Base, TypeOK
<1>4. aborted' \in BOOLEAN /\ cancelled' \in BOOLEAN
  BY DEF NextRow, JudgeOnce, JudgeInPool
<1>5. unsound' = IF Unsound(returned) THEN unsound + 1 ELSE unsound
  <2>1. CASE Unsound(returned)
    BY <2>1 DEF NextRow
  <2>2. CASE ~ Unsound(returned)
    <3>1. unsound' = unsound + 0
      BY <2>2 DEF NextRow
    <3>2. QED BY <2>2, <3>1, <1>3
  <2>3. QED BY <2>1, <2>2
<1>6. CASE JudgeOnce
  <2>1. failedRuns' = IF Unsound(returned) THEN failedRuns + 1 ELSE failedRuns
    <3>1. CASE Unsound(returned)
      BY <1>6, <3>1 DEF JudgeOnce
    <3>2. CASE ~ Unsound(returned)
      <4>1. failedRuns' = failedRuns + 0
        BY <1>6, <3>2 DEF JudgeOnce
      <4>2. QED BY <3>2, <4>1, <1>3
    <3>3. QED BY <3>1, <3>2
  <2>2. QED BY <1>1, <1>4, <1>5, <2>1 DEF NextRow, Base, CallerInv
<1>7. CASE JudgeInPool
  BY <1>1, <1>4, <1>5, <1>7 DEF JudgeInPool, NextRow, Base, CallerInv
<1>8. QED BY <1>6, <1>7 DEF NextRow

LEMMA BaseStep ==
  ASSUME Base, [Next]_vars
  PROVE  Base'
<1>1. FlowTypeOK /\ Nested /\ CallerInv /\ TypeOK
  BY DEF Base, TypeOK
<1>2. CASE Start
  <2>1. PICK fr \in Frames : fr = NewFrame(flow, <<>>)
    BY <1>1, <1>2, StartIs
  <2>2. /\ stack' = <<fr>> /\ stack' # <<>> /\ Len(stack') = 1 /\ stack'[1] = fr
        /\ pc' = "head" /\ io' = io
        /\ UNCHANGED <<mode, conns, cancelled, returned, callerVars>>
        /\ returned = Unreturned
    BY <1>1, <1>2, <2>1, StartIs
  <2>3. fr.flow = flow /\ fr.path = <<>>
    BY <2>1 DEF NewFrame
  <2>4. /\ told' = <<>> /\ killed' = <<>> /\ limited' = FALSE
        /\ begun' = {} /\ lateTries' = 0
    BY <1>2 DEF Start, Call
  <2>5. <<>> \in Seq(Paths) /\ <<>> \in Seq(STRING)
    BY EmptySeq
  <2>6. stack' \in Seq(Frames)
    BY <2>1, <2>2
  <2>7. FlowTypeOK'
    BY <1>1, <2>2, <2>4, <2>5, <2>6 DEF FlowTypeOK, Paths
  <2>8. Nested'
    BY <1>1, <2>2, <2>3 DEF Nested, CallerInv
  <2>9. CallerInv' /\ TypeOK'
    BY <1>1, <1>2, <2>2, <2>7 DEF Start, CallerInv, TypeOK, callerVars, Once
  <2>10. QED BY <2>8, <2>9 DEF Base
<1>3. CASE FlowStep
  <2>1. RunFlowStep /\ UNCHANGED callerVars
    BY <1>3 DEF FlowStep
  <2>2. FlowTypeOK' /\ Nested'
    BY <1>1, <2>1, FlowTypeStep, NestedStep
  <2>3. mode' = mode /\ stack # <<>>
    <3>1. CASE Ending \/ Waiting \/ Moving \/ Using
      BY <3>1 DEF Ending, Waiting, Moving, Using, StepRuns
    <3>2. CASE EndUse \/ ReturnFlow
      BY <3>2 DEF EndUse, ReturnFlow, Ended, At
    <3>3. QED BY <1>1, <2>1, <3>1, <3>2, StepForms DEF Forms
  <2>4. TypeOK' /\ CallerInv'
    BY <1>1, <2>1, <2>2, <2>3 DEF TypeOK, CallerInv, callerVars, Once
  <2>5. QED BY <2>2, <2>4 DEF Base
<1>4. CASE NextRow
  <2>1. UNCHANGED <<mode, stack, pc, io, conns, historyVars, flow, exit>>
    BY <1>4 DEF NextRow
  <2>2. NextRow
    BY <1>4
  <2>3. /\ returned' = Unreturned /\ stack' = <<>>
        /\ left' = left - 1 /\ left > 0 /\ exit = -1 /\ mode' = mode
        /\ aborted' \in BOOLEAN /\ cancelled' \in BOOLEAN
        /\ unsound' = unsound \/ unsound' = unsound + 1
        /\ failedRuns' = failedRuns \/ failedRuns' = failedRuns + 1
        /\ Once /\ failedRuns = unsound => failedRuns' = unsound'
    BY <2>2, NextRowIs
  <2>4. FlowTypeOK'
    BY <1>1, <2>1, <2>3 DEF FlowTypeOK, historyVars
  <2>5. unsound' \in Nat /\ failedRuns' \in Nat /\ left' \in 0 .. Rows
    BY <1>1, <2>3, RowsAssumption DEF TypeOK
  <2>6. TypeOK'
    BY <1>1, <2>1, <2>3, <2>4, <2>5 DEF TypeOK
  <2>7. Nested'
    BY <1>1, <2>1, <2>3 DEF Nested, AtStep, StepOf, Top, Here, Last
  <2>8. CallerInv'
    BY <1>1, <2>1, <2>3 DEF CallerInv, Once
  <2>9. QED BY <2>6, <2>7, <2>8 DEF Base
<1>5. CASE Exit
  <2>1. /\ UNCHANGED <<flowVars, flow, left, samples, failedRuns, aborted, unsound>>
        /\ Once /\ stack = <<>> /\ returned = Unreturned
        /\ exit' = IF failedRuns > 0 THEN 1 ELSE 0
    BY <1>5 DEF Exit
  <2>2. TypeOK'
    BY <1>1, <2>1 DEF TypeOK, FlowTypeOK, flowVars, historyVars
  <2>3. Nested'
    BY <1>1, <2>1 DEF Nested, AtStep, StepOf, Top, Here, Last, flowVars
  <2>4. failedRuns \in Nat
    BY <1>1 DEF TypeOK
  <2>5. exit' = 0 <=> failedRuns = 0
    BY <2>1, <2>4
  <2>6. CallerInv'
    BY <1>1, <2>1, <2>5 DEF CallerInv, Once, flowVars
  <2>7. QED BY <2>2, <2>3, <2>6 DEF Base
<1>6. CASE Cancel
  <2>1. /\ UNCHANGED <<mode, stack, pc, io, conns, returned, historyVars, callerVars>>
        /\ cancelled' = TRUE
    BY <1>6 DEF Cancel
  <2>2. TypeOK'
    BY <1>1, <2>1 DEF TypeOK, FlowTypeOK, historyVars, callerVars
  <2>3. Nested'
    BY <1>1, <2>1 DEF Nested, AtStep, StepOf, Top, Here, Last
  <2>4. CallerInv'
    BY <1>1, <2>1 DEF CallerInv, Once, callerVars
  <2>5. QED BY <2>2, <2>3, <2>4 DEF Base
<1>7. CASE Finished \/ UNCHANGED vars
  <2>1. UNCHANGED vars
    BY <1>7 DEF Finished
  <2>2. TypeOK'
    BY <1>1, <2>1 DEF TypeOK, FlowTypeOK, vars, flowVars, historyVars, callerVars
  <2>3. Nested'
    BY <1>1, <2>1 DEF Nested, AtStep, StepOf, Top, Here, Last, vars, flowVars
  <2>4. CallerInv'
    BY <1>1, <2>1 DEF CallerInv, Once, vars, flowVars, callerVars
  <2>5. QED BY <2>2, <2>3, <2>4 DEF Base
<1>8. QED BY <1>2, <1>3, <1>4, <1>5, <1>6, <1>7 DEF Next

-------------------------------------------------------------------------------
(* Retries end with the run. *)

LEMMA TriesStart ==
  ASSUME FlowInit
  PROVE  TriesInv
BY DEF FlowInit, TriesInv

LEMMA TriesStep ==
  ASSUME Base, TriesInv, [Next]_vars
  PROVE  TriesInv'
<1>1. FlowTypeOK /\ Nested
  BY DEF Base, TypeOK
<1>2. lateTries \in Nat /\ cancelled \in BOOLEAN
  BY <1>1 DEF FlowTypeOK
<1>3. CASE Quiet
  BY <1>3 DEF Quiet, historyVars, TriesInv
<1>4. CASE Start
  <2>1. pc' = "head" /\ lateTries' = 0
    BY <1>1, <1>4, StartIs DEF Base, Start, Call
  <2>2. QED BY <2>1 DEF TriesInv
<1>5. CASE BeginStep
  <2>1. /\ lateTries' = IF cancelled THEN 1 ELSE 0
        /\ pc = "head"
    BY <1>5 DEF BeginStep, At
  <2>2. Ending \/ Waiting \/ Using
    BY <1>1, <1>5, BeginForms
  <2>3. pc' # "backoff"
    BY <2>1, <2>2 DEF Ending, EndsAs, EndStep, Waiting, WaitAt, Using
  <2>4. pc' = "try" => io' = NewCall
    <3>1. ASSUME NEW p, NEW fr, NEW call, WaitAt(p, fr, call), p # "try" \/ call = NewCall
          PROVE  pc' = "try" => io' = NewCall
      BY <3>1 DEF WaitAt
    <3>2. ASSUME NEW fr, NEW n, NEW throttle, EndStep(fr, n, throttle)
          PROVE  pc' = "head"
      BY <3>2 DEF EndStep
    <3>3. CASE CannotRun \/ Refused \/ OnDeadSession \/ Sleep
      BY <3>2, <3>3 DEF CannotRun, Refused, OnDeadSession, Sleep,
         StepErred, StepFailed, StepPassed
    <3>4. CASE BeginCall \/ BeginSession
      BY <3>1, <3>4 DEF BeginCall, BeginSession
    <3>5. CASE OnOpenSession
      BY <3>1, <3>2, <3>5 DEF OnOpenSession, Exchange, Await, StepPassed
    <3>6. CASE BeginUse
      BY <2>1, <3>6 DEF BeginUse
    <3>7. QED BY <1>5, <3>3, <3>4, <3>5, <3>6 DEF BeginStep
  <2>5. NewCall.late = cancelled
    BY <1>1, NewCallIs
  <2>6. lateTries' <= 1 /\ (lateTries' = 1 => cancelled)
    BY <2>1
  <2>7. QED BY <2>3, <2>4, <2>5, <2>6 DEF TriesInv
<1>6. CASE Answered
  <2>1. pc = "try" /\ ~ io.late /\ UNCHANGED lateTries /\ pc' \in {"backoff", "judge"}
    BY <1>6 DEF Answered, At, Receive
  <2>2. lateTries # 1
    BY <2>1 DEF TriesInv
  <2>3. lateTries = 0
    BY <1>2, <2>2 DEF TriesInv
  <2>4. QED BY <2>1, <2>3 DEF TriesInv
<1>7. CASE CutOff
  <2>1. pc = "try" /\ UNCHANGED lateTries /\ Receive(NoAnswer)
    BY <1>7 DEF CutOff, At, Receive
  <2>2. ~ Retryable(Here, io.n, NoAnswer.status)
    <3>1. Here \in Step
      BY <1>1, <2>1, HereIs DEF Nested
    <3>2. Here.onStatus \in SUBSET {"busy", "throttle"}
      BY <3>1 DEF Step
    <3>3. NoAnswer.status = "none"
      BY DEF NoAnswer
    <3>4. QED BY <3>2, <3>3 DEF Retryable
  <2>3. pc' = "judge"
    BY <2>1, <2>2 DEF Receive
  <2>4. QED BY <2>1, <2>3 DEF TriesInv
<1>8. CASE Retry
  <2>1. /\ pc = "backoff" /\ pc' = "try"
        /\ lateTries' = IF cancelled THEN lateTries + 1 ELSE lateTries
    BY <1>8 DEF Retry, At
  <2>2. lateTries = 0
    BY <2>1 DEF TriesInv
  <2>3. lateTries' = IF cancelled THEN 1 ELSE 0
    BY <2>1, <2>2
  <2>4. io'.late = cancelled
    <3>1. NewCall \in Calls /\ NewCall.late = cancelled
      BY <1>1, NewCallIs
    <3>2. io' = [NewCall EXCEPT !.n = io.n + 1]
      BY <1>8 DEF Retry
    <3>3. QED BY <3>1, <3>2 DEF Calls
  <2>5. QED BY <2>1, <2>3, <2>4 DEF TriesInv
<1>9. CASE GiveUp
  <2>1. pc' = "judge" /\ UNCHANGED lateTries
    BY <1>9 DEF GiveUp
  <2>2. QED BY <2>1 DEF TriesInv
<1>10. CASE RunFlowStep /\ ~ BeginStep /\ ~ Answered /\ ~ CutOff /\ ~ Retry /\ ~ GiveUp
  <2>1. UNCHANGED lateTries
    BY <1>10 DEF RunFlowStep, Progress, SendUnblocked, Judge,
       DialUp, DialThrottled, DialFailed, Tick, Matched, TimedOut, EndUse, ReturnFlow, Sent,
       FrameErred, TryAgainLater, SessionLost, SkipFrame, WsUnchanged, historyVars, flowVars
  <2>2. pc' \notin {"try", "backoff"}
    <3>1. ASSUME NEW fr, NEW n, NEW throttle, EndStep(fr, n, throttle)
          PROVE  pc' = "head"
      BY <3>1 DEF EndStep
    <3>2. ASSUME NEW fr, Await(fr) \/ Exchange(fr)
          PROVE  pc' \notin {"try", "backoff"}
      BY <3>1, <3>2 DEF Await, Exchange, WaitAt, StepPassed
    <3>3. ASSUME NEW fr, \/ StepPassed(fr) \/ StepFailed(fr) \/ StepErred(fr)
                         \/ StepThrottled(fr) \/ StepEvaluated(fr)
          PROVE  pc' = "head"
      BY <3>1, <3>3 DEF StepPassed, StepFailed, StepErred, StepThrottled, StepEvaluated
    <3>4. CASE Judge
      BY <3>3, <3>4 DEF Judge
    <3>5. CASE DialUp \/ Sent
      BY <3>2, <3>5 DEF DialUp, Sent
    <3>6. CASE DialThrottled \/ DialFailed \/ Matched \/ TimedOut \/ FrameErred
                 \/ TryAgainLater \/ SessionLost
      BY <3>3, <3>6 DEF DialThrottled, DialFailed, Matched, TimedOut, FrameErred,
         TryAgainLater, SessionLost
    <3>7. CASE Tick \/ SkipFrame
      BY <3>7 DEF Tick, SkipFrame, At, flowVars
    <3>8. CASE EndUse \/ ReturnFlow
      BY <3>8 DEF EndUse, ReturnFlow, Ended, At
    <3>9. QED BY <1>10, <3>4, <3>5, <3>6, <3>7, <3>8 DEF RunFlowStep, Progress, SendUnblocked
  <2>3. QED BY <2>1, <2>2 DEF TriesInv
<1>11. QED BY <1>3, <1>4, <1>5, <1>6, <1>7, <1>8, <1>9, <1>10, NextForms

-------------------------------------------------------------------------------
(* A kill switch stops the flow. *)

LEMMA KillStart ==
  ASSUME FlowInit
  PROVE  KillInv
BY DEF FlowInit, KillInv

(* The stack of a flow that runs is not empty, whatever its step.          *)
LEMMA FormsRun ==
  ASSUME Forms
  PROVE  stack # <<>>
BY DEF Forms, Ending, Waiting, Moving, Using, StepRuns, EndUse, ReturnFlow, Ended, At

LEMMA KillStep ==
  ASSUME Base, KillInv, FlagsInv, [Next]_vars
  PROVE  KillInv'
<1>1. FlowTypeOK /\ Nested
  BY DEF Base, TypeOK
<1>2. CASE Quiet
  BY <1>2 DEF Quiet, historyVars, KillInv, Top, Last
<1>3. CASE Start
  BY <1>3 DEF Start, Call, KillInv
<1>4. CASE StepRuns /\ (Ending \/ Waiting \/ Moving \/ Using)
  <2>1. killed = <<>>
    BY <1>4 DEF KillInv, StepRuns, AtStep
  <2>2. CASE Ending
    <3>1. PICK fr \in Frames, n \in Nat, throttle \in BOOLEAN : EndsAs(fr, n, throttle)
      BY <2>2 DEF Ending
    <3>2. /\ pc' = "head" /\ StaysOn(fr)
          /\ killed' # killed => n > 0 /\ EffectiveAction(Here) = "abort_run"
      BY <1>4, <3>1 DEF EndsAs, EndStep, StaysOn, StepRuns
    <3>3. Top' = fr
      BY <1>1, <3>2, StaysOnIs
    <3>4. ASSUME killed' # <<>> PROVE fr.exit = "stop" /\ fr.aborted
      <4>1. n > 0 /\ EffectiveAction(Here) = "abort_run"
        BY <2>1, <3>2, <3>4
      <4>2. ~ GoesOn(Here)
        BY <4>1 DEF GoesOn
      <4>3. QED BY <3>1, <4>1, <4>2 DEF EndsAs
    <3>5. QED BY <3>2, <3>3, <3>4 DEF KillInv
  <2>3. CASE Waiting \/ Moving \/ Using
    BY <2>1, <2>3 DEF Waiting, WaitAt, Moving, Using, KillInv
  <2>4. QED BY <1>4, <2>2, <2>3
<1>5. CASE EndUse
  <2>1. pc = "head" /\ stack # <<>> /\ Len(stack) > 1
    BY <1>1, <1>5, EndUseIs
  <2>2. PICK g \in Frames : Returning(g)
    BY <1>1, <1>5, EndUseIs
  <2>3. Top' = g /\ pc' = "head"
    <3>1. stack' = Left(g) /\ Len(Left(g)) = Len(stack) - 1 /\ Left(g)[Len(stack) - 1] = g
      BY <1>1, <2>1, <2>2, LeftIs DEF Returning
    <3>2. QED BY <2>1, <2>2, <3>1 DEF Top, Last, Returning
  <2>4. Top.aborted => Top.exit = "stop"
    <3>1. Len(stack) \in 1 .. Len(stack) /\ Top = stack[Len(stack)]
      BY <1>1, <2>1, TopIs
    <3>2. QED BY <2>1, <3>1 DEF FlagsInv, KillInv
  <2>5. ASSUME killed' # <<>> PROVE g.exit = "stop" /\ g.aborted
    <3>1. CASE Judges(Top, StepOf(Below))
      <4>1. ~ GoesOn(StepOf(Below)) /\ Top.exit # "error" /\ ~ Top.aborted /\ Top.failures # <<>>
        BY <3>1 DEF Judges, GoesOn
      <4>2. QED BY <2>2, <3>1, <4>1 DEF Returning, UsedIn
    <3>2. CASE ~ Judges(Top, StepOf(Below))
      <4>1. killed # <<>>
        BY <2>2, <2>5, <3>2 DEF Returning
      <4>2. Top.exit = "stop" /\ Top.aborted
        BY <2>1, <4>1 DEF KillInv
      <4>3. QED BY <2>2, <4>2 DEF Returning, UsedIn
    <3>3. QED BY <3>1, <3>2
  <2>6. QED BY <2>3, <2>5 DEF KillInv
<1>6. CASE ReturnFlow
  BY <1>6 DEF ReturnFlow, KillInv
<1>7. CASE RunFlowStep
  <2>1. Forms
    BY <1>1, <1>7, StepForms
  <2>2. Ending \/ Waiting \/ Moving \/ Using => StepRuns
    BY DEF Ending, Waiting, Moving, Using
  <2>3. QED BY <1>4, <1>5, <1>6, <2>1, <2>2 DEF Forms
<1>8. QED BY <1>2, <1>3, <1>7, NextForms

(* No step begins any more.                                                *)
LEMMA KilledBeginsNothing ==
  ASSUME Base, KillInv, [Next]_vars, killed # <<>>
  PROVE  begun' \subseteq begun
<1>1. FlowTypeOK /\ Nested
  BY DEF Base, TypeOK
<1>2. CASE Quiet
  BY <1>2 DEF Quiet, historyVars
<1>3. CASE Start
  BY <1>3 DEF Start, Call
<1>4. CASE BeginStep
  BY <1>4 DEF BeginStep, At, KillInv
<1>5. CASE RunFlowStep /\ ~ BeginStep
  <2>1. UNCHANGED begun
    BY <1>5 DEF RunFlowStep, Progress, SendUnblocked, Answered, CutOff, Receive, Retry, GiveUp,
       CallUnchanged, Judge, DialUp, DialThrottled, DialFailed, Tick, Matched, TimedOut, EndUse,
       ReturnFlow, Sent, FrameErred, TryAgainLater, SessionLost, SkipFrame, WsUnchanged,
       historyVars, flowVars
  <2>2. QED BY <2>1
<1>6. QED BY <1>2, <1>3, <1>4, <1>5, NextForms

-------------------------------------------------------------------------------
(* The flags of the Iterations are those of the flow-run. *)

Throttled(n) == \E i \in 1 .. n : stack[i].throttled
Aborted(n)   == \E i \in 1 .. n : stack[i].aborted

(* A flag of the stack is the top's, or one of those below.                *)
LEMMA FlagsAtTop ==
  ASSUME NEW n \in Nat \ {0}
  PROVE  /\ Throttled(n) <=> stack[n].throttled \/ Throttled(n - 1)
         /\ Aborted(n) <=> stack[n].aborted \/ Aborted(n - 1)
<1>1. \A i : i \in 1 .. n <=> i = n \/ i \in 1 .. n - 1
  OBVIOUS
<1>2. QED BY <1>1 DEF Throttled, Aborted

LEMMA FlagsBelow ==
  ASSUME NEW n \in Nat, \A i \in 1 .. n : stack'[i] = stack[i]
  PROVE  (Throttled(n))' = Throttled(n) /\ (Aborted(n))' = Aborted(n)
BY DEF Throttled, Aborted

FlagsRun ==
  stack # <<>> =>
    /\ limited <=> Throttled(Len(stack))
    /\ killed # <<>> <=> Aborted(Len(stack))

LEMMA FlagsStart ==
  ASSUME FlowInit
  PROVE  FlagsInv
<1>1. Len(stack) = 0
  BY DEF FlowInit
<1>2. QED BY <1>1 DEF FlowInit, FlagsInv

(* The step on top ends or waits: its frame has the flags it had, and      *)
(* those of its step.                                                      *)
LEMMA FlagsStay ==
  ASSUME FlowTypeOK, FlagsInv, NEW fr, StaysOn(fr), Honest(fr),
         NEW th, NEW ab,
         fr.throttled <=> Top.throttled \/ th,
         fr.aborted <=> Top.aborted \/ ab,
         limited' <=> limited \/ th,
         killed' # <<>> <=> killed # <<>> \/ ab,
         returned' = Unreturned
  PROVE  FlagsInv'
<1>1. PICK n \in Nat \ {0} : n = Len(stack)
  BY StaysOnIs
<1>2. /\ stack' # <<>> /\ Len(stack') = n
      /\ stack[n] = Top /\ stack'[n] = fr
      /\ \A i \in 1 .. n - 1 : stack'[i] = stack[i]
  BY <1>1, StaysOnIs
<1>3. /\ Throttled(n) <=> Top.throttled \/ Throttled(n - 1)
      /\ Aborted(n) <=> Top.aborted \/ Aborted(n - 1)
  BY <1>1, <1>2, FlagsAtTop
<1>4. /\ limited <=> Throttled(n)
      /\ killed # <<>> <=> Aborted(n)
  BY <1>1 DEF FlagsInv, StaysOn, Throttled, Aborted
<1>5. \A i : i \in 1 .. n <=> i = n \/ i \in 1 .. n - 1
  BY <1>1
<1>6. /\ (\E i \in 1 .. n : stack'[i].throttled) <=> fr.throttled \/ Throttled(n - 1)
      /\ (\E i \in 1 .. n : stack'[i].aborted) <=> fr.aborted \/ Aborted(n - 1)
  BY <1>2, <1>5 DEF Throttled, Aborted
<1>7. /\ limited' <=> \E i \in 1 .. n : stack'[i].throttled
      /\ killed' # <<>> <=> \E i \in 1 .. n : stack'[i].aborted
  BY <1>3, <1>4, <1>6
<1>8. \A i \in 1 .. n : Honest(stack'[i])
  BY <1>1, <1>2, <1>5 DEF FlagsInv
<1>9. QED BY <1>2, <1>7, <1>8 DEF FlagsInv, Honest

(* Two sequences of paths, end to end.                                     *)
LEMMA JoinedPaths ==
  ASSUME NEW low \in Seq(Paths), NEW up \in Seq(Paths)
  PROVE  /\ low \o up \in Seq(Paths)
         /\ Len(low \o up) = Len(low) + Len(up)
         /\ \A k \in 1 .. Len(low) + Len(up) :
              (low \o up)[k] = IF k <= Len(low) THEN low[k] ELSE up[k - Len(low)]
BY ConcatProperties

LEMMA SomeNoticed ==
  ASSUME NEW fr \in Frames, NEW n \in Nat, NEW id \in STRING,
         fr.failures # <<>> \/ n > 0
  PROVE  fr.failures \o Noticed(n, id) # <<>>
<1>1. fr.failures \in Seq(Paths)
  BY DEF Frames
<1>2. <<id>> \in Paths
  BY DEF Paths
<1>3. Noticed(n, id) \in Seq(Paths) /\ Len(Noticed(n, id)) = n
  BY <1>2 DEF Noticed
<1>4. Len(fr.failures \o Noticed(n, id)) = Len(fr.failures) + n
  <2>1. PICK low \in Seq(Paths), up \in Seq(Paths) : low = fr.failures /\ up = Noticed(n, id)
    BY <1>1, <1>3
  <2>2. Len(low \o up) = Len(low) + Len(up)
    BY JoinedPaths
  <2>3. QED BY <1>3, <2>1, <2>2
<1>5. Len(fr.failures) \in Nat /\ (fr.failures = <<>> \/ Len(fr.failures) > 0)
  BY <1>1, LenProperties, EmptySeq
<1>6. Len(fr.failures) + n > 0
  BY <1>5
<1>7. QED BY <1>4, <1>6

LEMMA FlagsStep ==
  ASSUME Base, FlagsInv, [Next]_vars
  PROVE  FlagsInv'
<1>1. FlowTypeOK /\ Nested
  BY DEF Base, TypeOK
<1>2. CASE Quiet
  BY <1>2 DEF Quiet, historyVars, FlagsInv, Honest
<1>3. CASE Start
  <2>1. PICK fr \in Frames : fr = NewFrame(flow, <<>>)
    BY <1>1, <1>3, StartIs DEF Base
  <2>2. /\ stack' # <<>> /\ Len(stack') = 1 /\ stack'[1] = fr
        /\ returned' = Unreturned
    BY <1>1, <1>3, <2>1, StartIs DEF Base
  <2>3. ~ fr.throttled /\ ~ fr.aborted /\ fr.outcome = "ok"
    BY <2>1 DEF NewFrame
  <2>4. ~ limited' /\ killed' = <<>>
    BY <1>3 DEF Start, Call
  <2>5. \A i \in 1 .. 1 : i = 1
    OBVIOUS
  <2>6. QED BY <2>2, <2>3, <2>4, <2>5 DEF FlagsInv, Honest
<1>4. CASE Ending
  <2>1. PICK fr \in Frames, n \in Nat, throttle \in BOOLEAN : EndsAs(fr, n, throttle)
    BY <1>4 DEF Ending
  <2>2. StaysOn(fr) /\ returned' = Unreturned
    BY <1>1, <1>4, <2>1, RunsUnreturned DEF Ending, StepRuns, EndsAs, EndStep, StaysOn
  <2>3. /\ Top \in Frames /\ Here.id \in STRING /\ Path # <<>>
        /\ Honest(Top)
    <3>1. stack # <<>> /\ AtStep(Top)
      BY <1>4 DEF Ending, StepRuns
    <3>2. Top \in Frames /\ Here \in Step /\ Path = Append(Top.path, Here.id)
      BY <1>1, <3>1, TopIs, HereIs
    <3>3. PICK p \in Seq(STRING) : p = Top.path
      BY <3>2 DEF Frames, Paths
    <3>4. PICK id \in STRING : id = Here.id
      BY <3>2 DEF Step
    <3>5. Path # <<>>
      BY <3>2, <3>3, <3>4
    <3>6. Honest(Top)
      BY <1>1, <3>1, TopIs DEF FlagsInv
    <3>7. QED BY <3>2, <3>4, <3>5, <3>6
  <2>4. PICK ab \in BOOLEAN : ab = (n > 0 /\ EffectiveAction(Here) = "abort_run")
    OBVIOUS
  <2>5. /\ fr.throttled <=> Top.throttled \/ throttle
        /\ fr.aborted <=> Top.aborted \/ ab
        /\ limited' <=> limited \/ throttle
        /\ killed' = IF ab THEN Path ELSE killed
    BY <2>1, <2>4 DEF EndsAs, EndStep
  <2>6. killed' # <<>> <=> killed # <<>> \/ ab
    BY <2>3, <2>5
  <2>7. fr.aborted => fr.failures # <<>>
    <3>1. ASSUME fr.aborted PROVE Top.failures # <<>> \/ n > 0
      BY <2>3, <2>4, <2>5, <3>1 DEF Honest
    <3>2. fr.failures = Top.failures \o Noticed(n, Here.id)
      BY <2>1 DEF EndsAs
    <3>3. QED BY <2>1, <2>3, <3>1, <3>2, SomeNoticed
  <2>8. Honest(fr)
    BY <2>1, <2>3, <2>5, <2>7 DEF Honest, EndsAs
  <2>9. QED BY <1>1, <2>2, <2>5, <2>6, <2>8, FlagsStay
<1>5. CASE Waiting
  <2>1. PICK fr \in Frames, p \in {"try", "dial", "send", "receive"}, call \in Calls :
          WaitAt(p, fr, call) /\ Alike(fr, Top)
    BY <1>5 DEF Waiting
  <2>2. StaysOn(fr) /\ returned' = Unreturned
    BY <1>1, <1>5, <2>1, RunsUnreturned DEF Waiting, StepRuns, WaitAt, StaysOn, Alike
  <2>3. Honest(Top)
    BY <1>1, <1>5, TopIs DEF Waiting, StepRuns, FlagsInv
  <2>4. Honest(fr)
    BY <2>1, <2>3 DEF Honest, Alike
  <2>5. PICK th \in BOOLEAN : ~ th
    OBVIOUS
  <2>6. /\ fr.throttled <=> Top.throttled \/ th
        /\ fr.aborted <=> Top.aborted \/ th
        /\ limited' <=> limited \/ th
        /\ killed' # <<>> <=> killed # <<>> \/ th
    BY <2>1, <2>5 DEF WaitAt, Alike
  <2>7. QED BY <1>1, <2>2, <2>4, <2>6, FlagsStay
<1>6. CASE Moving
  <2>1. UNCHANGED <<stack, killed, limited>> /\ returned' = Unreturned
    BY <1>1, <1>6, RunsUnreturned DEF Moving
  <2>2. QED BY <2>1 DEF FlagsInv, Honest
<1>7. CASE Using
  <2>1. PICK fr \in Frames : fr = NewFrame(Here.uses, Path)
    BY <1>1, <1>7, UsingIs
  <2>2. ~ fr.throttled /\ ~ fr.aborted /\ fr.outcome = "ok"
    BY <2>1 DEF NewFrame
  <2>3. PICK n \in Nat \ {0} : n = Len(stack) /\ stack # <<>>
    BY <1>1, <1>7, TopIs DEF Using, StepRuns
  <2>4. /\ Len(stack') = n + 1
        /\ stack'[n + 1] = fr
        /\ \A i \in 1 .. n : stack'[i] = stack[i]
    BY <1>1, <1>7, <2>1, <2>3, UsingIs, EnteredIs DEF Using
  <2>5. \A i : i \in 1 .. n + 1 <=> i = n + 1 \/ i \in 1 .. n
    BY <2>3
  <2>6. UNCHANGED <<killed, limited>> /\ returned' = Unreturned
    BY <1>1, <1>7, RunsUnreturned DEF Using
  <2>7. /\ limited' <=> \E i \in 1 .. n + 1 : stack'[i].throttled
        /\ killed' # <<>> <=> \E i \in 1 .. n + 1 : stack'[i].aborted
    BY <2>2, <2>3, <2>4, <2>5, <2>6 DEF FlagsInv
  <2>8. \A i \in 1 .. n + 1 : Honest(stack'[i])
    BY <2>2, <2>3, <2>4, <2>5 DEF FlagsInv, Honest
  <2>9. QED BY <2>4, <2>6, <2>7, <2>8 DEF FlagsInv, Honest
<1>8. CASE EndUse
  <2>1. pc = "head" /\ stack # <<>> /\ Len(stack) > 1
    BY <1>1, <1>8, EndUseIs
  <2>2. PICK g \in Frames : Returning(g)
    BY <1>1, <1>8, EndUseIs
  <2>3. PICK n \in Nat \ {0} : n = Len(stack) - 1 /\ Len(stack) = n + 1
    BY <1>1, <2>1, LenProperties DEF FlowTypeOK
  <2>4. /\ Len(stack') = n
        /\ stack'[n] = g
        /\ \A i \in 1 .. n - 1 : stack'[i] = stack[i]
    <3>1. /\ Len(Left(g)) = n
          /\ Left(g)[n] = g
          /\ \A i \in 1 .. Len(stack) - 2 : Left(g)[i] = stack[i]
      BY <1>1, <2>1, <2>3, LeftIs
    <3>2. Len(stack) - 2 = n - 1
      BY <2>3
    <3>3. QED BY <2>2, <3>1, <3>2 DEF Returning
  <2>5. Below = stack[n] /\ Top = stack[n + 1] /\ Honest(Below) /\ Honest(Top)
    <3>1. Below = stack[n] /\ Top = stack[n + 1]
      BY <1>1, <2>1, <2>3, TopIs DEF Below
    <3>2. n \in 1 .. n + 1 /\ n + 1 \in 1 .. n + 1
      BY <2>3
    <3>3. QED BY <2>3, <3>1, <3>2 DEF FlagsInv
  <2>6. /\ limited <=> \E i \in 1 .. n + 1 : stack[i].throttled
        /\ killed # <<>> <=> \E i \in 1 .. n + 1 : stack[i].aborted
    BY <2>1, <2>3 DEF FlagsInv
  <2>7. \A i : /\ i \in 1 .. n + 1 <=> i = n + 1 \/ i = n \/ i \in 1 .. n - 1
               /\ i \in 1 .. n <=> i = n \/ i \in 1 .. n - 1
    BY <2>3
  <2>8. PICK ab \in BOOLEAN : ab = Judges(Top, StepOf(Below))
    BY DEF Judges
  <2>9. /\ g.throttled <=> Below.throttled \/ Top.throttled
        /\ g.aborted <=> Below.aborted \/ Top.aborted \/ ab
    BY <2>2, <2>8 DEF Returning, UsedIn
  <2>10. killed' = IF ab THEN Top.path ELSE killed
    BY <2>2, <2>8 DEF Returning
  <2>11. killed' # <<>> <=> killed # <<>> \/ ab
    BY <1>1, <2>1, <2>10, BelowIs
  <2>12. limited' = limited /\ returned' = Unreturned
    BY <1>1, <2>1, <2>2 DEF Returning, Nested
  <2>13. limited' <=> \E i \in 1 .. n : stack'[i].throttled
    BY <2>4, <2>5, <2>6, <2>7, <2>9, <2>12
  <2>14. killed' # <<>> <=> \E i \in 1 .. n : stack'[i].aborted
    BY <2>4, <2>5, <2>6, <2>7, <2>9, <2>11
  <2>15. Honest(g)
    <3>1. g.aborted => g.failures # <<>>
      <4>1. ASSUME g.aborted PROVE Below.failures # <<>> \/ Top.failures # <<>>
        BY <2>5, <2>8, <2>9, <4>1 DEF Honest, Judges
      <4>2. g.failures = Below.failures \o Prefixed(Last(Top.path), Top.failures)
        BY <2>2 DEF Returning, UsedIn
      <4>3. Below.failures \in Seq(Paths) /\ Top.failures \in Seq(Paths)
        BY <1>1, <2>1, BelowIs, TopIs DEF Frames
      <4>4. PICK id \in STRING : id = Last(Top.path)
        BY <1>1, <2>1, BelowIs DEF Step
      <4>5. PICK up \in Seq(Paths) : /\ up = Prefixed(id, Top.failures)
                                     /\ Len(up) = Len(Top.failures)
        BY <4>3, <4>4, PrefixedIs
      <4>6. PICK low \in Seq(Paths) : low = Below.failures
        BY <4>3
      <4>7. Len(low \o up) = Len(low) + Len(up)
        BY ConcatProperties
      <4>8. Len(low) > 0 \/ Len(up) > 0 => Len(low \o up) > 0
        BY <4>7
      <4>9. ASSUME g.aborted PROVE Len(low) > 0 \/ Len(up) > 0
        BY <4>1, <4>3, <4>5, <4>6, <4>9, LenProperties, EmptySeq
      <4>10. QED BY <4>2, <4>4, <4>5, <4>6, <4>8, <4>9
    <3>2. /\ g.outcome = "ok" => Below.outcome = "ok" /\ Top.outcome = "ok"
          /\ g.outcome = "throttled" => Below.outcome = "throttled" \/ Top.outcome = "throttled"
      BY <2>2 DEF Returning, UsedIn
    <3>3. QED BY <2>5, <2>9, <3>1, <3>2 DEF Honest
  <2>16. \A i \in 1 .. n : Honest(stack'[i])
    <3>1. TAKE i \in 1 .. n
    <3>2. CASE i = n
      BY <2>4, <2>15, <3>2
    <3>3. CASE i # n
      <4>1. i \in 1 .. n - 1 /\ i \in 1 .. n + 1
        BY <2>3, <3>3
      <4>2. QED BY <2>3, <2>4, <4>1 DEF FlagsInv
    <3>4. QED BY <3>2, <3>3
  <2>17. QED BY <2>4, <2>12, <2>13, <2>14, <2>16 DEF FlagsInv, Honest
<1>9. CASE ReturnFlow
  <2>1. stack # <<>> /\ Len(stack) = 1 /\ stack' = <<>> /\ Top = stack[1]
    BY <1>1, <1>9, TopIs DEF ReturnFlow, Ended, At
  <2>2. /\ returned'.throttled = Top.throttled /\ returned'.aborted = Top.aborted
        /\ returned'.outcome = Top.outcome /\ returned'.failures = Top.failures
        /\ UNCHANGED <<killed, limited>>
    BY <1>9 DEF ReturnFlow, historyVars
  <2>3. \A i : i \in 1 .. 1 <=> i = 1
    OBVIOUS
  <2>4. /\ limited <=> Top.throttled
        /\ killed # <<>> <=> Top.aborted
        /\ Honest(Top)
    BY <2>1, <2>3 DEF FlagsInv
  <2>5. Len(stack') = 0
    BY <2>1
  <2>6. Honest(returned')
    BY <2>2, <2>4 DEF Honest
  <2>7. QED BY <2>1, <2>2, <2>4, <2>5, <2>6 DEF FlagsInv, Honest
<1>10. CASE RunFlowStep
  BY <1>1, <1>4, <1>5, <1>6, <1>7, <1>8, <1>9, <1>10, StepForms DEF Forms
<1>11. QED BY <1>2, <1>3, <1>10, NextForms

-------------------------------------------------------------------------------
(* What was recorded reaches the caller. *)

(* A record rec that lies in the frames of a stack stk, as in Stretches.   *)
Spread(stk, n, rec, start) ==
  /\ start \in [1 .. n -> 0 .. Len(rec)]
  /\ start[1] = 0
  /\ \A i \in 1 .. n - 1 : start[i + 1] = start[i] + Len(stk[i].failures)
  /\ Len(rec) = start[n] + Len(stk[n].failures)
  /\ \A i \in 1 .. n : \A k \in 1 .. Len(stk[i].failures) :
       rec[start[i] + k] = stk[i].path \o stk[i].failures[k]

LEMMA SpreadIs ==
  ASSUME ToldInv, stack # <<>>
  PROVE  \E start : Spread(stack, Len(stack), told, start)
<1>1. PICK start \in [1 .. Len(stack) -> 0 .. Len(told)] : Stretches(start)
  BY DEF ToldInv
<1>2. Spread(stack, Len(stack), told, start)
  BY <1>1 DEF Stretches, Spread
<1>3. QED BY <1>2

LEMMA SpreadTold ==
  ASSUME NEW start, Spread(stack', Len(stack'), told', start), returned' = Unreturned
  PROVE  ToldInv'
<1>1. start \in [1 .. Len(stack') -> 0 .. Len(told')]
  BY DEF Spread
<1>2. Stretches(start)'
  BY DEF Stretches, Spread
<1>3. QED BY <1>1, <1>2 DEF ToldInv

(* Below the top the stretches end before the top's begins.                *)
LEMMA SpreadBelow ==
  ASSUME NEW stk \in Seq(Frames), NEW n \in Nat \ {0}, n = Len(stk), NEW rec \in Seq(Paths),
         NEW start, Spread(stk, n, rec, start),
         NEW i \in 1 .. n, NEW k \in 1 .. Len(stk[i].failures)
  PROVE  /\ start[i] \in Nat /\ start[i] + k \in 1 .. Len(rec)
<1>1. start[i] \in 0 .. Len(rec) /\ Len(rec) \in Nat
  BY LenProperties DEF Spread
<1>2. PICK m \in Nat : m = Len(stk[i].failures)
  <2>1. stk[i] \in Frames
    BY ElementOfSeq
  <2>2. QED BY <2>1, LenProperties DEF Frames
<1>3. k \in 1 .. m
  BY <1>2
<1>4. start[i] + m <= Len(rec)
  <2>1. CASE i = n
    BY <1>1, <1>2, <2>1 DEF Spread
  <2>2. CASE i # n
    <3>1. i \in 1 .. n - 1 /\ i + 1 \in 1 .. n
      BY <2>2
    <3>2. start[i + 1] = start[i] + m /\ start[i + 1] \in 0 .. Len(rec)
      BY <1>2, <3>1 DEF Spread
    <3>3. QED BY <1>1, <1>2, <3>2
  <2>3. QED BY <2>1, <2>2
<1>5. QED BY <1>1, <1>2, <1>3, <1>4

LEMMA WithinLow ==
  ASSUME NEW s \in Nat, NEW k \in Nat, NEW t \in Nat, 1 <= k, k <= t
  PROVE  s + k \in 1 .. s + t /\ k \in 1 .. t
OBVIOUS

LEMMA WithinHigh ==
  ASSUME NEW s \in Nat, NEW j \in Nat, NEW t \in Nat, NEW p \in Nat, j \in 1 .. p
  PROVE  /\ s + (j + t) \in (s + t) + 1 .. (s + t) + p
         /\ (s + (j + t)) - (s + t) = j
OBVIOUS

(* The top's failures grow by new ones, recorded with its path.            *)
LEMMA SpreadGrows ==
  ASSUME NEW stk \in Seq(Frames), NEW n \in Nat \ {0}, n = Len(stk), NEW rec \in Seq(Paths),
         NEW start, Spread(stk, n, rec, start),
         NEW stk2 \in Seq(Frames), Len(stk2) = n, \A i \in 1 .. n - 1 : stk2[i] = stk[i],
         stk2[n].path = stk[n].path,
         NEW new \in Seq(Paths), stk2[n].failures = stk[n].failures \o new,
         NEW put \in Seq(Paths), Len(put) = Len(new),
         \A k \in 1 .. Len(new) : put[k] = stk[n].path \o new[k]
  PROVE  Spread(stk2, n, rec \o put, start)
<1>1. PICK all \in Seq(Paths) : all = rec \o put
  BY ConcatProperties
<1>2. PICK top \in Seq(Paths) : top = stk[n].failures
  <2>1. stk[n] \in Frames
    BY ElementOfSeq
  <2>2. QED BY <2>1 DEF Frames
<1>3. PICK r \in Nat, p \in Nat, t \in Nat : r = Len(rec) /\ p = Len(new) /\ t = Len(top)
  BY LenProperties
<1>4. /\ Len(all) = r + p
      /\ \A k \in 1 .. r : all[k] = rec[k]
      /\ \A k \in r + 1 .. r + p : all[k] = put[k - r]
  <2>1. /\ Len(all) = Len(rec) + Len(put)
        /\ \A k \in 1 .. Len(rec) + Len(put) :
             all[k] = IF k <= Len(rec) THEN rec[k] ELSE put[k - Len(rec)]
    BY <1>1, JoinedPaths
  <2>2. QED BY <1>3, <2>1
<1>5. PICK grown \in Seq(Paths) : grown = top \o new
  BY ConcatProperties
<1>6. /\ stk2[n].failures = grown
      /\ Len(grown) = t + p
      /\ \A k \in 1 .. t : grown[k] = top[k]
      /\ \A k \in t + 1 .. t + p : grown[k] = new[k - t]
  <2>1. /\ Len(grown) = Len(top) + Len(new)
        /\ \A k \in 1 .. Len(top) + Len(new) :
             grown[k] = IF k <= Len(top) THEN top[k] ELSE new[k - Len(top)]
    BY <1>5, JoinedPaths
  <2>2. QED BY <1>2, <1>3, <1>5, <2>1
<1>7. start \in [1 .. n -> 0 .. r] /\ start[1] = 0 /\ r = start[n] + t
  BY <1>2, <1>3 DEF Spread
<1>8. start \in [1 .. n -> 0 .. r + p]
  BY <1>3, <1>7
<1>9. \A i \in 1 .. n - 1 : start[i + 1] = start[i] + Len(stk2[i].failures)
  BY DEF Spread
<1>10. Len(all) = start[n] + Len(stk2[n].failures)
  <2>1. start[n] \in 0 .. r
    BY <1>7
  <2>2. QED BY <1>3, <1>4, <1>6, <1>7, <2>1
<1>11. ASSUME NEW i \in 1 .. n, NEW k \in 1 .. Len(stk2[i].failures)
       PROVE  all[start[i] + k] = stk2[i].path \o stk2[i].failures[k]
  <2>1. CASE i # n
    <3>1. i \in 1 .. n - 1
      BY <2>1
    <3>2. stk2[i] = stk[i]
      BY <3>1
    <3>3. start[i] + k \in 1 .. r
      BY <1>3, <1>11, <3>2, SpreadBelow
    <3>4. rec[start[i] + k] = stk[i].path \o stk[i].failures[k]
      BY <1>11, <3>2 DEF Spread
    <3>5. QED BY <1>4, <3>2, <3>3, <3>4
  <2>2. CASE i = n
    <3>1. start[n] \in 0 .. r
      BY <1>7
    <3>2. PICK s \in Nat : s = start[n] /\ r = s + t
      BY <1>3, <1>7, <3>1
    <3>3. k \in Nat /\ 1 <= k /\ k <= t + p
      BY <1>3, <1>6, <1>11, <2>2
    <3>4. CASE k <= t
      <4>1. s + k \in 1 .. r /\ k \in 1 .. t
        BY <1>3, <3>2, <3>3, <3>4, WithinLow
      <4>2. \A j \in 1 .. t : rec[s + j] = stk[n].path \o top[j]
        <5>1. n \in 1 .. n
          OBVIOUS
        <5>2. \A j \in 1 .. Len(stk[n].failures) :
                rec[start[n] + j] = stk[n].path \o stk[n].failures[j]
          BY <5>1 DEF Spread
        <5>3. QED BY <1>2, <1>3, <3>2, <5>2
      <4>3. rec[s + k] = stk[n].path \o top[k]
        BY <4>1, <4>2
      <4>4. all[s + k] = rec[s + k] /\ grown[k] = top[k]
        BY <1>4, <1>6, <4>1
      <4>5. QED BY <1>6, <2>2, <3>2, <4>3, <4>4
    <3>5. CASE k > t
      <4>1. PICK j \in Nat : k = j + t
        <5>1. k - t \in Nat
          BY <1>3, <3>3, <3>5
        <5>2. k = (k - t) + t
          BY <1>3, <3>3
        <5>3. QED BY <5>1, <5>2
      <4>2. j \in 1 .. p /\ k - t = j /\ k \in t + 1 .. t + p
        BY <1>3, <3>3, <3>5, <4>1
      <4>3. s + k \in r + 1 .. r + p /\ (s + k) - r = j
        <5>1. /\ s + (j + t) \in (s + t) + 1 .. (s + t) + p
              /\ (s + (j + t)) - (s + t) = j
          <6>1. s \in Nat /\ j \in Nat /\ t \in Nat /\ p \in Nat /\ j \in 1 .. p
            BY <1>3, <3>2, <4>1, <4>2
          <6>2. QED BY <6>1, WithinHigh
        <5>2. QED BY <3>2, <4>1, <5>1
      <4>4. all[s + k] = put[j]
        BY <1>4, <4>3
      <4>5. grown[k] = new[j]
        BY <1>6, <4>2
      <4>6. put[j] = stk[n].path \o new[j]
        BY <1>3, <4>2
      <4>7. QED BY <1>6, <2>2, <3>2, <4>4, <4>5, <4>6
    <3>6. k <= t \/ k > t
      BY <1>3, <3>3
    <3>7. QED BY <3>4, <3>5, <3>6
  <2>3. QED BY <2>1, <2>2
<1>12. QED BY <1>1, <1>4, <1>7, <1>8, <1>9, <1>10, <1>11 DEF Spread

(* A used flow has recorded nothing yet.                                   *)
LEMMA SpreadEnters ==
  ASSUME NEW stk \in Seq(Frames), NEW n \in Nat \ {0}, n = Len(stk), NEW rec \in Seq(Paths),
         NEW start, Spread(stk, n, rec, start),
         NEW stk2 \in Seq(Frames), \A i \in 1 .. n : stk2[i] = stk[i],
         stk2[n + 1].failures = <<>>
  PROVE  \E begin : Spread(stk2, n + 1, rec, begin)
<1>1. PICK r \in Nat : r = Len(rec)
  BY LenProperties
<1>2. PICK begin : begin = [i \in 1 .. n + 1 |-> IF i = n + 1 THEN r ELSE start[i]]
  OBVIOUS
<1>3. \A i \in 1 .. n : i \in 1 .. n + 1 /\ i # n + 1
  OBVIOUS
<1>4. \A i \in 1 .. n + 1 : i = n + 1 \/ i \in 1 .. n
  OBVIOUS
<1>5. start \in [1 .. n -> 0 .. r]
  BY <1>1 DEF Spread
<1>6. begin[n + 1] = r /\ \A i \in 1 .. n : begin[i] = start[i]
  BY <1>2, <1>3
<1>7. begin \in [1 .. n + 1 -> 0 .. r]
  <2>1. \A i \in 1 .. n + 1 : (IF i = n + 1 THEN r ELSE start[i]) \in 0 .. r
    BY <1>1, <1>4, <1>5
  <2>2. QED BY <1>2, <2>1
<1>8. begin[1] = 0
  BY <1>6 DEF Spread
<1>9. Len(rec) = start[n] + Len(stk[n].failures)
  BY DEF Spread
<1>10. \A i \in 1 .. n : begin[i + 1] = begin[i] + Len(stk2[i].failures)
  <2>1. TAKE i \in 1 .. n
  <2>2. CASE i = n
    BY <1>1, <1>6, <1>9, <2>2
  <2>3. CASE i # n
    <3>1. i \in 1 .. n - 1 /\ i + 1 \in 1 .. n
      BY <2>3
    <3>2. start[i + 1] = start[i] + Len(stk[i].failures)
      BY <3>1 DEF Spread
    <3>3. QED BY <1>6, <3>1, <3>2
  <2>4. QED BY <2>2, <2>3
<1>11. Len(stk2[n + 1].failures) = 0
  OBVIOUS
<1>12. Len(rec) = begin[n + 1] + Len(stk2[n + 1].failures)
  BY <1>1, <1>6, <1>11
<1>13. ASSUME NEW i \in 1 .. n + 1, NEW k \in 1 .. Len(stk2[i].failures)
       PROVE  rec[begin[i] + k] = stk2[i].path \o stk2[i].failures[k]
  <2>1. i # n + 1
    BY <1>11, <1>13
  <2>2. i \in 1 .. n
    BY <1>4, <2>1
  <2>3. rec[start[i] + k] = stk[i].path \o stk[i].failures[k]
    BY <1>13, <2>2 DEF Spread
  <2>4. QED BY <1>6, <2>2, <2>3
<1>14. (n + 1) - 1 = n
  OBVIOUS
<1>15. Spread(stk2, n + 1, rec, begin)
  BY <1>1, <1>7, <1>8, <1>10, <1>12, <1>13, <1>14 DEF Spread
<1>16. QED BY <1>15

LEMMA AppendPath ==
  ASSUME NEW p \in Paths, NEW id \in STRING, NEW q \in Paths
  PROVE  Append(p, id) \o q = p \o (<<id>> \o q)
<1>1. PICK S : S = STRING
  OBVIOUS
<1>2. p \in Seq(S) /\ id \in S /\ q \in Seq(S)
  BY <1>1 DEF Paths
<1>3. Append(p, id) = p \o <<id>>
  BY <1>2, AppendIsConcat
<1>4. <<id>> \in Seq(S)
  BY <1>2, OneIsSeq
<1>5. QED BY <1>2, <1>3, <1>4, ConcatAssociative

(* A used flow's failures become its caller's, under its step's name.      *)
LEMMA SpreadLeaves ==
  ASSUME NEW stk \in Seq(Frames), NEW n \in Nat \ {0}, n + 1 = Len(stk), NEW rec \in Seq(Paths),
         NEW start, Spread(stk, n + 1, rec, start),
         NEW stk2 \in Seq(Frames), \A i \in 1 .. n - 1 : stk2[i] = stk[i],
         stk2[n].path = stk[n].path,
         NEW id \in STRING, stk[n + 1].path = Append(stk[n].path, id),
         stk2[n].failures = stk[n].failures \o Prefixed(id, stk[n + 1].failures)
  PROVE  \E begin : Spread(stk2, n, rec, begin)
<1>1. PICK r \in Nat : r = Len(rec)
  BY LenProperties
<1>2. PICK begin : begin = [i \in 1 .. n |-> start[i]]
  OBVIOUS
<1>3. n \in 1 .. n + 1 /\ n + 1 \in 1 .. n + 1
  OBVIOUS
<1>4. stk[n] \in Frames /\ stk[n + 1] \in Frames
  BY <1>3, ElementOfSeq
<1>5. PICK low \in Seq(Paths), sub \in Seq(Paths), path \in Seq(STRING) :
        low = stk[n].failures /\ sub = stk[n + 1].failures /\ path = stk[n].path
  BY <1>4 DEF Frames, Paths
<1>6. PICK up \in Seq(Paths) : /\ up = Prefixed(id, sub)
                               /\ Len(up) = Len(sub)
                               /\ \A k \in 1 .. Len(sub) : up[k] = <<id>> \o sub[k]
  BY PrefixedIs
<1>7. PICK all \in Seq(Paths) : all = low \o up
  BY ConcatProperties
<1>8. PICK t \in Nat, p \in Nat : t = Len(low) /\ p = Len(sub)
  BY LenProperties
<1>9. /\ stk2[n].failures = all
      /\ Len(all) = t + p
      /\ \A k \in 1 .. t : all[k] = low[k]
      /\ \A k \in t + 1 .. t + p : all[k] = up[k - t]
  <2>1. /\ Len(all) = Len(low) + Len(up)
        /\ \A k \in 1 .. Len(low) + Len(up) :
             all[k] = IF k <= Len(low) THEN low[k] ELSE up[k - Len(low)]
    BY <1>7, JoinedPaths
  <2>2. stk2[n].failures = all
    BY <1>5, <1>6, <1>7
  <2>3. Len(low) = t /\ Len(up) = p
    BY <1>6, <1>8
  <2>4. /\ Len(all) = t + p
        /\ \A k \in 1 .. t + p : all[k] = IF k <= t THEN low[k] ELSE up[k - t]
    BY <2>1, <2>3
  <2>5. \A k \in 1 .. t : k \in 1 .. t + p /\ k <= t
    BY <1>8
  <2>6. \A k \in t + 1 .. t + p : k \in 1 .. t + p /\ ~ (k <= t)
    BY <1>8
  <2>7. QED BY <2>2, <2>4, <2>5, <2>6
<1>10. start \in [1 .. n + 1 -> 0 .. r]
  BY <1>1 DEF Spread
<1>11. \A i \in 1 .. n : i \in 1 .. n + 1 /\ begin[i] = start[i]
  BY <1>2
<1>12. begin \in [1 .. n -> 0 .. r] /\ begin[1] = 0
  <2>1. begin \in [1 .. n -> 0 .. r]
    BY <1>2, <1>10, <1>11
  <2>2. 1 \in 1 .. n
    OBVIOUS
  <2>3. start[1] = 0
    BY DEF Spread
  <2>4. QED BY <1>11, <2>1, <2>2, <2>3
<1>13. PICK s \in Nat : s = start[n]
  BY <1>1, <1>3, <1>10
<1>14. start[n + 1] = s + t /\ r = (s + t) + p
  <2>1. n \in 1 .. (n + 1) - 1
    OBVIOUS
  <2>2. start[n + 1] = start[n] + Len(stk[n].failures)
    BY <2>1 DEF Spread
  <2>3. Len(rec) = start[n + 1] + Len(stk[n + 1].failures)
    BY DEF Spread
  <2>4. QED BY <1>1, <1>5, <1>8, <1>13, <2>2, <2>3
<1>15. \A i \in 1 .. n - 1 : begin[i + 1] = begin[i] + Len(stk2[i].failures)
  <2>1. TAKE i \in 1 .. n - 1
  <2>2. i \in 1 .. n /\ i + 1 \in 1 .. n /\ i \in 1 .. (n + 1) - 1
    OBVIOUS
  <2>3. start[i + 1] = start[i] + Len(stk[i].failures)
    BY <2>2 DEF Spread
  <2>4. QED BY <1>11, <2>2, <2>3
<1>16. r = begin[n] + Len(stk2[n].failures)
  <2>1. begin[n] = s /\ Len(stk2[n].failures) = t + p
    <3>1. n \in 1 .. n
      OBVIOUS
    <3>2. begin[n] = s
      BY <1>11, <1>13, <3>1
    <3>3. Len(stk2[n].failures) = t + p
      BY <1>9
    <3>4. QED BY <3>2, <3>3
  <2>2. r = s + (t + p)
    <3>1. s \in Nat /\ t \in Nat /\ p \in Nat /\ r = (s + t) + p
      BY <1>8, <1>13, <1>14
    <3>2. (s + t) + p = s + (t + p)
      BY <3>1
    <3>3. QED BY <3>1, <3>2
  <2>3. QED BY <2>1, <2>2
<1>17. \A k \in 1 .. t : rec[s + k] = path \o low[k]
  <2>1. \A k \in 1 .. Len(stk[n].failures) :
          rec[start[n] + k] = stk[n].path \o stk[n].failures[k]
    BY <1>3 DEF Spread
  <2>2. QED BY <1>5, <1>8, <1>13, <2>1
<1>18. \A k \in 1 .. p : rec[(s + t) + k] = path \o up[k]
  <2>1. \A k \in 1 .. Len(stk[n + 1].failures) :
          rec[start[n + 1] + k] = stk[n + 1].path \o stk[n + 1].failures[k]
    BY <1>3 DEF Spread
  <2>2. ASSUME NEW k \in 1 .. p
        PROVE  rec[(s + t) + k] = path \o up[k]
    <3>1. rec[(s + t) + k] = Append(path, id) \o sub[k]
      BY <1>5, <1>8, <1>14, <2>1, <2>2
    <3>2. sub[k] \in Paths
      BY <1>8, <2>2, ElementOfSeq
    <3>3. path \in Paths
      BY <1>5 DEF Paths
    <3>4. Append(path, id) \o sub[k] = path \o (<<id>> \o sub[k])
      BY <3>2, <3>3, AppendPath
    <3>5. up[k] = <<id>> \o sub[k]
      BY <1>6, <1>8, <2>2
    <3>6. QED BY <3>1, <3>4, <3>5
  <2>3. QED BY <2>2
<1>19. ASSUME NEW i \in 1 .. n, NEW k \in 1 .. Len(stk2[i].failures)
       PROVE  rec[begin[i] + k] = stk2[i].path \o stk2[i].failures[k]
  <2>1. CASE i # n
    <3>1. i \in 1 .. n - 1 /\ i \in 1 .. n + 1
      BY <2>1
    <3>2. rec[start[i] + k] = stk[i].path \o stk[i].failures[k]
      BY <1>19, <3>1 DEF Spread
    <3>3. QED BY <1>11, <3>1, <3>2
  <2>2. CASE i = n
    <3>1. k \in Nat /\ 1 <= k /\ k <= t + p
      BY <1>8, <1>9, <1>19, <2>2
    <3>2. CASE k <= t
      <4>1. k \in 1 .. t
        BY <1>8, <3>1, <3>2
      <4>2. rec[s + k] = path \o low[k] /\ all[k] = low[k]
        BY <1>9, <1>17, <4>1
      <4>3. QED BY <1>5, <1>9, <1>11, <1>13, <2>2, <4>2
    <3>3. CASE k > t
      <4>1. PICK j \in Nat : k = j + t
        <5>1. k - t \in Nat
          BY <1>8, <3>1, <3>3
        <5>2. k = (k - t) + t
          BY <1>8, <3>1
        <5>3. QED BY <5>1, <5>2
      <4>2. j \in 1 .. p /\ k - t = j /\ k \in t + 1 .. t + p
        BY <1>8, <3>1, <3>3, <4>1
      <4>3. s + k = (s + t) + j
        <5>1. s \in Nat /\ t \in Nat /\ j \in Nat
          BY <1>8, <1>13, <4>1
        <5>2. s + (j + t) = (s + t) + j
          BY <5>1
        <5>3. QED BY <4>1, <5>2
      <4>4. rec[s + k] = path \o up[j] /\ all[k] = up[j]
        BY <1>9, <1>18, <4>2, <4>3
      <4>5. QED BY <1>5, <1>9, <1>11, <1>13, <2>2, <4>4
    <3>4. k <= t \/ k > t
      BY <1>8, <3>1
    <3>5. QED BY <3>2, <3>3, <3>4
  <2>3. QED BY <2>1, <2>2
<1>20. Spread(stk2, n, rec, begin)
  BY <1>1, <1>12, <1>15, <1>16, <1>19 DEF Spread
<1>21. QED BY <1>20

LEMMA ToldStart ==
  ASSUME FlowInit
  PROVE  ToldInv
BY DEF FlowInit, ToldInv

LEMMA ToldStep ==
  ASSUME Base, ToldInv, [Next]_vars
  PROVE  ToldInv'
<1>1. FlowTypeOK /\ Nested /\ stack \in Seq(Frames) /\ told \in Seq(Paths)
  BY DEF Base, TypeOK, FlowTypeOK
<1>2. stack' \in Seq(Frames) /\ told' \in Seq(Paths)
  BY BaseStep DEF Base, TypeOK, FlowTypeOK
<1>3. CASE Quiet
  BY <1>3 DEF Quiet, historyVars, ToldInv, Stretches
<1>4. CASE Start
  <2>1. PICK fr \in Frames : fr = NewFrame(flow, <<>>)
    BY <1>1, <1>4, StartIs DEF Base
  <2>2. Len(stack') = 1 /\ stack'[1] = fr /\ returned' = Unreturned
    BY <1>1, <1>4, <2>1, StartIs DEF Base
  <2>3. fr.failures = <<>> /\ told' = <<>>
    BY <1>4, <2>1 DEF NewFrame, Start, Call
  <2>4. PICK start : start = [i \in 1 .. 1 |-> 0]
    OBVIOUS
  <2>5. Len(told') = 0 /\ Len(fr.failures) = 0
    BY <2>3
  <2>6. start[1] = 0 /\ start \in [1 .. 1 -> 0 .. 0]
    BY <2>4
  <2>7. Spread(stack', 1, told', start)
    <3>1. \A i \in 1 .. 1 : i = 1
      OBVIOUS
    <3>2. \A i \in 1 .. 1 - 1 : FALSE
      OBVIOUS
    <3>3. \A k \in 1 .. Len(fr.failures) : FALSE
      BY <2>5
    <3>4. start \in [1 .. 1 -> 0 .. Len(told')] /\ Len(told') = start[1] + Len(stack'[1].failures)
      BY <2>2, <2>5, <2>6
    <3>5. \A i \in 1 .. 1 : \A k \in 1 .. Len(stack'[i].failures) :
            told'[start[i] + k] = stack'[i].path \o stack'[i].failures[k]
      BY <2>2, <3>1, <3>3
    <3>6. QED BY <2>6, <3>2, <3>4, <3>5 DEF Spread
  <2>8. QED BY <2>2, <2>7, SpreadTold
<1>5. CASE stack # <<>> /\ (Ending \/ Waiting \/ Moving \/ Using \/ EndUse)
  <2>1. PICK start : Spread(stack, Len(stack), told, start)
    BY <1>5, SpreadIs
  <2>2. PICK n \in Nat \ {0} : n = Len(stack)
    BY <1>1, <1>5, TopIs
  <2>3. CASE Ending
    <3>1. PICK fr \in Frames, m \in Nat, throttle \in BOOLEAN : EndsAs(fr, m, throttle)
      BY <2>3 DEF Ending
    <3>2. StaysOn(fr) /\ returned' = Unreturned
      BY <1>1, <2>3, <3>1, RunsUnreturned DEF Ending, StepRuns, EndsAs, EndStep, StaysOn
    <3>3. /\ Len(stack') = n /\ stack'[n] = fr /\ Top = stack[n]
          /\ \A i \in 1 .. n - 1 : stack'[i] = stack[i]
      BY <1>1, <2>2, <3>2, StaysOnIs
    <3>4. /\ Top.path \in Paths /\ Here.id \in STRING /\ Path = Append(Top.path, Here.id)
          /\ Path \in Paths
      BY <1>1, <2>3, TopIs, HereIs DEF Ending, StepRuns, Frames, Step
    <3>5. PICK path, id, new, put :
            /\ path \in Paths /\ id \in STRING
            /\ path = Top.path /\ id = Here.id
            /\ new = Noticed(m, id) /\ put = [i \in 1 .. m |-> Append(path, id)]
      BY <3>4
    <3>6. <<id>> \in Paths /\ Append(path, id) \in Paths
      BY <3>4, <3>5, OneIsPath
    <3>7. /\ new \in Seq(Paths) /\ Len(new) = m
          /\ \A k \in 1 .. m : new[k] = <<id>>
      BY <3>1, <3>5, <3>6 DEF Noticed
    <3>8. /\ put \in Seq(Paths) /\ Len(put) = m
          /\ \A k \in 1 .. m : put[k] = Append(path, id)
      BY <3>1, <3>5, <3>6
    <3>9. Append(path, id) = path \o <<id>>
      <4>1. path \in Seq(STRING)
        BY <3>5 DEF Paths
      <4>2. QED BY <3>5, <4>1, AppendIsConcat
    <3>10. fr.path = path /\ fr.failures = Top.failures \o new /\ told' = told \o put
      BY <3>1, <3>4, <3>5 DEF EndsAs, EndStep
    <3>11. Spread(stack', n, told \o put, start)
      <4>1. /\ stack'[n].path = stack[n].path
            /\ stack'[n].failures = stack[n].failures \o new
            /\ \A k \in 1 .. Len(new) : put[k] = stack[n].path \o new[k]
        BY <3>3, <3>5, <3>7, <3>8, <3>9, <3>10
      <4>2. stack \in Seq(Frames) /\ stack' \in Seq(Frames) /\ told \in Seq(Paths)
        BY <1>1, <1>2
      <4>3. Spread(stack, n, told, start) /\ n = Len(stack) /\ Len(put) = Len(new)
        BY <2>1, <2>2, <3>7, <3>8
      <4>4. PICK stk2 \in Seq(Frames) : stk2 = stack'
        BY <4>2
      <4>5. QED BY <3>3, <3>7, <3>8, <4>1, <4>2, <4>3, <4>4, SpreadGrows
    <3>12. QED BY <2>2, <3>2, <3>3, <3>10, <3>11, SpreadTold
  <2>4. CASE Waiting
    <3>1. PICK fr \in Frames, p \in {"try", "dial", "send", "receive"}, call \in Calls :
            WaitAt(p, fr, call) /\ Alike(fr, Top)
      BY <2>4 DEF Waiting
    <3>2. StaysOn(fr) /\ returned' = Unreturned
      BY <1>1, <2>4, <3>1, RunsUnreturned DEF Waiting, StepRuns, WaitAt, StaysOn, Alike
    <3>3. /\ Len(stack') = n /\ stack'[n] = fr /\ Top = stack[n]
          /\ \A i \in 1 .. n - 1 : stack'[i] = stack[i]
      BY <1>1, <2>2, <3>2, StaysOnIs
    <3>4. \A i \in 1 .. n : /\ stack'[i].failures = stack[i].failures
                            /\ stack'[i].path = stack[i].path
      <4>1. TAKE i \in 1 .. n
      <4>2. CASE i = n
        BY <3>1, <3>3, <4>2 DEF Alike
      <4>3. CASE i # n
        <5>1. i \in 1 .. n - 1
          BY <4>3
        <5>2. QED BY <3>3, <5>1
      <4>4. QED BY <4>2, <4>3
    <3>5. told' = told /\ n \in 1 .. n /\ \A i \in 1 .. n - 1 : i \in 1 .. n
      BY <3>1 DEF WaitAt
    <3>6. Spread(stack', n, told', start)
      <4>1. Spread(stack, n, told, start)
        BY <2>1, <2>2
      <4>2. PICK new : new = stack'
        OBVIOUS
      <4>3. \A i \in 1 .. n : /\ new[i].failures = stack[i].failures
                              /\ new[i].path = stack[i].path
        BY <3>4, <4>2
      <4>4. \A i \in 1 .. n - 1 : start[i + 1] = start[i] + Len(new[i].failures)
        BY <3>5, <4>1, <4>3 DEF Spread
      <4>5. Len(told) = start[n] + Len(new[n].failures)
        BY <3>5, <4>1, <4>3 DEF Spread
      <4>6. \A i \in 1 .. n : \A k \in 1 .. Len(new[i].failures) :
              told[start[i] + k] = new[i].path \o new[i].failures[k]
        <5>1. \A i \in 1 .. n : \A k \in 1 .. Len(stack[i].failures) :
                told[start[i] + k] = stack[i].path \o stack[i].failures[k]
          BY <4>1 DEF Spread
        <5>2. TAKE i \in 1 .. n
        <5>3. new[i].failures = stack[i].failures /\ new[i].path = stack[i].path
          BY <4>3
        <5>4. QED BY <5>1, <5>3
      <4>7. Spread(new, n, told, start)
        BY <4>1, <4>4, <4>5, <4>6 DEF Spread
      <4>8. QED BY <3>5, <4>2, <4>7
    <3>7. QED BY <2>2, <3>2, <3>3, <3>6, SpreadTold
  <2>5. CASE Moving
    <3>1. UNCHANGED <<stack, told>> /\ returned' = Unreturned
      BY <1>1, <2>5, RunsUnreturned DEF Moving
    <3>2. QED BY <2>1, <3>1, SpreadTold
  <2>6. CASE Using
    <3>1. PICK fr \in Frames : fr = NewFrame(Here.uses, Path)
      BY <1>1, <2>6, UsingIs
    <3>2. /\ Len(stack') = n + 1
          /\ stack'[n + 1] = fr
          /\ \A i \in 1 .. n : stack'[i] = stack[i]
      BY <1>1, <2>2, <2>6, <3>1, UsingIs, EnteredIs DEF Using
    <3>3. fr.failures = <<>>
      BY <3>1 DEF NewFrame
    <3>4. told' = told /\ returned' = Unreturned
      BY <1>1, <2>6, RunsUnreturned DEF Using
    <3>5. PICK begin : Spread(stack', n + 1, told, begin)
      BY <1>1, <1>2, <2>1, <2>2, <3>2, <3>3, SpreadEnters
    <3>6. QED BY <3>2, <3>4, <3>5, SpreadTold
  <2>7. CASE EndUse
    <3>1. pc = "head" /\ stack # <<>> /\ Len(stack) > 1
      BY <1>1, <2>7, EndUseIs
    <3>2. PICK g \in Frames : Returning(g)
      BY <1>1, <2>7, EndUseIs
    <3>3. PICK k \in Nat \ {0} : k = n - 1 /\ n = k + 1
      BY <2>2, <3>1
    <3>4. /\ Len(stack') = k
          /\ stack'[k] = g
          /\ \A i \in 1 .. k - 1 : stack'[i] = stack[i]
      <4>1. /\ Len(Left(g)) = k
            /\ Left(g)[k] = g
            /\ \A i \in 1 .. Len(stack) - 2 : Left(g)[i] = stack[i]
        BY <1>1, <2>2, <3>1, <3>3, LeftIs
      <4>2. Len(stack) - 2 = k - 1
        BY <2>2, <3>3
      <4>3. QED BY <3>2, <4>1, <4>2 DEF Returning
    <3>5. Below = stack[k] /\ Top = stack[k + 1]
      BY <1>1, <2>2, <3>1, <3>3, TopIs DEF Below
    <3>6. PICK id \in STRING :
            /\ id = Last(Top.path)
            /\ Top.path = Append(Below.path, id)
      BY <1>1, <3>1, BelowIs DEF Step
    <3>7. /\ g.path = Below.path
          /\ g.failures = Below.failures \o Prefixed(id, Top.failures)
      BY <3>2, <3>6 DEF Returning, UsedIn
    <3>8. told' = told /\ returned' = Unreturned
      BY <1>1, <3>1, <3>2 DEF Returning, Nested
    <3>9. PICK begin : Spread(stack', k, told, begin)
      <4>1. Spread(stack, k + 1, told, start) /\ k + 1 = Len(stack)
        BY <2>1, <2>2, <3>3
      <4>2. /\ stack'[k].path = stack[k].path
            /\ stack[k + 1].path = Append(stack[k].path, id)
            /\ stack'[k].failures = stack[k].failures \o Prefixed(id, stack[k + 1].failures)
        BY <3>4, <3>5, <3>6, <3>7
      <4>3. QED BY <1>1, <1>2, <3>4, <4>1, <4>2, SpreadLeaves
    <3>10. QED BY <3>4, <3>8, <3>9, SpreadTold
  <2>8. QED BY <1>5, <2>3, <2>4, <2>5, <2>6, <2>7
<1>6. CASE ReturnFlow
  <2>1. stack # <<>> /\ Len(stack) = 1 /\ stack' = <<>> /\ Top = stack[1]
    BY <1>1, <1>6, TopIs DEF ReturnFlow, Ended, At
  <2>2. returned'.failures = Top.failures /\ told' = told
    BY <1>6 DEF ReturnFlow, historyVars
  <2>3. PICK start : Spread(stack, 1, told, start)
    BY <2>1, SpreadIs
  <2>4. Top.failures \in Seq(Paths) /\ Top.path = <<>>
    BY <1>1, <2>1, TopIs DEF Frames, Nested
  <2>5. PICK m \in Nat : m = Len(Top.failures)
    BY <2>4, LenProperties
  <2>6. start[1] = 0 /\ Len(told) = start[1] + Len(Top.failures)
    BY <2>1, <2>3 DEF Spread
  <2>7. Len(told) = m
    BY <2>5, <2>6
  <2>8. \A k \in 1 .. m : told[k] = Top.failures[k]
    <3>1. TAKE k \in 1 .. m
    <3>2. told[start[1] + k] = Top.path \o Top.failures[k]
      <4>1. 1 \in 1 .. 1 /\ k \in 1 .. Len(stack[1].failures)
        BY <2>1, <2>5
      <4>2. told[start[1] + k] = stack[1].path \o stack[1].failures[k]
        BY <2>3, <4>1 DEF Spread
      <4>3. QED BY <2>1, <4>2
    <3>3. start[1] + k = k
      BY <2>6
    <3>4. Top.failures[k] \in Paths
      BY <2>4, <2>5, ElementOfSeq
    <3>5. <<>> \o Top.failures[k] = Top.failures[k]
      BY <3>4, ConcatEmptySeq DEF Paths
    <3>6. QED BY <2>4, <3>2, <3>3, <3>5
  <2>9. told = Top.failures
    BY <1>1, <2>4, <2>5, <2>7, <2>8, SeqEqual
  <2>10. QED BY <2>1, <2>2, <2>9 DEF ToldInv
<1>7. CASE RunFlowStep
  <2>1. Forms /\ stack # <<>>
    BY <1>1, <1>7, StepForms, FormsRun
  <2>2. QED BY <1>5, <1>6, <2>1 DEF Forms
<1>8. QED BY <1>3, <1>4, <1>7, NextForms

-------------------------------------------------------------------------------
(* Sessions are their flow's own. *)

LEMMA OpenedNext ==
  ASSUME NEW f, NEW at \in Nat \ {0}
  PROVE  OpenedBefore(f, at + 1) = OpenedBefore(f, at) \cup
           (IF StepsOf[f][at].kind = "ws" /\ StepsOf[f][at].opens
            THEN {StepsOf[f][at].session} ELSE {})
<1>1. \A k : k \in 1 .. (at + 1) - 1 <=> k \in 1 .. at - 1 \/ k = at
  OBVIOUS
<1>2. PICK low, high : low = 1 .. at - 1 /\ high = 1 .. (at + 1) - 1
  OBVIOUS
<1>3. \A k : k \in high <=> k \in low \/ k = at
  BY <1>1, <1>2
<1>4. /\ OpenedBefore(f, at + 1) =
           {StepsOf[f][j].session : j \in {k \in high : /\ StepsOf[f][k].kind = "ws"
                                                        /\ StepsOf[f][k].opens}}
      /\ OpenedBefore(f, at) =
           {StepsOf[f][j].session : j \in {k \in low : /\ StepsOf[f][k].kind = "ws"
                                                       /\ StepsOf[f][k].opens}}
  BY <1>2 DEF OpenedBefore
<1>5. QED BY <1>3, <1>4

LEMMA NoneOpened ==
  ASSUME NEW f, NEW path
  PROVE  /\ OpenedBefore(f, 1) = {}
         /\ Opened(NewFrame(f, path)) = {} /\ Sessions(NewFrame(f, path)) = {}
         /\ NewFrame(f, path).flow = f /\ NewFrame(f, path).at = 1
<1>1. \A k \in 1 .. 1 - 1 : FALSE
  OBVIOUS
<1>2. OpenedBefore(f, 1) = {}
  BY <1>1 DEF OpenedBefore
<1>3. QED BY <1>2 DEF Opened, Sessions, NewFrame

(* The session of the step under way counts once its connection is there.  *)
Under == IF pc \in {"send", "receive"} THEN {Here.session} ELSE {}

(* What the frame on top knows of its sessions while it is at a step.      *)
SessionNow ==
  /\ Top \in Frames /\ Here \in Step /\ Here.session \in Session
  /\ Top.exit = "none" /\ Top.at \in Nat \ {0} /\ Here = StepsOf[Top.flow][Top.at]
  /\ Opened(Top) = OpenedBefore(Top.flow, Top.at) \cup Under
  /\ Here.kind = "ws" => (Here.opens <=> Here.session \notin OpenedBefore(Top.flow, Top.at))
  /\ pc \in {"send", "receive"} => Here.kind = "ws" /\ Session0 = "open"
  /\ Here.kind = "ws" /\ Here.opens /\ pc \in {"head", "dial"} => Session0 = "unopened"

LEMMA SessionNowIs ==
  ASSUME FlowTypeOK, Nested, SessionsInv, stack # <<>>, AtStep(Top)
  PROVE  SessionNow
<1>1. /\ Top \in Frames /\ Here \in Step /\ Here.session \in Session
      /\ Top.exit = "none" /\ Top.at \in Nat \ {0} /\ Here = StepsOf[Top.flow][Top.at]
  BY TopIs, HereIs DEF AtStep, Step, Frames, Here
<1>2. Top = stack[Len(stack)] /\ Len(stack) \in 1 .. Len(stack)
  BY TopIs
<1>3. Opened(Top) = OpenedBefore(Top.flow, Top.at) \cup Under
  BY <1>1, <1>2 DEF SessionsInv, Under
<1>4. Here.kind = "ws" => (Here.opens <=> Here.session \notin OpenedBefore(Top.flow, Top.at))
  <2>1. Valid(Top.flow)
    BY <1>2 DEF Nested
  <2>2. SessionsResolve(Top.flow)
    BY <2>1, ValidIs
  <2>3. Top.at \in DOMAIN StepsOf[Top.flow]
    BY DEF AtStep
  <2>4. QED BY <1>1, <2>2, <2>3 DEF SessionsResolve
<1>5. pc \in {"send", "receive"} => Here.kind = "ws" /\ Session0 = "open"
  BY DEF Nested, Session0
<1>6. ASSUME Here.kind = "ws", Here.opens, pc \in {"head", "dial"}
      PROVE  Session0 = "unopened"
  <2>1. Here.session \notin Opened(Top)
    BY <1>3, <1>4, <1>6 DEF Under
  <2>2. QED BY <1>1, <2>1 DEF Opened, Session0
<1>7. QED BY <1>1, <1>3, <1>4, <1>5, <1>6 DEF SessionNow

(* A step that goes on past its dial leaves its session opened; it brings  *)
(* no connection but the one it has dialled, and drops none.               *)
LEMMA OpensIs ==
  ASSUME SessionNow, NEW fr \in Frames, WsMoves(fr), fr.exit = "none", pc' # "dial"
  PROVE  Opened(fr) = OpenedBefore(Top.flow, Top.at) \cup
                        (IF Here.kind = "ws" THEN {Here.session} ELSE {})
<1>1. Top.ws \in [Session -> {"unopened", "refused", "open", "retired"}]
  BY DEF SessionNow, Frames
<1>2. Opened(fr) = Opened(Top) \cup (IF Here.kind = "ws" THEN {Here.session} ELSE {})
  <2>1. Here.session \in Session
    BY DEF SessionNow
  <2>2. ASSUME fr.ws = Top.ws, Here.kind = "ws" => Session0 # "unopened"
        PROVE  Opened(fr) = Opened(Top) \cup (IF Here.kind = "ws" THEN {Here.session} ELSE {})
    <3>1. Opened(fr) = Opened(Top)
      BY <2>2 DEF Opened
    <3>2. Here.kind = "ws" => Here.session \in Opened(Top)
      BY <2>1, <2>2 DEF Opened, Session0
    <3>3. QED BY <3>1, <3>2
  <2>3. ASSUME NEW s \in {"refused", "open", "retired"}, fr.ws = [Top.ws EXCEPT ![Here.session] = s],
               Here.kind = "ws"
        PROVE  Opened(fr) = Opened(Top) \cup {Here.session}
    <3>1. \A t \in Session : fr.ws[t] = IF t = Here.session THEN s ELSE Top.ws[t]
      BY <1>1, <2>1, <2>3
    <3>2. \A t \in Session : fr.ws[t] # "unopened" <=> t = Here.session \/ Top.ws[t] # "unopened"
      BY <2>3, <3>1
    <3>3. QED BY <2>1, <3>2 DEF Opened
  <2>4. \/ fr.ws = Top.ws /\ (Here.kind = "ws" => Session0 # "unopened")
        \/ (Here.kind = "ws" /\ \E s \in {"refused", "open", "retired"} :
                               fr.ws = [Top.ws EXCEPT ![Here.session] = s])
    BY DEF WsMoves
  <2>5. QED BY <2>2, <2>3, <2>4
<1>3. Here.kind # "ws" => Under = {}
  BY DEF SessionNow, Under
<1>4. QED BY <1>2, <1>3 DEF SessionNow, Under

LEMMA HeldIs ==
  ASSUME SessionNow, NEW fr \in Frames, fr.path = Top.path, WsMoves(fr)
  PROVE  \E new : Sessions(fr) = Sessions(Top) \cup new /\ conns' = conns \cup new
<1>1. Top.ws \in [Session -> {"unopened", "refused", "open", "retired"}]
  BY DEF SessionNow, Frames
<1>2. CASE fr.ws = Top.ws /\ UNCHANGED conns
  <2>1. Sessions(fr) = Sessions(Top) \cup {} /\ conns' = conns \cup {}
    BY <1>2 DEF Sessions
  <2>2. QED BY <2>1
<1>3. CASE /\ Here.kind = "ws" /\ Here.opens /\ pc \in {"head", "dial"}
           /\ fr.ws = [Top.ws EXCEPT ![Here.session] = "refused"]
           /\ UNCHANGED conns
  <2>1. Session0 = "unopened"
    BY <1>3 DEF SessionNow
  <2>2. Sessions(fr) = Sessions(Top) \cup {} /\ conns' = conns \cup {}
    BY <1>1, <1>3, <2>1 DEF Sessions, Session0
  <2>3. QED BY <2>2
<1>4. CASE /\ Here.kind = "ws" /\ Here.opens /\ pc = "dial"
           /\ fr.ws = [Top.ws EXCEPT ![Here.session] = "open"]
           /\ conns' = conns \cup {<<Top.path, Here.session>>}
  <2>1. \A s \in Session : fr.ws[s] \in {"open", "retired"}
                             <=> Top.ws[s] \in {"open", "retired"} \/ s = Here.session
    BY <1>1, <1>4
  <2>2. Sessions(fr) = Sessions(Top) \cup {<<Top.path, Here.session>>}
    BY <2>1 DEF Sessions, SessionNow
  <2>3. QED BY <1>4, <2>2
<1>5. CASE /\ Here.kind = "ws" /\ pc \in {"send", "receive"}
           /\ fr.ws = [Top.ws EXCEPT ![Here.session] = "retired"]
           /\ UNCHANGED conns
  <2>1. Session0 = "open"
    BY <1>5 DEF SessionNow
  <2>2. \A s \in Session : fr.ws[s] \in {"open", "retired"}
                             <=> Top.ws[s] \in {"open", "retired"}
    BY <1>1, <1>5, <2>1 DEF Session0
  <2>3. Sessions(fr) = Sessions(Top) \cup {} /\ conns' = conns \cup {}
    BY <1>5, <2>2 DEF Sessions
  <2>4. QED BY <2>3
<1>6. QED BY <1>2, <1>3, <1>4, <1>5 DEF WsMoves

(* The three parts of SessionsInv, of a stack with n frames.               *)
Deep(stk, n) == \A i \in 1 .. n : Len(stk[i].path) = i - 1

Settled(fr, new) ==
  fr.exit = "none" => Opened(fr) = OpenedBefore(fr.flow, fr.at) \cup new

AllSettled(stk, n, new) ==
  \A i \in 1 .. n : Settled(stk[i], IF i = n THEN new ELSE {})

Held(stk, n) == UNION {Sessions(stk[i]) : i \in 1 .. n}

LEMMA SessionsAre ==
  SessionsInv <=> /\ Deep(stack, Len(stack))
                  /\ AllSettled(stack, Len(stack), Under)
                  /\ conns = Held(stack, Len(stack))
<1>1. ASSUME NEW i \in 1 .. Len(stack)
      PROVE  (IF i = Len(stack) THEN Under ELSE {})
               = (IF i = Len(stack) /\ pc \in {"send", "receive"} THEN {Here.session} ELSE {})
  BY DEF Under
<1>2. QED BY <1>1 DEF SessionsInv, Deep, AllSettled, Settled, Held

LEMMA SessionsStay ==
  ASSUME NEW stk, NEW stk2, NEW n \in Nat \ {0}, NEW old, NEW new,
         Deep(stk, n), AllSettled(stk, n, old),
         \A i \in 1 .. n - 1 : stk2[i] = stk[i],
         stk2[n].path = stk[n].path, Settled(stk2[n], new)
  PROVE  Deep(stk2, n) /\ AllSettled(stk2, n, new)
<1>1. ASSUME NEW i \in 1 .. n
      PROVE  Len(stk2[i].path) = i - 1 /\ Settled(stk2[i], IF i = n THEN new ELSE {})
  <2>1. CASE i = n
    BY <2>1 DEF Deep
  <2>2. CASE i # n
    <3>1. i \in 1 .. n - 1
      BY <2>2
    <3>2. stk2[i] = stk[i] /\ Settled(stk[i], {}) /\ Len(stk[i].path) = i - 1
      BY <2>2, <3>1 DEF Deep, AllSettled
    <3>3. QED BY <2>2, <3>2
  <2>3. QED BY <2>1, <2>2
<1>2. QED BY <1>1 DEF Deep, AllSettled

LEMMA HeldStays ==
  ASSUME NEW stk, NEW stk2, NEW n \in Nat \ {0}, NEW new,
         \A i \in 1 .. n - 1 : stk2[i] = stk[i],
         Sessions(stk2[n]) = Sessions(stk[n]) \cup new
  PROVE  Held(stk2, n) = Held(stk, n) \cup new
<1>1. \A i \in 1 .. n : i \in 1 .. n - 1 \/ i = n
  OBVIOUS
<1>2. n \in 1 .. n /\ \A i \in 1 .. n - 1 : i \in 1 .. n
  OBVIOUS
<1>3. ASSUME NEW c \in Held(stk2, n) PROVE c \in Held(stk, n) \cup new
  BY <1>1, <1>2, <1>3 DEF Held
<1>4. ASSUME NEW c \in Held(stk, n) PROVE c \in Held(stk2, n)
  BY <1>1, <1>2, <1>4 DEF Held
<1>5. ASSUME NEW c \in new PROVE c \in Held(stk2, n)
  BY <1>2, <1>5 DEF Held
<1>6. QED BY <1>3, <1>4, <1>5

LEMMA HeldBelow ==
  ASSUME NEW stk, NEW n \in Nat
  PROVE  Held(stk, n + 1) = Held(stk, n) \cup Sessions(stk[n + 1])
<1>1. \A i : i \in 1 .. n + 1 <=> i \in 1 .. n \/ i = n + 1
  OBVIOUS
<1>2. QED BY <1>1 DEF Held

LEMMA SessionsStart ==
  ASSUME FlowInit
  PROVE  SessionsInv
<1>1. stack = <<>> /\ Len(stack) = 0 /\ conns = {}
  BY DEF FlowInit
<1>2. \A i \in 1 .. Len(stack) : FALSE
  BY <1>1
<1>3. QED BY <1>1, <1>2 DEF SessionsInv

(* The step on top stays on the frame's stack, whether it ends or waits.   *)
LEMMA SessionsStayOn ==
  ASSUME FlowTypeOK, SessionsInv, SessionNow, NEW fr, StaysOn(fr), WsMoves(fr),
         Settled(fr, Under')
  PROVE  SessionsInv'
<1>1. PICK n \in Nat \ {0} : n = Len(stack)
  BY StaysOnIs
<1>2. /\ Len(stack') = n /\ stack'[n] = fr /\ Top = stack[n]
      /\ \A i \in 1 .. n - 1 : stack'[i] = stack[i]
      /\ fr \in Frames /\ fr.path = Top.path
  BY <1>1, StaysOnIs DEF StaysOn
<1>3. Deep(stack, n) /\ AllSettled(stack, n, Under) /\ conns = Held(stack, n)
  BY <1>1, SessionsAre
<1>4. Deep(stack', n) /\ AllSettled(stack', n, Under')
  BY <1>2, <1>3, SessionsStay
<1>5. PICK new : Sessions(fr) = Sessions(Top) \cup new /\ conns' = conns \cup new
  BY <1>2, HeldIs
<1>6. Held(stack', n) = Held(stack, n) \cup new
  BY <1>2, <1>5, HeldStays
<1>7. conns' = Held(stack', n)
  BY <1>3, <1>5, <1>6
<1>8. QED BY <1>2, <1>4, <1>7 DEF SessionsInv, Deep, AllSettled, Settled, Held, Under

LEMMA SessionsStep ==
  ASSUME Base, SessionsInv, [Next]_vars
  PROVE  SessionsInv'
<1>1. FlowTypeOK /\ Nested /\ stack \in Seq(Frames)
  BY DEF Base, TypeOK, FlowTypeOK
<1>2. CASE Quiet
  BY <1>2 DEF Quiet, SessionsInv, Here, Top, Last
<1>3. CASE Start
  <2>1. PICK fr \in Frames : fr = NewFrame(flow, <<>>)
    BY <1>1, <1>3, StartIs DEF Base
  <2>2. /\ Len(stack') = 1 /\ stack'[1] = fr /\ pc' = "head"
        /\ conns' = conns /\ stack = <<>>
    BY <1>1, <1>3, <2>1, StartIs DEF Base
  <2>3. Opened(fr) = {} /\ Sessions(fr) = {} /\ OpenedBefore(fr.flow, fr.at) = {}
    BY <2>1, NoneOpened
  <2>4. fr.path = <<>> /\ Len(fr.path) = 1 - 1
    BY <2>1 DEF NewFrame
  <2>5. \A i \in 1 .. 1 : i = 1
    OBVIOUS
  <2>6. conns = {}
    <3>1. Len(stack) = 0
      BY <2>2
    <3>2. \A i \in 1 .. Len(stack) : FALSE
      BY <3>1
    <3>3. QED BY <3>2 DEF SessionsInv
  <2>7. conns' = UNION {Sessions(stack'[i]) : i \in 1 .. 1}
    BY <2>2, <2>3, <2>5, <2>6
  <2>8. QED BY <2>2, <2>3, <2>4, <2>5, <2>7 DEF SessionsInv
<1>4. CASE Ending
  <2>1. PICK fr \in Frames, m \in Nat, throttle \in BOOLEAN :
          EndsAs(fr, m, throttle) /\ WsMoves(fr)
    BY <1>4 DEF Ending
  <2>2. StaysOn(fr) /\ pc' = "head" /\ stack # <<>> /\ AtStep(Top)
    BY <1>4, <2>1 DEF Ending, StepRuns, EndsAs, EndStep, StaysOn
  <2>3. SessionNow
    BY <1>1, <2>2, SessionNowIs
  <2>4. ASSUME fr.exit = "none"
        PROVE  Opened(fr) = OpenedBefore(fr.flow, fr.at) \cup {}
    <3>1. fr.flow = Top.flow /\ fr.at = Top.at + 1
      BY <2>1, <2>4 DEF EndsAs
    <3>2. Opened(fr) = OpenedBefore(Top.flow, Top.at) \cup
                         (IF Here.kind = "ws" THEN {Here.session} ELSE {})
      BY <2>1, <2>2, <2>3, <2>4, OpensIs
    <3>3. OpenedBefore(Top.flow, Top.at + 1) = OpenedBefore(Top.flow, Top.at) \cup
            (IF Here.kind = "ws" /\ Here.opens THEN {Here.session} ELSE {})
      BY <2>3, OpenedNext DEF SessionNow
    <3>4. QED BY <2>3, <3>1, <3>2, <3>3 DEF SessionNow
  <2>5. Under' = {}
    BY <2>2 DEF Under
  <2>6. Settled(fr, Under')
    BY <2>4, <2>5 DEF Settled
  <2>7. QED BY <1>1, <2>1, <2>2, <2>3, <2>6, SessionsStayOn
<1>5. CASE Waiting
  <2>1. PICK fr \in Frames, p \in {"try", "dial", "send", "receive"}, call \in Calls :
          /\ WaitAt(p, fr, call)
          /\ Alike(fr, Top) /\ WsMoves(fr)
          /\ p = "try" => Here.kind \in {"call", "grpc"}
          /\ p = "dial" => /\ Here.kind = "ws" /\ Here.opens
                           /\ pc = "head" /\ fr.ws = Top.ws
          /\ p \in {"send", "receive"} => Here.kind = "ws"
    BY <1>5 DEF Waiting
  <2>2. StaysOn(fr) /\ pc' = p /\ stack # <<>> /\ AtStep(Top)
    BY <1>5, <2>1 DEF Waiting, StepRuns, WaitAt, StaysOn, Alike
  <2>3. SessionNow
    BY <1>1, <2>2, SessionNowIs
  <2>4. fr.flow = Top.flow /\ fr.at = Top.at /\ fr.exit = "none" /\ Top' = fr
    BY <1>1, <2>1, <2>2, <2>3, StaysOnIs DEF Alike, SessionNow
  <2>5. Here' = Here
    BY <2>4 DEF Here
  <2>6. Opened(fr) = OpenedBefore(fr.flow, fr.at) \cup Under'
    <3>1. CASE p = "dial"
      <4>1. Under = {} /\ Under' = {}
        BY <2>1, <2>2, <3>1 DEF Under
      <4>2. Opened(fr) = Opened(Top)
        BY <2>1, <3>1 DEF Opened
      <4>3. QED BY <2>3, <2>4, <4>1, <4>2 DEF SessionNow
    <3>2. CASE p # "dial"
      <4>1. Opened(fr) = OpenedBefore(Top.flow, Top.at) \cup
                           (IF Here.kind = "ws" THEN {Here.session} ELSE {})
        BY <2>1, <2>2, <2>3, <2>4, <3>2, OpensIs
      <4>2. Under' = IF Here.kind = "ws" THEN {Here.session} ELSE {}
        BY <2>1, <2>2, <2>5, <3>2 DEF Under
      <4>3. QED BY <2>4, <4>1, <4>2
    <3>3. QED BY <3>1, <3>2
  <2>7. Settled(fr, Under')
    BY <2>6 DEF Settled
  <2>8. QED BY <1>1, <2>1, <2>2, <2>3, <2>7, SessionsStayOn
<1>6. CASE Moving
  <2>1. /\ UNCHANGED <<stack, conns>>
        /\ pc' = pc \/ (pc \in {"try", "backoff"} /\ pc' \in {"try", "backoff", "judge"})
    BY <1>6 DEF Moving
  <2>2. Here' = Here
    BY <2>1 DEF Here, Top, Last
  <2>3. QED BY <2>1, <2>2 DEF SessionsInv
<1>7. CASE Using
  <2>1. PICK n \in Nat \ {0} : n = Len(stack) /\ stack[n] = Top
    BY <1>1, <1>7, TopIs DEF Using, StepRuns
  <2>2. PICK fr \in Frames : fr = NewFrame(Here.uses, Path)
    BY <1>1, <1>7, UsingIs
  <2>3. /\ Len(stack') = n + 1
        /\ stack'[n + 1] = fr
        /\ \A i \in 1 .. n : stack'[i] = stack[i]
    BY <1>1, <1>7, <2>1, <2>2, UsingIs, EnteredIs DEF Using
  <2>4. pc' = "head" /\ conns' = conns /\ Under = {} /\ Under' = {}
    BY <1>7 DEF Using, Under
  <2>5. Deep(stack, n) /\ AllSettled(stack, n, {}) /\ conns = Held(stack, n)
    BY <2>1, <2>4, SessionsAre
  <2>6. Opened(fr) = {} /\ Sessions(fr) = {} /\ OpenedBefore(fr.flow, fr.at) = {}
    BY <2>2, NoneOpened
  <2>7. Len(fr.path) = n
    <3>1. PICK path \in Seq(STRING), id \in STRING : path = Top.path /\ id = Here.id
      BY <1>1, <1>7, UsingIs DEF Frames, Paths, Step
    <3>2. fr.path = Append(path, id)
      BY <1>1, <1>7, <2>2, <3>1, UsingIs DEF NewFrame
    <3>3. n \in 1 .. n /\ Len(path) = n - 1
      BY <2>1, <2>5, <3>1 DEF Deep
    <3>4. Len(Append(path, id)) = Len(path) + 1
      BY <3>1, AppendProperties
    <3>5. QED BY <3>2, <3>3, <3>4
  <2>8. \A i \in 1 .. n + 1 : Len(stack'[i].path) = i - 1 /\ Settled(stack'[i], {})
    <3>1. TAKE i \in 1 .. n + 1
    <3>2. CASE i = n + 1
      BY <2>3, <2>6, <2>7, <3>2 DEF Settled
    <3>3. CASE i # n + 1
      <4>1. i \in 1 .. n
        BY <3>3
      <4>2. QED BY <2>3, <2>5, <4>1 DEF Deep, AllSettled
    <3>4. QED BY <3>2, <3>3
  <2>9. conns' = Held(stack', n + 1)
    <3>1. Held(stack', n) = Held(stack, n)
      BY <2>3 DEF Held
    <3>2. Held(stack', n + 1) = Held(stack', n) \cup Sessions(stack'[n + 1])
      BY HeldBelow
    <3>3. QED BY <2>3, <2>4, <2>5, <2>6, <3>1, <3>2
  <2>10. QED BY <2>3, <2>4, <2>8, <2>9 DEF SessionsInv, Settled, Held
<1>8. CASE EndUse
  <2>1. pc = "head" /\ stack # <<>> /\ Len(stack) > 1
    BY <1>1, <1>8, EndUseIs
  <2>2. PICK g \in Frames : Returning(g)
    BY <1>1, <1>8, EndUseIs
  <2>3. PICK n \in Nat \ {0} : n = Len(stack) - 1 /\ Len(stack) = n + 1
    BY <1>1, <2>1, LenProperties
  <2>4. /\ Len(stack') = n
        /\ stack'[n] = g
        /\ \A i \in 1 .. n - 1 : stack'[i] = stack[i]
    <3>1. /\ Len(Left(g)) = n
          /\ Left(g)[n] = g
          /\ \A i \in 1 .. Len(stack) - 2 : Left(g)[i] = stack[i]
      BY <1>1, <2>1, <2>2, <2>3, LeftIs
    <3>2. Len(stack) - 2 = n - 1
      BY <2>3
    <3>3. QED BY <2>2, <3>1, <3>2 DEF Returning
  <2>5. Below = stack[n] /\ Top = stack[n + 1]
    BY <1>1, <2>1, <2>3, TopIs DEF Below
  <2>6. /\ Below \in Frames /\ AtStep(Below) /\ StepOf(Below).kind = "use"
        /\ Below.at \in Nat \ {0}
    BY <1>1, <2>1, BelowIs DEF Frames
  <2>7. /\ g.flow = Below.flow /\ g.path = Below.path /\ g.ws = Below.ws
        /\ g.exit = "none" => g.at = Below.at + 1
        /\ pc' = "head" /\ conns' = conns \ Sessions(Top)
    BY <2>1, <2>2 DEF Returning, UsedIn
  <2>8. Under = {} /\ Under' = {}
    BY <2>1, <2>7 DEF Under
  <2>9. Deep(stack, n + 1) /\ AllSettled(stack, n + 1, {}) /\ conns = Held(stack, n + 1)
    BY <2>3, <2>8, SessionsAre
  <2>10. Deep(stack, n) /\ AllSettled(stack, n, {})
    <3>1. \A i \in 1 .. n : i \in 1 .. n + 1
      OBVIOUS
    <3>2. QED BY <2>9, <3>1 DEF Deep, AllSettled
  <2>11. Settled(g, {})
    <3>1. OpenedBefore(Below.flow, Below.at + 1) = OpenedBefore(Below.flow, Below.at)
      <4>1. PICK f \in FlowName, at \in Nat \ {0} : f = Below.flow /\ at = Below.at
        BY <2>6 DEF Frames
      <4>2. StepsOf[f][at].kind # "ws"
        BY <2>6, <4>1 DEF StepOf
      <4>3. OpenedBefore(f, at + 1) = OpenedBefore(f, at)
        <5>1. OpenedBefore(f, at + 1) = OpenedBefore(f, at) \cup
                (IF StepsOf[f][at].kind = "ws" /\ StepsOf[f][at].opens
                 THEN {StepsOf[f][at].session} ELSE {})
          BY OpenedNext
        <5>2. QED BY <4>2, <5>1
      <4>4. QED BY <4>1, <4>3
    <3>2. Opened(Below) = OpenedBefore(Below.flow, Below.at)
      <4>1. n \in 1 .. n
        OBVIOUS
      <4>2. Settled(stack[n], {})
        BY <2>10, <4>1 DEF AllSettled
      <4>3. QED BY <2>5, <2>6, <4>2 DEF Settled, AtStep
    <3>3. Opened(g) = Opened(Below)
      BY <2>7 DEF Opened
    <3>4. QED BY <2>7, <3>1, <3>2, <3>3 DEF Settled
  <2>12. Deep(stack', n) /\ AllSettled(stack', n, {})
    BY <2>4, <2>5, <2>7, <2>10, <2>11, SessionsStay
  <2>13. Held(stack', n) = Held(stack, n)
    <3>1. ASSUME NEW i \in 1 .. n PROVE Sessions(stack'[i]) = Sessions(stack[i])
      <4>1. CASE i = n
        BY <2>4, <2>5, <2>7, <4>1 DEF Sessions
      <4>2. CASE i # n
        <5>1. i \in 1 .. n - 1
          BY <4>2
        <5>2. QED BY <2>4, <5>1
      <4>3. QED BY <4>1, <4>2
    <3>2. QED BY <3>1 DEF Held
  <2>14. Held(stack, n) \cap Sessions(Top) = {}
    <3>1. ASSUME NEW c \in Held(stack, n), c \in Sessions(Top) PROVE FALSE
      <4>1. PICK i \in 1 .. n : c \in Sessions(stack[i])
        BY <3>1 DEF Held
      <4>2. c[1] = stack[i].path /\ c[1] = Top.path
        BY <3>1, <4>1 DEF Sessions
      <4>3. Len(stack[i].path) = i - 1
        BY <2>10, <4>1 DEF Deep
      <4>4. n + 1 \in 1 .. n + 1 /\ (n + 1) - 1 = n
        OBVIOUS
      <4>5. Len(Top.path) = n
        BY <2>5, <2>9, <4>4 DEF Deep
      <4>6. i - 1 = n
        BY <4>2, <4>3, <4>5
      <4>7. QED BY <4>1, <4>6
    <3>2. QED BY <3>1
  <2>15. conns' = Held(stack', n)
    <3>1. Held(stack, n + 1) = Held(stack, n) \cup Sessions(stack[n + 1])
      BY HeldBelow
    <3>2. QED BY <2>5, <2>7, <2>9, <2>13, <2>14, <3>1
  <2>16. \A i \in 1 .. n : Settled(stack'[i], {})
    BY <2>12 DEF AllSettled
  <2>17. QED BY <2>4, <2>7, <2>12, <2>15, <2>16 DEF SessionsInv, Deep, Settled, Held
<1>9. CASE ReturnFlow
  <2>1. /\ stack # <<>> /\ Len(stack) = 1 /\ stack' = <<>> /\ Top = stack[1]
        /\ conns' = conns \ Sessions(Top)
    BY <1>1, <1>9, TopIs DEF ReturnFlow, Ended, At
  <2>2. \A i \in 1 .. 1 : i = 1
    OBVIOUS
  <2>3. conns = Sessions(Top)
    BY <2>1, <2>2 DEF SessionsInv
  <2>4. Len(stack') = 0
    BY <2>1
  <2>5. \A i \in 1 .. Len(stack') : FALSE
    BY <2>4
  <2>6. QED BY <2>1, <2>3, <2>5 DEF SessionsInv
<1>10. CASE RunFlowStep
  BY <1>1, <1>4, <1>5, <1>6, <1>7, <1>8, <1>9, <1>10, StepForms DEF Forms
<1>11. QED BY <1>2, <1>3, <1>10, NextForms

LEMMA NotEndedIs ==
  ASSUME FlowTypeOK, At("head"), ~ Ended
  PROVE  AtStep(Top)
<1>1. stack # <<>> /\ Top.exit = "none" /\ ~ (Top.at > Len(StepsOf[Top.flow]))
  BY DEF At, Ended
<1>2. Top \in Frames
  BY <1>1, TopIs
<1>3. StepsOf[Top.flow] \in Seq(Step)
  BY <1>2, FlowAssumption DEF Frames
<1>4. PICK n \in Nat : n = Len(StepsOf[Top.flow]) /\ DOMAIN StepsOf[Top.flow] = 1 .. n
  BY <1>3, LenProperties
<1>5. PICK k \in Nat \ {0} : k = Top.at
  BY <1>2 DEF Frames
<1>6. k \in 1 .. n
  BY <1>1, <1>4, <1>5
<1>7. QED BY <1>1, <1>4, <1>5, <1>6 DEF AtStep

-------------------------------------------------------------------------------
(* What on_failure says is done, through used flows. *)

HaltedBy(st, rec, kill) ==
  \/ ~ GoesOn(st) /\ \E i \in DOMAIN rec : rec[i][1] = st.id
  \/ kill # <<>> /\ kill[1] = st.id

(* ObeyedSoFar of the frame at the bottom: deep says that its step is a    *)
(* use under way, waits that it waits for an answer.                       *)
Obeys(bottom, deep, waits, bg, rec, kill) ==
  /\ \A k \in DOMAIN StepsOf[bottom.flow] :
       <<StepsOf[bottom.flow][k].id>> \in bg
         <=> k < bottom.at \/ (k = bottom.at /\ (deep \/ bottom.exit # "none" \/ waits))
  /\ \A i \in 1 .. Len(rec) : \E k \in DOMAIN StepsOf[bottom.flow] :
       /\ rec[i][1] = StepsOf[bottom.flow][k].id
       /\ k < bottom.at \/ (k = bottom.at /\ (deep \/ bottom.exit # "none"))
  /\ deep => \A i \in 1 .. Len(bottom.failures) :
       rec[i][1] # StepsOf[bottom.flow][bottom.at].id
  /\ kill # <<>> => /\ deep \/ bottom.exit # "none"
                    /\ kill[1] = StepsOf[bottom.flow][bottom.at].id
  /\ \A k \in DOMAIN StepsOf[bottom.flow] :
       k < bottom.at => ~ HaltedBy(StepsOf[bottom.flow][k], rec, kill)
  /\ bottom.exit = "stop" => HaltedBy(StepsOf[bottom.flow][bottom.at], rec, kill)
  /\ bottom.exit # "none" => bottom.at \in DOMAIN StepsOf[bottom.flow]

Led(stk, n, id) ==
  \A i \in 2 .. n : stk[i].path # <<>> /\ stk[i].path[1] = id

LEMMA ObeysIs ==
  ObeyedSoFar <=>
    /\ Obeys(stack[1], Len(stack) > 1, pc # "head", begun, told, killed)
    /\ Led(stack, Len(stack), StepsOf[stack[1].flow][stack[1].at].id)
BY DEF ObeyedSoFar, Obeys, Led, HaltedBy, Halted, Began, Spoke

LEMMA ObeysNext ==
  ASSUME mode' = mode,
         Obeys(stack'[1], Len(stack') > 1, pc' # "head", begun', told', killed'),
         Led(stack', Len(stack'), StepsOf[stack'[1].flow][stack'[1].at].id)
  PROVE  ObeyedSoFar'
<1>1. \A st : HaltedBy(st, told', killed') <=> Halted(st)'
  BY DEF HaltedBy, Halted, GoesOn, EffectiveAction
<1>2. QED BY <1>1 DEF ObeyedSoFar, Obeys, Led, Began, Spoke

(* The steps of a flow, and what tells them apart.                         *)
LEMMA StepsAre ==
  ASSUME NEW f, Valid(f)
  PROVE  /\ StepsOf[f] \in Seq(Step)
         /\ Len(StepsOf[f]) \in Nat
         /\ DOMAIN StepsOf[f] = 1 .. Len(StepsOf[f])
         /\ \A i, j \in DOMAIN StepsOf[f] : StepsOf[f][i].id = StepsOf[f][j].id => i = j
<1>1. f \in FlowName /\ IdsDiffer(f)
  BY ValidIs
<1>2. StepsOf[f] \in Seq(Step)
  BY <1>1, FlowAssumption
<1>3. QED BY <1>1, <1>2, LenProperties DEF IdsDiffer

(* A step is begun, if it is not under way.                                *)
LEMMA ObeysBegins ==
  ASSUME NEW bottom \in Frames, Valid(bottom.flow), AtStep(bottom),
         NEW fr, fr.flow = bottom.flow, fr.at = bottom.at, fr.exit = bottom.exit,
         NEW waits \in BOOLEAN, NEW bg, NEW rec, NEW kill, NEW bg2,
         Obeys(bottom, FALSE, waits, bg, rec, kill),
         waits => bg2 = bg,
         ~ waits => bg2 = bg \cup {<<StepOf(bottom).id>>}
  PROVE  Obeys(fr, FALSE, TRUE, bg2, rec, kill)
<1>1. PICK f \in FlowName, at \in Nat \ {0} : f = bottom.flow /\ at = bottom.at
  BY DEF Frames
<1>2. /\ \A i, j \in DOMAIN StepsOf[f] : StepsOf[f][i].id = StepsOf[f][j].id => i = j
      /\ DOMAIN StepsOf[f] = 1 .. Len(StepsOf[f]) /\ Len(StepsOf[f]) \in Nat
      /\ at \in DOMAIN StepsOf[f]
  BY <1>1, StepsAre DEF AtStep
<1>3. bottom.exit = "none" /\ StepOf(bottom) = StepsOf[f][at]
  BY <1>1 DEF AtStep, StepOf
<1>4. \A k \in DOMAIN StepsOf[f] : <<StepsOf[f][k].id>> \in bg2 <=> k < at \/ k = at
  <2>1. TAKE k \in DOMAIN StepsOf[f]
  <2>2. <<StepsOf[f][k].id>> \in bg <=> k < at \/ (k = at /\ waits)
    BY <1>1, <1>3 DEF Obeys
  <2>3. <<StepsOf[f][k].id>> = <<StepsOf[f][at].id>> => k = at
    BY <1>2
  <2>4. QED BY <1>3, <2>2, <2>3
<1>5. QED BY <1>1, <1>3, <1>4 DEF Obeys

LEMMA RecordedIs ==
  ASSUME NEW rec \in Seq(Paths), NEW put \in Seq(Paths), NEW id,
         \A i \in 1 .. Len(put) : put[i][1] = id
  PROVE  /\ rec \o put \in Seq(Paths) /\ Len(rec \o put) = Len(rec) + Len(put)
         /\ \A i \in 1 .. Len(rec) : (rec \o put)[i] = rec[i]
         /\ \A i \in 1 .. Len(rec \o put) : i > Len(rec) => (rec \o put)[i][1] = id
<1>1. PICK n \in Nat, m \in Nat : n = Len(rec) /\ m = Len(put)
  BY LenProperties
<1>2. /\ rec \o put \in Seq(Paths)
      /\ Len(rec \o put) = n + m
      /\ \A i \in 1 .. n + m : (rec \o put)[i] = IF i <= n THEN rec[i] ELSE put[i - n]
  BY <1>1, ConcatProperties
<1>3. \A i \in 1 .. n + m : i > n => i - n \in 1 .. m
  BY <1>1
<1>4. \A i \in 1 .. n : i \in 1 .. n + m /\ i <= n
  BY <1>1
<1>5. \A i \in 1 .. n + m : i > n => ~ (i <= n)
  BY <1>1
<1>6. QED BY <1>1, <1>2, <1>3, <1>4, <1>5

(* Within the step that uses a flow.                                       *)
LEMMA ObeysDeep ==
  ASSUME NEW bottom \in Frames, Valid(bottom.flow), AtStep(bottom),
         NEW bg, NEW rec \in Seq(Paths), NEW kill, NEW waits, NEW waits2,
         NEW bg2, NEW put \in Seq(Paths), NEW kill2,
         Obeys(bottom, TRUE, waits, bg, rec, kill),
         \A x : <<x>> \in bg2 <=> <<x>> \in bg,
         \A i \in 1 .. Len(put) : put[i][1] = StepOf(bottom).id,
         kill2 = kill \/ (kill2 # <<>> /\ kill2[1] = StepOf(bottom).id),
         Len(bottom.failures) <= Len(rec)
  PROVE  Obeys(bottom, TRUE, waits2, bg2, rec \o put, kill2)
<1>1. PICK f \in FlowName, at \in Nat \ {0} : f = bottom.flow /\ at = bottom.at
  BY DEF Frames
<1>2. /\ \A i, j \in DOMAIN StepsOf[f] : StepsOf[f][i].id = StepsOf[f][j].id => i = j
      /\ DOMAIN StepsOf[f] = 1 .. Len(StepsOf[f]) /\ Len(StepsOf[f]) \in Nat
      /\ at \in DOMAIN StepsOf[f]
  BY <1>1, StepsAre DEF AtStep
<1>3. bottom.exit = "none" /\ StepOf(bottom) = StepsOf[f][at]
  BY <1>1 DEF AtStep, StepOf
<1>4. PICK all : all = rec \o put
  OBVIOUS
<1>5. /\ all \in Seq(Paths) /\ Len(all) = Len(rec) + Len(put)
      /\ \A i \in 1 .. Len(rec) : all[i] = rec[i]
      /\ \A i \in 1 .. Len(all) : i > Len(rec) => all[i][1] = StepsOf[f][at].id
  BY <1>3, <1>4, RecordedIs
<1>6. Len(rec) \in Nat /\ Len(all) \in Nat
  BY <1>5, LenProperties
<1>7. \A i \in 1 .. Len(all) : \E k \in DOMAIN StepsOf[f] :
        all[i][1] = StepsOf[f][k].id /\ (k < at \/ k = at)
  <2>1. TAKE i \in 1 .. Len(all)
  <2>2. CASE i > Len(rec)
    BY <1>2, <1>5, <2>2
  <2>3. CASE ~ (i > Len(rec))
    <3>1. i \in 1 .. Len(rec)
      BY <1>6, <2>3
    <3>2. QED BY <1>1, <1>5, <3>1 DEF Obeys
  <2>4. QED BY <2>2, <2>3
<1>8. \A i \in 1 .. Len(bottom.failures) : all[i][1] # StepsOf[f][at].id
  <2>1. TAKE i \in 1 .. Len(bottom.failures)
  <2>2. Len(bottom.failures) \in Nat
    BY LenProperties DEF Frames
  <2>3. i \in 1 .. Len(rec)
    BY <1>6, <2>2
  <2>4. rec[i][1] # StepsOf[f][at].id
    BY <1>1 DEF Obeys
  <2>5. QED BY <1>5, <2>3, <2>4
<1>9. kill2 # <<>> => kill2[1] = StepsOf[f][at].id
  BY <1>1, <1>3 DEF Obeys
<1>10. ASSUME NEW k \in DOMAIN StepsOf[f], k < at, HaltedBy(StepsOf[f][k], all, kill2)
       PROVE  FALSE
  <2>1. StepsOf[f][k].id # StepsOf[f][at].id
    <3>1. k # at /\ k \in DOMAIN StepsOf[f] /\ at \in DOMAIN StepsOf[f]
      BY <1>2, <1>10
    <3>2. QED BY <1>2, <3>1
  <2>2. ~ HaltedBy(StepsOf[f][k], rec, kill)
    BY <1>1, <1>10 DEF Obeys
  <2>3. DOMAIN all = 1 .. Len(all) /\ DOMAIN rec = 1 .. Len(rec)
    BY <1>5, LenProperties
  <2>4. PICK i \in 1 .. Len(all) : ~ GoesOn(StepsOf[f][k]) /\ all[i][1] = StepsOf[f][k].id
    BY <1>9, <1>10, <2>1, <2>3 DEF HaltedBy
  <2>5. i \in 1 .. Len(rec)
    BY <1>5, <1>6, <2>1, <2>4
  <2>6. QED BY <1>5, <2>2, <2>3, <2>4, <2>5 DEF HaltedBy
<1>11. \A k \in DOMAIN StepsOf[f] : <<StepsOf[f][k].id>> \in bg2 <=> k < at \/ k = at
  BY <1>1 DEF Obeys
<1>12. Obeys(bottom, TRUE, waits2, bg2, all, kill2)
  BY <1>1, <1>3, <1>7, <1>8, <1>9, <1>10, <1>11 DEF Obeys
<1>13. QED BY <1>4, <1>12

(* A step of the flow ends, and is to stop it or not.                      *)
LEMMA ObeysOn ==
  ASSUME NEW bottom \in Frames, Valid(bottom.flow), AtStep(bottom),
         NEW bg, NEW rec \in Seq(Paths), NEW kill,
         NEW deep \in BOOLEAN, NEW waits \in BOOLEAN, deep \/ waits,
         NEW fr \in Frames, fr.flow = bottom.flow,
         NEW all \in Seq(Paths), Len(rec) <= Len(all),
         \A i \in 1 .. Len(rec) : all[i] = rec[i],
         \A i \in 1 .. Len(all) : i > Len(rec) => all[i][1] = StepOf(bottom).id,
         NEW kill2,
         Obeys(bottom, deep, waits, bg, rec, kill),
         kill2 = kill \/ (kill2 # <<>> /\ kill2[1] = StepOf(bottom).id),
         fr.exit = "none" => /\ fr.at = bottom.at + 1
                             /\ ~ HaltedBy(StepOf(bottom), all, kill2),
         fr.exit # "none" => fr.at = bottom.at,
         fr.exit = "stop" => HaltedBy(StepOf(bottom), all, kill2)
  PROVE  Obeys(fr, FALSE, FALSE, bg, all, kill2)
<1>1. PICK f \in FlowName, at \in Nat \ {0} : f = bottom.flow /\ at = bottom.at
  BY DEF Frames
<1>2. /\ \A i, j \in DOMAIN StepsOf[f] : StepsOf[f][i].id = StepsOf[f][j].id => i = j
      /\ DOMAIN StepsOf[f] = 1 .. Len(StepsOf[f]) /\ Len(StepsOf[f]) \in Nat
      /\ at \in DOMAIN StepsOf[f]
  BY <1>1, StepsAre DEF AtStep
<1>3. bottom.exit = "none" /\ StepOf(bottom) = StepsOf[f][at]
  BY <1>1 DEF AtStep, StepOf
<1>5. /\ Len(rec) <= Len(all)
      /\ \A i \in 1 .. Len(rec) : all[i] = rec[i]
      /\ \A i \in 1 .. Len(all) : i > Len(rec) => all[i][1] = StepsOf[f][at].id
  BY <1>3
<1>6. Len(rec) \in Nat /\ Len(all) \in Nat
  BY <1>5, LenProperties
<1>7. PICK to \in Nat \ {0} : to = fr.at
  BY DEF Frames
<1>8. \A k \in DOMAIN StepsOf[f] :
        k < at \/ k = at <=> k < to \/ (k = to /\ fr.exit # "none")
  <2>1. CASE fr.exit = "none"
    BY <1>1, <1>2, <1>7, <2>1
  <2>2. CASE fr.exit # "none"
    BY <1>1, <1>7, <2>2
  <2>3. QED BY <2>1, <2>2
<1>9. \A k \in DOMAIN StepsOf[f] :
        <<StepsOf[f][k].id>> \in bg <=> k < to \/ (k = to /\ fr.exit # "none")
  <2>1. TAKE k \in DOMAIN StepsOf[f]
  <2>2. <<StepsOf[f][k].id>> \in bg <=> k < at \/ k = at
    BY <1>1 DEF Obeys
  <2>3. QED BY <1>8, <2>2
<1>10. \A i \in 1 .. Len(all) : \E k \in DOMAIN StepsOf[f] :
         /\ all[i][1] = StepsOf[f][k].id
         /\ k < to \/ (k = to /\ fr.exit # "none")
  <2>1. TAKE i \in 1 .. Len(all)
  <2>2. \E k \in DOMAIN StepsOf[f] : all[i][1] = StepsOf[f][k].id /\ (k < at \/ k = at)
    <3>1. CASE i > Len(rec)
      BY <1>2, <1>5, <3>1
    <3>2. CASE ~ (i > Len(rec))
      <4>1. i \in 1 .. Len(rec)
        BY <1>6, <3>2
      <4>2. QED BY <1>1, <1>5, <4>1 DEF Obeys
    <3>3. QED BY <3>1, <3>2
  <2>3. QED BY <1>8, <2>2
<1>11. kill2 # <<>> => kill2[1] = StepsOf[f][at].id
  BY <1>1, <1>3 DEF Obeys
<1>12. kill2 # <<>> => HaltedBy(StepsOf[f][at], all, kill2)
  BY <1>11 DEF HaltedBy
<1>13. ASSUME NEW k \in DOMAIN StepsOf[f], k < at, HaltedBy(StepsOf[f][k], all, kill2)
       PROVE  FALSE
  <2>1. StepsOf[f][k].id # StepsOf[f][at].id
    <3>1. k # at /\ k \in DOMAIN StepsOf[f] /\ at \in DOMAIN StepsOf[f]
      BY <1>2, <1>13
    <3>2. QED BY <1>2, <3>1
  <2>2. ~ HaltedBy(StepsOf[f][k], rec, kill)
    BY <1>1, <1>13 DEF Obeys
  <2>3. DOMAIN all = 1 .. Len(all) /\ DOMAIN rec = 1 .. Len(rec)
    BY <1>5, LenProperties
  <2>4. PICK i \in 1 .. Len(all) : ~ GoesOn(StepsOf[f][k]) /\ all[i][1] = StepsOf[f][k].id
    BY <1>11, <1>13, <2>1, <2>3 DEF HaltedBy
  <2>5. i \in 1 .. Len(rec)
    BY <1>5, <1>6, <2>1, <2>4
  <2>6. QED BY <1>5, <2>2, <2>3, <2>4, <2>5 DEF HaltedBy
<1>14. CASE fr.exit = "none"
  <2>1. ~ HaltedBy(StepsOf[f][at], all, kill2) /\ to = at + 1
    BY <1>1, <1>3, <1>7, <1>14
  <2>2. kill2 = <<>>
    BY <1>12, <2>1
  <2>3. \A k \in DOMAIN StepsOf[f] : k < to => k < at \/ k = at
    BY <1>8
  <2>4. \A k \in DOMAIN StepsOf[f] : k < to => ~ HaltedBy(StepsOf[f][k], all, kill2)
    BY <1>13, <2>1, <2>3
  <2>5. Obeys(fr, FALSE, FALSE, bg, all, kill2)
    BY <1>1, <1>7, <1>9, <1>10, <1>14, <2>2, <2>4 DEF Obeys
  <2>6. QED BY <2>5
<1>15. CASE fr.exit # "none"
  <2>1. to = at
    BY <1>1, <1>7, <1>15
  <2>2. fr.exit = "stop" => HaltedBy(StepsOf[f][at], all, kill2)
    BY <1>3
  <2>3. Obeys(fr, FALSE, FALSE, bg, all, kill2)
    BY <1>1, <1>2, <1>7, <1>9, <1>10, <1>11, <1>13, <1>15, <2>1, <2>2 DEF Obeys
  <2>4. QED BY <2>3
<1>16. QED BY <1>14, <1>15

(* A used flow has ended: what it recorded is on record already.           *)
LEMMA ObeysUsed ==
  ASSUME NEW bottom \in Frames, Valid(bottom.flow), AtStep(bottom),
         NEW bg, NEW rec \in Seq(Paths), NEW kill,
         Obeys(bottom, TRUE, FALSE, bg, rec, kill),
         NEW fr \in Frames, fr.flow = bottom.flow,
         NEW kill2,
         kill2 = kill \/ (kill2 # <<>> /\ kill2[1] = StepOf(bottom).id),
         fr.exit = "none" => /\ fr.at = bottom.at + 1
                             /\ ~ HaltedBy(StepOf(bottom), rec, kill2),
         fr.exit # "none" => fr.at = bottom.at,
         fr.exit = "stop" => HaltedBy(StepOf(bottom), rec, kill2)
  PROVE  Obeys(fr, FALSE, FALSE, bg, rec, kill2)
<1>1. Len(rec) \in Nat
  BY LenProperties
<1>2. /\ Len(rec) <= Len(rec)
      /\ \A i \in 1 .. Len(rec) : rec[i] = rec[i]
      /\ \A i \in 1 .. Len(rec) : i > Len(rec) => rec[i][1] = StepOf(bottom).id
  BY <1>1
<1>3. TRUE \in BOOLEAN /\ FALSE \in BOOLEAN /\ (TRUE \/ FALSE)
  OBVIOUS
<1>4. QED BY <1>2, <1>3, ObeysOn

(* What the flow has recorded is not its present step's.                   *)
LEMMA NotYetRecorded ==
  ASSUME NEW bottom \in Frames, Valid(bottom.flow), AtStep(bottom),
         NEW bg, NEW rec, NEW kill, NEW waits,
         Obeys(bottom, FALSE, waits, bg, rec, kill),
         NEW i \in 1 .. Len(rec)
  PROVE  rec[i][1] # StepOf(bottom).id
<1>1. PICK f \in FlowName, at \in Nat \ {0} : f = bottom.flow /\ at = bottom.at
  BY DEF Frames
<1>2. /\ \A j, k \in DOMAIN StepsOf[f] : StepsOf[f][j].id = StepsOf[f][k].id => j = k
      /\ DOMAIN StepsOf[f] = 1 .. Len(StepsOf[f]) /\ Len(StepsOf[f]) \in Nat
      /\ at \in DOMAIN StepsOf[f] /\ bottom.exit = "none"
      /\ StepOf(bottom) = StepsOf[f][at]
  BY <1>1, StepsAre DEF AtStep, StepOf
<1>3. PICK k \in DOMAIN StepsOf[f] : rec[i][1] = StepsOf[f][k].id /\ k < at
  BY <1>1, <1>2 DEF Obeys
<1>4. k # at
  BY <1>2, <1>3
<1>5. StepsOf[f][k].id # StepsOf[f][at].id
  BY <1>2, <1>4
<1>6. QED BY <1>2, <1>3, <1>5

(* A used flow is entered.                                                 *)
LEMMA ObeysUses ==
  ASSUME NEW bottom \in Frames, Valid(bottom.flow), AtStep(bottom),
         NEW bg, NEW rec, NEW kill,
         Obeys(bottom, FALSE, TRUE, bg, rec, kill),
         Len(bottom.failures) <= Len(rec), Len(rec) \in Nat
  PROVE  Obeys(bottom, TRUE, FALSE, bg, rec, kill)
<1>1. bottom.exit = "none"
  BY DEF AtStep
<1>2. \A i \in 1 .. Len(rec) : rec[i][1] # StepsOf[bottom.flow][bottom.at].id
  BY NotYetRecorded DEF StepOf
<1>3. Len(bottom.failures) \in Nat
  BY LenProperties DEF Frames
<1>4. \A i \in 1 .. Len(bottom.failures) : i \in 1 .. Len(rec)
  BY <1>3
<1>5. QED BY <1>1, <1>2, <1>4 DEF Obeys

(* The flow has come to its end.                                           *)
LEMMA ObeysEnds ==
  ASSUME NEW bottom \in Frames, Valid(bottom.flow),
         NEW bg, NEW rec, NEW kill,
         Obeys(bottom, FALSE, FALSE, bg, rec, kill),
         bottom.exit # "error",
         bottom.exit # "none" \/ bottom.at > Len(StepsOf[bottom.flow]),
         NEW i \in DOMAIN StepsOf[bottom.flow]
  PROVE  <<StepsOf[bottom.flow][i].id>> \in bg
           <=> \A j \in 1 .. i - 1 : ~ HaltedBy(StepsOf[bottom.flow][j], rec, kill)
<1>1. PICK f \in FlowName, at \in Nat \ {0} : f = bottom.flow /\ at = bottom.at
  BY DEF Frames
<1>2. PICK n \in Nat : n = Len(StepsOf[f]) /\ DOMAIN StepsOf[f] = 1 .. n
  BY <1>1, StepsAre
<1>3. <<StepsOf[f][i].id>> \in bg <=> i < at \/ (i = at /\ bottom.exit # "none")
  BY <1>1 DEF Obeys
<1>4. \A k \in 1 .. n : k < at => ~ HaltedBy(StepsOf[f][k], rec, kill)
  BY <1>1, <1>2 DEF Obeys
<1>5. i \in 1 .. n
  BY <1>1, <1>2
<1>6. CASE bottom.exit = "none"
  <2>1. i < at
    BY <1>1, <1>2, <1>5, <1>6
  <2>2. \A j \in 1 .. i - 1 : j \in 1 .. n /\ j < at
    BY <1>5, <2>1
  <2>3. QED BY <1>1, <1>3, <1>4, <2>1, <2>2
<1>7. CASE bottom.exit = "stop"
  <2>1. HaltedBy(StepsOf[f][at], rec, kill)
    BY <1>1, <1>7 DEF Obeys
  <2>2. CASE i <= at
    <3>1. \A j \in 1 .. i - 1 : j \in 1 .. n /\ j < at
      BY <1>5, <2>2
    <3>2. i < at \/ i = at
      BY <1>5, <2>2
    <3>3. QED BY <1>1, <1>3, <1>4, <1>7, <3>1, <3>2
  <2>3. CASE ~ (i <= at)
    <3>1. at \in 1 .. i - 1 /\ ~ (i < at) /\ i # at
      BY <1>5, <2>3
    <3>2. QED BY <1>1, <1>3, <2>1, <3>1
  <2>4. QED BY <2>2, <2>3
<1>8. QED BY <1>6, <1>7 DEF Frames

(* What a step adds to the history, by the id of the step of the flow that *)
(* was called.                                                             *)
Records(id) ==
  \E put \in Seq(Paths) :
    told' = told \o put /\ \A i \in 1 .. Len(put) : put[i][1] = id

Kills(id) == killed' = killed \/ (killed' # <<>> /\ killed'[1] = id)

LEMMA NothingRecorded ==
  ASSUME FlowTypeOK, UNCHANGED told, NEW id
  PROVE  Records(id)
<1>1. told \in Seq(Paths)
  BY DEF FlowTypeOK
<1>2. told' = told \o <<>>
  BY <1>1, ConcatEmptySeq
<1>3. <<>> \in Seq(Paths) /\ \A i \in 1 .. Len(<<>>) : FALSE
  BY EmptySeq
<1>4. QED BY <1>2, <1>3 DEF Records

LEMMA EndRecords ==
  ASSUME FlowTypeOK, StepRuns, NEW fr, NEW m \in Nat, NEW throttle,
         EndStep(fr, m, throttle), NEW id, Path # <<>>, Path[1] = id
  PROVE  /\ Records(id) /\ Kills(id)
         /\ told' = told \o [i \in 1 .. m |-> Path]
         /\ [i \in 1 .. m |-> Path] \in Seq(Paths)
         /\ Len([i \in 1 .. m |-> Path]) = m
<1>1. PICK path \in Paths : path = Path
  BY HereIs DEF StepRuns
<1>2. PICK put : put = [i \in 1 .. m |-> path]
  OBVIOUS
<1>3. put \in Seq(Paths) /\ Len(put) = m /\ \A i \in 1 .. m : put[i] = path
  BY <1>1, <1>2
<1>4. told' = told \o put
  BY <1>1, <1>2 DEF EndStep
<1>5. Records(id)
  BY <1>1, <1>3, <1>4 DEF Records
<1>6. Kills(id)
  BY DEF EndStep, Kills
<1>7. QED BY <1>1, <1>2, <1>3, <1>4, <1>5, <1>6

(* How much of what was recorded lies at the bottom.                       *)
LEMMA BottomTold ==
  ASSUME FlowTypeOK, ToldInv, stack # <<>>
  PROVE  /\ Len(told) \in Nat /\ Len(stack[1].failures) \in Nat
         /\ Len(stack[1].failures) <= Len(told)
         /\ Len(stack) = 2 => /\ Len(stack[2].failures) \in Nat
                              /\ Len(told) = Len(stack[1].failures) + Len(stack[2].failures)
<1>1. PICK n \in Nat \ {0} : n = Len(stack)
  BY TopIs
<1>2. PICK start : Spread(stack, n, told, start)
  BY <1>1, SpreadIs
<1>3. stack \in Seq(Frames) /\ told \in Seq(Paths)
  BY DEF FlowTypeOK
<1>4. \A i \in 1 .. n : Len(stack[i].failures) \in Nat
  <2>1. TAKE i \in 1 .. n
  <2>2. stack[i] \in Frames
    BY <1>1, <1>3, ElementOfSeq
  <2>3. QED BY <2>2, LenProperties DEF Frames
<1>5. Len(told) \in Nat
  BY <1>3, LenProperties
<1>6. start[1] = 0 /\ start \in [1 .. n -> 0 .. Len(told)]
  BY <1>2 DEF Spread
<1>7. Len(told) = start[n] + Len(stack[n].failures)
  BY <1>2 DEF Spread
<1>8. PICK all \in Nat, low \in Nat : all = Len(told) /\ low = Len(stack[1].failures)
  <2>1. 1 \in 1 .. n
    OBVIOUS
  <2>2. QED BY <1>4, <1>5, <2>1
<1>9. ASSUME n = 1 PROVE low <= all
  BY <1>6, <1>7, <1>8, <1>9
<1>10. ASSUME n > 1 PROVE start[2] = low /\ low <= all
  <2>1. 1 \in 1 .. n - 1 /\ 2 \in 1 .. n
    BY <1>10
  <2>2. start[1 + 1] = start[1] + Len(stack[1].failures)
    BY <1>2, <2>1 DEF Spread
  <2>3. start[2] = low
    BY <1>6, <1>8, <2>2
  <2>4. start[2] \in 0 .. all
    BY <1>6, <1>8, <2>1
  <2>5. QED BY <1>8, <2>3, <2>4
<1>11. ASSUME n = 2
       PROVE  Len(stack[2].failures) \in Nat /\ all = low + Len(stack[2].failures)
  <2>1. 2 \in 1 .. n /\ n > 1
    BY <1>11
  <2>2. Len(stack[2].failures) \in Nat
    BY <1>4, <2>1
  <2>3. Len(told) = start[2] + Len(stack[2].failures)
    BY <1>7, <1>11
  <2>4. QED BY <1>8, <1>10, <2>1, <2>2, <2>3
<1>12. low <= all
  BY <1>9, <1>10
<1>13. QED BY <1>1, <1>8, <1>11, <1>12

LEMMA BottomIs ==
  ASSUME FlowTypeOK, Nested, stack # <<>>
  PROVE  /\ stack[1] \in Frames /\ Valid(stack[1].flow) /\ stack[1].path = <<>>
         /\ Len(stack) > 1 => AtStep(stack[1])
<1>1. PICK n \in Nat \ {0} : n = Len(stack)
  BY TopIs
<1>2. 1 \in 1 .. n /\ (n > 1 => 1 \in 1 .. n - 1)
  BY <1>1
<1>3. stack[1] \in Frames
  BY <1>1, <1>2, ElementOfSeq DEF FlowTypeOK
<1>4. QED BY <1>1, <1>2, <1>3 DEF Nested

LEMMA PathLed ==
  ASSUME FlowTypeOK, Nested, ObeyedSoFar, stack # <<>>, AtStep(Top)
  PROVE  /\ Path # <<>> /\ Path[1] = StepOf(stack[1]).id
         /\ Len(stack) = 1 => Path = <<StepOf(stack[1]).id>> /\ Top = stack[1]
         /\ Len(stack) > 1 => \A x : <<x>> # Path
<1>1. PICK n \in Nat \ {0} : n = Len(stack) /\ Top = stack[n]
  BY TopIs
<1>2. PICK path \in Seq(STRING), id \in STRING :
        path = Top.path /\ id = Here.id /\ Path = Append(path, id)
  <2>1. Top \in Frames /\ Here \in Step /\ Path = Append(Top.path, Here.id)
    BY HereIs, TopIs
  <2>2. Top.path \in Seq(STRING) /\ Here.id \in STRING
    BY <2>1 DEF Frames, Paths, Step
  <2>3. QED BY <2>1, <2>2
<1>3. Here.id = StepOf(Top).id
  BY HereIs
<1>4. CASE n = 1
  <2>1. path = <<>>
    BY <1>1, <1>2, <1>4 DEF Nested
  <2>2. Path = <<id>> /\ <<id>>[1] = id /\ <<id>> # <<>>
    BY <1>2, <2>1
  <2>3. id = StepOf(stack[1]).id
    BY <1>1, <1>2, <1>3, <1>4
  <2>4. Len(stack) = 1 /\ ~ (Len(stack) > 1) /\ Top = stack[1]
    BY <1>1, <1>4
  <2>5. QED BY <2>2, <2>3, <2>4
<1>5. CASE n > 1
  <2>1. n \in 2 .. n
    BY <1>5
  <2>2. path # <<>> /\ path[1] = StepOf(stack[1]).id
    BY <1>1, <1>2, <2>1, ObeysIs DEF Led, StepOf
  <2>3. PICK m \in Nat : m = Len(path) /\ m > 0
    BY <1>2, <2>2
  <2>4. /\ Len(Append(path, id)) = m + 1
        /\ \A i \in 1 .. m : Append(path, id)[i] = path[i]
    BY <1>2, <2>3, AppendProperties
  <2>5. 1 \in 1 .. m /\ m + 1 > 1
    BY <2>3
  <2>6. Append(path, id)[1] = path[1] /\ Len(Append(path, id)) > 1
    BY <2>4, <2>5
  <2>7. \A x : Len(<<x>>) = 1
    OBVIOUS
  <2>8. Len(<<>>) = 0
    OBVIOUS
  <2>9. Path # <<>> /\ \A x : <<x>> # Path
    BY <1>2, <2>6, <2>7, <2>8
  <2>10. ~ (Len(stack) = 1)
    BY <1>1, <1>5
  <2>11. QED BY <1>2, <2>2, <2>6, <2>9, <2>10
<1>6. QED BY <1>1, <1>4, <1>5

(* The bottom frame is untouched while the flow it uses runs.              *)
LEMMA DeepObeyed ==
  ASSUME FlowTypeOK, Nested, ToldInv, ObeyedSoFar,
         stack # <<>>, Len(stack) > 1, Len(stack') > 1,
         stack'[1] = stack[1], mode' = mode,
         \A x : <<x>> \in begun' <=> <<x>> \in begun,
         Records(StepOf(stack[1]).id), Kills(StepOf(stack[1]).id),
         Led(stack', Len(stack'), StepOf(stack[1]).id)
  PROVE  ObeyedSoFar'
<1>1. PICK bottom \in Frames : bottom = stack[1]
  BY BottomIs
<1>2. /\ Valid(bottom.flow) /\ AtStep(bottom)
      /\ told \in Seq(Paths) /\ Len(bottom.failures) <= Len(told)
  BY <1>1, BottomIs, BottomTold DEF FlowTypeOK
<1>3. PICK put \in Seq(Paths) :
        told' = told \o put /\ \A i \in 1 .. Len(put) : put[i][1] = StepOf(bottom).id
  BY <1>1 DEF Records
<1>4. Obeys(bottom, TRUE, pc # "head", begun, told, killed)
  BY <1>1, ObeysIs
<1>5. killed' = killed \/ (killed' # <<>> /\ killed'[1] = StepOf(bottom).id)
  BY <1>1 DEF Kills
<1>6. PICK bg, kill, waits : bg = begun' /\ kill = killed' /\ waits = (pc' # "head")
  OBVIOUS
<1>7. Obeys(bottom, TRUE, waits, bg, told \o put, kill)
  BY <1>2, <1>3, <1>4, <1>5, <1>6, ObeysDeep
<1>8. Obeys(stack'[1], Len(stack') > 1, pc' # "head", begun', told', killed')
  BY <1>1, <1>3, <1>6, <1>7
<1>9. Led(stack', Len(stack'), StepsOf[stack'[1].flow][stack'[1].at].id)
  BY DEF StepOf
<1>10. QED BY <1>8, <1>9, ObeysNext

LEMMA LedStays ==
  ASSUME FlowTypeOK, NEW fr, StaysOn(fr), NEW id, Led(stack, Len(stack), id)
  PROVE  Led(stack', Len(stack'), id)
<1>1. PICK n \in Nat \ {0} : n = Len(stack)
  BY StaysOnIs
<1>2. /\ Len(stack') = n /\ stack'[n].path = stack[n].path
      /\ \A i \in 1 .. n - 1 : stack'[i] = stack[i]
  BY <1>1, StaysOnIs DEF StaysOn
<1>3. ASSUME NEW i \in 2 .. n PROVE stack'[i].path # <<>> /\ stack'[i].path[1] = id
  <2>1. stack[i].path # <<>> /\ stack[i].path[1] = id
    BY <1>1 DEF Led
  <2>2. i = n \/ i \in 1 .. n - 1
    OBVIOUS
  <2>3. QED BY <1>2, <2>1, <2>2
<1>4. QED BY <1>2, <1>3 DEF Led

LEMMA NoneLed ==
  ASSUME NEW stk, NEW n, n = 1, NEW id
  PROVE  Led(stk, n, id)
<1>1. \A i \in 2 .. n : FALSE
  OBVIOUS
<1>2. QED BY <1>1 DEF Led

(* A step begins or goes on within a used flow.                            *)
LEMMA DeepRuns ==
  ASSUME FlowTypeOK, Nested, ToldInv, ObeyedSoFar, StepRuns, Len(stack) > 1,
         NEW fr, StaysOn(fr),
         Records(StepOf(stack[1]).id), Kills(StepOf(stack[1]).id)
  PROVE  ObeyedSoFar'
<1>1. stack # <<>> /\ AtStep(Top) /\ mode' = mode
  BY DEF StepRuns
<1>2. \A x : <<x>> \in begun' <=> <<x>> \in begun
  BY <1>1, PathLed DEF StepRuns
<1>3. PICK n \in Nat \ {0} : n = Len(stack) /\ n > 1
  BY StaysOnIs
<1>4. Len(stack') > 1 /\ stack'[1] = stack[1]
  <2>1. 1 \in 1 .. n - 1
    BY <1>3
  <2>2. QED BY <1>3, <2>1, StaysOnIs
<1>5. Led(stack, Len(stack), StepOf(stack[1]).id)
  BY ObeysIs DEF StepOf
<1>6. Led(stack', Len(stack'), StepOf(stack[1]).id)
  BY <1>5, LedStays
<1>7. QED BY <1>1, <1>2, <1>4, <1>6, DeepObeyed

(* What a step of the flow that was called has begun.                      *)
LEMMA BottomBegins ==
  ASSUME FlowTypeOK, Nested, ObeyedSoFar, StepRuns, Len(stack) = 1,
         NEW fr, fr.flow = Top.flow, fr.at = Top.at, fr.exit = Top.exit
  PROVE  Obeys(fr, FALSE, TRUE, begun', told, killed)
<1>1. stack # <<>> /\ AtStep(Top)
  BY DEF StepRuns
<1>2. PICK bottom \in Frames : bottom = stack[1] /\ bottom = Top
  BY <1>1, BottomIs, PathLed
<1>3. Valid(bottom.flow) /\ AtStep(bottom) /\ Path = <<StepOf(bottom).id>>
  BY <1>1, <1>2, BottomIs, PathLed
<1>4. (Len(stack) > 1) = FALSE
  OBVIOUS
<1>5. PICK waits \in BOOLEAN : waits = (pc # "head")
  OBVIOUS
<1>6. Obeys(bottom, FALSE, waits, begun, told, killed)
  <2>1. Obeys(stack[1], Len(stack) > 1, pc # "head", begun, told, killed)
    BY ObeysIs
  <2>2. Obeys(stack[1], FALSE, waits, begun, told, killed)
    BY <1>4, <1>5, <2>1
  <2>3. QED BY <1>2, <2>2
<1>7. begun' = IF waits THEN begun ELSE begun \cup {<<StepOf(bottom).id>>}
  BY <1>3, <1>5 DEF StepRuns
<1>8. PICK bg, g : bg = begun' /\ g = fr
  OBVIOUS
<1>9. Obeys(g, FALSE, TRUE, bg, told, killed)
  <2>1. g.flow = bottom.flow /\ g.at = bottom.at /\ g.exit = bottom.exit
    BY <1>2, <1>8
  <2>2. (waits => bg = begun) /\ (~ waits => bg = begun \cup {<<StepOf(bottom).id>>})
    BY <1>7, <1>8
  <2>3. QED BY <1>3, <1>6, <2>1, <2>2, ObeysBegins
<1>10. QED BY <1>8, <1>9

(* A step of the flow that was called ends.                                *)
LEMMA BottomEnds ==
  ASSUME FlowTypeOK, Nested, KillInv, ObeyedSoFar, StepRuns, Len(stack) = 1,
         NEW fr \in Frames, NEW m \in Nat, NEW throttle, EndsAs(fr, m, throttle)
  PROVE  ObeyedSoFar'
<1>1. /\ stack # <<>> /\ AtStep(Top) /\ mode' = mode
      /\ EndStep(fr, m, throttle)
  BY DEF StepRuns, EndsAs
<1>2. PICK bottom \in Frames : bottom = stack[1] /\ bottom = Top
  BY <1>1, BottomIs, PathLed
<1>3. Valid(bottom.flow) /\ AtStep(bottom) /\ bottom.exit = "none" /\ StepOf(bottom) = Here
  BY <1>1, <1>2, BottomIs, HereIs DEF AtStep
<1>4. Path # <<>> /\ Path[1] = Here.id
  BY <1>1, <1>2, <1>3, PathLed
<1>5. PICK put : put = [i \in 1 .. m |-> Path]
  OBVIOUS
<1>6. /\ put \in Seq(Paths) /\ Len(put) = m /\ told' = told \o put
      /\ \A i \in 1 .. Len(put) : put[i][1] = StepOf(bottom).id
  BY <1>1, <1>3, <1>4, <1>5, EndRecords
<1>7. killed = <<>>
  BY <1>1, <1>2, <1>3 DEF KillInv
<1>8. PICK bg, kill : bg = begun' /\ kill = killed'
  OBVIOUS
<1>9. /\ kill = killed \/ (kill # <<>> /\ kill[1] = StepOf(bottom).id)
      /\ kill # <<>> => m > 0 /\ EffectiveAction(Here) = "abort_run"
  BY <1>1, <1>3, <1>4, <1>7, <1>8 DEF EndStep
<1>10. Obeys(bottom, FALSE, TRUE, bg, told, killed)
  BY <1>2, <1>8, BottomBegins
<1>11. told \in Seq(Paths) /\ fr.flow = bottom.flow
  BY <1>2 DEF FlowTypeOK, EndsAs
<1>12. /\ fr.at = IF fr.exit = "none" THEN bottom.at + 1 ELSE bottom.at
       /\ m = 0 => fr.exit \in {"none", "error"}
       /\ m > 0 => fr.exit = IF GoesOn(Here) THEN "none" ELSE "stop"
  BY <1>2 DEF EndsAs
<1>13. ASSUME fr.exit = "none" PROVE ~ HaltedBy(StepOf(bottom), told \o put, kill)
  <2>1. CASE m = 0
    <3>1. kill = <<>>
      BY <1>9, <2>1
    <3>2. put = <<>>
      BY <1>6, <2>1, EmptySeq
    <3>3. told \o put = told
      BY <1>11, <3>2, ConcatEmptySeq
    <3>4. \A i \in 1 .. Len(told) : told[i][1] # StepOf(bottom).id
      BY <1>3, <1>10, NotYetRecorded
    <3>5. DOMAIN told = 1 .. Len(told)
      BY <1>11, LenProperties
    <3>6. QED BY <3>1, <3>3, <3>4, <3>5 DEF HaltedBy
  <2>2. CASE m # 0
    <3>1. GoesOn(Here)
      BY <1>12, <1>13, <2>2
    <3>2. kill = <<>>
      BY <1>9, <3>1 DEF GoesOn
    <3>3. QED BY <1>3, <3>1, <3>2 DEF HaltedBy
  <2>3. QED BY <2>1, <2>2
<1>14. ASSUME fr.exit = "stop" PROVE HaltedBy(StepOf(bottom), told \o put, kill)
  <2>1. m > 0 /\ ~ GoesOn(Here)
    BY <1>12, <1>14
  <2>2. PICK n \in Nat : n = Len(told)
    BY <1>11, LenProperties
  <2>3. PICK all : all = told \o put
    OBVIOUS
  <2>4. /\ all \in Seq(Paths) /\ Len(all) = n + m
        /\ \A i \in 1 .. Len(all) : i > n => all[i][1] = StepOf(bottom).id
    <3>1. /\ told \o put \in Seq(Paths) /\ Len(told \o put) = Len(told) + Len(put)
          /\ \A i \in 1 .. Len(told \o put) :
               i > Len(told) => (told \o put)[i][1] = StepOf(bottom).id
      BY <1>6, <1>11, RecordedIs
    <3>2. Len(put) = m
      BY <1>6
    <3>3. QED BY <2>2, <2>3, <3>1, <3>2
  <2>5. n + 1 \in 1 .. n + m /\ n + 1 > n
    BY <2>1
  <2>6. n + 1 \in DOMAIN all /\ all[n + 1][1] = StepOf(bottom).id
    BY <2>4, <2>5, LenProperties
  <2>7. QED BY <1>3, <2>1, <2>3, <2>6 DEF HaltedBy
<1>15. Obeys(fr, FALSE, FALSE, bg, told \o put, kill)
  <2>1. fr.exit = "none" => /\ fr.at = bottom.at + 1
                            /\ ~ HaltedBy(StepOf(bottom), told \o put, kill)
    BY <1>12, <1>13
  <2>2. /\ fr.exit # "none" => fr.at = bottom.at
        /\ fr.exit = "stop" => HaltedBy(StepOf(bottom), told \o put, kill)
    BY <1>12, <1>14
  <2>3. PICK all : all = told \o put
    OBVIOUS
  <2>4. /\ all \in Seq(Paths) /\ Len(all) = Len(told) + Len(put)
        /\ \A i \in 1 .. Len(told) : all[i] = told[i]
        /\ \A i \in 1 .. Len(all) : i > Len(told) => all[i][1] = StepOf(bottom).id
    BY <1>6, <1>11, <2>3, RecordedIs
  <2>5. Len(told) <= Len(all)
    <3>1. Len(told) \in Nat /\ Len(put) \in Nat
      BY <1>6, <1>11, LenProperties
    <3>2. QED BY <2>4, <3>1
  <2>6. Obeys(fr, FALSE, FALSE, bg, all, kill)
    <3>1. /\ fr.exit = "none" => /\ fr.at = bottom.at + 1
                                 /\ ~ HaltedBy(StepOf(bottom), all, kill)
          /\ fr.exit # "none" => fr.at = bottom.at
          /\ fr.exit = "stop" => HaltedBy(StepOf(bottom), all, kill)
      BY <2>1, <2>2, <2>3
    <3>2. kill = killed \/ (kill # <<>> /\ kill[1] = StepOf(bottom).id)
      BY <1>9
    <3>3. Valid(bottom.flow) /\ AtStep(bottom)
      BY <1>3
    <3>4. TRUE \in BOOLEAN /\ FALSE \in BOOLEAN /\ (FALSE \/ TRUE)
      OBVIOUS
    <3>5. QED BY <1>10, <1>11, <2>4, <2>5, <3>1, <3>2, <3>3, <3>4, ObeysOn
  <2>7. QED BY <2>3, <2>6
<1>16. StaysOn(fr) /\ pc' = "head"
  BY <1>1 DEF EndsAs, EndStep, StaysOn
<1>17. Len(stack') = 1 /\ stack'[1] = fr
  BY <1>16, StaysOnIs
<1>18. (Len(stack') > 1) = FALSE /\ (pc' # "head") = FALSE
  BY <1>16, <1>17
<1>19. Obeys(stack'[1], Len(stack') > 1, pc' # "head", begun', told', killed')
  BY <1>6, <1>8, <1>15, <1>17, <1>18
<1>20. QED BY <1>1, <1>17, <1>19, NoneLed, ObeysNext

(* It waits, or goes on waiting.                                           *)
LEMMA BottomWaits ==
  ASSUME FlowTypeOK, Nested, ObeyedSoFar, StepRuns, Len(stack) = 1,
         NEW fr, StaysOn(fr), fr.at = Top.at, fr.exit = Top.exit,
         pc' # "head", UNCHANGED <<told, killed>>
  PROVE  ObeyedSoFar'
<1>1. mode' = mode /\ fr.flow = Top.flow
  BY DEF StepRuns, StaysOn
<1>2. Obeys(fr, FALSE, TRUE, begun', told, killed)
  BY <1>1, BottomBegins
<1>3. Len(stack') = 1 /\ stack'[1] = fr
  BY StaysOnIs
<1>4. (Len(stack') > 1) = FALSE /\ (pc' # "head") = TRUE
  BY <1>3
<1>5. Obeys(stack'[1], Len(stack') > 1, pc' # "head", begun', told', killed')
  BY <1>2, <1>3, <1>4
<1>6. QED BY <1>1, <1>3, <1>5, NoneLed, ObeysNext

(* It uses a flow.                                                         *)
LEMMA BottomUses ==
  ASSUME FlowTypeOK, Nested, ToldInv, ObeyedSoFar, Using, Len(stack) = 1
  PROVE  ObeyedSoFar'
<1>1. StepRuns /\ stack # <<>> /\ AtStep(Top) /\ mode' = mode /\ UNCHANGED <<pc, told, killed>>
      /\ pc = "head"
  BY DEF Using, StepRuns
<1>2. PICK bottom \in Frames : bottom = stack[1] /\ bottom = Top
  BY <1>1, BottomIs, PathLed
<1>3. Valid(bottom.flow) /\ AtStep(bottom) /\ Path = <<StepOf(bottom).id>>
  BY <1>1, <1>2, BottomIs, PathLed
<1>4. PICK bg : bg = begun'
  OBVIOUS
<1>5. Obeys(bottom, FALSE, TRUE, bg, told, killed)
  BY <1>1, <1>2, <1>4, BottomBegins
<1>6. Len(bottom.failures) <= Len(told) /\ Len(told) \in Nat
  BY <1>1, <1>2, BottomTold
<1>7. Obeys(bottom, TRUE, FALSE, bg, told, killed)
  BY <1>3, <1>5, <1>6, ObeysUses
<1>8. PICK fr \in Frames : fr = NewFrame(Here.uses, Path)
  BY UsingIs
<1>9. /\ Len(stack') = 2
      /\ stack'[1] = bottom /\ stack'[2] = fr
  <2>1. /\ Len(stack') = 1 + 1
        /\ stack'[1 + 1] = fr
        /\ \A i \in 1 .. 1 : stack'[i] = stack[i]
    BY <1>8, UsingIs, EnteredIs DEF Using
  <2>2. 1 \in 1 .. 1 /\ 1 + 1 = 2
    OBVIOUS
  <2>3. QED BY <1>2, <2>1, <2>2
<1>10. fr.path # <<>> /\ fr.path[1] = StepOf(bottom).id
  BY <1>1, <1>2, <1>8, PathLed DEF NewFrame
<1>11. Led(stack', 2, StepOf(bottom).id)
  <2>1. \A i \in 2 .. 2 : i = 2
    OBVIOUS
  <2>2. QED BY <1>9, <1>10, <2>1 DEF Led
<1>12. (Len(stack') > 1) = TRUE /\ (pc' # "head") = FALSE
  BY <1>1, <1>9
<1>13. Obeys(stack'[1], Len(stack') > 1, pc' # "head", begun', told', killed')
  BY <1>1, <1>4, <1>7, <1>9, <1>12
<1>14. Led(stack', Len(stack'), StepsOf[stack'[1].flow][stack'[1].at].id)
  BY <1>9, <1>11 DEF StepOf
<1>15. QED BY <1>1, <1>13, <1>14, ObeysNext

LEMMA FirstOfConcat ==
  ASSUME NEW p \in Paths, NEW q \in Paths, p # <<>>
  PROVE  (p \o q)[1] = p[1]
<1>1. PICK n \in Nat, m \in Nat : n = Len(p) /\ m = Len(q) /\ n > 0
  BY DEF Paths
<1>2. \A i \in 1 .. n + m : (p \o q)[i] = IF i <= n THEN p[i] ELSE q[i - n]
  BY <1>1, ConcatProperties DEF Paths
<1>3. 1 \in 1 .. n + m /\ 1 <= n
  BY <1>1
<1>4. QED BY <1>2, <1>3

(* The flow it uses has come to its end.                                   *)
LEMMA BottomReturns ==
  ASSUME FlowTypeOK, Nested, KillInv, FlagsInv, ToldInv, ObeyedSoFar,
         pc = "head", Len(stack) = 2, NEW g \in Frames, Returning(g)
  PROVE  ObeyedSoFar'
<1>1. /\ stack # <<>> /\ Len(stack) > 1 /\ Below = stack[1] /\ Top = stack[2]
      /\ Len(stack') = 1 /\ stack'[1] = g
  <2>1. stack # <<>> /\ Len(stack) > 1 /\ Len(stack) - 1 = 1
    <3>1. Len(<<>>) = 0 /\ 2 > 1 /\ 2 - 1 = 1 /\ 2 # 0
      OBVIOUS
    <3>2. QED BY <3>1
  <2>2. Top = stack[2] /\ Below = stack[1]
    BY <2>1, TopIs DEF Below
  <2>3. Len(Left(g)) = 1 /\ Left(g)[1] = g
    BY <2>1, LeftIs
  <2>4. QED BY <2>1, <2>2, <2>3 DEF Returning
<1>2. PICK bottom \in Frames, sub \in Frames :
        bottom = stack[1] /\ bottom = Below /\ sub = stack[2] /\ sub = Top
  BY <1>1, BottomIs, TopIs
<1>3. Valid(bottom.flow) /\ AtStep(bottom) /\ bottom.path = <<>>
  BY <1>1, <1>2, BottomIs
<1>4. PICK st : st = StepOf(bottom)
  OBVIOUS
<1>5. /\ mode' = mode /\ pc' = "head" /\ told' = told /\ begun' = begun
      /\ killed' = IF Judges(sub, st) THEN sub.path ELSE killed
      /\ UsedIn(bottom, sub, st, g)
  BY <1>2, <1>4 DEF Returning
<1>6. Obeys(bottom, TRUE, FALSE, begun, told, killed)
  <2>1. Obeys(stack[1], Len(stack) > 1, pc # "head", begun, told, killed)
    BY ObeysIs
  <2>2. (Len(stack) > 1) = TRUE /\ (pc # "head") = FALSE
    BY <1>1
  <2>3. QED BY <1>2, <2>1, <2>2
<1>7. sub.path # <<>> /\ sub.path[1] = st.id
  <2>1. 2 \in 2 .. Len(stack)
    BY <1>1
  <2>2. QED BY <1>2, <1>4, <2>1, ObeysIs DEF Led, StepOf
<1>8. /\ killed # <<>> => killed[1] = st.id
      /\ \A i \in 1 .. Len(bottom.failures) : told[i][1] # st.id
  BY <1>4, <1>6 DEF Obeys, StepOf
<1>9. PICK kill : kill = killed'
  OBVIOUS
<1>10. kill = killed \/ (kill # <<>> /\ kill[1] = st.id)
  BY <1>5, <1>7, <1>9
<1>11. killed # <<>> => sub.aborted
  BY <1>1, <1>2 DEF KillInv
<1>12. sub.aborted => killed # <<>>
  <2>1. 2 \in 1 .. Len(stack)
    BY <1>1
  <2>2. QED BY <1>1, <1>2, <2>1 DEF FlagsInv
<1>13. PICK low \in Nat, more \in Nat :
         /\ low = Len(bottom.failures) /\ more = Len(sub.failures)
         /\ Len(told) = low + more
  BY <1>1, <1>2, BottomTold
<1>14. told \in Seq(Paths) /\ DOMAIN told = 1 .. Len(told)
  BY LenProperties DEF FlowTypeOK
<1>17. ASSUME g.exit = "none" PROVE ~ HaltedBy(st, told, kill)
  <2>1. sub.exit # "error" /\ ~ sub.aborted /\ (sub.failures = <<>> \/ GoesOn(st))
    BY <1>5, <1>17 DEF UsedIn
  <2>2. killed = <<>>
    BY <1>11, <2>1
  <2>3. ~ Judges(sub, st)
    BY <2>1 DEF Judges, GoesOn
  <2>4. kill = <<>>
    BY <1>5, <1>9, <2>2, <2>3
  <2>5. CASE GoesOn(st)
    BY <2>4, <2>5 DEF HaltedBy
  <2>6. CASE sub.failures = <<>>
    <3>1. more = 0
      BY <1>13, <2>6
    <3>2. \A i \in 1 .. Len(told) : told[i][1] # st.id
      BY <1>8, <1>13, <3>1
    <3>3. QED BY <1>14, <2>4, <3>2 DEF HaltedBy
  <2>7. QED BY <2>1, <2>5, <2>6
<1>18. ASSUME g.exit = "stop" PROVE HaltedBy(st, told, kill)
  <2>1. sub.exit # "error" /\ (sub.aborted \/ (sub.failures # <<>> /\ ~ GoesOn(st)))
    BY <1>5, <1>18 DEF UsedIn
  <2>2. CASE sub.aborted
    <3>1. killed # <<>> /\ killed[1] = st.id /\ ~ Judges(sub, st)
      BY <1>8, <1>12, <2>2 DEF Judges
    <3>2. kill = killed
      BY <1>5, <1>9, <3>1
    <3>3. QED BY <3>1, <3>2 DEF HaltedBy
  <2>3. CASE sub.failures # <<>> /\ ~ GoesOn(st)
    <3>1. sub.failures \in Seq(Paths) /\ sub.path \in Paths
      BY DEF Frames
    <3>2. more > 0 /\ 1 \in 1 .. more
      BY <1>13, <2>3, <3>1
    <3>3. sub.failures[1] \in Paths
      BY <1>13, <3>1, <3>2, ElementOfSeq
    <3>4. PICK start : Spread(stack, 2, told, start)
      BY <1>1, SpreadIs
    <3>5. start[2] = low
      <4>1. 1 \in 1 .. 2 - 1 /\ 1 + 1 = 2
        OBVIOUS
      <4>2. start[1] = 0 /\ start[1 + 1] = start[1] + Len(stack[1].failures)
        BY <3>4, <4>1 DEF Spread
      <4>3. QED BY <1>2, <1>13, <4>1, <4>2
    <3>6. told[low + 1] = sub.path \o sub.failures[1]
      <4>1. 2 \in 1 .. 2 /\ 1 \in 1 .. Len(stack[2].failures)
        BY <1>2, <1>13, <3>2
      <4>2. told[start[2] + 1] = stack[2].path \o stack[2].failures[1]
        BY <3>4, <4>1 DEF Spread
      <4>3. QED BY <1>2, <3>5, <4>2
    <3>7. (sub.path \o sub.failures[1])[1] = sub.path[1]
      BY <1>7, <3>1, <3>3, FirstOfConcat
    <3>8. low + 1 \in DOMAIN told /\ told[low + 1][1] = st.id
      <4>1. low + 1 \in 1 .. low + more
        BY <3>2
      <4>2. low + 1 \in DOMAIN told
        BY <1>13, <1>14, <4>1
      <4>3. QED BY <1>7, <3>6, <3>7, <4>2
    <3>9. QED BY <2>3, <3>8 DEF HaltedBy
  <2>4. QED BY <2>1, <2>2, <2>3
<1>19. Obeys(g, FALSE, FALSE, begun, told, kill)
  <2>1. /\ g.flow = bottom.flow
        /\ g.at = IF g.exit = "none" THEN bottom.at + 1 ELSE bottom.at
    BY <1>5 DEF UsedIn
  <2>2. /\ g.exit = "none" => /\ g.at = bottom.at + 1
                              /\ ~ HaltedBy(StepOf(bottom), told, kill)
        /\ g.exit # "none" => g.at = bottom.at
        /\ g.exit = "stop" => HaltedBy(StepOf(bottom), told, kill)
    BY <1>4, <1>17, <1>18, <2>1
  <2>3. kill = killed \/ (kill # <<>> /\ kill[1] = StepOf(bottom).id)
    BY <1>4, <1>10
  <2>4. told \in Seq(Paths) /\ Valid(bottom.flow) /\ AtStep(bottom)
    BY <1>3, <1>14
  <2>5. QED BY <1>6, <2>1, <2>2, <2>3, <2>4, ObeysUsed
<1>20. (Len(stack') > 1) = FALSE /\ (pc' # "head") = FALSE
  BY <1>1, <1>5
<1>21. Obeys(stack'[1], Len(stack') > 1, pc' # "head", begun', told', killed')
  BY <1>1, <1>5, <1>9, <1>19, <1>20
<1>22. QED BY <1>1, <1>5, <1>21, NoneLed, ObeysNext

LEMMA ObeyedStart ==
  ASSUME FlowInit
  PROVE  ObeyedInv
BY DEF FlowInit, ObeyedInv, OnFailureObeyed

LEMMA ObeyedRuns ==
  ASSUME FlowTypeOK, Nested, KillInv, FlagsInv, ToldInv, stack # <<>>, ObeyedSoFar,
         Ending \/ Waiting \/ Moving \/ Using \/ EndUse
  PROVE  ObeyedSoFar'
<1>1. PICK n \in Nat \ {0} : n = Len(stack)
  BY TopIs
<1>2. n # 1 => Len(stack) > 1
  BY <1>1
<1>3. CASE Ending
  <2>1. PICK fr \in Frames, m \in Nat, throttle \in BOOLEAN : EndsAs(fr, m, throttle)
    BY <1>3 DEF Ending
  <2>2. StepRuns /\ AtStep(Top) /\ EndStep(fr, m, throttle)
    BY <1>3, <2>1 DEF Ending, StepRuns, EndsAs
  <2>3. CASE n = 1
    BY <1>1, <2>1, <2>2, <2>3, BottomEnds
  <2>4. CASE n # 1
    <3>1. Records(StepOf(stack[1]).id) /\ Kills(StepOf(stack[1]).id)
      BY <2>2, PathLed, EndRecords
    <3>2. StaysOn(fr)
      BY <2>1, <2>2 DEF EndsAs, EndStep, StaysOn
    <3>3. QED BY <1>2, <2>2, <2>4, <3>1, <3>2, DeepRuns
  <2>5. QED BY <2>3, <2>4
<1>4. CASE Waiting
  <2>1. PICK fr \in Frames, p \in {"try", "dial", "send", "receive"}, call \in Calls :
          WaitAt(p, fr, call) /\ Alike(fr, Top)
    BY <1>4 DEF Waiting
  <2>2. /\ StepRuns /\ StaysOn(fr) /\ fr.at = Top.at /\ fr.exit = Top.exit
        /\ pc' # "head" /\ UNCHANGED <<told, killed>>
    BY <1>4, <2>1 DEF Waiting, StepRuns, WaitAt, Alike, StaysOn
  <2>3. CASE n = 1
    BY <1>1, <2>2, <2>3, BottomWaits
  <2>4. CASE n # 1
    BY <1>2, <2>2, <2>4, NothingRecorded, DeepRuns DEF Kills
  <2>5. QED BY <2>3, <2>4
<1>5. CASE Moving
  <2>1. /\ StepRuns /\ UNCHANGED <<stack, told, killed>>
        /\ pc' # "head"
    BY <1>5 DEF Moving
  <2>2. PICK fr \in Frames : fr = Top
    BY TopIs
  <2>3. StaysOn(fr)
    <3>1. OnTop(fr) = stack
      BY <2>2, TopIs DEF OnTop, FlowTypeOK
    <3>2. QED BY <2>1, <2>2, <3>1 DEF StaysOn
  <2>4. CASE n = 1
    BY <1>1, <2>1, <2>2, <2>3, <2>4, BottomWaits
  <2>5. CASE n # 1
    BY <1>2, <2>1, <2>3, <2>5, NothingRecorded, DeepRuns DEF Kills
  <2>6. QED BY <2>4, <2>5
<1>6. CASE Using
  <2>1. CASE n = 1
    BY <1>1, <1>6, <2>1, BottomUses
  <2>2. CASE n # 1
    <3>1. /\ StepRuns /\ AtStep(Top) /\ mode' = mode /\ UNCHANGED <<told, killed>>
      BY <1>6 DEF Using, StepRuns
    <3>2. PICK fr \in Frames : fr = NewFrame(Here.uses, Path)
      BY <1>6, UsingIs
    <3>3. /\ Len(stack') = n + 1
          /\ stack'[n + 1] = fr
          /\ \A i \in 1 .. n : stack'[i] = stack[i]
      BY <1>1, <1>6, <3>2, UsingIs, EnteredIs DEF Using
    <3>4. Path # <<>> /\ Path[1] = StepOf(stack[1]).id /\ fr.path = Path
          /\ \A x : <<x>> # Path
      BY <1>2, <2>2, <3>1, <3>2, PathLed DEF NewFrame
    <3>5. \A x : <<x>> \in begun' <=> <<x>> \in begun
      BY <3>1, <3>4 DEF StepRuns
    <3>6. Len(stack') > 1 /\ stack'[1] = stack[1]
      <4>1. 1 \in 1 .. n /\ n + 1 > 1
        OBVIOUS
      <4>2. QED BY <3>3, <4>1
    <3>7. Led(stack', Len(stack'), StepOf(stack[1]).id)
      <4>1. Led(stack, n, StepOf(stack[1]).id)
        BY <1>1, ObeysIs DEF StepOf
      <4>2. ASSUME NEW i \in 2 .. n + 1
            PROVE  stack'[i].path # <<>> /\ stack'[i].path[1] = StepOf(stack[1]).id
        <5>1. i = n + 1 \/ (i \in 2 .. n /\ i \in 1 .. n)
          OBVIOUS
        <5>2. QED BY <3>3, <3>4, <4>1, <5>1 DEF Led
      <4>3. QED BY <3>3, <4>2 DEF Led
    <3>8. QED BY <1>2, <2>2, <3>1, <3>5, <3>6, <3>7, NothingRecorded, DeepObeyed DEF Kills
  <2>3. QED BY <2>1, <2>2
<1>7. CASE EndUse
  <2>1. pc = "head" /\ Len(stack) > 1
    BY <1>7, EndUseIs
  <2>2. PICK g \in Frames : Returning(g)
    BY <1>7, EndUseIs
  <2>3. PICK k \in Nat \ {0} : k = n - 1 /\ n = k + 1
    BY <1>1, <2>1
  <2>4. CASE k = 1
    <3>1. Len(stack) = 2
      BY <1>1, <2>3, <2>4
    <3>2. QED BY <2>1, <2>2, <3>1, BottomReturns
  <2>5. CASE k # 1
    <3>1. /\ Len(stack') = k
          /\ stack'[k] = g
          /\ \A i \in 1 .. k - 1 : stack'[i] = stack[i]
      <4>1. /\ Len(Left(g)) = k
            /\ Left(g)[k] = g
            /\ \A i \in 1 .. Len(stack) - 2 : Left(g)[i] = stack[i]
        BY <1>1, <2>1, <2>3, LeftIs
      <4>2. Len(stack) - 2 = k - 1
        BY <1>1, <2>3
      <4>3. QED BY <2>2, <4>1, <4>2 DEF Returning
    <3>2. g.path = stack[k].path
      BY <1>1, <2>2, <2>3 DEF Returning, UsedIn, Below
    <3>3. PICK id : id = StepOf(stack[1]).id
      OBVIOUS
    <3>4. Led(stack, n, id)
      BY <1>1, <3>3, ObeysIs DEF StepOf
    <3>5. Led(stack', Len(stack'), id)
      <4>1. ASSUME NEW i \in 2 .. k PROVE stack'[i].path # <<>> /\ stack'[i].path[1] = id
        <5>1. i \in 2 .. n /\ (i = k \/ i \in 1 .. k - 1)
          BY <2>3
        <5>2. stack'[i].path = stack[i].path
          BY <3>1, <3>2, <5>1
        <5>3. QED BY <3>4, <5>1, <5>2 DEF Led
      <4>2. QED BY <3>1, <4>1 DEF Led
    <3>6. Len(stack') > 1 /\ stack'[1] = stack[1]
      <4>1. 1 \in 1 .. k - 1 /\ k > 1
        BY <2>5
      <4>2. QED BY <3>1, <4>1
    <3>7. mode' = mode /\ told' = told /\ begun' = begun
      BY <2>2 DEF Returning
    <3>8. Kills(id)
      <4>1. n \in 2 .. n /\ Top = stack[n]
        BY <1>1, <2>3, <2>5, TopIs
      <4>2. Top.path # <<>> /\ Top.path[1] = id
        BY <3>4, <4>1 DEF Led
      <4>3. QED BY <2>2, <4>2 DEF Returning, Kills
    <3>9. \A x : <<x>> \in begun' <=> <<x>> \in begun
      BY <3>7
    <3>10. QED BY <2>1, <3>3, <3>5, <3>6, <3>7, <3>8, <3>9, NothingRecorded, DeepObeyed
  <2>6. QED BY <2>4, <2>5
<1>8. QED BY <1>3, <1>4, <1>5, <1>6, <1>7

LEMMA ObeyedStep ==
  ASSUME Base, KillInv, FlagsInv, ToldInv, ObeyedInv, [Next]_vars
  PROVE  ObeyedInv'
<1>1. FlowTypeOK /\ Nested
  BY DEF Base, TypeOK
<1>2. CASE Quiet
  <2>1. ObeyedSoFar' <=> ObeyedSoFar
    BY <1>2 DEF Quiet, historyVars, ObeyedSoFar, Began, Spoke, Halted, GoesOn, EffectiveAction
  <2>2. OnFailureObeyed'
    <3>1. begun' = begun /\ \A st : Halted(st)' <=> Halted(st)
      BY <1>2 DEF Quiet, historyVars, Halted, GoesOn, EffectiveAction
    <3>2. CASE returned' = Unreturned
      BY <3>2 DEF OnFailureObeyed
    <3>3. CASE returned' = returned
      <4>1. OnFailureObeyed
        BY DEF ObeyedInv
      <4>2. QED BY <3>1, <3>3, <4>1 DEF OnFailureObeyed
    <3>4. QED BY <1>2, <3>2, <3>3 DEF Quiet
  <2>3. QED BY <1>2, <2>1, <2>2 DEF Quiet, ObeyedInv
<1>3. CASE Start
  <2>1. PICK fr \in Frames : fr = NewFrame(flow, <<>>)
    BY <1>1, <1>3, StartIs DEF Base
  <2>2. /\ Len(stack') = 1 /\ stack'[1] = fr /\ pc' = "head" /\ mode' = mode
        /\ returned' = Unreturned
    BY <1>1, <1>3, <2>1, StartIs DEF Base
  <2>3. /\ begun' = {} /\ told' = <<>> /\ killed' = <<>>
        /\ fr.at = 1 /\ fr.exit = "none" /\ fr.flow = flow
    BY <1>3, <2>1 DEF Start, Call, NewFrame
  <2>4. Valid(flow)
    BY DEF Base, CallerInv
  <2>5. \A k \in DOMAIN StepsOf[flow] : ~ (k < 1)
    BY <2>4, StepsAre
  <2>6. \A i \in 1 .. Len(<<>>) : FALSE
    OBVIOUS
  <2>7. PICK none : none = <<>> /\ \A i \in 1 .. Len(none) : FALSE
    BY <2>6
  <2>8. Obeys(fr, FALSE, FALSE, {}, none, none)
    BY <2>3, <2>5, <2>7 DEF Obeys
  <2>9. (Len(stack') > 1) = FALSE /\ (pc' # "head") = FALSE
    BY <2>2
  <2>10. Obeys(stack'[1], Len(stack') > 1, pc' # "head", begun', told', killed')
    BY <2>2, <2>3, <2>7, <2>8, <2>9
  <2>11. ObeyedSoFar'
    BY <2>2, <2>10, NoneLed, ObeysNext
  <2>12. QED BY <2>2, <2>11 DEF ObeyedInv, OnFailureObeyed
<1>4. CASE stack # <<>> /\ (Ending \/ Waiting \/ Moving \/ Using \/ EndUse)
  <2>1. ObeyedSoFar'
    BY <1>1, <1>4, ObeyedRuns DEF ObeyedInv
  <2>2. returned' = Unreturned
    <3>1. CASE Ending \/ Waiting \/ Moving \/ Using
      BY <1>1, <3>1, RunsUnreturned DEF Ending, Waiting, Moving, Using
    <3>2. CASE EndUse
      BY <1>1, <1>4, <3>2 DEF EndUse, Nested
    <3>3. QED BY <1>4, <3>1, <3>2
  <2>3. QED BY <2>1, <2>2 DEF ObeyedInv, OnFailureObeyed
<1>5. CASE ReturnFlow
  <2>1. /\ stack # <<>> /\ Len(stack) = 1 /\ stack' = <<>> /\ Top = stack[1] /\ pc = "head"
        /\ UNCHANGED <<mode, told, killed, begun>>
        /\ Ended
    BY <1>1, <1>5, TopIs DEF ReturnFlow, Ended, At, historyVars
  <2>2. PICK bottom \in Frames : bottom = stack[1] /\ bottom = Top /\ Valid(bottom.flow)
    BY <1>1, <2>1, BottomIs
  <2>3. returned'.flow = bottom.flow /\ (returned'.err <=> bottom.exit = "error")
    BY <1>5, <2>2 DEF ReturnFlow
  <2>4. Obeys(bottom, FALSE, FALSE, begun, told, killed)
    <3>1. Obeys(stack[1], Len(stack) > 1, pc # "head", begun, told, killed)
      BY <2>1, ObeysIs DEF ObeyedInv
    <3>2. (Len(stack) > 1) = FALSE /\ (pc # "head") = FALSE
      BY <2>1
    <3>3. QED BY <2>2, <3>1, <3>2
  <2>5. bottom.exit # "none" \/ bottom.at > Len(StepsOf[bottom.flow])
    BY <2>1, <2>2 DEF Ended
  <2>6. \A st : HaltedBy(st, told, killed) <=> Halted(st)'
    BY <2>1 DEF HaltedBy, Halted, GoesOn, EffectiveAction
  <2>7. ASSUME bottom.exit # "error", NEW i \in DOMAIN StepsOf[bottom.flow]
        PROVE  <<StepsOf[bottom.flow][i].id>> \in begun
                 <=> \A j \in 1 .. i - 1 : ~ Halted(StepsOf[bottom.flow][j])'
    <3>1. <<StepsOf[bottom.flow][i].id>> \in begun
            <=> \A j \in 1 .. i - 1 : ~ HaltedBy(StepsOf[bottom.flow][j], told, killed)
      BY <2>2, <2>4, <2>5, <2>7, ObeysEnds
    <3>2. \A j : HaltedBy(StepsOf[bottom.flow][j], told, killed)
                  <=> Halted(StepsOf[bottom.flow][j])'
      BY <2>6
    <3>3. QED BY <3>1, <3>2
  <2>8. OnFailureObeyed'
    BY <2>1, <2>3, <2>7 DEF OnFailureObeyed
  <2>9. QED BY <2>1, <2>8 DEF ObeyedInv
<1>6. CASE RunFlowStep
  <2>1. Forms /\ stack # <<>>
    BY <1>1, <1>6, StepForms, FormsRun
  <2>2. QED BY <1>4, <1>5, <2>1 DEF Forms
<1>7. QED BY <1>2, <1>3, <1>6, NextForms

-------------------------------------------------------------------------------
(* What holds of every run of the flows. *)

(* The inductive invariant: each part is kept by itself, but for KillInv,  *)
(* which FlagsInv helps, and all of them rest on Base.                     *)
THEOREM Inductive == Spec => [](Base /\ TriesInv /\ KillInv /\ FlagsInv /\ ToldInv /\ SessionsInv)
<1>1. Init => Base /\ TriesInv /\ KillInv /\ FlagsInv /\ ToldInv /\ SessionsInv
  BY BaseStart, TriesStart, KillStart, FlagsStart, ToldStart, SessionsStart DEF Init
<1>2. ASSUME Base, TriesInv, KillInv, FlagsInv, ToldInv, SessionsInv, [Next]_vars
      PROVE  Base' /\ TriesInv' /\ KillInv' /\ FlagsInv' /\ ToldInv' /\ SessionsInv'
  BY <1>2, BaseStep, TriesStep, KillStep, FlagsStep, ToldStep, SessionsStep
<1>3. (Base /\ TriesInv /\ KillInv /\ FlagsInv /\ ToldInv /\ SessionsInv) /\ [Next]_vars
        => (Base /\ TriesInv /\ KillInv /\ FlagsInv /\ ToldInv /\ SessionsInv)'
  BY <1>2
<1>4. QED BY <1>1, <1>3, PTL DEF Spec

(* Type correctness: whatever the flows, an Iteration is one, a try's      *)
(* answer is one, and executeOnce's counts are numbers.                    *)
THEOREM TypeCorrect == Spec => []TypeOK
<1>1. Base => TypeOK
  BY DEF Base
<1>2. QED BY <1>1, Inductive, PTL

(* A cancelled run adds at most one try to the step it is on (withRetry,   *)
(* backoff and sleepCtx), whatever the policy and the target say.          *)
THEOREM RetriesEnd == Spec => []RetriesEndWithTheRun
<1>1. TriesInv => RetriesEndWithTheRun
  BY DEF TriesInv, RetriesEndWithTheRun
<1>2. QED BY <1>1, Inductive, PTL

(* Once a step at any depth was judged abort_run, runSteps and runUse      *)
(* begin no step any more until the next flow-run.                         *)
THEOREM KillSwitch == Spec => KillSwitchStopsTheFlow
<1>1. Base /\ KillInv /\ [Next]_vars => [killed # <<>> => begun' \subseteq begun]_flowVars
  BY KilledBeginsNothing
<1>2. QED BY <1>1, Inductive, PTL DEF Spec, KillSwitchStopsTheFlow

(* RunFlow returns every failure recorded at any depth, in order, once and *)
(* with the path of its step, and the two flags of the flow-run, however   *)
(* deep runUse nests and whichever step errs.                              *)
THEOREM NothingLost == Spec => []NothingKeptBack
<1>1. FlagsInv /\ ToldInv => NothingKeptBack
  BY DEF FlagsInv, ToldInv, NothingKeptBack, FailuresReachTheCaller, FlagsReachTheCaller
<1>2. QED BY <1>1, Inductive, PTL

(* A sample of a virtual user. *)
PoolSample ==
  {s \in [outcome : {"ok", "throttled", "failed"}, throttled : BOOLEAN, error : BOOLEAN] :
     s.error => s.outcome = "failed"}

(* What a virtual user's flow-run in error leaves is a failed sample.      *)
LEMMA SamplesAre == Spec => []SamplesTruthful
<1> DEFINE Inv == ~ Once => samples \in Seq(PoolSample)
<1>1. Init => Inv
  BY DEF Init
<1>2. ASSUME Base, Inv, [Next]_vars PROVE Inv'
  <2>1. SUFFICES ASSUME ~ Once' PROVE samples' \in Seq(PoolSample)
    OBVIOUS
  <2>2. mode' = mode
    <3>1. CASE FlowStep
      <4>1. FlowTypeOK /\ Nested /\ RunFlowStep
        BY <1>2, <3>1 DEF Base, TypeOK, FlowStep
      <4>2. CASE Ending \/ Waiting \/ Moving \/ Using
        BY <4>2 DEF Ending, Waiting, Moving, Using, StepRuns
      <4>3. CASE EndUse \/ ReturnFlow
        BY <4>3 DEF EndUse, ReturnFlow
      <4>4. QED BY <4>1, <4>2, <4>3, StepForms DEF Forms
    <3>2. CASE Start
      BY <1>2, <3>2, StartIs DEF Base
    <3>3. QED BY <1>2, <3>1, <3>2
          DEF Next, NextRow, Exit, Cancel, Finished, vars, flowVars
  <2>3. ~ Once /\ samples \in Seq(PoolSample)
    BY <1>2, <2>1, <2>2 DEF Once
  <2>4. CASE NextRow
    <3>1. JudgeInPool
      BY <2>3, <2>4 DEF NextRow, JudgeOnce
    <3>2. returned \in Returns
      BY <1>2, <3>1 DEF Base, TypeOK, FlowTypeOK, JudgeInPool
    <3>3. SampleOf(returned, Judged(returned).outcome) \in PoolSample
      BY <3>2 DEF SampleOf, Judged, Unsound, Returns, PoolSample
    <3>4. QED BY <2>3, <3>1, <3>3 DEF JudgeInPool
  <2>5. CASE UNCHANGED samples
    BY <2>3, <2>5
  <2>6. QED BY <1>2, <2>4, <2>5
        DEF Next, Start, FlowStep, Exit, Cancel, Finished, vars, callerVars
<1>3. Base /\ Inv /\ [Next]_vars => Inv'
  BY <1>2
<1>4. Inv => SamplesTruthful
  BY DEF SamplesTruthful, PoolSample
<1>5. QED BY <1>1, <1>3, <1>4, Inductive, PTL DEF Spec

(* What the pool and executeOnce make of what RunFlow returned is what it  *)
(* was: VirtualUsers' assumption about a flow-run's result, the samples of *)
(* a virtual user, and the exit code of a run in integration mode.         *)
THEOREM Truthful == Spec => []CallersTruthful
<1>1. Base /\ FlagsInv => AsThePoolAssumes
  <2>1. SUFFICES ASSUME Base, FlagsInv, returned # Unreturned
                 PROVE  Judged(returned) \in FlowResult
    BY DEF AsThePoolAssumes
  <2>2. returned \in Returns /\ Honest(returned)
    BY <2>1 DEF Base, TypeOK, FlowTypeOK, FlagsInv
  <2>3. PICK r : r = Judged(returned)
    OBVIOUS
  <2>4. /\ r \in [outcome : {"ok", "throttled", "failed"},
                  throttled : BOOLEAN, aborted : BOOLEAN]
        /\ r.outcome = IF Unsound(returned) THEN "failed" ELSE returned.outcome
        /\ r.throttled = returned.throttled /\ r.aborted = returned.aborted
    BY <2>2, <2>3 DEF Judged, Returns
  <2>5. r.aborted => r.outcome = "failed"
    BY <2>2, <2>4 DEF Honest, Unsound
  <2>6. r.outcome = "ok" => ~ r.throttled
    BY <2>2, <2>4 DEF Honest, Returns
  <2>7. r.outcome = "throttled" => r.throttled
    BY <2>2, <2>4 DEF Honest, Returns
  <2>8. QED BY <2>3, <2>4, <2>5, <2>6, <2>7 DEF FlowResult
<1>2. Base => ExitCodeTruthful
  BY DEF Base, CallerInv, ExitCodeTruthful
<1>3. Base /\ FlagsInv /\ SamplesTruthful => CallersTruthful
  BY <1>1, <1>2 DEF CallersTruthful
<1>4. QED BY <1>3, Inductive, SamplesAre, PTL

(* A WebSocket session is its flow's own, from its one opening to the      *)
(* flow's end: runUse and RunFlow close what their steps dialled, and      *)
(* runWS's backstop for a session that is not there is out of reach.       *)
THEOREM SessionsScoped == Spec => []SessionsSound
<1>1. SessionsInv => SessionsAreScoped
  <2>1. SUFFICES ASSUME SessionsInv PROVE SessionsAreScoped
    OBVIOUS
  <2>2. conns = UNION {Sessions(stack[i]) : i \in 1 .. Len(stack)}
    BY <2>1 DEF SessionsInv
  <2>3. QED BY <2>2 DEF SessionsAreScoped, Sessions
<1>2. Base /\ SessionsInv => BackstopUnreachable
  <2>1. SUFFICES ASSUME Base, SessionsInv, At("head"), ~ Ended, Here.kind = "ws"
                 PROVE  Here.opens <=> Top.ws[Here.session] = "unopened"
    BY DEF BackstopUnreachable
  <2>2. FlowTypeOK /\ Nested /\ stack # <<>> /\ pc = "head"
    BY <2>1 DEF Base, TypeOK, At
  <2>3. AtStep(Top)
    BY <2>1, <2>2, NotEndedIs
  <2>4. SessionNow
    BY <2>1, <2>2, <2>3, SessionNowIs
  <2>5. Opened(Top) = OpenedBefore(Top.flow, Top.at)
    BY <2>2, <2>4 DEF SessionNow, Under
  <2>6. QED BY <2>1, <2>4, <2>5 DEF SessionNow, Opened
<1>3. Base /\ SessionsInv => SessionsSound
  BY <1>1, <1>2 DEF SessionsSound
<1>4. QED BY <1>3, Inductive, PTL

(* A step of the iteration's own flow that was judged goes on, or ends the *)
(* flow, as its on_failure and its outcome say, the failures of the flows  *)
(* it used counted as its own, and an abort_run however deep (runSteps,    *)
(* runUse, RunFlow).                                                       *)
THEOREM Obeyed == Spec => []OnFailureObeyed
<1>1. Init => ObeyedInv
  BY ObeyedStart DEF Init
<1>2. Base /\ KillInv /\ FlagsInv /\ ToldInv /\ ObeyedInv /\ [Next]_vars => ObeyedInv'
  BY ObeyedStep
<1>3. ObeyedInv => OnFailureObeyed
  BY DEF ObeyedInv
<1>4. QED BY <1>1, <1>2, <1>3, Inductive, PTL DEF Spec

===============================================================================
