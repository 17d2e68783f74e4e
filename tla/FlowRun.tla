------------------------------- MODULE FlowRun -------------------------------
(***************************************************************************)
(* Runner.RunFlow (internal/executor/iteration.go, retry.go, ws.go,        *)
(* grpc.go): one pass over a flow's steps, through used flows, retries and *)
(* WebSocket sessions, against a target that may answer, throttle, fail or *)
(* hang up, under a context that may be cancelled at any moment.           *)
(*                                                                         *)
(* The Go call stack of runSteps and runUse is the variable stack: a frame *)
(* for each flow being run, with the Iteration it fills in.  One step is   *)
(* what happens between two waits on the network, a timer or the context.  *)
(* Variables of the flow (Scope), spans below a step, and what is captured *)
(* of a call are left out.                                                 *)
(***************************************************************************)
EXTENDS Integers, SequencesExt, FlowOutcome

CONSTANTS
  FlowName,        \* the flows a scenario declares or uses
  StepsOf,         \* the steps of each
  Entry,           \* those a scenario may run; the others are used by them
  Modes,           \* the profile modes of this instance
  Session,         \* names of WebSocket sessions
  ReceiveTimeout   \* ticks a receive waits for its frame

(* A step, as far as control depends on it.  on_status and the answers     *)
(* tell apart "ok", "busy" (a status that is no throttle and that a policy *)
(* may list) and "throttle" (429, a mapped status, RESOURCE_EXHAUSTED).    *)
Step ==
  [id        : STRING,
   kind      : {"call", "grpc", "ws", "use", "wait", "poll"},
   onFailure : {"unset", "record", "abort_flow", "abort_run"},
   asError   : {"unset", "yes", "no"},    \* throttle.as_error
   attempts  : Nat \ {0},                 \* 1 without a retry policy
   onStatus  : SUBSET {"busy", "throttle"},
   pushback  : BOOLEAN,                   \* honor_retry_after
   checks    : Nat,                       \* failures evaluate may record
   templated : BOOLEAN,                   \* a reference may have no value
   allowed   : BOOLEAN,                   \* its URL passes the allow-list
   session   : Session, opens : BOOLEAN, sends : BOOLEAN, receives : BOOLEAN,
   uses      : FlowName \cup {"none"}]

ASSUME FlowAssumption ==
  /\ StepsOf \in [FlowName -> Seq(Step)]
  /\ Entry \subseteq FlowName
  /\ Modes \subseteq {"integration", "load"}
  /\ ReceiveTimeout \in Nat

(* The flows that pass Flow.validateAs.  No step id is given twice.  A     *)
(* step works only on a session that an earlier step of its own flow       *)
(* opens, and none is opened twice.  A used flow is checked in its turn,   *)
(* so a flow passes with all those it comes to use.                        *)
IdsDiffer(f) ==
  \A i, j \in DOMAIN StepsOf[f] : StepsOf[f][i].id = StepsOf[f][j].id => i = j
OpenedBefore(f, i) ==
  {StepsOf[f][j].session : j \in {k \in 1 .. i - 1 : /\ StepsOf[f][k].kind = "ws"
                                                     /\ StepsOf[f][k].opens}}

SessionsResolve(f) ==
  \A i \in DOMAIN StepsOf[f] :
    LET st == StepsOf[f][i] IN
    st.kind = "ws" => (st.opens <=> st.session \notin OpenedBefore(f, i))

Valid(f) ==
  \E flows \in SUBSET FlowName :
    /\ f \in flows
    /\ \A g \in flows :
         /\ IdsDiffer(g)
         /\ SessionsResolve(g)
         /\ \A i \in DOMAIN StepsOf[g] :
              StepsOf[g][i].kind = "use" => StepsOf[g][i].uses \in flows

VARIABLES
  mode,        \* the profile's mode
  stack,       \* the flows being run, the using one below the used one
  pc,          \* where the step on top is
  io,          \* its call: the try, what came back, whether it was begun
               \* under a cancelled context, how long a receive has waited
  conns,       \* WebSocket connections made and not closed, by their frame
  cancelled,   \* ctx.Err() # nil
  returned,    \* what RunFlow returned
  told,        \* history: every failure recorded, by its step's full path
  killed,      \* history: the path of the step judged abort_run, if any
  limited,     \* history: a throttle was answered
  begun,       \* history: the steps begun
  lateTries    \* history: tries of the current step begun once cancelled

historyVars == <<told, killed, limited, begun, lateTries>>
flowVars    == <<mode, stack, pc, io, conns, cancelled, returned, historyVars>>

-------------------------------------------------------------------------------

(* A frame: the flow, the ids of the use steps that led to it, its next    *)
(* step, how it left its loop, and its Iteration.                          *)
NewFrame(f, path) ==
  [flow |-> f, path |-> path, at |-> 1, exit |-> "none",
   failures |-> <<>>, throttled |-> FALSE, aborted |-> FALSE, outcome |-> "ok",
   ws |-> [s \in Session |-> "unopened"]]

Idle == [n |-> 0, status |-> "none", err |-> FALSE, late |-> FALSE, waited |-> 0]

Unreturned == [none |-> TRUE]

Top  == Last(stack)
Here == StepsOf[Top.flow][Top.at]
Path == Append(Top.path, Here.id)

OnTop(fr) == [stack EXCEPT ![Len(stack)] = fr]

At(p) == stack # <<>> /\ pc = p

Worst(a, b) ==
  CHOOSE o \in {a, b} : \/ o = "failed"
                        \/ o = "throttled" /\ "failed" \notin {a, b}
                        \/ {a, b} = {"ok"}

EffectiveAction(st) ==
  CHOOSE a \in {"record", "abort_flow", "abort_run"} :
    \/ a = st.onFailure
    \/ st.onFailure = "unset" /\ a = "abort_flow" /\ mode = "integration"
    \/ st.onFailure = "unset" /\ a = "record" /\ mode # "integration"

ThrottleIsError(st) ==
  \/ st.asError = "yes"
  \/ st.asError = "unset" /\ mode = "integration"

(* What becomes of the frame when its step ends: the span is added, and    *)
(* the loop goes on or stops.                                              *)
Added(fr, outcome, goOn) ==
  [fr EXCEPT !.outcome = Worst(@, outcome),
             !.at = IF goOn THEN @ + 1 ELSE @,
             !.exit = IF goOn THEN "none" ELSE "stop"]

(* n failures of step st appended, as record and recordThrottle do. *)
Noted(fr, st, n) ==
  [fr EXCEPT !.failures = @ \o [i \in 1 .. n |-> <<st.id>>],
             !.aborted = @ \/ (n > 0 /\ EffectiveAction(st) = "abort_run")]

GoesOn(st) == EffectiveAction(st) = "record"

Passed(fr)        == Added(fr, "ok", TRUE)
Failed(fr, st, n) == Added(Noted(fr, st, n), "failed", GoesOn(st))

(* recordThrottle: flagged in every mode, a failure only where it counts   *)
(* as one, and then the span stays "throttled".                            *)
ThrottledBy(fr, st) ==
  LET flagged == [fr EXCEPT !.throttled = TRUE] IN
  IF ThrottleIsError(st) THEN Added(Noted(flagged, st, 1), "throttled", GoesOn(st))
                         ELSE Added(flagged, "throttled", TRUE)

Erred(fr)  == [fr EXCEPT !.exit = "error"]

Marked(fr, s, state) == [fr EXCEPT !.ws[s] = state]

-------------------------------------------------------------------------------

(* How a step ends: its frame is as given, n failures were recorded, and   *)
(* the answer was a throttle or not.                                       *)
EndStep(fr, n, throttle) ==
  /\ stack' = OnTop(fr)
  /\ pc' = "head"
  /\ io' = Idle
  /\ told' = told \o [i \in 1 .. n |-> Path]
  /\ killed' = IF n > 0 /\ EffectiveAction(Here) = "abort_run" THEN Path ELSE killed
  /\ limited' = (limited \/ throttle)

StepPassed(fr)     == EndStep(Passed(fr), 0, FALSE)
StepFailed(fr)     == EndStep(Failed(fr, Here, 1), 1, FALSE)
StepErred(fr)      == EndStep(Erred(fr), 0, FALSE)
StepThrottled(fr)  ==
  EndStep(ThrottledBy(fr, Here), IF ThrottleIsError(Here) THEN 1 ELSE 0, TRUE)

(* evaluate: the first extraction that finds nothing ends it, assertions   *)
(* are tried on as long as their failures are only recorded.  The body of  *)
(* a GraphQL answer is one more check.                                     *)
StepEvaluated(fr) ==
  \/ StepPassed(fr)
  \/ \E n \in 1 .. Here.checks :
       /\ n > 1 => GoesOn(Here)
       /\ EndStep(Failed(fr, Here, n), n, FALSE)

(* The step waits on the network or on a timer. *)
WaitAt(p, fr, call) ==
  /\ stack' = OnTop(fr)
  /\ pc' = p
  /\ io' = call
  /\ UNCHANGED <<told, killed, limited>>

NewCall == [Idle EXCEPT !.n = 1, !.late = cancelled]

(* runWS after the session is there: send, then receive, each optional. *)
Await(fr)    == IF Here.receives THEN WaitAt("receive", fr, NewCall) ELSE StepPassed(fr)
Exchange(fr) == IF Here.sends THEN WaitAt("send", fr, NewCall) ELSE Await(fr)

(* What a step does first. *)
MakesRequest == Here.kind \in {"call", "grpc"} \/ (Here.kind = "ws" /\ Here.opens)

CannotRun ==
  /\ \/ Here.kind = "poll"
     \/ Here.templated /\ (MakesRequest \/ Here.kind = "use")
  /\ StepErred(Top)

Refused ==
  /\ MakesRequest
  /\ ~ Here.allowed
  /\ StepFailed(IF Here.kind = "ws" THEN Marked(Top, Here.session, "refused") ELSE Top)

BeginCall ==
  /\ Here.kind \in {"call", "grpc"}
  /\ Here.allowed
  /\ WaitAt("try", Top, NewCall)

BeginSession ==
  /\ Here.kind = "ws" /\ Here.opens
  /\ Here.allowed
  /\ WaitAt("dial", Top, NewCall)

OnOpenSession ==
  /\ Here.kind = "ws" /\ ~ Here.opens
  /\ Top.ws[Here.session] = "open"
  /\ Exchange(Top)

OnDeadSession ==
  /\ Here.kind = "ws" /\ ~ Here.opens
  /\ Top.ws[Here.session] \in {"refused", "retired"}
  /\ StepFailed(Top)

BeginUse ==
  /\ Here.kind = "use"
  /\ stack' = Append(stack, NewFrame(Here.uses, Path))
  /\ UNCHANGED <<pc, io, told, killed, limited>>

Sleep ==
  /\ Here.kind = "wait"
  /\ StepPassed(Top)

BeginStep ==
  /\ At("head")
  /\ Top.exit = "none" /\ Top.at <= Len(StepsOf[Top.flow])
  /\ begun' = begun \cup {Path}
  /\ lateTries' = IF cancelled THEN 1 ELSE 0
  /\ \/ CannotRun \/ Refused
     \/ BeginCall \/ BeginSession \/ OnOpenSession \/ OnDeadSession
     \/ BeginUse \/ Sleep
  /\ UNCHANGED <<mode, conns, cancelled, returned>>

-------------------------------------------------------------------------------
(* withRetry *)

NoAnswer == [status |-> "none", err |-> TRUE]

(* What a try may come back with.  Over HTTP there is a status or an error; *)
(* gRPC has codes that are both, which means the call reached nobody.      *)
Answers(st) ==
  [status : {"ok", "busy", "throttle"}, err : {FALSE}]
    \cup {NoAnswer}
    \cup (IF st.kind = "grpc" THEN [status : {"busy", "throttle"}, err : {TRUE}] ELSE {})

(* Mutant of Retryable: a try without a status counts as one worth it. *)
RetryableUnanswered(st, n, status) ==
  n < st.attempts /\ status \in st.onStatus \cup {"none"}

Retryable(st, n, status) == n < st.attempts /\ status \in st.onStatus

CallUnchanged ==
  UNCHANGED <<mode, stack, conns, cancelled, returned, told, killed, limited, begun>>

(* A try ends and the policy looks at its status.  From here on late says  *)
(* whether the backoff began under a cancelled context.                    *)
Receive(a) ==
  /\ pc' = IF Retryable(Here, io.n, a.status) THEN "backoff" ELSE "judge"
  /\ io' = [io EXCEPT !.status = a.status, !.err = a.err, !.late = cancelled]
  /\ UNCHANGED lateTries
  /\ CallUnchanged

Answered ==
  /\ At("try")
  /\ ~ io.late
  /\ \E a \in Answers(Here) : Receive(a)

CutOff ==
  /\ At("try")
  /\ cancelled
  /\ Receive(NoAnswer)

(* backoff and sleepCtx.  A wait of no time, which the target may ask for, *)
(* does not look at the context; a timer and a cancellation that come      *)
(* together may be seen either way.                                        *)
Retry ==
  /\ At("backoff")
  /\ io.late => Here.pushback
  /\ pc' = "try"
  /\ io' = [NewCall EXCEPT !.n = io.n + 1]
  /\ lateTries' = IF cancelled THEN lateTries + 1 ELSE lateTries
  /\ CallUnchanged

GiveUp ==
  /\ At("backoff")
  /\ cancelled
  /\ pc' = "judge"
  /\ UNCHANGED <<io, lateTries>>
  /\ CallUnchanged

(* request and runGRPC after the call: a throttle is classified before     *)
(* anything else, then a call that failed, then what came back.            *)
Judge ==
  /\ At("judge")
  /\ IF io.status = "throttle" THEN StepThrottled(Top)
     ELSE IF io.err THEN StepFailed(Top)
     ELSE StepEvaluated(Top)
  /\ UNCHANGED <<mode, conns, cancelled, returned, begun, lateTries>>

-------------------------------------------------------------------------------
(* WebSocket sessions *)

WsUnchanged == UNCHANGED <<mode, cancelled, returned, begun, lateTries>>

DialUp ==
  /\ At("dial") /\ ~ io.late
  /\ conns' = conns \cup {<<Top.path, Here.session>>}
  /\ Exchange(Marked(Top, Here.session, "open"))
  /\ WsUnchanged

DialThrottled ==
  /\ At("dial") /\ ~ io.late
  /\ StepThrottled(Marked(Top, Here.session, "refused"))
  /\ UNCHANGED conns
  /\ WsUnchanged

DialFailed ==
  /\ At("dial")
  /\ StepFailed(Marked(Top, Here.session, "refused"))
  /\ UNCHANGED conns
  /\ WsUnchanged

Sent ==
  /\ At("send") /\ ~ io.late
  /\ Await(Top)
  /\ UNCHANGED conns
  /\ WsUnchanged

FrameErred ==
  /\ At("send") /\ Here.templated
  /\ StepErred(Top)
  /\ UNCHANGED conns
  /\ WsUnchanged

(* awaitFrame: one deadline for the whole wait, however many frames come   *)
(* that are not the one.                                                   *)
Tick ==
  /\ At("receive") /\ io.waited < ReceiveTimeout
  /\ io' = [io EXCEPT !.waited = @ + 1]
  /\ UNCHANGED <<stack, pc, conns, told, killed, limited>>
  /\ WsUnchanged

(* Mutant of SkipFrame: the deadline starts anew with every frame. *)
SkipFrameRearmed ==
  /\ At("receive") /\ ~ io.late /\ io.waited < ReceiveTimeout
  /\ io' = [io EXCEPT !.waited = 0]
  /\ UNCHANGED <<stack, pc, conns, told, killed, limited>>
  /\ WsUnchanged

SkipFrame ==
  /\ At("receive") /\ ~ io.late /\ io.waited < ReceiveTimeout
  /\ UNCHANGED flowVars

Matched ==
  /\ At("receive") /\ ~ io.late /\ io.waited < ReceiveTimeout
  /\ StepEvaluated(Top)
  /\ UNCHANGED conns
  /\ WsUnchanged

TimedOut ==
  /\ At("receive") /\ io.waited = ReceiveTimeout
  /\ StepFailed(Marked(Top, Here.session, "retired"))
  /\ UNCHANGED conns
  /\ WsUnchanged

(* recordWSError: the peer asks to be left alone (1013), or the session    *)
(* ends or breaks in any other way, a cancelled context among them.        *)
TryAgainLater ==
  /\ At("send") \/ At("receive")
  /\ StepThrottled(Marked(Top, Here.session, "retired"))
  /\ UNCHANGED conns
  /\ WsUnchanged

SessionLost ==
  /\ At("send") \/ At("receive")
  /\ StepFailed(Marked(Top, Here.session, "retired"))
  /\ UNCHANGED conns
  /\ WsUnchanged

-------------------------------------------------------------------------------
(* The end of runSteps, in runUse and in RunFlow *)

Ended == At("head") /\ (Top.exit # "none" \/ Top.at > Len(StepsOf[Top.flow]))

(* Mutant of Sessions: a session that was retired is not closed. *)
SessionsAlive(fr) == {<<fr.path, s>> : s \in {x \in Session : fr.ws[x] = "open"}}

Sessions(fr) == {<<fr.path, s>> : s \in {x \in Session : fr.ws[x] \in {"open", "retired"}}}

(* The caller's iteration with the used flow's failures and flags in it. *)
Merged(par, sub) ==
  LET id == Last(sub.path) IN
  [par EXCEPT !.failures = @ \o [i \in DOMAIN sub.failures |-> <<id>> \o sub.failures[i]],
              !.throttled = @ \/ sub.throttled,
              !.aborted = @ \/ sub.aborted]

(* Mutants of Used: the failures before an error are lost; on_failure of   *)
(* the use step decides about a kill switch too; a used flow that stopped  *)
(* stops its caller.                                                       *)
UsedErrorFirst(par, sub, st) ==
  IF sub.exit = "error" THEN Erred([par EXCEPT !.outcome = Worst(@, sub.outcome)])
  ELSE IF sub.failures = <<>> THEN Added(Merged(par, sub), sub.outcome, ~ sub.aborted)
  ELSE Added(Merged(par, sub), "failed", GoesOn(st) /\ ~ sub.aborted)
UsedJudgedAgain(par, sub, st) ==
  LET m == Merged(par, sub) IN
  IF sub.exit = "error" THEN Erred([m EXCEPT !.outcome = Worst(@, sub.outcome)])
  ELSE IF sub.failures = <<>> THEN Added(m, sub.outcome, TRUE)
  ELSE Added([m EXCEPT !.aborted = @ \/ EffectiveAction(st) = "abort_run"],
             "failed", GoesOn(st))
UsedStopping(par, sub, st) ==
  LET m == Merged(par, sub) IN
  IF sub.exit = "error" THEN Erred([m EXCEPT !.outcome = Worst(@, sub.outcome)])
  ELSE IF sub.failures = <<>> THEN Added(m, sub.outcome, TRUE)
  ELSE Added([m EXCEPT !.aborted = @ \/ EffectiveAction(st) = "abort_run"],
             "failed", sub.exit = "none" /\ ~ sub.aborted)

(* What the use step comes to: an error goes up, a kill switch stops       *)
(* whatever on_failure says, and any other failure is the use step's own.  *)
Used(par, sub, st) ==
  LET m == Merged(par, sub) IN
  IF sub.exit = "error" THEN Erred([m EXCEPT !.outcome = Worst(@, sub.outcome)])
  ELSE IF sub.aborted THEN Added(m, sub.outcome, FALSE)
  ELSE IF sub.failures = <<>> THEN Added(m, sub.outcome, TRUE)
  ELSE Added([m EXCEPT !.aborted = @ \/ EffectiveAction(st) = "abort_run"],
             "failed", GoesOn(st))

EndUse ==
  /\ Ended
  /\ Len(stack) > 1
  /\ conns' = conns \ Sessions(Top)
  /\ LET par == stack[Len(stack) - 1]
         st  == StepsOf[par.flow][par.at]
     IN  /\ stack' = [Front(stack) EXCEPT ![Len(stack) - 1] = Used(par, Top, st)]
         /\ killed' = IF /\ Top.exit # "error" /\ ~ Top.aborted
                         /\ Top.failures # <<>> /\ EffectiveAction(st) = "abort_run"
                      THEN Top.path ELSE killed
  /\ UNCHANGED <<mode, pc, io, cancelled, returned, told, limited, begun, lateTries>>

ReturnFlow ==
  /\ Ended
  /\ Len(stack) = 1
  /\ conns' = conns \ Sessions(Top)
  /\ returned' = [flow |-> Top.flow, failures |-> Top.failures,
                  throttled |-> Top.throttled, aborted |-> Top.aborted,
                  outcome |-> Top.outcome, err |-> Top.exit = "error"]
  /\ stack' = <<>>
  /\ UNCHANGED <<mode, pc, io, cancelled, historyVars>>

-------------------------------------------------------------------------------

FlowInit ==
  /\ mode \in Modes
  /\ stack = <<>>
  /\ pc = "head"
  /\ io = Idle
  /\ conns = {}
  /\ cancelled = FALSE
  /\ returned = Unreturned
  /\ told = <<>> /\ killed = <<>> /\ limited = FALSE
  /\ begun = {} /\ lateTries = 0

(* RunFlow is called. *)
Call(f) ==
  /\ stack = <<>>
  /\ stack' = <<NewFrame(f, <<>>)>>
  /\ told' = <<>> /\ killed' = <<>> /\ limited' = FALSE
  /\ begun' = {} /\ lateTries' = 0
  /\ UNCHANGED <<mode, pc, io, conns, cancelled, returned>>

(* What the run owes to itself: its code, its timers, its request timeout. *)
(* A frame that is sent has no deadline of its own.                        *)
Progress ==
  \/ BeginStep
  \/ Answered \/ CutOff \/ Retry \/ GiveUp \/ Judge
  \/ DialUp \/ DialThrottled \/ DialFailed
  \/ Tick \/ Matched \/ TimedOut
  \/ EndUse \/ ReturnFlow

SendUnblocked == Sent \/ FrameErred \/ TryAgainLater \/ SessionLost

RunFlowStep == Progress \/ SendUnblocked \/ SkipFrame

-------------------------------------------------------------------------------

(* Every WebSocket connection belongs to a flow that is being run, the one *)
(* whose step dialled it: RunFlow and runUse close them however their      *)
(* steps ended, and the session of a used flow is not its caller's.        *)
SessionsAreScoped ==
  conns = {c \in {<<stack[i].path, s>> : i \in DOMAIN stack, s \in Session} :
             \E i \in DOMAIN stack :
               /\ stack[i].path = c[1]
               /\ stack[i].ws[c[2]] \in {"open", "retired"}}

(* What the validator resolves before the run holds while it runs: a step  *)
(* that works on a session finds one that was opened, well or not, and a   *)
(* step that opens one finds none.  runWS's backstop is out of reach.      *)
BackstopUnreachable ==
  At("head") /\ ~ Ended /\ Here.kind = "ws"
    => (Here.opens <=> Top.ws[Here.session] = "unopened")

(* A session is its flow's own, from its one opening to the flow's end.    *)
SessionsSound == SessionsAreScoped /\ BackstopUnreachable

(* Whatever was recorded at any depth reaches RunFlow's caller, in order,  *)
(* once, and with the path of its step, also when a later step errs.       *)
FailuresReachTheCaller ==
  returned # Unreturned => returned.failures = told

(* So do the two flags: aborted says that some step at some depth was      *)
(* judged abort_run, throttled that some answer was a throttle.            *)
FlagsReachTheCaller ==
  returned # Unreturned =>
    /\ returned.aborted <=> killed # <<>>
    /\ returned.throttled <=> limited

(* So nothing that went wrong in a used flow stays there.                  *)
NothingKeptBack == FailuresReachTheCaller /\ FlagsReachTheCaller

(* on_failure is obeyed through used flows: a flow that returned without   *)
(* an error has run a step exactly if no step before it failed, itself or  *)
(* within the flow it uses, other than to be recorded.  An unset           *)
(* on_failure is what effectiveAction makes of it in this mode, which is   *)
(* not what the guide says of it: see DefaultSkipsTheRest.                 *)
Halted(st) ==
  \/ ~ GoesOn(st) /\ \E i \in DOMAIN told : told[i][1] = st.id
  \/ killed # <<>> /\ killed[1] = st.id

OnFailureObeyed ==
  returned # Unreturned /\ ~ returned.err =>
    \A i \in DOMAIN StepsOf[returned.flow] :
      <<StepsOf[returned.flow][i].id>> \in begun
        <=> \A j \in 1 .. i - 1 : ~ Halted(StepsOf[returned.flow][j])

(* What the guide says of a step that leaves on_failure out, in any mode:  *)
(* abort_flow is the default, so once it failed no later step of the flow  *)
(* is run.  effectiveAction takes it for a record in load, stress and soak.*)
DefaultSkipsTheRest ==
  returned # Unreturned /\ ~ returned.err =>
    \A i, j \in DOMAIN StepsOf[returned.flow] :
      /\ i < j
      /\ StepsOf[returned.flow][i].onFailure = "unset"
      /\ \E k \in DOMAIN told : told[k][1] = StepsOf[returned.flow][i].id
      => <<StepsOf[returned.flow][j].id>> \notin begun

(* Once a step at any depth was judged abort_run, no step of the flow-run  *)
(* begins any more.                                                        *)
KillSwitchStopsTheFlow ==
  [][killed # <<>> => begun' \subseteq begun]_flowVars

(* A cancelled run adds at most one try to the step it is on, whatever the *)
(* target asks for and however many tries the policy has left.             *)
RetriesEndWithTheRun == lateTries <= 1

-------------------------------------------------------------------------------
(* What makes the invariants above inductive. *)

Paths == Seq(STRING)

Frames ==
  [flow : FlowName, path : Paths, at : Nat \ {0}, exit : {"none", "stop", "error"},
   failures : Seq(Paths), throttled : BOOLEAN, aborted : BOOLEAN,
   outcome : {"ok", "throttled", "failed"},
   ws : [Session -> {"unopened", "refused", "open", "retired"}]]

Calls ==
  [n : Nat, status : {"none", "ok", "busy", "throttle"}, err : BOOLEAN,
   late : BOOLEAN, waited : 0 .. ReceiveTimeout]

Returns ==
  [flow : FlowName, failures : Seq(Paths), throttled : BOOLEAN, aborted : BOOLEAN,
   outcome : {"ok", "throttled", "failed"}, err : BOOLEAN]

FlowTypeOK ==
  /\ mode \in {"integration", "load"}
  /\ stack \in Seq(Frames)
  /\ pc \in {"head", "try", "backoff", "judge", "dial", "send", "receive"}
  /\ io \in Calls
  /\ conns \in SUBSET (Paths \X Session)
  /\ cancelled \in BOOLEAN
  /\ returned \in Returns \cup {Unreturned}
  /\ told \in Seq(Paths)
  /\ killed \in Paths
  /\ limited \in BOOLEAN
  /\ begun \in SUBSET Paths
  /\ lateTries \in Nat

(* A flow that is being run has passed the validator.  Below the top each  *)
(* one is at the use step that led to the next; the one on top is at a     *)
(* step whose kind says what it may wait for.                              *)
AtStep(fr) == fr.exit = "none" /\ fr.at \in DOMAIN StepsOf[fr.flow]

StepOf(fr) == StepsOf[fr.flow][fr.at]

Nested ==
  /\ \A i \in 1 .. Len(stack) : Valid(stack[i].flow)
  /\ stack # <<>> => stack[1].path = <<>>
  /\ \A i \in 1 .. Len(stack) - 1 :
       /\ AtStep(stack[i])
       /\ StepOf(stack[i]).kind = "use"
       /\ stack[i + 1].path = Append(stack[i].path, StepOf(stack[i]).id)
  /\ pc # "head" => stack # <<>> /\ AtStep(Top)
  /\ pc \in {"try", "backoff", "judge"} => Here.kind \in {"call", "grpc"}
  /\ pc = "dial" => Here.kind = "ws" /\ Here.opens
  /\ pc \in {"send", "receive"} => Here.kind = "ws" /\ Top.ws[Here.session] = "open"
  /\ returned # Unreturned => stack = <<>>

(* A try begun under a cancelled context is seen to be one, and a backoff  *)
(* is entered before there was any.                                        *)
TriesInv ==
  /\ lateTries <= 1
  /\ pc = "try" /\ lateTries = 1 => io.late
  /\ pc = "backoff" => lateTries = 0

(* The kill switch travels up: whoever is on top has been stopped by it.   *)
KillInv ==
  killed # <<>> /\ stack # <<>> => pc = "head" /\ Top.exit = "stop" /\ Top.aborted

(* The flags of the Iterations on the stack are those of the flow-run, and *)
(* each outcome agrees with them.                                          *)
Honest(fr) ==
  /\ fr.aborted => fr.failures # <<>>
  /\ fr.throttled => fr.outcome # "ok"
  /\ fr.outcome = "throttled" => fr.throttled

FlagsInv ==
  /\ stack # <<>> =>
       /\ limited <=> \E i \in 1 .. Len(stack) : stack[i].throttled
       /\ killed # <<>> <=> \E i \in 1 .. Len(stack) : stack[i].aborted
  /\ \A i \in 1 .. Len(stack) : Honest(stack[i])
  /\ returned # Unreturned =>
       /\ returned.throttled <=> limited
       /\ returned.aborted <=> killed # <<>>
       /\ Honest(returned)

(* What was recorded so far lies in the Iterations on the stack, one       *)
(* stretch of it in each, the caller's before the used flow's; start[i] is *)
(* how much lies below the i-th.                                           *)
Stretches(start) ==
  /\ start[1] = 0
  /\ \A i \in 1 .. Len(stack) - 1 : start[i + 1] = start[i] + Len(stack[i].failures)
  /\ Len(told) = start[Len(stack)] + Len(stack[Len(stack)].failures)
  /\ \A i \in 1 .. Len(stack) : \A k \in 1 .. Len(stack[i].failures) :
       told[start[i] + k] = stack[i].path \o stack[i].failures[k]

ToldInv ==
  /\ stack # <<>> => \E start \in [1 .. Len(stack) -> 0 .. Len(told)] : Stretches(start)
  /\ returned # Unreturned => returned.failures = told

(* A session is opened by the step that says so, and by no other: the one  *)
(* under way counts once its connection is there.  A connection is known   *)
(* by the path of its frame, and no two frames have the same.              *)
Opened(fr) == {s \in Session : fr.ws[s] # "unopened"}

SessionsInv ==
  /\ \A i \in 1 .. Len(stack) : Len(stack[i].path) = i - 1
  /\ \A i \in 1 .. Len(stack) : stack[i].exit = "none" =>
       Opened(stack[i]) = OpenedBefore(stack[i].flow, stack[i].at)
         \cup (IF i = Len(stack) /\ pc \in {"send", "receive"} THEN {Here.session} ELSE {})
  /\ conns = UNION {Sessions(stack[i]) : i \in 1 .. Len(stack)}

(* The flow that was called has begun the steps up to the one it is at.    *)
(* Whatever was recorded since, or judged abort_run, came from them, and   *)
(* none before that one was to stop it.  A step's id leads every path of   *)
(* the flows it uses.                                                      *)
Began == Len(stack) > 1 \/ stack[1].exit # "none" \/ pc # "head"
Spoke == Len(stack) > 1 \/ stack[1].exit # "none"

ObeyedSoFar ==
  LET bottom == stack[1]
      steps  == StepsOf[bottom.flow]
  IN
  /\ \A k \in DOMAIN steps :
       <<steps[k].id>> \in begun <=> k < bottom.at \/ (k = bottom.at /\ Began)
  /\ \A i \in 1 .. Len(told) : \E k \in DOMAIN steps :
       /\ told[i][1] = steps[k].id
       /\ k < bottom.at \/ (k = bottom.at /\ Spoke)
  /\ Len(stack) > 1 =>
       \A i \in 1 .. Len(bottom.failures) : told[i][1] # steps[bottom.at].id
  /\ killed # <<>> => Spoke /\ killed[1] = steps[bottom.at].id
  /\ \A k \in DOMAIN steps : k < bottom.at => ~ Halted(steps[k])
  /\ bottom.exit = "stop" => Halted(steps[bottom.at])
  /\ bottom.exit # "none" => bottom.at \in DOMAIN steps
  /\ \A i \in 2 .. Len(stack) :
       stack[i].path # <<>> /\ stack[i].path[1] = steps[bottom.at].id

ObeyedInv ==
  /\ stack # <<>> => ObeyedSoFar
  /\ OnFailureObeyed

===============================================================================
