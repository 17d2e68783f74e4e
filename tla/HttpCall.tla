------------------------------- MODULE HttpCall -------------------------------
(***************************************************************************)
(* One Session.Do (internal/adapters/http.go): an exchange of the          *)
(* transport, hop by hop, and the legRecorder that turns the httptrace     *)
(* callbacks of the exchange into the legs of the step's span.             *)
(*                                                                         *)
(* Callbacks come from other goroutines.  A dial the transport started for *)
(* a hop goes on when the hop is served by a connection that came free in  *)
(* the meantime, and its callbacks arrive whenever they do, after Do has   *)
(* returned too.                                                           *)
(*                                                                         *)
(* Moments are abstracted to whether a phase has its start: a mark of the  *)
(* recorder (dnsStart, connStart, tlsStart, wrote) is set or is zero.      *)
(***************************************************************************)
EXTENDS Naturals, Sequences, SequencesExt, FiniteSets

CONSTANTS
  MaxRedirects,   \* maxRedirects
  MaxDials        \* bound on the dials of one call that are left behind

ASSUME HttpCallAssumption == MaxRedirects \in Nat /\ MaxDials \in Nat

VARIABLES
  http,      \* where Do is
  hops,      \* redirects followed
  dial,      \* callbacks the hop's own dial has still to make
  stray,     \* the dials left behind: the leg each began in, what it has still to call
  legs,      \* the children of the step's span
  recorder,  \* the legRecorder: its open leg, its marks, hasFirst, done
  crossed    \* history: a dial left behind reported outside the leg it began in

httpVars == <<http, hops, dial, stray, legs, recorder, crossed>>

Mark == {"dns", "connect", "tls", "wrote"}

(* The callbacks of a dial, in their order. *)
DialCalls == <<"DNSStart", "DNSDone", "ConnectStart", "ConnectDone", "TLSStart", "TLSDone">>

MarkOf == [DNSStart |-> "dns", ConnectStart |-> "connect", TLSStart |-> "tls",
           WroteRequest |-> "wrote"]

PhaseOf == [DNSDone |-> "dns", ConnectDone |-> "connect", TLSDone |-> "tls",
            FirstByte |-> "ttfb"]

StartOf(phase) == IF phase = "ttfb" THEN "wrote" ELSE phase

Fresh0 == [leg |-> FALSE, marks |-> {}, first |-> FALSE, done |-> FALSE]

OpenLeg == [closed |-> FALSE, outcome |-> "ok", phases |-> <<>>]

HttpIdle ==
  /\ http = "idle"
  /\ hops = 0
  /\ dial = <<>>
  /\ stray = {}
  /\ legs = <<>>
  /\ recorder = Fresh0
  /\ crossed = FALSE

-------------------------------------------------------------------------------
(* The recorder: what a callback makes of <<legs, recorder>>.              *)

(* ensureLeg: once done a callback works on a throwaway span. *)
EnsureLeg(tree, rec) ==
  IF rec.leg \/ rec.done THEN [tree |-> tree, rec |-> rec]
  ELSE [tree |-> Append(tree, OpenLeg),
        rec  |-> [rec EXCEPT !.leg = TRUE, !.marks = {}, !.first = FALSE]]

(* A phase added to the open leg: with its start, or from a mark of zero.  *)
WithPhase(tree, phase, started) ==
  LET leg == tree[Len(tree)] IN
  [tree EXCEPT ![Len(tree)] =
     [leg EXCEPT !.phases = Append(@, [name |-> phase, started |-> started])]]

(* One callback, under the recorder's mutex.                               *)
Callback(c) ==
  LET opened == EnsureLeg(legs, recorder)
      marks  == opened.rec.marks
  IN /\ legs' = IF c \in DOMAIN PhaseOf /\ ~ opened.rec.done
                THEN WithPhase(opened.tree, PhaseOf[c], StartOf(PhaseOf[c]) \in marks)
                ELSE opened.tree
     /\ recorder' = [opened.rec EXCEPT
                       !.marks = IF c \in DOMAIN MarkOf THEN @ \cup {MarkOf[c]} ELSE @,
                       !.first = @ \/ c = "FirstByte"]

(* Mutant of CloseLeg: the recorder goes on with the closed leg. *)
CloseLegKeeps(outcome) ==
  /\ legs' = IF ~ recorder.leg THEN legs
             ELSE [legs EXCEPT ![Len(legs)].closed = TRUE, ![Len(legs)].outcome = outcome]
  /\ UNCHANGED recorder

CloseLeg(outcome) ==
  /\ legs' = IF ~ recorder.leg THEN legs
             ELSE [legs EXCEPT ![Len(legs)].closed = TRUE, ![Len(legs)].outcome = outcome]
  /\ recorder' = [recorder EXCEPT !.leg = FALSE]

-------------------------------------------------------------------------------
(* Do, hop by hop. *)

(* A call has its own recorder; a dial an earlier call left behind reports *)
(* to the recorder of that call, which is done: it is forgotten here.      *)
HttpBegin ==
  /\ http \in {"idle", "ok", "failed"}
  /\ http' = "getconn"
  /\ hops' = 0
  /\ dial' = <<>>
  /\ stray' = {}
  /\ legs' = <<>>
  /\ recorder' = Fresh0
  /\ crossed' = FALSE

(* GetConn: the transport has an idle connection or starts a dial.         *)
GetConn ==
  /\ http = "getconn"
  /\ Callback("GetConn")
  /\ \/ http' = "write" /\ dial' = <<>>
     \/ http' = "dialing" /\ dial' = DialCalls
  /\ UNCHANGED <<hops, stray, crossed>>

DialCallback ==
  /\ http = "dialing"
  /\ dial # <<>>
  /\ Callback(Head(dial))
  /\ dial' = Tail(dial)
  /\ UNCHANGED <<http, hops, stray, crossed>>

Dialed ==
  /\ http = "dialing"
  /\ dial = <<>>
  /\ http' = "write"
  /\ UNCHANGED <<hops, dial, stray, legs, recorder, crossed>>

(* A connection comes free while the dial goes on without the hop. *)
TakeIdle ==
  /\ http = "dialing"
  /\ dial # <<>> /\ Cardinality(stray) < MaxDials
  /\ http' = "write"
  /\ stray' = stray \cup {[leg |-> Len(legs), calls |-> dial]}
  /\ dial' = <<>>
  /\ UNCHANGED <<hops, legs, recorder, crossed>>

StrayCallback ==
  \E d \in stray :
    /\ Callback(Head(d.calls))
    /\ stray' = (stray \ {d}) \cup
                 (IF Len(d.calls) = 1 THEN {} ELSE {[d EXCEPT !.calls = Tail(@)]})
    /\ crossed' = (crossed \/ (~ recorder.done /\ (Len(legs') # d.leg \/ ~ recorder.leg)))
    /\ UNCHANGED <<http, hops, dial>>

Write ==
  /\ http = "write"
  /\ Callback("WroteRequest")
  /\ http' = "answer"
  /\ UNCHANGED <<hops, dial, stray, crossed>>

Answer ==
  /\ http = "answer"
  /\ Callback("FirstByte")
  /\ http' \in {"body", "redirect"}
  /\ UNCHANGED <<hops, dial, stray, crossed>>

(* CheckRedirect closes the leg of the hop, and gives up at the limit.     *)
Redirect ==
  /\ http = "redirect"
  /\ CloseLeg("ok")
  /\ http' = IF hops >= MaxRedirects THEN "broken" ELSE "getconn"
  /\ hops' = IF hops >= MaxRedirects THEN hops ELSE hops + 1
  /\ UNCHANGED <<dial, stray, crossed>>

(* A transport error, the call's timeout or its context.  The dial of the  *)
(* hop goes on.                                                            *)
Break ==
  /\ http \in {"getconn", "dialing", "write", "answer", "body"}
  /\ dial = <<>> \/ Cardinality(stray) < MaxDials
  /\ http' = "broken"
  /\ stray' = IF dial = <<>> THEN stray
              ELSE stray \cup {[leg |-> Len(legs), calls |-> dial]}
  /\ dial' = <<>>
  /\ UNCHANGED <<hops, legs, recorder, crossed>>

(* endTransfer, when the body has been read. *)
EndTransfer ==
  /\ http = "body"
  /\ http' = "closing"
  /\ legs' = IF recorder.leg /\ recorder.first THEN WithPhase(legs, "transfer", TRUE) ELSE legs
  /\ recorder' = [recorder EXCEPT !.first = @ /\ ~ recorder.leg]
  /\ UNCHANGED <<hops, dial, stray, crossed>>

CloseLast ==
  /\ http \in {"closing", "broken"}
  /\ CloseLeg(IF http = "broken" THEN "failed" ELSE "ok")
  /\ http' = IF http = "broken" THEN "failing" ELSE "finishing"
  /\ UNCHANGED <<hops, dial, stray, crossed>>

(* Mutant of Finish: the recorder stays live when Do returns. *)
FinishLive ==
  /\ http \in {"failing", "finishing"}
  /\ http' = IF http = "failing" THEN "failed" ELSE "ok"
  /\ UNCHANGED <<hops, dial, stray, legs, recorder, crossed>>

(* finish, as Do returns. *)
Finish ==
  /\ http \in {"failing", "finishing"}
  /\ http' = IF http = "failing" THEN "failed" ELSE "ok"
  /\ recorder' = [recorder EXCEPT !.done = TRUE]
  /\ UNCHANGED <<hops, dial, stray, legs, crossed>>

HttpReturned == http \in {"ok", "failed"}

(* What ends by itself: a hop within the client's timeout, a dial by its   *)
(* own.                                                                    *)
DoStep ==
  \/ GetConn \/ DialCallback \/ Dialed \/ TakeIdle \/ Write \/ Answer
  \/ Redirect \/ Break \/ EndTransfer \/ CloseLast \/ Finish

HttpNext == HttpBegin \/ DoStep \/ StrayCallback

HttpSpec == HttpIdle /\ [][HttpNext]_httpVars

-------------------------------------------------------------------------------

(* Once Do has returned the pool folds, captures and stores the span tree  *)
(* from other goroutines: no callback touches it again (finish).           *)
Frozen == [][HttpReturned /\ HttpReturned' => legs' = legs]_httpVars

Closed == {i \in DOMAIN legs : legs[i].closed}

(* The legs tell the hops: a call that succeeded has a leg for every hop,  *)
(* closed and well, whatever the dials do; and unless a dial left behind   *)
(* crossed into another leg, a call that returned has no other, every      *)
(* phase has its start, and a leg that failed is the one the call broke in *)
(* (closeLeg, CheckRedirect, ensureLeg).                                   *)
LegsTellTheHops ==
  HttpReturned =>
    /\ http = "ok" =>
         Closed = 1 .. hops + 1 /\ \A i \in Closed : legs[i].outcome = "ok"
    /\ ~ crossed =>
         /\ Closed = DOMAIN legs /\ Len(legs) \in hops .. hops + 1
         /\ \A i \in DOMAIN legs :
              /\ legs[i].outcome = "failed" => i = Len(legs) /\ http = "failed"
              /\ \A p \in Range(legs[i].phases) : p.started
              /\ legs[i].outcome = "ok" =>
                   \E p \in Range(legs[i].phases) : p.name = "ttfb"

-------------------------------------------------------------------------------
(* What makes LegsTellTheHops inductive. *)

Call == {"DNSStart", "DNSDone", "ConnectStart", "ConnectDone", "TLSStart", "TLSDone"}

Phase == [name : {"dns", "connect", "tls", "ttfb", "transfer"}, started : BOOLEAN]

HttpTypeOK ==
  /\ http \in {"idle", "getconn", "dialing", "write", "answer", "body", "redirect",
               "closing", "broken", "finishing", "failing", "ok", "failed"}
  /\ hops \in Nat
  /\ dial \in Seq(Call)
  /\ stray \subseteq [leg : Nat, calls : Seq(Call) \ {<<>>}]
  /\ legs \in Seq([closed : BOOLEAN, outcome : {"ok", "failed"}, phases : Seq(Phase)])
  /\ recorder \in [leg : BOOLEAN, marks : SUBSET Mark, first : BOOLEAN, done : BOOLEAN]
  /\ crossed \in BOOLEAN

(* From GetConn on a hop has its leg open. *)
InHop == http \in {"dialing", "write", "answer", "body", "redirect", "closing"}

OpenLegs == IF recorder.leg THEN 1 ELSE 0

(* A leg was closed for every hop that is over, and one at most is open:   *)
(* the last.                                                               *)
LegsInOrder ==
  /\ recorder.leg => legs # <<>>
  /\ \A i \in DOMAIN legs : legs[i].closed <=> i < Len(legs) \/ ~ recorder.leg
  /\ InHop => recorder.leg
  /\ http \in {"idle", "getconn"} \/ InHop => Len(legs) = hops + OpenLegs
  /\ http \in {"finishing", "ok"} => Len(legs) = hops + 1 + OpenLegs
  /\ recorder.done <=> HttpReturned

Answered(leg) == \E p \in Range(leg.phases) : p.name = "ttfb"

(* A leg that is closed and well was answered. *)
LegsAnswered ==
  /\ \A i \in DOMAIN legs :
       /\ legs[i].outcome = "failed" => http \in {"failing", "failed"}
       /\ legs[i].closed /\ legs[i].outcome = "ok" => Answered(legs[i])
  /\ http \in {"body", "redirect", "closing"} => Answered(legs[Len(legs)])
  /\ http = "answer" => "wrote" \in recorder.marks

(* A phase's end comes next to its start among the calls of a dial. *)
Paired(calls) ==
  \A i \in 1 .. Len(calls) - 1 :
    calls[i + 1] \in DOMAIN PhaseOf =>
      calls[i] \in DOMAIN MarkOf /\ MarkOf[calls[i]] = StartOf(PhaseOf[calls[i + 1]])

Begun(calls) ==
  calls # <<>> /\ Head(calls) \in DOMAIN PhaseOf => StartOf(PhaseOf[Head(calls)]) \in recorder.marks

DialsInOrder ==
  /\ http # "dialing" => dial = <<>>
  /\ Paired(dial)
  /\ \A d \in stray : Paired(d.calls) /\ d.leg <= Len(legs)

(* As long as no dial crossed into another leg, what a dial has begun is   *)
(* marked in the leg it reports to.                                        *)
Uncrossed ==
  ~ crossed =>
    /\ http \in {"failing", "finishing", "ok", "failed"} => ~ recorder.leg
    /\ http \in {"broken", "failing", "failed"} => Len(legs) \in hops .. hops + 1
    /\ \A i \in DOMAIN legs :
         /\ legs[i].outcome = "failed" => i = Len(legs)
         /\ \A p \in Range(legs[i].phases) : p.started
    /\ Begun(dial)
    /\ \A d \in stray : recorder.leg /\ d.leg = Len(legs) => Begun(d.calls)

HttpInv == HttpTypeOK /\ LegsInOrder /\ LegsAnswered /\ DialsInOrder /\ Uncrossed
===============================================================================
