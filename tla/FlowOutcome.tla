------------------------------ MODULE FlowOutcome ------------------------------
(***************************************************************************)
(* What pool.iterate can make of a flow-run: the interface between the      *)
(* flow (FlowRun), which produces it, and the virtual users (VirtualUsers), *)
(* which take it as an input.                                               *)
(***************************************************************************)

(* iterate's outcome (a recorded failure or an error makes it "failed"),   *)
(* Iteration.Throttled and Iteration.Aborted.                              *)
FlowResult ==
  {r \in [outcome : {"ok", "throttled", "failed"},
         throttled : BOOLEAN, aborted : BOOLEAN] :
     /\ r.aborted => r.outcome = "failed"
     /\ r.outcome = "ok" => ~ r.throttled
     /\ r.outcome = "throttled" => r.throttled}

===============================================================================
