------------------------------ MODULE MCLiveRun ------------------------------
(***************************************************************************)
(* An instance of LiveRun for TLC: a run of this engine, of three          *)
(* artifacts for its seven, beside one of the Python driver, of two for    *)
(* its six.                                                                *)
(***************************************************************************)
EXTENDS LiveRun

CONSTANTS engine, driver, page1

MCArtifacts ==
  [p \in Producer |-> IF p = engine THEN <<"meta", "tiers", "agent">> ELSE <<"meta", "tiers">>]
===============================================================================
