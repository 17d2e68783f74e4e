---------------------------- MODULE MCFlowCallers ----------------------------
(***************************************************************************)
(* Instances of FlowCallers for TLC: small flows that meet in every        *)
(* combination of a used flow, a retry, a session and an on_failure.       *)
(***************************************************************************)
EXTENDS FlowCallers

Plain ==
  [id |-> "a", kind |-> "call", onFailure |-> "unset", asError |-> "unset",
   attempts |-> 1, onStatus |-> {}, pushback |-> FALSE, checks |-> 1,
   templated |-> FALSE, allowed |-> TRUE, session |-> "s", opens |-> FALSE,
   sends |-> FALSE, receives |-> FALSE, uses |-> "none"]

Ws(id)  == [Plain EXCEPT !.id = id, !.kind = "ws"]
Use(id, f) == [Plain EXCEPT !.id = id, !.kind = "use", !.uses = f]

Names == {"checkout", "login", "pay", "feed", "audit", "deep", "stray", "twice"}

Flow == [f \in Names |->
  CASE f = "checkout" ->   \* a used flow between two calls
         <<Use("login", "login"),
           [Plain EXCEPT !.id = "order", !.onFailure = "record", !.checks = 2],
           [Ws("feed") EXCEPT !.opens = TRUE, !.templated = TRUE],
           [Plain EXCEPT !.id = "pay", !.kind = "grpc", !.templated = TRUE]>>
    [] f = "login" ->      \* throttles that count, and a kill switch
         <<[Plain EXCEPT !.id = "get", !.asError = "no", !.attempts = 3,
                         !.onStatus = {"busy", "throttle"}, !.pushback = TRUE],
           [Plain EXCEPT !.id = "post", !.onFailure = "abort_run"]>>
    [] f = "feed" ->       \* sessions in a flow and in the one it uses
         <<[Ws("open") EXCEPT !.opens = TRUE, !.sends = TRUE, !.onFailure = "record"],
           [Use("pay", "pay") EXCEPT !.onFailure = "record", !.templated = TRUE],
           [Ws("talk") EXCEPT !.sends = TRUE, !.receives = TRUE, !.templated = TRUE,
                              !.asError = "yes", !.checks = 2, !.onFailure = "record"],
           [Ws("listen") EXCEPT !.receives = TRUE]>>
    [] f = "pay" ->        \* used: a session of the same name, and a retry
         <<[Ws("open") EXCEPT !.opens = TRUE, !.receives = TRUE, !.checks = 0],
           [Plain EXCEPT !.id = "call", !.attempts = 2, !.onStatus = {"busy"},
                         !.templated = TRUE]>>
    [] f = "audit" ->      \* refusals and steps that cannot run
         <<[Plain EXCEPT !.id = "gone", !.allowed = FALSE, !.onFailure = "record"],
           [Ws("shut") EXCEPT !.opens = TRUE, !.allowed = FALSE, !.onFailure = "record"],
           [Ws("use") EXCEPT !.sends = TRUE, !.onFailure = "record"],
           [Plain EXCEPT !.id = "wait", !.kind = "wait"],
           [Plain EXCEPT !.id = "poll", !.kind = "poll"]>>
    [] f = "deep" ->       \* a used flow of a used flow, with the use step's kill switch
         <<[Use("outer", "checkout") EXCEPT !.onFailure = "abort_run"],
           [Plain EXCEPT !.id = "last"]>>
    [] f = "stray" ->      \* not valid: a session nothing opens
         <<Use("pay", "pay"), [Ws("talk") EXCEPT !.sends = TRUE]>>
    [] f = "twice" ->      \* not valid: a session opened twice
         <<[Ws("one") EXCEPT !.opens = TRUE], [Ws("two") EXCEPT !.opens = TRUE]>>]

Flows    == {"checkout", "feed", "audit", "deep", "stray", "twice"}
Families == {"integration", "load"}
Sessions1 == {"s"}

===============================================================================
