------------------------------- MODULE MCCalls -------------------------------
(***************************************************************************)
(* An instance of Calls and HttpCall for TLC.  The two share no state: a   *)
(* behaviour is either one of the calls of the virtual users, or one of    *)
(* the exchange of a single call.                                          *)
(***************************************************************************)
EXTENDS Calls, HttpCall

CONSTANTS u1, u2, k1, k2

VARIABLE look   \* which of the three a behaviour is of

mcVars == <<vars, httpVars, look>>

Cookies == <<Pair("theme", "dark"), Pair("session", "own")>>

TokenSteps ==
  {[scheme |-> "oauth2", key |-> k, body |-> FALSE, query |-> <<>>, headers |-> <<>>] :
     k \in {k1, k2}}

MCCallSpec ==
  TokenSteps \cup
  {[scheme |-> "cookie", key |-> k1, body |-> TRUE, query |-> <<>>,
    headers |-> spelling :> Cookies @@ "User-Agent" :> <<>>] : spelling \in {"Cookie", "cookie"}} \cup
  {[scheme |-> "hmac", key |-> k1, body |-> TRUE, query |-> "page" :> "two",
    headers |-> "Content-Type" :> <<>>]} \cup
  {[scheme |-> sch, key |-> k1, body |-> FALSE, query |-> "key" :> "own",
    headers |-> spelling :> <<Pair("Basic", "own")>>] :
     sch \in {"none", "bearer", "basic", "api_key_header", "api_key_query"},
     spelling \in {"Authorization", "authorization"}}

Init ==
  /\ CallsInit /\ HttpIdle
  /\ look \in {"tokens", "requests", "exchange"}

CallsLook ==
  /\ CASE look = "tokens"   -> \A u \in User : call'[u] = Between \/ call'[u].spec \in TokenSteps
       [] look = "requests" -> \A u \in User \ {u1} : call'[u] = Between
       [] OTHER             -> FALSE
  /\ UNCHANGED <<httpVars, look>>

Next ==
  \/ CallsNext /\ CallsLook
  \/ look = "exchange" /\ HttpNext /\ UNCHANGED <<vars, look>>

(* The Go scheduler runs a goroutine that can, a token request ends within *)
(* its timeout, and a mutex is handed over to whoever waits long enough.   *)
FairSpec ==
  /\ Init /\ [][Next]_mcVars
  /\ \A u \in User : SF_mcVars((CallStep(u) \/ TokenWork(u)) /\ CallsLook)

(* Every call of token returns: a user that queues on an endpoint is let   *)
(* in, whatever becomes of the grants before its own.                      *)
TokensReturn == \A u \in User : call[u].at = "token" ~> call[u].at # "token"
===============================================================================
