-------------------------------- MODULE Calls --------------------------------
(***************************************************************************)
(* The call steps of the virtual users of a run, attempt by attempt: the   *)
(* request BuildRequest makes of a step (internal/adapters/http.go), the   *)
(* credentials auth.Provider.Apply puts on it before every attempt         *)
(* (internal/auth/auth.go), and the request newHTTPRequest makes of that   *)
(* for the transport.  The token of an oauth2 step comes from TokenCache;  *)
(* the exchange itself is one step here, its inside is HttpCall.           *)
(*                                                                         *)
(* The value of a header is the sequence of the pairs it carries, the      *)
(* empty sequence being the empty value.                                   *)
(***************************************************************************)
EXTENDS TokenCache, Sequences, SequencesExt, Functions

CONSTANTS
  CallSpec,      \* the call steps a flow may have
  MaxAttempts    \* bound on the attempts of a step

(* The ways a flow may spell a header: the map of a request is keyed as    *)
(* authored, the names on the wire are not case-sensitive.                 *)
Header ==
  {"Authorization", "authorization", "Cookie", "cookie", "Content-Type", "User-Agent",
   "X-Key", "X-Signature", "X-Timestamp"}

Canonical ==
  [h \in Header |-> CASE h = "authorization" -> "Authorization"
                     [] h = "cookie"        -> "Cookie"
                     [] OTHER               -> h]

Schemes == {"none", "bearer", "basic", "api_key_header", "api_key_query", "cookie", "oauth2", "hmac"}

IsSequence(x) == x \in Seq(Range(x))

ASSUME CallsAssumption ==
  /\ CallSpec # {}
  /\ \A spec \in CallSpec :
       /\ spec.key \in Key /\ spec.scheme \in Schemes
       /\ DOMAIN spec.headers \subseteq Header
       /\ \A h \in DOMAIN spec.headers : IsSequence(spec.headers[h])
  /\ MaxAttempts \in Nat \ {0}

VARIABLE call   \* per user: its step, its request, what its last attempt sent

vars == <<tokenVars, call>>

Declares(headers, name) == \E h \in DOMAIN headers : Canonical[h] = name

Pair(n, v) == [name |-> n, value |-> v]

With(f, x, v) == [y \in DOMAIN f \cup {x} |-> IF y = x THEN v ELSE f[y]]

(* BuildRequest: a body is JSON, and says so unless the step declares a    *)
(* type, an empty one included.                                            *)
BuildRequest(spec) ==
  [headers |-> IF spec.body /\ ~ Declares(spec.headers, "Content-Type")
               THEN With(spec.headers, "Content-Type", <<Pair("type", "json")>>)
               ELSE spec.headers,
   query   |-> spec.query,
   body    |-> spec.body]

(* The pairs that have another name. *)
Others(pairs, n) ==
  LET others[i \in 0 .. Len(pairs)] ==
        IF i = 0 THEN <<>>
        ELSE others[i - 1] \o (IF pairs[i].name = n THEN <<>> ELSE <<pairs[i]>>)
  IN others[Len(pairs)]

(* AddCookie: the other pairs stay, one of the same name goes. *)
AddCookie(headers, n, v) ==
  LET had == IF "Cookie" \in DOMAIN headers THEN headers["Cookie"] ELSE <<>> IN
  With(headers, "Cookie", Append(Others(had, n), Pair(n, v)))

(* What a signature covers: the URL as it will be sent, the body, the time. *)
Signature(req, at) == Pair("hmac", [query |-> req.query, body |-> req.body, at |-> at])

Signed(req, at) ==
  With(With(req.headers, "X-Signature", <<Signature(req, at)>>), "X-Timestamp", <<Pair("at", at)>>)

(* Mutant of Apply: a request that was signed keeps its signature. *)
ApplyOnce(scheme, req, token, at) ==
  IF scheme = "hmac" /\ "X-Signature" \in DOMAIN req.headers THEN req
  ELSE IF scheme = "hmac" THEN [req EXCEPT !.headers = Signed(req, at)]
  ELSE IF scheme = "cookie" THEN [req EXCEPT !.headers = AddCookie(@, "session", "cred")]
  ELSE IF scheme = "oauth2"
  THEN [req EXCEPT !.headers = With(@, "Authorization", <<Pair("Bearer", token)>>)]
  ELSE req

(* Apply, once the scheme's values are expanded. *)
Apply(scheme, req, token, at) ==
  CASE scheme = "none"   -> req
    [] scheme = "bearer" ->
         [req EXCEPT !.headers = With(@, "Authorization", <<Pair("Bearer", "cred")>>)]
    [] scheme = "basic"  ->
         [req EXCEPT !.headers = With(@, "Authorization", <<Pair("Basic", "cred")>>)]
    [] scheme = "api_key_header" ->
         [req EXCEPT !.headers = With(@, "X-Key", <<Pair("key", "cred")>>)]
    [] scheme = "api_key_query" ->
         [req EXCEPT !.query = With(@, "key", "cred")]
    [] scheme = "cookie" ->
         [req EXCEPT !.headers = AddCookie(@, "session", "cred")]
    [] scheme = "oauth2" ->
         [req EXCEPT !.headers = With(@, "Authorization", <<Pair("Bearer", token)>>)]
    [] scheme = "hmac"   ->
         [req EXCEPT !.headers = Signed(req, at)]

(* The value newHTTPRequest leaves under a name.  It takes the headers in  *)
(* the order of a Go map and the last one set stays: with a header spelled *)
(* two ways, either.  An empty value is not set, but for User-Agent, which *)
(* has a default when it is not declared.                                  *)
WireValue(headers, name, exact) ==
  LET set == {h \in DOMAIN headers :
                Canonical[h] = name /\ (headers[h] # <<>> \/ name = "User-Agent")}
  IN CASE set = {} -> IF name = "User-Agent" THEN <<Pair("agent", "flowbench")>> ELSE <<>>
       [] OTHER    -> headers[CHOOSE h \in set : (h = name) = exact \/ set = {h}]

Wires(req) ==
  {[headers |-> [n \in Range(Canonical) |-> WireValue(req.headers, n, exact)],
    query   |-> req.query,
    body    |-> req.body] : exact \in BOOLEAN}

NoWire == [headers |-> <<>>, query |-> <<>>, body |-> FALSE]

Between == [at |-> "between", spec |-> CHOOSE s \in CallSpec : TRUE,
            req |-> NoWire, attempt |-> 0, wire |-> NoWire, sentAt |-> 0]

CallsInit ==
  /\ TokenInit
  /\ call = [u \in User |-> Between]

(* The step's templates expand, or the flow is in error and ends. *)
Begin(u) ==
  /\ call[u].at = "between"
  /\ \E spec \in CallSpec :
       call' = [call EXCEPT ![u] = [at |-> "attempt", spec |-> spec, req |-> BuildRequest(spec),
                                    attempt |-> 1, wire |-> NoWire, sentAt |-> 0]]
  /\ UNCHANGED tokenVars

AskToken(u) ==
  /\ call[u].at = "attempt" /\ call[u].spec.scheme = "oauth2"
  /\ call' = [call EXCEPT ![u].at = "token"]
  /\ Ask(u, call[u].spec.key)

(* Apply and the hand-over to the transport. *)
Send(u) ==
  LET c == call[u] IN
  /\ \/ c.at = "attempt" /\ c.spec.scheme # "oauth2"
     \/ c.at = "token" /\ caller[u].at = "served"
  /\ LET req == Apply(c.spec.scheme, c.req, caller[u].token.dies, now) IN
     \E wire \in Wires(req) :
       call' = [call EXCEPT ![u].at = "sent", ![u].req = req, ![u].wire = wire,
                            ![u].sentAt = now]
  /\ UNCHANGED tokenVars

(* What token returned was for this attempt only. *)
ForgetToken(u) ==
  IF call[u].spec.scheme = "oauth2" THEN Leave(u) ELSE UNCHANGED tokenVars

(* Apply fails: the attempt ends in an error, which ends the step. *)
GiveUp(u) ==
  /\ call[u].at = "token" /\ caller[u].at = "refused"
  /\ call' = [call EXCEPT ![u] = Between]
  /\ ForgetToken(u)

(* The exchange, and the retry policy's verdict: the same request again.   *)
Again(u) ==
  /\ call[u].at = "sent"
  /\ call[u].attempt < MaxAttempts
  /\ call' = [call EXCEPT ![u].at = "attempt", ![u].attempt = @ + 1,
                          ![u].wire = NoWire, ![u].sentAt = 0]
  /\ ForgetToken(u)

EndStep(u) ==
  /\ call[u].at = "sent"
  /\ call' = [call EXCEPT ![u] = Between]
  /\ ForgetToken(u)

CallStep(u) == AskToken(u) \/ Send(u) \/ GiveUp(u) \/ EndStep(u)

TokenWork(u) == TokenStep(u) /\ UNCHANGED call

CallsNext ==
  \/ Tick /\ UNCHANGED call
  \/ \E u \in User : TokenWork(u) \/ Begin(u) \/ Again(u) \/ CallStep(u)

CallsSpec == CallsInit /\ [][CallsNext]_vars

-------------------------------------------------------------------------------

Sent(u) == call[u].at = "sent"

(* Attempt n puts on the wire what attempt 1 would have, with a credential *)
(* of its own: a retry sends no header, cookie or query pair twice and     *)
(* replays no signature (Apply's comment, AddCookie's).                    *)
AttemptsDoNotPileUp ==
  \A u \in User : Sent(u) =>
    LET c   == call[u]
        req == Apply(c.spec.scheme, BuildRequest(c.spec), caller[u].token.dies, c.sentAt)
    IN /\ c.wire \in Wires(req)
       /\ c.spec.scheme = "hmac" =>
            c.wire.headers["X-Signature"] =
              <<Pair("hmac", [query |-> c.wire.query, body |-> c.wire.body, at |-> c.sentAt])>>

(* A declared cookie rides alongside the ones the step's own headers carry *)
(* (the comment on AddCookie); with a second spelling of the header it is  *)
(* up to the map which of the two is sent.                                 *)
CookiesRideAlong ==
  \A u \in User :
    Sent(u) /\ call[u].spec.scheme = "cookie" /\ "cookie" \notin DOMAIN call[u].spec.headers =>
      LET own  == call[u].spec.headers
          sent == call[u].wire.headers["Cookie"]
      IN /\ \E i \in DOMAIN sent : sent[i] = Pair("session", "cred")
         /\ \A i, j \in DOMAIN sent :
              sent[i].name = "session" /\ sent[j].name = "session" => i = j
         /\ "Cookie" \in DOMAIN own =>
              \A p \in Range(own["Cookie"]) : p.name # "session" => p \in Range(sent)

(* The header a scheme's credentials go in. *)
Sets(scheme) ==
  CASE scheme \in {"bearer", "basic", "oauth2"} -> {"Authorization"}
    [] scheme = "api_key_header"               -> {"X-Key"}
    [] scheme = "cookie"                       -> {"Cookie"}
    [] scheme = "hmac"                         -> {"X-Signature", "X-Timestamp"}
    [] scheme \in {"none", "api_key_query"}    -> {}

(* Whatever a step declares is what goes out, and no more: an empty value  *)
(* suppresses a header, a declared one stands against the defaults; but    *)
(* for the header of its scheme, and one it spells twice.                  *)
DeclaredHeadersWin ==
  \A u \in User : Sent(u) =>
    LET own == call[u].spec.headers IN
    \A h \in DOMAIN own :
      /\ Canonical[h] \notin Sets(call[u].spec.scheme)
      /\ \A g \in DOMAIN own : Canonical[g] = Canonical[h] => g = h
      => call[u].wire.headers[Canonical[h]] = own[h]

RequestSafe == AttemptsDoNotPileUp /\ CookiesRideAlong /\ DeclaredHeadersWin

-------------------------------------------------------------------------------
(* What makes RequestSafe inductive. *)

FromTheStep(c, token, at) == Apply(c.spec.scheme, BuildRequest(c.spec), token, at)

(* Before an attempt the request is the one the step was built into, or    *)
(* what an earlier attempt made of it, at some time and with some token;   *)
(* while it is sent its token is still the caller's.                       *)
RequestInv(Times) ==
  \A u \in User :
    LET c == call[u] IN
    /\ c.at \in {"between", "attempt", "token", "sent"}
    /\ c.at \in {"between", "attempt"} => caller[u].at = "out"
    /\ c.at = "token" => c.spec.scheme = "oauth2"
    /\ c.at \in {"attempt", "token"} =>
         \/ c.req = BuildRequest(c.spec)
         \/ \E token, at \in Times : c.req = FromTheStep(c, token, at)
    /\ c.at = "sent" =>
         /\ caller[u].at = IF c.spec.scheme = "oauth2" THEN "served" ELSE "out"
         /\ c.sentAt \in Times
         /\ c.req = FromTheStep(c, caller[u].token.dies, c.sentAt)
         /\ c.wire \in Wires(c.req)
===============================================================================
