------------------------------- MODULE MCStages -------------------------------
(***************************************************************************)
(* The sequential stages around a run, side by side: what happens to a     *)
(* flow before anything is sent (its files are loaded, read and validated, *)
(* its references and its target checked, its profile planned) and to a    *)
(* Result after the pool has returned.  No stage shares state with         *)
(* another; a behaviour looks at one of them and the others stand still.   *)
(***************************************************************************)
EXTENDS MCPlanner, MCUseLoad, FlowFile, References, TargetGate, TraceTiers, Verdict, PoolTurns

CONSTANT Looks   \* the stages this run looks at

VARIABLE look   \* the stage this behaviour looks at

AllLooks == {"pool", "plan", "load", "file", "refs", "gate", "tree", "result"}

-------------------------------------------------------------------------------
(* Flow files: a good step of each kind, one deviation from it at a time.  *)

Keyed(keys) == [k \in keys |-> "good"]

BaseSpecs ==
  [call |-> {Keyed({"value"})}, wait |-> {Keyed({"value"})}, use |-> {Keyed({"value"})},
   graphql |-> {Keyed({"url", "query"})},
   ws   |-> {Keyed({"url"}), Keyed({"session", "send"}), Keyed({"session", "receive"})},
   grpc |-> {Keyed({"proto", "method", "url"})},
   poll |-> {Keyed({"call", "until", "interval", "timeout"})}]

Deviations(f, keys) ==
  {f} \cup {[k \in DOMAIN f \ {d} |-> f[k]] : d \in DOMAIN f}
      \cup {[f EXCEPT ![k] = v] : k \in DOMAIN f, v \in {"bad", "malformed"}}
      \cup {(k :> "good") @@ f : k \in (keys \cup {"unheard_of"}) \ DOMAIN f}

Also == {"extract", "assert", "throttle", "on_failure", "headers", "query", "body", "with", "unheard_of"}

Retries ==
  {Absent} \cup Deviations(Keyed({"on_status", "backoff", "max_attempts"}), RetryKeys)

Scheme(s, f) == ("scheme" :> s) @@ f

Auths ==
  {Absent, Keyed({"token"})}
  \cup {Scheme(s, f) : s \in {"hmac"}, f \in Deviations(Keyed({"secret"}), AuthKeys)}
  \cup {Scheme(s, f) : s \in {"bearer", "unheard_of"}, f \in Deviations(Keyed({"token"}), {"in", "scopes"})}
  \cup {Scheme("none", <<>>), Scheme("none", Keyed({"token"}))}

SomeAuths == {Absent, Scheme("none", <<>>), Scheme("basic", Keyed({"username", "password"}))}

Bearer == Scheme("bearer", Keyed({"token"}))

Plain(kind, spec) ==
  [kinds |-> {kind}, spec |-> spec, also |-> {}, checks |-> {}, bad |-> {},
   retry |-> Absent, auth |-> Absent]

Bases == {Plain(kind, spec) : kind \in {"call"}, spec \in BaseSpecs["call"]}
         \cup UNION {{Plain(kind, spec) : spec \in BaseSpecs[kind]} : kind \in DOMAIN SpecKeys}

Deviating ==
  UNION {{[st EXCEPT !.spec = f, !.also = also, !.auth = auth] :
            f \in Deviations(st.spec, SpecKeys[Kind(st)]),
            also \in {{}} \cup {{k} : k \in Also}, auth \in SomeAuths} : st \in Bases}

Crowded ==
  {[st EXCEPT !.also = also, !.checks = checks] :
     st \in Bases, also \in {{k, l} : k, l \in Also}, checks \in {{"status"}, {"body"}, {"malformed"}}}

GoodProfile == [holds |-> 1, mode |-> "good", negative |-> FALSE, keys |-> {"mode", "vus"}]

Profiled ==
  [holds : 0 .. 2, mode : {"good", "bad"}, negative : BOOLEAN,
   keys : {{"mode", "vus"}, {"mode", "ramp", "thresholds", "arrival_cap"}, {"mode", "iterations"},
           {"mode", "unheard_of"}}]

Written(steps, auths, profiles) == [step : steps, auth : auths, profile : profiles]

SomeFlowFiles ==
  Written(Deviating, {Absent, Bearer}, {GoodProfile})
  \cup Written(Crowded, {Absent}, {GoodProfile})
  \cup Written({[st EXCEPT !.retry = r] : st \in Bases, r \in Retries}, {Absent}, {GoodProfile})
  \cup Written({[st EXCEPT !.auth = a] : st \in Bases, a \in Auths}, SomeAuths, {GoodProfile})
  \cup Written(Bases, Auths, {GoodProfile})
  \cup Written({[st EXCEPT !.bad = b, !.kinds = @ \cup k] : st \in Bases, b \in {{}, {"id"}}, k \in {{}, {"wait"}}},
               {Absent}, Profiled)

-------------------------------------------------------------------------------
(* Flows with references: a request, a use of another flow, a request.     *)

Asks(id, refs, extract, assert) ==
  [id |-> id, refs |-> refs, use |-> NoFlow, with |-> <<>>, extract |-> extract, assert |-> assert]

Uses(id, used, with) ==
  [id |-> id, refs |-> {}, use |-> used, with |-> with, extract |-> <<>>, assert |-> <<>>]

UsedFlows ==
  {[data |-> "", inputs |-> inputs, steps |-> <<Asks("s", refs, extract, assert)>>, outputs |-> outputs] :
     inputs \in {<<>>, "k" :> Required, "k" :> {<<"env", "URL">>}},
     refs \in {{}, {<<"inputs", "k">>}, {<<"token", "">>}},
     extract \in {<<>>, <<"token">>},
     assert \in {<<>>, <<"token">>},
     outputs \in {<<>>, <<"token">>}}
  \cup {[data |-> "users", inputs |-> <<>>, steps |-> <<Asks("s", {}, <<>>, <<>>)>>, outputs |-> <<>>],
        [data |-> "", inputs |-> "k" :> {<<"users", "name">>}, steps |-> <<Asks("s", {}, <<>>, <<>>)>>, outputs |-> <<>>],
        [data |-> "", inputs |-> <<>>, steps |-> <<Asks("s", {<<"users", "name">>}, <<"token">>, <<>>)>>, outputs |-> <<"token">>]}

Nested ==
  {[data |-> "", inputs |-> "k" :> Required,
    steps |-> <<Uses("sub", u, "k" :> {<<"inputs", "k">>}), Asks("s", {<<"sub", "token">>}, <<"token">>, <<>>)>>,
    outputs |-> <<"token">>] : u \in {v \in UsedFlows : v.outputs # <<>>}}

SomeFlows ==
  UsedFlows \cup
  {[data |-> data, inputs |-> <<>>, outputs |-> <<>>,
    steps |-> first \o <<Uses("sub", used, with)>> \o <<Asks("last", refs, <<>>, <<>>)>>] :
      data \in {"", "users"},
      first \in {<<>>, <<Asks("login", {}, <<"token">>, <<>>)>>, <<Asks("sub", {}, <<"inputs">>, <<>>)>>},
      used \in UsedFlows \cup Nested,
      with \in {<<>>, "k" :> {<<"token", "">>}, "k" :> {<<"users", "name">>}, "x" :> {}},
      refs \in {{}, {<<"sub", "token">>, <<"env", "URL">>}, {<<"sub", "other">>}, {<<"token", "">>},
                {<<"token", "x">>}, {<<"sub", "">>}}}

-------------------------------------------------------------------------------
(* URLs and targets. *)

Absolute(scheme, host) ==
  [form |-> "absolute", scheme |-> scheme, host |-> host, dynamicScheme |-> FALSE, dynamicHost |-> FALSE]

SomeURLs ==
  {Absolute(s, h) : s \in {"http", "HTTP", "https", "ws", "grpcs", "gopher"}, h \in {"api", "API", "other"}}
  \cup {[Absolute("http", "api") EXCEPT !.form = f] : f \in {"relative", "network"}}
  \cup {[Absolute("http", h) EXCEPT !.dynamicHost = d, !.dynamicScheme = e] :
          h \in {"api", "other"}, d, e \in BOOLEAN}

SomeBases ==
  {<<Absolute("http", "api")>>, <<Absolute("wss", "API")>>,
   <<Absolute("https", "api"), Absolute("ws", "other")>>, <<Absolute("gopher", "api")>>}

-------------------------------------------------------------------------------
(* Results, gates and an agent's series. *)

Sampled(at, service, what) ==
  [at |-> at, wait |-> IF at > 1 THEN 1 ELSE 0, service |-> service,
   outcome |-> IF what = "failed" THEN "failed" ELSE "ok", throttled |-> what = "throttled"]

Sequences(S, lengths) == UNION {[1 .. n -> S] : n \in lengths}

SomeResults ==
  LET one == {Sampled(at, service, what) :
                at \in {0, 1, 13}, service \in {1, 2}, what \in {"ok", "failed", "throttled"}}
      many == {Sampled(0, 1, "ok"), Sampled(1, 2, "failed"), Sampled(1, 3, "ok"), Sampled(3, 1, "throttled")}
  IN {[duration |-> 2, samples |-> samples, metrics |-> <<[at |-> 0, vus |-> 0], [at |-> 1, vus |-> 2]>>] :
        samples \in Sequences(one, 0 .. 2) \cup Sequences(many, 3 .. 4)}

WidthLadder == <<1, 2, 4>>

Threshold(kind, agg, op, limit) == [kind |-> kind, agg |-> agg, pct |-> 90, op |-> op, limit |-> limit]

Comparisons == {"<", "<=", ">", ">="}

SomeGates ==
  {{}, {Threshold("latency", "p", "<", 2), Threshold("error_rate", "", "<=", 50)},
   {Threshold("latency", "max", ">=", 2), Threshold("throttle_rate", "", "<", 20)},
   {Threshold("latency", "avg", "<=", 1), Threshold("latency", "min", ">", 1), Threshold("throttle_rate", "", "<", 50)}}
  \cup {{Threshold("latency", agg, op, 2) : agg \in {"p", "avg", "max", "min"}, op \in Comparisons}
          \cup {Threshold(rate, "", op, 50) : rate \in {"error_rate", "throttle_rate"}, op \in Comparisons}}

Polled(cpus, mems) == [i \in DOMAIN cpus |-> [at |-> i - 1, cpu |-> cpus[i], mem |-> mems[i]]]

SomeSeries ==
  {<<>>, Polled(<<0, 0, 0>>, <<9, 9, 90>>), Polled(<<0, 0, 0, 0>>, <<9, 9, 9, 9>>),
   Polled(<<0, 0, 0, 1>>, <<9, 9, 9, 9>>), Polled(<<0, 0, 0, 0>>, <<9, 9, 60, 90>>)}

-------------------------------------------------------------------------------
(* Span trees. *)

Sp(name, kind, duration, outcome, status, reason) ==
  [name |-> name, kind |-> kind, duration |-> duration, outcome |-> outcome,
   status |-> status, reason |-> reason]

Fine(name, kind, duration) == Sp(name, kind, duration, "passed", 0, "")
Tree(root, s1, leaf)       == (<<>> :> root) @@ (<<1>> :> s1) @@ (<<1, 1>> :> leaf)

SomeTrees ==
  LET a  == Fine("a", "flow", 5)
      ok == Tree(a, Fine("s1", "step", 3), Fine("get", "http", 4)) @@ (<<2>> :> Fine("s2", "step", 1))
      down == Sp("a", "flow", 5, "failed", 0, "")
  IN {ok,
      ok @@ (<<3>> :> Fine("s3", "step", 0)),
      [ok EXCEPT ![<<>>] = down, ![<<2>>] = Sp("s2", "step", 1, "failed", 200, "")]
        @@ (<<2, 1>> :> Sp("status", "assert", 0, "failed", 0, "")),
      Tree(down, Sp("s1", "step", 3, "failed", 500, ""), Sp("get", "http", 2, "failed", 500, ""))
        @@ (<<1, 2>> :> Sp("get", "http", 1, "failed", 0, "timeout")),
      Tree(a, Sp("s1", "step", 3, "throttled", 429, ""), Sp("get", "http", 2, "throttled", 429, "")),
      [ok EXCEPT ![<<>>] = Fine("b", "flow", 9)]}

-------------------------------------------------------------------------------

IdleProfile == [mode |-> "load", vus |-> 0, ramp |-> Unset, hold |-> 0, cap |-> Unset]

StagesInit ==
  /\ look \in Looks
  /\ IF look = "pool" THEN TurnsInit
     ELSE order = "" /\ cursor = 0 /\ drawn = <<>>
  /\ IF look = "plan" THEN Init
     ELSE /\ phase = "planning" /\ profile = IdleProfile /\ ceiling = [vus |-> 0, rps |-> 0]
          /\ sched = Refused /\ elapsed = 0 /\ spawned = 0
  /\ IF look = "load" THEN LoadInit
     ELSE uses = <<>> /\ stack = <<>> /\ done = <<>> /\ verdict = "loading"
  /\ IF look = "file" THEN FileInit
     ELSE written = Absent /\ step = Absent /\ accepted = "reading"
  /\ IF look = "refs" THEN RefInit
     ELSE flow = NoFlow /\ outside = Absent /\ frames = <<>> /\ failed = {}
  /\ IF look = "gate" THEN GateInit
     ELSE base = <<>> /\ banned = {} /\ gateMode = "" /\ urls = <<>> /\ gate = "unchecked" /\ sent = {}
  /\ IF look = "tree" THEN TiersInit
     ELSE recorded = <<>> /\ keptTrees = {} /\ folds = [f \in Folder |-> <<>>] /\ runFold = <<>>
  /\ IF look = "result" THEN VerdictInit
     ELSE /\ stage = "idle" /\ mode = "" /\ res = Absent /\ gates = {} /\ broken = {}
          /\ trends = {} /\ series = <<>> /\ knee = NoKnee

StagesNext ==
  /\ UNCHANGED look
  /\ \/ look = "plan" /\ Next /\ UNCHANGED <<turnVars, useVars, fileVars, refVars, gateVars, tierVars, verdictVars>>
     \/ look = "load" /\ LoadNext /\ UNCHANGED <<turnVars, vars, fileVars, refVars, gateVars, tierVars, verdictVars>>
     \/ look = "file" /\ FileNext /\ UNCHANGED <<turnVars, vars, useVars, refVars, gateVars, tierVars, verdictVars>>
     \/ look = "refs" /\ RefNext /\ UNCHANGED <<turnVars, vars, useVars, fileVars, gateVars, tierVars, verdictVars>>
     \/ look = "gate" /\ GateNext /\ UNCHANGED <<turnVars, vars, useVars, fileVars, refVars, tierVars, verdictVars>>
     \/ look = "tree" /\ TiersNext /\ UNCHANGED <<turnVars, vars, useVars, fileVars, refVars, gateVars, verdictVars>>
     \/ look = "result" /\ VerdictNext /\ UNCHANGED <<turnVars, vars, useVars, fileVars, refVars, gateVars, tierVars>>
     \/ look = "pool" /\ TurnsNext /\ UNCHANGED <<vars, useVars, fileVars, refVars, gateVars, tierVars, verdictVars>>

stagesVars ==
  <<look, turnVars, vars, useVars, fileVars, refVars, gateVars, tierVars, verdictVars>>

StagesSpec == StagesInit /\ [][StagesNext]_stagesVars
===============================================================================
