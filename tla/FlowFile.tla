------------------------------- MODULE FlowFile -------------------------------
(***************************************************************************)
(* From the keys of a flow file to the steps the executor runs: the walker *)
(* of internal/parser/parser.go with flattenAuth, the validator of         *)
(* internal/ir/validate.go, and beside them what internal/executor and     *)
(* internal/auth read of a step.                                           *)
(*                                                                         *)
(* A value is good, bad (the validator refuses it) or malformed (the       *)
(* walker does); a mapping is a function from its keys to such values.     *)
(***************************************************************************)
EXTENDS Naturals, FiniteSets

CONSTANT FlowFiles   \* flow files somebody may write: records of auth, step and profile

VARIABLES
  written,    \* the file: auth, step, profile
  step,       \* the step as the IR has it, once parsed
  accepted    \* "reading", "parsed", "accepted" or "refused"

fileVars == <<written, step, accepted>>

Kinds == {"call", "graphql", "ws", "grpc", "wait", "poll", "use"}

(* A step is what its mapping has: kinds are those of its keys that name   *)
(* one, spec is under them, also are its other keys.                       *)
ASSUME FileAssumption ==
  \A file \in FlowFiles :
    /\ DOMAIN file.step = {"kinds", "spec", "also", "checks", "bad", "retry", "auth"}
    /\ file.step.kinds \subseteq Kinds

PollKeys == {"call", "headers", "query", "body", "until", "interval", "timeout", "max_attempts"}

(* The keys of each kind's own mapping; call, wait and use have one value. *)
SpecKeys ==
  [call    |-> {"value"}, wait |-> {"value"}, use |-> {"value"},
   graphql |-> {"url", "endpoint", "query", "variables", "operation_name", "on_errors"},
   ws      |-> {"url", "endpoint", "session", "subprotocols", "send", "receive"},
   grpc    |-> {"proto", "import_paths", "method", "url", "endpoint", "message"},
   poll    |-> PollKeys]

RetryKeys == {"on_status", "backoff", "max_attempts", "base_delay"}

Needs ==
  [none   |-> {}, bearer |-> {"token"}, basic |-> {"username", "password"},
   apikey |-> {"name", "value"}, cookie |-> {"name", "value"},
   oauth2 |-> {"token_url", "client_id", "client_secret"}, hmac |-> {"secret"}]

Options ==
  [none |-> {}, bearer |-> {}, basic |-> {}, cookie |-> {},
   apikey |-> {"in"}, oauth2 |-> {"scopes"},
   hmac |-> {"algorithm", "encoding", "header", "key_id", "key_id_header", "timestamp_header", "sign"}]

AuthKeys == UNION {Needs[s] \cup Options[s] : s \in DOMAIN Needs}

CallOnly == {"headers", "query", "body"}

StepKeys == {"extract", "assert", "throttle", "on_failure", "with"} \cup CallOnly

ProfileKeys == {"mode", "vus", "ramp", "hold", "iterations", "arrival_cap", "thresholds"}

Absent == [absent |-> "good"]

Values(f) == {f[k] : k \in DOMAIN f}
Good(f, k) == k \in DOMAIN f => f[k] = "good"
Has(f, k)  == k \in DOMAIN f /\ f[k] = "good"

(* WSSpec.Opens and Step.MakesRequest *)
Opens(s) == {"url", "endpoint"} \cap DOMAIN s.spec # {}

MakesRequest(s) ==
  s.kinds \cap {"call", "graphql", "grpc", "poll"} # {} \/ (s.kinds = {"ws"} /\ Opens(s))

Kind(s) == CHOOSE k \in s.kinds : TRUE

-------------------------------------------------------------------------------
(* The walker. *)

AuthParses(a) ==
  a # Absent =>
    /\ DOMAIN a \subseteq AuthKeys \cup {"scheme"} /\ "scheme" \in DOMAIN a
    /\ "malformed" \notin Values(a)

(* rejectCallOnly and its like: what has nowhere to go in this kind. *)
Misplaced(s) ==
  CASE s.kinds = {"call"}                -> {}
    [] s.kinds \in {{"graphql"}, {"grpc"}} -> {"query", "body"}
    [] s.kinds = {"ws"}                  -> {"query", "body"} \cup (IF Opens(s) THEN {} ELSE {"headers"})
    [] OTHER                             -> CallOnly

(* extractions, assertions and throttle *)
ChecksParse(s) == "malformed" \notin s.checks

StepParses(s) ==
  /\ Cardinality(s.kinds) = 1
  /\ DOMAIN s.spec \subseteq SpecKeys[Kind(s)] /\ "malformed" \notin Values(s.spec)
  /\ s.also \subseteq StepKeys /\ ChecksParse(s)
  /\ "with" \in s.also => s.kinds = {"use"}
  /\ s.also \cap Misplaced(s) = {}
  /\ s.retry # Absent => DOMAIN s.retry \subseteq RetryKeys /\ "malformed" \notin Values(s.retry)
  /\ AuthParses(s.auth)

(* profile and vus: hold may be set in either, but once. *)
ProfileParses(p) ==
  /\ p.keys \subseteq ProfileKeys /\ p.holds < 2

OptsOut(a) == a # Absent /\ a["scheme"] = "none"

(* Mutant of Flattened: an opt-out takes the flow's default. *)
FlattenedOptOut(s, flowAuth) ==
  IF (s.auth = Absent \/ OptsOut(s.auth)) /\ flowAuth # Absent /\ MakesRequest(s)
    THEN [s EXCEPT !.auth = flowAuth] ELSE s

(* flattenAuth *)
Flattened(s, flowAuth) ==
  LET own == IF s.auth = Absent /\ MakesRequest(s) THEN flowAuth ELSE s.auth IN
  [s EXCEPT !.auth = IF OptsOut(own) THEN Absent ELSE own]

-------------------------------------------------------------------------------
(* The validator. *)

OneAddress(s) == ~ ({"url", "endpoint"} \subseteq DOMAIN s.spec) /\ Good(s.spec, "endpoint")

SpecOK(s) ==
  LET ok(k) == Good(s.spec, k) IN
  CASE s.kinds \in {{"call"}, {"wait"}, {"use"}} -> Has(s.spec, "value")
    [] s.kinds = {"graphql"} ->
         /\ OneAddress(s) /\ Opens(s)
         /\ Has(s.spec, "query") /\ ok("variables") /\ ok("on_errors")
    [] s.kinds = {"ws"} ->
         /\ OneAddress(s) /\ ok("session") /\ ok("receive")
         /\ Opens(s) \/ {"send", "receive"} \cap DOMAIN s.spec # {}
         /\ "subprotocols" \in DOMAIN s.spec => Opens(s)
    [] s.kinds = {"grpc"} ->
         /\ OneAddress(s) /\ ok("url")
         /\ Has(s.spec, "proto") /\ Has(s.spec, "method") /\ ok("message")
    [] s.kinds = {"poll"} ->
         /\ Has(s.spec, "call") /\ Has(s.spec, "until") /\ Has(s.spec, "interval")
         /\ Has(s.spec, "timeout") \/ Has(s.spec, "max_attempts")
         /\ ok("timeout") /\ ok("max_attempts")

(* wsFrameChecks and the frame a use step has none of. *)
ChecksOK(s) ==
  /\ s.kinds = {"ws"} =>
       IF "receive" \in DOMAIN s.spec THEN s.checks \cap {"status", "header"} = {}
       ELSE s.also \cap {"extract", "assert"} = {}
  /\ s.kinds = {"use"} => s.also \cap {"extract", "assert", "throttle"} = {}

RetryOK(s) ==
  s.retry # Absent =>
    /\ s.kinds \in {{"call"}, {"graphql"}, {"grpc"}}
    /\ \A k \in {"on_status", "backoff", "max_attempts"} : Has(s.retry, k)
    /\ Good(s.retry, "base_delay")

AuthOK(s) ==
  s.auth # Absent =>
    /\ MakesRequest(s)
    /\ s.auth["scheme"] \in DOMAIN Needs
    /\ Needs[s.auth["scheme"]] \subseteq DOMAIN s.auth
    /\ DOMAIN s.auth \subseteq {"scheme"} \cup Needs[s.auth["scheme"]] \cup Options[s.auth["scheme"]]
    /\ "bad" \notin Values(s.auth)

(* Extraction.validate and Assertion.validate, of each, and the id and the *)
(* on_failure of the step: what none of them accepts.                      *)
PartsOK(s) == s.bad = {}

StepOK(s) ==
  /\ PartsOK(s)
  /\ SpecOK(s) /\ ChecksOK(s) /\ RetryOK(s) /\ AuthOK(s)

ProfileOK(p) == p.mode = "good" /\ ~ p.negative

-------------------------------------------------------------------------------
(* What is read of a step when it runs: runStep, the executors of each     *)
(* kind, Provider.Apply.                                                   *)

SpecReads(s) == IF s.kinds = {"poll"} THEN {} ELSE SpecKeys[Kind(s)] \ {"endpoint"}

KeyReads(s) ==
  LET judged == {"extract", "assert", "throttle", "on_failure", "headers"} IN
  CASE s.kinds = {"call"}                  -> judged \cup CallOnly
    [] s.kinds \in {{"graphql"}, {"grpc"}} -> judged
    [] s.kinds = {"ws"}                    -> judged
    [] s.kinds = {"use"}                   -> {"with", "on_failure"}
    [] OTHER                               -> {}

RetryReads(s) == IF s.kinds \in {{"call"}, {"graphql"}, {"grpc"}} THEN RetryKeys ELSE {}

AuthReads(s) ==
  LET scheme == s.auth["scheme"] IN
  {"scheme"} \cup Needs[scheme]
  \cup (IF scheme = "hmac" /\ "key_id" \notin DOMAIN s.auth
        THEN Options[scheme] \ {"key_id_header"} ELSE Options[scheme])

ProfileReads == {"mode", "vus", "ramp", "hold", "arrival_cap", "thresholds"}

-------------------------------------------------------------------------------

FileInit ==
  /\ written \in FlowFiles
  /\ step = written.step
  /\ accepted = "reading"

Parse ==
  /\ accepted = "reading"
  /\ IF StepParses(written.step) /\ AuthParses(written.auth) /\ ProfileParses(written.profile)
       THEN accepted' = "parsed" /\ step' = Flattened(written.step, written.auth)
       ELSE accepted' = "refused" /\ UNCHANGED step
  /\ UNCHANGED written

Validate ==
  /\ accepted = "parsed"
  /\ accepted' = IF StepOK(step) /\ ProfileOK(written.profile) THEN "accepted" ELSE "refused"
  /\ UNCHANGED <<written, step>>

FileNext == Parse \/ Validate

FileSpec == FileInit /\ [][FileNext]_fileVars

-------------------------------------------------------------------------------

(* What is written and read by nobody, known: a poll step does not run; an *)
(* endpoint is never resolved; a wait step has nothing to judge; the       *)
(* header of a key id that is not set; iterations of a profile; and all    *)
(* that an opt-out carries, for flattenAuth drops it before the validator  *)
(* sees it.                                                                *)
Unread(s) ==
  IF s.kinds = {"poll"} THEN PollKeys \cup {"extract", "assert", "throttle", "on_failure"}
  ELSE IF s.kinds = {"wait"} THEN {"extract", "assert", "throttle", "on_failure"}
  ELSE {"endpoint"}

(* "Anything set outside a scheme's own vocabulary is an error rather than *)
(* a silent no-op" (authFields), and so of every other key: what a file    *)
(* that is accepted says is read when it runs, the known cases apart.      *)
NothingIsSilent ==
  accepted = "accepted" =>
    /\ DOMAIN step.spec \subseteq SpecReads(step) \cup Unread(step)
    /\ step.also \subseteq KeyReads(step) \cup Unread(step)
    /\ step.retry # Absent => DOMAIN step.retry \subseteq RetryReads(step)
    /\ step.auth # Absent => DOMAIN step.auth \subseteq AuthReads(step) \cup {"key_id_header"}
    /\ written.profile.keys \subseteq ProfileReads \cup {"iterations"}

(* A credential goes where its author put it: the flow's default on every  *)
(* step that makes a request and says nothing, a step's own in place of    *)
(* it, none on a step that opted out; and a default that fits no step of   *)
(* its kind does not make the file fail (flattenAuth, Step.MakesRequest).  *)
CredentialsAsWritten ==
  accepted = "accepted" =>
    LET own == written.step.auth IN
    /\ OptsOut(own) => step.auth = Absent
    /\ own # Absent /\ ~ OptsOut(own) => step.auth = own
    /\ own = Absent /\ written.auth # Absent /\ ~ OptsOut(written.auth) =>
         (step.auth = written.auth) =
           (step.kinds \cap {"call", "graphql", "grpc", "poll"} # {}
            \/ "url" \in DOMAIN step.spec \/ "endpoint" \in DOMAIN step.spec)

(* What runs is what was written. *)
ReadAsWritten == NothingIsSilent /\ CredentialsAsWritten

(* What makes it inductive: a step came through the walker, flattenAuth    *)
(* and the validator in turn.                                              *)
FileInv ==
  /\ written \in FlowFiles
  /\ accepted \in {"parsed", "accepted"} =>
       /\ StepParses(written.step) /\ AuthParses(written.auth) /\ ProfileParses(written.profile)
       /\ step = Flattened(written.step, written.auth)
  /\ accepted = "accepted" => StepOK(step) /\ ProfileOK(written.profile)
===============================================================================
