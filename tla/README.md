# flowbench in TLA+

A model of flowbench - the path of a flow from its files to a stored, judged
run - checked with TLC and, where a property must hold for any number of virtual
users, files, producers or tokens, proved with TLAPS. Paths below are relative
to the repository.

- [The system](#the-system) - what it is made of, and what is hard about it
- [The modules](#the-modules) - what each one models and how it maps to the code
- [The runs](#the-runs) - what TLC is asked, under which bounds
- [The proofs](#the-proofs) - what holds for every value of the constants
- [Findings](#findings) - where code and documentation part
- [Not modelled](#not-modelled) - what is left out, and why

## The system

flowbench runs *scenarios* (flows of HTTP, GraphQL, gRPC and WebSocket steps)
against a target, at one user or at thousands, and keeps what it saw in a run
store that a results server renders. The parts, the state each keeps, and how
they meet:

| Part | State | Operations | Meets |
| --- | --- | --- | --- |
| Virtual-user pool, `internal/executor/pool.go` | atomic counters and budgets, the merged result under `pool.mu`, one private accumulator per goroutine, a context | `Run`, `runClosed`/`vu`, `runOpen`/`worker`, `iterate`, `record`, `keepTrace`, `merge`, `snapshot` | planner (schedule), data pools (rows), runner (`RunFlow`), watcher (`Progress`) |
| Data pools, `internal/data/pool.go` | cursor, seeded generator, under a mutex | `Next`, `exhausted` | every virtual user draws from it |
| Planner, `internal/planner/planner.go` | none | `Plan`, `CheckCeilings` | run command calls it, executor follows its schedule |
| Flow iteration, `internal/executor/iteration.go`, `retry.go`, `ws.go`, `grpc.go` | the iteration's failures, flags, scope and open sessions | `RunFlow`, `runSteps`, `runUse`, `request`, `evaluate`, `record`, `withRetry`, `runWS` | adapters, auth, evaluation |
| Auth, `internal/auth/auth.go` | a cache of tokens, one mutex each | `Apply`, `token`, `fetchToken` | every attempt of every step that declares it |
| Adapters, `internal/adapters` | a transport and cookie jar per virtual user, gRPC channels, the leg recorder | `Session.Do`, `DialWS`, `Invoke` | the network |
| Collector and spans, `internal/collector`, `internal/span` | none | `Evaluate`, `EvaluateTrends`, `ClassifyKnee`, `BuildSeries`, `BuildSamples`; `Folded.Add`, `Merge` | read the Result |
| Run store, `internal/store`; `sdk-python/.../store.py` | a directory per run and `index.json` | `Save`, `appendIndex`, `List`, `Load*` | two producers (Go and Python), one reader |
| Run command and live view, `cmd/flowbench/run.go`, `watch.go`, `agentpoll.go` | the run's context, a signal channel, the live server's hand-off | `executeLoad`, `executeOnce`, `runLive`, `liveServer.*` | all of the above |
| Agent, `internal/agent` | a poller's series | `Poll`, `/metrics` | run command |
| IR and parser, `internal/ir`, `internal/parser` | the files being compiled and those compiled | `ParseFlow`, `walker.step`, `walker.use`, `flattenAuth`, `Scenario.Validate`, `checkRef` | everything downstream trusts what they accept |
| Target gate, `internal/target` | none | `Check`, `Allows` | before the run, and on every request |
| Report, `internal/report` | none | `FailureGroups`, `buildFunnel` | reads stored traces and the folded tier |
| Evaluation, secrets, results server, Python authoring | - | sequential translation and rendering | - |

### What is hard

- **Many goroutines, few locks.** Virtual users bump seven shared counters one
  at a time, keep what they measured to themselves and merge it once. Whether
  the Result is whole depends on who is waited for and in which order.
- **Every way to stop.** A schedule runs out, somebody interrupts, a flow-run
  trips the kill switch; each reaches the spawner, the generator, the workers
  and the observers at a different place of their loops.
- **Readers that look without a lock.** A progress snapshot is three loads at
  three moments.
- **Coordinated omission.** Under an arrival cap a slow target holds up the
  generator; the arrivals must come late rather than not at all, and the
  latency must be counted from when they were due.
- **Rows that must not repeat.** A unique row is drawn by whichever goroutine
  comes first, across wraps and exhaustion.
- **A flow within a flow.** A failure is judged where it happens, by the step's
  on_failure, and again by the step that uses the flow; failures, flags and
  connections must survive an error on the way up.
- **A target that does as it likes.** It throttles, hangs up in the middle of a
  conversation, asks for a retry at once, sends frames nobody waits for, reads
  nothing, while the run is cancelled.
- **Arithmetic on schedules.** Ramps are interpolated, rounded and sampled by a
  ticker whose period is a quotient.
- **A cache shared by everyone.** All users of a token endpoint queue on one
  entry; its clock is not the server's, and every error path must let go of it.
- **One request, many attempts.** Credentials are put on the same request again
  before every attempt; callbacks of the transport outlive the call.
- **No lock on the store.** Two programs, in two languages, rewrite one
  `index.json`, and either may die in the middle.
- **Three who stop a run.** Ctrl-C, a browser and the kill switch cancel
  different contexts, and the exit code is read off some of them.
- **Three readings of one file.** Parser, validator and executor each know which
  keys a step takes; a cache of compiled files decides what cycles and depths
  are seen.
- **Two tiers that must agree.** Order comes from the kept traces, counts from
  the folded ones, buckets and gates from the samples.

`PROJECT.json` lists each hazard at its line, with the properties that would
catch it or the reason none does yet.

### What makes each part correct

- *Pool*: no completed flow-run is lost or counted twice; the Result is whole
  however the run ended; an abort is reported exactly when one was asked for;
  cancelled work is bounded; trace retention is exact; progress never goes
  backwards and ends on the Result; the run returns.
- *Arrivals*: none early, none twice, none omitted; at most N a second (it is
  not: see findings).
- *Data pools*: unique rows are unique; rows go out evenly.
- *Planner*: what passes the gate stays under the ceiling (a descending ramp
  does not: see findings); the curve is the line the author drew.
- *Flow iteration*: on_failure is obeyed through used flows, every failure and
  flag reaches the caller, every session opened is closed with its flow, retries
  end with the run, a flow-run returns.
- *executeOnce*: the exit code tells whether a row failed; an abort stops the
  run, and an error counts as failed (neither does: see findings).
- *Auth*: one grant per entry at a time, however many wait; what is served from
  the cache is still good; nobody stays queued. An attempt sends each credential
  once, and a signature of its own.
- *Exchange*: a leg for every hop, and a tree nobody writes to once the call
  returned.
- *Run store*: a listed run is whole, and what was saved without an overlap is
  listed (an overlap may lose an entry: see findings).
- *Live run*: a batch run's exit code tells how it ended; a browser is sent to a
  stored run only; the agent's series is not written to after it was taken;
  whatever ends a run, it is settled.
- *Loading*: each file is compiled once; what is accepted is complete and has no
  cycle, and a refusal has a cause (a limit on the depth is not kept: see
  findings).
- *Reading*: what an accepted file says is read when it runs, or known not to
  be; credentials go where they were written.
- *References*: a name that was accepted has a value, unless what it stands for
  lies outside the flow or an extraction found nothing; scopes are apart.
- *Target gate*: nothing leaves for an origin that is not listed.
- *Result*: every flow-run is counted once in every tier; gates, trends and the
  knee say of the samples what they claim to.

## The modules

```
before a run
  UseLoad         the files of a flow and how they use one another  -> MCUseLoad
  FlowFile        the keys of a step: parser, validator, executor
  References      {{ names }}: what is accepted, what they stand for
  TargetGate      the allow-list, before the run and per request
  Planner         profile -> schedule -> population                 -> MCPlanner
one flow-run
  FlowRun         one pass over a flow: RunFlow, retries, sessions
    FlowCallers   + executeOnce, and iterate's judgement            -> MCFlowCallers
  FlowOutcome     what iterate can make of a flow-run
  TokenCache      the oauth2 tokens of a run
    Calls         + the requests of call steps, attempt by attempt  -> MCCalls
  HttpCall        one exchange and its legs                         -> MCCalls
the pool
  DataPool        the fixture pool
    PoolTurns     + a pool of its own, in turn or at random
    VirtualUsers  goroutines, counters, observers, the end of Run
      ClosedPool  + the spawner and the deadline                    -> MCClosedPool
      OpenPool    + the generator and the arrivals                  -> MCOpenPool
  LoadRun         what Run promises; both pools implement it
around and after it
  RunStore        run directories and index.json, several producers
    LiveRun       + executeLoad, runLive, browser, agent, exit      -> MCLiveRun
  RunTiers        latency, series, samples
    Verdict       + thresholds, trends, the knee
  TraceTiers      folded spans, failure groups, funnels

MCStages looks at PoolTurns, Planner, UseLoad, FlowFile, References, TargetGate,
TraceTiers and Verdict side by side.

Proofs
  TallyProofs         DataPool, and the steps both pools share: nothing lost;
                      passes, counters, readings, budgets
    ClosedPoolProofs, OpenPoolProofs
  FlowRunProofs       FlowRun under its callers
  CallProofs          TokenCache, Calls, HttpCall
  RunStoreProofs      RunStore, LiveRun
  StageProofs         UseLoad, FlowFile, References, TargetGate, Planner,
                      PoolTurns
  ResultProofs        TraceTiers, RunTiers, Verdict
```

**DataPool** - `data.Pool`. A draw is one step, as the mutex makes it. There is
one disjunct of `DrawRow` per branch of `Next` and `exhausted`; a nil row is
`NoRow`, as `drawRow` swallows both the error and the `false`. `drawn` is a
history of what was handed out. The seeded generator may return any row.

**PoolTurns** - a DataPool whose distribution is round-robin or random, drawn
from by whoever likes; the pools of the other runs are unique-per-vu.

**VirtualUsers** - everything in `pool.go` the two arrival models share. A step
is one access to shared state: `iterate` is cut at each atomic counter
(`EnterIteration`, `StartFlow` with its draw, `FinishFlow` with `completed`,
`CountFailed`, `CountThrottled`, `RecordFlow` with `keepTrace` and the kill
switch, `LeaveIteration`), `merge` is one step under `pool.mu`, and a snapshot
is its three loads (`LoadCompleted`, `LoadFailed`, `Publish`). The gauge
`active` is not part of a reading here. Two pairs of accesses are taken as one
step: keepTrace's `successSeen` and `successBudget` (only the order of the
sampled successes could differ, and `RetentionExact` does not tell them apart),
and `aborted.Store` with the `cancel` after it (nothing reads `aborted` before
the goroutines are joined). What `RunFlow` returns is an input, constrained by
`FlowResult` to what `iterate` can make of it. A flow-run has a ghost number,
the order of its completion, which lets properties speak of "every flow-run".
The Result carries samples, the numbers of the traces kept and of the trees
folded, the iterations and the abort flag; `Outcomes` is a tally of the samples
and is left out.

**ClosedPool** - `runClosed` and `vu`. `Curve` stands for `curveAt` over the
segments (which is modelled in Planner). The ticker's channel holds one tick
and drops the rest, so the spawner may read a time that is long past; `select`
may take either ready case. The clock stops at `Duration`, as nothing
distinguishes later times.

**OpenPool** - `runOpen` and `worker`. `jobs` is unbuffered: `Send` is the
rendezvous of the generator and a worker at the head of its loop. A worker
looks at the context after it has received (`LeaveLoop`, `TakeJob`). `lag` is
how late an arrival was dispatched. The clock stops at `MaxNow`; an arrival
that would be later is dispatched at `MaxNow`, which hides lateness only.

**LoadRun** - the abstract specification: flow-runs finish one after the other,
Run returns once with exactly those that finished and with `aborted` set if one
of them asked for it, and nothing finishes after that. `VirtualUsers` maps
`finished` to the samples in any accumulator and `report` to the Result.

**Planner** - `Plan`, `planOnce`, `planSustained`, `CheckCeilings`, `curveAt`
and `spawnTick` as operators, and the order `executeLoad` calls them in as a
state machine whose last phase follows the spawner's population. Floating point
is replaced by exact fractions of ticks (`Interpolated` rounds as the code
does); a mode the planner does not know is left out, as validation rejects it.

**FlowRun** - `RunFlow`. The Go call stack of `runSteps` and `runUse` is the
variable `stack`, a frame for each flow with the `Iteration` it fills in. A step
of the model is what happens between two waits: `BeginStep` runs until the step
needs the network (`WaitAt`), the actions after it are what the network, a
timer or the context can come back with, and `EndStep` is `record`,
`recordThrottle` or `evaluate` with the loop's decision to go on. `EndUse` is
the rest of `runUse` after its loop, `Used` its five ways out. HTTP, GraphQL and
gRPC steps share the retry loop and the order of judgement, so they are one
kind; gRPC has answers that are an error and a status at once. What is
abstracted: variables to `templated` (a reference may have no value),
responses to `status`, checks to how many fail, a target's addresses to
`allowed`, time to the ticks of a receive. A backoff has no length but may be
nil where the policy honours the target's wish (`pushback`); `late` says that a
call or a wait was begun under a cancelled context. `Valid` is what the
validator says of a flow that these properties rest on - no two steps of one
flow share an id (`IdsDiffer`), sessions are opened before they are used -, and
`Init` runs the flows that pass it. `told`, `killed`, `limited`,
`begun` and `lateTries` are histories.

**FlowCallers** - what the two callers do with an `Iteration`: `JudgeOnce`,
`NextRow` and `Exit` are `executeOnce`, row by row under a context nobody
cancels; `JudgeInPool` is `iterate`'s judgement, under one that `Cancel` or an
abort cancels. `AsThePoolAssumes` closes the gap to `VirtualUsers`, whose input
is any `FlowResult`; `SamplesTruthful` says that an error is among the failed.

**TokenCache** - `Provider.token`, `fetchToken` and `requestToken`. `entry` is
the map of token entries, `holder` its mutex; `caller` is where each user's call
is. A caller that gets the entry re-checks the cache (`ServeCached`), is refused
by the allow-list (`RefuseEndpoint`) or sends a grant (`SendGrant`); the answer
is a token, a refusal of the placement that makes it try form fields
(`RejectPlacement`), or an error (`FailGrant`). A token is the moment the server
stops taking it, which is counted from when it was issued; `expiresAt` is
counted from when the answer was read. A server that states no lifetime gets a
token that is never fresh. The clock does not pass a request's timeout.

**Calls** - `BuildRequest`, `Apply`, `AddCookie`, `newHTTPRequest`, for one step
over several attempts. A header's value is a sequence of pairs. The map of
headers is keyed as authored while names on the wire are not case-sensitive;
`Wires` is what the order of a Go map may make of it. `Apply` changes the
request it is given, as the code does, so a second attempt works on what the
first one left. The exchange is one step here. Templates expand, or the flow is in error before the model's step begins.

**HttpCall** - `Session.Do` and `legRecorder`. `http` is where Do is, `dial` what
the hop's own dial has still to report, `stray` the dials that were left behind
when a connection came free or the hop broke. `Callback` is one httptrace
callback under the recorder's mutex, with `ensureLeg`; `crossed` remembers that
a stray dial reported outside the leg it began in, which the code allows and
which then may add a leg nobody closes. net/http itself is external.

**RunStore** - `Save` and `appendIndex`; `write_run` and `_append_index` of the
Python driver take the same steps with artifacts of their own. A write cuts the
file to nothing first (`Truncate`), so a crash there leaves an index that does
not parse, and every later producer fails (`ReadIndex`). `overlapped` remembers
that two producers were between read and rewrite at once, `finished` in which
order runs were saved.

**LiveRun** - one load run from the start of its executor to its exit code.
`pool` returns when it likes, with `aborted` if the kill switch went: this is
what `LoadRun` says of it. `ctx` is the command's context, `sigc` the signal
channel of two, `poller` the agent's, `live` the fields of `liveServer`, `page`
what each browser has been told. `TakeResult` is the select and the read of
`ctx.Err()`, `Evaluate` the join and the verdict, `MySave` the steps of RunStore
for this process, `Complete` and `Announce` the two stores of the hand-off.

**UseLoad** - `walker.use` over a graph of files. `stack` is `load.stack` with
the errors each walker has met, `done` is `load.done` in the order of
compilation. `Compiled` hands a walker's errors to the one below it. A file that
cannot be read, is not a flow file or does not parse is `Unusable`.

**FlowFile** - the keys of one step, its retry and its auth, and of a profile. A
value is good, bad (the validator refuses it) or malformed (the walker does).
`StepParses`, `Flattened` and `StepOK` are the walker, `flattenAuth` and the
validator; `SpecReads`, `KeyReads`, `AuthReads` and `ProfileReads` are what the
executor, the provider and the planner read. `Unread` names what is accepted and
read by nobody.

**References** - `validateAs` as a fold over the steps (`AddStep`), then the run
of the flow: `frames` is the nesting of used flows with the variables each has
set. A request may find fewer of its extractions than it names. `Seen` is what
the validator has seen of a flow after each of its steps, a recursive function;
`Within` is a flow and the flows it uses, down to `MaxNested`. The entry flow is
run as `RunFlow` runs it, with no value for the inputs it declares.

**TargetGate** - `Check` on the URLs as written, `Allows` on each expanded one,
`resolveURL` for those that are relative. Upper case stands for every other
spelling of a scheme or host.

**RunTiers**, **Verdict** - what is made of a Result: `Percentile`, `BuildSeries`
and `BuildSamples`; `Evaluate`, `EvaluateTrends` and `ClassifyKnee` with the
order `executeLoad` calls them in. A Result's samples are a sequence, and a part
of them - a bucket, a half, what is kept - is the set of their places in it.
`Percentile` does not sort: it is the latency with no more than `Rank` below it
and more than that up to it, which is the one at that place of the sorted
latencies. `Rank` is exact where the code truncates a product of floats
(`sample.go:42`), which may come out one place lower where the exact one is
whole, as for p29 of 101 flow-runs. Rates are compared by cross products where the
code compares floats. `Passes` restates a gate in flow-runs - so many of them
slow, failed or throttled - without the aggregation the code goes through.

**TraceTiers** - a span tree is a function from paths to spans. `Record` is
`pool.record`, into the accumulator of one goroutine; `MergeFold` merges it.
Whether a tree is kept is open, since sampling and the budgets, which are
VirtualUsers', decide it.
Groups and funnels are computed from what is kept at any moment. `SameFlow` is
what a funnel rests on: flow-runs of one flow run the same steps as far as they
come.

Each definition that translates code is listed in `PROJECT.json` under `map`
with its lines; definitions named "mutant of" next to a definition are
deliberate errors, used to show that the properties can fail.

## The runs

| Run | Asks | Instance | States |
| --- | --- | --- | --- |
| `closed_run` | safety of the VU-driven model, that it implements `LoadRun`, that it unwinds | 2 users ramped in apart, 3 iterations that pass or trip the kill switch, budgets of 1 failed and 1 passing trace with one pass in two sampled, an interrupt at any time | 119 thousand |
| `closed_once` | a run-once pool with several flows: whole passes around an abort, even rows across a wrap, and what a watcher sees | 2 users, 2 flows that fail on a limit (all three counters move) and abort the run, 2 rows that cycle (up to 4 draws), a watcher, an interrupt | 1.8 million |
| `open_run` | safety of the arrival-driven model, that it implements `LoadRun`, that it returns | 2 workers, 2 arrivals, 1 unique row, a kill switch, an interrupt | 137 thousand |
| `flow_run` | failures, flags, sessions, on_failure, retries, exit code; a flow-run returns | four valid flows (used flows two deep, a session in a flow and in the one it uses, retries of 2 and 3 attempts, every on_failure, refusals, steps that cannot run) and two the validator refuses, both families of modes, 2 rows or flow-runs | 39 thousand |
| `call_run` | tokens, requests, legs | 2 users of one endpoint that states no lifetime, one inside the margin or one beyond it; every scheme on a step that already carries headers, cookies and a query, 2 attempts; one exchange with a redirect and a dial left behind | 191 thousand |
| `live_run` | store, exit code, hand-off, that a run is settled | this engine (3 artifacts) and a Python driver (2), a page, 3 Ctrl-C's, 1 scrape, batch and watched, every crash and failed write | 207 thousand |
| `stages` | the sequential stages | see below | 390 thousand |
| `planner_ceiling` | **violated**: `max_vus` bounds the population | profiles as in `stages` | |
| `open_ceiling` | **violated**: at most N iterations start in a second | 1 worker, 4 arrivals at 2 a second | |
| `once_abort` | **violated**: abort_run stops the run | as `flow_run` | |
| `load_default` | **violated**: a failed step that leaves on_failure out skips the rest | as `flow_run` | |
| `use_depth` | **violated**: no accepted flow nests deeper than the limit | graphs as in `stages` | |

`stages` looks, in each behaviour, at one stage over every input of a family:
7 draws from 3 rows in turn or at random; 33408 combinations of mode, users,
ramp, hold, cap and ceiling, with up to 5 ticks of ramp; every graph of four
files with two uses in the first and one in each other, and a limit of two; a
good step of each kind with one key dropped, bad, malformed or added, beside
every other key and a default for its auth; flows of three steps with a used
flow, nested once; URLs of six schemes in three forms against three targets;
three flow-runs out of six trees over two goroutines; Results of up to four
flow-runs against five sets of gates, one of them every metric with every
comparison, and five agent series. `CHECK_DEADLOCK FALSE` there and in `use_depth`, since
a stage ends; in `call_run`, since the clock may be at its bound with an entry held.

Why these bounds are enough to be interesting: two goroutines suffice for every
race on the counters, the budgets, the merge and the pool, which are all
pairwise; three iterations are one more than the budgets and the sampling stride
allow; two arrivals with two workers let one be overtaken, delayed past the end,
dropped by a cancelled worker or left unsent; four draws are two past the wrap
of two rows. Two rows show what one flow-run leaves to the next; a used flow in
a used flow is the first that merges what was already merged; one session name
suffices, as a session is looked up by name in the flow's own table; a receive
of two ticks tells a deadline that is put off from one that is not. A token that
lives 4 under a margin of 2 and a request timeout of 1 is fresh for a while and
then not; 0 and 1 never are. Two producers with crashes are enough for every
interleaving of the index, which is rewritten by one at a time. A limit of two
on four files lets a chain be one too long in two ways. A tree of two levels has
a descendant that failed under a step that did, and a step that stops early.

Bounds that are not the program's own: `MaxIterations` (iterations begun in a
run), `MaxNow` (the clock), `Rows`, `MaxAttempts`, `MaxDials` (dials left
behind), `MaxSignals`, `MaxScrapes`, `MaxRecorded`, `MaxDraws`, `MaxNested`. A virtual user
that may begin no more iterations waits at the head of its loop, as one does
whose flow-run is slow. `MaxUseDepth`, `MaxRedirects`, `Ceiling`, `MaxPoints`,
`RunsPerGroup`, `MinBucketRuns` and the limits of Verdict are constants of the
code, made small.

Symmetry of the goroutines is used where only invariants and action properties
are checked.

### Fairness

The pools' `FairSpec` assumes of the scheduler what Go gives: a runnable
goroutine runs (weak fairness of each virtual user, of the spawner or generator,
and of Run); `select` with a case that is ready again and again takes it at some
time (strong fairness of `SelectDone` and of the last snapshot). That a flow-run
ends is part of it: every call has a deadline (`RequestTimeout` or the adapter's
default), retries, waits and polls are bounded. FlowRun looks closer: its
`FairSpec` assumes that the program runs, that a call ends (request timeout),
that time passes in a receive, and that a write ends once its context is
cancelled. It does not assume that a write ends: the first part of `FlowEnds`
names that as its premise, as `Send` has no deadline, and the second, about a
cancelled flow-run, does without. Nothing is assumed of the interrupt, of the
progress ticker, or of the clock: the first part of `RunUnwinds` states its own
assumption that the clock moves, the second, about a cancelled run, has none.

`call_run` assumes strong fairness of each user's own steps: a Go mutex hands
over to a waiter that has starved for a millisecond, and a token request ends
within its timeout. `live_run` assumes that the command's goroutine and the
stream of an open page run, and that the pool returns, which is what
`RunUnwinds` shows of it; nothing is assumed of signals, browsers, scrapes or
other producers.

## The proofs

| Theorem | States |
| --- | --- |
| `ClosedPoolProofs!TypeCorrect`, `OpenPoolProofs!TypeCorrect` | `[]TypeOK` |
| `...!Inductive` | `[]RunInv`, `[]OpenInv` |
| `...!NothingLost`, `Returned`, `KillSwitch`, and together `WholeResult` | `[]ResultWhole` |
| `...!PassesWhole` | `[]WholePasses` |
| `...!CancelBound` | `[]CancelBoundsWork` |
| `...!Truthful`, `NoRewinds` | `[]ProgressTruthful`, `ProgressNeverRewinds` |
| `...!Retention` | `[]RetentionExact` |
| `...!RowsUnique`, `ClosedPoolProofs!RowsEven` | `[]UniqueRows`, `[]EvenHanded` |
| `OpenPoolProofs!NoneEarly`, `NoneTwice`, and together `AllServed` | `[]ArrivalsServed` |
| `OpenPoolProofs!AllArrivals` | `[]NoArrivalOmitted` |
| `...!Refines` | both pools implement `LoadRun` |
| `FlowRunProofs!Inductive`, `TypeCorrect` | the inductive invariant, `[]TypeOK` |
| `FlowRunProofs!NothingLost` | `[]NothingKeptBack` |
| `FlowRunProofs!Obeyed`, `KillSwitch` | `[]OnFailureObeyed`, `KillSwitchStopsTheFlow` |
| `FlowRunProofs!RetriesEnd` | `[]RetriesEndWithTheRun` |
| `FlowRunProofs!SessionsScoped` | `[]SessionsSound` |
| `FlowRunProofs!Truthful` | `[]CallersTruthful` |
| `CallProofs!TokensInductive`, `TokensSafe` | `[]TokenInv`, `[]TokenSafe` of TokenCache |
| `CallProofs!CallsUseTheCache`, `SafeUnderCalls` | Calls implements TokenCache; `[]TokenSafe` of Calls |
| `CallProofs!RequestsSafe` | `[]RequestSafe` |
| `CallProofs!LegsTell`, `TreeStands` | `[]LegsTellTheHops`, `Frozen` |
| `RunStoreProofs!Inductive`, `Sound` | `[]StoreInv`, `[]StoreSound` of RunStore |
| `RunStoreProofs!RunsUseTheStore`, `SoundUnderRuns` | LiveRun implements RunStore; `[]StoreSound` of LiveRun |
| `RunStoreProofs!ExitTruthful`, `HandOff` | `[]BatchExitTruthful`, `[]LiveSafe` |
| `StageProofs!LoadInductive`, `LoadsSound` | `[]LoadInv`, `[]LoadSound` |
| `StageProofs!RefusalsHaveCause` | `[]RefusedForCause` |
| `StageProofs!FilesRead` | `[]ReadAsWritten` |
| `StageProofs!NamesAlwaysHold` | `[]NamesHold` |
| `StageProofs!PoolsStayEvenHanded` | `[]PoolsEvenHanded` |
| `StageProofs!GatesSound` | `[]GatesAgree` |
| `StageProofs!PlansDriven` | `[]PlannerSound` |
| `ResultProofs!TiersBalance`, `TiersAreHonest` | `[]Books`, `[]TiersHonest` |
| `ResultProofs!ResultsAreJudged` | `[]ResultJudged` |

They hold for any finite set of goroutines, any number of flows, any budgets,
any pool, any curve (closed) and any interval, schedule and clock bound (open);
for any valid flows, nested however deep, any policy of retries and any target;
for any users, token keys and lifetimes; any call steps and any number of
attempts, redirects and dials left behind; any producers and artifacts; any
files, however they use one another, and any limit; any flow file of the shape
the walker reads; any flows that use one another, any environment and row; any
target and URLs; any profile of the forms the parser gives, under any ceilings;
any number of rows; any span trees, recorded and merged in any order by any
goroutines; any Results, thresholds, limits, bucket ladder and agent series. The
assumptions are those the modules state:

- of the pools `PoolAssumption`, `RunAssumption`, `ClosedAssumption`,
  `OpenAssumption`;
- of a flow-run `FlowAssumption` (steps are what the IR can hold) and
  `RowsAssumption`;
- of a call `TokenCacheAssumption` (a token request times out sooner than the
  margin, as 15 s and 30 s are), `CallsAssumption` (the schemes there are, and
  header values that are sequences), `HttpCallAssumption`;
- of the store and its run `RunStoreAssumption`, `LiveRunAssumption`;
- of the stages `UseAssumption` (finitely many files, so that a chain longer
  than their number has a cycle), `FileAssumption`, `RefAssumption` (references
  have a root and a rest, and flows do not nest without end: the loader refuses
  cycles), `GateAssumption` (a target has a base URL), `ProfileAssumption`,
  `ClockAssumption` and `TurnsAssumption` (`New` refuses an empty pool);
- of what follows a run `TreesAssumption` (finite trees whose root's children
  are numbered in order, no two steps of a flow with one name, and the same
  steps in every flow-run of it), `TiersAssumption` (a ladder of positive
  widths) and `JudgeAssumption` (samples have times that are not negative: an
  arrival is not dispatched early, as `ArrivalsServed` says).

TLC evaluates them all in the runs.

**The pools.** `ResultWhole` is not inductive: a `Merge` keeps samples in one
place only if a goroutine that has left holds none, and a Result is whole only
if nobody is left when Run reads the pool. `RunInv` adds:

- `EmptyHanded` - who is not there holds nothing;
- `Settled` - past the join everybody has left, and the Result is the pool;
- `FoldedOrCounting` - a counted flow-run is folded, or its goroutine is
  between `completed` and `record`;
- `AbortAccounted` - an abort has a sample that asked for it, and a sample that
  asked is heard or about to be.

The steps of an iteration are proved once, in `TallyProofs`, for both
models; `ClosedPoolProofs` and `OpenPoolProofs` add the steps of their own
driver and put the two together. Under arrivals a worker is unborn until
`StartWorkers` (`NoneYet`). Rows: `RowsBelowCursor` (what was drawn lies below
the cursor) makes `UniqueRows` inductive, `InRounds` (how `drawn` follows from
the cursor) makes `EvenHanded` so. Refinement: `FinishFlow` is `Finish`,
`Return` is `Return` by `Settled` and `AbortAccounted`, any other step leaves
`Held` and the report alone.

The counting properties rest on `TallyInv`, proved in `TallyProofs` too, for
both. It relates what one goroutine has in hand to what is counted:
the samples of a flow are the passes and those goroutines that are past it in
theirs; the gauge is the number of goroutines inside an iteration; once the
context has ended, what was completed since and what is still `Owed` (the flows
ahead of every goroutine in an iteration) never exceed one pass each; each counter is the flow-runs that
passed the line which counts it; a snapshot's three loads lie between the
counters when it began and the counters now, in the order they are loaded; and
a budget is what was granted less what was kept, where the sampled successes
are those whose number is a multiple of the stride (`CeilDiv`). Cardinalities
of sets that change by one element carry the arithmetic.

**Arrivals.** `DueInv` (an arrival is sent when it is due, and the clock does
not go back) and `OnceInv` (the arrivals below `n` have each gone to one worker,
which takes the flows in order) give `ArrivalsServed`. `OmissionInv` says that
the generator passes over no arrival and comes to the end of the schedule only
when all were sent or the run was stopped (`InSchedule`), and that every flow of
an arrival that was sent is a sample somebody holds or ahead of the worker that
took it, unless the run was stopped (`NoneDropped`).

**A flow-run.** The induction over frames is an invariant of the stack. `Base`
says that the stack is a chain of valid flows, each frame below the top at the
use step that led to the next, with the path that step extends; the other parts
add what a property needs of every frame:

- `TriesInv` - tries within the policy, at most one of them begun late, and no
  backoff after that one;
- `KillInv` - once the run is killed, the top frame is past its last step and
  can only end, with its flag up;
- `FlagsInv` - the run was limited or killed exactly when a frame has that flag
  up, and outcomes agree with flags;
- `ToldInv` - the failures of the frames, laid end to end, are the failures
  that were recorded, in order, each with its path: `EndUse` moves a stretch of
  them from one frame to the one below;
- `ObeyedInv` - the bottom frame has begun exactly the steps up to its own, what
  was told or killed came from them, and none before its own was to halt it;
- `SessionsInv` - a frame that goes on has opened exactly what its steps so far
  open, and the connections are the open sessions of the frames.

`EndUse` is where all of them are hard, since it has five ways out and judges
what was judged before; `Used` is taken case by case. The callers follow from
what a returned `Iteration` is.

**Tokens.** That a cached token is still good follows from `ExpiryHonest`: what
the provider takes for its end is late by one token request at most, or inside
the margin already, and the clock only goes up. That needs `GrantsInTime`: a
grant under way is no older than a request may get.

**Requests.** `RequestInv` says what a request is between two attempts: the one
the step was built into, or what `Apply` made of that at some time with some
token. `ApplyAgain` is the lemma it turns on: what `Apply` makes of its own
result is what it would have made of the step's request, whatever the scheme.
For cookies that is the work of `Others`, about which `OthersHave` and
`OthersSettled` are proved by induction over the pairs. While an attempt is on
the wire its token is still the caller's, as no step of the cache moves a caller
that was served. `WhatIsSent` reads the property off a request that is what
`RequestInv` says, through the map of headers whichever way it is walked.

**Legs.** `HttpInv` keeps the recorder in step with `Do`: as many legs as hops
and all but the last closed, the current one with the marks of the callbacks
that came, a dial's begin before its end, what a dial still has to report paired
off. Callbacks of a dial left behind may break that once they are crossed, so
the parts that they can reach speak of uncrossed recorders.

**The store.** `ArtifactsInOrder` says that a producer's directory holds a prefix
of its artifacts and all of them when it turns to the index; `ListedAreSaved`
that a run comes into an index, or into what a producer has read of it, only by
being saved. As long as no two producers overlapped, `OneAtATime` says that
what the one in the index has read is what the index says, which is the saved
runs in the order of `finished`.

**The live run.** `LiveInv` says in which order the command gets where it is: a
verdict is taken once the pool and the poller are done, and is of what they left
(`VerdictStands`); an interrupt is in the context
from the moment it was pressed, and in the verdict if the pool still ran
(`InterruptOnRecord`); a browser has the address of the run only once the run is
saved (`StoredFirst`).

**Loading.** `LoadSound` is about accepted loads only; `WalkedSoFar` says what a
walker that met no error has passed, `CompiledWhole` that a compiled file which
lacks one of its uses has left an error with a walker below it, so that the
entry cannot be accepted. For refusals, `StackIsChain` says that each file on the
stack is what the one below it uses, so the i-th of them lies i - 1 steps from
the entry: a stack that is too deep is a chain that is too long, and a use of a
file on the stack is a cycle, along which there is a file at every depth
(`CycleNeverEnds`). An accepted load has none, as the compiled files are ordered
by what they use and there are finitely many (`LinkedEnds`).

**Files.** `FileInv` is short: a step came through the walker, `flattenAuth` and
the validator in turn. The theorem is a comparison of their vocabularies, kind
by kind and scheme by scheme.

**References.** `RefInv` runs the validator beside the flow: `KeptUp` says of
every frame that each name the validator had seen before the frame's next step
has a value, or is of an extraction that found nothing (the entry flow's inputs
apart), and that a frame's variables are its inputs, its extractions and the
outputs of its use steps; `Waits` that each frame but the top one stands at the
use step of the frame above it. What `checkRef` let through is then excused
(`RefExcused`, `AssertExcused`). The hard step is a flow's return: the outputs
the validator promised the caller are there because every one of them is an
extraction of the used flow (`OutputsFound`), which has run to its end.

**Turns.** `InTurns` says how the draws of a round-robin pool follow from its
cursor.

**The folded tier.** `Books` balances, path by path and for counts, totals and
own times alike: what has been merged plus what each goroutine still holds is
what the recorded trees come to. A sum over a finite set is `Sum`, whose
recursion is proved well-defined first; a fold of one tree is a sum of sums,
which may be taken in either order (`SumParts`, `SumSwap`). That a frame is
covered by its own and its children's time holds of one tree (`TreeCovers`) and
so of the books. A funnel's stage counts the flow-runs that have a step there,
since a path of two names is reached once in a tree (`ReachedOnce`).

**The Result.** The state machine is short (`JudgedOf`: what is stored is what
the collector's functions make of one Result); the proof is about the functions.
`PlaceExists` shows that there is a latency at every place, `PercentileIs` that
it is the only one and that places rank as latencies do; a percentile gate then
counts the slow flow-runs (`PercentileGate`), and so do the other latency gates
(`LatencyGate`). Buckets part the samples
(`GridIs`, `BucketsHold`), so sums over them are whole. Thinning is arithmetic on
places: `PlacesAre` says that two successes' places are as far apart as there are
successes from the one to the other, `StrideIs` that no more than the ceiling is
wanted as long as what is of note leaves room. A trend or a knee has its witness because a sum, a share or a
percentile that is greater on one side has a member that is (`TrendsHold`,
`KneeIs`).

**The gate and the plan.** `GateInv` says that the gate stands where `Check` put
it. The plan is arithmetic: a schedule has two segments at most, so `Ends`
unfolds, and `Interpolated` is shown to lie within half a user of the line and
never to fall for a ramp that does not.

Two lemmas recur: `AllNumbers` (what holds of 0 and of each successor holds of
every number) is proved from the well-foundedness of the naturals, and stands in
for the library's induction, which cannot be instantiated; with it a recursive
function over 0 .. n is shown to have a solution before anything is said of its
values.

Model-checked only:

- liveness (`RunUnwinds`, `FlowEnds`, `TokensReturn`, `RunIsSettled`), which is
  out of the prover's reach;
- the five properties the code violates, which TLC refutes.

Every other property of the runs that pass is a theorem.

## Findings

1. **A descending ramp escapes `max_vus`** (`planner_ceiling`). `CheckCeilings`
   looks at the ramp's end; `500 -> 10 over 5m` passes a ceiling of 10 and
   starts 500 users. `docs/guide/targets-and-safety.md` promises the ceiling,
   and `runClosed`'s comment that shapes only ramp up is not enforced anywhere.
   `CeilingHoldsRampingUp` shows that it holds for ramps that do not descend.
2. **The arrival cap is not a ceiling** (`open_ceiling`). A generator held up by
   slow workers sends what is overdue back to back, so more than N iterations
   start within a second. `runOpen`'s comment and ADR 0013 say it cannot happen
   "by construction". Keeping the schedule after a stall is what makes
   `NoArrivalOmitted` true; the two promises exclude each other.
3. **abort_run does not stop a run of rows** (`once_abort`). `executeOnce` notes
   the abort, says so, and runs the next row and the next flow.
   `docs/guide/flows.md` says that `abort_run` stops the whole run.
4. **The limit on nested uses depends on the order** (`use_depth`).
   `walker.use` measures the stack of files being compiled and takes a file that
   was compiled before from `load.done`, whatever lies below it. A flow that uses
   a chain of eight first and then a file that uses that chain is accepted with
   nine levels, the other way round it is refused.
   `docs/reference/yaml-dsl.md` says that a chain deeper than 8 is refused.
   `LoadSound` shows that cycles and missing files are not missed in this way.
5. **The default of on_failure depends on the mode** (`load_default`).
   `effectiveAction` takes an `on_failure` that is left out for `abort_flow` in
   integration and system mode and for `record` in load, stress and soak.
   `docs/guide/flows.md` (lines 63 and 69) and `docs/reference/yaml-dsl.md` (line
   43) name `abort_flow` as the default and say that the remaining steps are
   skipped, of any mode; ADR 0003 and the comment at `iteration.go:416` say what
   the code does. `OnFailureObeyed` is about the code's default.

Met on the way, without a run of their own:

- `executeOnce` samples the outcome of the spans. A throttle that counts as an
  error, the default in these modes, leaves its span `throttled`, so the run's
  exit code is 1 and its stored `Failed` is 0 (`cmd/flowbench/run.go:322`).
  `Result.Failed`'s comment and `docs/reference/spans-and-outcomes.md:32` say it
  is included; `iterate` takes care of it (`SamplesTruthful`).
- When failed and throttled flow-runs fill the sample tier, the stride is set past
  the last success so that none is kept; but the first one's number is 0, a
  multiple of every stride. It is kept, and the last notable flow-run is cut off
  by the ceiling (`collector/samples.go:62`), where the comment at `:42` says that
  every one of them is kept. `ThinnedFairly` says what holds with room to spare.
- A watched run that its kill switch stopped exits with 0: `runLive` looks at
  `ended` and `breached` and not at `Aborted` (`cmd/flowbench/watch.go:265`,
  `:295`), while `docs/reference/cli.md:12` says 1 for an abort, and the batch
  run does so (`BatchExitTruthful`). A live run also leaves `RequestTimeout`
  unset, where a batch run sets it (`watch.go:244`).
- Two producers that save at the same moment may each rewrite the index without
  the other's run: its directory is whole and no listing shows it
  (`store.go:256`). `StoreSound` says what holds all the same.
- A producer that dies while `index.json` is cut to nothing leaves one that does
  not parse; whoever saves next fails on it (`store.go:248`).
- A flow that spells its header `cookie` gets it beside the declared cookie's
  `Cookie`, and the order of a Go map decides which is sent
  (`adapters/http.go:141`, `:362`); `AddCookie`'s comment says they ride
  alongside. The same goes for `authorization`.
- A dial that is left behind may open a leg of its own in a later hop, or after
  the last one is closed and before `finish` (`adapters/http.go:404`): a leg
  without an end. `LegsTellTheHops` holds of the calls it does not cross.
- A poll step is parsed and validated and never run
  (`executor/iteration.go:204`); an `endpoint` is accepted in every kind of step
  and never resolved (`docs/reference/yaml-dsl.md` documents both); `iterations`
  of a profile, the checks of a wait step and `key_id_header` without `key_id`
  have no reader. `Unread` lists them.
- `auth: {scheme: none, token: ...}` is accepted: `flattenAuth` drops an opt-out
  before the validator, whose comment says that no such key is a silent no-op,
  can look at it (`parser/parser.go:748`, `ir/validate.go:366`).
- A retry of a gRPC step reads gRPC codes in `on_status`, as `on_status: [14]`
  (`executor/grpc.go:99`), which the validator refuses for not being an HTTP
  status (`ir/validate.go:729`).
- A dotted reference under an extracted variable (`{{ token.x }}`), the bare name
  of a root (`{{ sub }}`) and an assertion on a root pass `checkRef` and have no
  value when the flow runs; `RefsResolve` leaves them out by name.
- A flow that declares inputs may be run on its own, as `ir/ir.go:107` says a
  default "is what lets the file still run on its own"; but only `runUse` sets
  inputs (`executor/iteration.go:131`), so `{{ inputs.x }}` has no value there,
  not even its default. `RefsResolve` leaves that out by name too.
- A series has `maxSeriesPoints` + 1 points at its longest
  (`collector/series.go`).
- A snapshot reads what is completed before what failed (`executor/pool.go:278`),
  so the live view may show an error rate above 100 % for a moment
  (`cmd/flowbench/watch.go:63`). `ProgressTruthful` bounds what failed by what is
  completed when the reading is published.
- `stepOrder`'s comment says that traces after the first are ignored; a longer
  one takes over (`report/funnel.go:110`), which is what makes `FunnelHonest`
  hold.
- The agent's scrape may take two seconds, which its comment calls well under the
  poll interval of one (`agent/poller.go:10`, `cmd/flowbench/agentpoll.go:13`).
- With three polls of an agent there are no two on each side of the knee, and its
  detail says that no series was recorded (`collector/knee.go:86`, `:224`).

## Not modelled

- *Evaluation* (`internal/eval`), *secrets*, the text of thresholds, ramps and
  assertions, YAML and JSON forms, protobuf descriptors, wire formats, reading
  /proc, pages and prompts: sequential translation without state, whose errors a
  unit test finds, or I/O.
- *Capturing* requests and responses in spans, with its size limits.
- The *Python SDK's* authoring and its live driver's pacing and retry; of the SDK
  only the store's writer is modelled.
- The *length* of waits and backoffs. FlowRun shows that each ends; a `wait` step
  does not look at its context, so how soon a cancelled run unwinds depends on
  the longest in flight.
- An arrival interval of zero (a rate above 1e9 a second).

Next: the Python driver's retry as a variant of FlowRun's; the size limits of
captured requests and responses.
