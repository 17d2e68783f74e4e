-------------------------------- MODULE Verdict --------------------------------
(***************************************************************************)
(* What a load, stress or soak run makes of its Result once the pool has   *)
(* returned (executeLoad, cmd/flowbench/run.go): thresholds and trends are *)
(* evaluated (internal/collector/threshold.go, trend.go), a stress run's   *)
(* knee is classified against the agent's series (knee.go), and the tiers  *)
(* are written (RunTiers).                                                 *)
(*                                                                         *)
(* Rates and utilizations are fractions: a threshold's limit on a rate is  *)
(* in hundredths, and what floats compare is compared by cross products.   *)
(***************************************************************************)
EXTENDS RunTiers

CONSTANTS
  Results,         \* Results a pool may return: duration, samples, metrics
  Gates,           \* sets of thresholds a profile may declare
  AgentSeries,     \* series an agent may have given
  MinBucketRuns,   \* kneeMinBucketRuns
  CreepLimit,      \* latencyCreepLimit, in hundredths
  DriftLimit,      \* rateDriftLimit, in hundredths
  ResourceRise     \* kneeResourceRise, in hundredths

IsSample(s) == s.at \in Nat /\ s.wait \in Nat /\ s.service \in Nat

ASSUME JudgeAssumption ==
  /\ \A r \in Results :
       /\ r.duration \in Nat
       /\ r.samples \in Seq(Range(r.samples))
       /\ \A i \in DOMAIN r.samples : IsSample(r.samples[i])
  /\ \A declared \in Gates : \A g \in declared :
       /\ g.limit \in Nat /\ g.op \in {"<", "<=", ">", ">="}
       /\ g.kind \in {"latency", "error_rate", "throttle_rate"}
       /\ g.kind = "latency" => g.agg \in {"p", "avg", "max", "min"}
       /\ g.agg = "p" => g.pct \in 0 .. 100
  /\ \A a \in AgentSeries : a \in Seq(Range(a))
  /\ CreepLimit \in Nat /\ DriftLimit \in Nat

VARIABLES
  stage,      \* how far the command is
  mode,       \* the profile's mode
  res,        \* the Result
  gates,      \* the profile's thresholds, parsed
  broken,     \* the thresholds that failed
  trends,     \* the trends that failed
  series,     \* the agent's series
  knee        \* the knee, or none

verdictVars == <<stage, mode, res, gates, broken, trends, series, knee>>

NoKnee == [class |-> "none", at |-> 0, vus |-> 0]

(* errorRate and throttleRate, as the flow-runs they count. *)
Counted(samples, kind) == IF kind = "error_rate" THEN Failed(samples) ELSE Throttled(samples)

(* latencyAgg.  The mean is cut to whole nanoseconds. *)
LatencyAgg(samples, part, gate) ==
  IF part = {} THEN 0
  ELSE LET all == Latencies(samples, part) IN
       CASE gate.agg = "p"   -> Percentile(samples, part, gate.pct)
         [] gate.agg = "avg" -> SumFunction([i \in part |-> Latency(samples[i])]) \div Cardinality(part)
         [] gate.agg = "max" -> CHOOSE m \in all : \A x \in all : x =< m
         [] gate.agg = "min" -> CHOOSE m \in all : \A x \in all : m =< x

(* A threshold's metric against its limit, as a pair of numbers. *)
Sides(gate, samples, part) ==
  IF gate.kind = "latency" THEN <<LatencyAgg(samples, part, gate), gate.limit>>
  ELSE <<100 * Cardinality(Counted(samples, gate.kind) \cap part),
         gate.limit * (IF part = {} THEN 1 ELSE Cardinality(part))>>

Compared(op, a, b) ==
  CASE op = "<"  -> a < b
    [] op = "<=" -> a =< b
    [] op = ">"  -> a > b
    [] op = ">=" -> a >= b

Holds(gate, samples, part) ==
  LET v == Sides(gate, samples, part) IN Compared(gate.op, v[1], v[2])

(* splitAt and splitAtMidpoint: flow-runs by when they began. *)
BeganBefore(samples, at) == {i \in DOMAIN samples : samples[i].at < at}
BeganFrom(samples, at)   == {i \in DOMAIN samples : samples[i].at >= at}

(* How much the share of what is counted rose, in hundredths of the        *)
(* product of both lengths.                                                *)
Rise(counted, early, late) ==
  100 * (Cardinality(counted \cap late) * Cardinality(early)
         - Cardinality(counted \cap early) * Cardinality(late))

(* EvaluateTrends: the metrics that drifted from one half of the run to    *)
(* the other; without flow-runs in both there is nothing to compare.       *)
Trends(r) ==
  LET early == BeganBefore(r.samples, r.duration \div 2)
      late  == BeganFrom(r.samples, r.duration \div 2)
      e95   == Percentile(r.samples, early, 95)
  IN {t \in {"p95", "error_rate", "throttle_rate"} :
        /\ early # {} /\ late # {}
        /\ IF t = "p95" THEN e95 > 0 /\ 100 * Percentile(r.samples, late, 95) > (100 + CreepLimit) * e95
           ELSE Rise(Counted(r.samples, t), early, late) > DriftLimit * Cardinality(early) * Cardinality(late)}

-------------------------------------------------------------------------------
(* knee.go *)

(* kneeOnset: the first bucket with runs enough that breaks a gate the     *)
(* whole run broke, or the middle of the time axis.                        *)
Onset(r, breached) ==
  LET width == BucketWidth(EndOf(r))
      broke == {i \in 0 .. Points(r) - 1 :
                  /\ Cardinality(Bucket(r, i)) >= MinBucketRuns
                  /\ \E g \in breached : ~ Holds(g, r.samples, Bucket(r, i))}
  IN IF broke = {} THEN EndOf(r) \div 2
     ELSE width * (CHOOSE i \in broke : \A j \in broke : i =< j)

(* vusAt: the last tick at or before the knee; the first one after it      *)
(* stands in when there is none, or none with a virtual user.              *)
VUsAt(metrics, at) ==
  LET before == SelectSeq(metrics, LAMBDA m : m.at =< at)
      after  == SelectSeq(metrics, LAMBDA m : m.at > at)
  IN CASE before # <<>> /\ Last(before).vus # 0 -> Last(before).vus
       [] after # <<>> -> Head(after).vus
       [] OTHER -> 0

(* resourceWindows: where the agent's series is split, 0 when it is not.   *)
Split(agent, at) ==
  LET early == Cardinality(BeganBefore(agent, at))
      split == IF early < 2 \/ Len(agent) - early < 2 THEN Len(agent) \div 2 ELSE early
  IN IF Len(agent) < 3 \/ split < 2 \/ Len(agent) - split < 2 THEN 0 ELSE split

(* windowUse: the CPU seconds of a window over its time, and its mean      *)
(* memory, in hundredths.  An agent sample here has one core and a memory  *)
(* of a hundred.                                                           *)
CPUOf(w) ==
  LET dt == Last(w).at - Head(w).at IN
  IF dt > 0 THEN (100 * (Last(w).cpu - Head(w).cpu)) \div dt ELSE 0

MemOf(w) == SumFunction([i \in DOMAIN w |-> w[i].mem]) \div Len(w)

Rising(agent, at) ==
  LET split == Split(agent, at)
      pre   == SubSeq(agent, 1, split)
      post  == SubSeq(agent, split + 1, Len(agent))
  IN CPUOf(post) - CPUOf(pre) > ResourceRise \/ MemOf(post) - MemOf(pre) > ResourceRise

(* Mutant of Class: what the gates say is not asked. *)
ClassBySignals(throttleBroke, qualityBroke, rose, rising) ==
  IF rising THEN "degraded" ELSE IF rose THEN "throttled" ELSE "inconclusive"

Class(throttleBroke, qualityBroke, rose, rising) ==
  CASE throttleBroke /\ ~ rising /\ rose -> "throttled"
    [] qualityBroke /\ rising            -> "degraded"
    [] OTHER                             -> "inconclusive"

(* ClassifyKnee, of the thresholds that broke. *)
ClassifyKnee(r, breached, agent) ==
  IF breached = {} \/ r.samples = <<>> THEN NoKnee
  ELSE LET onset == Onset(r, breached)
           both(at) == BeganBefore(r.samples, at) # {} /\ BeganFrom(r.samples, at) # {}
           at   == IF both(onset) THEN onset ELSE r.duration \div 2
           pre  == BeganBefore(r.samples, at)
           post == BeganFrom(r.samples, at)
       IN [at    |-> at,
           vus   |-> VUsAt(r.metrics, at),
           class |-> IF ~ both(at) \/ Split(agent, at) = 0 THEN "inconclusive"
                     ELSE Class(\E g \in breached : g.kind = "throttle_rate",
                                \E g \in breached : g.kind # "throttle_rate",
                                Rise(Throttled(r.samples), pre, post) > 0,
                                Rising(agent, at))]

-------------------------------------------------------------------------------

VerdictInit ==
  /\ stage = "returned"
  /\ mode \in {"load", "stress", "soak"}
  /\ res \in Results
  /\ gates = {} /\ broken = {} /\ trends = {}
  /\ series = <<>>
  /\ knee = NoKnee

Evaluate ==
  /\ stage = "returned"
  /\ stage' = "evaluated"
  /\ gates' \in Gates
  /\ broken' = {g \in gates' : ~ Holds(g, res.samples, DOMAIN res.samples)}
  /\ trends' = IF mode = "soak" THEN Trends(res) ELSE {}
  /\ UNCHANGED <<mode, res, series, knee>>

Classify ==
  /\ stage = "evaluated"
  /\ stage' = "classified"
  /\ series' \in AgentSeries
  /\ knee' = IF mode = "stress" THEN ClassifyKnee(res, broken, series') ELSE NoKnee
  /\ UNCHANGED <<mode, res, gates, broken, trends>>

VerdictNext == Evaluate \/ Classify

VerdictSpec == VerdictInit /\ [][VerdictNext]_verdictVars

-------------------------------------------------------------------------------

(* The tiers of whatever a pool returned are whole. *)
TiersWhole == stage = "returned" => SeriesWhole(res) /\ ThinnedFairly(res.samples)

(* The flow-runs that took at least x. *)
Slow(samples, x) == Cardinality({i \in DOMAIN samples : Latency(samples[i]) >= x})

(* How many of n flow-runs stand at a percentile or above it. *)
AtOrAbove(pct, n) == n - (pct * (n - 1)) \div 100

(* What a latency gate is about, counted in flow-runs: the metric lies     *)
(* under x.                                                                *)
Under(g, samples, x) ==
  LET n == Len(samples) IN
  CASE g.agg = "p"   -> Slow(samples, x) < AtOrAbove(g.pct, n)
    [] g.agg = "max" -> Slow(samples, x) = 0
    [] g.agg = "min" -> Slow(samples, x) < n
    [] g.agg = "avg" -> SumFunction([i \in DOMAIN samples |-> Latency(samples[i])]) < x * n

Passes(g, samples) ==
  CASE samples = <<>> -> Compared(g.op, 0, g.limit)
    [] samples # <<>> /\ g.kind # "latency" ->
         Compared(g.op, 100 * Cardinality(Counted(samples, g.kind)), g.limit * Len(samples))
    [] samples # <<>> /\ g.kind = "latency" ->
         CASE g.op = "<"  -> Under(g, samples, g.limit)
           [] g.op = "<=" -> Under(g, samples, g.limit + 1)
           [] g.op = ">"  -> ~ Under(g, samples, g.limit + 1)
           [] g.op = ">=" -> ~ Under(g, samples, g.limit)

(* A gate is in breach exactly when too many flow-runs of the whole run    *)
(* are on its wrong side: as many failed or were throttled as its rate     *)
(* says, that share of them is slow for a percentile, one of them for a    *)
(* maximum, all of them for a minimum, and for a mean they are slow        *)
(* together.  A trend is only ever reported of a soak with flow-runs in    *)
(* both of its halves, the late ones worse than the early ones (Evaluate,  *)
(* EvaluateTrends, executeLoad).                                           *)
VerdictTruthful ==
  stage # "returned" =>
    /\ \A g \in gates : g \in broken <=> ~ Passes(g, res.samples)
    /\ \A t \in trends :
         /\ mode = "soak"
         /\ \E early, late \in DOMAIN res.samples :
              /\ res.samples[early].at < res.samples[late].at
              /\ \/ Latency(res.samples[late]) > Latency(res.samples[early])
                 \/ Notable(res.samples[late])

(* A knee is found exactly in a stress run that broke a gate, it lies in   *)
(* the run, and its class accuses nobody without evidence: saturation      *)
(* needs a quality gate and a resource that climbed, an enforced limit     *)
(* needs a throttle gate, throttles after the knee and flat resources, and *)
(* both need flow-runs and polls on either side (ClassifyKnee).            *)
KneeHasEvidence ==
  stage = "classified" =>
    /\ (knee # NoKnee) = (mode = "stress" /\ broken # {} /\ res.samples # <<>>)
    /\ knee.at \in 0 .. EndOf(res)
    /\ knee.class \in {"degraded", "throttled"} =>
         /\ Len(series) >= 4
         /\ BeganBefore(res.samples, knee.at) # {} /\ BeganFrom(res.samples, knee.at) # {}
    /\ knee.class = "degraded" =>
         \E g \in broken : g.kind # "throttle_rate"
    /\ knee.class = "throttled" =>
         /\ \E g \in broken : g.kind = "throttle_rate"
         /\ Throttled(res.samples) \cap BeganFrom(res.samples, knee.at) # {}
    /\ knee.class \in {"degraded", "throttled"} =>
         (knee.class = "degraded") = Rising(series, knee.at)

(* The three things made of a Result agree with it. *)
ResultJudged == TiersWhole /\ VerdictTruthful /\ KneeHasEvidence
===============================================================================
