------------------------------- MODULE RunTiers -------------------------------
(***************************************************************************)
(* What a Result's samples are reduced to when the run is stored: the      *)
(* latency and the percentiles of internal/executor/sample.go, the         *)
(* bucketed series of internal/collector/series.go and the per-flow-run    *)
(* tier of samples.go.                                                     *)
(*                                                                         *)
(* A sample is [at, wait, service, outcome, throttled]: at is Actual, wait *)
(* is Actual - Intended.  A Result's samples are a sequence; a part of     *)
(* them is the set of their places in it.                                  *)
(***************************************************************************)
EXTENDS Integers, Sequences, SequencesExt, FiniteSets, Functions

CONSTANTS
  Ceiling,      \* keptSamplesCeiling
  MaxPoints,    \* maxSeriesPoints
  Ladder        \* bucketLadder, a strictly increasing sequence of widths

ASSUME TiersAssumption ==
  /\ Ceiling \in Nat \ {0} /\ MaxPoints \in Nat \ {0}
  /\ Ladder \in Seq(Nat \ {0}) /\ Ladder # <<>>

Latency(s) == s.wait + s.service

Failed(samples)    == {i \in DOMAIN samples : samples[i].outcome = "failed"}
Throttled(samples) == {i \in DOMAIN samples : samples[i].throttled}

Latencies(samples, part) == {Latency(samples[i]) : i \in part}

Below(samples, part, x) == {i \in part : Latency(samples[i]) < x}
UpTo(samples, part, x)  == {i \in part : Latency(samples[i]) =< x}

(* The place of a percentile.  The code truncates a product of floats,     *)
(* which may come out one place lower where the exact one is whole.        *)
Rank(part, pct) == (pct * (Cardinality(part) - 1)) \div 100

(* Percentile, of pct hundredths: the latency at that place when they are  *)
(* sorted.                                                                 *)
Percentile(samples, part, pct) ==
  IF part = {} THEN 0
  ELSE CHOOSE x \in Latencies(samples, part) :
         /\ Cardinality(Below(samples, part, x)) =< Rank(part, pct)
         /\ Rank(part, pct) < Cardinality(UpTo(samples, part, x))

-------------------------------------------------------------------------------
(* series.go *)

(* The end of the time axis: flow-runs may begin after the run's duration. *)
EndOf(res) ==
  LET ats == {res.samples[i].at : i \in DOMAIN res.samples} \cup {res.duration}
  IN CHOOSE m \in ats : \A a \in ats : a =< m

BucketWidth(total) ==
  LET fits == {i \in DOMAIN Ladder : total \div Ladder[i] =< MaxPoints}
  IN IF fits = {} THEN Last(Ladder) ELSE Ladder[CHOOSE i \in fits : \A j \in fits : i =< j]

Points(res) == EndOf(res) \div BucketWidth(EndOf(res)) + 1

BucketOf(res, s) == s.at \div BucketWidth(EndOf(res))

Bucket(res, i) == {k \in DOMAIN res.samples : BucketOf(res, res.samples[k]) = i}

Summary(samples, at, b) ==
  [at        |-> at,
   flowRuns  |-> Cardinality(b),
   ok        |-> Cardinality({i \in b : samples[i].outcome = "ok"}),
   failed    |-> Cardinality(Failed(samples) \cap b),
   skipped   |-> Cardinality({i \in b : samples[i].outcome = "skipped"}),
   throttled |-> Cardinality(Throttled(samples) \cap b),
   p50 |-> Percentile(samples, b, 50),
   p95 |-> Percentile(samples, b, 95),
   p99 |-> Percentile(samples, b, 99)]

BuildSeries(res) ==
  IF res.samples = <<>> THEN <<>>
  ELSE [i \in 1 .. Points(res) |->
          Summary(res.samples, (i - 1) * BucketWidth(EndOf(res)), Bucket(res, i - 1))]

-------------------------------------------------------------------------------
(* samples.go *)

Notable(s) == s.outcome # "ok" \/ s.throttled

CeilDiv(a, b) == (a + b - 1) \div b

Successes(samples) == {i \in DOMAIN samples : ~ Notable(samples[i])}

Stride(samples) ==
  LET successes == Cardinality(Successes(samples))
      budget    == Ceiling - (Len(samples) - successes)
  IN CASE budget >= successes -> 1
       [] budget < successes /\ budget =< 0 -> successes + 1
       [] budget < successes /\ budget > 0 -> CeilDiv(successes, budget)

(* How many successes come before the i-th sample. *)
SuccessesBefore(samples, i) == Cardinality({j \in Successes(samples) : j < i})

Wanted(samples, i) ==
  Notable(samples[i]) \/ SuccessesBefore(samples, i) % Stride(samples) = 0

(* The samples kept, by their place in the run: once the ceiling is        *)
(* reached nothing is kept any more.                                       *)
Kept(samples) ==
  {i \in DOMAIN samples :
     /\ Wanted(samples, i)
     /\ Cardinality({j \in DOMAIN samples : j < i /\ Wanted(samples, j)}) < Ceiling}

BuildSamples(samples) ==
  [total |-> Len(samples), everyNth |-> Stride(samples), kept |-> Kept(samples)]

-------------------------------------------------------------------------------
(* What the tiers promise of any Result. *)

(* The series accounts for every flow-run once, whenever it began, its     *)
(* buckets make a gapless grid that is bounded as long as the ladder       *)
(* reaches, and the three percentiles of a bucket are latencies of its own *)
(* in order (BuildSeries, bucketWidth, Percentile).                        *)
SeriesWhole(res) ==
  LET points == BuildSeries(res) IN
  /\ SumFunction([i \in DOMAIN points |-> points[i].flowRuns]) = Len(res.samples)
  /\ SumFunction([i \in DOMAIN points |-> points[i].failed]) = Cardinality(Failed(res.samples))
  /\ SumFunction([i \in DOMAIN points |-> points[i].throttled]) = Cardinality(Throttled(res.samples))
  /\ EndOf(res) \div Last(Ladder) =< MaxPoints => Len(points) =< MaxPoints + 1
  /\ \A i \in DOMAIN points :
       LET own == Latencies(res.samples, {k \in DOMAIN res.samples :
                    /\ points[i].at =< res.samples[k].at
                    /\ i < Len(points) => res.samples[k].at < points[i + 1].at})
       IN own # {} =>
            /\ {points[i].p50, points[i].p95, points[i].p99} \subseteq own
            /\ points[i].p50 =< points[i].p95 /\ points[i].p95 =< points[i].p99

(* Thinning is fair: the tier stays under its ceiling, nothing that did    *)
(* not simply succeed is dropped while there is room for all of it and a   *)
(* success beside it, and of the successes every everyNth is kept, the     *)
(* first among them (BuildSamples).  Without that room the first success   *)
(* takes the place of what is notable, whatever the comment there says.    *)
ThinnedFairly(samples) ==
  LET tier == BuildSamples(samples)
      successes == Successes(samples)
      notable == DOMAIN samples \ successes
  IN /\ Cardinality(tier.kept) =< Ceiling
     /\ Cardinality(notable) < Ceiling => notable \subseteq tier.kept
     /\ Len(samples) =< Ceiling => tier.kept = DOMAIN samples
     /\ notable \subseteq tier.kept =>
          \A i \in successes \cap tier.kept : \A j \in successes \cap tier.kept :
            i < j => Cardinality({k \in successes : i =< k /\ k < j}) % tier.everyNth = 0
===============================================================================
