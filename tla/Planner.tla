-------------------------------- MODULE Planner --------------------------------
(***************************************************************************)
(* From a profile to the population it puts on a target: planner.Plan and  *)
(* CheckCeilings (internal/planner/planner.go), then the arithmetic the    *)
(* executor drives the schedule with - curveAt and spawnTick (pool.go).    *)
(* executeLoad calls them in this order.  Durations are whole clock ticks, *)
(* Second of them to a second; ramp and cap strings are taken as parsed,   *)
(* Malformed when they do not.                                             *)
(***************************************************************************)
EXTENDS Integers, Sequences, FiniteSets

CONSTANTS
  Profiles,     \* the profiles of this instance
  Ceilings,     \* a target's max_vus and max_rps, 0 when unset
  Second,       \* clock ticks to a second
  MinTick, MaxTick, DefaultTick   \* spawnTick's 5ms, 200ms and 50ms

ASSUME ClockAssumption ==
  /\ Second \in Nat \ {0}
  /\ MinTick \in Nat \ {0}
  /\ MaxTick \in Nat
  /\ DefaultTick \in Nat \ {0}
  /\ MinTick <= MaxTick

VARIABLES
  phase,      \* "planning", "gating", "running", "over" or "refused"
  profile,
  ceiling,
  sched,      \* the schedule, once planned
  elapsed,    \* ticks since the start of the run
  spawned     \* virtual users runClosed has spawned

vars == <<phase, profile, ceiling, sched, elapsed, spawned>>

Unset     == [unset |-> TRUE]
Malformed == [malformed |-> TRUE]
Refused   == [refused |-> TRUE]

(* Profile.validate and TargetConfig.Validate: neither is negative; what a *)
(* ramp string says is not looked at before Plan.                          *)
ASSUME ProfileAssumption ==
  /\ \A p \in Profiles :
       /\ p.vus \in Nat /\ p.hold \in Nat
       /\ p.ramp \in [from : Int, to : Int, over : Int] \cup {Unset, Malformed}
  /\ \A c \in Ceilings : c.vus \in Nat /\ c.rps \in Nat

-------------------------------------------------------------------------------
(* Plan. *)

Sustained == {"load", "stress", "soak"}

BadRamp(r) ==
  r # Unset /\ (r = Malformed \/ r.from < 0 \/ r.to < 0 \/ r.over <= 0)

BadCap(c) == c # Unset /\ (c = Malformed \/ c.count <= 0 \/ c.per <= 0)

RampSegment(r) ==
  [kind |-> "ramp", start |-> r.from, end |-> r.to, duration |-> r.over]

HoldSegment(vus, d) ==
  [kind |-> "hold", start |-> vus, end |-> vus, duration |-> d]

PlanOnce(p) ==
  [mode |-> p.mode, arrival |-> "closed", segments |-> <<>>, stop |-> "once",
   cap |-> Unset, peak |-> IF p.vus = 0 THEN 1 ELSE p.vus, duration |-> 0]

RampOf(p) == IF p.ramp = Unset THEN <<>> ELSE <<RampSegment(p.ramp)>>
PeakOf(p) == IF p.ramp = Unset THEN p.vus ELSE p.ramp.to
SegmentsOf(p) ==
  RampOf(p) \o (IF p.hold > 0 THEN <<HoldSegment(PeakOf(p), p.hold)>> ELSE <<>>)

(* The end of each segment, in ticks from the start of the run. *)
Ends(segs) ==
  LET end[i \in 0 .. Len(segs)] ==
        IF i = 0 THEN 0 ELSE end[i - 1] + segs[i].duration
  IN  end

Total(segs) == Ends(segs)[Len(segs)]

PlanSustained(p) ==
  IF BadRamp(p.ramp) THEN Refused
  ELSE IF SegmentsOf(p) = <<>> \/ PeakOf(p) <= 0 THEN Refused
  ELSE [mode |-> p.mode,
        arrival |-> IF p.cap = Unset THEN "closed" ELSE "open",
        segments |-> SegmentsOf(p),
        stop |-> IF p.mode = "stress" THEN "thresholds" ELSE "duration",
        cap |-> p.cap,
        peak |-> PeakOf(p),
        duration |-> Total(SegmentsOf(p))]

Plan(p) ==
  IF BadCap(p.cap) THEN Refused
  ELSE IF p.mode \in Sustained THEN PlanSustained(p)
  ELSE PlanOnce(p)

(* CheckCeilings; the rate is count / per.Seconds(). *)
WithinCeilings(s, c) ==
  /\ c.vus > 0 => s.peak <= c.vus
  /\ c.rps > 0 /\ s.cap # Unset => s.cap.count * Second <= c.rps * s.cap.per

-------------------------------------------------------------------------------
(* Driving the schedule. *)

(* Go's integer conversion of a quotient: towards zero. *)
Truncated(a, b) == IF a >= 0 THEN a \div b ELSE - ((-a) \div b)

(* Mutant of Interpolated: cut off, not rounded. *)
InterpolatedDown(s, into) ==
  s.start + Truncated(into * (s.end - s.start), s.duration)

(* int(frac * (end - start) + 0.5) *)
Interpolated(s, into) ==
  s.start + Truncated(2 * into * (s.end - s.start) + s.duration, 2 * s.duration)

CurveAt(segs, at) ==
  LET ahead == {i \in DOMAIN segs : segs[i].duration > 0 /\ at < Ends(segs)[i]}
      i     == CHOOSE j \in ahead : \A k \in ahead : j <= k
  IN  CASE segs = <<>> -> 0
        [] segs # <<>> /\ ahead # {} -> Interpolated(segs[i], at - Ends(segs)[i - 1])
        [] OTHER -> segs[Len(segs)].end

SpawnTick(total, peak) ==
  LET t == total \div (2 * peak + 1)
  IN  IF total <= 0 \/ peak <= 0 THEN DefaultTick
      ELSE IF t < MinTick THEN MinTick
      ELSE IF t > MaxTick THEN MaxTick
      ELSE t

-------------------------------------------------------------------------------

Init ==
  /\ phase = "planning"
  /\ profile \in Profiles
  /\ ceiling \in Ceilings
  /\ sched = Refused
  /\ elapsed = 0
  /\ spawned = 0

PlanProfile ==
  /\ phase = "planning"
  /\ sched' = Plan(profile)
  /\ phase' = IF Plan(profile) = Refused THEN "refused" ELSE "gating"
  /\ UNCHANGED <<profile, ceiling, elapsed, spawned>>

(* executeLoad's gate; what passes starts at once, runClosed with the      *)
(* population the curve has at 0 and runOpen with a worker per peak VU.    *)
Gate ==
  /\ phase = "gating"
  /\ IF WithinCeilings(sched, ceiling)
       THEN /\ phase' = "running"
            /\ spawned' = IF sched.arrival = "closed" /\ sched.stop # "once"
                            THEN CurveAt(sched.segments, 0) ELSE sched.peak
       ELSE phase' = "refused" /\ UNCHANGED spawned
  /\ UNCHANGED <<profile, ceiling, sched, elapsed>>

(* A tick of runClosed's spawner, whatever time it reads: it spawns up to  *)
(* the curve and never takes a virtual user back.                          *)
SpawnerTick ==
  /\ phase = "running"
  /\ sched.arrival = "closed"
  /\ elapsed < sched.duration
  /\ \E later \in (elapsed + 1) .. sched.duration :
       /\ elapsed' = later
       /\ IF later >= sched.duration
            THEN phase' = "over" /\ UNCHANGED spawned
            ELSE /\ spawned' = LET target == CurveAt(sched.segments, later)
                               IN  IF spawned < target THEN target ELSE spawned
                 /\ UNCHANGED phase
  /\ UNCHANGED <<profile, ceiling, sched>>

Stopped ==
  /\ \/ phase \in {"refused", "over"}
     \/ phase = "running" /\ (sched.arrival = "open" \/ sched.stop = "once")
  /\ UNCHANGED vars

Next == PlanProfile \/ Gate \/ SpawnerTick \/ Stopped

Spec == Init /\ [][Next]_vars

-------------------------------------------------------------------------------

TypeOK ==
  /\ phase \in {"planning", "gating", "running", "over", "refused"}
  /\ profile \in Profiles
  /\ ceiling \in Ceilings
  /\ elapsed \in Nat
  /\ spawned \in Nat
  /\ phase \in {"running", "over"} => sched.peak \in Nat \ {0}

RampsUp == profile.ramp = Unset \/ (profile.ramp # Malformed /\ profile.ramp.from <= profile.ramp.to)

(* "max_vus caps the schedule's peak VU count": a run that passed the gate *)
(* never has more virtual users than the target's ceiling.                 *)
CeilingHolds == ceiling.vus > 0 => spawned <= ceiling.vus

(* The same, for the profiles the pool was written for: "the planner's     *)
(* shapes only ever ramp up then hold" (runClosed).                        *)
CeilingHoldsRampingUp == RampsUp => CeilingHolds /\ (phase = "running" => spawned <= sched.peak)

Running == phase = "running" /\ sched.segments # <<>>
Curve   == [t \in 0 .. sched.duration |-> CurveAt(sched.segments, t)]

(* A ramping-up schedule's curve follows the drawn line: it never falls,   *)
(* stays within half a virtual user of the exact interpolation, meets the  *)
(* hold without a step, and ends on the peak.                              *)
CurveFollowsTheRamp ==
  Running /\ RampsUp =>
    /\ \A t \in 1 .. sched.duration : Curve[t - 1] <= Curve[t]
    /\ Curve[sched.duration] = sched.peak
    /\ profile.ramp # Unset =>
         \A t \in 0 .. profile.ramp.over :
           LET exact == t * (profile.ramp.to - profile.ramp.from)
               off   == (Curve[t] - profile.ramp.from) * profile.ramp.over - exact
           IN  2 * off \in - profile.ramp.over .. profile.ramp.over

(* A ticker cannot be made with a period that is not positive, and one     *)
(* that is coarser than the ramp would spawn the population in a lump: the *)
(* spawner looks at the curve at least twice per virtual user, as far as   *)
(* its shortest and longest periods allow.                                 *)
SpawnerKeepsUp ==
  Running =>
    LET tick == SpawnTick(sched.duration, sched.peak)
    IN  /\ tick > 0
        /\ tick <= MaxTick
        /\ tick > MinTick => tick * (2 * sched.peak) < sched.duration

(* What passed the gate is driven as it was drawn.                         *)
PlannerSound == CeilingHoldsRampingUp /\ CurveFollowsTheRamp /\ SpawnerKeepsUp

-------------------------------------------------------------------------------
(* What makes PlannerSound inductive: the schedule is the profile's, the   *)
(* gate stands before the first virtual user, and the spawner goes as high *)
(* as the curve does.                                                      *)

PlanInv ==
  /\ profile \in Profiles /\ ceiling \in Ceilings /\ elapsed \in Nat
  /\ phase \in {"planning", "gating", "running", "over", "refused"}
  /\ phase \in {"gating", "running", "over"} => sched = Plan(profile) /\ sched # Refused
  /\ phase \in {"planning", "gating", "refused"} => spawned = 0
  /\ phase \in {"running", "over"} /\ ceiling.vus > 0 => sched.peak <= ceiling.vus
  /\ RampsUp => spawned \in Nat /\ (phase \in {"running", "over"} => spawned <= sched.peak)
===============================================================================
