----------------------------- MODULE MemoryRisk -----------------------------
(***************************************************************************)
(* The two verdicts on memory: the pressure the sampler derives from one   *)
(* sample (derive_memory_pressure) and the risk derived from a sample, the *)
(* samples before it and the workloads' memory (derive_memory_risk).       *)
(*                                                                         *)
(* A sample is a record of its memory fields; workloads count by the sum   *)
(* of their resident memory.  Divisions are the code's, of integers.       *)
(***************************************************************************)
EXTENDS Integers, Sequences

CONSTANTS
  MiB  \* bytes of a mebibyte, in the unit of the samples

ASSUME MiBAssumption == MiB \in Nat \ {0}

\* The memory fields of a sample.
Pressures == {"Unknown", "Normal", "Warn", "Critical"}

Memory ==
  [total : Nat, wired : Nat, active : Nat, used : Nat, compressed : Nat,
   inactive : Nat, speculative : Nat, purgeable : Nat, swapUsed : Nat,
   swapins : Nat, swapouts : Nat, pressure : Pressures]

GiB == 1024 * MiB

Larger(a, b) == IF a > b THEN a ELSE b

Smaller(a, b) == IF a < b THEN a ELSE b

Reclaimable(s) == s.inactive + s.speculative + s.purgeable

\* value is at least, at most percent of total.
AtLeast(value, percent, total) == 100 * value >= percent * total

AtMost(value, percent, total) == 100 * value <= percent * total

DerivePressure(s) ==
  LET SwapAbove(floor, share) == s.swapUsed >= Larger(floor, s.total \div share)
      Squeezed(compressed, reclaimable, active) ==
        /\ AtLeast(s.compressed, compressed, s.total)
        /\ AtMost(Reclaimable(s), reclaimable, s.total)
        /\ AtLeast(s.active + s.wired, active, s.total)
  IN IF s.total = 0 THEN "Unknown"
     ELSE IF SwapAbove(2 * GiB, 20) \/ Squeezed(20, 8, 50) THEN "Critical"
     ELSE IF SwapAbove(512 * MiB, 100) \/ Squeezed(10, 16, 45) THEN "Warn"
     ELSE "Normal"

\* sample_memory ends with the pressure.
WithPressure(s) == [s EXCEPT !.pressure = DerivePressure(s)]

-----------------------------------------------------------------------------

Levels == {"Unknown", "Ok", "Watch", "Warn", "Critical"}

\* How grave a level is.
Gravity == [l \in Levels |->
  CASE l = "Unknown" -> 0 [] l = "Ok" -> 1 [] l = "Watch" -> 2
    [] l = "Warn" -> 3 [] l = "Critical" -> 4]

PercentOf(value, percent) == (value \div 100) * percent

\* Mutant of CompressedRising: no history is taken for no change.
RisingSinceSample(s, history) ==
  history # <<>> /\ s.compressed > history[1].compressed

\* Mutant of CompressedRising: against the newest sample kept.
RisingSinceLast(s, history) ==
  IF history = <<>> THEN s.compressed > 0 ELSE s.compressed > history[Len(history)].compressed

\* Against the oldest sample kept; without one, against nothing.
CompressedRising(s, history) ==
  IF history = <<>> THEN s.compressed > 0 ELSE s.compressed > history[1].compressed

SwapIncreasing(s, history) ==
  IF history = <<>> THEN s.swapUsed > 0 ELSE s.swapUsed > history[1].swapUsed

Headroom(s) ==
  Larger(s.total - (s.wired + s.active + s.compressed), 0)
    + Smaller(Reclaimable(s), PercentOf(s.total, 20))

TotalsMissing(s) == s.total = 0 \/ (s.wired = 0 /\ s.active = 0 /\ s.used = 0)

IsCritical(s, history) ==
  \/ s.pressure = "Critical"
  \/ s.swapouts >= 16 * MiB
  \/ Headroom(s) < PercentOf(s.total, 5) /\ CompressedRising(s, history)

IsWarn(s, history) ==
  \/ s.pressure = "Warn"
  \/ SwapIncreasing(s, history) /\ s.swapins + s.swapouts > 0
  \/ Headroom(s) < PercentOf(s.total, 10)

IsWatch(s, workloadRss) ==
  \/ s.compressed > PercentOf(s.total, 10)
  \/ workloadRss > s.total \div 2
  \/ Headroom(s) < PercentOf(s.total, 20)

\* Mutant of DeriveRisk: the watch tests come before the warn tests.
DeriveRiskWatchFirst(s, history, workloadRss) ==
  IF TotalsMissing(s) THEN "Unknown"
  ELSE IF IsCritical(s, history) THEN "Critical"
  ELSE IF IsWatch(s, workloadRss) THEN "Watch"
  ELSE IF IsWarn(s, history) THEN "Warn"
  ELSE "Ok"

DeriveRisk(s, history, workloadRss) ==
  IF TotalsMissing(s) THEN "Unknown"
  ELSE IF IsCritical(s, history) THEN "Critical"
  ELSE IF IsWarn(s, history) THEN "Warn"
  ELSE IF IsWatch(s, workloadRss) THEN "Watch"
  ELSE "Ok"

-----------------------------------------------------------------------------

\* No figure of b is better than in a.
NoBetter(a, b) ==
  /\ a.total = b.total
  /\ \A f \in {"wired", "active", "used", "compressed", "swapUsed", "swapins", "swapouts"} :
       b[f] >= a[f]
  /\ Reclaimable(b) <= Reclaimable(a)
=============================================================================
