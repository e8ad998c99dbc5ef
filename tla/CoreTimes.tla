----------------------------- MODULE CoreTimes -----------------------------
(***************************************************************************)
(* The load of the cores and clusters: DarwinSampler::sample_cpu and       *)
(* refresh_cpu_clusters (src/platform/darwin_sampler.cpp), and the place   *)
(* of sample_cpu in sample(): before the copy of the root metrics, whose   *)
(* frequencies and powers the clusters show.  User, system and nice ticks  *)
(* are one kind, busy; a percentage is rounded down.                       *)
(***************************************************************************)
EXTENDS Integers, Sequences, FiniteSetsExt

CONSTANTS
  CoreCount,  \* cpu_cores.size(), of the topology read at the start
  Counts,     \* what host_processor_info may give as cpu_count
  ClusterOf,  \* cluster_type of each core
  TickWidth,  \* a natural_t tick counter wraps at this value (2^32)
  MaxTicks,   \* bound on the ticks of all cores
  MaxRounds,  \* bound on the rounds of root metrics
  NoInfo      \* nullptr

ASSUME CoreAssumption ==
  /\ CoreCount \in Nat \ {0}
  /\ Counts \subseteq 1..(CoreCount + 1)
  /\ ClusterOf \in [1..CoreCount -> STRING]
  /\ TickWidth \in Nat \ {0}

VARIABLES
  ticks,     \* the kernel's busy and idle ticks per core, before they wrap
  count,     \* the kernel's number of processors
  root,      \* root_mode
  published, \* rounds with figures that the collector has published
  copied,    \* cached_root_metrics_: the round of the last copy; 0: none
  prevInfo,  \* previous_cpu_info_, one entry per processor
  load,      \* utilization_percent of each core
  clusters,  \* snapshot_.cpu_clusters: sum and number of the loads averaged,
             \* and the round of the frequency and the power shown; 0: none
  powerRound, \* the round of the GPU and system power shown
  atRead,    \* history: ticks at the last reading
  tickSpan,      \* history: what ticks had grown since the reading before
  compared,  \* history: the last reading had one before it to compare with
  readNow,   \* history: the last sample read the ticks
  probeNow,  \* history: the last sample's GPU probe was available
  copyBefore \* history: copied, before the last sample

kernelCores == <<ticks, count, root, published>>
shownCores == <<copied, prevInfo, load, clusters, powerRound>>
coreHistory == <<atRead, tickSpan, compared, readNow, probeNow, copyBefore>>
coreVars == <<kernelCores, shownCores, coreHistory>>

Cores == 1..CoreCount
Processors == 1..(CoreCount + 1)
ClusterNames == {ClusterOf[c] : c \in Cores}
CoresOf(name) == {c \in Cores : ClusterOf[c] = name}
NoTicks == [busy |-> 0, idle |-> 0]

\* Mutant of Refreshed: the loads of the sample before are averaged.
RefreshedEarly(loads, round) ==
  [name \in ClusterNames |->
     [sum |-> SumFunctionOnSet(load, CoresOf(name)),
      counted |-> Cardinality(CoresOf(name)),
      round |-> IF root THEN round ELSE 0]]

\* Mutant of Refreshed: the collector's metrics are read past the copy.
RefreshedShared(loads, round) ==
  [name \in ClusterNames |->
     [sum |-> SumFunctionOnSet(loads, CoresOf(name)),
      counted |-> Cardinality(CoresOf(name)),
      round |-> IF root THEN published ELSE 0]]

\* refresh_cpu_clusters: the mean of a cluster's cores as a sum and a number.
Refreshed(loads, round) ==
  [name \in ClusterNames |->
     [sum |-> SumFunctionOnSet(loads, CoresOf(name)),
      counted |-> Cardinality(CoresOf(name)),
      round |-> IF root THEN round ELSE 0]]

CoresInit ==
  /\ ticks = [c \in Processors |-> NoTicks]
  /\ count \in Counts
  /\ root \in BOOLEAN
  /\ published = 0 /\ copied = 0 /\ powerRound = 0 /\ copyBefore = 0
  /\ prevInfo = NoInfo
  /\ load = [c \in Cores |-> 0]
  /\ clusters = Refreshed(load, 0)
  /\ atRead = ticks /\ tickSpan = ticks
  /\ compared = FALSE /\ readNow = FALSE /\ probeNow = FALSE

-----------------------------------------------------------------------------
(***************************************************************************)
(* The machine and the collector.                                          *)
(***************************************************************************)

\* Fewer than TickWidth ticks pass between two readings: 2^32 are 497 days.
Tick(c, kind) ==
  /\ c <= count
  /\ SumFunction([k \in Processors |-> ticks[k].busy + ticks[k].idle]) < MaxTicks
  /\ ticks[c][kind] - atRead[c][kind] < TickWidth - 1
  /\ ticks' = [ticks EXCEPT ![c][kind] = @ + 1]
  /\ UNCHANGED <<count, root, published, shownCores, coreHistory>>

Processor ==
  /\ count' \in Counts \ {count}
  /\ UNCHANGED <<ticks, root, published, shownCores, coreHistory>>

\* RootMetrics has the collector in detail; a failed round publishes the
\* figures of the last success again.
Publish ==
  /\ root
  /\ published < MaxRounds
  /\ published' = published + 1
  /\ UNCHANGED <<ticks, count, root, shownCores, coreHistory>>

-----------------------------------------------------------------------------
(***************************************************************************)
(* sample().                                                               *)
(***************************************************************************)

Info == [c \in 1..count |->
           [busy |-> ticks[c].busy % TickWidth, idle |-> ticks[c].idle % TickWidth]]

\* Mutant of Grown: the ticks are widened before they are subtracted.
GrownWide(now, before) == (now - before) % (2 ^ 20)

\* The subtraction is one of two natural_t.
Grown(now, before) == (now - before) % TickWidth

Percent(busy, idle) == IF busy + idle = 0 THEN 0 ELSE (100 * busy) \div (busy + idle)

HavePrevious == prevInfo # NoInfo /\ Len(prevInfo) = count

\* A core beyond cpu_count keeps its load.
LoadNext ==
  [c \in Cores |->
     IF c > count THEN load[c]
     ELSE IF ~HavePrevious THEN 0
     ELSE Percent(Grown(Info[c].busy, prevInfo[c].busy),
                  Grown(Info[c].idle, prevInfo[c].idle))]

ReadCpu ==
  /\ load' = LoadNext
  /\ clusters' = Refreshed(load', copied)
  /\ prevInfo' = Info
  /\ atRead' = ticks
  /\ tickSpan' = [c \in Processors |-> [busy |-> ticks[c].busy - atRead[c].busy,
                                    idle |-> ticks[c].idle - atRead[c].idle]]
  /\ compared' = HavePrevious

\* host_processor_info fails: sample_cpu returns at once.
CpuUnread == UNCHANGED <<load, clusters, prevInfo, atRead, tickSpan, compared>>

CopyNext == IF root THEN published ELSE copied

\* sample_gpu takes the powers from the copy; it returns before that when the
\* GPU probe is not available, and the powers of an older copy stay.
PowerNext(probed) == IF probed THEN CopyNext ELSE powerRound

\* sample_cpu, then sample_root_metrics, then sample_gpu.
SampleCores(ok, probed) ==
  /\ IF ok THEN ReadCpu ELSE CpuUnread
  /\ copied' = CopyNext
  /\ powerRound' = PowerNext(probed)
  /\ readNow' = ok
  /\ probeNow' = probed
  /\ copyBefore' = copied
  /\ UNCHANGED kernelCores

CoresNext ==
  \/ \E c \in Cores, kind \in {"busy", "idle"} : Tick(c, kind)
  \/ Processor
  \/ Publish
  \/ \E ok, probed \in BOOLEAN : SampleCores(ok, probed)

CoresSpec == CoresInit /\ [][CoresNext]_coreVars

-----------------------------------------------------------------------------
(***************************************************************************)
(* Properties.                                                             *)
(***************************************************************************)

\* The load shown of a core is the busy part of the ticks since the reading
\* before, over any wrap of the counters and any failed reading in between,
\* and zero when the number of processors has changed.
LoadExact ==
  \A c \in Cores : readNow /\ c <= Len(prevInfo) =>
    load[c] = IF compared THEN Percent(tickSpan[c].busy, tickSpan[c].idle) ELSE 0

\* What a screen shows of a cluster is the mean of the cores on that screen,
\* whether the last reading failed or not.
ClustersAgree ==
  \A name \in ClusterNames :
    /\ clusters[name].sum = SumFunctionOnSet(load, CoresOf(name))
    /\ clusters[name].counted = Cardinality(CoresOf(name))

\* The loads on a screen are those of the ticks, of the cores and the clusters.
CoreFigures == LoadExact /\ ClustersAgree

\* Whose figures one screen puts side by side.  After a good reading the
\* frequencies and powers of the clusters are those of the copy the sample before
\* made, while the GPU and system power are those of this sample's copy if the
\* GPU probe answered: then the clusters are never newer.  While the probe does
\* not answer the powers are those of some older copy, and either may be newer.
ClustersTrailPower ==
  /\ powerRound <= copied /\ copied <= published
  /\ probeNow => powerRound = copied
  /\ \A name \in ClusterNames :
       /\ clusters[name].round <= copied
       /\ readNow => clusters[name].round = copyBefore
       /\ probeNow => clusters[name].round <= powerRound
=============================================================================
