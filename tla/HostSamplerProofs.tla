------------------------- MODULE HostSamplerProofs -------------------------
(***************************************************************************)
(* Proofs about the three parts of DarwinSampler that share no state: the  *)
(* host rates (RateSampler), the shares of the processes (ProcessTimes)    *)
(* and the loads of the cores and clusters (CoreTimes), for any streams,   *)
(* interfaces, process ids, cores, counter widths and orders of calls.     *)
(***************************************************************************)
EXTENDS RateSampler, ProcessTimes, CoreTimes, SequenceTheorems, SumLemmas

(***************************************************************************)
(* The rates.                                                              *)
(***************************************************************************)

\* What a stream's counter says when it can be read.
Counter(s) == IF s = "net" THEN NetSum ELSE moved[s]

\* No more than this has been moved in all.
Total(s) == IF s = "net" THEN SumFunction(carried) ELSE moved[s]

RateTypes ==
  /\ streams \in StreamSets
  /\ moved \in [streams -> 0..MaxMoved]
  /\ carried \in [Interfaces -> 0..MaxMoved]
  /\ up \subseteq Interfaces
  /\ sampledOnce \in BOOLEAN
  /\ prev \in [streams -> Nat \cup {None}]
  /\ shown \in [streams -> [status : {"Waiting", "Available", "Unavailable"}, rate : Nat]]
  /\ plot \in Seq([Plotted -> Nat])
  /\ since \in [streams -> Nat]
  /\ sinceRead \in [streams -> Nat]
  /\ interval \in [streams -> Nat]
  /\ span \in [streams -> Nat]

RateFlags ==
  /\ readOk \in [streams -> BOOLEAN]
  /\ clean \in [streams -> BOOLEAN]

PlotTrimmed == Len(plot) <= HistoryLimit

\* A previous reading is there only once the time of a sample is.
PrevIsTimed == \A s \in streams : prev[s] # None => sampledOnce

\* The counters of the VM statistics never go back and are stored only when
\* read, so the stored reading is behind by what was moved since.
VmPrevBehind ==
  \A s \in streams \cap {"swap", "paging"} : prev[s] # None =>
    prev[s] + sinceRead[s] = moved[s]

\* After a good reading, and until a counter wraps, comes or goes, the stored
\* reading is behind by what was moved since that sample.
ReadIsExact ==
  \A s \in streams : readOk[s] => prev[s] # None /\ prev[s] + since[s] = Counter(s)

RateInv ==
  /\ RateTypes
  /\ RateFlags
  /\ PlotTrimmed
  /\ PrevIsTimed
  /\ VmPrevBehind
  /\ ReadIsExact
  /\ ExactRate
  /\ NoUnderflow
  /\ VmCountsSinceLastRead

\* The sum over the active interfaces neither wraps nor exceeds what all have
\* carried.
LEMMA NetSumBounded ==
  ASSUME carried \in [Interfaces -> 0..MaxMoved], up \subseteq Interfaces
  PROVE  NetSum \in 0..(Word - 1) /\ NetSum <= SumFunction(carried)
         /\ SumFunction(carried) \in Nat
  <1> USE RateAssumption
  <1> DEFINE part == [i \in up |-> carried[i] % Width]
             all  == [i \in Interfaces |-> carried[i] % Width]
  <1>1. all \in [Interfaces -> 0..(Width - 1)]
    OBVIOUS
  <1>2. \A i \in Interfaces : all[i] \in Nat /\ all[i] <= carried[i] /\ carried[i] \in Nat
    BY ModLe
  <1>3. \A i \in up : part[i] \in Int /\ all[i] = part[i]
    OBVIOUS
  <1>4. NetSum = SumFunctionOnSet(part, up)
    BY DEF NetSum, SumFunction
  <1>5. SumFunction(all) = SumFunctionOnSet(all, Interfaces)
        /\ SumFunction(carried) = SumFunctionOnSet(carried, Interfaces)
    BY DEF SumFunction
  <1> HIDE DEF part, all
  <1>6. SumFunctionOnSet(part, up) = SumFunctionOnSet(all, up)
    BY <1>3, FS_Subset, SumSame
  <1>7. SumFunctionOnSet(all, up) <= SumFunctionOnSet(all, Interfaces)
        /\ SumFunctionOnSet(all, up) \in Nat /\ SumFunctionOnSet(all, Interfaces) \in Nat
    BY <1>2, SumPart
  <1>8. SumFunctionOnSet(all, Interfaces) <= SumFunctionOnSet(carried, Interfaces)
        /\ SumFunctionOnSet(carried, Interfaces) \in Nat
    BY <1>2, SumMonotone, SumPart
  <1>9. SumFunction(all) < Word
    BY <1>1
  <1>10. QED
    BY <1>4, <1>5, <1>6, <1>7, <1>8, <1>9

\* What a sample reads: the counter itself when it is readable.
LEMMA ReadingBounded ==
  ASSUME RateTypes, NEW s \in streams, NEW ok
  PROVE  /\ Counter(s) \in Nat /\ Total(s) \in Nat
         /\ Reading(s, ok) \in 0..(Word - 1)
         /\ Reading(s, ok) <= Total(s)
         /\ Readable(s, ok) => Reading(s, ok) = Counter(s)
  <1>1. NetSum \in 0..(Word - 1) /\ NetSum <= SumFunction(carried)
        /\ SumFunction(carried) \in Nat
    BY NetSumBounded DEF RateTypes
  <1>2. moved[s] \in 0..MaxMoved /\ 0 \in 0..(Word - 1) /\ MaxMoved \in 0..(Word - 1)
    BY RateAssumption DEF RateTypes
  <1>3. CASE s = "net"
    BY <1>1, <1>3 DEF Reading, Counter, Total
  <1>4. CASE s # "net"
    BY <1>2, <1>4, RateAssumption DEF Reading, Counter, Total
  <1>5. QED
    BY <1>3, <1>4

\* A comparable reading is shown as the distance to the one before.
LEMMA DeltaIsDistance ==
  ASSUME RateTypes, NEW s \in streams, NEW ok, Comparable(s, Reading(s, ok))
  PROVE  /\ prev[s] \in Nat
         /\ Delta(s, Reading(s, ok)) = Reading(s, ok) - prev[s]
         /\ Delta(s, Reading(s, ok)) \in Nat
  <1> DEFINE reading == Reading(s, ok)
  <1>1. reading \in 0..(Word - 1)
    BY ReadingBounded
  <1>2. prev[s] \in Nat /\ reading >= prev[s]
    BY DEF RateTypes, Comparable
  <1> HIDE DEF reading
  <1>3. reading - prev[s] \in 0..(Word - 1)
    BY <1>1, <1>2, RateAssumption
  <1>4. (reading - prev[s]) % Word = reading - prev[s]
    BY <1>3, ModSmall, RateAssumption
  <1>5. QED
    BY <1>2, <1>3, <1>4 DEF Delta, reading

LEMMA RateInit == Init => RateInv
  <1> SUFFICES ASSUME Init PROVE RateInv
    OBVIOUS
  <1>1. RateTypes
    <2>1. plot \in Seq([Plotted -> Nat])
      BY DEF Init
    <2>2. \A s \in streams : Waiting(0) \in
            [status : {"Waiting", "Available", "Unavailable"}, rate : Nat]
      BY DEF Waiting
    <2>3. moved \in [streams -> 0..MaxMoved] /\ carried \in [Interfaces -> 0..MaxMoved]
      BY RateAssumption DEF Init
    <2>4. shown \in [streams -> [status : {"Waiting", "Available", "Unavailable"}, rate : Nat]]
      BY <2>2 DEF Init
    <2>5. /\ prev \in [streams -> Nat \cup {None}]
          /\ since \in [streams -> Nat] /\ sinceRead \in [streams -> Nat]
          /\ interval \in [streams -> Nat] /\ span \in [streams -> Nat]
      BY DEF Init
    <2>6. QED
      BY <2>1, <2>3, <2>4, <2>5 DEF Init, RateTypes
  <1>2. RateFlags /\ (\A s \in streams : ~readOk[s] /\ ~clean[s])
    BY Zenon DEF Init, RateFlags
  <1>3. PlotTrimmed
    BY RateAssumption DEF Init, PlotTrimmed
  <1>4. PrevIsTimed /\ VmPrevBehind
    BY DEF Init, PrevIsTimed, VmPrevBehind
  <1>5. NoUnderflow /\ VmCountsSinceLastRead
    <2>1. \A s \in streams : shown[s].rate = 0 /\ shown[s].status = "Waiting"
      BY DEF Init, Waiting
    <2>2. \A s \in streams : Total(s) \in Nat
      BY <1>1, ReadingBounded
    <2>3. QED
      BY <2>1, <2>2 DEF NoUnderflow, VmCountsSinceLastRead, CountsSince, Total
  <1>6. QED
    BY <1>1, <1>2, <1>3, <1>4, <1>5 DEF RateInv, ReadIsExact, ExactRate

\* The kernel moves something of a stream other than the net.
LEMMA TrafficInv ==
  ASSUME RateInv, NEW t \in streams, Traffic(t) PROVE RateInv'
  <1> USE DEF RateInv
  <1>1. /\ t # "net" /\ moved[t] < MaxMoved
        /\ moved' = [moved EXCEPT ![t] = @ + 1]
        /\ since' = [since EXCEPT ![t] = @ + 1]
        /\ sinceRead' = [sinceRead EXCEPT ![t] = @ + 1]
        /\ UNCHANGED <<carried, up, interval, span, readOk, clean>>
        /\ UNCHANGED <<streams, sampledOnce, prev, shown, plot>>
    BY DEF Traffic, Grow, samplerVars
  <1>2. Plotted' = Plotted /\ NetSum' = NetSum
    BY <1>1 DEF Plotted, NetSum
  <1>3. RateTypes'
    <2>1. moved' \in [streams -> 0..MaxMoved]
      BY <1>1, RateAssumption DEF RateTypes
    <2>2. since' \in [streams -> Nat] /\ sinceRead' \in [streams -> Nat]
      BY <1>1 DEF RateTypes
    <2>3. QED
      BY <1>1, <1>2, <2>1, <2>2 DEF RateTypes
  <1>grown. /\ moved'[t] = moved[t] + 1 /\ since'[t] = since[t] + 1
            /\ sinceRead'[t] = sinceRead[t] + 1
            /\ \A s \in streams : s # t =>
                 moved'[s] = moved[s] /\ since'[s] = since[s] /\ sinceRead'[s] = sinceRead[s]
            /\ \A s \in streams : moved[s] \in Int /\ since[s] \in Int /\ sinceRead[s] \in Int
                                   /\ (prev[s] # None => prev[s] \in Int)
    BY <1>1 DEF RateTypes
  <1>4. RateFlags'
    BY <1>1 DEF RateFlags
  <1>5. PlotTrimmed' /\ PrevIsTimed'
    BY <1>1 DEF PlotTrimmed, PrevIsTimed
  <1>6. VmPrevBehind'
    BY <1>1, <1>grown DEF VmPrevBehind
  <1>7. ReadIsExact'
    BY <1>1, <1>2, <1>grown DEF ReadIsExact, Counter
  <1>8. ExactRate' /\ VmCountsSinceLastRead'
    BY <1>1 DEF ExactRate, VmCountsSinceLastRead, CountsSince
  <1>9. NoUnderflow'
    <2> SUFFICES ASSUME NEW s \in streams
                 PROVE  shown[s].rate <= IF s = "net" THEN SumFunction(carried) ELSE moved'[s]
      BY <1>1 DEF NoUnderflow
    <2>1. shown[s].rate \in Int /\ shown[s].rate <= IF s = "net" THEN SumFunction(carried) ELSE moved[s]
      BY DEF NoUnderflow, RateTypes
    <2>2. moved[s] \in Int /\ (moved'[s] = moved[s] \/ moved'[s] = moved[s] + 1)
      BY <1>grown
    <2>3. QED
      BY <1>1, <2>1, <2>2
  <1>10. QED
    BY <1>3, <1>4, <1>5, <1>6, <1>7, <1>8, <1>9

\* An interface carries something: its counter goes up by one or wraps.
LEMMA CarryInv ==
  ASSUME RateInv, NEW i \in Interfaces, Carry(i) PROVE RateInv'
  <1> USE DEF RateInv
  <1>1. /\ "net" \in streams /\ i \in up /\ carried[i] < MaxMoved
        /\ carried' = [carried EXCEPT ![i] = @ + 1]
        /\ since' = [since EXCEPT !["net"] = @ + 1]
        /\ sinceRead' = [sinceRead EXCEPT !["net"] = @ + 1]
        /\ readOk' = [readOk EXCEPT !["net"] = @ /\ carried'[i] % Width # 0]
        /\ UNCHANGED <<moved, up, interval, span, clean>>
        /\ UNCHANGED <<streams, sampledOnce, prev, shown, plot>>
    BY DEF Carry, Grow, samplerVars
  <1>2. Plotted' = Plotted
    BY <1>1 DEF Plotted
  <1>3. RateTypes'
    <2>1. carried' \in [Interfaces -> 0..MaxMoved]
      BY <1>1, RateAssumption DEF RateTypes
    <2>2. since' \in [streams -> Nat] /\ sinceRead' \in [streams -> Nat]
      BY <1>1 DEF RateTypes
    <2>3. QED
      BY <1>1, <1>2, <2>1, <2>2 DEF RateTypes
  <1>4. RateFlags' /\ (\A s \in streams : readOk'[s] => readOk[s])
        /\ (readOk'["net"] => carried'[i] % Width # 0)
    <2>1. readOk'["net"] = (readOk["net"] /\ carried'[i] % Width # 0)
      BY <1>1, Zenon DEF RateFlags
    <2>2. \A s \in streams : s # "net" => readOk'[s] = readOk[s]
      BY <1>1, Zenon DEF RateFlags
    <2>3. readOk' \in [streams -> BOOLEAN]
      BY <1>1, Zenon DEF RateFlags
    <2>4. QED
      BY <1>1, <2>1, <2>2, <2>3, Zenon DEF RateFlags
  <1>5. PlotTrimmed' /\ PrevIsTimed'
    BY <1>1 DEF PlotTrimmed, PrevIsTimed
  <1>6. VmPrevBehind'
    BY <1>1 DEF VmPrevBehind, RateTypes
  <1>7. carried'[i] % Width # 0 => NetSum' = NetSum + 1
    <2> SUFFICES ASSUME carried'[i] % Width # 0 PROVE NetSum' = NetSum + 1
      OBVIOUS
    <2> DEFINE f == [k \in up |-> carried[k] % Width]
               g == [k \in up |-> carried'[k] % Width]
    <2>1. carried'[i] = carried[i] + 1 /\ carried[i] \in Nat
      BY <1>1 DEF RateTypes
    <2>2. g[i] = f[i] + 1
      BY <1>1, <2>1, ModNext, RateAssumption
    <2>3. \A k \in up : k # i => g[k] = f[k]
      BY <1>1 DEF RateTypes
    <2>4. \A k \in up : f[k] \in Int
      BY RateAssumption DEF RateTypes
    <2>5. NetSum = SumFunctionOnSet(f, up) /\ NetSum' = SumFunctionOnSet(g, up)
      BY <1>1 DEF NetSum, SumFunction
    <2>6. IsFiniteSet(up)
      BY FS_Subset, RateAssumption DEF RateTypes
    <2> HIDE DEF f, g
    <2>7. QED
      BY <1>1, <2>2, <2>3, <2>4, <2>5, <2>6, SumGrowsByOne
  <1>8. ReadIsExact'
    <2> SUFFICES ASSUME NEW s \in streams, readOk'[s]
                 PROVE  prev[s] # None /\ prev[s] + since'[s] = Counter(s)'
      BY <1>1 DEF ReadIsExact
    <2>1. readOk[s] /\ prev[s] # None /\ prev[s] + since[s] = Counter(s) /\ prev[s] \in Nat
      BY <1>4 DEF ReadIsExact, RateTypes
    <2>2. CASE s # "net"
      BY <1>1, <2>1, <2>2 DEF Counter, RateTypes
    <2>3. CASE s = "net"
      BY <1>1, <1>4, <1>7, <2>1, <2>3 DEF Counter, RateTypes
    <2>4. QED
      BY <2>2, <2>3
  <1>9. ExactRate' /\ VmCountsSinceLastRead'
    BY <1>1 DEF ExactRate, VmCountsSinceLastRead, CountsSince
  <1>10. NoUnderflow'
    <2>1. SumFunction(carried') = SumFunction(carried) + 1
      <3>1. DOMAIN carried = Interfaces /\ DOMAIN carried' = Interfaces
            /\ (\A k \in Interfaces : carried[k] \in Int)
        BY <1>3 DEF RateTypes
      <3>2. carried'[i] = carried[i] + 1 /\ (\A k \in Interfaces : k # i => carried'[k] = carried[k])
        BY <1>1 DEF RateTypes
      <3>3. QED
        BY <3>1, <3>2, SumGrowsByOne, RateAssumption DEF SumFunction
    <2>2. SumFunction(carried) \in Nat
      BY NetSumBounded DEF RateTypes
    <2> SUFFICES ASSUME NEW s \in streams
                 PROVE  shown[s].rate <= IF s = "net" THEN SumFunction(carried') ELSE moved[s]
      BY <1>1 DEF NoUnderflow
    <2>3. shown[s].rate \in Int /\ shown[s].rate <= IF s = "net" THEN SumFunction(carried) ELSE moved[s]
      BY DEF NoUnderflow, RateTypes
    <2>4. QED
      BY <2>1, <2>2, <2>3
  <1>11. QED
    BY <1>3, <1>4, <1>5, <1>6, <1>8, <1>9, <1>10

LEMMA FlapInv ==
  ASSUME RateInv, NEW i \in Interfaces, Flap(i) PROVE RateInv'
  <1> USE DEF RateInv
  <1>1. /\ "net" \in streams
        /\ up' \subseteq Interfaces
        /\ readOk' = [readOk EXCEPT !["net"] = FALSE]
        /\ UNCHANGED <<moved, carried, since, sinceRead, interval, span, clean>>
        /\ UNCHANGED <<streams, sampledOnce, prev, shown, plot>>
    BY DEF Flap, samplerVars, RateTypes
  <1>2. Plotted' = Plotted
    BY <1>1 DEF Plotted
  <1>3. RateTypes'
    BY <1>1, <1>2 DEF RateTypes
  <1>4. RateFlags' /\ ~readOk'["net"] /\ (\A s \in streams : readOk'[s] => readOk[s])
    BY <1>1, Zenon DEF RateFlags
  <1>5. PlotTrimmed' /\ PrevIsTimed' /\ VmPrevBehind'
    BY <1>1 DEF PlotTrimmed, PrevIsTimed, VmPrevBehind
  <1>6. ReadIsExact'
    BY <1>1, <1>4 DEF ReadIsExact, Counter
  <1>7. ExactRate' /\ VmCountsSinceLastRead' /\ NoUnderflow'
    BY <1>1 DEF ExactRate, VmCountsSinceLastRead, CountsSince, NoUnderflow
  <1>8. QED
    BY <1>3, <1>4, <1>5, <1>6, <1>7

\* sample(): what is stored, shown and appended to the plots.
LEMMA SampleInv ==
  ASSUME RateInv, NEW ok \in [streams -> BOOLEAN], Sample(ok) PROVE RateInv'
  <1> USE DEF RateInv
  <1>1. /\ sampledOnce'
        /\ shown' = [s \in streams |-> ShownNext(s, ok[s])]
        /\ prev' = [s \in streams |-> PrevNext(s, ok[s])]
        /\ plot' = Appended(plot, [s \in Plotted |-> shown'[s].rate])
        /\ interval' = since /\ span' = sinceRead
        /\ since' = [s \in streams |-> 0]
        /\ sinceRead' = [s \in streams |-> IF Readable(s, ok[s]) THEN 0 ELSE sinceRead[s]]
        /\ clean' = [s \in streams |-> readOk[s] /\ Readable(s, ok[s])]
        /\ readOk' = [s \in streams |-> Readable(s, ok[s])]
        /\ UNCHANGED <<moved, carried, up, streams>>
    BY DEF Sample, kernelVars
  <1>2. Plotted' = Plotted /\ Plotted \subseteq streams /\ NetSum' = NetSum
        /\ (\A s : Counter(s)' = Counter(s) /\ Total(s)' = Total(s))
    BY <1>1 DEF Plotted, NetSum, Counter, Total
  <1>3. \A s \in streams :
          /\ Counter(s) \in Nat /\ Total(s) \in Nat
          /\ Reading(s, ok[s]) \in Nat /\ Reading(s, ok[s]) <= Total(s)
          /\ Readable(s, ok[s]) => Reading(s, ok[s]) = Counter(s)
    BY ReadingBounded, RateAssumption
  <1>4. \A s \in streams : Comparable(s, Reading(s, ok[s])) =>
          /\ prev[s] \in Nat
          /\ Delta(s, Reading(s, ok[s])) = Reading(s, ok[s]) - prev[s]
          /\ Delta(s, Reading(s, ok[s])) \in Nat
    BY DeltaIsDistance
  <1>5. \A s \in streams :
          /\ shown'[s] \in [status : {"Waiting", "Available", "Unavailable"}, rate : Nat]
          /\ shown'[s].rate <= Total(s)
          /\ shown'[s].status = "Available" =>
               Readable(s, ok[s]) /\ Comparable(s, Reading(s, ok[s]))
               /\ shown'[s].rate = Counter(s) - prev[s]
    <2> SUFFICES ASSUME NEW s \in streams
                 PROVE  /\ shown'[s] \in [status : {"Waiting", "Available", "Unavailable"}, rate : Nat]
                        /\ shown'[s].rate <= Total(s)
                        /\ shown'[s].status = "Available" =>
                             Readable(s, ok[s]) /\ Comparable(s, Reading(s, ok[s]))
                             /\ shown'[s].rate = Counter(s) - prev[s]
      OBVIOUS
    <2>1. shown'[s] = ShownNext(s, ok[s])
      BY <1>1
    <2>2. shown[s].rate \in Nat /\ shown[s].rate <= Total(s) /\ Total(s) \in Nat
      BY <1>3 DEF RateTypes, NoUnderflow, Total
    <2>3. CASE Readable(s, ok[s]) /\ Comparable(s, Reading(s, ok[s]))
      <3>1. shown'[s] = Available(Reading(s, ok[s]) - prev[s])
        BY <1>4, <2>1, <2>3 DEF ShownNext
      <3>2. Reading(s, ok[s]) - prev[s] \in Nat /\ Reading(s, ok[s]) - prev[s] <= Total(s)
        BY <1>3, <1>4, <2>3
      <3>3. QED
        BY <1>3, <2>3, <3>1, <3>2 DEF Available
    <2>4. CASE ~(Readable(s, ok[s]) /\ Comparable(s, Reading(s, ok[s])))
      BY <2>1, <2>2, <2>4 DEF ShownNext, Waiting, Unavailable
    <2>5. QED
      BY <2>3, <2>4
  <1>6. \A s \in streams :
          /\ prev'[s] \in Nat \cup {None}
          /\ Readable(s, ok[s]) => prev'[s] = Counter(s)
          /\ ~Readable(s, ok[s]) /\ s # "disk" => prev'[s] = prev[s]
    BY <1>1, <1>3 DEF PrevNext, RateTypes
  <1>7. \A s \in streams : prev'[s] # None /\ Readable(s, ok[s]) => prev'[s] \in Nat
    BY <1>6
  <1>8. RateTypes'
    <2>1. shown' \in [streams -> [status : {"Waiting", "Available", "Unavailable"}, rate : Nat]]
      BY <1>1, <1>5
    <2>2. prev' \in [streams -> Nat \cup {None}]
      BY <1>1, <1>6
    <2>3. plot' \in Seq([Plotted -> Nat])
      <3> DEFINE point == [s \in Plotted |-> shown'[s].rate]
      <3>1. point \in [Plotted -> Nat]
        BY <1>2, <1>5
      <3> HIDE DEF point
      <3>2. Append(plot, point) \in Seq([Plotted -> Nat]) /\ Append(plot, point) # <<>>
        <4> DEFINE Points == [Plotted -> Nat]
        <4>1. plot \in Seq(Points) /\ point \in Points
          BY <3>1 DEF RateTypes
        <4> HIDE DEF Points
        <4>2. Append(plot, point) \in Seq(Points) /\ Append(plot, point) # <<>>
              /\ Len(Append(plot, point)) = Len(plot) + 1
          BY <4>1, AppendProperties
        <4>3. QED
          BY <4>2 DEF Points
      <3>3. Tail(Append(plot, point)) \in Seq([Plotted -> Nat])
        BY <3>2, HeadTailProperties
      <3>4. QED
        BY <1>1, <3>2, <3>3 DEF Appended, point
    <2>4. /\ since' \in [streams -> Nat] /\ sinceRead' \in [streams -> Nat]
          /\ interval' \in [streams -> Nat] /\ span' \in [streams -> Nat]
      BY <1>1 DEF RateTypes
    <2>5. QED
      BY <1>1, <1>2, <2>1, <2>2, <2>3, <2>4 DEF RateTypes
  <1>9. RateFlags' /\ (\A s \in streams : readOk'[s] <=> Readable(s, ok[s]))
        /\ (\A s \in streams : clean'[s] <=> readOk[s] /\ Readable(s, ok[s]))
    <2>1. \A s \in streams : Readable(s, ok[s]) \in BOOLEAN
                             /\ (readOk[s] /\ Readable(s, ok[s])) \in BOOLEAN
      <3>1. \A s \in streams : ok[s] \in BOOLEAN
        OBVIOUS
      <3>2. QED
        BY <3>1, Zenon DEF Readable
    <2>2. readOk' \in [streams -> BOOLEAN] /\ clean' \in [streams -> BOOLEAN]
      BY <1>1, <2>1, Zenon
    <2>3. (\A s \in streams : readOk'[s] = Readable(s, ok[s]))
          /\ (\A s \in streams : clean'[s] = (readOk[s] /\ Readable(s, ok[s])))
      BY <1>1, Zenon
    <2>4. QED
      BY <1>1, <2>2, <2>3, Zenon DEF RateFlags
  <1>10. PlotTrimmed'
    <2> DEFINE point == [s \in Plotted |-> shown'[s].rate]
    <2>1. Len(Append(plot, point)) = Len(plot) + 1 /\ Append(plot, point) \in Seq([Plotted -> Nat])
         /\ Append(plot, point) # <<>>
      <3>1. point \in [Plotted -> Nat]
        BY <1>2, <1>5
      <3> HIDE DEF point
      <3>2. QED
        <4> DEFINE Points == [Plotted -> Nat]
        <4>1. plot \in Seq(Points) /\ point \in Points
          BY <3>1 DEF RateTypes
        <4> HIDE DEF Points
        <4>2. Append(plot, point) \in Seq(Points) /\ Append(plot, point) # <<>>
              /\ Len(Append(plot, point)) = Len(plot) + 1
          BY <4>1, AppendProperties
        <4>3. QED
          BY <4>2 DEF Points
    <2>2. plot' = IF Len(plot) + 1 > HistoryLimit THEN Tail(Append(plot, point))
                  ELSE Append(plot, point)
      BY <1>1, <2>1 DEF Appended
    <2> HIDE DEF point
    <2>3. Len(plot) \in Nat /\ Len(Tail(Append(plot, point))) = Len(plot)
      BY <2>1, HeadTailProperties, LenProperties DEF RateTypes
    <2>4. QED
      BY <2>1, <2>2, <2>3, RateAssumption DEF PlotTrimmed
  <1>11. PrevIsTimed'
    BY <1>1 DEF PrevIsTimed
  <1>12. VmPrevBehind'
    <2> SUFFICES ASSUME NEW s \in streams, s \in {"swap", "paging"}, prev'[s] # None
                 PROVE  prev'[s] + sinceRead'[s] = moved[s]
      BY <1>1 DEF VmPrevBehind
    <2>1. CASE Readable(s, ok[s])
      BY <1>1, <1>3, <1>6, <2>1 DEF Counter
    <2>2. CASE ~Readable(s, ok[s])
      BY <1>1, <1>6, <2>2 DEF VmPrevBehind
    <2>3. QED
      BY <2>1, <2>2
  <1>13. ReadIsExact'
    BY <1>1, <1>2, <1>3, <1>6, <1>9, RateAssumption DEF ReadIsExact
  <1>14. ExactRate'
    <2> SUFFICES ASSUME NEW s \in streams, clean'[s] PROVE shown'[s] = Available(since[s])
      BY <1>1 DEF ExactRate, Available
    <2>1. readOk[s] /\ Readable(s, ok[s])
      BY <1>9
    <2>2. prev[s] # None /\ prev[s] \in Nat /\ since[s] \in Nat /\ prev[s] + since[s] = Counter(s)
      BY <2>1 DEF ReadIsExact, RateTypes
    <2>3. Comparable(s, Reading(s, ok[s]))
      BY <1>3, <2>1, <2>2 DEF Comparable, PrevIsTimed
    <2>4. Delta(s, Reading(s, ok[s])) = since[s]
      BY <1>3, <1>4, <2>1, <2>2, <2>3
    <2>5. QED
      BY <1>1, <2>1, <2>3, <2>4 DEF ShownNext
  <1>15. NoUnderflow'
    BY <1>1, <1>2, <1>5 DEF NoUnderflow, Total
  <1>16. VmCountsSinceLastRead'
    <2> SUFFICES ASSUME NEW s \in streams, s \in {"swap", "paging"}, shown'[s].status = "Available"
                 PROVE  shown'[s].rate <= sinceRead[s]
      BY <1>1 DEF VmCountsSinceLastRead, CountsSince
    <2>1. shown'[s].rate = moved[s] - prev[s] /\ prev[s] # None
      BY <1>5 DEF Counter, Comparable
    <2>2. prev[s] + sinceRead[s] = moved[s] /\ prev[s] \in Nat /\ sinceRead[s] \in Nat
      BY <2>1 DEF VmPrevBehind, RateTypes
    <2>3. QED
      BY <2>1, <2>2
  <1>17. QED
    BY <1>8, <1>9, <1>10, <1>11, <1>12, <1>13, <1>14, <1>15, <1>16

LEMMA RateStep == RateInv /\ [Next]_vars => RateInv'
  <1> SUFFICES ASSUME RateInv, [Next]_vars PROVE RateInv'
    OBVIOUS
  <1>1. ASSUME NEW s \in streams, Traffic(s) PROVE RateInv'
    BY <1>1, TrafficInv
  <1>2. ASSUME NEW i \in Interfaces, Carry(i) PROVE RateInv'
    BY <1>2, CarryInv
  <1>3. ASSUME NEW i \in Interfaces, Flap(i) PROVE RateInv'
    BY <1>3, FlapInv
  <1>4. ASSUME NEW ok \in [streams -> BOOLEAN], Sample(ok) PROVE RateInv'
    BY <1>4, SampleInv
  <1>5. CASE UNCHANGED vars
    BY <1>5 DEF vars, kernelVars, samplerVars, historyVars, RateInv, RateTypes, RateFlags,
       PlotTrimmed, PrevIsTimed, VmPrevBehind, ReadIsExact, ExactRate, NoUnderflow,
       VmCountsSinceLastRead, CountsSince, Counter, NetSum, Plotted
  <1>6. QED
    BY <1>1, <1>2, <1>3, <1>4, <1>5 DEF Next

LEMMA RateAlways == Spec => []RateInv
  BY RateInit, RateStep, PTL DEF Spec

\* sample_memory, sample_system_io and append_io_history: no rate shown is
\* more than all the stream has moved, whatever counters wrap, interfaces
\* come and go and readings fail, for any width of the counters and any
\* interfaces whose sum fits in 64 bits; after a failed reading of the VM
\* statistics the rate counts from the last good one; and the plots stay
\* within their limit.
THEOREM RatesAreBounded == Spec => []RateBounded
  <1>1. RateInv => RateBounded
    <2> SUFFICES ASSUME RateInv PROVE RateBounded
      OBVIOUS
    <2>1. \A s \in streams : clean[s] \in BOOLEAN /\ readOk[s] \in BOOLEAN
      BY Zenon DEF RateInv, RateFlags
    <2>2. TypeOK
      <3>1. \A s \in streams : moved[s] \in 0..MaxMoved
        BY DEF RateInv, RateTypes
      <3>2. \A i \in Interfaces : carried[i] \in 0..MaxMoved
        BY DEF RateInv, RateTypes
      <3>3. \A s \in streams :
              /\ prev[s] = None \/ prev[s] \in Nat
              /\ shown[s].status \in {"Waiting", "Available", "Unavailable"}
              /\ shown[s].rate \in Nat
        BY DEF RateInv, RateTypes
      <3>4. streams \in StreamSets /\ up \subseteq Interfaces /\ sampledOnce \in BOOLEAN
            /\ Len(plot) <= HistoryLimit
        BY DEF RateInv, RateTypes, PlotTrimmed
      <3>5. QED
        BY <2>1, <3>1, <3>2, <3>3, <3>4, Zenon DEF TypeOK
    <2>3. QED
      BY <2>2 DEF RateInv, RateBounded
  <1>2. QED
    BY RateAlways, <1>1, PTL

\* sample_system_io and sample_memory: between two good readings of a stream,
\* with no counter wrapping, coming or going, the rate shown is exactly what
\* the stream moved in that interval, whatever happened to the others.
THEOREM RatesAreExact == Spec => []ExactRate
  <1>1. RateInv => ExactRate
    BY DEF RateInv
  <1>2. QED
    BY RateAlways, <1>1, PTL

-----------------------------------------------------------------------------
(***************************************************************************)
(* Why a reused id overstates nothing: what lies between the time stored   *)
(* under an id and the time of whoever has it now was used by the latter   *)
(* since the last list.  A process watched since the last call, which got  *)
(* a list, has used exactly that; and a time is stored for it.             *)
(***************************************************************************)
GrownSinceList ==
  \A p \in Alive : p \in DOMAIN previousTimes =>
    used[p] - previousTimes[p] <= sinceList[p]

WatchedIsExact ==
  \A p \in watched :
    /\ p \in DOMAIN previousTimes
    /\ listedOnce
    /\ used[p] = previousTimes[p] + sinceCall[p]

ListedNow == lists[2] => sinceList = sinceCall

TimesInv ==
  /\ TimesTypeOK
  /\ GrownSinceList
  /\ WatchedIsExact
  /\ ListedNow
  /\ ShareExact
  /\ ShareNotOverstated

LEMMA TimesInitInv == TimesInit => TimesInv
  <1> SUFFICES ASSUME TimesInit PROVE TimesInv
    OBVIOUS
  <1>1. TimesTypeOK
    <2>1. used \in [Pids -> Nat \cup {NoProcess}]
      BY PidAssumption DEF TimesInit
    <2>2. DOMAIN previousTimes = {} /\ DOMAIN rows = {} /\ watched = {} /\ followed = {}
      BY DEF TimesInit, NoRows
    <2>3. lists \in BOOLEAN \X BOOLEAN /\ listedOnce \in BOOLEAN
      BY DEF TimesInit
    <2>4. /\ sinceCall \in [Pids -> Nat] /\ sinceList \in [Pids -> Nat]
          /\ spentCall \in [Pids -> Nat] /\ spentList \in [Pids -> Nat]
      BY DEF TimesInit, Nothing
    <2> QED
      BY <2>1, <2>2, <2>3, <2>4 DEF TimesTypeOK
  <1>2. GrownSinceList /\ WatchedIsExact /\ ShareExact /\ ShareNotOverstated
    BY DEF TimesInit, GrownSinceList, WatchedIsExact, ShareExact, ShareNotOverstated, NoRows
  <1>3. ListedNow
    BY DEF TimesInit, ListedNow
  <1> QED
    BY <1>1, <1>2, <1>3 DEF TimesInv

LEMMA WorkInv ==
  ASSUME TimesInv, NEW q \in Pids, Work(q)
  PROVE  TimesInv'
  <1> USE DEF TimesInv
  <1>1. q \in Alive /\ used[q] \in Nat
    BY DEF Work, Alive, TimesTypeOK
  <1>2. Alive' = Alive
    BY <1>1, PidAssumption DEF Work, Alive, TimesTypeOK
  <1>3. TimesTypeOK'
    BY <1>1, <1>2 DEF Work, TimesTypeOK, samplerTimes, callTimes
  <1>4. GrownSinceList'
    <2> SUFFICES ASSUME NEW p \in Alive, p \in DOMAIN previousTimes
                 PROVE  used'[p] - previousTimes[p] <= sinceList'[p]
      BY <1>2 DEF GrownSinceList, Work, samplerTimes
    <2>1. used[p] \in Nat /\ previousTimes[p] \in Nat /\ sinceList[p] \in Nat
          /\ used[p] - previousTimes[p] <= sinceList[p]
      BY DEF TimesTypeOK, Alive, GrownSinceList
    <2>2. CASE p = q
      BY <2>1, <2>2 DEF Work, TimesTypeOK
    <2>3. CASE p # q
      BY <2>1, <2>3 DEF Work, TimesTypeOK
    <2> QED
      BY <2>2, <2>3
  <1>5. WatchedIsExact'
    <2> SUFFICES ASSUME NEW p \in watched
                 PROVE  p \in DOMAIN previousTimes /\ listedOnce
                        /\ used'[p] = previousTimes[p] + sinceCall'[p]
      BY DEF WatchedIsExact, Work, samplerTimes
    <2>1. p \in Alive /\ p \in DOMAIN previousTimes /\ listedOnce
          /\ used[p] = previousTimes[p] + sinceCall[p]
          /\ previousTimes[p] \in Nat /\ sinceCall[p] \in Nat
      BY DEF TimesTypeOK, Alive, WatchedIsExact
    <2>2. CASE p = q
      BY <2>1, <2>2 DEF Work, TimesTypeOK
    <2>3. CASE p # q
      BY <2>1, <2>3 DEF Work, TimesTypeOK
    <2> QED
      BY <2>1, <2>2, <2>3
  <1>6. ListedNow'
    BY DEF ListedNow, Work, callTimes
  <1>7. ShareExact' /\ ShareNotOverstated'
    BY DEF Work, samplerTimes, callTimes, ShareExact, ShareNotOverstated
  <1> QED
    BY <1>3, <1>4, <1>5, <1>6, <1>7

LEMMA ExitInv ==
  ASSUME TimesInv, NEW q \in Pids, Exit(q)
  PROVE  TimesInv'
  <1> USE DEF TimesInv
  <1>1. Alive' = Alive \ {q}
    BY DEF Exit, Alive, TimesTypeOK
  <1>2. TimesTypeOK'
    BY <1>1 DEF Exit, TimesTypeOK, samplerTimes, callTimes
  <1>3. \A p \in Alive' : used'[p] = used[p]
    BY <1>1 DEF Exit, TimesTypeOK, Alive
  <1>4. GrownSinceList'
    BY <1>1, <1>3 DEF GrownSinceList, Exit, samplerTimes
  <1>5. WatchedIsExact'
    BY <1>3, <1>1 DEF WatchedIsExact, Exit, samplerTimes, TimesTypeOK
  <1>6. ListedNow' /\ ShareExact' /\ ShareNotOverstated'
    BY DEF ListedNow, ShareExact, ShareNotOverstated, Exit, samplerTimes, callTimes
  <1> QED
    BY <1>2, <1>4, <1>5, <1>6

LEMMA StartInv ==
  ASSUME TimesInv, NEW q \in Pids, Start(q)
  PROVE  TimesInv'
  <1> USE DEF TimesInv
  <1>1. Alive' = Alive \cup {q} /\ q \notin watched
    BY PidAssumption DEF Start, Alive, TimesTypeOK
  <1>2. TimesTypeOK'
    BY <1>1 DEF Start, TimesTypeOK, samplerTimes, callTimes
  <1>3. GrownSinceList'
    <2> SUFFICES ASSUME NEW p \in Alive', p \in DOMAIN previousTimes
                 PROVE  used'[p] - previousTimes[p] <= sinceList'[p]
      BY DEF GrownSinceList, Start, samplerTimes
    <2>1. CASE p = q
      <3>1. previousTimes[p] \in Nat /\ used'[p] = 0 /\ sinceList'[p] = 0
        BY <2>1 DEF Start, TimesTypeOK
      <3> QED
        BY <3>1
    <2>2. CASE p # q
      <3>1. p \in Alive /\ used'[p] = used[p] /\ sinceList'[p] = sinceList[p]
        BY <1>1, <2>2 DEF Start, TimesTypeOK, Alive
      <3> QED
        BY <3>1 DEF GrownSinceList
    <2> QED
      BY <2>1, <2>2
  <1>4. WatchedIsExact'
    BY <1>1 DEF WatchedIsExact, Start, samplerTimes, TimesTypeOK, Alive
  <1>5. ListedNow'
    BY DEF ListedNow, Start, callTimes, TimesTypeOK
  <1>6. ShareExact' /\ ShareNotOverstated'
    BY DEF ShareExact, ShareNotOverstated, Start, samplerTimes, callTimes
  <1> QED
    BY <1>2, <1>3, <1>4, <1>5, <1>6

\* The share that a call shows of a process it reads.
LEMMA ShareBounds ==
  ASSUME TimesInv, NEW p \in Alive
  PROVE  /\ Share(p) \in Nat
         /\ Share(p) <= sinceList[p]
         /\ lists[2] => Share(p) <= sinceCall[p]
         /\ p \in watched => Share(p) = sinceCall[p]
  <1> USE DEF TimesInv
  <1>1. used[p] \in Nat /\ sinceList[p] \in Nat /\ sinceCall[p] \in Nat
        /\ (p \in DOMAIN previousTimes => previousTimes[p] \in Nat)
    BY DEF TimesTypeOK, Alive
  <1>2. Share(p) \in Nat /\ Share(p) <= sinceList[p]
    BY <1>1 DEF Share, GrownSinceList
  <1>3. lists[2] => Share(p) <= sinceCall[p]
    BY <1>2 DEF ListedNow
  <1>4. ASSUME p \in watched PROVE Share(p) = sinceCall[p]
    BY <1>1, <1>4 DEF Share, WatchedIsExact
  <1> QED
    BY <1>2, <1>3, <1>4

LEMMA ListInv ==
  ASSUME TimesInv, NEW read \in SUBSET Pids, List(read)
  PROVE  TimesInv'
  <1> USE DEF TimesInv
  <1>1. /\ read \subseteq Alive /\ Alive' = Alive /\ used' = used
        /\ DOMAIN rows' = read /\ DOMAIN previousTimes' = read
        /\ watched' = read /\ followed' \subseteq read
    BY DEF List, Called, TimesKept, Alive
  <1>2. \A p \in read : /\ used[p] \in Nat
                        /\ previousTimes'[p] = used[p]
                        /\ rows'[p] = [cpu |-> Share(p), total |-> used[p]]
    BY <1>1 DEF List, TimesKept, TimesTypeOK, Alive
  <1>3. /\ spentCall' = sinceCall /\ spentList' = sinceList
        /\ sinceCall' = Nothing /\ sinceList' = Nothing
        /\ lists' = <<lists[2], TRUE>> /\ listedOnce' = TRUE
    BY DEF List, Called
  <1>4. \A p \in read : Share(p) \in Nat
    BY <1>1, ShareBounds
  <1>5. TimesTypeOK'
    <2>1. \A p \in read : rows'[p] \in [cpu : Nat, total : Nat]
      <3> SUFFICES ASSUME NEW p \in read PROVE rows'[p] \in [cpu : Nat, total : Nat]
        OBVIOUS
      <3> DEFINE share == Share(p)
      <3>1. rows'[p] = [cpu |-> share, total |-> used[p]] /\ share \in Nat /\ used[p] \in Nat
        BY <1>2, <1>4
      <3> HIDE DEF share
      <3> QED
        BY <3>1
    <2>2. lists' \in BOOLEAN \X BOOLEAN /\ listedOnce' \in BOOLEAN
      BY <1>3 DEF TimesTypeOK
    <2>3. /\ sinceCall' \in [Pids -> Nat] /\ sinceList' \in [Pids -> Nat]
          /\ spentCall' \in [Pids -> Nat] /\ spentList' \in [Pids -> Nat]
      BY <1>3 DEF TimesTypeOK, Nothing
    <2>4. used' \in [Pids -> Nat \cup {NoProcess}] /\ watched' \subseteq Alive'
      BY <1>1 DEF TimesTypeOK
    <2> QED
      BY <1>1, <1>2, <2>1, <2>2, <2>3, <2>4 DEF TimesTypeOK
  <1>6. GrownSinceList'
    BY <1>1, <1>2, <1>3 DEF GrownSinceList, Nothing
  <1>7. WatchedIsExact'
    BY <1>1, <1>2, <1>3 DEF WatchedIsExact, Nothing
  <1>8. ListedNow'
    BY <1>3 DEF ListedNow
  <1>9. ShareExact'
    <2> SUFFICES ASSUME NEW p \in followed' PROVE rows'[p].cpu = spentCall'[p]
      BY DEF ShareExact
    <2>1. p \in watched /\ p \in read
      BY DEF List
    <2> QED
      BY <2>1, <1>1, <1>2, <1>3, ShareBounds
  <1>10. ShareNotOverstated'
    <2> SUFFICES ASSUME NEW p \in read
                 PROVE  Share(p) <= sinceList[p] /\ (lists[2] => Share(p) <= sinceCall[p])
      BY <1>1, <1>2, <1>3 DEF ShareNotOverstated, TimesTypeOK
    <2> QED
      BY <1>1, ShareBounds
  <1> QED
    BY <1>5, <1>6, <1>7, <1>8, <1>9, <1>10

LEMMA ListFailsInv ==
  ASSUME TimesInv, ListFails
  PROVE  TimesInv'
  <1> USE DEF TimesInv
  <1>1. TimesTypeOK'
    BY DEF ListFails, Called, TimesTypeOK, NoRows, Nothing, Alive
  <1>2. GrownSinceList'
    BY DEF ListFails, Called, GrownSinceList, Alive
  <1>3. WatchedIsExact'
    BY DEF ListFails, Called, WatchedIsExact
  <1>4. ListedNow'
    BY DEF ListFails, Called, ListedNow, TimesTypeOK
  <1>5. ShareExact' /\ ShareNotOverstated'
    BY DEF ListFails, Called, ShareExact, ShareNotOverstated, NoRows
  <1> QED
    BY <1>1, <1>2, <1>3, <1>4, <1>5

LEMMA TimesStepInv == TimesInv /\ [TimesNext]_timeVars => TimesInv'
  <1> SUFFICES ASSUME TimesInv, [TimesNext]_timeVars PROVE TimesInv'
    OBVIOUS
  <1>1. ASSUME NEW p \in Pids, Work(p) PROVE TimesInv'
    BY <1>1, WorkInv
  <1>2. ASSUME NEW p \in Pids, Exit(p) PROVE TimesInv'
    BY <1>2, ExitInv
  <1>3. ASSUME NEW p \in Pids, Start(p) PROVE TimesInv'
    BY <1>3, StartInv
  <1>4. ASSUME NEW read \in SUBSET Pids, List(read) PROVE TimesInv'
    BY <1>4, ListInv
  <1>5. CASE ListFails
    BY <1>5, ListFailsInv
  <1>6. CASE UNCHANGED timeVars
    BY <1>6 DEF timeVars, samplerTimes, callTimes, TimesInv, TimesTypeOK, GrownSinceList,
                WatchedIsExact, ListedNow, ShareExact, ShareNotOverstated, Alive
  <1> QED
    BY <1>1, <1>2, <1>3, <1>4, <1>5, <1>6 DEF TimesNext

\* The inductive invariant holds in every state.
THEOREM TimesAlwaysInv == TimesSpec => []TimesInv
  BY TimesInitInv, TimesStepInv, PTL DEF TimesSpec

\* A process read by two calls in a row is shown with what it used between.
THEOREM SharesAreExact == TimesSpec => []ShareExact
  <1>1. TimesInv => ShareExact
    BY DEF TimesInv
  <1> QED
    BY <1>1, TimesAlwaysInv, PTL

\* No share is more than the process itself has used: since the last list,
\* and since the last call if that got a list, whoever had the id before.
THEOREM SharesAreNotOverstated == TimesSpec => []ShareNotOverstated
  <1>1. TimesInv => ShareNotOverstated
    BY DEF TimesInv
  <1> QED
    BY <1>1, TimesAlwaysInv, PTL

-----------------------------------------------------------------------------
(***************************************************************************)
(* The cores.                                                              *)
(***************************************************************************)

CoreTypes ==
  /\ ticks \in [Processors -> [busy : Nat, idle : Nat]]
  /\ atRead \in [Processors -> [busy : Nat, idle : Nat]]
  /\ count \in Counts
  /\ published \in Nat /\ copied \in Nat

\* Since the last reading each counter has gone on by less than its width.
AtReadBehind ==
  \A c \in Processors :
    /\ atRead[c].busy <= ticks[c].busy /\ ticks[c].busy - atRead[c].busy < TickWidth
    /\ atRead[c].idle <= ticks[c].idle /\ ticks[c].idle - atRead[c].idle < TickWidth

\* The stored ticks are those of the last reading, as they wrap.
PrevInfoIsAtRead ==
  prevInfo # NoInfo =>
    /\ Len(prevInfo) \in Nat
    /\ \A c \in Processors : c <= Len(prevInfo) =>
         /\ prevInfo[c].busy = atRead[c].busy % TickWidth
         /\ prevInfo[c].idle = atRead[c].idle % TickWidth

\* The powers come from this sample's copy or from an older one, the clusters'
\* figures from an older one; without root there is no copy.
CopiesInOrder ==
  /\ powerRound \in Nat /\ powerRound <= copied
  /\ copied <= published
  /\ ~root => copied = 0
  /\ \A name \in ClusterNames : clusters[name].round \in Nat /\ clusters[name].round <= copied

CoresInv ==
  /\ CoreTypes
  /\ AtReadBehind
  /\ PrevInfoIsAtRead
  /\ CopiesInOrder
  /\ LoadExact
  /\ ClustersAgree
  /\ ClustersTrailPower

LEMMA ProcessorsOfCores == Cores \subseteq Processors /\ (\A n \in Counts : 1..n \subseteq Processors)
  BY CoreAssumption DEF Cores, Processors

LEMMA CoresInitInv == CoresInit => CoresInv
  <1> SUFFICES ASSUME CoresInit PROVE CoresInv
    OBVIOUS
  <1>1. CoreTypes
    BY DEF CoresInit, CoreTypes, NoTicks
  <1>2. AtReadBehind
    BY CoreAssumption DEF CoresInit, AtReadBehind, NoTicks
  <1>3. PrevInfoIsAtRead
    BY DEF CoresInit, PrevInfoIsAtRead
  <1>4. \A name \in ClusterNames : clusters[name].round = 0
    BY DEF CoresInit, Refreshed
  <1>5. CopiesInOrder /\ ClustersTrailPower
    BY <1>4 DEF CoresInit, CopiesInOrder, ClustersTrailPower
  <1>6. LoadExact
    BY DEF CoresInit, LoadExact
  <1>7. ClustersAgree
    BY DEF CoresInit, ClustersAgree, Refreshed
  <1>8. QED
    BY <1>1, <1>2, <1>3, <1>5, <1>6, <1>7 DEF CoresInv

\* A core ticks: no figure changes.
LEMMA TickInv ==
  ASSUME CoresInv, NEW c \in Cores, NEW kind \in {"busy", "idle"}, Tick(c, kind)
  PROVE  CoresInv'
  <1> USE DEF CoresInv
  <1>1. /\ ticks[c][kind] - atRead[c][kind] < TickWidth - 1
        /\ ticks' = [ticks EXCEPT ![c][kind] = @ + 1]
        /\ UNCHANGED <<count, root, published>>
        /\ UNCHANGED <<copied, prevInfo, load, clusters, powerRound>>
        /\ UNCHANGED <<atRead, tickSpan, compared, readNow, probeNow, copyBefore>>
    BY DEF Tick, shownCores, coreHistory
  <1>2. c \in Processors
    BY ProcessorsOfCores
  <1>3. CoreTypes'
    <2>1. CASE kind = "busy"
      BY <1>1, <1>2, <2>1 DEF CoreTypes
    <2>2. CASE kind = "idle"
      BY <1>1, <1>2, <2>2 DEF CoreTypes
    <2>3. QED
      BY <2>1, <2>2
  <1>4. AtReadBehind'
    <2> SUFFICES ASSUME NEW d \in Processors, NEW k \in {"busy", "idle"}
                 PROVE  atRead[d][k] <= ticks'[d][k] /\ ticks'[d][k] - atRead[d][k] < TickWidth
      BY <1>1 DEF AtReadBehind
    <2>1. /\ ticks[d][k] \in Nat /\ atRead[d][k] \in Nat
          /\ atRead[d][k] <= ticks[d][k] /\ ticks[d][k] - atRead[d][k] < TickWidth
      <3>1. CASE k = "busy"
        BY <3>1 DEF CoreTypes, AtReadBehind
      <3>2. CASE k = "idle"
        BY <3>2 DEF CoreTypes, AtReadBehind
      <3>3. QED
        BY <3>1, <3>2
    <2>2. CASE d = c /\ k = kind
      <3>1. ticks'[d][k] = ticks[d][k] + 1
        BY <1>1, <1>2, <2>2 DEF CoreTypes
      <3>2. QED
        BY <1>1, <2>1, <2>2, <3>1, CoreAssumption
    <2>3. CASE ~(d = c /\ k = kind)
      <3>1. ticks'[d][k] = ticks[d][k]
        BY <1>1, <1>2, <2>3 DEF CoreTypes
      <3>2. QED
        BY <2>1, <3>1
    <2>4. QED
      BY <2>2, <2>3
  <1>5. PrevInfoIsAtRead' /\ CopiesInOrder' /\ LoadExact' /\ ClustersAgree' /\ ClustersTrailPower'
    BY <1>1 DEF PrevInfoIsAtRead, CopiesInOrder, LoadExact, ClustersAgree, ClustersTrailPower
  <1>6. QED
    BY <1>3, <1>4, <1>5

\* The number of processors changes, or the collector publishes a round.
LEMMA MachineInv ==
  ASSUME CoresInv, Processor \/ Publish PROVE CoresInv'
  <1> USE DEF CoresInv
  <1>1. /\ count' \in Counts /\ published' \in Nat /\ published' >= published
        /\ UNCHANGED <<ticks, root>>
        /\ UNCHANGED <<copied, prevInfo, load, clusters, powerRound>>
        /\ UNCHANGED <<atRead, tickSpan, compared, readNow, probeNow, copyBefore>>
    BY DEF Processor, Publish, shownCores, coreHistory, CoreTypes
  <1>2. CoreTypes' /\ AtReadBehind' /\ PrevInfoIsAtRead' /\ LoadExact' /\ ClustersAgree'
    BY <1>1 DEF CoreTypes, AtReadBehind, PrevInfoIsAtRead, LoadExact, ClustersAgree
  <1>3. CopiesInOrder' /\ ClustersTrailPower'
    BY <1>1 DEF CopiesInOrder, ClustersTrailPower, CoreTypes
  <1>4. QED
    BY <1>2, <1>3

\* The ticks are read: over a wrap, the unsigned difference is what a counter
\* has gone on by.
LEMMA ReadInv ==
  ASSUME CoresInv, NEW probed \in BOOLEAN, SampleCores(TRUE, probed) PROVE CoresInv'
  <1> USE DEF CoresInv
  <1>1. /\ load' = LoadNext
        /\ clusters' = Refreshed(load', copied)
        /\ prevInfo' = Info
        /\ atRead' = ticks
        /\ tickSpan' = [c \in Processors |-> [busy |-> ticks[c].busy - atRead[c].busy,
                                              idle |-> ticks[c].idle - atRead[c].idle]]
        /\ compared' = HavePrevious
        /\ copied' = CopyNext /\ copyBefore' = copied
        /\ powerRound' = IF probed THEN copied' ELSE powerRound
        /\ probeNow' = probed
        /\ UNCHANGED <<ticks, count, root, published>>
    BY DEF SampleCores, PowerNext, ReadCpu, kernelCores
  <1>2. count \in Nat /\ 1..count \subseteq Processors
    BY ProcessorsOfCores, CoreAssumption DEF CoreTypes
  <1>3. /\ Len(Info) = count
        /\ \A c \in 1..count : /\ Info[c].busy = ticks[c].busy % TickWidth
                               /\ Info[c].idle = ticks[c].idle % TickWidth
    BY <1>2 DEF Info
  <1>4. CoreTypes'
    BY <1>1 DEF CoreTypes, CopyNext
  <1>5. AtReadBehind'
    BY <1>1, CoreAssumption DEF AtReadBehind, CoreTypes
  <1>6. PrevInfoIsAtRead'
    BY <1>1, <1>2, <1>3 DEF PrevInfoIsAtRead, Processors
  <1>7. \A name \in ClusterNames : clusters'[name].round = copied
    BY <1>1 DEF Refreshed, CopiesInOrder
  <1>8. copied <= copied' /\ copied' <= published /\ (~root => copied' = 0)
    BY <1>1 DEF CopyNext, CopiesInOrder, CoreTypes
  <1>9. CopiesInOrder' /\ ClustersTrailPower'
    BY <1>1, <1>4, <1>7, <1>8 DEF CopiesInOrder, ClustersTrailPower, CoreTypes
  <1>10. ClustersAgree'
    BY <1>1 DEF ClustersAgree, Refreshed, ClusterNames, CoresOf
  <1>11. LoadExact'
    <2> SUFFICES ASSUME NEW c \in Cores, c <= Len(Info)
                 PROVE  load'[c] = IF HavePrevious THEN Percent(tickSpan'[c].busy, tickSpan'[c].idle)
                                   ELSE 0
      BY <1>1 DEF LoadExact
    <2>1. c \in 1..count /\ c \in Processors /\ ~(c > count)
      BY <1>2, <1>3, ProcessorsOfCores DEF Cores
    <2>2. CASE ~HavePrevious
      BY <1>1, <2>1, <2>2 DEF LoadNext
    <2>3. CASE HavePrevious
      <3>1. prevInfo[c].busy = atRead[c].busy % TickWidth /\ prevInfo[c].idle = atRead[c].idle % TickWidth
        BY <2>1, <2>3 DEF HavePrevious, PrevInfoIsAtRead
      <3>2. /\ \A k \in {ticks[c].busy, atRead[c].busy, ticks[c].idle, atRead[c].idle} : k \in Nat
            /\ atRead[c].busy <= ticks[c].busy /\ ticks[c].busy - atRead[c].busy < TickWidth
            /\ atRead[c].idle <= ticks[c].idle /\ ticks[c].idle - atRead[c].idle < TickWidth
        BY <2>1 DEF CoreTypes, AtReadBehind
      <3>3. /\ ((ticks[c].busy % TickWidth) - (atRead[c].busy % TickWidth)) % TickWidth
                 = ticks[c].busy - atRead[c].busy
            /\ ((ticks[c].idle % TickWidth) - (atRead[c].idle % TickWidth)) % TickWidth
                 = ticks[c].idle - atRead[c].idle
        <4>1. TickWidth \in Nat \ {0}
          BY CoreAssumption
        <4> HIDE DEF CoresInv
        <4>2. QED
          BY <3>2, <4>1, ModDistance
      <3>6. /\ Grown(Info[c].busy, prevInfo[c].busy) = ticks[c].busy - atRead[c].busy
            /\ Grown(Info[c].idle, prevInfo[c].idle) = ticks[c].idle - atRead[c].idle
        BY <1>3, <2>1, <3>1, <3>3 DEF Grown
      <3>4. load'[c] = Percent(Grown(Info[c].busy, prevInfo[c].busy),
                               Grown(Info[c].idle, prevInfo[c].idle))
        BY <1>1, <2>1, <2>3 DEF LoadNext
      <3>5. QED
        BY <1>1, <2>1, <2>3, <3>4, <3>6
    <2>4. QED
      BY <2>2, <2>3
  <1>12. QED
    BY <1>4, <1>5, <1>6, <1>9, <1>10, <1>11

\* The ticks cannot be read: the copy goes on, the clusters do not.
LEMMA UnreadInv ==
  ASSUME CoresInv, NEW probed \in BOOLEAN, SampleCores(FALSE, probed) PROVE CoresInv'
  <1> USE DEF CoresInv
  <1>1. /\ UNCHANGED <<load, clusters, prevInfo, atRead, tickSpan, compared>>
        /\ copied' = CopyNext /\ ~readNow' /\ probeNow' = probed
        /\ powerRound' = IF probed THEN copied' ELSE powerRound
        /\ UNCHANGED <<ticks, count, root, published>>
    BY DEF SampleCores, PowerNext, CpuUnread, kernelCores
  <1>2. CoreTypes' /\ AtReadBehind' /\ PrevInfoIsAtRead' /\ LoadExact' /\ ClustersAgree'
    BY <1>1 DEF CoreTypes, CopyNext, AtReadBehind, PrevInfoIsAtRead, LoadExact, ClustersAgree
  <1>3. copied <= copied' /\ copied' <= published /\ (~root => copied' = 0) /\ copied' \in Nat
    BY <1>1 DEF CopyNext, CopiesInOrder, CoreTypes
  <1>4. CopiesInOrder' /\ ClustersTrailPower'
    BY <1>1, <1>3 DEF CopiesInOrder, ClustersTrailPower, CoreTypes
  <1>5. QED
    BY <1>2, <1>4

LEMMA CoresStep == CoresInv /\ [CoresNext]_coreVars => CoresInv'
  <1> SUFFICES ASSUME CoresInv, [CoresNext]_coreVars PROVE CoresInv'
    OBVIOUS
  <1>1. ASSUME NEW c \in Cores, NEW kind \in {"busy", "idle"}, Tick(c, kind) PROVE CoresInv'
    BY <1>1, TickInv
  <1>2. CASE Processor \/ Publish
    BY <1>2, MachineInv
  <1>3. ASSUME NEW probed \in BOOLEAN, SampleCores(TRUE, probed) PROVE CoresInv'
    BY <1>3, ReadInv
  <1>4. ASSUME NEW probed \in BOOLEAN, SampleCores(FALSE, probed) PROVE CoresInv'
    BY <1>4, UnreadInv
  <1>5. CASE UNCHANGED coreVars
    BY <1>5 DEF coreVars, kernelCores, shownCores, coreHistory, CoresInv, CoreTypes, AtReadBehind,
       PrevInfoIsAtRead, CopiesInOrder, LoadExact, ClustersAgree, ClustersTrailPower
  <1>6. ASSUME NEW ok \in BOOLEAN, NEW probed \in BOOLEAN, SampleCores(ok, probed)
        PROVE  SampleCores(TRUE, probed) \/ SampleCores(FALSE, probed)
    <2>1. CASE ok
      BY <1>6, <2>1, Zenon
    <2>2. CASE ~ok
      BY <1>6, <2>2, Zenon
    <2>3. QED
      BY <2>1, <2>2
  <1>7. QED
    BY <1>1, <1>2, <1>3, <1>4, <1>5, <1>6 DEF CoresNext

LEMMA CoresAlways == CoresSpec => []CoresInv
  BY CoresInitInv, CoresStep, PTL DEF CoresSpec

\* sample_cpu and refresh_cpu_clusters: the load of every core is the busy part
\* of the ticks since the reading before, over a wrap of the 32-bit counters
\* and any failed reading in between, for any number of cores and any width;
\* and the clusters' means are those of the loads on the same screen.
THEOREM CoreFiguresAgree == CoresSpec => []CoreFigures
  <1>1. CoresInv => CoreFigures
    BY DEF CoresInv, CoreFigures
  <1>2. QED
    BY CoresAlways, <1>1, PTL

\* sample(): after a good reading the frequencies and powers of the clusters are
\* those of the copy the sample before made.  They are never newer than the GPU
\* and system power next to them if this sample's GPU probe answered, and then
\* these powers are those of the copy just made.
THEOREM ClustersTrail == CoresSpec => []ClustersTrailPower
  <1>1. CoresInv => ClustersTrailPower
    BY DEF CoresInv
  <1>2. QED
    BY CoresAlways, <1>1, PTL
=============================================================================
