---------------------------- MODULE RateSampler ----------------------------
(***************************************************************************)
(* The host throughput rates of DarwinSampler (src/platform/               *)
(* darwin_sampler.cpp): every sample() reads cumulative kernel counters    *)
(* and shows their growth since the previous reading, in sample_memory     *)
(* (swap) and sample_system_io (paging, disk, net); main.cpp appends what  *)
(* is shown to the plotted history.  A reading can fail.  Each stream has  *)
(* two directions in the code, treated alike: one stands for both.  Rates  *)
(* are per interval between two samples, the elapsed time of the code.     *)
(***************************************************************************)
EXTENDS Integers, Sequences, FiniteSetsExt

CONSTANTS
  StreamSets,   \* sets of "swap", "paging", "disk", "net"; one of them is followed
  Interfaces,   \* non-loopback network interfaces
  Width,        \* an interface counter wraps at this value (2^32)
  Word,         \* the 64-bit sums and differences wrap at this value (2^64)
  MaxMoved,     \* bound on what a stream or an interface moves in all
  HistoryLimit, \* points kept for a plot
  None          \* std::nullopt

ASSUME RateAssumption ==
  /\ \A S \in StreamSets : S \subseteq {"swap", "paging", "disk", "net"}
  /\ IsFiniteSet(Interfaces)
  /\ Width \in Nat \ {0} /\ Word \in Nat \ {0}
  /\ MaxMoved \in Nat /\ MaxMoved < Word
  /\ \A c \in [Interfaces -> 0..(Width - 1)] : SumFunction(c) < Word
  /\ HistoryLimit \in Nat \ {0}
  /\ None \notin Nat

VARIABLES
  streams,   \* the streams this behaviour follows; they are independent
  moved,     \* the kernel's count per stream, "net" excepted
  carried,   \* what each interface has carried; its counter is % Width
  up,        \* interfaces with IFF_UP
  sampledOnce, \* last_*_sample_time_ is set
  prev,      \* previous_*_bytes_
  shown,     \* status and rate in snapshot_
  plot,      \* IoHistory: what the plots are drawn from
  since,     \* history: growth since the last sample
  sinceRead, \* history: growth since the last sample that read the stream
  interval,  \* history: since, at the last sample
  span,      \* history: sinceRead, at the last sample
  readOk,    \* history: the last sample read the stream
  clean      \* history: the last two samples read the stream, and no counter
             \* wrapped, came or went between them

kernelVars == <<moved, carried, up>>
samplerVars == <<streams, sampledOnce, prev, shown, plot>>
historyVars == <<since, sinceRead, interval, span, readOk, clean>>
vars == <<kernelVars, samplerVars, historyVars>>

Plotted == streams \ {"swap"}
Waiting(rate) == [status |-> "Waiting", rate |-> rate]
Unavailable   == [status |-> "Unavailable", rate |-> 0]
Available(rate) == [status |-> "Available", rate |-> rate]

Init ==
  /\ streams \in StreamSets
  /\ moved = [s \in streams |-> 0]
  /\ carried = [i \in Interfaces |-> 0]
  /\ up = Interfaces
  /\ sampledOnce = FALSE
  /\ prev = [s \in streams |-> None]
  /\ shown = [s \in streams |-> Waiting(0)]
  /\ plot = <<>>
  /\ since = [s \in streams |-> 0]
  /\ sinceRead = [s \in streams |-> 0]
  /\ interval = [s \in streams |-> 0]
  /\ span = [s \in streams |-> 0]
  /\ readOk = [s \in streams |-> FALSE]
  /\ clean = [s \in streams |-> FALSE]

-----------------------------------------------------------------------------
(***************************************************************************)
(* The machine.                                                            *)
(***************************************************************************)

Grow(s) ==
  /\ since' = [since EXCEPT ![s] = @ + 1]
  /\ sinceRead' = [sinceRead EXCEPT ![s] = @ + 1]

Traffic(s) ==
  /\ s # "net"
  /\ moved[s] < MaxMoved
  /\ moved' = [moved EXCEPT ![s] = @ + 1]
  /\ Grow(s)
  /\ UNCHANGED <<carried, up, samplerVars, interval, span, readOk, clean>>

Carry(i) ==
  /\ "net" \in streams
  /\ i \in up
  /\ carried[i] < MaxMoved
  /\ carried' = [carried EXCEPT ![i] = @ + 1]
  /\ Grow("net")
  /\ readOk' = [readOk EXCEPT !["net"] = @ /\ carried'[i] % Width # 0]
  /\ UNCHANGED <<moved, up, samplerVars, interval, span, clean>>

\* An interface goes down or comes up; its counter survives.
Flap(i) ==
  /\ "net" \in streams
  /\ up' = IF i \in up THEN up \ {i} ELSE up \cup {i}
  /\ readOk' = [readOk EXCEPT !["net"] = FALSE]
  /\ UNCHANGED <<moved, carried, samplerVars, since, sinceRead, interval, span,
                 clean>>

-----------------------------------------------------------------------------
(***************************************************************************)
(* sample_memory, sample_system_io and append_io_history.                  *)
(***************************************************************************)

\* sample_host_network_counters: a 64-bit sum of 32-bit counters.
NetSum == SumFunction([i \in up |-> carried[i] % Width])

\* Whether stream s is read, given that its system call succeeds or not: the
\* net needs an active interface, the disk a driver that moved something.
Readable(s, ok) ==
  /\ ok
  /\ s = "net" => up # {}
  /\ s = "disk" => moved[s] > 0

\* The reading; the disk counters stay 0 when none was found.
Reading(s, ok) ==
  CASE s = "net" -> NetSum
    [] s # "net" -> IF Readable(s, ok) THEN moved[s] ELSE 0

\* Mutant of Comparable: a counter that went back is compared all the same.
ComparableAlways(s, reading) ==
  /\ sampledOnce
  /\ prev[s] # None

\* An earlier reading exists and the counter has not gone back.
Comparable(s, reading) ==
  /\ sampledOnce
  /\ prev[s] # None
  /\ reading >= prev[s]

\* Mutant of Delta: the previous reading is forgotten.
DeltaFromZero(s, reading) == reading % Word

\* u64 subtraction.
Delta(s, reading) == (reading - prev[s]) % Word

\* What snapshot_ holds for s after this sample.  Swap has no status of its
\* own and keeps its last rate when there is nothing to compare.
ShownNext(s, ok) ==
  LET reading == Reading(s, ok) IN
  IF Readable(s, ok) /\ Comparable(s, reading) THEN Available(Delta(s, reading))
  ELSE IF s = "swap" THEN Waiting(shown[s].rate)
  ELSE IF Readable(s, ok) THEN Waiting(0)
  ELSE Unavailable

\* Mutant of PrevNext: as for the disk, a failed reading is stored as 0.
PrevNextZero(s, ok) == IF Readable(s, ok) THEN Reading(s, ok) ELSE 0

\* The disk counters are stored whether they were found or not.
PrevNext(s, ok) ==
  IF Readable(s, ok) \/ s = "disk" THEN Reading(s, ok) ELSE prev[s]

\* Mutant of Appended: the history is not trimmed.
AppendedUntrimmed(h, point) == Append(h, point)

\* push_back, then trim_history from the front.
Appended(h, point) ==
  LET longer == Append(h, point) IN
  IF Len(longer) > HistoryLimit THEN Tail(longer) ELSE longer

Sample(ok) ==
  /\ sampledOnce' = TRUE
  /\ shown' = [s \in streams |-> ShownNext(s, ok[s])]
  /\ prev' = [s \in streams |-> PrevNext(s, ok[s])]
  /\ plot' = Appended(plot, [s \in Plotted |-> shown'[s].rate])
  /\ interval' = since
  /\ span' = sinceRead
  /\ since' = [s \in streams |-> 0]
  /\ sinceRead' = [s \in streams |-> IF Readable(s, ok[s]) THEN 0 ELSE sinceRead[s]]
  /\ clean' = [s \in streams |-> readOk[s] /\ Readable(s, ok[s])]
  /\ readOk' = [s \in streams |-> Readable(s, ok[s])]
  /\ UNCHANGED <<streams, kernelVars>>

Next ==
  \/ \E s \in streams : Traffic(s)
  \/ \E i \in Interfaces : Carry(i)
  \/ \E i \in Interfaces : Flap(i)
  \/ \E ok \in [streams -> BOOLEAN] : Sample(ok)

Spec == Init /\ [][Next]_vars

-----------------------------------------------------------------------------
(***************************************************************************)
(* Properties.                                                             *)
(***************************************************************************)

\* The values each variable takes; the plots stay within their limit.
TypeOK ==
  /\ streams \in StreamSets
  /\ \A s \in streams : moved[s] \in 0..MaxMoved
  /\ \A i \in Interfaces : carried[i] \in 0..MaxMoved
  /\ up \subseteq Interfaces
  /\ sampledOnce \in BOOLEAN
  /\ \A s \in streams :
       /\ prev[s] = None \/ prev[s] \in Nat
       /\ shown[s].status \in {"Waiting", "Available", "Unavailable"}
       /\ shown[s].rate \in Nat
       /\ clean[s] \in BOOLEAN /\ readOk[s] \in BOOLEAN
  /\ Len(plot) <= HistoryLimit

\* Between two samples that both read a stream, with no counter wrapping,
\* coming or going, the rate shown is what the stream moved in that interval.
ExactRate ==
  \A s \in streams : clean[s] =>
    shown[s] = Available(interval[s])

\* A rate is never more than all the stream has moved: no counter that went
\* back makes the unsigned subtraction wrap.
NoUnderflow ==
  \A s \in streams :
    shown[s].rate <= IF s = "net" THEN SumFunction(carried) ELSE moved[s]

\* A rate counts nothing moved before the stream was last read.
CountsSince(s) == shown[s].status = "Available" => shown[s].rate <= span[s]

\* A failed reading of the VM statistics is passed over: the next rate counts
\* from the last good one, neither from zero nor anything twice.
VmCountsSinceLastRead == \A s \in streams \cap {"swap", "paging"} : CountsSince(s)

\* No rate shown is more than what can have been moved.
RateBounded == TypeOK /\ NoUnderflow /\ VmCountsSinceLastRead

\* README.md: "If a counter is unavailable, mtop shows `n/a` instead of
\* treating the value as zero."  The same of the disk counters.
DiskCountsSinceLastRead == \A s \in streams \cap {"disk"} : CountsSince(s)
=============================================================================
