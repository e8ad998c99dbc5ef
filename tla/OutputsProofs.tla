---------------------------- MODULE OutputsProofs ----------------------------
(***************************************************************************)
(* What is shown of a sample, for every sample: the workloads its          *)
(* processes are grouped into, the memory risk, and what becomes of both   *)
(* on the screen and in the JSON lines, each of which is one JSON value    *)
(* that gives the commands back.                                           *)
(***************************************************************************)
EXTENDS Outputs, SnapshotProofs

-----------------------------------------------------------------------------
(***************************************************************************)
(* The memory risk, for every amount of memory, sample and history.        *)
(***************************************************************************)

Histories == Seq(Memory)

\* The shares of memory the risk compares with are natural numbers.
LEMMA SharesAreNat ==
  ASSUME NEW n \in Nat
  PROVE  /\ n \div 100 \in Nat /\ n \div 20 \in Nat /\ n \div 2 \in Nat
         /\ PercentOf(n, 5) \in Nat /\ PercentOf(n, 10) \in Nat /\ PercentOf(n, 20) \in Nat
BY DEF PercentOf

\* Headroom is never negative, and shrinks when nothing gets better.
LEMMA HeadroomShrinks ==
  ASSUME NEW a \in Memory, NEW b \in Memory, NoBetter(a, b)
  PROVE  Headroom(a) \in Nat /\ Headroom(b) \in Nat /\ Headroom(b) <= Headroom(a)
<1>1. PercentOf(a.total, 20) \in Nat /\ a.total = b.total
  BY SharesAreNat DEF Memory, NoBetter
<1>2. Reclaimable(a) \in Nat /\ Reclaimable(b) \in Nat /\ Reclaimable(b) <= Reclaimable(a)
  BY DEF Memory, Reclaimable, NoBetter
<1>3. /\ a.total \in Nat /\ a.wired + a.active + a.compressed \in Nat
      /\ b.wired + b.active + b.compressed \in Nat
      /\ a.wired + a.active + a.compressed <= b.wired + b.active + b.compressed
  BY DEF Memory, NoBetter
<1> QED
  BY <1>1, <1>2, <1>3 DEF Headroom, Larger, Smaller

\* A history with a sample has an oldest one.
LEMMA OldestIsMemory ==
  ASSUME NEW past \in Histories, past # <<>>
  PROVE  past[1] \in Memory
BY DEF Histories

\* Against no history, what counts as rising is at least what does against any.
LEMMA RisingAgainstNothing ==
  ASSUME NEW s \in Memory, NEW past \in Histories
  PROVE  /\ CompressedRising(s, past) => CompressedRising(s, <<>>)
         /\ SwapIncreasing(s, past) => SwapIncreasing(s, <<>>)
<1>1. CASE past = <<>>
  BY <1>1
<1>2. CASE past # <<>>
  <2>1. past[1].compressed \in Nat /\ past[1].swapUsed \in Nat
    BY <1>2, OldestIsMemory DEF Memory
  <2>2. s.compressed \in Nat /\ s.swapUsed \in Nat
    BY DEF Memory
  <2> QED
    BY <1>2, <2>1, <2>2 DEF CompressedRising, SwapIncreasing
<1> QED
  BY <1>1, <1>2

\* The three tests decide the level, and each is passed by every graver sample.
LEMMA GravityFromTests ==
  ASSUME NEW a \in Memory, NEW b \in Memory, NEW h \in Histories, NEW k \in Histories,
         NEW m \in Nat, NEW n \in Nat,
         TotalsMissing(b) => TotalsMissing(a),
         IsCritical(a, h) => IsCritical(b, k),
         IsWarn(a, h) => IsCritical(b, k) \/ IsWarn(b, k),
         IsWatch(a, m) => IsCritical(b, k) \/ IsWarn(b, k) \/ IsWatch(b, n)
  PROVE  Gravity[DeriveRisk(a, h, m)] <= Gravity[DeriveRisk(b, k, n)]
<1>1. /\ Gravity["Unknown"] = 0 /\ Gravity["Ok"] = 1 /\ Gravity["Watch"] = 2
      /\ Gravity["Warn"] = 3 /\ Gravity["Critical"] = 4
  BY DEF Gravity, Levels
<1> QED
  BY <1>1 DEF DeriveRisk

-----------------------------------------------------------------------------

LEMMA GravityIsNat ==
  ASSUME NEW s, NEW past, NEW rss
  PROVE  Gravity[DeriveRisk(s, past, rss)] \in Nat
<1>1. DeriveRisk(s, past, rss) \in Levels
  BY DEF DeriveRisk, Levels
<1>2. \A l \in Levels : Gravity[l] \in Nat
  BY DEF Gravity, Levels
<1> QED
  BY <1>1, <1>2

\* The JSON line of a sample (no history, every workload) is at least as grave
\* as any screen that shows it (any history, the workloads a filter lets
\* through): JsonNeverMilder, for every sample.
THEOREM JsonIsNeverMilder ==
  ASSUME NEW s \in Memory, NEW past \in Histories,
         NEW all \in Nat, NEW shown \in Nat, shown <= all
  PROVE  Gravity[DeriveRisk(s, past, shown)] <= Gravity[DeriveRisk(s, <<>>, all)]
<1>1. <<>> \in Histories
  BY DEF Histories
<1>2. /\ CompressedRising(s, past) => CompressedRising(s, <<>>)
      /\ SwapIncreasing(s, past) => SwapIncreasing(s, <<>>)
  BY RisingAgainstNothing
<1>3. IsCritical(s, past) => IsCritical(s, <<>>)
  BY <1>2 DEF IsCritical
<1>4. IsWarn(s, past) => IsWarn(s, <<>>)
  BY <1>2 DEF IsWarn
<1>5. IsWatch(s, shown) => IsWatch(s, all)
  <2>1. s.total \div 2 \in Nat
    BY SharesAreNat DEF Memory
  <2> QED
    BY <2>1 DEF IsWatch
<1> QED
  BY <1>1, <1>3, <1>4, <1>5, GravityFromTests

\* What a filter hides changes no verdict but Watch, and that only to Ok:
\* FilterTouchesWatchOnly, for every sample and history.
THEOREM HiddenWorkloadsTouchWatchOnly ==
  ASSUME NEW s \in Memory, NEW past \in Histories,
         NEW all \in Nat, NEW shown \in Nat, shown <= all,
         DeriveRisk(s, past, shown) # DeriveRisk(s, past, all)
  PROVE  DeriveRisk(s, past, shown) = "Ok" /\ DeriveRisk(s, past, all) = "Watch"
<1>1. IsWatch(s, shown) => IsWatch(s, all)
  <2>1. s.total \div 2 \in Nat
    BY SharesAreNat DEF Memory
  <2> QED
    BY <2>1 DEF IsWatch
<1> QED
  BY <1>1 DEF DeriveRisk

-----------------------------------------------------------------------------

\* How grave a pressure is.
PressureAtMost(p, q) == (p = "Critical" => q = "Critical") /\ (p = "Warn" => q \in {"Warn", "Critical"})

\* Pressure does not ease when nothing gets better.
LEMMA PressureMonotone ==
  ASSUME NEW a \in Memory, NEW b \in Memory, NoBetter(a, b)
  PROVE  PressureAtMost(DerivePressure(a), DerivePressure(b))
<1> DEFINE Above(s, floor, share) == s.swapUsed >= Larger(floor, s.total \div share)
           Squeezed(s, compressed, reclaimable, active) ==
             /\ AtLeast(s.compressed, compressed, s.total)
             /\ AtMost(Reclaimable(s), reclaimable, s.total)
             /\ AtLeast(s.active + s.wired, active, s.total)
<1>1. /\ a.total = b.total /\ a.total \in Nat
      /\ a.swapUsed \in Nat /\ b.swapUsed \in Nat /\ a.swapUsed <= b.swapUsed
      /\ a.compressed \in Nat /\ b.compressed \in Nat /\ a.compressed <= b.compressed
      /\ a.active + a.wired \in Nat /\ b.active + b.wired \in Nat
      /\ a.active + a.wired <= b.active + b.wired
  BY DEF Memory, NoBetter
<1>2. Reclaimable(a) \in Nat /\ Reclaimable(b) \in Nat /\ Reclaimable(b) <= Reclaimable(a)
  BY DEF Memory, Reclaimable, NoBetter
<1>3. GiB \in Nat /\ 2 * GiB \in Nat /\ 512 * MiB \in Nat
  BY MiBAssumption DEF GiB
<1>4. a.total \div 20 \in Nat /\ a.total \div 100 \in Nat
  BY <1>1, SharesAreNat
<1>5. /\ Above(a, 2 * GiB, 20) => Above(b, 2 * GiB, 20)
      /\ Above(a, 512 * MiB, 100) => Above(b, 512 * MiB, 100)
  BY <1>1, <1>3, <1>4 DEF Larger
<1>6. /\ Squeezed(a, 20, 8, 50) => Squeezed(b, 20, 8, 50)
      /\ Squeezed(a, 10, 16, 45) => Squeezed(b, 10, 16, 45)
  BY <1>1, <1>2 DEF AtLeast, AtMost
<1>7. \A s \in {a, b} : DerivePressure(s) =
        IF s.total = 0 THEN "Unknown"
        ELSE IF Above(s, 2 * GiB, 20) \/ Squeezed(s, 20, 8, 50) THEN "Critical"
        ELSE IF Above(s, 512 * MiB, 100) \/ Squeezed(s, 10, 16, 45) THEN "Warn"
        ELSE "Normal"
  BY DEF DerivePressure
<1> HIDE DEF Above, Squeezed
<1> QED
  BY <1>1, <1>5, <1>6, <1>7 DEF PressureAtMost

LEMMA HeadIs == ASSUME NEW h \in Histories, h # <<>> PROVE Head(h) = h[1]
BY DEF Histories

SameOldest(h, k) == (h = <<>> <=> k = <<>>) /\ (h # <<>> => h[1] = k[1])

\* From one sample to the next, against histories with the same oldest sample,
\* the risk goes down only if some figure or the workloads' memory did, with the
\* pressure each sample derives for itself.
THEOREM NoReliefWithoutCause ==
  ASSUME NEW a \in Memory, NEW b \in Memory, NoBetter(a, b),
         NEW h \in Histories, NEW k \in Histories, SameOldest(h, k),
         NEW rss \in Nat, NEW more \in Nat, rss <= more
  PROVE  Gravity[DeriveRisk(WithPressure(a), h, rss)]
           <= Gravity[DeriveRisk(WithPressure(b), k, more)]
<1> DEFINE c == WithPressure(a)
           d == WithPressure(b)
<1>1. c \in Memory /\ d \in Memory
  <2>1. DerivePressure(a) \in Pressures /\ DerivePressure(b) \in Pressures
    BY DEF DerivePressure, Pressures
  <2> QED
    BY <2>1 DEF WithPressure, Memory
<1>2. PressureAtMost(c.pressure, d.pressure)
  BY PressureMonotone DEF WithPressure, Memory
<1>3. NoBetter(c, d)
  BY DEF NoBetter, Reclaimable, WithPressure, Memory
<1> HIDE DEF c, d
<1>4. /\ c.total = d.total /\ c.total \in Nat
      /\ c.swapins \in Nat /\ d.swapins \in Nat /\ c.swapins <= d.swapins
      /\ c.swapouts \in Nat /\ d.swapouts \in Nat /\ c.swapouts <= d.swapouts
      /\ c.compressed \in Nat /\ d.compressed \in Nat /\ c.compressed <= d.compressed
  BY <1>1, <1>3 DEF Memory, NoBetter
<1>5. /\ PercentOf(c.total, 5) \in Nat /\ PercentOf(c.total, 10) \in Nat
      /\ PercentOf(c.total, 20) \in Nat /\ 16 * MiB \in Nat
  BY <1>4, SharesAreNat, MiBAssumption
<1>6. /\ Headroom(c) < PercentOf(c.total, 5) => Headroom(d) < PercentOf(d.total, 5)
      /\ Headroom(c) < PercentOf(c.total, 10) => Headroom(d) < PercentOf(d.total, 10)
      /\ Headroom(c) < PercentOf(c.total, 20) => Headroom(d) < PercentOf(d.total, 20)
  <2>1. Headroom(c) \in Nat /\ Headroom(d) \in Nat /\ Headroom(d) <= Headroom(c)
    BY <1>1, <1>3, HeadroomShrinks
  <2>2. PercentOf(d.total, 5) = PercentOf(c.total, 5) /\ PercentOf(d.total, 10) = PercentOf(c.total, 10)
        /\ PercentOf(d.total, 20) = PercentOf(c.total, 20)
    BY <1>4
  <2> QED
    BY <1>5, <2>1, <2>2
<1>7. /\ CompressedRising(c, h) => CompressedRising(d, k)
      /\ SwapIncreasing(c, h) => SwapIncreasing(d, k)
  <2>1. /\ c.compressed \in Nat /\ d.compressed \in Nat /\ c.compressed <= d.compressed
        /\ c.swapUsed \in Nat /\ d.swapUsed \in Nat /\ c.swapUsed <= d.swapUsed
    BY <1>1, <1>3 DEF Memory, NoBetter
  <2>2. h # <<>> => h[1].compressed \in Nat /\ h[1].swapUsed \in Nat
    BY OldestIsMemory DEF Memory
  <2> QED
    BY <2>1, <2>2 DEF CompressedRising, SwapIncreasing, SameOldest
<1>8. TotalsMissing(d) => TotalsMissing(c)
  <2>1. /\ c.wired \in Nat /\ d.wired \in Nat /\ c.wired <= d.wired
        /\ c.active \in Nat /\ d.active \in Nat /\ c.active <= d.active
        /\ c.used \in Nat /\ d.used \in Nat /\ c.used <= d.used
    BY <1>1, <1>3 DEF Memory, NoBetter
  <2> QED
    BY <1>4, <2>1 DEF TotalsMissing
<1>9. IsCritical(c, h) => IsCritical(d, k)
  BY <1>2, <1>4, <1>5, <1>6, <1>7 DEF IsCritical, PressureAtMost
<1>10. IsWarn(c, h) => IsCritical(d, k) \/ IsWarn(d, k)
  BY <1>2, <1>4, <1>5, <1>6, <1>7 DEF IsCritical, IsWarn, PressureAtMost
<1>11. IsWatch(c, rss) => IsWatch(d, more)
  <2>1. c.total \div 2 \in Nat
    BY <1>1, SharesAreNat DEF Memory
  <2> QED
    BY <1>4, <1>5, <1>6, <2>1 DEF IsWatch
<1> QED
  BY <1>1, <1>8, <1>9, <1>10, <1>11, GravityFromTests DEF c, d

-----------------------------------------------------------------------------
(***************************************************************************)
(* The detector.                                                           *)
(***************************************************************************)

\* The least confidence of a server of a kind; other processes of it are less
\* surely one.
ServerAt(kind) ==
  CASE kind = "Ollama" -> 96
    [] kind = "LlamaCpp" -> 94
    [] kind = "Mlx" -> 93
    [] kind = "LmStudio" -> 92
    [] kind = "ComfyUi" -> 92
    [] kind = "Python" -> 84
    [] OTHER -> 63

Rated(d) ==
  /\ d.confidence \in 0..96
  /\ d.role = "Manager" => d.confidence = 96
  /\ d.role = "Server" => d.confidence >= ServerAt(d.kind)
  /\ d.role \notin {"Manager", "Server"} => d.confidence < ServerAt(d.kind)

Is(d, kind, role, confidence) ==
  d.kind = kind /\ d.role = role /\ d.confidence = confidence

LEMMA RatedBy ==
  ASSUME NEW d, NEW kind, NEW role, NEW c \in 0..96, Is(d, kind, role, c),
         role = "Manager" => c = 96,
         role = "Server" => c >= ServerAt(kind),
         role \notin {"Manager", "Server"} => c < ServerAt(kind)
  PROVE  Rated(d)
  BY DEF Is, Rated

LEMMA RulesAreRated == \A i \in 1..13 : Rated(Rules[i])
  <1>1. Rated(Rules[1])
    <2>1. Is(Rules[1], "Ollama", "Manager", 96)
      BY DEF Is, Rules, Rule
    <2>2. QED
      BY <2>1, RatedBy DEF ServerAt
  <1>2. Rated(Rules[2])
    <2>1. Is(Rules[2], "Ollama", "Runner", 95)
      BY DEF Is, Rules, Rule
    <2>2. QED
      BY <2>1, RatedBy DEF ServerAt
  <1>3. Rated(Rules[3])
    <2>1. Is(Rules[3], "Ollama", "Runner", 72)
      BY DEF Is, Rules, Rule
    <2>2. QED
      BY <2>1, RatedBy DEF ServerAt
  <1>4. Rated(Rules[4])
    <2>1. Is(Rules[4], "LlamaCpp", "Server", 94)
      BY DEF Is, Rules, Rule
    <2>2. QED
      BY <2>1, RatedBy DEF ServerAt
  <1>5. Rated(Rules[5])
    <2>1. Is(Rules[5], "LlamaCpp", "Runner", 70)
      BY DEF Is, Rules, Rule
    <2>2. QED
      BY <2>1, RatedBy DEF ServerAt
  <1>6. Rated(Rules[6])
    <2>1. Is(Rules[6], "Mlx", "Server", 93)
      BY DEF Is, Rules, Rule
    <2>2. QED
      BY <2>1, RatedBy DEF ServerAt
  <1>7. Rated(Rules[7])
    <2>1. Is(Rules[7], "Mlx", "Worker", 68)
      BY DEF Is, Rules, Rule
    <2>2. QED
      BY <2>1, RatedBy DEF ServerAt
  <1>8. Rated(Rules[8])
    <2>1. Is(Rules[8], "LmStudio", "Server", 92)
      BY DEF Is, Rules, Rule
    <2>2. QED
      BY <2>1, RatedBy DEF ServerAt
  <1>9. Rated(Rules[9])
    <2>1. Is(Rules[9], "ComfyUi", "Server", 92)
      BY DEF Is, Rules, Rule
    <2>2. QED
      BY <2>1, RatedBy DEF ServerAt
  <1>10. Rated(Rules[10])
    <2>1. Is(Rules[10], "ComfyUi", "Worker", 72)
      BY DEF Is, Rules, Rule
    <2>2. QED
      BY <2>1, RatedBy DEF ServerAt
  <1>11. Rated(Rules[11])
    <2>1. Is(Rules[11], "Python", "Server", 84)
      BY DEF Is, Rules, Rule
    <2>2. QED
      BY <2>1, RatedBy DEF ServerAt
  <1>12. Rated(Rules[12])
    <2>1. Is(Rules[12], "Python", "Worker", 66)
      BY DEF Is, Rules, Rule
    <2>2. QED
      BY <2>1, RatedBy DEF ServerAt
  <1>13. Rated(Rules[13])
    <2>1. Is(Rules[13], "Generic", "Unknown", 62)
      BY DEF Is, Rules, Rule
    <2>2. QED
      BY <2>1, RatedBy DEF ServerAt
  <1>14. QED
    BY <1>1, <1>2, <1>3, <1>4, <1>5, <1>6, <1>7, <1>8, <1>9, <1>10, <1>11, <1>12, <1>13

LEMMA LeastOfNaturals ==
  ASSUME NEW S, S # {}, NEW n \in Nat, S \subseteq 1..n
  PROVE  Min(S) \in S /\ \A x \in S : Min(S) <= x
  BY LeastNumber DEF Min

\* detect_workload_process: managers are surest, then the servers of a kind.
LEMMA DetectionRated == ASSUME NEW p PROVE Rated(Detect(p))
  <1> DEFINE matching == {i \in DOMAIN Rules : Rules[i].mark \in Marks(p)}
             r == Rules[Min(matching)]
  <1>1. CASE matching = {}
    <2>1. Is(Detect(p), "Unknown", "Unknown", 0)
      BY <1>1 DEF Detect, Is
    <2>2. QED
      BY <2>1, RatedBy DEF ServerAt
  <1>2. CASE matching # {}
    <2>1. matching \subseteq 1..13
      <3>1. DOMAIN Rules = 1..13
        BY DEF Rules
      <3>2. QED
        BY <3>1
    <2>2. Rated(r)
      BY <1>2, <2>1, LeastOfNaturals, RulesAreRated
    <2>3. Is(Detect(p), r.kind, r.role, r.confidence)
      BY <1>2 DEF Detect, Is
    <2> HIDE DEF r
    <2>4. QED
      BY <2>2, <2>3, RatedBy DEF Rated
  <1>3. QED
    BY <1>1, <1>2

-----------------------------------------------------------------------------
(***************************************************************************)
(* The lists of the screen are sorted lists of what they show.             *)
(***************************************************************************)

LEMMA SortedWorkloads ==
  ASSUME NEW S, IsFiniteSet(S), \A w \in S : w.rss \in Nat
  PROVE  Sorted(S, LargerWorkload) \in SetToSeqs(S) /\ Sorted(S, SmallerWorkload) \in SetToSeqs(S)
  <1> DEFINE R == {x \in S \X S : x[1].rss > x[2].rss}
             Q == {x \in S \X S : x[1].rss < x[2].rss}
  <1>1. Orders(R, S) /\ Orders(Q, S)
    BY DEF Orders
  <1>2. \A w, x \in S : /\ <<w, x>> \in R <=> LargerWorkload(w, x)
                        /\ <<w, x>> \in Q <=> SmallerWorkload(w, x)
    BY DEF LargerWorkload, SmallerWorkload
  <1> HIDE DEF R, Q
  <1>3. \A s \in SetToSeqs(S) : \A i \in DOMAIN s : s[i] \in S
    BY DEF SetToSeqs
  <1>4. Sorted(S, LargerWorkload) \in SetToSeqs(S)
    <2>1. PICK s \in SetToSeqs(S) : InOrder(s, R)
      BY <1>1, OrderedExists
    <2>2. \A i, j \in DOMAIN s : i < j => ~LargerWorkload(s[j], s[i])
      BY <1>2, <1>3, <2>1 DEF InOrder
    <2>3. QED
      BY <2>2 DEF Sorted
  <1>5. Sorted(S, SmallerWorkload) \in SetToSeqs(S)
    <2>1. PICK s \in SetToSeqs(S) : InOrder(s, Q)
      BY <1>1, OrderedExists
    <2>2. \A i, j \in DOMAIN s : i < j => ~SmallerWorkload(s[j], s[i])
      BY <1>2, <1>3, <2>1 DEF InOrder
    <2>3. QED
      BY <2>2 DEF Sorted
  <1>6. QED
    BY <1>4, <1>5

LEMMA SortedRows ==
  ASSUME NEW S, IsFiniteSet(S), S \subseteq Processes
  PROVE  Sorted(S, RowBefore) \in SetToSeqs(S) /\ Sorted(S, Upwards) \in SetToSeqs(S)
  <1> DEFINE R == {x \in S \X S : RowBefore(x[1], x[2])}
             Q == {x \in S \X S : Upwards(x[1], x[2])}
  <1>1. \A p \in S : p.pid \in Nat /\ p.rss \in Nat /\ p.cpu \in Nat
    BY DEF Processes
  <1>2. \A p \in S : Detect(p).confidence \in Nat
    BY DetectionRated DEF Rated
  <1>3. \A p, q \in S : /\ <<p, q>> \in R <=> RowBefore(p, q)
                        /\ <<p, q>> \in Q <=> Upwards(p, q)
    OBVIOUS
  <1> HIDE DEF R, Q
  <1>4. Orders(R, S)
    BY <1>1, <1>2, <1>3 DEF Orders, RowBefore, IsAi
  <1>5. Orders(Q, S)
    BY <1>1, <1>2, <1>3 DEF Orders, Upwards, IsAi
  <1>6. \A s \in SetToSeqs(S) : \A i \in DOMAIN s : s[i] \in S
    BY DEF SetToSeqs
  <1>7. Sorted(S, RowBefore) \in SetToSeqs(S)
    <2>1. PICK s \in SetToSeqs(S) : InOrder(s, R)
      BY <1>4, OrderedExists
    <2>2. \A i, j \in DOMAIN s : i < j => ~RowBefore(s[j], s[i])
      BY <1>3, <1>6, <2>1 DEF InOrder
    <2>3. QED
      BY <2>2 DEF Sorted
  <1>8. Sorted(S, Upwards) \in SetToSeqs(S)
    <2>1. PICK s \in SetToSeqs(S) : InOrder(s, Q)
      BY <1>5, OrderedExists
    <2>2. \A i, j \in DOMAIN s : i < j => ~Upwards(s[j], s[i])
      BY <1>3, <1>6, <2>1 DEF InOrder
    <2>3. QED
      BY <2>2 DEF Sorted
  <1>9. QED
    BY <1>7, <1>8

-----------------------------------------------------------------------------
(***************************************************************************)
(* build_workloads: the groups after i processes of the list.              *)
(***************************************************************************)

IsGrouping(g, list, n) ==
  g = [i \in 0..n |->
         IF i = 0 THEN <<>>
         ELSE IF IsAi(list[i])
         THEN WithProcess(g[i - 1], GroupingKey(list[i], Detected(list)), list[i])
         ELSE g[i - 1]]

LEMMA GroupingExists == ASSUME NEW list, NEW n \in Nat PROVE \E g : IsGrouping(g, list, n)
  <1> DEFINE Bad == {m \in 1..n : ~\E g : IsGrouping(g, list, m)}
  <1>1. \E g : IsGrouping(g, list, 0)
    <2>1. IsGrouping([i \in 0..0 |-> <<>>], list, 0)
      BY DEF IsGrouping
    <2>2. QED
      BY <2>1
  <1>2. ASSUME Bad # {} PROVE FALSE
    <2>1. PICK m \in Bad : \A k \in Bad : m <= k
      <3>1. Bad \subseteq 1..n
        OBVIOUS
      <3> HIDE DEF Bad
      <3>2. QED
        BY <1>2, <3>1, LeastNumber
    <2>2. m \in 1..n /\ m - 1 \in 0..n
      OBVIOUS
    <2>3. PICK g : IsGrouping(g, list, m - 1)
      <3>1. CASE m = 1
        BY <1>1, <3>1
      <3>2. CASE m # 1
        BY <2>1, <2>2, <3>2
      <3>3. QED
        BY <3>1, <3>2
    <2> DEFINE last == IF IsAi(list[m])
                       THEN WithProcess(g[m - 1], GroupingKey(list[m], Detected(list)), list[m])
                       ELSE g[m - 1]
               h == [i \in 0..m |-> IF i = m THEN last ELSE g[i]]
    <2>4. \A i \in 0..m : i # m => i \in 0..(m - 1) /\ (i # 0 => i - 1 \in 0..(m - 1) /\ i - 1 # m)
      BY <2>2
    <2>5. \A i \in 0..m :
            h[i] = IF i = 0 THEN <<>>
                   ELSE IF IsAi(list[i])
                   THEN WithProcess(h[i - 1], GroupingKey(list[i], Detected(list)), list[i])
                   ELSE h[i - 1]
      <3> SUFFICES ASSUME NEW i \in 0..m
                   PROVE  h[i] = IF i = 0 THEN <<>>
                                 ELSE IF IsAi(list[i])
                                 THEN WithProcess(h[i - 1], GroupingKey(list[i], Detected(list)), list[i])
                                 ELSE h[i - 1]
        OBVIOUS
      <3>1. CASE i = m
        <4>1. h[i] = last /\ i - 1 \in 0..m /\ i - 1 # m
          BY <2>2, <3>1
        <4>2. h[i - 1] = g[i - 1]
          BY <4>1
        <4>3. QED
          BY <2>2, <3>1, <4>1, <4>2
      <3>2. CASE i # m
        <4>1. h[i] = g[i]
          BY <3>2
        <4>2. i # 0 => h[i - 1] = g[i - 1]
          BY <2>4, <3>2
        <4>3. g[i] = IF i = 0 THEN <<>>
                     ELSE IF IsAi(list[i])
                     THEN WithProcess(g[i - 1], GroupingKey(list[i], Detected(list)), list[i])
                     ELSE g[i - 1]
          BY <2>3, <2>4, <3>2 DEF IsGrouping
        <4>4. QED
          BY <4>1, <4>2, <4>3
      <3>3. QED
        BY <3>1, <3>2
    <2>6. IsGrouping(h, list, m)
      <3>1. h = [i \in 0..m |-> h[i]]
        OBVIOUS
      <3> HIDE DEF h
      <3>2. QED
        BY <2>5, <3>1 DEF IsGrouping
    <2>7. QED
      BY <2>6
  <1>3. QED
    <2>1. CASE n = 0
      BY <1>1, <2>1
    <2>2. CASE n # 0
      BY <1>2, <2>2
    <2>3. QED
      BY <2>1, <2>2

LEMMA GroupedIs ==
  ASSUME NEW list, Len(list) \in Nat
  PROVE  \E g : IsGrouping(g, list, Len(list)) /\ Grouped(list) = g[Len(list)]
  <1> DEFINE g == CHOOSE g : IsGrouping(g, list, Len(list))
  <1>1. IsGrouping(g, list, Len(list))
    BY GroupingExists
  <1>2. Grouped(list) = g[Len(list)]
    BY DEF Grouped, IsGrouping
  <1>3. QED
    BY <1>1, <1>2

\* The processes of a list by their ids, and what they use.
Ids(list) == {list[j].pid : j \in DOMAIN list}
RssById(list) == [pid \in Ids(list) |-> ProcessOf(list, pid).rss]
CpuById(list) == [pid \in Ids(list) |-> ProcessOf(list, pid).cpu]

LEMMA ProcessById ==
  ASSUME NEW list \in ProcessLists, NEW j \in DOMAIN list
  PROVE  /\ ProcessOf(list, list[j].pid) = list[j] /\ list[j] \in Processes
         /\ list[j].pid \in Ids(list)
         /\ RssById(list)[list[j].pid] = list[j].rss /\ list[j].rss \in Nat
         /\ CpuById(list)[list[j].pid] = list[j].cpu /\ list[j].cpu \in Nat
  <1>1. list \in Seq(Processes) /\ \A i, k \in DOMAIN list : list[i].pid = list[k].pid => i = k
    BY DEF ProcessLists
  <1>2. list[j] \in Processes /\ list[j] \in Range(list)
    BY <1>1, ElementOfSeq DEF Range
  <1>3. \A p \in Range(list) : p.pid = list[j].pid => p = list[j]
    BY <1>1 DEF Range
  <1>4. ProcessOf(list, list[j].pid) = list[j]
    BY <1>2, <1>3 DEF ProcessOf
  <1>5. list[j].pid \in Ids(list)
    BY DEF Ids
  <1>6. list[j].rss \in Nat /\ list[j].cpu \in Nat
    BY <1>2 DEF Processes
  <1>7. QED
    BY <1>2, <1>4, <1>5, <1>6 DEF RssById, CpuById

LEMMA IdsUse ==
  ASSUME NEW list \in ProcessLists
  PROVE  /\ IsFiniteSet(Ids(list))
         /\ \A pid \in Ids(list) : RssById(list)[pid] \in Nat /\ CpuById(list)[pid] \in Nat
         /\ Len(list) \in Nat /\ DOMAIN list = 1..Len(list)
  <1>1. Len(list) \in Nat /\ DOMAIN list = 1..Len(list)
    BY LenProperties DEF ProcessLists
  <1>2. IsFiniteSet(Ids(list))
    <2> DEFINE f == [j \in DOMAIN list |-> list[j].pid]
    <2>1. f \in Surjection(DOMAIN list, Ids(list))
      BY DEF Surjection, Ids
    <2>2. IsFiniteSet(DOMAIN list)
      BY <1>1, FS_Interval
    <2> HIDE DEF f
    <2>3. QED
      BY <2>1, <2>2, FS_Surjection
  <1>3. ASSUME NEW pid \in Ids(list)
        PROVE  RssById(list)[pid] \in Nat /\ CpuById(list)[pid] \in Nat
    <2>1. PICK j \in DOMAIN list : pid = list[j].pid
      BY DEF Ids
    <2>2. QED
      BY <2>1, ProcessById
  <1>4. QED
    BY <1>1, <1>2, <1>3

\* A process is counted once in what its group uses.
LEMMA OneOf ==
  ASSUME NEW list \in ProcessLists, NEW i \in DOMAIN list, NEW T \in SUBSET Ids(list),
         list[i].pid \in T
  PROVE  /\ SumFunctionOnSet(RssById(list), T)
              = list[i].rss + SumFunctionOnSet(RssById(list), T \ {list[i].pid})
         /\ SumFunctionOnSet(CpuById(list), T)
              = list[i].cpu + SumFunctionOnSet(CpuById(list), T \ {list[i].pid})
         /\ list[i].rss \in Nat /\ list[i].cpu \in Nat
  <1> DEFINE ids == Ids(list)
             f == RssById(list)
             g == CpuById(list)
             x == list[i].pid
  <1>1. IsFiniteSet(ids) /\ (\A pid \in ids : f[pid] \in Int) /\ (\A pid \in ids : g[pid] \in Int)
    BY IdsUse
  <1>2. /\ f[x] = list[i].rss /\ list[i].rss \in Nat
        /\ g[x] = list[i].cpu /\ list[i].cpu \in Nat
    BY ProcessById
  <1>3. T \in SUBSET ids /\ x \in T
    OBVIOUS
  <1> HIDE DEF ids, f, g, x
  <1>4. SumFunctionOnSet(f, T) = f[x] + SumFunctionOnSet(f, T \ {x})
    BY <1>1, <1>3, SumTakeOut
  <1>5. SumFunctionOnSet(g, T) = g[x] + SumFunctionOnSet(g, T \ {x})
    BY <1>1, <1>3, SumTakeOut
  <1>6. QED
    BY <1>2, <1>4, <1>5 DEF f, g, x

\* w is the group of the processes J of a list.
CountsAll(list, J, w) ==
  /\ w.pids = {list[j].pid : j \in J}
  /\ w.rss = SumFunctionOnSet(RssById(list), w.pids)
  /\ w.cpu = SumFunctionOnSet(CpuById(list), w.pids)

NamedFor(list, J, w) ==
  /\ w.name = w.speaker.name
  /\ \E j \in J : w.speaker = Detect(list[j])
  /\ \E j \in J : w.kind = Detect(list[j]).kind
  /\ w.hint # NoHint => \E j \in J : w.hint = Detect(list[j]).hint

\* Its speaker is a manager if it has one, or else a server, or else the surest.
SpokenFor(list, J, w) ==
  \A j \in J :
    LET d == Detect(list[j])
    IN /\ d.role = "Manager" => w.speaker.role = "Manager"
       /\ d.role = "Server" => w.speaker.role \in {"Manager", "Server"}
       /\ w.speaker.role \in {"Manager", "Server"} \/ d.confidence <= w.speaker.confidence

ShowsIo(list, J, w) == (\E j \in J : list[j].io \notin NoSignal) => w.io \notin NoSignal

Stands(list, J, w) ==
  CountsAll(list, J, w) /\ NamedFor(list, J, w) /\ SpokenFor(list, J, w) /\ ShowsIo(list, J, w)

LEMMA NewGroupStands ==
  ASSUME NEW list \in ProcessLists, NEW i \in DOMAIN list
  PROVE  Stands(list, {i}, NewGroup(list[i]))
  <1> DEFINE w == NewGroup(list[i])
             d == Detect(list[i])
  <1>1. /\ w.kind = d.kind /\ w.hint = d.hint /\ w.name = d.name /\ w.speaker = d
        /\ w.io = list[i].io /\ w.pids = {list[i].pid}
        /\ w.rss = list[i].rss /\ w.cpu = list[i].cpu
    BY DEF NewGroup
  <1>2. d.confidence \in Nat
    BY DetectionRated DEF Rated
  <1> HIDE DEF w
  <1>3. CountsAll(list, {i}, w)
    <2>1. SumFunctionOnSet(RssById(list), {list[i].pid}) = list[i].rss
      <3>1. {list[i].pid} \in SUBSET Ids(list)
        BY ProcessById
      <3>2. {list[i].pid} \ {list[i].pid} = {}
        OBVIOUS
      <3>3. SumFunctionOnSet(RssById(list), {list[i].pid})
              = list[i].rss + SumFunctionOnSet(RssById(list), {list[i].pid} \ {list[i].pid})
        BY <3>1, OneOf, Zenon
      <3>4. SumFunctionOnSet(RssById(list), {list[i].pid} \ {list[i].pid}) = 0
        BY <3>2, EmptySum
      <3>5. list[i].rss \in Nat
        BY ProcessById
      <3>6. QED
        BY <3>3, <3>4, <3>5
    <2>2. SumFunctionOnSet(CpuById(list), {list[i].pid}) = list[i].cpu
      <3>1. {list[i].pid} \in SUBSET Ids(list)
        BY ProcessById
      <3>2. {list[i].pid} \ {list[i].pid} = {}
        OBVIOUS
      <3>3. SumFunctionOnSet(CpuById(list), {list[i].pid})
              = list[i].cpu + SumFunctionOnSet(CpuById(list), {list[i].pid} \ {list[i].pid})
        BY <3>1, OneOf, Zenon
      <3>4. SumFunctionOnSet(CpuById(list), {list[i].pid} \ {list[i].pid}) = 0
        BY <3>2, EmptySum
      <3>5. list[i].cpu \in Nat
        BY ProcessById
      <3>6. QED
        BY <3>3, <3>4, <3>5
    <2>3. QED
      BY <1>1, <2>1, <2>2 DEF CountsAll
  <1>4. NamedFor(list, {i}, w)
    BY <1>1 DEF NamedFor
  <1>5. SpokenFor(list, {i}, w)
    BY <1>1, <1>2 DEF SpokenFor
  <1>6. ShowsIo(list, {i}, w)
    BY <1>1 DEF ShowsIo
  <1>7. QED
    BY <1>3, <1>4, <1>5, <1>6 DEF Stands, w

LEMMA JoinStands ==
  ASSUME NEW list \in ProcessLists, NEW J \in SUBSET DOMAIN list, NEW i \in DOMAIN list \ J,
         \A j \in J : Detect(list[j]).kind = Detect(list[i]).kind,
         NEW w, Stands(list, J, w)
  PROVE  Stands(list, J \cup {i}, Join(w, list[i]))
  <1> DEFINE x == Join(w, list[i])
             d == Detect(list[i])
             e == w.speaker
             better == BetterRepresentative(d, e)
  <1>1. /\ x.kind = w.kind
        /\ x.hint = IF w.hint = NoHint \/ (better /\ d.hint # NoHint) THEN d.hint ELSE w.hint
        /\ x.name = IF better THEN d.name ELSE w.name
        /\ x.io = FirstAvailable(w.io, list[i].io)
        /\ x.pids = w.pids \cup {list[i].pid}
        /\ x.rss = w.rss + list[i].rss /\ x.cpu = w.cpu + list[i].cpu
        /\ x.speaker = IF better THEN d ELSE e
    BY DEF Join
  <1>2. PICK k \in J : e = Detect(list[k])
    BY DEF Stands, NamedFor
  <1>3. Rated(d) /\ Rated(e) /\ d.kind = e.kind
    BY <1>2, DetectionRated
  <1> HIDE DEF x
  <1>4. CountsAll(list, J \cup {i}, x)
    <2>1. w.pids = {list[j].pid : j \in J} /\ w.rss = SumFunctionOnSet(RssById(list), w.pids)
          /\ w.cpu = SumFunctionOnSet(CpuById(list), w.pids)
      BY DEF Stands, CountsAll
    <2>2. list[i].pid \notin w.pids
      BY <2>1 DEF ProcessLists
    <2>3. x.pids = {list[j].pid : j \in J \cup {i}}
      BY <1>1, <2>1
    <2>4. x.pids \in SUBSET Ids(list) /\ list[i].pid \in x.pids /\ x.pids \ {list[i].pid} = w.pids
      BY <1>1, <2>2, <2>3 DEF Ids
    <2>5. x.rss = SumFunctionOnSet(RssById(list), x.pids)
      <3>1. SumFunctionOnSet(RssById(list), x.pids)
              = list[i].rss + SumFunctionOnSet(RssById(list), w.pids)
        <4>1. SumFunctionOnSet(RssById(list), x.pids)
                = list[i].rss + SumFunctionOnSet(RssById(list), x.pids \ {list[i].pid})
          BY <2>4, OneOf, Zenon
        <4>2. QED
          BY <2>4, <4>1, Zenon
      <3>2. list[i].rss \in Nat
        BY ProcessById
      <3>3. SumFunctionOnSet(RssById(list), w.pids) \in Int
        <4> DEFINE f == RssById(list)
        <4>1. IsFiniteSet(w.pids) /\ \A pid \in w.pids : f[pid] \in Int
          BY <2>4, IdsUse, FS_Subset
        <4> HIDE DEF f
        <4>2. SumFunctionOnSet(f, w.pids) \in Int
          BY <4>1, SumInt
        <4>3. QED
          BY <4>2 DEF f
      <3>4. QED
        BY <1>1, <2>1, <3>1, <3>2, <3>3
    <2>6. x.cpu = SumFunctionOnSet(CpuById(list), x.pids)
      <3>1. SumFunctionOnSet(CpuById(list), x.pids)
              = list[i].cpu + SumFunctionOnSet(CpuById(list), w.pids)
        <4>1. SumFunctionOnSet(CpuById(list), x.pids)
                = list[i].cpu + SumFunctionOnSet(CpuById(list), x.pids \ {list[i].pid})
          BY <2>4, OneOf, Zenon
        <4>2. QED
          BY <2>4, <4>1, Zenon
      <3>2. list[i].cpu \in Nat
        BY ProcessById
      <3>3. SumFunctionOnSet(CpuById(list), w.pids) \in Int
        <4> DEFINE f == CpuById(list)
        <4>1. IsFiniteSet(w.pids) /\ \A pid \in w.pids : f[pid] \in Int
          BY <2>4, IdsUse, FS_Subset
        <4> HIDE DEF f
        <4>2. SumFunctionOnSet(f, w.pids) \in Int
          BY <4>1, SumInt
        <4>3. QED
          BY <4>2 DEF f
      <3>4. QED
        BY <1>1, <2>1, <3>1, <3>2, <3>3
    <2>7. QED
      BY <2>3, <2>5, <2>6 DEF CountsAll
  <1>5. NamedFor(list, J \cup {i}, x)
    <2>1. w.name = e.name /\ (\E j \in J : w.kind = Detect(list[j]).kind)
          /\ (w.hint # NoHint => \E j \in J : w.hint = Detect(list[j]).hint)
      BY DEF Stands, NamedFor
    <2>2. x.name = x.speaker.name
      BY <1>1, <2>1
    <2>3. \E j \in J \cup {i} : x.speaker = Detect(list[j])
      BY <1>1, <1>2
    <2>4. \E j \in J \cup {i} : x.kind = Detect(list[j]).kind
      BY <1>1, <2>1
    <2>5. x.hint # NoHint => \E j \in J \cup {i} : x.hint = Detect(list[j]).hint
      BY <1>1, <2>1
    <2>6. QED
      BY <2>2, <2>3, <2>4, <2>5 DEF NamedFor
  <1>6. SpokenFor(list, J \cup {i}, x)
    <2> SUFFICES ASSUME NEW j \in J \cup {i}
                 PROVE  LET c == Detect(list[j])
                        IN /\ c.role = "Manager" => x.speaker.role = "Manager"
                           /\ c.role = "Server" => x.speaker.role \in {"Manager", "Server"}
                           /\ x.speaker.role \in {"Manager", "Server"} \/ c.confidence <= x.speaker.confidence
      BY DEF SpokenFor
    <2> DEFINE c == Detect(list[j])
    <2>1. Rated(c)
      BY DetectionRated
    <2>2. /\ d.confidence \in Nat /\ e.confidence \in Nat /\ c.confidence \in Nat
          /\ d.confidence <= 96 /\ (e.role = "Manager" => e.confidence = 96)
          /\ (e.role = "Server" /\ d.role \notin {"Manager", "Server"} => d.confidence < e.confidence)
      <3>1. ServerAt(e.kind) \in Nat
        BY DEF ServerAt
      <3>2. QED
        BY <1>3, <2>1, <3>1 DEF Rated
    <2>3. j \in J => /\ c.role = "Manager" => e.role = "Manager"
                     /\ c.role = "Server" => e.role \in {"Manager", "Server"}
                     /\ e.role \in {"Manager", "Server"} \/ c.confidence <= e.confidence
      BY DEF Stands, SpokenFor
    <2>4. j \notin J => c = d
      OBVIOUS
    <2> HIDE DEF c, d, e
    <2>5. CASE better
      <3>1. x.speaker = d
        BY <1>1, <2>5
      <3>2. \/ d.role = "Manager" /\ e.role # "Manager"
            \/ d.role = "Server" /\ e.role \notin {"Manager", "Server"}
            \/ d.confidence > e.confidence
        BY <2>5 DEF BetterRepresentative
      <3>3. QED
        BY <2>2, <2>3, <2>4, <3>1, <3>2 DEF c
    <2>6. CASE ~better
      <3>1. x.speaker = e
        BY <1>1, <2>6
      <3>2. /\ ~(d.role = "Manager" /\ e.role # "Manager")
            /\ ~(d.role = "Server" /\ e.role \notin {"Manager", "Server"})
            /\ ~(d.confidence > e.confidence)
        BY <2>6 DEF BetterRepresentative
      <3>3. QED
        BY <2>2, <2>3, <2>4, <3>1, <3>2 DEF c
    <2>7. QED
      BY <2>5, <2>6 DEF c
  <1>7. ShowsIo(list, J \cup {i}, x)
    <2>1. (\E j \in J : list[j].io \notin NoSignal) => w.io \notin NoSignal
      BY DEF Stands, ShowsIo
    <2>2. "" \in NoSignal
      BY DEF NoSignal
    <2>3. QED
      BY <1>1, <2>1, <2>2 DEF ShowsIo, FirstAvailable
  <1>8. QED
    BY <1>4, <1>5, <1>6, <1>7 DEF Stands, x
-----------------------------------------------------------------------------
(***************************************************************************)
(* The groups of a list are those of the keys of its AI processes, and     *)
(* each stands for the processes of its key.                               *)
(***************************************************************************)

KeyOf(list, j) == GroupingKey(list[j], Detected(list))

Members(list, i, key) == {j \in 1..i : IsAi(list[j]) /\ KeyOf(list, j) = key}

Covers(g, list, i) ==
  /\ \A key : key \in DOMAIN g <=> Members(list, i, key) # {}
  /\ \A key \in DOMAIN g : Stands(list, Members(list, i, key), g[key])

LEMMA KeyOfKind == ASSUME NEW p, NEW detected PROVE GroupingKey(p, detected)[1] = Detect(p).kind
  BY DEF GroupingKey

LEMMA OneMoreCovered ==
  ASSUME NEW list \in ProcessLists, NEW i \in 1..Len(list), NEW g, Covers(g, list, i - 1),
         IsAi(list[i])
  PROVE  Covers(WithProcess(g, KeyOf(list, i), list[i]), list, i)
  <1> DEFINE k == KeyOf(list, i)
             h == WithProcess(g, k, list[i])
             Old(key) == Members(list, i - 1, key)
             New(key) == Members(list, i, key)
  <1>1. /\ i \in DOMAIN list /\ i \in 1..i /\ i \notin 1..(i - 1) /\ 1..(i - 1) \subseteq DOMAIN list
        /\ \A j \in 1..i : j = i \/ j \in 1..(i - 1)
        /\ 1..(i - 1) \subseteq 1..i
    BY IdsUse
  <1>2. New(k) = Old(k) \cup {i} /\ \A key : key # k => New(key) = Old(key)
    BY <1>1 DEF Members
  <1>3. DOMAIN h = DOMAIN g \cup {k}
        /\ (\A key \in DOMAIN g : key # k => h[key] = g[key])
        /\ h[k] = IF k \in DOMAIN g THEN Join(g[k], list[i]) ELSE NewGroup(list[i])
    BY DEF WithProcess
  <1>4. /\ \A key : key \in DOMAIN g <=> Old(key) # {}
        /\ \A key \in DOMAIN g : Stands(list, Old(key), g[key])
    BY DEF Covers
  <1>5. Stands(list, New(k), h[k])
    <2>1. CASE k \in DOMAIN g
      <3>1. Old(k) \in SUBSET DOMAIN list /\ i \in DOMAIN list \ Old(k)
        BY <1>1 DEF Members
      <3>2. \A j \in Old(k) : Detect(list[j]).kind = Detect(list[i]).kind
        BY KeyOfKind DEF Members, KeyOf
      <3>3. Stands(list, Old(k), g[k]) /\ h[k] = Join(g[k], list[i]) /\ New(k) = Old(k) \cup {i}
        BY <1>2, <1>3, <1>4, <2>1
      <3> HIDE DEF k, h, Old, New
      <3>4. Stands(list, Old(k) \cup {i}, Join(g[k], list[i]))
        BY <3>1, <3>2, <3>3, JoinStands
      <3>5. QED
        BY <3>3, <3>4
    <2>2. CASE k \notin DOMAIN g
      <3>1. Old(k) = {} /\ New(k) = {i} /\ h[k] = NewGroup(list[i])
        BY <1>2, <1>3, <1>4, <2>2
      <3> HIDE DEF k, h, Old, New
      <3>2. QED
        BY <1>1, <3>1, NewGroupStands
    <2>3. QED
      BY <2>1, <2>2
  <1> HIDE DEF h, k
  <1>6. \A key : key \in DOMAIN h <=> New(key) # {}
    BY <1>2, <1>3, <1>4
  <1>7. \A key \in DOMAIN h : Stands(list, New(key), h[key])
    BY <1>2, <1>3, <1>4, <1>5
  <1>8. QED
    BY <1>6, <1>7 DEF Covers, h, k

LEMMA GroupsCover ==
  ASSUME NEW list \in ProcessLists
  PROVE  Covers(Grouped(list), list, Len(list))
  <1>1. Len(list) \in Nat
    BY IdsUse
  <1>2. PICK g : IsGrouping(g, list, Len(list)) /\ Grouped(list) = g[Len(list)]
    BY <1>1, GroupedIs
  <1> DEFINE Bad == {i \in 1..Len(list) : ~Covers(g[i], list, i)}
  <1>3. Covers(g[0], list, 0)
    <2>1. g[0] = <<>>
      BY <1>1, <1>2 DEF IsGrouping
    <2>2. DOMAIN g[0] = {} /\ 1..0 = {}
      BY <2>1
    <2>3. QED
      BY <2>2 DEF Covers, Members
  <1>4. ASSUME Bad # {} PROVE FALSE
    <2>1. PICK i \in Bad : \A j \in Bad : i <= j
      <3>1. Bad \subseteq 1..Len(list)
        OBVIOUS
      <3> HIDE DEF Bad
      <3>2. QED
        BY <1>1, <1>4, <3>1, LeastNumber
    <2>2. i \in 1..Len(list) /\ ~Covers(g[i], list, i) /\ i - 1 \in 0..Len(list)
      OBVIOUS
    <2>3. Covers(g[i - 1], list, i - 1)
      <3>1. CASE i = 1
        BY <1>3, <3>1
      <3>2. CASE i # 1
        BY <1>1, <2>1, <2>2, <3>2
      <3>3. QED
        BY <3>1, <3>2
    <2>4. g[i] = IF IsAi(list[i]) THEN WithProcess(g[i - 1], KeyOf(list, i), list[i]) ELSE g[i - 1]
      <3>1. \A k \in 0..Len(list) :
              g[k] = IF k = 0 THEN <<>>
                     ELSE IF IsAi(list[k])
                     THEN WithProcess(g[k - 1], GroupingKey(list[k], Detected(list)), list[k])
                     ELSE g[k - 1]
        BY <1>2, Zenon DEF IsGrouping
      <3>2. i \in 0..Len(list) /\ i # 0
        BY <2>2
      <3>3. QED
        BY <3>1, <3>2, Zenon DEF KeyOf
    <2>5. CASE IsAi(list[i])
      <3>1. Covers(WithProcess(g[i - 1], KeyOf(list, i), list[i]), list, i)
        BY <2>2, <2>3, <2>5, OneMoreCovered
      <3>2. QED
        BY <2>2, <2>4, <2>5, <3>1
    <2>6. CASE ~IsAi(list[i])
      <3>1. \A key : Members(list, i, key) = Members(list, i - 1, key)
        <4>1. \A j : j \in 1..i /\ j # i <=> j \in 1..(i - 1)
          BY <2>2
        <4>2. QED
          BY <2>6, <4>1 DEF Members
      <3>2. QED
        BY <2>2, <2>3, <2>4, <2>6, <3>1 DEF Covers
    <2>7. QED
      BY <2>5, <2>6
  <1>5. QED
    <2>1. CASE Len(list) = 0
      BY <1>2, <1>3, <2>1
    <2>2. CASE Len(list) # 0
      BY <1>1, <1>2, <1>4, <2>2
    <2>3. QED
      BY <2>1, <2>2

-----------------------------------------------------------------------------
(***************************************************************************)
(* The workloads of a list, and what each stands for.                      *)
(***************************************************************************)

\* The processes of a key.
Of(list, key) == Members(list, Len(list), key)

LEMMA OfKey ==
  ASSUME NEW list \in ProcessLists, NEW key
  PROVE  /\ Of(list, key) \in SUBSET DOMAIN list
         /\ \A j \in DOMAIN list : j \in Of(list, key) <=> IsAi(list[j]) /\ KeyOf(list, j) = key
  BY IdsUse DEF Of, Members

LEMMA GroupsStand ==
  ASSUME NEW list \in ProcessLists
  PROVE  /\ \A key : key \in DOMAIN Grouped(list) <=> Of(list, key) # {}
         /\ \A key \in DOMAIN Grouped(list) : Stands(list, Of(list, key), Grouped(list)[key])
  BY GroupsCover DEF Covers, Of

\* What a group uses is a number.
LEMMA GroupUse ==
  ASSUME NEW list \in ProcessLists, NEW J \in SUBSET DOMAIN list, NEW w, Stands(list, J, w)
  PROVE  w.pids \in SUBSET Ids(list) /\ w.rss \in Nat /\ w.cpu \in Nat
  <1> DEFINE ids == Ids(list)
             f == RssById(list)
             g == CpuById(list)
  <1>1. w.pids \in SUBSET ids
    BY DEF Stands, CountsAll, Ids
  <1>2. IsFiniteSet(ids) /\ (\A pid \in ids : f[pid] \in Nat) /\ (\A pid \in ids : g[pid] \in Nat)
    BY IdsUse
  <1>3. w.rss = SumFunctionOnSet(f, w.pids) /\ w.cpu = SumFunctionOnSet(g, w.pids)
    BY DEF Stands, CountsAll
  <1> HIDE DEF ids, f, g
  <1>4. SumFunctionOnSet(f, w.pids) \in Nat
    BY <1>1, <1>2, SumPart
  <1>5. SumFunctionOnSet(g, w.pids) \in Nat
    BY <1>1, <1>2, SumPart
  <1>6. QED
    BY <1>1, <1>3, <1>4, <1>5 DEF ids

\* build_workloads: every group is a workload, and only groups are.
LEMMA WorkloadsAreGroups ==
  ASSUME NEW list \in ProcessLists
  PROVE  /\ IsFiniteSet(Range(Grouped(list)))
         /\ Range(BuildWorkloads(list)) = Range(Grouped(list))
         /\ \A w \in Range(Grouped(list)) :
              \E key : /\ Of(list, key) # {} /\ Stands(list, Of(list, key), w)
                       /\ w = Grouped(list)[key]
         /\ \A key : Of(list, key) # {} => Grouped(list)[key] \in Range(Grouped(list))
  <1> DEFINE g == Grouped(list)
             ai == {j \in DOMAIN list : IsAi(list[j])}
             f == [j \in ai |-> KeyOf(list, j)]
             h == [key \in DOMAIN g |-> g[key]]
  <1>1. \A key : key \in DOMAIN g <=> \E j \in ai : KeyOf(list, j) = key
    BY GroupsStand, OfKey
  <1>2. IsFiniteSet(ai)
    <2>1. IsFiniteSet(DOMAIN list)
      BY IdsUse, FS_Interval
    <2>2. QED
      BY <2>1, FS_Subset
  <1>3. f \in Surjection(ai, DOMAIN g)
    BY <1>1 DEF Surjection
  <1>4. h \in Surjection(DOMAIN g, Range(g))
    BY DEF Surjection, Range
  <1> HIDE DEF ai, f, h
  <1>5. IsFiniteSet(DOMAIN g)
    BY <1>2, <1>3, FS_Surjection
  <1>6. IsFiniteSet(Range(g))
    BY <1>4, <1>5, FS_Surjection
  <1>7. \A w \in Range(g) : \E key \in DOMAIN g : w = g[key]
    BY DEF Range
  <1>8. \A w \in Range(g) : w.rss \in Nat
    BY <1>7, GroupsStand, OfKey, GroupUse
  <1>9. Range(BuildWorkloads(list)) = Range(g)
    <2>1. BuildWorkloads(list) = Sorted(Range(g), LargerWorkload)
      BY DEF BuildWorkloads
    <2> HIDE DEF g
    <2>2. Sorted(Range(g), LargerWorkload) \in SetToSeqs(Range(g))
      BY <1>6, <1>8, SortedWorkloads
    <2>3. QED
      BY <1>6, <2>1, <2>2, SeqOfSet
  <1>10. QED
    BY <1>6, <1>7, <1>9, GroupsStand DEF Range

\* The processes of a workload, by their ids.
LEMMA MemberById ==
  ASSUME NEW list \in ProcessLists, NEW J \in SUBSET DOMAIN list, NEW w, Stands(list, J, w)
  PROVE  /\ \A pid \in w.pids : \E j \in J : pid = list[j].pid /\ ProcessOf(list, pid) = list[j]
         /\ \A j \in J : list[j].pid \in w.pids /\ ProcessOf(list, list[j].pid) = list[j]
  BY ProcessById DEF Stands, CountsAll

LEMMA Accounted ==
  ASSUME NEW list \in ProcessLists
  PROVE  LET ws == Range(BuildWorkloads(list))
         IN /\ UNION {w.pids : w \in ws} = {p.pid : p \in Detected(list)}
            /\ \A w, x \in ws : w # x => w.pids \cap x.pids = {}
            /\ \A w \in ws :
                 /\ w.rss = SumFunction([pid \in w.pids |-> ProcessOf(list, pid).rss])
                 /\ w.cpu = SumFunction([pid \in w.pids |-> ProcessOf(list, pid).cpu])
  <1> DEFINE ws == Range(Grouped(list))
  <1>1. Range(BuildWorkloads(list)) = ws
    BY WorkloadsAreGroups
  <1>2. \A w \in ws : \E key : /\ Of(list, key) # {} /\ Stands(list, Of(list, key), w)
                               /\ w = Grouped(list)[key]
    BY WorkloadsAreGroups
  <1>3. \A key : Of(list, key) # {} =>
          /\ Grouped(list)[key] \in ws
          /\ Stands(list, Of(list, key), Grouped(list)[key])
    BY WorkloadsAreGroups, GroupsStand
  <1> HIDE DEF ws
  <1>4. UNION {w.pids : w \in ws} = {p.pid : p \in Detected(list)}
    <2>1. ASSUME NEW w \in ws, NEW pid \in w.pids PROVE \E p \in Detected(list) : pid = p.pid
      <3>1. PICK key : Stands(list, Of(list, key), w)
        BY <1>2
      <3>2. PICK j \in Of(list, key) : pid = list[j].pid
        BY <3>1 DEF Stands, CountsAll
      <3>3. j \in DOMAIN list /\ IsAi(list[j])
        BY OfKey
      <3>4. QED
        BY <3>2, <3>3 DEF Detected, Range
    <2>2. ASSUME NEW p \in Detected(list) PROVE \E w \in ws : p.pid \in w.pids
      <3>1. PICK j \in DOMAIN list : p = list[j] /\ IsAi(list[j])
        BY DEF Detected, Range
      <3>2. j \in Of(list, KeyOf(list, j))
        BY <3>1, OfKey
      <3>3. Stands(list, Of(list, KeyOf(list, j)), Grouped(list)[KeyOf(list, j)])
            /\ Grouped(list)[KeyOf(list, j)] \in ws
        BY <1>3, <3>2
      <3>4. p.pid \in Grouped(list)[KeyOf(list, j)].pids
        BY <3>1, <3>2, <3>3 DEF Stands, CountsAll
      <3>5. QED
        BY <3>3, <3>4
    <2>3. QED
      BY <2>1, <2>2
  <1>5. ASSUME NEW w \in ws, NEW x \in ws, w # x PROVE w.pids \cap x.pids = {}
    <2>1. PICK k : Stands(list, Of(list, k), w) /\ w = Grouped(list)[k]
      BY <1>2
    <2>2. PICK l : Stands(list, Of(list, l), x) /\ x = Grouped(list)[l]
      BY <1>2
    <2>3. k # l
      BY <1>5, <2>1, <2>2
    <2>4. Of(list, k) \cap Of(list, l) = {}
      BY <2>3 DEF Of, Members
    <2>5. \A i, j \in DOMAIN list : list[i].pid = list[j].pid => i = j
      BY DEF ProcessLists
    <2>6. QED
      BY <2>1, <2>2, <2>4, <2>5, OfKey DEF Stands, CountsAll
  <1>6. ASSUME NEW w \in ws
        PROVE  /\ w.rss = SumFunction([pid \in w.pids |-> ProcessOf(list, pid).rss])
               /\ w.cpu = SumFunction([pid \in w.pids |-> ProcessOf(list, pid).cpu])
    <2> DEFINE f == RssById(list)
               g == CpuById(list)
               u == [pid \in w.pids |-> ProcessOf(list, pid).rss]
               v == [pid \in w.pids |-> ProcessOf(list, pid).cpu]
    <2>1. PICK key : Stands(list, Of(list, key), w)
      BY <1>2
    <2>2. w.pids \in SUBSET Ids(list)
      BY <2>1, GroupUse, OfKey
    <2>3. IsFiniteSet(w.pids)
      BY <2>2, IdsUse, FS_Subset
    <2>4. \A pid \in w.pids : /\ f[pid] \in Int /\ u[pid] = f[pid]
                              /\ g[pid] \in Int /\ v[pid] = g[pid]
      BY <2>2, IdsUse DEF RssById, CpuById
    <2>5. SumFunction(u) = SumFunctionOnSet(u, w.pids) /\ SumFunction(v) = SumFunctionOnSet(v, w.pids)
      BY DEF SumFunction
    <2>6. w.rss = SumFunctionOnSet(f, w.pids) /\ w.cpu = SumFunctionOnSet(g, w.pids)
      BY <2>1 DEF Stands, CountsAll
    <2> HIDE DEF f, g, u, v
    <2>7. SumFunctionOnSet(f, w.pids) = SumFunctionOnSet(u, w.pids)
      BY <2>3, <2>4, SumSame
    <2>8. SumFunctionOnSet(g, w.pids) = SumFunctionOnSet(v, w.pids)
      BY <2>3, <2>4, SumSame
    <2>9. QED
      BY <2>5, <2>6, <2>7, <2>8 DEF u, v
  <1>7. QED
    BY <1>1, <1>4, <1>5, <1>6

\* The best of a group: its managers, or its servers, or the surest.
Best(ds) ==
  LET OfRole(role) == {d \in ds : d.role = role}
  IN IF OfRole("Manager") # {} THEN OfRole("Manager")
     ELSE IF OfRole("Server") # {} THEN OfRole("Server")
     ELSE {d \in ds : \A e \in ds : d.confidence >= e.confidence}

LEMMA SpeakerIsBest ==
  ASSUME NEW list \in ProcessLists, NEW J \in SUBSET DOMAIN list, NEW w, Stands(list, J, w)
  PROVE  w.speaker \in Best({Detect(ProcessOf(list, pid)) : pid \in w.pids}) /\ w.name = w.speaker.name
  <1> DEFINE ds == {Detect(ProcessOf(list, pid)) : pid \in w.pids}
             OfRole(role) == {d \in ds : d.role = role}
             e == w.speaker
  <1>1. \A d \in ds : \E j \in J : d = Detect(list[j])
    BY MemberById
  <1>2. \A d \in ds : /\ d.role = "Manager" => e.role = "Manager"
                      /\ d.role = "Server" => e.role \in {"Manager", "Server"}
                      /\ e.role \in {"Manager", "Server"} \/ d.confidence <= e.confidence
    BY <1>1 DEF Stands, SpokenFor
  <1>3. e \in ds /\ w.name = e.name
    <2>1. PICK j \in J : e = Detect(list[j])
      BY DEF Stands, NamedFor
    <2>2. list[j].pid \in w.pids /\ ProcessOf(list, list[j].pid) = list[j]
      BY MemberById
    <2>3. QED
      BY <2>1, <2>2 DEF Stands, NamedFor
  <1>4. \A d \in ds : d.confidence \in Nat
    BY <1>1, DetectionRated DEF Rated
  <1> HIDE DEF ds, e
  <1>5. CASE OfRole("Manager") # {}
    BY <1>2, <1>3, <1>5 DEF Best, ds, e
  <1>6. CASE OfRole("Manager") = {} /\ OfRole("Server") # {}
    BY <1>2, <1>3, <1>6 DEF Best, ds, e
  <1>7. CASE OfRole("Manager") = {} /\ OfRole("Server") = {}
    <2>1. e.role \notin {"Manager", "Server"}
      BY <1>3, <1>7
    <2>2. \A d \in ds : e.confidence >= d.confidence
      BY <1>2, <1>3, <1>4, <2>1
    <2>3. Best(ds) = {d \in ds : \A c \in ds : d.confidence >= c.confidence}
      BY <1>7 DEF Best
    <2>4. QED
      BY <1>3, <2>2, <2>3 DEF ds, e
  <1>8. QED
    BY <1>5, <1>6, <1>7

LEMMA JoinedKey ==
  ASSUME NEW D, NEW m \in D, NEW q \in D, IsManager(m), Detect(q).kind = "Ollama",
         {x \in D : IsManager(x) /\ x.pid \in {q.ppid, q.pid}} = {m}
  PROVE  GroupingKey(q, D) = <<"Ollama", "manager", Min({m.pid})>>
  <1> DEFINE managers == {x \in D : /\ Detect(x).kind = "Ollama" /\ Detect(x).role = "Manager"
                                    /\ x.pid \in {q.ppid, q.pid}}
  <1>1. managers = {m}
    BY DEF IsManager
  <1>2. GroupingKey(q, D) =
          IF Detect(q).kind = "Ollama" /\ managers # {}
          THEN <<Detect(q).kind, "manager", Min({x.pid : x \in managers})>>
          ELSE IF \E x \in D : x.pid = q.ppid /\ Detect(x).kind = Detect(q).kind
          THEN <<Detect(q).kind, "parent", q.ppid>>
          ELSE IF Detect(q).hint # NoHint THEN <<Detect(q).kind, "model", Detect(q).hint>>
          ELSE <<Detect(q).kind, "pid", q.pid>>
    BY DEF GroupingKey
  <1> HIDE DEF managers
  <1>3. {x.pid : x \in managers} = {m.pid}
    BY <1>1
  <1>4. QED
    BY <1>1, <1>2, <1>3

LEMMA RunnersJoin ==
  ASSUME NEW list \in ProcessLists, NEW p \in Detected(list), NEW m \in Detected(list),
         Detect(p).kind = "Ollama", p.ppid = m.pid, IsManager(m), ~IsManager(p),
         ~\E o \in Detected(list) : IsManager(o) /\ o.pid = m.ppid
  PROVE  \E w \in Range(BuildWorkloads(list)) : {p.pid, m.pid} \subseteq w.pids
  <1> DEFINE D == Detected(list)
             key == <<"Ollama", "manager", Min({m.pid})>>
  <1>1. \A x, y \in D : x.pid = y.pid => x = y
    BY DEF Detected, Range, ProcessLists
  <1>2. Detect(m).kind = "Ollama"
    BY DEF IsManager
  <1>3. {x \in D : IsManager(x) /\ x.pid \in {p.ppid, p.pid}} = {m}
    BY <1>1
  <1>4. {x \in D : IsManager(x) /\ x.pid \in {m.ppid, m.pid}} = {m}
    BY <1>1
  <1>5. p \in D /\ m \in D
    OBVIOUS
  <1> HIDE DEF D
  <1>6. GroupingKey(p, D) = key /\ GroupingKey(m, D) = key
    BY <1>2, <1>3, <1>4, <1>5, JoinedKey
  <1> HIDE DEF key
  <1>7. PICK i \in DOMAIN list : p = list[i] /\ IsAi(list[i])
    BY DEF Detected, Range
  <1>8. PICK j \in DOMAIN list : m = list[j] /\ IsAi(list[j])
    BY DEF Detected, Range
  <1>9. i \in Of(list, key) /\ j \in Of(list, key)
    BY <1>6, <1>7, <1>8, OfKey DEF KeyOf, D
  <1>10. /\ Grouped(list)[key] \in Range(BuildWorkloads(list))
         /\ Stands(list, Of(list, key), Grouped(list)[key])
    BY <1>9, WorkloadsAreGroups, GroupsStand
  <1>11. {p.pid, m.pid} \subseteq Grouped(list)[key].pids
    BY <1>7, <1>8, <1>9, <1>10 DEF Stands, CountsAll
  <1>12. QED
    BY <1>10, <1>11

\* A process with I/O to show gives its group some.
LEMMA IoIsShown ==
  ASSUME NEW list \in ProcessLists, NEW w \in Range(BuildWorkloads(list)),
         \E pid \in w.pids : ProcessOf(list, pid).io \notin NoSignal
  PROVE  w.io \notin NoSignal
  <1>1. PICK key : Stands(list, Of(list, key), w)
    BY WorkloadsAreGroups
  <1>2. PICK pid \in w.pids : ProcessOf(list, pid).io \notin NoSignal
    OBVIOUS
  <1>3. PICK j \in Of(list, key) : ProcessOf(list, pid) = list[j]
    BY <1>1, MemberById, OfKey
  <1>4. QED
    BY <1>1, <1>2, <1>3 DEF Stands, ShowsIo

-----------------------------------------------------------------------------
(***************************************************************************)
(* What a frame of the alpha profile shows of a sample.                    *)
(***************************************************************************)

LEMMA PressureIsDerived ==
  ASSUME NEW s \in Memory
  PROVE  WithPressure(s) \in Memory /\ WithPressure(WithPressure(s)) = WithPressure(s)
  <1> DEFINE t == WithPressure(s)
  <1>1. DerivePressure(s) \in Pressures
    BY DEF DerivePressure, Pressures
  <1>2. t \in Memory
    BY <1>1 DEF WithPressure, Memory
  <1>3. t.pressure = DerivePressure(s)
    BY DEF WithPressure, Memory
  <1>4. /\ t.total = s.total /\ t.wired = s.wired /\ t.active = s.active
        /\ t.compressed = s.compressed /\ t.inactive = s.inactive
        /\ t.speculative = s.speculative /\ t.purgeable = s.purgeable
        /\ t.swapUsed = s.swapUsed
    BY DEF WithPressure, Memory
  <1>5. WithPressure(t) = [t EXCEPT !.pressure = DerivePressure(t)]
    BY DEF WithPressure
  <1> HIDE DEF t
  <1>6. DerivePressure(t) = DerivePressure(s)
    BY <1>4 DEF DerivePressure, Reclaimable
  <1>7. QED
    BY <1>2, <1>3, <1>5, <1>6 DEF t, Memory

LEMMA SnapshotIs ==
  ASSUME NEW s \in Snapshots
  PROVE  /\ s.processes \in ProcessLists /\ s.mem \in Memory /\ WithPressure(s.mem) = s.mem
         /\ WorkloadsOf[s] = BuildWorkloads(s.processes)
         /\ AiRowsOf[s] = BuildAiRows(s.processes)
  <1>1. PICK r \in Samples : s = Measured(r)
    BY DEF Snapshots
  <1>2. r \in Readings
    BY OutputsAssumption
  <1>3. s.processes = r.processes /\ s.mem = WithPressure(r.mem)
    BY <1>1, <1>2 DEF Measured, Readings
  <1>4. r.processes \in ProcessLists /\ r.mem \in Memory
    BY <1>2 DEF Readings
  <1>5. QED
    BY <1>3, <1>4, PressureIsDerived DEF WorkloadsOf, AiRowsOf

\* The memory of some of the workloads is part of that of all.
LEMMA RssOfPart ==
  ASSUME NEW S, IsFiniteSet(S), \A w \in S : w.rss \in Nat, NEW T \in SUBSET S
  PROVE  RssTotal(T) \in Nat /\ RssTotal(S) \in Nat /\ RssTotal(T) <= RssTotal(S)
  <1> DEFINE f == [w \in S |-> w.rss]
             g == [w \in T |-> w.rss]
  <1>1. \A w \in S : f[w] \in Nat
    OBVIOUS
  <1>2. \A w \in T : g[w] \in Int /\ f[w] = g[w]
    OBVIOUS
  <1>3. RssTotal(S) = SumFunctionOnSet(f, S) /\ RssTotal(T) = SumFunctionOnSet(g, T)
    BY DEF RssTotal, SumFunction
  <1>4. IsFiniteSet(T) /\ S \in SUBSET S
    BY FS_Subset
  <1> HIDE DEF f, g
  <1>5. SumFunctionOnSet(g, T) = SumFunctionOnSet(f, T)
    BY <1>2, <1>4, SumSame
  <1>6. SumFunctionOnSet(f, T) \in Nat /\ SumFunctionOnSet(f, T) <= SumFunctionOnSet(f, S)
    BY <1>1, SumPart
  <1>7. SumFunctionOnSet(f, S) \in Nat
    BY <1>1, <1>4, SumPart
  <1>8. QED
    BY <1>3, <1>5, <1>6, <1>7

LEMMA WorkloadsHaveMemory ==
  ASSUME NEW list \in ProcessLists
  PROVE  /\ IsFiniteSet(Range(BuildWorkloads(list)))
         /\ \A w \in Range(BuildWorkloads(list)) : w.rss \in Nat
  BY WorkloadsAreGroups, GroupUse, OfKey

LEMMA RowsAreProcesses ==
  ASSUME NEW list \in ProcessLists
  PROVE  /\ IsFiniteSet(Range(list)) /\ Range(list) \subseteq Processes
         /\ Range(BuildAiRows(list)) = Range(list)
  <1>1. IsFiniteSet(Range(list))
    <2> DEFINE h == [j \in DOMAIN list |-> list[j]]
    <2>1. h \in Surjection(DOMAIN list, Range(list))
      BY DEF Surjection, Range
    <2>2. IsFiniteSet(DOMAIN list)
      BY IdsUse, FS_Interval
    <2> HIDE DEF h
    <2>3. QED
      BY <2>1, <2>2, FS_Surjection
  <1>2. Range(list) \subseteq Processes
    BY ProcessById DEF Range
  <1>3. BuildAiRows(list) \in SetToSeqs(Range(list))
    BY <1>1, <1>2, SortedRows DEF BuildAiRows
  <1>4. QED
    BY <1>1, <1>2, <1>3, SeqOfSet

Matching(s, query) == {w \in Range(BuildWorkloads(s.processes)) : WorkloadMatches(w, s, query)}

Found(s, query) == {p \in Range(s.processes) : RowMatches(p, query)}

LEMMA AlphaIs ==
  ASSUME NEW s \in Snapshots, NEW prior
  PROVE  LET a == AlphaModel(s, WorkloadsOf[s], prior)
         IN /\ Range(a.workloads) = Matching(s, filter)
            /\ Range(a.rows) = Found(s, filter)
            /\ a.prior = prior
            /\ a.risk = DeriveRisk(s.mem, prior, RssTotal(Matching(s, filter)))
  <1> DEFINE a == AlphaModel(s, WorkloadsOf[s], prior)
             ws == Matching(s, filter)
             rs == Found(s, filter)
  <1>1. /\ s.processes \in ProcessLists
        /\ WorkloadsOf[s] = BuildWorkloads(s.processes) /\ AiRowsOf[s] = BuildAiRows(s.processes)
    BY SnapshotIs
  <1>2. ws = {w \in Range(WorkloadsOf[s]) : WorkloadMatches(w, s, filter)}
        /\ rs = {p \in Range(AiRowsOf[s]) : RowMatches(p, filter)}
    BY <1>1, RowsAreProcesses DEF Matching, Found
  <1>3. IsFiniteSet(ws) /\ \A w \in ws : w.rss \in Nat
    <2>1. ws \subseteq Range(BuildWorkloads(s.processes))
      BY DEF Matching
    <2>2. QED
      BY <1>1, <2>1, WorkloadsHaveMemory, FS_Subset
  <1>4. IsFiniteSet(rs) /\ rs \subseteq Processes
    <2>1. rs \subseteq Range(s.processes)
      BY DEF Found
    <2>2. QED
      BY <1>1, <2>1, RowsAreProcesses, FS_Subset
  <1>5. /\ a.workloads = IF direction > 0 THEN Sorted(ws, SmallerWorkload) ELSE Sorted(ws, LargerWorkload)
        /\ a.rows = IF direction > 0 THEN Sorted(rs, Upwards) ELSE Sorted(rs, RowBefore)
        /\ a.prior = prior
        /\ a.risk = DeriveRisk(s.mem, prior, RssTotal(ws))
    BY <1>2 DEF AlphaModel
  <1> HIDE DEF a, ws, rs
  <1>6. a.workloads \in SetToSeqs(ws)
    BY <1>3, <1>5, SortedWorkloads
  <1>7. a.rows \in SetToSeqs(rs)
    BY <1>4, <1>5, SortedRows
  <1>8. Range(a.workloads) = ws /\ Range(a.rows) = rs
    BY <1>3, <1>4, <1>6, <1>7, SeqOfSet
  <1>9. QED
    BY <1>5, <1>8 DEF a, ws, rs

\* A workload the filter lets through has a process it lets through.
LEMMA MatchIsExplained ==
  ASSUME NEW s \in Snapshots, NEW query, NEW w \in Matching(s, query)
  PROVE  \E p \in Found(s, query) : p.pid \in w.pids
  <1> DEFINE list == s.processes
  <1>1. list \in ProcessLists
    BY SnapshotIs
  <1>2. w \in Range(BuildWorkloads(list)) /\ WorkloadMatches(w, s, query)
    BY DEF Matching
  <1>3. PICK key : Of(list, key) # {} /\ Stands(list, Of(list, key), w)
    BY <1>1, <1>2, WorkloadsAreGroups
  <1> DEFINE J == Of(list, key)
  <1>4. J \in SUBSET DOMAIN list
    BY <1>1, OfKey
  <1>5. SUFFICES \E j \in J : RowMatches(list[j], query)
    <2>1. \A j \in J : list[j] \in Range(list) /\ list[j].pid \in w.pids
      BY <1>3, <1>4 DEF Range, Stands, CountsAll
    <2>2. QED
      BY <2>1 DEF Found
  <1>6. CASE query = ""
    BY <1>3, <1>6 DEF RowMatches
  <1>7. CASE query = w.name
    BY <1>3, <1>7 DEF RowMatches, Stands, NamedFor
  <1>8. CASE query = w.kind
    BY <1>3, <1>8 DEF RowMatches, Stands, NamedFor
  <1>9. CASE query # "" /\ query = w.hint
    BY <1>3, <1>9 DEF RowMatches, Stands, NamedFor, NoHint
  <1>10. CASE \E pid \in w.pids : query \in ProcessOf(list, pid).words
    <2>1. PICK pid \in w.pids : query \in ProcessOf(list, pid).words
      BY <1>10
    <2>2. Stands(list, J, w)
      BY <1>3
    <2>3. \E j \in J : ProcessOf(list, pid) = list[j]
      <3> HIDE DEF list, J
      <3>1. \A q \in w.pids : \E j \in J : q = list[j].pid /\ ProcessOf(list, q) = list[j]
        BY <1>1, <1>4, <2>2, MemberById
      <3>2. QED
        BY <2>1, <3>1
    <2>4. PICK j \in J : ProcessOf(list, pid) = list[j]
      BY <2>3
    <2>5. QED
      BY <2>1, <2>4 DEF RowMatches
  <1>11. QED
    BY <1>2, <1>6, <1>7, <1>8, <1>9, <1>10 DEF WorkloadMatches

-----------------------------------------------------------------------------
(***************************************************************************)
(* The runs of the program.                                                *)
(***************************************************************************)

\* The workloads are those of the sample at hand.
SampleHeld ==
  /\ mode \in {"session", "screen"}
  /\ sample \in Snapshots \cup {NoSample}
  /\ sample # NoSample => workloads = WorkloadsOf[sample]

\* The last steady samples kept have the same memory, and as many are kept.
HistoryHeld ==
  /\ history \in Seq(Memory) /\ Len(history) <= HistorySize
  /\ steady \in Nat
  /\ steady <= HistorySize => steady <= Len(history)
  /\ steady > HistorySize => Len(history) = HistorySize
  /\ \A i \in 1..Len(history) :
       i + steady > Len(history) => history[i] = history[Len(history)]

\* A frame shows its sample, against the samples kept before it.
FrameHeld ==
  Shown =>
    /\ history # <<>>
    /\ alpha.prior \in Histories
    /\ alpha = AlphaModel(sample, workloads, alpha.prior)
    /\ steady > HistorySize => alpha.prior # <<>> /\ alpha.prior[1] = sample.mem

HeldInv == SampleHeld /\ HistoryHeld /\ FrameHeld

LEMMA HeldInit == OutputsInit => HeldInv
  <1> SUFFICES ASSUME OutputsInit PROVE HeldInv
    OBVIOUS
  <1>1. SampleHeld
    BY DEF OutputsInit, SampleHeld
  <1>2. HistoryHeld
    <2>1. history = <<>> /\ steady = 0 /\ HistorySize \in Nat \ {0}
      BY OutputsAssumption DEF OutputsInit
    <2>2. Len(history) = 0 /\ history \in Seq(Memory)
      BY <2>1
    <2>3. QED
      BY <2>1, <2>2 DEF HistoryHeld
  <1>3. FrameHeld
    BY DEF OutputsInit, FrameHeld, Shown
  <1>4. QED
    BY <1>1, <1>2, <1>3 DEF HeldInv

\* Nothing but a frame changes what the screen remembers.
LEMMA SampleHolds == SampleHeld /\ [OutputsNext]_outputs => SampleHeld'
  <1> SUFFICES ASSUME SampleHeld, [OutputsNext]_outputs PROVE SampleHeld'
    OBVIOUS
  <1>1. CASE SnapshotMode
    <2>1. mode' = mode
      BY <1>1 DEF SnapshotMode
    <2>2. \/ sample' = sample /\ workloads' = workloads
          \/ sample' \in Snapshots /\ workloads' = WorkloadsOf[sample']
          \/ sample' = NoSample
      BY <1>1 DEF SnapshotMode, StartLine, SampleLine, Forget, EndLine, Elsewhere
    <2>3. QED
      BY <2>1, <2>2 DEF SampleHeld, Snapshots, WorkloadsOf
  <1>2. CASE Outside
    BY <1>2 DEF Outside, SampleHeld, Snapshots, WorkloadsOf
  <1>3. CASE Frame
    BY <1>3 DEF Frame, SampleHeld, Snapshots, WorkloadsOf
  <1>4. CASE Settings
    BY <1>4 DEF Settings, SampleHeld, Snapshots, WorkloadsOf
  <1>5. CASE UNCHANGED outputs
    BY <1>5 DEF outputs, SampleHeld, Snapshots, WorkloadsOf
  <1>6. QED
    BY <1>1, <1>2, <1>3, <1>4, <1>5 DEF OutputsNext

\* The history after one more sample.
LEMMA KeptIs ==
  ASSUME NEW h \in Seq(Memory), Len(h) <= HistorySize, NEW m \in Memory
  PROVE  LET k == Kept(Append(h, m))
         IN /\ k \in Seq(Memory) /\ k # <<>> /\ k[Len(k)] = m
            /\ IF Len(h) < HistorySize
               THEN /\ Len(k) = Len(h) + 1
                    /\ \A i \in 1..Len(h) : k[i] = h[i]
               ELSE /\ Len(k) = HistorySize
                    /\ \A i \in 1..(HistorySize - 1) : k[i] = h[i + 1]
  <1> DEFINE a == Append(h, m)
             n == Len(h)
  <1>1. /\ n \in Nat /\ a \in Seq(Memory) /\ Len(a) = n + 1 /\ a[n + 1] = m
        /\ \A i \in 1..n : a[i] = h[i]
    BY LenProperties, AppendProperties
  <1>2. HistorySize \in Nat \ {0} /\ n <= HistorySize
    BY OutputsAssumption
  <1>3. Kept(a) = SubSeq(a, Larger(1, Len(a) - HistorySize + 1), Len(a))
    BY DEF Kept
  <1> HIDE DEF a, n
  <1>4. \A i \in 1..(n + 1) : a[i] \in Memory
    BY <1>1, ElementOfSeq
  <1>5. CASE n < HistorySize
    <2> DEFINE k == SubSeq(a, 1, n + 1)
    <2>1. Larger(1, Len(a) - HistorySize + 1) = 1 /\ Len(a) = n + 1
      BY <1>1, <1>2, <1>5 DEF Larger
    <2>2. Kept(a) = k
      BY <1>3, <2>1
    <2>3. k \in Seq(Memory) /\ Len(k) = n + 1 /\ \A i \in 1..(n + 1) : k[i] = a[i]
      BY <1>1, <1>4, SubSeqProperties
    <2> HIDE DEF k
    <2>4. k # <<>> /\ k[Len(k)] = m /\ \A i \in 1..n : k[i] = h[i]
      BY <1>1, <2>3
    <2>5. QED
      BY <1>5, <2>2, <2>3, <2>4 DEF a, n
  <1>6. CASE n = HistorySize
    <2> DEFINE k == SubSeq(a, 2, n + 1)
    <2>1. Larger(1, Len(a) - HistorySize + 1) = 2 /\ Len(a) = n + 1
      BY <1>1, <1>2, <1>6 DEF Larger
    <2>2. Kept(a) = k
      BY <1>3, <2>1
    <2>3. k \in Seq(Memory) /\ Len(k) = n /\ \A i \in 1..n : k[i] = a[i + 1]
      BY <1>1, <1>2, <1>4, <1>6, SubSeqProperties
    <2> HIDE DEF k
    <2>4. k # <<>> /\ k[Len(k)] = m
      BY <1>1, <1>2, <1>6, <2>3
    <2>5. \A i \in 1..(HistorySize - 1) : k[i] = h[i + 1]
      BY <1>1, <1>2, <1>6, <2>3
    <2>6. QED
      BY <1>2, <1>6, <2>2, <2>3, <2>4, <2>5 DEF a, n
  <1>7. QED
    BY <1>1, <1>2, <1>5, <1>6

\* The arithmetic of one more sample: as many as are kept, but no more, may be
\* the same.
LEMMA SteadyIs ==
  ASSUME HistoryHeld, NEW m \in Memory, NEW k, k = Kept(Append(history, m)), NEW st,
         st = IF history # <<>> /\ Last(history) = m
              THEN Smaller(steady + 1, HistorySize + 1) ELSE 1
  PROVE  /\ k \in Seq(Memory) /\ Len(k) <= HistorySize /\ k # <<>>
         /\ st \in Nat
         /\ st <= HistorySize => st <= Len(k)
         /\ st > HistorySize => Len(k) = HistorySize
         /\ \A i \in 1..Len(k) : i + st > Len(k) => k[i] = k[Len(k)]
         /\ st > HistorySize => history # <<>> /\ history[1] = m
  <1> DEFINE n == Len(history)
  <1>1. /\ history \in Seq(Memory) /\ n \in Nat /\ n <= HistorySize /\ steady \in Nat
        /\ steady <= HistorySize => steady <= n
        /\ steady > HistorySize => n = HistorySize
        /\ \A i \in 1..n : i + steady > n => history[i] = history[n]
        /\ (history # <<>> => n > 0)
    BY LenProperties, EmptySeq DEF HistoryHeld
  <1>2. HistorySize \in Nat \ {0}
    BY OutputsAssumption
  <1>3. /\ k \in Seq(Memory) /\ k # <<>> /\ k[Len(k)] = m
        /\ n < HistorySize => /\ Len(k) = n + 1
                              /\ \A i \in 1..n : k[i] = history[i]
        /\ n = HistorySize => /\ Len(k) = HistorySize
                              /\ \A i \in 1..(HistorySize - 1) : k[i] = history[i + 1]
    <2>1. /\ k \in Seq(Memory) /\ k # <<>> /\ k[Len(k)] = m
          /\ IF Len(history) < HistorySize
             THEN /\ Len(k) = Len(history) + 1
                  /\ \A i \in 1..Len(history) : k[i] = history[i]
             ELSE /\ Len(k) = HistorySize
                  /\ \A i \in 1..(HistorySize - 1) : k[i] = history[i + 1]
      BY <1>1, KeptIs
    <2>2. QED
      BY <1>1, <1>2, <2>1
  <1> DEFINE same == history # <<>> /\ history[n] = m
  <1>4. /\ same => n > 0 /\ history[n] = m /\ st \in Nat /\ st <= steady + 1 /\ st <= HistorySize + 1
                   /\ (st <= HistorySize => st = steady + 1)
        /\ ~same => st = 1
    BY <1>1, <1>2 DEF Smaller, Last
  <1> HIDE DEF n, same
  <1>5. st \in Nat
    BY <1>4
  <1>6. Len(k) <= HistorySize /\ Len(k) \in Nat
    BY <1>1, <1>2, <1>3
  <1>7. st <= HistorySize => st <= Len(k)
    BY <1>1, <1>2, <1>3, <1>4
  <1>8. st > HistorySize => same /\ steady >= HistorySize /\ n = HistorySize
    BY <1>1, <1>2, <1>4
  <1>9. ASSUME NEW i \in 1..Len(k), i + st > Len(k) PROVE k[i] = m
    <2>1. CASE i = Len(k)
      BY <1>3, <2>1
    <2>2. CASE i # Len(k) /\ n < HistorySize
      <3>1. i \in 1..n /\ i + st > n + 1
        BY <1>1, <1>3, <1>9, <2>2
      <3>2. same /\ i + steady > n
        BY <1>1, <1>4, <3>1
      <3>3. history[i] = history[n]
        BY <1>1, <3>1, <3>2
      <3>4. QED
        BY <1>3, <1>4, <2>2, <3>1, <3>2, <3>3
    <2>3. CASE i # Len(k) /\ n = HistorySize
      <3>1. i \in 1..(HistorySize - 1) /\ i + 1 \in 1..n /\ i + st > n
        BY <1>1, <1>2, <1>3, <1>9, <2>3
      <3>2. same /\ i + 1 + steady > n
        BY <1>1, <1>4, <3>1
      <3>3. history[i + 1] = history[n]
        BY <1>1, <3>1, <3>2
      <3>4. QED
        BY <1>3, <1>4, <2>3, <3>1, <3>2, <3>3
    <2>4. QED
      BY <1>1, <1>2, <2>1, <2>2, <2>3
  <1>10. st > HistorySize => history # <<>> /\ history[1] = m
    <2> SUFFICES ASSUME st > HistorySize PROVE history # <<>> /\ history[1] = m
      OBVIOUS
    <2>1. same /\ steady >= HistorySize /\ n = HistorySize
      BY <1>8
    <2>2. 1 \in 1..n /\ 1 + steady > n
      BY <1>1, <1>2, <2>1
    <2>3. QED
      BY <1>1, <1>4, <2>1, <2>2 DEF same
  <1>11. QED
    BY <1>3, <1>5, <1>6, <1>7, <1>8, <1>9, <1>10

LEMMA HistoryHolds == HistoryHeld /\ [OutputsNext]_outputs => HistoryHeld'
  <1> SUFFICES ASSUME HistoryHeld, [OutputsNext]_outputs PROVE HistoryHeld'
    OBVIOUS
  <1>1. CASE Frame
    <2>1. PICK s \in Snapshots :
            /\ history' = Kept(Append(history, s.mem))
            /\ steady' = IF history # <<>> /\ Last(history) = s.mem
                         THEN Smaller(steady + 1, HistorySize + 1) ELSE 1
      BY <1>1 DEF Frame
    <2>2. s.mem \in Memory
      BY SnapshotIs
    <2>3. QED
      BY <2>1, <2>2, SteadyIs DEF HistoryHeld
  <1>2. CASE SnapshotMode \/ Outside \/ Settings \/ UNCHANGED outputs
    <2>1. UNCHANGED <<history, steady>>
      BY <1>2 DEF SnapshotMode, Outside, Settings, outputs, screen
    <2>2. QED
      BY <2>1 DEF HistoryHeld
  <1>3. QED
    BY <1>1, <1>2 DEF OutputsNext

LEMMA FrameHolds == HeldInv /\ [OutputsNext]_outputs => FrameHeld'
  <1> SUFFICES ASSUME HeldInv, [OutputsNext]_outputs PROVE FrameHeld'
    OBVIOUS
  <1>1. CASE Frame
    <2> SUFFICES ASSUME Shown'
                 PROVE  /\ (history # <<>>)'
                        /\ alpha'.prior \in Histories
                        /\ alpha' = AlphaModel(sample, workloads, alpha.prior)'
                        /\ steady' > HistorySize => alpha'.prior # <<>> /\ alpha'.prior[1] = sample'.mem
      BY DEF FrameHeld
    <2>1. PICK s \in Snapshots :
            /\ sample' = s /\ workloads' = WorkloadsOf[s]
            /\ history' = Kept(Append(history, s.mem))
            /\ alpha' = IF profile = "beta" THEN EmptyModel ELSE AlphaModel(s, workloads', history)
            /\ steady' = IF history # <<>> /\ Last(history) = s.mem
                         THEN Smaller(steady + 1, HistorySize + 1) ELSE 1
      BY <1>1 DEF Frame
    <2>2. filter' = filter /\ direction' = direction /\ profile' = profile /\ profile' = "alpha"
      BY <1>1 DEF Frame, Shown
    <2>3. alpha' = AlphaModel(s, workloads', history)
      BY <2>1, <2>2
    <2>4. alpha'.prior = history
      BY <2>3 DEF AlphaModel
    <2>5. alpha' = AlphaModel(sample, workloads, alpha.prior)'
      BY <2>1, <2>2, <2>3, <2>4 DEF AlphaModel
    <2>6. s.mem \in Memory
      BY SnapshotIs
    <2>7. /\ history' # <<>>
          /\ steady' > HistorySize => history # <<>> /\ history[1] = s.mem
      BY <2>1, <2>6, SteadyIs DEF HeldInv
    <2>8. history \in Histories
      BY DEF HeldInv, HistoryHeld, Histories
    <2>9. QED
      BY <2>1, <2>4, <2>5, <2>7, <2>8
  <1>2. CASE SnapshotMode \/ Outside
    BY <1>2 DEF SnapshotMode, Outside, FrameHeld, Shown
  <1>3. CASE Settings
    BY <1>3 DEF Settings, FrameHeld, Shown
  <1>4. CASE UNCHANGED outputs
    BY <1>4 DEF outputs, screen, HeldInv, FrameHeld, Shown, AlphaModel
  <1>5. QED
    BY <1>1, <1>2, <1>3, <1>4 DEF OutputsNext

LEMMA HeldAlways == OutputsSpec => []HeldInv
  <1>1. OutputsInit => HeldInv
    BY HeldInit
  <1>2. HeldInv /\ [OutputsNext]_outputs => HeldInv'
    BY SampleHolds, HistoryHolds, FrameHolds DEF HeldInv
  <1>3. QED
    BY <1>1, <1>2, PTL DEF OutputsSpec

\* What a frame of the alpha profile shows.
FrameShows ==
  Shown =>
    /\ sample \in Snapshots /\ workloads = BuildWorkloads(sample.processes)
    /\ alpha.prior \in Histories
    /\ Range(alpha.workloads) = Matching(sample, filter)
    /\ Range(alpha.rows) = Found(sample, filter)
    /\ alpha.risk = DeriveRisk(sample.mem, alpha.prior, RssTotal(Range(alpha.workloads)))
    /\ RssTotal(Range(alpha.workloads)) \in Nat /\ RssTotal(Range(workloads)) \in Nat
    /\ RssTotal(Range(alpha.workloads)) <= RssTotal(Range(workloads))

LEMMA FramesShow == HeldInv => FrameShows
  <1> SUFFICES ASSUME HeldInv, Shown
               PROVE  /\ sample \in Snapshots /\ workloads = BuildWorkloads(sample.processes)
                      /\ alpha.prior \in Histories
                      /\ Range(alpha.workloads) = Matching(sample, filter)
                      /\ Range(alpha.rows) = Found(sample, filter)
                      /\ alpha.risk = DeriveRisk(sample.mem, alpha.prior, RssTotal(Range(alpha.workloads)))
                      /\ RssTotal(Range(alpha.workloads)) \in Nat /\ RssTotal(Range(workloads)) \in Nat
                      /\ RssTotal(Range(alpha.workloads)) <= RssTotal(Range(workloads))
    BY DEF FrameShows
  <1>1. sample \in Snapshots /\ workloads = WorkloadsOf[sample]
    BY DEF HeldInv, SampleHeld, Shown
  <1>2. alpha.prior \in Histories /\ alpha = AlphaModel(sample, workloads, alpha.prior)
    BY DEF HeldInv, FrameHeld
  <1>3. workloads = BuildWorkloads(sample.processes) /\ sample.processes \in ProcessLists
    BY <1>1, SnapshotIs
  <1>4. /\ Range(alpha.workloads) = Matching(sample, filter)
        /\ Range(alpha.rows) = Found(sample, filter)
        /\ alpha.risk = DeriveRisk(sample.mem, alpha.prior, RssTotal(Matching(sample, filter)))
    BY <1>1, <1>2, AlphaIs
  <1>5. /\ RssTotal(Matching(sample, filter)) \in Nat /\ RssTotal(Range(workloads)) \in Nat
        /\ RssTotal(Matching(sample, filter)) <= RssTotal(Range(workloads))
    <2>1. Matching(sample, filter) \in SUBSET Range(workloads)
      BY <1>3 DEF Matching
    <2>2. IsFiniteSet(Range(workloads)) /\ \A w \in Range(workloads) : w.rss \in Nat
      BY <1>3, WorkloadsHaveMemory
    <2>3. QED
      BY <2>1, <2>2, RssOfPart
  <1>6. QED
    BY <1>1, <1>2, <1>3, <1>4, <1>5

\* The workloads of every sample account for its AI processes, each in exactly
\* one, and have their memory and processor use: build_workloads loses and counts
\* twice nothing, whatever the list.
THEOREM WorkloadsAccount == OutputsSpec => []WorkloadsCover
  <1>1. HeldInv => WorkloadsCover
    <2> SUFFICES ASSUME HeldInv, sample # NoSample PROVE WorkloadsCover
      BY DEF WorkloadsCover
    <2>1. sample.processes \in ProcessLists /\ workloads = BuildWorkloads(sample.processes)
      BY SnapshotIs DEF HeldInv, SampleHeld
    <2>2. QED
      BY <2>1, Accounted DEF WorkloadsCover
  <1>2. QED
    BY <1>1, HeldAlways, PTL

\* A runner is grouped with its manager, a group is named by its best process,
\* and shows I/O if one of its processes has any, in every list of processes.
THEOREM GroupsAreTheirProcesses == OutputsSpec => []WorkloadsGrouped
  <1>1. HeldInv => WorkloadsGrouped
    <2> SUFFICES ASSUME HeldInv, sample # NoSample PROVE WorkloadsGrouped
      BY DEF WorkloadsGrouped, RunnersJoinManager, NamedByBest, IoShown
    <2> DEFINE list == sample.processes
    <2>1. list \in ProcessLists /\ workloads = BuildWorkloads(list)
      BY SnapshotIs DEF HeldInv, SampleHeld
    <2> HIDE DEF list
    <2>2. RunnersJoinManager
      BY <2>1, RunnersJoin DEF RunnersJoinManager, list
    <2>3. NamedByBest
      <3> SUFFICES ASSUME NEW w \in Range(workloads)
                   PROVE  w.name \in {d.name : d \in Best({Detect(ProcessOf(list, pid)) : pid \in w.pids})}
        BY DEF NamedByBest, Best, list
      <3>1. PICK key : Of(list, key) # {} /\ Stands(list, Of(list, key), w)
        BY <2>1, WorkloadsAreGroups
      <3>2. QED
        BY <2>1, <3>1, OfKey, SpeakerIsBest
    <2>4. IoShown
      BY <2>1, IoIsShown DEF IoShown, list
    <2>5. QED
      BY <2>2, <2>3, <2>4 DEF WorkloadsGrouped
  <1>2. QED
    BY <1>1, HeldAlways, PTL

\* The JSON line of a sample is never milder than a frame that shows it.
THEOREM JsonIsGraver == OutputsSpec => []JsonNeverMilder
  <1>1. HeldInv => JsonNeverMilder
    <2> SUFFICES ASSUME HeldInv, Shown
                 PROVE  Gravity[JsonRisk(sample, workloads)] >= Gravity[alpha.risk]
      BY DEF JsonNeverMilder
    <2>1. /\ sample \in Snapshots /\ alpha.prior \in Histories
          /\ alpha.risk = DeriveRisk(sample.mem, alpha.prior, RssTotal(Range(alpha.workloads)))
          /\ RssTotal(Range(alpha.workloads)) \in Nat /\ RssTotal(Range(workloads)) \in Nat
          /\ RssTotal(Range(alpha.workloads)) <= RssTotal(Range(workloads))
      BY FramesShow DEF FrameShows
    <2>2. sample.mem \in Memory
      BY <2>1, SnapshotIs
    <2>3. Gravity[alpha.risk] <= Gravity[JsonRisk(sample, workloads)]
      BY <2>1, <2>2, JsonIsNeverMilder DEF JsonRisk
    <2>4. QED
      BY <2>1, <2>3, GravityIsNat DEF JsonRisk
  <1>2. QED
    BY <1>1, HeldAlways, PTL

\* Typing a filter changes no risk but Watch to Ok, and every workload that still
\* counts in the risk has a process among the rows.
THEOREM FilterHidesNoRisk == OutputsSpec => []FilterIsHarmless
  <1>1. HeldInv => FilterIsHarmless
    <2> SUFFICES ASSUME HeldInv, Shown PROVE FilterIsHarmless
      BY DEF FilterIsHarmless, FilterTouchesWatchOnly, RowsExplainRisk
    <2>1. /\ sample \in Snapshots /\ alpha.prior \in Histories
          /\ Range(alpha.workloads) = Matching(sample, filter)
          /\ Range(alpha.rows) = Found(sample, filter)
          /\ alpha.risk = DeriveRisk(sample.mem, alpha.prior, RssTotal(Range(alpha.workloads)))
          /\ RssTotal(Range(alpha.workloads)) \in Nat /\ RssTotal(Range(workloads)) \in Nat
          /\ RssTotal(Range(alpha.workloads)) <= RssTotal(Range(workloads))
      BY FramesShow DEF FrameShows
    <2>2. sample.mem \in Memory
      BY <2>1, SnapshotIs
    <2>3. FilterTouchesWatchOnly
      BY <2>1, <2>2, HiddenWorkloadsTouchWatchOnly DEF FilterTouchesWatchOnly
    <2>4. RowsExplainRisk
      BY <2>1, MatchIsExplained DEF RowsExplainRisk
    <2>5. QED
      BY <2>3, <2>4 DEF FilterIsHarmless
  <1>2. QED
    BY <1>1, HeldAlways, PTL

\* Once the memory of a sample has been that of all samples kept, the risk is the
\* sample's own.
THEOREM SteadyRiskIsOwn == OutputsSpec => []RiskSettles
  <1>1. HeldInv => RiskSettles
    <2> SUFFICES ASSUME HeldInv, Shown, steady > HistorySize
                 PROVE  alpha.risk = DeriveRisk(sample.mem, <<sample.mem>>, RssTotal(Range(alpha.workloads)))
      BY DEF RiskSettles
    <2>1. alpha.risk = DeriveRisk(sample.mem, alpha.prior, RssTotal(Range(alpha.workloads)))
      BY FramesShow DEF FrameShows
    <2>2. alpha.prior # <<>> /\ alpha.prior[1] = sample.mem
      BY DEF HeldInv, FrameHeld
    <2>3. <<sample.mem>> # <<>> /\ <<sample.mem>>[1] = sample.mem
      OBVIOUS
    <2>4. /\ CompressedRising(sample.mem, alpha.prior) = CompressedRising(sample.mem, <<sample.mem>>)
          /\ SwapIncreasing(sample.mem, alpha.prior) = SwapIncreasing(sample.mem, <<sample.mem>>)
      BY <2>2, <2>3 DEF CompressedRising, SwapIncreasing
    <2>5. QED
      BY <2>1, <2>4 DEF DeriveRisk, IsCritical, IsWarn
  <1>2. QED
    BY <1>1, HeldAlways, PTL

\* From one frame to the next, against the same oldest sample, the risk goes down
\* only if some figure of the memory or the workloads' memory got better.
THEOREM ReliefIsEarned == OutputsSpec => NoUnearnedRelief
  <1> DEFINE Compared ==
        /\ Shown /\ Shown' /\ filter = "" /\ filter' = "" /\ alpha.prior # <<>>
        /\ Head(alpha.prior) = Head(alpha'.prior)
        /\ NoBetter(sample.mem, sample'.mem)
        /\ RssTotal(Range(alpha.workloads)) <= RssTotal(Range(alpha'.workloads))
  <1>1. HeldInv /\ HeldInv' /\ [OutputsNext]_outputs
          => [Compared => Gravity[alpha.risk] <= Gravity[alpha'.risk]]_outputs
    <2> SUFFICES ASSUME HeldInv, HeldInv', OutputsNext, Compared
                 PROVE  Gravity[alpha.risk] <= Gravity[alpha'.risk]
      OBVIOUS
    <2>1. FrameShows /\ FrameShows'
      <3>1. FrameShows
        BY FramesShow
      <3>2. FrameShows'
        BY FramesShow, PTL
      <3>3. QED
        BY <3>1, <3>2
    <2>2. /\ sample \in Snapshots /\ alpha.prior \in Histories
          /\ alpha.risk = DeriveRisk(sample.mem, alpha.prior, RssTotal(Range(alpha.workloads)))
          /\ RssTotal(Range(alpha.workloads)) \in Nat
      BY <2>1 DEF FrameShows
    <2>3. /\ sample' \in Snapshots /\ alpha'.prior \in Histories
          /\ alpha'.risk = DeriveRisk(sample'.mem, alpha'.prior, RssTotal(Range(alpha'.workloads)))
          /\ RssTotal(Range(alpha'.workloads)) \in Nat
      BY <2>1 DEF FrameShows
    <2>4. alpha'.prior # <<>>
      <3>1. CASE Frame
        <4>1. history # <<>>
          BY DEF HeldInv, FrameHeld
        <4>2. profile' = "alpha" /\ profile' = profile
          BY <3>1 DEF Frame, Shown
        <4>3. PICK s \in Snapshots : alpha' = AlphaModel(s, workloads', history)
          BY <3>1, <4>2 DEF Frame
        <4>4. alpha'.prior = history
          BY <4>3 DEF AlphaModel
        <4>5. QED
          BY <4>1, <4>4
      <3>2. CASE SnapshotMode \/ Outside
        BY <3>2 DEF SnapshotMode, Outside, Shown
      <3>3. CASE Settings
        BY <3>3 DEF Settings, Shown
      <3>4. QED
        BY <3>1, <3>2, <3>3 DEF OutputsNext
    <2>5. SameOldest(alpha.prior, alpha'.prior)
      <3>1. Head(alpha.prior) = alpha.prior[1] /\ Head(alpha'.prior) = alpha'.prior[1]
        BY <2>2, <2>3, <2>4, HeadIs
      <3>2. alpha.prior # <<>> /\ Head(alpha.prior) = Head(alpha'.prior)
        OBVIOUS
      <3>3. QED
        BY <2>2, <2>3, <2>4, <3>1, <3>2 DEF SameOldest
    <2>6. /\ sample.mem \in Memory /\ sample'.mem \in Memory
          /\ WithPressure(sample.mem) = sample.mem /\ WithPressure(sample'.mem) = sample'.mem
      BY <2>2, <2>3, SnapshotIs
    <2> DEFINE a == sample.mem
               b == sample'.mem
               h == alpha.prior
               k == alpha'.prior
               rss == RssTotal(Range(alpha.workloads))
               more == RssTotal(Range(alpha'.workloads))
    <2>7. /\ a \in Memory /\ b \in Memory /\ NoBetter(a, b) /\ h \in Histories /\ k \in Histories
          /\ SameOldest(h, k) /\ rss \in Nat /\ more \in Nat /\ rss <= more
      BY <2>2, <2>3, <2>5, <2>6
    <2>8. alpha.risk = DeriveRisk(WithPressure(a), h, rss)
          /\ alpha'.risk = DeriveRisk(WithPressure(b), k, more)
      BY <2>2, <2>3, <2>6
    <2> HIDE DEF a, b, h, k, rss, more
    <2>9. QED
      BY <2>7, <2>8, NoReliefWithoutCause
  <1>2. OutputsSpec => [][Compared => Gravity[alpha.risk] <= Gravity[alpha'.risk]]_outputs
    BY <1>1, HeldAlways, PTL DEF OutputsSpec
  <1>3. QED
    BY <1>2 DEF NoUnearnedRelief

-----------------------------------------------------------------------------
(***************************************************************************)
(* The lines of snapshot mode.                                             *)
(***************************************************************************)

LEMMA SortedIds ==
  ASSUME NEW S, IsFiniteSet(S), S \subseteq Nat
  PROVE  Sorted(S, <) \in SetToSeqs(S)
<1> DEFINE R == {x \in S \X S : x[1] < x[2]}
<1>1. Orders(R, S)
  BY DEF Orders
<1>2. \A p, q \in S : <<p, q>> \in R <=> p < q
  OBVIOUS
<1> HIDE DEF R
<1>3. PICK s \in SetToSeqs(S) : InOrder(s, R)
  BY <1>1, OrderedExists
<1>4. \A i \in DOMAIN s : s[i] \in S
  BY DEF SetToSeqs
<1>5. \A i, j \in DOMAIN s : i < j => ~(s[j] < s[i])
  BY <1>2, <1>3, <1>4 DEF InOrder
<1>6. QED
  BY <1>5 DEF Sorted

\* The commands of a workload are commands of the sample's processes.
LEMMA CommandsAre ==
  ASSUME NEW s, s.processes \in ProcessLists, NEW w \in Range(BuildWorkloads(s.processes))
  PROVE  Commands(s, w) \in Seq(Seq(STRING))
<1> DEFINE list == s.processes
           pids == Sorted(w.pids, <)
<1>1. PICK key : Stands(list, Of(list, key), w)
  BY WorkloadsAreGroups
<1>2. w.pids \in SUBSET Ids(list)
  BY <1>1, GroupUse, OfKey
<1>3. IsFiniteSet(w.pids)
  BY <1>2, IdsUse, FS_Subset
<1>4. \A pid \in Ids(list) : pid \in Nat /\ ProcessOf(list, pid).command \in Seq(STRING)
  <2> SUFFICES ASSUME NEW j \in DOMAIN list
               PROVE  list[j].pid \in Nat /\ ProcessOf(list, list[j].pid).command \in Seq(STRING)
    BY DEF Ids
  <2>1. ProcessOf(list, list[j].pid) = list[j] /\ list[j] \in Processes
    BY ProcessById
  <2>2. QED
    BY <2>1 DEF Processes
<1>5. pids \in SetToSeqs(w.pids)
  <2>1. w.pids \subseteq Nat
    BY <1>2, <1>4
  <2>2. QED
    BY <1>3, <2>1, SortedIds
<1>6. pids \in Seq(w.pids)
  BY <1>3, <1>5, SeqOfSet
<1>7. Commands(s, w) = [i \in DOMAIN pids |-> ProcessOf(list, pids[i]).command]
  BY DEF Commands
<1> HIDE DEF pids, list
<1>8. Len(pids) \in Nat /\ DOMAIN pids = 1..Len(pids)
  BY <1>6
<1>9. \A i \in 1..Len(pids) : ProcessOf(list, pids[i]).command \in Seq(STRING)
  BY <1>2, <1>4, <1>6
<1>10. QED
  BY <1>7, <1>8, <1>9

\* What a reader gets from the line of a sample.
TextsOf(s) == CommandsOf(s.processes) \o FlattenSeq(CommandsByWorkload(s, WorkloadsOf[s]))

LEMMA LineOfCases ==
  ASSUME NEW s \in Snapshots, NEW ofSession \in BOOLEAN
  PROVE  LineOf[s][ofSession] =
           LET commands == CommandsByWorkload(s, WorkloadsOf[s])
           IN IF ofSession THEN SessionSnapshotLine(s, commands)
              ELSE SnapshotText(NewReader, s, commands)
BY DEF LineOf

LEMMA LineOfIs ==
  ASSUME NEW s \in Snapshots, NEW ofSession \in BOOLEAN
  PROVE  LineOf[s][ofSession] = Complete(TextsOf(s))
<1> DEFINE C == STRING
           built == WorkloadsOf[s]
           list == CommandsByWorkload(s, built)
           n == Len(s.processes)
           m == Len(built)
<1>1. s.processes \in ProcessLists /\ built = BuildWorkloads(s.processes)
  BY SnapshotIs
<1>2. s.cores \in Nat /\ s.clusters \in Nat /\ s.gpuPids \in Nat
  <2>1. PICK r \in Samples : s = Measured(r)
    BY DEF Snapshots
  <2>2. r \in Readings
    BY OutputsAssumption
  <2>3. QED
    BY <2>1, <2>2 DEF Measured, Readings
<1>3. /\ n \in Nat /\ DOMAIN s.processes = 1..n
      /\ \A i \in 1..n : s.processes[i].command \in Seq(C)
  <2>1. s.processes \in Seq(Processes)
    BY <1>1 DEF ProcessLists
  <2>2. n \in Nat /\ DOMAIN s.processes = 1..n /\ \A i \in 1..n : s.processes[i] \in Processes
    BY <2>1
  <2>3. QED
    BY <2>2 DEF Processes
<1>4. m \in Nat /\ DOMAIN built = 1..m /\ \A i \in 1..m : built[i] \in Range(built)
  <2>1. IsFiniteSet(Range(Grouped(s.processes))) /\ \A w \in Range(Grouped(s.processes)) : w.rss \in Nat
    BY <1>1, WorkloadsAreGroups, WorkloadsHaveMemory
  <2>2. built \in SetToSeqs(Range(Grouped(s.processes)))
    BY <1>1, <2>1, SortedWorkloads DEF BuildWorkloads
  <2>3. built \in Seq(Range(Grouped(s.processes)))
    BY <2>1, <2>2, SeqOfSet
  <2> HIDE DEF built
  <2>4. m \in Nat /\ DOMAIN built = 1..m
    BY <2>3
  <2>5. QED
    BY <2>4 DEF Range
<1>5. list = [i \in 1..m |-> list[i]] /\ \A i \in 1..m : list[i] \in Seq(Seq(C))
  <2>1. list = [i \in 1..m |-> Commands(s, built[i])]
    BY <1>4 DEF CommandsByWorkload
  <2>2. \A i \in 1..m : Commands(s, built[i]) \in Seq(Seq(C))
    BY <1>1, <1>4, CommandsAre
  <2> HIDE DEF list, built, m, C
  <2>3. QED
    BY <2>1, <2>2
<1>6. IsSnapshot(s, list, C, n, m)
  <2> HIDE DEF list, built, n, m, C
  <2>1. QED
    BY <1>2, <1>3, <1>5 DEF IsSnapshot
<1>7. SnapshotTexts(s, list, n) = TextsOf(s)
  BY <1>3 DEF SnapshotTexts, TextsOf, CommandsOf
<1>8. LineOf[s][ofSession] = IF ofSession THEN SessionSnapshotLine(s, list)
                             ELSE SnapshotText(NewReader, s, list)
  BY LineOfCases
<1> HIDE DEF list, built, n, m, C
<1>9. SessionSnapshotLine(s, list) = Complete(TextsOf(s))
  BY <1>3, <1>4, <1>6, <1>7, InSessionIs
<1>10. SnapshotText(NewReader, s, list) = Complete(TextsOf(s))
  BY <1>3, <1>4, <1>6, <1>7, AloneIs
<1>11. QED
  BY <1>8, <1>9, <1>10

LEMMA SnapshotIsNot == ASSUME NEW s \in Snapshots PROVE s # NoSample
<1>1. PICK r \in Samples : s = Measured(r)
  BY DEF Snapshots
<1>2. r \in Readings
  BY OutputsAssumption
<1>3. WithPressure(r.mem) \in Memory
  BY <1>2, PressureIsDerived DEF Readings
<1>4. s \in Readings
  BY <1>1, <1>2, <1>3 DEF Measured, Readings
<1>5. QED
  BY <1>4, OutputsAssumption

\* The line at hand is of the sample at hand, or of the session's start or end.
LineHeld ==
  /\ mode = "screen" => line = NoSample
  /\ mode = "session" =>
       /\ label \in Labels /\ opt.session \in BOOLEAN
       /\ sample # NoSample => pc \in {"emit", "check", "killed"}
       /\ line # NoSample =>
            IF sample # NoSample THEN line = Complete(TextsOf(sample))
            ELSE \/ line = Complete(<<label>>) /\ pc \in {"test", "killed"}
                 \/ line = Complete(<<>>) /\ pc \in After \cup {"done", "killed"}

LEMMA LineInit == OutputsInit => LineHeld
<1> SUFFICES ASSUME OutputsInit PROVE LineHeld
  OBVIOUS
<1>1. CASE mode = "screen"
  BY <1>1 DEF OutputsInit, LineHeld
<1>2. CASE mode # "screen"
  BY <1>2 DEF OutputsInit, LineHeld, Init, Options
<1>3. QED
  BY <1>1, <1>2

LEMMA LineHolds == LineHeld /\ SampleHeld /\ [OutputsNext]_outputs => LineHeld'
<1> SUFFICES ASSUME LineHeld, SampleHeld, [OutputsNext]_outputs PROVE LineHeld'
  OBVIOUS
<1>1. CASE SnapshotMode
  <2>1. /\ mode = "session" /\ mode' = "session" /\ label' = label
        /\ label \in Labels /\ opt.session \in BOOLEAN
    BY <1>1 DEF SnapshotMode, LineHeld
  <2>2. CASE StartLine
    <3>1. sample = NoSample /\ sample' = NoSample /\ opt' = opt /\ pc' = "test"
      BY <2>1, <2>2 DEF StartLine, WriteStart, LineHeld
    <3>2. label \in Seq(STRING)
      BY <2>1, OutputsAssumption
    <3>3. line' = Complete(<<label>>)
      BY <2>2, <3>2, StartLineIs DEF StartLine
    <3>4. QED
      BY <2>1, <3>1, <3>3 DEF LineHeld
  <2>3. CASE SampleLine
    <3>1. sample' \in Snapshots /\ line' = LineOf[sample'][opt.session] /\ opt' = opt /\ pc' = "emit"
      BY <2>3 DEF SampleLine, Sample
    <3>2. line' = Complete(TextsOf(sample'))
      BY <2>1, <3>1, LineOfIs
    <3>3. sample' # NoSample
      BY <3>1, SnapshotIsNot
    <3>4. QED
      BY <2>1, <3>1, <3>2, <3>3 DEF LineHeld, TextsOf, WorkloadsOf, CommandsByWorkload
  <2>4. CASE Forget
    BY <2>1, <2>4 DEF Forget, Check, LeaveLoop, LineHeld
  <2>5. CASE EndLine
    <3>1. sample = NoSample /\ sample' = NoSample /\ opt' = opt /\ pc' \in After
      BY <2>1, <2>5 DEF EndLine, WriteEnd, LineHeld, After
    <3>2. line' = Complete(<<>>)
      BY <2>5, EndLineIs DEF EndLine
    <3>3. QED
      BY <2>1, <3>1, <3>2 DEF LineHeld
  <2>6. CASE Elsewhere
    <3>1. UNCHANGED <<sample, line, opt>>
      BY <2>6 DEF Elsewhere, BadFormat, OpenFails, Open, ArmInt, ArmTerm, Emit, Sleep,
                  RestoreInt, RestoreTerm, Finish
    <3>2. sample # NoSample => pc' \in {"emit", "check", "killed"}
      BY <2>1, <2>6 DEF Elsewhere, BadFormat, OpenFails, Open, ArmInt, ArmTerm, Emit, Sleep,
                        RestoreInt, RestoreTerm, Finish, Return, LineHeld
    <3>3. line # NoSample /\ sample = NoSample =>
            \/ pc = "killed" /\ pc' = "killed"
            \/ pc \in After \cup {"done"} /\ pc' \in After \cup {"done"}
      BY <2>1, <2>6 DEF Elsewhere, BadFormat, OpenFails, Open, ArmInt, ArmTerm, Emit, Sleep,
                        RestoreInt, RestoreTerm, Finish, Return, LineHeld, After
    <3>4. line # NoSample /\ sample = NoSample =>
            \/ line = Complete(<<label>>) /\ pc' \in {"test", "killed"}
            \/ line = Complete(<<>>) /\ pc' \in After \cup {"done", "killed"}
      BY <2>1, <3>3 DEF LineHeld, After
    <3>5. QED
      BY <2>1, <3>1, <3>2, <3>4 DEF LineHeld, TextsOf
  <2>7. QED
    BY <1>1, <2>2, <2>3, <2>4, <2>5, <2>6 DEF SnapshotMode
<1>2. CASE Outside
  <2>1. UNCHANGED <<mode, label, sample, line, opt>> /\ (pc' = pc \/ pc' = "killed")
    BY <1>2 DEF Outside, BrokenPipe, Handled, Deadly, Ended, vars
  <2>2. QED
    BY <2>1 DEF LineHeld, TextsOf
<1>3. CASE Frame \/ Settings
  BY <1>3 DEF Frame, Settings, LineHeld
<1>4. CASE UNCHANGED outputs
  BY <1>4 DEF outputs, vars, LineHeld, TextsOf
<1>5. QED
  BY <1>1, <1>2, <1>3, <1>4 DEF OutputsNext

\* Whatever characters a label and the commands of a sample have, and however
\* many cores, clusters, processes and workloads there are, each line run_snapshot_mode
\* writes is one JSON value, from which a reader gets the label, or the commands of
\* the processes and of the workloads, as they were.
THEOREM LinesAreJson == OutputsSpec => []LineIsJson
<1>1. LineHeld /\ SampleHeld => LineIsJson
  <2> SUFFICES ASSUME LineHeld, SampleHeld, line # NoSample
               PROVE  /\ ~line.bad /\ line.done
                      /\ pc = "test" => line.texts = <<label>>
                      /\ sample # NoSample =>
                           line.texts = CommandsOf(sample.processes)
                                          \o FlattenSeq(CommandsByWorkload(sample, workloads))
                      /\ sample = NoSample /\ pc \notin {"test", "killed"} => line.texts = <<>>
    BY DEF LineIsJson
  <2>1. mode = "session"
    BY DEF LineHeld, SampleHeld
  <2>2. ASSUME NEW ts PROVE ~Complete(ts).bad /\ Complete(ts).done /\ Complete(ts).texts = ts
    BY DEF Complete, Reader, Yes
  <2>3. CASE sample # NoSample
    <3>1. line = Complete(TextsOf(sample)) /\ workloads = WorkloadsOf[sample] /\ pc # "test"
      BY <2>1, <2>3 DEF LineHeld, SampleHeld
    <3>2. QED
      BY <2>2, <2>3, <3>1 DEF TextsOf
  <2>4. CASE sample = NoSample
    <3>1. \/ line = Complete(<<label>>) /\ pc \in {"test", "killed"}
          \/ line = Complete(<<>>) /\ pc # "test"
      BY <2>1, <2>4 DEF LineHeld, After
    <3>2. QED
      BY <2>2, <2>4, <3>1
  <2>5. QED
    BY <2>3, <2>4
<1>2. OutputsInit => LineHeld
  BY LineInit
<1>3. LineHeld /\ HeldInv /\ [OutputsNext]_outputs => LineHeld'
  BY LineHolds DEF HeldInv
<1>4. HeldInv => SampleHeld
  BY DEF HeldInv
<1>5. QED
  BY <1>1, <1>2, <1>3, <1>4, HeldAlways, PTL DEF OutputsSpec
=============================================================================
