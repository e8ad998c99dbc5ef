------------------------- MODULE RootMetricsProofs -------------------------
(***************************************************************************)
(* Theorems about RootMetrics, for every set of processes and columns,     *)
(* every set of command results and every bound: the type invariant, the   *)
(* untorn copy, what the status and the column texts say of the rounds     *)
(* published, and that telemetry never goes back.  All follow from the     *)
(* inductive invariant IInv of RootMetrics.                                *)
(***************************************************************************)
EXTENDS RootMetrics, Sequences, TLAPS

\* TypeOK is inductive by itself; each action keeps the domains.
LEMMA InitTypeOK == Init => TypeOK
<1> SUFFICES ASSUME Init PROVE TypeOK
  OBVIOUS
<1> USE MetricsAssumption DEF MetricsAssumption
<1>1. NoReason \in FailureTexts
  BY DEF FailureTexts, Reasons
<1>2. NoRows \in Rows
  BY DEF NoRows, Rows
<1>3. NoMetrics \in Metrics
  BY <1>1, <1>2 DEF NoMetrics, Metrics, Heads, TaskData
<1>4. view \in [status : Statuses, sample : 0..MaxRounds, cells : Cells]
  BY DEF Init, Statuses, Cells
<1>5. /\ root \in BOOLEAN /\ stop \in BOOLEAN
      /\ mutex \in {"free", "collector", "ui"}
      /\ cpc \in {"none", "test"}
  BY DEF Init
<1>6. /\ round \in 0..MaxRounds /\ slept \in 0..SleepSteps
      /\ pub \in 0..MaxRounds /\ seen \in 0..MaxRounds
  BY DEF Init
<1>7. upc = "idle" /\ good \in SUBSET (1..MaxRounds)
  BY DEF Init
<1>8. draft \in Metrics /\ last \in Metrics /\ shared \in Metrics /\ cached \in Metrics
  BY <1>3 DEF Init
<1> QED
  BY <1>4, <1>5, <1>6, <1>7, <1>8 DEF TypeOK

LEMMA CellType ==
  ASSUME NEW m, NEW p, NEW c
  PROVE  Cell(m, p, c) \in {"root", "wait", "stale", "n/a", "value"}
BY DEF Cell

LEMMA StatusType ==
  ASSUME NEW h \in Heads
  PROVE  Status(h) \in Statuses
BY DEF Status, Statuses, FailedStatuses, Heads

\* A round's reason stays a failure text, whatever command fails.
LEMMA ReasonType ==
  ASSUME TypeOK, NEW r \in Results
  PROVE  r.reason \in FailureTexts /\ FirstReason(r.reason) \in FailureTexts
<1>1. r.reason \in FailureTexts
  BY MetricsAssumption
     DEF MetricsAssumption, CommandResults, ResultRecords, FailureTexts
<1>2. draft.head.reason \in FailureTexts
  BY DEF TypeOK, Metrics, Heads
<1> QED
  BY <1>1, <1>2 DEF FirstReason

LEMMA MergedType ==
  ASSUME NEW m \in Metrics, NEW l \in Metrics
  PROVE  Merged(m, l) \in Metrics
<1> ParseFailed \in FailureTexts
  BY DEF FailureTexts
<1> QED
  BY DEF Merged, Metrics, Heads, TaskData

LEMMA StepTypeOK == TypeOK /\ RoundInv /\ [Next]_vars => TypeOK'
<1> SUFFICES ASSUME TypeOK, RoundInv, [Next]_vars PROVE TypeOK'
  OBVIOUS
<1> USE MetricsAssumption DEF MetricsAssumption
<1> USE DEF collectorVars, uiVars
<1>1. CASE StopSeen
  BY <1>1 DEF StopSeen, TypeOK
<1>2. CASE StartRound
  <2>1. round' \in 0..MaxRounds
    BY <1>2 DEF StartRound, TypeOK
  <2>2. NoReason \in FailureTexts /\ NoRows \in Rows
    BY DEF FailureTexts, Reasons, NoRows, Rows
  <2>3. draft' \in Metrics
    BY <1>2, <2>1, <2>2 DEF StartRound, NoMetrics, Metrics, Heads, TaskData
  <2> QED
    BY <1>2, <2>1, <2>3 DEF StartRound, TypeOK
<1>3. CASE TempFileFails
  <2>1. draft' \in Metrics
    BY <1>3 DEF TempFileFails, TypeOK, Metrics, Heads, FailureTexts
  <2> QED
    BY <1>3, <2>1 DEF TempFileFails, TypeOK
<1>4. CASE CollectPlist
  <2>1. PICK r \in Results, parsed \in BOOLEAN :
          draft' = [draft EXCEPT !.head.available = r.ok /\ parsed,
                                 !.head.reason = IF r.ok THEN NoReason ELSE r.reason]
    BY <1>4 DEF CollectPlist
  <2>2. r.reason \in FailureTexts /\ NoReason \in FailureTexts
    BY ReasonType DEF FailureTexts, Reasons
  <2>3. (r.ok /\ parsed) \in BOOLEAN
    OBVIOUS
  <2>4. draft' \in Metrics
    BY <2>1, <2>2, <2>3 DEF TypeOK, Metrics, Heads
  <2> QED
    BY <1>4, <2>4 DEF CollectPlist, TypeOK
<1>5. CASE CollectTasks
  <2>1. PICK r \in Results, rows \in Rows :
          draft' = [draft EXCEPT !.tasks.rows = rows,
                                 !.head.reason = IF r.ok THEN @ ELSE FirstReason(r.reason)]
    BY <1>5 DEF CollectTasks
  <2>2. draft' \in Metrics
    BY <2>1, ReasonType DEF TypeOK, Metrics, Heads, TaskData
  <2> QED
    BY <1>5, <2>2 DEF CollectTasks, TypeOK
<1>6. CASE CollectFallback
  <2>1. PICK r \in Results, rows \in Rows :
          draft' = [draft EXCEPT !.tasks.rows = rows,
                                 !.head.reason = IF r.ok THEN @ ELSE FirstReason(r.reason)]
    BY <1>6 DEF CollectFallback
  <2>2. draft' \in Metrics
    BY <2>1, ReasonType DEF TypeOK, Metrics, Heads, TaskData
  <2> QED
    BY <1>6, <2>2 DEF CollectFallback, TypeOK
<1>7. CASE Merge
  <2>1. round \in 1..MaxRounds
    BY <1>7 DEF Merge, TypeOK, RoundInv, InRound
  <2>2. good' \in SUBSET (1..MaxRounds)
    BY <1>7, <2>1 DEF Merge, TypeOK
  <2>3. draft' \in Metrics /\ last' \in Metrics
    BY <1>7, MergedType DEF Merge, TypeOK
  <2> QED
    BY <1>7, <2>2, <2>3 DEF Merge, TypeOK
<1>8. CASE LockShared
  BY <1>8 DEF LockShared, TypeOK
<1>9. CASE WriteHead
  <2>1. shared' \in Metrics
    BY <1>9 DEF WriteHead, TypeOK, Metrics
  <2> QED
    BY <1>9, <2>1 DEF WriteHead, TypeOK
<1>10. CASE WriteTasks
  <2>1. shared' \in Metrics
    BY <1>10 DEF WriteTasks, TypeOK, Metrics
  <2> QED
    BY <1>10, <2>1 DEF WriteTasks, TypeOK
<1>11. CASE SleepStep
  BY <1>11 DEF SleepStep, TypeOK
<1>12. CASE SleepOver
  BY <1>12 DEF SleepOver, TypeOK
<1>13. CASE SampleUnprivileged
  <2>1. view' \in [status : Statuses, sample : 0..MaxRounds, cells : Cells]
    BY <1>13 DEF SampleUnprivileged, Statuses, Cells
  <2> QED
    BY <1>13, <2>1 DEF SampleUnprivileged, TypeOK
<1>14. CASE StartSample
  BY <1>14 DEF StartSample, TypeOK
<1>15. CASE LockForCopy
  BY <1>15 DEF LockForCopy, TypeOK
<1>16. CASE CopyHead
  <2>1. cached' \in Metrics
    BY <1>16 DEF CopyHead, TypeOK, Metrics
  <2> QED
    BY <1>16, <2>1 DEF CopyHead, TypeOK
<1>17. CASE CopyTasks
  <2>1. cached' \in Metrics
    BY <1>17 DEF CopyTasks, TypeOK, Metrics
  <2> QED
    BY <1>17, <2>1 DEF CopyTasks, TypeOK
<1>18. CASE Apply
  <2>1. Status(cached.head) \in Statuses /\ cached.head.sample \in 0..MaxRounds
    BY StatusType DEF TypeOK, Metrics, Heads
  <2>2. [p \in Pids |-> [c \in Columns |-> Cell(cached, p, c)]] \in Cells
    BY CellType DEF Cells
  <2>3. view' \in [status : Statuses, sample : 0..MaxRounds, cells : Cells]
    BY <1>18, <2>1, <2>2 DEF Apply
  <2> QED
    BY <1>18, <2>3 DEF Apply, TypeOK
<1>19. CASE Quit
  BY <1>19 DEF Quit, TypeOK
<1>20. CASE Join
  BY <1>20 DEF Join, TypeOK
<1>21. CASE UNCHANGED vars
  BY <1>21 DEF vars, TypeOK
<1> QED
  BY <1>1, <1>2, <1>3, <1>4, <1>5, <1>6, <1>7, <1>8, <1>9, <1>10, <1>11, <1>12,
     <1>13, <1>14, <1>15, <1>16, <1>17, <1>18, <1>19, <1>20, <1>21
     DEF Next, Commands, CollectorCode, Sampling, Gone

-----------------------------------------------------------------------------
(***************************************************************************)
(* The inductive invariant.                                                *)
(***************************************************************************)

\* A round that enters the history says nothing of the rounds before it.
LEMMA LaterRound ==
  ASSUME TypeOK, NEW r \in Nat, NEW n \in Nat, n < r,
         good' = good \cup {r}
  PROVE  /\ NoneGood(n)' <=> NoneGood(n)
         /\ n \in good' <=> n \in good
         /\ \A s \in Nat : s <= n => (IsLastGood(s, n)' <=> IsLastGood(s, n))
BY DEF TypeOK, NoneGood, IsLastGood

LEMMA InitIInv == Init => IInv
<1> SUFFICES ASSUME Init PROVE IInv
  OBVIOUS
<1>1. TypeOK
  BY InitTypeOK
<1>2. MutexInv /\ RoundInv
  BY DEF Init, MutexInv, RoundInv, InRound, Publishing, Completed
<1>3. Describes(NoMetrics, 0)
  BY <1>1 DEF Init, Describes, HeadDescribes, NoMetrics, NoneGood, IsLastGood
<1>4. DraftInv /\ LastInv /\ SharedInv /\ CachedInv
  BY <1>3 DEF Init, DraftInv, LastInv, SharedInv, CachedInv, InRound, Publishing,
              NoMetrics
<1>5. ViewInv
  BY DEF Init, ViewInv, Shown
<1> QED
  BY <1>1, <1>2, <1>4, <1>5 DEF IInv

\* A step that leaves the copy alone leaves the screen right.
LEMMA ViewKept ==
  ASSUME ViewInv, root' = root, upc' = upc, view' = view, cached' = cached
  PROVE  ViewInv'
BY DEF ViewInv, Shown

\* The steps that move only the control of one thread.
LEMMA ControlSteps ==
  ASSUME IInv, \/ StopSeen \/ SleepStep \/ SleepOver
               \/ StartSample \/ Join \/ UNCHANGED vars
  PROVE  IInv'
<1> USE DEF collectorVars, uiVars
<1>1. TypeOK'
  BY StepTypeOK DEF IInv, Next, CollectorCode, Sampling
<1>2. MutexInv' /\ RoundInv'
  BY DEF IInv, MutexInv, RoundInv, InRound, Publishing, Completed, TypeOK,
         StopSeen, SleepStep, SleepOver, StartSample, Join, vars
<1>3. DraftInv' /\ LastInv'
  BY DEF IInv, DraftInv, LastInv, InRound, Publishing, Completed, Describes,
         HeadDescribes, NoneGood, IsLastGood,
         StopSeen, SleepStep, SleepOver, StartSample, Join, vars
<1>4. SharedInv' /\ CachedInv'
  BY DEF IInv, SharedInv, CachedInv, Describes, HeadDescribes, NoneGood, IsLastGood,
         StopSeen, SleepStep, SleepOver, StartSample, Join, vars
<1>5. ViewInv'
  <2>1. CASE StartSample \/ Join
    BY <2>1 DEF IInv, ViewInv, Shown, StartSample, Join
  <2>2. CASE StopSeen \/ SleepStep \/ SleepOver \/ UNCHANGED vars
    BY <2>2, ViewKept DEF IInv, StopSeen, SleepStep, SleepOver, vars
  <2> QED
    BY <2>1, <2>2
<1> QED
  BY <1>1, <1>2, <1>3, <1>4, <1>5 DEF IInv

\* The steps of collect_root_metrics: only the draft changes.
LEMMA CollectSteps ==
  ASSUME IInv, StartRound \/ Commands
  PROVE  IInv'
<1> USE DEF collectorVars, uiVars
<1>1. TypeOK'
  BY StepTypeOK DEF IInv, Next, CollectorCode
<1>2. /\ mutex' = mutex /\ last' = last /\ shared' = shared /\ upc' = upc
      /\ cached' = cached /\ view' = view /\ good' = good /\ pub' = pub
      /\ seen' = seen /\ root' = root
      /\ cpc' \in {"plist", "tasks", "fallback", "merge"}
  BY DEF StartRound, Commands, TempFileFails, CollectPlist, CollectTasks,
         CollectFallback
<1>3. \/ StartRound /\ cpc = "test" /\ round' = round + 1
      \/ Commands /\ cpc \in {"plist", "tasks", "fallback", "merge"} /\ round' = round
  BY DEF StartRound, Commands, TempFileFails, CollectPlist, CollectTasks,
         CollectFallback
<1>4. round \in Nat
  BY DEF IInv, TypeOK
<1>5. Completed' = Completed
  BY <1>2, <1>3, <1>4 DEF Completed, InRound
<1>6. MutexInv'
  BY <1>2, <1>3 DEF IInv, MutexInv
<1>7. RoundInv'
  BY <1>2, <1>3, <1>4, <1>5 DEF IInv, RoundInv, InRound, Publishing
<1>8. DraftInv'
  <2>1. CASE StartRound
    BY <1>2, <2>1 DEF StartRound, DraftInv, InRound, Publishing, NoMetrics
  <2>2. CASE Commands /\ cpc \in {"plist", "tasks", "fallback", "merge"} /\ round' = round
    <3>1. draft \in Metrics
      BY DEF IInv, TypeOK
    <3>2. ASSUME NEW h, draft' = [draft EXCEPT !.head.reason = h]
          PROVE  /\ draft'.head.sampled = draft.head.sampled
                 /\ draft'.head.stale = draft.head.stale
                 /\ draft'.head.sample = draft.head.sample
                 /\ draft'.tasks.from = draft.tasks.from
      BY <3>1, <3>2 DEF Metrics, Heads, TaskData
    <3>3. ASSUME NEW a, NEW h, draft' = [draft EXCEPT !.head.available = a, !.head.reason = h]
          PROVE  /\ draft'.head.sampled = draft.head.sampled
                 /\ draft'.head.stale = draft.head.stale
                 /\ draft'.head.sample = draft.head.sample
                 /\ draft'.tasks.from = draft.tasks.from
      BY <3>1, <3>3 DEF Metrics, Heads, TaskData
    <3>4. ASSUME NEW rs, NEW h, draft' = [draft EXCEPT !.tasks.rows = rs, !.head.reason = h]
          PROVE  /\ draft'.head.sampled = draft.head.sampled
                 /\ draft'.head.stale = draft.head.stale
                 /\ draft'.head.sample = draft.head.sample
                 /\ draft'.tasks.from = draft.tasks.from
      BY <3>1, <3>4 DEF Metrics, Heads, TaskData
    <3>5. /\ draft'.head.sampled = draft.head.sampled
          /\ draft'.head.stale = draft.head.stale
          /\ draft'.head.sample = draft.head.sample
          /\ draft'.tasks.from = draft.tasks.from
      <4>1. CASE TempFileFails
        BY <4>1, <3>2 DEF TempFileFails
      <4>2. CASE CollectPlist
        BY <4>2, <3>3 DEF CollectPlist
      <4>3. CASE CollectTasks
        BY <4>3, <3>4 DEF CollectTasks
      <4>4. CASE CollectFallback
        <5>1. PICK r \in Results, rows \in Rows :
                draft' = [draft EXCEPT !.tasks.rows = rows,
                                       !.head.reason = IF r.ok THEN @ ELSE FirstReason(r.reason)]
          BY <4>4 DEF CollectFallback
        <5> QED
          BY <5>1, <3>4
      <4> QED
        BY <2>2, <4>1, <4>2, <4>3, <4>4 DEF Commands
    <3> QED
      BY <1>2, <2>2, <3>5 DEF IInv, DraftInv, InRound, Publishing
  <2> QED
    BY <1>3, <2>1, <2>2
<1>9. LastInv'
  BY <1>2, <1>5 DEF IInv, LastInv, IsLastGood
<1>10. SharedInv' /\ CachedInv'
  BY <1>2, <1>3 DEF IInv, SharedInv, CachedInv, Describes, HeadDescribes, NoneGood,
                    IsLastGood
<1>11. ViewInv'
  BY <1>2, ViewKept DEF IInv
<1> QED
  BY <1>1, <1>6, <1>7, <1>8, <1>9, <1>10, <1>11 DEF IInv

\* The merge ends a round: what it leaves in the draft describes the history
\* with this round in it, and everything older keeps describing its own past.
LEMMA MergeStep ==
  ASSUME IInv, Merge
  PROVE  IInv'
<1> USE DEF collectorVars, uiVars
<1>1. TypeOK'
  BY StepTypeOK DEF IInv, Next, CollectorCode
<1>2. MutexInv'
  BY DEF IInv, MutexInv, Merge
<1>3. /\ round \in Nat /\ round > 0 /\ pub = round - 1 /\ seen <= pub
      /\ good \subseteq 1..(round - 1) /\ pub \in Nat /\ seen \in Nat
  BY DEF IInv, TypeOK, RoundInv, InRound, Publishing, Completed, Merge
<1>4. RoundInv'
  BY <1>3 DEF RoundInv, InRound, Publishing, Completed, Merge
<1>5. /\ draft.head.available \in BOOLEAN /\ draft.head.sampled /\ ~draft.head.stale
      /\ draft.head.sample = round /\ draft.tasks.from = round
  BY DEF IInv, TypeOK, Metrics, Heads, DraftInv, InRound, Merge
<1>6. /\ last.head.available <=> good # {}
      /\ last.head.available =>
           /\ last.head.sampled /\ ~last.head.stale
           /\ IsLastGood(last.head.sample, round - 1)
           /\ last.tasks.from = last.head.sample
  BY DEF IInv, LastInv, Completed, InRound, Merge
<1>7. \A i \in good : i \in Nat /\ i <= round - 1
  BY <1>3
<1>8. last.head.available =>
        /\ last.head.sample \in good
        /\ last.head.sample \in Nat /\ last.head.sample < round
        /\ \A i \in good : i <= last.head.sample
  <2> SUFFICES ASSUME last.head.available
               PROVE  /\ last.head.sample \in good
                      /\ last.head.sample \in Nat /\ last.head.sample < round
                      /\ \A i \in good : i <= last.head.sample
    OBVIOUS
  <2> DEFINE s == last.head.sample
  <2>1. s \in good /\ \A i \in good : i <= round - 1 => i <= s
    BY <1>6 DEF IsLastGood
  <2>2. round \in Nat
    BY <1>3
  <2> QED
    BY <2>1, <2>2, <1>7
<1>9. draft \in Metrics /\ last \in Metrics
  BY DEF IInv, TypeOK
<1>10. DraftInv' /\ LastInv'
  <2>1. CASE draft.head.available
    <3>1. draft' = draft /\ last' = draft /\ good' = good \cup {round} /\ cpc' = "lock"
          /\ round' = round
      BY <2>1 DEF Merge, Merged
    <3>2. IsLastGood(round, round)' /\ ~NoneGood(round)' /\ round \in good'
      BY <1>3, <3>1 DEF IsLastGood, NoneGood
    <3> QED
      BY <1>3, <1>5, <2>1, <3>1, <3>2
         DEF DraftInv, LastInv, Describes, HeadDescribes, InRound, Publishing, Completed,
             IsLastGood, NoneGood
  <2>2. CASE ~draft.head.available
    <3>1. last' = last /\ good' = good /\ cpc' = "lock" /\ round' = round
      BY <2>2 DEF Merge
    <3>2. LastInv'
      <4>1. Completed' = round
        BY <3>1 DEF Completed, InRound
      <4>2. last.head.available => IsLastGood(last.head.sample, round)'
        BY <1>3, <1>8, <3>1 DEF IsLastGood
      <4> QED
        BY <1>6, <3>1, <4>1, <4>2 DEF LastInv, IsLastGood
    <3>3. DraftInv'
      <4>1. CASE last.head.available
        <5>1. /\ draft'.head.sampled /\ draft'.head.available /\ draft'.head.stale
              /\ draft'.head.sample = last.head.sample
              /\ draft'.tasks.from = last.tasks.from
          BY <1>9, <2>2, <4>1 DEF Merge, Merged, Metrics, Heads
        <5>2. /\ IsLastGood(last.head.sample, round) /\ round \notin good
              /\ ~NoneGood(round)
          BY <1>3, <1>7, <1>8, <4>1 DEF IsLastGood, NoneGood
        <5> QED
          BY <1>3, <1>6, <3>1, <4>1, <5>1, <5>2
             DEF DraftInv, InRound, Describes, HeadDescribes, IsLastGood, NoneGood
      <4>2. CASE ~last.head.available
        <5>1. /\ draft'.head.sampled /\ ~draft'.head.available /\ ~draft'.head.stale
              /\ draft'.head.sample = round /\ draft'.tasks.from = round
          BY <1>5, <1>9, <2>2, <4>2 DEF Merge, Merged, Metrics, Heads
        <5>2. NoneGood(round) /\ round \notin good
          BY <1>6, <4>2 DEF NoneGood
        <5> QED
          BY <1>3, <3>1, <5>1, <5>2
             DEF DraftInv, InRound, Describes, HeadDescribes, IsLastGood, NoneGood
      <4> QED
        BY <4>1, <4>2
    <3> QED
      BY <3>2, <3>3
  <2> QED
    BY <1>5, <2>1, <2>2
<1>11. good' = good \/ good' = good \cup {round}
  BY DEF Merge
<1>12. SharedInv' /\ CachedInv'
  <2>1. \A n \in Nat : n < round =>
          /\ NoneGood(n)' <=> NoneGood(n)
          /\ n \in good' <=> n \in good
          /\ \A s \in Nat : s <= n => (IsLastGood(s, n)' <=> IsLastGood(s, n))
    <3>1. CASE good' = good
      BY <3>1 DEF NoneGood, IsLastGood
    <3>2. CASE good' = good \cup {round}
      BY <1>3, <3>2, LaterRound DEF IInv
    <3> QED
      BY <1>11, <3>1, <3>2
  <2>2. ASSUME NEW m \in Metrics, NEW n \in Nat, n < round, Describes(m, n)
        PROVE  /\ m.head.sampled <=> n > 0
               /\ m.head.available <=> ~NoneGood(n)'
               /\ m.head.stale <=> n \notin good' /\ ~NoneGood(n)'
               /\ m.head.available => IsLastGood(m.head.sample, n)'
               /\ ~m.head.available => m.head.sample = n
               /\ m.tasks.from = m.head.sample
    <3>1. m.head.sample \in Nat
      BY DEF Metrics, Heads
    <3>2. m.head.available => m.head.sample <= n
      BY <2>2 DEF Describes, HeadDescribes, IsLastGood
    <3> QED
      BY <2>1, <2>2, <3>1, <3>2 DEF Describes, HeadDescribes
  <2>3. shared \in Metrics /\ cached \in Metrics /\ shared' = shared /\ cached' = cached
        /\ pub' = pub /\ seen' = seen /\ upc' = upc /\ cpc' # "writeTasks" /\ cpc # "writeTasks"
    BY DEF IInv, TypeOK, Merge
  <2>4. SharedInv'
    BY <1>3, <2>2, <2>3 DEF IInv, SharedInv, Describes, HeadDescribes, NoneGood, IsLastGood
  <2>5. CachedInv'
    BY <1>3, <2>2, <2>3 DEF IInv, CachedInv, Describes, HeadDescribes, NoneGood, IsLastGood
  <2> QED
    BY <2>4, <2>5
<1>13. ViewInv'
  BY ViewKept DEF IInv, Merge
<1> QED
  BY <1>1, <1>2, <1>4, <1>10, <1>12, <1>13 DEF IInv

\* The collector publishes its draft under the mutex.
LEMMA PublishSteps ==
  ASSUME IInv, LockShared \/ WriteHead \/ WriteTasks
  PROVE  IInv'
<1> USE DEF collectorVars, uiVars
<1>1. TypeOK'
  BY StepTypeOK DEF IInv, Next, CollectorCode
<1>2. MutexInv' /\ RoundInv'
  BY DEF IInv, TypeOK, MutexInv, RoundInv, InRound, Publishing, Completed, LockShared,
         WriteHead, WriteTasks
<1>3. DraftInv' /\ LastInv'
  BY DEF IInv, DraftInv, LastInv, InRound, Publishing, Completed, Describes,
         HeadDescribes, NoneGood, IsLastGood, LockShared, WriteHead, WriteTasks
<1>4. SharedInv' /\ CachedInv'
  <2>1. CASE LockShared
    BY <2>1 DEF IInv, SharedInv, CachedInv, Describes, HeadDescribes, NoneGood,
                IsLastGood, LockShared
  <2>2. CASE WriteHead
    <3>1. shared'.head = draft.head /\ draft' = draft
      BY <2>2 DEF IInv, TypeOK, Metrics, WriteHead
    <3>2. upc # "copyTasks"
      BY <2>2 DEF IInv, MutexInv, WriteHead
    <3> QED
      BY <2>2, <3>1, <3>2 DEF IInv, SharedInv, CachedInv, Describes, HeadDescribes,
                              NoneGood, IsLastGood, WriteHead
  <2>3. CASE WriteTasks
    <3>1. /\ shared'.head = shared.head /\ shared'.tasks = draft.tasks
          /\ shared.head = draft.head
      BY <2>3 DEF IInv, TypeOK, Metrics, SharedInv, WriteTasks
    <3>2. Describes(draft, round)
      BY <2>3 DEF IInv, DraftInv, Publishing, WriteTasks
    <3>3. upc # "copyTasks"
      BY <2>3 DEF IInv, MutexInv, WriteTasks
    <3> QED
      BY <2>3, <3>1, <3>2, <3>3 DEF IInv, SharedInv, CachedInv, Describes,
                                HeadDescribes, NoneGood, IsLastGood, WriteTasks
  <2> QED
    BY <2>1, <2>2, <2>3
<1>5. ViewInv'
  BY ViewKept DEF IInv, LockShared, WriteHead, WriteTasks
<1> QED
  BY <1>1, <1>2, <1>3, <1>4, <1>5 DEF IInv

\* The owner's thread copies what was published, under the mutex, and shows it.
LEMMA SampleSteps ==
  ASSUME IInv, \/ SampleUnprivileged \/ LockForCopy \/ CopyHead \/ CopyTasks
               \/ Apply \/ Quit
  PROVE  IInv'
<1> USE DEF collectorVars, uiVars
<1>1. TypeOK'
  BY StepTypeOK DEF IInv, Next, Sampling
<1>2. MutexInv' /\ RoundInv'
  BY DEF IInv, TypeOK, MutexInv, RoundInv, InRound, Publishing, Completed,
         SampleUnprivileged, LockForCopy, CopyHead, CopyTasks, Apply, Quit
<1>3. DraftInv' /\ LastInv'
  BY DEF IInv, DraftInv, LastInv, InRound, Publishing, Completed, Describes,
         HeadDescribes, NoneGood, IsLastGood,
         SampleUnprivileged, LockForCopy, CopyHead, CopyTasks, Apply, Quit
<1>4. SharedInv'
  BY DEF IInv, SharedInv, Describes, HeadDescribes, NoneGood, IsLastGood,
         SampleUnprivileged, LockForCopy, CopyHead, CopyTasks, Apply, Quit
<1>5. CachedInv'
  <2>1. CASE CopyHead
    BY <2>1 DEF IInv, TypeOK, Metrics, CachedInv, CopyHead
  <2>2. CASE CopyTasks
    <3>1. cached'.head = shared.head /\ cached'.tasks = shared.tasks
      BY <2>2 DEF IInv, TypeOK, Metrics, CachedInv, CopyTasks
    <3>2. Describes(shared, pub)
      BY <2>2 DEF IInv, MutexInv, SharedInv, CopyTasks
    <3> QED
      BY <2>2, <3>1, <3>2 DEF CachedInv, Describes, HeadDescribes, NoneGood, IsLastGood,
                              CopyTasks
  <2>3. CASE SampleUnprivileged \/ LockForCopy \/ Apply \/ Quit
    BY <2>3 DEF IInv, CachedInv, Describes, HeadDescribes, NoneGood, IsLastGood,
                SampleUnprivileged, LockForCopy, Apply, Quit
  <2> QED
    BY <2>1, <2>2, <2>3
<1>6. ViewInv'
  <2>1. CASE Apply
    BY <2>1 DEF ViewInv, Shown, Status, Cell, Apply
  <2>2. CASE SampleUnprivileged \/ LockForCopy \/ CopyHead \/ CopyTasks \/ Quit
    <3>1. root' = FALSE \/ upc' # "idle"
      BY <2>2 DEF IInv, TypeOK, SampleUnprivileged, LockForCopy, CopyHead, CopyTasks,
                  Quit
    <3> QED
      BY <3>1 DEF ViewInv, Shown
  <2> QED
    BY <2>1, <2>2
<1> QED
  BY <1>1, <1>2, <1>3, <1>4, <1>5, <1>6 DEF IInv

LEMMA StatusCases ==
  ASSUME NEW h, h.sampled \in BOOLEAN, h.available \in BOOLEAN, h.stale \in BOOLEAN
  PROVE  /\ Status(h) = "Waiting" <=> ~h.available /\ ~h.sampled
         /\ Status(h) = "Available" <=> h.available /\ ~h.stale
         /\ Status(h) = "Stale" <=> h.available /\ h.stale
         /\ Status(h) \in FailedStatuses <=> ~h.available /\ h.sampled
<1>1. CASE h.available /\ h.stale
  BY <1>1 DEF Status, FailedStatuses
<1>2. CASE h.available /\ ~h.stale
  BY <1>2 DEF Status, FailedStatuses
<1>3. CASE ~h.available /\ ~h.sampled
  BY <1>3 DEF Status, FailedStatuses
<1>4. CASE ~h.available /\ h.sampled
  BY <1>4 DEF Status, FailedStatuses
<1> QED
  BY <1>1, <1>2, <1>3, <1>4

LEMMA StepIInv == IInv /\ [Next]_vars => IInv'
BY ControlSteps, CollectSteps, MergeStep, PublishSteps, SampleSteps
   DEF Next, CollectorCode, Sampling, Gone

LEMMA Invariance == SlowSpec => []IInv
BY InitIInv, StepIInv, PTL DEF SlowSpec

-----------------------------------------------------------------------------
(***************************************************************************)
(* What follows from it.                                                   *)
(***************************************************************************)

\* Every variable keeps its type, in every run of the two threads.
THEOREM TypeCorrect == SlowSpec => []TypeOK
BY Invariance, PTL DEF IInv

\* sample() never works from a torn copy of the collector's metrics.
THEOREM CopyIsCoherent == SlowSpec => []CoherentCopy
<1>1. IInv => CoherentCopy
  BY DEF IInv, CachedInv, Describes, CoherentCopy
<1> QED
  BY <1>1, Invariance, PTL

\* The status shown is the one the published rounds call for.
THEOREM StatusIsHistory == SlowSpec => []StatusTellsHistory
<1>1. ASSUME IInv, Shown PROVE
        /\ view.status = "Waiting" <=> seen = 0
        /\ view.status = "Available" <=> seen \in good
        /\ view.status = "Stale" <=> seen \notin good /\ ~NoneGood(seen)
        /\ view.status \in FailedStatuses <=> seen > 0 /\ NoneGood(seen)
        /\ view.status \in {"Available", "Stale"} => IsLastGood(view.sample, seen)
  <2> DEFINE h == cached.head
  <2>1. view.status = Status(h) /\ view.sample = h.sample
    BY <1>1 DEF IInv, ViewInv
  <2>2. HeadDescribes(h, seen)
    BY <1>1 DEF IInv, CachedInv, Describes, Shown
  <2>3. h.sampled \in BOOLEAN /\ h.available \in BOOLEAN /\ h.stale \in BOOLEAN
    BY <1>1 DEF IInv, TypeOK, Metrics, Heads
  <2>4. seen \in Nat /\ (seen \in good => ~NoneGood(seen))
    BY <1>1 DEF IInv, TypeOK, NoneGood
  <2>5. seen = 0 => NoneGood(seen)
    BY <1>1 DEF IInv, TypeOK, NoneGood
  <2> HIDE DEF h
  <2> QED
    BY <2>1, <2>2, <2>3, <2>4, <2>5, StatusCases DEF HeadDescribes
<1>2. IInv => StatusTellsHistory
  BY <1>1 DEF StatusTellsHistory
<1> QED
  BY <1>2, Invariance, PTL

\* The column texts say what the published rounds were: "wait" that there was
\* none, "stale" that the last of them failed after a good one, "n/a" that the
\* last was good or that none was good at all; a value comes from the last good
\* round, or from the latest one where none was good.  That "n/a" does not mean
\* that root sampling succeeded is what NotAvailableMeansSampled shows.
THEOREM CellsAreHistory == SlowSpec => []CellsTellHistory
<1>1. ASSUME IInv, Shown, NEW p \in Pids, NEW c \in Columns
      PROVE  LET text == view.cells[p][c] IN
             /\ text = "wait" => seen = 0
             /\ text = "stale" => seen \notin good /\ ~NoneGood(seen)
             /\ text = "n/a" => seen \in good \/ (seen > 0 /\ NoneGood(seen))
             /\ text = "value" =>
                  IF NoneGood(seen) THEN cached.tasks.from = seen
                                    ELSE IsLastGood(cached.tasks.from, seen)
  <2> DEFINE h == cached.head
  <2>1. view.cells[p][c] = Cell(cached, p, c)
    BY <1>1 DEF IInv, ViewInv
  <2>2. HeadDescribes(h, seen) /\ cached.tasks.from = h.sample
    BY <1>1 DEF IInv, CachedInv, Describes, Shown
  <2>3. h.sampled \in BOOLEAN /\ h.available \in BOOLEAN /\ h.stale \in BOOLEAN
    BY <1>1 DEF IInv, TypeOK, Metrics, Heads
  <2>4. seen \in Nat /\ (seen \in good => ~NoneGood(seen))
    BY <1>1 DEF IInv, TypeOK, NoneGood
  <2>5. Status(h) = "Stale" <=> h.available /\ h.stale
    BY <2>3, StatusCases
  <2>6. /\ Cell(cached, p, c) = "wait" => ~h.sampled
        /\ Cell(cached, p, c) = "stale" => Status(h) = "Stale"
        /\ Cell(cached, p, c) = "n/a" => h.sampled /\ Status(h) # "Stale"
    BY DEF Cell
  <2> HIDE DEF h
  <2> QED
    BY <2>1, <2>2, <2>3, <2>4, <2>5, <2>6 DEF HeadDescribes
<1>2. IInv => CellsTellHistory
  BY <1>1 DEF CellsTellHistory
<1> QED
  BY <1>2, Invariance, PTL

\* Two descriptions of the history, the second of no fewer rounds.
LEMMA LaterDescription ==
  ASSUME NEW h \in Heads, NEW k \in Heads, NEW m \in Nat, NEW n \in Nat, m <= n,
         good \subseteq Nat, HeadDescribes(h, m), HeadDescribes(k, n)
  PROVE  k.sample >= h.sample /\ (h.available => k.available)
<1>1. h.sample \in Nat /\ k.sample \in Nat
  BY MetricsAssumption DEF MetricsAssumption, Heads
<1>2. CASE NoneGood(m) /\ NoneGood(n)
  BY <1>1, <1>2 DEF HeadDescribes
<1>3. CASE NoneGood(m) /\ ~NoneGood(n)
  BY <1>1, <1>3 DEF HeadDescribes, IsLastGood, NoneGood
<1>4. CASE ~NoneGood(m)
  <2>1. ~NoneGood(n)
    BY <1>4 DEF NoneGood
  <2>2. IsLastGood(h.sample, m) /\ IsLastGood(k.sample, n) /\ k.available
    BY <1>4, <2>1 DEF HeadDescribes
  <2> QED
    BY <1>1, <2>2 DEF IsLastGood
<1> QED
  BY <1>2, <1>3, <1>4

\* Copies only get newer, and available telemetry stays available.
THEOREM CopiesNeverGoBack == SlowSpec => NeverGoesBack
<1> USE DEF collectorVars, uiVars
<1>1. ASSUME IInv, [Next]_vars
      PROVE  /\ cached'.head.sample >= cached.head.sample
             /\ cached.head.available => cached'.head.available
  <2>1. cached.head \in Heads /\ shared.head \in Heads /\ cached \in Metrics
        /\ cached.head.sample \in Nat
    BY <1>1, MetricsAssumption DEF MetricsAssumption, IInv, TypeOK, Metrics, Heads
  <2>2. CASE CopyHead
    <3>1. cached'.head = shared.head
      BY <2>1, <2>2 DEF CopyHead, Metrics
    <3>2. HeadDescribes(cached.head, seen) /\ HeadDescribes(shared.head, pub)
      BY <1>1, <2>2 DEF IInv, CachedInv, SharedInv, MutexInv, Describes, CopyHead
    <3>3. seen \in Nat /\ pub \in Nat /\ seen <= pub /\ good \subseteq Nat
      BY <1>1 DEF IInv, TypeOK, RoundInv
    <3> QED
      BY <2>1, <3>1, <3>2, <3>3, LaterDescription
  <2>3. CASE CopyTasks
    <3>1. cached'.head = cached.head
      BY <2>1, <2>3 DEF CopyTasks, Metrics
    <3> QED
      BY <2>1, <3>1
  <2>4. CASE cached' = cached
    BY <2>1, <2>4
  <2>5. CopyHead \/ CopyTasks \/ cached' = cached
    BY <1>1 DEF Next, Commands, CollectorCode, Sampling, Gone, vars, TempFileFails,
         CollectPlist, CollectTasks, CollectFallback, StopSeen, StartRound, Merge,
         LockShared, WriteHead, WriteTasks, SleepStep, SleepOver,
         SampleUnprivileged, StartSample, LockForCopy, Apply, Quit, Join
  <2> QED
    BY <2>2, <2>3, <2>4, <2>5
<1>2. ASSUME IInv, [Next]_vars
      PROVE  [/\ cached'.head.sample >= cached.head.sample
              /\ cached.head.available => cached'.head.available]_vars
  BY <1>1, <1>2
<1> QED
  BY <1>2, Invariance, PTL DEF SlowSpec, NeverGoesBack

-----------------------------------------------------------------------------
(***************************************************************************)
(* The refinement of TelemetryBoard.                                       *)
(***************************************************************************)

\* The thread that samples is not told to quit while it samples; without root
\* there is no collector and nothing to copy.
ThreadsInv ==
  /\ stop => upc \in {"join", "gone"}
  /\ ~root => cpc = "none" /\ round = 0 /\ upc \in {"idle", "join", "gone"}

\* The board's log: the outcomes of the rounds published.
Log == [i \in 1..pub |-> IF i \in good THEN "ok" ELSE "failed"]

LEMMA ThreadsAlways == SlowSpec => []ThreadsInv
<1>1. Init => ThreadsInv
  BY DEF Init, ThreadsInv
<1>2. ThreadsInv /\ [Next]_vars => ThreadsInv'
  <2> SUFFICES ASSUME ThreadsInv, [Next]_vars PROVE ThreadsInv'
    OBVIOUS
  <2> USE DEF ThreadsInv, collectorVars, uiVars
  <2>1. CASE Commands
    <3>1. UNCHANGED <<root, stop, upc, round>> /\ cpc # "none"
      BY <2>1 DEF Commands, TempFileFails, CollectPlist, CollectTasks, CollectFallback
    <3> QED
      BY <3>1
  <2>2. CASE CollectorCode
    BY <2>2 DEF CollectorCode, StopSeen, StartRound, Merge, LockShared, WriteHead,
                WriteTasks, SleepStep, SleepOver
  <2>3. CASE Sampling
    BY <2>3 DEF Sampling, SampleUnprivileged, StartSample, LockForCopy, CopyHead,
                CopyTasks, Apply
  <2>4. CASE Quit \/ Join
    BY <2>4 DEF Quit, Join
  <2>5. CASE UNCHANGED vars
    BY <2>5 DEF vars
  <2> QED
    BY <2>1, <2>2, <2>3, <2>4, <2>5 DEF Next, Gone
<1> QED
  BY <1>1, <1>2, PTL DEF SlowSpec

LEMMA BoardMax ==
  ASSUME NEW S, S \subseteq Nat, NEW m \in S, \A i \in S : i <= m
  PROVE  Board!Max(S) = m
<1>1. m \in Nat /\ \A i \in S : m >= i
  OBVIOUS
<1>2. \E x \in S : \A y \in S : x >= y
  BY <1>1
<1>3. Board!Max(S) \in S /\ \A y \in S : Board!Max(S) >= y
  BY <1>2 DEF Board!Max
<1>4. Board!Max(S) \in Nat /\ Board!Max(S) >= m /\ Board!Max(S) <= m
  BY <1>1, <1>3
<1> QED
  BY <1>1, <1>4

\* The board's log at a round published.
LEMMA BoardSuccesses ==
  ASSUME NEW n \in Nat, pub \in Nat, n <= pub
  PROVE  Board!Successes(n) = {i \in 1..n : i \in good}
BY DEF Board!Successes

\* A head that describes the first n rounds, with its status, is their summary.
LEMMA HeadIsSummary ==
  ASSUME NEW h \in Heads, NEW n \in Nat, pub \in Nat, n <= pub, good \subseteq Nat \ {0},
         HeadDescribes(h, n)
  PROVE  [class |-> Class(Status(h)), sample |-> h.sample] = Board!Summary(n)
<1> DEFINE S == {i \in 1..n : i \in good} \cup {0}
<1>1. Board!Summary(n) =
        CASE n = 0             -> [class |-> "waiting", sample |-> 0]
          [] Board!Max(S) = n /\ n > 0 -> [class |-> "fresh",   sample |-> n]
          [] Board!Max(S) \in 1..(n-1) -> [class |-> "stale",   sample |-> Board!Max(S)]
          [] Board!Max(S) = 0 /\ n > 0 -> [class |-> "failed",  sample |-> n]
  BY BoardSuccesses DEF Board!Summary
<1>2. h.sampled \in BOOLEAN /\ h.available \in BOOLEAN /\ h.stale \in BOOLEAN
      /\ h.sample \in Nat
  BY DEF Heads
<1>3. S \subseteq Nat /\ 0 \in S
  OBVIOUS
<1>6. /\ Status(h) = "Waiting" <=> ~h.available /\ ~h.sampled
      /\ Status(h) = "Available" <=> h.available /\ ~h.stale
      /\ Status(h) = "Stale" <=> h.available /\ h.stale
      /\ Status(h) \in FailedStatuses <=> ~h.available /\ h.sampled
  BY <1>2, StatusCases
<1>4. CASE NoneGood(n)
  <2>1. \A i \in S : i <= 0
    BY <1>4 DEF NoneGood
  <2>2. Board!Max(S) = 0
    BY <1>3, <2>1, BoardMax
  <2>3. ~h.available /\ h.sample = n /\ (h.sampled <=> n > 0)
    BY <1>4 DEF HeadDescribes
  <2>4. CASE n = 0
    <3>1. Status(h) = "Waiting"
      BY <2>3, <2>4, <1>6
    <3>2. Class(Status(h)) = "waiting"
      BY <3>1 DEF Class, FailedStatuses
    <3>3. Board!Summary(n) = [class |-> "waiting", sample |-> 0]
      BY <1>1, <2>4
    <3> QED
      BY <2>3, <2>4, <3>2, <3>3
  <2>5. CASE n > 0
    <3>1. Status(h) \in FailedStatuses
      BY <2>3, <2>5, <1>6
    <3>2. Class(Status(h)) = "failed"
      BY <3>1 DEF Class, FailedStatuses
    <3>3. n # 0 /\ ~(Board!Max(S) = n /\ n > 0) /\ Board!Max(S) \notin 1..(n - 1)
      BY <2>2, <2>5
    <3>4. Board!Summary(n) = [class |-> "failed", sample |-> n]
      BY <1>1, <2>2, <2>5, <3>3
    <3> QED
      BY <2>3, <3>2, <3>4
  <2> QED
    BY <2>4, <2>5
<1>5. CASE ~NoneGood(n)
  <2>1. h.available /\ IsLastGood(h.sample, n) /\ (h.stale <=> n \notin good)
    BY <1>5 DEF HeadDescribes
  <2>2. h.sample \in 1..n /\ h.sample \in good /\ \A i \in S : i <= h.sample
    BY <1>2, <2>1 DEF IsLastGood
  <2>3. Board!Max(S) = h.sample
    BY <1>3, <2>2, BoardMax
  <2>4. CASE n \in good
    <3>1. h.sample = n
      BY <2>1, <2>2, <2>4 DEF IsLastGood
    <3>2. h.available /\ ~h.stale
      BY <2>1, <2>4
    <3>3. Status(h) = "Available"
      BY <3>2, <1>6
    <3>4. Class(Status(h)) = "fresh"
      BY <3>3 DEF Class, FailedStatuses
    <3>5. n > 0 /\ Board!Max(S) = n
      BY <2>2, <2>3, <3>1
    <3>6. Board!Summary(n) = [class |-> "fresh", sample |-> n]
      BY <1>1, <3>5
    <3> QED
      BY <3>1, <3>4, <3>6
  <2>5. CASE n \notin good
    <3>1. h.sample \in 1..(n - 1)
      BY <2>2, <2>5
    <3>2. h.available /\ h.stale
      BY <2>1, <2>5
    <3>3. Status(h) = "Stale"
      BY <3>2, <1>6
    <3>4. Class(Status(h)) = "stale"
      BY <3>3 DEF Class, FailedStatuses
    <3>5. n # 0 /\ ~(Board!Max(S) = n /\ n > 0) /\ Board!Max(S) \in 1..(n - 1)
      BY <2>3, <3>1
    <3>6. Board!Summary(n) = [class |-> "stale", sample |-> Board!Max(S)]
      BY <1>1, <3>5
    <3> QED
      BY <2>3, <3>4, <3>6
  <2> QED
    BY <2>4, <2>5
<1> QED
  BY <1>4, <1>5

LEMMA NothingPublished == Board!Summary(0) = [class |-> "waiting", sample |-> 0]
BY DEF Board!Summary

LEMMA BoardInitial == Init => Board!BoardInit
<1> SUFFICES ASSUME Init PROVE Board!BoardInit
  OBVIOUS
<1>1. Log = <<>>
  BY DEF Init, Log
<1>2. Class(view.status) = "waiting" /\ view.sample = 0
  BY DEF Init, Class, FailedStatuses
<1> QED
  BY <1>1, <1>2, NothingPublished DEF Init, Log, Board!BoardInit

\* The steps nobody outside sees.
LEMMA HiddenStep ==
  ASSUME UNCHANGED <<pub, good, seen, view, stop>>
  PROVE  UNCHANGED Board!boardVars
BY DEF Board!boardVars

LEMMA BoardStep ==
  ASSUME IInv, ThreadsInv, [Next]_vars
  PROVE  [Board!BoardNext]_Board!boardVars
<1> USE DEF collectorVars, uiVars
<1>0. /\ pub \in Nat /\ seen \in Nat /\ seen <= pub /\ round \in 0..MaxRounds
      /\ good \subseteq Nat \ {0} /\ MaxRounds \in Nat
  BY MetricsAssumption DEF MetricsAssumption, IInv, TypeOK, RoundInv
<1>1. CASE Merge
  <2>1. pub = round - 1 /\ good' \ {round} = good \ {round} /\ pub' = pub
    BY <1>1 DEF IInv, RoundInv, InRound, Publishing, Merge
  <2>2. \A i \in 1..pub : i \in good' <=> i \in good
    BY <1>0, <2>1
  <2>3. Log' = Log
    BY <2>1, <2>2 DEF Log
  <2> QED
    BY <1>1, <2>3 DEF Board!boardVars, Merge, Log
<1>2. CASE WriteTasks
  <2>1. pub' = pub + 1 /\ pub < MaxRounds /\ good' = good
    BY <1>0, <1>2 DEF IInv, RoundInv, InRound, Publishing, WriteTasks
  <2>2. Log' = Append(Log, IF pub + 1 \in good THEN "ok" ELSE "failed")
    BY <1>0, <2>1 DEF Log
  <2>3. Len(Log) = pub
    BY <1>0 DEF Log
  <2>4. Board!Publish
    BY <1>2, <2>1, <2>2, <2>3 DEF Board!Publish, WriteTasks, Log
  <2> QED
    BY <2>4 DEF Board!BoardNext
<1>3. CASE CopyTasks
  <2>1. Board!Take
    BY <1>0, <1>3 DEF Board!Take, CopyTasks, ThreadsInv
  <2> QED
    BY <2>1 DEF Board!BoardNext
<1>4. CASE Apply
  <2>1. HeadDescribes(cached.head, seen) /\ cached.head \in Heads
    BY <1>4 DEF IInv, TypeOK, Metrics, CachedInv, Describes, Apply
  <2>2. [class |-> Class(view.status), sample |-> view.sample]' = Board!Summary(seen)
    BY <1>0, <1>4, <2>1, HeadIsSummary DEF Apply
  <2>3. Board!Show
    BY <1>4, <2>2 DEF Board!Show, Apply, ThreadsInv
  <2> QED
    BY <2>3 DEF Board!BoardNext
<1>5. CASE SampleUnprivileged
  <2>1. seen = 0 /\ ~stop
    BY <1>0, <1>5 DEF IInv, RoundInv, InRound, Publishing, ThreadsInv, SampleUnprivileged
  <2>2. [class |-> Class(view.status), sample |-> view.sample]' = Board!Summary(0)
    <3>1. (Class(view.status))' = "waiting" /\ view'.sample = 0
      BY <1>5 DEF SampleUnprivileged, Class, FailedStatuses
    <3> QED
      BY <3>1, NothingPublished
  <2>3. Board!Show
    BY <1>5, <2>1, <2>2 DEF Board!Show, SampleUnprivileged
  <2> QED
    BY <2>3 DEF Board!BoardNext
<1>6. CASE Quit
  <2>1. Board!Close
    BY <1>6 DEF Board!Close, Quit
  <2> QED
    BY <2>1 DEF Board!BoardNext
<1>7. CASE \/ Commands \/ StopSeen \/ StartRound \/ LockShared \/ WriteHead \/ SleepStep
           \/ SleepOver \/ StartSample \/ LockForCopy \/ CopyHead \/ Join \/ UNCHANGED vars
  <2>1. UNCHANGED <<pub, good, seen, view, stop>>
    BY <1>7 DEF Commands, TempFileFails, CollectPlist, CollectTasks, CollectFallback,
         StopSeen, StartRound, LockShared, WriteHead, SleepStep, SleepOver, StartSample,
         LockForCopy, CopyHead, Join, vars
  <2> QED
    BY <2>1, HiddenStep
<1> QED
  BY <1>1, <1>2, <1>3, <1>4, <1>5, <1>6, <1>7 DEF Next, CollectorCode, Sampling, Gone

\* The two threads with their mutex, copies and partial writes do nothing that
\* TelemetryBoard does not: what the screen shows is at every moment a summary
\* of the first rounds published, taken in at one instant.
THEOREM BoardImplemented == SlowSpec => Board!BoardSafety
BY BoardInitial, BoardStep, Invariance, ThreadsAlways, PTL
   DEF SlowSpec, Board!BoardSafety
=============================================================================
