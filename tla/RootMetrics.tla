---------------------------- MODULE RootMetrics ----------------------------
(***************************************************************************)
(* The root-only telemetry of DarwinSampler (src/platform/                 *)
(* darwin_sampler.cpp).  A collector thread, root_metrics_loop, runs       *)
(* powermetrics two or three times a round, falls back to its last success *)
(* when a round fails and puts the outcome in shared_root_metrics_ under a *)
(* mutex.  The thread that owns the sampler copies it in sample() and      *)
(* derives the status and the MIX / IO / PWR texts from the copy; its      *)
(* destructor stops the collector and joins it.                            *)
(*                                                                         *)
(* A RootMetrics struct is a head (flags, reason, number of the round that *)
(* measured it) and the task data (per column, the pids with a value, and  *)
(* the round that measured them).  A copy under the mutex takes two steps, *)
(* so that a torn copy is a possible outcome of a broken protocol.         *)
(***************************************************************************)
EXTENDS Naturals, CommandResult

CONSTANTS
  Pids,             \* processes that powermetrics may report on
  Columns,          \* process_core_mix, process_io, process_power
  FallbackColumns,  \* those the fallback command can fill: no IO
  Results,          \* results of a powermetrics command (see CommandRunner)
  SleepSteps,       \* max(1, root_sample_ms_ / 200)
  MaxRounds         \* bound on the rounds collected

ASSUME MetricsAssumption ==
  /\ FallbackColumns \subseteq Columns
  /\ Results \subseteq CommandResults
  /\ SleepSteps \in Nat \ {0}
  /\ MaxRounds \in Nat

TempFailed  == "temporary file failed"
ParseFailed == "parse failed"
FailureTexts == Reasons \cup {TempFailed, ParseFailed}

Rows == [Columns -> SUBSET Pids]
NoRows == [c \in Columns |-> {}]

Heads == [sampled : BOOLEAN, available : BOOLEAN, stale : BOOLEAN,
          reason : FailureTexts, sample : 0..MaxRounds]
TaskData == [from : 0..MaxRounds, rows : Rows]
Metrics == [head : Heads, tasks : TaskData]

\* A default-constructed RootMetrics.
NoMetrics ==
  [head |-> [sampled |-> FALSE, available |-> FALSE, stale |-> FALSE,
             reason |-> NoReason, sample |-> 0],
   tasks |-> [from |-> 0, rows |-> NoRows]]

VARIABLES
  root,    \* capabilities.root_mode: geteuid() == 0
  stop,    \* stop_root_metrics_
  mutex,   \* root_metrics_mutex_: "free", "collector" or "ui"
  cpc,     \* where the collector thread is; "none" when never started
  round,   \* rounds begun
  slept,   \* i of the sleep loop
  draft,   \* the collector's local metrics
  last,    \* last_success
  shared,  \* shared_root_metrics_
  upc,     \* where the thread that owns the sampler is
  cached,  \* cached_root_metrics_
  view,    \* snapshot_: root_process_status, round behind it, column texts
  good,    \* history: the rounds that succeeded
  pub,     \* history: the last round published
  seen     \* history: the round published last when cached was copied

collectorVars == <<cpc, round, slept, draft, last>>
uiVars == <<upc, cached, view>>
vars == <<root, stop, mutex, collectorVars, shared, uiVars, good, pub, seen>>

-----------------------------------------------------------------------------
(***************************************************************************)
(* What the screen shows.                                                  *)
(***************************************************************************)

\* apply_root_metrics; the two words it searches the reason for occur in no
\* other reason.
Status(head) ==
  CASE head.available /\ head.stale  -> "Stale"
    [] head.available /\ ~head.stale -> "Available"
    [] ~head.available /\ ~head.sampled -> "Waiting"
    [] ~head.available /\ head.sampled ->
         IF head.reason = "permission denied" THEN "PermissionDenied"
         ELSE IF head.reason = ParseFailed THEN "ParseFailed"
         ELSE "Unavailable"

\* Mutant of Cell: "wait" until a round succeeds.
CellWaitsForSuccess(m, p, c) ==
  IF p \in m.tasks.rows[c] THEN "value"
  ELSE IF Status(m.head) = "Stale" THEN "stale"
  ELSE IF ~m.head.available THEN "wait"
  ELSE "n/a"

\* The text of column c for process p in sample_processes.
Cell(m, p, c) ==
  IF p \in m.tasks.rows[c] THEN "value"
  ELSE IF Status(m.head) = "Stale" THEN "stale"
  ELSE IF ~m.head.sampled THEN "wait"
  ELSE "n/a"

FailedStatuses == {"PermissionDenied", "ParseFailed", "Unavailable"}
Statuses ==
  {"unsampled", "RequiresRoot", "Waiting", "Available", "Stale"} \cup FailedStatuses
Cells == [Pids -> [Columns -> {"root", "wait", "stale", "n/a", "value"}]]

-----------------------------------------------------------------------------
Init ==
  /\ root \in BOOLEAN
  /\ stop = FALSE
  /\ mutex = "free"
  /\ cpc = IF root THEN "test" ELSE "none"
  /\ round = 0
  /\ slept = 0
  /\ draft = NoMetrics
  /\ last = NoMetrics
  /\ shared = NoMetrics
  /\ upc = "idle"
  /\ cached = NoMetrics
  /\ view = [status |-> "unsampled", sample |-> 0,
             cells |-> [p \in Pids |-> [c \in Columns |-> "root"]]]
  /\ good = {}
  /\ pub = 0
  /\ seen = 0

(***************************************************************************)
(* The collector: one round of collect_root_metrics, then the merge, the   *)
(* publication and the sleep of root_metrics_loop.                         *)
(***************************************************************************)

StopSeen ==
  /\ cpc = "test"
  /\ stop
  /\ cpc' = "exited"
  /\ UNCHANGED <<root, stop, mutex, round, slept, draft, last, shared, uiVars,
                 good, pub, seen>>

\* Mutant of StartRound: the lock_guard covers the whole round.
StartRoundLocked ==
  /\ cpc = "test"
  /\ ~stop
  /\ round < MaxRounds
  /\ mutex = "free"
  /\ mutex' = "collector"
  /\ cpc' = "plist"
  /\ round' = round + 1
  /\ draft' = [head  |-> [NoMetrics.head EXCEPT !.sampled = TRUE,
                                                !.sample = round + 1],
               tasks |-> [from |-> round + 1, rows |-> NoRows]]
  /\ UNCHANGED <<root, stop, slept, last, shared, uiVars, good, pub, seen>>

StartRound ==
  /\ cpc = "test"
  /\ ~stop
  /\ round < MaxRounds
  /\ cpc' = "plist"
  /\ round' = round + 1
  /\ draft' = [head  |-> [NoMetrics.head EXCEPT !.sampled = TRUE,
                                                !.sample = round + 1],
               tasks |-> [from |-> round + 1, rows |-> NoRows]]
  /\ UNCHANGED <<root, stop, mutex, slept, last, shared, uiVars, good, pub, seen>>

\* The first failure of a round names it.
FirstReason(why) ==
  IF draft.head.reason = NoReason THEN why ELSE draft.head.reason

TempFileFails ==
  /\ cpc = "plist"
  /\ draft' = [draft EXCEPT !.head.reason = TempFailed]
  /\ cpc' = "tasks"
  /\ UNCHANGED <<root, stop, mutex, round, slept, last, shared, uiVars, good,
                 pub, seen>>

\* The plist command; a success counts only when a dictionary is parsed.
CollectPlist ==
  /\ cpc = "plist"
  /\ \E r \in Results, parsed \in BOOLEAN :
       draft' = [draft EXCEPT !.head.available = r.ok /\ parsed,
                              !.head.reason = IF r.ok THEN NoReason ELSE r.reason]
  /\ cpc' = "tasks"
  /\ UNCHANGED <<root, stop, mutex, round, slept, last, shared, uiVars, good,
                 pub, seen>>

\* The task command, whose output is parsed whether or not it succeeded; one
\* that never ran has none.
CollectTasks ==
  /\ cpc = "tasks"
  /\ \E r \in Results, rows \in Rows :
       /\ r.reason \in SpawnReasons => rows = NoRows
       /\ draft' = [draft EXCEPT !.tasks.rows = rows,
                                 !.head.reason = IF r.ok THEN @ ELSE FirstReason(r.reason)]
       /\ cpc' = IF rows = NoRows THEN "fallback" ELSE "merge"
  /\ UNCHANGED <<root, stop, mutex, round, slept, last, shared, uiVars, good,
                 pub, seen>>

CollectFallback ==
  /\ cpc = "fallback"
  /\ \E r \in Results, rows \in Rows :
       /\ r.reason \in SpawnReasons => rows = NoRows
       /\ \A c \in Columns \ FallbackColumns : rows[c] = {}
       /\ draft' = [draft EXCEPT !.tasks.rows = rows,
                                 !.head.reason = IF r.ok THEN @ ELSE FirstReason(r.reason)]
  /\ cpc' = "merge"
  /\ UNCHANGED <<root, stop, mutex, round, slept, last, shared, uiVars, good,
                 pub, seen>>

\* Mutant of Merged: the last success is repeated without marking it stale.
MergedUnmarked(m, l) ==
  IF m.head.available \/ ~l.head.available THEN m ELSE l

\* The metrics a round ends with, m as collected and l the last success.
Merged(m, l) ==
  LET why == IF m.head.reason = NoReason THEN ParseFailed ELSE m.head.reason IN
  IF m.head.available THEN m
  ELSE IF l.head.available
    THEN [l EXCEPT !.head.sampled = TRUE, !.head.stale = TRUE, !.head.reason = why]
    ELSE [m EXCEPT !.head.reason = why]

\* Mutants of Merge: last_success is never kept; a failed round is dropped.
MergeForgets ==
  /\ cpc = "merge"
  /\ draft' = Merged(draft, last)
  /\ good' = IF draft.head.available THEN good \cup {round} ELSE good
  /\ cpc' = "lock"
  /\ UNCHANGED <<root, stop, mutex, round, slept, last, shared, uiVars, pub, seen>>

MergeDropsFailures ==
  /\ cpc = "merge"
  /\ draft' = Merged(draft, last)
  /\ last' = IF draft.head.available THEN draft ELSE last
  /\ good' = IF draft.head.available THEN good \cup {round} ELSE good
  /\ cpc' = IF draft.head.available THEN "lock" ELSE "sleep"
  /\ UNCHANGED <<root, stop, mutex, round, slept, shared, uiVars, pub, seen>>

Merge ==
  /\ cpc = "merge"
  /\ draft' = Merged(draft, last)
  /\ last' = IF draft.head.available THEN draft ELSE last
  /\ good' = IF draft.head.available THEN good \cup {round} ELSE good
  /\ cpc' = "lock"
  /\ UNCHANGED <<root, stop, mutex, round, slept, shared, uiVars, pub, seen>>

LockShared ==
  /\ cpc = "lock"
  /\ mutex = "free"
  /\ mutex' = "collector"
  /\ cpc' = "writeHead"
  /\ UNCHANGED <<root, stop, round, slept, draft, last, shared, uiVars, good,
                 pub, seen>>

WriteHead ==
  /\ cpc = "writeHead"
  /\ shared' = [shared EXCEPT !.head = draft.head]
  /\ cpc' = "writeTasks"
  /\ UNCHANGED <<root, stop, mutex, round, slept, draft, last, uiVars, good,
                 pub, seen>>

\* The rest of the assignment, and the lock_guard's release.
WriteTasks ==
  /\ cpc = "writeTasks"
  /\ shared' = [shared EXCEPT !.tasks = draft.tasks]
  /\ mutex' = "free"
  /\ pub' = round
  /\ slept' = 0
  /\ cpc' = "sleep"
  /\ UNCHANGED <<root, stop, round, draft, last, uiVars, good, seen>>

SleepStep ==
  /\ cpc = "sleep"
  /\ slept < SleepSteps
  /\ ~stop
  /\ slept' = slept + 1
  /\ UNCHANGED <<root, stop, mutex, cpc, round, draft, last, shared, uiVars,
                 good, pub, seen>>

SleepOver ==
  /\ cpc = "sleep"
  /\ slept = SleepSteps \/ stop
  /\ cpc' = "test"
  /\ UNCHANGED <<root, stop, mutex, round, slept, draft, last, shared, uiVars,
                 good, pub, seen>>

\* Powermetrics is running, in one of its up to three calls of a round.
Commands == TempFileFails \/ CollectPlist \/ CollectTasks \/ CollectFallback

\* The collector's own steps.
CollectorCode ==
  \/ StopSeen \/ StartRound \/ Merge \/ LockShared \/ WriteHead \/ WriteTasks
  \/ SleepStep \/ SleepOver

(***************************************************************************)
(* The owner of the sampler.                                               *)
(***************************************************************************)

\* sample() without root.
SampleUnprivileged ==
  /\ upc = "idle"
  /\ ~root
  /\ view' = [status |-> "RequiresRoot", sample |-> 0,
              cells |-> [p \in Pids |-> [c \in Columns |-> "root"]]]
  /\ UNCHANGED <<root, stop, mutex, collectorVars, shared, upc, cached, good,
                 pub, seen>>

StartSample ==
  /\ upc = "idle"
  /\ root
  /\ upc' = "lock"
  /\ UNCHANGED <<root, stop, mutex, collectorVars, shared, cached, view, good,
                 pub, seen>>

\* Mutant of LockForCopy: the copy is made without the mutex.
CopyUnlocked ==
  /\ upc = "lock"
  /\ upc' = "copyHead"
  /\ UNCHANGED <<root, stop, mutex, collectorVars, shared, cached, view, good,
                 pub, seen>>

LockForCopy ==
  /\ upc = "lock"
  /\ mutex = "free"
  /\ mutex' = "ui"
  /\ upc' = "copyHead"
  /\ UNCHANGED <<root, stop, collectorVars, shared, cached, view, good, pub,
                 seen>>

CopyHead ==
  /\ upc = "copyHead"
  /\ cached' = [cached EXCEPT !.head = shared.head]
  /\ upc' = "copyTasks"
  /\ UNCHANGED <<root, stop, mutex, collectorVars, shared, view, good, pub, seen>>

CopyTasks ==
  /\ upc = "copyTasks"
  /\ cached' = [cached EXCEPT !.tasks = shared.tasks]
  /\ mutex' = "free"
  /\ seen' = pub
  /\ upc' = "apply"
  /\ UNCHANGED <<root, stop, collectorVars, shared, view, good, pub>>

\* apply_root_metrics and the columns of sample_processes; sample() returns.
Apply ==
  /\ upc = "apply"
  /\ view' = [status |-> Status(cached.head), sample |-> cached.head.sample,
              cells |-> [p \in Pids |-> [c \in Columns |-> Cell(cached, p, c)]]]
  /\ upc' = "idle"
  /\ UNCHANGED <<root, stop, mutex, collectorVars, shared, cached, good, pub,
                 seen>>

Sampling ==
  \/ SampleUnprivileged \/ StartSample \/ LockForCopy \/ CopyHead \/ CopyTasks
  \/ Apply

\* Mutant of Quit: the destructor joins before it stores the flag.
QuitWithoutStop ==
  /\ upc = "idle"
  /\ upc' = "join"
  /\ UNCHANGED <<root, stop, mutex, collectorVars, shared, cached, view, good,
                 pub, seen>>

\* The destructor: stop, then join a thread that was started.
Quit ==
  /\ upc = "idle"
  /\ stop' = TRUE
  /\ upc' = "join"
  /\ UNCHANGED <<root, mutex, collectorVars, shared, cached, view, good, pub,
                 seen>>

Join ==
  /\ upc = "join"
  /\ cpc \in {"none", "exited"}
  /\ upc' = "gone"
  /\ UNCHANGED <<root, stop, mutex, collectorVars, shared, cached, view, good,
                 pub, seen>>

Gone == upc = "gone" /\ UNCHANGED vars

Next == Commands \/ CollectorCode \/ Sampling \/ Quit \/ Join \/ Gone

\* Both threads keep running, and a lock that is released between the
\* collector's sleeps is not withheld for ever.
ThreadsRun ==
  /\ WF_vars(CollectorCode)
  /\ WF_vars(Sampling)
  /\ SF_vars(LockForCopy)
  /\ WF_vars(Join)

\* Powermetrics may never answer.
SlowSpec == Init /\ [][Next]_vars /\ ThreadsRun

\* Every powermetrics call returns (CommandRunner's ImplementsCall).
Spec == SlowSpec /\ WF_vars(Commands)

-----------------------------------------------------------------------------
(***************************************************************************)
(* Properties.                                                             *)
(***************************************************************************)

\* The values each variable takes.
TypeOK ==
  /\ root \in BOOLEAN
  /\ stop \in BOOLEAN
  /\ mutex \in {"free", "collector", "ui"}
  /\ cpc \in {"none", "test", "plist", "tasks", "fallback", "merge", "lock",
              "writeHead", "writeTasks", "sleep", "exited"}
  /\ round \in 0..MaxRounds
  /\ slept \in 0..SleepSteps
  /\ draft \in Metrics
  /\ last \in Metrics
  /\ shared \in Metrics
  /\ upc \in {"idle", "lock", "copyHead", "copyTasks", "apply", "join", "gone"}
  /\ cached \in Metrics
  /\ view \in [status : Statuses, sample : 0..MaxRounds, cells : Cells]
  /\ good \in SUBSET (1..MaxRounds)
  /\ pub \in 0..MaxRounds
  /\ seen \in 0..MaxRounds

\* s is the last of the first n rounds that succeeded.
IsLastGood(s, n) == s \in good /\ s <= n /\ \A i \in good : i <= n => i <= s
NoneGood(n) == \A i \in good : i > n

\* sample() has returned, in root mode, at least once.
Shown == root /\ upc = "idle" /\ view.status # "unsampled"

\* The copy sample() works from is never torn: its task data and its flags,
\* reason and time stamp come from one publication of the collector.
CoherentCopy ==
  upc \in {"apply", "idle", "join", "gone"} =>
    cached.tasks.from = cached.head.sample

\* What root_process_status says of the rounds published before the copy:
\* Waiting before the first, Available after a success, Stale when only
\* earlier rounds succeeded, a failure when none did; and the age shown with
\* Available or Stale is counted from the last success.
StatusTellsHistory ==
  Shown =>
    /\ view.status = "Waiting" <=> seen = 0
    /\ view.status = "Available" <=> seen \in good
    /\ view.status = "Stale" <=> seen \notin good /\ ~NoneGood(seen)
    /\ view.status \in FailedStatuses <=> seen > 0 /\ NoneGood(seen)
    /\ view.status \in {"Available", "Stale"} => IsLastGood(view.sample, seen)

\* What a column text says of the rounds: "wait" only before the first is
\* published, "stale" only when the latest failed after a success, "n/a" when the
\* latest succeeded and also when every round so far has failed, and a value was
\* measured by the last successful round, or, when none has succeeded, by the
\* latest one, whose task command ran although its plist command failed.
CellsTellHistory ==
  Shown =>
    \A p \in Pids, c \in Columns :
      LET text == view.cells[p][c] IN
      /\ text = "wait" => seen = 0
      /\ text = "stale" => seen \notin good /\ ~NoneGood(seen)
      /\ text = "n/a" => seen \in good \/ (seen > 0 /\ NoneGood(seen))
      /\ text = "value" =>
           IF NoneGood(seen) THEN cached.tasks.from = seen
                             ELSE IsLastGood(cached.tasks.from, seen)

\* "n/a" is shown only once root sampling has succeeded: README.md, "Process
\* Extension Columns".
NotAvailableMeansSampled ==
  Shown => \A p \in Pids, c \in Columns : view.cells[p][c] = "n/a" => ~NoneGood(seen)

\* A later copy is never older than an earlier one, and telemetry that has
\* once been available never turns unavailable: it can only grow stale.
NeverGoesBack ==
  [][/\ cached'.head.sample >= cached.head.sample
     /\ cached.head.available => cached'.head.available]_vars

\* sample() returns although powermetrics may never answer: docs/API.md,
\* "sample() must not block on slow root telemetry".
SampleReturns == (upc = "lock") ~> (upc = "idle")

\* The destructor's join ends, whatever round the collector was in, if every
\* powermetrics call returns.
QuitJoins == WF_vars(Commands) => ((upc = "join") ~> (upc = "gone"))

\* Neither the screen nor the end of mtop waits for powermetrics for ever.
NobodyHangs == SampleReturns /\ QuitJoins

\* The promise of TelemetryBoard: a round enters the log when it is published,
\* is taken in when the copy ends and is shown when sample() returns.
Class(status) ==
  CASE status \in {"unsampled", "RequiresRoot", "Waiting"} -> "waiting"
    [] status = "Available"         -> "fresh"
    [] status = "Stale"             -> "stale"
    [] status \in FailedStatuses    -> "failed"

Board == INSTANCE TelemetryBoard WITH
           log   <- [i \in 1..pub |-> IF i \in good THEN "ok" ELSE "failed"],
           taken <- seen,
           shown <- [class |-> Class(view.status), sample |-> view.sample],
           open  <- ~stop
ImplementsBoard == Board!BoardSpec

-----------------------------------------------------------------------------
(***************************************************************************)
(* The inductive invariant behind the safety properties.                   *)
(***************************************************************************)

InRound == cpc \in {"plist", "tasks", "fallback", "merge"}
Publishing == cpc \in {"lock", "writeHead", "writeTasks"}

\* The rounds that have been merged, so that their outcome is history.
Completed == IF InRound THEN round - 1 ELSE round

\* What a head, or whole metrics, must be once n rounds are published.
HeadDescribes(h, n) ==
  /\ h.sampled <=> n > 0
  /\ h.available <=> ~NoneGood(n)
  /\ h.stale <=> n \notin good /\ ~NoneGood(n)
  /\ h.available => IsLastGood(h.sample, n)
  /\ ~h.available => h.sample = n

Describes(m, n) == HeadDescribes(m.head, n) /\ m.tasks.from = m.head.sample

MutexInv ==
  /\ mutex = "collector" <=> cpc \in {"writeHead", "writeTasks"}
  /\ mutex = "ui" <=> upc \in {"copyHead", "copyTasks"}

RoundInv ==
  /\ InRound \/ Publishing => round > 0
  /\ good \subseteq 1..Completed
  /\ pub = IF InRound \/ Publishing THEN round - 1 ELSE round
  /\ seen <= pub

DraftInv ==
  /\ InRound => /\ draft.head.sampled /\ ~draft.head.stale
                /\ draft.head.sample = round /\ draft.tasks.from = round
  /\ Publishing => Describes(draft, round)

LastInv ==
  /\ last.head.available <=> good # {}
  /\ last.head.available =>
       /\ last.head.sampled /\ ~last.head.stale
       /\ IsLastGood(last.head.sample, Completed)
       /\ last.tasks.from = last.head.sample

SharedInv ==
  IF cpc = "writeTasks" THEN shared.head = draft.head ELSE Describes(shared, pub)

CachedInv ==
  IF upc = "copyTasks" THEN cached.head = shared.head ELSE Describes(cached, seen)

ViewInv ==
  Shown =>
    /\ view.status = Status(cached.head)
    /\ view.sample = cached.head.sample
    /\ view.cells = [p \in Pids |-> [c \in Columns |-> Cell(cached, p, c)]]

IInv ==
  /\ TypeOK /\ MutexInv /\ RoundInv /\ DraftInv /\ LastInv
  /\ SharedInv /\ CachedInv /\ ViewInv
=============================================================================
