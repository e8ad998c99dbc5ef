------------------------------ MODULE Outputs ------------------------------
(***************************************************************************)
(* main() from a sample to what is shown of it: run_snapshot_mode          *)
(* (SnapshotSession) with the text of its lines, or the frames of the      *)
(* alpha profile's screen.  Both derive workloads and the memory risk from *)
(* the sample, the screen with the samples before it and a filter.         *)
(***************************************************************************)
EXTENDS SnapshotSession, Workloads, MemoryRisk, SnapshotJson

CONSTANTS
  Samples,      \* what sampler.sample() may return: records of memory fields
                \* (mem), processes, and the lengths of other lists
  Labels,       \* texts of --label
  Filters,      \* texts of the filter, "" among them
  HistorySize,  \* samples the screen keeps: 8 in the code
  NoSample      \* before the first sample; no line is being written

Readings ==
  [mem : Memory, processes : ProcessLists, cores : Nat, clusters : Nat, gpuPids : Nat]

ASSUME OutputsAssumption ==
  /\ Samples \subseteq Readings /\ NoSample \notin Readings
  /\ Labels \subseteq Seq(STRING)
  /\ HistorySize \in Nat \ {0}

VARIABLES
  mode,       \* "session" or "screen"
  label,      \* options.session_label
  sample,     \* the snapshot at hand
  workloads,  \* build_workloads of it
  line,       \* what a reader makes of the line at hand
  filter,     \* UiState filter
  direction,  \* UiState sort_direction
  profile,    \* UiState view_profile
  history,    \* snapshot_history, the memory of each
  alpha,      \* AlphaModel of the last frame, with the history it was given
  steady      \* history: samples in a row with the same memory

session == vars

screen == <<filter, direction, profile, history, alpha, steady>>

outputs == <<vars, mode, label, sample, workloads, line, screen>>

-----------------------------------------------------------------------------
(***************************************************************************)
(* From a sample to a snapshot and its models.                             *)
(***************************************************************************)

Measured(s) == [s EXCEPT !.mem = WithPressure(s.mem)]

Snapshots == {Measured(s) : s \in Samples}

WorkloadsOf == [s \in Snapshots |-> BuildWorkloads(s.processes)]

AiRowsOf == [s \in Snapshots |-> BuildAiRows(s.processes)]

\* The commands of a workload's processes, in order of their ids.
Commands(s, w) ==
  LET pids == Sorted(w.pids, <)
  IN [i \in DOMAIN pids |-> ProcessOf(s.processes, pids[i]).command]

\* The commands of each workload of a list.
CommandsByWorkload(s, list) == [i \in DOMAIN list |-> Commands(s, list[i])]

\* The line of a snapshot, of a session or on its own.
LineOf ==
  [s \in Snapshots |-> [ofSession \in BOOLEAN |->
     LET commands == CommandsByWorkload(s, WorkloadsOf[s])
     IN IF ofSession THEN SessionSnapshotLine(s, commands)
        ELSE SnapshotText(NewReader, s, commands)]]

-----------------------------------------------------------------------------
(***************************************************************************)
(* Snapshot mode.                                                          *)
(***************************************************************************)

StartLine ==
  /\ WriteStart
  /\ line' = SessionStartLine(label)
  /\ UNCHANGED <<sample, workloads>>

\* sample(), build_workloads, derive_memory_risk and snapshot_to_json.
SampleLine ==
  /\ Sample
  /\ sample' \in Snapshots
  /\ workloads' = WorkloadsOf[sample']
  /\ line' = LineOf[sample'][opt.session]

\* The snapshot and the strings are gone at the end of an iteration.
Forget ==
  /\ Check \/ LeaveLoop
  /\ line' = NoSample
  /\ sample' = NoSample /\ workloads' = <<>>

EndLine ==
  /\ WriteEnd
  /\ line' = SessionEndLine
  /\ UNCHANGED <<sample, workloads>>

Elsewhere ==
  /\ BadFormat \/ OpenFails \/ Open \/ ArmInt \/ ArmTerm \/ Emit \/ Sleep
     \/ RestoreInt \/ RestoreTerm \/ Finish
  /\ UNCHANGED <<sample, workloads, line>>

SnapshotMode ==
  /\ mode = "session"
  /\ StartLine \/ SampleLine \/ Forget \/ EndLine \/ Elsewhere
  /\ UNCHANGED <<mode, label, screen>>

Outside ==
  /\ mode = "session"
  /\ BrokenPipe \/ (\E sig \in Signals : Handled(sig) \/ Deadly(sig)) \/ Ended
  /\ UNCHANGED <<mode, label, sample, workloads, line, screen>>

\* Against no history, whatever came before in the session.
JsonRisk(s, list) == DeriveRisk(s.mem, <<>>, RssTotal(Range(list)))

-----------------------------------------------------------------------------
(***************************************************************************)
(* The screen.                                                             *)
(***************************************************************************)

WorkloadMatches(w, s, query) ==
  query = "" \/ query \in {w.name, w.kind, w.hint}
             \/ \E pid \in w.pids : query \in ProcessOf(s.processes, pid).words

\* Mutant of RowMatches: as in the beta profile, by the process alone.
RowMatchesProcess(p, query) == query = "" \/ query \in {p.user, p.name} \cup p.words

RowMatches(p, query) ==
  query = "" \/ query \in {p.user, p.name} \cup p.words
             \/ query \in {Detect(p).kind, Detect(p).hint, Detect(p).name}

\* The orders with a sort direction above zero.
SmallerWorkload(w, x) == w.rss < x.rss

Upwards(p, q) ==
  IF IsAi(p) # IsAi(q) THEN IsAi(p)
  ELSE p.rss < q.rss \/ (p.rss = q.rss /\ p.pid < q.pid)

\* What the filter lets through, in the order it had or in the other.
AlphaModel(s, list, prior) ==
  LET matching == {w \in Range(list) : WorkloadMatches(w, s, filter)}
      found == {p \in Range(AiRowsOf[s]) : RowMatches(p, filter)}
  IN [workloads |-> IF direction > 0 THEN Sorted(matching, SmallerWorkload)
                    ELSE Sorted(matching, LargerWorkload),
      rows      |-> IF direction > 0 THEN Sorted(found, Upwards) ELSE Sorted(found, RowBefore),
      prior     |-> prior,
      risk      |-> DeriveRisk(s.mem, prior, RssTotal(matching))]

EmptyModel == [workloads |-> <<>>, rows |-> <<>>, prior |-> <<>>, risk |-> "Unknown"]

\* Mutant of Kept: the newest samples are dropped.
KeptFirst(samples) == SubSeq(samples, 1, Smaller(HistorySize, Len(samples)))

Kept(samples) == SubSeq(samples, Larger(1, Len(samples) - HistorySize + 1), Len(samples))

\* One pass of the loop up to the drawing.
Frame ==
  /\ mode = "screen"
  /\ \E s \in Snapshots :
       /\ sample' = s /\ workloads' = WorkloadsOf[s]
       /\ history' = Kept(Append(history, s.mem))
       /\ alpha' = IF profile = "beta" THEN EmptyModel ELSE AlphaModel(s, workloads', history)
       /\ steady' = IF history # <<>> /\ Last(history) = s.mem
                    THEN Smaller(steady + 1, HistorySize + 1) ELSE 1
  /\ UNCHANGED <<vars, mode, label, line, filter, direction, profile>>

\* The keys that change what the next frame is built from (handle_input).
Settings ==
  /\ mode = "screen"
  /\ filter' \in Filters /\ direction' \in {-1, 1} /\ profile' \in {"alpha", "beta"}
  /\ alpha' = EmptyModel /\ sample' = NoSample /\ workloads' = <<>>
  /\ UNCHANGED <<vars, mode, label, line, history, steady>>
-----------------------------------------------------------------------------

\* The screen is up: run_snapshot_mode was never called.
NoSession ==
  /\ opt = [json |-> TRUE, file |-> FALSE, session |-> FALSE, loop |-> FALSE, count |-> None]
  /\ pc = "done" /\ rc = None
  /\ armed = {} /\ interrupted = FALSE
  /\ emitted = 0 /\ good = TRUE /\ out = <<>>
  /\ allowed = None /\ killedBy = None

OutputsInit ==
  /\ \/ mode = "session" /\ Init /\ label \in Labels
     \/ mode = "screen" /\ NoSession /\ label = <<>>
  /\ sample = NoSample /\ workloads = <<>> /\ line = NoSample
  /\ filter = "" /\ direction = -1 /\ profile = "alpha"
  /\ history = <<>> /\ alpha = EmptyModel /\ steady = 0

OutputsNext == SnapshotMode \/ Outside \/ Frame \/ Settings

\* As in SnapshotSession; the screen runs as long as it likes.
OutputsSpec == OutputsInit /\ [][OutputsNext]_outputs /\ WF_vars(Function)

-----------------------------------------------------------------------------
(***************************************************************************)
(* Properties.                                                             *)
(***************************************************************************)

CommandsOf(list) == [i \in DOMAIN list |-> list[i].command]

\* Whatever lists are empty and whatever characters commands and labels hold,
\* a line is one complete JSON value without a key twice in an object, and a
\* reader gets back the label from the first line, the commands from that of a
\* sample, and nothing from the last.
LineIsJson ==
  line # NoSample =>
    /\ ~line.bad /\ line.done
    /\ pc = "test" => line.texts = <<label>>
    /\ sample # NoSample =>
         line.texts = CommandsOf(sample.processes)
                        \o FlattenSeq(CommandsByWorkload(sample, workloads))
    /\ sample = NoSample /\ pc \notin {"test", "killed"} => line.texts = <<>>

\* The workloads account for the AI processes of the sample, each in exactly one,
\* and a workload has the memory and the processor use of its processes.
WorkloadsCover ==
  sample # NoSample =>
    /\ UNION {w.pids : w \in Range(workloads)} = {p.pid : p \in Detected(sample.processes)}
    /\ \A w, x \in Range(workloads) : w # x => w.pids \cap x.pids = {}
    /\ \A w \in Range(workloads) :
         /\ w.rss = SumFunction([pid \in w.pids |-> ProcessOf(sample.processes, pid).rss])
         /\ w.cpu = SumFunction([pid \in w.pids |-> ProcessOf(sample.processes, pid).cpu])

IsManager(p) == Detect(p).kind = "Ollama" /\ Detect(p).role = "Manager"

\* An Ollama process is in one workload with the manager that started it, unless
\* that manager was itself started by one.
RunnersJoinManager ==
  sample # NoSample =>
    \A p, m \in Detected(sample.processes) :
      (/\ Detect(p).kind = "Ollama" /\ p.ppid = m.pid
       /\ IsManager(m) /\ ~IsManager(p)
       /\ ~\E o \in Detected(sample.processes) : IsManager(o) /\ o.pid = m.ppid)
        => \E w \in Range(workloads) : {p.pid, m.pid} \subseteq w.pids

\* A workload is named after its manager, or its server, or the surest of its
\* processes, whatever their order in the list.
NamedByBest ==
  sample # NoSample =>
    \A w \in Range(workloads) :
      LET ds == {Detect(ProcessOf(sample.processes, pid)) : pid \in w.pids}
          OfRole(role) == {d \in ds : d.role = role}
      IN w.name \in {d.name : d \in
           IF OfRole("Manager") # {} THEN OfRole("Manager")
           ELSE IF OfRole("Server") # {} THEN OfRole("Server")
           ELSE {d \in ds : \A e \in ds : d.confidence >= e.confidence}}

\* A workload shows the I/O of a process for which there is any, however many
\* of its processes have none.
IoShown ==
  sample # NoSample =>
    \A w \in Range(workloads) :
      (\E pid \in w.pids : ProcessOf(sample.processes, pid).io \notin NoSignal) => w.io \notin NoSignal

Shown == mode = "screen" /\ profile = "alpha" /\ sample # NoSample

\* The JSON line of a sample, which is compared with no history, is never
\* milder than the screen that shows the sample, whatever its history and filter.
JsonNeverMilder == Shown => Gravity[JsonRisk(sample, workloads)] >= Gravity[alpha.risk]

\* What the filter hides moves the risk between Ok and Watch at most.
FilterTouchesWatchOnly ==
  Shown =>
    LET whole == DeriveRisk(sample.mem, alpha.prior, RssTotal(Range(workloads)))
    IN alpha.risk # whole => alpha.risk = "Ok" /\ whole = "Watch"

\* A workload whose memory counts in the risk has a row on the same screen: the
\* filter of the rows lets through what that of the workloads does.
RowsExplainRisk ==
  Shown =>
    \A w \in Range(alpha.workloads) : \E p \in Range(alpha.rows) : p.pid \in w.pids

\* Once memory has not changed for as long as the screen remembers, nothing is
\* rising any more: the risk is that of the sample alone.
RiskSettles ==
  (Shown /\ steady > HistorySize) =>
    alpha.risk = DeriveRisk(sample.mem, <<sample.mem>>, RssTotal(Range(alpha.workloads)))

\* From one frame to the next, compared with the same sample of the past, the
\* risk goes down only if something got better.
NoUnearnedRelief ==
  [][(/\ Shown /\ Shown' /\ filter = "" /\ filter' = "" /\ alpha.prior # <<>>
      /\ Head(alpha.prior) = Head(alpha'.prior)
      /\ NoBetter(sample.mem, sample'.mem)
      /\ RssTotal(Range(alpha.workloads)) <= RssTotal(Range(alpha'.workloads)))
        => Gravity[alpha.risk] <= Gravity[alpha'.risk]]_outputs

\* A workload has the processes, the name and the I/O of what it stands for.
WorkloadsGrouped == RunnersJoinManager /\ NamedByBest /\ IoShown

\* Typing a filter neither hides a grave risk nor leaves one unexplained.
FilterIsHarmless == FilterTouchesWatchOnly /\ RowsExplainRisk
=============================================================================
