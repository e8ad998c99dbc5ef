# mtop in TLA+

TLA+ specifications of [mtop](../src/README.md), the terminal monitor for Apple
Silicon Macs, with TLC runs on small instances and TLAPS proofs for every
instance: from the keys and counters it reads to the screen, the JSON lines and
the file it writes.

## 1. The system

mtop is one process.  `main()` loads the configuration, creates a `Sampler` and
either writes JSON snapshots or runs the curses screen.  Everything happens on
that one thread, with two exceptions: in root mode a collector thread runs
`powermetrics`, and signals interrupt snapshot mode.

| Component | State | Operations | What makes it correct |
|---|---|---|---|
| Command runner (`darwin_sampler.cpp` 114-244) | pipe, child, status word, deadline | `run_command_capture_result` | output whole, verdict that of the child it reaped, returns, signals only its own child |
| powermetrics parser (`root_metrics_parser.cpp`) | none | `parse_amp_data` | a figure lands under its heading and process, wherever the text is cut, but for processes named by numbers |
| Root telemetry (`darwin_sampler.cpp` 429-447, 551-597, 889-1220) | `shared_root_metrics_` under a mutex, `last_success`, `cached_root_metrics_`, stop flag | collector rounds, `sample()`, destructor | coherent copies; status and texts tell what happened; never blocks; quits |
| Rate counters (`darwin_sampler.cpp` 471-740, `main.cpp` 811-830) | previous readings, histories | `sample_memory`, `sample_system_io`, `append_io_history` | rates exact or not shown; no underflow |
| CPU and process sampling (`darwin_sampler.cpp` 790-981) | previous tick counts, previous process times | `sample_cpu`, `sample_processes` | loads over wraps; nobody is charged for another process |
| Memory risk (`metrics.cpp`, `memory_risk_model.cpp`) | none | `derive_memory_pressure`, `derive_memory_risk` | monotone; the JSON and the screen agree as far as they can |
| Workloads (`workload_detector.cpp`, `workload_model.cpp`) | none | `build_workloads`, `build_ai_process_rows` | every detected process in one group; sums and names those of the parts |
| JSON text (`snapshot_json.cpp`, `snapshot_session.cpp`) | the writer's two stacks | `JsonWriter`, `snapshot_to_json` | each line one complete JSON value that reads back |
| Snapshot sessions (`main.cpp` 661-726) | signal flag, emitted count, output | `run_snapshot_mode` | one start, the samples, one end, as far as lines can be written |
| Input parser (`input_parser.cpp`, `input_logic.cpp`) | curses' pushback queue | `read_input_event` | whole keys decoded; which bytes are lost and which pieces taken for keys is known |
| Process table (`main.cpp` 799-1193, 2200-2690, 2831-2979) | `UiState`, the rows of the last frame | keys, mouse, frames, signals, renice | the process acted on is the one selected |
| Process tree and sort (`main.cpp` 924-1019, `process_sort.cpp`) | none | `build_process_rows`, `process_sort_less` | every process once, a strict order |
| Configuration (`config.cpp`, `view_profile.cpp`, `main.cpp` 2740-2773) | the config file | `load_config`, `persist_view_profile` | persisting changes one key, and adds blank lines at most |
| Gauges, drawing, demo data, GPU probe, diagnostics, packaging | - | - | not modelled, see section 5 |

How they interact: the collector calls the command runner two or three times a
round and hands the parsed result to `sample()` through one mutex; `sample()`
fills a `SystemSnapshot`; the screen derives table rows, workloads and risk from
it and lets up to twenty key presses act on those rows before the next sample;
snapshot mode derives workloads and risk once more and writes it out.

## 2. Modules

| Module | Models | Role |
|---|---|---|
| `CommandResult` | `struct CommandResult` | the results a call can hand back |
| `CommandCall` | the promise of a call | abstract specification |
| `CommandRunner`, `CommandRunnerProofs` | `run_command_capture_result` | implements `CommandCall` |
| `AmpTable` | `parse_amp_data` | pure operators |
| `TaskCommand`, `MCTaskCommand` | the task command of a round | `CommandRunner` with `AmpTable` over what it captured |
| `TelemetryBoard` | the promise of background sampling | abstract specification |
| `RootMetrics`, `MCRootMetrics`, `RootMetricsProofs` | collector thread and `sample()` | implements `TelemetryBoard` |
| `RateSampler`, `MCRateSampler` | rates and plotted histories | counters |
| `ProcessTimes` | CPU shares in `sample_processes` | counters under ids that are reused |
| `CoreTimes` | `sample_cpu`, `refresh_cpu_clusters`, their place in `sample()` | counters that wrap |
| `MCHostSampler`, `HostSamplerProofs` | the sampler as a whole | the three before, side by side |
| `MemoryRisk` | pressure and risk | pure operators |
| `Workloads` | detection, grouping, list of the alpha profile | pure operators |
| `JsonReader` | a reader of JSON (RFC 8259) | external: what a line is checked against |
| `JsonWriter` | class `JsonWriter`, `json_escape` | text is what a reader makes of it |
| `SnapshotJson` | `snapshot_to_json`, session lines | the calls made of the writer |
| `SnapshotSession`, `SnapshotProofs` | `run_snapshot_mode` and its signals | output protocol |
| `Outputs`, `MCOutputs`, `OutputsProofs` | from a sample to a line or a frame | composes the six before |
| `ProcessSort` | `process_sort_less`, `cycle_sort`, `default_sort_direction` | pure operators |
| `ProcessRows`, `MCProcessRows`, `ProcessTableProofs` | `build_process_rows`, sort and tree keys, header clicks | table rows, uses `ProcessSort` |
| `ProcessTable`, `MCProcessTable`, `ProcessTableProofs` | frames, keys, mouse, selection, paging, search | the screen |
| `InputParser` | `read_input_event` | one non-blocking read at a time |
| `Keyboard`, `MCKeyboard`, `ControlProofs` | the input loop, popups, prompts, what keys do | `InputParser` with `handle_input` |
| `ConfigStore`, `MCConfigStore`, `ControlProofs` | `load_config`, `persist_view_profile`, the start of `main` | the config file |
| `MCControl` | `ConfigStore`, `ProcessRows` and `Keyboard` | side by side, for one run |
| `SumLemmas` | - | sums, least elements and remainders, for the proofs |

`RootMetrics` takes the answers of a command from `CommandResult`, and assumes
of it what `CommandRunner` shows (`ImplementsCall`): each call comes back, with
one of `CommandResults`.

### CommandRunner and TaskCommand

One variable per local variable of the function, plus the child process and the
pipe.  An action is one system call and what the code does with its answer, so
that the child may write, close, exit or be killed between any two.  Text is a
count of chunks.  `autoReap` stands for a parent that inherited `SIGCHLD` as
ignored.

The status word that the verdict is taken from is filled by `waitpid`.  When the
child closes its output before it ends, or was reaped by the kernel, it is not:
`ok` is then TRUE however the child ends, and `VerdictAccounted` says so.  A
caller may trust a failure, and a success only of a child the call has reaped.
`ImplementsCall` does not tell the two apart: both are answers of the contract.

`TaskCommand` gives the chunks a text: tables as powermetrics prints them, cut
into chunks in the middle of names and numbers.  A piece of digits says for
which process and under which heading it was printed, so that "the right figure"
can be stated.  `AmpTable` follows the parser from lines to fields split at runs
of spaces, to headings, rows and figures.

Names of numbers are taken for figures.  A row that is short of a field, because
it was cut or because figures have run into each other, has its first field split
if that is several numbers, and the name of a process is its first field: the row
of a process named `12 34` is then reported as that of process 34, whether or not
there is one.  The run has such a table; `ColumnsAligned`, `CutHarmless` and `NoRowLost` except just that (`Namesakes`, `ReadableRows`).  A
row whose name has run into its id is dropped (`ReadableRows` excepts it too).
Two things beyond the texts of the runs also put a figure under a wrong heading or
process: a name with two spaces before a number, and two headings one space apart
together with numbers that have run into each other.

### RootMetrics

`cpc` and `upc` are where the two threads are.  A `RootMetrics` struct is a
*head* (flags, reason, the round that measured it: its `sample_time`) and *task
data* (the pids per column that have a value).  Copying it takes two steps, one
for each part, so that a missing lock shows up as a torn copy.  Each command of
a round is one action with any result of `Results`; what it printed is any set
of rows.  `good`, `pub` and `seen` are history variables: which rounds
succeeded, the last published, and the last published when the copy was made.

### RateSampler, ProcessTimes, CoreTimes

`RateSampler`: per stream (`swap`, `paging`, `disk`, `net`) the kernel's counter,
the previous reading, what is shown and the growth since the last samples
(history variables).  Counters that one call reads together are followed
together, the others in behaviours of their own: `streams` says which, and never
changes.  One sample lasts one unit of time, so rate and difference are the same
number.  An interface counter is taken modulo `Width`; the sum is not.  A swap
rate with nothing to compare keeps its last value while readings fail.

`ProcessTimes`: processes come and go, ids are reused, a process may be
unreadable or beyond the buffer, and `proc_listpids` may fail: then the time of
the call is noted and the stored times are not, so that the next share is what
two intervals used over the length of one.

`CoreTimes`: tick counters that wrap, a number of processors that differs from
the topology's (a core beyond it keeps its load), and the order inside
`sample()`: the cores are read before the root metrics are copied, so a
cluster's frequency and power are of the copy one sample before the GPU's and
the system's next to it (`ClustersTrailPower`).  `sample_gpu` returns early when
the GPU probe has no answer; the powers of an older copy then stay on the screen,
and may be older than the clusters' figures.

### MemoryRisk, Workloads, SnapshotJson, SnapshotSession, Outputs

`MemoryRisk` has the code's thresholds and integer divisions; `MiB` scales them.
`Workloads` has the detector's rules in their order; what a rule looks for in a
name or a command is a *word* of the process.  In `JsonWriter` the text already
written is the state of a reader (`JsonReader`): the writer's stacks and the
reader's are compared at every call, and a character is a letter or one of those
that JSON treats specially.  Bytes of 128 and above are written as they are, so
that a line need not be UTF-8.  `SnapshotJson` lists the calls `snapshot_to_json`
makes; a list's length is part of the sample.

`SnapshotSession` has one action per statement that writes, tests or changes a
handler, so that `SIGINT` and `SIGTERM` can come between any two of them; any
write may fail once the file is open.  `Outputs` adds what the lines say, and, in
the mode `screen`, the frames of the alpha profile with their history and filter.

Worth knowing, since it follows from the code and surprises: Ollama managers that
start each other are grouped in the order of process ids; a parent of a kind is
not grouped with its children unless it is Ollama's; two workloads of one kind and
model have the same id; the first frame and every JSON line take any swap or
compression for rising; rows match a user's name and workloads do not.

### ProcessSort and ProcessRows

`Key` is what a mode compares: a number, or beyond all numbers at the end where
missing values go (`missing_sort_score`).  A text of powermetrics is missing, a
number (for I/O a pair), or not finite; strings stand for their place in the
alphabet.  `Sorted` is what `std::sort` leaves: no row is less than one before it,
and there is only one such order (`SortLessTotal`).  `Visit` is one call of `dfs`
up to the calls it makes itself, which go before those that wait, `NextCall` the
next of them or of the two loops; `TreeRows` makes calls until none is left.
Parents may be missing, form cycles or be the child itself; ids are positive,
because the sampler skips the others.  The rows' properties hold when they are
built: `fresh` says that no key has changed the sort or the tree since.

### ProcessTable

`Frame` is one iteration of the main loop up to the keys, every other action one
key or click; any number of them may come between two frames (the code stops at
twenty).  `screen` is what the frame drew: on which line of the process window
each process is, counted as `synthesize_mouse_event` counts, and which one is
marked.  Rows come in any order, so the model covers every sort and tree mode.
The alpha profile draws `ai` and moves `index`, but builds `rows` all the same.

### InputParser and Keyboard

The terminal writes messages of one or several bytes, which arrive at any time;
every byte remembers its message.  `ReadEvent` is one call of `read_input_event`
with any cut the arrival of bytes can make of it, guards and pushback included.
A session is the set of the messages that one user's terminal sends.
`TypingAssumption` leaves out the sessions that have Esc and all the further keys
of a sequence, as Esc, `O` and `P` (sort by I/O, by CPU) have those of
F1: typed fast enough the bytes are those of the function key, and no parser
could tell them apart.  So nothing here is said of a user who types both Esc and
those keys; a session with Esc, `[` and `q` is in.

What becomes of the bytes is stated exactly (`BytesAccounted`).  One key that has
arrived behind Esc is pushed back and read again.  Two or more are handed to the
table of sequences, which gives Esc back and drops them: in Esc, `[`, `q` typed in
one burst mtop does not hear the `q`.
`Keyboard` feeds the events to `handle_input`: popups, prompts, the number of a
signal, the settings of the setup popup.  Which process is selected is
`ProcessTable`'s subject; here there is one or none.

What the pieces of a cut message do is stated exactly too (`ActsAccounted`), and
is not what README.md promises of the keys (the run `cut_keys`): an F2 whose bytes arrive
with a pause quits mtop by its `Q`; the `[` of a cut sequence changes the nice
value of the selected process; the digits of a cut mouse report get into the
number of a signal being typed.

### ConfigStore

A line of the file is a key and a value; values that no parser accepts are one
value `Bad`.  Per terminal, `pc` says how far its mtop has come: loading, having
read the lines, having truncated the file, having written it.  Opening with
`trunc` and writing are two steps with the whole of the other terminals, and
any failure or kill, between them.  `damaged` is a history variable for the three
ways in which the file can lose lines.

`Overlay` is what two writers over one truncation leave: `view_profile=alpha` is a
byte longer than `view_profile=beta`, so that a write of the shorter text over the
longer leaves the last line end, a blank line, behind; with several such writes
there may be several.  Texts that are alike but for this are compared exactly.
What is left of any other text is a choice of its ends, perhaps with the end of a
line (`Cut`) in front.

## 3. Runs

| Run | Instance | Properties | Shows |
|---|---|---|---|
| `command_runner` | 3 tables of up to 8 chunks, a pipe of 2, 2 polls after SIGTERM | `VerdictAccounted` `OutputComplete` `SignalsOwnChild` `ImplementsCall` | what the caller may conclude from the result; output whole; no stray signal; the call comes back with one answer of `CommandCall` |
| | | `TableRead` `CutHarmless` | each figure under its process and heading, no readable row lost; a cut takes at most the last figure; processes named by numbers excepted |
| `root_metrics` | 1 process, 2 columns, 2 command results, 3 rounds, commands that may hang | `CoherentCopy` `StatusTellsHistory` `CellsTellHistory` `NeverGoesBack` `NobodyHangs` `ImplementsBoard` | copies are whole and never go back, status and texts tell the history, `sample()` returns all the same, quitting ends if commands return, `TelemetryBoard` is implemented |
| `root_cells` | the same | `NotAvailableMeansSampled` | *violation*: n/a is shown although every round failed |
| `rates` | swap with paging, disk, 2 interfaces of width 3, 4 units moved; 2 processes, 3 units of time; 2 cores of width 3, 4 ticks, 2 rounds | `ExactRate` `RateBounded` | rates are exact, never underflow, count nothing twice |
| | | `ShareExact` `ShareNotOverstated` | a process is shown with what it used, whoever had its id |
| | | `CoreFigures` `ClustersTrailPower` | loads survive wraps and failed readings; how far cluster figures lag |
| `rates_disk_zero` | disk only | `DiskCountsSinceLastRead` | *violation*: an unavailable disk reading becomes a previous value of zero |
| `outputs` | every combination of options, counts of 1 and 3, 9 samples, 2 labels; frames with 3 filters and a history of 3 | `OutputWellFormed` `SignalsEndWell` `Terminates` | the stream is the beginning of a well-formed one, complete when the exit code is 0 and no write has failed, a signal stops promptly and leaves no half session, the mode ends |
| | | `LineIsJson` | every line is one JSON value; the label reads back from the first, the commands from a sample's |
| | | `WorkloadsCover` `WorkloadsGrouped` | each detected process in one workload with the sums, name and I/O of its parts |
| | | `JsonNeverMilder` `FilterIsHarmless` `RiskSettles` `NoUnearnedRelief` | the JSON line is never milder than the screen; a filter moves the risk between Ok and Watch only; steady memory stops rising; no relief without cause |
| `process_table` | both profiles, 3 processes, 4 lists, 2 texts, pages of 1, 2 and 5 lines | `ScreenConsistent` `OverviewClicksHit` `TargetHolds` `SearchFindsNext` | the marked row is drawn, one popup at a time, the signal prompt keeps its target, searches pass over no match, clicks in the Overview hit |
| `clicks` | the GPU Active view | `ClicksHit` | *violation*: a click selects the process below the one clicked |
| `controls` | 2 terminals, 3 starts, 5 files | `SettingsSurvive` `ChoiceIsLoaded` | no line is lost and only blank ones are gained, short of a damaged write; the profile last written is loaded by whoever starts while nobody writes |
| | 5 samples of up to 4 processes that tie and miss values | `RowsSorted` `TreeDrawn` `CollapsesDrawnNodes` | siblings strictly sorted, missing values at the bottom, every process once, indentation follows the parents, only drawn inner nodes collapse |
| | 5 sets of keys, clicks and function keys, 1 message unread, 3 characters typed | `KeysDecoded` `BytesAccounted` `ActsAccounted` | a whole message is decoded, Esc is Esc, bytes are lost only behind Esc, pieces do only what is listed |
| `tree_collapse` | the rows | `CollapseHides` | *violation*: descendants of a collapsed node are drawn |
| `cut_keys` | the keys | `OnlyKeysAct` | *violation*: a piece of a function key acts |
| `return_key` | the keys | `ReturnCloses` | *violation*: Return does not close popups that say Enter does |

Where one invariant of a run is a conjunction (`VerdictAccounted`,
`OutputWellFormed`, `TreeDrawn`, ...), its conjuncts are definitions with comments
of their own just above it.  Type invariants are conjuncts of such a property;
`TypeOK` of `RootMetrics` is proved and not run.

What the violations say.  `rates_disk_zero`: a value appears on the screen that
the documents promise not to show.  `tree_collapse`: `dfs` does not mark what it
skips, and the last loop of `build_process_rows` draws it at depth 0.  `clicks`:
the GPU Active view starts one line lower than the click code believes.
`ClicksHit` fails in the alpha profile too (set `Starts` to
`{<<"alpha", "Overview">>}`): the click code looks into the process table, which
that profile does not draw.  And it fails in the Overview when a key, or a
click on the header, turned the page since the frame was drawn, which is why
`OverviewClicksHit` is the narrower property.  `return_key`: `nonl()` makes
curses hand on the carriage return of the Return key, and `handle_input` asks
for a line feed.

`root_cells` and `cut_keys` refute what README.md says, and the property of the
passing run next to them states what the code does instead.  `root_cells`: n/a is to
mean that root sampling succeeded, and it is shown as well when every round has
failed (`CellsTellHistory`).  `cut_keys`: the second byte of a cut function key
renices, the last of a cut F2 quits, and neither is a key that was pressed
(`ActsAccounted`).

Three more things are excepted from properties that hold, because the code does not
do what one might expect; docs/API.md (139, 162) can be read as promising more, but
speaks of none of these cases.  A process is made up
from a name of numbers (`Namesakes`).  A line that could not be written does not
change the exit code of snapshot mode, which is 0 for a session without its
`session_end` (`CompleteUnlessWriteFailed`).  Two keys that have arrived behind Esc
are dropped (`SwallowedByEsc`).

One of the files of `controls` has two `view_profile` lines, which
`ChoicePersists` excepts: `persist_view_profile` replaces the first and
`load_config` obeys the last, so that `-view` does not persist there.

Bounds.  Three rounds are enough for success, failure and success again, the
longest pattern the merge tells apart; one process and two columns, of which the
fallback can fill one, tell the columns' three cases apart; two results of a
command are all that a round distinguishes.  A pipe of two chunks fills and
blocks the writer; two polls after SIGTERM reach both ends of the loop.  The
tables have headings that have run into each other, numbers that have, in twos
and threes, names that end in numbers or are numbers, a row without a process and
one with a blank column.  A counter of width 3 wraps within the traffic allowed.
Two process ids and three units of time let an id change hands twice and be
skipped in between.  The samples of `outputs` reach each level of the risk, lost
readings included, and have the families that the rules of grouping tell apart; a
history of three lets a sample be the oldest, pass through the middle and leave.
Four processes make a chain that ends in siblings, a root that is listed last, a
cycle with a tail, a process that is its own parent and an orphan with a child.
Three starts in two terminals let two overlap and a third load the result.
Three table rows on pages of one and two lines give first, middle and last
pages, and wrap a search; five lines are the fewest on which the alpha profile
draws its list.  Every window of the program has at least three lines: the pages
of one and two stand for lists longer than the page.  One message not read to its
end can be cut at every byte, and the pieces pushed back meet the next message.
The config file is shorter than a stream's buffer, so that its lines are written
together.  Unbounded counters are bounded by `MaxOutput`, `MaxRounds`, `MaxMoved`,
`MaxTime`, `MaxTicks`, `MaxSamples`, `MaxQueued`, `MaxTyped` and `MaxLaunches` in
the guards.

Fairness.  Both threads are scheduled (`WF`), the deadline passes, `SIGKILL` is
obeyed.  The lock taken by `sample()` gets strong fairness: the collector holds
it for one assignment and then sleeps at least 200 ms.  Nothing is assumed of a
child before it is killed.  `root_metrics` runs under `SlowSpec`, which assumes
nothing of `powermetrics`: `sample()` returns and the board is implemented all
the same; only that quitting ends (`QuitJoins`) is stated for behaviours in which
commands return, as `CommandRunner` shows.  `SnapshotSession` assumes that
the mode's own thread runs (`WF`), nothing of signals.  The screen and keyboard
modules state no liveness: a user may stop typing.  `return_key` and
`cut_keys` do not look for deadlocks, because mtop stops when the user quits; `controls`
has a step for that (`HasQuit`).

## 4. Proofs

| Module | Proves, for every value of the constants | Assumes |
|---|---|---|
| `RootMetricsProofs` | `TypeCorrect`, `CopyIsCoherent`, `StatusIsHistory`, `CellsAreHistory`, `CopiesNeverGoBack`, `BoardImplemented` | `MetricsAssumption` |
| `CommandRunnerProofs` | `OutputIsComplete`, `VerdictIsAccounted`, `OwnChildIsSignalled`, `CallIsImplementedSafely` | `RunnerAssumption` |
| `HostSamplerProofs` | `RatesAreBounded`, `RatesAreExact`, `SharesAreExact`, `SharesAreNotOverstated`, `CoreFiguresAgree`, `ClustersTrail` | `RateAssumption`, `PidAssumption`, `CoreAssumption` |
| `SnapshotProofs` | `StreamIsWellFormed`, `OutputIsWellFormed`, `SignalsNeverCut` | `SessionAssumption` |
| | `BeginConsistent`, `KeyConsistent`, `ScalarConsistent`, `StringConsistent`, `EndConsistent` | calls in a legal order |
| `OutputsProofs` | `WorkloadsAccount`, `GroupsAreTheirProcesses`, `JsonIsGraver`, `FilterHidesNoRisk`, `SteadyRiskIsOwn`, `ReliefIsEarned`, `LinesAreJson` | `OutputsAssumption`, `MiBAssumption` |
| | `JsonIsNeverMilder`, `HiddenWorkloadsTouchWatchOnly`, `NoReliefWithoutCause` | memory fields are natural numbers |
| `ProcessTableProofs` | `ScreenIsConsistent`, `ClicksHitDrawnRows`, `TargetIsHeld`, `SearchPassesOverNone` | `ScreenAssumption` |
| | `RowsAreSorted`, `TreesAreWhole`, `OnlyDrawnNodesCollapse` | `RowsAssumption` |
| | `SortLessAsymmetric`, `SortLessTransitive`, `SortLessTotal`, `MissingSortsLast` | - |
| `ControlProofs` | `NoLineIsLost`, `ChoiceIsObeyed` | `ConfigAssumption` |
| | `BytesAreAccounted`, `ParserDecodes`, `ActsAreAccounted` | `ParserAssumption`, `TypingAssumption`, `KeyboardAssumption` |

The table names the theorems of PROJECT.json; the lemmas under them are not
listed.

Induction over lists and finite sets is done with a least counterexample:
`SumLemmas` derives from the library that a set of subsets of a finite set has a
smallest member, and a set of numbers of an interval a least one.  From these
follow how the sum over a function changes when the function or its set does,
that every order of a finite set has a sequence that follows it (what `std::sort`
needs, `OrderedExists`), and what the recursive functions of the models compute
(`IsGrouping` for `build_workloads`, `IsLoading` for `load_config`).  A function of
the numbers up to one that is defined by what follows each exists (`Iterates`) and
keeps what every step keeps (`UpTo`): this serves the calls of a writer and those
of `dfs`.

`RootMetricsProofs`.  The safety properties are not inductive: they speak of the
screen, which is derived from `cached`, copied from `shared`, moved from `draft`,
merged with `last`.  `IInv` therefore says of every copy along this path which
history it describes (`Describes(m, n)`: these are the flags, round and task data
to be shown once `n` rounds are published), who holds the mutex at which program
counter, and how `round`, `pub` and `seen` lag behind one another.  The merge
step is where the work is: it establishes `Describes(draft, round)` from
`LastInv`.  `BoardImplemented` maps each step to one of `TelemetryBoard` or to a
stutter: what the collector does before it publishes is hidden, since the summary
of a board depends on the published rounds only.

`CommandRunnerProofs`.  `PipeInv` says why the final drain misses nothing: the loop
is left at the end of the output or of the child, and either means that nobody
writes any more.  `ChildInv` says whose the child is at each program counter, and
`ResultInv` what the call has found out so far: a timeout is only ever recorded
on the way to a reaped child.  With these each step of the call maps to a step of
`CommandCall` or to none.

`HostSamplerProofs`.  Rates: a rate is exact because the previous reading of a
stream is behind its counter by what was moved since (`ReadIsExact`), modulo the
width of an interface counter; a sum over interfaces changes by what one of them
carried (`SumGrowsByOne`); `NoUnderflow` is what keeps the unsigned difference
from wrapping.  Shares: `TimesInv` says why a reused id overstates nothing: what
lies between the time stored under an id and that of whoever has it now was used
by the latter since the last list (`GrownSinceList`), and a process watched since
the last call has used exactly that (`WatchedIsExact`).  Cores: the ticks at the
last reading are less than one width behind (`AtReadBehind`), so that the
difference modulo the width is the true one (`ModDistance`), and the cluster
figures are of the copy before (`CopiesInOrder`), the powers of the copy at hand or,
while the GPU probe does not answer, of one before.

`SnapshotProofs`.  `StreamInv` relates the lines written to the place the
function has reached; `ArmedInv` says that the handlers are installed from there
to there, so that a signal can kill mtop only before the first line or after the
last; `PromptInv` that a sample begun before the signal is the only one after it.
For `CompleteUnlessWriteFailed`, `CountInv` counts the snapshot lines with the samples.  The
`...Consistent` theorems show that each call of the JSON writer preserves
`Consistent`: its two stacks say what a reader has read, so that commas, brackets
and keys are due where it writes them, however deep the nesting.

The same module has the lemmas for the text of a line.  `Performed` makes the calls
one after the other (`Written`, which TLC evaluates, sixteen at a time:
`WrittenIs`), so that a sequence of calls does what its parts do in turn
(`PerformedBoth`).  Its parts are of three kinds: `IsValue`, calls that write one
value wherever a value may come; `IsMembers`, calls that add members with certain
names to whatever object is open; `IsItems`, calls that add elements to an array.
Each also says which texts a reader gets.  `snapshot_to_json` is followed from its
smallest writers to the line, and no name is used twice in an object.
A text read back is the text written, whatever its characters, because what
stands for one character is read as that character and nothing is left over
(`EscapedIsRead`, `EscapedAndBack`).

`OutputsProofs`.  `HeldInv` says what the modes hold between steps: the workloads
are those of the sample at hand (`SampleHeld`); the last `steady` samples kept
have the same memory, and as many are kept (`HistoryHeld`); a frame shows its
sample against the samples kept before it (`FrameHeld`).  The risk then is
arithmetic: each test of `derive_memory_risk` is monotone in what it is given,
against no history everything counts as rising, and only the oldest sample of the
history matters.  The workloads are followed through `build_workloads` one process
at a time: every group stands for the processes that joined it (`Stands`: sums,
name, speaker, I/O), and the groups together for the AI processes so far; no
process is listed twice (`OutputsAssumption`).  That the speaker of a group
does not depend on the order of its processes needs `DetectionRated`: a
manager's confidence is never below a server's of the same kind, nor a server's
below a runner's.  `LineHeld` says what the line at hand is: that of the sample, or
the first before any sample, or the last after the loop.  The sample is
gone at the end of an iteration, before another line, so that the commands read
from a line are those of its sample (`LineOfIs`, which brings the lemmas about calls
to the samples of this model).

`ProcessTableProofs`.  `SortLess` is a strict total order on processes with
different ids, and a process without a value comes after every one with a value;
these rest on `BelowIsTotalOrder` (scores are ordered like numbers with two ends)
and `KeyIsScore`.  `ScreenInv` relates the frame drawn to the state it was drawn
from: the lines drawn are a part of the list that holds the selected row, one
dialog is open at most, the prompt's target is the process it was opened for.
The search is followed backwards and forwards from the selection
(`SearchIsNearest`).

The same module, the rows.  `DfsInv` is what holds between two calls of `dfs`.  What
waits was called by a row below which only its descendants are so far
(`CallsHaveRows`), those of later rows first (`DeepestFirst`): so a row that is
added stands below its parent (`Placed`).  Calls of one row wait in the order of
the sort and come after what that row has drawn (`InTurn`, `RootsInTurn`): so
siblings are in order (`OrderedSoFar`).  No start and no child of a row that is not
folded is forgotten (`Covered`): so the roots' trees hold everything with an
ordinary ancestry before the second loop begins (`TidyAreDrawn`), which therefore
puts nothing of it in a wrong place, and the second loop draws the rest.  A call
draws what it is for or finds it drawn (`CallDraws`, `CallReturns`).  The calls come
to an end because each leaves fewer starts, calls and children of undrawn
processes together (`NextCallGoesOn`), and there are three times as many as
processes at most to begin with (`TreeRowsAre`).  Ancestors are a least set, so that
those of a process are its parent and the parent's (`ParentAndAbove`), and who has
the same ancestors has the same parent, unless they form a cycle (`SameAncestors`).

`ControlProofs`, the config file, proves `SettingsSurvive` for any number of terminals and
starts and any file: `Kept(initial, file)` holds whenever nobody is writing and
nothing has damaged the file.  Its `IInv` adds that the lines a start has read
are kept too, and that while somebody is writing the file is kept or empty;
`UpdatedKeeps` shows that a kept text stays kept when the profile is replaced or
appended; two kept texts with a profile are alike (`KeptAreAlike`), so that a write
over what another terminal wrote leaves blank lines of it behind and nothing else
(`OverlayKeeps`), which neither lose a line nor choose a profile (`BlanksKeep`,
`BlanksChoose`).  Of a file that a failed or killed write has damaged it says
nothing.  `ChoiceIsObeyed` adds
`WrittenInv`: unless somebody is about to write, the file's only `view_profile`
line is the one written last (`UpdatedIsChosen`), and no other line changes the
profile that is loaded (`LineParsed`, `ChosenIsLoaded`).

`ControlProofs`, the keyboard.  `StreamInv` takes the bytes read and the bytes
waiting as one stream of whole messages, of which only the first may have lost
its beginning.  A read moves the boundary between the two, a key pushed back
moves it back, and neither changes the stream: so `BytesAreAccounted` has only to
look at the step that returns, where what is used up is of one message, or the Esc
key and what it swallows (`ReturnedRead`).  `ReadingInv` says what can have been read before the present byte, so that a
whole message ends in its own event and Esc is never taken for the start of what
follows it (`ParserDecodes`); here `TypingAssumption` is needed, since `[`, `2`,
`1` and `~` typed right behind Esc are F10 whatever the parser does.
`ActsAccounted` needs `CutInv`: the pieces of a cut function key never reach the
prompt for a signal, because the Esc of its first byte has closed it and none of
the others opens it (`MiddleByte`), whereas the pieces of a mouse report do.

What TLC checks and no theorem states:

- Liveness (`Terminates`, `NobodyHangs`, the fair part of `ImplementsBoard` and
  `ImplementsCall`): fairness and ENABLED are beyond this prover.
- `TableRead` and `CutHarmless` speak of the tables that an instance holds.

## 5. Not modelled

- Memory gauges, load and battery: one reading copied into the snapshot.
- Drawing beyond the lines of the process window, and the themes: layout.
- Demo data, the GPU probe, the diagnostic tool, build, packaging and tests:
  fixed data and calls that keep nothing, and programs of their own.
- In modelled components: the wording of risks and workloads, the formatting of
  numbers, the heuristics that take a model's name out of a command line (a
  process's `flag` and `file` are their results), and why `kill` and
  `setpriority` fail.

Hazards without a property.  A child that writes faster than it is read keeps the
inner read loop from looking at the deadline (`darwin_sampler.cpp` 186): the
loop has no bound, and `powermetrics -n 1` writes one report.  Root figures
are looked up by a process id in data up to minutes old (955) and the selection
stays with an id whose process is gone (`main.cpp` 2219): looking up by the id is
all that the code and its documents say, so that a property could only repeat it.
A second `view_profile` line (`config.cpp` 189) is excepted as said above.

Hazards covered in part.  What a damaged write of the config file costs (210) is
excepted from `SettingsSurvive`: the code truncates first, and no document promises
more; of such a file only that it loads within the bounds is checked.  The exit
status of a child that was not reaped (`darwin_sampler.cpp` 202) does not reach
the caller, and no document says what `ok` means then.  The swap rate kept while
readings fail (635) is bounded and no more.

## 6. Plan

A `Screen` module may compose `ProcessRows`, `ProcessTable` and `Keyboard` over
one process list, so that a key cut in pieces meets a selection that moves.
