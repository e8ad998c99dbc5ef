----------------------------- MODULE Workloads -----------------------------
(***************************************************************************)
(* AI workloads: which process is one (detect_workload_process), how they  *)
(* are grouped (build_workloads) and listed (build_ai_process_rows).       *)
(*                                                                         *)
(* A process is a record: pid, ppid, user; name; words, what a rule of the *)
(* detector or a filter may find in its command; flag, the base name after *)
(* --model or -m, and file, that of the first word with a model file's     *)
(* extension; rss, cpu; mix and io, as shown.                              *)
(***************************************************************************)
EXTENDS Integers, Sequences, FiniteSets, SequencesExt, FiniteSetsExt, Functions

Processes ==
  [pid : Nat \ {0}, ppid : Nat, user : STRING, name : STRING, words : SUBSET STRING,
   flag : STRING, file : STRING, rss : Nat, cpu : Nat, mix : STRING, io : STRING,
   command : Seq(STRING)]

\* What a process list is: no process twice.
ProcessLists ==
  {list \in Seq(Processes) : \A i, j \in DOMAIN list : list[i].pid = list[j].pid => i = j}

NoHint == ""

\* The rules of the detector, first match first: a mark is what one looks for in
\* the name or the command.  Without a label the process's name is taken; a hint
\* is looked for in the places given, in order.
Rule(mark, kind, role, title, places, confidence) ==
  [mark |-> mark, kind |-> kind, role |-> role, label |-> title,
   places |-> places, confidence |-> confidence]

Rules == <<
  Rule("ollama",          "Ollama",   "Manager", "ollama",        <<>>,               96),
  Rule("ollama + runner", "Ollama",   "Runner",  "ollama runner", <<"flag", "file">>, 95),
  Rule(".ollama",         "Ollama",   "Runner",  "ollama",        <<"flag", "file">>, 72),
  Rule("llama-server",    "LlamaCpp", "Server",  "",              <<"flag", "file">>, 94),
  Rule(".gguf",           "LlamaCpp", "Runner",  "",              <<"flag", "file">>, 70),
  Rule("mlx-lm",          "Mlx",      "Server",  "",              <<"flag", "file">>, 93),
  Rule("mlx",             "Mlx",      "Worker",  "",              <<"flag", "file">>, 68),
  Rule("lm studio",       "LmStudio", "Server",  "LM Studio",     <<"flag", "file">>, 92),
  Rule("comfyui",         "ComfyUi",  "Server",  "ComfyUI",       <<"file">>,         92),
  Rule("diffusion",       "ComfyUi",  "Worker",  "ComfyUI",       <<"file">>,         72),
  Rule("uvicorn",         "Python",   "Server",  "",              <<"flag", "file">>, 84),
  Rule("transformers",    "Python",   "Worker",  "",              <<"flag", "file">>, 66),
  Rule("model file",      "Generic",  "Unknown", "",              <<"file">>,         62)>>

Hint(p, places) ==
  LET found == SelectSeq(places, LAMBDA place : p[place] # NoHint)
  IN IF found = <<>> THEN NoHint ELSE p[found[1]]

Marks(p) ==
  p.words \cup {p.name} \cup (IF p.file # NoHint THEN {"model file"} ELSE {})

Detect(p) ==
  LET matching == {i \in DOMAIN Rules : Rules[i].mark \in Marks(p)}
      r == Rules[Min(matching)]
  IN IF matching = {}
     THEN [kind |-> "Unknown", role |-> "Unknown", name |-> p.name,
           hint |-> NoHint, confidence |-> 0]
     ELSE [kind |-> r.kind, role |-> r.role,
           name |-> IF r.label = "" THEN p.name ELSE r.label,
           hint |-> Hint(p, r.places), confidence |-> r.confidence]

IsAi(p) == Detect(p).confidence >= 60

Detected(processes) == {p \in Range(processes) : IsAi(p)}

-----------------------------------------------------------------------------
(***************************************************************************)
(* Grouping.                                                               *)
(***************************************************************************)

\* Mutant of GroupingKey: the manager's own key is made from its process.
GroupingKeyOfPid(p, detected) ==
  LET d == Detect(p)
      managers == {m \in detected : /\ Detect(m).kind = "Ollama" /\ Detect(m).role = "Manager"
                                    /\ m.pid = p.ppid}
  IN CASE d.kind = "Ollama" /\ managers # {} ->
            <<d.kind, "manager", (CHOOSE m \in managers : TRUE).pid>>
       [] d.hint # NoHint -> <<d.kind, "model", d.hint>>
       [] OTHER -> <<d.kind, "pid", p.pid>>

\* The key of the group a process joins: the first Ollama manager, by process
\* id, that is it or its parent; a parent of its kind; its model; itself.
GroupingKey(p, detected) ==
  LET d == Detect(p)
      managers == {m \in detected : /\ Detect(m).kind = "Ollama" /\ Detect(m).role = "Manager"
                                    /\ m.pid \in {p.ppid, p.pid}}
  IN IF d.kind = "Ollama" /\ managers # {} THEN <<d.kind, "manager", Min({m.pid : m \in managers})>>
     ELSE IF \E q \in detected : q.pid = p.ppid /\ Detect(q).kind = d.kind
          THEN <<d.kind, "parent", p.ppid>>
     ELSE IF d.hint # NoHint THEN <<d.kind, "model", d.hint>>
     ELSE <<d.kind, "pid", p.pid>>

\* Mutant of BetterRepresentative: only a manager is better than what there is.
BetterManager(d, e) == d.role = "Manager" /\ e.role # "Manager"

\* The process found now speaks for the group instead of the one before.
BetterRepresentative(d, e) ==
  \/ d.role = "Manager" /\ e.role # "Manager"
  \/ d.role = "Server" /\ e.role \notin {"Manager", "Server"}
  \/ d.confidence > e.confidence

\* What is shown in place of a signal there is none of.
NoSignal == {"", "-", "n/a", "root", "wait", "stale", "parse", "denied"}

\* Mutant of FirstAvailable: only an empty text is replaced.
FirstNotEmpty(current, next) == IF current = "" THEN next ELSE current

FirstAvailable(current, next) ==
  IF current \in NoSignal /\ next # "" THEN next ELSE current

\* A group of its first process.
NewGroup(p) ==
  LET d == Detect(p)
  IN [kind |-> d.kind, hint |-> d.hint, name |-> d.name, io |-> p.io, mix |-> p.mix,
      pids |-> {p.pid}, rss |-> p.rss, cpu |-> p.cpu, speaker |-> d]

\* Mutant of Join: the group's memory is that of its largest process.
JoinLargest(w, p) ==
  [w EXCEPT !.pids = @ \cup {p.pid}, !.rss = Max({@, p.rss}), !.cpu = @ + p.cpu]

\* A group that one more process joins.
Join(w, p) ==
  LET d == Detect(p)
      better == BetterRepresentative(d, w.speaker)
  IN [kind |-> w.kind,
      hint |-> IF w.hint = NoHint \/ (better /\ d.hint # NoHint) THEN d.hint ELSE w.hint,
      name |-> IF better THEN d.name ELSE w.name,
      io   |-> FirstAvailable(w.io, p.io),
      mix  |-> IF w.mix \in {"", "-"} THEN p.mix ELSE w.mix,
      pids |-> w.pids \cup {p.pid},
      rss  |-> w.rss + p.rss,
      cpu  |-> w.cpu + p.cpu,
      speaker |-> IF better THEN d ELSE w.speaker]

\* The groups by their key, with one more process.
WithProcess(groups, key, p) ==
  [k \in DOMAIN groups \cup {key} |->
     IF k # key THEN groups[k] ELSE IF k \in DOMAIN groups THEN Join(groups[k], p)
     ELSE NewGroup(p)]

\* The groups of all processes: those of the first i, for each i.
Grouped(processes) ==
  LET detected == Detected(processes)
      Groups[i \in 0..Len(processes)] ==
        IF i = 0 THEN <<>>
        ELSE IF IsAi(processes[i])
        THEN WithProcess(Groups[i - 1], GroupingKey(processes[i], detected), processes[i])
        ELSE Groups[i - 1]
  IN Groups[Len(processes)]

\* make_id: the processes of a group are in order of their ids.
WorkloadId(w) == <<w.kind, IF w.hint # NoHint THEN w.hint ELSE Min(w.pids)>>

\* std::sort of distinct elements: those of which neither comes before the other
\* are in some order.
Sorted(S, Before(_, _)) ==
  CHOOSE s \in SetToSeqs(S) : \A i, j \in DOMAIN s : i < j => ~Before(s[j], s[i])

LargerWorkload(w, x) == w.rss > x.rss

BuildWorkloads(processes) == Sorted(Range(Grouped(processes)), LargerWorkload)

\* No two workloads are equal: they have different processes.
RssTotal(workloads) == SumFunction([w \in workloads |-> w.rss])

\* The process a workload knows by its id.
ProcessOf(processes, pid) == CHOOSE p \in Range(processes) : p.pid = pid

-----------------------------------------------------------------------------
(***************************************************************************)
(* The list of the alpha profile: every process, the detected ones first.  *)
(***************************************************************************)

RowBefore(p, q) ==
  IF IsAi(p) # IsAi(q) THEN IsAi(p)
  ELSE IF IsAi(p) /\ p.rss # q.rss THEN p.rss > q.rss
  ELSE p.cpu > q.cpu \/ (p.cpu = q.cpu /\ p.pid < q.pid)

BuildAiRows(processes) == Sorted(Range(processes), RowBefore)
=============================================================================
