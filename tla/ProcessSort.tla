---------------------------- MODULE ProcessSort ----------------------------
(***************************************************************************)
(* process_sort_less (src/process_sort.cpp): the order of the process      *)
(* table, for every sort mode and both directions.  IO and PWR are texts   *)
(* of powermetrics: missing ("n/a", "wait", "root", ...), a number or a    *)
(* pair of numbers, or something whose value is not finite.                *)
(***************************************************************************)
EXTENDS Integers

Modes == {"Pid", "Cpu", "Mem", "Time", "Name", "GpuActive", "Io", "Power"}
Directions == {-1, 1}

\* Of an IO text first and second are what stands before and after the slash;
\* a PWR text has no second part.
RootTexts == [kind : {"missing", "number", "infinite"}, first : Nat, second : Nat]

\* Percentages and times are numbers, a command its place among all commands.
Processes ==
  [pid : Nat, parent : Int, cpu : Nat, mem : Nat, time : Nat, name : Nat, gpu : BOOLEAN,
   io : RootTexts, power : RootTexts]

\* A score is a number, or beyond all numbers on one side or the other.
Scores == [side : {-1, 0, 1}, value : Nat]
Finite(n) == [side |-> 0, value |-> n]

Below(a, b) ==
  \/ a.side < b.side
  \/ a.side = b.side /\ a.value < b.value

MissingScore(direction) == [side |-> IF direction > 0 THEN 1 ELSE -1, value |-> 0]

\* Mutant of TextScore: a missing value counts as zero.
TextScoreZero(text, direction) ==
  IF text.kind = "number" THEN Finite(text.first + text.second) ELSE Finite(0)

\* io_score and power_score.
TextScore(text, direction) ==
  IF text.kind = "number" THEN Finite(text.first + text.second)
                          ELSE MissingScore(direction)

\* What a mode compares.
Key(p, mode, direction) ==
  CASE mode = "Pid"       -> Finite(p.pid)
    [] mode = "Cpu"       -> Finite(p.cpu)
    [] mode = "Mem"       -> Finite(p.mem)
    [] mode = "Time"      -> Finite(p.time)
    [] mode = "Name"      -> Finite(p.name)
    [] mode = "GpuActive" -> Finite(IF p.gpu THEN 1 ELSE 0)
    [] mode = "Io"        -> TextScore(p.io, direction)
    [] mode = "Power"     -> TextScore(p.power, direction)

\* Mutant of SortLess: equal keys are left equal.
SortLessNoTie(l, r, mode, direction) ==
  LET a == Key(l, mode, direction)
      b == Key(r, mode, direction)
  IN IF direction > 0 THEN Below(a, b) ELSE Below(b, a)

\* process_sort_less: by the key in the direction of the sort, then by pid.
SortLess(l, r, mode, direction) ==
  LET a == Key(l, mode, direction)
      b == Key(r, mode, direction)
  IN IF a = b THEN l.pid < r.pid
     ELSE IF direction > 0 THEN Below(a, b) ELSE Below(b, a)

\* cycle_sort and default_sort_direction (src/input_logic.cpp).
CycleSort ==
  [mode \in Modes |->
     CASE mode = "Pid"       -> "Cpu"
       [] mode = "Cpu"       -> "Mem"
       [] mode = "Mem"       -> "Time"
       [] mode = "Time"      -> "Name"
       [] mode = "Name"      -> "GpuActive"
       [] mode = "GpuActive" -> "Io"
       [] mode = "Io"        -> "Power"
       [] mode = "Power"     -> "Pid"]

\* Mutant of DefaultDirection: numbers have no direction.
DefaultDirectionUnset(mode) == IF mode \in {"Pid", "Name"} THEN 1 ELSE 0
DefaultDirection(mode) == IF mode \in {"Pid", "Name"} THEN 1 ELSE -1

\* Nothing to compare in a text that is not a number.
HasNoValue(p, mode) ==
  \/ mode = "Io" /\ p.io.kind # "number"
  \/ mode = "Power" /\ p.power.kind # "number"
=============================================================================
