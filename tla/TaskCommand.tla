---------------------------- MODULE TaskCommand ----------------------------
(***************************************************************************)
(* The task command of collect_root_metrics: powermetrics run by           *)
(* run_command_capture_result (CommandRunner) and whatever was captured of *)
(* its output read by parse_amp_data (AmpTable), also when the command was *)
(* stopped at the deadline in the middle of a line.                        *)
(***************************************************************************)
EXTENDS CommandRunner, AmpTable

CONSTANT
  Texts  \* what powermetrics may print: sequences of the texts it writes at once

ASSUME TextsAssumption == \A t \in Texts : Len(t) <= MaxOutput

VARIABLES
  printed,   \* what this one prints, if nothing stops it
  super      \* a performance level is called "Super"

taskVars == <<vars, printed, super>>

TaskInit == Init /\ printed \in Texts /\ super \in BOOLEAN

\* A child writes its text and no more.
TaskNext ==
  /\ Next
  /\ written' <= Len(printed)
  /\ UNCHANGED <<printed, super>>

TaskSpec == TaskInit /\ [][TaskNext]_taskVars /\ Fairness

-----------------------------------------------------------------------------

\* result.output parsed: AmpData amp, by the number of chunks captured.
AmpOf == [c \in {<<t, s, n>> \in Texts \X BOOLEAN \X (0..MaxOutput) : n <= Len(t)} |->
  ParseAmpData(FlattenSeq(SubSeq(c[1], 1, c[3])), c[2])]

Amp == AmpOf[printed, super, got]

WholeAmp == AmpOf[printed, super, Len(printed)]

-----------------------------------------------------------------------------
(***************************************************************************)
(* Properties.                                                             *)
(***************************************************************************)

Figures == {q \in Range(FlattenSeq(printed)) : q.numeric /\ q.col # <<"Name">>}

\* The processes whose name is nothing but numbers, several of them: to
\* split_merged_numeric_fields the name of a row that is short of a field, cut
\* or with figures that have run together, is figures that have run together.
NumberNamed ==
  {pid \in {q.row : q \in Figures} :
     \E line \in Range(LinesOf(FlattenSeq(printed))) :
       /\ pid \in {q.row : q \in Range(line)}
       /\ SplitNumericSubfields(SplitMultiSpace(TrimCopy(line))[1]) # <<>>}

\* Those with a number in their name that is pid.
Namesakes(pid) ==
  {other \in NumberNamed \ {pid} :
     \E q \in Range(FlattenSeq(printed)) : q.row = other /\ q.col = <<"Name">> /\ q.num = pid}

\* A field is one number, printed in the row of a process under a heading; or
\* it is from the row of a process whose name is taken for this one's id.
IsFigure(field, pid, headings) ==
  \/ \A i \in DOMAIN field : field[i].row = pid /\ field[i].col \in headings
  \/ \E i \in DOMAIN field : field[i].row \in Namesakes(pid)

Headings(words) == {piece.col : piece \in {q \in Range(FlattenSeq(printed)) : Mentions(q.col, words)}}

Times == {<<"PCPU", "ms/s">>, <<"SCPU", "ms/s">>}

\* Every figure reported of a process was printed for that process and under
\* the heading it is taken for, however numbers, headings or names have closed
\* the gaps between columns, and wherever the output was cut; but a figure of a
\* process named by numbers may be reported of the one whose id is in its name.
ColumnsAligned ==
  Finished =>
    /\ \A pid \in DOMAIN Amp.core_mix :
         LET share == Amp.core_mix[pid].share
         IN CASE Len(share) = 0 -> TRUE
              [] Len(share) = 1 -> IsFigure(share[1], pid, {<<"%PCPU">>, <<"%SCPU">>})
              [] Len(share) = 2 -> /\ IsFigure(share[1], pid, Times)
                                   /\ IsFigure(share[2], pid, {<<"CPU", "ms/s">>})
    /\ \A pid \in DOMAIN Amp.io :
         /\ \A field \in Amp.io[pid].read : IsFigure(field, pid, Headings({"Read"}))
         /\ \A field \in Amp.io[pid].write : IsFigure(field, pid, Headings({"Write"}))
    /\ \A pid \in DOMAIN Amp.power : IsFigure(Amp.power[pid], pid, Headings({"Energy"}))

Entry(amp, pid) == [column \in {c \in DOMAIN amp : pid \in DOMAIN amp[c]} |-> amp[column][pid]]

\* Stopped anywhere, the command reports no process it would not have reported,
\* but for one whose id is in the name of a process named by numbers; and what it
\* reports of all but one is what it would have: only the row captured last can
\* be cut.
CutHarmless ==
  Finished =>
    /\ \A pid \in DOMAIN Amp.core_mix \ DOMAIN WholeAmp.core_mix :
         \E q \in Range(FlattenSeq(Amp.core_mix[pid].share)) : q.row \in Namesakes(pid)
    /\ Cardinality({pid \in DOMAIN Amp.core_mix : Entry(Amp, pid) # Entry(WholeAmp, pid)}) <= 1

\* The processes that have a figure in every column, whose id stands apart from
\* their name and, if the name is numbers, whose figures stand apart too.
ReadableRows ==
  LET whole == FlattenSeq(printed)
      figures == {q \in Figures : q.row > 0}
      ColumnsOf(pid) == {q.col : q \in {x \in figures : x.row = pid}}
      Apart(pid) == \A j \in 2..Len(whole) : whole[j] \in figures /\ whole[j].row = pid => whole[j - 1] = Gap
  IN {q.row : q \in {whole[i] : i \in {j \in 2..Len(whole) :
        /\ whole[j] \in figures /\ whole[j - 1] = Gap
        /\ whole[j].col \in {<<"ID">>, <<"PID">>}
        /\ \A x \in figures : x.col \in ColumnsOf(whole[j].row)
        /\ whole[j].row \in NumberNamed => Apart(whole[j].row)}}}

\* A call that is ok and has the whole output reports every process in whose row
\* the name can be told from the id, whatever numbers have run into each other.
NoRowLost == (Finished /\ result.ok /\ written = Len(printed)) => ReadableRows \subseteq DOMAIN Amp.core_mix

\* But for names of numbers, parse_amp_data takes no figure for another's and no
\* row for unreadable.
TableRead == ColumnsAligned /\ NoRowLost
=============================================================================
