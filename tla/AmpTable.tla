------------------------------ MODULE AmpTable ------------------------------
(***************************************************************************)
(* parse_amp_data (src/root_metrics_parser.cpp): the figures of each       *)
(* process from the table of tasks powermetrics prints.  Columns are told  *)
(* apart by runs of spaces, which a wide number or a long name may close.  *)
(*                                                                         *)
(* Text is a sequence of pieces: of letters, of digits (num is their       *)
(* value), or of space.  Adjacent pieces make a word.  A piece of digits   *)
(* says for which process and under which heading it was printed.          *)
(***************************************************************************)
EXTENDS Integers, Sequences, SequencesExt

Letters(text) == [text |-> text, numeric |-> FALSE, num |-> 0, row |-> 0, col |-> <<>>]

Digits(num, row, col) == [text |-> "", numeric |-> TRUE, num |-> num, row |-> row, col |-> col]

\* One space, more than one, the end of a line.
Space == Letters(" ")
Gap   == Letters("  ")
Eol   == Letters("eol")

\* The parts of a sequence between separators, the empty ones left out.
PartsBetween(s, separator) ==
  LET ends == SelectSeq([i \in 1..Len(s) + 1 |-> i],
                        LAMBDA i : i = Len(s) + 1 \/ s[i] = separator)
      parts == [k \in DOMAIN ends |->
                  SubSeq(s, IF k = 1 THEN 1 ELSE ends[k - 1] + 1, ends[k] - 1)]
  IN SelectSeq(parts, LAMBDA part : part # <<>>)

\* std::getline; blank lines are passed over.
LinesOf(text) == PartsBetween(text, Eol)

\* trim_copy.
TrimCopy(s) ==
  LET solid == {i \in DOMAIN s : s[i] \notin {Space, Gap}}
  IN IF solid = {} THEN <<>> ELSE SubSeq(s, Min(solid), Max(solid))

SplitMultiSpace(line) ==
  LET fields == PartsBetween(line, Gap)
  IN [i \in DOMAIN fields |-> TrimCopy(fields[i])]

WordsOf(field) == PartsBetween(field, Space)

IsNumericField(word) == \A i \in DOMAIN word : word[i].numeric

\* The numbers of a field that holds several and nothing else.
SplitNumericSubfields(field) ==
  LET words == WordsOf(field)
  IN IF Len(words) > 1 /\ \A i \in DOMAIN words : IsNumericField(words[i]) THEN words ELSE <<>>

Replaced(fields, i, parts) == SubSeq(fields, 1, i - 1) \o parts \o SubSeq(fields, i + 1, Len(fields))

\* Mutant of SplitFirst: only a pair is taken apart.
SplitFirstPair(fields) ==
  LET merged == {i \in DOMAIN fields : Len(SplitNumericSubfields(fields[i])) = 2}
  IN IF merged = {} THEN fields
     ELSE Replaced(fields, Min(merged), SplitNumericSubfields(fields[Min(merged)]))

SplitFirst(fields) ==
  LET merged == {i \in DOMAIN fields : SplitNumericSubfields(fields[i]) # <<>>}
  IN IF merged = {} THEN fields
     ELSE Replaced(fields, Min(merged), SplitNumericSubfields(fields[Min(merged)]))

\* Fields are taken apart, first to last, while there are too few of them.
SplitMergedNumericFields(fields, size) ==
  FoldLeft(LAMBDA found, i : IF Len(found) < size THEN SplitFirst(found) ELSE found,
           fields, [i \in 1..size |-> i])

-----------------------------------------------------------------------------
(***************************************************************************)
(* Headings are sequences of words.                                        *)
(***************************************************************************)

HeadingOf(field) == LET words == WordsOf(field) IN [i \in DOMAIN words |-> words[i][1].text]

Percentages == {"%PCPU", "%SCPU"}

\* Mutant of ExpandHeading: the percentage comes first.
ExpandHeadingSwapped(heading) ==
  LET percent == {i \in DOMAIN heading : i > 1 /\ heading[i] \in Percentages}
      i == Min(percent)
  IN IF percent = {} THEN <<heading>>
     ELSE <<SubSeq(heading, i, Len(heading)), SubSeq(heading, 1, i - 1)>>

\* One heading over two columns, or two with one space between them.
ExpandHeading(heading) ==
  LET percent == {i \in DOMAIN heading : i > 1 /\ heading[i] \in Percentages}
      i == Min(percent)
  IN CASE heading[1] = "Deadlines" /\ Len(heading) > 1 -> << <<"Deadline<2ms">>, <<"Deadline2-5ms">> >>
       [] heading[1] = "Wakeups" /\ Len(heading) > 1 -> << <<"WakeupsIntr">>, <<"WakeupsPkgIdle">> >>
       [] percent # {} -> <<SubSeq(heading, 1, i - 1), SubSeq(heading, i, Len(heading))>>
       [] OTHER -> <<heading>>

ExpandAmpHeader(fields) == FlattenSeq([i \in DOMAIN fields |-> ExpandHeading(HeadingOf(fields[i]))])

-----------------------------------------------------------------------------
(***************************************************************************)
(* One row, as a function from headings to fields.                         *)
(***************************************************************************)

\* Mutant of Fits: the last columns may be missing.
FitsShort(values, header) == Len(values) <= Len(header)

Fits(values, header) == Len(values) = Len(header)

\* Of two columns with one heading, the last.
RowOf(header, values) ==
  [heading \in Range(header) |->
     values[Max({i \in DOMAIN values : header[i] = heading} \cup {1})]]

Has(row, heading) == heading \in DOMAIN row

\* atoi of a field.
Number(field) ==
  LET word == WordsOf(field)[1]
  IN IF IsNumericField(word) THEN FoldLeft(LAMBDA n, piece : 100 * n + piece.num, 0, word) ELSE 0

PidOf(row) ==
  IF Has(row, <<"ID">>) THEN Number(row[<<"ID">>])
  ELSE IF Has(row, <<"PID">>) THEN Number(row[<<"PID">>])
  ELSE 0

\* The share of the faster cores: printed, or of two times.
CoreMix(row, hasSuper) ==
  LET total == <<"CPU", "ms/s">>
      faster == IF hasSuper THEN "S" ELSE "P"
      Mix(label, headings) == [label |-> label, share |-> [i \in DOMAIN headings |-> row[headings[i]]]]
      HasTimes(time) == Has(row, time) /\ Has(row, total)
  IN IF Has(row, <<"%SCPU">>) THEN Mix(faster, << <<"%SCPU">> >>)
     ELSE IF HasTimes(<<"SCPU", "ms/s">>) THEN Mix(faster, << <<"SCPU", "ms/s">>, total >>)
     ELSE IF Has(row, <<"%PCPU">>) THEN Mix("P", << <<"%PCPU">> >>)
     ELSE IF HasTimes(<<"PCPU", "ms/s">>) THEN Mix("P", << <<"PCPU", "ms/s">>, total >>)
     ELSE Mix("P", <<>>)

Mentions(heading, words) == Range(heading) \cap words # {}

IoHeadings(row) == {h \in DOMAIN row : Mentions(h, {"Disk", "Bytes/s"})}

\* The columns that are summed as read and as written.
Io(row) ==
  LET read == {h \in IoHeadings(row) : Mentions(h, {"Read"})}
      write == {h \in IoHeadings(row) \ read : Mentions(h, {"Write", "Written"})}
  IN [read |-> {row[h] : h \in read}, write |-> {row[h] : h \in write}]

EnergyHeadings(row) == {h \in DOMAIN row : Mentions(h, {"Energy", "Impact"})}

-----------------------------------------------------------------------------

\* AmpData, by process id.
NoAmpData == [core_mix |-> <<>>, io |-> <<>>, power |-> <<>>]

Put(map, key, value) == [k \in DOMAIN map \cup {key} |-> IF k = key THEN value ELSE map[k]]

WithRow(amp, row, hasSuper) ==
  LET pid == PidOf(row)
  IN IF pid <= 0 THEN amp
     ELSE [core_mix |-> Put(amp.core_mix, pid, CoreMix(row, hasSuper)),
           io       |-> IF IoHeadings(row) = {} THEN amp.io
                        ELSE Put(amp.io, pid, Io(row)),
           power    |-> IF EnergyHeadings(row) = {} THEN amp.power
                        ELSE Put(amp.power, pid, row[CHOOSE h \in EnergyHeadings(row) : TRUE])]

IsHeader(line) ==
  /\ line[1].text = "Name"
  /\ \E i \in DOMAIN line :
       /\ line[i].text \in {"CPU", "SCPU", "PCPU"} /\ i + 2 \in DOMAIN line
       /\ line[i + 1] = Space /\ line[i + 2].text = "ms/s"

\* Outside the table of tasks; in it, with the headings read last; past it.
ReadLine(state, line, hasSuper) ==
  LET trimmed == TrimCopy(line)
      values == SplitMergedNumericFields(SplitMultiSpace(trimmed), Len(state.header))
  IN IF state.place = "past" \/ trimmed = <<>> THEN state
     ELSE IF trimmed[1].text = "Running tasks" THEN [state EXCEPT !.place = "in"]
     ELSE IF state.place = "before" THEN state
     ELSE IF trimmed[1].text = "****" THEN [state EXCEPT !.place = "past"]
     ELSE IF IsHeader(trimmed)
          THEN [state EXCEPT !.header = ExpandAmpHeader(SplitMultiSpace(trimmed))]
     ELSE IF state.header = <<>> \/ ~Fits(values, state.header) THEN state
     ELSE [state EXCEPT !.result = WithRow(@, RowOf(state.header, values), hasSuper)]

ParseAmpData(text, hasSuper) ==
  FoldLeft(LAMBDA state, line : ReadLine(state, line, hasSuper),
           [place |-> "before", header |-> <<>>, result |-> NoAmpData], LinesOf(text)).result
=============================================================================
