--------------------------- MODULE MCTaskCommand ---------------------------
(***************************************************************************)
(* TaskCommand for TLC.  The tables are those of the parser's tests with   *)
(* the columns of several versions of powermetrics.                        *)
(***************************************************************************)
EXTENDS TaskCommand

\* Words one space apart.
Spaced(words) ==
  FlattenSeq([i \in DOMAIN words |->
    IF i = 1 THEN <<Letters(words[i])>> ELSE <<Space, Letters(words[i])>>])

\* Fields a gap apart.
Apart(fields) ==
  FlattenSeq([i \in DOMAIN fields |-> IF i = 1 THEN fields[i] ELSE <<Gap>> \o fields[i]])

Title == <<Letters("Running tasks"), Eol>>
End   == <<Letters("****"), Eol, Letters("GPU"), Gap, Letters("12"), Eol>>
Cpu   == <<"CPU", "ms/s">>
Read  == <<"Disk", "Read", "Bytes/s">>
Write == <<"Disk", "Write", "Bytes/s">>
Energy == <<"Energy", "Impact">>

\* A heading that has run into its neighbour; numbers that have, in pairs and
\* threes; a name that ends in a number; no process; an id that has run into a
\* name; a row with a column blank.
Amps ==
  LET n(num, row, col) == <<Digits(num, row, col)>>
      Row(name, pid, numbers) == Apart(<<Spaced(name), n(pid, pid, <<"ID">>)>> \o numbers) \o <<Eol>>
  IN << Title \o Apart(<<<<Letters("Name")>>, <<Letters("ID")>>, Spaced(Cpu \o <<"%PCPU">>), Spaced(Read),
                         Spaced(Write), Spaced(Energy)>>) \o <<Eol>>,
        Spaced(<<"Foo", "2">>) \o <<Gap, Digits(32, 3201, <<"ID">>)>>,
        <<Digits(1, 3201, <<"ID">>), Gap>> \o n(80, 3201, Cpu) \o <<Space>> \o n(75, 3201, <<"%PCPU">>)
          \o <<Gap>> \o n(2048, 3201, Read) \o <<Gap>> \o n(1024, 3201, Write) \o <<Gap, Digits(4, 3201, Energy)>>,
        <<Digits(2, 3201, Energy), Eol>>
          \o Apart(<<Spaced(<<"DEAD_TASKS">>), n(-1, 0, <<"ID">>), n(0, 0, Cpu), n(0, 0, <<"%PCPU">>),
                     n(0, 0, Read), n(0, 0, Write), n(0, 0, Energy)>>) \o <<Eol>>
          \o Spaced(<<"a", "long", "name">>) \o <<Space>>,
        Apart(<<n(33, 33, <<"ID">>), n(1, 33, Cpu), n(2, 33, <<"%PCPU">>), n(3, 33, Read),
                n(4, 33, Write), n(5, 33, Energy)>>) \o <<Eol>>,
        Row(<<"x">>, 34, <<n(6, 34, Cpu) \o <<Space>> \o n(7, 34, <<"%PCPU">>) \o <<Space>> \o n(8, 34, Read),
                           n(9, 34, Write), n(10, 34, Energy)>>),
        Row(<<"y">>, 35, <<n(6, 35, Cpu), n(8, 35, Read), n(9, 35, Write), n(10, 35, Energy)>>),
        End >>

\* Times instead of percentages; one heading over two columns; a name of
\* numbers in a row that may be cut before its last figure.
Times2 ==
  LET n(num, row, col) == <<Digits(num, row, col)>>
      Row(name, pid) ==
        Apart(<<name, n(pid, pid, <<"PID">>), n(9, pid, Cpu), n(8, pid, <<"SCPU", "ms/s">>),
                n(1, pid, <<"Deadline<2ms">>)>>)
      Final(pid) == <<Gap>> \o n(2, pid, <<"Deadline2-5ms">>) \o <<Eol>>
  IN << Title,
        Apart(<<<<Letters("Name")>>, <<Letters("PID")>>, Spaced(Cpu), Spaced(<<"SCPU", "ms/s">>)>>),
        <<Gap>> \o Spaced(<<"Deadlines", "(<2 ms, 2-5 ms)">>) \o <<Eol>>,
        Row(n(12, 36, <<"Name">>) \o <<Space>> \o n(34, 36, <<"Name">>), 36),
        Final(36),
        Row(Spaced(<<"z">>), 37),
        Final(37) \o End >>

\* A name of numbers, in a row with two figures that have run together.
NumberNames ==
  LET n(num, row, col) == <<Digits(num, row, col)>>
  IN << Title,
        Apart(<<<<Letters("Name")>>, <<Letters("PID")>>, Spaced(Cpu), Spaced(<<"SCPU", "ms/s">>)>>) \o <<Eol>>,
        Apart(<<n(12, 36, <<"Name">>) \o <<Space>> \o n(34, 36, <<"Name">>), n(36, 36, <<"PID">>),
                n(9, 36, Cpu) \o <<Space>> \o n(8, 36, <<"SCPU", "ms/s">>)>>) \o <<Eol>>,
        End >>

\* Nothing to read.
NoTable == <<<<Letters("GPU"), Gap, Letters("12"), Eol>>>>

MCTexts == {Amps, Times2, NumberNames, NoTable}
=============================================================================
