---------------------------- MODULE InputParser ----------------------------
(***************************************************************************)
(* src/input_parser.cpp: read_input_event, one non-blocking read at a      *)
(* time.  The terminal writes messages of one or several bytes, and the    *)
(* bytes arrive at any time: in the middle of a message any read may find  *)
(* none.  Every byte remembers which message it belongs to, so that an     *)
(* event can be compared with what was sent; the parser looks at the byte  *)
(* alone.                                                                  *)
(***************************************************************************)
EXTENDS Integers, Sequences, SequencesExt

CONSTANTS
  Sessions,      \* what the user may press: for each session, its messages by name
  SequenceGuard, \* most bytes read after the first digit of a key sequence
  PayloadGuard   \* most bytes read of a mouse report

Digits == <<"0", "1", "2", "3", "4", "5", "6", "7", "8", "9">>
Digit == [d \in Range(Digits) |-> (CHOOSE i \in DOMAIN Digits : Digits[i] = d) - 1]

\* Function keys by what follows Esc O, and by what follows Esc [.
ShortKeys == [P |-> "F1", Q |-> "F2", R |-> "F3", S |-> "F4"]
LongKeys == << <<"F1", <<"1", "1", "~">>>>, <<"F2", <<"1", "2", "~">>>>, <<"F3", <<"1", "3", "~">>>>,
               <<"F4", <<"1", "4", "~">>>>, <<"F5", <<"1", "5", "~">>>>, <<"F6", <<"1", "7", "~">>>>,
               <<"F7", <<"1", "8", "~">>>>, <<"F8", <<"1", "9", "~">>>>, <<"F9", <<"2", "0", "~">>>>,
               <<"F10", <<"2", "1", "~">>>> >>

\* The first four are written in the short form.
FunctionKeys == Range(ShortKeys) \cup {LongKeys[i][1] : i \in 5..10}

\* main calls nonl(): the Return key is read as a carriage return, not as the
\* line feed that Ctrl-J is.
ReturnKey == "CR"

\* What the terminal writes.  A report is of a button, pressed (M) or released
\* (m) at a column and a line counted from one.
Report(button, x, y, final) == <<"Esc", "[", "<", button, ";">> \o <<x, ";", y, final>>
Bytes(m) ==
  CASE \E k \in DOMAIN ShortKeys : ShortKeys[k] = m ->
         <<"Esc", "O", CHOOSE k \in DOMAIN ShortKeys : ShortKeys[k] = m>>
    [] \E i \in 5..10 : LongKeys[i][1] = m ->
         LET s == LongKeys[CHOOSE i \in 5..10 : LongKeys[i][1] = m][2]
         IN <<"Esc", "[", s[1], s[2], s[3]>>
    [] m = "BackTab" -> <<"Esc", "[", "Z">>
    [] m = "Press" -> Report("0", "2", "9", "M")
    [] m = "Release" -> Report("0", "2", "9", "m")
    [] m = "RightRelease" -> Report("2", "2", "9", "m")
    [] m = "Return" -> <<ReturnKey>>
    [] OTHER -> <<m>>

\* Keys that are one byte, or one code of curses.
Plain ==
  DOMAIN Digit \cup
  {"Esc", "[", "]", "<", ";", "~", "M", "m", "O", "P", "Q", "R", "S", "Z", "d", "k", "q", "x",
   "CR", "LF", "KeypadEnter", "Back", "Up", "Down", "Left", "Right"}
Reports == {"Press", "Release", "RightRelease"}
Messages ==
  Plain \cup Reports \cup {"Return", "BackTab"} \cup FunctionKeys

\* What typed one by one behind Esc is a sequence, or the beginning of a report.
Spelled == {{"O", "P"}, {"O", "Q"}, {"O", "R"}, {"O", "S"}, {"[", "Z"}, {"[", "<"}, {"[", "~"}}

ASSUME ParserAssumption ==
  /\ SequenceGuard \in Nat /\ SequenceGuard >= 2 /\ PayloadGuard \in Nat \ {0}
  /\ UNION Sessions \subseteq Messages
  /\ \A m \in UNION Sessions : Len(Bytes(m)) - 3 <= PayloadGuard

\* Nobody types a sequence by hand: the bytes would be those of the key itself.
ASSUME TypingAssumption ==
  \A keys \in Sessions, sequence \in Spelled : ~(sequence \cup {"Esc"} \subseteq keys)

VARIABLES
  session, \* the messages of this session
  buffer,  \* bytes written and not read yet
  read,    \* the bytes read_input_event has read so far, [] between calls
  event    \* what it returned, until it is handled

input == <<session, buffer, read, event>>

Nothing == [key |-> "none"]     \* ERR
KeyEvent(k) == [key |-> k]
Mouse(x, y, released) == [key |-> "Mouse", x |-> x, y |-> y, released |-> released]

Text(bytes) == [i \in DOMAIN bytes |-> bytes[i].byte]
Number(s) == FoldLeft(LAMBDA n, d : 10 * n + Digit[d], 0, s)
AllDigits(s) == s # <<>> /\ Range(s) \subseteq DOMAIN Digit

\* sscanf("%d;%d;%d"): the three numbers in a record, or none at all.
Scanned(s) ==
  {[button |-> Number(SubSeq(s, 1, t[1] - 1)), x |-> Number(SubSeq(s, t[1] + 1, t[2] - 1)),
    y |-> Number(SubSeq(s, t[2] + 1, t[3]))] :
     t \in {u \in (DOMAIN s) \X (DOMAIN s) \X (DOMAIN s) :
       /\ u[1] < u[2] /\ s[u[1]] = ";" /\ s[u[2]] = ";"
       /\ AllDigits(SubSeq(s, 1, u[1] - 1)) /\ AllDigits(SubSeq(s, u[1] + 1, u[2] - 1))
       /\ AllDigits(SubSeq(s, u[2] + 1, u[3]))
       /\ u[3] = Len(s) \/ s[u[3] + 1] \notin DOMAIN Digit}}

\* Mutant of FromOne: the report is taken to count from zero.
FromZero(n) == n
FromOne(n) == IF n > 0 THEN n - 1 ELSE 0

\* The end of a mouse report, with its last byte, or with none of M and m.
Reported(payload, final) ==
  IF final \notin {"M", "m"} \/ Scanned(payload) = {} THEN Nothing
  ELSE LET r == CHOOSE n \in Scanned(payload) : TRUE
       IN Mouse(FromOne(r.x), FromOne(r.y), final = "m" /\ r.button % 4 = 0)

\* Mutants of Sequenced: the beginning of a sequence is enough; one that is not
\* known is passed over.
SequencedByPrefix(s) ==
  IF \E i \in DOMAIN LongKeys : IsPrefix(s, LongKeys[i][2])
  THEN KeyEvent(LongKeys[CHOOSE i \in DOMAIN LongKeys : IsPrefix(s, LongKeys[i][2])][1])
  ELSE KeyEvent("Esc")
SequencedOrUnusable(s) ==
  IF \E i \in DOMAIN LongKeys : LongKeys[i][2] = s
  THEN KeyEvent(LongKeys[CHOOSE i \in DOMAIN LongKeys : LongKeys[i][2] = s][1])
  ELSE [key |-> "unusable"]

\* A sequence behind Esc [, as far as it was read.
Sequenced(s) ==
  IF \E i \in DOMAIN LongKeys : LongKeys[i][2] = s
  THEN KeyEvent(LongKeys[CHOOSE i \in DOMAIN LongKeys : LongKeys[i][2] = s][1])
  ELSE KeyEvent("Esc")

\* isalpha of a byte; the code of the keypad's Enter key is cut to a W.
Letters == {"M", "m", "O", "P", "Q", "R", "S", "Z", "d", "k", "q", "x", "KeypadEnter"}

\* read_key: the next byte, which one read takes.
Take == buffer # <<>> /\ buffer' = Tail(buffer)
Took == Append(read, Head(buffer))
ReadOn == read' = Took /\ event' = Nothing
Returns(result) == read' = Took /\ event' = result

Calling == event = Nothing
Expects(n) == Calling /\ Len(read) = n

ReadFirst ==
  /\ Expects(0) /\ Take
  /\ IF Head(buffer).byte = "Esc" THEN ReadOn ELSE Returns(KeyEvent(Head(buffer).byte))

ReadSecond == Expects(1) /\ Take /\ ReadOn

\* Mutant of Decided: of an unknown pair the last byte is a key.
DecidedByThird(second, third) ==
  IF second = "O" /\ third \in DOMAIN ShortKeys THEN KeyEvent(ShortKeys[third])
  ELSE IF second = "[" /\ third = "Z" THEN KeyEvent("BackTab")
  ELSE KeyEvent(third)

\* What the first three bytes decide.
Decided(second, third) ==
  IF second = "O" /\ third \in DOMAIN ShortKeys THEN KeyEvent(ShortKeys[third])
  ELSE IF second = "[" /\ third = "Z" THEN KeyEvent("BackTab")
  ELSE KeyEvent("Esc")
GoesOn(second, third) == second = "[" /\ third \in DOMAIN Digit \cup {"<"}

ReadThird ==
  /\ Expects(2) /\ Take
  /\ IF GoesOn(read[2].byte, Head(buffer).byte) THEN ReadOn
     ELSE Returns(Decided(read[2].byte, Head(buffer).byte))

InReport == Calling /\ Len(read) > 2 /\ read[3].byte = "<"
InSequence == Calling /\ Len(read) > 2 /\ read[3].byte # "<"

\* A report read to its last byte, or to the guard, is no text any more: an
\* event with the key ERR, which the main loop passes over.
Unusable == [key |-> "unusable"]
Outcome(result) == IF result = Nothing THEN Unusable ELSE result

ReadReport ==
  /\ InReport /\ Take
  /\ LET next == Head(buffer).byte
         payload == SubSeq(Text(read), 4, Len(read))
     IN IF next \in {"M", "m"} THEN Returns(Outcome(Reported(payload, next)))
        ELSE IF Len(payload) + 1 = PayloadGuard THEN Returns(Unusable)
        ELSE ReadOn

ReadSequence ==
  /\ InSequence /\ Take
  /\ LET sequence == SubSeq(Text(Took), 3, Len(Took))
     IN IF Last(sequence) \in Letters \cup {"~"} \/ Len(sequence) - 1 = SequenceGuard
        THEN Returns(Sequenced(sequence)) ELSE ReadOn

\* Mutant of Unread: the byte is dropped.
UnreadDropped == UNCHANGED buffer /\ read' = Front(read)
\* unread_key(second)
Unread == buffer' = Cons(Last(read), buffer) /\ read' = Front(read)

\* A read in the middle of a sequence finds no byte: nothing more was written,
\* or it is still under way.
ReadNothing ==
  /\ Calling /\ read # <<>>
  /\ \/ Len(read) = 1 /\ event' = KeyEvent("Esc") /\ UNCHANGED <<buffer, read>>
     \/ Len(read) = 2 /\ event' = KeyEvent("Esc") /\ Unread
     \/ InReport /\ event' = Unusable /\ UNCHANGED <<buffer, read>>
     \/ InSequence /\ event' = Sequenced(SubSeq(Text(read), 3, Len(read))) /\ UNCHANGED <<buffer, read>>

ReadEvent ==
  /\ ReadFirst \/ ReadSecond \/ ReadThird \/ ReadReport \/ ReadSequence \/ ReadNothing
  /\ UNCHANGED session

TerminalWrites(m) ==
  /\ buffer' = buffer \o [i \in DOMAIN Bytes(m) |-> [byte |-> Bytes(m)[i], at |-> i, of |-> m]]
  /\ UNCHANGED <<session, read, event>>

InputInit == session \in Sessions /\ buffer = <<>> /\ read = <<>> /\ event = Nothing

\* One call of read_input_event is over and its event handled.
Handled == read' = <<>> /\ event' = Nothing /\ UNCHANGED <<session, buffer>>
=============================================================================
