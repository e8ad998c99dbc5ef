----------------------------- MODULE JsonReader -----------------------------
(***************************************************************************)
(* What any reader of JSON makes of a text, token by token: the reference  *)
(* the output is held against.  A string is read as the characters between *)
(* its quotes, where "\\" begins an escape.                                *)
(***************************************************************************)
EXTENDS Integers, Sequences, SequencesExt

\* A reader: the containers that are open, outermost first, each with what was
\* read last in it and its keys; whether the value is complete; whether the
\* text is no JSON; the strings read that were not fixed words.
Kinds == {"object", "array"}

Containers ==
  [kind : Kinds, phase : {"fresh", "comma", "key", "member"}, keys : SUBSET STRING]

Readers ==
  [open : Seq(Containers), done : BOOLEAN, bad : BOOLEAN, texts : Seq(Seq(STRING))]

NewReader == [open |-> <<>>, done |-> FALSE, bad |-> FALSE, texts |-> <<>>]

Container(kind) == [kind |-> kind, phase |-> "fresh", keys |-> {}]

Top(r) == Last(r.open)

Reject(r) == [r EXCEPT !.bad = TRUE]

WithPhase(r, phase) == [r EXCEPT !.open[Len(r.open)].phase = phase]

\* A value may come next.
Ready(r) ==
  IF r.open = <<>> THEN ~r.done
  ELSE \/ Top(r).kind = "array" /\ Top(r).phase \in {"fresh", "comma"}
       \/ Top(r).kind = "object" /\ Top(r).phase = "key"

\* A value came.
Settled(r) == IF r.open = <<>> THEN [r EXCEPT !.done = TRUE] ELSE WithPhase(r, "member")

ReadScalar(r) == IF Ready(r) THEN Settled(r) ELSE Reject(r)

ReadComma(r) ==
  IF r.open # <<>> /\ Top(r).phase = "member" THEN WithPhase(r, "comma") ELSE Reject(r)

ReadKey(r, name) ==
  IF /\ r.open # <<>>
     /\ Top(r).kind = "object"
     /\ Top(r).phase \in {"fresh", "comma"}
     /\ name \notin Top(r).keys
  THEN [r EXCEPT !.open[Len(r.open)] =
         [kind |-> Top(r).kind, phase |-> "key", keys |-> Top(r).keys \cup {name}]]
  ELSE Reject(r)

ReadOpen(r, kind) ==
  IF Ready(r) THEN [Settled(r) EXCEPT !.open = Append(@, Container(kind)), !.done = FALSE]
  ELSE Reject(r)

ReadClose(r, kind) ==
  IF r.open # <<>> /\ Top(r).kind = kind /\ Top(r).phase \in {"fresh", "member"}
  THEN [r EXCEPT !.open = Front(@), !.done = Len(r.open) = 1]
  ELSE Reject(r)

\* What an escaped character stands for; the characters no string holds as they are.
EscapeOf == [quote |-> "quote", backslash |-> "backslash", n |-> "newline", u |-> "control"]

Raw == {"newline", "control", "quote"}

\* One more character of a string; "bad" if none may come.
ReadChar(acc, c) ==
  IF acc.bad THEN acc
  ELSE IF acc.escape
       THEN IF c \in DOMAIN EscapeOf
            THEN [acc EXCEPT !.text = Append(@, EscapeOf[c]), !.escape = FALSE]
            ELSE [acc EXCEPT !.bad = TRUE]
  ELSE IF c = "backslash" THEN [acc EXCEPT !.escape = TRUE]
  ELSE IF c \in Raw THEN [acc EXCEPT !.bad = TRUE]
  ELSE [acc EXCEPT !.text = Append(@, c)]

\* The string the characters stand for, "bad" if they stand for none.
Unescaped(chars) ==
  LET Read[n \in 0..Len(chars)] ==
        IF n = 0 THEN [text |-> <<>>, escape |-> FALSE, bad |-> FALSE]
        ELSE ReadChar(Read[n - 1], chars[n])
      end == Read[Len(chars)]
  IN [text |-> end.text, bad |-> end.bad \/ end.escape]

ReadString(r, chars) ==
  IF Ready(r) /\ ~Unescaped(chars).bad
  THEN [Settled(r) EXCEPT !.texts = Append(@, Unescaped(chars).text)]
  ELSE Reject(r)
=============================================================================
