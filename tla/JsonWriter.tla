----------------------------- MODULE JsonWriter -----------------------------
(***************************************************************************)
(* class JsonWriter (src/snapshot_json.cpp).  The text it has written is   *)
(* represented by what a reader makes of it (JsonReader).                  *)
(***************************************************************************)
EXTENDS JsonReader

\* first_stack_, expecting_value_ and the text.
Writers == [first : Seq(BOOLEAN), expecting : BOOLEAN, reader : Readers]

\* before is what a reader made of the line ahead of this text.
NewWriter(before) == [first |-> <<>>, expecting |-> FALSE, reader |-> before]

\* Mutant of MemberPrefix: a container's first member is not remembered.
MemberPrefixForgets(w) ==
  IF w.first = <<>> \/ Last(w.first) THEN w ELSE [w EXCEPT !.reader = ReadComma(@)]

MemberPrefix(w) ==
  IF w.first = <<>> THEN w
  ELSE [w EXCEPT !.reader = IF Last(w.first) THEN @ ELSE ReadComma(@),
                 !.first[Len(w.first)] = FALSE]

ValuePrefix(w) == IF w.expecting THEN [w EXCEPT !.expecting = FALSE] ELSE MemberPrefix(w)

Begin(w, kind) ==
  [ValuePrefix(w) EXCEPT !.reader = ReadOpen(@, kind), !.first = Append(@, TRUE)]

End(w, kind) == [w EXCEPT !.reader = ReadClose(@, kind), !.first = Front(@)]

Key(w, name) == [MemberPrefix(w) EXCEPT !.reader = ReadKey(@, name), !.expecting = TRUE]

\* Numbers, truth values, and strings that are one of the program's own words.
Scalar(w) == [ValuePrefix(w) EXCEPT !.reader = ReadScalar(@)]

\* Mutant of EscapeChar: line ends are written as they are.
EscapeCharRaw(c) ==
  CASE c = "quote" -> <<"backslash", "quote">>
    [] c = "backslash" -> <<"backslash", "backslash">>
    [] OTHER -> <<c>>

EscapeChar(c) ==
  CASE c = "quote" -> <<"backslash", "quote">>
    [] c = "backslash" -> <<"backslash", "backslash">>
    [] c = "newline" -> <<"backslash", "n">>
    [] c = "control" -> <<"backslash", "u">>
    [] OTHER -> <<c>>

\* json_escape.
JsonEscape(text) == FlattenSeq([i \in DOMAIN text |-> EscapeChar(text[i])])

String(w, text) == [ValuePrefix(w) EXCEPT !.reader = ReadString(@, JsonEscape(text))]
=============================================================================
