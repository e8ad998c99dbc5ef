------------------------------ MODULE Keyboard ------------------------------
(***************************************************************************)
(* The input loop of main: the terminal's messages through InputParser     *)
(* into handle_input, as far as keys open and close popups and prompts,    *)
(* edit the signal number, change the settings, and act on the selected    *)
(* process or on mtop itself.  Which process is selected is ProcessTable's *)
(* subject; here there is one or none.                                     *)
(***************************************************************************)
EXTENDS InputParser, FiniteSets

CONSTANTS
  Under,      \* what is under the mouse where the reports point to: "row",
              \* "header", "nothing" or the function key of a button
  Refreshes,  \* refresh_ms the program may start with
  MaxQueued,  \* bound on messages not read to their end
  MaxTyped    \* bound on the characters of the signal prompt

\* The refresh interval that a configuration may set.
Lowest == 100
Highest == 60000

ASSUME KeyboardAssumption ==
  /\ Under \subseteq {"row", "header", "nothing"} \cup FunctionKeys
  /\ Refreshes \subseteq Lowest..Highest
  /\ MaxQueued \in Nat /\ MaxTyped \in Nat

VARIABLES
  open,      \* the popup shown, "none" without one
  field,     \* UiState setup_field
  theme, cached, refresh, \* AppConfig theme, refresh_ms; UiState show_cached_memory
  prompt,    \* UiState prompt_mode
  typed,     \* UiState prompt_buffer in the signal prompt
  selected,  \* UiState selected_pid is set
  running,   \* of main
  did        \* what the last step did to a process or to mtop, and by which bytes

settings == <<field, theme, cached, refresh>>
dialogs == <<open, settings, prompt, typed, selected>>
keyboardVars == <<input, dialogs, running, did>>

Fields == <<"Theme", "CachedMemory", "Refresh", "Done">>
Themes == <<"apple", "green", "mono">>
Prompts == {"None", "Search", "Filter", "Sort", "Signal"}
Printable == DOMAIN Digit \cup Letters \cup {"[", "]", "<", ";", "~"}

Clamp(n, low, high) == IF n < low THEN low ELSE IF n > high THEN high ELSE n

\* Characters the user did not type start the buffer as "15".
Default == <<[byte |-> "1", at |-> 1, of |-> "1"], [byte |-> "5", at |-> 1, of |-> "5"]>>

\* std::atoi, and the prompt's default and lower bound.
Leading(s) == CHOOSE n \in 0..Len(s) :
                /\ \A i \in 1..n : s[i] \in DOMAIN Digit
                /\ n < Len(s) => s[n + 1] \notin DOMAIN Digit
SignalNumber ==
  LET s == Text(typed)
      n == IF s = <<>> THEN 15 ELSE Number(SubSeq(s, 1, Leading(s)))
  IN IF n < 1 THEN 1 ELSE n

Idle == did' = [what |-> "nothing"] /\ UNCHANGED running

\* kill or setpriority, which may fail.
Acts(what, number) ==
  /\ UNCHANGED running
  /\ \/ did' = [what |-> "nothing"]
     \/ selected /\ did' = [what |-> what, number |-> number, typed |-> typed, bytes |-> read]

-----------------------------------------------------------------------------
(***************************************************************************)
(* handle_input for the key k.                                             *)
(***************************************************************************)

FieldAt == CHOOSE i \in DOMAIN Fields : Fields[i] = field

\* Mutant of Faster: the interval may become zero.
FasterUnclamped(ms) == ms - 250
Faster(ms) == Clamp(ms - 250, 250, 5000)
Slower(ms) == Clamp(ms + 250, 250, 5000)

\* The keys of the setup popup that do not close it.
SetupKey(k) ==
  /\ field' = CASE k = "Up" -> Fields[Clamp(FieldAt - 1, 1, 4)]
                [] k = "Down" -> Fields[Clamp(FieldAt + 1, 1, 4)]
                [] OTHER -> field
  /\ LET changed == IF k \in {"Left", "Right"} THEN field ELSE "none"
     IN /\ theme' = IF changed # "Theme" THEN theme
                    ELSE CASE theme = "apple" -> "green" [] theme = "green" -> "mono"
                           [] OTHER -> "apple"
        /\ cached' = (cached # (changed = "CachedMemory"))
        /\ refresh' = IF changed # "Refresh" THEN refresh
                      ELSE IF k = "Right" THEN Slower(refresh) ELSE Faster(refresh)

LineFeed == {"LF", "KeypadEnter"}
Closing == [help |-> {"Esc", "F1"} \cup LineFeed, detail |-> {"Esc", "d"} \cup LineFeed,
            setup |-> {"Esc", "F2"} \cup IF field = "Done" THEN LineFeed ELSE {}]

PopupKey(k) ==
  /\ open # "none"
  /\ open' = IF k \in Closing[open] THEN "none" ELSE open
  /\ IF open = "setup" /\ k \in {"Up", "Down", "Left", "Right"} THEN SetupKey(k)
     ELSE UNCHANGED settings
  /\ Idle /\ UNCHANGED <<prompt, typed, selected>>

\* Esc clears the filter of a filter prompt, and the selection with it; Enter
\* applies it, with the same effect; in the sort menu every key is an answer,
\* and most of them sort anew, without a selection.
EndPrompt(k) ==
  /\ k \in {"Esc"} \cup LineFeed
  /\ prompt' = "None" /\ typed' = <<>>
  /\ selected' = (selected /\ prompt # "Filter")
  /\ IF prompt = "Signal" /\ k # "Esc" THEN Acts("signal", SignalNumber) ELSE Idle

EditPrompt(k) ==
  /\ k \notin {"Esc"} \cup LineFeed
  /\ prompt' = IF prompt = "Sort" /\ k # "Back" THEN "None" ELSE prompt
  /\ typed' = IF prompt # "Signal" THEN typed
              ELSE IF k = "Back" THEN (IF typed = <<>> THEN <<>> ELSE Front(typed))
              ELSE IF k \in Printable THEN Append(typed, read[1])
              ELSE typed
  /\ selected' \in IF prompt \in {"Filter", "Sort"} THEN {selected, FALSE} ELSE {selected}
  /\ Idle

PromptKey(k) ==
  /\ open = "none" /\ prompt # "None"
  /\ EndPrompt(k) \/ EditPrompt(k)
  /\ UNCHANGED <<open, settings>>

Popups == [k \in {"F1", "F2"} \cup IF selected THEN {"d"} ELSE {} |->
            CASE k = "F1" -> "help" [] k = "F2" -> "setup" [] OTHER -> "detail"]
Opening == [k |-> "Signal", F9 |-> "Signal", F3 |-> "Search", F4 |-> "Filter", F6 |-> "Sort"]

\* Keys that mean nothing to the table; those not named anywhere move the
\* selection, search for it, or sort and filter it away.
Meaningless == {"Esc", "CR", "Back", "R", "Z", ";", "<", "~"} \cup LineFeed

Quits == {"q", "Q", "F10"}

TableKey(k) ==
  /\ open = "none" /\ prompt = "None"
  /\ open' = IF k \in DOMAIN Popups THEN Popups[k] ELSE open
  /\ prompt' = IF k \in DOMAIN Opening THEN Opening[k] ELSE prompt
  /\ typed' = IF k \in {"k", "F9"} THEN Default ELSE typed
  /\ selected' \in
       IF k \in DOMAIN Popups \cup DOMAIN Opening \cup Meaningless \cup Quits \cup {"[", "]", "d"}
       THEN {selected} ELSE BOOLEAN
  /\ CASE k \in Quits -> running' = FALSE /\ did' = [what |-> "quit", bytes |-> read]
       [] k = "[" -> Acts("nice", 1)
       [] k = "]" -> Acts("nice", -1)
       [] OTHER -> Idle
  /\ UNCHANGED settings

HandleKey(k) == PopupKey(k) \/ PromptKey(k) \/ TableKey(k)

\* synthesize_mouse_event: a button of the function bar is its key.
Clicked(place) ==
  \/ place \notin {"row", "header", "nothing"} /\ HandleKey(place)
  \/ /\ place \in {"row", "header", "nothing"}
     /\ selected' \in CASE place = "row" -> {TRUE}
                        [] place = "header" -> {selected, FALSE}
                        [] OTHER -> {selected}
     /\ Idle /\ UNCHANGED <<open, settings, prompt, typed>>

Handle ==
  /\ running /\ event # Nothing
  /\ CASE event.key = "unusable" -> Idle /\ UNCHANGED dialogs
       [] event.key = "Mouse" -> IF event.released THEN \E place \in Under : Clicked(place)
                                 ELSE Idle /\ UNCHANGED dialogs
       [] OTHER -> HandleKey(event.key)
  /\ Handled

-----------------------------------------------------------------------------
\* The environment writes as long as the bounds allow.
Ends(bytes) == Cardinality({i \in DOMAIN bytes : bytes[i].at = Len(Bytes(bytes[i].of))})

Send(m) ==
  /\ running
  /\ Ends(buffer) < MaxQueued
  /\ m \in {"Back", "Esc"} \cup LineFeed \/ Len(typed) + Ends(buffer) < MaxTyped
  /\ TerminalWrites(m)
  /\ did' = [what |-> "nothing"] /\ UNCHANGED <<dialogs, running>>

ReadKey ==
  /\ running /\ ReadEvent
  /\ did' = [what |-> "nothing"] /\ UNCHANGED <<dialogs, running>>

KeyboardInit ==
  /\ InputInit
  /\ open = "none" /\ field = "Theme" /\ theme = "apple" /\ cached = FALSE
  /\ refresh \in Refreshes
  /\ prompt = "None" /\ typed = <<>> /\ selected = FALSE
  /\ running = TRUE /\ did = [what |-> "nothing"]

KeyboardNext == (\E m \in session : Send(m)) \/ ReadKey \/ Handle

KeyboardSpec == KeyboardInit /\ [][KeyboardNext]_keyboardVars

-----------------------------------------------------------------------------
(***************************************************************************)
(* Properties.                                                             *)
(***************************************************************************)

\* The values each variable takes; the refresh interval stays one that the
\* configuration could have set.
KeyboardTypeOK ==
  /\ open \in {"none", "help", "setup", "detail"} /\ field \in Range(Fields)
  /\ theme \in Range(Themes) /\ cached \in BOOLEAN /\ refresh \in Lowest..Highest
  /\ prompt \in Prompts
  /\ open # "none" => prompt = "None"
  /\ selected \in BOOLEAN /\ running \in BOOLEAN
  /\ Len(read) <= 3 + PayloadGuard \/ Len(read) <= 3 + SequenceGuard

Whole(bytes) == bytes # <<>> /\ Text(bytes) = Bytes(bytes[1].of) /\ bytes[1].at = 1

\* What the messages mean.
Meaning(m) ==
  CASE m = "Press" -> Mouse(1, 8, FALSE)
    [] m = "Release" -> Mouse(1, 8, TRUE)
    [] m = "RightRelease" -> Mouse(1, 8, FALSE)
    [] m = "Return" -> KeyEvent("CR")
    [] OTHER -> KeyEvent(m)

\* Whatever came before and however it arrives: reading that begins with a
\* message ends with that message and returns what it means, unless a read
\* found nothing of the rest of it; then the call returns Esc or nothing, and
\* never another key.
WholeIsDecoded ==
  event = Nothing /\ event' # Nothing /\ read' # <<>> /\ read'[1].at = 1 /\ read'[1].of # "Esc" =>
    \/ Whole(read') /\ event' = Meaning(read'[1].of)
    \/ Len(read') <= Len(read) /\ event' \in {KeyEvent("Esc"), Unusable}

\* Bytes of one message, one behind the other.
OneMessage(bytes) ==
  \A i \in DOMAIN bytes : bytes[i].of = bytes[1].of /\ bytes[i].at = bytes[1].at + i - 1

\* The Esc key with what is read behind it and dropped: two bytes that have
\* arrived with it, of whatever keys they are, and behind a bracket and a digit
\* or "<" as many as a sequence or a report may have.
SwallowedByEsc(bytes) ==
  /\ bytes[1].of = "Esc" /\ Len(bytes) >= 3
  /\ Len(bytes) > 3 => GoesOn(bytes[2].byte, bytes[3].byte)

\* Where the bytes go: until a call returns, every byte it has read is kept or
\* given back, to be read again before those behind it; and what a returning call
\* uses up is of one message, unless it began with the Esc key and swallowed two
\* keys or more that had arrived behind it.  A single key behind Esc is not lost.
BytesAccounted ==
  [][event = Nothing =>
       /\ IsPrefix(read \o buffer, read' \o buffer')
       /\ event' # Nothing => OneMessage(read') \/ SwallowedByEsc(read')]_keyboardVars

\* The Esc key is never taken for the beginning of another key, whatever
\* arrives behind it in the same burst.
EscIsEsc ==
  event = Nothing /\ event' # Nothing /\ read' # <<>> /\ read'[1].of = "Esc" => event' = KeyEvent("Esc")

\* read_input_event returns what was pressed.
KeysDecoded == [][EscIsEsc /\ WholeIsDecoded]_keyboardVars

\* A process or mtop is acted on by a whole key or click, and by two pieces of a
\* key or report that was cut, which are taken for keys of their own: the second
\* byte, "[", changes the nice value, and the Q that ends F2 quits.  No other piece
\* acts, and none sends a signal.
ActsByKeyOrNamedPiece ==
  CASE did.what = "signal" -> Whole(did.bytes)
    [] did.what = "quit" -> Whole(did.bytes) \/ (did.bytes[1].of = "F2" /\ did.bytes[1].at = 3)
    [] did.what = "nice" -> Whole(did.bytes) \/ did.bytes[1].at = 2
    [] OTHER -> TRUE

\* The number of a signal is made of characters that were typed into the prompt
\* and of those of a mouse report that was cut; the pieces of a function key close
\* the prompt before they could change it.
NumberTypedOrReported ==
  did.what = "signal" =>
    \A i \in DOMAIN did.typed :
      \/ did.typed[i].of = did.typed[i].byte
      \/ did.typed[i].of \in {"Press", "Release", "RightRelease"}

\* What a process or mtop is acted on by: the user's keys and clicks, or one of
\* three kinds of pieces that the user never pressed.
ActsAccounted == KeyboardTypeOK /\ ActsByKeyOrNamedPiece /\ NumberTypedOrReported

\* README.md, "Controls": "] / [: renice", "F9 or k: send signal", "F10 or q: quit".
\* What acts is a key or click that was made.
OnlyKeysAct == did.what \in {"nice", "signal", "quit"} => Whole(did.bytes)

\* The hints drawn into the popups: "Enter / Esc / d to close".  The Return key
\* closes the help and the process detail.
ReturnCloses ==
  [][(open \in {"help", "detail"} /\ event # Nothing /\ event' = Nothing /\ read[1].of = "Return")
       => open' = "none"]_keyboardVars
=============================================================================
