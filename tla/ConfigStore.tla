---------------------------- MODULE ConfigStore ----------------------------
(***************************************************************************)
(* The config file (src/config.cpp) and the starts of mtop that load it    *)
(* and, with -view, rewrite it (main, src/main.cpp).  Starts in several    *)
(* terminals overlap; any of them may fail or be killed at any step.  The  *)
(* lines of a write reach the file together: a file is shorter than the    *)
(* stream's buffer, which is flushed when the stream is closed.  Lines of  *)
(* one key and value are one text.                                         *)
(***************************************************************************)
EXTENDS ProcessSort, Sequences, SequencesExt

CONSTANTS
  Instances,   \* the terminals mtop is started in
  Files,       \* what the file may hold at first; a missing file is an empty one
  Bad,         \* a value that no parser accepts
  MaxLaunches  \* bound: the starts of a behaviour

Profiles == {"Alpha", "Beta"}
Views == {"Overview", "SystemIo", "GpuActive"}

\* The keys that differ in how they are parsed: refresh_ms stands for the four
\* bounded numbers, default_view for it and the other settings with a fallback.
\* Comments and unknown lines are "other"; "cut" is a piece of a line.
Lines ==
  [key : {"view_profile"}, value : Profiles \cup {Bad}]
    \cup [key : {"sort"}, value : Modes \cup {Bad}]
    \cup [key : {"sort_direction"}, value : Directions \cup {Bad}]
    \cup [key : {"refresh_ms"}, value : Int \cup {Bad}]
    \cup [key : {"default_view"}, value : Views \cup {Bad}]
    \cup [key : {"other", "blank", "cut"}, value : {Bad}]

Blank == [key |-> "blank", value |-> Bad]
Cut == [key |-> "cut", value |-> Bad]

ASSUME ConfigAssumption ==
  /\ Files \subseteq Seq(Lines)
  /\ \A text \in Files : \A i \in DOMAIN text : text[i] # Cut
  /\ MaxLaunches \in Nat
  /\ Bad \notin Int \cup Profiles \cup Views \cup Modes

MinRefresh == 100
MaxRefresh == 60000

Configs ==
  [view_profile : Profiles, sort : Modes, sort_direction : Directions,
   refresh_ms : MinRefresh..MaxRefresh, default_view : Views]

\* AppConfig as it is constructed.
Defaults ==
  [view_profile |-> "Alpha", sort |-> "Cpu", sort_direction |-> -1,
   refresh_ms |-> 1000, default_view |-> "Overview"]

VARIABLES
  file,     \* the lines of the config file
  pc,       \* per terminal, the step its mtop is at; "off" when none runs
  view,     \* its options.view_profile: a profile, "none", or "bad"
  config,   \* its AppConfig
  lines,    \* what its persist_view_profile has read
  launches, \* the starts so far
  initial,  \* history: the lines at first
  written,  \* history: the profile last written whole, or "none"
  damaged   \* history: a write failed or was killed, or lines were read while
            \* another start had truncated the file

vars == <<file, pc, view, config, lines, launches, initial, written, damaged>>

-----------------------------------------------------------------------------
(***************************************************************************)
(* load_config and what persist_view_profile makes of the lines.           *)
(***************************************************************************)

Clamped(n) ==
  IF n < MinRefresh THEN MinRefresh ELSE IF n > MaxRefresh THEN MaxRefresh ELSE n

\* Mutant of ParseLine: a number is taken as it is.
ParseLineUnclamped(loaded, line) ==
  IF line.key = "refresh_ms" /\ line.value # Bad
    THEN [loaded EXCEPT !.refresh_ms = line.value] ELSE loaded

\* parse_line: a value that does not parse leaves the setting alone, except that
\* of view_profile, which becomes alpha; sort also sets the direction.
ParseLine(loaded, line) ==
  CASE line.key = "view_profile" ->
         [loaded EXCEPT !.view_profile =
            IF line.value \in Profiles THEN line.value ELSE "Alpha"]
    [] line.key = "sort" ->
         LET mode == IF line.value = Bad THEN loaded.sort ELSE line.value
         IN [loaded EXCEPT !.sort = mode, !.sort_direction = DefaultDirection(mode)]
    [] line.key = "refresh_ms" ->
         [loaded EXCEPT !.refresh_ms = Clamped(IF line.value = Bad THEN @ ELSE line.value)]
    [] line.key \in {"sort_direction", "default_view"} /\ line.value # Bad ->
         [loaded EXCEPT ![line.key] = line.value]
    [] OTHER -> loaded

Load(text) ==
  LET after[n \in 0..Len(text)] ==
        IF n = 0 THEN Defaults ELSE ParseLine(after[n - 1], text[n])
  IN after[Len(text)]

IsProfile(line) == line.key = "view_profile"
HasProfile(text) == \E i \in DOMAIN text : IsProfile(text[i])
IsFirstProfile(text, i) == IsProfile(text[i]) /\ \A j \in 1..(i-1) : ~IsProfile(text[j])
Desired(profile) == [key |-> "view_profile", value |-> profile]

\* Mutant of Updated: a new line goes in front, as if the first one counted.
UpdatedInFront(text, profile) == <<Desired(profile)>> \o text

\* The first view_profile line is replaced; if there is none, one is appended.
Updated(text, profile) ==
  IF HasProfile(text)
    THEN [i \in DOMAIN text |-> IF IsFirstProfile(text, i) THEN Desired(profile) ELSE text[i]]
    ELSE Append(text, Desired(profile))

\* Two texts that differ in the first profile and in blank lines at the end only.
Alike(a, b) ==
  \A i \in DOMAIN a \cup DOMAIN b :
    IF i \in DOMAIN a \cap DOMAIN b
      THEN \/ a[i] = b[i] /\ a[i] # Cut
           \/ IsFirstProfile(a, i) /\ IsFirstProfile(b, i)
      ELSE (IF i \in DOMAIN a THEN a[i] ELSE b[i]) = Blank

\* By how much texts that are alike differ in length: a blank line is one byte,
\* and "alpha" is one longer than "beta".
Size(text) ==
  Len(text) + (IF \E i \in DOMAIN text : IsFirstProfile(text, i) /\ text[i] = Desired("Alpha")
               THEN 1 ELSE 0)

BlankLines(n) == [i \in 1..n |-> Blank]

\* What a write may leave of a text that it does not cover: perhaps the end of a
\* line, and the lines after it.
Remains(old) ==
  {<<>>} \cup UNION {{rest, <<Blank>> \o rest, <<Cut>> \o rest} :
                      rest \in {SubSeq(old, k, Len(old)) : k \in 2..(Len(old) + 1)}}

\* What the file holds after new is written from its beginning over old, which
\* is what another start wrote since this one truncated the file.  Over a longer
\* text that is alike it leaves the ends of lines, which are blank lines.
Overlay(new, old) ==
  IF new = <<>> THEN {old}
  ELSE IF Alike(new, old) THEN {new \o BlankLines(Size(old) - Size(new))}
  ELSE {new \o rest : rest \in Remains(old)}

-----------------------------------------------------------------------------
Init ==
  /\ file \in Files /\ initial = file
  /\ pc = [i \in Instances |-> "off"]
  /\ view = [i \in Instances |-> "none"]
  /\ config = [i \in Instances |-> Defaults]
  /\ lines = [i \in Instances |-> <<>>]
  /\ launches = 0
  /\ written = "none"
  /\ damaged = FALSE

\* parse_args
Launch(i) ==
  /\ pc[i] = "off" /\ launches < MaxLaunches
  /\ \E option \in Profiles \cup {"none", "bad"} : view' = [view EXCEPT ![i] = option]
  /\ pc' = [pc EXCEPT ![i] = "load"]
  /\ launches' = launches + 1
  /\ UNCHANGED <<file, config, lines, initial, written, damaged>>

\* The end of a start or of the program it started.
End(i) ==
  /\ pc' = [pc EXCEPT ![i] = "off"]
  /\ view' = [view EXCEPT ![i] = "none"]
  /\ config' = [config EXCEPT ![i] = Defaults]
  /\ lines' = [lines EXCEPT ![i] = <<>>]

\* load_config: without HOME, or when the file cannot be read, the defaults.
\* An unknown profile ends the start only after that.
LoadConfig(i) ==
  /\ pc[i] = "load"
  /\ IF view[i] = "bad" THEN End(i)
     ELSE /\ \E loaded \in {Load(file), Defaults} : config' = [config EXCEPT ![i] = loaded]
          /\ pc' = [pc EXCEPT ![i] = IF view[i] = "none" THEN "run" ELSE "read"]
          /\ UNCHANGED <<view, lines>>
  /\ UNCHANGED <<file, launches, initial, written, damaged>>

Truncated(i) == \E j \in Instances \ {i} : pc[j] = "write"

ReadLines(i) ==
  /\ pc[i] = "read"
  /\ lines' = [lines EXCEPT ![i] = file]
  /\ pc' = [pc EXCEPT ![i] = "open"]
  /\ damaged' = (damaged \/ Truncated(i))
  /\ UNCHANGED <<file, view, config, launches, initial, written>>

\* No path, no permission to read, no directory, no permission to write.
PersistFails(i) ==
  /\ pc[i] \in {"read", "open"}
  /\ End(i)
  /\ UNCHANGED <<file, launches, initial, written, damaged>>

\* Mutant of Open: the lines are read after the file is truncated.
OpenThenRead(i) ==
  /\ pc[i] = "open"
  /\ file' = <<>>
  /\ lines' = [lines EXCEPT ![i] = file']
  /\ pc' = [pc EXCEPT ![i] = "write"]
  /\ UNCHANGED <<view, config, launches, initial, written, damaged>>

\* std::ofstream with trunc.
Open(i) ==
  /\ pc[i] = "open"
  /\ file' = <<>>
  /\ pc' = [pc EXCEPT ![i] = "write"]
  /\ UNCHANGED <<view, config, lines, launches, initial, written, damaged>>

\* config.view_profile = *options.view_profile, and the program runs.
Run(i) ==
  /\ config' = [config EXCEPT ![i].view_profile = view[i]]
  /\ pc' = [pc EXCEPT ![i] = "run"]
  /\ lines' = [lines EXCEPT ![i] = <<>>]
  /\ UNCHANGED view

Write(i) ==
  /\ pc[i] = "write"
  /\ file' \in Overlay(Updated(lines[i], view[i]), file)
  /\ written' = view[i]
  /\ Run(i)
  /\ UNCHANGED <<launches, initial, damaged>>

\* A part of the lines, the last one perhaps cut, is all that is written.  Seen
\* while there is more to write this ends the start; seen by nobody, because it
\* happens as the stream is closed, it does not.
WriteFails(i) ==
  /\ pc[i] = "write"
  /\ \E n \in 0..(Len(Updated(lines[i], view[i])) - 1), cut \in {<<>>, <<Cut>>} :
       file' \in Overlay(SubSeq(Updated(lines[i], view[i]), 1, n) \o cut, file)
  /\ damaged' = TRUE
  /\ End(i) \/ Run(i)
  /\ UNCHANGED <<launches, initial, written>>

\* The program quits, or is killed at any step; what it had not written is lost.
Stop(i) ==
  /\ pc[i] # "off"
  /\ damaged' = (damaged \/ pc[i] = "write")
  /\ End(i)
  /\ UNCHANGED <<file, launches, initial, written>>

\* The bound is reached and nothing runs.
NoneLeft ==
  /\ launches = MaxLaunches /\ \A i \in Instances : pc[i] = "off"
  /\ UNCHANGED vars

Next ==
  \/ NoneLeft
  \/ \E i \in Instances :
       \/ Launch(i) \/ LoadConfig(i) \/ ReadLines(i) \/ PersistFails(i)
       \/ Open(i) \/ Write(i) \/ WriteFails(i) \/ Stop(i)

Spec == Init /\ [][Next]_vars

-----------------------------------------------------------------------------
(***************************************************************************)
(* Properties.                                                             *)
(***************************************************************************)

\* The values each variable takes; a loaded number is within its bounds,
\* whatever the file says.
TypeOK ==
  /\ file \in Seq(Lines) /\ initial \in Files
  /\ pc \in [Instances -> {"off", "load", "read", "open", "write", "run"}]
  /\ view \in [Instances -> Profiles \cup {"none", "bad"}]
  /\ config \in [Instances -> Configs]
  /\ lines \in [Instances -> Seq(Lines)]
  /\ launches \in 0..MaxLaunches
  /\ written \in Profiles \cup {"none"}
  /\ damaged \in BOOLEAN

\* new is old but for the profile of its first view_profile line, or for one such
\* line after old when it has none, and for blank lines at the end.
Kept(old, new) ==
  /\ Len(old) <= Len(new)
  /\ \A i \in DOMAIN old :
       new[i] = old[i] \/ (IsFirstProfile(old, i) /\ IsFirstProfile(new, i))
  /\ \A i \in (Len(old) + 1)..Len(new) :
       IF HasProfile(old) \/ i > Len(old) + 1 THEN new[i] = Blank ELSE IsProfile(new[i])

Intact == ~damaged /\ \A i \in Instances : pc[i] # "write"

\* Of starts that overlap in any way, any of which may end before it truncates
\* the file, none costs it a line: settings, comments and their order survive, and
\* what is added are blank lines at the end, by which a longer text sticks out
\* behind the one written over it.  Not so once a write has failed or been killed,
\* or a start has read what another had truncated: then the lines are lost.
SettingsSurvive == Intact => Kept(initial, file)

\* README.md: "-view beta [...] switch immediately and persist the selected
\* profile."  What a start loads while no other is writing is the profile last
\* written, if no write has failed, been killed or been read half way, and if the
\* user has not two view_profile lines, of which the first is replaced and the
\* last obeyed.
ChoicePersists ==
  (/\ Intact /\ written # "none"
   /\ \A i, j \in DOMAIN initial :
        IsProfile(initial[i]) /\ IsProfile(initial[j]) => i = j)
  => Load(file).view_profile = written

-----------------------------------------------------------------------------
\* The inductive invariant: what a start has read before it truncates is kept
\* too; while somebody is about to write, the file is empty or already written.
IInv ==
  /\ file \in Seq(Lines) /\ initial \in Seq(Lines)
  /\ \A i \in DOMAIN initial : initial[i] # Cut
  /\ pc \in [Instances -> {"off", "load", "read", "open", "write", "run"}]
  /\ lines \in [Instances -> Seq(Lines)]
  /\ view \in [Instances -> Profiles \cup {"none", "bad"}]
  /\ \A i \in Instances : pc[i] \in {"read", "open", "write"} => view[i] \in Profiles
  /\ damaged \in BOOLEAN
  /\ ~damaged =>
       /\ \A i \in Instances : pc[i] \in {"open", "write"} => Kept(initial, lines[i])
       /\ IF \E i \in Instances : pc[i] = "write"
            THEN file = <<>> \/ (Kept(initial, file) /\ HasProfile(file))
            ELSE Kept(initial, file)

\* A start runs with settings the parsers allow and the profile written last.
ChoiceIsLoaded == TypeOK /\ ChoicePersists
=============================================================================
