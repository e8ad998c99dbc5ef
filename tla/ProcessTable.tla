---------------------------- MODULE ProcessTable ----------------------------
(***************************************************************************)
(* The screen of src/main.cpp: frames, keys and mouse clicks over the      *)
(* process table, in either profile.  Any number of keys may be handled    *)
(* between two frames; they act on the rows of the last frame.  The order  *)
(* of the rows is ProcessRows' subject: here a frame                       *)
(* may arrange them in any way.  The prompt's buffer is always the text    *)
(* being edited (filter or search), so it has no variable; the number in   *)
(* the signal prompt, the fields of the setup popup, and the key that ends *)
(* the program are Keyboard's.                                             *)
(***************************************************************************)
EXTENDS Integers, Sequences, FiniteSets, SequencesExt

CONSTANTS
  Pids,     \* process ids, positive
  Texts,    \* search and filter texts, "" among them
  Match,    \* Match[t]: the processes whose name, command or user contains t
  AiMatch,  \* AiMatch[t]: and those whose workload label does
  Starts,   \* the configured profiles and default views
  Lists,    \* the process lists a sample may bring
  Heights   \* Heights[p]: page_rows of the windows a terminal showing p may have

Profiles == {"alpha", "beta"}
Views == {"Overview", "SystemIo", "GpuActive"}

ASSUME ScreenAssumption ==
  /\ Pids \subseteq Nat \ {0}
  /\ "" \in Texts
  /\ Match[""] = Pids
  /\ \A t \in Texts : Match[t] \subseteq AiMatch[t] /\ AiMatch[t] \subseteq Pids
  /\ Starts \subseteq Profiles \X Views
  /\ \A up \in Lists : up \subseteq Pids /\ IsFiniteSet(up)
  /\ \A p \in Profiles : Heights[p] \subseteq Nat \ {0}

Popups == {"help", "setup", "detail", "workload"}
Prompts == {"None", "Search", "Filter", "Sort", "Signal"}

VARIABLES
  profile,  \* UiState view_profile
  view,     \* UiState view_mode
  lines,    \* ProcessViewMetrics page_rows
  rows,     \* process_rows: ids in the order of the table
  ai,       \* AlphaModel process_rows
  selected, \* UiState selected_pid; 0 when not set
  page,     \* UiState table_page
  index,    \* UiState workload_index, counted from 0
  open,     \* the popups shown
  prompt,   \* UiState prompt_mode
  filter, search, pending, \* UiState filter, search, search_pending
  screen    \* what the last frame drew: the process on each line, the
            \* one marked, in which view, which page

state == <<profile, view, lines, rows, ai, screen>>
texts == <<filter, search, pending>>
vars == <<state, selected, page, index, open, prompt, texts>>

Clamp(n, low, high) == IF n < low THEN low ELSE IF n > high THEN high ELSE n

\* The line of a process, -1 when it has none; lines count from 0.
Place(list, pid) ==
  IF pid \in Range(list) THEN (CHOOSE i \in DOMAIN list : list[i] = pid) - 1 ELSE -1

-----------------------------------------------------------------------------
(***************************************************************************)
(* A frame: sample, build the rows, apply a search, place the page, draw.  *)
(***************************************************************************)

\* Mutant of Search: from the top, not from the selection.
SearchFromTop(list, base, matches) ==
  LET hits == {i \in 0..(Len(list) - 1) : list[i + 1] \in matches}
  IN IF hits = {} THEN base ELSE CHOOSE i \in hits : \A j \in hits : i <= j

\* apply_search_request and apply_alpha_search_request: the first match after
\* place base, the last to be tried being base itself.
Search(list, base, matches) ==
  LET n == Len(list)
      Tried(offset) == (base + offset + n) % n
      hits == {offset \in 1..n : list[Tried(offset) + 1] \in matches}
  IN IF hits = {} THEN base
     ELSE Tried(CHOOSE offset \in hits : \A o \in hits : offset <= o)

Found(list) ==
  LET hit == Search(list, Place(list, selected), Match[search])
  IN IF ~pending \/ profile = "alpha" \/ search = "" \/ list = <<>> \/ hit = -1
     THEN selected ELSE list[hit + 1]

AiFound(list) ==
  IF ~pending \/ profile # "alpha" \/ search = "" \/ list = <<>> THEN index
  ELSE Search(list, Clamp(index, -1, Len(list) - 1), AiMatch[search])

\* Mutant of Kept: the line stays marked, whatever process moves onto it.
KeptByLine(list, pid) ==
  LET line == Place(rows, pid)
  IN IF list = <<>> THEN 0 ELSE IF line \in 0..(Len(list) - 1) THEN list[line + 1] ELSE pid

\* calculate_process_metrics: the selection, and the page it is on.
Kept(list, pid) == IF list = <<>> THEN 0 ELSE pid

\* Mutants of PageOf: no rows are not told apart; the page is left alone.
PageOfNothing(list, pid, height) == Clamp(page, 0, (Len(list) - 1) \div height)
PageLeft(list, pid, height) ==
  IF list = <<>> THEN 0 ELSE Clamp(page, 0, (Len(list) - 1) \div height)

PageOf(list, pid, height) ==
  LET place == Place(list, pid)
      clamped == Clamp(page, 0, (Len(list) - 1) \div height)
  IN IF list = <<>> THEN 0
     ELSE IF place >= 0 /\ place \div height # clamped THEN place \div height
     ELSE clamped

\* draw_alpha_workloads_view, unless the window is too low for a list, and the
\* detail popup keep the index in the list.
IndexOf(list, i, height) ==
  IF height < 5 /\ (open # {"workload"} \/ list = <<>>) THEN i
  ELSE IF list = <<>> THEN 0 ELSE Clamp(i, 0, Len(list) - 1)

\* The processes on the lines of the process window, line 0 being the one below
\* the header of the process table.
Part(list, start, count, first) ==
  [line \in {l \in first..(first + count - 1) : start + l - first + 1 \in DOMAIN list} |->
     list[start + line - first + 1]]

AiRows(height) == Clamp(height - 3, 1, height)

Drawn(list, aiList, p, i, height) ==
  CASE profile = "alpha" ->
         IF height < 5 THEN <<>>
         ELSE Part(aiList, (i \div AiRows(height)) * AiRows(height), AiRows(height), 3)
    [] profile = "beta" /\ view = "Overview" -> Part(list, p * height, height, 0)
    [] profile = "beta" /\ view = "GpuActive" -> Part(list, p * height, height, 1)
    [] profile = "beta" /\ view = "SystemIo" -> <<>>

Marked(list, aiList, pid, i, height) ==
  IF profile = "alpha" THEN IF aiList = <<>> \/ height < 5 THEN 0 ELSE aiList[i + 1]
  ELSE IF view # "SystemIo" /\ pid \in Range(list) THEN pid ELSE 0

Listed(up) ==
  IF profile = "beta" /\ view = "GpuActive" THEN SUBSET (up \cap Match[filter])
  ELSE {up \cap Match[filter]}

\* A detail popup without a process is closed, unless another is in front.
StillOpen(list, aiList, pid) ==
  open \ CASE open \cap {"help", "setup"} # {} -> {}
           [] "workload" \in open -> IF aiList = <<>> THEN {"workload"} ELSE {}
           [] OTHER -> IF pid \in Range(list) THEN {} ELSE {"detail"}

Frame ==
  /\ \E up \in Lists :
       /\ \E S \in Listed(up) : rows' \in SetToSeqs(S)
       /\ ai' \in IF profile = "beta" THEN {<<>>} ELSE SetToSeqs(up \cap AiMatch[filter])
  /\ lines' \in Heights[profile]
  /\ pending' = FALSE
  /\ selected' = Kept(rows', Found(rows'))
  /\ page' = PageOf(rows', selected', lines')
  /\ index' = IF profile = "beta" THEN index ELSE IndexOf(ai', AiFound(ai'), lines')
  /\ screen' = [at |-> Drawn(rows', ai', page', index', lines'),
                mark |-> Marked(rows', ai', selected', index', lines'),
                view |-> view, page |-> page']
  /\ open' = StillOpen(rows', ai', selected')
  /\ UNCHANGED <<profile, view, prompt, filter, search>>

-----------------------------------------------------------------------------
(***************************************************************************)
(* The mouse (synthesize_mouse_event): not held back by popups or prompts. *)
(***************************************************************************)

\* Mutant of LineAt: lines are counted from one.
LineAtFromOne(line) == page * lines + line + 2
LineAt(line) == page * lines + line + 1

ClickLine(line) ==
  /\ LineAt(line) \in DOMAIN rows
  /\ selected' = rows[LineAt(line)]
  /\ UNCHANGED <<state, page, index, open, prompt, texts>>

Click == \E line \in 0..(lines - 1) : ClickLine(line)

\* set_sort_mode
Resort ==
  /\ page' = 0
  /\ selected' = 0
  /\ UNCHANGED <<state, index, texts>>

\* A click on the sorted column inverts the order and changes nothing here.
ClickHeader == view = "Overview" /\ Resort /\ UNCHANGED <<open, prompt>>

-----------------------------------------------------------------------------
(***************************************************************************)
(* Keys (handle_input), function bar buttons included.                     *)
(***************************************************************************)

\* Mutant of AtTable: the popups do not take the keys.
AtTableOrPopup == prompt = "None"
AtTable == open = {} /\ prompt = "None"

ListActive == profile = "beta" /\ view # "SystemIo"

Top == IF "help" \in open THEN "help" ELSE IF "detail" \in open THEN "detail"
       ELSE IF "workload" \in open THEN "workload" ELSE "setup"

ClosePopup ==
  /\ open # {}
  /\ open' = open \ {Top}
  /\ UNCHANGED <<state, selected, page, index, prompt, texts>>

\* Esc
CancelPrompt ==
  /\ open = {} /\ prompt # "None"
  /\ prompt' = "None"
  /\ filter' = IF prompt = "Filter" THEN "" ELSE filter
  /\ search' = IF prompt = "Search" THEN "" ELSE search
  /\ page' = IF prompt = "Filter" THEN 0 ELSE page
  /\ selected' = IF prompt = "Filter" THEN 0 ELSE selected
  /\ UNCHANGED <<state, index, open, pending>>

\* Enter.  In the signal prompt it sends the signal to selected.
Submit ==
  /\ open = {} /\ prompt # "None"
  /\ prompt' = "None"
  /\ pending' = (pending \/ prompt = "Search")
  /\ page' = IF prompt = "Filter" THEN 0 ELSE page
  /\ selected' = IF prompt = "Filter" THEN 0 ELSE selected
  /\ UNCHANGED <<state, index, open, filter, search>>

\* A letter or backspace, with update_live_prompt: the selection is looked up
\* among the rows of the filter as it was.
EditSearch ==
  /\ open = {} /\ prompt = "Search"
  /\ search' \in Texts
  /\ pending' = TRUE
  /\ UNCHANGED <<state, selected, page, index, open, prompt, filter>>

EditFilter ==
  /\ open = {} /\ prompt = "Filter"
  /\ filter' \in Texts
  /\ selected' = IF selected \in Range(rows) THEN selected ELSE 0
  /\ UNCHANGED <<state, page, index, open, prompt, search, pending>>

SortMenu ==
  /\ open = {} /\ prompt = "Sort"
  /\ prompt' = "None"
  /\ \/ Resort
     \/ UNCHANGED <<state, selected, page, index, texts>>
  /\ UNCHANGED open

Moved(list, from, delta) == Clamp(from + delta, 0, Len(list) - 1)

\* move_selection, Home and End.
Move ==
  /\ AtTable /\ ListActive
  /\ \E delta \in {-1, 1, -lines, lines} :
       selected' = IF rows = <<>> THEN 0
                   ELSE IF Place(rows, selected) >= 0
                        THEN rows[Moved(rows, Place(rows, selected), delta) + 1]
                   ELSE rows[IF delta >= 0 THEN 1 ELSE Len(rows)]
  /\ UNCHANGED <<state, page, index, open, prompt, texts>>

Jump ==
  /\ AtTable /\ ListActive /\ rows # <<>>
  /\ selected' \in {rows[1], rows[Len(rows)]}
  /\ UNCHANGED <<state, page, index, open, prompt, texts>>

\* move_workload_selection, Home and End.
MoveAi ==
  /\ AtTable /\ profile = "alpha"
  /\ \/ \E delta \in {-5, -1, 1, 5} :
          index' = IF ai = <<>> THEN 0 ELSE Moved(ai, index, delta)
     \/ index' = 0
     \/ ai # <<>> /\ index' = Len(ai) - 1
  /\ UNCHANGED <<state, selected, page, open, prompt, texts>>

\* apply_pid_search: digits select a row whose id starts with them, if any.
TypePid ==
  /\ AtTable /\ ListActive
  /\ selected' \in Range(rows)
  /\ UNCHANGED <<state, page, index, open, prompt, texts>>

SortKey == AtTable /\ Resort /\ UNCHANGED <<open, prompt>>

\* set_view_mode
ChangeView ==
  /\ AtTable /\ profile = "beta"
  /\ view' \in Views \ {view}
  /\ page' = 0
  /\ selected' = 0
  /\ open' = open \ {"detail"}
  /\ UNCHANGED <<profile, lines, rows, ai, screen, index, prompt, texts>>

OpenPrompt ==
  /\ AtTable
  /\ prompt' \in {"Search", "Filter", "Sort", "Signal"}
  /\ UNCHANGED <<state, selected, page, index, open, texts>>

OpenPopup ==
  /\ AtTable
  /\ open' \in {{"help"}, {"setup"}} \cup
               IF profile = "alpha" THEN {{"workload"} : r \in Range(ai)}
               ELSE {{"detail"} : p \in {selected} \ {0}}
  /\ UNCHANGED <<state, selected, page, index, prompt, texts>>

\* t, F5; the mode itself is ProcessRows'.
ToggleTree ==
  /\ AtTable /\ view = "Overview"
  /\ page' = 0
  /\ UNCHANGED <<state, selected, index, open, prompt, texts>>

\* x
ClearTexts ==
  /\ AtTable
  /\ filter' = "" /\ search' = ""
  /\ page' = 0
  /\ selected' = 0
  /\ UNCHANGED <<state, index, open, prompt, pending>>

Init ==
  /\ \E start \in Starts : profile = start[1] /\ view = start[2]
  /\ lines \in Heights[profile]
  /\ rows = <<>> /\ ai = <<>>
  /\ selected = 0 /\ page = 0 /\ index = 0
  /\ open = {} /\ prompt = "None"
  /\ filter = "" /\ search = "" /\ pending = FALSE
  /\ screen = [at |-> <<>>, mark |-> 0, view |-> view, page |-> 0]

Next ==
  \/ Frame
  \/ Click \/ ClickHeader
  \/ ClosePopup \/ CancelPrompt \/ Submit \/ EditSearch \/ EditFilter \/ SortMenu
  \/ Move \/ Jump \/ MoveAi \/ TypePid \/ SortKey \/ ChangeView
  \/ OpenPrompt \/ OpenPopup \/ ToggleTree \/ ClearTexts

Spec == Init /\ [][Next]_vars

-----------------------------------------------------------------------------
(***************************************************************************)
(* Properties.                                                             *)
(***************************************************************************)

\* The values each variable takes.
TypeOK ==
  /\ profile \in Profiles /\ view \in Views /\ lines \in Heights[profile]
  /\ Range(rows) \subseteq Pids /\ Range(ai) \subseteq Pids
  /\ selected \in Pids \cup {0}
  /\ page \in Nat /\ index \in Nat
  /\ open \subseteq Popups /\ prompt \in Prompts
  /\ filter \in Texts /\ search \in Texts /\ pending \in BOOLEAN
  /\ Range(screen.at) \subseteq Pids
  /\ screen.mark \in Pids \cup {0}

\* At most one popup or prompt takes the keys, so that the checks of
\* handle_input never hide one behind another.
OnePopup ==
  /\ Cardinality(open) <= 1
  /\ prompt # "None" => open = {}

\* The row a frame marks is among those it draws, after any reordering of the
\* table, change of its length or resize; in the alpha profile there is always
\* one, if the window is high enough for a list.
MarkIsDrawn ==
  /\ screen.mark # 0 => screen.mark \in Range(screen.at)
  /\ profile = "alpha" /\ ai # <<>> /\ lines >= 5 => screen.mark # 0

\* What the screen shows fits together: one dialog, and a marked row that is
\* drawn, on a page of the list.
ScreenConsistent == TypeOK /\ OnePopup /\ MarkIsDrawn

\* While the signal prompt waits for Enter, the process it will hit does not
\* change behind the user's back: only a click or a search submitted just
\* before the prompt was opened changes it, or it is dropped.
TargetHolds ==
  [][prompt = "Signal" /\ selected' # selected =>
       \/ selected' = 0
       \/ pending /\ selected' \in Match[search]
       \/ Click]_vars

\* A search goes to the nearest match below the selection, from the end on at
\* the top, and passes over none.
SearchFindsNext ==
  [][LET n == Len(rows')
         Below(pid) == (Place(rows', pid) - Place(rows', selected) + n - 1) % n
         hits == Range(rows') \cap Match[search]
     IN (pending /\ ~pending' /\ profile = "beta" /\ search # "" /\ hits # {}) =>
          selected' \in hits /\ \A pid \in hits : Below(selected') <= Below(pid)]_vars

\* As long as nothing turned the page since the last frame, a click on a line
\* of the Overview table hits the process drawn there.
OverviewClicksHit ==
  profile = "beta" /\ view = "Overview" /\ screen.view = view /\ screen.page = page =>
    \A line \in DOMAIN screen.at :
      LineAt(line) \in DOMAIN rows /\ rows[LineAt(line)] = screen.at[line]

\* README.md: "click rows to select".  In every list of processes a click on a
\* line hits the process drawn there.
ClicksHit ==
  \A line \in DOMAIN screen.at :
    line < lines =>
      LineAt(line) \in DOMAIN rows /\ rows[LineAt(line)] = screen.at[line]
=============================================================================
