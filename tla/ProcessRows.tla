---------------------------- MODULE ProcessRows ----------------------------
(***************************************************************************)
(* The rows of the process table (src/main.cpp): build_process_rows, flat  *)
(* or as a tree, in the order of process_sort_less, and the keys and       *)
(* clicks that sort, collapse and expand in the Overview.  A sample lists  *)
(* the processes that match the filter, in the order of the kernel.        *)
(* Selection and paging are ProcessTable's subject.                        *)
(***************************************************************************)
EXTENDS ProcessSort, Sequences, FiniteSets, SequencesExt

CONSTANT Samples  \* the lists a sample may bring

SampledPids == {p.pid : p \in UNION {Range(list) : list \in Samples}}

ASSUME RowsAssumption ==
  \A list \in Samples :
    /\ list \in Seq(Processes)
    /\ \A i, j \in DOMAIN list : list[i].pid = list[j].pid => i = j
    /\ \A i \in DOMAIN list : list[i].pid > 0

VARIABLES
  listed,    \* the last sample, filtered
  sort,      \* UiState sort
  direction, \* UiState sort_direction
  tree,      \* UiState tree_mode
  collapsed, \* UiState collapsed_pids
  built,     \* the rows last built
  fresh      \* history: no key has changed the state since they were built

rowVars == <<listed, sort, direction, tree, collapsed, built, fresh>>

Row == [process : Processes, depth : Nat, children : BOOLEAN, folded : BOOLEAN]

-----------------------------------------------------------------------------
(***************************************************************************)
(* build_process_rows.  std::sort leaves an order in which no process is   *)
(* less than one before it.  There is only one: SortLess is a total order  *)
(* of processes with different ids.                                        *)
(***************************************************************************)

Sorted(S) ==
  CHOOSE order \in SetToSeqs(S) :
    \A i, j \in DOMAIN order : i < j => ~SortLess(order[j], order[i], sort, direction)

FlatRows(S) ==
  LET order == Sorted(S)
  IN [i \in DOMAIN order |->
        [process |-> order[i], depth |-> 0, children |-> FALSE, folded |-> FALSE]]

Children(S, p) == {q \in S : q.parent = p.pid}

\* Mutant of Roots: a process whose parent is not listed is no root.
RootsOfTheSystem(S) == {p \in S : p.parent <= 0 \/ p.parent = p.pid}

Roots(S) ==
  {p \in S : \/ p.parent <= 0 \/ p.parent = p.pid
             \/ \A q \in S : q.pid # p.parent}

\* What a process shows of the processes below it.
RowOf(S, p, depth) ==
  LET below == Children(S, p)
  IN [process |-> p, depth |-> depth, children |-> below # {},
      folded |-> below # {} /\ p.pid \in collapsed]

\* The calls of dfs for the children of the process of a row, in their order.
CallsBelow(S, row) ==
  LET below == Sorted(Children(S, row.process))
  IN [i \in DOMAIN below |-> [process |-> below[i], depth |-> row.depth + 1]]

\* One call of dfs up to the calls it makes itself, which come before those that
\* are waiting.
Visit(S, call, waiting, sofar) ==
  LET row == RowOf(S, call.process, call.depth)
  IN IF \E i \in DOMAIN sofar.rows : sofar.rows[i].process = call.process
     THEN [sofar EXCEPT !.calls = waiting]
     ELSE [sofar EXCEPT !.rows = Append(@, row),
                        !.calls = IF row.folded THEN waiting
                                  ELSE CallsBelow(S, row) \o waiting]

\* The next call: the first that waits, or that of the loop over starts.
NextCall(S, starts, sofar) ==
  IF sofar.calls # <<>> THEN Visit(S, Head(sofar.calls), Tail(sofar.calls), sofar)
  ELSE IF sofar.next <= Len(starts)
       THEN Visit(S, [process |-> starts[sofar.next], depth |-> 0], <<>>,
                  [sofar EXCEPT !.next = @ + 1])
       ELSE sofar

\* Mutant of VisitOrder: the roots' trees alone.
VisitOrderOfRoots(list) == Sorted(Roots(Range(list)))

\* Where the two loops start: the roots, then all as listed, for whatever was not
\* visited.
VisitOrder(list) == Sorted(Roots(Range(list))) \o list

\* A process is the child of one other at most and twice among the starts: so
\* many calls are made, and no more.
TreeRows(list) ==
  LET After[n \in 0..(3 * Len(list))] ==
        IF n = 0 THEN [rows |-> <<>>, calls |-> <<>>, next |-> 1]
        ELSE NextCall(Range(list), VisitOrder(list), After[n - 1])
  IN After[3 * Len(list)].rows

-----------------------------------------------------------------------------
\* The configured sort and direction may be any.
RowsInit ==
  /\ listed = <<>>
  /\ sort \in Modes
  /\ direction \in Directions
  /\ tree = FALSE
  /\ collapsed = {}
  /\ built = <<>>
  /\ fresh = TRUE

\* One iteration of the main loop: sample and build the rows.
BuildRows ==
  /\ listed' \in Samples
  /\ built' = IF tree THEN TreeRows(listed') ELSE FlatRows(Range(listed'))
  /\ fresh' = TRUE
  /\ UNCHANGED <<sort, direction, tree, collapsed>>

\* set_sort_mode, from a key or the sort menu.
SetSortMode(mode) ==
  /\ sort' = mode
  /\ direction' = DefaultDirection(mode)
  /\ fresh' = FALSE
  /\ UNCHANGED <<listed, tree, collapsed, built>>

PickColumn == \E mode \in Modes : SetSortMode(mode)

NextColumn == SetSortMode(CycleSort[sort])

\* The "i" key, and in the alpha profile the "s" key.
Invert ==
  /\ direction' = -direction
  /\ fresh' = FALSE
  /\ UNCHANGED <<listed, sort, tree, collapsed, built>>

\* A click on a sortable header (synthesize_mouse_event, and
\* apply_header_sort_click, which tests the same rule).
ClickSortHeader(mode) == IF mode = sort THEN Invert ELSE SetSortMode(mode)

SortClick == \E mode \in Modes : ClickSortHeader(mode)

\* t, F5
ToggleTreeMode ==
  /\ tree' = ~tree
  /\ fresh' = FALSE
  /\ UNCHANGED <<listed, sort, direction, collapsed, built>>

\* What +, - and * do besides turning the tree on.
Fold(hidden) ==
  /\ tree' = TRUE
  /\ collapsed' = hidden
  /\ fresh' = FALSE
  /\ UNCHANGED <<listed, sort, direction, built>>

\* Mutant of WithChildren: leaves count too.
WithChildrenOrNone == {built[i].process.pid : i \in DOMAIN built}

WithChildren == {built[i].process.pid : i \in {j \in DOMAIN built : built[j].children}}

\* The selected process may be any, also one no longer listed; or none is.
Selections == {{}} \cup {{pid} : pid \in SampledPids}

\* +
Expand == \E selected \in Selections : Fold(collapsed \ selected)

\* -, decided on the rows last built.
Collapse ==
  \E selected \in Selections : Fold(collapsed \cup (selected \cap WithChildren))

\* *
ToggleAll == Fold(IF collapsed = {} THEN WithChildren ELSE {})

RowsNext ==
  \/ BuildRows \/ PickColumn \/ NextColumn \/ Invert \/ SortClick
  \/ ToggleTreeMode \/ Expand \/ Collapse \/ ToggleAll

RowsSpec == RowsInit /\ [][RowsNext]_rowVars

-----------------------------------------------------------------------------
(***************************************************************************)
(* Properties.  Those of the rows are checked as they are built.           *)
(***************************************************************************)

At(i) == built[i].process

IsParent(q, p) == p.parent = q.pid /\ p # q

\* The processes of S above p, by their parents: the least set with the parent of p
\* that has the parents of its members; p is among them when its ancestry is a
\* cycle.
AncestorsIn(S, p) ==
  LET Above(T) == {q \in S : \E r \in T \cup {p} : IsParent(q, r)}
  IN {q \in S : \A T \in SUBSET S : Above(T) \subseteq T => q \in T}

Ancestors(p) == AncestorsIn(Range(listed), p)

Acyclic(p) == \A q \in Ancestors(p) \cup {p} : q \notin Ancestors(q)
Folded(p) == tree /\ \E q \in Ancestors(p) : q.pid \in collapsed

\* The values each variable takes.
RowTypes ==
  /\ listed \in Samples \cup {<<>>}
  /\ sort \in Modes /\ direction \in Directions
  /\ tree \in BOOLEAN /\ fresh \in BOOLEAN
  /\ collapsed \subseteq SampledPids
  /\ built \in Seq(Row)

\* The rows below one parent, the roots of a tree and in flat mode all rows are
\* in strict order of the sort: the table depends on the processes alone, not
\* on the order they were listed in.  (The rows of a cycle and those below a
\* collapsed node come in the order of the list.)
SiblingsSorted ==
  fresh =>
    \A i, j \in DOMAIN built :
      /\ i < j
      /\ tree => /\ Ancestors(At(i)) = Ancestors(At(j))
                 /\ \A k \in {i, j} : Acyclic(At(k)) /\ ~Folded(At(k))
      => SortLess(At(i), At(j), sort, direction)

\* In an IO or PWR column the rows without a value stand at the bottom, also
\* when the sort is inverted.  docs/API.md: "Missing root values sort after
\* available numeric values in the default descending direction."
MissingAtBottom ==
  fresh /\ ~tree =>
    \A i, j \in DOMAIN built :
      i < j /\ HasNoValue(At(i), sort) => HasNoValue(At(j), sort)

\* The rows are in the order the table promises.
RowsSorted == RowTypes /\ SiblingsSorted /\ MissingAtBottom

\* No process is drawn twice, and none is missing that is not below a collapsed
\* one: not an orphan, not a member of a cycle of parents.
EachOnce ==
  fresh =>
    /\ \A i, j \in DOMAIN built : At(i) = At(j) => i = j
    /\ \A p \in Range(listed) : Folded(p) \/ \E i \in DOMAIN built : At(i) = p

\* A process with an ordinary ancestry, nothing of it collapsed, is indented by
\* the number of its listed ancestors and stands below its parent, with only
\* descendants of the parent between them.
UnderParent ==
  fresh /\ tree =>
    \A i \in DOMAIN built :
      (Acyclic(At(i)) /\ ~Folded(At(i))) =>
        /\ built[i].depth = Cardinality(Ancestors(At(i)))
        /\ built[i].depth > 0 =>
             \E j \in 1..(i-1) :
               /\ At(j).pid = At(i).parent
               /\ \A k \in (j+1)..i : At(j) \in Ancestors(At(k))

\* build_process_rows draws the whole tree, and nothing in a wrong place.
TreeDrawn == EachOnce /\ UnderParent

\* README.md: "tree mode with expand / collapse".  A process below a collapsed
\* one is not drawn.
CollapseHides ==
  fresh => \A i \in DOMAIN built : Acyclic(At(i)) => ~Folded(At(i))

\* What a key does to the tree it acts on is decided by what is on the screen:
\* only a drawn row that has children is collapsed.
CollapsesDrawnNodes ==
  [][\A pid \in collapsed' \ collapsed :
       \E i \in DOMAIN built : At(i).pid = pid /\ built[i].children]_rowVars
=============================================================================
