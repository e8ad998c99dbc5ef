------------------------- MODULE ProcessTableProofs -------------------------
(***************************************************************************)
(* Proofs about the process table: that the order of its rows is a strict  *)
(* total order on processes with different ids, whatever the mode and the  *)
(* direction, that what is selected, marked, drawn and clicked on the      *)
(* screen fits together, for any processes, texts, lists and heights, and  *)
(* that the flat list and the tree have each listed process once, in its   *)
(* place, for any list of processes and any parents.                       *)
(***************************************************************************)
EXTENDS ProcessTable, ProcessRows, SequenceTheorems, SumLemmas

(***************************************************************************)
(* The order of the rows: what std::sort requires of its comparator, and   *)
(* what makes the table independent of the order in which the kernel lists *)
(* processes.                                                              *)
(***************************************************************************)

\* Scores are ordered like numbers with two ends.
LEMMA BelowIsTotalOrder ==
  ASSUME NEW a \in Scores, NEW b \in Scores, NEW c \in Scores
  PROVE  /\ ~Below(a, a)
         /\ Below(a, b) /\ Below(b, c) => Below(a, c)
         /\ a = b \/ Below(a, b) \/ Below(b, a)
BY DEF Scores, Below

\* Every key is a score.
LEMMA KeyIsScore ==
  ASSUME NEW p \in Processes, NEW mode \in Modes, NEW dir \in Directions
  PROVE  Key(p, mode, dir) \in Scores
<1>1. \A n \in Nat : Finite(n) \in Scores
  BY DEF Finite, Scores
<1>2. MissingScore(dir) \in Scores
  BY DEF MissingScore, Scores
<1>3. \A t \in RootTexts : TextScore(t, dir) \in Scores
  BY <1>1, <1>2 DEF TextScore, RootTexts
<1>4. p.io \in RootTexts /\ p.power \in RootTexts /\ p.pid \in Nat /\ p.cpu \in Nat
      /\ p.mem \in Nat /\ p.time \in Nat /\ p.name \in Nat
  BY DEF Processes
<1>5. (IF p.gpu THEN 1 ELSE 0) \in Nat
  OBVIOUS
<1> QED
  BY <1>1, <1>3, <1>4, <1>5 DEF Key, Modes

\* No process sorts before itself, and of two at most one sorts first.
THEOREM SortLessAsymmetric ==
  ASSUME NEW l \in Processes, NEW r \in Processes,
         NEW mode \in Modes, NEW dir \in Directions,
         SortLess(l, r, mode, dir)
  PROVE  ~SortLess(r, l, mode, dir)
<1> DEFINE a == Key(l, mode, dir)
           b == Key(r, mode, dir)
<1>1. a \in Scores /\ b \in Scores
  BY KeyIsScore
<1>2. l.pid \in Nat /\ r.pid \in Nat
  BY DEF Processes
<1>3. ~(Below(a, b) /\ Below(b, a))
  BY <1>1, BelowIsTotalOrder
<1> QED
  BY <1>2, <1>3 DEF SortLess

\* The order is transitive, also where keys and directions mix with the ids.
THEOREM SortLessTransitive ==
  ASSUME NEW l \in Processes, NEW m \in Processes, NEW r \in Processes,
         NEW mode \in Modes, NEW dir \in Directions,
         SortLess(l, m, mode, dir), SortLess(m, r, mode, dir)
  PROVE  SortLess(l, r, mode, dir)
<1> DEFINE a == Key(l, mode, dir)
           b == Key(m, mode, dir)
           c == Key(r, mode, dir)
<1>1. a \in Scores /\ b \in Scores /\ c \in Scores
  BY KeyIsScore
<1>2. l.pid \in Nat /\ m.pid \in Nat /\ r.pid \in Nat
  BY DEF Processes
<1>3. /\ Below(a, b) /\ Below(b, c) => Below(a, c)
      /\ Below(c, b) /\ Below(b, a) => Below(c, a)
      /\ ~Below(a, a)
  BY <1>1, BelowIsTotalOrder
<1> HIDE DEF a, b, c
<1>4. CASE a = b /\ b = c
  BY <1>2, <1>4 DEF SortLess, a, b, c
<1>5. CASE a = b /\ b # c
  BY <1>5 DEF SortLess, a, b, c
<1>6. CASE a # b /\ b = c
  BY <1>6 DEF SortLess, a, b, c
<1>7. CASE a # b /\ b # c
  <2>1. CASE dir > 0
    <3>1. Below(a, b) /\ Below(b, c)
      BY <1>7, <2>1 DEF SortLess, a, b, c
    <3>2. Below(a, c) /\ a # c
      BY <3>1, <1>1, <1>3, BelowIsTotalOrder
    <3> QED
      BY <2>1, <3>2 DEF SortLess, a, b, c
  <2>2. CASE ~(dir > 0)
    <3>1. Below(b, a) /\ Below(c, b)
      BY <1>7, <2>2 DEF SortLess, a, b, c
    <3>2. Below(c, a) /\ a # c
      BY <3>1, <1>1, <1>3, BelowIsTotalOrder
    <3> QED
      BY <2>2, <3>2 DEF SortLess, a, b, c
  <2> QED
    BY <2>1, <2>2
<1> QED
  BY <1>4, <1>5, <1>6, <1>7

\* Of two processes with different ids one sorts first: no two rows of the
\* table are interchangeable.
THEOREM SortLessTotal ==
  ASSUME NEW l \in Processes, NEW r \in Processes, l.pid # r.pid,
         NEW mode \in Modes, NEW dir \in Directions
  PROVE  SortLess(l, r, mode, dir) \/ SortLess(r, l, mode, dir)
<1> DEFINE a == Key(l, mode, dir)
           b == Key(r, mode, dir)
<1>1. a \in Scores /\ b \in Scores
  BY KeyIsScore
<1>2. l.pid \in Nat /\ r.pid \in Nat
  BY DEF Processes
<1>3. a = b \/ Below(a, b) \/ Below(b, a)
  BY <1>1, BelowIsTotalOrder
<1> QED
  BY <1>2, <1>3 DEF SortLess

\* A process without a usable IO or PWR value sorts after every process that
\* has one, whichever way the column is sorted.
THEOREM MissingSortsLast ==
  ASSUME NEW l \in Processes, NEW r \in Processes,
         NEW mode \in {"Io", "Power"}, NEW dir \in Directions,
         ~HasNoValue(l, mode), HasNoValue(r, mode)
  PROVE  SortLess(l, r, mode, dir)
<1> DEFINE text(p) == IF mode = "Io" THEN p.io ELSE p.power
<1>1. /\ Key(l, mode, dir) = TextScore(text(l), dir)
      /\ Key(r, mode, dir) = TextScore(text(r), dir)
  BY DEF Key
<1>2. text(l).kind = "number" /\ text(r).kind # "number"
  BY DEF HasNoValue
<1>3. /\ Key(l, mode, dir).side = 0
      /\ Key(r, mode, dir) = MissingScore(dir)
  BY <1>1, <1>2 DEF TextScore, Finite
<1>4. MissingScore(dir).side = IF dir > 0 THEN 1 ELSE -1
  BY DEF MissingScore
<1> QED
  BY <1>3, <1>4 DEF SortLess, Below, Directions

-----------------------------------------------------------------------------
(***************************************************************************)
(* The screen: lists of processes and places in them.                      *)
(***************************************************************************)

\* A list of processes, none of them twice.
Lined(list) ==
  /\ list \in Seq(Pids)
  /\ \A i, j \in DOMAIN list : list[i] = list[j] => i = j

LEMMA NothingLined == Lined(<<>>)
  BY DEF Lined

\* What a frame arranges is such a list.
LEMMA ArrangedIsLined ==
  ASSUME NEW S, S \subseteq Pids, IsFiniteSet(S), NEW list \in SetToSeqs(S)
  PROVE  Lined(list) /\ Range(list) \subseteq S
  <1>1. Cardinality(S) \in Nat
    BY FS_CardinalityType
  <1>2. list \in [1..Cardinality(S) -> S]
        /\ \A i, j \in 1..Cardinality(S) : i # j => list[i] # list[j]
    BY DEF SetToSeqs
  <1>3. list \in [1..Cardinality(S) -> Pids]
    BY <1>2
  <1>4. list \in Seq(Pids)
    BY <1>1, <1>3, SeqDef
  <1>5. QED
    BY <1>2, <1>4 DEF Lined, Range

\* Lines count from 0; a process that is not listed has none.
LEMMA PlaceInList ==
  ASSUME NEW list, Lined(list), NEW pid
  PROVE  /\ pid \notin Range(list) => Place(list, pid) = -1
         /\ pid \in Range(list) =>
              Place(list, pid) \in 0..(Len(list) - 1) /\ list[Place(list, pid) + 1] = pid
  <1>1. DOMAIN list = 1..Len(list) /\ Len(list) \in Nat
    BY LenProperties DEF Lined
  <1>2. CASE pid \in Range(list)
    <2> DEFINE i == CHOOSE i \in DOMAIN list : list[i] = pid
    <2>1. \E k \in DOMAIN list : list[k] = pid
      BY <1>2 DEF Range
    <2>2. i \in DOMAIN list /\ list[i] = pid
      BY <2>1
    <2>3. Place(list, pid) = i - 1
      BY <1>2 DEF Place
    <2> HIDE DEF i
    <2>4. QED
      BY <1>1, <1>2, <2>2, <2>3
  <1>3. CASE pid \notin Range(list)
    BY <1>3 DEF Place
  <1>4. QED
    BY <1>2, <1>3

LEMMA PlaceOfLine ==
  ASSUME NEW list, Lined(list), NEW i \in 0..(Len(list) - 1)
  PROVE  list[i + 1] \in Range(list) /\ list[i + 1] \in Pids /\ Place(list, list[i + 1]) = i
  <1>1. DOMAIN list = 1..Len(list) /\ Len(list) \in Nat
    BY LenProperties DEF Lined
  <1>2. i + 1 \in DOMAIN list
    BY <1>1
  <1>3. list[i + 1] \in Range(list) /\ list[i + 1] \in Pids
    BY <1>1, <1>2, ElementOfSeq DEF Range, Lined
  <1>4. Place(list, list[i + 1]) \in 0..(Len(list) - 1)
        /\ list[Place(list, list[i + 1]) + 1] = list[i + 1]
    BY <1>3, PlaceInList
  <1>5. Place(list, list[i + 1]) + 1 \in DOMAIN list
    BY <1>1, <1>4
  <1>6. Place(list, list[i + 1]) + 1 = i + 1
    BY <1>2, <1>4, <1>5 DEF Lined
  <1>7. QED
    BY <1>3, <1>4, <1>6

\* Where a search looks offset lines below the base, around the end.
Looked(list, base, offset) == (base + offset + Len(list)) % Len(list)

Hits(list, base, matches) ==
  {offset \in 1..Len(list) : list[Looked(list, base, offset) + 1] \in matches}

\* A search ends on the base, or on the first hit below it.
LEMMA SearchEndsOnHit ==
  ASSUME NEW list, Lined(list), list # <<>>, NEW base \in Int, NEW matches
  PROVE  \/ Hits(list, base, matches) = {} /\ Search(list, base, matches) = base
         \/ \E o \in Hits(list, base, matches) :
              /\ \A k \in Hits(list, base, matches) : o <= k
              /\ Search(list, base, matches) = Looked(list, base, o)
              /\ Looked(list, base, o) \in 0..(Len(list) - 1)
  <1> DEFINE hits == Hits(list, base, matches)
             o == CHOOSE offset \in hits : \A k \in hits : offset <= k
  <1>1. Len(list) \in Nat \ {0}
    BY EmptySeq DEF Lined
  <1>2. Search(list, base, matches) = IF hits = {} THEN base ELSE Looked(list, base, o)
    BY DEF Search, Hits, Looked
  <1>3. hits \subseteq 1..Len(list)
    BY DEF Hits
  <1> HIDE DEF hits
  <1>4. CASE hits # {}
    <2>1. \E m \in hits : \A k \in hits : m <= k
      BY <1>1, <1>3, <1>4, LeastNumber
    <2>2. o \in hits /\ \A k \in hits : o <= k
      BY <2>1
    <2> HIDE DEF o
    <2>3. base + o + Len(list) \in Int
      BY <1>1, <1>3, <2>2
    <2>4. Looked(list, base, o) \in 0..(Len(list) - 1)
      BY <1>1, <2>3, Quotient DEF Looked
    <2>5. QED
      BY <1>2, <1>4, <2>2, <2>4 DEF hits
  <1>5. CASE hits = {}
    BY <1>2, <1>5 DEF hits
  <1>6. QED
    BY <1>4, <1>5

\* The first place below base, around the end, at which one matches: a search
\* passes over none.
LEMMA SearchIsNearest ==
  ASSUME NEW list, Lined(list), NEW base \in Int, NEW matches,
         NEW some \in 0..(Len(list) - 1), list[some + 1] \in matches
  PROVE  LET hit == Search(list, base, matches)
             n == Len(list)
         IN /\ hit \in 0..(n - 1)
            /\ list[hit + 1] \in matches
            /\ \A i \in 0..(n - 1) : list[i + 1] \in matches =>
                 (hit - base + n - 1) % n <= (i - base + n - 1) % n
  <1> DEFINE hit == Search(list, base, matches)
             n == Len(list)
             hits == Hits(list, base, matches)
  <1>1. n \in Nat \ {0} /\ list # <<>>
    BY EmptySeq, LenProperties DEF Lined
  <1>2. ASSUME NEW i \in 0..(n - 1), list[i + 1] \in matches
        PROVE  ((i - base + n - 1) % n) + 1 \in hits /\ (i - base + n - 1) % n \in 0..(n - 1)
    <2> DEFINE a == i - base + n - 1
               c == base + 1 + n
               b == a % n
    <2>1. a \in Int /\ c \in Int /\ a + c = n * 2 + i
      BY <1>1
    <2>2. b \in 0..(n - 1)
      BY <1>1, <2>1, Quotient
    <2> HIDE DEF a
    <2>3. (b + c) % n = (a + c) % n
      BY <1>1, <2>1, ModAdd
    <2>4. (a + c) % n = i
      BY <1>1, <2>1, ModOffset
    <2> HIDE DEF b
    <2>5. base + (b + 1) + n = b + c
      BY <1>1, <2>2
    <2>6. Looked(list, base, b + 1) = i
      BY <2>3, <2>4, <2>5 DEF Looked
    <2>7. b + 1 \in 1..n
      BY <1>1, <2>2
    <2>8. b + 1 \in hits
      BY <1>2, <2>6, <2>7 DEF Hits
    <2>9. QED
      BY <2>2, <2>8 DEF a, b
  <1>3. hits # {}
    BY <1>2
  <1>4. PICK o \in hits : /\ \A k \in hits : o <= k
                          /\ hit = Looked(list, base, o)
                          /\ Looked(list, base, o) \in 0..(n - 1)
    BY <1>1, <1>3, SearchEndsOnHit
  <1>5. o \in 1..n /\ list[hit + 1] \in matches
    BY <1>4 DEF Hits
  <1>6. (hit - base + n - 1) % n = o - 1
    <2> DEFINE a == base + o + n
               c == n - 1 - base
               b == a % n
    <2>1. a \in Int /\ c \in Int /\ a + c = n * 2 + (o - 1) /\ o - 1 \in 0..(n - 1)
      BY <1>1, <1>5
    <2>2. hit = b
      BY <1>4 DEF Looked
    <2>3. b \in 0..(n - 1)
      BY <1>1, <2>1, Quotient
    <2> HIDE DEF a
    <2>4. (b + c) % n = (a + c) % n
      BY <1>1, <2>1, ModAdd
    <2>5. (a + c) % n = o - 1
      BY <1>1, <2>1, ModOffset
    <2> HIDE DEF b, hit
    <2>6. hit - base + n - 1 = b + c
      BY <1>1, <2>2, <2>3
    <2>7. QED
      BY <2>4, <2>5, <2>6
  <1> HIDE DEF hits, hit
  <1>7. ASSUME NEW i \in 0..(n - 1), list[i + 1] \in matches
        PROVE  o - 1 <= (i - base + n - 1) % n
    BY <1>1, <1>2, <1>4, <1>5, <1>7
  <1>8. QED
    BY <1>4, <1>5, <1>6, <1>7 DEF hit

-----------------------------------------------------------------------------
(***************************************************************************)
(* The inductive invariant of the screen.                                  *)
(***************************************************************************)

Types ==
  /\ profile \in Profiles /\ view \in Views /\ lines \in Heights[profile]
  /\ Lined(rows) /\ Lined(ai)
  /\ selected \in Pids \cup {0}
  /\ page \in Nat /\ index \in Nat
  /\ prompt \in Prompts
  /\ filter \in Texts /\ search \in Texts /\ pending \in BOOLEAN
  /\ Range(screen.at) \subseteq Pids
  /\ screen.mark \in Pids \cup {0}
  /\ screen.page \in Nat

\* Of the popups one at most is open, and none above a prompt.
OneDialog ==
  /\ open \in {{}} \cup {{p} : p \in Popups}
  /\ prompt # "None" => open = {}

\* The lines of an Overview are those of the page it drew, of the rows that a
\* click is looked up in.
LineDrawn(line) ==
  /\ screen.page * lines + line + 1 \in DOMAIN rows
  /\ rows[screen.page * lines + line + 1] = screen.at[line]

DrawnFromRows ==
  profile = "beta" /\ screen.view = "Overview" => \A line \in DOMAIN screen.at : LineDrawn(line)

ScreenInv == Types /\ OneDialog /\ MarkIsDrawn /\ DrawnFromRows

LEMMA ScreenInit == Init => ScreenInv
  <1> SUFFICES ASSUME Init PROVE ScreenInv
    OBVIOUS
  <1>1. profile \in Profiles /\ view \in Views
    <2>1. \A start \in Starts : start[1] \in Profiles /\ start[2] \in Views
      BY ScreenAssumption
    <2>2. QED
      BY <2>1 DEF Init
  <1>2. /\ screen.at = <<>> /\ screen.mark = 0 /\ screen.page = 0
        /\ rows = <<>> /\ ai = <<>> /\ open = {}
    BY DEF Init
  <1>3. Range(<<>>) = {} /\ DOMAIN <<>> = {}
    BY DEF Range
  <1>4. Types
    BY <1>1, <1>2, <1>3, NothingLined, ScreenAssumption DEF Init, Types, Prompts
  <1>5. OneDialog /\ MarkIsDrawn /\ DrawnFromRows
    BY <1>2, <1>3 DEF OneDialog, MarkIsDrawn, DrawnFromRows
  <1>6. QED
    BY <1>4, <1>5 DEF ScreenInv

\* Closing what a frame cannot show leaves one popup at most.
LEMMA StillOneDialog ==
  ASSUME OneDialog, NEW hidden, open' = open \ hidden, prompt' = prompt
  PROVE  OneDialog'
  BY DEF OneDialog

\* What keys and clicks leave alone.
LEMMA DrawnIsKept ==
  ASSUME ScreenInv, UNCHANGED <<profile, lines, rows, ai, screen>>
  PROVE  MarkIsDrawn' /\ DrawnFromRows'
  BY DEF ScreenInv, MarkIsDrawn, DrawnFromRows, LineDrawn

-----------------------------------------------------------------------------
(***************************************************************************)
(* A frame.                                                                *)
(***************************************************************************)

\* The lists a frame arranges.
LEMMA FrameLists ==
  ASSUME Types, Frame
  PROVE  Lined(rows') /\ Lined(ai')
  <1>1. PICK up \in Lists :
          /\ \E S \in Listed(up) : rows' \in SetToSeqs(S)
          /\ ai' \in IF profile = "beta" THEN {<<>>} ELSE SetToSeqs(up \cap AiMatch[filter])
    BY DEF Frame
  <1>2. up \subseteq Pids /\ IsFiniteSet(up)
    BY ScreenAssumption
  <1>3. PICK S \in Listed(up) : rows' \in SetToSeqs(S)
    BY <1>1
  <1>4. S \subseteq up
    BY <1>3 DEF Listed
  <1>5. S \subseteq Pids /\ IsFiniteSet(S)
    BY <1>2, <1>4, FS_Subset
  <1>6. Lined(rows')
    BY <1>3, <1>5, ArrangedIsLined
  <1>7. up \cap AiMatch[filter] \subseteq Pids /\ IsFiniteSet(up \cap AiMatch[filter])
    BY <1>2, FS_Subset
  <1>8. Lined(ai')
    BY <1>1, <1>7, ArrangedIsLined, NothingLined
  <1>9. QED
    BY <1>6, <1>8

\* A search finds a process of the list, one that matches if it moved.
LEMMA FoundIsListed ==
  ASSUME Types, NEW list, Lined(list)
  PROVE  /\ Found(list) \in Pids \cup {0}
         /\ Found(list) # selected => pending /\ Found(list) \in Match[search]
  <1> DEFINE base == Place(list, selected)
             hit == Search(list, base, Match[search])
  <1>1. selected \in Pids \cup {0}
    BY DEF Types
  <1>2. CASE ~pending \/ profile = "alpha" \/ search = "" \/ list = <<>> \/ hit = -1
    BY <1>1, <1>2 DEF Found
  <1>3. CASE ~(~pending \/ profile = "alpha" \/ search = "" \/ list = <<>> \/ hit = -1)
    <2>1. Found(list) = list[hit + 1] /\ pending /\ list # <<>> /\ hit # -1
      BY <1>3 DEF Found
    <2>2. base \in Int /\ (base # -1 => base \in 0..(Len(list) - 1) /\ list[base + 1] = selected)
      BY PlaceInList, LenProperties DEF Lined
    <2>3. \/ hit = base
          \/ hit \in 0..(Len(list) - 1) /\ list[hit + 1] \in Match[search]
      <3> HIDE DEF base
      <3>1. QED
        BY <2>1, <2>2, SearchEndsOnHit DEF Hits
    <2> HIDE DEF hit, base
    <2>4. CASE hit = base
      BY <1>1, <2>1, <2>2, <2>4
    <2>5. CASE hit \in 0..(Len(list) - 1) /\ list[hit + 1] \in Match[search]
      BY <2>1, <2>5, PlaceOfLine
    <2>6. QED
      BY <2>3, <2>4, <2>5
  <1>4. QED
    BY <1>2, <1>3

\* The search of the alpha profile leaves the index a place.
LEMMA AiFoundIsIndex ==
  ASSUME Types, NEW list, Lined(list)
  PROVE  AiFound(list) \in Nat
  <1> DEFINE base == Clamp(index, -1, Len(list) - 1)
  <1>1. index \in Nat /\ Len(list) \in Nat
    BY LenProperties DEF Types, Lined
  <1>2. CASE ~pending \/ profile # "alpha" \/ search = "" \/ list = <<>>
    BY <1>1, <1>2 DEF AiFound
  <1>3. CASE ~(~pending \/ profile # "alpha" \/ search = "" \/ list = <<>>)
    <2>1. AiFound(list) = Search(list, base, AiMatch[search]) /\ list # <<>>
      BY <1>3 DEF AiFound
    <2>2. Len(list) \in Nat \ {0}
      BY <2>1, EmptySeq DEF Lined
    <2>3. base \in Nat
      BY <1>1, <2>2 DEF Clamp
    <2> HIDE DEF base
    <2>4. QED
      BY <2>1, <2>3, SearchEndsOnHit
  <1>4. QED
    BY <1>2, <1>3

\* The lines drawn are a part of the list, and the whole of that part.
LEMMA PartOfList ==
  ASSUME NEW list, NEW start \in Nat, NEW count \in Nat, NEW first \in Nat
  PROVE  /\ Range(Part(list, start, count, first)) \subseteq Range(list)
         /\ \A k \in DOMAIN list :
              k \in Int /\ start < k /\ k <= start + count =>
                list[k] \in Range(Part(list, start, count, first))
  <1> DEFINE part == Part(list, start, count, first)
  <1>1. DOMAIN part = {l \in first..(first + count - 1) : start + l - first + 1 \in DOMAIN list}
        /\ \A line \in DOMAIN part : part[line] = list[start + line - first + 1]
    BY DEF Part
  <1> HIDE DEF part
  <1>2. Range(part) \subseteq Range(list)
    BY <1>1 DEF Range
  <1>3. ASSUME NEW k \in DOMAIN list, k \in Int, start < k, k <= start + count
        PROVE  list[k] \in Range(part)
    <2> DEFINE line == first + k - start - 1
    <2>1. line \in first..(first + count - 1) /\ start + line - first + 1 = k
      BY <1>3
    <2> HIDE DEF line
    <2>2. line \in DOMAIN part /\ part[line] = list[k]
      BY <1>1, <1>3, <2>1
    <2>3. QED
      BY <2>2 DEF Range
  <1>4. QED
    BY <1>2, <1>3 DEF part

\* Without a header a line is its place in the part.
LEMMA PartFromTop ==
  ASSUME NEW list, NEW start \in Nat, NEW count \in Nat,
         NEW line \in DOMAIN Part(list, start, count, 0)
  PROVE  start + line + 1 \in DOMAIN list
         /\ list[start + line + 1] = Part(list, start, count, 0)[line]
  <1>1. line \in 0..(0 + count - 1) /\ start + line - 0 + 1 \in DOMAIN list
    BY DEF Part
  <1>2. start + line - 0 + 1 = start + line + 1
    BY <1>1
  <1>3. Part(list, start, count, 0)[line] = list[start + line - 0 + 1]
    BY DEF Part
  <1>4. QED
    BY <1>1, <1>2, <1>3

\* The page of a list is the one of the selection, if that is listed.
LEMMA PageShowsSelection ==
  ASSUME Types, NEW list, Lined(list), NEW pid, NEW height \in Nat \ {0}
  PROVE  /\ PageOf(list, pid, height) \in Nat
         /\ pid \in Range(list) => PageOf(list, pid, height) = Place(list, pid) \div height
  <1>1. Len(list) \in Nat /\ DOMAIN list = 1..Len(list) /\ page \in Nat
    BY LenProperties DEF Types, Lined
  <1>2. CASE list = <<>>
    BY <1>2 DEF PageOf, Range
  <1>3. CASE list # <<>>
    <2>1. Len(list) - 1 \in Nat
      BY <1>3, EmptySeq DEF Lined
    <2>2. (Len(list) - 1) \div height \in Nat
      BY <2>1, BlockOf
    <2>3. Clamp(page, 0, (Len(list) - 1) \div height) \in Nat
      BY <1>1, <2>2 DEF Clamp
    <2>4. CASE pid \in Range(list)
      <3>1. Place(list, pid) \in Nat
        BY <2>4, PlaceInList
      <3>2. Place(list, pid) \div height \in Nat
        BY <3>1, BlockOf
      <3>3. QED
        BY <1>3, <3>1, <3>2 DEF PageOf
    <2>5. CASE pid \notin Range(list)
      BY <1>3, <2>3, <2>5, PlaceInList DEF PageOf
    <2>6. QED
      BY <2>4, <2>5
  <1>4. QED
    BY <1>2, <1>3

\* What a frame of the beta profile draws: part of the rows, and the selected
\* one among them.
LEMMA BetaFrame ==
  ASSUME Types, profile = "beta", NEW list, Lined(list), NEW pid \in Pids \cup {0},
         NEW height \in Nat \ {0}, NEW i
  PROVE  LET at == Drawn(list, <<>>, PageOf(list, pid, height), i, height)
             mark == Marked(list, <<>>, pid, i, height)
         IN /\ Range(at) \subseteq Pids
            /\ mark \in Pids \cup {0}
            /\ mark # 0 => mark \in Range(at)
            /\ view = "Overview" => \A line \in DOMAIN at :
                 /\ PageOf(list, pid, height) * height + line + 1 \in DOMAIN list
                 /\ list[PageOf(list, pid, height) * height + line + 1] = at[line]
  <1> DEFINE p == PageOf(list, pid, height)
             at == Drawn(list, <<>>, p, i, height)
             mark == Marked(list, <<>>, pid, i, height)
             first == IF view = "GpuActive" THEN 1 ELSE 0
  <1>1. p \in Nat /\ (pid \in Range(list) => p = Place(list, pid) \div height)
    BY PageShowsSelection
  <1>2. mark = IF view # "SystemIo" /\ pid \in Range(list) THEN pid ELSE 0
    BY DEF Marked
  <1>3. view \in Views /\ Range(list) \subseteq Pids
    BY RangeOfSeq DEF Types, Lined
  <1>4. view # "SystemIo" => at = Part(list, p * height, height, first)
    BY <1>3 DEF Drawn, Views
  <1>5. view = "SystemIo" => at = <<>>
    BY DEF Drawn
  <1>6. p * height \in Nat
    BY <1>1
  <1> HIDE DEF p, at, mark
  <1>7. Range(at) \subseteq Pids
    <2>1. Range(<<>>) = {}
      BY DEF Range
    <2>2. CASE view = "SystemIo"
      BY <1>5, <2>1, <2>2
    <2>3. CASE view # "SystemIo"
      <3>1. first \in Nat
        OBVIOUS
      <3> HIDE DEF first
      <3>2. QED
        BY <1>3, <1>4, <1>6, <2>3, <3>1, PartOfList
    <2>4. QED
      BY <2>2, <2>3
  <1>8. ASSUME mark # 0 PROVE mark \in Range(at)
    <2>1. view # "SystemIo" /\ pid \in Range(list) /\ mark = pid
      BY <1>2, <1>8
    <2> DEFINE k == Place(list, pid) + 1
    <2>2. Place(list, pid) \in 0..(Len(list) - 1) /\ list[k] = pid
      BY <2>1, PlaceInList
    <2>3. k \in DOMAIN list /\ k \in Int
      BY <2>2, LenProperties DEF Lined
    <2>4. p * height < k /\ k <= p * height + height
      <3>1. Place(list, pid) \in Nat /\ p = Place(list, pid) \div height
        BY <1>1, <2>1, <2>2
      <3>2. p * height <= Place(list, pid) /\ Place(list, pid) < p * height + height
        BY <3>1, BlockOf
      <3>3. QED
        BY <1>6, <3>1, <3>2
    <2>5. first \in Nat
      OBVIOUS
    <2> HIDE DEF k, first
    <2>6. QED
      BY <1>4, <1>6, <2>1, <2>2, <2>3, <2>4, <2>5, PartOfList
  <1>9. ASSUME view = "Overview", NEW line \in DOMAIN at
        PROVE  p * height + line + 1 \in DOMAIN list /\ list[p * height + line + 1] = at[line]
    <2>1. at = Part(list, p * height, height, 0)
      BY <1>4, <1>9
    <2> DEFINE start == p * height
    <2>2. start \in Nat /\ at = Part(list, start, height, 0) /\ line \in DOMAIN at
      BY <1>6, <1>9, <2>1
    <2> HIDE DEF start
    <2>3. start + line + 1 \in DOMAIN list /\ list[start + line + 1] = at[line]
      BY <2>2, PartFromTop
    <2>4. QED
      BY <2>3 DEF start
  <1>10. mark \in Pids \cup {0}
    BY <1>2
  <1>11. QED
    BY <1>7, <1>8, <1>9, <1>10 DEF p, at, mark

\* And one of the alpha profile, of the list of its processes.
AlphaDrawn(aiList, i, height) ==
  IF height < 5 THEN <<>>
  ELSE Part(aiList, (i \div AiRows(height)) * AiRows(height), AiRows(height), 3)

AlphaMarked(aiList, i, height) ==
  IF aiList = <<>> \/ height < 5 THEN 0 ELSE aiList[i + 1]

LEMMA AlphaFrame ==
  ASSUME NEW aiList, Lined(aiList), NEW height \in Nat \ {0}, NEW i \in Nat
  PROVE  LET index2 == IndexOf(aiList, i, height)
             at == AlphaDrawn(aiList, index2, height)
             mark == AlphaMarked(aiList, index2, height)
         IN /\ index2 \in Nat
            /\ Range(at) \subseteq Pids
            /\ mark \in Pids \cup {0}
            /\ mark # 0 => mark \in Range(at)
            /\ aiList # <<>> /\ height >= 5 => mark # 0
  <1> DEFINE index2 == IndexOf(aiList, i, height)
             at == AlphaDrawn(aiList, index2, height)
             mark == AlphaMarked(aiList, index2, height)
             count == AiRows(height)
             start == (index2 \div count) * count
  <1>1. Len(aiList) \in Nat /\ (aiList # <<>> => Len(aiList) - 1 \in Nat)
        /\ DOMAIN aiList = 1..Len(aiList) /\ Range(aiList) \subseteq Pids
    BY EmptySeq, LenProperties, RangeOfSeq DEF Lined
  <1>2. index2 \in Nat /\ (height >= 5 /\ aiList # <<>> => index2 \in 0..(Len(aiList) - 1))
    BY <1>1 DEF IndexOf, Clamp
  <1>3. height >= 5 => at = Part(aiList, start, count, 3)
    BY DEF AlphaDrawn
  <1>4. height < 5 => at = <<>>
    BY DEF AlphaDrawn
  <1>5. mark = IF aiList = <<>> \/ height < 5 THEN 0 ELSE aiList[index2 + 1]
    BY DEF AlphaMarked
  <1>6. count \in Nat \ {0}
    BY DEF AiRows, Clamp
  <1> HIDE DEF index2, count
  <1>7. index2 \div count \in Nat /\ start <= index2 /\ index2 < start + count
    BY <1>2, <1>6, BlockOf
  <1>8. start \in Nat
    BY <1>6, <1>7
  <1> HIDE DEF at, mark, start
  <1> DEFINE drawn == Part(aiList, start, count, 3)
  <1>a. /\ Range(drawn) \subseteq Range(aiList)
        /\ \A k \in DOMAIN aiList :
             k \in Int /\ start < k /\ k <= start + count => aiList[k] \in Range(drawn)
    BY <1>6, <1>8, PartOfList
  <1> HIDE DEF drawn
  <1>b. height >= 5 => at = drawn
    BY <1>3 DEF drawn
  <1>9. Range(at) \subseteq Pids
    <2>1. Range(<<>>) = {}
      BY DEF Range
    <2>2. QED
      BY <1>1, <1>4, <1>a, <1>b, <2>1
  <1>10. ASSUME aiList # <<>>, height >= 5
         PROVE  mark \in Pids /\ mark \in Range(at)
    <2>1. index2 + 1 \in DOMAIN aiList /\ mark = aiList[index2 + 1]
      BY <1>1, <1>2, <1>5, <1>10
    <2>2. mark \in Pids
      BY <1>1, <2>1 DEF Range
    <2>3. start < index2 + 1 /\ index2 + 1 <= start + count
      BY <1>2, <1>6, <1>7, <1>8
    <2>4. QED
      BY <1>2, <1>a, <1>b, <1>10, <2>1, <2>2, <2>3
  <1>11. mark \in Pids \cup {0} /\ (mark # 0 => mark \in Range(at))
         /\ (aiList # <<>> /\ height >= 5 => mark # 0)
    <2>1. 0 \notin Pids
      BY ScreenAssumption
    <2>2. CASE aiList = <<>> \/ height < 5
      <3>1. mark = 0
        BY <1>5, <2>2
      <3>2. ~(aiList # <<>> /\ height >= 5)
        BY <2>2
      <3>3. QED
        BY <3>1, <3>2
    <2>3. CASE ~(aiList = <<>> \/ height < 5)
      <3>1. aiList # <<>> /\ height >= 5
        BY <2>3
      <3>2. QED
        BY <1>10, <2>1, <3>1
    <2>4. QED
      BY <2>2, <2>3
  <1>12. QED
    BY <1>2, <1>9, <1>11 DEF index2, at, mark

LEMMA FrameInv == ScreenInv /\ Frame => ScreenInv'
  <1> SUFFICES ASSUME ScreenInv, Frame PROVE ScreenInv'
    OBVIOUS
  <1> USE DEF ScreenInv
  <1>1. /\ lines' \in Heights[profile]
        /\ ~pending'
        /\ selected' = Kept(rows', Found(rows'))
        /\ page' = PageOf(rows', selected', lines')
        /\ index' = IF profile = "beta" THEN index ELSE IndexOf(ai', AiFound(ai'), lines')
        /\ screen' = [at |-> Drawn(rows', ai', page', index', lines'),
                      mark |-> Marked(rows', ai', selected', index', lines'),
                      view |-> view, page |-> page']
        /\ open' = StillOpen(rows', ai', selected')
        /\ UNCHANGED <<profile, view, prompt, filter, search>>
    BY DEF Frame
  <1>2. Lined(rows') /\ Lined(ai')
    BY FrameLists
  <1>3. selected' \in Pids \cup {0}
    BY <1>1, <1>2, FoundIsListed DEF Kept
  <1>4. lines' \in Nat \ {0} /\ profile \in {"alpha", "beta"}
    BY <1>1, ScreenAssumption DEF Types, Profiles
  <1>5. page' \in Nat
    BY <1>1, <1>2, <1>4, PageShowsSelection
  <1>6. /\ screen'.at = Drawn(rows', ai', page', index', lines')
        /\ screen'.mark = Marked(rows', ai', selected', index', lines')
        /\ screen'.view = view /\ screen'.page = page'
    BY <1>1
  <1>7. OneDialog'
    BY <1>1, StillOneDialog DEF StillOpen
  <1>8. pending' \in BOOLEAN
    BY <1>1, Zenon DEF Frame
  <1>9. CASE profile = "beta"
    <2>1. ai' = <<>> /\ index' = index
      BY <1>1, <1>9 DEF Frame
    <2>2. /\ Range(screen'.at) \subseteq Pids
          /\ screen'.mark \in Pids \cup {0}
          /\ screen'.mark # 0 => screen'.mark \in Range(screen'.at)
          /\ view = "Overview" => \A line \in DOMAIN screen'.at :
               /\ page' * lines' + line + 1 \in DOMAIN rows'
               /\ rows'[page' * lines' + line + 1] = screen'.at[line]
      BY <1>1, <1>2, <1>3, <1>4, <1>6, <1>9, <2>1, BetaFrame
    <2>3. Types'
      BY <1>1, <1>2, <1>3, <1>5, <1>6, <1>8, <2>1, <2>2 DEF Types
    <2>4. MarkIsDrawn' /\ DrawnFromRows'
      BY <1>1, <1>6, <1>9, <2>2 DEF MarkIsDrawn, DrawnFromRows, LineDrawn
    <2>5. QED
      BY <1>7, <2>3, <2>4
  <1>10. CASE profile = "alpha"
    <2>1. index' = IndexOf(ai', AiFound(ai'), lines') /\ AiFound(ai') \in Nat
      BY <1>1, <1>2, <1>10, AiFoundIsIndex
    <2>2. /\ index' \in Nat
          /\ Range(screen'.at) \subseteq Pids
          /\ screen'.mark \in Pids \cup {0}
          /\ screen'.mark # 0 => screen'.mark \in Range(screen'.at)
          /\ ai' # <<>> /\ lines' >= 5 => screen'.mark # 0
      <3> DEFINE i == AiFound(ai')
      <3>1. i \in Nat /\ index' = IndexOf(ai', i, lines')
        BY <2>1
      <3> HIDE DEF i
      <3>2. /\ screen'.at = AlphaDrawn(ai', index', lines')
            /\ screen'.mark = AlphaMarked(ai', index', lines')
        BY <1>6, <1>10 DEF Drawn, Marked, AlphaDrawn, AlphaMarked
      <3>3. QED
        BY <1>2, <1>4, <3>1, <3>2, AlphaFrame
    <2>3. Types'
      BY <1>1, <1>2, <1>3, <1>5, <1>6, <1>8, <2>2 DEF Types
    <2>4. MarkIsDrawn' /\ DrawnFromRows'
      BY <1>1, <1>6, <1>10, <2>2 DEF MarkIsDrawn, DrawnFromRows
    <2>5. QED
      BY <1>7, <2>3, <2>4
  <1>11. QED
    BY <1>4, <1>9, <1>10

-----------------------------------------------------------------------------
(***************************************************************************)
(* Keys and clicks.                                                        *)
(***************************************************************************)

\* A row that is there has a process.
LEMMA RowIsProcess ==
  ASSUME NEW list, Lined(list)
  PROVE  /\ \A k \in DOMAIN list : list[k] \in Pids
         /\ Range(list) \subseteq Pids
         /\ list # <<>> => 1 \in DOMAIN list /\ Len(list) \in DOMAIN list
  <1>1. DOMAIN list = 1..Len(list) /\ Len(list) \in Nat /\ (list # <<>> => Len(list) \in Nat \ {0})
    BY EmptySeq, LenProperties DEF Lined
  <1>2. Range(list) \subseteq Pids
    BY RangeOfSeq DEF Lined
  <1>3. QED
    BY <1>1, <1>2 DEF Range

\* The mouse changes the selection, and the page with a new order.
LEMMA MouseInv ==
  ASSUME ScreenInv, Click \/ ClickHeader PROVE ScreenInv'
  <1> USE DEF ScreenInv, state, texts
  <1>1. CASE Click
    <2>1. PICK line \in 0..(lines - 1) : ClickLine(line)
      BY <1>1 DEF Click
    <2>2. selected' \in Pids /\ UNCHANGED <<state, page, index, open, prompt, texts>>
      BY <2>1, RowIsProcess DEF ClickLine, Types
    <2>3. Types'
      BY <2>2 DEF Types, Lined
    <2>4. OneDialog'
      BY <2>2 DEF OneDialog
    <2>5. QED
      BY <2>2, <2>3, <2>4, DrawnIsKept
  <1>2. CASE ClickHeader
    <2>1. selected' = 0 /\ page' = 0 /\ UNCHANGED <<state, index, open, prompt, texts>>
      BY <1>2 DEF ClickHeader, Resort
    <2>2. Types'
      BY <2>1 DEF Types, Lined
    <2>3. OneDialog'
      BY <2>1 DEF OneDialog
    <2>4. QED
      BY <2>1, <2>2, <2>3, DrawnIsKept
  <1>3. QED
    BY <1>1, <1>2

\* A popup closes.
LEMMA ClosePopupInv ==
  ASSUME ScreenInv, ClosePopup PROVE ScreenInv'
  <1> USE DEF ScreenInv, state, texts
  <1>1. open' = open \ {Top} /\ UNCHANGED <<state, selected, page, index, prompt, texts>>
    BY DEF ClosePopup
  <1>2. Types'
    BY <1>1 DEF Types, Lined
  <1>3. OneDialog'
    BY <1>1, StillOneDialog
  <1>4. QED
    BY <1>1, <1>2, <1>3, DrawnIsKept

\* The keys of a prompt.
LEMMA PromptInv ==
  ASSUME ScreenInv, CancelPrompt \/ Submit \/ EditSearch \/ EditFilter \/ SortMenu
  PROVE  ScreenInv'
  <1> USE DEF ScreenInv, state, texts
  <1>1. open = {} /\ UNCHANGED <<state, index, open>>
    BY DEF CancelPrompt, Submit, EditSearch, EditFilter, SortMenu, Resort
  <1>2. selected' \in {selected, 0} /\ page' \in {page, 0} /\ prompt' \in {prompt, "None"}
    BY DEF CancelPrompt, Submit, EditSearch, EditFilter, SortMenu, Resort
  <1>3. filter' \in Texts /\ search' \in Texts
    BY ScreenAssumption DEF CancelPrompt, Submit, EditSearch, EditFilter, SortMenu, Resort, Types
  <1>4. pending' \in BOOLEAN
    <2>1. CASE Submit
      BY <2>1, Zenon DEF Submit, Types
    <2>2. CASE EditSearch
      BY <2>2, Zenon DEF EditSearch
    <2>3. CASE CancelPrompt \/ EditFilter \/ SortMenu
      <3>1. pending' = pending
        BY <2>3 DEF CancelPrompt, EditFilter, SortMenu, Resort
      <3>2. QED
        BY <3>1 DEF Types
    <2>4. QED
      BY <2>1, <2>2, <2>3
  <1>5. Types'
    BY <1>1, <1>2, <1>3, <1>4 DEF Types, Lined, Prompts
  <1>6. OneDialog'
    BY <1>1 DEF OneDialog
  <1>7. QED
    BY <1>1, <1>5, <1>6, DrawnIsKept

\* Keys that move the selection or the index.
LEMMA MoveInv ==
  ASSUME ScreenInv, Move \/ Jump \/ MoveAi \/ TypePid PROVE ScreenInv'
  <1> USE DEF ScreenInv, state, texts
  <1>1. UNCHANGED <<state, page, open, prompt, texts>>
    BY DEF Move, Jump, MoveAi, TypePid
  <1>2. Len(rows) \in Nat /\ Len(ai) \in Nat /\ (rows # <<>> => Len(rows) - 1 \in Nat)
        /\ (ai # <<>> => Len(ai) - 1 \in Nat) /\ DOMAIN rows = 1..Len(rows)
    BY EmptySeq, LenProperties DEF Types, Lined
  <1>3. lines \in Nat
    BY ScreenAssumption DEF Types
  <1>4. CASE Move
    <2>1. PICK delta \in {-1, 1, -lines, lines} :
            selected' = IF rows = <<>> THEN 0
                        ELSE IF Place(rows, selected) >= 0
                             THEN rows[Moved(rows, Place(rows, selected), delta) + 1]
                        ELSE rows[IF delta >= 0 THEN 1 ELSE Len(rows)]
      BY <1>4 DEF Move
    <2>2. delta \in Int
      BY <1>3
    <2>3. selected' \in Pids \cup {0}
      <3>1. CASE rows = <<>>
        BY <2>1, <3>1
      <3>2. CASE rows # <<>> /\ Place(rows, selected) >= 0
        <4> DEFINE place == Place(rows, selected)
                   to == Moved(rows, place, delta)
        <4>1. place \in Int
          BY <1>2, PlaceInList DEF Types
        <4>2. place + delta \in Int /\ Len(rows) - 1 \in Nat
          BY <1>2, <2>2, <3>2, <4>1
        <4> HIDE DEF place
        <4>3. to \in 0..(Len(rows) - 1)
          BY <4>2 DEF Moved, Clamp
        <4> HIDE DEF to
        <4>4. to + 1 \in DOMAIN rows
          BY <1>2, <4>3
        <4>5. rows[to + 1] \in Pids
          BY <4>4, RowIsProcess DEF Types
        <4>6. selected' = rows[to + 1]
          BY <2>1, <3>2 DEF to, place
        <4>7. QED
          BY <4>5, <4>6
      <3>3. CASE rows # <<>> /\ ~(Place(rows, selected) >= 0)
        BY <2>1, <3>3, RowIsProcess DEF Types
      <3>4. QED
        BY <3>1, <3>2, <3>3
    <2>7. index' = index
      BY <1>4 DEF Move
    <2>8. Types' /\ OneDialog'
      BY <1>1, <2>3, <2>7 DEF Types, Lined, OneDialog
    <2>9. QED
      BY <1>1, <2>8, DrawnIsKept
  <1>5. CASE Jump \/ TypePid
    <2>1. selected' \in Pids /\ index' = index
      BY <1>5, RowIsProcess DEF Jump, TypePid, Types
    <2>2. Types' /\ OneDialog'
      BY <1>1, <2>1 DEF Types, Lined, OneDialog
    <2>3. QED
      BY <1>1, <2>2, DrawnIsKept
  <1>6. CASE MoveAi
    <2>1. selected' = selected
      BY <1>6 DEF MoveAi
    <2>2. index' \in Nat
      <3>1. CASE \E delta \in {-5, -1, 1, 5} :
                   index' = IF ai = <<>> THEN 0 ELSE Moved(ai, index, delta)
        <4>1. PICK delta \in {-5, -1, 1, 5} :
                index' = IF ai = <<>> THEN 0 ELSE Moved(ai, index, delta)
          BY <3>1
        <4>2. index + delta \in Int
          BY DEF Types
        <4>3. ai # <<>> => Moved(ai, index, delta) \in 0..(Len(ai) - 1)
          BY <1>2, <4>2 DEF Moved, Clamp
        <4>4. QED
          BY <1>2, <4>1, <4>3
      <3>2. CASE index' = 0
        BY <3>2
      <3>3. CASE ai # <<>> /\ index' = Len(ai) - 1
        BY <1>2, <3>3
      <3>4. QED
        BY <1>6, <3>1, <3>2, <3>3 DEF MoveAi
    <2>3. Types' /\ OneDialog'
      BY <1>1, <2>1, <2>2 DEF Types, Lined, OneDialog
    <2>4. QED
      BY <1>1, <2>3, DrawnIsKept
  <1>7. QED
    BY <1>4, <1>5, <1>6

\* The other keys at the table.
LEMMA TableKeyInv ==
  ASSUME ScreenInv,
         SortKey \/ ChangeView \/ OpenPrompt \/ OpenPopup \/ ToggleTree \/ ClearTexts
  PROVE  ScreenInv'
  <1> USE DEF ScreenInv, state, texts
  <1>1. /\ open = {} /\ prompt = "None"
        /\ UNCHANGED <<profile, lines, rows, ai, screen, index, pending>>
    BY DEF SortKey, ChangeView, OpenPrompt, OpenPopup, ToggleTree, ClearTexts, AtTable, Resort
  <1>2. view' \in Views
    BY DEF SortKey, ChangeView, OpenPrompt, OpenPopup, ToggleTree, ClearTexts, Resort, Types
  <1>3. selected' \in {selected, 0} /\ page' \in {page, 0}
    BY DEF SortKey, ChangeView, OpenPrompt, OpenPopup, ToggleTree, ClearTexts, Resort
  <1>4. filter' \in Texts /\ search' \in Texts
    BY ScreenAssumption
       DEF SortKey, ChangeView, OpenPrompt, OpenPopup, ToggleTree, ClearTexts, Resort, Types
  <1>5. prompt' \in Prompts /\ (prompt' # "None" => open' = {})
        /\ open' \in {{}} \cup {{p} : p \in Popups}
    <2>1. CASE OpenPrompt
      BY <1>1, <2>1 DEF OpenPrompt, Prompts
    <2>2. CASE OpenPopup
      <3>1. prompt' = "None"
        BY <1>1, <2>2 DEF OpenPopup
      <3>2. open' \in {{"help"}, {"setup"}, {"workload"}, {"detail"}}
        BY <2>2 DEF OpenPopup
      <3>3. QED
        BY <3>1, <3>2 DEF Popups, Prompts
    <2>3. CASE SortKey \/ ChangeView \/ ToggleTree \/ ClearTexts
      BY <1>1, <2>3 DEF SortKey, ChangeView, ToggleTree, ClearTexts, Prompts
    <2>4. QED
      BY <2>1, <2>2, <2>3
  <1>6. Types'
    BY <1>1, <1>2, <1>3, <1>4, <1>5 DEF Types, Lined
  <1>7. OneDialog'
    BY <1>5 DEF OneDialog
  <1>8. QED
    BY <1>1, <1>6, <1>7, DrawnIsKept

LEMMA ScreenStep == ScreenInv /\ [Next]_vars => ScreenInv'
  <1> SUFFICES ASSUME ScreenInv, [Next]_vars PROVE ScreenInv'
    OBVIOUS
  <1>1. CASE Frame
    BY <1>1, FrameInv
  <1>2. CASE Click \/ ClickHeader
    BY <1>2, MouseInv
  <1>3. CASE ClosePopup
    BY <1>3, ClosePopupInv
  <1>4. CASE CancelPrompt \/ Submit \/ EditSearch \/ EditFilter \/ SortMenu
    BY <1>4, PromptInv
  <1>5. CASE Move \/ Jump \/ MoveAi \/ TypePid
    BY <1>5, MoveInv
  <1>6. CASE SortKey \/ ChangeView \/ OpenPrompt \/ OpenPopup \/ ToggleTree \/ ClearTexts
    BY <1>6, TableKeyInv
  <1>7. CASE UNCHANGED vars
    <2>1. Types'
      BY <1>7 DEF vars, state, texts, ScreenInv, Types, Lined
    <2>2. OneDialog'
      BY <1>7 DEF vars, ScreenInv, OneDialog
    <2>3. MarkIsDrawn' /\ DrawnFromRows'
      BY <1>7, DrawnIsKept DEF vars, state
    <2>4. QED
      BY <2>1, <2>2, <2>3 DEF ScreenInv
  <1>8. QED
    BY <1>1, <1>2, <1>3, <1>4, <1>5, <1>6, <1>7 DEF Next

LEMMA ScreenAlways == Spec => []ScreenInv
  BY ScreenInit, ScreenStep, PTL DEF Spec

-----------------------------------------------------------------------------

\* The main loop of main.cpp: whatever samples, keys, clicks and resizes come
\* in whatever order, at most one dialog takes the keys, the row a frame marks
\* is one that it draws, on a page of the list, and in the alpha profile there
\* is one.
THEOREM ScreenIsConsistent == Spec => []ScreenConsistent
  <1>1. ScreenInv => ScreenConsistent
    <2> SUFFICES ASSUME ScreenInv PROVE ScreenConsistent
      OBVIOUS
    <2>1. Range(rows) \subseteq Pids /\ Range(ai) \subseteq Pids
      BY RowIsProcess DEF ScreenInv, Types
    <2>2. open \subseteq Popups
      BY DEF ScreenInv, OneDialog
    <2>3. TypeOK
      BY <2>1, <2>2 DEF ScreenInv, Types, TypeOK
    <2>4. Cardinality(open) <= 1
      <3>1. CASE open = {}
        BY <3>1, FS_EmptySet
      <3>2. CASE \E p \in Popups : open = {p}
        <4>1. PICK p \in Popups : open = {p}
          BY <3>2
        <4>2. Cardinality({p}) = 1
          BY FS_Singleton
        <4>3. QED
          BY <4>1, <4>2
      <3>3. QED
        BY <3>1, <3>2 DEF ScreenInv, OneDialog
    <2>5. OnePopup
      BY <2>4 DEF OnePopup, ScreenInv, OneDialog
    <2>6. QED
      BY <2>3, <2>5 DEF ScreenInv, ScreenConsistent
  <1>2. QED
    BY ScreenAlways, <1>1, PTL

\* synthesize_mouse_event: between two frames the rows do not move under the
\* mouse; a click on a line of the Overview hits the process drawn there as
\* long as no key has turned the page.
THEOREM ClicksHitDrawnRows == Spec => []OverviewClicksHit
  <1>1. ScreenInv => OverviewClicksHit
    BY DEF ScreenInv, DrawnFromRows, LineDrawn, OverviewClicksHit, LineAt
  <1>2. QED
    BY ScreenAlways, <1>1, PTL

\* update_live_prompt, handle_input and the frames: while the signal prompt is
\* open the process it will hit is changed by a click or a search that was
\* pending, and otherwise only dropped.
THEOREM TargetIsHeld == Spec => TargetHolds
  <1> DEFINE Held == prompt = "Signal" /\ selected' # selected =>
                       selected' = 0 \/ (pending /\ selected' \in Match[search]) \/ Click
  <1>1. ScreenInv /\ [Next]_vars => [Held]_vars
    <2> SUFFICES ASSUME ScreenInv, Next, prompt = "Signal", selected' # selected
                 PROVE  selected' = 0 \/ (pending /\ selected' \in Match[search]) \/ Click
      BY DEF vars
    <2>1. CASE Frame
      <3>1. selected' = Kept(rows', Found(rows')) /\ Lined(rows')
        BY <2>1, FrameLists DEF Frame, ScreenInv
      <3>2. QED
        BY <3>1, FoundIsListed DEF Kept, ScreenInv
    <2>2. CASE Click
      BY <2>2
    <2>3. CASE ClickHeader \/ ClosePopup \/ CancelPrompt \/ Submit \/ EditSearch \/ EditFilter
                \/ SortMenu
      BY <2>3 DEF ClickHeader, Resort, ClosePopup, CancelPrompt, Submit, EditSearch, EditFilter,
         SortMenu
    <2>4. CASE Move \/ Jump \/ MoveAi \/ TypePid \/ SortKey \/ ChangeView \/ OpenPrompt
                \/ OpenPopup \/ ToggleTree \/ ClearTexts
      BY <2>4 DEF Move, Jump, MoveAi, TypePid, SortKey, ChangeView, OpenPrompt, OpenPopup,
         ToggleTree, ClearTexts, AtTable
    <2>5. QED
      BY <2>1, <2>2, <2>3, <2>4 DEF Next
  <1>2. QED
    BY ScreenAlways, <1>1, PTL DEF Spec, TargetHolds

\* What the search finds, in terms of the processes and their lines.
LEMMA NearestFound ==
  ASSUME NEW list, Lined(list), NEW pid, NEW matches,
         NEW match \in Range(list) \cap matches
  PROVE  LET n == Len(list)
             Lower(p) == (Place(list, p) - Place(list, pid) + n - 1) % n
             hit == Search(list, Place(list, pid), matches)
         IN /\ list # <<>> /\ hit # -1
            /\ list[hit + 1] \in Range(list) \cap matches
            /\ \A p \in Range(list) \cap matches : Lower(list[hit + 1]) <= Lower(p)
  <1> DEFINE n == Len(list)
             base == Place(list, pid)
             hit == Search(list, base, matches)
             some == Place(list, match)
  <1>1. DOMAIN list = 1..n /\ n \in Nat
    BY LenProperties DEF Lined
  <1>2. list # <<>>
    BY DEF Range
  <1>3. base \in Int
    BY <1>1, PlaceInList
  <1>4. some \in 0..(n - 1) /\ list[some + 1] \in matches
    BY PlaceInList
  <1>5. /\ hit \in 0..(n - 1)
        /\ list[hit + 1] \in matches
        /\ \A i \in 0..(n - 1) : list[i + 1] \in matches =>
             (hit - base + n - 1) % n <= (i - base + n - 1) % n
    <2> HIDE DEF base, some
    <2>1. QED
      BY <1>3, <1>4, SearchIsNearest
  <1>6. hit # -1
    <2> HIDE DEF hit
    <2>1. QED
      BY <1>1, <1>5
  <1>7. list[hit + 1] \in Range(list) /\ Place(list, list[hit + 1]) = hit
    <2> HIDE DEF hit
    <2>1. QED
      BY <1>5, PlaceOfLine
  <1>8. ASSUME NEW p \in Range(list) \cap matches
        PROVE  (Place(list, list[hit + 1]) - base + n - 1) % n <= (Place(list, p) - base + n - 1) % n
    <2> HIDE DEF hit, base
    <2>1. Place(list, p) \in 0..(n - 1) /\ list[Place(list, p) + 1] = p
      BY PlaceInList
    <2>2. QED
      BY <1>5, <1>7, <2>1
  <1>9. QED
    BY <1>2, <1>5, <1>6, <1>7, <1>8

\* apply_search_request: in the beta profile a search that has a match ends on
\* the nearest one below the selection, around the end of the list, for any
\* list and any selection, listed or not.
THEOREM SearchPassesOverNone == Spec => SearchFindsNext
  <1> DEFINE n == Len(rows')
             Lower(pid) == (Place(rows', pid) - Place(rows', selected) + n - 1) % n
             hits == Range(rows') \cap Match[search]
             asked == pending /\ ~pending' /\ profile = "beta" /\ search # "" /\ hits # {}
             Nearest == asked =>
                          selected' \in hits /\ \A pid \in hits : Lower(selected') <= Lower(pid)
             hit == Search(rows', Place(rows', selected), Match[search])
  <1>1. ASSUME ScreenInv, Next, asked
        PROVE  Frame
    <2>1. ~(Click \/ ClickHeader \/ ClosePopup \/ CancelPrompt \/ EditFilter \/ SortMenu
            \/ Move \/ Jump \/ MoveAi \/ TypePid \/ SortKey \/ ChangeView \/ OpenPrompt
            \/ OpenPopup \/ ToggleTree \/ ClearTexts)
      BY <1>1
         DEF Click, ClickLine, ClickHeader, Resort, ClosePopup, CancelPrompt, EditFilter, SortMenu,
         Move, Jump, MoveAi, TypePid, SortKey, ChangeView, OpenPrompt, OpenPopup, ToggleTree,
         ClearTexts, texts
    <2>2. ~Submit /\ ~EditSearch
      BY <1>1, Zenon DEF Submit, EditSearch
    <2>3. QED
      BY <1>1, <2>1, <2>2 DEF Next
  <1>2. ASSUME ScreenInv, Frame, asked
        PROVE  selected' \in hits /\ \A pid \in hits : Lower(selected') <= Lower(pid)
    <2>1. Lined(rows') /\ selected' = Kept(rows', Found(rows'))
      BY <1>2, FrameLists DEF Frame, ScreenInv
    <2>2. PICK match \in hits : TRUE
      BY <1>2
    <2>3. /\ rows' # <<>> /\ hit # -1
          /\ rows'[hit + 1] \in hits
          /\ \A p \in hits : Lower(rows'[hit + 1]) <= Lower(p)
      BY <2>1, <2>2, NearestFound
    <2>4. Found(rows') = rows'[hit + 1]
      <3>1. pending /\ profile # "alpha" /\ search # ""
        BY <1>2
      <3> HIDE DEF hits
      <3>2. QED
        BY <2>3, <3>1, Zenon DEF Found
    <2>5. selected' = rows'[hit + 1]
      <3> HIDE DEF hit, hits
      <3>1. QED
        BY <2>1, <2>3, <2>4, Zenon DEF Kept
    <2>6. QED
      <3> HIDE DEF hit, hits, Lower
      <3>1. QED
        BY <2>3, <2>5
  <1>3. ScreenInv /\ [Next]_vars => [Nearest]_vars
    BY <1>1, <1>2
  <1>4. QED
    BY ScreenAlways, <1>3, PTL DEF Spec, SearchFindsNext

-----------------------------------------------------------------------------
(***************************************************************************)
(* The rows: a set of processes sorted, and the processes above one.       *)
(***************************************************************************)

\* Processes with ids of their own.
Listing(S) ==
  /\ S \subseteq Processes /\ IsFiniteSet(S)
  /\ \A p, q \in S : p.pid = q.pid => p = q
  /\ \A p \in S : p.pid > 0

Sorting == sort \in Modes /\ direction \in Directions

Less(p, q) == SortLess(p, q, sort, direction)

LEMMA SampleIsListing ==
  ASSUME NEW list \in Samples
  PROVE  /\ list \in Seq(Processes) /\ Len(list) \in Nat /\ DOMAIN list = 1..Len(list)
         /\ Listing(Range(list)) /\ Cardinality(Range(list)) = Len(list)
<1> DEFINE n == Len(list)
           S == Range(list)
<1>1. /\ list \in Seq(Processes)
      /\ \A i, j \in DOMAIN list : list[i].pid = list[j].pid => i = j
      /\ \A i \in DOMAIN list : list[i].pid > 0
  BY RowsAssumption
<1>2. n \in Nat /\ DOMAIN list = 1..n /\ list \in [1..n -> Processes]
  BY <1>1
<1>3. list \in [1..n -> S] /\ S \subseteq Processes
      /\ \A p \in S : \E i \in 1..n : p = list[i]
  BY <1>2 DEF Range
<1> HIDE DEF n, S
<1>4. list \in Bijection(1..n, S)
  BY <1>1, <1>2, <1>3 DEF Bijection, Injection, Surjection, IsInjective
<1>5. IsFiniteSet(1..n) /\ Cardinality(1..n) = n
  BY <1>2, FS_Interval
<1>6. IsFiniteSet(S) /\ Cardinality(S) = n
  <2>1. ExistsBijection(1..n, S)
    BY <1>4 DEF ExistsBijection
  <2>2. QED
    BY <1>5, <2>1, FS_Bijection
<1>7. \A p, q \in S : p.pid = q.pid => p = q
  BY <1>1, <1>2, <1>3
<1>8. \A p \in S : p.pid > 0
  BY <1>1, <1>2, <1>3
<1>9. QED
  BY <1>1, <1>2, <1>3, <1>6, <1>7, <1>8 DEF Listing, n, S

LEMMA PartIsListing ==
  ASSUME NEW S, Listing(S), NEW T \in SUBSET S
  PROVE  Listing(T)
<1>1. IsFiniteSet(T)
  BY FS_Subset DEF Listing
<1>2. QED
  BY <1>1 DEF Listing

LEMMA SortedIs ==
  ASSUME NEW S, Listing(S), Sorting
  PROVE  /\ Sorted(S) \in Seq(S) /\ Len(Sorted(S)) = Cardinality(S) /\ Cardinality(S) \in Nat
         /\ DOMAIN Sorted(S) = 1..Len(Sorted(S)) /\ Range(Sorted(S)) = S
         /\ \A i, j \in DOMAIN Sorted(S) : i # j => Sorted(S)[i] # Sorted(S)[j]
         /\ \A i, j \in DOMAIN Sorted(S) : i < j => Less(Sorted(S)[i], Sorted(S)[j])
<1> DEFINE R == {x \in S \X S : Less(x[1], x[2])}
           order == Sorted(S)
<1>0. IsFiniteSet(S) /\ S \subseteq Processes /\ sort \in Modes /\ direction \in Directions
  BY DEF Listing, Sorting
<1>1. \A p, q \in S : <<p, q>> \in R <=> Less(p, q)
  OBVIOUS
<1>2. Orders(R, S)
  <2>1. ASSUME NEW p \in S PROVE ~Less(p, p)
    BY <1>0, SortLessAsymmetric DEF Less
  <2>2. ASSUME NEW p \in S, NEW q \in S, NEW r \in S, Less(p, q), Less(q, r) PROVE Less(p, r)
    BY <1>0, <2>2, SortLessTransitive DEF Less
  <2> HIDE DEF R
  <2>3. QED
    BY <1>1, <2>1, <2>2 DEF Orders
<1> HIDE DEF R
<1>3. PICK s \in SetToSeqs(S) : InOrder(s, R)
  BY <1>0, <1>2, OrderedExists
<1>4. \A t \in SetToSeqs(S) : \A i \in DOMAIN t : t[i] \in S
  BY DEF SetToSeqs
<1>5. order \in SetToSeqs(S) /\ \A i, j \in DOMAIN order : i < j => ~Less(order[j], order[i])
  <2>1. \A i, j \in DOMAIN s : i < j => ~Less(s[j], s[i])
    BY <1>1, <1>3, <1>4 DEF InOrder
  <2>2. QED
    BY <2>1 DEF Sorted, Less
<1> HIDE DEF order
<1>6. /\ order \in Seq(S) /\ DOMAIN order = 1..Cardinality(S) /\ Range(order) = S
      /\ \A i, j \in DOMAIN order : i # j => order[i] # order[j]
  BY <1>0, <1>5, SeqOfSet
<1>7. Cardinality(S) \in Nat
  BY <1>0, FS_CardinalityType
<1>8. Len(order) = Cardinality(S)
  BY <1>6, <1>7
<1>9. ASSUME NEW i \in DOMAIN order, NEW j \in DOMAIN order, i < j PROVE Less(order[i], order[j])
  <2>1. order[i] \in S /\ order[j] \in S /\ order[i] # order[j]
    BY <1>4, <1>5, <1>6, <1>7, <1>9
  <2>2. order[i].pid # order[j].pid
    BY <2>1 DEF Listing
  <2>3. Less(order[i], order[j]) \/ Less(order[j], order[i])
    BY <1>0, <2>1, <2>2, SortLessTotal DEF Less
  <2>4. QED
    BY <1>5, <1>9, <2>3
<1>10. QED
  BY <1>6, <1>7, <1>8, <1>9 DEF order

-----------------------------------------------------------------------------

\* The one that p is a child of, if there is one.
LEMMA OneParent ==
  ASSUME NEW S, Listing(S), NEW p \in S
  PROVE  /\ p \in Roots(S) <=> \A q \in S : ~IsParent(q, p)
         /\ \A q, r \in S : IsParent(q, p) /\ IsParent(r, p) => q = r
<1>1. ASSUME p \in Roots(S), NEW q \in S PROVE ~IsParent(q, p)
  BY <1>1 DEF Roots, IsParent, Listing, Processes
<1>2. ASSUME p \notin Roots(S) PROVE \E q \in S : IsParent(q, p)
  BY <1>2 DEF Roots, IsParent
<1>3. QED
  BY <1>1, <1>2 DEF IsParent, Listing

AboveIn(S, T, p) == {q \in S : \E r \in T \cup {p} : IsParent(q, r)}

LEMMA AncestorsAre ==
  ASSUME NEW S, NEW p
  PROVE  /\ AncestorsIn(S, p) \subseteq S
         /\ \A q \in S : q \in AncestorsIn(S, p) <=>
              \A T \in SUBSET S : AboveIn(S, T, p) \subseteq T => q \in T
         /\ AboveIn(S, AncestorsIn(S, p), p) \subseteq AncestorsIn(S, p)
<1>1. /\ AncestorsIn(S, p) \subseteq S
      /\ \A q \in S : q \in AncestorsIn(S, p) <=>
           \A T \in SUBSET S : AboveIn(S, T, p) \subseteq T => q \in T
  BY DEF AncestorsIn, AboveIn
<1>2. ASSUME NEW q \in AboveIn(S, AncestorsIn(S, p), p) PROVE q \in AncestorsIn(S, p)
  <2>1. q \in S
    BY DEF AboveIn
  <2>2. PICK r \in AncestorsIn(S, p) \cup {p} : IsParent(q, r)
    BY DEF AboveIn
  <2>3. ASSUME NEW T \in SUBSET S, AboveIn(S, T, p) \subseteq T PROVE q \in T
    <3>1. r \in T \cup {p}
      BY <1>1, <2>2, <2>3
    <3>2. QED
      BY <2>1, <2>2, <2>3, <3>1 DEF AboveIn
  <2>4. QED
    BY <1>1, <2>1, <2>3
<1>3. QED
  BY <1>1, <1>2

LEMMA NoneAboveRoots ==
  ASSUME NEW S, Listing(S), NEW p \in Roots(S)
  PROVE  AncestorsIn(S, p) = {}
<1>1. p \in S
  BY DEF Roots
<1>2. AboveIn(S, {}, p) = {}
  BY <1>1, OneParent DEF AboveIn
<1>3. QED
  BY <1>2, AncestorsAre

LEMMA ParentAndAbove ==
  ASSUME NEW S, Listing(S), NEW p \in S, NEW x \in S, IsParent(x, p)
  PROVE  AncestorsIn(S, p) = {x} \cup AncestorsIn(S, x)
<1>1. x \in AncestorsIn(S, p)
  BY AncestorsAre DEF AboveIn
<1>2. ASSUME NEW q \in AncestorsIn(S, x) PROVE q \in AncestorsIn(S, p)
  <2>1. q \in S
    BY AncestorsAre
  <2>2. ASSUME NEW T \in SUBSET S, AboveIn(S, T, p) \subseteq T PROVE q \in T
    <3>1. x \in T
      BY <2>2 DEF AboveIn
    <3>2. AboveIn(S, T, x) \subseteq AboveIn(S, T, p)
      BY <3>1 DEF AboveIn
    <3>3. QED
      BY <2>1, <2>2, <3>2, AncestorsAre
  <2>3. QED
    BY <2>1, <2>2, AncestorsAre
<1>3. AncestorsIn(S, p) \subseteq {x} \cup AncestorsIn(S, x)
  <2> DEFINE T == {x} \cup AncestorsIn(S, x)
  <2>1. T \in SUBSET S
    BY AncestorsAre
  <2>2. AboveIn(S, T, p) \subseteq T
    <3> SUFFICES ASSUME NEW q \in S, NEW r \in T \cup {p}, IsParent(q, r) PROVE q \in T
      BY DEF AboveIn
    <3>1. CASE r = p
      BY <3>1, OneParent
    <3>2. CASE r \in T
      <4>1. q \in AboveIn(S, AncestorsIn(S, x), x)
        BY <3>2 DEF AboveIn
      <4>2. QED
        BY <4>1, AncestorsAre
    <3>3. QED
      BY <3>1, <3>2
  <2>3. QED
    BY <2>1, <2>2, AncestorsAre
<1>4. QED
  BY <1>1, <1>2, <1>3

\* An ordinary ancestry, nothing of it collapsed.
Tidy(S, p) ==
  /\ \A q \in AncestorsIn(S, p) \cup {p} : q \notin AncestorsIn(S, q)
  /\ \A q \in AncestorsIn(S, p) : q.pid \notin collapsed

LEMMA ParentIsTidy ==
  ASSUME NEW S, Listing(S), NEW p \in S, NEW x \in S, IsParent(x, p), Tidy(S, p)
  PROVE  /\ Tidy(S, x) /\ x \notin AncestorsIn(S, x) /\ x.pid \notin collapsed
         /\ x \in AncestorsIn(S, p) /\ AncestorsIn(S, x) \subseteq AncestorsIn(S, p)
BY ParentAndAbove DEF Tidy

\* Who has the same processes above has the same parent.
LEMMA SameAncestors ==
  ASSUME NEW S, Listing(S), NEW p \in S, NEW q \in S, Tidy(S, p), Tidy(S, q),
         AncestorsIn(S, p) = AncestorsIn(S, q)
  PROVE  \/ p \in Roots(S) /\ q \in Roots(S)
         \/ \E x \in S : IsParent(x, p) /\ IsParent(x, q)
<1>1. ASSUME NEW r \in S, r \notin Roots(S) PROVE AncestorsIn(S, r) # {}
  <2>1. PICK x \in S : IsParent(x, r)
    BY <1>1, OneParent
  <2>2. QED
    BY <2>1, ParentAndAbove
<1>2. CASE p \in Roots(S) \/ q \in Roots(S)
  BY <1>1, <1>2, NoneAboveRoots
<1>3. CASE p \notin Roots(S) /\ q \notin Roots(S)
  <2>1. PICK x \in S : IsParent(x, p)
    BY <1>3, OneParent
  <2>2. PICK y \in S : IsParent(y, q)
    BY <1>3, OneParent
  <2>3. /\ AncestorsIn(S, p) = {x} \cup AncestorsIn(S, x)
        /\ AncestorsIn(S, q) = {y} \cup AncestorsIn(S, y)
    BY <2>1, <2>2, ParentAndAbove
  <2>4. x \notin AncestorsIn(S, x) /\ y \notin AncestorsIn(S, y)
    BY <2>1, <2>2, ParentIsTidy
  <2>5. CASE x = y
    BY <2>1, <2>2, <2>5
  <2>6. CASE x # y
    <3>1. x \in AncestorsIn(S, y) /\ y \in AncestorsIn(S, x)
      BY <2>3, <2>6
    <3>2. x \in AncestorsIn(S, x)
      <4>1. ASSUME NEW u \in S, NEW v \in AncestorsIn(S, u)
            PROVE  AncestorsIn(S, v) \subseteq AncestorsIn(S, u)
        <5>1. v \in S
          BY AncestorsAre
        <5>2. AboveIn(S, AncestorsIn(S, u), v) \subseteq AboveIn(S, AncestorsIn(S, u), u)
          BY DEF AboveIn
        <5>3. AncestorsIn(S, u) \in SUBSET S
              /\ AboveIn(S, AncestorsIn(S, u), v) \subseteq AncestorsIn(S, u)
          BY <5>2, AncestorsAre
        <5>4. ASSUME NEW z \in AncestorsIn(S, v) PROVE z \in AncestorsIn(S, u)
          <6>1. z \in S /\ \A T \in SUBSET S : AboveIn(S, T, v) \subseteq T => z \in T
            BY AncestorsAre
          <6>2. QED
            BY <5>3, <6>1
        <5>5. QED
          BY <5>4
      <4>2. QED
        BY <3>1, <4>1
    <3>3. QED
      BY <2>4, <3>2
  <2>7. QED
    BY <2>5, <2>6
<1>4. QED
  BY <1>2, <1>3

-----------------------------------------------------------------------------
(***************************************************************************)
(* build_process_rows of a tree: what holds between two calls of dfs.      *)
(* starts is where the loops call it, calls what waits, next the place of  *)
(* the next start.                                                         *)
(***************************************************************************)

RowsFor(S) == [process : S, depth : Nat, children : BOOLEAN, folded : BOOLEAN]

CallsFor(S) == [process : S, depth : Nat]

IsDrawn(rowsSoFar, p) == \E i \in DOMAIN rowsSoFar : rowsSoFar[i].process = p

Waits(calls, p) == \E m \in DOMAIN calls : calls[m].process = p

\* A row and a call for a child of its process.
Calls(row, call) == call.process.parent = row.process.pid

TypesOf(S, starts, done, calls, next) ==
  /\ done \in Seq(RowsFor(S))
  /\ calls \in Seq(CallsFor(S))
  /\ next \in 1..(Len(starts) + 1)
  /\ \A i \in DOMAIN done : done[i] = RowOf(S, done[i].process, done[i].depth)

Once(done) == \A i, j \in DOMAIN done : done[i].process = done[j].process => i = j

\* What waits was called by a row, below which only its descendants are so far.
HasRow(S, done, call) ==
  \E j \in DOMAIN done :
    /\ Calls(done[j], call)
    /\ call.depth = done[j].depth + 1
    /\ \A k \in (j + 1)..Len(done) : done[j].process \in AncestorsIn(S, done[k].process)

CallsHaveRows(S, done, calls) == \A m \in DOMAIN calls : HasRow(S, done, calls[m])

\* The calls of later rows come before those of earlier ones.
DeepestFirst(done, calls) ==
  \A m, k \in DOMAIN calls : m < k =>
    \A i, j \in DOMAIN done :
      Calls(done[i], calls[m]) /\ Calls(done[j], calls[k]) => j <= i

\* No child of a row that is not folded, and no start, is forgotten.
Covered(S, starts, done, calls, next) ==
  /\ \A i \in DOMAIN done : ~done[i].folded =>
       \A q \in Children(S, done[i].process) : IsDrawn(done, q) \/ Waits(calls, q)
  /\ \A k \in 1..(next - 1) : IsDrawn(done, starts[k])

\* The rows with an ordinary ancestry stand below that of their parent.
Placed(S, done) ==
  \A i \in DOMAIN done : Tidy(S, done[i].process) =>
    /\ done[i].depth = Cardinality(AncestorsIn(S, done[i].process))
    /\ \/ done[i].process \in Roots(S)
       \/ \E j \in 1..(i - 1) :
            /\ IsParent(done[j].process, done[i].process)
            /\ \A k \in (j + 1)..i : done[j].process \in AncestorsIn(S, done[k].process)

\* Children are called in their order, after those drawn before.
InTurn(S, done, calls) ==
  /\ \A m, k \in DOMAIN calls :
       m < k /\ calls[m].process.parent = calls[k].process.parent
         => Less(calls[m].process, calls[k].process)
  /\ \A i \in DOMAIN done, m \in DOMAIN calls, x \in S :
       Tidy(S, done[i].process) /\ IsParent(x, done[i].process)
         /\ calls[m].process.parent = x.pid
       => Less(done[i].process, calls[m].process)

\* So are the roots.
RootsInTurn(S, starts, done, next) ==
  \A i \in DOMAIN done : done[i].process \in Roots(S) =>
    \A k \in next..Len(Sorted(Roots(S))) : Less(done[i].process, starts[k])

\* p and q have the same parent, or none.
Siblings(S, p, q) ==
  \/ p \in Roots(S) /\ q \in Roots(S)
  \/ \E x \in S : IsParent(x, p) /\ IsParent(x, q)

OrderedSoFar(S, done) ==
  \A i, j \in DOMAIN done :
    i < j /\ Tidy(S, done[i].process) /\ Tidy(S, done[j].process)
      /\ Siblings(S, done[i].process, done[j].process)
    => Less(done[i].process, done[j].process)

DfsInv(S, starts, done, calls, next) ==
  /\ TypesOf(S, starts, done, calls, next)
  /\ Once(done)
  /\ CallsHaveRows(S, done, calls)
  /\ DeepestFirst(done, calls)
  /\ Covered(S, starts, done, calls, next)
  /\ Placed(S, done)
  /\ InTurn(S, done, calls)
  /\ RootsInTurn(S, starts, done, next)
  /\ OrderedSoFar(S, done)

\* The starts: the roots in their order, and after them anything that is listed.
StartsFor(S, starts) ==
  LET roots == Sorted(Roots(S))
  IN /\ starts \in Seq(S) /\ Len(roots) <= Len(starts)
     /\ \A k \in 1..Len(roots) : starts[k] = roots[k]

\* The next call, what waits after it and the next start.
Takes(starts, calls, next, call, waiting, after) ==
  \/ /\ calls # <<>>
     /\ call = Head(calls) /\ waiting = Tail(calls) /\ after = next
  \/ /\ calls = <<>> /\ next <= Len(starts)
     /\ call = [process |-> starts[next], depth |-> 0] /\ waiting = <<>> /\ after = next + 1

\* What waits is the rest of what waited.
LEMMA TakesIs ==
  ASSUME NEW S, NEW starts \in Seq(S), NEW calls \in Seq(CallsFor(S)),
         NEW next \in 1..(Len(starts) + 1), NEW call, NEW waiting, NEW after,
         Takes(starts, calls, next, call, waiting, after)
  PROVE  /\ call \in CallsFor(S) /\ waiting \in Seq(CallsFor(S)) /\ after \in 1..(Len(starts) + 1)
         /\ DOMAIN calls = 1..Len(calls) /\ DOMAIN waiting = 1..Len(waiting)
         /\ Len(calls) \in Nat /\ Len(waiting) \in Nat
         /\ \A m \in DOMAIN waiting : m + 1 \in DOMAIN calls /\ waiting[m] = calls[m + 1]
         /\ \/ /\ calls # <<>> /\ 1 \in DOMAIN calls /\ call = calls[1] /\ after = next
               /\ Len(calls) = Len(waiting) + 1
            \/ /\ calls = <<>> /\ next \in 1..Len(starts) /\ call.process = starts[next]
               /\ call.depth = 0 /\ waiting = <<>> /\ after = next + 1
<1> DEFINE T == CallsFor(S)
<1>1. CASE calls # <<>>
  <2>1. call = Head(calls) /\ waiting = Tail(calls) /\ after = next
    BY <1>1 DEF Takes
  <2>2. calls \in Seq(T) /\ calls # <<>>
    BY <1>1
  <2> HIDE DEF T
  <2>3. call \in T /\ waiting \in Seq(T) /\ call = calls[1] /\ Len(calls) = Len(waiting) + 1
        /\ 1 \in DOMAIN calls /\ DOMAIN calls = 1..Len(calls) /\ DOMAIN waiting = 1..Len(waiting)
        /\ Len(calls) \in Nat /\ Len(waiting) \in Nat
    BY <2>1, <2>2
  <2>4. \A m \in DOMAIN waiting : m + 1 \in DOMAIN calls /\ waiting[m] = calls[m + 1]
    BY <2>1, <2>2
  <2>5. QED
    BY <1>1, <2>1, <2>3, <2>4 DEF T
<1>2. CASE calls = <<>>
  <2>1. /\ next <= Len(starts) /\ call = [process |-> starts[next], depth |-> 0]
        /\ waiting = <<>> /\ after = next + 1
    BY <1>2 DEF Takes
  <2>2. Len(starts) \in Nat /\ next \in 1..Len(starts) /\ starts[next] \in S
    BY <2>1
  <2>3. call \in T /\ call.process = starts[next] /\ call.depth = 0
    BY <2>1, <2>2 DEF CallsFor
  <2>4. waiting \in Seq(T) /\ DOMAIN waiting = 1..Len(waiting) /\ DOMAIN waiting = {}
        /\ DOMAIN calls = 1..Len(calls) /\ Len(calls) \in Nat /\ Len(waiting) \in Nat
    BY <1>2, <2>1
  <2>5. after \in 1..(Len(starts) + 1)
    BY <2>1, <2>2
  <2>6. QED
    BY <1>2, <2>1, <2>2, <2>3, <2>4, <2>5
<1>3. QED
  BY <1>1, <1>2

LEMMA CallReturns ==
  ASSUME NEW S, Listing(S), Sorting, NEW starts, StartsFor(S, starts),
         NEW done, NEW calls, NEW next, DfsInv(S, starts, done, calls, next),
         NEW call, NEW waiting, NEW after,
         Takes(starts, calls, next, call, waiting, after), IsDrawn(done, call.process)
  PROVE  DfsInv(S, starts, done, waiting, after)
<1>1. TypesOf(S, starts, done, calls, next) /\ starts \in Seq(S) /\ Len(starts) \in Nat
  BY DEF DfsInv, StartsFor
<1>2. /\ call \in CallsFor(S) /\ waiting \in Seq(CallsFor(S)) /\ after \in 1..(Len(starts) + 1)
      /\ DOMAIN calls = 1..Len(calls) /\ DOMAIN waiting = 1..Len(waiting)
      /\ Len(calls) \in Nat /\ Len(waiting) \in Nat
      /\ \A m \in DOMAIN waiting : m + 1 \in DOMAIN calls /\ waiting[m] = calls[m + 1]
      /\ \/ /\ calls # <<>> /\ 1 \in DOMAIN calls /\ call = calls[1] /\ after = next
            /\ Len(calls) = Len(waiting) + 1
         \/ /\ calls = <<>> /\ next \in 1..Len(starts) /\ call.process = starts[next]
            /\ call.depth = 0 /\ waiting = <<>> /\ after = next + 1
  BY <1>1, TakesIs DEF TypesOf
<1>22. \A m, k \in DOMAIN waiting : m < k => m + 1 < k + 1
  <2>0. DOMAIN waiting = 1..Len(waiting) /\ Len(waiting) \in Nat
    BY <1>2
  <2>1. \A m \in DOMAIN waiting : m \in Nat
    BY <2>0
  <2>2. QED
    BY <2>1
<1>23. next \in Nat \ {0} /\ after \in {next, next + 1}
       /\ (after = next + 1 => call.process = starts[next])
  <2>1. next \in Nat \ {0}
    BY <1>1 DEF TypesOf
  <2>2. after = next \/ (after = next + 1 /\ call.process = starts[next])
    BY <1>2
  <2>3. QED
    BY <2>1, <2>2
<1>3. TypesOf(S, starts, done, waiting, after)
  BY <1>1, <1>2 DEF TypesOf
<1>4. CallsHaveRows(S, done, waiting)
  BY <1>2 DEF DfsInv, CallsHaveRows
<1>5. DeepestFirst(done, waiting)
  <2>1. \A m, k \in DOMAIN waiting : m < k => m + 1 < k + 1
    BY <1>22
  <2>2. QED
    BY <1>2, <2>1 DEF DfsInv, DeepestFirst
<1>6. Covered(S, starts, done, waiting, after)
  <2>1. ASSUME NEW q, Waits(calls, q) PROVE IsDrawn(done, q) \/ Waits(waiting, q)
    <3>1. PICK m \in DOMAIN calls : calls[m].process = q
      BY <2>1 DEF Waits
    <3>2. calls # <<>>
      BY <3>1
    <3>3. CASE m = 1
      BY <1>2, <3>1, <3>2, <3>3
    <3>4. CASE m # 1
      <4>1. m - 1 \in DOMAIN waiting /\ (m - 1) + 1 = m
        <5>1. Len(calls) = Len(waiting) + 1 /\ m \in 1..Len(calls)
              /\ Len(waiting) \in Nat /\ DOMAIN waiting = 1..Len(waiting)
          BY <1>2, <3>1, <3>2
        <5>2. QED
          BY <3>4, <5>1
      <4>2. waiting[m - 1] = calls[m]
        BY <1>2, <4>1
      <4>3. QED
        BY <3>1, <4>1, <4>2 DEF Waits
    <3>5. QED
      BY <3>3, <3>4
  <2>2. ASSUME NEW k \in 1..(after - 1) PROVE IsDrawn(done, starts[k])
    <3>1. k \in 1..(next - 1) \/ (k = next /\ call.process = starts[next])
      BY <1>23
    <3>2. QED
      BY <3>1 DEF DfsInv, Covered
  <2>3. QED
    BY <2>1, <2>2 DEF DfsInv, Covered
<1>7. InTurn(S, done, waiting)
  <2>1. \A m, k \in DOMAIN waiting : m < k => m + 1 < k + 1
    BY <1>22
  <2>2. \A m, k \in DOMAIN waiting :
          m < k /\ waiting[m].process.parent = waiting[k].process.parent
            => Less(waiting[m].process, waiting[k].process)
    BY <1>2, <2>1 DEF DfsInv, InTurn
  <2>3. \A i \in DOMAIN done, m \in DOMAIN waiting, x \in S :
          Tidy(S, done[i].process) /\ IsParent(x, done[i].process)
            /\ waiting[m].process.parent = x.pid
          => Less(done[i].process, waiting[m].process)
    BY <1>2 DEF DfsInv, InTurn
  <2>4. QED
    BY <2>2, <2>3 DEF InTurn
<1>8. RootsInTurn(S, starts, done, after)
  <2> DEFINE n == Len(Sorted(Roots(S)))
  <2>1. \A k \in after..n : k \in next..n
    BY <1>23
  <2>2. QED
    BY <2>1 DEF DfsInv, RootsInTurn
<1>9. QED
  BY <1>3, <1>4, <1>5, <1>6, <1>7, <1>8 DEF DfsInv

\* What is drawn after a call that draws a row: done, the row; then its calls wait
\* before the others.
Calling(S, row) == IF row.folded THEN <<>> ELSE CallsBelow(S, row)

\* The calls of a row are those for its children, in their order.
LEMMA CallingIs ==
  ASSUME NEW S, Listing(S), Sorting, NEW p \in S, NEW depth \in Nat
  PROVE  LET row == RowOf(S, p, depth)
             more == Calling(S, row)
         IN /\ row \in RowsFor(S) /\ row.process = p /\ row.depth = depth
            /\ more \in Seq(CallsFor(S))
            /\ DOMAIN more = 1..Len(more) /\ Len(more) \in Nat
            /\ Len(more) <= Cardinality(Children(S, p))
            /\ \A m \in DOMAIN more :
                 /\ more[m].process \in Children(S, p)
                 /\ more[m].depth = depth + 1
            /\ \A m, k \in DOMAIN more : m < k => Less(more[m].process, more[k].process)
            /\ ~row.folded => \A q \in Children(S, p) : Waits(more, q)
<1> DEFINE row == RowOf(S, p, depth)
           more == Calling(S, row)
           below == Children(S, p)
           order == Sorted(below)
<1>1. row \in RowsFor(S) /\ row.process = p /\ row.depth = depth
  BY DEF RowOf, RowsFor
<1>2. below \in SUBSET S /\ Listing(below)
  BY PartIsListing DEF Children
<1>3. /\ order \in Seq(below) /\ Len(order) = Cardinality(below) /\ Cardinality(below) \in Nat
      /\ DOMAIN order = 1..Len(order) /\ Range(order) = below
      /\ \A i, j \in DOMAIN order : i < j => Less(order[i], order[j])
  BY <1>2, SortedIs
<1>4. CallsBelow(S, row) = [i \in DOMAIN order |-> [process |-> order[i], depth |-> depth + 1]]
  BY <1>1 DEF CallsBelow
<1> HIDE DEF row, below, order
<1>5. \A i \in 1..Len(order) : order[i] \in below
  BY <1>3
<1>6. CASE row.folded
  <2>1. more = <<>>
    BY <1>6 DEF Calling
  <2>2. QED
    BY <1>1, <1>3, <1>6, <2>1 DEF row, below
<1>7. CASE ~row.folded
  <2> DEFINE n == Len(order)
             T == CallsFor(S)
  <2>1. more = [i \in 1..n |-> [process |-> order[i], depth |-> depth + 1]]
    BY <1>3, <1>4, <1>7 DEF Calling
  <2>2. n \in Nat /\ depth + 1 \in Nat
    BY <1>3
  <2>3. \A i \in 1..n : [process |-> order[i], depth |-> depth + 1] \in T
    BY <1>2, <1>5, <2>2 DEF CallsFor
  <2> HIDE DEF more, n, T
  <2>4. more \in Seq(T) /\ DOMAIN more = 1..n /\ Len(more) = n
    BY <2>1, <2>2, <2>3
  <2>5. \A i \in 1..n : more[i].process = order[i] /\ more[i].depth = depth + 1
    BY <2>1
  <2>6. ASSUME NEW q \in below PROVE Waits(more, q)
    <3>1. PICK i \in DOMAIN order : order[i] = q
      BY <1>3, <2>6 DEF Range
    <3>2. QED
      BY <1>3, <2>4, <2>5, <3>1 DEF Waits, n
  <2>7. \A m, k \in DOMAIN more : m < k => Less(more[m].process, more[k].process)
    BY <1>3, <2>4, <2>5 DEF n
  <2>8. \A m \in DOMAIN more : more[m].process \in below /\ more[m].depth = depth + 1
    BY <1>5, <2>4, <2>5 DEF n
  <2>9. QED
    BY <1>1, <1>3, <2>2, <2>4, <2>6, <2>7, <2>8 DEF n, T, more, row, below
<1>8. QED
  BY <1>6, <1>7

\* A row is added at the end, calls before others.
LEMMA AddedRow ==
  ASSUME NEW R, NEW done \in Seq(R), NEW row \in R
  PROVE  LET longer == Append(done, row)
             n == Len(done)
         IN /\ longer \in Seq(R) /\ n \in Nat /\ Len(longer) = n + 1
            /\ DOMAIN done = 1..n /\ DOMAIN longer = 1..(n + 1)
            /\ longer[n + 1] = row
            /\ \A i \in 1..n : i \in 1..(n + 1) /\ longer[i] = done[i]
            /\ \A i \in 1..(n + 1) : i \in 1..n \/ i = n + 1
  OBVIOUS

LEMMA AddedCalls ==
  ASSUME NEW C, NEW more \in Seq(C), NEW waiting \in Seq(C)
  PROVE  LET all == more \o waiting
             n == Len(more)
         IN /\ all \in Seq(C) /\ n \in Nat /\ Len(waiting) \in Nat
            /\ DOMAIN all = 1..(n + Len(waiting)) /\ Len(all) = n + Len(waiting)
            /\ \A m \in 1..n : m \in DOMAIN all /\ all[m] = more[m]
            /\ \A m \in 1..Len(waiting) : n + m \in DOMAIN all /\ all[n + m] = waiting[m]
            /\ \A m \in DOMAIN all : m \in 1..n \/ (m - n \in 1..Len(waiting) /\ all[m] = waiting[m - n])
<1>1. more \o waiting \in Seq(C) /\ Len(more \o waiting) = Len(more) + Len(waiting)
      /\ Len(more) \in Nat /\ Len(waiting) \in Nat
  OBVIOUS
<1>2. DOMAIN (more \o waiting) = 1..(Len(more) + Len(waiting))
  BY <1>1
<1>3. \A m \in 1..(Len(more) + Len(waiting)) :
        (more \o waiting)[m] = IF m <= Len(more) THEN more[m] ELSE waiting[m - Len(more)]
  OBVIOUS
<1>4. QED
  BY <1>1, <1>2, <1>3

\* When the roots are done with, whatever has an ordinary ancestry is drawn.
LEMMA TidyAreDrawn ==
  ASSUME NEW S, Listing(S), Sorting, NEW starts, StartsFor(S, starts),
         NEW done, NEW next, DfsInv(S, starts, done, <<>>, next),
         next > Len(Sorted(Roots(S))), NEW p \in S, Tidy(S, p)
  PROVE  IsDrawn(done, p)
<1> DEFINE Bad == {q \in S : Tidy(S, q) /\ ~IsDrawn(done, q)}
           B == {AncestorsIn(S, q) : q \in Bad}
           roots == Sorted(Roots(S))
<1>1. SUFFICES ASSUME Bad # {} PROVE FALSE
  OBVIOUS
<1>2. B \subseteq SUBSET S /\ B # {} /\ IsFiniteSet(S)
  BY <1>1, AncestorsAre DEF Listing
<1>3. PICK T \in B : \A U \in SUBSET T : U # T => U \notin B
  <2> HIDE DEF B
  <2>1. QED
    BY <1>2, SmallestSubset
<1>4. PICK q \in Bad : T = AncestorsIn(S, q)
  OBVIOUS
<1>5. q \notin Roots(S)
  <2> SUFFICES ASSUME q \in Roots(S) PROVE FALSE
    OBVIOUS
  <2>1. Roots(S) \in SUBSET S
    BY DEF Roots
  <2>2. roots \in Seq(Roots(S)) /\ Range(roots) = Roots(S) /\ DOMAIN roots = 1..Len(roots)
        /\ Len(roots) \in Nat
    BY <2>1, PartIsListing, SortedIs
  <2>3. PICK k \in 1..Len(roots) : roots[k] = q
    BY <2>2 DEF Range
  <2>4. next \in Nat /\ starts[k] = q
    BY <2>3 DEF DfsInv, TypesOf, StartsFor
  <2>5. k \in 1..(next - 1)
    BY <2>2, <2>3, <2>4
  <2>6. IsDrawn(done, q)
    BY <2>4, <2>5 DEF DfsInv, Covered
  <2>7. QED
    BY <1>4, <2>6
<1>6. PICK x \in S : IsParent(x, q)
  BY <1>4, <1>5, OneParent
<1>7. /\ Tidy(S, x) /\ x \notin AncestorsIn(S, x) /\ x.pid \notin collapsed
      /\ x \in AncestorsIn(S, q) /\ AncestorsIn(S, x) \subseteq AncestorsIn(S, q)
  BY <1>4, <1>6, ParentIsTidy
<1>8. x \notin Bad
  BY <1>3, <1>4, <1>7
<1>9. PICK i \in DOMAIN done : done[i].process = x
  BY <1>6, <1>7, <1>8 DEF IsDrawn
<1>10. ~done[i].folded
  <2>1. done[i] = RowOf(S, x, done[i].depth)
    BY <1>9 DEF DfsInv, TypesOf
  <2>2. RowOf(S, x, done[i].depth).folded = (Children(S, x) # {} /\ x.pid \in collapsed)
    BY DEF RowOf
  <2>3. QED
    BY <1>7, <2>1, <2>2
<1>11. q \in Children(S, x)
  BY <1>4, <1>6 DEF Children, IsParent
<1>12. IsDrawn(done, q) \/ Waits(<<>>, q)
  BY <1>9, <1>10, <1>11 DEF DfsInv, Covered
<1>13. QED
  BY <1>4, <1>12 DEF Waits

LEMMA CallDraws ==
  ASSUME NEW S, Listing(S), Sorting, NEW starts, StartsFor(S, starts),
         NEW done, NEW calls, NEW next, DfsInv(S, starts, done, calls, next),
         NEW call, NEW waiting, NEW after,
         Takes(starts, calls, next, call, waiting, after), ~IsDrawn(done, call.process)
  PROVE  LET row == RowOf(S, call.process, call.depth)
         IN DfsInv(S, starts, Append(done, row), Calling(S, row) \o waiting, after)
<1> DEFINE p == call.process
           row == RowOf(S, p, call.depth)
           more == Calling(S, row)
           longer == Append(done, row)
           all == more \o waiting
           n == Len(done)
           c == Len(more)
           w == Len(waiting)
           roots == Sorted(Roots(S))
<1>1. TypesOf(S, starts, done, calls, next) /\ starts \in Seq(S) /\ Len(starts) \in Nat
  BY DEF DfsInv, StartsFor
<1>2. /\ call \in CallsFor(S) /\ waiting \in Seq(CallsFor(S)) /\ after \in 1..(Len(starts) + 1)
      /\ DOMAIN calls = 1..Len(calls) /\ DOMAIN waiting = 1..w
      /\ Len(calls) \in Nat /\ w \in Nat
      /\ \A m \in DOMAIN waiting : m + 1 \in DOMAIN calls /\ waiting[m] = calls[m + 1]
      /\ \/ /\ calls # <<>> /\ 1 \in DOMAIN calls /\ call = calls[1] /\ after = next
            /\ Len(calls) = w + 1
         \/ /\ calls = <<>> /\ next \in 1..Len(starts) /\ p = starts[next]
            /\ call.depth = 0 /\ waiting = <<>> /\ after = next + 1
  BY <1>1, TakesIs DEF TypesOf
<1>3. p \in S /\ call.depth \in Nat
  BY <1>2 DEF CallsFor
<1>4. /\ row \in RowsFor(S) /\ row.process = p /\ row.depth = call.depth
      /\ more \in Seq(CallsFor(S))
      /\ DOMAIN more = 1..c /\ c \in Nat
      /\ \A m \in DOMAIN more :
           /\ more[m].process \in Children(S, p)
           /\ more[m].depth = call.depth + 1
      /\ \A m, k \in DOMAIN more : m < k => Less(more[m].process, more[k].process)
      /\ ~row.folded => \A q \in Children(S, p) : Waits(more, q)
  BY <1>3, CallingIs
<1>5. /\ longer \in Seq(RowsFor(S)) /\ n \in Nat /\ Len(longer) = n + 1
      /\ DOMAIN done = 1..n /\ DOMAIN longer = 1..(n + 1)
      /\ longer[n + 1] = row
      /\ \A i \in 1..n : i \in 1..(n + 1) /\ longer[i] = done[i]
      /\ \A i \in 1..(n + 1) : i \in 1..n \/ i = n + 1
  BY <1>1, <1>4, AddedRow DEF TypesOf
<1>6. /\ all \in Seq(CallsFor(S))
      /\ DOMAIN all = 1..(c + w)
      /\ \A m \in 1..c : m \in DOMAIN all /\ all[m] = more[m]
      /\ \A m \in 1..w : c + m \in DOMAIN all /\ all[c + m] = waiting[m]
      /\ \A m \in DOMAIN all : m \in 1..c \/ (m - c \in 1..w /\ all[m] = waiting[m - c])
  <2> HIDE DEF more, row, p, n, roots
  <2>1. waiting \in Seq(CallsFor(S)) /\ more \in Seq(CallsFor(S))
    BY <1>2, <1>4
  <2>2. QED
    BY <2>1, AddedCalls
<1> HIDE DEF p, row, more, longer, all, n, c, w, roots
<1>7. next \in Nat \ {0} /\ after \in {next, next + 1}
      /\ (after = next + 1 => calls = <<>> /\ next \in 1..Len(starts) /\ p = starts[next])
      /\ (calls # <<>> => call = calls[1] /\ 1 \in DOMAIN calls /\ after = next)
      /\ (calls = <<>> => call.depth = 0 /\ after = next + 1)
  <2>1. next \in Nat \ {0}
    BY <1>1 DEF TypesOf
  <2>2. CASE calls # <<>>
    <3>1. call = calls[1] /\ 1 \in DOMAIN calls /\ after = next
      BY <1>2, <2>2
    <3>2. QED
      BY <2>1, <2>2, <3>1
  <2>3. CASE calls = <<>>
    <3>1. call.depth = 0 /\ after = next + 1 /\ next \in 1..Len(starts) /\ p = starts[next]
      BY <1>2, <2>3
    <3>2. QED
      BY <2>1, <2>3, <3>1
  <2>4. QED
    BY <2>2, <2>3
<1>8. \A q \in S : q.pid = p.pid => q = p
  BY <1>3 DEF Listing
<1>9. \A i \in 1..n : done[i].process \in S /\ done[i].process # p /\ done[i].process.pid # p.pid
  <2>1. \A i \in 1..n : done[i] \in RowsFor(S)
    BY <1>1, <1>5 DEF TypesOf
  <2>2. \A i \in 1..n : done[i].process \in S
    BY <2>1 DEF RowsFor
  <2>3. \A i \in 1..n : done[i].process # p
    BY <1>5 DEF IsDrawn, p
  <2>4. QED
    BY <1>8, <2>2, <2>3
<1>10. \A m \in DOMAIN calls : calls[m].process.parent # p.pid
  BY <1>5, <1>9 DEF DfsInv, CallsHaveRows, HasRow, Calls
<1>11. \A m \in 1..c : more[m].process.parent = p.pid
  BY <1>4 DEF Children
<1>12. \A i \in 1..(n + 1) : longer[i].process.pid = p.pid => i = n + 1
  BY <1>5, <1>9
<1>13. ASSUME calls # <<>>
       PROVE  \E j \in 1..n :
                /\ IsParent(done[j].process, p)
                /\ Calls(done[j], call)
                /\ call.depth = done[j].depth + 1
                /\ \A k \in (j + 1)..n : done[j].process \in AncestorsIn(S, done[k].process)
  <2>1. HasRow(S, done, call)
    BY <1>7, <1>13 DEF DfsInv, CallsHaveRows
  <2>2. PICK j \in 1..n : /\ Calls(done[j], call)
                          /\ call.depth = done[j].depth + 1
                          /\ \A k \in (j + 1)..n :
                               done[j].process \in AncestorsIn(S, done[k].process)
    BY <1>5, <2>1 DEF HasRow, n
  <2>3. IsParent(done[j].process, p)
    BY <1>9, <2>2 DEF Calls, IsParent, p
  <2>4. QED
    BY <2>2, <2>3
<1>14. p \in Roots(S) => calls = <<>>
  BY <1>3, <1>9, <1>13, OneParent
<1>15. roots \in Seq(Roots(S)) /\ Len(roots) \in Nat /\ DOMAIN roots = 1..Len(roots)
       /\ \A k \in 1..Len(roots) : roots[k] \in Roots(S) /\ starts[k] = roots[k]
       /\ \A i, j \in 1..Len(roots) : i < j => Less(roots[i], roots[j])
  <2>1. Listing(Roots(S))
    BY PartIsListing DEF Roots
  <2>2. roots \in Seq(Roots(S)) /\ Len(roots) \in Nat /\ DOMAIN roots = 1..Len(roots)
        /\ \A i, j \in DOMAIN roots : i < j => Less(roots[i], roots[j])
    BY <2>1, SortedIs DEF roots
  <2>3. QED
    BY <2>2 DEF StartsFor, roots
<1>16. ASSUME calls = <<>>, Tidy(S, p) PROVE p \in Roots(S) /\ next \in 1..Len(roots)
  <2>1. next \in Nat /\ p = starts[next] /\ next > 0
    BY <1>7, <1>16
  <2>2. ~(next > Len(roots))
    <3> SUFFICES ASSUME next > Len(roots) PROVE FALSE
      OBVIOUS
    <3>1. DfsInv(S, starts, done, <<>>, next)
      BY <1>16
    <3>2. IsDrawn(done, p)
      BY <1>3, <1>16, <3>1, TidyAreDrawn DEF roots
    <3>3. QED
      BY <3>2 DEF p
  <2>3. next \in 1..Len(roots)
    BY <1>15, <2>1, <2>2
  <2>4. QED
    BY <1>15, <2>1, <2>3
<1>20. TypesOf(S, starts, longer, all, after)
  <2>1. \A i \in 1..n : done[i] = RowOf(S, done[i].process, done[i].depth)
    BY <1>1, <1>5 DEF TypesOf
  <2>2. row = RowOf(S, row.process, row.depth)
    BY <1>4 DEF row
  <2>3. \A i \in DOMAIN longer : longer[i] = RowOf(S, longer[i].process, longer[i].depth)
    BY <1>5, <2>1, <2>2
  <2>4. QED
    BY <1>2, <1>5, <1>6, <2>3 DEF TypesOf
<1>21. Once(longer)
  <2>1. \A i, j \in 1..n : done[i].process = done[j].process => i = j
    BY <1>5 DEF DfsInv, Once
  <2>2. QED
    BY <1>4, <1>5, <1>9, <2>1 DEF Once
<1>22. CallsHaveRows(S, longer, all)
  <2> SUFFICES ASSUME NEW m \in DOMAIN all PROVE HasRow(S, longer, all[m])
    BY DEF CallsHaveRows
  <2>1. CASE m \in 1..c
    <3>1. Calls(longer[n + 1], all[m])
      BY <1>4, <1>5, <1>6, <1>11, <2>1 DEF Calls
    <3>2. all[m].depth = longer[n + 1].depth + 1
      BY <1>4, <1>5, <1>6, <2>1
    <3>3. n + 1 \in DOMAIN longer /\ ((n + 1) + 1)..Len(longer) = {}
      BY <1>5
    <3>4. QED
      BY <3>1, <3>2, <3>3 DEF HasRow
  <2>2. CASE m - c \in 1..w /\ all[m] = waiting[m - c]
    <3> DEFINE k == (m - c) + 1
    <3>1. k \in DOMAIN calls /\ all[m] = calls[k] /\ calls # <<>>
      BY <1>2, <2>2
    <3>2. 1 < k
      <4>1. m - c \in Nat \ {0}
        <5>1. w \in Nat /\ m - c \in 1..w
          BY <1>2, <2>2
        <5>2. QED
          BY <5>1
      <4>2. QED
        BY <4>1
    <3> HIDE DEF k
    <3>3. PICK i \in 1..n : /\ Calls(done[i], calls[k])
                            /\ calls[k].depth = done[i].depth + 1
                            /\ \A l \in (i + 1)..n :
                                 done[i].process \in AncestorsIn(S, done[l].process)
      BY <1>5, <3>1 DEF DfsInv, CallsHaveRows, HasRow, n
    <3>4. PICK j \in 1..n : IsParent(done[j].process, p) /\ Calls(done[j], call)
      BY <1>13, <3>1
    <3>5. i <= j
      BY <1>5, <1>7, <3>1, <3>2, <3>3, <3>4 DEF DfsInv, DeepestFirst
    <3>6. AncestorsIn(S, p) = {done[j].process} \cup AncestorsIn(S, done[j].process)
      BY <1>3, <1>9, <3>4, ParentAndAbove
    <3>7. done[i].process \in AncestorsIn(S, p)
      <4>1. CASE i = j
        BY <3>6, <4>1
      <4>2. CASE i < j
        <5>1. j \in (i + 1)..n
          BY <1>5, <4>2
        <5>2. QED
          BY <3>3, <3>6, <5>1
      <4>3. QED
        BY <1>5, <3>5, <4>1, <4>2
    <3>8. ASSUME NEW l \in (i + 1)..(n + 1) PROVE done[i].process \in AncestorsIn(S, longer[l].process)
      <4>1. l \in 1..(n + 1)
        BY <1>5
      <4>2. CASE l = n + 1
        BY <1>4, <1>5, <3>7, <4>2
      <4>3. CASE l \in 1..n
        <5>1. l \in (i + 1)..n
          BY <1>5, <4>3
        <5>2. QED
          BY <1>5, <3>3, <4>3, <5>1
      <4>4. QED
        BY <1>5, <4>1, <4>2, <4>3
    <3>9. i \in DOMAIN longer /\ longer[i] = done[i]
      BY <1>5
    <3>10. QED
      BY <1>5, <3>1, <3>3, <3>8, <3>9 DEF HasRow
  <2>3. QED
    BY <1>6, <2>1, <2>2
<1>23. DeepestFirst(longer, all)
  <2> SUFFICES ASSUME NEW m \in DOMAIN all, NEW k \in DOMAIN all, m < k,
                      NEW i \in DOMAIN longer, NEW j \in DOMAIN longer,
                      Calls(longer[i], all[m]), Calls(longer[j], all[k])
               PROVE  j <= i
    BY DEF DeepestFirst
  <2>1. i \in 1..(n + 1) /\ j \in 1..(n + 1) /\ n \in Nat
    BY <1>5
  <2>2. CASE m \in 1..c
    <3>1. longer[i].process.pid = p.pid
      BY <1>6, <1>11, <2>2 DEF Calls
    <3>2. QED
      BY <1>12, <2>1, <3>1
  <2>3. CASE m - c \in 1..w /\ all[m] = waiting[m - c]
    <3>1. m - c + 1 \in DOMAIN calls /\ all[m] = calls[m - c + 1]
      BY <1>2, <2>3
    <3>2. k - c \in 1..w /\ all[k] = waiting[k - c]
      <4>1. m \in 1..(c + w) /\ k \in 1..(c + w) /\ c \in Nat /\ w \in Nat
        BY <1>2, <1>4, <1>6
      <4>2. k \notin 1..c
        BY <2>3, <4>1
      <4>3. QED
        BY <1>6, <4>2
    <3>3. k - c + 1 \in DOMAIN calls /\ all[k] = calls[k - c + 1]
      BY <1>2, <3>2
    <3>4. m - c + 1 < k - c + 1
      <4>1. m \in 1..(c + w) /\ k \in 1..(c + w) /\ c \in Nat /\ w \in Nat
        BY <1>2, <1>4, <1>6
      <4>2. QED
        BY <4>1
    <3>5. CASE i = n + 1
      BY <2>1, <3>5
    <3>6. CASE j = n + 1
      BY <1>4, <1>5, <1>10, <3>3, <3>6 DEF Calls
    <3>7. CASE i \in 1..n /\ j \in 1..n
      <4>1. Calls(done[i], calls[m - c + 1]) /\ Calls(done[j], calls[k - c + 1])
        BY <1>5, <3>1, <3>3, <3>7
      <4>2. QED
        BY <1>5, <3>1, <3>3, <3>4, <3>7, <4>1 DEF DfsInv, DeepestFirst
    <3>8. QED
      BY <1>5, <3>5, <3>6, <3>7
  <2>4. QED
    BY <1>6, <2>2, <2>3
<1>24. Covered(S, starts, longer, all, after)
  <2>1. /\ \A q : IsDrawn(done, q) => IsDrawn(longer, q)
        /\ IsDrawn(longer, p)
    BY <1>4, <1>5 DEF IsDrawn
  <2>2. ASSUME NEW q, Waits(calls, q) PROVE IsDrawn(longer, q) \/ Waits(all, q)
    <3>1. PICK m \in DOMAIN calls : calls[m].process = q
      BY <2>2 DEF Waits
    <3>2. calls # <<>>
      BY <3>1
    <3>3. CASE m = 1
      BY <1>7, <2>1, <3>1, <3>2, <3>3 DEF p
    <3>4. CASE m # 1
      <4>1. m - 1 \in 1..w /\ (m - 1) + 1 = m
        <5>1. Len(calls) = w + 1 /\ m \in 1..Len(calls) /\ w \in Nat
          BY <1>2, <3>1, <3>2
        <5>2. QED
          BY <3>4, <5>1
      <4>2. waiting[m - 1] = calls[m]
        BY <1>2, <4>1
      <4>3. c + (m - 1) \in DOMAIN all /\ all[c + (m - 1)] = calls[m]
        BY <1>6, <4>1, <4>2
      <4>4. QED
        BY <3>1, <4>3 DEF Waits
    <3>5. QED
      BY <3>3, <3>4
  <2>3. \A q : Waits(more, q) => Waits(all, q)
    BY <1>4, <1>6 DEF Waits
  <2>4. ASSUME NEW i \in DOMAIN longer, ~longer[i].folded,
               NEW q \in Children(S, longer[i].process)
        PROVE  IsDrawn(longer, q) \/ Waits(all, q)
    <3>1. CASE i = n + 1
      BY <1>4, <1>5, <2>3, <2>4, <3>1
    <3>2. CASE i \in 1..n
      <4>1. ~done[i].folded /\ q \in Children(S, done[i].process) /\ i \in DOMAIN done
        BY <1>5, <2>4, <3>2
      <4>2. IsDrawn(done, q) \/ Waits(calls, q)
        BY <4>1 DEF DfsInv, Covered
      <4>3. QED
        BY <2>1, <2>2, <4>2
    <3>3. QED
      BY <1>5, <3>1, <3>2
  <2>5. ASSUME NEW k \in 1..(after - 1) PROVE IsDrawn(longer, starts[k])
    <3>1. k \in 1..(next - 1) \/ (k = next /\ p = starts[next])
      BY <1>7
    <3>2. k \in 1..(next - 1) => IsDrawn(done, starts[k])
      BY DEF DfsInv, Covered
    <3>3. QED
      BY <2>1, <3>1, <3>2
  <2>6. QED
    BY <2>4, <2>5 DEF Covered
<1>25. Placed(S, longer)
  <2> SUFFICES ASSUME NEW i \in DOMAIN longer, Tidy(S, longer[i].process)
               PROVE  /\ longer[i].depth = Cardinality(AncestorsIn(S, longer[i].process))
                      /\ \/ longer[i].process \in Roots(S)
                         \/ \E j \in 1..(i - 1) :
                              /\ IsParent(longer[j].process, longer[i].process)
                              /\ \A k \in (j + 1)..i :
                                   longer[j].process \in AncestorsIn(S, longer[k].process)
    BY DEF Placed
  <2>1. CASE i \in 1..n
    <3>1. longer[i] = done[i] /\ i \in DOMAIN done /\ Tidy(S, done[i].process)
      BY <1>5, <2>1
    <3>2. /\ done[i].depth = Cardinality(AncestorsIn(S, done[i].process))
          /\ \/ done[i].process \in Roots(S)
             \/ \E j \in 1..(i - 1) :
                  /\ IsParent(done[j].process, done[i].process)
                  /\ \A k \in (j + 1)..i : done[j].process \in AncestorsIn(S, done[k].process)
      BY <3>1 DEF DfsInv, Placed
    <3>3. CASE done[i].process \in Roots(S)
      BY <3>1, <3>2, <3>3
    <3>4. CASE done[i].process \notin Roots(S)
      <4>1. PICK j \in 1..(i - 1) :
              /\ IsParent(done[j].process, done[i].process)
              /\ \A k \in (j + 1)..i : done[j].process \in AncestorsIn(S, done[k].process)
        BY <3>2, <3>4
      <4>2. j \in 1..n /\ \A k \in (j + 1)..i : k \in 1..n
        BY <1>5, <2>1
      <4>3. longer[j] = done[j] /\ \A k \in (j + 1)..i : longer[k] = done[k]
        BY <1>5, <4>2
      <4>4. QED
        BY <3>1, <3>2, <4>1, <4>3
    <3>5. QED
      BY <3>3, <3>4
  <2>2. CASE i = n + 1
    <3>1. longer[i].process = p /\ longer[i].depth = call.depth /\ Tidy(S, p)
      BY <1>4, <1>5, <2>2
    <3>2. CASE calls = <<>>
      <4>1. p \in Roots(S) /\ call.depth = 0
        BY <1>7, <1>16, <3>1, <3>2
      <4>2. AncestorsIn(S, p) = {}
        BY <4>1, NoneAboveRoots
      <4>3. Cardinality(AncestorsIn(S, p)) = 0
        BY <4>2, FS_EmptySet
      <4>4. QED
        BY <3>1, <4>1, <4>3
    <3>3. CASE calls # <<>>
      <4>1. PICK j \in 1..n :
              /\ IsParent(done[j].process, p)
              /\ call.depth = done[j].depth + 1
              /\ \A k \in (j + 1)..n : done[j].process \in AncestorsIn(S, done[k].process)
        BY <1>13, <3>3
      <4> DEFINE x == done[j].process
      <4>2. x \in S /\ IsParent(x, p) /\ longer[j].process = x /\ j \in DOMAIN done
        BY <1>5, <1>9, <4>1
      <4>3. /\ Tidy(S, x) /\ x \notin AncestorsIn(S, x) /\ x \in AncestorsIn(S, p)
        <5> HIDE DEF x
        <5>1. QED
          BY <1>3, <3>1, <4>2, ParentIsTidy
      <4>4. AncestorsIn(S, p) = AncestorsIn(S, x) \cup {x}
        <5> HIDE DEF x
        <5>1. QED
          BY <1>3, <4>2, ParentAndAbove
      <4>5. done[j].depth = Cardinality(AncestorsIn(S, x))
        BY <4>2, <4>3 DEF DfsInv, Placed
      <4>6. IsFiniteSet(AncestorsIn(S, x))
        <5>1. AncestorsIn(S, x) \in SUBSET S /\ IsFiniteSet(S)
          BY AncestorsAre DEF Listing
        <5>2. QED
          BY <5>1, FS_Subset
      <4>7. Cardinality(AncestorsIn(S, p)) = Cardinality(AncestorsIn(S, x)) + 1
        <5> HIDE DEF x
        <5>1. QED
          BY <4>3, <4>4, <4>6, FS_AddElement
      <4>8. ASSUME NEW k \in (j + 1)..i PROVE longer[j].process \in AncestorsIn(S, longer[k].process)
        <5>1. CASE k = n + 1
          BY <2>2, <3>1, <4>2, <4>3, <5>1
        <5>2. CASE k # n + 1
          <6>1. k \in (j + 1)..n /\ k \in 1..n
            BY <1>5, <2>2, <5>2
          <6>2. QED
            BY <1>5, <4>1, <4>2, <6>1
        <5>3. QED
          BY <5>1, <5>2
      <4>9. j \in 1..(i - 1)
        BY <1>5, <2>2
      <4>10. longer[i].depth = Cardinality(AncestorsIn(S, longer[i].process))
        BY <3>1, <4>1, <4>5, <4>7
      <4>11. IsParent(longer[j].process, longer[i].process)
        BY <3>1, <4>2
      <4>12. QED
        BY <4>8, <4>9, <4>10, <4>11
    <3>4. QED
      BY <3>2, <3>3
  <2>3. QED
    BY <1>5, <2>1, <2>2
<1>26. InTurn(S, longer, all)
  <2>1. ASSUME NEW m \in DOMAIN all, m - c \in 1..w, all[m] = waiting[m - c]
        PROVE  /\ m - c + 1 \in DOMAIN calls /\ all[m] = calls[m - c + 1]
               /\ calls # <<>> /\ 1 < m - c + 1
    <3>0. w \in Nat /\ m - c \in 1..w
      BY <1>2, <2>1
    <3>1. m - c + 1 \in DOMAIN calls /\ all[m] = calls[m - c + 1]
      BY <1>2, <2>1
    <3>2. m - c \in Nat \ {0} /\ calls # <<>>
      BY <3>0, <3>1
    <3>3. QED
      BY <3>1, <3>2
  <2>2. ASSUME NEW m \in DOMAIN all, NEW k \in DOMAIN all, m < k,
               all[m].process.parent = all[k].process.parent
        PROVE  Less(all[m].process, all[k].process)
    <3>0. m \in 1..(c + w) /\ k \in 1..(c + w) /\ c \in Nat /\ w \in Nat
      BY <1>2, <1>4, <1>6
    <3>1. CASE k \in 1..c
      <4>1. m \in 1..c
        BY <2>2, <3>0, <3>1
      <4>2. QED
        BY <1>4, <1>6, <2>2, <3>1, <4>1
    <3>2. CASE m \in 1..c /\ k - c \in 1..w /\ all[k] = waiting[k - c]
      <4>1. all[k].process.parent = p.pid
        BY <1>6, <1>11, <2>2, <3>2
      <4>2. QED
        BY <1>10, <2>1, <3>2, <4>1
    <3>3. CASE m - c \in 1..w /\ all[m] = waiting[m - c] /\ k - c \in 1..w /\ all[k] = waiting[k - c]
      <4>1. /\ m - c + 1 \in DOMAIN calls /\ all[m] = calls[m - c + 1]
            /\ k - c + 1 \in DOMAIN calls /\ all[k] = calls[k - c + 1]
        BY <2>1, <3>3
      <4>2. m - c + 1 < k - c + 1
        BY <2>2, <3>0
      <4>3. QED
        BY <2>2, <4>1, <4>2 DEF DfsInv, InTurn
    <3>4. QED
      BY <1>6, <3>1, <3>2, <3>3
  <2>3. ASSUME NEW i \in DOMAIN longer, NEW m \in DOMAIN all, NEW x \in S,
               Tidy(S, longer[i].process), IsParent(x, longer[i].process),
               all[m].process.parent = x.pid
        PROVE  Less(longer[i].process, all[m].process)
    <3>1. m \in 1..c => x = p
      BY <1>6, <1>8, <1>11, <2>3
    <3>2. CASE i = n + 1
      <4>1. longer[i].process = p /\ p.parent = x.pid /\ x # p
        BY <1>4, <1>5, <2>3, <3>2 DEF IsParent
      <4>2. m - c + 1 \in DOMAIN calls /\ all[m] = calls[m - c + 1] /\ calls # <<>> /\ 1 < m - c + 1
        BY <1>6, <2>1, <3>1, <4>1
      <4>3. 1 \in DOMAIN calls /\ calls[1].process = p
        BY <1>7, <4>2 DEF p
      <4>4. Less(calls[1].process, calls[m - c + 1].process)
        BY <2>3, <4>1, <4>2, <4>3 DEF DfsInv, InTurn
      <4>5. QED
        BY <4>1, <4>2, <4>3, <4>4
    <3>3. CASE i \in 1..n
      <4>1. longer[i] = done[i] /\ i \in DOMAIN done /\ done[i].process \in S
        BY <1>5, <1>9, <3>3
      <4>2. CASE m \in 1..c
        <5>1. IsParent(p, done[i].process) /\ Tidy(S, done[i].process)
          BY <2>3, <3>1, <4>1, <4>2
        <5>2. done[i].process \notin Roots(S)
          BY <1>3, <4>1, <5>1, OneParent
        <5>3. PICK j \in 1..(i - 1) : IsParent(done[j].process, done[i].process)
          BY <4>1, <5>1, <5>2 DEF DfsInv, Placed
        <5>4. j \in 1..n
          BY <1>5, <3>3
        <5>5. done[j].process \in S /\ done[j].process # p
          BY <1>9, <5>4
        <5>6. QED
          BY <1>3, <4>1, <5>1, <5>3, <5>5, OneParent
      <4>3. CASE m - c \in 1..w /\ all[m] = waiting[m - c]
        <5>1. m - c + 1 \in DOMAIN calls /\ all[m] = calls[m - c + 1]
          BY <2>1, <4>3
        <5>2. QED
          BY <2>3, <4>1, <5>1 DEF DfsInv, InTurn
      <4>4. QED
        BY <1>6, <4>2, <4>3
    <3>4. QED
      BY <1>5, <3>2, <3>3
  <2>4. QED
    BY <2>2, <2>3 DEF InTurn
<1>27. RootsInTurn(S, starts, longer, after)
  <2> SUFFICES ASSUME NEW i \in DOMAIN longer, longer[i].process \in Roots(S),
                      NEW k \in after..Len(roots)
               PROVE  Less(longer[i].process, starts[k])
    BY DEF RootsInTurn, roots
  <2>1. k \in next..Len(roots) /\ k \in Nat \ {0} /\ k \in 1..Len(roots)
    BY <1>7, <1>15
  <2>2. CASE i \in 1..n
    <3>1. longer[i] = done[i] /\ i \in DOMAIN done
      BY <1>5, <2>2
    <3>2. QED
      BY <2>1, <3>1 DEF DfsInv, RootsInTurn, roots
  <2>3. CASE i = n + 1
    <3>1. longer[i].process = p /\ p \in Roots(S)
      BY <1>4, <1>5, <2>3
    <3>2. after = next + 1 /\ p = starts[next]
      BY <1>7, <1>14, <3>1
    <3>3. next \in 1..Len(roots) /\ next < k
      BY <1>7, <1>15, <3>2
    <3>4. starts[next] = roots[next] /\ starts[k] = roots[k] /\ Less(roots[next], roots[k])
      BY <1>15, <2>1, <3>3
    <3>5. QED
      BY <3>1, <3>2, <3>4
  <2>4. QED
    BY <1>5, <2>2, <2>3
<1>28. OrderedSoFar(S, longer)
  <2> SUFFICES ASSUME NEW i \in DOMAIN longer, NEW j \in DOMAIN longer, i < j,
                      Tidy(S, longer[i].process), Tidy(S, longer[j].process),
                      Siblings(S, longer[i].process, longer[j].process)
               PROVE  Less(longer[i].process, longer[j].process)
    BY DEF OrderedSoFar
  <2>1. i \in 1..n /\ longer[i] = done[i] /\ i \in DOMAIN done /\ done[i].process \in S
    <3>1. i \in 1..n
      BY <1>5
    <3>2. QED
      BY <1>5, <1>9, <3>1
  <2>2. CASE j \in 1..n
    <3>1. longer[j] = done[j] /\ j \in DOMAIN done
      BY <1>5, <2>2
    <3>2. QED
      BY <2>1, <3>1 DEF DfsInv, OrderedSoFar
  <2>3. CASE j = n + 1
    <3>1. longer[j].process = p /\ Tidy(S, p)
      BY <1>4, <1>5, <2>3
    <3>2. CASE p \in Roots(S) /\ done[i].process \in Roots(S)
      <4>1. calls = <<>> /\ p = starts[next]
        BY <1>7, <1>14, <3>2
      <4>2. next \in 1..Len(roots)
        BY <1>16, <3>1, <4>1
      <4>3. next \in next..Len(roots)
        BY <1>15, <4>2
      <4>4. Less(done[i].process, starts[next])
        BY <2>1, <3>2, <4>3 DEF DfsInv, RootsInTurn, roots
      <4>5. QED
        BY <2>1, <3>1, <4>1, <4>4
    <3>3. CASE \E x \in S : IsParent(x, done[i].process) /\ IsParent(x, p)
      <4>1. PICK x \in S : IsParent(x, done[i].process) /\ IsParent(x, p)
        BY <3>3
      <4>2. p \notin Roots(S)
        BY <1>3, <4>1, OneParent
      <4>3. calls # <<>>
        BY <1>16, <3>1, <4>2
      <4>4. 1 \in DOMAIN calls /\ calls[1].process = p /\ calls[1].process.parent = x.pid
        BY <1>7, <4>1, <4>3 DEF p, IsParent
      <4>5. Less(done[i].process, calls[1].process)
        BY <2>1, <4>1, <4>4 DEF DfsInv, InTurn
      <4>6. QED
        BY <2>1, <3>1, <4>4, <4>5
    <3>4. QED
      BY <2>1, <3>1, <3>2, <3>3 DEF Siblings
  <2>4. QED
    BY <1>5, <2>2, <2>3
<1>29. DfsInv(S, starts, longer, all, after)
  BY <1>20, <1>21, <1>22, <1>23, <1>24, <1>25, <1>26, <1>27, <1>28 DEF DfsInv
<1>30. QED
  BY <1>29 DEF longer, all, more, row, p

-----------------------------------------------------------------------------
(***************************************************************************)
(* The calls of dfs come to an end: each takes a call or a start, and a    *)
(* row makes at most as many as its process has children, once.            *)
(***************************************************************************)

\* What a call leaves behind, and the next begins with.
Drawing(S, starts) ==
  {x \in [rows : Seq(RowsFor(S)), calls : Seq(CallsFor(S)), next : 1..(Len(starts) + 1)] :
     DfsInv(S, starts, x.rows, x.calls, x.next)}

\* The children of what is not drawn.
Pending(S, done) == {q \in S : \E p \in S : ~IsDrawn(done, p) /\ q \in Children(S, p)}

Left(S, starts, x) ==
  (Len(starts) + 1 - x.next) + Len(x.calls) + Cardinality(Pending(S, x.rows))

Finished(starts, x) == x.calls = <<>> /\ x.next = Len(starts) + 1

LEMMA PendingShrinks ==
  ASSUME NEW S, Listing(S), NEW done \in Seq(RowsFor(S)), NEW row \in RowsFor(S),
         ~IsDrawn(done, row.process)
  PROVE  /\ Cardinality(Pending(S, done)) \in Nat
         /\ Cardinality(Children(S, row.process)) \in Nat
         /\ Cardinality(Pending(S, Append(done, row)))
              = Cardinality(Pending(S, done)) - Cardinality(Children(S, row.process))
<1> DEFINE p == row.process
           n == Len(done)
           longer == Append(done, row)
           before == Pending(S, done)
           below == Children(S, p)
<1>1. /\ n \in Nat /\ DOMAIN done = 1..n /\ DOMAIN longer = 1..(n + 1)
      /\ longer[n + 1] = row
      /\ \A i \in 1..n : i \in 1..(n + 1) /\ longer[i] = done[i]
      /\ \A i \in 1..(n + 1) : i \in 1..n \/ i = n + 1
  BY AddedRow
<1> HIDE DEF longer, n
<1>2. \A q : IsDrawn(longer, q) <=> IsDrawn(done, q) \/ q = p
  BY <1>1 DEF IsDrawn
<1>3. p \in S /\ ~IsDrawn(done, p)
  BY DEF RowsFor
<1>4. \A q, r, s \in S : q \in Children(S, r) /\ q \in Children(S, s) => r = s
  BY DEF Listing, Children
<1> HIDE DEF p
<1>5. Pending(S, longer) = before \ below
  <2>1. ASSUME NEW q \in S PROVE q \in Pending(S, longer) <=> q \in before \ below
    <3>1. q \in Pending(S, longer) <=> \E r \in S : ~IsDrawn(done, r) /\ r # p /\ q \in Children(S, r)
      BY <1>2 DEF Pending
    <3>2. q \in before <=> \E r \in S : ~IsDrawn(done, r) /\ q \in Children(S, r)
      BY DEF Pending
    <3>3. QED
      BY <1>3, <1>4, <3>1, <3>2
  <2>2. Pending(S, longer) \subseteq S /\ before \subseteq S
    BY DEF Pending
  <2>3. QED
    BY <2>1, <2>2
<1>6. below \subseteq before /\ before \in SUBSET S /\ below \in SUBSET S
  BY <1>3 DEF Pending, Children
<1>7. IsFiniteSet(before) /\ IsFiniteSet(below)
  BY <1>6, FS_Subset DEF Listing
<1>8. Cardinality(before) \in Nat /\ Cardinality(below) \in Nat
  BY <1>7, FS_CardinalityType
<1>9. before \cap below = below
  BY <1>6
<1>10. Cardinality(before \ below) = Cardinality(before) - Cardinality(below)
  BY <1>7, <1>9, FS_Difference
<1>11. QED
  BY <1>5, <1>8, <1>10 DEF longer, p

\* A call of dfs does what CallReturns and CallDraws say, and leaves less.
LEMMA VisitGoesOn ==
  ASSUME NEW S, Listing(S), Sorting, NEW starts, StartsFor(S, starts),
         NEW done, NEW calls, NEW next, DfsInv(S, starts, done, calls, next),
         NEW call, NEW waiting, NEW after,
         Takes(starts, calls, next, call, waiting, after), NEW others,
         NEW x, x = [rows |-> done, calls |-> calls, next |-> next],
         NEW y, y = Visit(S, call, waiting, [rows |-> done, calls |-> others, next |-> after])
  PROVE  y \in Drawing(S, starts) /\ Left(S, starts, y) < Left(S, starts, x)
<1> DEFINE p == call.process
           row == RowOf(S, p, call.depth)
           more == Calling(S, row)
           sofar == [rows |-> done, calls |-> others, next |-> after]
           d == Cardinality(Pending(S, done))
<1>1. TypesOf(S, starts, done, calls, next) /\ starts \in Seq(S) /\ Len(starts) \in Nat
      /\ done \in Seq(RowsFor(S)) /\ calls \in Seq(CallsFor(S)) /\ next \in 1..(Len(starts) + 1)
  BY DEF DfsInv, StartsFor, TypesOf
<1>2. /\ call \in CallsFor(S) /\ waiting \in Seq(CallsFor(S)) /\ after \in 1..(Len(starts) + 1)
      /\ Len(calls) \in Nat /\ Len(waiting) \in Nat
      /\ \/ after = next /\ Len(calls) = Len(waiting) + 1
         \/ Len(calls) = 0 /\ Len(waiting) = 0 /\ after = next + 1
  <2>1. /\ call \in CallsFor(S) /\ waiting \in Seq(CallsFor(S)) /\ after \in 1..(Len(starts) + 1)
        /\ Len(calls) \in Nat /\ Len(waiting) \in Nat
        /\ \/ /\ calls # <<>> /\ 1 \in DOMAIN calls /\ call = calls[1] /\ after = next
              /\ Len(calls) = Len(waiting) + 1
           \/ /\ calls = <<>> /\ next \in 1..Len(starts) /\ call.process = starts[next]
              /\ call.depth = 0 /\ waiting = <<>> /\ after = next + 1
    BY <1>1, TakesIs
  <2>2. Len(<<>>) = 0
    OBVIOUS
  <2>3. QED
    BY <2>1, <2>2
<1>3. p \in S /\ call.depth \in Nat
  BY <1>2 DEF CallsFor
<1>4. (Len(starts) + 1 - after) + Len(waiting) < (Len(starts) + 1 - next) + Len(calls)
      /\ (Len(starts) + 1 - after) \in Nat /\ (Len(starts) + 1 - next) \in Nat
  BY <1>1, <1>2
<1>5. x.rows = done /\ x.calls = calls /\ x.next = next
  OBVIOUS
<1>6. sofar.rows = done /\ sofar.calls = others /\ sofar.next = after
  OBVIOUS
<1>7. d \in Nat
  <2>1. Pending(S, done) \in SUBSET S
    BY DEF Pending
  <2>2. IsFiniteSet(Pending(S, done))
    BY <2>1, FS_Subset DEF Listing
  <2>3. QED
    BY <2>2, FS_CardinalityType
<1>8. CASE IsDrawn(done, p)
  <2>1. y = [rows |-> done, calls |-> waiting, next |-> after]
    BY <1>6, <1>8 DEF Visit, IsDrawn
  <2>2. y.rows = done /\ y.calls = waiting /\ y.next = after
    BY <2>1
  <2>3. DfsInv(S, starts, done, waiting, after)
    BY <1>8, CallReturns
  <2>4. y \in Drawing(S, starts)
    BY <1>1, <1>2, <2>1, <2>2, <2>3 DEF Drawing
  <2> HIDE DEF d
  <2>5. Left(S, starts, y) < Left(S, starts, x)
    BY <1>2, <1>4, <1>5, <1>7, <2>2 DEF Left, d
  <2>6. QED
    BY <2>4, <2>5
<1>9. CASE ~IsDrawn(done, p)
  <2>1. /\ row \in RowsFor(S) /\ row.process = p /\ row.depth = call.depth
        /\ more \in Seq(CallsFor(S)) /\ Len(more) \in Nat
        /\ Len(more) <= Cardinality(Children(S, p))
    BY <1>3, CallingIs
  <2> HIDE DEF row
  <2>2. more \o waiting = IF row.folded THEN waiting ELSE CallsBelow(S, row) \o waiting
    <3>1. <<>> \o waiting = waiting
      BY <1>2
    <3>2. QED
      BY <3>1 DEF Calling
  <2> HIDE DEF more
  <2>3. y = [rows |-> Append(done, row), calls |-> more \o waiting, next |-> after]
    <3>1. ~\E i \in DOMAIN sofar.rows : sofar.rows[i].process = call.process
      BY <1>6, <1>9 DEF IsDrawn
    <3>2. y = [sofar EXCEPT !.rows = Append(@, row), !.calls = more \o waiting]
      BY <2>2, <3>1 DEF Visit, row
    <3>3. QED
      BY <1>6, <3>2
  <2>4. y.rows = Append(done, row) /\ y.calls = more \o waiting /\ y.next = after
    BY <2>3
  <2>5. DfsInv(S, starts, Append(done, row), more \o waiting, after)
    BY <1>9, CallDraws DEF row, more
  <2>6. more \o waiting \in Seq(CallsFor(S)) /\ Len(more \o waiting) = Len(more) + Len(waiting)
    BY <1>2, <2>1
  <2>7. Append(done, row) \in Seq(RowsFor(S))
    BY <1>1, <2>1
  <2>8. y \in Drawing(S, starts)
    BY <1>2, <2>3, <2>4, <2>5, <2>6, <2>7 DEF Drawing
  <2>9. /\ Cardinality(Children(S, p)) \in Nat
        /\ Cardinality(Pending(S, Append(done, row))) = d - Cardinality(Children(S, p))
    BY <1>1, <1>9, <2>1, PendingShrinks
  <2> HIDE DEF d
  <2>10. Left(S, starts, x) = (Len(starts) + 1 - next) + Len(calls) + d
    BY <1>5 DEF Left, d
  <2>11. Left(S, starts, y) = (Len(starts) + 1 - after) + (Len(more) + Len(waiting))
                              + (d - Cardinality(Children(S, p)))
    BY <2>4, <2>6, <2>9 DEF Left
  <2>12. Left(S, starts, y) < Left(S, starts, x)
    <3> DEFINE a == Len(starts) + 1 - after
               b == Len(starts) + 1 - next
               u == Len(waiting)
               v == Len(calls)
               m == Len(more)
               k == Cardinality(Children(S, p))
    <3>1. /\ a \in Nat /\ b \in Nat /\ u \in Nat /\ v \in Nat /\ m \in Nat /\ k \in Nat
          /\ a + u < b + v /\ m <= k
      BY <1>2, <1>4, <2>1, <2>9
    <3>2. Left(S, starts, x) = b + v + d /\ Left(S, starts, y) = a + (m + u) + (d - k)
      BY <2>10, <2>11
    <3> HIDE DEF a, b, u, v, m, k
    <3>3. QED
      BY <1>7, <3>1, <3>2
  <2>13. QED
    BY <2>8, <2>12
<1>10. QED
  BY <1>8, <1>9

LEMMA NextCallGoesOn ==
  ASSUME NEW S, Listing(S), Sorting, NEW starts, StartsFor(S, starts),
         NEW x \in Drawing(S, starts)
  PROVE  /\ NextCall(S, starts, x) \in Drawing(S, starts)
         /\ Left(S, starts, x) \in Nat
         /\ \/ Finished(starts, x) /\ NextCall(S, starts, x) = x
            \/ ~Finished(starts, x) /\ Left(S, starts, NextCall(S, starts, x)) < Left(S, starts, x)
<1> DEFINE done == x.rows
           calls == x.calls
           next == x.next
           y == NextCall(S, starts, x)
<1>1. /\ DfsInv(S, starts, done, calls, next)
      /\ done \in Seq(RowsFor(S)) /\ calls \in Seq(CallsFor(S)) /\ next \in 1..(Len(starts) + 1)
      /\ x = [rows |-> done, calls |-> calls, next |-> next]
      /\ Len(starts) \in Nat
  BY DEF Drawing, StartsFor
<1>2. Left(S, starts, x) \in Nat
  <2>1. Pending(S, done) \in SUBSET S
    BY DEF Pending
  <2>2. IsFiniteSet(Pending(S, done))
    BY <2>1, FS_Subset DEF Listing
  <2>3. Cardinality(Pending(S, done)) \in Nat
    BY <2>2, FS_CardinalityType
  <2>4. Len(calls) \in Nat /\ (Len(starts) + 1 - next) \in Nat
    BY <1>1
  <2>5. QED
    BY <2>3, <2>4 DEF Left
<1> HIDE DEF done, calls, next
<1>3. x.rows = done /\ x.calls = calls /\ x.next = next
  BY DEF done, calls, next
<1>4. CASE calls # <<>>
  <2> DEFINE call == Head(calls)
             waiting == Tail(calls)
  <2>1. y = Visit(S, call, waiting, x)
    BY <1>3, <1>4 DEF NextCall
  <2>2. Takes(starts, calls, next, call, waiting, next)
    BY <1>4 DEF Takes
  <2> HIDE DEF y, call, waiting
  <2>3. y = Visit(S, call, waiting, [rows |-> done, calls |-> calls, next |-> next])
    BY <1>1, <2>1
  <2>4. y \in Drawing(S, starts) /\ Left(S, starts, y) < Left(S, starts, x)
    BY <1>1, <2>2, <2>3, VisitGoesOn
  <2>5. ~Finished(starts, x)
    BY <1>3, <1>4 DEF Finished
  <2>6. QED
    BY <1>2, <2>4, <2>5 DEF y
<1>5. CASE calls = <<>> /\ next <= Len(starts)
  <2> DEFINE call == [process |-> starts[next], depth |-> 0]
             waiting == <<>>
             after == next + 1
  <2>1. y = Visit(S, call, waiting, [x EXCEPT !.next = next + 1])
    BY <1>3, <1>5 DEF NextCall
  <2>2. [x EXCEPT !.next = next + 1] = [rows |-> done, calls |-> calls, next |-> after]
    BY <1>1
  <2>3. Takes(starts, calls, next, call, waiting, after)
    BY <1>5 DEF Takes
  <2> HIDE DEF y, call, waiting, after
  <2>4. y = Visit(S, call, waiting, [rows |-> done, calls |-> calls, next |-> after])
    BY <2>1, <2>2
  <2>5. y \in Drawing(S, starts) /\ Left(S, starts, y) < Left(S, starts, x)
    BY <1>1, <2>3, <2>4, VisitGoesOn
  <2>6. ~Finished(starts, x)
    <3>1. next # Len(starts) + 1
      BY <1>1, <1>5
    <3>2. QED
      BY <1>3, <3>1 DEF Finished
  <2>7. QED
    BY <1>2, <2>5, <2>6 DEF y
<1>6. CASE calls = <<>> /\ ~(next <= Len(starts))
  <2>1. y = x
    BY <1>3, <1>6 DEF NextCall
  <2>2. next = Len(starts) + 1
    BY <1>1, <1>6
  <2>3. QED
    BY <1>2, <1>3, <1>6, <2>1, <2>2 DEF Finished
<1>7. QED
  BY <1>4, <1>5, <1>6

LEMMA StartsAre ==
  ASSUME NEW list \in Samples, Sorting
  PROVE  LET S == Range(list)
             starts == VisitOrder(list)
         IN /\ StartsFor(S, starts)
            /\ Len(starts) \in Nat /\ Len(starts) <= 2 * Len(list)
            /\ \A p \in S : \E k \in 1..Len(starts) : starts[k] = p
<1> DEFINE S == Range(list)
           roots == Sorted(Roots(S))
           n == Len(list)
           r == Len(roots)
           starts == roots \o list
<1>1. /\ n \in Nat /\ DOMAIN list = 1..n /\ Listing(S) /\ Cardinality(S) = n
      /\ list \in Seq(Processes)
  BY SampleIsListing
<1>2. list \in Seq(S)
  BY <1>1 DEF Range
<1> HIDE DEF S
<1>3. Roots(S) \in SUBSET S
  BY DEF Roots
<1>4. IsFiniteSet(Roots(S)) /\ Cardinality(Roots(S)) <= n
  BY <1>1, <1>3, FS_Subset DEF Listing
<1>5. Listing(Roots(S))
  BY <1>1, <1>3, PartIsListing
<1>6. roots \in Seq(Roots(S)) /\ r = Cardinality(Roots(S)) /\ r \in Nat
  BY <1>5, SortedIs
<1> HIDE DEF roots
<1>7. roots \in Seq(S)
  BY <1>3, <1>6
<1> HIDE DEF r, n
<1>8. /\ starts \in Seq(S) /\ r \in Nat /\ Len(starts) = r + n
      /\ \A m \in 1..r : starts[m] = roots[m]
      /\ \A m \in 1..n : r + m \in DOMAIN starts /\ starts[r + m] = list[m]
  BY <1>2, <1>7, AddedCalls DEF r, n
<1> HIDE DEF starts
<1>9. r <= Len(starts) /\ Len(starts) \in Nat /\ Len(starts) <= 2 * n
  BY <1>1, <1>4, <1>6, <1>8
<1>10. StartsFor(S, starts)
  BY <1>8, <1>9 DEF StartsFor, r, roots
<1>11. ASSUME NEW p \in S PROVE \E k \in 1..Len(starts) : starts[k] = p
  <2>1. PICK m \in 1..n : list[m] = p
    BY <1>1 DEF S, Range
  <2>2. r + m \in 1..Len(starts) /\ starts[r + m] = p
    BY <1>1, <1>6, <1>8, <2>1
  <2>3. QED
    BY <2>2
<1>12. VisitOrder(list) = starts
  BY DEF VisitOrder, starts, roots, S
<1>13. QED
  BY <1>9, <1>10, <1>11, <1>12 DEF S, n

LEMMA NothingDrawn ==
  ASSUME NEW S, NEW starts \in Seq(S)
  PROVE  [rows |-> <<>>, calls |-> <<>>, next |-> 1] \in Drawing(S, starts)
<1> DEFINE x == [rows |-> <<>>, calls |-> <<>>, next |-> 1]
<1>1. /\ <<>> \in Seq(RowsFor(S)) /\ <<>> \in Seq(CallsFor(S)) /\ DOMAIN <<>> = {}
      /\ Len(starts) \in Nat /\ 1 \in 1..(Len(starts) + 1)
  OBVIOUS
<1>2. TypesOf(S, starts, <<>>, <<>>, 1)
  BY <1>1 DEF TypesOf
<1>3. Once(<<>>) /\ OrderedSoFar(S, <<>>) /\ Placed(S, <<>>) /\ RootsInTurn(S, starts, <<>>, 1)
  BY <1>1 DEF Once, OrderedSoFar, Placed, RootsInTurn
<1>4. CallsHaveRows(S, <<>>, <<>>) /\ DeepestFirst(<<>>, <<>>) /\ InTurn(S, <<>>, <<>>)
  BY <1>1 DEF CallsHaveRows, DeepestFirst, InTurn
<1>5. Covered(S, starts, <<>>, <<>>, 1)
  BY <1>1 DEF Covered
<1>6. DfsInv(S, starts, <<>>, <<>>, 1)
  BY <1>2, <1>3, <1>4, <1>5 DEF DfsInv
<1>7. QED
  BY <1>1, <1>6 DEF Drawing

\* The calls TreeRows looks at are all there are.
LEMMA TreeRowsAre ==
  ASSUME NEW list \in Samples, Sorting
  PROVE  LET S == Range(list)
             starts == VisitOrder(list)
         IN \E x \in Drawing(S, starts) : Finished(starts, x) /\ TreeRows(list) = x.rows
<1> DEFINE S == Range(list)
           starts == VisitOrder(list)
           n == 3 * Len(list)
           W == Drawing(S, starts)
           base == [rows |-> <<>>, calls |-> <<>>, next |-> 1]
           step == [i \in 1..n |-> [x \in W |-> NextCall(S, starts, x)]]
           Eq(g) == g = [m \in 0..n |-> IF m = 0 THEN base ELSE NextCall(S, starts, g[m - 1])]
           g == CHOOSE f : Eq(f)
<1>1. /\ Listing(S) /\ Len(list) \in Nat /\ Cardinality(S) = Len(list)
  BY SampleIsListing
<1>2. /\ StartsFor(S, starts) /\ Len(starts) \in Nat /\ Len(starts) <= 2 * Len(list)
      /\ starts \in Seq(S)
  BY StartsAre DEF StartsFor
<1>3. TreeRows(list) = g[n].rows
  BY DEF TreeRows
<1> HIDE DEF S, starts
<1>4. n \in Nat
  BY <1>1
<1>5. base \in W
  BY <1>2, NothingDrawn
<1>6. \A x \in W : /\ NextCall(S, starts, x) \in W
                   /\ Left(S, starts, x) \in Nat
                   /\ \/ Finished(starts, x) /\ NextCall(S, starts, x) = x
                      \/ /\ ~Finished(starts, x)
                         /\ Left(S, starts, NextCall(S, starts, x)) < Left(S, starts, x)
  BY <1>1, <1>2, NextCallGoesOn
<1>7. Left(S, starts, base) <= n
  <2>1. base.rows = <<>> /\ base.calls = <<>> /\ base.next = 1
    OBVIOUS
  <2>2. Pending(S, <<>>) \in SUBSET S
    BY DEF Pending
  <2>3. Cardinality(Pending(S, <<>>)) <= Len(list) /\ IsFiniteSet(Pending(S, <<>>))
    BY <1>1, <2>2, FS_Subset DEF Listing
  <2>4. Cardinality(Pending(S, <<>>)) \in Nat
    BY <2>3, FS_CardinalityType
  <2>5. Len(<<>>) = 0
    OBVIOUS
  <2> HIDE DEF base
  <2>6. Left(S, starts, base) = (Len(starts) + 1 - 1) + 0 + Cardinality(Pending(S, <<>>))
    BY <2>1, <2>5 DEF Left
  <2>7. QED
    BY <1>1, <1>2, <2>3, <2>4, <2>6
<1> HIDE DEF W, base, n
<1>8. IsStep(step, n, W)
  BY <1>6 DEF IsStep
<1>9. PICK h : IsIteration(h, n, W, base, step)
  <2> HIDE DEF step
  <2>1. QED
    BY <1>4, <1>5, <1>8, Iterates
<1>10. Eq(h)
  <2>1. h \in [0..n -> W] /\ h[0] = base /\ \A i \in 1..n : h[i] = step[i][h[i - 1]]
    BY <1>9 DEF IsIteration
  <2>2. ASSUME NEW i \in 0..n
        PROVE  h[i] = IF i = 0 THEN base ELSE NextCall(S, starts, h[i - 1])
    <3>1. CASE i = 0
      BY <2>1, <3>1
    <3>2. CASE i # 0
      <4>1. i \in 1..n /\ i - 1 \in 0..n
        BY <1>4, <3>2
      <4>2. h[i - 1] \in W /\ h[i] = step[i][h[i - 1]]
        BY <2>1, <4>1
      <4>3. QED
        BY <3>2, <4>1, <4>2
    <3>3. QED
      BY <3>1, <3>2
  <2> HIDE DEF step
  <2>3. h = [i \in 0..n |-> h[i]]
    BY <2>1
  <2>4. QED
    BY <2>2, <2>3
<1>11. Eq(g)
  <2> HIDE DEF Eq
  <2>1. QED
    BY <1>10
<1> HIDE DEF g, step
<1> DEFINE G == {m \in 0..n : /\ g[m] \in W
                              /\ Finished(starts, g[m]) \/ Left(S, starts, g[m]) + m <= n}
<1>12. 0 \in G
  <2>1. 0 \in 0..n
    BY <1>4
  <2>2. g[0] = base
    BY <1>11, <2>1
  <2>3. Left(S, starts, base) + 0 <= n
    BY <1>4, <1>5, <1>6, <1>7
  <2>4. QED
    BY <1>5, <2>1, <2>2, <2>3
<1>13. ASSUME NEW m \in 1..n, m - 1 \in G PROVE m \in G
  <2>1. m \in 0..n /\ m - 1 \in 0..n /\ m # 0
    BY <1>4
  <2>2. g[m] = NextCall(S, starts, g[m - 1])
    BY <1>11, <2>1
  <2>3. g[m - 1] \in W /\ (Finished(starts, g[m - 1]) \/ Left(S, starts, g[m - 1]) + (m - 1) <= n)
    BY <1>13
  <2>4. /\ g[m] \in W /\ Left(S, starts, g[m - 1]) \in Nat /\ Left(S, starts, g[m]) \in Nat
        /\ \/ Finished(starts, g[m - 1]) /\ g[m] = g[m - 1]
           \/ /\ ~Finished(starts, g[m - 1])
              /\ Left(S, starts, g[m]) < Left(S, starts, g[m - 1])
    BY <1>6, <2>2, <2>3
  <2>5. ASSUME ~Finished(starts, g[m]) PROVE Left(S, starts, g[m]) + m <= n
    <3> DEFINE a == Left(S, starts, g[m - 1])
               b == Left(S, starts, g[m])
    <3>1. a \in Nat /\ b \in Nat /\ b < a /\ a + (m - 1) <= n
      BY <2>3, <2>4, <2>5
    <3> HIDE DEF a, b
    <3>2. b + m <= n
      BY <1>4, <3>1
    <3>3. QED
      BY <3>2 DEF b
  <2>6. QED
    BY <2>1, <2>4, <2>5
<1>14. n \in G
  <2> HIDE DEF G
  <2>1. \A m \in 1..n : m - 1 \in G => m \in G
    BY <1>13
  <2>2. 0..n \subseteq G
    BY <1>4, <1>12, <2>1, UpTo
  <2>3. QED
    BY <1>4, <2>2
<1>15. g[n] \in W /\ (Finished(starts, g[n]) \/ Left(S, starts, g[n]) + n <= n)
  BY <1>14
<1>16. Finished(starts, g[n])
  <2> DEFINE x == g[n]
             k == Cardinality(Pending(S, x.rows))
  <2>1. SUFFICES ASSUME Left(S, starts, x) + n <= n PROVE Finished(starts, x)
    BY <1>15
  <2> HIDE DEF x
  <2>2. x \in W /\ Left(S, starts, x) \in Nat
    BY <1>6, <1>15 DEF x
  <2>3. Left(S, starts, x) = 0
    BY <1>4, <2>1, <2>2
  <2>4. /\ x.calls \in Seq(CallsFor(S)) /\ x.next \in 1..(Len(starts) + 1)
    BY <2>2 DEF W, Drawing
  <2>5. Pending(S, x.rows) \in SUBSET S
    BY DEF Pending
  <2>6. IsFiniteSet(Pending(S, x.rows))
    BY <1>1, <2>5, FS_Subset DEF Listing
  <2>7. k \in Nat
    BY <2>6, FS_CardinalityType
  <2>8. Left(S, starts, x) = (Len(starts) + 1 - x.next) + Len(x.calls) + k
    BY DEF Left
  <2> HIDE DEF k
  <2> DEFINE c == Len(x.calls)
             s == Len(starts)
             q == x.next
  <2>9. c \in Nat /\ s \in Nat /\ q \in 1..(s + 1) /\ (s + 1 - q) + c + k = 0
    BY <1>2, <2>3, <2>4, <2>8
  <2>10. c = 0 /\ q = s + 1
    <3> HIDE DEF c, s, q
    <3>1. QED
      BY <2>7, <2>9
  <2>11. x.calls = <<>>
    BY <2>4, <2>10
  <2>12. QED
    BY <2>10, <2>11 DEF Finished
<1>17. QED
  BY <1>3, <1>15, <1>16 DEF S, starts, W

\* What a reader of the table relies on.
LEMMA TreeIsDrawn ==
  ASSUME NEW list \in Samples, Sorting
  PROVE  LET S == Range(list)
             drawn == TreeRows(list)
         IN /\ drawn \in Seq(RowsFor(S)) /\ Once(drawn)
            /\ \A p \in S : IsDrawn(drawn, p)
            /\ \A i \in DOMAIN drawn : drawn[i] = RowOf(S, drawn[i].process, drawn[i].depth)
            /\ Placed(S, drawn) /\ OrderedSoFar(S, drawn)
<1> DEFINE S == Range(list)
           starts == VisitOrder(list)
<1>1. PICK x \in Drawing(S, starts) : Finished(starts, x) /\ TreeRows(list) = x.rows
  BY TreeRowsAre
<1>2. Len(starts) \in Nat /\ \A p \in S : \E k \in 1..Len(starts) : starts[k] = p
  BY StartsAre
<1> HIDE DEF S, starts
<1> DEFINE drawn == TreeRows(list)
<1>3. DfsInv(S, starts, drawn, x.calls, x.next) /\ x.next = Len(starts) + 1
  BY <1>1 DEF Drawing, Finished
<1> HIDE DEF drawn
<1>4. /\ drawn \in Seq(RowsFor(S)) /\ Once(drawn) /\ Placed(S, drawn) /\ OrderedSoFar(S, drawn)
      /\ \A i \in DOMAIN drawn : drawn[i] = RowOf(S, drawn[i].process, drawn[i].depth)
  BY <1>3 DEF DfsInv, TypesOf
<1>5. ASSUME NEW p \in S PROVE IsDrawn(drawn, p)
  <2>1. PICK k \in 1..Len(starts) : starts[k] = p
    BY <1>2
  <2>2. k \in 1..(x.next - 1)
    BY <1>2, <1>3
  <2>3. QED
    BY <1>3, <2>1, <2>2 DEF DfsInv, Covered
<1>6. QED
  BY <1>4, <1>5 DEF S, drawn

-----------------------------------------------------------------------------
(***************************************************************************)
(* The rows of the table, through every frame, key and click.              *)
(***************************************************************************)

\* The rows last built are those of the sample, or there has been none.
BuiltOfSample ==
  fresh =>
    \/ listed = <<>> /\ built = <<>>
    \/ listed \in Samples /\ built = IF tree THEN TreeRows(listed) ELSE FlatRows(Range(listed))

RowsInv ==
  /\ RowTypes
  /\ \A i \in DOMAIN built : built[i].process.pid \in SampledPids
  /\ BuiltOfSample

\* The flat list has one row for each process, in order.
LEMMA FlatRowsAre ==
  ASSUME NEW list \in Samples, Sorting
  PROVE  LET S == Range(list)
             drawn == FlatRows(S)
         IN /\ drawn \in Seq(RowsFor(S))
            /\ Once(drawn) /\ \A p \in S : IsDrawn(drawn, p)
            /\ \A i, j \in DOMAIN drawn : i < j => Less(drawn[i].process, drawn[j].process)
<1> DEFINE S == Range(list)
           order == Sorted(S)
           drawn == FlatRows(S)
           n == Len(order)
<1>1. Listing(S)
  BY SampleIsListing
<1> HIDE DEF S
<1>2. /\ order \in Seq(S) /\ n = Cardinality(S) /\ Cardinality(S) \in Nat
      /\ DOMAIN order = 1..n /\ Range(order) = S
      /\ \A i, j \in DOMAIN order : i # j => order[i] # order[j]
      /\ \A i, j \in DOMAIN order : i < j => Less(order[i], order[j])
  BY <1>1, SortedIs
<1>3. drawn = [i \in 1..n |->
                [process |-> order[i], depth |-> 0, children |-> FALSE, folded |-> FALSE]]
  BY <1>2 DEF FlatRows
<1> HIDE DEF order
<1>4. \A i \in 1..n : order[i] \in S
  BY <1>2
<1> HIDE DEF drawn, n
<1>5. \A i \in 1..n : drawn[i] \in RowsFor(S) /\ drawn[i].process = order[i]
  BY <1>3, <1>4 DEF RowsFor
<1>6. drawn \in Seq(RowsFor(S)) /\ DOMAIN drawn = 1..n
  BY <1>2, <1>3, <1>5
<1>7. Once(drawn)
  BY <1>2, <1>5, <1>6 DEF Once
<1>8. \A p \in S : IsDrawn(drawn, p)
  BY <1>2, <1>5, <1>6 DEF IsDrawn, Range
<1>9. \A i, j \in DOMAIN drawn : i < j => Less(drawn[i].process, drawn[j].process)
  BY <1>2, <1>5, <1>6
<1>10. QED
  BY <1>6, <1>7, <1>8, <1>9 DEF drawn, S

\* Whatever is built has rows of listed processes, each drawn once.
LEMMA BuiltIs ==
  ASSUME NEW list \in Samples, Sorting, NEW shape \in BOOLEAN
  PROVE  LET S == Range(list)
             drawn == IF shape THEN TreeRows(list) ELSE FlatRows(S)
         IN /\ drawn \in Seq(Row) /\ drawn \in Seq(RowsFor(S))
            /\ \A i \in DOMAIN drawn : drawn[i].process \in S
                                       /\ drawn[i].process.pid \in SampledPids
            /\ Once(drawn) /\ \A p \in S : IsDrawn(drawn, p)
<1> DEFINE S == Range(list)
           drawn == IF shape THEN TreeRows(list) ELSE FlatRows(S)
<1>1. drawn \in Seq(RowsFor(S)) /\ Once(drawn) /\ \A p \in S : IsDrawn(drawn, p)
  <2>1. CASE shape
    <3>1. drawn = TreeRows(list)
      BY <2>1
    <3> HIDE DEF drawn
    <3>2. QED
      BY <3>1, TreeIsDrawn
  <2>2. CASE ~shape
    <3>1. drawn = FlatRows(S)
      BY <2>2
    <3> HIDE DEF drawn
    <3>2. QED
      BY <3>1, FlatRowsAre
  <2>3. QED
    BY <2>1, <2>2
<1> HIDE DEF drawn
<1>2. S \subseteq Processes /\ \A p \in S : p.pid \in SampledPids
  <2>1. S \subseteq Processes
    BY SampleIsListing DEF Listing
  <2>2. \A p \in S : p.pid \in SampledPids
    BY DEF SampledPids
  <2>3. QED
    BY <2>1, <2>2
<1> HIDE DEF S
<1>3. RowsFor(S) \subseteq Row
  BY <1>2 DEF RowsFor, Row
<1>4. drawn \in Seq(Row)
  BY <1>1, <1>3
<1>5. \A i \in DOMAIN drawn : drawn[i] \in RowsFor(S)
  BY <1>1
<1>6. \A i \in DOMAIN drawn : drawn[i].process \in S
  BY <1>5 DEF RowsFor
<1>7. QED
  BY <1>1, <1>2, <1>4, <1>6 DEF drawn, S

LEMMA RowsInvInit == RowsInit => RowsInv
<1> SUFFICES ASSUME RowsInit PROVE RowsInv
  OBVIOUS
<1>1. built = <<>> /\ built \in Seq(Row) /\ DOMAIN built = {}
  BY DEF RowsInit
<1>2. RowTypes
  BY <1>1 DEF RowsInit, RowTypes
<1>3. BuiltOfSample
  BY DEF RowsInit, BuiltOfSample
<1>4. QED
  BY <1>1, <1>2, <1>3 DEF RowsInv

LEMMA RowsInvNext == RowsInv /\ [RowsNext]_rowVars => RowsInv'
<1> SUFFICES ASSUME RowsInv, [RowsNext]_rowVars PROVE RowsInv'
  OBVIOUS
<1>1. RowTypes /\ BuiltOfSample /\ \A i \in DOMAIN built : built[i].process.pid \in SampledPids
  BY DEF RowsInv
<1>2. Sorting /\ tree \in BOOLEAN /\ collapsed \subseteq SampledPids /\ fresh \in BOOLEAN
      /\ listed \in Samples \cup {<<>>} /\ built \in Seq(Row)
  BY <1>1 DEF RowTypes, Sorting
<1>3. CASE BuildRows
  <2>1. /\ listed' \in Samples /\ fresh' = TRUE
        /\ built' = IF tree THEN TreeRows(listed') ELSE FlatRows(Range(listed'))
        /\ UNCHANGED <<sort, direction, tree, collapsed>>
    BY <1>3 DEF BuildRows
  <2>2. /\ built' \in Seq(Row)
        /\ \A i \in DOMAIN built' : built'[i].process.pid \in SampledPids
    <3> DEFINE list == listed'
               drawn == IF tree THEN TreeRows(list) ELSE FlatRows(Range(list))
    <3>1. list \in Samples /\ built' = drawn
      BY <2>1
    <3> HIDE DEF list
    <3>2. drawn \in Seq(Row) /\ \A i \in DOMAIN drawn : drawn[i].process.pid \in SampledPids
      BY <1>2, <3>1, BuiltIs
    <3>3. QED
      BY <3>1, <3>2
  <2>3. RowTypes'
    BY <1>2, <2>1, <2>2 DEF RowTypes, Sorting
  <2>4. BuiltOfSample'
    <3>1. sort' = sort /\ direction' = direction /\ collapsed' = collapsed
      BY <2>1
    <3>2. FlatRows(Range(listed))' = FlatRows(Range(listed'))
      BY <3>1 DEF FlatRows, Sorted
    <3>3. TreeRows(listed)' = TreeRows(listed')
      BY <3>1 DEF TreeRows, Sorted, VisitOrder, NextCall, Visit, RowOf, CallsBelow
    <3>4. QED
      BY <2>1, <3>2, <3>3 DEF BuiltOfSample
  <2>5. QED
    BY <2>2, <2>3, <2>4 DEF RowsInv
<1>4. ASSUME NEW mode \in Modes, SetSortMode(mode) PROVE RowsInv'
  <2>1. DefaultDirection(mode) \in Directions
    BY DEF DefaultDirection, Directions
  <2>2. QED
    BY <1>1, <1>4, <2>1 DEF SetSortMode, RowsInv, RowTypes, BuiltOfSample
<1>5. CASE Invert
  <2>1. -direction \in Directions
    BY <1>2 DEF Sorting, Directions
  <2>2. QED
    BY <1>1, <1>5, <2>1 DEF Invert, RowsInv, RowTypes, BuiltOfSample
<1>6. CASE PickColumn
  BY <1>4, <1>6 DEF PickColumn
<1>7. CASE NextColumn
  <2>1. CycleSort[sort] \in Modes
    BY <1>2 DEF CycleSort, Modes, Sorting
  <2>2. QED
    BY <1>4, <1>7, <2>1 DEF NextColumn
<1>8. CASE SortClick
  BY <1>4, <1>5, <1>8 DEF SortClick, ClickSortHeader
<1>9. CASE ToggleTreeMode
  BY <1>1, <1>9 DEF ToggleTreeMode, RowsInv, RowTypes, BuiltOfSample
<1>10. ASSUME NEW hidden \in SUBSET SampledPids, Fold(hidden) PROVE RowsInv'
  BY <1>1, <1>10 DEF Fold, RowsInv, RowTypes, BuiltOfSample
<1>11. WithChildren \subseteq SampledPids
  BY <1>1 DEF WithChildren
<1>12. CASE Expand
  BY <1>2, <1>10, <1>12 DEF Expand
<1>13. CASE Collapse
  BY <1>2, <1>10, <1>11, <1>13 DEF Collapse
<1>14. CASE ToggleAll
  <2>1. Fold(IF collapsed = {} THEN WithChildren ELSE {})
    BY <1>14 DEF ToggleAll
  <2>2. (IF collapsed = {} THEN WithChildren ELSE {}) \in SUBSET SampledPids
    BY <1>11
  <2>3. QED
    BY <1>10, <2>1, <2>2
<1>15. CASE UNCHANGED rowVars
  <2>1. UNCHANGED <<listed, sort, direction, tree, collapsed, built, fresh>>
    BY <1>15 DEF rowVars
  <2>2. TreeRows(listed)' = TreeRows(listed) /\ FlatRows(Range(listed))' = FlatRows(Range(listed))
    BY <2>1 DEF TreeRows, FlatRows, Sorted, VisitOrder, NextCall, Visit, RowOf, CallsBelow,
                Roots, Children
  <2>3. QED
    BY <1>1, <2>1, <2>2 DEF RowsInv, RowTypes, BuiltOfSample
<1>16. QED
  BY <1>3, <1>5, <1>6, <1>7, <1>8, <1>9, <1>12, <1>13, <1>14, <1>15 DEF RowsNext

LEMMA RowsAlways == RowsSpec => []RowsInv
<1>1. QED
  BY RowsInvInit, RowsInvNext, PTL DEF RowsSpec

\* What is above a listed process, and what is ordinary about it, as the
\* properties say it.
LEMMA TidyIs ==
  ASSUME tree, NEW p
  PROVE  Tidy(Range(listed), p) <=> Acyclic(p) /\ ~Folded(p)
BY DEF Tidy, Acyclic, Folded, Ancestors

LEMMA RowsInvSorted == RowsInv => RowsSorted
<1> SUFFICES ASSUME RowsInv PROVE RowsSorted
  OBVIOUS
<1> DEFINE S == Range(listed)
<1>1. RowTypes /\ Sorting /\ BuiltOfSample
  BY DEF RowsInv, RowTypes, Sorting
<1>2. CASE ~fresh \/ built = <<>>
  BY <1>1, <1>2 DEF RowsSorted, SiblingsSorted, MissingAtBottom
<1>3. CASE fresh /\ built # <<>>
  <2>1. listed \in Samples /\ built = IF tree THEN TreeRows(listed) ELSE FlatRows(S)
    BY <1>1, <1>3 DEF BuiltOfSample
  <2>2. CASE tree
    <3>1. built = TreeRows(listed)
      BY <2>1, <2>2
    <3>2. Listing(S) /\ OrderedSoFar(S, built) /\ built \in Seq(RowsFor(S))
      BY <1>1, <2>1, <3>1, TreeIsDrawn, SampleIsListing
    <3>3. ASSUME NEW i \in DOMAIN built, NEW j \in DOMAIN built, i < j,
                 Ancestors(At(i)) = Ancestors(At(j)),
                 \A k \in {i, j} : Acyclic(At(k)) /\ ~Folded(At(k))
          PROVE  SortLess(At(i), At(j), sort, direction)
      <4> DEFINE p == At(i)
                 q == At(j)
      <4>1. Tidy(S, p) /\ Tidy(S, q)
        BY <2>2, <3>3, TidyIs
      <4>2. AncestorsIn(S, p) = AncestorsIn(S, q)
        BY <3>3 DEF Ancestors
      <4>3. built[i] \in RowsFor(S) /\ built[j] \in RowsFor(S)
        BY <3>2
      <4>4. p \in S /\ q \in S
        BY <4>3 DEF At, RowsFor
      <4> HIDE DEF p, q
      <4>5. Siblings(S, p, q)
        BY <3>2, <4>1, <4>2, <4>4, SameAncestors DEF Siblings
      <4>6. Less(p, q)
        BY <3>2, <3>3, <4>1, <4>5 DEF OrderedSoFar, p, q, At
      <4>7. QED
        BY <4>6 DEF Less, p, q
    <3>4. SiblingsSorted
      <4> SUFFICES ASSUME NEW i \in DOMAIN built, NEW j \in DOMAIN built, i < j,
                          tree => /\ Ancestors(At(i)) = Ancestors(At(j))
                                  /\ \A k \in {i, j} : Acyclic(At(k)) /\ ~Folded(At(k))
                   PROVE  SortLess(At(i), At(j), sort, direction)
        BY DEF SiblingsSorted
      <4>1. /\ Ancestors(At(i)) = Ancestors(At(j))
            /\ \A k \in {i, j} : Acyclic(At(k)) /\ ~Folded(At(k))
        BY <2>2
      <4>2. QED
        BY <3>3, <4>1
    <3>5. MissingAtBottom
      BY <2>2 DEF MissingAtBottom
    <3>6. QED
      BY <1>1, <3>4, <3>5 DEF RowsSorted
  <2>3. CASE ~tree
    <3>1. built = FlatRows(S)
      BY <2>1, <2>3
    <3>2. /\ S \subseteq Processes /\ built \in Seq(RowsFor(S))
          /\ \A i, j \in DOMAIN built : i < j => Less(built[i].process, built[j].process)
      BY <1>1, <2>1, <3>1, FlatRowsAre, SampleIsListing DEF Listing
    <3>3. \A i, j \in DOMAIN built : i < j => SortLess(At(i), At(j), sort, direction)
      BY <3>2 DEF Less, At
    <3>4. SiblingsSorted
      BY <3>3 DEF SiblingsSorted
    <3>5. ASSUME NEW i \in DOMAIN built, NEW j \in DOMAIN built, i < j,
                 HasNoValue(At(i), sort), ~HasNoValue(At(j), sort)
          PROVE  FALSE
      <4> DEFINE p == At(i)
                 q == At(j)
      <4>1. built[i] \in RowsFor(S) /\ built[j] \in RowsFor(S)
        BY <3>2
      <4>2. p \in Processes /\ q \in Processes
        BY <3>2, <4>1 DEF At, RowsFor
      <4>3. SortLess(p, q, sort, direction)
        BY <3>3, <3>5
      <4>4. HasNoValue(p, sort) /\ ~HasNoValue(q, sort)
        BY <3>5
      <4>5. sort \in {"Io", "Power"} /\ sort \in Modes /\ direction \in Directions
        BY <1>1, <4>4 DEF HasNoValue, Sorting
      <4> HIDE DEF p, q
      <4>6. SortLess(q, p, sort, direction)
        BY <4>2, <4>4, <4>5, MissingSortsLast
      <4>7. QED
        BY <4>2, <4>3, <4>5, <4>6, SortLessAsymmetric
    <3>6. MissingAtBottom
      BY <3>5 DEF MissingAtBottom
    <3>7. QED
      BY <1>1, <3>4, <3>6 DEF RowsSorted
  <2>4. QED
    BY <2>2, <2>3
<1>4. QED
  BY <1>2, <1>3

\* std::sort and dfs: whatever processes a sample lists and whatever ids, parents
\* and values they have, the flat rows, the roots and the children of a process
\* are in strict order, those without a value last.
THEOREM RowsAreSorted == RowsSpec => []RowsSorted
<1>1. QED
  BY RowsAlways, RowsInvSorted, PTL

LEMMA RowsInvDrawn == RowsInv => TreeDrawn
<1> SUFFICES ASSUME RowsInv PROVE TreeDrawn
  OBVIOUS
<1> DEFINE S == Range(listed)
<1>1. RowTypes /\ Sorting /\ BuiltOfSample
  BY DEF RowsInv, RowTypes, Sorting
<1>2. CASE ~fresh
  BY <1>2 DEF TreeDrawn, EachOnce, UnderParent
<1>3. CASE listed = <<>> /\ built = <<>>
  <2>1. S = {} /\ DOMAIN built = {}
    BY <1>3 DEF Range
  <2>2. QED
    BY <2>1 DEF TreeDrawn, EachOnce, UnderParent
<1>4. CASE fresh /\ ~(listed = <<>> /\ built = <<>>)
  <2>1. listed \in Samples /\ built = IF tree THEN TreeRows(listed) ELSE FlatRows(S)
    BY <1>1, <1>4 DEF BuiltOfSample
  <2>2. tree \in BOOLEAN
    BY <1>1 DEF RowTypes
  <2>3. Once(built) /\ \A p \in S : IsDrawn(built, p)
    BY <1>1, <2>1, <2>2, BuiltIs
  <2>4. EachOnce
    BY <2>3 DEF EachOnce, Once, IsDrawn, At
  <2>5. ASSUME tree, NEW i \in DOMAIN built, Acyclic(At(i)), ~Folded(At(i))
        PROVE  /\ built[i].depth = Cardinality(Ancestors(At(i)))
               /\ built[i].depth > 0 =>
                    \E j \in 1..(i-1) :
                      /\ At(j).pid = At(i).parent
                      /\ \A k \in (j+1)..i : At(j) \in Ancestors(At(k))
    <3>1. built = TreeRows(listed)
      BY <2>1, <2>5
    <3>2. Listing(S) /\ Placed(S, built) /\ built \in Seq(RowsFor(S))
      BY <1>1, <2>1, <3>1, TreeIsDrawn, SampleIsListing
    <3>3. Tidy(S, built[i].process)
      BY <2>5, TidyIs DEF At
    <3>4. /\ built[i].depth = Cardinality(AncestorsIn(S, built[i].process))
          /\ \/ built[i].process \in Roots(S)
             \/ \E j \in 1..(i - 1) :
                  /\ IsParent(built[j].process, built[i].process)
                  /\ \A k \in (j + 1)..i : built[j].process \in AncestorsIn(S, built[k].process)
      BY <3>2, <3>3 DEF Placed
    <3>5. CASE built[i].process \in Roots(S)
      <4>1. AncestorsIn(S, built[i].process) = {}
        BY <3>2, <3>5, NoneAboveRoots
      <4>2. built[i].depth = 0
        BY <3>4, <4>1, FS_EmptySet
      <4>3. QED
        BY <3>4, <4>2 DEF At, Ancestors
    <3>6. CASE built[i].process \notin Roots(S)
      BY <3>4, <3>6 DEF At, Ancestors, IsParent
    <3>7. QED
      BY <3>5, <3>6
  <2>6. QED
    BY <2>4, <2>5 DEF TreeDrawn, UnderParent
<1>5. QED
  BY <1>2, <1>3, <1>4

\* build_process_rows: each listed process is drawn once, whatever its parents,
\* and the depth-first order puts what has an ordinary ancestry below its parent.
THEOREM TreesAreWhole == RowsSpec => []TreeDrawn
<1>1. QED
  BY RowsAlways, RowsInvDrawn, PTL

\* The - and * keys: what is newly collapsed is a row that is drawn with children.
THEOREM OnlyDrawnNodesCollapse == RowsSpec => CollapsesDrawnNodes
<1> DEFINE Shown == \A pid \in collapsed' \ collapsed :
                       \E i \in DOMAIN built : At(i).pid = pid /\ built[i].children
<1>1. \A pid \in WithChildren : \E i \in DOMAIN built : At(i).pid = pid /\ built[i].children
  BY DEF WithChildren, At
<1>2. ASSUME [RowsNext]_rowVars PROVE collapsed' \ collapsed \subseteq WithChildren
  <2>1. CASE Collapse
    BY <2>1 DEF Collapse, Fold
  <2>2. CASE ToggleAll
    BY <2>2 DEF ToggleAll, Fold
  <2>3. CASE Expand
    BY <2>3 DEF Expand, Fold
  <2>4. CASE BuildRows \/ PickColumn \/ NextColumn \/ Invert \/ SortClick \/ ToggleTreeMode
    BY <2>4 DEF BuildRows, PickColumn, NextColumn, SetSortMode, Invert, SortClick,
                ClickSortHeader, ToggleTreeMode
  <2>5. CASE UNCHANGED rowVars
    BY <2>5 DEF rowVars
  <2>6. QED
    BY <1>2, <2>1, <2>2, <2>3, <2>4, <2>5 DEF RowsNext
<1>3. [RowsNext]_rowVars => [Shown]_rowVars
  BY <1>1, <1>2
<1>4. QED
  BY <1>3, PTL DEF RowsSpec, CollapsesDrawnNodes
=============================================================================
