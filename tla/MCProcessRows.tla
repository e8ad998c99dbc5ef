--------------------------- MODULE MCProcessRows ---------------------------
(***************************************************************************)
(* ProcessRows for TLC: four processes that tie and differ in every column *)
(* and miss values, as chains, siblings, orphans, and cycles of parents.   *)
(***************************************************************************)
EXTENDS ProcessRows

Scored(a, b) == [kind |-> "number", first |-> a, second |-> b]
NoText == [kind |-> "missing", first |-> 0, second |-> 0]
Overflow == [kind |-> "infinite", first |-> 0, second |-> 0]

P1(up) == [pid |-> 1, parent |-> up, cpu |-> 2, mem |-> 1, time |-> 9, name |-> 3,
           gpu |-> TRUE, io |-> NoText, power |-> Scored(0, 0)]
P2(up) == [pid |-> 2, parent |-> up, cpu |-> 2, mem |-> 1, time |-> 7, name |-> 1,
           gpu |-> FALSE, io |-> Scored(1, 2), power |-> NoText]
P3(up) == [pid |-> 3, parent |-> up, cpu |-> 0, mem |-> 1, time |-> 7, name |-> 3,
           gpu |-> TRUE, io |-> Scored(3, 0), power |-> Scored(4, 0)]
P4(up) == [pid |-> 4, parent |-> up, cpu |-> 3, mem |-> 2, time |-> 8, name |-> 2,
           gpu |-> FALSE, io |-> Scored(0, 0), power |-> Overflow]

MCSamples ==
  { <<P1(0), P2(1), P3(2), P4(2)>>,  \* a chain that ends in siblings
    <<P3(4), P1(4), P4(0), P2(4)>>,  \* siblings below one root
    <<P4(3), P1(2), P2(1), P3(1)>>,  \* a cycle with a child and a grandchild
    <<P2(2), P3(4), P4(9)>>,         \* its own parent; an orphan with a child
    <<>> }
=============================================================================
