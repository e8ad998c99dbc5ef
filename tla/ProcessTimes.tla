---------------------------- MODULE ProcessTimes ----------------------------
(***************************************************************************)
(* The CPU share of a process: DarwinSampler::sample_processes (src/       *)
(* platform/darwin_sampler.cpp) lists the processes, reads the CPU time of *)
(* each and divides its growth by the time since the last call.  Ids are   *)
(* reused, a process can be unreadable or beyond the 4096 ids the buffer   *)
(* holds, and the listing itself can fail.  Calls are one interval apart,  *)
(* so a share is the time grown.                                           *)
(***************************************************************************)
EXTENDS Integers

CONSTANTS
  Pids,     \* process ids
  MaxTime,  \* bound on the CPU time of a process
  NoProcess \* no process has the id

ASSUME PidAssumption == NoProcess \notin Nat /\ MaxTime \in Nat

VARIABLES
  used,          \* the kernel's CPU time of the process that has an id
  listedOnce,    \* last_process_sample_time_ is set
  previousTimes, \* previous_process_times_
  rows,          \* snapshot_.processes: the share and the total shown
  sinceCall,     \* history: what the process used since the last call
  sinceList,     \* history: ... since the last call that got a list
  spentCall,     \* history: sinceCall at the last call
  spentList,     \* history: sinceList at the last call
  lists,         \* history: whether the last two calls got a list, oldest first
  watched,       \* history: read by the last call and not gone since
  followed       \* history: watched and read again by the last call

samplerTimes == <<listedOnce, previousTimes, rows>>
callTimes == <<spentCall, spentList, lists, followed>>
timeVars == <<used, samplerTimes, sinceCall, sinceList, callTimes, watched>>

Alive == {p \in Pids : used[p] # NoProcess}
Nothing == [p \in Pids |-> 0]
NoRows == [p \in {} |-> 0]

TimesInit ==
  /\ used \in [Pids -> 0..MaxTime \cup {NoProcess}]
  /\ listedOnce = FALSE
  /\ previousTimes = NoRows
  /\ rows = NoRows
  /\ sinceCall = Nothing /\ sinceList = Nothing
  /\ spentCall = Nothing /\ spentList = Nothing
  /\ lists = <<FALSE, FALSE>>
  /\ watched = {} /\ followed = {}

-----------------------------------------------------------------------------
(***************************************************************************)
(* The machine.                                                            *)
(***************************************************************************)

Work(p) ==
  /\ p \in Alive
  /\ used[p] < MaxTime
  /\ used' = [used EXCEPT ![p] = @ + 1]
  /\ sinceCall' = [sinceCall EXCEPT ![p] = @ + 1]
  /\ sinceList' = [sinceList EXCEPT ![p] = @ + 1]
  /\ UNCHANGED <<samplerTimes, callTimes, watched>>

Exit(p) ==
  /\ p \in Alive
  /\ used' = [used EXCEPT ![p] = NoProcess]
  /\ watched' = watched \ {p}
  /\ UNCHANGED <<samplerTimes, callTimes, sinceCall, sinceList>>

\* A new process, perhaps under the id of one that is gone.
Start(p) ==
  /\ p \in Pids \ Alive
  /\ used' = [used EXCEPT ![p] = 0]
  /\ sinceCall' = [sinceCall EXCEPT ![p] = 0]
  /\ sinceList' = [sinceList EXCEPT ![p] = 0]
  /\ UNCHANGED <<samplerTimes, callTimes, watched>>

-----------------------------------------------------------------------------
(***************************************************************************)
(* sample_processes.                                                       *)
(***************************************************************************)

\* Mutant of Share: a total below the one stored is subtracted all the same.
ShareUnguarded(p) ==
  IF listedOnce /\ p \in DOMAIN previousTimes
    THEN (used[p] - previousTimes[p]) % (2 ^ 20) ELSE 0

\* cpu_percent.
Share(p) ==
  IF listedOnce /\ p \in DOMAIN previousTimes /\ used[p] >= previousTimes[p]
    THEN used[p] - previousTimes[p] ELSE 0

\* Mutant of TimesKept: ids that were not read this time are not erased.
TimesNeverErased(read) ==
  [p \in read \cup DOMAIN previousTimes |->
     IF p \in read THEN used[p] ELSE previousTimes[p]]

\* Mutant of TimesKept: insert() instead of an assignment.
TimesInserted(read) ==
  [p \in read |-> IF p \in DOMAIN previousTimes THEN previousTimes[p] ELSE used[p]]

\* What previous_process_times_ holds once read was stored and the ids that
\* are not live were erased.
TimesKept(read) == [p \in read |-> used[p]]

Called(got) ==
  /\ listedOnce' = TRUE
  /\ spentCall' = sinceCall
  /\ spentList' = sinceList
  /\ lists' = <<lists[2], got>>
  /\ sinceCall' = Nothing
  /\ UNCHANGED used

\* The processes in read were listed and could be read.
List(read) ==
  /\ read \subseteq Alive
  /\ rows' = [p \in read |-> [cpu |-> Share(p), total |-> used[p]]]
  /\ previousTimes' = TimesKept(read)
  /\ Called(TRUE)
  /\ sinceList' = Nothing
  /\ followed' = watched \cap read
  /\ watched' = read

\* proc_listpids fails: the time is noted, the CPU times stay.
ListFails ==
  /\ rows' = NoRows
  /\ Called(FALSE)
  /\ followed' = {}
  /\ watched' = {}
  /\ UNCHANGED <<previousTimes, sinceList>>

TimesNext ==
  \/ \E p \in Pids : Work(p)
  \/ \E p \in Pids : Exit(p)
  \/ \E p \in Pids : Start(p)
  \/ \E read \in SUBSET Pids : List(read)
  \/ ListFails

TimesSpec == TimesInit /\ [][TimesNext]_timeVars

-----------------------------------------------------------------------------
(***************************************************************************)
(* Properties.                                                             *)
(***************************************************************************)

\* The values each variable takes.
TimesTypeOK ==
  /\ used \in [Pids -> Nat \cup {NoProcess}]
  /\ listedOnce \in BOOLEAN
  /\ DOMAIN previousTimes \subseteq Pids
  /\ \A p \in DOMAIN previousTimes : previousTimes[p] \in Nat
  /\ DOMAIN rows \subseteq Pids
  /\ \A p \in DOMAIN rows : rows[p] \in [cpu : Nat, total : Nat]
  /\ sinceCall \in [Pids -> Nat] /\ sinceList \in [Pids -> Nat]
  /\ spentCall \in [Pids -> Nat] /\ spentList \in [Pids -> Nat]
  /\ lists \in BOOLEAN \X BOOLEAN
  /\ watched \subseteq Alive
  /\ followed \subseteq DOMAIN rows

\* A process that was read by two calls in a row without a failed listing in
\* between is shown with exactly the time it used between them.
ShareExact == \A p \in followed : rows[p].cpu = spentCall[p]

\* No process is charged for another: whoever had the id before, and however
\* often it was unreadable, the share is no more than the process itself used
\* since the last call.  Only after a failed listing can it be more, for the
\* time then counts from the last list and is divided by one interval.
ShareNotOverstated ==
  \A p \in DOMAIN rows :
    /\ rows[p].cpu <= spentList[p]
    /\ lists[1] => rows[p].cpu <= spentCall[p]
=============================================================================
