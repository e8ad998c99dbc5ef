-------------------------- MODULE SnapshotSession --------------------------
(***************************************************************************)
(* run_snapshot_mode (src/main.cpp): samples written as JSON lines, as a   *)
(* session or bare, until a count is reached or a signal asks it to stop.  *)
(* SIGINT and SIGTERM may arrive between any two steps; any write may      *)
(* fail.  A line is the name of its event.                                 *)
(***************************************************************************)
EXTENDS Integers, Sequences, SequencesExt

CONSTANTS
  Counts,      \* values of --count
  MaxSamples,  \* bound on what an endless loop emits
  None         \* an option that was not given

Signals == {"INT", "TERM"}

ASSUME SessionAssumption ==
  /\ Counts \subseteq Int
  /\ MaxSamples \in Nat \ {0}
  /\ None \notin Int /\ None \notin Signals \cup {"PIPE"}

Options ==
  [json : BOOLEAN, file : BOOLEAN, session : BOOLEAN, loop : BOOLEAN,
   count : Counts \cup {None}]

VARIABLES
  opt,         \* RuntimeOptions
  pc,          \* the next step of run_snapshot_mode
  armed,       \* signals with handle_snapshot_signal installed
  interrupted, \* g_snapshot_interrupted
  emitted,     \* snapshots handed to the stream
  good,        \* the stream has had no failure: badbit is clear
  out,         \* lines that reached the output
  rc,          \* exit code; None until the function returns
  allowed,     \* history: emitted when the first signal was handled, the sample
               \* then being taken included
  killedBy     \* history: what killed the process

vars == <<opt, pc, armed, interrupted, emitted, good, out, rc, allowed, killedBy>>

\* Mutant of LoopForever: --loop loops whatever --count says.
LoopAlways == opt.loop

LoopForever == opt.loop /\ opt.count = None

\* Mutant of Count: a count below one is taken as it is.
CountUnclamped == IF opt.count = None THEN 1 ELSE opt.count

Count == IF opt.count = None THEN 1 ELSE IF opt.count < 1 THEN 1 ELSE opt.count

Init ==
  /\ opt \in Options
  /\ pc = "open"
  /\ armed = {}
  /\ interrupted = FALSE
  /\ emitted = 0
  /\ good = TRUE
  /\ out = <<>>
  /\ rc = None
  /\ allowed = None
  /\ killedBy = None

-----------------------------------------------------------------------------
(***************************************************************************)
(* The function.                                                           *)
(***************************************************************************)

Return(code) ==
  /\ pc' = "done"
  /\ rc' = code

BadFormat ==
  /\ pc = "open"
  /\ ~opt.json
  /\ Return(2)
  /\ UNCHANGED <<opt, armed, interrupted, emitted, good, out, allowed, killedBy>>

OpenFails ==
  /\ pc = "open"
  /\ opt.json /\ opt.file
  /\ Return(1)
  /\ UNCHANGED <<opt, armed, interrupted, emitted, good, out, allowed, killedBy>>

Open ==
  /\ pc = "open"
  /\ opt.json
  /\ pc' = "armInt"
  /\ UNCHANGED <<opt, armed, interrupted, emitted, good, out, rc, allowed, killedBy>>

ArmInt ==
  /\ pc = "armInt"
  /\ armed' = {"INT"}
  /\ pc' = "armTerm"
  /\ UNCHANGED <<opt, interrupted, emitted, good, out, rc, allowed, killedBy>>

ArmTerm ==
  /\ pc = "armTerm"
  /\ armed' = Signals
  /\ pc' = IF opt.session THEN "start" ELSE "test"
  /\ UNCHANGED <<opt, interrupted, emitted, good, out, rc, allowed, killedBy>>

\* Mutant of Put: every write is tried, whatever became of the ones before.
PutAgain(line) ==
  \/ good' = good /\ out' = Append(out, line) /\ UNCHANGED killedBy
  \/ good' = FALSE /\ UNCHANGED <<out, killedBy>>

\* *output << line << '\n', and flush().  A stream that failed once writes
\* nothing more.
Put(line) ==
  \/ good /\ good' = TRUE /\ out' = Append(out, line) /\ UNCHANGED killedBy
  \/ good' = FALSE /\ UNCHANGED <<out, killedBy>>

\* Standard output is a pipe nobody reads: SIGPIPE.
BrokenPipe ==
  /\ pc \in {"start", "emit", "end"}
  /\ ~opt.file /\ good
  /\ pc' = "killed"
  /\ killedBy' = "PIPE"
  /\ UNCHANGED <<opt, armed, interrupted, emitted, good, out, rc, allowed>>

WriteStart ==
  /\ pc = "start"
  /\ Put("session_start")
  /\ pc' = "test"
  /\ UNCHANGED <<opt, armed, interrupted, emitted, rc, allowed>>

Enough == emitted >= Count /\ ~LoopForever

\* Mutant of LoopEnds: the loop runs on to its count.
LoopEndsOnCount == Enough

\* The loop condition fails.
LoopEnds == interrupted \/ Enough

LeaveLoop ==
  /\ pc = "test"
  /\ LoopEnds
  /\ pc' = IF opt.session THEN "end" ELSE "restoreInt"
  /\ UNCHANGED <<opt, armed, interrupted, emitted, good, out, rc, allowed, killedBy>>

\* sampler.sample() and the text.
Sample ==
  /\ pc = "test"
  /\ ~LoopEnds
  /\ emitted < MaxSamples
  /\ pc' = "emit"
  /\ UNCHANGED <<opt, armed, interrupted, emitted, good, out, rc, allowed, killedBy>>

Emit ==
  /\ pc = "emit"
  /\ Put("snapshot")
  /\ emitted' = emitted + 1
  /\ pc' = "check"
  /\ UNCHANGED <<opt, armed, interrupted, rc, allowed>>

\* The two tests after an emission.
Break ==
  \/ interrupted
  \/ ~opt.loop /\ opt.count = None
  \/ Enough

Check ==
  /\ pc = "check"
  /\ pc' = IF ~Break THEN "sleep" ELSE IF opt.session THEN "end" ELSE "restoreInt"
  /\ UNCHANGED <<opt, armed, interrupted, emitted, good, out, rc, allowed, killedBy>>

\* Mutant of Sleep: a session starts anew with every sample.
SleepRestarts ==
  /\ pc = "sleep"
  /\ pc' = IF opt.session THEN "start" ELSE "test"
  /\ UNCHANGED <<opt, armed, interrupted, emitted, good, out, rc, allowed, killedBy>>

\* sleep_for sleeps on when a signal interrupts it.
Sleep ==
  /\ pc = "sleep"
  /\ pc' = "test"
  /\ UNCHANGED <<opt, armed, interrupted, emitted, good, out, rc, allowed, killedBy>>

\* Mutant of WriteEnd: the handlers are restored before the last line.
WriteEndUnarmed ==
  \/ /\ pc = "end"
     /\ armed # {}
     /\ armed' = {}
     /\ UNCHANGED <<opt, pc, interrupted, emitted, good, out, rc, allowed, killedBy>>
  \/ /\ pc = "end"
     /\ armed = {}
     /\ Put("session_end")
     /\ pc' = "restoreInt"
     /\ UNCHANGED <<opt, armed, interrupted, emitted, rc, allowed>>

WriteEnd ==
  /\ pc = "end"
  /\ Put("session_end")
  /\ pc' = "restoreInt"
  /\ UNCHANGED <<opt, armed, interrupted, emitted, rc, allowed>>

RestoreInt ==
  /\ pc = "restoreInt"
  /\ armed' = armed \ {"INT"}
  /\ pc' = "restoreTerm"
  /\ UNCHANGED <<opt, interrupted, emitted, good, out, rc, allowed, killedBy>>

RestoreTerm ==
  /\ pc = "restoreTerm"
  /\ armed' = {}
  /\ pc' = "return"
  /\ UNCHANGED <<opt, interrupted, emitted, good, out, rc, allowed, killedBy>>

Finish ==
  /\ pc = "return"
  /\ Return(IF interrupted THEN 130 ELSE 0)
  /\ UNCHANGED <<opt, armed, interrupted, emitted, good, out, allowed, killedBy>>

Function ==
  \/ BadFormat \/ OpenFails \/ Open \/ ArmInt \/ ArmTerm \/ WriteStart
  \/ LeaveLoop \/ Sample \/ Emit \/ Check \/ Sleep \/ WriteEnd
  \/ RestoreInt \/ RestoreTerm \/ Finish

-----------------------------------------------------------------------------
(***************************************************************************)
(* Signals: the handler sets the flag; without it the process dies.        *)
(***************************************************************************)

Running == pc \notin {"done", "killed"}

Handled(sig) ==
  /\ Running
  /\ sig \in armed
  /\ interrupted' = TRUE
  /\ allowed' = IF interrupted THEN allowed
                ELSE IF pc = "emit" THEN emitted + 1 ELSE emitted
  /\ UNCHANGED <<opt, pc, armed, emitted, good, out, rc, killedBy>>

Deadly(sig) ==
  /\ Running
  /\ sig \notin armed
  /\ pc' = "killed"
  /\ killedBy' = sig
  /\ UNCHANGED <<opt, armed, interrupted, emitted, good, out, rc, allowed>>

Ended == ~Running /\ UNCHANGED vars

Next ==
  \/ Function
  \/ BrokenPipe
  \/ \E sig \in Signals : Handled(sig) \/ Deadly(sig)
  \/ Ended

\* The thread runs, sample() and the sleep return; no signal need come.
Spec == Init /\ [][Next]_vars /\ WF_vars(Function)

-----------------------------------------------------------------------------
(***************************************************************************)
(* Properties.                                                             *)
(***************************************************************************)

\* The values each variable takes.
TypeOK ==
  /\ opt \in Options
  /\ pc \in {"open", "armInt", "armTerm", "start", "test", "emit", "check", "sleep",
             "end", "restoreInt", "restoreTerm", "return", "done", "killed"}
  /\ armed \subseteq Signals
  /\ interrupted \in BOOLEAN
  /\ emitted \in 0..MaxSamples
  /\ good \in BOOLEAN
  /\ out \in BoundedSeq({"session_start", "snapshot", "session_end"}, MaxSamples + 2)
  /\ rc \in {None, 0, 1, 2, 130}
  /\ allowed \in 0..MaxSamples \cup {None}
  /\ killedBy \in Signals \cup {"PIPE", None}

\* At every moment, whatever failed, what has been written is the beginning of
\* a well-formed output: session_start first and only first, then snapshots,
\* session_end last and only last; without --session, snapshots alone.
StreamShape ==
  \A i \in DOMAIN out :
    /\ out[i] = "session_start" <=> opt.session /\ i = 1
    /\ out[i] = "session_end" => opt.session /\ i = Len(out)

\* The whole output: the number of snapshots asked for, which is --count, at
\* least one, or one; and of a session the last line.
AllWritten ==
  /\ Cardinality({i \in DOMAIN out : out[i] = "snapshot"})
       = IF opt.count = None THEN 1 ELSE Max({1, opt.count})
  /\ opt.session => out # <<>> /\ Last(out) = "session_end"

\* An exit code of 0 means that the whole output was written, if no write failed;
\* an endless loop never ends in one.
CompleteUnlessWriteFailed == (rc = 0 /\ good) => AllWritten /\ (opt.loop => opt.count # None)

\* After a signal no more is written than the snapshot being sampled when it
\* came, wherever in the loop that was.
StopsPromptly == interrupted => emitted <= allowed

\* SIGINT or SIGTERM never leaves a session without its session_end: where the
\* handlers are not installed, the process dies before the first line or after
\* the last.  A returning call has written both.
NoHalfSession ==
  (opt.session /\ good /\ (killedBy \in Signals \/ rc \in {0, 130})) =>
    \/ out = <<>> /\ rc = None
    \/ out # <<>> /\ Last(out) = "session_end"

\* A signal ends the program; without one, every output but an endless loop's
\* ends by itself.
Terminates ==
  /\ interrupted ~> ~Running
  /\ <>(~Running \/ (opt.loop /\ opt.count = None))

\* Whatever fails, the output is the beginning of a well-formed one; it is all that
\* was asked for if the exit code is 0 and no write has failed.  A line that could
\* not be written does not show in the exit code.
OutputWellFormed == TypeOK /\ StreamShape /\ CompleteUnlessWriteFailed

\* A signal ends a session at once and with its last line, or before the first.
SignalsEndWell == StopsPromptly /\ NoHalfSession
=============================================================================
