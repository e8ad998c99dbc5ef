--------------------------- MODULE CommandRunner ---------------------------
(***************************************************************************)
(* run_command_capture_result (src/platform/darwin_sampler.cpp): one call, *)
(* the child it spawns and the pipe between them.  The runner polls the    *)
(* pipe and waitpid every 20 ms; the child writes, closes its end, exits   *)
(* or dies between any two of those system calls.  Text is a count of      *)
(* chunks.                                                                 *)
(***************************************************************************)
EXTENDS Naturals, CommandResult

CONSTANTS
  MaxOutput,    \* chunks a child writes at most (bound: output is finite)
  PipeCapacity, \* chunks the pipe holds before a writer blocks
  TermPolls     \* waitpid polls between SIGTERM and SIGKILL; 10 in the code

ASSUME RunnerAssumption ==
  /\ MaxOutput \in Nat
  /\ PipeCapacity \in Nat \ {0}
  /\ TermPolls \in Nat

VARIABLES
  pc,        \* the runner's next system call
  result,    \* CommandResult result, filled in as the call proceeds
  status,    \* int status = 0: what waitpid stored, "exit0" until it does
  childDone, \* bool child_done
  polls,     \* i of the SIGTERM loop
  expired,   \* steady_clock::now() >= deadline
  got,       \* chunks appended to result.output
  written,   \* chunks the child has written to the pipe
  child,     \* "none", "running", "zombie" or "reaped"
  stdoutOpen,\* the child still holds the pipe's write end
  exitStatus,\* how the child ended
  autoReap   \* SIGCHLD was inherited as ignored: the kernel reaps at once

runnerVars == <<pc, result, status, childDone, polls, got>>
childVars  == <<written, child, stdoutOpen, exitStatus>>
vars == <<runnerVars, childVars, expired, autoReap>>

ExitStatuses == {"exit0", "exit1", "exitN", "signal"}

Init ==
  /\ pc = "spawn"
  /\ result = EmptyResult
  /\ status = "exit0"
  /\ childDone = FALSE
  /\ polls = 0
  /\ got = 0
  /\ written = 0
  /\ child = "none"
  /\ stdoutOpen = FALSE
  /\ exitStatus = "exit0"
  /\ expired = FALSE
  /\ autoReap \in BOOLEAN

-----------------------------------------------------------------------------
(***************************************************************************)
(* The runner.                                                             *)
(***************************************************************************)

SpawnFails ==
  /\ pc = "spawn"
  /\ \E why \in SpawnReasons : result' = [result EXCEPT !.reason = why]
  /\ pc' = "done"
  /\ UNCHANGED <<status, childDone, polls, got, childVars, expired, autoReap>>

Spawn ==
  /\ pc = "spawn"
  /\ pc' = "read"
  /\ child' = "running"
  /\ stdoutOpen' = TRUE
  /\ UNCHANGED <<result, status, childDone, polls, got, written, exitStatus,
                 expired, autoReap>>

\* read() > 0, in the polling loop or in the final drain.
ReadChunk ==
  /\ pc \in {"read", "drain"}
  /\ got < written
  /\ got' = got + 1
  /\ UNCHANGED <<pc, result, status, childDone, polls, childVars, expired,
                 autoReap>>

\* read() <= 0 in the polling loop: 0 at end of file sets child_done, EAGAIN
\* does not.
ReadStops ==
  /\ pc = "read"
  /\ got = written
  /\ childDone' = ~stdoutOpen
  /\ pc' = "wait"
  /\ UNCHANGED <<result, status, polls, got, childVars, expired, autoReap>>

\* waitpid(WNOHANG) == pid, in the loop, after SIGTERM, or the blocking wait
\* after SIGKILL.
Reaped ==
  /\ child = "zombie"
  /\ child' = "reaped"
  /\ status' = exitStatus
  /\ childDone' = TRUE
  /\ pc' = "drain"
  /\ UNCHANGED <<polls, got, written, stdoutOpen, exitStatus, expired, autoReap>>

WaitReaps ==
  /\ pc = "wait"
  /\ Reaped
  /\ UNCHANGED result

\* wait_rc < 0: no child left to wait for.
WaitFails ==
  /\ pc = "wait"
  /\ child = "reaped"
  /\ result' = [result EXCEPT !.reason = WaitReason]
  /\ pc' = "drain"
  /\ UNCHANGED <<status, childDone, polls, got, childVars, expired, autoReap>>

\* wait_rc == 0: an end of file already seen ends the loop, the child unreaped.
WaitFindsRunning ==
  /\ pc = "wait"
  /\ child = "running"
  /\ pc' = IF childDone THEN "drain" ELSE "deadline"
  /\ UNCHANGED <<result, status, childDone, polls, got, childVars, expired,
                 autoReap>>

SleepAndPoll ==
  /\ pc = "deadline"
  /\ ~expired
  /\ pc' = "read"
  /\ UNCHANGED <<result, status, childDone, polls, got, childVars, expired,
                 autoReap>>

SendTerm ==
  /\ pc = "deadline"
  /\ expired
  /\ result' = [result EXCEPT !.timed_out = TRUE, !.reason = "timeout"]
  /\ pc' = "term"
  /\ UNCHANGED <<status, childDone, polls, got, childVars, expired, autoReap>>

\* Mutant of TermReaps: the loop goes on after reaping, and SIGKILL follows.
TermReapsWithoutBreak ==
  /\ pc = "term"
  /\ polls < TermPolls
  /\ child = "zombie"
  /\ child' = "reaped"
  /\ status' = exitStatus
  /\ polls' = TermPolls
  /\ UNCHANGED <<pc, result, childDone, got, written, stdoutOpen, exitStatus,
                 expired, autoReap>>

TermReaps ==
  /\ pc = "term"
  /\ polls < TermPolls
  /\ Reaped
  /\ UNCHANGED result

\* Mutants of TermPollMisses: one poll too many; a wait for SIGTERM alone.
TermPollsOnceMore ==
  /\ pc = "term"
  /\ polls <= TermPolls
  /\ child # "zombie"
  /\ polls' = polls + 1
  /\ UNCHANGED <<pc, result, status, childDone, got, childVars, expired,
                 autoReap>>

TermPollsForever ==
  /\ pc = "term"
  /\ polls < TermPolls
  /\ child # "zombie"
  /\ UNCHANGED vars

TermPollMisses ==
  /\ pc = "term"
  /\ polls < TermPolls
  /\ child # "zombie"
  /\ polls' = polls + 1
  /\ UNCHANGED <<pc, result, status, childDone, got, childVars, expired,
                 autoReap>>

\* Mutant of SendKill: no waitpid after the kill.
SendKillWithoutWait ==
  /\ pc = "term"
  /\ polls = TermPolls
  /\ pc' = "drain"
  /\ UNCHANGED <<result, status, childDone, polls, got, childVars, expired,
                 autoReap>>

SendKill ==
  /\ pc = "term"
  /\ polls = TermPolls
  /\ pc' = "reap"
  /\ UNCHANGED <<result, status, childDone, polls, got, childVars, expired,
                 autoReap>>

BlockingWait ==
  /\ pc = "reap"
  /\ \/ Reaped
     \/ /\ child = "reaped"
        /\ pc' = "drain"
        /\ UNCHANGED <<status, childDone, polls, got, childVars, expired,
                       autoReap>>
  /\ UNCHANGED result

\* Mutant of DrainStops: close() without the final reads.
CloseWithoutDrain ==
  /\ pc = "drain"
  /\ pc' = "classify"
  /\ UNCHANGED <<result, status, childDone, polls, got, childVars, expired,
                 autoReap>>

\* read() <= 0 in the final drain, then close().
DrainStops ==
  /\ pc = "drain"
  /\ got = written
  /\ pc' = "classify"
  /\ UNCHANGED <<result, status, childDone, polls, got, childVars, expired,
                 autoReap>>

\* Mutant of Verdict: WEXITSTATUS without WIFEXITED.
VerdictWithoutIfExited(r, s) ==
  CASE s = "exit1"            -> [r EXCEPT !.reason = "command failed"]
    [] s = "exitN"            -> [r EXCEPT !.reason = "exit N"]
    [] s \in {"exit0", "signal"} -> [r EXCEPT !.ok = TRUE]

\* The verdict on a call that did not time out.
Verdict(r, s) ==
  CASE s = "signal" -> [r EXCEPT !.reason = "terminated"]
    [] s = "exit1"  -> [r EXCEPT !.reason = "command failed"]
    [] s = "exitN"  -> [r EXCEPT !.reason = "exit N"]
    [] s = "exit0"  -> [r EXCEPT !.ok = TRUE]

\* Mutant of Classify: a timed-out call is classified by its exit status too.
ClassifyTimeoutToo ==
  /\ pc = "classify"
  /\ result' = Verdict(result, status)
  /\ pc' = "done"
  /\ UNCHANGED <<status, childDone, polls, got, childVars, expired, autoReap>>

Classify ==
  /\ pc = "classify"
  /\ result' = IF result.timed_out THEN result ELSE Verdict(result, status)
  /\ pc' = "done"
  /\ UNCHANGED <<status, childDone, polls, got, childVars, expired, autoReap>>

Runner ==
  \/ SpawnFails \/ Spawn \/ ReadChunk \/ ReadStops
  \/ WaitReaps \/ WaitFails \/ WaitFindsRunning
  \/ SleepAndPoll \/ SendTerm \/ TermReaps \/ TermPollMisses
  \/ SendKill \/ BlockingWait \/ DrainStops \/ Classify

-----------------------------------------------------------------------------
(***************************************************************************)
(* The child and the clock.                                                *)
(***************************************************************************)

ChildWrites ==
  /\ child = "running"
  /\ stdoutOpen
  /\ written < MaxOutput
  /\ written - got < PipeCapacity
  /\ written' = written + 1
  /\ UNCHANGED <<runnerVars, child, stdoutOpen, exitStatus, expired, autoReap>>

\* On its own account, or as the kernel closes files before the process
\* becomes waitable.
ChildClosesStdout ==
  /\ child = "running"
  /\ stdoutOpen
  /\ stdoutOpen' = FALSE
  /\ UNCHANGED <<runnerVars, written, child, exitStatus, expired, autoReap>>

ChildEnds(how) ==
  /\ child = "running"
  /\ child' = IF autoReap THEN "reaped" ELSE "zombie"
  /\ stdoutOpen' = FALSE
  /\ exitStatus' = how
  /\ UNCHANGED <<runnerVars, written, expired, autoReap>>

\* A child may ignore SIGTERM but not SIGKILL.
ChildKilled == pc = "reap" /\ ChildEnds("signal")

DeadlinePasses ==
  /\ child # "none"
  /\ ~expired
  /\ expired' = TRUE
  /\ UNCHANGED <<runnerVars, childVars, autoReap>>

Returned == pc = "done" /\ UNCHANGED vars

Next ==
  \/ Runner
  \/ ChildWrites \/ ChildClosesStdout
  \/ \E how \in ExitStatuses : ChildEnds(how)
  \/ DeadlinePasses
  \/ Returned

\* The thread runs, time passes, and SIGKILL is obeyed; nothing is assumed of
\* a child before that: it need not write, close or exit.
Fairness == WF_vars(Runner) /\ WF_vars(DeadlinePasses) /\ WF_vars(ChildKilled)

Spec == Init /\ [][Next]_vars /\ Fairness

-----------------------------------------------------------------------------
(***************************************************************************)
(* Properties.                                                             *)
(***************************************************************************)

\* The values each variable takes.
TypeOK ==
  /\ pc \in {"spawn", "read", "wait", "deadline", "term", "reap", "drain",
             "classify", "done"}
  /\ result \in ResultRecords
  /\ status \in ExitStatuses
  /\ childDone \in BOOLEAN
  /\ polls \in 0..TermPolls
  /\ expired \in BOOLEAN
  /\ written \in 0..MaxOutput
  /\ got \in 0..written
  /\ child \in {"none", "running", "zombie", "reaped"}
  /\ stdoutOpen \in BOOLEAN
  /\ exitStatus \in ExitStatuses
  /\ autoReap \in BOOLEAN

Finished == pc = "done"

\* A finished call has captured every chunk its child wrote, also what was
\* written between the last poll and the exit, and nothing can follow: the
\* final drain before close() is what parse_amp_data relies on.
OutputComplete == Finished => got = written /\ ~stdoutOpen

\* The status word is the child's own only if this call has reaped it.
ReapedHere == child = "reaped" /\ ~autoReap

\* What ok says of a call whose child was started and that did not time out.
\* Of a child the call has reaped: it exited with status 0, so a killed or
\* failed child that was reaped is never taken for a success.  Of any other,
\* one that was seen to close its output before it ended or that the kernel
\* reaped: nothing.  ok is TRUE however it ends, for the status word still
\* holds the 0 it was declared with.
VerdictOfReapedChild ==
  (Finished /\ child # "none") =>
    (result.ok <=> (~result.timed_out /\ (ReapedHere => exitStatus = "exit0")))

\* A child outlives the call unreaped only when the runner saw end of file
\* before the exit; a call that timed out never leaves one behind.
OnlyEofLeavesChild ==
  (Finished /\ child \in {"running", "zombie"}) =>
    (childDone /\ ~result.timed_out)

\* kill() never aims at a process id this call no longer owns (a reaped id may
\* already belong to another process), unless SIGCHLD was inherited ignored.
SignalsOwnChild ==
  [][pc' # pc /\ pc' \in {"term", "reap"} =>
       child \in {"running", "zombie"} \/ autoReap]_vars

\* How far a caller may trust ok and timed_out of a finished call: a failure
\* or a timeout it reports is one, a timed-out child is gone, and ok vouches for
\* the exit status only of a child that was reaped.
VerdictAccounted == TypeOK /\ VerdictOfReapedChild /\ OnlyEofLeavesChild

\* The promise of CommandCall, with the result hidden until the call returns:
\* one answer of the contract, and whatever the child does, it comes; the
\* collector thread that runs powermetrics cannot hang in the call.
Call == INSTANCE CommandCall WITH
          returned <- Finished,
          answer   <- IF Finished THEN result ELSE EmptyResult
ImplementsCall == Call!CallSpec
=============================================================================
