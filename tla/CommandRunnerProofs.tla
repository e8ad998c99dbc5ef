------------------------ MODULE CommandRunnerProofs ------------------------
(***************************************************************************)
(* Proofs about CommandRunner: what a caller of run_command_capture_result *)
(* gets, for any amount of output, any pipe, any number of polls and       *)
(* whatever the child does.                                                *)
(***************************************************************************)
EXTENDS CommandRunner, TLAPS

\* A result not filled in yet, but perhaps for a failed wait; that of a timeout.
Blank(r) == ~r.ok /\ ~r.timed_out /\ r.reason \in {NoReason, WaitReason}
TimedOut(r) == ~r.ok /\ r.timed_out /\ r.reason = "timeout"

Polling == {"read", "wait", "deadline"}
Stopping == {"term", "reap"}
Leaving == {"drain", "classify"}

(***************************************************************************)
(* Why the final drain misses nothing: whoever leaves the loop has seen    *)
(* the end of the output or the end of the child, and either means that    *)
(* the pipe has no writer any more.                                        *)
(***************************************************************************)
PipeInv ==
  /\ child \in {"none", "zombie", "reaped"} => ~stdoutOpen
  /\ childDone => ~stdoutOpen
  /\ pc \in Leaving \cup {"done"} => ~stdoutOpen
  /\ pc \in {"classify", "done"} => got = written

\* Whose the child is: only the kernel reaps one the call still waits for, and
\* the call leaves one behind only at the end of its output.
ChildInv ==
  /\ child = "none" => pc \in {"spawn", "done"} /\ got = 0 /\ written = 0
  /\ pc = "spawn" => child = "none" /\ ~childDone
  /\ child = "zombie" => ~autoReap
  /\ child = "reaped" /\ ~autoReap => pc \in Leaving \cup {"done"}
  /\ pc \in Leaving /\ child # "reaped" => childDone
  /\ pc = "done" /\ child \in {"running", "zombie"} => childDone

\* What the call has found out so far.
ResultInv ==
  /\ pc \in {"spawn"} \cup Polling => Blank(result)
  /\ pc \in Stopping => TimedOut(result)
  /\ pc \in Leaving => Blank(result) \/ (TimedOut(result) /\ child = "reaped")
  /\ pc = "done" => result \in CommandResults
  /\ pc = "done" /\ result.timed_out => child = "reaped"
  /\ pc \in Leaving /\ ReapedHere => status = exitStatus
  /\ pc # "done" /\ ~ReapedHere => status = "exit0"

IInv == TypeOK /\ PipeInv /\ ChildInv /\ ResultInv /\ VerdictOfReapedChild

-----------------------------------------------------------------------------

LEMMA EmptyIsBlank == EmptyResult \in ResultRecords /\ Blank(EmptyResult)
<1>1. NoReason \in Reasons
  BY DEF Reasons
<1>2. QED
  BY <1>1 DEF ResultRecords, EmptyResult, Blank

\* What an assignment to the fields of a result leaves in it.
LEMMA WithReason ==
  ASSUME NEW r \in ResultRecords, NEW why \in Reasons, NEW s, s = [r EXCEPT !.reason = why]
  PROVE  s \in ResultRecords /\ (s.ok <=> r.ok) /\ (s.timed_out <=> r.timed_out) /\ s.reason = why
BY DEF ResultRecords

LEMMA WithTimeout ==
  ASSUME NEW r \in ResultRecords, Blank(r),
         NEW s, s = [r EXCEPT !.timed_out = TRUE, !.reason = "timeout"]
  PROVE  s \in ResultRecords /\ TimedOut(s)
<1>1. "timeout" \in Reasons
  BY DEF Reasons, RunReasons
<1>2. QED
  BY <1>1 DEF ResultRecords, Blank, TimedOut

LEMMA WithOk ==
  ASSUME NEW r \in ResultRecords, NEW s, s = [r EXCEPT !.ok = TRUE]
  PROVE  s \in ResultRecords /\ s.ok /\ (s.timed_out <=> r.timed_out) /\ s.reason = r.reason
BY DEF ResultRecords

LEMMA TimeoutIsResult ==
  ASSUME NEW r \in ResultRecords, TimedOut(r)
  PROVE  r \in CommandResults
BY DEF TimedOut, CommandResults, RunReasons

\* The verdict makes a result of the contract of a blank one.
LEMMA VerdictIsResult ==
  ASSUME NEW r \in ResultRecords, Blank(r), NEW s \in ExitStatuses
  PROVE  /\ Verdict(r, s) \in CommandResults
         /\ ~Verdict(r, s).timed_out
         /\ Verdict(r, s).ok <=> s = "exit0"
<1>1. CASE s = "exit0"
  <2>1. Verdict(r, s) = [r EXCEPT !.ok = TRUE]
    BY <1>1 DEF Verdict
  <2>2. QED
    BY <1>1, <2>1, WithOk DEF Blank, CommandResults, NoReason, WaitReason
<1>2. ASSUME NEW why \in {"terminated", "command failed", "exit N"},
             s # "exit0", Verdict(r, s) = [r EXCEPT !.reason = why]
      PROVE  /\ Verdict(r, s) \in CommandResults
             /\ ~Verdict(r, s).timed_out
             /\ ~Verdict(r, s).ok
  <2>1. why \in Reasons /\ why \in RunReasons /\ why # "timeout"
    BY DEF Reasons, RunReasons
  <2>2. /\ Verdict(r, s) \in ResultRecords /\ Verdict(r, s).reason = why
        /\ ~Verdict(r, s).timed_out /\ ~Verdict(r, s).ok
    BY <1>2, <2>1 DEF Blank, ResultRecords
  <2>3. QED
    BY <2>1, <2>2 DEF CommandResults
<1>3. CASE s = "signal"
  BY <1>2, <1>3 DEF Verdict
<1>4. CASE s = "exit1"
  BY <1>2, <1>4 DEF Verdict
<1>5. CASE s = "exitN"
  BY <1>2, <1>5 DEF Verdict
<1>6. QED
  BY <1>1, <1>3, <1>4, <1>5 DEF ExitStatuses

LEMMA InitInv == Init => IInv
<1> SUFFICES ASSUME Init PROVE IInv
  OBVIOUS
<1>1. TypeOK
  <2>1. result \in ResultRecords
    BY EmptyIsBlank DEF Init
  <2>2. 0 \in 0..TermPolls /\ 0 \in 0..MaxOutput
    BY RunnerAssumption
  <2>3. pc \in {"spawn", "read", "wait", "deadline", "term", "reap", "drain", "classify", "done"}
        /\ status \in ExitStatuses /\ exitStatus \in ExitStatuses
        /\ child \in {"none", "running", "zombie", "reaped"}
    BY DEF Init, ExitStatuses
  <2>4. /\ childDone \in BOOLEAN /\ expired \in BOOLEAN
        /\ stdoutOpen \in BOOLEAN /\ autoReap \in BOOLEAN
    BY DEF Init
  <2>5. polls \in 0..TermPolls /\ written \in 0..MaxOutput /\ got \in 0..written
    BY <2>2 DEF Init
  <2>6. QED
    BY <2>1, <2>3, <2>4, <2>5 DEF TypeOK
<1>2. QED
  BY <1>1, EmptyIsBlank DEF Init, IInv, PipeInv, ChildInv, ResultInv, VerdictOfReapedChild, ReapedHere, Finished,
              Polling, Stopping, Leaving

-----------------------------------------------------------------------------
(***************************************************************************)
(* The steps of the runner.                                                *)
(***************************************************************************)

LEMMA SpawnFailsInv == IInv /\ SpawnFails => IInv'
<1> SUFFICES ASSUME IInv, SpawnFails PROVE IInv'
  OBVIOUS
<1>1. PICK why \in SpawnReasons : result' = [result EXCEPT !.reason = why]
  BY DEF SpawnFails
<1>2. /\ result' \in ResultRecords /\ ~result'.ok /\ ~result'.timed_out
      /\ result'.reason = why
  BY <1>1, WithReason DEF IInv, TypeOK, ResultInv, SpawnFails, Blank, Reasons
<1>3. result' \in CommandResults
  BY <1>2 DEF CommandResults, SpawnReasons
<1>4. TypeOK'
  BY <1>2 DEF IInv, TypeOK, SpawnFails, childVars
<1>5. QED
  BY <1>2, <1>3, <1>4 DEF IInv, TypeOK, PipeInv, ChildInv, ResultInv, VerdictOfReapedChild, ReapedHere, Finished,
     SpawnFails, childVars, Polling, Stopping, Leaving

LEMMA PollInv ==
  IInv /\ (Spawn \/ ReadChunk \/ ReadStops \/ WaitFindsRunning \/ SleepAndPoll) => IInv'
<1> SUFFICES ASSUME IInv PROVE Spawn \/ ReadChunk \/ ReadStops \/ WaitFindsRunning \/ SleepAndPoll
                                 => IInv'
  OBVIOUS
<1> USE DEF IInv, TypeOK, PipeInv, ChildInv, ResultInv, VerdictOfReapedChild, ReapedHere, Finished,
            childVars, Polling, Stopping, Leaving
<1>1. ASSUME Spawn PROVE IInv'
  BY <1>1 DEF Spawn
<1>2. ASSUME ReadChunk PROVE IInv'
  BY <1>2, RunnerAssumption DEF ReadChunk
<1>3. ASSUME ReadStops PROVE IInv'
  BY <1>3 DEF ReadStops
<1>4. ASSUME WaitFindsRunning PROVE IInv'
  BY <1>4 DEF WaitFindsRunning
<1>5. ASSUME SleepAndPoll PROVE IInv'
  BY <1>5 DEF SleepAndPoll
<1>6. QED
  BY <1>1, <1>2, <1>3, <1>4, <1>5

LEMMA ReapInv == IInv /\ (WaitReaps \/ WaitFails \/ TermReaps \/ BlockingWait) => IInv'
<1> SUFFICES ASSUME IInv PROVE WaitReaps \/ WaitFails \/ TermReaps \/ BlockingWait => IInv'
  OBVIOUS
<1> USE DEF IInv, TypeOK, PipeInv, ChildInv, ResultInv, VerdictOfReapedChild, ReapedHere, Finished,
            childVars, Polling, Stopping, Leaving
<1>1. ASSUME WaitReaps PROVE IInv'
  BY <1>1 DEF WaitReaps, Reaped
<1>2. ASSUME WaitFails PROVE IInv'
  <2>1. result' \in ResultRecords /\ Blank(result')
    BY <1>2, WithReason DEF WaitFails, Blank, Reasons
  <2>2. QED
    BY <1>2, <2>1 DEF WaitFails
<1>3. ASSUME TermReaps PROVE IInv'
  BY <1>3 DEF TermReaps, Reaped
<1>4. ASSUME BlockingWait PROVE IInv'
  <2>1. CASE Reaped
    BY <1>4, <2>1 DEF BlockingWait, Reaped
  <2>2. CASE ~Reaped
    BY <1>4, <2>2 DEF BlockingWait
  <2>3. QED
    BY <2>1, <2>2
<1>5. QED
  BY <1>1, <1>2, <1>3, <1>4

LEMMA StopInv == IInv /\ (SendTerm \/ TermPollMisses \/ SendKill) => IInv'
<1> SUFFICES ASSUME IInv PROVE SendTerm \/ TermPollMisses \/ SendKill => IInv'
  OBVIOUS
<1> USE DEF IInv, TypeOK, PipeInv, ChildInv, ResultInv, VerdictOfReapedChild, ReapedHere, Finished,
            childVars, Polling, Stopping, Leaving
<1>1. ASSUME SendTerm PROVE IInv'
  <2>1. result' \in ResultRecords /\ TimedOut(result')
    BY <1>1, WithTimeout DEF SendTerm
  <2>2. QED
    BY <1>1, <2>1 DEF SendTerm
<1>2. ASSUME TermPollMisses PROVE IInv'
  BY <1>2, RunnerAssumption DEF TermPollMisses
<1>3. ASSUME SendKill PROVE IInv'
  BY <1>3 DEF SendKill
<1>4. QED
  BY <1>1, <1>2, <1>3

LEMMA LeaveInv == IInv /\ (DrainStops \/ Classify) => IInv'
<1> SUFFICES ASSUME IInv PROVE DrainStops \/ Classify => IInv'
  OBVIOUS
<1>1. ASSUME DrainStops PROVE IInv'
  BY <1>1 DEF DrainStops, IInv, TypeOK, PipeInv, ChildInv, ResultInv, VerdictOfReapedChild,
     ReapedHere, Finished, childVars, Polling, Stopping, Leaving
<1>2. ASSUME Classify PROVE IInv'
  <2>1. result \in ResultRecords /\ (Blank(result) \/ (TimedOut(result) /\ child = "reaped"))
    BY <1>2 DEF Classify, IInv, TypeOK, ResultInv, Leaving
  <2>2. result' = IF result.timed_out THEN result ELSE Verdict(result, status)
    BY <1>2 DEF Classify
  <2>3. status \in ExitStatuses
    BY DEF IInv, TypeOK
  <2>4. /\ result' \in CommandResults
        /\ result'.timed_out => child = "reaped"
        /\ result'.ok <=> (status = "exit0" /\ ~result'.timed_out)
    BY <2>1, <2>2, <2>3, TimeoutIsResult, VerdictIsResult DEF Blank, TimedOut
  <2>5. result' \in ResultRecords
    BY <2>4 DEF CommandResults
  <2>6. QED
    BY <1>2, <2>4, <2>5 DEF Classify, IInv, TypeOK, PipeInv, ChildInv, ResultInv,
       VerdictOfReapedChild, ReapedHere, Finished, childVars, Polling, Stopping, Leaving
<1>3. QED
  BY <1>1, <1>2

-----------------------------------------------------------------------------
(***************************************************************************)
(* The steps of the child and the clock.                                   *)
(***************************************************************************)

LEMMA ChildStepInv ==
  ASSUME IInv,
         \/ ChildWrites \/ ChildClosesStdout \/ DeadlinePasses
         \/ \E how \in ExitStatuses : ChildEnds(how)
  PROVE  IInv'
<1> USE DEF IInv, TypeOK, PipeInv, ChildInv, ResultInv, VerdictOfReapedChild, ReapedHere, Finished,
            runnerVars, childVars, Polling, Stopping, Leaving
<1>1. ASSUME ChildWrites PROVE IInv'
  BY <1>1, RunnerAssumption DEF ChildWrites
<1>2. ASSUME ChildClosesStdout PROVE IInv'
  BY <1>2 DEF ChildClosesStdout
<1>3. ASSUME DeadlinePasses PROVE IInv'
  BY <1>3 DEF DeadlinePasses
<1>4. ASSUME NEW how \in ExitStatuses, ChildEnds(how) PROVE IInv'
  BY <1>4 DEF ChildEnds
<1>5. QED
  BY <1>1, <1>2, <1>3, <1>4

LEMMA NextInv == IInv /\ [Next]_vars => IInv'
<1> SUFFICES ASSUME IInv, [Next]_vars PROVE IInv'
  OBVIOUS
<1>1. CASE Runner
  BY <1>1, SpawnFailsInv, PollInv, ReapInv, StopInv, LeaveInv DEF Runner
<1>2. CASE \/ ChildWrites \/ ChildClosesStdout \/ DeadlinePasses
           \/ \E how \in ExitStatuses : ChildEnds(how)
  BY <1>2, ChildStepInv
<1>3. CASE UNCHANGED vars
  BY <1>3 DEF vars, runnerVars, childVars, IInv, TypeOK, PipeInv, ChildInv, ResultInv,
     VerdictOfReapedChild, ReapedHere, Finished
<1>4. QED
  BY <1>1, <1>2, <1>3 DEF Next, Returned

LEMMA IInvAlways == Spec => []IInv
BY InitInv, NextInv, PTL DEF Spec

-----------------------------------------------------------------------------
(***************************************************************************)
(* What a caller may rely on.                                              *)
(***************************************************************************)

\* For any child: a call that has returned hands back the whole output, and
\* there is nobody left to write more of it.
THEOREM OutputIsComplete == Spec => []OutputComplete
<1>1. IInv => OutputComplete
  BY DEF IInv, PipeInv, OutputComplete, Finished
<1>2. QED
  BY <1>1, IInvAlways, PTL

\* Of a call that has returned: a reported failure or timeout is one, ok means
\* status 0 if the call has reaped the child and nothing if it has not, and a
\* child is left behind only after the end of its output, never by a timeout.
THEOREM VerdictIsAccounted == Spec => []VerdictAccounted
<1>1. IInv => VerdictAccounted
  BY DEF IInv, ChildInv, ResultInv, VerdictAccounted, OnlyEofLeavesChild, Finished
<1>2. QED
  BY <1>1, IInvAlways, PTL

\* A signal is sent to a child that the call has not reaped, unless the kernel
\* was told to reap.
THEOREM OwnChildIsSignalled == Spec => SignalsOwnChild
<1>1. IInv /\ [Next]_vars =>
        [pc' # pc /\ pc' \in {"term", "reap"} => child \in {"running", "zombie"} \/ autoReap]_vars
  <2> SUFFICES ASSUME IInv, Next, pc' # pc, pc' \in {"term", "reap"}
               PROVE  child \in {"running", "zombie"} \/ autoReap
    OBVIOUS
  <2>1. pc \in {"deadline", "term"}
    BY DEF Next, Runner, SpawnFails, Spawn, ReadChunk, ReadStops, WaitReaps, Reaped, WaitFails,
       WaitFindsRunning, SleepAndPoll, SendTerm, TermReaps, TermPollMisses, SendKill,
       BlockingWait, DrainStops, Classify, ChildWrites, ChildClosesStdout, ChildEnds,
       DeadlinePasses, Returned, vars, runnerVars
  <2>2. QED
    BY <2>1 DEF IInv, TypeOK, ChildInv, Leaving
<1>2. QED
  BY <1>1, IInvAlways, PTL DEF Spec, SignalsOwnChild

\* Every behaviour of the call is one that CommandCall allows as far as safety
\* goes: it returns once, with a result of the contract that never changes.
THEOREM CallIsImplementedSafely == Spec => Call!CallInit /\ [][Call!Return]_(Call!callVars)
<1>1. Init => Call!CallInit
  BY DEF Init, Call!CallInit, Finished, EmptyResult, NoReason, Call!EmptyResult, Call!NoReason
<1>2. IInv /\ IInv' /\ [Next]_vars => [Call!Return]_(Call!callVars)
  <2> SUFFICES ASSUME IInv, IInv', [Next]_vars
               PROVE  Call!Return \/ UNCHANGED Call!callVars
    OBVIOUS
  <2>1. CASE pc = "done"
    <3>1. pc' = pc /\ result' = result
      BY <2>1 DEF Next, Runner, SpawnFails, Spawn, ReadChunk, ReadStops, WaitReaps, Reaped,
         WaitFails, WaitFindsRunning, SleepAndPoll, SendTerm, TermReaps, TermPollMisses,
         SendKill, BlockingWait, DrainStops, Classify, ChildWrites, ChildClosesStdout,
         ChildEnds, DeadlinePasses, Returned, vars, runnerVars
    <3>2. QED
      BY <3>1 DEF Call!callVars, Finished
  <2>2. CASE pc # "done" /\ pc' = "done"
    <3>1. result' \in CommandResults
      BY <2>2 DEF IInv, ResultInv
    <3>2. CommandResults = Call!CommandResults
      BY DEF CommandResults, ResultRecords, Reasons, NoReason, WaitReason, SpawnReasons, RunReasons,
         Call!CommandResults, Call!ResultRecords, Call!Reasons, Call!NoReason, Call!WaitReason,
         Call!SpawnReasons, Call!RunReasons
    <3>3. QED
      BY <2>2, <3>1, <3>2 DEF Call!Return, Finished
  <2>3. CASE pc # "done" /\ pc' # "done"
    BY <2>3 DEF Call!callVars, Finished
  <2>4. QED
    BY <2>1, <2>2, <2>3
<1>3. QED
  BY <1>1, <1>2, IInvAlways, PTL DEF Spec
=============================================================================
