--------------------------- MODULE CommandResult ---------------------------
(***************************************************************************)
(* The result of one external command, as run_command_capture_result       *)
(* (src/platform/darwin_sampler.cpp) hands it to collect_root_metrics.     *)
(* The captured text is left to the module that parses it: what callers    *)
(* branch on is ok, and the reason when not ok.                            *)
(***************************************************************************)

NoReason == ""

\* The command never ran: posix_spawn answered EACCES, or pipe or
\* posix_spawn failed with another error (std::strerror(errno)).
SpawnReasons == {"permission denied", "spawn failed"}

\* Reasons of a command that ran: the deadline, death by a signal, a nonzero
\* exit status (1, or any other, which the text numbers).
RunReasons == {"timeout", "terminated", "command failed", "exit N"}

\* waitpid answered an error: the reason is set, yet the call goes on to
\* classify the untouched status word.
WaitReason == "wait failed"

Reasons == {NoReason, WaitReason} \cup SpawnReasons \cup RunReasons

ResultRecords == [ok : BOOLEAN, timed_out : BOOLEAN, reason : Reasons]

EmptyResult == [ok |-> FALSE, timed_out |-> FALSE, reason |-> NoReason]

\* The results a finished call can hand back: a failure always carries a
\* reason of its own, and "timeout" is the reason exactly of a timed-out call.
CommandResults ==
  {r \in ResultRecords :
     /\ r.ok => r.reason \in {NoReason, WaitReason}
     /\ ~r.ok => r.reason \in SpawnReasons \cup RunReasons
     /\ r.timed_out <=> (r.reason = "timeout")}
=============================================================================
