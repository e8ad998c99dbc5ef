---------------------------- MODULE CommandCall ----------------------------
(***************************************************************************)
(* What run_command_capture_result promises its caller: one call, started, *)
(* comes back once, in finite time, with one of the results of             *)
(* CommandResult and never changes it afterwards.  CommandRunner shows how *)
(* the code keeps the promise.                                             *)
(***************************************************************************)
EXTENDS CommandResult

VARIABLES
  returned,  \* the call has come back
  answer     \* what it handed back; EmptyResult until then

callVars == <<returned, answer>>

CallInit ==
  /\ returned = FALSE
  /\ answer = EmptyResult

Return ==
  /\ ~returned
  /\ returned' = TRUE
  /\ answer' \in CommandResults

CallSpec == CallInit /\ [][Return]_callVars /\ WF_callVars(Return)
=============================================================================
