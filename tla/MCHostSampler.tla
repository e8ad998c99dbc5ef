--------------------------- MODULE MCHostSampler ---------------------------
(***************************************************************************)
(* DarwinSampler for TLC: the rates, the processes and the cores share no  *)
(* state, so a behaviour follows one of them and leaves the others at rest.*)
(***************************************************************************)
EXTENDS RateSampler, ProcessTimes, CoreTimes

VARIABLE part \* what this behaviour follows

AllStreams == {{"swap", "paging"}, {"disk"}, {"net"}}
TwoClusters == <<"Performance", "Efficiency">>

RatesAtRest ==
  /\ streams = {"disk"} /\ Init
TimesAtRest ==
  /\ used = [p \in Pids |-> NoProcess] /\ TimesInit
CoresAtRest ==
  /\ count = 1 /\ root = FALSE /\ CoresInit

HostInit ==
  \/ part = "rates" /\ Init /\ TimesAtRest /\ CoresAtRest
  \/ part = "processes" /\ RatesAtRest /\ TimesInit /\ CoresAtRest
  \/ part = "cores" /\ RatesAtRest /\ TimesAtRest /\ CoresInit

HostNext ==
  /\ \/ part = "rates" /\ Next /\ UNCHANGED <<timeVars, coreVars>>
     \/ part = "processes" /\ TimesNext /\ UNCHANGED <<vars, coreVars>>
     \/ part = "cores" /\ CoresNext /\ UNCHANGED <<vars, timeVars>>
  /\ UNCHANGED part

HostSpec == HostInit /\ [][HostNext]_<<vars, timeVars, coreVars, part>>
=============================================================================
