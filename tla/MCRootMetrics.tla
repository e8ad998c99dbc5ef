--------------------------- MODULE MCRootMetrics ---------------------------
(***************************************************************************)
(* RootMetrics for TLC: one process with two columns, of which the         *)
(* fallback fills one, and one command result of each kind the collector   *)
(* tells apart.                                                            *)
(***************************************************************************)
EXTENDS RootMetrics

MCColumns == {"mix", "io"}
MCFallbackColumns == {"mix"}
MCResults ==
  { [ok |-> TRUE,  timed_out |-> FALSE, reason |-> NoReason],
    [ok |-> FALSE, timed_out |-> FALSE, reason |-> "permission denied"] }
=============================================================================
