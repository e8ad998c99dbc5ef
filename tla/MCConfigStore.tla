--------------------------- MODULE MCConfigStore ---------------------------
(***************************************************************************)
(* ConfigStore for TLC: files without and with a view_profile line, with   *)
(* values out of bounds or not understood, and with two view_profile lines.*)
(***************************************************************************)
EXTENDS ConfigStore, TLC

Line(k, v) == [key |-> k, value |-> v]

MCFiles ==
  { <<>>,
    <<Line("other", Bad), Line("refresh_ms", 500), Line("sort_direction", 1)>>,
    <<Line("view_profile", Bad), Line("refresh_ms", 1), Line("refresh_ms", Bad)>>,
    <<Line("sort", "Io"), Line("view_profile", "Beta"), Line("default_view", "SystemIo")>>,
    <<Line("view_profile", "Beta"), Line("view_profile", "Alpha")>> }

Terminals == Permutations(Instances)
=============================================================================
