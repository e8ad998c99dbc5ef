-------------------------- MODULE MCProcessTable --------------------------
(***************************************************************************)
(* ProcessTable for TLC: three processes, a text that two of them match    *)
(* and, by its label, all three.                                           *)
(***************************************************************************)
EXTENDS ProcessTable

MCPids == 1..3
MCTexts == {"", "llm"}
MCMatch == [t \in MCTexts |-> IF t = "" THEN MCPids ELSE {1, 3}]
MCAiMatch == [t \in MCTexts |-> MCPids]

Screens == {<<"beta", "Overview">>, <<"alpha", "Overview">>}
GpuActive == {<<"beta", "GpuActive">>}

MCLists == {{}, {2}, {1, 3}, {1, 2, 3}}

\* Up to three pages; a window just high enough for the alpha profile's list.
MCHeights == [p \in Profiles |-> IF p = "beta" THEN {1, 2} ELSE {5}]
=============================================================================
