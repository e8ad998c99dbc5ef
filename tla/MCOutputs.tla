----------------------------- MODULE MCOutputs -----------------------------
(***************************************************************************)
(* Outputs for TLC.  Sixteen gibibytes of memory, in mebibytes.            *)
(***************************************************************************)
EXTENDS Outputs

MCCounts == {-1, 1, 3}

Process(pid, ppid, name, words, flag, file, rss, io, command) ==
  [pid |-> pid, ppid |-> ppid, user |-> IF pid = 9 THEN "root" ELSE "me",
   name |-> name, words |-> words, flag |-> flag, file |-> file, rss |-> rss,
   cpu |-> rss % 7, mix |-> "-", io |-> io, command |-> command]

Plain(pid, ppid, words, rss) == Process(pid, ppid, "p", words, "", "", rss, "-", <<"a">>)

\* Families: a manager with its runner listed before it and one of another parent
\* after it; a server with a worker and one of the same model before it; a process
\* of two rules beside one of none; managers that start each other.
Ollama == <<
  Process(5, 4, "ollama_r", {"ollama + runner"}, "m1", "", 6000, "stale", <<"quote">>),
  Process(4, 1, "ollama", {"ollama"}, "", "", 100, "1/2", <<"a", "newline">>),
  Process(9, 1, "x", {".ollama"}, "", "m2", 200, "-", <<>>)>>

Llama == <<
  Process(2, 1, "bench", {".gguf"}, "m1", "", 4000, "3/4", <<"a">>),
  Process(7, 6, "worker", {".gguf"}, "m1", "", 300, "-", <<"backslash">>),
  Process(6, 1, "llama-server", {}, "m1", "m3", 5000, "root", <<"control", "a">>)>>

Mixed == <<Plain(3, 1, {}, 50), Plain(2, 1, {"comfyui", "uvicorn"}, 9000)>>

Managers == <<
  Process(3, 5, "ollama", {}, "", "", 10, "wait", <<"a">>),
  Process(5, 1, "ollama", {}, "", "", 20, "-", <<"a">>),
  Process(6, 3, "x", {".ollama"}, "m1", "", 30, "-", <<"a">>)>>

Mem(active, compressed, reclaim, swapUsed, swapouts) ==
  [total |-> 16384, wired |-> 2000, active |-> active, used |-> active + 2000,
   compressed |-> compressed, inactive |-> reclaim, speculative |-> 0, purgeable |-> 0,
   swapUsed |-> swapUsed, swapins |-> swapouts, swapouts |-> swapouts,
   pressure |-> "Unknown"]

Calm == Mem(4000, 0, 3000, 0, 0)
Paging == Mem(4000, 0, 3000, 100, 1)
Tight == Mem(12500, 1000, 100, 100, 0)
Full == Mem(12500, 1800, 50, 100, 1)
Swapped == Mem(13000, 1800, 50, 3000, 16)
Lost == [f \in DOMAIN Calm |-> IF f = "pressure" THEN "Unknown" ELSE 0]

MCSamples == {
  [mem |-> m[1], processes |-> m[2], cores |-> m[3], clusters |-> m[3], gpuPids |-> m[3]] :
    m \in {<<Calm, Mixed, 0>>, <<Calm, Ollama, 2>>, <<Calm, <<>>, 1>>, <<Paging, Llama, 1>>,
           <<Tight, Managers, 2>>, <<Full, <<>>, 0>>, <<Full, Mixed, 1>>,
           <<Swapped, Ollama, 1>>, <<Lost, Mixed, 2>>}}

MCLabels == {<<>>, <<"a", "quote", "newline">>}

MCFilters == {"", "ComfyUi", "me"}
=============================================================================
