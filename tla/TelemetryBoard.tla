-------------------------- MODULE TelemetryBoard ---------------------------
(***************************************************************************)
(* What the background sampling of root metrics promises the screen, with  *)
(* no thread, mutex or copy in it: rounds are published one by one, each a *)
(* success or a failure; a reader takes in everything published so far at  *)
(* one instant, and shows a summary of what it took in.  The summary is    *)
(* the last success, marked stale when rounds after it failed.             *)
(***************************************************************************)
EXTENDS Naturals, Sequences, FiniteSetsExt

CONSTANT MaxRounds  \* bound on the rounds published

VARIABLES
  log,    \* sequence of outcomes, "ok" for a round that succeeded or "failed"
  taken,  \* how much of the log the reader has taken in
  shown,  \* the summary on the screen
  open    \* the reader has not been told to quit

boardVars == <<log, taken, shown, open>>

Successes(n) == {i \in 1..n : log[i] = "ok"}

Summary(n) ==
  LET best == Max(Successes(n) \cup {0}) IN
  CASE n = 0             -> [class |-> "waiting", sample |-> 0]
    [] best = n /\ n > 0 -> [class |-> "fresh",   sample |-> n]
    [] best \in 1..(n-1) -> [class |-> "stale",   sample |-> best]
    [] best = 0 /\ n > 0 -> [class |-> "failed",  sample |-> n]

BoardInit ==
  /\ log = <<>>
  /\ taken = 0
  /\ shown = Summary(0)
  /\ open = TRUE

Publish ==
  /\ Len(log) < MaxRounds
  /\ \E outcome \in {"ok", "failed"} : log' = Append(log, outcome)
  /\ UNCHANGED <<taken, shown, open>>

Take ==
  /\ open
  /\ taken' = Len(log)
  /\ UNCHANGED <<log, shown, open>>

Show ==
  /\ open
  /\ shown' = Summary(taken)
  /\ UNCHANGED <<log, taken, open>>

Close ==
  /\ open' = FALSE
  /\ UNCHANGED <<log, taken, shown>>

BoardNext == Publish \/ Take \/ Show \/ Close

\* Nothing is shown but summaries of what was published.
BoardSafety == BoardInit /\ [][BoardNext]_boardVars

\* What is published is taken in and shown, unless the reader quits.
BoardSpec ==
  /\ BoardSafety
  /\ WF_boardVars(Take)
  /\ WF_boardVars(Show)
=============================================================================
