----------------------------- MODULE SnapshotProofs -----------------------------
(***************************************************************************)
(* Proofs about the snapshot mode, in three parts: its stream and what a   *)
(* signal does to it (SnapshotSession), for any options, counts, signals   *)
(* and failing writes; JsonWriter, which writes JSON however deep its      *)
(* caller nests and whichever containers stay empty: as long as the calls  *)
(* come in a legal order, what a reader knows of the text agrees with what *)
(* the writer remembers of it; and the calls of snapshot_to_json, which    *)
(* write one JSON value from which a reader gets the commands back.        *)
(***************************************************************************)
EXTENDS SnapshotSession, SnapshotJson, SequenceTheorems, SumLemmas

Lines == {"session_start", "snapshot", "session_end"}

Before == {"open", "armInt", "armTerm", "start"}
Loop   == {"test", "emit", "check", "sleep", "end"}
After  == {"restoreInt", "restoreTerm", "return"}

\* The values of what the properties speak of.
Types ==
  /\ opt \in Options
  /\ pc \in Before \cup Loop \cup After \cup {"done", "killed"}
  /\ interrupted \in BOOLEAN
  /\ good \in BOOLEAN
  /\ emitted \in Nat
  /\ out \in Seq(Lines)

\* The last line is the end of a session.
Closed(s) == s # <<>> /\ Last(s) = "session_end"

\* What has been written by the time the function is there: nothing before the
\* loop, no last line within it, and after it, if all writes went well, the
\* last line.
StreamInv ==
  /\ StreamShape
  /\ pc \in Before => out = <<>>
  /\ pc \in Loop => \A i \in DOMAIN out : out[i] # "session_end"
  /\ pc \in Loop /\ opt.session /\ good => out # <<>>
  /\ pc \in After /\ opt.session /\ good => Closed(out)
  /\ pc \in {"start", "end"} => opt.session

\* The handlers are installed wherever a signal would cut a session.
ArmedInv == pc \in {"start", "restoreInt"} \cup Loop => armed = Signals

\* How the function ends.
EndInv ==
  /\ pc # "done" => rc = None
  /\ pc # "killed" => killedBy = None
  /\ NoHalfSession

\* Once interrupted, only the sample at hand is emitted.
PromptInv ==
  interrupted =>
    /\ allowed \in Nat
    /\ emitted <= allowed
    /\ pc = "emit" => emitted + 1 <= allowed

IInv == Types /\ StreamInv /\ ArmedInv /\ EndInv /\ PromptInv

-----------------------------------------------------------------------------

LEMMA AppendLine ==
  ASSUME NEW s \in Seq(Lines), NEW line \in Lines
  PROVE  /\ Append(s, line) \in Seq(Lines)
         /\ Append(s, line) # <<>>
         /\ Last(Append(s, line)) = line
         /\ DOMAIN Append(s, line) = 1..(Len(s) + 1)
         /\ Len(Append(s, line)) = Len(s) + 1
         /\ \A i \in 1..Len(s) : Append(s, line)[i] = s[i]
         /\ Append(s, line)[Len(s) + 1] = line
BY DEF Last

LEMMA InitInv == Init => IInv
<1> SUFFICES ASSUME Init PROVE IInv
  OBVIOUS
<1>1. Types
  <2>1. out \in Seq(Lines) /\ emitted \in Nat /\ pc \in Before /\ opt \in Options
    BY DEF Init, Before
  <2>2. interrupted \in BOOLEAN /\ good \in BOOLEAN
    BY DEF Init
  <2>3. QED
    BY <2>1, <2>2 DEF Types
<1>2. StreamInv /\ ArmedInv /\ PromptInv
  BY DEF Init, StreamInv, StreamShape, ArmedInv, PromptInv, Before, Loop, After
<1>3. EndInv
  BY SessionAssumption DEF Init, EndInv, NoHalfSession
<1>4. QED
  BY <1>1, <1>2, <1>3 DEF IInv

(***************************************************************************)
(* The steps that write nothing.                                           *)
(***************************************************************************)

LEMMA ReturnInv == IInv /\ (BadFormat \/ OpenFails \/ Finish) => IInv'
<1> SUFFICES ASSUME IInv PROVE BadFormat \/ OpenFails \/ Finish => IInv'
  OBVIOUS
<1> USE DEF IInv, Types, StreamInv, StreamShape, ArmedInv, EndInv, NoHalfSession, PromptInv, Closed,
            Return, Before, Loop, After
<1>1. ASSUME BadFormat PROVE IInv'
  BY <1>1, SessionAssumption DEF BadFormat
<1>2. ASSUME OpenFails PROVE IInv'
  BY <1>2, SessionAssumption DEF OpenFails
<1>3. ASSUME Finish PROVE IInv'
  BY <1>3, SessionAssumption DEF Finish
<1>4. QED
  BY <1>1, <1>2, <1>3

LEMMA QuietInv ==
  ASSUME IInv,
         \/ Open \/ ArmInt \/ ArmTerm \/ LeaveLoop \/ Sample \/ Check \/ Sleep
         \/ RestoreInt \/ RestoreTerm
  PROVE  IInv'
<1> USE SessionAssumption
    DEF IInv, Types, StreamInv, StreamShape, ArmedInv, EndInv, NoHalfSession, PromptInv, Closed,
        Before, Loop, After
<1>1. ASSUME Open PROVE IInv'
  BY <1>1 DEF Open
<1>2. ASSUME ArmInt PROVE IInv'
  BY <1>2 DEF ArmInt
<1>3. ASSUME ArmTerm PROVE IInv'
  BY <1>3 DEF ArmTerm
<1>4. ASSUME LeaveLoop PROVE IInv'
  BY <1>4 DEF LeaveLoop
<1>5. ASSUME Sample PROVE IInv'
  BY <1>5 DEF Sample, LoopEnds
<1>6. ASSUME Check PROVE IInv'
  BY <1>6 DEF Check
<1>7. ASSUME Sleep PROVE IInv'
  BY <1>7 DEF Sleep
<1>8. ASSUME RestoreInt PROVE IInv'
  BY <1>8 DEF RestoreInt
<1>9. ASSUME RestoreTerm PROVE IInv'
  BY <1>9 DEF RestoreTerm
<1>10. QED
  BY <1>1, <1>2, <1>3, <1>4, <1>5, <1>6, <1>7, <1>8, <1>9

LEMMA SignalInv ==
  ASSUME IInv, NEW sig \in Signals, Handled(sig) \/ Deadly(sig)
  PROVE  IInv'
<1> USE SessionAssumption
    DEF IInv, Types, StreamInv, StreamShape, ArmedInv, EndInv, NoHalfSession, PromptInv, Closed,
        Before, Loop, After, Running
<1>1. CASE Handled(sig)
  BY <1>1 DEF Handled
<1>2. CASE Deadly(sig)
  BY <1>2 DEF Deadly
<1>3. QED
  BY <1>1, <1>2

LEMMA BrokenPipeInv == IInv /\ BrokenPipe => IInv'
BY SessionAssumption DEF BrokenPipe, IInv, Types, StreamInv, StreamShape, ArmedInv, EndInv,
   NoHalfSession, PromptInv, Closed, Before, Loop, After, Signals

-----------------------------------------------------------------------------
(***************************************************************************)
(* The steps that write.                                                   *)
(***************************************************************************)

LEMMA WriteStartInv == IInv /\ WriteStart => IInv'
<1> SUFFICES ASSUME IInv, WriteStart PROVE IInv'
  OBVIOUS
<1> USE SessionAssumption
    DEF IInv, Types, StreamInv, StreamShape, ArmedInv, EndInv, NoHalfSession, PromptInv, Closed,
        Before, Loop, After, WriteStart, Put
<1>1. CASE out' = out /\ good' = FALSE
  <2>1. Types' /\ PromptInv' /\ ArmedInv'
    BY <1>1
  <2>2. ~good'
    BY <1>1
  <2>3. StreamInv' /\ EndInv'
    BY <1>1, <2>2
  <2>4. QED
    BY <2>1, <2>3
<1>2. CASE out' = Append(out, "session_start") /\ good' = TRUE
  BY <1>2, AppendLine DEF Lines
<1>3. QED
  BY <1>1, <1>2

LEMMA EmitInv == IInv /\ Emit => IInv'
<1> SUFFICES ASSUME IInv, Emit PROVE IInv'
  OBVIOUS
<1> USE SessionAssumption
    DEF IInv, Types, StreamInv, StreamShape, ArmedInv, EndInv, NoHalfSession, PromptInv, Closed,
        Before, Loop, After, Emit, Put
<1>1. CASE out' = out /\ good' = FALSE
  <2>1. Types' /\ PromptInv' /\ ArmedInv'
    <3>1. good' \in BOOLEAN
      BY <1>1
    <3>2. emitted' \in Nat
      OBVIOUS
    <3>3. out' \in Seq(Lines)
      BY <1>1
    <3>4. Types' /\ ArmedInv'
      BY <3>1, <3>2, <3>3
    <3>5. PromptInv'
      OBVIOUS
    <3>6. QED
      BY <3>4, <3>5
  <2>2. ~good'
    BY <1>1
  <2>3. StreamInv' /\ EndInv'
    BY <1>1, <2>2
  <2>4. QED
    BY <2>1, <2>3
<1>2. CASE good /\ out' = Append(out, "snapshot") /\ good' = TRUE
  BY <1>2, AppendLine DEF Lines
<1>3. QED
  BY <1>1, <1>2

LEMMA WriteEndInv == IInv /\ WriteEnd => IInv'
<1> SUFFICES ASSUME IInv, WriteEnd PROVE IInv'
  OBVIOUS
<1> USE SessionAssumption
    DEF IInv, Types, StreamInv, StreamShape, ArmedInv, EndInv, NoHalfSession, PromptInv, Closed,
        Before, Loop, After, WriteEnd, Put
<1>1. CASE out' = out /\ good' = FALSE
  BY <1>1
<1>2. CASE good /\ out' = Append(out, "session_end") /\ good' = TRUE
  BY <1>2, AppendLine DEF Lines
<1>3. QED
  BY <1>1, <1>2

LEMMA NextInv == IInv /\ [Next]_vars => IInv'
<1> SUFFICES ASSUME IInv, [Next]_vars PROVE IInv'
  OBVIOUS
<1>1. CASE Function
  BY <1>1, ReturnInv, QuietInv, WriteStartInv, EmitInv, WriteEndInv DEF Function
<1>2. CASE BrokenPipe
  BY <1>2, BrokenPipeInv
<1>3. CASE \E sig \in Signals : Handled(sig) \/ Deadly(sig)
  BY <1>3, SignalInv
<1>4. CASE UNCHANGED vars
  BY <1>4 DEF vars, IInv, Types, StreamInv, StreamShape, ArmedInv, EndInv, NoHalfSession,
     PromptInv, Closed
<1>5. QED
  BY <1>1, <1>2, <1>3, <1>4 DEF Next, Ended

LEMMA IInvAlways == Spec => []IInv
BY InitInv, NextInv, PTL DEF Spec

-----------------------------------------------------------------------------

\* For any options and failures: at every moment the output is the beginning of
\* a well-formed one.
THEOREM StreamIsWellFormed == Spec => []StreamShape
<1>1. IInv => StreamShape
  BY DEF IInv, StreamInv
<1>2. QED
  BY <1>1, IInvAlways, PTL

\* A signal, at whatever step it comes, lets no more than the sample at hand be
\* written, and no session end without its last line.
THEOREM SignalsNeverCut == Spec => []SignalsEndWell
<1>1. IInv => SignalsEndWell
  BY DEF IInv, PromptInv, EndInv, SignalsEndWell, StopsPromptly
<1>2. QED
  BY <1>1, IInvAlways, PTL

-----------------------------------------------------------------------------
(***************************************************************************)
(* How many snapshots are written.                                         *)
(***************************************************************************)

SnapshotAt(s) == {i \in DOMAIN s : s[i] = "snapshot"}

\* As long as no write failed, the output holds the snapshots emitted.
Recorded ==
  /\ IsFiniteSet(SnapshotAt(out))
  /\ good => Cardinality(SnapshotAt(out)) = emitted

\* A loop with an end emits no more than its count; it is left by a signal or
\* with its count.
Counted ==
  /\ pc \in Before => emitted = 0
  /\ emitted > Count => LoopForever
  /\ pc = "emit" => emitted < Count \/ LoopForever
  /\ pc = "check" => emitted > 0
  /\ pc \in {"end"} \cup After => interrupted \/ Enough
  /\ rc = 0 => Enough

\* The bounds of the model: the sample at hand is not the last allowed plus one,
\* and besides the snapshots at most two lines are written.
Bounded ==
  /\ emitted <= MaxSamples
  /\ pc = "emit" => emitted < MaxSamples
  /\ armed \subseteq Signals
  /\ allowed \in 0..MaxSamples \cup {None}
  /\ rc \in {None, 0, 1, 2, 130}
  /\ killedBy \in Signals \cup {"PIPE", None}
  /\ pc \in Before => Len(out) = 0
  /\ pc \in Loop => Len(out) <= emitted + 1
  /\ Len(out) <= emitted + 2

CountInv == Recorded /\ Counted /\ Bounded

LEMMA CountType == opt \in Options => Count \in Nat /\ Count > 0
<1> SUFFICES ASSUME opt \in Options PROVE Count \in Nat /\ Count > 0
  OBVIOUS
<1>1. opt.count \in Int \/ opt.count = None
  BY SessionAssumption DEF Options
<1>2. QED
  BY <1>1 DEF Count

LEMMA AppendSnapshots ==
  ASSUME NEW s \in Seq(Lines), NEW line \in Lines, IsFiniteSet(SnapshotAt(s))
  PROVE  /\ IsFiniteSet(SnapshotAt(Append(s, line)))
         /\ Cardinality(SnapshotAt(Append(s, line)))
              = Cardinality(SnapshotAt(s)) + IF line = "snapshot" THEN 1 ELSE 0
<1>1. SnapshotAt(s) \subseteq 1..Len(s) /\ Len(s) + 1 \notin SnapshotAt(s)
  BY DEF SnapshotAt
<1>2. CASE line = "snapshot"
  <2>1. SnapshotAt(Append(s, line)) = SnapshotAt(s) \cup {Len(s) + 1}
    BY <1>2, AppendLine DEF SnapshotAt
  <2>2. QED
    BY <1>1, <1>2, <2>1, FS_AddElement
<1>3. CASE line # "snapshot"
  <2>1. SnapshotAt(Append(s, line)) = SnapshotAt(s)
    BY <1>3, AppendLine DEF SnapshotAt
  <2>2. QED
    BY <1>3, <2>1, FS_CardinalityType
<1>4. QED
  BY <1>2, <1>3

LEMMA InitCounts == Init => CountInv
<1> SUFFICES ASSUME Init PROVE CountInv
  OBVIOUS
<1>1. Recorded
  <2>1. SnapshotAt(out) = {}
    BY DEF Init, SnapshotAt
  <2>2. QED
    BY <2>1, FS_EmptySet DEF Init, Recorded
<1>2. Counted
  BY CountType, SessionAssumption DEF Init, Counted, After
<1>3. Bounded
  BY SessionAssumption DEF Init, Bounded, Before, Loop
<1>4. QED
  BY <1>1, <1>2, <1>3 DEF CountInv

\* What the steps that write do to the output and to its snapshots.
LEMMA RecordedStep == IInv /\ Recorded /\ [Next]_vars => Recorded'
<1> SUFFICES ASSUME IInv, Recorded, [Next]_vars PROVE Recorded'
  OBVIOUS
<1> USE DEF Recorded
<1>0. out \in Seq(Lines) /\ emitted \in Nat
  BY DEF IInv, Types
<1>a. ASSUME NEW line \in Lines, Put(line),
             emitted' = emitted + IF line = "snapshot" THEN 1 ELSE 0
      PROVE  Recorded'
  <2>1. CASE ~good' /\ out' = out
    BY <1>0, <2>1 DEF SnapshotAt
  <2>2. CASE good /\ out' = Append(out, line)
    <3>1. /\ IsFiniteSet(SnapshotAt(out'))
          /\ Cardinality(SnapshotAt(out')) = emitted'
      BY <1>0, <1>a, <2>2, AppendSnapshots
    <3>2. QED
      BY <3>1 DEF SnapshotAt
  <2>3. QED
    BY <1>a, <2>1, <2>2 DEF Put
<1>1. CASE WriteStart
  BY <1>0, <1>1, <1>a DEF WriteStart, Lines
<1>2. CASE Emit
  BY <1>0, <1>2, <1>a DEF Emit, Lines
<1>3. CASE WriteEnd
  BY <1>0, <1>3, <1>a DEF WriteEnd, Lines
<1>4. CASE UNCHANGED <<out, good, emitted>>
  BY <1>4 DEF SnapshotAt
<1>5. QED
  BY <1>1, <1>2, <1>3, <1>4
     DEF Next, Function, BadFormat, OpenFails, Open, ArmInt, ArmTerm, LeaveLoop, Sample, Check,
         Sleep, RestoreInt, RestoreTerm, Finish, BrokenPipe, Handled, Deadly, Ended, vars

LEMMA CountedStep == IInv /\ Counted /\ [Next]_vars => Counted'
<1> SUFFICES ASSUME IInv, Counted, [Next]_vars PROVE Counted'
  OBVIOUS
<1>0. /\ opt \in Options /\ emitted \in Nat /\ Count \in Nat /\ Count > 0
      /\ pc # "done" => rc = None
  BY CountType DEF IInv, Types, EndInv
<1>1. opt' = opt /\ Count' = Count /\ (LoopForever' <=> LoopForever)
  BY DEF Count, LoopForever, Next, Function, BadFormat, OpenFails, Open, ArmInt, ArmTerm,
         WriteStart, LeaveLoop, Sample, Emit, Check, Sleep, WriteEnd, RestoreInt, RestoreTerm,
         Finish, BrokenPipe, Handled, Deadly, Ended, vars
<1> USE <1>0, <1>1, SessionAssumption DEF Counted, Enough, Before, After
<1>2. CASE Function
  <2>1. CASE BadFormat \/ OpenFails \/ Open \/ ArmInt \/ ArmTerm \/ WriteStart \/ Sleep
    BY <2>1 DEF BadFormat, OpenFails, Return, Open, ArmInt, ArmTerm, WriteStart, Sleep
  <2>2. CASE LeaveLoop \/ Sample
    BY <2>2 DEF LeaveLoop, Sample, LoopEnds
  <2>3. CASE Emit
    BY <2>3 DEF Emit
  <2>4. CASE Check
    BY <2>4 DEF Check, Break, Count, LoopForever
  <2>5. CASE WriteEnd \/ RestoreInt \/ RestoreTerm \/ Finish
    BY <2>5 DEF WriteEnd, RestoreInt, RestoreTerm, Finish, Return
  <2>6. QED
    BY <1>2, <2>1, <2>2, <2>3, <2>4, <2>5 DEF Function
<1>3. CASE BrokenPipe
  BY <1>3 DEF BrokenPipe
<1>4. CASE \E sig \in Signals : Handled(sig) \/ Deadly(sig)
  BY <1>4 DEF Handled, Deadly, Running
<1>5. CASE UNCHANGED vars
  BY <1>5 DEF vars
<1>6. QED
  BY <1>2, <1>3, <1>4, <1>5 DEF Next, Ended

LEMMA BoundedStep == IInv /\ Bounded /\ [Next]_vars => Bounded'
<1> SUFFICES ASSUME IInv, Bounded, [Next]_vars PROVE Bounded'
  OBVIOUS
<1>0. out \in Seq(Lines) /\ emitted \in Nat /\ (pc # "done" => rc = None)
  BY DEF IInv, Types, EndInv
<1>1. \A line \in Lines : Len(Append(out, line)) = Len(out) + 1
  BY <1>0
<1> USE <1>0, SessionAssumption DEF Bounded, Before, Loop, Signals
<1>2. CASE Function
  <2>1. CASE BadFormat \/ OpenFails
    BY <2>1 DEF BadFormat, OpenFails, Return
  <2>a. CASE Open \/ Sleep
    BY <2>a DEF Open, Sleep
  <2>b. CASE ArmInt \/ ArmTerm
    BY <2>b DEF ArmInt, ArmTerm
  <2>2. CASE LeaveLoop \/ Sample \/ Check
    BY <2>2 DEF LeaveLoop, Sample, Check
  <2>3. CASE WriteStart \/ Emit \/ WriteEnd
    <3>1. Len(out') = Len(out) \/ Len(out') = Len(out) + 1
      BY <1>1, <2>3 DEF WriteStart, Emit, WriteEnd, Put, Lines
    <3>2. Len(out') \in Nat /\ Len(out) \in Nat
      BY <3>1
    <3>3. killedBy' = killedBy /\ armed' = armed /\ allowed' = allowed /\ rc' = rc
      BY <2>3 DEF WriteStart, Emit, WriteEnd, Put
    <3>4. QED
      BY <2>3, <3>1, <3>2, <3>3 DEF WriteStart, Emit, WriteEnd
  <2>4. CASE RestoreInt \/ RestoreTerm \/ Finish
    BY <2>4 DEF RestoreInt, RestoreTerm, Finish, Return
  <2>5. QED
    BY <1>2, <2>1, <2>a, <2>b, <2>2, <2>3, <2>4 DEF Function
<1>3. CASE BrokenPipe
  BY <1>3 DEF BrokenPipe
<1>4. CASE \E sig \in Signals : Handled(sig) \/ Deadly(sig)
  <2>1. CASE \E sig \in Signals : Handled(sig)
    BY <2>1 DEF Handled, Running
  <2>2. CASE \E sig \in Signals : Deadly(sig)
    BY <2>2 DEF Deadly, Running
  <2>3. QED
    BY <1>4, <2>1, <2>2
<1>5. CASE UNCHANGED vars
  BY <1>5 DEF vars
<1>6. QED
  BY <1>2, <1>3, <1>4, <1>5 DEF Next, Ended

LEMMA CountInvAlways == Spec => []CountInv
<1>1. IInv /\ CountInv /\ [Next]_vars => CountInv'
  BY RecordedStep, CountedStep, BoundedStep DEF CountInv
<1>2. QED
  BY InitCounts, <1>1, IInvAlways, PTL DEF Spec

LEMMA TypesFromInv == IInv /\ CountInv => TypeOK
<1> SUFFICES ASSUME IInv, CountInv PROVE TypeOK
  OBVIOUS
<1>1. out \in BoundedSeq(Lines, MaxSamples + 2)
  <2>1. out \in [1..Len(out) -> Lines] /\ Len(out) \in 0..(MaxSamples + 2)
    BY SessionAssumption DEF IInv, Types, CountInv, Bounded
  <2>2. QED
    BY <2>1 DEF BoundedSeq, SeqOf
<1>2. opt \in Options /\ interrupted \in BOOLEAN /\ good \in BOOLEAN /\ armed \subseteq Signals
      /\ emitted \in 0..MaxSamples
  BY SessionAssumption DEF IInv, Types, CountInv, Bounded
<1>3. pc \in {"open", "armInt", "armTerm", "start", "test", "emit", "check", "sleep",
              "end", "restoreInt", "restoreTerm", "return", "done", "killed"}
  BY DEF IInv, Types, Before, Loop, After
<1>4. rc \in {None, 0, 1, 2, 130} /\ allowed \in 0..MaxSamples \cup {None}
      /\ killedBy \in Signals \cup {"PIPE", None}
  BY DEF CountInv, Bounded
<1>5. QED
  BY <1>1, <1>2, <1>3, <1>4 DEF TypeOK, Lines

LEMMA MaxOfTwo ==
  ASSUME NEW a \in Int, NEW b \in Int
  PROVE  Max({a, b}) = IF b < a THEN a ELSE b
<1>1. \E x \in {a, b} : \A y \in {a, b} : x >= y
  OBVIOUS
<1>2. Max({a, b}) \in {a, b} /\ \A y \in {a, b} : Max({a, b}) >= y
  BY <1>1 DEF Max
<1>3. QED
  BY <1>2

LEMMA CountFromInv == IInv /\ CountInv => CompleteUnlessWriteFailed
<1> SUFFICES ASSUME IInv, CountInv, rc = 0, good
             PROVE  AllWritten /\ (opt.loop => opt.count # None)
  BY DEF CompleteUnlessWriteFailed
<1>1. emitted = Count /\ ~LoopForever
  BY CountType DEF IInv, Types, CountInv, Counted, Enough
<1>2. Cardinality({i \in DOMAIN out : out[i] = "snapshot"}) = Count
  BY <1>1 DEF CountInv, Recorded, SnapshotAt
<1>3. Count = IF opt.count = None THEN 1 ELSE Max({1, opt.count})
  <2>1. opt.count \in Int \/ opt.count = None
    BY SessionAssumption DEF IInv, Types, Options
  <2>2. QED
    BY <2>1, MaxOfTwo DEF Count
<1>4. opt.session => out # <<>> /\ Last(out) = "session_end"
  BY SessionAssumption DEF IInv, EndInv, NoHalfSession
<1>5. QED
  BY <1>1, <1>2, <1>3, <1>4 DEF LoopForever, AllWritten

\* Whatever fails and whenever a signal comes, the output is the beginning of a
\* well-formed one; it is all that was asked for, a session's last line included,
\* if the exit code is 0 and no write has failed.  The exit code alone does not
\* say so.
THEOREM OutputIsWellFormed == Spec => []OutputWellFormed
<1>1. IInv /\ CountInv => OutputWellFormed
  BY TypesFromInv, CountFromInv DEF OutputWellFormed, IInv, StreamInv
<1>2. QED
  BY <1>1, IInvAlways, CountInvAlways, PTL

-----------------------------------------------------------------------------
(***************************************************************************)
(* JsonWriter.                                                             *)
(***************************************************************************)

\* The writer's two stacks say what the reader has read: outside the innermost
\* container everything was preceded by a member, inside it a comma is due
\* unless it is fresh, and a value is due after a key.
Consistent(w) ==
  LET open == w.reader.open
      n == Len(open)
  IN /\ w \in Writers
     /\ ~w.reader.bad
     /\ Len(w.first) = n
     /\ \A i \in 1..n : i < n => open[i].phase = "member" /\ ~w.first[i]
     /\ n = 0 => ~w.expecting
     /\ n > 0 => /\ open[n].phase # "comma"
                 /\ w.first[n] <=> open[n].phase = "fresh"
                 /\ w.expecting <=> open[n].phase = "key"
                 /\ w.expecting => open[n].kind = "object"

Depth(w) == Len(w.reader.open)

Innermost(w) == w.reader.open[Depth(w)]

\* The calls in a legal order.
MayValue(w) ==
  IF Depth(w) = 0 THEN ~w.reader.done ELSE w.expecting \/ Innermost(w).kind = "array"

MayKey(w, name) ==
  Depth(w) > 0 /\ ~w.expecting /\ Innermost(w).kind = "object" /\ name \notin Innermost(w).keys

MayEnd(w, kind) == Depth(w) > 0 /\ ~w.expecting /\ Innermost(w).kind = kind

-----------------------------------------------------------------------------

\* The last element, and all but the last.
LEMMA LastAndFront ==
  ASSUME NEW S, NEW s \in Seq(S), s # <<>>
  PROVE  /\ Len(s) \in Nat \ {0} /\ Last(s) = s[Len(s)] /\ Last(s) \in S
         /\ Front(s) \in Seq(S) /\ Len(Front(s)) = Len(s) - 1
         /\ \A i \in 1..Len(s) - 1 : Front(s)[i] = s[i]
<1>1. Len(s) \in Nat \ {0} /\ Last(s) = s[Len(s)] /\ Last(s) \in S
  BY DEF Last
<1>2. Front(s) = [i \in 1..(Len(s) - 1) |-> s[i]]
  BY <1>1 DEF Front
<1>3. Front(s) \in Seq(S) /\ Len(Front(s)) = Len(s) - 1
  BY <1>1, <1>2
<1> QED
  BY <1>1, <1>2, <1>3

\* A changed innermost container leaves the others alone.
LEMMA WithPhaseKeepsRest ==
  ASSUME NEW r \in Readers, r.open # <<>>, NEW phase \in {"fresh", "comma", "key", "member"}
  PROVE  LET q == WithPhase(r, phase)
             n == Len(r.open)
         IN /\ q \in Readers /\ q.done = r.done /\ q.bad = r.bad /\ q.texts = r.texts
            /\ Len(q.open) = n
            /\ \A i \in 1..n : i < n => q.open[i] = r.open[i]
            /\ q.open[n].phase = phase
            /\ q.open[n].kind = r.open[n].kind
            /\ q.open[n].keys = r.open[n].keys
<1> DEFINE n == Len(r.open)
           top == [r.open[n] EXCEPT !.phase = phase]
           open == [r.open EXCEPT ![n] = top]
           q == WithPhase(r, phase)
<1>1. n \in Nat \ {0} /\ r.open[n] \in Containers /\ r.open \in Seq(Containers)
  BY DEF Readers
<1>2. /\ top \in Containers /\ top.phase = phase
      /\ top.kind = r.open[n].kind /\ top.keys = r.open[n].keys
  BY <1>1 DEF Containers
<1>3. q = [r EXCEPT !.open = open]
  BY DEF WithPhase
<1> HIDE DEF top
<1>4. /\ open \in Seq(Containers) /\ Len(open) = n /\ open[n] = top
      /\ \A i \in 1..n : i < n => open[i] = r.open[i]
  BY <1>1, <1>2
<1> HIDE DEF open, q
<1>5. /\ q \in Readers /\ q.open = open
      /\ q.done = r.done /\ q.bad = r.bad /\ q.texts = r.texts
  BY <1>3, <1>4 DEF Readers
<1> QED
  BY <1>2, <1>4, <1>5 DEF q

-----------------------------------------------------------------------------

\* Between the prefix and the value: every container around has a member, and a
\* value may come.
Poised(w) ==
  LET open == w.reader.open
      n == Len(open)
  IN /\ w \in Writers
     /\ ~w.reader.bad
     /\ Len(w.first) = n
     /\ \A i \in 1..n : ~w.first[i] /\ (i < n => open[i].phase = "member")
     /\ ~w.expecting
     /\ Ready(w.reader)

\* Inside a container, before a member or an element.
LEMMA MemberPrefixSeparates ==
  ASSUME NEW w, Consistent(w), Depth(w) > 0, ~w.expecting
  PROVE  LET p == MemberPrefix(w)
             n == Depth(w)
         IN /\ p \in Writers /\ ~p.reader.bad /\ ~p.expecting
            /\ Len(p.first) = n /\ Len(p.reader.open) = n
            /\ \A i \in 1..n : ~p.first[i] /\ (i < n => p.reader.open[i].phase = "member")
            /\ p.reader.open[n].phase \in {"fresh", "comma"}
            /\ p.reader.open[n].kind = w.reader.open[n].kind
            /\ p.reader.open[n].keys = w.reader.open[n].keys
<1> DEFINE n == Depth(w)
           p == MemberPrefix(w)
           first == [w.first EXCEPT ![n] = FALSE]
<1>1. /\ w \in Writers /\ w.reader \in Readers /\ w.first \in Seq(BOOLEAN)
      /\ w.reader.open \in Seq(Containers)
      /\ n \in Nat \ {0} /\ Len(w.first) = n /\ w.first # <<>> /\ w.reader.open # <<>>
      /\ ~w.reader.bad
      /\ \A i \in 1..n : i < n => w.reader.open[i].phase = "member" /\ ~w.first[i]
      /\ w.reader.open[n].phase \in {"fresh", "member"}
      /\ w.first[n] <=> w.reader.open[n].phase = "fresh"
  <2>1. /\ w \in Writers /\ w.reader \in Readers /\ w.first \in Seq(BOOLEAN)
        /\ w.reader.open \in Seq(Containers) /\ n \in Nat \ {0} /\ Len(w.first) = n
    BY DEF Consistent, Depth, Writers, Readers
  <2>2. w.first # <<>> /\ w.reader.open # <<>>
    BY <2>1 DEF Depth
  <2>3. w.reader.open[n] \in Containers
    BY <2>1 DEF Depth
  <2>4. w.reader.open[n].phase \in {"fresh", "comma", "key", "member"}
    BY <2>3 DEF Containers
  <2>5. /\ ~w.reader.bad
        /\ \A i \in 1..n : i < n => w.reader.open[i].phase = "member" /\ ~w.first[i]
        /\ w.reader.open[n].phase # "comma" /\ w.reader.open[n].phase # "key"
        /\ w.first[n] <=> w.reader.open[n].phase = "fresh"
    BY <2>1 DEF Consistent, Depth
  <2> QED
    BY <2>1, <2>2, <2>4, <2>5
<1>2. Last(w.first) = w.first[n] /\ Top(w.reader) = w.reader.open[n]
  BY <1>1, LastAndFront DEF Top, Depth, Last
<1>3. first \in Seq(BOOLEAN) /\ Len(first) = n /\ \A i \in 1..n : ~first[i]
  BY <1>1
<1>4. CASE w.first[n]
  <2>1. p = [w EXCEPT !.first = first]
    BY <1>1, <1>2, <1>4 DEF MemberPrefix, Writers
  <2>2. p \in Writers /\ p.reader = w.reader /\ p.first = first /\ p.expecting = w.expecting
    BY <1>1, <1>3, <2>1 DEF Writers
  <2> QED
    BY <1>1, <1>3, <1>4, <2>2 DEF Depth
<1>5. CASE ~w.first[n]
  <2> DEFINE r == WithPhase(w.reader, "comma")
  <2>1. r = ReadComma(w.reader)
    BY <1>1, <1>2, <1>5 DEF ReadComma
  <2>2. p = [w EXCEPT !.reader = r, !.first = first]
    BY <1>1, <1>2, <1>5, <2>1 DEF MemberPrefix
  <2>3. /\ r \in Readers /\ ~r.bad /\ Len(r.open) = n
        /\ \A i \in 1..n : i < n => r.open[i] = w.reader.open[i]
        /\ r.open[n].phase = "comma"
        /\ r.open[n].kind = w.reader.open[n].kind
        /\ r.open[n].keys = w.reader.open[n].keys
    BY <1>1, WithPhaseKeepsRest DEF Depth
  <2> HIDE DEF r
  <2>4. p \in Writers /\ p.reader = r /\ p.first = first /\ p.expecting = w.expecting
    BY <1>1, <1>3, <2>2, <2>3 DEF Writers
  <2> QED
    BY <1>1, <1>3, <2>3, <2>4
<1> QED
  BY <1>4, <1>5

\* Before every value that may come.
LEMMA ValuePrefixPoises ==
  ASSUME NEW w, Consistent(w), MayValue(w)
  PROVE  Poised(ValuePrefix(w)) /\ Depth(ValuePrefix(w)) = Depth(w)
<1> DEFINE n == Depth(w)
           p == ValuePrefix(w)
<1>1. /\ w \in Writers /\ w.reader.open \in Seq(Containers) /\ n \in Nat
      /\ w.first \in Seq(BOOLEAN) /\ Len(w.first) = n /\ w.expecting \in BOOLEAN
  BY DEF Consistent, Depth, Writers, Readers
<1>2. CASE n = 0
  <2>1. ~w.expecting /\ w.first = <<>> /\ w.reader.open = <<>> /\ ~w.reader.done
    BY <1>1, <1>2 DEF Consistent, Depth, MayValue
  <2>2. p = w
    BY <2>1 DEF ValuePrefix, MemberPrefix
  <2> QED
    BY <1>1, <1>2, <2>1, <2>2 DEF Consistent, Poised, Ready, Depth
<1>3. CASE n > 0 /\ w.expecting
  <2>1. p = [w EXCEPT !.expecting = FALSE]
    BY <1>3 DEF ValuePrefix
  <2>2. p \in Writers /\ p.reader = w.reader /\ p.first = w.first /\ ~p.expecting
    BY <1>1, <2>1 DEF Writers
  <2>3. Ready(w.reader)
    BY <1>1, <1>3, LastAndFront DEF Ready, Top, Last, Consistent, Depth
  <2> QED
    BY <1>1, <1>3, <2>2, <2>3 DEF Consistent, Poised, Depth
<1>4. CASE n > 0 /\ ~w.expecting
  <2>1. p = MemberPrefix(w)
    BY <1>4 DEF ValuePrefix
  <2>2. w.reader.open[n].kind = "array"
    BY <1>4 DEF MayValue, Innermost
  <2>3. /\ p \in Writers /\ ~p.reader.bad /\ ~p.expecting
        /\ Len(p.first) = n /\ Len(p.reader.open) = n
        /\ \A i \in 1..n : ~p.first[i] /\ (i < n => p.reader.open[i].phase = "member")
        /\ p.reader.open[n].phase \in {"fresh", "comma"}
        /\ p.reader.open[n].kind = "array"
    BY <1>4, <2>1, <2>2, MemberPrefixSeparates
  <2>4. p.reader.open # <<>> /\ Top(p.reader) = p.reader.open[n]
    BY <1>4, <2>3 DEF Top, Last, Writers, Readers
  <2>5. Ready(p.reader)
    BY <2>3, <2>4 DEF Ready
  <2> QED
    BY <2>3, <2>5 DEF Poised, Depth
<1> QED
  BY <1>1, <1>2, <1>3, <1>4

\* A value in its place leaves the reader settled around it.
LEMMA SettledKeepsShape ==
  ASSUME NEW w, Poised(w)
  PROVE  LET q == Settled(w.reader)
             n == Depth(w)
         IN /\ q \in Readers /\ ~q.bad /\ q.texts = w.reader.texts
            /\ Len(q.open) = n
            /\ \A i \in 1..n : q.open[i].phase = "member"
            /\ n > 0 => q.open[n].kind = w.reader.open[n].kind
            /\ n = 0 => q.done
<1> DEFINE n == Depth(w)
           q == Settled(w.reader)
<1>1. /\ w \in Writers /\ w.reader \in Readers /\ w.reader.open \in Seq(Containers)
      /\ n \in Nat /\ ~w.reader.bad
      /\ \A i \in 1..n : i < n => w.reader.open[i].phase = "member"
  BY DEF Poised, Depth, Writers, Readers
<1>2. CASE n = 0
  <2>1. w.reader.open = <<>>
    BY <1>1, <1>2 DEF Depth
  <2>2. q = [w.reader EXCEPT !.done = TRUE]
    BY <2>1 DEF Settled
  <2>3. /\ q \in Readers /\ q.open = w.reader.open /\ q.bad = w.reader.bad
        /\ q.texts = w.reader.texts /\ q.done
    BY <1>1, <2>2 DEF Readers
  <2> QED
    BY <1>1, <1>2, <2>3 DEF Depth
<1>3. CASE n > 0
  <2>1. w.reader.open # <<>>
    BY <1>1, <1>3 DEF Depth
  <2>2. q = WithPhase(w.reader, "member")
    BY <2>1 DEF Settled
  <2> QED
    BY <1>1, <1>3, <2>1, <2>2, WithPhaseKeepsRest DEF Depth
<1> QED
  BY <1>1, <1>2, <1>3

\* After a value that opens nothing, the writer is consistent again.
LEMMA ValueConsistent ==
  ASSUME NEW w, Poised(w), NEW r \in Readers,
         r.open = Settled(w.reader).open, ~r.bad
  PROVE  Consistent([w EXCEPT !.reader = r])
<1> DEFINE n == Depth(w)
           v == [w EXCEPT !.reader = r]
<1>1. /\ w \in Writers /\ n \in Nat /\ Len(w.first) = n /\ ~w.expecting
      /\ \A i \in 1..n : ~w.first[i]
  BY DEF Poised, Depth, Writers, Readers
<1>2. v \in Writers /\ v.reader = r /\ v.first = w.first /\ v.expecting = w.expecting
  BY <1>1 DEF Writers
<1>3. Len(r.open) = n /\ \A i \in 1..n : r.open[i].phase = "member"
  BY SettledKeepsShape
<1> HIDE DEF v
<1>4. Consistent(v)
  BY <1>1, <1>2, <1>3 DEF Consistent
<1> QED
  BY <1>4 DEF v

-----------------------------------------------------------------------------

\* An empty writer, on an empty text, is consistent.
THEOREM NewWriterConsistent == Consistent(NewWriter(NewReader))
<1>1. NewReader \in Readers /\ NewReader.open = <<>> /\ ~NewReader.bad
  BY DEF NewReader, Readers
<1>2. /\ NewWriter(NewReader) \in Writers
      /\ NewWriter(NewReader).reader = NewReader
      /\ NewWriter(NewReader).first = <<>> /\ ~NewWriter(NewReader).expecting
  BY <1>1 DEF NewWriter, Writers
<1> QED
  BY <1>1, <1>2 DEF Consistent

\* A number, a truth value or a fixed word, wherever a value may come.
THEOREM ScalarConsistent ==
  ASSUME NEW w, Consistent(w), MayValue(w)
  PROVE  Consistent(Scalar(w)) /\ Depth(Scalar(w)) = Depth(w)
<1> DEFINE p == ValuePrefix(w)
           r == ReadScalar(p.reader)
<1>1. Poised(p) /\ Depth(p) = Depth(w)
  BY ValuePrefixPoises
<1>2. r = Settled(p.reader)
  BY <1>1 DEF ReadScalar, Poised
<1>3. r \in Readers /\ ~r.bad /\ Len(r.open) = Depth(p)
  BY <1>1, <1>2, SettledKeepsShape
<1>4. Scalar(w) = [p EXCEPT !.reader = r]
  BY DEF Scalar
<1> HIDE DEF p, r
<1>5. Consistent([p EXCEPT !.reader = r])
  BY <1>1, <1>2, <1>3, ValueConsistent
<1>6. [p EXCEPT !.reader = r].reader = r
  BY <1>1 DEF Poised, Writers
<1> QED
  BY <1>1, <1>3, <1>4, <1>5, <1>6 DEF Depth

\* A string, wherever a value may come, if it is escaped so that a reader
\* takes it for one.
THEOREM StringConsistent ==
  ASSUME NEW w, Consistent(w), MayValue(w),
         NEW text, ~Unescaped(JsonEscape(text)).bad,
         Unescaped(JsonEscape(text)).text \in Seq(STRING)
  PROVE  Consistent(String(w, text)) /\ Depth(String(w, text)) = Depth(w)
<1> DEFINE p == ValuePrefix(w)
           read == Unescaped(JsonEscape(text)).text
           s == Settled(p.reader)
           r == [s EXCEPT !.texts = Append(s.texts, read)]
<1>1. Poised(p) /\ Depth(p) = Depth(w)
  BY ValuePrefixPoises
<1>2. ReadString(p.reader, JsonEscape(text)) = r
  BY <1>1 DEF ReadString, Poised
<1>3. s \in Readers /\ ~s.bad /\ Len(s.open) = Depth(p)
  BY <1>1, SettledKeepsShape
<1>4. r \in Readers /\ r.open = s.open /\ ~r.bad
  <2> HIDE DEF read, s
  <2>1. Append(s.texts, read) \in Seq(Seq(STRING))
    BY <1>3 DEF read, Readers
  <2> QED
    BY <1>3, <2>1 DEF Readers
<1>5. String(w, text) = [p EXCEPT !.reader = r]
  BY <1>2 DEF String
<1> HIDE DEF p, r, s
<1>6. Consistent([p EXCEPT !.reader = r])
  BY <1>1, <1>4, ValueConsistent DEF s
<1>7. [p EXCEPT !.reader = r].reader = r
  BY <1>1 DEF Poised, Writers
<1> QED
  BY <1>1, <1>3, <1>4, <1>5, <1>6, <1>7 DEF Depth

\* An object or an array begins, wherever a value may come; it is the innermost.
THEOREM BeginConsistent ==
  ASSUME NEW w, Consistent(w), MayValue(w), NEW kind \in Kinds
  PROVE  /\ Consistent(Begin(w, kind)) /\ Depth(Begin(w, kind)) = Depth(w) + 1
         /\ Innermost(Begin(w, kind)).kind = kind
<1> DEFINE p == ValuePrefix(w)
           n == Depth(w)
           s == Settled(p.reader)
           r == [s EXCEPT !.open = Append(s.open, Container(kind)), !.done = FALSE]
           first == Append(p.first, TRUE)
           b == Begin(w, kind)
<1>1. Poised(p) /\ Depth(p) = n
  BY ValuePrefixPoises
<1>2. /\ p \in Writers /\ n \in Nat /\ Len(p.first) = n /\ ~p.expecting
      /\ p.first \in Seq(BOOLEAN)
      /\ \A i \in 1..n : ~p.first[i]
  BY <1>1 DEF Poised, Depth, Writers, Readers
<1>3. /\ s \in Readers /\ ~s.bad /\ Len(s.open) = n
      /\ \A i \in 1..n : s.open[i].phase = "member"
  BY <1>1, SettledKeepsShape
<1>4. ReadOpen(p.reader, kind) = r
  BY <1>1 DEF ReadOpen, Poised
<1>5. b = [p EXCEPT !.reader = r, !.first = first]
  BY <1>4 DEF Begin
<1> HIDE DEF p, s
<1>6. Container(kind) \in Containers /\ Container(kind).phase = "fresh" /\ Container(kind).kind = kind
  BY DEF Container, Containers
<1> DEFINE open == Append(s.open, Container(kind))
<1>7. /\ open \in Seq(Containers) /\ Len(open) = n + 1
      /\ open[n + 1] = Container(kind)
      /\ \A i \in 1..n : open[i].phase = "member"
  BY <1>2, <1>3, <1>6 DEF Readers
<1>8. r \in Readers /\ r.open = open /\ ~r.bad
  BY <1>3, <1>7 DEF Readers
<1>9. /\ first \in Seq(BOOLEAN) /\ Len(first) = n + 1 /\ first[n + 1]
      /\ \A i \in 1..n : ~first[i]
  BY <1>2
<1> HIDE DEF r, first, open, n, b
<1>10. b \in Writers /\ b.reader = r /\ b.first = first /\ b.expecting = p.expecting
  BY <1>2, <1>5, <1>8, <1>9 DEF Writers
<1>11. Consistent(b)
  BY <1>2, <1>6, <1>7, <1>8, <1>9, <1>10 DEF Consistent
<1> QED
  BY <1>6, <1>7, <1>8, <1>10, <1>11, <1>2 DEF Depth, Innermost, b, n

\* A key that is new to the innermost object; its value may come next.
THEOREM KeyConsistent ==
  ASSUME NEW w, Consistent(w), NEW name \in STRING, MayKey(w, name)
  PROVE  /\ Consistent(Key(w, name)) /\ Depth(Key(w, name)) = Depth(w)
         /\ MayValue(Key(w, name))
<1> DEFINE p == MemberPrefix(w)
           n == Depth(w)
           top == [kind |-> p.reader.open[n].kind, phase |-> "key",
                   keys |-> p.reader.open[n].keys \cup {name}]
           open == [p.reader.open EXCEPT ![n] = top]
           r == [p.reader EXCEPT !.open = open]
           k == Key(w, name)
<1>1. /\ p \in Writers /\ ~p.reader.bad /\ ~p.expecting
      /\ Len(p.first) = n /\ Len(p.reader.open) = n
      /\ \A i \in 1..n : ~p.first[i] /\ (i < n => p.reader.open[i].phase = "member")
      /\ p.reader.open[n].phase \in {"fresh", "comma"}
      /\ p.reader.open[n].kind = "object" /\ name \notin p.reader.open[n].keys
      /\ n > 0
  BY MemberPrefixSeparates DEF MayKey, Innermost
<1>2. p.reader \in Readers /\ p.reader.open \in Seq(Containers) /\ n \in Nat \ {0}
  BY <1>1 DEF Writers, Readers
<1>3. p.reader.open # <<>> /\ Top(p.reader) = p.reader.open[n]
  BY <1>1, <1>2 DEF Top, Last
<1>4. ReadKey(p.reader, name) = r
  BY <1>1, <1>2, <1>3 DEF ReadKey
<1>5. k = [p EXCEPT !.reader = r, !.expecting = TRUE]
  BY <1>4 DEF Key
<1> HIDE DEF p, n
<1>6. top \in Containers /\ top.phase = "key" /\ top.kind = "object"
  <2>1. p.reader.open[n] \in Containers
    BY <1>1, <1>2
  <2> QED
    BY <1>1, <2>1 DEF Containers
<1> HIDE DEF top
<1>7. /\ open \in Seq(Containers) /\ Len(open) = n /\ open[n] = top
      /\ \A i \in 1..n : i < n => open[i].phase = "member"
  BY <1>1, <1>2, <1>6
<1> HIDE DEF open
<1>8. r \in Readers /\ r.open = open /\ ~r.bad
  BY <1>1, <1>2, <1>7 DEF Readers
<1> HIDE DEF r, k
<1>9. k \in Writers /\ k.reader = r /\ k.first = p.first /\ k.expecting
  BY <1>1, <1>5, <1>8 DEF Writers
<1>10. Consistent(k)
  BY <1>1, <1>2, <1>6, <1>7, <1>8, <1>9 DEF Consistent
<1> QED
  BY <1>2, <1>7, <1>8, <1>9, <1>10 DEF Depth, MayValue, k, n

\* The innermost container ends; the one around it is as it was.
THEOREM EndConsistent ==
  ASSUME NEW w, Consistent(w), NEW kind \in Kinds, MayEnd(w, kind)
  PROVE  /\ Consistent(End(w, kind)) /\ Depth(End(w, kind)) = Depth(w) - 1
         /\ Depth(w) = 1 => End(w, kind).reader.done
<1> DEFINE n == Depth(w)
           r == [w.reader EXCEPT !.open = Front(@), !.done = Len(w.reader.open) = 1]
           e == End(w, kind)
<1>1. /\ w \in Writers /\ w.reader \in Readers /\ w.first \in Seq(BOOLEAN)
      /\ w.reader.open \in Seq(Containers) /\ n \in Nat \ {0} /\ Len(w.first) = n
      /\ ~w.reader.bad /\ ~w.expecting
  BY DEF Consistent, Depth, Writers, Readers, MayEnd
<1>2. /\ \A i \in 1..n : i < n => w.reader.open[i].phase = "member" /\ ~w.first[i]
      /\ w.reader.open[n].phase # "comma" /\ w.reader.open[n].phase # "key"
      /\ w.reader.open[n].kind = kind
  BY <1>1 DEF Consistent, Depth, MayEnd, Innermost
<1>3. w.reader.open # <<>> /\ w.first # <<>> /\ Top(w.reader) = w.reader.open[n]
  BY <1>1 DEF Top, Last, Depth
<1>4. w.reader.open[n].phase \in {"fresh", "member"}
  <2>1. w.reader.open[n] \in Containers
    BY <1>1 DEF Depth
  <2> QED
    BY <1>2, <2>1 DEF Containers
<1>5. ReadClose(w.reader, kind) = r
  BY <1>2, <1>3, <1>4 DEF ReadClose
<1>6. e = [w EXCEPT !.reader = r, !.first = Front(w.first)]
  <2> HIDE DEF r
  <2> QED
    BY <1>5 DEF End
<1>7. /\ Front(w.reader.open) \in Seq(Containers) /\ Len(Front(w.reader.open)) = n - 1
      /\ \A i \in 1..n - 1 : Front(w.reader.open)[i] = w.reader.open[i]
      /\ Front(w.first) \in Seq(BOOLEAN) /\ Len(Front(w.first)) = n - 1
      /\ \A i \in 1..n - 1 : Front(w.first)[i] = w.first[i]
  BY <1>1, <1>3, LastAndFront DEF Depth
<1>8. r \in Readers /\ r.open = Front(w.reader.open) /\ r.done = (n = 1) /\ ~r.bad
  BY <1>1, <1>7 DEF Readers, Depth
<1> HIDE DEF r, e, n
<1>9. /\ e \in Writers /\ e.reader = r /\ e.first = Front(w.first)
      /\ e.expecting = w.expecting
  BY <1>1, <1>6, <1>7, <1>8 DEF Writers
<1>10. \A i \in 1..n - 1 : r.open[i].phase = "member" /\ ~e.first[i]
  <2> SUFFICES ASSUME NEW i \in 1..n - 1 PROVE r.open[i].phase = "member" /\ ~e.first[i]
    OBVIOUS
  <2>1. i \in 1..n /\ i < n
    BY <1>1
  <2>2. r.open[i] = w.reader.open[i] /\ e.first[i] = w.first[i]
    BY <1>7, <1>8, <1>9
  <2>3. QED
    BY <1>2, <2>1, <2>2
<1>11. Consistent(e)
  BY <1>1, <1>7, <1>8, <1>9, <1>10 DEF Consistent
<1>12. Depth(e) = n - 1 /\ (n = 1 => e.reader.done)
  BY <1>1, <1>7, <1>8, <1>9 DEF Depth
<1> QED
  BY <1>11, <1>12 DEF e, n

-----------------------------------------------------------------------------
(***************************************************************************)
(* Calls one after the other.                                              *)
(***************************************************************************)

LEMMA TheOne == ASSUME NEW e PROVE (CHOOSE x \in {e} : TRUE) = e
  OBVIOUS

IsRun(h, w, calls, n) ==
  h = [i \in 0..n |-> IF i = 0 THEN w ELSE Perform(h[i - 1], calls[i])]

LEMMA RunIs ==
  ASSUME NEW h, NEW w, NEW calls, NEW n \in Nat, h = [i \in 0..n |-> h[i]],
         h[0] = w, \A i \in 1..n : h[i] = Perform(h[i - 1], calls[i])
  PROVE  IsRun(h, w, calls, n)
<1>1. \A i \in 0..n : h[i] = IF i = 0 THEN w ELSE Perform(h[i - 1], calls[i])
  <2> TAKE i \in 0..n
  <2>1. CASE i = 0
    BY <2>1
  <2>2. CASE i # 0
    <3>1. i \in 1..n
      BY <2>2
    <3>2. QED
      BY <2>2, <3>1
  <2>3. QED
    BY <2>1, <2>2
<1>2. QED
  BY <1>1 DEF IsRun

LEMMA RunUse ==
  ASSUME NEW h, NEW w, NEW calls, NEW n \in Nat, IsRun(h, w, calls, n)
  PROVE  /\ h = [i \in 0..n |-> h[i]] /\ h[0] = w
         /\ \A i \in 1..n : h[i] = Perform(h[i - 1], calls[i])
<1>1. \A i \in 0..n : h[i] = IF i = 0 THEN w ELSE Perform(h[i - 1], calls[i])
  BY DEF IsRun
<1>2. h = [i \in 0..n |-> h[i]]
  BY DEF IsRun
<1>3. h[0] = w
  BY <1>1
<1>4. \A i \in 1..n : i \in 0..n /\ i # 0
  OBVIOUS
<1>5. QED
  BY <1>1, <1>2, <1>3, <1>4

LEMMA RunExists ==
  ASSUME NEW w, NEW calls, NEW n \in Nat
  PROVE  \E h : IsRun(h, w, calls, n)
<1> DEFINE G == {m \in 0..n : \E h : IsRun(h, w, calls, m)}
<1>1. 0 \in G
  <2> DEFINE h == [i \in 0..0 |-> w]
  <2>1. h = [i \in 0..0 |-> h[i]] /\ h[0] = w
    OBVIOUS
  <2> HIDE DEF h
  <2>2. \A i \in 1..0 : h[i] = Perform(h[i - 1], calls[i])
    OBVIOUS
  <2>3. IsRun(h, w, calls, 0)
    BY <2>1, <2>2, RunIs
  <2>4. QED
    BY <2>3
<1>2. ASSUME NEW m \in 1..n, m - 1 \in G PROVE m \in G
  <2>1. PICK g : IsRun(g, w, calls, m - 1)
    BY <1>2
  <2>2. g[0] = w /\ \A i \in 1..(m - 1) : g[i] = Perform(g[i - 1], calls[i])
    BY <2>1, RunUse
  <2> DEFINE h == [i \in 0..m |-> IF i = m THEN Perform(g[m - 1], calls[m]) ELSE g[i]]
  <2>3. /\ h = [i \in 0..m |-> h[i]] /\ h[m] = Perform(g[m - 1], calls[m])
        /\ \A i \in 0..(m - 1) : h[i] = g[i]
    OBVIOUS
  <2> HIDE DEF h
  <2>4. ASSUME NEW i \in 1..m PROVE h[i] = Perform(h[i - 1], calls[i])
    <3>1. i - 1 \in 0..(m - 1)
      OBVIOUS
    <3>2. CASE i = m
      BY <2>3, <3>1, <3>2
    <3>3. CASE i # m
      <4>1. i \in 1..(m - 1) /\ i \in 0..(m - 1)
        BY <3>3
      <4>2. QED
        BY <2>2, <2>3, <3>1, <4>1
    <3>4. QED
      BY <3>2, <3>3
  <2>5. IsRun(h, w, calls, m)
    <3>1. 0 \in 0..(m - 1)
      OBVIOUS
    <3>2. h[0] = w
      BY <2>2, <2>3, <3>1
    <3>3. m \in Nat /\ \A i \in 1..m : h[i] = Perform(h[i - 1], calls[i])
      BY <2>4
    <3>4. QED
      BY <2>3, <3>2, <3>3, RunIs
  <2>6. QED
    BY <2>5
<1>3. n \in G
  <2>1. \A m \in 1..n : m - 1 \in G => m \in G
    BY <1>2
  <2> HIDE DEF G
  <2>2. 0..n \subseteq G
    BY ONLY n \in Nat, <1>1, <2>1, UpTo
  <2>3. QED
    BY <2>2
<1>4. QED
  BY <1>3

LEMMA RunUnique ==
  ASSUME NEW f, NEW g, NEW w, NEW calls, NEW n \in Nat,
         IsRun(f, w, calls, n), IsRun(g, w, calls, n)
  PROVE  f[n] = g[n]
<1> DEFINE G == {i \in 0..n : f[i] = g[i]}
<1>1. /\ f[0] = w /\ \A i \in 1..n : f[i] = Perform(f[i - 1], calls[i])
      /\ g[0] = w /\ \A i \in 1..n : g[i] = Perform(g[i - 1], calls[i])
  BY RunUse
<1>2. 0 \in G
  BY <1>1
<1>3. \A i \in 1..n : i - 1 \in G => i \in G
  BY <1>1
<1>4. n \in G
  <2> HIDE DEF G
  <2>1. QED
    BY <1>2, <1>3, UpTo
<1>5. QED
  BY <1>4

LEMMA PerformedIs ==
  ASSUME NEW w, NEW calls, Len(calls) \in Nat, NEW h, IsRun(h, w, calls, Len(calls))
  PROVE  Performed(w, calls) = h[Len(calls)]
<1> DEFINE n == Len(calls)
           Eq(g) == g = [i \in 0..n |->
                     IF i = 0 THEN w
                     ELSE CHOOSE x \in {Perform(v, calls[i]) : v \in {g[i - 1]}} : TRUE]
           g == CHOOSE g : Eq(g)
<1>1. Performed(w, calls) = g[n]
  BY DEF Performed
<1>2. ASSUME NEW f PROVE Eq(f) <=> IsRun(f, w, calls, n)
  <2>1. ASSUME NEW i PROVE (CHOOSE x \in {Perform(v, calls[i]) : v \in {f[i - 1]}} : TRUE)
                           = Perform(f[i - 1], calls[i])
    <3>1. {Perform(v, calls[i]) : v \in {f[i - 1]}} = {Perform(f[i - 1], calls[i])}
      OBVIOUS
    <3>2. QED
      BY <3>1, TheOne
  <2>2. QED
    BY <2>1 DEF IsRun
<1>3. Eq(g)
  <2>1. Eq(h)
    BY <1>2
  <2> HIDE DEF Eq
  <2>2. QED
    BY <2>1
<1>4. IsRun(g, w, calls, n)
  <2> HIDE DEF g, Eq
  <2>1. QED
    BY <1>2, <1>3
<1> HIDE DEF g, Eq
<1>5. QED
  BY <1>1, <1>4, RunUnique

LEMMA PerformedNone == ASSUME NEW w PROVE Performed(w, <<>>) = w
<1>1. PICK h : IsRun(h, w, <<>>, 0)
  BY RunExists
<1>2. QED
  BY <1>1, PerformedIs, RunUse

LEMMA PerformedOne == ASSUME NEW w, NEW c PROVE Performed(w, <<c>>) = Perform(w, c)
<1>1. Len(<<c>>) = 1 /\ <<c>>[1] = c
  OBVIOUS
<1>2. PICK h : IsRun(h, w, <<c>>, 1)
  BY RunExists
<1>3. h[0] = w /\ h[1] = Perform(h[1 - 1], c)
  BY <1>1, <1>2, RunUse
<1>4. 1 - 1 = 0
  OBVIOUS
<1>5. QED
  BY <1>1, <1>2, <1>3, <1>4, PerformedIs

LEMMA PerformedBoth ==
  ASSUME NEW w, NEW S, NEW a \in Seq(S), NEW b \in Seq(S)
  PROVE  Performed(w, a \o b) = Performed(Performed(w, a), b)
<1> DEFINE m == Len(a)
           n == Len(b)
<1>1. m \in Nat /\ n \in Nat /\ Len(a \o b) = m + n
  OBVIOUS
<1>2. /\ \A i \in 1..m : (a \o b)[i] = a[i]
      /\ \A i \in 1..(m + n) : i > m => (a \o b)[i] = b[i - m]
  OBVIOUS
<1>3. PICK f : IsRun(f, w, a, m)
  BY <1>1, RunExists
<1>4. PICK g : IsRun(g, f[m], b, n)
  BY <1>1, RunExists
<1>5. /\ f[0] = w /\ \A i \in 1..m : f[i] = Perform(f[i - 1], a[i])
      /\ g[0] = f[m] /\ \A i \in 1..n : g[i] = Perform(g[i - 1], b[i])
  BY <1>1, <1>3, <1>4, RunUse
<1>6. Performed(w, a) = f[m] /\ Performed(f[m], b) = g[n]
  BY <1>1, <1>3, <1>4, PerformedIs
<1> HIDE DEF m, n
<1> DEFINE h == [i \in 0..(m + n) |-> IF i <= m THEN f[i] ELSE g[i - m]]
<1>7. /\ h = [i \in 0..(m + n) |-> h[i]]
      /\ \A i \in 0..(m + n) : h[i] = IF i <= m THEN f[i] ELSE g[i - m]
  OBVIOUS
<1> HIDE DEF h
<1>8. h[0] = w
  <2>1. 0 \in 0..(m + n) /\ 0 <= m
    BY <1>1
  <2>2. QED
    BY <1>5, <1>7, <2>1
<1>9. ASSUME NEW p, p = m + n PROVE h[p] = g[n]
  <2>1. p \in 0..(m + n) /\ p - m = n
    BY <1>1, <1>9
  <2>2. h[p] = IF p <= m THEN f[p] ELSE g[p - m]
    BY <1>7, <2>1
  <2>3. CASE n = 0
    BY <1>1, <1>5, <1>9, <2>2, <2>3
  <2>4. CASE n # 0
    <3>1. ~(p <= m)
      BY <1>1, <1>9, <2>4
    <3>2. QED
      BY <2>1, <2>2, <3>1
  <2>5. QED
    BY <2>3, <2>4
<1>10. ASSUME NEW i \in 1..(m + n) PROVE h[i] = Perform(h[i - 1], (a \o b)[i])
  <2>1. i \in 0..(m + n) /\ i - 1 \in 0..(m + n)
    BY <1>1
  <2>2. CASE i <= m
    <3>1. i \in 1..m /\ i - 1 <= m
      BY <1>1, <2>2
    <3>2. h[i] = f[i] /\ h[i - 1] = f[i - 1]
      BY <1>7, <2>1, <2>2, <3>1
    <3>3. QED
      BY <1>2, <1>5, <3>1, <3>2
  <2>3. CASE i > m
    <3>1. i - m \in 1..n /\ ~(i <= m)
      BY <1>1, <2>3
    <3>2. h[i] = g[i - m] /\ g[i - m] = Perform(g[i - m - 1], b[i - m])
      BY <1>5, <1>7, <2>1, <3>1
    <3>3. h[i - 1] = g[i - m - 1]
      <4>1. CASE i - 1 = m
        <5>1. i - m - 1 = 0 /\ i - 1 <= m
          BY <1>1, <4>1
        <5>2. QED
          BY <1>5, <1>7, <2>1, <4>1, <5>1
      <4>2. CASE i - 1 # m
        <5>1. ~(i - 1 <= m) /\ i - 1 - m = i - m - 1
          BY <1>1, <2>3, <4>2
        <5>2. QED
          BY <1>7, <2>1, <5>1
      <4>3. QED
        BY <4>1, <4>2
    <3>4. QED
      BY <1>2, <2>3, <3>2, <3>3
  <2>4. QED
    BY <1>1, <2>2, <2>3
<1>11. IsRun(h, w, a \o b, m + n)
  <2>1. m + n \in Nat /\ \A i \in 1..(m + n) : h[i] = Perform(h[i - 1], (a \o b)[i])
    BY <1>1, <1>10
  <2>2. QED
    BY <1>7, <1>8, <2>1, RunIs
<1>12. Performed(w, a \o b) = h[m + n]
  <2> DEFINE c == a \o b
  <2>1. IsRun(h, w, c, Len(c)) /\ Len(c) \in Nat /\ Len(c) = m + n
    BY <1>1, <1>11
  <2> HIDE DEF c
  <2>2. Performed(w, c) = h[Len(c)]
    BY <2>1, PerformedIs
  <2>3. QED
    BY <2>1, <2>2 DEF c
<1>13. QED
  BY <1>6, <1>9, <1>12

\* How far the first n + 1 pieces of sixteen calls reach.
Reach(n, length) == IF n < length \div 16 THEN 16 * n + 16 ELSE length

LEMMA PieceFollows ==
  ASSUME NEW S, NEW calls \in Seq(S), NEW n \in 0..Len(calls) \div 16
  PROVE  /\ Reach(n, Len(calls)) \in 0..Len(calls)
         /\ 16 * n \in 0..Reach(n, Len(calls))
         /\ SubSeq(calls, 1, 16 * n) \in Seq(S)
         /\ SubSeq(calls, 16 * n + 1, Reach(n, Len(calls))) \in Seq(S)
         /\ SubSeq(calls, 1, Reach(n, Len(calls)))
              = SubSeq(calls, 1, 16 * n) \o SubSeq(calls, 16 * n + 1, Reach(n, Len(calls)))
<1> DEFINE m == Len(calls)
           r == Reach(n, m)
<1>1. m \in Nat /\ 16 * (m \div 16) <= m /\ m \div 16 \in Nat
  <2>1. m \in Nat
    OBVIOUS
  <2>2. QED
    BY <2>1
<1> HIDE DEF m
<1>2. n \in Nat /\ n <= m \div 16
  BY <1>1 DEF m
<1>3. r \in 0..m /\ 16 * n \in 0..r /\ r \in Int /\ 16 * n \in Nat
  <2>1. CASE n < m \div 16
    BY <1>1, <1>2, <2>1 DEF Reach
  <2>2. CASE ~(n < m \div 16)
    BY <1>1, <1>2, <2>2 DEF Reach
  <2>3. QED
    BY <2>1, <2>2
<1> HIDE DEF r
<1>4. 1 \in 1..(m + 1) /\ 16 * n \in (1 - 1)..m /\ r \in (16 * n)..m
  BY <1>1, <1>3
<1>5. SubSeq(calls, 1, 16 * n) \o SubSeq(calls, 16 * n + 1, r) = SubSeq(calls, 1, r)
  BY <1>4, ConcatAdjacentSubSeq DEF m
<1>6. /\ \A i \in 1..(16 * n) : calls[i] \in S
      /\ \A i \in (16 * n + 1)..r : calls[i] \in S
  <2>1. \A i \in 1..m : calls[i] \in S
    BY DEF m
  <2>2. QED
    BY <1>1, <1>3, <2>1
<1>7. SubSeq(calls, 1, 16 * n) \in Seq(S) /\ SubSeq(calls, 16 * n + 1, r) \in Seq(S)
  BY <1>3, <1>6, SubSeqProperties
<1>8. QED
  BY <1>3, <1>5, <1>7 DEF m, r

LEMMA WrittenIs ==
  ASSUME NEW S, NEW w, NEW calls \in Seq(S)
  PROVE  Written(w, calls) = Performed(w, calls)
<1> DEFINE m == Len(calls)
           whole == m \div 16
           Piece(n) == SubSeq(calls, 16 * n + 1, Reach(n, m))
           Eq(g) == g = [n \in 0..whole |->
                CHOOSE x \in {Performed(v, Piece(n)) : v \in {IF n = 0 THEN w ELSE g[n - 1]}} : TRUE]
           Is(g) == /\ g = [n \in 0..whole |-> g[n]]
                    /\ \A n \in 0..whole :
                         g[n] = Performed(IF n = 0 THEN w ELSE g[n - 1], Piece(n))
           f == [n \in 0..whole |-> Performed(w, SubSeq(calls, 1, Reach(n, m)))]
           g == CHOOSE g : Eq(g)
<1>1. Written(w, calls) = g[whole]
  BY DEF Written, Reach
<1>2. ASSUME NEW h PROVE Eq(h) <=> Is(h)
  <2>1. ASSUME NEW n PROVE
          (CHOOSE x \in {Performed(v, Piece(n)) : v \in {IF n = 0 THEN w ELSE h[n - 1]}} : TRUE)
             = Performed(IF n = 0 THEN w ELSE h[n - 1], Piece(n))
    <3> DEFINE u == IF n = 0 THEN w ELSE h[n - 1]
    <3> HIDE DEF u
    <3>1. {Performed(v, Piece(n)) : v \in {u}} = {Performed(u, Piece(n))}
      OBVIOUS
    <3>2. (CHOOSE x \in {Performed(v, Piece(n)) : v \in {u}} : TRUE) = Performed(u, Piece(n))
      BY <3>1, TheOne
    <3>3. QED
      BY <3>2 DEF u
  <2> HIDE DEF Piece, whole
  <2>2. QED
    BY <2>1
<1>3. m \in Nat /\ whole \in Nat
  <2>1. m \in Nat
    OBVIOUS
  <2>2. QED
    BY <2>1
<1>4. SubSeq(calls, 1, 0) = <<>>
  BY SubSeqEmpty
<1>5. \A n \in 0..whole :
        f[n] = Performed(Performed(w, SubSeq(calls, 1, 16 * n)), Piece(n))
  <2> SUFFICES ASSUME NEW n \in 0..whole
               PROVE  f[n] = Performed(Performed(w, SubSeq(calls, 1, 16 * n)), Piece(n))
    OBVIOUS
  <2> DEFINE before == SubSeq(calls, 1, 16 * n)
  <2>1. /\ before \in Seq(S) /\ Piece(n) \in Seq(S)
        /\ SubSeq(calls, 1, Reach(n, m)) = before \o Piece(n)
    BY PieceFollows
  <2>2. f[n] = Performed(w, SubSeq(calls, 1, Reach(n, m)))
    OBVIOUS
  <2> HIDE DEF before, Piece, f
  <2>3. Performed(w, before \o Piece(n)) = Performed(Performed(w, before), Piece(n))
    BY <2>1, PerformedBoth
  <2>4. QED
    BY <2>1, <2>2, <2>3 DEF before
<1>6. ASSUME NEW n \in 1..whole PROVE f[n - 1] = Performed(w, SubSeq(calls, 1, 16 * n))
  <2>1. n - 1 \in 0..whole /\ n - 1 < whole /\ 16 * (n - 1) + 16 = 16 * n
    BY <1>3
  <2>2. Reach(n - 1, m) = 16 * n
    BY <2>1 DEF Reach
  <2>3. QED
    BY <2>1, <2>2
<1>7. Is(f)
  <2>1. f = [n \in 0..whole |-> f[n]]
    OBVIOUS
  <2>2. ASSUME NEW n \in 0..whole
        PROVE  f[n] = Performed(IF n = 0 THEN w ELSE f[n - 1], Piece(n))
    <3>1. CASE n = 0
      <4>1. 16 * n = 0
        BY <3>1
      <4>2. SubSeq(calls, 1, 16 * n) = <<>>
        BY <1>4, <4>1
      <4> HIDE DEF f, Piece
      <4>3. QED
        BY <1>5, <3>1, <4>2, PerformedNone
    <3>2. CASE n # 0
      <4>1. n \in 1..whole
        BY <1>3, <3>2
      <4> HIDE DEF f, Piece
      <4>2. QED
        BY <1>5, <1>6, <3>2, <4>1
    <3>3. QED
      BY <3>1, <3>2
  <2> HIDE DEF f, Piece
  <2>3. QED
    BY <2>1, <2>2
<1>8. Is(g)
  <2> HIDE DEF f, Eq, Is
  <2>1. Eq(f)
    BY <1>2, <1>7
  <2>2. Eq(g)
    BY <2>1
  <2>3. QED
    BY <1>2, <2>2
<1> HIDE DEF f, g, Piece, whole
<1>9. 0..whole \subseteq {n \in 0..whole : g[n] = f[n]}
  <2> DEFINE G == {n \in 0..whole : g[n] = f[n]}
  <2>1. 0 \in 0..whole
    BY <1>3
  <2>2. 0 \in G
    BY <1>7, <1>8, <2>1
  <2>3. ASSUME NEW n \in 1..whole, n - 1 \in G PROVE n \in G
    <3>1. n \in 0..whole /\ n # 0
      BY <1>3
    <3>2. QED
      BY <1>7, <1>8, <2>3, <3>1
  <2>4. \A n \in 1..whole : n - 1 \in G => n \in G
    BY <2>3
  <2> HIDE DEF G
  <2>5. 0..whole \subseteq G
    BY ONLY <1>3, <2>2, <2>4, UpTo
  <2>6. QED
    BY <2>5 DEF G
<1>10. g[whole] = f[whole]
  BY <1>3, <1>9
<1>11. f[whole] = Performed(w, calls)
  <2>1. Reach(whole, m) = m /\ whole \in 0..whole
    BY <1>3 DEF Reach, whole
  <2>2. SubSeq(calls, 1, m) = calls
    BY SubSeqFull
  <2>3. f[whole] = Performed(w, SubSeq(calls, 1, Reach(whole, m)))
    BY <2>1 DEF f
  <2>4. QED
    BY <2>1, <2>2, <2>3
<1>12. QED
  BY <1>1, <1>10, <1>11

-----------------------------------------------------------------------------

LEMMA FlattenSteps ==
  ASSUME NEW T, NEW seqs \in Seq(Seq(T))
  PROVE  \E flat \in [0..Len(seqs) -> Seq(T)] :
            /\ flat[0] = <<>> /\ flat[Len(seqs)] = FlattenSeq(seqs)
            /\ \A i \in 1..Len(seqs) : flat[i] = flat[i - 1] \o seqs[i]
<1> DEFINE n == Len(seqs)
           step == [i \in 1..n |-> [s \in Seq(T) |-> s \o seqs[i]]]
<1>1. n \in Nat /\ \A i \in 1..n : seqs[i] \in Seq(T)
  OBVIOUS
<1>2. \A s \in Seq(T), t \in Seq(T) : s \o t \in Seq(T)
  BY ConcatProperties
<1>3. step \in [1..n -> [Seq(T) -> Seq(T)]]
  BY <1>1, <1>2
<1>4. <<>> \in Seq(T)
  OBVIOUS
<1> HIDE DEF n
<1>5. \E h \in [0..n -> Seq(T)] : h[0] = <<>> /\ \A i \in 1..n : h[i] = step[i][h[i - 1]]
  <2> DEFINE W == Seq(T)
             base == <<>>
  <2>1. n \in Nat /\ base \in W /\ IsStep(step, n, W)
    BY <1>1, <1>3, <1>4 DEF IsStep
  <2> HIDE DEF step, W, base
  <2>2. \E h : IsIteration(h, n, W, base, step)
    BY <2>1, Iterates
  <2>3. QED
    BY <2>2 DEF W, base, IsIteration
<1>6. PICK h \in [0..n -> Seq(T)] : h[0] = <<>> /\ \A i \in 1..n : h[i] = step[i][h[i - 1]]
  BY <1>5
<1>7. \A i \in 1..n : i - 1 \in 0..n /\ i \in 0..n
  BY <1>1
<1>8. \A i \in 1..n : h[i] = h[i - 1] \o seqs[i]
  BY <1>6, <1>7
<1> HIDE DEF step
<1>9. CASE n = 0
  <2>1. seqs = <<>>
    BY <1>9 DEF n
  <2>2. FlattenSeq(seqs) = <<>>
    BY <1>9, <2>1 DEF FlattenSeq, n
  <2>3. QED
    BY <1>6, <1>8, <1>9, <2>2 DEF n
<1>10. CASE n # 0
  <2> DEFINE Eq(g) == g = [i \in 1..n |-> IF i = 1 THEN seqs[i] ELSE g[i - 1] \o seqs[i]]
             g == CHOOSE g : Eq(g)
             f == [i \in 1..n |-> h[i]]
  <2>1. FlattenSeq(seqs) = g[n]
    BY <1>10 DEF FlattenSeq, n
  <2>2. Eq(f)
    <3>1. ASSUME NEW i \in 1..n
          PROVE  h[i] = IF i = 1 THEN seqs[i] ELSE f[i - 1] \o seqs[i]
      <4>1. CASE i = 1
        <5>1. h[i - 1] = <<>>
          BY <1>6, <4>1
        <5>2. QED
          BY <1>1, <1>8, <4>1, <5>1, ConcatEmptySeq
      <4>2. CASE i # 1
        <5>1. i - 1 \in 1..n
          BY <1>1, <4>2
        <5>2. QED
          BY <1>8, <4>2, <5>1
      <4>3. QED
        BY <4>1, <4>2
    <3>2. QED
      BY <3>1
  <2>3. Eq(g)
    <3> HIDE DEF Eq, f
    <3>1. QED
      BY <2>2
  <2>4. \A i \in 1..n : g[i] = IF i = 1 THEN seqs[i] ELSE g[i - 1] \o seqs[i]
    <3> HIDE DEF g
    <3>1. QED
      BY <2>3
  <2> HIDE DEF g, Eq, f
  <2>5. 0..n \subseteq {i \in 0..n : i = 0 \/ g[i] = h[i]}
    <3> DEFINE G == {i \in 0..n : i = 0 \/ g[i] = h[i]}
    <3>1. 0 \in G
      BY <1>1
    <3>2. ASSUME NEW i \in 1..n, i - 1 \in G PROVE i \in G
      <4>1. CASE i = 1
        <5>1. h[i - 1] = <<>> /\ g[i] = seqs[i]
          BY <1>6, <2>4, <4>1
        <5>2. g[i] = h[i]
          BY <1>1, <1>8, <5>1, ConcatEmptySeq
        <5>3. QED
          BY <1>7, <5>2
      <4>2. CASE i # 1
        <5>1. i - 1 # 0
          BY <4>2
        <5>2. g[i - 1] = h[i - 1]
          BY <3>2, <5>1
        <5>3. g[i] = h[i]
          BY <1>8, <2>4, <4>2, <5>2
        <5>4. QED
          BY <1>7, <5>3
      <4>3. QED
        BY <4>1, <4>2
    <3>3. \A i \in 1..n : i - 1 \in G => i \in G
      BY <3>2
    <3> HIDE DEF G
    <3>4. 0..n \subseteq G
      BY ONLY <1>1, <3>1, <3>3, UpTo
    <3>5. QED
      BY <3>4 DEF G
  <2>6. g[n] = h[n]
    BY <1>1, <1>10, <2>5
  <2>7. QED
    BY <1>6, <1>8, <2>1, <2>6 DEF n
<1>11. QED
  BY <1>9, <1>10

-----------------------------------------------------------------------------
(***************************************************************************)
(* What json_escape writes is read back as it was.                         *)
(***************************************************************************)

\* A set of characters with those that an escape may need.
Alphabet(T) == {"quote", "backslash", "newline", "control", "n", "u"} \subseteq T

Read(T) == [text : Seq(T), escape : BOOLEAN, bad : BOOLEAN]

\* What a reader of characters has when it has read the whole of a text.
Has(text, escape) == [text |-> text, escape |-> escape, bad |-> FALSE]

LEMMA EscapesAre ==
  /\ DOMAIN EscapeOf = {"quote", "backslash", "n", "u"}
  /\ EscapeOf["quote"] = "quote" /\ EscapeOf["backslash"] = "backslash"
  /\ EscapeOf["n"] = "newline" /\ EscapeOf["u"] = "control"
  BY DEF EscapeOf

LEMMA ReadCharType ==
  ASSUME NEW T, Alphabet(T), NEW acc \in Read(T), NEW c \in T
  PROVE  ReadChar(acc, c) \in Read(T)
<1>1. \A t \in Seq(T), s \in T : Append(t, s) \in Seq(T)
  BY AppendProperties
<1>2. c \in DOMAIN EscapeOf => EscapeOf[c] \in T
  BY EscapesAre DEF Alphabet
<1>3. CASE acc.bad
  BY <1>3 DEF ReadChar
<1>4. CASE ~acc.bad /\ acc.escape
  <2>1. CASE c \in DOMAIN EscapeOf
    <3> DEFINE t == Append(acc.text, EscapeOf[c])
    <3>1. t \in Seq(T)
      BY <1>1, <1>2, <2>1 DEF Read
    <3>2. ReadChar(acc, c) = [acc EXCEPT !.text = t, !.escape = FALSE]
      BY <1>4, <2>1 DEF ReadChar
    <3> HIDE DEF t
    <3>3. QED
      BY <3>1, <3>2 DEF Read
  <2>2. CASE c \notin DOMAIN EscapeOf
    BY <1>4, <2>2 DEF ReadChar, Read
  <2>3. QED
    BY <2>1, <2>2
<1>5. CASE ~acc.bad /\ ~acc.escape
  <2> DEFINE t == Append(acc.text, c)
  <2>1. t \in Seq(T)
    BY <1>1 DEF Read
  <2>2. \/ ReadChar(acc, c) = [acc EXCEPT !.escape = TRUE]
        \/ ReadChar(acc, c) = [acc EXCEPT !.bad = TRUE]
        \/ ReadChar(acc, c) = [acc EXCEPT !.text = t]
    BY <1>5 DEF ReadChar
  <2> HIDE DEF t
  <2>3. QED
    BY <2>1, <2>2 DEF Read
<1>6. QED
  BY <1>3, <1>4, <1>5 DEF Read

LEMMA UnescapedIs ==
  ASSUME NEW T, Alphabet(T), NEW chars \in Seq(T)
  PROVE  \E h : /\ h[0] = Has(<<>>, FALSE)
                /\ \A i \in 1..Len(chars) : h[i] = ReadChar(h[i - 1], chars[i])
                /\ Unescaped(chars).text = h[Len(chars)].text
                /\ Unescaped(chars).bad <=> h[Len(chars)].bad \/ h[Len(chars)].escape
<1> DEFINE n == Len(chars)
           W == Read(T)
           base == Has(<<>>, FALSE)
           step == [i \in 1..n |-> [acc \in W |-> ReadChar(acc, chars[i])]]
           Eq(g) == g = [i \in 0..n |->
                      IF i = 0 THEN [text |-> <<>>, escape |-> FALSE, bad |-> FALSE]
                      ELSE ReadChar(g[i - 1], chars[i])]
           g == CHOOSE g : Eq(g)
<1>1. n \in Nat /\ \A i \in 1..n : chars[i] \in T
  OBVIOUS
<1>2. IsStep(step, n, W)
  <2>1. step \in [1..n -> [W -> W]]
    BY <1>1, ReadCharType
  <2> HIDE DEF step
  <2>2. QED
    BY <2>1 DEF IsStep
<1>3. base \in W
  BY DEF Has, Read
<1>4. PICK h : IsIteration(h, n, W, base, step)
  <2> HIDE DEF n, W, base, step
  <2>1. QED
    BY <1>1, <1>2, <1>3, Iterates
<1>5. h \in [0..n -> W] /\ h[0] = base /\ \A i \in 1..n : h[i] = step[i][h[i - 1]]
  BY <1>4 DEF IsIteration
<1>6. \A i \in 1..n : h[i] = ReadChar(h[i - 1], chars[i])
  <2>1. \A i \in 1..n : h[i - 1] \in W
    BY <1>1, <1>5
  <2>2. QED
    BY <1>5, <2>1
<1>7. Eq(h)
  <2> HIDE DEF step, W
  <2>1. ASSUME NEW i \in 0..n
        PROVE  h[i] = IF i = 0 THEN [text |-> <<>>, escape |-> FALSE, bad |-> FALSE]
                      ELSE ReadChar(h[i - 1], chars[i])
    <3>1. i = 0 \/ i \in 1..n
      BY <1>1
    <3>2. QED
      BY <1>5, <1>6, <3>1 DEF Has
  <2>2. h = [i \in 0..n |-> h[i]]
    BY <1>5
  <2>3. QED
    BY <2>1, <2>2
<1>8. Eq(g)
  <2> HIDE DEF Eq
  <2>1. QED
    BY <1>7
<1>9. /\ Unescaped(chars).text = g[n].text
      /\ Unescaped(chars).bad <=> g[n].bad \/ g[n].escape
  BY DEF Unescaped
<1>10. g[0] = base
  <2> HIDE DEF g
  <2>1. 0 \in 0..n
    BY <1>1
  <2>2. QED
    BY <1>8, <2>1 DEF Has
<1>11. \A i \in 1..n : g[i] = ReadChar(g[i - 1], chars[i])
  <2> HIDE DEF g
  <2>1. \A i \in 1..n : i \in 0..n /\ i # 0
    BY <1>1
  <2>2. QED
    BY <1>8, <2>1
<1>12. QED
  BY <1>9, <1>10, <1>11

\* One character, escaped.
LEMMA EscapedIsRead ==
  ASSUME NEW c, NEW t
  PROVE  \/ /\ EscapeChar(c) = <<c>>
            /\ ReadChar(Has(t, FALSE), c) = Has(Append(t, c), FALSE)
         \/ \E e \in {"quote", "backslash", "n", "u"} :
              /\ EscapeChar(c) = <<"backslash", e>>
              /\ ReadChar(Has(t, FALSE), "backslash") = Has(t, TRUE)
              /\ ReadChar(Has(t, TRUE), e) = Has(Append(t, c), FALSE)
<1>1. ReadChar(Has(t, FALSE), "backslash") = Has(t, TRUE)
  BY DEF ReadChar, Has
<1>2. ASSUME NEW e \in {"quote", "backslash", "n", "u"}
      PROVE  ReadChar(Has(t, TRUE), e) = Has(Append(t, EscapeOf[e]), FALSE)
  BY EscapesAre DEF ReadChar, Has
<1>3. CASE c = "quote"
  <2>1. EscapeChar(c) = <<"backslash", "quote">>
    BY <1>3 DEF EscapeChar
  <2>2. ReadChar(Has(t, TRUE), "quote") = Has(Append(t, c), FALSE)
    BY <1>2, <1>3, EscapesAre
  <2>3. QED
    BY <1>1, <2>1, <2>2
<1>4. CASE c = "backslash"
  <2>1. EscapeChar(c) = <<"backslash", "backslash">>
    BY <1>4 DEF EscapeChar
  <2>2. ReadChar(Has(t, TRUE), "backslash") = Has(Append(t, c), FALSE)
    BY <1>2, <1>4, EscapesAre
  <2>3. QED
    BY <1>1, <2>1, <2>2
<1>5. CASE c = "newline"
  <2>1. EscapeChar(c) = <<"backslash", "n">>
    BY <1>5 DEF EscapeChar
  <2>2. ReadChar(Has(t, TRUE), "n") = Has(Append(t, c), FALSE)
    BY <1>2, <1>5, EscapesAre
  <2>3. QED
    BY <1>1, <2>1, <2>2
<1>6. CASE c = "control"
  <2>1. EscapeChar(c) = <<"backslash", "u">>
    BY <1>6 DEF EscapeChar
  <2>2. ReadChar(Has(t, TRUE), "u") = Has(Append(t, c), FALSE)
    BY <1>2, <1>6, EscapesAre
  <2>3. QED
    BY <1>1, <2>1, <2>2
<1>7. CASE c \notin {"quote", "backslash", "newline", "control"}
  <2>1. EscapeChar(c) = <<c>>
    BY <1>7 DEF EscapeChar
  <2>2. ReadChar(Has(t, FALSE), c) = Has(Append(t, c), FALSE)
    BY <1>7 DEF ReadChar, Has, Raw
  <2>3. QED
    BY <2>1, <2>2
<1>8. QED
  BY <1>3, <1>4, <1>5, <1>6, <1>7

\* The parts of a text are in it where they were put.
Flattens(flat, seqs, n, T) ==
  /\ flat \in [0..n -> Seq(T)]
  /\ \A i \in 1..n : seqs[i] \in Seq(T) /\ flat[i] = flat[i - 1] \o seqs[i]

StartsWith(s, start) == Len(start) <= Len(s) /\ \A i \in 1..Len(start) : s[i] = start[i]

LEMMA FlatPrefix ==
  ASSUME NEW T, NEW n \in Nat, NEW flat, NEW seqs, Flattens(flat, seqs, n, T), NEW j \in 0..n
  PROVE  StartsWith(flat[n], flat[j])
<1> USE DEF Flattens, StartsWith
<1> DEFINE Prefix(k) == /\ Len(flat[j]) <= Len(flat[k])
                        /\ \A i \in 1..Len(flat[j]) : flat[k][i] = flat[j][i]
           G == {k \in 0..n : k >= j => Prefix(k)}
<1>1. \A k \in 0..n : flat[k] \in Seq(T) /\ Len(flat[k]) \in Nat
  OBVIOUS
<1>2. Prefix(j)
  BY <1>1
<1>3. 0 \in G
  <2>1. 0 >= j => j = 0
    OBVIOUS
  <2>2. QED
    BY <1>2, <2>1
<1>4. ASSUME NEW k \in 1..n, k - 1 \in G PROVE k \in G
  <2>1. CASE k < j
    BY <2>1
  <2>2. CASE k = j
    BY <1>2, <2>2
  <2>3. CASE k > j
    <3>1. Prefix(k - 1)
      BY <1>4, <2>3
    <3>2. k - 1 \in 0..n /\ k \in 0..n
      OBVIOUS
    <3>3. flat[k] = flat[k - 1] \o seqs[k] /\ seqs[k] \in Seq(T) /\ flat[k - 1] \in Seq(T)
      BY <1>1, <3>2
    <3> DEFINE s == flat[k - 1]
               u == seqs[k]
    <3>4. s \in Seq(T) /\ u \in Seq(T) /\ flat[k] = s \o u
      BY <3>3
    <3> HIDE DEF s, u
    <3>5. /\ Len(flat[k]) = Len(s) + Len(u) /\ Len(u) \in Nat /\ Len(s) \in Nat
          /\ \A i \in 1..Len(s) : flat[k][i] = s[i]
      BY <3>4
    <3>6. Len(flat[j]) <= Len(s) /\ \A i \in 1..Len(flat[j]) : s[i] = flat[j][i]
      BY <3>1 DEF s
    <3>7. Len(flat[j]) \in Nat
      BY <1>1
    <3>8. \A i \in 1..Len(flat[j]) : i \in 1..Len(s)
      BY <3>5, <3>6, <3>7
    <3>9. Prefix(k)
      BY <3>5, <3>6, <3>7, <3>8
    <3>10. QED
      BY <3>9
  <2>4. QED
    BY <2>1, <2>2, <2>3
<1>5. \A k \in 1..n : k - 1 \in G => k \in G
  BY <1>4
<1>6. 0..n \subseteq G
  <2> HIDE DEF G
  <2>1. QED
    BY ONLY n \in Nat, <1>3, <1>5, UpTo
<1>7. n \in 0..n /\ n >= j
  OBVIOUS
<1>8. QED
  BY <1>6, <1>7

LEMMA EscapedAndBack ==
  ASSUME NEW C, NEW text \in Seq(C)
  PROVE  ~Unescaped(JsonEscape(text)).bad /\ Unescaped(JsonEscape(text)).text = text
<1> DEFINE T == C \cup {"quote", "backslash", "newline", "control", "n", "u"}
           n == Len(text)
           pieces == [i \in DOMAIN text |-> EscapeChar(text[i])]
           chars == JsonEscape(text)
<1>0. text \in Seq(T) /\ Alphabet(T)
  <2>1. \A i \in 1..n : text[i] \in T
    OBVIOUS
  <2>2. QED
    BY <2>1 DEF Alphabet
<1>1. n \in Nat /\ DOMAIN text = 1..n /\ \A i \in 1..n : text[i] \in T
  BY <1>0
<1>2. \A c \in T : EscapeChar(c) \in Seq(T)
  <2>1. "backslash" \in T /\ \A e \in {"quote", "backslash", "n", "u"} : e \in T
    OBVIOUS
  <2> HIDE DEF T
  <2>2. ASSUME NEW c \in T PROVE EscapeChar(c) \in Seq(T)
    <3>1. CASE EscapeChar(c) = <<c>>
      BY <3>1
    <3>2. CASE \E e \in {"quote", "backslash", "n", "u"} : EscapeChar(c) = <<"backslash", e>>
      BY <2>1, <3>2
    <3>3. QED
      BY <3>1, <3>2, EscapedIsRead
  <2>3. QED
    BY <2>2
<1>3. pieces \in Seq(Seq(T)) /\ Len(pieces) = n
      /\ \A i \in 1..n : pieces[i] = EscapeChar(text[i]) /\ pieces[i] \in Seq(T)
  <2>1. \A i \in 1..n : EscapeChar(text[i]) \in Seq(T)
    BY <1>1, <1>2
  <2> DEFINE D == Seq(T)
  <2>2. \A i \in 1..n : EscapeChar(text[i]) \in D
    BY <2>1
  <2>3. pieces = [i \in 1..n |-> EscapeChar(text[i])]
    BY <1>1
  <2> HIDE DEF D, n, pieces
  <2>4. pieces \in Seq(D) /\ Len(pieces) = n
        /\ \A i \in 1..n : pieces[i] = EscapeChar(text[i]) /\ pieces[i] \in D
    BY <1>1, <2>2, <2>3
  <2>5. QED
    BY <2>4 DEF D
<1>4. chars = FlattenSeq(pieces)
  BY DEF JsonEscape
<1> HIDE DEF pieces, chars, T
<1>5. PICK flat \in [0..n -> Seq(T)] :
        /\ flat[0] = <<>> /\ flat[n] = chars
        /\ \A i \in 1..n : flat[i] = flat[i - 1] \o pieces[i]
  <2> HIDE DEF n
  <2>1. QED
    BY <1>3, <1>4, FlattenSteps
<1>6. chars \in Seq(T)
  BY <1>1, <1>5
<1>7. PICK h : /\ h[0] = Has(<<>>, FALSE)
               /\ \A i \in 1..Len(chars) : h[i] = ReadChar(h[i - 1], chars[i])
               /\ Unescaped(chars).text = h[Len(chars)].text
               /\ Unescaped(chars).bad <=> h[Len(chars)].bad \/ h[Len(chars)].escape
  BY <1>0, <1>6, UnescapedIs
<1>71. ASSUME NEW i \in 1..Len(chars), NEW j, i = j + 1, j \in Int PROVE h[i] = ReadChar(h[j], chars[i])
  <2>1. i - 1 = j
    BY <1>71
  <2>2. QED
    BY <1>7, <2>1
<1> HIDE DEF n
<1> DEFINE G == {k \in 0..n : h[Len(flat[k])] = Has(SubSeq(text, 1, k), FALSE)}
<1>8. 0 \in G
  <2>1. SubSeq(text, 1, 0) = <<>> /\ Len(flat[0]) = 0
    BY <1>5, SubSeqEmpty
  <2>2. 0 \in 0..n /\ h[Len(flat[0])] = h[0]
    BY <1>1, <2>1
  <2>3. QED
    BY <1>7, <2>1, <2>2
<1>9. ASSUME NEW k \in 1..n, k - 1 \in G PROVE k \in G
  <2> DEFINE t == SubSeq(text, 1, k - 1)
             m == Len(flat[k - 1])
             c == text[k]
  <2>1. k \in 0..n /\ k - 1 \in 0..n /\ c \in T /\ flat[k] = flat[k - 1] \o EscapeChar(c)
    <3>1. k \in 0..n /\ k - 1 \in 0..n
      BY <1>1
    <3>2. c \in T /\ pieces[k] = EscapeChar(c) /\ flat[k] = flat[k - 1] \o pieces[k]
      BY <1>1, <1>3, <1>5
    <3>3. QED
      BY <3>1, <3>2
  <2>2. /\ flat[k - 1] \in Seq(T) /\ m \in Nat /\ EscapeChar(c) \in Seq(T)
        /\ Len(EscapeChar(c)) \in Nat
    <3>1. flat[k - 1] \in Seq(T)
      BY <1>5, <2>1
    <3>2. EscapeChar(c) \in Seq(T)
      BY <1>2, <2>1
    <3>3. ASSUME NEW s \in Seq(T) PROVE Len(s) \in Nat
      OBVIOUS
    <3>4. m \in Nat /\ Len(EscapeChar(c)) \in Nat
      <4>1. Len(flat[k - 1]) \in Nat
        BY <3>1, <3>3
      <4>2. Len(EscapeChar(c)) \in Nat
        BY <3>2, <3>3
      <4>3. QED
        BY <4>1, <4>2
    <3>5. QED
      BY <3>1, <3>2, <3>4
  <2>3. /\ Len(flat[k]) = m + Len(EscapeChar(c))
        /\ \A i \in 1..Len(EscapeChar(c)) : flat[k][m + i] = EscapeChar(c)[i]
    BY <2>1, <2>2
  <2>4. /\ Len(flat[k]) <= Len(chars)
        /\ \A i \in 1..Len(flat[k]) : chars[i] = flat[k][i]
    <3>1. \A i \in 1..n : pieces[i] \in Seq(T) /\ flat[i] = flat[i - 1] \o pieces[i]
      BY <1>3, <1>5
    <3>2. Flattens(flat, pieces, n, T)
      BY <1>5, <3>1 DEF Flattens
    <3>3. StartsWith(flat[n], flat[k])
      <4>1. n \in Nat /\ k \in 0..n
        BY <1>1, <2>1
      <4>2. QED
        BY <3>2, <4>1, FlatPrefix
    <3>4. QED
      BY <1>5, <3>3 DEF StartsWith
  <2>5. Len(chars) \in Nat
    BY <1>6
  <2>6. SubSeq(text, 1, k) = Append(t, c)
    <3>1. k \in 1..Len(text) /\ 1 \in 1..Len(text) /\ k \in 1..Len(text)
      BY <1>1 DEF n
    <3>2. SubSeq(text, 1, k) = t \o <<c>>
      BY <1>0, <3>1, SubSeqRecursiveSecond
    <3>3. t \in Seq(T)
      <4>1. \A i \in 1..(k - 1) : text[i] \in T
        BY <1>1
      <4>2. QED
        BY <2>1, <4>1, SubSeqProperties
    <3>4. QED
      BY <2>1, <3>2, <3>3, AppendIsConcat
  <2>7. h[m] = Has(t, FALSE)
    BY <1>9
  <2> HIDE DEF t, m, c
  <2>8. CASE EscapeChar(c) = <<c>> /\ ReadChar(Has(t, FALSE), c) = Has(Append(t, c), FALSE)
    <3>1. Len(flat[k]) = m + 1 /\ flat[k][m + 1] = c
      BY <2>3, <2>8
    <3>2. m + 1 \in 1..Len(flat[k]) /\ m + 1 \in 1..Len(chars) /\ m + 1 - 1 = m
      BY <2>2, <2>4, <2>5, <3>1
    <3>3. chars[m + 1] = c
      BY <2>4, <3>1, <3>2
    <3>4. h[m + 1] = ReadChar(h[m], c)
      <4>1. PICK p : p = m + 1
        OBVIOUS
      <4>2. p \in 1..Len(chars) /\ chars[p] = c /\ m \in Int
        BY <2>2, <3>2, <3>3, <4>1
      <4>3. QED
        BY <1>71, <4>1, <4>2
    <3>5. QED
      BY <2>1, <2>6, <2>7, <2>8, <3>1, <3>4
  <2>9. ASSUME NEW e, EscapeChar(c) = <<"backslash", e>>,
               ReadChar(Has(t, FALSE), "backslash") = Has(t, TRUE),
               ReadChar(Has(t, TRUE), e) = Has(Append(t, c), FALSE)
        PROVE  k \in G
    <3>1. Len(flat[k]) = m + 2 /\ flat[k][m + 1] = "backslash" /\ flat[k][m + 2] = e
      BY <2>3, <2>9
    <3>2. /\ m + 1 \in 1..Len(flat[k]) /\ m + 1 \in 1..Len(chars) /\ m + 1 - 1 = m
          /\ m + 2 \in 1..Len(flat[k]) /\ m + 2 \in 1..Len(chars) /\ m + 2 - 1 = m + 1
      BY <2>2, <2>4, <2>5, <3>1
    <3>3. chars[m + 1] = "backslash" /\ chars[m + 2] = e
      BY <2>4, <3>1, <3>2
    <3>4. h[m + 1] = ReadChar(h[m], "backslash") /\ h[m + 2] = ReadChar(h[m + 1], e)
      <4>1. PICK p, q : p = m + 1 /\ q = m + 2
        OBVIOUS
      <4>2. /\ p \in 1..Len(chars) /\ chars[p] = "backslash" /\ m \in Int
            /\ q \in 1..Len(chars) /\ chars[q] = e /\ p \in Int /\ q = p + 1
        BY <2>2, <3>2, <3>3, <4>1
      <4>3. QED
        BY <1>71, <4>1, <4>2
    <3>5. h[m + 2] = Has(Append(t, c), FALSE)
      BY <2>7, <2>9, <3>4
    <3>6. QED
      BY <2>1, <2>6, <3>1, <3>5
  <2>10. QED
    BY <2>1, <2>8, <2>9, EscapedIsRead
<1>10. n \in G
  <2>1. \A k \in 1..n : k - 1 \in G => k \in G
    BY <1>9
  <2> HIDE DEF G
  <2>2. 0..n \subseteq G
    BY ONLY <1>1, <1>8, <2>1, UpTo
  <2>3. QED
    BY <1>1, <2>2
<1>11. h[Len(chars)] = Has(text, FALSE)
  <2>1. SubSeq(text, 1, n) = text
    BY SubSeqFull DEF n
  <2>2. QED
    BY <1>5, <1>10, <2>1
<1>12. QED
  BY <1>7, <1>11 DEF Has, chars

-----------------------------------------------------------------------------
(***************************************************************************)
(* Sequences of anything.                                                  *)
(***************************************************************************)

IsSeq(s) == \E T : s \in Seq(T)

LEMMA NoneIsSeq == IsSeq(<<>>)
  BY DEF IsSeq

LEMMA OneIsSeq == ASSUME NEW e PROVE IsSeq(<<e>>)
<1>1. <<e>> \in Seq({e})
  OBVIOUS
<1>2. QED
  BY <1>1 DEF IsSeq

LEMMA Together ==
  ASSUME NEW s, IsSeq(s), NEW u, IsSeq(u)
  PROVE  \E T : s \in Seq(T) /\ u \in Seq(T)
<1>1. PICK T : s \in Seq(T)
  BY DEF IsSeq
<1>2. PICK U : u \in Seq(U)
  BY DEF IsSeq
<1>3. s \in Seq(T \cup U)
  <2>1. \A i \in 1..Len(s) : s[i] \in T \cup U
    BY <1>1
  <2>2. QED
    BY <1>1, <2>1
<1>4. u \in Seq(T \cup U)
  <2>1. \A i \in 1..Len(u) : u[i] \in T \cup U
    BY <1>2
  <2>2. QED
    BY <1>2, <2>1
<1>5. QED
  BY <1>3, <1>4

LEMMA Joined ==
  ASSUME NEW s, IsSeq(s), NEW u, IsSeq(u)
  PROVE  IsSeq(s \o u) /\ s \o <<>> = s /\ <<>> \o s = s
<1>1. PICK T : s \in Seq(T) /\ u \in Seq(T)
  BY Together
<1>2. s \o u \in Seq(T)
  BY <1>1, ConcatProperties
<1>3. QED
  BY <1>1, <1>2, ConcatEmptySeq DEF IsSeq

LEMMA Associative ==
  ASSUME NEW s, IsSeq(s), NEW u, IsSeq(u), NEW v, IsSeq(v)
  PROVE  (s \o u) \o v = s \o (u \o v)
<1>1. IsSeq(s \o u)
  BY Joined
<1>2. PICK T : s \in Seq(T) /\ u \in Seq(T)
  BY Together
<1>3. PICK U : v \in Seq(U) /\ s \in Seq(U)
  BY Together
<1>4. PICK W : v \in Seq(W) /\ u \in Seq(W)
  BY Together
<1> DEFINE X == T \cup W
<1>5. s \in Seq(X) /\ u \in Seq(X)
  <2>1. \A i \in 1..Len(s) : s[i] \in X
    BY <1>2
  <2>2. \A i \in 1..Len(u) : u[i] \in X
    BY <1>2
  <2>3. QED
    BY <1>2, <2>1, <2>2
<1>6. v \in Seq(X)
  <2>1. \A i \in 1..Len(v) : v[i] \in X
    BY <1>4
  <2>2. QED
    BY <1>4, <2>1
<1> HIDE DEF X
<1>7. QED
  BY <1>5, <1>6, ConcatAssociative

LEMMA Appended ==
  ASSUME NEW s, IsSeq(s), NEW e
  PROVE  /\ IsSeq(Append(s, e)) /\ Append(s, e) # <<>>
         /\ Last(Append(s, e)) = e /\ Front(Append(s, e)) = s
         /\ Append(s, e)[Len(Append(s, e))] = e
         /\ (Len(Append(s, e)) = 1 <=> s = <<>>)
         /\ Append(s, e) = s \o <<e>>
<1>1. PICK T : s \in Seq(T)
  BY DEF IsSeq
<1> DEFINE n == Len(s)
           U == T \cup {e}
           a == Append(s, e)
<1>2. s \in Seq(U) /\ e \in U
  <2>1. \A i \in 1..n : s[i] \in U
    BY <1>1
  <2>2. QED
    BY <1>1, <2>1
<1> HIDE DEF U
<1>3. /\ a \in Seq(U) /\ Len(a) = n + 1 /\ n \in Nat /\ a[n + 1] = e
      /\ \A i \in 1..n : a[i] = s[i]
  BY <1>2
<1>4. a = s \o <<e>>
  BY <1>2, AppendIsConcat
<1>5. a # <<>> /\ (Len(a) = 1 <=> s = <<>>)
  BY <1>2, <1>3
<1>6. Front(a) = s
  <2>1. Front(a) = [i \in 1..(Len(a) - 1) |-> a[i]]
    BY <1>3 DEF Front
  <2>2. Len(a) - 1 = n
    BY <1>3
  <2>3. s = [i \in 1..n |-> s[i]]
    BY <1>2
  <2>4. QED
    BY <1>3, <2>1, <2>2, <2>3
<1>8. IsSeq(a)
  BY <1>3 DEF IsSeq
<1>9. Last(a) = e /\ a[Len(a)] = e
  BY <1>3 DEF Last
<1>10. QED
  BY <1>4, <1>5, <1>6, <1>8, <1>9

LEMMA Replaced ==
  ASSUME NEW s, IsSeq(s), NEW e, NEW f
  PROVE  [Append(s, e) EXCEPT ![Len(Append(s, e))] = f] = Append(s, f)
<1>1. PICK T : s \in Seq(T)
  BY DEF IsSeq
<1> DEFINE n == Len(s)
           V == T \cup {e, f}
           a == Append(s, e)
           b == [a EXCEPT ![n + 1] = f]
           c == Append(s, f)
<1>2. s \in Seq(V) /\ e \in V /\ f \in V
  <2>1. \A i \in 1..n : s[i] \in V
    BY <1>1
  <2>2. QED
    BY <1>1, <2>1
<1> HIDE DEF V
<1>3. /\ a \in Seq(V) /\ Len(a) = n + 1 /\ n \in Nat /\ a[n + 1] = e
      /\ \A i \in 1..n : a[i] = s[i]
  BY <1>2
<1>4. /\ c \in Seq(V) /\ Len(c) = n + 1 /\ c[n + 1] = f
      /\ \A i \in 1..n : c[i] = s[i]
  BY <1>2
<1> HIDE DEF a, c, n
<1>5. a = [i \in 1..(n + 1) |-> a[i]] /\ c = [i \in 1..(n + 1) |-> c[i]]
  <2>1. \A x \in Seq(V) : Len(x) = n + 1 => x = [i \in 1..(n + 1) |-> x[i]]
    OBVIOUS
  <2>2. QED
    BY <1>3, <1>4, <2>1
<1>6. b = [i \in 1..(n + 1) |-> IF i = n + 1 THEN f ELSE a[i]]
  BY <1>5
<1>7. \A i \in 1..(n + 1) : c[i] = IF i = n + 1 THEN f ELSE a[i]
  <2>1. \A i \in 1..(n + 1) : i # n + 1 => i \in 1..n
    BY <1>3
  <2>2. QED
    BY <1>3, <1>4, <2>1
<1>8. b = c
  BY <1>5, <1>6, <1>7
<1>9. QED
  BY <1>3, <1>8 DEF a, c

LEMMA PerformedTwo ==
  ASSUME NEW w, NEW a, IsSeq(a), NEW b, IsSeq(b)
  PROVE  Performed(w, a \o b) = Performed(Performed(w, a), b)
<1>1. PICK S : a \in Seq(S) /\ b \in Seq(S)
  BY Together
<1>2. QED
  BY <1>1, PerformedBoth

-----------------------------------------------------------------------------
(***************************************************************************)
(* The calls of JsonWriter.                                                *)
(***************************************************************************)

\* Truth values in places where the provers take them for any other value.
No == FALSE

Yes == TRUE

\* A container that is open, fresh or not.
Opened(kind, fresh, keys) ==
  [kind |-> kind, phase |-> IF fresh THEN "fresh" ELSE "member", keys |-> keys]

\* In a container, between two members; around it are the stacks g and o.
Inside(g, fresh, o, kind, keys, t) ==
  [first |-> Append(g, fresh), expecting |-> FALSE,
   reader |-> [open |-> Append(o, Opened(kind, fresh, keys)),
               done |-> FALSE, bad |-> FALSE, texts |-> t]]

\* After a value.
Past(g, o, d, t) ==
  [first |-> g, expecting |-> FALSE,
   reader |-> [open |-> o, done |-> d, bad |-> FALSE, texts |-> t]]

\* A value may come, and leaves the stacks g and o.
Slot(w, g, o, d, t) ==
  /\ IsSeq(g) /\ IsSeq(o) /\ IsSeq(t)
  /\ d \in BOOLEAN /\ (d <=> o = <<>>)
  /\ \E r : /\ ValuePrefix(w) = [first |-> g, expecting |-> FALSE, reader |-> r]
            /\ Ready(r)
            /\ Settled(r) = [open |-> o, done |-> d, bad |-> FALSE, texts |-> t]

Writing(g, r) == [first |-> g, expecting |-> FALSE, reader |-> r]

Reader(o, d, t) == [open |-> o, done |-> d, bad |-> FALSE, texts |-> t]

AnyReader(o, d, b, t) == [open |-> o, done |-> d, bad |-> b, texts |-> t]

WithOpen(r, open) == [r EXCEPT !.open = open]

WithTexts(r, texts) == [r EXCEPT !.texts = texts]

LEMMA AnyReaderWith ==
  ASSUME NEW o, NEW d, NEW b, NEW t, NEW e
  PROVE  /\ WithTexts(AnyReader(o, d, b, t), e) = AnyReader(o, d, b, e)
         /\ WithOpen(AnyReader(o, d, b, t), e) = AnyReader(e, d, b, t)
  BY DEF AnyReader, WithTexts, WithOpen

LEMMA ReaderWith ==
  ASSUME NEW o, NEW d, NEW t, NEW e
  PROVE  /\ WithTexts(Reader(o, d, t), e) = Reader(o, d, e)
         /\ WithOpen(Reader(o, d, t), e) = Reader(e, d, t)
<1> DEFINE f == FALSE
<1>1. /\ Reader(o, d, t) = AnyReader(o, d, f, t)
      /\ Reader(o, d, e) = AnyReader(o, d, f, e)
      /\ Reader(e, d, t) = AnyReader(e, d, f, t)
  BY DEF Reader, AnyReader
<1> HIDE DEF f
<1>2. QED
  BY <1>1, AnyReaderWith

LEMMA CallScalar ==
  ASSUME NEW w, NEW g, NEW o, NEW d, NEW t, Slot(w, g, o, d, t)
  PROVE  Scalar(w) = Past(g, o, d, t)
<1>1. PICK r : /\ ValuePrefix(w) = Writing(g, r)
               /\ Ready(r)
               /\ Settled(r) = Reader(o, d, t)
  BY DEF Slot, Writing, Reader
<1>2. ReadScalar(r) = Settled(r)
  BY <1>1 DEF ReadScalar
<1>3. Scalar(w) = Writing(g, ReadScalar(r))
  <2>1. Scalar(w) = [Writing(g, r) EXCEPT !.reader = ReadScalar(Writing(g, r).reader)]
    BY <1>1 DEF Scalar
  <2>2. QED
    BY <2>1 DEF Writing
<1>4. QED
  BY <1>1, <1>2, <1>3 DEF Past, Writing, Reader

LEMMA CallString ==
  ASSUME NEW w, NEW g, NEW o, NEW d, NEW t, Slot(w, g, o, d, t), NEW C, NEW text \in Seq(C)
  PROVE  String(w, text) = Past(g, o, d, Append(t, text))
<1>0. d \in BOOLEAN
  BY DEF Slot
<1>1. PICK r : /\ ValuePrefix(w) = Writing(g, r)
               /\ Ready(r)
               /\ Settled(r) = Reader(o, d, t)
  BY DEF Slot, Writing, Reader
<1> DEFINE chars == JsonEscape(text)
           read == Unescaped(chars)
<1>2. ~read.bad /\ read.text = text
  BY EscapedAndBack
<1>3. ReadString(r, chars) = [Settled(r) EXCEPT !.texts = Append(@, text)]
  BY <1>1, <1>2 DEF ReadString
<1>4. String(w, text) = Writing(g, ReadString(r, chars))
  <2>1. String(w, text) = [Writing(g, r) EXCEPT !.reader = ReadString(Writing(g, r).reader, chars)]
    BY <1>1 DEF String
  <2> HIDE DEF chars
  <2>2. QED
    BY <2>1 DEF Writing
<1> HIDE DEF chars, read
<1>5. [Settled(r) EXCEPT !.texts = Append(@, text)]
        = Reader(o, d, Append(t, text))
  <2>1. [Settled(r) EXCEPT !.texts = Append(@, text)]
          = [Reader(o, d, t) EXCEPT !.texts = Append(Reader(o, d, t).texts, text)]
    BY <1>1
  <2>2. Reader(o, d, t).texts = t
    BY DEF Reader
  <2> DEFINE u == Append(t, text)
  <2>3. [Settled(r) EXCEPT !.texts = Append(@, text)] = WithTexts(Reader(o, d, t), u)
    BY <2>1, <2>2 DEF WithTexts
  <2> HIDE DEF u
  <2>4. WithTexts(Reader(o, d, t), u) = Reader(o, d, u)
    BY ReaderWith
  <2>5. QED
    BY <2>3, <2>4 DEF u
<1>6. QED
  BY <1>3, <1>4, <1>5 DEF Past, Writing, Reader

LEMMA CallBegin ==
  ASSUME NEW w, NEW g, NEW o, NEW d, NEW t, Slot(w, g, o, d, t), NEW kind
  PROVE  Begin(w, kind) = Inside(g, Yes, o, kind, {}, t)
<1>1. PICK r : /\ ValuePrefix(w) = Writing(g, r)
               /\ Ready(r)
               /\ Settled(r) = Reader(o, d, t)
  BY DEF Slot, Writing, Reader
<1>2. Container(kind) = Opened(kind, Yes, {})
  BY DEF Container, Opened, Yes, No
<1>3. ReadOpen(r, kind) = Reader(Append(o, Opened(kind, Yes, {})), No, t)
  <2>1. ReadOpen(r, kind) = [Reader(o, d, t) EXCEPT
          !.open = Append(Reader(o, d, t).open, Container(kind)), !.done = FALSE]
    BY <1>1 DEF ReadOpen
  <2>2. QED
    BY <1>2, <2>1 DEF Reader, Yes, No
<1>4. Begin(w, kind) = Writing(Append(g, Yes), ReadOpen(r, kind))
  <2>1. Begin(w, kind) = [Writing(g, r) EXCEPT
          !.reader = ReadOpen(Writing(g, r).reader, kind),
          !.first = Append(Writing(g, r).first, TRUE)]
    BY <1>1 DEF Begin
  <2>2. QED
    BY <2>1 DEF Writing, Yes, No
<1>5. QED
  BY <1>3, <1>4 DEF Inside, Writing, Reader, Yes, No

LEMMA CallEnd ==
  ASSUME NEW g, IsSeq(g), NEW o, IsSeq(o), NEW t, NEW fresh \in BOOLEAN, NEW kind, NEW keys,
         NEW d \in BOOLEAN, d <=> o = <<>>
  PROVE  End(Inside(g, fresh, o, kind, keys, t), kind) = Past(g, o, d, t)
<1> DEFINE w == Inside(g, fresh, o, kind, keys, t)
           c == Opened(kind, fresh, keys)
           open == Append(o, c)
           r == [open |-> open, done |-> FALSE, bad |-> FALSE, texts |-> t]
<1>1. /\ open # <<>> /\ Last(open) = c /\ Front(open) = o /\ (Len(open) = 1 <=> o = <<>>)
      /\ Front(Append(g, fresh)) = g
  BY Appended
<1>2. c.kind = kind /\ c.phase \in {"fresh", "member"}
  BY DEF Opened
<1>3. w.reader = r /\ w.first = Append(g, fresh)
  BY DEF Inside
<1>4. (Len(open) = 1) = d
  BY <1>1
<1> HIDE DEF c, open
<1>5. ReadClose(r, kind) = [r EXCEPT !.open = Front(@), !.done = Len(r.open) = 1]
  BY <1>1, <1>2 DEF ReadClose, Top
<1>6. ReadClose(r, kind) = [open |-> o, done |-> d, bad |-> FALSE, texts |-> t]
  BY <1>1, <1>4, <1>5
<1>7. End(w, kind) = [w EXCEPT !.reader = ReadClose(r, kind), !.first = Front(Append(g, fresh))]
  <2> HIDE DEF w, r
  <2>1. QED
    BY <1>3 DEF End
<1>8. w = [first |-> Append(g, fresh), expecting |-> FALSE, reader |-> r]
  BY DEF Inside, c, open
<1> HIDE DEF w, r
<1>9. End(w, kind) = [first |-> g, expecting |-> FALSE, reader |-> ReadClose(r, kind)]
  BY <1>1, <1>7, <1>8
<1>10. QED
  BY <1>6, <1>9 DEF Past, w

\* What follows a value inside a container.
LEMMA PastIsInside ==
  ASSUME NEW g, NEW o, NEW kind, NEW keys, NEW t
  PROVE  Past(Append(g, No), Append(o, Opened(kind, No, keys)), No, t)
           = Inside(g, No, o, kind, keys, t)
  BY DEF Past, Inside, No

\* Once it has come, or needs none.
Ripe(kind, fresh, keys) ==
  [kind |-> kind, phase |-> IF fresh THEN "fresh" ELSE "comma", keys |-> keys]

\* Before a member or an element a comma comes, unless it is the first.
LEMMA Separated ==
  ASSUME NEW g, IsSeq(g), NEW o, IsSeq(o), NEW t, NEW fresh \in BOOLEAN, NEW kind, NEW keys
  PROVE  MemberPrefix(Inside(g, fresh, o, kind, keys, t))
           = Writing(Append(g, No),
               Reader(Append(o, Ripe(kind, fresh, keys)), No, t))
<1> DEFINE w == Inside(g, fresh, o, kind, keys, t)
           c == Opened(kind, fresh, keys)
           e == Ripe(kind, fresh, keys)
           first == Append(g, fresh)
           open == Append(o, c)
<1>1. /\ first # <<>> /\ Last(first) = fresh
      /\ [first EXCEPT ![Len(first)] = No] = Append(g, No)
  <2>1. first # <<>> /\ Last(first) = fresh
    BY Appended
  <2>2. [first EXCEPT ![Len(first)] = No] = Append(g, No)
    BY Replaced
  <2>3. QED
    BY <2>1, <2>2
<1>2. open # <<>> /\ Last(open) = c /\ [open EXCEPT ![Len(open)] = e] = Append(o, e)
      /\ open[Len(open)] = c
  <2> HIDE DEF c, e
  <2>1. open # <<>> /\ Last(open) = c /\ open[Len(open)] = c
    BY Appended
  <2>2. [open EXCEPT ![Len(open)] = e] = Append(o, e)
    BY Replaced
  <2>3. QED
    BY <2>1, <2>2
<1>3. w = Writing(first, Reader(open, No, t))
  BY DEF Inside, Writing, Reader, No
<1> HIDE DEF w, first, open
<1>4. w.first = first /\ w.reader = Reader(open, No, t)
  BY <1>3 DEF Writing
<1>5. MemberPrefix(w)
        = [w EXCEPT !.reader = IF fresh THEN w.reader ELSE ReadComma(w.reader),
                    !.first[Len(w.first)] = FALSE]
  BY <1>1, <1>4 DEF MemberPrefix
<1>6. (IF fresh THEN w.reader ELSE ReadComma(w.reader)) = Reader(Append(o, e), No, t)
  <2>1. CASE fresh
    <3>1. c = e
      BY <2>1 DEF Opened, Ripe
    <3>2. QED
      BY <1>4, <2>1, <3>1 DEF open
  <2>2. CASE ~fresh
    <3>1. c.phase = "member" /\ [c EXCEPT !.phase = "comma"] = e
      BY <2>2 DEF Opened, Ripe
    <3> DEFINE r == Reader(open, No, t)
    <3>2. r.open = open /\ Top(r) = c
      BY <1>2 DEF Reader, Top
    <3> HIDE DEF r, c, e
    <3>3. ReadComma(r) = [r EXCEPT !.open[Len(r.open)].phase = "comma"]
      BY <1>2, <3>1, <3>2 DEF ReadComma, WithPhase
    <3>4. ReadComma(r)
            = [r EXCEPT !.open = [open EXCEPT ![Len(open)] = [open[Len(open)] EXCEPT !.phase = "comma"]]]
      BY <3>2, <3>3
    <3>5. ReadComma(r) = [r EXCEPT !.open = Append(o, e)]
      BY <1>2, <3>1, <3>4
    <3>6. [r EXCEPT !.open = Append(o, e)] = Reader(Append(o, e), No, t)
      <4>1. WithOpen(r, Append(o, e)) = Reader(Append(o, e), No, t)
        BY ReaderWith DEF r
      <4>2. QED
        BY <4>1 DEF WithOpen
    <3>7. QED
      BY <1>4, <2>2, <3>5, <3>6 DEF r
  <2>3. QED
    BY <2>1, <2>2
<1>7. MemberPrefix(w)
        = [w EXCEPT !.reader = Reader(Append(o, e), No, t), !.first = Append(g, No)]
  BY <1>1, <1>4, <1>5, <1>6 DEF No
<1>8. MemberPrefix(w) = Writing(Append(g, No), Reader(Append(o, e), No, t))
  BY <1>3, <1>7 DEF Writing
<1>9. QED
  BY <1>8 DEF w

LEMMA CallItem ==
  ASSUME NEW g, IsSeq(g), NEW o, IsSeq(o), NEW t, IsSeq(t), NEW fresh \in BOOLEAN, NEW keys
  PROVE  Slot(Inside(g, fresh, o, "array", keys, t),
              Append(g, No), Append(o, Opened("array", No, keys)), No, t)
<1> DEFINE w == Inside(g, fresh, o, "array", keys, t)
           e == Ripe("array", fresh, keys)
           c == Opened("array", No, keys)
           r == Reader(Append(o, e), No, t)
<1>1. ValuePrefix(w) = Writing(Append(g, No), r)
  <2>1. w.expecting = FALSE
    BY DEF Inside
  <2> HIDE DEF w, e, r
  <2>2. ValuePrefix(w) = MemberPrefix(w)
    BY <2>1 DEF ValuePrefix
  <2>3. MemberPrefix(w) = Writing(Append(g, No), r)
    <3> DEFINE kind == "array"
    <3> HIDE DEF kind
    <3>1. MemberPrefix(Inside(g, fresh, o, kind, keys, t))
            = Writing(Append(g, No), Reader(Append(o, Ripe(kind, fresh, keys)), No, t))
      BY Separated
    <3>2. QED
      BY <3>1 DEF kind, w, e, r
  <2>4. QED
    BY <2>2, <2>3
<1>2. /\ IsSeq(Append(o, e)) /\ Append(o, e) # <<>> /\ Last(Append(o, e)) = e
      /\ [Append(o, e) EXCEPT ![Len(Append(o, e))] = c] = Append(o, c)
      /\ Append(o, e)[Len(Append(o, e))] = e
      /\ IsSeq(Append(o, c)) /\ Append(o, c) # <<>> /\ IsSeq(Append(g, No))
  <2> HIDE DEF e, c
  <2>1. /\ IsSeq(Append(o, e)) /\ Append(o, e) # <<>> /\ Last(Append(o, e)) = e
        /\ Append(o, e)[Len(Append(o, e))] = e
    BY Appended
  <2>2. [Append(o, e) EXCEPT ![Len(Append(o, e))] = c] = Append(o, c)
    BY Replaced
  <2>3. IsSeq(Append(o, c)) /\ Append(o, c) # <<>>
    BY Appended
  <2>4. IsSeq(Append(g, No))
    BY Appended
  <2>5. QED
    BY <2>1, <2>2, <2>3, <2>4
<1>3. e.kind = "array" /\ e.phase \in {"fresh", "comma"} /\ [e EXCEPT !.phase = "member"] = c
  BY DEF Opened, Ripe, No
<1> DEFINE open == Append(o, e)
<1>4. r.open = open
  BY DEF Reader
<1> HIDE DEF e, c
<1>5. Ready(r)
  BY <1>2, <1>3, <1>4 DEF Ready, Top
<1>6. Settled(r) = Reader(Append(o, c), No, t)
  <2>1. Settled(r) = [r EXCEPT !.open[Len(r.open)].phase = "member"]
    BY <1>2, <1>4 DEF Settled, WithPhase
  <2> HIDE DEF open
  <2>2. Settled(r) = [r EXCEPT !.open = [open EXCEPT ![Len(open)] = [open[Len(open)] EXCEPT !.phase = "member"]]]
    BY <1>4, <2>1
  <2>3. Settled(r) = [r EXCEPT !.open = Append(o, c)]
    BY <1>2, <1>3, <2>2 DEF open
  <2>4. QED
    BY <2>3 DEF Reader
<1> HIDE DEF w, r
<1>7. QED
  BY <1>1, <1>2, <1>5, <1>6 DEF Slot, w, c, Writing, Reader, No

LEMMA CallKey ==
  ASSUME NEW g, IsSeq(g), NEW o, IsSeq(o), NEW t, IsSeq(t), NEW fresh \in BOOLEAN,
         NEW keys, NEW name, name \notin keys
  PROVE  Slot(Key(Inside(g, fresh, o, "object", keys, t), name),
              Append(g, No), Append(o, Opened("object", No, keys \cup {name})), No, t)
<1> DEFINE w == Inside(g, fresh, o, "object", keys, t)
           e == Ripe("object", fresh, keys)
           k == [kind |-> "object", phase |-> "key", keys |-> keys \cup {name}]
           c == Opened("object", No, keys \cup {name})
           p == Reader(Append(o, e), No, t)
           r == Reader(Append(o, k), No, t)
           v == [first |-> Append(g, No), expecting |-> TRUE, reader |-> r]
<1>1. MemberPrefix(w) = Writing(Append(g, No), p)
  <2> DEFINE kind == "object"
  <2> HIDE DEF kind
  <2>1. MemberPrefix(Inside(g, fresh, o, kind, keys, t))
          = Writing(Append(g, No), Reader(Append(o, Ripe(kind, fresh, keys)), No, t))
    BY Separated
  <2>2. QED
    BY <2>1 DEF kind
<1>2. /\ Append(o, e) # <<>> /\ Last(Append(o, e)) = e
      /\ [Append(o, e) EXCEPT ![Len(Append(o, e))] = k] = Append(o, k)
      /\ Append(o, k) # <<>> /\ Last(Append(o, k)) = k
      /\ [Append(o, k) EXCEPT ![Len(Append(o, k))] = c] = Append(o, c)
      /\ Append(o, k)[Len(Append(o, k))] = k
      /\ IsSeq(Append(o, c)) /\ Append(o, c) # <<>> /\ IsSeq(Append(g, No))
  <2> HIDE DEF e, k, c
  <2>1. Append(o, e) # <<>> /\ Last(Append(o, e)) = e
    BY Appended
  <2>2. [Append(o, e) EXCEPT ![Len(Append(o, e))] = k] = Append(o, k)
    BY Replaced
  <2>3. /\ Append(o, k) # <<>> /\ Last(Append(o, k)) = k
        /\ Append(o, k)[Len(Append(o, k))] = k
    BY Appended
  <2>4. [Append(o, k) EXCEPT ![Len(Append(o, k))] = c] = Append(o, c)
    BY Replaced
  <2>5. IsSeq(Append(o, c)) /\ Append(o, c) # <<>>
    BY Appended
  <2>6. IsSeq(Append(g, No))
    BY Appended
  <2>7. QED
    BY <2>1, <2>2, <2>3, <2>4, <2>5, <2>6
<1>3. /\ e.kind = "object" /\ e.phase \in {"fresh", "comma"} /\ name \notin e.keys
      /\ k = [kind |-> e.kind, phase |-> "key", keys |-> e.keys \cup {name}]
      /\ k.kind = "object" /\ k.phase = "key" /\ [k EXCEPT !.phase = "member"] = c
  BY DEF Opened, Ripe, No
<1>4. p.open = Append(o, e) /\ r.open = Append(o, k)
  BY DEF Reader
<1>5. ReadKey(p, name) = r
  <2> HIDE DEF e, k, r
  <2>1. p.open # <<>> /\ Top(p) = e
    BY <1>2, <1>4 DEF Top
  <2>2. ReadKey(p, name) = [p EXCEPT !.open[Len(p.open)] = k]
    BY <1>3, <2>1 DEF ReadKey
  <2>3. ReadKey(p, name) = [p EXCEPT !.open = Append(o, k)]
    BY <1>2, <1>4, <2>2
  <2>4. QED
    BY <2>3 DEF Reader, r
<1>6. Key(w, name) = v
  <2> HIDE DEF p, r, w
  <2>1. Key(w, name) = [Writing(Append(g, No), p) EXCEPT
          !.reader = ReadKey(Writing(Append(g, No), p).reader, name), !.expecting = TRUE]
    BY <1>1 DEF Key
  <2>2. Writing(Append(g, No), p).reader = p
    BY DEF Writing
  <2>3. QED
    BY <1>5, <2>1, <2>2 DEF Writing
<1>7. ValuePrefix(v) = Writing(Append(g, No), r)
  <2> HIDE DEF r
  <2>1. v.expecting = TRUE
    OBVIOUS
  <2>2. ValuePrefix(v) = [v EXCEPT !.expecting = FALSE]
    BY <2>1 DEF ValuePrefix
  <2>3. QED
    BY <2>2 DEF Writing
<1> DEFINE open == Append(o, k)
<1> HIDE DEF k, c, v
<1>8. Ready(r)
  <2>1. r.open = open /\ open # <<>> /\ Top(r) = k
    BY <1>2, <1>4 DEF Top
  <2> HIDE DEF open, r
  <2>2. QED
    BY <1>3, <2>1 DEF Ready
<1>9. Settled(r) = Reader(Append(o, c), No, t)
  <2>1. Settled(r) = [r EXCEPT !.open[Len(r.open)].phase = "member"]
    BY <1>2, <1>4 DEF Settled, WithPhase
  <2> HIDE DEF open
  <2>2. Settled(r) = [r EXCEPT !.open = [open EXCEPT ![Len(open)] = [open[Len(open)] EXCEPT !.phase = "member"]]]
    BY <1>4, <2>1 DEF open
  <2>3. [open[Len(open)] EXCEPT !.phase = "member"] = c
    BY <1>2, <1>3 DEF open
  <2>4. [open EXCEPT ![Len(open)] = c] = Append(o, c)
    BY <1>2 DEF open
  <2>5. Settled(r) = [r EXCEPT !.open = Append(o, c)]
    <3> HIDE DEF open, r
    <3>1. QED
      BY <2>2, <2>3, <2>4
  <2>6. WithOpen(r, Append(o, c)) = Reader(Append(o, c), No, t)
    BY ReaderWith
  <2>7. QED
    BY <2>5, <2>6 DEF WithOpen
<1> HIDE DEF w, r
<1>10. QED
  BY <1>2, <1>6, <1>7, <1>8, <1>9 DEF Slot, w, c, Writing, Reader, No

-----------------------------------------------------------------------------
(***************************************************************************)
(* Calls that write a value, members of an object, elements of an array;   *)
(* names are the members' keys and ts the strings a reader gets.           *)
(***************************************************************************)

InObject(w, g, o, keys, t) ==
  /\ IsSeq(g) /\ IsSeq(o) /\ IsSeq(t)
  /\ \E fresh \in BOOLEAN : w = Inside(g, fresh, o, "object", keys, t)

InArray(w, g, o, t) ==
  /\ IsSeq(g) /\ IsSeq(o) /\ IsSeq(t)
  /\ \E fresh \in BOOLEAN : w = Inside(g, fresh, o, "array", {}, t)

ObjectWith(keys) == Opened("object", FALSE, keys)

ArrayOpen == Opened("array", FALSE, {})

IsValue(calls, ts) ==
  /\ IsSeq(calls) /\ IsSeq(ts)
  /\ \A w, g, o, d, t : Slot(w, g, o, d, t) => Performed(w, calls) = Past(g, o, d, t \o ts)

IsMembers(calls, names, ts) ==
  /\ IsSeq(calls) /\ IsSeq(ts)
  /\ \A w, g, o, keys, t :
       InObject(w, g, o, keys, t) /\ keys \cap names = {}
         => InObject(Performed(w, calls), g, o, keys \cup names, t \o ts)

IsItems(calls, ts) ==
  /\ IsSeq(calls) /\ IsSeq(ts)
  /\ \A w, g, o, t :
       InArray(w, g, o, t) => InArray(Performed(w, calls), g, o, t \o ts)

LEMMA SlotUse ==
  ASSUME NEW w, NEW g, NEW o, NEW d, NEW t, Slot(w, g, o, d, t)
  PROVE  IsSeq(g) /\ IsSeq(o) /\ IsSeq(t) /\ d \in BOOLEAN /\ (d <=> o = <<>>)
  BY DEF Slot

LEMMA Starts ==
  ASSUME NEW w, NEW g, NEW o, NEW d, NEW t, Slot(w, g, o, d, t)
  PROVE  InObject(Begin(w, "object"), g, o, {}, t) /\ InArray(Begin(w, "array"), g, o, t)
<1>1. IsSeq(g) /\ IsSeq(o) /\ IsSeq(t)
  BY SlotUse
<1>2. ASSUME NEW kind PROVE Begin(w, kind) = Inside(g, TRUE, o, kind, {}, t)
  <2>1. Begin(w, kind) = Inside(g, Yes, o, kind, {}, t)
    BY CallBegin
  <2>2. QED
    BY <2>1 DEF Yes
<1>3. Begin(w, "object") = Inside(g, TRUE, o, "object", {}, t)
  BY <1>2
<1>4. Begin(w, "array") = Inside(g, TRUE, o, "array", {}, t)
  BY <1>2
<1>5. InObject(Begin(w, "object"), g, o, {}, t)
  BY <1>1, <1>3 DEF InObject
<1>6. InArray(Begin(w, "array"), g, o, t)
  BY <1>1, <1>4 DEF InArray
<1>7. QED
  BY <1>5, <1>6

LEMMA ObjectEnds ==
  ASSUME NEW w, NEW g, NEW o, NEW keys, NEW t, InObject(w, g, o, keys, t),
         NEW d \in BOOLEAN, d <=> o = <<>>
  PROVE  End(w, "object") = Past(g, o, d, t)
<1> DEFINE kind == "object"
<1>1. PICK fresh \in BOOLEAN : w = Inside(g, fresh, o, kind, keys, t)
  BY DEF InObject
<1>2. IsSeq(g) /\ IsSeq(o)
  BY DEF InObject
<1> HIDE DEF kind
<1>3. End(Inside(g, fresh, o, kind, keys, t), kind) = Past(g, o, d, t)
  BY <1>2, CallEnd
<1>4. QED
  BY <1>1, <1>3 DEF kind

LEMMA ArrayEnds ==
  ASSUME NEW w, NEW g, NEW o, NEW t, InArray(w, g, o, t), NEW d \in BOOLEAN, d <=> o = <<>>
  PROVE  End(w, "array") = Past(g, o, d, t)
<1> DEFINE kind == "array"
           keys == {}
<1>1. PICK fresh \in BOOLEAN : w = Inside(g, fresh, o, kind, keys, t)
  BY DEF InArray
<1>2. IsSeq(g) /\ IsSeq(o)
  BY DEF InArray
<1> HIDE DEF kind, keys
<1>3. End(Inside(g, fresh, o, kind, keys, t), kind) = Past(g, o, d, t)
  BY <1>2, CallEnd
<1>4. QED
  BY <1>1, <1>3 DEF kind

LEMMA KeySlot ==
  ASSUME NEW w, NEW g, NEW o, NEW keys, NEW t, InObject(w, g, o, keys, t),
         NEW name, name \notin keys
  PROVE  Slot(Key(w, name), Append(g, No), Append(o, ObjectWith(keys \cup {name})), No, t)
<1>1. PICK fresh \in BOOLEAN : w = Inside(g, fresh, o, "object", keys, t)
  BY DEF InObject
<1>2. IsSeq(g) /\ IsSeq(o) /\ IsSeq(t)
  BY DEF InObject
<1>3. Slot(Key(Inside(g, fresh, o, "object", keys, t), name),
           Append(g, No), Append(o, Opened("object", No, keys \cup {name})), No, t)
  BY <1>2, CallKey
<1>4. QED
  BY <1>1, <1>3 DEF ObjectWith, No

LEMMA PastMember ==
  ASSUME NEW g, IsSeq(g), NEW o, IsSeq(o), NEW keys, NEW t, IsSeq(t)
  PROVE  InObject(Past(Append(g, No), Append(o, ObjectWith(keys)), No, t), g, o, keys, t)
<1>1. Past(Append(g, No), Append(o, Opened("object", No, keys)), No, t)
        = Inside(g, No, o, "object", keys, t)
  BY PastIsInside
<1>2. QED
  BY <1>1 DEF InObject, ObjectWith, No

LEMMA ItemSlot ==
  ASSUME NEW w, NEW g, NEW o, NEW t, InArray(w, g, o, t)
  PROVE  Slot(w, Append(g, No), Append(o, ArrayOpen), No, t)
<1>1. PICK fresh \in BOOLEAN : w = Inside(g, fresh, o, "array", {}, t)
  BY DEF InArray
<1>2. IsSeq(g) /\ IsSeq(o) /\ IsSeq(t)
  BY DEF InArray
<1>3. Slot(Inside(g, fresh, o, "array", {}, t),
           Append(g, No), Append(o, Opened("array", No, {})), No, t)
  BY <1>2, CallItem
<1>4. QED
  BY <1>1, <1>3 DEF ArrayOpen, No

LEMMA PastItem ==
  ASSUME NEW g, IsSeq(g), NEW o, IsSeq(o), NEW t, IsSeq(t)
  PROVE  InArray(Past(Append(g, No), Append(o, ArrayOpen), No, t), g, o, t)
<1>1. Past(Append(g, No), Append(o, Opened("array", No, {})), No, t)
        = Inside(g, No, o, "array", {}, t)
  BY PastIsInside
<1>2. QED
  BY <1>1 DEF InArray, ArrayOpen, No

LEMMA ValueUse ==
  ASSUME NEW calls, NEW ts, IsValue(calls, ts), NEW w, NEW g, NEW o, NEW d, NEW t,
         Slot(w, g, o, d, t)
  PROVE  Performed(w, calls) = Past(g, o, d, t \o ts)
  BY DEF IsValue

LEMMA MembersUse ==
  ASSUME NEW calls, NEW names, NEW ts, IsMembers(calls, names, ts),
         NEW w, NEW g, NEW o, NEW keys, NEW t, InObject(w, g, o, keys, t), keys \cap names = {}
  PROVE  InObject(Performed(w, calls), g, o, keys \cup names, t \o ts)
  BY DEF IsMembers

LEMMA ItemsUse ==
  ASSUME NEW calls, NEW ts, IsItems(calls, ts), NEW w, NEW g, NEW o, NEW t, InArray(w, g, o, t)
  PROVE  InArray(Performed(w, calls), g, o, t \o ts)
  BY DEF IsItems

LEMMA AreSeqs ==
  ASSUME NEW calls, NEW names, NEW ts,
         IsValue(calls, ts) \/ IsMembers(calls, names, ts) \/ IsItems(calls, ts)
  PROVE  IsSeq(calls) /\ IsSeq(ts)
  BY DEF IsValue, IsMembers, IsItems

LEMMA PerformCalls ==
  ASSUME NEW w
  PROVE  /\ \A kind : Performed(w, Begins(kind)) = Begin(w, kind)
         /\ \A kind : Performed(w, Ends(kind)) = End(w, kind)
         /\ \A name : Performed(w, <<[call |-> "key", name |-> name]>>) = Key(w, name)
         /\ Performed(w, Value) = Scalar(w)
         /\ \A chars : Performed(w, Text(chars)) = String(w, chars)
<1>1. ASSUME NEW kind PROVE Performed(w, Begins(kind)) = Begin(w, kind)
  BY PerformedOne DEF Begins, Perform
<1>2. ASSUME NEW kind PROVE Performed(w, Ends(kind)) = End(w, kind)
  BY PerformedOne DEF Ends, Perform
<1>3. ASSUME NEW name PROVE Performed(w, <<[call |-> "key", name |-> name]>>) = Key(w, name)
  BY PerformedOne DEF Perform
<1>4. Performed(w, Value) = Scalar(w)
  BY PerformedOne DEF Value, Perform
<1>5. ASSUME NEW chars PROVE Performed(w, Text(chars)) = String(w, chars)
  BY PerformedOne DEF Text, Perform
<1>6. QED
  BY <1>1, <1>2, <1>3, <1>4, <1>5

LEMMA ValueIsValue == IsValue(Value, <<>>)
<1>1. IsSeq(Value) /\ IsSeq(<<>>)
  BY OneIsSeq, NoneIsSeq DEF Value
<1>2. ASSUME NEW w, NEW g, NEW o, NEW d, NEW t, Slot(w, g, o, d, t)
      PROVE  Performed(w, Value) = Past(g, o, d, t \o <<>>)
  <2>1. Performed(w, Value) = Past(g, o, d, t)
    BY <1>2, PerformCalls, CallScalar
  <2>2. t \o <<>> = t
    BY <1>2, SlotUse, Joined, NoneIsSeq
  <2>3. QED
    BY <2>1, <2>2
<1>3. QED
  BY <1>1, <1>2 DEF IsValue

LEMMA TextIsValue ==
  ASSUME NEW C, NEW chars \in Seq(C)
  PROVE  IsValue(Text(chars), <<chars>>)
<1>1. IsSeq(Text(chars)) /\ IsSeq(<<chars>>)
  BY OneIsSeq DEF Text
<1>2. ASSUME NEW w, NEW g, NEW o, NEW d, NEW t, Slot(w, g, o, d, t)
      PROVE  Performed(w, Text(chars)) = Past(g, o, d, t \o <<chars>>)
  <2>1. String(w, chars) = Past(g, o, d, Append(t, chars))
    BY <1>2, CallString
  <2>2. Performed(w, Text(chars)) = String(w, chars)
    BY PerformCalls
  <2>3. Append(t, chars) = t \o <<chars>>
    BY <1>2, SlotUse, Appended
  <2>4. QED
    BY <2>1, <2>2, <2>3
<1>3. QED
  BY <1>1, <1>2 DEF IsValue

LEMMA MemberIs ==
  ASSUME NEW name, NEW calls, NEW ts, IsValue(calls, ts)
  PROVE  IsMembers(Member(name, calls), {name}, ts)
<1> DEFINE key == <<[call |-> "key", name |-> name]>>
<1>1. IsSeq(key) /\ IsSeq(calls) /\ IsSeq(ts)
  BY OneIsSeq, AreSeqs
<1>2. Member(name, calls) = key \o calls
  BY DEF Member
<1>3. ASSUME NEW w PROVE Performed(w, key) = Key(w, name)
  BY PerformCalls
<1> HIDE DEF key
<1>4. ASSUME NEW w, NEW g, NEW o, NEW keys, NEW t, InObject(w, g, o, keys, t),
             keys \cap {name} = {}
      PROVE  InObject(Performed(w, Member(name, calls)), g, o, keys \cup {name}, t \o ts)
  <2> DEFINE ks == keys \cup {name}
             G == Append(g, No)
             O == Append(o, ObjectWith(ks))
  <2>1. Performed(w, Member(name, calls)) = Performed(Key(w, name), calls)
    BY <1>1, <1>2, <1>3, PerformedTwo
  <2>2. Slot(Key(w, name), G, O, No, t)
    BY <1>4, KeySlot
  <2> HIDE DEF G, O
  <2>3. Performed(Key(w, name), calls) = Past(G, O, No, t \o ts)
    BY <2>2, ValueUse
  <2>4. IsSeq(g) /\ IsSeq(o) /\ IsSeq(t)
    BY <1>4 DEF InObject
  <2>5. IsSeq(t \o ts)
    BY <1>1, <2>4, Joined
  <2> HIDE DEF ks
  <2>6. InObject(Past(G, O, No, t \o ts), g, o, ks, t \o ts)
    BY <2>4, <2>5, PastMember DEF G, O
  <2>7. QED
    BY <2>1, <2>3, <2>6 DEF ks
<1>5. IsSeq(Member(name, calls))
  BY <1>1, <1>2, Joined
<1>6. QED
  BY <1>1, <1>4, <1>5 DEF IsMembers

LEMMA NoMembers == IsMembers(<<>>, {}, <<>>)
<1>1. ASSUME NEW w, NEW g, NEW o, NEW keys, NEW t, InObject(w, g, o, keys, t)
      PROVE  InObject(Performed(w, <<>>), g, o, keys \cup {}, t \o <<>>)
  <2>1. Performed(w, <<>>) = w
    BY PerformedNone
  <2>2. t \o <<>> = t
    BY <1>1, Joined, NoneIsSeq DEF InObject
  <2>3. keys \cup {} = keys
    OBVIOUS
  <2>4. QED
    BY <1>1, <2>1, <2>2, <2>3
<1>2. QED
  BY <1>1, NoneIsSeq DEF IsMembers

LEMMA MembersTwo ==
  ASSUME NEW a, NEW A, NEW s, IsMembers(a, A, s), NEW b, NEW B, NEW u, IsMembers(b, B, u),
         A \cap B = {}
  PROVE  IsMembers(a \o b, A \cup B, s \o u)
<1>1. IsSeq(a) /\ IsSeq(s) /\ IsSeq(b) /\ IsSeq(u)
  BY AreSeqs
<1>2. IsSeq(a \o b) /\ IsSeq(s \o u)
  BY <1>1, Joined
<1>3. ASSUME NEW w, NEW g, NEW o, NEW keys, NEW t, InObject(w, g, o, keys, t),
             keys \cap (A \cup B) = {}
      PROVE  InObject(Performed(w, a \o b), g, o, keys \cup (A \cup B), t \o (s \o u))
  <2>1. Performed(w, a \o b) = Performed(Performed(w, a), b)
    BY <1>1, PerformedTwo
  <2>2. InObject(Performed(w, a), g, o, keys \cup A, t \o s)
    <3>1. keys \cap A = {}
      BY <1>3
    <3>2. QED
      BY <1>3, <3>1, MembersUse
  <2>3. (keys \cup A) \cap B = {}
    BY <1>3
  <2>4. InObject(Performed(Performed(w, a), b), g, o, (keys \cup A) \cup B, (t \o s) \o u)
    BY <2>2, <2>3, MembersUse
  <2>5. (t \o s) \o u = t \o (s \o u)
    <3>1. IsSeq(t)
      BY <1>3 DEF InObject
    <3>2. QED
      BY <1>1, <3>1, Associative
  <2>6. (keys \cup A) \cup B = keys \cup (A \cup B)
    OBVIOUS
  <2>7. QED
    BY <2>1, <2>4, <2>5, <2>6
<1>4. QED
  BY <1>2, <1>3 DEF IsMembers

LEMMA OneMore ==
  ASSUME NEW a, NEW A, NEW s, IsMembers(a, A, s), NEW name, name \notin A,
         NEW calls, NEW u, IsValue(calls, u)
  PROVE  IsMembers(a \o Member(name, calls), A \cup {name}, s \o u)
<1>1. IsMembers(Member(name, calls), {name}, u)
  BY MemberIs
<1>2. A \cap {name} = {}
  OBVIOUS
<1> DEFINE b == Member(name, calls)
           B == {name}
<1> HIDE DEF b, B
<1>3. IsMembers(a \o b, A \cup B, s \o u)
  BY <1>1, <1>2, MembersTwo DEF b, B
<1>4. QED
  BY <1>3 DEF b, B

LEMMA ObjectIs ==
  ASSUME NEW calls, NEW names, NEW ts, IsMembers(calls, names, ts)
  PROVE  IsValue(Object(calls), ts)
<1> DEFINE begin == Begins("object")
           end == Ends("object")
<1>1. IsSeq(calls) /\ IsSeq(ts) /\ IsSeq(begin) /\ IsSeq(end)
  BY AreSeqs, OneIsSeq DEF Begins, Ends
<1>2. Object(calls) = (begin \o calls) \o end
  BY DEF Object
<1>3. ASSUME NEW w PROVE Performed(w, begin) = Begin(w, "object")
  BY PerformCalls
<1>4. ASSUME NEW w PROVE Performed(w, end) = End(w, "object")
  BY PerformCalls
<1> HIDE DEF begin, end
<1>5. IsSeq(begin \o calls) /\ IsSeq(Object(calls))
  <2>1. IsSeq(begin \o calls)
    BY <1>1, Joined
  <2>2. QED
    BY <1>1, <1>2, <2>1, Joined
<1>6. ASSUME NEW w, NEW g, NEW o, NEW d, NEW t, Slot(w, g, o, d, t)
      PROVE  Performed(w, Object(calls)) = Past(g, o, d, t \o ts)
  <2> DEFINE v == Begin(w, "object")
             x == Performed(v, calls)
             none == {}
  <2>1. Performed(w, begin \o calls) = x
    BY <1>1, <1>3, PerformedTwo
  <2>2. Performed(w, Object(calls)) = End(x, "object")
    BY <1>1, <1>2, <1>4, <1>5, <2>1, PerformedTwo
  <2>3. InObject(v, g, o, none, t) /\ none \cap names = {} /\ none \cup names = names
    BY <1>6, Starts
  <2> HIDE DEF v, none
  <2>4. InObject(x, g, o, none \cup names, t \o ts)
    BY <2>3, MembersUse
  <2>5. d \in BOOLEAN /\ (d <=> o = <<>>)
    BY <1>6, SlotUse
  <2> HIDE DEF x
  <2>6. End(x, "object") = Past(g, o, d, t \o ts)
    BY <2>4, <2>5, ObjectEnds
  <2>7. QED
    BY <2>2, <2>6
<1>7. QED
  BY <1>1, <1>5, <1>6 DEF IsValue

LEMMA ItemIs ==
  ASSUME NEW calls, NEW ts, IsValue(calls, ts)
  PROVE  IsItems(calls, ts)
<1>1. IsSeq(calls) /\ IsSeq(ts)
  BY AreSeqs
<1>2. ASSUME NEW w, NEW g, NEW o, NEW t, InArray(w, g, o, t)
      PROVE  InArray(Performed(w, calls), g, o, t \o ts)
  <2> DEFINE G == Append(g, No)
             O == Append(o, ArrayOpen)
  <2>1. Slot(w, G, O, No, t)
    BY <1>2, ItemSlot
  <2> HIDE DEF G, O
  <2>2. Performed(w, calls) = Past(G, O, No, t \o ts)
    BY <2>1, ValueUse
  <2>3. IsSeq(g) /\ IsSeq(o) /\ IsSeq(t)
    BY <1>2 DEF InArray
  <2>4. IsSeq(t \o ts)
    BY <1>1, <2>3, Joined
  <2>5. InArray(Past(G, O, No, t \o ts), g, o, t \o ts)
    BY <2>3, <2>4, PastItem DEF G, O
  <2>6. QED
    BY <2>2, <2>5
<1>3. QED
  BY <1>1, <1>2 DEF IsItems

LEMMA NoItems == IsItems(<<>>, <<>>)
<1>1. ASSUME NEW w, NEW g, NEW o, NEW t, InArray(w, g, o, t)
      PROVE  InArray(Performed(w, <<>>), g, o, t \o <<>>)
  <2>1. Performed(w, <<>>) = w
    BY PerformedNone
  <2>2. t \o <<>> = t
    BY <1>1, Joined, NoneIsSeq DEF InArray
  <2>3. QED
    BY <1>1, <2>1, <2>2
<1>2. QED
  BY <1>1, NoneIsSeq DEF IsItems

LEMMA ItemsTwo ==
  ASSUME NEW a, NEW s, IsItems(a, s), NEW b, NEW u, IsItems(b, u)
  PROVE  IsItems(a \o b, s \o u)
<1>1. IsSeq(a) /\ IsSeq(s) /\ IsSeq(b) /\ IsSeq(u)
  BY AreSeqs
<1>2. IsSeq(a \o b) /\ IsSeq(s \o u)
  BY <1>1, Joined
<1>3. ASSUME NEW w, NEW g, NEW o, NEW t, InArray(w, g, o, t)
      PROVE  InArray(Performed(w, a \o b), g, o, t \o (s \o u))
  <2>1. Performed(w, a \o b) = Performed(Performed(w, a), b)
    BY <1>1, PerformedTwo
  <2>2. InArray(Performed(w, a), g, o, t \o s)
    BY <1>3, ItemsUse
  <2>3. InArray(Performed(Performed(w, a), b), g, o, (t \o s) \o u)
    BY <2>2, ItemsUse
  <2>4. (t \o s) \o u = t \o (s \o u)
    <3>1. IsSeq(t)
      BY <1>3 DEF InArray
    <3>2. QED
      BY <1>1, <3>1, Associative
  <2>5. QED
    BY <2>1, <2>3, <2>4
<1>4. QED
  BY <1>2, <1>3 DEF IsItems

IsFlat(flat, seqs, n) ==
  /\ flat[0] = <<>> /\ flat[n] = FlattenSeq(seqs)
  /\ \A i \in 1..n : flat[i] = flat[i - 1] \o seqs[i]

LEMMA FlatOf ==
  ASSUME NEW n \in Nat, NEW seqs, seqs = [i \in 1..n |-> seqs[i]], \A i \in 1..n : IsSeq(seqs[i])
  PROVE  \E flat : IsFlat(flat, seqs, n)
<1> DEFINE T == UNION {{seqs[i][j] : j \in 1..Len(seqs[i])} : i \in 1..n}
<1>1. ASSUME NEW i \in 1..n PROVE seqs[i] \in Seq(T)
  <2>1. PICK U : seqs[i] \in Seq(U)
    BY DEF IsSeq
  <2>2. ASSUME NEW j \in 1..Len(seqs[i]) PROVE seqs[i][j] \in T
    OBVIOUS
  <2> HIDE DEF T
  <2>3. QED
    BY <2>1, <2>2
<1> HIDE DEF T
<1>2. seqs \in Seq(Seq(T)) /\ Len(seqs) = n
  <2>1. seqs \in [1..n -> Seq(T)]
    BY <1>1
  <2>2. QED
    BY <2>1
<1>3. seqs \in Seq(Seq(T))
  BY <1>2
<1>4. PICK flat \in [0..Len(seqs) -> Seq(T)] :
             /\ flat[0] = <<>> /\ flat[Len(seqs)] = FlattenSeq(seqs)
             /\ \A i \in 1..Len(seqs) : flat[i] = flat[i - 1] \o seqs[i]
  BY ONLY <1>3, FlattenSteps
<1>5. QED
  BY <1>2, <1>4 DEF IsFlat

LEMMA ItemsAll ==
  ASSUME NEW n \in Nat, NEW items, items = [i \in 1..n |-> items[i]],
         NEW texts, texts = [i \in 1..n |-> texts[i]],
         \A i \in 1..n : IsValue(items[i], texts[i])
  PROVE  IsItems(FlattenSeq(items), FlattenSeq(texts))
<1>1. \A i \in 1..n : IsSeq(items[i])
  BY AreSeqs
<1>2. \A i \in 1..n : IsSeq(texts[i])
  BY AreSeqs
<1>3. PICK f : IsFlat(f, items, n)
  BY <1>1, FlatOf
<1>4. PICK h : IsFlat(h, texts, n)
  BY <1>2, FlatOf
<1> DEFINE G == {i \in 0..n : IsItems(f[i], h[i])}
<1>5. 0 \in G
  BY <1>3, <1>4, NoItems DEF IsFlat
<1>6. ASSUME NEW i \in 1..n, i - 1 \in G PROVE i \in G
  <2>1. IsItems(f[i - 1], h[i - 1])
    BY <1>6
  <2>2. IsItems(items[i], texts[i])
    BY ItemIs
  <2>3. IsItems(f[i - 1] \o items[i], h[i - 1] \o texts[i])
    BY <2>1, <2>2, ItemsTwo
  <2>4. f[i] = f[i - 1] \o items[i] /\ h[i] = h[i - 1] \o texts[i]
    BY <1>3, <1>4 DEF IsFlat
  <2>5. IsItems(f[i], h[i])
    BY <2>3, <2>4
  <2>6. QED
    BY <2>5
<1>7. \A i \in 1..n : i - 1 \in G => i \in G
  BY <1>6
<1>8. n \in G
  <2> HIDE DEF G
  <2>1. 0..n \subseteq G
    BY ONLY n \in Nat, <1>5, <1>7, UpTo
  <2>2. QED
    BY <2>1
<1>9. QED
  BY <1>3, <1>4, <1>8 DEF IsFlat

LEMMA ArrayIs ==
  ASSUME NEW items, NEW ts, IsItems(FlattenSeq(items), ts)
  PROVE  IsValue(Array(items), ts)
<1> DEFINE begin == Begins("array")
           end == Ends("array")
           calls == FlattenSeq(items)
<1>1. IsSeq(calls) /\ IsSeq(ts) /\ IsSeq(begin) /\ IsSeq(end)
  BY AreSeqs, OneIsSeq DEF Begins, Ends
<1>2. Array(items) = (begin \o calls) \o end
  BY DEF Array
<1>3. ASSUME NEW w PROVE Performed(w, begin) = Begin(w, "array")
  BY PerformCalls
<1>4. ASSUME NEW w PROVE Performed(w, end) = End(w, "array")
  BY PerformCalls
<1>0. IsItems(calls, ts)
  OBVIOUS
<1> HIDE DEF begin, end, calls
<1>5. IsSeq(begin \o calls) /\ IsSeq(Array(items))
  <2>1. IsSeq(begin \o calls)
    BY <1>1, Joined
  <2>2. QED
    BY <1>1, <1>2, <2>1, Joined
<1>6. ASSUME NEW w, NEW g, NEW o, NEW d, NEW t, Slot(w, g, o, d, t)
      PROVE  Performed(w, Array(items)) = Past(g, o, d, t \o ts)
  <2> DEFINE v == Begin(w, "array")
             x == Performed(v, calls)
  <2>1. Performed(w, begin \o calls) = x
    BY <1>1, <1>3, PerformedTwo
  <2>2. Performed(w, Array(items)) = End(x, "array")
    BY <1>1, <1>2, <1>4, <1>5, <2>1, PerformedTwo
  <2>3. InArray(v, g, o, t)
    BY <1>6, Starts
  <2> HIDE DEF v
  <2>4. InArray(x, g, o, t \o ts)
    BY <1>0, <2>3, ItemsUse
  <2>5. d \in BOOLEAN /\ (d <=> o = <<>>)
    BY <1>6, SlotUse
  <2> HIDE DEF x
  <2>6. End(x, "array") = Past(g, o, d, t \o ts)
    BY <2>4, <2>5, ArrayEnds
  <2>7. QED
    BY <2>2, <2>6
<1>7. QED
  BY <1>1, <1>5, <1>6 DEF IsValue

\* Texts that are each one string, and texts that hold none.
LEMMA FlatOne ==
  ASSUME NEW n \in Nat, NEW S, NEW f \in [1..n -> S]
  PROVE  FlattenSeq([i \in 1..n |-> <<f[i]>>]) = f
<1> DEFINE seqs == [i \in 1..n |-> <<f[i]>>]
<1>1. \A i \in 1..n : seqs[i] = <<f[i]>> /\ IsSeq(seqs[i])
  BY OneIsSeq
<1>2. seqs = [i \in 1..n |-> seqs[i]]
  OBVIOUS
<1> HIDE DEF seqs
<1>3. PICK h : IsFlat(h, seqs, n)
  BY <1>1, <1>2, FlatOf
<1> DEFINE Is(i) == h[i] \in Seq(S) /\ Len(h[i]) = i /\ \A j \in 1..i : h[i][j] = f[j]
           G == {i \in 0..n : Is(i)}
<1>4. 0 \in G
  <2>1. h[0] = <<>>
    BY <1>3 DEF IsFlat
  <2>2. h[0] \in Seq(S) /\ Len(h[0]) = 0
    BY <2>1
  <2>3. QED
    BY <2>2
<1>5. ASSUME NEW i \in 1..n, i - 1 \in G PROVE i \in G
  <2>1. Is(i - 1)
    BY <1>5
  <2> DEFINE s == h[i - 1]
  <2>2. h[i] = s \o <<f[i]>>
    BY <1>1, <1>3 DEF IsFlat
  <2>3. s \in Seq(S) /\ Len(s) = i - 1 /\ f[i] \in S /\ \A j \in 1..(i - 1) : s[j] = f[j]
    BY <2>1
  <2> HIDE DEF s
  <2>4. h[i] = Append(s, f[i])
    BY <2>2, <2>3, AppendIsConcat
  <2>5. h[i] \in Seq(S) /\ Len(h[i]) = i
    BY <2>3, <2>4
  <2>6. ASSUME NEW j \in 1..i PROVE h[i][j] = f[j]
    <3>1. CASE j = i
      BY <2>3, <2>4, <3>1
    <3>2. CASE j # i
      <4>1. j \in 1..(i - 1)
        BY <3>2
      <4>2. QED
        BY <2>3, <2>4, <4>1
    <3>3. QED
      BY <3>1, <3>2
  <2>7. QED
    BY <2>5, <2>6
<1>6. \A i \in 1..n : i - 1 \in G => i \in G
  BY <1>5
<1>7. n \in G
  <2> HIDE DEF G
  <2>1. 0..n \subseteq G
    BY ONLY n \in Nat, <1>4, <1>6, UpTo
  <2>2. QED
    BY <2>1
<1>8. Is(n)
  BY <1>7
<1> DEFINE x == h[n]
<1>9. x \in Seq(S) /\ Len(x) = n /\ \A j \in 1..n : x[j] = f[j]
  BY <1>8
<1> HIDE DEF x
<1>10. x = [j \in 1..n |-> x[j]]
  BY <1>9
<1>11. x = f
  BY <1>9, <1>10
<1>12. QED
  BY <1>3, <1>11 DEF IsFlat, x, seqs

LEMMA FlatNone ==
  ASSUME NEW n \in Nat
  PROVE  FlattenSeq([i \in 1..n |-> <<>>]) = <<>>
<1> DEFINE seqs == [i \in 1..n |-> <<>>]
<1>1. \A i \in 1..n : seqs[i] = <<>> /\ IsSeq(seqs[i])
  BY NoneIsSeq
<1>2. seqs = [i \in 1..n |-> seqs[i]]
  OBVIOUS
<1> HIDE DEF seqs
<1>3. PICK h : IsFlat(h, seqs, n)
  BY <1>1, <1>2, FlatOf
<1> DEFINE G == {i \in 0..n : h[i] = <<>>}
<1>4. 0 \in G
  BY <1>3 DEF IsFlat
<1>5. ASSUME NEW i \in 1..n, i - 1 \in G PROVE i \in G
  <2>1. h[i] = h[i - 1] \o seqs[i] /\ h[i - 1] = <<>> /\ seqs[i] = <<>>
    BY <1>1, <1>3, <1>5 DEF IsFlat
  <2>2. <<>> \o <<>> = <<>>
    BY NoneIsSeq, Joined
  <2>3. QED
    BY <2>1, <2>2
<1>6. \A i \in 1..n : i - 1 \in G => i \in G
  BY <1>5
<1>7. n \in G
  <2> HIDE DEF G
  <2>1. 0..n \subseteq G
    BY ONLY n \in Nat, <1>4, <1>6, UpTo
  <2>2. QED
    BY <2>1
<1>8. QED
  BY <1>3, <1>7 DEF IsFlat, seqs

\* Members of several names, each with the same value.
Different(names) == \A i, j \in DOMAIN names : i # j => names[i] # names[j]

Named(names) ==
  Len(names) \in Nat /\ DOMAIN names = 1..Len(names) /\ Different(names)

NamesIn(names) == {names[i] : i \in DOMAIN names}

LEMMA MembersAll ==
  ASSUME NEW names, Named(names), NEW calls, IsValue(calls, <<>>)
  PROVE  IsMembers(FlattenSeq([i \in DOMAIN names |-> Member(names[i], calls)]),
                   NamesIn(names), <<>>)
<1> DEFINE n == Len(names)
           seqs == [i \in DOMAIN names |-> Member(names[i], calls)]
           Upto(i) == {names[j] : j \in 1..i}
<1>1. n \in Nat /\ DOMAIN names = 1..n
  BY DEF Named
<1>2. seqs = [i \in 1..n |-> seqs[i]] /\ \A i \in 1..n : seqs[i] = Member(names[i], calls)
  BY <1>1
<1>3. ASSUME NEW i \in 1..n PROVE IsMembers(seqs[i], {names[i]}, <<>>)
  BY <1>2, MemberIs
<1>4. \A i \in 1..n : IsSeq(seqs[i])
  BY <1>3, AreSeqs
<1> HIDE DEF seqs, n
<1>5. PICK h : IsFlat(h, seqs, n)
  BY <1>1, <1>2, <1>4, FlatOf
<1> DEFINE G == {i \in 0..n : IsMembers(h[i], Upto(i), <<>>)}
<1>6. 0 \in G
  <2>1. Upto(0) = {}
    OBVIOUS
  <2>2. h[0] = <<>>
    BY <1>5 DEF IsFlat
  <2> HIDE DEF Upto
  <2>3. IsMembers(h[0], Upto(0), <<>>)
    BY <2>1, <2>2, NoMembers
  <2>4. QED
    BY <1>1, <2>3
<1>7. ASSUME NEW i \in 1..n, i - 1 \in G PROVE i \in G
  <2> DEFINE A == Upto(i - 1)
             B == {names[i]}
             none == <<>>
             both == A \cup B
  <2>1. both = Upto(i)
    <3>1. 1..i = (1..(i - 1)) \cup {i}
      BY <1>1
    <3>2. QED
      BY <3>1
  <2>2. A \cap B = {}
    <3>1. \A j \in 1..(i - 1) : j \in DOMAIN names /\ i \in DOMAIN names /\ j # i
      BY <1>1
    <3>2. QED
      BY <3>1 DEF Named, Different
  <2>3. IsMembers(h[i - 1], A, none)
    BY <1>7
  <2>4. IsMembers(seqs[i], B, none)
    BY <1>3
  <2> HIDE DEF Upto, A, B, none
  <2>5. IsMembers(h[i - 1] \o seqs[i], A \cup B, none \o none)
    BY <2>2, <2>3, <2>4, MembersTwo
  <2>6. none \o none = none
    BY NoneIsSeq, Joined DEF none
  <2>7. h[i] = h[i - 1] \o seqs[i]
    BY <1>5 DEF IsFlat
  <2>8. IsMembers(h[i], Upto(i), none)
    BY <2>1, <2>5, <2>6, <2>7
  <2>9. QED
    BY <1>1, <2>8 DEF none
<1>8. \A i \in 1..n : i - 1 \in G => i \in G
  BY <1>7
<1>9. n \in G
  <2> HIDE DEF G
  <2>1. 0..n \subseteq G
    BY ONLY <1>1, <1>6, <1>8, UpTo
  <2>2. QED
    BY <1>1, <2>1
<1>10. Upto(n) = NamesIn(names)
  BY <1>1 DEF NamesIn
<1>11. h[n] = FlattenSeq(seqs)
  BY <1>5 DEF IsFlat
<1> HIDE DEF Upto
<1>12. QED
  BY <1>9, <1>10, <1>11 DEF seqs

LEMMA ValuesAre ==
  ASSUME NEW names, Named(names)
  PROVE  IsMembers(Values(names), NamesIn(names), <<>>)
  BY ValueIsValue, MembersAll DEF Values

-----------------------------------------------------------------------------
(***************************************************************************)
(* The members of a snapshot.                                              *)
(***************************************************************************)

LEMMA NoText == ASSUME NEW u, IsSeq(u) PROVE <<>> \o u = u /\ u \o <<>> = u
  BY Joined, NoneIsSeq

LEMMA ObjectOf ==
  ASSUME NEW names, Named(names)
  PROVE  IsValue(Object(Values(names)), <<>>)
<1>1. IsMembers(Values(names), NamesIn(names), <<>>)
  BY ValuesAre
<1>2. QED
  BY <1>1, ObjectIs

\* Values and one member more.
LEMMA ValuesAnd ==
  ASSUME NEW names, Named(names), NEW name, name \notin NamesIn(names),
         NEW calls, NEW u, IsValue(calls, u)
  PROVE  IsMembers(Values(names) \o Member(name, calls), NamesIn(names) \cup {name}, u)
<1> DEFINE none == <<>>
<1>1. IsMembers(Values(names), NamesIn(names), none)
  BY ValuesAre
<1>2. none \o u = u
  BY AreSeqs, NoText
<1> HIDE DEF none
<1>3. IsMembers(Values(names) \o Member(name, calls), NamesIn(names) \cup {name}, none \o u)
  BY <1>1, OneMore
<1>4. QED
  BY <1>2, <1>3

LEMMA StatusIs == IsValue(Status, <<>>)
<1> DEFINE names == <<"availability", "reason", "age_ms">>
<1>1. Named(names)
  BY DEF Named, Different
<1> HIDE DEF names
<1>2. IsValue(Object(Values(names)), <<>>)
  BY <1>1, ObjectOf
<1>3. QED
  BY <1>2 DEF Status, names

LEMMA Repeated ==
  ASSUME NEW n \in Nat, NEW calls, IsValue(calls, <<>>)
  PROVE  IsValue(Array(Repeat(n, calls)), <<>>)
<1> DEFINE items == [i \in 1..n |-> calls]
           texts == [i \in 1..n |-> <<>>]
<1>1. items = [i \in 1..n |-> items[i]] /\ texts = [i \in 1..n |-> texts[i]]
  OBVIOUS
<1>2. \A i \in 1..n : IsValue(items[i], texts[i])
  OBVIOUS
<1>3. FlattenSeq(texts) = <<>>
  BY FlatNone
<1>4. Repeat(n, calls) = items
  BY DEF Repeat
<1> HIDE DEF items, texts
<1>5. IsItems(FlattenSeq(items), FlattenSeq(texts))
  BY <1>1, <1>2, ItemsAll
<1>6. IsValue(Array(items), FlattenSeq(texts))
  BY <1>5, ArrayIs
<1>7. QED
  BY <1>3, <1>4, <1>6

LEMMA TwoMembers ==
  ASSUME NEW name, NEW other, name # other, NEW a, IsValue(a, <<>>), NEW b, IsValue(b, <<>>)
  PROVE  IsMembers(Member(name, a) \o Member(other, b), {name} \cup {other}, <<>>)
<1> DEFINE none == <<>>
           A == {name}
<1>1. IsMembers(Member(name, a), A, none)
  BY MemberIs
<1>2. other \notin A
  OBVIOUS
<1>3. none \o none = none
  BY NoText, NoneIsSeq
<1>4. IsValue(b, none)
  OBVIOUS
<1> HIDE DEF none, A
<1>5. IsMembers(Member(name, a) \o Member(other, b), A \cup {other}, none \o none)
  BY <1>1, <1>2, <1>4, OneMore
<1>6. QED
  BY <1>3, <1>5 DEF A, none

LEMMA CpuIs ==
  ASSUME NEW s, s.cores \in Nat, s.clusters \in Nat
  PROVE  IsMembers(WriteCpu(s), {"cpu"}, <<>>)
<1> DEFINE coreNames == <<"cpu_id", "cluster_type", "label", "utilization_percent">>
           clusterNames == <<"name", "label", "core_count", "utilization_percent",
             "frequency_mhz", "frequency_available", "power_watts", "power_available">>
           core == Object(Values(coreNames))
           cluster == Object(Values(clusterNames))
           a == Array(Repeat(s.cores, core))
           b == Array(Repeat(s.clusters, cluster))
           first == "per_core_utilization"
           second == "cluster_summary"
           calls == Member(first, a) \o Member(second, b)
<1>1. Named(coreNames) /\ Named(clusterNames) /\ first # second
  BY DEF Named, Different
<1>2. WriteCpu(s) = Member("cpu", Object(calls))
  BY DEF WriteCpu
<1> HIDE DEF coreNames, clusterNames, first, second
<1>3. IsValue(core, <<>>) /\ IsValue(cluster, <<>>)
  BY <1>1, ObjectOf
<1> HIDE DEF core, cluster
<1>4. IsValue(a, <<>>) /\ IsValue(b, <<>>)
  BY <1>3, Repeated
<1> HIDE DEF a, b
<1>5. IsMembers(calls, {first} \cup {second}, <<>>)
  BY <1>1, <1>4, TwoMembers
<1> HIDE DEF calls
<1>6. IsValue(Object(calls), <<>>)
  BY <1>5, ObjectIs
<1>7. QED
  BY <1>2, <1>6, MemberIs

LEMMA MemoryIs == IsMembers(WriteMemory, {"memory"}, <<>>)
<1> DEFINE names == <<"total_bytes", "used_bytes", "wired_bytes", "active_bytes",
             "inactive_bytes", "compressed_bytes", "purgeable_bytes", "speculative_bytes",
             "swap_total_bytes", "swap_used_bytes", "swapins_bytes_per_sec",
             "swapouts_bytes_per_sec", "pressure_level">>
           name == "pressure_status"
           calls == Values(names) \o Member(name, Status)
<1>1. Named(names) /\ name \notin NamesIn(names)
  BY DEF Named, Different, NamesIn
<1>2. WriteMemory = Member("memory", Object(calls))
  BY DEF WriteMemory
<1> HIDE DEF names, name
<1>3. IsMembers(calls, NamesIn(names) \cup {name}, <<>>)
  BY <1>1, StatusIs, ValuesAnd
<1> HIDE DEF calls
<1>4. IsValue(Object(calls), <<>>)
  BY <1>3, ObjectIs
<1>5. QED
  BY <1>2, <1>4, MemberIs

LEMMA GpuIs ==
  ASSUME NEW s, s.gpuPids \in Nat
  PROVE  IsMembers(WriteGpu(s), {"gpu"}, <<>>)
<1> DEFINE names == <<"utilization_percent", "memory_used_bytes", "memory_total_bytes",
                      "power_watts", "frequency_mhz">>
           name == "active_pids"
           other == "status"
           pids == Array(Repeat(s.gpuPids, Value))
           most == Values(names) \o Member(name, pids)
           calls == most \o Member(other, Status)
           none == <<>>
           A == NamesIn(names) \cup {name}
<1>1. Named(names) /\ name \notin NamesIn(names) /\ other \notin A
  BY DEF Named, Different, NamesIn
<1>2. WriteGpu(s) = Member("gpu", Object(calls))
  BY DEF WriteGpu
<1> HIDE DEF names, name, other
<1>3. IsValue(pids, none)
  BY ValueIsValue, Repeated
<1> HIDE DEF pids
<1>4. IsMembers(most, A, none)
  BY <1>1, <1>3, ValuesAnd
<1>5. IsValue(Status, none) /\ none \o none = none
  BY StatusIs, NoText, NoneIsSeq
<1> HIDE DEF most, A, none
<1>6. IsMembers(calls, A \cup {other}, none \o none)
  BY <1>1, <1>4, <1>5, OneMore
<1> HIDE DEF calls
<1>7. IsValue(Object(calls), none)
  BY <1>5, <1>6, ObjectIs
<1>8. QED
  BY <1>2, <1>7, MemberIs DEF none

\* An object of the I/O.
LEMMA RatesIs ==
  ASSUME NEW fields, Named(fields), NEW name, name \notin NamesIn(fields)
  PROVE  IsValue(Object(Values(fields) \o Member(name, Status)), <<>>)
<1>1. IsMembers(Values(fields) \o Member(name, Status), NamesIn(fields) \cup {name}, <<>>)
  BY StatusIs, ValuesAnd
<1>2. QED
  BY <1>1, ObjectIs

LEMMA IoIs == IsMembers(WriteIo, {"io"}, <<>>)
<1> DEFINE disk == <<"read_bytes_per_sec", "write_bytes_per_sec">>
           paging == <<"pageins_bytes_per_sec", "pageouts_bytes_per_sec",
                       "swapins_bytes_per_sec", "swapouts_bytes_per_sec">>
           network == <<"rx_bytes_per_sec", "tx_bytes_per_sec">>
           status == "status"
           d == "disk"
           p == "paging"
           n == "network"
           Rates(fields) == Object(Values(fields) \o Member(status, Status))
           most == Member(d, Rates(disk)) \o Member(p, Rates(paging))
           calls == most \o Member(n, Rates(network))
           none == <<>>
           A == {d} \cup {p}
<1>1. /\ Named(disk) /\ status \notin NamesIn(disk)
      /\ Named(paging) /\ status \notin NamesIn(paging)
      /\ Named(network) /\ status \notin NamesIn(network)
  BY DEF Named, Different, NamesIn
<1>2. d # p /\ n \notin A
  OBVIOUS
<1>3. WriteIo = Member("io", Object(calls))
  BY DEF WriteIo
<1> HIDE DEF disk, paging, network, status, d, p, n
<1>4. IsValue(Rates(disk), none) /\ IsValue(Rates(paging), none) /\ IsValue(Rates(network), none)
  BY <1>1, RatesIs
<1> HIDE DEF Rates
<1>5. IsMembers(most, A, none)
  BY <1>2, <1>4, TwoMembers
<1>6. none \o none = none
  BY NoText, NoneIsSeq
<1> HIDE DEF most, A, none
<1>7. IsMembers(calls, A \cup {n}, none \o none)
  BY <1>2, <1>4, <1>5, OneMore
<1> HIDE DEF calls
<1>8. IsValue(Object(calls), none)
  BY <1>6, <1>7, ObjectIs
<1>9. QED
  BY <1>3, <1>8, MemberIs DEF none

LEMMA RiskIs == IsMembers(WriteRisk, {"memory_risk"}, <<>>)
<1> DEFINE names == <<"level", "reason", "estimated_headroom_bytes", "reclaimable_bytes",
             "compressed_bytes", "swap_used_bytes", "swap_rate_bytes_per_sec">>
<1>1. Named(names)
  BY DEF Named, Different
<1>2. WriteRisk = Member("memory_risk", Object(Values(names)))
  BY DEF WriteRisk
<1> HIDE DEF names
<1>3. IsValue(Object(Values(names)), <<>>)
  BY <1>1, ObjectOf
<1>4. QED
  BY <1>2, <1>3, MemberIs

LEMMA HostIs == IsMembers(WriteHost, {"host"}, <<>>)
<1> DEFINE names == <<"macos_version", "soc_name", "cpu_core_count", "gpu_core_count",
                      "memory_total_bytes">>
<1>1. Named(names)
  BY DEF Named, Different
<1>2. WriteHost = Member("host", Object(Values(names)))
  BY DEF WriteHost
<1> HIDE DEF names
<1>3. IsValue(Object(Values(names)), <<>>)
  BY <1>1, ObjectOf
<1>4. QED
  BY <1>2, <1>3, MemberIs

LEMMA CapabilitiesIs == IsMembers(WriteCapabilities, {"capabilities"}, <<>>)
<1> DEFINE root == <<"root_mode">>
           statuses == <<"gpu_total_status", "gpu_process_status", "thermal_status",
                         "ane_status", "root_process_status">>
           a == Values(root)
           b == FlattenSeq([i \in DOMAIN statuses |-> Member(statuses[i], Status)])
           A == NamesIn(root)
           B == NamesIn(statuses)
           none == <<>>
<1>1. Named(root) /\ Named(statuses) /\ A \cap B = {}
  BY DEF Named, Different, NamesIn
<1>2. WriteCapabilities = Member("capabilities", Object(a \o b))
  BY DEF WriteCapabilities
<1> HIDE DEF root, statuses
<1>3. IsMembers(a, A, none)
  BY <1>1, ValuesAre
<1>4. IsMembers(b, B, none)
  BY <1>1, StatusIs, MembersAll
<1>5. none \o none = none
  BY NoText, NoneIsSeq
<1> HIDE DEF a, b, A, B, none
<1>6. IsMembers(a \o b, A \cup B, none \o none)
  BY <1>1, <1>3, <1>4, MembersTwo
<1>7. IsValue(Object(a \o b), none)
  BY <1>5, <1>6, ObjectIs
<1>8. QED
  BY <1>2, <1>7, MemberIs DEF none

AneMember == Member("ane", Object(Values(<<"summary">>) \o Member("status", Status)))

LEMMA AneIs == IsMembers(AneMember, {"ane"}, <<>>)
<1> DEFINE names == <<"summary">>
           name == "status"
           calls == Values(names) \o Member(name, Status)
<1>1. Named(names) /\ name \notin NamesIn(names)
  BY DEF Named, Different, NamesIn
<1>2. AneMember = Member("ane", Object(calls))
  BY DEF AneMember
<1> HIDE DEF names, name
<1>3. IsMembers(calls, NamesIn(names) \cup {name}, <<>>)
  BY <1>1, StatusIs, ValuesAnd
<1> HIDE DEF calls
<1>4. IsValue(Object(calls), <<>>)
  BY <1>3, ObjectIs
<1>5. QED
  BY <1>2, <1>4, MemberIs

\* An array of objects with one string each.
LEMMA ArrayOfOnes ==
  ASSUME NEW n \in Nat, NEW items, items = [i \in 1..n |-> items[i]],
         NEW S, NEW texts \in [1..n -> S], \A i \in 1..n : IsValue(items[i], <<texts[i]>>)
  PROVE  IsValue(Array(items), texts)
<1> DEFINE ones == [i \in 1..n |-> <<texts[i]>>]
<1>1. ones = [i \in 1..n |-> ones[i]] /\ \A i \in 1..n : IsValue(items[i], ones[i])
  OBVIOUS
<1>2. FlattenSeq(ones) = texts
  BY FlatOne
<1> HIDE DEF ones
<1>3. IsItems(FlattenSeq(items), FlattenSeq(ones))
  BY <1>1, ItemsAll
<1>4. QED
  BY <1>2, <1>3, ArrayIs

LEMMA ProcessIs ==
  ASSUME NEW C, NEW command \in Seq(C)
  PROVE  IsValue(Object(Values(<<"pid", "ppid", "name">>)
                 \o Member("command", Text(command))
                 \o Values(<<"user", "state", "cpu_percent", "memory_percent",
                             "resident_bytes", "virtual_bytes", "gpu_active", "core_mix",
                             "io", "power">>)), <<command>>)
<1> DEFINE names == <<"pid", "ppid", "name">>
           rest == <<"user", "state", "cpu_percent", "memory_percent", "resident_bytes",
                     "virtual_bytes", "gpu_active", "core_mix", "io", "power">>
           name == "command"
           most == Values(names) \o Member(name, Text(command))
           A == NamesIn(names) \cup {name}
           B == NamesIn(rest)
           u == <<command>>
           none == <<>>
<1>1. Named(names) /\ name \notin NamesIn(names) /\ Named(rest) /\ A \cap B = {}
  BY DEF Named, Different, NamesIn
<1> HIDE DEF names, rest, name
<1>2. IsValue(Text(command), u)
  BY TextIsValue
<1>3. IsSeq(u)
  BY OneIsSeq
<1> HIDE DEF u
<1>4. IsMembers(most, A, u)
  BY <1>1, <1>2, ValuesAnd
<1>5. IsMembers(Values(rest), B, none)
  BY <1>1, ValuesAre
<1>6. u \o none = u
  BY <1>3, NoText
<1> HIDE DEF most, A, B, none
<1>7. IsMembers(most \o Values(rest), A \cup B, u \o none)
  BY <1>1, <1>4, <1>5, MembersTwo
<1>8. IsValue(Object(most \o Values(rest)), u)
  BY <1>6, <1>7, ObjectIs
<1>9. QED
  BY <1>8 DEF most, names, rest, name, u

LEMMA ProcessesAre ==
  ASSUME NEW C, NEW s, NEW n \in Nat, DOMAIN s.processes = 1..n,
         \A i \in 1..n : s.processes[i].command \in Seq(C)
  PROVE  IsMembers(WriteProcesses(s), {"processes"}, [i \in 1..n |-> s.processes[i].command])
<1> DEFINE Process(p) ==
             Object(Values(<<"pid", "ppid", "name">>)
                 \o Member("command", Text(p.command))
                 \o Values(<<"user", "state", "cpu_percent", "memory_percent",
                             "resident_bytes", "virtual_bytes", "gpu_active", "core_mix",
                             "io", "power">>))
           items == [i \in 1..n |-> Process(s.processes[i])]
           texts == [i \in 1..n |-> s.processes[i].command]
<1>1. WriteProcesses(s) = Member("processes", Array(items))
  BY DEF WriteProcesses
<1>2. ASSUME NEW i \in 1..n PROVE IsValue(Process(s.processes[i]), <<texts[i]>>)
  <2>1. s.processes[i].command \in Seq(C) /\ texts[i] = s.processes[i].command
    OBVIOUS
  <2> HIDE DEF texts
  <2>2. QED
    BY <2>1, ProcessIs
<1> HIDE DEF Process
<1>3. items = [i \in 1..n |-> items[i]] /\ \A i \in 1..n : IsValue(items[i], <<texts[i]>>)
  BY <1>2
<1>4. texts \in [1..n -> Seq(C)]
  OBVIOUS
<1> HIDE DEF items
<1>5. IsValue(Array(items), texts)
  <2> HIDE DEF texts
  <2>1. QED
    BY <1>3, <1>4, ArrayOfOnes
<1>6. QED
  BY <1>1, <1>5, MemberIs

LEMMA WorkloadProcessIs ==
  ASSUME NEW C, NEW command \in Seq(C)
  PROVE  IsValue(Object(Values(<<"pid", "ppid", "role", "detection_confidence">>)
                          \o Member("command", Text(command))), <<command>>)
<1> DEFINE names == <<"pid", "ppid", "role", "detection_confidence">>
           name == "command"
           calls == Values(names) \o Member(name, Text(command))
<1>1. Named(names) /\ name \notin NamesIn(names)
  BY DEF Named, Different, NamesIn
<1> HIDE DEF names, name
<1>2. IsMembers(calls, NamesIn(names) \cup {name}, <<command>>)
  BY <1>1, TextIsValue, ValuesAnd
<1>3. IsValue(Object(calls), <<command>>)
  BY <1>2, ObjectIs
<1>4. QED
  BY <1>3 DEF names, name

LEMMA WorkloadIs ==
  ASSUME NEW calls, NEW u, IsValue(calls, u)
  PROVE  IsValue(Object(Values(<<"id", "name", "kind", "kind_label", "model_hint", "cpu_percent",
                        "memory_percent", "resident_bytes", "virtual_bytes", "gpu_active",
                        "core_mix", "io", "power">>)
                 \o Member("detection_status", Status) \o Member("processes", calls)), u)
<1> DEFINE names == <<"id", "name", "kind", "kind_label", "model_hint", "cpu_percent",
                        "memory_percent", "resident_bytes", "virtual_bytes", "gpu_active",
                        "core_mix", "io", "power">>
           name == "detection_status"
           other == "processes"
           most == Values(names) \o Member(name, Status)
           all == most \o Member(other, calls)
           A == NamesIn(names) \cup {name}
           none == <<>>
<1>1. Named(names) /\ name \notin NamesIn(names) /\ other \notin A
  BY DEF Named, Different, NamesIn
<1> HIDE DEF names, name, other
<1>2. IsMembers(most, A, none)
  BY <1>1, StatusIs, ValuesAnd
<1>3. none \o u = u
  BY AreSeqs, NoText
<1> HIDE DEF most, A, none
<1>4. IsMembers(all, A \cup {other}, none \o u)
  BY <1>1, <1>2, OneMore
<1> HIDE DEF all
<1>5. IsValue(Object(all), u)
  BY <1>3, <1>4, ObjectIs
<1>6. QED
  BY <1>5 DEF all, most, names, name, other

LEMMA WorkloadsAre ==
  ASSUME NEW C, NEW n \in Nat, NEW list, list = [i \in 1..n |-> list[i]],
         \A i \in 1..n : list[i] \in Seq(Seq(C))
  PROVE  IsMembers(WriteWorkloads(list), {"workloads"}, FlattenSeq(list))
<1> DEFINE Process(command) ==
             Object(Values(<<"pid", "ppid", "role", "detection_confidence">>)
                      \o Member("command", Text(command)))
           Processes(commands) == Array([i \in DOMAIN commands |-> Process(commands[i])])
           Workload(commands) ==
             Object(Values(<<"id", "name", "kind", "kind_label", "model_hint", "cpu_percent",
                        "memory_percent", "resident_bytes", "virtual_bytes", "gpu_active",
                        "core_mix", "io", "power">>)
                 \o Member("detection_status", Status)
                 \o Member("processes", Processes(commands)))
           items == [i \in 1..n |-> Workload(list[i])]
<1>0. DOMAIN list = 1..n
  OBVIOUS
<1>1. WriteWorkloads(list) = Member("workloads", Array(items))
  BY <1>0 DEF WriteWorkloads
<1>2. ASSUME NEW commands \in Seq(Seq(C)) PROVE IsValue(Workload(commands), commands)
  <2> DEFINE m == Len(commands)
             each == [i \in 1..m |-> Process(commands[i])]
  <2>1. m \in Nat /\ DOMAIN commands = 1..m /\ \A i \in 1..m : commands[i] \in Seq(C)
    OBVIOUS
  <2>2. commands \in [1..m -> Seq(C)]
    OBVIOUS
  <2>3. Processes(commands) = Array(each)
    BY <2>1
  <2>4. ASSUME NEW i \in 1..m PROVE IsValue(Process(commands[i]), <<commands[i]>>)
    BY <2>1, WorkloadProcessIs
  <2> HIDE DEF Process, m
  <2>5. each = [i \in 1..m |-> each[i]] /\ \A i \in 1..m : IsValue(each[i], <<commands[i]>>)
    BY <2>4
  <2> HIDE DEF each
  <2>6. IsValue(Array(each), commands)
    BY <2>1, <2>2, <2>5, ArrayOfOnes
  <2> HIDE DEF Processes
  <2>7. IsValue(Processes(commands), commands)
    BY <2>3, <2>6
  <2>8. QED
    BY <2>7, WorkloadIs
<1> HIDE DEF Workload
<1>3. items = [i \in 1..n |-> items[i]] /\ \A i \in 1..n : IsValue(items[i], list[i])
  BY <1>2
<1> HIDE DEF items
<1>4. IsItems(FlattenSeq(items), FlattenSeq(list))
  BY <1>3, ItemsAll
<1>5. IsValue(Array(items), FlattenSeq(list))
  BY <1>4, ArrayIs
<1>6. QED
  BY <1>1, <1>5, MemberIs

\* One member more of the snapshot, without a string.
LEMMA PlainMember ==
  ASSUME NEW a, NEW A, NEW s, IsMembers(a, A, s), NEW b, NEW name, IsMembers(b, {name}, <<>>),
         name \notin A
  PROVE  IsMembers(a \o b, A \cup {name}, s)
<1> DEFINE none == <<>>
           B == {name}
<1>1. A \cap B = {} /\ IsMembers(b, B, none)
  OBVIOUS
<1>2. s \o none = s
  BY AreSeqs, NoText
<1> HIDE DEF none, B
<1>3. IsMembers(a \o b, A \cup B, s \o none)
  BY <1>1, MembersTwo
<1>4. QED
  BY <1>2, <1>3 DEF B

LEMMA TextMember ==
  ASSUME NEW a, NEW A, NEW s, IsMembers(a, A, s), NEW b, NEW name, NEW u,
         IsMembers(b, {name}, u), name \notin A
  PROVE  IsMembers(a \o b, A \cup {name}, s \o u)
<1> DEFINE B == {name}
<1>1. A \cap B = {} /\ IsMembers(b, B, u)
  OBVIOUS
<1> HIDE DEF B
<1>2. IsMembers(a \o b, A \cup B, s \o u)
  BY <1>1, MembersTwo
<1>3. QED
  BY <1>2 DEF B

IsSnapshot(s, list, C, n, m) ==
  /\ s.cores \in Nat /\ s.clusters \in Nat /\ s.gpuPids \in Nat
  /\ DOMAIN s.processes = 1..n
  /\ \A i \in 1..n : s.processes[i].command \in Seq(C)
  /\ list = [i \in 1..m |-> list[i]]
  /\ \A i \in 1..m : list[i] \in Seq(Seq(C))

SnapshotTexts(s, list, n) == [i \in 1..n |-> s.processes[i].command] \o FlattenSeq(list)

LEMMA SnapshotIsValue ==
  ASSUME NEW C, NEW s, NEW list, NEW n \in Nat, NEW m \in Nat, IsSnapshot(s, list, C, n, m)
  PROVE  IsValue(SnapshotCalls(s, list), SnapshotTexts(s, list, n))
<1> DEFINE names == <<"schema_version", "view_profile", "timestamp_unix_ms",
                      "sample_interval_ms">>
           host == "host"
           capabilities == "capabilities"
           cpu == "cpu"
           memory == "memory"
           gpu == "gpu"
           ane == "ane"
           io == "io"
           processes == "processes"
           list_ == "workloads"
           risk == "memory_risk"
           c0 == Values(names)
           c1 == c0 \o WriteHost
           c2 == c1 \o WriteCapabilities
           c3 == c2 \o WriteCpu(s)
           c4 == c3 \o WriteMemory
           c5 == c4 \o WriteGpu(s)
           c6 == c5 \o AneMember
           c7 == c6 \o WriteIo
           c8 == c7 \o WriteProcesses(s)
           c9 == c8 \o WriteWorkloads(list)
           c10 == c9 \o WriteRisk
           n0 == NamesIn(names)
           n1 == n0 \cup {host}
           n2 == n1 \cup {capabilities}
           n3 == n2 \cup {cpu}
           n4 == n3 \cup {memory}
           n5 == n4 \cup {gpu}
           n6 == n5 \cup {ane}
           n7 == n6 \cup {io}
           n8 == n7 \cup {processes}
           n9 == n8 \cup {list_}
           n10 == n9 \cup {risk}
           none == <<>>
           p == [i \in 1..n |-> s.processes[i].command]
           w == FlattenSeq(list)
<1>1. /\ Named(names) /\ host \notin n0 /\ capabilities \notin n1 /\ cpu \notin n2
      /\ memory \notin n3 /\ gpu \notin n4 /\ ane \notin n5 /\ io \notin n6
      /\ processes \notin n7 /\ list_ \notin n8 /\ risk \notin n9
  BY DEF Named, Different, NamesIn
<1>2. SnapshotCalls(s, list) = Object(c10)
  BY DEF SnapshotCalls, AneMember
<1>3. SnapshotTexts(s, list, n) = p \o w
  BY DEF SnapshotTexts
<1>4. /\ IsMembers(WriteHost, {host}, none) /\ IsMembers(WriteCapabilities, {capabilities}, none)
      /\ IsMembers(WriteMemory, {memory}, none) /\ IsMembers(AneMember, {ane}, none)
      /\ IsMembers(WriteIo, {io}, none) /\ IsMembers(WriteRisk, {risk}, none)
  BY HostIs, CapabilitiesIs, MemoryIs, AneIs, IoIs, RiskIs
<1>5. IsMembers(WriteCpu(s), {cpu}, none) /\ IsMembers(WriteGpu(s), {gpu}, none)
  BY CpuIs, GpuIs DEF IsSnapshot
<1>6. IsMembers(WriteProcesses(s), {processes}, p)
  BY ProcessesAre DEF IsSnapshot
<1>7. IsMembers(WriteWorkloads(list), {list_}, w)
  BY WorkloadsAre DEF IsSnapshot
<1> HIDE DEF names, host, capabilities, cpu, memory, gpu, ane, io, processes, list_, risk, p, w
<1>8. IsMembers(c0, n0, none)
  BY <1>1, ValuesAre
<1> HIDE DEF c0, n0
<1>9. IsMembers(c1, n1, none)
  BY <1>1, <1>4, <1>8, PlainMember
<1> HIDE DEF c1, n1
<1>10. IsMembers(c2, n2, none)
  BY <1>1, <1>4, <1>9, PlainMember
<1> HIDE DEF c2, n2
<1>11. IsMembers(c3, n3, none)
  BY <1>1, <1>5, <1>10, PlainMember
<1> HIDE DEF c3, n3
<1>12. IsMembers(c4, n4, none)
  BY <1>1, <1>4, <1>11, PlainMember
<1> HIDE DEF c4, n4
<1>13. IsMembers(c5, n5, none)
  BY <1>1, <1>5, <1>12, PlainMember
<1> HIDE DEF c5, n5
<1>14. IsMembers(c6, n6, none)
  BY <1>1, <1>4, <1>13, PlainMember
<1> HIDE DEF c6, n6
<1>15. IsMembers(c7, n7, none)
  BY <1>1, <1>4, <1>14, PlainMember
<1> HIDE DEF c7, n7
<1>16. IsMembers(c8, n8, p)
  <2>1. IsMembers(c8, n8, none \o p)
    <3> HIDE DEF none
    <3>1. QED
      BY <1>1, <1>6, <1>15, TextMember
  <2>2. none \o p = p
    BY <1>6, AreSeqs, NoText
  <2>3. QED
    BY <2>1, <2>2
<1> HIDE DEF c8, n8
<1>17. IsMembers(c9, n9, p \o w)
  BY <1>1, <1>7, <1>16, TextMember
<1> HIDE DEF c9, n9
<1>18. IsMembers(c10, n10, p \o w)
  BY <1>1, <1>4, <1>17, PlainMember
<1> HIDE DEF c10, n10
<1>19. QED
  BY <1>2, <1>3, <1>18, ObjectIs

-----------------------------------------------------------------------------
(***************************************************************************)
(* The lines.  A reader of the outer object of a session's line.           *)
(***************************************************************************)

Outer(phase, keys) == [kind |-> "object", phase |-> phase, keys |-> keys]

Outermost(phase, keys, t) == Reader(<<Outer(phase, keys)>>, No, t)

Complete(t) == Reader(<<>>, Yes, t)

LEMMA OnlyOne ==
  ASSUME NEW c, NEW x
  PROVE  /\ <<c>> # <<>> /\ Len(<<c>>) = 1 /\ Last(<<c>>) = c /\ <<c>>[1] = c
         /\ Front(<<c>>) = <<>> /\ [<<c>> EXCEPT ![1] = x] = <<x>>
  BY DEF Last, Front

LEMMA OuterIs ==
  ASSUME NEW phase, NEW keys, NEW t
  PROVE  /\ Outermost(phase, keys, t).open = <<Outer(phase, keys)>>
         /\ Top(Outermost(phase, keys, t)) = Outer(phase, keys)
         /\ Outermost(phase, keys, t).open # <<>>
         /\ Len(Outermost(phase, keys, t).open) = 1
         /\ Top(Outermost(phase, keys, t)).phase = phase
         /\ Top(Outermost(phase, keys, t)).kind = "object"
<1> DEFINE r == Outermost(phase, keys, t)
           c == Outer(phase, keys)
<1>1. r.open = <<c>>
  BY DEF Outermost, Reader
<1>2. c.phase = phase /\ c.kind = "object"
  BY DEF Outer
<1> HIDE DEF r, c
<1>3. r.open # <<>> /\ Top(r) = c /\ Len(r.open) = 1
  BY <1>1, OnlyOne DEF Top
<1>4. QED
  BY <1>1, <1>2, <1>3 DEF r, c

LEMMA OuterWith ==
  ASSUME NEW phase, NEW keys, NEW t, NEW x
  PROVE  [Outermost(phase, keys, t) EXCEPT !.open[1] = x] = Reader(<<x>>, No, t)
<1> DEFINE c == Outer(phase, keys)
           r == Outermost(phase, keys, t)
<1>1. r.open = <<c>> /\ r = Reader(<<c>>, No, t)
  BY OuterIs DEF Outermost
<1>2. [r EXCEPT !.open[1] = x] = [r EXCEPT !.open = [<<c>> EXCEPT ![1] = x]]
  <2> HIDE DEF r, c
  <2>1. QED
    BY <1>1
<1>3. [<<c>> EXCEPT ![1] = x] = <<x>>
  BY OnlyOne
<1>4. [r EXCEPT !.open[1] = x] = WithOpen(r, <<x>>)
  <2> HIDE DEF r, c
  <2>1. QED
    BY <1>2, <1>3 DEF WithOpen
<1>5. WithOpen(Reader(<<c>>, No, t), <<x>>) = Reader(<<x>>, No, t)
  BY ReaderWith
<1>6. QED
  BY <1>1, <1>4, <1>5

LEMMA OuterPhase ==
  ASSUME NEW phase, NEW keys, NEW t, NEW next
  PROVE  WithPhase(Outermost(phase, keys, t), next) = Outermost(next, keys, t)
<1> DEFINE r == Outermost(phase, keys, t)
           c == Outer(phase, keys)
           x == Outer(next, keys)
<1>1. r.open = <<c>> /\ Len(r.open) = 1 /\ r.open[1] = c
  BY OuterIs, OnlyOne
<1>2. [c EXCEPT !.phase = next] = x
  BY DEF Outer
<1>3. WithPhase(r, next) = [r EXCEPT !.open[1] = x]
  <2> HIDE DEF r, c, x
  <2>1. WithPhase(r, next) = [r EXCEPT !.open = [r.open EXCEPT ![1] = [r.open[1] EXCEPT !.phase = next]]]
    BY <1>1 DEF WithPhase
  <2>2. QED
    BY <1>1, <1>2, <2>1
<1>4. [r EXCEPT !.open[1] = x] = Reader(<<x>>, No, t)
  BY OuterWith
<1>5. QED
  BY <1>3, <1>4 DEF Outermost

LEMMA OuterComma ==
  ASSUME NEW keys, NEW t
  PROVE  ReadComma(Outermost("member", keys, t)) = Outermost("comma", keys, t)
<1> DEFINE r == Outermost("member", keys, t)
<1>1. r.open # <<>> /\ Top(r).phase = "member"
  BY OuterIs
<1>2. ReadComma(r) = WithPhase(r, "comma")
  <2> HIDE DEF r
  <2>1. QED
    BY <1>1 DEF ReadComma
<1>3. QED
  BY <1>2, OuterPhase

LEMMA OuterKey ==
  ASSUME NEW phase \in {"fresh", "comma"}, NEW keys, NEW t, NEW name, name \notin keys
  PROVE  ReadKey(Outermost(phase, keys, t), name) = Outermost("key", keys \cup {name}, t)
<1> DEFINE r == Outermost(phase, keys, t)
           c == Outer(phase, keys)
           x == Outer("key", keys \cup {name})
<1>1. r.open # <<>> /\ Top(r) = c /\ Len(r.open) = 1
  BY OuterIs
<1>2. c.kind = "object" /\ c.phase \in {"fresh", "comma"} /\ c.keys = keys
  BY DEF Outer
<1>3. x = [kind |-> "object", phase |-> "key", keys |-> keys \cup {name}]
  BY DEF Outer
<1>4. ReadKey(r, name) = [r EXCEPT !.open[1] = x]
  <2> HIDE DEF r, c, x
  <2>1. QED
    BY <1>1, <1>2, <1>3 DEF ReadKey
<1>5. [r EXCEPT !.open[1] = x] = Reader(<<x>>, No, t)
  BY OuterWith
<1>6. QED
  BY <1>4, <1>5 DEF Outermost

LEMMA OuterReady ==
  ASSUME NEW keys, NEW t
  PROVE  /\ Ready(Outermost("key", keys, t))
         /\ Settled(Outermost("key", keys, t)) = Outermost("member", keys, t)
<1> DEFINE r == Outermost("key", keys, t)
<1>1. r.open # <<>> /\ Top(r).phase = "key" /\ Top(r).kind = "object"
  BY OuterIs
<1>2. Settled(r) = WithPhase(r, "member") /\ Ready(r)
  <2> HIDE DEF r
  <2>1. QED
    BY <1>1 DEF Settled, Ready
<1>3. QED
  BY <1>2, OuterPhase

LEMMA OuterString ==
  ASSUME NEW keys, NEW t, NEW C, NEW text \in Seq(C)
  PROVE  ReadString(Outermost("key", keys, t), JsonEscape(text))
           = Outermost("member", keys, Append(t, text))
<1> DEFINE r == Outermost("key", keys, t)
           chars == JsonEscape(text)
           read == Unescaped(chars)
           u == Append(t, text)
           c == Outer("member", keys)
           settled == Outermost("member", keys, t)
<1>1. Ready(r) /\ Settled(r) = settled
  BY OuterReady
<1>2. ~read.bad /\ read.text = text
  BY EscapedAndBack
<1>3. settled = Reader(<<c>>, No, t) /\ settled.texts = t
  BY DEF Outermost, Reader
<1> HIDE DEF r, chars, settled
<1>4. ReadString(r, chars) = WithTexts(settled, u)
  BY <1>1, <1>2, <1>3 DEF ReadString, WithTexts
<1> HIDE DEF c, u
<1>5. WithTexts(Reader(<<c>>, No, t), u) = Reader(<<c>>, No, u)
  BY ReaderWith
<1>6. QED
  BY <1>3, <1>4, <1>5 DEF Outermost, c, r, chars, u

LEMMA OuterClose ==
  ASSUME NEW keys, NEW t
  PROVE  ReadClose(Outermost("member", keys, t), "object") = Complete(t)
<1> DEFINE r == Outermost("member", keys, t)
           c == Outer("member", keys)
<1>1. r.open = <<c>> /\ r.open # <<>> /\ Top(r) = c /\ Len(r.open) = 1 /\ Front(r.open) = <<>>
  BY OuterIs, OnlyOne
<1>2. c.kind = "object" /\ c.phase = "member"
  BY DEF Outer
<1>3. r = [open |-> <<c>>, done |-> FALSE, bad |-> FALSE, texts |-> t]
  BY DEF Outermost, Reader, No
<1> HIDE DEF r, c
<1>4. ReadClose(r, "object") = [r EXCEPT !.open = <<>>, !.done = TRUE]
  <2>1. ReadClose(r, "object") = [r EXCEPT !.open = Front(r.open), !.done = Len(r.open) = 1]
    BY <1>1, <1>2 DEF ReadClose
  <2>2. (Len(r.open) = 1) = TRUE
    BY <1>1
  <2>3. QED
    BY <1>1, <2>1, <2>2
<1>5. ReadClose(r, "object") = [open |-> <<>>, done |-> TRUE, bad |-> FALSE, texts |-> t]
  BY <1>3, <1>4
<1>6. QED
  BY <1>5 DEF Complete, Reader, Yes, r

LEMMA FirstPair ==
  ASSUME NEW keys, NEW t, NEW name, name \notin keys
  PROVE  Pair(Outermost("fresh", keys, t), name) = Outermost("member", keys \cup {name}, t)
<1> DEFINE r == Outermost("fresh", keys, t)
           k == Outermost("key", keys \cup {name}, t)
<1>1. Top(r).phase = "fresh"
  BY OuterIs
<1>2. ReadKey(r, name) = k
  BY OuterKey
<1>3. Ready(k) /\ Settled(k) = Outermost("member", keys \cup {name}, t)
  BY OuterReady
<1> HIDE DEF r, k
<1>4. Pair(r, name) = ReadScalar(k)
  BY <1>1, <1>2 DEF Pair
<1>5. QED
  BY <1>3, <1>4 DEF ReadScalar, r

LEMMA NextPair ==
  ASSUME NEW keys, NEW t, NEW name, name \notin keys
  PROVE  Pair(Outermost("member", keys, t), name) = Outermost("member", keys \cup {name}, t)
<1> DEFINE r == Outermost("member", keys, t)
           c == Outermost("comma", keys, t)
           k == Outermost("key", keys \cup {name}, t)
<1>1. Top(r).phase # "fresh"
  BY OuterIs
<1>2. ReadComma(r) = c
  BY OuterComma
<1>3. ReadKey(c, name) = k
  BY OuterKey
<1>4. Ready(k) /\ Settled(k) = Outermost("member", keys \cup {name}, t)
  BY OuterReady
<1> HIDE DEF r, c, k
<1>5. Pair(r, name) = ReadScalar(k)
  BY <1>1, <1>2, <1>3 DEF Pair
<1>6. QED
  BY <1>4, <1>5 DEF ReadScalar, r

EventKeys == {"event", "schema_version"}

LEMMA EventStartIs == EventStart = Outermost("member", EventKeys, <<>>)
<1> DEFINE fresh == Outermost("fresh", {}, <<>>)
           event == {} \cup {"event"}
           both == event \cup {"schema_version"}
<1>1. ReadOpen(NewReader, "object") = fresh
  <2> DEFINE r == NewReader
             c == Outer("fresh", {})
  <2>1. Container("object") = c
    BY DEF Container, Outer
  <2>2. r.open = <<>> /\ ~r.done /\ r = [open |-> <<>>, done |-> FALSE, bad |-> FALSE, texts |-> <<>>]
    BY DEF NewReader
  <2>3. Append(<<>>, c) = <<c>>
    OBVIOUS
  <2> HIDE DEF r, c
  <2>4. Ready(r) /\ Settled(r) = [open |-> <<>>, done |-> TRUE, bad |-> FALSE, texts |-> <<>>]
    BY <2>2 DEF Ready, Settled
  <2>5. ReadOpen(r, "object") = [open |-> <<c>>, done |-> FALSE, bad |-> FALSE, texts |-> <<>>]
    <3> DEFINE v == Settled(r)
    <3>1. ReadOpen(r, "object") = [v EXCEPT !.open = Append(@, c), !.done = FALSE]
      BY <2>1, <2>4 DEF ReadOpen
    <3>2. v.open = <<>> /\ v = [open |-> <<>>, done |-> TRUE, bad |-> FALSE, texts |-> <<>>]
      BY <2>4
    <3> HIDE DEF v
    <3>3. ReadOpen(r, "object") = [v EXCEPT !.open = <<c>>, !.done = FALSE]
      BY <2>3, <3>1, <3>2
    <3>4. QED
      BY <3>2, <3>3
  <2>6. QED
    BY <2>5 DEF r, Outermost, Reader, No, c
<1>2. Pair(fresh, "event") = Outermost("member", event, <<>>)
  BY FirstPair
<1>3. "schema_version" \notin event /\ both = EventKeys
  BY DEF EventKeys
<1> HIDE DEF fresh, event
<1>4. Pair(Outermost("member", event, <<>>), "schema_version") = Outermost("member", both, <<>>)
  BY <1>3, NextPair
<1>5. QED
  BY <1>1, <1>2, <1>3, <1>4 DEF EventStart

LEMMA StartLineIs ==
  ASSUME NEW C, NEW label \in Seq(C)
  PROVE  SessionStartLine(label) = Complete(<<label>>)
<1> DEFINE k0 == EventKeys
           id == "session_id"
           name == "label"
           started == "started_unix_ms"
           k1 == k0 \cup {id}
           k2 == k1 \cup {name}
           k3 == k2 \cup {started}
           none == <<>>
           one == Append(none, label)
<1>1. id \notin k0 /\ name \notin k1 /\ started \notin k2
  BY DEF EventKeys
<1>2. SessionStartLine(label)
        = ReadClose(Pair(ReadString(ReadKey(ReadComma(Pair(EventStart, id)), name),
                                    JsonEscape(label)), started), "object")
  BY DEF SessionStartLine
<1>3. EventStart = Outermost("member", k0, none)
  BY EventStartIs
<1>4. one = <<label>>
  OBVIOUS
<1> HIDE DEF k0, id, name, started, none, one
<1>5. Pair(EventStart, id) = Outermost("member", k1, none)
  BY <1>1, <1>3, NextPair
<1> HIDE DEF k1
<1>6. ReadComma(Outermost("member", k1, none)) = Outermost("comma", k1, none)
  BY OuterComma
<1>7. ReadKey(Outermost("comma", k1, none), name) = Outermost("key", k2, none)
  BY <1>1, OuterKey
<1> HIDE DEF k2
<1>8. ReadString(Outermost("key", k2, none), JsonEscape(label)) = Outermost("member", k2, one)
  BY OuterString DEF one
<1>9. Pair(Outermost("member", k2, one), started) = Outermost("member", k3, one)
  BY <1>1, NextPair
<1> HIDE DEF k3
<1>10. ReadClose(Outermost("member", k3, one), "object") = Complete(one)
  BY OuterClose
<1>11. QED
  BY <1>2, <1>4, <1>5, <1>6, <1>7, <1>8, <1>9, <1>10

LEMMA EndLineIs == SessionEndLine = Complete(<<>>)
<1> DEFINE k0 == EventKeys
           id == "session_id"
           ended == "ended_unix_ms"
           duration == "duration_ms"
           k1 == k0 \cup {id}
           k2 == k1 \cup {ended}
           k3 == k2 \cup {duration}
           none == <<>>
<1>1. id \notin k0 /\ ended \notin k1 /\ duration \notin k2
  BY DEF EventKeys
<1>2. SessionEndLine = ReadClose(Pair(Pair(Pair(EventStart, id), ended), duration), "object")
  BY DEF SessionEndLine
<1>3. EventStart = Outermost("member", k0, none)
  BY EventStartIs
<1> HIDE DEF k0, id, ended, duration, none
<1>4. Pair(EventStart, id) = Outermost("member", k1, none)
  BY <1>1, <1>3, NextPair
<1> HIDE DEF k1
<1>5. Pair(Outermost("member", k1, none), ended) = Outermost("member", k2, none)
  BY <1>1, NextPair
<1> HIDE DEF k2
<1>6. Pair(Outermost("member", k2, none), duration) = Outermost("member", k3, none)
  BY <1>1, NextPair
<1> HIDE DEF k3
<1>7. ReadClose(Outermost("member", k3, none), "object") = Complete(none)
  BY OuterClose
<1>8. QED
  BY <1>2, <1>4, <1>5, <1>6, <1>7 DEF none

\* The text of a snapshot where a value may come.
LEMMA SnapshotTextIs ==
  ASSUME NEW C, NEW s, NEW list, NEW n \in Nat, NEW m \in Nat, IsSnapshot(s, list, C, n, m),
         NEW before, NEW o, NEW d, Slot(NewWriter(before), <<>>, o, d, <<>>)
  PROVE  SnapshotText(before, s, list) = Reader(o, d, SnapshotTexts(s, list, n))
<1> DEFINE calls == SnapshotCalls(s, list)
           ts == SnapshotTexts(s, list, n)
           w == NewWriter(before)
           none == <<>>
<1>1. IsValue(calls, ts)
  BY SnapshotIsValue
<1>2. SnapshotText(before, s, list) = Written(w, calls).reader
  BY DEF SnapshotText
<1>3. Slot(w, none, o, d, none)
  OBVIOUS
<1> HIDE DEF calls, ts, w, none
<1>4. IsSeq(calls) /\ IsSeq(ts)
  BY <1>1, AreSeqs
<1>5. Written(w, calls) = Performed(w, calls)
  BY <1>4, WrittenIs DEF IsSeq
<1>6. Performed(w, calls) = Past(none, o, d, none \o ts)
  BY <1>1, <1>3, ValueUse
<1>7. none \o ts = ts
  BY <1>4, NoText DEF none
<1>8. Past(none, o, d, ts).reader = Reader(o, d, ts)
  BY DEF Past, Reader
<1>9. QED
  BY <1>2, <1>5, <1>6, <1>7, <1>8 DEF ts

LEMMA NewSlot ==
  ASSUME NEW before, NEW o, NEW d \in BOOLEAN, d <=> o = <<>>, IsSeq(o), NEW t, IsSeq(t),
         Ready(before), Settled(before) = Reader(o, d, t)
  PROVE  Slot(NewWriter(before), <<>>, o, d, t)
<1> DEFINE w == NewWriter(before)
<1>1. w = [first |-> <<>>, expecting |-> FALSE, reader |-> before]
  BY DEF NewWriter
<1>2. w.first = <<>> /\ w.expecting = FALSE
  BY <1>1
<1> HIDE DEF w
<1>3. ValuePrefix(w) = w
  BY <1>2 DEF ValuePrefix, MemberPrefix
<1>4. IsSeq(<<>>)
  BY NoneIsSeq
<1>5. ValuePrefix(w) = [first |-> <<>>, expecting |-> FALSE, reader |-> before]
  BY <1>1, <1>3
<1>6. QED
  BY <1>4, <1>5 DEF Slot, Reader, w

LEMMA AloneIs ==
  ASSUME NEW C, NEW s, NEW list, NEW n \in Nat, NEW m \in Nat, IsSnapshot(s, list, C, n, m)
  PROVE  SnapshotText(NewReader, s, list) = Complete(SnapshotTexts(s, list, n))
<1> DEFINE r == NewReader
           o == <<>>
           t == <<>>
<1>1. r.open = <<>> /\ ~r.done /\ r = [open |-> <<>>, done |-> FALSE, bad |-> FALSE, texts |-> <<>>]
  BY DEF NewReader
<1> HIDE DEF r
<1>2. Ready(r) /\ Settled(r) = Reader(o, Yes, t)
  BY <1>1 DEF Ready, Settled, Reader, Yes
<1>3. IsSeq(o) /\ IsSeq(t) /\ Yes \in BOOLEAN /\ (Yes <=> o = <<>>)
  BY NoneIsSeq DEF Yes
<1>4. Slot(NewWriter(r), <<>>, o, Yes, t)
  BY <1>2, <1>3, NewSlot
<1>5. SnapshotText(r, s, list) = Reader(o, Yes, SnapshotTexts(s, list, n))
  BY <1>4, SnapshotTextIs
<1>6. QED
  BY <1>5 DEF Complete, r

LEMMA InSessionIs ==
  ASSUME NEW C, NEW s, NEW list, NEW n \in Nat, NEW m \in Nat, IsSnapshot(s, list, C, n, m)
  PROVE  SessionSnapshotLine(s, list) = Complete(SnapshotTexts(s, list, n))
<1> DEFINE k0 == EventKeys
           name == "snapshot"
           k1 == k0 \cup {name}
           t == <<>>
           key == Outermost("key", k1, t)
           o == <<Outer("member", k1)>>
           ts == SnapshotTexts(s, list, n)
<1>1. name \notin k0
  BY DEF EventKeys
<1>2. SessionSnapshotLine(s, list)
        = ReadClose(SnapshotText(ReadKey(ReadComma(EventStart), name), s, list), "object")
  BY DEF SessionSnapshotLine
<1>3. EventStart = Outermost("member", k0, t)
  BY EventStartIs
<1>4. IsSeq(o) /\ IsSeq(t) /\ No \in BOOLEAN /\ (No <=> o = <<>>)
  <2>1. IsSeq(o) /\ o # <<>>
    BY OneIsSeq, OnlyOne
  <2>2. QED
    BY <2>1, NoneIsSeq DEF No
<1> HIDE DEF k0, name, ts
<1>5. ReadComma(EventStart) = Outermost("comma", k0, t)
  BY <1>3, OuterComma
<1>6. ReadKey(Outermost("comma", k0, t), name) = key
  BY <1>1, OuterKey
<1> HIDE DEF k1
<1>7. Ready(key) /\ Settled(key) = Outermost("member", k1, t)
  BY OuterReady
<1>8. Settled(key) = Reader(o, No, t)
  BY <1>7 DEF Outermost
<1> HIDE DEF key, o
<1>9. Slot(NewWriter(key), <<>>, o, No, t)
  BY <1>4, <1>7, <1>8, NewSlot
<1>10. SnapshotText(key, s, list) = Reader(o, No, ts)
  BY <1>9, SnapshotTextIs DEF ts
<1>11. Reader(o, No, ts) = Outermost("member", k1, ts)
  BY DEF Outermost, o
<1>12. ReadClose(Outermost("member", k1, ts), "object") = Complete(ts)
  BY OuterClose
<1>13. QED
  BY <1>2, <1>5, <1>6, <1>10, <1>11, <1>12 DEF ts
=============================================================================
