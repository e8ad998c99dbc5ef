--------------------------- MODULE ControlProofs ----------------------------
(***************************************************************************)
(* What the user controls.  Of the config file: that starts which overlap  *)
(* cost it no line and that the profile written last is the one loaded     *)
(* next, for any number of terminals and starts and any file, short of a   *)
(* write that fails or is killed.  Of the keyboard: where the bytes go that *)
(* are read, that a key is taken for no other, and for which keys and      *)
(* pieces of keys a signal is sent, a nice value changed and mtop left,    *)
(* for any sessions of the user and any place a read finds nothing at.     *)
(***************************************************************************)
EXTENDS ConfigStore, Keyboard, SequenceTheorems, SumLemmas

(***************************************************************************)
(* The config file.                                                        *)
(***************************************************************************)

\* What persist_view_profile writes is a file again, and has a view_profile line.
LEMMA UpdatedIsText ==
  ASSUME NEW text \in Seq(Lines), NEW profile \in Profiles
  PROVE  /\ Updated(text, profile) \in Seq(Lines)
         /\ Len(Updated(text, profile)) =
              IF HasProfile(text) THEN Len(text) ELSE Len(text) + 1
<1>1. Desired(profile) \in Lines
  BY DEF Desired, Lines
<1>2. CASE HasProfile(text)
  <2>1. Updated(text, profile) =
          [i \in DOMAIN text |-> IF IsFirstProfile(text, i) THEN Desired(profile) ELSE text[i]]
    BY <1>2 DEF Updated
  <2>2. DOMAIN text = 1..Len(text) /\ Len(text) \in Nat
    OBVIOUS
  <2>3. \A i \in 1..Len(text) : text[i] \in Lines
    OBVIOUS
  <2>4. Updated(text, profile) \in [1..Len(text) -> Lines]
    BY <1>1, <2>1, <2>2, <2>3
  <2>5. ASSUME NEW n \in Nat, NEW s \in [1..n -> Lines]
        PROVE  s \in Seq(Lines) /\ Len(s) = n
    OBVIOUS
  <2>6. Updated(text, profile) \in Seq(Lines) /\ Len(Updated(text, profile)) = Len(text)
    BY <2>2, <2>4, <2>5
  <2> QED
    BY <1>2, <2>6
<1>3. CASE ~HasProfile(text)
  BY <1>1, <1>3 DEF Updated
<1> QED
  BY <1>2, <1>3

\* Where an old text has its first view_profile line, a kept one has it too.
LEMMA KeptProfiles ==
  ASSUME NEW old \in Seq(Lines), NEW text \in Seq(Lines), Kept(old, text)
  PROVE  /\ \A i \in DOMAIN old :
              /\ i \in DOMAIN text
              /\ IsProfile(text[i]) <=> IsProfile(old[i])
              /\ IsFirstProfile(text, i) <=> IsFirstProfile(old, i)
         /\ Len(text) \in Nat /\ DOMAIN text = 1..Len(text)
         /\ Len(old) \in Nat /\ DOMAIN old = 1..Len(old) /\ Len(old) <= Len(text)
<1>1. /\ Len(text) \in Nat /\ DOMAIN text = 1..Len(text)
      /\ Len(old) \in Nat /\ DOMAIN old = 1..Len(old)
  OBVIOUS
<1>2. Len(old) <= Len(text)
  BY DEF Kept
<1>3. \A i \in DOMAIN old : i \in DOMAIN text /\ (IsProfile(text[i]) <=> IsProfile(old[i]))
  BY <1>1, <1>2 DEF Kept, IsFirstProfile
<1>4. \A i \in DOMAIN old : \A j \in 1..(i - 1) : j \in DOMAIN old
  BY <1>1
<1>5. \A i \in DOMAIN old : IsFirstProfile(text, i) <=> IsFirstProfile(old, i)
  BY <1>3, <1>4 DEF IsFirstProfile
<1> QED
  BY <1>1, <1>2, <1>3, <1>5

\* A line that is not in the old text is blank, or the view_profile line it lacked.
LEMMA AddedLines ==
  ASSUME NEW old \in Seq(Lines), NEW text \in Seq(Lines), Kept(old, text),
         NEW i \in DOMAIN text, i \notin DOMAIN old
  PROVE  /\ i \in Nat /\ i > Len(old)
         /\ (HasProfile(old) \/ i > Len(old) + 1) => text[i] = Blank
         /\ ~(HasProfile(old) \/ i > Len(old) + 1) => i = Len(old) + 1 /\ IsFirstProfile(text, i)
<1>1. i \in (Len(old) + 1)..Len(text) /\ Len(old) \in Nat /\ Len(text) \in Nat
  BY KeptProfiles
<1>2. IF HasProfile(old) \/ i > Len(old) + 1 THEN text[i] = Blank ELSE IsProfile(text[i])
  BY <1>1 DEF Kept
<1>3. ASSUME ~(HasProfile(old) \/ i > Len(old) + 1)
      PROVE  i = Len(old) + 1 /\ IsFirstProfile(text, i)
  <2>1. i = Len(old) + 1
    BY <1>1, <1>3
  <2>2. \A j \in 1..(i - 1) : j \in DOMAIN old
    BY <1>1, <2>1
  <2>3. \A j \in 1..(i - 1) : ~IsProfile(text[j])
    BY <1>3, <2>2, KeptProfiles DEF HasProfile
  <2> QED
    BY <1>2, <1>3, <2>1, <2>3 DEF IsFirstProfile
<1> QED
  BY <1>1, <1>2, <1>3

LEMMA BlankIsNoProfile == ~IsProfile(Blank) /\ Blank # Cut /\ Blank \in Lines /\ Cut \in Lines
BY DEF IsProfile, Blank, Cut, Lines

\* Behind the shorter of two lengths there is a place within the longer one.
LEMMA NextIsThere ==
  ASSUME NEW m \in Nat, NEW n \in Nat, m <= n, m # n
  PROVE  \E next \in 1..n : next \in (m + 1)..n /\ ~(next > m + 1)
<1>1. m + 1 \in 1..n /\ m + 1 \in (m + 1)..n /\ ~(m + 1 > m + 1)
  OBVIOUS
<1> QED
  BY <1>1

\* A kept text is kept by persist_view_profile.
LEMMA UpdatedKeeps ==
  ASSUME NEW old \in Seq(Lines), NEW text \in Seq(Lines), NEW profile \in Profiles,
         Kept(old, text)
  PROVE  Kept(old, Updated(text, profile)) /\ HasProfile(Updated(text, profile))
<1> DEFINE new == Updated(text, profile)
<1>1. IsProfile(Desired(profile))
  BY DEF IsProfile, Desired
<1>2. new \in Seq(Lines)
  BY UpdatedIsText
<1>3. Len(old) \in Nat /\ Len(text) \in Nat /\ DOMAIN text = 1..Len(text) /\ DOMAIN old = 1..Len(old)
      /\ Len(old) <= Len(text)
  BY KeptProfiles
<1>4. CASE HasProfile(text)
  <2>1. new = [i \in DOMAIN text |-> IF IsFirstProfile(text, i) THEN Desired(profile) ELSE text[i]]
    BY <1>4 DEF Updated
  <2> HIDE DEF new
  <2>2. DOMAIN new = DOMAIN text /\ Len(new) = Len(text)
    BY <1>2, <1>3, <2>1
  <2>3. \A i \in DOMAIN text :
          /\ IsProfile(new[i]) <=> IsProfile(text[i])
          /\ ~IsFirstProfile(text, i) => new[i] = text[i]
    BY <1>1, <2>1 DEF IsFirstProfile
  <2>4. \A i \in DOMAIN text : \A j \in 1..(i - 1) : j \in DOMAIN text
    BY <1>3
  <2>5. \A i \in DOMAIN text : IsFirstProfile(new, i) <=> IsFirstProfile(text, i)
    BY <2>3, <2>4 DEF IsFirstProfile
  <2>6. \A i \in DOMAIN old :
          new[i] = old[i] \/ (IsFirstProfile(old, i) /\ IsFirstProfile(new, i))
    BY <2>3, <2>5, KeptProfiles DEF Kept
  <2>7. \A i \in (Len(old) + 1)..Len(new) :
          IF HasProfile(old) \/ i > Len(old) + 1 THEN new[i] = Blank ELSE IsProfile(new[i])
    <3> SUFFICES ASSUME NEW i \in (Len(old) + 1)..Len(new)
                 PROVE  IF HasProfile(old) \/ i > Len(old) + 1
                          THEN new[i] = Blank ELSE IsProfile(new[i])
      OBVIOUS
    <3>1. i \in DOMAIN text /\ i \notin DOMAIN old
      BY <1>3, <2>2
    <3>2. IF HasProfile(old) \/ i > Len(old) + 1 THEN text[i] = Blank ELSE IsProfile(text[i])
      BY <2>2 DEF Kept
    <3> QED
      BY <2>3, <3>1, <3>2, BlankIsNoProfile DEF IsFirstProfile
  <2>8. HasProfile(new)
    BY <1>4, <2>2, <2>3 DEF HasProfile
  <2> QED
    BY <1>3, <2>2, <2>6, <2>7, <2>8 DEF Kept, new
<1>5. CASE ~HasProfile(text)
  <2>1. new = Append(text, Desired(profile))
    BY <1>5 DEF Updated
  <2> HIDE DEF new
  <2>2. \A i \in DOMAIN old : text[i] = old[i] /\ ~IsProfile(old[i])
    BY <1>5, KeptProfiles DEF Kept, HasProfile, IsFirstProfile
  <2>3. ~HasProfile(old)
    BY <2>2 DEF HasProfile
  <2>4. Len(text) = Len(old)
    <3> SUFFICES ASSUME Len(text) # Len(old) PROVE FALSE
      OBVIOUS
    <3>1. PICK next \in 1..Len(text) : next \in (Len(old) + 1)..Len(text) /\ ~(next > Len(old) + 1)
      BY <1>3, NextIsThere
    <3>2. IsProfile(text[next])
      BY <2>3, <3>1 DEF Kept
    <3> QED
      BY <1>3, <1>5, <3>1, <3>2 DEF HasProfile
  <2>5. Desired(profile) \in Lines
    BY DEF Desired, Lines
  <2>6. /\ Len(new) = Len(old) + 1 /\ DOMAIN new = 1..(Len(old) + 1)
        /\ new[Len(old) + 1] = Desired(profile)
        /\ \A i \in 1..Len(old) : new[i] = text[i]
    BY <1>3, <2>1, <2>4, <2>5
  <2>7. Len(old) <= Len(new) /\ Len(old) + 1 \in DOMAIN new
    BY <1>3, <2>6
  <2>8. \A i \in (Len(old) + 1)..Len(new) : i = Len(old) + 1
    BY <1>3, <2>6
  <2>9. \A i \in (Len(old) + 1)..Len(new) : ~(i > Len(old) + 1) /\ IsProfile(new[i])
    BY <1>1, <1>3, <2>6, <2>8
  <2>10. Kept(old, new)
    BY <1>3, <2>2, <2>3, <2>6, <2>7, <2>9 DEF Kept
  <2>11. HasProfile(new)
    BY <1>1, <2>6, <2>7 DEF HasProfile
  <2> QED
    BY <2>10, <2>11 DEF new
<1> QED
  BY <1>4, <1>5

\* Two texts that both keep the old one, and have a view_profile line, are alike.
LEMMA KeptAreAlike ==
  ASSUME NEW old \in Seq(Lines), NEW a \in Seq(Lines), NEW b \in Seq(Lines),
         Kept(old, a), Kept(old, b), HasProfile(a), HasProfile(b),
         \A i \in DOMAIN old : old[i] # Cut
  PROVE  Alike(a, b)
<1>1. ASSUME NEW i \in DOMAIN old
      PROVE  \/ a[i] = b[i] /\ a[i] # Cut
             \/ IsFirstProfile(a, i) /\ IsFirstProfile(b, i)
  <2>1. IsFirstProfile(a, i) <=> IsFirstProfile(old, i)
    BY <1>1, KeptProfiles
  <2>2. IsFirstProfile(b, i) <=> IsFirstProfile(old, i)
    BY <1>1, KeptProfiles
  <2>3. ~IsFirstProfile(old, i) => a[i] = old[i] /\ b[i] = old[i]
    BY <1>1 DEF Kept
  <2> QED
    BY <1>1, <2>1, <2>2, <2>3
<1>2. ASSUME NEW i \in DOMAIN a, NEW t \in Seq(Lines), Kept(old, t), HasProfile(t),
             i \notin DOMAIN t
      PROVE  a[i] = Blank
  <2>1. i \notin DOMAIN old
    BY <1>2, KeptProfiles
  <2>2. ASSUME ~HasProfile(old) PROVE i > Len(old) + 1
    <3>1. PICK j \in DOMAIN t : IsProfile(t[j])
      BY <1>2 DEF HasProfile
    <3>2. j \notin DOMAIN old
      BY <1>2, <2>2, <3>1, KeptProfiles DEF HasProfile
    <3>3. j \in Nat /\ j > Len(old)
      BY <1>2, <3>2, AddedLines
    <3>4. i \in Nat /\ i > Len(old)
      BY <1>2, <2>1, AddedLines
    <3>5. DOMAIN t = 1..Len(t) /\ Len(t) \in Nat /\ Len(old) \in Nat
      BY <1>2, KeptProfiles
    <3> QED
      BY <1>2, <3>1, <3>3, <3>4, <3>5
  <2> QED
    BY <1>2, <2>1, <2>2, AddedLines
<1>3. ASSUME NEW i \in DOMAIN b, i \notin DOMAIN a
      PROVE  b[i] = Blank
  <2>1. i \notin DOMAIN old
    BY <1>3, KeptProfiles
  <2>2. ASSUME ~HasProfile(old) PROVE i > Len(old) + 1
    <3>1. PICK j \in DOMAIN a : IsProfile(a[j])
      BY DEF HasProfile
    <3>2. j \notin DOMAIN old
      BY <2>2, <3>1, KeptProfiles DEF HasProfile
    <3>3. j \in Nat /\ j > Len(old)
      BY <3>2, AddedLines
    <3>4. i \in Nat /\ i > Len(old)
      BY <2>1, <1>3, AddedLines
    <3>5. DOMAIN a = 1..Len(a) /\ Len(a) \in Nat /\ Len(old) \in Nat
      BY KeptProfiles
    <3> QED
      BY <1>3, <3>1, <3>3, <3>4, <3>5
  <2> QED
    BY <1>3, <2>1, <2>2, AddedLines
<1>4. ASSUME NEW i \in DOMAIN a, i \in DOMAIN b, i \notin DOMAIN old
      PROVE  \/ a[i] = b[i] /\ a[i] # Cut
             \/ IsFirstProfile(a, i) /\ IsFirstProfile(b, i)
  <2>1. CASE HasProfile(old) \/ i > Len(old) + 1
    <3>1. a[i] = Blank
      BY <1>4, <2>1, AddedLines
    <3>2. b[i] = Blank
      BY <1>4, <2>1, AddedLines
    <3> QED
      BY <3>1, <3>2, BlankIsNoProfile
  <2>2. CASE ~(HasProfile(old) \/ i > Len(old) + 1)
    <3>1. IsFirstProfile(a, i)
      BY <1>4, <2>2, AddedLines
    <3>2. IsFirstProfile(b, i)
      BY <1>4, <2>2, AddedLines
    <3> QED
      BY <3>1, <3>2
  <2> QED
    BY <2>1, <2>2
<1>5. \A i \in DOMAIN a : i \notin DOMAIN b => a[i] = Blank
  BY <1>2
<1> QED
  BY <1>1, <1>3, <1>4, <1>5 DEF Alike

\* A text followed by blank lines.
LEMMA BlanksAdded ==
  ASSUME NEW new \in Seq(Lines), NEW n \in Int
  PROVE  LET text == new \o BlankLines(n) IN
         /\ text \in Seq(Lines) /\ Len(new) <= Len(text)
         /\ \A i \in 1..Len(new) : text[i] = new[i]
         /\ \A i \in (Len(new) + 1)..Len(text) : text[i] = Blank
<1> DEFINE m == IF n < 0 THEN 0 ELSE n
<1>1. m \in Nat /\ 1..n = 1..m
  OBVIOUS
<1> HIDE DEF m
<1>2. BlankLines(n) = [i \in 1..m |-> Blank]
  BY <1>1 DEF BlankLines
<1>3. BlankLines(n) \in Seq(Lines) /\ Len(BlankLines(n)) = m
      /\ \A i \in 1..m : BlankLines(n)[i] = Blank
  BY <1>1, <1>2, BlankIsNoProfile
<1> DEFINE text == new \o BlankLines(n)
<1>4. Len(new) \in Nat
  OBVIOUS
<1>5. text \in Seq(Lines) /\ Len(text) = Len(new) + m
  BY <1>3
<1>6. \A i \in 1..Len(new) : text[i] = new[i]
  BY <1>3, <1>4
<1>7. \A i \in (Len(new) + 1)..(Len(new) + m) : text[i] = BlankLines(n)[i - Len(new)]
  BY <1>1, <1>3, <1>4
<1>8. \A i \in (Len(new) + 1)..(Len(new) + m) : i - Len(new) \in 1..m
  BY <1>1, <1>4
<1>9. \A i \in (Len(new) + 1)..(Len(new) + m) : text[i] = Blank
  BY <1>3, <1>7, <1>8
<1> HIDE DEF text
<1>10. Len(new) <= Len(text)
  BY <1>1, <1>4, <1>5
<1> QED
  BY <1>5, <1>6, <1>9, <1>10 DEF text

\* Blank lines behind a kept text leave it kept.
LEMMA BlanksKeep ==
  ASSUME NEW old \in Seq(Lines), NEW new \in Seq(Lines), NEW text \in Seq(Lines),
         Kept(old, new), HasProfile(new), Len(new) <= Len(text),
         \A i \in 1..Len(new) : text[i] = new[i],
         \A i \in (Len(new) + 1)..Len(text) : text[i] = Blank
  PROVE  Kept(old, text) /\ HasProfile(text)
<1>1. /\ Len(old) \in Nat /\ Len(new) \in Nat /\ Len(old) <= Len(new)
      /\ DOMAIN old = 1..Len(old) /\ DOMAIN new = 1..Len(new)
  BY KeptProfiles
<1>2. Len(text) \in Nat /\ DOMAIN text = 1..Len(text)
  OBVIOUS
<1>3. \A i \in DOMAIN new : \A j \in 1..(i - 1) : j \in 1..Len(new)
  BY <1>1
<1>4. \A i \in DOMAIN new : IsFirstProfile(text, i) <=> IsFirstProfile(new, i)
  BY <1>1, <1>3 DEF IsFirstProfile
<1>5. \A i \in DOMAIN old : i \in DOMAIN new
  BY <1>1
<1>6. \A i \in DOMAIN old :
        text[i] = old[i] \/ (IsFirstProfile(old, i) /\ IsFirstProfile(text, i))
  BY <1>1, <1>4, <1>5 DEF Kept
<1>7. ASSUME NEW i \in (Len(old) + 1)..Len(text)
      PROVE  IF HasProfile(old) \/ i > Len(old) + 1 THEN text[i] = Blank ELSE IsProfile(text[i])
  <2>1. CASE i \in (Len(old) + 1)..Len(new)
    <3>1. i \in 1..Len(new)
      BY <1>1, <2>1
    <3>2. IF HasProfile(old) \/ i > Len(old) + 1 THEN new[i] = Blank ELSE IsProfile(new[i])
      BY <2>1 DEF Kept
    <3> QED
      BY <3>1, <3>2
  <2>2. CASE i \in (Len(new) + 1)..Len(text)
    <3>1. text[i] = Blank
      BY <2>2
    <3>2. ASSUME ~HasProfile(old) PROVE i > Len(old) + 1
      <4>1. PICK j \in DOMAIN new : IsProfile(new[j])
        BY DEF HasProfile
      <4>2. j \notin DOMAIN old
        BY <3>2, <4>1, KeptProfiles DEF HasProfile
      <4> QED
        BY <1>1, <1>2, <2>2, <4>1, <4>2
    <3> QED
      BY <3>1, <3>2
  <2> QED
    BY <1>1, <1>2, <1>7, <2>1, <2>2
<1>8. HasProfile(text)
  <2>1. PICK j \in DOMAIN new : IsProfile(new[j])
    BY DEF HasProfile
  <2>2. j \in DOMAIN text /\ text[j] = new[j]
    BY <1>1, <1>2, <2>1
  <2> QED
    BY <2>1, <2>2 DEF HasProfile
<1> QED
  BY <1>1, <1>6, <1>7, <1>8 DEF Kept

\* Two texts one behind the other are one.
LEMMA BothAreText ==
  ASSUME NEW x \in Seq(Lines), NEW y \in Seq(Lines)
  PROVE  x \o y \in Seq(Lines)
OBVIOUS

\* What a write leaves of a text is a text; nothing is left of an empty one.
LEMMA RemainsAreTexts ==
  ASSUME NEW old \in Seq(Lines), NEW rest \in Remains(old)
  PROVE  rest \in Seq(Lines) /\ (old = <<>> => rest = <<>>)
<1>1. CASE rest = <<>>
  BY <1>1
<1>2. CASE rest # <<>>
  <2>1. PICK tail \in {SubSeq(old, k, Len(old)) : k \in 2..(Len(old) + 1)} :
          rest \in {tail, <<Blank>> \o tail, <<Cut>> \o tail}
    BY <1>2 DEF Remains
  <2>2. PICK k \in 2..(Len(old) + 1) : tail = SubSeq(old, k, Len(old))
    BY <2>1
  <2>3. \A n \in k..Len(old) : old[n] \in Lines
    OBVIOUS
  <2>4. tail \in Seq(Lines)
    BY <2>2, <2>3
  <2>5. <<Blank>> \in Seq(Lines) /\ <<Cut>> \in Seq(Lines)
    BY BlankIsNoProfile
  <2>6. rest \in Seq(Lines)
    BY <2>1, <2>4, <2>5, BothAreText
  <2>7. old # <<>>
    BY <2>2
  <2> QED
    BY <2>6, <2>7
<1> QED
  BY <1>1, <1>2

\* Whatever overlaps, the result is a text.
LEMMA OverlayIsText ==
  ASSUME NEW new \in Seq(Lines), NEW old \in Seq(Lines), NEW text \in Overlay(new, old)
  PROVE  text \in Seq(Lines)
<1>1. CASE new = <<>>
  BY <1>1 DEF Overlay
<1>2. CASE new # <<>> /\ Alike(new, old)
  <2>1. text = new \o BlankLines(Size(old) - Size(new))
    BY <1>2 DEF Overlay
  <2>2. Size(old) - Size(new) \in Int
    BY DEF Size
  <2> QED
    BY <2>1, <2>2, BlanksAdded
<1>3. CASE new # <<>> /\ ~Alike(new, old)
  <2>1. PICK rest \in Remains(old) : text = new \o rest
    BY <1>3 DEF Overlay
  <2>2. rest \in Seq(Lines)
    BY RemainsAreTexts
  <2> QED
    BY <2>1, <2>2, BothAreText
<1> QED
  BY <1>1, <1>2, <1>3

\* A write over an empty file leaves what was written; one over a text that keeps
\* the old one as well leaves at most blank lines behind it.
LEMMA OverlayKeeps ==
  ASSUME NEW old \in Seq(Lines), NEW new \in Seq(Lines), NEW over \in Seq(Lines),
         Kept(old, new), HasProfile(new), \A i \in DOMAIN old : old[i] # Cut,
         over = <<>> \/ (Kept(old, over) /\ HasProfile(over)),
         NEW text \in Overlay(new, over)
  PROVE  /\ text \in Seq(Lines) /\ Kept(old, text) /\ HasProfile(text)
         /\ Len(new) <= Len(text)
         /\ \A i \in 1..Len(new) : text[i] = new[i]
         /\ \A i \in (Len(new) + 1)..Len(text) : text[i] = Blank
<1>1. new # <<>>
  BY DEF HasProfile
<1>2. CASE over = <<>> /\ ~Alike(new, over)
  <2>1. PICK rest \in Remains(over) : text = new \o rest
    BY <1>1, <1>2 DEF Overlay
  <2>2. rest = <<>>
    BY <1>2, RemainsAreTexts
  <2>3. text = new
    BY <2>1, <2>2
  <2> QED
    BY <2>3
<1>3. CASE Alike(new, over)
  <2>1. text = new \o BlankLines(Size(over) - Size(new))
    BY <1>1, <1>3 DEF Overlay
  <2>2. Size(over) - Size(new) \in Int
    BY DEF Size
  <2>3. /\ text \in Seq(Lines) /\ Len(new) <= Len(text)
        /\ \A i \in 1..Len(new) : text[i] = new[i]
        /\ \A i \in (Len(new) + 1)..Len(text) : text[i] = Blank
    BY <2>1, <2>2, BlanksAdded
  <2> QED
    BY <2>3, BlanksKeep
<1> QED
  BY <1>2, <1>3, KeptAreAlike

\* Every file is as it was, to begin with.
LEMMA KeptAtFirst == ASSUME NEW text \in Seq(Lines) PROVE Kept(text, text)
<1>1. Len(text) \in Nat
  OBVIOUS
<1>2. (Len(text) + 1)..Len(text) = {} /\ Len(text) <= Len(text)
  BY <1>1
<1> QED
  BY <1>2 DEF Kept

LEMMA InitInv == Init => IInv
<1> SUFFICES ASSUME Init PROVE IInv
  OBVIOUS
<1>1. file \in Seq(Lines) /\ initial = file /\ \A i \in DOMAIN initial : initial[i] # Cut
  BY ConfigAssumption DEF Init
<1>2. Kept(initial, file)
  BY <1>1, KeptAtFirst
<1>3. <<>> \in Seq(Lines)
  OBVIOUS
<1> QED
  BY <1>1, <1>2, <1>3 DEF Init, IInv

\* A step that neither truncates nor writes, and ends or starts a terminal's
\* mtop, is no threat to the invariant unless it was about to write.
LEMMA EndKeeps ==
  ASSUME IInv, NEW i \in Instances, End(i), UNCHANGED <<file, initial>>,
         damaged' \in BOOLEAN, ~damaged' => ~damaged /\ pc[i] # "write"
  PROVE  IInv'
<1>1. <<>> \in Seq(Lines)
  OBVIOUS
<1>2. /\ pc' \in [Instances -> {"off", "load", "read", "open", "write", "run"}]
      /\ lines' \in [Instances -> Seq(Lines)]
      /\ view' \in [Instances -> Profiles \cup {"none", "bad"}]
  BY <1>1 DEF IInv, End
<1>3. \A j \in Instances :
        /\ j # i => pc'[j] = pc[j] /\ lines'[j] = lines[j] /\ view'[j] = view[j]
        /\ pc'[i] = "off"
  BY DEF IInv, End
<1>4. \A j \in Instances : pc'[j] \in {"read", "open", "write"} => view'[j] \in Profiles
  BY <1>3 DEF IInv
<1>5. ASSUME ~damaged'
      PROVE  /\ \A j \in Instances : pc'[j] \in {"open", "write"} => Kept(initial', lines'[j])
             /\ IF \E j \in Instances : pc'[j] = "write"
                  THEN file' = <<>> \/ (Kept(initial', file') /\ HasProfile(file'))
                  ELSE Kept(initial', file')
  <2>1. ~damaged /\ pc[i] # "write"
    BY <1>5
  <2>2. \A j \in Instances : pc'[j] \in {"open", "write"} => Kept(initial', lines'[j])
    BY <1>3, <2>1 DEF IInv
  <2>3. \A j \in Instances : pc'[j] = "write" <=> pc[j] = "write"
    BY <1>3, <2>1
  <2> QED
    BY <2>1, <2>2, <2>3 DEF IInv
<1> QED
  BY <1>2, <1>4, <1>5 DEF IInv

\* The steps of one terminal's mtop that leave the file alone.
LEMMA ReadingStepsKeep ==
  ASSUME IInv, NEW i \in Instances,
         Launch(i) \/ LoadConfig(i) \/ ReadLines(i) \/ PersistFails(i) \/ Stop(i)
  PROVE  IInv'
<1>1. CASE Launch(i)
  <2>1. /\ pc' = [pc EXCEPT ![i] = "load"]
        /\ \E option \in Profiles \cup {"none", "bad"} : view' = [view EXCEPT ![i] = option]
        /\ UNCHANGED <<file, initial, lines, damaged>> /\ pc[i] = "off"
    BY <1>1 DEF Launch
  <2>2. \A j \in Instances :
          j # i => pc'[j] = pc[j] /\ lines'[j] = lines[j] /\ view'[j] = view[j]
    BY <2>1 DEF IInv
  <2>3. pc'[i] = "load"
    BY <2>1 DEF IInv
  <2> QED
    BY <2>1, <2>2, <2>3 DEF IInv
<1>2. CASE LoadConfig(i)
  <2>1. UNCHANGED <<file, initial, damaged>> /\ pc[i] = "load"
    BY <1>2 DEF LoadConfig
  <2>2. CASE view[i] = "bad"
    <3>1. End(i)
      BY <1>2, <2>2 DEF LoadConfig
    <3>2. damaged' \in BOOLEAN /\ (~damaged' => ~damaged /\ pc[i] # "write")
      BY <2>1 DEF IInv
    <3> QED
      BY <2>1, <3>1, <3>2, EndKeeps
  <2>3. CASE view[i] # "bad"
    <3>1. /\ pc' = [pc EXCEPT ![i] = IF view[i] = "none" THEN "run" ELSE "read"]
          /\ UNCHANGED <<view, lines>>
      BY <1>2, <2>3 DEF LoadConfig
    <3>2. view[i] \in Profiles \cup {"none"}
      BY <2>3 DEF IInv
    <3>3. \A j \in Instances : j # i => pc'[j] = pc[j]
      BY <3>1 DEF IInv
    <3>4. pc'[i] = IF view[i] = "none" THEN "run" ELSE "read"
      BY <3>1 DEF IInv
    <3>5. \A j \in Instances : pc'[j] \in {"read", "open", "write"} => view'[j] \in Profiles
      BY <3>1, <3>2, <3>3, <3>4 DEF IInv
    <3>6. \A j \in Instances :
            pc'[j] \in {"open", "write"} <=> pc[j] \in {"open", "write"}
      BY <2>1, <3>3, <3>4
    <3>7. \A j \in Instances : pc'[j] = "write" <=> pc[j] = "write"
      BY <2>1, <3>3, <3>4
    <3>8. pc' \in [Instances -> {"off", "load", "read", "open", "write", "run"}]
      BY <3>1 DEF IInv
    <3> QED
      BY <2>1, <3>1, <3>5, <3>6, <3>7, <3>8 DEF IInv
  <2> QED
    BY <2>2, <2>3
<1>3. CASE ReadLines(i)
  <2>1. /\ pc[i] = "read" /\ pc' = [pc EXCEPT ![i] = "open"]
        /\ lines' = [lines EXCEPT ![i] = file]
        /\ damaged' = (damaged \/ Truncated(i))
        /\ UNCHANGED <<file, view, initial>>
    BY <1>3 DEF ReadLines
  <2>2. /\ pc' \in [Instances -> {"off", "load", "read", "open", "write", "run"}]
        /\ lines' \in [Instances -> Seq(Lines)]
        /\ damaged' \in BOOLEAN
    BY <2>1 DEF IInv, Truncated
  <2>3. \A j \in Instances : j # i => pc'[j] = pc[j] /\ lines'[j] = lines[j]
    BY <2>1 DEF IInv
  <2>4. pc'[i] = "open" /\ lines'[i] = file
    BY <2>1 DEF IInv
  <2>5. \A j \in Instances : pc'[j] \in {"read", "open", "write"} => view'[j] \in Profiles
    BY <2>1, <2>3, <2>4 DEF IInv
  <2>6. ASSUME ~damaged'
        PROVE  /\ Kept(initial', file') /\ \A j \in Instances : pc'[j] # "write"
               /\ \A j \in Instances : pc'[j] \in {"open", "write"} => Kept(initial', lines'[j])
    <3>1. ~damaged /\ \A j \in Instances : pc[j] # "write"
      BY <2>1, <2>6 DEF Truncated
    <3>2. Kept(initial, file)
      BY <3>1 DEF IInv
    <3>3. \A j \in Instances : pc'[j] # "write"
      BY <2>3, <2>4, <3>1
    <3> QED
      BY <2>1, <2>3, <2>4, <3>1, <3>2, <3>3 DEF IInv
  <2> QED
    BY <2>1, <2>2, <2>5, <2>6 DEF IInv
<1>4. CASE PersistFails(i)
  <2>1. End(i) /\ UNCHANGED <<file, initial, damaged>> /\ pc[i] # "write"
    BY <1>4 DEF PersistFails
  <2>2. damaged' \in BOOLEAN /\ (~damaged' => ~damaged /\ pc[i] # "write")
    BY <2>1 DEF IInv
  <2> QED
    BY <2>1, <2>2, EndKeeps
<1>5. CASE Stop(i)
  <2>1. /\ End(i) /\ UNCHANGED <<file, initial>>
        /\ damaged' = (damaged \/ pc[i] = "write")
    BY <1>5 DEF Stop
  <2>2. damaged' \in BOOLEAN /\ (~damaged' => ~damaged /\ pc[i] # "write")
    BY <2>1 DEF IInv
  <2> QED
    BY <2>1, <2>2, EndKeeps
<1> QED
  BY <1>1, <1>2, <1>3, <1>4, <1>5

\* The steps that truncate and write.
LEMMA WritingStepsKeep ==
  ASSUME IInv, NEW i \in Instances, Open(i) \/ Write(i) \/ WriteFails(i)
  PROVE  IInv'
<1>1. CASE Open(i)
  <2>1. /\ pc[i] = "open" /\ pc' = [pc EXCEPT ![i] = "write"] /\ file' = <<>>
        /\ UNCHANGED <<view, lines, initial, damaged>>
    BY <1>1 DEF Open
  <2>2. pc' \in [Instances -> {"off", "load", "read", "open", "write", "run"}]
    BY <2>1 DEF IInv
  <2>3. \A j \in Instances : j # i => pc'[j] = pc[j]
    BY <2>1 DEF IInv
  <2>4. pc'[i] = "write"
    BY <2>1 DEF IInv
  <2>5. file' \in Seq(Lines)
    BY <2>1
  <2>6. \A j \in Instances : pc'[j] \in {"read", "open", "write"} => view'[j] \in Profiles
    BY <2>1, <2>3, <2>4 DEF IInv
  <2>7. \A j \in Instances : pc'[j] \in {"open", "write"} => pc[j] \in {"open", "write"}
    BY <2>1, <2>3, <2>4
  <2> QED
    BY <2>1, <2>2, <2>4, <2>5, <2>6, <2>7 DEF IInv
<1>2. ASSUME pc[i] = "write"
      PROVE  /\ view[i] \in Profiles /\ lines[i] \in Seq(Lines)
             /\ Updated(lines[i], view[i]) \in Seq(Lines)
  BY <1>2, UpdatedIsText DEF IInv
<1>3. <<>> \in Seq(Lines)
  OBVIOUS
<1>4. ASSUME Run(i)
      PROVE  /\ pc' \in [Instances -> {"off", "load", "read", "open", "write", "run"}]
             /\ lines' \in [Instances -> Seq(Lines)]
             /\ view' \in [Instances -> Profiles \cup {"none", "bad"}]
             /\ pc'[i] = "run"
             /\ \A j \in Instances :
                  j # i => pc'[j] = pc[j] /\ lines'[j] = lines[j] /\ view'[j] = view[j]
  BY <1>3, <1>4 DEF IInv, Run
<1>5. CASE Write(i)
  <2>1. /\ pc[i] = "write" /\ Run(i)
        /\ file' \in Overlay(Updated(lines[i], view[i]), file)
        /\ UNCHANGED <<initial, damaged>>
    BY <1>5 DEF Write
  <2>2. file \in Seq(Lines)
    BY DEF IInv
  <2>3. file' \in Seq(Lines)
    BY <1>2, <2>1, <2>2, OverlayIsText
  <2>4. ASSUME ~damaged'
        PROVE  /\ Kept(initial', file') /\ HasProfile(file')
               /\ \A j \in Instances : pc'[j] \in {"open", "write"} => Kept(initial', lines'[j])
    <3>1. /\ Kept(initial, lines[i]) /\ initial \in Seq(Lines)
          /\ \A j \in DOMAIN initial : initial[j] # Cut
          /\ file = <<>> \/ (Kept(initial, file) /\ HasProfile(file))
      BY <2>1, <2>4 DEF IInv
    <3>2. /\ Kept(initial, Updated(lines[i], view[i]))
          /\ HasProfile(Updated(lines[i], view[i]))
      BY <1>2, <2>1, <3>1, UpdatedKeeps
    <3>3. Kept(initial, file') /\ HasProfile(file')
      BY <1>2, <2>1, <2>2, <3>1, <3>2, OverlayKeeps
    <3>4. \A j \in Instances : pc'[j] \in {"open", "write"} => Kept(initial', lines'[j])
      BY <1>4, <2>1, <2>4 DEF IInv
    <3> QED
      BY <2>1, <3>3, <3>4
  <2>5. \A j \in Instances : pc'[j] \in {"read", "open", "write"} => view'[j] \in Profiles
    BY <1>4, <2>1 DEF IInv
  <2>6. /\ initial' \in Seq(Lines) /\ damaged' \in BOOLEAN
        /\ \A j \in DOMAIN initial' : initial'[j] # Cut
    BY <2>1 DEF IInv
  <2> QED
    BY <1>4, <2>1, <2>3, <2>4, <2>5, <2>6 DEF IInv
<1>6. CASE WriteFails(i)
  <2> DEFINE new == Updated(lines[i], view[i])
  <2>1. /\ pc[i] = "write" /\ damaged' = TRUE /\ UNCHANGED initial
        /\ End(i) \/ Run(i)
    BY <1>6 DEF WriteFails
  <2>2. PICK n \in 0..(Len(new) - 1), cut \in {<<>>, <<Cut>>} :
          file' \in Overlay(SubSeq(new, 1, n) \o cut, file)
    BY <1>6 DEF WriteFails
  <2>3. new \in Seq(Lines)
    BY <1>2, <2>1
  <2> HIDE DEF new
  <2>4. SubSeq(new, 1, n) \in Seq(Lines)
    <3>1. \A m \in 1..n : new[m] \in Lines
      BY <2>3
    <3> QED
      BY <2>3, <3>1
  <2>5. cut \in Seq(Lines)
    <3>1. Cut \in Lines
      BY BlankIsNoProfile
    <3>2. <<Cut>> \in Seq(Lines)
      BY <3>1
    <3> QED
      BY <1>3, <3>2
  <2>6. \A a, b \in Seq(Lines) : a \o b \in Seq(Lines)
    OBVIOUS
  <2>7. SubSeq(new, 1, n) \o cut \in Seq(Lines)
    BY <2>4, <2>5, <2>6
  <2>8. file' \in Seq(Lines)
    <3>1. file \in Seq(Lines)
      BY DEF IInv
    <3> QED
      BY <2>2, <2>7, <3>1, OverlayIsText
  <2>9. CASE Run(i)
    <3>1. \A j \in Instances : pc'[j] \in {"read", "open", "write"} => view'[j] \in Profiles
      BY <1>4, <2>9 DEF IInv
    <3> QED
      BY <1>4, <2>1, <2>8, <2>9, <3>1 DEF IInv
  <2>10. CASE End(i)
    <3>1. /\ pc' \in [Instances -> {"off", "load", "read", "open", "write", "run"}]
          /\ lines' \in [Instances -> Seq(Lines)]
          /\ view' \in [Instances -> Profiles \cup {"none", "bad"}]
      BY <1>3, <2>10 DEF IInv, End
    <3>2. \A j \in Instances : pc'[j] \in {"read", "open", "write"} => view'[j] \in Profiles
      BY <2>10 DEF IInv, End
    <3> QED
      BY <2>1, <2>8, <3>1, <3>2 DEF IInv
  <2> QED
    BY <2>1, <2>9, <2>10
<1> QED
  BY <1>1, <1>5, <1>6

\* Every step keeps the invariant.
LEMMA NextInv == IInv /\ [Next]_vars => IInv'
<1> SUFFICES ASSUME IInv, [Next]_vars PROVE IInv'
  OBVIOUS
<1>1. CASE UNCHANGED vars
  BY <1>1 DEF IInv, vars
<1>2. CASE NoneLeft
  BY <1>2 DEF IInv, vars, NoneLeft
<1>3. CASE \E i \in Instances :
             \/ Launch(i) \/ LoadConfig(i) \/ ReadLines(i) \/ PersistFails(i)
             \/ Open(i) \/ Write(i) \/ WriteFails(i) \/ Stop(i)
  BY <1>3, ReadingStepsKeep, WritingStepsKeep
<1> QED
  BY <1>1, <1>2, <1>3 DEF Next

\* However many starts of mtop overlap, and wherever before the truncation they
\* end, the config file keeps every line but the profile and gains only blank
\* ones.  It says nothing of a file that a failed or killed write has damaged, or
\* that was rewritten by a start that read it between another's truncation and
\* write: those lose lines.
THEOREM NoLineIsLost == Spec => []SettingsSurvive
<1>1. IInv => SettingsSurvive
  BY DEF IInv, SettingsSurvive, Intact
<1> QED
  BY <1>1, InitInv, NextInv, PTL DEF Spec

-----------------------------------------------------------------------------
(***************************************************************************)
(* load_config: the settings after n lines of a text.                      *)
(***************************************************************************)

IsLoading(g, text, n) ==
  g = [i \in 0..n |-> IF i = 0 THEN Defaults ELSE ParseLine(g[i - 1], text[i])]

LEMMA LoadingExists == ASSUME NEW text, NEW n \in Nat PROVE \E g : IsLoading(g, text, n)
<1> DEFINE Missing == {m \in 1..n : ~\E g : IsLoading(g, text, m)}
<1>1. \E g : IsLoading(g, text, 0)
  <2>1. IsLoading([i \in 0..0 |-> Defaults], text, 0)
    BY DEF IsLoading
  <2>2. QED
    BY <2>1
<1>2. ASSUME Missing # {} PROVE FALSE
  <2>1. PICK m \in Missing : \A k \in Missing : m <= k
    <3>1. Missing \subseteq 1..n
      OBVIOUS
    <3> HIDE DEF Missing
    <3>2. QED
      BY <1>2, <3>1, LeastNumber
  <2>2. m \in 1..n /\ m - 1 \in 0..n
    OBVIOUS
  <2>3. PICK g : IsLoading(g, text, m - 1)
    <3>1. CASE m = 1
      BY <1>1, <3>1
    <3>2. CASE m # 1
      BY <2>1, <2>2, <3>2
    <3>3. QED
      BY <3>1, <3>2
  <2> DEFINE h == [i \in 0..m |-> IF i = m THEN ParseLine(g[m - 1], text[m]) ELSE g[i]]
  <2>4. \A i \in 0..m : i # m => i \in 0..(m - 1) /\ (i # 0 => i - 1 \in 0..(m - 1) /\ i - 1 # m)
    BY <2>2
  <2>5. \A i \in 0..m : h[i] = IF i = 0 THEN Defaults ELSE ParseLine(h[i - 1], text[i])
    <3> SUFFICES ASSUME NEW i \in 0..m
                 PROVE  h[i] = IF i = 0 THEN Defaults ELSE ParseLine(h[i - 1], text[i])
      OBVIOUS
    <3>1. CASE i = m
      <4>1. h[i] = ParseLine(g[m - 1], text[m]) /\ i - 1 \in 0..m /\ i - 1 # m
        BY <2>2, <3>1
      <4>2. h[i - 1] = g[i - 1]
        BY <4>1
      <4>3. QED
        BY <2>2, <3>1, <4>1, <4>2
    <3>2. CASE i # m
      <4>1. h[i] = g[i]
        BY <3>2
      <4>2. i # 0 => h[i - 1] = g[i - 1]
        BY <2>4, <3>2
      <4>3. g[i] = IF i = 0 THEN Defaults ELSE ParseLine(g[i - 1], text[i])
        BY <2>3, <2>4, <3>2 DEF IsLoading
      <4>4. QED
        BY <4>1, <4>2, <4>3
    <3>3. QED
      BY <3>1, <3>2
  <2>6. IsLoading(h, text, m)
    <3>1. h = [i \in 0..m |-> h[i]]
      OBVIOUS
    <3> HIDE DEF h
    <3>2. QED
      BY <2>5, <3>1 DEF IsLoading
  <2>7. QED
    BY <2>6
<1>3. QED
  <2>1. CASE n = 0
    BY <1>1, <2>1
  <2>2. CASE n # 0
    BY <1>2, <2>2
  <2>3. QED
    BY <2>1, <2>2

LEMMA LoadIs ==
  ASSUME NEW text, Len(text) \in Nat
  PROVE  \E g : IsLoading(g, text, Len(text)) /\ Load(text) = g[Len(text)]
<1> DEFINE g == CHOOSE g : IsLoading(g, text, Len(text))
<1>1. IsLoading(g, text, Len(text))
  BY LoadingExists
<1>2. Load(text) = g[Len(text)]
  BY DEF Load, IsLoading
<1>3. QED
  BY <1>1, <1>2

\* A line leaves settings that the parsers allow, and only a view_profile line
\* changes the profile.
LEMMA RefreshBounds ==
  MinRefresh \in Int /\ MaxRefresh \in Int /\ MinRefresh <= MaxRefresh /\ 1000 \in MinRefresh..MaxRefresh
BY DEF MinRefresh, MaxRefresh

LEMMA ValueParsed ==
  ASSUME NEW line \in Lines
  PROVE  /\ line.key = "sort" => line.value \in Modes \cup {Bad}
         /\ line.key = "refresh_ms" => line.value \in Int \cup {Bad}
         /\ line.key = "sort_direction" => line.value \in Directions \cup {Bad}
         /\ line.key = "default_view" => line.value \in Views \cup {Bad}
BY DEF Lines

LEMMA LineParsed ==
  ASSUME NEW loaded \in Configs, NEW line \in Lines
  PROVE  /\ ParseLine(loaded, line) \in Configs
         /\ ParseLine(loaded, line).view_profile =
              IF ~IsProfile(line) THEN loaded.view_profile
              ELSE IF line.value \in Profiles THEN line.value ELSE "Alpha"
<1>1. CASE line.key = "view_profile"
  <2> DEFINE profile == IF line.value \in Profiles THEN line.value ELSE "Alpha"
  <2>1. ParseLine(loaded, line) = [loaded EXCEPT !.view_profile = profile]
    BY <1>1 DEF ParseLine
  <2>2. profile \in Profiles
    BY DEF Profiles
  <2> HIDE DEF profile
  <2>3. [loaded EXCEPT !.view_profile = profile] \in Configs
        /\ [loaded EXCEPT !.view_profile = profile].view_profile = profile
    BY <2>2 DEF Configs
  <2>4. QED
    BY <1>1, <2>1, <2>3 DEF profile, IsProfile
<1>2. CASE line.key = "sort"
  <2> DEFINE mode == IF line.value = Bad THEN loaded.sort ELSE line.value
  <2>1. ParseLine(loaded, line) =
          [loaded EXCEPT !.sort = mode, !.sort_direction = DefaultDirection(mode)]
    BY <1>2 DEF ParseLine
  <2>2. mode \in Modes
    BY <1>2, ValueParsed DEF Configs
  <2>3. DefaultDirection(mode) \in Directions
    BY DEF DefaultDirection, Directions
  <2> HIDE DEF mode
  <2>4. QED
    BY <1>2, <2>1, <2>2, <2>3 DEF Configs, IsProfile
<1>3. CASE line.key = "refresh_ms"
  <2> DEFINE n == IF line.value = Bad THEN loaded.refresh_ms ELSE line.value
  <2>1. ParseLine(loaded, line) = [loaded EXCEPT !.refresh_ms = Clamped(n)]
    BY <1>3 DEF ParseLine
  <2>2. n \in Int
    BY <1>3, RefreshBounds, ValueParsed DEF Configs
  <2> HIDE DEF n
  <2>3. Clamped(n) \in MinRefresh..MaxRefresh
    BY <2>2, RefreshBounds DEF Clamped
  <2>4. QED
    BY <1>3, <2>1, <2>3 DEF Configs, IsProfile
<1>4. CASE line.key \in {"sort_direction", "default_view"} /\ line.value # Bad
  <2>1. ParseLine(loaded, line) = [loaded EXCEPT ![line.key] = line.value]
    BY <1>4 DEF ParseLine
  <2>2. CASE line.key = "sort_direction"
    <3>1. line.value \in Directions
      BY <1>4, <2>2, ValueParsed
    <3>2. ParseLine(loaded, line) = [loaded EXCEPT !.sort_direction = line.value]
      BY <2>1, <2>2
    <3>3. QED
      BY <2>2, <3>1, <3>2 DEF Configs, IsProfile
  <2>3. CASE line.key = "default_view"
    <3>1. line.value \in Views
      BY <1>4, <2>3, ValueParsed
    <3>2. ParseLine(loaded, line) = [loaded EXCEPT !.default_view = line.value]
      BY <2>1, <2>3
    <3>3. QED
      BY <2>3, <3>1, <3>2 DEF Configs, IsProfile
  <2>4. QED
    BY <1>4, <2>2, <2>3
<1>5. CASE /\ line.key \notin {"view_profile", "sort", "refresh_ms"}
           /\ ~(line.key \in {"sort_direction", "default_view"} /\ line.value # Bad)
  BY <1>5 DEF ParseLine, IsProfile
<1>6. QED
  BY <1>1, <1>2, <1>3, <1>4, <1>5

LEMMA DefaultsAllowed == Defaults \in Configs
BY RefreshBounds DEF Defaults, Configs, Profiles, Modes, Directions, Views

LEMMA LoadedWithinBounds ==
  ASSUME NEW text \in Seq(Lines), NEW g, IsLoading(g, text, Len(text))
  PROVE  \A m \in 0..Len(text) : g[m] \in Configs
<1>1. Len(text) \in Nat /\ (\A i \in 1..Len(text) : text[i] \in Lines)
  OBVIOUS
<1>2. g[0] \in Configs
  BY <1>1, DefaultsAllowed DEF IsLoading
<1> DEFINE Outside == {m \in 1..Len(text) : g[m] \notin Configs}
<1>3. ASSUME Outside # {} PROVE FALSE
  <2>1. PICK m \in Outside : \A k \in Outside : m <= k
    <3>1. Outside \subseteq 1..Len(text)
      OBVIOUS
    <3> HIDE DEF Outside
    <3>2. QED
      BY <1>1, <1>3, <3>1, LeastNumber
  <2>2. m \in 1..Len(text) /\ m - 1 \in 0..Len(text) /\ m - 1 < m
    OBVIOUS
  <2>3. g[m - 1] \in Configs
    BY <1>2, <2>1, <2>2
  <2>4. g[m] = ParseLine(g[m - 1], text[m])
    BY <2>2 DEF IsLoading
  <2>5. QED
    BY <1>1, <2>2, <2>3, <2>4, LineParsed
<1>4. QED
  BY <1>1, <1>2, <1>3

\* profile is the value of the text's only view_profile line.
Chosen(text, profile) ==
  \E i \in DOMAIN text :
    /\ text[i] = Desired(profile)
    /\ \A j \in DOMAIN text : IsProfile(text[j]) => j = i

LEMMA ChosenIsLoaded ==
  ASSUME NEW text \in Seq(Lines), NEW profile \in Profiles, Chosen(text, profile)
  PROVE  Load(text).view_profile = profile
<1>1. Len(text) \in Nat /\ DOMAIN text = 1..Len(text) /\ (\A i \in 1..Len(text) : text[i] \in Lines)
  OBVIOUS
<1>2. PICK g : IsLoading(g, text, Len(text)) /\ Load(text) = g[Len(text)]
  BY <1>1, LoadIs
<1>3. PICK i \in 1..Len(text) :
        /\ text[i] = Desired(profile)
        /\ \A j \in 1..Len(text) : IsProfile(text[j]) => j = i
  BY <1>1 DEF Chosen
<1>4. \A m \in 1..Len(text) :
        /\ g[m - 1] \in Configs
        /\ g[m] = ParseLine(g[m - 1], text[m])
  <2>1. \A m \in 0..Len(text) : g[m] \in Configs
    BY <1>2, LoadedWithinBounds
  <2>2. \A m \in 1..Len(text) : m \in 0..Len(text) /\ m - 1 \in 0..Len(text) /\ m # 0
    BY <1>1
  <2>3. \A m \in 1..Len(text) : g[m] = ParseLine(g[m - 1], text[m])
    BY <1>2, <2>2 DEF IsLoading
  <2>4. QED
    BY <2>1, <2>2, <2>3
<1>5. g[i].view_profile = profile
  <2>1. IsProfile(text[i]) /\ text[i].value = profile
    BY <1>3 DEF Desired, IsProfile
  <2>2. QED
    BY <1>1, <1>4, <2>1, LineParsed
<1> DEFINE Changed == {m \in 1..Len(text) : m >= i /\ g[m].view_profile # profile}
<1>6. ASSUME Changed # {} PROVE FALSE
  <2>1. PICK m \in Changed : \A k \in Changed : m <= k
    <3>1. Changed \subseteq 1..Len(text)
      OBVIOUS
    <3> HIDE DEF Changed
    <3>2. QED
      BY <1>1, <1>6, <3>1, LeastNumber
  <2>2. m > i /\ m - 1 \in 1..Len(text) /\ m - 1 >= i /\ m - 1 < m
    BY <1>5
  <2>3. g[m - 1].view_profile = profile
    BY <2>1, <2>2
  <2>4. ~IsProfile(text[m])
    BY <1>3, <2>2
  <2>5. QED
    BY <1>1, <1>4, <2>3, <2>4, LineParsed
<1>7. QED
  BY <1>1, <1>2, <1>6

-----------------------------------------------------------------------------
(***************************************************************************)
(* The profile that is loaded.                                             *)
(***************************************************************************)

AtMostOne(text) ==
  \A i, j \in DOMAIN text : IsProfile(text[i]) /\ IsProfile(text[j]) => i = j

\* A text that is kept has no more view_profile lines than one, if the old had
\* no more, and the one that is written is the profile asked for.
LEMMA UpdatedIsChosen ==
  ASSUME NEW old \in Seq(Lines), NEW text \in Seq(Lines), NEW profile \in Profiles,
         AtMostOne(old), Kept(old, text)
  PROVE  Chosen(Updated(text, profile), profile)
<1>1. AtMostOne(text)
  <2> SUFFICES ASSUME NEW i \in DOMAIN text, NEW j \in DOMAIN text,
                      IsProfile(text[i]), IsProfile(text[j])
               PROVE  i = j
    BY DEF AtMostOne
  <2>1. CASE HasProfile(old)
    <3>1. i \in DOMAIN old
      BY <2>1, AddedLines, BlankIsNoProfile
    <3>2. j \in DOMAIN old
      BY <2>1, AddedLines, BlankIsNoProfile
    <3>3. QED
      BY <3>1, <3>2, KeptProfiles DEF AtMostOne
  <2>2. CASE ~HasProfile(old)
    <3>1. i \notin DOMAIN old /\ j \notin DOMAIN old
      BY <2>2, KeptProfiles DEF HasProfile
    <3>2. i = Len(old) + 1
      BY <3>1, AddedLines, BlankIsNoProfile
    <3>3. j = Len(old) + 1
      BY <3>1, AddedLines, BlankIsNoProfile
    <3>4. QED
      BY <3>2, <3>3
  <2>3. QED
    BY <2>1, <2>2
<1>2. CASE \E i \in DOMAIN text : IsProfile(text[i])
  <2>1. PICK i \in DOMAIN text : IsProfile(text[i])
    BY <1>2
  <2>2. \A j \in DOMAIN text : IsProfile(text[j]) => j = i
    BY <1>1, <2>1 DEF AtMostOne
  <2>3. Updated(text, profile) =
          [j \in DOMAIN text |->
             IF IsProfile(text[j]) /\ \A k \in 1..(j-1) : ~IsProfile(text[k])
               THEN Desired(profile) ELSE text[j]]
    BY <1>2 DEF Updated, HasProfile, IsFirstProfile
  <2>4. \A k \in 1..(i - 1) : k \in DOMAIN text /\ k # i
    OBVIOUS
  <2>5. Updated(text, profile)[i] = Desired(profile)
    BY <2>1, <2>2, <2>3, <2>4
  <2>6. \A j \in DOMAIN text : IsProfile(Updated(text, profile)[j]) => j = i
    BY <2>2, <2>3
  <2>7. DOMAIN Updated(text, profile) = DOMAIN text
    BY <2>3
  <2>8. QED
    BY <2>5, <2>6, <2>7 DEF Chosen
<1>3. CASE ~\E i \in DOMAIN text : IsProfile(text[i])
  <2>1. Updated(text, profile) = Append(text, Desired(profile))
    BY <1>3 DEF Updated, HasProfile
  <2>2. /\ Len(Updated(text, profile)) = Len(text) + 1
        /\ DOMAIN Updated(text, profile) = 1..(Len(text) + 1)
        /\ Updated(text, profile)[Len(text) + 1] = Desired(profile)
        /\ \A j \in 1..Len(text) : Updated(text, profile)[j] = text[j]
    <3>1. Desired(profile) \in Lines
      BY DEF Desired, Lines
    <3>2. QED
      BY <2>1, <3>1
  <2>3. \A j \in 1..(Len(text) + 1) : IsProfile(Updated(text, profile)[j]) => j = Len(text) + 1
    BY <1>3, <2>2
  <2>4. Len(text) + 1 \in 1..(Len(text) + 1)
    OBVIOUS
  <2>5. QED
    BY <2>2, <2>3, <2>4 DEF Chosen
<1>4. QED
  BY <1>2, <1>3

\* Blank lines behind it do not change what a text has chosen.
LEMMA BlanksChoose ==
  ASSUME NEW new \in Seq(Lines), NEW text \in Seq(Lines), NEW profile, Chosen(new, profile),
         Len(new) <= Len(text),
         \A i \in 1..Len(new) : text[i] = new[i],
         \A i \in (Len(new) + 1)..Len(text) : text[i] = Blank
  PROVE  Chosen(text, profile)
<1>1. PICK i \in DOMAIN new :
        new[i] = Desired(profile) /\ \A j \in DOMAIN new : IsProfile(new[j]) => j = i
  BY DEF Chosen
<1>2. /\ DOMAIN new = 1..Len(new) /\ Len(new) \in Nat
      /\ DOMAIN text = 1..Len(text) /\ Len(text) \in Nat
  OBVIOUS
<1>3. i \in DOMAIN text /\ text[i] = Desired(profile)
  BY <1>1, <1>2
<1>4. ASSUME NEW j \in DOMAIN text, IsProfile(text[j]) PROVE j = i
  <2>1. j \notin (Len(new) + 1)..Len(text)
    BY <1>4, BlankIsNoProfile
  <2>2. j \in 1..Len(new)
    BY <1>2, <2>1
  <2>3. QED
    BY <1>1, <1>2, <1>4, <2>2
<1>5. QED
  BY <1>3, <1>4 DEF Chosen

\* What TypeOK says beyond IInv, and: while nobody is about to write, the file's
\* only view_profile line is the profile written last.
SettingsInv ==
  /\ initial \in Files
  /\ config \in [Instances -> Configs]
  /\ launches \in 0..MaxLaunches
  /\ written \in Profiles \cup {"none"}

WrittenInv ==
  (~damaged /\ written # "none" /\ AtMostOne(initial))
  => Chosen(file, written) \/ \E i \in Instances : pc[i] = "write"

LEMMA FileLoaded == IInv => Load(file) \in Configs
<1> SUFFICES ASSUME IInv PROVE Load(file) \in Configs
  OBVIOUS
<1>1. file \in Seq(Lines)
  BY DEF IInv
<1>2. Len(file) \in Nat /\ Len(file) \in 0..Len(file)
  BY <1>1
<1>3. QED
  BY <1>1, <1>2, LoadIs, LoadedWithinBounds

LEMMA SettingsInit == Init => SettingsInv /\ WrittenInv
BY ConfigAssumption, DefaultsAllowed DEF Init, SettingsInv, WrittenInv

LEMMA SettingsKept == IInv /\ SettingsInv /\ [Next]_vars => SettingsInv'
<1> SUFFICES ASSUME IInv, SettingsInv, [Next]_vars PROVE SettingsInv'
  OBVIOUS
<1>1. ASSUME NEW i \in Instances, End(i)
      PROVE  config' \in [Instances -> Configs]
  BY <1>1, DefaultsAllowed DEF End, SettingsInv
<1>2. ASSUME NEW i \in Instances, Run(i), pc[i] = "write"
      PROVE  config' \in [Instances -> Configs]
  <2>1. view[i] \in Profiles
    BY <1>2 DEF IInv
  <2>2. [config[i] EXCEPT !.view_profile = view[i]] \in Configs
    BY <2>1 DEF SettingsInv, Configs
  <2>3. config' = [config EXCEPT ![i] = [config[i] EXCEPT !.view_profile = view[i]]]
    BY <1>2 DEF Run
  <2>4. QED
    BY <2>2, <2>3 DEF SettingsInv
<1>3. CASE UNCHANGED vars
  BY <1>3 DEF SettingsInv, vars
<1>4. CASE NoneLeft
  BY <1>4 DEF SettingsInv, NoneLeft, vars
<1>5. ASSUME NEW i \in Instances, Launch(i) PROVE SettingsInv'
  BY <1>5, ConfigAssumption DEF Launch, SettingsInv
<1>6. ASSUME NEW i \in Instances, LoadConfig(i) PROVE SettingsInv'
  <2>1. UNCHANGED <<initial, launches, written>>
    BY <1>6 DEF LoadConfig
  <2>2. config' \in [Instances -> Configs]
    <3>1. CASE view[i] = "bad"
      BY <1>1, <1>6, <3>1 DEF LoadConfig
    <3>2. CASE view[i] # "bad"
      <4>1. \E loaded \in {Load(file), Defaults} : config' = [config EXCEPT ![i] = loaded]
        BY <1>6, <3>2 DEF LoadConfig
      <4>2. QED
        BY <4>1, FileLoaded, DefaultsAllowed DEF SettingsInv
    <3>3. QED
      BY <3>1, <3>2
  <2>3. QED
    BY <2>1, <2>2 DEF SettingsInv
<1>7. ASSUME NEW i \in Instances, ReadLines(i) \/ Open(i) PROVE SettingsInv'
  BY <1>7 DEF ReadLines, Open, SettingsInv
<1>8. ASSUME NEW i \in Instances, PersistFails(i) \/ Stop(i) PROVE SettingsInv'
  BY <1>1, <1>8 DEF PersistFails, Stop, SettingsInv
<1>9. ASSUME NEW i \in Instances, Write(i) PROVE SettingsInv'
  <2>1. view[i] \in Profiles
    BY <1>9 DEF IInv, Write
  <2>2. QED
    BY <1>2, <1>9, <2>1 DEF Write, SettingsInv
<1>10. ASSUME NEW i \in Instances, WriteFails(i) PROVE SettingsInv'
  BY <1>1, <1>2, <1>10 DEF WriteFails, SettingsInv
<1>11. QED
  BY <1>3, <1>4, <1>5, <1>6, <1>7, <1>8, <1>9, <1>10 DEF Next

LEMMA WrittenKept == IInv /\ WrittenInv /\ [Next]_vars => WrittenInv'
<1> SUFFICES ASSUME IInv, WrittenInv, [Next]_vars PROVE WrittenInv'
  OBVIOUS
<1>1. ASSUME UNCHANGED <<file, written, initial>>,
             ~damaged' => ~damaged /\ \A j \in Instances : pc[j] = "write" => pc'[j] = "write"
      PROVE  WrittenInv'
  BY <1>1 DEF WrittenInv, Chosen, AtMostOne
<1>2. ASSUME NEW i \in Instances, End(i) \/ Run(i), pc[i] # "write"
      PROVE  \A j \in Instances : pc[j] = "write" => pc'[j] = "write"
  BY <1>2 DEF IInv, End, Run
<1>3. CASE UNCHANGED vars
  BY <1>1, <1>3 DEF vars
<1>4. CASE NoneLeft
  BY <1>1, <1>4 DEF NoneLeft, vars
<1>5. ASSUME NEW i \in Instances, Launch(i) \/ LoadConfig(i) \/ ReadLines(i) \/ PersistFails(i) \/ Stop(i)
      PROVE  WrittenInv'
  <2>1. UNCHANGED <<file, written, initial>>
    BY <1>5 DEF Launch, LoadConfig, ReadLines, PersistFails, Stop
  <2>2. CASE Stop(i) /\ pc[i] = "write"
    BY <2>2 DEF WrittenInv, Stop
  <2>3. CASE ~(Stop(i) /\ pc[i] = "write")
    <3>1. \A j \in Instances : pc[j] = "write" => pc'[j] = "write"
      <4>1. CASE Launch(i) \/ ReadLines(i)
        BY <4>1 DEF Launch, ReadLines, IInv
      <4>2. CASE LoadConfig(i)
        BY <1>2, <4>2 DEF LoadConfig, IInv
      <4>3. CASE PersistFails(i)
        BY <1>2, <4>3 DEF PersistFails
      <4>4. CASE Stop(i)
        BY <1>2, <2>3, <4>4 DEF Stop
      <4>5. QED
        BY <1>5, <4>1, <4>2, <4>3, <4>4
    <3>2. ~damaged' => ~damaged
      BY <1>5 DEF Launch, LoadConfig, ReadLines, PersistFails, Stop
    <3>3. QED
      BY <1>1, <2>1, <3>1, <3>2
  <2>4. QED
    BY <2>2, <2>3
<1>6. ASSUME NEW i \in Instances, Open(i) PROVE WrittenInv'
  <2>1. pc'[i] = "write"
    BY <1>6 DEF Open, IInv
  <2>2. QED
    BY <2>1 DEF WrittenInv
<1>7. ASSUME NEW i \in Instances, Write(i) PROVE WrittenInv'
  <2> SUFFICES ASSUME ~damaged', AtMostOne(initial') PROVE Chosen(file', written')
    BY DEF WrittenInv
  <2>1. /\ pc[i] = "write" /\ UNCHANGED <<initial, damaged>> /\ written' = view[i]
        /\ file' \in Overlay(Updated(lines[i], view[i]), file)
    BY <1>7 DEF Write
  <2>2. /\ view[i] \in Profiles /\ lines[i] \in Seq(Lines) /\ file \in Seq(Lines)
        /\ initial \in Seq(Lines) /\ Kept(initial, lines[i])
        /\ \A j \in DOMAIN initial : initial[j] # Cut
        /\ file = <<>> \/ (Kept(initial, file) /\ HasProfile(file))
    BY <2>1 DEF IInv
  <2> DEFINE new == Updated(lines[i], view[i])
  <2>3. new \in Seq(Lines)
    BY <2>2, UpdatedIsText
  <2>4. Kept(initial, new) /\ HasProfile(new)
    BY <2>2, UpdatedKeeps
  <2>5. Chosen(new, view[i])
    BY <2>1, <2>2, UpdatedIsChosen
  <2> HIDE DEF new
  <2>6. /\ file' \in Seq(Lines) /\ Len(new) <= Len(file')
        /\ \A k \in 1..Len(new) : file'[k] = new[k]
        /\ \A k \in (Len(new) + 1)..Len(file') : file'[k] = Blank
    <3>1. file' \in Overlay(new, file)
      BY <2>1 DEF new
    <3>2. QED
      BY <2>2, <2>3, <2>4, <3>1, OverlayKeeps
  <2>7. QED
    BY <2>1, <2>2, <2>3, <2>5, <2>6, BlanksChoose
<1>8. ASSUME NEW i \in Instances, WriteFails(i) PROVE WrittenInv'
  BY <1>8 DEF WriteFails, WrittenInv
<1>9. QED
  BY <1>3, <1>4, <1>5, <1>6, <1>7, <1>8 DEF Next

\* A start runs with settings the parsers allow and, if the file has not two
\* view_profile lines, the profile that -view wrote last is the one that the next
\* start loads, however many starts overlap, short of a write that failed, was
\* killed or was read halfway.
THEOREM ChoiceIsObeyed == Spec => []ChoiceIsLoaded
<1>1. IInv /\ SettingsInv => TypeOK
  BY DEF IInv, SettingsInv, TypeOK
<1>2. IInv /\ SettingsInv /\ WrittenInv => ChoicePersists
  <2> SUFFICES ASSUME IInv, SettingsInv, WrittenInv, Intact, written # "none", AtMostOne(initial)
               PROVE  Load(file).view_profile = written
    BY DEF ChoicePersists, AtMostOne
  <2>1. Chosen(file, written)
    BY DEF WrittenInv, Intact
  <2>2. file \in Seq(Lines) /\ written \in Profiles
    BY DEF IInv, SettingsInv
  <2>3. QED
    BY <2>1, <2>2, ChosenIsLoaded
<1> QED
  BY <1>1, <1>2, InitInv, NextInv, SettingsInit, SettingsKept, WrittenKept, PTL
     DEF Spec, ChoiceIsLoaded

-----------------------------------------------------------------------------
(***************************************************************************)
(* What the messages are made of.                                          *)
(***************************************************************************)

LEMMA ShortKeysAre ==
  /\ DOMAIN ShortKeys = {"P", "Q", "R", "S"}
  /\ ShortKeys["P"] = "F1" /\ ShortKeys["Q"] = "F2" /\ ShortKeys["R"] = "F3" /\ ShortKeys["S"] = "F4"
  /\ Range(ShortKeys) = {"F1", "F2", "F3", "F4"}
<1>1. /\ DOMAIN ShortKeys = {"P", "Q", "R", "S"}
      /\ ShortKeys["P"] = "F1" /\ ShortKeys["Q"] = "F2" /\ ShortKeys["R"] = "F3" /\ ShortKeys["S"] = "F4"
  BY DEF ShortKeys
<1>2. Range(ShortKeys) = {"F1", "F2", "F3", "F4"}
  BY <1>1 DEF Range
<1>3. QED
  BY <1>1, <1>2

LEMMA LongKeysAre ==
  /\ DOMAIN LongKeys = 1..10
  /\ LongKeys[1] = <<"F1", <<"1", "1", "~">>>> /\ LongKeys[2] = <<"F2", <<"1", "2", "~">>>>
  /\ LongKeys[3] = <<"F3", <<"1", "3", "~">>>> /\ LongKeys[4] = <<"F4", <<"1", "4", "~">>>>
  /\ LongKeys[5] = <<"F5", <<"1", "5", "~">>>> /\ LongKeys[6] = <<"F6", <<"1", "7", "~">>>>
  /\ LongKeys[7] = <<"F7", <<"1", "8", "~">>>> /\ LongKeys[8] = <<"F8", <<"1", "9", "~">>>>
  /\ LongKeys[9] = <<"F9", <<"2", "0", "~">>>> /\ LongKeys[10] = <<"F10", <<"2", "1", "~">>>>
BY DEF LongKeys

LongNames == {"F5", "F6", "F7", "F8", "F9", "F10"}

LEMMA LongNamesAre == {LongKeys[i][1] : i \in 5..10} = LongNames
<1>1. 5..10 = {5, 6, 7, 8, 9, 10}
  OBVIOUS
<1>2. QED
  BY <1>1, LongKeysAre DEF LongNames

LEMMA DigitsAre == DOMAIN Digit = {"0", "1", "2", "3", "4", "5", "6", "7", "8", "9"}
<1>1. DOMAIN Digit = Range(Digits)
  BY DEF Digit
<1>2. DOMAIN Digits = 1..10
  BY DEF Digits
<1>3. 1..10 = {1, 2, 3, 4, 5, 6, 7, 8, 9, 10}
  OBVIOUS
<1>4. QED
  BY <1>1, <1>2, <1>3 DEF Range, Digits

LEMMA DigitValues == Digit["0"] = 0 /\ Digit["2"] = 2 /\ Digit["9"] = 9
<1>1. DOMAIN Digits = {1, 2, 3, 4, 5, 6, 7, 8, 9, 10}
  <2>1. DOMAIN Digits = 1..10 /\ 1..10 = {1, 2, 3, 4, 5, 6, 7, 8, 9, 10}
    BY DEF Digits
  <2>2. QED
    BY <2>1
<1>2. /\ (CHOOSE i \in DOMAIN Digits : Digits[i] = "0") = 1
      /\ (CHOOSE i \in DOMAIN Digits : Digits[i] = "2") = 3
      /\ (CHOOSE i \in DOMAIN Digits : Digits[i] = "9") = 10
  BY <1>1 DEF Digits
<1>3. \A d \in DOMAIN Digit : Digit[d] = (CHOOSE i \in DOMAIN Digits : Digits[i] = d) - 1
  BY DEF Digit
<1>5. /\ Digit["0"] = (CHOOSE i \in DOMAIN Digits : Digits[i] = "0") - 1
      /\ Digit["2"] = (CHOOSE i \in DOMAIN Digits : Digits[i] = "2") - 1
      /\ Digit["9"] = (CHOOSE i \in DOMAIN Digits : Digits[i] = "9") - 1
  BY <1>3, DigitsAre
<1>4. QED
  BY <1>2, <1>5

LEMMA BytesAre ==
  /\ Bytes("F1") = <<"Esc", "O", "P">> /\ Bytes("F2") = <<"Esc", "O", "Q">>
  /\ Bytes("F3") = <<"Esc", "O", "R">> /\ Bytes("F4") = <<"Esc", "O", "S">>
  /\ Bytes("F5") = <<"Esc", "[", "1", "5", "~">> /\ Bytes("F6") = <<"Esc", "[", "1", "7", "~">>
  /\ Bytes("F7") = <<"Esc", "[", "1", "8", "~">> /\ Bytes("F8") = <<"Esc", "[", "1", "9", "~">>
  /\ Bytes("F9") = <<"Esc", "[", "2", "0", "~">> /\ Bytes("F10") = <<"Esc", "[", "2", "1", "~">>
  /\ Bytes("BackTab") = <<"Esc", "[", "Z">>
  /\ Bytes("Press") = Report("0", "2", "9", "M")
  /\ Bytes("Release") = Report("0", "2", "9", "m")
  /\ Bytes("RightRelease") = Report("2", "2", "9", "m")
  /\ Bytes("Return") = <<"CR">>
  /\ \A m \in Plain : Bytes(m) = <<m>>
<1> DEFINE Short(m) == \E k \in DOMAIN ShortKeys : ShortKeys[k] = m
           Of(m) == LongKeys[CHOOSE i \in 5..10 : LongKeys[i][1] = m][2]
           Long(m) == \E i \in 5..10 : LongKeys[i][1] = m
<1>1. \A m : Short(m) <=> m \in {"F1", "F2", "F3", "F4"}
  BY ShortKeysAre
<1>2. \A m : Long(m) <=> m \in LongNames
  BY LongNamesAre
<1>3. /\ (CHOOSE k \in DOMAIN ShortKeys : ShortKeys[k] = "F1") = "P"
      /\ (CHOOSE k \in DOMAIN ShortKeys : ShortKeys[k] = "F2") = "Q"
      /\ (CHOOSE k \in DOMAIN ShortKeys : ShortKeys[k] = "F3") = "R"
      /\ (CHOOSE k \in DOMAIN ShortKeys : ShortKeys[k] = "F4") = "S"
  BY ShortKeysAre
<1>4. ASSUME NEW i \in 5..10 PROVE (CHOOSE j \in 5..10 : LongKeys[j][1] = LongKeys[i][1]) = i
  <2>1. \A j \in 5..10 : LongKeys[j][1] = LongKeys[i][1] => j = i
    <3>1. 5..10 = {5, 6, 7, 8, 9, 10}
      OBVIOUS
    <3>2. QED
      BY <3>1, LongKeysAre
  <2>2. QED
    BY <2>1
<1>5. \A m : Bytes(m) =
        CASE Short(m) -> <<"Esc", "O", CHOOSE k \in DOMAIN ShortKeys : ShortKeys[k] = m>>
          [] Long(m) -> <<"Esc", "[", Of(m)[1], Of(m)[2], Of(m)[3]>>
          [] m = "BackTab" -> <<"Esc", "[", "Z">>
          [] m = "Press" -> Report("0", "2", "9", "M")
          [] m = "Release" -> Report("0", "2", "9", "m")
          [] m = "RightRelease" -> Report("2", "2", "9", "m")
          [] m = "Return" -> <<ReturnKey>>
          [] OTHER -> <<m>>
  BY DEF Bytes
<1>6. /\ Bytes("F1") = <<"Esc", "O", "P">> /\ Bytes("F2") = <<"Esc", "O", "Q">>
      /\ Bytes("F3") = <<"Esc", "O", "R">> /\ Bytes("F4") = <<"Esc", "O", "S">>
  <2> HIDE DEF Long
  <2>1. ~Long("F1") /\ ~Long("F2") /\ ~Long("F3") /\ ~Long("F4")
    BY <1>2 DEF LongNames
  <2>2. Short("F1") /\ Short("F2") /\ Short("F3") /\ Short("F4")
    BY <1>1
  <2> HIDE DEF Short
  <2>3. QED
    BY <1>3, <1>5, <2>1, <2>2
<1>7. /\ Bytes("F5") = <<"Esc", "[", "1", "5", "~">> /\ Bytes("F6") = <<"Esc", "[", "1", "7", "~">>
      /\ Bytes("F7") = <<"Esc", "[", "1", "8", "~">> /\ Bytes("F8") = <<"Esc", "[", "1", "9", "~">>
      /\ Bytes("F9") = <<"Esc", "[", "2", "0", "~">> /\ Bytes("F10") = <<"Esc", "[", "2", "1", "~">>
  <2>1. \A m \in LongNames : ~Short(m) /\ Long(m)
    BY <1>1, <1>2 DEF LongNames
  <2> HIDE DEF Long, Short
  <2>2. \A m \in LongNames : Bytes(m) = <<"Esc", "[", Of(m)[1], Of(m)[2], Of(m)[3]>>
    <3> SUFFICES ASSUME NEW m \in LongNames
                 PROVE  Bytes(m) = <<"Esc", "[", Of(m)[1], Of(m)[2], Of(m)[3]>>
      OBVIOUS
    <3>1. ~Short(m) /\ Long(m)
      BY <2>1
    <3> DEFINE other == CHOOSE k \in DOMAIN ShortKeys : ShortKeys[k] = m
    <3>2. Bytes(m) =
            CASE Short(m) -> <<"Esc", "O", other>>
              [] Long(m) -> <<"Esc", "[", Of(m)[1], Of(m)[2], Of(m)[3]>>
              [] m = "BackTab" -> <<"Esc", "[", "Z">>
              [] m = "Press" -> Report("0", "2", "9", "M")
              [] m = "Release" -> Report("0", "2", "9", "m")
              [] m = "RightRelease" -> Report("2", "2", "9", "m")
              [] m = "Return" -> <<ReturnKey>>
              [] OTHER -> <<m>>
      BY <1>5
    <3> HIDE DEF Of, other
    <3>3. m \notin {"BackTab", "Press", "Release", "RightRelease", "Return"}
      BY DEF LongNames
    <3>4. QED
      BY <3>1, <3>2, <3>3
  <2>3. \A i \in 5..10 : Of(LongKeys[i][1]) = LongKeys[i][2]
    BY <1>4
  <2> HIDE DEF Of
  <2>4. 5 \in 5..10 /\ 6 \in 5..10 /\ 7 \in 5..10 /\ 8 \in 5..10 /\ 9 \in 5..10 /\ 10 \in 5..10
    OBVIOUS
  <2>5. /\ Of("F5") = <<"1", "5", "~">> /\ Of("F6") = <<"1", "7", "~">> /\ Of("F7") = <<"1", "8", "~">>
        /\ Of("F8") = <<"1", "9", "~">> /\ Of("F9") = <<"2", "0", "~">> /\ Of("F10") = <<"2", "1", "~">>
    BY <2>3, <2>4, LongKeysAre
  <2>6. QED
    BY <2>2, <2>5 DEF LongNames
<1>8. \A m : ~Short(m) /\ ~Long(m) =>
        Bytes(m) = CASE m = "BackTab" -> <<"Esc", "[", "Z">>
          [] m = "Press" -> Report("0", "2", "9", "M")
          [] m = "Release" -> Report("0", "2", "9", "m")
          [] m = "RightRelease" -> Report("2", "2", "9", "m")
          [] m = "Return" -> <<ReturnKey>>
          [] OTHER -> <<m>>
  <2> HIDE DEF Long, Short
  <2>1. QED
    BY <1>5
<1>9. \A m \in Plain \cup Reports \cup {"BackTab", "Return"} : ~Short(m) /\ ~Long(m)
  <2> HIDE DEF Long, Short
  <2>1. QED
    BY <1>1, <1>2, DigitsAre DEF Plain, Reports, LongNames
<1>10. \A m \in Plain : m \notin Reports \cup {"BackTab", "Return"}
  BY DigitsAre DEF Plain, Reports
<1> HIDE DEF Long, Short
<1>11. QED
  BY <1>6, <1>7, <1>8, <1>9, <1>10 DEF Reports, ReturnKey

\* Keys that are several bytes.
Several == Messages \ (Plain \cup {"Return"})
ShortNames == {"F1", "F2", "F3", "F4", "BackTab"}

LEMMA SeveralAre == Several = ShortNames \cup LongNames \cup Reports
<1>1. FunctionKeys = {"F1", "F2", "F3", "F4"} \cup LongNames
  <2>1. Range(ShortKeys) = {"F1", "F2", "F3", "F4"}
    BY ShortKeysAre DEF Range
  <2>2. QED
    BY <2>1, LongNamesAre DEF FunctionKeys
<1>2. (Plain \cup {"Return"}) \cap (ShortNames \cup LongNames \cup Reports) = {}
  BY DigitsAre DEF Plain, ShortNames, LongNames, Reports
<1>3. ShortNames = {"BackTab"} \cup {"F1", "F2", "F3", "F4"}
  BY DEF ShortNames
<1>4. Messages = Plain \cup {"Return"} \cup (ShortNames \cup LongNames \cup Reports)
  BY <1>1, <1>3 DEF Messages
<1>5. \A A, B : A \cap B = {} => (A \cup B) \ A = B
  OBVIOUS
<1>6. QED
  BY <1>2, <1>4, <1>5 DEF Several

LEMMA ShortBytes ==
  /\ Bytes("F1") = <<"Esc", "O", "P">> /\ Bytes("F2") = <<"Esc", "O", "Q">>
  /\ Bytes("F3") = <<"Esc", "O", "R">> /\ Bytes("F4") = <<"Esc", "O", "S">>
  /\ Bytes("BackTab") = <<"Esc", "[", "Z">>
BY BytesAre

LEMMA LongBytes ==
  /\ Bytes("F5") = <<"Esc", "[", "1", "5", "~">> /\ Bytes("F6") = <<"Esc", "[", "1", "7", "~">>
  /\ Bytes("F7") = <<"Esc", "[", "1", "8", "~">> /\ Bytes("F8") = <<"Esc", "[", "1", "9", "~">>
  /\ Bytes("F9") = <<"Esc", "[", "2", "0", "~">> /\ Bytes("F10") = <<"Esc", "[", "2", "1", "~">>
BY BytesAre

LEMMA ReportBytes ==
  /\ Bytes("Press") = Report("0", "2", "9", "M")
  /\ Bytes("Release") = Report("0", "2", "9", "m")
  /\ Bytes("RightRelease") = Report("2", "2", "9", "m")
BY BytesAre

LEMMA PlainBytes == (\A m \in Plain : Bytes(m) = <<m>>) /\ Bytes("Return") = <<"CR">>
BY BytesAre

LEMMA BytesOfOne ==
  \A m \in Plain \cup {"Return"} :
    /\ Len(Bytes(m)) = 1 /\ Bytes(m) = [i \in 1..1 |-> Bytes(m)[i]]
    /\ Bytes(m)[1] = IF m = "Return" THEN "CR" ELSE m
<1>1. \A x : Len(<<x>>) = 1 /\ <<x>> = [i \in 1..1 |-> <<x>>[i]] /\ <<x>>[1] = x
  OBVIOUS
<1>2. "Return" \notin Plain
  BY DigitsAre DEF Plain
<1>3. QED
  BY <1>1, <1>2, PlainBytes

LEMMA BytesOfShort ==
  \A m \in ShortNames :
    /\ Len(Bytes(m)) = 3 /\ Bytes(m) = [i \in 1..3 |-> Bytes(m)[i]] /\ Bytes(m)[1] = "Esc"
    /\ ~GoesOn(Bytes(m)[2], Bytes(m)[3])
    /\ Decided(Bytes(m)[2], Bytes(m)[3]) = KeyEvent(m)
    /\ \A i \in 2..3 : Bytes(m)[i] \in {"O", "P", "Q", "R", "S", "[", "Z"}
<1>1. \A a, b, c : Len(<<a, b, c>>) = 3 /\ <<a, b, c>> = [i \in 1..3 |-> <<a, b, c>>[i]]
  OBVIOUS
<1>2. \A m \in ShortNames :
        /\ \E a, b, c : Bytes(m) = <<a, b, c>>
        /\ Bytes(m)[1] = "Esc"
        /\ \A i \in {2, 3} : Bytes(m)[i] \in {"O", "P", "Q", "R", "S", "[", "Z"}
  BY ShortBytes DEF ShortNames
<1>3. \A m \in ShortNames : m # "BackTab" =>
        Bytes(m)[2] = "O" /\ Bytes(m)[3] \in DOMAIN ShortKeys /\ ShortKeys[Bytes(m)[3]] = m
  BY ShortBytes, ShortKeysAre DEF ShortNames
<1>4. \A m \in ShortNames :
        /\ ~GoesOn(Bytes(m)[2], Bytes(m)[3])
        /\ Decided(Bytes(m)[2], Bytes(m)[3]) = KeyEvent(m)
  <2>1. "Z" \notin DOMAIN Digit
    BY DigitsAre
  <2>2. Bytes("BackTab")[2] = "[" /\ Bytes("BackTab")[3] = "Z"
    BY ShortBytes
  <2>3. QED
    BY <1>3, <2>1, <2>2 DEF GoesOn, Decided
<1>5. 2..3 = {2, 3}
  OBVIOUS
<1>6. QED
  BY <1>1, <1>2, <1>4, <1>5

LEMMA BytesOfLong ==
  \A m \in LongNames :
    /\ Len(Bytes(m)) = 5 /\ Bytes(m) = [i \in 1..5 |-> Bytes(m)[i]]
    /\ Bytes(m)[1] = "Esc" /\ Bytes(m)[2] = "["
    /\ Bytes(m)[3] \in DOMAIN Digit /\ Bytes(m)[4] \in DOMAIN Digit /\ Bytes(m)[5] = "~"
    /\ \E i \in 1..10 : LongKeys[i] = <<m, <<Bytes(m)[3], Bytes(m)[4], Bytes(m)[5]>>>>
<1>1. \A a, b, c, d, e :
        Len(<<a, b, c, d, e>>) = 5 /\ <<a, b, c, d, e>> = [i \in 1..5 |-> <<a, b, c, d, e>>[i]]
  OBVIOUS
<1>2. \A m \in LongNames :
        /\ \E a, b, c, d, e : Bytes(m) = <<a, b, c, d, e>>
        /\ Bytes(m)[1] = "Esc" /\ Bytes(m)[2] = "[" /\ Bytes(m)[5] = "~"
        /\ Bytes(m)[3] \in {"1", "2"} /\ Bytes(m)[4] \in {"5", "7", "8", "9", "0", "1"}
  BY LongBytes DEF LongNames
<1>3. 5 \in 1..10 /\ 6 \in 1..10 /\ 7 \in 1..10 /\ 8 \in 1..10 /\ 9 \in 1..10 /\ 10 \in 1..10
  OBVIOUS
<1>4. \A m \in LongNames :
        \E i \in 1..10 : LongKeys[i] = <<m, <<Bytes(m)[3], Bytes(m)[4], Bytes(m)[5]>>>>
  BY <1>3, LongBytes, LongKeysAre DEF LongNames
<1>5. QED
  BY <1>1, <1>2, <1>4, DigitsAre

LEMMA BytesOfReport ==
  \A m \in Reports :
    /\ Len(Bytes(m)) = 9 /\ Bytes(m) = [i \in 1..9 |-> Bytes(m)[i]]
    /\ Bytes(m)[1] = "Esc" /\ Bytes(m)[2] = "[" /\ Bytes(m)[3] = "<"
    /\ Bytes(m)[4] = (IF m = "RightRelease" THEN "2" ELSE "0")
    /\ Bytes(m)[5] = ";" /\ Bytes(m)[6] = "2" /\ Bytes(m)[7] = ";" /\ Bytes(m)[8] = "9"
    /\ Bytes(m)[9] = (IF m = "Press" THEN "M" ELSE "m")
<1> DEFINE Shown(t, a, x) ==
             /\ Len(t) = 9 /\ t = [i \in 1..9 |-> t[i]]
             /\ t[1] = "Esc" /\ t[2] = "[" /\ t[3] = "<" /\ t[4] = a
             /\ t[5] = ";" /\ t[6] = "2" /\ t[7] = ";" /\ t[8] = "9" /\ t[9] = x
<1>1. ASSUME NEW a, NEW x PROVE Shown(Report(a, "2", "9", x), a, x)
  <2> DEFINE head == <<"Esc", "[", "<", a, ";">>
             end == <<"2", ";", "9", x>>
             S == {"Esc", "[", "<", a, ";", "2", "9", x}
  <2>1. head \in Seq(S) /\ end \in Seq(S)
    OBVIOUS
  <2>2. /\ head[1] = "Esc" /\ head[2] = "[" /\ head[3] = "<" /\ head[4] = a /\ head[5] = ";"
        /\ end[1] = "2" /\ end[2] = ";" /\ end[3] = "9" /\ end[4] = x
    OBVIOUS
  <2>3. Len(head) = 5 /\ Len(end) = 4
    OBVIOUS
  <2> HIDE DEF head, end, S
  <2>4. Len(head \o end) = 9 /\ head \o end = [i \in 1..9 |-> (head \o end)[i]]
    <3>1. head \o end \in Seq(S) /\ Len(head \o end) = Len(head) + Len(end)
      BY <2>1
    <3>2. head \o end = [i \in 1..Len(head \o end) |-> (head \o end)[i]]
      BY <3>1, LenProperties
    <3>3. Len(head \o end) = 9
      BY <2>3, <3>1
    <3>4. QED
      BY <3>2, <3>3
  <2> DEFINE whole == head \o end
             n == Len(head)
             k == Len(end)
  <2>5. \A i \in 1..(n + k) : whole[i] = IF i <= n THEN head[i] ELSE end[i - n]
    BY <2>1, ConcatProperties
  <2>6. Report(a, "2", "9", x) = whole
    BY DEF head, end, Report
  <2>7. Len(whole) = 9 /\ whole = [i \in 1..9 |-> whole[i]]
    BY <2>4
  <2>8. n = 5 /\ k = 4
    BY <2>3
  <2> HIDE DEF whole, n, k
  <2>9. /\ whole[1] = head[1] /\ whole[2] = head[2] /\ whole[3] = head[3] /\ whole[4] = head[4]
        /\ whole[5] = head[5] /\ whole[6] = end[1] /\ whole[7] = end[2] /\ whole[8] = end[3]
        /\ whole[9] = end[4]
    BY <2>5, <2>8
  <2>10. /\ whole[1] = "Esc" /\ whole[2] = "[" /\ whole[3] = "<" /\ whole[4] = a
         /\ whole[5] = ";" /\ whole[6] = "2" /\ whole[7] = ";" /\ whole[8] = "9" /\ whole[9] = x
    BY <2>2, <2>9, Zenon
  <2>11. QED
    BY <2>6, <2>7, <2>10, Zenon
<1>2. \A m \in Reports :
        Bytes(m) = Report(IF m = "RightRelease" THEN "2" ELSE "0", "2", "9", IF m = "Press" THEN "M" ELSE "m")
  BY ReportBytes DEF Reports
<1>3. \A m \in Reports :
        Shown(Bytes(m), IF m = "RightRelease" THEN "2" ELSE "0", IF m = "Press" THEN "M" ELSE "m")
  <2> HIDE DEF Shown
  <2>1. QED
    BY <1>1, <1>2
<1>4. QED
  BY <1>3

\* The first byte of a message says whether it is the only one.
LEMMA FirstByte ==
  \A m \in Messages :
    /\ Len(Bytes(m)) \in {1, 3, 5, 9} /\ DOMAIN Bytes(m) = 1..Len(Bytes(m))
    /\ Bytes(m) = [i \in 1..Len(Bytes(m)) |-> Bytes(m)[i]]
    /\ m \in Several => Bytes(m)[1] = "Esc"
    /\ m \notin Several => Len(Bytes(m)) = 1 /\ Bytes(m)[1] = IF m = "Return" THEN "CR" ELSE m
<1>1. \A m \in Messages : m \in Several \/ m \in Plain \cup {"Return"}
  BY DEF Several
<1>2. \A m \in Several : m \notin Plain \cup {"Return"}
  BY DEF Several
<1>3. \A n \in Nat : \A f : f = [i \in 1..n |-> f[i]] => DOMAIN f = 1..n
  OBVIOUS
<1>4. \A m \in Several :
        \E n \in {3, 5, 9} :
          /\ Len(Bytes(m)) = n /\ Bytes(m) = [i \in 1..n |-> Bytes(m)[i]] /\ Bytes(m)[1] = "Esc"
  <2>1. \A m \in ShortNames :
          Len(Bytes(m)) = 3 /\ Bytes(m) = [i \in 1..3 |-> Bytes(m)[i]] /\ Bytes(m)[1] = "Esc"
    BY BytesOfShort, Zenon
  <2>2. \A m \in LongNames :
          Len(Bytes(m)) = 5 /\ Bytes(m) = [i \in 1..5 |-> Bytes(m)[i]] /\ Bytes(m)[1] = "Esc"
    BY BytesOfLong, Zenon
  <2>3. \A m \in Reports :
          Len(Bytes(m)) = 9 /\ Bytes(m) = [i \in 1..9 |-> Bytes(m)[i]] /\ Bytes(m)[1] = "Esc"
    BY BytesOfReport, Zenon
  <2>4. 3 \in {3, 5, 9} /\ 5 \in {3, 5, 9} /\ 9 \in {3, 5, 9}
    OBVIOUS
  <2>5. \A m \in Several : m \in ShortNames \/ m \in LongNames \/ m \in Reports
    BY SeveralAre
  <2>6. QED
    BY <2>1, <2>2, <2>3, <2>4, <2>5, Zenon
<1>5. QED
  BY <1>1, <1>2, <1>3, <1>4, BytesOfOne

-----------------------------------------------------------------------------
(***************************************************************************)
(* What the parser makes of them.                                          *)
(***************************************************************************)

\* A number of one digit.
LEMMA NumberOfOne == ASSUME NEW d, Digit[d] \in Int PROVE Number(<<d>>) = Digit[d]
<1> DEFINE s == <<d>>
           Is(h) == h = [S \in SUBSET {1} |-> IF S = {} THEN 0
                          ELSE 10 * h[S \ {Max(S)}] + Digit[s[Max(S)]]]
           h == CHOOSE h : Is(h)
<1>1. DOMAIN s = {1}
  OBVIOUS
<1>2. Number(s) = h[{1}]
  BY <1>1 DEF Number, FoldLeft, MapThenFoldSet
<1>3. Max({1}) = 1
  BY DEF Max
<1>4. \E g : Is(g)
  <2> DEFINE g == [S \in SUBSET {1} |-> IF S = {} THEN 0 ELSE Digit[d]]
  <2>1. \A S \in SUBSET {1} : S # {} => S = {1}
    OBVIOUS
  <2>2. g[{}] = 0 /\ s[1] = d
    OBVIOUS
  <2>3. \A S \in SUBSET {1} :
          g[S] = IF S = {} THEN 0 ELSE 10 * g[S \ {Max(S)}] + Digit[s[Max(S)]]
    <3>1. {1} \ {Max({1})} = {} /\ s[Max({1})] = d
      BY <1>3
    <3>2. 10 * g[{}] + Digit[d] = Digit[d]
      BY <2>2
    <3>3. QED
      BY <2>1, <3>1, <3>2
  <2>4. g = [S \in SUBSET {1} |-> g[S]]
    OBVIOUS
  <2> HIDE DEF g, s
  <2>5. QED
    BY <2>3, <2>4
<1>5. Is(h)
  BY <1>4
<1> HIDE DEF h
<1>6. h[{}] = 0 /\ h[{1}] = 10 * h[{1} \ {Max({1})}] + Digit[s[Max({1})]]
  BY <1>5
<1>7. {1} \ {Max({1})} = {} /\ s[Max({1})] = d
  BY <1>3
<1>8. h[{1}] = 10 * 0 + Digit[d]
  BY <1>6, <1>7
<1>9. QED
  BY <1>2, <1>8

-----------------------------------------------------------------------------
(***************************************************************************)
(* What was written and not handled yet: the bytes of the call of          *)
(* read_input_event, and those behind them.                                *)
(***************************************************************************)

Piece(m, i) == [byte |-> Bytes(m)[i], at |-> i, of |-> m]
Pieces == {p \in {Piece(m, i) : m \in Messages, i \in 1..9} : p.at <= Len(Bytes(p.of))}

\* b stands behind a: the next byte of its message, or the first of another.
Follows(a, b) ==
  IF a.at < Len(Bytes(a.of)) THEN b.of = a.of /\ b.at = a.at + 1 ELSE b.at = 1

Chained(s) == \A i \in 1..(Len(s) - 1) : Follows(s[i], s[i + 1])
Complete(s) == s # <<>> => s[Len(s)].at = Len(Bytes(s[Len(s)].of))
Said(s, keys) == \A i \in 1..Len(s) : s[i].of \in keys

Stream == read \o buffer

StreamInv ==
  /\ session \in Sessions
  /\ read \in Seq(Pieces) /\ buffer \in Seq(Pieces)
  /\ Chained(Stream) /\ Complete(Stream) /\ Said(Stream, session)

LEMMA PieceIs ==
  ASSUME NEW p \in Pieces
  PROVE  /\ p.of \in Messages /\ p.at \in 1..Len(Bytes(p.of)) /\ p.byte = Bytes(p.of)[p.at]
         /\ p = Piece(p.of, p.at)
BY FirstByte DEF Pieces, Piece

LEMMA PieceOf ==
  ASSUME NEW m \in Messages, NEW i \in 1..Len(Bytes(m))
  PROVE  Piece(m, i) \in Pieces
<1>1. PICK n \in {1, 3, 5, 9} : Len(Bytes(m)) = n
  BY FirstByte
<1>2. i \in 1..n /\ 1..n \subseteq 1..9
  BY <1>1
<1>3. QED
  BY <1>2 DEF Pieces, Piece

LEMMA MessageBytes ==
  ASSUME NEW m \in Messages
  PROVE  [i \in DOMAIN Bytes(m) |-> Piece(m, i)] \in Seq(Pieces)
<1>1. Len(Bytes(m)) \in Nat /\ DOMAIN Bytes(m) = 1..Len(Bytes(m))
  BY FirstByte
<1>2. QED
  BY <1>1, PieceOf

\* A sequence taken apart at another place is the same one.
LEMMA StreamTake ==
  ASSUME NEW S, NEW s \in Seq(S), NEW u \in Seq(S), u # <<>>
  PROVE  /\ Append(s, Head(u)) \in Seq(S) /\ Tail(u) \in Seq(S)
         /\ Append(s, Head(u)) \o Tail(u) = s \o u
<1>1. Head(u) \in S /\ Tail(u) \in Seq(S) /\ u = <<Head(u)>> \o Tail(u)
  OBVIOUS
<1>2. Append(s, Head(u)) = s \o <<Head(u)>> /\ <<Head(u)>> \in Seq(S)
  BY <1>1, AppendIsConcat
<1>3. (s \o <<Head(u)>>) \o Tail(u) = s \o (<<Head(u)>> \o Tail(u))
  BY <1>1, <1>2, ConcatAssociative
<1>4. Append(s, Head(u)) \in Seq(S)
  BY <1>1
<1>5. QED
  BY <1>1, <1>2, <1>3, <1>4, Zenon

LEMMA Associative ==
  ASSUME NEW S
  PROVE  \A a \in Seq(S) : \A b \in Seq(S) : \A c \in Seq(S) :
           (a \o b) \o c = a \o (b \o c) /\ b \o c \in Seq(S)
<1> SUFFICES ASSUME NEW a \in Seq(S), NEW b \in Seq(S), NEW c \in Seq(S)
             PROVE  (a \o b) \o c = a \o (b \o c) /\ b \o c \in Seq(S)
  OBVIOUS
<1>1. (a \o b) \o c = a \o (b \o c)
  BY ConcatAssociative
<1>2. b \o c \in Seq(S)
  OBVIOUS
<1>3. QED
  BY <1>1, <1>2, Zenon

LEMMA StreamBack ==
  ASSUME NEW S, NEW s \in Seq(S), NEW u \in Seq(S), s # <<>>
  PROVE  /\ Front(s) \in Seq(S) /\ Cons(Last(s), u) \in Seq(S)
         /\ Front(s) \o Cons(Last(s), u) = s \o u
<1>1. Front(s) \in Seq(S) /\ Last(s) \in S /\ Append(Front(s), Last(s)) = s
  <2>1. PICK t \in Seq(S), e \in S : s = Append(t, e)
    BY SequenceEmptyOrAppend
  <2>2. Len(s) = Len(t) + 1 /\ s[Len(s)] = e
    BY <2>1
  <2>3. Front(s) = SubSeq(s, 1, Len(t))
    BY <2>2 DEF Front
  <2>4. SubSeq(Append(t, e), 1, Len(t)) = t
    OBVIOUS
  <2>5. Front(s) = t
    BY <2>1, <2>3, <2>4
  <2>6. QED
    BY <2>1, <2>2, <2>5 DEF Last
<1>2. Append(Front(s), Last(s)) = Front(s) \o <<Last(s)>> /\ <<Last(s)>> \in Seq(S)
  BY <1>1, AppendIsConcat
<1>3. (Front(s) \o <<Last(s)>>) \o u = Front(s) \o (<<Last(s)>> \o u)
  <2>1. Front(s) \in Seq(S) /\ <<Last(s)>> \in Seq(S)
    BY <1>1, <1>2, Zenon
  <2>2. QED
    BY <2>1, Associative
<1>4. <<Last(s)>> \o u \in Seq(S)
  BY <1>2
<1>5. QED
  BY <1>1, <1>2, <1>3, <1>4, Zenon DEF Cons

\* Every read leaves the stream as it was.
LEMMA ReadsKeepStream ==
  ASSUME read \in Seq(Pieces), buffer \in Seq(Pieces), ReadEvent
  PROVE  /\ read' \in Seq(Pieces) /\ buffer' \in Seq(Pieces) /\ Stream' = Stream
<1>1. CASE Take /\ read' = Took
  <2>1. buffer # <<>> /\ buffer' = Tail(buffer) /\ read' = Append(read, Head(buffer))
    BY <1>1 DEF Take, Took
  <2>2. QED
    BY <2>1, StreamTake DEF Stream
<1>2. CASE UNCHANGED <<buffer, read>>
  BY <1>2 DEF Stream
<1>3. CASE read # <<>> /\ Unread
  <2>1. buffer' = Cons(Last(read), buffer) /\ read' = Front(read)
    BY <1>3 DEF Unread
  <2>2. read # <<>>
    BY <1>3
  <2>3. /\ Front(read) \in Seq(Pieces) /\ Cons(Last(read), buffer) \in Seq(Pieces)
        /\ Front(read) \o Cons(Last(read), buffer) = read \o buffer
    BY <2>2, StreamBack
  <2>4. QED
    BY <2>1, <2>3, Zenon DEF Stream
<1>4. QED
  <2>1. ReadNothing => UNCHANGED <<buffer, read>> \/ (read # <<>> /\ Unread)
    BY Zenon DEF ReadNothing
  <2>2. ReadFirst \/ ReadSecond \/ ReadThird \/ ReadReport \/ ReadSequence => Take /\ read' = Took
    BY DEF ReadFirst, ReadSecond, ReadThird, ReadReport, ReadSequence, ReadOn, Returns
  <2>3. QED
    BY <1>1, <1>2, <1>3, <2>1, <2>2 DEF ReadEvent

LEMMA StreamParts ==
  ASSUME NEW S, NEW s \in Seq(S), NEW u \in Seq(S)
  PROVE  /\ s \o u \in Seq(S) /\ Len(s \o u) = Len(s) + Len(u)
         /\ Len(s) \in Nat /\ Len(u) \in Nat
         /\ \A i \in 1..Len(s) : (s \o u)[i] = s[i]
         /\ \A i \in 1..Len(u) : (s \o u)[Len(s) + i] = u[i]
<1>1. s \o u \in Seq(S) /\ Len(s \o u) = Len(s) + Len(u) /\ Len(s) \in Nat /\ Len(u) \in Nat
  OBVIOUS
<1>2. \A i \in 1..(Len(s) + Len(u)) : (s \o u)[i] = IF i <= Len(s) THEN s[i] ELSE u[i - Len(s)]
  BY ConcatProperties
<1> DEFINE w == s \o u
           n == Len(s)
           k == Len(u)
<1>3. n \in Nat /\ k \in Nat /\ \A i \in 1..(n + k) : w[i] = IF i <= n THEN s[i] ELSE u[i - n]
  BY <1>1, <1>2
<1> HIDE DEF w, n, k
<1>4. (\A i \in 1..n : w[i] = s[i]) /\ (\A i \in 1..k : w[n + i] = u[i])
  BY <1>3
<1>5. QED
  BY <1>1, <1>4 DEF w, n, k

\* The bytes of a message follow each other to its end.
LEMMA MessageChained ==
  ASSUME NEW m \in Messages, NEW w, w = [i \in DOMAIN Bytes(m) |-> Piece(m, i)]
  PROVE  /\ Len(w) = Len(Bytes(m)) /\ Len(w) \in Nat \ {0} /\ w[1].at = 1 /\ Chained(w)
         /\ w[Len(w)].at = Len(w) /\ \A i \in 1..Len(w) : w[i].of = m
<1>1. Len(Bytes(m)) \in Nat \ {0} /\ DOMAIN Bytes(m) = 1..Len(Bytes(m))
  BY FirstByte
<1>2. Len(w) = Len(Bytes(m))
  BY <1>1
<1>3. \A i \in 1..Len(w) : w[i] = Piece(m, i)
  BY <1>1, <1>2
<1>4. \A i \in 1..Len(w) : w[i].of = m /\ w[i].at = i
  BY <1>3 DEF Piece
<1>5. Len(w) \in Nat \ {0}
  BY <1>1, <1>2
<1>6. Chained(w)
  <2>1. ASSUME NEW i \in 1..(Len(w) - 1) PROVE Follows(w[i], w[i + 1])
    <3>1. i \in 1..Len(w) /\ i + 1 \in 1..Len(w) /\ i < Len(w)
      BY <1>5
    <3>2. QED
      BY <1>2, <1>4, <3>1 DEF Follows
  <2>2. QED
    BY <2>1 DEF Chained
<1>7. QED
  BY <1>2, <1>4, <1>5, <1>6

\* What is written comes behind what is there.
LEMMA ChainedBehind ==
  ASSUME NEW s \in Seq(Pieces), NEW w \in Seq(Pieces), NEW keys,
         Chained(s), Complete(s), Said(s, keys),
         Chained(w), Complete(w), Said(w, keys), w # <<>>, w[1].at = 1
  PROVE  Chained(s \o w) /\ Complete(s \o w) /\ Said(s \o w, keys)
<1> DEFINE t == s \o w
           n == Len(s)
           k == Len(w)
<1>1. /\ t \in Seq(Pieces) /\ Len(t) = n + k /\ n \in Nat /\ k \in Nat
      /\ (\A i \in 1..n : t[i] = s[i]) /\ \A i \in 1..k : t[n + i] = w[i]
  BY StreamParts
<1>2. k > 0
  OBVIOUS
<1>3. \A i \in 1..(n - 1) : Follows(s[i], s[i + 1])
  BY DEF Chained
<1>4. \A i \in 1..(k - 1) : Follows(w[i], w[i + 1])
  BY DEF Chained
<1>5. n > 0 => s[n].at = Len(Bytes(s[n].of))
  BY DEF Complete
<1>6. w[k].at = Len(Bytes(w[k].of))
  BY <1>2 DEF Complete
<1>7. (\A i \in 1..n : s[i].of \in keys) /\ \A i \in 1..k : w[i].of \in keys
  BY DEF Said
<1>8. n > 0 => s[n] \in Pieces
  BY <1>1
<1> HIDE DEF t, n, k
<1>9. ASSUME NEW i \in 1..(n + k) PROVE i \in 1..n \/ (i - n \in 1..k /\ t[i] = w[i - n])
  <2>1. i \in 1..n \/ i - n \in 1..k
    BY <1>1
  <2>2. i - n \in 1..k => t[n + (i - n)] = w[i - n]
    BY <1>1
  <2>3. n + (i - n) = i
    BY <1>1
  <2>4. QED
    BY <2>1, <2>2, <2>3
<1>10. ASSUME NEW i \in 1..(n + k - 1) PROVE Follows(t[i], t[i + 1])
  <2>1. CASE i < n
    <3>1. i \in 1..n /\ i + 1 \in 1..n /\ i \in 1..(n - 1)
      BY <1>1, <2>1
    <3>2. t[i] = s[i] /\ t[i + 1] = s[i + 1]
      BY <1>1, <3>1
    <3>3. QED
      BY <1>3, <3>1, <3>2
  <2>2. CASE i = n
    <3>1. t[i] = s[n] /\ t[i + 1] = w[1]
      BY <1>1, <1>2, <2>2
    <3>2. Len(Bytes(s[n].of)) \in Nat
      BY <1>8, <2>2, <1>1, PieceIs, FirstByte
    <3>3. QED
      BY <1>1, <1>5, <2>2, <3>1, <3>2 DEF Follows
  <2>3. CASE i > n
    <3>1. i - n \in 1..(k - 1) /\ n + (i - n) = i /\ n + (i - n + 1) = i + 1
      BY <1>1, <2>3
    <3>2. i - n \in 1..k /\ i - n + 1 \in 1..k
      BY <1>1, <3>1
    <3>3. t[i] = w[i - n] /\ t[i + 1] = w[i - n + 1]
      BY <1>1, <3>1, <3>2
    <3>4. QED
      BY <1>4, <3>1, <3>3
  <2>4. QED
    BY <1>1, <2>1, <2>2, <2>3
<1>11. Chained(t)
  BY <1>1, <1>10 DEF Chained
<1>12. Complete(t)
  BY <1>1, <1>2, <1>6 DEF Complete
<1>13. Said(t, keys)
  BY <1>1, <1>7, <1>9 DEF Said
<1>14. QED
  BY <1>11, <1>12, <1>13 DEF t

\* The end of a chained sequence is one.
LEMMA ChainedEnd ==
  ASSUME NEW s \in Seq(Pieces), NEW w \in Seq(Pieces), NEW keys,
         Chained(s \o w), Complete(s \o w), Said(s \o w, keys)
  PROVE  Chained(w) /\ Complete(w) /\ Said(w, keys)
<1> DEFINE t == s \o w
           n == Len(s)
           k == Len(w)
<1>1. /\ t \in Seq(Pieces) /\ Len(t) = n + k /\ n \in Nat /\ k \in Nat
      /\ \A i \in 1..k : t[n + i] = w[i]
  BY StreamParts
<1>2. \A i \in 1..(Len(t) - 1) : Follows(t[i], t[i + 1])
  BY DEF Chained
<1>3. t # <<>> => t[Len(t)].at = Len(Bytes(t[Len(t)].of))
  BY Zenon DEF Complete
<1>4. \A i \in 1..Len(t) : t[i].of \in keys
  BY DEF Said
<1> HIDE DEF t, n, k
<1>5. ASSUME NEW i \in 1..(k - 1) PROVE Follows(w[i], w[i + 1])
  <2>1. n + i \in 1..(Len(t) - 1) /\ n + i + 1 = n + (i + 1) /\ i \in 1..k /\ i + 1 \in 1..k
    BY <1>1
  <2>2. QED
    BY <1>1, <1>2, <2>1
<1>6. w # <<>> => k \in 1..k /\ w[k].at = Len(Bytes(w[k].of))
  <2>1. w # <<>> => k > 0
    BY DEF k
  <2>2. k > 0 => t # <<>> /\ Len(t) = n + k /\ k \in 1..k
    BY <1>1
  <2>3. QED
    BY <1>1, <1>3, <2>1, <2>2
<1>7. ASSUME NEW i \in 1..k PROVE w[i].of \in keys
  <2>1. n + i \in 1..Len(t)
    BY <1>1
  <2>2. QED
    BY <1>1, <1>4, <2>1
<1>8. QED
  BY <1>5, <1>6, <1>7 DEF Chained, Complete, Said, k

\* So is its beginning, as far as the order goes.
LEMMA ChainedBeginning ==
  ASSUME NEW s \in Seq(Pieces), NEW w \in Seq(Pieces), NEW keys, Chained(s \o w), Said(s \o w, keys)
  PROVE  Chained(s) /\ Said(s, keys)
<1> DEFINE t == s \o w
           n == Len(s)
           k == Len(w)
<1>1. /\ t \in Seq(Pieces) /\ Len(t) = n + k /\ n \in Nat /\ k \in Nat
      /\ \A i \in 1..n : t[i] = s[i]
  BY StreamParts
<1>2. \A i \in 1..(Len(t) - 1) : Follows(t[i], t[i + 1])
  BY DEF Chained
<1>3. \A i \in 1..Len(t) : t[i].of \in keys
  BY DEF Said
<1> HIDE DEF t, n, k
<1>4. ASSUME NEW i \in 1..(n - 1) PROVE Follows(s[i], s[i + 1])
  <2>1. i \in 1..(Len(t) - 1) /\ i \in 1..n /\ i + 1 \in 1..n
    BY <1>1
  <2>2. t[i] = s[i] /\ t[i + 1] = s[i + 1]
    BY <1>1, <2>1
  <2>3. QED
    BY <1>2, <2>1, <2>2
<1>5. ASSUME NEW i \in 1..n PROVE s[i].of \in keys
  <2>1. i \in 1..Len(t)
    BY <1>1
  <2>2. QED
    BY <1>1, <1>3, <2>1
<1>6. QED
  BY <1>4, <1>5 DEF Chained, Said, n

LEMMA StreamInit == KeyboardInit => StreamInv
<1> SUFFICES ASSUME KeyboardInit PROVE StreamInv
  OBVIOUS
<1>1. session \in Sessions /\ buffer = <<>> /\ read = <<>>
  BY DEF KeyboardInit, InputInit
<1>2. <<>> \in Seq(Pieces)
  OBVIOUS
<1>3. Stream = <<>>
  BY <1>1, <1>2, ConcatEmptySeq DEF Stream
<1>4. Len(Stream) = 0
  BY <1>3
<1> HIDE DEF Stream
<1>5. QED
  BY <1>1, <1>2, <1>3, <1>4 DEF StreamInv, Chained, Complete, Said

\* Messages are written behind the stream, and nothing else changes it but a
\* handled event.
LEMMA WritesKeepStream ==
  ASSUME StreamInv, NEW m \in session, TerminalWrites(m)
  PROVE  /\ StreamInv' /\ read' = read
         /\ \E w \in Seq(Pieces) : Stream' = Stream \o w /\ w # <<>> /\ w[1].at = 1
<1> DEFINE w == [i \in DOMAIN Bytes(m) |-> Piece(m, i)]
<1>1. session \in Sessions /\ read \in Seq(Pieces) /\ buffer \in Seq(Pieces)
  BY DEF StreamInv
<1>2. m \in Messages
  BY <1>1, ParserAssumption
<1>3. w \in Seq(Pieces)
  BY <1>2, MessageBytes
<1>4. /\ Len(w) = Len(Bytes(m)) /\ Len(w) \in Nat \ {0} /\ w[1].at = 1 /\ Chained(w)
      /\ w[Len(w)].at = Len(w) /\ \A i \in 1..Len(w) : w[i].of = m
  BY <1>2, MessageChained
<1>5. buffer' = buffer \o w /\ session' = session /\ read' = read
  BY Zenon DEF TerminalWrites, Piece
<1> HIDE DEF w
<1>6. w # <<>> /\ Said(w, session) /\ Complete(w)
  BY <1>4 DEF Said, Complete
<1>7. (read \o buffer) \o w = read \o (buffer \o w) /\ buffer \o w \in Seq(Pieces)
  BY <1>1, <1>3, Associative, Zenon
<1>8. Stream' = Stream \o w
  BY <1>5, <1>7, Zenon DEF Stream
<1>9. Stream \in Seq(Pieces)
  BY <1>1, ConcatProperties DEF Stream
<1>10. Chained(Stream \o w) /\ Complete(Stream \o w) /\ Said(Stream \o w, session)
  <2>1. Chained(Stream) /\ Complete(Stream) /\ Said(Stream, session)
    BY DEF StreamInv
  <2> HIDE DEF Stream
  <2>2. QED
    BY <1>3, <1>4, <1>6, <1>9, <2>1, ChainedBehind
<1>11. StreamInv'
  <2>1. Chained(Stream') /\ Complete(Stream') /\ Said(Stream', session')
    BY <1>5, <1>8, <1>10, Zenon
  <2>2. buffer' \in Seq(Pieces)
    BY <1>5, <1>7, Zenon
  <2>3. QED
    BY <1>1, <1>5, <2>1, <2>2, Zenon DEF StreamInv
<1>12. QED
  BY <1>3, <1>4, <1>5, <1>6, <1>8, <1>11, Zenon

LEMMA HandledKeepsStream ==
  ASSUME StreamInv, Handled
  PROVE  StreamInv' /\ Stream' = buffer
<1>1. session \in Sessions /\ read \in Seq(Pieces) /\ buffer \in Seq(Pieces)
  BY DEF StreamInv
<1>2. Chained(buffer) /\ Complete(buffer) /\ Said(buffer, session)
  <2>1. Chained(read \o buffer) /\ Complete(read \o buffer) /\ Said(read \o buffer, session)
    BY Zenon DEF StreamInv, Stream
  <2>2. QED
    BY <1>1, <2>1, ChainedEnd, Zenon
<1>3. read' = <<>> /\ session' = session /\ buffer' = buffer
  BY DEF Handled
<1>4. <<>> \o buffer = buffer /\ <<>> \in Seq(Pieces)
  BY <1>1, ConcatEmptySeq
<1>5. Stream' = buffer
  BY <1>3, <1>4, Zenon DEF Stream
<1>6. QED
  BY <1>1, <1>2, <1>3, <1>4, <1>5, Zenon DEF StreamInv

LEMMA ReadsKeepInv ==
  ASSUME StreamInv, ReadEvent
  PROVE  StreamInv' /\ Stream' = Stream
<1>1. read \in Seq(Pieces) /\ buffer \in Seq(Pieces)
  BY DEF StreamInv
<1>2. session' = session
  BY DEF ReadEvent
<1>3. read' \in Seq(Pieces) /\ buffer' \in Seq(Pieces) /\ Stream' = Stream
  BY <1>1, ReadsKeepStream
<1>4. QED
  BY <1>2, <1>3, Zenon DEF StreamInv

LEMMA StreamKept == StreamInv /\ [KeyboardNext]_keyboardVars => StreamInv'
<1> SUFFICES ASSUME StreamInv, [KeyboardNext]_keyboardVars PROVE StreamInv'
  OBVIOUS
<1>1. ASSUME NEW m \in session, Send(m) PROVE StreamInv'
  BY <1>1, WritesKeepStream DEF Send
<1>2. CASE ReadKey
  BY <1>2, ReadsKeepInv DEF ReadKey
<1>3. CASE Handle
  BY <1>3, HandledKeepsStream DEF Handle
<1>4. CASE UNCHANGED keyboardVars
  BY <1>4, Zenon DEF keyboardVars, input, StreamInv, Stream
<1>5. QED
  BY <1>1, <1>2, <1>3, <1>4 DEF KeyboardNext

LEMMA PrefixOfLonger ==
  ASSUME NEW S, NEW s \in Seq(S), NEW w \in Seq(S)
  PROVE  IsPrefix(s, s) /\ IsPrefix(s, s \o w)
<1>1. IsPrefix(s, s)
  BY DEF IsPrefix
<1> DEFINE t == s \o w
           n == Len(s)
<1>2. /\ t \in Seq(S) /\ Len(t) = n + Len(w) /\ n \in Nat /\ Len(w) \in Nat
      /\ \A i \in 1..n : t[i] = s[i]
  BY StreamParts
<1>3. SubSeq(s, 1, n) = s
  BY SubSeqFull
<1>4. SubSeq(t, 1, n) = s
  <2>0. \A i \in 1..n : t[i] \in S
    BY <1>2, ElementOfSeq
  <2> HIDE DEF t
  <2>1. /\ SubSeq(t, 1, n) \in Seq(S) /\ Len(SubSeq(t, 1, n)) = n
        /\ \A i \in 1..n : SubSeq(t, 1, n)[i] = t[i]
    BY <1>2, <2>0, SubSeqProperties
  <2>2. QED
    BY <1>2, <2>1, SeqEqual
<1> HIDE DEF t
<1>5. Len(s) <= Len(t)
  BY <1>2
<1>6. IsPrefix(s, t)
  BY <1>3, <1>4, <1>5 DEF IsPrefix
<1>7. QED
  BY <1>1, <1>6 DEF t

LEMMA BytesStay ==
  ASSUME StreamInv, [KeyboardNext]_keyboardVars, event = Nothing
  PROVE  IsPrefix(read \o buffer, read' \o buffer')
<1>1. Stream \in Seq(Pieces)
  BY ConcatProperties DEF StreamInv, Stream
<1>2. ASSUME NEW m \in session, Send(m) PROVE IsPrefix(Stream, Stream')
  <2>1. PICK w \in Seq(Pieces) : Stream' = Stream \o w
    BY <1>2, WritesKeepStream, Zenon DEF Send
  <2>2. IsPrefix(Stream, Stream \o w)
    <3> HIDE DEF Stream
    <3>1. QED
      BY <1>1, PrefixOfLonger
  <2>3. QED
    BY <2>1, <2>2, Zenon
<1>3. CASE ReadKey
  <2>1. Stream' = Stream
    BY <1>3, ReadsKeepInv DEF ReadKey
  <2>2. IsPrefix(Stream, Stream)
    <3> HIDE DEF Stream
    <3>1. QED
      BY <1>1, PrefixOfLonger
  <2>3. QED
    BY <2>1, <2>2, Zenon DEF Stream
<1>4. CASE Handle
  BY <1>4 DEF Handle
<1>5. CASE UNCHANGED keyboardVars
  <2>1. Stream' = Stream
    BY <1>5, Zenon DEF keyboardVars, input, Stream
  <2>2. IsPrefix(Stream, Stream)
    <3> HIDE DEF Stream
    <3>1. QED
      BY <1>1, PrefixOfLonger
  <2>3. QED
    BY <2>1, <2>2, Zenon DEF Stream
<1>6. QED
  <2>1. IsPrefix(Stream, Stream')
    <3> HIDE DEF Stream
    <3>1. QED
      BY <1>2, <1>3, <1>4, <1>5 DEF KeyboardNext, Stream
  <2>2. QED
    BY <2>1, Zenon DEF Stream

-----------------------------------------------------------------------------
(***************************************************************************)
(* Which message a call reads.                                             *)
(***************************************************************************)

\* A piece at the beginning of a message that is not Esc is the whole message.
LEMMA BeginningIsOne ==
  ASSUME NEW p \in Pieces, p.at = 1, p.byte # "Esc"
  PROVE  p.of \notin Several /\ Len(Bytes(p.of)) = 1 /\ (p.of = p.byte \/ (p.of = "Return" /\ p.byte = "CR"))
BY PieceIs, FirstByte

\* Esc is the first byte of all the others, and of nothing but messages.
LEMMA EscBegins ==
  ASSUME NEW p \in Pieces, p.byte = "Esc"
  PROVE  p.at = 1 /\ (p.of = "Esc" \/ p.of \in Several)
<1>1. p.of \in Messages /\ p.at \in 1..Len(Bytes(p.of)) /\ p.byte = Bytes(p.of)[p.at]
  BY PieceIs
<1>2. CASE p.of \notin Several
  <2>1. Len(Bytes(p.of)) = 1 /\ Bytes(p.of)[1] = IF p.of = "Return" THEN "CR" ELSE p.of
    BY <1>1, <1>2, FirstByte
  <2>2. p.at = 1
    BY <1>1, <2>1
  <2>3. QED
    BY <1>1, <2>1, <2>2
<1>3. CASE p.of \in Several
  <2>1. p.of \in ShortNames \cup LongNames \cup Reports
    BY <1>3, SeveralAre
  <2>2. ASSUME p.at # 1, p.of \in ShortNames PROVE FALSE
    <3>1. p.at \in 2..3
      BY <1>1, <2>2, BytesOfShort
    <3>2. QED
      BY <1>1, <2>2, <3>1, BytesOfShort
  <2>3. ASSUME p.at # 1, p.of \in LongNames PROVE FALSE
    <3>1. p.at \in {2, 3, 4, 5}
      <4>1. p.at \in 1..5
        BY <1>1, <2>3, BytesOfLong
      <4>2. QED
        BY <2>3, <4>1
    <3>2. "Esc" \notin DOMAIN Digit
      BY DigitsAre
    <3>3. QED
      BY <1>1, <2>3, <3>1, <3>2, BytesOfLong
  <2>4. ASSUME p.at # 1, p.of \in Reports PROVE FALSE
    <3>1. p.at \in {2, 3, 4, 5, 6, 7, 8, 9}
      <4>1. p.at \in 1..9
        BY <1>1, <2>4, BytesOfReport
      <4>2. QED
        BY <2>4, <4>1
    <3> DEFINE t == Bytes(p.of)
    <3>2. /\ t[2] = "[" /\ t[3] = "<" /\ t[4] \in {"0", "2"}
          /\ t[5] = ";" /\ t[6] = "2" /\ t[7] = ";" /\ t[8] = "9" /\ t[9] \in {"M", "m"}
      BY <2>4, BytesOfReport
    <3>3. p.byte = t[p.at]
      BY <1>1
    <3> HIDE DEF t
    <3>4. t[p.at] # "Esc"
      BY <3>1, <3>2
    <3>5. QED
      BY <3>3, <3>4
  <2>5. QED
    BY <1>3, <2>1, <2>2, <2>3, <2>4
<1>4. QED
  BY <1>2, <1>3

\* Reading that begins at the beginning of a message goes on with it.
LEMMA ReadingIsMessage ==
  ASSUME NEW r \in Seq(Pieces), Chained(r), r # <<>>, r[1].at = 1
  PROVE  \A i \in 1..Len(r) : i <= Len(Bytes(r[1].of)) => r[i].of = r[1].of /\ r[i].at = i
<1> DEFINE n == Len(r)
           last == Len(Bytes(r[1].of))
           H == {i \in 1..n : i <= last /\ ~(r[i].of = r[1].of /\ r[i].at = i)}
<1>1. n \in Nat /\ n > 0 /\ r[1] \in Pieces
  OBVIOUS
<1>2. last \in Nat
  <2>1. r[1].of \in Messages
    BY <1>1, PieceIs
  <2>2. QED
    BY <2>1, FirstByte
<1>3. SUFFICES ASSUME H # {} PROVE FALSE
  OBVIOUS
<1>4. PICK m \in H : \A k \in H : m <= k
  <2>1. H \subseteq 1..n
    OBVIOUS
  <2> HIDE DEF H
  <2>2. QED
    BY <1>1, <1>3, <2>1, LeastNumber
<1>5. m \in 1..n /\ m <= last /\ ~(r[m].of = r[1].of /\ r[m].at = m)
  BY <1>4
<1>6. m # 1
  BY <1>5
<1>7. m - 1 \in 1..(n - 1) /\ m - 1 \in 1..n /\ m - 1 < last /\ m - 1 + 1 = m /\ ~(m <= m - 1)
  BY <1>1, <1>2, <1>5, <1>6
<1>8. m - 1 \notin H
  BY <1>4, <1>7
<1>9. r[m - 1].of = r[1].of /\ r[m - 1].at = m - 1
  BY <1>7, <1>8
<1>10. Follows(r[m - 1], r[m - 1 + 1])
  BY <1>7 DEF Chained
<1> HIDE DEF H, n
<1>11. r[m].of = r[1].of /\ r[m].at = m
  BY <1>7, <1>9, <1>10 DEF Follows
<1>12. QED
  BY <1>5, <1>11

\* Esc that was pressed is followed by messages of their own: typed one by one
\* behind it, no two keys spell a sequence that the parser knows.
LEMMA PressedEsc ==
  ASSUME NEW keys \in Sessions, NEW r \in Seq(Pieces), Chained(r), Said(r, keys),
         Len(r) > 2, r[1].of = "Esc", r[2].byte \in {"O", "["}
  PROVE  /\ r[2].byte = "O" => r[3].byte \notin {"P", "Q", "R", "S"}
         /\ r[2].byte = "[" => r[3].byte \notin {"Z", "<"}
         /\ ~(Len(r) > 4 /\ r[2].byte = "[" /\ r[3].byte \in DOMAIN Digit /\ r[4].byte \in DOMAIN Digit
                /\ r[5].byte = "~")
<1> DEFINE n == Len(r)
<1>1. n \in Nat /\ n > 2 /\ 1 \in 1..n /\ 2 \in 1..n /\ 3 \in 1..n /\ 1 \in 1..(n - 1) /\ 2 \in 1..(n - 1)
  OBVIOUS
<1>2. \A i \in 1..n : r[i] \in Pieces /\ r[i].of \in keys
  BY DEF Said
<1>3. \A i \in 1..(n - 1) : Follows(r[i], r[i + 1])
  BY DEF Chained
<1> HIDE DEF n
<1>4. "Esc" \notin DOMAIN Digit
  BY DigitsAre
<1>5. Len(Bytes(r[1].of)) = 1
  <2>1. r[1].of \in Plain
    BY DEF Plain
  <2>2. QED
    BY <2>1, BytesOfOne
<1>6. ASSUME NEW i \in 1..n, r[i].at = 1, r[i].byte \notin {"Esc", "CR"}
      PROVE  r[i].byte \in keys /\ (i + 1 \in 1..n => r[i + 1].at = 1)
  <2>1. r[i].of = r[i].byte /\ Len(Bytes(r[i].of)) = 1
    BY <1>2, <1>6, BeginningIsOne
  <2>2. i + 1 \in 1..n => i \in 1..(n - 1)
    BY <1>1
  <2>3. i + 1 \in 1..n => Follows(r[i], r[i + 1])
    BY <1>3, <2>2
  <2>4. QED
    BY <1>2, <1>6, <2>1, <2>3 DEF Follows
<1>7. "Esc" \in keys
  BY <1>1, <1>2
<1>8. r[2].at = 1
  <2>1. Follows(r[1], r[1 + 1]) /\ 1 + 1 = 2
    BY <1>1, <1>3
  <2>2. r[1].at = 1
    BY <1>1, <1>2, <1>5, PieceIs
  <2>3. QED
    <3>1. ~(1 < 1)
      OBVIOUS
    <3>2. QED
      BY <1>5, <2>1, <2>2, <3>1, Zenon DEF Follows
<1>9. r[2].byte \in keys /\ r[3].at = 1
  <2>1. 2 + 1 = 3
    OBVIOUS
  <2>2. QED
    BY <1>1, <1>6, <1>8, <2>1
<1>10. ASSUME NEW sequence \in Spelled, sequence \subseteq keys PROVE FALSE
  BY <1>7, <1>10, TypingAssumption
<1>11. \A b \in keys, c \in keys : {b, c} \in Spelled => FALSE
  BY <1>10
<1>12. r[3].byte \in {"P", "Q", "R", "S", "Z", "<"} \cup DOMAIN Digit => r[3].byte \in keys
  BY <1>1, <1>4, <1>6, <1>9, DigitsAre
<1>13. ASSUME n > 4, r[2].byte = "[", r[3].byte \in DOMAIN Digit, r[4].byte \in DOMAIN Digit, r[5].byte = "~"
       PROVE FALSE
  <2>1. 4 \in 1..n /\ 5 \in 1..n /\ 3 + 1 = 4 /\ 4 + 1 = 5 /\ 3 \in 1..n
    BY <1>1, <1>13
  <2>2. "CR" \notin DOMAIN Digit
    BY DigitsAre
  <2>3. r[4].at = 1
    BY <1>4, <1>6, <1>9, <1>13, <2>1, <2>2
  <2>4. r[5].at = 1
    BY <1>4, <1>6, <1>13, <2>1, <2>2, <2>3
  <2>5. r[5].byte \in keys
    BY <1>6, <1>13, <2>1, <2>4
  <2>6. QED
    BY <1>9, <1>11, <1>13, <2>5 DEF Spelled
<1>14. QED
  BY <1>9, <1>11, <1>12, <1>13 DEF Spelled, n

-----------------------------------------------------------------------------
(***************************************************************************)
(* What the parser makes of the bytes.                                     *)
(***************************************************************************)

LEMMA DecidedEsc ==
  ASSUME NEW b, NEW c,
         b = "O" => c \notin {"P", "Q", "R", "S"}, b = "[" => c # "Z"
  PROVE  Decided(b, c) = KeyEvent("Esc")
BY ShortKeysAre DEF Decided

LEMMA SequencedKnown ==
  ASSUME NEW i \in 1..10 PROVE Sequenced(LongKeys[i][2]) = KeyEvent(LongKeys[i][1])
<1>1. 1..10 = {1, 2, 3, 4, 5, 6, 7, 8, 9, 10}
  OBVIOUS
<1>2. \A j \in DOMAIN LongKeys : LongKeys[j][2] = LongKeys[i][2] => j = i
  BY <1>1, LongKeysAre
<1>3. (CHOOSE j \in DOMAIN LongKeys : LongKeys[j][2] = LongKeys[i][2]) = i
  BY <1>2, LongKeysAre
<1>4. \E j \in DOMAIN LongKeys : LongKeys[j][2] = LongKeys[i][2]
  BY LongKeysAre
<1>5. QED
  BY <1>3, <1>4 DEF Sequenced

LEMMA SequencedOther ==
  ASSUME NEW s, Sequenced(s) # KeyEvent("Esc")
  PROVE  Len(s) = 3 /\ s[1] \in DOMAIN Digit /\ s[2] \in DOMAIN Digit /\ s[3] = "~"
<1>1. PICK i \in DOMAIN LongKeys : LongKeys[i][2] = s
  BY DEF Sequenced
<1>2. i \in {1, 2, 3, 4, 5, 6, 7, 8, 9, 10}
  <2>1. 1..10 = {1, 2, 3, 4, 5, 6, 7, 8, 9, 10}
    OBVIOUS
  <2>2. QED
    BY <2>1, LongKeysAre
<1>3. \E a, b \in {"0", "1", "2", "3", "4", "5", "7", "8", "9"} : s = <<a, b, "~">>
  BY <1>1, <1>2, LongKeysAre
<1>4. QED
  BY <1>3, DigitsAre

\* The text of a report of a button at column 2 and line 9.
LEMMA ScannedReport ==
  ASSUME NEW b \in {"0", "2"}
  PROVE  Scanned(<<b, ";", "2", ";", "9">>) = {[button |-> Digit[b], x |-> 2, y |-> 9]}
<1> DEFINE s == <<b, ";", "2", ";", "9">>
<1>1. s[1] = b /\ s[2] = ";" /\ s[3] = "2" /\ s[4] = ";" /\ s[5] = "9"
  OBVIOUS
<1>10. Len(s) = 5
  OBVIOUS
<1>11. DOMAIN s = {1, 2, 3, 4, 5}
  OBVIOUS
<1> HIDE DEF s
<1>2. SubSeq(s, 1, 1) = <<b>> /\ SubSeq(s, 3, 3) = <<"2">> /\ SubSeq(s, 5, 5) = <<"9">>
  <2>1. ASSUME NEW i \in 1..5 PROVE SubSeq(s, i, i) = <<s[i]>>
    <3> DEFINE S == {s[i]}
    <3>1. SubSeq(s, i, i) \in Seq(S) /\ Len(SubSeq(s, i, i)) = 1 /\ SubSeq(s, i, i)[1] = s[i]
      <4>1. \A j \in i..i : s[j] \in S
        OBVIOUS
      <4>2. i \in Int /\ i - i + 1 = 1 /\ i + 1 - 1 = i
        OBVIOUS
      <4> HIDE DEF S
      <4>3. QED
        BY <4>1, <4>2, SubSeqProperties
    <3>2. \A q \in Seq(S) : Len(q) = 1 => q = <<q[1]>>
      OBVIOUS
    <3> HIDE DEF S
    <3>3. QED
      BY <3>1, <3>2, Zenon
  <2>2. 1 \in 1..5 /\ 3 \in 1..5 /\ 5 \in 1..5
    OBVIOUS
  <2>3. SubSeq(s, 1, 1) = <<s[1]>> /\ SubSeq(s, 3, 3) = <<s[3]>> /\ SubSeq(s, 5, 5) = <<s[5]>>
    BY <2>1, <2>2
  <2>4. QED
    BY <1>1, <2>3
<1>3. /\ Number(<<b>>) = Digit[b] /\ Number(<<"2">>) = 2 /\ Number(<<"9">>) = 9
  BY NumberOfOne, DigitValues
<1>4. /\ AllDigits(<<b>>) /\ AllDigits(<<"2">>) /\ AllDigits(<<"9">>)
  <2>1. \A x : Range(<<x>>) = {x} /\ <<x>> # <<>>
    <3>1. \A x : DOMAIN <<x>> = {1} /\ <<x>>[1] = x
      OBVIOUS
    <3>2. QED
      BY <3>1 DEF Range
  <2>2. QED
    BY <2>1, DigitsAre DEF AllDigits
<1> DEFINE Fits(u) ==
             /\ u[1] < u[2] /\ s[u[1]] = ";" /\ s[u[2]] = ";"
             /\ AllDigits(SubSeq(s, 1, u[1] - 1)) /\ AllDigits(SubSeq(s, u[1] + 1, u[2] - 1))
             /\ AllDigits(SubSeq(s, u[2] + 1, u[3]))
             /\ u[3] = Len(s) \/ s[u[3] + 1] \notin DOMAIN Digit
           Places == {u \in (DOMAIN s) \X (DOMAIN s) \X (DOMAIN s) : Fits(u)}
<1>5. Scanned(s) = {[button |-> Number(SubSeq(s, 1, t[1] - 1)), x |-> Number(SubSeq(s, t[1] + 1, t[2] - 1)),
                     y |-> Number(SubSeq(s, t[2] + 1, t[3]))] : t \in Places}
  BY DEF Scanned
<1>6. Places # {}
  <2> DEFINE u == <<2, 4, 5>>
  <2>1. u[1] = 2 /\ u[2] = 4 /\ u[3] = 5 /\ u \in (DOMAIN s) \X (DOMAIN s) \X (DOMAIN s)
    BY <1>11
  <2> HIDE DEF u
  <2>2. /\ s[u[1]] = ";" /\ s[u[2]] = ";" /\ SubSeq(s, 1, u[1] - 1) = <<b>>
        /\ SubSeq(s, u[1] + 1, u[2] - 1) = <<"2">> /\ SubSeq(s, u[2] + 1, u[3]) = <<"9">>
    <3>1. u[1] - 1 = 1 /\ u[1] + 1 = 3 /\ u[2] - 1 = 3 /\ u[2] + 1 = 5
      BY <2>1
    <3>2. QED
      BY <1>1, <1>2, <2>1, <3>1, Zenon
  <2>3. u[1] < u[2] /\ u[3] = Len(s)
    BY <1>10, <2>1
  <2>4. Fits(u)
    BY <1>4, <2>2, <2>3
  <2>5. QED
    BY <2>1, <2>4
<1>7. ASSUME NEW t \in Places PROVE t[1] = 2 /\ t[2] = 4 /\ t[3] = 5
  <2>1. t[1] \in DOMAIN s /\ t[2] \in DOMAIN s /\ t[3] \in DOMAIN s /\ Fits(t)
    OBVIOUS
  <2>2. t[1] < t[2] /\ s[t[1]] = ";" /\ s[t[2]] = ";" /\ AllDigits(SubSeq(s, t[2] + 1, t[3]))
    BY <2>1, Zenon
  <2>3. t[1] \in {1, 2, 3, 4, 5} /\ t[2] \in {1, 2, 3, 4, 5} /\ t[3] \in {1, 2, 3, 4, 5}
    BY <1>11, <2>1, Zenon
  <2> DEFINE i == t[1]
             j == t[2]
             k == t[3]
  <2>4. /\ i < j /\ s[i] = ";" /\ s[j] = ";" /\ AllDigits(SubSeq(s, j + 1, k))
        /\ i \in {1, 2, 3, 4, 5} /\ j \in {1, 2, 3, 4, 5} /\ k \in {1, 2, 3, 4, 5}
    BY <2>2, <2>3, Zenon
  <2> HIDE DEF i, j, k, Places, Fits
  <2>5. i \in {2, 4} /\ j \in {2, 4}
    BY <1>1, <2>4
  <2>6. i = 2 /\ j = 4
    <3>1. ~(2 < 2) /\ ~(4 < 2) /\ ~(4 < 4)
      OBVIOUS
    <3>2. QED
      BY <2>4, <2>5, <3>1, Zenon
  <2>7. k = 5 \/ (k < 5 /\ SubSeq(s, 5, k) = <<>>)
    <3>1. \A n \in {1, 2, 3, 4, 5} : n \in Int /\ 5 \in Int /\ (n = 5 \/ n < 5)
      OBVIOUS
    <3>2. k \in Int /\ 5 \in Int /\ (k = 5 \/ k < 5)
      BY <2>4, <3>1, Zenon
    <3>3. QED
      BY <3>2, SubSeqEmpty
  <2>8. 4 + 1 = 5
    OBVIOUS
  <2>9. SubSeq(s, j + 1, k) # <<>>
    BY <2>4 DEF AllDigits
  <2>10. QED
    BY <2>6, <2>7, <2>8, <2>9, Zenon DEF i, j, k
<1> HIDE DEF Places
<1>8. \A t \in Places :
        [button |-> Number(SubSeq(s, 1, t[1] - 1)), x |-> Number(SubSeq(s, t[1] + 1, t[2] - 1)),
         y |-> Number(SubSeq(s, t[2] + 1, t[3]))] = [button |-> Digit[b], x |-> 2, y |-> 9]
  <2> SUFFICES ASSUME NEW t \in Places
               PROVE  /\ Number(SubSeq(s, 1, t[1] - 1)) = Digit[b]
                      /\ Number(SubSeq(s, t[1] + 1, t[2] - 1)) = 2
                      /\ Number(SubSeq(s, t[2] + 1, t[3])) = 9
    OBVIOUS
  <2>1. t[1] - 1 = 1 /\ t[1] + 1 = 3 /\ t[2] - 1 = 3 /\ t[2] + 1 = 5 /\ t[3] = 5
    BY <1>7
  <2>2. QED
    BY <1>2, <1>3, <2>1, Zenon
<1>9. QED
  BY <1>5, <1>6, <1>8 DEF s

LEMMA MeaningIs ==
  /\ \A m \in Plain \cup ShortNames \cup LongNames : Meaning(m) = KeyEvent(m)
  /\ Meaning("Return") = KeyEvent("CR")
  /\ \A m \in Reports : Meaning(m) = Mouse(1, 8, m = "Release")
<1>1. \A m : m \notin Reports \cup {"Return"} => Meaning(m) = KeyEvent(m)
  BY DEF Meaning, Reports
<1>2. \A m \in Plain \cup ShortNames \cup LongNames : m \notin Reports \cup {"Return"}
  BY DigitsAre DEF Plain, ShortNames, LongNames, Reports
<1>3. Meaning("Return") = KeyEvent("CR")
  BY DEF Meaning
<1>4. \A m \in Reports : Meaning(m) = Mouse(1, 8, m = "Release")
  BY DEF Meaning, Reports
<1>5. QED
  BY <1>1, <1>2, <1>3, <1>4

LEMMA DigitsNotMessages == Plain \cap Several = {} /\ "Return" \notin Several /\ "Esc" \in Plain
BY DEF Several, Plain

LEMMA ReportedReport ==
  ASSUME NEW m \in Reports
  PROVE  Reported(<<Bytes(m)[4], ";", "2", ";", "9">>, Bytes(m)[9]) = Meaning(m)
<1> DEFINE b == Bytes(m)[4]
           s == <<b, ";", "2", ";", "9">>
           final == Bytes(m)[9]
           one == [button |-> Digit[b], x |-> 2, y |-> 9]
<1>1. b = (IF m = "RightRelease" THEN "2" ELSE "0") /\ final = (IF m = "Press" THEN "M" ELSE "m")
  BY BytesOfReport
<1>2. b \in {"0", "2"}
  BY <1>1
<1> HIDE DEF b
<1>3. Scanned(s) = {one}
  BY <1>2, ScannedReport
<1>4. final \in {"M", "m"}
  BY <1>1
<1> HIDE DEF s, final
<1>5. (CHOOSE n \in Scanned(s) : TRUE) = one /\ Scanned(s) # {}
  BY <1>3
<1>6. Reported(s, final) = Mouse(FromOne(one.x), FromOne(one.y), final = "m" /\ one.button % 4 = 0)
  <2> HIDE DEF one
  <2>1. QED
    BY <1>4, <1>5 DEF Reported
<1>7. FromOne(one.x) = 1 /\ FromOne(one.y) = 8
  BY DEF FromOne
<1>8. (final = "m" /\ one.button % 4 = 0) <=> m = "Release"
  <2>1. one.button = IF m = "RightRelease" THEN 2 ELSE 0
    BY <1>1, DigitValues
  <2>2. 2 % 4 = 2 /\ 0 % 4 = 0
    OBVIOUS
  <2>3. QED
    BY <1>1, <2>1, <2>2 DEF Reports
<1>9. Mouse(1, 8, final = "m" /\ one.button % 4 = 0) = Mouse(1, 8, m = "Release")
  <2>1. \A p \in BOOLEAN, q \in BOOLEAN : (p <=> q) => p = q
    OBVIOUS
  <2>2. (final = "m" /\ one.button % 4 = 0) \in BOOLEAN /\ (m = "Release") \in BOOLEAN
    BY Zenon
  <2>3. (final = "m" /\ one.button % 4 = 0) = (m = "Release")
    BY <1>8, <2>1, <2>2, Zenon
  <2>4. QED
    BY <2>3, Zenon DEF Mouse
<1>10. QED
  BY <1>6, <1>7, <1>9, MeaningIs, Zenon DEF s, final, b

-----------------------------------------------------------------------------
(***************************************************************************)
(* What a call of read_input_event has read, r, when it goes on, and when  *)
(* it returns e.                                                           *)
(***************************************************************************)

\* r was read of the stream.
Reads(r) ==
  /\ session \in Sessions
  /\ r \in Seq(Pieces) /\ Chained(r) /\ Said(r, session)

LEMMA ReadsOfStream == StreamInv => Reads(read)
<1> SUFFICES ASSUME StreamInv PROVE Reads(read)
  OBVIOUS
<1>1. session \in Sessions /\ read \in Seq(Pieces) /\ buffer \in Seq(Pieces)
  BY DEF StreamInv
<1>2. Chained(read \o buffer) /\ Said(read \o buffer, session)
  BY Zenon DEF StreamInv, Stream
<1>3. Chained(read) /\ Said(read, session)
  BY <1>1, <1>2, ChainedBeginning, Zenon
<1>4. QED
  BY <1>1, <1>3, Zenon DEF Reads

\* Reading of several bytes is a message read to its end.
LEMMA WholeRead ==
  ASSUME NEW r, Reads(r), r # <<>>, r[1].at = 1, r[1].of \in Messages, Len(r) = Len(Bytes(r[1].of))
  PROVE  Whole(r)
<1> DEFINE m == r[1].of
           n == Len(r)
<1>1. r \in Seq(Pieces) /\ Chained(r) /\ n \in Nat
  BY DEF Reads
<1>2. \A i \in 1..n : r[i].of = m /\ r[i].at = i
  BY <1>1, ReadingIsMessage
<1>3. \A i \in 1..n : r[i] \in Pieces
  BY <1>1
<1>4. ASSUME NEW i \in 1..n PROVE r[i].byte = Bytes(m)[i]
  <2>1. r[i].byte = Bytes(r[i].of)[r[i].at]
    BY <1>3, PieceIs
  <2>2. QED
    BY <1>2, <2>1
<1>5. DOMAIN r = 1..n
  BY <1>1
<1>6. Bytes(m) = [i \in 1..n |-> Bytes(m)[i]]
  BY FirstByte
<1> HIDE DEF m, n
<1>7. Text(r) = [i \in 1..n |-> Bytes(m)[i]]
  BY <1>4, <1>5 DEF Text
<1>8. Text(r) = Bytes(m)
  BY <1>6, <1>7
<1>9. QED
  BY <1>8 DEF Whole, m

\* A report is read, not keys that spell one.
LEMMA ReportRead ==
  ASSUME NEW r, Reads(r), Len(r) > 2,
         r[1].byte = "Esc", r[2].byte = "[", r[3].byte = "<"
  PROVE  /\ r[1].of \in Reports /\ r[1].at = 1
         /\ \A i \in 1..Len(r) : i <= 9 => r[i].of = r[1].of /\ r[i].at = i /\ r[i].byte = Bytes(r[1].of)[i]
<1>1. /\ r \in Seq(Pieces) /\ Chained(r) /\ Said(r, session) /\ session \in Sessions
      /\ r # <<>> /\ Len(r) \in Nat
  BY DEF Reads
<1>2. \A i \in 1..Len(r) : r[i] \in Pieces
  BY <1>1
<1>3. 1 \in 1..Len(r) /\ 3 \in 1..Len(r)
  BY <1>1
<1>4. r[1].at = 1 /\ (r[1].of = "Esc" \/ r[1].of \in Several)
  BY <1>2, <1>3, EscBegins
<1>5. r[1].of # "Esc"
  BY <1>1, PressedEsc
<1> DEFINE m == r[1].of
<1>6. m \in Several
  BY <1>4, <1>5
<1>7. \A i \in 1..Len(r) : i <= Len(Bytes(m)) => r[i].of = m /\ r[i].at = i
  BY <1>1, <1>4, ReadingIsMessage
<1> HIDE DEF m
<1>8. m \in ShortNames \cup LongNames \cup Reports
  BY <1>6, SeveralAre
<1>9. Len(Bytes(m)) \in {3, 5, 9}
  BY <1>8, BytesOfShort, BytesOfLong, BytesOfReport
<1>10. 3 <= Len(Bytes(m))
  <2>1. \A k \in {3, 5, 9} : 3 <= k
    OBVIOUS
  <2>2. QED
    BY <1>9, <2>1, Zenon
<1>11. r[3].byte = Bytes(m)[3]
  <2>1. r[3].of = m /\ r[3].at = 3
    BY <1>3, <1>7, <1>10
  <2>2. QED
    BY <1>2, <1>3, <2>1, PieceIs
<1>12. "<" \notin DOMAIN Digit
  BY DigitsAre
<1>13. m \in Reports
  <2>1. m \notin ShortNames
    <3>1. 3 \in 2..3
      OBVIOUS
    <3>2. QED
      BY <1>11, <3>1, BytesOfShort
  <2>2. m \notin LongNames
    BY <1>11, <1>12, BytesOfLong
  <2>3. QED
    BY <1>8, <2>1, <2>2
<1>14. Len(Bytes(m)) = 9
  BY <1>13, BytesOfReport
<1>15. \A i \in 1..Len(r) : i <= 9 => r[i].of = m /\ r[i].at = i
  BY <1>7, <1>14, Zenon
<1>16. \A i \in 1..Len(r) : r[i].byte = Bytes(r[i].of)[r[i].at]
  BY <1>2, PieceIs
<1>17. QED
  BY <1>4, <1>13, <1>15, <1>16, Zenon DEF m

\* A key sequence behind Esc [ is read, or the keys pressed after Esc.
LEMMA SequenceRead ==
  ASSUME NEW r, Reads(r), Len(r) > 2,
         r[1].byte = "Esc", GoesOn(r[2].byte, r[3].byte), r[3].byte # "<"
  PROVE  /\ r[1].at = 1 /\ r[1].of \in {"Esc"} \cup LongNames
         /\ r[1].of \in LongNames =>
              \A i \in 1..Len(r) : i <= 5 => r[i].of = r[1].of /\ r[i].at = i /\ r[i].byte = Bytes(r[1].of)[i]
<1>1. /\ r \in Seq(Pieces) /\ Chained(r) /\ Said(r, session) /\ session \in Sessions
      /\ r # <<>> /\ Len(r) \in Nat
  BY DEF Reads
<1>2. \A i \in 1..Len(r) : r[i] \in Pieces
  BY <1>1
<1>3. 1 \in 1..Len(r) /\ 2 \in 1..Len(r) /\ 3 \in 1..Len(r)
  BY <1>1
<1>4. r[1].at = 1 /\ (r[1].of = "Esc" \/ r[1].of \in Several)
  BY <1>2, <1>3, EscBegins
<1> DEFINE m == r[1].of
<1>5. \A i \in 1..Len(r) : i <= Len(Bytes(m)) => r[i].of = m /\ r[i].at = i
  BY <1>1, <1>4, ReadingIsMessage
<1>6. \A i \in 1..Len(r) : r[i].byte = Bytes(r[i].of)[r[i].at]
  BY <1>2, PieceIs
<1> HIDE DEF m
<1>7. \A i \in 1..Len(r) : i <= Len(Bytes(m)) => r[i].byte = Bytes(m)[i]
  BY <1>5, <1>6, Zenon
<1>8. ASSUME m \in ShortNames PROVE FALSE
  <2>1. 2 <= 3 /\ 3 <= 3
    OBVIOUS
  <2>2. Len(Bytes(m)) = 3 /\ ~GoesOn(Bytes(m)[2], Bytes(m)[3])
    BY <1>8, BytesOfShort
  <2>3. r[2].byte = Bytes(m)[2] /\ r[3].byte = Bytes(m)[3]
    BY <1>3, <1>7, <2>1, <2>2, Zenon
  <2>4. QED
    BY <2>2, <2>3, Zenon
<1>9. ASSUME m \in Reports PROVE FALSE
  <2>1. 3 <= 9
    OBVIOUS
  <2>2. Len(Bytes(m)) = 9 /\ Bytes(m)[3] = "<"
    BY <1>9, BytesOfReport
  <2>3. r[3].byte = Bytes(m)[3]
    BY <1>3, <1>7, <2>1, <2>2, Zenon
  <2>4. QED
    BY <2>2, <2>3, Zenon
<1>10. m \in {"Esc"} \cup LongNames
  BY <1>4, <1>8, <1>9, SeveralAre DEF m
<1>11. ASSUME m \in LongNames, NEW i \in 1..Len(r), i <= 5
       PROVE  r[i].of = m /\ r[i].at = i /\ r[i].byte = Bytes(m)[i]
  <2>1. Len(Bytes(m)) = 5
    BY <1>11, BytesOfLong
  <2>2. QED
    BY <1>5, <1>7, <1>11, <2>1, Zenon
<1>12. QED
  BY <1>4, <1>10, <1>11 DEF m

\* Three bytes are read that begin neither.
LEMMA ThreeRead ==
  ASSUME NEW r, Reads(r), Len(r) = 3, r[1].byte = "Esc", ~GoesOn(r[2].byte, r[3].byte)
  PROVE  \/ r[1].of = "Esc" /\ Decided(r[2].byte, r[3].byte) = KeyEvent("Esc")
         \/ r[1].of \in ShortNames /\ Whole(r) /\ Decided(r[2].byte, r[3].byte) = KeyEvent(r[1].of)
<1>1. r \in Seq(Pieces) /\ Chained(r) /\ Said(r, session) /\ session \in Sessions
  BY DEF Reads
<1>2. \A i \in 1..Len(r) : r[i] \in Pieces
  BY <1>1, ElementOfSeq, Zenon
<1>3. 1 \in 1..Len(r) /\ 2 \in 1..Len(r) /\ 3 \in 1..Len(r) /\ r # <<>>
  <2>1. 1 \in 1..3 /\ 2 \in 1..3 /\ 3 \in 1..3 /\ Len(<<>>) = 0 /\ 0 # 3
    OBVIOUS
  <2>2. QED
    BY <2>1, Zenon
<1>4. r[1].at = 1 /\ (r[1].of = "Esc" \/ r[1].of \in Several)
  BY <1>2, <1>3, EscBegins
<1>5. CASE r[1].of = "Esc"
  <2>1. CASE r[2].byte \in {"O", "["}
    <3>1. Len(r) > 2
      OBVIOUS
    <3>2. /\ r[2].byte = "O" => r[3].byte \notin {"P", "Q", "R", "S"}
          /\ r[2].byte = "[" => r[3].byte \notin {"Z", "<"}
      BY <1>1, <1>5, <2>1, <3>1, PressedEsc
    <3>3. QED
      BY <1>5, <3>2, DecidedEsc
  <2>2. CASE r[2].byte \notin {"O", "["}
    BY <1>5, <2>2, DecidedEsc
  <2>3. QED
    BY <2>1, <2>2
<1>6. CASE r[1].of \in Several
  <2> DEFINE m == r[1].of
  <2>1. \A i \in 1..Len(r) : i <= Len(Bytes(m)) => r[i].of = m /\ r[i].at = i
    BY <1>1, <1>3, <1>4, ReadingIsMessage
  <2>2. \A i \in 1..Len(r) : r[i].byte = Bytes(r[i].of)[r[i].at]
    BY <1>2, PieceIs
  <2>3. m \in ShortNames \cup LongNames \cup Reports
    BY <1>6, SeveralAre
  <2> HIDE DEF m
  <2>4. \A i \in 1..Len(r) : i <= Len(Bytes(m)) => r[i].byte = Bytes(m)[i]
    BY <2>1, <2>2, Zenon
  <2>5. Len(Bytes(m)) \in {3, 5, 9}
    BY <2>3, BytesOfShort, BytesOfLong, BytesOfReport
  <2>6. 2 <= Len(Bytes(m)) /\ 3 <= Len(Bytes(m))
    <3>1. \A k \in {3, 5, 9} : 2 <= k /\ 3 <= k
      OBVIOUS
    <3>2. QED
      BY <2>5, <3>1, Zenon
  <2>7. r[2].byte = Bytes(m)[2] /\ r[3].byte = Bytes(m)[3]
    BY <1>3, <2>4, <2>6, Zenon
  <2>8. m \notin LongNames
    BY <2>7, BytesOfLong DEF GoesOn
  <2>9. m \notin Reports
    BY <2>7, BytesOfReport DEF GoesOn
  <2>10. m \in ShortNames
    BY <2>3, <2>8, <2>9
  <2>11. Len(Bytes(m)) = 3 /\ Decided(Bytes(m)[2], Bytes(m)[3]) = KeyEvent(m)
    BY <2>10, BytesOfShort
  <2>12. m \in Messages /\ Len(r) = Len(Bytes(r[1].of))
    <3>1. Len(r) = Len(Bytes(m))
      BY <2>11
    <3>2. m \in Messages
      BY <1>6 DEF Several, m
    <3>3. QED
      BY <3>1, <3>2 DEF m
  <2>13. Whole(r)
    BY <1>3, <1>4, <2>12, WholeRead DEF m
  <2>14. QED
    BY <2>7, <2>10, <2>11, <2>13, Zenon DEF m
<1>7. QED
  BY <1>4, <1>5, <1>6

\* The sequence that was read is a key only if it is the whole key.
LEMMA SequencedRead ==
  ASSUME NEW r, Reads(r), Len(r) > 2,
         r[1].byte = "Esc", GoesOn(r[2].byte, r[3].byte), r[3].byte # "<",
         Sequenced(SubSeq(Text(r), 3, Len(r))) # KeyEvent("Esc")
  PROVE  Len(r) = 5 /\ r[1].of \in LongNames /\ r[5].byte = "~"
<1> DEFINE s == SubSeq(Text(r), 3, Len(r))
           n == Len(r)
<1>1. r \in Seq(Pieces) /\ n \in Nat /\ n > 2 /\ Chained(r) /\ Said(r, session) /\ session \in Sessions
  BY DEF Reads
<1>2. DOMAIN Text(r) = 1..n /\ \A i \in 1..n : Text(r)[i] = r[i].byte
  BY <1>1 DEF Text
<1>3. Len(s) = n - 2 /\ \A i \in 1..(n - 2) : s[i] = r[i + 2].byte
  <2>1. \A i \in 3..n : Text(r)[i] \in {r[j].byte : j \in 1..n}
    BY <1>1, <1>2
  <2>2. /\ Len(s) = IF 3 <= n THEN n - 3 + 1 ELSE 0
        /\ \A i \in 1..(n - 3 + 1) : s[i] = Text(r)[3 + i - 1]
    <3>1. n \in Int /\ 3 \in Int
      BY <1>1
    <3> HIDE DEF n
    <3>2. QED
      BY <2>1, <3>1, SubSeqProperties DEF n
  <2> HIDE DEF s, n
  <2>3. Len(s) = n - 2 /\ n - 3 + 1 = n - 2
    BY <1>1, <2>2
  <2>4. ASSUME NEW i \in 1..(n - 2) PROVE s[i] = r[i + 2].byte
    <3>1. 3 + i - 1 = i + 2 /\ i + 2 \in 1..n
      BY <1>1
    <3>2. QED
      BY <1>2, <2>2, <2>3, <3>1
  <2>5. QED
    BY <2>3, <2>4
<1>4. Len(s) = 3 /\ s[1] \in DOMAIN Digit /\ s[2] \in DOMAIN Digit /\ s[3] = "~"
  BY SequencedOther
<1> HIDE DEF s
<1>5. n = 5
  <2>1. n - 2 = 3
    BY <1>3, <1>4, Zenon
  <2>2. n \in Nat
    BY <1>1
  <2> HIDE DEF n
  <2>3. QED
    BY <2>1, <2>2
<1>6. r[3].byte \in DOMAIN Digit /\ r[4].byte \in DOMAIN Digit /\ r[5].byte = "~"
  <2>1. 1 \in 1..(n - 2) /\ 2 \in 1..(n - 2) /\ 3 \in 1..(n - 2) /\ 1 + 2 = 3 /\ 2 + 2 = 4 /\ 3 + 2 = 5
    BY <1>5
  <2>2. s[1] = r[3].byte /\ s[2] = r[4].byte /\ s[3] = r[5].byte
    BY <1>3, <2>1
  <2>3. QED
    BY <1>4, <2>2, Zenon
<1>7. r[2].byte = "["
  BY DEF GoesOn
<1>8. r[1].of # "Esc"
  <2>1. Len(r) > 2 /\ Len(r) > 4
    BY <1>5
  <2>2. QED
    BY <1>1, <1>6, <1>7, <2>1, PressedEsc
<1>9. r[1].of \in LongNames
  BY <1>8, SequenceRead
<1>10. QED
  BY <1>5, <1>6, <1>9

-----------------------------------------------------------------------------
(***************************************************************************)
(* The reads of a call, one by one.                                        *)
(***************************************************************************)

\* A call that has read r goes on.
Begun(r) ==
  /\ r # <<>> => r[1].byte = "Esc"
  /\ Len(r) > 2 => GoesOn(r[2].byte, r[3].byte)
  /\ Len(r) > 2 /\ r[3].byte = "<" =>
       Len(r) - 3 < PayloadGuard /\ \A i \in 4..Len(r) : r[i].byte \notin {"M", "m"}
  /\ Len(r) > 2 /\ r[3].byte # "<" =>
       Len(r) - 3 < SequenceGuard /\ \A i \in 4..Len(r) : r[i].byte \notin Letters \cup {"~"}

\* A call that has read r returns e: a byte, the Esc key, nothing for a part of
\* a mouse report, or what a message means that was read to its end.
Usual(r, e) ==
  /\ r # <<>>
  /\ Len(r) <= 3 + PayloadGuard \/ Len(r) <= 3 + SequenceGuard
  /\ \/ Len(r) = 1 /\ r[1].byte # "Esc" /\ e = KeyEvent(r[1].byte)
     \/ e = KeyEvent("Esc")
     \/ e = Unusable /\ r[1].of \in Reports /\ Last(r).of \in Reports
     \/ Whole(r) /\ r[1].of \in Several /\ e = Meaning(r[1].of)

\* A message that was read from its beginning is read to its end.
Timely(r, e) == r[1].at = 1 /\ r[1].of # "Esc" => Whole(r) /\ e = Meaning(r[1].of)

LEMMA BytesArePlain == \A p \in Pieces : p.byte \in Plain
<1> SUFFICES ASSUME NEW p \in Pieces PROVE p.byte \in Plain
  OBVIOUS
<1>1. p.of \in Messages /\ p.at \in 1..Len(Bytes(p.of)) /\ p.byte = Bytes(p.of)[p.at]
  BY PieceIs
<1> DEFINE m == p.of
           t == Bytes(m)
           i == p.at
<1>2. m \in Plain \cup {"Return"} \/ m \in ShortNames \cup LongNames \cup Reports
  BY <1>1, SeveralAre DEF Several
<1>3. ASSUME m \in Plain \cup {"Return"} PROVE t[i] \in Plain
  <2>1. Len(t) = 1 /\ t[1] = IF m = "Return" THEN "CR" ELSE m
    BY <1>3, BytesOfOne
  <2>2. i \in 1..1
    BY <1>1, <2>1, Zenon
  <2>3. i = 1
    BY <2>2
  <2> HIDE DEF t, i
  <2>4. QED
    BY <1>3, <2>1, <2>3 DEF Plain
<1>4. ASSUME m \in ShortNames PROVE t[i] \in Plain
  <2>1. Len(t) = 3 /\ t[1] = "Esc" /\ \A j \in 2..3 : t[j] \in {"O", "P", "Q", "R", "S", "[", "Z"}
    BY <1>4, BytesOfShort
  <2>2. i \in 1..3
    BY <1>1, <2>1, Zenon
  <2>3. i = 1 \/ i \in 2..3
    BY <2>2
  <2> HIDE DEF t, i
  <2>4. QED
    BY <2>1, <2>3 DEF Plain
<1>5. ASSUME m \in LongNames PROVE t[i] \in Plain
  <2>1. /\ Len(t) = 5 /\ t[1] = "Esc" /\ t[2] = "[" /\ t[3] \in DOMAIN Digit /\ t[4] \in DOMAIN Digit
        /\ t[5] = "~"
    BY <1>5, BytesOfLong
  <2>2. i \in 1..5
    BY <1>1, <2>1, Zenon
  <2>3. i \in {1, 2, 3, 4, 5}
    BY <2>2
  <2> HIDE DEF t, i
  <2>4. QED
    BY <2>1, <2>3 DEF Plain
<1>6. ASSUME m \in Reports PROVE t[i] \in Plain
  <2>1. /\ Len(t) = 9 /\ t[1] = "Esc" /\ t[2] = "[" /\ t[3] = "<" /\ t[4] \in {"0", "2"}
        /\ t[5] = ";" /\ t[6] = "2" /\ t[7] = ";" /\ t[8] = "9" /\ t[9] \in {"M", "m"}
    BY <1>6, BytesOfReport
  <2>2. i \in 1..9
    BY <1>1, <2>1, Zenon
  <2>3. i \in {1, 2, 3, 4, 5, 6, 7, 8, 9}
    BY <2>2
  <2> HIDE DEF t, i
  <2>4. QED
    BY <2>1, <2>3, DigitsAre DEF Plain
<1>7. QED
  BY <1>1, <1>2, <1>3, <1>4, <1>5, <1>6

LEMMA NoEvent ==
  "none" \notin Plain \cup Several /\ "Mouse" \notin Plain \cup Several /\ "unusable" \notin Plain \cup Several
BY DigitsAre, SeveralAre DEF Plain, ShortNames, LongNames, Reports

LEMMA UsualIsEvent ==
  ASSUME NEW r \in Seq(Pieces), NEW e, Usual(r, e)
  PROVE  e # Nothing
<1>1. r # <<>> /\ r[1] \in Pieces
  BY DEF Usual
<1>2. \A k \in Plain \cup Several : KeyEvent(k) # Nothing
  BY NoEvent DEF KeyEvent, Nothing
<1>3. "Esc" \in Plain /\ r[1].byte \in Plain
  BY <1>1, BytesArePlain, DigitsNotMessages
<1>4. Unusable # Nothing
  BY DEF Unusable, Nothing
<1>5. \A m \in Several : Meaning(m) # Nothing
  <2>1. \A x, y, z : Mouse(x, y, z) # Nothing
    <3>1. \A x, y, z : Mouse(x, y, z).key = "Mouse" /\ Nothing.key = "none"
      BY DEF Mouse, Nothing
    <3>2. QED
      BY <3>1
  <2>2. \A m \in Several : m \in ShortNames \cup LongNames \/ m \in Reports
    BY SeveralAre
  <2>3. \A m \in ShortNames \cup LongNames : m \in Several
    BY SeveralAre
  <2>4. QED
    BY <1>2, <2>1, <2>2, <2>3, MeaningIs
<1>6. QED
  BY <1>2, <1>3, <1>4, <1>5 DEF Usual

\* What a read that finds a byte makes of the bytes read.
LEMMA TookIs ==
  ASSUME StreamInv, Take, read' = Took, NEW n, n = Len(read)
  PROVE  /\ n \in Nat /\ Len(read') = n + 1 /\ read' # <<>>
         /\ (\A i \in 1..n : read'[i] = read[i]) /\ read'[n + 1] = Head(buffer)
<1>1. read \in Seq(Pieces) /\ buffer \in Seq(Pieces)
  BY DEF StreamInv
<1>2. Head(buffer) \in Pieces
  BY <1>1 DEF Take
<1> DEFINE p == Head(buffer)
<1>3. read' = Append(read, p)
  BY DEF Took
<1> HIDE DEF p
<1>4. QED
  BY <1>1, <1>2, <1>3 DEF p

LEMMA ReadsOfNext ==
  ASSUME StreamInv, ReadEvent
  PROVE  Reads(read') /\ read \in Seq(Pieces) /\ read' \in Seq(Pieces)
<1>1. StreamInv'
  BY ReadsKeepInv
<1>2. session' = session
  BY DEF ReadEvent
<1>3. session' \in Sessions /\ read' \in Seq(Pieces) /\ buffer' \in Seq(Pieces)
  BY <1>1, Zenon DEF StreamInv
<1>4. Chained(read' \o buffer') /\ Said(read' \o buffer', session')
  BY <1>1, Zenon DEF StreamInv, Stream
<1>5. Chained(read') /\ Said(read', session')
  BY <1>3, <1>4, ChainedBeginning, Zenon
<1>6. read \in Seq(Pieces)
  BY DEF StreamInv
<1>7. QED
  BY <1>2, <1>3, <1>5, <1>6, Zenon DEF Reads

LEMMA FirstReadStep ==
  ASSUME StreamInv, ReadEvent, ReadFirst
  PROVE  \/ event' = Nothing /\ Begun(read')
         \/ Usual(read', event') /\ Timely(read', event')
<1> DEFINE n == Len(read)
           r == read'
<1>1. Take /\ read' = Took /\ n = 0
  BY DEF ReadFirst, ReadOn, Returns, Expects
<1>2. /\ n \in Nat /\ Len(r) = n + 1 /\ r # <<>> /\ r[n + 1] = Head(buffer)
  BY <1>1, TookIs
<1>3. Len(r) = 1
  BY <1>1, <1>2
<1>4. r[1] = Head(buffer)
  <2>1. n + 1 = 1
    BY <1>1
  <2>2. QED
    BY <1>2, <2>1, Zenon
<1>5. Reads(r) /\ r \in Seq(Pieces)
  BY ReadsOfNext
<1>6. r[1] \in Pieces
  BY <1>2, <1>5
<1>7. CASE r[1].byte = "Esc"
  <2>1. event' = Nothing
    BY <1>4, <1>7 DEF ReadFirst, ReadOn
  <2>2. Begun(r)
    <3> HIDE DEF r
    <3>1. ~(Len(r) > 2)
      BY <1>3
    <3>2. QED
      BY <1>7, <3>1 DEF Begun
  <2>3. QED
    BY <2>1, <2>2
<1>8. CASE r[1].byte # "Esc"
  <2>1. event' = KeyEvent(r[1].byte)
    BY <1>4, <1>8, Zenon DEF ReadFirst, Returns
  <2> HIDE DEF r
  <2>2. Usual(r, event')
    <3>1. Len(r) <= 3 + PayloadGuard
      BY <1>3, ParserAssumption
    <3>2. QED
      BY <1>2, <1>3, <1>8, <2>1, <3>1 DEF Usual
  <2>3. Timely(r, event')
    <3> SUFFICES ASSUME r[1].at = 1 PROVE Whole(r) /\ event' = Meaning(r[1].of)
      BY DEF Timely
    <3>1. /\ r[1].of \notin Several /\ Len(Bytes(r[1].of)) = 1
          /\ r[1].of = r[1].byte \/ (r[1].of = "Return" /\ r[1].byte = "CR")
      BY <1>6, <1>8, BeginningIsOne
    <3>2. r[1].of \in Messages
      BY <1>6, PieceIs
    <3>3. Len(r) = Len(Bytes(r[1].of))
      BY <1>3, <3>1, Zenon
    <3>4. Whole(r)
      BY <1>2, <1>5, <3>2, <3>3, WholeRead
    <3>5. r[1].of \in Plain \/ r[1].of = "Return"
      BY <3>1, <3>2 DEF Several
    <3>6. Meaning(r[1].of) = KeyEvent(r[1].byte)
      <4>1. CASE r[1].of = "Return"
        <5>1. "Return" \notin Plain
          BY DigitsAre DEF Plain
        <5>2. r[1].byte = "CR"
          BY <1>6, <3>1, <4>1, <5>1, BytesArePlain
        <5>3. QED
          BY <4>1, <5>2, MeaningIs, Zenon
      <4>2. CASE r[1].of # "Return"
        <5>1. r[1].of = r[1].byte /\ r[1].of \in Plain
          BY <3>1, <3>5, <4>2
        <5>2. QED
          BY <5>1, MeaningIs, Zenon
      <4>3. QED
        BY <4>1, <4>2
    <3>7. QED
      BY <2>1, <3>4, <3>6, Zenon
  <2>4. QED
    BY <2>2, <2>3 DEF r
<1>9. QED
  BY <1>7, <1>8

LEMMA SecondReadStep ==
  ASSUME StreamInv, Begun(read), ReadSecond
  PROVE  event' = Nothing /\ Begun(read')
<1> DEFINE n == Len(read)
           r == read'
<1>1. Take /\ read' = Took /\ n = 1 /\ event' = Nothing
  BY DEF ReadSecond, ReadOn, Expects
<1>2. n \in Nat /\ Len(r) = n + 1 /\ \A i \in 1..n : r[i] = read[i]
  BY <1>1, TookIs
<1>3. r[1] = read[1] /\ read # <<>>
  BY <1>1, <1>2
<1>4. read[1].byte = "Esc"
  BY <1>3 DEF Begun
<1>5. ~(Len(r) > 2)
  BY <1>1, <1>2
<1> HIDE DEF r
<1>6. QED
  BY <1>1, <1>3, <1>4, <1>5 DEF Begun, r

LEMMA ThirdReadStep ==
  ASSUME StreamInv, ReadEvent, Begun(read), ReadThird
  PROVE  \/ event' = Nothing /\ Begun(read')
         \/ Usual(read', event') /\ Timely(read', event')
<1> DEFINE n == Len(read)
           r == read'
<1>1. Take /\ read' = Took /\ n = 2
  BY DEF ReadThird, ReadOn, Returns, Expects
<1>2. /\ n \in Nat /\ Len(r) = n + 1 /\ r # <<>> /\ r[n + 1] = Head(buffer)
      /\ \A i \in 1..n : r[i] = read[i]
  BY <1>1, TookIs
<1>3. Len(r) = 3 /\ r[1] = read[1] /\ r[2] = read[2]
  BY <1>1, <1>2
<1>4. r[3] = Head(buffer)
  <2>1. n + 1 = 3
    BY <1>1
  <2>2. QED
    BY <1>2, <2>1, Zenon
<1>5. Reads(r) /\ r \in Seq(Pieces)
  BY ReadsOfNext
<1>6. r[1].byte = "Esc"
  <2>1. read # <<>>
    BY <1>1
  <2>2. QED
    BY <1>3, <2>1 DEF Begun
<1>7. IF GoesOn(r[2].byte, r[3].byte) THEN event' = Nothing ELSE event' = Decided(r[2].byte, r[3].byte)
  BY <1>3, <1>4, Zenon DEF ReadThird, ReadOn, Returns
<1> HIDE DEF r
<1>8. Len(r) > 2 /\ Len(r) - 3 = 0 /\ 4..Len(r) = {}
  BY <1>3
<1>9. CASE GoesOn(r[2].byte, r[3].byte)
  <2>1. Len(r) - 3 < PayloadGuard /\ Len(r) - 3 < SequenceGuard
    <3>1. 0 < PayloadGuard /\ 0 < SequenceGuard
      BY ParserAssumption
    <3>2. QED
      BY <1>8, <3>1, Zenon
  <2>2. Begun(r)
    BY <1>6, <1>8, <1>9, <2>1 DEF Begun
  <2>3. QED
    BY <1>7, <1>9, <2>2 DEF r
<1>10. CASE ~GoesOn(r[2].byte, r[3].byte)
  <2>1. event' = Decided(r[2].byte, r[3].byte)
    BY <1>7, <1>10
  <2>2. \/ r[1].of = "Esc" /\ event' = KeyEvent("Esc")
        \/ r[1].of \in ShortNames /\ Whole(r) /\ event' = KeyEvent(r[1].of)
    BY <1>3, <1>5, <1>6, <1>10, <2>1, ThreeRead, Zenon
  <2>3. \A m \in ShortNames : m \in Several /\ Meaning(m) = KeyEvent(m)
    BY SeveralAre, MeaningIs
  <2>4. Len(r) <= 3 + PayloadGuard
    BY <1>3, ParserAssumption
  <2>5. Usual(r, event')
    BY <1>2, <2>2, <2>3, <2>4, Zenon DEF Usual, r
  <2>6. Timely(r, event')
    BY <2>2, <2>3, Zenon DEF Timely
  <2>7. QED
    BY <2>5, <2>6 DEF r
<1>11. QED
  BY <1>9, <1>10

LEMMA PayloadOfRead ==
  ASSUME NEW r \in Seq(Pieces), NEW n \in Nat, n = Len(r), n > 2
  PROVE  /\ Len(SubSeq(Text(r), 4, n)) = n - 3
         /\ \A i \in 1..(n - 3) : SubSeq(Text(r), 4, n)[i] = r[i + 3].byte
         /\ \E S : SubSeq(Text(r), 4, n) \in Seq(S)
<1> DEFINE S == {r[j].byte : j \in 1..n}
           s == SubSeq(Text(r), 4, n)
<1>1. DOMAIN Text(r) = 1..n /\ \A i \in 1..n : Text(r)[i] = r[i].byte
  BY DEF Text
<1>2. \A i \in 4..n : Text(r)[i] \in S
  BY <1>1
<1>3. /\ s \in Seq(S) /\ Len(s) = IF 4 <= n THEN n - 4 + 1 ELSE 0
      /\ \A i \in 1..(n - 4 + 1) : s[i] = Text(r)[4 + i - 1]
  <2>1. n \in Int /\ 4 \in Int
    OBVIOUS
  <2> HIDE DEF S
  <2>2. QED
    BY <1>2, <2>1, SubSeqProperties
<1> HIDE DEF S, s
<1>4. Len(s) = n - 3 /\ n - 4 + 1 = n - 3
  BY <1>3
<1>5. ASSUME NEW i \in 1..(n - 3) PROVE s[i] = r[i + 3].byte
  <2>1. 4 + i - 1 = i + 3 /\ i + 3 \in 1..n
    OBVIOUS
  <2>2. QED
    BY <1>1, <1>3, <1>4, <2>1
<1>6. QED
  BY <1>3, <1>4, <1>5 DEF s

LEMMA ReportGuard == ASSUME NEW m \in Reports, m \in UNION Sessions PROVE 6 <= PayloadGuard
<1>1. Len(Bytes(m)) - 3 <= PayloadGuard
  BY ParserAssumption
<1>2. Len(Bytes(m)) = 9
  BY BytesOfReport
<1>3. 9 - 3 = 6
  OBVIOUS
<1>4. QED
  BY <1>1, <1>2, <1>3, Zenon

\* Only the last byte of a report is a letter that ends one.
LEMMA ReportEnds ==
  ASSUME NEW m \in Reports, NEW i \in 4..9
  PROVE  (Bytes(m)[i] \in {"M", "m"}) <=> i = 9
<1> DEFINE t == Bytes(m)
<1>1. /\ t[4] \in {"0", "2"} /\ t[5] = ";" /\ t[6] = "2" /\ t[7] = ";" /\ t[8] = "9" /\ t[9] \in {"M", "m"}
  BY BytesOfReport
<1>2. i \in {4, 5, 6, 7, 8, 9}
  OBVIOUS
<1> HIDE DEF t
<1>3. (t[i] \in {"M", "m"}) <=> i = 9
  BY <1>1, <1>2
<1>4. QED
  BY <1>3 DEF t

\* A call that is in a report has not read its end.
LEMMA InsideReport ==
  ASSUME Reads(read), Begun(read), Len(read) > 2, read[3].byte = "<"
  PROVE  /\ Len(read) < 9 /\ read[1].byte = "Esc" /\ read[2].byte = "["
         /\ read[1].of \in Reports /\ read[Len(read)].of \in Reports
<1> DEFINE n == Len(read)
<1>1. n \in Nat /\ read # <<>> /\ n \in 1..n
  BY DEF Reads
<1>2. read[1].byte = "Esc" /\ GoesOn(read[2].byte, read[3].byte)
  BY <1>1 DEF Begun
<1>3. read[2].byte = "["
  BY <1>2 DEF GoesOn
<1>4. /\ read[1].of \in Reports
      /\ \A i \in 1..n : i <= 9 =>
           read[i].of = read[1].of /\ read[i].at = i /\ read[i].byte = Bytes(read[1].of)[i]
  BY <1>2, <1>3, ReportRead
<1>5. \A i \in 4..n : read[i].byte \notin {"M", "m"}
  BY DEF Begun
<1>6. n < 9
  <2> SUFFICES ASSUME n >= 9 PROVE FALSE
    BY <1>1
  <2>1. 9 \in 1..n /\ 9 \in 4..n /\ 9 <= 9 /\ 9 \in 4..9
    BY <1>1
  <2> HIDE DEF n
  <2>2. read[9].byte = Bytes(read[1].of)[9]
    BY <1>4, <2>1, Zenon
  <2>3. Bytes(read[1].of)[9] \in {"M", "m"}
    BY <1>4, <2>1, ReportEnds, Zenon
  <2>4. QED
    BY <1>5, <2>1, <2>2, <2>3, Zenon
<1>7. n <= 9
  BY <1>1, <1>6
<1>8. read[n].of = read[1].of
  BY <1>1, <1>4, <1>7, Zenon
<1>9. QED
  BY <1>2, <1>3, <1>4, <1>6, <1>8, Zenon

LEMMA ReportReadStep ==
  ASSUME StreamInv, ReadEvent, Begun(read), ReadReport
  PROVE  \/ event' = Nothing /\ Begun(read')
         \/ Usual(read', event') /\ Timely(read', event')
<1> DEFINE n == Len(read)
           r == read'
           payload == SubSeq(Text(read), 4, Len(read))
           next == Head(buffer).byte
<1>1. Take /\ read' = Took /\ n > 2 /\ read[3].byte = "<"
  BY DEF ReadReport, ReadOn, Returns, InReport
<1>2. /\ n \in Nat /\ Len(r) = n + 1 /\ r # <<>> /\ r[n + 1] = Head(buffer)
      /\ \A i \in 1..n : r[i] = read[i]
  BY <1>1, TookIs
<1>3. Reads(r) /\ r \in Seq(Pieces) /\ read \in Seq(Pieces)
  BY ReadsOfNext
<1>4. /\ n < 9 /\ read[1].byte = "Esc" /\ read[2].byte = "["
  BY <1>1, InsideReport, ReadsOfStream
<1>5. 1 \in 1..n /\ 2 \in 1..n /\ 3 \in 1..n /\ Len(r) > 2
  BY <1>1, <1>2
<1>6. r[1].byte = "Esc" /\ r[2].byte = "[" /\ r[3].byte = "<"
  BY <1>1, <1>2, <1>4, <1>5, Zenon
<1> DEFINE m == r[1].of
<1>7. /\ m \in Reports /\ r[1].at = 1
      /\ \A i \in 1..Len(r) : i <= 9 => r[i].of = m /\ r[i].at = i /\ r[i].byte = Bytes(m)[i]
  BY <1>3, <1>5, <1>6, ReportRead
<1>8. IF next \in {"M", "m"} THEN event' = Outcome(Reported(payload, next))
      ELSE event' = IF Len(payload) + 1 = PayloadGuard THEN Unusable ELSE Nothing
  BY Zenon DEF ReadReport, ReadOn, Returns
<1>9. /\ Len(payload) = n - 3 /\ \A i \in 1..(n - 3) : payload[i] = read[i + 3].byte
      /\ \E S : payload \in Seq(S)
  BY <1>1, <1>2, <1>3, PayloadOfRead
<1>10. n - 3 < PayloadGuard /\ \A i \in 4..n : read[i].byte \notin {"M", "m"}
  BY <1>1 DEF Begun
<1> HIDE DEF r, payload, next, n, m
<1>11. n + 1 \in 1..Len(r) /\ n + 1 <= 9 /\ n + 1 \in 4..9
  BY <1>1, <1>2, <1>4
<1>12. next = Bytes(m)[n + 1]
  BY <1>2, <1>7, <1>11, Zenon DEF next
<1>13. Len(r) <= 3 + PayloadGuard
  <2>1. n + 1 <= 3 + PayloadGuard
    BY <1>2, <1>10, ParserAssumption
  <2>2. QED
    BY <1>2, <2>1
<1>14. ASSUME next \in {"M", "m"} PROVE Usual(r, event') /\ Timely(r, event')
  <2>1. n + 1 = 9
    BY <1>7, <1>11, <1>12, <1>14, ReportEnds
  <2>2. n = 8
    BY <1>2, <2>1
  <2>3. m \in Several /\ m \in Messages
    BY <1>7, SeveralAre DEF Several
  <2>4. Whole(r)
    <3>1. Len(r) = 9
      BY <1>2, <2>1, Zenon
    <3>2. Len(Bytes(m)) = 9
      BY <1>7, BytesOfReport
    <3>3. QED
      BY <1>2, <1>3, <1>7, <2>3, <3>1, <3>2, WholeRead, Zenon DEF m
  <2>5. payload = <<Bytes(m)[4], ";", "2", ";", "9">>
    <3>1. n - 3 = 5
      BY <2>2
    <3>2. \A i \in 1..5 : payload[i] = Bytes(m)[i + 3]
      <4> SUFFICES ASSUME NEW i \in 1..5 PROVE payload[i] = Bytes(m)[i + 3]
        OBVIOUS
      <4>1. i + 3 \in 1..n /\ i + 3 \in 1..Len(r) /\ i + 3 <= 9 /\ i \in 1..(n - 3)
        BY <1>2, <2>2
      <4>2. payload[i] = read[i + 3].byte
        BY <1>9, <4>1
      <4>3. read[i + 3] = r[i + 3]
        BY <1>2, <4>1
      <4>4. r[i + 3].byte = Bytes(m)[i + 3]
        BY <1>7, <4>1
      <4>5. QED
        BY <4>2, <4>3, <4>4, Zenon
    <3>3. /\ payload[1] = Bytes(m)[4] /\ payload[2] = Bytes(m)[5] /\ payload[3] = Bytes(m)[6]
          /\ payload[4] = Bytes(m)[7] /\ payload[5] = Bytes(m)[8]
      <4>1. /\ 1 \in 1..5 /\ 2 \in 1..5 /\ 3 \in 1..5 /\ 4 \in 1..5 /\ 5 \in 1..5
            /\ 1 + 3 = 4 /\ 2 + 3 = 5 /\ 3 + 3 = 6 /\ 4 + 3 = 7 /\ 5 + 3 = 8
        OBVIOUS
      <4>2. QED
        BY <3>2, <4>1, Zenon
    <3>4. /\ Bytes(m)[5] = ";" /\ Bytes(m)[6] = "2" /\ Bytes(m)[7] = ";" /\ Bytes(m)[8] = "9"
      BY <1>7, BytesOfReport
    <3>5. \A S : \A q \in Seq(S) : Len(q) = 5 => q = <<q[1], q[2], q[3], q[4], q[5]>>
      OBVIOUS
    <3>6. Len(payload) = 5
      BY <1>9, <3>1, Zenon
    <3>7. payload = <<payload[1], payload[2], payload[3], payload[4], payload[5]>>
      BY <1>9, <3>5, <3>6, Zenon
    <3>8. QED
      BY <3>3, <3>4, <3>7, Zenon
  <2>6. Reported(payload, next) = Meaning(m)
    BY <1>7, <1>12, <2>1, <2>5, ReportedReport, Zenon
  <2>7. Usual(r, Meaning(m))
    BY <1>2, <1>13, <2>3, <2>4, Zenon DEF Usual, m
  <2>8. Meaning(m) # Nothing
    BY <1>3, <2>7, UsualIsEvent, Zenon
  <2>9. event' = Meaning(m)
    BY <1>8, <1>14, <2>6, <2>8, Zenon DEF Outcome
  <2>10. QED
    BY <2>4, <2>7, <2>9, Zenon DEF Timely, m
<1>15. ASSUME next \notin {"M", "m"} PROVE event' = Nothing /\ Begun(r)
  <2>1. n + 1 # 9
    BY <1>7, <1>11, <1>12, <1>15, ReportEnds
  <2>2. n - 3 + 1 < 6
    BY <1>2, <1>4, <2>1
  <2>3. 6 <= PayloadGuard
    <3>1. 1 \in 1..Len(r) /\ session \in Sessions
      BY <1>3, <1>5 DEF Reads
    <3>2. m \in session
      BY <1>3, <3>1 DEF Reads, Said, m
    <3>3. QED
      BY <1>7, <3>1, <3>2, ReportGuard
  <2>4. n - 3 + 1 < PayloadGuard
    BY <1>2, <2>2, <2>3, ParserAssumption
  <2>5. Len(payload) + 1 # PayloadGuard
    BY <1>2, <1>9, <2>4, ParserAssumption
  <2>6. event' = Nothing
    BY <1>8, <1>15, <2>5
  <2>7. Len(r) - 3 < PayloadGuard
    BY <1>2, <2>4
  <2>8. \A i \in 4..Len(r) : r[i].byte \notin {"M", "m"}
    <3> SUFFICES ASSUME NEW i \in 4..Len(r) PROVE r[i].byte \notin {"M", "m"}
      OBVIOUS
    <3>1. i = n + 1 \/ (i \in 4..n /\ i \in 1..n)
      BY <1>2
    <3>2. QED
      BY <1>2, <1>10, <1>15, <3>1, Zenon DEF next
  <2>9. GoesOn(r[2].byte, r[3].byte)
    BY <1>6 DEF GoesOn
  <2>10. QED
    BY <1>5, <1>6, <2>6, <2>7, <2>8, <2>9 DEF Begun
<1>16. QED
  BY <1>14, <1>15 DEF r

LEMMA SequenceOfRead ==
  ASSUME NEW r \in Seq(Pieces), NEW n \in Nat, n = Len(r), n > 2
  PROVE  /\ Len(SubSeq(Text(r), 3, n)) = n - 2
         /\ \A i \in 1..(n - 2) : SubSeq(Text(r), 3, n)[i] = r[i + 2].byte
         /\ \E S : SubSeq(Text(r), 3, n) \in Seq(S)
<1> DEFINE S == {r[j].byte : j \in 1..n}
           s == SubSeq(Text(r), 3, n)
<1>1. DOMAIN Text(r) = 1..n /\ \A i \in 1..n : Text(r)[i] = r[i].byte
  BY DEF Text
<1>2. \A i \in 3..n : Text(r)[i] \in S
  BY <1>1
<1>3. /\ s \in Seq(S) /\ Len(s) = IF 3 <= n THEN n - 3 + 1 ELSE 0
      /\ \A i \in 1..(n - 3 + 1) : s[i] = Text(r)[3 + i - 1]
  <2>1. n \in Int /\ 3 \in Int
    OBVIOUS
  <2> HIDE DEF S
  <2>2. QED
    BY <1>2, <2>1, SubSeqProperties
<1> HIDE DEF S, s
<1>4. Len(s) = n - 2 /\ n - 3 + 1 = n - 2
  BY <1>3
<1>5. ASSUME NEW i \in 1..(n - 2) PROVE s[i] = r[i + 2].byte
  <2>1. 3 + i - 1 = i + 2 /\ i + 2 \in 1..n
    OBVIOUS
  <2>2. QED
    BY <1>1, <1>3, <1>4, <2>1
<1>6. QED
  BY <1>3, <1>4, <1>5 DEF s

LEMMA SequenceReadStep ==
  ASSUME StreamInv, ReadEvent, Begun(read), ReadSequence
  PROVE  \/ event' = Nothing /\ Begun(read')
         \/ Usual(read', event') /\ Timely(read', event')
<1> DEFINE n == Len(read)
           k == Len(read')
           r == read'
           s == SubSeq(Text(read'), 3, Len(read'))
<1>1. Take /\ read' = Took /\ n > 2 /\ read[3].byte # "<"
  BY DEF ReadSequence, ReadOn, Returns, InSequence
<1>2. /\ n \in Nat /\ k = n + 1 /\ r # <<>> /\ \A i \in 1..n : r[i] = read[i]
  BY <1>1, TookIs
<1>3. Reads(r) /\ r \in Seq(Pieces) /\ read \in Seq(Pieces)
  BY ReadsOfNext
<1>4. GoesOn(read[2].byte, read[3].byte) /\ read[1].byte = "Esc"
  <2>1. read # <<>>
    BY <1>1
  <2>2. QED
    BY <1>1, <2>1 DEF Begun
<1>5. 1 \in 1..n /\ 2 \in 1..n /\ 3 \in 1..n /\ k > 2 /\ k \in Nat /\ k \in 1..k
  BY <1>1, <1>2
<1>6. r[1].byte = "Esc" /\ GoesOn(r[2].byte, r[3].byte) /\ r[3].byte # "<"
  BY <1>1, <1>2, <1>4, <1>5, Zenon
<1> DEFINE m == r[1].of
<1>7. /\ r[1].at = 1 /\ m \in {"Esc"} \cup LongNames
      /\ m \in LongNames => \A i \in 1..k : i <= 5 => r[i].byte = Bytes(m)[i]
  BY <1>3, <1>5, <1>6, SequenceRead
<1>8. IF Last(s) \in Letters \cup {"~"} \/ Len(s) - 1 = SequenceGuard
      THEN event' = Sequenced(s) ELSE event' = Nothing
  BY <1>1, Zenon DEF ReadSequence, ReadOn, Returns
<1>9. Len(s) = k - 2 /\ (\A i \in 1..(k - 2) : s[i] = r[i + 2].byte) /\ \E S : s \in Seq(S)
  BY <1>3, <1>5, SequenceOfRead
<1>10. Last(s) = r[k].byte
  <2>1. k - 2 \in 1..(k - 2) /\ k - 2 + 2 = k
    BY <1>5
  <2>2. QED
    BY <1>9, <2>1, Zenon DEF Last
<1>11. n - 3 < SequenceGuard /\ \A i \in 4..n : read[i].byte \notin Letters \cup {"~"}
  BY <1>1 DEF Begun
<1>12. ASSUME m = "Esc" PROVE Sequenced(s) = KeyEvent("Esc")
  <2>1. "Esc" \notin LongNames
    BY DEF LongNames
  <2>2. QED
    BY <1>3, <1>5, <1>6, <1>12, <2>1, SequencedRead
<1> HIDE DEF n, k, r, s, m
<1>13. k <= 3 + SequenceGuard
  BY <1>2, <1>11, ParserAssumption
<1>14. ASSUME m \in LongNames PROVE k <= 5
  <2> SUFFICES ASSUME k > 5 PROVE FALSE
    BY <1>5
  <2>1. 5 \in 1..k /\ 5 \in 4..n /\ 5 \in 1..n /\ 5 <= 5
    BY <1>2
  <2>2. read[5].byte = "~"
    BY <1>2, <1>7, <1>14, <2>1, BytesOfLong
  <2>3. QED
    BY <1>11, <2>1, <2>2
<1>15. ASSUME Last(s) \in Letters \cup {"~"} \/ Len(s) - 1 = SequenceGuard
       PROVE  Usual(r, event') /\ Timely(r, event')
  <2>1. event' = Sequenced(s)
    BY <1>8, <1>15
  <2>2. CASE m = "Esc"
    <3>1. event' = KeyEvent("Esc")
      BY <1>12, <2>1, <2>2
    <3>2. QED
      BY <1>2, <1>13, <2>2, <3>1, Zenon DEF Usual, Timely, m, k, r
  <2>3. CASE m \in LongNames
    <3>1. k = 5
      <4>1. CASE Last(s) \in Letters \cup {"~"}
        <5>1. k = 4 \/ k = 5
          BY <1>1, <1>2, <1>14, <2>3 DEF n
        <5>2. k # 4
          <6> SUFFICES ASSUME k = 4 PROVE FALSE
            OBVIOUS
          <6>1. 4 <= 5 /\ k \in 1..k
            BY <1>5
          <6>2. r[k].byte = Bytes(m)[4]
            BY <1>7, <2>3, <6>1
          <6>3. Bytes(m)[4] \in DOMAIN Digit
            BY <2>3, BytesOfLong
          <6>4. QED
            BY <1>10, <4>1, <6>2, <6>3, DigitsAre DEF Letters
        <5>3. QED
          BY <5>1, <5>2
      <4>2. CASE Len(s) - 1 = SequenceGuard
        <5>1. k - 2 - 1 = SequenceGuard
          BY <1>9, <4>2, Zenon
        <5>2. k >= 5
          BY <1>5, <5>1, ParserAssumption
        <5>3. QED
          BY <1>5, <1>14, <2>3, <5>2
      <4>3. QED
        BY <1>15, <4>1, <4>2
    <3>2. m \in Messages /\ m \in Several
      BY <2>3, SeveralAre DEF Several
    <3>3. Whole(r)
      <4>1. Len(Bytes(m)) = 5
        BY <2>3, BytesOfLong
      <4>2. Len(r) = Len(Bytes(m))
        BY <3>1, <4>1, Zenon DEF k, r
      <4>3. QED
        BY <1>2, <1>3, <1>7, <3>2, <4>2, WholeRead, Zenon DEF m
    <3>4. s = <<Bytes(m)[3], Bytes(m)[4], Bytes(m)[5]>>
      <4>1. /\ 1 \in 1..(k - 2) /\ 2 \in 1..(k - 2) /\ 3 \in 1..(k - 2)
            /\ 1 + 2 = 3 /\ 2 + 2 = 4 /\ 3 + 2 = 5 /\ 3 <= 5 /\ 4 <= 5 /\ 5 <= 5 /\ k - 2 = 3
            /\ 3 \in 1..k /\ 4 \in 1..k /\ 5 \in 1..k
        BY <3>1
      <4>2. s[1] = r[3].byte /\ s[2] = r[4].byte /\ s[3] = r[5].byte
        BY <1>9, <4>1, Zenon
      <4>3. r[3].byte = Bytes(m)[3] /\ r[4].byte = Bytes(m)[4] /\ r[5].byte = Bytes(m)[5]
        BY <1>7, <2>3, <4>1, Zenon
      <4>4. \A S : \A q \in Seq(S) : Len(q) = 3 => q = <<q[1], q[2], q[3]>>
        OBVIOUS
      <4>5. Len(s) = 3
        BY <1>9, <4>1, Zenon
      <4>6. s = <<s[1], s[2], s[3]>>
        BY <1>9, <4>4, <4>5, Zenon
      <4>7. QED
        BY <4>2, <4>3, <4>6, Zenon
    <3>5. PICK i \in 1..10 : LongKeys[i] = <<m, <<Bytes(m)[3], Bytes(m)[4], Bytes(m)[5]>>>>
      BY <2>3, BytesOfLong
    <3>6. LongKeys[i][1] = m /\ LongKeys[i][2] = <<Bytes(m)[3], Bytes(m)[4], Bytes(m)[5]>>
      BY <3>5
    <3>7. Sequenced(s) = KeyEvent(m)
      BY <3>4, <3>6, SequencedKnown, Zenon
    <3>8. event' = Meaning(m)
      BY <2>1, <2>3, <3>7, MeaningIs, Zenon
    <3>9. QED
      BY <1>2, <1>13, <3>2, <3>3, <3>8, Zenon DEF Usual, Timely, m, k, r
  <2>4. QED
    BY <1>7, <2>2, <2>3
<1>16. ASSUME ~(Last(s) \in Letters \cup {"~"} \/ Len(s) - 1 = SequenceGuard)
       PROVE  event' = Nothing /\ Begun(r)
  <2>1. event' = Nothing
    BY <1>8, <1>16
  <2>2. k - 3 < SequenceGuard
    <3>1. k - 2 - 1 # SequenceGuard
      BY <1>9, <1>16, Zenon
    <3>2. QED
      BY <1>2, <1>5, <1>11, <3>1, ParserAssumption
  <2>3. \A i \in 4..k : r[i].byte \notin Letters \cup {"~"}
    <3> SUFFICES ASSUME NEW i \in 4..k PROVE r[i].byte \notin Letters \cup {"~"}
      OBVIOUS
    <3>1. i = k \/ (i \in 4..n /\ i \in 1..n)
      BY <1>2
    <3>2. QED
      BY <1>2, <1>10, <1>11, <1>16, <3>1, Zenon
  <2>4. QED
    BY <1>6, <2>1, <2>2, <2>3 DEF Begun, k, r
<1>17. QED
  BY <1>15, <1>16 DEF r

LEMMA NothingReadStep ==
  ASSUME StreamInv, ReadEvent, Begun(read), ReadNothing
  PROVE  /\ Usual(read', event')
         /\ Len(read') <= Len(read) /\ event' \in {KeyEvent("Esc"), Unusable}
<1> DEFINE n == Len(read)
<1>1. Reads(read) /\ read \in Seq(Pieces) /\ read # <<>>
  BY ReadsOfStream DEF ReadNothing, Reads
<1>2. n \in Nat /\ n > 0
  BY <1>1
<1>3. ASSUME n <= 2 PROVE n <= 3 + PayloadGuard
  BY <1>2, <1>3, ParserAssumption
<1>4. CASE Len(read) = 1 /\ event' = KeyEvent("Esc") /\ UNCHANGED <<buffer, read>>
  <2>1. read' = read /\ event' = KeyEvent("Esc") /\ n <= 3 + PayloadGuard /\ n <= n
    BY <1>2, <1>3, <1>4
  <2>2. QED
    BY <1>1, <2>1, Zenon DEF Usual
<1>5. CASE Len(read) = 2 /\ event' = KeyEvent("Esc") /\ Unread
  <2>1. event' = KeyEvent("Esc") /\ read' = Front(read)
    BY <1>5 DEF Unread
  <2>2. Len(read') = 1 /\ read' # <<>>
    <3>1. SubSeq(read, 1, n - 1) \in Seq(Pieces) /\ Len(SubSeq(read, 1, n - 1)) = n - 1
      <4>1. \A i \in 1..(n - 1) : read[i] \in Pieces
        BY <1>1, <1>2
      <4> HIDE DEF n
      <4>2. 1 \in Int /\ n - 1 \in Int /\ 1 <= n - 1 + 1 /\ n - 1 - 1 + 1 = n - 1
        BY <1>2
      <4>3. /\ SubSeq(read, 1, n - 1) \in Seq(Pieces)
            /\ Len(SubSeq(read, 1, n - 1)) = IF 1 <= n - 1 THEN n - 1 - 1 + 1 ELSE 0
        BY <4>1, <4>2, SubSeqProperties
      <4>4. ~(1 <= n - 1) => n - 1 = 0
        BY <1>2
      <4>5. QED
        BY <4>2, <4>3, <4>4
    <3>2. n - 1 = 1
      BY <1>5
    <3>3. read' = SubSeq(read, 1, n - 1)
      BY <2>1, Zenon DEF Front
    <3>4. Len(read') = 1 /\ read' \in Seq(Pieces)
      BY <3>1, <3>2, <3>3, Zenon
    <3>5. QED
      BY <3>4
  <2>3. Len(read') <= 3 + PayloadGuard /\ Len(read') <= Len(read)
    BY <1>5, <2>2, ParserAssumption
  <2>4. QED
    BY <2>1, <2>2, <2>3, Zenon DEF Usual
<1>6. CASE InReport /\ event' = Unusable /\ UNCHANGED <<buffer, read>>
  <2>1. read' = read /\ event' = Unusable /\ n > 2 /\ read[3].byte = "<"
    BY <1>6 DEF InReport
  <2>2. read[1].of \in Reports /\ read[n].of \in Reports
    BY <1>1, <2>1, InsideReport
  <2>3. n - 3 < PayloadGuard
    BY <2>1 DEF Begun
  <2>4. n <= 3 + PayloadGuard /\ n <= n
    BY <1>2, <2>3, ParserAssumption
  <2>5. QED
    BY <1>1, <2>1, <2>2, <2>4, Zenon DEF Usual, Last
<1>7. CASE InSequence /\ event' = Sequenced(SubSeq(Text(read), 3, Len(read))) /\ UNCHANGED <<buffer, read>>
  <2>1. read' = read /\ n > 2 /\ read[3].byte # "<"
    BY <1>7 DEF InSequence
  <2>2. read[1].byte = "Esc" /\ GoesOn(read[2].byte, read[3].byte) /\ n - 3 < SequenceGuard
    BY <1>1, <2>1 DEF Begun
  <2>3. event' = KeyEvent("Esc")
    <3> SUFFICES ASSUME event' # KeyEvent("Esc") PROVE FALSE
      OBVIOUS
    <3>1. Sequenced(SubSeq(Text(read), 3, Len(read))) # KeyEvent("Esc")
      BY <1>7
    <3>2. n = 5 /\ read[5].byte = "~"
      BY <1>1, <2>1, <2>2, <3>1, SequencedRead, Zenon
    <3>3. \A i \in 4..n : read[i].byte \notin Letters \cup {"~"}
      BY <2>1 DEF Begun
    <3>4. 5 \in 4..n
      BY <3>2
    <3>5. QED
      BY <3>2, <3>3, <3>4
  <2>4. n <= 3 + SequenceGuard /\ n <= n
    BY <1>2, <2>2, ParserAssumption
  <2>5. QED
    BY <1>1, <2>1, <2>3, <2>4, Zenon DEF Usual
<1>8. QED
  BY <1>4, <1>5, <1>6, <1>7, Zenon DEF ReadNothing

\* What is read goes on or returns as it should.
ReadingInv == IF event = Nothing THEN Begun(read) ELSE Usual(read, event)

LEMMA ReadingStep ==
  ASSUME StreamInv, ReadingInv, ReadEvent
  PROVE  /\ event = Nothing /\ ReadingInv'
         /\ event' # Nothing =>
              \/ Timely(read', event')
              \/ Len(read') <= Len(read) /\ event' \in {KeyEvent("Esc"), Unusable}
<1>1. event = Nothing
  BY Zenon DEF ReadEvent, ReadFirst, ReadSecond, ReadThird, ReadReport, ReadSequence, ReadNothing,
     Expects, InReport, InSequence, Calling
<1>2. Begun(read)
  BY <1>1 DEF ReadingInv
<1>3. read' \in Seq(Pieces)
  BY ReadsOfNext
<1>4. \/ event' = Nothing /\ Begun(read')
      \/ Usual(read', event') /\ Timely(read', event')
      \/ /\ Usual(read', event')
         /\ Len(read') <= Len(read) /\ event' \in {KeyEvent("Esc"), Unusable}
  <2>1. CASE ReadFirst
    BY <2>1, FirstReadStep
  <2>2. CASE ReadSecond
    BY <1>2, <2>2, SecondReadStep
  <2>3. CASE ReadThird
    BY <1>2, <2>3, ThirdReadStep
  <2>4. CASE ReadReport
    BY <1>2, <2>4, ReportReadStep
  <2>5. CASE ReadSequence
    BY <1>2, <2>5, SequenceReadStep
  <2>6. CASE ReadNothing
    BY <1>2, <2>6, NothingReadStep
  <2>7. QED
    BY <2>1, <2>2, <2>3, <2>4, <2>5, <2>6 DEF ReadEvent
<1>5. Usual(read', event') => event' # Nothing
  BY <1>3, UsualIsEvent
<1>6. ReadingInv'
  BY <1>4, <1>5, Zenon DEF ReadingInv
<1>7. QED
  BY <1>1, <1>4, <1>5, <1>6

LEMMA ReadingInit == KeyboardInit => ReadingInv
<1> SUFFICES ASSUME KeyboardInit PROVE ReadingInv
  OBVIOUS
<1>1. event = Nothing /\ read = <<>>
  BY DEF KeyboardInit, InputInit
<1>2. Begun(<<>>)
  <2>1. ~(Len(<<>>) > 2)
    OBVIOUS
  <2>2. QED
    BY <2>1 DEF Begun
<1>3. QED
  BY <1>1, <1>2, Zenon DEF ReadingInv

LEMMA ReadingKept == StreamInv /\ ReadingInv /\ [KeyboardNext]_keyboardVars => ReadingInv'
<1> SUFFICES ASSUME StreamInv, ReadingInv, [KeyboardNext]_keyboardVars PROVE ReadingInv'
  OBVIOUS
<1>1. ASSUME NEW m \in session, Send(m) PROVE ReadingInv'
  <2>1. read' = read /\ event' = event
    BY <1>1, Zenon DEF Send, TerminalWrites
  <2>2. QED
    BY <2>1, Zenon DEF ReadingInv
<1>2. CASE ReadKey
  BY <1>2, ReadingStep DEF ReadKey
<1>3. CASE Handle
  <2>1. event' = Nothing /\ read' = <<>>
    BY <1>3 DEF Handle, Handled
  <2>2. Begun(<<>>)
    <3>1. ~(Len(<<>>) > 2)
      OBVIOUS
    <3>2. QED
      BY <3>1 DEF Begun
  <2>3. QED
    BY <2>1, <2>2, Zenon DEF ReadingInv
<1>4. CASE UNCHANGED keyboardVars
  <2>1. read' = read /\ event' = event
    BY <1>4, Zenon DEF keyboardVars, input
  <2>2. QED
    BY <2>1, Zenon DEF ReadingInv
<1>5. QED
  BY <1>1, <1>2, <1>3, <1>4 DEF KeyboardNext

LEMMA UsualAfterEsc ==
  ASSUME NEW r \in Seq(Pieces), NEW e, Usual(r, e), r[1].of = "Esc"
  PROVE  e = KeyEvent("Esc")
<1>1. r # <<>> /\ r[1] \in Pieces
  BY DEF Usual
<1>2. r[1].byte = "Esc"
  <2>1. /\ r[1].of \in Messages /\ r[1].at \in 1..Len(Bytes(r[1].of))
        /\ r[1].byte = Bytes(r[1].of)[r[1].at]
    BY <1>1, PieceIs
  <2>2. r[1].of \in Plain /\ r[1].of # "Return"
    BY DigitsNotMessages
  <2>3. Len(Bytes(r[1].of)) = 1 /\ Bytes(r[1].of)[1] = r[1].of
    BY <2>2, BytesOfOne
  <2>4. r[1].at = 1
    <3>1. r[1].at \in 1..1
      BY <2>1, <2>3, Zenon
    <3>2. QED
      BY <3>1
  <2>5. QED
    BY <2>1, <2>3, <2>4, Zenon
<1>3. "Esc" \notin Reports /\ "Esc" \notin Several
  BY DigitsNotMessages DEF Reports
<1>4. QED
  BY <1>2, <1>3, Zenon DEF Usual

LEMMA KeysAreDecoded ==
  ASSUME StreamInv, ReadingInv, [KeyboardNext]_keyboardVars
  PROVE  EscIsEsc /\ WholeIsDecoded
<1>1. SUFFICES ASSUME event = Nothing, event' # Nothing, read' # <<>>
               PROVE  /\ read'[1].of = "Esc" => event' = KeyEvent("Esc")
                      /\ read'[1].at = 1 /\ read'[1].of # "Esc" =>
                           \/ Whole(read') /\ event' = Meaning(read'[1].of)
                           \/ Len(read') <= Len(read) /\ event' \in {KeyEvent("Esc"), Unusable}
  BY DEF EscIsEsc, WholeIsDecoded
<1>2. ReadEvent
  <2>1. ASSUME NEW m \in session, Send(m) PROVE FALSE
    BY <1>1, <2>1, Zenon DEF Send, TerminalWrites
  <2>2. ~Handle
    BY <1>1 DEF Handle
  <2>3. ASSUME UNCHANGED keyboardVars PROVE FALSE
    BY <1>1, <2>3, Zenon DEF keyboardVars, input
  <2>4. QED
    BY <2>1, <2>2, <2>3 DEF KeyboardNext, ReadKey
<1>3. /\ ReadingInv' /\ read' \in Seq(Pieces)
      /\ \/ Timely(read', event')
         \/ Len(read') <= Len(read) /\ event' \in {KeyEvent("Esc"), Unusable}
  BY <1>1, <1>2, ReadingStep, ReadsOfNext
<1>4. Usual(read', event')
  BY <1>1, <1>3, Zenon DEF ReadingInv
<1>5. read'[1].of = "Esc" => event' = KeyEvent("Esc")
  BY <1>3, <1>4, UsualAfterEsc
<1>6. QED
  BY <1>3, <1>5, Zenon DEF Timely

\* A call that has not returned has not read a message of several bytes to its end.
LEMMA BegunIsShort ==
  ASSUME NEW r, Reads(r), Begun(r), r # <<>>, r[1].of \in Several
  PROVE  Len(r) <= Len(Bytes(r[1].of))
<1> DEFINE m == r[1].of
           n == Len(r)
           last == Len(Bytes(m))
           t == Bytes(m)
<1>1. r \in Seq(Pieces) /\ Chained(r) /\ n \in Nat /\ n > 0 /\ r[1] \in Pieces
  BY DEF Reads
<1>2. r[1].at = 1
  BY <1>1, EscBegins DEF Begun
<1>3. \A i \in 1..n : i <= last => r[i].of = m /\ r[i].at = i
  BY <1>1, <1>2, ReadingIsMessage
<1>4. \A i \in 1..n : r[i] \in Pieces
  BY <1>1
<1>5. \A i \in 1..n : i <= last => r[i].byte = t[i]
  BY <1>3, <1>4, PieceIs
<1>6. m \in ShortNames \cup LongNames \cup Reports
  BY SeveralAre
<1>7. last \in Nat
  BY <1>1, PieceIs, FirstByte
<1>8. n > 2 => GoesOn(r[2].byte, r[3].byte)
  BY DEF Begun
<1>9. \A i \in 4..n : /\ r[3].byte = "<" => r[i].byte \notin {"M", "m"}
                      /\ r[3].byte # "<" => r[i].byte # "~"
  BY DEF Begun
<1>10. SUFFICES ASSUME n > last PROVE FALSE
  BY <1>1, <1>7
<1>11. CASE m \in ShortNames
  <2>1. last = 3 /\ t[3] \in {"O", "P", "Q", "R", "S", "[", "Z"}
    BY <1>11, BytesOfShort
  <2>2. 3 \in 1..n /\ 3 <= last /\ n > 2
    BY <1>1, <1>10, <2>1
  <2>3. r[3].byte = t[3]
    BY <1>5, <2>2
  <2> HIDE DEF t, last, n
  <2>4. r[3].byte \in {"O", "P", "Q", "R", "S", "[", "Z"}
    BY <2>1, <2>3
  <2>5. QED
    BY <1>8, <2>2, <2>4, DigitsAre DEF GoesOn
<1>12. CASE m \in LongNames
  <2>1. last = 5 /\ t[3] \in DOMAIN Digit /\ t[5] = "~"
    BY <1>12, BytesOfLong
  <2>2. 3 \in 1..n /\ 3 <= last /\ 5 \in 1..n /\ 5 <= last /\ 5 \in 4..n
    BY <1>1, <1>10, <2>1
  <2>3. r[3].byte = t[3]
    BY <1>5, <2>2
  <2>4. r[5].byte = t[5]
    BY <1>5, <2>2
  <2> HIDE DEF t, last, n
  <2>5. r[3].byte # "<" /\ r[5].byte = "~"
    BY <2>1, <2>3, <2>4, DigitsAre
  <2>6. QED
    BY <1>9, <2>2, <2>5
<1>13. CASE m \in Reports
  <2>1. last = 9 /\ t[3] = "<" /\ t[9] \in {"M", "m"}
    BY <1>13, BytesOfReport
  <2>2. 3 \in 1..n /\ 3 <= last /\ 9 \in 1..n /\ 9 <= last /\ 9 \in 4..n
    BY <1>1, <1>10, <2>1
  <2>3. r[3].byte = t[3]
    BY <1>5, <2>2
  <2>4. r[9].byte = t[9]
    BY <1>5, <2>2
  <2> HIDE DEF t, last, n
  <2>5. r[3].byte = "<" /\ r[9].byte \in {"M", "m"}
    BY <2>1, <2>3, <2>4
  <2>6. QED
    BY <1>9, <2>2, <2>5
<1>14. QED
  BY <1>6, <1>11, <1>12, <1>13

\* A call that returns has read one byte, or Esc and at least two behind it.
LEMMA ReturningRead ==
  ASSUME StreamInv, Begun(read), ReadEvent, event' # Nothing, Len(read') # 1
  PROVE  /\ read' # <<>> /\ read'[1].byte = "Esc" /\ Len(read') >= 3
         /\ Len(read') > 3 => GoesOn(read'[2].byte, read'[3].byte)
         /\ read' = read \/ ~(Len(read') <= Len(read))
<1>1. read \in Seq(Pieces) /\ Len(read) \in Nat
  BY DEF StreamInv
<1>2. ASSUME read' = Took, Take, Len(read) >= 2
      PROVE  /\ read' # <<>> /\ read'[1].byte = "Esc" /\ Len(read') >= 3
             /\ Len(read') > 3 => GoesOn(read'[2].byte, read'[3].byte)
             /\ ~(Len(read') <= Len(read))
  <2>1. /\ Len(read') = Len(read) + 1
        /\ \A i \in 1..Len(read) : read'[i] = read[i]
    BY <1>1, <1>2, TookIs
  <2>2. read # <<>> /\ read[1].byte = "Esc"
    BY <1>1, <1>2 DEF Begun
  <2>3. Len(read') > 3 => GoesOn(read[2].byte, read[3].byte) /\ 3 \in 1..Len(read)
    <3>1. Len(read') > 3 => Len(read) > 2 /\ 3 \in 1..Len(read)
      BY <1>1, <2>1
    <3>2. QED
      BY <3>1 DEF Begun
  <2>4. 1 \in 1..Len(read) /\ 2 \in 1..Len(read)
    BY <1>1, <1>2
  <2>5. Len(read') >= 3 /\ ~(Len(read') <= Len(read)) /\ read' # <<>>
    BY <1>1, <1>2, <2>1
  <2>6. QED
    BY <2>1, <2>2, <2>3, <2>4, <2>5
<1>3. CASE ReadFirst
  <2>1. read' = Took /\ Len(read) = 0 /\ Take
    BY <1>3 DEF ReadFirst, Expects, ReadOn, Returns
  <2>2. Len(read') = Len(read) + 1
    BY <2>1, TookIs
  <2>3. Len(read') = 1
    BY <2>1, <2>2
  <2>4. QED
    BY <2>3
<1>4. CASE ReadSecond
  BY <1>4 DEF ReadSecond, ReadOn
<1>5. CASE ReadThird
  <2>1. read' = Took /\ Len(read) = 2 /\ Take
    BY <1>5 DEF ReadThird, Expects, ReadOn, Returns
  <2>2. QED
    BY <1>2, <2>1
<1>6. CASE ReadReport
  <2>1. read' = Took /\ Len(read) > 2 /\ Take
    BY <1>6 DEF ReadReport, InReport, ReadOn, Returns
  <2>2. QED
    BY <1>1, <1>2, <2>1
<1>7. CASE ReadSequence
  <2>1. read' = Took /\ Len(read) > 2 /\ Take
    BY <1>7 DEF ReadSequence, InSequence, ReadOn, Returns
  <2>2. QED
    BY <1>1, <1>2, <2>1
<1>8. CASE ReadNothing
  <2>1. \/ Len(read) = 1 /\ read' = read
        \/ Len(read) = 2 /\ read' = Front(read)
        \/ Len(read) > 2 /\ read' = read
    BY <1>8 DEF ReadNothing, Unread, InReport, InSequence
  <2>2. CASE Len(read) = 2 /\ read' = Front(read)
    <3>1. Front(read) = SubSeq(read, 1, 1)
      BY <1>1, <2>2 DEF Front
    <3>2. \A i \in 1..1 : read[i] \in Pieces
      BY <1>1, <2>2
    <3>3. Len(SubSeq(read, 1, 1)) = 1
      BY <1>1, <2>2, <3>2, SubSeqProperties
    <3>4. QED
      BY <2>2, <3>1, <3>3
  <2>3. CASE Len(read) > 2 /\ read' = read
    <3>1. read # <<>> /\ Len(read) >= 3
      BY <1>1, <2>3
    <3>2. QED
      BY <2>3, <3>1 DEF Begun
  <2>4. QED
    BY <2>1, <2>2, <2>3
<1>9. QED
  BY <1>3, <1>4, <1>5, <1>6, <1>7, <1>8 DEF ReadEvent

LEMMA ReturnedRead ==
  ASSUME StreamInv, ReadingInv, ReadEvent, event' # Nothing
  PROVE  OneMessage(read') \/ SwallowedByEsc(read')
<1>1. event = Nothing /\ Begun(read)
  BY ReadingStep DEF ReadingInv
<1>2. /\ read' \in Seq(Pieces) /\ Usual(read', event')
      /\ \/ Timely(read', event')
         \/ Len(read') <= Len(read)
  BY ReadingStep, ReadsOfNext DEF ReadingInv
<1>3. CASE Len(read') = 1
  <2>1. \A i \in DOMAIN read' : i = 1
    BY <1>2, <1>3
  <2>2. read'[1] \in Pieces
    BY <1>2, <1>3
  <2>3. read'[1].at \in Nat
    BY <2>2, PieceIs, FirstByte
  <2>4. read'[1].at + 1 - 1 = read'[1].at
    BY <2>3
  <2>5. QED
    BY <2>1, <2>4 DEF OneMessage
<1>4. CASE Len(read') # 1
  <2>1. /\ read' # <<>> /\ read'[1].byte = "Esc" /\ Len(read') >= 3
        /\ Len(read') > 3 => GoesOn(read'[2].byte, read'[3].byte)
        /\ read' = read \/ ~(Len(read') <= Len(read))
    BY <1>1, <1>4, ReturningRead
  <2>2. read'[1] \in Pieces
    BY <1>2, <2>1
  <2>3. read'[1].at = 1 /\ (read'[1].of = "Esc" \/ read'[1].of \in Several)
    BY <2>1, <2>2, EscBegins
  <2>4. CASE read'[1].of = "Esc"
    BY <2>1, <2>4 DEF SwallowedByEsc
  <2>5. CASE read'[1].of \in Several /\ read'[1].of # "Esc"
    <3>1. Len(read') <= Len(Bytes(read'[1].of))
      <4>1. CASE Timely(read', event')
        <5>1. Text(read') = Bytes(read'[1].of)
          BY <2>3, <2>5, <4>1 DEF Timely, Whole
        <5>2. DOMAIN Text(read') = DOMAIN read'
          BY DEF Text
        <5>3. Len(Bytes(read'[1].of)) \in Nat /\ DOMAIN Bytes(read'[1].of) = 1..Len(Bytes(read'[1].of))
          BY <2>2, PieceIs, FirstByte
        <5>4. DOMAIN read' = 1..Len(read') /\ Len(read') \in Nat
          BY <1>2
        <5>5. Len(read') \in 1..Len(Bytes(read'[1].of))
          <6>1. Len(read') \in 1..Len(read')
            BY <2>1, <5>4
          <6>2. QED
            BY <5>1, <5>2, <5>3, <5>4, <6>1, Zenon
        <5>6. QED
          BY <5>3, <5>5
      <4>2. CASE Len(read') <= Len(read)
        <5>1. read' = read
          BY <2>1, <4>2
        <5>2. Reads(read)
          BY ReadsOfStream
        <5>3. read # <<>> /\ read[1].of \in Several
          BY <2>1, <2>5, <5>1
        <5>4. Len(read) <= Len(Bytes(read[1].of))
          BY <1>1, <5>2, <5>3, BegunIsShort
        <5>5. QED
          BY <5>1, <5>4
      <4>3. QED
        BY <1>2, <4>1, <4>2
    <3>2. Chained(read')
      BY ReadsOfNext DEF Reads
    <3>3. \A i \in 1..Len(read') : i <= Len(Bytes(read'[1].of)) => read'[i].of = read'[1].of /\ read'[i].at = i
      BY <1>2, <2>1, <2>3, <3>2, ReadingIsMessage
    <3>4. Len(read') \in Nat /\ DOMAIN read' = 1..Len(read') /\ Len(Bytes(read'[1].of)) \in Nat
      BY <1>2, <2>2, PieceIs, FirstByte
    <3>5. \A i \in DOMAIN read' : i <= Len(Bytes(read'[1].of)) /\ 1 + i - 1 = i
      BY <3>1, <3>4
    <3>6. QED
      BY <2>3, <3>3, <3>4, <3>5 DEF OneMessage
  <2>6. QED
    BY <2>3, <2>4, <2>5
<1>5. QED
  BY <1>3, <1>4

\* No byte is lost until a call returns, and the call that returns has used up
\* bytes of one message, unless two keys or more had arrived behind the Esc key:
\* those are gone.  A single key read ahead behind Esc comes back.
THEOREM BytesAreAccounted == KeyboardSpec => BytesAccounted
<1>1. ASSUME StreamInv, ReadingInv, [KeyboardNext]_keyboardVars, event = Nothing
      PROVE  /\ IsPrefix(read \o buffer, read' \o buffer')
             /\ event' # Nothing => OneMessage(read') \/ SwallowedByEsc(read')
  <2>1. IsPrefix(read \o buffer, read' \o buffer')
    BY <1>1, BytesStay
  <2>2. ASSUME event' # Nothing PROVE ReadEvent
    <3>1. ASSUME NEW m \in session, Send(m) PROVE FALSE
      BY <1>1, <2>2, <3>1, Zenon DEF Send, TerminalWrites
    <3>2. ~Handle
      BY <1>1 DEF Handle
    <3>3. ASSUME UNCHANGED keyboardVars PROVE FALSE
      BY <1>1, <2>2, <3>3, Zenon DEF keyboardVars, input
    <3>4. QED
      BY <1>1, <3>1, <3>2, <3>3 DEF KeyboardNext, ReadKey
  <2>3. QED
    BY <1>1, <2>1, <2>2, ReturnedRead
<1>2. StreamInv /\ ReadingInv /\ [KeyboardNext]_keyboardVars =>
        [event = Nothing =>
           /\ IsPrefix(read \o buffer, read' \o buffer')
           /\ event' # Nothing => OneMessage(read') \/ SwallowedByEsc(read')]_keyboardVars
  BY <1>1
<1>3. QED
  BY <1>2, StreamInit, StreamKept, ReadingInit, ReadingKept, PTL DEF KeyboardSpec, BytesAccounted

\* Whatever the terminal writes and whenever its bytes arrive: the Esc key is
\* never taken for another one, and a message read from its beginning is read
\* to its end and means what was pressed, unless a read found nothing more.
THEOREM ParserDecodes == KeyboardSpec => KeysDecoded
<1>1. StreamInv /\ ReadingInv /\ [KeyboardNext]_keyboardVars =>
        [EscIsEsc /\ WholeIsDecoded]_keyboardVars
  BY KeysAreDecoded
<1>2. QED
  BY <1>1, StreamInit, StreamKept, ReadingInit, ReadingKept, PTL DEF KeyboardSpec, KeysDecoded

-----------------------------------------------------------------------------
(***************************************************************************)
(* What keys do.                                                           *)
(***************************************************************************)

Middle == DOMAIN Digit \cup {"O", "P", "Q", "R", "S", "[", "Z", "<", ";", "~", "M", "m"}

\* A byte in the middle of a message is none that opens a prompt or ends one.
LEMMA MiddleByte ==
  ASSUME NEW p \in Pieces, p.at # 1
  PROVE  /\ p.byte \in Middle
         /\ p.byte = "Q" => p.of = "F2" /\ p.at = 3
         /\ p.byte = "[" => p.at = 2
<1> DEFINE m == p.of
           t == Bytes(m)
           i == p.at
<1>1. m \in Messages /\ i \in 1..Len(t) /\ p.byte = t[i]
  BY PieceIs
<1>2. m \in Plain \cup {"Return"} \/ m \in ShortNames \cup LongNames \cup Reports
  BY <1>1, SeveralAre DEF Several
<1>3. m \notin Plain \cup {"Return"}
  <2> SUFFICES ASSUME m \in Plain \cup {"Return"} PROVE FALSE
    OBVIOUS
  <2>1. Len(t) = 1
    BY BytesOfOne
  <2>2. i \in 1..1
    BY <1>1, <2>1, Zenon
  <2>3. QED
    BY <2>2
<1>4. ASSUME m \in ShortNames
      PROVE  t[i] \in Middle /\ (t[i] = "Q" => m = "F2" /\ i = 3) /\ (t[i] = "[" => i = 2)
  <2>1. Len(t) = 3 /\ \A j \in 2..3 : t[j] \in {"O", "P", "Q", "R", "S", "[", "Z"}
    BY <1>4, BytesOfShort
  <2>2. i \in 1..3
    BY <1>1, <2>1, Zenon
  <2>3. i \in 2..3 /\ (i = 2 \/ i = 3)
    BY <2>2
  <2>4. t[2] \in {"O", "["} /\ t[3] \in {"P", "Q", "R", "S", "Z"} /\ (t[3] = "Q" => m = "F2")
    BY <1>4, ShortBytes DEF ShortNames
  <2> HIDE DEF t, i
  <2>5. QED
    BY <2>1, <2>3, <2>4 DEF Middle
<1>5. ASSUME m \in LongNames
      PROVE  t[i] \in Middle /\ t[i] # "Q" /\ (t[i] = "[" => i = 2)
  <2>1. /\ Len(t) = 5 /\ t[2] = "[" /\ t[3] \in DOMAIN Digit /\ t[4] \in DOMAIN Digit /\ t[5] = "~"
    BY <1>5, BytesOfLong
  <2>2. i \in 1..5
    BY <1>1, <2>1, Zenon
  <2>3. i \in {2, 3, 4, 5}
    BY <2>2
  <2> HIDE DEF t, i
  <2>4. QED
    BY <2>1, <2>3, DigitsAre DEF Middle
<1>6. ASSUME m \in Reports
      PROVE  t[i] \in Middle /\ t[i] # "Q" /\ (t[i] = "[" => i = 2)
  <2>1. /\ Len(t) = 9 /\ t[2] = "[" /\ t[3] = "<" /\ t[4] \in {"0", "2"}
        /\ t[5] = ";" /\ t[6] = "2" /\ t[7] = ";" /\ t[8] = "9" /\ t[9] \in {"M", "m"}
    BY <1>6, BytesOfReport
  <2>2. i \in 1..9
    BY <1>1, <2>1, Zenon
  <2>3. i \in {2, 3, 4, 5, 6, 7, 8, 9}
    BY <2>2
  <2> HIDE DEF t, i
  <2>4. QED
    BY <2>1, <2>3, DigitsAre DEF Middle
<1>7. QED
  BY <1>1, <1>2, <1>3, <1>4, <1>5, <1>6

\* One byte that is not Esc is a whole message, or one of the middle.
LEMMA OneByte ==
  ASSUME NEW r, Reads(r), Len(r) = 1, r[1].byte # "Esc"
  PROVE  /\ r[1] \in Pieces
         /\ \/ /\ Whole(r) /\ Len(Bytes(r[1].of)) = 1
               /\ r[1].of = r[1].byte \/ r[1].byte = "CR"
            \/ r[1].at # 1
<1>1. r \in Seq(Pieces) /\ r # <<>>
  <2>1. Len(<<>>) = 0 /\ 0 # 1
    OBVIOUS
  <2>2. QED
    BY <2>1, Zenon DEF Reads
<1>2. r[1] \in Pieces
  <2>1. \A q \in Seq(Pieces) : q # <<>> => q[1] \in Pieces
    OBVIOUS
  <2>2. QED
    BY <1>1, <2>1, Zenon
<1>3. ASSUME r[1].at = 1
      PROVE  Whole(r) /\ Len(Bytes(r[1].of)) = 1 /\ (r[1].of = r[1].byte \/ r[1].byte = "CR")
  <2>1. Len(Bytes(r[1].of)) = 1 /\ (r[1].of = r[1].byte \/ (r[1].of = "Return" /\ r[1].byte = "CR"))
    BY <1>2, <1>3, BeginningIsOne
  <2>2. r[1].of \in Messages
    BY <1>2, PieceIs
  <2>3. Len(r) = Len(Bytes(r[1].of))
    BY <2>1, Zenon
  <2>4. QED
    BY <1>1, <1>3, <2>1, <2>2, <2>3, WholeRead, Zenon
<1>4. QED
  BY <1>2, <1>3

\* The keys of the function bar.
LEMMA ButtonsAre ==
  /\ FunctionKeys \subseteq ShortNames \cup LongNames
  /\ \A k \in ShortNames \cup LongNames : k \in Several /\ k \notin Plain
BY ShortKeysAre, LongNamesAre, SeveralAre, DigitsNotMessages DEF ShortNames, LongNames, FunctionKeys

\* The event of a call is a key of its bytes, Esc, a part of a report that
\* does nothing, or what a whole message means; a click may be of a button.
LEMMA HandledAs ==
  ASSUME StreamInv, ReadingInv, Handle
  PROVE  /\ read # <<>>
         /\ \/ Len(read) = 1 /\ read[1].byte # "Esc" /\ read[1].byte \in Plain /\ HandleKey(read[1].byte)
            \/ HandleKey("Esc")
            \/ Last(read).of \in Reports /\ Idle /\ UNCHANGED dialogs
            \/ /\ Whole(read)
               /\ \/ \E k \in ShortNames \cup LongNames : HandleKey(k)
                  \/ /\ Idle /\ UNCHANGED <<open, settings, prompt, typed>>
                     /\ selected' \in {TRUE, FALSE, selected}
<1>1. event # Nothing /\ read \in Seq(Pieces)
  BY DEF Handle, StreamInv
<1>2. Usual(read, event)
  BY <1>1, Zenon DEF ReadingInv
<1>3. read # <<>> /\ read[1] \in Pieces
  BY <1>1, <1>2 DEF Usual
<1>4. (CASE event.key = "unusable" -> Idle /\ UNCHANGED dialogs
         [] event.key = "Mouse" -> IF event.released THEN \E place \in Under : Clicked(place)
                                   ELSE Idle /\ UNCHANGED dialogs
         [] OTHER -> HandleKey(event.key))
  BY Zenon DEF Handle
<1>5. ASSUME NEW k \in Plain \cup Several, event = KeyEvent(k) PROVE HandleKey(k)
  <2>1. event.key = k
    BY <1>5 DEF KeyEvent
  <2>2. k # "unusable" /\ k # "Mouse"
    BY NoEvent
  <2>3. QED
    BY <1>4, <2>1, <2>2, Zenon
<1>6. CASE Len(read) = 1 /\ read[1].byte # "Esc" /\ event = KeyEvent(read[1].byte)
  BY <1>3, <1>5, <1>6, BytesArePlain, Zenon
<1>7. CASE event = KeyEvent("Esc")
  <2>1. "Esc" \in Plain
    BY DigitsNotMessages
  <2>2. QED
    BY <1>3, <1>5, <1>7, <2>1
<1>8. CASE event = Unusable /\ read[1].of \in Reports /\ Last(read).of \in Reports
  <2>1. event.key = "unusable"
    BY <1>8 DEF Unusable
  <2>2. Idle /\ UNCHANGED dialogs
    BY <1>4, <2>1, Zenon
  <2>3. QED
    BY <1>3, <1>8, <2>2
<1>9. CASE Whole(read) /\ read[1].of \in Several /\ event = Meaning(read[1].of)
  <2>1. CASE read[1].of \in ShortNames \cup LongNames
    BY <1>3, <1>5, <1>9, <2>1, MeaningIs
  <2>2. CASE read[1].of \in Reports
    <3>1. event = Mouse(1, 8, read[1].of = "Release")
      BY <1>9, <2>2, MeaningIs, Zenon
    <3>2. event.key = "Mouse"
      BY <3>1 DEF Mouse
    <3>3. (\E place \in Under : Clicked(place)) \/ (Idle /\ UNCHANGED dialogs)
      <4>1. "Mouse" # "unusable"
        OBVIOUS
      <4>2. QED
        BY <1>4, <3>2, <4>1, Zenon
    <3>4. ASSUME Idle, UNCHANGED dialogs
          PROVE  Idle /\ UNCHANGED <<open, settings, prompt, typed>> /\ selected' \in {TRUE, FALSE, selected}
      BY <3>4 DEF dialogs
    <3>5. ASSUME NEW place \in Under, Clicked(place)
          PROVE  \/ \E k \in ShortNames \cup LongNames : HandleKey(k)
                 \/ /\ Idle /\ UNCHANGED <<open, settings, prompt, typed>>
                    /\ selected' \in {TRUE, FALSE, selected}
      <4>1. place \in {"row", "header", "nothing"} \/ place \in ShortNames \cup LongNames
        <5>1. Under \subseteq {"row", "header", "nothing"} \cup FunctionKeys
          BY KeyboardAssumption, Zenon
        <5>2. QED
          BY <5>1, ButtonsAre
      <4>2. CASE place \notin {"row", "header", "nothing"} /\ HandleKey(place)
        BY <4>1, <4>2
      <4>3. CASE /\ place \in {"row", "header", "nothing"}
                 /\ selected' \in CASE place = "row" -> {TRUE}
                                    [] place = "header" -> {selected, FALSE}
                                    [] OTHER -> {selected}
                 /\ Idle /\ UNCHANGED <<open, settings, prompt, typed>>
        <5>1. selected' \in {TRUE, FALSE, selected}
          BY <4>3
        <5>2. QED
          BY <4>3, <5>1
      <4>4. QED
        BY <3>5, <4>2, <4>3, Zenon DEF Clicked
    <3>6. QED
      BY <1>3, <1>9, <3>3, <3>4, <3>5
  <2>3. QED
    BY <1>9, <2>1, <2>2, SeveralAre
<1>10. QED
  BY <1>2, <1>6, <1>7, <1>8, <1>9, Zenon DEF Usual

DialogsOK ==
  /\ open \in {"none", "help", "setup", "detail"} /\ field \in Range(Fields)
  /\ theme \in Range(Themes) /\ cached \in BOOLEAN /\ refresh \in Lowest..Highest
  /\ prompt \in Prompts
  /\ open # "none" => prompt = "None"
  /\ selected \in BOOLEAN /\ running \in BOOLEAN

Keys == Plain \cup ShortNames \cup LongNames

LEMMA LineFeedsAre ==
  /\ LineFeed \subseteq Plain /\ LineFeed \cap Middle = {} /\ "Esc" \notin LineFeed
  /\ Quits \subseteq Keys /\ Quits \cap Middle \subseteq {"Q"} /\ {"[", "]"} \cap Middle = {"["}
  /\ {"k", "F9", "CR"} \cap Middle = {} /\ "CR" \notin Printable /\ "Esc" \notin Printable
  /\ Printable \cap (ShortNames \cup LongNames) = {}
  /\ "Esc" \notin Quits \cup {"[", "]", "k", "F9"}
BY DigitsAre DEF LineFeed, Plain, Middle, Quits, Keys, Printable, Letters, ShortNames, LongNames

LEMMA FieldsAre ==
  /\ DOMAIN Fields = 1..4 /\ \A i \in 1..4 : Fields[i] \in Range(Fields)
  /\ field \in Range(Fields) => FieldAt \in 1..4
<1>1. DOMAIN Fields = 1..4
  BY DEF Fields
<1> DEFINE F == Fields
<1>2. \A i \in 1..4 : F[i] \in Range(F)
  <2> HIDE DEF F
  <2>1. DOMAIN F = 1..4
    BY <1>1 DEF F
  <2>2. QED
    BY <2>1 DEF Range
<1>3. field \in Range(Fields) => \E i \in 1..4 : Fields[i] = field
  BY <1>1 DEF Range
<1>4. QED
  BY <1>1, <1>2, <1>3 DEF FieldAt

LEMMA ClampIn ==
  ASSUME NEW n \in Int, NEW low \in Int, NEW high \in Int, low <= high
  PROVE  Clamp(n, low, high) \in low..high
BY DEF Clamp

LEMMA RefreshLimits == Lowest \in Int /\ Highest \in Int /\ Lowest <= 250 /\ 5000 <= Highest
BY DEF Lowest, Highest

LEMMA RefreshIn ==
  refresh \in Lowest..Highest => Slower(refresh) \in Lowest..Highest /\ Faster(refresh) \in Lowest..Highest
<1> SUFFICES ASSUME refresh \in Lowest..Highest
             PROVE  Slower(refresh) \in Lowest..Highest /\ Faster(refresh) \in Lowest..Highest
  OBVIOUS
<1>1. Lowest \in Int /\ Highest \in Int /\ Lowest <= 250 /\ 5000 <= Highest
  BY RefreshLimits
<1>2. refresh \in Int
  BY <1>1
<1> DEFINE low == 250
           high == 5000
<1>3. low \in Int /\ high \in Int /\ low <= high /\ Lowest <= low /\ high <= Highest
  BY <1>1
<1>4. refresh + 250 \in Int /\ refresh - 250 \in Int
  BY <1>2
<1>5. Slower(refresh) = Clamp(refresh + 250, low, high) /\ Faster(refresh) = Clamp(refresh - 250, low, high)
  BY DEF Slower, Faster
<1> HIDE DEF low, high
<1>6. Slower(refresh) \in low..high /\ Faster(refresh) \in low..high
  BY <1>3, <1>4, <1>5, ClampIn
<1>7. QED
  BY <1>1, <1>3, <1>6

\* The settings change as the popup allows.
LEMMA SetupKeeps ==
  ASSUME DialogsOK, NEW k, SetupKey(k)
  PROVE  /\ field' \in Range(Fields) /\ theme' \in Range(Themes) /\ cached' \in BOOLEAN
         /\ refresh' \in Lowest..Highest
<1>1. field \in Range(Fields) /\ theme \in Range(Themes) /\ cached \in BOOLEAN /\ refresh \in Lowest..Highest
  BY DEF DialogsOK
<1>2. field' \in Range(Fields)
  <2> DEFINE up == Clamp(FieldAt - 1, 1, 4)
             down == Clamp(FieldAt + 1, 1, 4)
  <2>1. FieldAt - 1 \in Int /\ FieldAt + 1 \in Int
    BY <1>1, FieldsAre
  <2>2. up \in 1..4 /\ down \in 1..4
    <3>1. \A n \in Int : Clamp(n, 1, 4) \in 1..4
      BY DEF Clamp
    <3>2. QED
      BY <2>1, <3>1, Zenon
  <2>3. field' \in {Fields[up], Fields[down], field}
    <3> HIDE DEF up, down
    <3>1. field' = CASE k = "Up" -> Fields[up] [] k = "Down" -> Fields[down] [] OTHER -> field
      BY DEF SetupKey, up, down
    <3>2. QED
      BY <3>1
  <2> HIDE DEF up, down
  <2>4. QED
    BY <1>1, <2>2, <2>3, FieldsAre
<1>3. theme' \in {theme, "green", "mono", "apple"}
  BY Zenon DEF SetupKey
<1>4. {"green", "mono", "apple"} \subseteq Range(Themes)
  <2>1. /\ 1 \in DOMAIN Themes /\ 2 \in DOMAIN Themes /\ 3 \in DOMAIN Themes
        /\ Themes[1] = "apple" /\ Themes[2] = "green" /\ Themes[3] = "mono"
    BY DEF Themes
  <2>2. QED
    BY <2>1 DEF Range
<1>5. cached' \in BOOLEAN
  BY Zenon DEF SetupKey
<1>6. refresh' \in {refresh, Slower(refresh), Faster(refresh)}
  BY Zenon DEF SetupKey
<1>7. QED
  BY <1>1, <1>2, <1>3, <1>4, <1>5, <1>6, RefreshIn

\* Of what HandleKey does: the dialogs stay as they should be; only the keys
\* that open the signal prompt open it, and Esc ends every prompt; what a key
\* does to a process or to mtop; and how the typed number changes.
Done(k) ==
  /\ open' \in {"none", "help", "setup", "detail"} /\ field' \in Range(Fields)
  /\ theme' \in Range(Themes) /\ cached' \in BOOLEAN /\ refresh' \in Lowest..Highest
  /\ prompt' \in Prompts
  /\ open' # "none" => prompt' = "None"
  /\ selected' \in BOOLEAN /\ running' \in BOOLEAN
  /\ prompt' = "Signal" => k \in {"k", "F9"} \/ (prompt = "Signal" /\ k # "Esc")
  /\ \/ did' = [what |-> "nothing"]
     \/ k \in Quits /\ did' = [what |-> "quit", bytes |-> read]
     \/ k \in {"[", "]"} /\ \E n : did' = [what |-> "nice", number |-> n, typed |-> typed, bytes |-> read]
     \/ k \in LineFeed /\ \E n : did' = [what |-> "signal", number |-> n, typed |-> typed, bytes |-> read]
  /\ \/ typed' \in {typed, <<>>, Default}
     \/ typed # <<>> /\ typed' = Front(typed)
     \/ prompt = "Signal" /\ k \in Printable /\ typed' = Append(typed, read[1])

LEMMA PopupKeys == ASSUME DialogsOK, NEW k, PopupKey(k) PROVE Done(k)
<1>1. open # "none" /\ prompt = "None"
  BY DEF PopupKey, DialogsOK
<1>2. /\ open' \in {"none", open} /\ prompt' = prompt /\ typed' = typed /\ selected' = selected
      /\ Idle
  BY Zenon DEF PopupKey
<1>3. did' = [what |-> "nothing"] /\ running' = running
  BY <1>2 DEF Idle
<1>4. /\ field' \in Range(Fields) /\ theme' \in Range(Themes) /\ cached' \in BOOLEAN
      /\ refresh' \in Lowest..Highest
  <2>1. CASE SetupKey(k)
    BY <2>1, SetupKeeps
  <2>2. CASE UNCHANGED settings
    <3>1. field' = field /\ theme' = theme /\ cached' = cached /\ refresh' = refresh
      BY <2>2 DEF settings
    <3>2. QED
      BY <3>1, Zenon DEF DialogsOK
  <2>3. QED
    BY <2>1, <2>2, Zenon DEF PopupKey
<1>5. "None" # "Signal"
  OBVIOUS
<1>6. open \in {"none", "help", "setup", "detail"} /\ prompt \in Prompts /\ selected \in BOOLEAN
      /\ running \in BOOLEAN
  BY Zenon DEF DialogsOK
<1>7. /\ open' \in {"none", "help", "setup", "detail"} /\ prompt' \in Prompts /\ prompt' = "None"
      /\ selected' \in BOOLEAN /\ running' \in BOOLEAN
  BY <1>1, <1>2, <1>3, <1>6
<1>8. QED
  BY <1>2, <1>3, <1>4, <1>5, <1>7 DEF Done

LEMMA SettingsStay ==
  ASSUME DialogsOK, UNCHANGED settings
  PROVE  /\ field' \in Range(Fields) /\ theme' \in Range(Themes) /\ cached' \in BOOLEAN
         /\ refresh' \in Lowest..Highest
<1>1. field' = field /\ theme' = theme /\ cached' = cached /\ refresh' = refresh
  BY DEF settings
<1>2. QED
  BY <1>1, Zenon DEF DialogsOK

LEMMA PromptKeys == ASSUME DialogsOK, NEW k, PromptKey(k) PROVE Done(k)
<1>1. open = "none" /\ open' = open /\ UNCHANGED settings
  BY DEF PromptKey
<1>2. /\ field' \in Range(Fields) /\ theme' \in Range(Themes) /\ cached' \in BOOLEAN
      /\ refresh' \in Lowest..Highest
  BY <1>1, SettingsStay
<1>3. prompt \in Prompts /\ selected \in BOOLEAN /\ running \in BOOLEAN
  BY Zenon DEF DialogsOK
<1>4. open' \in {"none", "help", "setup", "detail"} /\ ~(open' # "none")
  BY <1>1
<1>5. "None" \in Prompts /\ "None" # "Signal"
  BY DEF Prompts
<1>6. CASE EndPrompt(k)
  <2>1. prompt' = "None" /\ typed' = <<>> /\ selected' \in BOOLEAN /\ k \in {"Esc"} \cup LineFeed
    BY <1>6, Zenon DEF EndPrompt
  <2>2. /\ running' = running
        /\ \/ did' = [what |-> "nothing"]
           \/ k \in LineFeed /\ \E n : did' = [what |-> "signal", number |-> n, typed |-> typed, bytes |-> read]
    <3>1. CASE prompt = "Signal" /\ k # "Esc"
      <4>1. Acts("signal", SignalNumber)
        BY <1>6, <3>1, Zenon DEF EndPrompt
      <4>2. k \in LineFeed
        BY <2>1, <3>1
      <4>3. QED
        BY <4>1, <4>2, Zenon DEF Acts
    <3>2. CASE ~(prompt = "Signal" /\ k # "Esc")
      <4>1. Idle
        BY <1>6, <3>2, Zenon DEF EndPrompt
      <4>2. QED
        BY <4>1, Zenon DEF Idle
    <3>3. QED
      BY <3>1, <3>2, Zenon
  <2>3. QED
    BY <1>2, <1>3, <1>4, <1>5, <2>1, <2>2, Zenon DEF Done
<1>7. CASE EditPrompt(k)
  <2>1. k # "Esc" /\ prompt' \in {prompt, "None"} /\ Idle
    BY <1>7, Zenon DEF EditPrompt
  <2>2. selected' \in BOOLEAN
    <3>1. selected' \in {selected, FALSE} \/ selected' \in {selected}
      BY <1>7, Zenon DEF EditPrompt
    <3>2. QED
      BY <1>3, <3>1, Zenon
  <2>3. \/ typed' \in {typed, <<>>, Default}
        \/ typed # <<>> /\ typed' = Front(typed)
        \/ prompt = "Signal" /\ k \in Printable /\ typed' = Append(typed, read[1])
    BY <1>7, Zenon DEF EditPrompt
  <2>4. running' = running /\ did' = [what |-> "nothing"]
    BY <2>1, Zenon DEF Idle
  <2>5. prompt' \in Prompts /\ (prompt' = "Signal" => prompt = "Signal")
    BY <1>3, <1>5, <2>1
  <2>6. QED
    BY <1>2, <1>3, <1>4, <2>1, <2>2, <2>3, <2>4, <2>5, Zenon DEF Done
<1>8. QED
  BY <1>6, <1>7 DEF PromptKey

LEMMA TableKeys == ASSUME DialogsOK, NEW k, TableKey(k) PROVE Done(k)
<1>1. open = "none" /\ prompt = "None" /\ UNCHANGED settings
  BY DEF TableKey
<1>2. /\ field' \in Range(Fields) /\ theme' \in Range(Themes) /\ cached' \in BOOLEAN
      /\ refresh' \in Lowest..Highest
  BY <1>1, SettingsStay
<1>3. selected \in BOOLEAN /\ running \in BOOLEAN
  BY Zenon DEF DialogsOK
<1>4. /\ DOMAIN Popups \subseteq {"F1", "F2", "d"}
      /\ \A j \in DOMAIN Popups : Popups[j] \in {"help", "setup", "detail"}
  BY DEF Popups
<1>5. /\ DOMAIN Opening = {"k", "F9", "F3", "F4", "F6"}
      /\ Opening["k"] = "Signal" /\ Opening["F9"] = "Signal" /\ Opening["F3"] = "Search"
      /\ Opening["F4"] = "Filter" /\ Opening["F6"] = "Sort"
  BY DEF Opening
<1>6. /\ open' = IF k \in DOMAIN Popups THEN Popups[k] ELSE open
      /\ prompt' = IF k \in DOMAIN Opening THEN Opening[k] ELSE prompt
  BY Zenon DEF TableKey
<1>7. /\ open' \in {"none", "help", "setup", "detail"} /\ prompt' \in Prompts
      /\ open' # "none" => prompt' = "None"
      /\ prompt' = "Signal" => k \in {"k", "F9"}
  BY <1>1, <1>4, <1>5, <1>6 DEF Prompts
<1>8. selected' \in BOOLEAN
  <2>1. selected' \in {selected} \/ selected' \in BOOLEAN
    BY Zenon DEF TableKey
  <2>2. QED
    BY <1>3, <2>1
<1>9. typed' \in {typed, Default}
  BY Zenon DEF TableKey
<1>10. (CASE k \in Quits -> running' = FALSE /\ did' = [what |-> "quit", bytes |-> read]
          [] k = "[" -> Acts("nice", 1)
          [] k = "]" -> Acts("nice", -1)
          [] OTHER -> Idle)
  BY Zenon DEF TableKey
<1>11. /\ running' \in BOOLEAN
       /\ \/ did' = [what |-> "nothing"]
          \/ k \in Quits /\ did' = [what |-> "quit", bytes |-> read]
          \/ k \in {"[", "]"} /\ \E n : did' = [what |-> "nice", number |-> n, typed |-> typed, bytes |-> read]
  <2>1. ASSUME k \in Quits PROVE running' \in BOOLEAN /\ did' = [what |-> "quit", bytes |-> read]
    <3>1. "[" \notin Quits /\ "]" \notin Quits
      BY DEF Quits
    <3>2. QED
      BY <1>10, <2>1, <3>1, Zenon
  <2>2. \A n : Acts("nice", n) =>
          /\ running' = running
          /\ \/ did' = [what |-> "nothing"]
             \/ \E j : did' = [what |-> "nice", number |-> j, typed |-> typed, bytes |-> read]
    BY Zenon DEF Acts
  <2>3. ASSUME k \notin Quits, k \in {"[", "]"} PROVE \E n : Acts("nice", n)
    <3>1. "[" # "]"
      OBVIOUS
    <3>2. QED
      BY <1>10, <2>3, <3>1, Zenon
  <2>4. ASSUME k \notin Quits, k \notin {"[", "]"} PROVE Idle
    BY <1>10, <2>4, Zenon
  <2>5. Idle => running' = running /\ did' = [what |-> "nothing"]
    BY Zenon DEF Idle
  <2>6. QED
    BY <1>3, <2>1, <2>2, <2>3, <2>4, <2>5, Zenon
<1>12. QED
  BY <1>2, <1>7, <1>8, <1>9, <1>11, Zenon DEF Done

LEMMA KeyDone == ASSUME DialogsOK, NEW k, HandleKey(k) PROVE Done(k)
BY PopupKeys, PromptKeys, TableKeys DEF HandleKey

-----------------------------------------------------------------------------
(***************************************************************************)
(* What the keys of the user's messages and of their pieces do.            *)
(***************************************************************************)

\* The characters the signal prompt can hold.
Typeable == {p \in Pieces : p.of = p.byte \/ p.of \in Reports}
TypedInv == typed \in Seq(Typeable)

\* While the rest of a key that was cut is still to be read, the signal prompt
\* is closed: the Esc that the cut key began with has closed it.
CutInv == Stream # <<>> /\ Stream[1].at # 1 /\ Stream[1].of \notin Reports => prompt # "Signal"

LEMMA HandledDone ==
  ASSUME StreamInv, ReadingInv, DialogsOK, Handle
  PROVE  \/ \E k : /\ Done(k)
                   /\ \/ Len(read) = 1 /\ read[1].byte = k /\ k # "Esc"
                      \/ k = "Esc"
                      \/ Whole(read) /\ k \in ShortNames \cup LongNames
         \/ /\ Last(read).of \in Reports \/ Whole(read)
            /\ did' = [what |-> "nothing"] /\ running' = running /\ selected' \in BOOLEAN
            /\ UNCHANGED <<open, settings, prompt, typed>>
<1>1. \/ Len(read) = 1 /\ read[1].byte # "Esc" /\ HandleKey(read[1].byte)
      \/ HandleKey("Esc")
      \/ Last(read).of \in Reports /\ Idle /\ UNCHANGED dialogs
      \/ /\ Whole(read)
         /\ \/ \E k \in ShortNames \cup LongNames : HandleKey(k)
            \/ /\ Idle /\ UNCHANGED <<open, settings, prompt, typed>>
               /\ selected' \in {TRUE, FALSE, selected}
  BY HandledAs, Zenon
<1>2. \A k : HandleKey(k) => Done(k)
  BY KeyDone
<1>3. Idle => did' = [what |-> "nothing"] /\ running' = running
  BY Zenon DEF Idle
<1>4. selected \in BOOLEAN
  BY Zenon DEF DialogsOK
<1>5. UNCHANGED dialogs => selected' = selected /\ UNCHANGED <<open, settings, prompt, typed>>
  BY Zenon DEF dialogs
<1>6. selected' \in {TRUE, FALSE, selected} => selected' \in BOOLEAN
  BY <1>4
<1>7. CASE Len(read) = 1 /\ read[1].byte # "Esc" /\ HandleKey(read[1].byte)
  BY <1>2, <1>7, Zenon
<1>8. CASE HandleKey("Esc")
  BY <1>2, <1>8, Zenon
<1>9. CASE Last(read).of \in Reports /\ Idle /\ UNCHANGED dialogs
  BY <1>3, <1>4, <1>5, <1>9, Zenon
<1>10. CASE Whole(read) /\ \E k \in ShortNames \cup LongNames : HandleKey(k)
  BY <1>2, <1>10, Zenon
<1>11. CASE /\ Whole(read) /\ Idle /\ UNCHANGED <<open, settings, prompt, typed>>
            /\ selected' \in {TRUE, FALSE, selected}
  BY <1>3, <1>6, <1>11, Zenon
<1>12. QED
  BY <1>1, <1>7, <1>8, <1>9, <1>10, <1>11, Zenon

\* What stands behind the bytes of a call.
LEMMA BehindRead ==
  ASSUME StreamInv, read # <<>>, buffer # <<>>
  PROVE  Follows(Last(read), buffer[1])
<1> DEFINE n == Len(read)
           t == read \o buffer
<1>1. read \in Seq(Pieces) /\ buffer \in Seq(Pieces) /\ n \in Nat \ {0} /\ Len(buffer) \in Nat \ {0}
  BY DEF StreamInv
<1>2. Len(t) = n + Len(buffer) /\ t[n] = read[n] /\ t[n + 1] = buffer[1]
  BY <1>1, StreamParts
<1>3. Chained(t)
  BY Zenon DEF StreamInv, Stream
<1>4. Last(read) = read[n]
  BY DEF Last
<1> HIDE DEF t, n
<1>5. n \in 1..(Len(t) - 1)
  BY <1>1, <1>2
<1>6. QED
  BY <1>2, <1>3, <1>4, <1>5, Zenon DEF Chained

LEMMA BehindWhole ==
  ASSUME StreamInv, Whole(read), buffer # <<>>
  PROVE  buffer[1].at = 1
<1>1. read # <<>> /\ Text(read) = Bytes(read[1].of) /\ read[1].at = 1
  BY DEF Whole
<1>2. read \in Seq(Pieces) /\ Chained(read)
  BY ReadsOfStream DEF Reads
<1> DEFINE n == Len(read)
           m == read[1].of
<1>3. n \in Nat \ {0} /\ Len(Text(read)) = n
  BY <1>1, <1>2 DEF Text
<1>4. n = Len(Bytes(m))
  BY <1>1, <1>3, Zenon
<1>5. read[n].of = m /\ read[n].at = n
  <2>1. \A i \in 1..n : i <= Len(Bytes(m)) => read[i].of = m /\ read[i].at = i
    BY <1>1, <1>2, ReadingIsMessage
  <2>2. n \in 1..n /\ n <= n
    BY <1>3
  <2>3. QED
    BY <1>4, <2>1, <2>2, Zenon
<1>6. Last(read) = read[n]
  BY DEF Last
<1>7. Follows(read[n], buffer[1])
  BY <1>1, <1>6, BehindRead, Zenon
<1> HIDE DEF n, m
<1>8. ~(n < n)
  BY <1>3
<1>9. QED
  BY <1>4, <1>5, <1>7, <1>8, Zenon DEF Follows

\* A single byte is a whole message, or one from the middle of a message that
\* was cut, which the signal prompt sees of mouse reports only.
LEMMA SingleByte ==
  ASSUME StreamInv, CutInv, Len(read) = 1, read[1].byte # "Esc"
  PROVE  /\ read[1] \in Pieces /\ read # <<>>
         /\ \/ /\ Whole(read) /\ (read[1].of = read[1].byte \/ read[1].byte = "CR")
            \/ /\ read[1].at # 1 /\ read[1].byte \in Middle
               /\ read[1].byte = "Q" => read[1].of = "F2" /\ read[1].at = 3
               /\ read[1].byte = "[" => read[1].at = 2
               /\ prompt = "Signal" => read[1].of \in Reports
<1>1. Reads(read) /\ read \in Seq(Pieces) /\ buffer \in Seq(Pieces)
  BY ReadsOfStream DEF StreamInv
<1>2. /\ read[1] \in Pieces
      /\ \/ Whole(read) /\ (read[1].of = read[1].byte \/ read[1].byte = "CR")
         \/ read[1].at # 1
  BY <1>1, OneByte, Zenon
<1>3. read # <<>> /\ 1 \in 1..Len(read)
  BY <1>1
<1>4. Stream # <<>> /\ Stream[1] = read[1]
  <2> DEFINE t == read \o buffer
  <2>1. Len(t) = 1 + Len(buffer) /\ Len(buffer) \in Nat /\ t[1] = read[1]
    BY <1>1, <1>3, StreamParts
  <2> HIDE DEF t
  <2>2. t # <<>>
    BY <2>1
  <2>3. QED
    BY <2>1, <2>2, Zenon DEF t, Stream
<1>5. read[1].at # 1 =>
        /\ read[1].byte \in Middle
        /\ read[1].byte = "Q" => read[1].of = "F2" /\ read[1].at = 3
        /\ read[1].byte = "[" => read[1].at = 2
  BY <1>2, MiddleByte, Zenon
<1>6. read[1].at # 1 /\ prompt = "Signal" => read[1].of \in Reports
  BY <1>4, Zenon DEF CutInv
<1>7. QED
  BY <1>2, <1>3, <1>5, <1>6, Zenon

LEMMA HandleTyped ==
  ASSUME StreamInv, ReadingInv, DialogsOK, TypedInv, CutInv, Handle
  PROVE  TypedInv'
<1>1. typed \in Seq(Typeable)
  BY DEF TypedInv
<1>2. Default \in Seq(Typeable)
  <2>1. \A b \in {"1", "5"} : [byte |-> b, at |-> 1, of |-> b] \in Typeable
    <3> SUFFICES ASSUME NEW b \in {"1", "5"} PROVE [byte |-> b, at |-> 1, of |-> b] \in Typeable
      OBVIOUS
    <3>1. b \in Plain /\ b \in Messages
      BY DigitsAre DEF Plain, Messages
    <3>2. Bytes(b) = <<b>>
      BY <3>1, PlainBytes
    <3>3. Len(Bytes(b)) = 1 /\ Bytes(b)[1] = b /\ 1 \in 1..1
      BY <3>2
    <3>4. Piece(b, 1) \in Pieces
      BY <3>1, <3>3, PieceOf
    <3>5. QED
      BY <3>3, <3>4 DEF Piece, Typeable
  <2>2. QED
    BY <2>1 DEF Default
<1>3. <<>> \in Seq(Typeable)
  OBVIOUS
<1>4. typed # <<>> => Front(typed) \in Seq(Typeable)
  <2> SUFFICES ASSUME typed # <<>> PROVE Front(typed) \in Seq(Typeable)
    OBVIOUS
  <2> DEFINE n == Len(typed)
  <2>1. n \in Nat \ {0}
    BY <1>1
  <2>2. \A i \in 1..(n - 1) : typed[i] \in Typeable
    BY <1>1, <2>1
  <2>3. n - 1 \in Nat
    BY <2>1
  <2> HIDE DEF n
  <2>4. SubSeq(typed, 1, n - 1) \in Seq(Typeable)
    BY <1>1, <2>1, <2>2, <2>3, SubSeqProperties
  <2>5. QED
    BY <2>4 DEF Front, n
<1>5. typed' \in {typed, <<>>, Default} => typed' \in Seq(Typeable)
  BY <1>1, <1>2, <1>3
<1>6. ASSUME NEW k, k \in Printable, prompt = "Signal",
             \/ Len(read) = 1 /\ read[1].byte = k /\ k # "Esc"
             \/ k = "Esc"
             \/ Whole(read) /\ k \in ShortNames \cup LongNames
      PROVE  Append(typed, read[1]) \in Seq(Typeable)
  <2>1. k # "Esc" /\ k # "CR" /\ k \notin ShortNames \cup LongNames
    BY <1>6, LineFeedsAre
  <2>2. Len(read) = 1 /\ read[1].byte = k
    BY <1>6, <2>1
  <2>3. read[1] \in Pieces /\ (read[1].of = read[1].byte \/ read[1].of \in Reports)
    BY <1>6, <2>1, <2>2, SingleByte
  <2>4. read[1] \in Typeable
    BY <2>3 DEF Typeable
  <2> DEFINE p == read[1]
  <2> HIDE DEF p
  <2>5. QED
    BY <1>1, <2>4 DEF p
<1>7. typed' \in Seq(Typeable)
  <2>1. CASE UNCHANGED <<open, settings, prompt, typed>>
    BY <1>1, <2>1, Zenon
  <2>2. ASSUME NEW k, Done(k),
               \/ Len(read) = 1 /\ read[1].byte = k /\ k # "Esc"
               \/ k = "Esc"
               \/ Whole(read) /\ k \in ShortNames \cup LongNames
        PROVE  typed' \in Seq(Typeable)
    <3>1. \/ typed' \in {typed, <<>>, Default}
          \/ typed # <<>> /\ typed' = Front(typed)
          \/ prompt = "Signal" /\ k \in Printable /\ typed' = Append(typed, read[1])
      BY <2>2, Zenon DEF Done
    <3>2. QED
      BY <1>4, <1>5, <1>6, <2>2, <3>1, Zenon
  <2>3. QED
    BY <2>1, <2>2, HandledDone, Zenon
<1>8. QED
  BY <1>7 DEF TypedInv

LEMMA HandleCut ==
  ASSUME StreamInv, ReadingInv, DialogsOK, CutInv, Handle
  PROVE  CutInv'
<1>1. Stream' = buffer /\ read # <<>>
  BY HandledKeepsStream, HandledAs DEF Handle
<1>2. SUFFICES ASSUME buffer # <<>>, buffer[1].at # 1, buffer[1].of \notin Reports
               PROVE  prompt' # "Signal"
  BY <1>1, Zenon DEF CutInv
<1>3. ~Whole(read)
  BY <1>2, BehindWhole
<1>4. Follows(Last(read), buffer[1])
  BY <1>1, <1>2, BehindRead
<1>5. buffer[1].of = Last(read).of
  BY <1>2, <1>4, Zenon DEF Follows
<1>6. PICK k : /\ Done(k)
               /\ (Len(read) = 1 /\ read[1].byte = k /\ k # "Esc") \/ k = "Esc"
  BY <1>2, <1>3, <1>5, HandledDone, Zenon
<1>7. prompt' = "Signal" => k \in {"k", "F9"} \/ (prompt = "Signal" /\ k # "Esc")
  BY <1>6, Zenon DEF Done
<1>8. "Esc" \notin {"k", "F9"}
  OBVIOUS
<1>9. ASSUME Len(read) = 1, read[1].byte = k, k # "Esc"
      PROVE  prompt' # "Signal"
  <2>1. /\ read[1].byte \in Middle
        /\ prompt = "Signal" => read[1].of \in Reports
    BY <1>3, <1>9, SingleByte, Zenon
  <2>2. Last(read) = read[1]
    BY <1>9, Zenon DEF Last
  <2>3. k \notin {"k", "F9"}
    BY <1>9, <2>1, LineFeedsAre
  <2>4. prompt # "Signal"
    BY <1>2, <1>5, <2>1, <2>2, Zenon
  <2>5. QED
    BY <1>7, <2>3, <2>4, Zenon
<1>10. QED
  BY <1>6, <1>7, <1>8, <1>9, Zenon

LEMMA HandleHarmless ==
  ASSUME StreamInv, ReadingInv, DialogsOK, TypedInv, CutInv, Handle
  PROVE  ActsByKeyOrNamedPiece' /\ NumberTypedOrReported'
<1>1. read # <<>>
  BY HandledAs, Zenon
<1>2. CASE did' = [what |-> "nothing"]
  <2>1. did'.what = "nothing"
    BY <1>2
  <2>2. QED
    BY <2>1 DEF ActsByKeyOrNamedPiece, NumberTypedOrReported
<1>3. ASSUME NEW k, Done(k),
             \/ Len(read) = 1 /\ read[1].byte = k /\ k # "Esc"
             \/ k = "Esc"
             \/ Whole(read) /\ k \in ShortNames \cup LongNames
      PROVE  ActsByKeyOrNamedPiece' /\ NumberTypedOrReported'
  <2>1. \/ did' = [what |-> "nothing"]
        \/ k \in Quits /\ did' = [what |-> "quit", bytes |-> read]
        \/ k \in {"[", "]"} /\ \E n : did' = [what |-> "nice", number |-> n, typed |-> typed, bytes |-> read]
        \/ k \in LineFeed /\ \E n : did' = [what |-> "signal", number |-> n, typed |-> typed, bytes |-> read]
    BY <1>3, Zenon DEF Done
  <2>2. \/ Whole(read)
        \/ k = "Esc"
        \/ /\ k \in Middle
           /\ k = "Q" => read[1].of = "F2" /\ read[1].at = 3
           /\ k = "[" => read[1].at = 2
    BY <1>3, SingleByte, Zenon
  <2>3. CASE k \in Quits /\ did' = [what |-> "quit", bytes |-> read]
    <3>1. Whole(read) \/ (read[1].of = "F2" /\ read[1].at = 3)
      <4>1. k # "Esc" /\ (k \in Middle => k = "Q")
        BY <2>3, LineFeedsAre
      <4>2. QED
        BY <2>2, <4>1, Zenon
    <3>2. did'.what = "quit" /\ did'.bytes = read
      BY <2>3
    <3>3. QED
      BY <3>1, <3>2 DEF ActsByKeyOrNamedPiece, NumberTypedOrReported, Whole
  <2>4. ASSUME NEW n, k \in {"[", "]"}, did' = [what |-> "nice", number |-> n, typed |-> typed, bytes |-> read]
        PROVE  ActsByKeyOrNamedPiece' /\ NumberTypedOrReported'
    <3>1. Whole(read) \/ read[1].at = 2
      <4>1. k # "Esc" /\ (k \in Middle => k = "[")
        BY <2>4, LineFeedsAre
      <4>2. QED
        BY <2>2, <4>1, Zenon
    <3>2. did'.what = "nice" /\ did'.bytes = read
      BY <2>4
    <3>3. QED
      BY <3>1, <3>2 DEF ActsByKeyOrNamedPiece, NumberTypedOrReported, Whole
  <2>5. ASSUME NEW n, k \in LineFeed, did' = [what |-> "signal", number |-> n, typed |-> typed, bytes |-> read]
        PROVE  ActsByKeyOrNamedPiece' /\ NumberTypedOrReported'
    <3>1. Whole(read)
      <4>1. k # "Esc" /\ k \notin Middle
        BY <2>5, LineFeedsAre
      <4>2. QED
        BY <2>2, <4>1, Zenon
    <3>2. did'.what = "signal" /\ did'.bytes = read /\ did'.typed = typed
      BY <2>5
    <3>3. \A i \in DOMAIN typed : typed[i] \in Typeable
      BY DEF TypedInv
    <3>4. \A i \in DOMAIN typed : typed[i].of = typed[i].byte \/ typed[i].of \in {"Press", "Release", "RightRelease"}
      BY <3>3 DEF Typeable, Reports
    <3>5. ActsByKeyOrNamedPiece'
      BY <3>1, <3>2 DEF ActsByKeyOrNamedPiece, Whole
    <3>6. NumberTypedOrReported'
      BY <3>2, <3>4 DEF NumberTypedOrReported
    <3>7. QED
      BY <3>5, <3>6
  <2>6. CASE /\ k \in {"[", "]"}
             /\ \E n : did' = [what |-> "nice", number |-> n, typed |-> typed, bytes |-> read]
    BY <2>4, <2>6
  <2>7. CASE /\ k \in LineFeed
             /\ \E n : did' = [what |-> "signal", number |-> n, typed |-> typed, bytes |-> read]
    BY <2>5, <2>7
  <2>8. QED
    BY <1>2, <2>1, <2>3, <2>6, <2>7
<1>4. QED
  BY <1>2, <1>3, HandledDone, Zenon

LEMMA HandleDialogs ==
  ASSUME StreamInv, ReadingInv, DialogsOK, Handle
  PROVE  DialogsOK'
<1>1. ASSUME NEW k, Done(k) PROVE DialogsOK'
  BY <1>1, Zenon DEF Done, DialogsOK
<1>2. ASSUME UNCHANGED <<open, settings, prompt, typed>>, running' = running, selected' \in BOOLEAN
      PROVE  DialogsOK'
  <2>1. open' = open /\ field' = field /\ theme' = theme /\ cached' = cached /\ refresh' = refresh /\ prompt' = prompt
    BY <1>2 DEF settings
  <2>2. QED
    BY <1>2, <2>1, Zenon DEF DialogsOK
<1>3. QED
  BY <1>1, <1>2, HandledDone, Zenon

\* What the keyboard does to a process, to mtop and to its dialogs is as it
\* should be: the inductive invariant of ActsAccounted.
KeyboardInv ==
  /\ StreamInv /\ ReadingInv
  /\ DialogsOK /\ TypedInv /\ CutInv
  /\ ActsByKeyOrNamedPiece /\ NumberTypedOrReported

LEMMA NothingDone == did = [what |-> "nothing"] => ActsByKeyOrNamedPiece /\ NumberTypedOrReported
<1> SUFFICES ASSUME did = [what |-> "nothing"] PROVE ActsByKeyOrNamedPiece /\ NumberTypedOrReported
  OBVIOUS
<1>1. did.what = "nothing"
  OBVIOUS
<1>2. QED
  BY <1>1 DEF ActsByKeyOrNamedPiece, NumberTypedOrReported

LEMMA NothingDoneNext == did' = [what |-> "nothing"] => ActsByKeyOrNamedPiece' /\ NumberTypedOrReported'
<1> SUFFICES ASSUME did' = [what |-> "nothing"] PROVE ActsByKeyOrNamedPiece' /\ NumberTypedOrReported'
  OBVIOUS
<1>1. did'.what = "nothing"
  OBVIOUS
<1>2. QED
  BY <1>1 DEF ActsByKeyOrNamedPiece, NumberTypedOrReported

LEMMA DialogsUntouched ==
  ASSUME DialogsOK, TypedInv, UNCHANGED <<dialogs, running>>
  PROVE  DialogsOK' /\ TypedInv' /\ prompt' = prompt
<1>1. /\ open' = open /\ field' = field /\ theme' = theme /\ cached' = cached /\ refresh' = refresh
      /\ prompt' = prompt /\ typed' = typed /\ selected' = selected /\ running' = running
  BY DEF dialogs, settings
<1>2. QED
  BY <1>1, Zenon DEF DialogsOK, TypedInv

LEMMA KeyboardInvInit == KeyboardInit => KeyboardInv
<1> SUFFICES ASSUME KeyboardInit PROVE KeyboardInv
  OBVIOUS
<1>1. StreamInv /\ ReadingInv
  BY StreamInit, ReadingInit
<1>2. DialogsOK
  <2>1. /\ open = "none" /\ field = "Theme" /\ theme = "apple" /\ cached = FALSE /\ refresh \in Refreshes
        /\ prompt = "None" /\ selected = FALSE /\ running = TRUE
    BY Zenon DEF KeyboardInit
  <2>2. refresh \in Lowest..Highest
    <3>1. Refreshes \subseteq Lowest..Highest
      BY KeyboardAssumption, Zenon
    <3>2. QED
      BY <2>1, <3>1, Zenon
  <2>3. Fields[1] = "Theme" /\ Themes[1] = "apple" /\ 1 \in DOMAIN Fields /\ 1 \in DOMAIN Themes
    BY DEF Fields, Themes
  <2>4. "Theme" \in Range(Fields) /\ "apple" \in Range(Themes)
    BY <2>3, Zenon DEF Range
  <2>5. "None" \in Prompts
    BY DEF Prompts
  <2>6. open \in {"none", "help", "setup", "detail"} /\ ~(open # "none") /\ cached \in BOOLEAN
        /\ selected \in BOOLEAN /\ running \in BOOLEAN
    BY <2>1
  <2>7. QED
    BY <2>1, <2>2, <2>4, <2>5, <2>6, Zenon DEF DialogsOK
<1>3. TypedInv /\ CutInv
  BY DEF KeyboardInit, TypedInv, CutInv
<1>4. ActsByKeyOrNamedPiece /\ NumberTypedOrReported
  BY NothingDone DEF KeyboardInit
<1>5. QED
  BY <1>1, <1>2, <1>3, <1>4 DEF KeyboardInv

LEMMA KeyboardInvKept == KeyboardInv /\ [KeyboardNext]_keyboardVars => KeyboardInv'
<1> SUFFICES ASSUME KeyboardInv, [KeyboardNext]_keyboardVars PROVE KeyboardInv'
  OBVIOUS
<1>1. /\ StreamInv /\ ReadingInv /\ DialogsOK /\ TypedInv /\ CutInv
      /\ ActsByKeyOrNamedPiece /\ NumberTypedOrReported
  BY Zenon DEF KeyboardInv
<1>2. StreamInv' /\ ReadingInv'
  BY <1>1, StreamKept, ReadingKept, Zenon
<1>3. ASSUME NEW m \in session, Send(m)
      PROVE  DialogsOK' /\ TypedInv' /\ CutInv' /\ ActsByKeyOrNamedPiece' /\ NumberTypedOrReported'
  <2>1. TerminalWrites(m) /\ did' = [what |-> "nothing"] /\ UNCHANGED <<dialogs, running>>
    BY <1>3, Zenon DEF Send
  <2>2. DialogsOK' /\ TypedInv' /\ prompt' = prompt
    BY <1>1, <2>1, DialogsUntouched
  <2>3. CutInv'
    <3>1. PICK w \in Seq(Pieces) : Stream' = Stream \o w /\ w # <<>> /\ w[1].at = 1
      BY <1>1, <2>1, WritesKeepStream, Zenon
    <3>2. Stream \in Seq(Pieces)
      BY <1>1, ConcatProperties DEF StreamInv, Stream
    <3> DEFINE s == Stream
    <3>3. s \in Seq(Pieces) /\ Stream' = s \o w
      BY <3>1, <3>2
    <3>4. s # <<>> /\ s[1].at # 1 /\ s[1].of \notin Reports => prompt # "Signal"
      BY <1>1, Zenon DEF CutInv
    <3> HIDE DEF s
    <3>5. CASE s = <<>>
      <4>1. s \o w = w
        BY <3>1, <3>5, ConcatEmptySeq
      <4>2. Stream'[1].at = 1
        BY <3>1, <3>3, <4>1, Zenon
      <4>3. QED
        BY <4>2, Zenon DEF CutInv
    <3>6. CASE s # <<>>
      <4>1. 1 \in 1..Len(s)
        BY <3>3, <3>6
      <4>2. (s \o w)[1] = s[1]
        BY <3>1, <3>3, <4>1, StreamParts
      <4>3. Stream'[1] = s[1]
        BY <3>3, <4>2, Zenon
      <4>4. QED
        BY <2>2, <3>4, <3>6, <4>3, Zenon DEF CutInv
    <3>7. QED
      BY <3>5, <3>6
  <2>4. QED
    BY <2>1, <2>2, <2>3, NothingDoneNext
<1>4. ASSUME ReadKey
      PROVE  DialogsOK' /\ TypedInv' /\ CutInv' /\ ActsByKeyOrNamedPiece' /\ NumberTypedOrReported'
  <2>1. ReadEvent /\ did' = [what |-> "nothing"] /\ UNCHANGED <<dialogs, running>>
    BY <1>4, Zenon DEF ReadKey
  <2>2. DialogsOK' /\ TypedInv' /\ prompt' = prompt
    BY <1>1, <2>1, DialogsUntouched
  <2>3. Stream' = Stream
    BY <1>1, <2>1, ReadsKeepInv
  <2>4. CutInv'
    BY <1>1, <2>2, <2>3, Zenon DEF CutInv
  <2>5. QED
    BY <2>1, <2>2, <2>4, NothingDoneNext
<1>5. ASSUME Handle
      PROVE  DialogsOK' /\ TypedInv' /\ CutInv' /\ ActsByKeyOrNamedPiece' /\ NumberTypedOrReported'
  BY <1>1, <1>5, HandleDialogs, HandleTyped, HandleCut, HandleHarmless
<1>6. ASSUME UNCHANGED keyboardVars
      PROVE  DialogsOK' /\ TypedInv' /\ CutInv' /\ ActsByKeyOrNamedPiece' /\ NumberTypedOrReported'
  <2>1. read' = read /\ buffer' = buffer /\ UNCHANGED <<dialogs, running>> /\ did' = did
    BY <1>6, Zenon DEF keyboardVars, input
  <2>2. DialogsOK' /\ TypedInv' /\ prompt' = prompt
    BY <1>1, <2>1, DialogsUntouched
  <2>3. Stream' = Stream
    BY <2>1, Zenon DEF Stream
  <2>4. CutInv'
    BY <1>1, <2>2, <2>3, Zenon DEF CutInv
  <2>5. ActsByKeyOrNamedPiece' /\ NumberTypedOrReported'
    BY <1>1, <2>1 DEF ActsByKeyOrNamedPiece, NumberTypedOrReported, Whole
  <2>6. QED
    BY <2>2, <2>4, <2>5
<1>7. DialogsOK' /\ TypedInv' /\ CutInv' /\ ActsByKeyOrNamedPiece' /\ NumberTypedOrReported'
  BY <1>3, <1>4, <1>5, <1>6 DEF KeyboardNext
<1>8. QED
  BY <1>2, <1>7, Zenon DEF KeyboardInv

LEMMA KeyboardInvAccounted == KeyboardInv => ActsAccounted
<1> SUFFICES ASSUME KeyboardInv PROVE ActsAccounted
  OBVIOUS
<1>1. StreamInv /\ ReadingInv /\ DialogsOK /\ ActsByKeyOrNamedPiece /\ NumberTypedOrReported
  BY Zenon DEF KeyboardInv
<1>2. Len(read) <= 3 + PayloadGuard \/ Len(read) <= 3 + SequenceGuard
  <2>1. read \in Seq(Pieces) /\ Len(read) \in Nat
    BY <1>1 DEF StreamInv
  <2>2. PayloadGuard \in Nat /\ SequenceGuard \in Nat
    BY ParserAssumption
  <2>3. CASE event = Nothing
    <3>1. Begun(read)
      BY <1>1, <2>3, Zenon DEF ReadingInv
    <3>2. \/ ~(Len(read) > 2)
          \/ Len(read) - 3 < PayloadGuard
          \/ Len(read) - 3 < SequenceGuard
      BY <3>1, Zenon DEF Begun
    <3>3. QED
      BY <2>1, <2>2, <3>2
  <2>4. CASE event # Nothing
    BY <1>1, <2>4, Zenon DEF ReadingInv, Usual
  <2>5. QED
    BY <2>3, <2>4
<1>3. KeyboardTypeOK
  BY <1>1, <1>2, Zenon DEF KeyboardTypeOK, DialogsOK
<1>4. QED
  BY <1>1, <1>3, Zenon DEF ActsAccounted

\* Whatever is pressed and however the keys are cut: a signal is sent for a whole
\* key or click only; mtop is left and a nice value changed for such a one or for
\* the piece that ActsByKeyOrNamedPiece names; the number of a signal is of typed
\* characters and of those of a cut mouse report; and the dialogs and settings keep
\* to their values.  That the pieces do act is what OnlyKeysAct shows.
THEOREM ActsAreAccounted == KeyboardSpec => []ActsAccounted
<1>1. QED
  BY KeyboardInvInit, KeyboardInvKept, KeyboardInvAccounted, PTL DEF KeyboardSpec
=============================================================================
