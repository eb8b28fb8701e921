--------------------------- MODULE HistoryProofs ----------------------------
(* The Back and Forward lists for every number of directories and every      *)
(* limit. The inductive invariant is the conjunction of the three            *)
(* invariants: the lists can only be known to stay without repeats if their  *)
(* tops differ from the directory shown or the push is skipped, and the      *)
(* bound on their sum needs nothing else.                                    *)
EXTENDS FilerHistory, SequenceTheorems, TLAPS

LEMMA HeadAndTail ==
    ASSUME NEW list \in Seq(Dirs), list # <<>>
    PROVE  /\ Head(list) \in Dirs
           /\ Tail(list) \in Seq(Dirs)
           /\ Len(Tail(list)) = Len(list) - 1
           /\ \A i \in 1..(Len(list) - 1) : Tail(list)[i] = list[i + 1]
OBVIOUS

LEMMA ConsFacts ==
    ASSUME NEW list \in Seq(Dirs), NEW d \in Dirs
    PROVE  /\ <<d>> \o list \in Seq(Dirs)
           /\ Len(<<d>> \o list) = Len(list) + 1
           /\ (<<d>> \o list)[1] = d
           /\ \A i \in 1..Len(list) : (<<d>> \o list)[i + 1] = list[i]
OBVIOUS

LEMMA FrontFacts ==
    ASSUME NEW list \in Seq(Dirs), list # <<>>
    PROVE  /\ Front(list) \in Seq(Dirs)
           /\ Len(Front(list)) = Len(list) - 1
           /\ \A i \in 1..(Len(list) - 1) : Front(list)[i] = list[i]
<1> DEFINE n == Len(list) - 1
<1>1. n \in Nat /\ n \in Int /\ 1 \in Int /\ \A i \in 1..n : list[i] \in Dirs
  OBVIOUS
<1> HIDE DEF n
<1>2. /\ SubSeq(list, 1, n) \in Seq(Dirs)
      /\ Len(SubSeq(list, 1, n)) = IF 1 <= n THEN n - 1 + 1 ELSE 0
      /\ \A i \in 1..(n - 1 + 1) : SubSeq(list, 1, n)[i] = list[1 + i - 1]
  <2> DEFINE S == Dirs  s == list
  <2>1. ASSUME NEW m \in Int, \A i \in m..n : s[i] \in S
        PROVE  /\ SubSeq(s, m, n) \in Seq(S)
               /\ Len(SubSeq(s, m, n)) = IF m <= n THEN n - m + 1 ELSE 0
               /\ \A i \in 1..(n - m + 1) : SubSeq(s, m, n)[i] = s[m + i - 1]
    BY <1>1, <2>1, SubSeqProperties
  <2> QED BY <1>1, <2>1
<1>3. Len(SubSeq(list, 1, n)) = n
  BY <1>1, <1>2
<1>4. \A i \in 1..n : SubSeq(list, 1, n)[i] = list[i]
  BY <1>1, <1>2
<1> QED BY <1>2, <1>3, <1>4 DEF Front, n

\* filer_history_push() keeps a list a list, within the limit, and without
\* repeats.
LEMMA PushFacts ==
    ASSUME NEW list \in Seq(Dirs), NEW d \in Dirs, Len(list) <= Limit
    PROVE  /\ Push(list, d) \in Seq(Dirs)
           /\ Len(Push(list, d)) <= Len(list) + 1
           /\ Len(Push(list, d)) <= Limit
           /\ NoRepeats(list) => NoRepeats(Push(list, d))
           /\ IsTop(Push(list, d), d)
<1> DEFINE longer == <<d>> \o list
<1>1. /\ longer \in Seq(Dirs)
      /\ Len(longer) = Len(list) + 1
      /\ longer[1] = d
      /\ \A i \in 1..Len(list) : longer[i + 1] = list[i]
  BY ConsFacts
<1>2. Len(list) \in Nat /\ Limit \in Nat \ {0}
  BY LimitAssumption
<1> HIDE DEF longer
<1>3. CASE IsTop(list, d)
  BY <1>2, <1>3 DEF Push
<1>4. CASE ~IsTop(list, d)
  <2>1. NoRepeats(list) => NoRepeats(longer)
    <3> SUFFICES ASSUME NoRepeats(list), NEW i \in 1..(Len(longer) - 1)
                 PROVE  longer[i] # longer[i + 1]
      BY DEF NoRepeats
    <3>1. CASE i = 1
      <4>1. list # <<>> /\ longer[2] = list[1]
        BY <1>1, <1>2, <3>1
      <4>2. Head(list) # d
        BY <1>4, <4>1 DEF IsTop
      <4>3. Head(list) = list[1]
        BY <4>1
      <4> QED BY <1>1, <3>1, <4>1, <4>2, <4>3
    <3>2. CASE i # 1
      <4>1. i - 1 \in 1..(Len(list) - 1) /\ i \in 1..Len(list) /\ i - 1 \in 1..Len(list)
        BY <1>1, <1>2, <3>2
      <4>2. longer[i] = list[i - 1] /\ longer[i + 1] = list[i]
        BY <1>1, <4>1
      <4>3. list[i - 1] # list[i]
        BY <4>1 DEF NoRepeats
      <4> QED BY <4>2, <4>3
    <3> QED BY <3>1, <3>2
  <2>2. CASE Len(longer) <= Limit
    <3>1. Push(list, d) = longer
      BY <1>4, <2>2 DEF Push, longer
    <3>2. longer # <<>> /\ Head(longer) = d
      BY <1>1, <1>2
    <3> QED BY <1>1, <1>2, <2>1, <2>2, <3>1, <3>2 DEF IsTop
  <2>3. CASE ~(Len(longer) <= Limit)
    <3>1. Push(list, d) = Front(longer)
      BY <1>4, <2>3 DEF Push, longer
    <3>2. longer # <<>>
      BY <1>1, <1>2
    <3>3. /\ Front(longer) \in Seq(Dirs)
          /\ Len(Front(longer)) = Len(list)
          /\ \A i \in 1..Len(list) : Front(longer)[i] = longer[i]
      <4>1. Len(longer) - 1 = Len(list)
        BY <1>1, <1>2
      <4> QED BY <1>1, <3>2, <4>1, FrontFacts
    <3>4. NoRepeats(longer) => NoRepeats(Front(longer))
      BY <1>1, <1>2, <3>3, SMTT(40) DEF NoRepeats
    <3>5. Len(list) = Limit
      BY <1>1, <1>2, <2>3
    <3>6. Front(longer) # <<>> /\ Head(Front(longer)) = d
      BY <1>1, <1>2, <3>3, <3>5
    <3> QED BY <1>2, <2>1, <3>1, <3>3, <3>4, <3>5, <3>6 DEF IsTop
  <2> QED BY <2>2, <2>3
<1> QED BY <1>3, <1>4

\* Taking the top off a list without repeats leaves one, whose new top is
\* another directory.
LEMMA PopFacts ==
    ASSUME NEW list \in Seq(Dirs), list # <<>>, NoRepeats(list)
    PROVE  /\ NoRepeats(Tail(list))
           /\ ~IsTop(Tail(list), Head(list))
<1>1. /\ Tail(list) \in Seq(Dirs)
      /\ Len(Tail(list)) = Len(list) - 1
      /\ \A i \in 1..(Len(list) - 1) : Tail(list)[i] = list[i + 1]
  BY HeadAndTail
<1>2. Len(list) \in Nat /\ Len(list) > 0 /\ Head(list) = list[1]
  OBVIOUS
<1>3. NoRepeats(Tail(list))
  BY <1>1, <1>2 DEF NoRepeats
<1>4. ASSUME Tail(list) # <<>> PROVE Head(Tail(list)) # Head(list)
  <2>1. Len(list) > 1 /\ Head(Tail(list)) = Tail(list)[1]
    BY <1>1, <1>2, <1>4
  <2>2. Tail(list)[1] = list[2] /\ list[1] # list[2]
    BY <1>1, <1>2, <2>1 DEF NoRepeats
  <2> QED BY <1>2, <2>1, <2>2
<1> QED BY <1>3, <1>4 DEF IsTop

-----------------------------------------------------------------------------

IInv == TypeOK /\ WithinLimit /\ EveryMoveMoves

LEMMA InitIInv == Init => IInv
<1> SUFFICES ASSUME Init PROVE IInv
  OBVIOUS
<1>1. /\ history_back = <<>> /\ history_forward = <<>>
      /\ sym_path \in Dirs /\ sprung = FALSE
  BY DEF Init, Fresh
<1>2. TypeOK
  BY <1>1, EmptySeq DEF TypeOK
<1>3. WithinLimit
  BY <1>1, LimitAssumption DEF WithinLimit
<1>4. EveryMoveMoves
  BY <1>1 DEF EveryMoveMoves, NoRepeats, IsTop
<1> QED BY <1>2, <1>3, <1>4 DEF IInv

LEMMA NextIInv == IInv /\ [Next]_vars => IInv'
<1> SUFFICES ASSUME IInv, [Next]_vars PROVE IInv'
  OBVIOUS
<1> USE LimitAssumption
<1>0. /\ history_back \in Seq(Dirs) /\ history_forward \in Seq(Dirs)
      /\ sym_path \in Dirs /\ sprung \in BOOLEAN
      /\ Len(history_back) \in Nat /\ Len(history_forward) \in Nat
      /\ Len(history_back) + Len(history_forward) <= Limit
      /\ Len(history_back) <= Limit /\ Len(history_forward) <= Limit
      /\ NoRepeats(history_back) /\ NoRepeats(history_forward)
  BY DEF IInv, TypeOK, WithinLimit, EveryMoveMoves
<1>1. ASSUME NEW d \in Dirs, Visit(d) PROVE IInv'
  <2>1. CASE d = sym_path
    BY <1>1, <2>1 DEF Visit, IInv, TypeOK, WithinLimit, EveryMoveMoves
  <2>2. CASE d # sym_path
    <3>1. /\ history_back' = Push(history_back, sym_path)
          /\ history_forward' = <<>> /\ sym_path' = d /\ sprung' = sprung
      BY <1>1, <2>2 DEF Visit
    <3>2. /\ history_back' \in Seq(Dirs)
          /\ Len(history_back') <= Limit
          /\ NoRepeats(history_back')
          /\ IsTop(history_back', sym_path)
      BY <1>0, <3>1, PushFacts
    <3>3. ~IsTop(history_back', d)
      BY <2>2, <3>2 DEF IsTop
    <3>4. NoRepeats(<<>>) /\ ~IsTop(<<>>, d) /\ <<>> \in Seq(Dirs)
      BY DEF NoRepeats, IsTop
    <3> QED BY <1>0, <3>1, <3>2, <3>3, <3>4 DEF IInv, TypeOK, WithinLimit, EveryMoveMoves
  <2> QED BY <2>1, <2>2
<1>2. ASSUME NEW d \in Dirs, SpringTo(d) PROVE IInv'
  BY <1>0, <1>2 DEF SpringTo, IInv, TypeOK, WithinLimit, EveryMoveMoves
<1>3. ASSUME NEW d \in Dirs, Reopen(d) PROVE IInv'
  <2>1. /\ history_back' = <<>> /\ history_forward' = <<>>
        /\ sym_path' = d /\ sprung' = FALSE
    BY <1>3 DEF Reopen
  <2>2. TypeOK'
    BY <2>1, EmptySeq DEF TypeOK
  <2>3. WithinLimit'
    BY <2>1 DEF WithinLimit
  <2>4. EveryMoveMoves'
    BY <2>1 DEF EveryMoveMoves, NoRepeats, IsTop
  <2> QED BY <2>2, <2>3, <2>4 DEF IInv
<1>4. CASE Back
  <2>1. /\ history_back # <<>> /\ history_back' = Tail(history_back)
        /\ history_forward' = Push(history_forward, sym_path)
        /\ sym_path' = Head(history_back) /\ sprung' = sprung
    BY <1>4 DEF Back
  <2>2. /\ Head(history_back) \in Dirs /\ Tail(history_back) \in Seq(Dirs)
        /\ Len(Tail(history_back)) = Len(history_back) - 1
    BY <1>0, <2>1, HeadAndTail
  <2>3. /\ NoRepeats(history_back') /\ ~IsTop(history_back', sym_path')
    BY <1>0, <2>1, PopFacts
  <2>4. /\ history_forward' \in Seq(Dirs)
        /\ Len(history_forward') <= Len(history_forward) + 1
        /\ NoRepeats(history_forward')
        /\ IsTop(history_forward', sym_path)
    BY <1>0, <2>1, PushFacts
  <2>5. ~sprung => ~IsTop(history_forward', sym_path')
    <3> SUFFICES ASSUME ~sprung PROVE Head(history_forward') # sym_path'
      BY DEF IsTop
    <3>1. Head(history_back) # sym_path
      BY <2>1 DEF IInv, EveryMoveMoves, IsTop
    <3> QED BY <2>1, <2>4, <3>1 DEF IsTop
  <2>6. WithinLimit'
    BY <1>0, <2>1, <2>2, <2>4 DEF WithinLimit
  <2> QED BY <1>0, <2>1, <2>2, <2>3, <2>4, <2>5, <2>6 DEF IInv, TypeOK, EveryMoveMoves
<1>5. CASE Forward
  <2>1. /\ history_forward # <<>> /\ history_forward' = Tail(history_forward)
        /\ history_back' = Push(history_back, sym_path)
        /\ sym_path' = Head(history_forward) /\ sprung' = sprung
    BY <1>5 DEF Forward
  <2>2. /\ Head(history_forward) \in Dirs /\ Tail(history_forward) \in Seq(Dirs)
        /\ Len(Tail(history_forward)) = Len(history_forward) - 1
    BY <1>0, <2>1, HeadAndTail
  <2>3. /\ NoRepeats(history_forward') /\ ~IsTop(history_forward', sym_path')
    BY <1>0, <2>1, PopFacts
  <2>4. /\ history_back' \in Seq(Dirs)
        /\ Len(history_back') <= Len(history_back) + 1
        /\ NoRepeats(history_back')
        /\ IsTop(history_back', sym_path)
    BY <1>0, <2>1, PushFacts
  <2>5. ~sprung => ~IsTop(history_back', sym_path')
    <3> SUFFICES ASSUME ~sprung PROVE Head(history_back') # sym_path'
      BY DEF IsTop
    <3>1. Head(history_forward) # sym_path
      BY <2>1 DEF IInv, EveryMoveMoves, IsTop
    <3> QED BY <2>1, <2>4, <3>1 DEF IsTop
  <2>6. WithinLimit'
    BY <1>0, <2>1, <2>2, <2>4 DEF WithinLimit
  <2> QED BY <1>0, <2>1, <2>2, <2>3, <2>4, <2>5, <2>6 DEF IInv, TypeOK, EveryMoveMoves
<1>6. CASE UNCHANGED vars
  BY <1>6 DEF vars, IInv, TypeOK, WithinLimit, EveryMoveMoves
<1> QED BY <1>1, <1>2, <1>3, <1>4, <1>5, <1>6 DEF Next

THEOREM IInvHolds == Spec => []IInv
BY InitIInv, NextIInv, PTL DEF Spec

\* The Back and Forward lists hold at most the limit of directories between
\* them (filer_history_push(), filer_history_go()).
THEOREM HistoryIsLimited == Spec => []WithinLimit
<1>1. IInv => WithinLimit
  BY DEF IInv
<1> QED BY <1>1, IInvHolds, PTL

\* In a window no drag has changed, Back and Forward always go somewhere else
\* (filer_change_to(), filer_history_go()).
THEOREM BackIsElsewhere == Spec => []EveryMoveMoves
<1>1. IInv => EveryMoveMoves
  BY DEF IInv
<1> QED BY <1>1, IInvHolds, PTL
-----------------------------------------------------------------------------
(* FilerHistory implements Timeline: the newest-first lists, put end to end  *)
(* around the directory shown, are the line of visits.                       *)

\* The line that the lists and the directory shown make up.
LineOf(back, shown, forward) == Reverse(back) \o <<shown>> \o forward

\* SubSeqProperties where both ends are in the sequence.
LEMMA SubSeqFacts ==
    ASSUME NEW s \in Seq(Dirs), NEW m \in Int, NEW n \in Int, 1 <= m, n <= Len(s)
    PROVE  /\ SubSeq(s, m, n) \in Seq(Dirs)
           /\ Len(SubSeq(s, m, n)) = IF m <= n THEN n - m + 1 ELSE 0
           /\ \A i \in 1..(n - m + 1) : SubSeq(s, m, n)[i] = s[m + i - 1]
<1>1. \A i \in m..n : s[i] \in Dirs
  OBVIOUS
<1> QED BY <1>1, SubSeqProperties

\* The line has the lists and the directory shown at their places.
Puts(line, back, shown, forward) ==
    /\ line \in Seq(Dirs)
    /\ Len(line) = Len(back) + 1 + Len(forward)
    /\ \A i \in 1..Len(back) : line[i] = back[Len(back) + 1 - i]
    /\ line[Len(back) + 1] = shown
    /\ \A i \in 1..Len(forward) : line[Len(back) + 1 + i] = forward[i]

\* r is s without its element k.
Lacks(r, s, k) ==
    /\ r \in Seq(Dirs)
    /\ Len(r) = Len(s) - 1
    /\ \A i \in 1..(k - 1) : r[i] = s[i]
    /\ \A i \in k..(Len(s) - 1) : r[i] = s[i + 1]

\* The places of a line: the list behind from its end, the directory shown,
\* and the list ahead.
LEMMA LineFacts ==
    ASSUME NEW back \in Seq(Dirs), NEW shown \in Dirs, NEW forward \in Seq(Dirs)
    PROVE  Puts(LineOf(back, shown, forward), back, shown, forward)
<1> DEFINE n == Len(back)
<1>1. n \in Nat /\ Len(forward) \in Nat /\ \A i \in 1..n : back[i] \in Dirs
  OBVIOUS
<1>2. /\ Reverse(back) \in Seq(Dirs)
      /\ Len(Reverse(back)) = n
      /\ \A i \in 1..n : Reverse(back)[i] = back[n + 1 - i]
  <2>1. \A i \in 1..n : n - i + 1 \in 1..n /\ n - i + 1 = n + 1 - i
    BY <1>1
  <2>2. Reverse(back) = [i \in 1..n |-> back[n - i + 1]]
    BY DEF Reverse
  <2> HIDE DEF n
  <2> QED BY <1>1, <2>1, <2>2
<1>3. <<shown>> \in Seq(Dirs) /\ Len(<<shown>>) = 1 /\ <<shown>>[1] = shown
  OBVIOUS
<1> DEFINE one == <<shown>>
           most == Reverse(back) \o one
<1>4. /\ most \in Seq(Dirs)
      /\ Len(most) = n + 1
      /\ \A i \in 1..(n + 1) : most[i] = IF i <= n THEN Reverse(back)[i] ELSE one[i - n]
      /\ one[1] = shown
  BY <1>1, <1>2, <1>3, ConcatProperties
<1> HIDE DEF one, most, n
<1>5. /\ most \o forward \in Seq(Dirs)
      /\ Len(most \o forward) = n + 1 + Len(forward)
      /\ \A i \in 1..(n + 1 + Len(forward)) :
            (most \o forward)[i] = IF i <= n + 1 THEN most[i] ELSE forward[i - (n + 1)]
  <2>1. /\ most \o forward \in Seq(Dirs)
        /\ Len(most \o forward) = Len(most) + Len(forward)
        /\ \A i \in 1..(Len(most) + Len(forward)) :
              (most \o forward)[i] =
                 IF i <= Len(most) THEN most[i] ELSE forward[i - Len(most)]
    BY <1>4, ConcatProperties
  <2> QED BY <1>4, <2>1
<1>6. \A i \in 1..n : (most \o forward)[i] = back[n + 1 - i]
  BY <1>1, <1>2, <1>4, <1>5
<1>7. (most \o forward)[n + 1] = shown
  <2>1. n + 1 \in 1..(n + 1) /\ n + 1 \in 1..(n + 1 + Len(forward)) /\ n + 1 - n = 1
    BY <1>1
  <2>2. (most \o forward)[n + 1] = most[n + 1]
    BY <1>1, <1>5, <2>1
  <2>3. most[n + 1] = one[1]
    <3>1. ~(n + 1 <= n)
      BY <1>1
    <3> QED BY <1>1, <1>4, <2>1, <3>1
  <2> QED BY <1>4, <2>2, <2>3
<1>8. \A i \in 1..Len(forward) : (most \o forward)[n + 1 + i] = forward[i]
  BY <1>1, <1>5
<1> QED BY <1>5, <1>6, <1>7, <1>8 DEF LineOf, Puts, one, most, n

\* A line with nothing ahead.
LEMMA LineEnds ==
    ASSUME NEW back \in Seq(Dirs), NEW shown \in Dirs
    PROVE  LET line == LineOf(back, shown, <<>>)
           IN  /\ line \in Seq(Dirs) /\ Len(line) = Len(back) + 1
               /\ \A i \in 1..Len(back) : line[i] = back[Len(back) + 1 - i]
               /\ line[Len(back) + 1] = shown
<1>1. PICK none \in Seq(Dirs) : none = <<>>
  BY EmptySeq
<1> DEFINE line == LineOf(back, shown, none)
<1>2. /\ line \in Seq(Dirs) /\ Len(line) = Len(back) + 1 + Len(none)
      /\ \A i \in 1..Len(back) : line[i] = back[Len(back) + 1 - i]
      /\ line[Len(back) + 1] = shown
  <2>1. Puts(line, back, shown, none)
    BY LineFacts
  <2> QED BY <2>1 DEF Puts
<1> HIDE DEF line
<1>3. Len(line) = Len(back) + 1
  <2>1. Len(none) = 0 /\ Len(back) \in Nat
    BY <1>1
  <2> QED BY <1>2, <2>1
<1>4. line = LineOf(back, shown, <<>>)
  BY <1>1 DEF line
<1> QED BY <1>2, <1>3, <1>4

\* Two sequences that agree everywhere are the same.
LEMMA SameLine ==
    ASSUME NEW s \in Seq(Dirs), NEW t \in Seq(Dirs), Len(s) = Len(t),
           \A i \in 1..Len(s) : s[i] = t[i]
    PROVE  s = t
BY SeqEqual

\* A line without its present directory.
LEMMA RemoveAtFacts ==
    ASSUME NEW s \in Seq(Dirs), NEW k \in 1..Len(s)
    PROVE  Lacks(RemoveAt(s, k), s, k)
<1>1. Len(s) \in Nat /\ k \in Nat
  OBVIOUS
<1> DEFINE a == SubSeq(s, 1, k - 1)  b == SubSeq(s, k + 1, Len(s))
<1>2. a \in Seq(Dirs) /\ Len(a) = k - 1 /\ \A i \in 1..(k - 1) : a[i] = s[i]
  <2>1. /\ a \in Seq(Dirs) /\ Len(a) = IF 1 <= k - 1 THEN k - 1 - 1 + 1 ELSE 0
        /\ \A i \in 1..(k - 1 - 1 + 1) : a[i] = s[1 + i - 1]
    BY <1>1, SubSeqFacts
  <2> HIDE DEF a
  <2> QED BY <1>1, <2>1
<1>3. /\ b \in Seq(Dirs) /\ Len(b) = Len(s) - k
      /\ \A i \in 1..(Len(s) - k) : b[i] = s[k + i]
  <2>1. /\ b \in Seq(Dirs)
        /\ Len(b) = IF k + 1 <= Len(s) THEN Len(s) - (k + 1) + 1 ELSE 0
        /\ \A i \in 1..(Len(s) - (k + 1) + 1) : b[i] = s[k + 1 + i - 1]
    BY <1>1, SubSeqFacts
  <2> HIDE DEF b
  <2> QED BY <1>1, <2>1
<1>4. RemoveAt(s, k) = a \o b
  BY DEF RemoveAt
<1> HIDE DEF a, b
<1>5. /\ a \o b \in Seq(Dirs) /\ Len(a \o b) = Len(s) - 1
      /\ \A i \in 1..(Len(s) - 1) : (a \o b)[i] = IF i <= k - 1 THEN a[i] ELSE b[i - (k - 1)]
  <2>1. /\ a \o b \in Seq(Dirs) /\ Len(a \o b) = Len(a) + Len(b)
        /\ \A i \in 1..(Len(a) + Len(b)) :
              (a \o b)[i] = IF i <= Len(a) THEN a[i] ELSE b[i - Len(a)]
    BY <1>2, <1>3, ConcatProperties
  <2> QED BY <1>1, <1>2, <1>3, <2>1, SMTT(40)
<1>6. \A i \in 1..(k - 1) : (a \o b)[i] = s[i]
  BY <1>1, <1>2, <1>5
<1>7. ASSUME NEW i \in k..(Len(s) - 1) PROVE (a \o b)[i] = s[i + 1]
  <2>1. (a \o b)[i] = b[i - (k - 1)]
    <3>1. i \in 1..(Len(s) - 1) /\ ~(i <= k - 1)
      BY <1>1
    <3> QED BY <1>1, <1>5, <3>1
  <2>2. i - (k - 1) \in 1..(Len(s) - k) /\ k + (i - (k - 1)) = i + 1
    BY <1>1
  <2> QED BY <1>3, <2>1, <2>2
<1> QED BY <1>4, <1>5, <1>6, <1>7 DEF Lacks

\* What filer_history_push() does where there is room, or the directory is the
\* top already; and where the list is full.
LEMMA PushIs ==
    ASSUME NEW list \in Seq(Dirs), NEW d \in Dirs, Len(list) <= Limit
    PROVE  LET pushed == Push(list, d)
           IN  /\ IsTop(list, d) => pushed = list
               /\ ~IsTop(list, d) /\ Len(list) < Limit =>
                     /\ Len(pushed) = Len(list) + 1 /\ pushed[1] = d
                     /\ \A i \in 1..Len(list) : pushed[i + 1] = list[i]
               /\ ~IsTop(list, d) /\ Len(list) = Limit =>
                     /\ Len(pushed) = Limit /\ pushed[1] = d
                     /\ \A i \in 1..(Limit - 1) : pushed[i + 1] = list[i]
<1> DEFINE longer == <<d>> \o list
<1>1. /\ longer \in Seq(Dirs) /\ Len(longer) = Len(list) + 1
      /\ longer[1] = d /\ \A i \in 1..Len(list) : longer[i + 1] = list[i]
  BY ConsFacts
<1>2. Len(list) \in Nat /\ Limit \in Nat \ {0}
  BY LimitAssumption
<1>3. Push(list, d) = IF IsTop(list, d) THEN list
                      ELSE IF Len(longer) <= Limit THEN longer ELSE Front(longer)
  BY DEF Push
<1> HIDE DEF longer
<1>4. longer # <<>>
  BY <1>1, <1>2
<1>5. /\ Len(Front(longer)) = Len(list)
      /\ \A i \in 1..Len(list) : Front(longer)[i] = longer[i]
  <2>1. Len(longer) - 1 = Len(list)
    BY <1>1, <1>2
  <2> QED BY <1>1, <1>4, <2>1, FrontFacts
<1> QED BY <1>1, <1>2, <1>3, <1>5

\* A visit: what lies ahead is cut off, and the newest Limit of what is behind
\* are kept.
LEMMA VisitLine ==
    ASSUME NEW b \in Seq(Dirs), NEW f \in Seq(Dirs), NEW p \in Dirs, NEW d \in Dirs,
           Len(b) <= Limit
    PROVE  LET v == LineOf(b, p, f)
               h == Len(b) + 1
               behind == SubSeq(v, 1, IF h > 1 /\ v[h - 1] = v[h] THEN h - 1 ELSE h)
               newest == IF Len(behind) > Limit
                         THEN SubSeq(behind, Len(behind) - Limit + 1, Len(behind))
                         ELSE behind
               v2 == LineOf(Push(b, p), d, <<>>)
           IN  v2 = Append(newest, d) /\ Len(Push(b, p)) + 1 = Len(v2)
<1> DEFINE v == LineOf(b, p, f)
           h == Len(b) + 1
           at == IF h > 1 /\ v[h - 1] = v[h] THEN h - 1 ELSE h
           behind == SubSeq(v, 1, at)
           newest == IF Len(behind) > Limit
                     THEN SubSeq(behind, Len(behind) - Limit + 1, Len(behind))
                     ELSE behind
           b2 == Push(b, p)
           v2 == LineOf(b2, d, <<>>)
<1>1. Limit \in Nat /\ Limit > 0 /\ Len(b) \in Nat /\ Len(f) \in Nat
  BY LimitAssumption
<1>2. /\ v \in Seq(Dirs) /\ Len(v) = Len(b) + 1 + Len(f)
      /\ \A i \in 1..Len(b) : v[i] = b[Len(b) + 1 - i]
      /\ v[Len(b) + 1] = p
  <2>1. Puts(v, b, p, f)
    BY LineFacts
  <2> QED BY <2>1 DEF Puts
<1>3. b2 \in Seq(Dirs) /\ Len(b2) \in Nat
  <2>1. b2 \in Seq(Dirs)
    BY PushFacts
  <2> QED BY <2>1
<1>4. /\ v2 \in Seq(Dirs) /\ Len(v2) = Len(b2) + 1
      /\ \A i \in 1..Len(b2) : v2[i] = b2[Len(b2) + 1 - i]
      /\ v2[Len(b2) + 1] = d
  <2> HIDE DEF b2
  <2> QED BY <1>3, LineEnds
<1>5. /\ IsTop(b, p) => b2 = b
      /\ ~IsTop(b, p) /\ Len(b) < Limit =>
            /\ Len(b2) = Len(b) + 1 /\ b2[1] = p
            /\ \A i \in 1..Len(b) : b2[i + 1] = b[i]
      /\ ~IsTop(b, p) /\ Len(b) = Limit =>
            /\ Len(b2) = Limit /\ b2[1] = p
            /\ \A i \in 1..(Limit - 1) : b2[i + 1] = b[i]
  BY PushIs
<1>6. at = IF IsTop(b, p) THEN Len(b) ELSE Len(b) + 1
  <2>1. CASE Len(b) = 0
    <3>1. b = <<>>
      BY <2>1
    <3> QED BY <2>1, <3>1 DEF IsTop
  <2>2. CASE Len(b) > 0
    <3>1. b # <<>> /\ Head(b) = b[1]
      BY <2>2
    <3>2. v[Len(b)] = b[1]
      <4>1. Len(b) \in 1..Len(b) /\ Len(b) + 1 - Len(b) = 1
        BY <1>1, <2>2
      <4> QED BY <1>2, <4>1
    <3>3. h - 1 = Len(b) /\ h > 1
      BY <1>1, <2>2
    <3> HIDE DEF v
    <3> QED BY <1>2, <3>1, <3>2, <3>3 DEF IsTop
  <2> QED BY <1>1, <2>1, <2>2
<1>7. at \in Nat /\ at <= Len(v) /\ at <= Len(b) + 1
  <2> HIDE DEF at, v
  <2> QED BY <1>1, <1>2, <1>6
<1> HIDE DEF v, at, b2
<1>8. /\ behind \in Seq(Dirs) /\ Len(behind) = at
      /\ \A i \in 1..at : behind[i] = v[i]
  <2>1. /\ behind \in Seq(Dirs) /\ Len(behind) = IF 1 <= at THEN at - 1 + 1 ELSE 0
        /\ \A i \in 1..(at - 1 + 1) : behind[i] = v[1 + i - 1]
    BY <1>2, <1>7, SubSeqFacts
  <2> HIDE DEF behind
  <2> QED BY <1>7, <2>1
<1> HIDE DEF behind
<1> DEFINE cut == IF at > Limit THEN at - Limit ELSE 0
<1>9. /\ newest \in Seq(Dirs) /\ Len(newest) = at - cut
      /\ \A i \in 1..(at - cut) : newest[i] = v[i + cut]
  <2>1. CASE at > Limit
    <3> DEFINE s == SubSeq(behind, at - Limit + 1, at)
    <3>1. newest = s
      BY <1>8, <2>1
    <3>2. /\ s \in Seq(Dirs)
          /\ Len(s) = IF at - Limit + 1 <= at THEN at - (at - Limit + 1) + 1 ELSE 0
          /\ \A i \in 1..(at - (at - Limit + 1) + 1) :
                 s[i] = behind[at - Limit + 1 + i - 1]
      <4>1. at - Limit + 1 \in Int /\ at \in Int /\ 1 <= at - Limit + 1
        BY <1>1, <1>7, <2>1
      <4> QED BY <1>8, <4>1, SubSeqFacts, SMTT(40)
    <3> HIDE DEF s
    <3>3. /\ s \in Seq(Dirs) /\ Len(s) = Limit
          /\ \A i \in 1..Limit : s[i] = v[i + cut]
      <4>2. Len(s) = Limit
        BY <1>1, <1>7, <2>1, <3>2
      <4>1. ASSUME NEW i \in 1..Limit PROVE s[i] = v[i + cut]
        <5>1. /\ i \in 1..(at - (at - Limit + 1) + 1)
              /\ at - Limit + 1 + i - 1 = i + cut
              /\ i + cut \in 1..at
          BY <1>1, <1>7, <2>1
        <5> QED BY <1>8, <3>2, <5>1
      <4> QED BY <3>2, <4>1, <4>2
    <3>4. at - cut = Limit
      BY <1>1, <1>7, <2>1
    <3> HIDE DEF newest, cut
    <3> QED BY <3>1, <3>3, <3>4
  <2>2. CASE ~(at > Limit)
    <3>1. newest = behind /\ cut = 0
      BY <1>8, <2>2
    <3> HIDE DEF newest, cut
    <3> QED BY <1>7, <1>8, <3>1
  <2> QED BY <2>1, <2>2
<1> HIDE DEF newest
<1>10. Len(b2) = at - cut
  BY <1>1, <1>5, <1>6
<1>11. ASSUME NEW i \in 1..(at - cut) PROVE v2[i] = newest[i]
  <2>1. cut \in Nat /\ i \in 1..Len(b2) /\ Len(b2) \in Nat
    BY <1>1, <1>3, <1>7, <1>10
  <2>2. v2[i] = b2[Len(b2) + 1 - i]
    BY <1>4, <2>1
  <2>3. newest[i] = v[i + cut]
    BY <1>9
  <2>4. CASE IsTop(b, p)
    <3>1. cut = 0 /\ at = Len(b) /\ b2 = b
      BY <1>1, <1>5, <1>6, <2>4
    <3>2. i \in 1..Len(b) /\ i + cut = i
      BY <1>1, <3>1
    <3> QED BY <1>2, <2>2, <2>3, <3>1, <3>2
  <2>5. CASE ~IsTop(b, p) /\ Len(b) < Limit
    <3>1. cut = 0 /\ at = Len(b) + 1 /\ Len(b2) = Len(b) + 1
      BY <1>1, <1>5, <1>6, <2>5
    <3>2. CASE i = Len(b) + 1
      <4>1. Len(b2) + 1 - i = 1 /\ i + cut = Len(b) + 1
        <5>1. i \in Int /\ Len(b2) = i /\ cut = 0
          BY <1>1, <3>1, <3>2
        <5> HIDE DEF cut
        <5> QED BY <3>2, <5>1
      <4> QED BY <1>2, <1>5, <2>2, <2>3, <2>5, <4>1
    <3>3. CASE i # Len(b) + 1
      <4>1. /\ i \in 1..Len(b) /\ i + cut = i
            /\ Len(b) + 1 - i \in 1..Len(b)
            /\ Len(b2) + 1 - i = (Len(b) + 1 - i) + 1
        BY <1>1, <3>1, <3>3
      <4>2. b2[(Len(b) + 1 - i) + 1] = b[Len(b) + 1 - i]
        BY <1>5, <2>5, <4>1
      <4> QED BY <1>2, <2>2, <2>3, <4>1, <4>2
    <3> QED BY <3>2, <3>3
  <2>6. CASE ~IsTop(b, p) /\ Len(b) = Limit
    <3>1. cut = 1 /\ at = Len(b) + 1 /\ Len(b2) = Len(b)
      BY <1>1, <1>5, <1>6, <2>6
    <3>2. CASE i = Len(b)
      <4>1. Len(b2) + 1 - i = 1 /\ i + cut = Len(b) + 1
        BY <1>1, <3>1, <3>2
      <4> QED BY <1>2, <1>5, <2>2, <2>3, <2>6, <4>1
    <3>3. CASE i # Len(b)
      <4>1. /\ i + 1 \in 1..Len(b) /\ i + cut = i + 1
            /\ Len(b) + 1 - (i + 1) \in 1..(Limit - 1)
            /\ Len(b2) + 1 - i = (Len(b) + 1 - (i + 1)) + 1
        BY <1>1, <2>6, <3>1, <3>3
      <4>2. b2[(Len(b) + 1 - (i + 1)) + 1] = b[Len(b) + 1 - (i + 1)]
        BY <1>5, <2>6, <4>1
      <4> QED BY <1>2, <2>2, <2>3, <4>1, <4>2
    <3> QED BY <3>2, <3>3
  <2> QED BY <1>1, <2>4, <2>5, <2>6
<1> HIDE DEF cut, v2
<1>12. /\ Append(newest, d) \in Seq(Dirs)
       /\ Len(Append(newest, d)) = Len(newest) + 1
       /\ \A i \in 1..Len(newest) : Append(newest, d)[i] = newest[i]
       /\ Append(newest, d)[Len(newest) + 1] = d
  BY <1>9
<1>13. v2 = Append(newest, d)
  <2>1. Len(v2) = Len(Append(newest, d))
    BY <1>4, <1>9, <1>10, <1>12
  <2>2. ASSUME NEW i \in 1..Len(v2) PROVE v2[i] = Append(newest, d)[i]
    <3>1. CASE i = Len(b2) + 1
      BY <1>4, <1>9, <1>10, <1>12, <3>1
    <3>2. CASE i # Len(b2) + 1
      <4>1. i \in 1..(at - cut) /\ i \in 1..Len(newest)
        BY <1>3, <1>4, <1>9, <1>10, <3>2
      <4> QED BY <1>11, <1>12, <4>1
    <3> QED BY <3>1, <3>2
  <2> HIDE DEF newest
  <2> QED BY <1>4, <1>12, <2>1, <2>2, SameLine
<1> QED BY <1>4, <1>13 DEF v, at, behind, newest, b2, v2

\* Whether the neighbours of the directory shown repeat it can be seen in the
\* line as well as in the lists.
LEMMA RepeatsShow ==
    ASSUME NEW b \in Seq(Dirs), NEW p \in Dirs, NEW f \in Seq(Dirs)
    PROVE  LET v == LineOf(b, p, f)
               h == Len(b) + 1
           IN  /\ h > 1 /\ v[h - 1] = v[h] <=> IsTop(b, p)
               /\ h < Len(v) /\ v[h + 1] = v[h] <=> IsTop(f, p)
               /\ h > 1 <=> b # <<>>
               /\ h < Len(v) <=> f # <<>>
               /\ h \in 1..Len(v) /\ v \in Seq(Dirs)
<1> DEFINE v == LineOf(b, p, f)  h == Len(b) + 1
<1>1. Len(b) \in Nat /\ Len(f) \in Nat
  OBVIOUS
<1>2. /\ v \in Seq(Dirs) /\ Len(v) = Len(b) + 1 + Len(f)
      /\ \A i \in 1..Len(b) : v[i] = b[Len(b) + 1 - i]
      /\ v[Len(b) + 1] = p
      /\ \A i \in 1..Len(f) : v[Len(b) + 1 + i] = f[i]
  <2>1. Puts(v, b, p, f)
    BY LineFacts
  <2> QED BY <2>1 DEF Puts
<1> HIDE DEF v
<1>3. b # <<>> <=> Len(b) > 0
  OBVIOUS
<1>4. f # <<>> <=> Len(f) > 0
  OBVIOUS
<1>5. Len(b) > 0 => v[h - 1] = Head(b)
  <2>1. ASSUME Len(b) > 0 PROVE v[h - 1] = Head(b)
    <3>1. h - 1 = Len(b) /\ Len(b) \in 1..Len(b) /\ Len(b) + 1 - Len(b) = 1
      BY <1>1, <2>1
    <3>2. Head(b) = b[1]
      BY <2>1
    <3> QED BY <1>2, <3>1, <3>2
  <2> QED BY <2>1
<1>6. Len(f) > 0 => v[h + 1] = Head(f)
  <2>1. ASSUME Len(f) > 0 PROVE v[h + 1] = Head(f)
    <3>1. 1 \in 1..Len(f)
      BY <1>1, <2>1
    <3>2. Head(f) = f[1]
      BY <2>1
    <3> QED BY <1>2, <3>1, <3>2
  <2> QED BY <2>1
<1>7. h > 1 <=> Len(b) > 0
  BY <1>1
<1>8. h < Len(v) <=> Len(f) > 0
  BY <1>1, <1>2
<1>9. h \in 1..Len(v)
  BY <1>1, <1>2
<1>10. v[h] = p
  BY <1>2
<1> HIDE DEF h
<1>11. h > 1 /\ v[h - 1] = v[h] <=> IsTop(b, p)
  BY <1>3, <1>5, <1>7, <1>10 DEF IsTop
<1>12. h < Len(v) /\ v[h + 1] = v[h] <=> IsTop(f, p)
  BY <1>4, <1>6, <1>8, <1>10 DEF IsTop
<1> QED BY <1>2, <1>3, <1>4, <1>7, <1>8, <1>9, <1>11, <1>12 DEF v, h

\* Back keeps the line, except that it drops the directory shown where the one
\* ahead repeats it.
LEMMA BackLine ==
    ASSUME NEW b \in Seq(Dirs), NEW p \in Dirs, NEW f \in Seq(Dirs),
           b # <<>>, Len(b) + Len(f) <= Limit
    PROVE  LET v == LineOf(b, p, f)
               h == Len(b) + 1
           IN  /\ LineOf(Tail(b), Head(b), Push(f, p)) =
                     IF IsTop(f, p) THEN RemoveAt(v, h) ELSE v
               /\ Len(Tail(b)) + 1 = h - 1
<1> DEFINE v == LineOf(b, p, f)  t == Tail(b)  f2 == Push(f, p)
           v2 == LineOf(t, Head(b), f2)
<1>1. /\ Limit \in Nat /\ Len(b) \in Nat /\ Len(f) \in Nat /\ Len(b) > 0
      /\ Len(f) < Limit /\ Len(f) <= Limit
  BY LimitAssumption
<1>2. /\ v \in Seq(Dirs) /\ Len(v) = Len(b) + 1 + Len(f)
      /\ \A i \in 1..Len(b) : v[i] = b[Len(b) + 1 - i]
      /\ v[Len(b) + 1] = p
      /\ \A i \in 1..Len(f) : v[Len(b) + 1 + i] = f[i]
  <2>1. Puts(v, b, p, f)
    BY LineFacts
  <2> QED BY <2>1 DEF Puts
<1>3. /\ t \in Seq(Dirs) /\ Len(t) = Len(b) - 1 /\ Head(b) \in Dirs /\ Head(b) = b[1]
      /\ \A i \in 1..(Len(b) - 1) : t[i] = b[i + 1]
  BY HeadAndTail
<1>4. f2 \in Seq(Dirs)
  BY <1>1, PushFacts
<1>5. /\ IsTop(f, p) => f2 = f
      /\ ~IsTop(f, p) => /\ Len(f2) = Len(f) + 1 /\ f2[1] = p
                         /\ \A i \in 1..Len(f) : f2[i + 1] = f[i]
  BY <1>1, PushIs
<1> HIDE DEF v, t, f2
<1>6. /\ v2 \in Seq(Dirs) /\ Len(v2) = Len(t) + 1 + Len(f2)
      /\ \A i \in 1..Len(t) : v2[i] = t[Len(t) + 1 - i]
      /\ v2[Len(t) + 1] = Head(b)
      /\ \A i \in 1..Len(f2) : v2[Len(t) + 1 + i] = f2[i]
  <2>1. Puts(v2, t, Head(b), f2)
    BY <1>3, <1>4, LineFacts
  <2> QED BY <2>1 DEF Puts
<1> HIDE DEF v2
<1>7. ASSUME NEW i \in 1..Len(b) PROVE v2[i] = v[i]
  <2>1. v[i] = b[Len(b) + 1 - i]
    BY <1>2
  <2>2. CASE i = Len(b)
    <3>1. i = Len(t) + 1 /\ Len(b) + 1 - i = 1
      BY <1>1, <1>3, <2>2
    <3> QED BY <1>3, <1>6, <2>1, <3>1
  <2>3. CASE i # Len(b)
    <3>1. /\ i \in 1..Len(t) /\ Len(t) + 1 - i \in 1..(Len(b) - 1)
          /\ (Len(t) + 1 - i) + 1 = Len(b) + 1 - i
      BY <1>1, <1>3, <2>3
    <3>2. v2[i] = t[Len(t) + 1 - i]
      BY <1>6, <3>1
    <3>3. t[Len(t) + 1 - i] = b[(Len(t) + 1 - i) + 1]
      BY <1>3, <3>1
    <3> QED BY <2>1, <3>1, <3>2, <3>3
  <2> QED BY <2>2, <2>3
<1>8. CASE IsTop(f, p)
  <2> DEFINE r == RemoveAt(v, Len(b) + 1)
  <2>1. Len(b) + 1 \in 1..Len(v)
    BY <1>1, <1>2
  <2>2. /\ r \in Seq(Dirs) /\ Len(r) = Len(v) - 1
        /\ \A i \in 1..(Len(b) + 1 - 1) : r[i] = v[i]
        /\ \A i \in (Len(b) + 1)..(Len(v) - 1) : r[i] = v[i + 1]
    <3>1. Lacks(r, v, Len(b) + 1)
      BY <1>2, <2>1, RemoveAtFacts
    <3> QED BY <3>1 DEF Lacks
  <2> HIDE DEF r
  <2>3. f2 = f /\ Len(v2) = Len(r)
    BY <1>1, <1>2, <1>3, <1>5, <1>6, <1>8, <2>2
  <2>4. ASSUME NEW i \in 1..Len(v2) PROVE v2[i] = r[i]
    <3>1. CASE i <= Len(b)
      BY <1>1, <1>7, <2>2, <3>1
    <3>2. CASE i > Len(b)
      <4>1. PICK k \in 1..Len(f) : i = Len(b) + k
        <5>1. i - Len(b) \in 1..Len(f) /\ i = Len(b) + (i - Len(b))
          BY <1>1, <1>2, <2>2, <2>3, <3>2
        <5> QED BY <5>1
      <4>2. Len(t) + 1 + k = i /\ i + 1 = Len(b) + 1 + k /\ i \in (Len(b) + 1)..(Len(v) - 1)
        BY <1>1, <1>2, <1>3, <4>1
      <4>3. v2[i] = f[k]
        BY <1>6, <2>3, <4>2
      <4>4. r[i] = v[i + 1] /\ v[i + 1] = f[k]
        BY <1>2, <2>2, <4>2
      <4> QED BY <4>3, <4>4
    <3> QED BY <1>1, <3>1, <3>2
  <2>5. v2 = r
    BY <1>6, <2>2, <2>3, <2>4, SameLine
  <2> QED BY <1>1, <1>3, <1>8, <2>5 DEF r, v2, f2, t, v
<1>9. CASE ~IsTop(f, p)
  <2>1. Len(f2) = Len(f) + 1 /\ Len(v2) = Len(v)
    <3>1. Len(f2) = Len(f) + 1
      BY <1>5, <1>9
    <3>2. Len(v2) = Len(t) + 1 + Len(f2) /\ Len(t) = Len(b) - 1
      BY <1>3, <1>6
    <3> QED BY <1>1, <1>2, <3>1, <3>2
  <2>2. ASSUME NEW i \in 1..Len(v2) PROVE v2[i] = v[i]
    <3>1. CASE i <= Len(b)
      BY <1>1, <1>7, <3>1
    <3>2. CASE i = Len(b) + 1
      <4>1. i = Len(t) + 1 + 1 /\ 1 \in 1..Len(f2)
        BY <1>1, <1>3, <2>1, <3>2
      <4>2. v2[i] = f2[1]
        BY <1>6, <4>1
      <4> QED BY <1>2, <1>5, <1>9, <3>2, <4>2
    <3>3. CASE i > Len(b) + 1
      <4>1. PICK k \in 1..Len(f) : i = Len(b) + 1 + k
        <5>1. i - (Len(b) + 1) \in 1..Len(f) /\ i = Len(b) + 1 + (i - (Len(b) + 1))
          BY <1>1, <1>2, <2>1, <3>3
        <5> QED BY <5>1
      <4>2. Len(t) + 1 + (k + 1) = i /\ k + 1 \in 1..Len(f2)
        BY <1>1, <1>3, <2>1, <4>1
      <4>3. v2[i] = f2[k + 1]
        BY <1>6, <4>2
      <4>4. f2[k + 1] = f[k] /\ v[i] = f[k]
        BY <1>2, <1>5, <1>9, <4>1
      <4> QED BY <4>3, <4>4
    <3> QED BY <1>1, <3>1, <3>2, <3>3
  <2>3. v2 = v
    BY <1>2, <1>6, <2>1, <2>2, SameLine
  <2> QED BY <1>1, <1>3, <1>9, <2>3 DEF v2, f2, t, v
<1> QED BY <1>8, <1>9

\* Forward keeps the line, except that it drops the directory shown where the
\* one behind repeats it.
LEMMA ForwardLine ==
    ASSUME NEW b \in Seq(Dirs), NEW p \in Dirs, NEW f \in Seq(Dirs),
           f # <<>>, Len(b) + Len(f) <= Limit
    PROVE  LET v == LineOf(b, p, f)
               h == Len(b) + 1
           IN  /\ LineOf(Push(b, p), Head(f), Tail(f)) =
                     IF IsTop(b, p) THEN RemoveAt(v, h) ELSE v
               /\ Len(Push(b, p)) + 1 = IF IsTop(b, p) THEN h ELSE h + 1
<1> DEFINE v == LineOf(b, p, f)  t == Tail(f)  b2 == Push(b, p)
           v2 == LineOf(b2, Head(f), t)
<1>1. /\ Limit \in Nat /\ Len(b) \in Nat /\ Len(f) \in Nat /\ Len(f) > 0
      /\ Len(b) < Limit /\ Len(b) <= Limit
  BY LimitAssumption
<1>2. /\ v \in Seq(Dirs) /\ Len(v) = Len(b) + 1 + Len(f)
      /\ \A i \in 1..Len(b) : v[i] = b[Len(b) + 1 - i]
      /\ v[Len(b) + 1] = p
      /\ \A i \in 1..Len(f) : v[Len(b) + 1 + i] = f[i]
  <2>1. Puts(v, b, p, f)
    BY LineFacts
  <2> QED BY <2>1 DEF Puts
<1>3. /\ t \in Seq(Dirs) /\ Len(t) = Len(f) - 1 /\ Head(f) \in Dirs /\ Head(f) = f[1]
      /\ \A i \in 1..(Len(f) - 1) : t[i] = f[i + 1]
  BY HeadAndTail
<1>4. b2 \in Seq(Dirs)
  BY <1>1, PushFacts
<1>5. /\ IsTop(b, p) => b2 = b
      /\ ~IsTop(b, p) => /\ Len(b2) = Len(b) + 1 /\ b2[1] = p
                         /\ \A i \in 1..Len(b) : b2[i + 1] = b[i]
  BY <1>1, PushIs
<1> HIDE DEF v, t, b2
<1>6. /\ v2 \in Seq(Dirs) /\ Len(v2) = Len(b2) + 1 + Len(t)
      /\ \A i \in 1..Len(b2) : v2[i] = b2[Len(b2) + 1 - i]
      /\ v2[Len(b2) + 1] = Head(f)
      /\ \A i \in 1..Len(t) : v2[Len(b2) + 1 + i] = t[i]
  <2>1. Puts(v2, b2, Head(f), t)
    BY <1>3, <1>4, LineFacts
  <2> QED BY <2>1 DEF Puts
<1> HIDE DEF v2
<1>7. CASE IsTop(b, p)
  <2> DEFINE r == RemoveAt(v, Len(b) + 1)
  <2>1. Len(b) + 1 \in 1..Len(v)
    BY <1>1, <1>2
  <2>2. /\ r \in Seq(Dirs) /\ Len(r) = Len(v) - 1
        /\ \A i \in 1..(Len(b) + 1 - 1) : r[i] = v[i]
        /\ \A i \in (Len(b) + 1)..(Len(v) - 1) : r[i] = v[i + 1]
    <3>1. Lacks(r, v, Len(b) + 1)
      BY <1>2, <2>1, RemoveAtFacts
    <3> QED BY <3>1 DEF Lacks
  <2> HIDE DEF r
  <2>3. b2 = b /\ Len(v2) = Len(r)
    BY <1>1, <1>2, <1>3, <1>5, <1>6, <1>7, <2>2
  <2>4. ASSUME NEW i \in 1..Len(v2) PROVE v2[i] = r[i]
    <3>1. CASE i <= Len(b)
      <4>1. i \in 1..Len(b) /\ i \in 1..(Len(b) + 1 - 1)
        BY <1>1, <3>1
      <4> QED BY <1>2, <1>6, <2>2, <2>3, <4>1
    <3>2. CASE i > Len(b)
      <4>1. PICK k \in 1..Len(f) : i = Len(b) + k
        <5>1. i - Len(b) \in 1..Len(f) /\ i = Len(b) + (i - Len(b))
          BY <1>1, <1>2, <2>2, <2>3, <3>2
        <5> QED BY <5>1
      <4>2. i + 1 = Len(b) + 1 + k /\ i \in (Len(b) + 1)..(Len(v) - 1)
        BY <1>1, <1>2, <4>1
      <4>3. r[i] = f[k]
        BY <1>2, <2>2, <4>2
      <4>4. v2[i] = f[k]
        <5>1. CASE k = 1
          BY <1>3, <1>6, <2>3, <4>1, <5>1
        <5>2. CASE k # 1
          <6>1. /\ k - 1 \in 1..Len(t) /\ k - 1 \in 1..(Len(f) - 1)
                /\ Len(b2) + 1 + (k - 1) = i /\ (k - 1) + 1 = k
            BY <1>1, <1>3, <2>3, <4>1, <5>2
          <6>2. v2[Len(b2) + 1 + (k - 1)] = t[k - 1] /\ t[k - 1] = f[(k - 1) + 1]
            BY <1>3, <1>6, <6>1
          <6> QED BY <6>1, <6>2
        <5> QED BY <5>1, <5>2
      <4> QED BY <4>3, <4>4
    <3> QED BY <1>1, <3>1, <3>2
  <2>5. v2 = r
    BY <1>6, <2>2, <2>3, <2>4, SameLine
  <2> QED BY <1>7, <2>3, <2>5 DEF r, v2, b2, t, v
<1>8. CASE ~IsTop(b, p)
  <2>1. Len(b2) = Len(b) + 1 /\ Len(v2) = Len(v)
    <3>1. Len(b2) = Len(b) + 1
      BY <1>5, <1>8
    <3>2. Len(v2) = Len(b2) + 1 + Len(t) /\ Len(t) = Len(f) - 1
      BY <1>3, <1>6
    <3> QED BY <1>1, <1>2, <3>1, <3>2
  <2>2. ASSUME NEW i \in 1..Len(v2) PROVE v2[i] = v[i]
    <3>1. CASE i <= Len(b)
      <4>1. /\ i \in 1..Len(b) /\ i \in 1..Len(b2) /\ Len(b) + 1 - i \in 1..Len(b)
            /\ Len(b2) + 1 - i = (Len(b) + 1 - i) + 1
        BY <1>1, <2>1, <3>1
      <4>2. v2[i] = b2[Len(b2) + 1 - i]
        BY <1>6, <4>1
      <4>3. b2[(Len(b) + 1 - i) + 1] = b[Len(b) + 1 - i]
        BY <1>5, <1>8, <4>1
      <4> QED BY <1>2, <4>1, <4>2, <4>3
    <3>2. CASE i = Len(b) + 1
      <4>1. i \in 1..Len(b2) /\ Len(b2) + 1 - i = 1
        BY <1>1, <2>1, <3>2
      <4>2. v2[i] = b2[1]
        BY <1>6, <4>1
      <4> QED BY <1>2, <1>5, <1>8, <3>2, <4>2
    <3>3. CASE i > Len(b) + 1
      <4>1. PICK k \in 1..Len(f) : i = Len(b) + 1 + k
        <5>1. i - (Len(b) + 1) \in 1..Len(f) /\ i = Len(b) + 1 + (i - (Len(b) + 1))
          BY <1>1, <1>2, <2>1, <3>3
        <5> QED BY <5>1
      <4>2. v[i] = f[k]
        BY <1>2, <4>1
      <4>3. CASE k = 1
        BY <1>3, <1>6, <2>1, <4>1, <4>2, <4>3
      <4>4. CASE k # 1
        <5>1. /\ k - 1 \in 1..Len(t) /\ k - 1 \in 1..(Len(f) - 1)
              /\ Len(b2) + 1 + (k - 1) = i /\ (k - 1) + 1 = k
          BY <1>1, <1>3, <2>1, <4>1, <4>4
        <5>2. v2[Len(b2) + 1 + (k - 1)] = t[k - 1] /\ t[k - 1] = f[(k - 1) + 1]
          BY <1>3, <1>6, <5>1
        <5> QED BY <4>2, <5>1, <5>2
      <4> QED BY <4>3, <4>4
    <3> QED BY <1>1, <3>1, <3>2, <3>3, SMTT(40)
  <2>3. v2 = v
    BY <1>2, <1>6, <2>1, <2>2, SameLine
  <2>4. Len(b2) + 1 = Len(b) + 1 + 1
    BY <1>1, <2>1
  <2> QED BY <1>8, <2>3, <2>4 DEF v2, b2, t, v
<1> QED BY <1>7, <1>8

\* A drag replaces the directory shown.
LEMMA SpringLine ==
    ASSUME NEW b \in Seq(Dirs), NEW p \in Dirs, NEW f \in Seq(Dirs), NEW d \in Dirs
    PROVE  LineOf(b, d, f) = [LineOf(b, p, f) EXCEPT ![Len(b) + 1] = d]
<1> DEFINE v == LineOf(b, p, f)  v2 == LineOf(b, d, f)  h == Len(b) + 1
           r == [v EXCEPT ![h] = d]
<1>1. Len(b) \in Nat /\ Len(f) \in Nat
  OBVIOUS
<1>2. Puts(v, b, p, f) /\ Puts(v2, b, d, f)
  BY LineFacts
<1> HIDE DEF v, v2
<1>3. v \in Seq(Dirs) /\ v2 \in Seq(Dirs) /\ Len(v) = Len(v2) /\ h \in 1..Len(v)
  BY <1>1, <1>2 DEF Puts
<1>4. /\ r \in Seq(Dirs) /\ Len(r) = Len(v)
      /\ \A i \in 1..Len(v) : r[i] = IF i = h THEN d ELSE v[i]
  <2> HIDE DEF h
  <2> QED BY <1>3
<1> HIDE DEF r
<1>5. ASSUME NEW i \in 1..Len(v2) PROVE v2[i] = r[i]
  <2>1. CASE i <= Len(b)
    <3>1. i \in 1..Len(b) /\ i # h
      BY <1>1, <2>1
    <3>2. v[i] = v2[i]
      BY <1>2, <3>1 DEF Puts
    <3> QED BY <1>3, <1>4, <3>1, <3>2
  <2>2. CASE i = h
    BY <1>2, <1>3, <1>4, <2>2 DEF Puts
  <2>3. CASE i > h
    <3>1. PICK k \in 1..Len(f) : i = Len(b) + 1 + k
      <4>1. Len(v2) = Len(b) + 1 + Len(f)
        BY <1>2 DEF Puts
      <4>2. i - h \in 1..Len(f) /\ i = Len(b) + 1 + (i - h)
        BY <1>1, <2>3, <4>1
      <4> QED BY <4>2
    <3>2. v[i] = v2[i]
      BY <1>2, <3>1 DEF Puts
    <3>3. i # h
      BY <1>1, <2>3
    <3> QED BY <1>3, <1>4, <3>2, <3>3
  <2> QED BY <1>1, <2>1, <2>2, <2>3
<1>6. v2 = r
  BY <1>3, <1>4, <1>5, SameLine
<1> QED BY <1>6 DEF v, v2, r, h

\* A window begins with a line of one place.
LEMMA FirstLine ==
    ASSUME NEW d \in Dirs
    PROVE  LineOf(<<>>, d, <<>>) = <<d>>
<1>1. PICK none \in Seq(Dirs) : none = <<>>
  BY EmptySeq
<1>2. Puts(LineOf(none, d, none), none, d, none)
  BY LineFacts
<1>3. Len(none) = 0
  BY <1>1
<1> DEFINE v == LineOf(none, d, none)
<1> HIDE DEF v
<1>4. v \in Seq(Dirs) /\ Len(v) = 1 /\ v[1] = d
  <2>1. /\ v \in Seq(Dirs) /\ Len(v) = Len(none) + 1 + Len(none)
        /\ v[Len(none) + 1] = d
    BY <1>2 DEF Puts, v
  <2> QED BY <1>3, <2>1
<1>5. v = <<d>>
  BY <1>4
<1> QED BY <1>1, <1>5 DEF v

\* Back and Forward of a window move along one line of visited directories, and
\* nothing that happens to the window changes that line otherwise than Timeline
\* says (filer_history_push(), filer_history_go(), filer_change_to(),
\* spring_now()).
THEOREM HistoryIsATimeline == Spec => IsATimeline
<1>1. Init => Line!Init
  <2> SUFFICES ASSUME NEW d \in Dirs, Fresh(d) PROVE Line!Init
    BY DEF Init
  <2>1. LineOf(history_back, sym_path, history_forward) = <<d>> /\ Len(history_back) + 1 = 1
    BY FirstLine DEF Fresh
  <2> QED BY <2>1 DEF Line!Init, Line!Start, LineOf
<1>2. IInv /\ [Next]_vars => [Line!Next]_Line!lineVars
  <2> SUFFICES ASSUME IInv, [Next]_vars PROVE [Line!Next]_Line!lineVars
    OBVIOUS
  <2> DEFINE v == LineOf(history_back, sym_path, history_forward)
             h == Len(history_back) + 1
             v2 == LineOf(history_back', sym_path', history_forward')
             h2 == Len(history_back') + 1
  <2>1. /\ history_back \in Seq(Dirs) /\ history_forward \in Seq(Dirs)
        /\ sym_path \in Dirs
        /\ Len(history_back) + Len(history_forward) <= Limit
        /\ Len(history_back) <= Limit
    <3>1. Len(history_back) \in Nat /\ Len(history_forward) \in Nat /\ Limit \in Nat
      BY LimitAssumption DEF IInv, TypeOK
    <3> QED BY <3>1 DEF IInv, TypeOK, WithinLimit
  <2>2. /\ h > 1 /\ v[h - 1] = v[h] <=> IsTop(history_back, sym_path)
        /\ h < Len(v) /\ v[h + 1] = v[h] <=> IsTop(history_forward, sym_path)
        /\ h > 1 <=> history_back # <<>>
        /\ h < Len(v) <=> history_forward # <<>>
    BY <2>1, RepeatsShow
  <2>3. ASSUME NEW d \in Dirs, Visit(d), d # sym_path PROVE Line!Next
    <3>1. /\ history_back' = Push(history_back, sym_path)
          /\ history_forward' = <<>> /\ sym_path' = d
      BY <2>3 DEF Visit
    <3>2. v[h] = sym_path
      BY <2>1, LineFacts, SMTT(40) DEF Puts
    <3>3. Line!Visit(d)
      BY <2>1, <2>3, <3>1, <3>2, VisitLine, ZenonT(40)
         DEF Line!Visit, Line!Newest, Line!Behind, Line!Present, LineOf
    <3> QED BY <3>3 DEF Line!Next
  <2>4. ASSUME NEW d \in Dirs, SpringTo(d) PROVE Line!Next
    <3>1. v2 = [v EXCEPT ![h] = d] /\ h2 = h
      BY <2>1, <2>4, SpringLine DEF SpringTo
    <3>2. Line!Replace(d)
      BY <3>1 DEF Line!Replace, LineOf
    <3> QED BY <3>2 DEF Line!Next
  <2>5. ASSUME NEW d \in Dirs, Reopen(d) PROVE Line!Next
    <3>1. v2 = <<d>> /\ h2 = 1
      BY <2>5, FirstLine DEF Reopen
    <3>2. Line!Restart
      BY <3>1 DEF Line!Restart, LineOf
    <3> QED BY <3>2 DEF Line!Next
  <2>6. CASE Back
    <3>1. /\ history_back # <<>> /\ history_back' = Tail(history_back)
          /\ history_forward' = Push(history_forward, sym_path)
          /\ sym_path' = Head(history_back)
      BY <2>6 DEF Back
    <3>2. /\ v2 = IF IsTop(history_forward, sym_path) THEN RemoveAt(v, h) ELSE v
          /\ h2 = h - 1
      BY <2>1, <3>1, BackLine
    <3>3. /\ h > 1 /\ h2 = h - 1
          /\ v2 = IF h < Len(v) /\ v[h + 1] = v[h] THEN RemoveAt(v, h) ELSE v
      <4> HIDE DEF h, h2, v, v2
      <4> QED BY <2>2, <3>1, <3>2
    <3>4. Line!Back
      BY <3>3 DEF Line!Back, Line!Present, Line!RemoveAt, RemoveAt, LineOf
    <3> QED BY <3>4 DEF Line!Next
  <2>7. CASE Forward
    <3>1. /\ history_forward # <<>> /\ history_forward' = Tail(history_forward)
          /\ history_back' = Push(history_back, sym_path)
          /\ sym_path' = Head(history_forward)
      BY <2>7 DEF Forward
    <3>2. /\ v2 = IF IsTop(history_back, sym_path) THEN RemoveAt(v, h) ELSE v
          /\ h2 = IF IsTop(history_back, sym_path) THEN h ELSE h + 1
      BY <2>1, <3>1, ForwardLine
    <3>3. /\ h < Len(v)
          /\ IF h > 1 /\ v[h - 1] = v[h]
             THEN v2 = RemoveAt(v, h) /\ h2 = h
             ELSE h2 = h + 1 /\ v2 = v
      <4> HIDE DEF h, h2, v, v2
      <4> QED BY <2>2, <3>1, <3>2
    <3>4. Line!Forward
      BY <3>3 DEF Line!Forward, Line!Present, Line!RemoveAt, RemoveAt, LineOf
    <3> QED BY <3>4 DEF Line!Next
  <2>8. CASE UNCHANGED <<history_back, history_forward, sym_path>>
    BY <2>8 DEF Line!lineVars
  <2>9. ASSUME NEW d \in Dirs, Visit(d), d = sym_path
        PROVE UNCHANGED <<history_back, history_forward, sym_path>>
    BY <2>9 DEF Visit
  <2> QED BY <2>3, <2>4, <2>5, <2>6, <2>7, <2>8, <2>9 DEF Next, vars
<1> QED BY <1>1, <1>2, IInvHolds, PTL DEF Spec, IsATimeline, Line!Spec

=============================================================================
