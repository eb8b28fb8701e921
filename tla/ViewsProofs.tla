---------------------------- MODULE ViewsProofs ----------------------------
(***************************************************************************)
(* Proofs about views: what they count and point at is there, the cursor   *)
(* stays on its file while the directory rearranges a view, and the views  *)
(* keep the promise of View.                                               *)
(***************************************************************************)
EXTENDS Views, SequenceTheorems, FiniteSetTheorems, NaturalsInduction,
        WellFoundedInduction, TLAPS

Tidings == {"lose", "some"}
Results == [c : Collections, out : Seq(Tidings)]

-----------------------------------------------------------------------------
(* Loops.                                                                  *)

\* A set of naturals that is not empty has a least element.
LEMMA LeastNumber ==
    ASSUME NEW K \in SUBSET Nat, K # {}
    PROVE  \E m \in K : \A k \in K : m <= k
  <1> DEFINE R == {p \in Nat \X Nat : p[1] < p[2]}
  <1>1. R = OpToRel(<, Nat)
    BY DEF OpToRel
  <1>2. IsWellFoundedOn(R, Nat)
    BY <1>1, NatLessThanWellFounded
  <1>3. PICK m \in K : \A k \in K : ~(<<k, m>> \in R)
    BY <1>2, WFMin
  <1>4. ASSUME NEW k \in K, k < m
        PROVE  FALSE
    <2>1. <<k, m>> \in Nat \X Nat /\ <<k, m>>[1] = k /\ <<k, m>>[2] = m
      OBVIOUS
    <2> QED BY <1>3, <1>4, <2>1
  <1> QED BY <1>4

\* What holds before a loop and is kept by each of its rounds holds
\* throughout: S[k] is what it may have come to after k rounds.
LEMMA LoopInvariant ==
    ASSUME NEW n \in Nat, NEW f, NEW S, f[0] \in S[0],
           \A k \in 1..n : f[k - 1] \in S[k - 1] => f[k] \in S[k]
    PROVE  \A k \in 0..n : f[k] \in S[k]
  <1> DEFINE K == {k \in 0..n : f[k] \notin S[k]}
  <1>1. SUFFICES ASSUME K # {} PROVE FALSE
    OBVIOUS
  <1>0. K \in SUBSET Nat
    OBVIOUS
  <1> HIDE DEF K
  <1>2. PICK m \in K : \A k \in K : m <= k
    BY <1>0, <1>1, LeastNumber
  <1>3. m # 0 /\ m \in 1..n /\ m - 1 \in 0..n
    BY <1>2 DEF K
  <1>4. m - 1 \notin K
    BY <1>2, <1>3
  <1> QED BY <1>2, <1>3, <1>4 DEF K

IsLoop(f, n, b, G, S) ==
  f \in [0..n -> S] /\ f[0] = b /\ \A k \in 1..n : f[k] = G[<<k, f[k - 1]>>]

\* A loop of n rounds, round k of which makes G[<<k, s>>] of s, can be run.
LEMMA LoopRuns ==
    ASSUME NEW n \in Nat, NEW b, NEW G, NEW S, b \in S,
           \A k \in 1..n : \A s \in S : G[<<k, s>>] \in S
    PROVE  \E f : IsLoop(f, n, b, G, S)
  <1> DEFINE Run(m) == \E f : IsLoop(f, m, b, G, S)
             K == {m \in 0..n : ~Run(m)}
  <1>1. SUFFICES ASSUME K # {} PROVE FALSE
    OBVIOUS
  <1>0. K \in SUBSET Nat
    OBVIOUS
  <1> HIDE DEF K
  <1>2. PICK m \in K : \A k \in K : m <= k
    BY <1>0, <1>1, LeastNumber
  <1>3. CASE m = 0
    <2> DEFINE f == [k \in 0..0 |-> b]
    <2>1. f \in [0..0 -> S] /\ f[0] = b /\ \A k \in 1..0 : f[k] = G[<<k, f[k - 1]>>]
      OBVIOUS
    <2>2. Run(0)
      BY <2>1 DEF IsLoop
    <2> QED BY <1>2, <1>3, <2>2 DEF K
  <1>4. CASE m # 0
    <2>1. m \in 1..n /\ m - 1 \in 0..n /\ m - 1 \notin K
      BY <1>2, <1>4 DEF K
    <2>2. PICK f \in [0..(m - 1) -> S] :
            f[0] = b /\ \A k \in 1..(m - 1) : f[k] = G[<<k, f[k - 1]>>]
      BY <2>1 DEF K, IsLoop
    <2> DEFINE g == [k \in 0..m |-> IF k = m THEN G[<<m, f[m - 1]>>] ELSE f[k]]
    <2>3. f[m - 1] \in S /\ G[<<m, f[m - 1]>>] \in S
      BY <2>1, <2>2
    <2>4. g \in [0..m -> S] /\ g[0] = b
      BY <2>1, <2>2, <2>3
    <2>5. ASSUME NEW k \in 1..m
          PROVE  g[k] = G[<<k, g[k - 1]>>]
      <3>1. k - 1 \in 0..(m - 1) /\ g[k - 1] = f[k - 1]
        BY <2>1
      <3>2. CASE k = m
        <4>1. g[m] = G[<<m, f[m - 1]>>] /\ g[m - 1] = f[m - 1]
          BY <2>1, <3>1, <3>2
        <4> HIDE DEF g
        <4> QED BY <3>2, <4>1
      <3>3. CASE k # m
        <4>1. k \in 1..(m - 1) /\ g[k] = f[k]
          BY <2>1, <3>3
        <4> QED BY <2>2, <3>1, <4>1
      <3> QED BY <3>2, <3>3
    <2> HIDE DEF g
    <2>6. Run(m)
      BY <2>4, <2>5 DEF IsLoop
    <2> QED BY <1>2, <2>6 DEF K
  <1> QED BY <1>3, <1>4
-----------------------------------------------------------------------------
(* Items, flags and counts.                                                *)

\* A function on 1..n is a sequence of length n.
LEMMA ListIsASeq ==
    ASSUME NEW n \in Nat, NEW S, NEW f \in [1..n -> S]
    PROVE  f \in Seq(S) /\ Len(f) = n
  <1>1. f \in Seq(S)
    BY SeqDef
  <1>2. DOMAIN f = 1..Len(f) /\ Len(f) \in Nat
    BY <1>1, LenProperties
  <1> QED BY <1>1, <1>2

\* What is marked are numbers of items, finitely many.
LEMMA MarkedAreNumbers ==
    ASSUME NEW c \in Collections
    PROVE  /\ Size(c) \in Nat
           /\ Marked(c) \subseteq Numbers(c)
           /\ IsFiniteSet(Numbers(c)) /\ Cardinality(Numbers(c)) = Size(c)
           /\ IsFiniteSet(Marked(c)) /\ Cardinality(Marked(c)) \in Nat
           /\ \A i \in Numbers(c) : i + 1 \in 1..Size(c) /\ c.items[i + 1] \in Item
  <1>1. c.items \in Seq(Item)
    BY DEF Collections
  <1>2. Size(c) \in Nat
    BY <1>1, LenProperties DEF Size
  <1>3. IsFiniteSet(Numbers(c)) /\ Cardinality(Numbers(c)) = Size(c)
    <2>1. 0 \in Int /\ Size(c) - 1 \in Int
      BY <1>2
    <2>2. /\ IsFiniteSet(0..(Size(c) - 1))
          /\ Cardinality(0..(Size(c) - 1)) = IF 0 > Size(c) - 1 THEN 0 ELSE (Size(c) - 1) - 0 + 1
      BY <2>1, FS_Interval
    <2> QED BY <1>2, <2>2 DEF Numbers
  <1>4. Marked(c) \subseteq Numbers(c)
    BY DEF Marked
  <1>5. IsFiniteSet(Marked(c)) /\ Cardinality(Marked(c)) \in Nat
    BY <1>3, <1>4, FS_Subset, FS_CardinalityType
  <1>6. \A i \in Numbers(c) : i + 1 \in 1..Size(c) /\ c.items[i + 1] \in Item
    BY <1>1, <1>2, ElementOfSeq DEF Numbers, Size
  <1> QED BY <1>2, <1>3, <1>4, <1>5, <1>6

\* Sets of numbers of items are finite; one is empty if it counts nothing.
LEMMA SomeNumbers ==
    ASSUME NEW c \in Collections, NEW M \in SUBSET Numbers(c)
    PROVE  /\ IsFiniteSet(M) /\ Cardinality(M) \in Nat
           /\ Cardinality(M) = 0 <=> M = {}
           /\ Cardinality(M) = Size(c) <=> M = Numbers(c)
  <1>1. IsFiniteSet(Numbers(c)) /\ Cardinality(Numbers(c)) = Size(c)
    BY MarkedAreNumbers
  <1>2. /\ IsFiniteSet(M) /\ Cardinality(M) <= Cardinality(Numbers(c))
        /\ Cardinality(M) = Cardinality(Numbers(c)) => M = Numbers(c)
    BY <1>1, FS_Subset
  <1>3. Cardinality(M) \in Nat /\ (Cardinality(M) = 0 <=> M = {})
    BY <1>2, FS_CardinalityType, FS_EmptySet
  <1> QED BY <1>1, <1>2, <1>3

\* d has the items of c, but for their flags.
Alike(c, d) ==
  /\ Size(d) = Size(c)
  /\ \A i \in Numbers(c) : Data(d, i) = Data(c, i)
  /\ d.cursor = c.cursor /\ d.wink = c.wink

\* The count is that of the marked items.
Counted(c) == c \in Collections /\ c.count = Cardinality(Marked(c))

\* Being alike carries over.
LEMMA AlikeIsTransitive ==
    ASSUME NEW c, NEW d, NEW e, Alike(c, d), Alike(d, e)
    PROVE  Alike(c, e)
  BY DEF Alike, Numbers

\* Alike collections show the same, and select the same if marked the same.
LEMMA AlikeShowsAlike ==
    ASSUME NEW c, NEW d, Alike(c, d)
    PROVE  /\ Numbers(d) = Numbers(c)
           /\ Shown(d) = Shown(c)
           /\ SelectedIn(d) = {Data(c, i) : i \in Marked(d)}
  <1>1. Numbers(d) = Numbers(c)
    BY DEF Alike, Numbers
  <1>2. Shown(d) = Shown(c)
    BY <1>1 DEF Alike, Shown
  <1>3. SelectedIn(d) = {Data(c, i) : i \in Marked(d)}
    BY <1>1 DEF Alike, SelectedIn, Marked
  <1> QED BY <1>1, <1>2, <1>3

\* Flags sets the flags, and nothing else.
LEMMA FlagsSet ==
    ASSUME NEW c \in Collections, NEW which, NEW n \in Nat
    PROVE  LET d == [Flags(c, which) EXCEPT !.count = n]
           IN  /\ d \in Collections /\ Alike(c, d)
               /\ d.count = n /\ d.blocked = c.blocked /\ d.old = c.old
               /\ Marked(d) = which \cap Numbers(c)
  <1> DEFINE its == [i \in 1..Size(c) |-> [c.items[i] EXCEPT !.selected = (i - 1) \in which]]
             d == [c EXCEPT !.items = its, !.count = n]
  <1>1. [Flags(c, which) EXCEPT !.count = n] = d
    BY DEF Flags, Collections
  <1>2. Size(c) \in Nat /\ \A i \in Numbers(c) : i + 1 \in 1..Size(c) /\ c.items[i + 1] \in Item
    BY MarkedAreNumbers
  <1>3. \A k \in 1..Size(c) : c.items[k] \in Item
    BY <1>2, ElementOfSeq DEF Size, Collections
  <1>4. \A k \in 1..Size(c) : /\ its[k] \in Item
                              /\ its[k].data = c.items[k].data
                              /\ its[k].selected = ((k - 1) \in which)
    <2> SUFFICES ASSUME NEW k \in 1..Size(c)
                 PROVE  /\ its[k] \in Item
                        /\ its[k].data = c.items[k].data
                        /\ its[k].selected = ((k - 1) \in which)
      OBVIOUS
    <2>1. its[k] = [c.items[k] EXCEPT !.selected = (k - 1) \in which]
      OBVIOUS
    <2>2. c.items[k] \in [data : Files, selected : BOOLEAN]
      BY <1>3 DEF Item
    <2>3. ((k - 1) \in which) \in BOOLEAN
      OBVIOUS
    <2> HIDE DEF its
    <2> QED BY <2>1, <2>2, <2>3, Zenon DEF Item
  <1>5. its \in Seq(Item) /\ Len(its) = Size(c)
    BY <1>2, <1>4, ListIsASeq
  <1> HIDE DEF its
  <1>6. /\ d \in Collections /\ d.items = its /\ d.count = n /\ d.blocked = c.blocked
        /\ d.cursor = c.cursor /\ d.wink = c.wink /\ d.old = c.old
    BY <1>5 DEF Collections
  <1> HIDE DEF d
  <1>7. Size(d) = Size(c) /\ Numbers(d) = Numbers(c)
    BY <1>5, <1>6 DEF Size, Numbers
  <1>8. \A i \in Numbers(c) : Data(d, i) = Data(c, i) /\ IsSelected(d, i) = (i \in which)
    BY <1>2, <1>4, <1>6 DEF Data, IsSelected, Numbers
  <1>9. Marked(d) = which \cap Numbers(c)
    BY <1>7, <1>8 DEF Marked
  <1>10. Alike(c, d)
    BY <1>6, <1>7, <1>8 DEF Alike
  <1> QED BY <1>1, <1>6, <1>9, <1>10

\* What is told is told after what was told before.
LEMMA TellAppends ==
    ASSUME NEW r \in Results, NEW what \in Tidings
    PROVE  /\ Tell(r, what) \in Results /\ Tell(r, what).c = r.c
           /\ Tell(r, what).out = Append(r.out, what)
  BY AppendProperties DEF Results, Tell

-----------------------------------------------------------------------------
(* Selecting.                                                              *)

\* s is r with M marked.
Becomes(r, s, M) ==
  /\ s \in Results /\ Counted(s.c) /\ Alike(r.c, s.c)
  /\ s.c.blocked = r.c.blocked /\ Marked(s.c) = M

\* What is marked when item i is set, and what is told of it
Marking(c, i, on) == IF on THEN Marked(c) \cup {i} ELSE Marked(c) \ {i}

ToldOf(icons, r, M) ==
  IF M = {} THEN Append(r.out, "lose")
  ELSE IF icons /\ r.c.blocked # 0 THEN r.out ELSE Append(r.out, "some")

\* Setting flags and count and telling of it.
LEMMA MarkedAnew ==
    ASSUME NEW r \in Results, NEW M \in SUBSET Numbers(r.c)
    PROVE  LET s == [r EXCEPT !.c = [Flags(r.c, M) EXCEPT !.count = Cardinality(M)]]
           IN  Becomes(r, s, M) /\ s.out = r.out /\ s.c.count = Cardinality(M)
  <1> DEFINE d == [Flags(r.c, M) EXCEPT !.count = Cardinality(M)]
             s == [r EXCEPT !.c = d]
  <1>1. r.c \in Collections /\ r.out \in Seq(Tidings)
    BY DEF Results
  <1>2. Cardinality(M) \in Nat
    BY <1>1, SomeNumbers
  <1>3. /\ d \in Collections /\ Alike(r.c, d) /\ d.count = Cardinality(M)
        /\ d.blocked = r.c.blocked /\ Marked(d) = M
    <2> DEFINE n == Cardinality(M)
               e == [Flags(r.c, M) EXCEPT !.count = n]
    <2> HIDE DEF n
    <2>1. n \in Nat
      BY <1>2 DEF n
    <2>2. /\ e \in Collections /\ Alike(r.c, e) /\ e.count = n
          /\ e.blocked = r.c.blocked /\ Marked(e) = M \cap Numbers(r.c)
      BY <1>1, <2>1, FlagsSet
    <2>3. e = d
      BY DEF n
    <2>4. M \cap Numbers(r.c) = M
      OBVIOUS
    <2> HIDE DEF d, e
    <2> QED BY <2>2, <2>3, <2>4 DEF n
  <1> HIDE DEF d
  <1>4. s \in Results /\ s.c = d /\ s.out = r.out
    BY <1>3 DEF Results
  <1> QED BY <1>3, <1>4 DEF Becomes, Counted, d

\* collection_item_set_selected() marks one item, and says so if it changed.
LEMMA SetSelectedSets ==
    ASSUME NEW r \in Results, Counted(r.c), NEW i \in Numbers(r.c), NEW on \in BOOLEAN
    PROVE  LET s == SetSelected(r, i, on, TRUE)
               M == Marking(r.c, i, on)
           IN  /\ Becomes(r, s, M)
               /\ M = Marked(r.c) => s = r
               /\ M # Marked(r.c) => s.out = ToldOf(TRUE, r, M)
  <1> DEFINE c == r.c
             s == SetSelected(r, i, on, TRUE)
             M == Marking(c, i, on)
             d == [c EXCEPT !.items[i + 1].selected = on,
                            !.count = IF on THEN @ + 1 ELSE @ - 1]
             t == [r EXCEPT !.c = d]
  <1>1. c \in Collections /\ r.out \in Seq(Tidings) /\ c.count = Cardinality(Marked(c))
    BY DEF Results, Counted
  <1>2. /\ Size(c) \in Nat /\ Marked(c) \subseteq Numbers(c)
        /\ IsFiniteSet(Marked(c)) /\ i + 1 \in 1..Size(c) /\ c.items[i + 1] \in Item
    BY <1>1, MarkedAreNumbers
  <1>3. c.items \in Seq(Item) /\ c.count \in Nat /\ c.cursor \in Int /\ c.wink \in Int
        /\ c.old \in Int /\ c.blocked \in Nat
    BY <1>1 DEF Collections
  <1>4. IsSelected(c, i) \in BOOLEAN /\ (IsSelected(c, i) <=> i \in Marked(c))
    BY <1>2 DEF IsSelected, Item, Marked
  <1>5. CASE IsSelected(c, i) = on
    <2>1. s = r
      BY <1>5 DEF SetSelected
    <2>2. M = Marked(c)
      BY <1>4, <1>5 DEF Marking
    <2>3. Alike(c, c)
      BY DEF Alike
    <2> QED BY <2>1, <2>2, <2>3 DEF Becomes
  <1>6. CASE IsSelected(c, i) # on
    <2> DEFINE it == [c.items[i + 1] EXCEPT !.selected = on]
               its == [c.items EXCEPT ![i + 1] = it]
               n == IF on THEN c.count + 1 ELSE c.count - 1
    <2>1. it \in Item /\ it.data = c.items[i + 1].data /\ it.selected = on
      BY <1>2 DEF Item
    <2> HIDE DEF it
    <2>2. /\ its \in Seq(Item) /\ Len(its) = Size(c)
          /\ \A j \in 1..Size(c) : its[j] = IF j = i + 1 THEN it ELSE c.items[j]
      BY <1>2, <1>3, <2>1, ExceptSeq DEF Size
    <2> HIDE DEF its
    <2>3. d = [c EXCEPT !.items = its, !.count = n]
      BY DEF its, it
    <2>4. M \in SUBSET Numbers(c) /\ Cardinality(M) = n /\ n \in Nat
      <3>1. M \in SUBSET Numbers(c)
        BY <1>2 DEF Marking
      <3>2. CASE on
        <4>1. i \notin Marked(c)
          BY <1>4, <1>6, <3>2
        <4>2. Cardinality(Marked(c) \cup {i}) = Cardinality(Marked(c)) + 1
          BY <1>2, <4>1, FS_AddElement
        <4> QED BY <1>1, <1>3, <3>1, <3>2, <4>2 DEF Marking
      <3>3. CASE ~on
        <4>1. i \in Marked(c)
          BY <1>4, <1>6, <3>3
        <4>2. Cardinality(Marked(c) \ {i}) = Cardinality(Marked(c)) - 1
          BY <1>2, <4>1, FS_RemoveElement
        <4>3. Cardinality(M) \in Nat
          BY <1>1, <3>1, SomeNumbers
        <4> QED BY <1>1, <1>3, <3>1, <3>3, <4>2, <4>3 DEF Marking
      <3> QED BY <3>2, <3>3
    <2> HIDE DEF n, M
    <2>5. /\ d \in Collections /\ d.items = its /\ d.count = n /\ d.blocked = c.blocked
          /\ d.cursor = c.cursor /\ d.wink = c.wink
      BY <1>1, <2>2, <2>3, <2>4 DEF Collections
    <2> HIDE DEF d
    <2>6. Size(d) = Size(c) /\ Numbers(d) = Numbers(c)
      BY <2>2, <2>5 DEF Size, Numbers
    <2>7. \A j \in Numbers(c) : /\ Data(d, j) = Data(c, j)
                                /\ IsSelected(d, j) = IF j = i THEN on ELSE IsSelected(c, j)
      BY <1>2, <2>1, <2>2, <2>5 DEF Data, IsSelected, Numbers
    <2>8. Marked(d) = M
      BY <1>6, <2>6, <2>7 DEF Marked, M, Marking
    <2>9. Alike(c, d)
      BY <2>5, <2>6, <2>7 DEF Alike
    <2>10. t \in Results /\ t.c = d /\ t.out = r.out
      BY <1>1, <2>5 DEF Results
    <2>11. s = TellChanged(IF ~on /\ d.count = 0 THEN TellLost(t) ELSE t)
      BY <1>6 DEF SetSelected, d
    <2> HIDE DEF t
    <2>12. d.count = 0 <=> M = {}
      BY <1>1, <2>4, <2>5, SomeNumbers
    <2>13. on => M # {}
      BY DEF M, Marking
    <2>14. /\ TellLost(t) \in Results /\ TellLost(t).c = d /\ TellLost(t).out = Append(r.out, "lose")
           /\ Tell(t, "some") \in Results /\ Tell(t, "some").c = d
           /\ Tell(t, "some").out = Append(r.out, "some")
      BY <2>10, TellAppends DEF TellLost, Tidings
    <2>15. M # Marked(c)
      BY <1>2, <1>4, <1>6 DEF M, Marking
    <2>16. s \in Results /\ s.c = d /\ s.out = ToldOf(TRUE, r, M)
      <3>1. CASE M = {}
        <4>1. s = TellChanged(TellLost(t))
          BY <2>11, <2>12, <2>13, <3>1
        <4>2. TellChanged(TellLost(t)) = TellLost(t)
          BY <2>12, <2>14, <3>1 DEF TellChanged
        <4> QED BY <2>14, <3>1, <4>1, <4>2 DEF ToldOf
      <3>2. CASE M # {}
        <4>1. s = TellChanged(t)
          BY <2>11, <2>12, <3>2
        <4>2. d.count > 0
          BY <2>4, <2>5, <2>12, <3>2
        <4>3. TellChanged(t) = IF d.blocked = 0 THEN Tell(t, "some") ELSE t
          BY <2>10, <4>2 DEF TellChanged
        <4> QED BY <2>5, <2>10, <2>14, <3>2, <4>1, <4>3 DEF ToldOf
      <3> QED BY <3>1, <3>2
    <2>17. Counted(d)
      BY <2>4, <2>5, <2>8 DEF Counted
    <2> QED BY <2>5, <2>8, <2>9, <2>15, <2>16, <2>17 DEF Becomes, M
  <1> QED BY <1>4, <1>5, <1>6

\* The list view marks and says so if anything has changed.
LEMMA ListMarkMarks ==
    ASSUME NEW r \in Results, Counted(r.c), NEW M \in SUBSET Numbers(r.c)
    PROVE  /\ Becomes(r, ListMark(r, M), M)
           /\ M = Marked(r.c) => ListMark(r, M) = r
           /\ M # Marked(r.c) => ListMark(r, M).out = ToldOf(FALSE, r, M)
  <1>1. CASE M = Marked(r.c)
    <2>1. ListMark(r, M) = r
      BY <1>1 DEF ListMark
    <2> QED BY <1>1, <2>1 DEF Becomes, Alike
  <1>2. CASE M # Marked(r.c)
    <2> DEFINE s == [r EXCEPT !.c = [Flags(r.c, M) EXCEPT !.count = Cardinality(M)]]
    <2>1. Becomes(r, s, M) /\ s.out = r.out /\ s.c.count = Cardinality(M)
      BY MarkedAnew
    <2>2. ListMark(r, M) = IF s.c.count > 0 THEN Tell(s, "some") ELSE Tell(s, "lose")
      BY <1>2 DEF ListMark, ListChanged, TellLost
    <2> HIDE DEF s
    <2>3. r.c \in Collections
      BY DEF Results
    <2>4. s.c.count > 0 <=> M # {}
      BY <2>1, <2>3, SomeNumbers
    <2>5. s \in Results
      BY <2>1 DEF Becomes
    <2>6. \A what \in Tidings : /\ Tell(s, what) \in Results /\ Tell(s, what).c = s.c
                                /\ Tell(s, what).out = Append(r.out, what)
      BY <2>1, <2>5, TellAppends
    <2> QED BY <1>2, <2>1, <2>2, <2>4, <2>6 DEF Becomes, ToldOf, Tidings
  <1> QED BY <1>1, <1>2

\* Either view sets one item.
LEMMA SetInSets ==
    ASSUME NEW icons \in BOOLEAN,
           NEW r \in Results, Counted(r.c), NEW i \in Numbers(r.c), NEW on \in BOOLEAN
    PROVE  LET s == SetIn(icons, r, i, on)
               M == Marking(r.c, i, on)
           IN  /\ Becomes(r, s, M)
               /\ M = Marked(r.c) => s = r
               /\ M # Marked(r.c) => s.out = ToldOf(icons, r, M)
  <1>1. CASE icons
    BY <1>1, SetSelectedSets DEF SetIn
  <1>2. CASE ~icons
    <2>1. Marking(r.c, i, on) \in SUBSET Numbers(r.c)
      BY DEF Marking, Marked
    <2>2. SetIn(icons, r, i, on) = ListMark(r, Marking(r.c, i, on))
      BY <1>2 DEF SetIn, ListSetSelected, Marking
    <2> QED BY <1>2, <2>1, <2>2, ListMarkMarks
  <1> QED BY <1>1, <1>2

-----------------------------------------------------------------------------
(* Who owns the primary selection after what a view has told.              *)

Quits(w, o) == IF o = w THEN Nobody ELSE o

Heard(w, what, o, isTemp, granted) ==
  IF what = "lose" THEN Quits(w, o)
  ELSE IF o = w \/ isTemp \/ ~granted THEN o ELSE w

NoLoss(out) == \A k \in 1..Len(out) : out[k] # "lose"
EndsInLoss(out) == out # << >> /\ out[Len(out)] = "lose"

Hears(now, w, o, out, isTemp, granted) ==
  /\ now[0] = o
  /\ \A k \in 1..Len(out) : now[k] = Heard(w, out[k], now[k - 1], isTemp, granted)

\* The tidings are heard one by one.
LEMMA HeardInTurn ==
    ASSUME NEW w, NEW o, NEW out \in Seq(Tidings), NEW isTemp, NEW granted
    PROVE  \E now : /\ Hears(now, w, o, out, isTemp, granted)
                    /\ Told(w, o, out, isTemp, granted) = now[Len(out)]
  <1> DEFINE n == Len(out)
             S == {o, w, Nobody}
             G == [x \in (1..n) \X S |-> Heard(w, out[x[1]], x[2], isTemp, granted)]
             Rounds(now) == now = [k \in 0..n |->
               IF k = 0 THEN o
               ELSE LET p == now[k - 1]
                    IN  IF out[k] = "lose" THEN (IF p = w THEN Nobody ELSE p)
                        ELSE IF p = w \/ isTemp \/ ~granted THEN p ELSE w]
             now == CHOOSE now : Rounds(now)
  <1>1. n \in Nat
    BY LenProperties
  <1>2. \A k \in 1..n : \A s \in S : G[<<k, s>>] = Heard(w, out[k], s, isTemp, granted) /\ G[<<k, s>>] \in S
    BY DEF Heard, Quits
  <1>3. PICK f : IsLoop(f, n, o, G, S)
    <2>1. o \in S
      OBVIOUS
    <2>2. \A k \in 1..n : \A s \in S : G[<<k, s>>] \in S
      BY <1>2
    <2> HIDE DEF n, S, G
    <2> QED BY <1>1, <2>1, <2>2, LoopRuns
  <1>4. Rounds(f)
    <2>1. ASSUME NEW k \in 0..n, k # 0
          PROVE  f[k] = Heard(w, out[k], f[k - 1], isTemp, granted)
      <3>1. k \in 1..n /\ k - 1 \in 0..n
        BY <1>1, <2>1
      <3>2. f[k - 1] \in S /\ f[k] = G[<<k, f[k - 1]>>]
        BY <1>3, <3>1 DEF IsLoop
      <3> QED BY <1>2, <3>1, <3>2
    <2> HIDE DEF n, S, G
    <2> DEFINE h == [k \in 0..n |-> IF k = 0 THEN o ELSE Heard(w, out[k], f[k - 1], isTemp, granted)]
    <2>2. \A k \in 0..n : f[k] = IF k = 0 THEN o ELSE Heard(w, out[k], f[k - 1], isTemp, granted)
      BY <1>3, <2>1 DEF IsLoop
    <2>3. \A k \in 0..n : f[k] = h[k]
      BY <2>2
    <2>4. f = [k \in 0..n |-> f[k]]
      BY <1>3 DEF IsLoop
    <2>5. f = h
      BY <2>3, <2>4
    <2> QED BY <2>5 DEF Heard, Quits
  <1>5. Told(w, o, out, isTemp, granted) = now[n]
    BY DEF Told
  <1> HIDE DEF now
  <1>6. Rounds(now)
    BY <1>4 DEF now
  <1>7. /\ now[0] = o
        /\ \A k \in 1..n : now[k] = Heard(w, out[k], now[k - 1], isTemp, granted)
    BY <1>1, <1>6 DEF Heard, Quits
  <1> QED BY <1>5, <1>7 DEF Hears

\* After nothing was told the primary is where it was.
LEMMA ToldNothing ==
    ASSUME NEW w, NEW o, NEW isTemp, NEW granted
    PROVE  Told(w, o, << >>, isTemp, granted) = o
  <1>1. << >> \in Seq(Tidings) /\ Len(<< >>) = 0
    BY EmptySeq
  <1> DEFINE out == << >>
  <1> HIDE DEF out
  <1>2. out \in Seq(Tidings)
    BY <1>1 DEF out
  <1>3. Len(out) = 0
    BY <1>1 DEF out
  <1>4. PICK now : /\ Hears(now, w, o, out, isTemp, granted)
                   /\ Told(w, o, out, isTemp, granted) = now[Len(out)]
    BY <1>2, HeardInTurn
  <1>5. now[0] = o
    BY <1>4 DEF Hears
  <1>6. Told(w, o, out, isTemp, granted) = o
    BY <1>3, <1>4, <1>5
  <1> QED BY <1>6 DEF out

\* Whatever is told, the primary stays, comes to w or goes to nobody; it
\* does not come to w for the time being.
LEMMA ToldStays ==
    ASSUME NEW w, NEW o, NEW out \in Seq(Tidings), NEW isTemp, NEW granted
    PROVE  LET t == Told(w, o, out, isTemp, granted)
           IN  /\ t \in {o, w, Nobody}
               /\ isTemp => t \in {o, Quits(w, o)}
               /\ NoLoss(out) => t \in {o, w}
               /\ EndsInLoss(out) => t \in {Quits(w, o), Nobody}
               /\ EndsInLoss(out) /\ isTemp => t = Quits(w, o)
  <1>1. PICK now : /\ Hears(now, w, o, out, isTemp, granted)
                   /\ Told(w, o, out, isTemp, granted) = now[Len(out)]
    BY HeardInTurn
  <1>2. Len(out) \in Nat
    BY LenProperties
  <1> DEFINE n == Len(out)
             A == [k \in 0..n |-> {o, w, Nobody}]
             B == [k \in 0..n |-> {o, Quits(w, o)}]
             C == [k \in 0..n |-> {o, w}]
  <1>3. \A k \in 0..n : now[k] \in A[k]
    <2>1. now[0] \in A[0]
      BY <1>1, <1>2 DEF Hears
    <2>2. \A k \in 1..n : now[k - 1] \in A[k - 1] => now[k] \in A[k]
      BY <1>1, <1>2 DEF Hears, Heard, Quits
    <2> HIDE DEF A, n
    <2> QED BY <1>2, <2>1, <2>2, LoopInvariant DEF n
  <1>4. ASSUME isTemp
        PROVE  \A k \in 0..n : now[k] \in B[k]
    <2>1. now[0] \in B[0]
      BY <1>1, <1>2 DEF Hears
    <2>2. \A k \in 1..n : now[k - 1] \in B[k - 1] => now[k] \in B[k]
      BY <1>1, <1>2, <1>4 DEF Hears, Heard, Quits
    <2> HIDE DEF B, n
    <2> QED BY <1>2, <2>1, <2>2, LoopInvariant DEF n
  <1>5. ASSUME NoLoss(out)
        PROVE  \A k \in 0..n : now[k] \in C[k]
    <2>1. now[0] \in C[0]
      BY <1>1, <1>2 DEF Hears
    <2>2. \A k \in 1..n : now[k - 1] \in C[k - 1] => now[k] \in C[k]
      BY <1>1, <1>2, <1>5 DEF Hears, Heard, NoLoss
    <2> HIDE DEF C, n
    <2> QED BY <1>2, <2>1, <2>2, LoopInvariant DEF n
  <1>6. n \in 0..n
    BY <1>2
  <1>7. ASSUME EndsInLoss(out)
        PROVE  n \in 1..n /\ n - 1 \in 0..n /\ now[n] = Quits(w, now[n - 1])
    <2>1. n # 0
      BY <1>7, EmptySeq DEF EndsInLoss
    <2> QED BY <1>1, <1>2, <1>7, <2>1 DEF EndsInLoss, Hears, Heard
  <1>8. EndsInLoss(out) => now[n] \in {Quits(w, o), Nobody}
    BY <1>3, <1>7 DEF Quits
  <1>9. EndsInLoss(out) /\ isTemp => now[n] = Quits(w, o)
    BY <1>4, <1>7 DEF Quits
  <1> QED BY <1>1, <1>3, <1>4, <1>5, <1>6, <1>8, <1>9

\* When a selection is lost, once or to be made anew
LEMMA ToldLost ==
    ASSUME NEW w, NEW o, NEW out, NEW isTemp, NEW granted
    PROVE  /\ out = <<"lose">> => Told(w, o, out, isTemp, granted) = Quits(w, o)
           /\ out = <<"lose", "some">> => Told(w, o, out, isTemp, granted) \in {Quits(w, o), w}
  <1>1. CASE out = <<"lose">>
    <2>1. out \in Seq(Tidings) /\ Len(out) = 1 /\ out[1] = "lose"
      BY <1>1 DEF Tidings
    <2>0. PICK now : /\ Hears(now, w, o, out, isTemp, granted)
                     /\ Told(w, o, out, isTemp, granted) = now[Len(out)]
      <3>1. out \in Seq(Tidings)
        BY <2>1
      <3> QED BY <3>1, HeardInTurn
    <2>2. /\ now[0] = o
          /\ \A k \in 1..1 : now[k] = Heard(w, out[k], now[k - 1], isTemp, granted)
          /\ Told(w, o, out, isTemp, granted) = now[1]
      BY <2>0, <2>1 DEF Hears
    <2>3. now[1] = Quits(w, o)
      BY <2>1, <2>2 DEF Heard
    <2> QED BY <1>1, <2>2, <2>3
  <1>2. CASE out = <<"lose", "some">>
    <2>1. out \in Seq(Tidings) /\ Len(out) = 2 /\ out[1] = "lose" /\ out[2] = "some"
      BY <1>2 DEF Tidings
    <2>0. PICK now : /\ Hears(now, w, o, out, isTemp, granted)
                     /\ Told(w, o, out, isTemp, granted) = now[Len(out)]
      <3>1. out \in Seq(Tidings)
        BY <2>1
      <3> QED BY <3>1, HeardInTurn
    <2>2. /\ now[0] = o
          /\ \A k \in 1..2 : now[k] = Heard(w, out[k], now[k - 1], isTemp, granted)
          /\ Told(w, o, out, isTemp, granted) = now[2]
      BY <2>0, <2>1 DEF Hears
    <2>3. now[1] = Quits(w, o)
      BY <2>1, <2>2 DEF Heard
    <2>4. now[2] \in {now[1], w}
      BY <2>1, <2>2 DEF Heard
    <2> QED BY <1>2, <2>2, <2>3, <2>4
  <1> QED BY <1>1, <1>2

-----------------------------------------------------------------------------
(* What the user does to a view.                                           *)

\* How a view may tell that M was selected and N is now.
Fair(icons, M, out, N) ==
  /\ N # {} => NoLoss(out)
  /\ N = {} /\ M # {} => IF icons THEN out = <<"lose">> ELSE EndsInLoss(out)
  /\ N = {} /\ M = {} => out = << >>

\* s is what c comes to when N is selected in it.
Chosen(icons, c, s, N) ==
  /\ s \in Results /\ Counted(s.c) /\ Alike(c, s.c)
  /\ s.c.blocked = 0 /\ Marked(s.c) = N
  /\ Fair(icons, Marked(c), s.out, N)

\* Of what is told in addition
LEMMA ToldMore ==
    ASSUME NEW out \in Seq(Tidings)
    PROVE  /\ Append(out, "lose") \in Seq(Tidings) /\ Append(out, "some") \in Seq(Tidings)
           /\ EndsInLoss(Append(out, "lose"))
           /\ NoLoss(out) => NoLoss(Append(out, "some"))
           /\ out = << >> => NoLoss(out) /\ Append(out, "lose") = <<"lose">>
  <1>1. "lose" \in Tidings /\ "some" \in Tidings
    BY DEF Tidings
  <1>2. \A what \in Tidings :
          /\ Append(out, what) \in Seq(Tidings) /\ Append(out, what) # << >>
          /\ Len(Append(out, what)) = Len(out) + 1
          /\ \A k \in 1..Len(out) : Append(out, what)[k] = out[k]
          /\ Append(out, what)[Len(out) + 1] = what
    BY AppendProperties
  <1>3. Len(out) \in Nat
    BY LenProperties
  <1>4. EndsInLoss(Append(out, "lose"))
    BY <1>1, <1>2, <1>3 DEF EndsInLoss
  <1>5. NoLoss(out) => NoLoss(Append(out, "some"))
    BY <1>1, <1>2, <1>3 DEF NoLoss
  <1>6. out = << >> => NoLoss(out) /\ Append(out, "lose") = <<"lose">>
    BY EmptySeq DEF NoLoss
  <1> QED BY <1>1, <1>2, <1>4, <1>5, <1>6

\* Before anything is told
LEMMA NothingTold ==
    ASSUME NEW icons, NEW c, Counted(c), c.blocked = 0
    PROVE  /\ Quiet(c) \in Results /\ Quiet(c).c = c /\ Quiet(c).out = << >>
           /\ Chosen(icons, c, Quiet(c), Marked(c))
  <1>1. << >> \in Seq(Tidings) /\ NoLoss(<< >>)
    BY EmptySeq, ToldMore
  <1>2. Quiet(c) \in Results /\ Quiet(c).c = c /\ Quiet(c).out = << >>
    BY <1>1 DEF Quiet, Results, Counted
  <1> QED BY <1>1, <1>2 DEF Chosen, Fair, Alike

\* One item is set.
LEMMA SetChooses ==
    ASSUME NEW icons \in BOOLEAN, NEW c, Counted(c), c.blocked = 0,
           NEW i \in Numbers(c), NEW on \in BOOLEAN
    PROVE  Chosen(icons, c, SetIn(icons, Quiet(c), i, on), Marking(c, i, on))
  <1> DEFINE r == Quiet(c)
             s == SetIn(icons, r, i, on)
             M == Marking(c, i, on)
  <1>1. r \in Results /\ r.c = c /\ r.out = << >> /\ Chosen(icons, c, r, Marked(c))
    BY NothingTold
  <1> HIDE DEF r
  <1>2. /\ Becomes(r, s, M)
        /\ M = Marked(c) => s = r
        /\ M # Marked(c) => s.out = ToldOf(icons, r, M)
    BY <1>1, SetInSets
  <1> HIDE DEF s, M
  <1>3. ASSUME M = Marked(c) PROVE Chosen(icons, c, s, M)
    BY <1>1, <1>2, <1>3
  <1>4. ASSUME M # Marked(c) PROVE Chosen(icons, c, s, M)
    <2>1. r.out \in Seq(Tidings)
      BY <1>1, EmptySeq
    <2>2. CASE M = {}
      <3>1. s.out = <<"lose">> /\ EndsInLoss(s.out)
        BY <1>1, <1>2, <1>4, <2>1, <2>2, ToldMore DEF ToldOf
      <3> QED BY <1>1, <1>2, <1>4, <2>2, <3>1 DEF Becomes, Chosen, Fair
    <2>3. CASE M # {}
      <3>1. NoLoss(s.out)
        BY <1>1, <1>2, <1>4, <2>1, <2>3, ToldMore DEF ToldOf
      <3> QED BY <1>1, <1>2, <2>3, <3>1 DEF Becomes, Chosen, Fair
    <2> QED BY <2>2, <2>3
  <1> QED BY <1>3, <1>4 DEF r, s, M

ClearedIn(icons, r) == IF icons THEN ClearExcept(r, -1) ELSE ListClearSelection(r)

\* The selection is cleared.
LEMMA ClearedClears ==
    ASSUME NEW icons \in BOOLEAN, NEW r \in Results, Counted(r.c), r.c.blocked = 0
    PROVE  /\ Becomes(r, ClearedIn(icons, r), {})
           /\ Marked(r.c) = {} => ClearedIn(icons, r) = r
           /\ Marked(r.c) # {} => ClearedIn(icons, r).out = Append(r.out, "lose")
  <1>1. CASE ~icons
    <2>1. ClearedIn(icons, r) = ListMark(r, {})
      BY <1>1 DEF ClearedIn, ListClearSelection
    <2> QED BY <2>1, ListMarkMarks DEF ToldOf
  <1>2. CASE icons
    <2> DEFINE d == [Flags(r.c, {-1}) EXCEPT !.count = 0]
               left == [r EXCEPT !.c = d]
    <2>1. r.c \in Collections /\ r.c.count = Cardinality(Marked(r.c)) /\ 0 \in Nat
      BY DEF Counted
    <2>2. /\ d \in Collections /\ Alike(r.c, d) /\ d.count = 0 /\ d.blocked = r.c.blocked
          /\ Marked(d) = {-1} \cap Numbers(r.c)
      BY <2>1, FlagsSet
    <2>3. Marked(r.c) \in SUBSET Numbers(r.c) /\ Size(r.c) \in Nat
      BY <2>1, MarkedAreNumbers
    <2>4. Marked(d) = {}
      BY <2>2, <2>3 DEF Numbers
    <2>5. r.c.count = 0 <=> Marked(r.c) = {}
      BY <2>1, <2>3, SomeNumbers
    <2>6. ClearedIn(icons, r) = IF r.c.count = 0 THEN r ELSE TellChanged(TellLost(left))
      BY <1>2 DEF ClearedIn, ClearExcept
    <2> HIDE DEF d
    <2>7. left \in Results /\ left.c = d /\ left.out = r.out
      BY <2>2 DEF Results
    <2> HIDE DEF left
    <2>8. /\ TellLost(left) \in Results /\ TellLost(left).c = d
          /\ TellLost(left).out = Append(r.out, "lose")
      BY <2>7, TellAppends DEF TellLost, Tidings
    <2>9. TellChanged(TellLost(left)) = TellLost(left)
      BY <2>2, <2>8 DEF TellChanged
    <2>10. Counted(d) /\ Alike(r.c, r.c)
      BY <2>2, <2>4, FS_EmptySet DEF Counted, Alike
    <2> QED BY <2>1, <2>2, <2>4, <2>5, <2>6, <2>8, <2>9, <2>10 DEF Becomes
  <1> QED BY <1>1, <1>2

\* Clearing a view tells of it fairly.
LEMMA ClearingChooses ==
    ASSUME NEW icons \in BOOLEAN, NEW c, Counted(c), c.blocked = 0
    PROVE  Chosen(icons, c, ClearedIn(icons, Quiet(c)), {})
  <1> DEFINE r == Quiet(c)
             s == ClearedIn(icons, r)
  <1>1. r \in Results /\ r.c = c /\ r.out = << >> /\ Chosen(icons, c, r, Marked(c))
    BY NothingTold
  <1> HIDE DEF r
  <1>2. /\ Becomes(r, s, {})
        /\ Marked(c) = {} => s = r
        /\ Marked(c) # {} => s.out = Append(r.out, "lose")
    BY <1>1, ClearedClears
  <1> HIDE DEF s
  <1>3. r.out \in Seq(Tidings)
    BY <1>1, EmptySeq
  <1>4. Marked(c) # {} => s.out = <<"lose">> /\ EndsInLoss(s.out)
    BY <1>1, <1>2, <1>3, ToldMore
  <1>5. Chosen(icons, c, s, {})
    BY <1>1, <1>2, <1>4 DEF Becomes, Chosen, Fair
  <1> QED BY <1>5 DEF r, s

\* One item is selected in place of all others, in the icon view.
LEMMA ClearExceptChooses ==
    ASSUME NEW c, Counted(c), c.blocked = 0, NEW i \in Numbers(c)
    PROVE  Chosen(TRUE, c, ClearExcept(Quiet(c), i), {i})
  <1> DEFINE r == Quiet(c)
             s == SetSelected(r, i, TRUE, TRUE)
             left == [s EXCEPT !.c = [Flags(s.c, {i}) EXCEPT !.count = 1]]
  <1>1. i # -1
    <2>1. Size(c) \in Nat
      BY MarkedAreNumbers DEF Counted
    <2> QED BY <2>1 DEF Numbers
  <1>2. Chosen(TRUE, c, s, Marked(c) \cup {i})
    BY SetChooses DEF SetIn, Marking
  <1>3. ClearExcept(r, i) = IF s.c.count = 0 THEN s ELSE TellChanged(left)
    BY <1>1 DEF ClearExcept
  <1> HIDE DEF r, s
  <1>4. s \in Results /\ Counted(s.c) /\ Alike(c, s.c) /\ s.c.blocked = 0
        /\ Marked(s.c) = Marked(c) \cup {i} /\ NoLoss(s.out)
    BY <1>2 DEF Chosen, Fair
  <1>5. i \in Numbers(s.c)
    BY <1>4, AlikeShowsAlike
  <1>6. s.c.count # 0
    <2>1. Marked(s.c) \in SUBSET Numbers(s.c) /\ s.c \in Collections
      BY <1>4, MarkedAreNumbers DEF Counted
    <2> QED BY <1>4, <2>1, SomeNumbers DEF Counted
  <1>7. Cardinality({i}) = 1
    BY FS_Singleton
  <1>8. Becomes(s, left, {i}) /\ left.out = s.out /\ left.c.count = 1
    <2>1. {i} \in SUBSET Numbers(s.c)
      BY <1>5
    <2> QED BY <1>4, <1>7, <2>1, MarkedAnew
  <1> HIDE DEF left
  <1>9. TellChanged(left) = Tell(left, "some")
    BY <1>4, <1>8 DEF TellChanged, Becomes
  <1>10. /\ Tell(left, "some") \in Results /\ Tell(left, "some").c = left.c
         /\ Tell(left, "some").out = Append(s.out, "some")
    BY <1>8, TellAppends DEF Becomes, Tidings
  <1>11. NoLoss(Append(s.out, "some"))
    BY <1>4, ToldMore DEF Results
  <1>12. Alike(c, left.c)
    BY <1>4, <1>8, AlikeIsTransitive DEF Becomes
  <1>13. Chosen(TRUE, c, Tell(left, "some"), {i})
    BY <1>4, <1>8, <1>10, <1>11, <1>12 DEF Chosen, Becomes, Fair
  <1> QED BY <1>3, <1>6, <1>9, <1>13 DEF r

\* The list view empties its selection first, and says so.
LEMMA ListSelectOnlyChooses ==
    ASSUME NEW c, Counted(c), c.blocked = 0, NEW i \in Numbers(c)
    PROVE  LET s == ListSelectOnly(Quiet(c), i)
           IN  /\ s \in Results /\ Counted(s.c) /\ Alike(c, s.c) /\ s.c.blocked = 0
               /\ Marked(s.c) = {i}
               /\ s.out = <<"some">> \/ s.out = <<"lose", "some">>
  <1> DEFINE r == Quiet(c)
             e == ListMark(r, {})
             s == ListMark(e, {i})
  <1>1. r \in Results /\ r.c = c /\ r.out = << >>
    BY NothingTold
  <1>2. ListSelectOnly(Quiet(c), i) = s
    BY DEF ListSelectOnly
  <1> HIDE DEF r
  <1>3. /\ Becomes(r, e, {})
        /\ Marked(c) = {} => e = r
        /\ Marked(c) # {} => e.out = Append(r.out, "lose")
    <2>1. {} \in SUBSET Numbers(r.c)
      OBVIOUS
    <2> QED BY <1>1, <2>1, ListMarkMarks DEF ToldOf
  <1> HIDE DEF e
  <1>4. e.out = << >> \/ e.out = <<"lose">>
    BY <1>1, <1>3, EmptySeq, ToldMore
  <1>5. e \in Results /\ Counted(e.c) /\ Alike(c, e.c) /\ e.c.blocked = 0 /\ Marked(e.c) = {}
    BY <1>1, <1>3 DEF Becomes
  <1>6. {i} \in SUBSET Numbers(e.c)
    BY <1>5, AlikeShowsAlike
  <1>7. Becomes(e, s, {i}) /\ s.out = Append(e.out, "some")
    <2>1. {i} # {}
      OBVIOUS
    <2>2. {i} # Marked(e.c) => s.out = ToldOf(FALSE, e, {i})
      BY <1>5, <1>6, ListMarkMarks
    <2>3. Becomes(e, s, {i})
      BY <1>5, <1>6, ListMarkMarks
    <2> QED BY <1>5, <2>1, <2>2, <2>3 DEF ToldOf
  <1> HIDE DEF s
  <1>8. s.out = <<"some">> \/ s.out = <<"lose", "some">>
    <2>1. Append(<< >>, "some") = <<"some">>
      OBVIOUS
    <2> DEFINE one == <<"lose">>
               two == <<"lose", "some">>
    <2>2. one \in Seq(Tidings) /\ Len(one) = 1 /\ one[1] = "lose" /\ "some" \in Tidings
      BY DEF Tidings
    <2>3. two \in Seq(Tidings) /\ Len(two) = 2 /\ two[1] = "lose" /\ two[2] = "some"
      BY DEF Tidings
    <2> HIDE DEF one, two
    <2>4. /\ Append(one, "some") \in Seq(Tidings) /\ Len(Append(one, "some")) = 2
          /\ Append(one, "some")[1] = "lose" /\ Append(one, "some")[2] = "some"
      <3>1. /\ Append(one, "some") \in Seq(Tidings)
            /\ Len(Append(one, "some")) = Len(one) + 1
            /\ \A k \in 1..Len(one) : Append(one, "some")[k] = one[k]
            /\ Append(one, "some")[Len(one) + 1] = "some"
        <4>1. one \in Seq(Tidings) /\ "some" \in Tidings
          BY <2>2
        <4> QED BY <4>1, AppendProperties
      <3> QED BY <2>2, <3>1
    <2>5. \A k \in 1..2 : Append(one, "some")[k] = two[k]
      BY <2>3, <2>4
    <2>6. Append(one, "some") = two
      BY <2>3, <2>4, <2>5, SeqEqual
    <2> QED BY <1>4, <1>7, <2>1, <2>6 DEF one, two
  <1>9. Alike(c, s.c)
    BY <1>5, <1>7, AlikeIsTransitive DEF Becomes
  <1> QED BY <1>2, <1>5, <1>7, <1>8, <1>9 DEF Becomes

AllIn(icons, r) == IF icons THEN SelectAll(r) ELSE ListSelectAll(r)

\* Everything is selected.
LEMMA AllChooses ==
    ASSUME NEW icons \in BOOLEAN, NEW c, Counted(c), c.blocked = 0
    PROVE  Chosen(icons, c, AllIn(icons, Quiet(c)), Numbers(c))
  <1> DEFINE r == Quiet(c)
             N == Numbers(c)
             left == [r EXCEPT !.c = [Flags(r.c, N) EXCEPT !.count = Cardinality(N)]]
  <1>1. r \in Results /\ r.c = c /\ r.out = << >> /\ Chosen(icons, c, r, Marked(c))
    BY NothingTold
  <1>2. c \in Collections /\ c.count = Cardinality(Marked(c)) /\ Marked(c) \in SUBSET N
        /\ Cardinality(N) = Size(c) /\ Size(c) \in Nat /\ N \in SUBSET N
    BY MarkedAreNumbers DEF Counted
  <1>3. c.count = Size(c) <=> Marked(c) = N
    BY <1>2, SomeNumbers
  <1>4. N # {} => NoLoss(<<"some">>)
    BY DEF NoLoss
  <1>5. CASE icons
    <2>1. AllIn(icons, r) = IF c.count = Size(c) THEN r ELSE TellChanged(left)
      BY <1>1, <1>2, <1>5 DEF AllIn, SelectAll
    <2>2. Becomes(r, left, N) /\ left.out = << >> /\ left.c.count = Size(c)
      BY <1>1, <1>2, MarkedAnew
    <2> HIDE DEF left, r, N
    <2>3. ASSUME c.count # Size(c)
          PROVE  Chosen(icons, c, TellChanged(left), N)
      <3>1. Size(c) # 0 /\ N # {}
        <4>1. Marked(c) # N
          BY <1>3, <2>3
        <4>2. N # {}
          BY <1>2, <4>1
        <4>3. Cardinality(N) # 0
          BY <1>2, <4>2, SomeNumbers DEF N
        <4> QED BY <1>2, <4>2, <4>3
      <3>2. TellChanged(left) = Tell(left, "some")
        BY <1>1, <1>2, <2>2, <3>1 DEF TellChanged, Becomes
      <3>3. /\ Tell(left, "some") \in Results /\ Tell(left, "some").c = left.c
            /\ Tell(left, "some").out = <<"some">>
        BY <2>2, TellAppends DEF Becomes, Tidings
      <3> QED BY <1>1, <1>4, <2>2, <3>1, <3>2, <3>3 DEF Chosen, Becomes, Fair
    <2>4. Chosen(icons, c, AllIn(icons, r), N)
      BY <1>1, <1>3, <2>1, <2>3
    <2> QED BY <2>4 DEF r, N
  <1>6. CASE ~icons
    <2>1. AllIn(icons, r) = ListMark(r, N)
      BY <1>1, <1>6 DEF AllIn, ListSelectAll
    <2>2. /\ Becomes(r, ListMark(r, N), N)
          /\ N = Marked(c) => ListMark(r, N) = r
          /\ N # Marked(c) => ListMark(r, N).out = ToldOf(FALSE, r, N)
      BY <1>1, <1>2, ListMarkMarks
    <2>3. N # Marked(c) => N # {}
      BY <1>2
    <2> HIDE DEF r, N
    <2>4. N # Marked(c) => ListMark(r, N).out = <<"some">>
      BY <1>1, <2>2, <2>3 DEF ToldOf
    <2>5. Chosen(icons, c, ListMark(r, N), N)
      BY <1>1, <1>4, <2>2, <2>3, <2>4 DEF Chosen, Becomes, Fair
    <2> QED BY <2>1, <2>5 DEF r, N
  <1> QED BY <1>5, <1>6

\* What is marked once items 1 to k are set
UpTo(c, which, k) == (Marked(c) \ (1..k)) \cup (which \cap (1..k))

SetSoFar(icons, r, which, k) ==
  {s \in Results : /\ Becomes(r, s, UpTo(r.c, which, k))
                   /\ NoLoss(s.out)
                   /\ icons \/ Marked(s.c) = {} => s.out = << >>}

\* view_select_if() never selects nothing on its way.
LEMMA SettingOn ==
    ASSUME NEW icons \in BOOLEAN, NEW r \in Results, NEW which \in SUBSET Numbers(r.c),
           0 \in Marked(r.c) \/ Marked(r.c) = {}, icons => r.c.blocked # 0,
           NEW k \in 1..(Size(r.c) - 1), NEW s \in SetSoFar(icons, r, which, k - 1)
    PROVE  SetIn(icons, s, k, k \in which) \in SetSoFar(icons, r, which, k)
  <1> DEFINE on == k \in which
             t == SetIn(icons, s, k, on)
             M == Marking(s.c, k, on)
  <1>1. /\ Becomes(r, s, UpTo(r.c, which, k - 1)) /\ NoLoss(s.out)
        /\ icons \/ Marked(s.c) = {} => s.out = << >>
    BY DEF SetSoFar
  <1>2. s \in Results /\ Counted(s.c) /\ Marked(s.c) = UpTo(r.c, which, k - 1)
        /\ Alike(r.c, s.c) /\ s.c.blocked = r.c.blocked
    BY <1>1 DEF Becomes
  <1>3. k \in Numbers(s.c) /\ on \in BOOLEAN
    <2>1. Size(r.c) \in Nat
      BY MarkedAreNumbers DEF Results
    <2>2. k \in Numbers(r.c)
      BY <2>1 DEF Numbers
    <2> QED BY <1>2, <2>2, AlikeShowsAlike
  <1>4. M = UpTo(r.c, which, k)
    BY <1>2 DEF Marking, UpTo
  <1>5. /\ Becomes(s, t, M)
        /\ M = Marked(s.c) => t = s
        /\ M # Marked(s.c) => t.out = ToldOf(icons, s, M)
    BY <1>2, <1>3, SetInSets
  <1>6. M # Marked(s.c) => M # {}
    <2>1. 0 \in Marked(r.c) => 0 \in M
      BY <1>4 DEF UpTo
    <2>2. Marked(r.c) = {} => Marked(s.c) \subseteq M
      BY <1>2, <1>4 DEF UpTo
    <2> QED BY <2>1, <2>2
  <1> HIDE DEF t, M, on
  <1>7. Becomes(r, t, M)
    BY <1>2, <1>5, AlikeIsTransitive DEF Becomes
  <1>8. NoLoss(t.out) /\ (icons \/ Marked(t.c) = {} => t.out = << >>)
    <2>1. ASSUME M # Marked(s.c)
          PROVE  NoLoss(t.out) /\ (icons => t.out = << >>)
      <3>1. t.out = IF icons THEN s.out ELSE Append(s.out, "some")
        BY <1>2, <1>5, <1>6, <2>1 DEF ToldOf
      <3> QED BY <1>1, <1>2, <3>1, ToldMore DEF Results
    <2> QED BY <1>1, <1>5, <1>6, <2>1 DEF Becomes
  <1>9. t \in Results
    BY <1>5 DEF Becomes
  <1>10. t \in SetSoFar(icons, r, which, k)
    BY <1>4, <1>7, <1>8, <1>9 DEF SetSoFar
  <1> QED BY <1>10 DEF t, on

\* The loop of view_select_if() ends with all but the first item set.
LEMMA SetUpToSets ==
    ASSUME NEW icons \in BOOLEAN, NEW r \in Results, Counted(r.c), Size(r.c) # 0,
           NEW which \in SUBSET Numbers(r.c),
           0 \in Marked(r.c) \/ Marked(r.c) = {}, icons => r.c.blocked # 0,
           NoLoss(r.out), icons \/ Marked(r.c) = {} => r.out = << >>
    PROVE  SetUpTo(icons, r, which)[Size(r.c) - 1] \in SetSoFar(icons, r, which, Size(r.c) - 1)
  <1> DEFINE n == Size(r.c) - 1
             S == {s \in Results : Counted(s.c) /\ Numbers(s.c) = Numbers(r.c)}
             G == [x \in (1..n) \X S |-> SetIn(icons, x[2], x[1], x[1] \in which)]
             Rounds(f) == f = [k \in 0..n |->
               IF k = 0 THEN r ELSE SetIn(icons, f[k - 1], k, k \in which)]
             done == CHOOSE f : Rounds(f)
             T == [k \in 0..n |-> SetSoFar(icons, r, which, k)]
  <1>0. SetUpTo(icons, r, which) = done
    BY DEF SetUpTo
  <1>1. n \in Nat /\ Size(r.c) \in Nat /\ n = Size(r.c) - 1
    BY MarkedAreNumbers DEF Counted
  <1>2. ASSUME NEW k \in 1..n, NEW s \in S
        PROVE  G[<<k, s>>] = SetIn(icons, s, k, k \in which) /\ G[<<k, s>>] \in S
    <2>1. k \in Numbers(r.c)
      BY <1>1 DEF Numbers
    <2> DEFINE on == k \in which
               t == SetIn(icons, s, k, on)
    <2>2. s \in Results /\ Counted(s.c) /\ k \in Numbers(s.c) /\ on \in BOOLEAN
      BY <2>1
    <2>3. Becomes(s, t, Marking(s.c, k, on))
      BY <2>2, SetInSets
    <2>4. t \in S
      <3>1. t \in Results /\ Counted(t.c) /\ Numbers(t.c) = Numbers(s.c)
        BY <2>3, AlikeShowsAlike DEF Becomes
      <3> QED BY <3>1
    <2> QED BY <2>4
  <1>3. PICK f : IsLoop(f, n, r, G, S)
    <2>1. r \in S
      OBVIOUS
    <2>2. \A k \in 1..n : \A s \in S : G[<<k, s>>] \in S
      BY <1>2
    <2> HIDE DEF n, S, G
    <2> QED BY <1>1, <2>1, <2>2, LoopRuns
  <1>4. Rounds(f)
    <2>1. ASSUME NEW k \in 0..n, k # 0
          PROVE  f[k] = SetIn(icons, f[k - 1], k, k \in which)
      <3>1. k \in 1..n /\ k - 1 \in 0..n
        BY <1>1, <2>1
      <3>2. f[k - 1] \in S /\ f[k] = G[<<k, f[k - 1]>>]
        BY <1>3, <3>1 DEF IsLoop
      <3> QED BY <1>2, <3>1, <3>2
    <2> HIDE DEF n, S, G
    <2> DEFINE h == [k \in 0..n |-> IF k = 0 THEN r ELSE SetIn(icons, f[k - 1], k, k \in which)]
    <2>2. \A k \in 0..n : f[k] = IF k = 0 THEN r ELSE SetIn(icons, f[k - 1], k, k \in which)
      BY <1>3, <2>1 DEF IsLoop
    <2>3. \A k \in 0..n : f[k] = h[k]
      BY <2>2
    <2>4. f = [k \in 0..n |-> f[k]]
      BY <1>3 DEF IsLoop
    <2>5. f = h
      BY <2>3, <2>4
    <2> QED BY <2>5
  <1> HIDE DEF done
  <1>5. Rounds(done)
    BY <1>4 DEF done
  <1>6. done[0] = r /\ \A k \in 1..n : done[k] = SetIn(icons, done[k - 1], k, k \in which)
    BY <1>1, <1>5
  <1>7. done[0] \in T[0]
    <2>1. UpTo(r.c, which, 0) = Marked(r.c)
      BY DEF UpTo
    <2>2. r \in SetSoFar(icons, r, which, 0)
      BY <2>1 DEF SetSoFar, Becomes, Alike
    <2> QED BY <1>1, <1>6, <2>2
  <1>8. ASSUME NEW k \in 1..n, done[k - 1] \in T[k - 1]
        PROVE  done[k] \in T[k]
    <2>1. k \in 0..n /\ k - 1 \in 0..n /\ k \in 1..(Size(r.c) - 1)
      BY <1>1
    <2>2. done[k - 1] \in SetSoFar(icons, r, which, k - 1)
      BY <1>8, <2>1
    <2>3. SetIn(icons, done[k - 1], k, k \in which) \in SetSoFar(icons, r, which, k)
      BY <2>1, <2>2, SettingOn
    <2> QED BY <1>6, <2>1, <2>3
  <1>9. done[n] \in T[n]
    <2> HIDE DEF T, n
    <2>1. \A k \in 0..n : done[k] \in T[k]
      BY <1>1, <1>7, <1>8, LoopInvariant
    <2> QED BY <1>1, <2>1
  <1>10. n \in 0..n
    BY <1>1
  <1> QED BY <1>0, <1>9, <1>10

\* A view that is not told of holds its signals back, and is the same else.
LEMMA FreezingHolds ==
    ASSUME NEW r \in Results, Counted(r.c)
    PROVE  /\ Freeze(r) \in Results /\ Counted(Freeze(r).c) /\ Alike(r.c, Freeze(r).c)
           /\ Freeze(r).c.blocked = r.c.blocked + 1 /\ Marked(Freeze(r).c) = Marked(r.c)
           /\ Freeze(r).out = r.out /\ Freeze(r).c.count = r.c.count
  <1> DEFINE c == r.c
             d == [c EXCEPT !.blocked = @ + 1]
             s == Freeze(r)
  <1>1. c \in Collections /\ c.blocked \in Nat /\ c.count = Cardinality(Marked(c))
    BY DEF Counted, Collections
  <1>2. s = [r EXCEPT !.c = d]
    BY DEF Freeze
  <1>3. /\ d \in Collections /\ d.blocked = c.blocked + 1 /\ d.items = c.items /\ d.count = c.count
        /\ d.cursor = c.cursor /\ d.wink = c.wink
    BY <1>1 DEF Collections
  <1> HIDE DEF d, s
  <1>4. s \in Results /\ s.c = d /\ s.out = r.out
    BY <1>2, <1>3 DEF Results
  <1>5. Marked(d) = Marked(c) /\ Alike(c, d)
    BY <1>3 DEF Marked, Alike, Numbers, Size, Data, IsSelected
  <1>6. Counted(d)
    BY <1>1, <1>3, <1>5 DEF Counted
  <1>7. /\ s \in Results /\ Counted(s.c) /\ Alike(r.c, s.c)
        /\ s.c.blocked = r.c.blocked + 1 /\ Marked(s.c) = Marked(r.c)
        /\ s.out = r.out /\ s.c.count = r.c.count
    BY <1>3, <1>4, <1>5, <1>6
  <1> QED BY <1>7 DEF s

\* It tells when it is let go.
LEMMA ThawingTells ==
    ASSUME NEW r \in Results, Counted(r.c), r.c.blocked = 1
    PROVE  /\ Thaw(r) \in Results /\ Counted(Thaw(r).c) /\ Alike(r.c, Thaw(r).c)
           /\ Thaw(r).c.blocked = 0 /\ Marked(Thaw(r).c) = Marked(r.c)
           /\ Marked(r.c) = {} => Thaw(r).out = r.out
           /\ Marked(r.c) # {} => Thaw(r).out = Append(r.out, "some")
  <1> DEFINE c == r.c
             d == [c EXCEPT !.blocked = @ - 1]
             t == [r EXCEPT !.c = d]
             s == Thaw(r)
  <1>1. c \in Collections /\ c.count = Cardinality(Marked(c)) /\ Marked(c) \in SUBSET Numbers(c)
    BY MarkedAreNumbers DEF Counted
  <1>2. s = TellChanged(t)
    BY DEF Thaw
  <1>3. /\ d \in Collections /\ d.blocked = 0 /\ d.items = c.items /\ d.count = c.count
        /\ d.cursor = c.cursor /\ d.wink = c.wink
    BY <1>1 DEF Collections
  <1> HIDE DEF d, s
  <1>4. t \in Results /\ t.c = d /\ t.out = r.out
    BY <1>3 DEF Results
  <1> HIDE DEF t
  <1>5. Marked(d) = Marked(c) /\ Alike(c, d)
    BY <1>3 DEF Marked, Alike, Numbers, Size, Data, IsSelected
  <1>6. Counted(d)
    BY <1>1, <1>3, <1>5 DEF Counted
  <1>7. c.count \in Nat /\ (c.count = 0 <=> Marked(c) = {})
    BY <1>1, SomeNumbers
  <1>8. s = IF Marked(c) = {} THEN t ELSE Tell(t, "some")
    BY <1>2, <1>3, <1>4, <1>7 DEF TellChanged
  <1>9. Tell(t, "some") \in Results /\ Tell(t, "some").c = d /\ Tell(t, "some").out = Append(r.out, "some")
    BY <1>4, TellAppends DEF Tidings
  <1>10. /\ s \in Results /\ Counted(s.c) /\ Alike(r.c, s.c)
         /\ s.c.blocked = 0 /\ Marked(s.c) = Marked(r.c)
         /\ Marked(r.c) = {} => s.out = r.out
         /\ Marked(r.c) # {} => s.out = Append(r.out, "some")
    BY <1>3, <1>4, <1>5, <1>6, <1>8, <1>9
  <1> QED BY <1>10 DEF s

\* view_select_if() comes to the selection it is asked for.
LEMMA SelectIfChooses ==
    ASSUME NEW w, Icons(w) \in BOOLEAN, NEW c, Counted(c), c.blocked = 0, NEW which \in SUBSET Numbers(c)
    PROVE  Chosen(Icons(w), c, SelectIf(w, Quiet(c), which), which)
  <1> DEFINE icons == Icons(w)
             r == Quiet(c)
             n == Size(c)
             frozen == IF icons THEN Freeze(r) ELSE r
             held == IF frozen.c.count > 0 THEN SetIn(icons, frozen, 0, TRUE) ELSE frozen
             done == SetUpTo(icons, held, which)[n - 1]
             last == SetIn(icons, done, 0, 0 \in which)
  <1>1. r \in Results /\ r.c = c /\ r.out = << >> /\ Chosen(icons, c, r, Marked(c))
    BY NothingTold
  <1>2. SelectIf(w, r, which) = IF n = 0 THEN r ELSE IF icons THEN Thaw(last) ELSE last
    BY <1>1 DEF SelectIf, Set
  <1>3. c \in Collections /\ n \in Nat /\ Marked(c) \in SUBSET Numbers(c)
    BY MarkedAreNumbers DEF Counted
  <1>4. CASE n = 0
    <2>1. Numbers(c) = {}
      BY <1>4 DEF Numbers
    <2>2. which = Marked(c)
      BY <1>3, <2>1
    <2> QED BY <1>1, <1>2, <1>4, <2>2
  <1>5. CASE n # 0
    <2> HIDE DEF r
    <2>1. 0 \in Numbers(c)
      BY <1>3, <1>5 DEF Numbers
    <2>2. /\ frozen \in Results /\ Counted(frozen.c) /\ Alike(c, frozen.c) /\ Marked(frozen.c) = Marked(c)
          /\ frozen.out = << >> /\ frozen.c.blocked = IF icons THEN 1 ELSE 0
      <3>1. Alike(c, c)
        BY DEF Alike
      <3>2. CASE icons
        BY <1>1, <3>2, FreezingHolds
      <3>3. CASE ~icons
        BY <1>1, <3>1, <3>3
      <3> QED BY <3>2, <3>3
    <2>3. Numbers(frozen.c) = Numbers(c)
      BY <2>2, AlikeShowsAlike
    <2>4. frozen.c.count \in Nat /\ (frozen.c.count = 0 <=> Marked(c) = {})
      <3>1. frozen.c \in Collections /\ Marked(c) \in SUBSET Numbers(frozen.c)
        BY <1>3, <2>2, <2>3 DEF Counted
      <3> QED BY <2>2, <3>1, SomeNumbers DEF Counted
    <2> HIDE DEF frozen
    <2>5. /\ held \in Results /\ Counted(held.c) /\ Alike(c, held.c)
          /\ held.c.blocked = IF icons THEN 1 ELSE 0
          /\ Marked(held.c) = IF Marked(c) = {} THEN {} ELSE Marked(c) \cup {0}
          /\ NoLoss(held.out) /\ (icons \/ Marked(c) = {} => held.out = << >>)
      <3>1. NoLoss(<< >>) /\ << >> \in Seq(Tidings)
        BY ToldMore, EmptySeq
      <3>4. frozen.c.count > 0 <=> Marked(c) # {}
        BY <2>4
      <3>2. CASE Marked(c) = {}
        <4>1. held = frozen
          BY <3>2, <3>4, Zenon
        <4> HIDE DEF held
        <4> QED BY <2>2, <3>1, <3>2, <4>1
      <3>3. CASE Marked(c) # {}
        <4> DEFINE s == SetIn(icons, frozen, 0, TRUE)
                   M == Marking(frozen.c, 0, TRUE)
        <4>1. held = s
          BY <3>3, <3>4, Zenon
        <4>2. /\ Becomes(frozen, s, M)
              /\ M = Marked(frozen.c) => s = frozen
              /\ M # Marked(frozen.c) => s.out = ToldOf(icons, frozen, M)
          BY <2>1, <2>2, <2>3, SetInSets
        <4>3. M = Marked(c) \cup {0}
          BY <2>2 DEF Marking
        <4> HIDE DEF s, M
        <4>4. s.out = << >> \/ (~icons /\ s.out = Append(<< >>, "some"))
          BY <2>2, <4>2, <4>3 DEF ToldOf
        <4>5. NoLoss(s.out)
          BY <3>1, <4>4, ToldMore
        <4>6. Alike(c, s.c)
          BY <2>2, <4>2, AlikeIsTransitive DEF Becomes
        <4> QED BY <2>2, <3>3, <4>1, <4>2, <4>3, <4>4, <4>5, <4>6 DEF Becomes
      <3> QED BY <3>2, <3>3
    <2> HIDE DEF held
    <2>6. Numbers(held.c) = Numbers(c) /\ Size(held.c) = n
      BY <2>5, AlikeShowsAlike DEF Alike
    <2>7. done \in SetSoFar(icons, held, which, n - 1)
      <3>1. 0 \in Marked(held.c) \/ Marked(held.c) = {}
        BY <2>5
      <3>2. SetUpTo(icons, held, which)[Size(held.c) - 1] \in SetSoFar(icons, held, which, Size(held.c) - 1)
        <4>1. icons \/ Marked(held.c) = {} => held.out = << >>
          BY <2>5
        <4>2. icons => held.c.blocked # 0
          BY <2>5
        <4>3. which \in SUBSET Numbers(held.c) /\ Size(held.c) # 0 /\ icons \in BOOLEAN
          BY <1>5, <2>6
        <4> HIDE DEF icons
        <4> QED BY <2>5, <3>1, <4>1, <4>2, <4>3, SetUpToSets
      <3> QED BY <2>6, <3>2
    <2> HIDE DEF done
    <2>8. /\ done \in Results /\ Becomes(held, done, UpTo(held.c, which, n - 1)) /\ NoLoss(done.out)
          /\ icons \/ Marked(done.c) = {} => done.out = << >>
      BY <2>7 DEF SetSoFar
    <2>9. /\ Counted(done.c) /\ Alike(c, done.c) /\ done.c.blocked = IF icons THEN 1 ELSE 0
          /\ Marked(done.c) = UpTo(held.c, which, n - 1)
      BY <2>5, <2>8, AlikeIsTransitive DEF Becomes
    <2>10. Numbers(done.c) = Numbers(c)
      BY <2>9, AlikeShowsAlike
    <2> DEFINE on == 0 \in which
               M == Marking(done.c, 0, on)
    <2>11. /\ Becomes(done, last, M)
           /\ M = Marked(done.c) => last = done
           /\ M # Marked(done.c) => last.out = ToldOf(icons, done, M)
      <3>1. on \in BOOLEAN /\ 0 \in Numbers(done.c)
        BY <2>1, <2>10
      <3> QED BY <2>8, <2>9, <3>1, SetInSets, ZenonT(40)
    <2>12. M = which
      <3>1. \A i \in Numbers(c) : i = 0 \/ i \in 1..(n - 1)
        BY <1>3 DEF Numbers
      <3>2. Marked(held.c) \subseteq Numbers(c)
        BY <1>3, <2>1, <2>5
      <3> QED BY <2>9, <3>1, <3>2 DEF Marking, UpTo
    <2> HIDE DEF last, M, on
    <2>13. last \in Results /\ Counted(last.c) /\ Alike(c, last.c) /\ Marked(last.c) = which
           /\ last.c.blocked = IF icons THEN 1 ELSE 0
      BY <2>9, <2>11, <2>12, AlikeIsTransitive DEF Becomes
    <2>14. Marked(c) = {} /\ which = {} => Marked(done.c) = {}
      BY <2>5, <2>9 DEF UpTo
    <2>15. Marked(c) # {} => 0 \in Marked(done.c)
      BY <2>5, <2>9 DEF UpTo
    <2>16. done.out \in Seq(Tidings)
      BY <2>8 DEF Results
    <2>17. CASE which = {} /\ Marked(c) = {}
      <3>1. last.out = << >>
        BY <2>8, <2>11, <2>12, <2>14, <2>17
      <3>2. CASE icons
        BY <1>2, <1>5, <2>13, <2>17, <3>1, <3>2, ThawingTells, AlikeIsTransitive DEF Chosen, Fair, r
      <3>3. CASE ~icons
        BY <1>2, <1>5, <2>13, <2>17, <3>1, <3>3 DEF Chosen, Fair, r
      <3> QED BY <3>2, <3>3
    <2>18. CASE which = {} /\ Marked(c) # {}
      <3>1. last.out = Append(done.out, "lose")
        BY <2>11, <2>12, <2>15, <2>18 DEF ToldOf
      <3>2. EndsInLoss(last.out) /\ (icons => last.out = <<"lose">>)
        BY <2>8, <2>16, <3>1, ToldMore
      <3>3. CASE icons
        BY <1>2, <1>5, <2>13, <2>18, <3>2, <3>3, ThawingTells, AlikeIsTransitive DEF Chosen, Fair, r
      <3>4. CASE ~icons
        BY <1>2, <1>5, <2>13, <2>18, <3>2, <3>4 DEF Chosen, Fair, r
      <3> QED BY <3>3, <3>4
    <2>19. CASE which # {}
      <3>1. NoLoss(last.out)
        <4>1. last.out = done.out \/ last.out = Append(done.out, "some")
          BY <2>9, <2>11, <2>12, <2>19 DEF ToldOf
        <4> QED BY <2>8, <2>16, <4>1, ToldMore
      <3>2. CASE icons
        <4>1. NoLoss(Append(last.out, "some"))
          BY <2>13, <3>1, ToldMore DEF Results
        <4> QED BY <1>2, <1>5, <2>13, <2>19, <3>2, <4>1, ThawingTells, AlikeIsTransitive DEF Chosen, Fair, r
      <3>3. CASE ~icons
        BY <1>2, <1>5, <2>13, <2>19, <3>1, <3>3 DEF Chosen, Fair, r
      <3> QED BY <3>2, <3>3
    <2> QED BY <2>17, <2>18, <2>19
  <1> QED BY <1>4, <1>5

\* A lasso in the icon view
LEMMA ProcessAreaChooses ==
    ASSUME NEW c, Counted(c), c.blocked = 0, NEW in \in SUBSET Numbers(c), NEW invert
    PROVE  \E N \in SUBSET Numbers(c) : Chosen(TRUE, c, ProcessArea(Quiet(c), in, invert), N)
  <1> DEFINE r == Quiet(c)
             N == IF invert THEN (Marked(c) \ in) \cup (in \ Marked(c)) ELSE Marked(c) \cup in
             done == [r EXCEPT !.c = [Flags(r.c, N) EXCEPT !.count = Cardinality(N)]]
             told == IF N = {} /\ c.count > 0 THEN TellLost(done) ELSE done
             s == IF in = {} THEN told ELSE TellChanged(told)
  <1>1. r \in Results /\ r.c = c /\ r.out = << >>
    BY NothingTold
  <1>2. c \in Collections /\ c.count = Cardinality(Marked(c)) /\ Marked(c) \in SUBSET Numbers(c)
    BY MarkedAreNumbers DEF Counted
  <1>3. N \in SUBSET Numbers(c) /\ (in = {} => N = Marked(c))
    BY <1>2
  <1>4. ProcessArea(Quiet(c), in, invert) = s
    BY <1>1 DEF ProcessArea
  <1> HIDE DEF r, N
  <1>5. Becomes(r, done, N) /\ done.out = << >> /\ done.c.count = Cardinality(N)
    BY <1>1, <1>3, MarkedAnew
  <1> HIDE DEF done
  <1>6. /\ Cardinality(N) \in Nat /\ (Cardinality(N) = 0 <=> N = {})
        /\ c.count \in Nat /\ (c.count = 0 <=> Marked(c) = {})
    BY <1>2, <1>3, SomeNumbers
  <1>7. done \in Results /\ Counted(done.c) /\ Alike(c, done.c) /\ done.c.blocked = 0 /\ Marked(done.c) = N
    BY <1>1, <1>5 DEF Becomes
  <1>8. \A what \in Tidings : /\ Tell(done, what) \in Results /\ Tell(done, what).c = done.c
                              /\ Tell(done, what).out = Append(<< >>, what)
    BY <1>5, <1>7, TellAppends
  <1>9. CASE N # {}
    <2>1. s = done \/ s = Tell(done, "some")
      BY <1>9 DEF TellChanged
    <2>2. NoLoss(<< >>) /\ NoLoss(Append(<< >>, "some"))
      BY EmptySeq, ToldMore
    <2>3. Chosen(TRUE, c, s, N)
      BY <1>5, <1>7, <1>8, <1>9, <2>1, <2>2 DEF Chosen, Fair, Tidings
    <2> QED BY <1>3, <1>4, <2>3
  <1>10. CASE N = {} /\ Marked(c) = {}
    <2>1. s = done
      BY <1>5, <1>6, <1>10 DEF TellChanged
    <2>2. Chosen(TRUE, c, s, N)
      BY <1>5, <1>7, <1>10, <2>1 DEF Chosen, Fair
    <2> QED BY <1>3, <1>4, <2>2
  <1>11. CASE N = {} /\ Marked(c) # {}
    <2>1. told = Tell(done, "lose")
      BY <1>6, <1>11 DEF TellLost
    <2>2. TellChanged(told) = told
      BY <1>5, <1>6, <1>8, <1>11, <2>1 DEF TellChanged, Tidings
    <2>3. Append(<< >>, "lose") = <<"lose">>
      BY EmptySeq, ToldMore
    <2>4. Chosen(TRUE, c, s, N)
      BY <1>7, <1>8, <1>11, <2>1, <2>2, <2>3 DEF Chosen, Fair, Tidings
    <2> QED BY <1>3, <1>4, <2>4
  <1> QED BY <1>9, <1>10, <1>11
-----------------------------------------------------------------------------
(* What a view is between operations.                                      *)

\* A view in order: its count is right, it points at items it has, if at
\* any, and holds nothing back.  The list view points at none.
Fit(icons, c) ==
  /\ Counted(c) /\ c.blocked = 0
  /\ c.cursor \in Numbers(c) \cup {-1} \/ (c.items = << >> /\ c.cursor = 0)
  /\ c.wink \in Numbers(c) \cup {-1}
  /\ icons \/ (c.cursor = -1 /\ c.wink = -1)

\* s is what an operation has made of a view c that goes on showing the same.
Picked(icons, c, s) ==
  /\ s \in Results /\ Fit(icons, s.c) /\ Shown(s.c) = Shown(c)
  /\ Fair(icons, SelectedIn(c), s.out, SelectedIn(s.c))

\* No file is selected when no item is marked.
LEMMA NoneSelected ==
    ASSUME NEW c
    PROVE  SelectedIn(c) = {} <=> Marked(c) = {}
  BY DEF SelectedIn

\* An empty view is in order.
LEMMA NewFits ==
    ASSUME NEW icons
    PROVE  /\ NewCollection \in Collections /\ Fit(icons, NewCollection)
           /\ Marked(NewCollection) = {} /\ Shown(NewCollection) = {}
           /\ SelectedIn(NewCollection) = {}
  <1>1. << >> \in Seq(Item) /\ Len(<< >>) = 0
    BY EmptySeq
  <1>2. NewCollection \in Collections
    BY <1>1 DEF NewCollection, Collections
  <1>3. Numbers(NewCollection) = {} /\ NewCollection.count = 0 /\ NewCollection.blocked = 0
        /\ NewCollection.cursor = -1 /\ NewCollection.wink = -1
    BY <1>1 DEF NewCollection, Numbers, Size
  <1>4. Marked(NewCollection) = {} /\ Shown(NewCollection) = {}
    BY <1>3 DEF Marked, Shown
  <1> QED BY <1>2, <1>3, <1>4, FS_EmptySet, NoneSelected DEF Fit, Counted

\* What differs in the flags only is as fit.
LEMMA AlikeFits ==
    ASSUME NEW icons, NEW c, Fit(icons, c), NEW d, Counted(d), Alike(c, d), d.blocked = 0
    PROVE  /\ Fit(icons, d) /\ Shown(d) = Shown(c) /\ Numbers(d) = Numbers(c)
           /\ Size(d) = Size(c) /\ d.cursor = c.cursor /\ d.wink = c.wink
  <1>1. Numbers(d) = Numbers(c) /\ Shown(d) = Shown(c)
    BY AlikeShowsAlike
  <1>2. Size(d) = Size(c) /\ d.cursor = c.cursor /\ d.wink = c.wink
    BY DEF Alike
  <1>3. c.items = << >> => d.items = << >>
    <2>1. ASSUME c.items = << >> PROVE d.items = << >>
      <3>1. Len(d.items) = 0
        BY <1>2, <2>1, EmptySeq DEF Size
      <3>2. d.items \in Seq(Item)
        BY DEF Counted, Collections
      <3> QED BY <3>1, <3>2, EmptySeq
    <2> QED BY <2>1
  <1> QED BY <1>1, <1>2, <1>3 DEF Fit

\* A view in which something is selected is as fit as before.
LEMMA ChosenIsPicked ==
    ASSUME NEW icons, NEW c, Fit(icons, c), NEW s, NEW N, Chosen(icons, c, s, N)
    PROVE  Picked(icons, c, s) /\ s.c.cursor = c.cursor /\ s.c.wink = c.wink
           /\ Numbers(s.c) = Numbers(c) /\ Size(s.c) = Size(c)
  <1>1. s \in Results /\ Counted(s.c) /\ Alike(c, s.c) /\ s.c.blocked = 0 /\ Marked(s.c) = N
    BY DEF Chosen
  <1>2. /\ Fit(icons, s.c) /\ Shown(s.c) = Shown(c) /\ Numbers(s.c) = Numbers(c)
        /\ Size(s.c) = Size(c) /\ s.c.cursor = c.cursor /\ s.c.wink = c.wink
    BY <1>1, AlikeFits
  <1>3. Fair(icons, SelectedIn(c), s.out, SelectedIn(s.c))
    <2>1. Fair(icons, Marked(c), s.out, Marked(s.c))
      BY <1>1 DEF Chosen
    <2> QED BY <2>1, NoneSelected DEF Fair
  <1> QED BY <1>1, <1>2, <1>3 DEF Picked

\* The cursor and the wink may be put on any item there is.
LEMMA CursorPut ==
    ASSUME NEW c, Fit(TRUE, c), NEW i \in Int,
           i \in Numbers(c) \cup {-1} \/ (c.items = << >> /\ i = 0)
    PROVE  /\ Fit(TRUE, SetCursor(c, i)) /\ Shown(SetCursor(c, i)) = Shown(c)
           /\ SelectedIn(SetCursor(c, i)) = SelectedIn(c)
           /\ Marked(SetCursor(c, i)) = Marked(c)
  <1> DEFINE old == IF i = -1 /\ c.cursor # -1 THEN c.cursor ELSE c.old
             d == [c EXCEPT !.cursor = i, !.old = old]
  <1>1. SetCursor(c, i) = d
    BY DEF SetCursor, Fit, Counted, Collections
  <1>2. old \in Int
    BY DEF Fit, Counted, Collections
  <1> HIDE DEF old
  <1>3. d \in Collections /\ d.items = c.items /\ d.count = c.count /\ d.blocked = c.blocked
        /\ d.cursor = i /\ d.wink = c.wink
    BY <1>2 DEF Fit, Counted, Collections
  <1> HIDE DEF d
  <1>4. Numbers(d) = Numbers(c) /\ Marked(d) = Marked(c) /\ Shown(d) = Shown(c) /\ SelectedIn(d) = SelectedIn(c)
    BY <1>3 DEF Numbers, Size, Marked, Shown, SelectedIn, Data, IsSelected
  <1>5. Fit(TRUE, d)
    BY <1>3, <1>4 DEF Fit, Counted
  <1> QED BY <1>1, <1>4, <1>5

\* Likewise the wink.
LEMMA WinkPut ==
    ASSUME NEW c, Fit(TRUE, c), NEW i \in Numbers(c) \cup {-1}
    PROVE  /\ Fit(TRUE, Wink(c, i)) /\ Shown(Wink(c, i)) = Shown(c)
           /\ SelectedIn(Wink(c, i)) = SelectedIn(c)
  <1> DEFINE old == IF i = -1 THEN c.old ELSE i
             d == [c EXCEPT !.wink = i, !.old = old]
  <1>1. Wink(c, i) = d
    BY DEF Wink, Fit, Counted, Collections
  <1>2. i \in Int /\ old \in Int
    BY DEF Fit, Counted, Collections, Numbers
  <1> HIDE DEF old
  <1>3. d \in Collections /\ d.items = c.items /\ d.count = c.count /\ d.blocked = c.blocked
        /\ d.cursor = c.cursor /\ d.wink = i
    BY <1>2 DEF Fit, Counted, Collections
  <1> HIDE DEF d
  <1>4. Numbers(d) = Numbers(c) /\ Marked(d) = Marked(c) /\ Shown(d) = Shown(c) /\ SelectedIn(d) = SelectedIn(c)
    BY <1>3 DEF Numbers, Size, Marked, Shown, SelectedIn, Data, IsSelected
  <1>5. Fit(TRUE, d)
    BY <1>3, <1>4 DEF Fit, Counted
  <1> QED BY <1>1, <1>4, <1>5

\* Likewise after something was selected.
LEMMA CursorPutThen ==
    ASSUME NEW c, NEW s, Picked(TRUE, c, s), NEW i \in Int,
           i \in Numbers(s.c) \cup {-1} \/ (s.c.items = << >> /\ i = 0)
    PROVE  Picked(TRUE, c, [s EXCEPT !.c = SetCursor(@, i)])
  <1> DEFINE t == [s EXCEPT !.c = SetCursor(@, i)]
  <1>1. s \in Results /\ Fit(TRUE, s.c)
    BY DEF Picked
  <1>2. /\ Fit(TRUE, SetCursor(s.c, i)) /\ Shown(SetCursor(s.c, i)) = Shown(s.c)
        /\ SelectedIn(SetCursor(s.c, i)) = SelectedIn(s.c)
    BY <1>1, CursorPut
  <1>3. t \in Results /\ t.c = SetCursor(s.c, i) /\ t.out = s.out
    BY <1>1, <1>2 DEF Results, Fit, Counted
  <1> HIDE DEF t
  <1>4. Picked(TRUE, c, t)
    BY <1>2, <1>3 DEF Picked
  <1> QED BY <1>4 DEF t
-----------------------------------------------------------------------------
(* Items put elsewhere.                                                    *)

\* d has the items of c at the m places p gives, with their flags.
Picks(c, d, p, m) ==
  /\ p \in [1..m -> 1..Size(c)]
  /\ d.items \in Seq(Item) /\ Size(d) = m
  /\ \A k \in 1..m : d.items[k] = c.items[p[k]]

\* The items put elsewhere are items.
LEMMA ArrangedPicks ==
    ASSUME NEW c \in Collections, NEW m \in Nat, NEW p \in [1..m -> 1..Size(c)],
           NEW d, d.items = Arranged(c.items, p)
    PROVE  Picks(c, d, p, m)
  <1> DEFINE its == [k \in 1..m |-> c.items[p[k]]]
  <1>1. Arranged(c.items, p) = its
    <2>1. DOMAIN p = 1..m
      OBVIOUS
    <2> QED BY <2>1 DEF Arranged
  <1>2. \A k \in 1..Size(c) : c.items[k] \in Item
    BY ElementOfSeq DEF Collections, Size
  <1>3. \A k \in 1..m : its[k] \in Item
    BY <1>2
  <1>4. its \in Seq(Item) /\ Len(its) = m
    BY <1>3, ListIsASeq
  <1> QED BY <1>1, <1>4 DEF Picks, Size

\* What they show and their flags come with them.
LEMMA PickedItems ==
    ASSUME NEW c \in Collections, NEW d, NEW m \in Nat, NEW p, Picks(c, d, p, m)
    PROVE  /\ Numbers(d) = 0..(m - 1)
           /\ \A i \in Numbers(d) : /\ i + 1 \in 1..m /\ p[i + 1] - 1 \in Numbers(c)
                                    /\ Data(d, i) = Data(c, p[i + 1] - 1)
                                    /\ IsSelected(d, i) = IsSelected(c, p[i + 1] - 1)
  <1>1. Numbers(d) = 0..(m - 1)
    BY DEF Picks, Numbers
  <1>2. Size(c) \in Nat
    BY MarkedAreNumbers
  <1>3. ASSUME NEW i \in Numbers(d)
        PROVE  /\ i + 1 \in 1..m /\ p[i + 1] - 1 \in Numbers(c)
               /\ Data(d, i) = Data(c, p[i + 1] - 1)
               /\ IsSelected(d, i) = IsSelected(c, p[i + 1] - 1)
    <2>1. i + 1 \in 1..m
      BY <1>1, <1>3
    <2>2. p[i + 1] \in 1..Size(c) /\ d.items[i + 1] = c.items[p[i + 1]]
      BY <2>1 DEF Picks
    <2>3. p[i + 1] - 1 \in Numbers(c) /\ (p[i + 1] - 1) + 1 = p[i + 1]
      BY <1>2, <2>2 DEF Numbers
    <2> QED BY <2>1, <2>2, <2>3 DEF Data, IsSelected
  <1> QED BY <1>1, <1>3

\* A new order shows and selects the same.
LEMMA Reordered ==
    ASSUME NEW c \in Collections, NEW d, NEW p \in Bijection(1..Size(c), 1..Size(c)),
           Picks(c, d, p, Size(c))
    PROVE  /\ Numbers(d) = Numbers(c) /\ Shown(d) = Shown(c) /\ SelectedIn(d) = SelectedIn(c)
           /\ Cardinality(Marked(d)) = Cardinality(Marked(c))
  <1> DEFINE n == Size(c)
  <1>1. n \in Nat /\ Numbers(c) = 0..(n - 1)
    BY MarkedAreNumbers DEF Numbers
  <1>2. /\ Numbers(d) = Numbers(c)
        /\ \A i \in Numbers(d) : /\ i + 1 \in 1..n /\ p[i + 1] - 1 \in Numbers(c)
                                 /\ Data(d, i) = Data(c, p[i + 1] - 1)
                                 /\ IsSelected(d, i) = IsSelected(c, p[i + 1] - 1)
    BY <1>1, PickedItems
  <1>3. /\ p \in [1..n -> 1..n]
        /\ \A j, k \in 1..n : p[j] = p[k] => j = k
        /\ \A j \in 1..n : \E k \in 1..n : p[k] = j
    BY DEF Bijection, Injection, Surjection, IsInjective
  <1>4. ASSUME NEW j \in Numbers(c)
        PROVE  \E i \in Numbers(d) : p[i + 1] - 1 = j
    <2>1. j + 1 \in 1..n
      BY <1>1
    <2>2. PICK k \in 1..n : p[k] = j + 1
      BY <1>3, <2>1
    <2>3. k - 1 \in Numbers(d) /\ (k - 1) + 1 = k /\ p[k] - 1 = j
      BY <1>1, <1>2, <2>2
    <2> QED BY <2>3
  <1> HIDE DEF n
  <1>5. Shown(d) = Shown(c)
    <2>1. Shown(d) \subseteq Shown(c)
      BY <1>2 DEF Shown
    <2>2. Shown(c) \subseteq Shown(d)
      BY <1>2, <1>4 DEF Shown
    <2> QED BY <2>1, <2>2
  <1>6. SelectedIn(d) = SelectedIn(c)
    <2>1. SelectedIn(d) \subseteq SelectedIn(c)
      BY <1>2 DEF SelectedIn, Marked
    <2>2. SelectedIn(c) \subseteq SelectedIn(d)
      BY <1>2, <1>4 DEF SelectedIn, Marked
    <2> QED BY <2>1, <2>2
  <1>7. Cardinality(Marked(d)) = Cardinality(Marked(c))
    <2> DEFINE F == [i \in Marked(d) |-> p[i + 1] - 1]
    <2>1. \A i \in Marked(d) : F[i] \in Marked(c)
      BY <1>2 DEF Marked
    <2>2. \A i, j \in Marked(d) : F[i] = F[j] => i = j
      <3>1. \A i \in Marked(d) : i \in Int /\ i + 1 \in 1..n /\ p[i + 1] \in Int
        BY <1>1, <1>2, <1>3 DEF Marked
      <3> QED BY <1>3, <3>1
    <2>3. \A j \in Marked(c) : \E i \in Marked(d) : F[i] = j
      BY <1>2, <1>4 DEF Marked
    <2>4. F \in Bijection(Marked(d), Marked(c))
      <3>1. F \in [Marked(d) -> Marked(c)] /\ DOMAIN F = Marked(d)
        BY <2>1
      <3> HIDE DEF F
      <3>2. F \in Injection(Marked(d), Marked(c))
        BY <2>2, <3>1 DEF Injection, IsInjective
      <3>3. F \in Surjection(Marked(d), Marked(c))
        BY <2>3, <3>1 DEF Surjection
      <3> QED BY <3>2, <3>3 DEF Bijection
    <2>5. IsFiniteSet(Marked(d))
      <3>1. IsFiniteSet(Numbers(c)) /\ Marked(d) \in SUBSET Numbers(c)
        BY <1>2, MarkedAreNumbers DEF Marked
      <3> QED BY <3>1, FS_Subset
    <2>6. ExistsBijection(Marked(d), Marked(c))
      BY <2>4 DEF ExistsBijection
    <2> QED BY <2>5, <2>6, FS_Bijection
  <1> QED BY <1>2, <1>5, <1>6, <1>7

\* collection_qsort() finds an item again where its data has gone.
LEMMA Placed ==
    ASSUME NEW c \in Collections, NEW p \in Bijection(1..Size(c), 1..Size(c)), NEW i
    PROVE  /\ i \in Numbers(c) => /\ Place(c, p, i) \in Numbers(c)
                                  /\ p[Place(c, p, i) + 1] = i + 1
           /\ i \notin Numbers(c) => Place(c, p, i) = i
  <1>1. ASSUME i \in Numbers(c)
        PROVE  Place(c, p, i) \in Numbers(c) /\ p[Place(c, p, i) + 1] = i + 1
    <2> DEFINE n == Size(c)
               Is(k) == p[k] = i + 1
               k == CHOOSE k \in 1..n : Is(k)
    <2>1. n \in Nat /\ i + 1 \in 1..n
      BY <1>1, MarkedAreNumbers DEF Numbers
    <2>2. \E j \in 1..n : Is(j)
      BY <2>1 DEF Bijection, Surjection
    <2>3. k \in 1..n /\ Is(k)
      BY <2>2
    <2>4. Place(c, p, i) = k - 1
      BY <1>1 DEF Place
    <2> HIDE DEF k
    <2>5. k - 1 \in Numbers(c) /\ (k - 1) + 1 = k
      BY <2>1, <2>3 DEF Numbers
    <2> QED BY <2>3, <2>4, <2>5
  <1>2. i \notin Numbers(c) => Place(c, p, i) = i
    BY DEF Place
  <1> QED BY <1>1, <1>2

SortedIn(icons, c, p) == IF icons THEN Sorted(c, p) ELSE ListSorted(c, p)

\* What the cursor and the wink are on in c they are on in d.
Follows(c, d) ==
  /\ c.cursor \in Numbers(c) => d.cursor \in Numbers(d) /\ Data(d, d.cursor) = Data(c, c.cursor)
  /\ c.wink \in Numbers(c) => d.wink \in Numbers(d) /\ Data(d, d.wink) = Data(c, c.wink)

\* Sorting leaves a view in order, and its cursor on its file.
LEMMA SortedFits ==
    ASSUME NEW icons \in BOOLEAN, NEW c, Fit(icons, c), NEW p \in Orders(c.items)
    PROVE  LET d == SortedIn(icons, c, p)
           IN  /\ Fit(icons, d) /\ Shown(d) = Shown(c) /\ SelectedIn(d) = SelectedIn(c)
               /\ Follows(c, d)
  <1> DEFINE n == Size(c)
             d == SortedIn(icons, c, p)
             its == Arranged(c.items, p)
             cursor == Place(c, p, c.cursor)
             wink == Place(c, p, c.wink)
             old == IF wink # -1 THEN wink ELSE c.old
  <1>1. /\ c \in Collections /\ c.count = Cardinality(Marked(c)) /\ n \in Nat
        /\ c.items \in Seq(Item) /\ c.cursor \in Int /\ c.wink \in Int /\ c.old \in Int
        /\ c.blocked = 0 /\ c.count \in Nat
    BY MarkedAreNumbers DEF Fit, Counted, Collections
  <1>2. p \in Bijection(1..n, 1..n)
    <2>1. DOMAIN c.items = 1..n
      BY <1>1, LenProperties DEF Size
    <2> QED BY <2>1 DEF Orders
  <1>3. p \in [1..n -> 1..n]
    BY <1>2 DEF Bijection, Injection
  <1>4. CASE d = c
    BY <1>4 DEF Follows
  <1>5. CASE d # c
    <2>1. d = IF icons THEN [c EXCEPT !.items = its, !.cursor = cursor, !.wink = wink, !.old = old]
              ELSE [c EXCEPT !.items = its]
      BY <1>1, <1>5 DEF SortedIn, Sorted, ListSorted, Collections
    <2>2. /\ c.cursor \in Numbers(c) => cursor \in Numbers(c) /\ p[cursor + 1] = c.cursor + 1
          /\ c.cursor \notin Numbers(c) => cursor = c.cursor
          /\ c.wink \in Numbers(c) => wink \in Numbers(c) /\ p[wink + 1] = c.wink + 1
          /\ c.wink \notin Numbers(c) => wink = c.wink
      BY <1>1, <1>2, Placed
    <2> HIDE DEF cursor, wink
    <2>3. cursor \in Int /\ wink \in Int /\ old \in Int
      BY <1>1, <2>2 DEF Numbers
    <2>4. \A e : e.items = its => Picks(c, e, p, n)
      BY <1>1, <1>3, ArrangedPicks
    <2>5. its \in Seq(Item) /\ Len(its) = n
      <3> DEFINE e == [items |-> its]
      <3>1. e.items = its
        OBVIOUS
      <3> HIDE DEF e, its
      <3>2. Picks(c, e, p, n)
        BY <2>4, <3>1
      <3> QED BY <3>1, <3>2 DEF Picks, Size
    <2> HIDE DEF its, old, d
    <2>6. /\ d \in Collections /\ d.items = its /\ d.count = c.count /\ d.blocked = 0
          /\ icons => d.cursor = cursor /\ d.wink = wink
          /\ ~icons => d.cursor = c.cursor /\ d.wink = c.wink
      BY <1>1, <2>1, <2>3, <2>5 DEF Collections
    <2>7. Picks(c, d, p, n)
      BY <2>4, <2>6
    <2>8. /\ Numbers(d) = Numbers(c) /\ Shown(d) = Shown(c) /\ SelectedIn(d) = SelectedIn(c)
          /\ Cardinality(Marked(d)) = Cardinality(Marked(c))
      BY <1>1, <1>2, <2>7, Reordered
    <2>9. \A i \in Numbers(d) : Data(d, i) = Data(c, p[i + 1] - 1)
      BY <1>1, <2>7, PickedItems
    <2>10. \A i \in Numbers(c) : i \in Int /\ (i + 1) - 1 = i
      BY <1>1 DEF Numbers
    <2>11. c.items = << >> => d.items = << >>
      <3>1. ASSUME c.items = << >> PROVE d.items = << >>
        <4>1. Len(its) = 0
          BY <2>5, <3>1, EmptySeq DEF Size
        <4> QED BY <2>5, <2>6, <4>1, EmptySeq
      <3> QED BY <3>1
    <2>12. ~icons => c.cursor = -1 /\ c.wink = -1 /\ -1 \notin Numbers(c)
      BY <1>1 DEF Fit, Numbers
    <2>13. Follows(c, d)
      <3>1. CASE icons
        BY <2>2, <2>6, <2>8, <2>9, <2>10, <3>1 DEF Follows
      <3>2. CASE ~icons
        BY <2>12, <3>2 DEF Follows
      <3> QED BY <3>1, <3>2
    <2>14. Fit(icons, d)
      <3>1. Counted(d)
        BY <1>1, <2>6, <2>8 DEF Counted
      <3>2. CASE icons
        BY <2>2, <2>6, <2>8, <2>11, <3>1, <3>2 DEF Fit
      <3>3. CASE ~icons
        BY <2>6, <2>12, <3>1, <3>3 DEF Fit
      <3> QED BY <3>2, <3>3
    <2> QED BY <2>8, <2>13, <2>14 DEF d
  <1> QED BY <1>4, <1>5

\* A set is put in a row.
LEMMA SetInARow ==
    ASSUME NEW S, IsFiniteSet(S)
    PROVE  /\ SetToSeq(S) \in Seq(S) /\ Len(SetToSeq(S)) = Cardinality(S)
           /\ Cardinality(S) \in Nat
           /\ \A x \in S : \E k \in 1..Cardinality(S) : SetToSeq(S)[k] = x
  <1> DEFINE n == Cardinality(S)
             f == CHOOSE f \in [1..n -> S] : IsInjective(f)
  <1>1. n \in Nat /\ ExistsBijection(1..n, S)
    BY FS_CardinalityType
  <1>2. \E g \in [1..n -> S] : IsInjective(g)
    BY <1>1 DEF ExistsBijection, Bijection, Injection
  <1>3. f \in [1..n -> S] /\ IsInjective(f)
    BY <1>2
  <1>4. SetToSeq(S) = f
    BY DEF SetToSeq
  <1> HIDE DEF f
  <1>5. f \in Seq(S) /\ Len(f) = n
    BY <1>1, <1>3, ListIsASeq
  <1>6. f \in Surjection(1..n, S)
    <2>1. Cardinality(1..n) = n
      BY <1>1, FS_Interval
    <2>2. f \in Injection(1..n, S)
      BY <1>3 DEF Injection
    <2> QED BY <2>1, <2>2, FS_Injection
  <1> QED BY <1>1, <1>4, <1>5, <1>6 DEF Surjection

\* New items come last and unselected.
LEMMA ItemsAdded ==
    ASSUME NEW icons, NEW c, Fit(icons, c), NEW new \in SUBSET Files, IsFiniteSet(new)
    PROVE  LET d == WithItems(c, SetToSeq(new))
           IN  /\ Fit(icons, d) /\ Shown(d) = Shown(c) \cup new
               /\ SelectedIn(d) = SelectedIn(c) /\ Marked(d) = Marked(c)
               /\ Numbers(c) \subseteq Numbers(d)
               /\ \A i \in Numbers(c) : Data(d, i) = Data(c, i)
               /\ d.cursor = c.cursor /\ d.wink = c.wink
  <1> DEFINE files == SetToSeq(new)
             m == Cardinality(new)
             n == Size(c)
             its == [k \in DOMAIN files |-> NewItem(files[k])]
             all == c.items \o its
             d == WithItems(c, files)
  <1>1. /\ c \in Collections /\ c.count = Cardinality(Marked(c)) /\ n \in Nat
        /\ c.items \in Seq(Item) /\ c.cursor \in Int /\ c.wink \in Int /\ c.old \in Int
        /\ c.blocked = 0 /\ c.count \in Nat /\ Numbers(c) = 0..(n - 1)
    BY MarkedAreNumbers DEF Fit, Counted, Collections, Numbers
  <1>2. /\ files \in Seq(new) /\ Len(files) = m /\ m \in Nat
        /\ \A x \in new : \E k \in 1..m : files[k] = x
    BY SetInARow
  <1>3. d = [c EXCEPT !.items = all]
    BY <1>1 DEF WithItems, Collections
  <1> HIDE DEF files, m
  <1>4. /\ its \in Seq(Item) /\ Len(its) = m
        /\ \A k \in 1..m : its[k] = NewItem(files[k]) /\ files[k] \in new
    <2>1. DOMAIN files = 1..m /\ \A k \in 1..m : files[k] \in new
      BY <1>2, LenProperties, ElementOfSeq
    <2>2. \A k \in 1..m : NewItem(files[k]) \in Item
      BY <2>1 DEF NewItem, Item
    <2>3. its \in [1..m -> Item]
      BY <2>1, <2>2
    <2>4. \A k \in 1..m : its[k] = NewItem(files[k])
      BY <2>1
    <2> HIDE DEF its
    <2> QED BY <1>2, <2>1, <2>3, <2>4, ListIsASeq
  <1> HIDE DEF its, d
  <1>5. /\ all \in Seq(Item) /\ Len(all) = n + m
        /\ \A k \in 1..(n + m) : all[k] = IF k <= n THEN c.items[k] ELSE its[k - n]
    <2>1. c.items \in Seq(Item) /\ Len(c.items) = n
      BY <1>1 DEF Size
    <2>2. /\ all \in Seq(Item) /\ Len(all) = Len(c.items) + Len(its)
          /\ \A k \in 1..(Len(c.items) + Len(its)) :
               all[k] = IF k <= Len(c.items) THEN c.items[k] ELSE its[k - Len(c.items)]
      BY <1>4, <2>1, ConcatProperties
    <2> HIDE DEF n, all
    <2> QED BY <1>4, <2>1, <2>2
  <1>0. Size(c) = n
    OBVIOUS
  <1> HIDE DEF all, n
  <1>6. /\ d \in Collections /\ d.items = all /\ d.count = c.count /\ d.blocked = 0
        /\ d.cursor = c.cursor /\ d.wink = c.wink
    BY <1>1, <1>3, <1>5 DEF Collections
  <1>7. Size(d) = n + m /\ Numbers(d) = 0..(n + m - 1) /\ Numbers(c) \subseteq Numbers(d)
    BY <1>1, <1>2, <1>5, <1>6 DEF Size, Numbers
  <1>8. ASSUME NEW i \in Numbers(c)
        PROVE  Data(d, i) = Data(c, i) /\ IsSelected(d, i) = IsSelected(c, i)
    <2>1. i + 1 \in 1..(n + m) /\ i + 1 <= n
      BY <1>1, <1>2
    <2>2. d.items[i + 1] = c.items[i + 1]
      BY <1>5, <1>6, <2>1
    <2> QED BY <2>2 DEF Data, IsSelected
  <1>9. ASSUME NEW i \in Numbers(d), i \notin Numbers(c)
        PROVE  \E k \in 1..m : /\ k = i + 1 - n /\ Data(d, i) = files[k] /\ Data(d, i) \in new
                               /\ IsSelected(d, i) = FALSE
    <2>1. i \in Int /\ i >= n /\ i < n + m
      <3>1. i \in 0..(n + m - 1) /\ i \notin 0..(n - 1)
        BY <1>1, <1>7, <1>9
      <3> QED BY <1>1, <1>2, <3>1
    <2>2. PICK j \in 1..(n + m) : j = i + 1 /\ ~(j <= n) /\ j - n \in 1..m
      BY <1>1, <1>2, <2>1
    <2>3. PICK k \in 1..m : k = j - n
      BY <2>2
    <2>4. all[j] = IF j <= n THEN c.items[j] ELSE its[j - n]
      BY <1>5
    <2>5. all[j] = its[k]
      BY <2>2, <2>3, <2>4, Zenon
    <2>6. its[k] = NewItem(files[k]) /\ files[k] \in new
      BY <1>4
    <2>7. d.items[i + 1] = NewItem(files[k])
      BY <1>6, <2>2, <2>5, <2>6
    <2>8. k = i + 1 - n
      BY <1>1, <2>1, <2>2, <2>3
    <2> QED BY <2>6, <2>7, <2>8 DEF NewItem, Data, IsSelected
  <1>10. Marked(d) = Marked(c)
    BY <1>7, <1>8, <1>9 DEF Marked
  <1>11. SelectedIn(d) = SelectedIn(c)
    BY <1>8, <1>10 DEF SelectedIn, Marked
  <1>12. Shown(d) = Shown(c) \cup new
    <2>1. Shown(d) \subseteq Shown(c) \cup new
      BY <1>8, <1>9 DEF Shown
    <2>2. Shown(c) \subseteq Shown(d)
      BY <1>7, <1>8 DEF Shown
    <2>3. ASSUME NEW x \in new
          PROVE  x \in Shown(d)
      <3>1. PICK k \in 1..m : files[k] = x
        BY <1>2
      <3>2. PICK i \in Numbers(d) : i = n + k - 1
        BY <1>1, <1>2, <1>7, <3>1, SMTT(40)
      <3>3. i \notin Numbers(c)
        BY <1>1, <1>2, <3>1, <3>2
      <3>4. PICK j \in 1..m : j = i + 1 - n /\ Data(d, i) = files[j]
        BY <1>9, <3>3
      <3>5. j = k
        BY <1>1, <1>2, <3>2, <3>4
      <3> QED BY <3>1, <3>4, <3>5 DEF Shown
    <2> QED BY <2>1, <2>2, <2>3
  <1>13. Fit(icons, d)
    <2>1. Counted(d)
      BY <1>1, <1>6, <1>10 DEF Counted
    <2>2. c.items = << >> /\ c.cursor = 0 => d.cursor \in Numbers(d) \/ (d.items = << >> /\ d.cursor = 0)
      <3>1. ASSUME c.items = << >>, c.cursor = 0, ~(d.cursor \in Numbers(d)) PROVE d.items = << >>
        <4>1. Len(d.items) = 0
          BY <1>1, <1>2, <1>5, <1>6, <1>7, <3>1
        <4> QED BY <1>5, <1>6, <4>1, EmptySeq
      <3> QED BY <1>6, <3>1
    <2>3. d.cursor \in Numbers(d) \cup {-1} \/ (d.items = << >> /\ d.cursor = 0)
      BY <1>6, <1>7, <2>2 DEF Fit
    <2> QED BY <1>6, <1>7, <2>1, <2>3 DEF Fit
  <1> QED BY <1>6, <1>7, <1>8, <1>10, <1>11, <1>12, <1>13 DEF d, files
-----------------------------------------------------------------------------
(* Items taken away.                                                       *)

Staying(c, gone) == {k \in 1..Size(c) : c.items[k].data \notin gone}

\* p finds, in order, the m items that stay.
Finds(c, gone, p, m) ==
  /\ m \in Nat /\ p \in [1..m -> Staying(c, gone)]
  /\ \A j, k \in 1..m : j < k => p[j] < p[k]
  /\ \A j \in Staying(c, gone) : \E k \in 1..m : p[k] = j

\* The items that stay are some of those there are.
LEMMA StayingNumbers ==
    ASSUME NEW c \in Collections, NEW gone
    PROVE  /\ Staying(c, gone) \subseteq 1..Size(c) /\ Size(c) \in Nat
           /\ IsFiniteSet(Staying(c, gone)) /\ Cardinality(Staying(c, gone)) \in Nat
           /\ \A i \in Numbers(c) : i + 1 \in Staying(c, gone) <=> Data(c, i) \notin gone
  <1>1. Size(c) \in Nat /\ \A i \in Numbers(c) : i + 1 \in 1..Size(c)
    BY MarkedAreNumbers
  <1>2. IsFiniteSet(1..Size(c))
    BY <1>1, FS_Interval
  <1>3. Staying(c, gone) \in SUBSET (1..Size(c))
    BY DEF Staying
  <1>4. IsFiniteSet(Staying(c, gone)) /\ Cardinality(Staying(c, gone)) \in Nat
    BY <1>2, <1>3, FS_Subset, FS_CardinalityType
  <1>5. \A i \in Numbers(c) : i + 1 \in Staying(c, gone) <=> Data(c, i) \notin gone
    BY <1>1 DEF Staying, Data
  <1> QED BY <1>1, <1>3, <1>4, <1>5

\* An order of what is left finds all of it.
LEMMA RestFinds ==
    ASSUME NEW c \in Collections, NEW gone, NEW p \in Rest(c, gone)
    PROVE  Finds(c, gone, p, Cardinality(Staying(c, gone)))
  <1> DEFINE S == Staying(c, gone)
             m == Cardinality(S)
  <1>1. p \in [1..m -> S] /\ \A j, k \in 1..m : j < k => p[j] < p[k]
    BY DEF Rest, Staying
  <1>2. S \subseteq 1..Size(c) /\ Size(c) \in Nat /\ IsFiniteSet(S) /\ m \in Nat
    BY StayingNumbers
  <1> HIDE DEF S
  <1>3. \A k \in 1..m : p[k] \in Int
    <2>1. \A j \in S : j \in Int
      BY <1>2
    <2> QED BY <1>1, <2>1
  <1>4. \A j, k \in 1..m : p[j] = p[k] => j = k
    BY <1>1, <1>2, <1>3
  <1>5. p \in Injection(1..m, S)
    BY <1>1, <1>4 DEF Injection, IsInjective
  <1>6. Cardinality(1..m) = m
    BY <1>2, FS_Interval
  <1>7. p \in Surjection(1..m, S)
    BY <1>2, <1>5, <1>6, FS_Injection
  <1> QED BY <1>1, <1>2, <1>7 DEF Surjection, Finds, S

\* If all of it goes there is nothing to order.
LEMMA NothingRests ==
    ASSUME NEW c \in Collections
    PROVE  << >> \in Rest(c, Shown(c))
  <1>1. Staying(c, Shown(c)) = {}
    <2>1. ASSUME NEW k \in Staying(c, Shown(c)) PROVE FALSE
      <3>1. k \in 1..Size(c) /\ Size(c) \in Nat /\ c.items[k].data \notin Shown(c)
        BY StayingNumbers DEF Staying
      <3>2. k - 1 \in Numbers(c) /\ (k - 1) + 1 = k
        BY <3>1 DEF Numbers
      <3>3. Data(c, k - 1) \in Shown(c)
        BY <3>2 DEF Shown
      <3>4. Data(c, k - 1) = c.items[k].data
        BY <3>2 DEF Data
      <3> QED BY <3>1, <3>3, <3>4
    <2> QED BY <2>1
  <1>2. Cardinality(Staying(c, Shown(c))) = 0
    BY <1>1, FS_EmptySet
  <1>3. 1..0 = {}
    OBVIOUS
  <1>4. << >> \in [1..0 -> Staying(c, Shown(c))] /\ DOMAIN << >> = {}
    BY <1>1
  <1> QED BY <1>2, <1>3, <1>4 DEF Rest, Staying

\* What stays is shown and selected as it was.
LEMMA KeptItems ==
    ASSUME NEW c \in Collections, NEW gone, NEW p, NEW m, Finds(c, gone, p, m), NEW d, Picks(c, d, p, m)
    PROVE  /\ Shown(d) = Shown(c) \ gone /\ SelectedIn(d) = SelectedIn(c) \ gone
           /\ Cardinality(Marked(d)) \in Nat
           /\ Cardinality(Marked(d)) <= Cardinality(Marked(c))
  <1> DEFINE S == Staying(c, gone)
  <1>1. /\ m \in Nat /\ p \in [1..m -> S] /\ S \subseteq 1..Size(c) /\ Size(c) \in Nat
        /\ \A j, k \in 1..m : j < k => p[j] < p[k]
        /\ \A j \in S : \E k \in 1..m : p[k] = j
        /\ \A i \in Numbers(c) : i + 1 \in S <=> Data(c, i) \notin gone
    BY StayingNumbers DEF Finds
  <1>0. \A k \in 1..m : p[k] \in S /\ p[k] \in 1..Size(c) /\ p[k] \in Int
    <2>1. \A k \in 1..m : p[k] \in S
      BY <1>1
    <2>2. \A j \in S : j \in 1..Size(c) /\ j \in Int
      BY <1>1
    <2> QED BY <2>1, <2>2
  <1>2. /\ Numbers(d) = 0..(m - 1)
        /\ \A i \in Numbers(d) : /\ i + 1 \in 1..m /\ p[i + 1] - 1 \in Numbers(c)
                                 /\ Data(d, i) = Data(c, p[i + 1] - 1)
                                 /\ IsSelected(d, i) = IsSelected(c, p[i + 1] - 1)
    BY <1>1, PickedItems, SMTT(40)
  <1> HIDE DEF S
  <1>3. ASSUME NEW i \in Numbers(d)
        PROVE  Data(c, p[i + 1] - 1) \notin gone
    <2>1. p[i + 1] \in S /\ p[i + 1] \in Int
      BY <1>2, <1>0
    <2>2. (p[i + 1] - 1) + 1 = p[i + 1]
      BY <2>1
    <2>3. (p[i + 1] - 1) + 1 \in S
      BY <2>1, <2>2
    <2> QED BY <1>1, <1>2, <2>3
  <1>4. ASSUME NEW j \in Numbers(c), Data(c, j) \notin gone
        PROVE  \E i \in Numbers(d) : p[i + 1] - 1 = j
    <2>1. j \in Int /\ j + 1 \in S
      BY <1>1, <1>4 DEF Numbers
    <2>2. PICK k \in 1..m : p[k] = j + 1
      BY <1>1, <2>1
    <2>3. PICK i \in Numbers(d) : i + 1 = k
      <3>1. k - 1 \in Numbers(d) /\ (k - 1) + 1 = k
        BY <1>1, <1>2
      <3> QED BY <3>1
    <2>4. p[i + 1] - 1 = j
      BY <2>1, <2>2, <2>3
    <2> QED BY <2>4
  <1>5. Shown(d) = Shown(c) \ gone
    <2>1. Shown(d) \subseteq Shown(c) \ gone
      BY <1>2, <1>3 DEF Shown
    <2>2. Shown(c) \ gone \subseteq Shown(d)
      BY <1>2, <1>4 DEF Shown
    <2> QED BY <2>1, <2>2
  <1>6. SelectedIn(d) = SelectedIn(c) \ gone
    <2>1. SelectedIn(d) \subseteq SelectedIn(c) \ gone
      BY <1>2, <1>3 DEF SelectedIn, Marked
    <2>2. SelectedIn(c) \ gone \subseteq SelectedIn(d)
      BY <1>2, <1>4 DEF SelectedIn, Marked
    <2> QED BY <2>1, <2>2
  <1>7. Cardinality(Marked(d)) \in Nat /\ Cardinality(Marked(d)) <= Cardinality(Marked(c))
    <2> DEFINE F == [i \in Marked(d) |-> p[i + 1] - 1]
    <2>1. \A i \in Marked(d) : F[i] \in Marked(c)
      BY <1>2 DEF Marked
    <2>2. ASSUME NEW i \in Marked(d), NEW j \in Marked(d), F[i] = F[j]
          PROVE  i = j
      <3>1. /\ i \in Int /\ j \in Int /\ i + 1 \in 1..m /\ j + 1 \in 1..m
            /\ p[i + 1] \in Int /\ p[j + 1] \in Int
        <4>1. i \in Numbers(d) /\ j \in Numbers(d)
          BY DEF Marked
        <4>2. i \in Int /\ j \in Int /\ i + 1 \in 1..m /\ j + 1 \in 1..m
          BY <1>1, <1>2, <4>1
        <4> QED BY <1>0, <4>2
      <3>2. p[i + 1] = p[j + 1]
        BY <2>2, <3>1
      <3> QED BY <1>1, <3>1, <3>2
    <2>3. F \in Injection(Marked(d), Marked(c))
      <3>1. F \in [Marked(d) -> Marked(c)] /\ DOMAIN F = Marked(d)
        BY <2>1
      <3> HIDE DEF F
      <3> QED BY <2>2, <3>1 DEF Injection, IsInjective
    <2>4. IsFiniteSet(Marked(c))
      BY MarkedAreNumbers
    <2>5. IsFiniteSet(Marked(d)) /\ Cardinality(Marked(d)) <= Cardinality(Marked(c))
      BY <2>3, <2>4, FS_Injection
    <2> QED BY <2>5, FS_CardinalityType
  <1> QED BY <1>5, <1>6, <1>7

\* An item goes back by as many as go before it.
LEMMA MovedBack ==
    ASSUME NEW c \in Collections, NEW gone, NEW p, NEW m, Finds(c, gone, p, m), NEW i \in Numbers(c)
    PROVE  LET removed == {j \in Numbers(c) : Data(c, j) \in gone}
               x == i - Cardinality({j \in removed : j <= i})
           IN  /\ x \in -1..(m - 1)
               /\ Data(c, i) \notin gone => x \in 0..(m - 1) /\ p[x + 1] = i + 1
  <1> DEFINE S == Staying(c, gone)
             B == {j \in {j \in Numbers(c) : Data(c, j) \in gone} : j <= i}
             K == {j \in 0..i : Data(c, j) \notin gone}
             x == i - Cardinality(B)
  <1>1. /\ m \in Nat /\ p \in [1..m -> S] /\ S \subseteq 1..Size(c) /\ Size(c) \in Nat
        /\ \A j, k \in 1..m : j < k => p[j] < p[k]
        /\ \A j \in S : \E k \in 1..m : p[k] = j
        /\ \A j \in Numbers(c) : j + 1 \in S <=> Data(c, j) \notin gone
    BY StayingNumbers DEF Finds
  <1>0. \A k \in 1..m : p[k] \in S /\ p[k] \in 1..Size(c) /\ p[k] \in Int
    <2>1. \A k \in 1..m : p[k] \in S
      BY <1>1
    <2>2. \A j \in S : j \in 1..Size(c) /\ j \in Int
      BY <1>1
    <2> QED BY <2>1, <2>2
  <1>2. i \in Nat /\ i < Size(c) /\ 0..i \subseteq Numbers(c)
    BY <1>1 DEF Numbers
  <1>3. IsFiniteSet(0..i) /\ Cardinality(0..i) = i + 1
    BY <1>2, FS_Interval
  <1>4. /\ IsFiniteSet(B) /\ IsFiniteSet(K) /\ Cardinality(B) \in Nat /\ Cardinality(K) \in Nat
        /\ Cardinality(K) = i + 1 - Cardinality(B)
    <2>1. B \in SUBSET (0..i) /\ K \in SUBSET (0..i) /\ K = (0..i) \ B /\ (0..i) \cap B = B
      BY <1>1, <1>2 DEF Numbers
    <2> HIDE DEF B, K
    <2>2. IsFiniteSet(B) /\ IsFiniteSet(K) /\ Cardinality(B) \in Nat /\ Cardinality(K) \in Nat
      BY <1>3, <2>1, FS_Subset, FS_CardinalityType
    <2>3. Cardinality((0..i) \ B) = Cardinality(0..i) - Cardinality((0..i) \cap B)
      BY <1>3, FS_Difference
    <2>4. Cardinality(K) = Cardinality(0..i) - Cardinality(B)
      BY <2>1, <2>3
    <2> QED BY <1>2, <1>3, <2>2, <2>4
  <1> HIDE DEF B, S
  <1>5. x = Cardinality(K) - 1
    BY <1>2, <1>4
  <1>6. \A j \in K : j \in Int /\ j <= i /\ j + 1 \in S
    BY <1>1, <1>2
  <1>7. Cardinality(K) <= m
    <2> DEFINE F == [j \in K |-> j + 1]
    <2>1. F \in [K -> S] /\ DOMAIN F = K /\ \A j, k \in K : F[j] = F[k] => j = k
      BY <1>6
    <2> HIDE DEF F, K
    <2>2. F \in Injection(K, S)
      BY <2>1 DEF Injection, IsInjective
    <2>3. IsFiniteSet(S)
      BY StayingNumbers DEF S
    <2>4. Cardinality(K) <= Cardinality(S)
      BY <2>2, <2>3, FS_Injection
    <2>5. Cardinality(S) <= m
      <3>1. p \in Surjection(1..m, S)
        BY <1>1 DEF Surjection
      <3>2. IsFiniteSet(1..m) /\ Cardinality(1..m) = m
        BY <1>1, FS_Interval
      <3> QED BY <3>1, <3>2, FS_Surjection
    <2>6. Cardinality(S) \in Nat
      BY <2>3, FS_CardinalityType
    <2> QED BY <1>1, <1>4, <2>4, <2>5, <2>6
  <1>8. x \in -1..(m - 1)
    <2> HIDE DEF x, K
    <2> QED BY <1>1, <1>4, <1>5, <1>7
  <1>9. ASSUME Data(c, i) \notin gone
        PROVE  x \in 0..(m - 1) /\ p[x + 1] = i + 1
    <2>1. i + 1 \in S
      BY <1>1, <1>9
    <2>2. PICK k \in 1..m : p[k] = i + 1
      BY <1>1, <2>1
    <2> DEFINE G == [j \in 1..k |-> p[j] - 1]
    <2>3. ASSUME NEW j \in 1..k
          PROVE  j \in 1..m /\ p[j] \in S /\ p[j] \in Int /\ p[j] - 1 \in K
      <3>1. j \in 1..m /\ p[j] \in S /\ p[j] \in 1..Size(c)
        <4>1. j \in 1..m
          BY <1>1
        <4> QED BY <1>0, <4>1
      <3>2. p[j] <= i + 1
        <4>1. j = k \/ j < k
          BY <1>1
        <4> QED BY <1>1, <1>2, <2>2, <3>1, <4>1
      <3>3. p[j] - 1 \in Numbers(c) /\ p[j] - 1 \in 0..i /\ (p[j] - 1) + 1 = p[j]
        BY <1>1, <1>2, <3>1, <3>2 DEF Numbers
      <3>4. Data(c, p[j] - 1) \notin gone
        BY <1>1, <3>1, <3>3
      <3> QED BY <3>1, <3>3, <3>4
    <2>4. ASSUME NEW j \in 1..k, NEW l \in 1..k, G[j] = G[l]
          PROVE  j = l
      <3>1. j \in 1..m /\ l \in 1..m /\ p[j] \in Int /\ p[l] \in Int /\ p[j] - 1 = p[l] - 1
        BY <2>3, <2>4
      <3>2. p[j] = p[l]
        BY <3>1
      <3> QED BY <1>1, <3>1, <3>2
    <2>5. ASSUME NEW j \in K
          PROVE  \E l \in 1..k : G[l] = j
      <3>1. PICK l \in 1..m : p[l] = j + 1
        BY <1>1, <1>6
      <3>2. ~(k < l)
        <4>1. k < l => i + 1 < j + 1
          BY <1>1, <2>2, <3>1
        <4> QED BY <1>2, <1>6, <4>1
      <3>3. l \in 1..k /\ p[l] - 1 = j
        BY <1>1, <1>6, <3>1, <3>2
      <3> QED BY <3>3
    <2>6. G \in Bijection(1..k, K)
      <3>1. G \in [1..k -> K] /\ DOMAIN G = 1..k
        BY <2>3
      <3> HIDE DEF G, K
      <3>2. G \in Injection(1..k, K)
        BY <2>4, <3>1 DEF Injection, IsInjective
      <3>3. G \in Surjection(1..k, K)
        BY <2>5, <3>1 DEF Surjection
      <3> QED BY <3>2, <3>3 DEF Bijection
    <2>7. Cardinality(K) = k
      <3> HIDE DEF G, K
      <3>0. k \in Nat /\ 1 \in Int /\ k \in Int /\ ~(1 > k) /\ k - 1 + 1 = k
        BY <1>1
      <3>1. IsFiniteSet(1..k) /\ Cardinality(1..k) = k
        BY <3>0, FS_Interval
      <3>2. ExistsBijection(1..k, K)
        BY <2>6 DEF ExistsBijection
      <3> QED BY <3>1, <3>2, FS_Bijection
    <2>8. x = k - 1 /\ x + 1 = k
      BY <1>1, <1>5, <2>7
    <2>9. x \in 0..(m - 1)
      BY <1>1, <2>8
    <2> HIDE DEF x
    <2> QED BY <2>2, <2>8, <2>9
  <1> QED BY <1>8, <1>9 DEF B

WithoutIn(icons, r, gone, p) == IF icons THEN DeleteIf(r, gone, p) ELSE ListDeleteIf(r, gone, p)

\* Deleting shows and selects the rest as it was, and the cursor stays on
\* its file unless this goes.
LEMMA DeletedFits ==
    ASSUME NEW icons \in BOOLEAN, NEW c, Fit(icons, c), NEW gone, NEW p \in Rest(c, gone)
    PROVE  LET s == WithoutIn(icons, Quiet(c), gone, p)
               d == s.c
           IN  /\ s \in Results /\ Fit(icons, d)
               /\ Shown(d) = Shown(c) \ gone /\ SelectedIn(d) = SelectedIn(c) \ gone
               /\ Fair(icons, SelectedIn(c), s.out, SelectedIn(d))
               /\ icons /\ c.cursor \in Numbers(c) /\ Data(c, c.cursor) \notin gone
                    => d.cursor \in Numbers(d) /\ Data(d, d.cursor) = Data(c, c.cursor)
               /\ d.wink = -1 \/ d = c
  <1> DEFINE r == Quiet(c)
             s == WithoutIn(icons, r, gone, p)
             m == Cardinality(Staying(c, gone))
             its == Arranged(c.items, p)
             removed == {i \in Numbers(c) : Data(c, i) \in gone}
             x == c.cursor - Cardinality({i \in removed : i <= c.cursor})
  <1>1. /\ c \in Collections /\ c.count = Cardinality(Marked(c)) /\ Size(c) \in Nat
        /\ c.items \in Seq(Item) /\ c.cursor \in Int /\ c.wink \in Int /\ c.old \in Int
        /\ c.blocked = 0 /\ c.count \in Nat
        /\ Marked(c) \in SUBSET Numbers(c)
    BY MarkedAreNumbers DEF Fit, Counted, Collections
  <1>2. r \in Results /\ r.c = c /\ r.out = << >> /\ Chosen(icons, c, r, Marked(c))
    BY NothingTold DEF Fit
  <1>3. c.count > 0 <=> SelectedIn(c) # {}
    BY <1>1, SomeNumbers, NoneSelected
  <1>4. Finds(c, gone, p, m) /\ m \in Nat
    BY <1>1, RestFinds, StayingNumbers
  <1>5. p \in [1..m -> 1..Size(c)]
    BY <1>1, <1>4, StayingNumbers DEF Finds
  <1> HIDE DEF m
  <1>6. \A e : e.items = its => Picks(c, e, p, m)
    BY <1>1, <1>4, <1>5, ArrangedPicks
  <1>7. its \in Seq(Item) /\ Len(its) = m
    <2> DEFINE e == [items |-> its]
    <2>1. e.items = its
      OBVIOUS
    <2> HIDE DEF e, its
    <2>2. Picks(c, e, p, m)
      BY <1>6, <2>1
    <2> QED BY <2>1, <2>2 DEF Picks, Size
  <1> HIDE DEF its
  <1>8. ASSUME NEW e, e.items = its
        PROVE  /\ Shown(e) = Shown(c) \ gone /\ SelectedIn(e) = SelectedIn(c) \ gone
               /\ Cardinality(Marked(e)) \in Nat /\ Cardinality(Marked(e)) <= c.count
               /\ Numbers(e) = 0..(m - 1)
               /\ \A i \in Numbers(e) : Data(e, i) = Data(c, p[i + 1] - 1)
    <2>1. Picks(c, e, p, m)
      BY <1>6, <1>8
    <2> QED BY <1>1, <1>4, <2>1, KeptItems, PickedItems
  <1>9. CASE icons /\ removed = {}
    <2>1. s = r
      BY <1>2, <1>9 DEF WithoutIn, DeleteIf
    <2>2. Shown(c) \ gone = Shown(c)
      BY <1>9 DEF Shown
    <2>3. SelectedIn(c) \ gone = SelectedIn(c)
      BY <1>1, <1>9 DEF SelectedIn
    <2>4. Fair(icons, SelectedIn(c), r.out, SelectedIn(c))
      BY <1>2, NoneSelected DEF Chosen, Fair
    <2> HIDE DEF r, s
    <2>5. s.c = c
      BY <1>2, <2>1
    <2>6. s \in Results
      BY <1>2, <2>1
    <2> QED BY <2>1, <2>2, <2>3, <2>4, <2>5, <2>6 DEF r, s
  <1>10. CASE icons /\ removed # {}
    <2> DEFINE kept == [c EXCEPT !.items = its, !.wink = -1, !.cursor = x]
               n == Cardinality(Marked(kept))
               d == [kept EXCEPT !.count = n]
               left == [r EXCEPT !.c = d]
    <2>1. s = IF c.count > 0 /\ n = 0 THEN TellLost(left) ELSE left
      <3>1. left.c.count = n
        BY <1>1, <1>2 DEF Collections, Results
      <3> QED BY <1>1, <1>2, <1>10, <3>1 DEF WithoutIn, DeleteIf, its, Collections
    <2>2. /\ c.cursor \in Numbers(c) => x \in -1..(m - 1)
          /\ c.cursor \in Numbers(c) /\ Data(c, c.cursor) \notin gone => x \in 0..(m - 1) /\ p[x + 1] = c.cursor + 1
      BY <1>1, <1>4, MovedBack, SMTT(40)
    <2>3. c.cursor = -1 => x = -1
      <3>1. ASSUME c.cursor = -1 PROVE {i \in removed : i <= c.cursor} = {}
        BY <1>1, <3>1 DEF Numbers
      <3> QED BY <3>1, FS_EmptySet
    <2>4. c.cursor \in Numbers(c) \cup {-1}
      <3>1. c.items = << >> => Size(c) = 0
        BY EmptySeq DEF Size
      <3>2. c.items # << >>
        BY <1>10, <3>1 DEF Numbers
      <3> QED BY <3>2 DEF Fit
    <2> HIDE DEF x, removed
    <2>5. x \in Int /\ x \in 0..(m - 1) \cup {-1}
      <3>1. x = -1 \/ x \in -1..(m - 1)
        BY <2>2, <2>3, <2>4
      <3> QED BY <1>4, <3>1
    <2>6. kept.items = its
      BY <1>1 DEF Collections
    <2>7. n \in Nat
      BY <1>8, <2>6
    <2> HIDE DEF n
    <2>8. d = [c EXCEPT !.items = its, !.wink = -1, !.cursor = x, !.count = n]
      BY <1>1 DEF Collections
    <2> HIDE DEF d
    <2>9. /\ d \in Collections /\ d.items = its /\ d.wink = -1 /\ d.cursor = x /\ d.count = n
          /\ d.blocked = 0
      <3>1. x \in Int /\ n \in Nat /\ its \in Seq(Item) /\ c \in Collections /\ c.blocked = 0
        BY <1>1, <1>7, <2>5, <2>7
      <3>2. d = [items |-> its, count |-> n, cursor |-> x, old |-> c.old, wink |-> -1,
                 blocked |-> c.blocked]
        BY <2>8, <3>1 DEF Collections
      <3>3. c.old \in Int /\ -1 \in Int /\ c.blocked \in Nat
        BY <1>1 DEF Collections
      <3> QED BY <3>1, <3>2, <3>3 DEF Collections
    <2>10. Marked(d) = Marked(kept)
      BY <2>6, <2>9 DEF Marked, Numbers, Size, IsSelected
    <2> HIDE DEF kept
    <2>11. /\ Shown(d) = Shown(c) \ gone /\ SelectedIn(d) = SelectedIn(c) \ gone
           /\ Numbers(d) = 0..(m - 1)
           /\ \A i \in Numbers(d) : Data(d, i) = Data(c, p[i + 1] - 1)
      BY <1>8, <2>9
    <2>12. Counted(d)
      BY <2>9, <2>10 DEF Counted, n
    <2>13. Fit(icons, d)
      BY <1>10, <2>5, <2>9, <2>11, <2>12 DEF Fit
    <2>14. left \in Results /\ left.c = d /\ left.out = << >>
      BY <1>2, <2>9 DEF Results
    <2> HIDE DEF left
    <2>15. /\ TellLost(left) \in Results /\ TellLost(left).c = d
           /\ TellLost(left).out = <<"lose">>
      BY <2>14, TellAppends, ToldMore, EmptySeq DEF TellLost, Tidings
    <2>16. n = 0 <=> SelectedIn(d) = {}
      <3>1. Marked(d) \in SUBSET Numbers(d)
        BY <2>9, MarkedAreNumbers
      <3> QED BY <2>9, <2>12, <3>1, SomeNumbers, NoneSelected DEF Counted
    <2>17. s \in Results /\ s.c = d /\ Fair(icons, SelectedIn(c), s.out, SelectedIn(d))
      <3>1. NoLoss(<< >>)
        BY EmptySeq, ToldMore
      <3>2. CASE c.count > 0 /\ n = 0
        <4>1. s = TellLost(left)
          BY <2>1, <3>2
        <4> HIDE DEF s
        <4> QED BY <1>3, <1>10, <2>15, <2>16, <3>2, <4>1 DEF Fair
      <3>3. CASE ~(c.count > 0 /\ n = 0)
        <4>1. s = left
          BY <2>1, <3>3
        <4>2. SelectedIn(d) = {} => SelectedIn(c) = {}
          BY <1>3, <2>16, <3>3
        <4> HIDE DEF s
        <4> QED BY <2>14, <3>1, <4>1, <4>2 DEF Fair
      <3> QED BY <3>2, <3>3
    <2>18. c.cursor \in Numbers(c) /\ Data(c, c.cursor) \notin gone
             => d.cursor \in Numbers(d) /\ Data(d, d.cursor) = Data(c, c.cursor)
      <3>1. ASSUME c.cursor \in Numbers(c), Data(c, c.cursor) \notin gone
            PROVE  d.cursor \in Numbers(d) /\ Data(d, d.cursor) = Data(c, c.cursor)
        <4>1. x \in Numbers(d) /\ p[x + 1] = c.cursor + 1
          BY <2>2, <2>11, <3>1
        <4>2. Data(d, x) = Data(c, p[x + 1] - 1)
          BY <2>11, <4>1
        <4>3. p[x + 1] - 1 = c.cursor
          BY <1>1, <4>1
        <4> QED BY <2>9, <4>1, <4>2, <4>3
      <3> QED BY <3>1
    <2> HIDE DEF s, r
    <2> QED BY <2>9, <2>11, <2>13, <2>17, <2>18 DEF s, r
  <1>11. CASE ~icons
    <2> DEFINE kept == [c EXCEPT !.items = its]
               n == Cardinality(Marked(kept))
               d == [kept EXCEPT !.count = n]
               told == [k \in 1..(c.count - n) |-> IF c.count - k > 0 THEN "some" ELSE "lose"]
    <2>1. s = [c |-> d, out |-> << >> \o told]
      BY <1>2, <1>11 DEF WithoutIn, ListDeleteIf, its
    <2>2. kept.items = its
      BY <1>1 DEF Collections
    <2>3. n \in Nat /\ n <= c.count
      BY <1>8, <2>2
    <2> HIDE DEF n
    <2>4. d = [c EXCEPT !.items = its, !.count = n]
      BY <1>1 DEF Collections
    <2>5. /\ d \in Collections /\ d.items = its /\ d.wink = -1 /\ d.cursor = -1 /\ d.count = n
          /\ d.blocked = 0
      BY <1>1, <1>7, <1>11, <2>3, <2>4 DEF Collections, Fit
    <2>6. Marked(d) = Marked(kept)
      BY <2>2, <2>5 DEF Marked, Numbers, Size, IsSelected
    <2> HIDE DEF kept, d
    <2>7. Shown(d) = Shown(c) \ gone /\ SelectedIn(d) = SelectedIn(c) \ gone
      BY <1>8, <2>5
    <2>8. Counted(d)
      BY <2>5, <2>6 DEF Counted, n
    <2>9. Fit(icons, d)
      BY <1>11, <2>5, <2>8 DEF Fit
    <2>10. /\ told \in Seq(Tidings) /\ Len(told) = c.count - n
           /\ \A k \in 1..(c.count - n) : told[k] = IF c.count - k > 0 THEN "some" ELSE "lose"
      <3>1. c.count - n \in Nat
        BY <1>1, <2>3
      <3>2. told \in [1..(c.count - n) -> Tidings]
        BY DEF Tidings
      <3>3. \A k \in 1..(c.count - n) : told[k] = IF c.count - k > 0 THEN "some" ELSE "lose"
        OBVIOUS
      <3> HIDE DEF told
      <3> QED BY <3>1, <3>2, <3>3, ListIsASeq
    <2> HIDE DEF told
    <2>11. << >> \o told = told
      BY <2>10, ConcatEmptySeq
    <2> HIDE DEF s
    <2>12. s.c = d /\ s.out = told /\ s \in Results
      BY <2>1, <2>5, <2>10, <2>11 DEF Results
    <2>13. n = 0 <=> SelectedIn(d) = {}
      <3>1. Marked(d) \in SUBSET Numbers(d)
        BY <2>5, MarkedAreNumbers
      <3> QED BY <2>5, <2>8, <3>1, SomeNumbers, NoneSelected DEF Counted
    <2>14. Fair(icons, SelectedIn(c), told, SelectedIn(d))
      <3>1. n # 0 => NoLoss(told)
        BY <1>1, <2>3, <2>10 DEF NoLoss
      <3>2. n = 0 /\ c.count > 0 => EndsInLoss(told)
        <4>1. ASSUME n = 0, c.count > 0 PROVE EndsInLoss(told)
          <5>1. Len(told) = c.count /\ c.count \in 1..(c.count - n)
            BY <1>1, <2>10, <4>1
          <5>2. told[c.count] = "lose"
            BY <1>1, <2>10, <4>1, <5>1
          <5>3. told # << >>
            BY <4>1, <5>1, EmptySeq
          <5> QED BY <5>1, <5>2, <5>3 DEF EndsInLoss
        <4> QED BY <4>1
      <3>3. n = 0 /\ ~(c.count > 0) => told = << >>
        BY <1>1, <2>10, EmptySeq
      <3> QED BY <1>3, <1>11, <2>13, <3>1, <3>2, <3>3 DEF Fair
    <2> QED BY <1>11, <2>5, <2>7, <2>9, <2>12, <2>14 DEF s
  <1> QED BY <1>9, <1>10, <1>11
-----------------------------------------------------------------------------
(* Where the cursor can be moved.                                          *)

\* The greater of two numbers is one of them.
LEMMA MaxOfTwo ==
    ASSUME NEW a \in Int, NEW b \in Int
    PROVE  Max({a, b}) \in {a, b} /\ Max({a, b}) >= a /\ Max({a, b}) >= b
  <1> DEFINE Is(x) == \A y \in {a, b} : x >= y
  <1>1. \E x \in {a, b} : Is(x)
    BY a >= b \/ b >= a
  <1>2. (CHOOSE x \in {a, b} : Is(x)) \in {a, b} /\ Is(CHOOSE x \in {a, b} : Is(x))
    BY <1>1
  <1> QED BY <1>2 DEF Max

\* So is the lesser.
LEMMA MinOfTwo ==
    ASSUME NEW a \in Int, NEW b \in Int
    PROVE  Min({a, b}) \in {a, b}
  <1> DEFINE Is(x) == \A y \in {a, b} : x =< y
  <1>1. \E x \in {a, b} : Is(x)
    BY a >= b \/ b >= a
  <1>2. (CHOOSE x \in {a, b} : Is(x)) \in {a, b}
    BY <1>1
  <1> QED BY <1>2 DEF Min

\* There is at least one row, and one column.
LEMMA RowsAndColumns ==
    ASSUME NEW c \in Collections, NEW lay \in Layouts
    PROVE  /\ lay.columns \in Nat \ {0} /\ Rows(c, lay) \in Nat \ {0} /\ Columns(c, lay) \in Nat \ {0}
           /\ \A i \in Int : RowOf(c, lay, i) \in Int /\ ColumnOf(c, lay, i) \in Int
           /\ \A row, col \in Int : ItemAt(c, lay, row, col) \in Int
  <1>1. lay.columns \in Nat \ {0} /\ lay.vertical \in BOOLEAN
    BY ViewsAssumption
  <1>2. Size(c) \in Nat
    BY MarkedAreNumbers
  <1> DEFINE a == (Size(c) + lay.columns - 1) \div lay.columns
             n == Rows(c, lay)
             b == (Size(c) + n - 1) \div n
  <1>3. a \in Int
    BY <1>1, <1>2
  <1>4. n \in Nat \ {0}
    <2>1. n = Max({a, 1})
      BY DEF Rows
    <2> HIDE DEF a, n
    <2>2. Max({a, 1}) \in Int /\ Max({a, 1}) >= 1
      BY <1>3, MaxOfTwo
    <2> QED BY <2>1, <2>2
  <1> HIDE DEF n
  <1>5. b \in Int
    BY <1>2, <1>4
  <1>6. Columns(c, lay) \in Nat \ {0}
    <2>1. Columns(c, lay) = IF lay.vertical THEN Max({b, 1}) ELSE lay.columns
      BY DEF Columns, n
    <2> HIDE DEF b
    <2>2. Max({b, 1}) \in Int /\ Max({b, 1}) >= 1
      BY <1>5, MaxOfTwo
    <2> QED BY <1>1, <2>1, <2>2
  <1>7. ASSUME NEW i \in Int
        PROVE  RowOf(c, lay, i) \in Int /\ ColumnOf(c, lay, i) \in Int
    BY <1>1, <1>4 DEF RowOf, ColumnOf, n
  <1>8. ASSUME NEW row \in Int, NEW col \in Int
        PROVE  ItemAt(c, lay, row, col) \in Int
    <2>1. row * lay.columns + col \in Int /\ row + col * n \in Int
      BY <1>1, <1>4
    <2> QED BY <1>1, <1>2, <2>1 DEF ItemAt, n
  <1> QED BY <1>1, <1>4, <1>6, <1>7, <1>8 DEF n

\* A clamped number is in the range.
LEMMA Clamped ==
    ASSUME NEW x \in Int, NEW lo \in Int, NEW hi \in Int, lo <= hi
    PROVE  Clamp(x, lo, hi) \in lo..hi
  BY DEF Clamp

\* collection_move_cursor() comes to an item there is.
LEMMA MovedIsThere ==
    ASSUME NEW c \in Collections, Size(c) # 0, NEW lay \in Layouts, NEW d \in Steps,
           NEW first \in 0..(Rows(c, lay) - 1), NEW last \in {0, Rows(c, lay) - 1}
    PROVE  Moved(c, lay, d, first, last) \in Numbers(c)
  <1> DEFINE from == IF c.cursor = -1 THEN Min({c.old, Size(c) - 1}) ELSE c.cursor
             rows == Rows(c, lay)
             cols == Columns(c, lay)
             row == RowOf(c, lay, from)
             col == ColumnOf(c, lay, from) + d.column
             to == IF from = -1 THEN [row |-> first, col |-> 0]
                   ELSE IF lay.vertical
                   THEN Wrapped(row, Clamp(col, 0, cols - 1), d, first, last, rows, cols)
                   ELSE [row |-> NewRow(row, d, first, last, rows), col |-> col]
  <1>1. d.row \in Int /\ d.column \in Int
    BY ViewsAssumption
  <1>2. Size(c) \in Nat /\ c.cursor \in Int /\ c.old \in Int
    BY MarkedAreNumbers DEF Collections
  <1>3. rows \in Nat \ {0} /\ cols \in Nat \ {0} /\ first \in Int /\ last \in Int
    BY RowsAndColumns
  <1>4. from \in Int
    <2>1. Min({c.old, Size(c) - 1}) \in Int
      BY <1>2, MinOfTwo
    <2> QED BY <1>2, <2>1
  <1> HIDE DEF from
  <1>5. row \in Int /\ col \in Int
    BY <1>1, <1>4, RowsAndColumns
  <1> HIDE DEF row, col, rows, cols
  <1>6. NewRow(row, d, first, last, rows) \in Int
    BY <1>1, <1>3, <1>5 DEF NewRow, Clamp
  <1>7. Clamp(col, 0, cols - 1) \in Int
    BY <1>3, <1>5 DEF Clamp
  <1>8. \A x \in Int : Wrapped(row, x, d, first, last, rows, cols) \in [row : Int, col : Int]
    BY <1>3, <1>5, <1>6 DEF Wrapped
  <1>9. to \in [row : Int, col : Int]
    <2>1. [row |-> first, col |-> 0] \in [row : Int, col : Int]
      BY <1>3
    <2>2. [row |-> NewRow(row, d, first, last, rows), col |-> col] \in [row : Int, col : Int]
      BY <1>5, <1>6
    <2> QED BY <1>7, <1>8, <2>1, <2>2
  <1>10. Moved(c, lay, d, first, last) = Clamp(ItemAt(c, lay, to.row, to.col), 0, Size(c) - 1)
    BY DEF Moved, from, row, col, rows, cols
  <1> HIDE DEF to
  <1>11. ItemAt(c, lay, to.row, to.col) \in Int
    BY <1>9, RowsAndColumns
  <1>12. 0 \in Int /\ Size(c) - 1 \in Int /\ 0 <= Size(c) - 1
    BY <1>2
  <1>13. Clamp(ItemAt(c, lay, to.row, to.col), 0, Size(c) - 1) \in 0..(Size(c) - 1)
    BY <1>11, <1>12, Clamped
  <1> QED BY <1>10, <1>13 DEF Numbers

\* The cursor moves to an item there is, or to item 0 of nothing.
LEMMA CursorHasTargets ==
    ASSUME NEW c, Fit(TRUE, c), NEW i \in CursorTargets(c)
    PROVE  i \in Int /\ (i \in Numbers(c) \/ (c.items = << >> /\ i = 0))
  <1>1. c \in Collections /\ Size(c) \in Nat /\ c.items \in Seq(Item)
    BY MarkedAreNumbers DEF Fit, Counted, Collections
  <1>2. CASE Size(c) = 0
    <2>1. i = 0 /\ c.items = << >>
      BY <1>1, <1>2, EmptySeq DEF CursorTargets, Size
    <2> QED BY <2>1
  <1>3. CASE Size(c) # 0
    <2>1. PICK lay \in Layouts :
            \E d \in Steps, first \in 0..(Rows(c, lay) - 1), last \in {0, Rows(c, lay) - 1} :
              i = Moved(c, lay, d, first, last)
      BY <1>3 DEF CursorTargets
    <2>2. PICK d \in Steps, first \in 0..(Rows(c, lay) - 1), last \in {0, Rows(c, lay) - 1} :
            i = Moved(c, lay, d, first, last)
      BY <2>1
    <2>3. i \in Numbers(c)
      BY <1>1, <1>3, <2>2, MovedIsThere
    <2> QED BY <1>1, <2>3 DEF Numbers
  <1> QED BY <1>2, <1>3
-----------------------------------------------------------------------------
(* Iterators.                                                              *)

Iters(c) == [i : Numbers(c) \cup {-1}, left : Int, back : BOOLEAN, only : BOOLEAN]

\* An iterator on an item has fewer than m to go.
Going(c, m) == {it \in Iters(c) : it.i # -1 => it.left \in 0..(m - 1)}

\* An iterator at its end, and one that has gone m items on to i
AtEnd(it) == [i |-> -1, left |-> 0, back |-> it.back, only |-> it.only]
GoneOn(it, i, m) == [i |-> i, left |-> it.left - m, back |-> it.back, only |-> it.only]

\* at[k] is where the iterator comes to in k steps; the first that it wants is
\* the next item.
Walks(c, it, at) ==
  /\ at[0] = it.i
  /\ \A k \in 0..it.left : at[k] \in Numbers(c)
  /\ \A k \in 1..it.left : at[k] = Neighbour(c, it, at[k - 1])
  /\ LET hits == {k \in 1..it.left : it.only => IsSelected(c, at[k])}
     IN  \/ hits = {} /\ IterNext(c, it) = AtEnd(it)
         \/ \E m \in hits : /\ \A k \in hits : m <= k
                            /\ IterNext(c, it) = GoneOn(it, at[m], m)

\* iter_next() walks over the neighbours to the first that it wants.
LEMMA NextWalks ==
    ASSUME NEW c \in Collections, Size(c) # 0, NEW it \in Iters(c), it.i # -1, it.left \in Nat
    PROVE  \E at : Walks(c, it, at)
  <1> DEFINE left == it.left
             Rounds(at) == at = [k \in 0..it.left |-> IF k = 0 THEN it.i ELSE Neighbour(c, it, at[k - 1])]
             at == CHOOSE at : Rounds(at)
             hits == {k \in 1..it.left : it.only => IsSelected(c, at[k])}
             G == [x \in (1..left) \X Numbers(c) |-> Neighbour(c, it, x[2])]
  <1>1. left \in Nat /\ it.i \in Numbers(c) /\ it.back \in BOOLEAN /\ it.only \in BOOLEAN
    BY DEF Iters
  <1>2. Size(c) \in Nat \ {0} /\ Numbers(c) = 0..(Size(c) - 1)
    BY MarkedAreNumbers DEF Numbers
  <1>3. \A i \in Numbers(c) : Neighbour(c, it, i) \in Numbers(c)
    BY <1>2 DEF Neighbour
  <1>4. PICK f : IsLoop(f, left, it.i, G, Numbers(c))
    <2>1. \A k \in 1..left : \A s \in Numbers(c) : G[<<k, s>>] \in Numbers(c)
      BY <1>3
    <2> HIDE DEF left, G
    <2> QED BY <1>1, <2>1, LoopRuns
  <1>5. Rounds(f)
    <2>1. ASSUME NEW k \in 0..left, k # 0
          PROVE  f[k] = Neighbour(c, it, f[k - 1])
      <3>1. k \in 1..left /\ k - 1 \in 0..left
        BY <1>1, <2>1
      <3>2. f[k - 1] \in Numbers(c) /\ f[k] = G[<<k, f[k - 1]>>]
        BY <1>4, <3>1 DEF IsLoop
      <3> QED BY <3>1, <3>2
    <2> HIDE DEF G
    <2> DEFINE h == [k \in 0..left |-> IF k = 0 THEN it.i ELSE Neighbour(c, it, f[k - 1])]
    <2>2. \A k \in 0..left : f[k] = IF k = 0 THEN it.i ELSE Neighbour(c, it, f[k - 1])
      BY <1>4, <2>1 DEF IsLoop
    <2>3. \A k \in 0..left : f[k] = h[k]
      BY <2>2
    <2>4. f = [k \in 0..left |-> f[k]]
      BY <1>4 DEF IsLoop
    <2>5. f = h
      BY <2>3, <2>4
    <2> QED BY <2>5
  <1>6. IterNext(c, it) = IF hits = {} THEN [it EXCEPT !.i = -1, !.left = 0]
                          ELSE [it EXCEPT !.i = at[Min(hits)], !.left = it.left - Min(hits)]
    BY <1>1 DEF IterNext, Iters
  <1> HIDE DEF at
  <1>7. Rounds(at)
    BY <1>5 DEF at
  <1>8. \A k \in 0..left : at[k] \in Numbers(c)
    <2> DEFINE S == [k \in 0..left |-> Numbers(c)]
    <2>1. at[0] \in S[0]
      BY <1>1, <1>7
    <2>2. \A k \in 1..left : at[k - 1] \in S[k - 1] => at[k] \in S[k]
      BY <1>1, <1>3, <1>7
    <2> HIDE DEF S
    <2>3. \A k \in 0..left : at[k] \in S[k]
      BY <1>1, <2>1, <2>2, LoopInvariant
    <2> QED BY <2>3 DEF S
  <1>9. CASE hits = {}
    <2>1. IterNext(c, it) = [it EXCEPT !.i = -1, !.left = 0]
      BY <1>6, <1>9
    <2>2. IterNext(c, it) = AtEnd(it)
      BY <2>1 DEF Iters, AtEnd
    <2>3. at[0] = it.i /\ \A k \in 1..it.left : at[k] = Neighbour(c, it, at[k - 1])
      BY <1>1, <1>7
    <2> QED BY <1>8, <1>9, <2>2, <2>3 DEF Walks
  <1>10. CASE hits # {}
    <2>1. hits \in SUBSET Nat
      OBVIOUS
    <2> DEFINE Is(k) == \A j \in hits : k =< j
    <2>2. \E k \in hits : Is(k)
      <3> HIDE DEF hits
      <3> QED BY <1>10, <2>1, LeastNumber
    <2>3. (CHOOSE k \in hits : Is(k)) \in hits /\ Is(CHOOSE k \in hits : Is(k))
      <3> HIDE DEF hits
      <3> QED BY <2>2
    <2>4. Min(hits) \in hits /\ \A k \in hits : Min(hits) <= k
      BY <2>3 DEF Min
    <2>5. IterNext(c, it) = [it EXCEPT !.i = at[Min(hits)], !.left = it.left - Min(hits)]
      BY <1>6, <1>10
    <2>6. IterNext(c, it) = GoneOn(it, at[Min(hits)], Min(hits))
      <3> HIDE DEF hits
      <3> QED BY <2>5 DEF Iters, GoneOn
    <2>7. at[0] = it.i /\ \A k \in 1..it.left : at[k] = Neighbour(c, it, at[k - 1])
      BY <1>1, <1>7
    <2> QED BY <1>8, <2>4, <2>6, <2>7 DEF Walks
  <1> QED BY <1>9, <1>10

\* iter_next() comes to an item, with fewer to go, or to the end.
LEMMA NextGoesOn ==
    ASSUME NEW c \in Collections, Size(c) # 0, NEW m \in Int, NEW it \in Going(c, m), it.i # -1
    PROVE  IterNext(c, it) \in Going(c, m - 1)
  <1>1. it \in Iters(c) /\ it.left \in Nat /\ it.left < m /\ it.back \in BOOLEAN /\ it.only \in BOOLEAN
    BY DEF Going, Iters
  <1>2. PICK at : /\ \A k \in 0..it.left : at[k] \in Numbers(c)
                  /\ \/ IterNext(c, it) = AtEnd(it)
                     \/ \E k \in 1..it.left : IterNext(c, it) = GoneOn(it, at[k], k)
    <2>1. PICK at : Walks(c, it, at)
      BY <1>1, NextWalks
    <2> QED BY <2>1 DEF Walks
  <1>3. CASE IterNext(c, it) = AtEnd(it)
    BY <1>1, <1>3 DEF AtEnd, Iters, Going
  <1>4. CASE \E k \in 1..it.left : IterNext(c, it) = GoneOn(it, at[k], k)
    <2>1. PICK k \in 1..it.left : IterNext(c, it) = GoneOn(it, at[k], k)
      BY <1>4
    <2>2. at[k] \in Numbers(c) /\ it.left - k \in Int /\ it.left - k \in 0..(m - 1 - 1)
      BY <1>1, <1>2
    <2> DEFINE next == GoneOn(it, at[k], k)
    <2>3. next \in Iters(c) /\ next.left = it.left - k
      BY <1>1, <2>2 DEF Iters, GoneOn
    <2> HIDE DEF next
    <2> QED BY <2>1, <2>2, <2>3 DEF Going, next
  <1> QED BY <1>2, <1>3, <1>4

\* To have fewer to go is to have few enough.
LEMMA GoingWithin ==
    ASSUME NEW c, NEW m \in Int
    PROVE  Going(c, m - 1) \subseteq Going(c, m)
  BY DEF Going, Iters

\* The first item counts as one of those there are to go.
LEMMA FirstGoes ==
    ASSUME NEW c \in Collections, Size(c) # 0, NEW it \in Iters(c), it.left = Size(c), NEW i \in Numbers(c)
    PROVE  LET first == [it EXCEPT !.i = i, !.left = @ - 1]
           IN  first \in Going(c, Size(c)) /\ first.i # -1
  <1> DEFINE n == Size(c)
             left == it.left - 1
             first == [it EXCEPT !.i = i, !.left = left]
  <1>1. n \in Nat \ {0} /\ Numbers(c) = 0..(n - 1)
    BY MarkedAreNumbers DEF Numbers
  <1>2. left \in Int /\ left \in 0..(n - 1) /\ i \in Numbers(c) \cup {-1} /\ i # -1
    BY <1>1
  <1> HIDE DEF left
  <1>3. first \in Iters(c)
    BY <1>2 DEF Iters
  <1>4. first.i = i /\ first.left = left
    BY DEF Iters
  <1> HIDE DEF first
  <1>5. first.i # -1 => first.left \in 0..(n - 1)
    BY <1>2, <1>4
  <1>6. first \in Going(c, n) /\ first.i # -1
    BY <1>2, <1>3, <1>4, <1>5 DEF Going
  <1> QED BY <1>6 DEF first, left

\* iter_init() comes to an item, or to the end.
LEMMA InitGoes ==
    ASSUME NEW c \in Collections, Size(c) # 0, NEW start, NEW back \in BOOLEAN, NEW only \in BOOLEAN
    PROVE  LET it == IterInit(c, MakeIter(c, back, only), start)
           IN  /\ it \in Going(c, Size(c))
               /\ start.i \in Numbers(c) /\ IsSelected(c, start.i) => it.i # -1
  <1> DEFINE n == Size(c)
             it == MakeIter(c, back, only)
             i == StartItem(c, start, it.back)
             first == [it EXCEPT !.i = i, !.left = @ - 1]
  <1>1. n \in Nat \ {0} /\ Numbers(c) = 0..(n - 1)
    BY MarkedAreNumbers DEF Numbers
  <1>2. i \in Numbers(c)
    BY <1>1 DEF StartItem
  <1>3. it \in Iters(c) /\ it.left = n /\ it.i = -1
    BY <1>1 DEF MakeIter, Iters
  <1>4. IterInit(c, it, start) = IF NoCursor(start) THEN it
                                 ELSE IF it.only /\ ~IsSelected(c, i) THEN IterNext(c, first) ELSE first
    BY DEF IterInit
  <1>0. start.i \in Numbers(c) => i = start.i /\ ~NoCursor(start)
    BY <1>1 DEF StartItem, NoCursor, FromCursor
  <1>7. it \in Going(c, n)
    BY <1>3 DEF Going
  <1> HIDE DEF i, it
  <1>5. first \in Going(c, n) /\ first.i # -1
    BY <1>2, <1>3, FirstGoes
  <1> HIDE DEF first
  <1>6. IterNext(c, first) \in Going(c, n)
    <2>1. IterNext(c, first) \in Going(c, n - 1)
      BY <1>1, <1>5, NextGoesOn
    <2> QED BY <1>1, <2>1, GoingWithin
  <1> QED BY <1>0, <1>3, <1>4, <1>5, <1>6, <1>7 DEF it

\* What a loop over an iterator does: it[k] is the iterator after k rounds,
\* and the loop ends when the iterator comes to its end.
Loops(c, init, visits, it, last) ==
  /\ visits = [k \in 1..last |-> it[k - 1].i]
  /\ it[0] = init
  /\ \A k \in 1..last : it[k] = IterNext(c, it[k - 1])
  /\ \A k \in 0..last : it[k] \in Going(c, Size(c))
  /\ it[last].i = -1 /\ \A k \in 0..(last - 1) : it[k].i # -1

\* What a loop visits is where such a run of the iterator has come to.
LEMMA VisitsRuns ==
    ASSUME NEW c \in Collections, Size(c) # 0, NEW start, NEW back \in BOOLEAN, NEW only \in BOOLEAN
    PROVE  \E it : \E last \in Nat :
             Loops(c, IterInit(c, MakeIter(c, back, only), start), Visits(c, start, back, only), it, last)
  <1> DEFINE n == Size(c)
             init == IterInit(c, MakeIter(c, back, only), start)
             Rounds(it) == it = [k \in 0..(n + 1) |->
               IF k = 0 THEN init
               ELSE IF it[k - 1].i = -1 THEN it[k - 1] ELSE IterNext(c, it[k - 1])]
             it == CHOOSE it : Rounds(it)
             Stops(k) == it[k].i = -1 /\ \A j \in 0..(k - 1) : it[j].i # -1
             last == CHOOSE k \in 0..(n + 1) : Stops(k)
             G == [x \in (1..(n + 1)) \X Going(c, n) |-> IF x[2].i = -1 THEN x[2] ELSE IterNext(c, x[2])]
  <1>0. n \in Nat
    BY MarkedAreNumbers
  <1>13. Visits(c, start, back, only) = [k \in 1..last |-> it[k - 1].i]
    BY DEF Visits
  <1>1. init \in Going(c, n)
    BY InitGoes
  <1> HIDE DEF init
  <1>2. \A m \in Int : \A s \in Going(c, m) :
          (IF s.i = -1 THEN s ELSE IterNext(c, s)) \in Going(c, m - 1)
    <2> SUFFICES ASSUME NEW m \in Int, NEW s \in Going(c, m)
                 PROVE  (IF s.i = -1 THEN s ELSE IterNext(c, s)) \in Going(c, m - 1)
      OBVIOUS
    <2>1. CASE s.i = -1
      BY <2>1 DEF Going
    <2>2. CASE s.i # -1
      BY <2>2, NextGoesOn
    <2> QED BY <2>1, <2>2
  <1>3. PICK f : IsLoop(f, n + 1, init, G, Going(c, n))
    <2>1. \A k \in 1..(n + 1) : \A s \in Going(c, n) : G[<<k, s>>] \in Going(c, n)
      <3>1. \A s \in Going(c, n) : (IF s.i = -1 THEN s ELSE IterNext(c, s)) \in Going(c, n)
        BY <1>0, <1>2, GoingWithin
      <3> QED BY <3>1
    <2>2. n + 1 \in Nat
      BY <1>0
    <2> HIDE DEF G, n
    <2> QED BY <1>1, <2>1, <2>2, LoopRuns
  <1>4. Rounds(f)
    <2>1. ASSUME NEW k \in 0..(n + 1), k # 0
          PROVE  f[k] = IF f[k - 1].i = -1 THEN f[k - 1] ELSE IterNext(c, f[k - 1])
      <3>1. k \in 1..(n + 1) /\ k - 1 \in 0..(n + 1)
        BY <1>0, <2>1
      <3>2. f[k - 1] \in Going(c, n) /\ f[k] = G[<<k, f[k - 1]>>]
        BY <1>3, <3>1 DEF IsLoop
      <3> QED BY <3>1, <3>2
    <2> HIDE DEF G
    <2> DEFINE h == [k \in 0..(n + 1) |->
                       IF k = 0 THEN init
                       ELSE IF f[k - 1].i = -1 THEN f[k - 1] ELSE IterNext(c, f[k - 1])]
    <2>2. \A k \in 0..(n + 1) : f[k] = h[k]
      BY <1>3, <2>1 DEF IsLoop
    <2>3. f = [k \in 0..(n + 1) |-> f[k]]
      BY <1>3 DEF IsLoop
    <2>4. h = [k \in 0..(n + 1) |-> h[k]]
      OBVIOUS
    <2> HIDE DEF h
    <2>5. [k \in 0..(n + 1) |-> f[k]] = [k \in 0..(n + 1) |-> h[k]]
      BY <2>2
    <2>6. f = h
      BY <2>3, <2>4, <2>5, SMTT(40)
    <2> QED BY <2>6 DEF h
  <1> HIDE DEF it
  <1>5. Rounds(it)
    BY <1>4 DEF it
  <1>6. \A k \in 0..(n + 1) : it[k] \in Going(c, n - k)
    <2> DEFINE S == [k \in 0..(n + 1) |-> Going(c, n - k)]
    <2>1. it[0] \in S[0]
      BY <1>0, <1>1, <1>5
    <2>2. ASSUME NEW k \in 1..(n + 1), it[k - 1] \in S[k - 1]
          PROVE  it[k] \in S[k]
      <3>1. k \in 0..(n + 1) /\ k - 1 \in 0..(n + 1) /\ k # 0 /\ n - (k - 1) \in Int
            /\ n - (k - 1) - 1 = n - k
        BY <1>0
      <3>2. it[k - 1] \in Going(c, n - (k - 1))
        BY <2>2, <3>1
      <3>3. it[k] = IF it[k - 1].i = -1 THEN it[k - 1] ELSE IterNext(c, it[k - 1])
        BY <1>5, <3>1
      <3>4. it[k] \in Going(c, n - (k - 1) - 1)
        BY <1>2, <3>1, <3>2, <3>3
      <3> QED BY <3>1, <3>4
    <2> HIDE DEF S, n
    <2>3. n + 1 \in Nat
      BY <1>0
    <2>4. \A k \in 0..(n + 1) : it[k] \in S[k]
      BY <2>1, <2>2, <2>3, LoopInvariant
    <2> QED BY <2>4 DEF S
  <1>7. n \in 0..(n + 1) /\ it[n].i = -1
    <2>1. n \in 0..(n + 1) /\ n - n = 0
      BY <1>0
    <2>2. it[n] \in Going(c, 0)
      BY <1>6, <2>1
    <2> QED BY <2>1, <2>2 DEF Going
  <1> DEFINE K == {k \in 0..(n + 1) : it[k].i = -1}
  <1>8. PICK m \in K : \A k \in K : m <= k
    <2>1. K # {} /\ K \in SUBSET Nat
      BY <1>0, <1>7
    <2> HIDE DEF K
    <2> QED BY <2>1, LeastNumber
  <1>9. m \in 0..(n + 1) /\ Stops(m)
    BY <1>0, <1>8
  <1>10. last \in 0..(n + 1) /\ Stops(last)
    <2> HIDE DEF Stops
    <2> QED BY <1>9
  <1> HIDE DEF last
  <1>11. ASSUME NEW k \in 1..last
         PROVE  it[k] = IterNext(c, it[k - 1])
    <2>1. k \in 0..(n + 1) /\ k # 0 /\ k - 1 \in 0..(last - 1)
      BY <1>0, <1>10
    <2>2. it[k - 1].i # -1
      BY <1>10, <2>1
    <2> QED BY <1>5, <2>1, <2>2
  <1>12. ASSUME NEW k \in 0..last
         PROVE  it[k] \in Going(c, n)
    <2>1. it[k] \in Going(c, n - k) /\ k \in Nat
      BY <1>0, <1>6, <1>10
    <2> QED BY <1>0, <2>1 DEF Going, Iters
  <1>14. it[0] = init
    BY <1>0, <1>5
  <1> DEFINE visits == Visits(c, start, back, only)
  <1> HIDE DEF visits
  <1>15. Loops(c, init, visits, it, last)
    BY <1>10, <1>11, <1>12, <1>13, <1>14 DEF Loops, visits
  <1> QED BY <1>0, <1>10, <1>15 DEF init, visits

\* A loop over an iterator ends, and visits items there are.
LEMMA VisitsItems ==
    ASSUME NEW c \in Collections, NEW start, NEW back \in BOOLEAN, NEW only \in BOOLEAN
    PROVE  LET visits == Visits(c, start, back, only)
           IN  /\ visits \in Seq(Numbers(c))
               /\ start.i \in Numbers(c) /\ IsSelected(c, start.i) => visits # << >>
  <1> DEFINE init == IterInit(c, MakeIter(c, back, only), start)
             visits == Visits(c, start, back, only)
  <1>1. CASE Size(c) = 0
    <2>1. visits = << >> /\ << >> \in Seq(Numbers(c))
      BY <1>1, EmptySeq DEF Visits
    <2>2. Numbers(c) = {}
      BY <1>1 DEF Numbers
    <2> QED BY <2>1, <2>2
  <1>2. CASE Size(c) # 0
    <2>1. start.i \in Numbers(c) /\ IsSelected(c, start.i) => init.i # -1
      BY <1>2, InitGoes
    <2>2. PICK it : \E last \in Nat : Loops(c, init, visits, it, last)
      BY <1>2, VisitsRuns
    <2>3. PICK last \in Nat : Loops(c, init, visits, it, last)
      BY <2>2
    <2> HIDE DEF visits, init
    <2>4. ASSUME NEW k \in 1..last
          PROVE  it[k - 1].i \in Numbers(c)
      <3>1. k - 1 \in 0..(last - 1) /\ k - 1 \in 0..last
        OBVIOUS
      <3> QED BY <2>3, <3>1 DEF Loops, Going, Iters
    <2>5. visits \in Seq(Numbers(c)) /\ Len(visits) = last
      <3> DEFINE v == [k \in 1..last |-> it[k - 1].i]
      <3>1. v \in [1..last -> Numbers(c)]
        BY <2>4
      <3> HIDE DEF v
      <3>2. v \in Seq(Numbers(c)) /\ Len(v) = last
        BY <3>1, ListIsASeq
      <3> QED BY <2>3, <3>2 DEF Loops, v
    <2>6. init.i # -1 => last # 0
      BY <2>3 DEF Loops
    <2>7. Len(<< >>) = 0
      BY EmptySeq
    <2> HIDE DEF visits
    <2> QED BY <2>1, <2>5, <2>6, <2>7 DEF visits
  <1> QED BY <1>1, <1>2
\* Items that an iterator is to visit
Wanted(c, only) == {i \in Numbers(c) : only => IsSelected(c, i)}

\* Items are apart by how far ahead they are, from 0 to the last.
LEMMA AheadCounts ==
    ASSUME NEW c \in Collections, NEW from \in Numbers(c), NEW back \in BOOLEAN
    PROVE  /\ Ahead(c, from, back, from) = 0
           /\ \A i \in Numbers(c) : Ahead(c, from, back, i) \in 0..(Size(c) - 1)
           /\ \A i, j \in Numbers(c) : Ahead(c, from, back, i) = Ahead(c, from, back, j) => i = j
  <1>1. Size(c) \in Nat /\ Numbers(c) = 0..(Size(c) - 1)
    BY MarkedAreNumbers DEF Numbers
  <1> QED BY <1>1, SMTT(40) DEF Ahead

\* The neighbour of an item but the last is one further ahead.
LEMMA NeighbourIsNext ==
    ASSUME NEW c \in Collections, NEW from \in Numbers(c), NEW it \in Iters(c), NEW i \in Numbers(c),
           Ahead(c, from, it.back, i) < Size(c) - 1
    PROVE  Ahead(c, from, it.back, Neighbour(c, it, i)) = Ahead(c, from, it.back, i) + 1
  <1>1. Size(c) \in Nat /\ Numbers(c) = 0..(Size(c) - 1) /\ it.back \in BOOLEAN
    BY MarkedAreNumbers DEF Numbers, Iters
  <1>2. CASE it.back
    BY <1>1, <1>2 DEF Ahead, Neighbour
  <1>3. CASE ~it.back
    BY <1>1, <1>3 DEF Ahead, Neighbour
  <1> QED BY <1>1, <1>2, <1>3

\* An iterator has all items to go that are further ahead than its own.
OnItsWay(c, from, back, only, it) ==
  /\ it \in Iters(c) /\ it.back = back /\ it.only = only
  /\ it.i # -1 => it.left = Size(c) - 1 - Ahead(c, from, back, it.i)

\* iter_next() passes over nothing that is wanted.
LEMMA NextIsNearest ==
    ASSUME NEW c \in Collections, NEW from \in Numbers(c), NEW back \in BOOLEAN, NEW only \in BOOLEAN,
           NEW it, OnItsWay(c, from, back, only, it), it.i # -1
    PROVE  LET next == IterNext(c, it)
           IN  /\ OnItsWay(c, from, back, only, next)
               /\ next.i # -1 => /\ next.i \in Wanted(c, only)
                                 /\ Ahead(c, from, back, it.i) < Ahead(c, from, back, next.i)
               /\ \A j \in Wanted(c, only) :
                    Ahead(c, from, back, it.i) < Ahead(c, from, back, j) =>
                      /\ next.i # -1
                      /\ Ahead(c, from, back, next.i) <= Ahead(c, from, back, j)
  <1> DEFINE n == Size(c)
             A(i) == Ahead(c, from, back, i)
             next == IterNext(c, it)
             left == it.left
  <1>1. n \in Nat /\ n # 0 /\ Numbers(c) = 0..(n - 1)
    BY MarkedAreNumbers DEF Numbers
  <1>2. it \in Iters(c) /\ it.back = back /\ it.only = only /\ it.i \in Numbers(c)
    BY DEF OnItsWay, Iters
  <1>3. \A i \in Numbers(c) : A(i) \in 0..(n - 1)
    BY AheadCounts
  <1>4. left = n - 1 - A(it.i) /\ left \in Nat
    BY <1>1, <1>2, <1>3 DEF OnItsWay
  <1> DEFINE Hits(at) == {k \in 1..left : only => IsSelected(c, at[k])}
  <1>5. PICK at : Walks(c, it, at)
    BY <1>1, <1>2, <1>4, NextWalks
  <1>5a. /\ at[0] = it.i
         /\ \A k \in 0..left : at[k] \in Numbers(c)
         /\ \A k \in 1..left : at[k] = Neighbour(c, it, at[k - 1])
         /\ \/ Hits(at) = {} /\ next = AtEnd(it)
            \/ \E m \in Hits(at) : (\A k \in Hits(at) : m <= k) /\ next = GoneOn(it, at[m], m)
    BY <1>2, <1>5 DEF Walks
  <1> HIDE DEF next
  <1>6. \A k \in 0..left : A(at[k]) = A(it.i) + k
    <2> DEFINE S == [k \in 0..left |-> {i \in Numbers(c) : A(i) = A(it.i) + k}]
    <2>1. at[0] \in S[0]
      BY <1>2, <1>3, <1>4, <1>5a
    <2>2. ASSUME NEW k \in 1..left, at[k - 1] \in S[k - 1]
          PROVE  at[k] \in S[k]
      <3>1. k - 1 \in 0..left /\ k \in 0..left
        BY <1>4
      <3>2. at[k - 1] \in Numbers(c) /\ A(at[k - 1]) = A(it.i) + (k - 1)
        BY <2>2, <3>1
      <3>3. A(it.i) \in 0..(n - 1)
        BY <1>2, <1>3
      <3>4. A(at[k - 1]) < n - 1
        <4> HIDE DEF A, n
        <4> QED BY <1>1, <1>4, <3>2, <3>3
      <3>5. A(Neighbour(c, it, at[k - 1])) = A(at[k - 1]) + 1
        BY <1>2, <3>2, <3>4, NeighbourIsNext
      <3>6. at[k] = Neighbour(c, it, at[k - 1]) /\ at[k] \in Numbers(c)
        BY <1>5a, <3>1
      <3> HIDE DEF A
      <3>7. A(at[k]) = A(it.i) + k
        BY <3>2, <3>3, <3>5, <3>6
      <3> QED BY <3>1, <3>6, <3>7
    <2> HIDE DEF S, left
    <2>3. \A k \in 0..left : at[k] \in S[k]
      BY <1>4, <2>1, <2>2, LoopInvariant
    <2> QED BY <2>3 DEF S
  <1>7. ASSUME NEW j \in Wanted(c, only), A(it.i) < A(j)
        PROVE  \E k \in Hits(at) : at[k] = j /\ A(j) = A(it.i) + k
    <2> DEFINE k == A(j) - A(it.i)
    <2>1. j \in Numbers(c) /\ (only => IsSelected(c, j))
      BY DEF Wanted
    <2>2. A(j) \in 0..(n - 1) /\ A(it.i) \in 0..(n - 1)
      BY <1>2, <1>3, <2>1
    <2> HIDE DEF A, n
    <2>3. k \in 1..left /\ k \in 0..left /\ A(j) = A(it.i) + k
      BY <1>1, <1>4, <1>7, <2>2
    <2> HIDE DEF k
    <2>4. A(at[k]) = A(j) /\ at[k] \in Numbers(c)
      BY <1>5a, <1>6, <2>3
    <2>5. at[k] = j
      BY <2>1, <2>4, AheadCounts DEF A
    <2> QED BY <2>1, <2>3, <2>5
  <1>8. CASE Hits(at) = {} /\ next = AtEnd(it)
    <2>1. OnItsWay(c, from, back, only, next) /\ next.i = -1
      BY <1>2, <1>8 DEF OnItsWay, AtEnd, Iters
    <2> QED BY <1>7, <1>8, <2>1 DEF next
  <1>9. CASE \E m \in Hits(at) : (\A k \in Hits(at) : m <= k) /\ next = GoneOn(it, at[m], m)
    <2>1. PICK m \in Hits(at) : (\A k \in Hits(at) : m <= k) /\ next = GoneOn(it, at[m], m)
      BY <1>9
    <2>2. m \in 1..left /\ m \in 0..left /\ (only => IsSelected(c, at[m]))
      BY <1>4
    <2>3. at[m] \in Numbers(c) /\ A(at[m]) = A(it.i) + m /\ A(it.i) \in 0..(n - 1)
      BY <1>2, <1>3, <1>5a, <1>6, <2>2
    <2>4. /\ next.i = at[m] /\ next.left = left - m /\ next.back = back /\ next.only = only
          /\ left - m \in Int
      BY <1>2, <1>4, <2>1, <2>2 DEF GoneOn
    <2>5. next \in Iters(c)
      BY <1>2, <2>1, <2>3, <2>4 DEF GoneOn, Iters
    <2>6. next.i # -1 /\ next.i \in Wanted(c, only)
      BY <1>1, <2>2, <2>3, <2>4 DEF Wanted
    <2> HIDE DEF A, left, n
    <2>7. left - m = n - 1 - A(at[m]) /\ A(it.i) < A(at[m])
      BY <1>1, <1>4, <2>2, <2>3
    <2>8. OnItsWay(c, from, back, only, next)
      BY <2>4, <2>5, <2>7 DEF OnItsWay, A, n
    <2>9. ASSUME NEW j \in Wanted(c, only), A(it.i) < A(j)
          PROVE  A(at[m]) <= A(j)
      <3>1. PICK k \in Hits(at) : A(j) = A(it.i) + k
        BY <1>7, <2>9
      <3>2. m <= k /\ k \in Nat
        BY <1>4, <2>1
      <3> QED BY <2>2, <2>3, <3>1, <3>2
    <2> QED BY <2>4, <2>6, <2>7, <2>8, <2>9 DEF A, next
  <1> QED BY <1>5a, <1>8, <1>9


\* iter_init() comes to the nearest item that is wanted.
LEMMA InitIsNearest ==
    ASSUME NEW c \in Collections, Size(c) # 0, NEW start, NEW back \in BOOLEAN, NEW only \in BOOLEAN,
           NEW from, from = StartItem(c, start, back), ~NoCursor(start)
    PROVE  LET init == IterInit(c, MakeIter(c, back, only), start)
           IN  /\ from \in Numbers(c)
               /\ OnItsWay(c, from, back, only, init)
               /\ init.i # -1 => init.i \in Wanted(c, only)
               /\ \A j \in Wanted(c, only) :
                    init.i # -1 /\ Ahead(c, from, back, init.i) <= Ahead(c, from, back, j)
  <1> DEFINE n == Size(c)
             A(i) == Ahead(c, from, back, i)
             first == [i |-> from, left |-> n - 1, back |-> back, only |-> only]
             init == IterInit(c, MakeIter(c, back, only), start)
  <1>1. n \in Nat /\ n # 0 /\ Numbers(c) = 0..(n - 1)
    BY MarkedAreNumbers DEF Numbers
  <1>2. from \in Numbers(c) /\ from # -1
    BY <1>1 DEF StartItem
  <1>3. init = IF only /\ ~IsSelected(c, from) THEN IterNext(c, first) ELSE first
    <2> DEFINE new == MakeIter(c, back, only)
               left == new.left - 1
               gone == [new EXCEPT !.i = from, !.left = left]
    <2>1. /\ new \in [i : Int, left : Int, back : BOOLEAN, only : BOOLEAN]
          /\ left = n - 1 /\ new.back = back /\ new.only = only
      BY <1>1 DEF MakeIter
    <2>2. from \in Int /\ n - 1 \in Int
      BY <1>1, <1>2
    <2> HIDE DEF new, left, n
    <2>3. /\ gone \in [i : Int, left : Int, back : BOOLEAN, only : BOOLEAN]
          /\ gone.i = from /\ gone.left = n - 1 /\ gone.back = back /\ gone.only = only
      BY <2>1, <2>2
    <2>4. IterInit(c, new, start) = IF only /\ ~IsSelected(c, from) THEN IterNext(c, gone) ELSE gone
      BY <2>1 DEF IterInit, left
    <2> HIDE DEF gone
    <2>5. gone = first
      <3> HIDE DEF n
      <3> QED BY <2>3
    <2> HIDE DEF first
    <2> QED BY <2>4, <2>5 DEF new
  <1>4. A(from) = 0 /\ \A i \in Numbers(c) : A(i) \in 0..(n - 1) /\ (i # from => A(i) # 0)
    BY <1>2, AheadCounts
  <1>5. OnItsWay(c, from, back, only, first) /\ first.i = from
    <2>1. first \in Iters(c)
      BY <1>1, <1>2 DEF Iters
    <2> QED BY <1>1, <1>4, <2>1 DEF OnItsWay
  <1> HIDE DEF first, init, A, n
  <1>6. CASE only /\ ~IsSelected(c, from)
    <2>1. init = IterNext(c, first)
      BY <1>3, <1>6
    <2>2. /\ OnItsWay(c, from, back, only, init)
          /\ init.i # -1 => init.i \in Wanted(c, only)
          /\ \A j \in Wanted(c, only) : A(from) < A(j) => init.i # -1 /\ A(init.i) <= A(j)
      BY <1>2, <1>5, <2>1, NextIsNearest DEF A
    <2>3. ASSUME NEW j \in Wanted(c, only)
          PROVE  A(from) < A(j)
      <3>1. j \in Numbers(c) /\ j # from
        BY <1>6 DEF Wanted
      <3> QED BY <1>1, <1>4, <3>1
    <2> QED BY <1>2, <2>2, <2>3 DEF init, A
  <1>7. CASE ~(only /\ ~IsSelected(c, from))
    <2>1. init = first
      BY <1>3, <1>7
    <2>2. from \in Wanted(c, only)
      BY <1>2, <1>7 DEF Wanted
    <2>3. \A j \in Wanted(c, only) : A(from) <= A(j)
      BY <1>1, <1>4 DEF Wanted
    <2> QED BY <1>2, <1>5, <2>1, <2>2, <2>3 DEF init, A
  <1> QED BY <1>6, <1>7

\* A loop over an iterator visits what is wanted, each item once, in order.
LEMMA VisitsOnce ==
    ASSUME NEW c \in Collections, NEW start, NEW back \in BOOLEAN, NEW only \in BOOLEAN
    PROVE  LET visits == Visits(c, start, back, only)
               from == StartItem(c, start, back)
           IN  /\ Range(visits) = IF NoCursor(start) THEN {}
                                  ELSE {i \in Numbers(c) : only => IsSelected(c, i)}
               /\ \A j, k \in DOMAIN visits :
                    j < k => Ahead(c, from, back, visits[j]) < Ahead(c, from, back, visits[k])
  <1> DEFINE n == Size(c)
             from == StartItem(c, start, back)
             visits == Visits(c, start, back, only)
             init == IterInit(c, MakeIter(c, back, only), start)
             A(i) == Ahead(c, from, back, i)
             W == Wanted(c, only)
  <1>1. CASE n = 0
    <2>1. visits = << >> /\ Numbers(c) = {}
      BY <1>1 DEF Visits, Numbers
    <2>2. DOMAIN << >> = {}
      BY EmptySeq
    <2> QED BY <2>1, <2>2 DEF Range
  <1>3. CASE n # 0 /\ NoCursor(start)
    <2>1. init.i = -1
      BY <1>3 DEF IterInit, MakeIter
    <2>2. PICK it : \E last \in Nat : Loops(c, init, visits, it, last)
      BY <1>3, VisitsRuns
    <2>3. PICK last \in Nat : Loops(c, init, visits, it, last)
      BY <2>2
    <2> HIDE DEF visits, init
    <2>4. last = 0
      <3> SUFFICES ASSUME last # 0 PROVE FALSE
        OBVIOUS
      <3>1. 0 \in 0..(last - 1)
        OBVIOUS
      <3> QED BY <2>1, <2>3, <3>1 DEF Loops
    <2>5. DOMAIN visits = {}
      BY <2>3, <2>4 DEF Loops
    <2> QED BY <1>3, <2>5 DEF Range, visits
  <1>2. CASE n # 0 /\ ~NoCursor(start)
    <2>1. /\ from \in Numbers(c)
          /\ OnItsWay(c, from, back, only, init)
          /\ init.i # -1 => init.i \in W
          /\ \A j \in W : init.i # -1 /\ A(init.i) <= A(j)
      BY <1>2, InitIsNearest
    <2>2. PICK it : \E last \in Nat : Loops(c, init, visits, it, last)
      BY <1>2, VisitsRuns
    <2>3. PICK last \in Nat : Loops(c, init, visits, it, last)
      BY <2>2
    <2>4. n \in Nat /\ Numbers(c) = 0..(n - 1) /\ W \subseteq Numbers(c)
      BY MarkedAreNumbers DEF Numbers, Wanted
    <2>5. /\ \A i \in Numbers(c) : A(i) \in 0..(n - 1)
          /\ \A i, j \in Numbers(c) : A(i) = A(j) => i = j
      BY <2>1, AheadCounts
    <2> HIDE DEF from, visits, init, A, W, n
    <2> DEFINE Past(k, s) == s.i # -1 => /\ s.i \in W
                                         /\ \A m \in 0..(k - 1) : it[m].i \in W /\ A(it[m].i) < A(s.i)
               Seen(k, s) == \A j \in W : (s.i = -1 \/ A(j) < A(s.i)) =>
                               \E m \in 0..(k - 1) : it[m].i = j
               S == [k \in 0..last |->
                       {s \in Iters(c) : OnItsWay(c, from, back, only, s) /\ Past(k, s) /\ Seen(k, s)}]
    <2>6. \A k \in 0..last : it[k] \in S[k]
      <3>1. it[0] \in S[0]
        <4>1. it[0] = init /\ init \in Iters(c)
          BY <2>1, <2>3 DEF Loops, OnItsWay
        <4>2. Past(0, init)
          BY <2>1
        <4>3. Seen(0, init)
          <5> SUFFICES ASSUME NEW j \in W, init.i = -1 \/ A(j) < A(init.i)
                       PROVE  FALSE
            OBVIOUS
          <5>1. init.i # -1 /\ A(init.i) <= A(j) /\ init.i \in Numbers(c) /\ j \in Numbers(c)
            BY <2>1, <2>4
          <5> QED BY <2>4, <2>5, <5>1
        <4> HIDE DEF Past, Seen
        <4> QED BY <2>1, <4>1, <4>2, <4>3
      <3>2. ASSUME NEW k \in 1..last, it[k - 1] \in S[k - 1]
            PROVE  it[k] \in S[k]
        <4> DEFINE s == it[k - 1]
                   t == it[k]
        <4>1. k - 1 \in 0..(last - 1) /\ k - 1 \in 0..last /\ k \in 0..last
          OBVIOUS
        <4>2. s.i # -1 /\ t = IterNext(c, s)
          BY <2>3, <4>1 DEF Loops
        <4>3. OnItsWay(c, from, back, only, s) /\ Past(k - 1, s) /\ Seen(k - 1, s)
          <5> HIDE DEF Past, Seen
          <5> QED BY <3>2, <4>1
        <4>4. s.i \in W /\ s.i \in Numbers(c)
          BY <2>4, <4>2, <4>3
        <4>5. /\ OnItsWay(c, from, back, only, t)
              /\ t.i # -1 => t.i \in W /\ A(s.i) < A(t.i)
              /\ \A j \in W : A(s.i) < A(j) => t.i # -1 /\ A(t.i) <= A(j)
          BY <2>1, <4>2, <4>3, NextIsNearest DEF A, W
        <4>6. Past(k, t)
          <5> SUFFICES ASSUME t.i # -1
                       PROVE  \A m \in 0..(k - 1) : it[m].i \in W /\ A(it[m].i) < A(t.i)
            BY <4>5
          <5> SUFFICES ASSUME NEW m \in 0..(k - 1)
                       PROVE  it[m].i \in W /\ A(it[m].i) < A(t.i)
            OBVIOUS
          <5>1. t.i \in Numbers(c) /\ A(s.i) < A(t.i) /\ A(t.i) \in Int /\ A(s.i) \in Int
            BY <2>4, <2>5, <4>4, <4>5
          <5>2. CASE m = k - 1
            BY <4>4, <5>1, <5>2
          <5>3. CASE m # k - 1
            <6>1. m \in 0..(k - 1 - 1)
              BY <5>3
            <6>2. it[m].i \in W /\ A(it[m].i) < A(s.i)
              BY <4>2, <4>3, <6>1
            <6>3. A(it[m].i) \in Int
              BY <2>4, <2>5, <6>2
            <6> QED BY <5>1, <6>2, <6>3
          <5> QED BY <5>2, <5>3
        <4>7. Seen(k, t)
          <5> SUFFICES ASSUME NEW j \in W, t.i = -1 \/ A(j) < A(t.i)
                       PROVE  \E m \in 0..(k - 1) : it[m].i = j
            OBVIOUS
          <5>1. j \in Numbers(c) /\ A(j) \in Int /\ A(s.i) \in Int
            BY <2>4, <2>5, <4>4
          <5>2. ~(A(s.i) < A(j))
            <6>1. ASSUME t.i # -1
                  PROVE  A(t.i) \in Int
              BY <2>4, <2>5, <4>5, <6>1
            <6> QED BY <4>5, <5>1, <6>1
          <5>3. CASE A(j) = A(s.i)
            <6>1. j = s.i /\ k - 1 \in 0..(k - 1)
              BY <2>5, <4>1, <4>4, <5>1, <5>3
            <6> QED BY <6>1
          <5>4. CASE A(j) < A(s.i)
            <6>1. PICK m \in 0..(k - 1 - 1) : it[m].i = j
              BY <4>3, <5>4
            <6>2. m \in 0..(k - 1)
              OBVIOUS
            <6> QED BY <6>1, <6>2
          <5> QED BY <5>1, <5>2, <5>3, <5>4
        <4>8. t \in Iters(c)
          BY <4>5 DEF OnItsWay
        <4> HIDE DEF Past, Seen
        <4> QED BY <4>1, <4>5, <4>6, <4>7, <4>8
      <3> HIDE DEF S
      <3> QED BY <3>1, <3>2, LoopInvariant
    <2>7. \A k \in 0..last : Past(k, it[k]) /\ Seen(k, it[k])
      <3> HIDE DEF Past, Seen
      <3> QED BY <2>6
    <2>8. /\ visits = [k \in 1..last |-> it[k - 1].i]
          /\ it[last].i = -1 /\ \A k \in 0..(last - 1) : it[k].i # -1
      BY <2>3 DEF Loops
    <2>9. ASSUME NEW k \in 1..last
          PROVE  visits[k] = it[k - 1].i /\ it[k - 1].i # -1 /\ it[k - 1].i \in W
      <3>1. k - 1 \in 0..(last - 1) /\ k - 1 \in 0..last
        OBVIOUS
      <3> QED BY <2>7, <2>8, <3>1
    <2>10. ASSUME NEW j \in W
           PROVE  \E k \in 1..last : visits[k] = j
      <3>1. PICK m \in 0..(last - 1) : it[m].i = j
        BY <2>7, <2>8
      <3>2. m + 1 \in 1..last /\ visits[m + 1] = it[m].i
        BY <2>8
      <3> QED BY <3>1, <3>2
    <2>11. DOMAIN visits = 1..last
      BY <2>8
    <2>12. Range(visits) = W
      BY <2>9, <2>10, <2>11 DEF Range
    <2>13. ASSUME NEW j \in 1..last, NEW k \in 1..last, j < k
           PROVE  A(visits[j]) < A(visits[k])
      <3>1. j - 1 \in 0..(k - 1 - 1) /\ k - 1 \in 0..last
        BY <2>13
      <3>2. visits[j] = it[j - 1].i /\ visits[k] = it[k - 1].i /\ it[k - 1].i # -1
        BY <2>9
      <3>3. Past(k - 1, it[k - 1])
        BY <2>7, <3>1
      <3> QED BY <3>1, <3>2, <3>3
    <2>14. \A j, k \in DOMAIN visits : j < k => A(visits[j]) < A(visits[k])
      BY <2>11, <2>13
    <2> QED BY <1>2, <2>12, <2>14 DEF visits, A, from, W, Wanted
  <1> QED BY <1>1, <1>2, <1>3
-----------------------------------------------------------------------------
(* A view that takes over.                                                 *)

\* more is out and more of the sort that loses nothing.
GoesOn(out, more) ==
  /\ Len(out) <= Len(more)
  /\ \A k \in 1..Len(out) : more[k] = out[k]
  /\ \A k \in (Len(out) + 1)..Len(more) : more[k] # "lose"

\* The items among the first k that are in keep
KeptOf(c, keep, k) == {i \in Numbers(c) : i < k /\ Data(c, i) \in keep}

RestoredSoFar(filled, keep, k) ==
  {s \in Results : /\ Becomes(filled, s, KeptOf(filled.c, keep, k))
                   /\ GoesOn(filled.out, s.out)
                   /\ Marked(s.c) = {} => s.out = filled.out}

\* One round of the loop that selects in the new view.
LEMMA RestoringOne ==
    ASSUME NEW icons \in BOOLEAN, NEW filled \in Results, NEW keep, filled.c.blocked = 0,
           NEW k \in 1..Size(filled.c), NEW s \in RestoredSoFar(filled, keep, k - 1)
    PROVE  (IF Data(filled.c, k - 1) \in keep THEN SetIn(icons, s, k - 1, TRUE) ELSE s)
             \in RestoredSoFar(filled, keep, k)
  <1> DEFINE c == filled.c
             t == SetIn(icons, s, k - 1, TRUE)
             M == Marking(s.c, k - 1, TRUE)
  <1>1. /\ Becomes(filled, s, KeptOf(c, keep, k - 1)) /\ GoesOn(filled.out, s.out)
        /\ Marked(s.c) = {} => s.out = filled.out
    BY DEF RestoredSoFar
  <1>2. s \in Results /\ Counted(s.c) /\ Marked(s.c) = KeptOf(c, keep, k - 1)
        /\ Alike(c, s.c) /\ s.c.blocked = 0
    BY <1>1 DEF Becomes
  <1>3. Size(c) \in Nat /\ k - 1 \in Numbers(c) /\ Numbers(s.c) = Numbers(c)
    BY <1>2, AlikeShowsAlike, MarkedAreNumbers DEF Results, Numbers
  <1>4. CASE Data(c, k - 1) \notin keep
    <2>1. KeptOf(c, keep, k) = KeptOf(c, keep, k - 1)
      <3>1. \A i \in Numbers(c) : i < k <=> i < k - 1 \/ i = k - 1
        BY <1>3 DEF Numbers
      <3> QED BY <1>4, <3>1 DEF KeptOf
    <2> QED BY <1>4, <2>1 DEF RestoredSoFar
  <1>5. CASE Data(c, k - 1) \in keep
    <2>1. M = KeptOf(c, keep, k) /\ M # Marked(s.c) /\ M # {}
      <3>1. \A i \in Numbers(c) : i < k <=> i < k - 1 \/ i = k - 1
        BY <1>3 DEF Numbers
      <3>2. ~(k - 1 < k - 1)
        OBVIOUS
      <3> QED BY <1>2, <1>3, <1>5, <3>1, <3>2 DEF KeptOf, Marking
    <2>2. Becomes(s, t, M) /\ t.out = ToldOf(icons, s, M)
      BY <1>2, <1>3, <2>1, SetInSets
    <2> HIDE DEF t, M
    <2>3. t.out = Append(s.out, "some")
      BY <1>2, <2>1, <2>2 DEF ToldOf
    <2>4. Becomes(filled, t, M)
      BY <1>1, <2>2, AlikeIsTransitive DEF Becomes
    <2>5. GoesOn(filled.out, t.out)
      <3>1. s.out \in Seq(Tidings) /\ filled.out \in Seq(Tidings) /\ "some" \in Tidings
        BY <1>2 DEF Results, Tidings
      <3>2. /\ Len(Append(s.out, "some")) = Len(s.out) + 1
            /\ \A j \in 1..Len(s.out) : Append(s.out, "some")[j] = s.out[j]
            /\ Append(s.out, "some")[Len(s.out) + 1] = "some"
        BY <3>1, AppendProperties
      <3>3. Len(s.out) \in Nat /\ Len(filled.out) \in Nat
        BY <3>1, LenProperties
      <3> QED BY <1>1, <2>3, <3>2, <3>3 DEF GoesOn
    <2>6. t \in RestoredSoFar(filled, keep, k)
      BY <2>1, <2>2, <2>4, <2>5 DEF RestoredSoFar, Becomes
    <2> QED BY <1>5, <2>6 DEF t
  <1> QED BY <1>4, <1>5

\* The view that takes over selects what it has of keep.
LEMMA RestoredSelects ==
    ASSUME NEW icons \in BOOLEAN, NEW filled \in Results, NEW keep, Counted(filled.c),
           filled.c.blocked = 0, Marked(filled.c) = {}
    PROVE  Restored(icons, filled, keep) \in RestoredSoFar(filled, keep, Size(filled.c))
  <1> DEFINE n == Size(filled.c)
             S == {s \in Results : Counted(s.c) /\ Numbers(s.c) = Numbers(filled.c)}
             Step(k, s) == IF Data(filled.c, k - 1) \in keep THEN SetIn(icons, s, k - 1, TRUE) ELSE s
             G == [x \in (1..n) \X S |-> Step(x[1], x[2])]
             Rounds(f) == f = [k \in 0..n |->
               IF k = 0 THEN filled
               ELSE IF Data(filled.c, k - 1) \in keep THEN SetIn(icons, f[k - 1], k - 1, TRUE)
               ELSE f[k - 1]]
             done == CHOOSE f : Rounds(f)
             T == [k \in 0..n |-> RestoredSoFar(filled, keep, k)]
  <1>0. Restored(icons, filled, keep) = done[n]
    BY DEF Restored
  <1>1. n \in Nat /\ n \in 0..n
    BY MarkedAreNumbers DEF Counted
  <1>2. ASSUME NEW k \in 1..n, NEW s \in S
        PROVE  G[<<k, s>>] = Step(k, s) /\ G[<<k, s>>] \in S
    <2>1. k - 1 \in Numbers(s.c)
      <3>1. k - 1 \in Numbers(filled.c)
        BY <1>1 DEF Numbers
      <3> QED BY <3>1
    <2>2. SetIn(icons, s, k - 1, TRUE) \in S
      <3>1. Becomes(s, SetIn(icons, s, k - 1, TRUE), Marking(s.c, k - 1, TRUE))
        BY <2>1, SetInSets
      <3> DEFINE t == SetIn(icons, s, k - 1, TRUE)
      <3> HIDE DEF t
      <3>2. t \in Results /\ Counted(t.c) /\ Numbers(t.c) = Numbers(s.c)
        BY <3>1, AlikeShowsAlike DEF Becomes, t
      <3>3. t \in S
        BY <3>2
      <3> QED BY <3>3 DEF t
    <2> HIDE DEF S
    <2> QED BY <2>2
  <1>3. PICK f : IsLoop(f, n, filled, G, S)
    <2>1. filled \in S
      OBVIOUS
    <2>2. \A k \in 1..n : \A s \in S : G[<<k, s>>] \in S
      BY <1>2
    <2> HIDE DEF n, S, G
    <2> QED BY <1>1, <2>1, <2>2, LoopRuns
  <1>4. Rounds(f)
    <2>1. ASSUME NEW k \in 0..n, k # 0
          PROVE  f[k] = Step(k, f[k - 1])
      <3>1. k \in 1..n /\ k - 1 \in 0..n
        BY <1>1, <2>1
      <3>2. f[k - 1] \in S /\ f[k] = G[<<k, f[k - 1]>>]
        BY <1>3, <3>1 DEF IsLoop
      <3> HIDE DEF S, G, Step
      <3> QED BY <1>2, <3>1, <3>2
    <2> HIDE DEF n, S, G
    <2> DEFINE h == [k \in 0..n |-> IF k = 0 THEN filled ELSE Step(k, f[k - 1])]
    <2>2. \A k \in 0..n : f[k] = IF k = 0 THEN filled ELSE Step(k, f[k - 1])
      BY <1>3, <2>1 DEF IsLoop
    <2>3. \A k \in 0..n : f[k] = h[k]
      BY <2>2
    <2>4. f = [k \in 0..n |-> f[k]]
      BY <1>3 DEF IsLoop
    <2>5. f = h
      BY <2>3, <2>4
    <2> QED BY <2>5
  <1> HIDE DEF done
  <1>5. Rounds(done)
    BY <1>4 DEF done
  <1>6. done[0] = filled /\ \A k \in 1..n : done[k] = Step(k, done[k - 1])
    <2> HIDE DEF n, S, G, T
    <2>1. 0 \in 0..n /\ \A k \in 1..n : k \in 0..n /\ k # 0
      BY <1>1
    <2> QED BY <1>5, <2>1
  <1>7. done[0] \in T[0]
    <2>1. KeptOf(filled.c, keep, 0) = {}
      BY <1>1 DEF KeptOf, Numbers
    <2>2. filled.out \in Seq(Tidings) /\ Len(filled.out) \in Nat
      BY LenProperties DEF Results
    <2>3. filled \in RestoredSoFar(filled, keep, 0)
      <3>1. GoesOn(filled.out, filled.out)
        BY <2>2 DEF GoesOn
      <3>2. Becomes(filled, filled, KeptOf(filled.c, keep, 0))
        BY <2>1 DEF Becomes, Alike
      <3> QED BY <3>1, <3>2 DEF RestoredSoFar
    <2> QED BY <1>1, <1>6, <2>3
  <1>8. ASSUME NEW k \in 1..n, done[k - 1] \in T[k - 1]
        PROVE  done[k] \in T[k]
    <2>1. k \in 0..n /\ k - 1 \in 0..n /\ k \in 1..Size(filled.c)
      BY <1>1
    <2>2. done[k - 1] \in RestoredSoFar(filled, keep, k - 1)
      BY <1>8, <2>1
    <2>3. Step(k, done[k - 1]) \in RestoredSoFar(filled, keep, k)
      BY <2>1, <2>2, RestoringOne
    <2> QED BY <1>6, <2>1, <2>3
  <1>9. done[n] \in T[n]
    <2> HIDE DEF T, n
    <2>1. \A k \in 0..n : done[k] \in T[k]
      BY <1>1, <1>7, <1>8, LoopInvariant
    <2> QED BY <1>1, <2>1
  <1> QED BY <1>0, <1>1, <1>9

\* The selection may be lost first and made anew.
LEMMA ToldAfterLoss ==
    ASSUME NEW w, NEW o, NEW out \in Seq(Tidings), NEW isTemp, NEW granted, GoesOn(<<"lose">>, out)
    PROVE  Told(w, o, out, isTemp, granted) \in {Quits(w, o), w}
  <1> DEFINE n == Len(out)
             A == [k \in 0..n |-> IF k = 0 THEN {o} ELSE {Quits(w, o), w}]
  <1>1. PICK now : /\ Hears(now, w, o, out, isTemp, granted)
                   /\ Told(w, o, out, isTemp, granted) = now[Len(out)]
    BY HeardInTurn
  <1>2. n \in Nat /\ n >= 1 /\ out[1] = "lose" /\ \A k \in 2..n : out[k] # "lose"
    <2>1. Len(<<"lose">>) = 1 /\ <<"lose">>[1] = "lose" /\ n \in Nat
      BY LenProperties
    <2> QED BY <2>1 DEF GoesOn
  <1>3. \A k \in 0..n : now[k] \in A[k]
    <2>1. now[0] \in A[0]
      BY <1>1, <1>2 DEF Hears
    <2>2. ASSUME NEW k \in 1..n, now[k - 1] \in A[k - 1]
          PROVE  now[k] \in A[k]
      <3>1. now[k] = Heard(w, out[k], now[k - 1], isTemp, granted) /\ k # 0 /\ k \in 0..n
        BY <1>1, <1>2 DEF Hears
      <3>2. CASE k = 1
        <4>1. now[0] = o /\ now[1] = Quits(w, o)
          BY <1>1, <1>2, <3>1, <3>2 DEF Hears, Heard
        <4> QED BY <3>1, <3>2, <4>1
      <3>3. CASE k # 1
        <4>1. k \in 2..n /\ k - 1 # 0 /\ k - 1 \in 0..n
          BY <1>2, <3>3
        <4>2. now[k - 1] \in {Quits(w, o), w} /\ out[k] # "lose"
          BY <1>2, <2>2, <4>1
        <4>3. now[k] \in {now[k - 1], w}
          BY <3>1, <4>2 DEF Heard
        <4> QED BY <3>1, <4>2, <4>3
      <3> QED BY <3>2, <3>3
    <2> HIDE DEF A, n
    <2> QED BY <1>2, <2>1, <2>2, LoopInvariant
  <1>4. n \in 0..n /\ n # 0
    BY <1>2
  <1> QED BY <1>1, <1>3, <1>4

\* Who may own the primary when w's selection was M and is N now
MayOwn(icons, w, o, M, N) ==
  IF N # {} THEN {o, w}
  ELSE IF M = {} THEN {Quits(w, o), o}
  ELSE IF icons THEN {Quits(w, o)} ELSE {Quits(w, o), Nobody}

\* The primary goes where the tidings, fairly told, may take it.
LEMMA ToldFairly ==
    ASSUME NEW w, NEW o, NEW out \in Seq(Tidings), NEW isTemp, NEW granted,
           NEW icons \in BOOLEAN, NEW M, NEW N, Fair(icons, M, out, N)
    PROVE  Told(w, o, out, isTemp, granted) \in MayOwn(icons, w, o, M, N)
  <1> DEFINE t == Told(w, o, out, isTemp, granted)
  <1>1. /\ NoLoss(out) => t \in {o, w}
        /\ EndsInLoss(out) => t \in {Quits(w, o), Nobody}
    BY ToldStays
  <1>2. out = <<"lose">> => t = Quits(w, o)
    BY ToldLost
  <1>3. out = << >> => t = o
    BY ToldNothing
  <1> HIDE DEF t
  <1>4. CASE N # {}
    BY <1>1, <1>4 DEF Fair, MayOwn, t
  <1>5. CASE N = {} /\ M = {}
    BY <1>3, <1>5 DEF Fair, MayOwn, t
  <1>6. CASE N = {} /\ M # {} /\ icons
    BY <1>2, <1>6 DEF Fair, MayOwn, t
  <1>7. CASE N = {} /\ M # {} /\ ~icons
    BY <1>1, <1>7 DEF Fair, MayOwn, t
  <1> QED BY <1>4, <1>5, <1>6, <1>7
-----------------------------------------------------------------------------
(* The invariant.                                                          *)

ViewsInv ==
  /\ TypeOK
  /\ \A w \in Windows : Fit(Icons(w), view[w])

\* A view that fits its kind keeps the invariant.
LEMMA InvKept ==
    ASSUME ViewsInv, NEW w \in Windows, NEW d, NEW k \in {"icons", "list"}, Fit(k = "icons", d),
           view' = [view EXCEPT ![w] = d], kind' = [kind EXCEPT ![w] = k], isDir' = isDir,
           temp' \in [Windows -> BOOLEAN], primary' \in Windows \cup {Nobody, Elsewhere}
    PROVE  ViewsInv'
  <1>1. d \in Collections
    BY DEF Fit, Counted
  <1>2. kind' \in [Windows -> {"icons", "list"}] /\ view' \in [Windows -> Collections]
    BY <1>1 DEF ViewsInv, TypeOK
  <1>3. kind'[w] = k /\ view'[w] = d
    BY DEF ViewsInv, TypeOK
  <1>4. ASSUME NEW v \in Windows
        PROVE  Fit(kind'[v] = "icons", view'[v])
    <2>1. CASE v = w
      BY <1>3, <2>1
    <2>2. CASE v # w
      <3>1. kind'[v] = kind[v] /\ view'[v] = view[v]
        BY <2>2 DEF ViewsInv, TypeOK
      <3>2. Fit(kind[v] = "icons", view[v])
        BY DEF ViewsInv, Icons
      <3> QED BY <3>1, <3>2
    <2> QED BY <2>1, <2>2
  <1>5. ASSUME NEW v \in Windows
        PROVE  LET c == view'[v]
               IN  /\ c.count = Cardinality(Marked(c))
                   /\ c.cursor \in Numbers(c) \cup {-1} \/ (c.items = << >> /\ c.cursor = 0)
                   /\ c.wink \in Numbers(c) \cup {-1}
                   /\ c.blocked = 0
    BY <1>4 DEF Fit, Counted
  <1>6. TypeOK'
    BY <1>2, <1>5 DEF ViewsInv, TypeOK
  <1> QED BY <1>4, <1>6 DEF ViewsInv, Icons

\* Who may own the primary is a window, nobody or elsewhere.
LEMMA OwnersAreOwners ==
    ASSUME NEW o \in Windows \cup {Nobody, Elsewhere}, NEW w \in Windows, NEW icons, NEW M, NEW N
    PROVE  MayOwn(icons, w, o, M, N) \subseteq Windows \cup {Nobody, Elsewhere}
           /\ Quits(w, o) \in Windows \cup {Nobody, Elsewhere}
  BY DEF MayOwn, Quits

\* A view goes on showing the same, and something else is selected.
LEMMA NowSelects ==
    ASSUME ViewsInv, NEW w \in Windows, NEW d, Fit(Icons(w), d), Shown(d) = Shown(view[w]),
           view' = [view EXCEPT ![w] = d], UNCHANGED <<isDir, kind>>,
           temp' \in [Windows -> BOOLEAN],
           primary' \in MayOwn(Icons(w), w, primary, SelectedIn(view[w]), SelectedIn(d))
    PROVE  ViewsInv' /\ Promise!Select(w)
  <1>1. ViewsInv'
    <2>1. kind' = [kind EXCEPT ![w] = kind[w]] /\ kind[w] \in {"icons", "list"}
      BY DEF ViewsInv, TypeOK
    <2>2. primary' \in Windows \cup {Nobody, Elsewhere}
      BY OwnersAreOwners DEF ViewsInv, TypeOK
    <2>3. Fit(kind[w] = "icons", d)
      BY DEF Icons
    <2> QED BY <2>1, <2>2, <2>3, InvKept
  <1> DEFINE shown == [v \in Windows |-> Shown(view[v])]
             selected == [v \in Windows |-> SelectedIn(view[v])]
             atomic == [v \in Windows |-> Icons(v)]
  <1>2. view \in [Windows -> Collections] /\ view'[w] = d
        /\ \A v \in Windows : v # w => view'[v] = view[v]
    BY DEF ViewsInv, TypeOK
  <1>3. SelectedIn(d) \in SUBSET shown[w]
    BY DEF SelectedIn, Marked, Shown
  <1>4. [v \in Windows |-> SelectedIn(view'[v])] = [selected EXCEPT ![w] = SelectedIn(d)]
    BY <1>2
  <1>5. [v \in Windows |-> Shown(view'[v])] = shown /\ [v \in Windows |-> kind'[v] = "icons"] = atomic
    BY <1>2 DEF Icons
  <1>6. primary' \in Promise!Owners(w, SelectedIn(d))
    BY DEF Promise!Owners, Promise!Released, MayOwn, Quits
  <1>7. Promise!Select(w)
    BY <1>3, <1>4, <1>5, <1>6 DEF Promise!Select, Icons
  <1> QED BY <1>1, <1>7

\* An operation of which Picked holds.
LEMMA DidPicks ==
    ASSUME ViewsInv, NEW w \in Windows, NEW s, Picked(Icons(w), view[w], s), NEW isTemp,
           Did(w, s, isTemp), UNCHANGED <<isDir, kind>>, temp' \in [Windows -> BOOLEAN]
    PROVE  ViewsInv' /\ Promise!Select(w)
  <1>1. /\ s \in Results /\ Fit(Icons(w), s.c) /\ Shown(s.c) = Shown(view[w])
        /\ Fair(Icons(w), SelectedIn(view[w]), s.out, SelectedIn(s.c))
    BY DEF Picked
  <1>2. s.out \in Seq(Tidings) /\ Icons(w) \in BOOLEAN
    BY <1>1 DEF Results, Icons
  <1>3. PICK granted \in BOOLEAN : primary' = Told(w, primary, s.out, isTemp, granted)
    BY DEF Did
  <1>4. primary' \in MayOwn(Icons(w), w, primary, SelectedIn(view[w]), SelectedIn(s.c))
    BY <1>1, <1>2, <1>3, ToldFairly
  <1>5. view' = [view EXCEPT ![w] = s.c]
    BY DEF Did
  <1> QED BY <1>1, <1>4, <1>5, NowSelects

\* The same of an operation that leaves temp_item_selected alone,
LEMMA DidOnlyPicks ==
    ASSUME ViewsInv, NEW w \in Windows, NEW s, Picked(Icons(w), view[w], s), DidOnly(w, s)
    PROVE  ViewsInv' /\ Promise!Select(w)
  <1>1. Did(w, s, temp[w]) /\ UNCHANGED <<isDir, kind>> /\ temp' \in [Windows -> BOOLEAN]
    BY DEF DidOnly, ViewsInv, TypeOK
  <1> QED BY <1>1, DidPicks

\* and of one that sets or resets it.
LEMMA BorrowPicks ==
    ASSUME ViewsInv, NEW w \in Windows, NEW s, Picked(Icons(w), view[w], s),
           Borrow(w, s) \/ ForGood(w, s)
    PROVE  ViewsInv' /\ Promise!Select(w)
  <1>1. UNCHANGED <<isDir, kind>> /\ temp' \in [Windows -> BOOLEAN]
    BY DEF Borrow, ForGood, ViewsInv, TypeOK
  <1>2. Did(w, s, TRUE) \/ Did(w, s, FALSE)
    BY DEF Borrow, ForGood
  <1> QED BY <1>1, <1>2, DidPicks

\* The list view selects a single item.
LEMMA DidSelectOnly ==
    ASSUME ViewsInv, NEW w \in Windows, ~Icons(w), NEW i \in Numbers(view[w]), NEW isTemp,
           Did(w, ListSelectOnly(Quiet(view[w]), i), isTemp),
           UNCHANGED <<isDir, kind>>, temp' \in [Windows -> BOOLEAN]
    PROVE  ViewsInv' /\ Promise!SelectOnly(w)
  <1> DEFINE c == view[w]
             s == ListSelectOnly(Quiet(c), i)
  <1>1. Fit(Icons(w), c) /\ Counted(c) /\ c.blocked = 0
    BY DEF ViewsInv, Fit
  <1>2. /\ s \in Results /\ Counted(s.c) /\ Alike(c, s.c) /\ s.c.blocked = 0
        /\ Marked(s.c) = {i}
        /\ s.out = <<"some">> \/ s.out = <<"lose", "some">>
    BY <1>1, ListSelectOnlyChooses
  <1>3. view' = [view EXCEPT ![w] = s.c]
    BY DEF Did
  <1>4. PICK granted \in BOOLEAN : primary' = Told(w, primary, s.out, isTemp, granted)
    BY DEF Did
  <1> HIDE DEF s
  <1> DEFINE d == s.c
             t == [c |-> d, out |-> <<"some">>]
  <1>5. Chosen(FALSE, c, t, {i})
    <2>1. t.c = d /\ t.out = <<"some">> /\ <<"some">> \in Seq(Tidings) /\ NoLoss(<<"some">>)
      BY DEF Tidings, NoLoss
    <2>2. t \in Results
      BY <1>2, <2>1 DEF Results
    <2> HIDE DEF t
    <2>3. Fair(FALSE, Marked(c), t.out, {i})
      <3>1. {i} # {}
        OBVIOUS
      <3> QED BY <2>1, <3>1 DEF Fair
    <2> QED BY <1>2, <2>1, <2>2, <2>3 DEF Chosen
  <1>6. Fit(Icons(w), d) /\ Shown(d) = Shown(c) /\ SelectedIn(d) = {Data(c, i)}
    <2>0. Icons(w) = FALSE
      BY DEF Icons
    <2>1. Picked(Icons(w), c, t)
      BY <1>1, <1>5, <2>0, ChosenIsPicked
    <2>2. SelectedIn(d) = {Data(c, j) : j \in Marked(d)}
      BY <1>2, AlikeShowsAlike
    <2> QED BY <1>2, <2>1, <2>2 DEF Picked
  <1>7. primary' \in {w, primary, Quits(w, primary)}
    <2>1. s.out = <<"lose", "some">> => primary' \in {Quits(w, primary), w}
      BY <1>4, ToldLost
    <2>2. s.out = <<"some">> => primary' \in {primary, w}
      <3>1. <<"some">> \in Seq(Tidings) /\ NoLoss(<<"some">>)
        BY DEF Tidings, NoLoss
      <3> QED BY <1>4, <3>1, ToldStays
    <2> QED BY <1>2, <2>1, <2>2
  <1> HIDE DEF d
  <1>8. ViewsInv'
    <2>1. kind' = [kind EXCEPT ![w] = kind[w]] /\ kind[w] \in {"icons", "list"}
      BY DEF ViewsInv, TypeOK
    <2>2. primary' \in Windows \cup {Nobody, Elsewhere}
      BY <1>7 DEF ViewsInv, TypeOK, Quits
    <2>3. Fit(kind[w] = "icons", d)
      BY <1>6 DEF Icons
    <2> QED BY <1>3, <2>1, <2>2, <2>3, InvKept DEF d
  <1> DEFINE shown == [v \in Windows |-> Shown(view[v])]
             selected == [v \in Windows |-> SelectedIn(view[v])]
             atomic == [v \in Windows |-> Icons(v)]
  <1>9. view \in [Windows -> Collections] /\ view'[w] = d
        /\ \A v \in Windows : v # w => view'[v] = view[v]
    BY <1>3 DEF ViewsInv, TypeOK, d
  <1>10. Data(c, i) \in shown[w]
    BY DEF Shown
  <1>11. [v \in Windows |-> SelectedIn(view'[v])] = [selected EXCEPT ![w] = {Data(c, i)}]
    BY <1>6, <1>9
  <1>12. [v \in Windows |-> Shown(view'[v])] = shown /\ [v \in Windows |-> kind'[v] = "icons"] = atomic
    BY <1>6, <1>9 DEF Icons
  <1>13. primary' \in {w, primary, Promise!Released(w)}
    BY <1>7 DEF Promise!Released, Quits
  <1>14. Promise!SelectOnly(w)
    BY <1>10, <1>11, <1>12, <1>13 DEF Promise!SelectOnly, Icons
  <1> QED BY <1>8, <1>14
-----------------------------------------------------------------------------
(* The user's operations.                                                  *)

\* The cursor, the wink and the order do not matter for what is promised.
LEMMA QuietlyPicked ==
    ASSUME NEW icons, NEW c, NEW d, Fit(icons, d), Shown(d) = Shown(c), SelectedIn(d) = SelectedIn(c)
    PROVE  Picked(icons, c, Quiet(d))
  <1>1. Quiet(d) \in Results /\ Quiet(d).c = d /\ Quiet(d).out = << >>
    BY NothingTold DEF Fit
  <1>2. NoLoss(<< >>)
    BY DEF NoLoss
  <1> HIDE DEF Quiet
  <1> QED BY <1>1, <1>2 DEF Picked, Fair

\* A lasso holds items there are.
LEMMA AreasHaveItems ==
    ASSUME NEW c, NEW lay, NEW area, NEW from, NEW to, NEW invert
    PROVE  InArea(c, lay, area) \subseteq Numbers(c) /\ ListLasso(c, from, to, invert) \subseteq Numbers(c)
  BY DEF InArea, ListLasso, Marked

\* A view and its kind, as the invariant has them
LEMMA ViewsAreFit ==
    ASSUME ViewsInv, NEW w \in Windows
    PROVE  /\ Icons(w) \in BOOLEAN /\ Fit(Icons(w), view[w])
           /\ view[w] \in Collections /\ Counted(view[w]) /\ view[w].blocked = 0
           /\ Icons(w) => Fit(TRUE, view[w])
           /\ Picked(Icons(w), view[w], Now(w))
           /\ Marked(view[w]) \subseteq Numbers(view[w])
  <1>1. Icons(w) \in BOOLEAN
    BY DEF Icons
  <1>2. Fit(Icons(w), view[w])
    BY DEF ViewsInv
  <1>3. Fit(TRUE, view[w])
    BY <1>2 DEF Fit
  <1>4. Picked(Icons(w), view[w], Now(w))
    BY <1>2, QuietlyPicked DEF Now
  <1> QED BY <1>1, <1>2, <1>3, <1>4 DEF Fit, Counted, Marked

\* Setting, clearing and selecting all are picked.
LEMMA SimplePicks ==
    ASSUME ViewsInv, NEW w \in Windows
    PROVE  LET c == view[w]
           IN  /\ \A i \in Numbers(c), on \in BOOLEAN : /\ Picked(Icons(w), c, Set(w, Now(w), i, on))
                                                        /\ Numbers(Set(w, Now(w), i, on).c) = Numbers(c)
               /\ Picked(Icons(w), c, Cleared(w, Now(w)))
               /\ Picked(Icons(w), c, All(w, Now(w)))
               /\ \A which \in SUBSET Numbers(c) : Picked(Icons(w), c, SelectIf(w, Now(w), which))
               /\ Icons(w) => \A i \in Numbers(c) : Picked(Icons(w), c, Only(w, Now(w), i))
  <1> DEFINE c == view[w]
             icons == Icons(w)
  <1>1. icons \in BOOLEAN /\ Fit(icons, c) /\ Counted(c) /\ c.blocked = 0
    BY ViewsAreFit
  <1>2. ASSUME NEW i \in Numbers(c), NEW on \in BOOLEAN
        PROVE  Picked(icons, c, Set(w, Now(w), i, on)) /\ Numbers(Set(w, Now(w), i, on).c) = Numbers(c)
    <2>1. Chosen(icons, c, SetIn(icons, Quiet(c), i, on), Marking(c, i, on))
      BY <1>1, SetChooses
    <2> QED BY <1>1, <2>1, ChosenIsPicked DEF Set, Now
  <1>3. Picked(icons, c, Cleared(w, Now(w)))
    <2>1. Chosen(icons, c, ClearedIn(icons, Quiet(c)), {})
      BY <1>1, ClearingChooses
    <2>2. Cleared(w, Now(w)) = ClearedIn(icons, Quiet(c))
      BY DEF Cleared, ClearedIn, Now
    <2> QED BY <1>1, <2>1, <2>2, ChosenIsPicked
  <1>4. Picked(icons, c, All(w, Now(w)))
    <2>1. Chosen(icons, c, AllIn(icons, Quiet(c)), Numbers(c))
      BY <1>1, AllChooses
    <2>2. All(w, Now(w)) = AllIn(icons, Quiet(c))
      BY DEF All, AllIn, Now
    <2> QED BY <1>1, <2>1, <2>2, ChosenIsPicked
  <1>5. ASSUME NEW which \in SUBSET Numbers(c)
        PROVE  Picked(icons, c, SelectIf(w, Now(w), which))
    <2>1. Chosen(icons, c, SelectIf(w, Quiet(c), which), which)
      BY <1>1, SelectIfChooses
    <2> QED BY <1>1, <2>1, ChosenIsPicked DEF Now
  <1>6. ASSUME icons, NEW i \in Numbers(c)
        PROVE  Picked(icons, c, Only(w, Now(w), i))
    <2>1. Chosen(TRUE, c, ClearExcept(Quiet(c), i), {i})
      BY <1>1, ClearExceptChooses
    <2>2. Only(w, Now(w), i) = ClearExcept(Quiet(c), i) /\ icons = TRUE
      BY <1>1, <1>6 DEF Only, Now
    <2> QED BY <1>1, <2>1, <2>2, ChosenIsPicked
  <1> QED BY <1>2, <1>3, <1>4, <1>5, <1>6

\* What Choose does, for the abstract view
Chooses(w) == Promise!Select(w) \/ Promise!SelectOnly(w)

\* Escape takes the cursor off and clears.
LEMMA EscapeChooses ==
    ASSUME ViewsInv, NEW w \in Windows, Escape(w)
    PROVE  ViewsInv' /\ Chooses(w)
  <1> DEFINE c == view[w]
             d == IF Icons(w) THEN SetCursor(c, -1) ELSE c
             s == ClearedIn(Icons(w), Quiet(d))
  <1>1. Icons(w) \in BOOLEAN /\ Fit(Icons(w), c) /\ (Icons(w) => Fit(TRUE, c))
    BY ViewsAreFit
  <1>2. Fit(Icons(w), d) /\ Shown(d) = Shown(c) /\ SelectedIn(d) = SelectedIn(c)
    <2>1. CASE Icons(w)
      <3>1. Icons(w) = TRUE
        BY <1>1, <2>1
      <3>2. -1 \in Int /\ -1 \in Numbers(c) \cup {-1}
        OBVIOUS
      <3>3. Fit(TRUE, SetCursor(c, -1)) /\ Shown(SetCursor(c, -1)) = Shown(c)
            /\ SelectedIn(SetCursor(c, -1)) = SelectedIn(c)
        BY <1>1, <2>1, <3>2, CursorPut
      <3> QED BY <3>1, <3>3
    <2>2. CASE ~Icons(w)
      BY <1>1, <2>2
    <2> QED BY <2>1, <2>2
  <1>3. DidOnly(w, s)
    <2>1. [Now(w) EXCEPT !.c = IF Icons(w) THEN SetCursor(@, -1) ELSE @] = Quiet(d)
      BY DEF Now, Quiet
    <2> HIDE DEF d
    <2> QED BY <2>1 DEF Escape, Cleared, ClearedIn
  <1> HIDE DEF d
  <1>4. Picked(Icons(w), d, s)
    <2>1. Counted(d) /\ d.blocked = 0
      BY <1>2 DEF Fit
    <2>2. Chosen(Icons(w), d, s, {})
      BY <1>1, <2>1, ClearingChooses
    <2> HIDE DEF s
    <2> QED BY <1>2, <2>2, ChosenIsPicked
  <1> HIDE DEF s
  <1>5. Picked(Icons(w), c, s)
    BY <1>2, <1>4 DEF Picked
  <1> QED BY <1>3, <1>5, DidOnlyPicks DEF Chooses

\* A lasso selects what it holds.
LEMMA LassoChooses ==
    ASSUME ViewsInv, NEW w \in Windows, Lasso(w)
    PROVE  ViewsInv' /\ Chooses(w)
  <1> DEFINE c == view[w]
  <1>1. Icons(w) \in BOOLEAN /\ Fit(Icons(w), c) /\ Counted(c) /\ c.blocked = 0
    BY ViewsAreFit
  <1>2. CASE Icons(w)
    <2>1. PICK invert \in BOOLEAN, lay \in Layouts, area \in Areas :
            DidOnly(w, ProcessArea(Now(w), InArea(c, lay, area), invert))
      BY <1>2 DEF Lasso
    <2>2. InArea(c, lay, area) \in SUBSET Numbers(c)
      BY AreasHaveItems
    <2>3. PICK N \in SUBSET Numbers(c) :
            Chosen(TRUE, c, ProcessArea(Quiet(c), InArea(c, lay, area), invert), N)
      BY <1>1, <2>2, ProcessAreaChooses
    <2>4. Icons(w) = TRUE
      BY <1>1, <1>2
    <2>5. Picked(Icons(w), c, ProcessArea(Now(w), InArea(c, lay, area), invert))
      BY <1>1, <2>3, <2>4, ChosenIsPicked DEF Now
    <2> QED BY <2>1, <2>5, DidOnlyPicks DEF Chooses
  <1>3. CASE ~Icons(w)
    <2>1. PICK invert \in BOOLEAN, from \in Numbers(c), to \in 0..Size(c) :
            DidOnly(w, SelectIf(w, Now(w), ListLasso(c, from, to, invert)))
      BY <1>3 DEF Lasso
    <2>2. ListLasso(c, from, to, invert) \in SUBSET Numbers(c)
      BY AreasHaveItems
    <2>3. Picked(Icons(w), c, SelectIf(w, Now(w), ListLasso(c, from, to, invert)))
      BY <2>2, SimplePicks
    <2> QED BY <2>1, <2>3, DidOnlyPicks DEF Chooses
  <1> QED BY <1>2, <1>3

\* A cursor key moves the cursor, and with shift or ctrl sets an item.
LEMMA CursorKeyChooses ==
    ASSUME ViewsInv, NEW w \in Windows, CursorKey(w)
    PROVE  ViewsInv' /\ Chooses(w)
  <1> DEFINE c == view[w]
  <1>1. Icons(w) = TRUE /\ Fit(TRUE, c) /\ Picked(TRUE, c, Now(w))
    BY ViewsAreFit DEF CursorKey
  <1>2. PICK i \in CursorTargets(c), key \in {"none", "shift", "ctrl"} :
          DidOnly(w, MoveCursor(Now(w), i, IF Size(c) = 0 THEN "none" ELSE key))
    BY DEF CursorKey
  <1>3. i \in Int /\ (i \in Numbers(c) \/ (c.items = << >> /\ i = 0))
    BY <1>1, CursorHasTargets
  <1> DEFINE k == IF Size(c) = 0 THEN "none" ELSE key
             s == IF k = "shift" THEN SetSelected(Now(w), i, TRUE, TRUE)
                  ELSE IF k = "ctrl" THEN SetSelected(Now(w), i, FALSE, TRUE) ELSE Now(w)
  <1>4. Picked(TRUE, c, s)
    <2>1. CASE k = "none"
      BY <1>1, <2>1
    <2>2. CASE k # "none"
      <3>1. i \in Numbers(c)
        BY <1>3, <2>2, EmptySeq DEF Size
      <3>2. \A on \in BOOLEAN : Picked(Icons(w), c, Set(w, Now(w), i, on))
        BY <3>1, SimplePicks
      <3>3. \A on \in BOOLEAN : Set(w, Now(w), i, on) = SetSelected(Now(w), i, on, TRUE)
        BY <1>1 DEF Set, SetIn
      <3>4. Picked(TRUE, c, SetSelected(Now(w), i, TRUE, TRUE))
            /\ Picked(TRUE, c, SetSelected(Now(w), i, FALSE, TRUE))
        BY <1>1, <3>2, <3>3
      <3> QED BY <1>1, <3>4
    <2> QED BY <2>1, <2>2
  <1> DEFINE t == [s EXCEPT !.c = SetCursor(@, i)]
  <1>5. DidOnly(w, t)
    BY <1>2 DEF MoveCursor
  <1> HIDE DEF s
  <1>6. i \in Numbers(s.c) \cup {-1} \/ (s.c.items = << >> /\ i = 0)
    <2>1. CASE i \in Numbers(c)
      <3>1. CASE k = "none"
        BY <2>1, <3>1 DEF s, Now, Quiet
      <3>2. CASE k # "none"
        <4>1. /\ Numbers(SetSelected(Now(w), i, TRUE, TRUE).c) = Numbers(c)
              /\ Numbers(SetSelected(Now(w), i, FALSE, TRUE).c) = Numbers(c)
          <5>1. \A on \in BOOLEAN : Numbers(Set(w, Now(w), i, on).c) = Numbers(c)
            BY <2>1, SimplePicks
          <5>2. \A on \in BOOLEAN : Set(w, Now(w), i, on) = SetSelected(Now(w), i, on, TRUE)
            BY <1>1 DEF Set, SetIn
          <5> QED BY <5>1, <5>2
        <4>2. s = SetSelected(Now(w), i, TRUE, TRUE) \/ s = SetSelected(Now(w), i, FALSE, TRUE)
          BY <3>2 DEF s
        <4> QED BY <2>1, <4>1, <4>2
      <3> QED BY <3>1, <3>2
    <2>2. CASE c.items = << >> /\ i = 0
      <3>1. Size(c) = 0
        BY <2>2, EmptySeq DEF Size
      <3> QED BY <2>2, <3>1 DEF s, Now, Quiet
    <2> QED BY <1>3, <2>1, <2>2
  <1>7. Picked(TRUE, c, t)
    BY <1>3, <1>4, <1>6, CursorPutThen
  <1> HIDE DEF t
  <1> QED BY <1>1, <1>5, <1>7, DidOnlyPicks DEF Chooses

\* view_get_cursor() finds the item the cursor is on.
LEMMA CursorItemIs ==
    ASSUME NEW c \in Collections,
           c.cursor \in Numbers(c) \cup {-1} \/ (c.items = << >> /\ c.cursor = 0)
    PROVE  CursorItem(c) = IF c.cursor \in Numbers(c) THEN c.cursor ELSE -1
  <1>1. Size(c) \in Nat /\ Numbers(c) = 0..(Size(c) - 1)
    BY MarkedAreNumbers DEF Numbers
  <1>2. CASE Size(c) = 0
    BY <1>1, <1>2 DEF CursorItem
  <1>3. CASE Size(c) # 0
    <2> DEFINE new == [MakeIter(c, FALSE, FALSE) EXCEPT !.left = 1]
               at == FromCursor(c.cursor)
    <2>1. c.items # << >>
      BY <1>3, EmptySeq DEF Size
    <2>2. /\ new.i = -1 /\ new.only = FALSE /\ new.back = FALSE
          /\ [new EXCEPT !.i = c.cursor, !.left = @ - 1].i = c.cursor
          /\ at.i = c.cursor /\ (NoCursor(at) <=> c.cursor = -1)
      <3>1. /\ new.i = -1 /\ new.only = FALSE /\ new.back = FALSE
            /\ [new EXCEPT !.i = c.cursor, !.left = @ - 1].i = c.cursor
        <4> DEFINE made == MakeIter(c, FALSE, FALSE)
        <4>1. made.i = -1 /\ made.only = FALSE /\ made.back = FALSE /\ DOMAIN made = {"i", "left", "back", "only"}
          BY DEF MakeIter
        <4> HIDE DEF made
        <4>2. new = [made EXCEPT !.left = 1]
          BY DEF made
        <4> HIDE DEF new
        <4>3. new.i = made.i /\ new.only = made.only /\ new.back = made.back /\ DOMAIN new = DOMAIN made
          BY <4>1, <4>2
        <4>4. [new EXCEPT !.i = c.cursor, !.left = @ - 1].i = c.cursor
          BY <4>1, <4>3
        <4> QED BY <4>1, <4>3, <4>4
      <3>2. at.i = c.cursor
        BY DEF FromCursor
      <3>3. NoCursor(at) => c.cursor = -1
        <4>1. FromCursor(-1).i = -1
          BY DEF FromCursor
        <4>2. HAVE NoCursor(at)
        <4>3. at = FromCursor(-1)
          BY <4>2 DEF NoCursor
        <4> HIDE DEF at
        <4> QED BY <3>2, <4>1, <4>3
      <3>4. c.cursor = -1 => NoCursor(at)
        BY Zenon DEF NoCursor
      <3> QED BY <3>1, <3>2, <3>3, <3>4
    <2>3. CursorItem(c) = IterInit(c, new, at).i
      BY <1>3 DEF CursorItem
    <2> HIDE DEF new, at
    <2>4. CASE c.cursor = -1
      <3>1. IterInit(c, new, at) = new
        BY <2>2, <2>4 DEF IterInit
      <3> QED BY <1>1, <2>2, <2>3, <2>4, <3>1
    <2>5. CASE c.cursor \in Numbers(c)
      <3>1. ~NoCursor(at) /\ StartItem(c, at, FALSE) = c.cursor
        BY <1>1, <2>2, <2>5 DEF StartItem
      <3>2. IterInit(c, new, at) = [new EXCEPT !.i = c.cursor, !.left = @ - 1]
        BY <2>2, <3>1 DEF IterInit
      <3> QED BY <2>2, <2>3, <2>5, <3>2
    <2> QED BY <2>1, <2>4, <2>5
  <1> QED BY <1>2, <1>3

\* Tab moves the cursor to an item there is: it skips the selected item it is
\* on, which the iterator visits first.
LEMMA NextSelectedChooses ==
    ASSUME ViewsInv, NEW w \in Windows, NextSelected(w)
    PROVE  ViewsInv' /\ Chooses(w)
  <1> DEFINE c == view[w]
             here == CursorItem(c)
             start == IF here # -1 THEN FromCursor(c.cursor) ELSE FromEnd
             visits(back) == Visits(c, start, back, TRUE)
             others(back) == IF here # -1 /\ IsSelected(c, here) THEN Tail(visits(back)) ELSE visits(back)
  <1>1. Icons(w) = TRUE /\ Fit(TRUE, c) /\ c \in Collections
    BY ViewsAreFit DEF NextSelected
  <1>2. PICK back \in BOOLEAN : others(back) # << >> /\ DidOnly(w, Quiet(SetCursor(c, Head(others(back)))))
    BY DEF NextSelected
  <1> DEFINE v == visits(back)
             o == others(back)
  <1>10. here = IF c.cursor \in Numbers(c) THEN c.cursor ELSE -1
    BY <1>1, CursorItemIs DEF Fit
  <1>3. v \in Seq(Numbers(c)) /\ (here # -1 /\ IsSelected(c, here) => v # << >>)
    <2>1. here # -1 => start.i = here /\ here \in Numbers(c)
      BY <1>10 DEF FromCursor
    <2> HIDE DEF here, start
    <2> QED BY <1>1, <2>1, VisitsItems
  <1>4. o = v \/ o = Tail(v)
    OBVIOUS
  <1>9. v # << >> \/ o = v
    BY <1>3
  <1>5. o # << >> /\ DidOnly(w, Quiet(SetCursor(c, Head(o))))
    BY <1>2
  <1> HIDE DEF v, o
  <1>6. Head(o) \in Numbers(c)
    <2>1. v # << >>
      BY <1>9, <1>5
    <2>2. o \in Seq(Numbers(c))
      BY <1>3, <1>4, <2>1, HeadTailProperties
    <2> QED BY <1>5, <2>2, HeadTailProperties
  <1>7. Head(o) \in Int
    BY <1>6 DEF Numbers
  <1>8. Picked(TRUE, c, Quiet(SetCursor(c, Head(o))))
    BY <1>1, <1>6, <1>7, CursorPut, QuietlyPicked
  <1> QED BY <1>1, <1>5, <1>8, DidOnlyPicks DEF Chooses

\* The space key sets the item at the cursor and moves on.
LEMMA ToggleChooses ==
    ASSUME ViewsInv, NEW w \in Windows, ToggleAtCursor(w)
    PROVE  ViewsInv' /\ Chooses(w)
  <1> DEFINE c == view[w]
             visits == Visits(c, FromCursor(c.cursor), FALSE, FALSE)
             i == visits[1]
             on == ~IsSelected(c, i)
             r == Set(w, Now(w), i, on)
             s == IF Len(visits) > 1 THEN [r EXCEPT !.c = SetCursor(@, visits[2])] ELSE r
  <1>1. Icons(w) = TRUE /\ Fit(TRUE, c) /\ Counted(c) /\ c \in Collections /\ c.blocked = 0
    BY ViewsAreFit DEF ToggleAtCursor
  <1>8. visits # << >> /\ DidOnly(w, s)
    BY DEF ToggleAtCursor
  <1>3. on \in BOOLEAN
    OBVIOUS
  <1>4. visits \in Seq(Numbers(c))
    BY <1>1, VisitsItems
  <1> HIDE DEF visits, on
  <1>2. i \in Numbers(c) /\ DidOnly(w, s)
    BY <1>4, <1>8
  <1> HIDE DEF i
  <1>5. Picked(Icons(w), c, r) /\ Numbers(r.c) = Numbers(c)
    BY <1>2, <1>3, SimplePicks
  <1> HIDE DEF r
  <1>6. Picked(TRUE, c, r) /\ Numbers(r.c) = Numbers(c)
    BY <1>1, <1>5
  <1>7. Picked(TRUE, c, s)
    <2>1. CASE Len(visits) > 1
      <3>1. visits[2] \in Numbers(c)
        BY <1>4, <2>1, LenProperties
      <3>2. visits[2] \in Int
        BY <3>1 DEF Numbers
      <3>3. Picked(TRUE, c, [r EXCEPT !.c = SetCursor(@, visits[2])])
        BY <1>6, <3>1, <3>2, CursorPutThen
      <3> QED BY <2>1, <3>3
    <2>2. CASE ~(Len(visits) > 1)
      BY <1>6, <2>2
    <2> QED BY <2>1, <2>2
  <1> HIDE DEF s
  <1> QED BY <1>1, <1>2, <1>7, DidOnlyPicks DEF Chooses

\* A drag selects what it drags.
LEMMA DragBeginChooses ==
    ASSUME ViewsInv, NEW w \in Windows, DragBegin(w)
    PROVE  ViewsInv' /\ Chooses(w)
  <1>1. PICK i \in Numbers(view[w]) :
          \/ Borrow(w, Only(w, Now(w), i))
          \/ Borrow(w, Set(w, Now(w), i, TRUE))
          \/ DidOnly(w, Set(w, Now(w), i, TRUE))
    BY DEF DragBegin
  <1>2. Picked(Icons(w), view[w], Set(w, Now(w), i, TRUE))
    BY SimplePicks
  <1>3. CASE Borrow(w, Only(w, Now(w), i))
    <2>1. CASE Icons(w)
      <3>1. Picked(Icons(w), view[w], Only(w, Now(w), i))
        BY <2>1, SimplePicks
      <3> QED BY <1>3, <3>1, BorrowPicks DEF Chooses
    <2>2. CASE ~Icons(w)
      <3>1. Did(w, ListSelectOnly(Quiet(view[w]), i), TRUE)
        BY <1>3, <2>2 DEF Borrow, Only, Now
      <3>2. UNCHANGED <<isDir, kind>> /\ temp' \in [Windows -> BOOLEAN]
        BY <1>3 DEF Borrow, ViewsInv, TypeOK
      <3> QED BY <2>2, <3>1, <3>2, DidSelectOnly DEF Chooses
    <2> QED BY <2>1, <2>2
  <1>4. CASE Borrow(w, Set(w, Now(w), i, TRUE))
    BY <1>2, <1>4, BorrowPicks DEF Chooses
  <1>5. CASE DidOnly(w, Set(w, Now(w), i, TRUE))
    BY <1>2, <1>5, DidOnlyPicks DEF Chooses
  <1> QED BY <1>1, <1>3, <1>4, <1>5

\* A click selects one item.
LEMMA ClickOnlyChooses ==
    ASSUME ViewsInv, NEW w \in Windows, ClickOnly(w)
    PROVE  ViewsInv' /\ Chooses(w)
  <1>1. PICK i \in Numbers(view[w]) : DidOnly(w, Only(w, Now(w), i))
    BY DEF ClickOnly
  <1>2. CASE Icons(w)
    <2>1. Picked(Icons(w), view[w], Only(w, Now(w), i))
      BY <1>2, SimplePicks
    <2> QED BY <1>1, <2>1, DidOnlyPicks DEF Chooses
  <1>3. CASE ~Icons(w)
    <2>1. Did(w, ListSelectOnly(Quiet(view[w]), i), temp[w])
      BY <1>1, <1>3 DEF DidOnly, Only, Now
    <2>2. UNCHANGED <<isDir, kind>> /\ temp' \in [Windows -> BOOLEAN]
      BY <1>1 DEF DidOnly, ViewsInv, TypeOK
    <2> QED BY <1>3, <2>1, <2>2, DidSelectOnly DEF Chooses
  <1> QED BY <1>2, <1>3

\* The target is selected, to be cleared at once.
LEMMA TargetChooses ==
    ASSUME ViewsInv, NEW w \in Windows, TargetChosen(w)
    PROVE  ViewsInv' /\ Chooses(w)
  <1> DEFINE c == view[w]
  <1>1. PICK i \in Numbers(c) : Did(w, Cleared(w, Only(w, Now(w), i)), TRUE)
    BY DEF TargetChosen
  <1>2. Icons(w) \in BOOLEAN /\ Fit(Icons(w), c) /\ Counted(c) /\ c.blocked = 0
    BY ViewsAreFit
  <1> DEFINE s == Only(w, Now(w), i)
             t == ClearedIn(Icons(w), s)
  <1>3. s \in Results /\ Counted(s.c) /\ Alike(c, s.c) /\ s.c.blocked = 0 /\ Marked(s.c) = {i}
    <2>1. CASE Icons(w)
      <3>1. Chosen(TRUE, c, ClearExcept(Quiet(c), i), {i})
        BY <1>2, ClearExceptChooses
      <3> QED BY <2>1, <3>1 DEF Chosen, Only, Now
    <2>2. CASE ~Icons(w)
      <3> DEFINE u == ListSelectOnly(Quiet(c), i)
      <3>1. u \in Results /\ Counted(u.c) /\ Alike(c, u.c) /\ u.c.blocked = 0 /\ Marked(u.c) = {i}
        BY <1>2, ListSelectOnlyChooses
      <3> QED BY <2>2, <3>1 DEF Only, Now
    <2> QED BY <2>1, <2>2
  <1> HIDE DEF s
  <1>4. Becomes(s, t, {}) /\ t.out = Append(s.out, "lose")
    BY <1>2, <1>3, ClearedClears
  <1>5. Did(w, t, TRUE)
    BY <1>1 DEF Cleared, ClearedIn, s
  <1> HIDE DEF t
  <1>6. t \in Results /\ Counted(t.c) /\ Alike(c, t.c) /\ t.c.blocked = 0 /\ Marked(t.c) = {}
    BY <1>3, <1>4, AlikeIsTransitive DEF Becomes
  <1>7. Fit(Icons(w), t.c) /\ Shown(t.c) = Shown(c) /\ SelectedIn(t.c) = {}
    BY <1>2, <1>6, AlikeFits, NoneSelected
  <1>8. t.out \in Seq(Tidings) /\ EndsInLoss(t.out)
    <2>1. s.out \in Seq(Tidings)
      BY <1>3 DEF Results
    <2> QED BY <1>4, <2>1, ToldMore
  <1>9. primary' = Quits(w, primary)
    <2>1. PICK granted \in BOOLEAN : primary' = Told(w, primary, t.out, TRUE, granted)
      BY <1>5 DEF Did
    <2> QED BY <1>8, <2>1, ToldStays
  <1>10. primary' \in MayOwn(Icons(w), w, primary, SelectedIn(c), SelectedIn(t.c))
    BY <1>7, <1>9 DEF MayOwn
  <1>11. view' = [view EXCEPT ![w] = t.c] /\ UNCHANGED <<isDir, kind>> /\ temp' \in [Windows -> BOOLEAN]
    BY <1>5 DEF Did, TargetChosen, ViewsInv, TypeOK
  <1> QED BY <1>7, <1>10, <1>11, NowSelects DEF Chooses

\* The user selects, whatever he does.
LEMMA ChooseChooses ==
    ASSUME ViewsInv, NEW w \in Windows, Choose(w)
    PROVE  ViewsInv' /\ Chooses(w)
  <1> DEFINE c == view[w]
  <1>0. /\ Icons(w) \in BOOLEAN /\ Fit(Icons(w), c) /\ Picked(Icons(w), c, Now(w))
        /\ Marked(c) \subseteq Numbers(c)
    BY ViewsAreFit
  <1>1. CASE ClickItem(w)
    <2>1. PICK i \in Numbers(c), on \in BOOLEAN : DidOnly(w, Set(w, Now(w), i, on))
      BY <1>1 DEF ClickItem
    <2>2. Picked(Icons(w), c, Set(w, Now(w), i, on))
      BY SimplePicks
    <2> DEFINE s == Set(w, Now(w), i, on)
    <2> HIDE DEF s
    <2>3. DidOnly(w, s) /\ Picked(Icons(w), c, s)
      BY <2>1, <2>2, Zenon DEF s
    <2> QED BY <2>3, DidOnlyPicks DEF Chooses
  <1>2. CASE ClickOnly(w)
    BY <1>2, ClickOnlyChooses
  <1>3. CASE Escape(w)
    BY <1>3, EscapeChooses
  <1>4. CASE MenuSelectAll(w)
    BY <1>4, SimplePicks, BorrowPicks DEF MenuSelectAll, Chooses
  <1>5. CASE MenuClear(w)
    BY <1>5, SimplePicks, BorrowPicks DEF MenuClear, Chooses
  <1>6. CASE MenuInvert(w)
    BY <1>6, SimplePicks, BorrowPicks DEF MenuInvert, Chooses
  <1>7. CASE MenuShell(w)
    BY <1>0, <1>7, BorrowPicks DEF MenuShell, Chooses
  <1>8. CASE SelectMatching(w)
    BY <1>8, SimplePicks, DidOnlyPicks DEF SelectMatching, Chooses
  <1>9. CASE Lasso(w)
    BY <1>9, LassoChooses
  <1>10. CASE CursorKey(w)
    BY <1>10, CursorKeyChooses
  <1>11. CASE PutCursor(w)
    <2>1. PICK i \in Numbers(c) \cup {-1} : DidOnly(w, Quiet(SetCursor(c, i)))
      BY <1>11 DEF PutCursor
    <2>2. Icons(w) = TRUE /\ Fit(TRUE, c)
      BY <1>11, ViewsAreFit DEF PutCursor
    <2>3. i \in Int
      BY DEF Numbers
    <2>4. Picked(TRUE, c, Quiet(SetCursor(c, i)))
      BY <2>2, <2>3, CursorPut, QuietlyPicked
    <2> QED BY <2>1, <2>2, <2>4, DidOnlyPicks DEF Chooses
  <1>12. CASE WinkItem(w)
    <2>1. PICK i \in Numbers(c) \cup {-1} : DidOnly(w, Quiet(Wink(c, i)))
      BY <1>12 DEF WinkItem
    <2>2. Icons(w) = TRUE /\ Fit(TRUE, c)
      BY <1>12, ViewsAreFit DEF WinkItem
    <2>3. Picked(TRUE, c, Quiet(Wink(c, i)))
      BY <2>2, WinkPut, QuietlyPicked
    <2> QED BY <2>1, <2>2, <2>3, DidOnlyPicks DEF Chooses
  <1>13. CASE NextSelected(w)
    BY <1>13, NextSelectedChooses
  <1>14. CASE ToggleAtCursor(w)
    BY <1>14, ToggleChooses
  <1>15. CASE DragBegin(w)
    BY <1>15, DragBeginChooses
  <1>16. CASE PopUpMenu(w)
    <2>1. CASE ForGood(w, Now(w))
      BY <1>0, <2>1, BorrowPicks DEF Chooses
    <2>2. CASE \E i \in Numbers(c) : Borrow(w, Set(w, Now(w), i, TRUE))
      BY <2>2, SimplePicks, BorrowPicks DEF Chooses
    <2> QED BY <1>16, <2>1, <2>2 DEF PopUpMenu
  <1>17. CASE GiveBack(w)
    <2>1. Did(w, Cleared(w, Now(w)), TRUE) /\ UNCHANGED <<isDir, kind>> /\ temp' \in [Windows -> BOOLEAN]
      BY <1>17 DEF GiveBack, ViewsInv, TypeOK
    <2> QED BY <2>1, SimplePicks, DidPicks DEF Chooses
  <1>18. CASE TargetChosen(w)
    BY <1>18, TargetChooses
  <1> QED
    BY <1>1, <1>2, <1>3, <1>4, <1>5, <1>6, <1>7, <1>8, <1>9, <1>10, <1>11, <1>12, <1>13,
       <1>14, <1>15, <1>16, <1>17, <1>18 DEF Choose
-----------------------------------------------------------------------------
(* The directory's operations, and a new view.                             *)

\* Only w changes, to what d shows.
Shows(w, d) ==
  /\ [v \in Windows |-> Shown(view'[v])]
       = [[v \in Windows |-> Shown(view[v])] EXCEPT ![w] = Shown(d)]
  /\ [v \in Windows |-> SelectedIn(view'[v])]
       = [[v \in Windows |-> SelectedIn(view[v])] EXCEPT ![w] = SelectedIn(d)]

\* What the abstract view sees of a step of w's.
LEMMA NowShows ==
    ASSUME ViewsInv, NEW w \in Windows, NEW d, NEW k \in {"icons", "list"},
           view' = [view EXCEPT ![w] = d], kind' = [kind EXCEPT ![w] = k]
    PROVE  /\ Shows(w, d)
           /\ [v \in Windows |-> kind'[v] = "icons"]
                = [[v \in Windows |-> kind[v] = "icons"] EXCEPT ![w] = (k = "icons")]
  <1>0. view \in [Windows -> Collections] /\ view'[w] = d
        /\ \A v \in Windows : v # w => view'[v] = view[v]
    BY DEF ViewsInv, TypeOK
  <1>1. kind \in [Windows -> {"icons", "list"}] /\ kind'[w] = k
        /\ \A v \in Windows : v # w => kind'[v] = kind[v]
    BY DEF ViewsInv, TypeOK
  <1>2. [v \in Windows |-> Shown(view'[v])]
          = [[v \in Windows |-> Shown(view[v])] EXCEPT ![w] = Shown(d)]
    BY <1>0
  <1>3. [v \in Windows |-> SelectedIn(view'[v])]
          = [[v \in Windows |-> SelectedIn(view[v])] EXCEPT ![w] = SelectedIn(d)]
    BY <1>0
  <1> DEFINE Is(x) == x = "icons"
  <1> HIDE DEF Is
  <1>4. [v \in Windows |-> Is(kind'[v])] = [[v \in Windows |-> Is(kind[v])] EXCEPT ![w] = Is(k)]
    BY <1>1
  <1> USE DEF Is
  <1>5. Shows(w, d)
    BY <1>2, <1>3 DEF Shows
  <1> QED BY <1>4, <1>5, Zenon

\* The kind of view does not change in a step of its own.
LEMMA SameKind ==
    ASSUME ViewsInv, NEW w \in Windows, NEW d, kind' = kind, view' = [view EXCEPT ![w] = d]
    PROVE  /\ Shows(w, d)
           /\ [v \in Windows |-> kind'[v] = "icons"] = [v \in Windows |-> kind[v] = "icons"]
           /\ isDir' = isDir /\ Fit(Icons(w), d) /\ temp' \in [Windows -> BOOLEAN]
              /\ primary' \in Windows \cup {Nobody, Elsewhere} => ViewsInv'
  <1>1. kind' = [kind EXCEPT ![w] = kind[w]] /\ kind[w] \in {"icons", "list"}
    BY DEF ViewsInv, TypeOK
  <1>2. ASSUME isDir' = isDir, Fit(Icons(w), d), temp' \in [Windows -> BOOLEAN],
               primary' \in Windows \cup {Nobody, Elsewhere}
        PROVE  ViewsInv'
    <2>1. Fit(kind[w] = "icons", d)
      BY <1>2 DEF Icons
    <2> QED BY <1>1, <1>2, <2>1, InvKept
  <1>3. Shows(w, d)
    BY <1>1, NowShows
  <1>4. [v \in Windows |-> kind'[v] = "icons"] = [v \in Windows |-> kind[v] = "icons"]
    <2>1. \A v \in Windows : kind'[v] = kind[v]
      OBVIOUS
    <2> QED BY <2>1, Zenon
  <1> QED BY <1>2, <1>3, <1>4

\* What a view tells fairly of what it has come to
LEMMA DidFairly ==
    ASSUME ViewsInv, NEW w \in Windows, NEW s \in Results,
           Fair(Icons(w), SelectedIn(view[w]), s.out, SelectedIn(s.c)), DidOnly(w, s)
    PROVE  /\ view' = [view EXCEPT ![w] = s.c] /\ kind' = kind /\ isDir' = isDir
           /\ temp' \in [Windows -> BOOLEAN] /\ primary' \in Windows \cup {Nobody, Elsewhere}
           /\ primary' \in Promise!Owners(w, SelectedIn(s.c))
           /\ s.out = << >> => primary' = primary
  <1>1. /\ view' = [view EXCEPT ![w] = s.c] /\ kind' = kind /\ isDir' = isDir
        /\ temp' \in [Windows -> BOOLEAN]
    BY DEF DidOnly, Did, ViewsInv, TypeOK
  <1>2. s.out \in Seq(Tidings) /\ Icons(w) \in BOOLEAN
    BY DEF Results, Icons
  <1>3. PICK granted \in BOOLEAN : primary' = Told(w, primary, s.out, temp[w], granted)
    BY DEF DidOnly, Did
  <1>4. primary' \in MayOwn(Icons(w), w, primary, SelectedIn(view[w]), SelectedIn(s.c))
    BY <1>2, <1>3, ToldFairly
  <1>5. primary' \in Windows \cup {Nobody, Elsewhere}
    BY <1>4, OwnersAreOwners DEF ViewsInv, TypeOK
  <1>6. primary' \in Promise!Owners(w, SelectedIn(s.c))
    BY <1>4 DEF Promise!Owners, Promise!Released, MayOwn, Quits
  <1>7. s.out = << >> => primary' = primary
    BY <1>3, ToldNothing
  <1> QED BY <1>1, <1>5, <1>6, <1>7

\* The files of a view are files, and the selected ones are shown.
LEMMA ShownAreFiles ==
    ASSUME NEW c \in Collections
    PROVE  Shown(c) \subseteq Files /\ SelectedIn(c) \subseteq Shown(c)
  <1>1. \A i \in Numbers(c) : c.items[i + 1] \in Item
    BY MarkedAreNumbers
  <1> QED BY <1>1 DEF Shown, SelectedIn, Marked, Data, Item

\* Items come unselected.
LEMMA AddItemsShows ==
    ASSUME ViewsInv, NEW w \in Windows, AddItems(w)
    PROVE  ViewsInv' /\ Promise!ShowMore(w) /\ Stays(view[w], view'[w])
  <1> DEFINE c == view[w]
  <1>0. PICK new \in SUBSET (Files \ Shown(c)) :
          \E p \in Orders(WithItems(c, SetToSeq(new)).items) :
            DidOnly(w, Quiet(SortedAs(w, WithItems(c, SetToSeq(new)), p)))
    BY DEF AddItems
  <1>1. PICK p \in Orders(WithItems(c, SetToSeq(new)).items) :
          DidOnly(w, Quiet(SortedAs(w, WithItems(c, SetToSeq(new)), p)))
    BY <1>0
  <1> DEFINE e == WithItems(c, SetToSeq(new))
             d == SortedIn(Icons(w), e, p)
  <1>2. Icons(w) \in BOOLEAN /\ Fit(Icons(w), c) /\ c \in Collections
    BY ViewsAreFit
  <1>3. new \in SUBSET Files /\ IsFiniteSet(new)
    BY ViewsAssumption, FS_Subset
  <1>4. /\ Fit(Icons(w), e) /\ Shown(e) = Shown(c) \cup new /\ SelectedIn(e) = SelectedIn(c)
        /\ Numbers(c) \subseteq Numbers(e) /\ \A i \in Numbers(c) : Data(e, i) = Data(c, i)
        /\ e.cursor = c.cursor /\ e.wink = c.wink
    BY <1>2, <1>3, ItemsAdded
  <1>5. DidOnly(w, Quiet(d))
    BY <1>1 DEF SortedAs, SortedIn
  <1> HIDE DEF e
  <1>6. Fit(Icons(w), d) /\ Shown(d) = Shown(e) /\ SelectedIn(d) = SelectedIn(e) /\ Follows(e, d)
    <2>1. p \in Orders(e.items)
      BY <1>1 DEF e
    <2> QED BY <1>2, <1>4, <2>1, SortedFits
  <1> HIDE DEF d
  <1>7. Quiet(d) \in Results /\ Quiet(d).c = d /\ Quiet(d).out = << >>
        /\ Fair(Icons(w), SelectedIn(c), Quiet(d).out, SelectedIn(d))
    <2>1. Counted(d) /\ d.blocked = 0
      BY <1>6 DEF Fit
    <2>2. NoLoss(<< >>)
      BY DEF NoLoss
    <2>3. Quiet(d) \in Results /\ Quiet(d).c = d /\ Quiet(d).out = << >>
      BY <2>1, NothingTold
    <2> QED BY <1>4, <1>6, <2>2, <2>3 DEF Fair
  <1> DEFINE s == Quiet(d)
  <1> HIDE DEF s
  <1>8. /\ view' = [view EXCEPT ![w] = d] /\ kind' = kind /\ isDir' = isDir
        /\ temp' \in [Windows -> BOOLEAN] /\ primary' \in Windows \cup {Nobody, Elsewhere}
        /\ primary' = primary
    BY <1>5, <1>7, DidFairly DEF s
  <1>9. /\ Shows(w, d)
        /\ [v \in Windows |-> kind'[v] = "icons"] = [v \in Windows |-> kind[v] = "icons"]
        /\ ViewsInv'
    BY <1>6, <1>8, SameKind
  <1>10. Shown(d) \in SUBSET Files /\ Shown(c) \subseteq Shown(d) /\ SelectedIn(d) = SelectedIn(c)
    BY <1>2, <1>3, <1>4, <1>6, ShownAreFiles
  <1>11. Promise!ShowMore(w)
    <2> DEFINE shown == [v \in Windows |-> Shown(view[v])]
               now == Shown(d)
    <2>1. shown[w] \subseteq now /\ now \in SUBSET Files
      BY <1>10
    <2>2. [v \in Windows |-> Shown(view'[v])] = [shown EXCEPT ![w] = now]
      BY <1>9 DEF Shows
    <2>3. [v \in Windows |-> SelectedIn(view'[v])] = [v \in Windows |-> SelectedIn(view[v])]
      BY <1>9, <1>10 DEF Shows
    <2> HIDE DEF now
    <2> QED BY <1>8, <1>9, <2>1, <2>2, <2>3 DEF Promise!ShowMore, Icons
  <1>12. Stays(c, d)
    <2>1. c.wink # -1 => c.wink \in Numbers(c)
      BY <1>2 DEF Fit
    <2> QED BY <1>4, <1>6, <2>1 DEF Stays, OnSameFile, Follows
  <1>13. view'[w] = d
    BY <1>8 DEF ViewsInv, TypeOK
  <1> QED BY <1>9, <1>11, <1>12, <1>13

\* Items that are sorted anew stay as they are.
LEMMA UpdateItemsSelects ==
    ASSUME ViewsInv, NEW w \in Windows, NEW p \in Orders(view[w].items),
           DidOnly(w, Quiet(SortedAs(w, view[w], p)))
    PROVE  ViewsInv' /\ Promise!Select(w) /\ Stays(view[w], view'[w])
  <1> DEFINE c == view[w]
             d == SortedIn(Icons(w), c, p)
  <1>1. Icons(w) \in BOOLEAN /\ Fit(Icons(w), c)
    BY ViewsAreFit
  <1>2. DidOnly(w, Quiet(d))
    BY DEF SortedAs, SortedIn
  <1>3. Fit(Icons(w), d) /\ Shown(d) = Shown(c) /\ SelectedIn(d) = SelectedIn(c) /\ Follows(c, d)
    BY <1>1, SortedFits
  <1> HIDE DEF d
  <1>4. ViewsInv' /\ Promise!Select(w)
    <2>1. Picked(Icons(w), c, Quiet(d))
      BY <1>3, QuietlyPicked
    <2> QED BY <1>2, <2>1, DidOnlyPicks
  <1>5. Stays(c, d)
    <2>1. c.wink # -1 => c.wink \in Numbers(c)
      BY <1>1 DEF Fit
    <2> QED BY <1>3, <2>1 DEF Stays, OnSameFile, Follows
  <1>6. view'[w] = d
    BY <1>2 DEF DidOnly, Did, Quiet, ViewsInv, TypeOK
  <1> QED BY <1>4, <1>5, <1>6

\* Items go, and the others stay as they are.
LEMMA RemoveItemsShows ==
    ASSUME ViewsInv, NEW w \in Windows, RemoveItems(w)
    PROVE  ViewsInv' /\ Promise!ShowLess(w) /\ (Icons(w) => Stays(view[w], view'[w]))
  <1> DEFINE c == view[w]
  <1>0. PICK gone \in SUBSET Shown(c) : \E p \in Rest(c, gone) : DidOnly(w, Without(w, Now(w), gone, p))
    BY DEF RemoveItems
  <1>1. PICK p \in Rest(c, gone) : DidOnly(w, Without(w, Now(w), gone, p))
    BY <1>0
  <1>2. Icons(w) \in BOOLEAN /\ Fit(Icons(w), c) /\ c \in Collections
    BY ViewsAreFit
  <1> DEFINE s == WithoutIn(Icons(w), Quiet(c), gone, p)
             d == s.c
  <1>3. /\ s \in Results /\ Fit(Icons(w), d)
        /\ Shown(d) = Shown(c) \ gone /\ SelectedIn(d) = SelectedIn(c) \ gone
        /\ Fair(Icons(w), SelectedIn(c), s.out, SelectedIn(d))
        /\ Icons(w) /\ c.cursor \in Numbers(c) /\ Data(c, c.cursor) \notin gone
             => d.cursor \in Numbers(d) /\ Data(d, d.cursor) = Data(c, c.cursor)
        /\ d.wink = -1 \/ d = c
    BY <1>2, DeletedFits
  <1>4. DidOnly(w, s)
    BY <1>1 DEF Without, WithoutIn, Now
  <1> HIDE DEF s
  <1>5. /\ view' = [view EXCEPT ![w] = d] /\ kind' = kind /\ isDir' = isDir
        /\ temp' \in [Windows -> BOOLEAN] /\ primary' \in Windows \cup {Nobody, Elsewhere}
        /\ primary' \in Promise!Owners(w, SelectedIn(d))
    BY <1>3, <1>4, DidFairly
  <1> HIDE DEF d
  <1>6. /\ Shows(w, d)
        /\ [v \in Windows |-> kind'[v] = "icons"] = [v \in Windows |-> kind[v] = "icons"]
        /\ ViewsInv'
    BY <1>3, <1>5, SameKind
  <1>7. Shown(d) \in SUBSET Shown(c) /\ SelectedIn(d) = SelectedIn(c) \cap Shown(d)
    BY <1>2, <1>3, ShownAreFiles
  <1>8. Promise!ShowLess(w)
    <2> DEFINE shown == [v \in Windows |-> Shown(view[v])]
               selected == [v \in Windows |-> SelectedIn(view[v])]
               now == Shown(d)
    <2>1. shown[w] = Shown(c) /\ selected[w] = SelectedIn(c)
      OBVIOUS
    <2>2. now \in SUBSET shown[w]
      BY <1>7
    <2>3. [v \in Windows |-> Shown(view'[v])] = [shown EXCEPT ![w] = now]
      BY <1>6 DEF Shows
    <2>4. [v \in Windows |-> SelectedIn(view'[v])] = [selected EXCEPT ![w] = selected[w] \cap now]
      BY <1>6, <1>7, <2>1 DEF Shows
    <2>5. primary' \in Promise!Owners(w, selected[w] \cap now)
      BY <1>5, <1>7, <2>1
    <2>6. [v \in Windows |-> kind'[v] = "icons"] = [v \in Windows |-> kind[v] = "icons"]
      BY <1>6
    <2> QED BY <2>2, <2>3, <2>4, <2>5, <2>6 DEF Promise!ShowLess, Icons
  <1>9. Icons(w) => Stays(c, d)
    <2>1. \A i \in Numbers(c) : Data(c, i) \in Shown(d) => Data(c, i) \notin gone
      BY <1>3
    <2>2. c.wink # -1 => c.wink \in Numbers(c)
      BY <1>2 DEF Fit
    <2> QED BY <1>3, <2>1, <2>2 DEF Stays, OnSameFile
  <1>10. view'[w] = d
    BY <1>5 DEF ViewsInv, TypeOK
  <1> QED BY <1>6, <1>8, <1>9, <1>10

\* A view that shows something else is emptied and filled anew.
LEMMA ResyncRenews ==
    ASSUME ViewsInv, NEW w \in Windows, Resync(w)
    PROVE  ViewsInv' /\ (Promise!Renew(w) \/ Promise!Select(w))
  <1> DEFINE c == view[w]
             e == WithoutIn(Icons(w), Quiet(c), Shown(c), << >>)
  <1>1. PICK known \in SUBSET Files :
          \/ \E p \in Orders(c.items) : DidOnly(w, Quiet(SortedAs(w, c, p)))
          \/ \E p \in Orders(WithItems(e.c, SetToSeq(known)).items) :
               DidOnly(w, [e EXCEPT !.c = SortedAs(w, WithItems(e.c, SetToSeq(known)), p)])
    BY DEF Resync, Without, WithoutIn, Now
  <1>2. CASE \E p \in Orders(c.items) : DidOnly(w, Quiet(SortedAs(w, c, p)))
    BY <1>2, UpdateItemsSelects
  <1> DEFINE f == WithItems(e.c, SetToSeq(known))
  <1>3. CASE \E p \in Orders(f.items) : DidOnly(w, [e EXCEPT !.c = SortedAs(w, f, p)])
    <2>1. Icons(w) \in BOOLEAN /\ Fit(Icons(w), c) /\ c \in Collections
      BY ViewsAreFit
    <2>2. /\ e \in Results /\ Fit(Icons(w), e.c) /\ Shown(e.c) = {} /\ SelectedIn(e.c) = {}
          /\ Fair(Icons(w), SelectedIn(c), e.out, {})
      <3>1. << >> \in Rest(c, Shown(c))
        BY <2>1, NothingRests
      <3>2. SelectedIn(c) \ Shown(c) = {}
        BY <2>1, ShownAreFiles
      <3> HIDE DEF e
      <3>3. /\ e \in Results /\ Fit(Icons(w), e.c) /\ Shown(e.c) = Shown(c) \ Shown(c)
            /\ SelectedIn(e.c) = SelectedIn(c) \ Shown(c)
            /\ Fair(Icons(w), SelectedIn(c), e.out, SelectedIn(e.c))
        BY <2>1, <3>1, DeletedFits DEF e
      <3> QED BY <3>2, <3>3
    <2> HIDE DEF e
    <2>3. Fit(Icons(w), f) /\ Shown(f) = known /\ SelectedIn(f) = {}
      <3>1. IsFiniteSet(known)
        BY ViewsAssumption, FS_Subset
      <3>2. Shown(f) = Shown(e.c) \cup known /\ SelectedIn(f) = SelectedIn(e.c) /\ Fit(Icons(w), f)
        BY <2>2, <3>1, ItemsAdded
      <3> QED BY <2>2, <3>2
    <2> HIDE DEF f
    <2>4. PICK p \in Orders(f.items) : DidOnly(w, [e EXCEPT !.c = SortedAs(w, f, p)])
      BY <1>3
    <2> DEFINE d == SortedIn(Icons(w), f, p)
               s == [e EXCEPT !.c = d]
    <2>5. Fit(Icons(w), d) /\ Shown(d) = known /\ SelectedIn(d) = {}
      BY <2>1, <2>3, SortedFits
    <2>6. DidOnly(w, s)
      BY <2>4 DEF SortedAs, SortedIn
    <2> HIDE DEF d
    <2>7. s \in Results /\ s.c = d /\ s.out = e.out
      BY <2>2, <2>5 DEF Results, Fit, Counted
    <2> HIDE DEF s
    <2>8. /\ view' = [view EXCEPT ![w] = d] /\ kind' = kind /\ isDir' = isDir
          /\ temp' \in [Windows -> BOOLEAN] /\ primary' \in Windows \cup {Nobody, Elsewhere}
          /\ primary' \in Promise!Owners(w, SelectedIn(d))
      BY <2>2, <2>5, <2>6, <2>7, DidFairly
    <2>9. /\ Shows(w, d)
          /\ [v \in Windows |-> kind'[v] = "icons"] = [v \in Windows |-> kind[v] = "icons"]
          /\ ViewsInv'
      BY <2>5, <2>8, SameKind
    <2>10. Promise!Renew(w)
      BY <2>5, <2>8, <2>9 DEF Promise!Renew, Icons, Shows
    <2> QED BY <2>9, <2>10
  <1> QED BY <1>1, <1>2, <1>3

\* Who owns the primary when another view has taken over
LEMMA SwitchTold ==
    ASSUME NEW w, NEW o, NEW out \in Seq(Tidings), NEW isTemp, NEW granted, NEW icons \in BOOLEAN,
           NEW M, NEW N, NEW gone, gone = IF icons /\ M # {} THEN <<"lose">> ELSE << >>,
           GoesOn(gone, out), N = {} => out = gone, M = {} => N = {}
    PROVE  Told(w, o, out, isTemp, granted)
             \in MayOwn(icons, w, o, M, N) \cup {IF icons THEN Quits(w, o) ELSE o}
  <1> DEFINE t == Told(w, o, out, isTemp, granted)
  <1>1. out = << >> => t = o
    BY ToldNothing
  <1>2. out = <<"lose">> => t = Quits(w, o)
    BY ToldLost
  <1>3. gone = <<"lose">> => t \in {Quits(w, o), w}
    BY ToldAfterLoss
  <1>4. gone = << >> => t \in {o, w}
    <2>1. gone = << >> => NoLoss(out)
      <3>1. Len(<< >>) = 0
        BY EmptySeq
      <3> QED BY <3>1 DEF GoesOn, NoLoss
    <2> QED BY <2>1, ToldStays
  <1> HIDE DEF t
  <1>5. CASE icons /\ M # {}
    BY <1>2, <1>3, <1>5 DEF MayOwn, t
  <1>6. CASE M = {}
    BY <1>1, <1>6 DEF MayOwn, t
  <1>7. CASE ~icons /\ M # {}
    BY <1>1, <1>4, <1>7 DEF MayOwn, t
  <1> QED BY <1>5, <1>6, <1>7

\* Another view takes over, and selects what is left of what was selected.
LEMMA SwitchViewSwitches ==
    ASSUME ViewsInv, NEW w \in Windows, SwitchView(w)
    PROVE  ViewsInv' /\ Promise!Switch(w)
  <1> DEFINE old == view[w]
             keep == SelectedIn(old)
             gone == IF Icons(w) /\ old.count > 0 THEN <<"lose">> ELSE << >>
             new == IF Icons(w) THEN "list" ELSE "icons"
             other == ~Icons(w)
  <1>0. PICK known \in SUBSET Files :
          \E p \in Orders(WithItems(NewCollection, SetToSeq(known)).items) :
            LET r == Restored(other, [c |-> ListSorted(WithItems(NewCollection, SetToSeq(known)), p),
                                      out |-> gone], keep)
            IN  /\ kind' = [kind EXCEPT ![w] = new]
                /\ Did(w, r, temp[w])
                /\ UNCHANGED <<isDir, temp>>
    BY DEF SwitchView
  <1> DEFINE e == WithItems(NewCollection, SetToSeq(known))
  <1>1. PICK p \in Orders(e.items) :
          LET r == Restored(other, [c |-> ListSorted(e, p), out |-> gone], keep)
          IN  /\ kind' = [kind EXCEPT ![w] = new]
              /\ Did(w, r, temp[w])
              /\ UNCHANGED <<isDir, temp>>
    BY <1>0
  <1>2. Icons(w) \in BOOLEAN /\ Counted(old) /\ old \in Collections
    BY ViewsAreFit
  <1>3. Fit(FALSE, e) /\ Shown(e) = known /\ SelectedIn(e) = {}
    <2>1. IsFiniteSet(known)
      BY ViewsAssumption, FS_Subset
    <2>2. /\ NewCollection \in Collections /\ Fit(FALSE, NewCollection)
          /\ Shown(NewCollection) = {} /\ SelectedIn(NewCollection) = {}
      BY NewFits
    <2>3. /\ Fit(FALSE, e) /\ Shown(e) = Shown(NewCollection) \cup known
          /\ SelectedIn(e) = SelectedIn(NewCollection)
      BY <2>1, <2>2, ItemsAdded
    <2> QED BY <2>2, <2>3
  <1> HIDE DEF e
  <1> DEFINE f == ListSorted(e, p)
             filled == [c |-> f, out |-> gone]
             r == Restored(other, filled, keep)
  <1>4. Fit(FALSE, f) /\ Shown(f) = known /\ SelectedIn(f) = {}
    <2> DEFINE d == SortedIn(FALSE, e, p)
    <2>1. d = f
      BY DEF SortedIn
    <2> HIDE DEF d
    <2>2. Fit(FALSE, d) /\ Shown(d) = Shown(e) /\ SelectedIn(d) = SelectedIn(e)
      BY <1>3, SortedFits DEF d
    <2> QED BY <1>3, <2>1, <2>2
  <1>5. kind' = [kind EXCEPT ![w] = new] /\ Did(w, r, temp[w]) /\ isDir' = isDir /\ temp' = temp
    BY <1>1
  <1> HIDE DEF f
  <1>6. filled \in Results /\ filled.c = f /\ filled.out = gone
    <2>1. <<"lose">> \in Seq(Tidings) /\ << >> \in Seq(Tidings)
      BY EmptySeq DEF Tidings
    <2>2. gone \in Seq(Tidings)
      BY <2>1
    <2> HIDE DEF gone
    <2> QED BY <1>4, <2>2 DEF Fit, Counted, Results
  <1>7. other \in BOOLEAN
    OBVIOUS
  <1> HIDE DEF filled, gone
  <1>8. r \in RestoredSoFar(filled, keep, Size(f))
    <2>1. Counted(f) /\ f.blocked = 0 /\ Marked(f) = {}
      BY <1>4, NoneSelected DEF Fit
    <2> HIDE DEF other
    <2> QED BY <1>6, <1>7, <2>1, RestoredSelects
  <1> HIDE DEF r
  <1>9. /\ r \in Results /\ Counted(r.c) /\ Alike(f, r.c) /\ r.c.blocked = 0
        /\ Marked(r.c) = KeptOf(f, keep, Size(f))
        /\ GoesOn(gone, r.out) /\ (Marked(r.c) = {} => r.out = gone)
    BY <1>4, <1>6, <1>8 DEF RestoredSoFar, Becomes, Fit
  <1>10. Fit(new = "icons", r.c) /\ Shown(r.c) = known
    <2>1. Fit(FALSE, r.c) /\ Shown(r.c) = Shown(f)
      BY <1>4, <1>9, AlikeFits
    <2>2. Fit(new = "icons", r.c)
      BY <2>1 DEF Fit
    <2> QED BY <1>4, <2>1, <2>2
  <1>11. SelectedIn(r.c) = keep \cap known
    <2>1. SelectedIn(r.c) = {Data(f, i) : i \in Marked(r.c)}
      BY <1>9, AlikeShowsAlike
    <2>2. Marked(r.c) = {i \in Numbers(f) : Data(f, i) \in keep}
      <3>1. \A i \in Numbers(f) : i < Size(f)
        <4>1. Size(f) \in Nat
          BY <1>4, MarkedAreNumbers DEF Fit, Counted
        <4> QED BY <4>1 DEF Numbers
      <3> QED BY <1>9, <3>1 DEF KeptOf
    <2>3. known = {Data(f, i) : i \in Numbers(f)}
      BY <1>4 DEF Shown
    <2> HIDE DEF keep
    <2> QED BY <2>1, <2>2, <2>3
  <1>12. primary' \in MayOwn(Icons(w), w, primary, keep, keep \cap known)
                      \cup {IF Icons(w) THEN Quits(w, primary) ELSE primary}
    <2>1. PICK granted \in BOOLEAN : primary' = Told(w, primary, r.out, temp[w], granted)
      BY <1>5 DEF Did
    <2>2. old.count > 0 <=> keep # {}
      <3>1. old.count = Cardinality(Marked(old)) /\ Cardinality(Marked(old)) \in Nat
            /\ (Cardinality(Marked(old)) = 0 <=> Marked(old) = {})
        BY <1>2, MarkedAreNumbers, SomeNumbers DEF Counted
      <3> QED BY <3>1, NoneSelected
    <2>3. gone = IF Icons(w) /\ keep # {} THEN <<"lose">> ELSE << >>
      BY <2>2 DEF gone
    <2>4. keep \cap known = {} => r.out = gone
      BY <1>9, <1>11, NoneSelected
    <2>5. r.out \in Seq(Tidings) /\ GoesOn(gone, r.out)
      BY <1>9 DEF Results
    <2> DEFINE N == keep \cap known
    <2>6. (N = {} => r.out = gone) /\ (keep = {} => N = {})
      BY <2>4
    <2> HIDE DEF keep, N
    <2>7. Told(w, primary, r.out, temp[w], granted)
            \in MayOwn(Icons(w), w, primary, keep, N) \cup {IF Icons(w) THEN Quits(w, primary) ELSE primary}
      BY <1>2, <2>3, <2>5, <2>6, SwitchTold
    <2> QED BY <2>1, <2>7 DEF N
  <1>13. view' = [view EXCEPT ![w] = r.c] /\ temp' \in [Windows -> BOOLEAN] /\ new \in {"icons", "list"}
         /\ primary' \in Windows \cup {Nobody, Elsewhere}
    <2>1. view' = [view EXCEPT ![w] = r.c] /\ temp' \in [Windows -> BOOLEAN]
      BY <1>5 DEF Did, ViewsInv, TypeOK
    <2>2. primary \in Windows \cup {Nobody, Elsewhere}
      BY DEF ViewsInv, TypeOK
    <2>3. primary' \in Windows \cup {Nobody, Elsewhere}
      BY <1>12, <2>2, OwnersAreOwners
    <2> QED BY <2>1, <2>3
  <1>14. ViewsInv'
    <2> HIDE DEF new
    <2> QED BY <1>5, <1>10, <1>13, InvKept
  <1>15. /\ [v \in Windows |-> Shown(view'[v])]
              = [[v \in Windows |-> Shown(view[v])] EXCEPT ![w] = known]
         /\ [v \in Windows |-> SelectedIn(view'[v])]
              = [[v \in Windows |-> SelectedIn(view[v])] EXCEPT ![w] = keep \cap known]
         /\ [v \in Windows |-> kind'[v] = "icons"]
              = [[v \in Windows |-> kind[v] = "icons"] EXCEPT ![w] = (new = "icons")]
    <2> DEFINE d == r.c
    <2>1. view' = [view EXCEPT ![w] = d] /\ kind' = [kind EXCEPT ![w] = new]
          /\ new \in {"icons", "list"}
      BY <1>5, <1>13
    <2>2. Shown(d) = known /\ SelectedIn(d) = keep \cap known
      BY <1>10, <1>11
    <2> HIDE DEF new, d, keep
    <2>3. /\ Shows(w, d)
          /\ [v \in Windows |-> kind'[v] = "icons"]
               = [[v \in Windows |-> kind[v] = "icons"] EXCEPT ![w] = (new = "icons")]
      BY <2>1, NowShows
    <2> QED BY <2>2, <2>3 DEF Shows
  <1>16. primary' \in Promise!Owners(w, keep \cap known)
                      \cup {IF Icons(w) THEN Promise!Released(w) ELSE primary}
    BY <1>12 DEF Promise!Owners, Promise!Released, MayOwn, Quits
  <1>17. Promise!Switch(w)
    <2>1. [[v \in Windows |-> kind[v] = "icons"] EXCEPT ![w] = (new = "icons")]
            = [[v \in Windows |-> kind[v] = "icons"] EXCEPT ![w] = ~@]
      BY DEF Icons
    <2> QED BY <1>15, <1>16, <2>1 DEF Promise!Switch, Icons
  <1> QED BY <1>14, <1>17
-----------------------------------------------------------------------------
(* The specification.                                                      *)

\* The first state is in order.
LEMMA InitFits ==
    ASSUME Init
    PROVE  ViewsInv /\ Promise!Init
  <1>1. /\ NewCollection \in Collections
        /\ Shown(NewCollection) = {} /\ SelectedIn(NewCollection) = {}
    BY NewFits
  <1>2. \A w \in Windows : view[w] = NewCollection
    BY DEF Init
  <1>3. \A w \in Windows : Fit(Icons(w), view[w])
    BY <1>2, NewFits
  <1>4. TypeOK
    <2>1. /\ isDir \in [Files -> BOOLEAN] /\ kind \in [Windows -> {"icons", "list"}]
          /\ view \in [Windows -> Collections] /\ temp \in [Windows -> BOOLEAN]
          /\ primary \in Windows \cup {Nobody, Elsewhere}
      BY <1>1 DEF Init
    <2> QED BY <1>3, <2>1 DEF TypeOK, Fit, Counted
  <1>5. Promise!Init
    <2>1. [w \in Windows |-> Shown(view[w])] = [w \in Windows |-> {}]
          /\ [w \in Windows |-> SelectedIn(view[w])] = [w \in Windows |-> {}]
      BY <1>1, <1>2
    <2>2. [w \in Windows |-> Icons(w)] \in [Windows -> BOOLEAN]
      BY DEF Icons
    <2>3. primary = Nobody
      BY DEF Init
    <2> QED BY <2>1, <2>2, <2>3 DEF Promise!Init
  <1> QED BY <1>3, <1>4, <1>5 DEF ViewsInv

\* Every step keeps the invariant and is one of the abstract view's.
LEMMA NextKeeps ==
    ASSUME ViewsInv, [Next]_vars
    PROVE  ViewsInv' /\ [Promise!Next]_(Promise!vars)
  <1>1. CASE OthersClaim
    <2>1. primary' \in {Nobody, Elsewhere} /\ UNCHANGED <<isDir, kind, view, temp>>
      BY <1>1 DEF OthersClaim
    <2>2. Promise!Lose
      BY <2>1 DEF Promise!Lose, Icons
    <2>3. ViewsInv'
      BY <2>1 DEF ViewsInv, TypeOK, Icons
    <2> QED BY <2>2, <2>3 DEF Promise!Next
  <1>2. ASSUME NEW f \in Restated, RestatItem(f)
        PROVE  ViewsInv' /\ UNCHANGED Promise!vars
    <2>1. isDir' = [isDir EXCEPT ![f] = ~isDir[f]] /\ UNCHANGED <<kind, view, temp, primary>>
      BY <1>2 DEF RestatItem
    <2>2. isDir' \in [Files -> BOOLEAN]
      BY <2>1, ViewsAssumption DEF ViewsInv, TypeOK
    <2>3. ViewsInv'
      BY <2>1, <2>2 DEF ViewsInv, TypeOK, Icons
    <2> QED BY <2>1, <2>3 DEF Promise!vars, Icons
  <1>3. ASSUME NEW w \in Windows, Rearrange(w) \/ Resync(w) \/ Choose(w) \/ SwitchView(w)
        PROVE  ViewsInv' /\ Promise!Next
    <2>1. CASE AddItems(w)
      BY <2>1, AddItemsShows DEF Promise!Next
    <2>2. CASE UpdateItems(w)
      BY <2>2, UpdateItemsSelects DEF UpdateItems, Promise!Next
    <2>3. CASE RemoveItems(w)
      BY <2>3, RemoveItemsShows DEF Promise!Next
    <2>4. CASE Resync(w)
      BY <2>4, ResyncRenews DEF Promise!Next
    <2>5. CASE Choose(w)
      BY <2>5, ChooseChooses DEF Chooses, Promise!Next
    <2>6. CASE SwitchView(w)
      BY <2>6, SwitchViewSwitches DEF Promise!Next
    <2> QED BY <1>3, <2>1, <2>2, <2>3, <2>4, <2>5, <2>6 DEF Rearrange
  <1>4. CASE UNCHANGED vars
    <2>1. ViewsInv'
      BY <1>4 DEF vars, ViewsInv, TypeOK, Icons
    <2>2. UNCHANGED Promise!vars
      BY <1>4 DEF vars, Promise!vars, Icons
    <2> QED BY <2>1, <2>2
  <1> QED BY <1>1, <1>2, <1>3, <1>4 DEF Next

\* The invariant is inductive.
LEMMA InvHolds == Spec => []ViewsInv
<1>1. Init => ViewsInv
  BY InitFits
<1>2. ViewsInv /\ [Next]_vars => ViewsInv'
  BY NextKeeps
<1> QED BY <1>1, <1>2, PTL DEF Spec

\* Whatever the user and the directory do to whatever many windows, the count
\* of a view is that of its selected items, its cursor and wink are on items it
\* has, and no signal is held back after an operation (collection.c keeps all
\* of these by hand).
THEOREM ViewsTypes == Spec => []TypeOK
<1>1. ViewsInv => TypeOK
  BY DEF ViewsInv
<1> QED BY <1>1, InvHolds, PTL

\* collection_qsort() and collection_delete_if() leave the cursor of an icon
\* view, and a wink, on the file it was on, as long as this is shown.
THEOREM CursorsStay == Spec => CursorStays
<1>1. ASSUME ViewsInv, NEW w \in Windows, Icons(w), Rearrange(w)
      PROVE  Stays(view[w], view'[w])
  <2>1. CASE AddItems(w)
    BY <1>1, <2>1, AddItemsShows
  <2>2. CASE UpdateItems(w)
    BY <1>1, <2>2, UpdateItemsSelects DEF UpdateItems
  <2>3. CASE RemoveItems(w)
    BY <1>1, <2>3, RemoveItemsShows
  <2> QED BY <1>1, <2>1, <2>2, <2>3 DEF Rearrange
<1>2. ViewsInv /\ [Next]_vars => [CursorsFollow]_vars
  BY <1>1 DEF CursorsFollow
<1> QED BY <1>2, InvHolds, PTL DEF Spec, CursorStays

\* The views keep the promise of View.tla in any number of windows: a window
\* has the primary selection only as long as something is selected in it,
\* gives it up when nothing is, and items come and go without changing what is
\* selected of the others.  This is so for both kinds of view and for
\* everything filer.c does with them.
THEOREM PromiseKept == Spec => KeepsViewPromise
<1>1. Init => Promise!Init
  BY InitFits
<1>2. ViewsInv /\ [Next]_vars => [Promise!Next]_(Promise!vars)
  BY NextKeeps
<1> QED BY <1>1, <1>2, InvHolds, PTL DEF Spec, KeepsViewPromise, Promise!Spec

\* iter_init() and iter_next() lead around the view from where they start and
\* past no item, or no selected one, whatever has been removed, sorted or
\* added before: the loops over the selected files miss none and take none
\* twice.
THEOREM IteratorsVisitOnce == Spec => []IteratesOnce
<1>1. ASSUME ViewsInv, NEW w \in Windows
      PROVE  view[w] \in Collections
  BY <1>1 DEF ViewsInv, Fit, Counted
<1>2. ViewsInv => IteratesOnce
  BY <1>1, VisitsOnce DEF IteratesOnce
<1> QED BY <1>2, InvHolds, PTL
=============================================================================
