--------------------------- MODULE CopyMoveProofs ---------------------------
(***************************************************************************)
(* Proofs about copying and moving, with either engine: both sides stay    *)
(* trees, the engine implements Transfer, and nothing is forgotten.        *)
(***************************************************************************)
EXTENDS HybridCopyMove, SequenceTheorems, FiniteSetTheorems, NaturalsInduction,
        WellFoundedInduction, TLAPS

-----------------------------------------------------------------------------
(* Paths.                                                                  *)

\* s is q itself or an outer directory of it
Within(s, q) == q = s \/ Beneath(s, q)

\* A path cut off anywhere is a path.
LEMMA CutPath ==
    ASSUME NEW p \in Seq(Names), NEW n \in 0..Len(p)
    PROVE  /\ SubSeq(p, 1, n) \in Seq(Names)
           /\ Len(SubSeq(p, 1, n)) = n
           /\ \A i \in 1..n : SubSeq(p, 1, n)[i] = p[i]
  <1>0. Len(p) \in Nat
    BY LenProperties
  <1>1. \A i \in 1..n : p[i] \in Names
    BY <1>0, ElementOfSeq
  <1>2. 1 \in Int /\ n \in Int
    BY <1>0
  <1> QED BY <1>0, <1>1, <1>2, SubSeqProperties, SMT

\* Paths with the same names are the same.
LEMMA SamePath ==
    ASSUME NEW p \in Seq(Names), NEW q \in Seq(Names), Len(p) = Len(q),
           \A i \in 1..Len(p) : p[i] = q[i]
    PROVE  p = q
  BY SeqEqual

\* What it means to be beneath, name by name.
LEMMA BeneathNames ==
    ASSUME NEW p \in Seq(Names), NEW q \in Seq(Names)
    PROVE  Beneath(p, q) <=> /\ Len(q) > Len(p)
                             /\ \A i \in 1..Len(p) : p[i] = q[i]
  <1>0. Len(p) \in Nat /\ Len(q) \in Nat
    BY LenProperties
  <1>1. CASE Len(q) > Len(p)
    <2>1. Len(p) \in 0..Len(q)
      BY <1>0, <1>1
    <2>2. /\ SubSeq(q, 1, Len(p)) \in Seq(Names)
          /\ Len(SubSeq(q, 1, Len(p))) = Len(p)
          /\ \A i \in 1..Len(p) : SubSeq(q, 1, Len(p))[i] = q[i]
      BY <2>1, CutPath
    <2>3. ASSUME \A i \in 1..Len(p) : p[i] = q[i]
          PROVE  SubSeq(q, 1, Len(p)) = p
      BY <2>2, <2>3, SamePath
    <2> QED BY <1>1, <2>2, <2>3 DEF Beneath
  <1> QED BY <1>1 DEF Beneath

\* Beneath is transitive.
LEMMA BeneathTransitive ==
    ASSUME NEW p \in Seq(Names), NEW q \in Seq(Names), NEW r \in Seq(Names),
           Beneath(p, q), Beneath(q, r)
    PROVE  Beneath(p, r)
  <1>0. Len(p) \in Nat /\ Len(q) \in Nat /\ Len(r) \in Nat
    BY LenProperties
  <1>1. /\ Len(q) > Len(p) /\ \A i \in 1..Len(p) : p[i] = q[i]
        /\ Len(r) > Len(q) /\ \A i \in 1..Len(q) : q[i] = r[i]
    BY BeneathNames
  <1>2. Len(r) > Len(p) /\ \A i \in 1..Len(p) : p[i] = r[i]
    BY <1>0, <1>1
  <1> QED BY <1>2, BeneathNames

\* Two directories with something in both are one within the other.
LEMMA Comparable ==
    ASSUME NEW p \in Seq(Names), NEW q \in Seq(Names), NEW r \in Seq(Names),
           Within(p, r), Within(q, r)
    PROVE  Within(p, q) \/ Within(q, p)
  <1>0. Len(p) \in Nat /\ Len(q) \in Nat /\ Len(r) \in Nat
    BY LenProperties
  <1>1. CASE p = r \/ q = r
    BY <1>1 DEF Within
  <1>2. CASE Beneath(p, r) /\ Beneath(q, r)
    <2>1. /\ \A i \in 1..Len(p) : p[i] = r[i]
          /\ \A i \in 1..Len(q) : q[i] = r[i]
      BY <1>2, BeneathNames
    <2>2. CASE Len(p) < Len(q)
      <3>1. \A i \in 1..Len(p) : p[i] = q[i]
        BY <1>0, <2>1, <2>2
      <3> QED BY <1>0, <2>2, <3>1, BeneathNames DEF Within
    <2>3. CASE Len(q) < Len(p)
      <3>1. \A i \in 1..Len(q) : q[i] = p[i]
        BY <1>0, <2>1, <2>3
      <3> QED BY <1>0, <2>3, <3>1, BeneathNames DEF Within
    <2>4. CASE Len(q) = Len(p)
      BY <2>1, <2>4, SamePath DEF Within
    <2> QED BY <1>0, <2>2, <2>3, <2>4
  <1> QED BY <1>1, <1>2 DEF Within

\* The directory a path is in.
LEMMA ParentNames ==
    ASSUME NEW p \in Seq(Names), Len(p) >= 1
    PROVE  /\ Parent(p) \in Seq(Names)
           /\ Len(Parent(p)) = Len(p) - 1
           /\ \A i \in 1..(Len(p) - 1) : Parent(p)[i] = p[i]
           /\ Beneath(Parent(p), p)
  <1>0. Len(p) \in Nat
    BY LenProperties
  <1>1. Len(p) - 1 \in 0..Len(p)
    BY <1>0
  <1>2. /\ Parent(p) \in Seq(Names)
        /\ Len(Parent(p)) = Len(p) - 1
        /\ \A i \in 1..(Len(p) - 1) : Parent(p)[i] = p[i]
    BY <1>1, CutPath DEF Parent
  <1>3. Beneath(Parent(p), p)
    <2>1. Len(p) > Len(Parent(p))
      BY <1>0, <1>2
    <2>2. \A i \in 1..Len(Parent(p)) : Parent(p)[i] = p[i]
      BY <1>2
    <2> QED BY <1>2, <2>1, <2>2, BeneathNames
  <1> QED BY <1>2, <1>3

\* What is beneath a directory is in it, or its own directory is beneath.
LEMMA ParentWithin ==
    ASSUME NEW p \in Seq(Names), NEW q \in Seq(Names), Beneath(p, q)
    PROVE  Within(p, Parent(q))
  <1>0. Len(p) \in Nat /\ Len(q) \in Nat
    BY LenProperties
  <1>1. Len(q) > Len(p) /\ \A i \in 1..Len(p) : p[i] = q[i]
    BY BeneathNames
  <1>2. /\ Parent(q) \in Seq(Names) /\ Len(Parent(q)) = Len(q) - 1
        /\ \A i \in 1..(Len(q) - 1) : Parent(q)[i] = q[i]
    BY <1>0, <1>1, ParentNames
  <1>3. \A i \in 1..Len(p) : p[i] = Parent(q)[i]
    BY <1>0, <1>1, <1>2
  <1>4. CASE Len(q) - 1 = Len(p)
    BY <1>2, <1>3, <1>4, SamePath DEF Within
  <1>5. CASE Len(q) - 1 > Len(p)
    BY <1>2, <1>3, <1>5, BeneathNames DEF Within
  <1> QED BY <1>0, <1>1, <1>4, <1>5

\* Nothing is beneath itself.
LEMMA NotBeneathItself ==
    ASSUME NEW p \in Seq(Names), NEW q \in Seq(Names), Within(p, q)
    PROVE  ~Beneath(q, p)
  <1>0. Len(p) \in Nat /\ Len(q) \in Nat
    BY LenProperties
  <1> QED BY <1>0 DEF Within, Beneath

\* Where a source goes, name by name.
LEMMA TargetNames ==
    ASSUME NEW s \in Seq(Names), Len(s) >= 2
    PROVE  /\ Target(s) \in Seq(Names)
           /\ Len(Target(s)) = Len(s) - 1
           /\ \A i \in 1..(Len(s) - 1) : Target(s)[i] = s[i + 1]
  <1>1. s # <<>>
    BY EmptySeq
  <1> QED BY <1>1, HeadTailProperties DEF Target

\* What is beneath a source goes beneath its target.
LEMMA TargetBeneath ==
    ASSUME NEW s \in Seq(Names), NEW r \in Seq(Names), Len(s) >= 2, Beneath(s, r)
    PROVE  Beneath(Target(s), Target(r))
  <1>0. Len(s) \in Nat /\ Len(r) \in Nat
    BY LenProperties
  <1>1. Len(r) > Len(s) /\ \A i \in 1..Len(s) : s[i] = r[i]
    BY BeneathNames
  <1>2. /\ Target(s) \in Seq(Names) /\ Len(Target(s)) = Len(s) - 1
        /\ \A i \in 1..(Len(s) - 1) : Target(s)[i] = s[i + 1]
    BY TargetNames
  <1>3. /\ Target(r) \in Seq(Names) /\ Len(Target(r)) = Len(r) - 1
        /\ \A i \in 1..(Len(r) - 1) : Target(r)[i] = r[i + 1]
    BY <1>0, <1>1, TargetNames
  <1>4. \A i \in 1..Len(Target(s)) : Target(s)[i] = Target(r)[i]
    BY <1>0, <1>1, <1>2, <1>3
  <1> QED BY <1>0, <1>1, <1>2, <1>3, <1>4, BeneathNames

\* The directory of a target is the target of the directory.
LEMMA ParentOfTarget ==
    ASSUME NEW s \in Seq(Names), Len(s) >= 3
    PROVE  Parent(Target(s)) = Target(Parent(s))
  <1>0. Len(s) \in Nat
    BY LenProperties
  <1>1. /\ Target(s) \in Seq(Names) /\ Len(Target(s)) = Len(s) - 1
        /\ \A i \in 1..(Len(s) - 1) : Target(s)[i] = s[i + 1]
    BY <1>0, TargetNames
  <1>2. /\ Parent(s) \in Seq(Names) /\ Len(Parent(s)) = Len(s) - 1
        /\ \A i \in 1..(Len(s) - 1) : Parent(s)[i] = s[i]
    BY <1>0, ParentNames
  <1>3. /\ Parent(Target(s)) \in Seq(Names) /\ Len(Parent(Target(s))) = Len(s) - 2
        /\ \A i \in 1..(Len(s) - 2) : Parent(Target(s))[i] = Target(s)[i]
    BY <1>0, <1>1, ParentNames
  <1>4. /\ Target(Parent(s)) \in Seq(Names) /\ Len(Target(Parent(s))) = Len(s) - 2
        /\ \A i \in 1..(Len(s) - 2) : Target(Parent(s))[i] = Parent(s)[i + 1]
    BY <1>0, <1>2, TargetNames
  <1>5. \A i \in 1..(Len(s) - 2) : Parent(Target(s))[i] = Target(Parent(s))[i]
    BY <1>0, <1>1, <1>2, <1>3, <1>4, SMTT(40)
  <1> QED BY <1>3, <1>4, <1>5, SamePath

\* Two objects of one selected directory go to different places.
LEMMA SameRoot ==
    ASSUME NEW s \in Seq(Names), NEW q \in Seq(Names), NEW r \in Seq(Names),
           Len(s) >= 2, Within(s, q), Within(s, r), Target(q) = Target(r)
    PROVE  q = r
  <1>0. Len(s) \in Nat /\ Len(q) \in Nat /\ Len(r) \in Nat
    BY LenProperties
  <1>1. /\ Len(q) >= Len(s) /\ q[1] = s[1]
        /\ Len(r) >= Len(s) /\ r[1] = s[1]
    BY <1>0, BeneathNames DEF Within
  <1>2. /\ Len(Target(q)) = Len(q) - 1
        /\ \A i \in 1..(Len(q) - 1) : Target(q)[i] = q[i + 1]
    BY <1>0, <1>1, TargetNames
  <1>3. /\ Len(Target(r)) = Len(r) - 1
        /\ \A i \in 1..(Len(r) - 1) : Target(r)[i] = r[i + 1]
    BY <1>0, <1>1, TargetNames
  <1>4. Len(q) = Len(r)
    BY <1>0, <1>2, <1>3
  <1>5. ASSUME NEW i \in 1..Len(q)
        PROVE  q[i] = r[i]
    <2>1. CASE i = 1
      BY <1>1, <2>1
    <2>2. CASE i # 1
      <3>1. i - 1 \in 1..(Len(q) - 1) /\ (i - 1) + 1 = i
        BY <1>0, <2>2
      <3> QED BY <1>2, <1>3, <1>4, <3>1
    <2> QED BY <2>1, <2>2
  <1> QED BY <1>4, <1>5, SamePath

-----------------------------------------------------------------------------
(* Trees.                                                                  *)

\* A set of naturals that is not empty has a least element.
LEMMA LeastNumber ==
    ASSUME NEW K \in SUBSET Nat, K # {}
    PROVE  \E m \in K : \A k \in K : m <= k
  <1> DEFINE R == {p \in Nat \X Nat : p[1] < p[2]}
  <1>1. R = OpToRel(<, Nat)
    BY DEF OpToRel
  <1>2. IsWellFoundedOn(R, Nat)
    BY <1>1, NatLessThanWellFounded
  <1>3. PICK m \in K : \A k \in K : ~(<<k, m>> \in R)
    BY <1>2, WFMin
  <1>4. ASSUME NEW k \in K, k < m
        PROVE  FALSE
    <2>1. <<k, m>> \in Nat \X Nat /\ <<k, m>>[1] = k /\ <<k, m>>[2] = m
      OBVIOUS
    <2> QED BY <1>3, <1>4, <2>1
  <1> QED BY <1>4

\* A tree over places that are closed
Tree(tree, places, depth) ==
    DOMAIN tree = places /\ Closed(places, depth) /\ IsTree(tree, depth)

\* Whatever an object is beneath is a directory: the highest place on the way
\* that were none would have something in it.
LEMMA Ancestors ==
    ASSUME NEW places, NEW depth \in Nat, NEW tree, Tree(tree, places, depth),
           NEW p \in places, NEW q \in places, Beneath(p, q), tree[q] # Absent
    PROVE  tree[p].kind = "dir"
  <1> SUFFICES ASSUME tree[p].kind # "dir"
               PROVE  FALSE
    OBVIOUS
  <1> DEFINE C(k) == SubSeq(q, 1, Len(q) - k)
             K == {k \in Nat : /\ k \in 1..(Len(q) - Len(p))
                               /\ tree[C(k)].kind # "dir"}
  <1>1. /\ p \in Seq(Names) /\ q \in Seq(Names)
        /\ Len(p) \in Nat /\ Len(q) \in Nat /\ Len(p) >= depth
        /\ Len(q) > Len(p) /\ SubSeq(q, 1, Len(p)) = p
    BY LenProperties DEF Tree, Closed, Beneath
  <1>2. ASSUME NEW k \in 0..(Len(q) - Len(p))
        PROVE  C(k) \in places /\ C(k) \in Seq(Names) /\ Len(C(k)) = Len(q) - k
    <2>1. Len(q) - k \in depth..Len(q) /\ Len(q) - k \in 0..Len(q)
      BY <1>1
    <2> QED BY <1>1, <2>1, CutPath DEF Tree, Closed
  <1>3. Len(q) - Len(p) \in K
    <2>1. Len(q) - (Len(q) - Len(p)) = Len(p)
      BY <1>1
    <2>2. C(Len(q) - Len(p)) = p
      BY <1>1, <2>1
    <2>3. Len(q) - Len(p) \in Nat /\ Len(q) - Len(p) \in 1..(Len(q) - Len(p))
      BY <1>1
    <2> QED BY <2>2, <2>3
  <1>4. PICK m \in K : \A k \in K : m <= k
    BY <1>3, LeastNumber
  <1>5. m \in 1..(Len(q) - Len(p)) /\ m \in 0..(Len(q) - Len(p))
        /\ m - 1 \in 0..(Len(q) - Len(p)) /\ tree[C(m)].kind # "dir"
    BY <1>1, <1>4
  <1>6. tree[C(m - 1)] # Absent
    <2>1. CASE m = 1
      <3>1. Len(q) - 0 = Len(q) /\ m - 1 = 0
        BY <1>1, <2>1
      <3>2. C(0) = q
        BY <1>1, <3>1, SubSeqFull
      <3> QED BY <3>1, <3>2
    <2>2. CASE m # 1
      <3>1. m - 1 \in Nat /\ m - 1 \in 1..(Len(q) - Len(p)) /\ ~(m <= m - 1)
        <4> HIDE DEF K, C
        <4> QED BY <1>1, <1>5, <2>2
      <3>0. m - 1 \notin K
        <4> HIDE DEF K, C
        <4> QED BY <1>4, <3>1
      <3>2. tree[C(m - 1)].kind = "dir"
        BY <3>0, <3>1
      <3> QED BY <3>2 DEF Absent
    <2> QED BY <2>1, <2>2
  <1>7. Parent(C(m - 1)) = C(m)
    <2>1. Len(C(m - 1)) = Len(q) - (m - 1) /\ C(m - 1) \in Seq(Names)
      BY <1>2, <1>5
    <2>2. Len(C(m)) = Len(q) - m /\ C(m) \in Seq(Names)
      BY <1>2, <1>5
    <2>3. /\ Parent(C(m - 1)) \in Seq(Names)
          /\ Len(Parent(C(m - 1))) = Len(C(m - 1)) - 1
          /\ \A i \in 1..(Len(C(m - 1)) - 1) : Parent(C(m - 1))[i] = C(m - 1)[i]
      <3> HIDE DEF C
      <3>1. Len(C(m - 1)) >= 1
        BY <1>1, <1>5, <2>1
      <3> QED BY <2>1, <3>1, ParentNames
    <2>4. Len(q) - (m - 1) \in 0..Len(q) /\ Len(q) - m \in 0..Len(q)
      BY <1>1, <1>5
    <2>5. \A i \in 1..(Len(q) - (m - 1)) : C(m - 1)[i] = q[i]
      BY <1>1, <2>4, CutPath
    <2>6. \A i \in 1..(Len(q) - m) : C(m)[i] = q[i]
      BY <1>1, <2>4, CutPath
    <2> HIDE DEF C
    <2>0. m \in Nat /\ Len(q) - m = (Len(q) - (m - 1)) - 1
      <3> HIDE DEF K
      <3> QED BY <1>1, <1>5
    <2>7. \A i \in 1..Len(C(m)) : C(m)[i] = Parent(C(m - 1))[i]
      <3> TAKE i \in 1..Len(C(m))
      <3>1. i \in 1..(Len(q) - m) /\ i \in 1..(Len(C(m - 1)) - 1)
        BY <2>0, <2>1, <2>2
      <3>2. i \in 1..(Len(q) - (m - 1))
        BY <1>1, <2>0, <3>1
      <3> QED BY <2>3, <2>5, <2>6, <3>1, <3>2
    <2>8. Len(C(m)) = Len(Parent(C(m - 1)))
      BY <2>0, <2>1, <2>2, <2>3
    <2> QED BY <2>2, <2>3, <2>7, <2>8, SamePath
  <1>8. C(m - 1) \in places /\ Len(C(m - 1)) > depth
    <2> HIDE DEF C
    <2> QED BY <1>1, <1>2, <1>5
  <1> HIDE DEF C
  <1> QED BY <1>5, <1>6, <1>7, <1>8 DEF Tree, IsTree

\* Nothing is beneath what is no directory.
LEMMA NothingBeneath ==
    ASSUME NEW places, NEW depth \in Nat, NEW tree, Tree(tree, places, depth),
           NEW p \in places, tree[p].kind # "dir"
    PROVE  \A q \in places : Beneath(p, q) => tree[q] = Absent
  BY Ancestors

\* Something is beneath a directory only if something is in it.
LEMMA NothingInside ==
    ASSUME NEW places, NEW depth \in Nat \ {0}, NEW tree, Tree(tree, places, depth),
           NEW p \in places, tree[p].kind # "dir"
    PROVE  Children(tree, p) = {}
  <1> SUFFICES ASSUME NEW q \in Children(tree, p)
               PROVE  FALSE
    OBVIOUS
  <1>1. q \in places /\ Parent(q) = p /\ tree[q] # Absent
    BY DEF Children, Tree
  <1>2. q \in Seq(Names) /\ Len(q) >= depth /\ Len(q) \in Nat
    BY <1>1, LenProperties DEF Tree, Closed
  <1>3. Beneath(p, q)
    BY <1>1, <1>2, ParentNames
  <1> QED BY <1>1, <1>3, NothingBeneath

\* An object can be put at a place or taken from it.
LEMMA PutTree ==
    ASSUME NEW places, NEW depth \in Nat \ {0}, NEW tree, Tree(tree, places, depth),
           NEW t \in places, NEW n,
           n = Absent \/ Len(t) <= depth \/ tree[Parent(t)].kind = "dir",
           n.kind = "dir" \/ Children(tree, t) = {}
    PROVE  Tree([tree EXCEPT ![t] = n], places, depth)
  <1> DEFINE new == [tree EXCEPT ![t] = n]
  <1>0. DOMAIN new = places /\ new[t] = n /\ \A p \in places : p # t => new[p] = tree[p]
    BY DEF Tree
  <1>1. ASSUME NEW p \in places, new[p] # Absent, Len(p) > depth
        PROVE  new[Parent(p)].kind = "dir"
    <2>0. p \in Seq(Names) /\ Len(p) \in Nat /\ Len(p) >= 1
      BY <1>1, LenProperties DEF Tree, Closed
    <2>1. Len(Parent(p)) = Len(p) - 1 /\ Beneath(Parent(p), p)
      BY <2>0, ParentNames
    <2>2. Parent(p) # p
      BY <2>0, <2>1
    <2>3. Parent(p) \in places
      <3>1. Len(p) - 1 \in depth..Len(p)
        BY <1>1, <2>0
      <3> QED BY <3>1 DEF Tree, Closed, Parent
    <2>4. CASE p = t
      <3>1. tree[Parent(p)].kind = "dir"
        <4>1. n # Absent /\ ~(Len(t) <= depth)
          BY <1>0, <1>1, <2>0, <2>4
        <4> QED BY <2>4, <4>1
      <3> QED BY <1>0, <2>2, <2>3, <2>4, <3>1
    <2>5. CASE p # t /\ Parent(p) = t
      <3>1. p \in Children(tree, t)
        BY <1>0, <1>1, <2>5 DEF Children, Tree
      <3>2. n.kind = "dir"
        BY <3>1
      <3> QED BY <1>0, <2>5, <3>2
    <2>6. CASE p # t /\ Parent(p) # t
      <3>1. tree[p] # Absent
        BY <1>0, <1>1, <2>6
      <3>2. tree[Parent(p)].kind = "dir"
        BY <1>1, <3>1 DEF Tree, IsTree
      <3> QED BY <1>0, <2>3, <2>6, <3>2
    <2> QED BY <2>4, <2>5, <2>6
  <1> QED BY <1>0, <1>1 DEF Tree, IsTree

\* The places are closed, and every source has a place to go to.
LEMMA Places ==
    /\ Closed(Sources, 2) /\ Closed(Targets, 1)
    /\ \A s \in Sources : /\ s \in Seq(Names) /\ Len(s) \in Nat /\ Len(s) >= 2
                          /\ Target(s) \in Targets
                          /\ Len(s) > 2 => Parent(s) \in Sources
    /\ \A t \in Targets : /\ t \in Seq(Names) /\ Len(t) \in Nat /\ Len(t) >= 1
                          /\ Len(t) > 1 => Parent(t) \in Targets
  <1>1. ASSUME NEW s \in Sources
        PROVE  /\ s \in Seq(Names) /\ Len(s) \in Nat /\ Len(s) >= 2
               /\ Target(s) \in Targets
               /\ Len(s) > 2 => Parent(s) \in Sources
    <2>1. s \in Seq(Names) /\ Len(s) \in Nat /\ Len(s) >= 2 /\ Target(s) \in Targets
      BY PlacesAssumption, LenProperties DEF Closed
    <2>2. ASSUME Len(s) > 2
          PROVE  Parent(s) \in Sources
      <3>1. Len(s) - 1 \in 2..Len(s)
        BY <2>1, <2>2
      <3> QED BY <3>1, PlacesAssumption DEF Closed, Parent
    <2> QED BY <2>1, <2>2
  <1>2. ASSUME NEW t \in Targets
        PROVE  /\ t \in Seq(Names) /\ Len(t) \in Nat /\ Len(t) >= 1
               /\ Len(t) > 1 => Parent(t) \in Targets
    <2>1. t \in Seq(Names) /\ Len(t) \in Nat /\ Len(t) >= 1
      BY PlacesAssumption, LenProperties DEF Closed
    <2>2. ASSUME Len(t) > 1
          PROVE  Parent(t) \in Targets
      <3>1. Len(t) - 1 \in 1..Len(t)
        BY <2>1, <2>2
      <3> QED BY <3>1, PlacesAssumption DEF Closed, Parent
    <2> QED BY <2>1, <2>2
  <1> QED BY <1>1, <1>2, PlacesAssumption

\* A directory and what is beneath it are the subtree of the directory.
LEMMA SubtreeWithin ==
    ASSUME NEW s \in Sources
    PROVE  Subtree(s) = {r \in Sources : Within(s, r)}
  BY DEF Subtree, Within

\* Both sides are trees.
Trees == Tree(src, Sources, 2) /\ Tree(dst, Targets, 1)

\* A tree that loses a directory with all that is in it is a tree.
LEMMA SubtreeGone ==
    ASSUME Tree(src, Sources, 2), NEW s \in Sources
    PROVE  Tree([r \in Sources |->
                   IF r \in {q \in Subtree(s) : src[q] # Absent} THEN Absent ELSE src[r]],
                Sources, 2)
  <1> DEFINE new == [r \in Sources |->
                IF r \in {q \in Subtree(s) : src[q] # Absent} THEN Absent ELSE src[r]]
  <1>1. ASSUME NEW p \in Sources, new[p] # Absent, Len(p) > 2
        PROVE  new[Parent(p)].kind = "dir"
    <2>1. /\ p \in Seq(Names) /\ s \in Seq(Names) /\ Len(p) \in Nat
          /\ Parent(p) \in Sources /\ Parent(p) \in Seq(Names)
      BY <1>1, Places
    <2>2. src[p] # Absent /\ p \notin Subtree(s)
      BY <1>1
    <2>3. src[Parent(p)].kind = "dir"
      BY <1>1, <2>2 DEF Tree, IsTree
    <2>4. Parent(p) \notin Subtree(s)
      <3>1. Beneath(Parent(p), p)
        BY <1>1, <2>1, ParentNames
      <3>2. ASSUME Parent(p) = s \/ Beneath(s, Parent(p))
            PROVE  Beneath(s, p)
        BY <2>1, <3>1, <3>2, BeneathTransitive
      <3> QED BY <2>2, <3>2 DEF Subtree
    <2> QED BY <2>1, <2>3, <2>4
  <1>2. DOMAIN new = Sources
    OBVIOUS
  <1> HIDE DEF new
  <1>3. Tree(new, Sources, 2)
    BY <1>1, <1>2, Places DEF Tree, IsTree
  <1> QED BY <1>3 DEF new

\* What 'Placed' puts at a place, where all that is placed is within one source.
LEMMA PlacedAt ==
    ASSUME NEW s \in Sources, NEW part \in SUBSET Subtree(s), NEW cut
    PROVE  /\ \A r \in part : Placed(part, cut)[Target(r)]
                                = IF r \in cut THEN CutShort(src[r]) ELSE src[r]
           /\ \A t \in Targets : (\A r \in part : Target(r) # t)
                                   => Placed(part, cut)[t] = dst[t]
  <1>1. ASSUME NEW r \in part
        PROVE  Placed(part, cut)[Target(r)]
                 = IF r \in cut THEN CutShort(src[r]) ELSE src[r]
    <2>1. \A q \in part : Target(q) = Target(r) => q = r
      <3> TAKE q \in part
      <3>1. Within(s, q) /\ Within(s, r) /\ q \in Sources /\ r \in Sources
        BY SubtreeWithin
      <3> QED BY <3>1, Places, SameRoot
    <2>2. (CHOOSE q \in part : Target(q) = Target(r)) = r
      BY <2>1
    <2>3. Target(r) \in Targets
      BY Places DEF Subtree
    <2>4. \E q \in part : Target(q) = Target(r)
      OBVIOUS
    <2> QED BY <2>2, <2>3, <2>4 DEF Placed
  <1>2. ASSUME NEW t \in Targets, \A r \in part : Target(r) # t
        PROVE  Placed(part, cut)[t] = dst[t]
    BY <1>2 DEF Placed
  <1> QED BY <1>1, <1>2

\* A directory is never cut short.
LEMMA CutShortKeeps ==
    ASSUME NEW n
    PROVE  /\ n.kind = "dir" => CutShort(n) = n
           /\ n # Absent => CutShort(n) # Absent
  <1>1. CASE n.kind = "file"
    <2>1. CutShort(n) = [n EXCEPT !.kind = "part", !.time = Now]
      BY <1>1 DEF CutShort
    <2> QED BY <1>1, <2>1 DEF CutShort, Absent
  <1>2. CASE n.kind # "file"
    BY <1>2 DEF CutShort
  <1> QED BY <1>1, <1>2

\* What is moved, in whole or cut off at some point, is a tree at its new place,
\* and nothing is put over a directory.
LEMMA PlacedTree ==
    ASSUME Trees, NEW s \in Sources, NEW part \in SUBSET Subtree(s), NEW cut,
           \A r \in part : src[r] # Absent /\ (r = s \/ Parent(r) \in part),
           HasPlace(Target(s)), dst[Target(s)].kind # "dir"
    PROVE  Tree(Placed(part, cut), Targets, 1)
  <1> DEFINE new == Placed(part, cut)
             N(r) == IF r \in cut THEN CutShort(src[r]) ELSE src[r]
  <1>1. \A r \in part : /\ r \in Sources /\ Within(s, r) /\ Target(r) \in Targets
                        /\ new[Target(r)] = N(r)
    <2>1. \A r \in part : r \in Sources /\ Within(s, r)
      BY SubtreeWithin
    <2>2. \A r \in part : Target(r) \in Targets
      BY <2>1, Places
    <2>3. \A r \in part : new[Target(r)] = N(r)
      BY PlacedAt
    <2> QED BY <2>1, <2>2, <2>3
  <1>2. \A t \in Targets : (\A r \in part : Target(r) # t) => new[t] = dst[t]
    BY PlacedAt
  <1>3. DOMAIN new = Targets
    BY DEF Placed
  <1>4. \A r \in part : src[r].kind = "dir" => N(r).kind = "dir"
    BY CutShortKeeps
  <1>5. s \in Seq(Names) /\ Len(s) \in Nat /\ Len(s) >= 2
    BY Places
  <1> HIDE DEF N, new
  <1>6. ASSUME NEW p \in Targets, new[p] # Absent, Len(p) > 1
        PROVE  new[Parent(p)].kind = "dir"
    <2>0. p \in Seq(Names) /\ Len(p) \in Nat /\ Parent(p) \in Targets
      BY <1>6, Places
    <2>1. Len(Parent(p)) = Len(p) - 1
      BY <1>6, <2>0, ParentNames
    <2>2. CASE p = Target(s) /\ s \in part
      <3>1. dst[Parent(p)].kind = "dir"
        BY <1>6, <2>2 DEF HasPlace
      <3>2. ASSUME NEW r \in part, Target(r) = Parent(p)
            PROVE  FALSE
        <4>1. /\ r \in Seq(Names) /\ Len(r) \in Nat /\ Len(r) >= 2
              /\ Within(s, r)
          BY <1>1, Places
        <4>2. Len(r) >= Len(s)
          BY <1>5, <4>1 DEF Within, Beneath
        <4>3. Len(Target(r)) = Len(r) - 1 /\ Len(Target(s)) = Len(s) - 1
          BY <1>5, <4>1, TargetNames
        <4> QED BY <1>5, <2>0, <2>1, <2>2, <3>2, <4>1, <4>2, <4>3
      <3> QED BY <1>2, <2>0, <3>1, <3>2
    <2>3. CASE \E r \in part : p = Target(r) /\ r # s
      <3>1. PICK r \in part : p = Target(r) /\ r # s
        BY <2>3
      <3>2. /\ r \in Sources /\ r \in Seq(Names) /\ Len(r) \in Nat /\ Beneath(s, r)
            /\ Parent(r) \in part /\ src[r] # Absent
        BY <1>1, <3>1, Places DEF Within
      <3>3. Len(r) >= 3
        BY <1>5, <3>2 DEF Beneath
      <3>4. Parent(p) = Target(Parent(r))
        BY <3>1, <3>2, <3>3, ParentOfTarget
      <3>5. src[Parent(r)].kind = "dir"
        BY <3>2, <3>3 DEF Trees, Tree, IsTree
      <3> QED BY <1>1, <1>4, <3>2, <3>4, <3>5
    <2>4. CASE \A r \in part : Target(r) # p
      <3>1. dst[p] # Absent
        BY <1>2, <1>6, <2>4
      <3>2. dst[Parent(p)].kind = "dir"
        BY <1>6, <3>1 DEF Trees, Tree, IsTree
      <3>3. ASSUME NEW r \in part, Target(r) = Parent(p)
            PROVE  FALSE
        <4>1. CASE r = s
          BY <3>2, <3>3, <4>1
        <4>2. CASE Beneath(s, r)
          <5>1. Beneath(Target(s), Target(r))
            BY <1>1, <1>5, <4>2, Places, TargetBeneath
          <5>2. dst[Target(r)] # Absent
            BY <3>2, <3>3 DEF Absent
          <5>3. Target(s) \in Targets /\ Target(r) \in Targets
            BY <1>1, Places
          <5>4. dst[Target(s)].kind = "dir"
            BY <5>1, <5>2, <5>3, Ancestors DEF Trees
          <5> QED BY <5>4
        <4> QED BY <1>1, <4>1, <4>2 DEF Within
      <3> QED BY <1>2, <2>0, <3>2, <3>3
    <2> QED BY <2>2, <2>3, <2>4
  <1>7. Tree(new, Targets, 1)
    BY <1>3, <1>6, Places DEF Tree, IsTree
  <1> QED BY <1>7 DEF new

-----------------------------------------------------------------------------
(* Types.                                                                  *)

\* The child works on an object.
InHand == pc \in {"asking", "clear", "make", "clash"}

\* What each variable of CopyMove can be
TypeOK ==
    /\ src \in [Sources -> Node] /\ dst \in [Targets -> Node]
    /\ op \in {"copy", "move"}
    /\ policy \in {"ask", "replace", "skip", "newer"}
    /\ chosen \in {"none", "ask", "replace", "skip", "newer"}
    /\ pc \in {"next", "asking", "clear", "make", "done", "clash", "rsync", "tidy"}
    /\ cur \in [path: Sources \cup {<<>>}, info: Node, had: Node]
    /\ InHand => cur.path \in Sources
    /\ open \in Seq(Sources)
    /\ left \subseteq Sources /\ allowed \subseteq Sources
    /\ theirs \in [src: SUBSET Sources, dst: SUBSET Targets]

\* An object that has been cut short is one.
LEMMA CutShortType ==
    ASSUME NEW n \in Node
    PROVE  CutShort(n) \in Node
  <1> DEFINE Fields == [kind: Kinds \ {"none"}, time: Int, from: Sources \cup {<<>>}]
  <1>1. CASE n.kind # "file"
    BY <1>1 DEF CutShort
  <1>2. CASE n.kind = "file"
    <2>1. n \in Fields
      BY <1>2 DEF Node, Absent
    <2>2. n = [kind |-> n.kind, time |-> n.time, from |-> n.from]
      BY <2>1
    <2>3. CutShort(n) = [kind |-> "part", time |-> Now, from |-> n.from]
      BY <1>2, <2>2 DEF CutShort
    <2>4. "part" \in Kinds \ {"none"} /\ Now \in Int /\ n.from \in Sources \cup {<<>>}
      BY <2>1, OthersAssumption DEF Kinds
    <2>5. CutShort(n) \in Fields
      BY <2>3, <2>4
    <2> QED BY <2>5 DEF Node
  <1> QED BY <1>1, <1>2

\* 'Placed' gives every target an object.
LEMMA PlacedType ==
    ASSUME TypeOK, NEW part \in SUBSET Sources, NEW cut
    PROVE  Placed(part, cut) \in [Targets -> Node]
  <1>1. ASSUME NEW t \in Targets
        PROVE  Placed(part, cut)[t] \in Node
    <2>1. CASE \E r \in part : Target(r) = t
      <3>1. (CHOOSE r \in part : Target(r) = t) \in part
        BY <2>1
      <3> DEFINE r == CHOOSE r \in part : Target(r) = t
      <3>2. Placed(part, cut)[t] = IF r \in cut THEN CutShort(src[r]) ELSE src[r]
        BY <2>1 DEF Placed
      <3>3. src[r] \in Node
        BY <3>1 DEF TypeOK
      <3> QED BY <3>2, <3>3, CutShortType
    <2>2. CASE ~\E r \in part : Target(r) = t
      BY <2>2 DEF Placed, TypeOK
    <2> QED BY <2>1, <2>2
  <1>2. /\ DOMAIN Placed(part, cut) = Targets
        /\ Placed(part, cut) = [t \in Targets |-> Placed(part, cut)[t]]
    BY DEF Placed
  <1> QED BY <1>1, <1>2

\* The sources that are moved leave nothing.
LEMMA MovedType ==
    ASSUME TypeOK, NEW moved
    PROVE  [r \in Sources |-> IF r \in moved THEN Absent ELSE src[r]] \in [Sources -> Node]
  BY DEF TypeOK, Node

\* An object put at a place leaves the types of the trees.
LEMMA PutType ==
    ASSUME TypeOK, NEW n \in Node
    PROVE  /\ \A s : [src EXCEPT ![s] = n] \in [Sources -> Node]
           /\ \A t : [dst EXCEPT ![t] = n] \in [Targets -> Node]
  BY DEF TypeOK

\* Nothing and what others create are objects.
LEMMA SomeNodes ==
    /\ Absent \in Node
    /\ [kind |-> "file", time |-> Now, from |-> <<>>] \in Node
  BY OthersAssumption DEF Node, Kinds

\* What cur can be.
CurRecord == [path: Sources \cup {<<>>}, info: Node, had: Node]

\* With nothing in hand the child is well.
LEMMA PassedType ==
    ASSUME Passed
    PROVE  cur' \in CurRecord /\ pc' = "next" /\ ~InHand'
  BY SomeNodes DEF Passed, Idle, CurRecord, InHand

\* Nor does an object to work on spoil the types.
LEMMA ProceedType ==
    ASSUME NEW s \in Sources, NEW info \in Node, NEW had \in Node,
           allowed \subseteq Sources, Proceed(s, info, had)
    PROVE  /\ cur' \in CurRecord /\ cur'.path \in Sources
           /\ pc' \in {"make", "clear"} /\ allowed' \subseteq Sources
  <1>1. cur' = [path |-> s, info |-> info, had |-> had]
    BY DEF Proceed
  <1>2. pc' \in {"make", "clear"} /\ (allowed' = allowed \/ allowed' = allowed \cup {s})
    BY DEF Proceed
  <1> QED BY <1>1, <1>2 DEF CurRecord

\* What the child visits next it has still to visit.
LEMMA VisitType ==
    ASSUME TypeOK, NEW s \in Sources, Visit(s)
    PROVE  TypeOK'
  <1>1. src[s] \in Node /\ dst[Target(s)] \in Node
    BY Places DEF TypeOK
  <1>2. UNCHANGED <<src, dst, op, policy, open, chosen, theirs>> /\ left' = left \ {s}
    BY DEF Visit
  <1>3. /\ cur' \in CurRecord /\ allowed' \subseteq Sources
        /\ pc' \in {"next", "asking", "make", "clear"} /\ (InHand' => cur'.path \in Sources)
    <2>1. CASE pc' = "next" /\ UNCHANGED <<cur, allowed>>
      BY <2>1 DEF TypeOK, CurRecord, InHand
    <2>2. CASE Proceed(s, src[s], dst[Target(s)])
      BY <1>1, <2>2, ProceedType DEF TypeOK, InHand
    <2>3. CASE /\ pc' = "asking" /\ allowed' = allowed
               /\ cur' = [path |-> s, info |-> src[s], had |-> dst[Target(s)]]
      BY <1>1, <2>3 DEF TypeOK, CurRecord, InHand
    <2> QED BY <2>1, <2>2, <2>3 DEF Visit
  <1> QED BY <1>2, <1>3 DEF TypeOK, CurRecord

\* An answer of the user leaves the types.
LEMMA UserType ==
    ASSUME TypeOK, User
    PROVE  TypeOK'
  <1>1. UNCHANGED <<src, dst, op, open, left, theirs>> /\ pc = "asking"
    BY DEF User, AnswerYes, AnswerNo, AnswerYesToAll, AnswerNoToAll
  <1>2. /\ policy' \in {"ask", "replace", "skip", "newer"}
        /\ chosen' \in {"none", "ask", "replace", "skip", "newer"}
    BY DEF TypeOK, User, AnswerYes, AnswerNo, AnswerYesToAll, AnswerNoToAll
  <1>3. (Passed /\ allowed' = allowed) \/ Proceed(cur.path, cur.info, cur.had)
    BY DEF User, AnswerYes, AnswerNo, AnswerYesToAll, AnswerNoToAll, GiveUp
  <1>4. cur.path \in Sources /\ cur.info \in Node /\ cur.had \in Node /\ allowed \subseteq Sources
    BY <1>1 DEF TypeOK, InHand
  <1>5. /\ cur' \in CurRecord /\ allowed' \subseteq Sources
        /\ pc' \in {"next", "make", "clear"} /\ (InHand' => cur'.path \in Sources)
    <2>1. CASE Passed /\ allowed' = allowed
      BY <1>4, <2>1, PassedType DEF InHand
    <2>2. CASE Proceed(cur.path, cur.info, cur.had)
      BY <1>4, <2>2, ProceedType
    <2> QED BY <1>3, <2>1, <2>2
  <1> QED BY <1>1, <1>2, <1>5 DEF TypeOK, CurRecord

\* Removing what is in the way leaves the types.
LEMMA ClearType ==
    ASSUME TypeOK, Clear
    PROVE  TypeOK'
  <1>1. UNCHANGED <<src, op, policy, open, left, chosen, allowed, theirs>> /\ pc = "clear"
    BY DEF Clear
  <1>2. dst' \in [Targets -> Node]
    BY SomeNodes, PutType DEF Clear, TypeOK
  <1>3. cur.path \in Sources
    BY <1>1 DEF TypeOK, InHand
  <1>4. cur' \in CurRecord /\ pc' \in {"next", "make"} /\ (InHand' => cur'.path \in Sources)
    <2>1. CASE Passed
      BY <2>1, PassedType
    <2>2. CASE pc' = "make" /\ cur' = cur
      BY <1>3, <2>2 DEF TypeOK, CurRecord, InHand
    <2> QED BY <2>1, <2>2 DEF Clear, GiveUp
  <1> QED BY <1>1, <1>2, <1>4 DEF TypeOK, CurRecord

\* Entering a directory leaves the types.
LEMMA EnterType ==
    ASSUME TypeOK, NEW s \in Sources, EnterAnyhow(s)
    PROVE  /\ open' = Append(open, s) /\ open' \in Seq(Sources) /\ left' \subseteq Sources
           /\ Passed /\ src' = src
  <1>1. Children(src, s) \subseteq Sources
    BY DEF Children, TypeOK
  <1>2. open' = Append(open, s) /\ Passed /\ src' = src
    BY DEF EnterAnyhow, Enter
  <1>3. left' = left \/ left' = left \cup Children(src, s)
    BY DEF EnterAnyhow, Enter
  <1>4. open' \in Seq(Sources)
    BY <1>2, AppendProperties DEF TypeOK
  <1> QED BY <1>1, <1>2, <1>3, <1>4 DEF TypeOK

\* Copying or moving an object leaves the types.
LEMMA MakeType ==
    ASSUME TypeOK, Make
    PROVE  TypeOK'
  <1>1. UNCHANGED <<op, policy, chosen, allowed, theirs>> /\ pc = "make"
    BY DEF Make
  <1>2. cur.path \in Sources /\ cur.info \in Node /\ Here \in Targets
    BY <1>1, Places DEF TypeOK, InHand, Here
  <1>3. src[cur.path] \in Node
    BY <1>2 DEF TypeOK
  <1>4. Moving \subseteq Sources
    BY DEF Moving, Subtree
  <1>5. /\ Passed /\ src' \in [Sources -> Node] /\ dst' \in [Targets -> Node]
        /\ open' \in Seq(Sources) /\ left' \subseteq Sources
    <2>1. CASE Merge
      BY <1>2, <2>1, EnterType DEF Merge, TypeOK
    <2>2. CASE MakeDir
      <3>1. dst' \in [Targets -> Node]
        BY <1>2, <2>2, PutType DEF MakeDir
      <3> QED BY <1>2, <2>2, <3>1, EnterType DEF MakeDir, TypeOK
    <2>3. CASE CopyFile
      BY <1>3, <2>3, PutType DEF CopyFile, TypeOK
    <2>4. CASE CopyLink
      BY <1>3, <2>4, PutType DEF CopyLink, TypeOK
    <2>5. CASE MoveObject
      <3>1. dst' \in [Targets -> Node]
        BY <1>4, <2>5, PlacedType DEF MoveObject
      <3>2. src' \in [Sources -> Node]
        BY <2>5, MovedType DEF MoveObject
      <3> QED BY <2>5, <3>1, <3>2 DEF MoveObject, TypeOK
    <2>6. CASE Fail
      <3>1. dst' \in [Targets -> Node]
        <4>1. CASE dst' = dst
          BY <4>1 DEF TypeOK
        <4>2. CASE \E part \in SUBSET Moving : \E cut : dst' = Placed(part, cut)
          BY <1>4, <4>2, PlacedType
        <4> QED BY <2>6, <4>1, <4>2 DEF Fail
      <3> QED BY <2>6, <3>1 DEF Fail, GiveUp, TypeOK
    <2> QED BY <2>1, <2>2, <2>3, <2>4, <2>5, <2>6 DEF Make
  <1>6. cur' \in CurRecord /\ pc' = "next" /\ ~InHand'
    BY <1>5, PassedType
  <1> QED BY <1>1, <1>5, <1>6 DEF TypeOK, CurRecord

\* The end of a directory leaves the types.
LEMMA LeaveType ==
    ASSUME TypeOK, Leave
    PROVE  TypeOK'
  <1>1. src' \in [Sources -> Node]
    BY SomeNodes, PutType DEF Leave, TypeOK
  <1>2. open' \in Seq(Sources)
    <2>1. Len(open) \in Nat /\ \A i \in 1..(Len(open) - 1) : open[i] \in Sources
      BY LenProperties, ElementOfSeq DEF TypeOK
    <2>2. 1 \in Int /\ Len(open) - 1 \in Int /\ open' = SubSeq(open, 1, Len(open) - 1)
      BY <2>1 DEF Leave
    <2> QED BY <2>1, <2>2, SubSeqProperties, SMT
  <1>3. UNCHANGED <<dst, op, policy, pc, cur, left, chosen, allowed, theirs>>
    BY DEF Leave
  <1> QED BY <1>1, <1>2, <1>3 DEF TypeOK, InHand

\* What other programs do leaves the types.
LEMMA OthersType ==
    ASSUME TypeOK, Others
    PROVE  TypeOK'
  <1>1. UNCHANGED <<op, policy, pc, cur, open, left, chosen, allowed>>
    BY DEF Others, RemoveSource, RemoveTarget, CreateTarget, Undisturbed
  <1>2. /\ src' \in [Sources -> Node] /\ dst' \in [Targets -> Node]
        /\ theirs' \in [src: SUBSET Sources, dst: SUBSET Targets]
    <2>1. ASSUME NEW s \in Vanishing, RemoveSource(s)
          PROVE  /\ src' \in [Sources -> Node] /\ dst' \in [Targets -> Node]
                 /\ theirs' \in [src: SUBSET Sources, dst: SUBSET Targets]
      <3>1. s \in Sources
        BY OthersAssumption
      <3>2. theirs' = [theirs EXCEPT !.src = @ \cup {s}]
        BY <2>1 DEF RemoveSource
      <3>3. theirs' \in [src: SUBSET Sources, dst: SUBSET Targets]
        BY <3>1, <3>2 DEF TypeOK
      <3> QED BY <2>1, <3>3, SomeNodes, PutType DEF RemoveSource, TypeOK
    <2>2. ASSUME NEW t \in Leaving, RemoveTarget(t)
          PROVE  /\ src' \in [Sources -> Node] /\ dst' \in [Targets -> Node]
                 /\ theirs' \in [src: SUBSET Sources, dst: SUBSET Targets]
      <3>1. t \in Targets
        BY OthersAssumption
      <3>2. theirs' = [theirs EXCEPT !.dst = @ \cup {t}]
        BY <2>2 DEF RemoveTarget
      <3>3. theirs' \in [src: SUBSET Sources, dst: SUBSET Targets]
        BY <3>1, <3>2 DEF TypeOK
      <3> QED BY <2>2, <3>3, SomeNodes, PutType DEF RemoveTarget, TypeOK
    <2>3. ASSUME NEW t \in Appearing, CreateTarget(t)
          PROVE  /\ src' \in [Sources -> Node] /\ dst' \in [Targets -> Node]
                 /\ theirs' \in [src: SUBSET Sources, dst: SUBSET Targets]
      <3>1. t \in Targets
        BY OthersAssumption
      <3>2. theirs' = [theirs EXCEPT !.dst = @ \cup {t}]
        BY <2>3 DEF CreateTarget
      <3>3. theirs' \in [src: SUBSET Sources, dst: SUBSET Targets]
        BY <3>1, <3>2 DEF TypeOK
      <3> QED BY <2>3, <3>3, SomeNodes, PutType DEF CreateTarget, TypeOK
    <2> QED BY <2>1, <2>2, <2>3 DEF Others
  <1> QED BY <1>1, <1>2 DEF TypeOK, InHand

\* Every step of the classic engine leaves the types.
LEMMA NextType ==
    ASSUME TypeOK, [Next]_vars
    PROVE  TypeOK'
  <1>1. CASE Finish
    BY <1>1 DEF Finish, TypeOK, InHand
  <1>2. CASE UNCHANGED vars
    BY <1>2 DEF vars, TypeOK, InHand
  <1> QED BY <1>1, <1>2, VisitType, UserType, ClearType, MakeType, LeaveType, OthersType
          DEF Next, Child

\* The child starts with the items that are there.
LEMMA InitType ==
    ASSUME Init
    PROVE  TypeOK /\ Trees
  <1>1. PICK st \in Starts :
          /\ src = st.src /\ dst = st.dst
          /\ IF DestinationHasConflicts(dst)
             THEN chosen = st.choice /\ policy = st.choice
             ELSE chosen = "none" /\ policy = "replace"
    BY DEF Init
  <1>2. /\ src \in [Sources -> Node] /\ dst \in [Targets -> Node]
        /\ IsTree(src, 2) /\ IsTree(dst, 1)
        /\ policy \in {"ask", "replace", "skip", "newer"}
        /\ chosen \in {"none", "ask", "replace", "skip", "newer"}
    BY <1>1, StartsAssumption
  <1>3. Trees
    BY <1>2, Places DEF Trees, Tree
  <1>4. op \in {"copy", "move"} /\ left \subseteq Sources
    BY OpsAssumption DEF Init, Selected
  <1>5. cur \in CurRecord /\ pc = "next" /\ ~InHand
    BY SomeNodes DEF Init, Idle, CurRecord, InHand
  <1>6. open \in Seq(Sources) /\ allowed = {} /\ theirs = [src |-> {}, dst |-> {}]
    BY EmptySeq DEF Init
  <1> QED BY <1>2, <1>3, <1>4, <1>5, <1>6 DEF TypeOK, CurRecord

-----------------------------------------------------------------------------
(* Both sides stay trees.                                                  *)

\* A target that is no directory, or has nothing in it, can be taken away.
LEMMA TakenTarget ==
    ASSUME Trees, NEW t \in Targets, Children(dst, t) = {} \/ dst[t].kind # "dir"
    PROVE  Tree([dst EXCEPT ![t] = Absent], Targets, 1)
  <1>1. Children(dst, t) = {}
    BY NothingInside DEF Trees
  <1> QED BY <1>1, PutTree DEF Trees

\* So can a source.
LEMMA TakenSource ==
    ASSUME Trees, NEW s \in Sources, Children(src, s) = {} \/ src[s].kind # "dir"
    PROVE  Tree([src EXCEPT ![s] = Absent], Sources, 2)
  <1>1. Tree(src, Sources, 2) /\ 2 \in Nat \ {0}
    BY DEF Trees
  <1>2. Children(src, s) = {}
    BY <1>1, NothingInside
  <1> QED BY <1>1, <1>2, PutTree

\* Something can be put where its directory is and no directory is in the way.
LEMMA PutTarget ==
    ASSUME Trees, NEW t \in Targets, NEW n, HasPlace(t),
           n.kind = "dir" \/ dst[t].kind # "dir"
    PROVE  Tree([dst EXCEPT ![t] = n], Targets, 1)
  <1>1. n.kind = "dir" \/ Children(dst, t) = {}
    BY NothingInside DEF Trees
  <1>2. Len(t) <= 1 \/ dst[Parent(t)].kind = "dir"
    BY Places DEF HasPlace
  <1> QED BY <1>1, <1>2, PutTree DEF Trees

\* What is moved in whole is in its directory, or that is moved as well.
LEMMA MovingClosed ==
    ASSUME Trees, cur.path \in Sources
    PROVE  \A r \in Moving : src[r] # Absent /\ (r = cur.path \/ Parent(r) \in Moving)
  <1> SUFFICES ASSUME NEW r \in Moving, r # cur.path
               PROVE  Parent(r) \in Moving
    BY DEF Moving
  <1>1. r \in Sources /\ Beneath(cur.path, r) /\ src[r] # Absent
    BY DEF Moving, Subtree
  <1>2. cur.path \in Seq(Names) /\ r \in Seq(Names) /\ Len(cur.path) >= 2 /\ Len(r) > 2
    <2>1. Len(r) > Len(cur.path)
      BY <1>1 DEF Beneath
    <2> QED BY <1>1, <2>1, Places
  <1>3. Within(cur.path, Parent(r)) /\ Parent(r) \in Sources
    BY <1>1, <1>2, ParentWithin, Places
  <1>4. src[Parent(r)] # Absent
    BY <1>1, <1>2 DEF Trees, Tree, IsTree, Absent
  <1> QED BY <1>3, <1>4, SubtreeWithin DEF Moving

\* Copying or moving an object keeps both trees.
LEMMA MakeTrees ==
    ASSUME TypeOK, Trees, Make
    PROVE  Trees'
  <1>1. cur.path \in Sources /\ Here \in Targets /\ Here = Target(cur.path)
    BY Places DEF Make, TypeOK, InHand, Here
  <1>2. Tree(src', Sources, 2) /\ Tree(dst', Targets, 1)
    <2>1. CASE Merge
      BY <1>1, <2>1, EnterType DEF Merge, Trees
    <2>2. CASE MakeDir
      <3>1. src' = src
        BY <1>1, <2>2, EnterType DEF MakeDir
      <3> QED BY <1>1, <2>2, <3>1, PutTarget DEF MakeDir, Trees
    <2>3. CASE CopyFile
      BY <1>1, <2>3, PutTarget DEF CopyFile, Trees
    <2>4. CASE CopyLink
      <3>1. dst[Here].kind # "dir"
        BY <2>4 DEF CopyLink, Exists, Absent
      <3> QED BY <1>1, <2>4, <3>1, PutTarget DEF CopyLink, Trees
    <2>5. CASE MoveObject
      <3>1. Tree(dst', Targets, 1)
        BY <1>1, <2>5, MovingClosed, PlacedTree DEF MoveObject, Moving
      <3>2. Tree(src', Sources, 2)
        BY <1>1, <2>5, SubtreeGone DEF MoveObject, Moving, Trees
      <3> QED BY <3>1, <3>2
    <2>6. CASE Fail
      <3>1. CASE dst' = dst
        BY <2>6, <3>1 DEF Fail, Trees
      <3>2. CASE /\ HasPlace(Here) /\ dst[Here].kind # "dir"
                 /\ \E part \in SUBSET Moving :
                      /\ \A r \in part : r = cur.path \/ Parent(r) \in part
                      /\ \E cut : dst' = Placed(part, cut)
        <4>1. PICK part \in SUBSET Moving :
                      /\ \A r \in part : r = cur.path \/ Parent(r) \in part
                      /\ \E cut : dst' = Placed(part, cut)
          BY <3>2
        <4>2. PICK cut : dst' = Placed(part, cut)
          BY <4>1
        <4>3. part \in SUBSET Subtree(cur.path) /\ \A r \in part : src[r] # Absent
          BY DEF Moving
        <4>4. Tree(dst', Targets, 1)
          BY <1>1, <3>2, <4>1, <4>2, <4>3, PlacedTree
        <4> QED BY <2>6, <4>4 DEF Fail, Trees
      <3> QED BY <2>6, <3>1, <3>2 DEF Fail
    <2> QED BY <2>1, <2>2, <2>3, <2>4, <2>5, <2>6 DEF Make
  <1> QED BY <1>2 DEF Trees

\* Every step of the classic engine keeps both trees: it removes directories with
\* rmdir() and puts nothing over one.
LEMMA NextTrees ==
    ASSUME TypeOK, Trees, [Next]_vars
    PROVE  Trees'
  <1>1. ASSUME NEW s \in Sources, Visit(s)
        PROVE  Trees'
    BY <1>1 DEF Visit, Trees
  <1>2. CASE Clear
    <2>1. Here \in Targets
      BY <1>2, Places DEF Clear, TypeOK, InHand, Here
    <2>2. CASE Removable /\ dst' = [dst EXCEPT ![Here] = Absent]
      <3>1. Tree(dst', Targets, 1)
        BY <2>1, <2>2, TakenTarget DEF Removable
      <3> QED BY <1>2, <3>1 DEF Clear, Trees
    <2>3. CASE dst' = dst
      BY <1>2, <2>3 DEF Clear, Trees
    <2> QED BY <1>2, <2>2, <2>3 DEF Clear
  <1>3. CASE Make
    BY <1>3, MakeTrees
  <1>4. CASE Leave
    <2>1. CASE src' = src
      BY <1>4, <2>1 DEF Leave, Trees
    <2>2. CASE src' # src
      <3>1. open[Len(open)] \in Sources
        <4>1. open # <<>> /\ open \in Seq(Sources)
          BY <1>4 DEF Leave, TypeOK
        <4>2. Len(open) \in 1..Len(open)
          BY <4>1, EmptySeq, LenProperties
        <4> QED BY <4>1, <4>2, ElementOfSeq
      <3>2. /\ Children(src, open[Len(open)]) = {}
            /\ src' = [src EXCEPT ![open[Len(open)]] = Absent]
            /\ dst' = dst
        BY <1>4, <2>2 DEF Leave
      <3>3. Tree(src', Sources, 2)
        BY <3>1, <3>2, TakenSource
      <3> QED BY <3>2, <3>3 DEF Trees
    <2> QED BY <2>1, <2>2
  <1>5. CASE Finish
    BY <1>5 DEF Finish, Trees
  <1>6. CASE User
    BY <1>6 DEF User, AnswerYes, AnswerNo, AnswerYesToAll, AnswerNoToAll, Trees
  <1>7. ASSUME NEW s \in Vanishing, RemoveSource(s)
        PROVE  Trees'
    <2>1. Tree(src', Sources, 2)
      BY <1>7, OthersAssumption, TakenSource DEF RemoveSource
    <2> QED BY <1>7, <2>1 DEF RemoveSource, Trees
  <1>8. ASSUME NEW t \in Leaving, RemoveTarget(t)
        PROVE  Trees'
    <2>1. Tree(dst', Targets, 1)
      BY <1>8, OthersAssumption, TakenTarget DEF RemoveTarget
    <2> QED BY <1>8, <2>1 DEF RemoveTarget, Trees
  <1>9. ASSUME NEW t \in Appearing, CreateTarget(t)
        PROVE  Trees'
    <2>1. t \in Targets /\ HasPlace(t) /\ dst[t].kind # "dir"
      BY <1>9, OthersAssumption DEF CreateTarget, Exists, Absent
    <2>2. Tree(dst', Targets, 1)
      BY <1>9, <2>1, PutTarget DEF CreateTarget
    <2> QED BY <1>9, <2>2 DEF CreateTarget, Trees
  <1>10. CASE UNCHANGED vars
    BY <1>10 DEF vars, Trees
  <1> QED BY <1>1, <1>2, <1>3, <1>4, <1>5, <1>6, <1>7, <1>8, <1>9, <1>10
          DEF Next, Child, Others

-----------------------------------------------------------------------------
(* The steps with rsync.                                                   *)

\* What the variables of both engines can be
HybridTypeOK == TypeOK /\ listed \subseteq Sources /\ sending \subseteq Sources

\* rsync is started with sources.
LEMMA RunRsyncType ==
    ASSUME NEW items \in SUBSET Sources, RunRsync(items)
    PROVE  pc' = "rsync" /\ listed' \subseteq Sources /\ sending' \subseteq Sources
  BY DEF RunRsync, Subtree

\* The steps before rsync runs leave the types and, but for the removal of what is
\* in the way, the files.
LEMMA BeforeRsync ==
    ASSUME HybridTypeOK, Trees,
           \/ \E s \in Sources : RenameItem(s) \/ RsyncItem(s)
           \/ BatchCopy \/ RemoveClash
    PROVE  HybridTypeOK' /\ Trees'
  <1>1. ASSUME NEW s \in Sources, RenameItem(s)
        PROVE  HybridTypeOK' /\ Trees'
    BY <1>1 DEF RenameItem, vars, rsyncVars, HybridTypeOK, TypeOK, InHand, Trees
  <1>2. ASSUME NEW s \in Sources, RsyncItem(s)
        PROVE  HybridTypeOK' /\ Trees'
    <2>1. /\ UNCHANGED <<src, dst, op, policy, open, chosen, theirs>>
          /\ left' = left \ {s} /\ pc = "next"
      BY <1>2 DEF RsyncItem, FastItem
    <2>2. src[s] \in Node /\ dst[Target(s)] \in Node
      BY Places DEF HybridTypeOK, TypeOK
    <2>3. /\ cur' \in CurRecord /\ allowed' \subseteq Sources
          /\ pc' \in {"next", "clash", "rsync"} /\ (InHand' => cur'.path \in Sources)
          /\ listed' \subseteq Sources /\ sending' \subseteq Sources
      <3>1. CASE UNCHANGED <<pc, cur, allowed, rsyncVars>>
        BY <2>1, <3>1 DEF HybridTypeOK, TypeOK, CurRecord, InHand, rsyncVars
      <3>2. CASE /\ cur' = [path |-> s, info |-> src[s], had |-> dst[Target(s)]]
                 /\ pc' = "clash"
                 /\ allowed' = IF chosen = "none" THEN allowed ELSE allowed \cup {s}
                 /\ UNCHANGED rsyncVars
        BY <2>2, <3>2 DEF HybridTypeOK, TypeOK, CurRecord, InHand, rsyncVars
      <3>3. CASE /\ cur' = [path |-> s, info |-> src[s], had |-> dst[Target(s)]]
                 /\ RunRsync({s}) /\ UNCHANGED allowed
        BY <2>2, <3>3, RunRsyncType DEF HybridTypeOK, TypeOK, CurRecord, InHand
      <3> QED BY <1>2, <3>1, <3>2, <3>3 DEF RsyncItem
    <2> QED BY <2>1, <2>3 DEF HybridTypeOK, TypeOK, CurRecord, Trees
  <1>3. CASE BatchCopy
    <2>1. UNCHANGED <<src, dst, op, policy, cur, open, chosen, allowed, theirs>>
      BY <1>3 DEF BatchCopy
    <2>2. CASE RunRsync(left) /\ left' = {}
      <3>1. pc' = "rsync" /\ listed' \subseteq Sources /\ sending' \subseteq Sources
        BY <2>2, RunRsyncType DEF HybridTypeOK, TypeOK
      <3> QED BY <2>1, <2>2, <3>1 DEF HybridTypeOK, TypeOK, InHand, Trees
    <2>3. CASE UNCHANGED <<pc, left, rsyncVars>>
      BY <2>1, <2>3 DEF HybridTypeOK, TypeOK, InHand, Trees, rsyncVars
    <2> QED BY <1>3, <2>2, <2>3 DEF BatchCopy
  <1>4. CASE RemoveClash
    <2>1. /\ UNCHANGED <<src, op, policy, open, left, chosen, allowed, theirs>>
          /\ cur.path \in Sources /\ Here \in Targets
      BY <1>4, Places DEF RemoveClash, HybridTypeOK, TypeOK, InHand, Here
    <2>2. CASE /\ Removable /\ dst' = [dst EXCEPT ![Here] = Absent]
               /\ RunRsync({cur.path}) /\ UNCHANGED cur
      <3>1. pc' = "rsync" /\ listed' \subseteq Sources /\ sending' \subseteq Sources
        BY <2>1, <2>2, RunRsyncType
      <3>2. Tree(dst', Targets, 1)
        BY <2>1, <2>2, TakenTarget DEF Removable
      <3>3. dst' \in [Targets -> Node]
        BY <2>2, SomeNodes, PutType DEF HybridTypeOK
      <3> QED BY <2>1, <2>2, <3>1, <3>2, <3>3 DEF HybridTypeOK, TypeOK, InHand, Trees
    <2>3. CASE Passed /\ UNCHANGED <<dst, rsyncVars>>
      <3>1. cur' \in CurRecord /\ pc' = "next" /\ ~InHand'
        BY <2>3, PassedType
      <3> QED BY <2>1, <2>3, <3>1 DEF HybridTypeOK, TypeOK, CurRecord, Trees, rsyncVars
    <2> QED BY <1>4, <2>2, <2>3 DEF RemoveClash, GiveUp
  <1> QED BY <1>1, <1>2, <1>3, <1>4

\* So do the steps of rsync: it makes a directory only where nothing is, and neither
\* puts anything over one nor removes one at the source.
LEMMA RsyncTrees ==
    ASSUME HybridTypeOK, Trees, Rsync
    PROVE  HybridTypeOK' /\ Trees'
  <1>1. ASSUME NEW r \in Sources, Look(r)
        PROVE  HybridTypeOK' /\ Trees'
    <2>1. /\ UNCHANGED <<src, op, policy, pc, cur, open, left, chosen, theirs>>
          /\ listed' = listed \ {r}
      BY <1>1 DEF Look
    <2>2. allowed' \subseteq Sources /\ sending' \subseteq Sources
      BY <1>1 DEF Look, HybridTypeOK, TypeOK
    <2>3. dst' \in [Targets -> Node] /\ Tree(dst', Targets, 1)
      <3>1. CASE dst' = dst
        BY <3>1 DEF HybridTypeOK, TypeOK, Trees
      <3>2. CASE /\ dst' = [dst EXCEPT ![Target(r)] = src[r]]
                 /\ src[r].kind = "dir" /\ HasPlace(Target(r))
        <4>1. Target(r) \in Targets /\ src[r] \in Node
          BY Places DEF HybridTypeOK, TypeOK
        <4> QED BY <3>2, <4>1, PutType, PutTarget DEF HybridTypeOK
      <3> QED BY <1>1, <3>1, <3>2 DEF Look, IsDir
    <2> QED BY <2>1, <2>2, <2>3 DEF HybridTypeOK, TypeOK, InHand, Trees
  <1>2. ASSUME NEW r \in Sources, Arrive(r)
        PROVE  HybridTypeOK' /\ Trees'
    <2>1. /\ UNCHANGED <<op, policy, pc, cur, open, left, chosen, allowed, theirs, listed>>
          /\ sending' = sending \ {r}
      BY <1>2 DEF Arrive
    <2>2. Target(r) \in Targets /\ src[r] \in Node
      BY Places DEF HybridTypeOK, TypeOK
    <2>3. dst' \in [Targets -> Node] /\ Tree(dst', Targets, 1)
      BY <1>2, <2>2, PutType, PutTarget DEF Arrive, IsDir, HybridTypeOK
    <2>4. src' \in [Sources -> Node] /\ Tree(src', Sources, 2)
      <3>1. CASE src' = src
        BY <3>1 DEF HybridTypeOK, TypeOK, Trees
      <3>2. CASE src' = [src EXCEPT ![r] = Absent] /\ src[r].kind # "dir"
        BY <3>2, SomeNodes, PutType, TakenSource DEF HybridTypeOK
      <3> QED BY <1>2, <3>1, <3>2 DEF Arrive, IsDir
    <2> QED BY <2>1, <2>3, <2>4 DEF HybridTypeOK, TypeOK, InHand, Trees
  <1>3. ASSUME NEW r \in Sources, NotSent(r)
        PROVE  HybridTypeOK' /\ Trees'
    BY <1>3 DEF NotSent, vars, HybridTypeOK, TypeOK, InHand, Trees
  <1>4. ASSUME NEW r \in Sources, Tidy(r)
        PROVE  HybridTypeOK' /\ Trees'
    <2>1. /\ UNCHANGED <<dst, op, policy, pc, cur, open, left, chosen, allowed, theirs, sending>>
          /\ listed' = listed \ {r}
      BY <1>4 DEF Tidy
    <2>2. src' \in [Sources -> Node] /\ Tree(src', Sources, 2)
      <3>1. CASE src' = src
        BY <3>1 DEF HybridTypeOK, TypeOK, Trees
      <3>2. CASE src' = [src EXCEPT ![r] = Absent] /\ Children(src, r) = {}
        BY <3>2, SomeNodes, PutType, TakenSource DEF HybridTypeOK
      <3> QED BY <1>4, <3>1, <3>2 DEF Tidy
    <2> QED BY <2>1, <2>2 DEF HybridTypeOK, TypeOK, InHand, Trees
  <1>5. CASE RsyncDies
    <2>1. /\ UNCHANGED <<src, op, policy, pc, cur, open, left, chosen, allowed, theirs>>
          /\ listed' = {} /\ sending' = {}
      BY <1>5 DEF RsyncDies
    <2>2. dst' \in [Targets -> Node] /\ Tree(dst', Targets, 1)
      <3>1. CASE dst' = dst
        BY <3>1 DEF HybridTypeOK, TypeOK, Trees
      <3>2. ASSUME NEW r \in sending, HasPlace(Target(r)), ~IsDir(dst[Target(r)]),
                   dst' = [dst EXCEPT ![Target(r)] = CutShort(src[r])]
            PROVE  dst' \in [Targets -> Node] /\ Tree(dst', Targets, 1)
        <4>1. Target(r) \in Targets /\ CutShort(src[r]) \in Node
          BY Places, CutShortType DEF HybridTypeOK, TypeOK
        <4> QED BY <3>2, <4>1, PutType, PutTarget DEF IsDir, HybridTypeOK
      <3> QED BY <1>5, <3>1, <3>2 DEF RsyncDies
    <2> QED BY <2>1, <2>2 DEF HybridTypeOK, TypeOK, InHand, Trees
  <1>6. CASE RsyncEnds
    <2>1. UNCHANGED <<src, dst, op, policy, open, left, chosen, allowed, theirs, sending>>
      BY <1>6 DEF RsyncEnds
    <2>2. CASE Passed /\ UNCHANGED listed
      <3>1. cur' \in CurRecord /\ pc' = "next" /\ ~InHand'
        BY <2>2, PassedType
      <3> QED BY <2>1, <2>2, <3>1 DEF HybridTypeOK, TypeOK, CurRecord, Trees
    <2>3. CASE /\ pc' = "tidy" /\ UNCHANGED cur
               /\ listed' = {r \in Subtree(cur.path) : IsDir(src[r])}
      <3>1. listed' \subseteq Sources /\ ~InHand'
        BY <2>3 DEF Subtree, InHand
      <3> QED BY <2>1, <2>3, <3>1 DEF HybridTypeOK, TypeOK, Trees
    <2> QED BY <1>6, <2>2, <2>3 DEF RsyncEnds
  <1>7. CASE Tidied
    <2>1. cur' \in CurRecord /\ pc' = "next" /\ ~InHand'
      BY <1>7, PassedType DEF Tidied
    <2> QED BY <1>7, <2>1
            DEF Tidied, hybridVars, rsyncVars, HybridTypeOK, TypeOK, CurRecord, Trees
  <1> QED BY <1>1, <1>2, <1>3, <1>4, <1>5, <1>6, <1>7 DEF Rsync

\* So do all steps.
LEMMA HybridTrees ==
    ASSUME HybridTypeOK, Trees, [HybridNext]_allVars
    PROVE  HybridTypeOK' /\ Trees'
  <1>1. CASE [Next]_vars /\ UNCHANGED rsyncVars
    <2>1. TypeOK' /\ Trees'
      BY <1>1, NextType, NextTrees DEF HybridTypeOK
    <2> QED BY <1>1, <2>1 DEF HybridTypeOK, rsyncVars
  <1>2. CASE Rsync
    BY <1>2, RsyncTrees
  <1>3. CASE \/ \E s \in Sources : RenameItem(s) \/ RsyncItem(s)
             \/ BatchCopy \/ RemoveClash
    BY <1>3, BeforeRsync
  <1>4. [HybridNext]_allVars =>
          \/ [Next]_vars /\ UNCHANGED rsyncVars
          \/ Rsync
          \/ \E s \in Sources : RenameItem(s) \/ RsyncItem(s)
          \/ BatchCopy \/ RemoveClash
    <2>1. ASSUME NEW s \in Sources, ClassicVisit(s)
          PROVE  Next /\ UNCHANGED rsyncVars
      BY <2>1 DEF ClassicVisit, Next, Child
    <2>2. CASE UNCHANGED allVars
      BY <2>2 DEF allVars, hybridVars
    <2>3. CASE (Clear \/ Make \/ Leave \/ Finish) /\ UNCHANGED hybridVars
      BY <2>3 DEF Next, Child, hybridVars
    <2>4. CASE (User \/ Others) /\ UNCHANGED hybridVars
      BY <2>4 DEF Next, hybridVars
    <2> QED BY <2>1, <2>2, <2>3, <2>4 DEF HybridNext, HybridChild
  <1> QED BY <1>1, <1>2, <1>3, <1>4

\* At the start both sides are trees.
LEMMA HybridInitTrees ==
    ASSUME HybridInit
    PROVE  HybridTypeOK /\ Trees
  <1>1. TypeOK /\ Trees
    BY InitType DEF HybridInit
  <1> QED BY <1>1 DEF HybridInit, HybridTypeOK

\* Both sides stay trees, whichever engine works and whatever the other programs do:
\* neither removes, moves away or overwrites a directory under what has come into it.
THEOREM BothStayTrees == HybridSpec => []StaysTree
<1>1. HybridInit => HybridTypeOK /\ Trees
  BY HybridInitTrees
<1>2. (HybridTypeOK /\ Trees) /\ [HybridNext]_allVars => (HybridTypeOK /\ Trees)'
  BY HybridTrees
<1>3. Trees => StaysTree
  BY DEF Trees, Tree, StaysTree
<1> QED BY <1>1, <1>2, <1>3, PTL DEF HybridSpec

-----------------------------------------------------------------------------
(* The classic engine keeps its promise.                                   *)

\* No two sources have the same target: the items come from one directory.
NoTwins == \A r, s \in Sources : Target(r) = Target(s) => r = s

\* Where the policy is to keep what is newer, no directory meets anything else that
\* is not older than it (do_copy2() and do_move2() do not compare its age).
DirectoriesAreNewer ==
    \A st \in Starts : st.choice = "newer" =>
        \A s \in Sources : st.src[s].kind = "dir" =>
            /\ Target(s) \notin Appearing
            /\ \/ st.dst[Target(s)].kind \in {"none", "dir"}
               \/ st.dst[Target(s)].time < st.src[s].time

\* What the child has still to visit, or is working on
Pending == left \cup (IF InHand THEN {cur.path} ELSE {})

\* Nothing is there, or another program has put it there.
TheirsOrNothing(t) == dst[t] = Absent \/ t \in theirs.dst

\* What is pending is not inside something else that is, nor a directory that is
\* open or around one.
Apart ==
    /\ InHand => cur.path \notin left
    /\ \A p, q \in Pending : ~Beneath(p, q)
    /\ \A i \in 1..Len(open) : \A p \in Pending : ~Within(p, open[i])

\* Without a question at the start there is nothing in the way.
NothingInTheWay ==
    chosen = "none" =>
        \A p \in Pending : \A r \in Subtree(p) : TheirsOrNothing(Target(r))

\* What is to be cleared or written over has been agreed to, or has come since.
Consented ==
    /\ pc = "asking" /\ cur.had = Absent => TheirsOrNothing(Here)
    /\ \/ pc \in {"clear", "clash"}
       \/ pc = "make" /\ ~MergesDirs(cur.info, cur.had)
       => cur.path \in allowed \/ TheirsOrNothing(Here)

\* The directories that are open have arrived.
OpenArrived ==
    \A i \in 1..Len(open) :
        dst[Target(open[i])].kind = "dir" \/ Target(open[i]) \in theirs.dst

\* The policy is what the user has chosen; he is asked only if that is his choice.
PolicyChosen ==
    /\ policy = chosen \/ (chosen = "none" /\ policy = "replace")
    /\ pc = "asking" /\ cur.had # Absent => policy = "ask"

\* A directory meets nothing else that is not older.
StillNewer ==
    policy = "newer" =>
        \A s \in Sources : src[s].kind = "dir" =>
            /\ Target(s) \notin Appearing
            /\ \/ dst[Target(s)].kind \in {"none", "dir"}
               \/ dst[Target(s)].time < src[s].time

\* What is pending are sources.
LEMMA PendingType ==
    ASSUME TypeOK
    PROVE  /\ Pending \subseteq Sources
           /\ InHand => cur.path \in Pending /\ cur.path \in Sources
           /\ left \subseteq Pending
           /\ \A i \in 1..Len(open) : open[i] \in Sources
  <1>1. \A i \in 1..Len(open) : open[i] \in Sources
    BY ElementOfSeq DEF TypeOK
  <1> QED BY <1>1 DEF TypeOK, Pending

\* What is in hand shares no place with what is still to be visited, or is open.
LEMMA OtherPlaces ==
    ASSUME NoTwins, TypeOK, Apart, InHand
    PROVE  /\ \A p \in left : \A r \in Subtree(p) : \A q \in Subtree(cur.path) :
                Target(r) # Target(q)
           /\ \A i \in 1..Len(open) : \A q \in Subtree(cur.path) :
                Target(open[i]) # Target(q)
  <1>0. cur.path \in Sources /\ cur.path \in Pending /\ left \subseteq Pending
        /\ left \subseteq Sources /\ cur.path \notin left
    BY PendingType DEF Apart, TypeOK
  <1>1. ASSUME NEW p \in left, NEW r \in Subtree(p), NEW q \in Subtree(cur.path),
               Target(r) = Target(q)
        PROVE  FALSE
    <2>1. /\ r \in Sources /\ Within(p, r)
          /\ q \in Sources /\ Within(cur.path, q)
      BY <1>0, SubtreeWithin
    <2>2. r = q
      BY <1>1, <2>1 DEF NoTwins
    <2>3. Within(p, cur.path) \/ Within(cur.path, p)
      BY <1>0, <2>1, <2>2, Places, Comparable
    <2>4. p # cur.path /\ ~Beneath(p, cur.path) /\ ~Beneath(cur.path, p)
      BY <1>0 DEF Apart
    <2> QED BY <2>3, <2>4 DEF Within
  <1>2. ASSUME NEW i \in 1..Len(open), NEW q \in Subtree(cur.path),
               Target(open[i]) = Target(q)
        PROVE  FALSE
    <2>1. open[i] \in Sources /\ q \in Sources /\ Within(cur.path, q)
      BY <1>0, SubtreeWithin, PendingType
    <2>2. open[i] = q
      BY <1>2, <2>1 DEF NoTwins
    <2> QED BY <1>0, <2>1, <2>2 DEF Apart
  <1> QED BY <1>1, <1>2

\* Less pending, and no more directories open, is as much apart.
LEMMA LessPending ==
    ASSUME Apart, Pending' \subseteq Pending, InHand' => cur'.path \notin left',
           Len(open') <= Len(open), Len(open) \in Nat, Len(open') \in Nat,
           \A i \in 1..Len(open') : open'[i] = open[i]
    PROVE  Apart'
  <1>1. \A p, q \in Pending' : ~Beneath(p, q)
    BY DEF Apart
  <1>2. ASSUME NEW i \in 1..Len(open'), NEW p \in Pending'
        PROVE  ~Within(p, open'[i])
    <2>1. i \in 1..Len(open) /\ open'[i] = open[i] /\ p \in Pending
      OBVIOUS
    <2> QED BY <2>1 DEF Apart
  <1>3. \A p, q : Beneath(p, q)' = Beneath(p, q)
    BY DEF Beneath
  <1>4. \A i \in 1..Len(open') : \A p \in Pending' : ~Within(p, open'[i])
    BY <1>2
  <1> QED BY <1>1, <1>4 DEF Apart, Within, Beneath

\* The parts of the invariant that say where the operation is
Orderly ==
    Apart /\ NothingInTheWay /\ Consented /\ OpenArrived /\ PolicyChosen /\ StillNewer

\* The invariant of the classic engine
PromiseInv == TypeOK /\ Trees /\ Orderly

\* Nothing in the way of less is pending if the files are as before.
LEMMA LessInTheWay ==
    ASSUME NothingInTheWay, Pending' \subseteq Pending, dst' = dst, theirs' = theirs,
           chosen' = "none" => chosen = "none"
    PROVE  NothingInTheWay'
  BY DEF NothingInTheWay, TheirsOrNothing, Subtree, Beneath

\* The user's consent goes with the object that is taken in hand.
LEMMA ProceedConsented ==
    ASSUME TypeOK, NEW s \in Sources, NEW info, NEW had, Proceed(s, info, had),
           dst' = dst, theirs' = theirs,
           had = Absent \/ chosen = "none" => MergesDirs(info, had) \/ TheirsOrNothing(Target(s))
    PROVE  Consented' /\ cur'.path = s /\ (pc' = "make" \/ pc' = "clear")
  <1>1. cur' = [path |-> s, info |-> info, had |-> had] /\ Here' = Target(s)
    BY DEF Proceed, Here
  <1>2. TheirsOrNothing(Here)' <=> TheirsOrNothing(Target(s))
    BY <1>1 DEF TheirsOrNothing
  <1>3. CASE had = Absent \/ MergesDirs(info, had)
    <2>1. pc' = "make" /\ MergesDirs(cur'.info, cur'.had) = MergesDirs(info, had)
      BY <1>1, <1>3 DEF Proceed
    <2>2. MergesDirs(info, had) \/ TheirsOrNothing(Target(s))
      BY <1>3
    <2> QED BY <1>1, <1>2, <2>1, <2>2 DEF Consented
  <1>4. CASE ~(had = Absent \/ MergesDirs(info, had))
    <2>1. /\ pc' = "clear"
          /\ allowed' = IF chosen = "none" THEN allowed ELSE allowed \cup {s}
      BY <1>4 DEF Proceed
    <2>2. s \in allowed' \/ TheirsOrNothing(Target(s))
      BY <1>4, <2>1
    <2> QED BY <1>1, <1>2, <2>1, <2>2 DEF Consented
  <1> QED BY <1>3, <1>4

\* Visiting an object keeps order.
LEMMA VisitOrderly ==
    ASSUME TypeOK, Orderly, NEW s \in Sources, Visit(s)
    PROVE  Orderly'
  <1>1. /\ UNCHANGED <<src, dst, op, policy, open, chosen, theirs>>
        /\ left' = left \ {s} /\ pc = "next" /\ s \in left
    BY DEF Visit, Frontier
  <1>2. Pending = left /\ s \in Pending
    BY <1>1 DEF Pending, InHand
  <1>3. TheirsOrNothing(Target(s)) \/ chosen # "none"
    <2>1. s \in Subtree(s)
      BY DEF Subtree
    <2> QED BY <1>2, <2>1 DEF Orderly, NothingInTheWay
  <1>4. /\ Consented' /\ (InHand' => cur'.path = s)
        /\ (pc' = "asking" /\ cur'.had # Absent => policy = "ask")
    <2>1. CASE pc' = "next"
      BY <2>1 DEF Consented, InHand
    <2>2. CASE Proceed(s, src[s], dst[Target(s)])
      <3>1. dst[Target(s)] = Absent \/ chosen = "none"
              => MergesDirs(src[s], dst[Target(s)]) \/ TheirsOrNothing(Target(s))
        BY <1>3 DEF TheirsOrNothing
      <3> QED BY <1>1, <2>2, <3>1, ProceedConsented
    <2>3. CASE /\ pc' = "asking"
               /\ cur' = [path |-> s, info |-> src[s], had |-> dst[Target(s)]]
               /\ IF dst[Target(s)] = Absent THEN TRUE ELSE policy = "ask"
      <3>1. Here' = Target(s) /\ cur'.had = dst[Target(s)] /\ cur'.path = s
        BY <2>3 DEF Here
      <3>2. cur'.had = Absent => TheirsOrNothing(Here)'
        BY <1>1, <3>1 DEF TheirsOrNothing
      <3>3. cur'.had # Absent => policy = "ask"
        BY <2>3, <3>1
      <3> QED BY <2>3, <3>1, <3>2, <3>3 DEF Consented
    <2> QED BY <2>1, <2>2, <2>3 DEF Visit
  <1>5. Pending' \subseteq Pending /\ (InHand' => cur'.path \notin left')
    BY <1>1, <1>2, <1>4 DEF Pending
  <1>6. Apart'
    <2>1. Len(open) \in Nat /\ open' = open
      BY <1>1, LenProperties DEF TypeOK
    <2> QED BY <1>5, <2>1, LessPending DEF Orderly
  <1>7. NothingInTheWay'
    BY <1>1, <1>5, LessInTheWay DEF Orderly
  <1>8. OpenArrived' /\ StillNewer'
    BY <1>1 DEF Orderly, OpenArrived, StillNewer
  <1>9. PolicyChosen'
    BY <1>1, <1>4 DEF Orderly, PolicyChosen
  <1> QED BY <1>4, <1>6, <1>7, <1>8, <1>9 DEF Orderly

\* An answer of the user keeps order.
LEMMA UserOrderly ==
    ASSUME TypeOK, Orderly, User
    PROVE  Orderly'
  <1>1. UNCHANGED <<src, dst, op, open, left, theirs>> /\ pc = "asking" /\ InHand
    BY DEF User, AnswerYes, AnswerNo, AnswerYesToAll, AnswerNoToAll, InHand
  <1>2. cur.path \in Sources /\ Here = Target(cur.path) /\ Pending = left \cup {cur.path}
    BY <1>1 DEF TypeOK, Here, Pending
  <1>3. /\ Consented' /\ (InHand' => cur'.path = cur.path)
        /\ pc' # "asking"
    <2>1. CASE Passed
      BY <2>1 DEF Passed, Consented, InHand
    <2>2. CASE Proceed(cur.path, cur.info, cur.had)
      <3>1. cur.had = Absent => TheirsOrNothing(Target(cur.path))
        BY <1>1, <1>2 DEF Orderly, Consented
      <3>2. chosen = "none" => cur.had = Absent
        BY <1>1 DEF Orderly, PolicyChosen
      <3>3. cur.had = Absent \/ chosen = "none"
              => MergesDirs(cur.info, cur.had) \/ TheirsOrNothing(Target(cur.path))
        BY <3>1, <3>2
      <3> QED BY <1>1, <1>2, <2>2, <3>3, ProceedConsented
    <2> QED BY <2>1, <2>2 DEF User, AnswerYes, AnswerNo, AnswerYesToAll, AnswerNoToAll, GiveUp
  <1>4. Pending' \subseteq Pending /\ (InHand' => cur'.path \notin left')
    BY <1>1, <1>2, <1>3 DEF Pending, Orderly, Apart
  <1>5. Apart'
    <2>1. Len(open) \in Nat /\ open' = open
      BY <1>1, LenProperties DEF TypeOK
    <2> QED BY <1>4, <2>1, LessPending DEF Orderly
  <1>6. /\ policy' = chosen' \/ (chosen' = "none" /\ policy' = "replace")
        /\ policy' = "newer" => policy = "newer"
        /\ chosen' = "none" => chosen = "none"
    BY DEF User, AnswerYes, AnswerNo, AnswerYesToAll, AnswerNoToAll, Orderly, PolicyChosen
  <1>7. NothingInTheWay'
    BY <1>1, <1>4, <1>6, LessInTheWay DEF Orderly
  <1>8. OpenArrived' /\ StillNewer' /\ PolicyChosen'
    BY <1>1, <1>3, <1>6 DEF Orderly, OpenArrived, StillNewer, PolicyChosen
  <1> QED BY <1>3, <1>5, <1>7, <1>8 DEF Orderly

\* What is taken out of the way leaves nothing there.
LEMMA HereCleared ==
    ASSUME TypeOK, InHand, dst' = dst \/ dst' = [dst EXCEPT ![Here] = Absent]
    PROVE  /\ Here \in Targets /\ Here = Target(cur.path) /\ cur.path \in Subtree(cur.path)
           /\ \A t \in Targets : dst'[t] = dst[t] \/ (t = Here /\ dst'[t] = Absent)
  <1>1. cur.path \in Sources
    BY DEF TypeOK
  <1> QED BY <1>1, Places DEF TypeOK, Here, Subtree

\* Removing what is in the way keeps order.
LEMMA ClearOrderly ==
    ASSUME NoTwins, TypeOK, Orderly, Clear
    PROVE  Orderly'
  <1>1. /\ UNCHANGED <<src, op, policy, open, left, chosen, allowed, theirs>>
        /\ pc = "clear" /\ InHand
    BY DEF Clear, InHand
  <1>2. /\ \/ pc' = "make" /\ cur' = cur /\ dst'[Here] = Absent
           \/ pc' = "next" /\ ~InHand' /\ dst' = dst
        /\ dst' = dst \/ dst' = [dst EXCEPT ![Here] = Absent]
    <2>1. Here \in Targets
      BY <1>1, Places DEF TypeOK, Here
    <2> QED BY <2>1 DEF Clear, GiveUp, Passed, InHand, Exists, TypeOK
  <1>3. /\ Here \in Targets /\ Here = Target(cur.path) /\ cur.path \in Subtree(cur.path)
        /\ \A t \in Targets : dst'[t] = dst[t] \/ (t = Here /\ dst'[t] = Absent)
    BY <1>1, <1>2, HereCleared
  <1>4. Pending' \subseteq Pending /\ (InHand' => cur'.path \notin left')
    BY <1>1, <1>2 DEF Pending, Orderly, Apart
  <1>5. Apart'
    <2>1. Len(open) \in Nat /\ open' = open
      BY <1>1, LenProperties DEF TypeOK
    <2> QED BY <1>4, <2>1, LessPending DEF Orderly
  <1>6. NothingInTheWay'
    <2>1. ASSUME chosen = "none", NEW p \in Pending', NEW r \in Subtree(p)
          PROVE  TheirsOrNothing(Target(r))'
      <3>1. TheirsOrNothing(Target(r)) /\ Target(r) \in Targets
        BY <1>4, <2>1, Places DEF Orderly, NothingInTheWay, Subtree
      <3> QED BY <1>1, <1>3, <3>1 DEF TheirsOrNothing
    <2> QED BY <1>1, <2>1 DEF NothingInTheWay, Subtree, Beneath
  <1>7. Consented'
    <2>1. CASE pc' = "make" /\ cur' = cur /\ dst'[Here] = Absent
      <3>1. Here' = Here
        BY <2>1 DEF Here
      <3> QED BY <2>1, <3>1 DEF Consented, TheirsOrNothing
    <2>2. CASE pc' = "next"
      BY <2>2 DEF Consented
    <2> QED BY <1>2, <2>1, <2>2
  <1>8. OpenArrived'
    <2>1. ASSUME NEW i \in 1..Len(open)
          PROVE  dst'[Target(open[i])].kind = "dir" \/ Target(open[i]) \in theirs'.dst
      <3>1. Target(open[i]) # Here
        BY <1>1, <1>3, OtherPlaces DEF Orderly
      <3>2. Target(open[i]) \in Targets
        BY PendingType, Places
      <3> QED BY <1>1, <1>3, <3>1, <3>2 DEF Orderly, OpenArrived
    <2> QED BY <1>1, <2>1 DEF OpenArrived
  <1>9. StillNewer' /\ PolicyChosen'
    <2>1. StillNewer'
      <3>1. \A s \in Sources : dst'[Target(s)] = dst[Target(s)] \/ dst'[Target(s)].kind = "none"
        BY <1>3, Places DEF Absent
      <3> QED BY <1>1, <3>1 DEF Orderly, StillNewer
    <2> QED BY <1>1, <1>2, <2>1 DEF Orderly, PolicyChosen
  <1> QED BY <1>5, <1>6, <1>7, <1>8, <1>9 DEF Orderly

\* Something is written at t for a source in hand: over nothing, or over what a file
\* or a link was to replace; and for a directory, a directory.
Written(t) ==
    \E q \in Subtree(cur.path) :
        /\ Target(q) = t
        /\ dst[t] = Absent \/ (t = Here /\ ~MergesDirs(cur.info, cur.had))
        /\ src[q].kind = "dir" => dst'[t].kind = "dir"

\* A source is taken away only when it is at its target.
Taken(s) == src'[s] = Absent /\ dst'[Target(s)] = src[s]

\* What 'Placed' does to the places of what is moved.
LEMMA PlacedEffect ==
    ASSUME TypeOK, Trees, InHand, NEW part \in SUBSET Moving, NEW cut,
           dst[Here].kind # "dir", cur.info.kind = "dir" => ~Exists(Here)
    PROVE  dst' = Placed(part, cut) => \A t \in Targets : dst'[t] # dst[t] => Written(t)
  <1>1. cur.path \in Sources /\ Here \in Targets /\ Here = Target(cur.path)
    BY Places DEF TypeOK, Here
  <1>2. part \in SUBSET Subtree(cur.path)
    BY DEF Moving
  <1>3. /\ \A r \in part : Placed(part, cut)[Target(r)]
                             = IF r \in cut THEN CutShort(src[r]) ELSE src[r]
        /\ \A u \in Targets : (\A r \in part : Target(r) # u)
                                => Placed(part, cut)[u] = dst[u]
    BY <1>1, <1>2, PlacedAt
  <1>4. SUFFICES ASSUME dst' = Placed(part, cut), NEW t \in Targets, dst'[t] # dst[t]
                 PROVE  Written(t)
    OBVIOUS
  <1>5. PICK q \in part : Target(q) = t
    BY <1>3, <1>4
  <1>6. dst'[t] = IF q \in cut THEN CutShort(src[q]) ELSE src[q]
    BY <1>3, <1>4, <1>5
  <1>7. src[q].kind = "dir" => dst'[t].kind = "dir"
    BY <1>6, CutShortKeeps
  <1>8. CASE q = cur.path
    <2>1. dst[t] = Absent \/ ~MergesDirs(cur.info, cur.had)
      BY <1>1, <1>5, <1>8 DEF MergesDirs, Exists
    <2> QED BY <1>1, <1>2, <1>5, <1>7, <1>8, <2>1 DEF Written
  <1>9. CASE q # cur.path
    <2>1. q \in Sources /\ Beneath(cur.path, q)
      BY <1>2, <1>9 DEF Subtree
    <2>2. Beneath(Here, t)
      BY <1>1, <1>5, <2>1, Places, TargetBeneath
    <2>3. dst[t] = Absent
      BY <1>1, <2>2, NothingBeneath DEF Trees
    <2> QED BY <1>2, <1>5, <1>7, <2>3 DEF Written
  <1> QED BY <1>8, <1>9

\* What copying or moving an object does to the files.
LEMMA MakeEffect ==
    ASSUME TypeOK, Trees, Make
    PROVE  /\ \A t \in Targets : dst'[t] # dst[t] => Written(t)
           /\ \A s \in Sources : src'[s] # src[s] => Taken(s)
  <1>1. /\ cur.path \in Sources /\ Here \in Targets /\ Here = Target(cur.path)
        /\ cur.path \in Subtree(cur.path) /\ InHand
    BY Places DEF Make, TypeOK, InHand, Here, Subtree
  <1>2. ASSUME NEW n, dst' = [dst EXCEPT ![Here] = n],
               dst[Here] = Absent \/ ~MergesDirs(cur.info, cur.had),
               src[cur.path].kind = "dir" => n.kind = "dir"
        PROVE  \A t \in Targets : dst'[t] # dst[t] => Written(t)
    <2>1. \A t \in Targets : dst'[t] = IF t = Here THEN n ELSE dst[t]
      BY <1>2 DEF TypeOK
    <2> QED BY <1>1, <1>2, <2>1 DEF Written
  <1>3. CASE Merge
    BY <1>1, <1>3, EnterType DEF Merge
  <1>4. CASE MakeDir
    <2>1. /\ dst' = [dst EXCEPT ![Here] = cur.info] /\ cur.info.kind = "dir"
          /\ dst[Here] = Absent /\ src' = src
      BY <1>1, <1>4, EnterType DEF MakeDir, Exists
    <2> QED BY <1>2, <2>1
  <1>5. CASE CopyFile
    <2>1. /\ dst' = [dst EXCEPT ![Here] = src[cur.path]] /\ src' = src
          /\ ~MergesDirs(cur.info, cur.had)
      BY <1>5 DEF CopyFile, MergesDirs
    <2> QED BY <1>2, <2>1
  <1>6. CASE CopyLink
    <2>1. /\ dst' = [dst EXCEPT ![Here] = src[cur.path]] /\ src' = src
          /\ dst[Here] = Absent
      BY <1>6 DEF CopyLink, Exists
    <2> QED BY <1>2, <2>1
  <1>7. CASE MoveObject
    <2>1. \A t \in Targets : dst'[t] # dst[t] => Written(t)
      BY <1>1, <1>7, PlacedEffect DEF MoveObject
    <2>2. ASSUME NEW s \in Sources, src'[s] # src[s]
          PROVE  Taken(s)
      <3>1. s \in Moving /\ src'[s] = Absent /\ dst' = Placed(Moving, {})
        BY <1>7, <2>2 DEF MoveObject
      <3>2. Moving \in SUBSET Subtree(cur.path)
        BY DEF Moving
      <3>3. Placed(Moving, {})[Target(s)] = IF s \in {} THEN CutShort(src[s]) ELSE src[s]
        <4> DEFINE top == cur.path
                   moved == Moving
        <4>1. top \in Sources /\ moved \in SUBSET Subtree(top) /\ s \in moved
          BY <1>1, <3>1, <3>2
        <4> HIDE DEF top, moved
        <4>2. Placed(moved, {})[Target(s)] = IF s \in {} THEN CutShort(src[s]) ELSE src[s]
          BY <4>1, PlacedAt
        <4> QED BY <4>2 DEF moved
      <3>4. dst'[Target(s)] = src[s]
        BY <3>1, <3>3
      <3> QED BY <3>1, <3>4 DEF Taken
    <2> QED BY <2>1, <2>2
  <1>8. CASE Fail
    <2>1. src' = src
      BY <1>8 DEF Fail
    <2>2. CASE dst' = dst
      BY <2>1, <2>2
    <2>3. CASE /\ dst[Here].kind # "dir" /\ (cur.info.kind = "dir" => ~Exists(Here))
               /\ \E part \in SUBSET Moving : \E cut : dst' = Placed(part, cut)
      BY <1>1, <2>1, <2>3, PlacedEffect
    <2> QED BY <1>8, <2>2, <2>3 DEF Fail
  <1> QED BY <1>3, <1>4, <1>5, <1>6, <1>7, <1>8 DEF Make

\* What is in a directory of the sources.
LEMMA ChildrenWithin ==
    ASSUME TypeOK, NEW s \in Sources, NEW c \in Children(src, s)
    PROVE  c \in Sources /\ Len(c) = Len(s) + 1 /\ Beneath(s, c) /\ Parent(c) = s
  <1>1. c \in Sources /\ Parent(c) = s
    BY DEF Children, TypeOK
  <1>2. Len(Parent(c)) = Len(c) - 1 /\ Beneath(Parent(c), c)
    BY <1>1, Places, ParentNames
  <1> QED BY <1>1, <1>2, Places

\* A directory that is entered is no longer pending, and what is in it is.
LEMMA EnterApart ==
    ASSUME TypeOK, Apart, InHand, EnterAnyhow(cur.path)
    PROVE  Apart'
  <1> DEFINE cs == Children(src, cur.path)
             s == cur.path
  <1>1. /\ s \in Sources /\ s \in Pending /\ left \subseteq Pending /\ left \subseteq Sources
        /\ s \notin left /\ s \in Seq(Names)
    BY PendingType, Places DEF Apart, TypeOK
  <1>2. /\ open' = Append(open, s) /\ ~InHand'
        /\ left' \subseteq left \cup cs
    <2>1. Passed /\ open' = Append(open, s)
      BY <1>1, EnterType
    <2>2. left' \subseteq left \cup cs
      BY DEF EnterAnyhow, Enter
    <2> QED BY <2>1, <2>2, PassedType
  <1>3. \A c \in cs : c \in Sources /\ Len(c) = Len(s) + 1 /\ Beneath(s, c) /\ Parent(c) = s
    BY <1>1, ChildrenWithin
  <1>4. Pending' \subseteq left \cup cs
    BY <1>2 DEF Pending
  <1>5. \A p \in left \cup cs : p \in Sources /\ p \in Seq(Names)
    BY <1>1, <1>3, Places
  <1> HIDE DEF cs, s
  <1>6. ASSUME NEW p \in left \cup cs, NEW q \in left \cup cs
        PROVE  ~Beneath(p, q)
    <2> SUFFICES ASSUME Beneath(p, q)
                 PROVE  FALSE
      OBVIOUS
    <2>1. CASE p \in left /\ q \in left
      BY <1>1, <2>1 DEF Apart
    <2>2. CASE p \in cs /\ q \in cs
      <3>1. Len(p) = Len(s) + 1 /\ Len(q) = Len(s) + 1 /\ Len(q) > Len(p)
        BY <1>3, <2>2 DEF Beneath
      <3> QED BY <1>1, <3>1, Places, SMTT(40)
    <2>3. CASE p \in left /\ q \in cs
      <3>1. Within(p, s)
        BY <1>3, <1>5, <2>3, ParentWithin
      <3> QED BY <1>1, <2>3, <3>1 DEF Within, Apart
    <2>4. CASE p \in cs /\ q \in left
      <3>1. Beneath(s, q)
        BY <1>1, <1>3, <1>5, <2>4, BeneathTransitive
      <3> QED BY <1>1, <2>4, <3>1 DEF Apart
    <2> QED BY <2>1, <2>2, <2>3, <2>4
  <1>7. /\ Len(open') = Len(open) + 1 /\ Len(open) \in Nat
        /\ \A i \in 1..Len(open) : open'[i] = open[i] /\ open[i] \in Sources
        /\ open'[Len(open) + 1] = s
    BY <1>1, <1>2, PendingType, AppendProperties, LenProperties DEF TypeOK
  <1>8. ASSUME NEW i \in 1..Len(open'), NEW p \in left \cup cs
        PROVE  ~Within(p, open'[i])
    <2>1. CASE i \in 1..Len(open)
      <3>1. open'[i] = open[i] /\ open[i] \in Seq(Names) /\ ~Within(s, open[i])
        BY <1>1, <1>7, <2>1, Places DEF Apart
      <3>2. CASE p \in left
        BY <1>1, <2>1, <3>1, <3>2 DEF Apart
      <3>3. CASE p \in cs
        <4>1. Beneath(s, p)
          BY <1>3, <3>3
        <4>2. Within(p, open[i]) => Beneath(s, open[i])
          BY <1>1, <1>5, <3>1, <4>1, BeneathTransitive DEF Within
        <4> QED BY <3>1, <4>2 DEF Within
      <3> QED BY <3>2, <3>3
    <2>2. CASE i = Len(open) + 1
      <3>1. CASE p \in left
        BY <1>1, <1>7, <2>2, <3>1 DEF Within, Apart
      <3>2. CASE p \in cs
        BY <1>1, <1>3, <1>5, <1>7, <2>2, <3>2, NotBeneathItself
      <3> QED BY <3>1, <3>2
    <2> QED BY <1>7, <2>1, <2>2
  <1>9. \A p, q \in Pending' : ~Beneath(p, q)
    BY <1>4, <1>6
  <1>10. \A i \in 1..Len(open') : \A p \in Pending' : ~Within(p, open'[i])
    BY <1>4, <1>8
  <1> QED BY <1>2, <1>9, <1>10 DEF Apart, Within, Beneath

\* What Make does to the directories that are open and to what is still to be visited.
LEMMA MakeOpens ==
    ASSUME TypeOK, Make
    PROVE  \/ open' = open /\ left' = left
           \/ /\ EnterAnyhow(cur.path) /\ dst'[Here].kind = "dir"
              /\ \A t \in Targets : t # Here => dst'[t] = dst[t]
  <1>1. cur.path \in Sources /\ Here \in Targets
    BY Places DEF Make, TypeOK, InHand, Here
  <1>2. CASE MakeDir
    <2>1. \A t \in Targets : dst'[t] = IF t = Here THEN cur.info ELSE dst[t]
      BY <1>2 DEF MakeDir, TypeOK
    <2> QED BY <1>1, <1>2, <2>1 DEF MakeDir
  <1> QED BY <1>2 DEF Make, Merge, CopyFile, CopyLink, MoveObject, Fail

\* Copying or moving an object keeps order.
LEMMA MakeOrderly ==
    ASSUME NoTwins, TypeOK, Trees, Orderly, Make
    PROVE  Orderly'
  <1>1. /\ UNCHANGED <<op, policy, chosen, allowed, theirs>> /\ InHand
        /\ cur.path \in Sources /\ cur.path \in Pending /\ left \subseteq Pending
        /\ left \subseteq Sources
        /\ cur.path \in Subtree(cur.path) /\ Here = Target(cur.path) /\ Here \in Targets
    BY Places DEF Make, TypeOK, InHand, Pending, Subtree, Here
  <1>2. pc' = "next" /\ ~InHand' /\ Pending' = left'
    <2>1. Passed
      BY <1>1, EnterType
         DEF Make, Merge, MakeDir, CopyFile, CopyLink, MoveObject, Fail, GiveUp
    <2> QED BY <2>1, PassedType DEF Pending
  <1>3. /\ \A t \in Targets : dst'[t] # dst[t] => Written(t)
        /\ \A s \in Sources : src'[s] # src[s] => Taken(s)
    BY MakeEffect
  <1>4. /\ \A p \in left : \A r \in Subtree(p) : \A q \in Subtree(cur.path) :
                Target(r) # Target(q)
        /\ \A i \in 1..Len(open) : \A q \in Subtree(cur.path) :
                Target(open[i]) # Target(q)
    BY <1>1, OtherPlaces DEF Orderly
  <1>5. Len(open) \in Nat /\ open \in Seq(Sources) /\ \A i \in 1..Len(open) : open[i] \in Sources
    BY LenProperties, PendingType DEF TypeOK
  <1>6. ASSUME NEW i \in 1..Len(open)
        PROVE  dst'[Target(open[i])] = dst[Target(open[i])]
    BY <1>3, <1>4, <1>5, Places DEF Written
  <1>7. ASSUME NEW p \in left, NEW r \in Subtree(p)
        PROVE  dst'[Target(r)] = dst[Target(r)]
    <2>1. Target(r) \in Targets
      BY Places DEF Subtree
    <2> QED BY <1>3, <1>4, <2>1 DEF Written
  <1>8. Apart' /\ NothingInTheWay' /\ OpenArrived'
    <2>1. CASE open' = open /\ left' = left
      <3>1. Apart'
        <4>1. Pending' \subseteq Pending
          BY <1>1, <1>2, <2>1
        <4> QED BY <1>2, <1>5, <2>1, <4>1, LessPending DEF Orderly
      <3>2. NothingInTheWay'
        <4>1. ASSUME chosen = "none", NEW p \in left, NEW r \in Subtree(p)
              PROVE  TheirsOrNothing(Target(r))'
          <5>1. TheirsOrNothing(Target(r))
            BY <1>1, <4>1 DEF Orderly, NothingInTheWay
          <5> QED BY <1>1, <1>7, <4>1, <5>1 DEF TheirsOrNothing
        <4> QED BY <1>1, <1>2, <2>1, <4>1 DEF NothingInTheWay, Subtree, Beneath
      <3>3. OpenArrived'
        BY <1>1, <1>6, <2>1 DEF Orderly, OpenArrived
      <3> QED BY <3>1, <3>2, <3>3
    <2>2. CASE /\ EnterAnyhow(cur.path) /\ dst'[Here].kind = "dir"
               /\ \A t \in Targets : t # Here => dst'[t] = dst[t]
      <3>1. Apart'
        BY <1>1, <2>2, EnterApart DEF Orderly
      <3>2. open' = Append(open, cur.path) /\ left' \subseteq left \cup Children(src, cur.path)
        BY <2>2 DEF EnterAnyhow, Enter
      <3>3. NothingInTheWay'
        <4>1. ASSUME chosen = "none", NEW p \in left', NEW r \in Subtree(p)
              PROVE  TheirsOrNothing(Target(r))'
          <5>1. CASE p \in left
            <6>1. TheirsOrNothing(Target(r))
              BY <1>1, <4>1, <5>1 DEF Orderly, NothingInTheWay
            <6> QED BY <1>1, <1>7, <5>1, <6>1 DEF TheirsOrNothing
          <5>2. CASE p \in Children(src, cur.path)
            <6>1. p \in Sources /\ Beneath(cur.path, p)
              BY <1>1, <5>2, ChildrenWithin
            <6>2. r \in Sources /\ Beneath(cur.path, r)
              <7>1. r \in Sources /\ (r = p \/ Beneath(p, r))
                BY DEF Subtree
              <7> QED BY <1>1, <6>1, <7>1, Places, BeneathTransitive
            <6>3. r \in Subtree(cur.path) /\ r # cur.path
              BY <6>2 DEF Subtree, Beneath
            <6>4. Target(r) # Here /\ Target(r) \in Targets
              BY <1>1, <6>2, <6>3, Places DEF NoTwins
            <6>5. TheirsOrNothing(Target(r))
              BY <1>1, <4>1, <6>3 DEF Orderly, NothingInTheWay
            <6> QED BY <1>1, <2>2, <6>4, <6>5 DEF TheirsOrNothing
          <5> QED BY <3>2, <5>1, <5>2
        <4> QED BY <1>1, <1>2, <4>1 DEF NothingInTheWay, Subtree, Beneath
      <3>4. OpenArrived'
        <4>1. /\ Len(open') = Len(open) + 1
              /\ \A i \in 1..Len(open) : open'[i] = open[i]
              /\ open'[Len(open) + 1] = cur.path
          BY <1>1, <1>5, <3>2, AppendProperties
        <4>2. ASSUME NEW i \in 1..Len(open')
              PROVE  dst'[Target(open'[i])].kind = "dir" \/ Target(open'[i]) \in theirs'.dst
          <5>1. CASE i \in 1..Len(open)
            BY <1>1, <1>6, <4>1, <5>1 DEF Orderly, OpenArrived
          <5>2. CASE i = Len(open) + 1
            BY <1>1, <2>2, <4>1, <5>2
          <5> QED BY <1>5, <4>1, <5>1, <5>2
        <4> QED BY <4>2 DEF OpenArrived
      <3> QED BY <3>1, <3>3, <3>4
    <2> QED BY <2>1, <2>2, MakeOpens
  <1>9. StillNewer'
    <2>1. ASSUME NEW s \in Sources, src'[s].kind = "dir"
          PROVE  /\ src'[s] = src[s]
                 /\ dst'[Target(s)] = dst[Target(s)] \/ dst'[Target(s)].kind = "dir"
      <3>1. src'[s] = src[s]
        BY <1>3, <2>1 DEF Taken, Absent
      <3>2. CASE dst'[Target(s)] # dst[Target(s)]
        <4>1. Target(s) \in Targets
          BY Places
        <4>2. PICK q \in Subtree(cur.path) : Target(q) = Target(s)
                      /\ (src[q].kind = "dir" => dst'[Target(s)].kind = "dir")
          BY <1>3, <3>2, <4>1 DEF Written
        <4>3. q = s
          BY <4>2 DEF NoTwins, Subtree
        <4> QED BY <2>1, <3>1, <4>2, <4>3
      <3> QED BY <3>1, <3>2
    <2>2. ASSUME policy = "newer", NEW s \in Sources, src'[s].kind = "dir"
          PROVE  /\ Target(s) \notin Appearing
                 /\ \/ dst'[Target(s)].kind \in {"none", "dir"}
                    \/ dst'[Target(s)].time < src'[s].time
      BY <2>1, <2>2 DEF Orderly, StillNewer
    <2> QED BY <1>1, <2>2 DEF StillNewer
  <1>10. Consented' /\ PolicyChosen'
    BY <1>1, <1>2 DEF Consented, PolicyChosen, Orderly
  <1> QED BY <1>8, <1>9, <1>10 DEF Orderly

\* What is open when the innermost directory is left.
LEMMA ShorterOpen ==
    ASSUME TypeOK, open # <<>>, open' = SubSeq(open, 1, Len(open) - 1)
    PROVE  /\ Len(open) \in Nat /\ Len(open') = Len(open) - 1 /\ Len(open') \in Nat
           /\ \A i \in 1..Len(open') : open'[i] = open[i]
  <1>1. /\ Len(open) \in Nat /\ Len(open) >= 1
        /\ \A i \in 1..(Len(open) - 1) : open[i] \in Sources
    BY EmptySeq, LenProperties, ElementOfSeq DEF TypeOK
  <1>2. 1 \in Int /\ Len(open) - 1 \in Int
    BY <1>1
  <1>3. /\ Len(open') = IF 1 <= Len(open) - 1 THEN (Len(open) - 1) - 1 + 1 ELSE 0
        /\ \A i \in 1..((Len(open) - 1) - 1 + 1) : open'[i] = open[1 + i - 1]
    BY <1>1, <1>2, SubSeqProperties
  <1>4. Len(open') = Len(open) - 1
    <2> DEFINE n == Len(open)
               m == Len(open')
    <2>1. n \in Nat /\ n >= 1 /\ m = IF 1 <= n - 1 THEN (n - 1) - 1 + 1 ELSE 0
      BY <1>1, <1>3
    <2> HIDE DEF n, m
    <2>2. m = n - 1
      BY <2>1
    <2> QED BY <2>2 DEF n, m
  <1>5. \A i \in 1..Len(open') : i \in 1..((Len(open) - 1) - 1 + 1) /\ 1 + i - 1 = i
    BY <1>1, <1>4
  <1> QED BY <1>1, <1>3, <1>4, <1>5

\* The end of a directory keeps order.
LEMMA LeaveOrderly ==
    ASSUME TypeOK, Orderly, Leave
    PROVE  Orderly'
  <1>1. /\ UNCHANGED <<dst, op, policy, pc, cur, left, chosen, allowed, theirs>>
        /\ open' = SubSeq(open, 1, Len(open) - 1) /\ open # <<>>
        /\ \A s \in Sources : src'[s] = src[s] \/ src'[s] = Absent
    BY DEF Leave, TypeOK
  <1>2. /\ Len(open) \in Nat /\ Len(open') = Len(open) - 1 /\ Len(open') \in Nat
        /\ \A i \in 1..Len(open') : open'[i] = open[i]
    BY <1>1, ShorterOpen
  <1>3. Pending' = Pending /\ (InHand' => cur'.path \notin left')
    BY <1>1 DEF Pending, InHand, Orderly, Apart
  <1>4. Apart'
    BY <1>2, <1>3, LessPending DEF Orderly
  <1>5. NothingInTheWay'
    BY <1>1, <1>3, LessInTheWay DEF Orderly
  <1>6. OpenArrived'
    BY <1>1, <1>2 DEF Orderly, OpenArrived
  <1>7. StillNewer'
    BY <1>1 DEF Orderly, StillNewer, Absent
  <1>8. Consented' /\ PolicyChosen'
    BY <1>1 DEF Orderly, Consented, PolicyChosen, TheirsOrNothing, Here
  <1> QED BY <1>4, <1>5, <1>6, <1>7, <1>8 DEF Orderly

\* What other programs do at the destination is theirs from then on, and what they
\* do to the sources is to remove some.
LEMMA OthersEffect ==
    ASSUME TypeOK, Others
    PROVE  /\ UNCHANGED <<op, policy, pc, cur, open, left, chosen, allowed, excused>>
           /\ \A t \in Targets : dst'[t] = dst[t] \/ t \in theirs'.dst
           /\ theirs.dst \subseteq theirs'.dst /\ theirs.src \subseteq theirs'.src
           /\ \A s \in Sources : src'[s] = src[s] \/ src'[s] = Absent
           /\ \A s \in Sources : src'[s] = src[s] \/ s \in theirs'.src \ theirs.src
           /\ \A t \in Targets : dst'[t] = dst[t] \/ t \in theirs'.dst \ theirs.dst
           /\ \A t \in Targets : dst'[t] = dst[t] \/ dst'[t] = Absent \/ t \in Appearing
           /\ theirs' # theirs
  <1>1. UNCHANGED <<op, policy, pc, cur, open, left, chosen, allowed, excused>>
    BY DEF Others, RemoveSource, RemoveTarget, CreateTarget, Undisturbed
  <1>2. ASSUME NEW s \in Vanishing, RemoveSource(s)
        PROVE  /\ dst' = dst /\ theirs'.dst = theirs.dst
               /\ theirs'.src = theirs.src \cup {s} /\ s \notin theirs.src
               /\ \A r \in Sources : src'[r] = src[r] \/ (r = s /\ src'[r] = Absent)
    BY <1>2, OthersAssumption DEF RemoveSource, TypeOK
  <1>3. ASSUME NEW t \in Leaving, RemoveTarget(t)
        PROVE  /\ src' = src /\ theirs'.src = theirs.src
               /\ theirs'.dst = theirs.dst \cup {t} /\ t \notin theirs.dst
               /\ \A u \in Targets : dst'[u] = dst[u] \/ (u = t /\ dst'[u] = Absent)
    BY <1>3, OthersAssumption DEF RemoveTarget, TypeOK
  <1>4. ASSUME NEW t \in Appearing, CreateTarget(t)
        PROVE  /\ src' = src /\ theirs'.src = theirs.src
               /\ theirs'.dst = theirs.dst \cup {t} /\ t \notin theirs.dst
               /\ \A u \in Targets : dst'[u] = dst[u] \/ u = t
    BY <1>4, OthersAssumption DEF CreateTarget, TypeOK
  <1> QED BY <1>1, <1>2, <1>3, <1>4 DEF Others

\* What other programs do keeps order.
LEMMA OthersOrderly ==
    ASSUME TypeOK, Orderly, Others
    PROVE  Orderly'
  <1>1. /\ UNCHANGED <<op, policy, pc, cur, open, left, chosen, allowed>>
        /\ \A t \in Targets : dst'[t] = dst[t] \/ t \in theirs'.dst
        /\ theirs.dst \subseteq theirs'.dst
        /\ \A s \in Sources : src'[s] = src[s] \/ src'[s] = Absent
        /\ \A t \in Targets : dst'[t] = dst[t] \/ dst'[t] = Absent \/ t \in Appearing
    BY OthersEffect
  <1>2. \A t \in Targets : TheirsOrNothing(t) => TheirsOrNothing(t)'
    BY <1>1 DEF TheirsOrNothing
  <1>3. Pending' = Pending /\ Pending \subseteq Sources /\ (InHand' => cur'.path \notin left')
        /\ \A i \in 1..Len(open) : open[i] \in Sources
    BY <1>1, PendingType DEF Pending, InHand, Orderly, Apart
  <1>4. Apart'
    <2>1. Len(open) \in Nat /\ open' = open
      BY <1>1, LenProperties DEF TypeOK
    <2> QED BY <1>3, <2>1, LessPending DEF Orderly
  <1>5. NothingInTheWay'
    <2>1. ASSUME chosen = "none", NEW p \in Pending, NEW r \in Subtree(p)
          PROVE  TheirsOrNothing(Target(r))'
      <3>1. TheirsOrNothing(Target(r)) /\ Target(r) \in Targets
        BY <2>1, Places DEF Orderly, NothingInTheWay, Subtree
      <3> QED BY <1>2, <3>1
    <2> QED BY <1>1, <1>3, <2>1 DEF NothingInTheWay, Subtree, Beneath
  <1>6. Consented'
    <2>1. ASSUME InHand
          PROVE  Here' = Here /\ Here \in Targets /\ (TheirsOrNothing(Here) => TheirsOrNothing(Here)')
      <3>1. Here' = Here /\ Here \in Targets
        BY <1>1, <2>1, Places DEF Here, TypeOK
      <3> QED BY <1>1, <3>1 DEF TheirsOrNothing
    <2> QED BY <1>1, <2>1 DEF Orderly, Consented, InHand
  <1>7. OpenArrived'
    <2>1. ASSUME NEW i \in 1..Len(open)
          PROVE  dst'[Target(open[i])].kind = "dir" \/ Target(open[i]) \in theirs'.dst
      <3>1. Target(open[i]) \in Targets
        BY <1>3, Places
      <3> QED BY <1>1, <3>1 DEF Orderly, OpenArrived
    <2> QED BY <1>1, <2>1 DEF OpenArrived
  <1>8. StillNewer'
    <2>1. ASSUME policy = "newer", NEW s \in Sources, src'[s].kind = "dir"
          PROVE  /\ Target(s) \notin Appearing
                 /\ \/ dst'[Target(s)].kind \in {"none", "dir"}
                    \/ dst'[Target(s)].time < src'[s].time
      <3>1. src'[s] = src[s] /\ Target(s) \in Targets
        BY <1>1, <2>1, Places DEF Absent
      <3>2. /\ Target(s) \notin Appearing
            /\ \/ dst[Target(s)].kind \in {"none", "dir"}
               \/ dst[Target(s)].time < src[s].time
        BY <2>1, <3>1 DEF Orderly, StillNewer
      <3>3. dst'[Target(s)] = dst[Target(s)] \/ dst'[Target(s)].kind = "none"
        BY <1>1, <3>1, <3>2 DEF Absent
      <3> QED BY <3>1, <3>2, <3>3
    <2> QED BY <1>1, <2>1 DEF StillNewer
  <1>9. PolicyChosen'
    BY <1>1 DEF Orderly, PolicyChosen
  <1> QED BY <1>4, <1>5, <1>6, <1>7, <1>8, <1>9 DEF Orderly

\* At the start nothing is open, and what is pending is what is selected.
LEMMA InitOrderly ==
    ASSUME DirectoriesAreNewer, Init
    PROVE  Orderly
  <1>1. TypeOK /\ Trees
    BY InitType
  <1>2. PICK st \in Starts :
          /\ src = st.src /\ dst = st.dst
          /\ IF DestinationHasConflicts(dst)
             THEN chosen = st.choice /\ policy = st.choice
             ELSE chosen = "none" /\ policy = "replace"
    BY DEF Init
  <1>3. /\ pc = "next" /\ ~InHand /\ Len(open) = 0
        /\ Pending \subseteq Selected /\ theirs = [src |-> {}, dst |-> {}]
    BY EmptySeq DEF Init, InHand, Pending
  <1>4. Apart
    <2>1. \A p \in Selected : Len(p) = 2
      BY DEF Selected
    <2>2. \A p, q \in Pending : ~Beneath(p, q)
      BY <1>3, <2>1 DEF Beneath
    <2> QED BY <1>3, <2>2 DEF Apart
  <1>5. NothingInTheWay
    <2>1. ASSUME chosen = "none", NEW p \in Pending, NEW r \in Subtree(p)
          PROVE  dst[Target(r)] = Absent
      <3>1. p \in Selected /\ p \in Sources
        BY <1>3 DEF Selected
      <3>2. dst[Target(p)] = Absent
        <4>1. st.choice # "none"
          BY StartsAssumption
        <4> QED BY <1>2, <2>1, <3>1, <4>1 DEF DestinationHasConflicts
      <3>3. CASE r = p
        BY <3>2, <3>3
      <3>4. CASE r # p
        <4>1. r \in Sources /\ Beneath(p, r)
          BY <3>4 DEF Subtree
        <4>2. Beneath(Target(p), Target(r)) /\ Target(p) \in Targets /\ Target(r) \in Targets
          BY <3>1, <4>1, Places, TargetBeneath
        <4>3. dst[Target(p)].kind # "dir"
          BY <3>2 DEF Absent
        <4> QED BY <1>1, <4>2, <4>3, NothingBeneath DEF Trees
      <3> QED BY <3>3, <3>4
    <2> QED BY <2>1 DEF NothingInTheWay, TheirsOrNothing
  <1>6. Consented
    BY <1>3 DEF Consented
  <1>7. OpenArrived
    BY <1>3 DEF OpenArrived
  <1>8. PolicyChosen
    BY <1>2, <1>3 DEF PolicyChosen
  <1>9. StillNewer
    BY <1>2 DEF DirectoriesAreNewer, StillNewer
  <1> QED BY <1>4, <1>5, <1>6, <1>7, <1>8, <1>9 DEF Orderly

\* Every step of the classic engine keeps the invariant.
LEMMA NextOrderly ==
    ASSUME NoTwins, PromiseInv, [Next]_vars
    PROVE  PromiseInv'
  <1>1. TypeOK' /\ Trees'
    BY NextType, NextTrees DEF PromiseInv
  <1>2. CASE Finish \/ UNCHANGED vars
    <2>1. /\ UNCHANGED <<src, dst, op, policy, cur, open, left, chosen, allowed, theirs>>
          /\ pc' = pc \/ (pc = "next" /\ pc' = "done")
      BY <1>2 DEF Finish, vars
    <2>2. Pending' = Pending /\ (InHand' <=> InHand)
      BY <2>1 DEF Pending, InHand
    <2>3. Apart' /\ NothingInTheWay'
      <3>1. Len(open) \in Nat
        BY LenProperties DEF TypeOK, PromiseInv
      <3> QED BY <2>1, <2>2, <3>1, LessPending, LessInTheWay DEF PromiseInv, Orderly, Apart
    <2>4. Consented' /\ OpenArrived' /\ PolicyChosen' /\ StillNewer'
      BY <2>1 DEF PromiseInv, Orderly, Consented, OpenArrived, PolicyChosen, StillNewer,
                  TheirsOrNothing, Here
    <2> QED BY <1>1, <2>3, <2>4 DEF PromiseInv, Orderly
  <1> QED BY <1>1, <1>2, VisitOrderly, UserOrderly, ClearOrderly, MakeOrderly, LeaveOrderly,
             OthersOrderly DEF PromiseInv, Next, Child

\* Whoever agrees to a replacement has been asked, or has chosen a policy that says so.
LEMMA AgreeStep ==
    ASSUME PolicyChosen, StillNewer, TypeOK, NEW s \in Sources,
           policy \in {"replace", "newer"}, src[s] # Absent, dst[Target(s)] # Absent,
           ~SkippedBy(src[s], dst[Target(s)]), ~MergesDirs(src[s], dst[Target(s)]),
           chosen # "none"
    PROVE  \/ chosen \in {"ask", "replace"}
           \/ chosen = "newer" /\ src[s].time > dst[Target(s)].time
  <1>1. policy = chosen
    BY DEF PolicyChosen
  <1>2. CASE policy = "newer"
    <2>1. src[s].time \in Int /\ dst[Target(s)].time \in Int /\ dst[Target(s)].kind # "none"
      BY Places DEF TypeOK, Node, Absent
    <2>2. CASE src[s].kind = "dir"
      BY <1>1, <1>2, <2>1, <2>2 DEF StillNewer, MergesDirs
    <2>3. CASE src[s].kind # "dir"
      BY <1>1, <1>2, <2>1, <2>3 DEF SkippedBy
    <2> QED BY <2>2, <2>3
  <1> QED BY <1>1, <1>2

\* Visiting an object changes no file, and agrees at most to what is agreed to.
LEMMA VisitPromised ==
    ASSUME PromiseInv, NEW s \in Sources, Visit(s)
    PROVE  [T!Next]_(T!vars)
  <1>1. UNCHANGED <<src, dst, chosen, theirs>>
    BY DEF Visit
  <1>2. CASE allowed' = allowed
    BY <1>1, <1>2 DEF T!vars
  <1>3. CASE allowed' # allowed
    <2>1. /\ src[s] # Absent
          /\ IF dst[Target(s)] = Absent THEN TRUE
             ELSE ~SkippedBy(src[s], dst[Target(s)]) /\ policy \in {"replace", "newer"}
          /\ Proceed(s, src[s], dst[Target(s)])
      BY <1>3 DEF Visit
    <2>2. /\ ~(dst[Target(s)] = Absent \/ MergesDirs(src[s], dst[Target(s)]))
          /\ chosen # "none" /\ allowed' = allowed \cup {s}
      BY <1>3, <2>1 DEF Proceed
    <2>3. \/ chosen \in {"ask", "replace"}
          \/ chosen = "newer" /\ src[s].time > dst[Target(s)].time
      BY <2>1, <2>2, AgreeStep DEF PromiseInv, Orderly
    <2>4. T!Agree(s)
      BY <1>1, <2>2, <2>3 DEF T!Agree
    <2> QED BY <2>4 DEF T!Next
  <1> QED BY <1>2, <1>3

\* An answer of the user is his consent.
LEMMA UserPromised ==
    ASSUME PromiseInv, User
    PROVE  [T!Next]_(T!vars)
  <1>1. UNCHANGED <<src, dst, theirs>> /\ pc = "asking" /\ cur.path \in Sources
    BY DEF User, AnswerYes, AnswerNo, AnswerYesToAll, AnswerNoToAll, PromiseInv, TypeOK, InHand
  <1>2. cur.had # Absent => chosen = "ask"
    BY <1>1 DEF PromiseInv, Orderly, PolicyChosen
  <1>3. Proceed(cur.path, cur.info, cur.had) =>
           allowed' = allowed \/ (allowed' = allowed \cup {cur.path} /\ chosen = "ask")
    BY <1>2 DEF Proceed
  <1>4. CASE AnswerYes
    <2>1. UNCHANGED chosen /\ Proceed(cur.path, cur.info, cur.had)
      BY <1>4 DEF AnswerYes
    <2>2. CASE allowed' = allowed
      BY <1>1, <2>1, <2>2 DEF T!vars
    <2>3. CASE allowed' = allowed \cup {cur.path} /\ chosen = "ask"
      BY <1>1, <2>1, <2>3 DEF T!Agree, T!Next
    <2> QED BY <1>3, <2>1, <2>2, <2>3
  <1>5. CASE AnswerNo
    BY <1>1, <1>5 DEF AnswerNo, T!vars
  <1>6. CASE AnswerYesToAll
    <2>1. chosen = "ask" /\ chosen' = "replace" /\ Proceed(cur.path, cur.info, cur.had)
      BY <1>2, <1>6 DEF AnswerYesToAll, Conflict
    <2>2. CASE allowed' = allowed
      BY <1>1, <2>1, <2>2 DEF T!AnswerForAll, T!Next
    <2>3. CASE allowed' = allowed \cup {cur.path}
      BY <1>1, <2>1, <2>3 DEF T!Agree, T!Next
    <2> QED BY <1>3, <2>1, <2>2, <2>3
  <1>7. CASE AnswerNoToAll
    BY <1>1, <1>2, <1>7 DEF AnswerNoToAll, Conflict, T!AnswerForAll, T!Next
  <1> QED BY <1>4, <1>5, <1>6, <1>7 DEF User

\* A step on the files is what Transfer allows of one.
LEMMA CarryStep ==
    ASSUME UNCHANGED <<chosen, allowed, theirs>>,
           \A t \in Targets : dst'[t] # dst[t] =>
              TheirsOrNothing(t) \/ \E s \in allowed : Target(s) = t,
           \A s \in Sources : src'[s] # src[s] =>
              /\ src'[s] = Absent
              /\ \/ dst'[Target(s)] = src[s]
                 \/ /\ src[s].kind = "dir"
                    /\ dst'[Target(s)].kind = "dir" \/ Target(s) \in theirs.dst
    PROVE  T!Next
  <1>1. T!Carry
    BY DEF T!Carry, TheirsOrNothing
  <1> QED BY <1>1 DEF T!Next

\* Removing what is in the way has been agreed to.
LEMMA ClearPromised ==
    ASSUME PromiseInv, Clear
    PROVE  [T!Next]_(T!vars)
  <1>1. UNCHANGED <<src, chosen, allowed, theirs>> /\ pc = "clear" /\ InHand
    BY DEF Clear, InHand
  <1>2. /\ Here = Target(cur.path)
        /\ \A t \in Targets : dst'[t] = dst[t] \/ (t = Here /\ dst'[t] = Absent)
    BY <1>1, HereCleared DEF Clear, PromiseInv
  <1>3. cur.path \in allowed \/ TheirsOrNothing(Here)
    BY <1>1 DEF PromiseInv, Orderly, Consented
  <1>4. \A t \in Targets : dst'[t] # dst[t] =>
          TheirsOrNothing(t) \/ \E s \in allowed : Target(s) = t
    BY <1>2, <1>3
  <1> QED BY <1>1, <1>4, CarryStep

\* What is copied or moved replaces only what has been agreed to.
LEMMA MakePromised ==
    ASSUME PromiseInv, Make
    PROVE  [T!Next]_(T!vars)
  <1>1. /\ UNCHANGED <<chosen, allowed, theirs>> /\ pc = "make"
        /\ Here = Target(cur.path)
    BY DEF Make, Here
  <1>2. /\ \A t \in Targets : dst'[t] # dst[t] => Written(t)
        /\ \A s \in Sources : src'[s] # src[s] => Taken(s)
    BY MakeEffect DEF PromiseInv
  <1>3. ~MergesDirs(cur.info, cur.had) => cur.path \in allowed \/ TheirsOrNothing(Here)
    BY <1>1 DEF PromiseInv, Orderly, Consented
  <1>4. \A t \in Targets : dst'[t] # dst[t] =>
          TheirsOrNothing(t) \/ \E s \in allowed : Target(s) = t
    BY <1>1, <1>2, <1>3 DEF Written, TheirsOrNothing
  <1> QED BY <1>1, <1>2, <1>4, CarryStep DEF Taken

\* A directory that is left and removed has arrived.
LEMMA LeavePromised ==
    ASSUME PromiseInv, Leave
    PROVE  [T!Next]_(T!vars)
  <1>1. UNCHANGED <<dst, chosen, allowed, theirs>>
    BY DEF Leave
  <1>2. Len(open) \in 1..Len(open)
    BY EmptySeq, LenProperties DEF Leave, PromiseInv, TypeOK
  <1>3. \A s \in Sources : src'[s] # src[s] =>
          s = open[Len(open)] /\ src'[s] = Absent /\ src[s].kind = "dir"
    BY DEF Leave, PromiseInv, TypeOK
  <1>4. \A s \in Sources : src'[s] # src[s] =>
          /\ src'[s] = Absent /\ src[s].kind = "dir"
          /\ dst[Target(s)].kind = "dir" \/ Target(s) \in theirs.dst
    BY <1>2, <1>3 DEF PromiseInv, Orderly, OpenArrived
  <1> QED BY <1>1, <1>4, CarryStep

\* What other programs do is what Transfer lets them do.
LEMMA OthersPromised ==
    ASSUME PromiseInv, Others
    PROVE  [T!Next]_(T!vars)
  <1>1. T!Disturb
    BY OthersEffect DEF T!Disturb, PromiseInv
  <1> QED BY <1>1 DEF T!Next

\* Every step of the classic engine is one that Transfer allows.
LEMMA NextPromised ==
    ASSUME PromiseInv, [Next]_vars
    PROVE  [T!Next]_(T!vars)
  <1>1. CASE Finish \/ UNCHANGED vars
    BY <1>1 DEF Finish, vars, T!vars
  <1> QED BY <1>1, VisitPromised, UserPromised, ClearPromised, MakePromised, LeavePromised,
             OthersPromised DEF Next, Child

\* At the start nothing has been promised.
LEMMA InitPromised ==
    ASSUME DirectoriesAreNewer, Init
    PROVE  PromiseInv /\ T!Init
  <1>1. PromiseInv
    BY InitType, InitOrderly DEF PromiseInv
  <1>2. T!Init
    BY <1>1 DEF Init, T!Init, PromiseInv, TypeOK
  <1> QED BY <1>1, <1>2

\* The classic engine copies and moves as Transfer promises: nothing at the destination
\* goes without consent, and nothing leaves the source before it has arrived, as long as
\* the items come from one directory and no directory meets a file that is not older.
THEOREM ClassicKeepsPromise ==
    ASSUME NoTwins, DirectoriesAreNewer
    PROVE  Spec => KeepsPromise
<1>1. Init => PromiseInv /\ T!Init
  BY InitPromised
<1>2. PromiseInv /\ [Next]_vars => PromiseInv'
  BY NextOrderly
<1>3. PromiseInv /\ [Next]_vars => [T!Next]_(T!vars)
  BY NextPromised
<1> QED BY <1>1, <1>2, <1>3, PTL DEF Spec, KeepsPromise, T!Spec

-----------------------------------------------------------------------------
(* So does rsync.                                                          *)

\* The starts with rsync: under "skip" no directory in an item meets anything but a
\* directory, and under "newer" there are no links, and a file meets a file or something
\* older (what rsync and remove_empty_source_dirs() do not compare).
RsyncComparable ==
    \A st \in RsyncStarts :
        /\ st.choice = "skip" =>
             \A s \in Sources : st.src[s].kind = "dir" /\ Len(s) > 2 =>
                st.dst[Target(s)].kind \in {"none", "dir"}
        /\ st.choice = "newer" =>
             \A s \in Sources :
                /\ st.src[s].kind \in {"none", "file", "dir"}
                /\ st.src[s].kind = "file" =>
                     \/ st.dst[Target(s)].kind \in {"none", "file", "part"}
                     \/ st.dst[Target(s)].time < st.src[s].time

\* It stays so, but for what other programs put there.
StillComparable ==
    engine # "classic" =>
        /\ policy = "skip" =>
             \A s \in Sources : src[s].kind = "dir" /\ Len(s) > 2 =>
                dst[Target(s)].kind \in {"none", "dir"} \/ Target(s) \in theirs.dst
        /\ policy = "newer" =>
             \A s \in Sources :
                /\ src[s].kind \in {"none", "file", "dir"}
                /\ src[s].kind = "file" =>
                     \/ dst[Target(s)].kind \in {"none", "file", "part"}
                     \/ dst[Target(s)].time < src[s].time

\* What is in hand has not changed since the child has looked at it, but may be gone.
SeenOrGone == InHand => src[cur.path] = cur.info \/ src[cur.path] = Absent

\* rsync is at work only in its own states, on the items of a batch or on one item,
\* and away from what is still to be visited.
RsyncSane ==
    /\ pc \notin {"rsync", "tidy"} => listed = {}
    /\ pc # "rsync" => sending = {}
    /\ listed \cap sending = {}
    /\ pc \in {"clash", "rsync", "tidy"} => engine # "classic"
    /\ engine # "classic" => policy # "ask"
    /\ engine = "batch" =>
         /\ op = "copy" /\ pc = "next" /\ open = <<>> /\ renaming = <<>>
         /\ left \subseteq Selected /\ left # {}
    /\ pc \in {"rsync", "tidy"} /\ op = "move" => cur.path \in Sources
    /\ pc = "rsync" => \A p \in left : \A r \in listed \cup sending : ~Within(p, r)

\* What rsync sends replaces nothing without consent.
SendingConsented == \A r \in sending : r \in allowed \/ TheirsOrNothing(Target(r))

\* Without a question at the start nothing is in the way of rsync.
ListedClear ==
    pc = "rsync" /\ chosen = "none" => \A r \in listed : TheirsOrNothing(Target(r))

DirArrived(r) == dst[Target(r)].kind = "dir" \/ Target(r) \in theirs.dst

\* A directory of an item that is moved has arrived when its time has come to be
\* removed, if rsync has not failed; the item itself meets no file.
DirsArrive ==
    /\ pc = "tidy" => \A r \in listed : src[r].kind = "dir" => DirArrived(r)
    /\ pc = "rsync" /\ op = "move" /\ ~wrong =>
         \A r \in Subtree(cur.path) :
            src[r].kind = "dir" => r \in listed \cup sending \/ DirArrived(r)
    /\ pc = "rsync" /\ op = "move" /\ cur.path \in listed /\ src[cur.path].kind = "dir" =>
         DirArrived(cur.path) \/ dst[Target(cur.path)] = Absent

\* The invariant of both engines
RsyncOrderly ==
    /\ SeenOrGone /\ RsyncSane /\ SendingConsented /\ ListedClear /\ DirsArrive
    /\ StillComparable

HybridInv == HybridTypeOK /\ Trees /\ Orderly /\ RsyncOrderly

-----------------------------------------------------------------------------
(* What a step may do to the files without disturbing the order.           *)

\* No source comes back or changes.
Shrinks == \A s \in Sources : src'[s] = src[s] \/ src'[s] = Absent

\* What is put at t is of the kind of the source that goes there, or is nothing.
Fits(t) ==
    \E r \in Sources :
        /\ Target(r) = t
        /\ src[r].kind = "dir" => dst'[t].kind \in {"none", "dir"}
        /\ src[r].kind = "file" => dst'[t].kind \in {"none", "file", "part"}

\* Nothing pending goes to t, and it is no directory that something pending is in.
Aside(t) ==
    /\ \A p \in Pending' : \A q \in Subtree(p) : Target(q) # t
    /\ dst[t].kind # "dir" \/ \A i \in 1..Len(open) : Target(open[i]) # t

\* A step that puts objects only aside keeps order.
LEMMA StepOrderly ==
    ASSUME NoTwins, TypeOK, Orderly, UNCHANGED <<policy, open, chosen, theirs>>,
           Pending' \subseteq Pending, InHand' => cur'.path \notin left',
           pc' # "asking", Consented', Shrinks,
           \A t \in Targets : dst'[t] # dst[t] => Fits(t) /\ Aside(t)
    PROVE  Orderly'
  <1>1. Apart'
    <2>1. Len(open) \in Nat /\ open' = open
      BY LenProperties DEF TypeOK
    <2> QED BY <2>1, LessPending DEF Orderly
  <1>2. NothingInTheWay'
    <2>1. ASSUME chosen = "none", NEW p \in Pending', NEW q \in Subtree(p)
          PROVE  TheirsOrNothing(Target(q))'
      <3>1. TheirsOrNothing(Target(q)) /\ Target(q) \in Targets
        BY <2>1, Places DEF Orderly, NothingInTheWay, Subtree
      <3>2. dst'[Target(q)] = dst[Target(q)]
        BY <3>1 DEF Aside
      <3> QED BY <3>1, <3>2 DEF TheirsOrNothing
    <2> QED BY <2>1 DEF NothingInTheWay, Subtree, Beneath
  <1>3. OpenArrived'
    <2>1. ASSUME NEW i \in 1..Len(open)
          PROVE  dst'[Target(open[i])].kind = "dir" \/ Target(open[i]) \in theirs'.dst
      <3>1. Target(open[i]) \in Targets
        BY PendingType, Places
      <3>2. dst[Target(open[i])].kind = "dir" \/ Target(open[i]) \in theirs.dst
        BY DEF Orderly, OpenArrived
      <3>3. dst'[Target(open[i])] = dst[Target(open[i])] \/ dst[Target(open[i])].kind # "dir"
        BY <3>1 DEF Aside
      <3> QED BY <3>2, <3>3
    <2> QED BY <2>1 DEF OpenArrived
  <1>4. StillNewer'
    <2>1. ASSUME policy = "newer", NEW s \in Sources, src'[s].kind = "dir"
          PROVE  /\ Target(s) \notin Appearing
                 /\ \/ dst'[Target(s)].kind \in {"none", "dir"}
                    \/ dst'[Target(s)].time < src'[s].time
      <3>1. src'[s] = src[s] /\ Target(s) \in Targets
        BY <2>1, Places DEF Shrinks, Absent
      <3>2. /\ Target(s) \notin Appearing
            /\ \/ dst[Target(s)].kind \in {"none", "dir"}
               \/ dst[Target(s)].time < src[s].time
        BY <2>1, <3>1 DEF Orderly, StillNewer
      <3>3. dst'[Target(s)] = dst[Target(s)] \/ dst'[Target(s)].kind \in {"none", "dir"}
        BY <2>1, <3>1 DEF Fits, NoTwins
      <3> QED BY <3>1, <3>2, <3>3
    <2> QED BY <2>1 DEF StillNewer
  <1>5. PolicyChosen'
    BY DEF Orderly, PolicyChosen
  <1> QED BY <1>1, <1>2, <1>3, <1>4, <1>5 DEF Orderly

\* What can be compared still can after a step that puts only what fits.
LEMMA StepComparable ==
    ASSUME NoTwins, StillComparable, Shrinks, theirs.dst \subseteq theirs'.dst,
           engine' # "classic" => engine # "classic" /\ policy' = policy,
           \A t \in Targets : dst'[t] # dst[t] =>
              Fits(t) \/ (t \in theirs'.dst /\ dst'[t].kind \in {"none", "file"})
    PROVE  StillComparable'
  <1> SUFFICES ASSUME engine' # "classic"
               PROVE  /\ policy' = "skip" =>
                           \A s \in Sources : src'[s].kind = "dir" /\ Len(s) > 2 =>
                              \/ dst'[Target(s)].kind \in {"none", "dir"}
                              \/ Target(s) \in theirs'.dst
                      /\ policy' = "newer" =>
                           \A s \in Sources :
                              /\ src'[s].kind \in {"none", "file", "dir"}
                              /\ src'[s].kind = "file" =>
                                   \/ dst'[Target(s)].kind \in {"none", "file", "part"}
                                   \/ dst'[Target(s)].time < src'[s].time
    BY DEF StillComparable
  <1>1. engine # "classic" /\ policy' = policy
    OBVIOUS
  <1>2. ASSUME policy = "skip", NEW s \in Sources, src'[s].kind = "dir", Len(s) > 2
        PROVE  dst'[Target(s)].kind \in {"none", "dir"} \/ Target(s) \in theirs'.dst
    <2>1. src'[s] = src[s] /\ Target(s) \in Targets
      BY <1>2, Places DEF Shrinks, Absent
    <2>2. dst[Target(s)].kind \in {"none", "dir"} \/ Target(s) \in theirs.dst
      BY <1>1, <1>2, <2>1 DEF StillComparable
    <2>3. CASE dst'[Target(s)] = dst[Target(s)]
      BY <2>2, <2>3
    <2>4. CASE Fits(Target(s))
      BY <1>2, <2>1, <2>4 DEF Fits, NoTwins
    <2> QED BY <2>1, <2>3, <2>4
  <1>3. ASSUME policy = "newer", NEW s \in Sources
        PROVE  /\ src'[s].kind \in {"none", "file", "dir"}
               /\ src'[s].kind = "file" =>
                    \/ dst'[Target(s)].kind \in {"none", "file", "part"}
                    \/ dst'[Target(s)].time < src'[s].time
    <2>1. /\ src[s].kind \in {"none", "file", "dir"}
          /\ src[s].kind = "file" =>
               \/ dst[Target(s)].kind \in {"none", "file", "part"}
               \/ dst[Target(s)].time < src[s].time
      BY <1>1, <1>3 DEF StillComparable
    <2>2. src'[s].kind \in {"none", "file", "dir"}
      BY <2>1 DEF Shrinks, Absent
    <2>3. ASSUME src'[s].kind = "file"
          PROVE  \/ dst'[Target(s)].kind \in {"none", "file", "part"}
                 \/ dst'[Target(s)].time < src'[s].time
      <3>1. src'[s] = src[s] /\ Target(s) \in Targets
        BY <2>3, Places DEF Shrinks, Absent
      <3>2. CASE dst'[Target(s)] = dst[Target(s)]
        BY <2>1, <2>3, <3>1, <3>2
      <3>3. CASE Fits(Target(s))
        BY <2>3, <3>1, <3>3 DEF Fits, NoTwins
      <3> QED BY <3>1, <3>2, <3>3
    <2> QED BY <2>2, <2>3
  <1> QED BY <1>1, <1>2, <1>3

\* A file that has been cut short is of a kind that fits.
LEMMA CutShortFits ==
    ASSUME NEW n \in Node
    PROVE  /\ n.kind = "dir" => CutShort(n).kind = "dir"
           /\ n.kind = "file" => CutShort(n).kind = "part"
  <1>1. ASSUME n.kind = "file"
        PROVE  CutShort(n).kind = "part"
    <2>1. n \in [kind: Kinds \ {"none"}, time: Int, from: Sources \cup {<<>>}]
      BY <1>1 DEF Node, Absent
    <2> QED BY <1>1, <2>1 DEF CutShort
  <1> QED BY <1>1, CutShortKeeps

\* Copying or moving puts only what fits, and takes only what is moved away.
LEMMA MakeFits ==
    ASSUME TypeOK, SeenOrGone, Make
    PROVE  Shrinks /\ \A t \in Targets : dst'[t] # dst[t] => Fits(t)
  <1>1. /\ cur.path \in Sources /\ Here \in Targets /\ Here = Target(cur.path)
        /\ InHand /\ (src[cur.path] = cur.info \/ src[cur.path] = Absent)
    BY Places DEF Make, TypeOK, InHand, Here, SeenOrGone
  <1>2. ASSUME NEW n, dst' = [dst EXCEPT ![Here] = n],
               src[cur.path].kind = "dir" => n.kind \in {"none", "dir"},
               src[cur.path].kind = "file" => n.kind \in {"none", "file", "part"}
        PROVE  \A t \in Targets : dst'[t] # dst[t] => Fits(t)
    <2>1. \A t \in Targets : dst'[t] = IF t = Here THEN n ELSE dst[t]
      BY <1>2 DEF TypeOK
    <2> QED BY <1>1, <1>2, <2>1 DEF Fits
  <1>3. ASSUME NEW part \in SUBSET Moving, NEW cut
        PROVE  dst' = Placed(part, cut) => \A t \in Targets : dst'[t] # dst[t] => Fits(t)
    <2>1. part \in SUBSET Subtree(cur.path) /\ \A r \in part : r \in Sources /\ src[r] \in Node
      BY DEF Moving, Subtree, TypeOK
    <2>2. /\ \A r \in part : Placed(part, cut)[Target(r)]
                               = IF r \in cut THEN CutShort(src[r]) ELSE src[r]
          /\ \A u \in Targets : (\A r \in part : Target(r) # u)
                                  => Placed(part, cut)[u] = dst[u]
      BY <1>1, <2>1, PlacedAt
    <2> SUFFICES ASSUME dst' = Placed(part, cut), NEW t \in Targets, dst'[t] # dst[t]
                 PROVE  Fits(t)
      OBVIOUS
    <2>3. PICK q \in part : Target(q) = t
      BY <2>2
    <2>4. dst'[t] = IF q \in cut THEN CutShort(src[q]) ELSE src[q]
      BY <2>2, <2>3
    <2>5. /\ src[q].kind = "dir" => dst'[t].kind = "dir"
          /\ src[q].kind = "file" => dst'[t].kind \in {"file", "part"}
      BY <2>1, <2>4, CutShortFits
    <2> QED BY <2>1, <2>3, <2>5 DEF Fits
  <1>4. CASE Merge
    <2>1. dst' = dst /\ src' = src
      BY <1>1, <1>4, EnterType DEF Merge
    <2> QED BY <2>1 DEF Shrinks
  <1>5. CASE MakeDir
    <2>1. /\ dst' = [dst EXCEPT ![Here] = cur.info] /\ cur.info.kind = "dir" /\ src' = src
          /\ src[cur.path].kind # "file"
      BY <1>1, <1>5, EnterType DEF MakeDir, Absent
    <2> QED BY <1>2, <2>1 DEF Shrinks
  <1>6. CASE CopyFile
    <2>1. dst' = [dst EXCEPT ![Here] = src[cur.path]] /\ src' = src
      BY <1>6 DEF CopyFile
    <2> QED BY <1>2, <2>1 DEF Shrinks
  <1>7. CASE CopyLink
    <2>1. dst' = [dst EXCEPT ![Here] = src[cur.path]] /\ src' = src
      BY <1>7 DEF CopyLink
    <2> QED BY <1>2, <2>1 DEF Shrinks
  <1>8. CASE MoveObject
    <2>1. \A s \in Sources : src'[s] = src[s] \/ src'[s] = Absent
      BY <1>8 DEF MoveObject
    <2> QED BY <1>3, <1>8, <2>1 DEF MoveObject, Shrinks
  <1>9. CASE Fail
    <2>1. src' = src
      BY <1>9 DEF Fail
    <2>2. CASE dst' = dst
      BY <2>1, <2>2 DEF Shrinks
    <2>3. CASE \E part \in SUBSET Moving : \E cut : dst' = Placed(part, cut)
      BY <1>3, <2>1, <2>3 DEF Shrinks
    <2> QED BY <1>9, <2>2, <2>3 DEF Fail
  <1> QED BY <1>4, <1>5, <1>6, <1>7, <1>8, <1>9 DEF Make

\* What other programs put somewhere is a file.
LEMMA OthersPut ==
    ASSUME TypeOK, Others
    PROVE  \A t \in Targets : dst'[t] = dst[t] \/ dst'[t].kind \in {"none", "file"}
  <1>1. ASSUME NEW t \in Leaving, RemoveTarget(t)
        PROVE  \A u \in Targets : dst'[u] = dst[u] \/ dst'[u].kind \in {"none", "file"}
    BY <1>1, OthersAssumption DEF RemoveTarget, TypeOK, Absent
  <1>2. ASSUME NEW t \in Appearing, CreateTarget(t)
        PROVE  \A u \in Targets : dst'[u] = dst[u] \/ dst'[u].kind \in {"none", "file"}
    BY <1>2, OthersAssumption DEF CreateTarget, TypeOK
  <1>3. ASSUME NEW s \in Vanishing, RemoveSource(s)
        PROVE  dst' = dst
    BY <1>3 DEF RemoveSource
  <1> QED BY <1>1, <1>2, <1>3 DEF Others

-----------------------------------------------------------------------------
(* The classic engine, while rsync may be at work or not.                  *)

\* What others do disturbs neither rsync nor what is remembered of it.
LEMMA OthersRsync ==
    ASSUME NoTwins, HybridInv, Others, UNCHANGED hybridVars
    PROVE  RsyncOrderly'
  <1>0. TypeOK /\ RsyncOrderly /\ listed \subseteq Sources /\ sending \subseteq Sources
    BY DEF HybridInv, HybridTypeOK
  <1>1. /\ UNCHANGED <<op, policy, pc, cur, open, left, chosen, allowed, excused>>
        /\ \A t \in Targets : dst'[t] = dst[t] \/ t \in theirs'.dst
        /\ theirs.dst \subseteq theirs'.dst
        /\ \A s \in Sources : src'[s] = src[s] \/ src'[s] = Absent
    BY <1>0, OthersEffect
  <1>2. UNCHANGED <<engine, oneVolume, renaming, listed, sending, wrong>>
    BY DEF hybridVars, rsyncVars
  <1>3. \A t \in Targets : TheirsOrNothing(t) => TheirsOrNothing(t)'
    BY <1>1 DEF TheirsOrNothing
  <1>4. \A r \in Sources : Target(r) \in Targets /\ (DirArrived(r) => DirArrived(r)')
    BY <1>1, Places DEF DirArrived
  <1>5. SeenOrGone'
    BY <1>0, <1>1 DEF RsyncOrderly, SeenOrGone, InHand, TypeOK
  <1>6. RsyncSane'
    BY <1>0, <1>1, <1>2 DEF RsyncOrderly, RsyncSane, Within, Beneath
  <1>7. SendingConsented' /\ ListedClear'
    BY <1>0, <1>1, <1>2, <1>3, <1>4 DEF RsyncOrderly, SendingConsented, ListedClear
  <1>8. DirsArrive'
    <2>1. \A r \in Sources : src'[r].kind = "dir" => src[r].kind = "dir"
      BY <1>1 DEF Absent
    <2>2. pc' = "tidy" => \A r \in listed' : src'[r].kind = "dir" => DirArrived(r)'
      BY <1>0, <1>1, <1>2, <1>4, <2>1 DEF RsyncOrderly, DirsArrive
    <2>3. ASSUME pc = "rsync", op = "move", ~wrong, NEW r \in Subtree(cur.path),
                 src'[r].kind = "dir"
          PROVE  r \in listed \cup sending \/ DirArrived(r)'
      BY <1>0, <1>4, <2>1, <2>3 DEF RsyncOrderly, DirsArrive, Subtree
    <2>4. ASSUME pc = "rsync", op = "move", cur.path \in listed, src'[cur.path].kind = "dir"
          PROVE  DirArrived(cur.path)' \/ dst'[Target(cur.path)] = Absent
      <3>1. DirArrived(cur.path) \/ dst[Target(cur.path)] = Absent
        BY <1>0, <2>1, <2>4 DEF RsyncOrderly, DirsArrive
      <3> QED BY <1>0, <1>1, <1>4, <2>4, <3>1 DEF DirArrived
    <2> QED BY <1>1, <1>2, <2>2, <2>3, <2>4 DEF DirsArrive, Subtree, Beneath, DirArrived
  <1>9. StillComparable'
    <2>1. \A t \in Targets : dst'[t] = dst[t] \/ dst'[t].kind \in {"none", "file"}
      BY <1>0, OthersPut
    <2> QED BY <1>0, <1>1, <1>2, <2>1, StepComparable DEF RsyncOrderly, Shrinks
  <1> QED BY <1>5, <1>6, <1>7, <1>8, <1>9 DEF RsyncOrderly

\* A step of the classic engine, or of the user
Classic ==
    \/ \E s \in Sources : ClassicVisit(s)
    \/ (Clear \/ Make \/ Leave \/ Finish \/ User) /\ UNCHANGED hybridVars

\* What such steps have in common: rsync is not at work, and a batch is not begun.
LEMMA ClassicEffect ==
    ASSUME HybridInv, Classic
    PROVE  /\ pc \in {"next", "asking", "clear", "make"}
           /\ pc' \in {"next", "asking", "clear", "make", "done"}
           /\ UNCHANGED <<op, theirs, engine, oneVolume, rsyncVars>>
           /\ engine # "batch"
           /\ engine # "classic" => policy' = policy
  <1>0. TypeOK /\ RsyncOrderly /\ PolicyChosen
    BY DEF HybridInv, HybridTypeOK, Orderly
  <1>1. ASSUME NEW s \in Sources, ClassicVisit(s)
        PROVE  /\ pc \in {"next", "asking", "clear", "make"}
               /\ pc' \in {"next", "asking", "clear", "make", "done"}
               /\ UNCHANGED <<op, theirs, engine, oneVolume, rsyncVars>>
               /\ engine # "batch"
               /\ engine # "classic" => policy' = policy
    <2>1. s # <<>>
      BY Places, EmptySeq
    <2> QED BY <1>0, <1>1, <2>1
            DEF ClassicVisit, Visit, Proceed, RsyncOrderly, RsyncSane
  <1>2. ASSUME Clear \/ Make \/ Leave \/ Finish, UNCHANGED hybridVars
        PROVE  /\ pc \in {"next", "clear", "make"}
               /\ pc' \in {"next", "clear", "make", "done"}
               /\ UNCHANGED <<op, theirs, policy>>
               /\ engine # "batch"
    <2>1. CASE Clear
      BY <1>0, <2>1 DEF Clear, GiveUp, Passed, RsyncOrderly, RsyncSane
    <2>2. CASE Make
      <3>1. cur.path \in Sources
        BY <1>0, <2>2 DEF Make, TypeOK, InHand
      <3>2. Passed
        BY <1>0, <2>2, <3>1, EnterType
           DEF Make, Merge, MakeDir, CopyFile, CopyLink, MoveObject, Fail, GiveUp
      <3> QED BY <1>0, <2>2, <3>2 DEF Make, Passed, RsyncOrderly, RsyncSane
    <2>3. CASE Leave
      BY <1>0, <2>3 DEF Leave, RsyncOrderly, RsyncSane
    <2>4. CASE Finish
      BY <1>0, <2>4 DEF Finish, Frontier, RsyncOrderly, RsyncSane
    <2> QED BY <1>2, <2>1, <2>2, <2>3, <2>4
  <1>3. ASSUME User, UNCHANGED hybridVars
        PROVE  /\ pc = "asking" /\ pc' \in {"next", "asking", "clear", "make", "done"}
               /\ UNCHANGED <<op, theirs>> /\ engine # "batch"
               /\ engine # "classic" => policy' = policy
    <2>1. pc = "asking" /\ UNCHANGED <<op, theirs>>
      BY <1>3 DEF User, AnswerYes, AnswerNo, AnswerYesToAll, AnswerNoToAll
    <2>2. pc' \in {"next", "clear", "make"}
      BY <1>3 DEF User, AnswerYes, AnswerNo, AnswerYesToAll, AnswerNoToAll, GiveUp, Passed,
                  Proceed
    <2>3. policy' = policy \/ cur.had # Absent
      BY <1>3 DEF User, AnswerYes, AnswerNo, AnswerYesToAll, AnswerNoToAll, Conflict
    <2> QED BY <1>0, <2>1, <2>2, <2>3 DEF PolicyChosen, RsyncOrderly, RsyncSane
  <1>4. UNCHANGED hybridVars => UNCHANGED <<engine, oneVolume, rsyncVars>>
    BY DEF hybridVars
  <1> QED BY <1>1, <1>2, <1>3, <1>4 DEF Classic

\* What the classic engine has in hand it has seen, and it puts only what fits.
LEMMA ClassicFits ==
    ASSUME HybridInv, Classic
    PROVE  SeenOrGone' /\ Shrinks /\ \A t \in Targets : dst'[t] # dst[t] => Fits(t)
  <1>0. TypeOK /\ SeenOrGone
    BY DEF HybridInv, HybridTypeOK, RsyncOrderly
  <1>1. ASSUME NEW s \in Sources, ClassicVisit(s)
        PROVE  SeenOrGone' /\ src' = src /\ dst' = dst
    BY <1>1 DEF ClassicVisit, Visit, Proceed, SeenOrGone, InHand
  <1>2. CASE Clear
    <2>1. src' = src /\ (dst' = dst \/ dst' = [dst EXCEPT ![Here] = Absent]) /\ InHand
      BY <1>2 DEF Clear, InHand
    <2>2. SeenOrGone'
      BY <1>0, <1>2 DEF Clear, GiveUp, Passed, SeenOrGone, InHand
    <2>3. /\ Here = Target(cur.path) /\ cur.path \in Sources
          /\ \A t \in Targets : dst'[t] = dst[t] \/ (t = Here /\ dst'[t] = Absent)
      BY <1>0, <2>1, HereCleared DEF Subtree
    <2>4. \A t \in Targets : dst'[t] # dst[t] => Fits(t)
      BY <2>3 DEF Fits, Absent
    <2> QED BY <2>1, <2>2, <2>4 DEF Shrinks
  <1>3. CASE Make
    <2>1. cur.path \in Sources
      BY <1>0, <1>3 DEF Make, TypeOK, InHand
    <2>2. Passed
      BY <1>0, <1>3, <2>1, EnterType
         DEF Make, Merge, MakeDir, CopyFile, CopyLink, MoveObject, Fail, GiveUp
    <2>3. SeenOrGone'
      BY <2>2, PassedType DEF SeenOrGone
    <2> QED BY <1>0, <1>3, <2>3, MakeFits
  <1>4. CASE Leave
    <2>1. /\ dst' = dst /\ pc' = "next"
          /\ \A s \in Sources : src'[s] = src[s] \/ src'[s] = Absent
      BY <1>0, <1>4 DEF Leave, TypeOK
    <2> QED BY <2>1 DEF Shrinks, SeenOrGone, InHand
  <1>5. CASE Finish
    BY <1>5 DEF Finish, Shrinks, SeenOrGone, InHand
  <1>6. CASE User
    <2>1. src' = src /\ dst' = dst /\ pc = "asking"
      BY <1>6 DEF User, AnswerYes, AnswerNo, AnswerYesToAll, AnswerNoToAll
    <2>2. pc' = "next" \/ (cur'.path = cur.path /\ cur'.info = cur.info)
      BY <1>6 DEF User, AnswerYes, AnswerNo, AnswerYesToAll, AnswerNoToAll, GiveUp, Passed,
                  Proceed
    <2> QED BY <1>0, <2>1, <2>2 DEF Shrinks, SeenOrGone, InHand
  <1> QED BY <1>1, <1>2, <1>3, <1>4, <1>5, <1>6 DEF Classic, Shrinks

\* The classic engine keeps what the invariant says of rsync.
LEMMA ClassicRsync ==
    ASSUME NoTwins, HybridInv, Classic
    PROVE  RsyncOrderly'
  <1>0. RsyncOrderly
    BY DEF HybridInv
  <1>1. /\ pc \in {"next", "asking", "clear", "make"}
        /\ pc' \in {"next", "asking", "clear", "make", "done"}
        /\ UNCHANGED <<op, theirs, engine, oneVolume, rsyncVars>>
        /\ engine # "batch"
        /\ engine # "classic" => policy' = policy
    BY ClassicEffect
  <1>2. SeenOrGone' /\ Shrinks /\ \A t \in Targets : dst'[t] # dst[t] => Fits(t)
    BY ClassicFits
  <1>3. RsyncSane'
    BY <1>0, <1>1 DEF RsyncOrderly, RsyncSane, rsyncVars
  <1>4. SendingConsented' /\ ListedClear' /\ DirsArrive'
    BY <1>0, <1>1 DEF RsyncOrderly, RsyncSane, SendingConsented, ListedClear, DirsArrive,
                      rsyncVars
  <1>5. StillComparable'
    BY <1>0, <1>1, <1>2, StepComparable DEF RsyncOrderly
  <1> QED BY <1>2, <1>3, <1>4, <1>5 DEF RsyncOrderly

-----------------------------------------------------------------------------
(* Starting rsync.                                                         *)

\* A step that changes no file at the destination and starts or ends something keeps
\* order, and what could be compared still can.
LEMMA QuietStep ==
    ASSUME NoTwins, HybridInv, UNCHANGED <<dst, policy, open, chosen, theirs>>, Shrinks,
           engine' # "classic" => engine # "classic",
           Pending' \subseteq Pending, InHand' => cur'.path \notin left',
           pc' # "asking", Consented'
    PROVE  Orderly' /\ StillComparable'
  <1>1. TypeOK /\ Orderly /\ StillComparable
    BY DEF HybridInv, HybridTypeOK, RsyncOrderly
  <1> QED BY <1>1, StepOrderly, StepComparable

\* What rsync lists for one item is what is there of the item.
LEMMA ListedItem ==
    ASSUME NEW s \in Sources, RunRsync({s})
    PROVE  /\ pc' = "rsync" /\ sending' = {}
           /\ listed' = {r \in Subtree(s) : src[r] # Absent}
           /\ listed' \subseteq Sources
  <1>1. UNION {Subtree(q) : q \in {s}} = Subtree(s)
    OBVIOUS
  <1> QED BY <1>1 DEF RunRsync, Subtree

\* That item is apart from the items that are left.
LEMMA ItemApart ==
    ASSUME TypeOK, NEW s \in Sources, NEW others \in SUBSET Sources, s \notin others,
           \A p \in others : ~Beneath(p, s) /\ ~Beneath(s, p)
    PROVE  \A p \in others : \A r \in Subtree(s) : ~Within(p, r)
  <1> SUFFICES ASSUME NEW p \in others, NEW r \in Subtree(s), Within(p, r)
               PROVE  FALSE
    OBVIOUS
  <1>1. r \in Sources /\ Within(s, r)
    BY SubtreeWithin
  <1>2. Within(p, s) \/ Within(s, p)
    BY <1>1, Places, Comparable
  <1> QED BY <1>2 DEF Within

\* do_move_fast() finds that it can rename: nothing has happened yet.
LEMMA RenameItemInv ==
    ASSUME HybridInv, NEW s \in Sources, RenameItem(s)
    PROVE  Orderly' /\ RsyncOrderly'
  <1>1. UNCHANGED <<vars, engine, oneVolume, rsyncVars>> /\ engine = "each"
    BY DEF RenameItem, FastItem
  <1>2. UNCHANGED <<src, dst, op, policy, pc, cur, open, left, chosen, allowed, excused,
                    theirs, listed, sending, wrong>>
    BY <1>1 DEF vars, rsyncVars
  <1>3. Apart' /\ NothingInTheWay' /\ Consented'
    BY <1>2 DEF HybridInv, Orderly, Apart, NothingInTheWay, Consented, Pending, InHand,
                Within, Beneath, Subtree, TheirsOrNothing, Here
  <1>4. OpenArrived' /\ PolicyChosen' /\ StillNewer'
    BY <1>2 DEF HybridInv, Orderly, OpenArrived, PolicyChosen, StillNewer
  <1>5. SeenOrGone' /\ RsyncSane'
    BY <1>1, <1>2 DEF HybridInv, RsyncOrderly, SeenOrGone, RsyncSane, InHand, Within, Beneath
  <1>6. SendingConsented' /\ ListedClear' /\ DirsArrive' /\ StillComparable'
    BY <1>1, <1>2 DEF HybridInv, RsyncOrderly, SendingConsented, ListedClear, DirsArrive,
                      StillComparable, TheirsOrNothing, DirArrived, Subtree, Beneath
  <1> QED BY <1>3, <1>4, <1>5, <1>6 DEF Orderly, RsyncOrderly

\* The next item for rsync: it is skipped, or clashes, or rsync is started.
LEMMA RsyncItemInv ==
    ASSUME NoTwins, HybridInv, NEW s \in Sources, RsyncItem(s)
    PROVE  Orderly' /\ RsyncOrderly'
  <1>0. TypeOK /\ Orderly /\ RsyncOrderly
    BY DEF HybridInv, HybridTypeOK
  <1>1. /\ UNCHANGED <<src, dst, op, policy, open, chosen, theirs, engine, oneVolume, renaming>>
        /\ left' = left \ {s} /\ s \in left /\ pc = "next" /\ engine = "each"
    BY DEF RsyncItem, FastItem, Frontier
  <1>2. Pending = left /\ left \subseteq Sources
    BY <1>0, <1>1 DEF Pending, InHand, TypeOK
  <1>3. chosen = "none" => \A r \in Subtree(s) : TheirsOrNothing(Target(r))
    BY <1>0, <1>1, <1>2 DEF Orderly, NothingInTheWay
  <1>4. Shrinks
    BY <1>1 DEF Shrinks
  <1>5. listed = {} /\ sending = {}
    BY <1>0, <1>1 DEF RsyncOrderly, RsyncSane
  <1>6. CASE UNCHANGED <<pc, cur, allowed, rsyncVars>>
    <2>1. Orderly' /\ StillComparable'
      <3>1. ~InHand' /\ Pending' \subseteq Pending /\ Consented'
        BY <1>1, <1>2, <1>6 DEF Pending, InHand, Consented
      <3> QED BY <1>1, <1>4, <1>6, <3>1, QuietStep
    <2>2. SeenOrGone' /\ RsyncSane'
      BY <1>0, <1>1, <1>6 DEF SeenOrGone, RsyncSane, InHand, rsyncVars, RsyncOrderly
    <2>3. SendingConsented' /\ ListedClear' /\ DirsArrive'
      BY <1>1, <1>5, <1>6 DEF SendingConsented, ListedClear, DirsArrive, rsyncVars
    <2> QED BY <2>1, <2>2, <2>3 DEF RsyncOrderly
  <1>7. CASE /\ cur' = [path |-> s, info |-> src[s], had |-> dst[Target(s)]]
             /\ pc' = "clash"
             /\ allowed' = IF chosen = "none" THEN allowed ELSE allowed \cup {s}
             /\ UNCHANGED rsyncVars
    <2>1. Orderly' /\ StillComparable'
      <3>1. cur'.path = s /\ Pending' \subseteq Pending
        BY <1>1, <1>2, <1>7 DEF Pending
      <3>2. Consented'
        <4>1. s \in Subtree(s) /\ Here' = Target(s)
          BY <1>7 DEF Subtree, Here
        <4>2. s \in allowed' \/ TheirsOrNothing(Target(s))
          BY <1>3, <1>7, <4>1
        <4> QED BY <1>1, <1>7, <3>1, <4>1, <4>2 DEF Consented, TheirsOrNothing
      <3> QED BY <1>1, <1>4, <1>7, <3>1, <3>2, QuietStep
    <2>2. SeenOrGone' /\ RsyncSane'
      BY <1>0, <1>1, <1>7 DEF SeenOrGone, RsyncSane, rsyncVars, RsyncOrderly
    <2>3. SendingConsented' /\ ListedClear' /\ DirsArrive'
      BY <1>1, <1>5, <1>7 DEF SendingConsented, ListedClear, DirsArrive, rsyncVars
    <2> QED BY <2>1, <2>2, <2>3 DEF RsyncOrderly
  <1>8. CASE /\ ~Clash(src[s], dst[Target(s)])
             /\ cur' = [path |-> s, info |-> src[s], had |-> dst[Target(s)]]
             /\ RunRsync({s}) /\ UNCHANGED allowed
    <2>1. /\ pc' = "rsync" /\ sending' = {}
          /\ listed' = {r \in Subtree(s) : src[r] # Absent} /\ cur'.path = s
      BY <1>8, ListedItem
    <2>2. Orderly' /\ StillComparable'
      <3>1. ~InHand' /\ Pending' \subseteq Pending /\ Consented'
        BY <1>1, <1>2, <2>1 DEF Pending, InHand, Consented
      <3> QED BY <1>1, <1>4, <2>1, <3>1, QuietStep
    <2>3. \A p \in left' : \A r \in Subtree(s) : ~Within(p, r)
      <3>1. \A p \in left' : ~Beneath(p, s) /\ ~Beneath(s, p)
        BY <1>0, <1>1, <1>2 DEF Orderly, Apart
      <3> QED BY <1>0, <1>1, <1>2, <3>1, ItemApart
    <2>4. SeenOrGone' /\ RsyncSane'
      <3>1. \A p \in left' : \A r \in (listed \cup sending)' : ~Within(p, r)
        BY <2>1, <2>3
      <3> QED BY <1>0, <1>1, <2>1, <3>1
              DEF SeenOrGone, InHand, RsyncSane, RsyncOrderly, Within, Beneath
    <2>5. SendingConsented' /\ ListedClear'
      BY <1>1, <1>3, <2>1 DEF SendingConsented, ListedClear, TheirsOrNothing
    <2>6. DirsArrive'
      <3>1. \A r \in Subtree(s) : src[r].kind = "dir" => r \in listed'
        BY <2>1 DEF Absent
      <3>2. src[s].kind = "dir" => dst[Target(s)].kind = "dir" \/ dst[Target(s)] = Absent
        BY <1>8 DEF Clash, IsDir
      <3> QED BY <1>1, <2>1, <3>1, <3>2 DEF DirsArrive, DirArrived, Subtree, Beneath
    <2> QED BY <2>2, <2>4, <2>5, <2>6 DEF RsyncOrderly
  <1> QED BY <1>6, <1>7, <1>8 DEF RsyncItem

\* A batch is begun with all items, or given up for one item after the other.
LEMMA BatchCopyInv ==
    ASSUME NoTwins, HybridInv, BatchCopy
    PROVE  Orderly' /\ RsyncOrderly'
  <1>0. TypeOK /\ Orderly /\ RsyncOrderly
    BY DEF HybridInv, HybridTypeOK
  <1>1. /\ UNCHANGED <<src, dst, op, policy, cur, open, chosen, allowed, excused, theirs,
                       oneVolume, renaming>>
        /\ engine = "batch" /\ engine' = "each" /\ op = "copy" /\ pc = "next" /\ policy # "ask"
    BY <1>0 DEF BatchCopy, RsyncOrderly, RsyncSane
  <1>2. Pending = left /\ left \subseteq Sources /\ Shrinks
    BY <1>0, <1>1 DEF Pending, InHand, TypeOK, Shrinks
  <1>3. CASE RunRsync(left) /\ left' = {}
    <2>1. /\ pc' = "rsync" /\ sending' = {}
          /\ listed' = {r \in UNION {Subtree(s) : s \in left} : src[r] # Absent}
      BY <1>3 DEF RunRsync
    <2>2. Orderly' /\ StillComparable'
      <3>1. ~InHand' /\ Pending' \subseteq Pending /\ Consented'
        BY <1>3, <2>1 DEF Pending, InHand, Consented
      <3> QED BY <1>1, <1>2, <2>1, <3>1, QuietStep
    <2>3. chosen = "none" => \A r \in listed' : TheirsOrNothing(Target(r))
      BY <1>0, <1>2, <2>1 DEF Orderly, NothingInTheWay
    <2>4. SeenOrGone' /\ RsyncSane'
      BY <1>1, <1>3, <2>1 DEF SeenOrGone, InHand, RsyncSane
    <2>5. SendingConsented' /\ ListedClear' /\ DirsArrive'
      BY <1>1, <2>1, <2>3 DEF SendingConsented, ListedClear, DirsArrive, TheirsOrNothing
    <2> QED BY <2>2, <2>4, <2>5 DEF RsyncOrderly
  <1>4. CASE UNCHANGED <<pc, left, rsyncVars>>
    <2>1. Orderly' /\ StillComparable'
      <3>1. ~InHand' /\ Pending' \subseteq Pending /\ Consented'
        BY <1>1, <1>2, <1>4 DEF Pending, InHand, Consented
      <3> QED BY <1>1, <1>2, <1>4, <3>1, QuietStep
    <2>2. SeenOrGone' /\ RsyncSane'
      BY <1>0, <1>1, <1>4 DEF SeenOrGone, InHand, RsyncSane, rsyncVars, RsyncOrderly
    <2>3. SendingConsented' /\ ListedClear' /\ DirsArrive'
      BY <1>0, <1>1, <1>4 DEF SendingConsented, ListedClear, DirsArrive, rsyncVars,
                              RsyncOrderly, RsyncSane
    <2> QED BY <2>1, <2>2, <2>3 DEF RsyncOrderly
  <1> QED BY <1>3, <1>4 DEF BatchCopy

\* What rsync could not merge with is removed, and rsync is started.
LEMMA RemoveClashInv ==
    ASSUME NoTwins, HybridInv, RemoveClash
    PROVE  Orderly' /\ RsyncOrderly'
  <1>0. TypeOK /\ Orderly /\ RsyncOrderly
    BY DEF HybridInv, HybridTypeOK
  <1>1. /\ UNCHANGED <<src, op, policy, open, left, chosen, allowed, theirs,
                       engine, oneVolume, renaming>>
        /\ pc = "clash" /\ InHand
    BY DEF RemoveClash, InHand
  <1>2. /\ cur.path \in Sources /\ cur.path \in Pending /\ left \subseteq Pending
        /\ left \subseteq Sources /\ cur.path \notin left
    BY <1>0, <1>1 DEF TypeOK, Pending, Orderly, Apart
  <1>3. Shrinks
    BY <1>1 DEF Shrinks
  <1>4. CASE /\ Removable /\ dst' = [dst EXCEPT ![Here] = Absent]
             /\ RunRsync({cur.path}) /\ UNCHANGED cur
    <2>1. /\ pc' = "rsync" /\ sending' = {}
          /\ listed' = {r \in Subtree(cur.path) : src[r] # Absent}
      BY <1>2, <1>4, ListedItem
    <2>2. /\ Here \in Targets /\ Here = Target(cur.path)
          /\ \A t \in Targets : dst'[t] = dst[t] \/ (t = Here /\ dst'[t] = Absent)
          /\ dst'[Here] = Absent
      <3>1. Here \in Targets
        BY <1>2, Places DEF Here
      <3> QED BY <1>0, <1>1, <1>4, <3>1, HereCleared DEF TypeOK
    <2>3. ~InHand' /\ Pending' = left /\ Consented'
      BY <1>1, <2>1 DEF Pending, InHand, Consented
    <2>4. Fits(Here)
      BY <1>2, <2>2 DEF Fits, Absent
    <2>5. Aside(Here)
      <3>1. cur.path \in Subtree(cur.path)
        BY <1>2 DEF Subtree
      <3> QED BY <1>0, <1>1, <2>2, <2>3, <3>1, OtherPlaces DEF Aside, Orderly
    <2>6. \A t \in Targets : dst'[t] # dst[t] => Fits(t) /\ Aside(t)
      BY <2>2, <2>4, <2>5
    <2>7. Orderly'
      BY <1>0, <1>1, <1>2, <1>3, <2>1, <2>3, <2>6, StepOrderly
    <2>8. StillComparable'
      BY <1>0, <1>1, <1>3, <2>6, StepComparable DEF RsyncOrderly
    <2>9. \A p \in left : \A r \in Subtree(cur.path) : ~Within(p, r)
      <3>1. \A p \in left : ~Beneath(p, cur.path) /\ ~Beneath(cur.path, p)
        BY <1>0, <1>2 DEF Orderly, Apart
      <3> QED BY <1>0, <1>2, <3>1, ItemApart
    <2>10. SeenOrGone' /\ RsyncSane'
      <3>1. \A p \in left' : \A r \in (listed \cup sending)' : ~Within(p, r)
        BY <1>1, <2>1, <2>9
      <3> QED BY <1>0, <1>1, <1>2, <1>4, <2>1, <3>1
              DEF SeenOrGone, InHand, RsyncSane, RsyncOrderly, Within, Beneath
    <2>11. SendingConsented' /\ ListedClear'
      <3>1. chosen = "none" => \A r \in Subtree(cur.path) : TheirsOrNothing(Target(r))
        BY <1>0, <1>2 DEF Orderly, NothingInTheWay
      <3>2. \A r \in Subtree(cur.path) : Target(r) \in Targets
        BY Places DEF Subtree
      <3> QED BY <1>1, <2>1, <2>2, <3>1, <3>2 DEF SendingConsented, ListedClear, TheirsOrNothing
    <2>12. DirsArrive'
      <3>1. \A r \in Subtree(cur.path) : src[r].kind = "dir" => r \in listed'
        BY <2>1 DEF Absent
      <3> QED BY <1>1, <1>4, <2>1, <2>2, <3>1 DEF DirsArrive, Subtree, Beneath
    <2> QED BY <2>7, <2>8, <2>10, <2>11, <2>12 DEF RsyncOrderly
  <1>5. CASE GiveUp /\ UNCHANGED <<dst, rsyncVars>>
    <2>1. pc' = "next" /\ ~InHand'
      BY <1>5, PassedType DEF GiveUp
    <2>2. Orderly' /\ StillComparable'
      <3>1. Pending' \subseteq Pending /\ Consented'
        BY <1>1, <2>1 DEF Pending, Consented
      <3> QED BY <1>1, <1>3, <1>5, <2>1, <3>1, QuietStep
    <2>3. SeenOrGone' /\ RsyncSane'
      BY <1>0, <1>1, <1>5, <2>1 DEF SeenOrGone, RsyncSane, rsyncVars, RsyncOrderly
    <2>4. SendingConsented' /\ ListedClear' /\ DirsArrive'
      BY <1>0, <1>1, <1>5, <2>1 DEF SendingConsented, ListedClear, DirsArrive, rsyncVars,
                                    RsyncOrderly, RsyncSane
    <2> QED BY <2>2, <2>3, <2>4 DEF RsyncOrderly
  <1> QED BY <1>4, <1>5 DEF RemoveClash

-----------------------------------------------------------------------------
(* rsync at work.                                                          *)

\* What rsync puts in place of r, if it puts something there
Puts(r, n) ==
    /\ dst' = [dst EXCEPT ![Target(r)] = n]
    /\ dst[Target(r)].kind # "dir"
    /\ src[r].kind = "dir" => n.kind = "dir"
    /\ src[r].kind = "file" => n.kind \in {"file", "part"}

\* What rsync does to the files disturbs no order.
LEMMA PutsOrderly ==
    ASSUME NoTwins, HybridInv, pc = "rsync",
           UNCHANGED <<policy, pc, cur, open, left, chosen, theirs, engine>>, Shrinks,
           dst' = dst \/ \E r \in listed \cup sending : \E n : Puts(r, n)
    PROVE  Orderly' /\ StillComparable'
  <1>1. TypeOK /\ Orderly /\ RsyncOrderly /\ listed \cup sending \subseteq Sources
    BY DEF HybridInv, HybridTypeOK
  <1>2. ~InHand' /\ Pending' = left /\ Pending' \subseteq Pending /\ Consented'
        /\ left \subseteq Sources
    BY <1>1 DEF InHand, Pending, Consented, TypeOK
  <1>3. ASSUME NEW t \in Targets, dst'[t] # dst[t]
        PROVE  Fits(t) /\ Aside(t)
    <2>1. PICK r \in listed \cup sending : \E n : Puts(r, n)
      BY <1>3
    <2>2. PICK n : Puts(r, n)
      BY <2>1
    <2>3. r \in Sources /\ t = Target(r) /\ dst'[t] = n
      BY <1>1, <1>3, <2>2 DEF Puts, TypeOK
    <2>4. Fits(t)
      BY <2>2, <2>3 DEF Fits, Puts
    <2>5. ASSUME NEW p \in left, NEW q \in Subtree(p)
          PROVE  Target(q) # t
      <3>1. p \in Sources /\ q \in Sources /\ Within(p, q)
        BY <1>2, SubtreeWithin
      <3>2. ~Within(p, r)
        BY <1>1 DEF RsyncOrderly, RsyncSane
      <3> QED BY <2>3, <3>1, <3>2 DEF NoTwins
    <2>6. Aside(t)
      BY <1>2, <2>2, <2>3, <2>5 DEF Aside, Puts
    <2> QED BY <2>4, <2>6
  <1> QED BY <1>1, <1>2, <1>3, StepOrderly, StepComparable DEF RsyncOrderly

\* A directory that is given up for one at its target has arrived, or was not to be.
LEMMA KeptDirArrived ==
    ASSUME HybridInv, pc = "rsync", op = "move", NEW r \in listed,
           r \in Subtree(cur.path), src[r].kind = "dir",
           dst[Target(r)] # Absent, KeptByRsync(src[r], dst[Target(r)])
    PROVE  DirArrived(r)
  <1>1. /\ TypeOK /\ RsyncOrderly /\ r \in Sources /\ Target(r) \in Targets
        /\ engine # "classic" /\ cur.path \in Sources
    BY Places DEF HybridInv, HybridTypeOK, RsyncOrderly, RsyncSane
  <1>2. policy = "skip"
    BY DEF KeptByRsync
  <1>3. dst[Target(r)].kind # "none"
    BY <1>1 DEF TypeOK, Node, Absent
  <1>4. CASE Len(r) > 2
    BY <1>1, <1>2, <1>3, <1>4 DEF RsyncOrderly, StillComparable, DirArrived
  <1>5. CASE ~(Len(r) > 2)
    <2>1. r = cur.path
      <3>1. /\ Len(r) \in Nat /\ Len(cur.path) \in Nat /\ Len(cur.path) >= 2
        BY <1>1, Places
      <3> QED BY <1>5, <3>1 DEF Subtree, Beneath
    <2> QED BY <2>1 DEF HybridInv, RsyncOrderly, DirsArrive
  <1> QED BY <1>4, <1>5

\* What the generator of rsync does when it looks at r: it makes a directory, or
\* decides to send, or leaves r, and then has failed or left no directory behind.
LEMMA LookEffect ==
    ASSUME HybridInv, NEW r \in Sources, Look(r)
    PROVE  /\ pc = "rsync" /\ r \in listed /\ listed' = listed \ {r}
           /\ UNCHANGED <<src, op, policy, pc, cur, open, left, chosen, theirs,
                          engine, oneVolume, renaming>>
           /\ dst' = dst \/ (Puts(r, src[r]) /\ src[r].kind = "dir" /\ dst[Target(r)] = Absent)
           /\ \/ sending' = sending /\ allowed' = allowed
              \/ /\ sending' = sending \cup {r}
                 /\ \/ allowed' = allowed /\ (dst[Target(r)] = Absent \/ chosen = "none")
                    \/ /\ allowed' = allowed \cup {r} /\ chosen # "none"
                       /\ src[r] # Absent /\ dst[Target(r)] # Absent
                       /\ ~MergesDirs(src[r], dst[Target(r)])
                       /\ ~KeptByRsync(src[r], dst[Target(r)])
                 /\ dst' = dst
           /\ wrong => wrong'
           /\ op = "move" /\ ~wrong' /\ r \in Subtree(cur.path) /\ src[r].kind = "dir"
                => r \in sending' \/ DirArrived(r)'
  <1>0. TypeOK /\ Target(r) \in Targets
    BY Places DEF HybridInv, HybridTypeOK
  <1>1. /\ pc = "rsync" /\ r \in listed /\ listed' = listed \ {r}
        /\ UNCHANGED <<src, op, policy, pc, cur, open, left, chosen, theirs,
                       engine, oneVolume, renaming>>
    BY DEF Look
  <1>2. CASE wrong' = TRUE /\ UNCHANGED <<dst, sending, allowed>>
    BY <1>1, <1>2
  <1>3. CASE /\ src[r] # Absent /\ dst[Target(r)] = Absent
             /\ IF IsDir(src[r])
                THEN dst' = [dst EXCEPT ![Target(r)] = src[r]] /\ UNCHANGED sending
                ELSE sending' = sending \cup {r} /\ UNCHANGED dst
             /\ UNCHANGED <<allowed, wrong>>
    <2>1. CASE src[r].kind = "dir"
      <3>1. Puts(r, src[r])
        BY <1>3, <2>1 DEF Puts, IsDir, Absent
      <3>2. DirArrived(r)'
        BY <1>0, <1>3, <2>1 DEF DirArrived, IsDir, TypeOK
      <3> QED BY <1>1, <1>3, <2>1, <3>1, <3>2 DEF IsDir
    <2>2. CASE src[r].kind # "dir"
      BY <1>1, <1>3, <2>2 DEF IsDir
    <2> QED BY <2>1, <2>2
  <1>4. CASE MergesDirs(src[r], dst[Target(r)]) /\ UNCHANGED <<dst, sending, allowed, wrong>>
    BY <1>1, <1>4 DEF MergesDirs, DirArrived
  <1>5. CASE /\ dst[Target(r)] # Absent /\ KeptByRsync(src[r], dst[Target(r)])
             /\ UNCHANGED <<dst, sending, allowed, wrong>>
    <2>1. op = "move" /\ r \in Subtree(cur.path) /\ src[r].kind = "dir" => DirArrived(r)
      BY <1>1, <1>5, KeptDirArrived
    <2> QED BY <1>1, <1>5, <2>1 DEF DirArrived
  <1>6. CASE /\ src[r] # Absent /\ dst[Target(r)] # Absent
             /\ ~MergesDirs(src[r], dst[Target(r)])
             /\ ~KeptByRsync(src[r], dst[Target(r)])
             /\ sending' = sending \cup {r}
             /\ allowed' = IF chosen = "none" THEN allowed ELSE allowed \cup {r}
             /\ UNCHANGED <<wrong, dst>>
    BY <1>1, <1>6
  <1> QED BY <1>2, <1>3, <1>4, <1>5, <1>6 DEF Look

\* Looking at r keeps the invariant.
LEMMA LookInv ==
    ASSUME NoTwins, HybridInv, NEW r \in Sources, Look(r)
    PROVE  Orderly' /\ RsyncOrderly'
  <1>0. TypeOK /\ RsyncOrderly /\ listed \subseteq Sources /\ sending \subseteq Sources
        /\ Target(r) \in Targets
    BY Places DEF HybridInv, HybridTypeOK
  <1>1. /\ pc = "rsync" /\ r \in listed /\ listed' = listed \ {r} /\ r \notin sending
        /\ UNCHANGED <<src, op, policy, pc, cur, open, left, chosen, theirs,
                       engine, oneVolume, renaming>>
        /\ sending' = sending \/ sending' = sending \cup {r}
        /\ wrong => wrong'
    BY <1>0, LookEffect DEF RsyncOrderly, RsyncSane
  <1>2. dst' = dst \/ (Puts(r, src[r]) /\ src[r].kind = "dir" /\ dst[Target(r)] = Absent)
    BY LookEffect
  <1>3. \A q \in Sources : q # r => dst'[Target(q)] = dst[Target(q)]
    <2>1. \A q \in Sources : q # r => Target(q) # Target(r) /\ Target(q) \in Targets
      BY Places DEF NoTwins
    <2> QED BY <1>0, <1>2, <2>1 DEF Puts, TypeOK
  <1>4. Orderly' /\ StillComparable'
    <2>1. Shrinks
      BY <1>1 DEF Shrinks
    <2> QED BY <1>1, <1>2, <2>1, PutsOrderly
  <1>5. SeenOrGone' /\ RsyncSane'
    <2>1. listed' \cup sending' \subseteq listed \cup sending /\ listed' \cap sending' = {}
      BY <1>0, <1>1 DEF RsyncOrderly, RsyncSane
    <2> QED BY <1>0, <1>1, <2>1
            DEF SeenOrGone, InHand, RsyncSane, RsyncOrderly, Within, Beneath
  <1>6. SendingConsented'
    <2>1. ASSUME NEW q \in sending
          PROVE  q \in allowed' \/ TheirsOrNothing(Target(q))'
      <3>1. q \in allowed \/ TheirsOrNothing(Target(q))
        BY <1>0 DEF RsyncOrderly, SendingConsented
      <3>2. dst'[Target(q)] = dst[Target(q)] /\ allowed \subseteq allowed'
        BY <1>0, <1>1, <1>3, LookEffect
      <3> QED BY <1>1, <3>1, <3>2 DEF TheirsOrNothing
    <2>2. ASSUME r \in sending'
          PROVE  r \in allowed' \/ TheirsOrNothing(Target(r))'
      <3>1. /\ dst' = dst
            /\ \/ r \in allowed' \/ dst[Target(r)] = Absent \/ chosen = "none"
        BY <1>1, <2>2, LookEffect
      <3>2. chosen = "none" => TheirsOrNothing(Target(r))
        BY <1>0, <1>1 DEF RsyncOrderly, ListedClear
      <3> QED BY <1>1, <3>1, <3>2 DEF TheirsOrNothing
    <2> QED BY <1>1, <2>1, <2>2 DEF SendingConsented
  <1>7. ListedClear'
    BY <1>0, <1>1, <1>3 DEF RsyncOrderly, ListedClear, TheirsOrNothing
  <1>8. DirsArrive'
    <2>1. ASSUME op = "move", ~wrong', NEW q \in Subtree(cur.path), src[q].kind = "dir"
          PROVE  q \in listed' \cup sending' \/ DirArrived(q)'
      <3>1. CASE q = r
        BY <1>1, <2>1, <3>1, LookEffect
      <3>2. CASE q # r
        <4>1. q \in listed \cup sending \/ DirArrived(q)
          BY <1>0, <1>1, <2>1 DEF RsyncOrderly, DirsArrive
        <4>2. DirArrived(q) => DirArrived(q)'
          BY <1>1, <1>3, <3>2 DEF DirArrived, Subtree
        <4> QED BY <1>1, <3>2, <4>1, <4>2
      <3> QED BY <3>1, <3>2
    <2>2. ASSUME op = "move", cur.path \in listed', src[cur.path].kind = "dir"
          PROVE  DirArrived(cur.path)' \/ dst'[Target(cur.path)] = Absent
      <3>1. cur.path \in listed /\ cur.path # r /\ cur.path \in Sources
        BY <1>0, <1>1, <2>2
      <3>2. DirArrived(cur.path) \/ dst[Target(cur.path)] = Absent
        BY <1>0, <1>1, <2>2, <3>1 DEF RsyncOrderly, DirsArrive
      <3> QED BY <1>1, <1>3, <3>1, <3>2 DEF DirArrived
    <2> QED BY <1>1, <2>1, <2>2 DEF DirsArrive, Subtree, Beneath, DirArrived
  <1> QED BY <1>4, <1>5, <1>6, <1>7, <1>8 DEF RsyncOrderly

\* So does the receiver when it puts a complete copy in place.
LEMMA ArriveInv ==
    ASSUME NoTwins, HybridInv, NEW r \in Sources, Arrive(r)
    PROVE  Orderly' /\ RsyncOrderly'
  <1>0. TypeOK /\ RsyncOrderly /\ listed \subseteq Sources /\ sending \subseteq Sources
        /\ Target(r) \in Targets
    BY Places DEF HybridInv, HybridTypeOK
  <1>1. /\ pc = "rsync" /\ r \in sending /\ r \notin listed /\ sending' = sending \ {r}
        /\ UNCHANGED <<op, policy, pc, cur, open, left, chosen, allowed, theirs,
                       engine, oneVolume, renaming, listed, wrong>>
    BY <1>0 DEF Arrive, RsyncOrderly, RsyncSane
  <1>2. Puts(r, src[r]) /\ dst'[Target(r)] = src[r]
    BY <1>0 DEF Arrive, Puts, IsDir, TypeOK
  <1>3. \A q \in Sources : q # r => dst'[Target(q)] = dst[Target(q)]
    <2>1. \A q \in Sources : q # r => Target(q) # Target(r) /\ Target(q) \in Targets
      BY Places DEF NoTwins
    <2> QED BY <1>0, <1>2, <2>1 DEF Puts, TypeOK
  <1>4. \A s \in Sources : src'[s] = src[s] \/ src'[s] = Absent
    BY <1>0 DEF Arrive, TypeOK
  <1>5. Orderly' /\ StillComparable'
    BY <1>1, <1>2, <1>4, PutsOrderly DEF Shrinks
  <1>6. SeenOrGone' /\ RsyncSane'
    BY <1>0, <1>1 DEF SeenOrGone, InHand, RsyncSane, RsyncOrderly, Within, Beneath
  <1>7. SendingConsented' /\ ListedClear'
    BY <1>0, <1>1, <1>3 DEF RsyncOrderly, SendingConsented, ListedClear, TheirsOrNothing
  <1>8. DirsArrive'
    <2>0. \A q \in Sources : src'[q].kind = "dir" => src[q].kind = "dir"
      BY <1>4 DEF Absent
    <2>1. ASSUME op = "move", ~wrong, NEW q \in Subtree(cur.path), src'[q].kind = "dir"
          PROVE  q \in listed' \cup sending' \/ DirArrived(q)'
      <3>0. q \in Sources /\ src[q].kind = "dir"
        BY <2>0, <2>1 DEF Subtree
      <3>1. CASE q = r
        BY <1>2, <3>0, <3>1 DEF DirArrived
      <3>2. CASE q # r
        <4>1. q \in listed \cup sending \/ DirArrived(q)
          BY <1>0, <1>1, <2>1, <3>0 DEF RsyncOrderly, DirsArrive
        <4>2. DirArrived(q) => DirArrived(q)'
          BY <1>1, <1>3, <3>0, <3>2 DEF DirArrived
        <4> QED BY <1>1, <3>2, <4>1, <4>2
      <3> QED BY <3>1, <3>2
    <2>2. ASSUME op = "move", cur.path \in listed, src'[cur.path].kind = "dir"
          PROVE  DirArrived(cur.path)' \/ dst'[Target(cur.path)] = Absent
      <3>1. cur.path # r /\ cur.path \in Sources /\ src[cur.path].kind = "dir"
        BY <1>0, <1>1, <2>0, <2>2
      <3>2. DirArrived(cur.path) \/ dst[Target(cur.path)] = Absent
        BY <1>0, <1>1, <2>2, <3>1 DEF RsyncOrderly, DirsArrive
      <3> QED BY <1>1, <1>3, <3>1, <3>2 DEF DirArrived
    <2> QED BY <1>1, <2>1, <2>2 DEF DirsArrive, Subtree, Beneath, DirArrived
  <1> QED BY <1>5, <1>6, <1>7, <1>8 DEF RsyncOrderly

\* So does a file that cannot be sent.
LEMMA NotSentInv ==
    ASSUME NoTwins, HybridInv, NEW r \in Sources, NotSent(r)
    PROVE  Orderly' /\ RsyncOrderly'
  <1>0. TypeOK /\ RsyncOrderly
    BY DEF HybridInv, HybridTypeOK
  <1>1. /\ pc = "rsync" /\ sending' = sending \ {r} /\ wrong'
        /\ UNCHANGED <<src, dst, op, policy, pc, cur, open, left, chosen, allowed, theirs,
                       engine, oneVolume, renaming, listed>>
    BY DEF NotSent, vars
  <1>2. Orderly' /\ StillComparable'
    BY <1>1, PutsOrderly DEF Shrinks
  <1>3. SeenOrGone' /\ RsyncSane'
    BY <1>0, <1>1 DEF SeenOrGone, InHand, RsyncSane, RsyncOrderly, Within, Beneath
  <1>4. SendingConsented' /\ ListedClear' /\ DirsArrive'
    BY <1>0, <1>1 DEF RsyncOrderly, SendingConsented, ListedClear, DirsArrive,
                      TheirsOrNothing, DirArrived
  <1> QED BY <1>2, <1>3, <1>4 DEF RsyncOrderly

\* So does the end of rsync before its time.
LEMMA RsyncDiesInv ==
    ASSUME NoTwins, HybridInv, RsyncDies
    PROVE  Orderly' /\ RsyncOrderly'
  <1>0. TypeOK /\ RsyncOrderly /\ sending \subseteq Sources
    BY DEF HybridInv, HybridTypeOK
  <1>1. /\ pc = "rsync" /\ listed' = {} /\ sending' = {} /\ wrong'
        /\ UNCHANGED <<src, op, policy, pc, cur, open, left, chosen, allowed, theirs,
                       engine, oneVolume, renaming>>
    BY DEF RsyncDies
  <1>2. dst' = dst \/ \E r \in sending : Puts(r, CutShort(src[r]))
    <2>1. ASSUME NEW r \in sending, ~IsDir(dst[Target(r)]),
                 dst' = [dst EXCEPT ![Target(r)] = CutShort(src[r])]
          PROVE  Puts(r, CutShort(src[r]))
      <3>1. src[r] \in Node
        BY <1>0 DEF TypeOK
      <3> QED BY <2>1, <3>1, CutShortFits DEF Puts, IsDir
    <2> QED BY <2>1 DEF RsyncDies
  <1>3. Orderly' /\ StillComparable'
    BY <1>1, <1>2, PutsOrderly DEF Shrinks
  <1>4. SeenOrGone' /\ RsyncSane'
    BY <1>0, <1>1 DEF SeenOrGone, InHand, RsyncSane, RsyncOrderly
  <1>5. SendingConsented' /\ ListedClear' /\ DirsArrive'
    BY <1>1 DEF SendingConsented, ListedClear, DirsArrive
  <1> QED BY <1>3, <1>4, <1>5 DEF RsyncOrderly

\* When rsync has ended well, every directory of the item has arrived.
LEMMA RsyncEndsInv ==
    ASSUME NoTwins, HybridInv, RsyncEnds
    PROVE  Orderly' /\ RsyncOrderly'
  <1>0. TypeOK /\ Orderly /\ RsyncOrderly
    BY DEF HybridInv, HybridTypeOK
  <1>1. /\ pc = "rsync" /\ listed = {} /\ sending = {}
        /\ UNCHANGED <<src, dst, op, policy, open, left, chosen, allowed, theirs,
                       engine, oneVolume, renaming, sending, wrong>>
    BY DEF RsyncEnds
  <1>2. \/ pc' = "next" /\ listed' = {}
        \/ /\ pc' = "tidy" /\ UNCHANGED cur /\ op = "move" /\ ~wrong
           /\ listed' = {r \in Subtree(cur.path) : IsDir(src[r])}
    BY DEF RsyncEnds, Passed
  <1>3. Orderly' /\ StillComparable'
    <2>1. ~InHand' /\ Pending' \subseteq Pending /\ Consented' /\ Shrinks
      BY <1>1, <1>2 DEF Pending, InHand, Consented, Shrinks
    <2> QED BY <1>1, <1>2, <2>1, QuietStep
  <1>4. SeenOrGone' /\ RsyncSane'
    BY <1>0, <1>1, <1>2 DEF SeenOrGone, InHand, RsyncSane, RsyncOrderly
  <1>5. DirsArrive'
    <2>1. op = "move" /\ ~wrong =>
            \A r \in Subtree(cur.path) : src[r].kind = "dir" => DirArrived(r)
      BY <1>0, <1>1 DEF RsyncOrderly, DirsArrive
    <2> QED BY <1>1, <1>2, <2>1 DEF DirsArrive, DirArrived
  <1>6. SendingConsented' /\ ListedClear'
    BY <1>1, <1>2 DEF SendingConsented, ListedClear
  <1> QED BY <1>3, <1>4, <1>5, <1>6 DEF RsyncOrderly

\* Removing the directories that are left keeps the invariant, and so does the end of it.
LEMMA TidyInv ==
    ASSUME NoTwins, HybridInv, (\E r \in Sources : Tidy(r)) \/ Tidied
    PROVE  Orderly' /\ RsyncOrderly'
  <1>0. TypeOK /\ Orderly /\ RsyncOrderly
    BY DEF HybridInv, HybridTypeOK
  <1>1. /\ pc = "tidy" /\ sending = {}
        /\ UNCHANGED <<dst, op, policy, open, left, chosen, allowed, theirs,
                       engine, oneVolume, renaming, sending, wrong>>
        /\ listed' \subseteq listed
        /\ (pc' = "tidy" /\ UNCHANGED cur) \/ (pc' = "next" /\ listed' = {})
    BY <1>0 DEF Tidy, Tidied, hybridVars, rsyncVars, Passed, RsyncOrderly, RsyncSane
  <1>2. \A s \in Sources : src'[s] = src[s] \/ src'[s] = Absent
    BY <1>0 DEF Tidy, Tidied, TypeOK
  <1>3. Orderly' /\ StillComparable'
    <2>1. ~InHand' /\ Pending' \subseteq Pending /\ Consented' /\ Shrinks
      BY <1>1, <1>2 DEF Pending, InHand, Consented, Shrinks
    <2> QED BY <1>1, <2>1, QuietStep
  <1>4. SeenOrGone' /\ RsyncSane'
    BY <1>0, <1>1 DEF SeenOrGone, InHand, RsyncSane, RsyncOrderly
  <1>5. DirsArrive'
    <2>1. \A r \in Sources : src'[r].kind = "dir" => src[r].kind = "dir"
      BY <1>2 DEF Absent
    <2>2. listed \subseteq Sources
      BY DEF HybridInv, HybridTypeOK
    <2> QED BY <1>0, <1>1, <2>1, <2>2 DEF RsyncOrderly, DirsArrive, DirArrived
  <1>6. SendingConsented' /\ ListedClear'
    BY <1>1 DEF SendingConsented, ListedClear
  <1> QED BY <1>3, <1>4, <1>5, <1>6 DEF RsyncOrderly

-----------------------------------------------------------------------------
(* Both engines keep their promise.                                        *)

\* Whoever lets rsync replace something has chosen a policy that says so.
LEMMA LookAgreed ==
    ASSUME HybridInv, pc = "rsync", NEW r \in Sources, chosen # "none",
           src[r] # Absent, dst[Target(r)] # Absent,
           ~MergesDirs(src[r], dst[Target(r)]), ~KeptByRsync(src[r], dst[Target(r)])
    PROVE  \/ chosen \in {"ask", "replace"}
           \/ chosen = "newer" /\ src[r].time > dst[Target(r)].time
  <1>1. policy = chosen /\ chosen \in {"ask", "replace", "skip", "newer"}
    BY DEF HybridInv, HybridTypeOK, TypeOK, Orderly, PolicyChosen
  <1>2. /\ src[r] \in Node /\ dst[Target(r)] \in Node /\ engine # "classic"
    BY Places DEF HybridInv, HybridTypeOK, TypeOK, RsyncOrderly, RsyncSane
  <1>3. /\ src[r].time \in Int /\ dst[Target(r)].time \in Int
        /\ src[r].kind # "none" /\ dst[Target(r)].kind # "none"
    BY <1>2 DEF Node, Absent
  <1>4. CASE policy = "newer"
    <2>1. src[r].kind \in {"file", "dir"}
      BY <1>2, <1>3, <1>4 DEF HybridInv, RsyncOrderly, StillComparable
    <2>2. CASE src[r].kind = "dir"
      BY <1>1, <1>3, <1>4, <2>2 DEF HybridInv, Orderly, StillNewer, MergesDirs
    <2>3. CASE src[r].kind = "file"
      <3>1. \/ dst[Target(r)].kind \in {"none", "file", "part"}
            \/ dst[Target(r)].time < src[r].time
        BY <1>2, <1>4, <2>3 DEF HybridInv, RsyncOrderly, StillComparable
      <3> QED BY <1>1, <1>3, <1>4, <2>3, <3>1 DEF KeptByRsync
    <2> QED BY <2>1, <2>2, <2>3
  <1>5. policy # "skip"
    BY DEF KeptByRsync
  <1> QED BY <1>1, <1>4, <1>5

\* The items of rsync clash as the policy allows.
LEMMA RsyncItemPromised ==
    ASSUME HybridInv, NEW s \in Sources, RsyncItem(s)
    PROVE  [T!Next]_(T!vars)
  <1>1. UNCHANGED <<src, dst, chosen, theirs>> /\ engine = "each"
    BY DEF RsyncItem, FastItem
  <1>2. CASE allowed' = allowed
    BY <1>1, <1>2 DEF T!vars
  <1>3. CASE allowed' # allowed
    <2>1. /\ Clash(src[s], dst[Target(s)]) /\ ~SkippedClash(src[s], dst[Target(s)])
          /\ allowed' = IF chosen = "none" THEN allowed ELSE allowed \cup {s}
      BY <1>3 DEF RsyncItem
    <2>2. chosen # "none" /\ allowed' = allowed \cup {s}
      BY <1>3, <2>1
    <2>3. policy = chosen /\ chosen \in {"ask", "replace", "skip", "newer"}
      BY <2>2 DEF HybridInv, HybridTypeOK, TypeOK, Orderly, PolicyChosen
    <2>4. src[s].time \in Int /\ dst[Target(s)].time \in Int
      BY Places DEF HybridInv, HybridTypeOK, TypeOK, Node, Absent
    <2>5. \/ chosen \in {"ask", "replace"}
          \/ chosen = "newer" /\ src[s].time > dst[Target(s)].time
      BY <2>1, <2>3, <2>4 DEF SkippedClash
    <2>6. T!Agree(s)
      BY <1>1, <2>2, <2>5 DEF T!Agree
    <2> QED BY <2>6 DEF T!Next
  <1> QED BY <1>2, <1>3

\* What is removed for rsync has been agreed to.
LEMMA RemoveClashPromised ==
    ASSUME HybridInv, RemoveClash
    PROVE  [T!Next]_(T!vars)
  <1>1. /\ UNCHANGED <<src, chosen, allowed, theirs>> /\ pc = "clash" /\ InHand
        /\ dst' = dst \/ dst' = [dst EXCEPT ![Here] = Absent]
    BY DEF RemoveClash, InHand
  <1>2. /\ Here = Target(cur.path)
        /\ \A t \in Targets : dst'[t] = dst[t] \/ (t = Here /\ dst'[t] = Absent)
    BY <1>1, HereCleared DEF HybridInv, HybridTypeOK
  <1>3. cur.path \in allowed \/ TheirsOrNothing(Here)
    BY <1>1 DEF HybridInv, Orderly, Consented
  <1>4. \A t \in Targets : dst'[t] # dst[t] =>
          TheirsOrNothing(t) \/ \E s \in allowed : Target(s) = t
    BY <1>2, <1>3
  <1> QED BY <1>1, <1>4, CarryStep

\* The generator makes a directory where nothing is, or agrees to what is chosen.
LEMMA LookPromised ==
    ASSUME HybridInv, NEW r \in Sources, Look(r)
    PROVE  [T!Next]_(T!vars)
  <1>1. UNCHANGED <<src, chosen, theirs>> /\ pc = "rsync"
    BY DEF Look
  <1>2. CASE dst' # dst
    <2>1. Puts(r, src[r]) /\ dst[Target(r)] = Absent /\ allowed' = allowed
      BY <1>2, LookEffect
    <2>2. \A t \in Targets : dst'[t] # dst[t] => TheirsOrNothing(t)
      BY <2>1 DEF Puts, TheirsOrNothing, HybridInv, HybridTypeOK, TypeOK
    <2> QED BY <1>1, <2>1, <2>2, CarryStep
  <1>3. CASE dst' = dst /\ allowed' = allowed
    BY <1>1, <1>3 DEF T!vars
  <1>4. CASE dst' = dst /\ allowed' # allowed
    <2>1. /\ allowed' = allowed \cup {r} /\ chosen # "none"
          /\ src[r] # Absent /\ dst[Target(r)] # Absent
          /\ ~MergesDirs(src[r], dst[Target(r)]) /\ ~KeptByRsync(src[r], dst[Target(r)])
      BY <1>4, LookEffect
    <2>2. \/ chosen \in {"ask", "replace"}
          \/ chosen = "newer" /\ src[r].time > dst[Target(r)].time
      BY <1>1, <2>1, LookAgreed
    <2>3. T!Agree(r)
      BY <1>1, <1>4, <2>1, <2>2 DEF T!Agree
    <2> QED BY <2>3 DEF T!Next
  <1> QED BY <1>2, <1>3, <1>4

\* What rsync puts in place of r it has been allowed to.
LEMMA SentPromised ==
    ASSUME HybridInv, NEW r \in sending, NEW n, UNCHANGED <<chosen, allowed, theirs>>,
           \A s \in Sources : src'[s] # src[s] => Taken(s)
    PROVE  dst' = [dst EXCEPT ![Target(r)] = n] => [T!Next]_(T!vars)
  <1> SUFFICES ASSUME dst' = [dst EXCEPT ![Target(r)] = n]
               PROVE  [T!Next]_(T!vars)
    OBVIOUS
  <1>1. r \in allowed \/ TheirsOrNothing(Target(r))
    BY DEF HybridInv, RsyncOrderly, SendingConsented
  <1>2. \A t \in Targets : dst'[t] # dst[t] => t = Target(r)
    BY DEF HybridInv, HybridTypeOK, TypeOK
  <1>3. \A t \in Targets : dst'[t] # dst[t] =>
          TheirsOrNothing(t) \/ \E s \in allowed : Target(s) = t
    BY <1>1, <1>2
  <1> QED BY <1>3, CarryStep DEF Taken

\* Every step of rsync is one that Transfer allows.
LEMMA RsyncPromised ==
    ASSUME HybridInv, Rsync
    PROVE  [T!Next]_(T!vars)
  <1>0. TypeOK /\ RsyncOrderly /\ listed \subseteq Sources
    BY DEF HybridInv, HybridTypeOK
  <1>1. ASSUME NEW r \in Sources, Arrive(r)
        PROVE  [T!Next]_(T!vars)
    <2>1. /\ r \in sending /\ UNCHANGED <<chosen, allowed, theirs>>
          /\ dst' = [dst EXCEPT ![Target(r)] = src[r]]
          /\ src' = src \/ src' = [src EXCEPT ![r] = Absent]
      BY <1>1 DEF Arrive
    <2>2. dst'[Target(r)] = src[r]
      BY <1>0, <2>1, Places DEF TypeOK
    <2>3. \A s \in Sources : src'[s] # src[s] => Taken(s)
      BY <1>0, <2>1, <2>2 DEF Taken, TypeOK
    <2>4. UNCHANGED <<chosen, allowed, theirs>>
      BY <2>1
    <2> QED BY <2>1, <2>3, <2>4, SentPromised
  <1>2. ASSUME NEW r \in Sources, NotSent(r)
        PROVE  [T!Next]_(T!vars)
    BY <1>2 DEF NotSent, vars, T!vars
  <1>3. ASSUME NEW r \in Sources, Tidy(r)
        PROVE  [T!Next]_(T!vars)
    <2>1. /\ UNCHANGED <<dst, chosen, allowed, theirs>> /\ pc = "tidy" /\ r \in listed
          /\ src' = src \/ (src' = [src EXCEPT ![r] = Absent] /\ src[r].kind = "dir")
      BY <1>3 DEF Tidy, IsDir
    <2>2. src[r].kind = "dir" => DirArrived(r)
      BY <1>0, <2>1 DEF RsyncOrderly, DirsArrive
    <2>3. \A s \in Sources : src'[s] # src[s] =>
            /\ src'[s] = Absent /\ src[s].kind = "dir"
            /\ dst'[Target(s)].kind = "dir" \/ Target(s) \in theirs.dst
      BY <1>0, <2>1, <2>2 DEF DirArrived, TypeOK
    <2> QED BY <2>1, <2>3, CarryStep
  <1>4. CASE RsyncDies
    <2>1. src' = src /\ UNCHANGED <<chosen, allowed, theirs>>
      BY <1>4 DEF RsyncDies
    <2>2. \A s \in Sources : src'[s] # src[s] => Taken(s)
      BY <2>1
    <2>3. CASE dst' = dst
      BY <2>1, <2>3 DEF T!vars
    <2>4. ASSUME NEW r \in sending, dst' = [dst EXCEPT ![Target(r)] = CutShort(src[r])]
          PROVE  [T!Next]_(T!vars)
      BY <2>1, <2>2, <2>4, SentPromised
    <2> QED BY <1>4, <2>3, <2>4 DEF RsyncDies
  <1>5. CASE RsyncEnds \/ Tidied
    BY <1>5 DEF RsyncEnds, Tidied, T!vars
  <1> QED BY <1>1, <1>2, <1>3, <1>4, <1>5, LookPromised DEF Rsync

\* The invariant holds at the start.
LEMMA HybridInitInv ==
    ASSUME DirectoriesAreNewer, RsyncComparable, HybridInit
    PROVE  HybridInv /\ T!Init
  <1>1. PromiseInv /\ T!Init
    BY InitPromised DEF HybridInit
  <1>2. /\ pc = "next" /\ open = <<>> /\ renaming = <<>> /\ listed = {} /\ sending = {}
        /\ left \subseteq Selected
    BY DEF HybridInit, Init
  <1>3. HybridTypeOK
    BY <1>1, <1>2 DEF PromiseInv, HybridTypeOK
  <1>4. RsyncSane
    <2>1. ASSUME engine = "batch"
          PROVE  op = "copy" /\ left # {}
      <3>1. op = "copy" /\ Cardinality(left) > 1
        BY <2>1 DEF HybridInit
      <3>2. left = {} => Cardinality(left) = 0
        BY FS_EmptySet
      <3> QED BY <3>1, <3>2
    <2> QED BY <1>2, <2>1 DEF HybridInit, RsyncSane
  <1>5. StillComparable
    <2> SUFFICES ASSUME engine # "classic"
                 PROVE  StillComparable
      BY DEF StillComparable
    <2>1. PICK st \in RsyncStarts :
            src = st.src /\ dst = st.dst /\ chosen \in {"none", st.choice}
      BY DEF HybridInit
    <2>2. policy \in {"skip", "newer"} => st.choice = policy
      BY <1>1, <2>1 DEF PromiseInv, Orderly, PolicyChosen
    <2> QED BY <2>1, <2>2 DEF RsyncComparable, StillComparable
  <1>6. SeenOrGone /\ SendingConsented /\ ListedClear /\ DirsArrive
    BY <1>2 DEF SeenOrGone, SendingConsented, ListedClear, DirsArrive, InHand
  <1> QED BY <1>1, <1>3, <1>4, <1>5, <1>6 DEF PromiseInv, HybridInv, RsyncOrderly

\* Every step keeps the invariant and is one that Transfer allows.
LEMMA HybridStep ==
    ASSUME NoTwins, HybridInv, [HybridNext]_allVars
    PROVE  HybridInv' /\ [T!Next]_(T!vars)
  <1>0. PromiseInv /\ HybridTypeOK /\ Trees
    BY DEF HybridInv, HybridTypeOK, PromiseInv
  <1>1. CASE Classic
    <2>1. [Next]_vars
      BY <1>1 DEF Classic, ClassicVisit, Next, Child
    <2>2. PromiseInv' /\ [T!Next]_(T!vars)
      BY <1>0, <2>1, NextOrderly, NextPromised
    <2>3. RsyncOrderly'
      BY <1>1, ClassicRsync
    <2>4. UNCHANGED rsyncVars
      BY <1>1, ClassicEffect
    <2> QED BY <1>0, <2>2, <2>3, <2>4 DEF HybridInv, PromiseInv, HybridTypeOK, rsyncVars
  <1>2. CASE Others /\ UNCHANGED hybridVars
    <2>1. PromiseInv' /\ [T!Next]_(T!vars)
      BY <1>0, <1>2, NextOrderly, NextPromised DEF Next
    <2>2. RsyncOrderly'
      BY <1>2, OthersRsync
    <2> QED BY <1>0, <1>2, <2>1, <2>2
            DEF HybridInv, PromiseInv, HybridTypeOK, hybridVars, rsyncVars
  <1>3. ASSUME NEW s \in Sources, RenameItem(s)
        PROVE  HybridInv' /\ [T!Next]_(T!vars)
    <2>1. [T!Next]_(T!vars)
      BY <1>3 DEF RenameItem, vars, T!vars
    <2> QED BY <1>0, <1>3, <2>1, BeforeRsync, RenameItemInv DEF HybridInv
  <1>4. ASSUME NEW s \in Sources, RsyncItem(s)
        PROVE  HybridInv' /\ [T!Next]_(T!vars)
    BY <1>0, <1>4, BeforeRsync, RsyncItemInv, RsyncItemPromised DEF HybridInv
  <1>5. CASE BatchCopy
    <2>1. [T!Next]_(T!vars)
      BY <1>5 DEF BatchCopy, T!vars
    <2> QED BY <1>0, <1>5, <2>1, BeforeRsync, BatchCopyInv DEF HybridInv
  <1>6. CASE RemoveClash
    BY <1>0, <1>6, BeforeRsync, RemoveClashInv, RemoveClashPromised DEF HybridInv
  <1>7. CASE Rsync
    <2>1. Orderly' /\ RsyncOrderly'
      BY <1>7, LookInv, ArriveInv, NotSentInv, TidyInv, RsyncDiesInv, RsyncEndsInv DEF Rsync
    <2> QED BY <1>0, <1>7, <2>1, RsyncTrees, RsyncPromised DEF HybridInv
  <1>8. CASE UNCHANGED allVars
    <2>1. UNCHANGED <<src, dst, op, policy, pc, cur, open, left, chosen, allowed, excused,
                      theirs, engine, oneVolume, renaming, listed, sending, wrong>>
      BY <1>8 DEF allVars, vars, hybridVars, rsyncVars
    <2>2. PromiseInv' /\ [T!Next]_(T!vars)
      BY <1>0, <2>1, NextOrderly, NextPromised DEF vars
    <2>3. SeenOrGone' /\ RsyncSane' /\ SendingConsented' /\ ListedClear'
      BY <2>1 DEF HybridInv, RsyncOrderly, SeenOrGone, RsyncSane, SendingConsented,
                  ListedClear, InHand, Within, Beneath, TheirsOrNothing
    <2>4. DirsArrive' /\ StillComparable'
      BY <2>1 DEF HybridInv, RsyncOrderly, DirsArrive, StillComparable, DirArrived,
                  Subtree, Beneath
    <2> QED BY <1>0, <2>1, <2>2, <2>3, <2>4
            DEF HybridInv, RsyncOrderly, PromiseInv, HybridTypeOK
  <1> QED BY <1>1, <1>2, <1>3, <1>4, <1>5, <1>6, <1>7, <1>8
          DEF HybridNext, HybridChild, Classic

\* Whichever engine works, rsync or the classic one, and however they follow each other
\* in one operation: nothing at the destination goes without consent, and nothing leaves
\* the source before it has arrived, as long as the items come from one directory and
\* the starts leave out the three cases in which what rsync, remove_empty_source_dirs()
\* and the policy "newer" do not compare decides.
THEOREM HybridKeepsPromise ==
    ASSUME NoTwins, DirectoriesAreNewer, RsyncComparable
    PROVE  HybridSpec => KeepsPromise
<1>1. HybridInit => HybridInv /\ T!Init
  BY HybridInitInv
<1>2. HybridInv /\ [HybridNext]_allVars => HybridInv'
  BY HybridStep
<1>3. HybridInv /\ [HybridNext]_allVars => [T!Next]_(T!vars)
  BY HybridStep
<1> QED BY <1>1, <1>2, <1>3, PTL DEF HybridSpec, KeepsPromise, T!Spec


-----------------------------------------------------------------------------
(* Nothing is forgotten, with either engine.                               *)

\* What has become of a source that is out of the child's hands (NothingForgotten).
Settled(s) ==
    \/ src[s] = Absent
    \/ src[s].kind = "dir" /\ dst[Target(s)].kind = "dir"
    \/ op = "copy" /\ dst[Target(s)] = src[s]
    \/ Excused(s)
    \/ /\ op = "copy" \/ src[s].kind = "dir"
       /\ \E t \in theirs.dst : t = Target(s) \/ Beneath(t, Target(s))

\* The child will come to s, or is at it.
Awaited(s) == \E p \in Pending : s \in Subtree(p)

\* The items rsync has been given; in a batch all of them.
RsyncRange == IF cur = Idle THEN Sources ELSE Subtree(cur.path)

\* rsync will come to s, or a failure will be reported for it.
WithRsync(s) == pc = "rsync" /\ s \in IF wrong THEN RsyncRange ELSE listed \cup sending

\* No source is out of sight.
InSight(s) == Settled(s) \/ Awaited(s) \/ WithRsync(s)
Accounted == \A s \in Sources : InSight(s)

\* The child finds its way to what is still to be visited.
Reachable ==
    /\ \A p \in left : p \in Selected \/ \E i \in 1..Len(open) : open[i] = Parent(p)
    /\ pc = "done" => left = {}

\* What a batch and a run of rsync can meet.
RsyncInRange ==
    /\ engine = "batch" => /\ pc = "next" /\ cur = Idle /\ open = <<>> /\ renaming = <<>>
                           /\ left \subseteq Selected /\ left # {}
    /\ pc = "rsync" => listed \cup sending \subseteq RsyncRange

AccountInv ==
    /\ HybridTypeOK /\ Trees
    /\ SeenOrGone /\ Reachable /\ RsyncInRange /\ Accounted

\* What is cut off from a path is around it.
LEMMA CutWithin ==
    ASSUME NEW s \in Sources, NEW n \in 2..Len(s)
    PROVE  /\ SubSeq(s, 1, n) \in Sources /\ Len(SubSeq(s, 1, n)) = n
           /\ s \in Subtree(SubSeq(s, 1, n))
  <1>1. s \in Seq(Names) /\ Len(s) \in Nat /\ n \in 0..Len(s)
    BY Places
  <1>2. /\ SubSeq(s, 1, n) \in Seq(Names) /\ Len(SubSeq(s, 1, n)) = n
        /\ SubSeq(s, 1, n) \in Sources
    BY <1>1, CutPath, Places DEF Closed
  <1>3. CASE n = Len(s)
    <2>1. SubSeq(s, 1, n) = s
      BY <1>1, <1>3, SubSeqFull
    <2> QED BY <1>2, <2>1 DEF Subtree
  <1>4. CASE n # Len(s)
    BY <1>1, <1>2, <1>4 DEF Subtree, Beneath
  <1> QED BY <1>1, <1>2, <1>3, <1>4

\* Every source is in an item, which is there if the source is.
LEMMA ItemOf ==
    ASSUME Trees, NEW s \in Sources
    PROVE  \E p \in Selected : s \in Subtree(p) /\ (src[s] # Absent => src[p] # Absent)
  <1>1. 2 \in 2..Len(s)
    BY Places
  <1> DEFINE p == SubSeq(s, 1, 2)
  <1>2. p \in Sources /\ Len(p) = 2 /\ s \in Subtree(p)
    BY <1>1, CutWithin
  <1> HIDE DEF p
  <1>3. ASSUME src[s] # Absent
        PROVE  src[p] # Absent
    <2>1. CASE s = p
      BY <1>3, <2>1
    <2>2. CASE Beneath(p, s)
      <3>1. src[p].kind = "dir"
        BY <1>2, <1>3, <2>2, Ancestors DEF Trees
      <3> QED BY <3>1 DEF Absent
    <2> QED BY <1>2, <2>1, <2>2 DEF Subtree
  <1> QED BY <1>2, <1>3 DEF Selected

\* What is beneath a directory is in something that readdir() returns for it.
LEMMA ChildOnTheWay ==
    ASSUME TypeOK, Trees, NEW s \in Sources, NEW r \in Subtree(s), r # s, src[r] # Absent
    PROVE  \E c \in Children(src, s) : r \in Subtree(c)
  <1>1. r \in Sources /\ Beneath(s, r)
    BY DEF Subtree
  <1>2. /\ s \in Seq(Names) /\ Len(s) \in Nat /\ Len(s) >= 2
        /\ r \in Seq(Names) /\ Len(r) \in Nat
        /\ Len(r) > Len(s) /\ SubSeq(r, 1, Len(s)) = s
    BY <1>1, Places DEF Beneath
  <1> DEFINE c == SubSeq(r, 1, Len(s) + 1)
  <1>3. Len(s) + 1 \in 2..Len(r) /\ Len(s) \in 0..Len(r)
    BY <1>2
  <1>4. c \in Sources /\ Len(c) = Len(s) + 1 /\ r \in Subtree(c)
    BY <1>1, <1>3, CutWithin
  <1>5. Parent(c) = s
    <2>1. \A i \in 1..Len(c) : c[i] = r[i]
      BY <1>2, <1>3, <1>4, CutPath
    <2> HIDE DEF c
    <2>2. c \in Seq(Names) /\ Len(c) >= 1 /\ Len(c) - 1 = Len(s)
      BY <1>2, <1>4, Places
    <2>3. /\ Parent(c) \in Seq(Names) /\ Len(Parent(c)) = Len(s)
          /\ \A i \in 1..Len(s) : Parent(c)[i] = c[i]
      BY <2>2, ParentNames
    <2>4. \A i \in 1..Len(s) : s[i] = r[i]
      BY <1>1, <1>2, BeneathNames
    <2>5. \A i \in 1..Len(Parent(c)) : Parent(c)[i] = s[i]
      BY <1>2, <1>4, <2>1, <2>3, <2>4
    <2> QED BY <1>2, <2>3, <2>5, SamePath
  <1> HIDE DEF c
  <1>6. src[c] # Absent
    <2>1. CASE r = c
      BY <2>1
    <2>2. CASE Beneath(c, r)
      <3>1. src[c].kind = "dir"
        BY <1>1, <1>4, <2>2, Ancestors DEF Trees
      <3> QED BY <3>1 DEF Absent
    <2> QED BY <1>4, <2>1, <2>2 DEF Subtree
  <1>7. c \in Children(src, s)
    BY <1>4, <1>5, <1>6 DEF Children, TypeOK
  <1> QED BY <1>4, <1>7

\* A source that is settled stays so as long as nothing but what others do happens at
\* its target.
LEMMA SettledStays ==
    ASSUME NEW s \in Sources, Settled(s),
           src'[s] = src[s] \/ src'[s] = Absent,
           op' = op, excused \subseteq excused', theirs.dst \subseteq theirs'.dst,
           dst'[Target(s)] = dst[Target(s)] \/ Target(s) \in theirs'.dst
    PROVE  Settled(s)'
  <1>1. CASE src'[s] = Absent
    BY <1>1 DEF Settled
  <1>2. CASE src'[s] = src[s] /\ Excused(s)
    <2>1. Excused(s)'
      BY <1>2 DEF Excused, Subtree
    <2> QED BY <2>1 DEF Settled
  <1>3. CASE src'[s] = src[s] /\ src[s] # Absent /\ ~Excused(s)
    <2>1. CASE \E t \in theirs.dst : t = Target(s) \/ Beneath(t, Target(s))
      <3>1. op = "copy" \/ src[s].kind = "dir"
        BY <1>3 DEF Settled
      <3> QED BY <1>3, <2>1, <3>1 DEF Settled
    <2>2. CASE ~\E t \in theirs.dst : t = Target(s) \/ Beneath(t, Target(s))
      <3>1. \/ src[s].kind = "dir" /\ dst[Target(s)].kind = "dir"
            \/ op = "copy" /\ dst[Target(s)] = src[s]
        BY <1>3, <2>2 DEF Settled
      <3> QED BY <1>3, <3>1 DEF Settled
    <2> QED BY <2>1, <2>2
  <1> QED BY <1>1, <1>2, <1>3 DEF Settled

\* What is declined, or reported, is settled with all that is in it.
LEMMA ExcusedSettled ==
    ASSUME NEW p \in excused', NEW s \in Subtree(p)
    PROVE  Settled(s)'
  BY DEF Settled, Excused, Subtree

\* What a step does not take back.
Onward ==
    /\ op' = op /\ excused \subseteq excused' /\ theirs.dst \subseteq theirs'.dst
    /\ \A s \in Sources : src'[s] = src[s] \/ src'[s] = Absent

\* A step that is about the object p keeps the others in sight.
LEMMA OthersInSight ==
    ASSUME Accounted, Onward, pc # "rsync", NEW p \in Sources,
           Pending \subseteq left' \cup {p},
           \A s \in Sources \ Subtree(p) : dst'[Target(s)] = dst[Target(s)],
           \A s \in Subtree(p) : InSight(s)'
    PROVE  Accounted'
  <1>1. SUFFICES ASSUME NEW s \in Sources, s \notin Subtree(p)
                 PROVE  InSight(s)'
    BY DEF Accounted
  <1>2. CASE Settled(s)
    <2>1. Settled(s)'
      BY <1>1, <1>2, SettledStays DEF Onward
    <2> QED BY <2>1 DEF InSight
  <1>3. CASE Awaited(s)
    <2>1. PICK q \in Pending : s \in Subtree(q)
      BY <1>3 DEF Awaited
    <2>2. q \in left'
      BY <1>1, <2>1
    <2>3. Awaited(s)'
      BY <2>1, <2>2 DEF Awaited, Pending, Subtree
    <2> QED BY <2>3 DEF InSight
  <1>4. ~WithRsync(s)
    BY DEF WithRsync
  <1> QED BY <1>2, <1>3, <1>4 DEF Accounted, InSight

\* What is in hand is in sight, and so is what has been declined or reported.
LEMMA InHandInSight ==
    ASSUME NEW p, NEW s \in Subtree(p), p \in Pending' \/ p \in excused'
    PROVE  InSight(s)'
  <1>1. CASE p \in Pending'
    <2>1. Awaited(s)'
      BY <1>1 DEF Awaited, Subtree
    <2> QED BY <2>1 DEF InSight
  <1>2. CASE p \in excused'
    <2>1. Settled(s)'
      BY <1>2, ExcusedSettled
    <2> QED BY <2>1 DEF InSight
  <1> QED BY <1>1, <1>2

\* What the child passes over is reported, what it takes up is in hand.
LEMMA VisitAccounts ==
    ASSUME TypeOK, Accounted, NEW s \in Sources, Visit(s)
    PROVE  Accounted' /\ SeenOrGone'
  <1>1. /\ UNCHANGED <<src, dst, op, policy, open, chosen, theirs>>
        /\ left' = left \ {s} /\ pc = "next" /\ s \in left
    BY DEF Visit, Frontier
  <1>2. excused' = excused \/ excused' = excused \cup {s}
    BY DEF Visit
  <1>3. CASE pc' = "next"
    <2>1. s \in excused'
      BY <1>3 DEF Visit, Proceed
    <2> QED BY <1>1, <1>2, <1>3, <2>1, OthersInSight, InHandInSight
            DEF Onward, Pending, InHand, SeenOrGone
  <1>4. CASE pc' # "next"
    <2>1. /\ pc' \in {"asking", "clear", "make"}
          /\ cur' = [path |-> s, info |-> src[s], had |-> dst[Target(s)]]
      BY <1>1, <1>4 DEF Visit, Proceed
    <2>2. InHand' /\ cur'.path = s /\ cur'.info = src[s] /\ s \in Pending'
      BY <2>1 DEF InHand, Pending
    <2> QED BY <1>1, <1>2, <2>2, OthersInSight, InHandInSight
            DEF Onward, Pending, InHand, SeenOrGone
  <1> QED BY <1>3, <1>4

\* So it is with the answers.
LEMMA UserAccounts ==
    ASSUME TypeOK, Accounted, SeenOrGone, User
    PROVE  Accounted' /\ SeenOrGone'
  <1>1. /\ UNCHANGED <<src, dst, op, open, left, theirs>>
        /\ pc = "asking" /\ cur.path \in Sources
    BY DEF User, AnswerYes, AnswerNo, AnswerYesToAll, AnswerNoToAll, TypeOK, InHand
  <1>2. CASE GiveUp
    BY <1>1, <1>2, OthersInSight, InHandInSight
       DEF GiveUp, Passed, Onward, Pending, InHand, SeenOrGone
  <1>3. CASE Proceed(cur.path, cur.info, cur.had) /\ UNCHANGED excused
    <2>1. /\ pc' \in {"clear", "make"}
          /\ cur' = [path |-> cur.path, info |-> cur.info, had |-> cur.had]
      BY <1>3 DEF Proceed
    <2>2. InHand' /\ InHand /\ cur'.path = cur.path /\ cur'.info = cur.info
          /\ cur.path \in Pending'
      BY <1>1, <2>1 DEF InHand, Pending
    <2> QED BY <1>1, <1>3, <2>2, OthersInSight, InHandInSight
            DEF Onward, Pending, SeenOrGone
  <1> QED BY <1>2, <1>3 DEF User, AnswerYes, AnswerNo, AnswerYesToAll, AnswerNoToAll

\* Only the place of the object is cleared, and it stays in hand or is reported.
LEMMA ClearAccounts ==
    ASSUME NoTwins, TypeOK, Accounted, SeenOrGone, Clear
    PROVE  Accounted' /\ SeenOrGone'
  <1>1. /\ UNCHANGED <<src, op, open, left, theirs>>
        /\ pc = "clear" /\ cur.path \in Sources /\ cur.path \in Subtree(cur.path)
    BY DEF Clear, TypeOK, InHand, Subtree
  <1>2. \A s \in Sources \ Subtree(cur.path) : dst'[Target(s)] = dst[Target(s)]
    <2> TAKE s \in Sources \ Subtree(cur.path)
    <2>1. Target(s) # Here /\ Target(s) \in Targets
      BY <1>1, Places DEF NoTwins, Here
    <2> QED BY <2>1 DEF Clear, TypeOK
  <1>3. CASE GiveUp
    BY <1>1, <1>2, <1>3, OthersInSight, InHandInSight
       DEF GiveUp, Passed, Onward, Pending, InHand, SeenOrGone
  <1>4. CASE pc' = "make" /\ UNCHANGED <<cur, excused>>
    <2>1. InHand' /\ InHand /\ cur.path \in Pending'
      BY <1>1, <1>4 DEF InHand, Pending
    <2> QED BY <1>1, <1>2, <1>4, <2>1, OthersInSight, InHandInSight
            DEF Onward, Pending, SeenOrGone
  <1> QED BY <1>3, <1>4 DEF Clear

\* A directory that is entered has arrived, and what is in it will be visited, or that
\* it cannot be listed is reported.
LEMMA EnterAccounts ==
    ASSUME TypeOK, Trees, Accounted, InHand, EnterAnyhow(cur.path),
           UNCHANGED <<op, theirs>>,
           dst'[Here].kind = "dir",
           \A s \in Sources \ Subtree(cur.path) : dst'[Target(s)] = dst[Target(s)]
    PROVE  Accounted'
  <1>1. /\ cur.path \in Sources /\ src' = src /\ left \subseteq left' /\ pc # "rsync"
        /\ excused \subseteq excused'
    BY DEF TypeOK, EnterAnyhow, Enter, InHand
  <1>2. CASE cur.path \in excused'
    BY <1>1, <1>2, OthersInSight, InHandInSight DEF Onward, Pending
  <1>3. CASE src[cur.path].kind = "dir" /\ left' = left \cup Children(src, cur.path)
    <2>1. ASSUME NEW s \in Subtree(cur.path)
          PROVE  InSight(s)'
      <3>1. CASE s = cur.path
        <4>1. Settled(s)'
          BY <1>1, <1>3, <3>1 DEF Settled, Here
        <4> QED BY <4>1 DEF InSight
      <3>2. CASE src[s] = Absent
        <4>1. Settled(s)'
          BY <1>1, <3>2 DEF Settled
        <4> QED BY <4>1 DEF InSight
      <3>3. CASE s # cur.path /\ src[s] # Absent
        <4>1. PICK c \in Children(src, cur.path) : s \in Subtree(c)
          BY <1>1, <3>3, ChildOnTheWay
        <4>2. c \in Pending'
          BY <1>3 DEF Pending
        <4> QED BY <4>1, <4>2, InHandInSight
      <3> QED BY <3>1, <3>2, <3>3
    <2> QED BY <1>1, <2>1, OthersInSight DEF Onward, Pending
  <1> QED BY <1>2, <1>3 DEF EnterAnyhow, Enter

\* What is copied or moved has arrived with all that is in it, or an error is reported.
LEMMA MakeAccounts ==
    ASSUME NoTwins, TypeOK, Trees, Accounted, SeenOrGone, Make
    PROVE  Accounted'
  <1>1. /\ UNCHANGED <<op, theirs>> /\ pc = "make" /\ InHand
        /\ cur.path \in Sources /\ Here \in Targets /\ Here = Target(cur.path)
        /\ cur.path \in Subtree(cur.path)
    BY Places DEF Make, TypeOK, InHand, Here, Subtree
  <1>2. ASSUME NEW s \in Sources \ Subtree(cur.path)
        PROVE  Target(s) # Here /\ Target(s) \in Targets
    BY <1>1, Places DEF NoTwins
  <1>3. ASSUME NEW n, dst' = [dst EXCEPT ![Here] = n]
        PROVE  /\ dst'[Here] = n
               /\ \A s \in Sources \ Subtree(cur.path) : dst'[Target(s)] = dst[Target(s)]
    BY <1>1, <1>2, <1>3 DEF TypeOK
  <1>4. ASSUME NEW part \in SUBSET Moving, NEW cut, dst' = Placed(part, cut)
        PROVE  \A s \in Sources \ Subtree(cur.path) : dst'[Target(s)] = dst[Target(s)]
    <2>1. part \in SUBSET Subtree(cur.path)
      BY DEF Moving
    <2>2. \A t \in Targets :
            (\A r \in part : Target(r) # t) => Placed(part, cut)[t] = dst[t]
      BY <1>1, <2>1, PlacedAt
    <2>3. \A s \in Sources \ Subtree(cur.path) : \A r \in part : Target(r) # Target(s)
      BY <2>1 DEF NoTwins, Subtree
    <2> QED BY <1>2, <1>4, <2>2, <2>3
  <1>5. CASE Merge
    <2>1. /\ dst' = dst /\ dst[Here].kind = "dir" /\ EnterAnyhow(cur.path)
      BY <1>5 DEF Merge
    <2> QED BY <1>1, <2>1, EnterAccounts
  <1>6. CASE MakeDir
    <2>1. /\ dst' = [dst EXCEPT ![Here] = cur.info] /\ cur.info.kind = "dir"
          /\ EnterAnyhow(cur.path)
      BY <1>6 DEF MakeDir
    <2> QED BY <1>1, <1>3, <2>1, EnterAccounts
  <1>7. CASE CopyFile \/ CopyLink
    <2>1. /\ dst' = [dst EXCEPT ![Here] = src[cur.path]] /\ op = "copy"
          /\ src[cur.path] = cur.info /\ cur.info.kind # "dir"
          /\ UNCHANGED <<src, open, left, excused>>
      BY <1>1, <1>7 DEF CopyFile, CopyLink, SeenOrGone
    <2>2. ASSUME NEW s \in Subtree(cur.path)
          PROVE  InSight(s)'
      <3>1. \/ src'[s] = Absent
            \/ op' = "copy" /\ dst'[Target(s)] = src'[s]
        <4>1. CASE s = cur.path
          <5>1. dst'[Here] = src[cur.path]
            BY <1>3, <2>1
          <5> QED BY <1>1, <2>1, <4>1, <5>1
        <4>2. CASE s \in Sources /\ Beneath(cur.path, s)
          <5>1. src[s] = Absent
            BY <1>1, <2>1, <4>2, NothingBeneath, ZenonT(40) DEF Trees
          <5> QED BY <2>1, <5>1
        <4> QED BY <4>1, <4>2 DEF Subtree
      <3>2. Settled(s)'
        BY <3>1 DEF Settled
      <3> QED BY <3>2 DEF InSight
    <2> QED BY <1>1, <1>3, <2>1, <2>2, OthersInSight DEF Onward, Pending
  <1>8. CASE MoveObject
    <2>1. /\ src' = [s \in Sources |-> IF s \in Moving THEN Absent ELSE src[s]]
          /\ dst' = Placed(Moving, {})
          /\ UNCHANGED <<open, left, excused>>
      BY <1>8 DEF MoveObject
    <2>2. ASSUME NEW s \in Subtree(cur.path)
          PROVE  InSight(s)'
      <3>1. src'[s] = Absent
        BY <2>1 DEF Moving, Subtree
      <3>2. Settled(s)'
        BY <3>1 DEF Settled
      <3> QED BY <3>2 DEF InSight
    <2> QED BY <1>1, <1>4, <2>1, <2>2, OthersInSight DEF Onward, Pending
  <1>9. CASE Fail
    <2>1. /\ cur.path \in excused' /\ excused \subseteq excused'
          /\ UNCHANGED <<src, open, left>>
      BY <1>9 DEF Fail, GiveUp
    <2>2. \A s \in Sources \ Subtree(cur.path) : dst'[Target(s)] = dst[Target(s)]
      BY <1>4, <1>9 DEF Fail
    <2> QED BY <1>1, <2>1, <2>2, OthersInSight, InHandInSight DEF Onward, Pending
  <1> QED BY <1>5, <1>6, <1>7, <1>8, <1>9 DEF Make

\* Where the child is with the files and what it has yet to visit being the same, the
\* others may act at the places that are theirs.
LEMMA AsideInSight ==
    ASSUME Accounted, Onward, Pending' = Pending,
           pc = "rsync" => UNCHANGED <<pc, cur, listed, sending, wrong>>,
           \A s \in Sources : \/ dst'[Target(s)] = dst[Target(s)]
                              \/ Target(s) \in theirs'.dst
    PROVE  Accounted'
  <1>1. SUFFICES ASSUME NEW s \in Sources
                 PROVE  InSight(s)'
    BY DEF Accounted
  <1>2. CASE Settled(s)
    <2>1. Settled(s)'
      BY <1>2, SettledStays DEF Onward
    <2> QED BY <2>1 DEF InSight
  <1>3. CASE Awaited(s)
    <2>1. Awaited(s)'
      BY <1>3 DEF Awaited, Subtree
    <2> QED BY <2>1 DEF InSight
  <1>4. CASE WithRsync(s)
    <2>1. WithRsync(s)'
      BY <1>4 DEF WithRsync, RsyncRange, Subtree, Idle
    <2> QED BY <2>1 DEF InSight
  <1> QED BY <1>2, <1>3, <1>4 DEF Accounted, InSight

\* The end of a directory or of the operation puts nothing out of sight.
LEMMA EndAccounts ==
    ASSUME TypeOK, Accounted, SeenOrGone, Leave \/ Finish
    PROVE  Accounted' /\ SeenOrGone'
  <1>1. /\ UNCHANGED <<dst, op, cur, left, excused, theirs>>
        /\ pc = "next" /\ pc' \in {"next", "done"}
        /\ \A s \in Sources : src'[s] = src[s] \/ src'[s] = Absent
    BY DEF Leave, Finish, TypeOK
  <1>2. Pending' = Pending /\ ~InHand'
    BY <1>1 DEF Pending, InHand
  <1> QED BY <1>1, <1>2, AsideInSight DEF Onward, SeenOrGone

\* Nor do other programs.
LEMMA OthersAccount ==
    ASSUME TypeOK, Accounted, SeenOrGone, Others, UNCHANGED rsyncVars
    PROVE  Accounted' /\ SeenOrGone'
  <1>1. /\ UNCHANGED <<op, pc, cur, left, excused>> /\ theirs.dst \subseteq theirs'.dst
        /\ \A t \in Targets : dst'[t] = dst[t] \/ t \in theirs'.dst
        /\ \A s \in Sources : src'[s] = src[s] \/ src'[s] = Absent
    BY OthersEffect
  <1>2. Pending' = Pending /\ InHand' = InHand
    BY <1>1 DEF Pending, InHand
  <1>3. SeenOrGone'
    BY <1>1, <1>2 DEF SeenOrGone, TypeOK
  <1>4. \A s \in Sources : Target(s) \in Targets
    BY Places
  <1> QED BY <1>1, <1>2, <1>3, <1>4, AsideInSight DEF Onward, rsyncVars

\* The way to what is still to be visited is kept.
LEMMA ClassicReachable ==
    ASSUME TypeOK, Reachable, Child \/ User \/ Others
    PROVE  Reachable'
  <1>1. CASE \/ \E s \in Sources : Visit(s)
             \/ User \/ Others \/ Clear
    <2>1. left' \subseteq left /\ open' = open
      BY <1>1, OthersEffect DEF Visit, User, AnswerYes, AnswerNo, AnswerYesToAll,
         AnswerNoToAll, Clear
    <2>2. pc' = "done" => pc = "done"
      BY <1>1, OthersEffect DEF Visit, Proceed, User, AnswerYes, AnswerNo,
         AnswerYesToAll, AnswerNoToAll, GiveUp, Passed, Clear
    <2> QED BY <2>1, <2>2 DEF Reachable
  <1>2. CASE Make
    <2>1. Passed
      BY <1>2, EnterType, OthersEffect
         DEF Make, Merge, MakeDir, CopyFile, CopyLink, MoveObject, Fail, GiveUp,
             EnterAnyhow, Enter
    <2>2. CASE UNCHANGED <<open, left>>
      BY <2>1, <2>2 DEF Reachable, Passed
    <2>3. CASE EnterAnyhow(cur.path)
      <3>1. cur.path \in Sources
        BY <1>2 DEF Make, TypeOK, InHand
      <3>2. /\ open' = Append(open, cur.path)
            /\ left' \subseteq left \cup Children(src, cur.path)
        BY <2>3 DEF EnterAnyhow, Enter
      <3>3. /\ Len(open) \in Nat /\ Len(open') = Len(open) + 1
            /\ open'[Len(open) + 1] = cur.path
            /\ \A i \in 1..Len(open) : open'[i] = open[i]
        BY <3>1, <3>2, AppendProperties, LenProperties DEF TypeOK
      <3>4. ASSUME NEW p \in left'
            PROVE  p \in Selected \/ \E i \in 1..Len(open') : open'[i] = Parent(p)
        <4>1. CASE p \in left
          <5>1. CASE p \in Selected
            BY <5>1
          <5>2. ASSUME NEW i \in 1..Len(open), open[i] = Parent(p)
                PROVE  \E j \in 1..Len(open') : open'[j] = Parent(p)
            BY <3>3, <5>2
          <5> QED BY <4>1, <5>1, <5>2 DEF Reachable
        <4>2. CASE p \in Children(src, cur.path)
          <5>1. Parent(p) = cur.path
            BY <4>2 DEF Children
          <5> QED BY <3>3, <5>1
        <4> QED BY <3>2, <4>1, <4>2
      <3> QED BY <2>1, <3>4 DEF Reachable, Passed
    <2> QED BY <1>2, <2>2, <2>3
            DEF Make, Merge, MakeDir, CopyFile, CopyLink, MoveObject, Fail
  <1>3. CASE Leave
    <2>1. /\ UNCHANGED <<left, pc>> /\ pc = "next"
          /\ open' = SubSeq(open, 1, Len(open) - 1) /\ open # <<>>
          /\ \A s \in left : Parent(s) # open[Len(open)]
      BY <1>3 DEF Leave, Frontier
    <2>2. /\ Len(open) \in Nat /\ Len(open') = Len(open) - 1
          /\ \A i \in 1..Len(open') : open'[i] = open[i]
      BY <2>1, ShorterOpen
    <2>3. ASSUME NEW p \in left, NEW i \in 1..Len(open), open[i] = Parent(p)
          PROVE  \E j \in 1..Len(open') : open'[j] = Parent(p)
      <3>1. i # Len(open)
        BY <2>1, <2>3
      <3>2. i \in 1..Len(open')
        BY <2>2, <3>1
      <3> QED BY <2>2, <2>3, <3>2
    <2> QED BY <2>1, <2>3 DEF Reachable
  <1>4. CASE Finish
    <2>1. open = <<>> /\ left \cap Selected = {} /\ UNCHANGED <<open, left>>
      BY <1>4 DEF Finish, Frontier
    <2>2. Len(open) = 0
      BY <2>1, EmptySeq
    <2>3. left = {}
      BY <2>1, <2>2 DEF Reachable
    <2> QED BY <2>1, <2>3 DEF Reachable
  <1> QED BY <1>1, <1>2, <1>3, <1>4 DEF Child

\* A step of the classic engine, or of other programs.
LEMMA ClassicAccounts ==
    ASSUME NoTwins, AccountInv, Classic \/ (Others /\ UNCHANGED hybridVars)
    PROVE  SeenOrGone' /\ Reachable' /\ RsyncInRange' /\ Accounted'
  <1>0. TypeOK /\ Trees /\ SeenOrGone /\ Reachable /\ RsyncInRange /\ Accounted
    BY DEF AccountInv, HybridTypeOK
  <1>1. ASSUME NEW s \in Sources, ClassicVisit(s)
        PROVE  /\ Accounted' /\ SeenOrGone' /\ Reachable'
               /\ pc' # "rsync" /\ engine' = engine /\ engine # "batch"
    <2>1. s # <<>>
      BY Places, EmptySeq
    <2>2. pc' # "rsync"
      BY <1>1 DEF ClassicVisit, Visit, Proceed
    <2> QED BY <1>0, <1>1, <2>1, <2>2, VisitAccounts, ClassicReachable
            DEF ClassicVisit, RsyncInRange, Child
  <1>2. CASE User /\ UNCHANGED hybridVars
    <2>1. pc = "asking" /\ pc' # "rsync"
      BY <1>2 DEF User, AnswerYes, AnswerNo, AnswerYesToAll, AnswerNoToAll, GiveUp, Passed,
                  Proceed
    <2>2. Accounted' /\ SeenOrGone' /\ Reachable'
      BY <1>0, <1>2, UserAccounts, ClassicReachable
    <2> QED BY <1>0, <1>2, <2>1, <2>2 DEF RsyncInRange, hybridVars
  <1>3. CASE Clear /\ UNCHANGED hybridVars
    <2>1. pc = "clear" /\ pc' # "rsync"
      BY <1>3 DEF Clear, GiveUp, Passed
    <2>2. Accounted' /\ SeenOrGone' /\ Reachable'
      BY <1>0, <1>3, ClearAccounts, ClassicReachable DEF Child
    <2> QED BY <1>0, <1>3, <2>1, <2>2 DEF RsyncInRange, hybridVars
  <1>4. CASE Make /\ UNCHANGED hybridVars
    <2>1. pc = "make" /\ Passed
      BY <1>4 DEF Make, Merge, MakeDir, CopyFile, CopyLink, MoveObject, Fail, GiveUp,
                  EnterAnyhow, Enter
    <2>2. Accounted' /\ Reachable'
      BY <1>0, <1>4, MakeAccounts, ClassicReachable DEF Child
    <2>3. SeenOrGone'
      BY <2>1 DEF Passed, SeenOrGone, InHand
    <2> QED BY <1>0, <1>4, <2>1, <2>2, <2>3 DEF RsyncInRange, hybridVars, Passed
  <1>5. CASE (Leave \/ Finish) /\ UNCHANGED hybridVars
    <2>1. Accounted' /\ SeenOrGone' /\ Reachable'
      BY <1>0, <1>5, EndAccounts, ClassicReachable DEF Child
    <2>2. engine # "batch" /\ pc' # "rsync"
      BY <1>0, <1>5 DEF Leave, Finish, Frontier, RsyncInRange
    <2> QED BY <1>5, <2>1, <2>2 DEF RsyncInRange, hybridVars
  <1>6. CASE Others /\ UNCHANGED hybridVars
    <2>1. Accounted' /\ SeenOrGone' /\ Reachable'
      BY <1>0, <1>6, OthersAccount, ClassicReachable DEF hybridVars
    <2>2. UNCHANGED <<pc, cur, open, left>>
      BY <1>6, OthersEffect, <1>0
    <2> QED BY <1>0, <1>6, <2>1, <2>2
            DEF RsyncInRange, RsyncRange, hybridVars, rsyncVars, Subtree
  <1>7. ASSUME pc' # "rsync", engine' = engine, engine # "batch"
        PROVE  RsyncInRange'
    BY <1>7 DEF RsyncInRange
  <1> QED BY <1>1, <1>2, <1>3, <1>4, <1>5, <1>6, <1>7 DEF Classic

\* What rsync is given is in sight, if it is of the items it runs for.
LEMMA GivenInSight ==
    ASSUME NEW items \in SUBSET Sources, RunRsync(items), src' = src,
           NEW p \in items, NEW s \in Subtree(p), s \in RsyncRange'
    PROVE  InSight(s)'
  <1>1. CASE src[s] = Absent
    <2>1. Settled(s)'
      BY <1>1 DEF Settled
    <2> QED BY <2>1 DEF InSight
  <1>2. CASE src[s] # Absent
    <2>1. pc' = "rsync" /\ s \in listed'
      BY <1>2 DEF RunRsync
    <2>2. WithRsync(s)'
      BY <2>1 DEF WithRsync
    <2> QED BY <2>2 DEF InSight
  <1> QED BY <1>1, <1>2

\* With an item in hand that is what rsync runs for.
LEMMA RangeOfItem ==
    ASSUME NEW s \in Sources, cur'.path = s
    PROVE  RsyncRange' = Subtree(s)
  <1>1. s # <<>>
    BY Places, EmptySeq
  <1>2. cur' # Idle
    BY <1>1 DEF Idle
  <1> QED BY <1>2 DEF RsyncRange, Subtree, Idle

\* A batch begins, or gives way to the single items, which then are still awaited.
LEMMA BatchCopyAccounts ==
    ASSUME AccountInv, BatchCopy
    PROVE  SeenOrGone' /\ Reachable' /\ RsyncInRange' /\ Accounted'
  <1>0. TypeOK /\ SeenOrGone /\ Reachable /\ RsyncInRange /\ Accounted
    BY DEF AccountInv, HybridTypeOK
  <1>1. /\ UNCHANGED <<src, dst, op, policy, cur, open, chosen, allowed, excused, theirs>>
        /\ engine' = "each" /\ pc = "next" /\ cur = Idle /\ open = <<>> /\ ~InHand
    BY <1>0 DEF BatchCopy, RsyncInRange, InHand
  <1>2. Pending = left /\ left \subseteq Sources
    BY <1>0, <1>1 DEF Pending, TypeOK
  <1>3. CASE RunRsync(left) /\ left' = {}
    <2>1. /\ pc' = "rsync" /\ listed' \subseteq Sources /\ sending' = {}
          /\ RsyncRange' = Sources
      BY <1>1, <1>3 DEF RunRsync, RsyncRange, Subtree, Idle
    <2>2. SeenOrGone' /\ Reachable' /\ RsyncInRange'
      BY <1>1, <1>3, <2>1 DEF SeenOrGone, InHand, Reachable, RsyncInRange
    <2>3. ASSUME NEW s \in Sources
          PROVE  InSight(s)'
      <3>1. CASE Settled(s)
        <4>1. Settled(s)'
          BY <1>1, <3>1, SettledStays
        <4> QED BY <4>1 DEF InSight
      <3>2. CASE Awaited(s)
        BY <1>1, <1>2, <1>3, <2>1, <3>2, GivenInSight DEF Awaited
      <3>3. ~WithRsync(s)
        BY <1>1 DEF WithRsync
      <3> QED BY <1>0, <3>1, <3>2, <3>3 DEF Accounted, InSight
    <2> QED BY <2>2, <2>3 DEF Accounted
  <1>4. CASE UNCHANGED <<pc, left, rsyncVars>>
    <2>1. Pending' = Pending /\ ~InHand'
      BY <1>1, <1>4 DEF Pending, InHand
    <2>2. Accounted'
      BY <1>0, <1>1, <1>4, <2>1, AsideInSight DEF Onward
    <2>3. SeenOrGone' /\ Reachable' /\ RsyncInRange'
      BY <1>0, <1>1, <1>4, <2>1 DEF SeenOrGone, Reachable, RsyncInRange
    <2> QED BY <2>2, <2>3
  <1> QED BY <1>3, <1>4 DEF BatchCopy

\* A single item is reported, in the way of another kind, or given to rsync.
LEMMA RsyncItemAccounts ==
    ASSUME AccountInv, NEW s \in Sources, RsyncItem(s)
    PROVE  SeenOrGone' /\ Reachable' /\ RsyncInRange' /\ Accounted'
  <1>0. TypeOK /\ SeenOrGone /\ Reachable /\ RsyncInRange /\ Accounted
    BY DEF AccountInv, HybridTypeOK
  <1>1. /\ UNCHANGED <<src, dst, op, policy, open, chosen, theirs, engine>>
        /\ engine = "each" /\ pc = "next" /\ ~InHand /\ left' = left \ {s}
    BY DEF RsyncItem, FastItem, InHand
  <1>2. Pending \subseteq left' \cup {s}
    BY <1>1 DEF Pending
  <1>3. CASE excused' = excused \cup {s} /\ UNCHANGED <<pc, cur>>
    <2>1. Accounted'
      BY <1>0, <1>1, <1>2, <1>3, OthersInSight, InHandInSight DEF Onward
    <2>2. SeenOrGone' /\ Reachable' /\ RsyncInRange'
      BY <1>0, <1>1, <1>3 DEF SeenOrGone, InHand, Reachable, RsyncInRange
    <2> QED BY <2>1, <2>2
  <1>4. CASE /\ cur' = [path |-> s, info |-> src[s], had |-> dst[Target(s)]]
             /\ pc' = "clash" /\ UNCHANGED excused
    <2>1. InHand' /\ cur'.path = s /\ cur'.info = src[s] /\ s \in Pending'
      BY <1>4 DEF InHand, Pending
    <2>2. Accounted'
      BY <1>0, <1>1, <1>2, <1>4, <2>1, OthersInSight, InHandInSight DEF Onward
    <2>3. SeenOrGone' /\ Reachable' /\ RsyncInRange'
      BY <1>0, <1>1, <1>4, <2>1 DEF SeenOrGone, Reachable, RsyncInRange
    <2> QED BY <2>2, <2>3
  <1>5. CASE /\ cur' = [path |-> s, info |-> src[s], had |-> dst[Target(s)]]
             /\ RunRsync({s}) /\ UNCHANGED excused
    <2>1. /\ RsyncRange' = Subtree(s) /\ pc' = "rsync"
          /\ listed' \subseteq Subtree(s) /\ sending' = {}
      BY <1>5, RangeOfItem DEF RunRsync
    <2>2. \A r \in Subtree(s) : InSight(r)'
      BY <1>1, <1>5, <2>1, GivenInSight
    <2>3. Accounted'
      BY <1>0, <1>1, <1>2, <1>5, <2>2, OthersInSight DEF Onward
    <2>4. SeenOrGone' /\ Reachable' /\ RsyncInRange'
      BY <1>0, <1>1, <2>1 DEF SeenOrGone, InHand, Reachable, RsyncInRange
    <2> QED BY <2>3, <2>4
  <1> QED BY <1>3, <1>4, <1>5 DEF RsyncItem

\* What is in the way of rsync is removed, and the item given to it, or reported.
LEMMA RemoveClashAccounts ==
    ASSUME NoTwins, AccountInv, RemoveClash
    PROVE  SeenOrGone' /\ Reachable' /\ RsyncInRange' /\ Accounted'
  <1>0. TypeOK /\ SeenOrGone /\ Reachable /\ RsyncInRange /\ Accounted
    BY DEF AccountInv, HybridTypeOK
  <1>1. /\ UNCHANGED <<src, op, policy, open, left, chosen, theirs, engine>>
        /\ pc = "clash" /\ engine # "batch" /\ InHand
        /\ cur.path \in Sources /\ cur.path \in Subtree(cur.path)
    BY <1>0 DEF RemoveClash, RsyncInRange, InHand, TypeOK, Subtree
  <1>2. Pending \subseteq left' \cup {cur.path}
    BY <1>1 DEF Pending
  <1>3. \A s \in Sources \ Subtree(cur.path) : dst'[Target(s)] = dst[Target(s)]
    <2> TAKE s \in Sources \ Subtree(cur.path)
    <2>1. Target(s) # Here /\ Target(s) \in Targets
      BY <1>1, Places DEF NoTwins, Here
    <2> QED BY <1>0, <2>1 DEF RemoveClash, TypeOK
  <1>4. CASE GiveUp
    <2>1. /\ pc' = "next" /\ cur.path \in excused' /\ excused \subseteq excused' /\ ~InHand'
      BY <1>4 DEF GiveUp, Passed, InHand
    <2>2. Accounted'
      BY <1>0, <1>1, <1>2, <1>3, <2>1, OthersInSight, InHandInSight DEF Onward
    <2>3. SeenOrGone' /\ Reachable' /\ RsyncInRange'
      BY <1>0, <1>1, <2>1 DEF SeenOrGone, Reachable, RsyncInRange
    <2> QED BY <2>2, <2>3
  <1>5. CASE RunRsync({cur.path}) /\ UNCHANGED <<cur, excused>>
    <2>1. /\ RsyncRange' = Subtree(cur.path) /\ pc' = "rsync"
          /\ listed' \subseteq Subtree(cur.path) /\ sending' = {}
      BY <1>1, <1>5, RangeOfItem DEF RunRsync
    <2>2. \A r \in Subtree(cur.path) : InSight(r)'
      BY <1>1, <1>5, <2>1, GivenInSight
    <2>3. Accounted'
      BY <1>0, <1>1, <1>2, <1>3, <1>5, <2>2, OthersInSight DEF Onward
    <2>4. SeenOrGone' /\ Reachable' /\ RsyncInRange'
      BY <1>0, <1>1, <2>1 DEF SeenOrGone, InHand, Reachable, RsyncInRange
    <2> QED BY <2>3, <2>4
  <1> QED BY <1>4, <1>5 DEF RemoveClash

\* A step of rsync about the objects in S keeps the others in sight.
LEMMA RsyncInSight ==
    ASSUME Accounted, Onward, pc = "rsync", left' = left, NEW S \in SUBSET Sources,
           \A s \in Sources \ S : /\ dst'[Target(s)] = dst[Target(s)]
                                  /\ WithRsync(s) => InSight(s)',
           \A s \in S : InSight(s)'
    PROVE  Accounted'
  <1>1. SUFFICES ASSUME NEW s \in Sources, s \notin S
                 PROVE  InSight(s)'
    BY DEF Accounted
  <1>2. CASE Settled(s)
    <2>1. Settled(s)'
      BY <1>1, <1>2, SettledStays DEF Onward
    <2> QED BY <2>1 DEF InSight
  <1>3. CASE Awaited(s)
    <2>1. Awaited(s)'
      BY <1>3 DEF Awaited, Pending, InHand, Subtree
    <2> QED BY <2>1 DEF InSight
  <1> QED BY <1>1, <1>2, <1>3 DEF Accounted, InSight

\* What all steps of rsync have in common while it runs.
Running ==
    /\ UNCHANGED <<op, pc, cur, open, left, theirs, engine>> /\ pc = "rsync"
    /\ listed' \subseteq listed /\ sending' \subseteq listed \cup sending
    /\ excused \subseteq excused' /\ (wrong => wrong')
    /\ \A s \in Sources : src'[s] = src[s] \/ src'[s] = Absent

\* Such a step about one object keeps all in sight if it keeps that one.
LEMMA RunningAccounts ==
    ASSUME AccountInv, Running, NEW S \in SUBSET Sources,
           \A s \in Sources \ S : dst'[Target(s)] = dst[Target(s)],
           wrong' \/ listed \cup sending \subseteq listed' \cup sending' \cup S,
           \A s \in S : s \in RsyncRange =>
                wrong' \/ s \in listed' \cup sending' \/ Settled(s)',
           S \subseteq listed \cup sending
    PROVE  SeenOrGone' /\ Reachable' /\ RsyncInRange' /\ Accounted'
  <1>0. TypeOK /\ Reachable /\ RsyncInRange /\ Accounted
    BY DEF AccountInv, HybridTypeOK
  <1>1. RsyncRange' = RsyncRange /\ listed \cup sending \subseteq RsyncRange
    BY <1>0 DEF Running, RsyncRange, Subtree, Idle, RsyncInRange
  <1>2. SeenOrGone' /\ Reachable' /\ RsyncInRange'
    BY <1>0, <1>1 DEF Running, SeenOrGone, InHand, Reachable, RsyncInRange
  <1>3. ASSUME NEW s \in Sources \ S, WithRsync(s)
        PROVE  InSight(s)'
    <2>1. WithRsync(s)'
      BY <1>1, <1>3 DEF Running, WithRsync
    <2> QED BY <2>1 DEF InSight
  <1>4. ASSUME NEW s \in S
        PROVE  InSight(s)'
    <2>1. s \in RsyncRange
      BY <1>1
    <2>2. Settled(s)' \/ WithRsync(s)'
      BY <1>1, <2>1 DEF Running, WithRsync
    <2> QED BY <2>2 DEF InSight
  <1>5. Accounted'
    BY <1>0, <1>3, <1>4, RsyncInSight DEF Running, Onward
  <1> QED BY <1>2, <1>5

\* rsync at work on an object: it will send it, has merged it, leaves it and this is
\* known, or will report a failure.
LEMMA LookAccounts ==
    ASSUME NoTwins, AccountInv, NEW r \in Sources, Look(r)
    PROVE  SeenOrGone' /\ Reachable' /\ RsyncInRange' /\ Accounted'
  <1>0. TypeOK
    BY DEF AccountInv, HybridTypeOK
  <1>1. /\ UNCHANGED <<src, op, pc, cur, open, left, theirs, engine>>
        /\ pc = "rsync" /\ r \in listed /\ listed' = listed \ {r}
    BY DEF Look
  <1>2. /\ sending \subseteq sending' /\ sending' \subseteq sending \cup {r}
        /\ excused \subseteq excused' /\ (wrong => wrong')
    BY DEF Look
  <1>3. Running
    BY <1>1, <1>2 DEF Running
  <1>4. \A s \in Sources \ {r} : dst'[Target(s)] = dst[Target(s)]
    <2> TAKE s \in Sources \ {r}
    <2>1. Target(s) # Target(r) /\ Target(s) \in Targets
      BY Places DEF NoTwins
    <2> QED BY <1>0, <2>1 DEF Look, TypeOK
  <1>5. wrong' \/ r \in sending' \/ Settled(r)'
    <2>1. CASE IsDir(src[r]) /\ dst' = [dst EXCEPT ![Target(r)] = src[r]]
      <3>1. dst'[Target(r)] = src[r]
        BY <1>0, <2>1, Places DEF TypeOK
      <3> QED BY <1>1, <2>1, <3>1 DEF IsDir, Settled
    <2>2. CASE MergesDirs(src[r], dst[Target(r)]) /\ dst' = dst
      BY <1>1, <2>2 DEF MergesDirs, Settled
    <2>3. CASE excused' = excused \cup {r}
      <3>1. r \in Subtree(r)
        BY DEF Subtree
      <3> QED BY <2>3, <3>1, ExcusedSettled
    <2> QED BY <2>1, <2>2, <2>3 DEF Look
  <1> QED BY <1>1, <1>2, <1>3, <1>4, <1>5, RunningAccounts, ZenonT(40)

\* What arrives is settled.
LEMMA ArriveAccounts ==
    ASSUME NoTwins, AccountInv, NEW r \in Sources, Arrive(r)
    PROVE  SeenOrGone' /\ Reachable' /\ RsyncInRange' /\ Accounted'
  <1>0. TypeOK
    BY DEF AccountInv, HybridTypeOK
  <1>1. /\ UNCHANGED <<op, pc, cur, open, left, excused, theirs, engine, listed, wrong>>
        /\ pc = "rsync" /\ r \in sending /\ sending' = sending \ {r}
        /\ dst' = [dst EXCEPT ![Target(r)] = src[r]]
        /\ src' = IF op = "move" /\ ~IsDir(src[r]) THEN [src EXCEPT ![r] = Absent] ELSE src
    BY DEF Arrive
  <1>2. Running
    BY <1>0, <1>1 DEF Running, TypeOK
  <1>3. \A s \in Sources \ {r} : dst'[Target(s)] = dst[Target(s)]
    <2> TAKE s \in Sources \ {r}
    <2>1. Target(s) # Target(r) /\ Target(s) \in Targets
      BY Places DEF NoTwins
    <2> QED BY <1>0, <1>1, <2>1 DEF TypeOK
  <1>4. Settled(r)'
    <2>1. dst'[Target(r)] = src[r] /\ (src'[r] = Absent \/ src'[r] = src[r])
      BY <1>0, <1>1, Places DEF TypeOK
    <2>2. op = "copy" \/ IsDir(src[r]) \/ src'[r] = Absent
      BY <1>0, <1>1 DEF TypeOK
    <2> QED BY <1>1, <2>1, <2>2 DEF Settled, IsDir
  <1> QED BY <1>1, <1>2, <1>3, <1>4, RunningAccounts, ZenonT(40)

\* What does not arrive will be reported.
LEMMA FailureAccounts ==
    ASSUME NoTwins, AccountInv, RsyncDies \/ \E r \in Sources : NotSent(r)
    PROVE  SeenOrGone' /\ Reachable' /\ RsyncInRange' /\ Accounted'
  <1>0. TypeOK /\ sending \subseteq Sources
    BY DEF AccountInv, HybridTypeOK
  <1>1. /\ UNCHANGED <<src, op, pc, cur, open, left, excused, theirs, engine>>
        /\ pc = "rsync" /\ wrong'
        /\ listed' \subseteq listed /\ sending' \subseteq sending
    BY DEF RsyncDies, NotSent, vars
  <1>2. Running
    BY <1>1 DEF Running
  <1>3. ASSUME NEW s \in Sources \ sending
        PROVE  dst'[Target(s)] = dst[Target(s)]
    <2>1. ASSUME NEW r \in sending, dst' = [dst EXCEPT ![Target(r)] = CutShort(src[r])]
          PROVE  dst'[Target(s)] = dst[Target(s)]
      <3>1. Target(s) # Target(r) /\ Target(s) \in Targets
        BY <1>0, Places DEF NoTwins
      <3> QED BY <1>0, <2>1, <3>1 DEF TypeOK
    <2> QED BY <2>1 DEF RsyncDies, NotSent, vars
  <1> QED BY <1>0, <1>1, <1>2, <1>3, RunningAccounts

\* The end of rsync reports a failure for all it was given.
LEMMA RsyncEndsAccounts ==
    ASSUME AccountInv, RsyncEnds
    PROVE  SeenOrGone' /\ Reachable' /\ RsyncInRange' /\ Accounted'
  <1>0. TypeOK /\ Trees /\ Reachable /\ RsyncInRange /\ Accounted
    BY DEF AccountInv, HybridTypeOK
  <1>1. /\ UNCHANGED <<src, dst, op, open, left, theirs, engine>>
        /\ pc = "rsync" /\ listed = {} /\ sending = {}
        /\ pc' \in {"next", "tidy"} /\ excused \subseteq excused'
    BY DEF RsyncEnds, Passed
  <1>2. SeenOrGone' /\ Reachable' /\ RsyncInRange'
    BY <1>0, <1>1 DEF SeenOrGone, InHand, Reachable, RsyncInRange
  <1>3. ASSUME NEW s \in Sources, WithRsync(s)
        PROVE  InSight(s)'
    <2>1. wrong /\ s \in RsyncRange
      BY <1>1, <1>3 DEF WithRsync
    <2>2. CASE cur = Idle
      <3>1. Selected \subseteq excused'
        BY <2>1, <2>2 DEF RsyncEnds
      <3>2. PICK p \in Selected : s \in Subtree(p)
        BY <1>0, ItemOf
      <3> QED BY <3>1, <3>2, InHandInSight
    <2>3. CASE cur # Idle
      <3>1. cur.path \in excused' /\ s \in Subtree(cur.path)
        BY <2>1, <2>3 DEF RsyncEnds, RsyncRange
      <3> QED BY <3>1, InHandInSight
    <2> QED BY <2>2, <2>3
  <1>4. Accounted'
    BY <1>0, <1>1, <1>3, RsyncInSight DEF Onward
  <1> QED BY <1>2, <1>4

\* A directory that is left is removed if nothing is in it.
LEMMA TidyAccounts ==
    ASSUME AccountInv, Tidied \/ \E r \in Sources : Tidy(r)
    PROVE  SeenOrGone' /\ Reachable' /\ RsyncInRange' /\ Accounted'
  <1>0. TypeOK /\ Reachable /\ RsyncInRange /\ Accounted
    BY DEF AccountInv, HybridTypeOK
  <1>1. /\ UNCHANGED <<dst, op, open, left, excused, theirs, engine>>
        /\ pc = "tidy" /\ pc' \in {"next", "tidy"}
        /\ \A s \in Sources : src'[s] = src[s] \/ src'[s] = Absent
    BY <1>0 DEF Tidied, Tidy, Passed, hybridVars, TypeOK
  <1>2. SeenOrGone' /\ Reachable' /\ RsyncInRange'
    BY <1>0, <1>1 DEF SeenOrGone, InHand, Reachable, RsyncInRange
  <1>3. Pending' = Pending
    BY <1>1 DEF Pending, InHand
  <1>4. Accounted'
    BY <1>0, <1>1, <1>3, AsideInSight DEF Onward
  <1> QED BY <1>2, <1>4

\* Nothing happens, but that do_move_fast() may choose to rename.
LEMMA QuietAccounts ==
    ASSUME AccountInv, UNCHANGED <<vars, engine, rsyncVars>>,
           engine # "batch" \/ renaming' = renaming
    PROVE  SeenOrGone' /\ Reachable' /\ RsyncInRange' /\ Accounted'
  <1>1. UNCHANGED <<src, dst, op, policy, pc, cur, open, left, chosen, allowed, excused,
                    theirs, engine, listed, sending, wrong>>
    BY DEF vars, rsyncVars
  <1>2. Pending' = Pending /\ InHand' = InHand
    BY <1>1 DEF Pending, InHand
  <1>3. Accounted'
    BY <1>1, <1>2, AsideInSight DEF AccountInv, Onward
  <1>4. SeenOrGone' /\ Reachable' /\ RsyncInRange'
    BY <1>1, <1>2 DEF AccountInv, SeenOrGone, Reachable, RsyncInRange, RsyncRange, Subtree,
                      Idle
  <1> QED BY <1>3, <1>4

\* Every step, of either engine, keeps the account.
LEMMA StepAccounts ==
    ASSUME NoTwins, AccountInv, [HybridNext]_allVars
    PROVE  AccountInv'
  <1>0. HybridTypeOK' /\ Trees'
    BY HybridTrees DEF AccountInv
  <1>1. SUFFICES SeenOrGone' /\ Reachable' /\ RsyncInRange' /\ Accounted'
    BY <1>0 DEF AccountInv
  <1>2. CASE Classic \/ (Others /\ UNCHANGED hybridVars)
    BY <1>2, ClassicAccounts
  <1>3. ASSUME NEW s \in Sources, RenameItem(s) \/ RsyncItem(s)
        PROVE  SeenOrGone' /\ Reachable' /\ RsyncInRange' /\ Accounted'
    <2>1. RenameItem(s) => UNCHANGED <<vars, engine, rsyncVars>> /\ engine # "batch"
      BY DEF RenameItem, FastItem
    <2> QED BY <1>3, <2>1, QuietAccounts, RsyncItemAccounts
  <1>4. CASE BatchCopy \/ RemoveClash
    BY <1>4, BatchCopyAccounts, RemoveClashAccounts
  <1>5. CASE Rsync
    BY <1>5, LookAccounts, ArriveAccounts, FailureAccounts, RsyncEndsAccounts, TidyAccounts
       DEF Rsync
  <1>6. CASE UNCHANGED allVars
    BY <1>6, QuietAccounts DEF allVars, hybridVars
  <1> QED BY <1>2, <1>3, <1>4, <1>5, <1>6 DEF HybridNext, HybridChild, Classic

\* At the start every source is in an item that will be visited, or is not there.
LEMMA InitAccounts ==
    ASSUME HybridInit
    PROVE  AccountInv
  <1>1. HybridTypeOK /\ Trees
    BY HybridInitTrees
  <1>2. /\ pc = "next" /\ cur = Idle /\ open = <<>> /\ renaming = <<>>
        /\ left = {s \in Selected : src[s] # Absent} /\ ~InHand
    BY DEF HybridInit, Init, InHand
  <1>3. SeenOrGone /\ Reachable
    BY <1>2 DEF SeenOrGone, Reachable
  <1>4. engine = "batch" => left # {}
    <2>1. Cardinality({}) = 0
      BY FS_EmptySet
    <2>2. engine = "batch" => Cardinality(left) > 1
      BY DEF HybridInit
    <2> QED BY <2>1, <2>2
  <1>5. RsyncInRange
    BY <1>2, <1>4 DEF RsyncInRange
  <1>6. ASSUME NEW s \in Sources
        PROVE  InSight(s)
    <2>1. PICK p \in Selected : s \in Subtree(p) /\ (src[s] # Absent => src[p] # Absent)
      BY <1>1, ItemOf
    <2>2. CASE src[s] = Absent
      BY <2>2 DEF InSight, Settled
    <2>3. CASE src[s] # Absent
      BY <1>2, <2>1, <2>3 DEF InSight, Awaited, Pending
    <2> QED BY <2>2, <2>3
  <1> QED BY <1>1, <1>3, <1>5, <1>6 DEF AccountInv, Accounted

\* With either engine, whatever fails and whatever other programs do, each object of the
\* operation has in the end been copied or moved, or the user knows of it or of a
\* directory it is in: no silent return of do_copy2(), do_move2() or
\* run_rsync_operation() loses track of an object.  Of two items with one target the
\* second replaces the first, so the items have targets of their own.
THEOREM NothingIsForgotten ==
    ASSUME NoTwins
    PROVE  HybridSpec => []NothingForgotten
<1>1. HybridInit => AccountInv
  BY InitAccounts
<1>2. AccountInv /\ [HybridNext]_allVars => AccountInv'
  BY StepAccounts
<1>3. AccountInv => NothingForgotten
  <2> SUFFICES ASSUME AccountInv, pc = "done", NEW s \in Sources
               PROVE  Settled(s)
    BY DEF NothingForgotten, Settled
  <2>1. Pending = {}
    BY DEF AccountInv, Reachable, Pending, InHand
  <2>2. ~Awaited(s) /\ ~WithRsync(s)
    BY <2>1 DEF Awaited, WithRsync
  <2> QED BY <2>2 DEF AccountInv, Accounted, InSight
<1> QED BY <1>1, <1>2, <1>3, PTL DEF HybridSpec

=============================================================================
