--------------------------- MODULE WindowsProofs ----------------------------
(* The count of open things, the moment of quitting and the pointers to      *)
(* filer windows, for every number of windows, directories, sides and names, *)
(* and whatever is open. Every callback is shown to keep the pointers        *)
(* (WinInv) and to change the count by what it changes the census            *)
(* (CountStep); the invariants of the specification follow from those two    *)
(* once, whichever callback it was.                                          *)
EXTENDS FilerWindows, FiniteSetTheorems, TLAPS

DataOK ==
    /\ path \in [Windows -> Dirs \cup {None}]
    /\ window_id \in [Windows -> Ids \cup {None}]
    /\ window_with_id \in [Ids -> Windows \cup {None}]
    /\ window_with_focus \in Windows \cup {None}
    /\ pair \in [{"left", "right"} -> Windows \cup {None}]
    /\ spring \in Windows \cup {None}
    /\ armed \in BOOLEAN
    /\ unique \in BOOLEAN
    /\ others \in [Kinds -> Nat]
    /\ panels \in SUBSET Sides
    /\ redo \in [pinboard : BOOLEAN, panels : SUBSET Sides]

\* A structure that is free bears no name.
FreeIsNameless == \A w \in Windows : path[w] = None => window_id[w] = None

WinInv == DataOK /\ NoStaleWindow /\ FreeIsNameless

\* What one callback does to the count and to quit.
CountStep ==
    /\ number_of_windows' = number_of_windows + Census' - Census
    /\ quit' \in BOOLEAN
    /\ number_of_windows' >= 1 => (quit' <=> quit)
    /\ number_of_windows' < 1 /\ number_of_windows >= 1 => quit'

CountInv ==
    /\ calls \in 0..(MaxCalls + 1)
    /\ quit \in BOOLEAN
    /\ headless \in BOOLEAN
    /\ CountIsRight
    /\ QuitsWithTheLast
    /\ calls > 0 => ~quit
    /\ calls = 0 /\ headless => number_of_windows = 0

IInv == WinInv /\ CountInv

-----------------------------------------------------------------------------
(* Sets of windows and of panels are finite                                  *)

LEMMA Finite ==
    ASSUME DataOK
    PROVE  /\ IsFiniteSet(Shown) /\ Cardinality(Shown) \in Nat
           /\ IsFiniteSet(panels) /\ Cardinality(panels) \in Nat
           /\ OtherThings \in Nat /\ Census \in Nat
<1>1. IsFiniteSet(Shown) /\ Cardinality(Shown) \in Nat
  <2>1. Shown \in SUBSET Windows
    BY DEF Shown
  <2>2. IsFiniteSet(Shown)
    BY <2>1, WindowsAssumption, FS_Subset
  <2> QED BY <2>2, FS_CardinalityType
<1>2. IsFiniteSet(panels) /\ Cardinality(panels) \in Nat
  <2>1. panels \in SUBSET Sides
    BY DEF DataOK
  <2>2. IsFiniteSet(panels)
    BY <2>1, SidesAssumption, FS_Subset
  <2> QED BY <2>2, FS_CardinalityType
<1>3. OtherThings \in Nat /\ Census \in Nat
  <2>1. \A kind \in Kinds : others[kind] \in Nat
    BY DEF DataOK
  <2>2. OtherThings \in Nat
    BY <2>1 DEF OtherThings, Kinds
  <2> QED BY <1>1, <1>2, <2>2 DEF Census
<1> QED BY <1>1, <1>2, <1>3

LEMMA FiniteNext == DataOK' => Census' \in Nat /\ Cardinality(panels') \in Nat
<1>1. DataOK => Census \in Nat /\ Cardinality(panels) \in Nat
  BY Finite
<1>2. (DataOK => Census \in Nat /\ Cardinality(panels) \in Nat)'
  BY <1>1, PTL
<1> QED BY <1>2

\* Counted(more, less) is a CountStep when the census changes by as much.
LEMMA CountedStep ==
    ASSUME NEW more \in Nat, NEW less \in Nat, CountInv,
           Census \in Nat, Census' \in Nat,
           Counted(more, less), Census' = Census + more - less
    PROVE  CountStep
<1>1. number_of_windows \in Nat
  BY DEF CountInv, CountIsRight
<1>2. /\ number_of_windows' = number_of_windows + more - less
      /\ quit' = (quit \/ (less > 0 /\ number_of_windows + more - less < 1))
  BY DEF Counted
<1>3. number_of_windows' = number_of_windows + Census' - Census
  BY <1>1, <1>2
<1>4. ASSUME number_of_windows' >= 1 PROVE quit' <=> quit
  <2>1. ~(number_of_windows + more - less < 1)
    BY <1>1, <1>2, <1>4
  <2> QED BY <1>2, <2>1 DEF CountInv
<1>5. ASSUME number_of_windows' < 1, number_of_windows >= 1 PROVE quit'
  <2>1. less > 0 /\ number_of_windows + more - less < 1
    BY <1>1, <1>2, <1>5
  <2> QED BY <1>2, <2>1
<1>6. quit' \in BOOLEAN
  BY <1>2
<1> QED BY <1>3, <1>4, <1>5, <1>6 DEF CountStep

-----------------------------------------------------------------------------
(* Destroying and creating windows                                           *)

LEMMA DestroyedFacts ==
    ASSUME WinInv, NEW gone \in SUBSET Shown, NEW more \in Nat,
           NEW now \in [Windows -> Dirs \cup {None}],
           \A w \in Windows : now[w] # None <=> path[w] # None,
           Destroyed(gone, more, now)
    PROVE  /\ path' \in [Windows -> Dirs \cup {None}]
           /\ window_id' \in [Windows -> Ids \cup {None}]
           /\ window_with_id' \in [Ids -> Windows \cup {None}]
           /\ window_with_focus' \in Windows \cup {None}
           /\ pair' \in [{"left", "right"} -> Windows \cup {None}]
           /\ spring' \in Windows \cup {None}
           /\ Shown' = Shown \ gone
           /\ Cardinality(Shown') = Cardinality(Shown) - Cardinality(gone)
           /\ Cardinality(gone) \in Nat
           /\ NoStaleWindow'
           /\ FreeIsNameless'
<1>1. gone \subseteq Windows /\ None \notin gone
  BY WindowsAssumption DEF Shown
<1>2. /\ path' = [w \in Windows |-> IF w \in gone THEN None ELSE now[w]]
      /\ path' \in [Windows -> Dirs \cup {None}]
  BY DEF Destroyed
<1>3. Shown' = Shown \ gone
  BY <1>2 DEF Shown
<1>4. /\ Cardinality(Shown') = Cardinality(Shown) - Cardinality(gone)
      /\ Cardinality(gone) \in Nat
  <2>1. IsFiniteSet(Shown)
    BY Finite DEF WinInv
  <2>2. Shown \cap gone = gone
    OBVIOUS
  <2>3. Cardinality(Shown \ gone) = Cardinality(Shown) - Cardinality(Shown \cap gone)
    BY <2>1, FS_Difference
  <2>4. IsFiniteSet(gone)
    BY <2>1, FS_Subset
  <2> QED BY <1>3, <2>2, <2>3, <2>4, FS_CardinalityType
<1>5. /\ window_id' = [w \in Windows |-> IF w \in gone THEN None ELSE window_id[w]]
      /\ window_with_id' =
           [i \in Ids |-> IF \E w \in gone : window_id[w] = i THEN None ELSE window_with_id[i]]
  BY DEF Destroyed, ForgetId
<1>6. /\ window_id' \in [Windows -> Ids \cup {None}]
      /\ window_with_id' \in [Ids -> Windows \cup {None}]
  BY <1>5 DEF WinInv, DataOK
<1>7. /\ window_with_focus' \in Windows \cup {None}
      /\ window_with_focus' \in Shown' \cup {None}
  BY <1>3 DEF Destroyed, WinInv, DataOK, NoStaleWindow
<1>8. /\ pair' \in [{"left", "right"} -> Windows \cup {None}]
      /\ pair'["left"] \in Shown' \cup {None}
      /\ pair'["right"] \in Shown' \cup {None}
  BY <1>3 DEF Destroyed, ForgetPair, WinInv, DataOK, NoStaleWindow
<1>9. /\ spring' \in Windows \cup {None}
      /\ spring' \in Shown' \cup {None}
  BY <1>3 DEF Destroyed, ForgetSpring, WinInv, DataOK, NoStaleWindow
<1>10. ASSUME NEW i \in Ids, NEW w \in Windows
       PROVE  window_with_id'[i] = w <=> w \in Shown' /\ window_id'[w] = i
  <2>1. w # None /\ i # None
    BY WindowsAssumption, IdsAssumption
  <2>2. window_with_id[i] = w <=> w \in Shown /\ window_id[w] = i
    BY DEF WinInv, NoStaleWindow
  <2>3. \A v \in gone : window_id[v] = i => window_with_id[i] = v
    BY <1>1 DEF WinInv, NoStaleWindow
  <2>4. CASE \E v \in gone : window_id[v] = i
    <3>1. window_with_id'[i] = None
      BY <1>5, <2>4
    <3>2. w \in Shown' => window_id'[w] # i
      BY <1>3, <1>5, <2>1, <2>2, <2>3, <2>4
    <3> QED BY <2>1, <3>1, <3>2
  <2>5. CASE ~\E v \in gone : window_id[v] = i
    <3>1. window_with_id'[i] = window_with_id[i]
      BY <1>5, <2>5
    <3>2. window_id'[w] = i <=> window_id[w] = i
      BY <1>5, <2>1, <2>5
    <3>3. window_id[w] = i => w \notin gone
      BY <2>5
    <3> QED BY <1>3, <2>2, <3>1, <3>2, <3>3
  <2> QED BY <2>4, <2>5
<1>11. NoStaleWindow'
  BY <1>7, <1>8, <1>9, <1>10 DEF NoStaleWindow
<1>12. FreeIsNameless'
  BY <1>2, <1>5 DEF FreeIsNameless, WinInv
<1> QED BY <1>2, <1>3, <1>4, <1>6, <1>7, <1>8, <1>9, <1>11, <1>12

\* The same for a callback that leaves all else alone.
LEMMA DestroyedKeeps ==
    ASSUME IInv, NEW gone \in SUBSET Shown, NEW more \in Nat,
           NEW now \in [Windows -> Dirs \cup {None}],
           \A w \in Windows : now[w] # None <=> path[w] # None,
           Destroyed(gone, more, now),
           UNCHANGED <<armed, unique, panels, redo>>,
           others' \in [Kinds -> Nat], OtherThings' = OtherThings + more
    PROVE  WinInv' /\ CountStep
<1>1. DataOK' /\ NoStaleWindow' /\ FreeIsNameless'
  BY DestroyedFacts DEF IInv, WinInv, DataOK
<1>2. /\ Cardinality(Shown') = Cardinality(Shown) - Cardinality(gone)
      /\ Cardinality(gone) \in Nat
  BY DestroyedFacts DEF IInv
<1>3. /\ Census \in Nat /\ Census' \in Nat /\ Cardinality(Shown) \in Nat
      /\ Cardinality(panels) \in Nat /\ OtherThings \in Nat
  BY <1>1, Finite, FiniteNext DEF IInv, WinInv
<1>4. Census' = Census + more - Cardinality(gone)
  BY <1>2, <1>3 DEF Census
<1>5. Counted(more, Cardinality(gone))
  BY DEF Destroyed
<1>6. CountStep
  BY <1>2, <1>3, <1>4, <1>5, CountedStep DEF IInv
<1> QED BY <1>1, <1>6 DEF WinInv

\* A structure taken by Created.
LEMMA CreatedFacts ==
    ASSUME WinInv, NEW w, NEW d \in Dirs, Created(w, d)
    PROVE  /\ w \in Windows /\ w \notin Shown /\ w # None
           /\ path' \in [Windows -> Dirs \cup {None}]
           /\ path' = [path EXCEPT ![w] = d]
           /\ Shown' = Shown \cup {w}
           /\ Cardinality(Shown') = Cardinality(Shown) + 1
           /\ window_id[w] = None
           /\ \A i \in Ids : window_with_id[i] # w
<1>1. w \in Windows /\ w \notin Shown /\ w # None /\ path[w] = None
  BY WindowsAssumption DEF Created, Free, Shown
<1>2. path' = [path EXCEPT ![w] = d] /\ path' \in [Windows -> Dirs \cup {None}]
  BY DEF Created, WinInv, DataOK
<1>3. Shown' = Shown \cup {w}
  BY <1>1, <1>2, DirsAssumption DEF Shown, WinInv, DataOK
<1>4. Cardinality(Shown') = Cardinality(Shown) + 1
  BY <1>1, <1>3, Finite, FS_AddElement DEF WinInv
<1>5. window_id[w] = None
  BY <1>1 DEF WinInv, FreeIsNameless
<1>6. \A i \in Ids : window_with_id[i] # w
  BY <1>1 DEF WinInv, NoStaleWindow
<1> QED BY <1>1, <1>2, <1>3, <1>4, <1>5, <1>6

\* filer_set_id() with a name that is not in the table keeps the table and the
\* windows' names in step.
LEMMA SetIdFacts ==
    ASSUME WinInv, NEW w \in Windows, w \in Shown', Shown \subseteq Shown',
           Shown' \subseteq Shown \cup {w},
           NEW id \in Ids \cup {None},
           id # None => window_with_id[id] = None,
           SetId(w, id)
    PROVE  /\ window_id' \in [Windows -> Ids \cup {None}]
           /\ window_with_id' \in [Ids -> Windows \cup {None}]
           /\ \A i \in Ids, v \in Windows :
                 window_with_id'[i] = v <=> v \in Shown' /\ window_id'[v] = i
           /\ \A v \in Windows \ {w} : window_id'[v] = window_id[v]
<1>0. /\ window_id \in [Windows -> Ids \cup {None}]
      /\ window_with_id \in [Ids -> Windows \cup {None}]
      /\ \A i \in Ids, v \in Windows :
            window_with_id[i] = v <=> v \in Shown /\ window_id[v] = i
      /\ \A v \in Windows : v \notin Shown => window_id[v] = None
  BY DEF WinInv, DataOK, NoStaleWindow, FreeIsNameless, Shown
<1>1. CASE id = None
  <2>1. window_id' = window_id /\ window_with_id' = window_with_id
    BY <1>1 DEF SetId
  <2>2. ASSUME NEW i \in Ids, NEW v \in Windows
        PROVE  window_with_id'[i] = v <=> v \in Shown' /\ window_id'[v] = i
    BY <1>0, <2>1, IdsAssumption
  <2> QED BY <1>0, <2>1, <2>2
<1>2. CASE id # None
  <2>1. /\ id \in Ids
        /\ window_id' = [window_id EXCEPT ![w] = id]
        /\ window_with_id' =
             [j \in Ids |-> IF j = id THEN w
                            ELSE IF j = window_id[w] THEN None ELSE window_with_id[j]]
    BY <1>2 DEF SetId
  <2>2. /\ window_id' \in [Windows -> Ids \cup {None}]
        /\ window_with_id' \in [Ids -> Windows \cup {None}]
    BY <1>0, <2>1
  <2>3. ASSUME NEW i \in Ids, NEW v \in Windows
        PROVE  window_with_id'[i] = v <=> v \in Shown' /\ window_id'[v] = i
    <3>0. v # None /\ i # None /\ w # None
      BY WindowsAssumption, IdsAssumption
    <3>1. CASE i = id
      <4>1. window_with_id'[i] = w
        BY <2>1, <3>1
      <4>2. CASE v = w
        BY <1>0, <2>1, <3>1, <4>1, <4>2
      <4>3. CASE v # w
        <5>1. window_id'[v] = window_id[v]
          BY <1>0, <2>1, <4>3
        <5>2. ~(v \in Shown /\ window_id[v] = id)
          BY <1>0, <1>2, <2>1, <3>0
        <5>3. v \in Shown' => v \in Shown
          BY <4>3
        <5> QED BY <3>1, <4>1, <4>3, <5>1, <5>2, <5>3
      <4> QED BY <4>2, <4>3
    <3>2. CASE i # id
      <4>1. CASE v = w
        <5>1. window_id'[v] = id
          BY <1>0, <2>1, <4>1
        <5>2. window_with_id'[i] # w
          <6>1. CASE i = window_id[w]
            BY <2>1, <3>0, <3>2, <6>1
          <6>2. CASE i # window_id[w]
            BY <1>0, <2>1, <3>2, <6>2
          <6> QED BY <6>1, <6>2
        <5> QED BY <3>2, <4>1, <5>1, <5>2
      <4>2. CASE v # w
        <5>1. window_id'[v] = window_id[v] /\ (v \in Shown' <=> v \in Shown)
          BY <1>0, <2>1, <4>2
        <5>2. CASE i = window_id[w]
          <6>1. window_with_id'[i] = None
            BY <2>1, <3>2, <5>2
          <6>2. window_with_id[i] = w
            BY <1>0, <3>0, <5>2
          <6> QED BY <1>0, <3>0, <4>2, <5>1, <6>1, <6>2
        <5>3. CASE i # window_id[w]
          <6>1. window_with_id'[i] = window_with_id[i]
            BY <2>1, <3>2, <5>3
          <6> QED BY <1>0, <5>1, <6>1
        <5> QED BY <5>2, <5>3
      <4> QED BY <4>1, <4>2
    <3> QED BY <3>1, <3>2
  <2>4. \A v \in Windows \ {w} : window_id'[v] = window_id[v]
    BY <1>0, <2>1
  <2> QED BY <2>2, <2>3, <2>4
<1> QED BY <1>1, <1>2

\* A callback that leaves the windows alone keeps the pointers.
LEMMA WindowsAlone ==
    ASSUME WinInv, UNCHANGED <<path, window_id, window_with_id, pair, spring>>,
           window_with_focus' \in Shown \cup {None},
           armed' \in BOOLEAN, unique' \in BOOLEAN, others' \in [Kinds -> Nat],
           panels' \in SUBSET Sides,
           redo' \in [pinboard : BOOLEAN, panels : SUBSET Sides]
    PROVE  WinInv' /\ Shown' = Shown
<1>1. Shown' = Shown /\ Shown \subseteq Windows
  BY DEF Shown
<1>2. DataOK'
  BY <1>1 DEF WinInv, DataOK
<1>3. NoStaleWindow'
  BY <1>1 DEF WinInv, NoStaleWindow
<1>4. FreeIsNameless'
  BY DEF WinInv, FreeIsNameless
<1> QED BY <1>1, <1>2, <1>3, <1>4 DEF WinInv

\* A callback that opens and closes other things than filer windows.
LEMMA OthersOnly ==
    ASSUME IInv, UNCHANGED <<winVars, panels>>,
           armed' \in BOOLEAN, unique' \in BOOLEAN, others' \in [Kinds -> Nat],
           redo' \in [pinboard : BOOLEAN, panels : SUBSET Sides],
           NEW more \in Nat, NEW less \in Nat,
           Counted(more, less), OtherThings' = OtherThings + more - less
    PROVE  WinInv' /\ CountStep
<1>1. WinInv' /\ Shown' = Shown
  <2>1. WinInv /\ window_with_focus' \in Shown \cup {None} /\ panels' \in SUBSET Sides
    BY DEF IInv, WinInv, DataOK, NoStaleWindow, winVars
  <2> QED BY <2>1, WindowsAlone DEF winVars
<1>2. /\ Census \in Nat /\ Census' \in Nat /\ Cardinality(Shown) \in Nat
      /\ Cardinality(panels) \in Nat /\ OtherThings \in Nat
  BY <1>1, Finite, FiniteNext DEF IInv, WinInv
<1>3. Census' = Census + more - less
  BY <1>1, <1>2 DEF Census
<1> QED BY <1>1, <1>2, <1>3, CountedStep DEF IInv

-----------------------------------------------------------------------------
(* Every callback                                                            *)

LEMMA OpenDirStep ==
    ASSUME IInv, NEW d \in Dirs, NEW tidy \in BOOLEAN, NEW id \in Ids \cup {None},
           id # None => window_with_id[id] = None,
           OpenDir(d, tidy, id)
    PROVE  WinInv' /\ CountStep
<1>0. WinInv /\ CountInv
  BY DEF IInv
<1>1. CASE \E w \in FoundFor(d, tidy) : SetId(w, id) /\ UNCHANGED <<path, countVars>>
  <2> PICK w \in FoundFor(d, tidy) : SetId(w, id) /\ UNCHANGED <<path, countVars>>
    BY <1>1
  <2>1. w \in Shown /\ w \in Windows
    BY DEF FoundFor, Showing, Shown
  <2>2. Shown' = Shown
    BY DEF Shown
  <2>3. /\ window_id' \in [Windows -> Ids \cup {None}]
        /\ window_with_id' \in [Ids -> Windows \cup {None}]
        /\ \A i \in Ids, v \in Windows :
              window_with_id'[i] = v <=> v \in Shown' /\ window_id'[v] = i
        /\ \A v \in Windows \ {w} : window_id'[v] = window_id[v]
    BY <1>0, <2>1, <2>2, SetIdFacts
  <2>4. DataOK' /\ NoStaleWindow' /\ FreeIsNameless'
    BY <1>0, <2>1, <2>2, <2>3
       DEF OpenDir, elseVars, WinInv, DataOK, NoStaleWindow, FreeIsNameless, Shown
  <2>5. CountStep
    <3>1. Census' = Census /\ Census \in Nat
      BY <1>0, <2>2, Finite DEF OpenDir, elseVars, Census, OtherThings, WinInv
    <3>2. number_of_windows \in Nat /\ quit \in BOOLEAN
      BY <1>0, <3>1 DEF CountInv, CountIsRight
    <3> QED BY <3>1, <3>2 DEF countVars, CountStep
  <2> QED BY <2>4, <2>5 DEF WinInv
<1>2. CASE /\ FoundFor(d, tidy) = {} /\ Room(1)
           /\ \E w \in Windows : Created(w, d) /\ SetId(w, id)
           /\ Counted(1, 0)
  <2> PICK w \in Windows : Created(w, d) /\ SetId(w, id)
    BY <1>2
  <2>1. /\ w \notin Shown /\ w # None
        /\ path' \in [Windows -> Dirs \cup {None}]
        /\ path' = [path EXCEPT ![w] = d]
        /\ Shown' = Shown \cup {w}
        /\ Cardinality(Shown') = Cardinality(Shown) + 1
    BY <1>0, CreatedFacts
  <2>2. /\ window_id' \in [Windows -> Ids \cup {None}]
        /\ window_with_id' \in [Ids -> Windows \cup {None}]
        /\ \A i \in Ids, v \in Windows :
              window_with_id'[i] = v <=> v \in Shown' /\ window_id'[v] = i
        /\ \A v \in Windows \ {w} : window_id'[v] = window_id[v]
    BY <1>0, <2>1, SetIdFacts
  <2>3. DataOK' /\ NoStaleWindow'
    BY <1>0, <2>1, <2>2 DEF OpenDir, elseVars, WinInv, DataOK, NoStaleWindow
  <2>4. FreeIsNameless'
    BY <1>0, <2>1, <2>2, DirsAssumption DEF WinInv, DataOK, FreeIsNameless
  <2>5. CountStep
    <3>1. /\ Census \in Nat /\ Census' \in Nat /\ Cardinality(Shown) \in Nat
          /\ Cardinality(panels) \in Nat /\ OtherThings \in Nat
      BY <1>0, <2>3, Finite, FiniteNext DEF WinInv
    <3>2. Census' = Census + 1 - 0
      BY <2>1, <3>1 DEF OpenDir, elseVars, Census, OtherThings
    <3> QED BY <1>0, <1>2, <3>1, <3>2, CountedStep
  <2> QED BY <2>3, <2>4, <2>5 DEF WinInv
<1> QED BY <1>1, <1>2 DEF OpenDir

\* A change of directory, with what was opened before it.
LEMMA ChangeToStep ==
    ASSUME IInv, NEW w \in Shown, NEW d \in Dirs, NEW more \in Nat,
           ChangeTo(w, d, more),
           UNCHANGED <<armed, unique, panels, redo>>,
           others' \in [Kinds -> Nat], OtherThings' = OtherThings + more
    PROVE  WinInv' /\ CountStep
<1> DEFINE now == [path EXCEPT ![w] = d]
<1>1. /\ now \in [Windows -> Dirs \cup {None}]
      /\ \A v \in Windows : now[v] # None <=> path[v] # None
  BY DirsAssumption DEF IInv, WinInv, DataOK, Shown
<1>2. PICK gone \in SUBSET Shown : Destroyed(gone, more, now)
  BY DEF ChangeTo, Showing
<1> HIDE DEF now
<1> QED BY <1>1, <1>2, DestroyedKeeps

LEMMA CloseStep ==
    ASSUME IInv, NEW gone \in SUBSET Shown, NEW more \in Nat,
           Destroyed(gone, more, path),
           UNCHANGED <<armed, unique, panels, redo>>,
           others' \in [Kinds -> Nat], OtherThings' = OtherThings + more
    PROVE  WinInv' /\ CountStep
<1>1. path \in [Windows -> Dirs \cup {None}]
  BY DEF IInv, WinInv, DataOK
<1> QED BY <1>1, DestroyedKeeps

LEMMA OthersSame ==
    ASSUME IInv, others' = others
    PROVE  others' \in [Kinds -> Nat] /\ OtherThings' = OtherThings + 0
<1>1. OtherThings' = OtherThings /\ OtherThings \in Nat
  BY Finite DEF OtherThings, IInv, WinInv
<1> QED BY <1>1 DEF IInv, WinInv, DataOK

LEMMA OthersOpened ==
    ASSUME IInv, NEW kind \in Kinds, Opened(kind)
    PROVE  others' \in [Kinds -> Nat] /\ OtherThings' = OtherThings + 1
<1>1. others' = [others EXCEPT ![kind] = @ + 1] /\ others \in [Kinds -> Nat]
  BY DEF Opened, IInv, WinInv, DataOK
<1>2. others' \in [Kinds -> Nat]
  BY <1>1
<1>3. OtherThings' = OtherThings + 1
  BY <1>1 DEF OtherThings, Kinds
<1> QED BY <1>2, <1>3

LEMMA OthersClosed ==
    ASSUME IInv, NEW kind \in Kinds, others[kind] > 0, Closed(kind)
    PROVE  others' \in [Kinds -> Nat] /\ OtherThings' = OtherThings - 1
<1>1. others' = [others EXCEPT ![kind] = @ - 1] /\ others \in [Kinds -> Nat]
  BY DEF Closed, IInv, WinInv, DataOK
<1>2. others' \in [Kinds -> Nat]
  BY <1>1
<1>3. OtherThings' = OtherThings - 1
  BY <1>1 DEF OtherThings, Kinds
<1> QED BY <1>2, <1>3

LEMMA MayOfferFacts ==
    ASSUME IInv, NEW w, NEW m, NEW more \in 0..1, MayOffer(w, m, more)
    PROVE  others' \in [Kinds -> Nat] /\ OtherThings' = OtherThings + more
<1>1. CASE more = 1 /\ \E kind \in {"prompt", "box"} : Opened(kind)
  <2>1. PICK kind \in Kinds : Opened(kind)
    BY <1>1 DEF Kinds
  <2> QED BY <1>1, <2>1, OthersOpened
<1>2. CASE more = 0 /\ UNCHANGED others
  BY <1>2, OthersSame
<1> QED BY <1>1, <1>2 DEF MayOffer
-----------------------------------------------------------------------------
(* Callbacks that open or close nothing, or not windows                      *)

LEMMA NotCounted ==
    ASSUME IInv, UNCHANGED countVars
    PROVE  Counted(0, 0)
<1>1. number_of_windows \in Nat /\ quit \in BOOLEAN
  BY Finite DEF IInv, WinInv, CountInv, CountIsRight
<1> QED BY <1>1 DEF Counted, countVars

LEMMA PlainSteps ==
    ASSUME IInv, SetUnique \/ Hover
    PROVE  WinInv' /\ CountStep
<1>1. /\ UNCHANGED <<winVars, panels, redo, others, countVars>>
      /\ armed' \in BOOLEAN /\ unique' \in BOOLEAN
  BY DEF SetUnique, Hover, elseVars, IInv, WinInv, DataOK
<1>2. redo' \in [pinboard : BOOLEAN, panels : SUBSET Sides]
  BY <1>1 DEF IInv, WinInv, DataOK
<1>3. others' \in [Kinds -> Nat] /\ OtherThings' = OtherThings + 0 /\ OtherThings \in Nat
  BY <1>1, OthersSame, Finite DEF IInv, WinInv
<1>4. OtherThings' = OtherThings + 0 - 0
  BY <1>3
<1>5. Counted(0, 0)
  BY <1>1, NotCounted
<1> QED BY <1>1, <1>2, <1>3, <1>4, <1>5, OthersOnly

LEMMA FocusStep ==
    ASSUME IInv, NEW w \in Shown, Focus(w)
    PROVE  WinInv' /\ CountStep
<1>1. WinInv' /\ Shown' = Shown
  BY WindowsAlone DEF Focus, elseVars, IInv, WinInv, DataOK
<1>2. Census' = Census /\ Census \in Nat
  BY <1>1, Finite DEF Focus, elseVars, Census, OtherThings, IInv, WinInv
<1>3. UNCHANGED countVars /\ number_of_windows \in Nat /\ quit \in BOOLEAN
  BY <1>2 DEF Focus, IInv, CountInv, CountIsRight
<1> QED BY <1>1, <1>2, <1>3 DEF CountStep, countVars

\* Things that are opened: an offer is not opened here.
LEMMA OpenedStep ==
    ASSUME IInv, NEW kind \in Kinds, Opened(kind), Counted(1, 0),
           UNCHANGED <<winVars, panels, redo, unique>>, armed' \in BOOLEAN
    PROVE  WinInv' /\ CountStep
<1>1. /\ unique' \in BOOLEAN
      /\ redo' \in [pinboard : BOOLEAN, panels : SUBSET Sides]
  BY DEF IInv, WinInv, DataOK
<1>2. others' \in [Kinds -> Nat] /\ OtherThings' = OtherThings + 1 /\ OtherThings \in Nat
  BY OthersOpened, Finite DEF IInv, WinInv
<1>3. OtherThings' = OtherThings + 1 - 0
  BY <1>2
<1> QED BY <1>1, <1>2, <1>3, OthersOnly

LEMMA IdleStep ==
    ASSUME IInv, UNCHANGED <<winVars, panels, redo, unique, others, countVars>>,
           armed' \in BOOLEAN
    PROVE  WinInv' /\ CountStep
<1>1. /\ unique' \in BOOLEAN
      /\ redo' \in [pinboard : BOOLEAN, panels : SUBSET Sides]
  BY DEF IInv, WinInv, DataOK
<1>2. others' \in [Kinds -> Nat] /\ OtherThings' = OtherThings + 0 /\ OtherThings \in Nat
  BY OthersSame, Finite DEF IInv, WinInv
<1>3. OtherThings' = OtherThings + 0 - 0
  BY <1>2
<1>4. Counted(0, 0)
  BY NotCounted
<1> QED BY <1>1, <1>2, <1>3, <1>4, OthersOnly

LEMMA ClosedStep ==
    ASSUME IInv, NEW kind \in Kinds, others[kind] > 0, Closed(kind), Counted(0, 1),
           UNCHANGED <<winVars, panels, redo, unique, armed>>
    PROVE  WinInv' /\ CountStep
<1>1. /\ unique' \in BOOLEAN /\ armed' \in BOOLEAN
      /\ redo' \in [pinboard : BOOLEAN, panels : SUBSET Sides]
  BY DEF IInv, WinInv, DataOK
<1>2. others' \in [Kinds -> Nat] /\ OtherThings' = OtherThings - 1 /\ OtherThings \in Nat
  BY OthersClosed, Finite DEF IInv, WinInv
<1>3. OtherThings' = OtherThings + 0 - 1
  BY <1>2
<1> QED BY <1>1, <1>2, <1>3, OthersOnly

LEMMA BoxSteps ==
    ASSUME IInv, NEW kind \in Kinds, OpenBox(kind) \/ CloseBox(kind)
    PROVE  WinInv' /\ CountStep
<1>0. armed \in BOOLEAN
  BY DEF IInv, WinInv, DataOK
<1>1. CASE CloseBox(kind)
  BY <1>1, ClosedStep DEF CloseBox
<1>2. CASE OpenBox(kind)
  <2>1. UNCHANGED <<winVars, panels, redo, unique>> /\ armed' \in BOOLEAN
    BY <1>0, <1>2 DEF OpenBox
  <2>2. CASE UNCHANGED <<others, countVars>>
    BY <2>1, <2>2, IdleStep
  <2>3. CASE Opened(kind) /\ Counted(1, 0)
    BY <2>1, <2>3, OpenedStep
  <2> QED BY <1>2, <2>2, <2>3 DEF OpenBox
<1> QED BY <1>1, <1>2

LEMMA AnswerStep ==
    ASSUME IInv, NEW unmount \in BOOLEAN, Answer(unmount)
    PROVE  WinInv' /\ CountStep
<1> DEFINE more == IF unmount THEN 1 ELSE 0
<1>1. others \in [Kinds -> Nat] /\ others["prompt"] > 0
  BY DEF IInv, WinInv, DataOK, Answer
<1>2. more \in Nat
  OBVIOUS
<1>3. /\ others' = [others EXCEPT !["prompt"] = @ - 1, !["box"] = @ + more]
      /\ Counted(more, 1)
      /\ UNCHANGED <<winVars, armed, unique, panels, redo>>
  BY DEF Answer
<1> HIDE DEF more
<1>4. others' \in [Kinds -> Nat]
  BY <1>1, <1>2, <1>3 DEF Kinds
<1>5. OtherThings' = OtherThings + more - 1
  BY <1>1, <1>2, <1>3 DEF OtherThings, Kinds
<1>6. /\ armed' \in BOOLEAN /\ unique' \in BOOLEAN
      /\ redo' \in [pinboard : BOOLEAN, panels : SUBSET Sides]
  BY <1>3 DEF IInv, WinInv, DataOK
<1> QED BY <1>2, <1>3, <1>4, <1>5, <1>6, OthersOnly

LEMMA SpringBookmarksStep ==
    ASSUME IInv, SpringBookmarks
    PROVE  WinInv' /\ CountStep
<1>1. UNCHANGED <<winVars, panels, redo, unique>> /\ armed' \in BOOLEAN
  BY DEF SpringBookmarks
<1>2. CASE UNCHANGED <<others, countVars>>
  BY <1>1, <1>2, IdleStep
<1>3. CASE Opened("bookmarks") /\ Counted(1, 0)
  BY <1>1, <1>3, OpenedStep DEF Kinds
<1> QED BY <1>2, <1>3 DEF SpringBookmarks

-----------------------------------------------------------------------------
(* Callbacks that close windows, change their directory or open some         *)

LEMMA NavigateStep ==
    ASSUME IInv, NEW w \in Shown, NEW d \in Dirs, Navigate(w, d)
    PROVE  WinInv' /\ CountStep
<1>1. UNCHANGED <<armed, unique, panels, redo>> /\ others' = others
  BY DEF Navigate, elseVars
<1> QED BY <1>1, OthersSame, ChangeToStep DEF Navigate

LEMMA ClosingSteps ==
    ASSUME IInv,
           \/ \E w \in Shown : CloseAfterRun(w)
           \/ \E d \in Dirs : CloseRecursive(d) \/ CheckMounted(d)
           \/ SpringClose
    PROVE  WinInv' /\ CountStep
<1>1. PICK gone \in SUBSET Shown : Destroyed(gone, 0, path)
  BY ZenonT(40) DEF CloseAfterRun, CloseRecursive, CheckMounted, SpringClose, IInv, WinInv, NoStaleWindow
<1>2. UNCHANGED <<armed, unique, panels, redo>> /\ others' = others
  BY DEF CloseAfterRun, CloseRecursive, CheckMounted, SpringClose, elseVars
<1> QED BY <1>1, <1>2, OthersSame, CloseStep

LEMMA DeleteStep ==
    ASSUME IInv, NEW w \in Shown, Delete(w)
    PROVE  WinInv' /\ CountStep
<1>1. PICK more \in 0..1 :
         /\ IF MountsOver(path[w]) # {}
              THEN MayOffer(w, Innermost(MountsOver(path[w])), more)
              ELSE more = 0 /\ UNCHANGED others
         /\ Destroyed({w}, more, path)
  BY DEF Delete
<1>2. others' \in [Kinds -> Nat] /\ OtherThings' = OtherThings + more
  <2>1. CASE MountsOver(path[w]) # {}
    BY <1>1, <2>1, MayOfferFacts
  <2>2. CASE MountsOver(path[w]) = {}
    BY <1>1, <2>2, OthersSame
  <2> QED BY <2>1, <2>2
<1>3. UNCHANGED <<armed, unique, panels, redo>> /\ more \in Nat /\ {w} \in SUBSET Shown
  BY DEF Delete
<1> QED BY <1>1, <1>2, <1>3, CloseStep

LEMMA ToParentStep ==
    ASSUME IInv, NEW w \in Shown, ToParent(w)
    PROVE  WinInv' /\ CountStep
<1>1. PICK more \in 0..1 :
         /\ IF path[w] \in Mounts
              THEN MayOffer(w, path[w], more)
              ELSE more = 0 /\ UNCHANGED others
         /\ ChangeTo(w, ParentOf[path[w]], more)
  BY DEF ToParent
<1>2. others' \in [Kinds -> Nat] /\ OtherThings' = OtherThings + more
  <2>1. CASE path[w] \in Mounts
    BY <1>1, <2>1, MayOfferFacts
  <2>2. CASE path[w] \notin Mounts
    BY <1>1, <2>2, OthersSame
  <2> QED BY <2>1, <2>2
<1>3. UNCHANGED <<armed, unique, panels, redo>> /\ more \in Nat
  BY DEF ToParent
<1>4. path[w] \in Dirs /\ ParentOf[path[w]] \in Dirs
  BY DirsAssumption DEF Shown, IInv, WinInv, DataOK
<1> QED BY <1>1, <1>2, <1>3, <1>4, ChangeToStep
\* A callback that only takes structures for new windows, one or two.
LEMMA OpenedWindows ==
    ASSUME IInv, NEW n \in Nat,
           path' \in [Windows -> Dirs \cup {None}],
           Shown \subseteq Shown', Cardinality(Shown') = Cardinality(Shown) + n,
           UNCHANGED <<window_id, window_with_id, window_with_focus, elseVars, unique>>,
           pair' \in [{"left", "right"} -> Windows \cup {None}],
           pair'["left"] \in Shown' \cup {None}, pair'["right"] \in Shown' \cup {None},
           spring' \in Shown' \cup {None}, armed' \in BOOLEAN,
           Counted(n, 0)
    PROVE  WinInv' /\ CountStep
<1>0. WinInv /\ CountInv /\ Shown' \subseteq Windows
  BY DEF IInv, Shown
<1>1. DataOK'
  BY <1>0 DEF WinInv, DataOK, elseVars
<1>2. FreeIsNameless'
  BY <1>0 DEF WinInv, DataOK, FreeIsNameless, Shown
<1>3. \A i \in Ids, w \in Windows :
         window_with_id'[i] = w <=> w \in Shown' /\ window_id'[w] = i
  <2> TAKE i \in Ids, w \in Windows
  <2>1. window_with_id[i] = w <=> w \in Shown /\ window_id[w] = i
    BY <1>0 DEF WinInv, NoStaleWindow
  <2>2. w \notin Shown => window_id[w] = None /\ None # i
    BY <1>0, IdsAssumption DEF WinInv, FreeIsNameless, Shown
  <2> QED BY <2>1, <2>2
<1>4. NoStaleWindow'
  BY <1>0, <1>3 DEF WinInv, NoStaleWindow
<1>5. CountStep
  <2>1. /\ Census \in Nat /\ Census' \in Nat /\ Cardinality(Shown) \in Nat
        /\ Cardinality(panels) \in Nat /\ OtherThings \in Nat
    BY <1>0, <1>1, Finite, FiniteNext DEF WinInv
  <2>2. Census' = Census + n - 0
    BY <2>1 DEF Census, OtherThings, elseVars
  <2> QED BY <1>0, <2>1, <2>2, CountedStep
<1> QED BY <1>1, <1>2, <1>4, <1>5 DEF WinInv

LEMMA PairOpenStep ==
    ASSUME IInv, NEW source \in Shown \cup {None}, NEW l \in Dirs, NEW r \in Dirs,
           PairOpen(source, l, r)
    PROVE  WinInv' /\ CountStep
<1>0. WinInv /\ Shown \subseteq Windows /\ armed \in BOOLEAN
      /\ spring \in Shown \cup {None} /\ path \in [Windows -> Dirs \cup {None}]
  BY DEF IInv, WinInv, DataOK, NoStaleWindow, Shown
<1>1. UNCHANGED <<window_id, window_with_id, window_with_focus, spring, armed, unique, elseVars>>
  BY DEF PairOpen
<1>2. CASE source # None /\ path[source] = l
  <2>1. PICK w \in Free : /\ Created(w, r)
                          /\ pair' = [left |-> source, right |-> w]
                          /\ Counted(1, 0)
    BY <1>2 DEF PairOpen
  <2>2. /\ path' \in [Windows -> Dirs \cup {None}]
        /\ Shown' = Shown \cup {w}
        /\ Cardinality(Shown') = Cardinality(Shown) + 1
        /\ w \in Windows
    BY <1>0, <2>1, CreatedFacts
  <2>3. /\ pair' \in [{"left", "right"} -> Windows \cup {None}]
        /\ pair'["left"] = source /\ pair'["right"] = w
    BY <1>0, <2>1, <2>2
  <2> QED BY <1>0, <1>1, <2>1, <2>2, <2>3, OpenedWindows
<1>3. CASE ~(source # None /\ path[source] = l)
  <2>1. PICK v \in Free, w \in Free :
           /\ v # w
           /\ path' = [path EXCEPT ![v] = l, ![w] = r]
           /\ pair' = [left |-> v, right |-> w]
           /\ Counted(2, 0)
    BY <1>3 DEF PairOpen
  <2>2. v \in Windows \ Shown /\ w \in Windows \ Shown
    BY DEF Free
  <2>3. /\ path' \in [Windows -> Dirs \cup {None}]
        /\ Shown' = Shown \cup {v} \cup {w}
    BY <1>0, <2>1, <2>2, DirsAssumption DEF Shown
  <2>4. Cardinality(Shown') = Cardinality(Shown) + 2
    <3>1. IsFiniteSet(Shown) /\ Cardinality(Shown) \in Nat
      BY <1>0, Finite DEF WinInv
    <3>2. /\ IsFiniteSet(Shown \cup {v})
          /\ Cardinality(Shown \cup {v}) = Cardinality(Shown) + 1
      BY <2>2, <3>1, FS_AddElement
    <3>3. Cardinality(Shown \cup {v} \cup {w}) = Cardinality(Shown \cup {v}) + 1
      <4>1. w \notin Shown \cup {v}
        BY <2>1, <2>2
      <4> QED BY <3>2, <4>1, FS_AddElement
    <3> QED BY <2>3, <3>1, <3>2, <3>3
  <2>5. /\ pair' \in [{"left", "right"} -> Windows \cup {None}]
        /\ pair'["left"] = v /\ pair'["right"] = w
    BY <2>1, <2>2
  <2> QED BY <1>0, <1>1, <2>1, <2>3, <2>4, <2>5, OpenedWindows
<1> QED BY <1>2, <1>3

LEMMA SpringNowStep ==
    ASSUME IInv, NEW d \in Dirs, SpringNow(d)
    PROVE  WinInv' /\ CountStep
<1>0. WinInv /\ CountInv /\ Shown \subseteq Windows
      /\ pair \in [{"left", "right"} -> Windows \cup {None}]
      /\ pair["left"] \in Shown \cup {None} /\ pair["right"] \in Shown \cup {None}
      /\ spring \in Shown \cup {None} /\ path \in [Windows -> Dirs \cup {None}]
  BY DEF IInv, WinInv, DataOK, NoStaleWindow, Shown
<1>1. /\ UNCHANGED <<window_id, window_with_id, window_with_focus, pair, unique, elseVars>>
      /\ armed' \in BOOLEAN
  BY DEF SpringNow
<1>2. CASE spring # None
  <2>1. /\ path' = [path EXCEPT ![spring] = d] /\ UNCHANGED <<spring, countVars>>
        /\ spring \in Shown
    BY <1>0, <1>2 DEF SpringNow
  <2>2. path' \in [Windows -> Dirs \cup {None}] /\ Shown' = Shown
    BY <1>0, <2>1, DirsAssumption DEF Shown
  <2>3. Cardinality(Shown') = Cardinality(Shown) + 0
    BY <1>0, <2>2, Finite DEF WinInv
  <2>4. Counted(0, 0)
    BY <2>1, NotCounted
  <2> QED BY <1>0, <1>1, <2>1, <2>2, <2>3, <2>4, OpenedWindows
<1>3. CASE spring = None
  <2>1. PICK w \in Windows : Created(w, d) /\ spring' = w /\ Counted(1, 0)
    BY <1>3 DEF SpringNow
  <2>2. /\ path' \in [Windows -> Dirs \cup {None}]
        /\ Shown' = Shown \cup {w}
        /\ Cardinality(Shown') = Cardinality(Shown) + 1
    BY <1>0, <2>1, CreatedFacts
  <2> QED BY <1>0, <1>1, <2>1, <2>2, OpenedWindows
<1> QED BY <1>2, <1>3

-----------------------------------------------------------------------------
(* Pinboard, panels and desktop                                              *)

LEMMA PanelStep ==
    ASSUME IInv, UNCHANGED <<winVars, armed, unique>>,
           others' \in [Kinds -> Nat], panels' \in SUBSET Sides,
           redo' \in [pinboard : BOOLEAN, panels : SUBSET Sides]
    PROVE  /\ WinInv' /\ Cardinality(Shown') = Cardinality(Shown)
           /\ Cardinality(Shown) \in Nat
           /\ Cardinality(panels) \in Nat /\ Cardinality(panels') \in Nat
           /\ OtherThings \in Nat
           /\ Census \in Nat /\ Census' \in Nat
           /\ number_of_windows \in Nat /\ quit \in BOOLEAN
<1>1. WinInv' /\ Shown' = Shown
  <2>1. /\ window_with_focus' \in Shown \cup {None}
        /\ armed' \in BOOLEAN /\ unique' \in BOOLEAN
    BY DEF IInv, WinInv, DataOK, NoStaleWindow, winVars
  <2> QED BY <2>1, WindowsAlone DEF IInv, winVars
<1>2. /\ Census \in Nat /\ Census' \in Nat /\ Cardinality(panels) \in Nat
      /\ Cardinality(panels') \in Nat /\ OtherThings \in Nat
      /\ Cardinality(Shown) \in Nat
  BY <1>1, Finite, FiniteNext DEF IInv, WinInv
<1>3. number_of_windows \in Nat /\ quit \in BOOLEAN
  BY <1>2 DEF IInv, CountInv, CountIsRight
<1> QED BY <1>1, <1>2, <1>3

LEMMA PinboardSteps ==
    ASSUME IInv, number_of_windows > 0,
           PinboardOn \/ PinboardOff \/ SetBackdrop \/ DesktopStart
    PROVE  WinInv' /\ CountStep
<1>0. /\ others \in [Kinds -> Nat] /\ armed \in BOOLEAN /\ panels \in SUBSET Sides
      /\ redo \in [pinboard : BOOLEAN, panels : SUBSET Sides]
  BY DEF IInv, WinInv, DataOK
<1>1. CASE PinboardOff
  BY <1>1, ClosedStep DEF PinboardOff, Kinds
<1>2. CASE DesktopStart
  BY <1>0, <1>2, OpenedStep DEF DesktopStart, Kinds
<1>3. CASE PinboardOn
  <2>1. others' \in [Kinds -> Nat]
    BY <1>0, <1>3 DEF PinboardOn
  <2>2. OtherThings' = OtherThings + 1 - others["pinboard"] /\ others["pinboard"] \in Nat
    BY <1>0, <1>3 DEF PinboardOn, OtherThings, Kinds
  <2>3. UNCHANGED <<winVars, armed, unique, panels, redo>>
    BY <1>3 DEF PinboardOn
  <2>4. /\ WinInv' /\ Cardinality(Shown') = Cardinality(Shown)
        /\ Cardinality(Shown) \in Nat /\ Cardinality(panels) \in Nat /\ OtherThings \in Nat
        /\ Census \in Nat /\ Census' \in Nat /\ number_of_windows \in Nat /\ quit \in BOOLEAN
    BY <1>0, <2>1, <2>3, PanelStep
  <2>5. Census' = Census + 1 - others["pinboard"]
    BY <2>2, <2>3, <2>4 DEF Census
  <2>6. /\ number_of_windows' = number_of_windows - others["pinboard"] + 1
        /\ quit' = quit
    BY <1>3 DEF PinboardOn
  <2>7. number_of_windows' >= 1
    <3>1. Census >= others["pinboard"]
      BY <1>0, <2>4 DEF Census, OtherThings, Kinds
    <3>2. number_of_windows >= Census
      BY <2>4 DEF IInv, CountInv, CountIsRight
    <3> QED BY <2>2, <2>4, <2>6, <3>1, <3>2
  <2>8. number_of_windows' = number_of_windows + Census' - Census
    BY <2>2, <2>4, <2>5, <2>6
  <2> QED BY <2>4, <2>6, <2>7, <2>8 DEF CountStep
<1>4. CASE SetBackdrop
  <2> DEFINE more == IF others["error"] > 0 THEN 1 ELSE 2
  <2>1. /\ others["pinboard"] = 0 /\ more \in Nat
        /\ others' = [others EXCEPT !["pinboard"] = 1, !["error"] = IF @ > 0 THEN @ ELSE 1]
        /\ Counted(more, 0)
        /\ UNCHANGED <<winVars, armed, unique, panels, redo>>
    BY <1>4 DEF SetBackdrop
  <2>2. others' \in [Kinds -> Nat]
    BY <1>0, <2>1
  <2>3. OtherThings' = OtherThings + more
    BY <1>0, <2>1 DEF OtherThings, Kinds
  <2> HIDE DEF more
  <2>4. /\ armed' \in BOOLEAN /\ unique' \in BOOLEAN
        /\ redo' \in [pinboard : BOOLEAN, panels : SUBSET Sides]
    BY <2>1 DEF IInv, WinInv, DataOK
  <2>5. OtherThings' = OtherThings + more - 0
    BY <2>1, <2>3, Finite DEF IInv, WinInv
  <2> QED BY <2>1, <2>2, <2>4, <2>5, OthersOnly
<1> QED BY <1>1, <1>2, <1>3, <1>4

\* Panels are opened and closed, and nothing else.
LEMMA PanelsOnly ==
    ASSUME IInv, UNCHANGED <<winVars, armed, unique, others>>,
           panels' \in SUBSET Sides,
           redo' \in [pinboard : BOOLEAN, panels : SUBSET Sides]
    PROVE  /\ WinInv'
           /\ Census \in Nat /\ Census' \in Nat
           /\ number_of_windows \in Nat /\ quit \in BOOLEAN
           /\ Cardinality(panels) \in Nat /\ Cardinality(panels') \in Nat
           /\ Census' = Census + Cardinality(panels') - Cardinality(panels)
           /\ Census >= Cardinality(panels) /\ Census' >= Cardinality(panels')
<1>1. others' \in [Kinds -> Nat] /\ OtherThings' = OtherThings + 0
  BY OthersSame
<1>2. /\ WinInv' /\ Cardinality(Shown') = Cardinality(Shown)
      /\ Cardinality(Shown) \in Nat
      /\ Cardinality(panels) \in Nat /\ Cardinality(panels') \in Nat
      /\ OtherThings \in Nat
      /\ Census \in Nat /\ Census' \in Nat
      /\ number_of_windows \in Nat /\ quit \in BOOLEAN
  BY <1>1, PanelStep
<1> QED BY <1>1, <1>2 DEF Census

LEMMA PanelSteps ==
    ASSUME IInv, number_of_windows > 0, NEW side \in Sides, NEW to \in Sides,
           PanelNew(side) \/ PanelGone(side) \/ PanelMove(side, to)
    PROVE  WinInv' /\ CountStep
<1>0. /\ panels \in SUBSET Sides
      /\ redo \in [pinboard : BOOLEAN, panels : SUBSET Sides]
      /\ IsFiniteSet(panels) /\ CountInv
  BY Finite DEF IInv, WinInv, DataOK
<1>1. /\ UNCHANGED <<winVars, armed, unique, others>> /\ panels' \in SUBSET Sides
      /\ redo' \in [pinboard : BOOLEAN, panels : SUBSET Sides]
  BY <1>0 DEF PanelNew, PanelGone, PanelMove
<1>2. /\ WinInv'
      /\ Census \in Nat /\ Census' \in Nat
      /\ number_of_windows \in Nat /\ quit \in BOOLEAN
      /\ Cardinality(panels) \in Nat /\ Cardinality(panels') \in Nat
      /\ Census' = Census + Cardinality(panels') - Cardinality(panels)
      /\ Census >= Cardinality(panels) /\ Census' >= Cardinality(panels')
  BY <1>1, PanelsOnly
<1>3. CASE PanelNew(side)
  <2>1. /\ panels' = panels \cup {side}
        /\ number_of_windows' = number_of_windows + (IF side \in panels THEN 0 ELSE 1)
        /\ quit' = (quit \/ (side \in panels /\ number_of_windows + 1 - 1 < 1))
    BY <1>3 DEF PanelNew
  <2>2. Cardinality(panels') = Cardinality(panels) + (IF side \in panels THEN 0 ELSE 1)
    <3>1. Cardinality(panels') = IF side \in panels THEN Cardinality(panels)
                                 ELSE Cardinality(panels) + 1
      BY <1>0, <2>1, FS_AddElement
    <3> QED BY <1>2, <3>1
  <2>3. number_of_windows' = number_of_windows + Census' - Census /\ number_of_windows' >= 1
    BY <1>2, <2>1, <2>2
  <2>4. quit' <=> quit
    BY <1>2, <2>1
  <2>5. quit' \in BOOLEAN /\ ~(number_of_windows' < 1)
    BY <1>2, <2>1
  <2>6. WinInv' /\ number_of_windows' = number_of_windows + Census' - Census
    BY <1>2, <2>3
  <2> QED BY <2>4, <2>5, <2>6 DEF CountStep
<1>4. CASE PanelGone(side)
  <2>1. side \in panels /\ panels' = panels \ {side} /\ Counted(0, 1)
    BY <1>4 DEF PanelGone
  <2>2. Cardinality(panels') = Cardinality(panels) - 1
    BY <1>0, <2>1, FS_RemoveElement
  <2>3. Census' = Census + 0 - 1
    BY <1>2, <2>2
  <2> QED BY <1>0, <1>2, <2>1, <2>3, CountedStep
<1>5. CASE PanelMove(side, to)
  <2>1. CASE to \in panels
    <3>1. panels' = panels /\ UNCHANGED countVars
      BY <1>5, <2>1 DEF PanelMove
    <3>2. Census' = Census
      BY <1>2, <3>1
    <3> QED BY <1>2, <3>1, <3>2 DEF CountStep, countVars
  <2>2. CASE to \notin panels
    <3>1. /\ side \in panels /\ side # to
          /\ panels' = (panels \ {side}) \cup {to} /\ Counted(1, 1)
      BY <1>5, <2>2 DEF PanelMove
    <3>2. /\ Cardinality(panels \ {side}) = Cardinality(panels) - 1
          /\ IsFiniteSet(panels \ {side})
      BY <1>0, <3>1, FS_RemoveElement
    <3>3. Cardinality(panels') = Cardinality(panels \ {side}) + 1
      BY <2>2, <3>1, <3>2, FS_AddElement
    <3>4. Census' = Census + 1 - 1
      BY <1>2, <3>2, <3>3
    <3> QED BY <1>0, <1>2, <3>1, <3>4, CountedStep
  <2> QED BY <2>1, <2>2
<1> QED BY <1>3, <1>4, <1>5

LEMMA OverrideRedirectStep ==
    ASSUME IInv, OverrideRedirect
    PROVE  WinInv' /\ CountStep
<1>0. /\ others \in [Kinds -> Nat] /\ panels \in SUBSET Sides /\ CountInv
      /\ redo \in [pinboard : BOOLEAN, panels : SUBSET Sides]
  BY DEF IInv, WinInv, DataOK
<1>1. /\ others' = [others EXCEPT !["pinboard"] = 0]
      /\ panels' = {}
      /\ redo' = [pinboard |-> redo.pinboard \/ others["pinboard"] > 0,
                  panels |-> redo.panels \cup panels]
      /\ Counted(0, others["pinboard"] + Cardinality(panels))
      /\ UNCHANGED <<winVars, armed, unique>>
  BY DEF OverrideRedirect
<1>2. /\ others' \in [Kinds -> Nat] /\ panels' \in SUBSET Sides
      /\ redo' \in [pinboard : BOOLEAN, panels : SUBSET Sides]
  BY <1>0, <1>1
<1>3. OtherThings' = OtherThings - others["pinboard"] /\ others["pinboard"] \in Nat
  BY <1>0, <1>1 DEF OtherThings, Kinds
<1>4. /\ WinInv' /\ Cardinality(Shown') = Cardinality(Shown)
      /\ Cardinality(Shown) \in Nat
      /\ Cardinality(panels) \in Nat /\ OtherThings \in Nat
      /\ Census \in Nat /\ Census' \in Nat
  BY <1>1, <1>2, PanelStep
<1>5. Cardinality(panels') = 0
  BY <1>1, FS_EmptySet
<1>6. Census' = Census + 0 - (others["pinboard"] + Cardinality(panels))
  BY <1>3, <1>4, <1>5 DEF Census
<1> QED BY <1>0, <1>1, <1>3, <1>4, <1>6, CountedStep

LEMMA RecreateSteps ==
    ASSUME IInv, RecreatePinboard \/ RecreatePanels
    PROVE  /\ WinInv' /\ Census' >= 1 /\ quit' = quit /\ headless' = FALSE
           /\ number_of_windows' = number_of_windows + Census' - Census
           /\ Census \in Nat /\ Census' \in Nat
<1>0. /\ others \in [Kinds -> Nat] /\ panels \in SUBSET Sides
      /\ redo \in [pinboard : BOOLEAN, panels : SUBSET Sides]
      /\ IsFiniteSet(panels)
  BY Finite DEF IInv, WinInv, DataOK
<1>1. CASE RecreatePinboard
  <2>1. /\ redo' = [redo EXCEPT !.pinboard = FALSE]
        /\ others' = [others EXCEPT !["pinboard"] = 1]
        /\ number_of_windows' = number_of_windows - others["pinboard"] + 1
        /\ quit' = quit /\ headless' = FALSE
        /\ UNCHANGED <<winVars, armed, unique, panels>>
    BY <1>1 DEF RecreatePinboard
  <2>2. /\ others' \in [Kinds -> Nat] /\ panels' \in SUBSET Sides
        /\ redo' \in [pinboard : BOOLEAN, panels : SUBSET Sides]
    BY <1>0, <2>1
  <2>3. /\ OtherThings' = OtherThings + 1 - others["pinboard"] /\ others["pinboard"] \in Nat
        /\ OtherThings' >= 1
    BY <1>0, <2>1 DEF OtherThings, Kinds
  <2>4. /\ WinInv' /\ Cardinality(Shown') = Cardinality(Shown)
        /\ Cardinality(Shown) \in Nat /\ Cardinality(panels) \in Nat /\ OtherThings \in Nat
        /\ Census \in Nat /\ Census' \in Nat /\ number_of_windows \in Nat
    BY <2>1, <2>2, PanelStep
  <2>5. Census' = Census + 1 - others["pinboard"] /\ Census' >= 1
    BY <2>1, <2>3, <2>4 DEF Census
  <2> QED BY <2>1, <2>3, <2>4, <2>5
<1>2. CASE RecreatePanels
  <2>1. /\ redo.panels # {} /\ redo' = [redo EXCEPT !.panels = {}]
        /\ panels' = panels \cup redo.panels
        /\ number_of_windows' = number_of_windows + Cardinality(redo.panels \ panels)
        /\ quit' = quit /\ headless' = FALSE
        /\ UNCHANGED <<winVars, armed, unique, others>>
    BY <1>2 DEF RecreatePanels
  <2>2. /\ panels' \in SUBSET Sides /\ redo.panels \in SUBSET Sides
        /\ redo' \in [pinboard : BOOLEAN, panels : SUBSET Sides]
    BY <1>0, <2>1
  <2>3. /\ WinInv'
        /\ Census \in Nat /\ Census' \in Nat /\ number_of_windows \in Nat
        /\ Cardinality(panels) \in Nat /\ Cardinality(panels') \in Nat
        /\ Census' = Census + Cardinality(panels') - Cardinality(panels)
        /\ Census' >= Cardinality(panels')
    BY <2>1, <2>2, PanelsOnly
  <2>4. /\ Cardinality(panels') = Cardinality(panels) + Cardinality(redo.panels \ panels)
        /\ Cardinality(redo.panels \ panels) \in Nat
        /\ Cardinality(panels') # 0
    <3> DEFINE new == redo.panels \ panels
    <3>1. IsFiniteSet(new) /\ Cardinality(new) \in Nat
      BY <2>2, SidesAssumption, FS_Subset, FS_CardinalityType
    <3>2. panels' = panels \cup new /\ panels \cap new = {}
      BY <2>1
    <3>3. Cardinality(panels') = Cardinality(panels) + Cardinality(new)
                                   - Cardinality(panels \cap new)
      BY <1>0, <3>1, <3>2, FS_Union
    <3>4. Cardinality(panels \cap new) = 0
      BY <3>2, FS_EmptySet
    <3>5. IsFiniteSet(panels') /\ panels' # {}
      BY <2>1, <2>2, SidesAssumption, FS_Subset
    <3>6. Cardinality(panels') # 0
      BY <3>5, FS_EmptySet
    <3> QED BY <2>3, <3>1, <3>3, <3>4, <3>6
  <2> QED BY <2>1, <2>3, <2>4
<1> QED BY <1>1, <1>2
-----------------------------------------------------------------------------
(* The steps of the specification                                            *)

LEMMA CallbackStep ==
    ASSUME IInv, number_of_windows > 0, Callback, ~DesktopDestroyed
    PROVE  WinInv' /\ CountStep /\ headless' = headless
<1>0. \A w \in Shown : path[w] \in Dirs
  BY DEF Shown, IInv, WinInv, DataOK
<1>1. ASSUME NEW w \in Shown,
             \/ Delete(w) \/ ToParent(w) \/ CloseAfterRun(w) \/ Focus(w)
             \/ \E d \in Dirs : Navigate(w, d)
             \/ \E d \in Dirs : PairOpen(w, path[w], d)
      PROVE  WinInv' /\ CountStep /\ headless' = headless
  <2>1. CASE Delete(w)
    BY <2>1, DeleteStep DEF Delete
  <2>2. CASE ToParent(w)
    BY <2>2, ToParentStep DEF ToParent
  <2>3. CASE CloseAfterRun(w)
    BY <2>3, ClosingSteps DEF CloseAfterRun
  <2>4. CASE Focus(w)
    BY <2>4, FocusStep DEF Focus
  <2>5. CASE \E d \in Dirs : Navigate(w, d)
    BY <2>5, NavigateStep DEF Navigate
  <2>6. CASE \E d \in Dirs : PairOpen(w, path[w], d)
    BY <1>0, <2>6, PairOpenStep DEF PairOpen
  <2> QED BY <1>1, <2>1, <2>2, <2>3, <2>4, <2>5, <2>6
<1>2. CASE \E d \in Dirs, tidy \in BOOLEAN : OpenDir(d, tidy, None)
  <2> PICK d \in Dirs, tidy \in BOOLEAN : OpenDir(d, tidy, None)
    BY <1>2
  <2>1. WinInv' /\ CountStep
    BY OpenDirStep
  <2> QED BY <2>1 DEF OpenDir
<1>3. CASE \E d \in Dirs : CloseRecursive(d) \/ CheckMounted(d) \/ SpringNow(d)
  <2>1. CASE \E d \in Dirs : CloseRecursive(d) \/ CheckMounted(d)
    BY <2>1, ClosingSteps DEF CloseRecursive, CheckMounted
  <2>2. CASE \E d \in Dirs : SpringNow(d)
    BY <2>2, SpringNowStep DEF SpringNow
  <2> QED BY <1>3, <2>1, <2>2
<1>4. CASE SetUnique \/ Hover
  BY <1>4, PlainSteps DEF SetUnique, Hover
<1>5. CASE SpringBookmarks
  BY <1>5, SpringBookmarksStep DEF SpringBookmarks
<1>6. CASE SpringClose
  BY <1>6, ClosingSteps DEF SpringClose
<1>7. CASE \E unmount \in BOOLEAN : Answer(unmount)
  BY <1>7, AnswerStep DEF Answer
<1>8. CASE \E kind \in {"box", "error", "bookmarks", "options"} : OpenBox(kind) \/ CloseBox(kind)
  <2> PICK kind \in {"box", "error", "bookmarks", "options"} : OpenBox(kind) \/ CloseBox(kind)
    BY <1>8
  <2>1. kind \in Kinds
    BY DEF Kinds
  <2>2. WinInv' /\ CountStep
    BY <2>1, BoxSteps
  <2> QED BY <2>2 DEF OpenBox, CloseBox
<1>9. CASE PinboardOn \/ PinboardOff \/ SetBackdrop \/ DesktopStart
  BY <1>9, PinboardSteps DEF PinboardOn, PinboardOff, SetBackdrop, DesktopStart
<1>10. CASE \E side \in Sides : PanelNew(side) \/ PanelGone(side)
  BY <1>10, PanelSteps DEF PanelNew, PanelGone
<1>11. CASE \E from, to \in Sides : PanelMove(from, to)
  BY <1>11, PanelSteps DEF PanelMove
<1>12. CASE OverrideRedirect
  BY <1>12, OverrideRedirectStep DEF OverrideRedirect
<1> QED BY <1>1, <1>2, <1>3, <1>4, <1>5, <1>6, <1>7, <1>8, <1>9, <1>10, <1>11, <1>12 DEF Callback

LEMMA RpcStep ==
    ASSUME IInv, number_of_windows > 0, RpcCall
    PROVE  WinInv' /\ CountStep /\ headless' = headless
<1>1. CASE \E d \in Dirs, tidy \in BOOLEAN, id \in Ids \cup {None} : RpcOpenDir(d, tidy, id)
  <2> PICK d \in Dirs, tidy \in BOOLEAN, id \in Ids \cup {None} : RpcOpenDir(d, tidy, id)
    BY <1>1
  <2>1. CASE id # None /\ window_with_id[id] # None
    <3>1. Navigate(window_with_id[id], d) /\ window_with_id[id] \in Shown
      BY <2>1 DEF RpcOpenDir, IInv, WinInv, DataOK, NoStaleWindow
    <3>2. WinInv' /\ CountStep
      BY <3>1, NavigateStep
    <3> QED BY <3>1, <3>2 DEF Navigate
  <2>2. CASE ~(id # None /\ window_with_id[id] # None)
    <3>1. OpenDir(d, tidy, id)
      BY <2>2 DEF RpcOpenDir
    <3>2. WinInv' /\ CountStep
      BY <2>2, <3>1, OpenDirStep
    <3> QED BY <3>1, <3>2 DEF OpenDir
  <2> QED BY <2>1, <2>2
<1>2. CASE \E d \in Dirs : CloseRecursive(d)
  BY <1>2, ClosingSteps DEF CloseRecursive
<1>3. CASE \E source \in PairSources, l, r \in Dirs : PairOpen(source, l, r)
  <2> PICK source \in PairSources, l \in Dirs, r \in Dirs : PairOpen(source, l, r)
    BY <1>3
  <2>1. source \in Shown \cup {None}
    BY DEF PairSources, IInv, WinInv, NoStaleWindow
  <2>2. WinInv' /\ CountStep
    BY <2>1, PairOpenStep
  <2> QED BY <2>2 DEF PairOpen
<1>4. CASE PinboardOn \/ PinboardOff \/ SetBackdrop
  BY <1>4, PinboardSteps DEF PinboardOn, PinboardOff, SetBackdrop
<1>5. CASE \E side \in Sides : PanelNew(side) \/ PanelGone(side)
  BY <1>5, PanelSteps DEF PanelNew, PanelGone
<1>6. CASE OverrideRedirect
  BY <1>6, OverrideRedirectStep DEF OverrideRedirect
<1>7. CASE SetUnique
  BY <1>7, PlainSteps DEF SetUnique
<1>8. CASE \E kind \in {"box", "error"} : OpenBox(kind)
  <2> PICK kind \in {"box", "error"} : OpenBox(kind)
    BY <1>8
  <2>1. kind \in Kinds
    BY DEF Kinds
  <2>2. WinInv' /\ CountStep
    BY <2>1, BoxSteps
  <2> QED BY <2>2 DEF OpenBox
<1> QED BY <1>1, <1>2, <1>3, <1>4, <1>5, <1>6, <1>7, <1>8 DEF RpcCall

\* The count is that of the things open at a callback, and one more in a
\* message.
LEMMA CountFacts ==
    ASSUME IInv
    PROVE  /\ Census \in Nat /\ number_of_windows \in Nat
           /\ calls = 0 => number_of_windows = Census
           /\ calls # 0 => number_of_windows = Census + 1
           /\ calls \in Nat /\ MaxCalls \in Nat
<1>1. Census \in Nat
  BY Finite DEF IInv, WinInv
<1>2. calls \in Nat /\ MaxCalls \in Nat
  BY BoundsAssumption DEF IInv, CountInv
<1> QED BY <1>1, <1>2 DEF IInv, CountInv, CountIsRight

LEMMA InitInv == Init => IInv
<1> SUFFICES ASSUME Init PROVE IInv
  OBVIOUS
<1>1. Shown = {} /\ panels = {}
  BY DEF Init, Shown
<1>2. DataOK
  BY DEF Init, DataOK
<1>3. NoStaleWindow /\ FreeIsNameless
  BY <1>1, WindowsAssumption, IdsAssumption DEF Init, NoStaleWindow, FreeIsNameless
<1>4. Census = 0
  BY <1>1, FS_EmptySet DEF Init, Census, OtherThings, Kinds
<1>5. CountInv
  <2>1. calls \in 0..(MaxCalls + 1) /\ calls > 0
    BY BoundsAssumption DEF Init
  <2>2. quit = FALSE /\ headless = FALSE
    BY DEF Init
  <2>3. CountIsRight
    BY <1>4, <2>1 DEF Init, CountIsRight
  <2>4. calls # 0
    BY <2>1, BoundsAssumption
  <2> QED BY <2>1, <2>2, <2>3, <2>4 DEF CountInv, QuitsWithTheLast
<1> QED BY <1>2, <1>3, <1>5 DEF IInv, WinInv

LEMMA Differences ==
    \A m, n \in Nat : /\ n + 0 = n /\ n + 1 >= 1
                      /\ m + n - m = n /\ (m + 1) + n - m = n + 1
OBVIOUS

\* What a step in the main loop and a step in a message have to show.
LEMMA CountInvLoop ==
    ASSUME calls' = 0, quit' \in BOOLEAN, headless' \in BOOLEAN,
           number_of_windows' = Census', Census' \in Nat,
           quit' <=> Census' = 0 /\ ~headless',
           headless' => Census' = 0
    PROVE  CountInv'
<1>1. calls' \in 0..(MaxCalls + 1) /\ ~(calls' > 0)
  BY BoundsAssumption
<1>2. CountIsRight'
  <2>1. (IF calls' > 0 THEN 1 ELSE 0) = 0
    BY <1>1
  <2>2. Census' + 0 = Census'
    BY Differences
  <2> QED BY <2>1, <2>2 DEF CountIsRight
<1>3. QuitsWithTheLast'
  BY DEF QuitsWithTheLast
<1> QED BY <1>1, <1>2, <1>3 DEF CountInv

LEMMA CountInvSoap ==
    ASSUME calls' \in 1..(MaxCalls + 1), quit' \in BOOLEAN, headless' \in BOOLEAN,
           number_of_windows' = Census' + 1, Census' \in Nat,
           ~quit'
    PROVE  CountInv'
<1>1. calls' \in 0..(MaxCalls + 1) /\ calls' > 0 /\ calls' # 0
  BY BoundsAssumption
<1>2. CountIsRight'
  <2>1. (IF calls' > 0 THEN 1 ELSE 0) = 1
    BY <1>1
  <2> QED BY <2>1 DEF CountIsRight
<1>3. QuitsWithTheLast'
  BY <1>1 DEF QuitsWithTheLast
<1> QED BY <1>1, <1>2, <1>3 DEF CountInv

LEMMA NextInv == IInv /\ [Next]_vars => IInv'
<1> SUFFICES ASSUME IInv, [Next]_vars PROVE IInv'
  OBVIOUS
<1>0. /\ Census \in Nat /\ number_of_windows \in Nat
      /\ calls = 0 => number_of_windows = Census
      /\ calls # 0 => number_of_windows = Census + 1
      /\ calls \in Nat /\ MaxCalls \in Nat
      /\ calls \in 0..(MaxCalls + 1) /\ headless \in BOOLEAN /\ quit \in BOOLEAN
      /\ calls = 0 /\ headless => number_of_windows = 0
  BY CountFacts DEF IInv, CountInv
<1>00. Census \in Nat /\ number_of_windows \in Nat /\ calls \in Nat /\ MaxCalls \in Nat
  BY <1>0
<1>1. CASE /\ ~quit /\ calls = 0 /\ number_of_windows > 0
           /\ Callback /\ ~DesktopDestroyed /\ calls' = calls
  <2>1. WinInv' /\ CountStep /\ headless' = headless
    BY <1>1, CallbackStep
  <2>2. Census' \in Nat
    BY <2>1, FiniteNext DEF WinInv
  <2>3. number_of_windows' = number_of_windows + Census' - Census
    BY <2>1 DEF CountStep
  <2>4. number_of_windows' = Census'
    <3>1. number_of_windows = Census
      BY <1>0, <1>1
    <3>2. Census + Census' - Census = Census'
      BY <1>00, <2>2, Differences
    <3> QED BY <2>3, <3>1, <3>2
  <2>5. headless' = FALSE
    <3>1. number_of_windows # 0
      BY <1>0, <1>1
    <3> QED BY <1>0, <1>1, <2>1, <3>1
  <2>6. quit' \in BOOLEAN
    BY <2>1 DEF CountStep
  <2>7. CASE Census' = 0
    <3>1. number_of_windows' < 1 /\ number_of_windows >= 1
      BY <1>0, <1>1, <2>4, <2>7
    <3>2. quit'
      BY <2>1, <3>1 DEF CountStep
    <3> QED BY <1>1, <2>1, <2>2, <2>4, <2>5, <2>6, <2>7, <3>2, CountInvLoop DEF IInv
  <2>8. CASE Census' # 0
    <3>1. number_of_windows' >= 1
      BY <2>2, <2>4, <2>8
    <3>2. ~quit'
      BY <1>1, <2>1, <3>1 DEF CountStep
    <3> QED BY <1>1, <2>1, <2>2, <2>4, <2>5, <2>6, <2>8, <3>2, CountInvLoop DEF IInv
  <2> QED BY <2>7, <2>8
<1>2. CASE ~quit /\ calls = 0 /\ number_of_windows > 0 /\ DesktopDestroyed /\ calls' = calls
  <2>1. /\ others["desktop"] > 0 /\ Closed("desktop")
        /\ number_of_windows' = number_of_windows - 1
        /\ headless' = (number_of_windows = 1)
        /\ UNCHANGED <<winVars, armed, unique, panels, redo, quit>>
    BY <1>2 DEF DesktopDestroyed
  <2>2. others' \in [Kinds -> Nat] /\ OtherThings' = OtherThings - 1
    BY <2>1, OthersClosed DEF Kinds
  <2>3. /\ WinInv' /\ Cardinality(Shown') = Cardinality(Shown)
        /\ Cardinality(Shown) \in Nat /\ Cardinality(panels) \in Nat
        /\ OtherThings \in Nat /\ Census' \in Nat
    BY <2>1, <2>2, PanelStep DEF IInv, WinInv, DataOK
  <2>4. Census' = Census - 1
    BY <2>1, <2>2, <2>3 DEF Census
  <2>5. /\ number_of_windows' = Census' /\ calls' = 0
        /\ number_of_windows = 1 <=> Census' = 0
    BY <1>0, <1>2, <2>1, <2>3, <2>4
  <2>6. /\ headless' \in BOOLEAN /\ (headless' <=> Census' = 0)
        /\ quit' \in BOOLEAN /\ ~quit'
    BY <1>0, <1>2, <2>1, <2>5
  <2> QED BY <2>3, <2>5, <2>6, CountInvLoop DEF IInv
<1>3. CASE ~quit /\ calls = 0 /\ (RecreatePinboard \/ RecreatePanels) /\ calls' = calls
  <2>1. /\ WinInv' /\ Census' >= 1 /\ quit' = quit /\ headless' = FALSE
        /\ number_of_windows' = number_of_windows + Census' - Census
        /\ Census' \in Nat
    BY <1>3, RecreateSteps
  <2>2. number_of_windows' = Census' /\ Census' # 0 /\ calls' = 0
    <3>0. /\ number_of_windows' = number_of_windows + Census' - Census
          /\ Census' \in Nat /\ Census' >= 1
      BY <2>1
    <3>1. number_of_windows = Census /\ calls' = 0
      BY <1>0, <1>3
    <3>2. Census + Census' - Census = Census'
      BY <1>00, <3>0, Differences
    <3>3. Census' # 0
      BY <3>0
    <3> QED BY <3>0, <3>1, <3>2, <3>3
  <2>3. quit' \in BOOLEAN /\ ~quit'
    BY <1>0, <1>3, <2>1
  <2> QED BY <2>1, <2>2, <2>3, CountInvLoop DEF IInv
<1>4. CASE ~quit /\ calls = 0 /\ BeginSoap
  <2>1. /\ calls' = MaxCalls + 1 /\ number_of_windows' = number_of_windows + 1
        /\ UNCHANGED <<winVars, armed, unique, elseVars, quit, headless>>
    BY <1>4 DEF BeginSoap
  <2>2. WinInv' /\ Census' = Census
    BY <2>1 DEF winVars, elseVars, IInv, WinInv, DataOK, NoStaleWindow, FreeIsNameless,
                Census, OtherThings, Shown
  <2>3. calls' \in 1..(MaxCalls + 1) /\ number_of_windows' = Census' + 1 /\ Census' \in Nat
    BY <1>0, <1>4, <2>1, <2>2, BoundsAssumption
  <2>4. quit' \in BOOLEAN /\ ~quit' /\ headless' \in BOOLEAN
    BY <1>0, <1>4, <2>1
  <2> QED BY <2>2, <2>3, <2>4, CountInvSoap DEF IInv
<1>5. CASE ~quit /\ calls > 1 /\ RpcCall /\ calls' = calls - 1
  <2>0. number_of_windows > 0
    BY <1>0, <1>5
  <2>1. WinInv' /\ CountStep /\ headless' = headless
    BY <1>5, <2>0, RpcStep
  <2>2. Census' \in Nat
    BY <2>1, FiniteNext DEF WinInv
  <2>3. number_of_windows' = number_of_windows + Census' - Census
    BY <2>1 DEF CountStep
  <2>4. /\ number_of_windows' = Census' + 1 /\ number_of_windows' >= 1
        /\ calls' \in 1..(MaxCalls + 1)
    <3>1. number_of_windows = Census + 1 /\ calls' = calls - 1 /\ calls > 1
      BY <1>0, <1>5
    <3>2. (Census + 1) + Census' - Census = Census' + 1
      BY <1>00, <2>2, Differences
    <3>3. number_of_windows' = Census' + 1
      BY <2>3, <3>1, <3>2
    <3>4. Census' + 1 >= 1
      BY <2>2, Differences
    <3>5. calls' \in 1..(MaxCalls + 1)
      <4>1. calls \in 0..(MaxCalls + 1)
        BY <1>0
      <4> QED BY <1>00, <3>1, <4>1
    <3> QED BY <3>3, <3>4, <3>5
  <2>5. quit' \in BOOLEAN /\ ~quit' /\ headless' \in BOOLEAN
    BY <1>0, <1>5, <2>1, <2>4 DEF CountStep
  <2> QED BY <2>1, <2>2, <2>4, <2>5, CountInvSoap DEF IInv
<1>6. CASE ~quit /\ calls > 0 /\ EndSoap
  <2>1. /\ calls' = 0 /\ number_of_windows' = number_of_windows - 1
        /\ quit' = (quit \/ number_of_windows - 1 = 0)
        /\ headless' = FALSE
        /\ UNCHANGED <<winVars, armed, unique, elseVars>>
    BY <1>6 DEF EndSoap
  <2>2. WinInv' /\ Census' = Census
    BY <2>1 DEF winVars, elseVars, IInv, WinInv, DataOK, NoStaleWindow, FreeIsNameless,
                Census, OtherThings, Shown
  <2>3. number_of_windows' = Census' /\ Census' \in Nat
    BY <1>0, <1>6, <2>1, <2>2
  <2>4. quit' \in BOOLEAN /\ (quit' <=> Census' = 0)
    BY <1>0, <1>6, <2>1, <2>3
  <2> QED BY <2>1, <2>2, <2>3, <2>4, CountInvLoop DEF IInv
<1>7. CASE UNCHANGED vars
  <2>1. WinInv' /\ Census' = Census
    BY <1>7 DEF vars, winVars, elseVars, countVars, IInv, WinInv, DataOK, NoStaleWindow,
                FreeIsNameless, Census, OtherThings, Shown
  <2>2. UNCHANGED <<calls, number_of_windows, quit, headless>>
    BY <1>7 DEF vars, countVars
  <2>3. CountInv'
    BY <2>1, <2>2 DEF IInv, CountInv, CountIsRight, QuitsWithTheLast
  <2> QED BY <2>1, <2>3 DEF IInv
<1> QED BY <1>1, <1>2, <1>3, <1>4, <1>5, <1>6, <1>7 DEF Next

-----------------------------------------------------------------------------
(* The theorems                                                              *)

\* The inductive invariant: the pointers and the count, at every step.
THEOREM IInvHolds == Spec => []IInv
<1>1. Init => IInv
  BY InitInv
<1>2. IInv /\ [Next]_vars => IInv'
  BY NextInv
<1> QED BY <1>1, <1>2, PTL DEF Spec

\* Type correctness of the windows, the dialogs, the panels and the count.
THEOREM TypeCorrect == Spec => []TypeOK
<1>1. IInv => TypeOK
  BY CountFacts DEF IInv, WinInv, DataOK, CountInv, TypeOK
<1> QED BY <1>1, IInvHolds, PTL

\* number_of_windows is the number of things open, whatever order the
\* callbacks that open and close them come in.
THEOREM CountHolds == Spec => []CountIsRight
<1>1. IInv => CountIsRight
  BY DEF IInv, CountInv
<1> QED BY <1>1, IInvHolds, PTL

\* The filer quits when the last thing is closed, and not before.
THEOREM QuitHolds == Spec => []QuitsWithTheLast
<1>1. IInv => QuitsWithTheLast
  BY DEF IInv, CountInv
<1> QED BY <1>1, IInvHolds, PTL

\* Focus, pair, names and the window a drag opened lead to windows there are.
THEOREM PointersHold == Spec => []NoStaleWindow
<1>1. IInv => NoStaleWindow
  BY DEF IInv, WinInv
<1> QED BY <1>1, IInvHolds, PTL
=============================================================================
