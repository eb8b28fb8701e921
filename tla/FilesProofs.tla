----------------------------- MODULE FilesProofs ----------------------------
(* Proofs about the Trash and the bulk rename dialog, for any paths, files,  *)
(* processes, names and substitutions.                                       *)
EXTENDS Files, SequenceTheorems, FiniteSetTheorems, WellFoundedInduction, TLAPS

\* What makes NothingLost inductive: between the second look of do_rename()
\* and rename(), only other programs can have filled the new place.
TargetIsFree ==
    main.doing = "checked" =>
        /\ Head(rows).after.path \in Paths
        /\ dir[Head(rows).after.path] \in {None} \cup Dangling \cup Strangers

IInv == TypeOK /\ TargetIsFree /\ NothingLost /\ InOnePlace

-----------------------------------------------------------------------------
(* Lemmas about the list of the dialog.                                      *)

Row == [before: Selection, after: Names]

\* A name that changes something leads to a place.
LEMMA NewNameHasPath ==
    ASSUME NEW row \in Row, Changes(row)
    PROVE  row.after.path \in Paths
BY NamesAssumption DEF Row, Names, Changes, Plain

LEMMA OldNameHasPath ==
    ASSUME NEW row \in Row
    PROVE  <<Here, row.before>> \in Paths
BY NamesAssumption DEF Row

LEMMA RowsFromFunction ==
    ASSUME NEW n \in Nat, NEW list \in [1..n -> Row]
    PROVE  list \in Seq(Row)
OBVIOUS

LEMMA RowsAreFunctions ==
    ASSUME NEW list \in Seq(Row)
    PROVE  /\ Len(list) \in Nat /\ DOMAIN list = 1..Len(list)
           /\ \A j \in DOMAIN list : list[j] \in Row
OBVIOUS

LEMMA FirstRow ==
    ASSUME NEW list \in Seq(Row), list # <<>>
    PROVE  Head(list) \in Row
OBVIOUS

LEMMA RowsLeft ==
    ASSUME NEW list \in Seq(Row), list # <<>>
    PROVE  /\ Tail(list) \in Seq(Row)
           /\ Len(list) # 1 => Tail(list) # <<>>
<1>1. Tail(list) \in Seq(Row) /\ Len(Tail(list)) = Len(list) - 1 /\ Len(list) \in Nat
  OBVIOUS
<1>2. Tail(list) = <<>> => Len(Tail(list)) = 0
  BY <1>1, EmptySeq
<1> QED BY <1>1, <1>2

\* A set of numbers that is not empty has a least one.
LEMMA HasLeast ==
    ASSUME NEW N \in SUBSET Nat, N # {}
    PROVE  \E n \in N : \A m \in N : n <= m
<1>1. \E n \in N : \A m \in N : ~ (<<m, n>> \in OpToRel(<, Nat))
  BY NatLessThanWellFounded, WFMin
<1>2. ASSUME NEW m \in Nat, NEW n \in Nat, m < n
      PROVE  <<m, n>> \in OpToRel(<, Nat)
  BY <1>2, Zenon DEF OpToRel
<1>3. \A n \in N : \A m \in N : m < n => <<m, n>> \in OpToRel(<, Nat)
  BY <1>2
<1>4. \E n \in N : \A m \in N : ~(m < n)
  BY <1>1, <1>3
<1> QED BY <1>4

\* unique_trash_name() finds a free name if there is one.
LEMMA UniqueNameIsFree ==
    ASSUME NEW leaf, FreeSlots(leaf) # {}
    PROVE  UniqueName(leaf) \in FreeSlots(leaf)
<1> DEFINE Numbers == {s[2] : s \in FreeSlots(leaf)}
<1>1. \A s \in FreeSlots(leaf) : s[2] \in Nat
  BY PlacesAssumption DEF FreeSlots, Slots
<1>2. Numbers \in SUBSET Nat /\ Numbers # {}
  BY <1>1
<1>3. PICK n \in Numbers : \A m \in Numbers : n <= m
  <2> HIDE DEF Numbers
  <2> QED BY <1>2, HasLeast
<1>4. \E s \in FreeSlots(leaf) : \A t \in FreeSlots(leaf) : s[2] <= t[2]
  BY <1>3
<1> QED BY <1>4 DEF UniqueName

\* Every step keeps the types.
LEMMA TypeStep ==
    ASSUME TypeOK, [Next]_vars
    PROVE  TypeOK'
<1>1. ASSUME NEW p \in Trashers, NEW path \in Thrown, GioTrash(p, path),
             UNCHANGED bulkVars
      PROVE  TypeOK'
  <2>1. path \in Paths
    BY PlacesAssumption
  <2>2. dir' \in [Paths -> Files \cup {None}]
    BY <1>1, <2>1 DEF GioTrash, TypeOK
  <2>3. dir[path] \in Files
    BY <1>1, <2>1 DEF GioTrash, TypeOK
  <2>4. PICK s \in Slots : /\ trashed' = [trashed EXCEPT ![s] = dir[path]]
                           /\ info' = [info EXCEPT ![s] = path]
    BY <1>1 DEF GioTrash
  <2>5. trashed' \in [Slots -> Files \cup {None}]
    BY <2>3, <2>4 DEF TypeOK
  <2>6. info' \in [Slots -> Paths \cup {None}]
    BY <2>1, <2>4 DEF TypeOK
  <2> QED BY <1>1, <2>2, <2>5, <2>6 DEF GioTrash, TypeOK, bulkVars
<1>2. ASSUME NEW p \in Trashers, NEW path \in Thrown, Choose(p, path),
             UNCHANGED bulkVars
      PROVE  TypeOK'
  BY <1>2, PlacesAssumption, UniqueNameIsFree
  DEF Choose, bulkVars, trashVars, placeVars, TypeOK, Idle, Resting, Rested,
      Working, MayStart, FreeSlots
<1>3. ASSUME NEW p \in Trashers, WriteInfo(p), UNCHANGED bulkVars
      PROVE  TypeOK'
  BY <1>3
  DEF WriteInfo, bulkVars, trashVars, placeVars, TypeOK, Idle, Resting, Rested,
      Working, MayStart
<1>4. ASSUME NEW p \in Trashers, WriteInfoFails(p), UNCHANGED bulkVars
      PROVE  TypeOK'
  BY <1>4
  DEF WriteInfoFails, bulkVars, trashVars, placeVars, TypeOK, Idle, Resting, Rested,
      Working, MayStart
<1>5. ASSUME NEW p \in Trashers, MoveThere(p), UNCHANGED bulkVars
      PROVE  TypeOK'
  BY <1>5
  DEF MoveThere, bulkVars, trashVars, placeVars, TypeOK, Idle, Resting, Rested,
      Working, MayStart
<1>6. ASSUME NEW p \in Trashers, MoveFails(p), UNCHANGED bulkVars
      PROVE  TypeOK'
  BY <1>6
  DEF MoveFails, bulkVars, trashVars, placeVars, TypeOK, Idle, Resting, Rested,
      Working, MayStart
<1>7. ASSUME NEW p \in Trashers, UnlinkInfo(p), UNCHANGED bulkVars
      PROVE  TypeOK'
  BY <1>7
  DEF UnlinkInfo, bulkVars, trashVars, placeVars, TypeOK, Idle, Resting, Rested,
      Working, MayStart
<1>8. ASSUME NEW p \in Trashers, Killed(p), UNCHANGED bulkVars
      PROVE  TypeOK'
  BY <1>8
  DEF Killed, bulkVars, trashVars, placeVars, TypeOK, Idle, Resting, Rested,
      Working, MayStart
<1>9. ASSUME NEW s \in Slots, RestoreRead(s), UNCHANGED bulkVars
      PROVE  TypeOK'
  BY <1>9
  DEF RestoreRead, bulkVars, trashVars, placeVars, TypeOK, Idle, Resting, Rested,
      Working, MayStart
<1>10. ASSUME RestoreMove, UNCHANGED bulkVars
      PROVE  TypeOK'
  BY <1>10
  DEF RestoreMove, bulkVars, trashVars, placeVars, TypeOK, Idle, Resting, Rested,
      Working, MayStart
<1>11. ASSUME RestoreFails, UNCHANGED bulkVars
      PROVE  TypeOK'
  BY <1>11
  DEF RestoreFails, bulkVars, trashVars, placeVars, TypeOK, Idle, Resting, Rested,
      Working, MayStart
<1>12. ASSUME RestoreUnlink, UNCHANGED bulkVars
      PROVE  TypeOK'
  BY <1>12
  DEF RestoreUnlink, bulkVars, trashVars, placeVars, TypeOK, Idle, Resting, Rested,
      Working, MayStart
<1>13. ASSUME AskToEmpty, UNCHANGED bulkVars
      PROVE  TypeOK'
  BY <1>13
  DEF AskToEmpty, bulkVars, trashVars, placeVars, TypeOK, Idle, Resting, Rested,
      Working, MayStart
<1>14. ASSUME NEW accepted \in BOOLEAN, AnswerEmpty(accepted), UNCHANGED bulkVars
      PROVE  TypeOK'
  BY <1>14
  DEF AnswerEmpty, bulkVars, trashVars, placeVars, TypeOK, Idle, Resting, Rested,
      Working, MayStart
<1>15. ASSUME NEW s \in Slots, NEW deleted \in BOOLEAN, EmptyFile(s, deleted),
              UNCHANGED bulkVars
      PROVE  TypeOK'
  BY <1>15
  DEF EmptyFile, bulkVars, trashVars, placeVars, TypeOK, Idle, Resting, Rested,
      Working, MayStart
<1>16. ASSUME FilesEmptied, UNCHANGED bulkVars
      PROVE  TypeOK'
  <2>1. "doing" \in DOMAIN main' /\ main'.doing \in {"empty info", "idle"}
    <3>1. CASE Filled = {}
      <4>1. main' = [doing |-> "empty info", left |-> Informed]
        BY <1>16, <3>1 DEF FilesEmptied
      <4> QED BY <4>1
    <3>2. CASE Filled # {}
      <4>1. main' = [doing |-> "idle"]
        BY <1>16, <3>2 DEF FilesEmptied, Idle
      <4> QED BY <4>1
    <3> QED BY <3>1, <3>2
  <2> QED BY <1>16, <2>1 DEF FilesEmptied, TypeOK, bulkVars, placeVars
<1>17. ASSUME NEW s \in Slots, EmptyInfo(s), UNCHANGED bulkVars
      PROVE  TypeOK'
  BY <1>17
  DEF EmptyInfo, bulkVars, trashVars, placeVars, TypeOK, Idle, Resting, Rested,
      Working, MayStart
<1>18. ASSUME InfoEmptied, UNCHANGED bulkVars
      PROVE  TypeOK'
  BY <1>18
  DEF InfoEmptied, bulkVars, trashVars, placeVars, TypeOK, Idle, Resting, Rested,
      Working, MayStart
<1>19. ASSUME OpenDialog, UNCHANGED trashVars
      PROVE  TypeOK'
  <2>1. Cardinality(Selection) \in Nat
    BY NamesAssumption, FS_CardinalityType
  <2>2. PICK order \in [1..Cardinality(Selection) -> Selection] :
               rows' = [i \in DOMAIN order |->
                          [before |-> order[i], after |-> Plain(order[i])]]
    BY <1>19 DEF OpenDialog
  <2>3. rows' \in [1..Cardinality(Selection) -> Row]
    BY <2>2 DEF Row, Names
  <2>4. rows' \in Seq(Row)
    BY <2>1, <2>3, RowsFromFunction
  <2> QED BY <1>19, <2>4 DEF OpenDialog, TypeOK, Row, Idle, trashVars, placeVars
<1>20. ASSUME NEW i \in DOMAIN rows, NEW name \in NewNames, Edit(i, name),
             UNCHANGED trashVars
      PROVE  TypeOK'
  <2>1. rows \in Seq(Row)
    BY DEF TypeOK, Row
  <2>2. /\ Len(rows) \in Nat /\ DOMAIN rows = 1..Len(rows)
        /\ \A j \in DOMAIN rows : rows[j] \in Row
    BY <2>1, RowsAreFunctions
  <2>3. rows' \in [1..Len(rows) -> Row]
    BY <1>20, <2>2 DEF Edit, Row, Names
  <2>4. rows' \in Seq(Row)
    BY <2>2, <2>3, RowsFromFunction
  <2> QED BY <1>20, <2>4 DEF Edit, TypeOK, Row, Idle, trashVars, placeVars
<1>21. ASSUME NEW subst \in Substitutions, Apply(subst), UNCHANGED trashVars
      PROVE  TypeOK'
  <2>1. rows \in Seq(Row)
    BY DEF TypeOK, Row
  <2>2. /\ Len(rows) \in Nat /\ DOMAIN rows = 1..Len(rows)
        /\ \A j \in DOMAIN rows : rows[j] \in Row
    BY <2>1, RowsAreFunctions
  <2>3. subst \in [Names -> Names]
    BY NamesAssumption
  <2>4. rows' \in [1..Len(rows) -> Row]
    BY <1>21, <2>2, <2>3 DEF Apply, Row
  <2>5. rows' \in Seq(Row)
    BY <2>2, <2>4, RowsFromFunction
  <2> QED BY <1>21, <2>5 DEF Apply, TypeOK, Row, Idle, trashVars, placeVars
<1>22. ASSUME Reset, UNCHANGED trashVars
      PROVE  TypeOK'
  <2>1. rows \in Seq(Row)
    BY DEF TypeOK, Row
  <2>2. /\ Len(rows) \in Nat /\ DOMAIN rows = 1..Len(rows)
        /\ \A j \in DOMAIN rows : rows[j] \in Row
    BY <2>1, RowsAreFunctions
  <2>3. rows' \in [1..Len(rows) -> Row]
    BY <1>22, <2>2 DEF Reset, Row, Names
  <2>4. rows' \in Seq(Row)
    BY <2>2, <2>3, RowsFromFunction
  <2> QED BY <1>22, <2>4 DEF Reset, TypeOK, Row, Idle, trashVars, placeVars
<1>23. ASSUME CloseDialog, UNCHANGED trashVars
      PROVE  TypeOK'
  BY <1>23
  DEF CloseDialog, bulkVars, trashVars, placeVars, TypeOK, Idle, Resting, Rested,
      Working, MayStart
<1>24. ASSUME Press, UNCHANGED trashVars
      PROVE  TypeOK'
  BY <1>24
  DEF Press, bulkVars, trashVars, placeVars, TypeOK, Idle, Resting, Rested, Working,
      MayStart
<1>25. ASSUME NEW accepted \in BOOLEAN, AnswerSlashes(accepted), UNCHANGED trashVars
      PROVE  TypeOK'
  BY <1>25
  DEF AnswerSlashes, bulkVars, trashVars, placeVars, TypeOK, Idle, Resting, Rested,
      Working, MayStart
<1>26. ASSUME KeepName, UNCHANGED trashVars
      PROVE  TypeOK'
  <2>1. rows' \in Seq(Row) /\ (Len(rows) # 1 => rows' # <<>>)
    BY <1>26, RowsLeft DEF KeepName, RowDone, TypeOK, Row
  <2>2. "doing" \in DOMAIN main'
    BY <1>26 DEF KeepName, RowDone, TypeOK, Idle
  <2>3. IF Len(rows) = 1 THEN main'.doing = "idle" ELSE main'.doing = "rename"
    BY <1>26 DEF KeepName, RowDone, TypeOK, Idle
  <2> QED BY <1>26, <2>1, <2>2, <2>3 DEF KeepName, TypeOK, Row, trashVars, placeVars
<1>27. ASSUME CheckAgain, UNCHANGED trashVars
      PROVE  TypeOK'
  <2>1. "doing" \in DOMAIN main' /\ main'.doing \in {"idle", "checked"}
    BY <1>27 DEF CheckAgain, TypeOK, Idle
  <2>2. rows # <<>>
    BY <1>27 DEF CheckAgain, TypeOK
  <2> QED BY <1>27, <2>1, <2>2 DEF CheckAgain, TypeOK, trashVars, placeVars
<1>28. ASSUME RenameRow, UNCHANGED trashVars
      PROVE  TypeOK'
  <2>1. rows' \in Seq(Row) /\ (Len(rows) # 1 => rows' # <<>>)
    BY <1>28, RowsLeft DEF RenameRow, RowDone, TypeOK, Row
  <2>2. "doing" \in DOMAIN main'
    BY <1>28 DEF RenameRow, RowDone, TypeOK, Idle
  <2>3. IF Len(rows) = 1 THEN main'.doing = "idle" ELSE main'.doing = "rename"
    BY <1>28 DEF RenameRow, RowDone, TypeOK, Idle
  <2>4. <<Here, Head(rows).before>> \in Paths
    BY <1>28, FirstRow, OldNameHasPath DEF RenameRow, TypeOK, Row
  <2>5. dir' \in [Paths -> Files \cup {None}]
    BY <1>28, <2>4 DEF RenameRow, Renamed, TypeOK
  <2> QED BY <1>28, <2>1, <2>2, <2>3, <2>5 DEF RenameRow, TypeOK, Row, trashVars
<1>29. ASSUME RenameFails, UNCHANGED trashVars
      PROVE  TypeOK'
  BY <1>29
  DEF RenameFails, bulkVars, trashVars, placeVars, TypeOK, Idle, Resting, Rested,
      Working, MayStart
<1>30. ASSUME NEW p \in Paths, Vanish(p), UNCHANGED <<trashVars, bulkVars>>
      PROVE  TypeOK'
  BY <1>30
  DEF Vanish, bulkVars, trashVars, placeVars, TypeOK, Idle, Resting, Rested,
      Working, MayStart
<1>31. ASSUME NEW p \in Paths, NEW f \in Strangers, Appear(p, f), UNCHANGED
              <<trashVars, bulkVars>>
      PROVE  TypeOK'
  BY <1>31, PlacesAssumption
  DEF Appear, bulkVars, trashVars, placeVars, TypeOK, Idle, Resting, Rested,
      Working, MayStart
<1>32. CASE UNCHANGED vars
  BY <1>32
  DEF vars, bulkVars, trashVars, placeVars, TypeOK, Idle, Resting, Rested, Working,
      MayStart
<1> QED
  BY <1>1, <1>2, <1>3, <1>4, <1>5, <1>6, <1>7, <1>8, <1>9, <1>10, <1>11, <1>12,
     <1>13, <1>14, <1>15, <1>16, <1>17, <1>18, <1>19, <1>20, <1>21, <1>22, <1>23,
     <1>24, <1>25, <1>26, <1>27, <1>28, <1>29, <1>30, <1>31, <1>32
  DEF Next, TrashNext, BulkNext

\* Every step leaves the new place free or to another program.
LEMMA TargetStep ==
    ASSUME TypeOK, TargetIsFree, [Next]_vars
    PROVE  TargetIsFree'
<1>1. ASSUME NEW p \in Trashers, NEW path \in Thrown, GioTrash(p, path),
             UNCHANGED bulkVars
      PROVE  TargetIsFree'
  BY <1>1
  DEF GioTrash, bulkVars, trashVars, placeVars, TargetIsFree, TypeOK, Idle, Rested,
      Working, MayStart
<1>2. ASSUME NEW p \in Trashers, NEW path \in Thrown, Choose(p, path),
             UNCHANGED bulkVars
      PROVE  TargetIsFree'
  BY <1>2
  DEF Choose, bulkVars, trashVars, placeVars, TargetIsFree, TypeOK, Idle, Rested,
      Working, MayStart
<1>3. ASSUME NEW p \in Trashers, WriteInfo(p), UNCHANGED bulkVars
      PROVE  TargetIsFree'
  BY <1>3
  DEF WriteInfo, bulkVars, trashVars, placeVars, TargetIsFree, TypeOK, Idle, Rested,
      Working, MayStart
<1>4. ASSUME NEW p \in Trashers, WriteInfoFails(p), UNCHANGED bulkVars
      PROVE  TargetIsFree'
  BY <1>4
  DEF WriteInfoFails, bulkVars, trashVars, placeVars, TargetIsFree, TypeOK, Idle,
      Rested, Working, MayStart
<1>5. ASSUME NEW p \in Trashers, MoveThere(p), UNCHANGED bulkVars
      PROVE  TargetIsFree'
  BY <1>5
  DEF MoveThere, bulkVars, trashVars, placeVars, TargetIsFree, TypeOK, Idle, Rested,
      Working, MayStart
<1>6. ASSUME NEW p \in Trashers, MoveFails(p), UNCHANGED bulkVars
      PROVE  TargetIsFree'
  BY <1>6
  DEF MoveFails, bulkVars, trashVars, placeVars, TargetIsFree, TypeOK, Idle, Rested,
      Working, MayStart
<1>7. ASSUME NEW p \in Trashers, UnlinkInfo(p), UNCHANGED bulkVars
      PROVE  TargetIsFree'
  BY <1>7
  DEF UnlinkInfo, bulkVars, trashVars, placeVars, TargetIsFree, TypeOK, Idle,
      Rested, Working, MayStart
<1>8. ASSUME NEW p \in Trashers, Killed(p), UNCHANGED bulkVars
      PROVE  TargetIsFree'
  BY <1>8
  DEF Killed, bulkVars, trashVars, placeVars, TargetIsFree, TypeOK, Idle, Rested,
      Working, MayStart
<1>9. ASSUME NEW s \in Slots, RestoreRead(s), UNCHANGED bulkVars
      PROVE  TargetIsFree'
  BY <1>9
  DEF RestoreRead, bulkVars, trashVars, placeVars, TargetIsFree, TypeOK, Idle,
      Rested, Working, MayStart
<1>10. ASSUME RestoreMove, UNCHANGED bulkVars
      PROVE  TargetIsFree'
  BY <1>10
  DEF RestoreMove, bulkVars, trashVars, placeVars, TargetIsFree, TypeOK, Idle,
      Rested, Working, MayStart
<1>11. ASSUME RestoreFails, UNCHANGED bulkVars
      PROVE  TargetIsFree'
  BY <1>11
  DEF RestoreFails, bulkVars, trashVars, placeVars, TargetIsFree, TypeOK, Idle,
      Rested, Working, MayStart
<1>12. ASSUME RestoreUnlink, UNCHANGED bulkVars
      PROVE  TargetIsFree'
  BY <1>12
  DEF RestoreUnlink, bulkVars, trashVars, placeVars, TargetIsFree, TypeOK, Idle,
      Rested, Working, MayStart
<1>13. ASSUME AskToEmpty, UNCHANGED bulkVars
      PROVE  TargetIsFree'
  BY <1>13
  DEF AskToEmpty, bulkVars, trashVars, placeVars, TargetIsFree, TypeOK, Idle,
      Rested, Working, MayStart
<1>14. ASSUME NEW accepted \in BOOLEAN, AnswerEmpty(accepted), UNCHANGED bulkVars
      PROVE  TargetIsFree'
  BY <1>14
  DEF AnswerEmpty, bulkVars, trashVars, placeVars, TargetIsFree, TypeOK, Idle,
      Rested, Working, MayStart
<1>15. ASSUME NEW s \in Slots, NEW deleted \in BOOLEAN, EmptyFile(s, deleted),
              UNCHANGED bulkVars
      PROVE  TargetIsFree'
  BY <1>15
  DEF EmptyFile, bulkVars, trashVars, placeVars, TargetIsFree, TypeOK, Idle, Rested,
      Working, MayStart
<1>16. ASSUME FilesEmptied, UNCHANGED bulkVars
      PROVE  TargetIsFree'
  <2>1. main'.doing # "checked"
    <3>1. CASE Filled = {}
      <4>1. main' = [doing |-> "empty info", left |-> Informed]
        BY <1>16, <3>1 DEF FilesEmptied
      <4> QED BY <4>1
    <3>2. CASE Filled # {}
      <4>1. main' = [doing |-> "idle"]
        BY <1>16, <3>2 DEF FilesEmptied, Idle
      <4> QED BY <4>1
    <3> QED BY <3>1, <3>2
  <2> QED BY <2>1 DEF TargetIsFree
<1>17. ASSUME NEW s \in Slots, EmptyInfo(s), UNCHANGED bulkVars
      PROVE  TargetIsFree'
  BY <1>17
  DEF EmptyInfo, bulkVars, trashVars, placeVars, TargetIsFree, TypeOK, Idle, Rested,
      Working, MayStart
<1>18. ASSUME InfoEmptied, UNCHANGED bulkVars
      PROVE  TargetIsFree'
  BY <1>18
  DEF InfoEmptied, bulkVars, trashVars, placeVars, TargetIsFree, TypeOK, Idle,
      Rested, Working, MayStart
<1>19. ASSUME OpenDialog, UNCHANGED trashVars
      PROVE  TargetIsFree'
  BY <1>19
  DEF OpenDialog, bulkVars, trashVars, placeVars, TargetIsFree, TypeOK, Idle,
      Rested, Working, MayStart
<1>20. ASSUME NEW i \in DOMAIN rows, NEW name \in NewNames, Edit(i, name),
             UNCHANGED trashVars
      PROVE  TargetIsFree'
  BY <1>20
  DEF Edit, bulkVars, trashVars, placeVars, TargetIsFree, TypeOK, Idle, Rested,
      Working, MayStart
<1>21. ASSUME NEW subst \in Substitutions, Apply(subst), UNCHANGED trashVars
      PROVE  TargetIsFree'
  BY <1>21
  DEF Apply, bulkVars, trashVars, placeVars, TargetIsFree, TypeOK, Idle, Rested,
      Working, MayStart
<1>22. ASSUME Reset, UNCHANGED trashVars
      PROVE  TargetIsFree'
  BY <1>22
  DEF Reset, bulkVars, trashVars, placeVars, TargetIsFree, TypeOK, Idle, Rested,
      Working, MayStart
<1>23. ASSUME CloseDialog, UNCHANGED trashVars
      PROVE  TargetIsFree'
  BY <1>23
  DEF CloseDialog, bulkVars, trashVars, placeVars, TargetIsFree, TypeOK, Idle,
      Rested, Working, MayStart
<1>24. ASSUME Press, UNCHANGED trashVars
      PROVE  TargetIsFree'
  BY <1>24
  DEF Press, bulkVars, trashVars, placeVars, TargetIsFree, TypeOK, Idle, Rested,
      Working, MayStart
<1>25. ASSUME NEW accepted \in BOOLEAN, AnswerSlashes(accepted), UNCHANGED trashVars
      PROVE  TargetIsFree'
  BY <1>25
  DEF AnswerSlashes, bulkVars, trashVars, placeVars, TargetIsFree, TypeOK, Idle,
      Rested, Working, MayStart
<1>26. ASSUME KeepName, UNCHANGED trashVars
      PROVE  TargetIsFree'
  BY <1>26
  DEF KeepName, bulkVars, trashVars, placeVars, TargetIsFree, TypeOK, Idle, Rested,
      Working, MayStart, RowDone
<1>27. ASSUME CheckAgain, UNCHANGED trashVars
      PROVE  TargetIsFree'
  <2>1. CASE Exists(dir[Head(rows).after.path])
    BY <1>27, <2>1 DEF CheckAgain, TargetIsFree, Idle
  <2>2. CASE ~Exists(dir[Head(rows).after.path])
    <3>1. Head(rows) \in Row
      BY <1>27, FirstRow DEF CheckAgain, TypeOK, Row
    <3>2. Head(rows).after.path \in Paths
      BY <1>27, <3>1, NewNameHasPath DEF CheckAgain
    <3>3. rows' = rows /\ dir' = dir
      BY <1>27 DEF CheckAgain, placeVars
    <3> QED BY <2>2, <3>2, <3>3 DEF TargetIsFree, Exists
  <2> QED BY <2>1, <2>2
<1>28. ASSUME RenameRow, UNCHANGED trashVars
      PROVE  TargetIsFree'
  BY <1>28
  DEF RenameRow, bulkVars, trashVars, placeVars, TargetIsFree, TypeOK, Idle, Rested,
      Working, MayStart, RowDone
<1>29. ASSUME RenameFails, UNCHANGED trashVars
      PROVE  TargetIsFree'
  BY <1>29
  DEF RenameFails, bulkVars, trashVars, placeVars, TargetIsFree, TypeOK, Idle,
      Rested, Working, MayStart
<1>30. ASSUME NEW p \in Paths, Vanish(p), UNCHANGED <<trashVars, bulkVars>>
      PROVE  TargetIsFree'
  BY <1>30
  DEF Vanish, bulkVars, trashVars, placeVars, TargetIsFree, TypeOK, Idle, Rested,
      Working, MayStart
<1>31. ASSUME NEW p \in Paths, NEW f \in Strangers, Appear(p, f), UNCHANGED
              <<trashVars, bulkVars>>
      PROVE  TargetIsFree'
  BY <1>31
  DEF Appear, bulkVars, trashVars, placeVars, TargetIsFree, TypeOK, Idle, Rested,
      Working, MayStart
<1>32. CASE UNCHANGED vars
  BY <1>32
  DEF vars, bulkVars, trashVars, placeVars, TargetIsFree, TypeOK, Idle, Rested,
      Working, MayStart
<1> QED
  BY <1>1, <1>2, <1>3, <1>4, <1>5, <1>6, <1>7, <1>8, <1>9, <1>10, <1>11, <1>12,
     <1>13, <1>14, <1>15, <1>16, <1>17, <1>18, <1>19, <1>20, <1>21, <1>22, <1>23,
     <1>24, <1>25, <1>26, <1>27, <1>28, <1>29, <1>30, <1>31, <1>32
  DEF Next, TrashNext, BulkNext

\* Every step loses nothing.
LEMMA NothingLostStep ==
    ASSUME TypeOK, TargetIsFree, NothingLost, [Next]_vars
    PROVE  NothingLost'
<1>1. ASSUME NEW p \in Trashers, NEW path \in Thrown, GioTrash(p, path),
             UNCHANGED bulkVars
      PROVE  NothingLost'
  <2>1. path \in Paths
    BY PlacesAssumption
  <2>2. PICK s \in Slots : /\ trashed[s] = None
                           /\ trashed' = [trashed EXCEPT ![s] = dir[path]]
    BY <1>1 DEF GioTrash
  <2>3. dir' = [dir EXCEPT ![path] = None] /\ gone' = gone
    BY <1>1 DEF GioTrash
  <2>4. None \notin Files
    BY PlacesAssumption
  <2>5. ASSUME NEW f \in Files, Present(f)
        PROVE  Present(f)'
    <3>1. CASE \E q \in Paths : dir[q] = f
      BY <2>1, <2>2, <2>3, <3>1 DEF Present, TypeOK
    <3>2. CASE \E r \in Slots : trashed[r] = f
      BY <2>2, <2>4, <3>2 DEF Present, TypeOK
    <3> QED BY <2>5, <3>1, <3>2 DEF Present
  <2> QED BY <2>3, <2>5 DEF NothingLost
<1>2. ASSUME NEW p \in Trashers, NEW path \in Thrown, Choose(p, path),
             UNCHANGED bulkVars
      PROVE  NothingLost'
  BY <1>2 DEF Choose, bulkVars, trashVars, placeVars, NothingLost, Present, TypeOK
<1>3. ASSUME NEW p \in Trashers, WriteInfo(p), UNCHANGED bulkVars
      PROVE  NothingLost'
  BY <1>3
  DEF WriteInfo, bulkVars, trashVars, placeVars, NothingLost, Present, TypeOK
<1>4. ASSUME NEW p \in Trashers, WriteInfoFails(p), UNCHANGED bulkVars
      PROVE  NothingLost'
  BY <1>4
  DEF WriteInfoFails, bulkVars, trashVars, placeVars, NothingLost, Present, TypeOK
<1>5. ASSUME NEW p \in Trashers, MoveThere(p), UNCHANGED bulkVars
      PROVE  NothingLost'
  <2> DEFINE path == task[p].path  s == task[p].slot
  <2>1. path \in Paths /\ s \in Slots /\ trashed[s] = None
    BY <1>5 DEF MoveThere, CanMove, TypeOK
  <2>2. /\ trashed' = [trashed EXCEPT ![s] = dir[path]]
        /\ dir' = [dir EXCEPT ![path] = None] /\ gone' = gone
    BY <1>5 DEF MoveThere
  <2>3. None \notin Files
    BY PlacesAssumption
  <2> HIDE DEF path, s
  <2>4. ASSUME NEW f \in Files, Present(f)
        PROVE  Present(f)'
    <3>1. CASE \E q \in Paths : dir[q] = f
      BY <2>1, <2>2, <3>1 DEF Present, TypeOK
    <3>2. CASE \E r \in Slots : trashed[r] = f
      BY <2>1, <2>2, <2>3, <3>2 DEF Present, TypeOK
    <3> QED BY <2>4, <3>1, <3>2 DEF Present
  <2> QED BY <2>2, <2>4 DEF NothingLost
<1>6. ASSUME NEW p \in Trashers, MoveFails(p), UNCHANGED bulkVars
      PROVE  NothingLost'
  BY <1>6
  DEF MoveFails, bulkVars, trashVars, placeVars, NothingLost, Present, TypeOK
<1>7. ASSUME NEW p \in Trashers, UnlinkInfo(p), UNCHANGED bulkVars
      PROVE  NothingLost'
  BY <1>7
  DEF UnlinkInfo, bulkVars, trashVars, placeVars, NothingLost, Present, TypeOK
<1>8. ASSUME NEW p \in Trashers, Killed(p), UNCHANGED bulkVars
      PROVE  NothingLost'
  BY <1>8 DEF Killed, bulkVars, trashVars, placeVars, NothingLost, Present, TypeOK
<1>9. ASSUME NEW s \in Slots, RestoreRead(s), UNCHANGED bulkVars
      PROVE  NothingLost'
  BY <1>9
  DEF RestoreRead, bulkVars, trashVars, placeVars, NothingLost, Present, TypeOK
<1>10. ASSUME RestoreMove, UNCHANGED bulkVars
      PROVE  NothingLost'
  BY <1>10
  DEF RestoreMove, bulkVars, trashVars, placeVars, NothingLost, Present, TypeOK
<1>11. ASSUME RestoreFails, UNCHANGED bulkVars
      PROVE  NothingLost'
  BY <1>11
  DEF RestoreFails, bulkVars, trashVars, placeVars, NothingLost, Present, TypeOK
<1>12. ASSUME RestoreUnlink, UNCHANGED bulkVars
      PROVE  NothingLost'
  BY <1>12
  DEF RestoreUnlink, bulkVars, trashVars, placeVars, NothingLost, Present, TypeOK
<1>13. ASSUME AskToEmpty, UNCHANGED bulkVars
      PROVE  NothingLost'
  BY <1>13
  DEF AskToEmpty, bulkVars, trashVars, placeVars, NothingLost, Present, TypeOK
<1>14. ASSUME NEW accepted \in BOOLEAN, AnswerEmpty(accepted), UNCHANGED bulkVars
      PROVE  NothingLost'
  BY <1>14
  DEF AnswerEmpty, bulkVars, trashVars, placeVars, NothingLost, Present, TypeOK
<1>15. ASSUME NEW s \in Slots, NEW deleted \in BOOLEAN, EmptyFile(s, deleted),
              UNCHANGED bulkVars
      PROVE  NothingLost'
  BY <1>15
  DEF EmptyFile, bulkVars, trashVars, placeVars, NothingLost, Present, TypeOK
<1>16. ASSUME FilesEmptied, UNCHANGED bulkVars
      PROVE  NothingLost'
  BY <1>16
  DEF FilesEmptied, bulkVars, trashVars, placeVars, NothingLost, Present, TypeOK
<1>17. ASSUME NEW s \in Slots, EmptyInfo(s), UNCHANGED bulkVars
      PROVE  NothingLost'
  BY <1>17
  DEF EmptyInfo, bulkVars, trashVars, placeVars, NothingLost, Present, TypeOK
<1>18. ASSUME InfoEmptied, UNCHANGED bulkVars
      PROVE  NothingLost'
  BY <1>18
  DEF InfoEmptied, bulkVars, trashVars, placeVars, NothingLost, Present, TypeOK
<1>19. ASSUME OpenDialog, UNCHANGED trashVars
      PROVE  NothingLost'
  BY <1>19
  DEF OpenDialog, bulkVars, trashVars, placeVars, NothingLost, Present, TypeOK
<1>20. ASSUME NEW i \in DOMAIN rows, NEW name \in NewNames, Edit(i, name),
             UNCHANGED trashVars
      PROVE  NothingLost'
  BY <1>20 DEF Edit, bulkVars, trashVars, placeVars, NothingLost, Present, TypeOK
<1>21. ASSUME NEW subst \in Substitutions, Apply(subst), UNCHANGED trashVars
      PROVE  NothingLost'
  BY <1>21 DEF Apply, bulkVars, trashVars, placeVars, NothingLost, Present, TypeOK
<1>22. ASSUME Reset, UNCHANGED trashVars
      PROVE  NothingLost'
  BY <1>22 DEF Reset, bulkVars, trashVars, placeVars, NothingLost, Present, TypeOK
<1>23. ASSUME CloseDialog, UNCHANGED trashVars
      PROVE  NothingLost'
  BY <1>23
  DEF CloseDialog, bulkVars, trashVars, placeVars, NothingLost, Present, TypeOK
<1>24. ASSUME Press, UNCHANGED trashVars
      PROVE  NothingLost'
  BY <1>24 DEF Press, bulkVars, trashVars, placeVars, NothingLost, Present, TypeOK
<1>25. ASSUME NEW accepted \in BOOLEAN, AnswerSlashes(accepted), UNCHANGED trashVars
      PROVE  NothingLost'
  BY <1>25
  DEF AnswerSlashes, bulkVars, trashVars, placeVars, NothingLost, Present, TypeOK
<1>26. ASSUME KeepName, UNCHANGED trashVars
      PROVE  NothingLost'
  BY <1>26
  DEF KeepName, bulkVars, trashVars, placeVars, NothingLost, Present, TypeOK
<1>27. ASSUME CheckAgain, UNCHANGED trashVars
      PROVE  NothingLost'
  BY <1>27
  DEF CheckAgain, bulkVars, trashVars, placeVars, NothingLost, Present, TypeOK
<1>28. ASSUME RenameRow, UNCHANGED trashVars
      PROVE  NothingLost'
  <2> DEFINE from == <<Here, Head(rows).before>>  to == Head(rows).after.path
  <2>1. from \in Paths /\ dir[from] # None
    BY <1>28, FirstRow, OldNameHasPath DEF RenameRow, TypeOK, Row
  <2>2. to \in Paths /\ dir[to] \in {None} \cup Dangling \cup Strangers
    BY <1>28 DEF RenameRow, TargetIsFree
  <2>3. /\ IF from = to THEN dir' = dir ELSE Renamed(from, to)
        /\ trashed' = trashed /\ gone' = gone
    BY <1>28 DEF RenameRow
  <2>4. None \notin Files
    BY PlacesAssumption
  <2> HIDE DEF from, to
  <2>5. ASSUME NEW f \in Files \ Strangers, Present(f), f \notin Dangling
        PROVE  Present(f)'
    <3>1. CASE \E q \in Paths : dir[q] = f
      <4>1. PICK q \in Paths : dir[q] = f
        BY <3>1
      <4>2. CASE from = to
        BY <2>3, <4>1, <4>2 DEF Present
      <4>3. CASE from # to
        <5>1. dir' = [dir EXCEPT ![from] = None, ![to] = dir[from]]
          BY <2>3, <4>3 DEF Renamed
        <5>2. q # to
          BY <2>2, <2>4, <2>5, <4>1
        <5> QED BY <2>1, <2>2, <4>1, <5>1, <5>2 DEF Present, TypeOK
      <4> QED BY <4>2, <4>3
    <3>2. CASE \E r \in Slots : trashed[r] = f
      BY <2>3, <3>2 DEF Present
    <3> QED BY <2>5, <3>1, <3>2 DEF Present
  <2> QED BY <2>3, <2>5 DEF NothingLost
<1>29. ASSUME RenameFails, UNCHANGED trashVars
      PROVE  NothingLost'
  BY <1>29
  DEF RenameFails, bulkVars, trashVars, placeVars, NothingLost, Present, TypeOK
<1>30. ASSUME NEW p \in Paths, Vanish(p), UNCHANGED <<trashVars, bulkVars>>
      PROVE  NothingLost'
  BY <1>30 DEF Vanish, bulkVars, trashVars, placeVars, NothingLost, Present, TypeOK
<1>31. ASSUME NEW p \in Paths, NEW f \in Strangers, Appear(p, f), UNCHANGED
              <<trashVars, bulkVars>>
      PROVE  NothingLost'
  <2>1. ASSUME NEW g \in Files, Present(g)
        PROVE  Present(g)'
    BY <1>31, <2>1, PlacesAssumption DEF Appear, Present, TypeOK
  <2> QED BY <1>31, <2>1 DEF Appear, NothingLost
<1>32. CASE UNCHANGED vars
  BY <1>32 DEF vars, bulkVars, trashVars, placeVars, NothingLost, Present, TypeOK
<1> QED
  BY <1>1, <1>2, <1>3, <1>4, <1>5, <1>6, <1>7, <1>8, <1>9, <1>10, <1>11, <1>12,
     <1>13, <1>14, <1>15, <1>16, <1>17, <1>18, <1>19, <1>20, <1>21, <1>22, <1>23,
     <1>24, <1>25, <1>26, <1>27, <1>28, <1>29, <1>30, <1>31, <1>32
  DEF Next, TrashNext, BulkNext

\* No step puts a file in two places.
LEMMA InOnePlaceStep ==
    ASSUME TypeOK, TargetIsFree, InOnePlace, [Next]_vars
    PROVE  InOnePlace'
<1>1. ASSUME NEW p \in Trashers, NEW path \in Thrown, GioTrash(p, path),
             UNCHANGED bulkVars
      PROVE  InOnePlace'
  <2>1. path \in Paths
    BY PlacesAssumption
  <2>2. PICK s \in Slots : trashed' = [trashed EXCEPT ![s] = dir[path]]
    BY <1>1 DEF GioTrash
  <2>3. dir' = [dir EXCEPT ![path] = None] /\ dir[path] # None
    BY <1>1 DEF GioTrash
  <2> QED BY <2>1, <2>2, <2>3 DEF InOnePlace, TypeOK
<1>2. ASSUME NEW p \in Trashers, NEW path \in Thrown, Choose(p, path),
             UNCHANGED bulkVars
      PROVE  InOnePlace'
  BY <1>2 DEF Choose, bulkVars, trashVars, placeVars, InOnePlace, TypeOK
<1>3. ASSUME NEW p \in Trashers, WriteInfo(p), UNCHANGED bulkVars
      PROVE  InOnePlace'
  BY <1>3 DEF WriteInfo, bulkVars, trashVars, placeVars, InOnePlace, TypeOK
<1>4. ASSUME NEW p \in Trashers, WriteInfoFails(p), UNCHANGED bulkVars
      PROVE  InOnePlace'
  BY <1>4 DEF WriteInfoFails, bulkVars, trashVars, placeVars, InOnePlace, TypeOK
<1>5. ASSUME NEW p \in Trashers, MoveThere(p), UNCHANGED bulkVars
      PROVE  InOnePlace'
  BY <1>5 DEF MoveThere, bulkVars, trashVars, placeVars, InOnePlace, TypeOK
<1>6. ASSUME NEW p \in Trashers, MoveFails(p), UNCHANGED bulkVars
      PROVE  InOnePlace'
  BY <1>6 DEF MoveFails, bulkVars, trashVars, placeVars, InOnePlace, TypeOK
<1>7. ASSUME NEW p \in Trashers, UnlinkInfo(p), UNCHANGED bulkVars
      PROVE  InOnePlace'
  BY <1>7 DEF UnlinkInfo, bulkVars, trashVars, placeVars, InOnePlace, TypeOK
<1>8. ASSUME NEW p \in Trashers, Killed(p), UNCHANGED bulkVars
      PROVE  InOnePlace'
  BY <1>8 DEF Killed, bulkVars, trashVars, placeVars, InOnePlace, TypeOK
<1>9. ASSUME NEW s \in Slots, RestoreRead(s), UNCHANGED bulkVars
      PROVE  InOnePlace'
  BY <1>9 DEF RestoreRead, bulkVars, trashVars, placeVars, InOnePlace, TypeOK
<1>10. ASSUME RestoreMove, UNCHANGED bulkVars
      PROVE  InOnePlace'
  BY <1>10 DEF RestoreMove, bulkVars, trashVars, placeVars, InOnePlace, TypeOK
<1>11. ASSUME RestoreFails, UNCHANGED bulkVars
      PROVE  InOnePlace'
  BY <1>11 DEF RestoreFails, bulkVars, trashVars, placeVars, InOnePlace, TypeOK
<1>12. ASSUME RestoreUnlink, UNCHANGED bulkVars
      PROVE  InOnePlace'
  BY <1>12 DEF RestoreUnlink, bulkVars, trashVars, placeVars, InOnePlace, TypeOK
<1>13. ASSUME AskToEmpty, UNCHANGED bulkVars
      PROVE  InOnePlace'
  BY <1>13 DEF AskToEmpty, bulkVars, trashVars, placeVars, InOnePlace, TypeOK
<1>14. ASSUME NEW accepted \in BOOLEAN, AnswerEmpty(accepted), UNCHANGED bulkVars
      PROVE  InOnePlace'
  BY <1>14 DEF AnswerEmpty, bulkVars, trashVars, placeVars, InOnePlace, TypeOK
<1>15. ASSUME NEW s \in Slots, NEW deleted \in BOOLEAN, EmptyFile(s, deleted),
              UNCHANGED bulkVars
      PROVE  InOnePlace'
  BY <1>15 DEF EmptyFile, bulkVars, trashVars, placeVars, InOnePlace, TypeOK
<1>16. ASSUME FilesEmptied, UNCHANGED bulkVars
      PROVE  InOnePlace'
  BY <1>16 DEF FilesEmptied, bulkVars, trashVars, placeVars, InOnePlace, TypeOK
<1>17. ASSUME NEW s \in Slots, EmptyInfo(s), UNCHANGED bulkVars
      PROVE  InOnePlace'
  BY <1>17 DEF EmptyInfo, bulkVars, trashVars, placeVars, InOnePlace, TypeOK
<1>18. ASSUME InfoEmptied, UNCHANGED bulkVars
      PROVE  InOnePlace'
  BY <1>18 DEF InfoEmptied, bulkVars, trashVars, placeVars, InOnePlace, TypeOK
<1>19. ASSUME OpenDialog, UNCHANGED trashVars
      PROVE  InOnePlace'
  BY <1>19 DEF OpenDialog, bulkVars, trashVars, placeVars, InOnePlace, TypeOK
<1>20. ASSUME NEW i \in DOMAIN rows, NEW name \in NewNames, Edit(i, name),
             UNCHANGED trashVars
      PROVE  InOnePlace'
  BY <1>20 DEF Edit, bulkVars, trashVars, placeVars, InOnePlace, TypeOK
<1>21. ASSUME NEW subst \in Substitutions, Apply(subst), UNCHANGED trashVars
      PROVE  InOnePlace'
  BY <1>21 DEF Apply, bulkVars, trashVars, placeVars, InOnePlace, TypeOK
<1>22. ASSUME Reset, UNCHANGED trashVars
      PROVE  InOnePlace'
  BY <1>22 DEF Reset, bulkVars, trashVars, placeVars, InOnePlace, TypeOK
<1>23. ASSUME CloseDialog, UNCHANGED trashVars
      PROVE  InOnePlace'
  BY <1>23 DEF CloseDialog, bulkVars, trashVars, placeVars, InOnePlace, TypeOK
<1>24. ASSUME Press, UNCHANGED trashVars
      PROVE  InOnePlace'
  BY <1>24 DEF Press, bulkVars, trashVars, placeVars, InOnePlace, TypeOK
<1>25. ASSUME NEW accepted \in BOOLEAN, AnswerSlashes(accepted), UNCHANGED trashVars
      PROVE  InOnePlace'
  BY <1>25 DEF AnswerSlashes, bulkVars, trashVars, placeVars, InOnePlace, TypeOK
<1>26. ASSUME KeepName, UNCHANGED trashVars
      PROVE  InOnePlace'
  BY <1>26 DEF KeepName, bulkVars, trashVars, placeVars, InOnePlace, TypeOK
<1>27. ASSUME CheckAgain, UNCHANGED trashVars
      PROVE  InOnePlace'
  BY <1>27 DEF CheckAgain, bulkVars, trashVars, placeVars, InOnePlace, TypeOK
<1>28. ASSUME RenameRow, UNCHANGED trashVars
      PROVE  InOnePlace'
  <2> DEFINE from == <<Here, Head(rows).before>>  to == Head(rows).after.path
  <2>1. from \in Paths /\ dir[from] # None
    BY <1>28, FirstRow, OldNameHasPath DEF RenameRow, TypeOK, Row
  <2>2. to \in Paths
    BY <1>28 DEF RenameRow, TargetIsFree
  <2>3. /\ IF from = to THEN dir' = dir ELSE Renamed(from, to)
        /\ trashed' = trashed
    BY <1>28 DEF RenameRow
  <2> HIDE DEF from, to
  <2>4. CASE from = to
    BY <2>3, <2>4 DEF InOnePlace
  <2>5. CASE from # to
    <3>1. dir' = [dir EXCEPT ![from] = None, ![to] = dir[from]]
      BY <2>3, <2>5 DEF Renamed
    <3> QED BY <2>1, <2>2, <2>3, <2>5, <3>1 DEF InOnePlace, TypeOK
  <2> QED BY <2>4, <2>5
<1>29. ASSUME RenameFails, UNCHANGED trashVars
      PROVE  InOnePlace'
  BY <1>29 DEF RenameFails, bulkVars, trashVars, placeVars, InOnePlace, TypeOK
<1>30. ASSUME NEW p \in Paths, Vanish(p), UNCHANGED <<trashVars, bulkVars>>
      PROVE  InOnePlace'
  BY <1>30 DEF Vanish, bulkVars, trashVars, placeVars, InOnePlace, TypeOK
<1>31. ASSUME NEW p \in Paths, NEW f \in Strangers, Appear(p, f), UNCHANGED
              <<trashVars, bulkVars>>
      PROVE  InOnePlace'
  BY <1>31 DEF Appear, bulkVars, trashVars, placeVars, InOnePlace, TypeOK, Present
<1>32. CASE UNCHANGED vars
  BY <1>32 DEF vars, bulkVars, trashVars, placeVars, InOnePlace, TypeOK
<1> QED
  BY <1>1, <1>2, <1>3, <1>4, <1>5, <1>6, <1>7, <1>8, <1>9, <1>10, <1>11, <1>12,
     <1>13, <1>14, <1>15, <1>16, <1>17, <1>18, <1>19, <1>20, <1>21, <1>22, <1>23,
     <1>24, <1>25, <1>26, <1>27, <1>28, <1>29, <1>30, <1>31, <1>32
  DEF Next, TrashNext, BulkNext

\* The invariant holds in every state the program can reach.
THEOREM FilesInvariant == Spec => []IInv
<1>1. Init => IInv
  <2> SUFFICES ASSUME Init PROVE IInv
    OBVIOUS
  <2>1. PICK there \in [Paths -> Files \cup {None}] :
               /\ \A p, q \in Paths : p # q /\ there[p] # None => there[p] # there[q]
               /\ \A f \in Files \ Strangers : \E p \in Paths : there[p] = f
               /\ dir = there
    BY DEF Init
  <2>2. TypeOK
    BY <2>1 DEF Init, TrashInit, BulkInit, TypeOK, Idle, Resting
  <2>3. TargetIsFree
    BY DEF Init, Idle, TargetIsFree
  <2>4. NothingLost
    BY <2>1 DEF NothingLost, Present
  <2>5. InOnePlace
    BY <2>1 DEF Init, TrashInit, InOnePlace
  <2> QED BY <2>2, <2>3, <2>4, <2>5 DEF IInv
<1>2. IInv /\ [Next]_vars => IInv'
  BY TypeStep, TargetStep, NothingLostStep, InOnePlaceStep DEF IInv
<1> QED BY <1>1, <1>2, PTL DEF Spec

\* No item is lost on the way to the Trash, back, or to a new name.
THEOREM NothingIsLost == Spec => []NothingLost
<1>1. IInv => NothingLost
  BY DEF IInv
<1> QED BY <1>1, FilesInvariant, PTL

\* No item is at two places at once.
THEOREM EachInOnePlace == Spec => []InOnePlace
<1>1. IInv => InOnePlace
  BY DEF IInv
<1> QED BY <1>1, FilesInvariant, PTL

-----------------------------------------------------------------------------
(* What is in the Trash can be restored, whichever of the processes that use  *)
(* it fails, is killed or comes in between.                                  *)

\* What is known of a slot that no two operations have used at once: an item in
\* it has its information; an operation that is about to put one there has
\* the slot to itself and has written what it has to; it is empty and left
\* alone between the two steps of restoring an item and while the
\* information is deleted.
Nobody(s) == \A p \in Trashers : ~Holds(p, s)

Kept(s) ==
    /\ trashed[s] # None => info[s] = origin[trashed[s]] /\ info[s] \in Paths
    /\ \A p \in Trashers :
          Holds(p, s) =>
            /\ trashed[s] = None
            /\ task[p].at = "chosen" => info[s] = None
            /\ task[p].at = "written" => info[s] = task[p].path
            /\ \A q \in Trashers : Holds(q, s) => q = p
    /\ main.doing = "restored" /\ main.slot = s =>
          trashed[s] = None /\ info[s] # None /\ Nobody(s)
    /\ main.doing = "empty info" => trashed[s] = None /\ Nobody(s)

AllKept ==
    /\ origin \in [Files -> Paths \cup {None}]
    /\ main.doing = "restored" => main.slot \in Slots
    /\ \A s \in Slots \ shared : Kept(s)

\* Nothing happens to the Trash, and the main process does not begin to restore
\* or to delete information.
LEMMA ElsewhereKeeps ==
    ASSUME AllKept, UNCHANGED <<trashed, info, trashVars>>,
           main' = main \/ main'.doing \notin {"restored", "empty info"}
    PROVE  AllKept'
<1>1. /\ origin' = origin /\ shared' = shared /\ task' = task
      /\ trashed' = trashed /\ info' = info
  BY DEF trashVars
<1>2. main'.doing = "restored" => main.doing = "restored" /\ main'.slot = main.slot
  OBVIOUS
<1>3. main'.doing = "empty info" => main.doing = "empty info"
  OBVIOUS
<1>4. ASSUME NEW s \in Slots \ shared PROVE Kept(s)'
  <2>1. Kept(s)
    BY <1>4 DEF AllKept
  <2>2. \A q \in Trashers : Holds(q, s)' <=> Holds(q, s)
    BY <1>1 DEF Holds
  <2> QED BY <1>1, <1>2, <1>3, <2>1, <2>2 DEF Kept, Nobody
<1> QED BY <1>1, <1>2, <1>4 DEF AllKept

\* An operation has come to its end or is killed, and has not touched the slot.
LEMMA RestKeeps ==
    ASSUME AllKept, TypeOK, NEW p \in Trashers, task' = [task EXCEPT ![p] = Resting],
           main' = main \/ main'.doing \notin {"restored", "empty info"},
           UNCHANGED <<trashed, info, origin, shared>>
    PROVE  AllKept'
<1>1. ASSUME NEW q \in Trashers, NEW s \in Slots, Holds(q, s)'
      PROVE  Holds(q, s) /\ task'[q] = task[q]
  BY <1>1 DEF Holds, Resting, TypeOK
<1>2. main'.doing = "restored" => main.doing = "restored" /\ main'.slot = main.slot
  OBVIOUS
<1>3. main'.doing = "empty info" => main.doing = "empty info"
  OBVIOUS
<1>4. ASSUME NEW s \in Slots \ shared PROVE Kept(s)'
  <2>1. Kept(s)
    BY <1>4 DEF AllKept
  <2> QED BY <1>1, <1>2, <1>3, <2>1, ZenonT(40) DEF Kept, Nobody
<1> QED BY <1>2, <1>4 DEF AllKept

LEMMA GioKeeps ==
    ASSUME AllKept, TypeOK, InOnePlace, NEW p \in Trashers, NEW path \in Paths,
           GioTrash(p, path)
    PROVE  AllKept'
<1> DEFINE f == dir[path]
<1>1. PICK t \in Slots :
        /\ trashed[t] = None /\ info[t] = None
        /\ trashed' = [trashed EXCEPT ![t] = f]
        /\ info' = [info EXCEPT ![t] = path]
        /\ shared' = shared \cup ShareOf(p, t)
  BY DEF GioTrash
<1>2. /\ origin' = [origin EXCEPT ![f] = path]
      /\ task' = task /\ main' = main /\ f # None /\ task[p].at = "rest"
  BY DEF GioTrash
<1>3. f \in Files /\ path \in Paths /\ path # None
  BY <1>2, PlacesAssumption DEF TypeOK
<1> HIDE DEF f
<1>4. ASSUME NEW s \in Slots \ shared', s # t PROVE Kept(s)'
  <2>1. Kept(s)
    BY <1>1, <1>4 DEF AllKept
  <2>2. trashed[s] # None => trashed[s] \in Files /\ trashed[s] # f
    BY DEF InOnePlace, TypeOK, f
  <2>3. /\ trashed'[s] = trashed[s] /\ info'[s] = info[s]
        /\ trashed[s] # None => origin'[trashed[s]] = origin[trashed[s]]
    BY <1>1, <1>2, <1>4, <2>2 DEF TypeOK, AllKept
  <2> QED BY <1>2, <2>1, <2>3 DEF Kept, Nobody, Holds
<1>5. ASSUME t \notin shared' PROVE Kept(t)'
  <2>1. Kept(t) /\ Nobody(t) /\ main.doing # "empty info"
    BY <1>1, <1>2, <1>5 DEF AllKept, ShareOf, Nobody, Holds
  <2>2. ~(main.doing = "restored" /\ main.slot = t)
    BY <1>1, <2>1 DEF Kept
  <2>3. trashed'[t] = f /\ info'[t] = path /\ origin'[f] = path
    BY <1>1, <1>2, <1>3 DEF TypeOK, AllKept
  <2> QED BY <1>2, <1>3, <2>1, <2>2, <2>3 DEF Kept, Nobody, Holds
<1>6. origin' \in [Files -> Paths \cup {None}]
  BY <1>2, <1>3 DEF AllKept
<1> QED BY <1>2, <1>4, <1>5, <1>6 DEF AllKept

LEMMA ChooseKeeps ==
    ASSUME AllKept, TypeOK, NEW p \in Trashers, NEW path \in Paths, Choose(p, path)
    PROVE  AllKept'
<1>1. PICK t \in Slots :
        /\ ~Exists(trashed[t]) /\ info[t] = None
        /\ task' = [task EXCEPT ![p] = [at |-> "chosen", path |-> path, slot |-> t]]
        /\ shared' = shared \cup ShareOf(p, t)
  BY UniqueNameIsFree DEF Choose, FreeSlots
<1>2. /\ main' = main \/ main'.doing = "trash"
      /\ trashed' = trashed /\ info' = info /\ origin' = origin
      /\ task[p].at = "rest"
  BY DEF Choose, Working, placeVars
<1>3. ASSUME NEW q \in Trashers, NEW s \in Slots, Holds(q, s)'
      PROVE  \/ q # p /\ Holds(q, s) /\ task'[q] = task[q]
             \/ q = p /\ s = t /\ task'[q].at = "chosen"
  BY <1>1, <1>3 DEF Holds, TypeOK
<1>4. /\ main'.doing = "restored" => main.doing = "restored" /\ main'.slot = main.slot
      /\ main'.doing = "empty info" => main.doing = "empty info"
  BY <1>2
<1>5. ASSUME NEW s \in Slots \ shared', s # t PROVE Kept(s)'
  <2>1. Kept(s)
    BY <1>1, <1>5 DEF AllKept
  <2>2. ASSUME NEW q \in Trashers, Holds(q, s)'
        PROVE  Holds(q, s) /\ task'[q] = task[q]
    BY <1>3, <1>5, <2>2
  <2> QED BY <1>2, <1>4, <2>1, <2>2 DEF Kept, Nobody
<1>6. ASSUME t \notin shared' PROVE Kept(t)'
  <2>1. Kept(t) /\ main.doing # "empty info" /\ \A q \in Trashers \ {p} : ~Holds(q, t)
    BY <1>1, <1>2, <1>6 DEF AllKept, ShareOf
  <2>2. trashed[t] = None
    <3>1. trashed[t] # None => info[t] # None
      BY <2>1, PlacesAssumption DEF Kept
    <3> QED BY <1>1, <3>1
  <2>3. ~(main.doing = "restored" /\ main.slot = t)
    BY <1>1, <2>1 DEF Kept
  <2>4. ASSUME NEW q \in Trashers, Holds(q, t)' PROVE q = p /\ task'[q].at = "chosen"
    BY <1>1, <1>3, <2>1, <2>4
  <2> QED BY <1>1, <1>2, <1>4, <2>1, <2>2, <2>3, <2>4 DEF Kept
<1> QED BY <1>2, <1>4, <1>5, <1>6 DEF AllKept

LEMMA WriteKeeps ==
    ASSUME AllKept, TypeOK, NEW p \in Trashers, WriteInfo(p)
    PROVE  AllKept'
<1> DEFINE t == task[p].slot
<1>1. /\ t \in Slots /\ Holds(p, t) /\ task[p].at = "chosen" /\ task[p].path \in Paths
      /\ info' = [info EXCEPT ![t] = task[p].path]
      /\ task' = [task EXCEPT ![p].at = "written"]
      /\ trashed' = trashed /\ origin' = origin /\ shared' = shared /\ main' = main
  BY DEF WriteInfo, TypeOK, Holds
<1>2. \A q \in Trashers :
         /\ task'[q].slot = task[q].slot /\ task'[q].path = task[q].path
         /\ task'[q].at = IF q = p THEN "written" ELSE task[q].at
  BY <1>1 DEF TypeOK
<1>3. \A q \in Trashers, s \in Slots : Holds(q, s)' <=> Holds(q, s)
  BY <1>1, <1>2 DEF Holds
<1> HIDE DEF t
<1>4. ASSUME NEW s \in Slots \ shared PROVE Kept(s)'
  <2>1. Kept(s)
    BY <1>4 DEF AllKept
  <2>2. CASE s # t
    <3>1. info'[s] = info[s] /\ ~Holds(p, s)
      BY <1>1, <2>2 DEF TypeOK, Holds, t
    <3>2. \A q \in Trashers : Holds(q, s)' =>
             /\ Holds(q, s) /\ task'[q].path = task[q].path
             /\ task'[q].at = task[q].at
      BY <1>2, <1>3, <3>1
    <3>3. /\ trashed'[s] = trashed[s] /\ main' = main
          /\ trashed[s] # None => origin'[trashed[s]] = origin[trashed[s]]
      BY <1>1
    <3> QED BY <1>3, <2>1, <3>1, <3>2, <3>3 DEF Kept, Nobody
  <2>3. CASE s = t
    <3>1. /\ info'[s] = task[p].path /\ trashed[s] = None /\ ~Nobody(s)
          /\ \A q \in Trashers : Holds(q, s) => q = p
      BY <1>1, <2>1, <2>3 DEF TypeOK, Kept, Nobody
    <3>2. /\ main.doing # "empty info"
          /\ ~(main.doing = "restored" /\ main.slot = s)
      BY <2>1, <3>1 DEF Kept
    <3>3. \A q \in Trashers : Holds(q, s)' =>
             q = p /\ task'[q].at = "written" /\ task'[q].path = task[p].path
      BY <1>2, <1>3, <3>1
    <3>4. trashed'[s] = None /\ main' = main
      BY <1>1, <3>1
    <3> QED BY <3>1, <3>2, <3>3, <3>4 DEF Kept
  <2> QED BY <2>2, <2>3
<1> QED BY <1>1, <1>4 DEF AllKept

LEMMA MoveKeeps ==
    ASSUME AllKept, TypeOK, InOnePlace, NEW p \in Trashers, MoveThere(p)
    PROVE  AllKept'
<1>1. PICK t \in Slots, path \in Paths, f \in Files :
        /\ task[p] = [at |-> "written", path |-> path, slot |-> t]
        /\ f = dir[path] /\ f # None
        /\ trashed' = [trashed EXCEPT ![t] = f]
        /\ origin' = [origin EXCEPT ![f] = path]
  <2>1. /\ task[p].at = "written" /\ CanMove(p)
        /\ task[p].path \in Paths /\ task[p].slot \in Slots
    BY DEF MoveThere, TypeOK
  <2>2. task[p] = [at |-> "written", path |-> task[p].path, slot |-> task[p].slot]
    BY <2>1 DEF TypeOK
  <2>3. dir[task[p].path] \in Files /\ dir[task[p].path] # None
    BY <2>1, PlacesAssumption DEF CanMove, TypeOK
  <2> QED BY <2>1, <2>2, <2>3 DEF MoveThere
<1>2. /\ task' = [task EXCEPT ![p] = Resting]
      /\ main' = main \/ main' = Idle
      /\ info' = info /\ shared' = shared /\ Holds(p, t)
  BY <1>1 DEF MoveThere, Rested, Holds
<1>3. ASSUME NEW q \in Trashers, NEW s \in Slots, Holds(q, s)'
      PROVE  q # p /\ Holds(q, s) /\ task'[q] = task[q]
  BY <1>2, <1>3 DEF Holds, Resting, TypeOK
<1>4. /\ main'.doing = "restored" => main.doing = "restored" /\ main'.slot = main.slot
      /\ main'.doing = "empty info" => main.doing = "empty info"
  <2>1. Idle.doing = "idle"
    BY DEF Idle
  <2> QED BY <1>2, <2>1
<1>5. ASSUME NEW s \in Slots \ shared PROVE Kept(s)'
  <2>1. Kept(s)
    BY <1>5 DEF AllKept
  <2>2. CASE s # t
    <3>1. trashed[s] # None => trashed[s] \in Files /\ trashed[s] # f
      BY <1>1 DEF InOnePlace, TypeOK
    <3>2. /\ trashed'[s] = trashed[s]
          /\ trashed[s] # None => origin'[trashed[s]] = origin[trashed[s]]
      BY <1>1, <2>2, <3>1 DEF TypeOK, AllKept
    <3> QED BY <1>2, <1>3, <1>4, <2>1, <3>2 DEF Kept, Nobody
  <2>3. CASE s = t
    <3>1. /\ info[s] = path
          /\ \A q \in Trashers : Holds(q, s) => q = p
          /\ main.doing # "empty info"
          /\ ~(main.doing = "restored" /\ main.slot = s)
      <4>1. Holds(p, s) /\ task[p].at = "written" /\ task[p].path = path
        BY <1>1, <1>2, <2>3
      <4> QED BY <2>1, <4>1 DEF Kept, Nobody
    <3>2. trashed'[s] = f /\ origin'[f] = path
      BY <1>1, <2>3 DEF TypeOK, AllKept
    <3> QED BY <1>1, <1>2, <1>3, <1>4, <3>1, <3>2 DEF Kept
  <2> QED BY <2>2, <2>3
<1>6. origin' \in [Files -> Paths \cup {None}]
  BY <1>1 DEF AllKept
<1> QED BY <1>2, <1>4, <1>5, <1>6 DEF AllKept

LEMMA FailKeeps ==
    ASSUME AllKept, TypeOK, NEW p \in Trashers, MoveFails(p)
    PROVE  AllKept'
<1>1. /\ task[p].at = "written" /\ task' = [task EXCEPT ![p].at = "failed"]
      /\ trashed' = trashed /\ info' = info /\ origin' = origin
      /\ shared' = shared /\ main' = main
  BY DEF MoveFails, placeVars
<1>2. \A q \in Trashers :
         /\ task'[q].slot = task[q].slot /\ task'[q].path = task[q].path
         /\ task'[q].at = IF q = p THEN "failed" ELSE task[q].at
  BY <1>1 DEF TypeOK
<1>3. \A q \in Trashers, s \in Slots : Holds(q, s)' <=> Holds(q, s)
  BY <1>1, <1>2 DEF Holds
<1>4. ASSUME NEW s \in Slots \ shared PROVE Kept(s)'
  <2>1. Kept(s)
    BY <1>4 DEF AllKept
  <2>2. \A q \in Trashers :
           /\ Holds(q, s)' <=> Holds(q, s)
           /\ task'[q].at = "chosen" => task[q].at = "chosen"
           /\ task'[q].at = "written" => task[q].at = "written"
           /\ task'[q].path = task[q].path
    BY <1>2, <1>3
  <2> QED BY <1>1, <2>1, <2>2 DEF Kept, Nobody
<1> QED BY <1>1, <1>4 DEF AllKept

LEMMA UnlinkKeeps ==
    ASSUME AllKept, TypeOK, NEW p \in Trashers, UnlinkInfo(p)
    PROVE  AllKept'
<1> DEFINE t == task[p].slot
<1>1. /\ t \in Slots /\ Holds(p, t)
      /\ info' = [info EXCEPT ![t] = None]
      /\ task' = [task EXCEPT ![p] = Resting]
      /\ main' = main \/ main' = Idle
      /\ trashed' = trashed /\ origin' = origin /\ shared' = shared
  BY DEF UnlinkInfo, Rested, TypeOK, Holds
<1>2. ASSUME NEW q \in Trashers, NEW s \in Slots, Holds(q, s)'
      PROVE  q # p /\ Holds(q, s) /\ task'[q] = task[q]
  BY <1>1, <1>2 DEF Holds, Resting, TypeOK
<1>3. /\ main'.doing = "restored" => main.doing = "restored" /\ main'.slot = main.slot
      /\ main'.doing = "empty info" => main.doing = "empty info"
  <2>1. Idle.doing = "idle"
    BY DEF Idle
  <2> QED BY <1>1, <2>1
<1>4. ASSUME NEW s \in Slots \ shared PROVE Kept(s)'
  <2>1. Kept(s)
    BY <1>4 DEF AllKept
  <2>2. CASE s # t
    <3>1. info'[s] = info[s]
      BY <1>1, <2>2 DEF TypeOK
    <3> QED BY <1>1, <1>2, <1>3, <2>1, <3>1 DEF Kept, Nobody
  <2>3. CASE s = t
    <3>1. /\ trashed[s] = None
          /\ \A q \in Trashers : Holds(q, s) => q = p
          /\ main.doing # "empty info"
          /\ ~(main.doing = "restored" /\ main.slot = s)
      BY <1>1, <2>1, <2>3 DEF Kept, Nobody
    <3> QED BY <1>1, <1>2, <1>3, <3>1 DEF Kept
  <2> QED BY <2>2, <2>3
<1> QED BY <1>1, <1>3, <1>4 DEF AllKept

LEMMA RestoreMoveKeeps ==
    ASSUME AllKept, TypeOK, InOnePlace, RestoreMove
    PROVE  AllKept'
<1> DEFINE t == main.slot
<1>1. /\ t \in Slots /\ trashed[t] # None
      /\ trashed' = [trashed EXCEPT ![t] = None]
      /\ main' = [doing |-> "restored", slot |-> t]
      /\ origin' = [origin EXCEPT ![trashed[t]] = None]
      /\ info' = info /\ task' = task /\ shared' = shared
  BY DEF RestoreMove, TypeOK
<1>2. main'.doing = "restored" /\ main'.slot = t
  BY <1>1
<1>3. \A q \in Trashers, s \in Slots : Holds(q, s)' <=> Holds(q, s)
  BY <1>1 DEF Holds
<1> HIDE DEF t
<1>4. ASSUME NEW s \in Slots \ shared PROVE Kept(s)'
  <2>1. Kept(s)
    BY <1>4 DEF AllKept
  <2>2. CASE s # t
    <3>1. trashed[s] # None => trashed[s] \in Files /\ trashed[s] # trashed[t]
      BY <1>1, <2>2, PlacesAssumption DEF InOnePlace, TypeOK
    <3>2. /\ trashed'[s] = trashed[s]
          /\ trashed[s] # None => origin'[trashed[s]] = origin[trashed[s]]
      BY <1>1, <2>2, <3>1 DEF TypeOK, AllKept
    <3> QED BY <1>1, <1>2, <1>3, <2>1, <2>2, <3>2 DEF Kept
  <2>3. CASE s = t
    <3>1. /\ info[s] # None /\ Nobody(s)
      BY <1>1, <2>1, <2>3, PlacesAssumption DEF Kept, Nobody
    <3>2. trashed'[s] = None
      BY <1>1, <2>3 DEF TypeOK
    <3> QED BY <1>1, <1>2, <1>3, <3>1, <3>2 DEF Kept, Nobody
  <2> QED BY <2>2, <2>3
<1>5. origin' \in [Files -> Paths \cup {None}]
  BY <1>1 DEF AllKept
<1> QED BY <1>1, <1>2, <1>4, <1>5 DEF AllKept

LEMMA RestoreUnlinkKeeps ==
    ASSUME AllKept, TypeOK, RestoreUnlink
    PROVE  AllKept'
<1> DEFINE t == main.slot
<1>1. PICK left : info' = [info EXCEPT ![t] = left]
  BY DEF RestoreUnlink
<1>2. /\ main.doing = "restored" /\ main' = Idle
      /\ trashed' = trashed /\ origin' = origin /\ task' = task /\ shared' = shared
  BY DEF RestoreUnlink, trashVars
<1>3. main'.doing \notin {"restored", "empty info"}
  BY <1>2 DEF Idle
<1>4. \A q \in Trashers, s \in Slots : Holds(q, s)' <=> Holds(q, s)
  BY <1>2 DEF Holds
<1>5. ASSUME NEW s \in Slots \ shared PROVE Kept(s)'
  <2>1. Kept(s)
    BY <1>5 DEF AllKept
  <2>2. CASE s # t
    <3>1. info'[s] = info[s]
      BY <1>1, <2>2 DEF TypeOK
    <3> QED BY <1>2, <1>3, <1>4, <2>1, <3>1 DEF Kept
  <2>3. CASE s = t
    <3>1. trashed[s] = None /\ Nobody(s)
      BY <1>2, <2>1, <2>3 DEF Kept
    <3> QED BY <1>2, <1>3, <1>4, <3>1 DEF Kept, Nobody
  <2> QED BY <2>2, <2>3
<1> QED BY <1>2, <1>3, <1>5 DEF AllKept

LEMMA EmptyFileKeeps ==
    ASSUME AllKept, TypeOK, InOnePlace, NEW t \in Slots, NEW deleted \in BOOLEAN,
           EmptyFile(t, deleted)
    PROVE  AllKept'
<1>1. /\ main.doing = "empty files" /\ main'.doing = "empty files"
      /\ trashed' = [trashed EXCEPT ![t] = IF deleted THEN None ELSE @]
      /\ origin' = [f \in Files |-> IF deleted /\ f = trashed[t] THEN None ELSE origin[f]]
      /\ info' = info /\ task' = task /\ shared' = shared
  BY DEF EmptyFile, TypeOK
<1>2. \A q \in Trashers, s \in Slots : Holds(q, s)' <=> Holds(q, s)
  BY <1>1 DEF Holds
<1>3. ASSUME NEW s \in Slots \ shared PROVE Kept(s)'
  <2>1. Kept(s)
    BY <1>3 DEF AllKept
  <2>2. trashed'[s] = trashed[s] \/ trashed'[s] = None
    BY <1>1 DEF TypeOK
  <2>3. ASSUME trashed'[s] # None PROVE origin'[trashed[s]] = origin[trashed[s]]
    <3>1. trashed[s] \in Files
      BY <2>2, <2>3 DEF TypeOK
    <3>2. ~deleted \/ trashed[s] # trashed[t]
      BY <1>1, <2>2, <2>3 DEF InOnePlace, TypeOK
    <3> QED BY <1>1, <3>1, <3>2
  <2> QED BY <1>1, <1>2, <2>1, <2>2, <2>3 DEF Kept
<1>4. origin' \in [Files -> Paths \cup {None}]
  BY <1>1 DEF AllKept
<1> QED BY <1>1, <1>3, <1>4 DEF AllKept

LEMMA FilesEmptiedKeeps ==
    ASSUME AllKept, TypeOK, FilesEmptied
    PROVE  AllKept'
<1>1. /\ trashed' = trashed /\ info' = info /\ task' = task /\ origin' = origin
  BY DEF FilesEmptied, placeVars
<1>2. CASE main' = Idle /\ UNCHANGED shared
  BY <1>1, <1>2, ElsewhereKeeps DEF Idle, trashVars
<1>3. CASE /\ Filled = {}
           /\ main' = [doing |-> "empty info", left |-> Informed]
           /\ shared' = shared \cup
                {task[p].slot : p \in {q \in Trashers : task[q].at # "rest"}}
  <2>1. ASSUME NEW s \in Slots \ shared' PROVE Kept(s)'
    <3>1. trashed[s] = None
      BY <1>3 DEF Filled
    <3>2. \A q \in Trashers : ~Holds(q, s)
      BY <1>3, <2>1 DEF Holds
    <3>3. main'.doing = "empty info"
      BY <1>3
    <3>4. \A q \in Trashers : ~Holds(q, s)'
      BY <1>1, <3>2 DEF Holds
    <3> QED BY <1>1, <3>1, <3>3, <3>4 DEF Kept, Nobody
  <2>2. main'.doing # "restored"
    BY <1>3
  <2> QED BY <1>1, <2>1, <2>2 DEF AllKept
<1> QED BY <1>2, <1>3 DEF FilesEmptied

LEMMA EmptyInfoKeeps ==
    ASSUME AllKept, TypeOK, NEW t \in Slots, EmptyInfo(t)
    PROVE  AllKept'
<1>1. /\ main.doing = "empty info" /\ main'.doing = "empty info"
      /\ trashed' = trashed /\ task' = task /\ origin' = origin /\ shared' = shared
  BY DEF EmptyInfo, TypeOK, trashVars
<1>2. ASSUME NEW s \in Slots \ shared PROVE Kept(s)'
  <2>1. trashed[s] = None /\ Nobody(s)
    BY <1>1, <1>2 DEF AllKept, Kept
  <2>2. \A q \in Trashers : ~Holds(q, s)'
    BY <1>1, <2>1 DEF Nobody, Holds
  <2> QED BY <1>1, <2>1, <2>2 DEF Kept, Nobody
<1> QED BY <1>1, <1>2 DEF AllKept

LEMMA AllKeptStep ==
    ASSUME AllKept, TypeOK, InOnePlace, [Next]_vars
    PROVE  AllKept'
<1>1. ASSUME NEW p \in Trashers, NEW path \in Thrown, GioTrash(p, path) \/ Choose(p, path)
      PROVE  AllKept'
  <2>1. path \in Paths
    BY PlacesAssumption
  <2> QED BY <1>1, <2>1, GioKeeps, ChooseKeeps
<1>2. ASSUME NEW p \in Trashers, WriteInfoFails(p) \/ Killed(p)
      PROVE  AllKept'
  <2>1. /\ task' = [task EXCEPT ![p] = Resting]
        /\ main' = main \/ main' = Idle
        /\ UNCHANGED <<trashed, info, origin, shared>>
    BY <1>2 DEF WriteInfoFails, Killed, Rested, placeVars
  <2>2. main' = main \/ main'.doing = "idle"
    BY <2>1 DEF Idle
  <2> QED BY <2>1, <2>2, RestKeeps
<1>3. ASSUME NEW p \in Trashers,
             WriteInfo(p) \/ MoveThere(p) \/ MoveFails(p) \/ UnlinkInfo(p)
      PROVE  AllKept'
  BY <1>3, WriteKeeps, MoveKeeps, FailKeeps, UnlinkKeeps
<1>4. ASSUME NEW s \in Slots, RestoreRead(s)
      PROVE  AllKept'
  <2>1. UNCHANGED <<trashed, info, trashVars>> /\ main'.doing = "restore"
    BY <1>4 DEF RestoreRead, placeVars
  <2> QED BY <2>1, ElsewhereKeeps
<1>5. ASSUME RestoreFails \/ AskToEmpty \/ InfoEmptied
             \/ \E accepted \in BOOLEAN : AnswerEmpty(accepted)
      PROVE  AllKept'
  <2>1. UNCHANGED <<trashed, info, trashVars>>
    BY <1>5 DEF RestoreFails, AskToEmpty, InfoEmptied, AnswerEmpty, placeVars
  <2>2. \/ main' = Idle
        \/ main' = [doing |-> "asking to empty"]
        \/ main' = [doing |-> "empty files", left |-> Filled, seen |-> {}]
    BY <1>5 DEF RestoreFails, AskToEmpty, InfoEmptied, AnswerEmpty
  <2>3. main'.doing \in {"idle", "asking to empty", "empty files"}
    <3>1. CASE main' = Idle
      BY <3>1 DEF Idle
    <3>2. CASE main' = [doing |-> "asking to empty"]
      BY <3>2
    <3>3. CASE main' = [doing |-> "empty files", left |-> Filled, seen |-> {}]
      BY <3>3
    <3> QED BY <2>2, <3>1, <3>2, <3>3
  <2> QED BY <2>1, <2>3, ElsewhereKeeps
<1>6. ASSUME BulkNext, UNCHANGED trashVars
      PROVE  AllKept'
  <2>1. UNCHANGED <<trashed, info>>
    BY <1>6 DEF BulkNext, OpenDialog, Edit, Apply, Reset, CloseDialog, Press,
                AnswerSlashes, KeepName, CheckAgain, RenameRow, RenameFails, placeVars
  <2>2. "doing" \in DOMAIN main
    BY DEF TypeOK
  <2>3. \/ main' = main
        \/ main' = Idle
        \/ \E d \in {"rename", "checked"} : main' = [main EXCEPT !.doing = d]
        \/ main' = [doing |-> IF Slashed THEN "asking about slashes" ELSE "rename",
                    slashed |-> Slashed]
    BY <1>6 DEF BulkNext, OpenDialog, Edit, Apply, Reset, CloseDialog, Press,
                AnswerSlashes, KeepName, CheckAgain, RenameRow, RowDone, RenameFails
  <2>4. \/ main' = main
        \/ main'.doing \in {"idle", "rename", "checked", "asking about slashes"}
    <3>1. CASE main' = Idle
      BY <3>1 DEF Idle
    <3>2. ASSUME NEW d \in {"rename", "checked"}, main' = [main EXCEPT !.doing = d]
          PROVE  main'.doing = d
      BY <2>2, <3>2
    <3>3. CASE main' = [doing |-> IF Slashed THEN "asking about slashes" ELSE "rename",
                        slashed |-> Slashed]
      BY <3>3
    <3> QED BY <2>3, <3>1, <3>2, <3>3
  <2> QED BY <1>6, <2>1, <2>4, ElsewhereKeeps
<1>7. ASSUME NEW p \in Paths, Vanish(p) \/ (\E f \in Strangers : Appear(p, f)),
             UNCHANGED trashVars
      PROVE  AllKept'
  <2>1. UNCHANGED <<trashed, info, main>>
    BY <1>7 DEF Vanish, Appear
  <2> QED BY <1>7, <2>1, ElsewhereKeeps
<1>8. CASE UNCHANGED vars
  <2>1. UNCHANGED <<trashed, info, trashVars>> /\ main' = main
    BY <1>8 DEF vars, placeVars, trashVars
  <2> QED BY <2>1, ElsewhereKeeps
<1> QED
  BY <1>1, <1>2, <1>3, <1>4, <1>5, <1>6, <1>7, <1>8, RestoreMoveKeeps,
     RestoreUnlinkKeeps, EmptyFileKeeps, FilesEmptiedKeeps, EmptyInfoKeeps
  DEF Next, TrashNext

LEMMA AllKeptAtFirst == Init => AllKept
<1> SUFFICES ASSUME Init PROVE AllKept
  OBVIOUS
<1>1. /\ trashed = [s \in Slots |-> None] /\ origin = [f \in Files |-> None]
      /\ task = [p \in Trashers |-> Resting] /\ main = Idle
  BY DEF Init, TrashInit
<1>2. \A p \in Trashers, s \in Slots : ~Holds(p, s)
  BY <1>1 DEF Holds, Resting
<1> QED BY <1>1, <1>2 DEF AllKept, Kept, Nobody, Idle

\* An item in the Trash has information that names the place it came from,
\* unless two operations have used its slot at once (rox_trash_file(),
\* restore_one() and rox_trash_empty() in any order, with any of them failing
\* or killed between its steps).
THEOREM TrashIsRestorable == Spec => []Restorable
<1>1. AllKept /\ IInv /\ [Next]_vars => AllKept'
  BY AllKeptStep DEF IInv
<1>2. AllKept => Restorable
  BY DEF AllKept, Kept, Restorable, Filled
<1> QED BY <1>1, <1>2, AllKeptAtFirst, FilesInvariant, PTL DEF Spec

-----------------------------------------------------------------------------
(* One press of Rename gives a file one new name.                            *)

Renaming == main.doing \in {"rename", "checked"}

\* Place p is no row's, neither to be taken from nor to be put at.
NoRows(p) ==
    \A i \in DOMAIN rows :
       /\ p # <<Here, rows[i].before>>
       /\ Changes(rows[i]) => p # rows[i].after.path

\* While a list without slashes is worked off, what is left of it passes the
\* test for names used twice, and no renamed file is where a row that is left
\* looks or leads. The main process does nothing else meanwhile.
Apart ==
    /\ renamed \subseteq Files
    /\ task[Self].at # "rest" => main.doing = "trash"
    /\ ~Renaming => renamed = {}
    /\ Renaming \/ main.doing = "asking about slashes" =>
          main = [doing |-> main.doing, slashed |-> main.slashed]
    /\ Renaming \/ main.doing = "asking about slashes" =>
          main.slashed \in BOOLEAN /\ (~main.slashed => ~Slashed /\ NoneTwice)
    /\ main.doing = "checked" => Changes(Head(rows))
    /\ Renaming /\ ~main.slashed =>
          \A p \in Paths : dir[p] \in renamed \ Strangers => NoRows(p)

-----------------------------------------------------------------------------
\* Nothing happens to the dialog, and no file of the user comes to a place.
LEMMA DialogKeeps ==
    ASSUME Apart, UNCHANGED <<rows, renamed, main>>,
           task'[Self].at # "rest" => task[Self].at # "rest",
           \A p \in Paths : dir'[p] = dir[p] \/ dir'[p] \notin Files \ Strangers
    PROVE  Apart'
<1>1. /\ (Renaming <=> Renaming') /\ (Slashed <=> Slashed') /\ (NoneTwice <=> NoneTwice')
      /\ \A p : NoRows(p) <=> NoRows(p)'
  BY DEF Renaming, Slashed, NoneTwice, NoRows, Changing, Changes
<1>2. \A p \in Paths : dir'[p] \in renamed' \ Strangers => dir[p] \in renamed \ Strangers
  BY DEF Apart
<1>3. main.doing = "checked" => Changes(Head(rows))'
  BY DEF Apart, Changes
<1> QED BY <1>1, <1>2, <1>3 DEF Apart

\* No list is worked off before or after.
LEMMA IdleKeeps ==
    ASSUME Apart, ~Renaming, ~Renaming', renamed' = renamed,
           main'.doing # "asking about slashes",
           task'[Self].at # "rest" => main'.doing = "trash"
    PROVE  Apart'
<1>1. main'.doing # "checked"
  BY DEF Renaming
<1> QED BY <1>1 DEF Apart

\* What the Trash does.
LEMMA TrashApart ==
    ASSUME TypeOK, Apart, TrashNext, UNCHANGED bulkVars
    PROVE  Apart'
<1>0. None \notin Files /\ rows' = rows /\ renamed' = renamed
  BY PlacesAssumption DEF bulkVars
<1>1. ASSUME NEW p \in Trashers, NEW path \in Thrown, GioTrash(p, path)
      PROVE  Apart'
  BY <1>0, <1>1, DialogKeeps, PlacesAssumption
  DEF GioTrash, trashVars, placeVars, TypeOK, Idle, Resting, Rested, Working, MayStart
<1>2. ASSUME NEW p \in Trashers, NEW path \in Thrown, Choose(p, path)
      PROVE  Apart'
  <2>1. CASE p = Self
    <3>1. main.doing \in {"idle", "trash"}
      <4>1. main = Idle
        BY <1>2, <2>1 DEF Choose, MayStart
      <4> QED BY <4>1 DEF Idle
    <3>2. main'.doing \in {"idle", "trash"} /\ (task'[Self].at # "rest" => main'.doing = "trash")
      BY <1>2, <2>1 DEF Choose, Rested, Working, Idle, Resting, Trashers, TypeOK
    <3> QED BY <1>0, <3>1, <3>2, IdleKeeps DEF Renaming
  <2>2. CASE p # Self
    <3>1. main' = main /\ task'[Self] = task[Self]
      BY <1>2, <2>2 DEF Choose, Rested, Working, Trashers, TypeOK
    <3>2. \A q \in Paths : dir'[q] = dir[q] \/ dir'[q] \notin Files \ Strangers
      BY <1>0, <1>2 DEF Choose, placeVars, TypeOK
    <3> QED BY <1>0, <3>1, <3>2, DialogKeeps
  <2> QED BY <2>1, <2>2
<1>3. ASSUME NEW p \in Trashers, WriteInfo(p)
      PROVE  Apart'
  <2>1. main' = main /\ dir' = dir
    BY <1>3 DEF WriteInfo, placeVars
  <2>2. task'[Self].at # "rest" => task[Self].at # "rest"
    BY <1>3 DEF WriteInfo, Trashers, TypeOK, Resting
  <2> QED BY <1>0, <2>1, <2>2, DialogKeeps
<1>4. ASSUME NEW p \in Trashers, WriteInfoFails(p)
      PROVE  Apart'
  <2>1. CASE p = Self
    <3>1. main.doing \in {"idle", "trash"}
      BY <1>4, <2>1 DEF WriteInfoFails, MayStart, Idle, Apart
    <3>2. main'.doing \in {"idle", "trash"} /\ (task'[Self].at # "rest" => main'.doing = "trash")
      BY <1>4, <2>1 DEF WriteInfoFails, Rested, Working, Idle, Resting, Trashers, TypeOK
    <3> QED BY <1>0, <3>1, <3>2, IdleKeeps DEF Renaming
  <2>2. CASE p # Self
    <3>1. main' = main /\ task'[Self] = task[Self]
      BY <1>4, <2>2 DEF WriteInfoFails, Rested, Working, Trashers, TypeOK
    <3>2. \A q \in Paths : dir'[q] = dir[q] \/ dir'[q] \notin Files \ Strangers
      BY <1>0, <1>4 DEF WriteInfoFails, placeVars, TypeOK
    <3> QED BY <1>0, <3>1, <3>2, DialogKeeps
  <2> QED BY <2>1, <2>2
<1>5. ASSUME NEW p \in Trashers, MoveThere(p)
      PROVE  Apart'
  <2>1. CASE p = Self
    <3>1. main.doing \in {"idle", "trash"}
      BY <1>5, <2>1 DEF MoveThere, MayStart, Idle, Apart
    <3>2. main'.doing \in {"idle", "trash"} /\ (task'[Self].at # "rest" => main'.doing = "trash")
      BY <1>5, <2>1 DEF MoveThere, Rested, Working, Idle, Resting, Trashers, TypeOK
    <3> QED BY <1>0, <3>1, <3>2, IdleKeeps DEF Renaming
  <2>2. CASE p # Self
    <3>1. main' = main /\ task'[Self] = task[Self]
      BY <1>5, <2>2 DEF MoveThere, Rested, Working, Trashers, TypeOK
    <3>2. \A q \in Paths : dir'[q] = dir[q] \/ dir'[q] \notin Files \ Strangers
      BY <1>0, <1>5 DEF MoveThere, placeVars, TypeOK
    <3> QED BY <1>0, <3>1, <3>2, DialogKeeps
  <2> QED BY <2>1, <2>2
<1>6. ASSUME NEW p \in Trashers, MoveFails(p)
      PROVE  Apart'
  <2>1. main' = main /\ dir' = dir
    BY <1>6 DEF MoveFails, placeVars
  <2>2. task'[Self].at # "rest" => task[Self].at # "rest"
    BY <1>6 DEF MoveFails, Trashers, TypeOK, Resting
  <2> QED BY <1>0, <2>1, <2>2, DialogKeeps
<1>7. ASSUME NEW p \in Trashers, UnlinkInfo(p)
      PROVE  Apart'
  <2>1. CASE p = Self
    <3>1. main.doing \in {"idle", "trash"}
      BY <1>7, <2>1 DEF UnlinkInfo, MayStart, Idle, Apart
    <3>2. main'.doing \in {"idle", "trash"} /\ (task'[Self].at # "rest" => main'.doing = "trash")
      BY <1>7, <2>1 DEF UnlinkInfo, Rested, Working, Idle, Resting, Trashers, TypeOK
    <3> QED BY <1>0, <3>1, <3>2, IdleKeeps DEF Renaming
  <2>2. CASE p # Self
    <3>1. main' = main /\ task'[Self] = task[Self]
      BY <1>7, <2>2 DEF UnlinkInfo, Rested, Working, Trashers, TypeOK
    <3>2. \A q \in Paths : dir'[q] = dir[q] \/ dir'[q] \notin Files \ Strangers
      BY <1>0, <1>7 DEF UnlinkInfo, placeVars, TypeOK
    <3> QED BY <1>0, <3>1, <3>2, DialogKeeps
  <2> QED BY <2>1, <2>2
<1>8. ASSUME NEW p \in Trashers, Killed(p)
      PROVE  Apart'
  <2>1. main' = main /\ dir' = dir
    BY <1>8 DEF Killed, placeVars
  <2>2. task'[Self].at # "rest" => task[Self].at # "rest"
    BY <1>8 DEF Killed, Trashers, TypeOK, Resting
  <2> QED BY <1>0, <2>1, <2>2, DialogKeeps
<1>9. ASSUME NEW s \in Slots, RestoreRead(s)
      PROVE  Apart'
  <2>1. main.doing # "trash" /\ main.doing # "asking about slashes" /\ ~Renaming
    BY <1>9 DEF RestoreRead, Idle, Renaming
  <2>2. main'.doing # "asking about slashes" /\ ~Renaming'
    BY <1>9 DEF RestoreRead, Idle, TypeOK, Renaming
  <2>3. task' = task
    BY <1>9 DEF RestoreRead, trashVars
  <2> QED BY <1>0, <2>1, <2>2, <2>3, IdleKeeps DEF Apart
<1>10. ASSUME RestoreMove
      PROVE  Apart'
  <2>1. main.doing # "trash" /\ main.doing # "asking about slashes" /\ ~Renaming
    BY <1>10 DEF RestoreMove, Idle, Renaming
  <2>2. main'.doing # "asking about slashes" /\ ~Renaming'
    BY <1>10 DEF RestoreMove, Idle, TypeOK, Renaming
  <2>3. task' = task
    BY <1>10 DEF RestoreMove, trashVars
  <2> QED BY <1>0, <2>1, <2>2, <2>3, IdleKeeps DEF Apart
<1>11. ASSUME RestoreFails
      PROVE  Apart'
  <2>1. main.doing # "trash" /\ main.doing # "asking about slashes" /\ ~Renaming
    BY <1>11 DEF RestoreFails, Idle, Renaming
  <2>2. main'.doing # "asking about slashes" /\ ~Renaming'
    BY <1>11 DEF RestoreFails, Idle, TypeOK, Renaming
  <2>3. task' = task
    BY <1>11 DEF RestoreFails, trashVars
  <2> QED BY <1>0, <2>1, <2>2, <2>3, IdleKeeps DEF Apart
<1>12. ASSUME RestoreUnlink
      PROVE  Apart'
  <2>1. main.doing # "trash" /\ main.doing # "asking about slashes" /\ ~Renaming
    BY <1>12 DEF RestoreUnlink, Idle, Renaming
  <2>2. main'.doing # "asking about slashes" /\ ~Renaming'
    BY <1>12 DEF RestoreUnlink, Idle, TypeOK, Renaming
  <2>3. task' = task
    BY <1>12 DEF RestoreUnlink, trashVars
  <2> QED BY <1>0, <2>1, <2>2, <2>3, IdleKeeps DEF Apart
<1>13. ASSUME AskToEmpty
      PROVE  Apart'
  <2>1. main.doing # "trash" /\ main.doing # "asking about slashes" /\ ~Renaming
    BY <1>13 DEF AskToEmpty, Idle, Renaming
  <2>2. main'.doing # "asking about slashes" /\ ~Renaming'
    BY <1>13 DEF AskToEmpty, Idle, TypeOK, Renaming
  <2>3. task' = task
    BY <1>13 DEF AskToEmpty, trashVars
  <2> QED BY <1>0, <2>1, <2>2, <2>3, IdleKeeps DEF Apart
<1>14. ASSUME NEW accepted \in BOOLEAN, AnswerEmpty(accepted)
      PROVE  Apart'
  <2>1. main.doing # "trash" /\ main.doing # "asking about slashes" /\ ~Renaming
    BY <1>14 DEF AnswerEmpty, Idle, Renaming
  <2>2. main'.doing # "asking about slashes" /\ ~Renaming'
    BY <1>14 DEF AnswerEmpty, Idle, TypeOK, Renaming
  <2>3. task' = task
    BY <1>14 DEF AnswerEmpty, trashVars
  <2> QED BY <1>0, <2>1, <2>2, <2>3, IdleKeeps DEF Apart
<1>15. ASSUME NEW s \in Slots, NEW deleted \in BOOLEAN, EmptyFile(s, deleted)
      PROVE  Apart'
  <2>1. main.doing # "trash" /\ main.doing # "asking about slashes" /\ ~Renaming
    BY <1>15 DEF EmptyFile, Idle, Renaming
  <2>2. main'.doing # "asking about slashes" /\ ~Renaming'
    BY <1>15 DEF EmptyFile, Idle, TypeOK, Renaming
  <2>3. task' = task
    BY <1>15 DEF EmptyFile, trashVars
  <2> QED BY <1>0, <2>1, <2>2, <2>3, IdleKeeps DEF Apart
<1>16. ASSUME FilesEmptied
      PROVE  Apart'
  <2>1. main.doing # "trash" /\ main.doing # "asking about slashes" /\ ~Renaming
    BY <1>16 DEF FilesEmptied, Idle, Renaming
  <2>2. main'.doing # "asking about slashes" /\ ~Renaming'
    <3>1. CASE Filled = {}
      <4>1. main' = [doing |-> "empty info", left |-> Informed]
        BY <1>16, <3>1 DEF FilesEmptied
      <4> QED BY <4>1 DEF Renaming
    <3>2. CASE Filled # {}
      <4>1. main' = [doing |-> "idle"]
        BY <1>16, <3>2 DEF FilesEmptied, Idle
      <4> QED BY <4>1 DEF Renaming
    <3> QED BY <3>1, <3>2
  <2>3. task' = task
    BY <1>16 DEF FilesEmptied, trashVars
  <2> QED BY <1>0, <2>1, <2>2, <2>3, IdleKeeps DEF Apart
<1>17. ASSUME NEW s \in Slots, EmptyInfo(s)
      PROVE  Apart'
  <2>1. main.doing # "trash" /\ main.doing # "asking about slashes" /\ ~Renaming
    BY <1>17 DEF EmptyInfo, Idle, Renaming
  <2>2. main'.doing # "asking about slashes" /\ ~Renaming'
    BY <1>17 DEF EmptyInfo, Idle, TypeOK, Renaming
  <2>3. task' = task
    BY <1>17 DEF EmptyInfo, trashVars
  <2> QED BY <1>0, <2>1, <2>2, <2>3, IdleKeeps DEF Apart
<1>18. ASSUME InfoEmptied
      PROVE  Apart'
  <2>1. main.doing # "trash" /\ main.doing # "asking about slashes" /\ ~Renaming
    BY <1>18 DEF InfoEmptied, Idle, Renaming
  <2>2. main'.doing # "asking about slashes" /\ ~Renaming'
    BY <1>18 DEF InfoEmptied, Idle, TypeOK, Renaming
  <2>3. task' = task
    BY <1>18 DEF InfoEmptied, trashVars
  <2> QED BY <1>0, <2>1, <2>2, <2>3, IdleKeeps DEF Apart
<1>19. ASSUME NEW p \in Trashers,
              \/ \E path \in Thrown : GioTrash(p, path) \/ Choose(p, path)
              \/ WriteInfo(p) \/ WriteInfoFails(p)
              \/ MoveThere(p) \/ MoveFails(p) \/ UnlinkInfo(p)
              \/ Killed(p)
       PROVE  Apart'
  BY <1>1, <1>2, <1>3, <1>4, <1>5, <1>6, <1>7, <1>8, <1>19
<1> QED
  BY <1>9, <1>10, <1>11, <1>12, <1>13, <1>14, <1>15, <1>16, <1>17, <1>18, <1>19
  DEF TrashNext

-----------------------------------------------------------------------------
\* The rows after the first, by their places in the whole list.
LEMMA RowsAfter ==
    ASSUME NEW list \in Seq(Row), list # <<>>
    PROVE  /\ Head(list) = list[1] /\ 1 \in DOMAIN list
           /\ DOMAIN Tail(list) \subseteq Nat
           /\ \A i \in DOMAIN Tail(list) :
                 i + 1 \in DOMAIN list /\ i + 1 # 1 /\ Tail(list)[i] = list[i + 1]
OBVIOUS

\* What is left of a list passes the tests that the list passes.
LEMMA RestPasses ==
    ASSUME TypeOK, rows # <<>>, rows' = Tail(rows)
    PROVE  /\ Slashed' => Slashed
           /\ NoneTwice => NoneTwice'
           /\ \A p : NoRows(p) => NoRows(p)'
<1>1. /\ DOMAIN rows' \subseteq Nat
      /\ \A i \in DOMAIN rows' : i + 1 \in DOMAIN rows /\ rows'[i] = rows[i + 1]
  BY RowsAfter DEF TypeOK, Row
<1>2. \A i, j \in DOMAIN rows' : i # j => i + 1 # j + 1
  BY <1>1
<1>3. \A i \in DOMAIN rows' : i \in Changing' => i + 1 \in Changing
  BY <1>1 DEF Changing, Changes
<1>4. Slashed' => Slashed
  BY <1>1 DEF Slashed
<1>5. Changing' \subseteq DOMAIN rows'
  BY DEF Changing
<1>6. NoneTwice => NoneTwice'
  BY <1>1, <1>2, <1>3, <1>5 DEF NoneTwice, Plain
<1>7. ASSUME NEW p, NoRows(p)
      PROVE  NoRows(p)'
  BY <1>1, <1>7 DEF NoRows, Changes
<1> QED BY <1>4, <1>6, <1>7

\* The first row's new name is nothing to the rows after it.
LEMMA FirstIsApart ==
    ASSUME TypeOK, rows # <<>>, rows' = Tail(rows), ~Slashed, NoneTwice,
           Changes(Head(rows)), NEW to, to = Head(rows).after.path
    PROVE  /\ NoRows(to)'
           /\ <<Here, Head(rows).before>> # to
<1>1. /\ Head(rows) = rows[1] /\ 1 \in DOMAIN rows
      /\ \A i \in DOMAIN rows' :
            i + 1 \in DOMAIN rows /\ i + 1 # 1 /\ rows'[i] = rows[i + 1]
  BY RowsAfter DEF TypeOK, Row
<1>2. \A i \in DOMAIN rows : rows[i] \in Row
  BY RowsAreFunctions DEF TypeOK, Row
<1>3. \A i \in DOMAIN rows :
         rows[i].after = [path |-> rows[i].after.path, spelled |-> "leaf"]
  <2>1. \A i \in DOMAIN rows : rows[i].after.spelled = "leaf"
    BY DEF Slashed
  <2>2. \A i \in DOMAIN rows :
           rows[i].after \in [path: Paths, spelled: STRING] \cup {Empty}
                             \cup {Plain(leaf) : leaf \in Selection}
    BY <1>2, NamesAssumption DEF Row, Names
  <2> QED BY <2>1, <2>2 DEF Empty, Plain
<1>4. 1 \in Changing
  BY <1>1 DEF Changing
<1>5. rows[1].after = [path |-> to, spelled |-> "leaf"]
  <2>1. to = rows[1].after.path
    BY <1>1
  <2> QED BY <1>1, <1>3, <2>1
<1>6. ASSUME NEW i \in DOMAIN rows
      PROVE  <<Here, rows[i].before>> # to
  <2>1. rows[1].after # Plain(rows[i].before)
    BY <1>4 DEF NoneTwice
  <2> QED BY <1>5, <2>1 DEF Plain
<1>7. ASSUME NEW i \in Changing, i # 1
      PROVE  rows[i].after.path # to
  <2>1. rows[i].after # rows[1].after
    BY <1>4, <1>7 DEF NoneTwice
  <2>2. rows[i].after = [path |-> rows[i].after.path, spelled |-> "leaf"]
    BY <1>3 DEF Changing
  <2> QED BY <1>5, <2>1, <2>2
<1>8. NoRows(to)'
  BY <1>1, <1>6, <1>7 DEF NoRows, Changing, Changes
<1> QED BY <1>1, <1>6, <1>8

-----------------------------------------------------------------------------
\* What the dialog does.
LEMMA BulkApart ==
    ASSUME TypeOK, TargetIsFree, InOnePlace, Apart, BulkNext, UNCHANGED trashVars
    PROVE  Apart'
<1>0. task' = task /\ None \notin Files
  BY PlacesAssumption DEF trashVars
<1>1. ASSUME main = Idle, main' = Idle, renamed' = renamed
      PROVE  Apart'
  BY <1>0, <1>1, IdleKeeps DEF Apart, Idle, Renaming
<1>2. CASE OpenDialog
  BY <1>1, <1>2 DEF OpenDialog
<1>3. ASSUME NEW i \in DOMAIN rows, NEW name \in NewNames, Edit(i, name)
      PROVE  Apart'
  BY <1>1, <1>3 DEF Edit
<1>4. ASSUME NEW subst \in Substitutions, Apply(subst)
      PROVE  Apart'
  BY <1>1, <1>4 DEF Apply
<1>5. CASE Reset
  BY <1>1, <1>5 DEF Reset
<1>6. CASE CloseDialog
  BY <1>1, <1>6 DEF CloseDialog
<1>7. CASE Press
  <2>1. renamed = {} /\ task[Self].at = "rest"
    BY <1>7 DEF Press, Apart, Idle, Renaming
  <2>2. /\ main'.doing \in {"rename", "asking about slashes"}
        /\ main' = [doing |-> main'.doing, slashed |-> main'.slashed]
        /\ main'.slashed = Slashed
        /\ rows' = rows /\ renamed' = renamed
    BY <1>7 DEF Press
  <2>3. Slashed \in BOOLEAN /\ (Slashed <=> Slashed') /\ NoneTwice'
    BY <1>7, <2>2, ZenonT(40) DEF Press, Acceptable, Slashed, NoneTwice, Changing, Changes
  <2> QED BY <1>0, <2>1, <2>2, <2>3 DEF Apart
<1>8. ASSUME NEW accepted \in BOOLEAN, AnswerSlashes(accepted)
      PROVE  Apart'
  <2>1. main.doing = "asking about slashes" /\ renamed = {} /\ task[Self].at = "rest"
    BY <1>8 DEF AnswerSlashes, Apart, Renaming
  <2>2. CASE accepted
    <3>1. main' = [doing |-> "rename", slashed |-> main.slashed]
      BY <1>8, <2>1, <2>2 DEF AnswerSlashes, Apart
    <3>2. /\ rows' = rows /\ renamed' = renamed
      BY <1>8 DEF AnswerSlashes
    <3>3. /\ main'.doing = "rename" /\ main'.slashed = main.slashed
          /\ main' = [doing |-> main'.doing, slashed |-> main'.slashed]
      BY <3>1
    <3>4. (Slashed <=> Slashed') /\ (NoneTwice <=> NoneTwice')
      BY <3>2 DEF Slashed, NoneTwice, Changing, Changes
    <3>5. main.slashed \in BOOLEAN /\ (~main.slashed => ~Slashed' /\ NoneTwice')
      BY <2>1, <3>4 DEF Apart
    <3> QED BY <1>0, <2>1, <3>2, <3>3, <3>5 DEF Apart
  <2>3. CASE ~accepted
    <3>1. main'.doing = "idle" /\ renamed' = renamed
      BY <1>8, <2>3 DEF AnswerSlashes, Idle
    <3> QED BY <1>0, <2>1, <3>1 DEF Apart, Renaming
  <2> QED BY <2>2, <2>3
<1>9. ASSUME main.doing \in {"rename", "checked"}, RowDone, Len(rows) # 1,
             renamed' \subseteq Files,
             ~main.slashed => \A p \in Paths : dir'[p] \in renamed' \ Strangers => NoRows(p)'
      PROVE  Apart'
  <2>1. main' = [doing |-> "rename", slashed |-> main.slashed]
    BY <1>9 DEF RowDone, Apart, Renaming
  <2>2. main.slashed \in BOOLEAN /\ (~main.slashed => ~Slashed' /\ NoneTwice')
    BY <1>9, RestPasses DEF RowDone, Apart, Renaming, TypeOK
  <2>3. task[Self].at = "rest"
    BY <1>9 DEF Apart
  <2> QED BY <1>0, <1>9, <2>1, <2>2, <2>3 DEF Apart, Renaming
<1>10. ASSUME main.doing \in {"rename", "checked"}, main' = Idle, renamed' = {}
       PROVE  Apart'
  <2>1. task[Self].at = "rest" /\ main'.doing = "idle"
    BY <1>10 DEF Apart, Idle
  <2> QED BY <1>0, <1>10, <2>1 DEF Apart, Renaming
<1>11. CASE KeepName
  <2>1. CASE Len(rows) = 1
    BY <1>10, <1>11, <2>1 DEF KeepName, RowDone
  <2>2. CASE Len(rows) # 1
    <3>1. \A p : NoRows(p) => NoRows(p)'
      BY <1>11, RestPasses DEF KeepName, RowDone, TypeOK
    <3>2. dir' = dir /\ renamed' = renamed
      BY <1>11, <2>2 DEF KeepName, placeVars
    <3> QED BY <1>9, <1>11, <2>2, <3>1, <3>2 DEF KeepName, Apart, Renaming
  <2> QED BY <2>1, <2>2
<1>12. CASE CheckAgain
  <2>1. CASE Exists(dir[Head(rows).after.path])
    BY <1>10, <1>12, <2>1 DEF CheckAgain
  <2>2. CASE ~Exists(dir[Head(rows).after.path])
    <3>1. /\ main' = [doing |-> "checked", slashed |-> main.slashed]
          /\ rows' = rows /\ renamed' = renamed /\ dir' = dir
      BY <1>12, <2>2 DEF CheckAgain, placeVars, Apart, Renaming
    <3>2. /\ (Slashed <=> Slashed') /\ (NoneTwice <=> NoneTwice')
          /\ \A p : NoRows(p) <=> NoRows(p)'
      BY <3>1 DEF Slashed, NoneTwice, Changing, Changes, NoRows
    <3>3. Changes(Head(rows))' /\ main.doing = "rename" /\ task[Self].at = "rest"
      BY <1>12, <3>1 DEF CheckAgain, Changes, Apart
    <3> QED BY <1>0, <3>1, <3>2, <3>3 DEF Apart, Renaming
  <2> QED BY <2>1, <2>2
<1>13. CASE RenameRow
  <2>1. CASE Len(rows) = 1
    BY <1>10, <1>13, <2>1 DEF RenameRow, RowDone
  <2>2. CASE Len(rows) # 1
    <3> DEFINE from == <<Here, Head(rows).before>>
    <3>0. PICK to : to = Head(rows).after.path
      OBVIOUS
    <3>1. from \in Paths /\ dir[from] \in Files
      BY <1>13, FirstRow, OldNameHasPath DEF RenameRow, TypeOK, Row
    <3>2. to \in Paths /\ rows # <<>> /\ rows' = Tail(rows)
      BY <1>13, <3>0 DEF RenameRow, RowDone, TargetIsFree, TypeOK
    <3>3. renamed' = renamed \cup {dir[from]} /\ renamed' \subseteq Files
      BY <1>13, <2>2, <3>1 DEF RenameRow, Apart
    <3>4. ASSUME ~main.slashed, NEW p \in Paths, dir'[p] \in renamed' \ Strangers
          PROVE  NoRows(p)'
      <4>1. /\ ~Slashed /\ NoneTwice /\ Changes(Head(rows))
            /\ \A q \in Paths : dir[q] \in renamed \ Strangers => NoRows(q)
        BY <1>13, <3>4 DEF RenameRow, Apart, Renaming
      <4>2. NoRows(to)' /\ from # to
        BY <3>0, <3>2, <4>1, FirstIsApart
      <4>3. dir' = [dir EXCEPT ![from] = None, ![to] = dir[from]]
        BY <1>13, <3>0, <4>2 DEF RenameRow, Renamed
      <4>4. CASE p = to
        BY <4>2, <4>4
      <4>5. CASE p # to
        <5>1. p # from /\ dir'[p] = dir[p]
          BY <1>0, <3>1, <3>2, <3>3, <3>4, <4>3, <4>5 DEF TypeOK
        <5>2. dir[p] # dir[from]
          BY <1>0, <3>1, <5>1 DEF InOnePlace
        <5>3. NoRows(p)
          BY <3>3, <3>4, <4>1, <5>1, <5>2
        <5> QED BY <3>2, <5>3, RestPasses
      <4> QED BY <4>4, <4>5
    <3> QED BY <1>9, <1>13, <2>2, <3>3, <3>4 DEF RenameRow
  <2> QED BY <2>1, <2>2
<1>14. CASE RenameFails
  BY <1>10, <1>14 DEF RenameFails
<1> QED
  BY <1>2, <1>3, <1>4, <1>5, <1>6, <1>7, <1>8, <1>11, <1>12, <1>13, <1>14
  DEF BulkNext

\* Every step keeps the rows that are left apart from what has been renamed.
LEMMA ApartStep ==
    ASSUME IInv, Apart, [Next]_vars
    PROVE  Apart'
<1>1. CASE UNCHANGED vars
  BY <1>1, DialogKeeps DEF vars, bulkVars, trashVars, placeVars
<1>2. CASE TrashNext /\ UNCHANGED bulkVars
  BY <1>2, TrashApart DEF IInv
<1>3. CASE BulkNext /\ UNCHANGED trashVars
  BY <1>3, BulkApart DEF IInv
<1>4. ASSUME NEW p \in Paths, Vanish(p), UNCHANGED <<trashVars, bulkVars>>
      PROVE  Apart'
  <2>1. \A q \in Paths : dir'[q] = dir[q] \/ dir'[q] \notin Files \ Strangers
    BY <1>4, PlacesAssumption DEF Vanish, IInv, TypeOK
  <2> QED BY <1>4, <2>1, DialogKeeps DEF Vanish, trashVars, bulkVars
<1>5. ASSUME NEW p \in Paths, NEW f \in Strangers, Appear(p, f),
             UNCHANGED <<trashVars, bulkVars>>
      PROVE  Apart'
  <2>1. \A q \in Paths : dir'[q] = dir[q] \/ dir'[q] \notin Files \ Strangers
    BY <1>5 DEF Appear, IInv, TypeOK
  <2> QED BY <1>5, <2>1, DialogKeeps DEF Appear, trashVars, bulkVars
<1> QED BY <1>1, <1>2, <1>3, <1>4, <1>5 DEF Next

\* A file that a press of Rename has renamed is left where it is by the rest
\* of the list, unless the user agreed to names with a slash.
THEOREM RenamedOnce == Spec => OneNewName
<1>1. Init => Apart
  BY DEF Init, TrashInit, BulkInit, Apart, Renaming, Idle, Resting, Trashers
<1>2. ASSUME IInv, Apart, RenameRow, ~main.slashed,
             NEW f \in renamed \ Strangers, NEW p \in Paths, dir[p] = f
      PROVE  dir'[p] = f
  <2>1. NoRows(p) /\ Changes(Head(rows)) /\ rows # <<>>
    BY <1>2 DEF RenameRow, Apart, Renaming, IInv, TypeOK
  <2>2. Head(rows) = rows[1] /\ 1 \in DOMAIN rows
    BY <2>1, RowsAfter DEF IInv, TypeOK, Row
  <2>3. p # <<Here, Head(rows).before>> /\ p # Head(rows).after.path
    BY <2>1, <2>2 DEF NoRows
  <2> QED BY <1>2, <2>3 DEF RenameRow, Renamed, IInv, TypeOK
<1>3. IInv /\ Apart /\ [Next]_vars =>
        [RenameRow /\ ~main.slashed =>
            \A f \in renamed \ Strangers, p \in Paths : dir[p] = f => dir'[p] = f]_vars
  BY <1>2
<1>4. IInv /\ Apart /\ [Next]_vars => Apart'
  BY ApartStep
<1> QED BY <1>1, <1>3, <1>4, FilesInvariant, PTL DEF Spec, OneNewName

=============================================================================
