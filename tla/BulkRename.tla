----------------------------- MODULE BulkRename -----------------------------
(* The bulk rename dialog (bulk_rename.c): a list of old and new names, and  *)
(* Rename, which checks them all and then renames row by row, taking each    *)
(* done row off the list, so that after an error Rename can be pressed       *)
(* again. The whole of rename_items() keeps the main process busy; other     *)
(* processes act in between.                                                 *)
(*                                                                           *)
(* A new name is a record: the path it leads to and how it is spelled, as a  *)
(* leaf name or with a slash. The same place can be named in several ways.   *)
EXTENDS Places, Sequences

CONSTANTS
    Here,           \* the folder of the dialog
    NewNames,       \* the new names that the user may type
    Selection,      \* the leaf names of the items selected for the dialog
    Substitutions   \* what an expression may make of the new names

VARIABLES
    rows,       \* sequence of [before, after]; <<>> when there is no dialog
    renamed     \* ghost: the files this press of Rename has renamed

bulkVars == <<rows, renamed>>

Plain(leaf) == [path |-> <<Here, leaf>>, spelled |-> "leaf"]

\* A new name that is left empty.
Empty == [path |-> None, spelled |-> "leaf"]

Names == NewNames \cup {Plain(leaf) : leaf \in Selection}

ASSUME NamesAssumption ==
    /\ IsFiniteSet(Selection)
    /\ \A leaf \in Selection : <<Here, leaf>> \in Paths
    /\ NewNames \subseteq [path: Paths, spelled: STRING] \cup {Empty}
    /\ Substitutions \subseteq [Names -> Names]

\* bulk_rename()
OpenDialog ==
    /\ main = Idle /\ rows = <<>>
    /\ \E order \in [1..Cardinality(Selection) -> Selection] :
          /\ \A i, j \in DOMAIN order : i # j => order[i] # order[j]
          /\ rows' = [i \in DOMAIN order |->
                        [before |-> order[i], after |-> Plain(order[i])]]
    /\ UNCHANGED <<placeVars, gone, main, renamed>>

\* cell_edited()
Edit(i, name) ==
    /\ main = Idle
    /\ rows' = [rows EXCEPT ![i].after = name]
    /\ UNCHANGED <<placeVars, gone, main, renamed>>

\* update_model(), with what subst() makes of each name.
Apply(subst) ==
    /\ main = Idle
    /\ rows' = [i \in DOMAIN rows |-> [rows[i] EXCEPT !.after = subst[@]]]
    /\ UNCHANGED <<placeVars, gone, main, renamed>>

\* reset_model()
Reset ==
    /\ main = Idle
    /\ rows' = [i \in DOMAIN rows |-> [rows[i] EXCEPT !.after = Plain(rows[i].before)]]
    /\ UNCHANGED <<placeVars, gone, main, renamed>>

CloseDialog ==
    /\ main = Idle /\ rows # <<>>
    /\ rows' = <<>>
    /\ UNCHANGED <<placeVars, gone, main, renamed>>

-----------------------------------------------------------------------------
(* rename_items()                                                            *)

Changes(row) == row.after # Empty /\ row.after # Plain(row.before)

Changing == {i \in DOMAIN rows : Changes(rows[i])}

\* Mutant of NoneTwice: only the new names are compared with each other.
NoneTwiceAmongNew ==
    \A i, j \in Changing : i # j => rows[i].after # rows[j].after

\* "Filename used twice!": no name stands for two things in the list.
NoneTwice ==
    /\ \A i, j \in DOMAIN rows : i # j => rows[i].before # rows[j].before
    /\ \A i \in Changing, j \in DOMAIN rows : rows[i].after # Plain(rows[j].before)
    /\ \A i, j \in Changing : i # j => rows[i].after # rows[j].after

Acceptable ==
    /\ NoneTwice
    /\ \A i \in Changing : ~Exists(dir[rows[i].after.path])
    /\ Changing # {}

Slashed == \E i \in DOMAIN rows : rows[i].after.spelled # "leaf"

\* Rename is pressed; a list that is not acceptable is reported and kept.
Press ==
    /\ main = Idle /\ rows # <<>>
    /\ Acceptable
    /\ main' = [doing |-> IF Slashed THEN "asking about slashes" ELSE "rename",
                slashed |-> Slashed]
    /\ UNCHANGED <<placeVars, gone, rows, renamed>>

AnswerSlashes(accepted) ==
    /\ main.doing = "asking about slashes"
    /\ main' = IF accepted THEN [main EXCEPT !.doing = "rename"] ELSE Idle
    /\ UNCHANGED <<placeVars, gone, rows, renamed>>

\* The first row is done. After the last, the dialog is destroyed.
RowDone ==
    /\ rows' = Tail(rows)
    /\ main' = IF Len(rows) = 1 THEN Idle ELSE [main EXCEPT !.doing = "rename"]

KeepName ==
    /\ main.doing = "rename" /\ ~Changes(Head(rows))
    /\ RowDone
    /\ renamed' = IF Len(rows) = 1 THEN {} ELSE renamed
    /\ UNCHANGED <<placeVars, gone>>

\* Mutant of CheckAgain: the check before the renaming is trusted.
CheckAgainNever ==
    /\ main.doing = "rename" /\ Changes(Head(rows))
    /\ main' = [main EXCEPT !.doing = "checked"]
    /\ UNCHANGED <<placeVars, gone, rows, renamed>>

\* do_rename(): "Check again, just in case". What follows the abort is for
\* the user to press Rename again, or to edit the rows that are left.
CheckAgain ==
    /\ main.doing = "rename" /\ Changes(Head(rows))
    /\ IF Exists(dir[Head(rows).after.path])
         THEN main' = Idle /\ renamed' = {}
         ELSE main' = [main EXCEPT !.doing = "checked"] /\ UNCHANGED renamed
    /\ UNCHANGED <<placeVars, gone, rows>>

\* rename(before, after)
RenameRow ==
    /\ main.doing = "checked"
    /\ LET from == <<Here, Head(rows).before>>
           to == Head(rows).after.path
       IN  /\ dir[from] # None
           /\ IF from = to THEN UNCHANGED dir ELSE Renamed(from, to)
           /\ renamed' = IF Len(rows) = 1 THEN {} ELSE renamed \cup {dir[from]}
    /\ RowDone
    /\ UNCHANGED <<trashed, info, gone>>

\* It fails: the file has gone, or the system refuses.
RenameFails ==
    /\ main.doing = "checked"
    /\ main' = Idle /\ renamed' = {}
    /\ UNCHANGED <<placeVars, gone, rows>>

BulkInit == rows = <<>> /\ renamed = {}

BulkNext ==
    \/ OpenDialog
    \/ \E i \in DOMAIN rows, name \in NewNames : Edit(i, name)
    \/ \E subst \in Substitutions : Apply(subst)
    \/ Reset
    \/ CloseDialog
    \/ Press
    \/ \E accepted \in BOOLEAN : AnswerSlashes(accepted)
    \/ KeepName \/ CheckAgain \/ RenameRow \/ RenameFails
=============================================================================
