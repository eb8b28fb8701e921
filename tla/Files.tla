------------------------------- MODULE Files --------------------------------
(* The Trash and the bulk rename dialog on the same directories, with other  *)
(* programs: the main process does one thing at a time, the processes that   *)
(* move items to the Trash and the other programs act whenever they like.    *)
EXTENDS Trash, BulkRename

vars == <<placeVars, gone, main, trashVars, bulkVars>>

Init ==
    /\ \E there \in [Paths -> Files \cup {None}] :
          /\ \A p, q \in Paths : p # q /\ there[p] # None => there[p] # there[q]
          /\ \A f \in Files \ Strangers : \E p \in Paths : there[p] = f
          /\ dir = there
    /\ gone = {}
    /\ main = Idle
    /\ TrashInit
    /\ BulkInit

Next ==
    \/ TrashNext /\ UNCHANGED bulkVars
    \/ BulkNext /\ UNCHANGED trashVars
    \/ /\ \E p \in Paths : Vanish(p) \/ \E f \in Strangers : Appear(p, f)
       /\ UNCHANGED <<trashVars, bulkVars>>

Spec == Init /\ [][Next]_vars

-----------------------------------------------------------------------------
(* Properties                                                                *)

\* Types, and how far the main process is with the list of the dialog.
TypeOK ==
    /\ dir \in [Paths -> Files \cup {None}]
    /\ trashed \in [Slots -> Files \cup {None}]
    /\ info \in [Slots -> Paths \cup {None}]
    /\ task \in [Trashers -> [at: {"rest", "chosen", "written", "failed"},
                              path: Paths \cup {None}, slot: Slots \cup {None}]]
    /\ \A p \in Trashers :
          task[p].at # "rest" => task[p].path \in Paths /\ task[p].slot \in Slots
    /\ rows \in Seq([before: Selection, after: Names])
    /\ "doing" \in DOMAIN main
    /\ main.doing = "restore" => main.slot \in Slots /\ main.to \in Paths
    /\ main.doing \in {"asking about slashes", "rename", "checked"} => rows # <<>>

\* Nothing is lost on the way to the Trash, back, or to a new name, whatever
\* fails or is killed and whoever else is at work: a file is somewhere,
\* unless the emptying of the Trash deleted it or it is a link to nothing, which
\* access() does not see. (Files that other programs make are left out: one
\* that comes between the second look and rename() is overwritten.)
NothingLost == \A f \in Files \ Strangers : Present(f) \/ f \in gone \/ f \in Dangling

\* No file is in two places.
InOnePlace ==
    /\ \A p, q \in Paths : p # q /\ dir[p] # None => dir[p] # dir[q]
    /\ \A s, t \in Slots : s # t /\ trashed[s] # None => trashed[s] # trashed[t]
    /\ \A p \in Paths, s \in Slots : dir[p] # None => dir[p] # trashed[s]

\* An item in the Trash can be restored: its information is there and names
\* the place it came from, however the operations that failed, were killed or
\* emptied the Trash before left it; but for a slot that two operations
\* chose at once or that was filled while the information was being deleted.
Restorable ==
    \A s \in Filled \ shared :
        main # [doing |-> "restored", slot |-> s] => info[s] = origin[trashed[s]]

\* One press of Rename gives a file one new name: no row takes up the file
\* that an earlier row has renamed, however the list is ordered and whatever
\* has come and gone since it was made, unless the user agreed to names
\* with a slash. (Files that other programs make are left out: one that they
\* remove and make again counts as the same.)
OneNewName ==
    [][RenameRow /\ ~main.slashed =>
          \A f \in renamed \ Strangers, p \in Paths : dir[p] = f => dir'[p] = f]_vars
=============================================================================
