------------------------------- MODULE Trash --------------------------------
(* The Trash (trash.c): moving items there, one process per operation        *)
(* (action.c, trash_cb()) or the main process itself (desktop.c), restoring  *)
(* them and emptying it, both in the main process. Each action is what one   *)
(* process does up to its next change of the file system; the others, and    *)
(* other programs, may act in between.                                       *)
EXTENDS Places

CONSTANTS
    Children,   \* processes that move items to the Trash
    Self        \* the main process doing so

ASSUME TrashersAssumption == Self \notin Children

Trashers == Children \cup {Self}

VARIABLES
    task,       \* [Trashers -> records]: how far rox_trash_file() has come
    origin,     \* ghost: where each item in the Trash came from
    shared      \* ghost: slots that two operations used at once

trashVars == <<task, origin, shared>>

Resting == [at |-> "rest", path |-> None, slot |-> None]

Holds(p, s) == task[p].at # "rest" /\ task[p].slot = s

\* Something is put in slot s by p: is anybody else using it?
ShareOf(p, s) ==
    IF (\E q \in Trashers \ {p} : Holds(q, s)) \/ main.doing = "empty info"
    THEN {s} ELSE {}

-----------------------------------------------------------------------------
(* rox_trash_file()                                                          *)

\* The main process works for one thing at a time.
MayStart(p) == p = Self => main = Idle

Working(p) == main' = IF p = Self THEN [doing |-> "trash"] ELSE main

Rested(p) ==
    /\ task' = [task EXCEPT ![p] = Resting]
    /\ main' = IF p = Self THEN Idle ELSE main

\* g_file_trash() does it: GIO makes the information file exclusively.
GioTrash(p, path) ==
    /\ task[p].at = "rest" /\ MayStart(p)
    /\ dir[path] # None
    /\ \E s \in Slots :
          /\ s[1] = Leaf(path) /\ trashed[s] = None /\ info[s] = None
          /\ trashed' = [trashed EXCEPT ![s] = dir[path]]
          /\ info' = [info EXCEPT ![s] = path]
          /\ shared' = shared \cup ShareOf(p, s)
    /\ dir' = [dir EXCEPT ![path] = None]
    /\ origin' = [origin EXCEPT ![dir[path]] = path]
    /\ UNCHANGED <<task, gone, main>>

\* unique_trash_name(): the first free number.
FreeSlots(leaf) ==
    {s \in Slots : s[1] = leaf /\ ~Exists(trashed[s]) /\ info[s] = None}

UniqueName(leaf) ==
    CHOOSE s \in FreeSlots(leaf) : \A t \in FreeSlots(leaf) : s[2] <= t[2]

\* GIO does not support it, or fails: the fallback chooses a name.
Choose(p, path) ==
    /\ task[p].at = "rest" /\ MayStart(p)
    /\ dir[path] # None
    /\ FreeSlots(Leaf(path)) # {}
    /\ LET s == UniqueName(Leaf(path))
       IN  /\ task' = [task EXCEPT ![p] = [at |-> "chosen", path |-> path, slot |-> s]]
           /\ shared' = shared \cup ShareOf(p, s)
    /\ Working(p)
    /\ UNCHANGED <<placeVars, origin, gone>>

\* g_file_set_contents() replaces what is there.
WriteInfo(p) ==
    /\ task[p].at = "chosen"
    /\ info' = [info EXCEPT ![task[p].slot] = task[p].path]
    /\ task' = [task EXCEPT ![p].at = "written"]
    /\ UNCHANGED <<dir, trashed, origin, shared, gone, main>>

WriteInfoFails(p) ==
    /\ task[p].at = "chosen"
    /\ Rested(p)
    /\ UNCHANGED <<placeVars, origin, shared, gone>>

\* g_file_move() without G_FILE_COPY_OVERWRITE.
CanMove(p) == dir[task[p].path] # None /\ trashed[task[p].slot] = None

MoveThere(p) ==
    /\ task[p].at = "written" /\ CanMove(p)
    /\ LET f == dir[task[p].path]
       IN  /\ trashed' = [trashed EXCEPT ![task[p].slot] = f]
           /\ origin' = [origin EXCEPT ![f] = task[p].path]
    /\ dir' = [dir EXCEPT ![task[p].path] = None]
    /\ Rested(p)
    /\ UNCHANGED <<info, shared, gone>>

\* It may fail for other reasons as well.
MoveFails(p) ==
    /\ task[p].at = "written"
    /\ task' = [task EXCEPT ![p].at = "failed"]
    /\ UNCHANGED <<placeVars, origin, shared, gone, main>>

UnlinkInfo(p) ==
    /\ task[p].at = "failed"
    /\ info' = [info EXCEPT ![task[p].slot] = None]
    /\ Rested(p)
    /\ UNCHANGED <<dir, trashed, origin, shared, gone>>

\* Cancel: abort_operation() kills the process of the operation.
Killed(p) ==
    /\ p \in Children /\ task[p].at # "rest"
    /\ task' = [task EXCEPT ![p] = Resting]
    /\ UNCHANGED <<placeVars, origin, shared, gone, main>>

-----------------------------------------------------------------------------
(* restore_one(), for one of the items selected in the window on the Trash   *)

\* original_path_for_name() and the tests; what fails them is reported and
\* nothing done.
RestoreRead(s) ==
    /\ main = Idle
    /\ info[s] # None /\ ~Exists(dir[info[s]])
    /\ main' = [doing |-> "restore", slot |-> s, to |-> info[s]]
    /\ UNCHANGED <<placeVars, trashVars, gone>>

RestoreMove ==
    /\ main.doing = "restore"
    /\ trashed[main.slot] # None /\ dir[main.to] = None
    /\ dir' = [dir EXCEPT ![main.to] = trashed[main.slot]]
    /\ trashed' = [trashed EXCEPT ![main.slot] = None]
    /\ main' = [doing |-> "restored", slot |-> main.slot]
    /\ origin' = [origin EXCEPT ![trashed[main.slot]] = None]
    /\ UNCHANGED <<info, task, shared, gone>>

RestoreFails ==
    /\ main.doing = "restore"
    /\ main' = Idle
    /\ UNCHANGED <<placeVars, trashVars, gone>>

\* g_unlink() of the information, which may fail with a warning.
RestoreUnlink ==
    /\ main.doing = "restored"
    /\ \E left \in {None, info[main.slot]} : info' = [info EXCEPT ![main.slot] = left]
    /\ main' = Idle
    /\ UNCHANGED <<dir, trashed, trashVars, gone>>

-----------------------------------------------------------------------------
(* rox_trash_empty(). Entries that come while a directory is read may be     *)
(* seen or not.                                                              *)

Filled == {s \in Slots : trashed[s] # None}
Informed == {s \in Slots : info[s] # None}

AskToEmpty ==
    /\ main = Idle /\ Filled # {}
    /\ main' = [doing |-> "asking to empty"]
    /\ UNCHANGED <<placeVars, trashVars, gone>>

AnswerEmpty(accepted) ==
    /\ main.doing = "asking to empty"
    /\ main' = IF accepted THEN [doing |-> "empty files", left |-> Filled, seen |-> {}] ELSE Idle
    /\ UNCHANGED <<placeVars, trashVars, gone>>

\* The next entry; deleting it may fail, which is reported.
EmptyFile(s, deleted) ==
    /\ main.doing = "empty files"
    /\ s \in (main.left \cup Filled) \ main.seen
    /\ trashed' = [trashed EXCEPT ![s] = IF deleted THEN None ELSE @]
    /\ gone' = gone \cup (IF deleted THEN ({trashed[s]} \cap Files) \ Strangers ELSE {})
    /\ origin' = [f \in Files |-> IF deleted /\ f = trashed[s] THEN None ELSE origin[f]]
    /\ main' = [main EXCEPT !.left = @ \ {s}, !.seen = @ \cup {s}]
    /\ UNCHANGED <<dir, info, task, shared>>

\* Mutant of FilesEmptied: the information goes even if some item stayed.
FilesEmptiedAnyway ==
    /\ main.doing = "empty files" /\ main.left = {}
    /\ main' = [doing |-> "empty info", left |-> Informed]
    /\ shared' = shared \cup {task[p].slot : p \in {q \in Trashers : task[q].at # "rest"}}
    /\ UNCHANGED <<placeVars, task, origin, gone>>

\* The information is emptied only if no item is left; whoever is between
\* writing it and moving the item loses it.
FilesEmptied ==
    /\ main.doing = "empty files" /\ main.left = {}
    /\ IF Filled = {}
         THEN /\ main' = [doing |-> "empty info", left |-> Informed]
              /\ shared' = shared \cup {task[p].slot : p \in {q \in Trashers : task[q].at # "rest"}}
         ELSE main' = Idle /\ UNCHANGED shared
    /\ UNCHANGED <<placeVars, task, origin, gone>>

EmptyInfo(s) ==
    /\ main.doing = "empty info"
    /\ s \in main.left \cup Informed
    /\ info' = [info EXCEPT ![s] = None]
    /\ main' = [main EXCEPT !.left = @ \ {s}]
    /\ UNCHANGED <<dir, trashed, trashVars, gone>>

InfoEmptied ==
    /\ main.doing = "empty info" /\ main.left = {}
    /\ main' = Idle
    /\ UNCHANGED <<placeVars, trashVars, gone>>

-----------------------------------------------------------------------------
TrashInit ==
    /\ trashed = [s \in Slots |-> None]
    /\ info = [s \in Slots |-> None]
    /\ task = [p \in Trashers |-> Resting]
    /\ origin = [f \in Files |-> None]
    /\ shared = {}

TrashNext ==
    \/ \E p \in Trashers :
         \/ \E path \in Thrown : GioTrash(p, path) \/ Choose(p, path)
         \/ WriteInfo(p) \/ WriteInfoFails(p)
         \/ MoveThere(p) \/ MoveFails(p) \/ UnlinkInfo(p)
         \/ Killed(p)
    \/ \E s \in Slots :
         \/ RestoreRead(s)
         \/ EmptyInfo(s)
         \/ \E deleted \in BOOLEAN : EmptyFile(s, deleted)
    \/ RestoreMove \/ RestoreFails \/ RestoreUnlink
    \/ AskToEmpty
    \/ \E accepted \in BOOLEAN : AnswerEmpty(accepted)
    \/ FilesEmptied \/ InfoEmptied
=============================================================================
