------------------------------- MODULE Places -------------------------------
(* The places where trash.c and bulk_rename.c put files: the directories of  *)
(* the user and the two directories of the Trash, as those two files use     *)
(* them, and the programs that use the same directories.                     *)
(*                                                                           *)
(* A file is a whole item: a regular file, a link, or a directory with all   *)
(* below it. Everything is on one file system, so that a move is a rename.   *)
EXTENDS Naturals, FiniteSets

CONSTANTS
    Paths,      \* pairs <<folder, leaf>>
    Files,      \* items, wherever they are
    Dangling,   \* those that are links to nothing
    Strangers,  \* those that other programs may make or remove
    Thrown,     \* bound: the paths whose items are moved to the Trash
    Indices,    \* bound: 0..n, the numbers unique_trash_name() may have to try
    None

ASSUME PlacesAssumption ==
    /\ None \notin Files \cup Paths
    /\ Strangers \subseteq Files
    /\ Thrown \subseteq Paths
    /\ Indices \subseteq Nat

Leaf(p) == p[2]

\* The leaf names of ~/.local/share/Trash/files: "a", "a.1", "a.2"...
Slots == {Leaf(p) : p \in Thrown} \X Indices

VARIABLES
    dir,        \* [Paths -> Files \cup {None}]
    trashed,    \* Trash/files: [Slots -> Files \cup {None}]
    info,       \* Trash/info: [Slots -> Paths \cup {None}], the Path= of each
    gone,       \* ghost: deleted when the Trash was emptied
    main        \* what the main process is in the middle of

placeVars == <<dir, trashed, info>>

Idle == [doing |-> "idle"]

\* access() and G_FILE_TEST_EXISTS follow links.
Exists(f) == f # None /\ f \notin Dangling

\* rename(2), or g_file_move() once it has found nothing at the destination.
\* What was there is overwritten.
Renamed(p, q) == dir' = [dir EXCEPT ![p] = None, ![q] = dir[p]]

Present(f) == (\E p \in Paths : dir[p] = f) \/ (\E s \in Slots : trashed[s] = f)

\* Another program makes a file.
Appear(p, f) ==
    /\ dir[p] = None
    /\ f \in Strangers /\ ~Present(f)
    /\ dir' = [dir EXCEPT ![p] = f]
    /\ UNCHANGED <<trashed, info, gone, main>>

\* Another program removes a file.
Vanish(p) ==
    /\ dir[p] \in Strangers
    /\ dir' = [dir EXCEPT ![p] = None]
    /\ UNCHANGED <<trashed, info, gone, main>>
=============================================================================
