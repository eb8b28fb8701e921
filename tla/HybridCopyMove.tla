--------------------------- MODULE HybridCopyMove ---------------------------
(***************************************************************************)
(* Copying and moving when rsync is installed (action.c: do_copy_fast(),   *)
(* do_move_fast(), rsync_copy_list_cb() and what they call), and with the  *)
(* classic engine of CopyMove when it is not, or when the user wants to be *)
(* asked about each conflict.                                              *)
(*                                                                         *)
(* rsync itself is external: with the arguments of run_rsync_operation()   *)
(* it looks at every object below its sources, parents first, decides by   *)
(* what is at the destination whether to send it, and puts what it sends   *)
(* in place by a rename.  It may fail at any point.  An object of the same *)
(* age as the one in its place is for rsync the same object: such starts   *)
(* are left to the classic engine (RsyncStarts).                           *)
(***************************************************************************)
EXTENDS CopyMove

CONSTANT RsyncStarts        \* bound: those of Starts with rsync installed

ASSUME RsyncStartsAssumption == RsyncStarts \subseteq Starts

VARIABLES
    engine,         \* "classic"; with rsync "batch", and "each" once it is
                    \* clear that the items must be, or have been, dealt with
    oneVolume,      \* source and destination have the same st_dev
    renaming,       \* the item that do_move_fast() hands to do_move2()
    listed,         \* what the running rsync has still to look at, or the
                    \* directories remove_empty_source_dirs() has still to try
    sending,        \* what rsync has decided to send
    wrong           \* it has failed or is going to

rsyncVars == <<listed, sending, wrong>>
hybridVars == <<engine, oneVolume, renaming, rsyncVars>>
allVars == <<vars, hybridVars>>

\* use_rsync_engine; one item alone is never a batch.  Only do_move_fast() looks
\* at the volumes.
HybridInit ==
    /\ Init
    /\ \/ engine = "classic"
       \/ /\ policy # "ask"
          /\ \E st \in RsyncStarts :
               src = st.src /\ dst = st.dst /\ chosen \in {"none", st.choice}
          /\ engine = IF op = "copy" /\ Cardinality(left) > 1 THEN "batch" ELSE "each"
    /\ oneVolume \in IF engine # "classic" /\ op = "move" THEN BOOLEAN ELSE {FALSE}
    /\ renaming = <<>>
    /\ listed = {} /\ sending = {} /\ wrong = FALSE

IsDir(n) == n.kind = "dir"
Clash(info, had) == had # Absent /\ IsDir(info) # IsDir(had)

-----------------------------------------------------------------------------
(* Starting rsync.                                                         *)

\* rsync begins with these items; one that has gone is an error.
RunRsync(items) ==
    /\ pc' = "rsync"
    /\ listed' = {r \in UNION {Subtree(s) : s \in items} : src[r] # Absent}
    /\ sending' = {}
    /\ wrong' = \E s \in items : src[s] = Absent

CanBatch ==
    \A s \in left : src[s] # Absent /\ ~Clash(src[s], dst[Target(s)])

\* rsync_copy_list_cb()
BatchCopy ==
    /\ engine = "batch"
    /\ engine' = "each"
    /\ IF CanBatch
       THEN RunRsync(left) /\ left' = {}
       ELSE UNCHANGED <<pc, left, rsyncVars>>
    /\ UNCHANGED <<src, dst, op, policy, cur, open, chosen, allowed, excused, theirs,
                   oneVolume, renaming>>

\* The next item of list_cb() for do_copy_fast() or do_move_fast()
FastItem(s) == engine = "each" /\ pc = "next" /\ open = <<>> /\ renaming = <<>>
               /\ s \in Frontier

\* do_move_fast(): nothing is in the way and the volume the same.
RenameItem(s) ==
    /\ FastItem(s)
    /\ op = "move" /\ oneVolume
    /\ src[s] # Absent /\ dst[Target(s)] = Absent
    /\ renaming' = s
    /\ UNCHANGED <<vars, engine, oneVolume, rsyncVars>>

\* Unlike do_copy2(), run_rsync_operation() looks at the age of directories.
SkippedClash(info, had) ==
    \/ policy = "skip"
    \/ policy = "newer" /\ info.time <= had.time

\* run_rsync_operation() up to rsync, or up to the removal of what rsync could
\* not merge with.
RsyncItem(s) ==
    LET info == src[s]
        had  == dst[Target(s)]
    IN  /\ FastItem(s)
        /\ op = "move" /\ oneVolume /\ had = Absent => info = Absent
        /\ left' = left \ {s}
        /\ \/ /\ info = Absent \/ (Clash(info, had) /\ SkippedClash(info, had))
              /\ excused' = excused \cup {s}
              /\ UNCHANGED <<pc, cur, allowed, rsyncVars>>
           \/ /\ info # Absent /\ Clash(info, had) /\ ~SkippedClash(info, had)
              /\ cur' = [path |-> s, info |-> info, had |-> had]
              /\ pc' = "clash"
              /\ allowed' = IF chosen = "none" THEN allowed ELSE allowed \cup {s}
              /\ UNCHANGED <<excused, rsyncVars>>
           \/ /\ info # Absent /\ ~Clash(info, had)
              /\ cur' = [path |-> s, info |-> info, had |-> had]
              /\ RunRsync({s})
              /\ UNCHANGED <<allowed, excused>>
        /\ UNCHANGED <<src, dst, op, policy, open, chosen, theirs,
                       engine, oneVolume, renaming>>

\* rmdir() or unlink(); what has gone by itself is an error here.
RemoveClash ==
    /\ pc = "clash"
    /\ \/ /\ Removable
          /\ dst' = [dst EXCEPT ![Here] = Absent]
          /\ RunRsync({cur.path}) /\ UNCHANGED <<cur, excused>>
       \/ GiveUp /\ UNCHANGED <<dst, rsyncVars>>
    /\ UNCHANGED <<src, op, policy, open, left, chosen, allowed, theirs,
                   engine, oneVolume, renaming>>

-----------------------------------------------------------------------------
(* rsync at work.                                                          *)

\* --ignore-existing, and --update, which is about regular files
KeptByRsync(info, had) ==
    \/ policy = "skip"
    \/ policy = "newer" /\ info.kind = "file" /\ had.kind \in {"file", "part"}
                        /\ info.time <= had.time

\* The generator looks at r and at what is in its place.
Look(r) ==
    LET info == src[r]
        had  == dst[Target(r)]
    IN  /\ pc = "rsync"
        /\ r \in listed /\ \A q \in listed \cup sending : ~Beneath(q, r)
        /\ listed' = listed \ {r}
        /\ \/ /\ info = Absent \/ ~HasPlace(Target(r))
              /\ wrong' = TRUE
              /\ UNCHANGED <<dst, sending, allowed, excused>>
           \/ /\ info # Absent /\ HasPlace(Target(r)) /\ had = Absent
              /\ IF IsDir(info)
                 THEN dst' = [dst EXCEPT ![Target(r)] = info] /\ UNCHANGED sending
                 ELSE sending' = sending \cup {r} /\ UNCHANGED dst
              /\ UNCHANGED <<allowed, excused, wrong>>
           \/ /\ MergesDirs(info, had)
              /\ UNCHANGED <<dst, sending, allowed, excused, wrong>>
           \/ /\ info # Absent /\ had # Absent /\ ~MergesDirs(info, had)
              /\ KeptByRsync(info, had)
              /\ excused' = excused \cup {r}
              /\ UNCHANGED <<dst, sending, allowed, wrong>>
           \/ /\ info # Absent /\ had # Absent /\ ~MergesDirs(info, had)
              /\ ~KeptByRsync(info, had)
              /\ IF IsDir(had) /\ Children(dst, Target(r)) # {}
                 THEN wrong' = TRUE /\ UNCHANGED <<sending, allowed>>
                 ELSE /\ sending' = sending \cup {r}
                      /\ allowed' = IF chosen = "none" THEN allowed ELSE allowed \cup {r}
                      /\ UNCHANGED wrong
              /\ UNCHANGED <<dst, excused>>
        /\ UNCHANGED <<src, op, policy, pc, cur, open, left, chosen, theirs,
                       engine, oneVolume, renaming>>

\* Mutant of Arrive: the file is removed at its source whatever has become of it.
ArriveOrNot(r) ==
    /\ pc = "rsync" /\ r \in sending
    /\ sending' = sending \ {r}
    /\ dst' = dst
    /\ src' = IF op = "move" THEN [src EXCEPT ![r] = Absent] ELSE src
    /\ UNCHANGED <<op, policy, pc, cur, open, left, chosen, allowed, excused, theirs,
                   engine, oneVolume, renaming, listed, wrong>>

\* The receiver renames the copy of r to its place, and --remove-source-files
\* then removes r, unless it is a directory.
Arrive(r) ==
    /\ pc = "rsync" /\ r \in sending
    /\ src[r] # Absent /\ HasPlace(Target(r)) /\ ~IsDir(dst[Target(r)])
    /\ sending' = sending \ {r}
    /\ dst' = [dst EXCEPT ![Target(r)] = src[r]]
    /\ src' = IF op = "move" /\ ~IsDir(src[r]) THEN [src EXCEPT ![r] = Absent] ELSE src
    /\ UNCHANGED <<op, policy, pc, cur, open, left, chosen, allowed, excused, theirs,
                   engine, oneVolume, renaming, listed, wrong>>

\* r cannot be read or written.
NotSent(r) ==
    /\ pc = "rsync" /\ r \in sending
    /\ sending' = sending \ {r}
    /\ wrong' = TRUE
    /\ UNCHANGED <<vars, engine, oneVolume, renaming, listed>>

\* It dies or cannot be started; --partial keeps what has come of a file.
RsyncDies ==
    /\ pc = "rsync"
    /\ wrong => listed \cup sending # {}
    /\ listed' = {} /\ sending' = {} /\ wrong' = TRUE
    /\ \/ UNCHANGED dst
       \/ \E r \in sending :
             /\ src[r] # Absent /\ HasPlace(Target(r)) /\ ~IsDir(dst[Target(r)])
             /\ dst' = [dst EXCEPT ![Target(r)] = CutShort(src[r])]
    /\ UNCHANGED <<src, op, policy, pc, cur, open, left, chosen, allowed, excused,
                   theirs, engine, oneVolume, renaming>>

\* Mutant of RsyncEnds: its exit status is not looked at.
RsyncEndsWell ==
    /\ pc = "rsync" /\ listed = {} /\ sending = {}
    /\ Passed /\ UNCHANGED <<listed, excused>>
    /\ UNCHANGED <<src, dst, op, policy, open, left, chosen, allowed, theirs,
                   engine, oneVolume, renaming, sending, wrong>>

\* rsync has ended.  A failure is reported; after a move the directories that
\* are left are looked at.  (Without an item in hand it was a batch.)
RsyncEnds ==
    /\ pc = "rsync" /\ listed = {} /\ sending = {}
    /\ IF wrong
       THEN /\ Passed /\ UNCHANGED listed
            /\ excused' = excused \cup IF cur = Idle THEN Selected ELSE {cur.path}
       ELSE /\ UNCHANGED excused
            /\ IF op = "move" /\ IsDir(src[cur.path])
               THEN /\ pc' = "tidy" /\ UNCHANGED cur
                    /\ listed' = {r \in Subtree(cur.path) : IsDir(src[r])}
               ELSE Passed /\ UNCHANGED listed
    /\ UNCHANGED <<src, dst, op, policy, open, left, chosen, allowed, theirs,
                   engine, oneVolume, renaming, sending, wrong>>

\* Mutant of Tidy: the directory is removed with what is in it.
TidyAll(r) ==
    /\ pc = "tidy" /\ r \in listed /\ \A q \in listed : ~Beneath(r, q)
    /\ listed' = listed \ {r}
    /\ src' = [q \in Sources |-> IF q \in Subtree(r) THEN Absent ELSE src[q]]
    /\ UNCHANGED <<dst, op, policy, pc, cur, open, left, chosen, allowed, excused,
                   theirs, engine, oneVolume, renaming, sending, wrong>>

\* remove_empty_source_dirs(): rmdir() of the innermost first
Tidy(r) ==
    /\ pc = "tidy" /\ r \in listed /\ \A q \in listed : ~Beneath(r, q)
    /\ listed' = listed \ {r}
    /\ \/ /\ IsDir(src[r]) /\ Children(src, r) = {}
          /\ src' = [src EXCEPT ![r] = Absent]
       \/ UNCHANGED src
    /\ UNCHANGED <<dst, op, policy, pc, cur, open, left, chosen, allowed, excused,
                   theirs, engine, oneVolume, renaming, sending, wrong>>

Tidied ==
    /\ pc = "tidy" /\ listed = {}
    /\ Passed
    /\ UNCHANGED <<src, dst, op, policy, open, left, chosen, allowed, excused, theirs,
                   hybridVars>>

-----------------------------------------------------------------------------
\* An object for do_copy2() or do_move2()
ClassicVisit(s) ==
    /\ engine = "classic" \/ open # <<>> \/ renaming = s
    /\ Visit(s)
    /\ renaming' = <<>>
    /\ UNCHANGED <<engine, oneVolume, rsyncVars>>

Rsync ==
    \/ \E r \in Sources : Look(r) \/ Arrive(r) \/ NotSent(r) \/ Tidy(r)
    \/ RsyncDies \/ RsyncEnds \/ Tidied

HybridChild ==
    \/ \E s \in Sources : ClassicVisit(s) \/ RenameItem(s) \/ RsyncItem(s)
    \/ BatchCopy \/ RemoveClash \/ Rsync
    \/ (Clear \/ Make \/ Leave \/ Finish) /\ UNCHANGED hybridVars

HybridNext ==
    \/ HybridChild
    \/ (User \/ Others) /\ UNCHANGED hybridVars

HybridSpec == HybridInit /\ [][HybridNext]_allVars
HybridFairSpec == HybridSpec /\ WF_allVars(HybridChild)

=============================================================================
