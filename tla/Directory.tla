----------------------------- MODULE Directory -----------------------------
(***************************************************************************)
(* One Directory object of ROX-Filer (src/ROX-Filer/src/dir.c), the file   *)
(* system directory it caches and the filer windows attached to it.        *)
(*                                                                         *)
(* The object keeps one DirItem per file.  Its users (the windows) hold    *)
(* pointers to the same DirItems and are told about changes in batches:    *)
(* DIR_ADD, DIR_UPDATE and DIR_REMOVE carry the arrays new_items, up_items *)
(* and gone_items.  Work is spread over the callbacks of the GLib main     *)
(* loop: the idle recheck, the 1.5 s notify timer, the 300 ms rescan timer *)
(* and the file monitor.  The main loop runs one callback at a time and no *)
(* function of dir.c re-enters it, so each callback is one action here and *)
(* the functions it calls are operators from Directory records to          *)
(* Directory records.                                                      *)
(***************************************************************************)
EXTENDS Integers, FiniteSets

CONSTANTS
    Names,              \* leaf names a file can have
    Hidden,             \* those that start with a dot
    Windows,            \* filer windows
    Details,            \* what a stat of an existing file can return
    Touched,            \* names other parts of the program report as changed
    DirStates,          \* what the directory can become: "ok", "locked", "gone"
    Nums,               \* tell apart the DirItems that share a leaf name (bound)
    CloseWhenMissing    \* the option close_dir_when_missing

NoDetails == 0          \* base_type is TYPE_UNKNOWN; of a file: it is absent

ASSUME NamesAssumption   == Hidden \subseteq Names /\ Touched \subseteq Names
ASSUME StatesAssumption  == DirStates \subseteq {"ok", "locked", "gone"}
ASSUME DetailsAssumption == NoDetails \notin Details
ASSUME NumsAssumption    == Nums \subseteq Nat /\ \E b \in Nums : \A k \in Nums : k <= b
ASSUME OptionAssumption  == CloseWhenMissing \in BOOLEAN

\* A DirItem is identified by its leaf name and a number, so that two structs
\* with the same name are two items.
Item == [leaf: Names, no: Nums]

VARIABLES
    disk,               \* [Names -> details of the file, NoDetails if absent]
    dirState,           \* the directory itself: "ok", "locked" or "gone"
    event,              \* a file monitor event is on its way
    stampOld,           \* the directory's stat differs from the cached one
    dir                 \* struct _Directory, its DirItems and its users' views

vars == <<disk, dirState, event, stampOld, dir>>

DirRecord ==
    [ freed:       SUBSET Item,      \* freed, while something points to them
      misused:     SUBSET Item,      \* history: passed to windows after that
      details:     [Item -> Details \cup {NoDetails}],
      flagged:     SUBSET Item,                    \* ITEM_FLAG_NEED_RESCAN_QUEUE
      known:       SUBSET Item,                    \* known_items
      new:         SUBSET Item,                    \* new_items
      up:          SUBSET Item,                    \* up_items
      gone:        SUBSET Item,                    \* gone_items
      recheck:     SUBSET Names,                   \* recheck_list
      users:       SUBSET Windows,
      showHidden:  SUBSET Windows,                 \* windows with show_hidden set
      view:        [Windows -> SUBSET Item],       \* items each window shows
      stale:       [Windows -> SUBSET Item],       \* shown with details since changed
      scanning:    BOOLEAN,
      needsUpdate: BOOLEAN,
      notify:      BOOLEAN,                        \* notify_active
      idle:        BOOLEAN,                        \* idle_callback # 0
      timer:       BOOLEAN,                        \* rescan_timeout # -1
      error:       BOOLEAN,                        \* error # NULL
      closing:     BOOLEAN,    \* a filer_close_recursive() idle call is queued
      missed:      BOOLEAN ]   \* history: a change since the last listing of
                               \* the directory that nobody will announce

TypeOK ==
    /\ disk \in [Names -> Details \cup {NoDetails}]
    /\ dirState \in {"ok", "locked", "gone"}
    /\ event \in BOOLEAN
    /\ stampOld \in BOOLEAN
    /\ dir \in DirRecord

NewDirectory ==
    [ freed |-> {}, misused |-> {}, details |-> [i \in Item |-> NoDetails], flagged |-> {},
      known |-> {}, new |-> {}, up |-> {}, gone |-> {}, recheck |-> {},
      users |-> {}, showHidden |-> {}, view |-> [w \in Windows |-> {}],
      stale |-> [w \in Windows |-> {}],
      scanning |-> FALSE, needsUpdate |-> TRUE, notify |-> FALSE,
      idle |-> FALSE, timer |-> FALSE, error |-> FALSE, closing |-> FALSE,
      missed |-> FALSE ]

Init ==
    /\ disk \in [Names -> Details \cup {NoDetails}]
    /\ dirState = "ok"
    /\ event = FALSE
    /\ stampOld = FALSE
    /\ dir = NewDirectory

-----------------------------------------------------------------------------
(* Items and views.                                                        *)

Leaves(S) == {i.leaf : i \in S}

\* filer_match_filter(): a window leaves out only hidden files.
Shows(d, w, i) == w \in d.showHidden \/ i.leaf \notin Hidden

\* Every item some part of the program still points to.
Referenced(d) ==
    d.known \cup d.new \cup d.up \cup d.gone \cup UNION {d.view[w] : w \in Windows}

\* An unused identity, above those of the pending items of the same name, so
\* that the number tells which of two was appended to new_items last.
Usable(d, n, k) ==
    /\ [leaf |-> n, no |-> k] \notin Referenced(d)
    /\ \A i \in d.new : i.leaf = n => i.no < k

LeastUsable(d, n, k) ==
    Usable(d, n, k) /\ \A j \in Nums : Usable(d, n, j) => k <= j

Fresh(d, n) ==
    [leaf |-> n,
     no   |-> IF \E k \in Nums : LeastUsable(d, n, k)
              THEN CHOOSE k \in Nums : LeastUsable(d, n, k)
              ELSE CHOOSE k \in Nums : TRUE]

\* Enough identities: a step creates at most two items of a name, and calls
\* from outside leave two for the callbacks.
Room(d, spare) ==
    \A n \in Names : Cardinality({k \in Nums : Usable(d, n, k)}) >= spare

\* What nothing points to any more is as if it had never been.
Tidy(d) ==
    [d EXCEPT !.freed   = @ \cap Referenced(d),
              !.flagged = @ \cap Referenced(d),
              !.details = [i \in Item |-> IF i \in Referenced(d) THEN @[i]
                                          ELSE NoDetails]]

\* diritem_free()
FreeItems(d, S) == Tidy([d EXCEPT !.freed = @ \cup S])

\* DIR_REMOVE: view_delete_if(if_deleted) compares leaf names, not pointers.
RemoveFromViews(d, S) ==
    [d EXCEPT
       !.view  = [w \in Windows |->
                    IF w \in d.users THEN {i \in @[w] : i.leaf \notin Leaves(S)}
                                     ELSE @[w]],
       !.stale = [w \in Windows |->
                    IF w \in d.users THEN {i \in @[w] : i.leaf \notin Leaves(S)}
                                     ELSE @[w]]]

\* DIR_ADD, DIR_UPDATE and DIR_REMOVE to every window, in this order
ShowPending(d) ==
    RemoveFromViews(
        [d EXCEPT
           !.misused = @ \cup (d.freed \cap (d.new \cup d.up \cup d.gone)),
           !.view  = [w \in Windows |->
                        IF w \in d.users
                        THEN @[w] \cup {i \in d.new : Shows(d, w, i)} ELSE @[w]],
           !.stale = [w \in Windows |->
                        IF w \in d.users THEN @[w] \ d.up ELSE @[w]]],
        d.gone)

\* A later new item of a name replaces an earlier one in the hash table.
MergedKnown(d) ==
    {i \in d.known : i.leaf \notin Leaves(d.new)} \cup
    {i \in d.new : \A j \in d.new : j.leaf = i.leaf => j.no <= i.no}

\* Mutant of MergeNew: the array of new items is not emptied.
MergeNewKeepsNew(d) ==
    [ShowPending(d) EXCEPT !.known = MergedKnown(d), !.up = {}, !.gone = {}]

\* Mutant of MergeNew: a new item does not replace the known one of its name.
MergeNewKeepsOld(d) ==
    FreeItems([ShowPending(d) EXCEPT !.known = @ \cup d.new,
                                     !.new = {}, !.up = {}, !.gone = {}],
              d.gone)

\* dir_merge_new()
MergeNew(d) ==
    FreeItems([ShowPending(d) EXCEPT !.known = MergedKnown(d),
                                     !.new = {}, !.up = {}, !.gone = {}],
              d.gone)

\* The windows in ws show exactly what is known: view_clear() and DIR_ADD in
\* dir_attach(), sync_complete_directory_view() on DIR_END_SCAN.
ShowKnown(d, ws) ==
    Tidy([d EXCEPT
            !.view  = [w \in Windows |->
                         IF w \in ws THEN {i \in d.known : Shows(d, w, i)}
                                     ELSE @[w]],
            !.stale = [w \in Windows |-> IF w \in ws THEN {} ELSE @[w]]])

\* Mutant of SetScanning: the end of a scan does not synchronise the views.
SetScanningNoSync(d, scanning) == [d EXCEPT !.scanning = scanning]

SetScanning(d, scanning) ==
    IF scanning = d.scanning THEN d
    ELSE IF scanning THEN [d EXCEPT !.scanning = TRUE]
    ELSE ShowKnown([d EXCEPT !.scanning = FALSE], d.users)

-----------------------------------------------------------------------------
(* Checking one item.                                                      *)

\* Mutant of Stat: the failure of lstat() is taken for a result.
StatUnchecked(n) == IF dirState = "gone" \/ disk[n] = NoDetails THEN -1 ELSE disk[n]

\* lstat() of a file of the directory; a locked directory cannot be listed, but
\* its files can be looked up.
Stat(n) == IF dirState = "gone" THEN NoDetails ELSE disk[n]

KnownItem(d, n) == CHOOSE i \in d.known : i.leaf = n

\* diritem_restat(): whoever shows the item has not drawn the new details yet.
Restat(d, i, v) ==
    [d EXCEPT
       !.details[i] = v,
       !.flagged    = @ \ {i},
       !.stale      = [w \in Windows |->
                         IF i \in d.view[w] /\ d.details[i] # v
                         THEN @[w] \cup {i} ELSE @[w]]]

\* Mutant of DelayedNotify: the flag is tested the wrong way round.
DelayedNotifyNever(d) == d

DelayedNotify(d) == [d EXCEPT !.notify = TRUE]

\* Mutant of InsertKnown: a change of the details is not queued for the views.
InsertKnownSilent(d, i, v) ==
    IF v = NoDetails
    THEN DelayedNotify([Restat(d, i, v) EXCEPT !.known = @ \ {i},
                                               !.gone  = @ \cup {i}])
    ELSE Restat(d, i, v)

InsertKnown(d, i, v) ==
    LET checked == Restat(d, i, v)
    IN  IF v = NoDetails
        THEN DelayedNotify([checked EXCEPT !.known = @ \ {i},
                                           !.gone  = @ \cup {i}])
        ELSE IF d.details[i] = v /\ i \notin d.flagged
        THEN d
        ELSE DelayedNotify([checked EXCEPT !.up = @ \cup {i}])

InsertUnknown(d, n, v) ==
    LET i == Fresh(d, n)
    IN  IF v = NoDetails
        THEN d
        ELSE DelayedNotify([d EXCEPT !.details[i] = v,
                                     !.new        = @ \cup {i},
                                     !.up         = @ \cup {i}])

InsertItem(d, n) ==
    IF n \in Leaves(d.known)
    THEN InsertKnown(d, KnownItem(d, n), Stat(n))
    ELSE InsertUnknown(d, n, Stat(n))

-----------------------------------------------------------------------------
(* Scanning.  The recheck list is a set here: its order, and a name twice  *)
(* in it, only decide what is checked first.  The operators that start a   *)
(* scan check one name at once; 'first' says which.                        *)

\* The tail of recheck_callback() up to its restart of the scan
RecheckOne(d, n) ==
    LET checked == InsertItem([d EXCEPT !.recheck = @ \ {n}], n)
    IN  IF checked.recheck # {} THEN checked
        ELSE [SetScanning(MergeNew(checked), FALSE) EXCEPT !.idle = FALSE]

SetIdleCallback(d, first) ==
    IF d.recheck # {} /\ d.users # {}
    THEN LET scan == SetScanning(d, TRUE)
             n    == IF first \in d.recheck THEN first
                     ELSE CHOOSE m \in d.recheck : TRUE
         IN  IF d.idle THEN scan
             ELSE RecheckOne([scan EXCEPT !.idle = TRUE], n)
    ELSE [SetScanning(d, FALSE) EXCEPT !.idle = FALSE]

\* DIR_QUEUE_INTERESTING to the windows in ws: queue_interesting() and
\* dir_queue_recheck()
QueueInteresting(d, ws) ==
    LET wanted == d.flagged \cap UNION {d.view[w] : w \in ws}
    IN  [d EXCEPT !.recheck = @ \cup Leaves(wanted),
                  !.flagged = @ \ wanted]

RemoveMissing(d, keep) ==
    LET deleted == {i \in d.known : i.leaf \notin keep}
    IN  FreeItems(RemoveFromViews([d EXCEPT !.known = @ \ deleted], deleted),
                  deleted)

\* mc_readdir()
Listing == {n \in Names : disk[n] # NoDetails}

\* Blank place-holders for the names that are new, a flag on the others.
ListNames(d) ==
    LET blank == {Fresh(d, n) : n \in Listing \ Leaves(d.known)}
    IN  [d EXCEPT !.recheck = {},
                  !.new     = @ \cup blank,
                  !.flagged = @ \cup blank \cup d.known,
                  !.missed  = FALSE]

\* Mutant of RescanListing: what is pending is not merged before items go.
RescanListingNoMerge(d, first) ==
    LET started == SetScanning(d, TRUE)
        listed  == MergeNew(ListNames(RemoveMissing(started, Listing)))
        queued  == QueueInteresting(listed, listed.users)
    IN  MergeNew(SetIdleCallback(queued, first))

RescanListing(d, first) ==
    LET started == MergeNew(SetScanning(d, TRUE))
        listed  == MergeNew(ListNames(RemoveMissing(started, Listing)))
        queued  == QueueInteresting(listed, listed.users)
    IN  MergeNew(SetIdleCallback(queued, first))

\* What dir_rescan() does when the directory cannot be stat()ed.
RescanMissing(d) ==
    IF CloseWhenMissing THEN [d EXCEPT !.closing = TRUE]
    ELSE RemoveMissing([d EXCEPT !.error = TRUE], {})

Rescan(d, first) ==
    LET begun == [d EXCEPT !.needsUpdate = FALSE, !.error = FALSE]
    IN  CASE dirState = "gone"   -> RescanMissing(begun)
          [] dirState = "locked" -> [begun EXCEPT !.error = TRUE]
          [] dirState = "ok"     -> RescanListing(begun, first)

\* The update function of the cache
Update(d, first) ==
    IF d.scanning THEN [d EXCEPT !.needsUpdate = TRUE] ELSE Rescan(d, first)

-----------------------------------------------------------------------------
(* Windows.                                                                *)

\* dir_attach() with the callback of a filer window
Attach(d, w, first) ==
    LET joined == ShowKnown([d EXCEPT !.users = @ \cup {w}], {w})
        asked  == IF d.needsUpdate /\ ~d.scanning
                  THEN Rescan(joined, first)
                  ELSE QueueInteresting(joined, {w})
        ready  == SetIdleCallback(asked, first)
    IN  IF ready.scanning THEN ready ELSE ShowKnown(ready, {w})

\* Mutant of Detach: the idle callback is not reconsidered.
DetachKeepsIdle(d, w, first) ==
    Tidy([d EXCEPT !.users = @ \ {w}, !.view[w] = {}, !.stale[w] = {},
                   !.missed = @ \/ (event /\ d.users = {w})])

\* dir_detach().  The monitor exists exactly while there are users, so that an
\* event it has not delivered when the last one leaves is lost.
Detach(d, w, first) ==
    LET left == [d EXCEPT !.users = @ \ {w}, !.view[w] = {}, !.stale[w] = {},
                          !.missed = @ \/ (event /\ d.users = {w})]
    IN  SetIdleCallback(Tidy(left), first)

MonitorKeeps(users) == event' = (event /\ users # {})

\* Looking the directory up in dir_cache updates it when its stat has changed.
Lookup(d, first) == IF stampOld THEN Update(d, first) ELSE d

\* filer_opendir(), filer_change_to()
OpenWindow(w) ==
    /\ w \notin dir.users
    /\ dirState # "gone"
    /\ Room(dir, 2)
    /\ \E first \in Names : dir' = Attach(Lookup(dir, first), w, first)
    /\ stampOld' = FALSE
    /\ UNCHANGED <<disk, dirState, event>>

\* filer_window_destroyed(), or the detach() of filer_change_to()
CloseWindow(w) ==
    /\ w \in dir.users
    /\ \E first \in Names : dir' = Detach(dir, w, first)
    /\ MonitorKeeps(dir.users \ {w})
    /\ UNCHANGED <<disk, dirState, stampOld>>

\* filer_detach_rescan(), after display_set_hidden() changed show_hidden: the
\* window leaves and joins again, without a new lookup.
ToggleHidden(w) ==
    /\ w \in dir.users
    /\ Room(dir, 2)
    /\ \E first \in Names :
         LET left == Detach(dir, w, first)
             shown == IF w \in dir.showHidden THEN dir.showHidden \ {w}
                                              ELSE dir.showHidden \cup {w}
         IN  dir' = Attach([left EXCEPT !.showHidden = shown], w, first)
    /\ MonitorKeeps(dir.users \ {w})
    /\ UNCHANGED <<disk, dirState, stampOld>>

\* filer_update_dir(): may_rescan() looks the directory up, and dir_update()
\* updates it again.
Refresh(w) ==
    /\ w \in dir.users
    /\ dirState # "gone"
    /\ Room(dir, 2)
    /\ \E first \in Names : dir' = Update(Lookup(dir, first), first)
    /\ stampOld' = FALSE
    /\ UNCHANGED <<disk, dirState, event>>

\* pointer_in(): moving the pointer into a window looks the directory up.
PointerIn(w) ==
    /\ w \in dir.users
    /\ stampOld
    /\ dirState # "gone"
    /\ Room(dir, 2)
    /\ \E first \in Names : dir' = Lookup(dir, first)
    /\ stampOld' = FALSE
    /\ UNCHANGED <<disk, dirState, event>>

\* The item whose details are not known yet is checked before it is opened,
\* dragged or offered in a menu: dir_update_item().
UpdateItem(w, i) ==
    /\ w \in dir.users
    /\ i \in dir.view[w] \ (dir.gone \cup dir.freed)
    /\ dir.details[i] = NoDetails
    /\ Room(dir, 3)
    /\ dir' = MergeNew(InsertItem(dir, i.leaf))
    /\ UNCHANGED <<disk, dirState, event, stampOld>>

-----------------------------------------------------------------------------
(* Calls from other parts of the program.                                  *)

\* dir_check_this(), for a file an action has created, changed or removed; it
\* does not update the cache entry.
CheckThis(n) ==
    /\ dirState # "gone"
    /\ Room(dir, 3)
    /\ dir' = InsertItem(dir, n)
    /\ UNCHANGED <<disk, dirState, event, stampOld>>

\* dir_force_update_path(), when a thumbnail of the file has been made
ForceUpdate(n) ==
    /\ dirState # "gone"
    /\ n \in Leaves(dir.known)
    /\ dir' = [dir EXCEPT
                 !.stale = [w \in Windows |->
                              IF w \in dir.users
                              THEN @[w] \ {KnownItem(dir, n)} ELSE @[w]]]
    /\ UNCHANGED <<disk, dirState, event, stampOld>>

\* refresh_dirs()
RefreshDirs ==
    /\ dirState # "gone"
    /\ Room(dir, 2)
    /\ \E first \in Names : dir' = Update(dir, first)
    /\ stampOld' = FALSE
    /\ UNCHANGED <<disk, dirState, event>>

-----------------------------------------------------------------------------
(* Callbacks of the main loop.                                             *)

\* Mutant of RecheckCallback: the end of a scan ignores needs_update.
RecheckCallbackNoRestart ==
    /\ dir.idle
    /\ \E n \in dir.recheck : dir' = RecheckOne(dir, n)
    /\ UNCHANGED <<disk, dirState, event, stampOld>>

\* recheck_callback(), called from the idle loop
RecheckCallback ==
    /\ dir.idle
    /\ Room(dir, 2)
    /\ \E n \in dir.recheck, first \in Names :
         LET checked == RecheckOne(dir, n)
         IN  dir' = IF ~checked.idle /\ checked.needsUpdate
                    THEN Rescan(checked, first) ELSE checked
    /\ UNCHANGED <<disk, dirState, event, stampOld>>

NotifyTimeout ==
    /\ dir.notify
    /\ dir' = [MergeNew(dir) EXCEPT !.notify = FALSE]
    /\ UNCHANGED <<disk, dirState, event, stampOld>>

\* rescan_timeout_cb(): the timer goes on as long as a scan does.
RescanTimeout ==
    /\ dir.timer
    /\ Room(dir, 2)
    /\ \E first \in Names :
         LET done == IF ~dir.scanning /\ dir.needsUpdate
                     THEN Rescan(dir, first) ELSE dir
         IN  dir' = [done EXCEPT !.timer = done.scanning]
    /\ UNCHANGED <<disk, dirState, event, stampOld>>

\* monitorcb() and rescan_soon()
MonitorEvent ==
    /\ event
    /\ event' = FALSE
    /\ dir' = [dir EXCEPT !.needsUpdate = TRUE, !.timer = TRUE]
    /\ UNCHANGED <<disk, dirState, stampOld>>

\* filer_close_recursive(): every window on the directory goes.
CloseRecursive ==
    /\ dir.closing
    /\ dir' = Tidy([dir EXCEPT !.closing  = FALSE,
                               !.users    = {},
                               !.view     = [w \in Windows |-> {}],
                               !.stale    = [w \in Windows |-> {}],
                               !.scanning = FALSE,
                               !.idle     = FALSE,
                               !.missed   = @ \/ event])
    /\ event' = FALSE
    /\ UNCHANGED <<disk, dirState, stampOld>>

-----------------------------------------------------------------------------
(* The file system.  A change raises a monitor event if the directory has  *)
(* a monitor.  Changing a name changes the directory's stat, unless it is  *)
(* within the second of the time stamp the cache has.                      *)

Announced == event' = (event \/ dir.users # {})

\* A change neither the monitor nor the time stamp tells of
Unannounced(stamped) ==
    dir' = [dir EXCEPT !.missed = @ \/ (dir.users = {} /\ ~stamped)]

ChangeName(n, v) ==
    /\ dirState # "gone"
    /\ (disk[n] = NoDetails) # (v = NoDetails)
    /\ disk' = [disk EXCEPT ![n] = v]
    /\ \E stamped \in BOOLEAN :
         /\ stampOld' = (stampOld \/ stamped)
         /\ Unannounced(stamped)
    /\ Announced
    /\ UNCHANGED dirState

ChangeDetails(n, v) ==
    /\ dirState # "gone"
    /\ disk[n] # NoDetails
    /\ v \in Details \ {disk[n]}
    /\ disk' = [disk EXCEPT ![n] = v]
    /\ Unannounced(FALSE)
    /\ Announced
    /\ UNCHANGED <<dirState, stampOld>>

\* chmod of the directory, which its mode in the cached stat shows, or rmdir
ChangeDirectory(s) ==
    /\ dirState # "gone"
    /\ dirState # s
    /\ dirState' = s
    /\ stampOld' = TRUE
    /\ Announced
    /\ UNCHANGED <<disk, dir>>

-----------------------------------------------------------------------------
Next ==
    \/ \E w \in Windows : \/ OpenWindow(w)   \/ CloseWindow(w)
                          \/ ToggleHidden(w) \/ Refresh(w) \/ PointerIn(w)
    \/ \E w \in Windows, i \in Item : UpdateItem(w, i)
    \/ \E n \in Touched : CheckThis(n) \/ ForceUpdate(n)
    \/ RefreshDirs
    \/ RecheckCallback
    \/ NotifyTimeout
    \/ RescanTimeout
    \/ MonitorEvent
    \/ CloseRecursive
    \/ \E n \in Names, v \in Details \cup {NoDetails} : ChangeName(n, v)
    \/ \E n \in Names, v \in Details : ChangeDetails(n, v)
    \/ \E s \in DirStates : ChangeDirectory(s)

\* The main loop runs every source that stays ready.  This is WF_vars of each
\* callback with ENABLED written out, which TLC would take too long to find.
Spec == Init /\ [][Next]_vars

FairSpec ==
    /\ Spec
    /\ []<>~(dir.idle /\ Room(dir, 2))  \/ []<><<RecheckCallback>>_vars
    /\ []<>~(dir.notify)             \/ []<><<NotifyTimeout>>_vars
    /\ []<>~(dir.timer /\ ~dir.scanning /\ Room(dir, 2)) \/ []<><<RescanTimeout>>_vars
    /\ []<>~event                    \/ []<><<MonitorEvent>>_vars
    /\ []<>~(dir.closing)            \/ []<><<CloseRecursive>>_vars

-----------------------------------------------------------------------------
(* Properties.                                                             *)

Pending == dir.new \cup dir.up \cup dir.gone

\* No pointer that a callback will follow, in a pending array, in known_items
\* or in a view, is to a DirItem that has been freed, and none was passed to the
\* windows (dir_merge_new() and remove_missing() free, the views and the
\* pending arrays keep raw pointers).
NoDangling == dir.freed = {} /\ dir.misused = {}

\* A change that has been found but not told to the windows has the 1.5 s
\* timer running, and a window draws outdated details only while the update
\* is pending: none is lost between insert_item() and dir_merge_new().
NoLostUpdate ==
    /\ Pending # {} => dir.notify
    /\ \A w \in Windows : dir.stale[w] \subseteq dir.up \cup dir.gone

\* While somebody watches, a wanted rescan has a scan or a timer that will
\* start it, and names to check have an idle callback (the comment on
\* needs_update in dir.h).
NoLostRescan ==
    /\ dir.users # {} /\ dir.needsUpdate => dir.scanning \/ dir.timer
    /\ dir.users # {} /\ dir.recheck # {} => dir.idle
    /\ dir.idle <=> dir.scanning
    /\ dir.scanning => dir.users # {} /\ dir.recheck # {}

\* known_items holds one item for a name; the items that are pending removal
\* or still to be added are not in it, and those to be added are in no view
\* either: no item is added to a view twice (dir_merge_new()).
KnownIsKeyed ==
    /\ \A i, j \in dir.known : i.leaf = j.leaf => i = j
    /\ dir.known \cap (dir.new \cup dir.gone) = {}
    /\ \A w \in Windows : dir.view[w] \cap dir.new = {}

Quiet ==
    /\ ~event /\ ~dir.needsUpdate /\ ~dir.scanning /\ ~dir.notify
    /\ ~dir.missed

\* When nothing is under way, every window shows each visible file of the
\* directory once, whatever the order of scans, single checks, deletions and
\* windows opened and closed; and the details it shows are the present ones,
\* unless the item is marked as not checked since the last listing.
QuietIsComplete ==
    Quiet /\ dirState = "ok" =>
        /\ dir.users # {} => ~dir.error
        /\ \A w \in dir.users :
             /\ \A i, j \in dir.view[w] : i.leaf = j.leaf => i = j
             /\ Leaves(dir.view[w]) =
                  {n \in Listing : w \in dir.showHidden \/ n \notin Hidden}
             /\ \A i \in dir.view[w] :
                  dir.details[i] = disk[i.leaf] \/ i \in dir.flagged

\* What has been found is shown after a while: the notify timer.
ChangesAreShown == Pending # {} ~> Pending = {}

\* A rescan asked for while windows are open is begun: the rescan timer, or
\* the end of the scan that is in progress.
RescansHappen ==
    dir.needsUpdate /\ dir.users # {} ~> ~dir.needsUpdate \/ dir.users = {}

=============================================================================
