-------------------------- MODULE DirectoryProofs --------------------------
(***************************************************************************)
(* Theorems about Directory.                                               *)
(***************************************************************************)
EXTENDS Directory, FiniteSetTheorems, WellFoundedInduction, TLAPS

-----------------------------------------------------------------------------
(* Type correctness: every operator maps Directory records to Directory    *)
(* records.                                                                *)

\* Forgetting the unreferenced items.
LEMMA TidyType ==
    ASSUME NEW d \in DirRecord
    PROVE  Tidy(d) \in DirRecord
  BY DEF Tidy, DirRecord

\* diritem_free() of some items.
LEMMA FreeItemsType ==
    ASSUME NEW d \in DirRecord, NEW S \in SUBSET Item
    PROVE  FreeItems(d, S) \in DirRecord
  <1>1. [d EXCEPT !.freed = @ \cup S] \in DirRecord
    BY DEF DirRecord
  <1> QED BY <1>1, TidyType DEF FreeItems

\* DIR_REMOVE.
LEMMA RemoveFromViewsType ==
    ASSUME NEW d \in DirRecord, NEW S
    PROVE  RemoveFromViews(d, S) \in DirRecord
  BY ZenonT(40) DEF RemoveFromViews, DirRecord

\* DIR_ADD, DIR_UPDATE and DIR_REMOVE.
LEMMA ShowPendingType ==
    ASSUME NEW d \in DirRecord
    PROVE  ShowPending(d) \in DirRecord
  <1> DEFINE added ==
        [d EXCEPT
           !.misused = @ \cup (d.freed \cap (d.new \cup d.up \cup d.gone)),
           !.view  = [w \in Windows |->
                        IF w \in d.users
                        THEN @[w] \cup {i \in d.new : Shows(d, w, i)} ELSE @[w]],
           !.stale = [w \in Windows |->
                        IF w \in d.users THEN @[w] \ d.up ELSE @[w]]]
  <1>1. added \in DirRecord
    BY DEF DirRecord
  <1> QED BY <1>1, RemoveFromViewsType DEF ShowPending

\* dir_merge_new().
LEMMA MergeNewType ==
    ASSUME NEW d \in DirRecord
    PROVE  MergeNew(d) \in DirRecord
  <1>1. MergedKnown(d) \in SUBSET Item /\ d.gone \in SUBSET Item
    BY DEF MergedKnown, DirRecord
  <1>2. [ShowPending(d) EXCEPT !.known = MergedKnown(d),
                               !.new = {}, !.up = {}, !.gone = {}] \in DirRecord
    BY <1>1, ShowPendingType, ZenonT(40) DEF DirRecord
  <1> QED BY <1>1, <1>2, FreeItemsType DEF MergeNew

\* sync_complete_directory_view().
LEMMA ShowKnownType ==
    ASSUME NEW d \in DirRecord, NEW ws
    PROVE  ShowKnown(d, ws) \in DirRecord
  <1> DEFINE shown ==
        [d EXCEPT
            !.view  = [w \in Windows |->
                         IF w \in ws THEN {i \in d.known : Shows(d, w, i)}
                                     ELSE @[w]],
            !.stale = [w \in Windows |-> IF w \in ws THEN {} ELSE @[w]]]
  <1>1. shown \in DirRecord
    BY DEF DirRecord
  <1> QED BY <1>1, TidyType DEF ShowKnown

\* dir_set_scanning().
LEMMA SetScanningType ==
    ASSUME NEW d \in DirRecord, NEW b \in BOOLEAN
    PROVE  SetScanning(d, b) \in DirRecord
  <1>1. [d EXCEPT !.scanning = TRUE] \in DirRecord
    BY DEF DirRecord
  <1>2. [d EXCEPT !.scanning = FALSE] \in DirRecord
    BY DEF DirRecord
  <1> QED BY <1>1, <1>2, ShowKnownType DEF SetScanning

\* An identity for a new item.
LEMMA FreshType ==
    ASSUME NEW d, NEW n \in Names
    PROVE  Fresh(d, n) \in Item /\ Fresh(d, n).leaf = n
  <1>1. (CHOOSE k \in Nums : TRUE) \in Nums
    BY NumsAssumption
  <1>2. (\E k \in Nums : LeastUsable(d, n, k)) =>
          (CHOOSE k \in Nums : LeastUsable(d, n, k)) \in Nums
    OBVIOUS
  <1> QED BY <1>1, <1>2 DEF Fresh, Item

\* lstat().
LEMMA StatType ==
    ASSUME TypeOK, NEW n \in Names
    PROVE  Stat(n) \in Details \cup {NoDetails}
  BY SMTT(40) DEF Stat, TypeOK

\* diritem_restat().
LEMMA RestatType ==
    ASSUME NEW d \in DirRecord, NEW i \in Item, NEW v \in Details \cup {NoDetails}
    PROVE  Restat(d, i, v) \in DirRecord
  BY DEF Restat, DirRecord

\* insert_item() of a known item.
LEMMA InsertKnownType ==
    ASSUME NEW d \in DirRecord, NEW i \in Item, NEW v \in Details \cup {NoDetails}
    PROVE  InsertKnown(d, i, v) \in DirRecord
  <1> DEFINE checked == Restat(d, i, v)
  <1>1. checked \in DirRecord
    BY RestatType
  <1>2. [checked EXCEPT !.known = @ \ {i}, !.gone = @ \cup {i}] \in DirRecord
    BY <1>1 DEF DirRecord
  <1>3. [checked EXCEPT !.up = @ \cup {i}] \in DirRecord
    BY <1>1 DEF DirRecord
  <1>4. \A e \in DirRecord : DelayedNotify(e) \in DirRecord
    BY DEF DelayedNotify, DirRecord
  <1> QED BY <1>2, <1>3, <1>4 DEF InsertKnown

\* insert_item() of an unknown one.
LEMMA InsertUnknownType ==
    ASSUME NEW d \in DirRecord, NEW n \in Names, NEW v \in Details \cup {NoDetails}
    PROVE  InsertUnknown(d, n, v) \in DirRecord
  <1> DEFINE i == Fresh(d, n)
             added == [d EXCEPT !.details[i] = v, !.new = @ \cup {i},
                                !.up = @ \cup {i}]
  <1>1. i \in Item
    BY FreshType
  <1>2. added \in DirRecord
    BY <1>1 DEF DirRecord
  <1>3. DelayedNotify(added) \in DirRecord
    BY <1>2 DEF DelayedNotify, DirRecord
  <1> QED BY <1>3 DEF InsertUnknown

\* insert_item().
LEMMA InsertItemType ==
    ASSUME TypeOK, NEW d \in DirRecord, NEW n \in Names
    PROVE  InsertItem(d, n) \in DirRecord
  <1>1. Stat(n) \in Details \cup {NoDetails}
    BY StatType
  <1>2. n \in Leaves(d.known) => KnownItem(d, n) \in Item
    BY DEF Leaves, KnownItem, DirRecord
  <1> QED BY <1>1, <1>2, InsertKnownType, InsertUnknownType DEF InsertItem

\* recheck_callback() up to its restart of the scan.
LEMMA RecheckOneType ==
    ASSUME TypeOK, NEW d \in DirRecord, NEW n \in Names
    PROVE  RecheckOne(d, n) \in DirRecord
  <1> DEFINE popped  == [d EXCEPT !.recheck = @ \ {n}]
             checked == InsertItem(popped, n)
             ended   == SetScanning(MergeNew(checked), FALSE)
  <1>1. popped \in DirRecord
    BY DEF DirRecord
  <1>2. checked \in DirRecord
    BY <1>1, InsertItemType
  <1>3. ended \in DirRecord
    BY <1>2, MergeNewType, SetScanningType
  <1>4. [ended EXCEPT !.idle = FALSE] \in DirRecord
    BY <1>3 DEF DirRecord
  <1> QED BY <1>2, <1>4 DEF RecheckOne

\* set_idle_callback().
LEMMA SetIdleCallbackType ==
    ASSUME TypeOK, NEW d \in DirRecord, NEW first \in Names
    PROVE  SetIdleCallback(d, first) \in DirRecord
  <1> DEFINE n == IF first \in d.recheck THEN first
                  ELSE CHOOSE m \in d.recheck : TRUE
  <1>1. SetScanning(d, TRUE) \in DirRecord /\ SetScanning(d, FALSE) \in DirRecord
    BY SetScanningType
  <1>2. /\ [SetScanning(d, TRUE) EXCEPT !.idle = TRUE] \in DirRecord
        /\ [SetScanning(d, FALSE) EXCEPT !.idle = FALSE] \in DirRecord
    BY <1>1 DEF DirRecord
  <1>3. d.recheck # {} => n \in Names
    BY DEF DirRecord
  <1>4. d.recheck # {} =>
          RecheckOne([SetScanning(d, TRUE) EXCEPT !.idle = TRUE], n) \in DirRecord
    BY <1>2, <1>3, RecheckOneType, SMTT(40)
  <1> QED BY <1>1, <1>2, <1>4 DEF SetIdleCallback

\* queue_interesting().
LEMMA QueueInterestingType ==
    ASSUME NEW d \in DirRecord, NEW ws
    PROVE  QueueInteresting(d, ws) \in DirRecord
  <1>1. \A S \in SUBSET Item : Leaves(S) \in SUBSET Names
    BY DEF Leaves, Item
  <1> QED BY <1>1 DEF QueueInteresting, DirRecord

\* remove_missing().
LEMMA RemoveMissingType ==
    ASSUME NEW d \in DirRecord, NEW keep
    PROVE  RemoveMissing(d, keep) \in DirRecord
  <1> DEFINE deleted == {i \in d.known : i.leaf \notin keep}
  <1>1. deleted \in SUBSET Item
    BY DEF DirRecord
  <1>2. [d EXCEPT !.known = @ \ deleted] \in DirRecord
    BY SMTT(40) DEF DirRecord
  <1> QED BY <1>1, <1>2, RemoveFromViewsType, FreeItemsType DEF RemoveMissing

\* Reading the names.
LEMMA ListNamesType ==
    ASSUME NEW d \in DirRecord
    PROVE  ListNames(d) \in DirRecord
  <1> DEFINE blank == {Fresh(d, n) : n \in Listing \ Leaves(d.known)}
  <1>1. blank \in SUBSET Item
    BY FreshType DEF Listing
  <1> QED BY <1>1 DEF ListNames, DirRecord

\* dir_rescan().
LEMMA RescanType ==
    ASSUME TypeOK, NEW d \in DirRecord, NEW first \in Names
    PROVE  Rescan(d, first) \in DirRecord
  <1> DEFINE begun == [d EXCEPT !.needsUpdate = FALSE, !.error = FALSE]
  <1>1. begun \in DirRecord
    BY DEF DirRecord
  <1>2. [begun EXCEPT !.error = TRUE] \in DirRecord
    BY <1>1 DEF DirRecord
  <1>3. RescanMissing(begun) \in DirRecord
    <2>1. [begun EXCEPT !.closing = TRUE] \in DirRecord
      BY <1>1, ZenonT(40) DEF DirRecord
    <2> QED BY <1>2, <2>1, RemoveMissingType DEF RescanMissing
  <1>4. RescanListing(begun, first) \in DirRecord
    BY <1>1, SetScanningType, MergeNewType, RemoveMissingType, ListNamesType,
       QueueInterestingType, SetIdleCallbackType DEF RescanListing
  <1>5. dirState \in {"ok", "locked", "gone"}
    BY DEF TypeOK
  <1> QED BY <1>2, <1>3, <1>4, <1>5 DEF Rescan

\* The update function of the cache, and a lookup.
LEMMA LookupType ==
    ASSUME TypeOK, NEW d \in DirRecord, NEW first \in Names
    PROVE  Update(d, first) \in DirRecord /\ Lookup(d, first) \in DirRecord
  <1>1. [d EXCEPT !.needsUpdate = TRUE] \in DirRecord
    BY DEF DirRecord
  <1> QED BY <1>1, RescanType DEF Update, Lookup

\* dir_attach().
LEMMA AttachType ==
    ASSUME TypeOK, NEW d \in DirRecord, NEW w \in Windows, NEW first \in Names
    PROVE  Attach(d, w, first) \in DirRecord
  <1>1. [d EXCEPT !.users = @ \cup {w}] \in DirRecord
    BY SMTT(40) DEF DirRecord
  <1> QED BY <1>1, ShowKnownType, RescanType, QueueInterestingType,
             SetIdleCallbackType DEF Attach

\* dir_detach().
LEMMA DetachType ==
    ASSUME TypeOK, NEW d \in DirRecord, NEW w \in Windows, NEW first \in Names
    PROVE  Detach(d, w, first) \in DirRecord
  <1> DEFINE left == [d EXCEPT !.users = @ \ {w}, !.view[w] = {}, !.stale[w] = {},
                               !.missed = @ \/ (event /\ d.users = {w})]
  <1>1. (d.missed \/ (event /\ d.users = {w})) \in BOOLEAN
    BY SMTT(40) DEF DirRecord, TypeOK
  <1>2. left \in DirRecord
    BY <1>1 DEF DirRecord
  <1> QED BY <1>2, TidyType, SetIdleCallbackType DEF Detach

\* NewDirectory, as directory_init() makes it.
LEMMA InitType == Init => TypeOK
  <1>1. NewDirectory \in DirRecord
    BY DEF NewDirectory, DirRecord
  <1> QED BY <1>1 DEF Init, TypeOK

\* Every step of the system preserves the types.
LEMMA NextType == TypeOK /\ [Next]_vars => TypeOK'
  <1> SUFFICES ASSUME TypeOK, [Next]_vars
               PROVE  TypeOK'
    OBVIOUS
  <1> dir \in DirRecord /\ event \in BOOLEAN /\ stampOld \in BOOLEAN
    BY DEF TypeOK
  <1>1. ASSUME NEW w \in Windows, OpenWindow(w)
        PROVE  TypeOK'
    <2>1. dir' \in DirRecord
      BY <1>1, LookupType, AttachType DEF OpenWindow
    <2> QED BY <1>1, <2>1 DEF OpenWindow, TypeOK
  <1>2. ASSUME NEW w \in Windows, CloseWindow(w)
        PROVE  TypeOK'
    <2>1. dir' \in DirRecord
      BY <1>2, DetachType DEF CloseWindow
    <2> QED BY <1>2, <2>1 DEF CloseWindow, MonitorKeeps, TypeOK
  <1>3. ASSUME NEW w \in Windows, ToggleHidden(w)
        PROVE  TypeOK'
    <2>1. PICK first \in Names :
            \E S \in SUBSET Windows :
              dir' = Attach([Detach(dir, w, first) EXCEPT !.showHidden = S], w, first)
      <3>1. dir.showHidden \in SUBSET Windows
        BY DEF DirRecord
      <3> QED BY <1>3, <3>1 DEF ToggleHidden
    <2>2. \A S \in SUBSET Windows :
            [Detach(dir, w, first) EXCEPT !.showHidden = S] \in DirRecord
      <3>1. Detach(dir, w, first) \in DirRecord
        BY DetachType
      <3> QED BY <3>1 DEF DirRecord
    <2>3. dir' \in DirRecord
      BY <2>1, <2>2, AttachType
    <2> QED BY <1>3, <2>3 DEF ToggleHidden, MonitorKeeps, TypeOK
  <1>4. ASSUME NEW w \in Windows, Refresh(w) \/ PointerIn(w)
        PROVE  TypeOK'
    <2>1. dir' \in DirRecord
      BY <1>4, LookupType DEF Refresh, PointerIn
    <2> QED BY <1>4, <2>1 DEF Refresh, PointerIn, TypeOK
  <1>5. ASSUME NEW w \in Windows, NEW i \in Item, UpdateItem(w, i)
        PROVE  TypeOK'
    <2>1. dir' \in DirRecord
      BY <1>5, InsertItemType, MergeNewType DEF UpdateItem, Item
    <2> QED BY <1>5, <2>1 DEF UpdateItem, TypeOK
  <1>6. ASSUME NEW n \in Names, CheckThis(n)
        PROVE  TypeOK'
    BY <1>6, InsertItemType DEF CheckThis, TypeOK
  <1>7. ASSUME NEW n \in Names, ForceUpdate(n)
        PROVE  TypeOK'
    <2>1. dir' \in DirRecord
      BY <1>7 DEF ForceUpdate, DirRecord
    <2> QED BY <1>7, <2>1 DEF ForceUpdate, TypeOK
  <1>8. ASSUME RefreshDirs
        PROVE  TypeOK'
    <2>1. dir' \in DirRecord
      BY <1>8, LookupType DEF RefreshDirs
    <2> QED BY <1>8, <2>1 DEF RefreshDirs, TypeOK
  <1>9. ASSUME RecheckCallback
        PROVE  TypeOK'
    <2>1. dir.recheck \in SUBSET Names
      BY DEF DirRecord
    <2>2. dir' \in DirRecord
      BY <1>9, <2>1, RecheckOneType, RescanType DEF RecheckCallback
    <2> QED BY <1>9, <2>2 DEF RecheckCallback, TypeOK
  <1>10. ASSUME NotifyTimeout
         PROVE  TypeOK'
    <2>1. MergeNew(dir) \in DirRecord
      BY MergeNewType
    <2>2. dir' \in DirRecord
      BY <1>10, <2>1 DEF NotifyTimeout, DirRecord
    <2> QED BY <1>10, <2>2 DEF NotifyTimeout, TypeOK
  <1>11. ASSUME RescanTimeout
         PROVE  TypeOK'
    <2>1. PICK done \in DirRecord : dir' = [done EXCEPT !.timer = done.scanning]
      BY <1>11, RescanType DEF RescanTimeout
    <2>2. dir' \in DirRecord
      BY <2>1 DEF DirRecord
    <2> QED BY <1>11, <2>2 DEF RescanTimeout, TypeOK
  <1>12. ASSUME MonitorEvent
         PROVE  TypeOK'
    <2>1. dir' \in DirRecord
      BY <1>12 DEF MonitorEvent, DirRecord
    <2> QED BY <1>12, <2>1 DEF MonitorEvent, TypeOK
  <1>13. ASSUME CloseRecursive
         PROVE  TypeOK'
    <2> DEFINE left == [dir EXCEPT !.closing  = FALSE,
                                   !.users    = {},
                                   !.view     = [w \in Windows |-> {}],
                                   !.stale    = [w \in Windows |-> {}],
                                   !.scanning = FALSE,
                                   !.idle     = FALSE,
                                   !.missed   = @ \/ event]
    <2>1. (dir.missed \/ event) \in BOOLEAN
      BY DEF DirRecord
    <2>2. left \in DirRecord
      BY <2>1, ZenonT(40) DEF DirRecord
    <2>3. dir' \in DirRecord
      BY <1>13, <2>2, TidyType DEF CloseRecursive
    <2> QED BY <1>13, <2>3 DEF CloseRecursive, TypeOK
  <1>14. ASSUME NEW n \in Names, NEW v \in Details \cup {NoDetails},
                ChangeName(n, v) \/ ChangeDetails(n, v)
         PROVE  TypeOK'
    <2>1. \A b \in BOOLEAN : [dir EXCEPT !.missed = @ \/ (dir.users = {} /\ ~b)]
                               \in DirRecord
      <3>1. \A b \in BOOLEAN : (dir.missed \/ (dir.users = {} /\ ~b)) \in BOOLEAN
        BY DEF DirRecord
      <3> QED BY <3>1 DEF DirRecord
    <2>2. dir' \in DirRecord
      BY <1>14, <2>1 DEF ChangeName, ChangeDetails, Unannounced
    <2> QED BY <1>14, <2>2 DEF ChangeName, ChangeDetails, Announced, TypeOK
  <1>15. ASSUME NEW s \in DirStates, ChangeDirectory(s)
         PROVE  TypeOK'
    BY <1>15, StatesAssumption DEF ChangeDirectory, Announced, TypeOK
  <1>16. CASE UNCHANGED vars
    BY <1>16 DEF vars, TypeOK
  <1> QED
    BY <1>1, <1>2, <1>3, <1>4, <1>5, <1>6, <1>7, <1>8, <1>9, <1>10, <1>11, <1>12,
       <1>13, <1>14, <1>15, <1>16, NamesAssumption DEF Next

\* The directory cache and its views stay well formed in every run of the
\* system, for any number of files and windows.
THEOREM TypeCorrect == Spec => []TypeOK
  BY InitType, NextType, PTL DEF Spec

-----------------------------------------------------------------------------
(* No lost rescan: the operators that check and merge items leave the      *)
(* state of the scan alone, and set_idle_callback() re-establishes what    *)
(* ties it together.                                                       *)

\* The part of a Directory that says what is being scanned.
Scan(d) == <<d.users, d.recheck, d.needsUpdate, d.scanning, d.idle, d.timer>>

LEMMA TidyScan ==
    ASSUME NEW d \in DirRecord
    PROVE  Scan(Tidy(d)) = Scan(d)
  BY DEF Tidy, Scan, DirRecord

LEMMA FreeItemsScan ==
    ASSUME NEW d \in DirRecord, NEW S \in SUBSET Item
    PROVE  Scan(FreeItems(d, S)) = Scan(d)
  <1> DEFINE e == [d EXCEPT !.freed = @ \cup S]
  <1>1. e \in DirRecord /\ Scan(e) = Scan(d)
    BY SMTT(40) DEF DirRecord, Scan
  <1> QED BY <1>1, TidyScan DEF FreeItems

LEMMA RemoveFromViewsScan ==
    ASSUME NEW d \in DirRecord, NEW S
    PROVE  Scan(RemoveFromViews(d, S)) = Scan(d)
  BY DEF RemoveFromViews, Scan, DirRecord

LEMMA ShowPendingScan ==
    ASSUME NEW d \in DirRecord
    PROVE  Scan(ShowPending(d)) = Scan(d)
  <1> DEFINE added ==
        [d EXCEPT
           !.misused = @ \cup (d.freed \cap (d.new \cup d.up \cup d.gone)),
           !.view  = [w \in Windows |->
                        IF w \in d.users
                        THEN @[w] \cup {i \in d.new : Shows(d, w, i)} ELSE @[w]],
           !.stale = [w \in Windows |->
                        IF w \in d.users THEN @[w] \ d.up ELSE @[w]]]
  <1>1. added \in DirRecord /\ Scan(added) = Scan(d)
    BY DEF DirRecord, Scan
  <1> QED BY <1>1, RemoveFromViewsScan DEF ShowPending

LEMMA MergeNewScan ==
    ASSUME NEW d \in DirRecord
    PROVE  Scan(MergeNew(d)) = Scan(d)
  <1> DEFINE e == [ShowPending(d) EXCEPT !.known = MergedKnown(d),
                                         !.new = {}, !.up = {}, !.gone = {}]
  <1>1. MergedKnown(d) \in SUBSET Item /\ d.gone \in SUBSET Item
    BY DEF MergedKnown, DirRecord
  <1>2. e \in DirRecord /\ Scan(e) = Scan(ShowPending(d))
    BY <1>1, ShowPendingType, ZenonT(40) DEF DirRecord, Scan
  <1> QED BY <1>1, <1>2, ShowPendingScan, FreeItemsScan DEF MergeNew

LEMMA ShowKnownScan ==
    ASSUME NEW d \in DirRecord, NEW ws
    PROVE  Scan(ShowKnown(d, ws)) = Scan(d)
  <1> DEFINE shown ==
        [d EXCEPT
            !.view  = [w \in Windows |->
                         IF w \in ws THEN {i \in d.known : Shows(d, w, i)}
                                     ELSE @[w]],
            !.stale = [w \in Windows |-> IF w \in ws THEN {} ELSE @[w]]]
  <1>1. shown \in DirRecord /\ Scan(shown) = Scan(d)
    BY DEF DirRecord, Scan
  <1> QED BY <1>1, TidyScan, SMTT(40) DEF ShowKnown

\* dir_set_scanning() changes the flag and nothing else of the scan.
LEMMA SetScanningScan ==
    ASSUME NEW d \in DirRecord, NEW b \in BOOLEAN
    PROVE  Scan(SetScanning(d, b)) =
             <<d.users, d.recheck, d.needsUpdate, b, d.idle, d.timer>>
  <1>1. \A c \in BOOLEAN :
          LET e == [d EXCEPT !.scanning = c]
          IN  /\ e \in DirRecord
              /\ Scan(e) = <<d.users, d.recheck, d.needsUpdate, c, d.idle, d.timer>>
    BY DEF DirRecord, Scan
  <1>2. d.scanning \in BOOLEAN
    BY DEF DirRecord
  <1> QED BY <1>1, <1>2, ShowKnownScan, ZenonT(40) DEF SetScanning, Scan

LEMMA InsertItemScan ==
    ASSUME TypeOK, NEW d \in DirRecord, NEW n \in Names
    PROVE  Scan(InsertItem(d, n)) = Scan(d)
  <1> DEFINE v == Stat(n)
             k == KnownItem(d, n)
             i == Fresh(d, n)
  <1>1. v \in Details \cup {NoDetails} /\ i \in Item
    BY StatType, FreshType
  <1>2. n \in Leaves(d.known) => k \in Item
    BY DEF Leaves, KnownItem, DirRecord
  <1>3. ASSUME k \in Item
        PROVE  Scan(InsertKnown(d, k, v)) = Scan(d)
    <2>1. Restat(d, k, v) \in DirRecord /\ Scan(Restat(d, k, v)) = Scan(d)
      <3>1. Scan(Restat(d, k, v)) = Scan(d)
        BY DEF Restat, Scan, DirRecord
      <3> QED BY <1>1, <1>3, <3>1, RestatType
    <2>2. \A e \in DirRecord :
            /\ Scan(DelayedNotify([e EXCEPT !.known = @ \ {k}, !.gone = @ \cup {k}]))
                 = Scan(e)
            /\ Scan(DelayedNotify([e EXCEPT !.up = @ \cup {k}])) = Scan(e)
      BY DEF DelayedNotify, Scan, DirRecord
    <2> QED BY <2>1, <2>2 DEF InsertKnown
  <1>4. Scan(InsertUnknown(d, n, v)) = Scan(d)
    BY DEF InsertUnknown, DelayedNotify, Scan, DirRecord
  <1> QED BY <1>2, <1>3, <1>4 DEF InsertItem

\* What set_idle_callback() establishes.
Tied(d) ==
    /\ d.users # {} /\ d.recheck # {} => d.idle
    /\ d.idle <=> d.scanning
    /\ d.scanning => d.users # {} /\ d.recheck # {}

\* Nobody comes or goes and no rescan is asked for or begun between d and e.
Meanwhile(d, e) ==
    e.users = d.users /\ e.needsUpdate = d.needsUpdate /\ e.timer = d.timer

LEMMA RecheckOneScan ==
    ASSUME TypeOK, NEW d \in DirRecord, NEW n \in Names,
           d.users # {}, d.idle, d.scanning
    PROVE  Meanwhile(d, RecheckOne(d, n)) /\ Tied(RecheckOne(d, n))
  <1> DEFINE popped  == [d EXCEPT !.recheck = @ \ {n}]
             checked == InsertItem(popped, n)
             merged  == MergeNew(checked)
             ended   == SetScanning(merged, FALSE)
             last    == [ended EXCEPT !.idle = FALSE]
  <1>1. /\ popped \in DirRecord
        /\ Scan(popped) = <<d.users, d.recheck \ {n}, d.needsUpdate,
                            d.scanning, d.idle, d.timer>>
    BY DEF DirRecord, Scan
  <1>2. checked \in DirRecord /\ Scan(checked) = Scan(popped)
    BY <1>1, InsertItemType, InsertItemScan
  <1>3. merged \in DirRecord /\ Scan(merged) = Scan(checked)
    BY <1>2, MergeNewType, MergeNewScan
  <1>4. /\ ended \in DirRecord
        /\ Scan(ended) = <<merged.users, merged.recheck, merged.needsUpdate,
                           FALSE, merged.idle, merged.timer>>
    BY <1>3, SetScanningType, SetScanningScan
  <1>5. Scan(last) = <<ended.users, ended.recheck, ended.needsUpdate,
                       ended.scanning, FALSE, ended.timer>>
    BY <1>4 DEF DirRecord, Scan
  <1>6. CASE checked.recheck # {}
    <2>1. RecheckOne(d, n) = checked
      BY <1>6 DEF RecheckOne
    <2> QED BY <1>1, <1>2, <1>6, <2>1 DEF Scan, Meanwhile, Tied
  <1>7. CASE checked.recheck = {}
    <2>1. RecheckOne(d, n) = last
      BY <1>7 DEF RecheckOne
    <2> HIDE DEF popped, checked, merged, ended, last
    <2> QED BY <1>1, <1>2, <1>3, <1>4, <1>5, <1>7, <2>1, ZenonT(40) DEF Scan, Meanwhile, Tied
  <1> QED BY <1>6, <1>7

LEMMA SetIdleCallbackScan ==
    ASSUME TypeOK, NEW d \in DirRecord, NEW first \in Names, d.idle => d.scanning
    PROVE  LET e == SetIdleCallback(d, first)
           IN  /\ Meanwhile(d, e) /\ Tied(e)
               /\ d.idle /\ d.users # {} /\ d.recheck # {} => e.scanning
  <1> DEFINE n    == IF first \in d.recheck THEN first
                     ELSE CHOOSE m \in d.recheck : TRUE
             on   == SetScanning(d, TRUE)
             off  == SetScanning(d, FALSE)
             run  == [on EXCEPT !.idle = TRUE]
             stop == [off EXCEPT !.idle = FALSE]
  <1>1. /\ on \in DirRecord
        /\ Scan(on) = <<d.users, d.recheck, d.needsUpdate, TRUE, d.idle, d.timer>>
        /\ off \in DirRecord
        /\ Scan(off) = <<d.users, d.recheck, d.needsUpdate, FALSE, d.idle, d.timer>>
    BY SetScanningType, SetScanningScan
  <1>2. /\ run \in DirRecord
        /\ Scan(run) = <<on.users, on.recheck, on.needsUpdate, on.scanning, TRUE, on.timer>>
        /\ Scan(stop) =
             <<off.users, off.recheck, off.needsUpdate, off.scanning, FALSE, off.timer>>
    BY <1>1 DEF DirRecord, Scan
  <1>3. d.recheck # {} => n \in Names
    BY DEF DirRecord
  <1>4. SetIdleCallback(d, first) =
          IF d.recheck # {} /\ d.users # {}
          THEN IF d.idle THEN on ELSE RecheckOne(run, n)
          ELSE stop
    BY DEF SetIdleCallback
  <1> HIDE DEF n, on, off, run, stop
  <1>5. CASE d.recheck # {} /\ d.users # {} /\ ~d.idle
    <2>1. run.users # {} /\ run.idle /\ run.scanning /\ Meanwhile(d, run)
      BY <1>1, <1>2, <1>5 DEF Scan, Meanwhile
    <2>2. Meanwhile(run, RecheckOne(run, n)) /\ Tied(RecheckOne(run, n))
      BY <1>2, <1>3, <1>5, <2>1, RecheckOneScan
    <2> QED BY <1>4, <1>5, <2>1, <2>2 DEF Meanwhile
  <1>6. CASE d.recheck # {} /\ d.users # {} /\ d.idle
    BY <1>1, <1>4, <1>6 DEF Scan, Meanwhile, Tied
  <1>7. CASE ~(d.recheck # {} /\ d.users # {})
    BY <1>1, <1>2, <1>4, <1>7 DEF Scan, Meanwhile, Tied
  <1> QED BY <1>5, <1>6, <1>7

LEMMA QueueInterestingScan ==
    ASSUME NEW d \in DirRecord, NEW ws
    PROVE  LET e == QueueInteresting(d, ws)
           IN  /\ Meanwhile(d, e) /\ e.scanning = d.scanning /\ e.idle = d.idle
               /\ d.recheck # {} => e.recheck # {}
  BY DEF QueueInteresting, Meanwhile, DirRecord

LEMMA RemoveMissingScan ==
    ASSUME NEW d \in DirRecord, NEW keep
    PROVE  Scan(RemoveMissing(d, keep)) = Scan(d)
  <1> DEFINE deleted == {i \in d.known : i.leaf \notin keep}
             e == [d EXCEPT !.known = @ \ deleted]
  <1>1. deleted \in SUBSET Item
    BY DEF DirRecord
  <1>2. e \in DirRecord /\ Scan(e) = Scan(d)
    BY DEF DirRecord, Scan
  <1> QED BY <1>1, <1>2, RemoveFromViewsType, RemoveFromViewsScan, FreeItemsScan
          DEF RemoveMissing

LEMMA ListNamesScan ==
    ASSUME NEW d \in DirRecord
    PROVE  LET e == ListNames(d)
           IN  Meanwhile(d, e) /\ e.scanning = d.scanning /\ e.idle = d.idle
  BY DEF ListNames, Meanwhile, DirRecord

LEMMA RescanListingScan ==
    ASSUME TypeOK, NEW d \in DirRecord, NEW first \in Names, ~d.idle
    PROVE  Meanwhile(d, RescanListing(d, first)) /\ Tied(RescanListing(d, first))
  <1> DEFINE a == SetScanning(d, TRUE)
             b == MergeNew(a)
             c == RemoveMissing(b, Listing)
             e == ListNames(c)
             f == MergeNew(e)
             g == QueueInteresting(f, f.users)
             h == SetIdleCallback(g, first)
             k == MergeNew(h)
  <1>1. /\ a \in DirRecord
        /\ Scan(a) = <<d.users, d.recheck, d.needsUpdate, TRUE, d.idle, d.timer>>
    BY SetScanningType, SetScanningScan
  <1>2. b \in DirRecord /\ Scan(b) = Scan(a)
    BY <1>1, MergeNewType, MergeNewScan
  <1>3. c \in DirRecord /\ Scan(c) = Scan(b)
    BY <1>2, RemoveMissingType, RemoveMissingScan
  <1>4. e \in DirRecord /\ Meanwhile(c, e) /\ e.scanning = c.scanning /\ e.idle = c.idle
    BY <1>3, ListNamesType, ListNamesScan
  <1>5. f \in DirRecord /\ Scan(f) = Scan(e)
    BY <1>4, MergeNewType, MergeNewScan
  <1>6. g \in DirRecord /\ Meanwhile(f, g) /\ g.scanning = f.scanning /\ g.idle = f.idle
    BY <1>5, QueueInterestingType, QueueInterestingScan
  <1>7. Meanwhile(d, g) /\ ~g.idle
    <2> HIDE DEF a, b, c, e, f, g
    <2> QED BY <1>1, <1>2, <1>3, <1>4, <1>5, <1>6 DEF Scan, Meanwhile
  <1>8. h \in DirRecord /\ Meanwhile(g, h) /\ Tied(h)
    BY <1>6, <1>7, SetIdleCallbackType, SetIdleCallbackScan
  <1>9. Scan(k) = Scan(h)
    BY <1>8, MergeNewScan
  <1>10. RescanListing(d, first) = k
    BY DEF RescanListing
  <1> HIDE DEF a, b, c, e, f, g, h, k
  <1> QED BY <1>7, <1>8, <1>9, <1>10 DEF Scan, Meanwhile, Tied

\* dir_rescan() clears needs_update; it leaves the scan tied if it was, or if
\* it could list the directory.
LEMMA RescanScan ==
    ASSUME TypeOK, NEW d \in DirRecord, NEW first \in Names, ~d.idle, ~d.scanning
    PROVE  LET e == Rescan(d, first)
           IN  /\ e.users = d.users /\ e.timer = d.timer /\ ~e.needsUpdate
               /\ e.idle => e.scanning
               /\ Tied(d) => Tied(e)
  <1> DEFINE begun == [d EXCEPT !.needsUpdate = FALSE, !.error = FALSE]
             failed == [begun EXCEPT !.error = TRUE]
             closes == [begun EXCEPT !.closing = TRUE]
             still  == <<d.users, d.recheck, FALSE, d.scanning, d.idle, d.timer>>
  <1>1. begun \in DirRecord /\ Scan(begun) = still
    BY DEF DirRecord, Scan
  <1>2. /\ failed \in DirRecord /\ Scan(failed) = still
        /\ Scan(closes) = still
    BY <1>1 DEF DirRecord, Scan
  <1>3. Scan(RescanMissing(begun)) = still
    BY <1>2, RemoveMissingScan DEF RescanMissing
  <1>4. /\ Meanwhile(begun, RescanListing(begun, first))
        /\ Tied(RescanListing(begun, first))
    BY <1>1, RescanListingScan DEF Scan
  <1>5. dirState \in {"ok", "locked", "gone"}
    BY DEF TypeOK
  <1>6. CASE dirState = "ok"
    <2>1. Rescan(d, first) = RescanListing(begun, first)
      BY <1>6 DEF Rescan
    <2> QED BY <1>1, <1>4, <2>1 DEF Scan, Meanwhile, Tied
  <1>7. CASE dirState # "ok"
    <2>1. Rescan(d, first) \in {RescanMissing(begun), failed}
      BY <1>5, <1>7 DEF Rescan
    <2>2. Scan(Rescan(d, first)) = still
      BY <1>2, <1>3, <2>1
    <2> QED BY <2>2 DEF Scan, Tied
  <1> QED BY <1>6, <1>7

\* NoLostRescan of one Directory.
Served(d) == Tied(d) /\ (d.users # {} /\ d.needsUpdate => d.scanning \/ d.timer)

LEMMA LookupScan ==
    ASSUME TypeOK, NEW d \in DirRecord, NEW first \in Names, Served(d)
    PROVE  Served(Update(d, first)) /\ Served(Lookup(d, first))
  <1> DEFINE later == [d EXCEPT !.needsUpdate = TRUE]
  <1>1. Scan(later) = <<d.users, d.recheck, TRUE, d.scanning, d.idle, d.timer>>
    BY DEF DirRecord, Scan
  <1>2. d.scanning => Served(later)
    BY <1>1 DEF Scan, Served, Tied
  <1>3. ~d.scanning => Served(Rescan(d, first))
    <2> SUFFICES ASSUME ~d.scanning
                 PROVE  Served(Rescan(d, first))
      OBVIOUS
    <2>1. ~d.idle /\ Tied(d)
      BY DEF Served, Tied
    <2>2. ~Rescan(d, first).needsUpdate /\ Tied(Rescan(d, first))
      BY <2>1, RescanScan
    <2> QED BY <2>2 DEF Served
  <1> QED BY <1>2, <1>3 DEF Update, Lookup

LEMMA AttachScan ==
    ASSUME TypeOK, NEW d \in DirRecord, NEW w \in Windows, NEW first \in Names,
           Tied(d)
    PROVE  Served(Attach(d, w, first))
  <1> DEFINE more   == [d EXCEPT !.users = @ \cup {w}]
             joined == ShowKnown(more, {w})
             asked  == IF d.needsUpdate /\ ~d.scanning
                       THEN Rescan(joined, first)
                       ELSE QueueInteresting(joined, {w})
             ready  == SetIdleCallback(asked, first)
  <1>1. /\ more \in DirRecord
        /\ Scan(more) = <<d.users \cup {w}, d.recheck, d.needsUpdate,
                          d.scanning, d.idle, d.timer>>
    BY DEF DirRecord, Scan
  <1>2. joined \in DirRecord /\ Scan(joined) = Scan(more)
    BY <1>1, ShowKnownType, ShowKnownScan
  <1>3. asked \in DirRecord
    BY <1>2, RescanType, QueueInterestingType
  <1> HIDE DEF more, joined
  <1>4. /\ asked.idle => asked.scanning
        /\ asked.users # {}
        /\ asked.needsUpdate => asked.idle /\ asked.recheck # {}
    <2>1. joined.users # {} /\ (joined.idle <=> joined.scanning)
          /\ (joined.scanning <=> d.scanning)
      BY <1>1, <1>2 DEF Scan, Tied
    <2>2. CASE d.needsUpdate /\ ~d.scanning
      BY <1>2, <2>1, <2>2, RescanScan
    <2>3. CASE ~(d.needsUpdate /\ ~d.scanning)
      <3>1. asked = QueueInteresting(joined, {w})
        BY <2>3
      <3>2. Meanwhile(joined, asked) /\ asked.scanning = joined.scanning
            /\ asked.idle = joined.idle
            /\ (joined.recheck # {} => asked.recheck # {})
        BY <1>2, <3>1, QueueInterestingScan
      <3> QED BY <1>1, <1>2, <2>1, <2>3, <3>2 DEF Scan, Meanwhile, Tied
    <2> QED BY <2>2, <2>3
  <1> HIDE DEF asked
  <1>5. /\ ready \in DirRecord /\ Meanwhile(asked, ready) /\ Tied(ready)
        /\ asked.idle /\ asked.users # {} /\ asked.recheck # {} => ready.scanning
    BY <1>3, <1>4, SetIdleCallbackType, SetIdleCallbackScan
  <1> HIDE DEF ready
  <1>6. Served(ready)
    BY <1>4, <1>5 DEF Served, Meanwhile
  <1>7. Scan(ShowKnown(ready, {w})) = Scan(ready)
    BY <1>5, ShowKnownScan
  <1>8. Served(ShowKnown(ready, {w}))
    BY <1>6, <1>7 DEF Scan, Served, Tied
  <1>9. Attach(d, w, first) \in {ready, ShowKnown(ready, {w})}
    BY DEF Attach, ready, asked, joined, more
  <1> QED BY <1>6, <1>8, <1>9

LEMMA DetachScan ==
    ASSUME TypeOK, NEW d \in DirRecord, NEW w \in Windows, NEW first \in Names,
           Served(d)
    PROVE  Served(Detach(d, w, first))
  <1> DEFINE left == [d EXCEPT !.users = @ \ {w}, !.view[w] = {}, !.stale[w] = {},
                               !.missed = @ \/ (event /\ d.users = {w})]
             tidy == Tidy(left)
             done == SetIdleCallback(tidy, first)
  <1>1. (d.missed \/ (event /\ d.users = {w})) \in BOOLEAN
    BY SMTT(40) DEF DirRecord, TypeOK
  <1>2. /\ left \in DirRecord
        /\ Scan(left) = <<d.users \ {w}, d.recheck, d.needsUpdate,
                          d.scanning, d.idle, d.timer>>
    BY <1>1 DEF DirRecord, Scan
  <1>3. tidy \in DirRecord /\ Scan(tidy) = Scan(left)
    BY <1>2, TidyType, TidyScan
  <1> HIDE DEF left, tidy
  <1>4. tidy.idle => tidy.scanning
    BY <1>2, <1>3 DEF Scan, Served, Tied
  <1>5. /\ Meanwhile(tidy, done) /\ Tied(done)
        /\ tidy.idle /\ tidy.users # {} /\ tidy.recheck # {} => done.scanning
    BY <1>3, <1>4, SetIdleCallbackScan
  <1> HIDE DEF done
  <1>6. Served(done)
    <2>1. CASE d.scanning
      BY <1>2, <1>3, <1>5, <2>1 DEF Scan, Served, Tied, Meanwhile
    <2>2. CASE ~d.scanning
      BY <1>2, <1>3, <1>5, <2>2 DEF Scan, Served, Meanwhile
    <2> QED BY <2>1, <2>2
  <1>7. Detach(d, w, first) = done
    BY DEF Detach, done, tidy, left
  <1> QED BY <1>6, <1>7

\* Every step keeps rescans and checks on their way.
LEMMA NextServed == TypeOK /\ Served(dir) /\ [Next]_vars => Served(dir')
  <1> SUFFICES ASSUME TypeOK, Served(dir), [Next]_vars
               PROVE  Served(dir')
    OBVIOUS
  <1> dir \in DirRecord
    BY DEF TypeOK
  <1>0. \A e : Scan(e) = Scan(dir) => Served(e)
    BY DEF Scan, Served, Tied
  <1>1. ASSUME NEW w \in Windows, OpenWindow(w)
        PROVE  Served(dir')
    BY <1>1, LookupType, LookupScan, AttachScan DEF OpenWindow, Served
  <1>2. ASSUME NEW w \in Windows, CloseWindow(w)
        PROVE  Served(dir')
    BY <1>2, DetachScan DEF CloseWindow
  <1>3. ASSUME NEW w \in Windows, ToggleHidden(w)
        PROVE  Served(dir')
    <2>1. PICK first \in Names, S \in SUBSET Windows :
            dir' = Attach([Detach(dir, w, first) EXCEPT !.showHidden = S], w, first)
      <3>1. dir.showHidden \in SUBSET Windows
        BY DEF DirRecord
      <3> QED BY <1>3, <3>1 DEF ToggleHidden
    <2> DEFINE left == Detach(dir, w, first)
               turned == [left EXCEPT !.showHidden = S]
    <2>2. left \in DirRecord /\ Served(left)
      BY DetachType, DetachScan
    <2>3. turned \in DirRecord /\ Scan(turned) = Scan(left)
      BY <2>2 DEF DirRecord, Scan
    <2>4. Tied(turned)
      BY <2>2, <2>3 DEF Scan, Served, Tied
    <2> QED BY <2>1, <2>3, <2>4, AttachScan
  <1>4. ASSUME NEW w \in Windows, Refresh(w) \/ PointerIn(w)
        PROVE  Served(dir')
    BY <1>4, LookupType, LookupScan DEF Refresh, PointerIn
  <1>5. ASSUME NEW w \in Windows, NEW i \in Item, UpdateItem(w, i)
        PROVE  Served(dir')
    <2>1. Scan(dir') = Scan(dir)
      BY <1>5, InsertItemType, InsertItemScan, MergeNewScan DEF UpdateItem, Item
    <2> QED BY <1>0, <2>1
  <1>6. ASSUME NEW n \in Names, CheckThis(n)
        PROVE  Served(dir')
    BY <1>0, <1>6, InsertItemScan DEF CheckThis
  <1>7. ASSUME NEW n \in Names, ForceUpdate(n)
        PROVE  Served(dir')
    <2>1. Scan(dir') = Scan(dir)
      BY <1>7 DEF ForceUpdate, DirRecord, Scan
    <2> QED BY <1>0, <2>1
  <1>8. ASSUME RefreshDirs
        PROVE  Served(dir')
    BY <1>8, LookupScan DEF RefreshDirs
  <1>9. ASSUME RecheckCallback
        PROVE  Served(dir')
    <2>1. PICK n \in Names, first \in Names :
            dir' = IF ~RecheckOne(dir, n).idle /\ RecheckOne(dir, n).needsUpdate
                   THEN Rescan(RecheckOne(dir, n), first) ELSE RecheckOne(dir, n)
      <3>1. dir.recheck \in SUBSET Names
        BY DEF DirRecord
      <3> QED BY <1>9, <3>1 DEF RecheckCallback
    <2> DEFINE checked == RecheckOne(dir, n)
    <2>2. checked \in DirRecord /\ Tied(checked)
      BY <1>9, RecheckOneType, RecheckOneScan DEF RecheckCallback, Served, Tied
    <2> HIDE DEF checked
    <2>3. CASE ~checked.idle /\ checked.needsUpdate
      <3>1. dir' = Rescan(checked, first)
        BY <2>1, <2>3 DEF checked
      <3>2. ~Rescan(checked, first).needsUpdate /\ Tied(Rescan(checked, first))
        BY <2>2, <2>3, RescanScan DEF Tied
      <3> QED BY <3>1, <3>2 DEF Served
    <2>4. CASE ~(~checked.idle /\ checked.needsUpdate)
      <3>1. dir' = checked
        BY <2>1, <2>4 DEF checked
      <3> QED BY <2>2, <2>4, <3>1 DEF Served, Tied
    <2> QED BY <2>3, <2>4
  <1>10. ASSUME NotifyTimeout
         PROVE  Served(dir')
    <2>1. MergeNew(dir) \in DirRecord /\ Scan(MergeNew(dir)) = Scan(dir)
      BY MergeNewType, MergeNewScan
    <2>2. Scan(dir') = Scan(MergeNew(dir))
      BY <1>10, <2>1 DEF NotifyTimeout, DirRecord, Scan
    <2> QED BY <1>0, <2>1, <2>2
  <1>11. ASSUME RescanTimeout
         PROVE  Served(dir')
    <2>1. PICK first \in Names :
            LET done == IF ~dir.scanning /\ dir.needsUpdate
                        THEN Rescan(dir, first) ELSE dir
            IN  dir' = [done EXCEPT !.timer = done.scanning]
      BY <1>11 DEF RescanTimeout
    <2> DEFINE done == IF ~dir.scanning /\ dir.needsUpdate
                       THEN Rescan(dir, first) ELSE dir
    <2>2. /\ done \in DirRecord /\ Tied(done)
          /\ done.needsUpdate => done.scanning
      BY RescanType, RescanScan DEF Served, Tied
    <2> HIDE DEF done
    <2>3. Scan(dir') = <<done.users, done.recheck, done.needsUpdate,
                         done.scanning, done.idle, done.scanning>>
      <3>1. dir' = [done EXCEPT !.timer = done.scanning]
        BY <2>1 DEF done
      <3> QED BY <2>2, <3>1 DEF DirRecord, Scan
    <2> QED BY <2>2, <2>3 DEF Scan, Served, Tied
  <1>12. ASSUME MonitorEvent
         PROVE  Served(dir')
    <2>1. Scan(dir') = <<dir.users, dir.recheck, TRUE, dir.scanning, dir.idle, TRUE>>
      BY <1>12 DEF MonitorEvent, DirRecord, Scan
    <2> QED BY <2>1 DEF Scan, Served, Tied
  <1>13. ASSUME CloseRecursive
         PROVE  Served(dir')
    <2> DEFINE left == [dir EXCEPT !.closing  = FALSE,
                                   !.users    = {},
                                   !.view     = [w \in Windows |-> {}],
                                   !.stale    = [w \in Windows |-> {}],
                                   !.scanning = FALSE,
                                   !.idle     = FALSE,
                                   !.missed   = @ \/ event]
    <2>1. (dir.missed \/ event) \in BOOLEAN
      BY DEF DirRecord, TypeOK
    <2>2. /\ left \in DirRecord
          /\ Scan(left) = <<{}, dir.recheck, dir.needsUpdate, FALSE, FALSE, dir.timer>>
      BY <2>1, ZenonT(40) DEF DirRecord, Scan
    <2>3. Scan(dir') = Scan(left)
      BY <1>13, <2>2, TidyScan DEF CloseRecursive
    <2> QED BY <2>2, <2>3 DEF Scan, Served, Tied
  <1>14. ASSUME NEW n \in Names, NEW v \in Details \cup {NoDetails},
                ChangeName(n, v) \/ ChangeDetails(n, v)
         PROVE  Served(dir')
    <2>1. \A b : Scan([dir EXCEPT !.missed = @ \/ (dir.users = {} /\ ~b)]) = Scan(dir)
      BY DEF DirRecord, Scan
    <2>2. Scan(dir') = Scan(dir)
      BY <1>14, <2>1 DEF ChangeName, ChangeDetails, Unannounced
    <2> QED BY <1>0, <2>2
  <1>15. ASSUME NEW s \in DirStates, ChangeDirectory(s)
         PROVE  Served(dir')
    BY <1>15 DEF ChangeDirectory
  <1>16. CASE UNCHANGED vars
    BY <1>16 DEF vars
  <1> QED
    BY <1>1, <1>2, <1>3, <1>4, <1>5, <1>6, <1>7, <1>8, <1>9, <1>10, <1>11, <1>12,
       <1>13, <1>14, <1>15, <1>16, NamesAssumption DEF Next

\* While a window watches the directory, a rescan that was asked for is always
\* followed up by a scan in progress or a timer, and a non-empty recheck list
\* by an idle callback, for any number of files and windows: of dir_rescan(),
\* recheck_callback(), set_idle_callback() and dir_detach() none leaves needs_update
\* or recheck_list behind.  Served is the inductive strengthening.
THEOREM RescansAreKept == Spec => []NoLostRescan
  <1> DEFINE Inv == TypeOK /\ Served(dir)
  <1>1. Init => Inv
    BY InitType DEF Init, NewDirectory, Served, Tied
  <1>2. ASSUME Inv, [Next]_vars
        PROVE  Inv'
    <2>1. TypeOK'
      BY <1>2, NextType
    <2>2. Served(dir')
      BY <1>2, NextServed
    <2> QED BY <2>1, <2>2 DEF Served, Tied
  <1>3. Inv => NoLostRescan
    BY DEF Served, Tied, NoLostRescan
  <1> QED BY <1>1, <1>2, <1>3, PTL DEF Spec

-----------------------------------------------------------------------------
(* Identities of items.                                                    *)

\* A set of naturals that is not empty has a least element.
LEMMA Least ==
    ASSUME NEW T \in SUBSET Nat, T # {}
    PROVE  \E m \in T : \A k \in T : m <= k
  <1> DEFINE R == {p \in Nat \X Nat : p[1] < p[2]}
  <1>1. R = OpToRel(<, Nat)
    BY DEF OpToRel
  <1>0. IsWellFoundedOn(R, Nat)
    BY <1>1, NatLessThanWellFounded
  <1>2. PICK m \in T : \A k \in T : ~(<<k, m>> \in R)
    BY <1>0, WFMin
  <1>3. ASSUME NEW k \in T, k < m
        PROVE  FALSE
    <2>1. <<k, m>> \in Nat \X Nat /\ <<k, m>>[1] = k /\ <<k, m>>[2] = m
      OBVIOUS
    <2> QED BY <1>2, <1>3, <2>1
  <1>4. \A k \in T : m <= k
    BY <1>3
  <1> QED BY <1>4

\* A set of identities that is not empty has a greatest element.
LEMMA Greatest ==
    ASSUME NEW T \in SUBSET Nums, T # {}
    PROVE  \E m \in T : \A k \in T : k <= m
  <1> DEFINE U == {b \in Nat : \A k \in T : k <= b}
  <1>1. T \subseteq Nat
    BY NumsAssumption
  <1>2. U # {}
    BY <1>1, NumsAssumption
  <1>3. PICK m \in U : \A b \in U : m <= b
    BY <1>2, Least
  <1>4. m \in T
    <2> SUFFICES ASSUME m \notin T
                 PROVE  FALSE
      OBVIOUS
    <2>1. \A k \in T : k <= m - 1
      BY <1>1
    <2>2. m - 1 \in Nat
      <3>1. PICK k \in T : TRUE
        OBVIOUS
      <3>2. k \in Nat /\ k <= m - 1
        BY <1>1, <2>1, <3>1
      <3> QED BY <3>2
    <2> QED BY <1>3, <2>1, <2>2
  <1> QED BY <1>4

\* A new item is one nothing points to, above the pending ones of its name.
LEMMA FreshIsUsable ==
    ASSUME NEW d, NEW n \in Names, \E k \in Nums : Usable(d, n, k)
    PROVE  LET i == Fresh(d, n)
           IN  /\ i \in Item /\ i.leaf = n /\ i \notin Referenced(d)
               /\ \A j \in d.new : j.leaf = n => j.no < i.no
  <1> DEFINE T == {k \in Nums : Usable(d, n, k)}
             c == CHOOSE k \in Nums : LeastUsable(d, n, k)
  <1>1. PICK m \in T : \A k \in T : m <= k
    BY Least, NumsAssumption
  <1>2. LeastUsable(d, n, m)
    BY <1>1 DEF LeastUsable
  <1>3. c \in Nums /\ LeastUsable(d, n, c)
    BY <1>1, <1>2
  <1>4. Fresh(d, n) = [leaf |-> n, no |-> c]
    BY <1>3 DEF Fresh
  <1> HIDE DEF c
  <1>5. /\ [leaf |-> n, no |-> c] \notin Referenced(d)
        /\ \A j \in d.new : j.leaf = n => j.no < c
    BY <1>3 DEF LeastUsable, Usable
  <1> QED BY <1>3, <1>4, <1>5 DEF Item

\* The guard of the operations leaves an identity for every name.
LEMMA RoomIsUsable ==
    ASSUME NEW d, NEW s \in {2, 3}, Room(d, s), NEW n \in Names
    PROVE  \E k \in Nums : Usable(d, n, k)
  <1> DEFINE T == {k \in Nums : Usable(d, n, k)}
  <1>1. Cardinality(T) >= s
    BY DEF Room
  <1>2. T # {}
    BY <1>1, FS_EmptySet
  <1> QED BY <1>2

-----------------------------------------------------------------------------
(* What the operators do to the items, field by field.                     *)

\* The fields that are neither about items nor in Scan.
Mode(d) == <<d.showHidden, d.notify, d.error, d.missed>>

\* The four sets of items that dir.c keeps.
Sets(d) == <<d.known, d.new, d.up, d.gone>>

\* e is d after freeing the items in S, with the views, sets and details of d.
Freed(d, S, e) ==
    /\ Sets(e) = Sets(d) /\ e.view = d.view /\ e.stale = d.stale
    /\ Scan(e) = Scan(d) /\ Mode(e) = Mode(d)
    /\ e.misused = d.misused
    /\ e.freed = (d.freed \cup S) \cap Referenced(e)
    /\ e.flagged = d.flagged \cap Referenced(e)
    /\ \A i \in Item : i \in Referenced(e) => e.details[i] = d.details[i]

\* Forgetting the unreferenced items.
LEMMA TidyFields ==
    ASSUME NEW d \in DirRecord
    PROVE  Freed(d, {}, Tidy(d))
  <1> DEFINE e == Tidy(d)
  <1>1. /\ Sets(e) = Sets(d) /\ e.view = d.view /\ e.stale = d.stale
        /\ Scan(e) = Scan(d) /\ Mode(e) = Mode(d) /\ e.misused = d.misused
        /\ e.freed = d.freed \cap Referenced(d)
        /\ e.flagged = d.flagged \cap Referenced(d)
        /\ \A i \in Item : i \in Referenced(d) => e.details[i] = d.details[i]
    BY DEF Tidy, DirRecord, Sets, Scan, Mode
  <1>2. Referenced(e) = Referenced(d)
    BY <1>1 DEF Referenced, Sets
  <1> HIDE DEF e
  <1>3. Freed(d, {}, e)
    BY <1>1, <1>2 DEF Freed
  <1> QED BY <1>3 DEF e

\* diritem_free() of some items.
LEMMA FreeItemsFields ==
    ASSUME NEW d \in DirRecord, NEW S \in SUBSET Item
    PROVE  Freed(d, S, FreeItems(d, S))
  <1> DEFINE c == [d EXCEPT !.freed = @ \cup S]
  <1>1. /\ c \in DirRecord
        /\ Sets(c) = Sets(d) /\ c.view = d.view /\ c.stale = d.stale
        /\ Scan(c) = Scan(d) /\ Mode(c) = Mode(d) /\ c.misused = d.misused
        /\ c.freed = d.freed \cup S /\ c.flagged = d.flagged
        /\ c.details = d.details
    BY SMTT(40) DEF DirRecord, Sets, Scan, Mode
  <1>2. Freed(c, {}, Tidy(c)) /\ FreeItems(d, S) = Tidy(c)
    BY <1>1, TidyFields DEF FreeItems
  <1> HIDE DEF c
  <1> QED BY <1>1, <1>2 DEF Freed

\* The fields no operator on the views touches.
Books(d) == <<d.flagged, d.details>>

\* e is d after the items named in S were removed from the views.
Removed(d, S, e) ==
    /\ Sets(e) = Sets(d) /\ Scan(e) = Scan(d) /\ Mode(e) = Mode(d)
    /\ Books(e) = Books(d) /\ e.freed = d.freed /\ e.misused = d.misused
    /\ \A w \in Windows :
         /\ e.view[w] = IF w \in d.users
                        THEN {i \in d.view[w] : i.leaf \notin Leaves(S)}
                        ELSE d.view[w]
         /\ e.stale[w] = IF w \in d.users
                         THEN {i \in d.stale[w] : i.leaf \notin Leaves(S)}
                         ELSE d.stale[w]

\* DIR_REMOVE.
LEMMA RemoveFromViewsFields ==
    ASSUME NEW d \in DirRecord, NEW S
    PROVE  /\ RemoveFromViews(d, S) \in DirRecord
           /\ Removed(d, S, RemoveFromViews(d, S))
  <1>1. RemoveFromViews(d, S) \in DirRecord
    BY RemoveFromViewsType
  <1> QED BY <1>1 DEF Removed, RemoveFromViews, DirRecord, Sets, Scan, Mode, Books

\* e is d after the windows were told of what is pending.
Shown(d, e) ==
    /\ Scan(e) = Scan(d) /\ Mode(e) = Mode(d)
    /\ e.misused = d.misused \cup (d.freed \cap (d.new \cup d.up \cup d.gone))
    /\ \A w \in Windows :
         /\ e.view[w] =
              IF w \in d.users
              THEN {i \in d.view[w] \cup {j \in d.new : Shows(d, w, j)} :
                      i.leaf \notin Leaves(d.gone)}
              ELSE d.view[w]
         /\ e.stale[w] = IF w \in d.users
                         THEN {i \in d.stale[w] \ d.up : i.leaf \notin Leaves(d.gone)}
                         ELSE d.stale[w]

\* DIR_ADD, DIR_UPDATE and DIR_REMOVE.
LEMMA ShowPendingFields ==
    ASSUME NEW d \in DirRecord
    PROVE  LET e == ShowPending(d)
           IN  /\ e \in DirRecord /\ Shown(d, e)
               /\ Sets(e) = Sets(d) /\ Books(e) = Books(d) /\ e.freed = d.freed
  <1> DEFINE added ==
        [d EXCEPT
           !.misused = @ \cup (d.freed \cap (d.new \cup d.up \cup d.gone)),
           !.view  = [w \in Windows |->
                        IF w \in d.users
                        THEN @[w] \cup {i \in d.new : Shows(d, w, i)} ELSE @[w]],
           !.stale = [w \in Windows |->
                        IF w \in d.users THEN @[w] \ d.up ELSE @[w]]]
             e == ShowPending(d)
  <1>1. added \in DirRecord
    BY DEF DirRecord
  <1>2. /\ Sets(added) = Sets(d) /\ Scan(added) = Scan(d) /\ Mode(added) = Mode(d)
        /\ Books(added) = Books(d) /\ added.freed = d.freed
        /\ added.misused = d.misused \cup (d.freed \cap (d.new \cup d.up \cup d.gone))
        /\ \A w \in Windows :
             /\ added.view[w] = IF w \in d.users
                                THEN d.view[w] \cup {i \in d.new : Shows(d, w, i)}
                                ELSE d.view[w]
             /\ added.stale[w] = IF w \in d.users THEN d.stale[w] \ d.up
                                                  ELSE d.stale[w]
    BY DEF DirRecord, Sets, Scan, Mode, Books
  <1>3. e = RemoveFromViews(added, d.gone)
    BY DEF ShowPending
  <1> HIDE DEF added, e
  <1>4. e \in DirRecord /\ Removed(added, d.gone, e)
    BY <1>1, <1>3, RemoveFromViewsFields
  <1>5. added.users = d.users
    BY <1>2 DEF Scan
  <1>6. ASSUME NEW w \in Windows
        PROVE  /\ e.view[w] =
                    IF w \in d.users
                    THEN {i \in d.view[w] \cup {j \in d.new : Shows(d, w, j)} :
                            i.leaf \notin Leaves(d.gone)}
                    ELSE d.view[w]
               /\ e.stale[w] =
                    IF w \in d.users
                    THEN {i \in d.stale[w] \ d.up : i.leaf \notin Leaves(d.gone)}
                    ELSE d.stale[w]
    BY <1>2, <1>4, <1>5 DEF Removed
  <1>7. Shown(d, e)
    BY <1>2, <1>4, <1>6 DEF Shown, Removed
  <1>8. /\ e \in DirRecord /\ Sets(e) = Sets(d) /\ Books(e) = Books(d)
        /\ e.freed = d.freed
    BY <1>2, <1>4 DEF Removed
  <1> QED BY <1>7, <1>8 DEF e

\* dir_merge_new().
LEMMA MergeNewFields ==
    ASSUME NEW d \in DirRecord
    PROVE  LET e == MergeNew(d)
           IN  /\ e \in DirRecord /\ Shown(d, e)
               /\ Sets(e) = <<MergedKnown(d), {}, {}, {}>>
               /\ e.freed = (d.freed \cup d.gone) \cap Referenced(e)
               /\ e.flagged = d.flagged \cap Referenced(e)
               /\ \A i \in Item : i \in Referenced(e) => e.details[i] = d.details[i]
  <1> DEFINE told == ShowPending(d)
             c == [told EXCEPT !.known = MergedKnown(d),
                               !.new = {}, !.up = {}, !.gone = {}]
             e == MergeNew(d)
  <1>1. /\ told \in DirRecord /\ Shown(d, told)
        /\ Sets(told) = Sets(d) /\ Books(told) = Books(d) /\ told.freed = d.freed
    BY ShowPendingFields
  <1>2. MergedKnown(d) \in SUBSET Item /\ d.gone \in SUBSET Item
    BY DEF MergedKnown, DirRecord
  <1>3. e = FreeItems(c, d.gone)
    BY DEF MergeNew
  <1> HIDE DEF told, e
  <1>4. /\ c \in DirRecord /\ Sets(c) = <<MergedKnown(d), {}, {}, {}>>
        /\ Scan(c) = Scan(told) /\ Mode(c) = Mode(told) /\ Books(c) = Books(told)
        /\ c.freed = told.freed /\ c.misused = told.misused
        /\ c.view = told.view /\ c.stale = told.stale
    BY <1>1, <1>2 DEF DirRecord, Sets, Scan, Mode, Books
  <1> HIDE DEF c
  <1>5. Freed(c, d.gone, e)
    BY <1>2, <1>3, <1>4, FreeItemsFields
  <1>6. e \in DirRecord
    BY MergeNewType DEF e
  <1>7. Shown(d, e)
    BY <1>1, <1>4, <1>5, SMTT(40) DEF Shown, Freed
  <1>8. /\ Sets(e) = <<MergedKnown(d), {}, {}, {}>>
        /\ e.freed = (d.freed \cup d.gone) \cap Referenced(e)
        /\ e.flagged = d.flagged \cap Referenced(e)
        /\ \A i \in Item : i \in Referenced(e) => e.details[i] = d.details[i]
    BY <1>1, <1>4, <1>5 DEF Freed, Books
  <1> QED BY <1>6, <1>7, <1>8 DEF e

-----------------------------------------------------------------------------
(* The invariant, of one Directory.                                        *)

\* known_items is keyed by name, and an item is in one of known_items,
\* new_items and gone_items only.
Keyed(d) == \A i, j \in d.known : i.leaf = j.leaf => i = j

Apart(d) ==
    /\ d.known \cap (d.new \cup d.gone) = {}
    /\ d.new \cap d.gone = {}
    /\ \A w \in Windows : d.view[w] \cap d.new = {}

\* A window that is not attached shows nothing.
Away(d) == \A w \in Windows \ d.users : d.view[w] = {} /\ d.stale[w] = {}

Pends(d) == \A w \in Windows : d.stale[w] \subseteq d.up \cup d.gone

Sound(d) == Keyed(d) /\ Apart(d) /\ Away(d) /\ Pends(d)

Told(d) == d.new \cup d.up \cup d.gone # {} => d.notify

\* With close_dir_when_missing, nothing is freed that something points to.
Safe(d) == CloseWhenMissing => d.freed = {} /\ d.misused = {}

\* There is an identity for the item that a check of n may make.
CanInsert(d, n) ==
    \/ n \in Leaves(d.known)
    \/ Stat(n) = NoDetails
    \/ \E k \in Nums : Usable(d, n, k)

Insertable(d) == \A n \in Names : CanInsert(d, n)

\* The details of a known item are the present ones, or it is to be checked.
Checked(d) ==
    \A i \in d.known :
        d.details[i] = disk[i.leaf] \/ i \in d.flagged \/ i.leaf \in d.recheck

\* The Directory has what is on the disk.
Listed(d) ==
    /\ ~d.error /\ d.new = {} /\ d.gone = {}
    /\ Leaves(d.known) = Listing
    /\ Checked(d)

\* The window shows what the Directory has.
Synced(d, w) == d.view[w] = {i \in d.known : Shows(d, w, i)}

\* The same before the check of n.
ListedBut(d, n) ==
    /\ ~d.error /\ d.new = {} /\ d.gone = {}
    /\ Leaves(d.known) = Listing
    /\ \A i \in d.known :
          \/ i.leaf = n \/ d.details[i] = disk[i.leaf]
          \/ i \in d.flagged \/ i.leaf \in d.recheck

Complete(d) == Listed(d) /\ (d.scanning \/ \A w \in d.users : Synced(d, w))

\* What an operator that does not list the directory keeps.
Keeps(d, e) ==
    /\ Sound(e)
    /\ Safe(d) => Safe(e)
    /\ Told(d) => Told(e)
    /\ dirState = "ok" /\ Complete(d) => Complete(e)
    /\ e.missed = d.missed /\ e.showHidden = d.showHidden

Grants(d, e) == \A n \in Names : CanInsert(d, n) => CanInsert(e, n)

-----------------------------------------------------------------------------
(* Each operator keeps the invariant.                                      *)

\* The hash table after a merge has the names of both, each once.
LEMMA MergedKnownIsKeyed ==
    ASSUME NEW d \in DirRecord, Keyed(d)
    PROVE  /\ Leaves(MergedKnown(d)) = Leaves(d.known) \cup Leaves(d.new)
           /\ \A i, j \in MergedKnown(d) : i.leaf = j.leaf => i = j
  <1>1. d.known \subseteq Item /\ d.new \subseteq Item
    BY DEF DirRecord
  <1>2. ASSUME NEW i \in d.new
        PROVE  i.leaf \in Leaves(MergedKnown(d))
    <2> DEFINE T == {j.no : j \in {h \in d.new : h.leaf = i.leaf}}
    <2>1. T \in SUBSET Nums /\ i.no \in T
      BY <1>1 DEF Item
    <2>2. PICK m \in T : \A k \in T : k <= m
      BY <2>1, Greatest
    <2>3. PICK j \in d.new : j.leaf = i.leaf /\ j.no = m
      OBVIOUS
    <2>4. \A h \in d.new : h.leaf = j.leaf => h.no <= j.no
      BY <2>2, <2>3
    <2>5. j \in MergedKnown(d)
      BY <2>4 DEF MergedKnown
    <2> QED BY <2>3, <2>5 DEF Leaves
  <1>3. \A i \in d.known : i.leaf \in Leaves(MergedKnown(d))
    <2> SUFFICES ASSUME NEW i \in d.known
                 PROVE  i.leaf \in Leaves(MergedKnown(d))
      OBVIOUS
    <2>1. CASE i.leaf \in Leaves(d.new)
      BY <1>2, <2>1 DEF Leaves
    <2>2. CASE i.leaf \notin Leaves(d.new)
      BY <2>2 DEF MergedKnown, Leaves
    <2> QED BY <2>1, <2>2
  <1>4. Leaves(MergedKnown(d)) \subseteq Leaves(d.known) \cup Leaves(d.new)
    BY DEF MergedKnown, Leaves
  <1>5. ASSUME NEW i \in MergedKnown(d), NEW j \in MergedKnown(d), i.leaf = j.leaf
        PROVE  i = j
    <2>1. CASE i \in d.known /\ i.leaf \notin Leaves(d.new)
      BY <1>5, <2>1 DEF MergedKnown, Keyed, Leaves
    <2>2. CASE i \in d.new /\ \A h \in d.new : h.leaf = i.leaf => h.no <= i.no
      <3>1. j \in d.new /\ \A h \in d.new : h.leaf = j.leaf => h.no <= j.no
        BY <1>5, <2>2 DEF MergedKnown, Leaves
      <3>2. i \in Item /\ j \in Item /\ i.no <= j.no /\ j.no <= i.no
        BY <1>1, <1>5, <2>2, <3>1
      <3>3. i.no \in Nat /\ j.no \in Nat
        BY <3>2, NumsAssumption DEF Item
      <3>4. i.no = j.no
        BY <3>2, <3>3
      <3> QED BY <1>5, <3>2, <3>4 DEF Item
    <2> QED BY <2>1, <2>2 DEF MergedKnown
  <1> QED BY <1>2, <1>3, <1>4, <1>5 DEF Leaves

\* dir_merge_new(): nothing is pending after it, and nothing was lost.
LEMMA MergeNewKeeps ==
    ASSUME NEW d \in DirRecord, Sound(d)
    PROVE  LET e == MergeNew(d)
           IN  /\ Keeps(d, e) /\ Told(e) /\ Grants(d, e)
               /\ e.new = {} /\ e.up = {} /\ e.gone = {}
               /\ Leaves(e.known) = Leaves(d.known) \cup Leaves(d.new)
  <1> DEFINE e == MergeNew(d)
  <1>1. /\ e \in DirRecord /\ Shown(d, e)
        /\ Sets(e) = <<MergedKnown(d), {}, {}, {}>>
        /\ e.freed = (d.freed \cup d.gone) \cap Referenced(e)
        /\ e.flagged = d.flagged \cap Referenced(e)
        /\ \A i \in Item : i \in Referenced(e) => e.details[i] = d.details[i]
    BY MergeNewFields
  <1> HIDE DEF e
  <1>2. e.known = MergedKnown(d) /\ e.new = {} /\ e.up = {} /\ e.gone = {}
    BY <1>1 DEF Sets
  <1>3. e.users = d.users /\ e.recheck = d.recheck /\ e.scanning = d.scanning
        /\ e.showHidden = d.showHidden /\ e.error = d.error /\ e.missed = d.missed
    BY <1>1 DEF Shown, Scan, Mode
  <1>4. /\ Leaves(e.known) = Leaves(d.known) \cup Leaves(d.new)
        /\ Keyed(e)
    BY <1>2, MergedKnownIsKeyed DEF Sound, Keyed
  <1>5. ASSUME NEW w \in Windows
        PROVE  /\ e.view[w] \subseteq d.view[w] \cup d.new
               /\ e.view[w] \cap d.gone = {}
               /\ e.stale[w] = {}
               /\ w \notin d.users => e.view[w] = {}
    <2>1. CASE w \in d.users
      BY <1>1, <2>1, ZenonT(40) DEF Shown, Leaves, Sound, Pends
    <2>2. CASE w \notin d.users
      BY <1>1, <2>2 DEF Shown, Sound, Away
    <2> QED BY <2>1, <2>2
  <1>6. Sound(e)
    BY <1>2, <1>3, <1>4, <1>5 DEF Sound, Apart, Away, Pends
  <1>7. Safe(d) => Safe(e)
    <2>1. d.gone \cap Referenced(e) = {}
      BY <1>2, <1>5 DEF Referenced, MergedKnown, Sound, Apart
    <2>2. d.freed = {} => e.freed = {} /\ e.misused = d.misused
      BY <1>1, <2>1 DEF Shown
    <2> QED BY <2>2 DEF Safe
  <1>8. Told(e)
    BY <1>2 DEF Told
  <1>9. ASSUME Complete(d)
        PROVE  Complete(e)
    <2>1. e.known = d.known
      BY <1>2, <1>9 DEF Complete, Listed, MergedKnown, Leaves
    <2>2. \A w \in d.users : e.view[w] = d.view[w]
      <3>1. d.users \subseteq Windows
        BY DEF DirRecord
      <3>2. d.new = {} /\ Leaves(d.gone) = {}
        BY <1>9 DEF Complete, Listed, Leaves
      <3>3. \A w \in d.users :
              e.view[w] = {i \in d.view[w] \cup {} : i.leaf \notin {}}
        BY <1>1, <3>1, <3>2 DEF Shown
      <3> QED BY <3>3
    <2>3. \A w, i : Shows(e, w, i) = Shows(d, w, i)
      BY <1>3 DEF Shows
    <2>4. Checked(e)
      <3>1. d.known \subseteq Item /\ d.known \subseteq Referenced(e)
        BY <2>1 DEF DirRecord, Referenced
      <3> QED BY <1>1, <1>3, <1>9, <2>1, <3>1 DEF Complete, Listed, Checked
    <2> QED BY <1>2, <1>3, <1>9, <2>1, <2>2, <2>3, <2>4 DEF Complete, Listed, Synced
  <1>10. Grants(d, e)
    <2> SUFFICES ASSUME NEW n \in Names, CanInsert(d, n)
                 PROVE  CanInsert(e, n)
      BY DEF Grants
    <2>1. CASE n \in Leaves(d.known) \cup Leaves(d.new) \/ Stat(n) = NoDetails
      BY <1>4, <2>1 DEF CanInsert
    <2>2. CASE \E k \in Nums : Usable(d, n, k)
      <3>1. Referenced(e) \subseteq Referenced(d)
        BY <1>2, <1>5 DEF Referenced, MergedKnown
      <3> QED BY <1>2, <2>2, <3>1 DEF CanInsert, Usable
    <2> QED BY <2>1, <2>2 DEF CanInsert
  <1>11. Keeps(d, e)
    BY <1>3, <1>6, <1>7, <1>8, <1>9 DEF Keeps
  <1> QED BY <1>2, <1>4, <1>8, <1>10, <1>11 DEF e

\* One after the other.
LEMMA KeepsBoth ==
    ASSUME NEW d, NEW e, NEW f, Keeps(d, e), Keeps(e, f)
    PROVE  Keeps(d, f)
  BY DEF Keeps

\* DIR_ADD of everything, or the end of a scan: the windows in ws show what is
\* known, of an attached window's view nothing else is left.
LEMMA ShowKnownKeeps ==
    ASSUME NEW d \in DirRecord, Sound(d), NEW ws \in SUBSET d.users
    PROVE  LET e == ShowKnown(d, ws)
           IN  /\ Sound(e) /\ (Safe(d) => Safe(e)) /\ (Told(d) => Told(e))
               /\ e.missed = d.missed /\ e.showHidden = d.showHidden
               /\ Listed(d) => Listed(e)
               /\ \A w \in Windows : w \in ws \/ Synced(d, w) => Synced(e, w)
               /\ Grants(d, e)
  <1> DEFINE c == [d EXCEPT
            !.view  = [w \in Windows |->
                         IF w \in ws THEN {i \in d.known : Shows(d, w, i)}
                                     ELSE @[w]],
            !.stale = [w \in Windows |-> IF w \in ws THEN {} ELSE @[w]]]
             e == ShowKnown(d, ws)
  <1>1. /\ c \in DirRecord /\ Sets(c) = Sets(d) /\ Scan(c) = Scan(d)
        /\ Mode(c) = Mode(d) /\ Books(c) = Books(d)
        /\ c.freed = d.freed /\ c.misused = d.misused
        /\ \A w \in Windows :
             /\ c.view[w] = IF w \in ws THEN {i \in d.known : Shows(d, w, i)}
                                        ELSE d.view[w]
             /\ c.stale[w] = IF w \in ws THEN {} ELSE d.stale[w]
    BY DEF DirRecord, Sets, Scan, Mode, Books
  <1>2. Freed(c, {}, e)
    BY <1>1, TidyFields DEF ShowKnown
  <1> HIDE DEF c, e
  <1>3. /\ e.known = d.known /\ e.new = d.new /\ e.up = d.up /\ e.gone = d.gone
        /\ e.users = d.users /\ e.recheck = d.recheck /\ e.notify = d.notify
        /\ e.showHidden = d.showHidden /\ e.error = d.error /\ e.missed = d.missed
    BY <1>1, <1>2 DEF Freed, Sets, Scan, Mode
  <1>4. ASSUME NEW w \in Windows
        PROVE  /\ e.view[w] = IF w \in ws THEN {i \in d.known : Shows(d, w, i)}
                                          ELSE d.view[w]
               /\ e.stale[w] = IF w \in ws THEN {} ELSE d.stale[w]
    BY <1>1, <1>2 DEF Freed
  <1>5. ASSUME NEW w \in Windows
        PROVE  /\ e.view[w] \subseteq d.view[w] \cup d.known
               /\ e.view[w] \cap d.new = {}
               /\ e.stale[w] \subseteq d.up \cup d.gone
               /\ w \notin d.users => e.view[w] = {} /\ e.stale[w] = {}
    <2>1. CASE w \in ws
      BY <1>4, <2>1 DEF Sound, Apart
    <2>2. CASE w \notin ws
      BY <1>4, <2>2 DEF Sound, Apart, Pends, Away
    <2> QED BY <2>1, <2>2
  <1>6. Sound(e)
    BY <1>3, <1>5 DEF Sound, Keyed, Apart, Away, Pends
  <1>7. Safe(d) => Safe(e)
    BY <1>1, <1>2 DEF Safe, Freed
  <1>8. Told(d) => Told(e)
    BY <1>3 DEF Told
  <1>9. Listed(d) => Listed(e)
    <2>1. d.known \subseteq Item /\ d.known \subseteq Referenced(e)
      BY <1>3 DEF DirRecord, Referenced
    <2>2. Checked(d) => Checked(e)
      BY <1>1, <1>2, <1>3, <2>1 DEF Checked, Freed, Books
    <2> QED BY <1>3, <2>2 DEF Listed
  <1>10. \A w \in Windows : w \in ws \/ Synced(d, w) => Synced(e, w)
    BY <1>3, <1>4 DEF Synced, Shows
  <1>11. Grants(d, e)
    <2>1. Referenced(e) \subseteq Referenced(d)
      BY <1>3, <1>5 DEF Referenced
    <2> QED BY <1>3, <2>1 DEF Grants, CanInsert, Usable
  <1> QED BY <1>3, <1>6, <1>7, <1>8, <1>9, <1>10, <1>11, SMTT(40) DEF e

\* d with other flags: what the invariant says of the items is the same.
LEMMA FlagsKeep ==
    ASSUME NEW d \in DirRecord, NEW e \in DirRecord, Sound(d),
           Sets(e) = Sets(d), e.view = d.view,
           e.stale = d.stale, e.users = d.users, e.showHidden = d.showHidden,
           e.freed = d.freed, e.misused = d.misused
    PROVE  /\ Sound(e) /\ (Safe(d) => Safe(e))
           /\ (d.notify => e.notify) => (Told(d) => Told(e))
           /\ (/\ Books(e) = Books(d) /\ e.error = d.error
               /\ e.recheck = d.recheck /\ Listed(d)) => Listed(e)
           /\ \A w \in Windows : Synced(d, w) => Synced(e, w)
           /\ Grants(d, e)
  <1>1. e.known = d.known /\ e.new = d.new /\ e.up = d.up /\ e.gone = d.gone
    BY DEF Sets
  <1>2. Sound(e) /\ (Safe(d) => Safe(e))
    BY <1>1 DEF Sound, Keyed, Apart, Away, Pends, Safe
  <1>3. Grants(d, e)
    <2>1. Referenced(e) = Referenced(d)
      BY <1>1 DEF Referenced
    <2> QED BY <1>1, <2>1 DEF Grants, CanInsert, Usable
  <1>4. \A w \in Windows : Synced(d, w) => Synced(e, w)
    BY <1>1 DEF Synced, Shows
  <1>5. (d.notify => e.notify) => (Told(d) => Told(e))
    BY <1>1 DEF Told
  <1>6. (/\ Books(e) = Books(d) /\ e.error = d.error
         /\ e.recheck = d.recheck /\ Listed(d)) => Listed(e)
    BY <1>1 DEF Books, Listed, Checked
  <1> QED BY <1>2, <1>3, <1>4, <1>5, <1>6

\* dir_set_scanning(): the views are complete when the scan is over.
LEMMA SetScanningKeeps ==
    ASSUME NEW d \in DirRecord, Sound(d), NEW b \in BOOLEAN
    PROVE  LET e == SetScanning(d, b) IN Keeps(d, e) /\ Grants(d, e)
  <1>1. \A c \in BOOLEAN :
          LET f == [d EXCEPT !.scanning = c]
          IN  /\ f \in DirRecord /\ Sets(f) = Sets(d) /\ Books(f) = Books(d)
              /\ f.view = d.view /\ f.stale = d.stale /\ f.users = d.users
              /\ f.freed = d.freed /\ f.misused = d.misused
              /\ f.recheck = d.recheck /\ f.scanning = c
              /\ Mode(f) = Mode(d)
    BY DEF DirRecord, Sets, Books, Mode
  <1>2. d.scanning \in BOOLEAN /\ d.users \subseteq Windows
    BY DEF DirRecord
  <1> DEFINE up == [d EXCEPT !.scanning = TRUE]
             down == [d EXCEPT !.scanning = FALSE]
             shown == ShowKnown(down, d.users)
  <1>3. \A f \in {up, down} :
          /\ f \in DirRecord
          /\ Sound(f) /\ (Safe(d) => Safe(f)) /\ (Told(d) => Told(f))
          /\ (Listed(d) => Listed(f)) /\ Grants(d, f)
          /\ f.missed = d.missed /\ f.showHidden = d.showHidden
          /\ f.users = d.users
    <2> SUFFICES ASSUME NEW c \in BOOLEAN
                 PROVE  LET f == [d EXCEPT !.scanning = c]
                        IN  /\ f \in DirRecord
                            /\ Sound(f) /\ (Safe(d) => Safe(f))
                            /\ (Told(d) => Told(f))
                            /\ (Listed(d) => Listed(f)) /\ Grants(d, f)
                            /\ f.missed = d.missed
                            /\ f.showHidden = d.showHidden
                            /\ f.users = d.users
      OBVIOUS
    <2> DEFINE f == [d EXCEPT !.scanning = c]
    <2>1. /\ f \in DirRecord /\ Sets(f) = Sets(d) /\ Books(f) = Books(d)
          /\ f.view = d.view /\ f.stale = d.stale /\ f.users = d.users
          /\ f.freed = d.freed /\ f.misused = d.misused
          /\ f.recheck = d.recheck
          /\ f.showHidden = d.showHidden /\ f.notify = d.notify
          /\ f.error = d.error /\ f.missed = d.missed
      BY <1>1 DEF Mode
    <2> HIDE DEF f
    <2>2. /\ Sound(f) /\ (Safe(d) => Safe(f)) /\ (Told(d) => Told(f))
          /\ (Listed(d) => Listed(f)) /\ Grants(d, f)
      BY <2>1, FlagsKeep
    <2> QED BY <2>1, <2>2 DEF f
  <1>4. up.scanning
    BY <1>1
  <1> HIDE DEF up, down
  <1>5. Keeps(d, up) /\ Grants(d, up)
    BY <1>3, <1>4 DEF Keeps, Complete
  <1>6. /\ Sound(shown) /\ (Safe(down) => Safe(shown)) /\ (Told(down) => Told(shown))
        /\ shown.missed = down.missed /\ shown.showHidden = down.showHidden
        /\ (Listed(down) => Listed(shown))
        /\ (\A w \in Windows : w \in d.users => Synced(shown, w))
        /\ Grants(down, shown)
    BY <1>3, ShowKnownKeeps
  <1>7. shown.users = d.users
    BY <1>3, ShowKnownScan DEF Scan
  <1> HIDE DEF shown
  <1>8. Keeps(d, shown) /\ Grants(d, shown)
    BY <1>2, <1>3, <1>6, <1>7 DEF Keeps, Grants, Complete
  <1>9. Keeps(d, d) /\ Grants(d, d)
    BY DEF Keeps, Grants
  <1>10. SetScanning(d, b) \in {d, up, shown}
    BY <1>2, SMTT(40) DEF SetScanning, up, down, shown
  <1> QED BY <1>5, <1>8, <1>9, <1>10

\* What insert_item() does with the name n.
Inserts(d, n, e) ==
    /\ Sound(e)
    /\ Safe(d) => Safe(e)
    /\ Told(d) => Told(e)
    /\ e.missed = d.missed /\ e.showHidden = d.showHidden
    /\ dirState = "ok" /\ ListedBut(d, n) =>
         Listed(e) /\ \A w \in Windows : Synced(d, w) => Synced(e, w)
    /\ \A m \in Names : m # n /\ CanInsert(d, m) => CanInsert(e, m)
    /\ n \in Leaves(e.known) \cup Leaves(e.new) \/ Stat(n) = NoDetails

\* diritem_restat(), field by field.
LEMMA RestatFields ==
    ASSUME NEW d \in DirRecord, NEW i \in Item, NEW v \in Details \cup {NoDetails}
    PROVE  LET e == Restat(d, i, v)
           IN  /\ e \in DirRecord
               /\ Sets(e) = Sets(d) /\ Scan(e) = Scan(d) /\ Mode(e) = Mode(d)
               /\ e.view = d.view /\ e.freed = d.freed /\ e.misused = d.misused
               /\ e.flagged = d.flagged \ {i}
               /\ e.details[i] = v
               /\ \A j \in Item : j # i => e.details[j] = d.details[j]
               /\ \A w \in Windows :
                    /\ e.stale[w] \subseteq d.stale[w] \cup {i}
                    /\ i \notin d.view[w] => e.stale[w] = d.stale[w]
  <1>1. Restat(d, i, v) \in DirRecord
    BY RestatType
  <1> QED BY <1>1 DEF Restat, DirRecord, Sets, Scan, Mode

\* insert_item() of a known item: it is removed, or has its present details.
LEMMA InsertKnownKeeps ==
    ASSUME TypeOK, NEW d \in DirRecord, Sound(d), NEW n \in Names,
           NEW k \in d.known, k.leaf = n
    PROVE  Inserts(d, n, InsertKnown(d, k, Stat(n)))
  <1> DEFINE v == Stat(n)
             c == Restat(d, k, v)
             out == DelayedNotify([c EXCEPT !.known = @ \ {k}, !.gone = @ \cup {k}])
             in  == DelayedNotify([c EXCEPT !.up = @ \cup {k}])
  <1>1. v \in Details \cup {NoDetails} /\ k \in Item /\ d.known \subseteq Item
    BY StatType DEF DirRecord
  <1>2. /\ c \in DirRecord
        /\ Sets(c) = Sets(d) /\ Scan(c) = Scan(d) /\ Mode(c) = Mode(d)
        /\ c.view = d.view /\ c.freed = d.freed /\ c.misused = d.misused
        /\ c.flagged = d.flagged \ {k}
        /\ c.details[k] = v
        /\ \A j \in Item : j # k => c.details[j] = d.details[j]
        /\ \A w \in Windows :
             /\ c.stale[w] \subseteq d.stale[w] \cup {k}
             /\ k \notin d.view[w] => c.stale[w] = d.stale[w]
    BY <1>1, RestatFields
  <1>3. n \in Leaves(d.known)
    BY DEF Leaves
  <1> HIDE DEF c
  <1> DEFINE Else(e) ==
               /\ Scan(e) = Scan(c)
               /\ e.showHidden = c.showHidden /\ e.notify = TRUE
               /\ e.error = c.error /\ e.missed = c.missed
               /\ e.view = c.view /\ e.freed = c.freed /\ e.misused = c.misused
               /\ e.flagged = c.flagged /\ e.details = c.details
               /\ e.stale = c.stale /\ e.new = c.new
  <1>3a. Else(out)
    BY <1>2 DEF DelayedNotify, DirRecord, Scan
  <1>3b. Else(in)
    BY <1>2 DEF DelayedNotify, DirRecord, Scan
  <1>5. /\ out.known = c.known \ {k} /\ out.gone = c.gone \cup {k} /\ out.up = c.up
        /\ in.known = c.known /\ in.gone = c.gone /\ in.up = c.up \cup {k}
    BY <1>2 DEF DelayedNotify, DirRecord
  <1> HIDE DEF out, in
  <1>4. c.users = d.users /\ c.recheck = d.recheck /\ c.new = d.new
        /\ c.showHidden = d.showHidden /\ c.error = d.error /\ c.missed = d.missed
    BY <1>2 DEF Sets, Scan, Mode
  <1>6. \A e \in {out, in} :
          /\ e.users = d.users /\ e.recheck = d.recheck
          /\ e.showHidden = d.showHidden /\ e.notify /\ e.error = d.error
          /\ e.missed = d.missed
          /\ e.view = d.view /\ e.freed = d.freed /\ e.misused = d.misused
          /\ e.flagged = d.flagged \ {k} /\ e.details = c.details
          /\ e.stale = c.stale /\ e.new = d.new
    BY <1>2, <1>3a, <1>3b, <1>4 DEF Scan
  <1>7. /\ out.known = d.known \ {k} /\ out.gone = d.gone \cup {k} /\ out.up = d.up
        /\ in.known = d.known /\ in.gone = d.gone /\ in.up = d.up \cup {k}
    BY <1>2, <1>5 DEF Sets
  <1>8. ASSUME NEW w \in Windows
        PROVE  /\ c.stale[w] \subseteq d.up \cup d.gone \cup {k}
               /\ w \notin d.users => d.view[w] = {} /\ c.stale[w] = {}
    BY <1>2 DEF Sound, Pends, Away
  <1>9. Sound(out)
    BY <1>6, <1>7, <1>8 DEF Sound, Keyed, Apart, Away, Pends
  <1>10. Sound(in)
    BY <1>6, <1>7, <1>8 DEF Sound, Keyed, Apart, Away, Pends
  <1>11. \A e \in {out, in} :
           /\ Safe(d) => Safe(e)
           /\ Told(e)
           /\ e.missed = d.missed /\ e.showHidden = d.showHidden
    BY <1>6 DEF Safe, Told
  <1>12. \A m \in Names : m # n /\ CanInsert(d, m) =>
           CanInsert(out, m) /\ CanInsert(in, m)
    <2>1. Referenced(out) \subseteq Referenced(d) /\ Referenced(in) \subseteq Referenced(d)
      BY <1>6, <1>7 DEF Referenced
    <2>2. \A m \in Names : m # n /\ m \in Leaves(d.known) =>
            m \in Leaves(out.known) /\ m \in Leaves(in.known)
      BY <1>7 DEF Leaves
    <2>3. out.new = d.new /\ in.new = d.new
      BY <1>6
    <2> QED BY <2>1, <2>2, <2>3 DEF CanInsert, Usable
  <1>13. ASSUME dirState = "ok", ListedBut(d, n)
         PROVE  v # NoDetails /\ v = disk[n]
    BY <1>3, <1>13 DEF Stat, Listing, ListedBut
  <1>14. CASE v = NoDetails
    <2>1. InsertKnown(d, k, v) = out
      BY <1>14 DEF InsertKnown, out, c
    <2>2. Inserts(d, n, out)
      BY <1>9, <1>11, <1>12, <1>13, <1>14 DEF Inserts
    <2> QED BY <2>1, <2>2
  <1>15. CASE v # NoDetails /\ d.details[k] = v /\ k \notin d.flagged
    <2>1. InsertKnown(d, k, v) = d
      BY <1>15 DEF InsertKnown
    <2>2. dirState = "ok" /\ ListedBut(d, n) => Listed(d)
      <3> SUFFICES ASSUME dirState = "ok", ListedBut(d, n)
                   PROVE  Checked(d)
        BY DEF Listed, ListedBut
      <3>1. \A i \in d.known : i.leaf = n => i = k
        BY DEF Sound, Keyed
      <3> QED BY <1>13, <1>15, <3>1 DEF Checked, ListedBut
    <2>3. Inserts(d, n, d)
      BY <1>3, <2>2 DEF Inserts
    <2> QED BY <2>1, <2>3
  <1>16. CASE v # NoDetails /\ ~(d.details[k] = v /\ k \notin d.flagged)
    <2>1. InsertKnown(d, k, v) = in
      BY <1>16 DEF InsertKnown, in, c
    <2>2. ASSUME dirState = "ok", ListedBut(d, n)
          PROVE  Listed(in) /\ \A w \in Windows : Synced(d, w) => Synced(in, w)
      <3>1. in.details[k] = disk[n]
        BY <1>2, <1>6, <1>13, <2>2
      <3>2. \A i \in d.known : i # k =>
              /\ in.details[i] = d.details[i]
              /\ i \in d.flagged => i \in in.flagged
              /\ i.leaf # n
        BY <1>1, <1>2, <1>6 DEF Sound, Keyed
      <3>3. Checked(in)
        BY <1>6, <1>7, <2>2, <3>1, <3>2 DEF Checked, ListedBut
      <3>4. \A w \in Windows : Synced(d, w) => Synced(in, w)
        BY <1>6, <1>7 DEF Synced, Shows
      <3> QED BY <1>6, <1>7, <2>2, <3>3, <3>4 DEF Listed, ListedBut
    <2>3. Inserts(d, n, in)
      BY <1>3, <1>7, <1>10, <1>11, <1>12, <2>2 DEF Inserts
    <2> QED BY <2>1, <2>3
  <1> QED BY <1>14, <1>15, <1>16

\* insert_item() of a name that is not known: an item that nothing points to
\* is pending then.
LEMMA InsertUnknownKeeps ==
    ASSUME TypeOK, NEW d \in DirRecord, Sound(d), NEW n \in Names,
           n \notin Leaves(d.known), CanInsert(d, n)
    PROVE  Inserts(d, n, InsertUnknown(d, n, Stat(n)))
  <1> DEFINE v == Stat(n)
             i == Fresh(d, n)
             e == DelayedNotify([d EXCEPT !.details[i] = v, !.new = @ \cup {i},
                                          !.up = @ \cup {i}])
  <1>1. CASE v = NoDetails
    <2>1. InsertUnknown(d, n, v) = d
      BY <1>1 DEF InsertUnknown
    <2>2. ListedBut(d, n) => Listed(d)
      BY DEF ListedBut, Listed, Checked, Leaves
    <2>3. Inserts(d, n, d)
      BY <1>1, <2>2 DEF Inserts
    <2> QED BY <2>1, <2>3
  <1>2. CASE v # NoDetails
    <2>1. /\ i \in Item /\ i.leaf = n /\ i \notin Referenced(d)
          /\ v \in Details \cup {NoDetails}
      BY <1>2, StatType, FreshIsUsable DEF CanInsert
    <2>2. InsertUnknown(d, n, v) = e
      BY <1>2 DEF InsertUnknown
    <2> HIDE DEF i
    <2>3. /\ e.known = d.known /\ e.new = d.new \cup {i} /\ e.up = d.up \cup {i}
          /\ e.gone = d.gone /\ e.view = d.view /\ e.stale = d.stale
          /\ e.users = d.users /\ e.freed = d.freed /\ e.misused = d.misused
          /\ e.notify /\ e.missed = d.missed /\ e.showHidden = d.showHidden
      BY <2>1 DEF DelayedNotify, DirRecord
    <2> HIDE DEF e
    <2>4. /\ i \notin d.known /\ i \notin d.gone
          /\ \A w \in Windows : i \notin d.view[w]
      BY <2>1 DEF Referenced
    <2>5. Sound(e)
      BY <2>3, <2>4 DEF Sound, Keyed, Apart, Away, Pends
    <2>6. \A m \in Names : m # n /\ CanInsert(d, m) => CanInsert(e, m)
      <3> SUFFICES ASSUME NEW m \in Names, m # n, CanInsert(d, m)
                   PROVE  CanInsert(e, m)
        OBVIOUS
      <3>1. \A k \in Nums : Usable(d, m, k) => Usable(e, m, k)
        <4>1. Referenced(e) = Referenced(d) \cup {i}
          BY <2>3 DEF Referenced
        <4>2. \A k \in Nums : [leaf |-> m, no |-> k] # i
          BY <2>1
        <4> QED BY <2>1, <2>3, <4>1, <4>2 DEF Usable
      <3> QED BY <2>3, <3>1 DEF CanInsert
    <2>7. ASSUME dirState = "ok", ListedBut(d, n)
          PROVE  FALSE
      BY <1>2, <2>7 DEF Stat, Listing, ListedBut
    <2>8. n \in Leaves(e.new)
      BY <2>1, <2>3 DEF Leaves
    <2>9. Inserts(d, n, e)
      BY <2>3, <2>5, <2>6, <2>7, <2>8 DEF Inserts, Safe, Told
    <2> QED BY <2>2, <2>9
  <1> QED BY <1>1, <1>2

\* insert_item().
LEMMA InsertItemKeeps ==
    ASSUME TypeOK, NEW d \in DirRecord, Sound(d), NEW n \in Names, CanInsert(d, n)
    PROVE  Inserts(d, n, InsertItem(d, n))
  <1>1. CASE n \in Leaves(d.known)
    <2>1. KnownItem(d, n) \in d.known /\ KnownItem(d, n).leaf = n
      BY <1>1 DEF Leaves, KnownItem
    <2> QED BY <1>1, <2>1, InsertKnownKeeps DEF InsertItem
  <1>2. CASE n \notin Leaves(d.known)
    BY <1>2, InsertUnknownKeeps DEF InsertItem
  <1> QED BY <1>1, <1>2

\* The idle callback's field alone.
LEMMA IdleKeeps ==
    ASSUME NEW d \in DirRecord, Sound(d), NEW b \in BOOLEAN
    PROVE  LET e == [d EXCEPT !.idle = b] IN Keeps(d, e) /\ Grants(d, e)
  <1> DEFINE e == [d EXCEPT !.idle = b]
  <1>1. /\ e \in DirRecord /\ Sets(e) = Sets(d) /\ Books(e) = Books(d)
        /\ e.view = d.view /\ e.stale = d.stale /\ e.users = d.users
        /\ e.freed = d.freed /\ e.misused = d.misused
        /\ e.recheck = d.recheck /\ e.scanning = d.scanning
        /\ e.showHidden = d.showHidden /\ e.notify = d.notify
        /\ e.error = d.error /\ e.missed = d.missed
    BY DEF DirRecord, Sets, Books
  <1>2. d.users \subseteq Windows
    BY DEF DirRecord
  <1> HIDE DEF e
  <1>3. /\ Sound(e) /\ (Safe(d) => Safe(e)) /\ (Told(d) => Told(e))
        /\ (Listed(d) => Listed(e))
        /\ (\A w \in Windows : Synced(d, w) => Synced(e, w))
        /\ Grants(d, e)
    BY <1>1, FlagsKeep
  <1>4. Keeps(d, e)
    BY <1>1, <1>2, <1>3 DEF Keeps, Complete
  <1> QED BY <1>3, <1>4 DEF e

\* queue_interesting(): a flagged item that is shown is checked now.
LEMMA QueueInterestingKeeps ==
    ASSUME NEW d \in DirRecord, Sound(d), NEW ws
    PROVE  LET e == QueueInteresting(d, ws) IN Keeps(d, e) /\ Grants(d, e)
  <1> DEFINE wanted == d.flagged \cap UNION {d.view[w] : w \in ws}
             e == QueueInteresting(d, ws)
  <1>1. /\ e \in DirRecord /\ Sets(e) = Sets(d)
        /\ e.view = d.view /\ e.stale = d.stale /\ e.users = d.users
        /\ e.freed = d.freed /\ e.misused = d.misused
        /\ e.scanning = d.scanning
        /\ e.showHidden = d.showHidden /\ e.notify = d.notify
        /\ e.error = d.error /\ e.missed = d.missed
        /\ e.recheck = d.recheck \cup Leaves(wanted)
        /\ e.flagged = d.flagged \ wanted
        /\ e.details = d.details
    <2>1. e \in DirRecord
      BY QueueInterestingType
    <2> QED BY <2>1 DEF QueueInteresting, DirRecord, Sets
  <1>2. d.users \subseteq Windows
    BY DEF DirRecord
  <1> HIDE DEF e, wanted
  <1>3. /\ Sound(e) /\ (Safe(d) => Safe(e)) /\ (Told(d) => Told(e))
        /\ (\A w \in Windows : Synced(d, w) => Synced(e, w))
        /\ Grants(d, e)
    BY <1>1, FlagsKeep
  <1>4. Checked(d) => Checked(e)
    BY <1>1 DEF Checked, Sets, Leaves
  <1>5. Listed(d) => Listed(e)
    BY <1>1, <1>4 DEF Listed, Sets
  <1>6. Keeps(d, e)
    BY <1>1, <1>2, <1>3, <1>5 DEF Keeps, Complete
  <1> QED BY <1>3, <1>6, SMTT(40) DEF e

\* recheck_callback() up to its restart of the scan; when the scan is over
\* there is an identity for every name again.
LEMMA RecheckOneKeeps ==
    ASSUME TypeOK, NEW d \in DirRecord, Sound(d), NEW n \in Names, CanInsert(d, n)
    PROVE  LET e == RecheckOne(d, n)
           IN  Keeps(d, e) /\ (Insertable(d) => Insertable(e) \/ e.idle = d.idle)
  <1> DEFINE popped  == [d EXCEPT !.recheck = @ \ {n}]
             checked == InsertItem(popped, n)
             merged  == MergeNew(checked)
             ended   == SetScanning(merged, FALSE)
             last    == [ended EXCEPT !.idle = FALSE]
  <1>1. /\ popped \in DirRecord /\ Sets(popped) = Sets(d) /\ Books(popped) = Books(d)
        /\ popped.view = d.view /\ popped.stale = d.stale /\ popped.users = d.users
        /\ popped.freed = d.freed /\ popped.misused = d.misused
        /\ popped.recheck = d.recheck \ {n}
        /\ popped.scanning = d.scanning /\ popped.idle = d.idle
        /\ popped.showHidden = d.showHidden /\ popped.notify = d.notify
        /\ popped.error = d.error /\ popped.missed = d.missed
    BY DEF DirRecord, Sets, Books
  <1> HIDE DEF popped
  <1>2. /\ Sound(popped) /\ (Safe(d) => Safe(popped)) /\ (Told(d) => Told(popped))
        /\ (\A w \in Windows : Synced(d, w) => Synced(popped, w))
        /\ Grants(d, popped)
    BY <1>1, FlagsKeep
  <1>3. Listed(d) => ListedBut(popped, n)
    BY <1>1 DEF Listed, ListedBut, Checked, Sets, Books
  <1>4. Inserts(popped, n, checked)
    BY <1>1, <1>2, InsertItemKeeps DEF Grants
  <1>5. checked \in DirRecord /\ Scan(checked) = Scan(popped)
    BY <1>1, InsertItemType, InsertItemScan
  <1>6. d.users \subseteq Windows
    BY DEF DirRecord
  <1> HIDE DEF checked
  <1>7. checked.scanning = d.scanning /\ checked.users = d.users
        /\ checked.idle = d.idle
    BY <1>1, <1>5 DEF Scan
  <1>8. Keeps(d, checked)
    BY <1>1, <1>2, <1>3, <1>4, <1>6, <1>7 DEF Keeps, Inserts, Complete
  <1>9. /\ merged \in DirRecord /\ Keeps(checked, merged) /\ Grants(checked, merged)
        /\ Leaves(merged.known) = Leaves(checked.known) \cup Leaves(checked.new)
    BY <1>5, <1>8, MergeNewType, MergeNewKeeps DEF Keeps
  <1> HIDE DEF merged
  <1>10. ended \in DirRecord /\ Keeps(merged, ended) /\ Grants(merged, ended)
    BY <1>9, SetScanningType, SetScanningKeeps DEF Keeps
  <1> HIDE DEF ended
  <1>11. Keeps(ended, last) /\ Grants(ended, last)
    BY <1>10, IdleKeeps DEF Keeps
  <1> HIDE DEF last
  <1>12. Keeps(d, last)
    BY <1>8, <1>9, <1>10, <1>11, KeepsBoth
  <1>13. Insertable(d) => Insertable(last)
    <2>1. Insertable(d) => Insertable(merged)
      <3>1. CanInsert(merged, n)
        BY <1>4, <1>9 DEF Inserts, CanInsert
      <3>2. \A m \in Names : m # n /\ CanInsert(d, m) => CanInsert(merged, m)
        BY <1>2, <1>4, <1>9 DEF Inserts, Grants
      <3> QED BY <3>1, <3>2 DEF Insertable
    <2> QED BY <2>1, <1>10, <1>11 DEF Grants, Insertable
  <1>14. RecheckOne(d, n) = IF checked.recheck # {} THEN checked ELSE last
    BY DEF RecheckOne, last, ended, merged, checked, popped
  <1> QED BY <1>7, <1>8, <1>12, <1>13, <1>14

\* set_idle_callback(): it checks an item at once when it starts the callback.
LEMMA SetIdleCallbackKeeps ==
    ASSUME TypeOK, NEW d \in DirRecord, Sound(d), NEW first \in Names,
           Insertable(d) \/ (d.users # {} /\ d.recheck # {} => d.idle)
    PROVE  LET e == SetIdleCallback(d, first)
           IN  /\ Keeps(d, e)
               /\ (d.users # {} /\ d.recheck # {} => d.idle) => Grants(d, e)
  <1> DEFINE n    == IF first \in d.recheck THEN first
                     ELSE CHOOSE m \in d.recheck : TRUE
             on   == SetScanning(d, TRUE)
             off  == SetScanning(d, FALSE)
             run  == [on EXCEPT !.idle = TRUE]
             stop == [off EXCEPT !.idle = FALSE]
             e    == SetIdleCallback(d, first)
  <1>1. /\ on \in DirRecord /\ Keeps(d, on) /\ Grants(d, on)
        /\ off \in DirRecord /\ Keeps(d, off) /\ Grants(d, off)
    BY SetScanningType, SetScanningKeeps
  <1>2. d.recheck # {} => n \in Names
    BY DEF DirRecord
  <1>3. e = IF d.recheck # {} /\ d.users # {}
            THEN IF d.idle THEN on ELSE RecheckOne(run, n)
            ELSE stop
    BY DEF SetIdleCallback
  <1> HIDE DEF n, on, off, e
  <1>4. /\ run \in DirRecord /\ Keeps(on, run) /\ Grants(on, run)
        /\ Keeps(off, stop) /\ Grants(off, stop)
    <2>1. run \in DirRecord
      BY <1>1 DEF DirRecord
    <2> QED BY <1>1, <2>1, IdleKeeps DEF Keeps
  <1> HIDE DEF run, stop
  <1>5. CASE d.recheck # {} /\ d.users # {} /\ ~d.idle
    <2>1. CanInsert(run, n)
      BY <1>1, <1>2, <1>4, <1>5 DEF Grants, Insertable
    <2>2. Keeps(run, RecheckOne(run, n))
      BY <1>2, <1>4, <1>5, <2>1, RecheckOneKeeps DEF Keeps
    <2>3. Keeps(d, e)
      BY <1>1, <1>3, <1>4, <1>5, <2>2, KeepsBoth
    <2> QED BY <1>5, <2>3 DEF e
  <1>6. CASE d.recheck # {} /\ d.users # {} /\ d.idle
    BY <1>1, <1>3, <1>6 DEF e
  <1>7. CASE ~(d.recheck # {} /\ d.users # {})
    <2>1. Keeps(d, stop) /\ Grants(d, stop)
      BY <1>1, <1>4, KeepsBoth DEF Grants
    <2> QED BY <1>3, <1>7, <2>1 DEF e
  <1> QED BY <1>5, <1>6, <1>7

\* remove_missing(): the items go from the views before they are freed; with
\* updates pending (dir_rescan() of a directory that is gone) an item may be
\* freed that up_items still has.
LEMMA RemoveMissingKeeps ==
    ASSUME NEW d \in DirRecord, Sound(d), NEW keep,
           CloseWhenMissing => d.up \cap d.known = {}
    PROVE  LET e == RemoveMissing(d, keep)
           IN  /\ e \in DirRecord /\ Sound(e)
               /\ (Safe(d) => Safe(e)) /\ (Told(d) => Told(e))
               /\ e.missed = d.missed /\ e.error = d.error
               /\ e.known = {i \in d.known : i.leaf \in keep}
               /\ e.new = d.new /\ e.up = d.up /\ e.gone = d.gone
               /\ \A m \in Names : (m \in keep \/ Stat(m) = NoDetails)
                                   /\ CanInsert(d, m) => CanInsert(e, m)
  <1> DEFINE deleted == {i \in d.known : i.leaf \notin keep}
             b == [d EXCEPT !.known = @ \ deleted]
             c == RemoveFromViews(b, deleted)
             e == RemoveMissing(d, keep)
  <1>1. deleted \in SUBSET Item /\ deleted \subseteq d.known
    BY DEF DirRecord
  <1>2. /\ b \in DirRecord
        /\ b.known = d.known \ deleted /\ b.new = d.new /\ b.up = d.up
        /\ b.gone = d.gone /\ b.view = d.view /\ b.stale = d.stale
        /\ b.users = d.users /\ b.notify = d.notify /\ b.error = d.error
        /\ b.missed = d.missed /\ b.freed = d.freed /\ b.misused = d.misused
    BY <1>1 DEF DirRecord
  <1>2a. c = RemoveFromViews(b, deleted) /\ b \in DirRecord
    BY <1>2
  <1> HIDE DEF b, deleted, c
  <1>3. c \in DirRecord /\ Removed(b, deleted, c)
    BY <1>2a, RemoveFromViewsFields
  <1>4. e = FreeItems(c, deleted)
    BY DEF RemoveMissing, e, c, b, deleted
  <1>5. Freed(c, deleted, e)
    BY <1>1, <1>3, <1>4, FreeItemsFields
  <1> HIDE DEF e
  <1>6. e \in DirRecord
    BY <1>1, <1>3, <1>4, FreeItemsType
  <1>7. /\ e.known = d.known \ deleted /\ e.new = d.new /\ e.up = d.up
        /\ e.gone = d.gone
        /\ e.users = d.users /\ e.notify = d.notify /\ e.error = d.error
        /\ e.missed = d.missed /\ e.misused = d.misused
        /\ e.freed = (d.freed \cup deleted) \cap Referenced(e)
    BY <1>2, <1>3, <1>5 DEF Removed, Freed, Sets, Scan, Mode
  <1>8. ASSUME NEW w \in Windows
        PROVE  /\ e.view[w] \subseteq d.view[w]
               /\ e.view[w] \cap deleted = {}
               /\ e.stale[w] \subseteq d.stale[w]
    <2>1. CASE w \in d.users
      <3>1. /\ e.view[w] = {i \in d.view[w] : i.leaf \notin Leaves(deleted)}
            /\ e.stale[w] = {i \in d.stale[w] : i.leaf \notin Leaves(deleted)}
        BY <1>2, <1>3, <1>5, <2>1 DEF Removed, Freed
      <3> QED BY <3>1 DEF Leaves
    <2>2. CASE w \notin d.users
      <3>1. e.view[w] = d.view[w] /\ e.stale[w] = d.stale[w]
        BY <1>2, <1>3, <1>5, <2>2 DEF Removed, Freed
      <3> QED BY <2>2, <3>1 DEF Sound, Away
    <2> QED BY <2>1, <2>2
  <1>9. Sound(e)
    BY <1>7, <1>8 DEF Sound, Keyed, Apart, Away, Pends
  <1>10. Safe(d) => Safe(e)
    <2>1. CloseWhenMissing => deleted \cap Referenced(e) = {}
      BY <1>1, <1>7, <1>8 DEF Referenced, Sound, Apart
    <2> QED BY <1>7, <2>1 DEF Safe
  <1>11. Told(d) => Told(e)
    BY <1>7 DEF Told
  <1>13. e.known = {i \in d.known : i.leaf \in keep}
    BY <1>7 DEF deleted
  <1>12. \A m \in Names : (m \in keep \/ Stat(m) = NoDetails)
                          /\ CanInsert(d, m) => CanInsert(e, m)
    <2>1. Referenced(e) \subseteq Referenced(d)
      BY <1>7, <1>8 DEF Referenced
    <2>2. \A m \in keep : m \in Leaves(d.known) => m \in Leaves(e.known)
      BY <1>13 DEF Leaves
    <2> QED BY <1>7, <2>1, <2>2 DEF CanInsert, Usable
  <1> QED BY <1>6, <1>7, <1>9, <1>10, <1>11, <1>12, <1>13 DEF e

\* Reading the names: a place-holder for each that is not known, everything
\* is to be checked, and nothing has been missed.
LEMMA ListNamesKeeps ==
    ASSUME NEW d \in DirRecord, Sound(d), Insertable(d), dirState = "ok",
           d.new = {}, d.gone = {}
    PROVE  LET e == ListNames(d)
           IN  /\ e \in DirRecord /\ Sound(e) /\ (Safe(d) => Safe(e))
               /\ e.known = d.known /\ e.gone = {}
               /\ Leaves(e.new) = Listing \ Leaves(d.known)
               /\ e.known \cup e.new \subseteq e.flagged
               /\ e.error = d.error
  <1> DEFINE blank == {Fresh(d, n) : n \in Listing \ Leaves(d.known)}
             e == ListNames(d)
  <1>1. ASSUME NEW n \in Listing \ Leaves(d.known)
        PROVE  /\ Fresh(d, n) \in Item /\ Fresh(d, n).leaf = n
               /\ Fresh(d, n) \notin Referenced(d)
    <2>1. n \in Names /\ Stat(n) # NoDetails
      BY DEF Listing, Stat
    <2>2. \E k \in Nums : Usable(d, n, k)
      BY <1>1, <2>1 DEF Insertable, CanInsert
    <2> QED BY <2>1, <2>2, FreshIsUsable
  <1>2. /\ blank \subseteq Item /\ blank \cap Referenced(d) = {}
        /\ Leaves(blank) = Listing \ Leaves(d.known)
    BY <1>1 DEF Leaves
  <1>3. e = [d EXCEPT !.recheck = {}, !.new = @ \cup blank,
                      !.flagged = @ \cup blank \cup d.known, !.missed = FALSE]
    BY DEF ListNames
  <1> HIDE DEF blank, e
  <1>4. e \in DirRecord
    BY ListNamesType DEF e
  <1>5. /\ e.known = d.known /\ e.new = blank /\ e.up = d.up /\ e.gone = d.gone
        /\ e.view = d.view /\ e.stale = d.stale /\ e.users = d.users
        /\ e.freed = d.freed /\ e.misused = d.misused /\ e.error = d.error
        /\ e.flagged = d.flagged \cup blank \cup d.known
    BY <1>3 DEF DirRecord
  <1>6. /\ d.known \cap blank = {} /\ d.gone \cap blank = {}
        /\ \A w \in Windows : d.view[w] \cap blank = {}
    BY <1>2 DEF Referenced
  <1>7. Sound(e)
    BY <1>5, <1>6 DEF Sound, Keyed, Apart, Away, Pends
  <1>8. Safe(d) => Safe(e)
    BY <1>5 DEF Safe
  <1> QED BY <1>2, <1>4, <1>5, <1>7, <1>8 DEF e

\* dir_rescan() of a directory that can be read: afterwards the Directory is
\* complete, whatever was pending.
LEMMA RescanListingKeeps ==
    ASSUME TypeOK, NEW d \in DirRecord, Sound(d), Insertable(d), ~d.error,
           dirState = "ok", NEW first \in Names
    PROVE  LET e == RescanListing(d, first)
           IN  /\ Sound(e) /\ (Safe(d) => Safe(e)) /\ Told(e)
               /\ Complete(e) /\ Insertable(e)
  <1> DEFINE a == SetScanning(d, TRUE)
             b == MergeNew(a)
             c == RemoveMissing(b, Listing)
             e == ListNames(c)
             f == MergeNew(e)
             g == QueueInteresting(f, f.users)
             h == SetIdleCallback(g, first)
             k == MergeNew(h)
  <1>1. /\ a \in DirRecord /\ Keeps(d, a) /\ Grants(d, a) /\ a.scanning
        /\ Mode(a) = Mode(d)
    <2>1. a \in DirRecord /\ Keeps(d, a) /\ Grants(d, a)
      BY SetScanningType, SetScanningKeeps
    <2>2. a.scanning = TRUE
      BY SetScanningScan DEF Scan
    <2>3. d.scanning \in BOOLEAN
      BY DEF DirRecord
    <2>4. a \in {d, [d EXCEPT !.scanning = TRUE]}
      BY <2>3 DEF SetScanning
    <2>5. Mode(a) = Mode(d)
      BY <2>4 DEF Mode, DirRecord
    <2> QED BY <2>1, <2>2, <2>5
  <1>2. /\ b \in DirRecord /\ Keeps(a, b) /\ Grants(a, b)
        /\ b.new = {} /\ b.up = {} /\ b.gone = {}
        /\ b.scanning = a.scanning /\ b.error = d.error
    <2>1. /\ b \in DirRecord /\ Keeps(a, b) /\ Grants(a, b)
          /\ b.new = {} /\ b.up = {} /\ b.gone = {}
      BY <1>1, MergeNewType, MergeNewKeeps DEF Keeps
    <2>2. Shown(a, b)
      BY <1>1, MergeNewFields
    <2> QED BY <1>1, <2>1, <2>2 DEF Shown, Scan, Mode
  <1>3. \A m \in Names : m \in Listing \/ Stat(m) = NoDetails
    BY DEF Listing, Stat
  <1> HIDE DEF a, b
  <1>4. /\ c \in DirRecord /\ Sound(c) /\ (Safe(b) => Safe(c))
        /\ c.known = {i \in b.known : i.leaf \in Listing}
        /\ c.new = {} /\ c.gone = {}
        /\ Insertable(c) /\ c.error = d.error /\ c.scanning = a.scanning
    <2>1. Insertable(b) /\ Sound(b)
      BY <1>1, <1>2 DEF Grants, Insertable, Keeps
    <2>2. /\ c \in DirRecord /\ Sound(c) /\ (Safe(b) => Safe(c))
          /\ c.error = b.error
          /\ c.known = {i \in b.known : i.leaf \in Listing}
          /\ c.new = b.new /\ c.up = b.up /\ c.gone = b.gone
          /\ \A m \in Names : (m \in Listing \/ Stat(m) = NoDetails)
                              /\ CanInsert(b, m) => CanInsert(c, m)
      BY <1>2, <2>1, RemoveMissingKeeps
    <2>3. Insertable(c)
      BY <1>3, <2>1, <2>2 DEF Insertable
    <2>4. Scan(c) = Scan(b)
      BY <1>2, RemoveMissingScan
    <2> QED BY <1>2, <2>2, <2>3, <2>4 DEF Scan
  <1>5. /\ e \in DirRecord /\ Sound(e) /\ (Safe(c) => Safe(e))
        /\ e.known = c.known /\ e.gone = {}
        /\ Leaves(e.new) = Listing \ Leaves(c.known)
        /\ e.known \cup e.new \subseteq e.flagged
        /\ e.error = d.error /\ e.scanning = a.scanning
    <2>1. /\ e \in DirRecord /\ Sound(e) /\ (Safe(c) => Safe(e))
          /\ e.known = c.known /\ e.gone = {}
          /\ Leaves(e.new) = Listing \ Leaves(c.known)
          /\ e.known \cup e.new \subseteq e.flagged
          /\ e.error = c.error
      BY <1>4, ListNamesKeeps
    <2>2. e.scanning = c.scanning
      BY <1>4, ListNamesScan
    <2> QED BY <1>4, <2>1, <2>2
  <1>6. /\ f \in DirRecord /\ Sound(f) /\ (Safe(e) => Safe(f)) /\ Told(f)
        /\ Listed(f) /\ f.scanning = a.scanning
    <2>1. /\ f \in DirRecord /\ Keeps(e, f) /\ Told(f)
          /\ f.new = {} /\ f.gone = {}
          /\ Leaves(f.known) = Leaves(e.known) \cup Leaves(e.new)
      BY <1>5, MergeNewType, MergeNewKeeps
    <2>2. /\ Shown(e, f)
          /\ Sets(f) = <<MergedKnown(e), {}, {}, {}>>
          /\ f.flagged = e.flagged \cap Referenced(f)
      BY <1>5, MergeNewFields
    <2>3. Leaves(c.known) \subseteq Listing
      BY <1>4 DEF Leaves
    <2>4. Leaves(f.known) = Listing
      BY <1>5, <2>1, <2>3
    <2>5. Checked(f)
      <3>1. f.known \subseteq e.known \cup e.new
        BY <2>2 DEF Sets, MergedKnown
      <3>2. f.known \subseteq Referenced(f)
        BY DEF Referenced
      <3> QED BY <1>5, <2>2, <3>1, <3>2 DEF Checked
    <2>6. f.error = d.error /\ f.scanning = a.scanning
      BY <1>5, <2>2 DEF Shown, Mode, Scan
    <2> QED BY <2>1, <2>4, <2>5, <2>6 DEF Listed, Keeps
  <1>7. /\ g \in DirRecord /\ Keeps(f, g) /\ Complete(g) /\ Insertable(g)
    <2>1. g \in DirRecord /\ Keeps(f, g) /\ Grants(f, g)
      BY <1>6, QueueInterestingType, QueueInterestingKeeps
    <2>2. Complete(f)
      BY <1>1, <1>6 DEF Complete
    <2>3. Insertable(f)
      BY <1>3, <1>6 DEF Insertable, CanInsert, Listed
    <2> QED BY <2>1, <2>2, <2>3 DEF Keeps, Grants, Insertable
  <1>8. h \in DirRecord /\ Keeps(g, h)
    BY <1>7, SetIdleCallbackType, SetIdleCallbackKeeps DEF Keeps
  <1>9. Keeps(h, k) /\ Told(k)
    BY <1>8, MergeNewKeeps DEF Keeps
  <1>10. RescanListing(d, first) = k
    BY DEF RescanListing, k, h, g, f, e, c, b, a
  <1> HIDE DEF a, b, c, e, f, g, h, k
  <1>11. Sound(k) /\ (Safe(d) => Safe(k)) /\ Complete(k)
    BY <1>1, <1>2, <1>4, <1>5, <1>6, <1>7, <1>8, <1>9 DEF Keeps
  <1>12. Insertable(k)
    BY <1>3, <1>11 DEF Insertable, CanInsert, Complete, Listed
  <1> QED BY <1>9, <1>10, <1>11, <1>12

\* dir_rescan().
LEMMA RescanKeeps ==
    ASSUME TypeOK, NEW d \in DirRecord, Sound(d), Insertable(d), NEW first \in Names
    PROVE  LET e == Rescan(d, first)
           IN  /\ Sound(e) /\ (Safe(d) => Safe(e)) /\ (Told(d) => Told(e))
               /\ dirState = "ok" => Complete(e)
               /\ Insertable(e)
  <1> DEFINE begun == [d EXCEPT !.needsUpdate = FALSE, !.error = FALSE]
             failed == [begun EXCEPT !.error = TRUE]
             closes == [begun EXCEPT !.closing = TRUE]
             Same(e) == /\ e \in DirRecord /\ Sets(e) = Sets(d)
                        /\ e.view = d.view /\ e.stale = d.stale /\ e.users = d.users
                        /\ e.freed = d.freed /\ e.misused = d.misused
                        /\ e.showHidden = d.showHidden /\ e.notify = d.notify
             Fine(e) == /\ Sound(e) /\ (Safe(d) => Safe(e)) /\ (Told(d) => Told(e))
                        /\ Insertable(e)
  <1>1. Same(begun) /\ begun.error = FALSE
    BY DEF DirRecord, Sets
  <1>2. Same(failed)
    BY DEF DirRecord, Sets
  <1>3. Same(closes)
    BY DEF DirRecord, Sets
  <1> HIDE DEF begun, failed, closes
  <1>4. \A e : Same(e) => Fine(e)
    BY FlagsKeep DEF Grants, Insertable
  <1>5. dirState \in {"ok", "locked", "gone"}
    BY DEF TypeOK
  <1>6. CASE dirState = "ok"
    <2>1. Rescan(d, first) = RescanListing(begun, first)
      BY <1>6 DEF Rescan, begun
    <2>2. Fine(begun)
      BY <1>1, <1>4
    <2>3. LET e == RescanListing(begun, first)
          IN  /\ Sound(e) /\ (Safe(begun) => Safe(e)) /\ Told(e)
              /\ Complete(e) /\ Insertable(e)
      BY <1>1, <1>6, <2>2, RescanListingKeeps
    <2> QED BY <2>1, <2>2, <2>3
  <1>7. CASE dirState = "locked"
    <2>1. Rescan(d, first) = failed
      BY <1>7 DEF Rescan, begun, failed
    <2> QED BY <1>2, <1>4, <1>7, <2>1
  <1>8. CASE dirState = "gone"
    <2>1. Rescan(d, first) = IF CloseWhenMissing THEN closes
                             ELSE RemoveMissing(failed, {})
      BY <1>8 DEF Rescan, RescanMissing, begun, failed, closes
    <2>2. CASE CloseWhenMissing
      BY <1>3, <1>4, <1>8, <2>1, <2>2
    <2>3. CASE ~CloseWhenMissing
      <3>1. Fine(failed) /\ failed \in DirRecord
        BY <1>2, <1>4
      <3>2. LET e == RemoveMissing(failed, {})
            IN  Sound(e) /\ (Safe(failed) => Safe(e)) /\ (Told(failed) => Told(e))
        BY <2>3, <3>1, RemoveMissingKeeps
      <3>3. \A e : Insertable(e)
        BY <1>8 DEF Insertable, CanInsert, Stat
      <3> QED BY <1>8, <2>1, <2>3, <3>1, <3>2, <3>3
    <2> QED BY <2>2, <2>3
  <1> QED BY <1>5, <1>6, <1>7, <1>8

\* The Directory is complete unless a rescan is wanted or a change was missed.
Current(d) == dirState = "ok" /\ ~d.needsUpdate /\ ~d.missed => Complete(d)

\* What every operator keeps.
Holds(d, e) == Sound(e) /\ (Safe(d) => Safe(e)) /\ (Told(d) => Told(e))

\* d with other timers: the invariant is the same.
LEMMA TimersKeep ==
    ASSUME NEW d \in DirRecord, NEW e \in DirRecord, Sound(d),
           Sets(e) = Sets(d), e.view = d.view,
           e.stale = d.stale, e.users = d.users, e.showHidden = d.showHidden,
           e.freed = d.freed, e.misused = d.misused, Books(e) = Books(d),
           e.error = d.error, e.recheck = d.recheck, e.scanning = d.scanning,
           e.missed = d.missed, e.notify = d.notify
    PROVE  Keeps(d, e) /\ Grants(d, e)
  <1>1. d.users \subseteq Windows
    BY DEF DirRecord
  <1>2. /\ Sound(e) /\ (Safe(d) => Safe(e)) /\ (Told(d) => Told(e))
        /\ (Listed(d) => Listed(e))
        /\ (\A w \in Windows : Synced(d, w) => Synced(e, w))
        /\ Grants(d, e)
    BY FlagsKeep
  <1> QED BY <1>1, <1>2 DEF Keeps, Complete

\* The update function of the cache: the Directory is current, or it will be
\* rescanned.
LEMMA UpdateKeeps ==
    ASSUME TypeOK, NEW d \in DirRecord, Sound(d), Insertable(d), NEW first \in Names
    PROVE  LET e == Update(d, first)
           IN  Holds(d, e) /\ Insertable(e) /\ Current(e)
  <1>1. CASE d.scanning
    <2> DEFINE e == [d EXCEPT !.needsUpdate = TRUE]
    <2>1. /\ e \in DirRecord /\ Sets(e) = Sets(d) /\ e.view = d.view
          /\ e.stale = d.stale /\ e.users = d.users /\ e.showHidden = d.showHidden
          /\ e.freed = d.freed /\ e.misused = d.misused /\ Books(e) = Books(d)
          /\ e.error = d.error /\ e.recheck = d.recheck /\ e.scanning = d.scanning
          /\ e.missed = d.missed /\ e.notify = d.notify /\ e.needsUpdate
      BY DEF DirRecord, Sets, Books
    <2>2. Update(d, first) = e
      BY <1>1 DEF Update
    <2> HIDE DEF e
    <2>3. Keeps(d, e) /\ Grants(d, e)
      BY <2>1, TimersKeep
    <2>4. Holds(d, e) /\ Insertable(e) /\ Current(e)
      BY <2>1, <2>3 DEF Holds, Keeps, Grants, Insertable, Current
    <2> QED BY <2>2, <2>4
  <1>2. CASE ~d.scanning
    <2>1. Update(d, first) = Rescan(d, first)
      BY <1>2 DEF Update
    <2> QED BY <2>1, RescanKeeps DEF Holds, Current
  <1> QED BY <1>1, <1>2

\* A lookup in the cache.
LEMMA LookupKeeps ==
    ASSUME TypeOK, NEW d \in DirRecord, Sound(d), Insertable(d), NEW first \in Names,
           stampOld \/ Current(d)
    PROVE  LET e == Lookup(d, first)
           IN  Holds(d, e) /\ Insertable(e) /\ Current(e)
  <1>1. CASE stampOld
    BY <1>1, UpdateKeeps DEF Lookup
  <1>2. CASE ~stampOld
    BY <1>2 DEF Lookup, Holds
  <1> QED BY <1>1, <1>2

\* dir_attach(): the window that joins shows what is known.
LEMMA AttachKeeps ==
    ASSUME TypeOK, NEW d \in DirRecord, Sound(d), Insertable(d), Tied(d),
           NEW w \in Windows, NEW first \in Names
    PROVE  LET e == Attach(d, w, first)
           IN  Holds(d, e) /\ (Current(d) => Current(e))
  <1> DEFINE more   == [d EXCEPT !.users = @ \cup {w}]
             joined == ShowKnown(more, {w})
             asked  == IF d.needsUpdate /\ ~d.scanning
                       THEN Rescan(joined, first)
                       ELSE QueueInteresting(joined, {w})
             ready  == SetIdleCallback(asked, first)
             done   == ShowKnown(ready, {w})
  <1>1. /\ more \in DirRecord /\ Sets(more) = Sets(d) /\ Books(more) = Books(d)
        /\ more.view = d.view /\ more.stale = d.stale
        /\ more.users = d.users \cup {w} /\ more.showHidden = d.showHidden
        /\ more.freed = d.freed /\ more.misused = d.misused
        /\ more.error = d.error /\ more.recheck = d.recheck
        /\ more.scanning = d.scanning /\ more.needsUpdate = d.needsUpdate
        /\ more.missed = d.missed /\ more.notify = d.notify
        /\ more.idle = d.idle
    BY DEF DirRecord, Sets, Books
  <1> HIDE DEF more
  <1>2. /\ Sound(more) /\ (Safe(d) => Safe(more)) /\ (Told(d) => Told(more))
        /\ (Listed(d) => Listed(more)) /\ Insertable(more)
        /\ \A v \in Windows : Synced(d, v) => Synced(more, v)
    <2>1. more.known = d.known /\ more.new = d.new /\ more.up = d.up
          /\ more.gone = d.gone /\ more.flagged = d.flagged
          /\ more.details = d.details
      BY <1>1 DEF Sets, Books
    <2>2. Sound(more)
      BY <1>1, <2>1 DEF Sound, Keyed, Apart, Away, Pends
    <2>3. /\ (Safe(d) => Safe(more)) /\ (Told(d) => Told(more))
          /\ (Listed(d) => Listed(more))
      BY <1>1, <2>1 DEF Safe, Told, Listed, Checked
    <2>4. Insertable(more)
      <3>1. Referenced(more) = Referenced(d)
        BY <1>1, <2>1 DEF Referenced
      <3> QED BY <2>1, <3>1 DEF Insertable, CanInsert, Usable
    <2>5. \A v \in Windows : Synced(d, v) => Synced(more, v)
      BY <1>1, <2>1 DEF Synced, Shows
    <2> QED BY <2>2, <2>3, <2>4, <2>5
  <1>3. /\ joined \in DirRecord
        /\ Sound(joined) /\ (Safe(more) => Safe(joined))
        /\ (Told(more) => Told(joined))
        /\ joined.missed = more.missed
        /\ (Listed(more) => Listed(joined))
        /\ (\A v \in Windows : v \in {w} \/ Synced(more, v) => Synced(joined, v))
        /\ Grants(more, joined)
    <2>1. {w} \in SUBSET more.users
      BY <1>1
    <2> QED BY <1>1, <1>2, <2>1, ShowKnownType, ShowKnownKeeps
  <1>4. /\ joined.users = d.users \cup {w} /\ joined.scanning = d.scanning
        /\ joined.needsUpdate = d.needsUpdate /\ joined.idle = d.idle
    BY <1>1, ShowKnownScan DEF Scan
  <1> HIDE DEF joined
  <1>5. Holds(d, joined) /\ Insertable(joined) /\ joined.missed = d.missed
    BY <1>1, <1>2, <1>3 DEF Holds, Grants, Insertable
  <1>6. Complete(d) => Complete(joined)
    <2>1. d.users \subseteq Windows
      BY DEF DirRecord
    <2> QED BY <1>2, <1>3, <1>4, <2>1 DEF Complete
  <1>7. /\ asked \in DirRecord /\ Holds(d, asked) /\ Insertable(asked)
        /\ Current(d) => Current(asked)
    <2>1. CASE d.needsUpdate /\ ~d.scanning
      <3>1. asked = Rescan(joined, first)
        BY <2>1
      <3>2. /\ Holds(joined, asked) /\ Insertable(asked)
            /\ dirState = "ok" => Complete(asked)
        BY <1>3, <1>5, <3>1, RescanKeeps DEF Holds
      <3> QED BY <1>3, <1>5, <3>1, <3>2, RescanType DEF Holds, Current
    <2>2. CASE ~(d.needsUpdate /\ ~d.scanning)
      <3>1. asked = QueueInteresting(joined, {w})
        BY <2>2
      <3>2. Keeps(joined, asked) /\ Grants(joined, asked)
        BY <1>3, <3>1, QueueInterestingKeeps
      <3>3. asked \in DirRecord /\ asked.needsUpdate = joined.needsUpdate
        BY <1>3, <3>1, QueueInterestingType, QueueInterestingScan DEF Meanwhile
      <3>4. Current(d) => Current(asked)
        BY <1>4, <1>5, <1>6, <3>2, <3>3 DEF Current, Keeps
      <3> QED BY <1>5, <3>2, <3>3, <3>4 DEF Holds, Keeps, Grants, Insertable
    <2> QED BY <2>1, <2>2
  <1>8. asked.idle => asked.scanning
    <2>1. (joined.idle <=> joined.scanning) /\ (joined.scanning <=> d.scanning)
      BY <1>4 DEF Tied
    <2>2. CASE d.needsUpdate /\ ~d.scanning
      BY <1>3, <2>1, <2>2, RescanScan
    <2>3. CASE ~(d.needsUpdate /\ ~d.scanning)
      <3>1. asked = QueueInteresting(joined, {w})
        BY <2>3
      <3> QED BY <1>3, <2>1, <3>1, QueueInterestingScan
    <2> QED BY <2>2, <2>3
  <1> HIDE DEF asked
  <1>9. ready \in DirRecord /\ Keeps(asked, ready)
    BY <1>7, SetIdleCallbackType, SetIdleCallbackKeeps DEF Holds
  <1>10. ready.users = asked.users /\ ready.needsUpdate = asked.needsUpdate
    BY <1>7, <1>8, SetIdleCallbackScan DEF Meanwhile
  <1>11. w \in asked.users
    <2>1. CASE d.needsUpdate /\ ~d.scanning
      <3>1. ~joined.idle /\ ~joined.scanning
        BY <1>4, <2>1 DEF Tied
      <3> QED BY <1>3, <1>4, <2>1, <3>1, RescanScan DEF asked
    <2>2. CASE ~(d.needsUpdate /\ ~d.scanning)
      <3>1. asked = QueueInteresting(joined, {w})
        BY <2>2 DEF asked
      <3> QED BY <1>3, <1>4, <3>1, QueueInterestingScan DEF Meanwhile
    <2> QED BY <2>1, <2>2
  <1> HIDE DEF ready
  <1>12. /\ Sound(done) /\ (Safe(ready) => Safe(done)) /\ (Told(ready) => Told(done))
         /\ done.missed = ready.missed
         /\ (Listed(ready) => Listed(done))
         /\ (\A v \in Windows : v \in {w} \/ Synced(ready, v) => Synced(done, v))
         /\ Scan(done) = Scan(ready)
    <2>1. {w} \in SUBSET ready.users /\ Sound(ready)
      BY <1>9, <1>10, <1>11 DEF Keeps
    <2> QED BY <1>9, <2>1, ShowKnownKeeps, ShowKnownScan
  <1> HIDE DEF done
  <1>13. Holds(d, ready) /\ (Current(d) => Current(ready))
    BY <1>7, <1>9, <1>10 DEF Holds, Keeps, Current
  <1>14. Complete(ready) => Complete(done)
    <2>1. ready.users \subseteq Windows
      BY <1>9 DEF DirRecord
    <2>2. done.users = ready.users /\ done.scanning = ready.scanning
          /\ done.needsUpdate = ready.needsUpdate
      BY <1>12 DEF Scan
    <2> QED BY <1>12, <2>1, <2>2 DEF Complete
  <1>15. Holds(d, done) /\ (Current(d) => Current(done))
    <2>1. done.needsUpdate = ready.needsUpdate
      BY <1>12 DEF Scan
    <2> QED BY <1>12, <1>13, <1>14, <2>1 DEF Holds, Current
  <1>16. Attach(d, w, first) \in {ready, done}
    BY DEF Attach, done, ready, asked, joined, more
  <1> QED BY <1>13, <1>15, <1>16

\* dir_detach(): what the window showed is forgotten; the last one misses what
\* the monitor has not delivered.
LEMMA DetachKeeps ==
    ASSUME TypeOK, NEW d \in DirRecord, Sound(d), Tied(d),
           NEW w \in Windows, NEW first \in Names
    PROVE  LET e == Detach(d, w, first)
           IN  /\ Holds(d, e) /\ Grants(d, e)
               /\ dirState = "ok" /\ Complete(d) => Complete(e)
               /\ e.users = d.users \ {w} /\ e.needsUpdate = d.needsUpdate
               /\ e.missed = (d.missed \/ (event /\ d.users = {w}))
               /\ e.showHidden = d.showHidden
  <1> DEFINE left == [d EXCEPT !.users = @ \ {w}, !.view[w] = {}, !.stale[w] = {},
                               !.missed = @ \/ (event /\ d.users = {w})]
             tidy == Tidy(left)
             done == SetIdleCallback(tidy, first)
             lost == d.missed \/ (event /\ d.users = {w})
  <1>1. lost \in BOOLEAN
    BY SMTT(40) DEF DirRecord, TypeOK
  <1> HIDE DEF lost
  <1>2. /\ left \in DirRecord /\ Sets(left) = Sets(d) /\ Books(left) = Books(d)
        /\ left.users = d.users \ {w} /\ left.showHidden = d.showHidden
        /\ left.freed = d.freed /\ left.misused = d.misused
        /\ left.error = d.error /\ left.recheck = d.recheck
        /\ left.scanning = d.scanning /\ left.needsUpdate = d.needsUpdate
        /\ left.notify = d.notify /\ left.idle = d.idle
        /\ \A v \in Windows :
             /\ left.view[v] = IF v = w THEN {} ELSE d.view[v]
             /\ left.stale[v] = IF v = w THEN {} ELSE d.stale[v]
    BY <1>1 DEF DirRecord, Sets, Books, lost
  <1>3. left.missed = lost
    BY DEF DirRecord, lost
  <1> HIDE DEF left
  <1>4. tidy \in DirRecord /\ Freed(left, {}, tidy)
    BY <1>2, TidyType, TidyFields
  <1> HIDE DEF tidy
  <1>5. /\ tidy.known = d.known /\ tidy.new = d.new /\ tidy.up = d.up
        /\ tidy.gone = d.gone /\ tidy.users = d.users \ {w}
        /\ tidy.showHidden = d.showHidden /\ tidy.misused = d.misused
        /\ tidy.error = d.error /\ tidy.recheck = d.recheck
        /\ tidy.scanning = d.scanning /\ tidy.needsUpdate = d.needsUpdate
        /\ tidy.notify = d.notify /\ tidy.idle = d.idle /\ tidy.missed = lost
        /\ tidy.freed = d.freed \cap Referenced(tidy)
        /\ tidy.flagged = d.flagged \cap Referenced(tidy)
        /\ \A i \in Item : i \in Referenced(tidy) => tidy.details[i] = d.details[i]
    BY <1>2, <1>3, <1>4 DEF Freed, Sets, Books, Scan, Mode
  <1>6. \A v \in Windows :
          /\ tidy.view[v] = IF v = w THEN {} ELSE d.view[v]
          /\ tidy.stale[v] = IF v = w THEN {} ELSE d.stale[v]
    BY <1>2, <1>4 DEF Freed
  <1>7. Sound(tidy)
    BY <1>5, <1>6 DEF Sound, Keyed, Apart, Away, Pends
  <1>8. (Safe(d) => Safe(tidy)) /\ (Told(d) => Told(tidy))
    BY <1>5 DEF Safe, Told
  <1>9. Complete(d) => Complete(tidy)
    <2>1. d.known \subseteq Item /\ d.known \subseteq Referenced(tidy)
      BY <1>5 DEF DirRecord, Referenced
    <2>2. Checked(d) => Checked(tidy)
      BY <1>5, <2>1 DEF Checked
    <2>3. d.users \subseteq Windows
      BY DEF DirRecord
    <2>4. \A v \in tidy.users : Synced(d, v) => Synced(tidy, v)
      BY <1>5, <1>6, <2>3 DEF Synced, Shows
    <2> QED BY <1>5, <2>2, <2>4 DEF Complete, Listed
  <1>10. Grants(d, tidy)
    <2>1. Referenced(tidy) \subseteq Referenced(d)
      BY <1>5, <1>6 DEF Referenced
    <2> QED BY <1>5, <2>1 DEF Grants, CanInsert, Usable
  <1>11. /\ tidy.users # {} /\ tidy.recheck # {} => tidy.idle
         /\ tidy.idle => tidy.scanning
    BY <1>5 DEF Tied
  <1>12. Keeps(tidy, done) /\ Grants(tidy, done) /\ Meanwhile(tidy, done)
    BY <1>4, <1>7, <1>11, SetIdleCallbackKeeps, SetIdleCallbackScan
  <1>13. Detach(d, w, first) = done
    BY DEF Detach, done, tidy, left
  <1> HIDE DEF done
  <1>14. Holds(d, done) /\ Grants(d, done)
    BY <1>8, <1>10, <1>12 DEF Holds, Keeps, Grants
  <1>15. /\ dirState = "ok" /\ Complete(d) => Complete(done)
         /\ done.users = d.users \ {w} /\ done.needsUpdate = d.needsUpdate
         /\ done.missed = lost /\ done.showHidden = d.showHidden
    BY <1>5, <1>9, <1>12 DEF Keeps, Meanwhile
  <1> QED BY <1>13, <1>14, <1>15 DEF lost

-----------------------------------------------------------------------------
(* Every step keeps the invariant.                                         *)

\* The monitor has told of every change, and while nobody watches the time
\* stamp is the one of the last listing.
Watched == dirState = "ok" /\ ~event /\ (dir.users = {} => ~stampOld)

DirInv ==
    /\ TypeOK /\ Served(dir)
    /\ Sound(dir) /\ Told(dir) /\ Safe(dir)
    /\ Watched => Current(dir)

\* The steps of the program; the others are those of the file system.
Program ==
    \/ \E w \in Windows : \/ OpenWindow(w)   \/ CloseWindow(w)
                          \/ ToggleHidden(w) \/ Refresh(w) \/ PointerIn(w)
    \/ \E w \in Windows, i \in Item : UpdateItem(w, i)
    \/ \E n \in Touched : CheckThis(n) \/ ForceUpdate(n)
    \/ RefreshDirs \/ RecheckCallback \/ NotifyTimeout \/ RescanTimeout
    \/ MonitorEvent \/ CloseRecursive

\* A step of the program keeps the items sound, and the Directory current.
LEMMA ProgramKeeps ==
    ASSUME TypeOK, Served(dir), Sound(dir), Watched => Current(dir), Program,
           UNCHANGED <<disk, dirState>>
    PROVE  Holds(dir, dir') /\ (Watched' => Current(dir'))
  <1> DEFINE Good == Holds(dir, dir') /\ (Watched' => Current(dir'))
  <1> SUFFICES Good
    OBVIOUS
  <1> dir \in DirRecord /\ Tied(dir)
    BY DEF TypeOK, Served
  <1> USE DEF Good
  <1>0. \A s \in {2, 3} : Room(dir, s) => Insertable(dir)
    BY RoomIsUsable DEF Insertable, CanInsert
  <1>1. ASSUME NEW w \in Windows, OpenWindow(w)
        PROVE  Good
    <2>1. PICK first \in Names : dir' = Attach(Lookup(dir, first), w, first)
      BY <1>1 DEF OpenWindow
    <2> DEFINE l == Lookup(dir, first)
    <2>2. Insertable(dir) /\ event' = event /\ dirState' = dirState
      BY <1>0, <1>1 DEF OpenWindow
    <2>3. l \in DirRecord /\ Tied(l)
      BY LookupType, LookupScan DEF Served
    <2>4. Holds(dir, l) /\ Insertable(l)
      <3>1. CASE stampOld
        BY <2>2, <3>1, UpdateKeeps DEF Lookup
      <3>2. CASE ~stampOld
        BY <2>2, <3>2 DEF Lookup, Holds
      <3> QED BY <3>1, <3>2
    <2>5. dirState = "ok" /\ ~event => Current(l)
      <3>1. dirState = "ok" /\ ~event => stampOld \/ Current(dir)
        BY DEF Watched
      <3> QED BY <2>2, <3>1, LookupKeeps
    <2> HIDE DEF l
    <2>6. dir' = Attach(l, w, first)
      BY <2>1 DEF l
    <2>7. Holds(l, dir') /\ (Current(l) => Current(dir'))
      BY <2>3, <2>4, <2>6, AttachKeeps DEF Holds
    <2> QED BY <2>2, <2>4, <2>5, <2>7 DEF Holds, Watched
  <1>2. ASSUME NEW w \in Windows, w \in dir.users, NEW first \in Names,
               MonitorKeeps(dir.users \ {w}), stampOld' = stampOld
        PROVE  LET e == Detach(dir, w, first)
               IN  /\ e \in DirRecord /\ Tied(e)
                   /\ Holds(dir, e) /\ Grants(dir, e)
                   /\ e.users = dir.users \ {w}
                   /\ dirState = "ok" /\ ~event' => Current(e)
    <2> DEFINE e == Detach(dir, w, first)
    <2>1. e \in DirRecord /\ Tied(e)
      BY DetachType, DetachScan DEF Served
    <2>2. /\ Holds(dir, e) /\ Grants(dir, e)
          /\ dirState = "ok" /\ Complete(dir) => Complete(e)
          /\ e.users = dir.users \ {w} /\ e.needsUpdate = dir.needsUpdate
          /\ e.missed = (dir.missed \/ (event /\ dir.users = {w}))
      BY DetachKeeps
    <2> HIDE DEF e
    <2>3. dirState = "ok" /\ ~event' => Current(e)
      <3> SUFFICES ASSUME dirState = "ok", ~event', ~e.needsUpdate, ~e.missed
                   PROVE  Complete(e)
        BY DEF Current
      <3>1. ~event
        <4>1. dir.users \ {w} = {} => dir.users = {w}
          BY <1>2
        <4> QED BY <1>2, <2>2, <4>1 DEF MonitorKeeps
      <3>2. Watched
        BY <1>2, <3>1 DEF Watched
      <3> QED BY <2>2, <3>2 DEF Current
    <2> QED BY <2>1, <2>2, <2>3 DEF e
  <1>3. ASSUME NEW w \in Windows, CloseWindow(w)
        PROVE  Good
    <2>1. PICK first \in Names : dir' = Detach(dir, w, first)
      BY <1>3 DEF CloseWindow
    <2>2. Holds(dir, dir') /\ (dirState = "ok" /\ ~event' => Current(dir'))
      BY <1>2, <1>3, <2>1 DEF CloseWindow
    <2> QED BY <2>2 DEF Watched
  <1>4. ASSUME NEW w \in Windows, ToggleHidden(w)
        PROVE  Good
    <2> DEFINE S == IF w \in dir.showHidden THEN dir.showHidden \ {w}
                                            ELSE dir.showHidden \cup {w}
    <2>1. PICK first \in Names :
            dir' = Attach([Detach(dir, w, first) EXCEPT !.showHidden = S], w, first)
      BY <1>4 DEF ToggleHidden
    <2> DEFINE left == Detach(dir, w, first)
               turned == [left EXCEPT !.showHidden = S]
    <2>2. S \in SUBSET Windows /\ S \ {w} = dir.showHidden \ {w}
      BY DEF DirRecord
    <2>3. /\ left \in DirRecord /\ Tied(left)
          /\ Holds(dir, left) /\ Grants(dir, left)
          /\ left.users = dir.users \ {w}
          /\ dirState = "ok" /\ ~event' => Current(left)
      BY <1>2, <1>4 DEF ToggleHidden
    <2>4. left.showHidden = dir.showHidden
      BY DetachKeeps
    <2> HIDE DEF S, left
    <2>5. /\ turned \in DirRecord /\ Sets(turned) = Sets(left)
          /\ Books(turned) = Books(left) /\ Scan(turned) = Scan(left)
          /\ turned.view = left.view /\ turned.stale = left.stale
          /\ turned.freed = left.freed /\ turned.misused = left.misused
          /\ turned.error = left.error /\ turned.missed = left.missed
          /\ turned.notify = left.notify /\ turned.showHidden = S
      BY <2>2, <2>3 DEF DirRecord, Sets, Books, Scan
    <2> HIDE DEF turned
    <2>6. /\ turned.known = left.known /\ turned.new = left.new
          /\ turned.up = left.up /\ turned.gone = left.gone
          /\ turned.flagged = left.flagged /\ turned.details = left.details
          /\ turned.users = left.users /\ turned.recheck = left.recheck
          /\ turned.needsUpdate = left.needsUpdate
          /\ turned.scanning = left.scanning
      BY <2>5 DEF Sets, Books, Scan
    <2>7. Holds(left, turned) /\ Tied(turned)
      <3>1. Sound(turned)
        BY <2>3, <2>5, <2>6 DEF Holds, Sound, Keyed, Apart, Away, Pends
      <3>2. (Safe(left) => Safe(turned)) /\ (Told(left) => Told(turned))
        BY <2>5, <2>6 DEF Safe, Told
      <3>3. Tied(turned)
        BY <2>3, <2>5 DEF Scan, Tied
      <3> QED BY <3>1, <3>2, <3>3 DEF Holds
    <2>8. Insertable(turned)
      <3>1. Insertable(left)
        BY <1>0, <1>4, <2>3 DEF ToggleHidden, Grants, Insertable
      <3>2. Referenced(turned) = Referenced(left)
        BY <2>5, <2>6 DEF Referenced
      <3> QED BY <2>6, <3>1, <3>2 DEF Insertable, CanInsert, Usable
    <2>9. Current(left) => Current(turned)
      <3>1. Listed(left) => Listed(turned)
        BY <2>5, <2>6 DEF Listed, Checked
      <3>2. \A v \in left.users : Synced(left, v) => Synced(turned, v)
        <4>1. \A v \in left.users : v \in turned.showHidden <=> v \in left.showHidden
          BY <2>2, <2>3, <2>4, <2>5
        <4> QED BY <2>5, <2>6, <4>1 DEF Synced, Shows
      <3> QED BY <2>5, <2>6, <3>1, <3>2 DEF Current, Complete
    <2>10. dir' = Attach(turned, w, first)
      BY <2>1 DEF turned, left
    <2>11. Holds(turned, dir') /\ (Current(turned) => Current(dir'))
      BY <2>5, <2>7, <2>8, <2>10, AttachKeeps DEF Holds
    <2> QED BY <2>3, <2>7, <2>9, <2>11 DEF Holds, Watched
  <1>5. ASSUME NEW w \in Windows, Refresh(w)
        PROVE  Good
    <2>1. PICK first \in Names : dir' = Update(Lookup(dir, first), first)
      BY <1>5 DEF Refresh
    <2> DEFINE l == Lookup(dir, first)
    <2>2. Insertable(dir)
      BY <1>0, <1>5 DEF Refresh
    <2>3. l \in DirRecord
      BY LookupType
    <2>4. Holds(dir, l) /\ Insertable(l)
      <3>1. CASE stampOld
        BY <2>2, <3>1, UpdateKeeps DEF Lookup
      <3>2. CASE ~stampOld
        BY <2>2, <3>2 DEF Lookup, Holds
      <3> QED BY <3>1, <3>2
    <2> HIDE DEF l
    <2>5. dir' = Update(l, first)
      BY <2>1 DEF l
    <2> QED BY <2>3, <2>4, <2>5, UpdateKeeps DEF Holds
  <1>6. ASSUME NEW w \in Windows, PointerIn(w)
        PROVE  Good
    <2>1. PICK first \in Names : dir' = Update(dir, first)
      BY <1>6 DEF PointerIn, Lookup
    <2> QED BY <1>0, <1>6, <2>1, UpdateKeeps DEF PointerIn
  <1>7. ASSUME NEW w \in Windows, NEW i \in Item, UpdateItem(w, i)
        PROVE  Good
    <2> DEFINE n == i.leaf
               c == InsertItem(dir, n)
    <2>1. n \in Names /\ Insertable(dir) /\ dir' = MergeNew(c)
          /\ event' = event /\ stampOld' = stampOld
      BY <1>0, <1>7 DEF UpdateItem, Item
    <2>2. Inserts(dir, n, c) /\ c \in DirRecord /\ Scan(c) = Scan(dir)
      BY <2>1, InsertItemKeeps, InsertItemType, InsertItemScan DEF Insertable
    <2> HIDE DEF c, n
    <2>3. Keeps(c, dir') /\ Scan(dir') = Scan(c)
      BY <2>1, <2>2, MergeNewKeeps, MergeNewScan DEF Inserts
    <2>4. Current(dir) => Current(dir')
      <3>1. dirState = "ok" /\ Complete(dir) => Complete(c)
        <4>1. Listed(dir) => ListedBut(dir, n)
          BY DEF Listed, ListedBut, Checked
        <4>2. dir.users \subseteq Windows
          BY DEF DirRecord
        <4> QED BY <2>2, <4>1, <4>2 DEF Complete, Inserts, Scan
      <3>2. dirState = "ok" /\ Complete(c) => Complete(dir')
        BY <2>3 DEF Keeps
      <3>3. dir'.needsUpdate = dir.needsUpdate /\ dir'.missed = dir.missed
        BY <2>2, <2>3 DEF Scan, Keeps, Inserts
      <3> QED BY <3>1, <3>2, <3>3 DEF Current
    <2>5. dir'.users = dir.users
      BY <2>2, <2>3 DEF Scan
    <2> QED BY <2>1, <2>2, <2>3, <2>4, <2>5 DEF Holds, Inserts, Keeps, Watched
  <1>8. ASSUME NEW n \in Names, CheckThis(n)
        PROVE  Good
    <2>1. Insertable(dir) /\ dir' = InsertItem(dir, n)
          /\ event' = event /\ stampOld' = stampOld
      BY <1>0, <1>8 DEF CheckThis
    <2>2. Inserts(dir, n, dir') /\ Scan(dir') = Scan(dir)
      BY <2>1, InsertItemKeeps, InsertItemScan DEF Insertable
    <2>3. Listed(dir) => ListedBut(dir, n)
      BY DEF Listed, ListedBut, Checked
    <2>4. Current(dir) => Current(dir')
      <3>1. dir.users \subseteq Windows
        BY DEF DirRecord
      <3> QED BY <2>2, <2>3, <3>1 DEF Current, Complete, Inserts, Scan
    <2>5. dir'.users = dir.users
      BY <2>2 DEF Scan
    <2> QED BY <2>1, <2>2, <2>4, <2>5 DEF Holds, Inserts, Watched
  <1>9. ASSUME NEW n \in Names, ForceUpdate(n)
        PROVE  Good
    <2>1. /\ Sets(dir') = Sets(dir) /\ Books(dir') = Books(dir)
          /\ Scan(dir') = Scan(dir) /\ Mode(dir') = Mode(dir)
          /\ dir'.view = dir.view
          /\ dir'.freed = dir.freed /\ dir'.misused = dir.misused
          /\ event' = event /\ stampOld' = stampOld
          /\ \A w \in Windows : dir'.stale[w] \subseteq dir.stale[w]
      BY <1>9 DEF ForceUpdate, DirRecord, Sets, Books, Scan, Mode
    <2>2. /\ dir'.known = dir.known /\ dir'.new = dir.new /\ dir'.up = dir.up
          /\ dir'.gone = dir.gone /\ dir'.flagged = dir.flagged
          /\ dir'.details = dir.details /\ dir'.users = dir.users
          /\ dir'.recheck = dir.recheck /\ dir'.needsUpdate = dir.needsUpdate
          /\ dir'.scanning = dir.scanning /\ dir'.showHidden = dir.showHidden
          /\ dir'.notify = dir.notify /\ dir'.error = dir.error
          /\ dir'.missed = dir.missed
      BY <2>1 DEF Sets, Books, Scan, Mode
    <2>3. Sound(dir')
      BY <2>1, <2>2 DEF Sound, Keyed, Apart, Away, Pends
    <2>4. (Safe(dir) => Safe(dir')) /\ (Told(dir) => Told(dir'))
      BY <2>1, <2>2 DEF Safe, Told
    <2>5. Current(dir) => Current(dir')
      BY <2>1, <2>2 DEF Current, Complete, Listed, Checked, Synced, Shows
    <2> QED BY <2>1, <2>2, <2>3, <2>4, <2>5 DEF Holds, Watched
  <1>10. ASSUME RefreshDirs
         PROVE  Good
    <2>1. PICK first \in Names : dir' = Update(dir, first)
      BY <1>10 DEF RefreshDirs
    <2> QED BY <1>0, <1>10, <2>1, UpdateKeeps DEF RefreshDirs
  <1>11. ASSUME RecheckCallback
         PROVE  Good
    <2>1. PICK n \in Names, first \in Names :
            dir' = IF ~RecheckOne(dir, n).idle /\ RecheckOne(dir, n).needsUpdate
                   THEN Rescan(RecheckOne(dir, n), first) ELSE RecheckOne(dir, n)
      <3>1. dir.recheck \in SUBSET Names
        BY DEF DirRecord
      <3> QED BY <1>11, <3>1 DEF RecheckCallback
    <2> DEFINE c == RecheckOne(dir, n)
    <2>2. Insertable(dir) /\ dir.idle /\ event' = event /\ stampOld' = stampOld
      BY <1>0, <1>11 DEF RecheckCallback
    <2>3. Keeps(dir, c) /\ (Insertable(c) \/ c.idle = dir.idle)
      BY <2>2, RecheckOneKeeps DEF Insertable
    <2>4. c \in DirRecord /\ Meanwhile(dir, c)
      BY <2>2, RecheckOneType, RecheckOneScan DEF Tied
    <2> HIDE DEF c
    <2>5. Holds(dir, c) /\ (Current(dir) => Current(c)) /\ c.users = dir.users
      BY <2>3, <2>4 DEF Keeps, Holds, Current, Meanwhile
    <2>6. CASE ~c.idle /\ c.needsUpdate
      <3>1. dir' = Rescan(c, first)
        BY <2>1, <2>6 DEF c
      <3>2. Insertable(c)
        BY <2>2, <2>3, <2>6
      <3>3. Holds(c, dir') /\ (dirState = "ok" => Complete(dir'))
        BY <2>4, <2>5, <3>1, <3>2, RescanKeeps DEF Holds
      <3> QED BY <2>5, <3>3 DEF Holds, Current
    <2>7. CASE ~(~c.idle /\ c.needsUpdate)
      <3>1. dir' = c
        BY <2>1, <2>7 DEF c
      <3> QED BY <2>2, <2>5, <3>1 DEF Watched
    <2> QED BY <2>6, <2>7
  <1>12. ASSUME NotifyTimeout
         PROVE  Good
    <2> DEFINE c == MergeNew(dir)
    <2>1. /\ dir' = [c EXCEPT !.notify = FALSE]
          /\ event' = event /\ stampOld' = stampOld
      BY <1>12 DEF NotifyTimeout
    <2>2. /\ c \in DirRecord /\ Keeps(dir, c) /\ Scan(c) = Scan(dir)
          /\ c.new = {} /\ c.up = {} /\ c.gone = {}
      BY MergeNewKeeps, MergeNewType, MergeNewScan
    <2> HIDE DEF c
    <2>3. /\ dir' \in DirRecord /\ Sets(dir') = Sets(c) /\ Books(dir') = Books(c)
          /\ Scan(dir') = Scan(c) /\ dir'.view = c.view /\ dir'.stale = c.stale
          /\ dir'.freed = c.freed /\ dir'.misused = c.misused
          /\ dir'.showHidden = c.showHidden /\ dir'.error = c.error
          /\ dir'.missed = c.missed
      BY <2>1, <2>2 DEF DirRecord, Sets, Books, Scan
    <2>4. /\ dir'.users = c.users /\ dir'.recheck = c.recheck
          /\ dir'.scanning = c.scanning /\ dir'.needsUpdate = c.needsUpdate
      BY <2>3 DEF Scan
    <2>5. /\ Sound(dir') /\ (Safe(c) => Safe(dir'))
          /\ (Listed(c) => Listed(dir'))
          /\ \A w \in Windows : Synced(c, w) => Synced(dir', w)
      BY <2>2, <2>3, <2>4, FlagsKeep DEF Keeps
    <2>6. Told(dir')
      BY <2>2, <2>3 DEF Told, Sets
    <2>7. Current(dir) => Current(dir')
      <3>1. c.users \subseteq Windows
        BY <2>2 DEF DirRecord
      <3>2. Complete(c) => Complete(dir')
        BY <2>4, <2>5, <3>1 DEF Complete
      <3>3. dir'.needsUpdate = dir.needsUpdate /\ dir'.missed = dir.missed
        BY <2>2, <2>3, <2>4 DEF Scan, Keeps
      <3> QED BY <2>2, <3>2, <3>3 DEF Current, Keeps
    <2>8. dir'.users = dir.users
      BY <2>2, <2>4 DEF Scan
    <2> QED BY <2>1, <2>2, <2>5, <2>6, <2>7, <2>8 DEF Holds, Keeps, Watched
  <1>13. ASSUME RescanTimeout
         PROVE  Good
    <2>1. PICK first \in Names :
            LET done == IF ~dir.scanning /\ dir.needsUpdate
                        THEN Rescan(dir, first) ELSE dir
            IN  dir' = [done EXCEPT !.timer = done.scanning]
      BY <1>13 DEF RescanTimeout
    <2> DEFINE done == IF ~dir.scanning /\ dir.needsUpdate
                       THEN Rescan(dir, first) ELSE dir
    <2>2. /\ done \in DirRecord /\ Holds(dir, done)
          /\ (Watched => Current(done)) /\ done.users = dir.users
          /\ (~dir.scanning /\ dir.needsUpdate => Current(done))
      <3>1. CASE ~dir.scanning /\ dir.needsUpdate
        <4>1. done = Rescan(dir, first)
          BY <3>1
        <4>2. Insertable(dir) /\ ~dir.idle
          BY <1>0, <1>13, <3>1 DEF RescanTimeout, Tied
        <4>3. Holds(dir, done) /\ (dirState = "ok" => Complete(done))
          BY <4>1, <4>2, RescanKeeps DEF Holds
        <4>4. done \in DirRecord /\ done.users = dir.users
          BY <3>1, <4>1, <4>2, RescanType, RescanScan
        <4> QED BY <4>3, <4>4 DEF Current
      <3>2. CASE ~(~dir.scanning /\ dir.needsUpdate)
        BY <3>2 DEF Holds
      <3> QED BY <3>1, <3>2
    <2>3. event' = event /\ stampOld' = stampOld
      BY <1>13 DEF RescanTimeout
    <2>4. dir' = [done EXCEPT !.timer = done.scanning]
      BY <2>1
    <2> HIDE DEF done
    <2>5. /\ dir' \in DirRecord /\ Sets(dir') = Sets(done)
          /\ dir'.view = done.view /\ dir'.stale = done.stale
          /\ dir'.users = done.users /\ dir'.showHidden = done.showHidden
          /\ dir'.freed = done.freed /\ dir'.misused = done.misused
          /\ Books(dir') = Books(done) /\ dir'.error = done.error
          /\ dir'.recheck = done.recheck /\ dir'.scanning = done.scanning
          /\ dir'.missed = done.missed /\ dir'.notify = done.notify
          /\ dir'.needsUpdate = done.needsUpdate
      BY <2>2, <2>4 DEF DirRecord, Sets, Books
    <2>6. Keeps(done, dir')
      BY <2>2, <2>5, TimersKeep DEF Holds
    <2> QED BY <2>2, <2>3, <2>5, <2>6 DEF Holds, Keeps, Current, Watched
  <1>14. ASSUME MonitorEvent
         PROVE  Good
    <2>1. /\ dir' \in DirRecord /\ Sets(dir') = Sets(dir)
          /\ dir'.view = dir.view /\ dir'.stale = dir.stale
          /\ dir'.users = dir.users /\ dir'.showHidden = dir.showHidden
          /\ dir'.freed = dir.freed /\ dir'.misused = dir.misused
          /\ Books(dir') = Books(dir) /\ dir'.error = dir.error
          /\ dir'.recheck = dir.recheck /\ dir'.scanning = dir.scanning
          /\ dir'.missed = dir.missed /\ dir'.notify = dir.notify
          /\ dir'.needsUpdate = TRUE
      BY <1>14 DEF MonitorEvent, DirRecord, Sets, Books
    <2>2. Keeps(dir, dir')
      BY <2>1, TimersKeep
    <2> QED BY <2>1, <2>2 DEF Holds, Keeps, Current
  <1>15. ASSUME CloseRecursive
         PROVE  Good
    <2> DEFINE left == [dir EXCEPT !.closing  = FALSE,
                                   !.users    = {},
                                   !.view     = [w \in Windows |-> {}],
                                   !.stale    = [w \in Windows |-> {}],
                                   !.scanning = FALSE,
                                   !.idle     = FALSE,
                                   !.missed   = @ \/ event]
               lost == dir.missed \/ event
    <2>1. lost \in BOOLEAN
      BY DEF DirRecord, TypeOK
    <2> HIDE DEF lost
    <2>2. /\ left \in DirRecord /\ Sets(left) = Sets(dir) /\ Books(left) = Books(dir)
          /\ left.users = {} /\ left.showHidden = dir.showHidden
          /\ left.freed = dir.freed /\ left.misused = dir.misused
          /\ left.error = dir.error /\ left.recheck = dir.recheck
          /\ left.needsUpdate = dir.needsUpdate /\ left.notify = dir.notify
          /\ left.view = [w \in Windows |-> {}] /\ left.stale = [w \in Windows |-> {}]
      BY <2>1, ZenonT(40) DEF DirRecord, Sets, Books, lost
    <2>3. left.missed = lost
      BY DEF DirRecord, lost
    <2>4. dir' = Tidy(left)
      BY <1>15 DEF CloseRecursive
    <2> HIDE DEF left
    <2>5. Freed(left, {}, dir')
      BY <2>2, <2>4, TidyFields
    <2>6. /\ dir'.known = dir.known /\ dir'.new = dir.new /\ dir'.up = dir.up
          /\ dir'.gone = dir.gone /\ dir'.users = {}
          /\ dir'.misused = dir.misused /\ dir'.error = dir.error
          /\ dir'.recheck = dir.recheck /\ dir'.needsUpdate = dir.needsUpdate
          /\ dir'.notify = dir.notify /\ dir'.missed = lost
          /\ dir'.freed = dir.freed \cap Referenced(dir')
          /\ dir'.flagged = dir.flagged \cap Referenced(dir')
          /\ \A i \in Item : i \in Referenced(dir') => dir'.details[i] = dir.details[i]
          /\ \A w \in Windows : dir'.view[w] = {} /\ dir'.stale[w] = {}
      BY <2>2, <2>3, <2>5 DEF Freed, Sets, Books, Scan, Mode
    <2>7. Sound(dir')
      BY <2>6 DEF Sound, Keyed, Apart, Away, Pends
    <2>8. (Safe(dir) => Safe(dir')) /\ (Told(dir) => Told(dir'))
      BY <2>6 DEF Safe, Told
    <2>9. Complete(dir) => Complete(dir')
      <3>1. dir.known \subseteq Item /\ dir.known \subseteq Referenced(dir')
        BY <2>6 DEF DirRecord, Referenced
      <3>2. Checked(dir) => Checked(dir')
        BY <2>6, <3>1 DEF Checked
      <3> QED BY <2>6, <3>2 DEF Complete, Listed
    <2>10. Watched' => Current(dir')
      <3> SUFFICES ASSUME Watched', ~dir'.needsUpdate, ~dir'.missed
                   PROVE  Complete(dir')
        BY DEF Current
      <3>1. ~dir.missed /\ ~event /\ ~dir.needsUpdate
        BY <2>6 DEF lost
      <3>2. stampOld' = stampOld /\ dirState' = dirState
        BY <1>15 DEF CloseRecursive
      <3>3. Watched
        BY <2>6, <3>1, <3>2 DEF Watched
      <3> QED BY <2>9, <3>1, <3>3 DEF Current, Watched
    <2> QED BY <2>7, <2>8, <2>10 DEF Holds
  <1> QED
    BY <1>1, <1>3, <1>4, <1>5, <1>6, <1>7, <1>8, <1>9, <1>10, <1>11, <1>12,
       <1>13, <1>14, <1>15, NamesAssumption DEF Program

\* Every step.  A change of the disk is announced, or it is missed, or the
\* time stamp of the directory tells of it.
LEMMA NextKeeps ==
    ASSUME TypeOK, Served(dir), Sound(dir), Watched => Current(dir), [Next]_vars
    PROVE  Holds(dir, dir') /\ (Watched => Current(dir))'
  <1> dir \in DirRecord
    BY DEF TypeOK
  <1>1. CASE Program
    <2>1. UNCHANGED <<disk, dirState>>
      BY <1>1 DEF Program, OpenWindow, CloseWindow, ToggleHidden, Refresh, PointerIn,
           UpdateItem, CheckThis, ForceUpdate, RefreshDirs, RecheckCallback,
           NotifyTimeout, RescanTimeout, MonitorEvent, CloseRecursive
    <2>2. Holds(dir, dir') /\ (Watched' => Current(dir'))
      BY <1>1, <2>1, ProgramKeeps
    <2>3. Current(dir') => Current(dir)'
      BY <2>1 DEF Current, Complete, Listed, Checked, Listing, Synced, Shows
    <2> QED BY <2>2, <2>3
  <1>2. ASSUME NEW n \in Names, NEW v \in Details \cup {NoDetails},
               ChangeName(n, v) \/ ChangeDetails(n, v)
        PROVE  Holds(dir, dir') /\ (Watched => Current(dir))'
    <2>1. PICK stamped \in BOOLEAN :
            /\ dir' = [dir EXCEPT !.missed = @ \/ (dir.users = {} /\ ~stamped)]
            /\ stamped => stampOld'
      BY <1>2 DEF ChangeName, ChangeDetails, Unannounced
    <2>2. event' = (event \/ dir.users # {})
      BY <1>2 DEF ChangeName, ChangeDetails, Announced
    <2>3. /\ dir'.known = dir.known /\ dir'.new = dir.new /\ dir'.up = dir.up
          /\ dir'.gone = dir.gone /\ dir'.view = dir.view /\ dir'.stale = dir.stale
          /\ dir'.users = dir.users /\ dir'.notify = dir.notify
          /\ dir'.freed = dir.freed /\ dir'.misused = dir.misused
          /\ dir'.missed = (dir.missed \/ (dir.users = {} /\ ~stamped))
      BY <2>1 DEF DirRecord
    <2>4. Holds(dir, dir')
      BY <2>3 DEF Holds, Sound, Keyed, Apart, Away, Pends, Safe, Told
    <2>5. Watched' => dir'.missed
      BY <2>1, <2>2, <2>3 DEF Watched
    <2> QED BY <2>4, <2>5 DEF Current
  <1>3. ASSUME NEW s \in DirStates, ChangeDirectory(s)
        PROVE  Holds(dir, dir') /\ (Watched => Current(dir))'
    <2>1. ~Watched'
      BY <1>3 DEF ChangeDirectory, Announced, Watched
    <2> QED BY <1>3, <2>1 DEF ChangeDirectory, Holds
  <1>4. CASE UNCHANGED vars
    BY <1>4 DEF vars, Holds, Watched, Current, Complete, Listed, Checked, Listing,
                Synced, Shows
  <1>5. Next => \/ Program
                \/ \E n \in Names, v \in Details \cup {NoDetails} :
                     ChangeName(n, v) \/ ChangeDetails(n, v)
                \/ \E s \in DirStates : ChangeDirectory(s)
    BY DEF Next, Program
  <1> QED BY <1>1, <1>2, <1>3, <1>4, <1>5

\* DirInv is an invariant.
LEMMA DirInvInvariant == Spec => []DirInv
  <1>1. Init => DirInv
    <2> SUFFICES ASSUME Init
                 PROVE  DirInv
      OBVIOUS
    <2>1. TypeOK
      BY InitType
    <2>2. Served(dir)
      BY DEF Init, NewDirectory, Served, Tied
    <2>3. Sound(dir) /\ Told(dir) /\ Safe(dir) /\ dir.needsUpdate
      BY DEF Init, NewDirectory, Sound, Keyed, Apart, Away, Pends, Told, Safe
    <2> QED BY <2>1, <2>2, <2>3 DEF DirInv, Current
  <1>2. DirInv /\ [Next]_vars => DirInv'
    <2> SUFFICES ASSUME DirInv, [Next]_vars
                 PROVE  DirInv'
      OBVIOUS
    <2>1. TypeOK'
      BY NextType DEF DirInv
    <2>2. Served(dir)'
      <3>1. Served(dir')
        BY NextServed DEF DirInv
      <3> QED BY <3>1 DEF Served, Tied
    <2>3. Holds(dir, dir') /\ (Watched => Current(dir))'
      BY NextKeeps DEF DirInv
    <2>4. (Sound(dir) /\ Told(dir) /\ Safe(dir))'
      <3>1. Sound(dir') /\ Told(dir') /\ Safe(dir')
        BY <2>3 DEF DirInv, Holds
      <3> QED BY <3>1 DEF Sound, Keyed, Apart, Away, Pends, Told, Safe
    <2> QED BY <2>1, <2>2, <2>3, <2>4 DEF DirInv
  <1> QED BY <1>1, <1>2, PTL DEF Spec

\* A change that was found has the notify timer running, and a window draws
\* outdated details only of items whose update or removal is pending, in every
\* run, for any number of files and windows: insert_item(), dir_merge_new(),
\* remove_missing() and the scans lose no update between them.
THEOREM UpdatesAreTold == Spec => []NoLostUpdate
  <1>1. DirInv => NoLostUpdate
    BY DEF DirInv, Sound, Pends, Told, NoLostUpdate, Pending
  <1> QED BY <1>1, DirInvInvariant, PTL

\* known_items holds one item for a name, apart from the pending ones, however
\* scans, single checks and merges follow each other: dir_merge_new() replaces
\* the item of a name with the newest pending one.
THEOREM ItemsAreKeyed == Spec => []KnownIsKeyed
  <1>1. DirInv => KnownIsKeyed
    BY DEF DirInv, Sound, Keyed, Apart, KnownIsKeyed
  <1> QED BY <1>1, DirInvInvariant, PTL

\* With the option close_dir_when_missing set, no pointer to a freed DirItem is
\* left in a view, in known_items or in a pending array.  Without it
\* remove_missing() frees items that up_items still has: the run of
\* MCDirectoryMissing shows how.
THEOREM NothingDangles ==
    ASSUME CloseWhenMissing
    PROVE  Spec => []NoDangling
  <1>1. DirInv => NoDangling
    BY DEF DirInv, Safe, NoDangling
  <1> QED BY <1>1, DirInvInvariant, PTL

\* When nothing is under way, each window shows every visible file of the
\* directory once, with its present details unless the item is marked for a
\* check: the listing of dir_rescan() makes the Directory complete, and nothing
\* else unmakes it before a change that the monitor, the time stamp or the
\* rescan timer tells of.
THEOREM QuietViewsAreComplete == Spec => []QuietIsComplete
  <1>1. DirInv => QuietIsComplete
    <2> SUFFICES ASSUME DirInv, Quiet, dirState = "ok", dir.users # {}
                 PROVE  /\ ~dir.error
                        /\ \A w \in dir.users :
                             /\ \A i, j \in dir.view[w] : i.leaf = j.leaf => i = j
                             /\ Leaves(dir.view[w]) =
                                  {n \in Listing : w \in dir.showHidden \/ n \notin Hidden}
                             /\ \A i \in dir.view[w] :
                                  dir.details[i] = disk[i.leaf] \/ i \in dir.flagged
      BY DEF QuietIsComplete
    <2>1. Complete(dir)
      BY DEF DirInv, Watched, Current, Quiet
    <2>2. dir.recheck = {}
      BY DEF DirInv, Served, Tied, Quiet
    <2>3. ASSUME NEW w \in dir.users
          PROVE  /\ \A i, j \in dir.view[w] : i.leaf = j.leaf => i = j
                 /\ Leaves(dir.view[w]) =
                      {n \in Listing : w \in dir.showHidden \/ n \notin Hidden}
                 /\ \A i \in dir.view[w] :
                      dir.details[i] = disk[i.leaf] \/ i \in dir.flagged
      <3>1. dir.view[w] = {i \in dir.known : Shows(dir, w, i)}
        BY <2>1 DEF Complete, Synced, Quiet
      <3>2. \A i, j \in dir.view[w] : i.leaf = j.leaf => i = j
        BY <3>1 DEF DirInv, Sound, Keyed
      <3>3. Leaves(dir.known) = Listing
        BY <2>1 DEF Complete, Listed
      <3>4. Leaves(dir.view[w]) =
              {n \in Listing : w \in dir.showHidden \/ n \notin Hidden}
        BY <3>1, <3>3 DEF Leaves, Shows
      <3>5. \A i \in dir.view[w] : dir.details[i] = disk[i.leaf] \/ i \in dir.flagged
        BY <2>1, <2>2, <3>1 DEF Complete, Listed, Checked
      <3> QED BY <3>2, <3>4, <3>5
    <2>4. ~dir.error
      BY <2>1 DEF Complete, Listed
    <2> QED BY <2>3, <2>4
  <1> QED BY <1>1, DirInvInvariant, PTL

=============================================================================
