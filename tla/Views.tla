-------------------------------- MODULE Views --------------------------------
(***************************************************************************)
(* The views of filer windows and the primary selection: what the          *)
(* directory and the user do to a view through view_iface.c, in its two    *)
(* implementations (Collection.tla, DetailsView.tla), and what filer.c     *)
(* does when a view says that its selection has changed.                   *)
(*                                                                         *)
(* Data: a file is a number, its name's place in the alphabet; isDir is    *)
(* what its DirItem says of it so far.  The order is that of sort_by_name, *)
(* the only one display_set_sort_type() leaves.                            *)
(***************************************************************************)
EXTENDS SequencesExt, Collection, DetailsView, ViewIter

CONSTANTS
  Windows,
  Files,            \* numbers, in the order of their names
  Restated,         \* bound: the files whose kind a later stat may change
  Nobody,           \* no window has the primary selection
  Elsewhere,        \* a window beside these, whose view is left out
  Layouts,          \* bound: numbers of columns, and whether items go down them
  Areas,            \* bound: lasso boxes, rectangles of rows and columns
  Steps             \* bound: moves of the cursor, in rows and columns

ASSUME ViewsAssumption ==
  /\ Files \subseteq Nat /\ IsFiniteSet(Files)
  /\ {Nobody, Elsewhere} \cap Windows = {}
  /\ Restated \subseteq Files
  /\ Layouts \subseteq [columns : Nat \ {0}, vertical : BOOLEAN]
  /\ Steps \subseteq [row : Int, column : Int]

VARIABLES
  isDir,            \* DirItem.base_type, as far as it matters for the order
  kind,             \* per window: view_type, "icons" or "list"
  view,             \* per window: its view
  temp,             \* per window: temp_item_selected
  primary           \* window_with_primary

vars == <<isDir, kind, view, temp, primary>>

Now(w) == Quiet(view[w])
Icons(w) == kind[w] = "icons"

(* sort_by_name()                                                          *)
Before(f, g) == \/ isDir[f] /\ ~isDir[g]
                \/ isDir[f] = isDir[g] /\ f < g

Orders(items) ==
  {p \in Bijection(DOMAIN items, DOMAIN items) :
     \A k \in 1..(Len(items) - 1) : Before(items[p[k]].data, items[p[k + 1]].data)}

(* The items that are left, in their order                                 *)
Rest(c, gone) ==
  LET stay == {k \in 1..Size(c) : c.items[k].data \notin gone}
  IN  {p \in [1..Cardinality(stay) -> stay] : \A j, k \in DOMAIN p : j < k => p[j] < p[k]}
-----------------------------------------------------------------------------
(* filer_lost_selection() and filer_selection_changed(), for what the view *)
(* has told; granted: gtk_selection_owner_set() succeeds.                  *)
Told(w, owner, out, isTemp, granted) ==
  LET now[k \in 0..Len(out)] ==
        IF k = 0 THEN owner
        ELSE LET o == now[k - 1]
             IN  IF out[k] = "lose" THEN (IF o = w THEN Nobody ELSE o)
                 ELSE IF o = w \/ isTemp \/ ~granted THEN o ELSE w
  IN  now[Len(out)]

(* An operation on w's view has come to r.                                 *)
Did(w, r, isTemp) ==
  /\ view' = [view EXCEPT ![w] = r.c]
  /\ primary' \in {Told(w, primary, r.out, isTemp, granted) : granted \in BOOLEAN}

DidOnly(w, r) == Did(w, r, temp[w]) /\ UNCHANGED <<isDir, kind, temp>>
-----------------------------------------------------------------------------
(* The directory: view_add_items(), view_update_items(), view_delete_if()  *)
(* and sync_complete_directory_view().                                     *)

SortedAs(w, c, p) == IF Icons(w) THEN Sorted(c, p) ELSE ListSorted(c, p)
WithItems(c, files) == [c EXCEPT !.items = @ \o [k \in DOMAIN files |-> NewItem(files[k])]]
Without(w, r, gone, p) == IF Icons(w) THEN DeleteIf(r, gone, p) ELSE ListDeleteIf(r, gone, p)

AddItems(w) ==
  \E new \in SUBSET (Files \ Shown(view[w])) :
    LET c == WithItems(view[w], SetToSeq(new))
    IN  /\ new # {}
        /\ \E p \in Orders(c.items) : DidOnly(w, Quiet(SortedAs(w, c, p)))

RestatItem(f) == /\ isDir' = [isDir EXCEPT ![f] = ~@]
                 /\ UNCHANGED <<kind, view, temp, primary>>

UpdateItems(w) ==
  \E p \in Orders(view[w].items) : DidOnly(w, Quiet(SortedAs(w, view[w], p)))

RemoveItems(w) ==
  \E gone \in SUBSET Shown(view[w]) :
    /\ gone # {}
    /\ \E p \in Rest(view[w], gone) : DidOnly(w, Without(w, Now(w), gone, p))

(* known: what the directory has and the window's filter lets through.  If *)
(* the view shows anything else it is emptied and filled again.            *)
Resync(w) ==
  \E known \in SUBSET Files :
    IF known = Shown(view[w])
    THEN \E p \in Orders(view[w].items) : DidOnly(w, Quiet(SortedAs(w, view[w], p)))
    ELSE LET empty == Without(w, Now(w), Shown(view[w]), << >>)
             c == WithItems(empty.c, SetToSeq(known))
         IN  \E p \in Orders(c.items) : DidOnly(w, [empty EXCEPT !.c = SortedAs(w, c, p)])
-----------------------------------------------------------------------------
(* The view interface, for both kinds of view.                             *)

SetIn(icons, r, i, on) == IF icons THEN SetSelected(r, i, on, TRUE) ELSE ListSetSelected(r, i, on)

Set(w, r, i, on) == SetIn(Icons(w), r, i, on)

Only(w, r, i) == IF Icons(w) THEN ClearExcept(r, i) ELSE ListSelectOnly(r, i)

Cleared(w, r) == IF Icons(w) THEN ClearExcept(r, -1) ELSE ListClearSelection(r)

All(w, r) == IF Icons(w) THEN SelectAll(r) ELSE ListSelectAll(r)

(* Items 1 to k are set to what they are in which.                         *)
SetUpTo(icons, r, which) ==
  LET done[k \in 0..(Size(r.c) - 1)] ==
        IF k = 0 THEN r ELSE SetIn(icons, done[k - 1], k, k \in which)
  IN  done

(* Mutant of SelectIf: the items are set in their order.                   *)
SelectIfInOrder(w, r, which) ==
  LET first == Set(w, r, 0, 0 \in which)
  IN  IF Size(r.c) = 0 THEN r ELSE SetUpTo(Icons(w), first, which)[Size(r.c) - 1]

(* view_select_if(): the first item is set last, and if anything is        *)
(* selected it is selected until then.                                     *)
SelectIf(w, r, which) ==
  LET n == Size(r.c)
      frozen == IF Icons(w) THEN Freeze(r) ELSE r
      held == IF frozen.c.count > 0 THEN Set(w, frozen, 0, TRUE) ELSE frozen
      last == Set(w, SetUpTo(Icons(w), held, which)[n - 1], 0, 0 \in which)
  IN  IF n = 0 THEN r ELSE IF Icons(w) THEN Thaw(last) ELSE last

-----------------------------------------------------------------------------
(* The user.                                                               *)

ClickItem(w) ==
  \E i \in Numbers(view[w]), on \in BOOLEAN : DidOnly(w, Set(w, Now(w), i, on))

ClickOnly(w) == \E i \in Numbers(view[w]) : DidOnly(w, Only(w, Now(w), i))

Escape(w) == DidOnly(w, Cleared(w, [Now(w) EXCEPT !.c = IF Icons(w) THEN SetCursor(@, -1) ELSE @]))

(* From the menu or the toolbar: temp_item_selected is reset.              *)
ForGood(w, r) == /\ temp' = [temp EXCEPT ![w] = FALSE]
                 /\ Did(w, r, FALSE)
                 /\ UNCHANGED <<isDir, kind>>

MenuSelectAll(w) == ForGood(w, All(w, Now(w)))
MenuClear(w) == ForGood(w, Cleared(w, Now(w)))
MenuInvert(w) == ForGood(w, SelectIf(w, Now(w), Numbers(view[w]) \ Marked(view[w])))
MenuShell(w) == ForGood(w, Now(w))

(* A pattern or a condition typed into the minibuffer, a group key         *)
SelectMatching(w) ==
  \E which \in SUBSET Numbers(view[w]) : DidOnly(w, SelectIf(w, Now(w), which))

Lasso(w) ==
  \E invert \in BOOLEAN :
    IF Icons(w)
    THEN \E in \in {InArea(view[w], lay, area) : lay \in Layouts, area \in Areas} :
           DidOnly(w, ProcessArea(Now(w), in, invert))
    ELSE \E from \in Numbers(view[w]), to \in 0..Size(view[w]) :
           DidOnly(w, SelectIf(w, Now(w), ListLasso(view[w], from, to, invert)))

(* With nothing in the view the cursor is shown all the same.              *)
CursorTargets(c) ==
  IF Size(c) = 0 THEN {0}
  ELSE UNION {{Moved(c, lay, d, first, last) :
                 d \in Steps, first \in 0..(Rows(c, lay) - 1), last \in {0, Rows(c, lay) - 1}} :
              lay \in Layouts}

CursorKey(w) ==
  /\ Icons(w)
  /\ \E i \in CursorTargets(view[w]), key \in {"none", "shift", "ctrl"} :
       DidOnly(w, MoveCursor(Now(w), i, IF Size(view[w]) = 0 THEN "none" ELSE key))

PutCursor(w) ==
  /\ Icons(w)
  /\ \E i \in Numbers(view[w]) \cup {-1} : DidOnly(w, Quiet(SetCursor(view[w], i)))

WinkItem(w) ==
  /\ Icons(w)
  /\ \E i \in Numbers(view[w]) \cup {-1} : DidOnly(w, Quiet(Wink(view[w], i)))

(* filer_next_selected(), the Tab key                                      *)
NextSelected(w) ==
  /\ Icons(w)
  /\ \E back \in BOOLEAN :
       LET c == view[w]
           here == CursorItem(c)
           visits == Visits(c, IF here # -1 THEN FromCursor(c.cursor) ELSE FromEnd, back, TRUE)
           others == IF here # -1 /\ IsSelected(c, here) THEN Tail(visits) ELSE visits
       IN  /\ others # << >>
           /\ DidOnly(w, Quiet(SetCursor(c, Head(others))))

(* filer_window_toggle_cursor_item_selected(), the space key               *)
ToggleAtCursor(w) ==
  /\ Icons(w)
  /\ LET c == view[w]
         visits == Visits(c, FromCursor(c.cursor), FALSE, FALSE)
         r == Set(w, Now(w), visits[1], ~IsSelected(c, visits[1]))
     IN  /\ visits # << >>
         /\ DidOnly(w, IF Len(visits) > 1 THEN [r EXCEPT !.c = SetCursor(@, visits[2])] ELSE r)

(* A drag or a menu on an item that is not selected selects it for the     *)
(* time being, and does not grab the primary selection.                    *)
Borrow(w, r) == /\ temp' = [temp EXCEPT ![w] = TRUE]
                /\ Did(w, r, TRUE)
                /\ UNCHANGED <<isDir, kind>>

DragBegin(w) ==
  \E i \in Numbers(view[w]) :
    /\ ~IsSelected(view[w], i)
    /\ \/ Borrow(w, Only(w, Now(w), i))
       \/ /\ view[w].count = 0 /\ Borrow(w, Set(w, Now(w), i, TRUE))
       \/ /\ view[w].count # 0 /\ DidOnly(w, Set(w, Now(w), i, TRUE))

PopUpMenu(w) ==
  \/ \E i \in Numbers(view[w]) : view[w].count = 0 /\ Borrow(w, Set(w, Now(w), i, TRUE))
  \/ ForGood(w, Now(w))

(* drag_end(), menu_closed()                                               *)
GiveBack(w) ==
  /\ temp[w]
  /\ temp' = [temp EXCEPT ![w] = FALSE]
  /\ Did(w, Cleared(w, Now(w)), TRUE)
  /\ UNCHANGED <<isDir, kind>>

(* target_callback(): the operation gets its item, and the selection goes. *)
TargetChosen(w) ==
  \E i \in Numbers(view[w]) :
    /\ temp' = [temp EXCEPT ![w] = FALSE]
    /\ Did(w, Cleared(w, Only(w, Now(w), i)), TRUE)
    /\ UNCHANGED <<isDir, kind>>

(* filer_set_view_type(): the icon view is emptied as it goes, and says so;*)
(* the list view has no handler left.  The new view is filled with what    *)
(* the directory knows by now and selects what was selected, keep.         *)
Restored(icons, filled, keep) ==
  LET n == Size(filled.c)
      back[k \in 0..n] ==
        IF k = 0 THEN filled
        ELSE IF Data(filled.c, k - 1) \in keep THEN SetIn(icons, back[k - 1], k - 1, TRUE)
        ELSE back[k - 1]
  IN  back[n]

SwitchView(w) ==
  \E known \in SUBSET Files :
    LET old == view[w]
        gone == IF Icons(w) /\ old.count > 0 THEN <<"lose">> ELSE << >>
        c == WithItems(NewCollection, SetToSeq(known))
    IN  \E p \in Orders(c.items) :
          LET r == Restored(~Icons(w), [c |-> ListSorted(c, p), out |-> gone], SelectedIn(old))
          IN  /\ kind' = [kind EXCEPT ![w] = IF Icons(w) THEN "list" ELSE "icons"]
              /\ Did(w, r, temp[w])
              /\ UNCHANGED <<isDir, temp>>

(* filer_lost_primary(): another program claims the primary selection, or  *)
(* one of the windows left out does.                                       *)
OthersClaim == /\ primary' \in {Nobody, Elsewhere} \ {primary}
               /\ UNCHANGED <<isDir, kind, view, temp>>
-----------------------------------------------------------------------------
Init ==
  /\ isDir = [f \in Files |-> FALSE]
  /\ kind \in [Windows -> {"icons", "list"}]
  /\ view = [w \in Windows |-> NewCollection]
  /\ temp = [w \in Windows |-> FALSE]
  /\ primary = Nobody

Rearrange(w) == AddItems(w) \/ UpdateItems(w) \/ RemoveItems(w)

Choose(w) ==
  \/ ClickItem(w) \/ ClickOnly(w) \/ Escape(w) \/ MenuSelectAll(w) \/ MenuClear(w)
  \/ MenuInvert(w) \/ MenuShell(w) \/ SelectMatching(w) \/ Lasso(w) \/ CursorKey(w)
  \/ PutCursor(w) \/ WinkItem(w) \/ NextSelected(w) \/ ToggleAtCursor(w)
  \/ DragBegin(w) \/ PopUpMenu(w) \/ GiveBack(w) \/ TargetChosen(w)

Next ==
  \/ OthersClaim
  \/ \E f \in Restated : RestatItem(f)
  \/ \E w \in Windows : Rearrange(w) \/ Resync(w) \/ Choose(w) \/ SwitchView(w)

Spec == Init /\ [][Next]_vars
-----------------------------------------------------------------------------
Item == [data : Files, selected : BOOLEAN]

Collections == [items : Seq(Item), count : Nat, cursor : Int, old : Int, wink : Int, blocked : Nat]

(* The count of a view is that of its selected items, the cursor and the   *)
(* wink are on items there are (an empty collection may have its cursor on *)
(* item 0), and between operations no signal is held back.                 *)
TypeOK ==
  /\ isDir \in [Files -> BOOLEAN]
  /\ kind \in [Windows -> {"icons", "list"}]
  /\ view \in [Windows -> Collections]
  /\ temp \in [Windows -> BOOLEAN]
  /\ primary \in Windows \cup {Nobody, Elsewhere}
  /\ \A w \in Windows :
       LET c == view[w]
       IN  /\ c.count = Cardinality(Marked(c))
           /\ c.cursor \in Numbers(c) \cup {-1} \/ (c.items = << >> /\ c.cursor = 0)
           /\ c.wink \in Numbers(c) \cup {-1}
           /\ c.blocked = 0

(* Views keep their promise (View.tla): the primary selection is given up  *)
(* when nothing is selected and only then, items come unselected, and no   *)
(* sorting, updating or removing of other items changes what is selected.  *)
Promise == INSTANCE View WITH
  shown <- [w \in Windows |-> Shown(view[w])],
  selected <- [w \in Windows |-> SelectedIn(view[w])],
  atomic <- [w \in Windows |-> Icons(w)],
  owner <- primary

KeepsViewPromise == Promise!Spec

(* While the directory rearranges an icon view, the cursor stays on its    *)
(* file as long as this is shown, and so does the wink unless it ends.     *)
OnSameFile(c, d, i, j) == Data(c, i) \in Shown(d) => j \in Numbers(d) /\ Data(d, j) = Data(c, i)

Stays(c, d) == /\ c.cursor \in Numbers(c) => OnSameFile(c, d, c.cursor, d.cursor)
               /\ c.wink # -1 /\ d.wink # -1 => OnSameFile(c, d, c.wink, d.wink)

CursorsFollow ==
  \A w \in Windows : \/ ~Icons(w)
                     \/ Stays(view[w], view'[w])
                     \/ ~Rearrange(w)

CursorStays == [][CursorsFollow]_vars

(* How far item i is on from item from, the way an iterator goes           *)
Ahead(c, from, back, i) ==
  LET far == IF back THEN from - i ELSE i - from
  IN  IF far < 0 THEN far + Size(c) ELSE far

(* An iterator visits every item, or every selected one, exactly once, in  *)
(* order around the view from the cursor or base it starts at, or from an  *)
(* end if the base is no item (any more), and nothing if it is to start at *)
(* a cursor that is not there: the loops over selected files rely on it.   *)
Starts(c) == {FromEnd} \cup {FromCursor(i) : i \in Numbers(c) \cup {-1}}
                       \cup {FromBase(i) : i \in -1..(Size(c) + 1)}

IteratesOnce ==
  \A w \in Windows : LET c == view[w] IN
    \A start \in Starts(c), back \in BOOLEAN, only \in BOOLEAN :
      LET visits == Visits(c, start, back, only)
          from == StartItem(c, start, back)
      IN  /\ Range(visits) = IF NoCursor(start) THEN {}
                             ELSE {i \in Numbers(c) : only => IsSelected(c, i)}
          /\ \A j, k \in DOMAIN visits :
               j < k => Ahead(c, from, back, visits[j]) < Ahead(c, from, back, visits[k])
=============================================================================
