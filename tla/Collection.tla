---------------------------- MODULE Collection ----------------------------
(***************************************************************************)
(* The icon view's widget (collection.c): an array of items, each with the *)
(* data it shows and a selected flag, a count of those selected, the       *)
(* cursor, the cursor's last place and the item that winks.  Items are     *)
(* numbered from 0, and -1 means none, as in the code.                     *)
(*                                                                         *)
(* An operation takes and gives a result r: the collection r.c and what it *)
(* has told its user so far, r.out.  "lose" stands for LOSE_SELECTION,     *)
(* "some" for a SELECTION_CHANGED that finds something selected; one that  *)
(* finds nothing selected only redraws the toolbar.                        *)
(***************************************************************************)
EXTENDS Integers, Sequences, FiniteSets, FiniteSetsExt

(* What collection_insert() appends                                        *)
NewItem(f) == [data |-> f, selected |-> FALSE]

NewCollection ==
  [items |-> << >>, count |-> 0, cursor |-> -1, old |-> -1, wink |-> -1, blocked |-> 0]

Size(c) == Len(c.items)
Numbers(c) == 0..(Size(c) - 1)
Data(c, i) == c.items[i + 1].data
IsSelected(c, i) == c.items[i + 1].selected
Marked(c) == {i \in Numbers(c) : IsSelected(c, i)}
Shown(c) == {Data(c, i) : i \in Numbers(c)}
SelectedIn(c) == {Data(c, i) : i \in Marked(c)}

Quiet(c) == [c |-> c, out |-> << >>]
Tell(r, what) == [r EXCEPT !.out = Append(@, what)]
TellLost(r) == Tell(r, "lose")
TellChanged(r) == IF r.c.blocked = 0 /\ r.c.count > 0 THEN Tell(r, "some") ELSE r

(* collection_item_set_selected()                                          *)
SetSelected(r, i, selected, signal) ==
  IF IsSelected(r.c, i) = selected THEN r
  ELSE LET c == [r.c EXCEPT !.items[i + 1].selected = selected,
                            !.count = IF selected THEN @ + 1 ELSE @ - 1]
           s == [r EXCEPT !.c = c]
       IN  TellChanged(IF signal /\ ~selected /\ c.count = 0 THEN TellLost(s) ELSE s)

Flags(c, which) ==
  [c EXCEPT !.items = [i \in 1..Size(c) |-> [c.items[i] EXCEPT !.selected = (i - 1) \in which]]]

SelectAll(r) ==
  IF r.c.count = Size(r.c) THEN r
  ELSE TellChanged([r EXCEPT !.c = [Flags(r.c, Numbers(r.c)) EXCEPT !.count = Size(r.c)]])

(* collection_clear_except(): the item to be left is selected first, so    *)
(* that there is never nothing selected in between.                        *)
ClearExcept(r, i) ==
  LET s == IF i = -1 THEN r ELSE SetSelected(r, i, TRUE, TRUE)
      left == [s EXCEPT !.c = [Flags(s.c, {i}) EXCEPT !.count = IF i = -1 THEN 0 ELSE 1]]
  IN  IF s.c.count = 0 THEN s
      ELSE TellChanged(IF i = -1 THEN TellLost(left) ELSE left)

(* The items in another order, or only some of them: item k is what item   *)
(* p[k] was.                                                               *)
Arranged(items, p) == [k \in DOMAIN p |-> items[p[k]]]

(* collection_qsort(), p being the order it finds; the cursor and the wink *)
(* stay on their data.                                                     *)
Place(c, p, i) == IF i \in Numbers(c) THEN (CHOOSE k \in 1..Size(c) : p[k] = i + 1) - 1 ELSE i

(* Mutant of Sorted: the cursor stays where it was.                        *)
SortedUnderCursor(c, p) ==
  LET wink == Place(c, p, c.wink)
  IN  [c EXCEPT !.items = Arranged(@, p), !.wink = wink, !.old = IF wink # -1 THEN wink ELSE @]

Sorted(c, p) ==
  LET wink == Place(c, p, c.wink)
      isSorted == \A k \in 1..Size(c) : p[k] = k
  IN  IF isSorted THEN c
      ELSE [c EXCEPT !.items = Arranged(@, p),
                     !.cursor = Place(c, p, @),
                     !.wink = wink,
                     !.old = IF wink # -1 THEN wink ELSE @]

(* collection_set_cursor_item()                                            *)
SetCursor(c, i) ==
  [c EXCEPT !.cursor = i, !.old = IF i = -1 /\ c.cursor # -1 THEN c.cursor ELSE @]

(* collection_wink_item() on a widget that is mapped                       *)
Wink(c, i) == [c EXCEPT !.wink = i, !.old = IF i = -1 THEN @ ELSE i]

(* Mutant of DeleteIf: the cursor stays where it was.                      *)
DeleteIfUnderCursor(r, gone, p) ==
  LET c == r.c
      kept == [c EXCEPT !.items = Arranged(@, p), !.wink = -1]
      left == [r EXCEPT !.c = [kept EXCEPT !.count = Cardinality(Marked(kept))]]
  IN  IF \A i \in Numbers(c) : Data(c, i) \notin gone THEN r
      ELSE IF c.count > 0 /\ left.c.count = 0 THEN TellLost(left) ELSE left

(* collection_delete_if(): what is kept keeps its order, p, and its flag,  *)
(* the cursor moves back with what was before it, and a wink ends.         *)
DeleteIf(r, gone, p) ==
  LET c == r.c
      removed == {i \in Numbers(c) : Data(c, i) \in gone}
      kept == [c EXCEPT !.items = Arranged(@, p), !.wink = -1,
                        !.cursor = @ - Cardinality({i \in removed : i <= @})]
      left == [r EXCEPT !.c = [kept EXCEPT !.count = Cardinality(Marked(kept))]]
  IN  IF removed = {} THEN r
      ELSE IF c.count > 0 /\ left.c.count = 0 THEN TellLost(left) ELSE left
-----------------------------------------------------------------------------
(* Where the items are: in rows of `columns', or in columns as high as all *)
(* of them need.  lay is [columns, vertical].                              *)

Rows(c, lay) == Max({(Size(c) + lay.columns - 1) \div lay.columns, 1})

Columns(c, lay) ==
  IF lay.vertical THEN Max({(Size(c) + Rows(c, lay) - 1) \div Rows(c, lay), 1}) ELSE lay.columns

RowOf(c, lay, i) == IF lay.vertical THEN i % Rows(c, lay) ELSE i \div lay.columns
ColumnOf(c, lay, i) == IF lay.vertical THEN i \div Rows(c, lay) ELSE i % lay.columns

ItemAt(c, lay, row, col) ==
  IF ~lay.vertical THEN row * lay.columns + col
  ELSE IF row >= Rows(c, lay) THEN Size(c) ELSE row + col * Rows(c, lay)

(* collection_process_area(): the items in a lasso box, a rectangle of     *)
(* rows and columns; the signals are held back until all are done.         *)
InArea(c, lay, area) ==
  {ItemAt(c, lay, y, x) :
     y \in {y \in area.top..(area.top + area.height - 1) : y < Rows(c, lay)},
     x \in {x \in area.left..(area.left + area.width - 1) : x < lay.columns}} \cap Numbers(c)

ProcessArea(r, in, invert) ==
  LET c == r.c
      which == IF invert THEN (Marked(c) \ in) \cup (in \ Marked(c)) ELSE Marked(c) \cup in
      done == [r EXCEPT !.c = [Flags(c, which) EXCEPT !.count = Cardinality(which)]]
      told == IF which = {} /\ c.count > 0 THEN TellLost(done) ELSE done
  IN  IF in = {} THEN told ELSE TellChanged(told)

(* collection_move_cursor(), by d = [row, column], with rows first to last *)
(* visible: where it comes to; shift selects that, ctrl unselects it.      *)
Clamp(x, lo, hi) == IF x < lo THEN lo ELSE IF x > hi THEN hi ELSE x

NewRow(row, d, first, last, rows) ==
  IF row < first THEN first ELSE IF row > last THEN last ELSE Clamp(row + d.row, 0, rows - 1)

Wrapped(row, col, d, first, last, rows, cols) ==
  IF row \in first..last /\ d.row > 0 /\ row = rows - 1
  THEN IF col # cols - 1 THEN [row |-> 0, col |-> col + 1] ELSE [row |-> row, col |-> col]
  ELSE IF row \in first..last /\ d.row < 0 /\ row = 0
  THEN IF col # 0 THEN [row |-> rows - 1, col |-> col - 1] ELSE [row |-> row, col |-> col]
  ELSE [row |-> NewRow(row, d, first, last, rows), col |-> col]

Moved(c, lay, d, first, last) ==
  LET from == IF c.cursor = -1 THEN Min({c.old, Size(c) - 1}) ELSE c.cursor
      rows == Rows(c, lay)
      cols == Columns(c, lay)
      row == RowOf(c, lay, from)
      col == ColumnOf(c, lay, from) + d.column
      to == IF from = -1 THEN [row |-> first, col |-> 0]
            ELSE IF lay.vertical THEN Wrapped(row, Clamp(col, 0, cols - 1), d, first, last, rows, cols)
            ELSE [row |-> NewRow(row, d, first, last, rows), col |-> col]
  IN  Clamp(ItemAt(c, lay, to.row, to.col), 0, Size(c) - 1)

MoveCursor(r, i, key) ==
  LET s == IF key = "shift" THEN SetSelected(r, i, TRUE, TRUE)
           ELSE IF key = "ctrl" THEN SetSelected(r, i, FALSE, TRUE) ELSE r
  IN  [s EXCEPT !.c = SetCursor(@, i)]

(* view_collection_set_frozen()                                            *)
Freeze(r) == [r EXCEPT !.c.blocked = @ + 1]
Thaw(r) == TellChanged([r EXCEPT !.c.blocked = @ - 1])
=============================================================================
