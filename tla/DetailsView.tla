---------------------------- MODULE DetailsView ----------------------------
(***************************************************************************)
(* The list view (view_details.c): a GtkTreeView that is its own model.    *)
(* GTK keeps the selection and the cursor with the rows, and emits         *)
(* "changed" at once for every call that changes what is selected; the     *)
(* view's handler looks whether anything is.  Only the array of items, the *)
(* flags GTK keeps for its rows and their number are used of a collection; *)
(* the cursor is GTK's and is not modelled.                                *)
(***************************************************************************)
EXTENDS Collection

(* selection_changed()                                                     *)
ListChanged(r) == IF r.c.count > 0 THEN Tell(r, "some") ELSE TellLost(r)

ListMark(r, which) ==
  IF which = Marked(r.c) THEN r
  ELSE ListChanged([r EXCEPT !.c = [Flags(r.c, which) EXCEPT !.count = Cardinality(which)]])

ListSetSelected(r, i, selected) ==
  ListMark(r, IF selected THEN Marked(r.c) \cup {i} ELSE Marked(r.c) \ {i})

ListSelectAll(r) == ListMark(r, Numbers(r.c))

ListClearSelection(r) == ListMark(r, {})

(* view_details_select_only() empties the selection first.                 *)
ListSelectOnly(r, i) == ListMark(ListMark(r, {}), {i})

(* resort(); which row winks is left out.                                  *)
ListSorted(c, p) == [c EXCEPT !.items = Arranged(@, p)]

(* view_details_delete_if(), view_details_clear(): GTK tells of every      *)
(* selected row that goes.                                                 *)
ListDeleteIf(r, gone, p) ==
  LET c == r.c
      kept == [c EXCEPT !.items = Arranged(@, p)]
      left == Cardinality(Marked(kept))
  IN  [c |-> [kept EXCEPT !.count = left],
       out |-> r.out \o [k \in 1..(c.count - left) |->
                           IF c.count - k > 0 THEN "some" ELSE "lose"]]

(* select_lasso(): the rows between the ends of the lasso                  *)
ListLasso(c, from, to, invert) ==
  LET in == {i \in Numbers(c) : from <= i /\ i < to}
  IN  IF invert THEN (Marked(c) \ in) \cup (in \ Marked(c)) ELSE Marked(c) \cup in
=============================================================================
