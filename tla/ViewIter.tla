------------------------------ MODULE ViewIter ------------------------------
(***************************************************************************)
(* Iterators over the items of a view (view_collection.c, view_details.c,  *)
(* where the code is the same).  An iterator is where it is, how many      *)
(* items it has left, and its flags: [i, left, back, only], only for those *)
(* that pass over what is not selected.                                    *)
(***************************************************************************)
EXTENDS Collection

(* Where an iterator starts: at an end, at the cursor or at the base, whose *)
(* number is -1 if there is none.                                          *)
FromEnd == [flag |-> "none", i |-> -1]
FromCursor(i) == [flag |-> "cursor", i |-> i]
FromBase(i) == [flag |-> "base", i |-> i]

NoCursor(start) == start = FromCursor(-1)

StartItem(c, start, back) ==
  IF start.i \in Numbers(c) THEN start.i ELSE IF back THEN Size(c) - 1 ELSE 0

MakeIter(c, back, only) == [i |-> -1, left |-> Size(c), back |-> back, only |-> only]

Neighbour(c, it, i) ==
  IF it.back THEN (IF i = 0 THEN Size(c) - 1 ELSE i - 1)
             ELSE (IF i + 1 = Size(c) THEN 0 ELSE i + 1)

(* iter_next(), iter_prev(): on to the next item, or the next selected one *)
IterNext(c, it) ==
  LET at[k \in 0..it.left] == IF k = 0 THEN it.i ELSE Neighbour(c, it, at[k - 1])
      hits == {k \in 1..it.left : it.only => IsSelected(c, at[k])}
  IN  IF hits = {} THEN [it EXCEPT !.i = -1, !.left = 0]
      ELSE [it EXCEPT !.i = at[Min(hits)], !.left = @ - Min(hits)]

(* Mutant of IterInit: the first item is not counted.                      *)
IterInitUncounted(c, it, start) ==
  LET i == StartItem(c, start, it.back)
      first == [it EXCEPT !.i = i]
  IN  IF NoCursor(start) THEN it
      ELSE IF it.only /\ ~IsSelected(c, i) THEN IterNext(c, first) ELSE first

(* iter_init(): the first call, in a view with items                       *)
IterInit(c, it, start) ==
  LET i == StartItem(c, start, it.back)
      first == [it EXCEPT !.i = i, !.left = @ - 1]
  IN  IF NoCursor(start) THEN it
      ELSE IF it.only /\ ~IsSelected(c, i) THEN IterNext(c, first) ELSE first

(* view_get_cursor(): an iterator that is to return one item, and has been *)
(* sent for it.                                                            *)
CursorItem(c) ==
  IF Size(c) = 0 THEN -1
  ELSE IterInit(c, [MakeIter(c, FALSE, FALSE) EXCEPT !.left = 1], FromCursor(c.cursor)).i

(* What a loop over next() visits                                          *)
Visits(c, start, back, only) ==
  LET n == Size(c)
      it[k \in 0..(n + 1)] == IF k = 0 THEN IterInit(c, MakeIter(c, back, only), start)
                        ELSE IF it[k - 1].i = -1 THEN it[k - 1] ELSE IterNext(c, it[k - 1])
      last == CHOOSE k \in 0..(n + 1) : it[k].i = -1 /\ \A j \in 0..(k - 1) : it[j].i # -1
  IN  IF n = 0 THEN << >> ELSE [k \in 1..last |-> it[k - 1].i]
=============================================================================
