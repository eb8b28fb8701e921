-------------------------------- MODULE View --------------------------------
(***************************************************************************)
(* What the view of a filer window promises the rest of the filer: it      *)
(* shows a set of items, a part of them is selected, and the window that   *)
(* owns the primary selection has something to give.  Items come           *)
(* unselected; what happens to other items leaves the selection of an item *)
(* alone.                                                                  *)
(***************************************************************************)
CONSTANTS Windows, Files, Nobody, Elsewhere

VARIABLES
  shown, selected,      \* per window: sets of files
  atomic,               \* per window: its view replaces a selection at once
  owner                 \* the window with the primary selection, Nobody or Elsewhere

vars == <<shown, selected, atomic, owner>>

(* Who may own the primary after w's selection has become s: w gives it up *)
(* when it becomes empty and only then, and may get it when it is not.  A  *)
(* view that is not atomic empties a selection bit by bit: on the way it   *)
(* may take the primary from another window, to give it up at the end.     *)
Released(w) == IF owner = w THEN Nobody ELSE owner

Owners(w, s) == IF s # {} THEN {owner, w}
                ELSE IF selected[w] = {} THEN {Released(w), owner}
                ELSE IF atomic[w] THEN {Released(w)}
                ELSE {Released(w), Nobody}

ShowMore(w) ==
  /\ \E s \in SUBSET Files : shown[w] \subseteq s /\ shown' = [shown EXCEPT ![w] = s]
  /\ UNCHANGED <<selected, atomic, owner>>

ShowLess(w) ==
  \E s \in SUBSET shown[w] :
    /\ shown' = [shown EXCEPT ![w] = s]
    /\ selected' = [selected EXCEPT ![w] = @ \cap s]
    /\ owner' \in Owners(w, selected[w] \cap s)
    /\ UNCHANGED atomic

(* The view is filled anew.                                                *)
Renew(w) ==
  /\ \E s \in SUBSET Files : shown' = [shown EXCEPT ![w] = s]
  /\ selected' = [selected EXCEPT ![w] = {}]
  /\ owner' \in Owners(w, {})
  /\ UNCHANGED atomic

Select(w) ==
  \E s \in SUBSET shown[w] :
    /\ selected' = [selected EXCEPT ![w] = s]
    /\ owner' \in Owners(w, s)
    /\ UNCHANGED <<shown, atomic>>

(* A view that is not atomic gives the primary up before it selects a      *)
(* single item, and may not get it back.                                   *)
SelectOnly(w) ==
  /\ ~atomic[w]
  /\ \E f \in shown[w] : selected' = [selected EXCEPT ![w] = {f}]
  /\ owner' \in {w, owner, Released(w)}
  /\ UNCHANGED <<shown, atomic>>

(* Another view takes over; what was selected and is still there stays so. *)
(* When the old view is not atomic, nobody notices if nothing is left.     *)
Switch(w) ==
  \E s \in SUBSET Files :
    /\ shown' = [shown EXCEPT ![w] = s]
    /\ selected' = [selected EXCEPT ![w] = @ \cap s]
    /\ atomic' = [atomic EXCEPT ![w] = ~@]
    /\ owner' \in Owners(w, selected[w] \cap s)
                    \cup {IF atomic[w] THEN Released(w) ELSE owner}

(* Another program takes the primary, or a window beside these does.       *)
Lose == owner' \in {Nobody, Elsewhere} /\ UNCHANGED <<shown, selected, atomic>>

Init ==
  /\ shown = [w \in Windows |-> {}]
  /\ selected = [w \in Windows |-> {}]
  /\ atomic \in [Windows -> BOOLEAN]
  /\ owner = Nobody

Next ==
  \/ Lose
  \/ \E w \in Windows : \/ ShowMore(w) \/ ShowLess(w) \/ Renew(w) \/ Select(w)
                         \/ SelectOnly(w) \/ Switch(w)

Spec == Init /\ [][Next]_vars
=============================================================================
