------------------------------ MODULE MCViews ------------------------------
EXTENDS Views
MCLayouts == {[columns |-> 1, vertical |-> FALSE], [columns |-> 2, vertical |-> FALSE],
             [columns |-> 2, vertical |-> TRUE]}
MCAreas == [left : {0, 1}, top : {0, 1}, width : {1}, height : {1, 2}]
(* The arrow keys, and Page Up and Down with a page of one row or none     *)
MCSteps == {s \in [row : -1..1, column : -1..1] : 0 \in {s.row, s.column}}
=============================================================================
