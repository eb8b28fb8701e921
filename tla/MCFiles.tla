------------------------------ MODULE MCFiles -------------------------------
(* Two folders with an item of the same name, and the dialog on two items of *)
(* the first, with two more names to give them; one of these can be spelled  *)
(* with a slash as well. The second number of unique_trash_name() is reached.*)
(* Another program makes and removes a link to nothing. While the dialog is  *)
(* open, the Trash holds one thing at most and the link is not in the other  *)
(* folder; while it is closed, the fourth name is not used (SmallTrash).     *)
EXTENDS Files, TLC

MCPaths == {<<"home", "a">>, <<"home", "b">>, <<"home", "c">>, <<"home", "d">>, <<"desk", "a">>}
MCThrown == {<<"home", "a">>, <<"desk", "a">>}
Absolute(leaf) == [path |-> <<"home", leaf>>, spelled |-> "absolute"]
MCNewNames == {Plain("b"), Plain("c"), Plain("d"), Absolute("c")}
\* s/a/b/, which leaves the other names as they are.
MCSubstitutions == {[n \in MCNewNames \cup {Plain("a")} |->
                       IF n = Plain("a") THEN Plain("b") ELSE n]}
\* The files of the user are not told apart.
Interchangeable == Permutations(Files \ Strangers)
SmallTrash ==
    /\ rows # <<>> => /\ shared = {} /\ Cardinality(Informed \cup Filled) <= 1
                       /\ dir[<<"desk", "a">>] \notin Strangers
    /\ dir[<<"home", "d">>] # None => rows # <<>>
=============================================================================
