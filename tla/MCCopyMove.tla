----------------------------- MODULE MCCopyMove -----------------------------
(***************************************************************************)
(* Small instances of copying and moving: the selected items are a directory x/d     *)
(* with a file or directory f in it, and a file x/a; y/a has the same leaf name as x/a. *)
(***************************************************************************)
EXTENDS HybridCopyMove

D == <<"x", "d">>
F == <<"x", "d", "f">>
A == <<"x", "a">>
B == <<"y", "a">>

MCTargets == {<<"d">>, <<"d", "f">>, <<"a">>}

MCSources == {D, F, A}
MCTwins == {A, B}
MCTwinTargets == {<<"a">>}

Source(p, kind) == IF kind = "none" THEN Absent ELSE [kind |-> kind, time |-> 2, from |-> p]
Object(kind, time) == IF kind = "none" THEN Absent ELSE [kind |-> kind, time |-> time, from |-> <<>>]

Trees(places, depth, Nodes(_)) ==
    {tree \in [places -> UNION {Nodes(p) : p \in places}] :
        IsTree(tree, depth) /\ \A p \in places : tree[p] \in Nodes(p)}

SourceTrees(places) ==
    Trees(places, 2,
          LAMBDA p : {Source(p, k) : k \in IF p = D THEN {"dir", "file"}
                                           ELSE IF p = F THEN {"file", "dir", "none"}
                                           ELSE {"file", "link"}})

TargetTrees(places) ==
    Trees(places, 1,
          LAMBDA t : {Object("none", 0), Object("file", 2)}
                     \cup CASE t = <<"d">> -> {Object("dir", 1)}
                            [] t = <<"d", "f">> -> {Object("file", 1)}
                            [] OTHER -> {})

AllStarts(sources, targets, choices) ==
    [src: SourceTrees(sources), dst: TargetTrees(targets), choice: choices]

\* A directory meets a file, or a new file, and the policy is to look at their ages.
AgeOfDirectory(st) ==
    /\ st.choice = "newer"
    /\ \E s \in {D, F} : /\ st.src[s].kind = "dir"
                         /\ s = F \/ st.dst[Target(s)].kind = "file"

\* An empty directory meets a file, and the policy is to skip.
SkippedDirectory(st) ==
    st.choice = "skip" /\ st.src[F].kind = "dir" /\ st.dst[Target(F)].kind = "file"

\* A link is selected with a file only: the items are otherwise independent.
MCClassicStarts ==
    {st \in AllStarts(MCSources, MCTargets, {"ask", "replace", "skip", "newer"}) :
        /\ ~AgeOfDirectory(st)
        /\ st.src[D].kind = "file" \/ st.src[A].kind = "file"}

\* With rsync no object has the age of the one in its way, and both items are
\* files, or one a directory with a file in it.
TargetTreesOfOtherAge(targets) ==
    Trees(targets, 1,
          LAMBDA t : {Object("none", 0), Object("file", 3)}
                     \cup CASE t = <<"d">> -> {Object("dir", 1)}
                            [] t = <<"d", "f">> -> {Object("file", 1)}
                            [] OTHER -> {})

MCRsyncStarts ==
    {st \in [src: SourceTrees(MCSources), dst: TargetTreesOfOtherAge(MCTargets),
             choice: {"replace", "skip", "newer"}] :
        /\ ~AgeOfDirectory(st) /\ ~SkippedDirectory(st)
        /\ st.src[D].kind = "dir" => st.src[F] # Absent
        /\ st.src[A].kind = "file"
        /\ st.dst[<<"d">>] # Absent \/ st.dst[<<"a">>] = Absent}
MCStarts == MCClassicStarts \cup MCRsyncStarts
MCTwinStarts == AllStarts(MCTwins, MCTwinTargets, {"ask"})
\* The target of the other item is like that of the file in the directory.
MCLeaving == {<<"d">>, <<"d", "f">>}
MCAppearing == {<<"d", "f">>}

=============================================================================
