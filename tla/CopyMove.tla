------------------------------ MODULE CopyMove ------------------------------
(***************************************************************************)
(* Copying and moving with the classic engine of ROX-Filer: do_copy(),     *)
(* do_move() and what they call in src/ROX-Filer/src/action.c.             *)
(*                                                                         *)
(* The child process of the action walks the selected items and, in each   *)
(* directory, the names it finds when it opens it.  For each object it     *)
(* stat()s source and destination, settles a conflict by the policy or by  *)
(* a question, removes what is to be overwritten and copies, makes or      *)
(* moves.  Every system call is a step of its own: it can fail, and other  *)
(* programs can remove and create files in between.                        *)
(*                                                                         *)
(* A source is named by the directory its item was selected in and the     *)
(* names below it, so that two selected items may have the same leaf name. *)
(* The destination directory itself always exists.  The merge option is    *)
(* off: action_copy() and action_move() pass FALSE and offer no flag.      *)
(***************************************************************************)
EXTENDS Integers, Sequences, FiniteSets

CONSTANTS
    Names,              \* of files, and of the directories items are selected in
    Sources,            \* <<directory, leaf, name, ...>>
    Targets,            \* <<leaf, name, ...>>
    Starts,             \* trees to begin with, and what the user answers if he is
                        \* asked for a policy: records [src, dst, choice]
    Ops,                \* subset of {"copy", "move"}
    Vanishing,          \* sources that other programs may remove
    Leaving,            \* targets that other programs may remove
    Appearing,          \* targets where other programs may create a file
    Now                 \* later than the time of any file

VARIABLES
    src, dst,           \* the files: [Sources -> Node], [Targets -> Node]
    op,                 \* "copy" or "move"
    policy,             \* conflict_policy
    pc,                 \* where the child is
    cur,                \* the object it works on, and what the stat()s said
    open,               \* the directories being visited, innermost last
    left,               \* what it has still to visit
    chosen, allowed,    \* history: what the user agreed to (see Transfer)
    excused,            \* history: declined or reported to the user
    theirs              \* history: what other programs have changed

vars == <<src, dst, op, policy, pc, cur, open, left, chosen, allowed, excused, theirs>>
files == <<src, dst>>
history == <<chosen, allowed, theirs>>

Kinds == {"none", "file", "link", "dir", "part"}    \* "part": cut short
Absent == [kind |-> "none", time |-> 0, from |-> <<>>]

Parent(p) == SubSeq(p, 1, Len(p) - 1)
Beneath(p, q) == Len(q) > Len(p) /\ SubSeq(q, 1, Len(p)) = p
Subtree(s) == {r \in Sources : r = s \/ Beneath(s, r)}
Selected == {s \in Sources : Len(s) = 2}

\* make_dest_path(), with no new leaf name
Target(s) == Tail(s)

\* What readdir() returns for a directory of a tree
Children(tree, p) == {q \in DOMAIN tree : Parent(q) = p /\ tree[q] # Absent}

\* Objects are in directories; the outermost ones are in directories that are
\* always there.
IsTree(tree, depth) ==
    \A p \in DOMAIN tree :
        tree[p] # Absent /\ Len(p) > depth => tree[Parent(p)].kind = "dir"

Idle == [path |-> <<>>, info |-> Absent, had |-> Absent]

\* What can be at a place
Node == {Absent} \cup [kind: Kinds \ {"none"}, time: Int, from: Sources \cup {<<>>}]

\* Places with the directories they are in
Closed(places, depth) ==
    /\ places \subseteq Seq(Names)
    /\ \A p \in places :
         Len(p) >= depth /\ \A n \in depth..Len(p) : SubSeq(p, 1, n) \in places

ASSUME PlacesAssumption ==
    /\ Closed(Sources, 2) /\ Closed(Targets, 1)
    /\ \A s \in Sources : Target(s) \in Targets
ASSUME StartsAssumption ==
    \A st \in Starts : /\ st.src \in [Sources -> Node] /\ st.dst \in [Targets -> Node]
                       /\ st.choice \in {"ask", "replace", "skip", "newer"}
                       /\ IsTree(st.src, 2) /\ IsTree(st.dst, 1)
ASSUME OpsAssumption == Ops \subseteq {"copy", "move"}
ASSUME OthersAssumption ==
    /\ Vanishing \subseteq Sources /\ Leaving \subseteq Targets
    /\ Appearing \subseteq Targets /\ Now \in Int

\* destination_has_conflicts()
DestinationHasConflicts(tree) == \E s \in Selected : tree[Target(s)] # Absent

\* action_copy(), action_move(): the policy is asked for if there is a conflict
\* now, and is to replace all if there is none.
Init ==
    /\ \E st \in Starts :
         /\ src = st.src
         /\ dst = st.dst
         /\ IF DestinationHasConflicts(dst)
            THEN chosen = st.choice /\ policy = st.choice
            ELSE chosen = "none" /\ policy = "replace"
    /\ op \in Ops
    /\ pc = "next"
    /\ cur = Idle
    /\ open = <<>>
    /\ left = {s \in Selected : src[s] # Absent}
    /\ allowed = {}
    /\ excused = {}
    /\ theirs = [src |-> {}, dst |-> {}]

-----------------------------------------------------------------------------
(* Visiting an object.                                                     *)

\* What the loop of list_cb() or for_dir_contents() passes on next; the order
\* of a listing is arbitrary.
Frontier ==
    IF open = <<>> THEN left \cap Selected
    ELSE {s \in left : Parent(s) = open[Len(open)]}

Here == Target(cur.path)
Exists(t) == dst[t] # Absent
HasPlace(t) == Len(t) > 1 => dst[Parent(t)].kind = "dir"
MergesDirs(info, had) == info.kind = "dir" /\ had.kind = "dir"
Conflict == cur.had # Absent

Passed == pc' = "next" /\ cur' = Idle

\* The object is left as it is, and the user knows why.
GiveUp ==
    /\ Passed
    /\ excused' = excused \cup {cur.path}

\* Mutant of SkippedBy: an object of the same age is replaced.
SkippedByStrictly(info, had) ==
    \/ policy = "skip"
    \/ policy = "newer" /\ info.kind # "dir" /\ info.time < had.time

\* What happens to a conflict under the policy, without a question
SkippedBy(info, had) ==
    \/ policy = "skip"
    \/ policy = "newer" /\ info.kind # "dir" /\ info.time <= had.time

Proceed(s, info, had) ==
    /\ cur' = [path |-> s, info |-> info, had |-> had]
    /\ IF had = Absent \/ MergesDirs(info, had)
       THEN pc' = "make" /\ allowed' = allowed
       ELSE /\ pc' = "clear"
            /\ allowed' = IF chosen = "none" THEN allowed ELSE allowed \cup {s}

\* check_flags() may just have set or cleared 'quiet'.
Visit(s) ==
    LET info == src[s]
        had  == dst[Target(s)]
    IN  /\ pc = "next"
        /\ s \in Frontier
        /\ left' = left \ {s}
        /\ \/ /\ info = Absent \/ (had # Absent /\ SkippedBy(info, had))
              /\ pc' = "next" /\ UNCHANGED <<cur, allowed>>
              /\ excused' = excused \cup {s}
           \/ /\ info # Absent
              /\ IF had = Absent THEN TRUE
                 ELSE ~SkippedBy(info, had) /\ policy \in {"replace", "newer"}
              /\ Proceed(s, info, had)
              /\ UNCHANGED excused
           \/ /\ info # Absent
              /\ IF had = Absent THEN TRUE ELSE policy = "ask"
              /\ pc' = "asking"
              /\ cur' = [path |-> s, info |-> info, had |-> had]
              /\ UNCHANGED <<allowed, excused>>
        /\ UNCHANGED <<src, dst, op, policy, open, chosen, theirs>>

\* "Yes" to either question
AnswerYes ==
    /\ pc = "asking"
    /\ Proceed(cur.path, cur.info, cur.had)
    /\ UNCHANGED <<src, dst, op, policy, open, left, chosen, excused, theirs>>

AnswerNo ==
    /\ pc = "asking"
    /\ GiveUp
    /\ UNCHANGED <<src, dst, op, policy, open, left, chosen, allowed, theirs>>

\* "Yes" or "No" with "apply to all", which only a conflict offers
AnswerYesToAll ==
    /\ pc = "asking" /\ Conflict
    /\ policy' = "replace" /\ chosen' = "replace"
    /\ Proceed(cur.path, cur.info, cur.had)
    /\ UNCHANGED <<src, dst, op, open, left, excused, theirs>>

AnswerNoToAll ==
    /\ pc = "asking" /\ Conflict
    /\ policy' = "skip" /\ chosen' = "skip"
    /\ GiveUp
    /\ UNCHANGED <<src, dst, op, open, left, allowed, theirs>>

-----------------------------------------------------------------------------
(* Removing what is in the way.                                            *)

\* Mutant of Removable: the directory is removed with what is in it.
RemovableAlways ==
    IF cur.had.kind = "dir" THEN dst[Here].kind = "dir"
    ELSE Exists(Here) /\ dst[Here].kind # "dir"

\* rmdir() or unlink(), as the stat() of the destination said
Removable ==
    IF cur.had.kind = "dir"
    THEN dst[Here].kind = "dir" /\ Children(dst, Here) = {}
    ELSE Exists(Here) /\ dst[Here].kind # "dir"

Clear ==
    /\ pc = "clear"
    /\ \/ /\ Removable
          /\ dst' = [dst EXCEPT ![Here] = Absent]
          /\ pc' = "make" /\ UNCHANGED <<cur, excused>>
       \/ /\ ~Exists(Here)                          \* ENOENT: "anyway"
          /\ pc' = "make" /\ UNCHANGED <<dst, cur, excused>>
       \/ /\ Exists(Here)
          /\ GiveUp /\ UNCHANGED dst
    /\ UNCHANGED <<src, op, policy, open, left, chosen, allowed, theirs>>

-----------------------------------------------------------------------------
(* Copying and moving one object.                                          *)

\* Mutant of Enter: the entry "." of the directory is not left out.
EnterWithDot(s, readable) ==
    /\ Passed
    /\ open' = Append(open, s)
    /\ IF readable
       THEN left' = left \cup {s} \cup Children(src, s) /\ UNCHANGED excused
       ELSE left' = left /\ excused' = excused \cup {s}
    /\ UNCHANGED src

\* Mutant of Enter: it is not reported that the directory cannot be listed.
EnterSilently(s, readable) ==
    /\ Passed
    /\ open' = Append(open, s)
    /\ left' = IF readable THEN left \cup Children(src, s) ELSE left
    /\ UNCHANGED <<src, excused>>

\* for_dir_contents(): a directory that cannot be listed is as good as empty.
Enter(s, readable) ==
    /\ Passed
    /\ open' = Append(open, s)
    /\ IF readable
       THEN left' = left \cup Children(src, s) /\ UNCHANGED excused
       ELSE left' = left /\ excused' = excused \cup {s}
    /\ UNCHANGED src

EnterAnyhow(s) ==
    \/ src[s].kind = "dir" /\ Enter(s, TRUE)
    \/ Enter(s, FALSE)

\* The destination of a directory is a directory already: merge.
Merge ==
    /\ cur.info.kind = "dir"
    /\ dst[Here].kind = "dir"
    /\ EnterAnyhow(cur.path)
    /\ UNCHANGED dst

\* mkdir(); its mode and times are set for good on the way out.
MakeDir ==
    /\ op = "copy"
    /\ cur.info.kind = "dir"
    /\ ~Exists(Here) /\ HasPlace(Here)
    /\ dst' = [dst EXCEPT ![Here] = cur.info]
    /\ EnterAnyhow(cur.path)

\* cp -af, which overwrites what has appeared meanwhile
CopyFile ==
    /\ op = "copy"
    /\ cur.info.kind = "file"
    /\ src[cur.path] # Absent
    /\ HasPlace(Here) /\ dst[Here].kind # "dir"
    /\ dst' = [dst EXCEPT ![Here] = src[cur.path]]
    /\ Passed
    /\ UNCHANGED <<src, open, left, excused>>

\* readlink() and symlink(), which overwrites nothing
CopyLink ==
    /\ op = "copy"
    /\ cur.info.kind = "link"
    /\ src[cur.path] # Absent
    /\ HasPlace(Here) /\ ~Exists(Here)
    /\ dst' = [dst EXCEPT ![Here] = src[cur.path]]
    /\ Passed
    /\ UNCHANGED <<src, open, left, excused>>

CutShort(n) == IF n.kind = "file" THEN [n EXCEPT !.kind = "part", !.time = Now] ELSE n

\* The sources 'moved' at their new places, of which those in 'cut' incomplete
Placed(moved, cut) ==
    [t \in Targets |->
        IF \E r \in moved : Target(r) = t
        THEN LET r == CHOOSE r \in moved : Target(r) = t
             IN  IF r \in cut THEN CutShort(src[r]) ELSE src[r]
        ELSE dst[t]]

Moving == {r \in Subtree(cur.path) : src[r] # Absent}

\* Mutant of MoveObject: the source is removed whatever has been copied.
MoveObjectHalf ==
    /\ op = "move"
    /\ src[cur.path] # Absent
    /\ HasPlace(Here) /\ dst[Here].kind # "dir"
    /\ cur.info.kind = "dir" => ~Exists(Here)
    /\ dst' = Placed({cur.path}, {})
    /\ src' = [s \in Sources |-> IF s \in Moving THEN Absent ELSE src[s]]
    /\ Passed
    /\ UNCHANGED <<open, left, excused>>

\* mv -f: rename(), or a copy to another file system that is complete before
\* the source is removed.
MoveObject ==
    /\ op = "move"
    /\ src[cur.path] # Absent
    /\ HasPlace(Here) /\ dst[Here].kind # "dir"
    /\ cur.info.kind = "dir" => ~Exists(Here)
    /\ dst' = Placed(Moving, {})
    /\ src' = [s \in Sources |-> IF s \in Moving THEN Absent ELSE src[s]]
    /\ Passed
    /\ UNCHANGED <<open, left, excused>>

\* An error of mkdir, cp, mv or symlink, which is reported; cp and mv may have
\* come to any point of their work.
Fail ==
    /\ cur.info.kind = "dir" => dst[Here].kind # "dir"
    /\ GiveUp
    /\ \/ UNCHANGED dst
       \/ /\ op = "move" \/ cur.info.kind = "file"
          /\ HasPlace(Here) /\ dst[Here].kind # "dir"
          /\ cur.info.kind = "dir" => ~Exists(Here)
          /\ \E part \in SUBSET Moving :
               /\ \A r \in part : r = cur.path \/ Parent(r) \in part
               /\ \E cut \in {{}} \cup {{r} : r \in part} :
                    dst' = Placed(part, cut)
    /\ UNCHANGED <<src, open, left>>

Make ==
    /\ pc = "make"
    /\ Merge \/ MakeDir \/ CopyFile \/ CopyLink \/ MoveObject \/ Fail
    /\ UNCHANGED <<op, policy, chosen, allowed, theirs>>

\* Mutant of Leave: a directory goes with what is still in it.
LeaveNothing ==
    /\ pc = "next" /\ open # <<>> /\ Frontier = {}
    /\ open' = SubSeq(open, 1, Len(open) - 1)
    /\ LET s == open[Len(open)]
       IN  src' = IF op = "move"
                  THEN [r \in Sources |-> IF r \in Subtree(s) THEN Absent ELSE src[r]]
                  ELSE src
    /\ UNCHANGED <<dst, op, policy, pc, cur, left, chosen, allowed, excused, theirs>>

\* The end of a directory.  A move removes it if it is empty, and what is left
\* in it has been reported.
Leave ==
    /\ pc = "next" /\ open # <<>> /\ Frontier = {}
    /\ open' = SubSeq(open, 1, Len(open) - 1)
    /\ LET s == open[Len(open)]
       IN  \/ /\ op = "move" /\ src[s].kind = "dir" /\ Children(src, s) = {}
              /\ src' = [src EXCEPT ![s] = Absent]
           \/ UNCHANGED src
    /\ UNCHANGED <<dst, op, policy, pc, cur, left, chosen, allowed, excused, theirs>>

\* send_done()
Finish ==
    /\ pc = "next" /\ open = <<>> /\ Frontier = {}
    /\ pc' = "done"
    /\ UNCHANGED <<src, dst, op, policy, cur, open, left, chosen, allowed, excused, theirs>>

-----------------------------------------------------------------------------
(* Other programs, while the child works; each object at most once.        *)

Undisturbed == UNCHANGED <<op, policy, pc, cur, open, left, chosen, allowed, excused>>

RemoveSource(s) ==
    /\ pc # "done"
    /\ s \notin theirs.src
    /\ src[s] # Absent /\ Children(src, s) = {}
    /\ src' = [src EXCEPT ![s] = Absent]
    /\ theirs' = [theirs EXCEPT !.src = @ \cup {s}]
    /\ dst' = dst
    /\ Undisturbed

RemoveTarget(t) ==
    /\ pc # "done"
    /\ t \notin theirs.dst
    /\ Exists(t) /\ Children(dst, t) = {}
    /\ dst' = [dst EXCEPT ![t] = Absent]
    /\ theirs' = [theirs EXCEPT !.dst = @ \cup {t}]
    /\ src' = src
    /\ Undisturbed

CreateTarget(t) ==
    /\ pc # "done"
    /\ t \notin theirs.dst
    /\ ~Exists(t) /\ HasPlace(t)
    /\ dst' = [dst EXCEPT ![t] = [kind |-> "file", time |-> Now, from |-> <<>>]]
    /\ theirs' = [theirs EXCEPT !.dst = @ \cup {t}]
    /\ src' = src
    /\ Undisturbed

-----------------------------------------------------------------------------
Child == (\E s \in Sources : Visit(s)) \/ Clear \/ Make \/ Leave \/ Finish
User == AnswerYes \/ AnswerNo \/ AnswerYesToAll \/ AnswerNoToAll
Others ==
    \/ \E s \in Vanishing : RemoveSource(s)
    \/ \E t \in Leaving : RemoveTarget(t)
    \/ \E t \in Appearing : CreateTarget(t)

Next == Child \/ User \/ Others

Spec == Init /\ [][Next]_vars
FairSpec == Spec /\ WF_vars(Child)

-----------------------------------------------------------------------------
(* Properties.                                                             *)

T == INSTANCE Transfer WITH Nodes <- Node

\* The operation does what Transfer promises: nothing at the destination is
\* replaced or removed without consent, and nothing leaves the source before
\* it has arrived.
KeepsPromise == T!Spec

\* Both sides stay trees: no directory is removed, moved away or overwritten
\* under what the operation or another program has put into it (rmdir() and
\* not a recursive removal, in do_copy2() and do_move2()).
StaysTree == IsTree(src, 2) /\ IsTree(dst, 1)

Excused(s) == \E r \in excused : s \in Subtree(r)

\* Whatever has not been copied or moved in the end was declined, skipped or
\* reported, itself or with a directory it is in: no silent return of do_copy2()
\* or do_move2() loses track of an object.
NothingForgotten ==
    pc = "done" =>
        \A s \in Sources :
            \/ src[s] = Absent
            \/ src[s].kind = "dir" /\ dst[Target(s)].kind = "dir"
            \/ op = "copy" /\ dst[Target(s)] = src[s]
            \/ Excused(s)
            \/ /\ op = "copy" \/ src[s].kind = "dir"
               /\ \E t \in theirs.dst : t = Target(s) \/ Beneath(t, Target(s))

\* "When destination items already exist, one conflict-policy dialog is shown":
\* nothing that is at the destination goes without the user having been asked.
AskedBeforeLoss ==
    [][\A t \in Targets :
         chosen = "none" /\ dst[t] # Absent /\ dst'[t] # dst[t] => t \in theirs'.dst]_vars

\* The child always gets to the end, or to a question: however the trees change
\* under it, it visits each name it has listed once.
GetsOn == []<>(pc \in {"asking", "done"})

=============================================================================
