------------------------------ MODULE Transfer ------------------------------
(***************************************************************************)
(* What copying or moving files promises, whatever the order in which they *)
(* are visited and whatever fails or changes meanwhile: an object at the   *)
(* destination is replaced or removed only if the user has agreed, and an  *)
(* object leaves the source only when it has arrived.  The promise is that *)
(* of README.md, "Conflict policy", and of the questions in action.c.      *)
(***************************************************************************)
EXTENDS Integers

CONSTANTS
    Sources, Targets,   \* the places of objects before and after
    Target(_),          \* where a source goes
    Nodes,              \* what can be at a place: records with kind and time
    Absent              \* the node of a place where nothing is

VARIABLES
    src,                \* [Sources -> Nodes]
    dst,                \* [Targets -> Nodes]
    chosen,             \* what the user has said of all conflicts; "none" if
                        \* nothing, because there seemed to be none
    allowed,            \* the sources that may replace what is at their target
    theirs              \* what other programs have changed: [src, dst: sets]

vars == <<src, dst, chosen, allowed, theirs>>

Init ==
    /\ src \in [Sources -> Nodes]
    /\ dst \in [Targets -> Nodes]
    /\ chosen \in {"none", "ask", "replace", "skip", "newer"}
    /\ allowed = {}
    /\ theirs = [src |-> {}, dst |-> {}]

\* The user agrees that s replaces what is there, to this question or once for
\* all, or wants it if s is newer, and it is.
Agree(s) ==
    /\ \/ chosen \in {"ask", "replace"}
       \/ chosen = "newer" /\ src[s].time > dst[Target(s)].time
    /\ allowed' = allowed \cup {s}
    /\ chosen' = chosen \/ (chosen = "ask" /\ chosen' = "replace")
    /\ UNCHANGED <<src, dst, theirs>>

\* The user gives one answer to all further conflicts.
AnswerForAll ==
    /\ chosen = "ask"
    /\ chosen' \in {"replace", "skip"}
    /\ UNCHANGED <<src, dst, allowed, theirs>>

\* A step of the operation on the files.  What another program has put at the
\* destination meanwhile is not protected: the check and the change are not one.
Carry ==
    /\ \A t \in Targets :
         dst'[t] # dst[t] =>
            \/ dst[t] = Absent
            \/ \E s \in allowed : Target(s) = t
            \/ t \in theirs.dst
    /\ \A s \in Sources :
         src'[s] # src[s] =>
            /\ src'[s] = Absent
            /\ \/ dst'[Target(s)] = src[s]
               \/ /\ src[s].kind = "dir"
                  /\ dst'[Target(s)].kind = "dir" \/ Target(s) \in theirs.dst
    /\ UNCHANGED <<chosen, allowed, theirs>>

\* Another program changes an object, each at most once.
Disturb ==
    /\ theirs' # theirs
    /\ theirs.src \subseteq theirs'.src /\ theirs.dst \subseteq theirs'.dst
    /\ \A s \in Sources \ (theirs'.src \ theirs.src) : src'[s] = src[s]
    /\ \A t \in Targets \ (theirs'.dst \ theirs.dst) : dst'[t] = dst[t]
    /\ UNCHANGED <<chosen, allowed>>

Next == (\E s \in Sources : Agree(s)) \/ AnswerForAll \/ Carry \/ Disturb

Spec == Init /\ [][Next]_vars

=============================================================================
