------------------------------ MODULE Timeline ------------------------------
(* What the user of a filer window is promised by its Back and Forward       *)
(* buttons: a line of visited directories and a place on it. Moving along    *)
(* the line does not change it; going somewhere new cuts off what lies       *)
(* ahead; the line behind the place holds at most Limit directories.         *)
(* A directory that a drag opened in the window replaces the present one     *)
(* without being recorded; where that leaves the present directory equal to  *)
(* a neighbour, the next move may merge the two.                             *)
EXTENDS Naturals, Sequences, SequencesExt

CONSTANTS Dirs, Limit

VARIABLES visits, here

lineVars == <<visits, here>>

Present == visits[here]

\* The line up to the present directory, which is left out where it only
\* repeats the one before it.
Behind == SubSeq(visits, 1,
                 IF here > 1 /\ visits[here - 1] = Present THEN here - 1 ELSE here)

\* The newest Limit entries of a line.
Newest(line) ==
    IF Len(line) > Limit THEN SubSeq(line, Len(line) - Limit + 1, Len(line)) ELSE line

Start(d) == visits = <<d>> /\ here = 1

Init == \E d \in Dirs : Start(d)

Visit(d) ==
    /\ d # Present
    /\ visits' = Append(Newest(Behind), d)
    /\ here' = Len(visits')

Back ==
    /\ here > 1
    /\ here' = here - 1
    /\ visits' = IF here < Len(visits) /\ visits[here + 1] = Present
                   THEN RemoveAt(visits, here) ELSE visits

Forward ==
    /\ here < Len(visits)
    /\ IF here > 1 /\ visits[here - 1] = Present
         THEN visits' = RemoveAt(visits, here) /\ here' = here
         ELSE here' = here + 1 /\ UNCHANGED visits

Replace(d) == visits' = [visits EXCEPT ![here] = d] /\ UNCHANGED here

\* The window is closed, and another one opened.
Restart == \E d \in Dirs : visits' = <<d>> /\ here' = 1

Next ==
    \/ \E d \in Dirs : Visit(d) \/ Replace(d)
    \/ Back \/ Forward
    \/ Restart

Spec == Init /\ [][Next]_lineVars
=============================================================================
