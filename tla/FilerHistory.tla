---------------------------- MODULE FilerHistory ----------------------------
(* The Back and Forward lists of a filer window (filer.c), and every way in  *)
(* which the window's directory changes: filer_change_to() called by the     *)
(* user's navigation (a click, the parent, home, a bookmark, a typed path, a *)
(* group, a remote call), by Back and Forward themselves, and by a drag that *)
(* hovers over a directory in the window (dnd.c, spring_in_progress).        *)
(*                                                                           *)
(* Paths are compared after tidy_sympath(), so a directory of the model is a *)
(* tidied sym_path. What else filer_change_to() does is in FilerWindows.     *)
EXTENDS Naturals, Sequences, SequencesExt

CONSTANTS
    Dirs,       \* the directories (tidied paths)
    Limit       \* FILER_HISTORY_LIMIT

ASSUME LimitAssumption == Limit \in Nat \ {0}

VARIABLES
    history_back,       \* newest first, as the GList
    history_forward,    \* nearest first
    sym_path,           \* the directory shown
    sprung              \* ghost: a drag has changed the window's directory

vars == <<history_back, history_forward, sym_path, sprung>>

-----------------------------------------------------------------------------
(* filer_history_push()                                                      *)

IsTop(list, d) == list # <<>> /\ Head(list) = d

Push(list, d) ==
    LET longer == <<d>> \o list
    IN  IF IsTop(list, d) THEN list
        ELSE IF Len(longer) <= Limit THEN longer ELSE Front(longer)

-----------------------------------------------------------------------------
(* filer_change_to(), as far as the lists go                                 *)

\* Mutant of Visit: the branch ahead is kept.
VisitKeepingForward(d) ==
    /\ sym_path' = d
    /\ UNCHANGED <<history_forward, sprung>>
    /\ IF d # sym_path
         THEN history_back' = Push(history_back, sym_path)
         ELSE UNCHANGED history_back

\* Mutant of Visit: going to the directory already shown is recorded too.
VisitRecordingAll(d) ==
    /\ sym_path' = d
    /\ history_back' = Push(history_back, sym_path)
    /\ history_forward' = <<>>
    /\ UNCHANGED sprung

\* The user goes to d: recorded, and the branch ahead dropped, unless d is
\* the directory already shown.
Visit(d) ==
    /\ sym_path' = d
    /\ UNCHANGED sprung
    /\ IF d # sym_path
         THEN /\ history_back' = Push(history_back, sym_path)
              /\ history_forward' = <<>>
         ELSE UNCHANGED <<history_back, history_forward>>

\* spring_now(): the window follows a drag into d, unrecorded.
SpringTo(d) ==
    /\ sym_path' = d
    /\ sprung' = TRUE
    /\ UNCHANGED <<history_back, history_forward>>

-----------------------------------------------------------------------------
(* filer_history_go(): the target is taken off its list, the directory shown *)
(* pushed on the other, and filer_change_to() called with                    *)
(* history_navigation set, which records nothing.                            *)

\* Mutant of Back: the directory shown is not kept for Forward.
BackOneWay ==
    /\ history_back # <<>>
    /\ history_back' = Tail(history_back)
    /\ sym_path' = Head(history_back)
    /\ UNCHANGED <<history_forward, sprung>>

Back ==
    /\ history_back # <<>>
    /\ history_back' = Tail(history_back)
    /\ history_forward' = Push(history_forward, sym_path)
    /\ sym_path' = Head(history_back)
    /\ UNCHANGED sprung

Forward ==
    /\ history_forward # <<>>
    /\ history_forward' = Tail(history_forward)
    /\ history_back' = Push(history_back, sym_path)
    /\ sym_path' = Head(history_forward)
    /\ UNCHANGED sprung

-----------------------------------------------------------------------------
(* A window begins with empty lists (filer_opendir()) and frees them when it *)
(* is destroyed; Reopen is a window closed and another one opened, by the    *)
(* user or by a drag.                                                        *)

Fresh(d) ==
    /\ history_back = <<>>
    /\ history_forward = <<>>
    /\ sym_path = d

Init == sprung = FALSE /\ \E d \in Dirs : Fresh(d)

Reopen(d) ==
    /\ history_back' = <<>>
    /\ history_forward' = <<>>
    /\ sym_path' = d
    /\ sprung' = FALSE

Next ==
    \/ \E d \in Dirs : Visit(d) \/ SpringTo(d) \/ Reopen(d)
    \/ Back
    \/ Forward

Spec == Init /\ [][Next]_vars

-----------------------------------------------------------------------------
(* Properties                                                                *)

\* The lists are sequences of directories.
TypeOK ==
    /\ history_back \in Seq(Dirs)
    /\ history_forward \in Seq(Dirs)
    /\ sym_path \in Dirs
    /\ sprung \in BOOLEAN

\* No list holds the same directory twice running.
NoRepeats(list) == \A i \in 1..(Len(list) - 1) : list[i] # list[i + 1]

\* The two lists together never hold more than Limit directories
\* (README.md: "History is limited to 100 paths per window"), so a push of
\* Back or Forward never has to throw one away.
WithinLimit == Len(history_back) + Len(history_forward) <= Limit

\* Back and Forward always take the window somewhere else, unless a drag has
\* put it where it would go.
EveryMoveMoves ==
    /\ NoRepeats(history_back)
    /\ NoRepeats(history_forward)
    /\ ~sprung => ~IsTop(history_back, sym_path) /\ ~IsTop(history_forward, sym_path)

\* Back and Forward move along one line of visited directories and never
\* change it: the two lists and the directory shown are that line.
Line == INSTANCE Timeline
          WITH visits <- Reverse(history_back) \o <<sym_path>> \o history_forward,
               here <- Len(history_back) + 1

IsATimeline == Line!Spec
=============================================================================
