------------------------------- MODULE Action -------------------------------
(***************************************************************************)
(* A file operation of ROX-Filer (src/ROX-Filer/src/action.c): the process *)
(* that does the work (the child), the filer with the action window that   *)
(* shows it (the parent, action.c and abox.c), the two pipes between them  *)
(* and the user.                                                           *)
(*                                                                         *)
(* The child writes messages, the parent single characters: an answer to   *)
(* the question it is asked, the toggle of a flag, or 'X' when it has      *)
(* closed the windows that keep a file system busy.  Nothing numbers them: *)
(* that a character is read as what it was meant for depends on who writes *)
(* when.  What is done to each item is one step here; CopyMove and the     *)
(* file system are left out.                                               *)
(***************************************************************************)
EXTENDS Integers, Sequences, FiniteSets

CONSTANTS
    Jobs,               \* sequences of kinds of items, one for an operation
    Policies,           \* conflict policies the user can start it with
    MaxToggles,         \* how often check boxes are toggled (bound)
    MaxAborts           \* how often Cancel is pressed while it runs (bound)

Kinds == {"plain", "protected",      \* files to delete: writable or not
          "mount", "unmount",        \* do_mount() and do_eject() (as unmount)
          "new", "conflict"}         \* to copy: the destination is free or not

PolicyNames == {"ask", "replace", "skip", "newer"}

\* The kinds of items that one operation has to do with.
Operations == {{"plain", "protected"}, {"mount"}, {"unmount"}, {"new", "conflict"}}

ASSUME JobsAssumption ==
    <<>> \notin Jobs /\ \A j \in Jobs : \E kinds \in Operations : j \in Seq(kinds)
ASSUME PoliciesAssumption == Policies \subseteq PolicyNames
ASSUME BoundsAssumption   == MaxToggles \in Nat /\ MaxAborts \in Nat

VARIABLES
    job,                \* the items of the operation
    \* the parent: struct _GUIside and its ABox
    window,             \* "open", "report" (finished, with errors) or "closed"
    question,           \* the question displayed: a message, or NoQuestion
    boxes,              \* the Quiet and Force check boxes
    log,                \* the log is shown: always, or when Details is checked
    aborts,             \* abort_attempts
    errors,             \* some error has been counted
    \* the pipes
    toParent, toChild,
    \* the child
    pc,                 \* where it is in the current item; "dead" after exit
    item,               \* index of the current item
    flags,              \* its copies of the flags: quiet and o_force
    policy,             \* conflict_policy
    signal,             \* sent to it and not yet taken: "none", "term", "kill"
    \* history
    toggles,            \* how often a check box was toggled by the user
    seen,               \* the settings of Quiet and Force there have been
    chosen,             \* the policy it was started with
    clicked,            \* for each item, the answer the user gave, or "-"
    heard,              \* for each item, the answer the child read, or "-"
    worked,             \* items the child has worked on
    closed,             \* items whose windows the parent has closed
    misread,            \* for each item, what was read for its 'X', or "-"
    failed,             \* the child has met an error
    dropped             \* a report of one was too long to be sent

parentVars  == <<window, question, boxes, log, aborts, errors>>
childVars   == <<pc, item, flags, policy>>
historyVars == <<toggles, seen, chosen, clicked, heard, worked, closed, misread,
                 failed, dropped>>
vars == <<job, parentVars, toParent, toChild, childVars, signal, historyVars>>

Flags   == {"Q", "F"}
Answers == {"Y", "N", "A", "S"}
Characters == Flags \cup Answers \cup {"D", "X"}    \* "D": Details was toggled

\* Messages whose type decides what the parent does; log lines, percentages,
\* and what is only displayed are left out.
Message == [type: {"?", "C", "X", "!", "changed", "D"}, item: Nat]

NoQuestion == [type |-> "D", item |-> 0]

TypeOK ==
    /\ job \in Seq(Kinds)
    /\ window \in {"open", "report", "closed"}
    /\ question \in Message
    /\ boxes \in [Flags -> BOOLEAN]
    /\ log \in BOOLEAN
    /\ aborts \in Nat
    /\ errors \in BOOLEAN
    /\ toParent \in Seq(Message)
    /\ toChild \in Seq(Characters)
    /\ pc \in {"start", "asking", "handshake", "work", "dead"}
    /\ item \in Nat
    /\ flags \in [Flags -> BOOLEAN]
    /\ policy \in PolicyNames
    /\ signal \in {"none", "term", "kill"}
    /\ toggles \in Nat
    /\ seen \subseteq [Flags -> BOOLEAN]
    /\ chosen \in PolicyNames
    /\ clicked \in [1..Len(job) -> Answers \cup {"-"}]
    /\ heard \in [1..Len(job) -> Answers \cup {"-"}]
    /\ worked \subseteq 1..Len(job)
    /\ closed \subseteq 1..Len(job)
    /\ misread \in [1..Len(job) -> Characters \cup {"-"}]
    /\ failed \in BOOLEAN /\ dropped \in BOOLEAN

\* abox_set_operation_animation(): deleting, copying and moving show an
\* animation and hide the log behind the check box Details.
HasDetails == \A i \in 1..Len(job) : job[i] \notin {"mount", "unmount"}

\* start_action(): the child starts with the state of the check boxes, and with
\* the policy that choose_conflict_policy() has asked for if there is a conflict.
Init ==
    /\ job \in Jobs
    /\ window = "open" /\ question = NoQuestion
    /\ boxes \in [Flags -> BOOLEAN]
    /\ log = ~HasDetails
    /\ aborts = 0 /\ errors = FALSE
    /\ toParent = <<>> /\ toChild = <<>>
    /\ pc = "start" /\ item = 1
    /\ flags = boxes
    /\ policy \in IF \E i \in 1..Len(job) : job[i] = "conflict" THEN Policies
                 ELSE {"replace"}
    /\ signal = "none"
    /\ toggles = 0 /\ seen = {boxes} /\ chosen = policy
    /\ clicked = [i \in 1..Len(job) |-> "-"]
    /\ heard = [i \in 1..Len(job) |-> "-"]
    /\ worked = {} /\ closed = {}
    /\ misread = [i \in 1..Len(job) |-> "-"]
    /\ failed = FALSE /\ dropped = FALSE

QuietOn == flags["Q"]
ForceOn == flags["F"]
Kind  == job[item]
Toggled(f, c) == [f EXCEPT ![c] = ~@]

-----------------------------------------------------------------------------
(* The child.                                                              *)

\* Mutant of Send: the character that says what the message is is left out.
SendUntyped(type) == toParent' = Append(toParent, [type |-> "", item |-> item])

Send(type) == toParent' = Append(toParent, [type |-> type, item |-> item])

NextItem == pc' = "start" /\ item' = item + 1

\* process_flag() of the first character: an unknown one, as 'D' is, is reported.
ProcessFlag ==
    /\ IF Head(toChild) \in Flags
       THEN flags' = Toggled(flags, Head(toChild)) /\ UNCHANGED <<toParent, failed>>
       ELSE Send("!") /\ failed' = TRUE /\ UNCHANGED flags
    /\ toChild' = Tail(toChild)

\* check_flags(), at the start of every item, reads all there is.
CheckFlags ==
    /\ pc = "start" /\ item <= Len(job)
    /\ toChild # <<>>
    /\ ProcessFlag
    /\ UNCHANGED <<job, parentVars, pc, item, policy, signal, toggles, seen,
                   chosen, clicked, heard, worked, closed, misread, dropped>>

\* Mutant of AsksPlain: Quiet is enough for a write protected file.
AsksUnlessQuiet == Kind # "conflict" /\ ~QuietOn

\* Must the user be asked?  do_delete(), do_mount(), do_copy2() and their
\* printf_reply() or printf_conflict_reply().
AsksPlain ==
    \/ Kind \in {"plain", "mount", "unmount", "new"} /\ ~QuietOn
    \/ Kind = "protected" /\ (~ForceOn \/ ~QuietOn)

AsksConflict == Kind = "conflict" /\ policy = "ask"

\* With these policies an existing destination stays as it is: always, or
\* unless the source is newer.
MaySkip == Kind = "conflict" /\ policy \in {"skip", "newer"}
MayReplace == Kind = "conflict" => policy \in {"replace", "newer"}

StartItem == pc = "start" /\ item <= Len(job) /\ toChild = <<>>

Ask ==
    /\ StartItem
    /\ \/ AsksPlain /\ Send("?")
       \/ AsksConflict /\ Send("C")
    /\ pc' = "asking"
    /\ UNCHANGED <<job, parentVars, toChild, item, flags, policy, signal,
                   historyVars>>

Skip ==
    /\ StartItem
    /\ MaySkip
    /\ NextItem
    /\ UNCHANGED <<job, parentVars, toParent, toChild, flags, policy, signal,
                   historyVars>>

\* Mutant of Proceed: the child does not wait for the windows to be closed.
ProceedAtOnce ==
    /\ pc' = "work"
    /\ IF Kind = "unmount" THEN Send("X") ELSE UNCHANGED toParent

\* The item is to be worked on: an unmount first asks the filer to close the
\* windows on the file system.
Proceed ==
    IF Kind = "unmount"
    THEN pc' = "handshake" /\ Send("X")
    ELSE pc' = "work" /\ UNCHANGED toParent

GoAhead ==
    /\ StartItem
    /\ ~AsksPlain /\ MayReplace
    /\ Proceed
    /\ UNCHANGED <<job, parentVars, toChild, item, flags, policy, signal,
                   historyVars>>

\* The answers that the loop of printf_reply() or printf_conflict_reply() knows
Understood == IF AsksConflict THEN Answers ELSE {"Y", "N"}

ReadAnswer ==
    /\ pc = "asking"
    /\ toChild # <<>> /\ Head(toChild) \in Understood
    /\ toChild' = Tail(toChild)
    /\ heard' = [heard EXCEPT ![item] = Head(toChild)]
    /\ policy' = CASE Head(toChild) = "A" -> "replace"
                   [] Head(toChild) = "S" -> "skip"
                   [] OTHER               -> policy
    /\ IF Head(toChild) \in {"Y", "A"} THEN Proceed /\ UNCHANGED item
       ELSE NextItem /\ UNCHANGED toParent
    /\ UNCHANGED <<job, parentVars, flags, signal, toggles, seen, chosen, clicked,
                   worked, closed, misread, failed, dropped>>

\* Any other character read while it waits for the answer.
ReadFlag ==
    /\ pc = "asking"
    /\ toChild # <<>> /\ Head(toChild) \notin Understood
    /\ ProcessFlag
    /\ UNCHANGED <<job, parentVars, pc, item, policy, signal, toggles, seen,
                   chosen, clicked, heard, worked, closed, misread, dropped>>

\* do_mount() and do_eject() read one character; if it is not 'X' they return.
Handshake ==
    /\ pc = "handshake"
    /\ toChild # <<>>
    /\ toChild' = Tail(toChild)
    /\ IF Head(toChild) = "X"
       THEN pc' = "work" /\ UNCHANGED <<item, misread>>
       ELSE NextItem /\ misread' = [misread EXCEPT ![item] = Head(toChild)]
    /\ UNCHANGED <<job, parentVars, toParent, flags, policy, signal, toggles, seen,
                   chosen, clicked, heard, worked, closed, failed, dropped>>

\* A report that holds all that rsync, cp, mv, mount, umount or eject has
\* written on stderr: send_msg() drops a message of 0xffff bytes or more.
ReportTooLong ==
    /\ Kind \notin {"plain", "protected"}
    /\ dropped' = TRUE
    /\ UNCHANGED toParent

Work ==
    /\ pc = "work"
    /\ worked' = worked \cup {item}
    /\ \/ Send("changed") /\ UNCHANGED <<failed, dropped>>
       \/ /\ failed' = TRUE
          /\ \/ Send("!") /\ UNCHANGED dropped
             \/ ReportTooLong
    /\ NextItem
    /\ UNCHANGED <<job, parentVars, toChild, flags, policy, signal, toggles, seen,
                   chosen, clicked, heard, closed, misread>>

\* The function of the operation returns: the child says so and exits.
Done ==
    /\ pc = "start" /\ item > Len(job)
    /\ Send("D")
    /\ pc' = "dead"
    /\ UNCHANGED <<job, parentVars, toChild, item, flags, policy, signal,
                   historyVars>>

\* A signal ends the child, wherever it is.
Die ==
    /\ pc # "dead" /\ signal # "none"
    /\ pc' = "dead"
    /\ UNCHANGED <<job, parentVars, toParent, toChild, item, flags, policy,
                   signal, historyVars>>

-----------------------------------------------------------------------------
(* The parent: callbacks of its main loop.                                 *)

\* Mutant of HideQuestion: the buttons can be pressed again.
KeepQuestion == UNCHANGED question

\* The answer buttons become insensitive: response() in abox.c, abox_cancel_ask().
HideQuestion == question' = NoQuestion

\* finish_action()
Finish ==
    /\ window' = IF errors THEN "report" ELSE "closed"
    /\ HideQuestion
    /\ toChild' = <<>>

\* Mutant of CloseWindows: the child is not told.
CloseWindowsSilently(i) == closed' = closed \cup {i} /\ UNCHANGED toChild

\* The characters that leave the parent; a child that is dead reads none.
Write(s) == toChild' = IF pc = "dead" THEN toChild ELSE toChild \o s

\* abox_log() of a question or an error checks Details, if that is there and is
\* not checked; flag_toggled() then writes its character.
OpenLog ==
    /\ log' = TRUE
    /\ IF log THEN UNCHANGED toChild ELSE Write(<<"D">>)

\* filer_close_recursive(), "Let child know it's safe to continue..."
CloseWindows(i) == closed' = closed \cup {i} /\ toChild' = Append(toChild, "X")

\* message_from_child(), process_message()
Receive ==
    /\ window = "open"
    /\ toParent # <<>>
    /\ LET m == Head(toParent) IN
         \/ /\ m.type = "D"
            /\ Finish
            /\ UNCHANGED <<log, errors, closed>>
         \/ /\ m.type \in {"?", "C"}
            /\ OpenLog
            /\ question' = m
            /\ UNCHANGED <<window, errors, closed>>
         \/ /\ m.type = "X"
            /\ CloseWindows(m.item)
            /\ UNCHANGED <<window, question, log, errors>>
         \/ /\ m.type = "!"
            /\ errors' = TRUE
            /\ OpenLog
            /\ UNCHANGED <<window, question, closed>>
         \/ /\ m.type = "changed"
            /\ UNCHANGED <<window, question, log, toChild, errors, closed>>
    /\ toParent' = Tail(toParent)
    /\ UNCHANGED <<job, boxes, aborts, childVars, signal, toggles, seen, chosen,
                   clicked, heard, worked, misread, failed, dropped>>

\* Mutant of ReceiveEOF: the exit of the child ends the operation even if
\* messages of it are still to be read.
ReceiveEOFEarly ==
    /\ window = "open"
    /\ pc = "dead"
    /\ Finish
    /\ log' = (log \/ aborts > 0)
    /\ UNCHANGED <<job, boxes, aborts, errors, toParent, childVars, signal,
                   historyVars>>

\* Mutant of ReceiveEOF: only the message D ends the operation.
ReceiveEOFUnlessAborted ==
    /\ window = "open"
    /\ pc = "dead" /\ toParent = <<>>
    /\ aborts = 0
    /\ Finish
    /\ log' = (log \/ aborts > 0)
    /\ UNCHANGED <<job, boxes, aborts, errors, toParent, childVars, signal,
                   historyVars>>

\* Reading fails: the child has closed the pipe and all messages are read.
ReceiveEOF ==
    /\ window = "open"
    /\ pc = "dead" /\ toParent = <<>>
    /\ Finish
    /\ log' = (log \/ aborts > 0)
    /\ UNCHANGED <<job, boxes, aborts, errors, toParent, childVars, signal,
                   historyVars>>

\* response() in action.c and in abox.c: for a conflict the user may choose to
\* have the answer applied to all.  RESPONSE_QUIET toggles Quiet first.
Answer(yes, all, quiet) ==
    /\ question # NoQuestion
    /\ all => question.type = "C"
    /\ quiet => yes /\ ~boxes["Q"]
    /\ LET c == IF all THEN IF yes THEN "A" ELSE "S"
                       ELSE IF yes THEN "Y" ELSE "N"
       IN  /\ clicked' = [clicked EXCEPT ![question.item] = c]
           /\ Write(IF quiet THEN <<"Q", c>> ELSE <<c>>)
    /\ boxes' = IF quiet THEN Toggled(boxes, "Q") ELSE boxes
    /\ seen' = seen \cup {boxes'}
    /\ HideQuestion
    /\ UNCHANGED <<job, window, log, aborts, errors, toParent, childVars, signal,
                   toggles, chosen, heard, worked, closed, misread, failed, dropped>>

\* Mutant of ToggleFlag: the character is written only while a question is open.
ToggleFlagUnsent(f) ==
    /\ window = "open"
    /\ toggles < MaxToggles
    /\ toggles' = toggles + 1
    /\ boxes' = Toggled(boxes, f)
    /\ seen' = seen \cup {boxes'}
    /\ IF question # NoQuestion THEN Write(<<f>>) ELSE UNCHANGED toChild
    /\ UNCHANGED <<job, window, question, log, aborts, errors, toParent, childVars,
                   signal, chosen, clicked, heard, worked, closed, misread, failed,
                   dropped>>

\* flag_toggled(): the check boxes are never insensitive.
ToggleFlag(f) ==
    /\ window = "open"
    /\ toggles < MaxToggles
    /\ toggles' = toggles + 1
    /\ boxes' = Toggled(boxes, f)
    /\ seen' = seen \cup {boxes'}
    /\ Write(<<f>>)
    /\ UNCHANGED <<job, window, question, log, aborts, errors, toParent, childVars,
                   signal, chosen, clicked, heard, worked, closed, misread, failed,
                   dropped>>

\* flag_toggled() of Details: the child is told as it is told of the flags.
ToggleDetails ==
    /\ window = "open" /\ HasDetails
    /\ toggles < MaxToggles
    /\ toggles' = toggles + 1
    /\ log' = ~log
    /\ Write(<<"D">>)
    /\ UNCHANGED <<job, window, question, boxes, aborts, errors, toParent, childVars,
                   signal, seen, chosen, clicked, heard, worked, closed, misread,
                   failed, dropped>>

\* Mutant of Abort: the window goes at once.
AbortAtOnce ==
    /\ window = "open"
    /\ aborts < MaxAborts
    /\ aborts' = aborts + 1
    /\ signal' = IF aborts = 0 THEN "term" ELSE "kill"
    /\ log' = TRUE
    /\ Finish
    /\ UNCHANGED <<job, boxes, errors, toParent, childVars, historyVars>>

\* Mutant of Abort: the second press does what the first one did.
AbortGently ==
    /\ window = "open"
    /\ aborts < MaxAborts
    /\ aborts' = aborts + 1
    /\ OpenLog
    /\ signal' = "term"
    /\ UNCHANGED <<job, window, question, boxes, errors, toParent, childVars,
                   historyVars>>

\* abort_operation(), while the child is not known to have finished
Abort ==
    /\ window = "open"
    /\ aborts < MaxAborts
    /\ aborts' = aborts + 1
    /\ OpenLog
    /\ signal' = IF aborts = 0 THEN "term" ELSE "kill"
    /\ UNCHANGED <<job, window, question, boxes, errors, toParent, childVars,
                   historyVars>>

\* abort_operation(), destroy_action_window(): the report is put away.
CloseReport ==
    /\ window = "report"
    /\ window' = "closed"
    /\ UNCHANGED <<job, question, boxes, log, aborts, errors, toParent, toChild,
                   childVars, signal, historyVars>>

-----------------------------------------------------------------------------
Child  == CheckFlags \/ Ask \/ Skip \/ GoAhead \/ ReadAnswer \/ ReadFlag
          \/ Handshake \/ Work \/ Done \/ Die

Parent == Receive \/ ReceiveEOF

User   == \/ \E yes, all, quiet \in BOOLEAN : Answer(yes, all, quiet)
          \/ \E f \in Flags : ToggleFlag(f)
          \/ ToggleDetails \/ Abort \/ CloseReport

Next == Child \/ Parent \/ User

Spec == Init /\ [][Next]_vars

\* The child runs and the main loop serves the pipe; a signal the child can
\* catch may be long in coming into effect, SIGKILL may not.  Nothing is
\* assumed of the user.
FairSpec ==
    /\ Spec
    /\ WF_vars(Child /\ ~Die)
    /\ WF_vars(Die /\ signal = "kill")
    /\ WF_vars(Parent)

-----------------------------------------------------------------------------
(* Properties.                                                             *)

Count(s, S) == Cardinality({k \in DOMAIN s : s[k] \in S})

Questions == Cardinality({k \in DOMAIN toParent : toParent[k].type \in {"?", "C"}})

MisreadAs(c) == {i \in 1..Len(job) : misread[i] = c}

\* A child that waits for an answer has exactly one question on its way, on
\* display or answered, and it is about its current item; otherwise there is
\* none.  So an answer is never read for another question (printf_reply(),
\* abox_ask(), response()).  And a flag of the child differs from its check
\* box exactly while an odd number of its toggles is on the way or was taken by
\* do_mount() or do_eject() for an acknowledgement.
OnePipe ==
    window = "open" /\ pc # "dead" =>
        /\ Questions + (IF question # NoQuestion THEN 1 ELSE 0) +
             Count(toChild, Answers) = (IF pc = "asking" THEN 1 ELSE 0)
        /\ question # NoQuestion => question.item = item
        /\ "C" = question.type => Kind = "conflict"
        /\ \A f \in Flags :
             flags[f] # boxes[f] <=>
               (Count(toChild, {f}) + Cardinality(MisreadAs(f))) % 2 = 1

\* What an item needs that is worked on without a question: Quiet, and for a
\* write protected file Force at the same time, as the check boxes were set at
\* some moment; for a conflict a policy it was started with or an answer for all.
Permitted(i) ==
    CASE job[i] = "protected" -> \E s \in seen : s["Q"] /\ s["F"]
      [] job[i] = "conflict"  -> \/ chosen \in {"replace", "newer"}
                                 \/ \E j \in 1..(i - 1) : clicked[j] = "A"
      [] OTHER                -> \E s \in seen : s["Q"]

\* What the child does to an item is what the user answered when asked about
\* it, whatever is toggled while the answer is on its way, and what nobody was
\* asked about is done only if check boxes or policy permit it (do_delete(),
\* printf_reply(), printf_conflict_reply()).
Obeyed ==
    \A i \in 1..Len(job) :
        /\ heard[i] # "-" => heard[i] = clicked[i]
        /\ i \in worked =>
             IF clicked[i] = "-" THEN Permitted(i) ELSE clicked[i] \in {"Y", "A"}
        /\ clicked[i] \in {"A", "S"} =>
             \A j \in (i + 1)..Len(job) : job[j] = "conflict" =>
                 clicked[j] = "-" /\ (j \in worked => clicked[i] = "A")

\* "Need to close all sub-directories now, or we can't unmount" and "Wait until
\* it's safe...": the windows are closed before the unmount is tried.
UnmountIsSafe == \A i \in worked : job[i] = "unmount" => i \in closed

\* What do_mount() and do_eject() do of that: an item for which something else
\* was read is given up, and an unmount is tried before its windows are closed
\* only after that has happened to an earlier item, whose 'X' it then reads.
ClosedOrOutOfStep ==
    \A i \in worked :
        /\ misread[i] = "-"
        /\ job[i] = "unmount" =>
             i \in closed \/ \E j \in 1..(i - 1) : misread[j] # "-"

\* The window forgets the process only when there is nothing it could still do.
NoOrphan == window # "open" => pc = "dead"

\* The window goes by itself only if no error was met, or if the report of one
\* was longer than send_msg() sends: "The explicit completion message is sent
\* after every previous log, refresh and error message".
ErrorsAreShown == failed /\ window # "open" => errors \/ dropped

\* The parent notices the end of the child.
EndIsNoticed == pc = "dead" ~> window # "open"

\* Whatever the child waits for, an operation that is cancelled twice ends.
CancelWorks == aborts > 1 ~> window # "open"

\* The child is never stuck but for the user: it waits only while a question is
\* on display.
OnlyTheUserIsWaitedFor ==
    []<>(pc = "dead" \/ question # NoQuestion)

=============================================================================
