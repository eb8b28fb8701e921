---------------------------- MODULE ActionProofs ----------------------------
(***************************************************************************)
(* Theorems about Action: how an operation ends, for every operation and   *)
(* any number of toggles and aborts.                                       *)
(***************************************************************************)
EXTENDS Action, FiniteSetTheorems, TLAPS

\* What the messages still to be read say about the child: D is the last one,
\* and an error that has not been counted is among them or was too long to be sent.
Ending ==
    /\ toParent \in Seq(Message)
    /\ item \in Nat
    /\ errors \in BOOLEAN
    /\ window \in {"open", "report", "closed"}
    /\ NoOrphan
    /\ \A k \in 1..Len(toParent) :
         toParent[k].type = "D" => pc = "dead" /\ k = Len(toParent)
    /\ failed /\ ~errors /\ ~dropped =>
         window = "open" /\ \E k \in 1..Len(toParent) : toParent[k].type = "!"

\* A step of the child that sends a message keeps what Ending says.
LEMMA SendKeepsEnding ==
    ASSUME Ending, pc # "dead", NEW type \in {"?", "C", "X", "!", "changed", "D"},
           Send(type), type = "D" => pc' = "dead",
           failed' => failed \/ type = "!", item' \in Nat,
           UNCHANGED <<window, errors, dropped>>
    PROVE  Ending'
  <1> DEFINE m == [type |-> type, item |-> item]
  <1>1. m \in Message /\ toParent \in Seq(Message) /\ toParent' = Append(toParent, m)
    BY DEF Message, Ending, Send
  <1>2. /\ toParent' \in Seq(Message)
        /\ Len(toParent') = Len(toParent) + 1
        /\ \A k \in 1..Len(toParent) : toParent'[k] = toParent[k]
        /\ toParent'[Len(toParent')] = m
        /\ Len(toParent) \in Nat
    BY <1>1
  <1>3. window = "open"
    BY DEF Ending, NoOrphan
  <1>4. \A k \in 1..Len(toParent) : toParent[k].type # "D"
    BY DEF Ending
  <1>5. \A k \in 1..Len(toParent') :
           toParent'[k].type = "D" => pc' = "dead" /\ k = Len(toParent')
    <2> SUFFICES ASSUME NEW k \in 1..Len(toParent'), toParent'[k].type = "D"
                 PROVE  pc' = "dead" /\ k = Len(toParent')
      OBVIOUS
    <2>1. k = Len(toParent')
      BY <1>2, <1>4
    <2> QED BY <1>2, <2>1
  <1>6. failed' /\ ~errors' /\ ~dropped' => \E k \in 1..Len(toParent') : toParent'[k].type = "!"
    <2>1. CASE type = "!"
      <3>1. Len(toParent') \in 1..Len(toParent') /\ toParent'[Len(toParent')].type = "!"
        BY <1>2, <2>1
      <3> QED BY <3>1
    <2>2. CASE failed /\ ~errors /\ ~dropped
      <3>1. PICK k \in 1..Len(toParent) : toParent[k].type = "!"
        BY <2>2 DEF Ending
      <3>2. k \in 1..Len(toParent') /\ toParent'[k].type = "!"
        BY <1>2, <3>1
      <3> QED BY <3>2
    <2> QED BY <2>1, <2>2
  <1> QED BY <1>2, <1>3, <1>5, <1>6 DEF Ending, NoOrphan

\* A step that sends nothing keeps it: the exit of the child, or a report that is
\* too long.
LEMMA QuietStepKeepsEnding ==
    ASSUME Ending, UNCHANGED <<toParent, window, errors>>, dropped => dropped',
           failed' => failed \/ dropped',
           pc = "dead" => pc' = "dead", item' \in Nat
    PROVE  Ending'
  BY DEF Ending, NoOrphan

\* The parent takes the first message.
LEMMA ReceiveKeepsEnding ==
    ASSUME Ending, Receive
    PROVE  Ending'
  <1> DEFINE m == Head(toParent)
  <1>1. /\ toParent \in Seq(Message) /\ toParent # <<>>
        /\ toParent' = Tail(toParent)
        /\ UNCHANGED <<pc, item, failed, dropped>>
        /\ window = "open"
    BY DEF Ending, Receive, childVars
  <1>2. /\ toParent' \in Seq(Message)
        /\ m = toParent[1] /\ m \in Message
        /\ Len(toParent) \in Nat /\ Len(toParent) >= 1
        /\ Len(toParent') = Len(toParent) - 1
        /\ \A k \in 1..Len(toParent') : toParent'[k] = toParent[k + 1]
    BY <1>1
  <1>3. \A k \in 1..Len(toParent') :
           toParent'[k].type = "D" => pc' = "dead" /\ k = Len(toParent')
    <2> SUFFICES ASSUME NEW k \in 1..Len(toParent'), toParent'[k].type = "D"
                 PROVE  pc' = "dead" /\ k = Len(toParent')
      OBVIOUS
    <2>1. k + 1 \in 1..Len(toParent) /\ toParent[k + 1].type = "D"
      BY <1>2
    <2>2. pc = "dead" /\ k + 1 = Len(toParent)
      BY <2>1 DEF Ending
    <2>3. k \in Nat /\ Len(toParent') = Len(toParent) - 1 /\ Len(toParent) \in Nat
      BY <1>2
    <2>4. k = Len(toParent')
      BY <2>2, <2>3
    <2>5. pc' = "dead"
      BY <1>1, <2>2
    <2> QED BY <2>4, <2>5
  <1>4. CASE m.type = "D"
    <2>1. pc = "dead" /\ Len(toParent) = 1
      BY <1>2, <1>4 DEF Ending
    <2>2. errors' = errors /\ window' = IF errors THEN "report" ELSE "closed"
      BY <1>4 DEF Receive, Finish
    <2>3. failed => errors \/ dropped
      <3> SUFFICES ASSUME failed, ~errors, ~dropped
                   PROVE  FALSE
        OBVIOUS
      <3>1. PICK k \in 1..Len(toParent) : toParent[k].type = "!"
        BY SMTT(40) DEF Ending
      <3> QED BY <1>2, <1>4, <2>1, <3>1
    <2> QED BY <1>1, <1>2, <1>3, <2>1, <2>2, <2>3 DEF Ending, NoOrphan
  <1>5. CASE m.type # "D"
    <2>1. window' = window /\ errors' \in BOOLEAN
      BY <1>5 DEF Receive, CloseWindows, Ending
    <2>3. (m.type = "!" => errors') /\ (errors => errors')
      BY <1>5 DEF Receive, CloseWindows, Ending
    <2>2. failed' /\ ~errors' /\ ~dropped' =>
             \E k \in 1..Len(toParent') : toParent'[k].type = "!"
      <3> SUFFICES ASSUME failed, ~errors, ~dropped, m.type # "!"
                   PROVE  \E k \in 1..Len(toParent') : toParent'[k].type = "!"
        BY <1>1, <2>3
      <3>1. PICK k \in 1..Len(toParent) : toParent[k].type = "!"
        BY DEF Ending
      <3>2. k # 1
        BY <1>2, <3>1
      <3>3. k - 1 \in 1..Len(toParent') /\ toParent'[k - 1].type = "!"
        BY <1>2, <3>1, <3>2
      <3> QED BY <3>3
    <2> QED BY <1>1, <1>2, <1>3, <2>1, <2>2 DEF Ending, NoOrphan
  <1> QED BY <1>4, <1>5

\* Nothing has been sent yet.
LEMMA InitEnding == Init => Ending
  <1> SUFFICES ASSUME Init
               PROVE  Ending
    OBVIOUS
  <1>1. /\ window = "open" /\ item = 1 /\ toParent = <<>>
        /\ ~failed /\ errors \in BOOLEAN
    BY DEF Init
  <1>2. toParent \in Seq(Message) /\ 1..Len(toParent) = {}
    BY <1>1
  <1> QED BY <1>1, <1>2 DEF Ending, NoOrphan

\* The strengthened invariant is inductive.
LEMMA NextEnding == Ending /\ [Next]_vars => Ending'
  <1> SUFFICES ASSUME Ending, [Next]_vars
               PROVE  Ending'
    OBVIOUS
  <1>0. item \in Nat /\ item + 1 \in Nat
    BY DEF Ending
  <1>1. ASSUME CheckFlags \/ ReadFlag
        PROVE  Ending'
    <2>1. /\ pc # "dead" /\ pc' = pc /\ item' = item
          /\ UNCHANGED <<window, errors, dropped>>
      BY <1>1 DEF CheckFlags, ReadFlag, parentVars
    <2>2. CASE UNCHANGED <<toParent, failed>>
      BY <1>0, <2>1, <2>2, QuietStepKeepsEnding
    <2>3. CASE Send("!") /\ failed' = TRUE
      BY <1>0, <2>1, <2>3, SendKeepsEnding
    <2> QED BY <1>1, <2>2, <2>3 DEF CheckFlags, ReadFlag, ProcessFlag
  <1>2. ASSUME Ask
        PROVE  Ending'
    <2>1. pc # "dead" /\ item' = item /\ failed' = failed
          /\ UNCHANGED <<window, errors, dropped>>
      BY <1>2 DEF Ask, StartItem, parentVars, historyVars
    <2>2. Send("?") \/ Send("C")
      BY <1>2 DEF Ask
    <2> QED BY <1>0, <2>1, <2>2, SendKeepsEnding
  <1>3. ASSUME Skip \/ Handshake \/ Die
        PROVE  Ending'
    <2>1. /\ UNCHANGED <<toParent, window, errors, failed, dropped>>
          /\ pc # "dead" /\ item' \in Nat
      BY <1>0, <1>3 DEF Skip, Handshake, Die, StartItem, NextItem, parentVars, historyVars
    <2> QED BY <2>1, QuietStepKeepsEnding
  <1>4. ASSUME GoAhead \/ ReadAnswer
        PROVE  Ending'
    <2>1. /\ UNCHANGED <<window, errors, failed, dropped>>
          /\ pc # "dead" /\ item' \in Nat
          /\ UNCHANGED toParent \/ Send("X")
      BY <1>0, <1>4 DEF GoAhead, ReadAnswer, StartItem, NextItem, Proceed, parentVars,
                        historyVars
    <2> QED BY <2>1, QuietStepKeepsEnding, SendKeepsEnding
  <1>5. ASSUME Work
        PROVE  Ending'
    <2>1. UNCHANGED <<window, errors>> /\ pc # "dead" /\ item' \in Nat
      BY <1>0, <1>5 DEF Work, NextItem, parentVars
    <2>2. \/ Send("changed") /\ UNCHANGED <<failed, dropped>>
          \/ Send("!") /\ failed' = TRUE /\ UNCHANGED dropped
          \/ UNCHANGED toParent /\ dropped' = TRUE
      BY <1>5 DEF Work, ReportTooLong
    <2> QED BY <2>1, <2>2, SendKeepsEnding, QuietStepKeepsEnding
  <1>6. ASSUME Done
        PROVE  Ending'
    <2>1. /\ UNCHANGED <<window, errors, failed, dropped>>
          /\ pc # "dead" /\ item' \in Nat /\ Send("D") /\ pc' = "dead"
      BY <1>0, <1>6 DEF Done, parentVars, historyVars
    <2> QED BY <2>1, SendKeepsEnding
  <1>7. ASSUME ReceiveEOF
        PROVE  Ending'
    <2>1. /\ pc = "dead" /\ toParent = <<>>
          /\ UNCHANGED <<toParent, errors, failed, dropped, pc, item>>
          /\ window' = IF errors THEN "report" ELSE "closed"
      BY <1>7 DEF ReceiveEOF, Finish, childVars, historyVars
    <2>2. failed => errors \/ dropped
      BY <2>1 DEF Ending
    <2> QED BY <2>1, <2>2 DEF Ending, NoOrphan
  <1>8. ASSUME \/ \E yes, all, quiet \in BOOLEAN : Answer(yes, all, quiet)
               \/ \E f \in Flags : ToggleFlag(f)
               \/ ToggleDetails \/ Abort
               \/ UNCHANGED vars
        PROVE  Ending'
    <2>1. UNCHANGED <<toParent, window, errors, failed, dropped, pc, item>>
      BY <1>8 DEF Answer, ToggleFlag, ToggleDetails, Abort, vars, parentVars, childVars, historyVars
    <2> QED BY <1>0, <2>1, QuietStepKeepsEnding
  <1>9. ASSUME CloseReport
        PROVE  Ending'
    BY <1>9 DEF CloseReport, Ending, NoOrphan, childVars, historyVars
  <1> QED
    BY <1>1, <1>2, <1>3, <1>4, <1>5, <1>6, <1>7, <1>8, <1>9, ReceiveKeepsEnding
    DEF Next, Child, Parent, User

\* The action window forgets its process only when that has nothing left to do:
\* finish_action() clears the pid, and abort_operation() could not stop a
\* process that is still at work.
THEOREM NothingIsOrphaned == Spec => []NoOrphan
  <1>1. Init => Ending
    BY InitEnding
  <1>2. Ending => NoOrphan
    BY DEF Ending
  <1> QED BY <1>1, <1>2, NextEnding, PTL DEF Spec

\* The window goes by itself only after every error has been counted, although
\* the exit of the child and its messages arrive on different ways, unless the
\* report of one was longer than send_msg() sends.
THEOREM NoErrorIsLost == Spec => []ErrorsAreShown
  <1>1. Init => Ending
    BY InitEnding
  <1>2. Ending => ErrorsAreShown
    BY DEF Ending, ErrorsAreShown
  <1> QED BY <1>1, <1>2, NextEnding, PTL DEF Spec

-----------------------------------------------------------------------------
(* What the parent and its child say to each other is understood as it was   *)
(* meant.                                                                    *)

-----------------------------------------------------------------------------
(* Counting in sequences                                                     *)

\* A count is a natural number, 0 if no element is in the set.
LEMMA CountIsNatural ==
    ASSUME NEW T, NEW s \in Seq(T), NEW S
    PROVE  /\ Count(s, S) \in Nat
           /\ Count(s, S) = 0 <=> \A k \in DOMAIN s : s[k] \notin S
           /\ IsFiniteSet({k \in DOMAIN s : s[k] \in S})
<1> DEFINE A == {k \in DOMAIN s : s[k] \in S}
<1>1. Len(s) \in Nat /\ DOMAIN s = 1..Len(s) /\ A \in SUBSET (1..Len(s))
  OBVIOUS
<1>2. IsFiniteSet(A)
  <2>1. IsFiniteSet(1..Len(s))
    BY <1>1, FS_Interval
  <2> HIDE DEF A
  <2> QED BY <1>1, <2>1, FS_Subset
<1>3. Cardinality(A) \in Nat /\ (Cardinality(A) = 0 <=> A = {})
  BY <1>2, FS_CardinalityType, FS_EmptySet
<1>4. A = {} <=> \A k \in DOMAIN s : s[k] \notin S
  OBVIOUS
<1>5. Count(s, S) = Cardinality(A)
  BY DEF Count
<1>6. Count(s, S) \in Nat /\ (Count(s, S) = 0 <=> \A k \in DOMAIN s : s[k] \notin S)
  <2> HIDE DEF A
  <2> QED BY <1>3, <1>4, <1>5
<1>7. IsFiniteSet({k \in DOMAIN s : s[k] \in S})
  BY <1>2
<1> QED BY <1>6, <1>7

\* Nothing is in an empty pipe.
LEMMA CountEmpty ==
    ASSUME NEW S
    PROVE  Count(<<>>, S) = 0
<1>1. {k \in DOMAIN <<>> : <<>>[k] \in S} = {}
  OBVIOUS
<1> QED BY <1>1, FS_EmptySet DEF Count

\* Writing into a pipe adds what is written.
LEMMA CountAppend ==
    ASSUME NEW T, NEW s \in Seq(T), NEW x \in T, NEW S
    PROVE  Count(Append(s, x), S) = Count(s, S) + (IF x \in S THEN 1 ELSE 0)
<1> DEFINE A == {k \in DOMAIN s : s[k] \in S}
           n == Len(s) + 1
           B == {k \in DOMAIN Append(s, x) : Append(s, x)[k] \in S}
<1>1. /\ Len(s) \in Nat /\ DOMAIN s = 1..Len(s) /\ DOMAIN Append(s, x) = 1..n
      /\ Append(s, x)[n] = x /\ \A k \in 1..Len(s) : Append(s, x)[k] = s[k]
  OBVIOUS
<1>2. IsFiniteSet(A) /\ n \notin A /\ Cardinality(A) \in Nat
  BY <1>1, CountIsNatural DEF Count
<1>3. B = IF x \in S THEN A \cup {n} ELSE A
  <2>1. \A k : k \in 1..n <=> k \in 1..Len(s) \/ k = n
    BY <1>1
  <2> QED BY <1>1, <2>1
<1>4. Cardinality(A \cup {n}) = Cardinality(A) + 1
  BY <1>2, FS_AddElement
<1>5. Cardinality(B) = Cardinality(A) + (IF x \in S THEN 1 ELSE 0)
  <2> HIDE DEF A, B, n
  <2> QED BY <1>2, <1>3, <1>4
<1> QED BY <1>5 DEF Count

\* Reading from a pipe takes away what is read.
LEMMA CountTail ==
    ASSUME NEW T, NEW s \in Seq(T), s # <<>>, NEW S
    PROVE  Count(s, S) = Count(Tail(s), S) + (IF Head(s) \in S THEN 1 ELSE 0)
<1> DEFINE A == {k \in DOMAIN s : s[k] \in S}
           B == {k \in DOMAIN Tail(s) : Tail(s)[k] \in S}
           f == [k \in B |-> k + 1]
<1>1. /\ Len(s) \in Nat /\ Len(s) >= 1 /\ DOMAIN s = 1..Len(s) /\ Head(s) = s[1]
      /\ Tail(s) \in Seq(T) /\ DOMAIN Tail(s) = 1..(Len(s) - 1)
      /\ \A k \in 1..(Len(s) - 1) : Tail(s)[k] = s[k + 1]
  OBVIOUS
<1>2. IsFiniteSet(A) /\ IsFiniteSet(B) /\ Cardinality(A) \in Nat /\ Cardinality(B) \in Nat
  BY <1>1, CountIsNatural DEF Count
<1>3. IsFiniteSet(A \ {1})
      /\ Cardinality(A \ {1}) = Cardinality(A) - (IF Head(s) \in S THEN 1 ELSE 0)
  <2>1. 1 \in A <=> Head(s) \in S
    BY <1>1
  <2> HIDE DEF A
  <2> QED BY <1>2, <2>1, FS_RemoveElement
<1>4. f \in Bijection(B, A \ {1})
  <2>1. f \in [B -> A \ {1}]
    BY <1>1
  <2>2. \A i, j \in B : f[i] = f[j] => i = j
    BY <1>1
  <2>3. ASSUME NEW k \in A \ {1}
        PROVE  \E i \in B : f[i] = k
    <3>1. k - 1 \in B
      BY <1>1
    <3>2. f[k - 1] = k
      BY <1>1, <3>1
    <3> QED BY <3>1, <3>2
  <2> HIDE DEF A, B, f
  <2> QED BY <2>1, <2>2, <2>3 DEF Bijection, Injection, Surjection, IsInjective
<1>5. Cardinality(A \ {1}) = Cardinality(B)
  <2> HIDE DEF A, B, f
  <2> QED BY <1>2, <1>4, FS_Bijection DEF ExistsBijection
<1>6. Cardinality(A) = Cardinality(B) + (IF Head(s) \in S THEN 1 ELSE 0)
  <2> HIDE DEF A, B
  <2> QED BY <1>2, <1>3, <1>5
<1> QED BY <1>6 DEF Count

-----------------------------------------------------------------------------
(* The invariants                                                            *)

Asked   == {m \in Message : m.type \in {"?", "C"}}
Closing == {m \in Message : m.type = "X"}
Displayed == IF question # NoQuestion THEN 1 ELSE 0

\* TypeOK and where the child is in its list; messages are about items in it,
\* and something else than 'X' has been read only for items to unmount.
Typed ==
    /\ TypeOK
    /\ \E kinds \in Operations : job \in Seq(kinds)
    /\ item \in 1..(Len(job) + 1)
    /\ pc \notin {"start", "dead"} => item <= Len(job)
    /\ pc = "handshake" => Kind = "unmount"
    /\ \A k \in DOMAIN toParent :
          toParent[k].type # "D" => toParent[k].item \in 1..Len(job)
    /\ \A i \in 1..Len(job) :
          misread[i] # "-" => i < item /\ job[i] = "unmount" /\ misread[i] # "X"

\* Question m is about the current item and of its kind.
AboutItem(m) ==
    /\ m.item = item /\ item <= Len(job)
    /\ m.type = "C" <=> Kind = "conflict"
    /\ m.type = "C" => policy = "ask"

\* There is at most one question, even after the end of the child.
OneAtMost ==
    /\ question # NoQuestion => question \in Asked /\ AboutItem(question)
    /\ \A k \in DOMAIN toParent : toParent[k] \in Asked => AboutItem(toParent[k])
    /\ Count(toParent, Asked) + Displayed <= 1

\* One question or answer is on its way while the child waits for an answer.
Asking ==
    /\ Count(toParent, Asked) + Displayed + Count(toChild, Answers)
         = IF pc = "asking" THEN 1 ELSE 0
    /\ pc = "asking" /\ Kind = "conflict" => policy = "ask"
    /\ \A k \in DOMAIN toChild :
          toChild[k] \in {"A", "S"} => Kind = "conflict" /\ policy = "ask"

\* As long as nothing else was read for it, one X or its echo is on its way while
\* the child waits for windows to be closed.
OutOfStep == \E i \in 1..Len(job) : misread[i] # "-"

Echoed ==
    /\ Count(toParent, Closing) + Count(toChild, {"X"})
         = IF pc = "handshake" THEN 1 ELSE 0
    /\ \A k \in DOMAIN toParent : toParent[k] \in Closing => toParent[k].item = item
    /\ Count(toChild, {"X"}) # 0 => item \in closed
    /\ pc = "work" /\ Kind = "unmount" => item \in closed

\* Toggles of a flag that its copy in the child does not show.
Missed(f) == Count(toChild, {f}) + Cardinality(MisreadAs(f))

InStep == \A f \in Flags : flags[f] # boxes[f] <=> Missed(f) % 2 = 1

Understanding ==
    /\ OneAtMost
    /\ pc # "dead" => Asking /\ (OutOfStep \/ Echoed) /\ InStep

-----------------------------------------------------------------------------
(* Types                                                                     *)

\* A message that is sent is about an item of the list, unless it is the last.
LEMMA SentIsTyped ==
    ASSUME Typed, NEW type \in {"?", "C", "X", "!", "changed", "D"}, Send(type),
           type # "D" => item <= Len(job), job' = job
    PROVE  /\ toParent' \in Seq(Message)
           /\ \A k \in DOMAIN toParent' :
                 toParent'[k].type # "D" => toParent'[k].item \in 1..Len(job')
<1> DEFINE m == [type |-> type, item |-> item]
<1>1. toParent \in Seq(Message) /\ m \in Message /\ toParent' = Append(toParent, m)
  BY DEF Typed, TypeOK, Message, Send
<1>2. item \in Nat /\ 1 <= item /\ Len(job) \in Nat /\ m.type = type /\ m.item = item
  BY DEF Typed, TypeOK
<1>3. m.type # "D" => m.item \in 1..Len(job)
  BY <1>2
<1> HIDE DEF m
<1>4. /\ toParent' \in Seq(Message)
      /\ \A k \in DOMAIN toParent' :
            \/ k \in DOMAIN toParent /\ toParent'[k] = toParent[k]
            \/ toParent'[k] = m
  BY <1>1
<1> QED BY <1>3, <1>4 DEF Typed

\* So are those left when one is read.
LEMMA TakenIsTyped ==
    ASSUME Typed, toParent # <<>>, toParent' = Tail(toParent), job' = job
    PROVE  /\ toParent' \in Seq(Message)
           /\ \A k \in DOMAIN toParent' :
                 toParent'[k].type # "D" => toParent'[k].item \in 1..Len(job')
<1>1. /\ toParent \in Seq(Message) /\ toParent' \in Seq(Message)
      /\ \A k \in DOMAIN toParent' : k + 1 \in DOMAIN toParent /\ toParent'[k] = toParent[k + 1]
  BY DEF Typed, TypeOK
<1> QED BY <1>1 DEF Typed

\* A step that keeps the messages.
LEMMA ListIsTyped ==
    ASSUME Typed, UNCHANGED <<toParent, job>>
    PROVE  /\ toParent' \in Seq(Message)
           /\ \A k \in DOMAIN toParent' :
                 toParent'[k].type # "D" => toParent'[k].item \in 1..Len(job')
BY DEF Typed, TypeOK

\* What has been misread is kept, and the child does not go back.
LEMMA MisreadIsTyped ==
    ASSUME Typed, UNCHANGED <<job, misread>>, item' \in {item, item + 1}
    PROVE  /\ \E kinds \in Operations : job' \in Seq(kinds)
           /\ \A i \in 1..Len(job') :
                 misread'[i] # "-" =>
                    i < item' /\ job'[i] = "unmount" /\ misread'[i] # "X"
BY DEF Typed, TypeOK

\* What is written to the child are characters it can be sent.
LEMMA WrittenIsTyped ==
    ASSUME Typed, NEW s \in Seq(Characters), Write(s)
    PROVE  toChild' \in Seq(Characters)
<1>1. toChild \in Seq(Characters) /\ toChild' \in {toChild, toChild \o s}
  BY DEF Typed, TypeOK, Write
<1>2. toChild \o s \in Seq(Characters)
  BY <1>1
<1> QED BY <1>1, <1>2

\* So is what tells it that Details was toggled.
LEMMA OpenLogIsTyped ==
    ASSUME Typed, OpenLog
    PROVE  log' \in BOOLEAN /\ toChild' \in Seq(Characters)
<1>1. <<"D">> \in Seq(Characters)
  BY DEF Characters
<1>2. toChild \in Seq(Characters)
  BY DEF Typed, TypeOK
<1> QED BY <1>1, <1>2, WrittenIsTyped DEF OpenLog

\* Every step keeps the types.
LEMMA TypedStep ==
    ASSUME Typed, [Next]_vars
    PROVE  Typed'
<1> DEFINE Listed == /\ toParent' \in Seq(Message)
                     /\ \A k \in DOMAIN toParent' :
                           toParent'[k].type # "D" => toParent'[k].item \in 1..Len(job')
           Ordered == /\ \E kinds \in Operations : job' \in Seq(kinds)
                      /\ \A i \in 1..Len(job') :
                            misread'[i] # "-" =>
                               i < item' /\ job'[i] = "unmount" /\ misread'[i] # "X"
<1>0. /\ item \in Nat /\ 1 <= item /\ Len(job) \in Nat
      /\ item <= Len(job) => item \in 1..Len(job)
      /\ item <= Len(job) => item + 1 \in 1..(Len(job) + 1) /\ item + 1 \in Nat
  BY DEF Typed, TypeOK
<1>1. ASSUME ProcessFlag, toChild # <<>>, item <= Len(job), job' = job
      PROVE  /\ Listed /\ flags' \in [Flags -> BOOLEAN] /\ failed' \in BOOLEAN
             /\ toChild' \in Seq(Characters)
  <2>1. Listed
    BY <1>1, SentIsTyped, ListIsTyped DEF ProcessFlag
  <2>2. flags' \in [Flags -> BOOLEAN] /\ failed' \in BOOLEAN
    BY <1>1 DEF ProcessFlag, Toggled, Typed, TypeOK
  <2>3. toChild' \in Seq(Characters)
    BY <1>1 DEF ProcessFlag, Typed, TypeOK
  <2> QED BY <2>1, <2>2, <2>3
<1>2. CASE CheckFlags \/ ReadFlag
  <2>1. /\ ProcessFlag /\ toChild # <<>> /\ item <= Len(job)
        /\ UNCHANGED <<job, misread, item>>
    BY <1>2 DEF CheckFlags, ReadFlag, Typed
  <2>3. Ordered
    BY <2>1, MisreadIsTyped
  <2> HIDE DEF Listed, Ordered
  <2>2. /\ Listed /\ flags' \in [Flags -> BOOLEAN] /\ failed' \in BOOLEAN
        /\ toChild' \in Seq(Characters)
    BY <1>1, <2>1
  <2> QED BY <1>2, <2>1, <2>2, <2>3
       DEF CheckFlags, ReadFlag, Typed, TypeOK, parentVars, Listed, Ordered, Kind
<1>3. CASE Ask
  <2>1. Listed
    BY <1>3, SentIsTyped DEF Ask, StartItem
  <2>2. Ordered
    BY <1>3, MisreadIsTyped DEF Ask, historyVars
  <2> QED BY <1>3, <2>1, <2>2 DEF Ask, StartItem, Typed, TypeOK, parentVars, historyVars
<1>4. CASE Skip
  <2>1. Listed
    BY <1>4, ListIsTyped DEF Skip
  <2>2. Ordered
    BY <1>4, MisreadIsTyped DEF Skip, NextItem, historyVars
  <2> QED BY <1>0, <1>4, <2>1, <2>2
       DEF Skip, StartItem, NextItem, Typed, TypeOK, parentVars, historyVars
<1>5. CASE GoAhead
  <2>1. Listed
    BY <1>5, SentIsTyped, ListIsTyped DEF GoAhead, StartItem, Proceed
  <2>2. Ordered
    BY <1>5, MisreadIsTyped DEF GoAhead, historyVars
  <2> QED BY <1>5, <2>1, <2>2
       DEF GoAhead, StartItem, Proceed, Kind, Typed, TypeOK, parentVars, historyVars
<1>6. CASE ReadAnswer
  <2>1. Listed
    BY <1>6, SentIsTyped, ListIsTyped DEF ReadAnswer, Proceed, NextItem, Typed
  <2>2. toChild' \in Seq(Characters)
    BY <1>6 DEF ReadAnswer, Typed, TypeOK
  <2>3. heard' \in [1..Len(job) -> Answers \cup {"-"}] /\ policy' \in PolicyNames
    BY <1>6 DEF ReadAnswer, Understood, Answers, Typed, TypeOK, PolicyNames
  <2>4. /\ pc' \in {"start", "handshake", "work"} /\ item' \in 1..(Len(job) + 1)
        /\ pc' # "start" => item' <= Len(job)
        /\ pc' = "handshake" => Kind' = "unmount"
    BY <1>0, <1>6 DEF ReadAnswer, Proceed, NextItem, Kind, Typed
  <2>5. /\ UNCHANGED <<job, window, question, boxes, log, aborts, errors, flags, signal>>
        /\ UNCHANGED <<toggles, seen, chosen, clicked, worked, closed, misread, failed,
                       dropped>>
    BY <1>6 DEF ReadAnswer, parentVars
  <2>6. item' \in Nat
    BY <1>0, <2>4
  <2>7. Ordered
    BY <1>6, <2>5, MisreadIsTyped DEF ReadAnswer, NextItem
  <2> QED BY <2>1, <2>2, <2>3, <2>4, <2>5, <2>6, <2>7 DEF Typed, TypeOK
<1>7. CASE Handshake
  <2>1. Listed
    BY <1>7, ListIsTyped DEF Handshake
  <2>2. toChild' \in Seq(Characters) /\ Head(toChild) \in Characters
    BY <1>7 DEF Handshake, Typed, TypeOK
  <2>3. /\ pc' \in {"start", "work"} /\ item' \in 1..(Len(job) + 1) /\ item' \in Nat
        /\ pc' # "start" => item' <= Len(job)
    BY <1>0, <1>7 DEF Handshake, NextItem, Typed
  <2>4. misread' \in [1..Len(job) -> Characters \cup {"-"}]
    BY <1>7, <2>2 DEF Handshake, Typed, TypeOK
  <2>5. Ordered
    <3>1. CASE misread' = misread /\ item' = item
      BY <1>7, <3>1, MisreadIsTyped DEF Handshake
    <3>2. CASE /\ misread' = [misread EXCEPT ![item] = Head(toChild)]
               /\ item' = item + 1 /\ Head(toChild) # "X"
      <4>1. job[item] = "unmount" /\ job' = job /\ item \in 1..Len(job)
        BY <1>0, <1>7 DEF Handshake, Typed, Kind
      <4>2. \A i \in 1..Len(job) : i # item => misread'[i] = misread[i]
        BY <3>2 DEF Typed, TypeOK
      <4>3. misread'[item] # "X"
        BY <3>2, <4>1 DEF Typed, TypeOK
      <4>4. \A i \in 1..Len(job) : i < item => i < item + 1
        BY <1>0
      <4> QED BY <1>0, <3>2, <4>1, <4>2, <4>3, <4>4 DEF Typed
    <3> QED BY <1>7, <3>1, <3>2 DEF Handshake, NextItem
  <2> QED BY <1>7, <2>1, <2>2, <2>3, <2>4, <2>5
       DEF Handshake, Typed, TypeOK, parentVars
<1>8. CASE Work
  <2>1. Listed
    BY <1>8, SentIsTyped, ListIsTyped DEF Work, ReportTooLong, Typed
  <2>2. Ordered
    BY <1>8, MisreadIsTyped DEF Work, NextItem
  <2>3. failed' \in BOOLEAN /\ dropped' \in BOOLEAN
    BY <1>8 DEF Work, ReportTooLong, Typed, TypeOK
  <2> QED BY <1>0, <1>8, <2>1, <2>2, <2>3 DEF Work, NextItem, Typed, TypeOK, parentVars
<1>9. CASE Done \/ Die
  <2>1. Listed
    BY <1>9, SentIsTyped, ListIsTyped DEF Done, Die
  <2>2. Ordered
    BY <1>9, MisreadIsTyped DEF Done, Die, historyVars
  <2> QED BY <1>9, <2>1, <2>2 DEF Done, Die, Typed, TypeOK, parentVars, historyVars
<1>10. CASE Receive
  <2>1. toParent # <<>> /\ Head(toParent) \in Message /\ Head(toParent) = toParent[1]
        /\ 1 \in DOMAIN toParent
    BY <1>10 DEF Receive, Typed, TypeOK
  <2>2. Listed
    BY <1>10, TakenIsTyped DEF Receive
  <2>3. toChild' \in Seq(Characters) /\ log' \in BOOLEAN
    <3>1. \/ OpenLog
          \/ /\ log' = log
             /\ toChild' = toChild \/ toChild' = <<>> \/ toChild' = Append(toChild, "X")
      BY <1>10, Zenon DEF Receive, Finish, CloseWindows
    <3>2. toChild \in Seq(Characters) /\ "X" \in Characters /\ log \in BOOLEAN
      BY DEF Typed, TypeOK, Characters
    <3>3. <<>> \in Seq(Characters) /\ Append(toChild, "X") \in Seq(Characters)
      BY <3>2
    <3>4. CASE OpenLog
      BY <3>4, OpenLogIsTyped
    <3>5. CASE ~OpenLog
      BY <3>1, <3>2, <3>3, <3>5
    <3> QED BY <3>4, <3>5
  <2>4. closed' \subseteq 1..Len(job)
    <3>1. \/ closed' = closed
          \/ toParent[1].type = "X" /\ closed' = closed \cup {toParent[1].item}
      BY <1>10, <2>1 DEF Receive, CloseWindows
    <3>2. toParent[1].type = "X" => toParent[1].item \in 1..Len(job)
      BY <2>1 DEF Typed
    <3>3. closed \subseteq 1..Len(job)
      BY DEF Typed, TypeOK
    <3> QED BY <3>1, <3>2, <3>3
  <2>5. /\ window' \in {"open", "report", "closed"} /\ question' \in Message
        /\ errors' \in BOOLEAN
    <3>1. /\ \/ window' = window
             \/ window' = IF errors THEN "report" ELSE "closed"
          /\ question' \in {question, NoQuestion, Head(toParent)}
          /\ errors' \in {errors, TRUE}
      BY <1>10 DEF Receive, Finish, HideQuestion
    <3>2. NoQuestion \in Message
      BY DEF NoQuestion, Message
    <3> QED BY <2>1, <3>1, <3>2 DEF Typed, TypeOK
  <2>6. Ordered
    BY <1>10, MisreadIsTyped DEF Receive, childVars
  <2> QED BY <1>10, <2>2, <2>3, <2>4, <2>5, <2>6
       DEF Receive, childVars, Typed, TypeOK, Kind
<1>11. CASE ReceiveEOF
  <2>1. Listed
    BY <1>11, ListIsTyped DEF ReceiveEOF
  <2>2. Ordered
    BY <1>11, MisreadIsTyped DEF ReceiveEOF, childVars, historyVars
  <2>3. question' \in Message /\ toChild' \in Seq(Characters) /\ log' \in BOOLEAN
    BY <1>11 DEF ReceiveEOF, Finish, HideQuestion, NoQuestion, Message
  <2> QED BY <1>11, <2>1, <2>2, <2>3
       DEF ReceiveEOF, Finish, Typed, TypeOK, Kind, childVars, historyVars
<1>12. ASSUME NEW yes \in BOOLEAN, NEW all \in BOOLEAN, NEW quiet \in BOOLEAN,
              Answer(yes, all, quiet)
       PROVE  Typed'
  <2> DEFINE c == IF all THEN IF yes THEN "A" ELSE "S" ELSE IF yes THEN "Y" ELSE "N"
  <2>1. Listed
    BY <1>12, ListIsTyped DEF Answer
  <2>2. c \in Answers /\ clicked' = [clicked EXCEPT ![question.item] = c]
        /\ Write(IF quiet THEN <<"Q", c>> ELSE <<c>>)
    BY <1>12 DEF Answer, Answers
  <2> HIDE DEF c
  <2>3. clicked' \in [1..Len(job) -> Answers \cup {"-"}]
    BY <2>2 DEF Typed, TypeOK
  <2>4. toChild' \in Seq(Characters)
    <3>1. <<"Q", c>> \in Seq(Characters) /\ <<c>> \in Seq(Characters)
      BY <2>2 DEF Characters, Flags
    <3> QED BY <2>2, <3>1, WrittenIsTyped
  <2>5. boxes' \in [Flags -> BOOLEAN]
    BY <1>12 DEF Answer, Toggled, Typed, TypeOK
  <2>6. seen' \subseteq [Flags -> BOOLEAN]
    BY <1>12, <2>5 DEF Answer, Typed, TypeOK
  <2>7. Ordered
    BY <1>12, MisreadIsTyped DEF Answer, childVars
  <2> QED BY <1>12, <2>1, <2>3, <2>4, <2>5, <2>6, <2>7
       DEF Answer, HideQuestion, NoQuestion, Message, Typed, TypeOK, childVars, Kind
<1>13. ASSUME NEW f \in Flags, ToggleFlag(f)
       PROVE  Typed'
  <2>1. Listed
    BY <1>13, ListIsTyped DEF ToggleFlag
  <2>2. toChild' \in Seq(Characters)
    <3>1. <<f>> \in Seq(Characters)
      BY DEF Characters
    <3> QED BY <1>13, <3>1, WrittenIsTyped DEF ToggleFlag
  <2>3. boxes' \in [Flags -> BOOLEAN] /\ toggles' \in Nat
    BY <1>13 DEF ToggleFlag, Toggled, Typed, TypeOK
  <2>4. seen' \subseteq [Flags -> BOOLEAN]
    BY <1>13, <2>3 DEF ToggleFlag, Typed, TypeOK
  <2>5. Ordered
    BY <1>13, MisreadIsTyped DEF ToggleFlag, childVars
  <2> QED BY <1>13, <2>1, <2>2, <2>3, <2>4, <2>5
       DEF ToggleFlag, Typed, TypeOK, childVars, Kind
<1>14. CASE ToggleDetails
  <2>1. Listed
    BY <1>14, ListIsTyped DEF ToggleDetails
  <2>2. toChild' \in Seq(Characters)
    <3>1. <<"D">> \in Seq(Characters)
      BY DEF Characters
    <3> QED BY <1>14, <3>1, WrittenIsTyped DEF ToggleDetails
  <2>3. log' \in BOOLEAN /\ toggles' \in Nat
    BY <1>14 DEF ToggleDetails, Typed, TypeOK
  <2>4. Ordered
    BY <1>14, MisreadIsTyped DEF ToggleDetails, childVars
  <2> QED BY <1>14, <2>1, <2>2, <2>3, <2>4
       DEF ToggleDetails, Typed, TypeOK, childVars, Kind
<1>15. CASE Abort
  <2>1. Listed
    BY <1>15, ListIsTyped DEF Abort
  <2>2. aborts' \in Nat /\ signal' \in {"none", "term", "kill"}
    BY <1>15 DEF Abort, Typed, TypeOK
  <2>3. log' \in BOOLEAN /\ toChild' \in Seq(Characters)
    BY <1>15, OpenLogIsTyped DEF Abort
  <2>4. Ordered
    BY <1>15, MisreadIsTyped DEF Abort, childVars, historyVars
  <2> QED BY <1>15, <2>1, <2>2, <2>3, <2>4
       DEF Abort, Typed, TypeOK, childVars, historyVars, Kind
<1>16. CASE CloseReport
  BY <1>16 DEF CloseReport, Typed, TypeOK, childVars, historyVars, Kind
<1>17. CASE UNCHANGED vars
  BY <1>17 DEF vars, Typed, TypeOK, parentVars, childVars, historyVars, Kind
<1> QED
  BY <1>2, <1>3, <1>4, <1>5, <1>6, <1>7, <1>8, <1>9, <1>10, <1>11, <1>12, <1>13,
     <1>14, <1>15, <1>16, <1>17
  DEF Next, Child, Parent, User

\* An operation starts with the types.
LEMMA InitTyped == Init => Typed
<1> SUFFICES ASSUME Init PROVE Typed
  OBVIOUS
<1>1. PICK kinds \in Operations : job \in Seq(kinds)
  BY JobsAssumption DEF Init
<1>2. kinds \subseteq Kinds
  BY DEF Operations, Kinds
<1>3. job \in Seq(Kinds) /\ Len(job) \in Nat
  BY <1>1, <1>2
<1>4. policy \in PolicyNames
  BY PoliciesAssumption DEF Init, PolicyNames
<1>5. /\ window = "open" /\ question = NoQuestion /\ flags = boxes
      /\ boxes \in [Flags -> BOOLEAN] /\ log \in BOOLEAN /\ aborts = 0 /\ errors = FALSE
      /\ toParent = <<>> /\ toChild = <<>> /\ pc = "start" /\ item = 1
      /\ signal = "none" /\ toggles = 0 /\ seen = {boxes} /\ chosen = policy
      /\ worked = {} /\ closed = {} /\ failed = FALSE /\ dropped = FALSE
      /\ clicked = [i \in 1..Len(job) |-> "-"] /\ heard = [i \in 1..Len(job) |-> "-"]
      /\ misread = [i \in 1..Len(job) |-> "-"]
  BY DEF Init
<1>6. question \in Message
  BY <1>5 DEF NoQuestion, Message
<1>7. /\ clicked \in [1..Len(job) -> Answers \cup {"-"}]
      /\ heard \in [1..Len(job) -> Answers \cup {"-"}]
      /\ misread \in [1..Len(job) -> Characters \cup {"-"}]
  BY <1>5
<1>8. toParent \in Seq(Message) /\ toChild \in Seq(Characters)
  BY <1>5
<1>9. TypeOK
  BY <1>3, <1>4, <1>5, <1>6, <1>7, <1>8 DEF TypeOK
<1> QED BY <1>1, <1>3, <1>5, <1>9 DEF Typed

-----------------------------------------------------------------------------
(* What a message or a character adds to the counts                          *)

\* The counts of both pipes, and the question displayed, in numbers.
LEMMA Naturals ==
    ASSUME Typed
    PROVE  /\ \A S : /\ Count(toParent, S) \in Nat
                     /\ Count(toParent, S) = 0 <=> \A k \in DOMAIN toParent : toParent[k] \notin S
           /\ \A S : /\ Count(toChild, S) \in Nat
                     /\ Count(toChild, S) = 0 <=> \A k \in DOMAIN toChild : toChild[k] \notin S
           /\ Displayed \in {0, 1} /\ (Displayed = 0 <=> question = NoQuestion)
<1>1. toParent \in Seq(Message) /\ toChild \in Seq(Characters)
  BY DEF Typed, TypeOK, Characters
<1>2. Displayed \in {0, 1} /\ (Displayed = 0 <=> question = NoQuestion)
  BY DEF Displayed
<1> QED BY <1>1, <1>2, CountIsNatural

\* What a message of the child adds.
LEMMA SentCounts ==
    ASSUME Typed, NEW type \in {"?", "C", "X", "!", "changed", "D"}, Send(type)
    PROVE  /\ Count(toParent', Asked)
                = Count(toParent, Asked) + (IF type \in {"?", "C"} THEN 1 ELSE 0)
           /\ Count(toParent', Closing)
                = Count(toParent, Closing) + (IF type = "X" THEN 1 ELSE 0)
           /\ \A k \in DOMAIN toParent' :
                 \/ k \in DOMAIN toParent /\ toParent'[k] = toParent[k]
                 \/ toParent'[k] = [type |-> type, item |-> item]
<1> DEFINE m == [type |-> type, item |-> item]
<1>1. toParent \in Seq(Message) /\ m \in Message /\ toParent' = Append(toParent, m)
  BY DEF Typed, TypeOK, Message, Send
<1>2. (m \in Asked <=> type \in {"?", "C"}) /\ (m \in Closing <=> type = "X")
  BY <1>1 DEF Asked, Closing
<1> HIDE DEF m
<1>3. \A k \in DOMAIN toParent' :
         \/ k \in DOMAIN toParent /\ toParent'[k] = toParent[k]
         \/ toParent'[k] = m
  BY <1>1
<1>4. \A S : Count(toParent', S) = Count(toParent, S) + (IF m \in S THEN 1 ELSE 0)
  BY <1>1, CountAppend
<1>5. Count(toParent', Asked)
        = Count(toParent, Asked) + (IF type \in {"?", "C"} THEN 1 ELSE 0)
  BY <1>2, <1>4
<1>6. Count(toParent', Closing)
        = Count(toParent, Closing) + (IF type = "X" THEN 1 ELSE 0)
  BY <1>2, <1>4
<1> QED BY <1>3, <1>5, <1>6 DEF m

\* What the parent takes away when it reads a message.
LEMMA TakenCounts ==
    ASSUME Typed, toParent # <<>>, toParent' = Tail(toParent)
    PROVE  /\ Count(toParent, Asked)
                = Count(toParent', Asked)
                    + (IF Head(toParent).type \in {"?", "C"} THEN 1 ELSE 0)
           /\ Count(toParent, Closing)
                = Count(toParent', Closing) + (IF Head(toParent).type = "X" THEN 1 ELSE 0)
           /\ \A k \in DOMAIN toParent' :
                 k + 1 \in DOMAIN toParent /\ toParent'[k] = toParent[k + 1]
           /\ 1 \in DOMAIN toParent /\ Head(toParent) = toParent[1]
           /\ Head(toParent) \in Message
<1>1. toParent \in Seq(Message)
  BY DEF Typed, TypeOK
<1>2. /\ \A k \in DOMAIN toParent' :
            k + 1 \in DOMAIN toParent /\ toParent'[k] = toParent[k + 1]
      /\ 1 \in DOMAIN toParent /\ Head(toParent) = toParent[1]
      /\ Head(toParent) \in Message
  BY <1>1
<1>3. /\ Head(toParent) \in Asked <=> Head(toParent).type \in {"?", "C"}
      /\ Head(toParent) \in Closing <=> Head(toParent).type = "X"
  BY <1>2 DEF Asked, Closing
<1>4. \A S : Count(toParent, S)
               = Count(toParent', S) + (IF Head(toParent) \in S THEN 1 ELSE 0)
  BY <1>1, CountTail
<1>5. Count(toParent, Asked)
        = Count(toParent', Asked)
            + (IF Head(toParent).type \in {"?", "C"} THEN 1 ELSE 0)
  BY <1>3, <1>4
<1>6. Count(toParent, Closing)
        = Count(toParent', Closing) + (IF Head(toParent).type = "X" THEN 1 ELSE 0)
  BY <1>3, <1>4
<1> QED BY <1>2, <1>5, <1>6

\* What a character of the parent adds.
LEMMA WrittenCounts ==
    ASSUME Typed, NEW c \in Characters, toChild' = Append(toChild, c)
    PROVE  /\ \A S : Count(toChild', S)
                       = Count(toChild, S) + (IF c \in S THEN 1 ELSE 0)
           /\ \A k \in DOMAIN toChild' :
                 \/ k \in DOMAIN toChild /\ k # Len(toChild') /\ toChild'[k] = toChild[k]
                 \/ k = Len(toChild') /\ toChild'[k] = c
<1>1. toChild \in Seq(Characters)
  BY DEF Typed, TypeOK, Characters
<1>2. \A k \in DOMAIN toChild' :
         \/ k \in DOMAIN toChild /\ k # Len(toChild') /\ toChild'[k] = toChild[k]
         \/ k = Len(toChild') /\ toChild'[k] = c
  BY <1>1
<1> QED BY <1>1, <1>2, CountAppend

\* What the child takes away when it reads a character.
LEMMA ReadCounts ==
    ASSUME Typed, toChild # <<>>, toChild' = Tail(toChild)
    PROVE  /\ \A S : Count(toChild, S)
                       = Count(toChild', S) + (IF Head(toChild) \in S THEN 1 ELSE 0)
           /\ \A k \in DOMAIN toChild' :
                 /\ k + 1 \in DOMAIN toChild /\ toChild'[k] = toChild[k + 1]
                 /\ k + 1 = Len(toChild) => k = Len(toChild')
           /\ 1 \in DOMAIN toChild /\ Head(toChild) = toChild[1]
           /\ Head(toChild) \in Characters
           /\ 1 = Len(toChild) => toChild' = <<>>
<1>1. toChild \in Seq(Characters)
  BY DEF Typed, TypeOK, Characters
<1>2. /\ \A k \in DOMAIN toChild' :
            /\ k + 1 \in DOMAIN toChild /\ toChild'[k] = toChild[k + 1]
            /\ k + 1 = Len(toChild) => k = Len(toChild')
      /\ 1 \in DOMAIN toChild /\ Head(toChild) = toChild[1]
      /\ Head(toChild) \in Characters
      /\ 1 = Len(toChild) => toChild' = <<>>
  BY <1>1
<1> QED BY <1>1, <1>2, CountTail

\* What tells the child of Details is neither an answer nor a flag nor X.
LEMMA LogCounts ==
    ASSUME Typed, toChild' = toChild \/ Write(<<"D">>)
    PROVE  /\ Count(toChild', Answers) = Count(toChild, Answers)
           /\ Count(toChild', {"X"}) = Count(toChild, {"X"})
           /\ \A f \in Flags : Count(toChild', {f}) = Count(toChild, {f})
           /\ \A k \in DOMAIN toChild' :
                 (k \in DOMAIN toChild /\ toChild'[k] = toChild[k]) \/ toChild'[k] = "D"
<1>1. toChild \in Seq(Characters) /\ "D" \in Characters
  BY DEF Typed, TypeOK, Characters
<1>2. toChild' = toChild \/ toChild' = Append(toChild, "D")
  BY <1>1 DEF Write
<1>3. CASE toChild' = toChild
  BY <1>3
<1>4. CASE toChild' = Append(toChild, "D")
  <2>1. /\ \A S : Count(toChild', S) = Count(toChild, S) + (IF "D" \in S THEN 1 ELSE 0)
        /\ \A k \in DOMAIN toChild' :
              (k \in DOMAIN toChild /\ toChild'[k] = toChild[k]) \/ toChild'[k] = "D"
    BY <1>1, <1>4, WrittenCounts
  <2>2. \A S : "D" \notin S => Count(toChild', S) = Count(toChild, S)
    <3> SUFFICES ASSUME NEW S, "D" \notin S
                 PROVE  Count(toChild', S) = Count(toChild, S)
      OBVIOUS
    <3>1. Count(toChild, S) \in Nat
      BY Naturals
    <3> QED BY <2>1, <3>1
  <2>3. "D" \notin Answers /\ "D" \notin {"X"} /\ \A f \in Flags : "D" \notin {f}
    BY DEF Answers, Flags
  <2> QED BY <2>1, <2>2, <2>3
<1> QED BY <1>2, <1>3, <1>4

\* The toggles the child has not seen are a number.
LEMMA MissedIsNatural ==
    ASSUME Typed, NEW c
    PROVE  /\ IsFiniteSet(MisreadAs(c)) /\ Cardinality(MisreadAs(c)) \in Nat
           /\ Count(toChild, {c}) \in Nat /\ Missed(c) \in Nat
<1>1. IsFiniteSet(1..Len(job)) /\ MisreadAs(c) \subseteq 1..Len(job)
  BY FS_Interval DEF Typed, TypeOK, MisreadAs
<1>2. IsFiniteSet(MisreadAs(c))
  BY <1>1, FS_Subset
<1>3. Cardinality(MisreadAs(c)) \in Nat
  BY <1>2, FS_CardinalityType
<1>4. Count(toChild, {c}) \in Nat
  BY Naturals
<1> QED BY <1>2, <1>3, <1>4 DEF Missed

\* Nothing about the flags changes.
LEMMA StillInStep ==
    ASSUME InStep, UNCHANGED <<job, misread, flags, boxes>>,
           \A f \in Flags : Count(toChild', {f}) = Count(toChild, {f})
    PROVE  InStep'
<1>1. \A f \in Flags : Missed(f)' = Missed(f)
  BY DEF Missed, MisreadAs
<1> QED BY <1>1 DEF InStep

\* One more toggle on the way.
LEMMA OddOrEven == \A n \in Nat : (n + 1) % 2 = 1 <=> n % 2 # 1
OBVIOUS

-----------------------------------------------------------------------------
(* The steps                                                                 *)

\* Nothing of what passes between the two changes but that Details was toggled,
\* or the child ends.
LEMMA NothingSaid ==
    ASSUME Typed, Understanding, pc' = pc \/ pc' = "dead",
           toChild' = toChild \/ Write(<<"D">>),
           UNCHANGED <<job, question, toParent, item, boxes, flags, policy, closed,
                       misread>>
    PROVE  Understanding'
<1>0. /\ Count(toChild', Answers) = Count(toChild, Answers)
      /\ Count(toChild', {"X"}) = Count(toChild, {"X"})
      /\ \A f \in Flags : Count(toChild', {f}) = Count(toChild, {f})
      /\ \A k \in DOMAIN toChild' :
            (k \in DOMAIN toChild /\ toChild'[k] = toChild[k]) \/ toChild'[k] = "D"
  BY LogCounts
<1>1. OneAtMost'
  BY DEF Understanding, OneAtMost, AboutItem, Displayed, Kind
<1>2. CASE pc' = "dead"
  BY <1>1, <1>2 DEF Understanding
<1>3. CASE pc' = pc /\ pc # "dead"
  <2>1. Asking'
    BY <1>0, <1>3 DEF Understanding, Asking, Displayed, Kind
  <2>2. (OutOfStep \/ Echoed)'
    BY <1>0, <1>3 DEF Understanding, Echoed, OutOfStep, Kind
  <2>3. InStep'
    BY <1>0, <1>3, StillInStep DEF Understanding
  <2> QED BY <1>1, <2>1, <2>2, <2>3 DEF Understanding
<1> QED BY <1>2, <1>3

\* What the child reads is a flag, and then it is toggled, or it is no flag.
LEMMA FlagInStep ==
    ASSUME Typed, Typed', InStep, toChild # <<>>, toChild' = Tail(toChild),
           UNCHANGED <<job, misread, boxes>>,
           flags' = IF Head(toChild) \in Flags THEN Toggled(flags, Head(toChild))
                    ELSE flags
    PROVE  InStep'
<1>1. \A S : Count(toChild, S)
               = Count(toChild', S) + (IF Head(toChild) \in S THEN 1 ELSE 0)
  BY ReadCounts
<1> SUFFICES ASSUME NEW f \in Flags
             PROVE  flags'[f] # boxes'[f] <=> Missed(f)' % 2 = 1
  BY DEF InStep
<1>2. /\ flags \in [Flags -> BOOLEAN] /\ boxes \in [Flags -> BOOLEAN] /\ boxes' = boxes
      /\ flags[f] # boxes[f] <=> Missed(f) % 2 = 1
  BY DEF Typed, TypeOK, InStep
<1>3. Cardinality(MisreadAs(f)') = Cardinality(MisreadAs(f)) /\ Cardinality(MisreadAs(f)) \in Nat
  <2>1. MisreadAs(f)' = MisreadAs(f)
    BY DEF MisreadAs
  <2>2. Cardinality(MisreadAs(f)) \in Nat
    BY MissedIsNatural
  <2> QED BY <2>1, <2>2
<1>4. Missed(f)' \in Nat /\ Count(toChild', {f}) \in Nat
  <2>1. toChild' \in Seq(Characters)
    BY DEF Typed, TypeOK
  <2>2. Count(toChild', {f}) \in Nat
    BY <2>1, CountIsNatural
  <2> QED BY <1>3, <2>2 DEF Missed
<1>5. Count(toChild, {f})
        = Count(toChild', {f}) + (IF Head(toChild) \in {f} THEN 1 ELSE 0)
  BY <1>1
<1>6. CASE f = Head(toChild)
  <2>1. Missed(f) = Missed(f)' + 1
    BY <1>3, <1>4, <1>5, <1>6 DEF Missed
  <2>2. flags'[f] = ~flags[f]
    BY <1>2, <1>6 DEF Toggled
  <2>3. Missed(f)' % 2 = 1 <=> ~(Missed(f) % 2 = 1)
    BY <1>4, <2>1, OddOrEven
  <2>4. flags'[f] # boxes[f] <=> ~(flags[f] # boxes[f])
    BY <1>2, <2>2
  <2> QED BY <1>2, <2>3, <2>4
<1>7. CASE f # Head(toChild)
  <2>1. Missed(f) = Missed(f)'
    BY <1>3, <1>4, <1>5, <1>7 DEF Missed
  <2>2. flags'[f] = flags[f]
    BY <1>2, <1>7 DEF Toggled
  <2> QED BY <1>2, <2>1, <2>2
<1> QED BY <1>6, <1>7

\* The child reads a flag, or what is no flag and reports it.
LEMMA FlagRead ==
    ASSUME Typed, Typed', Understanding, pc \in {"start", "asking"}, toChild # <<>>,
           pc = "asking" => Head(toChild) \notin Understood,
           ProcessFlag,
           UNCHANGED <<job, question, pc, item, boxes, policy, closed, misread>>
    PROVE  Understanding'
<1>0. Asking /\ (OutOfStep \/ Echoed) /\ InStep /\ OneAtMost
  BY DEF Understanding
<1>1. toChild' = Tail(toChild)
  BY DEF ProcessFlag
<1>2. /\ \A S : Count(toChild, S)
                  = Count(toChild', S) + (IF Head(toChild) \in S THEN 1 ELSE 0)
      /\ \A k \in DOMAIN toChild' :
            k + 1 \in DOMAIN toChild /\ toChild'[k] = toChild[k + 1]
      /\ 1 \in DOMAIN toChild /\ Head(toChild) = toChild[1]
  BY <1>1, ReadCounts
<1>3. Head(toChild) \notin Answers
  <2>1. CASE pc = "start"
    <3>1. /\ Count(toParent, Asked) \in Nat /\ Count(toChild, Answers) \in Nat
          /\ Displayed \in {0, 1}
      BY Naturals
    <3>2. Count(toChild, Answers) = 0
      BY <1>0, <2>1, <3>1 DEF Asking
    <3> QED BY <1>2, <3>2, Naturals
  <2>2. CASE pc = "asking"
    <3>1. Head(toChild) \in {"A", "S"} => AsksConflict
      BY <1>0, <1>2 DEF Asking, AsksConflict
    <3> QED BY <2>2, <3>1 DEF Understood, Answers
  <2> QED BY <2>1, <2>2
<1>4. /\ toParent' = toParent \/ Send("!")
      /\ flags' = IF Head(toChild) \in Flags THEN Toggled(flags, Head(toChild)) ELSE flags
  BY DEF ProcessFlag
<1>5. /\ Count(toParent', Asked) = Count(toParent, Asked)
      /\ Count(toParent', Closing) = Count(toParent, Closing)
      /\ \A k \in DOMAIN toParent' :
            \/ k \in DOMAIN toParent /\ toParent'[k] = toParent[k]
            \/ toParent'[k] \notin Asked /\ toParent'[k] \notin Closing
  <2>1. CASE toParent' = toParent
    BY <2>1
  <2>2. CASE Send("!")
    <3>1. Count(toParent, Asked) \in Nat /\ Count(toParent, Closing) \in Nat
      BY Naturals
    <3>2. /\ Count(toParent', Asked) = Count(toParent, Asked) + 0
          /\ Count(toParent', Closing) = Count(toParent, Closing) + 0
          /\ \A k \in DOMAIN toParent' :
                \/ k \in DOMAIN toParent /\ toParent'[k] = toParent[k]
                \/ toParent'[k] = [type |-> "!", item |-> item]
      BY <2>2, SentCounts
    <3>3. [type |-> "!", item |-> item] \notin Asked \cup Closing
      BY DEF Asked, Closing
    <3> QED BY <3>1, <3>2, <3>3
  <2> QED BY <1>4, <2>1, <2>2
<1>6. OneAtMost'
  <2>1. \A k \in DOMAIN toParent' : toParent'[k] \in Asked => AboutItem(toParent[k])'
    <3> SUFFICES ASSUME NEW k \in DOMAIN toParent', toParent'[k] \in Asked
                 PROVE  AboutItem(toParent[k])'
      OBVIOUS
    <3>1. k \in DOMAIN toParent /\ toParent'[k] = toParent[k]
      BY <1>5
    <3> QED BY <1>0, <3>1 DEF OneAtMost, AboutItem, Kind
  <2> QED BY <1>0, <1>5, <2>1 DEF OneAtMost, AboutItem, Displayed, Kind
<1>7. Count(toChild, Answers) = Count(toChild', Answers)
  <2>1. Count(toChild', Answers) \in Nat
    <3>1. toChild' \in Seq(Characters)
      BY DEF Typed, TypeOK
    <3> QED BY <3>1, CountIsNatural
  <2> QED BY <1>2, <1>3, <2>1
<1>8. Asking'
  BY <1>0, <1>2, <1>5, <1>7 DEF Asking, Displayed, Kind
<1>9. (OutOfStep \/ Echoed)'
  <2>1. CASE OutOfStep
    BY <2>1 DEF OutOfStep
  <2>2. CASE Echoed
    <3>1. /\ Count(toParent, Closing) \in Nat /\ Count(toChild, {"X"}) \in Nat
          /\ Count(toChild', {"X"}) \in Nat
      <4>1. toChild' \in Seq(Characters)
        BY DEF Typed, TypeOK
      <4> QED BY <4>1, CountIsNatural, Naturals
    <3>2. Count(toParent, Closing) = 0 /\ Count(toChild, {"X"}) = 0
      BY <2>2, <3>1 DEF Echoed
    <3>3. Count(toChild', {"X"}) = 0
      BY <1>2, <3>1, <3>2
    <3>4. Echoed'
      BY <1>5, <2>2, <3>2, <3>3 DEF Echoed, Kind
    <3> QED BY <3>4
  <2> QED BY <1>0, <2>1, <2>2
<1>10. InStep'
  BY <1>0, <1>1, <1>4, FlagInStep
<1> QED BY <1>6, <1>8, <1>9, <1>10 DEF Understanding

\* Between items and while it works, the child is owed nothing but flags, and an
\* X only if something else was read for it.
LEMMA NothingPending ==
    ASSUME Typed, Understanding, pc \in {"start", "work"}
    PROVE  /\ question = NoQuestion /\ Count(toParent, Asked) = 0
           /\ Count(toChild, Answers) = 0
           /\ \/ OutOfStep
              \/ Count(toParent, Closing) = 0 /\ Count(toChild, {"X"}) = 0
<1>1. /\ Count(toParent, Asked) \in Nat /\ Count(toChild, Answers) \in Nat
      /\ Count(toParent, Closing) \in Nat /\ Count(toChild, {"X"}) \in Nat
      /\ Displayed \in {0, 1} /\ (Displayed = 0 <=> question = NoQuestion)
  BY Naturals
<1>2. Count(toParent, Asked) + Displayed + Count(toChild, Answers) = 0
  BY DEF Understanding, Asking
<1>3. OutOfStep \/ Count(toParent, Closing) + Count(toChild, {"X"}) = 0
  BY DEF Understanding, Echoed
<1>4. OutOfStep \/ (Count(toParent, Closing) = 0 /\ Count(toChild, {"X"}) = 0)
  BY <1>1, <1>3
<1> QED BY <1>1, <1>2, <1>4

\* No question is asked or answered.
LEMMA NothingAsked ==
    ASSUME Typed', question' = NoQuestion, Count(toParent', Asked) = 0,
           Count(toChild', Answers) = 0, pc' \in {"start", "work", "handshake"},
           (OutOfStep \/ Echoed)', InStep'
    PROVE  Understanding'
<1>1. toParent' \in Seq(Message) /\ toChild' \in Seq(Characters)
  BY DEF Typed, TypeOK
<1>2. /\ \A k \in DOMAIN toParent' : toParent'[k] \notin Asked
      /\ \A k \in DOMAIN toChild' : toChild'[k] \notin Answers
  BY <1>1, CountIsNatural
<1>3. Displayed' = 0
  BY DEF Displayed
<1>4. OneAtMost'
  BY <1>2, <1>3 DEF OneAtMost
<1>5. Asking'
  BY <1>2, <1>3 DEF Asking, Answers
<1> QED BY <1>4, <1>5 DEF Understanding

\* Nor are windows to be closed.
LEMMA NothingToClose ==
    ASSUME Typed', Count(toParent', Closing) = 0, Count(toChild', {"X"}) = 0,
           pc' # "handshake", pc' = "work" /\ Kind' = "unmount" => item' \in closed'
    PROVE  Echoed'
<1>1. toParent' \in Seq(Message)
  BY DEF Typed, TypeOK
<1>2. \A k \in DOMAIN toParent' : toParent'[k] \notin Closing
  BY <1>1, CountIsNatural
<1> QED BY <1>2 DEF Echoed

\* The current item is to be worked on, and nothing is left to be read.
LEMMA Proceeded ==
    ASSUME Typed, Typed', Proceed, question' = NoQuestion, Count(toParent, Asked) = 0,
           Count(toChild', Answers) = 0, InStep',
           \/ OutOfStep
           \/ Count(toParent, Closing) = 0 /\ Count(toChild', {"X"}) = 0,
           UNCHANGED <<job, item, misread>>
    PROVE  Understanding'
<1>0. OutOfStep' <=> OutOfStep
  BY DEF OutOfStep
<1>1. CASE Kind = "unmount"
  <2>1. pc' = "handshake" /\ Send("X")
    BY <1>1 DEF Proceed
  <2>2. /\ Count(toParent', Asked) = Count(toParent, Asked) + 0
        /\ Count(toParent', Closing) = Count(toParent, Closing) + 1
        /\ \A k \in DOMAIN toParent' :
              \/ k \in DOMAIN toParent /\ toParent'[k] = toParent[k]
              \/ toParent'[k] = [type |-> "X", item |-> item]
    BY <2>1, SentCounts
  <2>3. ASSUME ~OutOfStep
        PROVE  Echoed'
    <3>1. \A k \in DOMAIN toParent : toParent[k] \notin Closing
      BY <2>3, Naturals
    <3> QED BY <1>1, <2>1, <2>2, <2>3, <3>1 DEF Echoed, Kind
  <2> QED BY <1>0, <2>1, <2>2, <2>3, NothingAsked
<1>2. CASE Kind # "unmount"
  <2>1. pc' = "work" /\ toParent' = toParent /\ Kind' # "unmount"
    BY <1>2 DEF Proceed, Kind
  <2>2. (OutOfStep \/ Echoed)'
    BY <1>0, <2>1, NothingToClose
  <2> QED BY <2>1, <2>2, NothingAsked
<1> QED BY <1>1, <1>2

\* The child starts the next item.
LEMMA Onward ==
    ASSUME Typed', pc' = "start", question' = NoQuestion,
           Count(toParent', Asked) = 0, Count(toChild', Answers) = 0, InStep',
           \/ OutOfStep'
           \/ Count(toParent', Closing) = 0 /\ Count(toChild', {"X"}) = 0
    PROVE  Understanding'
<1>1. (OutOfStep \/ Echoed)'
  BY NothingToClose
<1> QED BY <1>1, NothingAsked

\* The steps of the child that are not about flags.
LEMMA AskUnderstood ==
    ASSUME Typed, Typed', Understanding, Ask
    PROVE  Understanding'
<1>1. /\ pc = "start" /\ pc' = "asking" /\ item <= Len(job) /\ toChild = <<>>
      /\ UNCHANGED <<job, question, boxes, toChild, item, flags, policy, closed,
                      misread>>
  BY DEF Ask, StartItem, parentVars, historyVars
<1>2. /\ question = NoQuestion /\ Count(toParent, Asked) = 0
      /\ Count(toChild, Answers) = 0
      /\ \/ OutOfStep
         \/ Count(toParent, Closing) = 0 /\ Count(toChild, {"X"}) = 0
  BY <1>1, NothingPending
<1>3. PICK type \in {"?", "C"} :
             /\ Send(type) /\ (type = "C" <=> Kind = "conflict")
             /\ Kind = "conflict" => policy = "ask"
  BY DEF Ask, AsksPlain, AsksConflict
<1>4. /\ Count(toParent', Asked) = 1
      /\ Count(toParent, Closing) = 0 => Count(toParent', Closing) = 0
      /\ \A k \in DOMAIN toParent' :
            \/ k \in DOMAIN toParent /\ toParent'[k] = toParent[k]
            \/ toParent'[k] = [type |-> type, item |-> item]
  BY <1>2, <1>3, SentCounts
<1>5. \A k \in DOMAIN toParent : toParent[k] \notin Asked
  BY <1>2, Naturals
<1>6. Displayed' = 0 /\ question' = NoQuestion /\ Kind' = Kind
  BY <1>1, <1>2 DEF Displayed, Kind
<1>7. ASSUME NEW k \in DOMAIN toParent', toParent'[k] \in Asked
      PROVE  AboutItem(toParent[k])'
  <2>1. toParent'[k] = [type |-> type, item |-> item]
    BY <1>4, <1>5, <1>7
  <2>2. toParent'[k].type = type /\ toParent'[k].item = item
    BY <2>1
  <2> QED BY <1>1, <1>3, <1>6, <2>2 DEF AboutItem
<1>8. OneAtMost'
  BY <1>4, <1>6, <1>7 DEF OneAtMost
<1>9. Asking'
  BY <1>1, <1>2, <1>3, <1>4, <1>6 DEF Asking
<1>10. (OutOfStep \/ Echoed)'
  BY <1>1, <1>2, <1>4, NothingToClose DEF OutOfStep
<1>11. InStep'
  BY <1>1, StillInStep DEF Understanding
<1> QED BY <1>8, <1>9, <1>10, <1>11 DEF Understanding

\* The child reads the answer.
LEMMA ReadUnderstood ==
    ASSUME Typed, Typed', Understanding, ReadAnswer
    PROVE  Understanding'
<1>1. /\ pc = "asking" /\ toChild # <<>> /\ Head(toChild) \in Answers
      /\ toChild' = Tail(toChild)
      /\ UNCHANGED <<job, question, boxes, flags, closed, misread>>
  BY DEF ReadAnswer, Understood, Answers, parentVars
<1>2. /\ \A S : Count(toChild, S)
                  = Count(toChild', S) + (IF Head(toChild) \in S THEN 1 ELSE 0)
  BY <1>1, ReadCounts
<1>3. toChild' \in Seq(Characters)
  BY DEF Typed, TypeOK
<1>4. \A S : Count(toChild', S) \in Nat
  BY <1>3, CountIsNatural
<1>5. /\ Count(toParent, Asked) \in Nat /\ Count(toParent, Closing) \in Nat
      /\ Count(toChild, {"X"}) \in Nat /\ Count(toChild', {"X"}) \in Nat
      /\ Count(toChild', Answers) \in Nat
      /\ Displayed \in {0, 1} /\ (Displayed = 0 <=> question = NoQuestion)
  BY <1>4, Naturals
<1>6. /\ Count(toChild, Answers) = Count(toChild', Answers) + 1
      /\ Count(toChild, {"X"}) = Count(toChild', {"X"})
  BY <1>1, <1>2, <1>5 DEF Answers
<1>7. /\ Count(toParent, Asked) + Displayed + Count(toChild, Answers) = 1
      /\ OutOfStep \/ Count(toParent, Closing) + Count(toChild, {"X"}) = 0
  BY <1>1 DEF Understanding, Asking, Echoed
<1>8. /\ Count(toParent, Asked) = 0 /\ question' = NoQuestion
      /\ Count(toChild', Answers) = 0
  BY <1>1, <1>5, <1>6, <1>7, SMTT(40)
<1>9. \/ OutOfStep
      \/ Count(toParent, Closing) = 0 /\ Count(toChild', {"X"}) = 0
  BY <1>5, <1>6, <1>7
<1>10. InStep'
  <2>1. ASSUME NEW f \in Flags
        PROVE  Count(toChild, {f}) = Count(toChild', {f})
    <3>1. Count(toChild', {f}) \in Nat /\ Head(toChild) \notin {f}
      BY <1>4, <1>1 DEF Flags, Answers
    <3>2. Count(toChild, {f})
            = Count(toChild', {f}) + (IF Head(toChild) \in {f} THEN 1 ELSE 0)
      BY <1>2
    <3> QED BY <3>1, <3>2
  <2> QED BY <1>1, <2>1, StillInStep DEF Understanding
<1>11. CASE Proceed /\ item' = item
  BY <1>1, <1>8, <1>9, <1>10, <1>11, Proceeded
<1>12. CASE NextItem /\ toParent' = toParent
  BY <1>1, <1>8, <1>9, <1>10, <1>12, Onward DEF NextItem, OutOfStep
<1> QED BY <1>11, <1>12 DEF ReadAnswer

\* The child reads X, or takes what it reads for something else and goes on: a
\* toggle read now is missed for good.
LEMMA HandshakeUnderstood ==
    ASSUME Typed, Typed', Understanding, Handshake
    PROVE  Understanding'
<1>1. /\ pc = "handshake" /\ toChild # <<>> /\ toChild' = Tail(toChild)
      /\ pc' \in {"start", "work"}
      /\ item <= Len(job) /\ item \in 1..Len(job)
      /\ UNCHANGED <<job, question, boxes, toParent, flags, policy, closed>>
  BY DEF Handshake, NextItem, parentVars, Typed, TypeOK
<1>2. /\ \A S : Count(toChild, S)
                  = Count(toChild', S) + (IF Head(toChild) \in S THEN 1 ELSE 0)
      /\ 1 \in DOMAIN toChild /\ Head(toChild) = toChild[1]
      /\ Head(toChild) \in Characters
  BY <1>1, ReadCounts
<1>3. toChild' \in Seq(Characters)
  BY DEF Typed, TypeOK
<1>4. \A S : Count(toChild', S) \in Nat
  BY <1>3, CountIsNatural
<1>5. /\ Count(toParent, Asked) \in Nat /\ Count(toParent, Closing) \in Nat
      /\ Count(toChild, {"X"}) \in Nat /\ Count(toChild', {"X"}) \in Nat
      /\ Count(toChild', Answers) \in Nat /\ Count(toChild, Answers) \in Nat
      /\ Displayed \in {0, 1} /\ (Displayed = 0 <=> question = NoQuestion)
  BY <1>4, Naturals
<1>6. Count(toParent, Asked) + Displayed + Count(toChild, Answers) = 0
  BY <1>1 DEF Understanding, Asking
<1>7. /\ Count(toParent', Asked) = 0 /\ question' = NoQuestion
      /\ Count(toChild, Answers) = 0
  BY <1>1, <1>5, <1>6
<1>8. Head(toChild) \notin Answers /\ Count(toChild', Answers) = 0
  BY <1>2, <1>5, <1>7, SMTT(40)
<1>9. CASE Head(toChild) = "X"
  <2>1. pc' = "work" /\ UNCHANGED <<item, misread>>
    BY <1>9 DEF Handshake
  <2>2. InStep'
    <3>1. Head(toChild) \notin Flags
      BY <1>9 DEF Flags
    <3> QED BY <1>1, <2>1, <3>1, FlagInStep DEF Understanding
  <2>3. (OutOfStep \/ Echoed)'
    <3>1. CASE OutOfStep
      BY <1>1, <2>1, <3>1 DEF OutOfStep
    <3>2. CASE Echoed
      <4>1. Count(toChild, {"X"}) = Count(toChild', {"X"}) + 1
        BY <1>2, <1>9
      <4>2. Count(toParent, Closing) + Count(toChild, {"X"}) = 1
        BY <1>1, <3>2 DEF Echoed
      <4>3. Count(toParent', Closing) = 0 /\ Count(toChild', {"X"}) = 0
        BY <1>1, <1>5, <4>1, <4>2
      <4>4. item' \in closed'
        BY <1>1, <1>5, <2>1, <3>2, <4>1 DEF Echoed
      <4> QED BY <2>1, <4>3, <4>4, NothingToClose
    <3> QED BY <1>1, <3>1, <3>2 DEF Understanding
  <2> QED BY <1>7, <1>8, <2>1, <2>2, <2>3, NothingAsked
<1>10. CASE Head(toChild) # "X"
  <2>1. misread' = [misread EXCEPT ![item] = Head(toChild)]
    BY <1>10 DEF Handshake
  <2>2. misread \in [1..Len(job) -> Characters \cup {"-"}] /\ misread[item] = "-"
    BY <1>1 DEF Typed, TypeOK
  <2>3. misread'[item] = Head(toChild) /\ \A i \in 1..Len(job) : i # item => misread'[i] = misread[i]
    BY <1>1, <2>1, <2>2
  <2>4. OutOfStep'
    <3>1. Head(toChild) # "-"
      BY <1>2 DEF Characters, Flags, Answers
    <3> QED BY <1>1, <2>3, <3>1 DEF OutOfStep
  <2>5. InStep'
    <3>1. ASSUME NEW f \in Flags
          PROVE  Missed(f)' = Missed(f)
      <4>1. /\ IsFiniteSet(MisreadAs(f)) /\ Cardinality(MisreadAs(f)) \in Nat
            /\ item \notin MisreadAs(f)
        BY <2>2, MissedIsNatural DEF MisreadAs, Flags
      <4>2. Count(toChild, {f})
              = Count(toChild', {f}) + (IF Head(toChild) \in {f} THEN 1 ELSE 0)
        BY <1>2
      <4>3. Count(toChild', {f}) \in Nat
        BY <1>4
      <4>4. CASE Head(toChild) = f
        <5>1. MisreadAs(f)' = MisreadAs(f) \cup {item}
          BY <1>1, <2>3, <4>4 DEF MisreadAs
        <5>2. Cardinality(MisreadAs(f) \cup {item}) = Cardinality(MisreadAs(f)) + 1
          BY <4>1, FS_AddElement
        <5> QED BY <4>1, <4>2, <4>3, <4>4, <5>1, <5>2 DEF Missed
      <4>5. CASE Head(toChild) # f
        <5>1. MisreadAs(f)' = MisreadAs(f)
          BY <1>1, <2>2, <2>3, <4>5 DEF MisreadAs, Flags
        <5> QED BY <4>1, <4>2, <4>3, <4>5, <5>1 DEF Missed
      <4> QED BY <4>4, <4>5
    <3> QED BY <1>1, <3>1 DEF Understanding, InStep
  <2> QED BY <1>1, <1>7, <1>8, <2>4, <2>5, NothingAsked
<1> QED BY <1>9, <1>10

\* The child has done its work on an item.
LEMMA WorkUnderstood ==
    ASSUME Typed, Typed', Understanding, Work
    PROVE  Understanding'
<1>1. /\ pc = "work" /\ pc' = "start"
      /\ UNCHANGED <<job, question, boxes, toChild, flags, policy, closed, misread>>
  BY DEF Work, NextItem, parentVars
<1>2. /\ question = NoQuestion /\ Count(toParent, Asked) = 0
      /\ Count(toChild, Answers) = 0
      /\ \/ OutOfStep
         \/ Count(toParent, Closing) = 0 /\ Count(toChild, {"X"}) = 0
  BY <1>1, NothingPending
<1>3. Send("changed") \/ Send("!") \/ toParent' = toParent
  BY DEF Work, ReportTooLong
<1>4. /\ Count(toParent', Asked) = 0
      /\ Count(toParent, Closing) = 0 => Count(toParent', Closing) = 0
  BY <1>2, <1>3, SentCounts
<1>5. InStep'
  BY <1>1, StillInStep DEF Understanding
<1>6. OutOfStep' <=> OutOfStep
  BY <1>1 DEF OutOfStep
<1> QED BY <1>1, <1>2, <1>4, <1>5, <1>6, Onward

\* An item without a question.
LEMMA StartUnderstood ==
    ASSUME Typed, Typed', Understanding, Skip \/ GoAhead
    PROVE  Understanding'
<1>1. /\ pc = "start" /\ toChild = <<>>
      /\ UNCHANGED <<job, question, boxes, toChild, flags, closed, misread>>
  BY DEF Skip, GoAhead, StartItem, parentVars, historyVars
<1>2. /\ question = NoQuestion /\ Count(toParent, Asked) = 0
      /\ Count(toChild, Answers) = 0
      /\ \/ OutOfStep
         \/ Count(toParent, Closing) = 0 /\ Count(toChild, {"X"}) = 0
  BY <1>1, NothingPending
<1>3. InStep'
  BY <1>1, StillInStep DEF Understanding
<1>4. CASE Skip
  BY <1>1, <1>2, <1>3, <1>4, Onward DEF Skip, NextItem, OutOfStep
<1>5. CASE GoAhead
  BY <1>1, <1>2, <1>3, <1>5, Proceeded DEF GoAhead
<1> QED BY <1>4, <1>5

\* The child ends.
LEMMA DoneUnderstood ==
    ASSUME Typed, Understanding, Done
    PROVE  Understanding'
<1>1. /\ pc = "start" /\ pc' = "dead" /\ Send("D")
      /\ UNCHANGED <<job, question, item, policy>>
  BY DEF Done, parentVars
<1>2. question = NoQuestion /\ Count(toParent, Asked) = 0
  BY <1>1, NothingPending
<1>3. /\ Count(toParent', Asked) = 0
      /\ \A k \in DOMAIN toParent' :
            \/ k \in DOMAIN toParent /\ toParent'[k] = toParent[k]
            \/ toParent'[k] = [type |-> "D", item |-> item]
  BY <1>1, <1>2, SentCounts
<1>4. \A k \in DOMAIN toParent' : toParent'[k] \notin Asked
  <2>1. \A k \in DOMAIN toParent : toParent[k] \notin Asked
    BY <1>2, Naturals
  <2>2. [type |-> "D", item |-> item] \notin Asked
    BY DEF Asked
  <2> QED BY <1>3, <2>1, <2>2
<1>5. Displayed' = 0 /\ question' = NoQuestion
  BY <1>1, <1>2 DEF Displayed
<1> QED BY <1>1, <1>3, <1>4, <1>5 DEF Understanding, OneAtMost

-----------------------------------------------------------------------------
(* The parent and the user                                                   *)

\* The parent reads a message.
LEMMA ReceiveUnderstood ==
    ASSUME Typed, Ending, Understanding, Receive
    PROVE  Understanding'
<1> DEFINE m == Head(toParent)
<1>1. /\ toParent # <<>> /\ toParent' = Tail(toParent)
      /\ UNCHANGED <<job, boxes, pc, item, flags, policy, misread>>
  BY DEF Receive, childVars
<1>2. /\ Count(toParent, Asked)
           = Count(toParent', Asked) + (IF m.type \in {"?", "C"} THEN 1 ELSE 0)
      /\ Count(toParent, Closing)
           = Count(toParent', Closing) + (IF m.type = "X" THEN 1 ELSE 0)
      /\ \A k \in DOMAIN toParent' :
            k + 1 \in DOMAIN toParent /\ toParent'[k] = toParent[k + 1]
      /\ 1 \in DOMAIN toParent /\ m = toParent[1] /\ m \in Message
  BY <1>1, TakenCounts
<1>3. /\ Count(toParent', Asked) \in Nat /\ Count(toParent', Closing) \in Nat
  <2>1. toParent' \in Seq(Message)
    BY <1>1 DEF Typed, TypeOK
  <2> QED BY <2>1, CountIsNatural
<1>4. /\ Count(toParent, Asked) \in Nat /\ Count(toParent, Closing) \in Nat
      /\ Count(toChild, Answers) \in Nat /\ Count(toChild, {"X"}) \in Nat
      /\ Displayed \in {0, 1} /\ (Displayed = 0 <=> question = NoQuestion)
  BY Naturals
<1>5. \A k \in DOMAIN toParent' : toParent'[k] \in Asked => AboutItem(toParent[k + 1])
  BY <1>2 DEF Understanding, OneAtMost
<1>6. ASSUME NEW k \in DOMAIN toParent', toParent'[k] \in Asked
      PROVE  AboutItem(toParent[k])'
  <2>1. AboutItem(toParent[k + 1]) /\ toParent'[k] = toParent[k + 1]
    BY <1>2, <1>5, <1>6
  <2> QED BY <1>1, <2>1 DEF AboutItem, Kind
<1>7. /\ m.type = "D" => pc = "dead"
      /\ OneAtMost
      /\ pc # "dead" => Asking /\ (OutOfStep \/ Echoed) /\ InStep
      /\ OutOfStep' <=> OutOfStep
  BY <1>1, <1>2 DEF Ending, Understanding, OutOfStep
<1> HIDE DEF m
<1>8. CASE m.type = "D"
  <2>1. question' = NoQuestion
    BY <1>8 DEF Receive, Finish, HideQuestion, m
  <2>2. OneAtMost'
    BY <1>2, <1>3, <1>4, <1>6, <1>7, <1>8, <2>1 DEF OneAtMost, Displayed
  <2> QED BY <1>1, <1>7, <1>8, <2>2 DEF Understanding
<1>9. CASE m.type \in {"?", "C"}
  <2>1. /\ question' = m /\ UNCHANGED closed
        /\ toChild' = toChild \/ Write(<<"D">>)
    BY <1>9 DEF Receive, OpenLog, m
  <2>0. /\ Count(toChild', Answers) = Count(toChild, Answers)
        /\ Count(toChild', {"X"}) = Count(toChild, {"X"})
        /\ \A f \in Flags : Count(toChild', {f}) = Count(toChild, {f})
        /\ \A k \in DOMAIN toChild' :
              (k \in DOMAIN toChild /\ toChild'[k] = toChild[k]) \/ toChild'[k] = "D"
    BY <2>1, LogCounts
  <2>2. m \in Asked /\ m # NoQuestion /\ Displayed' = 1
    BY <1>2, <1>9, <2>1 DEF Asked, NoQuestion, Displayed
  <2>3. Count(toParent', Asked) = 0 /\ Count(toParent, Asked) = 1 /\ Displayed = 0
    BY <1>2, <1>3, <1>4, <1>7, <1>9 DEF OneAtMost
  <2>4. AboutItem(question)'
    <3>1. AboutItem(m)
      BY <1>2, <1>7, <2>2 DEF OneAtMost
    <3> QED BY <1>1, <2>1, <3>1 DEF AboutItem, Kind
  <2>5. OneAtMost'
    BY <1>6, <2>1, <2>2, <2>3, <2>4 DEF OneAtMost
  <2>6. ASSUME pc # "dead"
        PROVE  Asking' /\ (OutOfStep \/ Echoed)' /\ InStep'
    <3>1. Asking'
      BY <1>1, <1>7, <2>0, <2>1, <2>2, <2>3, <2>6 DEF Asking, Kind
    <3>2. (OutOfStep \/ Echoed)'
      <4>1. Count(toParent', Closing) = Count(toParent, Closing)
        BY <1>2, <1>3, <1>9
      <4>2. \A k \in DOMAIN toParent' :
               toParent'[k] \in Closing => k + 1 \in DOMAIN toParent /\ toParent[k + 1] \in Closing
                                            /\ toParent'[k] = toParent[k + 1]
        BY <1>2
      <4>3. ASSUME Echoed PROVE Echoed'
        BY <1>1, <2>0, <2>1, <4>1, <4>2, <4>3 DEF Echoed, Kind
      <4> QED BY <1>7, <2>6, <4>3
    <3>3. InStep'
      BY <1>1, <1>7, <2>0, <2>6, StillInStep
    <3> QED BY <3>1, <3>2, <3>3
  <2> QED BY <1>1, <2>5, <2>6 DEF Understanding
<1>10. CASE m.type = "X"
  <2>1. /\ question' = question /\ closed' = closed \cup {m.item}
        /\ toChild' = Append(toChild, "X")
    BY <1>10 DEF Receive, CloseWindows, m
  <2>2. /\ \A S : Count(toChild', S) = Count(toChild, S) + (IF "X" \in S THEN 1 ELSE 0)
        /\ \A k \in DOMAIN toChild' :
              \/ k \in DOMAIN toChild /\ k # Len(toChild') /\ toChild'[k] = toChild[k]
              \/ k = Len(toChild') /\ toChild'[k] = "X"
    BY <2>1, WrittenCounts DEF Characters
  <2>3. /\ Count(toChild', Answers) = Count(toChild, Answers)
        /\ Count(toChild', {"X"}) = Count(toChild, {"X"}) + 1
    BY <1>4, <2>2 DEF Answers
  <2>4. ASSUME NEW f \in Flags
        PROVE  Count(toChild', {f}) = Count(toChild, {f})
    <3>1. Count(toChild, {f}) \in Nat /\ "X" \notin {f}
      BY Naturals DEF Flags
    <3>2. Count(toChild', {f}) = Count(toChild, {f}) + (IF "X" \in {f} THEN 1 ELSE 0)
      BY <2>2
    <3> QED BY <3>1, <3>2
  <2>5. Count(toParent', Asked) = Count(toParent, Asked) /\ Displayed' = Displayed
    BY <1>2, <1>3, <1>10, <2>1 DEF Displayed
  <2>6. OneAtMost'
    <3>1. question' # NoQuestion => AboutItem(question)'
      BY <1>1, <1>7, <2>1 DEF OneAtMost, AboutItem, Kind
    <3> QED BY <1>6, <1>7, <2>1, <2>5, <3>1 DEF OneAtMost
  <2>7. ASSUME pc # "dead"
        PROVE  Asking' /\ (OutOfStep \/ Echoed)' /\ InStep'
    <3>1. ASSUME Echoed
          PROVE  pc = "handshake" /\ m.item = item
      <4>1. Count(toParent, Closing) >= 1
        BY <1>2, <1>3, <1>10
      <4>2. pc = "handshake"
        BY <1>4, <3>1, <4>1 DEF Echoed
      <4>3. m \in Closing
        BY <1>2, <1>10 DEF Closing
      <4> QED BY <1>2, <3>1, <4>2, <4>3 DEF Echoed
    <3>2. Asking'
      BY <1>1, <1>7, <2>2, <2>3, <2>5, <2>7 DEF Asking, Kind
    <3>3. ASSUME Echoed
          PROVE  Echoed'
      BY <1>1, <1>2, <1>3, <1>4, <1>10, <2>1, <2>3, <3>1, <3>3, SMTT(40) DEF Echoed, Kind
    <3>4. InStep'
      BY <1>1, <1>7, <2>4, <2>7, StillInStep
    <3> QED BY <1>7, <2>7, <3>2, <3>3, <3>4
  <2> QED BY <1>1, <2>6, <2>7 DEF Understanding
<1>11. CASE m.type \in {"!", "changed"}
  <2>1. /\ UNCHANGED <<question, closed>>
        /\ toChild' = toChild \/ Write(<<"D">>)
    BY <1>11 DEF Receive, OpenLog, m
  <2>0. /\ Count(toChild', Answers) = Count(toChild, Answers)
        /\ Count(toChild', {"X"}) = Count(toChild, {"X"})
        /\ \A f \in Flags : Count(toChild', {f}) = Count(toChild, {f})
        /\ \A k \in DOMAIN toChild' :
              (k \in DOMAIN toChild /\ toChild'[k] = toChild[k]) \/ toChild'[k] = "D"
    BY <2>1, LogCounts
  <2>2. /\ Count(toParent', Asked) = Count(toParent, Asked) /\ Displayed' = Displayed
        /\ Count(toParent', Closing) = Count(toParent, Closing)
    BY <1>2, <1>3, <1>11, <2>1 DEF Displayed
  <2>3. OneAtMost'
    <3>1. question' # NoQuestion => AboutItem(question)'
      BY <1>1, <1>7, <2>1 DEF OneAtMost, AboutItem, Kind
    <3> QED BY <1>6, <1>7, <2>1, <2>2, <3>1 DEF OneAtMost
  <2>4. ASSUME pc # "dead"
        PROVE  Asking' /\ (OutOfStep \/ Echoed)' /\ InStep'
    <3>1. Asking'
      BY <1>1, <1>7, <2>0, <2>1, <2>2, <2>4 DEF Asking, Kind
    <3>2. (OutOfStep \/ Echoed)'
      <4>2. \A k \in DOMAIN toParent' :
               toParent'[k] \in Closing => k + 1 \in DOMAIN toParent /\ toParent[k + 1] \in Closing
                                            /\ toParent'[k] = toParent[k + 1]
        BY <1>2
      <4>3. ASSUME Echoed PROVE Echoed'
        BY <1>1, <2>0, <2>1, <2>2, <4>2, <4>3 DEF Echoed, Kind
      <4> QED BY <1>7, <2>4, <4>3
    <3>3. InStep'
      BY <1>1, <1>7, <2>0, <2>4, StillInStep
    <3> QED BY <3>1, <3>2, <3>3
  <2> QED BY <1>1, <2>3, <2>4 DEF Understanding
<1> QED BY <1>2, <1>8, <1>9, <1>10, <1>11 DEF Message

\* The answer, after the flag if it is Quiet.
LEMMA AnswerCounts ==
    ASSUME Typed, NEW c \in Answers, NEW quiet \in BOOLEAN,
           toChild' = toChild \o (IF quiet THEN <<"Q", c>> ELSE <<c>>)
    PROVE  /\ \A S : Count(toChild', S)
                       = Count(toChild, S) + (IF quiet /\ "Q" \in S THEN 1 ELSE 0)
                           + (IF c \in S THEN 1 ELSE 0)
           /\ \A k \in DOMAIN toChild' :
                 \/ k \in DOMAIN toChild /\ toChild'[k] = toChild[k]
                 \/ toChild'[k] = "Q"
                 \/ k = Len(toChild') /\ toChild'[k] = c
<1>1. /\ toChild \in Seq(Characters) /\ Append(toChild, "Q") \in Seq(Characters)
      /\ c \in Characters /\ "Q" \in Characters
  BY DEF Typed, TypeOK, Characters, Flags
<1>2. \A S : Count(toChild, S) \in Nat
  BY <1>1, CountIsNatural
<1>3. CASE quiet
  <2>1. toChild' = Append(Append(toChild, "Q"), c)
    BY <1>1, <1>3
  <2>2. \A S : Count(toChild', S)
                 = Count(Append(toChild, "Q"), S) + (IF c \in S THEN 1 ELSE 0)
    <3> DEFINE t == Append(toChild, "Q")
    <3>1. t \in Seq(Characters) /\ toChild' = Append(t, c)
      BY <1>1, <2>1
    <3> HIDE DEF t
    <3>2. \A S : Count(Append(t, c), S) = Count(t, S) + (IF c \in S THEN 1 ELSE 0)
      BY <1>1, <3>1, CountAppend
    <3> QED BY <3>1, <3>2 DEF t
  <2>3. \A S : Count(Append(toChild, "Q"), S)
                 = Count(toChild, S) + (IF "Q" \in S THEN 1 ELSE 0)
    BY <1>1, CountAppend
  <2>4. \A k \in DOMAIN toChild' :
           \/ k \in DOMAIN toChild /\ toChild'[k] = toChild[k]
           \/ toChild'[k] = "Q"
           \/ k = Len(toChild') /\ toChild'[k] = c
    BY <1>1, <2>1
  <2> QED BY <1>3, <2>2, <2>3, <2>4
<1>4. CASE ~quiet
  <2>1. toChild' = Append(toChild, c)
    BY <1>1, <1>4
  <2>2. \A S : Count(toChild', S) = Count(toChild, S) + (IF c \in S THEN 1 ELSE 0)
    BY <1>1, <2>1, CountAppend, ZenonT(40)
  <2>3. \A k \in DOMAIN toChild' :
           \/ k \in DOMAIN toChild /\ toChild'[k] = toChild[k]
           \/ k = Len(toChild') /\ toChild'[k] = c
    BY <1>1, <2>1
  <2> QED BY <1>2, <1>4, <2>2, <2>3, SMTT(40)
<1> QED BY <1>3, <1>4

\* The user answers.
LEMMA AnswerUnderstood ==
    ASSUME Typed, Typed', Understanding, NEW yes \in BOOLEAN, NEW all \in BOOLEAN,
           NEW quiet \in BOOLEAN, Answer(yes, all, quiet)
    PROVE  Understanding'
<1> DEFINE c == IF all THEN IF yes THEN "A" ELSE "S" ELSE IF yes THEN "Y" ELSE "N"
<1>1. /\ question # NoQuestion /\ question' = NoQuestion
      /\ c \in {"A", "S"} => question.type = "C"
      /\ c \in Answers
      /\ boxes' = IF quiet THEN Toggled(boxes, "Q") ELSE boxes
      /\ UNCHANGED <<job, toParent, pc, item, flags, policy, closed, misread>>
  BY DEF Answer, HideQuestion, childVars, Answers
<1>2. Write(IF quiet THEN <<"Q", c>> ELSE <<c>>)
  BY DEF Answer
<1> HIDE DEF c
<1>3. Displayed' = 0
  BY <1>1 DEF Displayed
<1>4. OneAtMost'
  <2>1. Count(toParent, Asked) \in Nat /\ Displayed = 1
    BY <1>1, Naturals
  <2> QED BY <1>1, <1>3, <2>1 DEF Understanding, OneAtMost, AboutItem, Kind
<1>5. CASE pc = "dead"
  BY <1>1, <1>4, <1>5 DEF Understanding
<1>6. CASE pc # "dead"
  <2>1. toChild' = toChild \o (IF quiet THEN <<"Q", c>> ELSE <<c>>)
    BY <1>2, <1>6 DEF Write
  <2>2. /\ \A S : Count(toChild', S)
                    = Count(toChild, S) + (IF quiet /\ "Q" \in S THEN 1 ELSE 0)
                        + (IF c \in S THEN 1 ELSE 0)
        /\ \A k \in DOMAIN toChild' :
              \/ k \in DOMAIN toChild /\ toChild'[k] = toChild[k]
              \/ toChild'[k] = "Q"
              \/ k = Len(toChild') /\ toChild'[k] = c
    BY <1>1, <2>1, AnswerCounts
  <2>3. /\ Count(toParent, Asked) \in Nat /\ Count(toChild, Answers) \in Nat
        /\ Count(toChild, {"X"}) \in Nat /\ Count(toParent, Closing) \in Nat
        /\ Displayed = 1
    BY <1>1, Naturals
  <2>4. Asking /\ (OutOfStep \/ Echoed) /\ InStep
    BY <1>6 DEF Understanding
  <2>5. pc = "asking" /\ Count(toParent, Asked) = 0 /\ Count(toChild, Answers) = 0
    BY <2>3, <2>4 DEF Asking
  <2>6. \A k \in DOMAIN toChild : toChild[k] \notin Answers
    BY <2>5, Naturals
  <2>7. Count(toChild', Answers) = 1 /\ Count(toChild', {"X"}) = Count(toChild, {"X"})
    <3>1. "Q" \notin Answers /\ "X" \notin Answers
      BY DEF Answers
    <3>2. Count(toChild', Answers) = 0 + 0 + 1
      BY <1>1, <2>2, <2>5, <3>1
    <3>3. Count(toChild', {"X"}) = Count(toChild, {"X"}) + 0 + 0
      BY <1>1, <2>2, <3>1
    <3> QED BY <2>3, <3>2, <3>3
  <2>8. c \in {"A", "S"} => Kind = "conflict" /\ policy = "ask"
    BY <1>1 DEF Understanding, OneAtMost, AboutItem
  <2>9. Asking'
    <3>1. Count(toParent', Asked) + Displayed' + Count(toChild', Answers) = 1
      BY <1>1, <1>3, <2>5, <2>7
    <3>2. \A k \in DOMAIN toChild' :
             toChild'[k] \in {"A", "S"} => Kind = "conflict" /\ policy = "ask"
      BY <2>2, <2>4, <2>8 DEF Asking
    <3> QED BY <1>1, <2>4, <2>5, <3>1, <3>2 DEF Asking, Kind
  <2>10. (OutOfStep \/ Echoed)'
    BY <1>1, <2>4, <2>7 DEF OutOfStep, Echoed, Kind
  <2>11. InStep'
    <3> SUFFICES ASSUME NEW f \in Flags
                 PROVE  flags'[f] # boxes'[f] <=> Missed(f)' % 2 = 1
      BY DEF InStep
    <3>1. /\ Count(toChild, {f}) \in Nat /\ c \notin {f}
          /\ Cardinality(MisreadAs(f)) \in Nat /\ Missed(f) \in Nat
          /\ flags[f] # boxes[f] <=> Missed(f) % 2 = 1
      BY <1>1, <2>4, MissedIsNatural DEF InStep, Flags, Answers
    <3>6. Missed(f)' = Count(toChild', {f}) + Cardinality(MisreadAs(f))
      BY <1>1 DEF Missed, MisreadAs
    <3>2. Count(toChild', {f}) = Count(toChild, {f})
            + (IF quiet /\ "Q" \in {f} THEN 1 ELSE 0) + (IF c \in {f} THEN 1 ELSE 0)
      BY <2>2
    <3>3. flags \in [Flags -> BOOLEAN] /\ boxes \in [Flags -> BOOLEAN] /\ flags' = flags
      BY <1>1 DEF Typed, TypeOK
    <3>4. CASE quiet /\ f = "Q"
      <4>1. Missed(f)' = Missed(f) + 1
        BY <3>1, <3>2, <3>4, <3>6 DEF Missed
      <4>2. boxes'[f] = ~boxes[f]
        BY <1>1, <3>3, <3>4 DEF Toggled
      <4>3. Missed(f)' % 2 = 1 <=> ~(Missed(f) % 2 = 1)
        BY <3>1, <4>1, OddOrEven
      <4>4. flags[f] # boxes'[f] <=> ~(flags[f] # boxes[f])
        BY <3>3, <4>2
      <4> QED BY <3>1, <3>3, <4>3, <4>4
    <3>5. CASE ~(quiet /\ f = "Q")
      <4>1. Missed(f)' = Missed(f)
        BY <3>1, <3>2, <3>5, <3>6 DEF Missed
      <4>2. boxes'[f] = boxes[f]
        BY <1>1, <3>3, <3>5 DEF Toggled
      <4> QED BY <3>1, <3>3, <4>1, <4>2
    <3> QED BY <3>4, <3>5
  <2> QED BY <1>4, <2>9, <2>10, <2>11 DEF Understanding
<1> QED BY <1>5, <1>6

\* The user toggles a flag.
LEMMA ToggleUnderstood ==
    ASSUME Typed, Understanding, NEW f \in Flags, ToggleFlag(f)
    PROVE  Understanding'
<1>1. /\ boxes' = Toggled(boxes, f)
      /\ UNCHANGED <<job, question, toParent, pc, item, flags, policy, closed, misread>>
      /\ Write(<<f>>)
  BY DEF ToggleFlag, childVars
<1>2. OneAtMost'
  BY <1>1 DEF Understanding, OneAtMost, AboutItem, Displayed, Kind
<1>3. CASE pc = "dead"
  BY <1>1, <1>2, <1>3 DEF Understanding
<1>4. CASE pc # "dead"
  <2>1. toChild' = Append(toChild, f)
    BY <1>1, <1>4 DEF Write, Typed, TypeOK
  <2>2. /\ \A S : Count(toChild', S) = Count(toChild, S) + (IF f \in S THEN 1 ELSE 0)
        /\ \A k \in DOMAIN toChild' :
              \/ k \in DOMAIN toChild /\ k # Len(toChild') /\ toChild'[k] = toChild[k]
              \/ k = Len(toChild') /\ toChild'[k] = f
    BY <2>1, WrittenCounts DEF Characters
  <2>3. Asking /\ (OutOfStep \/ Echoed) /\ InStep
    BY <1>4 DEF Understanding
  <2>4. /\ Count(toParent, Asked) \in Nat /\ Count(toChild, Answers) \in Nat
        /\ Count(toChild, {"X"}) \in Nat
        /\ Displayed \in {0, 1} /\ (Displayed = 0 <=> question = NoQuestion)
    BY Naturals
  <2>5. /\ Count(toChild', Answers) = Count(toChild, Answers)
        /\ Count(toChild', {"X"}) = Count(toChild, {"X"})
    <3>1. f \notin Answers /\ f # "X" /\ f \notin {"X"}
      BY DEF Flags, Answers
    <3>2. /\ Count(toChild', Answers) = Count(toChild, Answers) + 0
          /\ Count(toChild', {"X"}) = Count(toChild, {"X"}) + 0
      BY <2>2, <3>1
    <3> QED BY <2>4, <3>2
  <2>6. Asking'
    BY <1>1, <2>2, <2>3, <2>5 DEF Asking, Displayed, Kind, Flags
  <2>7. (OutOfStep \/ Echoed)'
    BY <1>1, <2>3, <2>5 DEF OutOfStep, Echoed, Kind
  <2>8. InStep'
    <3> SUFFICES ASSUME NEW g \in Flags
                 PROVE  flags'[g] # boxes'[g] <=> Missed(g)' % 2 = 1
      BY DEF InStep
    <3>1. /\ Count(toChild, {g}) \in Nat
          /\ Cardinality(MisreadAs(g)) \in Nat /\ Missed(g) \in Nat
          /\ flags[g] # boxes[g] <=> Missed(g) % 2 = 1
      BY <2>3, MissedIsNatural DEF InStep
    <3>6. Missed(g)' = Count(toChild', {g}) + Cardinality(MisreadAs(g))
      BY <1>1 DEF Missed, MisreadAs
    <3>2. Count(toChild', {g}) = Count(toChild, {g}) + (IF f \in {g} THEN 1 ELSE 0)
      BY <2>2
    <3>3. flags \in [Flags -> BOOLEAN] /\ boxes \in [Flags -> BOOLEAN] /\ flags' = flags
      BY <1>1 DEF Typed, TypeOK
    <3>4. CASE f = g
      <4>1. Missed(g)' = Missed(g) + 1
        BY <3>1, <3>2, <3>4, <3>6 DEF Missed
      <4>2. boxes'[g] = ~boxes[g]
        BY <1>1, <3>3, <3>4 DEF Toggled
      <4>3. Missed(g)' % 2 = 1 <=> ~(Missed(g) % 2 = 1)
        BY <3>1, <4>1, OddOrEven
      <4>4. flags[g] # boxes'[g] <=> ~(flags[g] # boxes[g])
        BY <3>3, <4>2
      <4> QED BY <3>1, <3>3, <4>3, <4>4
    <3>5. CASE f # g
      <4>1. Missed(g)' = Missed(g)
        BY <3>1, <3>2, <3>5, <3>6 DEF Missed
      <4>2. boxes'[g] = boxes[g]
        BY <1>1, <3>3, <3>5 DEF Toggled
      <4> QED BY <3>1, <3>3, <4>1, <4>2
    <3> QED BY <3>4, <3>5
  <2> QED BY <1>2, <2>6, <2>7, <2>8 DEF Understanding
<1> QED BY <1>3, <1>4

\* The parent notices the end of the child.
LEMMA EndUnderstood ==
    ASSUME Typed, Understanding, ReceiveEOF
    PROVE  Understanding'
<1>1. /\ pc' = "dead" /\ question' = NoQuestion
      /\ UNCHANGED <<job, toParent, item, policy>>
  BY DEF ReceiveEOF, Finish, HideQuestion, childVars
<1>2. Count(toParent, Asked) \in Nat /\ Displayed \in {0, 1} /\ Displayed' = 0
  BY <1>1, Naturals DEF Displayed
<1> QED BY <1>1, <1>2 DEF Understanding, OneAtMost, AboutItem, Kind

-----------------------------------------------------------------------------
(* Theorems                                                                  *)

PipeInv == Typed /\ Ending /\ Understanding

\* Every step keeps the two processes in step.
LEMMA UnderstandingStep ==
    ASSUME PipeInv, [Next]_vars
    PROVE  Understanding'
<1>1. Typed /\ Typed' /\ Ending /\ Understanding
  BY TypedStep DEF PipeInv
<1>2. CASE CheckFlags
  BY <1>1, <1>2, FlagRead DEF CheckFlags, parentVars
<1>3. CASE ReadFlag
  BY <1>1, <1>3, FlagRead DEF ReadFlag, parentVars
<1>4. CASE Die \/ Abort \/ ToggleDetails \/ CloseReport \/ UNCHANGED vars
  BY <1>1, <1>4, NothingSaid
  DEF Die, Abort, OpenLog, ToggleDetails, CloseReport, vars, parentVars, childVars,
      historyVars
<1>5. ASSUME NEW yes \in BOOLEAN, NEW all \in BOOLEAN, NEW quiet \in BOOLEAN,
             Answer(yes, all, quiet)
      PROVE  Understanding'
  BY <1>1, <1>5, AnswerUnderstood
<1>6. ASSUME NEW f \in Flags, ToggleFlag(f)
      PROVE  Understanding'
  BY <1>1, <1>6, ToggleUnderstood
<1>7. CASE Ask \/ Skip \/ GoAhead \/ ReadAnswer \/ Handshake \/ Work \/ Done
  BY <1>1, <1>7, AskUnderstood, StartUnderstood, ReadUnderstood, HandshakeUnderstood,
     WorkUnderstood, DoneUnderstood
<1>8. CASE Receive \/ ReceiveEOF
  BY <1>1, <1>8, ReceiveUnderstood, EndUnderstood
<1> QED
  BY <1>2, <1>3, <1>4, <1>5, <1>6, <1>7, <1>8 DEF PipeInv, Next, Child, Parent, User

\* They are in step when the child starts.
LEMMA InitUnderstanding == Init => Understanding
<1> SUFFICES ASSUME Init PROVE Understanding
  OBVIOUS
<1>1. /\ question = NoQuestion /\ flags = boxes /\ pc = "start"
      /\ toParent = <<>> /\ toChild = <<>>
  BY DEF Init
<1>2. /\ \A S : Count(toParent, S) = 0 /\ Count(toChild, S) = 0
      /\ DOMAIN toParent = {} /\ DOMAIN toChild = {} /\ Displayed = 0
  BY <1>1, CountEmpty DEF Displayed
<1>3. OneAtMost /\ Asking
  BY <1>1, <1>2 DEF OneAtMost, Asking
<1>4. Echoed
  BY <1>1, <1>2 DEF Echoed
<1>5. InStep
  <2>1. ASSUME NEW f \in Flags
        PROVE  Missed(f) = 0
    <3>1. misread = [i \in 1..Len(job) |-> "-"] /\ f # "-"
      BY DEF Init, Flags
    <3>2. MisreadAs(f) = {}
      BY <3>1 DEF MisreadAs
    <3> QED BY <1>2, <3>2, FS_EmptySet DEF Missed
  <2> QED BY <1>1, <2>1 DEF InStep
<1> QED BY <1>3, <1>4, <1>5 DEF Understanding

\* Values stay in range, for any operation and any number of toggles and aborts.
THEOREM TypeCorrect == Spec => []TypeOK
<1>1. Init => Typed
  BY InitTyped
<1>2. Typed /\ [Next]_vars => Typed'
  BY TypedStep
<1>3. Typed => TypeOK
  BY DEF Typed
<1> QED BY <1>1, <1>2, <1>3, PTL DEF Spec

\* The two processes understand each other, but for the characters that are
\* taken for an acknowledgement.
THEOREM PipesAreUnderstood == Spec => []PipeInv
<1>1. Init => PipeInv
  BY InitTyped, InitEnding, InitUnderstanding DEF PipeInv
<1>2. PipeInv /\ [Next]_vars => PipeInv'
  BY TypedStep, NextEnding, UnderstandingStep DEF PipeInv
<1> QED BY <1>1, <1>2, PTL DEF Spec

\* A child that waits for an answer has exactly one question on its way, on
\* display or answered, about the item it is at, and each flag is as its check
\* box says but for the toggles that are on the way or were taken for an
\* acknowledgement.
THEOREM AnswersMeetTheirQuestions == Spec => []OnePipe
<1>1. PipeInv => OnePipe
  <2> SUFFICES ASSUME PipeInv, pc # "dead" PROVE OnePipe
    BY DEF OnePipe
  <2>1. Asking /\ InStep /\ OneAtMost
    BY DEF PipeInv, Understanding
  <2>2. Questions = Count(toParent, Asked)
    <3>1. \A k \in DOMAIN toParent :
             toParent[k].type \in {"?", "C"} <=> toParent[k] \in Asked
      BY DEF PipeInv, Typed, TypeOK, Asked
    <3>2. {k \in DOMAIN toParent : toParent[k].type \in {"?", "C"}}
            = {k \in DOMAIN toParent : toParent[k] \in Asked}
      BY <3>1
    <3> QED BY <3>2 DEF Questions, Count
  <2>3. Questions + (IF question # NoQuestion THEN 1 ELSE 0) + Count(toChild, Answers)
          = (IF pc = "asking" THEN 1 ELSE 0)
    BY <2>1, <2>2 DEF Asking, Displayed
  <2>4. question # NoQuestion => question.item = item
    BY <2>1 DEF OneAtMost, AboutItem
  <2>5. "C" = question.type => Kind = "conflict"
    BY <2>1 DEF OneAtMost, AboutItem, NoQuestion
  <2> QED BY <2>1, <2>3, <2>4, <2>5 DEF OnePipe, InStep, Missed
<1>2. Spec => []PipeInv
  BY PipesAreUnderstood
<1> QED BY <1>1, <1>2, PTL

\* An item for which something else than 'X' was read is given up, and no file
\* system is unmounted before the parent has closed the windows on it unless that
\* has happened to an earlier item.
THEOREM WindowsCloseFirst == Spec => []ClosedOrOutOfStep
<1> DEFINE Worked == \A i \in worked : i < item /\ misread[i] = "-"
           Late(i) == \E j \in 1..(i - 1) : misread[j] # "-"
           Inv == Worked /\ ClosedOrOutOfStep
<1>1. Init => Inv
  BY DEF Init, ClosedOrOutOfStep
<1>2. ASSUME PipeInv, Inv, [Next]_vars
      PROVE  Inv'
  <2>1. /\ item \in 1..(Len(job) + 1) /\ Len(job) \in Nat
        /\ worked \subseteq 1..Len(job)
        /\ misread \in [1..Len(job) -> Characters \cup {"-"}]
        /\ \A i \in 1..Len(job) : misread[i] # "-" => i < item
        /\ pc \in {"handshake", "work"} => item <= Len(job)
    BY <1>2 DEF PipeInv, Typed, TypeOK
  <2>2. closed \subseteq closed' /\ job' = job
    BY <1>2
    DEF Next, Child, Parent, User, CheckFlags, Ask, Skip, GoAhead, ReadAnswer, ReadFlag,
        Handshake, Work, Done, Die, Receive, CloseWindows, ReceiveEOF, Answer,
        ToggleFlag, ToggleDetails, Abort, CloseReport, vars, parentVars, childVars,
        historyVars
  <2>3. CASE Work
    <3>1. /\ worked' = worked \cup {item} /\ pc = "work" /\ item' = item + 1
          /\ misread' = misread
      BY <2>3 DEF Work, NextItem
    <3>2. misread[item] = "-"
      BY <2>1, <3>1
    <3>3. Kind = "unmount" => item \in closed \/ Late(item)
      <4>1. CASE OutOfStep
        <5>1. PICK j \in 1..Len(job) : misread[j] # "-"
          BY <4>1 DEF OutOfStep
        <5>2. j \in 1..(item - 1)
          BY <2>1, <5>1
        <5> QED BY <5>1, <5>2
      <4>2. CASE Echoed
        BY <3>1, <4>2 DEF Echoed
      <4> QED BY <1>2, <3>1, <4>1, <4>2 DEF PipeInv, Understanding
    <3>4. Worked'
      BY <1>2, <2>1, <3>1, <3>2
    <3>5. ClosedOrOutOfStep'
      BY <1>2, <2>1, <2>2, <3>1, <3>2, <3>3 DEF ClosedOrOutOfStep, Kind
    <3> QED BY <3>4, <3>5
  <2>4. CASE Handshake
    <3>1. /\ worked' = worked /\ pc = "handshake" /\ item' \in {item, item + 1}
          /\ \/ misread' = misread
             \/ misread' = [misread EXCEPT ![item] = Head(toChild)]
          /\ toChild # <<>>
      BY <2>4 DEF Handshake, NextItem
    <3>2. misread[item] = "-" /\ Head(toChild) # "-"
      <4>1. Head(toChild) \in Characters
        BY <1>2, <3>1 DEF PipeInv, Typed, TypeOK
      <4> QED BY <2>1, <3>1, <4>1 DEF Characters, Flags, Answers
    <3>3. \A i \in 1..Len(job) : i # item => misread'[i] = misread[i]
      BY <2>1, <3>1
    <3>4. \A i \in 1..Len(job) : misread[i] # "-" => misread'[i] # "-"
      BY <2>1, <3>1, <3>2, <3>3
    <3>5. Worked'
      BY <1>2, <2>1, <3>1, <3>3
    <3>6. ASSUME NEW i \in worked', job'[i] = "unmount"
          PROVE  i \in closed' \/ \E j \in 1..(i - 1) : misread'[j] # "-"
      <4>1. CASE i \in closed
        BY <2>2, <4>1
      <4>2. CASE Late(i)
        <5>1. PICK j \in 1..(i - 1) : misread[j] # "-"
          BY <4>2
        <5>2. j \in 1..Len(job)
          BY <2>1, <3>1, <3>6, <5>1
        <5> QED BY <3>4, <5>1, <5>2
      <4> QED BY <1>2, <2>2, <3>1, <3>6, <4>1, <4>2 DEF ClosedOrOutOfStep
    <3>7. ClosedOrOutOfStep'
      BY <3>5, <3>6 DEF ClosedOrOutOfStep
    <3> QED BY <3>5, <3>7
  <2>5. CASE ~Work /\ ~Handshake
    <3>1. /\ worked' = worked /\ misread' = misread
          /\ item' \in {item, item + 1}
      BY <1>2, <2>5
      DEF Next, Child, Parent, User, CheckFlags, Ask, Skip, GoAhead, ReadAnswer, ReadFlag,
          NextItem, Done, Die, Receive, ReceiveEOF, Answer, ToggleFlag, ToggleDetails,
          Abort, CloseReport, vars, parentVars, childVars, historyVars
    <3>2. Worked'
      BY <1>2, <2>1, <3>1
    <3>3. ClosedOrOutOfStep'
      BY <1>2, <2>2, <3>1 DEF ClosedOrOutOfStep
    <3> QED BY <3>2, <3>3
  <2> QED BY <2>3, <2>4, <2>5
<1>3. PipeInv /\ Inv /\ [Next]_vars => Inv'
  BY <1>2
<1>4. Inv => ClosedOrOutOfStep
  OBVIOUS
<1>5. Spec => []PipeInv
  BY PipesAreUnderstood
<1> QED BY <1>1, <1>3, <1>4, <1>5, PTL DEF Spec

-----------------------------------------------------------------------------
(* What the user answers is what is done                                     *)

Items == 1..Len(job)

\* The current item has no answer yet: it has just been started, or its
\* question is on its way or on display.
Unanswered ==
    \/ pc = "start" \/ question # NoQuestion
    \/ \E k \in DOMAIN toParent : toParent[k] \in Asked

\* An answer that is read or on its way is the one given for the current item.
Clicks ==
    /\ \A i \in Items : heard[i] # "-" => heard[i] = clicked[i]
    /\ \A i \in Items : i > item => clicked[i] = "-"
    /\ Unanswered /\ item \in Items => clicked[item] = "-"
    /\ pc # "dead" => \A k \in DOMAIN toChild :
                         toChild[k] \in Answers => toChild[k] = clicked[item]

Working ==
    /\ worked \subseteq 1..(item - 1)
    /\ \A i \in worked : clicked[i] \in {"-", "Y", "A"}
    /\ pc \in {"handshake", "work"} =>
          /\ clicked[item] \in {"-", "Y", "A"}
          /\ Kind = "conflict" => policy # "skip"

\* An answer for all is the policy once it has been read, and no later conflict
\* is asked about.
ForAll ==
    \A i \in Items : clicked[i] \in {"A", "S"} =>
        /\ \/ policy = IF clicked[i] = "A" THEN "replace" ELSE "skip"
           \/ i = item /\ pc \in {"asking", "dead"}
        /\ \A j \in Items : j > i /\ job[j] = "conflict" =>
              clicked[j] = "-" /\ (j \in worked => clicked[i] = "A")

Obedience == Clicks /\ Working /\ ForAll

\* No item is begun, answered or worked on.
LEMMA KeptObedience ==
    ASSUME Typed, Obedience, pc' = pc \/ pc' = "dead",
           UNCHANGED <<job, item, policy, clicked, heard, worked>>,
           question' \in {question, NoQuestion} \/ Unanswered,
           \A k \in DOMAIN toParent' :
              toParent'[k] \in Asked => \E l \in DOMAIN toParent : toParent[l] \in Asked,
           \A k \in DOMAIN toChild' :
              toChild'[k] \in Answers => \E l \in DOMAIN toChild : toChild[l] = toChild'[k]
    PROVE  Obedience'
<1>1. Unanswered' => Unanswered
  BY DEF Unanswered
<1>2. Clicks'
  <2>1. /\ \A i \in Items' : heard'[i] # "-" => heard'[i] = clicked'[i]
        /\ \A i \in Items' : i > item' => clicked'[i] = "-"
        /\ Unanswered' /\ item' \in Items' => clicked'[item'] = "-"
    BY <1>1 DEF Obedience, Clicks, Items
  <2>2. pc' # "dead" => \A k \in DOMAIN toChild' :
                           toChild'[k] \in Answers => toChild'[k] = clicked'[item']
    BY DEF Obedience, Clicks
  <2> QED BY <2>1, <2>2 DEF Clicks
<1>3. Working'
  BY DEF Obedience, Working, Kind
<1>4. ForAll'
  BY DEF Obedience, ForAll, Items
<1> QED BY <1>2, <1>3, <1>4 DEF Obedience

\* The child goes on with the current item or begins the next one.
LEMMA MovedObedience ==
    ASSUME Typed, Typed', Understanding', Obedience, pc # "dead", item <= Len(job),
           UNCHANGED <<job, clicked>>,
           heard' = heard \/ heard' = [heard EXCEPT ![item] = clicked[item]],
           policy' = policy \/ policy = "ask",
           clicked[item] \in {"A", "S"} =>
              policy' = IF clicked[item] = "A" THEN "replace" ELSE "skip",
           \/ worked' = worked
           \/ /\ worked' = worked \cup {item} /\ item' = item + 1
              /\ pc \in {"handshake", "work"},
           \/ pc' = "start" /\ item' = item + 1
           \/ /\ pc' \in {"handshake", "work"} /\ item' = item
              /\ clicked[item] \in {"-", "Y", "A"}
              /\ Kind = "conflict" => policy' # "skip"
    PROVE  Obedience'
<1>0. /\ item \in Items /\ item \in Nat /\ 1 <= item /\ Len(job) \in Nat /\ item' >= item
      /\ worked \subseteq Items /\ Items' = Items
  BY DEF Typed, TypeOK, Items
<1>1. /\ question' = NoQuestion
      /\ \A k \in DOMAIN toParent' : toParent'[k] \notin Asked
      /\ \A k \in DOMAIN toChild' : toChild'[k] \notin Answers
  <2>1. toParent' \in Seq(Message) /\ toChild' \in Seq(Characters)
    BY DEF Typed, TypeOK, Characters
  <2>2. /\ Displayed' \in {0, 1} /\ (Displayed' = 0 <=> question' = NoQuestion)
        /\ Count(toParent', Asked) \in Nat /\ Count(toChild', Answers) \in Nat
    <3>1. \A S : Count(toParent', S) \in Nat /\ Count(toChild', S) \in Nat
      BY <2>1, CountIsNatural
    <3>2. Displayed' \in {0, 1} /\ (Displayed' = 0 <=> question' = NoQuestion)
      BY DEF Displayed
    <3> QED BY <3>1, <3>2
  <2>3. Count(toParent', Asked) + Displayed' + Count(toChild', Answers) = 0
    BY DEF Understanding, Asking
  <2>4. Count(toParent', Asked) = 0 /\ Displayed' = 0 /\ Count(toChild', Answers) = 0
    BY <2>2, <2>3
  <2> QED BY <2>1, <2>2, <2>4, CountIsNatural
<1>2. Clicks'
  <2>1. \A i \in Items : heard'[i] # "-" => heard'[i] = clicked[i]
    <3>1. \A i \in Items : heard'[i] \in {heard[i], clicked[i]}
      <4>1. heard \in [Items -> Answers \cup {"-"}]
        BY DEF Items, Typed, TypeOK
      <4> QED BY <1>0, <4>1
    <3> QED BY <3>1 DEF Obedience, Clicks
  <2>2. \A i \in Items : i > item' => clicked[i] = "-"
    BY <1>0 DEF Obedience, Clicks, Items
  <2>3. Unanswered' /\ item' \in Items => clicked[item'] = "-"
    <3>1. Unanswered' => pc' = "start"
      BY <1>1 DEF Unanswered
    <3>2. item' > item => (item' \in Items => clicked[item'] = "-")
      BY DEF Obedience, Clicks
    <3> QED BY <1>0, <3>1, <3>2
  <2> QED BY <1>0, <1>1, <2>1, <2>2, <2>3 DEF Clicks
<1>3. Working'
  <2>1. worked \subseteq 1..(item - 1)
    BY DEF Obedience, Working
  <2>2. worked' \subseteq 1..(item' - 1)
    <3>1. item' \in {item, item + 1}
      OBVIOUS
    <3>2. \A i \in 1..(item - 1) : i \in 1..(item' - 1)
      <4>1. CASE item' = item
        BY <4>1
      <4>2. CASE item' = item + 1
        BY <1>0, <4>2
      <4> QED BY <3>1, <4>1, <4>2
    <3>3. item' = item + 1 => item \in 1..(item' - 1)
      BY <1>0
    <3> QED BY <2>1, <3>2, <3>3
  <2>3. \A i \in worked' : clicked[i] \in {"-", "Y", "A"}
    BY DEF Obedience, Working
  <2>4. pc' \in {"handshake", "work"} =>
           /\ clicked[item'] \in {"-", "Y", "A"}
           /\ Kind' = "conflict" => policy' # "skip"
    BY DEF Kind
  <2> QED BY <2>2, <2>3, <2>4 DEF Working
<1>4. ForAll'
  <2> SUFFICES ASSUME NEW i \in Items, clicked[i] \in {"A", "S"}
               PROVE  /\ policy' = IF clicked[i] = "A" THEN "replace" ELSE "skip"
                      /\ \A j \in Items : j > i /\ job[j] = "conflict" =>
                            clicked[j] = "-" /\ (j \in worked' => clicked[i] = "A")
    BY <1>0 DEF ForAll
  <2>1. i # item => policy = IF clicked[i] = "A" THEN "replace" ELSE "skip"
    BY DEF Obedience, ForAll
  <2>2. policy' = IF clicked[i] = "A" THEN "replace" ELSE "skip"
    BY <2>1
  <2>3. ASSUME NEW j \in Items, j > i, job[j] = "conflict"
        PROVE  clicked[j] = "-" /\ (j \in worked' => clicked[i] = "A")
    <3>1. clicked[j] = "-" /\ (j \in worked => clicked[i] = "A")
      BY <2>3 DEF Obedience, ForAll
    <3>2. CASE j \in worked' /\ j \notin worked
      <4>1. j = item /\ pc \in {"handshake", "work"}
        BY <3>2
      <4>2. policy # "skip" /\ i # item
        BY <1>0, <2>3, <4>1 DEF Obedience, Working, Kind, Items
      <4> QED BY <2>1, <3>1, <4>2
    <3> QED BY <3>1, <3>2
  <2> QED BY <2>2, <2>3
<1> QED BY <1>2, <1>3, <1>4 DEF Obedience

\* The child asks about the item it has begun.
LEMMA AskObeys ==
    ASSUME Typed, Obedience, Ask
    PROVE  Obedience'
<1>1. /\ pc = "start" /\ pc' = "asking" /\ item \in Items /\ toChild' = <<>>
      /\ UNCHANGED <<job, item, policy, clicked, heard, worked>>
  BY DEF Ask, StartItem, historyVars, Items, Typed, TypeOK
<1>2. Unanswered
  BY <1>1 DEF Unanswered
<1>3. Clicks'
  BY <1>1, <1>2 DEF Obedience, Clicks, Items
<1>4. Working'
  BY <1>1 DEF Obedience, Working
<1>5. ForAll'
  BY <1>1, <1>2 DEF Obedience, Clicks, ForAll, Items
<1> QED BY <1>3, <1>4, <1>5 DEF Obedience

\* An item the user is not asked about.
LEMMA StartObeys ==
    ASSUME Typed, Typed', Understanding', Obedience, Skip \/ GoAhead
    PROVE  Obedience'
<1>1. /\ pc = "start" /\ item <= Len(job) /\ item \in Items
      /\ UNCHANGED <<job, policy, clicked, heard, worked>>
  BY DEF Skip, GoAhead, StartItem, historyVars, Items, Typed, TypeOK
<1>2. clicked[item] = "-"
  BY <1>1 DEF Obedience, Clicks, Unanswered
<1>3. \/ pc' = "start" /\ item' = item + 1
      \/ /\ pc' \in {"handshake", "work"} /\ item' = item
         /\ Kind = "conflict" => policy' # "skip"
  BY <1>1 DEF Skip, GoAhead, NextItem, Proceed, MayReplace
<1> QED BY <1>1, <1>2, <1>3, MovedObedience

\* The child reads the answer.
LEMMA ReadObeys ==
    ASSUME Typed, Typed', Understanding, Understanding', Obedience, ReadAnswer
    PROVE  Obedience'
<1>1. /\ pc = "asking" /\ item <= Len(job) /\ toChild # <<>>
      /\ Head(toChild) \in Understood /\ Head(toChild) \in Answers
      /\ heard' = [heard EXCEPT ![item] = Head(toChild)]
      /\ policy' = CASE Head(toChild) = "A" -> "replace"
                     [] Head(toChild) = "S" -> "skip"
                     [] OTHER               -> policy
      /\ IF Head(toChild) \in {"Y", "A"} THEN Proceed /\ UNCHANGED item ELSE NextItem
      /\ UNCHANGED <<job, clicked, worked>>
  BY DEF ReadAnswer, Understood, Answers, Typed
<1>2. Head(toChild) = clicked[item]
  <2>1. 1 \in DOMAIN toChild /\ Head(toChild) = toChild[1]
    BY <1>1 DEF Typed, TypeOK
  <2> QED BY <1>1, <2>1 DEF Obedience, Clicks
<1>3. clicked[item] \in {"A", "S"} => AsksConflict
  BY <1>1, <1>2 DEF Understood
<1>4. /\ policy' = policy \/ policy = "ask"
      /\ clicked[item] \in {"A", "S"} =>
            policy' = IF clicked[item] = "A" THEN "replace" ELSE "skip"
  BY <1>1, <1>2, <1>3 DEF AsksConflict, Answers
<1>5. \/ pc' = "start" /\ item' = item + 1
      \/ /\ pc' \in {"handshake", "work"} /\ item' = item
         /\ clicked[item] \in {"-", "Y", "A"}
  BY <1>1, <1>2 DEF NextItem, Proceed
<1>6. pc' \in {"handshake", "work"} => (Kind = "conflict" => policy' # "skip")
  <2>1. CASE Head(toChild) = "A"
    BY <1>1, <2>1
  <2>2. CASE Head(toChild) = "Y"
    BY <1>1, <2>2 DEF Understanding, Asking
  <2>3. CASE Head(toChild) \notin {"Y", "A"}
    BY <1>1, <2>3 DEF NextItem
  <2> QED BY <2>1, <2>2, <2>3
<1> QED BY <1>1, <1>2, <1>4, <1>5, <1>6, MovedObedience

\* The windows are closed, or the work is done.
LEMMA WorkObeys ==
    ASSUME Typed, Typed', Understanding, Understanding', Obedience, Handshake \/ Work
    PROVE  Obedience'
<1>1. /\ pc \in {"handshake", "work"} /\ item <= Len(job)
      /\ UNCHANGED <<job, policy, clicked, heard>>
  BY DEF Handshake, Work, historyVars, Typed
<1>2. clicked[item] \in {"-", "Y", "A"} /\ (Kind = "conflict" => policy # "skip")
  BY <1>1 DEF Obedience, Working
<1>3. clicked[item] = "A" => policy = "replace"
  <2>1. item \in Items
    BY <1>1 DEF Items, Typed, TypeOK
  <2> QED BY <1>1, <2>1 DEF Obedience, ForAll
<1>4. CASE Handshake
  <2>1. /\ worked' = worked
        /\ \/ pc' = "work" /\ item' = item
           \/ pc' = "start" /\ item' = item + 1
    BY <1>4 DEF Handshake, NextItem
  <2> QED BY <1>1, <1>2, <1>3, <2>1, MovedObedience
<1>5. CASE Work
  <2>1. pc' = "start" /\ item' = item + 1 /\ worked' = worked \cup {item}
    BY <1>5 DEF Work, NextItem
  <2> QED BY <1>1, <1>2, <1>3, <2>1, MovedObedience
<1> QED BY <1>4, <1>5

\* The user answers.
LEMMA AnswerObeys ==
    ASSUME Typed, Understanding, Obedience, NEW yes \in BOOLEAN, NEW all \in BOOLEAN,
           NEW quiet \in BOOLEAN, Answer(yes, all, quiet)
    PROVE  Obedience'
<1> DEFINE c == IF all THEN IF yes THEN "A" ELSE "S" ELSE IF yes THEN "Y" ELSE "N"
<1>1. /\ question # NoQuestion /\ question' = NoQuestion
      /\ c \in {"A", "S"} => question.type = "C"
      /\ c \in Answers /\ clicked' = [clicked EXCEPT ![question.item] = c]
      /\ UNCHANGED <<job, toParent, pc, item, policy, heard, worked>>
      /\ Write(IF quiet THEN <<"Q", c>> ELSE <<c>>)
  BY DEF Answer, HideQuestion, childVars, Answers
<1> HIDE DEF c
<1>2. /\ question.item = item /\ item \in Items /\ item \in Nat
      /\ Kind = "conflict" => policy = "ask"
  BY <1>1 DEF Understanding, OneAtMost, AboutItem, Items, Typed, TypeOK
<1>3. /\ clicked[item] = "-" /\ heard[item] = "-" /\ clicked'[item] = c
      /\ \A i \in Items : i # item => clicked'[i] = clicked[i]
  BY <1>1, <1>2 DEF Obedience, Clicks, Unanswered, Items, Typed, TypeOK
<1>4. /\ pc \in {"asking", "dead"}
      /\ \A k \in DOMAIN toParent : toParent[k] \notin Asked
      /\ pc # "dead" => \A k \in DOMAIN toChild : toChild[k] \notin Answers
  <2>1. /\ Count(toParent, Asked) \in Nat /\ Count(toChild, Answers) \in Nat
        /\ Displayed = 1
    BY <1>1, Naturals
  <2>2. Count(toParent, Asked) = 0
    BY <2>1 DEF Understanding, OneAtMost
  <2>3. pc # "dead" => pc = "asking" /\ Count(toChild, Answers) = 0
    BY <2>1 DEF Understanding, Asking
  <2> QED BY <2>2, <2>3, Naturals
<1>5. Clicks'
  <2>1. ~Unanswered'
    BY <1>1, <1>4 DEF Unanswered
  <2>2. pc' # "dead" => \A k \in DOMAIN toChild' : toChild'[k] \in Answers => toChild'[k] = c
    <3>1. "Q" \notin Answers
      BY DEF Answers
    <3>2. pc # "dead" => toChild' = toChild \o (IF quiet THEN <<"Q", c>> ELSE <<c>>)
      BY <1>1 DEF Write
    <3>3. pc # "dead" => \A k \in DOMAIN toChild' :
             \/ k \in DOMAIN toChild /\ toChild'[k] = toChild[k]
             \/ toChild'[k] = "Q"
             \/ toChild'[k] = c
      BY <1>1, <3>2, AnswerCounts
    <3> QED BY <1>1, <1>4, <3>1, <3>3
  <2>3. \A i \in Items : heard[i] # "-" => heard[i] = clicked'[i]
    BY <1>3 DEF Obedience, Clicks
  <2>4. \A i \in Items : i > item => clicked'[i] = "-"
    BY <1>2, <1>3 DEF Obedience, Clicks, Items
  <2> QED BY <1>1, <1>3, <2>1, <2>2, <2>3, <2>4 DEF Clicks, Items
<1>6. Working'
  <2>1. \A i \in worked : i \in Items /\ i # item
    BY <1>2 DEF Obedience, Working, Items, Typed, TypeOK
  <2> QED BY <1>1, <1>3, <1>4, <2>1 DEF Obedience, Working
<1>7. ForAll'
  <2> SUFFICES ASSUME NEW i \in Items, clicked'[i] \in {"A", "S"}
               PROVE  /\ \/ policy = IF clicked'[i] = "A" THEN "replace" ELSE "skip"
                         \/ i = item /\ pc \in {"asking", "dead"}
                      /\ \A j \in Items : j > i /\ job[j] = "conflict" =>
                            clicked'[j] = "-" /\ (j \in worked => clicked'[i] = "A")
    BY <1>1 DEF ForAll, Items
  <2>1. CASE i = item
    <3>1. \A j \in Items : j > i => clicked'[j] = "-" /\ j \notin worked
      BY <1>2, <1>3, <2>1 DEF Obedience, Clicks, Working, Items
    <3> QED BY <1>4, <2>1, <3>1
  <2>2. CASE i # item
    <3>1. /\ clicked[i] = clicked'[i]
          /\ policy = IF clicked[i] = "A" THEN "replace" ELSE "skip"
          /\ \A j \in Items : j > i /\ job[j] = "conflict" =>
                clicked[j] = "-" /\ (j \in worked => clicked[i] = "A")
      BY <1>3, <2>2 DEF Obedience, ForAll
    <3>2. job[item] # "conflict"
      BY <1>2, <3>1 DEF Kind
    <3> QED BY <1>3, <3>1, <3>2
  <2> QED BY <2>1, <2>2
<1> QED BY <1>5, <1>6, <1>7 DEF Obedience

\* The other steps do not touch an answer.
LEMMA OthersObey ==
    ASSUME Typed, Obedience,
           \/ CheckFlags \/ ReadFlag \/ Done \/ Die \/ Receive \/ ReceiveEOF
           \/ (\E f \in Flags : ToggleFlag(f)) \/ ToggleDetails \/ Abort \/ CloseReport
           \/ UNCHANGED vars
    PROVE  Obedience'
<1> DEFINE Same == /\ pc' = pc \/ pc' = "dead"
                   /\ UNCHANGED <<job, item, policy, clicked, heard, worked>>
           Quiet == \A k \in DOMAIN toParent' : toParent'[k] \in Asked =>
                       \E l \in DOMAIN toParent : toParent[l] \in Asked
           Silent == \A k \in DOMAIN toChild' : toChild'[k] \in Answers =>
                        \E l \in DOMAIN toChild : toChild[l] = toChild'[k]
           Shown == question' \in {question, NoQuestion} \/ Unanswered
<1>0. Same /\ Quiet /\ Silent /\ Shown => Obedience'
  BY KeptObedience
<1>1. Same
  BY DEF CheckFlags, ReadFlag, Done, Die, Receive, ReceiveEOF, ToggleFlag,
         ToggleDetails, Abort, CloseReport, vars, parentVars, childVars, historyVars
<1>2. toParent \in Seq(Message) /\ toChild \in Seq(Characters)
  BY DEF Typed, TypeOK, Characters
<1>3. ASSUME NEW type \in {"!", "D"}, Send(type)
      PROVE  Quiet
  <2>1. [type |-> type, item |-> item] \notin Asked
    BY DEF Asked
  <2> QED BY <1>3, <2>1, SentCounts
<1>4. Quiet
  <2>1. CASE Send("!") \/ Send("D")
    BY <1>3, <2>1
  <2>2. CASE toParent' = toParent
    BY <2>2
  <2>3. CASE toParent # <<>> /\ toParent' = Tail(toParent)
    BY <2>3, TakenCounts
  <2> QED BY <2>1, <2>2, <2>3
       DEF CheckFlags, ReadFlag, ProcessFlag, Done, Die, Receive, ReceiveEOF, ToggleFlag,
           ToggleDetails, Abort, CloseReport, vars
<1>5. Silent
  <2>1. CASE toChild' = toChild \/ toChild' = <<>>
    BY <2>1
  <2>2. CASE toChild # <<>> /\ toChild' = Tail(toChild)
    BY <2>2, ReadCounts
  <2>3. ASSUME NEW f \in Flags \cup {"X", "D"}, toChild' = Append(toChild, f)
        PROVE  Silent
    <3>1. f \notin Answers
      BY DEF Flags, Answers
    <3> QED BY <1>2, <2>3, <3>1
  <2>4. ASSUME NEW f \in Flags, ToggleFlag(f)
        PROVE  Silent
    <3>1. toChild' = toChild \/ toChild' = Append(toChild, f)
      BY <1>2, <2>4 DEF ToggleFlag, Write
    <3> QED BY <2>1, <2>3, <3>1
  <2>8. ASSUME toChild' = toChild \/ Write(<<"D">>)
        PROVE  Silent
    <3>1. toChild' = toChild \/ toChild' = Append(toChild, "D")
      BY <1>2, <2>8 DEF Write
    <3> QED BY <2>1, <2>3, <3>1
  <2>5. CASE Receive
    <3>1. \/ toChild' = <<>> \/ toChild' = Append(toChild, "X")
          \/ toChild' = toChild \/ Write(<<"D">>)
      BY <2>5 DEF Receive, Finish, CloseWindows, OpenLog
    <3> QED BY <2>1, <2>3, <2>8, <3>1
  <2>9. CASE Abort \/ ToggleDetails
    BY <2>8, <2>9 DEF Abort, OpenLog, ToggleDetails
  <2>6. CASE CheckFlags \/ ReadFlag
    BY <2>2, <2>6 DEF CheckFlags, ReadFlag, ProcessFlag
  <2>7. CASE Done \/ Die \/ ReceiveEOF \/ CloseReport \/ UNCHANGED vars
    BY <2>1, <2>7 DEF Done, Die, ReceiveEOF, Finish, CloseReport, vars
  <2> QED BY <2>4, <2>5, <2>6, <2>7, <2>9
<1>6. Shown
  <2>1. CASE Receive
    <3>1. toParent # <<>> /\ Head(toParent) \in Message
          /\ 1 \in DOMAIN toParent /\ Head(toParent) = toParent[1]
      BY <1>2, <2>1 DEF Receive
    <3>2. \/ question' \in {question, NoQuestion}
          \/ toParent[1].type \in {"?", "C"}
      BY <2>1, <3>1 DEF Receive, Finish, HideQuestion
    <3> QED BY <3>1, <3>2 DEF Unanswered, Asked
  <2>2. CASE ~Receive
    BY <2>2 DEF CheckFlags, ReadFlag, Done, Die, ReceiveEOF, Finish, HideQuestion,
                ToggleFlag, ToggleDetails, Abort, CloseReport, vars, parentVars
  <2> QED BY <2>1, <2>2
<1> QED BY <1>0, <1>1, <1>4, <1>5, <1>6

-----------------------------------------------------------------------------
(* What is done without an answer is permitted                               *)

\* The setting of the flags after character c.
After(setting, c) == IF c \in Flags THEN Toggled(setting, c) ELSE setting

\* Reading s leads from one setting to the other, over settings in S only.
Goes(s, from, to, S) ==
    \E p \in [0..Len(s) -> S] :
        /\ p[0] = from /\ p[Len(s)] = to
        /\ \A k \in 1..Len(s) : p[k] = After(p[k - 1], s[k])

LEMMA GoesNowhere ==
    ASSUME NEW S, NEW a \in S
    PROVE  Goes(<<>>, a, a, S)
<1> DEFINE p == [k \in {0} |-> a]
<1>1. Len(<<>>) = 0 /\ 0..0 = {0} /\ 1..0 = {}
  OBVIOUS
<1>2. p \in [{0} -> S] /\ p[0] = a
  OBVIOUS
<1> HIDE DEF p
<1> QED BY <1>1, <1>2 DEF Goes

LEMMA GoesFrom ==
    ASSUME NEW T, NEW s \in Seq(T), NEW S, NEW a, NEW b, Goes(s, a, b, S)
    PROVE  a \in S
<1>1. 0 \in 0..Len(s)
  OBVIOUS
<1> QED BY <1>1 DEF Goes

LEMMA GoesFurther ==
    ASSUME NEW T, NEW s \in Seq(T), NEW c \in T, NEW S, NEW R, S \subseteq R,
           NEW a, NEW b, Goes(s, a, b, S), After(b, c) \in R
    PROVE  Goes(Append(s, c), a, After(b, c), R)
<1>1. PICK p \in [0..Len(s) -> S] :
         /\ p[0] = a /\ p[Len(s)] = b
         /\ \A k \in 1..Len(s) : p[k] = After(p[k - 1], s[k])
  BY DEF Goes
<1> DEFINE n == Len(s) + 1
           q == [k \in 0..n |-> IF k = n THEN After(b, c) ELSE p[k]]
<1>2. /\ Len(s) \in Nat /\ Len(Append(s, c)) = n /\ Append(s, c)[n] = c
      /\ \A k \in 1..Len(s) : Append(s, c)[k] = s[k]
  OBVIOUS
<1>3. q \in [0..n -> R]
  <2>1. ASSUME NEW k \in 0..n, k # n
        PROVE  p[k] \in R
    <3>1. k \in 0..Len(s)
      BY <1>2, <2>1
    <3> QED BY <3>1
  <2> QED BY <2>1
<1>4. q[0] = a /\ q[n] = After(b, c)
  BY <1>1, <1>2
<1>5. ASSUME NEW k \in 1..n
      PROVE  q[k] = After(q[k - 1], Append(s, c)[k])
  <2>1. CASE k = n
    <3>1. k - 1 = Len(s) /\ k - 1 \in 0..n /\ k - 1 # n /\ k \in 0..n
      BY <1>2, <2>1
    <3>2. q[k - 1] = b
      BY <1>1, <3>1
    <3> QED BY <1>2, <1>4, <2>1, <3>2
  <2>2. CASE k # n
    <3>1. k \in 1..Len(s) /\ k - 1 \in 0..n /\ k - 1 # n /\ k \in 0..n
      BY <1>2, <2>2
    <3>2. q[k] = p[k] /\ q[k - 1] = p[k - 1]
      BY <2>2, <3>1
    <3> QED BY <1>1, <1>2, <3>1, <3>2
  <2> QED BY <2>1, <2>2
<1> HIDE DEF q, n
<1> QED BY <1>2, <1>3, <1>4, <1>5 DEF Goes

LEMMA GoesOn ==
    ASSUME NEW T, NEW s \in Seq(T), s # <<>>, NEW S, NEW a, NEW b, Goes(s, a, b, S)
    PROVE  Goes(Tail(s), After(a, Head(s)), b, S)
<1>1. PICK p \in [0..Len(s) -> S] :
         /\ p[0] = a /\ p[Len(s)] = b
         /\ \A k \in 1..Len(s) : p[k] = After(p[k - 1], s[k])
  BY DEF Goes
<1> DEFINE n == Len(s) - 1
           q == [k \in 0..n |-> p[k + 1]]
<1>2. /\ Len(s) \in Nat /\ Len(s) >= 1 /\ Len(Tail(s)) = n /\ Head(s) = s[1]
      /\ \A k \in 1..n : Tail(s)[k] = s[k + 1]
  OBVIOUS
<1>3. q \in [0..n -> S]
  <2>1. \A k \in 0..n : k + 1 \in 0..Len(s)
    BY <1>2
  <2> QED BY <2>1
<1>4. q[0] = After(a, Head(s)) /\ q[n] = b
  <2>1. 0 \in 0..n /\ n \in 0..n /\ n + 1 = Len(s) /\ 0 + 1 = 1 /\ 1 \in 1..Len(s) /\ 1 - 1 = 0
    BY <1>2
  <2>2. p[1] = After(p[0], s[1])
    BY <1>1, <2>1
  <2> QED BY <1>1, <1>2, <2>1, <2>2
<1>5. ASSUME NEW k \in 1..n
      PROVE  q[k] = After(q[k - 1], Tail(s)[k])
  <2>1. /\ k \in 0..n /\ k - 1 \in 0..n /\ k + 1 \in 1..Len(s)
        /\ (k - 1) + 1 = k /\ (k + 1) - 1 = k
    BY <1>2
  <2>2. q[k] = p[k + 1] /\ q[k - 1] = p[k]
    BY <2>1
  <2>3. p[k + 1] = After(p[k], s[k + 1])
    BY <1>1, <2>1
  <2> QED BY <1>2, <2>2, <2>3
<1> HIDE DEF q, n
<1> QED BY <1>2, <1>3, <1>4, <1>5 DEF Goes

\* Quiet has been checked at some time, or the child does not have it, nor will.
QuietSeen ==
    \/ \E setting \in seen : setting["Q"]
    \/ ~flags["Q"] /\ ~boxes["Q"] /\ \A k \in DOMAIN toChild : toChild[k] # "Q"

\* Every setting the child has, and will have when it reads what is on its way,
\* is one of the check boxes at some time, if it reads all of it as flags.
Settings ==
    /\ boxes \in seen
    /\ pc # "dead" => /\ QuietSeen
                      /\ OutOfStep \/ Goes(toChild, flags, boxes, seen)

\* The child reads a character.
LEMMA ReadSettings ==
    ASSUME Typed, Settings, pc # "dead", toChild # <<>>, toChild' = Tail(toChild),
           flags' = After(flags, Head(toChild)), UNCHANGED <<job, boxes, seen, misread>>
    PROVE  Settings'
<1>1. toChild \in Seq(Characters) /\ flags \in [Flags -> BOOLEAN]
  BY DEF Typed, TypeOK
<1>2. /\ \A k \in DOMAIN toChild' :
            k + 1 \in DOMAIN toChild /\ toChild'[k] = toChild[k + 1]
      /\ 1 \in DOMAIN toChild /\ Head(toChild) = toChild[1]
  BY ReadCounts
<1>3. QuietSeen'
  <2>1. CASE \E setting \in seen : setting["Q"]
    BY <2>1 DEF QuietSeen
  <2>2. CASE ~flags["Q"] /\ ~boxes["Q"] /\ \A k \in DOMAIN toChild : toChild[k] # "Q"
    <3>1. Head(toChild) # "Q"
      BY <1>2, <2>2
    <3>2. ~flags'["Q"]
      BY <1>1, <2>2, <3>1 DEF After, Toggled, Flags
    <3> QED BY <1>2, <2>2, <3>2 DEF QuietSeen
  <2> QED BY <2>1, <2>2 DEF Settings, QuietSeen
<1>4. (OutOfStep \/ Goes(toChild, flags, boxes, seen))'
  <2>1. CASE OutOfStep
    BY <2>1 DEF OutOfStep
  <2>2. CASE Goes(toChild, flags, boxes, seen)
    <3>1. Goes(Tail(toChild), After(flags, Head(toChild)), boxes, seen)
      BY <1>1, <2>2, GoesOn
    <3> QED BY <3>1
  <2> QED BY <2>1, <2>2 DEF Settings
<1> QED BY <1>3, <1>4 DEF Settings

\* The parent writes a character: boxes in between, if it is one of two.
LEMMA WrittenSettings ==
    ASSUME Typed, Settings, NEW c \in Characters, toChild' = Append(toChild, c),
           boxes' = After(boxes, c), seen \subseteq seen', boxes' \in seen',
           UNCHANGED <<job, flags, misread>>, pc' = pc \/ pc' = "dead"
    PROVE  Settings'
<1>1. toChild \in Seq(Characters) /\ boxes \in [Flags -> BOOLEAN]
  BY DEF Typed, TypeOK
<1>2. \A k \in DOMAIN toChild' :
         (k \in DOMAIN toChild /\ toChild'[k] = toChild[k]) \/ toChild'[k] = c
  BY <1>1
<1> SUFFICES ASSUME pc # "dead"
             PROVE  QuietSeen' /\ (OutOfStep \/ Goes(toChild, flags, boxes, seen))'
  BY DEF Settings
<1>3. QuietSeen'
  <2>1. CASE \E setting \in seen : setting["Q"]
    BY <2>1 DEF QuietSeen
  <2>2. CASE ~flags["Q"] /\ ~boxes["Q"] /\ \A k \in DOMAIN toChild : toChild[k] # "Q"
    <3>1. CASE c = "Q"
      <4>1. boxes'["Q"]
        BY <1>1, <2>2, <3>1 DEF After, Toggled, Flags
      <4> QED BY <4>1 DEF QuietSeen
    <3>2. CASE c # "Q"
      <4>1. ~boxes'["Q"]
        BY <1>1, <2>2, <3>2 DEF After, Toggled, Flags
      <4>2. \A k \in DOMAIN toChild' : toChild'[k] # "Q"
        BY <1>2, <2>2, <3>2
      <4> QED BY <2>2, <4>1, <4>2 DEF QuietSeen
    <3> QED BY <3>1, <3>2
  <2> QED BY <2>1, <2>2 DEF Settings, QuietSeen
<1>4. (OutOfStep \/ Goes(toChild, flags, boxes, seen))'
  <2>1. CASE OutOfStep
    BY <2>1 DEF OutOfStep
  <2>2. CASE Goes(toChild, flags, boxes, seen)
    <3>1. Goes(Append(toChild, c), flags, After(boxes, c), seen')
      BY <1>1, <2>2, GoesFurther
    <3> QED BY <3>1
  <2> QED BY <2>1, <2>2 DEF Settings
<1> QED BY <1>3, <1>4

\* The user answers, and may check Quiet with the answer.
LEMMA AnswerSettings ==
    ASSUME Typed, Settings, NEW yes \in BOOLEAN, NEW all \in BOOLEAN,
           NEW quiet \in BOOLEAN, Answer(yes, all, quiet)
    PROVE  Settings'
<1> DEFINE c == IF all THEN IF yes THEN "A" ELSE "S" ELSE IF yes THEN "Y" ELSE "N"
           t == Append(toChild, "Q")
<1>1. /\ c \in Answers /\ c \in Characters /\ c \notin Flags /\ c # "Q"
      /\ quiet => ~boxes["Q"]
      /\ boxes' = IF quiet THEN Toggled(boxes, "Q") ELSE boxes
      /\ seen' = seen \cup {boxes'}
      /\ Write(IF quiet THEN <<"Q", c>> ELSE <<c>>)
      /\ UNCHANGED <<job, pc, flags, misread>>
  BY DEF Answer, childVars, Answers, Characters, Flags
<1> HIDE DEF c
<1>2. toChild \in Seq(Characters) /\ boxes \in [Flags -> BOOLEAN] /\ "Q" \in Characters
  BY DEF Typed, TypeOK, Characters, Flags
<1>3. CASE pc = "dead"
  BY <1>1, <1>3 DEF Settings
<1>4. CASE pc # "dead" /\ ~quiet
  <2>1. toChild' = Append(toChild, c) /\ boxes' = After(boxes, c)
    BY <1>1, <1>2, <1>4 DEF Write, After
  <2> QED BY <1>1, <2>1, WrittenSettings
<1>5. CASE pc # "dead" /\ quiet
  <2>1. toChild' = toChild \o <<"Q", c>>
    BY <1>1, <1>5 DEF Write
  <2>2. toChild' = Append(t, c) /\ t \in Seq(Characters)
    BY <1>1, <1>2, <2>1
  <2>3. boxes' = After(boxes, "Q") /\ boxes' = After(boxes', c) /\ boxes'["Q"]
    BY <1>1, <1>2, <1>5 DEF After, Toggled, Flags
  <2>4. QuietSeen'
    BY <1>1, <2>3 DEF QuietSeen
  <2>5. (OutOfStep \/ Goes(toChild, flags, boxes, seen))'
    <3>1. CASE OutOfStep
      BY <1>1, <3>1 DEF OutOfStep
    <3>2. CASE Goes(toChild, flags, boxes, seen)
      <4>1. Goes(t, flags, boxes', seen')
        BY <1>1, <1>2, <2>3, <3>2, GoesFurther
      <4> HIDE DEF t
      <4>2. Goes(Append(t, c), flags, After(boxes', c), seen')
        BY <1>1, <2>2, <2>3, <4>1, GoesFurther
      <4> QED BY <1>1, <2>2, <2>3, <4>2
    <3> QED BY <1>5, <3>1, <3>2 DEF Settings
  <2> QED BY <1>1, <2>4, <2>5 DEF Settings
<1> QED BY <1>3, <1>4, <1>5

\* What the child is told of Details, or nothing.
LEMMA LogSettings ==
    ASSUME Typed, Settings, toChild' = toChild \/ Write(<<"D">>),
           pc' = pc \/ pc' = "dead", UNCHANGED <<job, flags, boxes, seen, misread>>
    PROVE  Settings'
<1>1. toChild \in Seq(Characters) /\ "D" \in Characters
  BY DEF Typed, TypeOK, Characters
<1>2. CASE toChild' = toChild
  BY <1>2 DEF Settings, QuietSeen, OutOfStep
<1>3. CASE toChild' = Append(toChild, "D")
  <2>1. boxes' = After(boxes, "D") /\ boxes' \in seen'
    BY DEF After, Flags, Settings
  <2> QED BY <1>1, <1>3, <2>1, WrittenSettings
<1> QED BY <1>1, <1>2, <1>3 DEF Write

\* Every step keeps the settings.
LEMMA SettingsStep ==
    ASSUME PipeInv, Settings, [Next]_vars
    PROVE  Settings'
<1>0. Typed /\ Ending
  BY DEF PipeInv
<1>1. CASE CheckFlags \/ ReadFlag
  <2>1. /\ pc # "dead" /\ toChild # <<>> /\ ProcessFlag
        /\ UNCHANGED <<job, boxes, seen, misread>>
    BY <1>1 DEF CheckFlags, ReadFlag, parentVars
  <2>2. toChild' = Tail(toChild) /\ flags' = After(flags, Head(toChild))
    BY <2>1 DEF ProcessFlag, After
  <2> QED BY <1>0, <2>1, <2>2, ReadSettings
<1>2. CASE ReadAnswer
  <2>1. /\ pc # "dead" /\ toChild # <<>> /\ toChild' = Tail(toChild)
        /\ Head(toChild) \in Answers /\ UNCHANGED <<job, flags, boxes, seen, misread>>
    BY <1>2 DEF ReadAnswer, Understood, Answers, parentVars
  <2>2. flags' = After(flags, Head(toChild))
    BY <2>1 DEF After, Answers, Flags
  <2> QED BY <1>0, <2>1, <2>2, ReadSettings
<1>3. CASE Handshake
  <2>1. /\ pc = "handshake" /\ toChild # <<>> /\ toChild' = Tail(toChild)
        /\ UNCHANGED <<job, flags, boxes, seen>>
    BY <1>3 DEF Handshake, parentVars
  <2>2. CASE Head(toChild) = "X"
    <3>1. misread' = misread /\ flags' = After(flags, Head(toChild))
      BY <1>3, <2>1, <2>2 DEF Handshake, After, Flags
    <3> QED BY <1>0, <2>1, <3>1, ReadSettings
  <2>3. CASE Head(toChild) # "X"
    <3>1. misread' = [misread EXCEPT ![item] = Head(toChild)]
      BY <1>3, <2>3 DEF Handshake
    <3>2. item \in 1..Len(job) /\ misread \in [1..Len(job) -> Characters \cup {"-"}]
      BY <1>0, <2>1 DEF Typed, TypeOK
    <3>3. /\ \A k \in DOMAIN toChild' :
                k + 1 \in DOMAIN toChild /\ toChild'[k] = toChild[k + 1]
          /\ Head(toChild) \in Characters
      BY <1>0, <2>1, ReadCounts
    <3>4. Head(toChild) # "-"
      BY <3>3 DEF Characters, Flags, Answers
    <3>5. OutOfStep'
      BY <2>1, <3>1, <3>2, <3>4 DEF OutOfStep
    <3>6. QuietSeen'
      BY <2>1, <3>3 DEF Settings, QuietSeen
    <3> QED BY <2>1, <3>5, <3>6 DEF Settings
  <2> QED BY <2>2, <2>3
<1>4. CASE Receive
  <2>1. UNCHANGED <<job, pc, flags, boxes, seen, misread>>
    BY <1>4 DEF Receive, childVars
  <2>2. CASE pc = "dead"
    BY <2>1, <2>2 DEF Settings
  <2>3. CASE pc # "dead"
    <3>1. Head(toParent).type # "D"
      <4>1. toParent # <<>> /\ toParent \in Seq(Message)
        BY <1>0, <1>4 DEF Receive, Ending
      <4>2. Head(toParent) = toParent[1] /\ 1 \in 1..Len(toParent)
        BY <4>1
      <4> QED BY <1>0, <2>3, <4>2 DEF Ending
    <3>2. toChild' = toChild \/ Write(<<"D">>) \/ toChild' = Append(toChild, "X")
      BY <1>4, <3>1 DEF Receive, OpenLog, CloseWindows
    <3>3. ASSUME toChild' = Append(toChild, "X")
          PROVE  Settings'
      <4>1. "X" \in Characters /\ boxes' = After(boxes, "X") /\ boxes' \in seen'
        BY <2>1 DEF Characters, After, Flags, Settings
      <4> QED BY <1>0, <2>1, <3>3, <4>1, WrittenSettings
    <3> QED BY <1>0, <2>1, <3>2, <3>3, LogSettings
  <2> QED BY <2>2, <2>3
<1>5. ASSUME NEW f \in Flags, ToggleFlag(f)
      PROVE  Settings'
  <2>1. /\ boxes' = After(boxes, f) /\ seen' = seen \cup {boxes'} /\ Write(<<f>>)
        /\ UNCHANGED <<job, pc, flags, misread>>
    BY <1>5 DEF ToggleFlag, After, childVars
  <2>2. CASE pc = "dead"
    BY <2>1, <2>2 DEF Settings
  <2>3. CASE pc # "dead"
    <3>1. toChild' = Append(toChild, f) /\ f \in Characters
      BY <1>0, <2>1, <2>3 DEF Write, Characters, Typed, TypeOK
    <3> QED BY <1>0, <2>1, <3>1, WrittenSettings
  <2> QED BY <2>2, <2>3
<1>6. ASSUME NEW yes \in BOOLEAN, NEW all \in BOOLEAN, NEW quiet \in BOOLEAN,
             Answer(yes, all, quiet)
      PROVE  Settings'
  BY <1>0, <1>6, AnswerSettings
<1>7. CASE Abort \/ ToggleDetails
  BY <1>0, <1>7, LogSettings DEF Abort, OpenLog, ToggleDetails, childVars, historyVars
<1>8. CASE ReceiveEOF
  BY <1>8 DEF ReceiveEOF, Settings, childVars, historyVars
<1>9. CASE Done \/ Die
  BY <1>9 DEF Done, Die, Settings, parentVars, historyVars
<1>10. CASE Ask \/ Skip \/ GoAhead \/ Work \/ CloseReport \/ UNCHANGED vars
  <2>1. UNCHANGED <<job, toChild, flags, boxes, seen, misread>>
    BY <1>10 DEF Ask, Skip, GoAhead, Work, CloseReport, vars, parentVars, childVars,
                 historyVars
  <2>2. pc' # "dead" => pc # "dead"
    BY <1>10 DEF Ask, Skip, GoAhead, StartItem, Work, CloseReport, vars, childVars
  <2> QED BY <2>1, <2>2 DEF Settings, QuietSeen, OutOfStep
<1> QED BY <1>1, <1>2, <1>3, <1>4, <1>5, <1>6, <1>7, <1>8, <1>9, <1>10
        DEF Next, Child, Parent, User

\* What has been worked on without an answer, or is about to be, is permitted;
\* a policy that allows it is the first one or an answer for all.
Permission ==
    /\ policy \in {"replace", "newer"} =>
          \/ chosen \in {"replace", "newer"}
          \/ \E j \in 1..item : j \in Items /\ clicked[j] = "A"
    /\ \A i \in worked : clicked[i] = "-" => Permitted(i)
    /\ pc \in {"handshake", "work"} /\ clicked[item] = "-" => Permitted(item)

\* What is permitted once stays so.
LEMMA PermittedStays ==
    ASSUME seen \subseteq seen', UNCHANGED <<job, chosen>>,
           NEW i \in Items, \A j \in Items : clicked[j] = "A" => clicked'[j] = "A",
           Permitted(i)
    PROVE  Permitted(i)'
<1>1. CASE job[i] = "protected"
  BY <1>1 DEF Permitted
<1>2. CASE job[i] = "conflict"
  <2>1. \A j \in 1..(i - 1) : j \in Items
    BY DEF Items
  <2> QED BY <1>2, <2>1 DEF Permitted
<1>3. CASE job[i] \notin {"protected", "conflict"}
  BY <1>3 DEF Permitted
<1> QED BY <1>1, <1>2, <1>3

\* An item the child begins without a question is permitted.
LEMMA BegunIsPermitted ==
    ASSUME Typed, Obedience, Settings, Permission, GoAhead
    PROVE  Permitted(item)
<1>1. /\ pc = "start" /\ toChild = <<>> /\ item \in Items /\ item \in Nat
      /\ ~AsksPlain /\ MayReplace
  BY DEF GoAhead, StartItem, Items, Typed, TypeOK
<1>2. /\ Kind \in Kinds
      /\ flags \in [Flags -> BOOLEAN]
  BY <1>1 DEF Typed, TypeOK, Kind, Items
<1>3. clicked[item] = "-"
  BY <1>1 DEF Obedience, Clicks, Unanswered
<1>4. CASE Kind = "protected"
  <2>1. ~OutOfStep
    <3>1. PICK kinds \in Operations : job \in Seq(kinds)
      BY DEF Typed
    <3>2. \A i \in Items : job[i] \in kinds
      BY <3>1 DEF Items
    <3>3. "unmount" \notin kinds
      BY <1>1, <1>4, <3>1, <3>2 DEF Operations, Kind
    <3> QED BY <3>2, <3>3 DEF Typed, OutOfStep, Items
  <2>2. flags \in seen
    <3>1. Goes(toChild, flags, boxes, seen) /\ toChild \in Seq(Characters)
      BY <1>1, <2>1 DEF Settings, Typed, TypeOK
    <3> QED BY <3>1, GoesFrom
  <2>3. flags["Q"] /\ flags["F"]
    BY <1>1, <1>2, <1>4 DEF AsksPlain, QuietOn, ForceOn, Flags
  <2> QED BY <1>4, <2>2, <2>3 DEF Permitted, Kind
<1>5. CASE Kind = "conflict"
  <2>1. policy \in {"replace", "newer"}
    BY <1>1, <1>5 DEF MayReplace
  <2>2. ASSUME NEW j \in 1..item, j \in Items, clicked[j] = "A"
        PROVE  j \in 1..(item - 1)
    <3>1. j # item
      BY <1>3, <2>2
    <3> QED BY <1>1, <3>1
  <2> QED BY <1>5, <2>1, <2>2 DEF Permission, Permitted, Kind
<1>6. CASE Kind \notin {"protected", "conflict"}
  <2>1. flags["Q"]
    BY <1>1, <1>2, <1>6 DEF AsksPlain, QuietOn, Kinds
  <2>2. \E setting \in seen : setting["Q"]
    BY <1>1, <2>1 DEF Settings, QuietSeen
  <2> QED BY <1>6, <2>2 DEF Permitted, Kind
<1> QED BY <1>4, <1>5, <1>6

\* Every step keeps what is permitted.
LEMMA PermissionStep ==
    ASSUME PipeInv, Typed', Obedience, Obedience', Settings, Permission, [Next]_vars
    PROVE  Permission'
<1>1. /\ Typed /\ Understanding /\ item \in Nat /\ worked \subseteq Items
      /\ pc \notin {"start", "dead"} => item \in Items
      /\ clicked \in [Items -> Answers \cup {"-"}]
  BY DEF PipeInv, Typed, TypeOK, Items
<1>2. UNCHANGED <<job, chosen>> /\ seen \subseteq seen' /\ item' \in {item, item + 1}
  BY DEF Next, Child, Parent, User, CheckFlags, Ask, Skip, GoAhead, ReadAnswer,
         ReadFlag, NextItem, Proceed, Handshake, Work, Done, Die, Receive, ReceiveEOF,
         Answer, ToggleFlag, ToggleDetails, Abort, CloseReport, vars, parentVars,
         childVars, historyVars
<1>3. \/ UNCHANGED clicked
      \/ /\ pc \in {"asking", "dead"} /\ pc' = pc /\ item' = item /\ item \in Items
         /\ \E c \in Answers : clicked' = [clicked EXCEPT ![item] = c]
         /\ clicked[item] = "-" /\ worked' = worked /\ policy' = policy
  <2>1. ASSUME NEW yes \in BOOLEAN, NEW all \in BOOLEAN, NEW quiet \in BOOLEAN,
               Answer(yes, all, quiet)
        PROVE  /\ pc \in {"asking", "dead"} /\ pc' = pc /\ item' = item /\ item \in Items
               /\ \E c \in Answers : clicked' = [clicked EXCEPT ![item] = c]
               /\ clicked[item] = "-" /\ worked' = worked /\ policy' = policy
    <3>1. /\ question # NoQuestion
          /\ UNCHANGED <<pc, item, policy, worked>>
          /\ \E c \in Answers : clicked' = [clicked EXCEPT ![question.item] = c]
      BY <2>1 DEF Answer, childVars, Answers
    <3>2. question.item = item /\ item \in Items
      BY <1>1, <3>1 DEF Understanding, OneAtMost, AboutItem, Items, Typed
    <3>3. pc \in {"asking", "dead"}
      <4>1. /\ Count(toParent, Asked) \in Nat /\ Count(toChild, Answers) \in Nat
            /\ Displayed = 1
        BY <1>1, <3>1, Naturals
      <4> QED BY <1>1, <4>1 DEF Understanding, Asking
    <3>4. clicked[item] = "-"
      BY <3>1, <3>2 DEF Obedience, Clicks, Unanswered
    <3> QED BY <3>1, <3>2, <3>3, <3>4
  <2> QED BY <2>1 DEF Next, Child, Parent, User, CheckFlags, Ask, Skip, GoAhead,
         ReadAnswer, ReadFlag, Handshake, Work, Done, Die, Receive, ReceiveEOF,
         ToggleFlag, ToggleDetails, Abort, CloseReport, vars, historyVars
<1>4. \A i \in Items : clicked[i] # "-" => clicked'[i] = clicked[i]
  BY <1>1, <1>3
<1>5. \A i \in Items : clicked'[i] = "-" => clicked[i] = "-"
  BY <1>1, <1>4
<1>6. \A i \in Items : Permitted(i) => Permitted(i)'
  <2>1. \A j \in Items : clicked[j] = "A" => clicked'[j] = "A"
    BY <1>4
  <2> QED BY <1>2, <2>1, PermittedStays
<1>7. \/ policy' = policy \/ policy' = "skip"
      \/ policy' = "replace" /\ ReadAnswer /\ Head(toChild) = "A"
  BY DEF Next, Child, Parent, User, CheckFlags, Ask, Skip, GoAhead, ReadAnswer,
         ReadFlag, Handshake, Work, Done, Die, Receive, ReceiveEOF, Answer, ToggleFlag,
         ToggleDetails, Abort, CloseReport, vars, childVars
<1>8. policy' \in {"replace", "newer"} =>
         \/ chosen' \in {"replace", "newer"}
         \/ \E j \in 1..item' : j \in Items' /\ clicked'[j] = "A"
  <2>1. ASSUME NEW j \in 1..item, j \in Items, clicked[j] = "A"
        PROVE  j \in 1..item' /\ j \in Items' /\ clicked'[j] = "A"
    <3>1. j \in 1..item'
      BY <1>1, <1>2
    <3> QED BY <1>2, <1>4, <2>1, <3>1 DEF Items
  <2>2. CASE policy' = policy
    BY <1>2, <2>1, <2>2 DEF Permission
  <2>3. CASE policy' = "skip"
    BY <2>3
  <2>4. CASE policy' = "replace" /\ ReadAnswer /\ Head(toChild) = "A"
    <3>1. /\ pc = "asking" /\ toChild # <<>> /\ UNCHANGED clicked
      BY <2>4 DEF ReadAnswer
    <3>2. Head(toChild) = clicked[item]
      <4>1. 1 \in DOMAIN toChild /\ Head(toChild) = toChild[1] /\ Head(toChild) \in Answers
        BY <1>1, <2>4, <3>1 DEF Typed, TypeOK, Answers
      <4> QED BY <3>1, <4>1 DEF Obedience, Clicks
    <3>3. item \in 1..item /\ item \in Items
      BY <1>1, <3>1 DEF Items
    <3> QED BY <2>1, <2>4, <3>2, <3>3
  <2> QED BY <1>7, <2>2, <2>3, <2>4
<1>9. \/ worked' = worked
      \/ Work /\ worked' = worked \cup {item}
  <2>1. Work => worked' = worked \cup {item}
    BY DEF Work
  <2>2. ~Work => worked' = worked
    BY DEF Next, Child, Parent, User, CheckFlags, Ask, Skip, GoAhead, ReadAnswer,
           ReadFlag, Handshake, Done, Die, Receive, ReceiveEOF, Answer, ToggleFlag,
           ToggleDetails, Abort, CloseReport, vars, historyVars
  <2> QED BY <2>1, <2>2
<1>10. ASSUME NEW i \in worked', clicked'[i] = "-"
       PROVE  Permitted(i)'
  <2>1. CASE i \in worked
    BY <1>1, <1>5, <1>6, <1>10, <2>1 DEF Permission
  <2>2. CASE Work /\ i = item
    <3>1. pc = "work" /\ item \in Items
      BY <1>1, <2>2 DEF Work
    <3> QED BY <1>5, <1>6, <1>10, <2>2, <3>1 DEF Permission
  <2> QED BY <1>9, <2>1, <2>2
<1>11. ASSUME pc' \in {"handshake", "work"}, NEW i \in Items, i = item',
              clicked'[i] = "-"
       PROVE  Permitted(i)'
  <2>1. \/ pc \in {"handshake", "work"} /\ item' = item
        \/ GoAhead /\ item' = item
        \/ ReadAnswer /\ item' = item /\ Head(toChild) \in {"Y", "A"}
    BY <1>11 DEF Next, Child, Parent, User, CheckFlags, Ask, Skip, GoAhead, ReadAnswer,
         ReadFlag, NextItem, Handshake, Work, Done, Die, Receive, ReceiveEOF, Answer,
         ToggleFlag, ToggleDetails, Abort, CloseReport, vars, childVars
  <2>2. CASE pc \in {"handshake", "work"} /\ item' = item
    BY <1>1, <1>5, <1>6, <1>11, <2>2 DEF Permission
  <2>3. CASE GoAhead /\ item' = item
    <3>1. Permitted(item) /\ i = item
      BY <1>1, <1>11, <2>3, BegunIsPermitted
    <3>2. Permitted(i)
      BY <3>1 DEF Permitted
    <3> QED BY <1>6, <3>2
  <2>4. CASE ReadAnswer /\ item' = item /\ Head(toChild) \in {"Y", "A"}
    <3>1. pc = "asking" /\ toChild # <<>> /\ UNCHANGED clicked
      BY <2>4 DEF ReadAnswer
    <3>2. 1 \in DOMAIN toChild /\ Head(toChild) = toChild[1] /\ Head(toChild) \in Answers
      BY <1>1, <2>4, <3>1 DEF Typed, TypeOK, Answers
    <3>3. clicked[item] \in {"Y", "A"}
      BY <2>4, <3>1, <3>2 DEF Obedience, Clicks
    <3> QED BY <1>11, <2>4, <3>1, <3>3
  <2> QED BY <2>1, <2>2, <2>3, <2>4
<1>12. pc' \in {"handshake", "work"} /\ clicked'[item'] = "-" => Permitted(item)'
  <2> SUFFICES ASSUME pc' \in {"handshake", "work"}, clicked'[item'] = "-"
               PROVE  Permitted(item)'
    OBVIOUS
  <2>1. item' \in Items
    BY <1>2 DEF Typed, TypeOK, Items
  <2> QED BY <1>11, <2>1 DEF Permitted
<1> QED BY <1>8, <1>10, <1>12 DEF Permission

\* The child works on what the user wants, and only with an answer, flags or a
\* policy for it.
THEOREM AnswersAreObeyed == Spec => []Obeyed
<1>1. Init => Obedience
  <2> SUFFICES ASSUME Init PROVE Obedience
    OBVIOUS
  <2>1. /\ toChild = <<>> /\ worked = {} /\ pc = "start" /\ item = 1
        /\ \A i \in Items : clicked[i] = "-" /\ heard[i] = "-"
    BY DEF Init, Items
  <2> QED BY <2>1 DEF Obedience, Clicks, Working, ForAll, Items
<1>2. ASSUME PipeInv, Obedience, [Next]_vars
      PROVE  Obedience'
  <2>1. Typed /\ Typed' /\ Understanding /\ Understanding'
    BY <1>2, TypedStep, UnderstandingStep DEF PipeInv
  <2>2. CASE Ask \/ Skip \/ GoAhead \/ ReadAnswer \/ Handshake \/ Work
    BY <1>2, <2>1, <2>2, AskObeys, StartObeys, ReadObeys, WorkObeys
  <2>3. ASSUME NEW yes \in BOOLEAN, NEW all \in BOOLEAN, NEW quiet \in BOOLEAN,
               Answer(yes, all, quiet)
        PROVE  Obedience'
    BY <1>2, <2>1, <2>3, AnswerObeys
  <2>4. CASE \/ CheckFlags \/ ReadFlag \/ Done \/ Die \/ Receive \/ ReceiveEOF
             \/ (\E f \in Flags : ToggleFlag(f)) \/ ToggleDetails \/ Abort
             \/ CloseReport \/ UNCHANGED vars
    BY <1>2, <2>1, <2>4, OthersObey
  <2> QED BY <1>2, <2>2, <2>3, <2>4 DEF Next, Child, Parent, User
<1>3. Init => Settings /\ Permission
  <2> SUFFICES ASSUME Init PROVE Settings /\ Permission
    OBVIOUS
  <2>1. /\ toChild = <<>> /\ worked = {} /\ pc = "start" /\ chosen = policy
        /\ flags = boxes /\ seen = {boxes}
    BY DEF Init
  <2>2. QuietSeen
    BY <2>1 DEF QuietSeen
  <2>3. Goes(toChild, flags, boxes, seen)
    BY <2>1, GoesNowhere
  <2> QED BY <2>1, <2>2, <2>3 DEF Settings, Permission
<1>4. ASSUME PipeInv, Obedience, Settings, Permission, [Next]_vars
      PROVE  Obedience' /\ Settings' /\ Permission'
  <2>1. Obedience' /\ Settings'
    BY <1>2, <1>4, SettingsStep
  <2>2. Typed'
    BY <1>4, TypedStep DEF PipeInv
  <2> QED BY <1>4, <2>1, <2>2, PermissionStep
<1>5. PipeInv /\ Obedience /\ Permission => Obeyed
  <2>1. ASSUME PipeInv, Obedience, Permission, NEW i \in Items
        PROVE  /\ heard[i] # "-" => heard[i] = clicked[i]
               /\ i \in worked =>
                    IF clicked[i] = "-" THEN Permitted(i) ELSE clicked[i] \in {"Y", "A"}
               /\ clicked[i] \in {"A", "S"} =>
                    \A j \in (i + 1)..Len(job) : job[j] = "conflict" =>
                        clicked[j] = "-" /\ (j \in worked => clicked[i] = "A")
    <3>1. \A j \in (i + 1)..Len(job) : j \in Items /\ j > i
      BY DEF Items
    <3>2. i \in worked =>
             IF clicked[i] = "-" THEN Permitted(i) ELSE clicked[i] \in {"Y", "A"}
      BY <2>1 DEF Obedience, Working, Permission
    <3> QED BY <2>1, <3>1, <3>2 DEF Obedience, Clicks, ForAll
  <2> QED BY <2>1 DEF Obeyed, Items
<1>6. Spec => []PipeInv
  BY PipesAreUnderstood
<1>7. PipeInv /\ (Obedience /\ Settings /\ Permission) /\ [Next]_vars
        => (Obedience /\ Settings /\ Permission)'
  BY <1>4
<1> QED BY <1>1, <1>3, <1>5, <1>6, <1>7, PTL DEF Spec

=============================================================================
