----------------------------- MODULE Thumbnails -----------------------------
(***************************************************************************)
(* Thumbnails: the queue each filer window works through (filer.c), the    *)
(* children that make the pictures and the files they are kept in          *)
(* (pixmaps.c), and the pixmap cache (FSCache.tla) every window looks at.  *)
(*                                                                         *)
(* A chain is what works on a window's queue: an idle callback that takes  *)
(* the next file, then either the callback of a picture found at once or   *)
(* the child that makes it, and so on; it holds a reference to the         *)
(* window's widget.  Cancelling or closing the window does not stop a      *)
(* chain that waits for its child.                                         *)
(*                                                                         *)
(* Data: a file's contents is a number that a write increments, and a      *)
(* picture is the number of the contents it shows.  `changes' counts what  *)
(* other programs did to the file or to its attributes.  A file that       *)
(* replaces another by rename(2) has its own inode and so is another file  *)
(* here; one that is renamed stays the same.                               *)
(***************************************************************************)
EXTENDS Integers, Sequences, FiniteSets, SequencesExt

CONSTANTS
  Windows,        \* filer windows, all on one directory
  Files,          \* its files
  Makable,        \* those of a type that a child can make a picture of
  Changing,       \* bound: those other programs write or delete
  Icons,          \* bound: those that are used as icons, too
  IconUser,       \* whoever shows a file as an icon (g_fscache_lookup)
  Sizes,          \* sizes a file may have, 0 among them
  Modes,          \* modes it may have
  Children,       \* processes that can be forked before fork() fails
  TooOld,         \* PIXMAP_THUMB_TOO_OLD_TIME
  PurgeAge,       \* PIXMAP_PURGE_TIME
  MaxClock,       \* bound: seconds
  MaxChanges,     \* bound: what is done to a file
  MaxChains       \* bound: chains of a window

ASSUME ThumbAssumption ==
  /\ IsFiniteSet(Files) /\ IsFiniteSet(Children)
  /\ Makable \subseteq Files /\ Changing \subseteq Files /\ Icons \subseteq Files
  /\ IconUser \notin Windows
  /\ Sizes \subseteq Nat
  /\ TooOld \in Nat /\ PurgeAge \in Nat

None == 0                             \* no picture: contents count from 1

VARIABLES
  clock,
  file,           \* per file: there, contents, changes, mtime, ctime, size, mode
  thumb,          \* per file: the picture kept in ~/.cache, if any
  cache,          \* pixmap_cache
  open,           \* per window: not destroyed
  show,           \* per window: show_thumbs
  scanning,       \* per window: between DIR_START_SCAN and DIR_END_SCAN
  queue,          \* per window: thumb_queue
  bar,            \* per window: thumb_bar is visible
  refs,           \* per window: references the chains hold
  idle,           \* per window: filer_next_thumb_real() callbacks pending
  child,          \* per process: what it makes, or idle
  busy,           \* a picture the filer has read and not yet inserted
  hasty           \* history: overwritten contents that no time tells

fileVars == <<clock, file, hasty>>
queueVars == <<open, show, scanning, queue, bar, refs, idle>>
vars == <<fileVars, thumb, cache, queueVars, child, busy>>

Cache == INSTANCE FSCache WITH NoObject <- None

NoThumb == [pic |-> None, mtime |-> 0, size |-> 0]
NoChild == [pc |-> "none"]
(* What a child works on, and for which window's chain.  History: how      *)
(* often the file had changed when the NULL was put in the cache for it    *)
(* (of), and that this has not been purged (alone).                        *)
Child(pc, w, f, pic, info) ==
  [pc |-> pc, win |-> w, file |-> f, pic |-> pic, of |-> info.changes, alone |-> TRUE]
NotBusy == [pic |-> None]

ChildrenOf(w) == {c \in Children : child[c].pc # "none" /\ child[c].win = w}
Chains(w) == idle[w] + Cardinality(ChildrenOf(w)) + (IF busy.pic # None /\ busy.win = w THEN 1 ELSE 0)
-----------------------------------------------------------------------------
(* Files change, and time passes.                                          *)

Tick == /\ clock < MaxClock
        /\ clock' = clock + 1
        /\ UNCHANGED <<file, hasty, thumb, cache, queueVars, child, busy>>

(* A write that the time of a picture cannot tell: a child or the filer    *)
(* has read the old contents and not yet looked at the time; or the        *)
(* picture, in a file or in memory, is so new that another time is         *)
(* tolerated.                                                              *)
IsHasty(f) ==
  \/ \E c \in Children : child[c].pc = "made" /\ child[c].file = f
  \/ busy.pic # None /\ busy.file = f
  \/ thumb[f] # NoThumb /\ clock <= thumb[f].mtime + TooOld
  \/ Cache!Known(cache, f) /\ cache[f].obj # None /\ clock = cache[f].mtime

Write(f) ==
  /\ file[f].there /\ file[f].changes < MaxChanges
  /\ \E s \in Sizes :
       file' = [file EXCEPT ![f].contents = @ + 1, ![f].changes = @ + 1,
                            ![f].mtime = clock, ![f].ctime = clock, ![f].size = s]
  /\ hasty' = IF IsHasty(f) THEN [hasty EXCEPT ![f] = @ \cup {file[f].contents}] ELSE hasty
  /\ UNCHANGED <<clock, thumb, cache, queueVars, child, busy>>

(* chmod(), rename(), link() and utime() leave the contents alone.  When   *)
(* utime() sets the time back, older pictures may pass for the file again: *)
(* the one kept in a file, which only remembers that time, and the one in  *)
(* memory if it is of this very second.                                    *)
Revived(f) ==
  {thumb[f].pic} \cup
  (IF Cache!Known(cache, f) /\ cache[f].ctime = clock THEN {cache[f].obj} ELSE {})

ChangeAttributes(f) ==
  /\ file[f].there /\ file[f].changes < MaxChanges
  /\ \E mode \in Modes, mtime \in 0..clock :
       /\ file' = [file EXCEPT ![f].changes = @ + 1, ![f].mtime = mtime,
                               ![f].ctime = clock, ![f].mode = mode]
       /\ hasty' = IF mtime < file[f].mtime
                   THEN [hasty EXCEPT ![f] = @ \cup (Revived(f) \ {None, file[f].contents})]
                   ELSE hasty
  /\ UNCHANGED <<clock, thumb, cache, queueVars, child, busy>>

Delete(f) ==
  /\ file[f].there /\ file[f].changes < MaxChanges
  /\ file' = [file EXCEPT ![f].there = FALSE, ![f].changes = @ + 1]
  /\ UNCHANGED <<clock, hasty, thumb, cache, queueVars, child, busy>>
-----------------------------------------------------------------------------
(* What the views show.                                                    *)

Viewers == {w \in Windows : open[w] /\ show[w]}

(* DIR_UPDATE of a file: each view gives back its picture and looks for an *)
(* up to date one (display_update_view(), get_style()).                    *)
Reshown(c, f) ==
  LET given == Cache!GivenBack(c, f, Windows)
  IN  IF Viewers # {} /\ Cache!Found(c, f, file[f])
      THEN Cache!HeldBy(Cache!Touched(given, f, clock), f, given[f].held \cup Viewers)
      ELSE given

Update(f) ==
  /\ busy = NotBusy
  /\ cache' = Reshown(cache, f)
  /\ UNCHANGED <<fileVars, thumb, queueVars, child, busy>>

(* The files an open window asks pictures of: those it finds nothing up to *)
(* date for, not even the NULL of one being made.  Looking marks the       *)
(* others as used.  (A file that has gone has left the view with the scan, *)
(* see Directory.tla; one that goes later may be in the queue.)            *)
Fresh == {f \in Files : Cache!Found(cache, f, file[f])}
Wanted == {f \in Files \ Fresh : file[f].there}
Looked == [f \in DOMAIN cache |->
             IF f \in Fresh THEN [cache[f] EXCEPT !.used = clock] ELSE cache[f]]

CreateThumbs(w) == queue[w] \o SetToSeq({f \in Wanted : ~Contains(queue[w], f)})

(* start_thumb_scanning(): the bar tells whether a chain is at work.       *)
Start(w, wanted) ==
  /\ queue' = [queue EXCEPT ![w] = wanted]
  /\ IF wanted # << >> /\ ~bar[w]
     THEN /\ bar' = [bar EXCEPT ![w] = TRUE]
          /\ refs' = [refs EXCEPT ![w] = @ + 1]
          /\ idle' = [idle EXCEPT ![w] = @ + 1]
     ELSE UNCHANGED <<bar, refs, idle>>

StartScan(w) ==
  /\ open[w] /\ ~scanning[w] /\ busy = NotBusy
  /\ scanning' = [scanning EXCEPT ![w] = TRUE]
  /\ UNCHANGED <<fileVars, thumb, cache, open, show, queue, bar, refs, idle, child, busy>>

(* DIR_END_SCAN                                                            *)
EndScan(w) ==
  /\ open[w] /\ scanning[w] /\ busy = NotBusy
  /\ Chains(w) < MaxChains
  /\ scanning' = [scanning EXCEPT ![w] = FALSE]
  /\ IF show[w] THEN Start(w, CreateThumbs(w)) /\ cache' = Looked
                ELSE Start(w, queue[w]) /\ cache' = cache
  /\ UNCHANGED <<fileVars, thumb, open, show, child, busy>>

(* filer_cancel_thumbnails(), from its button or when the window changes   *)
(* to another directory                                                    *)
Cancel(w) ==
  /\ open[w] /\ busy = NotBusy
  /\ bar' = [bar EXCEPT ![w] = FALSE]
  /\ queue' = [queue EXCEPT ![w] = << >>]
  /\ UNCHANGED <<fileVars, thumb, cache, open, show, scanning, refs, idle, child, busy>>

(* display_set_thumbs()                                                    *)
HideThumbs(w) ==
  /\ open[w] /\ show[w] /\ busy = NotBusy
  /\ show' = [show EXCEPT ![w] = FALSE]
  /\ bar' = [bar EXCEPT ![w] = FALSE]
  /\ queue' = [queue EXCEPT ![w] = << >>]
  /\ cache' = [f \in DOMAIN cache |-> [cache[f] EXCEPT !.held = @ \ {w}]]
  /\ UNCHANGED <<fileVars, thumb, open, scanning, refs, idle, child, busy>>

ShowThumbs(w) ==
  /\ open[w] /\ ~show[w] /\ busy = NotBusy
  /\ Chains(w) < MaxChains
  /\ show' = [show EXCEPT ![w] = TRUE]
  /\ cache' = [f \in DOMAIN Looked |->
                 IF f \in Fresh /\ cache[f].obj # None
                 THEN [Looked[f] EXCEPT !.held = @ \cup {w}] ELSE Looked[f]]
  /\ IF scanning[w]
     THEN queue' = [queue EXCEPT ![w] = CreateThumbs(w)] /\ UNCHANGED <<bar, refs, idle>>
     ELSE Start(w, CreateThumbs(w))
  /\ UNCHANGED <<fileVars, thumb, open, scanning, child, busy>>

(* filer_window_destroyed()                                                *)
Close(w) ==
  /\ open[w] /\ busy = NotBusy
  /\ open' = [open EXCEPT ![w] = FALSE]
  /\ queue' = [queue EXCEPT ![w] = << >>]
  /\ bar' = [bar EXCEPT ![w] = FALSE]
  /\ cache' = [f \in DOMAIN cache |-> [cache[f] EXCEPT !.held = @ \ {w}]]
  /\ UNCHANGED <<fileVars, thumb, show, scanning, refs, idle, child, busy>>
-----------------------------------------------------------------------------
(* A chain at work.                                                        *)

(* Mutant of ThumbnailFor: any kept picture will do.                       *)
ThumbnailForAny(f) == IF thumb[f] # NoThumb /\ file[f].there THEN thumb[f].pic ELSE None

(* get_thumbnail_for(): the kept picture will do if its time is that of    *)
(* the file or it is very new, and the file has not become smaller.        *)
ThumbnailFor(f) ==
  IF /\ thumb[f] # NoThumb /\ file[f].there
     /\ (file[f].mtime # thumb[f].mtime => clock <= thumb[f].mtime + TooOld)
     /\ file[f].size >= thumb[f].size
  THEN thumb[f].pic ELSE None

(* filer_next_thumb(), called with a path: show it, and go on; with NULL:  *)
(* go on.                                                                  *)
GoOn(w, c, f) == /\ idle' = [idle EXCEPT ![w] = @ + 1]
                 /\ cache' = Reshown(c, f)

GoOnWithout(w, c) == /\ idle' = [idle EXCEPT ![w] = @ + 1]
                     /\ cache' = c

(* Mutant of EndChain: the window is not unref'd.                          *)
EndChainNoUnref(w) ==
  /\ busy = NotBusy
  /\ idle[w] > 0
  /\ open[w] => queue[w] = << >>
  /\ idle' = [idle EXCEPT ![w] = @ - 1]
  /\ bar' = IF open[w] THEN [bar EXCEPT ![w] = FALSE] ELSE bar
  /\ UNCHANGED <<fileVars, thumb, cache, open, show, scanning, queue, refs, child, busy>>

(* Mutant of EndChain: the bar is not hidden.                              *)
EndChainKeepsBar(w) ==
  /\ busy = NotBusy
  /\ idle[w] > 0
  /\ open[w] => queue[w] = << >>
  /\ idle' = [idle EXCEPT ![w] = @ - 1]
  /\ refs' = [refs EXCEPT ![w] = @ - 1]
  /\ UNCHANGED <<fileVars, thumb, cache, open, show, scanning, queue, bar, child, busy>>

(* The chain of a window that has gone, or that has nothing left to do.    *)
EndChain(w) ==
  /\ busy = NotBusy
  /\ idle[w] > 0
  /\ open[w] => queue[w] = << >>
  /\ idle' = [idle EXCEPT ![w] = @ - 1]
  /\ refs' = [refs EXCEPT ![w] = @ - 1]
  /\ bar' = IF open[w] THEN [bar EXCEPT ![w] = FALSE] ELSE bar
  /\ UNCHANGED <<fileVars, thumb, cache, open, show, scanning, queue, child, busy>>

(* filer_next_thumb_real() takes the first file of the queue.              *)
Take(w) == /\ busy = NotBusy
           /\ idle[w] > 0 /\ open[w] /\ queue[w] # << >>
           /\ queue' = [queue EXCEPT ![w] = Tail(@)]
           /\ UNCHANGED <<fileVars, thumb, open, show, scanning, bar, refs>>

HasImage(f) == Cache!Found(cache, f, file[f]) /\ cache[f].obj # None

(* pixmap_background_thumb(): the picture is in memory.  The reference     *)
(* pixmap_try_thumb() returns is not given back.                           *)
TakeCached(w) ==
  /\ Take(w)
  /\ LET f == Head(queue[w])
     IN  /\ HasImage(f)
         /\ cache' = Reshown([Cache!Touched(cache, f, clock) EXCEPT ![f].leaked = TRUE], f)
  /\ UNCHANGED <<idle, child, busy>>

(* It is kept in a file.  What is read there is put in the cache in a      *)
(* second step, FinishLoad, as the file may change in between.             *)
TakeKept(w) ==
  /\ Take(w)
  /\ LET f == Head(queue[w])
     IN  /\ ~HasImage(f)
         /\ ThumbnailFor(f) # None
         /\ busy' = [pic |-> ThumbnailFor(f), file |-> f, win |-> w, byChild |-> FALSE]
  /\ idle' = [idle EXCEPT ![w] = @ - 1]
  /\ UNCHANGED <<cache, child>>

(* It has to be made: nobody is making it, as the entry would be there,    *)
(* with NULL for its object.                                               *)
Unmade(f) == ~HasImage(f) /\ ThumbnailFor(f) = None

TakeMade(w) ==
  /\ Take(w)
  /\ LET f == Head(queue[w])
     IN  Unmade(f) /\ Cache!Found(cache, f, file[f]) /\ cache' = Cache!Touched(cache, f, clock)
  /\ UNCHANGED <<idle, child, busy>>

(* Mutant of Placed: nothing is put in the cache for the picture to come.  *)
PlacedNothing(f) == cache

Placed(f) == Cache!InsertNew(cache, f, None, file[f], clock)

Free == {c \in Children : child[c].pc = "none"}

Fork(w) ==
  /\ Take(w)
  /\ LET f == Head(queue[w])
     IN  /\ Unmade(f) /\ ~Cache!Found(cache, f, file[f]) /\ f \in Makable
         /\ cache' = Placed(f)
         /\ \E c \in Free :
              child' = [child EXCEPT ![c] = Child("started", w, f, None, file[f])]
  /\ idle' = [idle EXCEPT ![w] = @ - 1]
  /\ UNCHANGED busy

(* Nothing can make it, or fork() fails: the NULL stays.                   *)
GiveUp(w) ==
  /\ Take(w)
  /\ LET f == Head(queue[w])
     IN  /\ Unmade(f) /\ ~Cache!Found(cache, f, file[f])
         /\ f \in Makable => Free = {}
         /\ cache' = Placed(f)
  /\ UNCHANGED <<idle, child, busy>>

(* child_create_thumbnail(): the child loads the image ...                 *)
ChildLoads(c) ==
  /\ child[c].pc = "started"
  /\ \/ /\ file[child[c].file].there
        /\ child' = [child EXCEPT ![c].pc = "made", ![c].pic = file[child[c].file].contents]
     \/ child' = [child EXCEPT ![c].pc = "dead"]          \* cannot load it
  /\ UNCHANGED <<fileVars, thumb, cache, queueVars, busy>>

(* ... and save_thumbnail() keeps the picture, with the time and size the  *)
(* file has by now.                                                        *)
ChildSaves(c) ==
  /\ child[c].pc = "made"
  /\ LET f == child[c].file
     IN  thumb' = IF file[f].there
                  THEN [thumb EXCEPT ![f] = [pic |-> child[c].pic, mtime |-> file[f].mtime,
                                             size |-> file[f].size]]
                  ELSE thumb
  /\ child' = [child EXCEPT ![c].pc = "dead"]
  /\ UNCHANGED <<fileVars, cache, queueVars, busy>>

(* Mutant of ChildDone: the callback is only called with a picture.        *)
ChildDoneSilently(c) ==
  /\ child[c].pc = "dead" /\ busy = NotBusy
  /\ ThumbnailFor(child[c].file) # None
  /\ busy' = [pic |-> ThumbnailFor(child[c].file), file |-> child[c].file,
              win |-> child[c].win, byChild |-> TRUE]
  /\ child' = [child EXCEPT ![c] = NoChild]
  /\ UNCHANGED <<fileVars, thumb, cache, open, show, scanning, queue, bar, refs, idle>>

(* thumbnail_child_done()                                                  *)
ChildDone(c) ==
  /\ child[c].pc = "dead" /\ busy = NotBusy
  /\ LET f == child[c].file
         w == child[c].win
     IN  IF ThumbnailFor(f) # None
         THEN /\ busy' = [pic |-> ThumbnailFor(f), file |-> f, win |-> w, byChild |-> TRUE]
              /\ UNCHANGED <<cache, idle>>
         ELSE GoOnWithout(w, cache) /\ UNCHANGED busy
  /\ child' = [child EXCEPT ![c] = NoChild]
  /\ UNCHANGED <<fileVars, thumb, open, show, scanning, queue, bar, refs>>

(* The picture read from its file goes into the cache: into a new entry,   *)
(* with the details of now and a reference that is not given back, or,     *)
(* when a child made it, into the entry that waits for it, if it is there. *)
FinishLoad ==
  /\ busy # NotBusy
  /\ LET f == busy.file
         new == Cache!InsertNew(cache, f, busy.pic, file[f], clock)
     IN  GoOn(busy.win,
              IF busy.byChild THEN Cache!InsertInto(cache, f, busy.pic, file[f], clock)
              ELSE IF file[f].there THEN [new EXCEPT ![f].leaked = TRUE] ELSE new, f)
  /\ busy' = NotBusy
  /\ UNCHANGED <<fileVars, thumb, open, show, scanning, queue, bar, refs, child>>
-----------------------------------------------------------------------------
(* The rest of the program and of the session.                             *)

(* An icon made from the file itself (g_fscache_lookup()), and dropped.    *)
LoadIcon(f) ==
  /\ busy = NotBusy
  /\ \E pic \in {file[f].contents, None} :               \* None: it is not an image
       cache' = Cache!LookupCreate(cache, f, pic, IconUser, file[f], clock)
  /\ UNCHANGED <<fileVars, thumb, queueVars, child, busy>>

DropIcon(f) ==
  /\ busy = NotBusy
  /\ Cache!Known(cache, f) /\ IconUser \in cache[f].held
  /\ cache' = Cache!GivenBack(cache, f, {IconUser})
  /\ UNCHANGED <<fileVars, thumb, queueVars, child, busy>>

(* The timer of pixmaps_init()                                             *)
Purged(age) ==
  /\ busy = NotBusy
  /\ cache' = Cache!Purge(cache, clock, age)
  /\ child' = [c \in Children |->
                IF child[c] # NoChild /\ child[c].file \in DOMAIN cache \ DOMAIN cache'
                THEN [child[c] EXCEPT !.alone = FALSE] ELSE child[c]]

PurgeMemory == Purged(PurgeAge) /\ UNCHANGED <<fileVars, thumb, queueVars, busy>>

(* purge_disk_cache(), from the options                                    *)
PurgeDisk ==
  /\ Purged(0)
  /\ thumb' = [f \in Files |-> NoThumb]
  /\ UNCHANGED <<fileVars, queueVars, busy>>
-----------------------------------------------------------------------------
(* An earlier session may have kept a picture of what the file was then.   *)
OldThumb == [pic |-> 1, mtime |-> 0, size |-> 1]

Init ==
  /\ clock = TooOld + 1
  /\ file \in [Files -> [there : {TRUE}, contents : {2}, changes : {0}, mtime : {1},
                       ctime : {1}, size : {1}, mode : Modes]]
  /\ hasty = [f \in Files |-> {}]
  /\ \E old \in SUBSET Makable :
       thumb = [f \in Files |-> IF f \in old THEN OldThumb ELSE NoThumb]
  /\ cache = << >>
  /\ open = [w \in Windows |-> TRUE]
  /\ show \in [Windows -> BOOLEAN]
  /\ scanning = [w \in Windows |-> TRUE]
  /\ queue = [w \in Windows |-> << >>]
  /\ bar = [w \in Windows |-> FALSE]
  /\ refs = [w \in Windows |-> 0]
  /\ idle = [w \in Windows |-> 0]
  /\ child = [c \in Children |-> NoChild]
  /\ busy = NotBusy

ChainStep(w) ==
  \/ EndChain(w) \/ TakeCached(w) \/ TakeKept(w) \/ TakeMade(w) \/ Fork(w) \/ GiveUp(w)

ChildStep(c) == ChildLoads(c) \/ ChildSaves(c)

Next ==
  \/ Tick \/ PurgeMemory \/ PurgeDisk \/ FinishLoad
  \/ \E f \in Changing : Write(f) \/ ChangeAttributes(f) \/ Delete(f)
  \/ \E f \in Icons : LoadIcon(f) \/ DropIcon(f)
  \/ \E f \in Files : Update(f)
  \/ \E w \in Windows : \/ StartScan(w) \/ EndScan(w) \/ Cancel(w) \/ HideThumbs(w)
                         \/ ShowThumbs(w) \/ Close(w) \/ ChainStep(w)
  \/ \E c \in Children : ChildStep(c) \/ ChildDone(c)

Spec == Init /\ [][Next]_vars

(* The main loop runs what is pending, and children get to their end.      *)
Fairness == /\ \A w \in Windows : WF_vars(ChainStep(w))
            /\ \A c \in Children : WF_vars(ChildStep(c)) /\ WF_vars(ChildDone(c))
            /\ WF_vars(FinishLoad)

FairSpec == Spec /\ Fairness
-----------------------------------------------------------------------------
(* Every chain of a window holds one reference to its widget and gives it  *)
(* back when it ends (filer_next_thumb_real(): "The window object is       *)
(* unref'd when there is nothing more to do"), however often the window    *)
(* was cancelled, restarted or closed while its children worked.           *)
RefsAreChains == \A w \in Windows : refs[w] = Chains(w)

(* The progress bar is what start_thumb_scanning() takes for a chain at    *)
(* work: it is never visible without one, and outside a scan no queue      *)
(* waits without it.                                                       *)
QueueIsServed ==
  \A w \in Windows : open[w] => /\ bar[w] => Chains(w) > 0
                                /\ queue[w] # << >> /\ ~scanning[w] => bar[w]

(* A picture that passes for up to date shows the contents of the file,    *)
(* unless these were overwritten too soon after, or while, it was made, or *)
(* the time of the file was set back: no order of children, windows,       *)
(* purges and late answers does it.                                        *)
StaleOnlyIfHasty ==
  \A f \in Files :
    HasImage(f) => cache[f].obj = file[f].contents \/ cache[f].obj \in hasty[f]

(* Two children make a picture of the same file at once only if the file   *)
(* or its attributes have changed in between (UPTODATE compares all that   *)
(* stat() tells), or the NULL that stands for the first was purged.        *)
OneMaker ==
  \A c, d \in Children :
    LET x == child[c]
        y == child[d]
    IN  /\ c # d /\ x # NoChild /\ y # NoChild /\ x.file = y.file
        /\ x.alone /\ y.alone /\ file[x.file].there
        => x.of # y.of

(* If the children come to an end, so does the work: a window does not     *)
(* show its progress bar for ever, and the widget of a closed one is let   *)
(* go.                                                                     *)
AtWork(w) == bar[w] \/ (~open[w] /\ refs[w] > 0)

WorkEnds == \A w \in Windows : AtWork(w) ~> ~AtWork(w)
=============================================================================
