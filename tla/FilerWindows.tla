---------------------------- MODULE FilerWindows ----------------------------
(* The filer windows, and the count of open things by which the filer knows  *)
(* when to quit (main.c: number_of_windows, "Quit when this reaches 0        *)
(* again"). Filer windows, dialogs, action windows, panels, the pinboard and *)
(* the desktop all count; a SOAP message counts while it is obeyed.          *)
(*                                                                           *)
(* Each action is one callback of the GTK main loop, which runs to its end   *)
(* before the next. The exception is run_soap(): a message holds several     *)
(* calls, each an action here, and nothing else happens until EndSoap.       *)
(*                                                                           *)
(* A directory stands for a tidied sym_path, and links are left out, so it   *)
(* is the real_path as well. The order of all_filer_windows is left out: a   *)
(* search that takes the first match may take any. What a change of directory does to the Back and *)
(* Forward lists is in FilerHistory, and what a window shows in Views.       *)
EXTENDS Integers, FiniteSets

CONSTANTS
    Windows,    \* addresses of FilerWindow structures
    Dirs,       \* directories
    ParentOf,   \* [Dirs -> Dirs], the root its own parent
    Below,      \* [Dirs -> SUBSET Dirs]: a directory and all below it
    Mounts,     \* mount points that ROX-Filer mounted
    Ids,        \* window names that clients may choose
    Sides,      \* sides of the screen that can hold a panel
    None,
    MaxOpen,    \* bound: things open at once
    MaxCalls    \* bound: calls in one SOAP message

ASSUME WindowsAssumption == IsFiniteSet(Windows) /\ None \notin Windows
ASSUME DirsAssumption == /\ None \notin Dirs
                         /\ ParentOf \in [Dirs -> Dirs]
                         /\ Below \in [Dirs -> SUBSET Dirs]
ASSUME IdsAssumption == None \notin Ids
ASSUME SidesAssumption == IsFiniteSet(Sides)
ASSUME BoundsAssumption == MaxOpen \in Nat /\ MaxCalls \in Nat

\* The things other than filer windows and panels that are counted: offers to
\* unmount, boxes (action windows, information, bulk rename, saving of
\* settings), the pending delayed error, the two dialogs that exist once, the
\* pinboard and the desktop.
Kinds == {"prompt", "box", "error", "bookmarks", "options", "pinboard", "desktop"}

VARIABLES
    path,       \* [Windows -> Dirs \cup {None}]: the sym_path of the windows in
                \* all_filer_windows, None for the others
    window_id,  \* [Windows -> Ids \cup {None}]
    window_with_id,     \* the hash table: [Ids -> Windows \cup {None}]
    window_with_focus,
    pair,       \* pair_left_window and pair_right_window
    spring,     \* spring_window
    armed,      \* spring_context # NULL: a drag hovers over a directory
    unique,     \* o_unique_filer_windows
    others,     \* [Kinds -> Nat]: how many of each are open
    panels,     \* the sides with a panel
    redo,       \* what an idle callback will create again
    calls,      \* 0 in the main loop; inside run_soap() 1 + the calls left
    number_of_windows,
    quit,       \* gtk_main_quit() has been called
    headless    \* ghost: the desktop was the last thing open and was closed

winVars == <<path, window_id, window_with_id, window_with_focus, pair, spring>>
elseVars == <<others, panels, redo>>
countVars == <<number_of_windows, quit>>
vars == <<winVars, armed, unique, elseVars, calls, countVars, headless>>

\* all_filer_windows
Shown == {w \in Windows : path[w] # None}
Free == Windows \ Shown

-----------------------------------------------------------------------------
(* The count                                                                 *)

\* `more' things are opened and then `less' closed by one_less_window(),
\* which quits when it reaches none.
Counted(more, less) ==
    /\ number_of_windows' = number_of_windows + more - less
    /\ quit' = (quit \/ (less > 0 /\ number_of_windows + more - less < 1))

Room(n) == number_of_windows + n <= MaxOpen + (IF calls > 0 THEN 1 ELSE 0)

Opened(kind) == others' = [others EXCEPT ![kind] = @ + 1]

Closed(kind) == others' = [others EXCEPT ![kind] = @ - 1]

-----------------------------------------------------------------------------
(* Filer windows                                                             *)

\* The windows that find_filer_window() may find.
Showing(d) == {w \in Shown : path[w] = d}

\* Mutant of ForgetId: the table keeps the name of a window that is gone.
ForgetIdLazily(gone) ==
    /\ window_id' = [w \in Windows |-> IF w \in gone THEN None ELSE window_id[w]]
    /\ UNCHANGED window_with_id

\* filer_set_id(window, NULL), for every window of the set.
ForgetId(gone) ==
    /\ window_id' = [w \in Windows |-> IF w \in gone THEN None ELSE window_id[w]]
    /\ window_with_id' =
         [i \in Ids |-> IF \E w \in gone : window_id[w] = i THEN None ELSE window_with_id[i]]

\* pair_window_gone()
ForgetPair(gone) ==
    pair' = [side \in {"left", "right"} |-> IF pair[side] \in gone THEN None ELSE pair[side]]

\* spring_win_destroyed()
ForgetSpring(gone) == spring' = IF spring \in gone THEN None ELSE spring

\* The windows in `gone' are destroyed (filer_window_destroyed()), after
\* `more' other things were opened; `now' is where the rest then are.
Destroyed(gone, more, now) ==
    /\ path' = [w \in Windows |-> IF w \in gone THEN None ELSE now[w]]
    /\ window_with_focus' = IF window_with_focus \in gone THEN None ELSE window_with_focus
    /\ ForgetId(gone)
    /\ ForgetPair(gone)
    /\ ForgetSpring(gone)
    /\ Counted(more, Cardinality(gone))

\* filer_set_id(w, i); i = None stands for a call that names no window.
SetId(w, i) ==
    IF i = None THEN UNCHANGED <<window_id, window_with_id>>
    ELSE /\ window_id' = [window_id EXCEPT ![w] = i]
         /\ window_with_id' =
              [j \in Ids |-> IF j = i THEN w
                             ELSE IF j = window_id[w] THEN None ELSE window_with_id[j]]

\* The part of filer_opendir() that makes the window.
Created(w, d) ==
    /\ w \in Free
    /\ path' = [path EXCEPT ![w] = d]

\* filer_opendir(): with the unique option an existing window is presented;
\* the search compares the path as it was given, so a path with a slash at
\* its end (not `tidy') finds none.
FoundFor(d, tidy) == IF unique /\ tidy THEN Showing(d) ELSE {}

OpenDir(d, tidy, id) ==
    /\ \/ \E w \in FoundFor(d, tidy) :
             SetId(w, id) /\ UNCHANGED <<path, countVars>>
       \/ /\ FoundFor(d, tidy) = {} /\ Room(1)
          /\ \E w \in Windows : Created(w, d) /\ SetId(w, id)
          /\ Counted(1, 0)
    /\ UNCHANGED <<window_with_focus, pair, spring, armed, unique, elseVars, headless>>

\* filer_change_to(): with the unique option another window that shows the
\* directory is destroyed. `more' as in Destroyed.
ChangeTo(w, d, more) ==
    LET found == IF unique THEN Showing(d) \ {w} ELSE {}
        now == [path EXCEPT ![w] = d]
    IN  IF found = {} THEN Destroyed({}, more, now)
        ELSE \E other \in found : Destroyed({other}, more, now)

Navigate(w, d) ==
    /\ ChangeTo(w, d, 0)
    /\ UNCHANGED <<armed, unique, elseVars, headless>>

Focus(w) ==
    /\ window_with_focus' = w
    /\ UNCHANGED <<path, window_id, window_with_id, pair, spring, armed,
                   unique, elseVars, countVars, headless>>

\* The user turns the unique option on or off.
SetUnique ==
    /\ unique' = ~unique
    /\ UNCHANGED <<winVars, armed, elseVars, countVars, headless>>

\* filer_openitem() with its close flag: the program was started.
CloseAfterRun(w) ==
    /\ Destroyed({w}, 0, path)
    /\ UNCHANGED <<armed, unique, elseVars, headless>>

\* filer_close_recursive(): an action is about to unmount d, its directory
\* has gone, or a client asks for it.
CloseRecursive(d) ==
    /\ Destroyed({w \in Shown : path[w] \in Below[d]}, 0, path)
    /\ UNCHANGED <<armed, unique, elseVars, headless>>

\* filer_check_mounted(): the windows at or below d look up their directory
\* again, and may_rescan() destroys those whose directory has gone.
CheckMounted(d) ==
    /\ \E gone \in SUBSET {w \in Shown : path[w] \in Below[d]} :
          gone # {} /\ Destroyed(gone, 0, path)
    /\ UNCHANGED <<armed, unique, elseVars, headless>>

-----------------------------------------------------------------------------
(* Offers to unmount                                                         *)

\* get_ancestor_user_mount_point()
MountsOver(d) == {m \in Mounts : d \in Below[m]}

\* The innermost of a set of directories that contain each other.
Innermost(ds) == CHOOSE d \in ds : \A e \in ds : d \in Below[e]

NoOtherBelow(w, m) == \A v \in Shown \ {w} : path[v] \notin Below[m]

\* may_offer_unmount(): unless another window is below m, a dialog is shown,
\* or what the user chose once is done without asking (unmounting opens an
\* action window). `more' is the number of things it opens.
MayOffer(w, m, more) ==
    IF NoOtherBelow(w, m)
    THEN \/ more = 1 /\ \E kind \in {"prompt", "box"} : Opened(kind)
         \/ more = 0 /\ UNCHANGED others
    ELSE more = 0 /\ UNCHANGED others

\* The user closes a window: filer_window_delete(), then its destruction.
Delete(w) ==
    /\ \E more \in 0..1 :
          /\ IF MountsOver(path[w]) # {}
               THEN MayOffer(w, Innermost(MountsOver(path[w])), more)
               ELSE more = 0 /\ UNCHANGED others
          /\ Destroyed({w}, more, path)
    /\ UNCHANGED <<armed, unique, panels, redo, headless>>

\* change_to_parent()
ToParent(w) ==
    /\ ParentOf[path[w]] # path[w]
    /\ \E more \in 0..1 :
          /\ Room(more)
          /\ IF path[w] \in Mounts
               THEN MayOffer(w, path[w], more)
               ELSE more = 0 /\ UNCHANGED others
          /\ ChangeTo(w, ParentOf[path[w]], more)
    /\ UNCHANGED <<armed, unique, panels, redo, headless>>

\* Mutant of Answer: the dialog is gone from the count before the action
\* window is in it.
AnswerCountedFirst(unmount) ==
    /\ others["prompt"] > 0
    /\ others' = [others EXCEPT !["prompt"] = @ - 1,
                                !["box"] = @ + (IF unmount THEN 1 ELSE 0)]
    /\ number_of_windows' = number_of_windows - 1 + (IF unmount THEN 1 ELSE 0)
    /\ quit' = (quit \/ number_of_windows - 1 < 1)
    /\ UNCHANGED <<winVars, armed, unique, panels, redo, headless>>

\* unmount_dialog_response(): unmounting and ejecting start an action.
Answer(unmount) ==
    /\ others["prompt"] > 0
    /\ others' = [others EXCEPT !["prompt"] = @ - 1,
                                !["box"] = @ + (IF unmount THEN 1 ELSE 0)]
    /\ Counted(IF unmount THEN 1 ELSE 0, 1)
    /\ UNCHANGED <<winVars, armed, unique, panels, redo, headless>>

-----------------------------------------------------------------------------
(* Paired windows: filer_pair_open(). The unique option is off while it      *)
(* opens them. `source' is the window it was asked from, or None.            *)

PairOpen(source, l, r) ==
    /\ IF source # None /\ path[source] = l
         THEN \E w \in Free :
                 /\ Room(1)
                 /\ Created(w, r)
                 /\ pair' = [left |-> source, right |-> w]
                 /\ Counted(1, 0)
         ELSE \E v, w \in Free :
                 /\ v # w /\ Room(2)
                 /\ path' = [path EXCEPT ![v] = l, ![w] = r]
                 /\ pair' = [left |-> v, right |-> w]
                 /\ Counted(2, 0)
    /\ UNCHANGED <<window_id, window_with_id, window_with_focus, spring, armed,
                   unique, elseVars, headless>>

-----------------------------------------------------------------------------
(* Windows that a drag opens (dnd.c)                                         *)

\* dnd_spring_load() and dnd_spring_abort(): the drag enters or leaves a
\* directory.
Hover ==
    /\ armed' = ~armed
    /\ UNCHANGED <<winVars, unique, elseVars, countVars, headless>>

\* spring_now(): the drag has stayed. The spring window follows it, or is
\* opened; the unique option is not looked at.
SpringNow(d) ==
    /\ armed
    /\ armed' = FALSE
    /\ IF spring # None
         THEN /\ path' = [path EXCEPT ![spring] = d]
              /\ UNCHANGED <<spring, countVars>>
         ELSE \E w \in Windows :
                 /\ Room(1)
                 /\ Created(w, d)
                 /\ spring' = w
                 /\ Counted(1, 0)
    /\ UNCHANGED <<window_id, window_with_id, window_with_focus, pair, unique,
                   elseVars, headless>>

\* spring_now() over the bookmarks button: bookmarks_edit().
SpringBookmarks ==
    /\ armed
    /\ armed' = FALSE
    /\ IF others["bookmarks"] > 0
         THEN UNCHANGED <<others, countVars>>
         ELSE Room(1) /\ Opened("bookmarks") /\ Counted(1, 0)
    /\ UNCHANGED <<winVars, unique, panels, redo, headless>>

\* spring_check_idle(): the pointer has left the spring window.
SpringClose ==
    /\ spring # None
    /\ Destroyed({spring}, 0, path)
    /\ UNCHANGED <<armed, unique, elseVars, headless>>

-----------------------------------------------------------------------------
(* Dialogs, action windows and errors                                        *)

\* Mutant of OpenBox: every delayed_error() counts.
OpenBoxCountingAll(kind) ==
    /\ Room(1)
    /\ IF kind \in {"bookmarks", "options", "error"} /\ others[kind] > 0
         THEN UNCHANGED others
         ELSE Opened(kind)
    /\ Counted(1, 0)
    /\ UNCHANGED <<winVars, armed, unique, panels, redo, headless>>

\* An action window or a box is opened, or one of the two dialogs that exist
\* once (bookmarks_edit(), menu_show_options()); delayed_error() counts once
\* however many errors are waiting.
OpenBox(kind) ==
    /\ IF kind \in {"bookmarks", "options", "error"} /\ others[kind] > 0
         THEN UNCHANGED <<others, countVars>>
         ELSE Room(1) /\ Opened(kind) /\ Counted(1, 0)
    /\ UNCHANGED <<winVars, armed, unique, panels, redo, headless>>

\* Mutant of CloseBox: both the response and the destruction of a dialog
\* take it off the count.
CloseBoxTwice(kind) ==
    /\ others[kind] > 0
    /\ Closed(kind)
    /\ Counted(0, 2)
    /\ UNCHANGED <<winVars, armed, unique, panels, redo, headless>>

\* It is destroyed, or error_idle_cb() has shown the errors.
CloseBox(kind) ==
    /\ others[kind] > 0
    /\ Closed(kind)
    /\ Counted(0, 1)
    /\ UNCHANGED <<winVars, armed, unique, panels, redo, headless>>

-----------------------------------------------------------------------------
(* Pinboard, panels and desktop                                              *)

\* pinboard_activate(name): an old board is cleared first, without quitting.
PinboardOn ==
    /\ Room(1)
    /\ others' = [others EXCEPT !["pinboard"] = 1]
    /\ number_of_windows' = number_of_windows - others["pinboard"] + 1
    /\ UNCHANGED <<winVars, armed, unique, panels, redo, quit, headless>>

\* pinboard_activate(NULL)
PinboardOff ==
    /\ others["pinboard"] > 0
    /\ Closed("pinboard")
    /\ Counted(0, 1)
    /\ UNCHANGED <<winVars, armed, unique, panels, redo, headless>>

\* pinboard_set_backdrop() without a pinboard: one is turned on, and the user
\* told of it.
SetBackdrop ==
    /\ others["pinboard"] = 0 /\ Room(2)
    /\ others' = [others EXCEPT !["pinboard"] = 1, !["error"] = IF @ > 0 THEN @ ELSE 1]
    /\ Counted(IF others["error"] > 0 THEN 1 ELSE 2, 0)
    /\ UNCHANGED <<winVars, armed, unique, panels, redo, headless>>

\* panel_new(name, side): the old panel of the side is closed while the count
\* is held up by one.
PanelNew(side) ==
    /\ Room(1)
    /\ panels' = panels \cup {side}
    /\ number_of_windows' = number_of_windows + (IF side \in panels THEN 0 ELSE 1)
    /\ quit' = (quit \/ (side \in panels /\ number_of_windows + 1 - 1 < 1))
    /\ UNCHANGED <<winVars, armed, unique, others, redo, headless>>

\* panel_new(NULL, side), or the user closes the panel: panel_destroyed().
PanelGone(side) ==
    /\ side \in panels
    /\ panels' = panels \ {side}
    /\ Counted(0, 1)
    /\ UNCHANGED <<winVars, armed, unique, others, redo, headless>>

\* panel_side_radio_toggled(): the panel is made on the other side, where it
\* may replace one, which is then made on this side; the old one is closed.
PanelMove(from, to) ==
    /\ from \in panels /\ from # to
    /\ Room(1)
    /\ IF to \in panels
         THEN UNCHANGED <<panels, countVars>>
         ELSE panels' = (panels \ {from}) \cup {to} /\ Counted(1, 1)
    /\ UNCHANGED <<winVars, armed, unique, others, redo, headless>>

\* The override-redirect option changes, in the options dialog or by a call:
\* pinboard_check_options() and panel_style_changed() close the pinboard and
\* every panel, and leave it to an idle callback to make them again.
OverrideRedirect ==
    /\ others["options"] > 0 \/ calls > 0
    /\ others' = [others EXCEPT !["pinboard"] = 0]
    /\ panels' = {}
    /\ redo' = [pinboard |-> redo.pinboard \/ others["pinboard"] > 0,
                panels |-> redo.panels \cup panels]
    /\ Counted(0, others["pinboard"] + Cardinality(panels))
    /\ UNCHANGED <<winVars, armed, unique, headless>>

\* recreate_pinboard(), the board's own idle callback.
RecreatePinboard ==
    /\ redo.pinboard /\ Room(1)
    /\ redo' = [redo EXCEPT !.pinboard = FALSE]
    /\ others' = [others EXCEPT !["pinboard"] = 1]
    /\ number_of_windows' = number_of_windows - others["pinboard"] + 1
    /\ headless' = FALSE
    /\ UNCHANGED <<winVars, armed, unique, panels, quit>>

\* recreate_panels(): panel_new() for each.
RecreatePanels ==
    /\ redo.panels # {} /\ Room(Cardinality(redo.panels))
    /\ redo' = [redo EXCEPT !.panels = {}]
    /\ panels' = panels \cup redo.panels
    /\ number_of_windows' = number_of_windows + Cardinality(redo.panels \ panels)
    /\ headless' = FALSE
    /\ UNCHANGED <<winVars, armed, unique, others, quit>>

\* desktop_start(); nothing when there is a desktop already.
DesktopStart ==
    /\ others["desktop"] = 0 /\ Room(1)
    /\ Opened("desktop")
    /\ Counted(1, 0)
    /\ UNCHANGED <<winVars, armed, unique, panels, redo, headless>>

\* desktop_destroyed(): the window manager closes the desktop's window. The
\* count goes down, but nothing looks whether it has reached 0.
DesktopDestroyed ==
    /\ others["desktop"] > 0
    /\ Closed("desktop")
    /\ number_of_windows' = number_of_windows - 1
    /\ headless' = (number_of_windows = 1)
    /\ UNCHANGED <<winVars, armed, unique, panels, redo, quit>>

-----------------------------------------------------------------------------
(* SOAP messages: run_soap() and client_event_filter(). The process begins   *)
(* with the message made from its own command line.                          *)

BeginSoap ==
    /\ calls' = MaxCalls + 1
    /\ number_of_windows' = number_of_windows + 1
    /\ UNCHANGED <<winVars, armed, unique, elseVars, quit, headless>>

EndSoap ==
    /\ calls' = 0
    /\ number_of_windows' = number_of_windows - 1
    /\ quit' = (quit \/ number_of_windows - 1 = 0)
    /\ headless' = FALSE
    /\ UNCHANGED <<winVars, armed, unique, elseVars>>

\* rpc_OpenDir(): a named window changes directory, any other path is opened
\* and the window named.
RpcOpenDir(d, tidy, id) ==
    IF id # None /\ window_with_id[id] # None
    THEN Navigate(window_with_id[id], d)
    ELSE OpenDir(d, tidy, id)

\* rpc_PairWindows() asks from the window with the focus, or from another.
PairSources ==
    IF window_with_focus # None THEN {window_with_focus}
    ELSE IF Shown # {} THEN Shown ELSE {None}

RpcCall ==
    \/ \E d \in Dirs, tidy \in BOOLEAN, id \in Ids \cup {None} : RpcOpenDir(d, tidy, id)
    \/ \E d \in Dirs : CloseRecursive(d)
    \/ \E source \in PairSources, l, r \in Dirs : PairOpen(source, l, r)
    \/ PinboardOn
    \/ PinboardOff
    \/ SetBackdrop
    \/ \E side \in Sides : PanelNew(side) \/ PanelGone(side)
    \/ OverrideRedirect
    \/ SetUnique
    \/ \E kind \in {"box", "error"} : OpenBox(kind)

-----------------------------------------------------------------------------
(* The specification                                                         *)

Init ==
    /\ path = [w \in Windows |-> None]
    /\ window_id = [w \in Windows |-> None]
    /\ window_with_id = [i \in Ids |-> None]
    /\ window_with_focus = None
    /\ pair = [side \in {"left", "right"} |-> None]
    /\ spring = None
    /\ armed = FALSE
    /\ unique \in BOOLEAN
    /\ others = [kind \in Kinds |-> 0]
    /\ panels = {}
    /\ redo = [pinboard |-> FALSE, panels |-> {}]
    /\ calls = MaxCalls + 1
    /\ number_of_windows = 1
    /\ quit = FALSE
    /\ headless = FALSE

\* Callbacks that need something of the filer's on the screen, or a child.
Callback ==
    \/ \E w \in Shown :
         \/ Delete(w) \/ ToParent(w) \/ CloseAfterRun(w) \/ Focus(w)
         \/ \E d \in Dirs : Navigate(w, d)
         \/ \E d \in Dirs : PairOpen(w, path[w], d)
    \/ \E d \in Dirs, tidy \in BOOLEAN : OpenDir(d, tidy, None)
    \/ \E d \in Dirs : CloseRecursive(d) \/ CheckMounted(d) \/ SpringNow(d)
    \/ SetUnique
    \/ Hover \/ SpringBookmarks \/ SpringClose
    \/ \E unmount \in BOOLEAN : Answer(unmount)
    \/ \E kind \in {"box", "error", "bookmarks", "options"} :
          OpenBox(kind) \/ CloseBox(kind)
    \/ PinboardOn
    \/ PinboardOff
    \/ SetBackdrop
    \/ \E side \in Sides : PanelNew(side) \/ PanelGone(side)
    \/ \E from, to \in Sides : PanelMove(from, to)
    \/ OverrideRedirect
    \/ DesktopStart
    \/ DesktopDestroyed

Next ==
    \/ /\ ~quit /\ calls = 0 /\ number_of_windows > 0
       /\ Callback
       /\ UNCHANGED calls
    \/ /\ ~quit /\ calls = 0
       /\ RecreatePinboard \/ RecreatePanels
       /\ UNCHANGED calls
    \/ ~quit /\ calls = 0 /\ BeginSoap
    \/ /\ ~quit /\ calls > 1
       /\ RpcCall
       /\ calls' = calls - 1
    \/ ~quit /\ calls > 0 /\ EndSoap
    \/ quit /\ UNCHANGED vars

Spec == Init /\ [][Next]_vars

-----------------------------------------------------------------------------
(* Properties                                                                *)

TypeOK ==
    /\ path \in [Windows -> Dirs \cup {None}]
    /\ window_id \in [Windows -> Ids \cup {None}]
    /\ window_with_id \in [Ids -> Windows \cup {None}]
    /\ window_with_focus \in Windows \cup {None}
    /\ pair \in [{"left", "right"} -> Windows \cup {None}]
    /\ spring \in Windows \cup {None}
    /\ armed \in BOOLEAN
    /\ unique \in BOOLEAN
    /\ others \in [Kinds -> Nat]
    /\ panels \in SUBSET Sides
    /\ redo \in [pinboard : BOOLEAN, panels : SUBSET Sides]
    /\ calls \in 0..(MaxCalls + 1)
    /\ number_of_windows \in Nat
    /\ quit \in BOOLEAN
    /\ headless \in BOOLEAN

\* Everything on the screen that keeps the filer running.
OtherThings ==
    others["prompt"] + others["box"] + others["error"] + others["bookmarks"]
      + others["options"] + others["pinboard"] + others["desktop"]

Census == Cardinality(Shown) + Cardinality(panels) + OtherThings

\* The count is the number of things open, and one more while a message is
\* obeyed: no callback counts something twice, or forgets to.
CountIsRight == number_of_windows = Census + (IF calls > 0 THEN 1 ELSE 0)

\* The filer quits when the last thing is closed and never while something is
\* open, whatever callback closed and opened things in which order. After the
\* desktop was the last to be closed it stays, with nothing open, until a
\* message comes.  What an idle callback is to make again is not open.
QuitsWithTheLast == calls = 0 => (quit <=> Census = 0 /\ ~headless)

\* The window with the focus, the pair, the window a drag opened and the names
\* clients gave all lead to windows in the list, and a name leads to the window
\* that bears it.  (The window a drag came from, spring_src_window, may outlive
\* its window and is not followed.)
NoStaleWindow ==
    /\ window_with_focus \in Shown \cup {None}
    /\ pair["left"] \in Shown \cup {None} /\ pair["right"] \in Shown \cup {None}
    /\ spring \in Shown \cup {None}
    /\ \A i \in Ids, w \in Windows :
          window_with_id[i] = w <=> w \in Shown /\ window_id[w] = i

=============================================================================
