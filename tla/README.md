# ROX-Filer (GTK 3), checked and proved in parts

TLA+ modules for the parts of ROX-Filer whose correctness depends on the order
of events: callbacks of the main loop, messages between processes, changes of
the file system by other programs, long sequences of what the user may do.
Sources are under `src/ROX-Filer/src/`; a bare file name below is a file there.
`PROJECT.json` maps each definition to the lines it models and lists the hazards
of the code with the properties that would catch them.

## The system

ROX-Filer is one process with a GLib main loop: it runs one callback at a time,
each to its end. Besides it there are other processes: one for every file
operation, one for every thumbnail, the programs it starts. Five mechanisms tie
the parts together:

* a `Directory` object for each directory in use, kept in an `fscache`, tells
  the windows attached to it of changes (`DIR_ADD`, `DIR_UPDATE`, `DIR_REMOVE`, ...);
* a file operation is a forked child that talks to its action window over two
  pipes, and asks the user there;
* after an operation the filer is told which files to check again
  (`dir_check_this()`, `refresh_dirs()`), and everything else is found by the
  file monitor, by the time stamp of the directory, or when the pointer enters a
  window;
* whatever is open on the screen is counted in `number_of_windows`; the filer
  quits when the count comes to 0;
* windows, views and dialogs hold plain pointers and indices to each other,
  which the callbacks of destruction and of change have to keep true.

| Component | State | Operations | Hard | What makes it correct | Modules |
|---|---|---|---|---|---|
| Directory and views (`dir.c`, `diritem.c`, part of `filer.c`) | `known_items`, `new_items`, `up_items`, `gone_items`, `recheck_list`, users, `scanning`, `needs_update`, three timers | attach, detach, rescan, recheck one, merge, notify, check one file | pending arrays and views hold raw pointers; scans, checks, timers and windows interleave | no dangling item; no change or rescan lost; in the end each window shows the directory | `Directory` |
| File operation protocol (`action.c`, `abox.c`) | two processes, two pipes, question on display, flags, abort count | ask, answer, toggle a flag, hand-shake, abort, finish | unnumbered characters in one pipe; end of the child against its messages and Cancel | an answer reaches its question; an error is shown; no orphan; only the user is waited for | `Action` |
| Copying and moving (`action.c`, `support.c`) | the files, the policy, the walk over the tree, what rsync has listed | copy, move, merge, overwrite, skip; batch, one by one, tidy up | failures at any call, other programs, conflicts settled before they arise | nothing is replaced without consent, nothing leaves before it has arrived, nothing is silently left out | `Transfer`, `CopyMove`, `HybridCopyMove` |
| File system cache (`fscache.c`) | entries by device and inode, time stamps, references | lookup, insert, purge | entries that are stale, in use, or hold no object | a lookup that says up to date is; an object in use is not freed | `FSCache` |
| Pixmaps and thumbnails (`pixmaps.c`, queue in `filer.c`) | cache of images, queue of a window, children | request, cancel, done, save, purge | the file changes while the child works; the window is closed or starts again | a picture taken for up to date shows the file; each reference is given back | `Thumbnails` |
| Filer windows (`filer.c`, `filer_pair.c`) | list of windows, names, pair, focus, count | open, change directory, close, close all under a path, offer to unmount | a callback closes one thing and opens another; raw pointers to windows | the count is the number of things open; no pointer outlives its window | `FilerWindows` |
| History (`filer.c`) | `history_back`, `history_forward`, limit | visit, back, forward | moves record nothing, drags record nothing, pushes cut the list | the lists and the directory shown are one line of visits | `Timeline`, `FilerHistory` |
| Collection and views (`collection.c`, `view_*.c`, `view_iface.c`) | item array, cursor, wink, selection count, primary selection | insert, delete, sort, select, lasso, iterate | indices kept across insertion and deletion; the selection must not pass through nothing | cursor and count fit the items; the primary is kept as long as something is selected | `View`, `Collection`, `DetailsView`, `ViewIter`, `Views` |
| Trash (`trash.c`) | items and their information files | trash, restore, empty | two files for one item, written one after the other, by several processes | nothing is lost; an item can be restored | `Places`, `Trash`, `Files` |
| Bulk rename (`bulk_rename.c`) | list of old and new names | edit, substitute, check, rename | new names that are old names of others; a list half done | no file is lost; a press gives a file one name | `Places`, `BulkRename`, `Files` |
| Pinboard, panels, desktop, dialogs, remote calls, mounts | widgets and files | activate, close, make again; messages of several calls | as far as they count as things open | see Filer windows | `FilerWindows` |
| Drag and drop (`dnd.c`) | the spring window, the temporary selection | spring, drop, end | a drag changes windows and selections for a time | see windows, views and history | `FilerWindows`, `Views`, `FilerHistory` |
| Minibuffer, find, mode strings, running of programs, options, types of files | text, parsers, tables | | | functions of their input | not modelled |

## Modules

| Module | What it is |
|---|---|
| `Directory`, `MCDirectory` | one `Directory`, the directory on disk and its windows; its small instances |
| `Action`, `MCAction` | the child of an operation, the filer with its action window, the user |
| `Transfer` | abstract: what copying and moving promise about the files |
| `CopyMove` | the classic engine, `do_copy()` and `do_move()` |
| `HybridCopyMove`, `MCCopyMove` | rsync and the choice of engine, extending `CopyMove`; both implement `Transfer`; small trees |
| `FSCache` | the cache as operators from caches to caches |
| `Thumbnails`, `MCThumbnails` | queue, chains, children, kept pictures and the picture cache (an instance of `FSCache`) |
| `View` | abstract: what a view promises about its selection and the primary |
| `Collection`, `DetailsView`, `ViewIter` | the two views and their iterators as operators |
| `Views`, `MCViews` | what directory and user do to a view; implements `View` |
| `Timeline` | abstract: a line of visited directories and a place on it |
| `FilerHistory`, `MCHistory` | Back and Forward of a window; implements `Timeline` |
| `FilerWindows`, `MCWindows` | all windows, what points to them, and the count |
| `Places` | the folders and the Trash, and other programs in them |
| `Trash`, `BulkRename` | `trash.c` and `bulk_rename.c`, both on `Places` |
| `Files`, `MCFiles` | both together |
| `DirectoryProofs`, `ActionProofs`, `CopyMoveProofs`, `ThumbnailsProofs`, `HistoryProofs`, `WindowsProofs`, `FilesProofs`, `ViewsProofs` | theorems |

`Action` and `CopyMove` meet in the conflict question: `Action` checks that the
child reads the answer the user gave to it, and `CopyMove` starts from that and
has questions answered at once. Of what `NothingForgotten` in `CopyMove` calls
reported, the child has sent a report; that one may be too long to arrive is in
`Action`. `Directory` and `Views` meet in the messages of
the directory: `Directory` decides what is sent to which window, `Views` takes
additions, updates, removals and a whole new listing in any order.
`FilerWindows` decides which window there is and where, `FilerHistory` what that
does to one window's lists.

### Directory

The variable `dir` is the `struct _Directory` together with its items and what
its users show. Each callback of the main loop is one action, because none of
`dir.c` re-enters the loop; the functions it calls are operators from records to
records, composed in the order of the calls (`RescanListing` is the body of
`dir_rescan()` after its `stat()`). An item is a name and a number, so two
`DirItem`s of one name are two; freeing puts an item into `freed`, where it
stays as long as something points to it, and passing one to the windows
afterwards is remembered in `misused`.

* Windows: `OpenWindow`, `CloseWindow`, `ToggleHidden` (which detaches and
  attaches again), `Refresh`, `PointerIn`, `UpdateItem` (opening an item whose
  type is not known).
* Other parts of the program: `CheckThis`, `ForceUpdate`, `RefreshDirs`.
* Main loop: `RecheckCallback`, `NotifyTimeout`, `RescanTimeout`,
  `MonitorEvent`, `CloseRecursive`.
* File system: `ChangeName`, `ChangeDetails`, `ChangeDirectory`. A change raises
  an event exactly while the monitor exists, that is, while there are users; a
  change within the second of the cached time stamp need not alter the stamp.
  `missed` remembers a change nobody will announce; the code does not promise to
  show such a one.

Abstractions: the details of an item are one value; the recheck list is a set
(its order is any order); loading of icons is left out.

### Action

`toParent` and `toChild` are the two pipes. A message is its type and the item
it is about; a character to the child is an answer, a flag, `X`, or the `D` that
the check box Details writes although the child does not know it. `pc` says
where the child is in the current item. Signals are asynchronous: `Abort` sets
`signal`, `Die` is its effect at any later time. `Receive` is
`message_from_child()` with `process_message()`, one message at a time;
`ReceiveEOF` is the fallback when the pipe ends. The check boxes are sensitive
all the time, so `ToggleFlag` and `ToggleDetails` may come at any moment.

`ReportTooLong` is a report that does not arrive: `send_msg()` gives up silently
on a message of 0xffff bytes or more, and a report that quotes all that rsync, cp,
mv, mount or umount wrote on stderr can be as long. Questions and the other
messages are a path and fixed text.

`clicked`, `heard`, `worked`, `closed`, `seen` (the settings of the boxes there have
been), `chosen` (the policy of the start), `misread` (what was taken for an `X`),
`failed` and `dropped` are history. `Obeyed` reads them all: what was asked about is
done as answered, and what was not asked about is done only if the boxes or the
policy permit it (`Permitted`). `UnmountIsSafe` is what a comment of the code promises
and is false (finding 2); `ClosedOrOutOfStep` is what is left of it, and says that
nothing but an earlier misread handshake lets an unmount start too early.

### CopyMove, HybridCopyMove and Transfer

A source is `<<directory, leaf, name, ...>>`, its target what is left without the
directory; two items of one leaf name therefore have one target. `Visit` is
`do_copy2()` or `do_move2()` up to the decision: flags, two `lstat()`s, policy.
`Clear` is the `rmdir()` or `unlink()` of what is in the way, `Make` what
follows, `Enter` and `Leave` the two ends of `for_dir_contents()`. Any call may
fail; a failed `cp` or `mv` may have brought part of what it was to bring. Other
programs act between any two steps. `allowed` and `chosen` are history: what the
user agreed to.

`HybridCopyMove` adds the choice of engine (`use_rsync_engine()`; "ask" always
goes to the classic one). `BatchCopy` is `rsync_copy_list_cb()`, `RsyncItem`
with `RemoveClash` is `run_rsync_operation()`, `RenameItem` the `rename(2)` that
`do_move_fast()` tries on one volume, `Tidy` is `remove_empty_source_dirs()`.
rsync itself is external, and modelled by its arguments: `Look` is its generator
at one object (listed parents first), `Arrive` the receiver that puts a complete
copy in place and, with `--remove-source-files`, then removes the source,
`NotSent` and `RsyncDies` are its failures. `do_move_fast()` falls back to the
classic engine where the code does.

`Transfer` knows the two trees, the consent and what others did. A step of the
operation may replace or remove an object at the destination only by consent,
and may remove an object at the source only if it has arrived. An object that
another program has touched at the destination during the operation is not
covered: between the `lstat()` and the `cp -af` nothing protects it.

### FSCache and Thumbnails

`FSCache` has no state of its own: a cache is a function from files to entries,
and each of its operators is one function of `fscache.c`. Who holds an object is
a set (`held`), and a reference nobody will give back is a flag (`leaked`),
which `pixmap_try_thumb()` does leave behind.

In `Thumbnails` a chain is what works on the queue of a window: an idle callback
(`idle`), a child (`child`), or a picture just read from its file (`busy`, the
window between `get_thumbnail_for()` and the insertion). Each holds one reference
(`refs`) to the window's widget. `StartScan`, `EndScan`, `Cancel`, `HideThumbs`,
`ShowThumbs` and `Close` are the window's side; `TakeCached`, `TakeKept`,
`TakeMade`, `Fork` and `GiveUp` the ways `pixmap_background_thumb()` may go;
`ChildLoads`, `ChildSaves`, `ChildDone` and `FinishLoad` the child and its end.
`LoadIcon`, `DropIcon`, `PurgeMemory` and `PurgeDisk` are the other users of the
cache. An entry is up to date if the two times, the size and the mode it was made
with are those of the file (`UpToDate`), so that `ChangeAttributes` (chmod, rename,
link, utime) makes it stale as well as `Write` does. A picture is the number of the
contents it was made of; `hasty` collects the contents that were overwritten so soon
that the times of file and picture cannot tell, by the code's own tolerance
(`PIXMAP_THUMB_TOO_OLD_TIME`) or because the child notes the time after it has read,
and those that utime() brings back by setting the time of the file back. That it sets
the time into the future is left out. `of` is history too: how often the file or its
attributes had changed when the child was forked. `OneMaker` says that of two
children at work on a file one was forked for a file that has changed since, or
the `NULL` that the cache holds for a picture being made had been purged (`alone`).
A chmod in the meantime does make the code start a second child for the same
contents, as the cache cannot know.

### Views

`Collection`, `DetailsView` and `ViewIter` are operators on a record: items with
their selected flags, count, cursor, wink, and the number of times signals are
blocked. An operation returns what it told its user on the way (`out`), in
order, and `Told` runs `filer_selection_changed()` and
`filer_lost_selection()` over that. So a selection that is empty for a moment in
the middle of an operation is seen, as it is by another program that then claims
the primary. An item is numbered from 0 as in the code; a file is the number of
its place in the alphabet. `RestatItem` makes a file a directory, which is what
moves it when the view is sorted again. An iterator that is to start at the cursor
visits nothing if there is no cursor (`NoCursor`), and `CursorItem` is the iterator
for one item that `view_get_cursor()` makes.

The actions are the directory's (`AddItems`, `UpdateItems`, `RemoveItems`,
`Resync`), the user's by pointer, key, pattern and menu, the temporary selection
of a menu or a drag (`Borrow`, `GiveBack`, `TargetChosen`), and `SwitchView`.

`View` says what this promises: who owns the primary after each change, that
items come unselected, that a change of items leaves the others' selection alone.
The list view is not atomic: it empties its selection before it selects a single
item, and cannot be frozen, so that with several windows it may take the primary
from another one on the way and leave it with nobody. `View` says so (`SelectOnly`,
`Owners`) rather than hiding it. `Elsewhere` stands for the windows whose views are
not followed.

### FilerWindows

`path[w]` is the directory of a window in `all_filer_windows`, `None` for a
window there is not. The other variables are the pointers that must not dangle
(`window_with_id`, `window_with_focus`, `pair`, `spring`), what else is counted
(`others`, `panels`, `redo`), and the count. `Destroyed(gone, more, now)` is
`filer_window_destroyed()` for a set of windows, with every list it has to be
taken off; `Counted(more, less)` adds what is opened before it takes off what is
closed, as `one_less_window()` (`main.c:785`) is the place that quits. Two other
calls of `gtk_main_quit()` ask the same of the count: `pinboard_activate()` when no
pinboard is left (`pinboard.c:299`, in `PinboardOff`), and the end of a message
(`remote.c:561`, in `EndSoap`). A SOAP message (`BeginSoap`, `RpcCall`,
`EndSoap`) holds the count up by one while its calls are obeyed.

### FilerHistory and Timeline

`Visit` is `filer_change_to()` with `filer_history_push()`, `Back` and `Forward`
are `filer_history_go()`, `SpringTo` the change of directory of a drag, which
records nothing, `Reopen` a new window. `Timeline` is one sequence of directories
with a place on it; a visit cuts off what is after the place, adds, and forgets
the oldest beyond the limit; Back and Forward only move the place.

### Places, Trash, BulkRename and Files

`dir` is the folders, `trashed` and `info` are `Trash/files` and `Trash/info`. A
file is a whole item, and `rename(2)` replaces what is at its destination.
`Trash` has two ways to trash an item: GIO in one step, and the fallback of
`rox_trash_file()` in three (`Choose`, `WriteInfo`, `MoveThere`), each of which
may fail, and between which the child may be killed. Restoring and emptying run
in the main process, in steps as well (`RestoreRead`, `RestoreMove`,
`RestoreUnlink`; `EmptyFile`, `FilesEmptied`, `EmptyInfo`, `InfoEmptied`), because
the children and other programs go on meanwhile. `BulkRename` is the dialog
(`OpenDialog`, `Edit`, `Apply`, `Reset`, `CloseDialog`, `Press`) and
`rename_items()` row by row (`CheckAgain`, `RenameRow`, `RenameFails`, `RowDone`).
A new name is the path it leads to and how it is spelled, as one place has
several spellings. `Files` composes them: what the main process is in the middle
of is `main`, so that it does one thing at a time.

## Runs

| Run | Instance | Shows |
|---|---|---|
| `directory_windows` | 1 hidden file, 2 windows, 2 values of details | `NoDangling`, `NoLostUpdate`, `KnownIsKeyed` while windows come, go and toggle hidden files and the directory is locked or removed |
| `directory_scans` | 2 files, one hidden, 1 window, fair main loop | `NoLostRescan`, `QuietIsComplete`, and that changes are shown and rescans happen |
| `directory_missing_frees_pending` | 1 file, 1 window | finding 1 |
| `action_protocol` | deletions, copies, mounts and unmounts of 2 or 3 items; 1 toggle of any box at any time, 2 aborts | `OnePipe`, `Obeyed`, `ClosedOrOutOfStep`, `NoOrphan`, `ErrorsAreShown`, and that the end is noticed, that Cancel works and that only the user is ever waited for |
| `action_ack_race` | 2 unmounts, 2 toggles | finding 2 |
| `copy_move` | a directory with a file and a second file, onto every kind of destination, every policy, copy and move, both engines | `StaysTree`, `NothingForgotten`, `KeepsPromise` (refinement of `Transfer`), `GetsOn` |
| `move_same_leaf` | two items of one leaf name | finding 3 |
| `thumbnails` | 1 window, 2 files, 2 children | `RefsAreChains`, `QueueIsServed`, `StaleOnlyIfHasty`, `OneMaker`, `WorkEnds` |
| `views` | 1 window, 3 files, icon view of 1 or 2 columns, or list | `IteratesOnce`, `CursorStays`, `KeepsViewPromise` (refinement of `View`) |
| `windows` | 2 windows, a mount point, 2 panels, every kind of dialog, 3 things open at once | `CountIsRight`, `QuitsWithTheLast`, `NoStaleWindow` |
| `history` | 4 directories, limit 3 | `WithinLimit`, `EveryMoveMoves`, `IsATimeline` (refinement of `Timeline`) |
| `files` | 5 paths in 2 folders, 2 files and a dangling link, 2 processes | `NothingLost`, `Restorable`, `OneNewName` |

**Bounds, and why they are enough.**

*Directory:* an item takes part in every array of the record, and arrays are
told apart by names only in `if_deleted()` and the hash table, so what can go
wrong happens to one name (with several items of it) or between two; two windows
are needed for one to join during the scan of the other. `Nums` bounds the
number of items of one name that exist at once; the guard `Room` holds an action
back when it would need more, and four leave room for a shown item, one pending
removal, one pending addition and one to come. `Touched` and `DirStates` restrict
who reports files and what becomes of the directory, to divide the two passing
runs. Deadlock is not checked: a directory that is gone, with no windows, is at
rest.

*Action:* the state between items is the policy, the flags and the pipes; two
items of a kind are enough for something of the first to reach the second, and
`<<"conflict", "new", "conflict">>` puts an item without a question between.
`MaxToggles` 1 lets one box be toggled at any moment, besides the Quiet that the
button Quiet toggles and the Details that questions and errors check; the run of
finding 2 has two toggles, and the theorems any number. The second abort sends
`SIGKILL` and more do the same. An operation ends, so deadlock is not checked.

*CopyMove:* one level of nesting and one sibling cover the stack of open
directories and the effect of an answer "for all" on later items. For the classic
engine what is in the way is older than the source or of the same age; for rsync it is
older or newer, because rsync takes equal age and size for the same file (see
Deviations). What is in the directory may be a directory itself, which is then
empty. A link is selected only next to a file, as the items of one
operation meet only in the policy. Other programs touch an object at most once
(`theirs`); they may create only below the directory (`Appearing`), and remove
there or the directory itself (`Leaving`). A destination directory inside
the source is refused by `do_copy()` and `do_move()` before anything is done and
is not modelled; a directory meeting a file under "newer" is left out, or what may
become a file (`AgeOfDirectory`), and an empty one meeting a file under "skip" with
rsync (`SkippedDirectory`, see Deviations for both). An operation ends, so deadlock is not checked.

*Thumbnails:* with one window and two children the second chain of a cancelled
and restarted window is there; `MaxChains` 2 holds a third back. One file can be
made a picture of and changes, and is the one used as an icon; the other keeps
the queue longer than one. Times are compared only for equality and by the two
tolerances, which are 0 here, so that a clock of 1 and 2 has both outcomes. A file has
been written before the run, and may have a picture of its older contents in the
thumbnail directory; `MaxChanges` 1 then lets it be written, deleted or given other
attributes once, which tells an old picture from a new one and leaves the children,
purges and windows all their orders around it. One size and one mode leave these two
comparisons to the proofs, as the time of status change differs whenever they do but
within one second.

*Views:* three files are the least with something on both sides of the cursor,
and with rows and columns of two that leave a gap at the end. Windows share nothing
but the primary, so the run follows one and lets the others (`Elsewhere`) and
other programs (`Nobody`) claim it. What two followed windows do to each other is
in the proofs, which are for any number of them.
One file (`Restated`) changes its place in the order. A quiet view may rest, so
deadlock is not checked.

*Windows:* `MaxOpen` 3 lets two windows and a dialog be open, so that every pair
of things can be closed by the same callback; one call in a message already puts
something between `BeginSoap` and `EndSoap`. Addresses of windows and sides of
the screen are not told apart, hence the symmetry; no property is temporal.

*History:* a limit of 3 is reached in the middle of a line, and four directories
give lines without repetition that are longer.

*Files:* two items of one leaf name and `Indices` {0, 1} reach the second number of
`unique_trash_name()`; a child and the main process are the two that may choose
a name at once. The dialog has two rows, whose new names are the old one of the
second, two more, so that both rows can change, and another spelling of one of these.
`SmallTrash` limits what is in the Trash while the dialog is open, as the dialog
does not look there. The two files are not told apart. Deadlock is checked in `thumbnails`, `windows`, `history` and `files`.

**Fairness.** *Directory:* the main loop calls every source that stays ready, so
each callback is weakly fair; the guards are written out in `FairSpec` in place
of `ENABLED`, which TLC cannot evaluate in reasonable time. Nothing is assumed
of windows, users or the file system. *Action:* the child runs, the main loop
serves its pipe, and `SIGKILL` takes effect; nothing is assumed of the user, nor
of `SIGTERM`, so that `CancelWorks` rests on the second press.
*CopyMove and HybridCopyMove:* the child runs, rsync with it; that `rsync` and `cp`
end is part of this. *Thumbnails:* idle callbacks run, each child comes to its
end, and its end is noticed; nothing is assumed of windows, users, other
programs or the purges.

## Findings

1. `NoDangling` (`dir.c:923`), with `close_dir_when_missing` off: the rescan of a
   directory that has gone frees items still queued for redrawing.
2. `UnmountIsSafe` (`action.c:2358`): a toggled flag is taken for the
   acknowledgement that windows are closed; the real one then lets the next
   unmount start too early.
3. `AskedBeforeLoss` (`action.c:1489`): of two items of the same leaf name the
   second replaces the first without a question, as conflicts are looked for only
   before the operation begins. A move loses the first file.

### Deviations without a run

Met while reading the code for the models. The models follow the code where
it is in their scope; the passing runs exclude the case where this is said.

* `dir.c:990`: a file deleted and created again within one notify period is shown
  without having been put on the recheck list; `DIR_REMOVE` goes by name and takes the
  new item out of the view before windows are asked what they want checked.
* `filer.c:1107`: the item that is checked before it is opened is used afterwards even
  if the check has freed it.
* `action.c:1965`: a directory replaces a file that is not older although the policy is
  "newer" (left out of `MCCopyMove`).
* `action.c:1689`: rsync takes a file of the same size and time for the same file,
  so a move removes the source and what was at the destination stays; `--update`
  replaces newer files by links, whatever their age, although the policy is
  called "newer" (left out by `RsyncStarts`).
* `action.c:1833`: under "skip" rsync passes over an empty directory that meets a file,
  and `remove_empty_source_dirs()` then removes it from the source although it never
  arrived (left out by `SkippedDirectory`).
* `action.c:1870`: the rsync engine does not look whether an object is copied into itself.
* `action.c:534`: the pid is kept after the child's exit until the pipe ends, so
  Cancel may signal a group that is gone.
* `action.c:662`: `send_msg()` returns without a word for a message of 0xffff bytes or
  more, which a report quoting the whole stderr of rsync (`action.c:1709`, `1797`) may
  be. The window of such an operation closes as if nothing had failed (`dropped` in
  `ErrorsAreShown`).
* `abox.c:304`: the box Details of an animated operation (Trash, delete, copy, move;
  `abox.c:827`) is a flag like the others to `flag_toggled()`, but the child does not know
  its character and answers "!ERROR: Bad message" (`action.c:765`). A question or an error
  checks the box (`abox.c:412`), so that every such operation that asks something with
  Details unchecked ends with an error reported and its window stays (`ProcessFlag`,
  `OpenLog`).
* `fscache.c:63`: a change of a directory within the second of its cached time stamp that
  no event announces is not found (`missed` in `Directory`).
* `action.c:2220`: `do_move2()` names the wrong path in the messages that follow a merge.
* Two offers to unmount the same mount point can be open at once.
* `pixmaps.c:315`: `pixmap_try_thumb()` returns a reference that
  `pixmap_background_thumb()` does not give back, so such a picture stays in the
  cache until its file changes (`leaked`).
* `filer.c:1999`: `filer_set_view_type()` keeps pointers to leaf names of items while it
  empties the view.
* `view_details.c:1022`: a list view that is destroyed says nothing of its selection, so
  the primary stays with a window that has none (`View!Switch` allows it).
* `view_details.c`: the wink and the base of iterators are not adjusted when items go; so
  `CursorStays` is about the icon view.
* `display.c`: `display_set_sort_type()` ignores its arguments and sorts by name, which is
  the only order in `Views`.
* `view_details.c:1797` empties the selection before it selects one item, where
  `view_iface.c:287` promises not to (`View!SelectOnly`).
* `view_details.c:1804`: `view_details_set_frozen()` does nothing, although
  `view_iface.c:331` says of `view_freeze()` "Prevent selection_changed events from
  being emitted". A list that goes through its items one by one may select
  something before it ends with nothing selected, and so takes the primary from
  another window and gives it up (`View!Owners`). The refinement proof asked for
  this case; a run with one window only had not shown it.
* `desktop.c`: `desktop_destroyed()` takes the desktop off the count without quitting when
  that comes to 0 (`headless` in `FilerWindows`).
* `filer.c:1781`: the unique-window option compares paths as they are given; a
  trailing slash defeats it (`tidy` in `FilerWindows`).
* `panel.c:2098`: the override-redirect option, set by a remote call with nothing but
  panels or pinboard open, quits the filer before the idle callback makes them again.
  `QuitsWithTheLast` takes this quit for right, as nothing is open at that moment.
* `dnd.c:1251`: `spring_src_window` is kept when that window goes (`dnd.c:1160`, `1174`), and the
  window a drag opens is then given a pointer to it. `Hover` leaves it out, so
  `NoStaleWindow` says nothing of this pointer.
* `trash.c:90`: two processes that trash items of one name can choose the same slot,
  and emptying can delete the information of an item on its way in (`shared` in `Restorable`).
* `bulk_rename.c:375`: `access()` follows links, so a dangling link is overwritten
  (`Dangling` in `NothingLost`); two spellings of one path pass the check for names used
  twice, after which a file can be renamed twice (`slashed` in `OneNewName`).

## Proofs

TLAPS proves, for all values of the constants that satisfy the named
assumptions (`ASSUME` in the module that declares them; every run evaluates
them for its instance):

`Directory` (`DirectoryProofs`, from `DetailsAssumption`, `NumsAssumption` and
`OptionAssumption`)

* `TypeCorrect`: `Spec => []TypeOK`. One lemma for each operator says that it
  maps Directory records to Directory records; `NextType` goes through the
  actions.
* `RescansAreKept`: `Spec => []NoLostRescan`. The property is not inductive over the
  pieces a callback is made of, so `Scan(d)` projects a record to the fields that
  matter and each operator is shown either to leave them alone or to establish
  `Tied` (idle callback, scanning and recheck list go together); `Served` adds
  the wanted rescan. `Served(dir)` with `TypeOK` is inductive. No finiteness is used.
* `UpdatesAreTold`: `Spec => []NoLostUpdate`, `ItemsAreKeyed`: `Spec => []KnownIsKeyed`.
  `Sound(d)` says that `known_items` has one item for a name, that known, new
  and gone items are apart, that only users have views and that what is drawn with
  old details is pending; `Told(d)` that the timer runs while something is pending.
  `ListNames` breaks the second for a moment, so what each operator keeps is
  stated from what it is given, and carried through the composition.
* `NothingDangles`: `Spec => []NoDangling`, if `CloseWhenMissing`. Without the option
  it is false: `remove_missing()` frees items `up_items` still has (finding 1).
* `QuietViewsAreComplete`: `Spec => []QuietIsComplete`. `DirInv` adds that while the
  monitor has told of every change (`Watched`), the Directory has what is on the
  disk, or a rescan is wanted or a change was missed (`Current`). That a check of a
  name can insert what it finds (`Insertable`) is where the guard `Room` comes in:
  if it could be held back in the middle of a scan, a name would be left out.

`Action` (`ActionProofs`, from `JobsAssumption`, `PoliciesAssumption` and
`BoundsAssumption`; boxes may be toggled at any time)

* `NothingIsOrphaned`: `Spec => []NoOrphan`, and `NoErrorIsLost`:
  `Spec => []ErrorsAreShown`. The invariant `Ending` adds that `D` is the last
  message in the pipe and comes from a child that has ended, and that an error
  not yet counted is still in the pipe of an open window, or was too long for it.
* `TypeCorrect`: `Spec => []TypeOK`, with where the child may be in its list.
* `AnswersMeetTheirQuestions`: `Spec => []OnePipe`, and `WindowsCloseFirst`:
  `Spec => []ClosedOrOutOfStep`. What is in the pipes is counted, and lemmas say what
  `Append` and `Tail` do to a count. `Understanding` says that one question or
  answer is on its way while the child waits for one; that an odd number of
  toggles is on its way, or was taken for an `X`, where a flag and its box differ; and
  that, until something else has been taken for an `X` (`OutOfStep`), one `X` or its echo
  is on its way while the child waits for that. In the code the child does not get back
  in step by itself, so no more than that is true.
* `AnswersAreObeyed`: `Spec => []Obeyed`. `Obedience` adds that an answer on its way
  is the one clicked for the current item, that an item is worked on only after Y or
  A or without a question, and that an answer for all is the policy from when it is
  read: later conflicts are not asked about, as a question `C` is asked only
  under the policy "ask", even one that is displayed after the end of the child.
  For what nobody was asked about, `Settings` says that the characters on their way
  lead from the child's flags to the boxes over settings the boxes have had (`Goes`), so
  that Quiet and Force are never both on in the child if they never were on the screen;
  `Permission` adds that a policy that allows to replace is the one of the start or an
  answer for all.
`CopyMove` and `HybridCopyMove` (`CopyMoveProofs`, from the assumptions on names,
places and starts, which say that sources and targets are closed under
containment and that each start is a pair of trees; no bound on either)

* `BothStayTrees`: `HybridSpec => []StaysTree`. Each kind of write (an object put at a
  path, one removed, a subtree removed or moved) is shown to keep a tree a tree
  under the condition the system call has, and each action to satisfy it.
* `ClassicKeepsPromise`: `Spec => KeepsPromise`, that is, the classic engine implements
  `Transfer`, if `NoTwins` and `DirectoriesAreNewer`. Without the first it is false,
  finding 3; without the second, the policy "newer" lets a directory replace a
  file that is not older (Deviations). `PromiseInv` says that what is still to be
  visited is apart from itself and from the open directories (`Apart`), that
  nothing but another program's is in its way unless the user was asked
  (`NothingInTheWay`), that what is about to be cleared or written over has been
  agreed to or has come since (`Consented`), that open directories have arrived
  (`OpenArrived`), and how the policy comes from the choice (`PolicyChosen`,
  `StillNewer`). That what is at a target has a parent there needs the least
  missing ancestor, which well-foundedness of the numbers gives.
* `HybridKeepsPromise`: `HybridSpec => KeepsPromise`, both engines in any succession,
  if also `RsyncComparable`: under "skip" no directory in an item meets a file, and
  under "newer" there are no links and a file meets a file or something older. These
  are the cases in Deviations, where the promise does not hold. `HybridInv` adds
  which states rsync may be in (`RsyncSane`), that what it sends replaces nothing
  without consent (`SendingConsented`, `ListedClear`), and that a directory of an
  item that is moved has arrived when `remove_empty_source_dirs()` comes to it unless
  rsync has reported an error (`DirsArrive`). A step of rsync works at any source it
  has listed, so what is not its business is stated for all targets it keeps off
  (`Aside`), and one lemma (`StepOrderly`) serves all of them. TLC had
  checked `HybridInv` on the instance of `copy_move` before; the instance
  satisfies all three hypotheses.
* `NothingIsForgotten`: `HybridSpec => []NothingForgotten`, if `NoTwins`. `Accounted` says
  that each source is settled (gone, arrived, reported or kept from its place by
  others), or is in something the child will come to (`Awaited`), or is with rsync,
  which has yet to look at it or send it, or is going to report a failure for the
  whole item (`WithRsync`). With it go `Reachable` (what is to be visited is an item or
  in an open directory, so that nothing is left when the last one is closed) and
  `RsyncInRange`. What readdir() returns for a directory stands for all
  beneath it because both sides are trees. The ages and kinds that the promise
  depends on do not matter here; without `NoTwins` the second item of a name
  replaces the first.

`Thumbnails` with `FSCache` (`ThumbnailsProofs`, from `ThumbAssumption`: finitely many
files and children, tolerances and sizes that are numbers)

* `ChainsHoldRefs`: `Spec => []RefsAreChains`. A chain passes from `idle` to `child` to
  `busy` and each step keeps the number of them or changes it as it changes
  `refs`; the number of children of a window is a cardinality, hence the finiteness.
* `QueuesAreServed`: `Spec => []QueueIsServed`, which with the first says that the
  progress bar is a good test of whether a chain has to be started.
* `OnlyHasteIsStale`: `Spec => []StaleOnlyIfHasty`. `TimesTell` says of every picture in
  the cache, in a file of the thumbnail directory, made by a child or just read,
  that it shows the file, what was hastily overwritten or what a time set back revives, or
  that one of its times is before the file's, for a kept file by more than the tolerance; lemmas say what each function of
  `fscache.c` keeps of the entries (`Alike`, `CacheStep`).
* `OneChildMakes`: `Spec => []OneMaker`. `Announced` says that a file that has not
  changed, in contents or attributes, since a child began with it has an entry that is up to date unless it was
  purged, so that nobody forks a second one.

`FilerHistory` (`HistoryProofs`, from `LimitAssumption`)

* `HistoryIsLimited`: `Spec => []WithinLimit`, and `BackIsElsewhere`:
  `Spec => []EveryMoveMoves`. A push cuts the list at the limit; that none of
  Back's and Forward's ever does is in the sum of the two lengths. `EveryMoveMoves`
  needs `NoRepeats` of both lists, as the entry that comes to the top after a
  move was below another.
* `HistoryIsATimeline`: `Spec => IsATimeline`, the refinement of `Timeline`. `LineFacts`
  says what is at each place of the line that the two lists and the directory
  make; a move then is shown to leave it as it is place by place, and a visit to
  cut, add and forget as `Timeline` does.

`FilerWindows` (`WindowsProofs`, from the five assumptions of the module: finite
sets of windows and sides, `None` not among the values)

* `TypeCorrect`: types, and which counters are 0 or 1.
* `PointersHold`: `Spec => []NoStaleWindow`. `WinInv` says that the table of
  names and the names of windows are inverse to each other, which `ForgetId`
  needs to take a window off the table; one lemma each for destroying, making and
  naming a window.
* `CountHolds`: `Spec => []CountIsRight`, `QuitHolds`:
  `Spec => []QuitsWithTheLast`. Each action changes the census of open things by
  what it opens less what it closes; `CountStep` says that then the count follows
  and the quit is right. What is left of each action is the arithmetic of
  cardinalities.

`Files` (`FilesProofs`, from `PlacesAssumption`, `TrashersAssumption` and
`NamesAssumption`)

* `NothingIsLost`: `Spec => []NothingLost`, and `EachInOnePlace`:
  `Spec => []InOnePlace`. `NothingLost` is not inductive: the check before a
  rename and the rename are two steps. `TargetIsFree` says that between them
  nothing a user could lose is at the new name: only strangers make files, and
  items trashed and restored are kept off by the main process being busy.
  `InOnePlace` is needed because a file could otherwise be overwritten in one
  place and thought to be in the other.
* `TrashIsRestorable`: `Spec => []Restorable`. `AllKept` says of each slot that is
  not shared that at most one operation is at work in it, which finds it empty
  and has written the information before the item comes; that an item in it has its
  information; and that nobody has it while the information is deleted.
* `RenamedOnce`: `Spec => OneNewName`. `Apart` says that what is left of a list
  without slashes passes the test for names used twice, and that no renamed file is
  where a row that is left looks or leads. Equality of names decides about equality of
  places only because every name without a slash is a leaf of the folder;
  `InOnePlace` is needed because the renamed file could otherwise be at an old
  name too.

`Views` (`ViewsProofs`, from `ViewsAssumption`)

* `ViewsTypes`: `Spec => []TypeOK`. Each operator on a record of either view is shown
  to keep what it is given fit: the count is the number of marked items, cursor and
  wink are items or -1. The loops over items are recursive functions; `LoopRuns` and
  `LoopInvariant` say that such a function exists and that what each round keeps
  holds at the end, by the least round at which it would not.
* `CursorsStay`: `Spec => CursorStays`. `collection_delete_if()` keeps the order of
  what is left, so the new number of an item is the number of items kept below it;
  a sort is a bijection of the numbers that `cursor` and `wink` follow.
* `PromiseKept`: `Spec => KeepsViewPromise`. Each action of `Views` is a step of `View`.
  What a window was told on the way decides about the primary: a chain of
  messages that ends with something selected never leaves the primary lost by an
  atomic view, and one that ends with nothing has given it up.
* `IteratorsVisitOnce`: `Spec => []IteratesOnce`. `Ahead` numbers the items by how far they
  are from the start, round the view and in the iterator's direction. An iterator
  has to go as many items as are further ahead than its own (`OnItsWay`), so
  `iter_next()` comes to the nearest that is wanted (`NextIsNearest`) and does not go
  round twice; by the rounds of the loop, what is behind has been visited
  (`VisitsOnce`).

Only model-checked:

* all liveness (`ChangesAreShown`, `RescansHappen`, `EndIsNoticed`, `CancelWorks`,
  `OnlyTheUserIsWaitedFor`, `GetsOn`, `WorkEnds`), as `ENABLED` and fairness are out of the
  prover's reach.

## Plan

What is left, in this order:

1. Copies between file systems in `Trash`; files of size 0 and smaller files in
   `Thumbnails`.
2. `ModeChange` and `Find` as functions against reference definitions.

## Not modelled, and why

Drawing, layout, menus, themes, translations, fonts and the geometry of cells,
icons on the pinboard, panels and desktop, the tool bar, the vendored xdgmime and
icon code: no state that others rely on. They are by far the larger part of the
source, and most of it (`desktop.c`, `menu.c`, `panel.c`, `pinboard.c`, `gui_support.c`,
the drawing half of the views) is straight-line calls of GTK; the share of lines
that `PROJECT.json` maps is therefore small. Of these files only what counts as
an open thing or touches a selection is in the models.

The minibuffer completes a text by a function of text and directory in one
callback. Find expressions and mode strings are parsers and evaluators of
characters, without steps in between. Options and choices are widgets and files
read once. Programs that are run are not waited for.

GLib and GTK themselves, `cp`, `mv`, `rsync` and the file system are modelled only
as they are used. Text typed into the entries of find, chmod and set type does
not cross with answers in ways `Action` does not already show. Reuse of process
identifiers is left out: `kill()` after the child has ended has no effect in the
model. Which file a message tells the filer to look at again is left out of
`CopyMove`.
