# TLA+ models of the nModules

The nModules are LiteStep modules: DLLs that LiteStep loads into one process, each of which draws a
part of the desktop (labels, clocks, icon groups, taskbars, the tray, menus, the wallpaper). They
share the service `nCore.dll` and the drawing library `nShared`. This directory holds TLA+ modules
of the parts where order and timing matter, TLC configurations that check them on small instances,
and TLAPS proofs for all instances.

## The system

Everything runs on one user interface thread that dispatches window messages, except a few detached
worker threads, which hand their results over with `SendMessage` or `PostMessage`. So a message
handler is atomic with regard to other handlers, but not with regard to the worker threads and the
rest of the desktop, and it is the order in which messages, timers, module loads and refreshes
arrive that is hard to test.

| Component | Sources | State it keeps | Operations |
|---|---|---|---|
| File system loader | `nCore/FileSystemLoader.*` | request ids, `sOutstandingRequests`, an abort flag shared with each worker | load a folder, load an item, cancel; worker: enumerate, send; answer |
| Icon groups | `nIcon/*` | tiles, their positions, `mEmptySpots`, `mNextPositionID`, hidden items, registration for change notifications, clipboard, selection | set a folder, items loaded, create/delete/rename/update, lose and find the top-level window, copy/cut/paste, refresh |
| Task list | `nTasks/*` | `windowMap` (window to monitor, buttons, throttle), `activeWindow`, `initializing`; `mButtonMap` and button states per taskbar | shell hook messages, maintenance and monitor timers, enumeration thread, refresh |
| Window tree and registry | `nShared/Window.*`, `nShared/IDrawable.cpp`, `nCore/WindowRegistrar.cpp`, `Utilities/UIDGenerator.hpp` | children, `mParent`, the top-level window, timers and user messages by id, `sRegisteredWindows`, `sRegistrationListeners` | create, destroy, attach to a parent that comes later, timers, user messages, capture, update locks |
| Labels, clocks, calendar, start menu | `nLabel`, `nClock`, `nCalendar`, `nStartMenu` | the drawables of their settings | created and destroyed by settings and bangs |
| nCore service | `nCore/nCore.cpp`, `MessageManager.cpp` | who listens for which core message | register, unregister, broadcast |
| Connection to the core | `nCoreCom/*` | function pointers, initialised or not | connect with a version check, forward |
| System tray | `nTray/*`, `nShared/Balloon.cpp` | icons per tray, queue of balloons, balloon timer, quiet time | add/modify/delete icon, enqueue/show/dismiss balloon |
| Text formatting | `nCore/ParsedText.*`, `TextFunctions.cpp` | `functionMap`: registered functions and the texts that use them; the tokens of a text | register, unregister, parse, evaluate, notify |
| Painting, states, settings | `nShared/StateRender.hpp`, `State.cpp`, `Brush.cpp`, `Settings.cpp`, `LayoutSettings.cpp`, `Easing.cpp`, `Distance.cpp` | active states of a window, `mDeviceRefCount` and the brushes, layouts | activate and clear a state, make and discard device resources, lay out, ease |
| Menus | `nPopup/*` | the popups and their items, `owner` and `openChild` of the open ones | open by bang or mouse, close by focus, mouse or command, fill and empty, delete itself, refresh |
| Desktop, wallpaper | `nDesk/*`, `nWallpaper/*` | the wallpaper and the transition under way | change, paint, work areas |
| Task switcher | `nTaskSwitch/*` | the thumbnails, selected and hovered one, peek timer | show, next, hover, peek, hide and switch |
| Hotkeys | `nKey/*` | registered keys | bind, unbind, fire |
| Media information | `nMediaInfo/*` | buffers for title and artist, the updater thread and its flag, cover art | song changed, update, announce, choose a picture |
| Scripting | `nCore/Scripting*.cpp` | event handlers | bindings to v8 |
| Rewrite, vendored code | `Rewrite`, `External`, `headers`, `libs`, `tools` | | not part of the shipped program |

How they interact: nIcon calls the loader and is called back through a response handler; every
module creates `Window`s, which find their parents by name through the registry of nCore; a child
takes its timers and message ids from the top-level window it is on and is told by
`WM_TOPPARENTLOST` and `WM_NEWTOPPARENT` when that one changes; a window's text registers with the
functions it calls and is told by nCore when one of them changes, and nMediaInfo provides such
functions; nTask and nTray receive messages of the shell and of LiteStep; `LM_REFRESH` makes a module destroy and recreate what it has.

What makes each component correct, in one sentence:

- **loader**: a request is resolved exactly once, its flag is never used after its deletion, and
  a listing cut short is never delivered;
- **icon groups**: the tiles are the items of the folder that are to be shown, each on a spot of
  its own;
- **task list**: the buttons are those of the windows of the desktop, on the taskbars that want
  them and in the right states, and `windowMap` has no pointer to a button that is gone;
- **window tree**: no pointer to a destroyed drawable, everyone attached who can be, everyone
  knowing the top-level window it is on, and each timer calling the one who set it;
- **tray**: each balloon is shown or discarded once, one at a time, and never for an icon that is
  gone;
- **texts**: a well-formed text is taken apart as it was written and a malformed one shown as it is;
  a function knows every text that calls it, and no window shows what a gone module computed;
- **media information**: the labels show one song, the one being played;
- **menus**: the pointers between open popups fit, a popup has its items while it is open, and a
  closed dynamic one gives them back;
- **task switcher**: it switches to the window it named, and nothing of it remains afterwards;
- **painting**: a button looks as its states say, with brushes of the render target that exists;
- **messages**: a broadcast reaches whoever is registered, also if a handler unregisters;
  **connection**: no call into a core that is too old; **wallpaper**: the last picture wins;
  **hotkeys**: no key bound twice.

The hard behaviours, with the line where each bites, are the `hazards` of `PROJECT.json`.

## The modules

| Module | What it is |
|---|---|
| `RequestPromise` | what an asynchronous request promises its client |
| `FileSystemLoader` | the loader, a refinement of `RequestPromise` |
| `TileGroup` | an icon group; extends `FileSystemLoader`, whose actions it composes with its own |
| `WindowManager`, `MCWindowManager` | the window manager and the taskbars of nTask, and an instance with two taskbars |
| `WindowTree`, `MCWindowTree` | the drawables, the registry and the timers, and an instance with six drawables |
| `Tray` | a system tray, its icons and its balloons |
| `DynamicText` | the functions a text can call, the texts that use them, and the windows that show them |
| `TextParser`, `MCTextParser` | how a text is split into tokens, and texts to parse |
| `MediaInfo` | nMediaInfo's updater thread between Winamp and the labels |
| `Popups`, `MCPopups` | the menus of nPopup, and an instance with seven popups |
| `TaskSwitcher` | the alt-tab window |
| `Painting` | the states of task buttons and the brushes they share |
| `MCServices` | the loader, the tree, the texts, the parser and nMediaInfo, one per behaviour |
| `MCModules` | the tray, the menus, the task switcher and the painting, one per behaviour |
| `FileSystemLoaderProofs`, `TileGroupProofs`, `WindowManagerProofs`, `WindowTreeProofs`, `TrayProofs`, `PopupsProofs`, `ServicesProofs` (of `DynamicText`, `TextParser`, `MediaInfo` and `MCServices`), `ModulesProofs` (of `Painting`, `TaskSwitcher` and `MCModules`) | the theorems |

`PROJECT.json` maps each definition to the lines it models. A definition whose comment starts with
`(mutant)` is not part of a model: it is a plausible bug, used to see that a property can fail.

### FileSystemLoader

`sNextRequestId`, `sOutstandingRequests` and `abort` are the code's; `thread[id]` is the worker of
a request with a program counter; `answered` and `cancelled` are history. `LoadFolder`,
`LoadFolderItem`, `CancelLoad` and `Answer` run on the user interface thread. A worker enumerates
(`EnumObjects`, `LoadNextItem`), leaves the loop when it sees the flag (`FinishLoading`), reads it
once more (`CheckAbort`), waits in `SendMessage` ("sending") and deletes the flag (`DeleteAbort`).
The read of the flag and what follows are separate steps, so that `CancelLoad` falls between any
two. As in the code, an answered request stays in `sOutstandingRequests`. Thumbnails and icons are
abstracted to "the item was loaded".

### TileGroup

The folder (external) changes on its own and posts notifications while the group is registered.
`CreateGroup` and `Refresh` run the constructor as far as `LoadFolder`; `RegisterForChanges` is the
rest of `SetFolder`, during which the worker and the folder may already move. `HandleChangeNotify`
handles one notification with `AddIcon`, `RemoveIcon`, `RenameIcon` or `UpdateIcon`. The response
for a folder is delivered item by item (`LoadCompleted`, `FolderLoaded`, `FolderLoadedReturns`)
while folder and workers move; `AnswerDestroyed` is the response to a group that was destroyed,
after which the process may crash. Whether the folder is the desktop (`folderIsDesktop`) is open.
`Suppressed` keeps two details of `AddIcon`: it asks the desktop and not the working folder for the
name, so that hidden items are recognised only on the desktop, and it looks an uninitialised buffer
up when there is no name.

`due` and `tainted` are history. `due` holds the items that are to be shown by the rules the code
follows, which are not those of the settings: what the enumeration lets in, and nothing if it
fails; what `AddIcon` admits; and a renamed item if its old name was due, hidden or not. `tainted`
holds the items whose changes raced with a load, a notification or a missing registration, and the
new names of such items, and nothing else. For those the code promises nothing; `AccurateView` is
about all others, and says that what is due is shown, whatever order the parties take, and that the
races of one item never disturb another. It does not say that what is due is right: see below.

### WindowManager

The desktop (external: `Open`, `Close`, `Activate`, `Move`, `Redraw`, `Minimize`, `Restore`,
`ClickButton`) changes first and posts its messages; the manager handles them in order, later.
`windowMap` is `listed`, `uMonitor`, `buttons`, `deferred` (`updateDuringMaintenance`) and `recent`
(less than 100 ms since `lastUpdateTime`; `Tick` ends it). A taskbar is its buttons (`tasks`), the
ones laid out (`laid`), and the ones lit, flashing and minimised. `HandleMessage` dispatches to
`AddWindow`, `RemoveWindow`, `SetActive`, `UpdateWindow`, `MonitorChanged`, `MarkAsMinimized` and
the end of the initialisation; `UpdateWindowMonitors` and `RunWindowMaintenance` are the timers;
`Refresh` and `Quit` are `LM_REFRESH` and unloading. The threads of `AddExisting` are taken in four
steps, between which everything else may happen. `dirty` says that a window's title differs from
the one last shown. The icon of a button is not modelled: `UpdateIcon` fetches it by a chain of
asynchronous queries (`WindowManager.cpp:667`) whose answers may be late, overtake those of another
chain or never come, and a new button gets the icon stored last (`WindowManager.cpp:189`).
`NothingStale` therefore speaks of titles and monitors only.

### WindowTree

A drawable names its parent by a prefix. `Create` is the constructor: `NewWindow` finds the parent
or waits, `SetParent` adopts the windows that waited and tells everything below them,
`RegisterWindow` enters the name and the listener, and clocks set their timers on the way.
`Destroy` is the destructor in its order: the clock's own timer is cleared, the window is
unregistered, its children wait again (`UnRegister`), and everything below is told
(`ParentLeft`). A top-level window has a generator of timer ids that starts at 1 and hands the
oldest released id out first, as `UIDGenerator` does. Creation and destruction are atomic: they
run on the one thread and dispatch no messages. The order in which the clocks below an adopted
window set their timers is that of pointers in a set, hence arbitrary.

### Tray

Programs add, modify and delete icons (`AddIcon`, `ModifyIcon`, `DeleteIcon`), and may ask for a
balloon whenever they add or modify one (`HandleModify`, `EnqueueBalloon`). `sCurrentIcons` and
`instances` are the manager's, `mIcons` the tray's, and `owner` says which `TrayIcon` lives at an
address; an address is used again when its icon is deleted, and the queue of balloons holds
addresses. `ShowNextBalloon` is called by the timer, by `EnqueueBalloon` when no timer runs, and by
`DismissBalloon`, which a click and the removal of the icon call. The timer is set and cleared on
the window the tray is on, with the id generator of `WindowTree` and the map from ids to drawables;
`ticking` is what Windows does. `TopParentLost` and `NewTopParent` come from the parent.

`upset` is history: `mBalloonTimer` is not what it seems any more, because the timer went with the
window, because `SetCallbackTimer` failed, or because `ClearCallbackTimer` was called when there was
no timer, which releases id 0 (see the hazards). `TimerUnderWay` and `BalloonsPass` are about a tray
to which none of this has happened, and the model goes on after it. The model has one tray; several
share nothing but `sCurrentIcons`. The two questions for the notification state in one call of
`EnqueueBalloon` are taken to have the same answer.

### DynamicText

`functionMap` has, for each function, whether somebody provides its procedure and the set of users.
Parsed texts live at addresses, `heap`: an address that was freed is handed out again, while
`users` may still hold it. `SetText` deletes the old text without its destructor, as the code does
through `IParsedText`; `DestroyWindow` releases it with. What a window shows of a function is
abstracted to whether it is nothing, the name in brackets, or an old or the current output.
`TimePasses` and `Timer` are nCore's functions, `LoadModule`, `NewValues`, `Announce` and
`UnloadModule` are nMediaInfo's. A notification that reaches a freed user may end the process
(`crashed`) or call nothing; calling whatever else lives there is possible only after the address
was used again, and then the user is that text.

### TextParser

An iteration of the loop of `ParsedText::Parse` is a step, an action for each `mode`; positions are
indices, 0 is the null pointer, and the position behind the text is its terminator. `Shown` is what
`Evaluate` makes of a token while its function is not registered. What is parsed is either any short
text, also behind the beginning of an expression, or the spelling of up to three pieces of plain
text and calls, to which the tokens are then compared.

`numArgs` is a `UCHAR`. The argument after `MaxNumArgs`, 255 in the code, makes it zero, `realloc`
frees the array, and the argument is written in front of nothing (`ParsedText.cpp:273`): the parser
ends in the mode "overrun", which no step leaves.

### MediaInfo

`PlaySong` and `QuitWinamp` are Winamp's, `SongChanged` and `Reevaluate` the user interface
thread's, and the detached thread goes from asking for the track (`FindWinamp`) over the buffers
(`ReadFilePath`, `ReadTitle`, `ReadArtist`) and the labels (`NotifyLabels`) to the cover. Artist and
album are one buffer. Reading a path from a Winamp that has ended leaves the local variable
uninitialised: any path. `missed` is history: the last change was dropped because the updater ran.

### Popups

A popup is known by its place in the menus (`Parent`, `Above`), and may exist, be open and have its
items or not. `ClosePopups` is `Close` for a whole chain, with the order in which the code hides, as
that is the order of the posted `WM_HIDDEN`; `Yielding` is what the focus change of a hide or a show
closes from within (`CheckFocus`). `Hidden` is `WM_HIDDEN`, where a dynamic popup deletes its items,
and the popups of those, and a suicidal one itself. `ExecuteBang` is a command that is itself a
popup's bang, run before the chain closes. `reopened` is history: popups shown while their
`WM_HIDDEN` was on its way, which will empty them while they are open.

### TaskSwitcher

Windows open and close on their own, and the thumbnails are those of the windows there were when
the switcher was shown, and of the desktop's if there is one: without nDesk `gDesktopWindow` is null
(`TaskSwitcher.cpp:173`). `HandleAltTab` moves the selection or shows the switcher, `EnterThumbnail`
and `LeaveThumbnails` are the mouse, `PeekTimer` the timer, and `Hide` all that hides it. `caption`
is the window whose name the switcher shows. With neither a window nor a desktop the switcher has no
thumbnails. It then selects and names nothing (`MoveSelection`), and its peek timer indexes the empty
list (`TaskSwitcher.cpp:94`): the preview may be of anything afterwards, if the program does not
end. `SwitcherConsistent` names this exception.

### Painting

`activeStates` and `currentState` are a button's `StateWindowData`; `ActivateState` and `ClearState`
are the recursive functions of `StateRender` over the table of dependencies of `ButtonSettings.cpp`.
`mDeviceRefCount` and `brushes` belong to the `StateRender` all buttons share, `mRenderTarget` says
which windows have a render target. `Paint` makes one if there is none, which may fail, and may lose
it; `TopParentGone` and `TopParentBack` are the top-level window's. `Released` and `Acquired` keep
the count as the code does, wrong as it is: every window that is destroyed or whose target is
discarded decrements it, whether it holds a share or not. That the creation of a single brush fails
halfway is not modelled.

### Several components in one run

`MCServices` and `MCModules` put components side by side that share no variable. A behaviour
chooses one in its initial state (`service`, `module`) and exercises that one while the others stay
as they start, so that the state space is the sum of theirs and not the product: nothing is lost, as
no step of one reads what another writes. The fairness conditions are those of the components, each
restricted to the behaviours in which its component runs. The composition of components that do
interact is in the modules themselves: `TileGroup` extends the loader, `DynamicText` has windows,
nCore and nMediaInfo, and `Painting` has the buttons and the window tree above them.

## What TLC checks

| Run | Instance | Shows |
|---|---|---|
| `services` | the loader with 2 requests, 2 items | `FlagOutlivesRequest`, `CompleteWhenSent`, `CancelledNeverAnswered`; every request ends (`RequestsEnd`); the loader implements `RequestPromise`, liveness included (`ImplementsPromise`) |
| | the tree with 6 drawables, 3 levels, one name used twice | `NoDanglingWindow`, `AttachedIfPossible`, `OnTheWindowOfItsParent`, `ClocksRun` |
| | texts: 2 windows, 3 addresses, a function of nCore and one of nMediaInfo | `EveryTextIsTold`, `NothingOfTheGone`, `TextsCatchUp` |
| | parser: all texts of 2 characters out of 8, of 3 behind four beginnings of an expression, at most 2 arguments, and spellings of 1 to 3 pieces | `LosesNothing`, `ReadsWhatWasWritten` |
| | nMediaInfo: 2 files, 2 changes waiting | `LabelsFollow` |
| `modules` | the tray with 3 icons, one hidden; 2 addresses; 3 balloons; a parent with a timer of its own or none | `InstancesAgree`, `BalloonHasIcon`, `TimerUnderWay`, `BalloonsPass` |
| | menus: a dynamic one of 3 levels, one from the settings with a static and a dynamic submenu, and one of `!PopupDynamicFolder`; 4 `WM_HIDDEN` waiting | `ChainsFit`, `ItemsWhileOpen` |
| | the task switcher with 3 windows, with and without a desktop | `SwitcherConsistent`, `SwitchesToTheNamed` |
| | painting: 2 buttons, a count down to -2 | `LooksAsItIs`, `BrushesOfTheTarget` |
| `group` | 3 items, one hidden, one without a name, 3 changes; on the desktop or elsewhere | `PositionsPartition`, `AccurateView` |
| `group_live` | 1 item, 2 lives of the group, 2 changes, a subfolder | `AccurateView` over a refresh, `NotesDrain`, `LoadsArrive` |
| `windows` | 2 windows, 2 monitors, 2 taskbars, 2 events | `TaskbarsFollowMap`, `NothingStale`, `ActiveFollows` |
| `windows_live` | 1 window, 2 events, 1 refresh | `ButtonsShown`, `ListConverges`, `Converges` |

The type invariants are checked in `services` and `modules` (`ServicesTypeOK`, `ModulesTypeOK`: the
conjunctions of the components'), `group` and `windows`.

Why the bounds are enough. Loader: requests share only the id counter and the map, so two show
every way in which one can disturb another; the steps of one worker against one cancellation are
complete. `group`: three changes are the shortest sequence that takes a position, frees it and
takes it again around a load; a second life is what a late answer needs, and is `group_live`'s.
`windows`: two windows are needed for activation to pass on, two monitors and a taskbar for one of
them for buttons to come and go, and two events to race (close and re-open, move and redraw, close
and activate); `windows_live` has the refresh and with it two threads at once. Tree: a chain of
three below the screen has a window in the middle that can go while both ends stay, and each order
of creation and destruction of the six is reached; four timer ids are as many as are used before
one leaks twice. Tray: three balloons are one that is shown, one that waits and goes with its
icon, and one that takes its place; two addresses for three icons make one be used again; two timer
ids are the tray's and another's, and two released ids show the order in which they are handed out.
Texts: with two windows and three addresses a text can be freed, its address be used by the same
window, by the other one or by none, and another be told meanwhile; one function of each provider is
enough, as the functions of a module are registered and announced together. Parser: after any
beginning it looks at most three characters ahead, and its modes are reached from the four
beginnings, the fourth of which has as many arguments as can be counted (`MaxNumArgs` is 2 instead of
255: what matters is the argument after it); three pieces put a call between, before and behind
others. nMediaInfo: two files are the
one shown and the one played, and of two waiting changes the first finds an updater running. Menus:
three levels have a popup with both an opener and a child; the two submenus of the second menu give
way to each other; four messages are a chain and another popup. Task switcher: two windows in front
of a third, so that the order matters. Painting: the second button is what makes a shared count
differ from a flag; a count of -2 is as far as two buttons take it at once, and the theorem has no
such bound. All bounds are in guards: `MaxRequests`, `MaxGroups`, `MaxChanges`, `MaxEvents`, `MaxRefreshes`,
`MaxTimers`, `MaxBalloons`, `MaxIds`, `MaxReleased`, `MaxAnnounced`, `MaxPosted`, `MaxDebt`. (`MaxNumArgs`
is no such bound but the code's own.) The theorems need none of them small.

Deadlock is checked in the run of the tree's timers. The others may stop: requests, changes and
events run out at their bounds, a text is parsed, and a module is unloaded.

**Fairness.** Each worker thread runs (weak fairness of its steps), a message that is sent or
posted is dispatched as long as the process lives (weak fairness of each handler), timers fire and
time passes; for the tray, only that its balloon timer fires; for the texts, that
nCore's timer fires and that a change that was written is announced. This is what the operating system
grants a detached thread and a message loop that no handler blocks. Nothing obliges the user, the
folder, the desktop, Winamp or LiteStep to do anything: no fairness is assumed for changes, events,
icons, songs, clicks, refreshes, texts that are set, registration after a lost parent, cancellation or unloading.

## What the code does not do

Six runs end with a counterexample to something the repository says of itself. Each is described,
with both lines, in the `findings` of `PROJECT.json`.

- `group_duplicates` (`NoDuplicateTiles`): an item that appears while its folder is being loaded
  gets two tiles, as `AddIcon` looks for an existing icon before the asynchronous load only.
- `group_unload` (`UnloadsEverything`): a destroyed group leaves its requests outstanding, and
  their answers call it.
- `windows_refresh` (`OnEveryWantingTaskbar`): `LM_REFRESH` starts the window manager before the
  taskbars exist, so that the active window has no button afterwards.
- `windows_flash` (`FlashNotLost`): a request for attention that is throttled is forgotten.
- `tree_timers` (`TimersCallTheLiving`): when a window between a clock and its top-level window
  is destroyed, the clock's timer stays and calls the clock after its destruction.
- `text_users` (`UsersExist`): setting the text of a label again deletes its old text without its
  destructor; the functions keep the freed object among their users and call it. `EveryTextIsTold`
  shows that the texts in use are not harmed by it, whatever is allocated at the address.

The models keep these behaviours in the passing runs, too, and four more that have no run of their
own:

- Hidden items are shown, and visible ones are not. `AddIcon` says "Check if the icon should be
  supressed" (`TileGroup.cpp:251`) but asks `mRootFolder` for the name (line 253), so that an item
  with a hidden name that is created in a folder other than the desktop gets a tile; and
  `RenameIcon` (line 294) never asks `mHiddenItems`, so that an item renamed to a hidden name stays,
  and one renamed away from a hidden name, having no tile to rename, does not appear. No race is
  needed. `due` records these decisions and `AccurateView` takes them as they are.
- A folder whose enumeration fails is shown empty, and nothing reads it again.
- The task switcher without thumbnails, whose peek timer indexes the empty list.
- The 256th argument of a function in a text, which is written in front of the array.

## What is proved

TLAPS checks these theorems for all values of the constants that satisfy the named assumptions:
any finite or infinite sets of items, clients, windows, taskbars, monitors, texts, functions, files
and buttons, any alphabet and texts of any length, and any bounds. Three sets are assumed to be finite,
as what a process creates is: the drawables, for the cardinality of those that ask for a timer, the
popups, for the order in which a chain closes, and the programs, for the number of thumbnails.
`ParserAssumption` says that the terminator is no character, that a bracket is neither a letter
nor a digit, that some argument can be counted, and of the texts that are given by their pieces
(`Writings`) that they are well formed: plain text without a "[", two of which never meet, and calls
with a name whose first character is neither a "]" nor a quote and whose others are alphanumeric, and
with arguments without quotes, `MaxNumArgs` of them at most. It restricts nothing but what
`ReadsWhatWasWritten` is about; the other properties of the parser hold of all texts (`RawTexts`).
That a "]" does not begin a name is what `ParsedText.cpp:207` says and the code does not: it reads
"[]]" as a call of the function "]" (line 250).

| Module | Theorem | Property |
|---|---|---|
| `FileSystemLoaderProofs` | `LoaderTypeCorrect`, `FlagSafety`, `Completeness`, `CancelSafety` | `LoaderTypeOK`, `FlagOutlivesRequest`, `CompleteWhenSent`, `CancelledNeverAnswered` |
| | `RefinesPromise` | every step is a step of `RequestPromise` or none |
| `TileGroupProofs` | `GroupTypeCorrect`, `PositionsAreSafe`, `ViewIsAccurate` | `TypeOK`, `PositionsPartition`, `AccurateView` |
| `WindowManagerProofs` | `ManagerTypeCorrect`, `PointersAreButtons`, `EveryButtonShown` | `TypeOK`, `TaskbarsFollowMap`, `ButtonsShown` |
| | `LitFollowsForeground`, `NoWindowMissed`, `NoUpdateLost` | `ActiveFollows`, `ListConverges`, `NothingStale` |
| `WindowTreeProofs` | `TreeTypeCorrect`, `PointersAgree`, `WaitsOnlyInVain`, `TopWindowKnown`, `EveryClockRuns`, `WaitsForTheMissing` | `TypeOK`, `NoDanglingWindow`, `AttachedIfPossible`, `OnTheWindowOfItsParent`, `ClocksRun` |
| `TrayProofs` | `TrayTypeCorrect`, `TrayInstancesAgree`, `TrayBalloonHasIcon`, `TrayTimerUnderWay` | `TypeOK`, `InstancesAgree`, `BalloonHasIcon`, `TimerUnderWay` |
| `PopupsProofs` | `PopupTypeCorrect`, `ChainsAlwaysFit`, `MenusHaveTheirItems` | `PopupTypeOK`, `ChainsFit`, `ItemsWhileOpen` |
| `ServicesProofs` | `TextTypeCorrect`, `TextsAreTold`, `GoneIsNotShown` | `TextTypeOK`, `EveryTextIsTold`, `NothingOfTheGone` |
| | `ParserStaysInside`, `NothingIsLost`, `WritingsAreRead` | `ParserTypeOK`, `LosesNothing`, `ReadsWhatWasWritten` |
| | `MediaTypeCorrect`, `LabelsFollowTheSong` | `MediaTypeOK`, `LabelsFollow` |
| | `ServicesKeepTypes` | `ServicesTypeOK`: all the components of `MCServices` in one behaviour |
| `ModulesProofs` | `NoPastBrushes`, `ButtonsLookAsTheyAre`, `PaintTypeCorrect` | `BrushesOfTheTarget`, `LooksAsItIs`, `PaintTypeOK` (of `ModulesTypeOK`) |
| | `SwitcherTypeCorrect`, `SwitcherStaysConsistent`, `SwitchesToWhatItShows` | `SwitcherTypeOK` (of `ModulesTypeOK`), `SwitcherConsistent`, `SwitchesToTheNamed` |
| | `ModulesKeepTypes` | `ModulesTypeOK`: all the components of `MCModules` in one behaviour |

The arguments:

- *Loader.* None of the three safety properties is inductive: whether a flag may be written depends
  on where the worker is. `RequestInv` relates, for one request, the map, the flag, the worker's
  program counter and the history; in particular a request that waits has a flag that is clear and
  a worker that is not yet leaving, and a worker with a clear flag that has left its loop
  has nothing left to enumerate. `LoaderInv` is that for all requests, and each action changes one.
- *Group.* `PositionsPartition` is inductive with the types and the loader's invariant, which says
  what a response holds. The step that matters is `FreshPosition`: the least empty spot exists, as
  the naturals are well founded, and nobody sits on it. The lemmas about the tiles do not mention
  the loader and are used by each action that reaches them.
  `AccurateView` speaks of states without news of the item, so what leads to them has to be said of
  the news under way. `RequestsInv` says what a living group has asked for: its folder once, single
  items otherwise, and it is handed only what a response holds. `ViewInv` then has two cases for an
  item. While the folder is being loaded there is no other news of it, the response lists it, or
  will when enumerated, exactly if it is due, and it has no tile before its turn
  (`WhileLoading`). Afterwards (`AfterLoading`) each notification of its coming or going is the
  first to mention it and finds the tiles as they were before the change (`Foretold`); without
  one, the item was asked for in a single request and has no tile yet, or what is shown is right.
  Only a renaming relates two items: the old name has its tile, no request and no earlier
  notification, so that the tile can be renamed. TLC checked `ViewInv` before it was proved. The
  proof goes action by action and, in each, item by item: `SameItem` serves all those the step is
  not about.
- *Task list.* `TypeOK` is inductive; `TaskbarsFollowMap` and `ButtonsShown` are inductive given
  it. There is a lemma for each operation of the manager and each of the three facts. The other
  three are about messages on their way, of which it is the order that counts: `EndsWith(q, M, p)`
  says that behind every message of `M` in the queue `q` there is a `p`, which posting and handling
  keep in an obvious way. `ActiveInv` has the queue end with the activation of the window in front,
  as far as it turns a button on or off, and every button lit in between accounted for by
  `activeWindow` or a message. In `ListInv` a window that came up is `Coming`: its creation is behind
  its destruction, if there is one, and it is in the list or on its way there; or a thread
  will examine it. `Fresh` says of one window what `NothingStale` says of all, but only once its
  destruction does not wait.
- *Tree.* `TreeInv` adds `TopsHaveNoParent` to the four properties, which need each other: whom a
  destruction tells depends on `children`, which is right because of `NoDanglingWindow`, and
  that a told drawable gets the right top-level window because of `OnTheWindowOfItsParent`.
  `Below(roots)` is the least set closed under `children`; `BelowIsLeast`, `BelowIsClosed` and
  `BelowHasParent` are all that is used of it. The assumption that Parent settings have no cycle is
  needed once, in `ParentIsAbove`: a new drawable does not wait below itself. For the clocks,
  `FreeIDs` says that what the generator will hand out next calls nobody: each id that was given back
  is there once, and neither these nor the ids never used call anyone. Ids that leak
  (`TimersCallTheLiving`) only make there be fewer of them. `OnlyBelow` is why a clock that loses its
  top-level window is told: whoever is on a window lies below it. `AttachedIfPossible` speaks of
  windows that are registered: when one of two windows of a name is destroyed, `UnRegisterWindow`
  (`WindowRegistrar.cpp:32`) erases the entry, although the other lives, and who waits for the name
  goes on waiting. Of a name only one drawable has, `WaitsForTheMissing` says that its window is
  registered as long as it lives, so that nobody waits for a window that exists.
- *Tray.* `InstancesAgree` and `BalloonHasIcon` are inductive with the types, the latter because
  what `ShowNextBalloon` leaves visible is nothing unless `mActiveBalloonIcon` is null
  (`NothingStays`). `TimerUnderWay` needs `FreeIds`: the released ids are distinct, below the next
  fresh one and call nobody, and neither do 0 and the ids that are not yet used; otherwise
  a new timer could get the id of another drawable and never call the tray. `TimerInv` is both.
- *Texts.* `EveryTextIsTold` needs `NoStray`, that a text which is alive belongs to the window it
  names: only then does freeing or using an address leave the other windows alone. `NothingOfTheGone`
  needs `ShowsItsUses`, that a window shows output of functions its text calls only, and
  `EveryTextIsTold`: the windows whose text calls a function are those the notification reaches.
- *Parser.* `ParserInv` says that the tokens show what lies before the parser's position (`pos`), so
  that at the end they show the text. For that `InBrackets` says where it is: inside an expression
  it stands behind a "[", and at a "]" when it has succeeded. The equation for one more token needs
  what `FlattenSeq` does to `Append`, which follows from its definition by the well-foundedness of
  the numbers (`UpTo`), as do the few facts about it.
  `WritingsAreRead` says more of less: not only does nothing get lost, the tokens are the pieces.
  `WrittenInv` has the tokens be the first `k` pieces (`Reached`) and the parser either behind them
  or in the next call (`InCall`), where `Reads` says how far: in the name, at the quote that opens the
  `i`th argument with those before it read, or at the closing bracket. For that to say anything each
  piece has to have its place: `Off(k)` is where the `k`th ends, `Opening(p, i)` the quote of an argument,
  and `OffsetsAre`, `TextAt`, `CallAt` and `ArgumentOf` give the characters there. Then each step is a
  computation: the first "[" or "'" that is found is the one that was written (`FindFirst`), as plain
  text holds no bracket and an argument no quote; a call is never given up (`FailureReads`);
  and each of its arguments can be counted (`RoomForAnother`).
  TLC checked `WrittenInv` before it was proved.
- *Services and modules together.* The components of `MCServices`, and those of `MCModules`, have no
  variable in common, and a step of one is no step of the others; `ServicesKeepTypes` and
  `ModulesKeepTypes` put their invariants side by side.
- *nMediaInfo.* At rest says nothing about the steps before. `MediaInv` says of each place of the
  updater what the buffers hold there, and of the path it asked for that it is the one being played
  unless a change waits or was missed.
- *Menus.* Everything that closes closes as a whole: with a popup, the list that `Close` works through
  holds the one it opened (`Whole`), and with the list the messages that will be posted
  (`ClosingOrder`). That the list names each popup of the chain rests on the popups of a chain lying
  above one another in the forest (`AboveLinear`, `RightBelow`). `Linked` adds to `ChainsFit` that an
  owner is the popup's place in the menus; `Awaited` says that a popup whose `WM_HIDDEN` is on its way
  has opened nothing, and is open only if it was shown again, which only a root can be: so when
  it deletes its items there is nothing open below it that could be left over.
- *Painting.* The count is not the number of windows with a share, which would be the obvious
  invariant. `PaintInv` bounds it from above only: by the number of buttons while there is a target,
  by zero while there is none, with brushes only while it is positive. So the call for every button
  that comes with the loss of a target always takes it through zero if there are brushes.
  `LooksAsItIs` is about what recursive calls return. That the recursive functions `ActivateState` and
  `ClearState` exist at all is `CallsExist`: a call makes calls for later states only
  (`DependentsLater`), so they can be built from the last state down. `Activates(h, s)` says of such a
  function that its call for `s` only adds states and goes up to the highest of them (`Grown`), that
  no combined state is missing afterwards but those that were missing without `s` being the reason
  (`Closed`), and that none is active without what it depends on (`Sound`); `Clears(h, s)` says the
  corresponding things of clearing. They are proved for one state from the later ones, through an invariant of
  the loop over the dependent states (`ActivateLoopKeeps`, `ClearLoopKeeps`: nothing is missing but
  states the loop has still to come to), and then for all. What a button looks like after a message is
  then right (`AsItIs`), whatever it was that the message set and cleared.
- *Task switcher.* `SwitcherConsistent` needs only types of the lists. `SwitchesToTheNamed` needs it,
  and `NamesItsTarget`: while the switcher is shown with thumbnails its text names the
  hovered one or else the
  selected one. Nothing is said of `mHoveredThumbnail` while it is hidden, when it dangles.
  `SwitcherTypeOK` bounds the selection by the number of windows, which takes both: `topLevel` lists
  no window twice, however windows are opened, closed and brought to the front (`RemovedInjective`,
  `PushedInjective`), hence is no longer than the set of programs (`InjectiveIsShort`), and the
  thumbnails are at most one more.

Only model-checked: the liveness properties (`RequestsEnd`, `NotesDrain`, `LoadsArrive`, `Converges`,
`BalloonsPass`, `TextsCatchUp`, the liveness of `RequestPromise`), which are beyond the prover. All
the invariants and action properties of the passing runs are theorems, and every step of the loader
is proved to be one of its promise.

## What is not modelled

- *Of the modelled components:* drawing, layout and sorting; the clipboard, selection, drag and drop
  and context menus of icons; icon, overlay and progress of a task button and its menu; user
  messages, mouse capture, update locks and animation of windows; several trays, tooltips, layout
  and `LM_SYSTRAYINFOEVENT`; windows made with `CreateChild`,
  which their owner destroys before itself; cycles of Parent settings (they are not rejected and
  never terminate: an assumption of the model); the output of nCore's text functions; folder
  watches, sizes and positions of popups; icons of the task switcher;
  tags and pictures of a song, and an updater that outlives its module; states of windows other than
  task buttons, settings, layout and colours.
- *nCore service:* `SendCoreMessage` to windows that register and unregister in its handlers.
- *Connection to the core:* forwarding, and a version check that is one comparison. It compares the
  patch version of the oldest acceptable core with itself (`Core.cpp:55`), so that a core with an
  older patch is accepted.
- *Desktop and wallpaper:* the transition that a second change of the wallpaper interrupts.
- *Hotkeys:* a table that is filled once and looked up.
- *Scripting* (bindings to v8), *Rewrite* (unfinished and not shipped), vendored code (v8 and
  taglib, by far the most lines of the repository), reading and writing of settings, Direct2D,
  utilities and thin modules of one call: no state of the program's own that order or timing could
  upset.

## Plan

1. *Done:* the loader and its promise, the icon group, the window manager, the window tree, the
   tray; dynamic texts and their parser, nMediaInfo, menus, task switcher and the painting of task
   buttons; each with its properties, most with theorems.
2. *More of the system:* `MessageManager` while its handlers register and unregister; user messages
   and mouse capture in the window tree; the chain of icon queries of a task button, whose answers
   overtake each other; the clipboard of an icon group; the transition of the wallpaper.
3. *More proofs:* those of what item 2 adds; the safety properties of what is modelled are proved.
