------------------------------ MODULE TileGroup ------------------------------
(***************************************************************************)
(* An icon group of nIcon (src/nIcon/TileGroup.cpp) on top of the loader.  *)
(*                                                                         *)
(* A group shows the items of one folder.  It learns of them in two ways:  *)
(* it asks the loader for everything in the folder when it is created, and *)
(* the shell posts it a notification for every later change.  A created    *)
(* item is asked for one by one.  Whatever a response brings becomes a     *)
(* tile at the first free position.                                        *)
(*                                                                         *)
(* Three parties move independently: the folder (external), the worker     *)
(* threads of the loader, and the user interface thread, which handles one *)
(* message at a time and whose long handlers are taken step by step.       *)
(***************************************************************************)
EXTENDS FileSystemLoader, FiniteSets, Sequences

CONSTANTS
  Hidden,           \* the items named by mHiddenItems
  MaxGroups,        \* bound: how often the group is created
  MaxChanges        \* bound: how often the folder changes

\* Every change makes at most one request and every group one more, so the bound
\* of the loader never stops the group.
ASSUME GroupAssumption ==
  /\ Hidden \subseteq Items
  /\ MaxGroups \in Nat /\ MaxChanges \in Nat
  /\ MaxRequests >= MaxGroups + MaxChanges
  /\ Handlers = 1..MaxGroups

VARIABLES
  folderIsDesktop,  \* whether mWorkingFolder is the root of the name space (a setting)
  folder,           \* what the folder holds (external)
  changes,          \* how often it has changed
  notes,            \* the change notifications posted to the group's window
  group,            \* the group: the number of the object, 0 before the first
  ui,               \* what the user interface thread is in the middle of
  loaded,           \* FolderLoaded: the items of the response still to come
  registered,       \* mChangeNotifyUID # 0
  mTiles,           \* the tiles of the group
  mEmptySpots,      \* positions below mNextPositionID that are free
  mNextPositionID,  \* the position after the last one ever used
  due,              \* history: the items of the folder the code decided to show
  tainted,          \* history: items whose changes raced, see AccurateView
  stray             \* history: requests answered to a destroyed group

viewVars  == <<mTiles, mEmptySpots, mNextPositionID>>
shellVars == <<folderIsDesktop, folder, changes, due, tainted>>
uiVars    == <<group, ui, loaded, registered, stray>>
vars      == <<loaderVars, viewVars, shellVars, uiVars, notes>>

\* mTiles is a list in the code; a tile is told apart from others of the same item
\* by the response that made it.
Tile == [request : Ids, made : Items,    \* the identity of the object
         item    : Items,                \* mItem
         pos     : Nat,                  \* mPositionID
         icon    : BOOLEAN]              \* whether its overlay is there

Note == [event : {"create", "delete", "rename", "update"}, item : Items, to : Items]

GroupInit ==
  /\ LoaderInit
  /\ folderIsDesktop \in BOOLEAN
  /\ folder \in SUBSET Items
  /\ changes = 0
  /\ notes = <<>>
  /\ group = 0 /\ ui = "start" /\ loaded = {} /\ registered = FALSE
  /\ mTiles = {} /\ mEmptySpots = {} /\ mNextPositionID = 0
  /\ due = {} /\ tainted = {} /\ stray = {}

TilesOf(f) == {t \in mTiles : t.item = f}

----------------------------------------------------------------------------
(* Which requests and notifications can still change what is shown of f.    *)

InFlight(id) == /\ thread[id].pc \in {"started", "loading", "loaded", "sending"}
                /\ sOutstandingRequests[id] = group

MayBring(id, f) == InFlight(id) /\ (thread[id].kind = "folder" \/ f \in thread[id].items)

Announced(f) == \E i \in DOMAIN notes : f \in {notes[i].item, notes[i].to}

Settled(f) ==
  /\ registered
  /\ ~Announced(f)
  /\ \A id \in Ids : ~MayBring(id, f)

----------------------------------------------------------------------------
(* The folder and the shell's notifications (external).                     *)
(*                                                                          *)
(* Two histories go with it.  due is what the group is to show by the rules *)
(* of its code, whether or not they are what the settings ask for:          *)
(*   - the enumeration lets in what has a name that can be told and that is *)
(*     not black-listed, and nothing when it fails (LoadFolder);            *)
(*   - AddIcon looks a created item up under the name the root gives it,    *)
(*     which is its name on the desktop only: elsewhere a hidden item gets  *)
(*     in; without a name an uninitialized buffer decides;                  *)
(*   - RenameIcon passes on what was decided for the old name, whether or   *)
(*     not the new one is hidden.                                           *)
(* tainted holds the items whose last changes raced: they came while a load *)
(* that may bring the item or an earlier notification of it was under way,  *)
(* while the group was not registered, or their notification went with the  *)
(* window; a renamed item inherits it.                                      *)

Post(event, f, g) ==
  notes' = IF registered THEN Append(notes, [event |-> event, item |-> f, to |-> g])
                         ELSE notes

\* A change of the folder that touches the items in fs.
Change(fs) ==
  /\ changes < MaxChanges
  /\ changes' = changes + 1
  /\ UNCHANGED <<loaderVars, viewVars, uiVars, folderIsDesktop>>

Raced(fs) == {f \in fs : ~Settled(f)}

CreateItem(f) ==
  /\ f \notin folder
  /\ folder' = folder \cup {f}
  /\ Post("create", f, f)
  /\ due' = IF f \in Unreadable \/ (folderIsDesktop /\ f \in Hidden)
               THEN due ELSE due \cup {f}
  /\ tainted' = tainted \cup Raced({f})
  /\ Change({f})

DeleteItem(f) ==
  /\ f \in folder
  /\ folder' = folder \ {f}
  /\ due' = due \ {f}
  /\ Post("delete", f, f)
  /\ tainted' = tainted \cup Raced({f})
  /\ Change({f})

RenameItem(f, g) ==
  /\ f \in folder /\ g \notin folder
  /\ folder' = (folder \ {f}) \cup {g}
  /\ Post("rename", f, g)
  /\ due' = IF f \in due THEN (due \ {f}) \cup {g} ELSE due
  /\ tainted' = tainted \cup Raced({f, g})
                  \cup (IF f \in tainted \/ ~Settled(f) THEN {g} ELSE {})
  /\ Change({f, g})

UpdateItem(f) ==
  /\ f \in folder
  /\ Post("update", f, f)
  /\ UNCHANGED <<folder, due, tainted>>
  /\ Change({f})

Shell ==
  \/ \E f \in Items : CreateItem(f) \/ DeleteItem(f) \/ UpdateItem(f)
  \/ \E f, g \in Items : RenameItem(f, g)

----------------------------------------------------------------------------
(* The tiles.                                                               *)

\* The smallest empty spot, or a new position at the end.
GetIconPosition ==
  IF mEmptySpots # {} THEN CHOOSE p \in mEmptySpots : \A q \in mEmptySpots : p <= q
                      ELSE mNextPositionID

TakeIconPosition ==
  /\ mEmptySpots' = mEmptySpots \ {GetIconPosition}
  /\ mNextPositionID' = IF mEmptySpots # {} THEN mNextPositionID ELSE mNextPositionID + 1

\* A response of request id has brought an item: it becomes a tile.
ItemLoaded(id, f) ==
  /\ TakeIconPosition
  /\ mTiles' = mTiles \cup {[request |-> id, made |-> f, item |-> f,
                             pos |-> GetIconPosition, icon |-> TRUE]}

\* Whether AddIcon takes f for a hidden item.  It asks the root for the name of an
\* item of the folder, so unless the folder is the desktop it looks the wrong name
\* up; and without a name it looks an uninitialized buffer up.
Suppressed(f) ==
  IF f \in Unreadable THEN BOOLEAN ELSE {folderIsDesktop /\ f \in Hidden}

AddIcon(f) ==
  /\ UNCHANGED viewVars
  /\ \/ /\ TilesOf(f) # {}
        /\ UNCHANGED loaderVars
     \/ /\ TilesOf(f) = {}
        /\ \E suppressed \in Suppressed(f) :
             IF suppressed THEN UNCHANGED loaderVars ELSE LoadFolderItem(group, f)

\* (mutant) The spot before the tile is noted as the empty one.
RemoveIcon_OffByOne(f) ==
  /\ mTiles' = mTiles \ TilesOf(f)
  /\ mEmptySpots' = mEmptySpots \cup {t.pos - 1 : t \in TilesOf(f)}
  /\ UNCHANGED <<mNextPositionID, loaderVars>>

\* (mutant) The position of a removed tile is the next one to be used.
RemoveIcon_StepsBack(f) ==
  /\ mTiles' = mTiles \ TilesOf(f)
  /\ mNextPositionID' = mNextPositionID - Cardinality(TilesOf(f))
  /\ UNCHANGED <<mEmptySpots, loaderVars>>

RemoveIcon(f) ==
  /\ mTiles' = mTiles \ TilesOf(f)
  /\ mEmptySpots' = mEmptySpots \cup {t.pos : t \in TilesOf(f)}
  /\ UNCHANGED <<mNextPositionID, loaderVars>>

\* FindIcon returns the first of the list; which one that is, is left open here.
RenameIcon(f, g) ==
  /\ IF TilesOf(f) = {} THEN UNCHANGED mTiles
     ELSE \E t \in TilesOf(f) : mTiles' = (mTiles \ {t}) \cup {[t EXCEPT !.item = g]}
  /\ UNCHANGED <<mEmptySpots, mNextPositionID, loaderVars>>

\* Tile::UpdateIcon clears the overlays of the tile, its icon among them.
UpdateIcon(f) ==
  /\ IF TilesOf(f) = {} THEN UNCHANGED mTiles
     ELSE \E t \in TilesOf(f) : mTiles' = (mTiles \ {t}) \cup {[t EXCEPT !.icon = FALSE]}
  /\ UNCHANGED <<mEmptySpots, mNextPositionID, loaderVars>>

----------------------------------------------------------------------------
(* The user interface thread.                                               *)

\* (mutant) The request does not name the hidden items.
NewGroup_NoBlackList ==
  /\ group < MaxGroups
  /\ group' = group + 1
  /\ ui' = "registering"
  /\ mTiles' = {} /\ mEmptySpots' = {} /\ mNextPositionID' = 0
  /\ registered' = FALSE /\ notes' = <<>>
  /\ due' = folder \ (Hidden \cup Unreadable) /\ tainted' = {}
  /\ LoadFolder(group + 1, {})
  /\ UNCHANGED <<folderIsDesktop, folder, changes, loaded, stray>>

\* (mutant) The tiles of the group that is destroyed stay.
NewGroup_KeepsTiles ==
  /\ group < MaxGroups
  /\ group' = group + 1
  /\ ui' = "registering"
  /\ UNCHANGED viewVars
  /\ registered' = FALSE /\ notes' = <<>>
  /\ due' = folder \ (Hidden \cup Unreadable) /\ tainted' = {}
  /\ LoadFolder(group + 1, Hidden)
  /\ UNCHANGED <<folderIsDesktop, folder, changes, loaded, stray>>

\* The constructor, as far as SetFolder's LoadFolder; the registration for change
\* notifications follows while the worker may already be at it.
NewGroup ==
  /\ group < MaxGroups
  /\ group' = group + 1
  /\ ui' = "registering"
  /\ mTiles' = {} /\ mEmptySpots' = {} /\ mNextPositionID' = 0
  /\ registered' = FALSE /\ notes' = <<>>
  /\ due' = folder \ (Hidden \cup Unreadable) /\ tainted' = {}
  /\ LoadFolder(group + 1, Hidden)
  /\ UNCHANGED <<folderIsDesktop, folder, changes, loaded, stray>>

CreateGroup == ui = "start" /\ NewGroup

\* LM_REFRESH: every group is destroyed, notifications and tiles with it, and
\* created anew.  The requests of the old one are not cancelled.
Refresh == ui = "idle" /\ NewGroup

\* quitModule: the group is destroyed for good.
Unload ==
  /\ ui = "idle"
  /\ ui' = "quit"
  /\ registered' = FALSE /\ notes' = <<>>
  /\ mTiles' = {} /\ mEmptySpots' = {} /\ mNextPositionID' = 0
  /\ UNCHANGED <<loaderVars, shellVars, group, loaded, stray>>

RegisterForChanges ==
  /\ ui = "registering"
  /\ ui' = "idle"
  /\ registered' = TRUE
  /\ UNCHANGED <<loaderVars, viewVars, shellVars, group, loaded, stray, notes>>

\* WM_TOPPARENTLOST: the window the notifications are posted to is gone.
TopParentLost ==
  /\ ui = "idle" /\ registered
  /\ registered' = FALSE
  /\ notes' = <<>>
  /\ tainted' = tainted \cup {f \in Items : Announced(f)}
  /\ UNCHANGED <<loaderVars, viewVars, folderIsDesktop, folder, changes, due, group, ui, loaded, stray>>

NewTopParent ==
  /\ ui = "idle" /\ ~registered
  /\ registered' = TRUE
  /\ UNCHANGED <<loaderVars, viewVars, shellVars, group, ui, loaded, stray, notes>>

\* An item whose name cannot be told is due once AddIcon asked for it.
Admit(f) ==
  due' = IF f \in Unreadable \cap folder /\ sNextRequestId' # sNextRequestId
           THEN due \cup {f} ELSE due

\* (mutant) A notification of an unknown item is never done with.
HandleChangeNotify_KeepsUnknown ==
  /\ ui = "idle" /\ notes # <<>>
  /\ LET n == Head(notes)
     IN  /\ notes' = IF n.event # "create" /\ TilesOf(n.item) = {} THEN notes ELSE Tail(notes)
         /\ \/ n.event = "create" /\ AddIcon(n.item)
            \/ n.event = "delete" /\ RemoveIcon(n.item)
            \/ n.event = "rename" /\ RenameIcon(n.item, n.to)
            \/ n.event = "update" /\ UpdateIcon(n.item)
         /\ Admit(n.item)
  /\ UNCHANGED <<folderIsDesktop, folder, changes, tainted, uiVars>>

HandleChangeNotify ==
  /\ ui = "idle" /\ notes # <<>>
  /\ notes' = Tail(notes)
  /\ LET n == Head(notes)
     IN  \/ n.event = "create" /\ AddIcon(n.item)
         \/ n.event = "delete" /\ RemoveIcon(n.item)
         \/ n.event = "rename" /\ RenameIcon(n.item, n.to)
         \/ n.event = "update" /\ UpdateIcon(n.item)
  /\ Admit(Head(notes).item)
  /\ UNCHANGED <<folderIsDesktop, folder, changes, tainted, uiVars>>

\* F5, or a change of the system's icons.
UpdateAllIcons ==
  /\ ui = "idle"
  /\ \E t \in mTiles : t.icon
  /\ mTiles' = {[t EXCEPT !.icon = FALSE] : t \in mTiles}
  /\ UNCHANGED <<loaderVars, shellVars, uiVars, notes, mEmptySpots, mNextPositionID>>

\* The response to a request for one item.
LoadItemCompleted(id) ==
  /\ ui = "idle"
  /\ thread[id].kind = "item" /\ sOutstandingRequests[id] = group
  /\ \E f \in thread[id].items : ItemLoaded(id, f)
  /\ Answer(id)
  /\ UNCHANGED <<shellVars, uiVars, notes>>

\* (mutant) The folder is not shown while change notifications are off.
LoadCompleted_OnlyRegistered(id) ==
  /\ ui = "idle" /\ registered
  /\ thread[id].pc = "sending"
  /\ thread[id].kind = "folder" /\ sOutstandingRequests[id] = group
  /\ ui' = "delivering"
  /\ loaded' = thread[id].items
  /\ UNCHANGED <<loaderVars, viewVars, shellVars, group, registered, stray, notes>>

\* The response to a request for the folder: FolderLoaded walks over it.
LoadCompleted(id) ==
  /\ ui = "idle"
  /\ thread[id].pc = "sending"
  /\ thread[id].kind = "folder" /\ sOutstandingRequests[id] = group
  /\ ui' = "delivering"
  /\ loaded' = thread[id].items
  /\ UNCHANGED <<loaderVars, viewVars, shellVars, group, registered, stray, notes>>

Delivering(id) == /\ ui = "delivering"
                  /\ thread[id].pc = "sending"
                  /\ thread[id].kind = "folder" /\ sOutstandingRequests[id] = group

FolderLoaded(id) ==
  /\ Delivering(id)
  /\ \E f \in loaded : ItemLoaded(id, f) /\ loaded' = loaded \ {f}
  /\ UNCHANGED <<loaderVars, shellVars, group, ui, registered, stray, notes>>

FolderLoadedReturns(id) ==
  /\ Delivering(id) /\ loaded = {}
  /\ ui' = "idle"
  /\ Answer(id)
  /\ UNCHANGED <<viewVars, shellVars, group, loaded, registered, stray, notes>>

\* The response to a request of a group that no longer exists: its handler is called
\* all the same.  What the call does is undefined; either nothing of the living
\* group is hit, or the process ends.
AnswerDestroyed(id) ==
  /\ ui \in {"idle", "quit"}
  /\ sOutstandingRequests[id] # group \/ ui = "quit"
  /\ Answer(id)
  /\ stray' = stray \cup {id}
  /\ ui' \in {ui, "crashed"}
  /\ UNCHANGED <<viewVars, shellVars, group, loaded, registered, notes>>

UI ==
  \/ CreateGroup \/ Refresh \/ Unload \/ RegisterForChanges
  \/ TopParentLost \/ NewTopParent \/ HandleChangeNotify \/ UpdateAllIcons
  \/ \E id \in Ids : \/ LoadItemCompleted(id) \/ LoadCompleted(id) \/ FolderLoaded(id)
                     \/ FolderLoadedReturns(id) \/ AnswerDestroyed(id)

\* The workers run on; the listing of the folder is what the folder holds.
Workers ==
  /\ ui # "crashed"
  /\ \E id \in Ids : WorkerStep(id) \/ EnumObjects(id, folder)
  /\ UNCHANGED <<viewVars, shellVars, uiVars, notes>>

\* The folder cannot be enumerated: the response will be empty.
EnumerationFails(id) ==
  /\ ui # "crashed"
  /\ folder # {}
  /\ EnumObjects(id, {})
  /\ due' = IF sOutstandingRequests[id] = group THEN {} ELSE due
  /\ UNCHANGED <<viewVars, folderIsDesktop, folder, changes, tainted, uiVars, notes>>

Next == UI \/ Workers \/ Shell \/ \E id \in Ids : EnumerationFails(id)

Spec == GroupInit /\ [][Next]_vars

\* Threads run, and the message loop dispatches what is sent or posted to it for as
\* long as the process lives.  Nothing obliges the folder to change, the user to
\* act or LiteStep to refresh.
Fairness ==
  /\ WF_vars(Workers)
  /\ WF_vars(RegisterForChanges)
  /\ WF_vars(HandleChangeNotify)
  /\ \A id \in Ids : /\ WF_vars(LoadCompleted(id) \/ LoadItemCompleted(id))
                      /\ WF_vars(FolderLoaded(id) \/ FolderLoadedReturns(id))
                      /\ WF_vars(AnswerDestroyed(id))

FairSpec == Spec /\ Fairness

----------------------------------------------------------------------------
(* Properties.                                                              *)

TypeOK ==
  /\ LoaderTypeOK
  /\ folderIsDesktop \in BOOLEAN
  /\ folder \subseteq Items
  /\ changes \in 0..MaxChanges
  /\ notes \in Seq(Note)
  /\ group \in 0..MaxGroups
  /\ ui \in {"start", "registering", "idle", "delivering", "quit", "crashed"}
  /\ loaded \subseteq Items
  /\ registered \in BOOLEAN
  /\ mTiles \subseteq Tile
  /\ mEmptySpots \subseteq Nat
  /\ mNextPositionID \in Nat
  /\ due \subseteq folder /\ tainted \subseteq Items
  /\ stray \subseteq Ids

\* No two tiles share a position, no tile sits on a position that will be handed
\* out, and no position below mNextPositionID is lost, however loads, removals and
\* renames interleave and even where two tiles show the same item
\* (GetIconPosition and RemoveIcon, TileGroup.cpp lines 267 and 305).
PositionsPartition ==
  /\ \A t, u \in mTiles : t.pos = u.pos => t = u
  /\ {t.pos : t \in mTiles} \cap mEmptySpots = {}
  /\ {t.pos : t \in mTiles} \cup mEmptySpots = 0..(mNextPositionID - 1)

\* What the group is to show of an item by its own rules (due, which is not always
\* what the Hide settings ask for: a hidden item is shown when it is created outside
\* the desktop or when a shown one is renamed to it, a visible one is not when a
\* hidden one is renamed to it, and no item is when the enumeration failed) is what
\* it does show, whatever goes on with the other items at the same time: once its
\* news have arrived, an item none of whose changes raced (tainted) has exactly one
\* tile if it is in the folder and due, and none otherwise.  (SetFolder,
\* FolderLoaded and HandleChangeNotify together.)
AccurateView ==
  \A f \in Items \ tainted :
    ui = "idle" /\ Settled(f) =>
      Cardinality(TilesOf(f)) = (IF f \in due THEN 1 ELSE 0)

\* Every notification is handled, or its window goes.
NotesDrain == notes # <<>> ~> (notes = <<>> \/ ui = "crashed")

\* Every load the group waits for arrives, or the group goes.
LoadsArrive == \A id \in Ids : InFlight(id) ~> (~InFlight(id) \/ ui \in {"quit", "crashed"})

\* "Don't add existing icons" (TileGroup.cpp line 248): no item has two tiles.
NoDuplicateTiles == \A f \in Items : Cardinality(TilesOf(f)) <= 1

\* "Unloads everything created by .rc settings or at runtime" (nIcon.cpp line 55):
\* nothing of an unloaded group is called afterwards.
UnloadsEverything == stray = {}
=============================================================================
