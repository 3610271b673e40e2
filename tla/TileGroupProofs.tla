--------------------------- MODULE TileGroupProofs ---------------------------
(***************************************************************************)
(* What TileGroup guarantees for every set of items, however often the     *)
(* folder changes and the group is created: first the positions of the     *)
(* tiles, then that the view shows what the folder holds.                  *)
(***************************************************************************)
EXTENDS TileGroup, FileSystemLoaderProofs, WellFoundedInduction, FiniteSetTheorems

ViewTypeOK ==
  /\ mTiles \subseteq Tile
  /\ mEmptySpots \subseteq Nat
  /\ mNextPositionID \in Nat

\* The loader's invariant makes the responses well formed, the rest is the group's.
GroupInv == /\ LoaderInv
            /\ TypeOK
            /\ PositionsPartition
            /\ ui # "start" => group # 0

USE LoaderAssumption, GroupAssumption

----------------------------------------------------------------------------
(* The operations on the tiles.                                             *)

\* GetIconPosition hands out a position nobody has.
LEMMA FreshPosition ==
  ASSUME ViewTypeOK, PositionsPartition
  PROVE  /\ GetIconPosition \in Nat
         /\ GetIconPosition \notin {t.pos : t \in mTiles}
         /\ mEmptySpots # {} => GetIconPosition \in mEmptySpots
         /\ mEmptySpots = {} => GetIconPosition = mNextPositionID
  <1>1. CASE mEmptySpots # {}
    <2>1. \E p \in mEmptySpots : \A q \in mEmptySpots : p <= q
      <3> DEFINE less == {pair \in Nat \X Nat : pair[1] < pair[2]}
      <3>1. \A p, q \in Nat : <<p, q>> \in less <=> p < q
        OBVIOUS
      <3>2. IsWellFoundedOn(less, Nat)
        BY NatLessThanWellFounded DEF OpToRel
      <3> HIDE DEF less
      <3>3. PICK p \in mEmptySpots : \A q \in mEmptySpots : ~(<<q, p>> \in less)
        BY <1>1, <3>2, WFMin DEF ViewTypeOK
      <3>4. ASSUME NEW q \in mEmptySpots PROVE p <= q
        <4>1. p \in Nat /\ q \in Nat BY DEF ViewTypeOK
        <4>2. ~(q < p) BY <3>1, <3>3, <4>1
        <4> QED BY <4>1, <4>2
      <3> QED BY <3>4
    <2>2. GetIconPosition \in mEmptySpots
      BY <1>1, <2>1 DEF GetIconPosition
    <2> QED BY <1>1, <2>2 DEF ViewTypeOK, PositionsPartition
  <1>2. CASE mEmptySpots = {}
    <2>1. GetIconPosition = mNextPositionID
      BY <1>2 DEF GetIconPosition
    <2>2. mNextPositionID \notin 0..(mNextPositionID - 1)
      BY DEF ViewTypeOK
    <2> QED BY <1>2, <2>1, <2>2 DEF ViewTypeOK, PositionsPartition
  <1> QED BY <1>1, <1>2

LEMMA ItemLoadedView ==
  ASSUME ViewTypeOK, PositionsPartition, NEW id \in Ids, NEW f \in Items, ItemLoaded(id, f)
  PROVE  ViewTypeOK' /\ PositionsPartition'
  <1> DEFINE p == GetIconPosition
             new == [request |-> id, made |-> f, item |-> f, pos |-> p, icon |-> TRUE]
  <1>1. /\ p \in Nat
        /\ p \notin {t.pos : t \in mTiles}
        /\ mEmptySpots # {} => p \in mEmptySpots
        /\ mEmptySpots = {} => p = mNextPositionID
    BY FreshPosition
  <1>2. /\ mTiles' = mTiles \cup {new}
        /\ mEmptySpots' = mEmptySpots \ {p}
        /\ mNextPositionID' = IF mEmptySpots # {} THEN mNextPositionID ELSE mNextPositionID + 1
    BY DEF ItemLoaded, TakeIconPosition
  <1>3. new \in Tile /\ new.pos = p
    BY <1>1 DEF Tile
  <1> HIDE DEF p, new
  <1>4. ViewTypeOK'
    <2>1. mNextPositionID' \in Nat
      BY <1>2 DEF ViewTypeOK
    <2> QED BY <1>2, <1>3, <2>1 DEF ViewTypeOK
  <1>5. {t.pos : t \in mTiles'} = {t.pos : t \in mTiles} \cup {p}
    BY <1>2, <1>3
  <1>6. \A t, u \in mTiles' : t.pos = u.pos => t = u
    BY <1>1, <1>2, <1>3 DEF PositionsPartition
  <1>7. {t.pos : t \in mTiles'} \cap mEmptySpots' = {}
    BY <1>1, <1>2, <1>5 DEF PositionsPartition
  <1>8. {t.pos : t \in mTiles'} \cup mEmptySpots' = 0..(mNextPositionID' - 1)
    <2>1. CASE mEmptySpots # {}
      BY <1>1, <1>2, <1>5, <2>1 DEF PositionsPartition
    <2>2. CASE mEmptySpots = {}
      <3>1. 0..mNextPositionID = 0..(mNextPositionID - 1) \cup {mNextPositionID}
        BY DEF ViewTypeOK
      <3>2. mNextPositionID' - 1 = mNextPositionID
        BY <1>2, <2>2 DEF ViewTypeOK
      <3> QED BY <1>1, <1>2, <1>5, <2>2, <3>1, <3>2 DEF PositionsPartition
    <2> QED BY <2>1, <2>2
  <1> QED BY <1>4, <1>6, <1>7, <1>8 DEF PositionsPartition

LEMMA RemoveIconView ==
  ASSUME ViewTypeOK, PositionsPartition, NEW f \in Items, RemoveIcon(f)
  PROVE  ViewTypeOK' /\ PositionsPartition'
  <1>1. /\ TilesOf(f) \subseteq mTiles
        /\ mTiles' = mTiles \ TilesOf(f)
        /\ mEmptySpots' = mEmptySpots \cup {t.pos : t \in TilesOf(f)}
        /\ mNextPositionID' = mNextPositionID
    BY DEF RemoveIcon, TilesOf
  <1>2. ViewTypeOK'
    BY <1>1 DEF ViewTypeOK, Tile
  <1>3. {t.pos : t \in mTiles'} \cap {t.pos : t \in TilesOf(f)} = {}
    BY <1>1 DEF PositionsPartition
  <1>4. {t.pos : t \in mTiles'} \cup {t.pos : t \in TilesOf(f)} = {t.pos : t \in mTiles}
    BY <1>1
  <1> QED BY <1>1, <1>2, <1>3, <1>4 DEF PositionsPartition

\* A tile that is replaced by one at the same position.
LEMMA ReplaceTile ==
  ASSUME ViewTypeOK, PositionsPartition, NEW t \in mTiles, NEW r \in Tile, r.pos = t.pos,
         mTiles' = (mTiles \ {t}) \cup {r}, UNCHANGED <<mEmptySpots, mNextPositionID>>
  PROVE  ViewTypeOK' /\ PositionsPartition'
  <1>1. ViewTypeOK'
    BY DEF ViewTypeOK
  <1>2. {x.pos : x \in mTiles'} = {x.pos : x \in mTiles}
    OBVIOUS
  <1>3. \A x, y \in mTiles' : x.pos = y.pos => x = y
    BY DEF PositionsPartition
  <1> QED BY <1>1, <1>2, <1>3 DEF PositionsPartition

LEMMA RenameIconView ==
  ASSUME ViewTypeOK, PositionsPartition, NEW f \in Items, NEW g \in Items, RenameIcon(f, g)
  PROVE  ViewTypeOK' /\ PositionsPartition'
  <1>1. CASE TilesOf(f) = {}
    BY <1>1 DEF RenameIcon, ViewTypeOK, PositionsPartition
  <1>2. CASE TilesOf(f) # {}
    <2>1. PICK t \in TilesOf(f) : mTiles' = (mTiles \ {t}) \cup {[t EXCEPT !.item = g]}
      BY <1>2 DEF RenameIcon
    <2>2. t \in mTiles /\ t \in Tile
      BY DEF TilesOf, ViewTypeOK
    <2>3. [t EXCEPT !.item = g] \in Tile /\ [t EXCEPT !.item = g].pos = t.pos
      BY <2>2 DEF Tile
    <2> QED BY <2>1, <2>2, <2>3, ReplaceTile DEF RenameIcon
  <1> QED BY <1>1, <1>2

LEMMA UpdateIconView ==
  ASSUME ViewTypeOK, PositionsPartition, NEW f \in Items, UpdateIcon(f)
  PROVE  ViewTypeOK' /\ PositionsPartition'
  <1>1. CASE TilesOf(f) = {}
    BY <1>1 DEF UpdateIcon, ViewTypeOK, PositionsPartition
  <1>2. CASE TilesOf(f) # {}
    <2>1. PICK t \in TilesOf(f) : mTiles' = (mTiles \ {t}) \cup {[t EXCEPT !.icon = FALSE]}
      BY <1>2 DEF UpdateIcon
    <2>2. t \in mTiles /\ t \in Tile
      BY DEF TilesOf, ViewTypeOK
    <2>3. [t EXCEPT !.icon = FALSE] \in Tile /\ [t EXCEPT !.icon = FALSE].pos = t.pos
      BY <2>2 DEF Tile
    <2> QED BY <2>1, <2>2, <2>3, ReplaceTile DEF UpdateIcon
  <1> QED BY <1>1, <1>2

LEMMA UpdateAllIconsView ==
  ASSUME ViewTypeOK, PositionsPartition, UpdateAllIcons
  PROVE  ViewTypeOK' /\ PositionsPartition'
  <1>1. /\ mTiles' = {[t EXCEPT !.icon = FALSE] : t \in mTiles}
        /\ UNCHANGED <<mEmptySpots, mNextPositionID>>
    BY DEF UpdateAllIcons
  <1>2. \A t \in mTiles : /\ [t EXCEPT !.icon = FALSE] \in Tile
                          /\ [t EXCEPT !.icon = FALSE].pos = t.pos
    BY DEF ViewTypeOK, Tile
  <1>3. ViewTypeOK'
    BY <1>1, <1>2 DEF ViewTypeOK
  <1>4. {t.pos : t \in mTiles'} = {t.pos : t \in mTiles}
    BY <1>1, <1>2
  <1>5. ASSUME NEW t \in mTiles', NEW u \in mTiles', t.pos = u.pos
        PROVE  t = u
    <2>1. PICK t0 \in mTiles : t = [t0 EXCEPT !.icon = FALSE]
      BY <1>1
    <2>2. PICK u0 \in mTiles : u = [u0 EXCEPT !.icon = FALSE]
      BY <1>1
    <2>3. t0 = u0
      BY <1>2, <1>5, <2>1, <2>2 DEF PositionsPartition
    <2> QED BY <2>1, <2>2, <2>3
  <1> QED BY <1>1, <1>3, <1>4, <1>5 DEF PositionsPartition

----------------------------------------------------------------------------
(* Every action keeps the invariant.                                        *)

\* The view's part of the invariant and the rest of it.
RestOK ==
  /\ folderIsDesktop \in BOOLEAN
  /\ folder \subseteq Items
  /\ changes \in 0..MaxChanges
  /\ notes \in Seq(Note)
  /\ group \in 0..MaxGroups
  /\ ui \in {"start", "registering", "idle", "delivering", "quit", "crashed"}
  /\ loaded \subseteq Items
  /\ registered \in BOOLEAN
  /\ due \subseteq folder /\ tainted \subseteq Items
  /\ stray \subseteq Ids
  /\ ui # "start" => group # 0

LEMMA InvParts == GroupInv <=> LoaderInv /\ ViewTypeOK /\ PositionsPartition /\ RestOK
  BY DEF GroupInv, TypeOK, ViewTypeOK, RestOK, LoaderInv

LEMMA InvPartsNext ==
  GroupInv' <=> LoaderInv' /\ ViewTypeOK' /\ PositionsPartition' /\ RestOK'
  BY DEF GroupInv, TypeOK, ViewTypeOK, RestOK, LoaderInv

LEMMA LoaderUnchanged ==
  ASSUME LoaderInv, UNCHANGED loaderVars
  PROVE  LoaderInv'
  BY StepInv

LEMMA ViewUnchanged ==
  ASSUME ViewTypeOK, PositionsPartition, UNCHANGED viewVars
  PROVE  ViewTypeOK' /\ PositionsPartition'
  BY DEF viewVars, ViewTypeOK, PositionsPartition

LEMMA EmptyView ==
  ASSUME mTiles' = {}, mEmptySpots' = {}, mNextPositionID' = 0
  PROVE  ViewTypeOK' /\ PositionsPartition'
  <1>1. 0..(0 - 1) = {}
    OBVIOUS
  <1> QED BY <1>1 DEF ViewTypeOK, PositionsPartition

LEMMA RequestItem ==
  ASSUME LoaderInv, RestOK, group # 0, NEW f \in Items, LoadFolderItem(group, f)
  PROVE  LoaderInv'
  <1>1. group \in Handlers
    BY DEF RestOK
  <1> QED BY <1>1, IssueInv DEF LoadFolderItem, ThreadState

LEMMA ShellKeepsInv ==
  ASSUME GroupInv, Shell
  PROVE  GroupInv'
  <1> USE InvParts
  <1>1. ASSUME NEW fs, Change(fs)
        PROVE  LoaderInv' /\ ViewTypeOK' /\ PositionsPartition' /\ changes' \in 0..MaxChanges
    <2>1. changes' \in 0..MaxChanges
      BY <1>1 DEF Change, RestOK
    <2> QED BY <1>1, <2>1, LoaderUnchanged, ViewUnchanged DEF Change
  <1>2. ASSUME NEW event \in {"create", "delete", "rename", "update"},
               NEW f \in Items, NEW g \in Items, Post(event, f, g)
        PROVE  notes' \in Seq(Note)
    <2>1. [event |-> event, item |-> f, to |-> g] \in Note
      BY DEF Note
    <2>2. notes \in Seq(Note)
      BY DEF RestOK
    <2>3. Append(notes, [event |-> event, item |-> f, to |-> g]) \in Seq(Note)
      BY <2>1, <2>2
    <2> QED BY <1>2, <2>2, <2>3 DEF Post
  <1>3. ASSUME NEW fs \in SUBSET Items
        PROVE  Raced(fs) \subseteq Items
    BY DEF Raced
  <1>4. ASSUME NEW f \in Items, CreateItem(f) PROVE GroupInv'
    <2>1. RestOK'
      BY <1>1, <1>2, <1>3, <1>4 DEF CreateItem, Change, uiVars, RestOK
    <2> QED BY <1>1, <1>4, <2>1, InvPartsNext DEF CreateItem
  <1>5. ASSUME NEW f \in Items, DeleteItem(f) PROVE GroupInv'
    <2>1. RestOK'
      BY <1>1, <1>2, <1>3, <1>5 DEF DeleteItem, Change, uiVars, RestOK
    <2> QED BY <1>1, <1>5, <2>1, InvPartsNext DEF DeleteItem
  <1>6. ASSUME NEW f \in Items, UpdateItem(f) PROVE GroupInv'
    <2>1. RestOK'
      BY <1>1, <1>2, <1>6 DEF UpdateItem, Change, uiVars, RestOK
    <2> QED BY <1>1, <1>6, <2>1, InvPartsNext DEF UpdateItem
  <1>7. ASSUME NEW f \in Items, NEW g \in Items, RenameItem(f, g) PROVE GroupInv'
    <2>1. RestOK'
      BY <1>1, <1>2, <1>3, <1>7 DEF RenameItem, Change, uiVars, RestOK
    <2> QED BY <1>1, <1>7, <2>1, InvPartsNext DEF RenameItem
  <1> QED BY <1>4, <1>5, <1>6, <1>7 DEF Shell

\* The handlers that touch neither the tiles nor the loader, or empty the view.
LEMMA LifeCycleKeepsInv ==
  ASSUME GroupInv
  PROVE  /\ NewGroup /\ ui \in {"start", "idle"} => GroupInv'
         /\ Unload => GroupInv'
         /\ RegisterForChanges => GroupInv'
         /\ TopParentLost => GroupInv'
         /\ NewTopParent => GroupInv'
         /\ UpdateAllIcons => GroupInv'
  <1> USE InvParts, InvPartsNext
  <1>0. <<>> \in Seq(Note)
    OBVIOUS
  <1>1. ASSUME NewGroup, ui \in {"start", "idle"} PROVE GroupInv'
    <2>1. group + 1 \in Handlers /\ Hidden \subseteq Items
      BY <1>1 DEF NewGroup, RestOK
    <2>2. LoaderInv'
      BY <1>1, <2>1, IssueInv DEF NewGroup, LoadFolder, ThreadState
    <2>3. group' \in 0..MaxGroups /\ group' # 0
      BY <1>1 DEF NewGroup, RestOK
    <2>4. notes' \in Seq(Note)
      BY <1>0, <1>1 DEF NewGroup
    <2>5. RestOK'
      BY <1>1, <2>3, <2>4 DEF NewGroup, RestOK
    <2> QED BY <1>1, <2>2, <2>5, EmptyView DEF NewGroup
  <1>2. ASSUME Unload PROVE GroupInv'
    <2>1. RestOK'
      BY <1>0, <1>2 DEF Unload, RestOK, shellVars
    <2> QED BY <1>2, <2>1, EmptyView, LoaderUnchanged DEF Unload
  <1>3. ASSUME RegisterForChanges PROVE GroupInv'
    <2>1. RestOK'
      BY <1>3 DEF RegisterForChanges, RestOK, shellVars
    <2> QED BY <1>3, <2>1, ViewUnchanged, LoaderUnchanged DEF RegisterForChanges
  <1>4. ASSUME TopParentLost PROVE GroupInv'
    <2>1. RestOK'
      BY <1>0, <1>4 DEF TopParentLost, RestOK
    <2> QED BY <1>4, <2>1, ViewUnchanged, LoaderUnchanged DEF TopParentLost
  <1>5. ASSUME NewTopParent PROVE GroupInv'
    <2>1. RestOK'
      BY <1>5 DEF NewTopParent, RestOK, shellVars
    <2> QED BY <1>5, <2>1, ViewUnchanged, LoaderUnchanged DEF NewTopParent
  <1>6. ASSUME UpdateAllIcons PROVE GroupInv'
    <2>1. RestOK'
      BY <1>6 DEF UpdateAllIcons, RestOK, shellVars, uiVars
    <2> QED BY <1>6, <2>1, UpdateAllIconsView, LoaderUnchanged DEF UpdateAllIcons
  <1> QED BY <1>1, <1>2, <1>3, <1>4, <1>5, <1>6

LEMMA NotifyKeepsInv ==
  ASSUME GroupInv, HandleChangeNotify
  PROVE  GroupInv'
  <1> USE InvParts, InvPartsNext
  <1>1. /\ notes \in Seq(Note)
        /\ notes # <<>>
    BY DEF HandleChangeNotify, RestOK
  <1>2. /\ Head(notes) \in Note
        /\ Tail(notes) \in Seq(Note)
    BY <1>1
  <1>3. RestOK'
    <2>1. due' \subseteq folder
      BY DEF HandleChangeNotify, Admit, RestOK
    <2> QED
      BY <1>2, <2>1 DEF HandleChangeNotify, RestOK, uiVars
  <1> DEFINE n == Head(notes)
  <1>4. n.item \in Items /\ n.to \in Items
    BY <1>2 DEF Note
  <1>5. ASSUME AddIcon(n.item) PROVE LoaderInv' /\ ViewTypeOK' /\ PositionsPartition'
    <2>1. LoaderInv'
      <3>1. CASE UNCHANGED loaderVars
        BY <3>1, LoaderUnchanged
      <3>2. CASE LoadFolderItem(group, n.item)
        BY <1>4, <3>2, RequestItem DEF HandleChangeNotify, RestOK
      <3> QED BY <1>5, <3>1, <3>2 DEF AddIcon
    <2> QED BY <1>5, <2>1, ViewUnchanged DEF AddIcon
  <1>6. ASSUME RemoveIcon(n.item) PROVE LoaderInv' /\ ViewTypeOK' /\ PositionsPartition'
    BY <1>4, <1>6, RemoveIconView, LoaderUnchanged DEF RemoveIcon
  <1>7. ASSUME RenameIcon(n.item, n.to) PROVE LoaderInv' /\ ViewTypeOK' /\ PositionsPartition'
    BY <1>4, <1>7, RenameIconView, LoaderUnchanged DEF RenameIcon
  <1>8. ASSUME UpdateIcon(n.item) PROVE LoaderInv' /\ ViewTypeOK' /\ PositionsPartition'
    BY <1>4, <1>8, UpdateIconView, LoaderUnchanged DEF UpdateIcon
  <1> QED BY <1>3, <1>5, <1>6, <1>7, <1>8 DEF HandleChangeNotify

\* The answers, to the living group and to destroyed ones.
LEMMA AnswersKeepInv ==
  ASSUME GroupInv, NEW id \in Ids
  PROVE  /\ LoadItemCompleted(id) => GroupInv'
         /\ LoadCompleted(id) => GroupInv'
         /\ FolderLoaded(id) => GroupInv'
         /\ FolderLoadedReturns(id) => GroupInv'
         /\ AnswerDestroyed(id) => GroupInv'
  <1> USE InvParts, InvPartsNext
  <1>0. thread[id].items \subseteq Items
    BY DEF LoaderInv, LoaderTypeOK, ThreadState
  <1>1. ASSUME LoadItemCompleted(id) PROVE GroupInv'
    <2>1. PICK f \in thread[id].items : ItemLoaded(id, f)
      BY <1>1 DEF LoadItemCompleted
    <2>2. RestOK'
      BY <1>1 DEF LoadItemCompleted, RestOK, shellVars, uiVars
    <2> QED BY <1>0, <1>1, <2>1, <2>2, ItemLoadedView, AnswerInv DEF LoadItemCompleted
  <1>2. ASSUME LoadCompleted(id) PROVE GroupInv'
    <2>1. RestOK'
      BY <1>0, <1>2 DEF LoadCompleted, RestOK, shellVars
    <2> QED BY <1>2, <2>1, ViewUnchanged, LoaderUnchanged DEF LoadCompleted
  <1>3. ASSUME FolderLoaded(id) PROVE GroupInv'
    <2>1. PICK f \in loaded : ItemLoaded(id, f) /\ loaded' = loaded \ {f}
      BY <1>3 DEF FolderLoaded
    <2>2. RestOK' /\ f \in Items
      BY <1>3, <2>1 DEF FolderLoaded, RestOK, shellVars
    <2> QED BY <1>3, <2>1, <2>2, ItemLoadedView, LoaderUnchanged DEF FolderLoaded
  <1>4. ASSUME FolderLoadedReturns(id) PROVE GroupInv'
    <2>1. RestOK'
      BY <1>4 DEF FolderLoadedReturns, Delivering, RestOK, shellVars
    <2> QED BY <1>4, <2>1, ViewUnchanged, AnswerInv DEF FolderLoadedReturns
  <1>5. ASSUME AnswerDestroyed(id) PROVE GroupInv'
    <2>1. RestOK'
      BY <1>5 DEF AnswerDestroyed, RestOK, shellVars
    <2> QED BY <1>5, <2>1, ViewUnchanged, AnswerInv DEF AnswerDestroyed
  <1> QED BY <1>1, <1>2, <1>3, <1>4, <1>5

LEMMA WorkersKeepInv ==
  ASSUME GroupInv
  PROVE  /\ Workers => GroupInv'
         /\ \A id \in Ids : EnumerationFails(id) => GroupInv'
  <1> USE InvParts, InvPartsNext
  <1>1. ASSUME Workers PROVE GroupInv'
    <2>1. LoaderInv'
      BY <1>1, WorkerInv, EnumInv DEF Workers, RestOK
    <2>2. RestOK'
      BY <1>1 DEF Workers, RestOK, shellVars, uiVars
    <2> QED BY <1>1, <2>1, <2>2, ViewUnchanged DEF Workers
  <1>2. ASSUME NEW id \in Ids, EnumerationFails(id) PROVE GroupInv'
    <2>1. LoaderInv'
      BY <1>2, EnumInv DEF EnumerationFails
    <2>2. RestOK'
      BY <1>2 DEF EnumerationFails, RestOK, uiVars
    <2> QED BY <1>2, <2>1, <2>2, ViewUnchanged DEF EnumerationFails
  <1> QED BY <1>1, <1>2

LEMMA GroupStep == GroupInv /\ [Next]_vars => GroupInv'
  <1> SUFFICES ASSUME GroupInv, [Next]_vars
               PROVE  GroupInv'
    OBVIOUS
  <1>1. CASE UI
    BY <1>1, LifeCycleKeepsInv, NotifyKeepsInv, AnswersKeepInv DEF UI, CreateGroup, Refresh
  <1>2. CASE Workers \/ \E id \in Ids : EnumerationFails(id)
    BY <1>2, WorkersKeepInv
  <1>3. CASE Shell
    BY <1>3, ShellKeepsInv
  <1>4. CASE UNCHANGED vars
    <2>1. RestOK'
      BY <1>4, InvParts DEF vars, RestOK, shellVars, uiVars
    <2> QED BY <1>4, <2>1, InvParts, InvPartsNext, LoaderUnchanged, ViewUnchanged DEF vars
  <1> QED BY <1>1, <1>2, <1>3, <1>4 DEF Next

LEMMA GroupStart == GroupInit => GroupInv
  <1> SUFFICES ASSUME GroupInit PROVE GroupInv
    OBVIOUS
  <1>1. LoaderInv
    BY InitInv DEF GroupInit
  <1>2. RestOK
    <2>1. notes \in Seq(Note)
      BY DEF GroupInit
    <2>2. changes \in 0..MaxChanges /\ group \in 0..MaxGroups
      BY DEF GroupInit
    <2>3. registered \in BOOLEAN
      BY DEF GroupInit
    <2>4. /\ folder \subseteq Items /\ loaded \subseteq Items /\ tainted \subseteq Items
          /\ due \subseteq folder /\ stray \subseteq Ids
      BY DEF GroupInit
    <2> QED BY <2>1, <2>2, <2>3, <2>4 DEF GroupInit, RestOK
  <1>3. 0..(0 - 1) = {}
    OBVIOUS
  <1>4. ViewTypeOK /\ PositionsPartition
    BY <1>3 DEF GroupInit, ViewTypeOK, PositionsPartition
  <1> QED BY <1>1, <1>2, <1>4, InvParts

----------------------------------------------------------------------------
(* Theorems.                                                                *)

\* Type correctness of the icon group and of the loader under it.
THEOREM GroupTypeCorrect == Spec => []TypeOK
  <1>1. GroupInv => TypeOK
    BY DEF GroupInv
  <1> QED BY <1>1, GroupStart, GroupStep, PTL DEF Spec

\* The positions of the tiles and the empty spots partition the positions handed out
\* so far, whatever the order of loads, changes and refreshes.
THEOREM PositionsAreSafe == Spec => []PositionsPartition
  <1>1. GroupInv => PositionsPartition
    BY DEF GroupInv
  <1> QED BY <1>1, GroupStart, GroupStep, PTL DEF Spec

----------------------------------------------------------------------------
(* The view: what the tiles of an item are, and what is on its way to them. *)

None(f) == TilesOf(f) = {}
One(f) == \E t \in mTiles : TilesOf(f) = {t}

Visible(f) == f \in due
Right(f) == IF Visible(f) THEN One(f) ELSE None(f)

Live == ui \in {"registering", "idle", "delivering"}

\* The requests of the living group whose responses are still to come.
Loads(id) == InFlight(id) /\ thread[id].kind = "folder"
Brings(id, f) == InFlight(id) /\ thread[id].kind # "folder" /\ f \in thread[id].items

Loading == \E id \in Ids : Loads(id)
Quiet(f) == \A id \in Ids : ~Brings(id, f)

\* Notifications that mention f, those that tell of its coming or going, and
\* whether i is the first to mention it.
Mentions(i, f) == f \in {notes[i].item, notes[i].to}
News(i, f) == Mentions(i, f) /\ notes[i].event # "update"
First(i, f) == \A j \in DOMAIN notes : j < i => ~Mentions(j, f)

Shape(id) ==
  IF thread[id].kind = "folder"
    THEN thread[id].skip = Hidden /\ (thread[id].pc = "started" => thread[id].items = {})
    ELSE /\ thread[id].pc # "started" /\ thread[id].todo = {}
         /\ \E f \in Items : thread[id].items = {f}

\* A group asks for its folder once, and for an item at a time.
RequestsInv ==
  /\ \A id \in Ids : sOutstandingRequests[id] # NoHandler => sOutstandingRequests[id] \in 1..group
  /\ group # 0 => /\ \A id \in Ids : InFlight(id) => Shape(id)
                  /\ \A id, other \in Ids : Loads(id) /\ Loads(other) => id = other
  /\ ui = "delivering" => \E id \in Ids : Delivering(id) /\ loaded \subseteq thread[id].items

\* The enumeration has brought f to the response, or will.
Listed(id, f) ==
  f \in thread[id].items \/ (f \in thread[id].todo /\ f \notin Hidden \cup Unreadable)

\* The folder's response brings f if it is due, and so it will if it is still to be
\* enumerated.
Response(f) ==
  \A id \in Ids : Loads(id) =>
    IF thread[id].pc = "started" THEN f \in folder \ (Hidden \cup Unreadable) <=> Visible(f)
                                 ELSE Listed(id, f) <=> Visible(f)

\* Until the folder has been loaded nothing else tells of f, and it has no tile
\* before its turn in the response.
WhileLoading(f) ==
  /\ \A i \in DOMAIN notes : ~News(i, f)
  /\ Quiet(f)
  /\ Response(f)
  /\ IF ui = "delivering" /\ f \notin loaded THEN Right(f) ELSE None(f)

\* What the news about f are, and that the tiles are not there yet, or still.
Foretold(i, f) ==
  LET n == notes[i]
  IN  \/ /\ n.event = "create" /\ n.item = f /\ f \in folder /\ None(f)
         /\ f \in due <=> f \notin Unreadable /\ ~(folderIsDesktop /\ f \in Hidden)
      \/ n.event = "delete" /\ n.item = f /\ f \notin folder
      \/ n.event = "rename" /\ n.item = f /\ n.to # f /\ f \notin folder /\ (None(f) \/ One(f))
      \/ /\ n.event = "rename" /\ n.to = f /\ n.item # f /\ f \in folder /\ None(f)
         /\ IF f \in due THEN One(n.item) ELSE None(n.item)
         /\ First(i, n.item) /\ Quiet(n.item)

\* Afterwards there are news of f, or f was asked for, or what is shown is right.
AfterLoading(f) ==
  /\ \A i \in DOMAIN notes : News(i, f) => First(i, f) /\ Quiet(f) /\ Foretold(i, f)
  /\ (\A i \in DOMAIN notes : ~News(i, f)) =>
       \/ Quiet(f) /\ Right(f)
       \/ /\ Visible(f) /\ None(f)
          /\ \E id \in Ids : Brings(id, f) /\ \A other \in Ids : Brings(other, f) => other = id

ItemInv(f) == IF Loading THEN WhileLoading(f) ELSE AfterLoading(f)

ViewInv == Live => \A f \in Items \ tainted : ItemInv(f)

----------------------------------------------------------------------------
(* What the operations do to the tiles of an item.                          *)

Same(x) == (None(x)' <=> None(x)) /\ (One(x)' <=> One(x))

LEMMA SameTiles ==
  ASSUME NEW x, TilesOf(x)' = TilesOf(x)
  PROVE  Same(x)
<1>1. None(x)' <=> None(x)
  BY DEF None
<1>2. One(x)' <=> One(x)
  <2>1. ASSUME NEW t, TilesOf(x) = {t} PROVE t \in mTiles /\ t \in mTiles'
    BY <2>1 DEF TilesOf
  <2> QED
    BY <2>1 DEF One
<1> QED
  BY <1>1, <1>2 DEF Same

LEMMA OneIs ==
  ASSUME NEW x
  PROVE  /\ \A t : TilesOf(x) = {t} => One(x)
         /\ \A t : TilesOf(x)' = {t} => One(x)'
<1>1. ASSUME NEW t, TilesOf(x) = {t} PROVE One(x)
  <2>1. t \in mTiles
    BY <1>1 DEF TilesOf
  <2> QED
    BY <1>1, <2>1 DEF One
<1>2. ASSUME NEW t, TilesOf(x)' = {t} PROVE One(x)'
  <2>1. t \in mTiles'
    BY <1>2 DEF TilesOf
  <2> QED
    BY <1>2, <2>1 DEF One
<1> QED
  BY <1>1, <1>2

LEMMA TilesStay ==
  ASSUME UNCHANGED mTiles
  PROVE  \A x : Same(x)
<1>1. \A x : TilesOf(x)' = TilesOf(x)
  BY DEF TilesOf
<1> QED
  BY <1>1, SameTiles

LEMMA LoadedTile ==
  ASSUME NEW id \in Ids, NEW e \in Items, ItemLoaded(id, e)
  PROVE  /\ \A x : x # e => Same(x)
         /\ None(e) => One(e)'
<1> DEFINE new == [request |-> id, made |-> e, item |-> e, pos |-> GetIconPosition, icon |-> TRUE]
<1>1. mTiles' = mTiles \cup {new} /\ new.item = e
  BY DEF ItemLoaded
<1> HIDE DEF new
<1>2. \A x : x # e => TilesOf(x)' = TilesOf(x)
  BY <1>1 DEF TilesOf
<1>3. None(e) => TilesOf(e)' = {new}
  BY <1>1 DEF TilesOf, None
<1> QED
  BY <1>2, <1>3, SameTiles, OneIs

LEMMA RemovedTiles ==
  ASSUME NEW e \in Items, RemoveIcon(e)
  PROVE  /\ \A x : x # e => Same(x)
         /\ None(e)'
<1>1. mTiles' = mTiles \ TilesOf(e)
  BY DEF RemoveIcon
<1>2. \A x : x # e => TilesOf(x)' = TilesOf(x)
  BY <1>1 DEF TilesOf
<1>3. TilesOf(e)' = {}
  BY <1>1 DEF TilesOf
<1> QED
  BY <1>2, <1>3, SameTiles DEF None

LEMMA ReplacedTile ==
  ASSUME ViewTypeOK, PositionsPartition, NEW e, NEW g, NEW t \in TilesOf(e), NEW r,
         r.pos = t.pos, r.item = g, mTiles' = (mTiles \ {t}) \cup {r}
  PROVE  /\ \A x : x \notin {e, g} => Same(x)
         /\ e = g => Same(e)
         /\ e # g /\ One(e) => None(e)' /\ (None(g) => One(g)')
<1>1. \A x : x \notin {e, g} => TilesOf(x)' = TilesOf(x)
  BY DEF TilesOf
<1>2. ASSUME e = g PROVE Same(e)
  <2>1. TilesOf(e)' = (TilesOf(e) \ {t}) \cup {r}
    BY <1>2 DEF TilesOf
  <2>2. ~None(e) /\ ~None(e)'
    BY <2>1 DEF None
  <2>3. One(e) => One(e)'
    <3>1. ASSUME NEW u, TilesOf(e) = {u} PROVE TilesOf(e)' = {r}
      BY <2>1, <3>1
    <3> QED
      BY <3>1, OneIs DEF One
  <2>4. One(e)' => One(e)
    <3>1. ASSUME NEW u, TilesOf(e)' = {u} PROVE TilesOf(e) = {t}
      <4>1. \A y \in TilesOf(e) : y = t \/ y = r
        <5>1. r \in {u} /\ \A y \in TilesOf(e) : y # t => y \in {u}
          BY <2>1, <3>1
        <5> QED
          BY <5>1
      <4>2. \A y \in TilesOf(e) : y.pos = t.pos => y = t
        BY DEF TilesOf, PositionsPartition
      <4> QED
        BY <4>1, <4>2
    <3> QED
      BY <3>1, OneIs DEF One
  <2> QED
    BY <2>2, <2>3, <2>4 DEF Same
<1>3. ASSUME e # g, One(e) PROVE None(e)' /\ (None(g) => One(g)')
  <2>1. TilesOf(e) = {t}
    BY <1>3 DEF One
  <2>2. TilesOf(e)' = TilesOf(e) \ {t} /\ TilesOf(g)' = TilesOf(g) \cup {r}
    BY <1>3 DEF TilesOf
  <2>3. TilesOf(e)' = {} /\ (None(g) => TilesOf(g)' = {r})
    BY <2>1, <2>2 DEF None
  <2> QED
    BY <2>3, OneIs DEF None
<1> QED
  BY <1>1, <1>2, <1>3, SameTiles

LEMMA RenamedTile ==
  ASSUME ViewTypeOK, PositionsPartition, NEW e \in Items, NEW g \in Items, RenameIcon(e, g)
  PROVE  /\ \A x : x \notin {e, g} => Same(x)
         /\ e # g /\ None(e) => Same(e) /\ Same(g)
         /\ e # g /\ One(e) => None(e)' /\ (None(g) => One(g)')
<1>1. CASE TilesOf(e) = {}
  <2>1. UNCHANGED mTiles /\ ~One(e)
    BY <1>1 DEF RenameIcon, One
  <2> QED
    BY <2>1, TilesStay
<1>2. CASE TilesOf(e) # {}
  <2>1. PICK t \in TilesOf(e) : mTiles' = (mTiles \ {t}) \cup {[t EXCEPT !.item = g]}
    BY <1>2 DEF RenameIcon
  <2> DEFINE r == [t EXCEPT !.item = g]
  <2>2. r.pos = t.pos /\ r.item = g
    BY DEF TilesOf, ViewTypeOK, Tile
  <2> HIDE DEF r
  <2>3. ~None(e)
    BY <1>2 DEF None
  <2> QED
    BY <2>1, <2>2, <2>3, ReplacedTile DEF r
<1> QED
  BY <1>1, <1>2

LEMMA UpdatedTile ==
  ASSUME ViewTypeOK, PositionsPartition, NEW e \in Items, UpdateIcon(e)
  PROVE  \A x : Same(x)
<1>1. CASE TilesOf(e) = {}
  BY <1>1, TilesStay DEF UpdateIcon
<1>2. CASE TilesOf(e) # {}
  <2>1. PICK t \in TilesOf(e) : mTiles' = (mTiles \ {t}) \cup {[t EXCEPT !.icon = FALSE]}
    BY <1>2 DEF UpdateIcon
  <2> DEFINE r == [t EXCEPT !.icon = FALSE]
  <2>2. r.pos = t.pos /\ r.item = e
    BY DEF TilesOf, ViewTypeOK, Tile
  <2>3. mTiles' = (mTiles \ {t}) \cup {r}
    BY <2>1
  <2> HIDE DEF r
  <2>4. (\A x : x \notin {e, e} => Same(x)) /\ (e = e => Same(e))
    BY <2>2, <2>3, ReplacedTile
  <2> QED
    BY <2>4
<1> QED
  BY <1>1, <1>2

LEMMA AllUpdatedTiles ==
  ASSUME ViewTypeOK, PositionsPartition, UpdateAllIcons
  PROVE  \A x : Same(x)
<1> DEFINE Cleared(t) == [t EXCEPT !.icon = FALSE]
<1>1. mTiles' = {Cleared(t) : t \in mTiles}
  BY DEF UpdateAllIcons
<1>2. \A t \in mTiles : Cleared(t).pos = t.pos /\ Cleared(t).item = t.item
  BY DEF ViewTypeOK, Tile
<1> HIDE DEF Cleared
<1>3. ASSUME NEW t \in mTiles, NEW u \in mTiles, Cleared(t) = Cleared(u)
      PROVE  t = u
  <2>1. t.pos = u.pos
    BY <1>2, <1>3
  <2> QED
    BY <2>1 DEF PositionsPartition
<1>4. ASSUME NEW x PROVE Same(x)
  <2>1. TilesOf(x)' = {Cleared(t) : t \in TilesOf(x)} /\ TilesOf(x) \subseteq mTiles
    BY <1>1, <1>2 DEF TilesOf
  <2>2. None(x)' <=> None(x)
    BY <2>1 DEF None
  <2>3. One(x) => One(x)'
    <3>1. ASSUME NEW u, TilesOf(x) = {u} PROVE TilesOf(x)' = {Cleared(u)}
      BY <2>1, <3>1
    <3> QED
      BY <3>1, OneIs DEF One
  <2>4. One(x)' => One(x)
    <3>1. ASSUME NEW u, TilesOf(x)' = {u} PROVE One(x)
      <4>1. PICK t \in TilesOf(x) : u = Cleared(t)
        BY <2>1, <3>1
      <4>2. \A y \in TilesOf(x) : y = t
        <5>1. \A y \in TilesOf(x) : y \in mTiles /\ Cleared(y) \in {u}
          BY <2>1, <3>1
        <5> QED
          BY <1>3, <4>1, <5>1
      <4>3. TilesOf(x) = {t}
        BY <4>2
      <4> QED
        BY <4>3, OneIs
    <3> QED
      BY <3>1 DEF One
  <2> QED
    BY <2>2, <2>3, <2>4 DEF Same
<1> QED
  BY <1>4
----------------------------------------------------------------------------
(* What the operations do to the requests.                                  *)

SameRequest(id) == /\ Loads(id)' <=> Loads(id)
                   /\ \A x : Brings(id, x)' <=> Brings(id, x)

LEMMA RequestStays ==
  ASSUME NEW id, thread'[id] = thread[id],
         sOutstandingRequests'[id] = sOutstandingRequests[id], UNCHANGED group
  PROVE  /\ SameRequest(id)
         /\ InFlight(id)' <=> InFlight(id)
         /\ Shape(id)' <=> Shape(id)
         /\ \A x : Listed(id, x)' <=> Listed(id, x)
BY DEF SameRequest, Loads, Brings, InFlight, Shape, Listed

LEMMA RequestsStay ==
  ASSUME RequestsInv, UNCHANGED <<loaderVars, group>>,
         ui' = "delivering" => ui = "delivering" /\ loaded' \subseteq loaded
  PROVE  /\ RequestsInv'
         /\ \A id \in Ids : SameRequest(id) /\ \A x : Listed(id, x)' <=> Listed(id, x)
<1>1. UNCHANGED <<thread, sOutstandingRequests, group>>
  BY DEF loaderVars
<1>2. \A id \in Ids : /\ SameRequest(id) /\ \A x : Listed(id, x)' <=> Listed(id, x)
                      /\ InFlight(id)' <=> InFlight(id)
                      /\ Shape(id)' <=> Shape(id)
  BY <1>1, RequestStays
<1>3. ui' = "delivering" => \E id \in Ids : Delivering(id)' /\ loaded' \subseteq thread'[id].items
  BY <1>1 DEF RequestsInv, Delivering
<1>4. \A id \in Ids : sOutstandingRequests'[id] # NoHandler => sOutstandingRequests'[id] \in 1..group'
  BY <1>1 DEF RequestsInv
<1>5. group' # 0 => /\ \A id \in Ids : InFlight(id)' => Shape(id)'
                    /\ \A id, other \in Ids : Loads(id)' /\ Loads(other)' => id = other
  BY <1>1, <1>2 DEF RequestsInv, SameRequest
<1> QED
  BY <1>2, <1>3, <1>4, <1>5 DEF RequestsInv

LEMMA RequestAnswered ==
  ASSUME LoaderInv, RequestsInv, NEW id \in Ids, Answer(id), UNCHANGED group, ui' # "delivering"
  PROVE  /\ RequestsInv'
         /\ \A other \in Ids \ {id} : SameRequest(other) /\ thread'[other] = thread[other]
         /\ ~InFlight(id)'
<1>1. /\ \A other \in Ids \ {id} : thread'[other] = thread[other]
      /\ thread'[id].pc = "leaving"
      /\ sOutstandingRequests' = sOutstandingRequests
  BY MoveOn DEF Answer, LoaderInv
<1>2. \A other \in Ids \ {id} : /\ SameRequest(other)
                                /\ InFlight(other)' <=> InFlight(other)
                                /\ Shape(other)' <=> Shape(other)
  BY <1>1, RequestStays
<1>3. ~InFlight(id)'
  BY <1>1 DEF InFlight
<1>4. ~Loads(id)'
  BY <1>3 DEF Loads
<1>5. \A any \in Ids : sOutstandingRequests'[any] # NoHandler => sOutstandingRequests'[any] \in 1..group'
  BY <1>1 DEF RequestsInv
<1>6. group' # 0 => /\ \A any \in Ids : InFlight(any)' => Shape(any)'
                    /\ \A any, other \in Ids : Loads(any)' /\ Loads(other)' => any = other
  BY <1>2, <1>3, <1>4 DEF RequestsInv, SameRequest
<1> QED
  BY <1>1, <1>2, <1>3, <1>5, <1>6 DEF RequestsInv

\* The request that is issued has no past.
LEMMA Issued ==
  ASSUME LoaderInv, NEW handler \in Handlers, NEW worker \in ThreadState, Issue(handler, worker)
  PROVE  \E n \in Ids : /\ ~InFlight(n)
                        /\ thread'[n] = worker /\ sOutstandingRequests'[n] = handler
                        /\ \A other \in Ids \ {n} :
                             /\ thread'[other] = thread[other]
                             /\ sOutstandingRequests'[other] = sOutstandingRequests[other]
<1> DEFINE n == sNextRequestId + 1
<1>1. n \in Ids /\ n > sNextRequestId
  BY DEF Issue, LoaderInv, LoaderTypeOK, Ids
<1>2. /\ thread' = [thread EXCEPT ![n] = worker]
      /\ sOutstandingRequests' = [sOutstandingRequests EXCEPT ![n] = handler]
      /\ DOMAIN thread = Ids /\ DOMAIN sOutstandingRequests = Ids
  BY DEF Issue, LoaderInv, LoaderTypeOK
<1> HIDE DEF n
<1>3. ~InFlight(n)
  BY <1>1 DEF LoaderInv, RequestInv, InFlight
<1>4. /\ thread'[n] = worker /\ sOutstandingRequests'[n] = handler
      /\ \A other \in Ids \ {n} : /\ thread'[other] = thread[other]
                                  /\ sOutstandingRequests'[other] = sOutstandingRequests[other]
  BY <1>1, <1>2
<1> QED
  BY <1>1, <1>3, <1>4

LEMMA ItemRequested ==
  ASSUME LoaderInv, RequestsInv, group \in Handlers, NEW e \in Items, LoadFolderItem(group, e),
         UNCHANGED group, ui' # "delivering"
  PROVE  /\ RequestsInv'
         /\ \E n \in Ids : /\ ~InFlight(n) /\ ~Loads(n)'
                           /\ \A x : Brings(n, x)' <=> x = e
                           /\ \A other \in Ids \ {n} :
                                SameRequest(other) /\ thread'[other] = thread[other]
<1> DEFINE worker == [pc |-> "loading", kind |-> "item", skip |-> {}, todo |-> {}, items |-> {e}]
<1>1. worker \in ThreadState /\ Issue(group, worker)
  BY DEF ThreadState, LoadFolderItem
<1>2. /\ worker.pc = "loading" /\ worker.kind = "item" /\ worker.todo = {} /\ worker.items = {e}
  OBVIOUS
<1> HIDE DEF worker
<1>3. PICK n \in Ids : /\ ~InFlight(n)
                       /\ thread'[n] = worker /\ sOutstandingRequests'[n] = group
                       /\ \A other \in Ids \ {n} :
                            /\ thread'[other] = thread[other]
                            /\ sOutstandingRequests'[other] = sOutstandingRequests[other]
  BY <1>1, Issued
<1>4. ~Loads(n)' /\ (\A x : Brings(n, x)' <=> x = e) /\ Shape(n)'
  BY <1>2, <1>3 DEF Loads, Brings, InFlight, Shape
<1>5. \A other \in Ids \ {n} : /\ SameRequest(other)
                               /\ InFlight(other)' <=> InFlight(other)
                               /\ Shape(other)' <=> Shape(other)
  BY <1>3, RequestStays
<1>6. group # 0 /\ group \in 1..group
  OBVIOUS
<1>7. \A any \in Ids : sOutstandingRequests'[any] # NoHandler => sOutstandingRequests'[any] \in 1..group'
  BY <1>3, <1>6 DEF RequestsInv
<1>8. /\ \A any \in Ids : InFlight(any)' => Shape(any)'
      /\ \A any, other \in Ids : Loads(any)' /\ Loads(other)' => any = other
  BY <1>4, <1>5, <1>6 DEF RequestsInv, SameRequest
<1> QED
  BY <1>3, <1>4, <1>5, <1>7, <1>8 DEF RequestsInv

\* A new group has no request under way but that for its folder.
LEMMA FolderRequested ==
  ASSUME LoaderInv, RequestsInv, group \in 0..MaxGroups, group < MaxGroups,
         LoadFolder(group + 1, Hidden), group' = group + 1, ui' # "delivering"
  PROVE  /\ RequestsInv'
         /\ \E n \in Ids : /\ Loads(n)' /\ thread'[n].pc = "started"
                           /\ \A id \in Ids \ {n} : ~InFlight(id)'
                           /\ \A id \in Ids, x \in Items : ~Brings(id, x)'
<1> DEFINE worker == [pc |-> "started", kind |-> "folder", skip |-> Hidden, todo |-> {}, items |-> {}]
<1>1. worker \in ThreadState /\ Issue(group + 1, worker) /\ group + 1 \in Handlers
  BY DEF ThreadState, LoadFolder
<1>2. worker.pc = "started" /\ worker.kind = "folder" /\ worker.skip = Hidden /\ worker.items = {}
  OBVIOUS
<1> HIDE DEF worker
<1>3. PICK n \in Ids : /\ thread'[n] = worker /\ sOutstandingRequests'[n] = group + 1
                       /\ \A other \in Ids \ {n} :
                            /\ thread'[other] = thread[other]
                            /\ sOutstandingRequests'[other] = sOutstandingRequests[other]
  BY <1>1, Issued
<1>4. group + 1 \notin 1..group /\ group + 1 # NoHandler /\ \A k \in 1..group : k \in 1..(group + 1)
  BY <1>1
<1>5. \A id \in Ids \ {n} : ~InFlight(id)'
  BY <1>3, <1>4 DEF InFlight, RequestsInv
<1>6. InFlight(n)' /\ Loads(n)' /\ (\A x : ~Brings(n, x)') /\ Shape(n)'
  BY <1>2, <1>3 DEF Loads, Brings, InFlight, Shape
<1>7. \A id \in Ids : sOutstandingRequests'[id] # NoHandler => sOutstandingRequests'[id] \in 1..group'
  <2>1. group + 1 \in 1..(group + 1)
    BY <1>1
  <2> QED
    BY <1>3, <1>4, <2>1 DEF RequestsInv
<1>8. /\ \A id \in Ids : InFlight(id)' => Shape(id)'
      /\ \A id, other \in Ids : Loads(id)' /\ Loads(other)' => id = other
  BY <1>5, <1>6 DEF Loads
<1>9. \A id \in Ids, x \in Items : ~Brings(id, x)'
  BY <1>5, <1>6 DEF Brings
<1>10. thread'[n].pc = "started"
  BY <1>2, <1>3
<1> QED
  BY <1>5, <1>6, <1>7, <1>8, <1>9, <1>10 DEF RequestsInv

\* A worker of the living group that moves on still brings what it will have brought.
LEMMA WorkerMoves ==
  ASSUME LoaderInv, RequestsInv, group \in Handlers, UNCHANGED group, NEW listing \in SUBSET Items,
         NEW id \in Ids, WorkerStep(id) \/ EnumObjects(id, listing)
  PROVE  /\ SameRequest(id)
         /\ InFlight(id)' => InFlight(id) /\ Shape(id)'
         /\ \A f \in Items :
              Loads(id) => IF thread[id].pc = "started" THEN Listed(id, f)' <=> f \in listing \ (Hidden \cup Unreadable)
                                                        ELSE Listed(id, f)' <=> Listed(id, f)
<1> DEFINE t == thread[id]
           u == thread'[id]
<1>1. t \in ThreadState /\ thread' = [thread EXCEPT ![id] = u] /\ DOMAIN thread = Ids
      /\ sOutstandingRequests' = sOutstandingRequests
  BY DEF LoaderInv, LoaderTypeOK, WorkerStep, WorkerOnly, LoadNextItem, FinishLoading, CheckAbort,
         DeleteAbort, EnumObjects
<1>2. InFlight(id) => /\ Shape(id)
                      /\ abort[id] = "clear"
                      /\ t.pc = "loaded" => t.todo = {}
  BY DEF InFlight, RequestsInv, LoaderInv, RequestInv, Outstanding
<1>3. CASE EnumObjects(id, listing)
  <2>1. u = [t EXCEPT !.pc = "loading", !.todo = listing] /\ t.pc = "started"
    BY <1>1, <1>3 DEF EnumObjects
  <2>2. u.pc = "loading" /\ u.todo = listing /\ u.kind = t.kind /\ u.skip = t.skip /\ u.items = t.items
    BY <1>1, <2>1 DEF ThreadState
  <2>3. InFlight(id) => t.kind = "folder" /\ t.skip = Hidden /\ t.items = {}
    BY <1>2, <2>1 DEF Shape
  <2> QED
    BY <1>1, <2>1, <2>2, <2>3 DEF SameRequest, Loads, Brings, InFlight, Shape, Listed
<1>4. CASE LoadNextItem(id)
  <2>1. PICK item \in t.todo :
          u = [t EXCEPT !.todo = @ \ {item}, !.items = @ \cup ({item} \ (t.skip \cup Unreadable))]
    BY <1>1, <1>4 DEF LoadNextItem
  <2>2. /\ u.pc = t.pc /\ u.kind = t.kind /\ u.skip = t.skip
        /\ u.todo = t.todo \ {item} /\ u.items = t.items \cup ({item} \ (t.skip \cup Unreadable))
        /\ t.pc = "loading"
    BY <1>1, <1>4, <2>1 DEF ThreadState, LoadNextItem
  <2>3. InFlight(id) => t.kind = "folder" /\ t.skip = Hidden
    BY <1>2, <2>1 DEF Shape
  <2> QED
    BY <1>1, <2>1, <2>2, <2>3 DEF SameRequest, Loads, Brings, InFlight, Shape, Listed
<1>5. CASE FinishLoading(id) \/ CheckAbort(id) \/ DeleteAbort(id)
  <2>1. PICK pc \in {"loaded", "sending", "leaving", "done"} : u = [t EXCEPT !.pc = pc]
    BY <1>1, <1>5 DEF FinishLoading, CheckAbort, DeleteAbort
  <2>2. u.pc = pc /\ u.kind = t.kind /\ u.skip = t.skip /\ u.todo = t.todo /\ u.items = t.items
    BY <1>1, <2>1 DEF ThreadState
  <2>3. InFlight(id) => t.pc # "started" /\ pc \in {"loaded", "sending"}
    <3>1. CASE FinishLoading(id)
      BY <1>1, <2>2, <3>1 DEF FinishLoading
    <3>2. CASE CheckAbort(id)
      <4>1. u = [t EXCEPT !.pc = IF abort[id] = "clear" THEN "sending" ELSE "leaving"] /\ t.pc = "loaded"
        BY <1>1, <3>2 DEF CheckAbort
      <4>2. u.pc = IF abort[id] = "clear" THEN "sending" ELSE "leaving"
        BY <1>1, <4>1 DEF ThreadState
      <4> QED
        BY <1>2, <2>2, <4>1, <4>2
    <3>3. CASE DeleteAbort(id)
      BY <3>3 DEF DeleteAbort, InFlight
    <3> QED
      BY <1>5, <3>1, <3>2, <3>3
  <2>4. InFlight(id)' => InFlight(id)
    <3>1. t.pc \in {"loading", "loaded"} \/ (t.pc = "leaving" /\ pc = "done")
      <4>1. DeleteAbort(id) => pc = "done"
        BY <1>1, <2>2 DEF DeleteAbort, ThreadState
      <4> QED
        BY <1>5, <4>1 DEF FinishLoading, CheckAbort, DeleteAbort
    <3> QED
      BY <1>1, <2>2, <3>1 DEF InFlight
  <2> QED
    BY <1>1, <1>2, <2>2, <2>3, <2>4 DEF SameRequest, Loads, Brings, InFlight, Shape, Listed
<1> QED
  BY <1>3, <1>4, <1>5 DEF WorkerStep

LEMMA WorkersWork ==
  ASSUME LoaderInv, RequestsInv, group \in 0..MaxGroups, UNCHANGED <<group, ui, loaded>>,
         ui = "delivering" => group # 0,
         NEW listing \in SUBSET Items, NEW w \in Ids, WorkerStep(w) \/ EnumObjects(w, listing)
  PROVE  /\ RequestsInv'
         /\ group # 0 =>
              /\ \A id \in Ids : SameRequest(id)
              /\ \A id \in Ids, f \in Items : Loads(id) =>
                   \/ thread'[id].pc = "started"
                   \/ thread[id].pc = "started" /\ (Listed(id, f)' <=> f \in listing \ (Hidden \cup Unreadable))
                   \/ thread[id].pc # "started" /\ (Listed(id, f)' <=> Listed(id, f))
<1>1. /\ \A other \in Ids \ {w} : thread'[other] = thread[other]
      /\ sOutstandingRequests' = sOutstandingRequests
      /\ thread[w].pc # "sending"
  BY DEF LoaderInv, LoaderTypeOK, WorkerStep, WorkerOnly, LoadNextItem, FinishLoading, CheckAbort,
         DeleteAbort, EnumObjects
<1>2. \A id \in Ids : sOutstandingRequests'[id] # NoHandler => sOutstandingRequests'[id] \in 1..group'
  BY <1>1 DEF RequestsInv
<1>3. ui' = "delivering" => \E id \in Ids : Delivering(id)' /\ loaded' \subseteq thread'[id].items
  BY <1>1 DEF RequestsInv, Delivering
<1>4. CASE group = 0
  BY <1>2, <1>3, <1>4 DEF RequestsInv
<1>5. CASE group # 0
  <2>1. group \in Handlers
    BY <1>5
  <2>2. \A other \in Ids \ {w} : /\ SameRequest(other)
                                 /\ InFlight(other)' <=> InFlight(other)
                                 /\ Shape(other)' <=> Shape(other)
                                 /\ \A x : Listed(other, x)' <=> Listed(other, x)
    BY <1>1, RequestStays
  <2>3. /\ SameRequest(w)
        /\ InFlight(w)' => InFlight(w) /\ Shape(w)'
        /\ \A f \in Items :
             Loads(w) => IF thread[w].pc = "started" THEN Listed(w, f)' <=> f \in listing \ (Hidden \cup Unreadable)
                                                     ELSE Listed(w, f)' <=> Listed(w, f)
    BY <2>1, WorkerMoves
  <2>4. \A id \in Ids : SameRequest(id) /\ (InFlight(id)' => Shape(id)')
    BY <1>5, <2>2, <2>3 DEF RequestsInv
  <2>5. \A id, other \in Ids : Loads(id)' /\ Loads(other)' => id = other
    BY <1>5, <2>4 DEF RequestsInv, SameRequest
  <2>6. RequestsInv'
    BY <1>2, <1>3, <2>4, <2>5 DEF RequestsInv
  <2>7. ASSUME NEW id \in Ids, NEW f \in Items, Loads(id)
        PROVE  \/ thread'[id].pc = "started"
               \/ thread[id].pc = "started" /\ (Listed(id, f)' <=> f \in listing \ (Hidden \cup Unreadable))
               \/ thread[id].pc # "started" /\ (Listed(id, f)' <=> Listed(id, f))
    <3>1. CASE id = w
      BY <2>3, <2>7, <3>1
    <3>2. CASE id # w
      BY <1>1, <2>2, <3>2
    <3> QED
      BY <3>1, <3>2
  <2> QED
    BY <2>4, <2>6, <2>7
<1> QED
  BY <1>4, <1>5
----------------------------------------------------------------------------
(* What the operations do to the notifications.                             *)

\* The news of f are the old ones, and none has come in front of them.
NewsStay(f) ==
  /\ \A i \in DOMAIN notes' : News(i, f)' =>
       \E j \in DOMAIN notes : /\ News(j, f) /\ notes'[i] = notes[j]
                               /\ \A x : First(j, x) => First(i, x)'
  /\ (\E j \in DOMAIN notes : News(j, f)) => \E i \in DOMAIN notes' : News(i, f)'

LEMMA NotesStay ==
  ASSUME UNCHANGED notes
  PROVE  \A f : NewsStay(f)
BY DEF NewsStay, News, Mentions, First

LEMMA NoteIndices ==
  ASSUME notes \in Seq(Note)
  PROVE  DOMAIN notes = 1..Len(notes) /\ Len(notes) \in Nat
OBVIOUS

LEMMA NotePosted ==
  ASSUME notes \in Seq(Note), NEW n \in Note, notes' = Append(notes, n)
  PROVE  \E k \in Nat : /\ k = Len(notes) + 1
                        /\ DOMAIN notes' = DOMAIN notes \cup {k} /\ notes'[k] = n
                        /\ \A i \in DOMAIN notes : notes'[i] = notes[i] /\ i < k /\ i \in Nat
<1>1. DOMAIN notes' = 1..(Len(notes) + 1) /\ notes'[Len(notes) + 1] = n
      /\ \A i \in 1..Len(notes) : notes'[i] = notes[i]
  OBVIOUS
<1> QED
  BY <1>1, NoteIndices

LEMMA PostedNewsStay ==
  ASSUME notes \in Seq(Note), NEW n \in Note, notes' = Append(notes, n),
         NEW f, n.event = "update" \/ f \notin {n.item, n.to}
  PROVE  NewsStay(f)
<1>1. PICK k \in Nat : /\ DOMAIN notes' = DOMAIN notes \cup {k} /\ notes'[k] = n
                       /\ \A i \in DOMAIN notes : notes'[i] = notes[i] /\ i < k /\ i \in Nat
  BY NotePosted
<1>2. ~News(k, f)'
  BY <1>1 DEF News, Mentions
<1>3. \A i \in DOMAIN notes : /\ i \in DOMAIN notes'
                              /\ News(i, f)' <=> News(i, f)
                              /\ \A x : Mentions(i, x)' <=> Mentions(i, x)
  BY <1>1 DEF News, Mentions
<1>4. \A i \in DOMAIN notes : \A x : First(i, x) => First(i, x)'
  <2>1. \A i \in DOMAIN notes : ~(k < i)
    BY <1>1
  <2> QED
    BY <1>1, <1>3, <2>1 DEF First
<1> QED
  BY <1>1, <1>2, <1>3, <1>4 DEF NewsStay

\* A note on something of which there is none is the first to mention it.
LEMMA PostedIsFirst ==
  ASSUME notes \in Seq(Note), NEW n \in Note, notes' = Append(notes, n)
  PROVE  \E k \in DOMAIN notes' :
           /\ notes'[k] = n
           /\ \A i \in DOMAIN notes' : i # k => i \in DOMAIN notes /\ notes'[i] = notes[i]
           /\ \A x : ~Announced(x) =>
                First(k, x)' /\ \A i \in DOMAIN notes' : Mentions(i, x)' => i = k
<1>1. PICK k \in Nat : /\ DOMAIN notes' = DOMAIN notes \cup {k} /\ notes'[k] = n
                       /\ \A i \in DOMAIN notes : notes'[i] = notes[i] /\ i < k /\ i \in Nat
  BY NotePosted
<1>2. ASSUME NEW x, ~Announced(x)
      PROVE  First(k, x)' /\ \A i \in DOMAIN notes' : Mentions(i, x)' => i = k
  <2>1. \A i \in DOMAIN notes : ~Mentions(i, x)'
    BY <1>1, <1>2 DEF Announced, Mentions
  <2>2. ~(k < k)
    OBVIOUS
  <2> QED
    BY <1>1, <2>1, <2>2 DEF First
<1> QED
  BY <1>1, <1>2

LEMMA NoteHandled ==
  ASSUME notes \in Seq(Note), notes # <<>>, notes' = Tail(notes)
  PROVE  /\ 1 \in DOMAIN notes /\ notes[1] = Head(notes) /\ Head(notes) \in Note
         /\ \A i \in DOMAIN notes : i \in Nat /\ i >= 1
         /\ \A i \in DOMAIN notes' : i + 1 \in DOMAIN notes /\ notes'[i] = notes[i + 1] /\ i \in Nat
         /\ \A i \in DOMAIN notes' : i >= 1
         /\ \A i \in DOMAIN notes : i # 1 => i - 1 \in DOMAIN notes' /\ notes'[i - 1] = notes[i]
<1>1. /\ Len(notes) \in Nat /\ Len(notes) >= 1 /\ DOMAIN notes = 1..Len(notes)
      /\ DOMAIN notes' = 1..(Len(notes) - 1)
      /\ \A i \in 1..(Len(notes) - 1) : notes'[i] = notes[i + 1]
      /\ notes[1] = Head(notes) /\ Head(notes) \in Note
  OBVIOUS
<1> QED
  BY <1>1

LEMMA HandledNewsStay ==
  ASSUME notes \in Seq(Note), notes # <<>>, notes' = Tail(notes), NEW f, ~News(1, f)
  PROVE  NewsStay(f)
<1>1. /\ \A i \in DOMAIN notes : i \in Nat /\ i >= 1
      /\ \A i \in DOMAIN notes' : /\ i + 1 \in DOMAIN notes /\ notes'[i] = notes[i + 1] /\ i \in Nat
      /\ \A i \in DOMAIN notes : i # 1 => i - 1 \in DOMAIN notes' /\ notes'[i - 1] = notes[i]
  BY NoteHandled
<1>2. ASSUME NEW i \in DOMAIN notes', News(i, f)'
      PROVE  \E j \in DOMAIN notes : /\ News(j, f) /\ notes'[i] = notes[j]
                                     /\ \A x : First(j, x) => First(i, x)'
  <2>1. PICK j \in DOMAIN notes : j = i + 1 /\ notes'[i] = notes[j]
    BY <1>1
  <2>2. News(j, f)
    BY <1>2, <2>1 DEF News, Mentions
  <2>3. ASSUME NEW x, First(j, x) PROVE First(i, x)'
    <3>1. SUFFICES ASSUME NEW k \in DOMAIN notes', k < i PROVE ~Mentions(k, x)'
      BY DEF First
    <3>2. PICK l \in DOMAIN notes : l = k + 1 /\ notes'[k] = notes[l]
      BY <1>1
    <3>3. l < j
      BY <1>1, <2>1, <3>1, <3>2
    <3>4. ~Mentions(l, x)
      BY <2>3, <3>3 DEF First
    <3> QED
      BY <3>2, <3>4 DEF Mentions
  <2> QED
    BY <2>1, <2>2, <2>3
<1>3. ASSUME NEW j \in DOMAIN notes, News(j, f) PROVE \E i \in DOMAIN notes' : News(i, f)'
  <2>1. PICK i \in DOMAIN notes' : i = j - 1 /\ notes'[i] = notes[j]
    BY <1>1, <1>3
  <2> QED
    BY <1>3, <2>1 DEF News, Mentions
<1> QED
  BY <1>2, <1>3 DEF NewsStay

\* The news of f that was the first to mention f was the only one.
LEMMA HandledNewsGone ==
  ASSUME notes \in Seq(Note), notes # <<>>, notes' = Tail(notes), NEW f, News(1, f),
         \A i \in DOMAIN notes : News(i, f) => First(i, f)
  PROVE  \A i \in DOMAIN notes' : ~News(i, f)'
<1> SUFFICES ASSUME NEW i \in DOMAIN notes', News(i, f)' PROVE FALSE
  OBVIOUS
<1>1. PICK j \in DOMAIN notes : j = i + 1 /\ notes'[i] = notes[j]
  BY NoteHandled
<1>2. News(j, f)
  BY <1>1 DEF News, Mentions
<1>3. 1 \in DOMAIN notes /\ 1 < j
  BY <1>1, NoteHandled
<1>4. ~Mentions(1, f)
  BY <1>2, <1>3 DEF First
<1> QED
  BY <1>4 DEF News

----------------------------------------------------------------------------
(* What an operation that has nothing to do with f leaves as it is.         *)

SameItem(x) == Same(x) /\ \A id \in Ids : Brings(id, x)' <=> Brings(id, x)

LEMMA QuietStays ==
  ASSUME NEW x, SameItem(x)
  PROVE  (Quiet(x)' <=> Quiet(x)) /\ (None(x)' <=> None(x)) /\ (One(x)' <=> One(x))
BY DEF SameItem, Same, Quiet

LEMMA AfterLoadingStays ==
  ASSUME NEW f, AfterLoading(f), SameItem(f), UNCHANGED folderIsDesktop,
         f \in folder' <=> f \in folder, f \in due' <=> f \in due, NewsStay(f),
         \A i \in DOMAIN notes : News(i, f) => SameItem(notes[i].item)
  PROVE  AfterLoading(f)'
<1>1. (Quiet(f)' <=> Quiet(f)) /\ (None(f)' <=> None(f)) /\ (One(f)' <=> One(f))
  BY QuietStays
<1>2. (Visible(f)' <=> Visible(f)) /\ (Right(f)' <=> Right(f))
  BY <1>1 DEF Visible, Right
<1>3. ASSUME NEW i \in DOMAIN notes', News(i, f)'
      PROVE  First(i, f)' /\ Quiet(f)' /\ Foretold(i, f)'
  <2>1. PICK j \in DOMAIN notes : /\ News(j, f) /\ notes'[i] = notes[j]
                                  /\ \A x : First(j, x) => First(i, x)'
    BY <1>3 DEF NewsStay
  <2>2. First(j, f) /\ Quiet(f) /\ Foretold(j, f)
    BY <2>1 DEF AfterLoading
  <2>0. PICK h : h = notes[j].item
    OBVIOUS
  <2>3. (Quiet(h)' <=> Quiet(h)) /\ (None(h)' <=> None(h)) /\ (One(h)' <=> One(h))
    BY <2>0, <2>1, QuietStays
  <2>4. Foretold(i, f)'
    <3>1. CASE notes[j].event # "rename"
      BY <1>1, <2>1, <2>2, <3>1 DEF Foretold
    <3>2. CASE notes[j].event = "rename"
      <4>1. First(j, h) => First(i, h)'
        BY <2>1
      <4> QED
        BY <1>1, <2>0, <2>1, <2>2, <2>3, <3>2, <4>1 DEF Foretold
    <3> QED
      BY <3>1, <3>2
  <2> QED
    BY <1>1, <2>1, <2>2, <2>4
<1>4. ASSUME \A i \in DOMAIN notes' : ~News(i, f)'
      PROVE  \/ Quiet(f)' /\ Right(f)'
             \/ /\ Visible(f)' /\ None(f)'
                /\ \E id \in Ids : Brings(id, f)' /\ \A other \in Ids : Brings(other, f)' => other = id
  <2>1. \A i \in DOMAIN notes : ~News(i, f)
    BY <1>4 DEF NewsStay
  <2>2. \/ Quiet(f) /\ Right(f)
        \/ /\ Visible(f) /\ None(f)
           /\ \E id \in Ids : Brings(id, f) /\ \A other \in Ids : Brings(other, f) => other = id
    BY <2>1 DEF AfterLoading
  <2> QED
    BY <1>1, <1>2, <2>2 DEF SameItem
<1> QED
  BY <1>3, <1>4 DEF AfterLoading

\* Whether f had its turn while the response is handed over.
Handed(f) == ui = "delivering" /\ f \notin loaded

LEMMA ItemStays ==
  ASSUME NEW f, ItemInv(f), SameItem(f), UNCHANGED folderIsDesktop,
         f \in folder' <=> f \in folder, f \in due' <=> f \in due, NewsStay(f),
         \A id \in Ids : Loads(id)' <=> Loads(id),
         ~Loading => \A i \in DOMAIN notes : News(i, f) => SameItem(notes[i].item),
         Loading => (Response(f) => Response(f)') /\ (Handed(f)' <=> Handed(f))
  PROVE  ItemInv(f)'
<1>1. Loading' <=> Loading
  BY DEF Loading
<1>2. CASE Loading
  <2>1. (Quiet(f)' <=> Quiet(f)) /\ (None(f)' <=> None(f)) /\ (One(f)' <=> One(f))
    BY QuietStays
  <2>2. Right(f)' <=> Right(f)
    BY <2>1 DEF Visible, Right
  <2>3. WhileLoading(f)
    BY <1>2 DEF ItemInv
  <2>4. \A i \in DOMAIN notes' : ~News(i, f)'
    BY <2>3 DEF NewsStay, WhileLoading
  <2>5. Response(f)' /\ (Handed(f)' <=> Handed(f))
    BY <1>2, <2>3 DEF WhileLoading, Response
  <2>6. IF Handed(f)' THEN Right(f)' ELSE None(f)'
    BY <2>1, <2>2, <2>3, <2>5 DEF WhileLoading, Handed
  <2>7. WhileLoading(f)'
    BY <2>1, <2>3, <2>4, <2>5, <2>6 DEF WhileLoading, Response, Handed
  <2> QED
    BY <1>1, <1>2, <2>7 DEF ItemInv
<1>3. CASE ~Loading
  <2>1. AfterLoading(f)'
    BY <1>3, AfterLoadingStays DEF ItemInv
  <2> QED
    BY <1>1, <1>3, <2>1 DEF ItemInv
<1> QED
  BY <1>2, <1>3

\* Once everything about f has arrived, what is shown of it is right.
LEMMA SettledIs ==
  ASSUME NEW f, ItemInv(f), Settled(f)
  PROVE  ~Loading /\ Quiet(f) /\ Right(f) /\ ~Announced(f) /\ registered
<1>1. ~Loading /\ Quiet(f) /\ ~Announced(f) /\ registered
  BY DEF Settled, MayBring, Loading, Loads, Quiet, Brings
<1>2. AfterLoading(f) /\ \A i \in DOMAIN notes : ~News(i, f)
  BY <1>1 DEF ItemInv, Announced, News, Mentions
<1>3. Right(f)
  BY <1>1, <1>2 DEF AfterLoading, Quiet
<1> QED
  BY <1>1, <1>3
----------------------------------------------------------------------------
(* Every action keeps the requests and the view.                            *)

LEMMA ItemsStay ==
  ASSUME \A x : Same(x), \A id \in Ids : SameRequest(id)
  PROVE  (\A x : SameItem(x)) /\ \A id \in Ids : Loads(id)' <=> Loads(id)
BY DEF SameItem, SameRequest

LEMMA ResponseStays ==
  ASSUME NEW f, UNCHANGED folderIsDesktop,
         f \in folder' <=> f \in folder, f \in due' <=> f \in due,
         \A id \in Ids : Loads(id)' => Loads(id) /\ thread'[id] = thread[id]
  PROVE  Response(f) => Response(f)'
BY DEF Response, Listed, Visible

\* Nothing happens to the requests and the tiles.
LEMMA LoaderStaysItem ==
  ASSUME RequestsInv, UNCHANGED <<loaderVars, group, loaded>>, \A x : Same(x),
         ui' = "delivering" <=> ui = "delivering",
         NEW f, ItemInv(f), UNCHANGED folderIsDesktop,
         f \in folder' <=> f \in folder, f \in due' <=> f \in due, NewsStay(f)
  PROVE  ItemInv(f)'
<1>1. thread' = thread
  BY DEF loaderVars
<1>2. \A id \in Ids : SameRequest(id)
  BY RequestsStay
<1>3. (\A x : SameItem(x)) /\ \A id \in Ids : Loads(id)' <=> Loads(id)
  BY <1>2, ItemsStay
<1>4. (Response(f) => Response(f)') /\ (Handed(f)' <=> Handed(f))
  BY <1>1, <1>3, ResponseStays DEF Handed
<1> QED
  BY <1>3, <1>4, ItemStays

LEMMA LoaderStaysView ==
  ASSUME RequestsInv, ViewInv, UNCHANGED <<loaderVars, group, loaded, folderIsDesktop, folder, due>>, \A x : Same(x),
         ui' = "delivering" <=> ui = "delivering", Live' => Live, tainted \subseteq tainted',
         \A f \in Items \ tainted' : NewsStay(f)
  PROVE  RequestsInv' /\ ViewInv'
<1>1. RequestsInv'
  BY RequestsStay
<1>2. ASSUME Live', NEW f \in Items \ tainted' PROVE ItemInv(f)'
  <2>1. ItemInv(f)
    BY <1>2 DEF ViewInv
  <2> QED
    BY <1>2, <2>1, LoaderStaysItem
<1> QED
  BY <1>1, <1>2 DEF ViewInv

LEMMA NewGroupView ==
  ASSUME GroupInv, RequestsInv, NewGroup
  PROVE  RequestsInv' /\ ViewInv'
<1>1. LoaderInv /\ group \in 0..MaxGroups /\ group < MaxGroups
  BY InvParts DEF RestOK, NewGroup
<1>2. /\ RequestsInv'
      /\ \E n \in Ids : /\ Loads(n)' /\ thread'[n].pc = "started"
                        /\ \A id \in Ids \ {n} : ~InFlight(id)'
                        /\ \A id \in Ids, x \in Items : ~Brings(id, x)'
  BY <1>1, FolderRequested DEF NewGroup
<1>3. PICK n \in Ids : /\ Loads(n)' /\ thread'[n].pc = "started"
                       /\ \A id \in Ids \ {n} : ~InFlight(id)'
                       /\ \A id \in Ids, x \in Items : ~Brings(id, x)'
  BY <1>2
<1>4. Loading' /\ \A id \in Ids : Loads(id)' => id = n
  BY <1>3 DEF Loading, Loads
<1>5. ASSUME NEW f \in Items PROVE ItemInv(f)'
  <2>1. DOMAIN notes' = {} /\ mTiles' = {} /\ ui' = "registering"
    BY DEF NewGroup
  <2>2. None(f)' /\ Quiet(f)'
    BY <1>3, <2>1 DEF None, TilesOf, Quiet
  <2>3. Response(f)'
    <3>1. f \in folder' \ (Hidden \cup Unreadable) <=> Visible(f)'
      BY DEF NewGroup, Visible
    <3> QED
      BY <1>3, <1>4, <3>1 DEF Response
  <2>4. WhileLoading(f)'
    BY <2>1, <2>2, <2>3 DEF WhileLoading
  <2> QED
    BY <1>4, <2>4 DEF ItemInv
<1> QED
  BY <1>2, <1>5 DEF ViewInv

LEMMA LifeCycleKeepsView ==
  ASSUME GroupInv, RequestsInv, ViewInv
  PROVE  /\ Unload => RequestsInv' /\ ViewInv'
         /\ RegisterForChanges => RequestsInv' /\ ViewInv'
         /\ TopParentLost => RequestsInv' /\ ViewInv'
         /\ NewTopParent => RequestsInv' /\ ViewInv'
         /\ UpdateAllIcons => RequestsInv' /\ ViewInv'
<1>1. ASSUME Unload PROVE RequestsInv' /\ ViewInv'
  <2>1. RequestsInv'
    BY <1>1, RequestsStay DEF Unload
  <2>2. ~Live'
    BY <1>1 DEF Unload, Live
  <2> QED
    BY <2>1, <2>2 DEF ViewInv
<1>2. ASSUME RegisterForChanges PROVE RequestsInv' /\ ViewInv'
  <2>1. /\ UNCHANGED <<loaderVars, group, loaded, folderIsDesktop, folder, due, tainted, notes, mTiles>>
        /\ ui = "registering" /\ ui' = "idle"
    BY <1>2 DEF RegisterForChanges, viewVars, shellVars
  <2> QED
    BY <2>1, TilesStay, NotesStay, LoaderStaysView DEF Live
<1>3. ASSUME TopParentLost PROVE RequestsInv' /\ ViewInv'
  <2>1. /\ UNCHANGED <<loaderVars, group, loaded, folderIsDesktop, folder, due, ui, mTiles>>
        /\ DOMAIN notes' = {} /\ tainted' = tainted \cup {f \in Items : Announced(f)}
    BY <1>3 DEF TopParentLost, viewVars
  <2>2. ASSUME NEW f \in Items \ tainted' PROVE NewsStay(f)
    <3>1. ~Announced(f)
      BY <2>1
    <3>2. \A i \in DOMAIN notes : ~News(i, f)
      BY <3>1 DEF Announced, News, Mentions
    <3> QED
      BY <2>1, <3>2 DEF NewsStay
  <2>3. Live' => Live
    BY <2>1 DEF Live
  <2> QED
    BY <2>1, <2>2, <2>3, TilesStay, LoaderStaysView
<1>4. ASSUME NewTopParent PROVE RequestsInv' /\ ViewInv'
  <2>1. UNCHANGED <<loaderVars, group, loaded, folderIsDesktop, folder, due, tainted, notes, mTiles, ui>>
    BY <1>4 DEF NewTopParent, viewVars, shellVars
  <2> QED
    BY <2>1, TilesStay, NotesStay, LoaderStaysView DEF Live
<1>5. ASSUME UpdateAllIcons PROVE RequestsInv' /\ ViewInv'
  <2>1. UNCHANGED <<loaderVars, group, loaded, folderIsDesktop, folder, due, tainted, notes, ui>>
    BY <1>5 DEF UpdateAllIcons, uiVars, shellVars
  <2>2. \A x : Same(x)
    BY <1>5, InvParts, AllUpdatedTiles
  <2> QED
    BY <2>1, <2>2, NotesStay, LoaderStaysView DEF Live
<1> QED
  BY <1>1, <1>2, <1>3, <1>4, <1>5

\* The only news of f is the note k that was just posted.
LEMMA NowForetold ==
  ASSUME NEW f, NEW k \in DOMAIN notes', News(k, f)', First(k, f)', Quiet(f)', Foretold(k, f)',
         \A i \in DOMAIN notes' : Mentions(i, f)' => i = k,
         ~Loading'
  PROVE  ItemInv(f)'
<1>1. \A i \in DOMAIN notes' : News(i, f)' => i = k
  BY DEF News
<1>2. AfterLoading(f)'
  BY <1>1 DEF AfterLoading
<1> QED
  BY <1>2 DEF ItemInv

LEMMA ShellKeepsView ==
  ASSUME GroupInv, RequestsInv, ViewInv, Shell
  PROVE  RequestsInv' /\ ViewInv'
<1>0. notes \in Seq(Note)
  BY InvParts DEF RestOK
<1>00. due \subseteq folder
  BY InvParts DEF RestOK
<1>1. ASSUME NEW fs, Change(fs)
      PROVE  /\ UNCHANGED <<loaderVars, group, loaded, ui, registered>> /\ (\A x : Same(x))
             /\ RequestsInv' /\ (Live' => Live)
             /\ \A x : SameItem(x)
             /\ Loading' <=> Loading
             /\ UNCHANGED folderIsDesktop
  <2>1. UNCHANGED <<loaderVars, group, loaded, ui, registered, mTiles, folderIsDesktop>>
    BY <1>1 DEF Change, viewVars, uiVars
  <2>2. \A x : Same(x)
    BY <2>1, TilesStay
  <2>3. RequestsInv' /\ \A id \in Ids : SameRequest(id)
    BY <2>1, RequestsStay
  <2>4. (\A x : SameItem(x)) /\ \A id \in Ids : Loads(id)' <=> Loads(id)
    BY <2>2, <2>3, ItemsStay
  <2> QED
    BY <2>1, <2>2, <2>3, <2>4 DEF Live, Loading
<1>2. ASSUME NEW event \in {"create", "delete", "rename", "update"},
             NEW e \in Items, NEW g \in Items, Post(event, e, g)
      PROVE  /\ \A f : event = "update" \/ f \notin {e, g} => NewsStay(f)
             /\ registered => \E k \in DOMAIN notes' :
                  /\ notes'[k].event = event /\ notes'[k].item = e /\ notes'[k].to = g
                  /\ \A x : ~Announced(x) =>
                       First(k, x)' /\ \A i \in DOMAIN notes' : Mentions(i, x)' => i = k
  <2>1. PICK n \in Note : n = [event |-> event, item |-> e, to |-> g]
    BY DEF Note
  <2>2. n.event = event /\ n.item = e /\ n.to = g
    BY <2>1
  <2>3. IF registered THEN notes' = Append(notes, n) ELSE notes' = notes
    BY <1>2, <2>1 DEF Post
  <2>4. ASSUME NEW f, event = "update" \/ f \notin {e, g} PROVE NewsStay(f)
    BY <1>0, <2>2, <2>3, <2>4, PostedNewsStay, NotesStay
  <2>5. registered => \E k \in DOMAIN notes' :
           /\ notes'[k] = n
           /\ \A x : ~Announced(x) =>
                First(k, x)' /\ \A i \in DOMAIN notes' : Mentions(i, x)' => i = k
    BY <1>0, <2>3, PostedIsFirst
  <2> QED
    BY <2>2, <2>4, <2>5
<1>3. ASSUME NEW e \in Items, CreateItem(e) PROVE RequestsInv' /\ ViewInv'
  <2>1. Change({e}) /\ Post("create", e, e) /\ e \notin folder /\ folder' = folder \cup {e}
        /\ tainted \subseteq tainted' /\ Raced({e}) \subseteq tainted'
        /\ due' = IF e \in Unreadable \/ (folderIsDesktop /\ e \in Hidden)
                    THEN due ELSE due \cup {e}
    BY <1>3 DEF CreateItem
  <2>2. ASSUME Live', NEW f \in Items \ tainted' PROVE ItemInv(f)'
    <3>1. ItemInv(f)
      BY <1>1, <2>1, <2>2 DEF ViewInv
    <3>2. CASE f # e
      BY <1>1, <1>2, <2>1, <3>1, <3>2, LoaderStaysItem
    <3>3. CASE f = e
      <4>1. Settled(e)
        BY <2>1, <3>3 DEF Raced
      <4>2. ~Loading /\ Quiet(e) /\ Right(e) /\ ~Announced(e) /\ registered
        BY <3>1, <3>3, <4>1, SettledIs
      <4>3. PICK k \in DOMAIN notes' :
              /\ notes'[k].event = "create" /\ notes'[k].item = e /\ notes'[k].to = e
              /\ First(k, e)' /\ \A i \in DOMAIN notes' : Mentions(i, e)' => i = k
        BY <1>2, <2>1, <4>2
      <4>4. None(e)
        BY <1>00, <2>1, <4>2 DEF Right, Visible
      <4>5. None(e)' /\ Quiet(e)' /\ ~Loading'
        BY <1>1, <2>1, <4>2, <4>4, QuietStays
      <4>6. Foretold(k, e)' /\ News(k, e)'
        <5>1. e \in due' <=> e \notin Unreadable /\ ~(folderIsDesktop' /\ e \in Hidden)
          BY <1>00, <1>1, <2>1
        <5> QED
          BY <2>1, <3>3, <4>3, <4>5, <5>1 DEF Foretold, News, Mentions
      <4> QED
        BY <3>3, <4>3, <4>5, <4>6, NowForetold
    <3> QED
      BY <3>2, <3>3
  <2> QED
    BY <1>1, <2>1, <2>2 DEF ViewInv
<1>4. ASSUME NEW e \in Items, DeleteItem(e) PROVE RequestsInv' /\ ViewInv'
  <2>1. Change({e}) /\ Post("delete", e, e) /\ folder' = folder \ {e} /\ due' = due \ {e}
        /\ tainted \subseteq tainted' /\ Raced({e}) \subseteq tainted'
    BY <1>4 DEF DeleteItem
  <2>2. ASSUME Live', NEW f \in Items \ tainted' PROVE ItemInv(f)'
    <3>1. ItemInv(f)
      BY <1>1, <2>1, <2>2 DEF ViewInv
    <3>2. CASE f # e
      BY <1>1, <1>2, <2>1, <3>1, <3>2, LoaderStaysItem
    <3>3. CASE f = e
      <4>1. Settled(e)
        BY <2>1, <3>3 DEF Raced
      <4>2. ~Loading /\ Quiet(e) /\ ~Announced(e) /\ registered
        BY <3>1, <3>3, <4>1, SettledIs
      <4>3. PICK k \in DOMAIN notes' :
              /\ notes'[k].event = "delete" /\ notes'[k].item = e /\ notes'[k].to = e
              /\ First(k, e)' /\ \A i \in DOMAIN notes' : Mentions(i, e)' => i = k
        BY <1>2, <2>1, <4>2
      <4>4. Quiet(e)' /\ ~Loading'
        BY <1>1, <2>1, <4>2, QuietStays
      <4>5. Foretold(k, e)' /\ News(k, e)'
        BY <2>1, <4>3 DEF Foretold, News, Mentions
      <4> QED
        BY <3>3, <4>3, <4>4, <4>5, NowForetold
    <3> QED
      BY <3>2, <3>3
  <2> QED
    BY <1>1, <2>1, <2>2 DEF ViewInv
<1>5. ASSUME NEW e \in Items, UpdateItem(e) PROVE RequestsInv' /\ ViewInv'
  <2>1. Change({e}) /\ Post("update", e, e) /\ folder' = folder /\ due' = due /\ tainted' = tainted
    BY <1>5 DEF UpdateItem
  <2>2. \A f \in Items \ tainted' : NewsStay(f)
    BY <1>2, <2>1
  <2> QED
    BY <1>1, <2>1, <2>2, LoaderStaysView
<1>6. ASSUME NEW e \in Items, NEW g \in Items, RenameItem(e, g) PROVE RequestsInv' /\ ViewInv'
  <2>1. Change({e, g}) /\ Post("rename", e, g) /\ folder' = (folder \ {e}) \cup {g}
        /\ e \in folder /\ g \notin folder /\ e # g
        /\ due' = (IF e \in due THEN (due \ {e}) \cup {g} ELSE due)
        /\ tainted \subseteq tainted' /\ Raced({e, g}) \subseteq tainted'
    BY <1>6 DEF RenameItem
  <2>2. g \notin tainted' => e \notin tainted /\ Settled(e)
    BY <1>6 DEF RenameItem
  <2>3. ASSUME Live', NEW f \in Items \ tainted' PROVE ItemInv(f)'
    <3>1. ItemInv(f)
      BY <1>1, <2>1, <2>3 DEF ViewInv
    <3>2. CASE f \notin {e, g}
      BY <1>1, <1>2, <2>1, <3>1, <3>2, LoaderStaysItem
    <3>3. CASE f = e
      <4>1. Settled(e)
        BY <2>1, <3>3 DEF Raced
      <4>2. ~Loading /\ Quiet(e) /\ Right(e) /\ ~Announced(e) /\ registered
        BY <3>1, <3>3, <4>1, SettledIs
      <4>3. PICK k \in DOMAIN notes' :
              /\ notes'[k].event = "rename" /\ notes'[k].item = e /\ notes'[k].to = g
              /\ First(k, e)' /\ \A i \in DOMAIN notes' : Mentions(i, e)' => i = k
        BY <1>2, <2>1, <4>2
      <4>4. None(e)' \/ One(e)'
        BY <1>1, <2>1, <4>2, QuietStays DEF Right
      <4>5. Quiet(e)' /\ ~Loading'
        BY <1>1, <2>1, <4>2, QuietStays
      <4>6. Foretold(k, e)' /\ News(k, e)'
        BY <2>1, <4>3, <4>4 DEF Foretold, News, Mentions
      <4> QED
        BY <3>3, <4>3, <4>5, <4>6, NowForetold
    <3>4. CASE f = g
      <4>1. Settled(g) /\ Settled(e) /\ e \in Items \ tainted
        BY <2>1, <2>2, <3>4 DEF Raced
      <4>2. ~Loading /\ Quiet(g) /\ Right(g) /\ ~Announced(g) /\ registered
        BY <3>1, <3>4, <4>1, SettledIs
      <4>3. ItemInv(e)
        BY <1>1, <2>1, <2>3, <4>1 DEF ViewInv
      <4>4. Quiet(e) /\ Right(e) /\ ~Announced(e)
        BY <4>1, <4>3, SettledIs
      <4>5. PICK k \in DOMAIN notes' :
              /\ notes'[k].event = "rename" /\ notes'[k].item = e /\ notes'[k].to = g
              /\ First(k, e)' /\ First(k, g)' /\ \A i \in DOMAIN notes' : Mentions(i, g)' => i = k
        BY <1>2, <2>1, <4>2, <4>4
      <4>6. None(g) /\ IF g \in due' THEN One(e) ELSE None(e)
        BY <1>00, <2>1, <4>2, <4>4 DEF Right, Visible
      <4>7. None(g)' /\ (IF g \in due' THEN One(e)' ELSE None(e)') /\ Quiet(e)' /\ Quiet(g)' /\ ~Loading'
        BY <1>1, <2>1, <4>2, <4>4, <4>6, QuietStays
      <4>8. Foretold(k, g)' /\ News(k, g)'
        BY <2>1, <4>5, <4>7 DEF Foretold, News, Mentions
      <4> QED
        BY <3>4, <4>5, <4>7, <4>8, NowForetold
    <3> QED
      BY <3>2, <3>3, <3>4
  <2> QED
    BY <1>1, <2>1, <2>3 DEF ViewInv
<1> QED
  BY <1>3, <1>4, <1>5, <1>6 DEF Shell

\* The notification at the head is not about f, or is an update.
LEMMA OthersNotified ==
  ASSUME NEW f, ItemInv(f), ~News(1, f),
         notes \in Seq(Note), notes # <<>>, notes' = Tail(notes),
         UNCHANGED <<folderIsDesktop, folder, ui, loaded>>, f \in due' <=> f \in due, SameItem(f),
         \A x : x \notin {Head(notes).item, Head(notes).to} => SameItem(x),
         \A id \in Ids : Loads(id)' <=> Loads(id),
         \A id \in Ids : Loads(id)' => thread'[id] = thread[id]
  PROVE  ItemInv(f)'
<1>1. NewsStay(f)
  BY HandledNewsStay
<1>2. (Response(f) => Response(f)') /\ (Handed(f)' <=> Handed(f))
  BY ResponseStays DEF Handed
<1>3. ASSUME ~Loading, NEW i \in DOMAIN notes, NEW h, News(i, f), h = notes[i].item
      PROVE  SameItem(h)
  <2>1. h = f \/ First(i, h)
    BY <1>3 DEF ItemInv, AfterLoading, Foretold
  <2>2. CASE First(i, h) /\ h # f
    <3>1. 1 \in DOMAIN notes /\ notes[1] = Head(notes) /\ 1 < i
      <4>1. i # 1
        BY <1>3
      <4> QED
        BY <4>1, NoteHandled
    <3>2. ~Mentions(1, h)
      BY <2>2, <3>1 DEF First
    <3> QED
      BY <3>1, <3>2 DEF Mentions
  <2> QED
    BY <2>1, <2>2
<1> QED
  BY <1>1, <1>2, <1>3, ItemStays

\* The notification at the head is the one about f.
LEMMA ItemNotified ==
  ASSUME NEW f, ItemInv(f), News(1, f), 1 \in DOMAIN notes, ~Loading', ~Loading,
         notes \in Seq(Note), notes # <<>>, notes' = Tail(notes),
         \/ Quiet(f)' /\ Right(f)'
         \/ /\ Visible(f)' /\ None(f)'
            /\ \E id \in Ids : Brings(id, f)' /\ \A other \in Ids : Brings(other, f)' => other = id
  PROVE  ItemInv(f)'
<1>1. \A i \in DOMAIN notes : News(i, f) => First(i, f)
  BY DEF ItemInv, AfterLoading
<1>2. \A i \in DOMAIN notes' : ~News(i, f)'
  BY <1>1, HandledNewsGone
<1>3. AfterLoading(f)'
  BY <1>2 DEF AfterLoading
<1> QED
  BY <1>3 DEF ItemInv

LEMMA AddIconView ==
  ASSUME GroupInv, RequestsInv, group # 0, NEW e \in Items, AddIcon(e), UNCHANGED <<group, loaded>>,
         ui' = "idle", ui = "idle"
  PROVE  /\ RequestsInv'
         /\ \A x : Same(x) /\ (x # e => SameItem(x))
         /\ \A id \in Ids : Loads(id)' <=> Loads(id)
         /\ \A id \in Ids : Loads(id)' => thread'[id] = thread[id]
         /\ None(e) /\ Quiet(e) =>
              IF sNextRequestId' = sNextRequestId
                THEN Quiet(e)' /\ (e \notin Unreadable => folderIsDesktop /\ e \in Hidden)
                ELSE /\ e \notin Unreadable => ~(folderIsDesktop /\ e \in Hidden)
                     /\ \E id \in Ids : Brings(id, e)' /\ \A other \in Ids : Brings(other, e)' => other = id
<1>1. UNCHANGED mTiles
  BY DEF AddIcon, viewVars
<1>2. \A x : Same(x)
  BY <1>1, TilesStay
<1>3. CASE UNCHANGED loaderVars /\ (TilesOf(e) # {} \/ \E suppressed \in Suppressed(e) : suppressed)
  <2>1. RequestsInv' /\ \A id \in Ids : SameRequest(id)
    BY <1>3, RequestsStay
  <2>2. (\A x : SameItem(x)) /\ \A id \in Ids : Loads(id)' <=> Loads(id)
    BY <1>2, <2>1, ItemsStay
  <2>3. thread' = thread /\ sNextRequestId' = sNextRequestId
    BY <1>3 DEF loaderVars
  <2>4. None(e) /\ e \notin Unreadable => folderIsDesktop /\ e \in Hidden
    BY <1>3 DEF None, Suppressed
  <2>5. Quiet(e)' <=> Quiet(e)
    BY <2>2, QuietStays
  <2> QED
    BY <1>2, <2>1, <2>2, <2>3, <2>4, <2>5
<1>4. CASE LoadFolderItem(group, e) /\ \E suppressed \in Suppressed(e) : ~suppressed
  <2>1. LoaderInv /\ group \in Handlers
    BY InvParts DEF RestOK
  <2>2. RequestsInv' /\ \E n \in Ids : /\ ~InFlight(n) /\ ~Loads(n)'
                                       /\ \A x : Brings(n, x)' <=> x = e
                                       /\ \A other \in Ids \ {n} :
                                            SameRequest(other) /\ thread'[other] = thread[other]
    BY <1>4, <2>1, ItemRequested
  <2>3. PICK n \in Ids : /\ ~InFlight(n) /\ ~Loads(n)'
                         /\ \A x : Brings(n, x)' <=> x = e
                         /\ \A other \in Ids \ {n} :
                              SameRequest(other) /\ thread'[other] = thread[other]
    BY <2>2
  <2>4. ~Loads(n) /\ \A x : ~Brings(n, x)
    BY <2>3 DEF Loads, Brings
  <2>5. /\ \A id \in Ids : Loads(id)' <=> Loads(id)
        /\ \A id \in Ids : Loads(id)' => thread'[id] = thread[id]
    BY <2>3, <2>4 DEF SameRequest
  <2>6. ASSUME NEW x, x # e PROVE SameItem(x)
    BY <1>2, <2>3, <2>4, <2>6 DEF SameItem, SameRequest
  <2>7. e \notin Unreadable => ~(folderIsDesktop /\ e \in Hidden)
    BY <1>4 DEF Suppressed
  <2>8. Quiet(e) => \E id \in Ids : Brings(id, e)' /\ \A other \in Ids : Brings(other, e)' => other = id
    BY <2>3 DEF SameRequest, Quiet
  <2>9. sNextRequestId' # sNextRequestId
    <3>1. sNextRequestId \in Nat
      BY <2>1 DEF LoaderInv, LoaderTypeOK
    <3> QED
      BY <1>4, <3>1 DEF LoadFolderItem, Issue
  <2> QED
    BY <1>2, <2>2, <2>5, <2>6, <2>7, <2>8, <2>9
<1> QED
  BY <1>3, <1>4 DEF AddIcon

LEMMA NotifyKeepsView ==
  ASSUME GroupInv, RequestsInv, ViewInv, HandleChangeNotify
  PROVE  RequestsInv' /\ ViewInv'
<1>1. /\ ui = "idle" /\ group # 0 /\ Live /\ ViewTypeOK
      /\ notes \in Seq(Note) /\ notes # <<>> /\ notes' = Tail(notes)
      /\ UNCHANGED <<folderIsDesktop, folder, tainted, group, ui, loaded>>
      /\ due \subseteq folder /\ Admit(Head(notes).item)
  BY InvParts DEF HandleChangeNotify, uiVars, RestOK, Live
<1>2. Head(notes) \in Note /\ 1 \in DOMAIN notes /\ notes[1] = Head(notes)
  BY <1>1, NoteHandled
<1>3. PICK e \in Items, g \in Items : e = Head(notes).item /\ g = Head(notes).to
  BY <1>2 DEF Note
<1>4. \A f : News(1, f) <=> f \in {e, g} /\ Head(notes).event # "update"
  BY <1>2, <1>3 DEF News, Mentions
<1>5. /\ \A f \in Items \ tainted' : ItemInv(f)
      /\ (\A f \in Items \ tainted' : ItemInv(f)') => ViewInv'
  BY <1>1 DEF ViewInv
<1>6. \A f : Loading /\ ItemInv(f) => ~News(1, f)
  BY <1>2 DEF ItemInv, WhileLoading
<1>7. \A f : News(1, f) /\ ItemInv(f) => Quiet(f) /\ Foretold(1, f) /\ ~Loading
  BY <1>2, <1>6 DEF ItemInv, AfterLoading
\* What does not touch the loader.
<1>8. ASSUME UNCHANGED loaderVars, \A x : x \notin {e, g} => Same(x),
             Head(notes).event = "update" => \A x : Same(x),
             \A f \in Items \ tainted' :
               News(1, f) /\ Foretold(1, f) => Right(f)'
      PROVE  RequestsInv' /\ ViewInv'
  <2>1. RequestsInv' /\ (\A id \in Ids : SameRequest(id)) /\ thread' = thread
    <3>1. RequestsInv' /\ (\A id \in Ids : SameRequest(id))
      BY <1>1, <1>8, RequestsStay
    <3> QED
      BY <1>8, <3>1 DEF loaderVars
  <2>2. \A id \in Ids : Loads(id)' <=> Loads(id)
    BY <2>1 DEF SameRequest
  <2>3. \A x : Same(x) => SameItem(x)
    BY <2>1 DEF SameItem, SameRequest
  <2>4. \A x : Quiet(x)' <=> Quiet(x)
    BY <2>1 DEF Quiet, SameRequest
  <2>6. due' = due
    BY <1>1, <1>8 DEF loaderVars, Admit
  <2>5. ASSUME NEW f \in Items \ tainted' PROVE ItemInv(f)'
    <3>1. CASE News(1, f)
      <4>1. Quiet(f) /\ Right(f)' /\ ~Loading
        BY <1>5, <1>7, <1>8, <3>1
      <4>2. Quiet(f)' /\ ~Loading'
        BY <2>2, <2>4, <4>1 DEF Loading
      <4> QED
        BY <1>1, <1>2, <1>5, <3>1, <4>1, <4>2, ItemNotified
    <3>2. CASE ~News(1, f)
      <4>1. SameItem(f)
        BY <1>4, <1>8, <2>3, <3>2
      <4>2. \A x : x \notin {Head(notes).item, Head(notes).to} => SameItem(x)
        BY <1>3, <1>8, <2>3
      <4> QED
        BY <1>1, <1>5, <2>1, <2>2, <2>6, <3>2, <4>1, <4>2, OthersNotified
    <3> QED
      BY <3>1, <3>2
  <2> QED
    BY <1>5, <2>1, <2>5
<1>9. CASE Head(notes).event = "create" /\ AddIcon(e)
  <2>1. /\ RequestsInv'
        /\ \A x : Same(x) /\ (x # e => SameItem(x))
        /\ \A id \in Ids : Loads(id)' <=> Loads(id)
        /\ \A id \in Ids : Loads(id)' => thread'[id] = thread[id]
        /\ None(e) /\ Quiet(e) =>
             IF sNextRequestId' = sNextRequestId
               THEN Quiet(e)' /\ (e \notin Unreadable => folderIsDesktop /\ e \in Hidden)
               ELSE /\ e \notin Unreadable => ~(folderIsDesktop /\ e \in Hidden)
                    /\ \E id \in Ids : Brings(id, e)' /\ \A other \in Ids : Brings(other, e)' => other = id
    BY <1>1, <1>9, AddIconView
  <2>2. ASSUME NEW f \in Items \ tainted' PROVE ItemInv(f)'
    <3>1. CASE News(1, f)
      <4>1. Quiet(f) /\ Foretold(1, f) /\ ~Loading
        BY <1>5, <1>7, <3>1
      <4>2. /\ f = e /\ f \in folder /\ None(f)
            /\ f \in due <=> f \notin Unreadable /\ ~(folderIsDesktop /\ f \in Hidden)
        BY <1>2, <1>3, <1>9, <4>1 DEF Foretold
      <4>3. None(f)' /\ ~Loading'
        BY <2>1, <4>1, <4>2 DEF Same, Loading
      <4>4. CASE sNextRequestId' = sNextRequestId
        <5>1. f \notin due'
          BY <1>1, <2>1, <4>1, <4>2, <4>4 DEF Admit
        <5>2. Quiet(f)' /\ Right(f)'
          BY <2>1, <4>1, <4>2, <4>3, <4>4, <5>1 DEF Right, Visible
        <5> QED
          BY <1>1, <1>2, <1>5, <3>1, <4>1, <4>3, <5>2, ItemNotified
      <4>5. CASE sNextRequestId' # sNextRequestId
        <5>1. f \in due'
          <6>1. CASE f \in Unreadable
            BY <1>1, <1>3, <4>2, <4>5, <6>1 DEF Admit
          <6>2. CASE f \notin Unreadable
            BY <1>1, <1>3, <2>1, <4>1, <4>2, <4>5, <6>2 DEF Admit
          <6> QED
            BY <6>1, <6>2
        <5>2. /\ Visible(f)'
              /\ \E id \in Ids : Brings(id, f)' /\ \A other \in Ids : Brings(other, f)' => other = id
          BY <2>1, <4>1, <4>2, <4>5, <5>1 DEF Visible
        <5> QED
          BY <1>1, <1>2, <1>5, <3>1, <4>1, <4>3, <5>2, ItemNotified
      <4> QED
        BY <4>4, <4>5
    <3>2. CASE ~News(1, f)
      <4>1. SameItem(f)
        BY <1>4, <1>9, <2>1, <3>2
      <4>2. \A x : x \notin {Head(notes).item, Head(notes).to} => SameItem(x)
        BY <1>3, <2>1
      <4>3. f \in due' <=> f \in due
        BY <1>1, <1>3, <1>4, <1>9, <3>2 DEF Admit
      <4> QED
        BY <1>1, <1>5, <2>1, <3>2, <4>1, <4>2, <4>3, OthersNotified
    <3> QED
      BY <3>1, <3>2
  <2> QED
    BY <1>5, <2>1, <2>2
<1>10. CASE Head(notes).event = "delete" /\ RemoveIcon(e)
  <2>1. (\A x : x # e => Same(x)) /\ None(e)' /\ UNCHANGED loaderVars
    BY <1>10, RemovedTiles DEF RemoveIcon
  <2>0. due' = due
    BY <1>1, <2>1 DEF loaderVars, Admit
  <2>2. ASSUME NEW f, Foretold(1, f) PROVE Right(f)'
    <3>1. f = e /\ f \notin folder
      BY <1>2, <1>3, <1>10, <2>2 DEF Foretold
    <3> QED
      BY <1>1, <2>0, <2>1, <3>1 DEF Right, Visible
  <2> QED
    BY <1>8, <1>10, <2>1, <2>2
<1>11. CASE Head(notes).event = "rename" /\ RenameIcon(e, g)
  <2>1. /\ \A x : x \notin {e, g} => Same(x)
        /\ e # g /\ None(e) => Same(e) /\ Same(g)
        /\ e # g /\ One(e) => None(e)' /\ (None(g) => One(g)')
        /\ UNCHANGED loaderVars
    BY <1>1, <1>11, InvParts, RenamedTile DEF RenameIcon
  <2>0. due' = due
    BY <1>1, <2>1 DEF loaderVars, Admit
  <2>2. ASSUME NEW f, Foretold(1, f) PROVE Right(f)'
    <3>1. CASE f = e /\ g # f /\ f \notin folder /\ (None(f) \/ One(f))
      <4>1. None(f)'
        BY <2>1, <3>1 DEF Same
      <4> QED
        BY <1>1, <2>0, <3>1, <4>1 DEF Right, Visible
    <3>2. CASE g = f /\ e # f /\ f \in folder /\ None(f) /\ IF f \in due THEN One(e) ELSE None(e)
      <4>1. f \notin due => None(f)'
        BY <2>1, <3>2 DEF Same
      <4>2. f \in due => One(f)'
        BY <2>1, <3>2
      <4> QED
        BY <2>0, <4>1, <4>2 DEF Right, Visible
    <3> QED
      BY <1>2, <1>3, <1>11, <2>2, <3>1, <3>2 DEF Foretold
  <2> QED
    BY <1>8, <1>11, <2>1, <2>2
<1>12. CASE Head(notes).event = "update" /\ UpdateIcon(e)
  <2>1. (\A x : Same(x)) /\ UNCHANGED loaderVars
    BY <1>1, <1>12, InvParts, UpdatedTile DEF UpdateIcon
  <2> QED
    BY <1>4, <1>8, <1>12, <2>1
<1> QED
  BY <1>3, <1>9, <1>10, <1>11, <1>12 DEF HandleChangeNotify

\* The requests but one stay, the one is over.
LEMMA OthersAnswered ==
  ASSUME NEW id \in Ids, ~InFlight(id)', \A other \in Ids \ {id} : SameRequest(other)
  PROVE  /\ ~Loads(id) => \A any \in Ids : Loads(any)' <=> Loads(any)
         /\ \A x : ~Brings(id, x) => \A any \in Ids : Brings(any, x)' <=> Brings(any, x)
         /\ \A x : Quiet(x) => Quiet(x)'
         /\ \A x : (\A other \in Ids : Brings(other, x) => other = id) => Quiet(x)'
<1>1. ~Loads(id)' /\ \A x : ~Brings(id, x)'
  BY DEF Loads, Brings
<1> QED
  BY <1>1 DEF SameRequest, Quiet

LEMMA ItemCompletedView ==
  ASSUME GroupInv, RequestsInv, ViewInv, NEW id \in Ids, LoadItemCompleted(id)
  PROVE  RequestsInv' /\ ViewInv'
<1>1. PICK e \in thread[id].items : ItemLoaded(id, e)
  BY DEF LoadItemCompleted
<1>2. /\ thread[id].pc = "sending" /\ thread[id].kind = "item" /\ sOutstandingRequests[id] = group
      /\ Answer(id) /\ ui = "idle" /\ Live /\ group # 0 /\ LoaderInv
      /\ UNCHANGED <<folderIsDesktop, folder, due, tainted, group, ui, loaded, notes>>
  BY InvParts DEF LoadItemCompleted, Answer, shellVars, uiVars, Live, RestOK
<1>3. InFlight(id) /\ ~Loads(id) /\ thread[id].items = {e} /\ e \in Items
  BY <1>1, <1>2 DEF InFlight, Loads, RequestsInv, Shape
<1>4. Brings(id, e) /\ \A x : x # e => ~Brings(id, x)
  BY <1>2, <1>3 DEF Brings
<1>5. /\ RequestsInv' /\ ~InFlight(id)'
      /\ \A other \in Ids \ {id} : SameRequest(other) /\ thread'[other] = thread[other]
  BY <1>2, RequestAnswered
<1>6. /\ \A any \in Ids : Loads(any)' <=> Loads(any)
      /\ \A x : x # e => \A any \in Ids : Brings(any, x)' <=> Brings(any, x)
      /\ \A x : (\A other \in Ids : Brings(other, x) => other = id) => Quiet(x)'
  BY <1>3, <1>4, <1>5, OthersAnswered
<1>7. (\A x : x # e => Same(x)) /\ (None(e) => One(e)')
  BY <1>1, <1>3, LoadedTile
<1>8. \A x : x # e => SameItem(x)
  BY <1>6, <1>7 DEF SameItem
<1>9. \A any \in Ids : Loads(any)' => thread'[any] = thread[any]
  BY <1>3, <1>5, <1>6
<1>10. ASSUME NEW f \in Items \ tainted' PROVE ItemInv(f)'
  <2>1. ItemInv(f)
    BY <1>2 DEF ViewInv
  <2>2. CASE f # e
    <3>1. SameItem(f) /\ NewsStay(f)
      BY <1>2, <1>8, <2>2, NotesStay
    <3>2. (Response(f) => Response(f)') /\ (Handed(f)' <=> Handed(f))
      BY <1>2, <1>6, <1>9, ResponseStays DEF Handed
    <3>3. ASSUME ~Loading, NEW i \in DOMAIN notes, NEW h, News(i, f), h = notes[i].item
          PROVE  SameItem(h)
      <4>1. h = f \/ Quiet(h)
        BY <2>1, <3>3 DEF ItemInv, AfterLoading, Foretold
      <4>2. h # e
        BY <1>4, <2>2, <4>1 DEF Quiet
      <4> QED
        BY <1>8, <4>2
    <3> QED
      BY <1>2, <1>6, <2>1, <3>1, <3>2, <3>3, ItemStays
  <2>3. CASE f = e
    <3>1. ~Quiet(f)
      BY <1>4, <2>3 DEF Quiet
    <3>2. ~Loading /\ AfterLoading(f)
      BY <2>1, <3>1 DEF ItemInv, WhileLoading
    <3>3. \A i \in DOMAIN notes : ~News(i, f)
      BY <3>1, <3>2 DEF AfterLoading
    <3>4. /\ Visible(f) /\ None(f)
          /\ \E one \in Ids : Brings(one, f) /\ \A other \in Ids : Brings(other, f) => other = one
      BY <3>1, <3>2, <3>3 DEF AfterLoading
    <3>5. \A other \in Ids : Brings(other, f) => other = id
      BY <1>4, <2>3, <3>4
    <3>6. Quiet(f)' /\ One(f)' /\ Visible(f)' /\ ~Loading'
      BY <1>2, <1>6, <1>7, <2>3, <3>2, <3>4, <3>5 DEF Visible, Loading
    <3>7. \A i \in DOMAIN notes' : ~News(i, f)'
      BY <1>2, <3>3 DEF News, Mentions
    <3>8. AfterLoading(f)'
      BY <3>6, <3>7 DEF AfterLoading, Right
    <3> QED
      BY <3>6, <3>8 DEF ItemInv
  <2> QED
    BY <2>2, <2>3
<1> QED
  BY <1>5, <1>10 DEF ViewInv

LEMMA CompletedView ==
  ASSUME GroupInv, RequestsInv, ViewInv, NEW id \in Ids, LoadCompleted(id)
  PROVE  RequestsInv' /\ ViewInv'
<1>1. /\ thread[id].pc = "sending" /\ thread[id].kind = "folder" /\ sOutstandingRequests[id] = group
      /\ ui = "idle" /\ ui' = "delivering" /\ loaded' = thread[id].items /\ Live /\ group # 0
      /\ UNCHANGED <<thread, sOutstandingRequests, folderIsDesktop, folder, due, tainted, group, notes, mTiles>>
      /\ LoaderInv
  BY InvParts DEF LoadCompleted, shellVars, viewVars, loaderVars, Live, RestOK
<1>2. \A any \in Ids : /\ SameRequest(any) /\ (InFlight(any)' <=> InFlight(any))
                       /\ (Shape(any)' <=> Shape(any)) /\ \A x : Listed(any, x)' <=> Listed(any, x)
  BY <1>1, RequestStays
<1>3. (\A x : SameItem(x)) /\ \A any \in Ids : Loads(any)' <=> Loads(any)
  BY <1>1, <1>2, TilesStay, ItemsStay
<1>4. Loads(id) /\ Loading /\ Loading'
  BY <1>1, <1>3 DEF Loads, InFlight, Loading
<1>5. RequestsInv'
  <2>1. \A any \in Ids : sOutstandingRequests'[any] # NoHandler => sOutstandingRequests'[any] \in 1..group'
    BY <1>1 DEF RequestsInv
  <2>2. Delivering(id)' /\ loaded' \subseteq thread'[id].items
    BY <1>1 DEF Delivering
  <2>3. /\ \A any \in Ids : InFlight(any)' => Shape(any)'
        /\ \A any, other \in Ids : Loads(any)' /\ Loads(other)' => any = other
    BY <1>1, <1>2, <1>3 DEF RequestsInv
  <2> QED
    BY <2>1, <2>2, <2>3 DEF RequestsInv
<1>6. ASSUME NEW f \in Items \ tainted' PROVE ItemInv(f)'
  <2>1. WhileLoading(f)
    BY <1>1, <1>4 DEF ViewInv, ItemInv
  <2>2. \A i \in DOMAIN notes' : ~News(i, f)'
    BY <1>1, <2>1 DEF WhileLoading, News, Mentions
  <2>3. None(f)' /\ Quiet(f)'
    BY <1>1, <1>3, <2>1, QuietStays DEF WhileLoading
  <2>4. Visible(f)' <=> Visible(f)
    BY <1>1 DEF Visible
  <2>5. Response(f)'
    BY <1>1, <1>2, <1>3, <2>1, <2>4 DEF WhileLoading, Response
  <2>6. thread[id].todo = {}
    BY <1>1 DEF LoaderInv, RequestInv
  <2>7. f \notin loaded' => ~Visible(f)'
    BY <1>1, <1>4, <2>1, <2>4, <2>6 DEF WhileLoading, Response, Listed
  <2>8. IF ui' = "delivering" /\ f \notin loaded' THEN Right(f)' ELSE None(f)'
    BY <2>3, <2>7 DEF Right
  <2>9. WhileLoading(f)'
    BY <2>2, <2>3, <2>5, <2>8 DEF WhileLoading
  <2> QED
    BY <1>4, <2>9 DEF ItemInv
<1> QED
  BY <1>5, <1>6 DEF ViewInv

LEMMA LoadedView ==
  ASSUME GroupInv, RequestsInv, ViewInv, NEW id \in Ids, FolderLoaded(id)
  PROVE  RequestsInv' /\ ViewInv'
<1>1. PICK e \in loaded : ItemLoaded(id, e) /\ loaded' = loaded \ {e}
  BY DEF FolderLoaded
<1>2. /\ Delivering(id) /\ ui = "delivering" /\ ui' = "delivering" /\ Live /\ group # 0
      /\ UNCHANGED <<loaderVars, thread, folderIsDesktop, folder, due, tainted, group, notes>> /\ e \in Items
  BY <1>1, InvParts DEF FolderLoaded, Delivering, shellVars, loaderVars, Live, RestOK
<1>3. RequestsInv' /\ \A any \in Ids : SameRequest(any)
  BY <1>1, <1>2, RequestsStay
<1>4. (\A x : x # e => Same(x)) /\ (None(e) => One(e)')
  BY <1>1, <1>2, LoadedTile
<1>5. /\ \A any \in Ids : Loads(any)' <=> Loads(any)
      /\ \A x : x # e => SameItem(x)
      /\ \A x : Quiet(x)' <=> Quiet(x)
  BY <1>3, <1>4 DEF SameItem, SameRequest, Quiet
<1>6. Loads(id) /\ Loading /\ Loading'
  BY <1>2, <1>5 DEF Loads, InFlight, Loading, Delivering
<1>7. ASSUME NEW f \in Items \ tainted' PROVE ItemInv(f)'
  <2>1. WhileLoading(f) /\ ItemInv(f)
    BY <1>2, <1>6 DEF ViewInv, ItemInv
  <2>2. Response(f) => Response(f)'
    BY <1>2, <1>5, ResponseStays
  <2>3. NewsStay(f)
    BY <1>2, NotesStay
  <2>4. CASE f # e
    <3>1. SameItem(f) /\ (Handed(f)' <=> Handed(f))
      BY <1>1, <1>2, <1>5, <2>4 DEF Handed
    <3> QED
      BY <1>2, <1>5, <1>6, <2>1, <2>2, <2>3, <3>1, ItemStays
  <2>5. CASE f = e
    <3>1. None(f) /\ Quiet(f)
      BY <1>1, <1>2, <2>1, <2>5 DEF WhileLoading
    <3>2. loaded \subseteq thread[id].items
      <4>1. PICK other \in Ids : Delivering(other) /\ loaded \subseteq thread[other].items
        BY <1>2 DEF RequestsInv
      <4>2. Loads(other)
        BY <4>1 DEF Loads, InFlight, Delivering
      <4>3. other = id
        BY <1>2, <1>6, <4>2 DEF RequestsInv
      <4> QED
        BY <4>1, <4>3
    <3>3. Visible(f)
      BY <1>1, <1>2, <1>6, <2>1, <2>5, <3>2 DEF WhileLoading, Response, Listed, Delivering
    <3>4. Right(f)' /\ Quiet(f)' /\ f \notin loaded'
      BY <1>1, <1>2, <1>4, <1>5, <2>5, <3>1, <3>3 DEF Right, Visible
    <3>5. \A i \in DOMAIN notes' : ~News(i, f)'
      BY <1>2, <2>1 DEF WhileLoading, News, Mentions
    <3>6. WhileLoading(f)'
      BY <1>2, <2>1, <2>2, <3>4, <3>5 DEF WhileLoading, Response
    <3> QED
      BY <1>6, <3>6 DEF ItemInv
  <2> QED
    BY <2>4, <2>5
<1> QED
  BY <1>3, <1>7 DEF ViewInv

LEMMA ReturnsView ==
  ASSUME GroupInv, RequestsInv, ViewInv, NEW id \in Ids, FolderLoadedReturns(id)
  PROVE  RequestsInv' /\ ViewInv'
<1>1. /\ Delivering(id) /\ loaded = {} /\ ui = "delivering" /\ ui' = "idle" /\ Live /\ group # 0
      /\ UNCHANGED <<folderIsDesktop, folder, due, tainted, group, notes, mTiles>> /\ Answer(id) /\ LoaderInv
  BY InvParts DEF FolderLoadedReturns, Delivering, shellVars, viewVars, Live, RestOK
<1>2. /\ RequestsInv' /\ ~InFlight(id)'
      /\ \A other \in Ids \ {id} : SameRequest(other)
  BY <1>1, RequestAnswered
<1>3. Loads(id) /\ Loading
  BY <1>1 DEF Loads, InFlight, Loading, Delivering
<1>4. \A x : Quiet(x) => Quiet(x)'
  BY <1>2, OthersAnswered
<1>5. ~Loading'
  <2>1. \A any \in Ids : ~Loads(any)'
    BY <1>1, <1>2, <1>3 DEF RequestsInv, SameRequest, Loads
  <2> QED
    BY <2>1 DEF Loading
<1>6. ASSUME NEW f \in Items \ tainted' PROVE ItemInv(f)'
  <2>1. WhileLoading(f)
    BY <1>1, <1>3 DEF ViewInv, ItemInv
  <2>2. Quiet(f) /\ Right(f) /\ Same(f)
    BY <1>1, <2>1, TilesStay DEF WhileLoading
  <2>3. Quiet(f)' /\ Right(f)'
    BY <1>1, <1>4, <2>2 DEF Right, Visible, Same
  <2>4. \A i \in DOMAIN notes' : ~News(i, f)'
    BY <1>1, <2>1 DEF WhileLoading, News, Mentions
  <2>5. AfterLoading(f)'
    BY <2>3, <2>4 DEF AfterLoading
  <2> QED
    BY <1>5, <2>5 DEF ItemInv
<1> QED
  BY <1>2, <1>6 DEF ViewInv

LEMMA DestroyedView ==
  ASSUME GroupInv, RequestsInv, ViewInv, NEW id \in Ids, AnswerDestroyed(id)
  PROVE  RequestsInv' /\ ViewInv'
<1>1. /\ ui \in {"idle", "quit"} /\ ui' \in {ui, "crashed"}
      /\ sOutstandingRequests[id] # group \/ ui = "quit"
      /\ UNCHANGED <<folderIsDesktop, folder, due, tainted, group, notes, mTiles, loaded>> /\ Answer(id) /\ LoaderInv
  BY InvParts DEF AnswerDestroyed, shellVars, viewVars
<1>2. /\ RequestsInv' /\ ~InFlight(id)'
      /\ \A other \in Ids \ {id} : SameRequest(other) /\ thread'[other] = thread[other]
  BY <1>1, RequestAnswered
<1>3. ASSUME Live', NEW f \in Items \ tainted' PROVE ItemInv(f)'
  <2>1. ui = "idle" /\ ui' = "idle" /\ ~InFlight(id) /\ ItemInv(f)
    BY <1>1, <1>3 DEF Live, InFlight, ViewInv
  <2>2. ~Loads(id) /\ \A x : ~Brings(id, x)
    BY <2>1 DEF Loads, Brings
  <2>3. /\ \A any \in Ids : Loads(any)' <=> Loads(any)
        /\ \A x : \A any \in Ids : Brings(any, x)' <=> Brings(any, x)
    BY <1>2, <2>2, OthersAnswered
  <2>4. \A x : SameItem(x)
    BY <1>1, <2>3, TilesStay DEF SameItem
  <2>5. (Response(f) => Response(f)') /\ (Handed(f)' <=> Handed(f))
    BY <1>1, <1>2, <2>1, <2>2, <2>3, ResponseStays DEF Handed
  <2> QED
    BY <1>1, <2>1, <2>3, <2>4, <2>5, NotesStay, ItemStays
<1> QED
  BY <1>2, <1>3 DEF ViewInv

LEMMA WorkersKeepView ==
  ASSUME GroupInv, RequestsInv, ViewInv
  PROVE  /\ Workers => RequestsInv' /\ ViewInv'
         /\ \A id \in Ids : EnumerationFails(id) => RequestsInv' /\ ViewInv'
<1>1. LoaderInv /\ group \in 0..MaxGroups /\ (ui # "start" => group # 0) /\ folder \subseteq Items
  BY InvParts DEF RestOK
\* What the worker w does with the listing it gets.
<1>2. ASSUME NEW listing \in SUBSET Items, NEW w \in Ids, WorkerStep(w) \/ EnumObjects(w, listing),
             UNCHANGED <<group, ui, loaded, notes, mTiles, folderIsDesktop, folder, due, tainted>>,
             \A f \in Items \ tainted' :
               Live /\ Loads(w) /\ thread[w].pc = "started" => (f \in listing \ (Hidden \cup Unreadable) <=> Visible(f))
      PROVE  RequestsInv' /\ ViewInv'
  <2>1. /\ RequestsInv'
        /\ group # 0 =>
              /\ \A id \in Ids : SameRequest(id)
              /\ \A id \in Ids, f \in Items : Loads(id) =>
                   \/ thread'[id].pc = "started"
                   \/ thread[id].pc = "started" /\ (Listed(id, f)' <=> f \in listing \ (Hidden \cup Unreadable))
                   \/ thread[id].pc # "started" /\ (Listed(id, f)' <=> Listed(id, f))
    BY <1>1, <1>2, WorkersWork
  <2>2. \A id \in Ids \ {w} : thread'[id] = thread[id]
    BY <1>1, <1>2 DEF LoaderInv, LoaderTypeOK, WorkerStep, LoadNextItem, FinishLoading, CheckAbort,
                      DeleteAbort, EnumObjects
  <2>4. thread'[w].pc # "started"
    <3>1. thread \in [Ids -> ThreadState]
      BY <1>1 DEF LoaderInv, LoaderTypeOK
    <3>2. DOMAIN thread = Ids /\ DOMAIN thread[w] = {"pc", "kind", "skip", "todo", "items"}
      BY <3>1 DEF ThreadState
    <3>3. CASE EnumObjects(w, listing) \/ LoadNextItem(w)
      BY <3>2, <3>3 DEF EnumObjects, LoadNextItem
    <3>4. CASE FinishLoading(w) \/ CheckAbort(w) \/ DeleteAbort(w)
      BY <3>2, <3>4 DEF FinishLoading, CheckAbort, DeleteAbort
    <3> QED
      BY <1>2, <3>3, <3>4 DEF WorkerStep
  <2>3. ASSUME Live', NEW f \in Items \ tainted' PROVE ItemInv(f)'
    <3>1. Live /\ group # 0 /\ ItemInv(f)
      BY <1>1, <1>2, <2>3 DEF Live, ViewInv
    <3>2. (\A x : SameItem(x)) /\ \A id \in Ids : Loads(id)' <=> Loads(id)
      BY <1>2, <2>1, <3>1, TilesStay, ItemsStay
    <3>3. Response(f) => Response(f)'
      <4> SUFFICES ASSUME Response(f), NEW id \in Ids, Loads(id)'
                   PROVE  IF thread'[id].pc = "started"
                            THEN f \in folder' \ (Hidden \cup Unreadable) <=> Visible(f)'
                            ELSE Listed(id, f)' <=> Visible(f)'
        BY DEF Response
      <4>1. Loads(id) /\ (Visible(f)' <=> Visible(f))
        BY <1>2, <3>2 DEF Visible
      <4>2. CASE thread'[id].pc = "started"
        <5>1. thread[id].pc = "started"
          BY <2>2, <2>4, <4>2
        <5> QED
          BY <1>2, <4>1, <4>2, <5>1 DEF Response
      <4>3. CASE thread[id].pc # "started" /\ thread'[id].pc # "started"
        BY <2>1, <2>3, <3>1, <4>1, <4>3 DEF Response
      <4>4. CASE thread[id].pc = "started" /\ thread'[id].pc # "started"
        <5>1. id = w
          BY <2>2, <4>4
        <5> QED
          BY <1>2, <2>1, <2>3, <3>1, <4>1, <4>4, <5>1
      <4> QED
        BY <4>2, <4>3, <4>4
    <3>4. Handed(f)' <=> Handed(f)
      BY <1>2 DEF Handed
    <3> QED
      BY <1>2, <3>1, <3>2, <3>3, <3>4, NotesStay, ItemStays
  <2> QED
    BY <2>1, <2>3 DEF ViewInv
<1>3. ASSUME Workers PROVE RequestsInv' /\ ViewInv'
  <2>1. PICK w \in Ids : WorkerStep(w) \/ EnumObjects(w, folder)
    BY <1>3 DEF Workers
  <2>2. UNCHANGED <<group, ui, loaded, notes, mTiles, folderIsDesktop, folder, due, tainted>>
    BY <1>3 DEF Workers, viewVars, shellVars, uiVars
  <2>3. ASSUME NEW f \in Items \ tainted', Live /\ Loads(w) /\ thread[w].pc = "started"
        PROVE  f \in folder \ (Hidden \cup Unreadable) <=> Visible(f)
    <3>1. ItemInv(f)
      BY <2>2, <2>3 DEF ViewInv
    <3>2. Response(f)
      BY <2>3, <3>1 DEF ItemInv, Loading, WhileLoading
    <3> QED
      BY <2>3, <3>2 DEF Response
  <2> QED
    BY <1>1, <1>2, <2>1, <2>2, <2>3
\* The folder of the living group cannot be enumerated.
<1>4. ASSUME NEW w \in Ids, EnumerationFails(w) PROVE RequestsInv' /\ ViewInv'
  <2>1. /\ EnumObjects(w, {})
        /\ UNCHANGED <<group, ui, loaded, notes, mTiles, folderIsDesktop, folder, tainted>>
        /\ due' = IF sOutstandingRequests[w] = group THEN {} ELSE due
    BY <1>4 DEF EnumerationFails, viewVars, uiVars
  <2>2. thread[w].pc = "started" /\ thread'[w].pc = "loading"
    BY <1>1, <2>1 DEF EnumObjects, LoaderInv, LoaderTypeOK
  <2>3. CASE sOutstandingRequests[w] # group
    <3>1. ~Loads(w)
      BY <2>3 DEF Loads, InFlight
    <3>2. {} \in SUBSET Items
      OBVIOUS
    <3> QED
      BY <1>2, <2>1, <2>3, <3>1, <3>2
  <2>4. CASE sOutstandingRequests[w] = group
    <3>1. {} \in SUBSET Items
      OBVIOUS
    <3>2. /\ RequestsInv'
          /\ group # 0 =>
               /\ \A id \in Ids : SameRequest(id)
               /\ \A id \in Ids, f \in Items : Loads(id) =>
                    \/ thread'[id].pc = "started"
                    \/ thread[id].pc = "started" /\ (Listed(id, f)' <=> f \in {} \ (Hidden \cup Unreadable))
                    \/ thread[id].pc # "started" /\ (Listed(id, f)' <=> Listed(id, f))
      BY <1>1, <2>1, <3>1, WorkersWork
    <3>3. ASSUME Live', NEW f \in Items \ tainted' PROVE ItemInv(f)'
      <4>1. Live /\ group # 0 /\ ItemInv(f)
        BY <1>1, <2>1, <3>3 DEF Live, ViewInv
      <4>2. InFlight(w) /\ Loads(w) /\ Loading
        BY <2>2, <2>4, <4>1 DEF InFlight, RequestsInv, Shape, Loads, Loading
      <4>3. (\A x : SameItem(x)) /\ \A id \in Ids : Loads(id)' <=> Loads(id)
        BY <2>1, <3>2, <4>1, TilesStay, ItemsStay
      <4>4. ui # "delivering"
        <5> SUFFICES ASSUME NEW id \in Ids, Delivering(id) PROVE FALSE
          BY DEF RequestsInv
        <5>1. Loads(id)
          BY DEF Loads, InFlight, Delivering
        <5>2. id = w
          BY <4>1, <4>2, <5>1 DEF RequestsInv
        <5> QED
          BY <2>2, <5>2 DEF Delivering
      <4>5. WhileLoading(f)
        BY <4>1, <4>2 DEF ItemInv
      <4>6. Response(f)'
        <5>1. \A id \in Ids : Loads(id)' => id = w
          BY <4>1, <4>2, <4>3 DEF RequestsInv
        <5>2. ~Listed(w, f)'
          BY <2>2, <3>2, <4>1, <4>2
        <5>3. ~Visible(f)'
          BY <2>1, <2>4 DEF Visible
        <5> QED
          BY <2>2, <5>1, <5>2, <5>3 DEF Response
      <4>7. None(f)' /\ Quiet(f)' /\ Loading'
        BY <4>2, <4>3, <4>4, <4>5, QuietStays DEF WhileLoading, Loading
      <4>8. \A i \in DOMAIN notes' : ~News(i, f)'
        BY <2>1, <4>5 DEF WhileLoading, News, Mentions
      <4>9. WhileLoading(f)'
        BY <2>1, <4>4, <4>6, <4>7, <4>8 DEF WhileLoading
      <4> QED
        BY <4>7, <4>9 DEF ItemInv
    <3> QED
      BY <3>2, <3>3 DEF ViewInv
  <2> QED
    BY <2>3, <2>4
<1> QED
  BY <1>3, <1>4

LEMMA ViewStart == GroupInit => RequestsInv /\ ViewInv
<1> SUFFICES ASSUME GroupInit PROVE RequestsInv /\ ViewInv
  OBVIOUS
<1>1. ui = "start" /\ group = 0 /\ sOutstandingRequests = [id \in Ids |-> NoHandler]
  BY DEF GroupInit, LoaderInit
<1> QED
  BY <1>1 DEF RequestsInv, ViewInv, Live

LEMMA ViewStep == GroupInv /\ RequestsInv /\ ViewInv /\ [Next]_vars => RequestsInv' /\ ViewInv'
<1> SUFFICES ASSUME GroupInv, RequestsInv, ViewInv, [Next]_vars
             PROVE  RequestsInv' /\ ViewInv'
  OBVIOUS
<1>1. CASE UI
  BY <1>1, NewGroupView, LifeCycleKeepsView, NotifyKeepsView, ItemCompletedView, CompletedView,
     LoadedView, ReturnsView, DestroyedView DEF UI, CreateGroup, Refresh
<1>2. CASE Workers \/ \E id \in Ids : EnumerationFails(id)
  BY <1>2, WorkersKeepView
<1>3. CASE Shell
  BY <1>3, ShellKeepsView
<1>4. CASE UNCHANGED vars
  <2>1. UNCHANGED <<loaderVars, group, loaded, folderIsDesktop, folder, due, tainted, notes, ui, mTiles>>
    BY <1>4 DEF vars, viewVars, shellVars, uiVars
  <2> QED
    BY <2>1, TilesStay, NotesStay, LoaderStaysView DEF Live
<1> QED
  BY <1>1, <1>2, <1>3, <1>4 DEF Next

\* Whatever goes on with the other items, an item none of whose changes raced has,
\* once its news have arrived, exactly one tile if it is due by the rules of the code
\* (which let some hidden items in, see AccurateView) and none otherwise: for any
\* number of items, changes, requests and lives of the group (SetFolder, FolderLoaded
\* and HandleChangeNotify together).
THEOREM ViewIsAccurate == Spec => []AccurateView
<1>1. GroupInv /\ RequestsInv /\ ViewInv => AccurateView
  <2> SUFFICES ASSUME GroupInv, RequestsInv, ViewInv,
                      NEW f \in Items \ tainted, ui = "idle", Settled(f)
               PROVE  Cardinality(TilesOf(f)) = (IF f \in due THEN 1 ELSE 0)
    BY DEF AccurateView
  <2>1. Right(f)
    BY SettledIs DEF ViewInv, Live
  <2>2. CASE f \in due
    <3>1. PICK t \in mTiles : TilesOf(f) = {t}
      BY <2>1, <2>2 DEF Right, Visible, One
    <3> QED
      BY <2>2, <3>1, FS_Singleton
  <2>3. CASE f \notin due
    BY <2>1, <2>3, FS_EmptySet DEF Right, Visible, None
  <2> QED
    BY <2>2, <2>3
<1> QED
  BY <1>1, GroupStart, GroupStep, ViewStart, ViewStep, PTL DEF Spec
=============================================================================
