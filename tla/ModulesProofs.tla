---------------------------- MODULE ModulesProofs -----------------------------
(***************************************************************************)
(* What is proved of two of the modules of the desktop: of the buttons of  *)
(* a taskbar (Painting) and of the alt-tab window (TaskSwitcher); and of   *)
(* the modules together (MCModules), that they stay within their types.    *)
(*                                                                         *)
(* Painting.  Nothing is painted with the brushes of a render target that  *)
(* was released, for every set of buttons and every order of events.       *)
(* mDeviceRefCount does not count the windows that use the brushes, but it *)
(* never counts too many: it is at most the number of buttons while there  *)
(* is a target, and at most zero while there is none.  This is enough, as  *)
(* the target goes away together with a call of DiscardDeviceResources for *)
(* every button, and brushes exist only while the count is positive.       *)
(* Every button looks as it is: what the recursive calls of ActivateState  *)
(* and ClearState return is shown state by state, from the last one down,  *)
(* as a call for a state makes calls for later ones only.                  *)
(*                                                                         *)
(* TaskSwitcher.  The switcher is consistent, and switches to the window   *)
(* whose name it shows, for every set of windows.  While it is shown its   *)
(* text names the hovered thumbnail or else the selected one, and both are *)
(* among the thumbnails; while it is hidden nothing can be relied on but   *)
(* that there are no thumbnails, no timer and no preview.  Shown without a *)
(* desktop and without windows it has no thumbnails either, and keeps what *)
(* it named: it names nothing then, and switches to nothing.               *)
(* For the types the thumbnails have to be few: the windows are listed     *)
(* without repetitions, so that there are at most as many thumbnails as    *)
(* windows and one for the desktop.                                        *)
(***************************************************************************)
EXTENDS MCModules, TrayProofs, PopupsProofs, FiniteSetTheorems, WellFoundedInduction, TLAPS

\* How many shares in the brushes there can be.
Shares == IF Top \in mRenderTarget THEN Cardinality(buttons) ELSE 0

\* The count and the brushes r, if there are at most n shares.
Fits(r, n) ==
  /\ r.count \in Int /\ r.count <= n
  /\ r.brushes \in {"none", "present"}
  /\ r.brushes = "present" => r.count >= 1

TargetsFit ==
  /\ buttons \in SUBSET Buttons /\ IsFiniteSet(buttons)
  /\ mRenderTarget = IF Top \in mRenderTarget THEN {Top} \cup buttons ELSE {}
  /\ onTopLevel \in BOOLEAN
  /\ ~onTopLevel => mRenderTarget = {}

PaintInv == TargetsFit /\ Fits(Resources, Shares)

----------------------------------------------------------------------------
(* The count.                                                               *)

LEMMA ReleasedFits ==
  ASSUME NEW n \in Nat, NEW k \in Nat, NEW r, Fits(r, n)
  PROVE  /\ Fits(Released(k, r), n - k)
         /\ n = 0 => Fits(Released(k, r), 0)
<1>1. /\ Released(k, r).count = r.count - k
      /\ Released(k, r).brushes = IF r.count \in 1..k THEN "none" ELSE r.brushes
  BY DEF Released
<1> QED
  BY <1>1 DEF Fits

LEMMA AcquiredFits ==
  ASSUME NEW n \in Nat, NEW k \in Nat, NEW r, Fits(r, n)
  PROVE  Fits(Acquired(k, r), n + k)
<1>1. /\ Acquired(k, r).count = r.count + k
      /\ Acquired(k, r).brushes = IF -r.count \in 0..(k - 1) THEN "present" ELSE r.brushes
  BY DEF Acquired
<1> QED
  BY <1>1 DEF Fits

\* All buttons give their shares back with the target: no brushes remain.
LEMMA DiscardedFits ==
  ASSUME NEW c \in Int, NEW b \in {"none", "present"}, IsFiniteSet(buttons),
         Fits([count |-> c, brushes |-> b], Cardinality(buttons))
  PROVE  Fits(DiscardTarget([count |-> c, brushes |-> b]), 0)
<1> DEFINE n == Cardinality(buttons)
           o == Outdated([count |-> c, brushes |-> b])
<1>1. n \in Nat
  BY FS_CardinalityType
<1>2. o.count = c /\ o.brushes = IF b = "none" THEN "none" ELSE "past"
  BY DEF Outdated
<1>3. /\ Released(n, o).count = o.count - n
      /\ Released(n, o).brushes = IF o.count \in 1..n THEN "none" ELSE o.brushes
  BY DEF Released
<1>4. c <= n /\ (b = "present" => c >= 1)
  BY DEF Fits
<1> HIDE DEF n, o
<1>5. Fits(Released(n, o), 0)
  BY <1>1, <1>2, <1>3, <1>4 DEF Fits
<1> QED
  BY <1>5 DEF n, o, DiscardTarget

----------------------------------------------------------------------------
(* The steps.                                                               *)

LEMMA PaintInvInit == PaintInit => PaintInv
<1> SUFFICES ASSUME PaintInit PROVE PaintInv
  OBVIOUS
<1>1. IsFiniteSet(buttons) /\ Shares = 0
  BY FS_EmptySet DEF PaintInit, Shares
<1>2. Fits(Resources, 0)
  BY DEF PaintInit, Fits, Resources
<1>3. TargetsFit
  BY <1>1 DEF PaintInit, TargetsFit
<1> QED
  BY <1>1, <1>2, <1>3 DEF PaintInv

LEMMA AddButtonKeeps ==
  ASSUME PaintInv, NEW b \in Buttons, AddButton(b)
  PROVE  PaintInv'
<1> USE DEF PaintInv
<1>1. /\ b \notin buttons /\ buttons' = buttons \cup {b} /\ UNCHANGED onTopLevel
      /\ IF Top \in mRenderTarget
           THEN /\ mRenderTarget' = mRenderTarget \cup {b}
                /\ SetResources(Acquired(1, Resources))
           ELSE UNCHANGED <<mRenderTarget, mDeviceRefCount, brushes>>
  BY DEF AddButton
<1>2. /\ IsFiniteSet(buttons') /\ Cardinality(buttons) \in Nat
      /\ Cardinality(buttons') = Cardinality(buttons) + 1
  BY <1>1, FS_AddElement, FS_CardinalityType DEF TargetsFit
<1>3. CASE Top \in mRenderTarget
  <2>1. Top \in mRenderTarget' /\ Shares' = Shares + 1 /\ Shares \in Nat
    BY <1>1, <1>2, <1>3 DEF Shares
  <2>2. Resources'.count = Acquired(1, Resources).count
        /\ Resources'.brushes = Acquired(1, Resources).brushes
    BY <1>1, <1>3 DEF SetResources, Resources
  <2>3. Fits(Resources', Shares')
    BY <2>1, <2>2, AcquiredFits DEF Fits
  <2>4. TargetsFit'
    BY <1>1, <1>2, <1>3, <2>1 DEF TargetsFit
  <2> QED
    BY <2>3, <2>4
<1>4. CASE Top \notin mRenderTarget
  <2>1. Shares' = Shares /\ Resources' = Resources
    BY <1>1, <1>4 DEF Shares, Resources
  <2>2. TargetsFit'
    BY <1>1, <1>2, <1>4 DEF TargetsFit
  <2> QED
    BY <2>1, <2>2
<1> QED
  BY <1>3, <1>4

LEMMA RemoveButtonKeeps ==
  ASSUME PaintInv, NEW b \in Buttons, RemoveButton(b)
  PROVE  PaintInv'
<1> USE PaintingAssumption DEF PaintInv
<1>1. /\ b \in buttons /\ buttons' = buttons \ {b} /\ UNCHANGED onTopLevel
      /\ mRenderTarget' = mRenderTarget \ {b}
      /\ SetResources(Released(1, Resources))
  BY DEF RemoveButton
<1>2. /\ IsFiniteSet(buttons') /\ Cardinality(buttons) \in Nat
      /\ Cardinality(buttons') = Cardinality(buttons) - 1
  BY <1>1, FS_RemoveElement, FS_CardinalityType DEF TargetsFit
<1>3. b # Top
  BY DEF PaintingAssumption
<1>4. TargetsFit'
  BY <1>1, <1>2, <1>3 DEF TargetsFit
<1>5. /\ Resources'.count = Released(1, Resources).count
      /\ Resources'.brushes = Released(1, Resources).brushes
  BY <1>1 DEF SetResources, Resources
<1>6. CASE Top \in mRenderTarget
  <2>1. Shares' = Shares - 1 /\ Shares \in Nat
    BY <1>1, <1>2, <1>3, <1>6 DEF Shares
  <2> QED
    BY <1>4, <1>5, <2>1, ReleasedFits DEF Fits
<1>7. CASE Top \notin mRenderTarget
  <2>1. Shares' = 0 /\ Shares = 0
    BY <1>1, <1>7 DEF Shares
  <2> QED
    BY <1>4, <1>5, <2>1, ReleasedFits DEF Fits
<1> QED
  BY <1>6, <1>7

\* What SetResources makes of a result of CreateTarget fits its targets.
LEMMA CreatedFits ==
  ASSUME PaintInv, mRenderTarget = {}, NEW created \in CreateTarget
  PROVE  /\ created.targets \in {{}, {Top} \cup buttons}
         /\ created.resources.count \in Int
         /\ created.resources.brushes \in {"none", "present"}
         /\ created.resources = [count |-> created.resources.count,
                                 brushes |-> created.resources.brushes]
         /\ Fits(created.resources, Cardinality(buttons))
         /\ created.targets = {} => Fits(created.resources, 0)
<1> USE DEF PaintInv
<1> DEFINE n == Cardinality(buttons)
<1>1. n \in Nat
  BY FS_CardinalityType DEF TargetsFit
<1>2. Shares = 0 /\ buttons \ mRenderTarget = buttons
  BY DEF Shares
<1>3. Fits(Resources, 0) /\ Fits(Resources, n)
  BY <1>1, <1>2 DEF Fits
<1>4. Fits(Acquired(n, Resources), n)
  BY <1>1, <1>3, AcquiredFits
<1>5. \/ created = [targets |-> {}, resources |-> Resources]
      \/ created = [targets |-> {Top} \cup buttons, resources |-> Acquired(n, Resources)]
  BY <1>2 DEF CreateTarget
<1> HIDE DEF n
<1>6. CASE created = [targets |-> {}, resources |-> Resources]
  <2>1. created.targets = {} /\ created.resources = Resources
    BY <1>6
  <2>2. Resources = [count |-> Resources.count, brushes |-> Resources.brushes]
    BY DEF Resources
  <2> QED
    BY <1>3, <2>1, <2>2 DEF Fits, n
<1>7. CASE created = [targets |-> {Top} \cup buttons, resources |-> Acquired(n, Resources)]
  <2>1. created.targets = {Top} \cup buttons /\ created.resources = Acquired(n, Resources)
    BY <1>7
  <2>2. Acquired(n, Resources) = [count |-> Acquired(n, Resources).count,
                                  brushes |-> Acquired(n, Resources).brushes]
    BY DEF Acquired
  <2> QED
    BY <1>4, <2>1, <2>2 DEF Fits, n
<1> QED
  BY <1>5, <1>6, <1>7

\* The targets are replaced by those of a top-level window that has one.
LEMMA TargetsSet ==
  ASSUME TargetsFit, UNCHANGED buttons, onTopLevel' \in BOOLEAN, NEW r,
         mRenderTarget' \in {{}, {Top} \cup buttons},
         ~onTopLevel' => mRenderTarget' = {},
         Fits(r, IF mRenderTarget' = {} THEN 0 ELSE Cardinality(buttons)), SetResources(r)
  PROVE  PaintInv'
<1>1. Resources'.count = r.count /\ Resources'.brushes = r.brushes
  BY DEF SetResources, Resources
<1>2. Shares' = IF mRenderTarget' = {} THEN 0 ELSE Cardinality(buttons)
  BY DEF Shares
<1>3. Fits(Resources', Shares')
  BY <1>1, <1>2 DEF Fits
<1>4. TargetsFit'
  BY DEF TargetsFit
<1> QED
  BY <1>3, <1>4 DEF PaintInv

LEMMA PaintKeeps ==
  ASSUME PaintInv, Paint
  PROVE  PaintInv'
<1> USE DEF PaintInv
<1> DEFINE kept == [targets |-> mRenderTarget, resources |-> Resources]
<1>1. PICK created \in IF Top \in mRenderTarget THEN {kept} ELSE CreateTarget :
         \/ mRenderTarget' = created.targets /\ SetResources(created.resources)
         \/ /\ mRenderTarget' = {}
            /\ SetResources(DiscardTarget(created.resources))
  BY DEF Paint
<1>2. UNCHANGED <<buttons, onTopLevel>> /\ onTopLevel = TRUE
  BY DEF Paint, TargetsFit
<1>3. /\ created.targets \in {{}, {Top} \cup buttons}
      /\ created.resources.count \in Int
      /\ created.resources.brushes \in {"none", "present"}
      /\ created.resources = [count |-> created.resources.count,
                              brushes |-> created.resources.brushes]
      /\ Fits(created.resources, Cardinality(buttons))
      /\ created.targets = {} => Fits(created.resources, 0)
  <2>1. CASE Top \in mRenderTarget
    <3>1. created.targets = mRenderTarget /\ created.resources = Resources
      BY <1>1, <2>1
    <3>2. mRenderTarget = {Top} \cup buttons /\ mRenderTarget # {}
      BY <2>1 DEF TargetsFit
    <3>3. Fits(Resources, Cardinality(buttons))
      BY <2>1 DEF Shares
    <3>4. Resources = [count |-> Resources.count, brushes |-> Resources.brushes]
      BY DEF Resources
    <3> QED
      BY <3>1, <3>2, <3>3, <3>4 DEF Fits
  <2>2. CASE Top \notin mRenderTarget
    <3>1. mRenderTarget = {} /\ created \in CreateTarget
      BY <1>1, <2>2 DEF TargetsFit
    <3> QED
      BY <3>1, CreatedFits
  <2> QED
    BY <2>1, <2>2
<1>4. Fits(DiscardTarget(created.resources), 0)
  BY <1>3, DiscardedFits DEF TargetsFit
<1>5. CASE mRenderTarget' = created.targets /\ SetResources(created.resources)
  <2>1. Fits(created.resources, IF mRenderTarget' = {} THEN 0 ELSE Cardinality(buttons))
    BY <1>3, <1>5
  <2> QED
    BY <1>2, <1>3, <1>5, <2>1, TargetsSet
<1>6. CASE mRenderTarget' = {} /\ SetResources(DiscardTarget(created.resources))
  BY <1>2, <1>4, <1>6, TargetsSet
<1> QED
  BY <1>1, <1>5, <1>6

LEMMA GoneKeeps ==
  ASSUME PaintInv, TopParentGone
  PROVE  PaintInv'
<1> USE DEF PaintInv
<1>1. /\ onTopLevel' = FALSE /\ mRenderTarget' = {} /\ UNCHANGED buttons
      /\ SetResources(DiscardTarget(Resources))
  BY DEF TopParentGone
<1>2. Cardinality(buttons) \in Nat
  BY FS_CardinalityType DEF TargetsFit
<1>3. Fits(Resources, Cardinality(buttons))
  BY <1>2 DEF Shares, Fits
<1>4. /\ mDeviceRefCount \in Int /\ brushes \in {"none", "present"}
      /\ Resources = [count |-> mDeviceRefCount, brushes |-> brushes]
  BY <1>3 DEF Fits, Resources
<1>5. Fits(DiscardTarget(Resources), 0)
  BY <1>3, <1>4, DiscardedFits DEF TargetsFit
<1>6. /\ mRenderTarget' \in {{}, {Top} \cup buttons}
      /\ onTopLevel' \in BOOLEAN
  BY <1>1
<1>7. Fits(DiscardTarget(Resources), IF mRenderTarget' = {} THEN 0 ELSE Cardinality(buttons))
  BY <1>1, <1>5
<1> QED
  BY <1>1, <1>6, <1>7, TargetsSet

LEMMA BackKeeps ==
  ASSUME PaintInv, TopParentBack
  PROVE  PaintInv'
<1> USE DEF PaintInv
<1>1. PICK created \in CreateTarget :
        mRenderTarget' = created.targets /\ SetResources(created.resources)
  BY DEF TopParentBack
<1>2. onTopLevel' = TRUE /\ UNCHANGED buttons /\ mRenderTarget = {}
  BY DEF TopParentBack, TargetsFit
<1>3. /\ mRenderTarget' \in {{}, {Top} \cup buttons}
      /\ Fits(created.resources, IF mRenderTarget' = {} THEN 0 ELSE Cardinality(buttons))
  BY <1>1, <1>2, CreatedFits
<1> QED
  BY <1>1, <1>2, <1>3, TargetsSet

LEMMA PaintInvNext == PaintInv /\ [PaintNext]_paintVars => PaintInv'
<1> SUFFICES ASSUME PaintInv, [PaintNext]_paintVars
             PROVE  PaintInv'
  OBVIOUS
<1>1. CASE UNCHANGED <<buttons, deviceVars>>
  BY <1>1 DEF deviceVars, PaintInv, TargetsFit, Fits, Resources, Shares
<1>2. CASE \E b \in Buttons : Activate(b) \/ ChangeState(b)
  <2>1. UNCHANGED <<buttons, deviceVars>>
    BY <1>2 DEF Activate, ChangeState
  <2> QED
    BY <1>1, <2>1
<1>3. CASE \E b \in Buttons : AddButton(b)
  BY <1>3, AddButtonKeeps
<1>4. CASE \E b \in Buttons : RemoveButton(b)
  BY <1>4, RemoveButtonKeeps
<1>5. CASE Paint
  BY <1>5, PaintKeeps
<1>6. CASE TopParentGone
  BY <1>6, GoneKeeps
<1>7. CASE TopParentBack
  BY <1>7, BackKeeps
<1> QED
  BY <1>1, <1>2, <1>3, <1>4, <1>5, <1>6, <1>7 DEF PaintNext, paintVars

----------------------------------------------------------------------------
(* The theorem.                                                             *)

LEMMA PaintInvAlways == PaintSpec => []PaintInv
  BY PaintInvInit, PaintInvNext, PTL DEF PaintSpec

\* No window is ever painted with brushes of a render target that is gone,
\* however often the device, the top-level window or a button is lost in
\* between: this is what would make Direct2D fail with every frame
\* (DiscardDeviceResources and ReCreateDeviceResources).
THEOREM NoPastBrushes == PaintSpec => []BrushesOfTheTarget
<1>1. PaintInv => BrushesOfTheTarget
  <2> SUFFICES ASSUME PaintInv PROVE BrushesOfTheTarget
    OBVIOUS
  <2>1. /\ brushes \in {"none", "present"}
        /\ brushes = "present" => mDeviceRefCount >= 1
        /\ mDeviceRefCount \in Int /\ mDeviceRefCount <= Shares
    BY DEF PaintInv, Fits, Resources
  <2>2. brushes = "present" => Top \in mRenderTarget
    BY <2>1 DEF Shares
  <2> QED
    BY <2>1, <2>2 DEF BrushesOfTheTarget
<1> QED
  BY <1>1, PaintInvAlways, PTL

----------------------------------------------------------------------------
(* The switcher: sequences of windows.                                      *)

Thumbnails == Programs \cup {Desktop}

LEMMA RemoveAtIsSeq ==
  ASSUME NEW S, NEW list \in Seq(S), NEW k \in DOMAIN list
  PROVE  RemoveAt(list, k) \in Seq(S)
<1>1. k \in 1..Len(list) /\ Len(list) \in Nat
  OBVIOUS
<1>2. SubSeq(list, 1, k - 1) \in Seq(S) /\ SubSeq(list, k + 1, Len(list)) \in Seq(S)
  BY <1>1
<1> QED
  BY <1>2 DEF RemoveAt

LEMMA ShownIsSeq ==
  ASSUME NEW list \in Seq(Programs)
  PROVE  /\ list \in Seq(Thumbnails) /\ Append(list, Desktop) \in Seq(Thumbnails)
         /\ Append(list, Desktop) # <<>>
  BY DEF Thumbnails

\* The selection stays among the thumbnails, around both ends.
LEMMA MovedStays ==
  ASSUME NEW n \in Nat, NEW i \in 1..n, NEW delta \in {1, -1}
  PROVE  Moved(i, delta, n) \in 1..n
  BY DEF Moved

----------------------------------------------------------------------------
(* The invariant of the switcher.                                           *)

SwitcherLists ==
  /\ topLevel \in Seq(Programs) /\ mShownWindows \in Seq(Thumbnails)
  /\ switcherVisible \in BOOLEAN /\ mPeekTimer \in BOOLEAN /\ mPeeking \in BOOLEAN
  /\ gDesktopWindow \in {Desktop, Nothing}

\* The text is the name of the window that would be switched to, if there is one.
NamesItsTarget ==
  switcherVisible /\ mShownWindows # <<>>
    => caption = Target(mShownWindows, mSelectedWindow, mHoveredThumbnail)

SwitcherInv == SwitcherLists /\ SwitcherConsistent /\ NamesItsTarget

LEMMA SwitcherInvInit == SwitcherInit => SwitcherInv
<1> SUFFICES ASSUME SwitcherInit PROVE SwitcherInv
  OBVIOUS
<1>1. /\ topLevel = <<>> /\ mShownWindows = <<>> /\ livePreview = Nothing
      /\ ~switcherVisible /\ ~mPeekTimer /\ ~mPeeking
      /\ switcherVisible \in BOOLEAN /\ mPeekTimer \in BOOLEAN /\ mPeeking \in BOOLEAN
      /\ gDesktopWindow \in {Desktop, Nothing}
  BY DEF SwitcherInit
<1>2. SwitcherLists
  BY <1>1 DEF SwitcherLists
<1>3. SwitcherConsistent /\ NamesItsTarget
  BY <1>1 DEF SwitcherConsistent, NamesItsTarget
<1> QED
  BY <1>2, <1>3 DEF SwitcherInv

\* A step that changes the selection, or the thumbnail under the mouse.
LEMMA RetargetKeeps ==
  ASSUME NEW i, NEW h, Retarget(mShownWindows', i, h),
         SwitcherLists', switcherVisible',
         i \in DOMAIN mShownWindows', h \in {0} \cup DOMAIN mShownWindows',
         selectedStates' = {i}, mPeekTimer' = ~mPeeking',
         livePreview \in Range(mShownWindows') \cup {Nothing} \/ mPeeking'
  PROVE  SwitcherInv'
<1>1. /\ mSelectedWindow' = i /\ mHoveredThumbnail' = h
      /\ caption' = Target(mShownWindows', i, h)
      /\ livePreview' = IF mPeeking' THEN Target(mShownWindows', i, h) ELSE livePreview
  BY DEF Retarget
<1>2. Target(mShownWindows', i, h) \in Range(mShownWindows')
  BY DEF Target, Range, SwitcherLists
<1>3. mShownWindows' # <<>>
  BY DEF SwitcherLists
<1> QED
  BY <1>1, <1>2, <1>3 DEF SwitcherInv, SwitcherConsistent, NamesItsTarget

\* A step that moves the selection of a switcher with thumbnails or without.
LEMMA MoveKeeps ==
  ASSUME NEW i, NEW delta \in {1, -1}, NEW selected,
         MoveSelection(mShownWindows', i, delta, selected),
         SwitcherLists', switcherVisible', mPeekTimer' = ~mPeeking',
         mShownWindows' # <<>> =>
           /\ i \in DOMAIN mShownWindows' /\ selected \subseteq {i}
           /\ livePreview \in Range(mShownWindows') \cup {Nothing},
         mShownWindows' = <<>> =>
           /\ gDesktopWindow' = Nothing /\ i = 1 /\ selected = {}
           /\ mPeekTimer' => livePreview = Nothing
  PROVE  SwitcherInv'
<1>1. CASE mShownWindows' = <<>>
  <2>1. /\ mSelectedWindow' = 1 /\ mHoveredThumbnail' = 0 /\ selectedStates' = {}
        /\ livePreview' = livePreview
    BY <1>1 DEF MoveSelection
  <2> QED
    BY <1>1, <2>1 DEF SwitcherInv, SwitcherConsistent, NamesItsTarget
<1>2. CASE mShownWindows' # <<>>
  <2> DEFINE next == Moved(i, delta, Len(mShownWindows'))
  <2>1. selectedStates' = (selected \ {i}) \cup {next} /\ Retarget(mShownWindows', next, 0)
    BY <1>2 DEF MoveSelection
  <2>2. next \in DOMAIN mShownWindows'
    <3>1. /\ Len(mShownWindows') \in Nat /\ i \in 1..Len(mShownWindows')
          /\ DOMAIN mShownWindows' = 1..Len(mShownWindows')
      BY <1>2 DEF SwitcherLists
    <3> QED
      BY <3>1, MovedStays
  <2> HIDE DEF next
  <2>3. selectedStates' = {next}
    BY <1>2, <2>1
  <2> QED
    BY <1>2, <2>1, <2>2, <2>3, RetargetKeeps
<1> QED
  BY <1>1, <1>2

\* A step that leaves the switcher alone.
LEMMA OthersKeep ==
  ASSUME SwitcherInv, topLevel' \in Seq(Programs), UNCHANGED gDesktopWindow,
         UNCHANGED <<livePreview, thumbnailVars, mSelectedWindow, mHoveredThumbnail, caption>>
  PROVE  SwitcherInv'
<1>1. UNCHANGED <<switcherVisible, mShownWindows, selectedStates, mPeekTimer, mPeeking>>
  BY DEF thumbnailVars
<1>2. SwitcherLists'
  BY <1>1 DEF SwitcherInv, SwitcherLists
<1>3. SwitcherConsistent' /\ NamesItsTarget'
  BY <1>1 DEF SwitcherInv, SwitcherConsistent, NamesItsTarget, Target
<1> QED
  BY <1>2, <1>3 DEF SwitcherInv

----------------------------------------------------------------------------
(* The steps of the switcher.                                               *)

LEMMA AltTabKeeps ==
  ASSUME SwitcherInv, UNCHANGED gDesktopWindow, NEW delta \in {1, -1}, HandleAltTab(delta)
  PROVE  SwitcherInv'
<1> USE DEF SwitcherInv
<1>1. CASE switcherVisible
  <2>1. /\ UNCHANGED <<topLevel, switcherVisible, mShownWindows, mPeekTimer, mPeeking>>
        /\ MoveSelection(mShownWindows, mSelectedWindow, delta, selectedStates)
    BY <1>1 DEF HandleAltTab, worldVars
  <2>2. SwitcherLists' /\ switcherVisible' /\ mPeekTimer' = ~mPeeking'
    BY <1>1, <2>1 DEF SwitcherLists, SwitcherConsistent
  <2>3. MoveSelection(mShownWindows', mSelectedWindow, delta, selectedStates)
    BY <2>1
  <2>4. mShownWindows' # <<>> =>
          /\ mSelectedWindow \in DOMAIN mShownWindows' /\ selectedStates \subseteq {mSelectedWindow}
          /\ livePreview \in Range(mShownWindows') \cup {Nothing}
    BY <1>1, <2>1 DEF SwitcherConsistent
  <2>5. mShownWindows' = <<>> =>
          /\ gDesktopWindow' = Nothing /\ mSelectedWindow = 1 /\ selectedStates = {}
          /\ mPeekTimer' => livePreview = Nothing
    BY <1>1, <2>1 DEF SwitcherConsistent
  <2> QED
    BY <2>2, <2>3, <2>4, <2>5, MoveKeeps
<1>2. CASE ~switcherVisible
  <2>1. /\ switcherVisible' = TRUE
        /\ mShownWindows' = IF gDesktopWindow = Nothing THEN topLevel
                                                       ELSE Append(topLevel, gDesktopWindow)
        /\ mPeeking' = FALSE /\ mPeekTimer' = TRUE /\ UNCHANGED topLevel
        /\ MoveSelection(mShownWindows', 1, delta, {})
    BY <1>2 DEF HandleAltTab
  <2>2. /\ mShownWindows' \in Seq(Thumbnails)
        /\ mShownWindows' = <<>> => gDesktopWindow' = Nothing
    BY <2>1, ShownIsSeq DEF SwitcherLists
  <2>3. SwitcherLists' /\ switcherVisible' /\ mPeekTimer' = ~mPeeking'
    BY <2>1, <2>2 DEF SwitcherLists
  <2>4. livePreview = Nothing
    BY <1>2 DEF SwitcherConsistent
  <2>5. mShownWindows' # <<>> => 1 \in DOMAIN mShownWindows'
    BY <2>2
  <2> QED
    BY <2>1, <2>2, <2>3, <2>4, <2>5, MoveKeeps
<1> QED
  BY <1>1, <1>2

\* The mouse moves to thumbnail h, or off the thumbnails.
LEMMA HoverKeeps ==
  ASSUME SwitcherInv, UNCHANGED gDesktopWindow, switcherVisible, mShownWindows # <<>>,
         NEW h \in {0} \cup DOMAIN mShownWindows, UNCHANGED <<worldVars, thumbnailVars>>,
         Retarget(mShownWindows, mSelectedWindow, h)
  PROVE  SwitcherInv'
<1> USE DEF SwitcherInv
<1>1. UNCHANGED <<topLevel, switcherVisible, mShownWindows, selectedStates, mPeekTimer, mPeeking>>
  BY DEF worldVars, thumbnailVars
<1>2. /\ mSelectedWindow \in DOMAIN mShownWindows
      /\ selectedStates = {mSelectedWindow} /\ mPeekTimer = ~mPeeking
      /\ livePreview \in Range(mShownWindows) \cup {Nothing}
  BY DEF SwitcherConsistent
<1>3. SwitcherLists' /\ switcherVisible'
  BY <1>1 DEF SwitcherLists
<1>4. mPeekTimer' = ~mPeeking'
  BY <1>1, <1>2
<1>5. /\ Retarget(mShownWindows', mSelectedWindow, h)
      /\ mSelectedWindow \in DOMAIN mShownWindows'
      /\ h \in {0} \cup DOMAIN mShownWindows'
      /\ selectedStates' = {mSelectedWindow}
      /\ livePreview \in Range(mShownWindows') \cup {Nothing}
  BY <1>1, <1>2
<1> QED
  BY <1>3, <1>4, <1>5, RetargetKeeps

LEMMA MouseKeeps ==
  ASSUME SwitcherInv, UNCHANGED gDesktopWindow,
         (\E i \in 1..Len(mShownWindows) : EnterThumbnail(i)) \/ LeaveThumbnails
  PROVE  SwitcherInv'
<1>1. ASSUME NEW i \in 1..Len(mShownWindows), EnterThumbnail(i) PROVE SwitcherInv'
  <2>1. /\ switcherVisible /\ i \in DOMAIN mShownWindows
        /\ UNCHANGED <<worldVars, thumbnailVars>>
        /\ \/ UNCHANGED <<mSelectedWindow, mHoveredThumbnail, caption, livePreview>>
           \/ Retarget(mShownWindows, mSelectedWindow, i)
    BY <1>1 DEF EnterThumbnail
  <2>2. topLevel' \in Seq(Programs) /\ mShownWindows # <<>>
    BY <2>1 DEF worldVars, SwitcherInv, SwitcherLists
  <2> QED
    BY <2>1, <2>2, HoverKeeps, OthersKeep
<1>2. CASE LeaveThumbnails
  <2>1. UNCHANGED <<worldVars, thumbnailVars>>
    BY <1>2 DEF LeaveThumbnails
  <2>2. CASE switcherVisible /\ mHoveredThumbnail # 0
    <3>1. Retarget(mShownWindows, mSelectedWindow, 0)
      BY <1>2, <2>2 DEF LeaveThumbnails
    <3>2. mShownWindows # <<>>
      BY <2>2 DEF SwitcherInv, SwitcherLists, SwitcherConsistent
    <3> QED
      BY <2>1, <2>2, <3>1, <3>2, HoverKeeps
  <2>3. CASE ~(switcherVisible /\ mHoveredThumbnail # 0)
    <3>1. mHoveredThumbnail' = 0 /\ UNCHANGED <<mSelectedWindow, caption, livePreview>>
      BY <1>2, <2>3 DEF LeaveThumbnails
    <3>2. /\ UNCHANGED <<topLevel, switcherVisible, mShownWindows, selectedStates>>
          /\ UNCHANGED <<mPeekTimer, mPeeking>>
      BY <2>1 DEF worldVars, thumbnailVars
    <3>3. switcherVisible => UNCHANGED mHoveredThumbnail
      BY <2>3, <3>1
    <3>4. SwitcherLists'
      BY <3>2 DEF SwitcherInv, SwitcherLists
    <3>5. SwitcherConsistent' /\ NamesItsTarget'
      BY <3>1, <3>2, <3>3 DEF SwitcherInv, SwitcherConsistent, NamesItsTarget, Target
    <3> QED
      BY <3>4, <3>5 DEF SwitcherInv
  <2> QED
    BY <2>2, <2>3
<1> QED
  BY <1>1, <1>2

LEMMA PeekKeeps ==
  ASSUME SwitcherInv, UNCHANGED gDesktopWindow, PeekTimer
  PROVE  SwitcherInv'
<1> USE DEF SwitcherInv
<1>1. /\ switcherVisible /\ mPeeking' = TRUE /\ mPeekTimer' = FALSE
      /\ mShownWindows # <<>> => livePreview' = mShownWindows[mSelectedWindow]
      /\ UNCHANGED <<topLevel, switcherVisible, mShownWindows, selectedStates, mSelectedWindow>>
      /\ UNCHANGED <<mHoveredThumbnail, caption>>
  BY DEF PeekTimer, worldVars
<1>2. SwitcherLists'
  BY <1>1 DEF SwitcherLists
<1>3. mPeekTimer' = ~mPeeking'
  BY <1>1
<1>4. mShownWindows # <<>> => livePreview' \in Range(mShownWindows')
  BY <1>1 DEF SwitcherConsistent, Range
<1>5. SwitcherConsistent'
  BY <1>1, <1>3, <1>4 DEF SwitcherConsistent
<1>6. NamesItsTarget'
  BY <1>1 DEF NamesItsTarget, Target
<1> QED
  BY <1>2, <1>5, <1>6

\* Hiding the switcher gives the focus to the window it names, or to none.
LEMMA HideKeeps ==
  ASSUME SwitcherInv, UNCHANGED gDesktopWindow, Hide
  PROVE  SwitcherInv' /\ foreground' \in {caption, Nothing}
<1> USE DEF SwitcherInv
<1> DEFINE target == IF mShownWindows = <<>> THEN Nothing
                     ELSE Target(mShownWindows, mSelectedWindow, mHoveredThumbnail)
<1>1. /\ switcherVisible /\ switcherVisible' = FALSE
      /\ mPeekTimer' = FALSE /\ mPeeking' = FALSE
      /\ mShownWindows' = <<>> /\ livePreview' = Nothing
      /\ \/ target = Desktop /\ foreground' = Desktop /\ UNCHANGED topLevel
         \/ \E k \in DOMAIN topLevel :
              /\ target = topLevel[k] /\ foreground' = target
              /\ topLevel' = <<target>> \o RemoveAt(topLevel, k)
         \/ foreground' = Nothing /\ UNCHANGED topLevel
  BY DEF Hide
<1> HIDE DEF target
<1>2. topLevel \in Seq(Programs)
  BY DEF SwitcherLists
<1>3. topLevel' \in Seq(Programs)
  <2>1. ASSUME NEW k \in DOMAIN topLevel, target = topLevel[k],
               topLevel' = <<target>> \o RemoveAt(topLevel, k)
        PROVE  topLevel' \in Seq(Programs)
    <3>1. RemoveAt(topLevel, k) \in Seq(Programs)
      BY <1>2, RemoveAtIsSeq
    <3>2. <<target>> \in Seq(Programs)
      BY <1>2, <2>1
    <3> QED
      BY <2>1, <3>1, <3>2
  <2> QED
    BY <1>1, <1>2, <2>1
<1>4. foreground' \in {target, Nothing}
  BY <1>1
<1>5. target \in {caption, Nothing}
  BY <1>1 DEF NamesItsTarget, target
<1>6. ~switcherVisible' /\ ~mPeekTimer' /\ ~mPeeking'
      /\ switcherVisible' \in BOOLEAN /\ mPeekTimer' \in BOOLEAN /\ mPeeking' \in BOOLEAN
  BY <1>1
<1>7. SwitcherLists'
  BY <1>1, <1>3, <1>6 DEF SwitcherLists
<1>8. SwitcherConsistent' /\ NamesItsTarget'
  BY <1>1, <1>6 DEF SwitcherConsistent, NamesItsTarget
<1> QED
  BY <1>4, <1>5, <1>7, <1>8

LEMMA ProgramKeeps ==
  ASSUME SwitcherInv, UNCHANGED gDesktopWindow, NEW w \in Programs,
         OpenWindow(w) \/ CloseWindow(w)
  PROVE  SwitcherInv'
<1>1. topLevel \in Seq(Programs)
  BY DEF SwitcherInv, SwitcherLists
<1>2. topLevel' \in Seq(Programs)
  <2>1. CASE OpenWindow(w)
    <3>1. topLevel' = <<w>> \o topLevel /\ <<w>> \in Seq(Programs)
      BY <2>1 DEF OpenWindow
    <3> QED
      BY <1>1, <3>1
  <2>2. CASE CloseWindow(w)
    <3>1. PICK k \in DOMAIN topLevel : topLevel' = RemoveAt(topLevel, k)
      BY <2>2 DEF CloseWindow
    <3> QED
      BY <1>1, <3>1, RemoveAtIsSeq
  <2> QED
    BY <2>1, <2>2
<1>3. UNCHANGED <<livePreview, thumbnailVars, mSelectedWindow, mHoveredThumbnail, caption>>
  BY DEF OpenWindow, CloseWindow
<1> QED
  BY <1>2, <1>3, OthersKeep

LEMMA SwitcherInvNext == SwitcherInv /\ [SwitcherNext]_switcherVars => SwitcherInv'
<1> SUFFICES ASSUME SwitcherInv, [SwitcherNext]_switcherVars
             PROVE  SwitcherInv'
  OBVIOUS
<1>1. CASE UNCHANGED switcherVars
  <2>1. /\ UNCHANGED <<livePreview, thumbnailVars, mSelectedWindow, mHoveredThumbnail, caption>>
        /\ UNCHANGED gDesktopWindow
    BY <1>1 DEF switcherVars
  <2>2. topLevel' \in Seq(Programs)
    BY <1>1 DEF switcherVars, worldVars, SwitcherInv, SwitcherLists
  <2> QED
    BY <2>1, <2>2, OthersKeep
<1>2. CASE SwitcherNext
  <2>1. UNCHANGED gDesktopWindow
    BY <1>2 DEF SwitcherNext
  <2>2. CASE HandleAltTab(1) \/ HandleAltTab(-1)
    BY <2>1, <2>2, AltTabKeeps
  <2>3. CASE (\E i \in 1..Len(mShownWindows) : EnterThumbnail(i)) \/ LeaveThumbnails
    BY <2>1, <2>3, MouseKeeps
  <2>4. CASE PeekTimer
    BY <2>1, <2>4, PeekKeeps
  <2>5. CASE Hide
    BY <2>1, <2>5, HideKeeps
  <2>6. CASE \E w \in Programs : OpenWindow(w) \/ CloseWindow(w)
    BY <2>1, <2>6, ProgramKeeps
  <2> QED
    BY <1>2, <2>2, <2>3, <2>4, <2>5, <2>6 DEF SwitcherNext, SwitcherStep
<1> QED
  BY <1>1, <1>2

----------------------------------------------------------------------------
(* The theorems about the switcher.                                         *)

LEMMA SwitcherInvAlways == SwitcherSpec => []SwitcherInv
  BY SwitcherInvInit, SwitcherInvNext, PTL DEF SwitcherSpec

\* With a desktop or without, however the keys, the mouse, the timer and the
\* programs interleave: the selected and the hovered thumbnail exist while the
\* switcher is shown, one of them looks selected, it peeks or waits to peek, and
\* nothing of this is left when it is hidden.  A switcher without thumbnails is
\* one without a desktop; of what it previews nothing is said once its timer has
\* indexed the empty list (Show, Hide, UpdateActiveWindow, WM_TIMER).
THEOREM SwitcherStaysConsistent == SwitcherSpec => []SwitcherConsistent
<1>1. SwitcherInv => SwitcherConsistent
  BY DEF SwitcherInv
<1> QED
  BY <1>1, SwitcherInvAlways, PTL

\* What gets the focus when the switcher goes away is the window it named last,
\* whoever moved the selection, or nothing (Hide, UpdateActiveWindow,
\* HoveringOverTask).
THEOREM SwitchesToWhatItShows == SwitcherSpec => SwitchesToTheNamed
<1>1. SwitcherInv /\ [SwitcherNext]_switcherVars
        => [(switcherVisible /\ ~switcherVisible') => foreground' \in {caption, Nothing}]_switcherVars
  <2> SUFFICES ASSUME SwitcherInv, [SwitcherNext]_switcherVars,
                      switcherVisible, ~switcherVisible'
               PROVE  foreground' \in {caption, Nothing}
    OBVIOUS
  <2>1. CASE Hide
    <3>1. UNCHANGED gDesktopWindow
      BY DEF SwitcherNext, switcherVars
    <3> QED
      BY <2>1, <3>1, HideKeeps
  <2>2. CASE ~Hide
    <3>1. switcherVisible' = switcherVisible \/ switcherVisible' = TRUE
      BY <2>2 DEF SwitcherNext, SwitcherStep, switcherVars, thumbnailVars, HandleAltTab,
                  EnterThumbnail, LeaveThumbnails, PeekTimer, OpenWindow, CloseWindow
    <3> QED
      BY <3>1
  <2> QED
    BY <2>1, <2>2
<1> QED
  BY <1>1, SwitcherInvAlways, PTL DEF SwitcherSpec, SwitchesToTheNamed

----------------------------------------------------------------------------
(* The types of the switcher.                                               *)

Names == Thumbnails \cup {Nothing}

\* No more thumbnails than windows, and the desktop.
SwitcherTypes == SwitcherTypeOK /\ Len(mShownWindows) <= Cardinality(Programs) + 1

LEMMA ConcatIs ==
  ASSUME NEW S, NEW a \in Seq(S), NEW b \in Seq(S)
  PROVE  /\ Len(a \o b) = Len(a) + Len(b)
         /\ \A j \in 1..(Len(a) + Len(b)) :
              (a \o b)[j] = IF j <= Len(a) THEN a[j] ELSE b[j - Len(a)]
OBVIOUS

LEMMA RemovedAt ==
  ASSUME NEW S, NEW list \in Seq(S), NEW k \in DOMAIN list
  PROVE  /\ Len(RemoveAt(list, k)) = Len(list) - 1
         /\ DOMAIN RemoveAt(list, k) = 1..(Len(list) - 1)
         /\ \A j \in 1..(Len(list) - 1) :
              RemoveAt(list, k)[j] = IF j < k THEN list[j] ELSE list[j + 1]
<1>1. k \in 1..Len(list) /\ Len(list) \in Nat
  OBVIOUS
<1> DEFINE a == SubSeq(list, 1, k - 1)
           b == SubSeq(list, k + 1, Len(list))
<1>2. /\ a \in Seq(S) /\ Len(a) = k - 1
      /\ \A j \in 1..(k - 1) : a[j] = list[j]
  BY <1>1
<1>3. /\ b \in Seq(S) /\ Len(b) = Len(list) - k
      /\ \A j \in 1..(Len(list) - k) : b[j] = list[j + k]
  BY <1>1
<1>4. RemoveAt(list, k) = a \o b
  BY DEF RemoveAt
<1> HIDE DEF a, b
<1>5. /\ Len(a \o b) = Len(list) - 1
      /\ \A j \in 1..(Len(list) - 1) :
           (a \o b)[j] = IF j <= Len(a) THEN a[j] ELSE b[j - Len(a)]
  <2>1. /\ Len(a \o b) = Len(a) + Len(b)
        /\ \A j \in 1..(Len(a) + Len(b)) :
             (a \o b)[j] = IF j <= Len(a) THEN a[j] ELSE b[j - Len(a)]
    BY <1>2, <1>3, ConcatIs
  <2>2. Len(a) + Len(b) = Len(list) - 1
    BY <1>1, <1>2, <1>3
  <2> QED
    BY <2>1, <2>2
<1>6. DOMAIN (a \o b) = 1..(Len(list) - 1)
  <2>1. a \o b \in Seq(S)
    BY <1>2, <1>3
  <2> QED
    BY <1>5, <2>1
<1>7. ASSUME NEW j \in 1..(Len(list) - 1)
      PROVE  (a \o b)[j] = IF j < k THEN list[j] ELSE list[j + 1]
  <2>1. CASE j < k
    <3>1. j \in 1..(k - 1) /\ j <= Len(a)
      BY <1>1, <1>2, <2>1
    <3> QED
      BY <1>2, <1>5, <2>1, <3>1
  <2>2. CASE ~(j < k)
    <3>1. /\ ~(j <= Len(a)) /\ j - Len(a) = j - k + 1
          /\ j - k + 1 \in 1..(Len(list) - k) /\ (j - k + 1) + k = j + 1
      BY <1>1, <1>2, <2>2
    <3>2. (a \o b)[j] = b[j - k + 1] /\ b[j - k + 1] = list[(j - k + 1) + k]
      BY <1>3, <1>5, <3>1
    <3> QED
      BY <2>2, <3>1, <3>2
  <2> QED
    BY <2>1, <2>2
<1> QED
  BY <1>4, <1>5, <1>6, <1>7

\* Removing an entry keeps the others apart, and nothing else is that entry.
LEMMA RemovedInjective ==
  ASSUME NEW S, NEW list \in Seq(S), IsInjective(list), NEW k \in DOMAIN list
  PROVE  /\ IsInjective(RemoveAt(list, k))
         /\ list[k] \notin Range(RemoveAt(list, k))
<1> DEFINE r == RemoveAt(list, k)
           At(j) == IF j < k THEN j ELSE j + 1
<1>1. /\ k \in 1..Len(list) /\ Len(list) \in Nat /\ DOMAIN list = 1..Len(list)
      /\ DOMAIN r = 1..(Len(list) - 1)
      /\ \A j \in DOMAIN r : r[j] = list[At(j)]
  <2>1. k \in 1..Len(list) /\ Len(list) \in Nat /\ DOMAIN list = 1..Len(list)
    OBVIOUS
  <2>2. /\ DOMAIN r = 1..(Len(list) - 1)
        /\ \A j \in 1..(Len(list) - 1) : r[j] = IF j < k THEN list[j] ELSE list[j + 1]
    BY RemovedAt
  <2> HIDE DEF r
  <2>3. \A j \in DOMAIN r : r[j] = list[At(j)]
    BY <2>2
  <2> QED
    BY <2>1, <2>2, <2>3
<1>2. /\ \A j \in DOMAIN r : At(j) \in DOMAIN list /\ At(j) # k
      /\ \A i, j \in DOMAIN r : At(i) = At(j) => i = j
  <2> HIDE DEF r
  <2>1. \A j \in 1..(Len(list) - 1) : At(j) \in 1..Len(list) /\ At(j) # k
    BY <1>1
  <2>2. \A i, j \in 1..(Len(list) - 1) : At(i) = At(j) => i = j
    BY <1>1
  <2> QED
    BY <1>1, <2>1, <2>2
<1> HIDE DEF r, At
<1>3. IsInjective(r)
  BY <1>1, <1>2 DEF IsInjective
<1>4. list[k] \notin Range(r)
  BY <1>1, <1>2 DEF IsInjective, Range
<1> QED
  BY <1>3, <1>4 DEF r

\* A new entry in front.
LEMMA PushedInjective ==
  ASSUME NEW S, NEW list \in Seq(S), IsInjective(list), NEW w \in S, w \notin Range(list)
  PROVE  IsInjective(<<w>> \o list)
<1> DEFINE p == <<w>> \o list
<1>1. /\ Len(list) \in Nat /\ DOMAIN list = 1..Len(list)
      /\ DOMAIN p = 1..(Len(list) + 1)
      /\ p[1] = w
      /\ \A j \in 1..(Len(list) + 1) : j # 1 => p[j] = list[j - 1] /\ (j - 1) \in DOMAIN list
  OBVIOUS
<1> HIDE DEF p
<1>2. ASSUME NEW i \in DOMAIN p, NEW j \in DOMAIN p, p[i] = p[j] PROVE i = j
  <2>1. \A n \in DOMAIN p : n # 1 => p[n] # w
    BY <1>1 DEF Range
  <2>2. CASE i = 1 \/ j = 1
    BY <1>1, <1>2, <2>1, <2>2
  <2>3. CASE i # 1 /\ j # 1
    BY <1>1, <1>2, <2>3 DEF IsInjective
  <2> QED
    BY <2>2, <2>3
<1> QED
  BY <1>2 DEF IsInjective, p

\* A list without repetitions is no longer than what it lists.
LEMMA InjectiveIsShort ==
  ASSUME NEW S, IsFiniteSet(S), NEW list \in Seq(S), IsInjective(list)
  PROVE  Len(list) <= Cardinality(S)
<1>1. Len(list) \in Nat /\ DOMAIN list = 1..Len(list) /\ list \in [1..Len(list) -> S]
  OBVIOUS
<1>2. list \in Injection(1..Len(list), S)
  BY <1>1 DEF Injection, IsInjective
<1>3. Cardinality(1..Len(list)) <= Cardinality(S)
  BY <1>2, FS_Injection
<1>4. Cardinality(1..Len(list)) = Len(list)
  <2>1. Cardinality(1..Len(list)) = IF 1 > Len(list) THEN 0 ELSE Len(list) - 1 + 1
    BY <1>1, FS_Interval
  <2> QED
    BY <1>1, <2>1
<1> QED
  BY <1>3, <1>4

LEMMA TopLevelTypes ==
  ASSUME SwitcherInv, SwitcherTypes, [SwitcherNext]_switcherVars
  PROVE  IsInjective(topLevel')
<1>1. topLevel \in Seq(Programs) /\ IsInjective(topLevel)
  BY DEF SwitcherInv, SwitcherLists, SwitcherTypes, SwitcherTypeOK
<1>2. CASE UNCHANGED topLevel
  BY <1>1, <1>2
<1>3. CASE Hide
  <2>1. \/ UNCHANGED topLevel
        \/ \E k \in DOMAIN topLevel : topLevel' = <<topLevel[k]>> \o RemoveAt(topLevel, k)
    BY <1>3 DEF Hide
  <2>2. ASSUME NEW k \in DOMAIN topLevel, topLevel' = <<topLevel[k]>> \o RemoveAt(topLevel, k)
        PROVE  IsInjective(topLevel')
    <3>1. /\ RemoveAt(topLevel, k) \in Seq(Programs) /\ IsInjective(RemoveAt(topLevel, k))
          /\ topLevel[k] \notin Range(RemoveAt(topLevel, k)) /\ topLevel[k] \in Programs
      BY <1>1, RemoveAtIsSeq, RemovedInjective
    <3> QED
      BY <2>2, <3>1, PushedInjective
  <2> QED
    BY <1>2, <2>1, <2>2
<1>4. CASE \E w \in Programs : OpenWindow(w)
  <2>1. PICK w \in Programs : w \notin Range(topLevel) /\ topLevel' = <<w>> \o topLevel
    BY <1>4 DEF OpenWindow
  <2> QED
    BY <1>1, <2>1, PushedInjective
<1>5. CASE \E w \in Programs : CloseWindow(w)
  <2>1. PICK k \in DOMAIN topLevel : topLevel' = RemoveAt(topLevel, k)
    BY <1>5 DEF CloseWindow
  <2> QED
    BY <1>1, <2>1, RemovedInjective
<1>6. CASE ~Hide /\ ~\E w \in Programs : OpenWindow(w) \/ CloseWindow(w)
  <2>1. UNCHANGED topLevel
    BY <1>6 DEF SwitcherNext, SwitcherStep, switcherVars, worldVars, HandleAltTab, EnterThumbnail,
                LeaveThumbnails, PeekTimer
  <2> QED
    BY <1>2, <2>1
<1> QED
  BY <1>3, <1>4, <1>5, <1>6

\* The thumbnails are made of the windows there are.
LEMMA ThumbnailTypes ==
  ASSUME SwitcherInv, SwitcherTypes, [SwitcherNext]_switcherVars
  PROVE  Len(mShownWindows') <= Cardinality(Programs) + 1
<1>1. /\ topLevel \in Seq(Programs) /\ IsInjective(topLevel)
      /\ Len(mShownWindows) <= Cardinality(Programs) + 1
      /\ Cardinality(Programs) \in Nat
  BY SwitcherAssumption, FS_CardinalityType
     DEF SwitcherInv, SwitcherLists, SwitcherTypes, SwitcherTypeOK, SwitcherAssumption
<1>2. \/ UNCHANGED mShownWindows
      \/ mShownWindows' = <<>>
      \/ mShownWindows' = topLevel
      \/ mShownWindows' = Append(topLevel, gDesktopWindow)
  BY DEF SwitcherNext, SwitcherStep, switcherVars, thumbnailVars, HandleAltTab, EnterThumbnail,
         LeaveThumbnails, PeekTimer, Hide, OpenWindow, CloseWindow
<1>3. Len(topLevel) <= Cardinality(Programs)
  BY <1>1, SwitcherAssumption, InjectiveIsShort DEF SwitcherAssumption
<1>4. Len(Append(topLevel, gDesktopWindow)) = Len(topLevel) + 1 /\ Len(topLevel) \in Nat
  BY <1>1
<1> QED
  BY <1>1, <1>2, <1>3, <1>4

\* While the switcher is hidden the selection stays as it was, or is given up.
LEMMA HiddenKeepsTypes ==
  ASSUME [SwitcherNext]_switcherVars, ~switcherVisible'
  PROVE  /\ UNCHANGED <<caption, mSelectedWindow>>
         /\ mHoveredThumbnail' \in {0, mHoveredThumbnail}
         /\ selectedStates' = {} \/ UNCHANGED <<selectedStates, mShownWindows>>
<1>1. CASE UNCHANGED switcherVars
  BY <1>1 DEF switcherVars, thumbnailVars
<1>2. CASE HandleAltTab(1) \/ HandleAltTab(-1)
  <2>1. switcherVisible'
    BY <1>2 DEF HandleAltTab
  <2> QED
    BY <2>1
<1>3. CASE \E i \in 1..Len(mShownWindows) : EnterThumbnail(i)
  <2>1. switcherVisible'
    BY <1>3 DEF EnterThumbnail, thumbnailVars
  <2> QED
    BY <2>1
<1>4. CASE LeaveThumbnails
  <2>1. UNCHANGED <<switcherVisible, mShownWindows, selectedStates>>
    BY <1>4 DEF LeaveThumbnails, thumbnailVars
  <2>2. mHoveredThumbnail' = 0 /\ UNCHANGED <<caption, mSelectedWindow>>
    BY <1>4, <2>1 DEF LeaveThumbnails
  <2> QED
    BY <2>1, <2>2
<1>5. CASE PeekTimer
  <2>1. switcherVisible'
    BY <1>5 DEF PeekTimer
  <2> QED
    BY <2>1
<1>6. CASE Hide
  BY <1>6 DEF Hide
<1>7. CASE \E w \in Programs : OpenWindow(w) \/ CloseWindow(w)
  BY <1>7 DEF OpenWindow, CloseWindow, thumbnailVars
<1> QED
  BY <1>1, <1>2, <1>3, <1>4, <1>5, <1>6, <1>7 DEF SwitcherNext, SwitcherStep

\* A switcher that is shown without thumbnails keeps its text, and what it
\* previews but for the timer.
LEMMA EmptyKeeps ==
  ASSUME SwitcherInv, [SwitcherNext]_switcherVars, mShownWindows' = <<>>, switcherVisible'
  PROVE  UNCHANGED caption /\ (PeekTimer \/ UNCHANGED livePreview)
<1>1. CASE HandleAltTab(1) \/ HandleAltTab(-1)
  <2>1. PICK i, delta, selected : MoveSelection(mShownWindows', i, delta, selected)
    <3>1. ASSUME NEW delta \in {1, -1}, HandleAltTab(delta)
          PROVE  \E i, selected : MoveSelection(mShownWindows', i, delta, selected)
      <4>1. CASE switcherVisible
        <5>1. /\ UNCHANGED mShownWindows
              /\ MoveSelection(mShownWindows, mSelectedWindow, delta, selectedStates)
          BY <3>1, <4>1 DEF HandleAltTab
        <5> QED
          BY <5>1
      <4>2. CASE ~switcherVisible
        <5>1. MoveSelection(mShownWindows', 1, delta, {})
          BY <3>1, <4>2 DEF HandleAltTab
        <5> QED
          BY <5>1
      <4> QED
        BY <4>1, <4>2
    <3> QED
      BY <1>1, <3>1
  <2> QED
    BY <2>1 DEF MoveSelection
<1>2. CASE \E i \in 1..Len(mShownWindows) : EnterThumbnail(i)
  <2>1. PICK i \in 1..Len(mShownWindows) : EnterThumbnail(i)
    BY <1>2
  <2>2. UNCHANGED mShownWindows /\ i \in DOMAIN mShownWindows
    BY <2>1 DEF EnterThumbnail, thumbnailVars
  <2> QED
    BY <2>2 DEF SwitcherInv, SwitcherLists
<1>3. CASE LeaveThumbnails
  <2>1. UNCHANGED mShownWindows
    BY <1>3 DEF LeaveThumbnails, thumbnailVars
  <2>2. ~(switcherVisible /\ mHoveredThumbnail # 0)
    BY <2>1 DEF SwitcherInv, SwitcherLists, SwitcherConsistent
  <2> QED
    BY <1>3, <2>2 DEF LeaveThumbnails
<1>4. CASE PeekTimer \/ Hide \/ UNCHANGED switcherVars
  BY <1>4 DEF PeekTimer, Hide, switcherVars
<1>5. CASE \E w \in Programs : OpenWindow(w) \/ CloseWindow(w)
  BY <1>5 DEF OpenWindow, CloseWindow
<1> QED
  BY <1>1, <1>2, <1>3, <1>4, <1>5 DEF SwitcherNext, SwitcherStep

\* What is previewed is what was, what is named, one of the thumbnails, or what
\* the timer found beyond them.
LEMMA PreviewTypes ==
  ASSUME SwitcherInv, SwitcherTypes, SwitcherInv', [SwitcherNext]_switcherVars
  PROVE  livePreview' \in Names
<1>1. mShownWindows' \in Seq(Thumbnails) /\ livePreview \in Names
  BY DEF SwitcherInv, SwitcherLists, SwitcherTypes, SwitcherTypeOK, Names, Thumbnails
<1>2. CASE ~switcherVisible'
  BY <1>2 DEF SwitcherInv, SwitcherConsistent, Names
<1>3. CASE switcherVisible' /\ mShownWindows' # <<>>
  <2>1. livePreview' \in Range(mShownWindows') \cup {Nothing}
    BY <1>3 DEF SwitcherInv, SwitcherConsistent
  <2> QED
    BY <1>1, <2>1 DEF Range, Names
<1>4. CASE switcherVisible' /\ mShownWindows' = <<>> /\ mPeekTimer'
  BY <1>4 DEF SwitcherInv, SwitcherConsistent, Names
<1>5. CASE switcherVisible' /\ mShownWindows' = <<>> /\ ~mPeekTimer'
  <2>1. CASE PeekTimer
    <3>1. mShownWindows = <<>>
      BY <1>5, <2>1 DEF PeekTimer
    <3> QED
      BY <2>1, <3>1 DEF PeekTimer, Names, Thumbnails
  <2>2. CASE ~PeekTimer
    <3>1. UNCHANGED livePreview
      BY <1>5, <2>2, EmptyKeeps
    <3> QED
      BY <1>1, <3>1
  <2> QED
    BY <2>1, <2>2
<1> QED
  BY <1>2, <1>3, <1>4, <1>5

LEMMA NameTypes ==
  ASSUME SwitcherInv, SwitcherTypes, SwitcherInv', [SwitcherNext]_switcherVars
  PROVE  {foreground', livePreview', caption'} \subseteq Names
<1>1. /\ {foreground, livePreview, caption} \subseteq Names
      /\ mShownWindows \in Seq(Thumbnails) /\ mShownWindows' \in Seq(Thumbnails)
      /\ topLevel \in Seq(Programs)
  BY DEF SwitcherInv, SwitcherLists, SwitcherTypes, SwitcherTypeOK, Names, Thumbnails
<1>2. livePreview' \in Names
  BY PreviewTypes
<1>3. caption' \in Names
  <2>1. CASE UNCHANGED caption
    BY <1>1, <2>1
  <2>2. CASE switcherVisible' /\ mShownWindows' # <<>>
    <3>1. /\ caption' = mShownWindows'[IF mHoveredThumbnail' # 0 THEN mHoveredThumbnail'
                                       ELSE mSelectedWindow']
          /\ mSelectedWindow' \in DOMAIN mShownWindows'
          /\ mHoveredThumbnail' \in {0} \cup DOMAIN mShownWindows'
      BY <2>2 DEF SwitcherInv, NamesItsTarget, Target, SwitcherConsistent
    <3>2. \A i \in DOMAIN mShownWindows' : mShownWindows'[i] \in Thumbnails
      BY <1>1
    <3> QED
      BY <3>1, <3>2 DEF Names
  <2>3. caption' = caption \/ (switcherVisible' /\ mShownWindows' # <<>>)
    BY HiddenKeepsTypes, EmptyKeeps
  <2> QED
    BY <2>1, <2>2, <2>3
<1>4. foreground' \in Names
  <2>1. CASE Hide
    <3>1. foreground' \in {caption, Nothing}
      BY <2>1, HideKeeps DEF SwitcherNext, switcherVars
    <3> QED
      BY <1>1, <3>1 DEF Names
  <2>2. CASE ~Hide
    <3>1. foreground' \in {foreground, Nothing} \cup Programs
      BY <2>2 DEF SwitcherNext, SwitcherStep, switcherVars, worldVars, HandleAltTab, EnterThumbnail,
                  LeaveThumbnails, PeekTimer, OpenWindow, CloseWindow
    <3> QED
      BY <1>1, <3>1 DEF Names, Thumbnails
  <2> QED
    BY <2>1, <2>2
<1> QED
  BY <1>2, <1>3, <1>4

LEMMA ActiveChildType ==
  ASSUME SwitcherTypes, [SwitcherNext]_switcherVars
  PROVE  activeChild' \in {0} \cup DOMAIN mShownWindows'
<1>1. activeChild \in {0} \cup DOMAIN mShownWindows
  BY DEF SwitcherTypes, SwitcherTypeOK
<1>2. \/ activeChild' = 0
      \/ UNCHANGED <<activeChild, mShownWindows>>
      \/ UNCHANGED mShownWindows /\ activeChild' \in DOMAIN mShownWindows
  BY DEF SwitcherNext, SwitcherStep, switcherVars, thumbnailVars, HandleAltTab, EnterThumbnail,
         LeaveThumbnails, PeekTimer, Hide, OpenWindow, CloseWindow
<1> QED
  BY <1>1, <1>2

LEMMA SelectionTypes ==
  ASSUME SwitcherInv, SwitcherTypes, SwitcherInv', [SwitcherNext]_switcherVars
  PROVE  /\ mSelectedWindow' \in 1..(Cardinality(Programs) + 1)
         /\ mHoveredThumbnail' \in 0..(Cardinality(Programs) + 1)
         /\ selectedStates' \subseteq DOMAIN mShownWindows'
<1>1. /\ Len(mShownWindows') <= Cardinality(Programs) + 1
      /\ Len(mShownWindows') \in Nat /\ DOMAIN mShownWindows' = 1..Len(mShownWindows')
      /\ Cardinality(Programs) \in Nat
  BY ThumbnailTypes, SwitcherAssumption, FS_CardinalityType
     DEF SwitcherInv, SwitcherLists, SwitcherAssumption
<1>2. CASE switcherVisible'
  <2>1. /\ mHoveredThumbnail' \in {0} \cup DOMAIN mShownWindows'
        /\ \/ mSelectedWindow' \in DOMAIN mShownWindows' /\ selectedStates' = {mSelectedWindow'}
           \/ mSelectedWindow' = 1 /\ selectedStates' = {}
    BY <1>2 DEF SwitcherInv, SwitcherConsistent
  <2> QED
    BY <1>1, <2>1
<1>3. CASE ~switcherVisible'
  <2>1. /\ mSelectedWindow \in 1..(Cardinality(Programs) + 1)
        /\ mHoveredThumbnail \in 0..(Cardinality(Programs) + 1)
        /\ selectedStates \subseteq DOMAIN mShownWindows
    BY DEF SwitcherTypes, SwitcherTypeOK
  <2>2. /\ UNCHANGED mSelectedWindow
        /\ mHoveredThumbnail' \in {0, mHoveredThumbnail}
        /\ selectedStates' = {} \/ UNCHANGED <<selectedStates, mShownWindows>>
    BY <1>3, HiddenKeepsTypes
  <2> QED
    BY <1>1, <2>1, <2>2
<1> QED
  BY <1>2, <1>3

LEMMA SwitcherTypesInit == SwitcherInit => SwitcherTypes
<1> SUFFICES ASSUME SwitcherInit PROVE SwitcherTypes
  OBVIOUS
<1>1. Cardinality(Programs) \in Nat
  BY SwitcherAssumption, FS_CardinalityType DEF SwitcherAssumption
<1>2. Range(topLevel) \subseteq Programs /\ IsInjective(topLevel)
  BY DEF SwitcherInit, Range, IsInjective
<1>3. Len(mShownWindows) = 0
  BY DEF SwitcherInit
<1>4. /\ {foreground, livePreview, caption} \subseteq Programs \cup {Desktop, Nothing}
      /\ {switcherVisible, mPeekTimer, mPeeking} \subseteq BOOLEAN
      /\ gDesktopWindow \in {Desktop, Nothing}
  BY DEF SwitcherInit
<1>5. /\ mSelectedWindow = 1 /\ mHoveredThumbnail = 0
      /\ selectedStates \subseteq DOMAIN mShownWindows
      /\ activeChild \in {0} \cup DOMAIN mShownWindows
  BY DEF SwitcherInit
<1> QED
  BY <1>1, <1>2, <1>3, <1>4, <1>5 DEF SwitcherTypes, SwitcherTypeOK

LEMMA SwitcherTypesNext ==
  ASSUME SwitcherInv, SwitcherTypes, SwitcherInv', [SwitcherNext]_switcherVars
  PROVE  SwitcherTypes'
<1>1. /\ topLevel' \in Seq(Programs) /\ gDesktopWindow' \in {Desktop, Nothing}
      /\ switcherVisible' \in BOOLEAN /\ mPeekTimer' \in BOOLEAN /\ mPeeking' \in BOOLEAN
  BY DEF SwitcherInv, SwitcherLists
<1>2. Range(topLevel') \subseteq Programs /\ IsInjective(topLevel')
  BY <1>1, TopLevelTypes DEF Range
<1>3. {foreground', livePreview', caption'} \subseteq Programs \cup {Desktop, Nothing}
  BY NameTypes DEF Names, Thumbnails
<1>4. {switcherVisible', mPeekTimer', mPeeking'} \subseteq BOOLEAN
  BY <1>1
<1> QED
  BY <1>1, <1>2, <1>3, <1>4, SelectionTypes, ActiveChildType, ThumbnailTypes
     DEF SwitcherTypes, SwitcherTypeOK

\* For any number of windows that come and go, the switcher never has more
\* thumbnails than there are windows besides a desktop, and what it selects,
\* hovers over, names and previews is within them (Show, UpdateActiveWindow).
THEOREM SwitcherTypeCorrect == SwitcherSpec => []SwitcherTypeOK
<1>1. SwitcherInv /\ SwitcherTypes /\ [SwitcherNext]_switcherVars
        => (SwitcherInv /\ SwitcherTypes)'
  BY SwitcherInvNext, SwitcherTypesNext
<1>2. SwitcherInit => SwitcherInv /\ SwitcherTypes
  BY SwitcherInvInit, SwitcherTypesInit
<1>3. SwitcherInv /\ SwitcherTypes => SwitcherTypeOK
  BY DEF SwitcherTypes
<1> QED
  BY <1>1, <1>2, <1>3, PTL DEF SwitcherSpec

----------------------------------------------------------------------------
(* Induction on the naturals, for a set that holds the numbers in question. *)

LEMMA UpTo ==
  ASSUME NEW m \in Nat, NEW P, 0 \in P,
         \A n \in 0..m : n \in P /\ n < m => n + 1 \in P
  PROVE  0..m \subseteq P
<1> DEFINE off == (0..m) \ P
           less == OpToRel(<, Nat)
<1>1. SUFFICES ASSUME off # {} PROVE FALSE
  OBVIOUS
<1>2. off \subseteq Nat
  OBVIOUS
<1>3. \A j, k \in Nat : j < k => <<j, k>> \in less
  BY DEF OpToRel
<1>4. IsWellFoundedOn(less, Nat)
  BY NatLessThanWellFounded DEF OpToRel
<1> HIDE DEF less
<1>5. PICK n \in off : \A k \in off : ~(<<k, n>> \in less)
  <2> HIDE DEF off
  <2> QED
    BY <1>1, <1>2, <1>4, WFMin
<1>6. n # 0 /\ n \in 0..m
  OBVIOUS
<1>7. n - 1 \in 0..m /\ n - 1 < m /\ n - 1 < n /\ n - 1 \in Nat /\ n \in Nat
  BY <1>6
<1>8. n - 1 \in P
  BY <1>3, <1>5, <1>7
<1>9. (n - 1) + 1 \in P
  BY <1>7, <1>8
<1> QED
  BY <1>5, <1>7, <1>9

\* A bounded set of numbers has a greatest.
LEMMA Greatest ==
  ASSUME NEW n \in Nat, NEW S \in SUBSET (1..n), S # {}
  PROVE  \E i \in S : \A k \in S : k <= i
<1> DEFINE P == {k \in 0..n : S \cap 1..k # {} => \E i \in S \cap 1..k : \A j \in S \cap 1..k : j <= i}
<1>1. 0 \in P
  OBVIOUS
<1>2. ASSUME NEW k \in 0..n, k \in P, k < n
      PROVE  k + 1 \in P
  <2>1. k + 1 \in 0..n /\ \A j \in 1..(k + 1) : j \in 1..k \/ j = k + 1
    BY <1>2
  <2>2. CASE k + 1 \in S
    <3>1. k + 1 \in S \cap 1..(k + 1) /\ \A j \in S \cap 1..(k + 1) : j <= k + 1
      BY <1>2, <2>1, <2>2
    <3> QED
      BY <2>1, <3>1
  <2>3. CASE k + 1 \notin S
    <3>1. S \cap 1..(k + 1) = S \cap 1..k
      BY <1>2, <2>1, <2>3
    <3> QED
      BY <1>2, <2>1, <3>1
  <2> QED
    BY <2>2, <2>3
<1> HIDE DEF P
<1>3. n \in P
  <2>1. 0..n \subseteq P
    BY <1>1, <1>2, UpTo
  <2> QED
    BY <2>1
<1>4. S \cap 1..n = S
  OBVIOUS
<1> QED
  BY <1>3, <1>4 DEF P

----------------------------------------------------------------------------
(* The states of a button.                                                  *)

LEMMA StatesAre ==
  /\ States = {"Base", "Minimized", "Flashing", "MinimizedFlashing", "Active", "Hover",
               "MinimizedHover", "ActiveHover", "FlashingHover", "MinimizedFlashingHover"}
  /\ DOMAIN ButtonStates = 1..10
  /\ \A i \in 1..10 : ButtonStates[i] \in States
<1>1. States = {"Base", "Minimized", "Flashing", "MinimizedFlashing", "Active", "Hover",
                "MinimizedHover", "ActiveHover", "FlashingHover", "MinimizedFlashingHover"}
  BY DEF States, ButtonStates, Range
<1>2. DOMAIN ButtonStates = 1..10
  BY DEF ButtonStates
<1>3. \A i \in 1..10 : ButtonStates[i] \in States
  BY <1>2 DEF States, Range
<1> QED
  BY <1>1, <1>2, <1>3

LEMMA RankAre ==
  /\ Rank("Base") = 1 /\ Rank("Minimized") = 2 /\ Rank("Flashing") = 3
  /\ Rank("MinimizedFlashing") = 4 /\ Rank("Active") = 5 /\ Rank("Hover") = 6
  /\ Rank("MinimizedHover") = 7 /\ Rank("ActiveHover") = 8 /\ Rank("FlashingHover") = 9
  /\ Rank("MinimizedFlashingHover") = 10
<1>1. Rank("Base") = 1
  BY DEF Rank, ButtonStates
<1>2. Rank("Minimized") = 2
  BY DEF Rank, ButtonStates
<1>3. Rank("Flashing") = 3
  BY DEF Rank, ButtonStates
<1>4. Rank("MinimizedFlashing") = 4
  BY DEF Rank, ButtonStates
<1>5. Rank("Active") = 5
  BY DEF Rank, ButtonStates
<1>6. Rank("Hover") = 6
  BY DEF Rank, ButtonStates
<1>7. Rank("MinimizedHover") = 7
  BY DEF Rank, ButtonStates
<1>8. Rank("ActiveHover") = 8
  BY DEF Rank, ButtonStates
<1>9. Rank("FlashingHover") = 9
  BY DEF Rank, ButtonStates
<1>10. Rank("MinimizedFlashingHover") = 10
  BY DEF Rank, ButtonStates
<1> QED
  BY <1>1, <1>2, <1>3, <1>4, <1>5, <1>6, <1>7, <1>8, <1>9, <1>10

LEMMA RankIs ==
  /\ \A s \in States : Rank(s) \in 1..10 /\ ButtonStates[Rank(s)] = s
  /\ \A i \in 1..10 : Rank(ButtonStates[i]) = i
<1>1. \A s \in States : Rank(s) \in 1..10
  BY StatesAre, RankAre
<1>2. \A s \in States : ButtonStates[Rank(s)] = s
  <2>1. \A s \in States : \E i \in 1..10 : ButtonStates[i] = s
    BY StatesAre DEF States, Range
  <2>2. ASSUME NEW s \in States PROVE ButtonStates[Rank(s)] = s
    <3>1. \E i \in DOMAIN ButtonStates : ButtonStates[i] = s
      BY <2>1, StatesAre
    <3> QED
      BY <3>1 DEF Rank
  <2> QED
    BY <2>2
<1>3. ASSUME NEW i \in 1..10 PROVE Rank(ButtonStates[i]) = i
  <2>1. /\ ButtonStates[1] = "Base" /\ ButtonStates[2] = "Minimized"
        /\ ButtonStates[3] = "Flashing" /\ ButtonStates[4] = "MinimizedFlashing"
        /\ ButtonStates[5] = "Active" /\ ButtonStates[6] = "Hover"
        /\ ButtonStates[7] = "MinimizedHover" /\ ButtonStates[8] = "ActiveHover"
        /\ ButtonStates[9] = "FlashingHover" /\ ButtonStates[10] = "MinimizedFlashingHover"
    BY DEF ButtonStates
  <2>2. \/ i = 1 \/ i = 2 \/ i = 3 \/ i = 4 \/ i = 5 \/ i = 6 \/ i = 7 \/ i = 8 \/ i = 9 \/ i = 10
    BY <1>3
  <2> QED
    BY <2>1, <2>2, RankAre
<1> QED
  BY <1>1, <1>2, <1>3

\* A state comes after those it depends on.
LEMMA DependentsLater ==
  /\ \A s \in States : Dependencies(s) \subseteq States /\ Dependents(s) \subseteq States
  /\ \A s \in States : \A d \in Dependents(s) : Rank(s) < Rank(d)
<1>1. \A s \in States : Dependencies(s) \subseteq States
  BY StatesAre DEF Dependencies
<1>2. \A d \in States : \A s \in Dependencies(d) : Rank(s) < Rank(d)
  BY StatesAre, RankAre DEF Dependencies
<1>3. \A s \in States : Dependents(s) \subseteq States /\ \A d \in Dependents(s) : s \in Dependencies(d)
  BY DEF Dependents
<1> QED
  BY <1>1, <1>2, <1>3

\* The highest state up to s.
LEMMA HighestIs ==
  ASSUME NEW s \in States, NEW active \in SUBSET States
  PROVE  /\ HighestUpTo(s, active) \in States
         /\ HighestUpTo(s, active) \in active \cup {"Base"}
         /\ \A d \in active : Rank(d) <= Rank(s) => Rank(d) <= Rank(HighestUpTo(s, active))
<1> DEFINE below == {i \in 1..Rank(s) : ButtonStates[i] \in active}
<1>1. Rank(s) \in 1..10 /\ below \in SUBSET (1..10)
  BY RankIs
<1>2. \A d \in active : Rank(d) <= Rank(s) => Rank(d) \in below
  BY <1>1, RankIs
<1>3. CASE below = {}
  <2>1. HighestUpTo(s, active) = "Base"
    BY <1>3 DEF HighestUpTo
  <2> QED
    BY <1>2, <1>3, <2>1, StatesAre
<1>4. CASE below # {}
  <2> DEFINE i == CHOOSE i \in below : \A k \in below : k <= i
  <2>1. HighestUpTo(s, active) = ButtonStates[i]
    BY <1>4 DEF HighestUpTo
  <2> HIDE DEF below
  <2>2. i \in below /\ \A k \in below : k <= i
    BY <1>1, <1>4, Greatest
  <2> HIDE DEF i
  <2>3. ButtonStates[i] \in active /\ i \in 1..10
    BY <1>1, <2>2 DEF below
  <2> QED
    BY <1>2, <2>1, <2>2, <2>3, RankIs
<1> QED
  BY <1>3, <1>4

----------------------------------------------------------------------------
(* The loop over the dependent states, as the sequence of looks it goes     *)
(* through: of the kind "activate" or "clear", for state s, with h for the  *)
(* calls it makes.                                                          *)

Pass(k, s, h, m, d) ==
  IF d \in Dependents(s) /\ (k = "activate" => Dependencies(d) \subseteq m.active) THEN h[d][m] ELSE m

Run(k, s, h, base, run) ==
  /\ run[0] = base
  /\ \A i \in 1..10 : run[i] = Pass(k, s, h, run[i - 1], ButtonStates[i])

\* What the recursive function inside FoldLeft is.
Folds(k, s, h, base, n, f) ==
  f = [S \in SUBSET (1..n) |->
         IF S = {} THEN base ELSE Pass(k, s, h, f[S \ {Max(S)}], ButtonStates[Max(S)])]

LEMMA MaxIs ==
  ASSUME NEW n \in Nat, NEW S \in SUBSET (1..n), n \in S
  PROVE  Max(S) = n
<1>1. \A y \in S : n >= y
  OBVIOUS
<1>2. \A x \in S : (\A y \in S : x >= y) => x = n
  OBVIOUS
<1> QED
  BY <1>1, <1>2 DEF Max

LEMMA FoldsExists ==
  ASSUME NEW k, NEW s, NEW h, NEW base
  PROVE  \E f : Folds(k, s, h, base, 10, f)
<1> DEFINE P == {n \in 0..10 : \E f : Folds(k, s, h, base, n, f)}
<1>1. 0 \in P
  <2> DEFINE f == [S \in SUBSET (1..0) |-> base]
  <2>1. \A S \in SUBSET (1..0) : S = {}
    OBVIOUS
  <2>2. f = [S \in SUBSET (1..0) |->
               IF S = {} THEN base ELSE Pass(k, s, h, f[S \ {Max(S)}], ButtonStates[Max(S)])]
    BY <2>1
  <2> HIDE DEF f
  <2>3. \E g : Folds(k, s, h, base, 0, g)
    BY <2>2 DEF Folds
  <2> QED
    BY <2>3
<1>2. ASSUME NEW n \in 0..10, n \in P, n < 10
      PROVE  n + 1 \in P
  <2>1. PICK f : Folds(k, s, h, base, n, f)
    BY <1>2
  <2> DEFINE Value(g, S) ==
               IF S = {} THEN base ELSE Pass(k, s, h, g[S \ {Max(S)}], ButtonStates[Max(S)])
             g == [S \in SUBSET (1..(n + 1)) |-> IF n + 1 \in S THEN Value(f, S) ELSE f[S]]
  <2>2. n + 1 \in Nat /\ n + 1 \in 0..10 /\ \A j \in 1..(n + 1) : j \in 1..n \/ j = n + 1
    BY <1>2
  <2>3. ASSUME NEW S \in SUBSET (1..(n + 1))
        PROVE  g[S] = Value(g, S)
    <3>1. CASE n + 1 \in S
      <4>1. Max(S) = n + 1
        BY <2>2, <3>1, MaxIs
      <4>2. S \ {Max(S)} \in SUBSET (1..n) /\ S \ {Max(S)} \in SUBSET (1..(n + 1))
            /\ n + 1 \notin S \ {Max(S)}
        BY <2>2, <4>1
      <4>3. g[S \ {Max(S)}] = f[S \ {Max(S)}]
        BY <4>2
      <4>4. g[S] = Value(f, S)
        BY <3>1
      <4> HIDE DEF g
      <4> QED
        BY <4>3, <4>4
    <3>2. CASE n + 1 \notin S
      <4>1. S \in SUBSET (1..n)
        BY <2>2, <3>2
      <4>2. g[S] = f[S]
        BY <3>2
      <4>3. f[S] = Value(f, S)
        BY <2>1, <4>1 DEF Folds
      <4>4. S \ {Max(S)} \in SUBSET (1..(n + 1)) /\ n + 1 \notin S \ {Max(S)}
        BY <3>2
      <4>5. g[S \ {Max(S)}] = f[S \ {Max(S)}]
        BY <4>4
      <4> HIDE DEF g
      <4> QED
        BY <4>2, <4>3, <4>5
    <3> QED
      BY <3>1, <3>2
  <2>4. g = [S \in SUBSET (1..(n + 1)) |-> g[S]]
    OBVIOUS
  <2> HIDE DEF g
  <2>5. g = [S \in SUBSET (1..(n + 1)) |-> Value(g, S)]
    BY <2>3, <2>4
  <2>6. Folds(k, s, h, base, n + 1, g)
    BY <2>5 DEF Folds
  <2> QED
    BY <2>2, <2>6
<1> HIDE DEF P
<1>3. 10 \in P
  <2>1. 10 \in Nat /\ 10 \in 0..10
    OBVIOUS
  <2>2. 0..10 \subseteq P
    BY <1>1, <1>2, <2>1, UpTo
  <2> QED
    BY <2>1, <2>2
<1> QED
  BY <1>3 DEF P

LEMMA FoldsRun ==
  ASSUME NEW k, NEW s, NEW h, NEW base, NEW f, Folds(k, s, h, base, 10, f)
  PROVE  \E run : Run(k, s, h, base, run) /\ run[10] = f[1..10]
<1> DEFINE run == [i \in 0..10 |-> f[1..i]]
<1>1. run[0] = base
  <2>1. 1..0 = {} /\ {} \in SUBSET (1..10)
    OBVIOUS
  <2>2. f[{}] = base
    BY <2>1 DEF Folds
  <2> QED
    BY <2>1, <2>2
<1>2. ASSUME NEW i \in 1..10
      PROVE  run[i] = Pass(k, s, h, run[i - 1], ButtonStates[i])
  <2>1. /\ i \in Nat /\ 1..i \in SUBSET (1..10) /\ i \in 1..i /\ 1..i # {}
        /\ (1..i) \ {i} = 1..(i - 1) /\ i - 1 \in 0..10 /\ i \in 0..10
    BY <1>2
  <2>2. Max(1..i) = i
    BY <2>1, MaxIs
  <2>3. f[1..i] = Pass(k, s, h, f[(1..i) \ {Max(1..i)}], ButtonStates[Max(1..i)])
    BY <2>1 DEF Folds
  <2>4. f[1..i] = Pass(k, s, h, f[1..(i - 1)], ButtonStates[i])
    BY <2>1, <2>2, <2>3
  <2>5. run[i] = f[1..i] /\ run[i - 1] = f[1..(i - 1)]
    BY <2>1
  <2> QED
    BY <2>4, <2>5
<1>3. run[10] = f[1..10]
  OBVIOUS
<1> HIDE DEF run
<1> QED
  BY <1>1, <1>2, <1>3 DEF Run

\* The two loops of the model.
ActivateLoop(s, h, base) ==
  FoldLeft(LAMBDA m, d : IF d \in Dependents(s) /\ Dependencies(d) \subseteq m.active
                           THEN h[d][m] ELSE m,
           base, ButtonStates)

ClearLoop(s, h, base) ==
  FoldLeft(LAMBDA m, d : IF d \in Dependents(s) THEN h[d][m] ELSE m, base, ButtonStates)

LEMMA ActivateLoopRuns ==
  ASSUME NEW s, NEW h, NEW base
  PROVE  \E run : Run("activate", s, h, base, run) /\ run[10] = ActivateLoop(s, h, base)
<1> DEFINE IsFold(f) ==
             f = [S \in SUBSET (1..10) |->
                   IF S = {} THEN base
                   ELSE IF ButtonStates[Max(S)] \in Dependents(s)
                           /\ Dependencies(ButtonStates[Max(S)]) \subseteq f[S \ {Max(S)}].active
                          THEN h[ButtonStates[Max(S)]][f[S \ {Max(S)}]] ELSE f[S \ {Max(S)}]]
<1>1. ActivateLoop(s, h, base) = (CHOOSE f : IsFold(f))[1..10]
  BY StatesAre DEF ActivateLoop, FoldLeft, MapThenFoldSet
<1>2. \A f : IsFold(f) <=> Folds("activate", s, h, base, 10, f)
  BY DEF Folds, Pass
<1> HIDE DEF IsFold
<1>3. \E f : IsFold(f)
  BY <1>2, FoldsExists
<1>4. PICK f : IsFold(f) /\ ActivateLoop(s, h, base) = f[1..10]
  BY <1>1, <1>3
<1> QED
  BY <1>2, <1>4, FoldsRun

LEMMA ClearLoopRuns ==
  ASSUME NEW s, NEW h, NEW base
  PROVE  \E run : Run("clear", s, h, base, run) /\ run[10] = ClearLoop(s, h, base)
<1> DEFINE IsFold(f) ==
             f = [S \in SUBSET (1..10) |->
                   IF S = {} THEN base
                   ELSE IF ButtonStates[Max(S)] \in Dependents(s)
                          THEN h[ButtonStates[Max(S)]][f[S \ {Max(S)}]] ELSE f[S \ {Max(S)}]]
<1>1. ClearLoop(s, h, base) = (CHOOSE f : IsFold(f))[1..10]
  BY StatesAre DEF ClearLoop, FoldLeft, MapThenFoldSet
<1>2. \A f : IsFold(f) <=> Folds("clear", s, h, base, 10, f)
  BY DEF Folds, Pass
<1> HIDE DEF IsFold
<1>3. \E f : IsFold(f)
  BY <1>2, FoldsExists
<1>4. PICK f : IsFold(f) /\ ClearLoop(s, h, base) = f[1..10]
  BY <1>1, <1>3
<1> QED
  BY <1>2, <1>4, FoldsRun

\* The loop depends on no other calls than those for the dependent states.
LEMMA RunAgrees ==
  ASSUME NEW k, NEW s, NEW h, NEW g, NEW base, NEW run, NEW other,
         Run(k, s, h, base, run), Run(k, s, g, base, other),
         \A d \in Dependents(s) : h[d] = g[d]
  PROVE  run[10] = other[10]
<1> DEFINE P == {i \in 0..10 : run[i] = other[i]}
<1>1. 0 \in P
  BY DEF Run
<1>2. ASSUME NEW i \in 0..10, i \in P, i < 10
      PROVE  i + 1 \in P
  <2>1. PICK j \in 1..10 : j = i + 1 /\ j - 1 = i
    BY <1>2
  <2>2. /\ run[j] = Pass(k, s, h, run[i], ButtonStates[j])
        /\ other[j] = Pass(k, s, g, other[i], ButtonStates[j])
    BY <2>1 DEF Run
  <2>3. run[i] = other[i]
    BY <1>2
  <2>4. run[j] = other[j]
    BY <2>2, <2>3 DEF Pass
  <2> QED
    BY <2>1, <2>4
<1> HIDE DEF P
<1>3. 10 \in P
  <2>1. 10 \in Nat /\ 10 \in 0..10
    OBVIOUS
  <2>2. 0..10 \subseteq P
    BY <1>1, <1>2, <2>1, UpTo
  <2> QED
    BY <2>1, <2>2
<1> QED
  BY <1>3 DEF P

----------------------------------------------------------------------------
(* The recursion.                                                           *)

\* A call of ActivateState or ClearState, with h for the calls it makes.
ActivateBody(h) ==
  [s \in States |-> [l \in Look |->
     IF s \in l.active THEN l
     ELSE LET done == ActivateLoop(s, h, [l EXCEPT !.active = @ \cup {s}])
          IN  [done EXCEPT !.current = IF Rank(@) < Rank(s) THEN s ELSE @]]]

Cleared(s, l) ==
  [active |-> l.active \ {s},
   current |-> IF s = l.current THEN HighestUpTo(s, l.active \ {s}) ELSE l.current]

ClearBody(h) ==
  [s \in States |-> [l \in Look |->
     IF s \notin l.active THEN l ELSE ClearLoop(s, h, Cleared(s, l))]]

Body(k, h) == IF k = "activate" THEN ActivateBody(h) ELSE ClearBody(h)

LEMMA BodyAgrees ==
  ASSUME NEW k \in {"activate", "clear"}, NEW s \in States, NEW h, NEW g,
         \A d \in Dependents(s) : h[d] = g[d]
  PROVE  Body(k, h)[s] = Body(k, g)[s]
<1>1. ASSUME NEW base PROVE ActivateLoop(s, h, base) = ActivateLoop(s, g, base)
  <2>1. PICK run : Run("activate", s, h, base, run) /\ run[10] = ActivateLoop(s, h, base)
    BY ActivateLoopRuns
  <2>2. PICK other : Run("activate", s, g, base, other) /\ other[10] = ActivateLoop(s, g, base)
    BY ActivateLoopRuns
  <2> QED
    BY <2>1, <2>2, RunAgrees
<1>2. ASSUME NEW base PROVE ClearLoop(s, h, base) = ClearLoop(s, g, base)
  <2>1. PICK run : Run("clear", s, h, base, run) /\ run[10] = ClearLoop(s, h, base)
    BY ClearLoopRuns
  <2>2. PICK other : Run("clear", s, g, base, other) /\ other[10] = ClearLoop(s, g, base)
    BY ClearLoopRuns
  <2> QED
    BY <2>1, <2>2, RunAgrees
<1>3. CASE k = "activate"
  BY <1>1, <1>3 DEF Body, ActivateBody
<1>4. CASE k = "clear"
  BY <1>2, <1>4 DEF Body, ClearBody
<1> QED
  BY <1>3, <1>4

LEMMA BodyIsFunction ==
  ASSUME NEW k \in {"activate", "clear"}, NEW h
  PROVE  Body(k, h) = [s \in States |-> Body(k, h)[s]]
BY DEF Body, ActivateBody, ClearBody

\* The calls end, as they are for later and later states.
LEMMA CallsExist ==
  ASSUME NEW k \in {"activate", "clear"}
  PROVE  \E h : h = Body(k, h)
<1> DEFINE P == {n \in 0..10 : \E h : \A s \in States : Rank(s) > 10 - n => h[s] = Body(k, h)[s]}
<1>1. 0 \in P
  <2>1. \A s \in States : ~(Rank(s) > 10 - 0)
    BY RankIs
  <2> QED
    BY <2>1
<1>2. ASSUME NEW n \in 0..10, n \in P, n < 10
      PROVE  n + 1 \in P
  <2>1. PICK h : \A s \in States : Rank(s) > 10 - n => h[s] = Body(k, h)[s]
    BY <1>2
  <2>2. ASSUME NEW s \in States, Rank(s) > 10 - (n + 1)
        PROVE  Body(k, h)[s] = Body(k, Body(k, h))[s]
    <3>1. \A d \in Dependents(s) : d \in States /\ Rank(d) > 10 - n
      BY <1>2, <2>2, DependentsLater, RankIs
    <3>2. \A d \in Dependents(s) : h[d] = Body(k, h)[d]
      BY <2>1, <3>1
    <3> QED
      BY <3>2, BodyAgrees
  <2>3. \E g : \A s \in States : Rank(s) > 10 - (n + 1) => g[s] = Body(k, g)[s]
    BY <2>2
  <2>4. n + 1 \in 0..10
    BY <1>2
  <2> QED
    BY <2>3, <2>4
<1> HIDE DEF P
<1>3. 10 \in P
  <2>1. 10 \in Nat /\ 10 \in 0..10
    OBVIOUS
  <2>2. 0..10 \subseteq P
    BY <1>1, <1>2, <2>1, UpTo
  <2> QED
    BY <2>1, <2>2
<1>4. PICK h : \A s \in States : h[s] = Body(k, h)[s]
  <2>1. \A s \in States : Rank(s) > 10 - 10
    BY RankIs
  <2> QED
    BY <1>3, <2>1 DEF P
<1>5. \A s \in States : Body(k, h)[s] = Body(k, Body(k, h))[s]
  <2>1. \A s \in States : \A d \in Dependents(s) : h[d] = Body(k, h)[d]
    BY <1>4, DependentsLater
  <2> QED
    BY <2>1, BodyAgrees
<1>6. Body(k, h) = Body(k, Body(k, h))
  BY <1>5, BodyIsFunction
<1> QED
  BY <1>6

LEMMA ActivateIs ==
  ASSUME NEW s, NEW l
  PROVE  \E h : h = ActivateBody(h) /\ ActivateState(s, l) = h[s][l]
<1>1. \E h : h = ActivateBody(h)
  BY CallsExist DEF Body
<1>2. ActivateState(s, l) = (CHOOSE h : h = ActivateBody(h))[s][l]
  BY DEF ActivateState, ActivateBody, ActivateLoop
<1> QED
  BY <1>1, <1>2

LEMMA ClearIs ==
  ASSUME NEW s, NEW l
  PROVE  \E h : h = ClearBody(h) /\ ClearState(s, l) = h[s][l]
<1>1. \E h : h = ClearBody(h)
  <2>1. \E h : h = Body("clear", h)
    BY CallsExist
  <2> QED
    BY <2>1 DEF Body
<1>2. ClearState(s, l) = (CHOOSE h : h = ClearBody(h))[s][l]
  BY DEF ClearState, ClearBody, ClearLoop, Cleared
<1> QED
  BY <1>1, <1>2

----------------------------------------------------------------------------
(* What the calls do, step by step of their loops.                          *)

\* Apart from X every state whose dependencies are active is active, and so are
\* the dependencies of every active one.
Closed(l, X) ==
  \A d \in States \ X : Dependencies(d) # {} /\ Dependencies(d) \subseteq l.active => d \in l.active
Sound(l, X) == \A d \in l.active \ X : Dependencies(d) \subseteq l.active

\* r has become of l by activating states.
Grown(l, r) ==
  /\ r \in Look /\ l.active \subseteq r.active
  /\ r.current \in {l.current} \cup (r.active \ l.active)
  /\ Rank(l.current) <= Rank(r.current)
  /\ \A d \in r.active \ l.active : Rank(d) <= Rank(r.current)

\* The current state is the highest.
Highest(l) ==
  /\ l.current \in l.active \cup {"Base"}
  /\ \A d \in l.active : Rank(d) <= Rank(l.current)

Activates(h, s) ==
  \A l \in Look :
    /\ Grown(l, h[s][l]) /\ s \in h[s][l].active
    /\ \A X \in SUBSET States : Closed(l, X \cup {s}) => Closed(h[s][l], X)
    /\ Sound(l, {}) /\ Dependencies(s) \subseteq l.active => Sound(h[s][l], {})

Clears(h, s) ==
  \A l \in Look :
    /\ h[s][l] \in Look /\ h[s][l].active \subseteq l.active \ {s}
    /\ \A X \in SUBSET States : Sound(l, X \cup {s}) => Sound(h[s][l], X)
    /\ Closed(l, {}) /\ (Dependencies(s) = {} \/ ~(Dependencies(s) \subseteq l.active))
         => Closed(h[s][l], {})
    /\ Highest(l) => Highest(h[s][l])

\* The states the loop has still to come to, before its step i + 1.
Later(i) == {ButtonStates[j] : j \in (i + 1)..10}

LEMMA LaterIs ==
  /\ Later(0) = States /\ Later(10) = {}
  /\ \A i \in 1..10 : Later(i - 1) = Later(i) \cup {ButtonStates[i]}
<1>1. Later(10) = {}
  BY DEF Later
<1>2. Later(0) = States
  <2>1. 0 + 1 = 1
    OBVIOUS
  <2>2. \A s \in States : \E j \in 1..10 : ButtonStates[j] = s
    BY RankIs
  <2> QED
    BY <2>1, <2>2, StatesAre DEF Later
<1>3. ASSUME NEW i \in 1..10 PROVE Later(i - 1) = Later(i) \cup {ButtonStates[i]}
  <2>1. \A j : j \in ((i - 1) + 1)..10 <=> (j = i \/ j \in (i + 1)..10)
    BY <1>3
  <2> QED
    BY <2>1 DEF Later
<1> QED
  BY <1>1, <1>2, <1>3

LEMMA GrownFurther ==
  ASSUME NEW l \in Look, NEW m, NEW r, Grown(l, m), Grown(m, r)
  PROVE  Grown(l, r)
<1>1. /\ l.current \in States /\ m \in Look /\ r \in Look
      /\ m.current \in States /\ r.current \in States
      /\ m.active \subseteq States /\ r.active \subseteq States
  BY DEF Grown, Look
<1>2. /\ Rank(l.current) \in 1..10 /\ Rank(m.current) \in 1..10 /\ Rank(r.current) \in 1..10
      /\ \A d \in r.active : Rank(d) \in 1..10
  BY <1>1, RankIs
<1>3. /\ Rank(l.current) <= Rank(r.current)
      /\ \A d \in r.active \ l.active : Rank(d) <= Rank(r.current)
  BY <1>1, <1>2 DEF Grown
<1> QED
  BY <1>1, <1>3 DEF Grown

LEMMA ActivateLoopKeeps ==
  ASSUME NEW s \in States, NEW h, \A d \in Dependents(s) : Activates(h, d),
         NEW base \in Look, NEW run, Run("activate", s, h, base, run)
  PROVE  /\ Grown(base, run[10])
         /\ \A X \in SUBSET States : Closed(base, X \cup Dependents(s)) => Closed(run[10], X)
         /\ Sound(base, {}) => Sound(run[10], {})
<1> DEFINE P == {i \in 0..10 :
              /\ Grown(base, run[i])
              /\ \A X \in SUBSET States :
                   Closed(base, X \cup Dependents(s)) => Closed(run[i], X \cup (Dependents(s) \cap Later(i)))
              /\ Sound(base, {}) => Sound(run[i], {})}
<1>0. Dependents(s) \subseteq States
  BY DependentsLater
<1>1. 0 \in P
  <2>1. run[0] = base
    BY DEF Run
  <2>2. Grown(base, base)
    <3>1. Rank(base.current) \in 1..10
      BY RankIs DEF Look
    <3> QED
      BY <3>1 DEF Grown
  <2>3. Dependents(s) \cap Later(0) = Dependents(s)
    BY <1>0, LaterIs
  <2> QED
    BY <2>1, <2>2, <2>3
<1>2. ASSUME NEW i \in 0..10, i \in P, i < 10
      PROVE  i + 1 \in P
  <2>1. PICK j \in 1..10 : j = i + 1 /\ j - 1 = i
    BY <1>2
  <2> DEFINE m == run[i]
             r == run[j]
             d == ButtonStates[j]
  <2>2. r = Pass("activate", s, h, m, d) /\ d \in States
    BY <2>1, StatesAre DEF Run
  <2>3. /\ Grown(base, m) /\ m \in Look
        /\ \A X \in SUBSET States :
             Closed(base, X \cup Dependents(s)) => Closed(m, X \cup (Dependents(s) \cap Later(i)))
        /\ Sound(base, {}) => Sound(m, {})
    BY <1>2 DEF Grown
  <2>4. Later(i) = Later(j) \cup {d}
    BY <2>1, LaterIs
  <2> HIDE DEF m, r, d
  <2>5. CASE d \in Dependents(s) /\ Dependencies(d) \subseteq m.active
    <3>1. r = h[d][m] /\ Activates(h, d)
      BY <2>2, <2>5 DEF Pass
    <3>2. /\ Grown(m, r)
          /\ \A X \in SUBSET States : Closed(m, X \cup {d}) => Closed(r, X)
          /\ Sound(m, {}) => Sound(r, {})
      BY <2>3, <2>5, <3>1 DEF Activates
    <3>3. Grown(base, r)
      BY <2>3, <3>2, GrownFurther
    <3>4. ASSUME NEW X \in SUBSET States, Closed(base, X \cup Dependents(s))
          PROVE  Closed(r, X \cup (Dependents(s) \cap Later(j)))
      <4>1. X \cup (Dependents(s) \cap Later(i)) = (X \cup (Dependents(s) \cap Later(j))) \cup {d}
        BY <2>4, <2>5
      <4>2. X \cup (Dependents(s) \cap Later(j)) \in SUBSET States
        BY <1>0
      <4> QED
        BY <2>3, <3>2, <3>4, <4>1, <4>2
    <3>5. Sound(base, {}) => Sound(r, {})
      BY <2>3, <3>2
    <3> QED
      BY <2>1, <3>3, <3>4, <3>5 DEF r
  <2>6. CASE ~(d \in Dependents(s) /\ Dependencies(d) \subseteq m.active)
    <3>1. r = m
      BY <2>2, <2>6 DEF Pass
    <3>2. ASSUME NEW X \in SUBSET States, Closed(base, X \cup Dependents(s))
          PROVE  Closed(r, X \cup (Dependents(s) \cap Later(j)))
      <4>1. Closed(m, X \cup (Dependents(s) \cap Later(i)))
        BY <2>3, <3>2
      <4> QED
        BY <2>4, <2>6, <3>1, <4>1 DEF Closed
    <3> QED
      BY <2>1, <2>3, <3>1, <3>2 DEF r
  <2> QED
    BY <2>5, <2>6
<1> HIDE DEF P
<1>3. 10 \in P
  <2>1. 10 \in Nat /\ 10 \in 0..10
    OBVIOUS
  <2>2. 0..10 \subseteq P
    BY <1>1, <1>2, <2>1, UpTo
  <2> QED
    BY <2>1, <2>2
<1>4. \A X : X \cup (Dependents(s) \cap Later(10)) = X
  BY LaterIs
<1> QED
  BY <1>3, <1>4 DEF P

LEMMA ClearLoopKeeps ==
  ASSUME NEW s \in States, NEW h, \A d \in Dependents(s) : Clears(h, d),
         NEW base \in Look, s \notin base.active, NEW run, Run("clear", s, h, base, run)
  PROVE  /\ run[10] \in Look /\ run[10].active \subseteq base.active
         /\ \A X \in SUBSET States : Sound(base, X \cup Dependents(s)) => Sound(run[10], X)
         /\ Closed(base, {}) => Closed(run[10], {})
         /\ Highest(base) => Highest(run[10])
<1> DEFINE P == {i \in 0..10 :
              /\ run[i] \in Look /\ run[i].active \subseteq base.active
              /\ \A X \in SUBSET States :
                   Sound(base, X \cup Dependents(s)) => Sound(run[i], X \cup (Dependents(s) \cap Later(i)))
              /\ Closed(base, {}) => Closed(run[i], {})
              /\ Highest(base) => Highest(run[i])}
<1>0. Dependents(s) \subseteq States /\ \A d \in Dependents(s) : s \in Dependencies(d)
  BY DependentsLater DEF Dependents
<1>1. 0 \in P
  <2>1. run[0] = base
    BY DEF Run
  <2>2. Dependents(s) \cap Later(0) = Dependents(s)
    BY <1>0, LaterIs
  <2> QED
    BY <2>1, <2>2
<1>2. ASSUME NEW i \in 0..10, i \in P, i < 10
      PROVE  i + 1 \in P
  <2>1. PICK j \in 1..10 : j = i + 1 /\ j - 1 = i
    BY <1>2
  <2> DEFINE m == run[i]
             r == run[j]
             d == ButtonStates[j]
  <2>2. r = Pass("clear", s, h, m, d) /\ d \in States
    BY <2>1, StatesAre DEF Run
  <2>3. /\ m \in Look /\ m.active \subseteq base.active
        /\ \A X \in SUBSET States :
             Sound(base, X \cup Dependents(s)) => Sound(m, X \cup (Dependents(s) \cap Later(i)))
        /\ Closed(base, {}) => Closed(m, {})
        /\ Highest(base) => Highest(m)
    BY <1>2
  <2>4. Later(i) = Later(j) \cup {d}
    BY <2>1, LaterIs
  <2> HIDE DEF m, r, d
  <2>5. CASE d \in Dependents(s)
    <3>1. r = h[d][m] /\ Clears(h, d) /\ ~(Dependencies(d) \subseteq m.active)
      BY <1>0, <2>2, <2>3, <2>5 DEF Pass
    <3>2. /\ r \in Look /\ r.active \subseteq m.active
          /\ \A X \in SUBSET States : Sound(m, X \cup {d}) => Sound(r, X)
          /\ Closed(m, {}) => Closed(r, {})
          /\ Highest(m) => Highest(r)
      BY <2>3, <3>1 DEF Clears
    <3>3. ASSUME NEW X \in SUBSET States, Sound(base, X \cup Dependents(s))
          PROVE  Sound(r, X \cup (Dependents(s) \cap Later(j)))
      <4>1. X \cup (Dependents(s) \cap Later(i)) = (X \cup (Dependents(s) \cap Later(j))) \cup {d}
        BY <2>4, <2>5
      <4>2. X \cup (Dependents(s) \cap Later(j)) \in SUBSET States
        BY <1>0
      <4> QED
        BY <2>3, <3>2, <3>3, <4>1, <4>2
    <3>4. /\ r.active \subseteq base.active
          /\ Closed(base, {}) => Closed(r, {})
          /\ Highest(base) => Highest(r)
      BY <2>3, <3>2
    <3>5. r \in Look
      BY <3>2
    <3> QED
      BY <2>1, <3>3, <3>4, <3>5 DEF r
  <2>6. CASE d \notin Dependents(s)
    <3>1. r = m
      BY <2>2, <2>6 DEF Pass
    <3>2. Dependents(s) \cap Later(i) = Dependents(s) \cap Later(j)
      BY <2>4, <2>6
    <3>3. /\ r \in Look /\ r.active \subseteq base.active
          /\ \A X \in SUBSET States :
               Sound(base, X \cup Dependents(s)) => Sound(r, X \cup (Dependents(s) \cap Later(j)))
          /\ Closed(base, {}) => Closed(r, {})
          /\ Highest(base) => Highest(r)
      BY <2>3, <3>1, <3>2
    <3> QED
      BY <2>1, <3>3 DEF r
  <2> QED
    BY <2>5, <2>6
<1> HIDE DEF P
<1>3. 10 \in P
  <2>1. 10 \in Nat /\ 10 \in 0..10
    OBVIOUS
  <2>2. 0..10 \subseteq P
    BY <1>1, <1>2, <2>1, UpTo
  <2> QED
    BY <2>1, <2>2
<1>4. \A X : X \cup (Dependents(s) \cap Later(10)) = X
  BY LaterIs
<1> QED
  BY <1>3, <1>4 DEF P

----------------------------------------------------------------------------
(* What the calls do.                                                       *)

LEMMA ActivateCall ==
  ASSUME NEW h, h = ActivateBody(h), NEW s \in States,
         \A d \in Dependents(s) : Activates(h, d)
  PROVE  Activates(h, s)
<1> SUFFICES ASSUME NEW l \in Look
             PROVE  /\ Grown(l, h[s][l]) /\ s \in h[s][l].active
                    /\ \A X \in SUBSET States : Closed(l, X \cup {s}) => Closed(h[s][l], X)
                    /\ Sound(l, {}) /\ Dependencies(s) \subseteq l.active => Sound(h[s][l], {})
  BY DEF Activates
<1> DEFINE base == [l EXCEPT !.active = @ \cup {s}]
           done == ActivateLoop(s, h, base)
           r == h[s][l]
<1>1. r = IF s \in l.active THEN l
          ELSE [done EXCEPT !.current = IF Rank(@) < Rank(s) THEN s ELSE @]
  <2>1. ActivateBody(h)[s][l] = IF s \in l.active THEN l
          ELSE [done EXCEPT !.current = IF Rank(@) < Rank(s) THEN s ELSE @]
    BY DEF ActivateBody
  <2> QED
    BY <2>1
<1>2. /\ l.active \subseteq States /\ l.current \in States
      /\ Rank(l.current) \in 1..10 /\ Rank(s) \in 1..10
  BY RankIs DEF Look
<1>3. CASE s \in l.active
  <2>1. r = l
    BY <1>1, <1>3
  <2> HIDE DEF r
  <2>2. Grown(l, r)
    BY <1>2, <2>1 DEF Grown
  <2>3. ASSUME NEW X \in SUBSET States, Closed(l, X \cup {s}) PROVE Closed(r, X)
    BY <1>3, <2>1, <2>3 DEF Closed
  <2>4. Sound(l, {}) => Sound(r, {})
    BY <2>1
  <2>5. s \in r.active
    BY <1>3, <2>1
  <2> QED
    BY <2>2, <2>3, <2>4, <2>5 DEF r
<1>4. CASE s \notin l.active
  <2>1. base \in Look /\ base.active = l.active \cup {s} /\ base.current = l.current
    BY DEF Look
  <2> HIDE DEF base
  <2>2. PICK run : Run("activate", s, h, base, run) /\ run[10] = done
    BY ActivateLoopRuns
  <2> HIDE DEF done
  <2>3. /\ Grown(base, done)
        /\ \A X \in SUBSET States : Closed(base, X \cup Dependents(s)) => Closed(done, X)
        /\ Sound(base, {}) => Sound(done, {})
    BY <2>1, <2>2, ActivateLoopKeeps
  <2>4. /\ done \in Look /\ done.active \subseteq States /\ done.current \in States
        /\ Rank(done.current) \in 1..10 /\ \A d \in done.active : Rank(d) \in 1..10
    BY <2>3, RankIs DEF Grown, Look
  <2>5. r = [done EXCEPT !.current = IF Rank(@) < Rank(s) THEN s ELSE @]
    BY <1>1, <1>4
  <2> HIDE DEF r
  <2>6. /\ r \in Look /\ r.active = done.active
        /\ r.current = IF Rank(done.current) < Rank(s) THEN s ELSE done.current
    BY <2>4, <2>5 DEF Look
  <2>7. Grown(l, r) /\ s \in r.active
    <3>1. l.active \cup {s} \subseteq r.active
      BY <2>1, <2>3, <2>6 DEF Grown
    <3>2. r.current \in {l.current} \cup (r.active \ l.active)
      BY <1>4, <2>1, <2>3, <2>6, <3>1 DEF Grown
    <3>3. Rank(l.current) <= Rank(r.current)
      BY <1>2, <2>1, <2>3, <2>4, <2>6 DEF Grown
    <3>4. ASSUME NEW d \in r.active \ l.active PROVE Rank(d) <= Rank(r.current)
      <4>1. CASE d = s
        BY <1>2, <2>4, <2>6, <4>1
      <4>2. CASE d # s
        <5>1. Rank(d) <= Rank(done.current) /\ Rank(d) \in 1..10
          BY <2>1, <2>3, <2>4, <2>6, <4>2 DEF Grown
        <5> QED
          BY <1>2, <2>4, <2>6, <5>1
      <4> QED
        BY <4>1, <4>2
    <3> QED
      BY <2>6, <3>1, <3>2, <3>3, <3>4 DEF Grown
  <2>8. ASSUME NEW X \in SUBSET States, Closed(l, X \cup {s}) PROVE Closed(r, X)
    <3>1. Closed(base, X \cup Dependents(s))
      BY <2>1, <2>8 DEF Closed, Dependents
    <3> QED
      BY <2>3, <2>6, <3>1 DEF Closed
  <2>9. ASSUME Sound(l, {}), Dependencies(s) \subseteq l.active PROVE Sound(r, {})
    <3>1. Sound(base, {})
      BY <2>1, <2>9 DEF Sound
    <3> QED
      BY <2>3, <2>6, <3>1 DEF Sound
  <2> QED
    BY <2>7, <2>8, <2>9 DEF r
<1> QED
  BY <1>3, <1>4

LEMMA ClearCall ==
  ASSUME NEW h, h = ClearBody(h), NEW s \in States,
         \A d \in Dependents(s) : Clears(h, d)
  PROVE  Clears(h, s)
<1> SUFFICES ASSUME NEW l \in Look
             PROVE  /\ h[s][l] \in Look /\ h[s][l].active \subseteq l.active \ {s}
                    /\ \A X \in SUBSET States : Sound(l, X \cup {s}) => Sound(h[s][l], X)
                    /\ Closed(l, {}) /\ (Dependencies(s) = {} \/ ~(Dependencies(s) \subseteq l.active))
                         => Closed(h[s][l], {})
                    /\ Highest(l) => Highest(h[s][l])
  BY DEF Clears
<1> DEFINE base == Cleared(s, l)
           r == h[s][l]
<1>1. r = IF s \notin l.active THEN l ELSE ClearLoop(s, h, base)
  <2>1. ClearBody(h)[s][l] = IF s \notin l.active THEN l ELSE ClearLoop(s, h, base)
    BY DEF ClearBody
  <2> QED
    BY <2>1
<1>2. l.active \subseteq States /\ l.current \in States
  BY DEF Look
<1>3. CASE s \notin l.active
  <2>1. r = l
    BY <1>1, <1>3
  <2> HIDE DEF r
  <2> QED
    BY <1>3, <2>1 DEF Sound, r
<1>4. CASE s \in l.active
  <2> DEFINE highest == HighestUpTo(s, l.active \ {s})
  <2>1. /\ highest \in States /\ highest \in (l.active \ {s}) \cup {"Base"}
        /\ \A d \in l.active \ {s} : Rank(d) <= Rank(s) => Rank(d) <= Rank(highest)
    BY <1>2, HighestIs
  <2>2. /\ base \in Look /\ base.active = l.active \ {s}
        /\ base.current = IF s = l.current THEN highest ELSE l.current
    BY <1>2, <2>1 DEF Cleared, Look
  <2> HIDE DEF base, highest
  <2>3. PICK run : Run("clear", s, h, base, run) /\ run[10] = ClearLoop(s, h, base)
    BY ClearLoopRuns
  <2>4. run[10] = r
    BY <1>1, <1>4, <2>3
  <2> HIDE DEF r
  <2>5. /\ r \in Look /\ r.active \subseteq base.active
        /\ \A X \in SUBSET States : Sound(base, X \cup Dependents(s)) => Sound(r, X)
        /\ Closed(base, {}) => Closed(r, {})
        /\ Highest(base) => Highest(r)
    <3>1. s \notin base.active
      BY <2>2
    <3> QED
      BY <2>2, <2>3, <2>4, <3>1, ClearLoopKeeps
  <2>6. ASSUME NEW X \in SUBSET States, Sound(l, X \cup {s}) PROVE Sound(r, X)
    <3>1. Sound(base, X \cup Dependents(s))
      BY <1>2, <2>2, <2>6 DEF Sound, Dependents
    <3> QED
      BY <2>5, <3>1
  <2>7. ASSUME Closed(l, {}), Dependencies(s) = {} \/ ~(Dependencies(s) \subseteq l.active)
        PROVE  Closed(r, {})
    <3>1. Closed(base, {})
      BY <2>2, <2>7 DEF Closed
    <3> QED
      BY <2>5, <3>1
  <2>8. ASSUME Highest(l) PROVE Highest(r)
    <3>1. Highest(base)
      BY <2>1, <2>2, <2>8 DEF Highest
    <3> QED
      BY <2>5, <3>1
  <2>9. r.active \subseteq l.active \ {s}
    BY <2>2, <2>5
  <2> QED
    BY <2>5, <2>6, <2>7, <2>8, <2>9 DEF r
<1> QED
  BY <1>3, <1>4

LEMMA AllActivate ==
  ASSUME NEW h, h = ActivateBody(h)
  PROVE  \A s \in States : Activates(h, s)
<1> DEFINE P == {n \in 0..10 : \A s \in States : Rank(s) > 10 - n => Activates(h, s)}
<1>1. 0 \in P
  <2>1. \A s \in States : ~(Rank(s) > 10 - 0)
    BY RankIs
  <2> QED
    BY <2>1
<1>2. ASSUME NEW n \in 0..10, n \in P, n < 10
      PROVE  n + 1 \in P
  <2>1. ASSUME NEW s \in States, Rank(s) > 10 - (n + 1)
        PROVE  Activates(h, s)
    <3>1. \A d \in Dependents(s) : d \in States /\ Rank(d) > 10 - n
      BY <1>2, <2>1, DependentsLater, RankIs
    <3>2. \A d \in Dependents(s) : Activates(h, d)
      BY <1>2, <3>1
    <3> QED
      BY <3>2, ActivateCall
  <2>2. n + 1 \in 0..10
    BY <1>2
  <2> QED
    BY <2>1, <2>2
<1> HIDE DEF P
<1>3. 10 \in P
  <2>1. 10 \in Nat /\ 10 \in 0..10
    OBVIOUS
  <2>2. 0..10 \subseteq P
    BY <1>1, <1>2, <2>1, UpTo
  <2> QED
    BY <2>1, <2>2
<1>4. \A s \in States : Rank(s) > 10 - 10
  BY RankIs
<1> QED
  BY <1>3, <1>4 DEF P

LEMMA AllClear ==
  ASSUME NEW h, h = ClearBody(h)
  PROVE  \A s \in States : Clears(h, s)
<1> DEFINE P == {n \in 0..10 : \A s \in States : Rank(s) > 10 - n => Clears(h, s)}
<1>1. 0 \in P
  <2>1. \A s \in States : ~(Rank(s) > 10 - 0)
    BY RankIs
  <2> QED
    BY <2>1
<1>2. ASSUME NEW n \in 0..10, n \in P, n < 10
      PROVE  n + 1 \in P
  <2>1. ASSUME NEW s \in States, Rank(s) > 10 - (n + 1)
        PROVE  Clears(h, s)
    <3>1. \A d \in Dependents(s) : d \in States /\ Rank(d) > 10 - n
      BY <1>2, <2>1, DependentsLater, RankIs
    <3>2. \A d \in Dependents(s) : Clears(h, d)
      BY <1>2, <3>1
    <3> QED
      BY <3>2, ClearCall
  <2>2. n + 1 \in 0..10
    BY <1>2
  <2> QED
    BY <2>1, <2>2
<1> HIDE DEF P
<1>3. 10 \in P
  <2>1. 10 \in Nat /\ 10 \in 0..10
    OBVIOUS
  <2>2. 0..10 \subseteq P
    BY <1>1, <1>2, <2>1, UpTo
  <2> QED
    BY <2>1, <2>2
<1>4. \A s \in States : Rank(s) > 10 - 10
  BY RankIs
<1> QED
  BY <1>3, <1>4 DEF P

----------------------------------------------------------------------------
(* The looks of the buttons.                                                *)

AsItIs(l) == l \in Look /\ Closed(l, {}) /\ Sound(l, {}) /\ Highest(l)

LEMMA ActivateKeepsLook ==
  ASSUME NEW s \in States, Dependencies(s) = {}, NEW l, AsItIs(l)
  PROVE  AsItIs(ActivateState(s, l))
<1>1. PICK h : h = ActivateBody(h) /\ ActivateState(s, l) = h[s][l]
  BY ActivateIs
<1> DEFINE r == h[s][l]
<1>2. Activates(h, s) /\ l \in Look
  BY <1>1, AllActivate DEF AsItIs
<1>3. /\ Grown(l, r)
      /\ \A X \in SUBSET States : Closed(l, X \cup {s}) => Closed(r, X)
      /\ Sound(l, {}) => Sound(r, {})
  BY <1>2 DEF Activates
<1> HIDE DEF r
<1>4. Closed(r, {})
  <2>1. Closed(l, {} \cup {s})
    BY DEF AsItIs, Closed
  <2> QED
    BY <1>3, <2>1
<1>5. Highest(r)
  <2>1. /\ r \in Look /\ \A d \in r.active : Rank(d) \in 1..10
        /\ Rank(l.current) \in 1..10 /\ Rank(r.current) \in 1..10
    BY <1>2, <1>3, RankIs DEF Grown, Look
  <2> QED
    BY <1>3, <2>1 DEF AsItIs, Highest, Grown
<1> QED
  BY <1>1, <1>3, <1>4, <1>5 DEF AsItIs, Grown, r

LEMMA ClearKeepsLook ==
  ASSUME NEW s \in States, Dependencies(s) = {}, NEW l, AsItIs(l)
  PROVE  AsItIs(ClearState(s, l))
<1>1. PICK h : h = ClearBody(h) /\ ClearState(s, l) = h[s][l]
  BY ClearIs
<1>2. Clears(h, s) /\ l \in Look
  BY <1>1, AllClear DEF AsItIs
<1>3. Sound(l, {} \cup {s})
  BY DEF AsItIs, Sound
<1>4. {} \in SUBSET States
  OBVIOUS
<1> QED
  BY <1>1, <1>2, <1>3, <1>4 DEF Clears, AsItIs

LooksInv ==
  /\ activeStates = [b \in Buttons |-> activeStates[b]]
  /\ currentState = [b \in Buttons |-> currentState[b]]
  /\ \A b \in Buttons : AsItIs(LookOf(b))

\* The states that are activated and cleared from outside.
LEMMA Triggers ==
  \A s \in {"Minimized", "Flashing", "Active", "Hover"} : s \in States /\ Dependencies(s) = {}
BY StatesAre DEF Dependencies

LEMMA BlankIs == AsItIs(Blank)
<1>1. Blank \in Look /\ Blank.active = {} /\ Blank.current = "Base"
  BY StatesAre DEF Blank, Look
<1> QED
  BY <1>1 DEF AsItIs, Closed, Sound, Highest

LEMMA SetLookKeeps ==
  ASSUME LooksInv, NEW b \in Buttons, NEW l, AsItIs(l), SetLook(b, l)
  PROVE  LooksInv'
<1>1. /\ activeStates' = [activeStates EXCEPT ![b] = l.active]
      /\ currentState' = [currentState EXCEPT ![b] = l.current]
      /\ l = [active |-> l.active, current |-> l.current]
  BY DEF SetLook, AsItIs, Look
<1>2. /\ activeStates = [c \in Buttons |-> activeStates[c]]
      /\ currentState = [c \in Buttons |-> currentState[c]]
  BY DEF LooksInv
<1>3. /\ \A c \in Buttons : activeStates'[c] = IF c = b THEN l.active ELSE activeStates[c]
      /\ \A c \in Buttons : currentState'[c] = IF c = b THEN l.current ELSE currentState[c]
  BY <1>1, <1>2
<1>4. /\ activeStates' = [c \in Buttons |-> activeStates'[c]]
      /\ currentState' = [c \in Buttons |-> currentState'[c]]
  BY <1>1, <1>2
<1>5. ASSUME NEW c \in Buttons PROVE AsItIs(LookOf(c)')
  <2>1. LookOf(c)' = IF c = b THEN l ELSE LookOf(c)
    BY <1>1, <1>3 DEF LookOf
  <2> QED
    BY <2>1 DEF LooksInv
<1> QED
  BY <1>4, <1>5 DEF LooksInv

LEMMA LooksInvInit == PaintInit => LooksInv
<1> SUFFICES ASSUME PaintInit PROVE LooksInv
  OBVIOUS
<1>1. /\ activeStates = [b \in Buttons |-> Blank.active]
      /\ currentState = [b \in Buttons |-> Blank.current]
  BY DEF PaintInit
<1>2. \A b \in Buttons : LookOf(b) = Blank
  BY <1>1 DEF LookOf, Blank
<1> QED
  BY <1>1, <1>2, BlankIs DEF LooksInv

LEMMA LooksInvNext == LooksInv /\ [PaintNext]_paintVars => LooksInv'
<1> SUFFICES ASSUME LooksInv, [PaintNext]_paintVars
             PROVE  LooksInv'
  OBVIOUS
<1>1. CASE UNCHANGED stateVars
  <2>1. UNCHANGED <<activeStates, currentState>>
    BY <1>1 DEF stateVars
  <2> QED
    BY <2>1 DEF LooksInv, LookOf
<1>2. ASSUME NEW b \in Buttons, Activate(b) PROVE LooksInv'
  <2> DEFINE l == ClearState("Minimized", ActivateState("Active", LookOf(b)))
  <2>1. SetLook(b, l) \/ SetLook(b, ClearState("Flashing", l))
    BY <1>2 DEF Activate
  <2>2. AsItIs(LookOf(b))
    BY DEF LooksInv
  <2>3. AsItIs(ActivateState("Active", LookOf(b)))
    BY <2>2, Triggers, ActivateKeepsLook
  <2>4. AsItIs(l)
    BY <2>3, Triggers, ClearKeepsLook
  <2> HIDE DEF l
  <2>5. AsItIs(ClearState("Flashing", l))
    BY <2>4, Triggers, ClearKeepsLook
  <2> QED
    BY <2>1, <2>4, <2>5, SetLookKeeps
<1>3. ASSUME NEW b \in Buttons, ChangeState(b) PROVE LooksInv'
  <2>1. AsItIs(LookOf(b))
    BY DEF LooksInv
  <2>2. \A s \in {"Minimized", "Flashing", "Active", "Hover"} :
          AsItIs(ActivateState(s, LookOf(b))) /\ AsItIs(ClearState(s, LookOf(b)))
    BY <2>1, Triggers, ActivateKeepsLook, ClearKeepsLook
  <2>3. AsItIs(ToggleState("Flashing", LookOf(b)))
    BY <2>2 DEF ToggleState
  <2>4. \/ \E s \in {"Active", "Hover"} : SetLook(b, ClearState(s, LookOf(b)))
        \/ \E s \in {"Flashing", "Hover", "Minimized"} : SetLook(b, ActivateState(s, LookOf(b)))
        \/ SetLook(b, ToggleState("Flashing", LookOf(b)))
    BY <1>3 DEF ChangeState
  <2> QED
    BY <2>2, <2>3, <2>4, SetLookKeeps
<1>4. ASSUME NEW b \in Buttons, AddButton(b) PROVE LooksInv'
  <2>1. AsItIs(ActivateState("Minimized", Blank))
    BY BlankIs, Triggers, ActivateKeepsLook
  <2>2. SetLook(b, Blank) \/ SetLook(b, ActivateState("Minimized", Blank))
    BY <1>4 DEF AddButton
  <2> QED
    BY <2>1, <2>2, BlankIs, SetLookKeeps
<1>5. ASSUME NEW b \in Buttons, RemoveButton(b) PROVE LooksInv'
  <2>1. SetLook(b, Blank)
    BY <1>5 DEF RemoveButton
  <2> QED
    BY <2>1, BlankIs, SetLookKeeps
<1>6. CASE Paint \/ TopParentGone \/ TopParentBack
  <2>1. UNCHANGED stateVars
    BY <1>6 DEF Paint, TopParentGone, TopParentBack
  <2> QED
    BY <1>1, <2>1
<1>7. CASE UNCHANGED paintVars
  <2>1. UNCHANGED stateVars
    BY <1>7 DEF paintVars
  <2> QED
    BY <1>1, <2>1
<1> QED
  BY <1>2, <1>3, <1>4, <1>5, <1>6, <1>7 DEF PaintNext

\* In whatever order a button is activated, deactivated, minimized, flashed and
\* hovered over, the states that combine others are active exactly when these
\* are, and it is painted in the highest active state (ActivateState,
\* ClearState, ToggleState and their calls of themselves).
THEOREM ButtonsLookAsTheyAre == PaintSpec => []LooksAsItIs
<1>1. LooksInv => LooksAsItIs
  <2> SUFFICES ASSUME LooksInv, NEW b \in Buttons
               PROVE  /\ \A s \in States : Dependencies(s) # {} =>
                           (s \in activeStates[b] <=> Dependencies(s) \subseteq activeStates[b])
                      /\ currentState[b] = HighestUpTo("MinimizedFlashingHover", activeStates[b])
    BY DEF LooksAsItIs
  <2> DEFINE active == activeStates[b]
             current == currentState[b]
             highest == HighestUpTo("MinimizedFlashingHover", active)
  <2>1. /\ AsItIs(LookOf(b)) /\ LookOf(b).active = active /\ LookOf(b).current = current
    BY DEF LooksInv, LookOf
  <2>2. active \subseteq States /\ current \in States
    BY <2>1 DEF AsItIs, Look
  <2> HIDE DEF active, current
  <2>3. \A s \in States : Dependencies(s) # {} => (s \in active <=> Dependencies(s) \subseteq active)
    BY <2>1 DEF AsItIs, Closed, Sound
  <2>4. /\ "MinimizedFlashingHover" \in States /\ Rank("MinimizedFlashingHover") = 10
        /\ Rank("Base") = 1
    BY StatesAre, RankAre
  <2>5. /\ highest \in States /\ highest \in active \cup {"Base"}
        /\ \A d \in active : Rank(d) <= Rank(highest)
    <3>1. \A d \in active : Rank(d) <= 10
      BY <2>2, RankIs
    <3> QED
      BY <2>2, <2>4, <3>1, HighestIs
  <2>6. current \in active \cup {"Base"} /\ \A d \in active : Rank(d) <= Rank(current)
    BY <2>1 DEF AsItIs, Highest
  <2> HIDE DEF highest
  <2>7. Rank(current) \in 1..10 /\ Rank(highest) \in 1..10
    BY <2>2, <2>5, RankIs
  <2>8. Rank(current) = Rank(highest)
    BY <2>4, <2>5, <2>6, <2>7
  <2>9. current = highest
    BY <2>2, <2>5, <2>8, RankIs
  <2> QED
    BY <2>3, <2>9 DEF active, current, highest
<1> QED
  BY <1>1, LooksInvInit, LooksInvNext, PTL DEF PaintSpec

\* The bound in SetResources.
DebtBounded == mDeviceRefCount >= -MaxDebt

\* The types, for any buttons: in particular mDeviceRefCount never exceeds the
\* number of buttons, although it may fall behind (DiscardDeviceResources).
THEOREM PaintTypeCorrect == PaintSpec => []PaintTypeOK
<1>1. ASSUME PaintInv, LooksInv, DebtBounded PROVE PaintTypeOK
  <2>1. /\ buttons \subseteq Buttons /\ onTopLevel \in BOOLEAN
        /\ mRenderTarget \subseteq {Top} \cup buttons /\ Cardinality(buttons) \in Nat
    BY <1>1, FS_CardinalityType DEF PaintInv, TargetsFit
  <2>2. /\ mDeviceRefCount \in Int /\ mDeviceRefCount <= Cardinality(buttons)
        /\ brushes \in {"none", "present", "past"}
    BY <1>1, <2>1 DEF PaintInv, Fits, Resources, Shares
  <2>3. mDeviceRefCount \in (-MaxDebt)..Cardinality(buttons)
    BY <1>1, <2>1, <2>2, PaintingAssumption DEF PaintingAssumption, DebtBounded
  <2>4. \A b \in Buttons : activeStates[b] \in SUBSET States /\ currentState[b] \in States
    BY <1>1 DEF LooksInv, AsItIs, Look, LookOf
  <2>5. activeStates \in [Buttons -> SUBSET States] /\ currentState \in [Buttons -> States]
    BY <1>1, <2>4 DEF LooksInv
  <2> QED
    BY <2>1, <2>2, <2>3, <2>5 DEF PaintTypeOK
<1>2. PaintInit => DebtBounded
  BY PaintingAssumption DEF PaintInit, PaintingAssumption, DebtBounded
<1>3. DebtBounded /\ [PaintNext]_paintVars => DebtBounded'
  <2> SUFFICES ASSUME DebtBounded, [PaintNext]_paintVars
               PROVE  mDeviceRefCount' >= -MaxDebt
    BY DEF DebtBounded
  <2>1. CASE UNCHANGED mDeviceRefCount
    BY <2>1 DEF DebtBounded
  <2>2. ASSUME NEW r, SetResources(r) PROVE mDeviceRefCount' >= -MaxDebt
    BY <2>2 DEF SetResources
  <2>3. CASE \E b \in Buttons : Activate(b) \/ ChangeState(b)
    BY <2>1, <2>3 DEF Activate, ChangeState, deviceVars
  <2>4. CASE \E b \in Buttons : AddButton(b) \/ RemoveButton(b)
    BY <2>1, <2>2, <2>4 DEF AddButton, RemoveButton
  <2>5. CASE Paint \/ TopParentGone \/ TopParentBack
    BY <2>2, <2>5 DEF Paint, TopParentGone, TopParentBack
  <2> QED
    BY <2>1, <2>3, <2>4, <2>5 DEF PaintNext, paintVars, deviceVars
<1>4. PaintSpec => [](PaintInv /\ LooksInv /\ DebtBounded)
  BY <1>2, <1>3, PaintInvInit, PaintInvNext, LooksInvInit, LooksInvNext, PTL DEF PaintSpec
<1> QED
  BY <1>1, <1>4, PTL

----------------------------------------------------------------------------
(* The modules together.                                                    *)

LEMMA ModulesStart ==
  ModulesInit => Init /\ PopupInit /\ SwitcherInit /\ PaintInit
BY DEF ModulesInit

\* A step of one module leaves the others alone.
LEMMA ModulesStep ==
  [ModulesNext]_modulesVars =>
    /\ [Next]_vars /\ [PopupNext]_popupVars /\ [SwitcherNext]_switcherVars /\ [PaintNext]_paintVars
BY DEF ModulesNext, modulesVars

\* The modules keep within their types in one desktop: each has windows and settings of
\* its own, and what happens to one happens to no other (src/nTray, src/nPopup,
\* src/nTaskSwitch, src/nShared/StateRender.hpp).
THEOREM ModulesKeepTypes == ModulesSpec => []ModulesTypeOK
<1>1. ModulesSpec => Spec /\ PopupSpec /\ SwitcherSpec /\ PaintSpec
  BY ModulesStart, ModulesStep, PTL DEF ModulesSpec, Spec, PopupSpec, SwitcherSpec, PaintSpec
<1> QED
  BY <1>1, TrayTypeCorrect, PopupTypeCorrect, SwitcherTypeCorrect, PaintTypeCorrect, PTL
     DEF ModulesTypeOK
=============================================================================
