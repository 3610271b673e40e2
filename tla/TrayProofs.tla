------------------------------ MODULE TrayProofs ------------------------------
(***************************************************************************)
(* What a tray guarantees for any icons, any memory and any number of      *)
(* balloons: the manager and the tray agree, a balloon on the screen       *)
(* belongs to an icon that exists, and the balloon timer runs exactly when *)
(* something waits for it.                                                 *)
(***************************************************************************)
EXTENDS Tray, TLAPS

USE TrayAssumption DEF TrayAssumption

IconsTyped ==
  /\ sCurrentIcons \subseteq Icons
  /\ instances \in [Icons -> Addresses \cup {None}]
  /\ mIcons \subseteq Addresses
  /\ owner \in [Addresses -> Icons \cup {None}]

BalloonsTyped ==
  /\ mQueuedBalloons \in Seq(Balloon)
  /\ mActiveBalloonIcon \in Addresses \cup {None}
  /\ shown \in 0..MaxBalloons

TimersTyped ==
  /\ mBalloonTimer \in Ids
  /\ mNextFreshID \in 1..(MaxIds + 1)
  /\ mReleasedIDs \in Seq(Ids)
  /\ timers \in [Ids -> Handler]
  /\ ticking \subseteq Ids
  /\ upset \in BOOLEAN

RestTyped ==
  /\ asked \in 0..MaxBalloons
  /\ attached \in BOOLEAN /\ loaded \in BOOLEAN
  /\ state \in {"accepts", "quiet", "busy"}

LEMMA TypesSplit == TypeOK <=> IconsTyped /\ BalloonsTyped /\ TimersTyped /\ RestTyped
  BY DEF TypeOK, IconsTyped, BalloonsTyped, TimersTyped, RestTyped

LEMMA TypesSplitNext == TypeOK' <=> IconsTyped' /\ BalloonsTyped' /\ TimersTyped' /\ RestTyped'
  BY DEF TypeOK, IconsTyped, BalloonsTyped, TimersTyped, RestTyped

\* The small ids are ids.
LEMMA SmallIds == 0 \in Ids /\ 1 \in Ids
  BY DEF Ids

----------------------------------------------------------------------------
(* The balloon timer.                                                       *)

\* The generator's next id, and what SetTimer makes of it.
LEMMA StartTimerTyped ==
  ASSUME TimersTyped, NEW running \in SUBSET Ids, StartTimer(running)
  PROVE  TimersTyped'
  <1>1. CASE ~attached
    BY <1>1 DEF StartTimer, TimersTyped
  <1>2. CASE attached
    <2> DEFINE id == IF mReleasedIDs = <<>> THEN mNextFreshID ELSE Head(mReleasedIDs)
    <2> DEFINE returned == IF id = 0 THEN 1 ELSE id
    <2>1. /\ id \in Ids
          /\ mNextFreshID' = IF mReleasedIDs = <<>> THEN mNextFreshID + 1 ELSE mNextFreshID
          /\ mReleasedIDs' = IF mReleasedIDs = <<>> THEN <<>> ELSE Tail(mReleasedIDs)
          /\ ticking' = running \cup {id}
          /\ timers' = [timers EXCEPT ![returned] = IF @ = "none" THEN "tray" ELSE @]
          /\ mBalloonTimer' = returned
          /\ upset' = upset
      BY <1>2 DEF StartTimer
    <2>2. returned \in Ids
      BY <2>1, SmallIds
    <2>3. mNextFreshID' \in 1..(MaxIds + 1)
      <3>1. CASE mReleasedIDs = <<>>
        <4>1. mNextFreshID \in Ids /\ mNextFreshID' = mNextFreshID + 1
          BY <2>1, <3>1
        <4> QED BY <4>1 DEF Ids, TimersTyped
      <3>2. CASE mReleasedIDs # <<>>
        BY <2>1, <3>2 DEF TimersTyped
      <3> QED BY <3>1, <3>2
    <2>4. mReleasedIDs' \in Seq(Ids)
      BY <2>1 DEF TimersTyped
    <2>5. timers' \in [Ids -> Handler]
      BY <2>1, <2>2 DEF TimersTyped, Handler
    <2> HIDE DEF id, returned
    <2> QED BY <2>1, <2>2, <2>3, <2>4, <2>5 DEF TimersTyped
  <1> QED BY <1>1, <1>2

LEMMA StopTimerTyped ==
  ASSUME TimersTyped, NEW running \in SUBSET Ids, StopTimer(running)
  PROVE  TimersTyped'
  BY SmallIds DEF StopTimer, TimersTyped, Handler

LEMMA KeepTimerTyped ==
  ASSUME TimersTyped, NEW running \in SUBSET Ids, KeepTimer(running)
  PROVE  TimersTyped'
  BY StartTimerTyped DEF KeepTimer, TimersTyped

----------------------------------------------------------------------------
(* The balloons: what ShowNextBalloon leaves.                               *)

LEMMA ShowNextTyped ==
  ASSUME TimersTyped, NEW queued \in Seq(Balloon), NEW icons, NEW running \in SUBSET Ids,
         NEW visible \in 0..MaxBalloons,
         ShowNextBalloon(queued, icons, running, visible)
  PROVE  BalloonsTyped' /\ TimersTyped'
  <1>1. CASE state = "busy"
    BY <1>1, KeepTimerTyped DEF ShowNextBalloon, BalloonsTyped
  <1>2. CASE state # "busy" /\ \A k \in DOMAIN queued : Discarded(queued[k], icons)
    <2>1. /\ mQueuedBalloons' = <<>> /\ mActiveBalloonIcon' = None /\ shown' = visible
          /\ StopTimer(running)
      BY <1>2 DEF ShowNextBalloon
    <2>2. <<>> \in Seq(Balloon)
      OBVIOUS
    <2> QED BY <2>1, <2>2, StopTimerTyped DEF BalloonsTyped
  <1>3. CASE state # "busy" /\ ~ \A k \in DOMAIN queued : Discarded(queued[k], icons)
    <2>1. PICK k \in DOMAIN queued :
            /\ mQueuedBalloons' = SubSeq(queued, k + 1, Len(queued))
            /\ mActiveBalloonIcon' = queued[k].icon
            /\ shown' = queued[k].number
      BY <1>3 DEF ShowNextBalloon
    <2>2. KeepTimer(running)
      BY <1>3 DEF ShowNextBalloon
    <2>3. queued[k] \in Balloon
      OBVIOUS
    <2>4. SubSeq(queued, k + 1, Len(queued)) \in Seq(Balloon)
      OBVIOUS
    <2> QED BY <2>1, <2>2, <2>3, <2>4, KeepTimerTyped DEF BalloonsTyped, Balloon
  <1> QED BY <1>1, <1>2, <1>3

\* If nothing else is visible, a balloon is shown exactly for an icon of icons.
LEMMA ShowNextHasIcon ==
  ASSUME NEW queued \in Seq(Balloon), NEW icons, NEW running,
         ShowNextBalloon(queued, icons, running, 0)
  PROVE  /\ shown' # 0 <=> mActiveBalloonIcon' # None
         /\ mActiveBalloonIcon' # None => mActiveBalloonIcon' \in icons
  <1>1. CASE mActiveBalloonIcon' = None /\ shown' = 0
    BY <1>1
  <1>2. CASE \E k \in DOMAIN queued : /\ ~Discarded(queued[k], icons)
                                      /\ mActiveBalloonIcon' = queued[k].icon
                                      /\ shown' = queued[k].number
    <2>1. PICK k \in DOMAIN queued : /\ ~Discarded(queued[k], icons)
                                     /\ mActiveBalloonIcon' = queued[k].icon
                                     /\ shown' = queued[k].number
      BY <1>2
    <2>2. queued[k] \in Balloon
      OBVIOUS
    <2>3. shown' \in 1..MaxBalloons /\ mActiveBalloonIcon' \in Addresses
      BY <2>1, <2>2 DEF Balloon
    <2>4. mActiveBalloonIcon' \in icons
      BY <2>1 DEF Discarded
    <2> QED BY <2>3, <2>4
  <1>3. QED BY <1>1, <1>2 DEF ShowNextBalloon

\* If what is visible belongs to an icon, nothing stays when that icon goes.
LEMMA NothingStays ==
  ASSUME BalloonsTyped
  PROVE  StillVisible \in 0..MaxBalloons /\ (BalloonHasIcon => StillVisible = 0)
  BY DEF StillVisible, BalloonsTyped, BalloonHasIcon

LEMMA EnqueueTyped ==
  ASSUME TypeOK, NEW a \in Addresses, NEW respectful \in BOOLEAN, NEW realtime, NEW icons,
         EnqueueBalloon(a, respectful, realtime, icons)
  PROVE  BalloonsTyped' /\ TimersTyped' /\ asked' \in 0..MaxBalloons
  <1> DEFINE balloon == [icon |-> a, respectful |-> respectful, number |-> asked + 1]
  <1> DEFINE queued  == Append(mQueuedBalloons, balloon)
  <1>1. BalloonsTyped /\ TimersTyped /\ RestTyped
    BY TypesSplit
  <1>2. asked' \in 0..MaxBalloons /\ asked + 1 \in 1..MaxBalloons
    BY <1>1 DEF EnqueueBalloon, RestTyped
  <1>3. queued \in Seq(Balloon)
    <2>1. balloon \in Balloon
      BY <1>2 DEF Balloon
    <2> QED BY <1>1, <2>1 DEF BalloonsTyped
  <1>4. CASE mBalloonTimer = 0
    <2>1. ShowNextBalloon(queued, icons, ticking, StillVisible)
      BY <1>4 DEF EnqueueBalloon
    <2>2. ticking \in SUBSET Ids /\ StillVisible \in 0..MaxBalloons
      BY <1>1, NothingStays DEF TimersTyped
    <2> HIDE DEF queued
    <2> QED BY <1>1, <1>2, <1>3, <2>1, <2>2, ShowNextTyped
  <1>5. CASE mBalloonTimer # 0
    <2>1. mQueuedBalloons' = queued /\ UNCHANGED <<mActiveBalloonIcon, shown, timerVars>>
      BY <1>5 DEF EnqueueBalloon
    <2> HIDE DEF queued
    <2> QED BY <1>1, <1>2, <1>3, <2>1 DEF BalloonsTyped, TimersTyped, timerVars
  <1> QED BY <1>4, <1>5

LEMMA EnqueueHasIcon ==
  ASSUME TypeOK, BalloonHasIcon,
         NEW a \in Addresses, NEW respectful \in BOOLEAN, NEW realtime,
         NEW icons, mIcons \subseteq icons,
         EnqueueBalloon(a, respectful, realtime, icons)
  PROVE  /\ shown' # 0 <=> mActiveBalloonIcon' # None
         /\ mActiveBalloonIcon' # None => mActiveBalloonIcon' \in icons
  <1> DEFINE balloon == [icon |-> a, respectful |-> respectful, number |-> asked + 1]
  <1> DEFINE queued  == Append(mQueuedBalloons, balloon)
  <1>1. BalloonsTyped /\ RestTyped
    BY TypesSplit
  <1>2. queued \in Seq(Balloon)
    <2>1. asked + 1 \in 1..MaxBalloons
      BY <1>1 DEF EnqueueBalloon, RestTyped
    <2>2. balloon \in Balloon
      BY <2>1 DEF Balloon
    <2> QED BY <1>1, <2>2 DEF BalloonsTyped
  <1>3. CASE mBalloonTimer = 0
    <2>1. ShowNextBalloon(queued, icons, ticking, 0)
      BY <1>1, <1>3, NothingStays DEF EnqueueBalloon
    <2> HIDE DEF queued
    <2> QED BY <1>2, <2>1, ShowNextHasIcon
  <1>4. CASE mBalloonTimer # 0
    BY <1>4 DEF EnqueueBalloon, BalloonHasIcon
  <1> QED BY <1>3, <1>4

LEMMA DismissTyped ==
  ASSUME TypeOK, NEW icons, DismissBalloon(icons)
  PROVE  BalloonsTyped' /\ TimersTyped'
  <1> DEFINE running == IF attached THEN ticking \cup {mBalloonTimer} ELSE ticking
  <1>1. BalloonsTyped /\ TimersTyped
    BY TypesSplit
  <1>2. /\ running \in SUBSET Ids /\ 0 \in 0..MaxBalloons
        /\ mQueuedBalloons \in Seq(Balloon)
    BY <1>1 DEF TimersTyped, BalloonsTyped
  <1>3. ShowNextBalloon(mQueuedBalloons, icons, running, 0)
    BY DEF DismissBalloon
  <1> HIDE DEF running
  <1> QED BY <1>1, <1>2, <1>3, ShowNextTyped

LEMMA DismissHasIcon ==
  ASSUME TypeOK, NEW icons, DismissBalloon(icons)
  PROVE  /\ shown' # 0 <=> mActiveBalloonIcon' # None
         /\ mActiveBalloonIcon' # None => mActiveBalloonIcon' \in icons
  BY ShowNextHasIcon DEF DismissBalloon, TypeOK

----------------------------------------------------------------------------
(* Type correctness.                                                        *)

LEMMA HandleModifyTyped ==
  ASSUME TypeOK, NEW a \in Addresses, NEW icons, HandleModify(a, icons)
  PROVE  BalloonsTyped' /\ TimersTyped' /\ asked' \in 0..MaxBalloons
  <1>1. CASE NoBalloon
    BY <1>1, TypesSplit DEF NoBalloon, BalloonsTyped, TimersTyped, RestTyped, balloonVars, timerVars
  <1>2. CASE \E respectful, realtime \in BOOLEAN : EnqueueBalloon(a, respectful, realtime, icons)
    BY <1>2, EnqueueTyped
  <1> QED BY <1>1, <1>2 DEF HandleModify

LEMMA AddIconTyped ==
  ASSUME TypeOK, NEW i \in Icons, AddIcon(i)
  PROVE  TypeOK'
  <1>1. IconsTyped /\ BalloonsTyped /\ TimersTyped /\ RestTyped
    BY TypesSplit
  <1>2. CASE i \in Wanted
    <2>1. PICK a \in Addresses :
            /\ owner' = [owner EXCEPT ![a] = i]
            /\ mIcons' = mIcons \cup {a}
            /\ instances' = [instances EXCEPT ![i] = a]
            /\ HandleModify(a, mIcons \cup {a})
      BY <1>2 DEF AddIcon, NewIcon
    <2>2. IconsTyped'
      BY <1>1, <2>1 DEF AddIcon, IconsTyped
    <2>3. BalloonsTyped' /\ TimersTyped' /\ asked' \in 0..MaxBalloons
      BY <2>1, HandleModifyTyped
    <2> QED BY <1>1, <2>2, <2>3, TypesSplitNext DEF AddIcon, RestTyped
  <1>3. CASE i \notin Wanted
    BY <1>1, <1>3, TypesSplitNext
       DEF AddIcon, NoBalloon, balloonVars, timerVars, IconsTyped, BalloonsTyped, TimersTyped, RestTyped
  <1> QED BY <1>2, <1>3

LEMMA ModifyIconTyped ==
  ASSUME TypeOK, NEW i \in Icons, ModifyIcon(i)
  PROVE  TypeOK'
  <1>1. IconsTyped /\ BalloonsTyped /\ TimersTyped /\ RestTyped
    BY TypesSplit
  <1>2. instances[i] \in Addresses
    BY <1>1 DEF ModifyIcon, IconsTyped
  <1>3. BalloonsTyped' /\ TimersTyped' /\ asked' \in 0..MaxBalloons
    BY <1>2, EnqueueTyped DEF ModifyIcon
  <1> QED BY <1>1, <1>3, TypesSplitNext DEF ModifyIcon, iconVars, IconsTyped, RestTyped

LEMMA RemoveIconTyped ==
  ASSUME TypeOK, NEW a \in Addresses, RemoveIcon(a)
  PROVE  BalloonsTyped' /\ TimersTyped'
  <1>1. CASE a = mActiveBalloonIcon
    BY <1>1, DismissTyped DEF RemoveIcon
  <1>2. CASE a # mActiveBalloonIcon
    BY <1>2, TypesSplit DEF RemoveIcon, BalloonsTyped, TimersTyped, balloonVars, timerVars
  <1> QED BY <1>1, <1>2

LEMMA DeleteIconTyped ==
  ASSUME TypeOK, NEW i \in Icons, DeleteIcon(i)
  PROVE  TypeOK'
  <1>1. IconsTyped /\ BalloonsTyped /\ TimersTyped /\ RestTyped
    BY TypesSplit
  <1>2. RestTyped'
    BY <1>1 DEF DeleteIcon, RestTyped
  <1>3. CASE instances[i] # None
    <2>1. instances[i] \in Addresses /\ RemoveIcon(instances[i])
      BY <1>1, <1>3 DEF DeleteIcon, IconsTyped
    <2>2. IconsTyped'
      BY <1>1, <2>1 DEF DeleteIcon, RemoveIcon, IconsTyped
    <2> QED BY <1>2, <2>1, <2>2, RemoveIconTyped, TypesSplitNext
  <1>4. CASE instances[i] = None
    BY <1>1, <1>2, <1>4, TypesSplitNext
       DEF DeleteIcon, balloonVars, timerVars, IconsTyped, BalloonsTyped, TimersTyped
  <1> QED BY <1>3, <1>4

\* What a window starts with.
LEMMA TakenTyped ==
  ASSUME NEW k \in Taken \cup {0}
  PROVE  /\ TakenBy(k) \in [Ids -> Handler]
         /\ 1..k \subseteq Ids /\ k + 1 \in 1..(MaxIds + 1)
  BY DEF Taken, TakenBy, Ids, Handler

LEMMA InitTyped ==
  ASSUME Init
  PROVE  TypeOK
  <1>1. PICK k \in Taken : mNextFreshID = k + 1 /\ timers = TakenBy(k) /\ ticking = 1..k
    BY DEF Init
  <1>2. TimersTyped
    <2>1. <<>> \in Seq(Ids)
      OBVIOUS
    <2> QED BY <1>1, <2>1, TakenTyped, SmallIds DEF Init, TimersTyped
  <1>3. BalloonsTyped
    <2>1. <<>> \in Seq(Balloon) /\ 0 \in 0..MaxBalloons
      OBVIOUS
    <2> QED BY <2>1 DEF Init, BalloonsTyped
  <1>4. IconsTyped
    BY DEF Init, IconsTyped
  <1>5. RestTyped
    <2>1. attached \in BOOLEAN
      BY DEF Init
    <2>2. 0 \in 0..MaxBalloons
      OBVIOUS
    <2> QED BY <2>1, <2>2 DEF Init, RestTyped
  <1> QED BY <1>2, <1>3, <1>4, <1>5, TypesSplit

LEMMA TopParentTyped ==
  ASSUME TypeOK, TopParentLost \/ NewTopParent
  PROVE  TypeOK'
  <1>1. IconsTyped /\ BalloonsTyped /\ TimersTyped /\ RestTyped
    BY TypesSplit
  <1>2. IconsTyped' /\ BalloonsTyped' /\ RestTyped'
    BY <1>1 DEF TopParentLost, NewTopParent, iconVars, balloonVars, IconsTyped, BalloonsTyped, RestTyped
  <1>3. TimersTyped'
    <2>1. CASE TopParentLost
      <3>1. <<>> \in Seq(Ids) /\ 0 \in Taken \cup {0}
        OBVIOUS
      <3>2. TakenBy(0) \in [Ids -> Handler] /\ 1 \in 1..(MaxIds + 1)
        BY <3>1, TakenTyped
      <3> QED BY <1>1, <2>1, <3>1, <3>2 DEF TopParentLost, TimersTyped
    <2>2. CASE NewTopParent
      BY <1>1, <2>2, TakenTyped DEF NewTopParent, TimersTyped
    <2> QED BY <2>1, <2>2
  <1> QED BY <1>2, <1>3, TypesSplitNext

LEMMA QuitTyped ==
  ASSUME TypeOK, Quit
  PROVE  TypeOK'
  <1>1. <<>> \in Seq(Balloon) /\ 0 \in 0..MaxBalloons
    OBVIOUS
  <1>2. BalloonsTyped'
    BY <1>1 DEF Quit, BalloonsTyped
  <1>3. IconsTyped' /\ TimersTyped' /\ RestTyped'
    BY TypesSplit DEF Quit, timerVars, IconsTyped, TimersTyped, RestTyped
  <1> QED BY <1>2, <1>3, TypesSplitNext

\* Every step keeps the types.
LEMMA StepTyped == TypeOK /\ [Next]_vars => TypeOK'
  <1> SUFFICES ASSUME TypeOK, [Next]_vars PROVE TypeOK'
    OBVIOUS
  <1>0. IconsTyped /\ BalloonsTyped /\ TimersTyped /\ RestTyped
    BY TypesSplit
  <1>1. ASSUME NEW i \in Icons, AddIcon(i) \/ ModifyIcon(i) \/ DeleteIcon(i) PROVE TypeOK'
    BY <1>1, AddIconTyped, ModifyIconTyped, DeleteIconTyped
  <1>2. CASE BalloonTimer
    <2>1. ShowNextBalloon(mQueuedBalloons, mIcons, ticking, StillVisible)
      BY <1>2 DEF BalloonTimer
    <2>2. /\ ticking \in SUBSET Ids /\ StillVisible \in 0..MaxBalloons
          /\ mQueuedBalloons \in Seq(Balloon)
      BY <1>0, NothingStays DEF TimersTyped, BalloonsTyped
    <2>3. BalloonsTyped' /\ TimersTyped'
      BY <1>0, <2>1, <2>2, ShowNextTyped
    <2> QED BY <1>0, <1>2, <2>3, TypesSplitNext DEF BalloonTimer, iconVars, IconsTyped, RestTyped
  <1>3. CASE ClickBalloon
    <2>1. BalloonsTyped' /\ TimersTyped'
      BY <1>3, DismissTyped DEF ClickBalloon
    <2> QED BY <1>0, <1>3, <2>1, TypesSplitNext DEF ClickBalloon, iconVars, IconsTyped, RestTyped
  <1>4. CASE TopParentLost \/ NewTopParent
    BY <1>4, TopParentTyped
  <1>5. CASE NotificationState
    BY <1>0, <1>5, TypesSplitNext
       DEF NotificationState, iconVars, balloonVars, timerVars,
           IconsTyped, BalloonsTyped, TimersTyped, RestTyped
  <1>6. CASE Quit
    BY <1>6, QuitTyped
  <1>7. CASE UNCHANGED vars
    BY <1>0, <1>7, TypesSplitNext
       DEF vars, iconVars, balloonVars, timerVars, IconsTyped, BalloonsTyped, TimersTyped, RestTyped
  <1> QED BY <1>1, <1>2, <1>3, <1>4, <1>5, <1>6, <1>7 DEF Next

\* Every variable keeps to its type, whatever programs, the user, the parent's module
\* and Windows do to the tray.
THEOREM TrayTypeCorrect == Spec => []TypeOK
  <1>1. Init => TypeOK
    BY InitTyped
  <1> QED BY <1>1, StepTyped, PTL DEF Spec

----------------------------------------------------------------------------
(* The manager and the tray.                                                *)

LEMMA AddIconAgrees ==
  ASSUME TypeOK, InstancesAgree, NEW i \in Icons, AddIcon(i)
  PROVE  InstancesAgree'
  <1>1. IconsTyped
    BY TypesSplit
  <1>2. CASE i \in Wanted
    <2>1. PICK a \in Addresses :
            /\ owner[a] = None
            /\ owner' = [owner EXCEPT ![a] = i]
            /\ mIcons' = mIcons \cup {a}
            /\ instances' = [instances EXCEPT ![i] = a]
      BY <1>2 DEF AddIcon, NewIcon
    <2>2. a \notin mIcons /\ a # None /\ i # None
      BY <2>1 DEF InstancesAgree
    <2>3. instances[i] = None
      BY DEF AddIcon, InstancesAgree
    <2>4. ASSUME NEW b \in mIcons PROVE owner[b] # i
      BY <1>1, <2>3 DEF InstancesAgree, IconsTyped
    <2> QED BY <1>1, <1>2, <2>1, <2>2, <2>3, <2>4 DEF AddIcon, InstancesAgree, IconsTyped
  <1>3. CASE i \notin Wanted
    BY <1>1, <1>3 DEF AddIcon, InstancesAgree, IconsTyped
  <1> QED BY <1>2, <1>3

LEMMA DeleteIconAgrees ==
  ASSUME TypeOK, InstancesAgree, NEW i \in Icons, DeleteIcon(i)
  PROVE  InstancesAgree'
  <1>1. IconsTyped
    BY TypesSplit
  <1>2. CASE instances[i] # None
    <2> DEFINE a == instances[i]
    <2>1. a \in Addresses /\ owner[a] = i
      BY <1>1, <1>2 DEF InstancesAgree, IconsTyped
    <2>2. mIcons' = mIcons \ {a} /\ owner' = [owner EXCEPT ![a] = None]
      BY <1>2 DEF DeleteIcon, RemoveIcon
    <2>3. \A j \in Icons : j # i => instances[j] # a
      BY <2>1 DEF InstancesAgree
    <2>4. \A b \in mIcons : b # a => owner[b] # i
      BY DEF InstancesAgree
    <2> QED BY <1>1, <2>1, <2>2, <2>3, <2>4 DEF DeleteIcon, InstancesAgree, IconsTyped
  <1>3. CASE instances[i] = None
    BY <1>1, <1>3 DEF DeleteIcon, InstancesAgree, IconsTyped
  <1> QED BY <1>2, <1>3

LEMMA StepAgrees == TypeOK /\ InstancesAgree /\ [Next]_vars => InstancesAgree'
  <1> SUFFICES ASSUME TypeOK, InstancesAgree, [Next]_vars PROVE InstancesAgree'
    OBVIOUS
  <1>1. ASSUME NEW i \in Icons, AddIcon(i) PROVE InstancesAgree'
    BY <1>1, AddIconAgrees
  <1>2. ASSUME NEW i \in Icons, DeleteIcon(i) PROVE InstancesAgree'
    BY <1>2, DeleteIconAgrees
  <1>3. CASE Quit
    BY <1>3 DEF Quit, InstancesAgree
  <1>4. CASE UNCHANGED iconVars
    BY <1>4 DEF iconVars, InstancesAgree
  <1> QED BY <1>1, <1>2, <1>3, <1>4
       DEF Next, ModifyIcon, BalloonTimer, ClickBalloon, TopParentLost, NewTopParent,
           NotificationState, vars

\* For any icons and any reuse of memory, the manager's pointers and the tray's list
\* describe the same icons.
THEOREM TrayInstancesAgree == Spec => []InstancesAgree
  <1>1. Init => InstancesAgree
    BY DEF Init, InstancesAgree
  <1> QED BY <1>1, StepAgrees, TrayTypeCorrect, PTL DEF Spec

----------------------------------------------------------------------------
(* The balloon and its icon.                                                *)

LEMMA StepHasIcon == TypeOK /\ BalloonHasIcon /\ [Next]_vars => BalloonHasIcon'
  <1> SUFFICES ASSUME TypeOK, BalloonHasIcon, [Next]_vars PROVE BalloonHasIcon'
    OBVIOUS
  <1>1. BalloonsTyped /\ IconsTyped
    BY TypesSplit
  <1>2. ASSUME NEW i \in Icons, AddIcon(i) PROVE BalloonHasIcon'
    <2>1. CASE i \in Wanted
      <3>1. PICK a \in Addresses : mIcons' = mIcons \cup {a} /\ HandleModify(a, mIcons \cup {a})
        BY <1>2, <2>1 DEF AddIcon, NewIcon
      <3>2. CASE NoBalloon
        BY <3>1, <3>2 DEF NoBalloon, balloonVars, BalloonHasIcon
      <3>3. CASE \E respectful, realtime \in BOOLEAN :
                   EnqueueBalloon(a, respectful, realtime, mIcons \cup {a})
        BY <3>1, <3>3, EnqueueHasIcon DEF BalloonHasIcon
      <3> QED BY <3>1, <3>2, <3>3 DEF HandleModify
    <2>2. CASE i \notin Wanted
      BY <1>2, <2>2 DEF AddIcon, NoBalloon, balloonVars, BalloonHasIcon
    <2> QED BY <2>1, <2>2
  <1>3. ASSUME NEW i \in Icons, ModifyIcon(i) PROVE BalloonHasIcon'
    <2>1. instances[i] \in Addresses
      BY <1>1, <1>3 DEF ModifyIcon, IconsTyped
    <2>2. PICK respectful, realtime \in BOOLEAN :
            EnqueueBalloon(instances[i], respectful, realtime, mIcons)
      BY <1>3 DEF ModifyIcon
    <2>3. mIcons' = mIcons
      BY <1>3 DEF ModifyIcon, iconVars
    <2> QED BY <2>1, <2>2, <2>3, EnqueueHasIcon DEF BalloonHasIcon
  <1>4. ASSUME NEW i \in Icons, DeleteIcon(i) PROVE BalloonHasIcon'
    <2>1. CASE instances[i] # None /\ instances[i] = mActiveBalloonIcon
      BY <1>4, <2>1, DismissHasIcon DEF DeleteIcon, RemoveIcon, BalloonHasIcon
    <2>2. CASE ~(instances[i] # None /\ instances[i] = mActiveBalloonIcon)
      BY <1>4, <2>2 DEF DeleteIcon, RemoveIcon, balloonVars, BalloonHasIcon
    <2> QED BY <2>1, <2>2
  <1>5. CASE BalloonTimer
    <2>1. ShowNextBalloon(mQueuedBalloons, mIcons, ticking, 0) /\ mIcons' = mIcons
      BY <1>1, <1>5, NothingStays DEF BalloonTimer, iconVars
    <2> QED BY <1>1, <2>1, ShowNextHasIcon DEF BalloonsTyped, BalloonHasIcon
  <1>6. CASE ClickBalloon
    BY <1>6, DismissHasIcon DEF ClickBalloon, iconVars, BalloonHasIcon
  <1>7. CASE Quit
    BY <1>7 DEF Quit, BalloonHasIcon
  <1>8. CASE UNCHANGED <<iconVars, balloonVars>>
    BY <1>8 DEF iconVars, balloonVars, BalloonHasIcon
  <1> QED BY <1>2, <1>3, <1>4, <1>5, <1>6, <1>7, <1>8
       DEF Next, TopParentLost, NewTopParent, NotificationState, vars

\* No click, timer or removal ever calls an icon that has left the tray.
THEOREM TrayBalloonHasIcon == Spec => []BalloonHasIcon
  <1>1. Init => BalloonHasIcon
    BY DEF Init, BalloonHasIcon
  <1> QED BY <1>1, StepHasIcon, TrayTypeCorrect, PTL DEF Spec

----------------------------------------------------------------------------
(* The timer.  What a step relies on beyond TimerUnderWay is that the ids   *)
(* the window may hand out next call nobody.                                *)

FreeIds ==
  /\ \A k \in DOMAIN mReleasedIDs :
       mReleasedIDs[k] \in 1..(mNextFreshID - 1) /\ timers[mReleasedIDs[k]] = "none"
  /\ \A j, k \in DOMAIN mReleasedIDs : mReleasedIDs[j] = mReleasedIDs[k] => j = k
  /\ \A id \in Ids : id = 0 \/ id >= mNextFreshID => timers[id] = "none"

OwnTimer ==
  /\ mBalloonTimer # 0 => attached /\ mBalloonTimer \in ticking
  /\ \A id \in Ids : timers[id] = "tray" <=> id = mBalloonTimer /\ id # 0

NothingWaits == mQueuedBalloons = <<>> /\ shown = 0

TimerInv ==
  loaded /\ ~upset =>
    /\ OwnTimer /\ FreeIds
    /\ ~attached => mReleasedIDs = <<>>
    /\ mBalloonTimer = 0 => NothingWaits

\* A timer that is started calls the tray and nobody else lost theirs.
LEMMA StartTimerOwned ==
  ASSUME TimersTyped, OwnTimer, FreeIds, ~attached => mReleasedIDs = <<>>,
         mBalloonTimer = 0, NEW running, attached' = attached,
         StartTimer(running), ~upset'
  PROVE  /\ OwnTimer' /\ FreeIds' /\ mBalloonTimer' # 0
         /\ ~attached' => mReleasedIDs' = <<>>
  <1> DEFINE id == IF mReleasedIDs = <<>> THEN mNextFreshID ELSE Head(mReleasedIDs)
  <1>1. attached
    BY DEF StartTimer
  <1>2. id \in Ids /\ id # 0 /\ timers[id] = "none"
    <2>1. CASE mReleasedIDs = <<>>
      <3>1. id = mNextFreshID /\ id \in Ids
        BY <1>1, <2>1 DEF StartTimer
      <3>2. mNextFreshID \in 1..(MaxIds + 1)
        BY DEF TimersTyped
      <3>3. timers[id] = "none"
        BY <3>1, <3>2 DEF FreeIds
      <3> QED BY <3>1, <3>2, <3>3
    <2>2. CASE mReleasedIDs # <<>>
      <3>1. 1 \in DOMAIN mReleasedIDs /\ id = mReleasedIDs[1] /\ id \in Ids
        BY <2>2 DEF TimersTyped
      <3>2. id \in 1..(mNextFreshID - 1) /\ timers[id] = "none"
        BY <3>1 DEF FreeIds
      <3> QED BY <3>1, <3>2
    <2> QED BY <2>1, <2>2
  <1>3. /\ mNextFreshID' = IF mReleasedIDs = <<>> THEN mNextFreshID + 1 ELSE mNextFreshID
        /\ mReleasedIDs' = IF mReleasedIDs = <<>> THEN <<>> ELSE Tail(mReleasedIDs)
        /\ ticking' = running \cup {id}
        /\ timers' = [timers EXCEPT ![id] = "tray"]
        /\ mBalloonTimer' = id
    BY <1>1, <1>2 DEF StartTimer
  <1>4. OwnTimer'
    <2> HIDE DEF id
    <2> QED BY <1>1, <1>2, <1>3 DEF OwnTimer, TimersTyped
  <1>5. FreeIds'
    <2>1. CASE mReleasedIDs = <<>>
      <3>1. /\ id = mNextFreshID /\ mNextFreshID' = mNextFreshID + 1
            /\ mReleasedIDs' = <<>> /\ mNextFreshID \in Nat
        BY <1>3, <2>1 DEF TimersTyped
      <3>2. ASSUME NEW i \in Ids, i = 0 \/ i >= mNextFreshID' PROVE timers'[i] = "none"
        <4>1. i # id /\ (i = 0 \/ i >= mNextFreshID)
          BY <1>2, <3>1, <3>2 DEF Ids
        <4>2. timers[i] = "none"
          BY <4>1 DEF FreeIds
        <4> HIDE DEF id
        <4> QED BY <1>3, <4>1, <4>2 DEF TimersTyped
      <3> QED BY <3>1, <3>2 DEF FreeIds
    <2>2. CASE mReleasedIDs # <<>>
      <3>1. /\ 1 \in DOMAIN mReleasedIDs /\ id = mReleasedIDs[1]
            /\ mReleasedIDs' = Tail(mReleasedIDs) /\ mNextFreshID' = mNextFreshID
        BY <1>3, <2>2 DEF TimersTyped
      <3>2. \A k \in DOMAIN mReleasedIDs' :
              /\ k + 1 \in DOMAIN mReleasedIDs /\ k \in Nat
              /\ k + 1 # 1 /\ mReleasedIDs'[k] = mReleasedIDs[k + 1]
        BY <2>2, <3>1 DEF TimersTyped
      <3>3. id < mNextFreshID
        BY <3>1 DEF FreeIds, TimersTyped
      <3> HIDE DEF id
      <3>4. ASSUME NEW k \in DOMAIN mReleasedIDs'
            PROVE  /\ mReleasedIDs'[k] \in 1..(mNextFreshID - 1)
                   /\ timers'[mReleasedIDs'[k]] = "none"
        <4>1. mReleasedIDs[k + 1] # id
          BY <3>1, <3>2 DEF FreeIds
        <4>2. /\ mReleasedIDs[k + 1] \in 1..(mNextFreshID - 1)
              /\ timers[mReleasedIDs[k + 1]] = "none"
          BY <3>2 DEF FreeIds
        <4>3. mReleasedIDs[k + 1] \in Ids
          BY <3>2 DEF TimersTyped
        <4> QED BY <1>3, <3>2, <4>1, <4>2, <4>3 DEF TimersTyped
      <3>5. ASSUME NEW j \in DOMAIN mReleasedIDs', NEW k \in DOMAIN mReleasedIDs',
                   mReleasedIDs'[j] = mReleasedIDs'[k]
            PROVE  j = k
        <4>1. j + 1 = k + 1
          BY <3>2, <3>5 DEF FreeIds
        <4> QED BY <3>2, <4>1
      <3>6. ASSUME NEW i \in Ids, i = 0 \/ i >= mNextFreshID PROVE timers'[i] = "none"
        <4>1. i # id
          BY <1>2, <3>3, <3>6 DEF Ids, TimersTyped
        <4>2. timers[i] = "none"
          BY <3>6 DEF FreeIds
        <4> QED BY <1>3, <4>1, <4>2 DEF TimersTyped
      <3> QED BY <3>1, <3>4, <3>5, <3>6 DEF FreeIds
    <2> QED BY <2>1, <2>2
  <1> QED BY <1>1, <1>2, <1>3, <1>4, <1>5

\* A timer that is stopped calls nobody, and its id is free.
LEMMA StopTimerOwned ==
  ASSUME TimersTyped, OwnTimer, FreeIds, ~attached => mReleasedIDs = <<>>,
         NEW running, attached' = attached, StopTimer(running), ~upset'
  PROVE  /\ OwnTimer' /\ FreeIds'
         /\ ~attached' => mReleasedIDs' = <<>>
  <1>1. CASE ~attached
    <2>1. mBalloonTimer = 0 /\ mBalloonTimer' = 0
      BY <1>1 DEF StopTimer, OwnTimer
    <2>2. UNCHANGED <<mNextFreshID, mReleasedIDs, timers>>
      BY <1>1 DEF StopTimer
    <2> QED BY <1>1, <2>1, <2>2 DEF OwnTimer, FreeIds
  <1>2. CASE attached
    <2>1. /\ mBalloonTimer' = 0 /\ mBalloonTimer # 0 /\ mNextFreshID' = mNextFreshID
          /\ timers' = [timers EXCEPT ![mBalloonTimer] = "none"]
          /\ mReleasedIDs' = Append(mReleasedIDs, mBalloonTimer)
      BY <1>2 DEF StopTimer
    <2>2. mBalloonTimer \in Ids /\ timers[mBalloonTimer] = "tray"
      BY <2>1 DEF OwnTimer, TimersTyped
    <2>3. OwnTimer'
      BY <2>1, <2>2 DEF OwnTimer, TimersTyped
    <2>4. mBalloonTimer \in 1..(mNextFreshID - 1)
      BY <2>1, <2>2 DEF FreeIds, TimersTyped, Ids
    <2> DEFINE n == Len(mReleasedIDs) + 1
    <2>5. \A k \in DOMAIN mReleasedIDs' :
            \/ k = n /\ mReleasedIDs'[k] = mBalloonTimer
            \/ k \in DOMAIN mReleasedIDs /\ mReleasedIDs'[k] = mReleasedIDs[k]
      BY <2>1 DEF TimersTyped
    <2> HIDE DEF n
    <2>6. \A k \in DOMAIN mReleasedIDs : mReleasedIDs[k] \in Ids /\ mReleasedIDs[k] # mBalloonTimer
      BY <2>2 DEF FreeIds, TimersTyped
    <2>7. ASSUME NEW k \in DOMAIN mReleasedIDs'
          PROVE  /\ mReleasedIDs'[k] \in 1..(mNextFreshID - 1)
                 /\ timers'[mReleasedIDs'[k]] = "none"
      <3>1. CASE mReleasedIDs'[k] = mBalloonTimer
        BY <2>1, <2>2, <2>4, <3>1 DEF TimersTyped
      <3>2. CASE k \in DOMAIN mReleasedIDs /\ mReleasedIDs'[k] = mReleasedIDs[k]
        BY <2>1, <2>6, <3>2 DEF FreeIds, TimersTyped
      <3> QED BY <2>5, <3>1, <3>2
    <2>8. ASSUME NEW j \in DOMAIN mReleasedIDs', NEW k \in DOMAIN mReleasedIDs',
                 mReleasedIDs'[j] = mReleasedIDs'[k]
          PROVE  j = k
      BY <2>5, <2>6, <2>8 DEF FreeIds
    <2>9. ASSUME NEW i \in Ids, i = 0 \/ i >= mNextFreshID PROVE timers'[i] = "none"
      BY <2>1, <2>9 DEF FreeIds, TimersTyped
    <2> QED BY <1>2, <2>1, <2>3, <2>7, <2>8, <2>9 DEF FreeIds
  <1> QED BY <1>1, <1>2

LEMMA KeepTimerOwned ==
  ASSUME TimersTyped, OwnTimer, FreeIds, ~attached => mReleasedIDs = <<>>,
         NEW running, mBalloonTimer # 0 => mBalloonTimer \in running,
         attached' = attached, KeepTimer(running), ~upset'
  PROVE  /\ OwnTimer' /\ FreeIds' /\ mBalloonTimer' # 0
         /\ ~attached' => mReleasedIDs' = <<>>
  <1>1. CASE mBalloonTimer = 0
    BY <1>1, StartTimerOwned DEF KeepTimer
  <1>2. CASE mBalloonTimer # 0
    BY <1>2 DEF KeepTimer, OwnTimer, FreeIds
  <1> QED BY <1>1, <1>2

\* After ShowNextBalloon a timer comes for what is shown or waits.
LEMMA ShowNextOwned ==
  ASSUME TimersTyped, OwnTimer, FreeIds, ~attached => mReleasedIDs = <<>>,
         NEW queued, NEW icons, NEW running,
         mBalloonTimer # 0 => mBalloonTimer \in running, attached' = attached,
         ShowNextBalloon(queued, icons, running, 0), ~upset'
  PROVE  TimerInv'
  <1>1. CASE KeepTimer(running)
    BY <1>1, KeepTimerOwned DEF TimerInv
  <1>2. CASE mQueuedBalloons' = <<>> /\ shown' = 0 /\ StopTimer(running)
    BY <1>2, StopTimerOwned DEF TimerInv, NothingWaits
  <1> QED BY <1>1, <1>2 DEF ShowNextBalloon

\* What has happened to the timer is not undone.
LEMMA ShowNextUpset ==
  ASSUME upset, NEW queued, NEW icons, NEW running, NEW visible,
         ShowNextBalloon(queued, icons, running, visible)
  PROVE  upset'
  <1>1. StartTimer(running) => upset'
    BY DEF StartTimer
  <1>2. StopTimer(running) => upset'
    BY DEF StopTimer
  <1> QED BY <1>1, <1>2 DEF ShowNextBalloon, KeepTimer

LEMMA EnqueueUpset ==
  ASSUME upset, NEW a, NEW respectful, NEW realtime, NEW icons,
         EnqueueBalloon(a, respectful, realtime, icons)
  PROVE  upset'
  BY ShowNextUpset DEF EnqueueBalloon, timerVars

LEMMA RemoveIconUpset ==
  ASSUME upset, NEW a, RemoveIcon(a)
  PROVE  upset'
  BY ShowNextUpset DEF RemoveIcon, DismissBalloon, timerVars

LEMMA UpsetStays == upset /\ [Next]_vars => upset'
  <1> SUFFICES ASSUME upset, [Next]_vars PROVE upset'
    OBVIOUS
  <1>1. ASSUME NEW i \in Icons, AddIcon(i) PROVE upset'
    BY <1>1, EnqueueUpset DEF AddIcon, HandleModify, NoBalloon, timerVars
  <1>2. ASSUME NEW i \in Icons, ModifyIcon(i) PROVE upset'
    BY <1>2, EnqueueUpset DEF ModifyIcon
  <1>3. ASSUME NEW i \in Icons, DeleteIcon(i) PROVE upset'
    BY <1>3, RemoveIconUpset DEF DeleteIcon, timerVars
  <1>4. CASE BalloonTimer
    BY <1>4, ShowNextUpset DEF BalloonTimer
  <1>5. CASE ClickBalloon
    BY <1>5, ShowNextUpset DEF ClickBalloon, DismissBalloon
  <1>6. CASE TopParentLost
    BY <1>6 DEF TopParentLost
  <1>7. CASE NewTopParent \/ NotificationState \/ Quit \/ UNCHANGED vars
    BY <1>7 DEF NewTopParent, NotificationState, Quit, timerVars, vars
  <1> QED BY <1>1, <1>2, <1>3, <1>4, <1>5, <1>6, <1>7 DEF Next

LEMMA LoadedBefore == loaded' /\ [Next]_vars => loaded
  BY DEF Next, AddIcon, ModifyIcon, DeleteIcon, BalloonTimer, ClickBalloon, TopParentLost,
         NewTopParent, NotificationState, Quit, vars

\* A step that leaves the balloons and the timer alone keeps the invariant.
LEMMA TimerKept ==
  ASSUME TimerInv, loaded, ~upset, UNCHANGED <<balloonVars, timerVars, attached>>
  PROVE  TimerInv'
  BY DEF TimerInv, OwnTimer, FreeIds, NothingWaits, balloonVars, timerVars

LEMMA EnqueueOwned ==
  ASSUME TypeOK, BalloonHasIcon, TimerInv, loaded, ~upset, NEW a, NEW respectful,
         NEW realtime, NEW icons, EnqueueBalloon(a, respectful, realtime, icons),
         attached' = attached, ~upset'
  PROVE  TimerInv'
  <1>1. BalloonsTyped /\ TimersTyped
    BY TypesSplit
  <1>2. OwnTimer /\ FreeIds /\ (~attached => mReleasedIDs = <<>>)
    BY DEF TimerInv
  <1>3. CASE mBalloonTimer = 0
    <2>1. \E queued : ShowNextBalloon(queued, icons, ticking, 0)
      BY <1>1, <1>3, NothingStays DEF EnqueueBalloon
    <2> QED BY <1>1, <1>2, <1>3, <2>1, ShowNextOwned
  <1>4. CASE mBalloonTimer # 0
    <2>1. UNCHANGED timerVars
      BY <1>4 DEF EnqueueBalloon
    <2> QED BY <1>2, <1>4, <2>1 DEF TimerInv, OwnTimer, FreeIds, timerVars
  <1> QED BY <1>3, <1>4

LEMMA DismissOwned ==
  ASSUME TypeOK, TimerInv, loaded, ~upset, NEW icons, DismissBalloon(icons),
         attached' = attached, ~upset'
  PROVE  TimerInv'
  <1> DEFINE running == IF attached THEN ticking \cup {mBalloonTimer} ELSE ticking
  <1>1. OwnTimer /\ FreeIds /\ (~attached => mReleasedIDs = <<>>)
    BY DEF TimerInv
  <1>2. mBalloonTimer # 0 => mBalloonTimer \in running
    BY <1>1 DEF OwnTimer
  <1>3. ShowNextBalloon(mQueuedBalloons, icons, running, 0)
    BY DEF DismissBalloon
  <1> HIDE DEF running
  <1> QED BY <1>1, <1>2, <1>3, TypesSplit, ShowNextOwned

LEMMA StepOwned == TypeOK /\ BalloonHasIcon /\ TimerInv /\ [Next]_vars => TimerInv'
  <1> SUFFICES ASSUME TypeOK, BalloonHasIcon, TimerInv, [Next]_vars, loaded', ~upset'
               PROVE  TimerInv'
    BY DEF TimerInv
  <1>0. loaded /\ ~upset /\ BalloonsTyped /\ TimersTyped
    BY LoadedBefore, UpsetStays, TypesSplit
  <1>1. ASSUME NEW i \in Icons, AddIcon(i) PROVE TimerInv'
    <2>1. CASE NoBalloon
      BY <1>0, <1>1, <2>1, TimerKept DEF AddIcon, NoBalloon
    <2>2. CASE \E a, icons, respectful, realtime :
                 EnqueueBalloon(a, respectful, realtime, icons)
      BY <1>0, <1>1, <2>2, EnqueueOwned DEF AddIcon
    <2> QED BY <1>1, <2>1, <2>2 DEF AddIcon, HandleModify
  <1>2. ASSUME NEW i \in Icons, ModifyIcon(i) PROVE TimerInv'
    BY <1>0, <1>2, EnqueueOwned DEF ModifyIcon
  <1>3. ASSUME NEW i \in Icons, DeleteIcon(i) PROVE TimerInv'
    <2>1. CASE \E icons : DismissBalloon(icons)
      BY <1>0, <1>3, <2>1, DismissOwned DEF DeleteIcon
    <2>2. CASE UNCHANGED <<balloonVars, timerVars>>
      BY <1>0, <1>3, <2>2, TimerKept DEF DeleteIcon
    <2> QED BY <1>3, <2>1, <2>2 DEF DeleteIcon, RemoveIcon
  <1>4. CASE BalloonTimer
    <2>1. ShowNextBalloon(mQueuedBalloons, mIcons, ticking, 0) /\ attached' = attached
      BY <1>0, <1>4, NothingStays DEF BalloonTimer
    <2>2. /\ OwnTimer /\ FreeIds /\ (~attached => mReleasedIDs = <<>>)
          /\ mBalloonTimer \in ticking
      BY <1>0, <1>4 DEF TimerInv, BalloonTimer
    <2> QED BY <1>0, <2>1, <2>2, ShowNextOwned
  <1>5. CASE ClickBalloon
    BY <1>0, <1>5, DismissOwned DEF ClickBalloon
  <1>6. CASE TopParentLost
    <2>1. /\ mBalloonTimer = 0 /\ mBalloonTimer' = 0 /\ NothingWaits
          /\ mReleasedIDs' = <<>> /\ timers' = TakenBy(0)
      BY <1>0, <1>6 DEF TopParentLost, TimerInv
    <2>2. \A id \in Ids : TakenBy(0)[id] = "none"
      BY DEF TakenBy
    <2> QED BY <1>6, <2>1, <2>2
         DEF TopParentLost, TimerInv, OwnTimer, FreeIds, NothingWaits, balloonVars
  <1>7. CASE NewTopParent
    <2>1. PICK k \in Taken : mNextFreshID' = k + 1 /\ timers' = TakenBy(k)
      BY <1>7 DEF NewTopParent
    <2>2. /\ mBalloonTimer = 0 /\ mBalloonTimer' = 0 /\ NothingWaits
          /\ mReleasedIDs' = <<>>
      BY <1>0, <1>7 DEF NewTopParent, TimerInv, OwnTimer
    <2>3. \A id \in Ids : TakenBy(k)[id] # "tray" /\ (id = 0 \/ id >= k + 1 => TakenBy(k)[id] = "none")
      BY DEF TakenBy, Taken, Ids
    <2> QED BY <1>7, <2>1, <2>2, <2>3
         DEF NewTopParent, TimerInv, OwnTimer, FreeIds, NothingWaits, balloonVars
  <1>8. CASE NotificationState \/ UNCHANGED vars
    BY <1>0, <1>8, TimerKept DEF NotificationState, vars
  <1>9. CASE Quit
    BY <1>9 DEF Quit
  <1> QED BY <1>1, <1>2, <1>3, <1>4, <1>5, <1>6, <1>7, <1>8, <1>9 DEF Next

LEMMA InitOwned == Init => TimerInv
  <1> SUFFICES ASSUME Init PROVE TimerInv
    OBVIOUS
  <1>1. PICK k \in Taken : mNextFreshID = k + 1 /\ timers = TakenBy(k)
    BY DEF Init
  <1>2. \A id \in Ids : TakenBy(k)[id] # "tray" /\ (id = 0 \/ id >= k + 1 => TakenBy(k)[id] = "none")
    BY DEF TakenBy, Taken, Ids
  <1> QED BY <1>1, <1>2 DEF Init, TimerInv, OwnTimer, FreeIds, NothingWaits

\* Unless it was lost with the window or cleared when there was none, the balloon timer
\* runs and calls the tray exactly as long as a balloon is shown or waits.
THEOREM TrayTimerUnderWay == Spec => []TimerUnderWay
  <1>1. TimerInv => TimerUnderWay
    BY DEF TimerInv, TimerUnderWay, OwnTimer, NothingWaits
  <1> QED BY <1>1, InitOwned, StepOwned, TrayTypeCorrect, TrayBalloonHasIcon, PTL DEF Spec

=============================================================================
