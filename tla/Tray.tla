--------------------------------- MODULE Tray ---------------------------------
(***************************************************************************)
(* A system tray of nTray: its icons and its balloons (src/nTray/          *)
(* TrayManager.cpp, Tray.cpp, TrayIcon.cpp).                               *)
(*                                                                         *)
(* Programs add, modify and delete icons by messages, and ask for balloons *)
(* with them.  A tray shows one balloon at a time; a timer replaces it by  *)
(* the next one of a queue that holds pointers to icons, which may go away *)
(* while a balloon of theirs waits.  The timer belongs to the top-level    *)
(* window the tray is on, which the tray can lose if it has a parent.      *)
(*                                                                         *)
(* Layout, tooltips and sounds are left out.  A tray that is hidden or     *)
(* hides balloons drops them, which is the same as not being asked.        *)
(***************************************************************************)
EXTENDS Integers, Sequences

CONSTANTS
  Icons,        \* the icons of programs: a window and an id, or a GUID
  Wanted,       \* the ones that no Hide setting of the tray matches
  Addresses,    \* the memory TrayIcon objects live in, used again when they are gone
  None,         \* the null pointer
  HasParent,    \* whether the tray has a Parent setting, i.e. can lose its window
  MaxBalloons,  \* bound: how many balloons are asked for
  MaxIds,       \* bound: the largest timer id
  MaxReleased   \* bound: how long the list of released ids may be before 0 is released

ASSUME TrayAssumption ==
  /\ Wanted \subseteq Icons
  /\ None \notin Addresses \cup Icons
  /\ HasParent \in BOOLEAN
  /\ MaxBalloons \in Nat /\ MaxReleased \in Nat
  /\ MaxIds \in Nat \ {0}

VARIABLES
  sCurrentIcons,       \* the icons the manager knows
  instances,           \* icon -> its TrayIcon in the tray
  mIcons,              \* the TrayIcons of the tray
  owner,               \* address -> the icon whose TrayIcon lives there (mIconData)
  mQueuedBalloons, mActiveBalloonIcon, mBalloonTimer,
  shown,               \* the number of the balloon mBalloon shows, 0 if it is hidden
  asked,               \* how many balloons have been asked for
  mNextFreshID, mReleasedIDs, timers,  \* of the window: timer ids, and whom they call
  ticking,             \* the timers Windows runs for the window
  attached,            \* whether the tray is on a top-level window
  upset,               \* history: the timer and mBalloonTimer have come apart
  state,               \* SHQueryUserNotificationState (external)
  loaded               \* whether the module is

iconVars    == <<sCurrentIcons, instances, mIcons, owner>>
balloonVars == <<mQueuedBalloons, mActiveBalloonIcon, shown>>
timerVars   == <<mBalloonTimer, mNextFreshID, mReleasedIDs, timers, ticking, upset>>
vars == <<iconVars, balloonVars, timerVars, asked, attached, state, loaded>>

Ids == 0..MaxIds

\* "other" stands for the drawables that share the window with the tray.
Handler == {"none", "tray", "other"}

\* BalloonData; a balloon with the flag NIIF_RESPECT_QUIET_TIME is respectful.
Balloon == [icon : Addresses, respectful : BOOLEAN, number : 1..MaxBalloons]

\* A window on which others have taken the first k timers; only a parent has others.
TakenBy(k) == [id \in Ids |-> IF id \in 1..k THEN "other" ELSE "none"]
Taken == IF HasParent THEN {0, 1} ELSE {0}

Init ==
  /\ sCurrentIcons = {}
  /\ instances = [i \in Icons |-> None]
  /\ mIcons = {}
  /\ owner = [a \in Addresses |-> None]
  /\ mQueuedBalloons = <<>> /\ mActiveBalloonIcon = None /\ shown = 0 /\ asked = 0
  /\ mBalloonTimer = 0
  /\ attached \in {TRUE, ~HasParent}   \* the parent may not be there yet
  /\ \E k \in Taken : /\ attached \/ k = 0
                     /\ mNextFreshID = k + 1
                     /\ timers = TakenBy(k) /\ ticking = 1..k
  /\ mReleasedIDs = <<>>
  /\ upset = FALSE
  /\ state \in {"accepts", "quiet", "busy"}
  /\ loaded = TRUE

----------------------------------------------------------------------------
(* The balloon timer.                                                       *)

\* ShowNextBalloon with mBalloonTimer = 0, while the timers in running run.  Without a
\* top-level window SetCallbackTimer fails.  SetTimer takes any id, but what it
\* returns is never 0 (external).
StartTimer(running) ==
  IF attached THEN
    LET id       == IF mReleasedIDs = <<>> THEN mNextFreshID ELSE Head(mReleasedIDs)
        returned == IF id = 0 THEN 1 ELSE id
    IN  /\ id \in Ids
        /\ mNextFreshID' = IF mReleasedIDs = <<>> THEN mNextFreshID + 1 ELSE mNextFreshID
        /\ mReleasedIDs' = IF mReleasedIDs = <<>> THEN <<>> ELSE Tail(mReleasedIDs)
        /\ ticking' = running \cup {id}
        /\ timers' = [timers EXCEPT ![returned] = IF @ = "none" THEN "tray" ELSE @]
        /\ mBalloonTimer' = returned
        /\ UNCHANGED upset
  ELSE
    /\ ticking' = running
    /\ upset' = TRUE
    /\ UNCHANGED <<mBalloonTimer, mNextFreshID, mReleasedIDs, timers>>

\* (mutant) The id of the timer that is stopped is not forgotten.
StopTimer_KeepsId(running) ==
  IF attached THEN
    /\ mBalloonTimer # 0 \/ Len(mReleasedIDs) < MaxReleased
    /\ ticking' = running \ {mBalloonTimer}
    /\ timers' = [timers EXCEPT ![mBalloonTimer] = "none"]
    /\ mReleasedIDs' = Append(mReleasedIDs, mBalloonTimer)
    /\ upset' = (upset \/ mBalloonTimer = 0)
    /\ UNCHANGED <<mBalloonTimer, mNextFreshID>>
  ELSE
    /\ ticking' = running
    /\ UNCHANGED <<mBalloonTimer, mNextFreshID, mReleasedIDs, timers, upset>>

\* ClearCallbackTimer(mBalloonTimer), also when there is none.
StopTimer(running) ==
  /\ mBalloonTimer' = 0
  /\ IF attached THEN
       /\ mBalloonTimer # 0 \/ Len(mReleasedIDs) < MaxReleased
       /\ ticking' = running \ {mBalloonTimer}
       /\ timers' = [timers EXCEPT ![mBalloonTimer] = "none"]
       /\ mReleasedIDs' = Append(mReleasedIDs, mBalloonTimer)
       /\ upset' = (upset \/ mBalloonTimer = 0)
       /\ UNCHANGED mNextFreshID
     ELSE
       /\ ticking' = running
       /\ UNCHANGED <<mNextFreshID, mReleasedIDs, timers, upset>>

KeepTimer(running) ==
  IF mBalloonTimer = 0 THEN StartTimer(running)
  ELSE ticking' = running /\ UNCHANGED <<mBalloonTimer, mNextFreshID, mReleasedIDs, timers, upset>>

----------------------------------------------------------------------------
(* The balloons.                                                            *)

Discarded(balloon, icons) ==
  balloon.icon \notin icons \/ (state = "quiet" /\ balloon.respectful)

\* The balloon that is shown goes, and the next one of queued comes that is not
\* discarded; nothing comes while the user is busy.  icons are the tray's icons by
\* then, running the timers, and visible is what mBalloon shows if it is not the
\* balloon of an icon.
ShowNextBalloon(queued, icons, running, visible) ==
  \/ /\ state = "busy"
     /\ mQueuedBalloons' = queued
     /\ mActiveBalloonIcon' = None /\ shown' = visible
     /\ KeepTimer(running)
  \/ /\ state # "busy"
     /\ \A k \in DOMAIN queued : Discarded(queued[k], icons)
     /\ mQueuedBalloons' = <<>>
     /\ mActiveBalloonIcon' = None /\ shown' = visible
     /\ StopTimer(running)
  \/ /\ state # "busy"
     /\ \E k \in DOMAIN queued :
          /\ ~Discarded(queued[k], icons)
          /\ \A j \in 1..(k - 1) : Discarded(queued[j], icons)
          /\ mQueuedBalloons' = SubSeq(queued, k + 1, Len(queued))
          /\ mActiveBalloonIcon' = queued[k].icon
          /\ shown' = queued[k].number
     /\ KeepTimer(running)

StillVisible == IF mActiveBalloonIcon # None THEN 0 ELSE shown

\* A realtime balloon is dropped unless it can be shown immediately.
Dropped(realtime) == realtime /\ (mBalloonTimer # 0 \/ state = "busy")

EnqueueBalloon(icon, respectful, realtime, icons) ==
  /\ asked < MaxBalloons
  /\ ~Dropped(realtime)
  /\ asked' = asked + 1
  /\ LET queued == Append(mQueuedBalloons,
                     [icon |-> icon, respectful |-> respectful, number |-> asked + 1])
     IN  IF mBalloonTimer = 0 THEN ShowNextBalloon(queued, icons, ticking, StillVisible)
         ELSE /\ mQueuedBalloons' = queued
              /\ UNCHANGED <<mActiveBalloonIcon, shown, timerVars>>

\* The timer is set anew, the balloon is hidden, its icon is told, the next one shown.
DismissBalloon(icons) ==
  ShowNextBalloon(mQueuedBalloons, icons,
                  IF attached THEN ticking \cup {mBalloonTimer} ELSE ticking, 0)

----------------------------------------------------------------------------
(* What programs ask for (LM_SYSTRAY), and what they ask with it: nothing,   *)
(* or a balloon.                                                            *)

NoBalloon == UNCHANGED <<balloonVars, timerVars, asked>>

\* HandleModify of the icon at address a.
HandleModify(a, icons) ==
  \/ NoBalloon
  \/ \E respectful, realtime \in BOOLEAN : EnqueueBalloon(a, respectful, realtime, icons)

\* Tray::AddIcon of an icon it wants, in memory that is free.
NewIcon(i, a) ==
  /\ owner[a] = None
  /\ owner' = [owner EXCEPT ![a] = i]
  /\ mIcons' = mIcons \cup {a}

\* (mutant) The tray is told of the icon whether it took it or not.
AddIcon_Unasked(i) ==
  /\ loaded
  /\ i \notin sCurrentIcons
  /\ sCurrentIcons' = sCurrentIcons \cup {i}
  /\ \/ /\ i \in Wanted
        /\ \E a \in Addresses :
             /\ NewIcon(i, a)
             /\ instances' = [instances EXCEPT ![i] = a]
             /\ HandleModify(a, mIcons \cup {a})
     \/ /\ i \notin Wanted
        /\ UNCHANGED <<instances, mIcons, owner>>
        /\ HandleModify(None, mIcons)
  /\ UNCHANGED <<attached, state, loaded>>

AddIcon(i) ==
  /\ loaded
  /\ i \notin sCurrentIcons
  /\ sCurrentIcons' = sCurrentIcons \cup {i}
  /\ \/ /\ i \in Wanted
        /\ \E a \in Addresses :
             /\ NewIcon(i, a)
             /\ instances' = [instances EXCEPT ![i] = a]
             /\ HandleModify(a, mIcons \cup {a})
     \/ /\ i \notin Wanted
        /\ UNCHANGED <<instances, mIcons, owner>>
        /\ NoBalloon
  /\ UNCHANGED <<attached, state, loaded>>

ModifyIcon(i) ==
  /\ loaded
  /\ i \in sCurrentIcons /\ instances[i] # None
  /\ \E respectful, realtime \in BOOLEAN :
       EnqueueBalloon(instances[i], respectful, realtime, mIcons)
  /\ UNCHANGED <<iconVars, attached, state, loaded>>

\* (mutant) The balloon of the icon is dismissed while the icon is still in the tray.
RemoveIcon_DismissesFirst(a) ==
  /\ mIcons' = mIcons \ {a}
  /\ owner' = [owner EXCEPT ![a] = None]
  /\ IF a = mActiveBalloonIcon THEN DismissBalloon(mIcons)
     ELSE UNCHANGED <<balloonVars, timerVars>>

\* (mutant) The icon that is asked about later stays in the list.
RemoveIcon_KeepsIcon(a) ==
  /\ owner' = [owner EXCEPT ![a] = None]
  /\ UNCHANGED mIcons
  /\ IF a = mActiveBalloonIcon THEN DismissBalloon(mIcons \ {a})
     ELSE UNCHANGED <<balloonVars, timerVars>>

RemoveIcon(a) ==
  /\ mIcons' = mIcons \ {a}
  /\ owner' = [owner EXCEPT ![a] = None]
  /\ IF a = mActiveBalloonIcon THEN DismissBalloon(mIcons \ {a})
     ELSE UNCHANGED <<balloonVars, timerVars>>

\* NIM_DELETE, also the one an icon sends when the mouse finds its program gone.
DeleteIcon(i) ==
  /\ loaded
  /\ i \in sCurrentIcons
  /\ sCurrentIcons' = sCurrentIcons \ {i}
  /\ instances' = [instances EXCEPT ![i] = None]
  /\ IF instances[i] # None THEN RemoveIcon(instances[i])
     ELSE UNCHANGED <<mIcons, owner, balloonVars, timerVars>>
  /\ UNCHANGED <<asked, attached, state, loaded>>

----------------------------------------------------------------------------
(* The messages of the tray.                                                *)

\* (mutant) The timer is for the balloon that is shown only.
BalloonTimer_HidesOnly ==
  /\ loaded
  /\ mBalloonTimer \in ticking /\ timers[mBalloonTimer] = "tray"
  /\ shown # 0
  /\ ShowNextBalloon(mQueuedBalloons, mIcons, ticking, StillVisible)
  /\ UNCHANGED <<iconVars, asked, attached, state, loaded>>

\* WM_TIMER reaches the tray through the window's timers.
BalloonTimer ==
  /\ loaded
  /\ mBalloonTimer \in ticking /\ timers[mBalloonTimer] = "tray"
  /\ ShowNextBalloon(mQueuedBalloons, mIcons, ticking, StillVisible)
  /\ UNCHANGED <<iconVars, asked, attached, state, loaded>>

\* The user clicks the balloon, or the x in its corner.
ClickBalloon ==
  /\ loaded
  /\ shown # 0
  /\ DismissBalloon(mIcons)
  /\ UNCHANGED <<iconVars, asked, attached, state, loaded>>

\* WM_TOPPARENTLOST: the top-level window is gone, its timers and their ids with it.
TopParentLost ==
  /\ loaded /\ HasParent /\ attached
  /\ attached' = FALSE
  /\ mNextFreshID' = 1 /\ mReleasedIDs' = <<>>
  /\ timers' = TakenBy(0) /\ ticking' = {}
  /\ upset' = (upset \/ mBalloonTimer # 0)
  /\ UNCHANGED <<iconVars, balloonVars, mBalloonTimer, asked, state, loaded>>

\* WM_NEWTOPPARENT: another window, of whose timers others may have taken one.
NewTopParent ==
  /\ loaded /\ ~attached
  /\ attached' = TRUE
  /\ \E k \in Taken : /\ mNextFreshID' = k + 1
                     /\ timers' = TakenBy(k) /\ ticking' = 1..k
  /\ UNCHANGED <<iconVars, balloonVars, mBalloonTimer, mReleasedIDs, upset, asked, state, loaded>>

\* The user starts or ends a presentation, a full screen program, or the quiet time.
NotificationState ==
  /\ loaded
  /\ state' \in {"accepts", "quiet", "busy"} \ {state}
  /\ UNCHANGED <<iconVars, balloonVars, timerVars, asked, attached, loaded>>

\* quitModule: the tray is destroyed with its icons and its balloon, then the manager
\* forgets the icons.  Nobody clears the timer.
Quit ==
  /\ loaded
  /\ loaded' = FALSE
  /\ sCurrentIcons' = {} /\ instances' = [i \in Icons |-> None]
  /\ mIcons' = {} /\ owner' = [a \in Addresses |-> None]
  /\ mQueuedBalloons' = <<>> /\ mActiveBalloonIcon' = None /\ shown' = 0
  /\ UNCHANGED <<timerVars, asked, attached, state>>

Next ==
  \/ \E i \in Icons : AddIcon(i) \/ ModifyIcon(i) \/ DeleteIcon(i)
  \/ BalloonTimer \/ ClickBalloon
  \/ TopParentLost \/ NewTopParent \/ NotificationState
  \/ Quit

Spec == Init /\ [][Next]_vars

\* Windows posts WM_TIMER and the message loop dispatches it.  Nothing obliges programs,
\* the user or the parent's module to do anything.
FairSpec == Spec /\ WF_vars(BalloonTimer)

----------------------------------------------------------------------------
(* Properties.                                                              *)

TypeOK ==
  /\ sCurrentIcons \subseteq Icons
  /\ instances \in [Icons -> Addresses \cup {None}]
  /\ mIcons \subseteq Addresses
  /\ owner \in [Addresses -> Icons \cup {None}]
  /\ mQueuedBalloons \in Seq(Balloon)
  /\ mActiveBalloonIcon \in Addresses \cup {None}
  /\ shown \in 0..MaxBalloons /\ asked \in 0..MaxBalloons
  /\ mBalloonTimer \in Ids
  /\ mNextFreshID \in 1..(MaxIds + 1)
  /\ mReleasedIDs \in Seq(Ids)
  /\ timers \in [Ids -> Handler]
  /\ ticking \subseteq Ids
  /\ attached \in BOOLEAN /\ upset \in BOOLEAN /\ loaded \in BOOLEAN
  /\ state \in {"accepts", "quiet", "busy"}

\* The manager and the tray agree on the icons although memory is used again: the
\* tray has the TrayIcons the manager points to and no others, each of them exists
\* and shows the data of the icon it was made for, and an icon the manager has
\* forgotten is nowhere (AddIcon and DeleteIcon of TrayManager.cpp, RemoveIcon).
InstancesAgree ==
  /\ \A a \in Addresses : a \in mIcons <=> owner[a] # None
  /\ \A i \in Icons :
       /\ instances[i] # None => i \in sCurrentIcons \cap Wanted /\ owner[instances[i]] = i
       /\ i \in sCurrentIcons \cap Wanted => instances[i] # None
  /\ \A a \in mIcons : instances[owner[a]] = a

\* A balloon is on the screen exactly while mActiveBalloonIcon points to an icon, and
\* that icon is one of the tray: no timer, click or removal calls an icon that is gone,
\* also when the icon that goes has further balloons in the queue.
BalloonHasIcon ==
  /\ shown # 0 <=> mActiveBalloonIcon # None
  /\ mActiveBalloonIcon # None => mActiveBalloonIcon \in mIcons

\* Unless the timer was lost with the window or a timer that was not there was cleared:
\* what is shown or waits has a timer that comes for it, the tray has no other timer,
\* and mBalloonTimer = 0 means that there is nothing to come for.
TimerUnderWay ==
  loaded /\ ~upset =>
    /\ mQueuedBalloons # <<>> \/ shown # 0 => mBalloonTimer # 0
    /\ mBalloonTimer # 0 => attached /\ mBalloonTimer \in ticking
    /\ \A id \in Ids : timers[id] = "tray" <=> id = mBalloonTimer /\ id # 0

Waits(number) ==
  shown = number \/ \E k \in DOMAIN mQueuedBalloons : mQueuedBalloons[k].number = number

\* Once the user is no longer busy for good, every balloon that was asked for is shown or
\* discarded and goes again, unless the timer was upset.
BalloonsPass ==
  <>[](state # "busy") =>
    \A number \in 1..MaxBalloons : Waits(number) ~> (~Waits(number) \/ upset)
=============================================================================
