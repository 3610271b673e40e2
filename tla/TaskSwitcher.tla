---------------------------- MODULE TaskSwitcher -----------------------------
(***************************************************************************)
(* The alt-tab window (src/nTaskSwitch/TaskSwitcher.cpp and the message    *)
(* handler of TaskThumbnail.cpp).                                          *)
(*                                                                         *)
(* Alt-tab shows a thumbnail of every window of the taskbar and one of the *)
(* desktop, if there is one, and moves the selection.  The window's text   *)
(* names the window that will be switched to: the one the mouse hovers     *)
(* over or else the selected one.  When nothing is touched for mPeekDelay  *)
(* the switcher starts to peek: it asks for a live preview of the window.  *)
(* Releasing alt, a click, and the loss of the focus hide the switcher,    *)
(* which switches.                                                         *)
(*                                                                         *)
(* Windows open and close as they like.  Without nDesk gDesktopWindow is   *)
(* null, and a switcher shown while there is no window has no thumbnail:   *)
(* it selects, names and switches to nothing, and its peek timer indexes   *)
(* the empty list.  Icons and positions are left out.                      *)
(***************************************************************************)
EXTENDS Integers, Sequences, SequencesExt

CONSTANTS
  Programs,  \* the windows IsTaskbarWindow accepts
  Desktop,   \* the window of nDesk
  Nothing    \* no window

ASSUME SwitcherAssumption ==
  IsFiniteSet(Programs) /\ Desktop \notin Programs /\ Nothing \notin Programs \cup {Desktop}

VARIABLES
  topLevel,          \* external: the windows, the topmost first
  foreground,        \* external: the one that was given the focus, if any
  gDesktopWindow,    \* Desktop or, if it was not found, Nothing
  livePreview,       \* what DwmpActivateLivePreview was last asked to show
  switcherVisible,
  mShownWindows,     \* the windows of the thumbnails
  mSelectedWindow, mHoveredThumbnail,  \* thumbnails, the first is 1, none is 0
  selectedStates,    \* the thumbnails with State::Selected
  activeChild,       \* the thumbnail under the mouse, with State::Hover
  mPeekTimer,        \* whether it is not 0
  mPeeking,
  caption            \* whose name the switcher shows

worldVars == <<topLevel, foreground>>
thumbnailVars == <<switcherVisible, mShownWindows, selectedStates, mPeekTimer, mPeeking>>
switcherVars == <<worldVars, gDesktopWindow, livePreview, thumbnailVars, mSelectedWindow, mHoveredThumbnail,
                  activeChild, caption>>

SwitcherInit ==
  /\ topLevel = <<>> /\ foreground = Nothing /\ livePreview = Nothing
  /\ gDesktopWindow \in {Desktop, Nothing}
  /\ switcherVisible = FALSE
  /\ mShownWindows = <<>>
  /\ mSelectedWindow = 1 /\ mHoveredThumbnail = 0
  /\ selectedStates = {} /\ activeChild = 0
  /\ mPeekTimer = FALSE /\ mPeeking = FALSE
  /\ caption = Nothing

----------------------------------------------------------------------------
(* Selection.                                                              *)

\* What the switcher switches to when thumbnail i is selected and h hovered.
Target(list, i, h) == list[IF h # 0 THEN h ELSE i]

\* UpdateActiveWindow, without the states: text and preview follow.
Retarget(list, i, h) ==
  /\ mSelectedWindow' = i
  /\ mHoveredThumbnail' = h
  /\ caption' = Target(list, i, h)
  /\ livePreview' = IF mPeeking' THEN Target(list, i, h) ELSE livePreview

\* delta later, around the ends.
Moved(i, delta, n) ==
  IF i + delta < 1 THEN n ELSE IF i + delta > n THEN 1 ELSE i + delta

\* UpdateActiveWindow: the selection moves on, if there is anything to select;
\* if not, nothing is hovered either.  i is where it is, selected what looks so.
MoveSelection(list, i, delta, selected) ==
  IF list = <<>>
    THEN /\ mSelectedWindow' = i /\ mHoveredThumbnail' = 0 /\ selectedStates' = selected
         /\ UNCHANGED <<caption, livePreview>>
    ELSE LET next == Moved(i, delta, Len(list))
         IN  selectedStates' = (selected \ {i}) \cup {next} /\ Retarget(list, next, 0)

\* HandleAltTab and HandleAltShiftTab, by delta: the selection moves on, or the
\* switcher is shown, on top and with the windows that exist by now.
HandleAltTab(delta) ==
  \/ /\ switcherVisible
     /\ UNCHANGED <<worldVars, switcherVisible, mShownWindows, mPeekTimer, mPeeking, activeChild>>
     /\ MoveSelection(mShownWindows, mSelectedWindow, delta, selectedStates)
  \/ /\ ~switcherVisible
     /\ switcherVisible' = TRUE
     /\ mShownWindows' = IF gDesktopWindow = Nothing THEN topLevel
                                                    ELSE Append(topLevel, gDesktopWindow)
     /\ foreground' = Nothing
     /\ mPeeking' = FALSE /\ mPeekTimer' = TRUE
     /\ activeChild' = 0
     /\ MoveSelection(mShownWindows', 1, delta, {})
     /\ UNCHANGED topLevel

----------------------------------------------------------------------------
(* The mouse.                                                              *)

\* (mutant) The text does not follow the mouse.
EnterThumbnail_Silent(i) ==
  /\ switcherVisible /\ i \in DOMAIN mShownWindows
  /\ activeChild' = i
  /\ mHoveredThumbnail' = i
  /\ UNCHANGED <<worldVars, thumbnailVars, mSelectedWindow, caption, livePreview>>

\* WM_MOUSEMOVE over a thumbnail.  If the mouse was over none, the switcher has
\* been told so first.
EnterThumbnail(i) ==
  /\ switcherVisible /\ i \in DOMAIN mShownWindows
  /\ activeChild' = i
  /\ UNCHANGED <<worldVars, thumbnailVars>>
  /\ IF mHoveredThumbnail = i /\ activeChild # 0
       THEN UNCHANGED <<mSelectedWindow, mHoveredThumbnail, caption, livePreview>>
       ELSE Retarget(mShownWindows, mSelectedWindow, i)

\* The mouse leaves the thumbnails or the switcher (HoveringOverTask(nullptr)).
\* WM_MOUSELEAVE also reaches a hidden switcher, which has no thumbnails.
LeaveThumbnails ==
  /\ activeChild' = 0
  /\ UNCHANGED <<worldVars, thumbnailVars>>
  /\ IF switcherVisible /\ mHoveredThumbnail # 0
       THEN Retarget(mShownWindows, mSelectedWindow, 0)
       ELSE mHoveredThumbnail' = 0 /\ UNCHANGED <<mSelectedWindow, caption, livePreview>>

----------------------------------------------------------------------------
(* Peeking.                                                                *)

\* WM_TIMER: the selected window is previewed, also if another one is hovered.
\* With no thumbnails mShownWindows[mSelectedWindow] is out of range: what lies
\* there is anything, or the program ends.
PeekTimer ==
  /\ mPeekTimer /\ switcherVisible
  /\ mPeeking' = TRUE
  /\ IF mShownWindows # <<>> THEN livePreview' = mShownWindows[mSelectedWindow]
                             ELSE livePreview' \in Programs \cup {Desktop, Nothing}
  /\ mPeekTimer' = FALSE
  /\ UNCHANGED <<worldVars, switcherVisible, mShownWindows, selectedStates, mSelectedWindow,
                 mHoveredThumbnail, activeChild, caption>>

----------------------------------------------------------------------------
(* Switching.                                                              *)

\* (mutant) The peek timer keeps running.
Hide_KeepsTimer ==
  /\ switcherVisible
  /\ switcherVisible' = FALSE
  /\ mPeeking' = FALSE
  /\ foreground' = Nothing
  /\ mShownWindows' = <<>> /\ selectedStates' = {} /\ activeChild' = 0
  /\ livePreview' = Nothing
  /\ UNCHANGED <<topLevel, mSelectedWindow, mHoveredThumbnail, caption, mPeekTimer>>

\* Hide, for WM_KEYUP, a click on a thumbnail and WM_ACTIVATE with WA_INACTIVE:
\* the target is activated, if there is one and it still exists; for the desktop
\* all others are minimized.  mHoveredThumbnail is left as it is: it dangles.
Hide ==
  /\ switcherVisible
  /\ switcherVisible' = FALSE
  /\ mPeekTimer' = FALSE /\ mPeeking' = FALSE
  /\ LET target == IF mShownWindows = <<>> THEN Nothing
                   ELSE Target(mShownWindows, mSelectedWindow, mHoveredThumbnail)
     IN  \/ /\ target = Desktop
            /\ foreground' = Desktop
            /\ UNCHANGED topLevel
         \/ \E k \in DOMAIN topLevel :
              /\ target = topLevel[k]
              /\ foreground' = target
              /\ topLevel' = <<target>> \o RemoveAt(topLevel, k)
         \/ /\ target \notin Range(topLevel) \cup {Desktop}
            /\ foreground' = Nothing
            /\ UNCHANGED topLevel
  /\ mShownWindows' = <<>> /\ selectedStates' = {} /\ activeChild' = 0
  /\ livePreview' = Nothing
  /\ UNCHANGED <<mSelectedWindow, mHoveredThumbnail, caption>>

----------------------------------------------------------------------------
(* Programs.                                                               *)

\* A window is opened.  If it takes the focus from the switcher, that is an
\* action of its own: Hide.
OpenWindow(w) ==
  /\ w \notin Range(topLevel)
  /\ topLevel' = <<w>> \o topLevel
  /\ foreground' = IF switcherVisible THEN foreground ELSE w
  /\ UNCHANGED <<livePreview, thumbnailVars, mSelectedWindow, mHoveredThumbnail, activeChild, caption>>

\* A window is closed, be it among the thumbnails or not.
CloseWindow(w) ==
  /\ \E k \in DOMAIN topLevel : topLevel[k] = w /\ topLevel' = RemoveAt(topLevel, k)
  /\ foreground' = IF foreground = w THEN Nothing ELSE foreground
  /\ UNCHANGED <<livePreview, thumbnailVars, mSelectedWindow, mHoveredThumbnail, activeChild, caption>>

SwitcherStep ==
  \/ HandleAltTab(1) \/ HandleAltTab(-1)
  \/ \E i \in 1..Len(mShownWindows) : EnterThumbnail(i)
  \/ LeaveThumbnails
  \/ PeekTimer
  \/ Hide
  \/ \E w \in Programs : OpenWindow(w) \/ CloseWindow(w)

\* gDesktopWindow was looked for when the module was loaded.
SwitcherNext == SwitcherStep /\ UNCHANGED gDesktopWindow

SwitcherSpec == SwitcherInit /\ [][SwitcherNext]_switcherVars

----------------------------------------------------------------------------
(* Properties.                                                             *)

SwitcherTypeOK ==
  /\ Range(topLevel) \subseteq Programs /\ IsInjective(topLevel)
  /\ {foreground, livePreview, caption} \subseteq Programs \cup {Desktop, Nothing}
  /\ gDesktopWindow \in {Desktop, Nothing}
  /\ {switcherVisible, mPeekTimer, mPeeking} \subseteq BOOLEAN
  /\ mSelectedWindow \in 1..(Cardinality(Programs) + 1)
  /\ mHoveredThumbnail \in 0..(Cardinality(Programs) + 1)
  /\ selectedStates \subseteq DOMAIN mShownWindows
  /\ activeChild \in {0} \cup DOMAIN mShownWindows

\* What the pointers and indices of the switcher refer to exists while it is
\* shown, exactly one thumbnail looks selected, and the switcher peeks or waits
\* to peek; nothing of this is left when it is hidden.  The exception is a
\* switcher without thumbnails, shown while there is neither a window nor a
\* desktop: it selects and hovers over nothing, and previews nothing until its
\* peek timer has indexed the empty list, after which nothing is said of the
\* preview (Show, Hide, UpdateActiveWindow, WM_TIMER).
SwitcherConsistent ==
  IF switcherVisible
    THEN /\ mPeekTimer = ~mPeeking
         /\ mHoveredThumbnail \in {0} \cup DOMAIN mShownWindows
         /\ IF mShownWindows # <<>>
              THEN /\ mSelectedWindow \in DOMAIN mShownWindows
                   /\ selectedStates = {mSelectedWindow}
                   /\ livePreview \in Range(mShownWindows) \cup {Nothing}
              ELSE /\ gDesktopWindow = Nothing
                   /\ mSelectedWindow = 1 /\ selectedStates = {}
                   /\ mPeekTimer => livePreview = Nothing
    ELSE mShownWindows = <<>> /\ ~mPeekTimer /\ ~mPeeking /\ livePreview = Nothing

\* The window that gets the focus is the one the switcher named, whether the
\* keys or the mouse chose it, or none: if that one has been closed meanwhile, or
\* there was none to switch to (Hide, UpdateActiveWindow, HoveringOverTask).
SwitchesToTheNamed ==
  [][(switcherVisible /\ ~switcherVisible') => foreground' \in {caption, Nothing}]_switcherVars
=============================================================================
