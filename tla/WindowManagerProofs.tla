------------------------ MODULE WindowManagerProofs ------------------------
(***************************************************************************)
(* Theorems about the window manager of nTask for any windows, monitors    *)
(* and taskbars.                                                           *)
(*                                                                         *)
(* BarsInv: the state is well typed, the pointers of windowMap are the     *)
(* buttons of the taskbars, and every button ends up with a place.  TypeOK *)
(* is inductive by itself, the other two given TypeOK.                     *)
(*                                                                         *)
(* ActiveInv, ListInv: what is lit and what is listed agree with the       *)
(* desktop once the messages that wait have been handled.  Both say of the *)
(* queue which message about a window is the last one: EndsWith, with one  *)
(* lemma for posting and one for taking the first message.                 *)
(*                                                                         *)
(* NothingStale is inductive given the two that speak of the list.         *)
(***************************************************************************)
EXTENDS WindowManager, WellFoundedInduction, TLAPS

USE ManagerAssumption DEF ManagerAssumption

\* What a taskbar wants is a set of taskbars.
LEMMA WantingTyped == \A m : Wanting(m) \in SUBSET Taskbars
  BY DEF Wanting

\* Adding and removing one button on some taskbars keeps the state of all of them typed.
LEMMA BarsTyped ==
  ASSUME NEW state \in [Taskbars -> SUBSET Windows], NEW bars, NEW w
  PROVE  /\ w \in Windows => With(state, bars, w) \in [Taskbars -> SUBSET Windows]
         /\ Without(state, bars, w) \in [Taskbars -> SUBSET Windows]
  BY DEF With, Without

\* Posting keeps the queue typed.
LEMMA PostTyped ==
  ASSUME messages \in Seq(Message), NEW news \in Seq(Message), Post(news)
  PROVE  messages' \in Seq(Message)
  BY DEF Post

LEMMA OneMessage ==
  \A what \in {"created", "destroyed", "activated", "redraw", "flash", "monitor",
               "minrect", "added"}, w \in Windows \cup {NoWindow} :
    <<Msg(what, w)>> \in Seq(Message)
  BY DEF Msg, Message

LEMMA InitTyped == Init => TypeOK
  <1> SUFFICES ASSUME Init PROVE TypeOK
    OBVIOUS
  <1>1. messages \in Seq(Message)
    <2>1. <<>> \in Seq(Message)
      OBVIOUS
    <2> QED BY <2>1 DEF Init
  <1>2. enumeration \in [Threads -> Enumeration]
    <2>1. \A k \in Threads : [pc |-> IF k = 1 THEN "timer" ELSE "none",
                              todo |-> {}, found |-> NoWindow] \in Enumeration
      BY DEF Enumeration
    <2> QED BY <2>1 DEF Init
  <1>3. /\ buttons \in [Windows -> SUBSET Taskbars]
        /\ listed \subseteq Windows
    BY WantingTyped DEF Init
  <1>4. /\ tasks \in [Taskbars -> SUBSET Windows]
        /\ active \in [Taskbars -> SUBSET Windows]
    BY <1>3 DEF Init
  <1>5. Nowhere \in [Taskbars -> SUBSET Windows]
    BY DEF Nowhere
  <1>6. /\ events \in 0..MaxEvents /\ refreshes \in 0..MaxRefreshes
    <2>1. 0 \in 0..MaxEvents /\ 0 \in 0..MaxRefreshes
      OBVIOUS
    <2> QED BY <2>1 DEF Init
  <1>7. /\ exists \subseteq Windows /\ visible \subseteq exists /\ iconic \subseteq Windows
        /\ dirty \subseteq Windows /\ asked \subseteq Windows
        /\ foreground \in Windows \cup {NoWindow}
    BY DEF Init
  <1>8. /\ monitor \in [Windows -> Monitors] /\ uMonitor \in [Windows -> Monitors]
        /\ deferred \subseteq listed /\ recent \subseteq listed
        /\ isStarted \in BOOLEAN /\ initializing \in BOOLEAN
        /\ activeWindow = foreground
    BY DEF Init
  <1> QED
    BY <1>1, <1>2, <1>3, <1>4, <1>5, <1>6, <1>7, <1>8 DEF Init, TypeOK

----------------------------------------------------------------------------
(* Type correctness.                                                        *)

\* What happens on the desktop.
LEMMA DesktopTyped == TypeOK /\ Desktop => TypeOK'
  <1> SUFFICES ASSUME TypeOK, Desktop PROVE TypeOK'
    OBVIOUS
  <1> USE DEF TypeOK
  <1>1. ASSUME NEW w \in Windows, NEW m \in Monitors, Open(w, m)
        PROVE  TypeOK'
    <2>1. messages' \in Seq(Message)
      BY <1>1, PostTyped, OneMessage DEF Open
    <2> QED BY <1>1, <2>1 DEF Open, Event, mapVars, stateVars
  <1>2. ASSUME NEW w \in Windows, NEW m \in Monitors, Move(w, m)
        PROVE  TypeOK'
    <2>1. messages' \in Seq(Message)
      BY <1>2, PostTyped, OneMessage DEF Move
    <2> QED BY <1>2, <2>1 DEF Move, Event, mapVars, stateVars
  <1>3. ASSUME NEW w \in Windows, NEW destroyed \in BOOLEAN, NEW next \in Windows \cup {NoWindow},
               Close(w, destroyed, next)
        PROVE  TypeOK'
    <2>1. messages' \in Seq(Message)
      <3>1. CASE w = foreground
        <4>1. <<Msg("destroyed", w), Msg("activated", next)>> \in Seq(Message)
          BY DEF Msg, Message
        <4> QED BY <1>3, <3>1, <4>1, PostTyped DEF Close
      <3>2. CASE w # foreground
        BY <1>3, <3>2, OneMessage, PostTyped DEF Close
      <3> QED BY <3>1, <3>2
    <2>2. foreground' \in Windows \cup {NoWindow}
      BY <1>3 DEF Close
    <2> QED BY <1>3, <2>1, <2>2 DEF Close, Event, mapVars, stateVars
  <1>4. ASSUME NEW w \in Windows, NEW what \in {"redraw", "flash"}, Redraw(w, what)
        PROVE  TypeOK'
    <2>1. messages' \in Seq(Message)
      BY <1>4, PostTyped, OneMessage DEF Redraw
    <2> QED BY <1>4, <2>1 DEF Redraw, Event, mapVars, stateVars, desktopVars
  <1>5. ASSUME NEW w \in Windows, Minimize(w) \/ Restore(w)
        PROVE  TypeOK'
    <2>1. messages' \in Seq(Message)
      BY <1>5, PostTyped, OneMessage DEF Minimize, Restore
    <2> QED BY <1>5, <2>1 DEF Minimize, Restore, Event, mapVars, stateVars
  <1>6. ASSUME NEW w \in Windows, NEW t \in Taskbars, ClickButton(t, w)
        PROVE  TypeOK'
    <2>1. messages' \in Seq(Message)
      BY <1>6, PostTyped, OneMessage DEF ClickButton
    <2>2. foreground' \in Windows \cup {NoWindow}
      BY <1>6 DEF ClickButton
    <2>3. minimized' \in [Taskbars -> SUBSET Windows] /\ asked' \subseteq Windows
      BY <1>6 DEF ClickButton
    <2> QED BY <1>6, <2>1, <2>2, <2>3 DEF ClickButton, Event, mapVars, stateVars
  <1>7. ASSUME NEW w \in Windows \cup {NoWindow}, Activate(w)
        PROVE  TypeOK'
    <2>1. messages' \in Seq(Message)
      BY <1>7, PostTyped, OneMessage DEF Activate
    <2> QED BY <1>7, <2>1 DEF Activate, Event, mapVars, stateVars
  <1> QED BY <1>1, <1>2, <1>3, <1>4, <1>5, <1>6, <1>7 DEF Desktop

\* What the handlers of the manager change.
ManagerTyped ==
  /\ dirty \subseteq Windows
  /\ listed \subseteq Windows /\ deferred \subseteq listed /\ recent \subseteq listed
  /\ uMonitor \in [Windows -> Monitors]
  /\ buttons \in [Windows -> SUBSET Taskbars]
  /\ tasks \in [Taskbars -> SUBSET Windows]
  /\ laid \in [Taskbars -> SUBSET Windows]
  /\ active \in [Taskbars -> SUBSET Windows]
  /\ flashing \in [Taskbars -> SUBSET Windows]
  /\ minimized \in [Taskbars -> SUBSET Windows]

LEMMA AddWindowTyped ==
  ASSUME TypeOK, NEW w \in Windows \cup {NoWindow},
         NEW lit \in [Taskbars -> SUBSET Windows], AddWindow(w, lit)
  PROVE  ManagerTyped'
  <1>1. CASE w \in visible \ listed
    <2>1. w \in Windows
      BY <1>1 DEF TypeOK
    <2>2. /\ dirty' = dirty \ {w} /\ listed' = listed \cup {w}
          /\ deferred' = deferred \ {w} /\ recent' = recent \cup {w}
          /\ uMonitor' = [uMonitor EXCEPT ![w] = monitor[w]]
          /\ buttons' = [buttons EXCEPT ![w] = Wanting(monitor[w])]
          /\ flashing' = flashing
      BY <1>1 DEF AddWindow
    <2>3. tasks' \in [Taskbars -> SUBSET Windows]
      BY <1>1, <2>1, BarsTyped DEF AddWindow, TypeOK
    <2>4. laid' \in [Taskbars -> SUBSET Windows]
      BY <1>1, <2>3 DEF AddWindow, TypeOK
    <2>5. active' \in [Taskbars -> SUBSET Windows]
      BY <1>1, <2>1, BarsTyped DEF AddWindow
    <2>6. minimized' \in [Taskbars -> SUBSET Windows]
      <3>1. With(minimized, Wanting(monitor[w]), w) \in [Taskbars -> SUBSET Windows]
        BY <2>1, BarsTyped DEF TypeOK
      <3>2. minimized' \in {minimized, With(minimized, Wanting(monitor[w]), w)}
        BY <1>1 DEF AddWindow
      <3> QED BY <3>1, <3>2 DEF TypeOK
    <2>7. buttons' \in [Windows -> SUBSET Taskbars] /\ uMonitor' \in [Windows -> Monitors]
      BY <2>1, <2>2, WantingTyped DEF TypeOK
    <2> QED BY <2>1, <2>2, <2>3, <2>4, <2>5, <2>6, <2>7 DEF TypeOK, ManagerTyped
  <1>2. CASE w \notin visible \ listed
    BY <1>2 DEF AddWindow, TypeOK, ManagerTyped, mapVars
  <1> QED BY <1>1, <1>2

LEMMA SetActiveTyped ==
  ASSUME TypeOK, NEW w \in Windows \cup {NoWindow}, SetActive(w)
  PROVE  ManagerTyped' /\ activeWindow' \in Windows \cup {NoWindow}
  <1> DEFINE lit == Without(active, ButtonsOf(activeWindow), activeWindow)
  <1>1. lit \in [Taskbars -> SUBSET Windows]
    BY BarsTyped DEF TypeOK
  <1>2. CASE w \in listed
    <2>1. w \in Windows
      BY <1>2 DEF TypeOK
    <2>2. active' \in [Taskbars -> SUBSET Windows]
      BY <1>1, <1>2, <2>1, BarsTyped DEF SetActive
    <2>3. /\ minimized' \in [Taskbars -> SUBSET Windows]
          /\ flashing' \in [Taskbars -> SUBSET Windows]
      BY <1>2, BarsTyped DEF SetActive, TypeOK
    <2> QED BY <1>2, <2>2, <2>3 DEF SetActive, mapVars, TypeOK, ManagerTyped
  <1>3. CASE w \notin listed
    <2>1. AddWindow(w, lit) /\ activeWindow' = w
      BY <1>3 DEF SetActive
    <2> QED BY <1>1, <2>1, AddWindowTyped
  <1> QED BY <1>2, <1>3

LEMMA RemoveEntriesTyped ==
  ASSUME TypeOK, NEW gone, RemoveEntries(gone)
  PROVE  /\ listed' = listed \ gone
         /\ uMonitor' \in [Windows -> Monitors]
         /\ buttons' \in [Windows -> SUBSET Taskbars]
         /\ tasks' \in [Taskbars -> SUBSET Windows]
         /\ laid' \in [Taskbars -> SUBSET Windows]
         /\ active' \in [Taskbars -> SUBSET Windows]
         /\ flashing' \in [Taskbars -> SUBSET Windows]
  <1>1. tasks' \in [Taskbars -> SUBSET Windows]
    BY DEF RemoveEntries, TypeOK
  <1>2. laid' \in [Taskbars -> SUBSET Windows]
    BY <1>1 DEF RemoveEntries, TypeOK
  <1>3. buttons' \in [Windows -> SUBSET Taskbars]
    BY DEF RemoveEntries, TypeOK
  <1> QED BY <1>1, <1>2, <1>3 DEF RemoveEntries, TypeOK

LEMMA RemoveWindowTyped ==
  ASSUME TypeOK, NEW w, RemoveWindow(w)
  PROVE  ManagerTyped' /\ activeWindow' \in Windows \cup {NoWindow}
  <1>1. activeWindow' \in Windows \cup {NoWindow}
    BY DEF RemoveWindow, TypeOK
  <1>2. CASE w \in listed
    <2>1. RemoveEntries({w})
      BY <1>2 DEF RemoveWindow
    <2>2. minimized' \in [Taskbars -> SUBSET Windows]
      BY <1>2 DEF RemoveWindow, TypeOK
    <2>3. deferred' = deferred \ {w} /\ recent' = recent \ {w} /\ dirty' = dirty
      BY <1>2 DEF RemoveWindow
    <2> QED BY <1>1, <2>1, <2>2, <2>3, RemoveEntriesTyped DEF ManagerTyped, TypeOK
  <1>3. CASE w \notin listed
    BY <1>1, <1>3 DEF RemoveWindow, mapVars, barVars, ManagerTyped, TypeOK
  <1> QED BY <1>2, <1>3

LEMMA UpdateWindowTyped ==
  ASSUME TypeOK, NEW w \in Windows \cup {NoWindow}, NEW what, UpdateWindow(w, what)
  PROVE  ManagerTyped'
  <1>1. CASE w \notin listed
    <2>1. AddWindow(w, active)
      BY <1>1 DEF UpdateWindow
    <2> QED BY <2>1, AddWindowTyped DEF TypeOK
  <1>2. CASE w \in listed
    <2>1. w \in Windows
      BY <1>2 DEF TypeOK
    <2>2. flashing' \in [Taskbars -> SUBSET Windows]
      BY <1>2, <2>1, BarsTyped DEF UpdateWindow, TypeOK
    <2>3. deferred' \subseteq listed /\ recent' \subseteq listed /\ dirty' \subseteq Windows
      BY <1>2 DEF UpdateWindow, TypeOK
    <2> QED BY <1>2, <2>2, <2>3 DEF UpdateWindow, ManagerTyped, TypeOK
  <1> QED BY <1>1, <1>2

LEMMA MonitorChangedTyped ==
  ASSUME TypeOK, NEW moved \in SUBSET listed, MonitorChanged(moved)
  PROVE  ManagerTyped'
  <1>1. tasks' \in [Taskbars -> SUBSET Windows]
    BY DEF MonitorChanged, TypeOK
  <1>2. laid' \in [Taskbars -> SUBSET Windows]
    BY <1>1 DEF MonitorChanged, TypeOK
  <1>3. /\ active' \in [Taskbars -> SUBSET Windows]
        /\ minimized' \in [Taskbars -> SUBSET Windows]
        /\ flashing' \in [Taskbars -> SUBSET Windows]
    BY DEF MonitorChanged, TypeOK
  <1>4. buttons' \in [Windows -> SUBSET Taskbars] /\ uMonitor' \in [Windows -> Monitors]
    BY DEF MonitorChanged, TypeOK
  <1> QED BY <1>1, <1>2, <1>3, <1>4 DEF MonitorChanged, ManagerTyped, TypeOK

LEMMA MarkAsMinimizedTyped ==
  ASSUME TypeOK, NEW w, MarkAsMinimized(w), UNCHANGED dirty
  PROVE  ManagerTyped'
  <1>1. minimized' \in [Taskbars -> SUBSET Windows]
    BY BarsTyped DEF MarkAsMinimized, TypeOK, With
  <1> QED BY <1>1 DEF MarkAsMinimized, mapVars, ManagerTyped, TypeOK

LEMMA HandleMessageTyped == TypeOK /\ HandleMessage => TypeOK'
  <1> SUFFICES ASSUME TypeOK, HandleMessage PROVE TypeOK'
    OBVIOUS
  <1> DEFINE n == Head(messages)
  <1>1. /\ n \in Message
        /\ messages' \in Seq(Message)
    BY DEF HandleMessage, TypeOK
  <1>2. n.window \in Windows \cup {NoWindow}
    BY <1>1 DEF Message
  <1>3. ManagerTyped' /\ activeWindow' \in Windows \cup {NoWindow} /\ initializing' \in BOOLEAN
    <2>1. CASE n.msg = "created" /\ AddWindow(n.window, active) /\ UNCHANGED <<activeWindow, initializing>>
      BY <1>2, <2>1, AddWindowTyped DEF TypeOK
    <2>2. CASE n.msg = "destroyed" /\ RemoveWindow(n.window) /\ UNCHANGED initializing
      BY <2>2, RemoveWindowTyped DEF TypeOK
    <2>3. CASE n.msg = "activated" /\ SetActive(n.window) /\ UNCHANGED initializing
      BY <1>2, <2>3, SetActiveTyped DEF TypeOK
    <2>4. CASE UpdateWindow(n.window, n.msg) /\ UNCHANGED <<activeWindow, initializing>>
      BY <1>2, <2>4, UpdateWindowTyped DEF TypeOK
    <2>5. CASE MonitorChanged({n.window} \cap listed) /\ UNCHANGED <<activeWindow, initializing>>
      BY <2>5, MonitorChangedTyped DEF TypeOK
    <2>6. CASE MarkAsMinimized(n.window) /\ UNCHANGED <<activeWindow, initializing, dirty>>
      BY <2>6, MarkAsMinimizedTyped DEF TypeOK
    <2>7. CASE /\ initializing' = FALSE /\ laid' = tasks
               /\ UNCHANGED <<activeWindow, dirty, mapVars, tasks, active, flashing, minimized>>
      BY <2>7 DEF TypeOK, ManagerTyped, mapVars
    <2> QED BY <2>1, <2>2, <2>3, <2>4, <2>5, <2>6, <2>7 DEF HandleMessage, ShellMessage
  <1> QED BY <1>1, <1>3 DEF HandleMessage, ManagerTyped, TypeOK, desktopVars, boundVars

LEMMA ThreadTyped == ASSUME TypeOK, NEW k \in Threads, Thread(k) PROVE TypeOK'
  <1>1. enumeration[k] \in Enumeration
    BY DEF TypeOK
  <1>2. CASE EnumDesktopWindows(k)
    <2>1. enumeration' \in [Threads -> Enumeration]
      BY <1>1, <1>2 DEF EnumDesktopWindows, TypeOK, Enumeration
    <2> QED BY <1>2, <2>1 DEF EnumDesktopWindows, ThreadOnly, TypeOK, desktopVars, stateVars,
                              mapVars, barVars, boundVars
  <1>3. CASE ExamineWindow(k)
    <2>1. enumeration' \in [Threads -> Enumeration]
      <3>1. PICK w \in enumeration[k].todo :
              enumeration' = [enumeration EXCEPT ![k].todo = @ \ {w},
                                ![k].found = IF w \in visible THEN w ELSE NoWindow]
        BY <1>3 DEF ExamineWindow
      <3>2. w \in Windows
        BY <1>1 DEF Enumeration
      <3> QED BY <1>1, <3>1, <3>2 DEF TypeOK, Enumeration
    <2> QED BY <1>3, <2>1 DEF ExamineWindow, ThreadOnly, TypeOK, desktopVars, stateVars,
                              mapVars, barVars, boundVars
  <1>4. CASE PostCreated(k)
    <2>1. enumeration' \in [Threads -> Enumeration]
      BY <1>1, <1>4 DEF PostCreated, TypeOK, Enumeration
    <2>2. messages' \in Seq(Message)
      BY <1>1, <1>4, OneMessage, PostTyped DEF PostCreated, TypeOK, Enumeration
    <2> QED BY <1>4, <2>1, <2>2 DEF PostCreated, ThreadOnly, TypeOK, desktopVars, stateVars,
                              mapVars, barVars, boundVars
  <1>5. CASE PostAdded(k)
    <2>1. enumeration' \in [Threads -> Enumeration]
      BY <1>1, <1>5 DEF PostAdded, TypeOK, Enumeration
    <2>2. messages' \in Seq(Message)
      BY <1>5, OneMessage, PostTyped DEF PostAdded, TypeOK
    <2> QED BY <1>5, <2>1, <2>2 DEF PostAdded, ThreadOnly, TypeOK, desktopVars, stateVars,
                              mapVars, barVars, boundVars
  <1> QED BY <1>2, <1>3, <1>4, <1>5 DEF Thread

\* A thread is started.
LEMMA StartedTyped ==
  ASSUME TypeOK, NEW k \in Threads
  PROVE  [enumeration EXCEPT ![k].pc = "started"] \in [Threads -> Enumeration]
  <1>1. enumeration[k] \in Enumeration /\ enumeration \in [Threads -> Enumeration]
    BY DEF TypeOK
  <1>2. [enumeration[k] EXCEPT !.pc = "started"] \in Enumeration
    BY <1>1 DEF Enumeration
  <1>3. [enumeration EXCEPT ![k].pc = "started"]
          = [enumeration EXCEPT ![k] = [enumeration[k] EXCEPT !.pc = "started"]]
    BY <1>1
  <1> QED BY <1>1, <1>2, <1>3

LEMMA TimersTyped ==
  ASSUME TypeOK, UpdateWindowMonitors \/ RunWindowMaintenance \/ AddExisting
  PROVE  TypeOK'
  <1>1. CASE UpdateWindowMonitors
    <2>1. ManagerTyped'
      BY <1>1, MonitorChangedTyped DEF UpdateWindowMonitors
    <2> QED BY <1>1, <2>1 DEF UpdateWindowMonitors, ManagerTyped, TypeOK, desktopVars, stateVars,
                              boundVars
  <1>2. CASE RunWindowMaintenance
    <2> DEFINE gone == listed \ exists
               updated == (deferred \ gone) \ recent
    <2>1. RemoveEntries(gone)
      BY <1>2 DEF RunWindowMaintenance
    <2>2. minimized' \in [Taskbars -> SUBSET Windows]
      BY <1>2 DEF RunWindowMaintenance, TypeOK
    <2>3. /\ deferred' \subseteq listed' /\ recent' \subseteq listed'
          /\ dirty' \subseteq Windows /\ activeWindow' \in Windows \cup {NoWindow}
      BY <1>2, <2>1 DEF RunWindowMaintenance, RemoveEntries, TypeOK
    <2>4. UNCHANGED <<desktopVars, asked, messages, enumeration, stateVars, boundVars>>
      BY <1>2 DEF RunWindowMaintenance
    <2>5. listed' \subseteq Windows
      BY <2>1, RemoveEntriesTyped DEF TypeOK
    <2> QED BY <2>1, <2>2, <2>3, <2>4, <2>5, RemoveEntriesTyped
            DEF TypeOK, desktopVars, stateVars, boundVars
  <1>3. CASE AddExisting
    <2>1. enumeration' \in [Threads -> Enumeration]
      <3>1. 1 \in Threads
        BY DEF Threads
      <3> QED BY <1>3, <3>1, StartedTyped DEF AddExisting
    <2> QED BY <1>3, <2>1 DEF AddExisting, TypeOK, desktopVars, stateVars, mapVars, barVars, boundVars
  <1> QED BY <1>1, <1>2, <1>3

LEMMA RestartTyped == ASSUME TypeOK, Refresh \/ Quit PROVE TypeOK'
  <1>1. Nowhere \in [Taskbars -> SUBSET Windows] /\ [w \in Windows |-> {}] \in [Windows -> SUBSET Taskbars]
    BY DEF Nowhere
  <1>2. CASE Refresh
    <2>1. enumeration' \in [Threads -> Enumeration]
      <3>1. refreshes + 2 \in Threads
        BY <1>2 DEF Refresh, TypeOK, Threads
      <3> QED BY <1>2, <3>1, StartedTyped DEF Refresh
    <2>2. refreshes' \in 0..MaxRefreshes
      BY <1>2 DEF Refresh, TypeOK
    <2>3. uMonitor' \in [Windows -> Monitors]
      BY <1>2 DEF Refresh, TypeOK
    <2>4. listed' \subseteq Windows /\ deferred' \subseteq listed' /\ recent' \subseteq listed'
      BY <1>2 DEF Refresh, TypeOK
    <2> QED BY <1>1, <1>2, <2>1, <2>2, <2>3, <2>4 DEF Refresh, TypeOK, desktopVars
  <1>3. CASE Quit
    <2>1. messages' \in Seq(Message)
      <3>1. <<>> \in Seq(Message)
        OBVIOUS
      <3> QED BY <1>3, <3>1 DEF Quit
    <2> QED BY <1>1, <1>3, <2>1 DEF Quit, TypeOK, desktopVars, boundVars
  <1> QED BY <1>2, <1>3

LEMMA StepTyped == TypeOK /\ [Next]_vars => TypeOK'
  <1> SUFFICES ASSUME TypeOK, [Next]_vars PROVE TypeOK'
    OBVIOUS
  <1>1. CASE UNCHANGED vars
    BY <1>1 DEF vars, TypeOK, desktopVars, stateVars, mapVars, barVars, boundVars
  <1>2. ASSUME NEW w \in Windows, Tick(w) PROVE TypeOK'
    BY <1>2 DEF Tick, TypeOK, desktopVars, stateVars, barVars, boundVars
  <1> QED BY <1>1, <1>2, DesktopTyped, HandleMessageTyped, TimersTyped, RestartTyped, ThreadTyped DEF Next

\* Whatever the desktop does and however often LiteStep is refreshed, the state of the
\* window manager stays well typed; deferred and recent updates belong to entries of
\* windowMap (WindowManager.cpp lines 58-71 and WindowInformation in WindowManager.h).
THEOREM ManagerTypeCorrect == Spec => []TypeOK
  BY InitTyped, StepTyped, PTL DEF Spec

----------------------------------------------------------------------------
(* The buttons.                                                             *)

BarsInv == TypeOK /\ TaskbarsFollowMap /\ ButtonsShown

\* The part of ButtonsShown that one taskbar has to satisfy.
Shown(t) ==
  /\ ~initializing => laid[t] = tasks[t]
  /\ laid[t] \cup active[t] \cup flashing[t] \cup minimized[t] \subseteq tasks[t]

LEMMA ShownEach ==
  ASSUME TypeOK PROVE ButtonsShown <=> \A t \in Taskbars : Shown(t)
  <1>1. laid = tasks <=> \A t \in Taskbars : laid[t] = tasks[t]
    BY DEF TypeOK
  <1> QED BY <1>1 DEF ButtonsShown, Shown

LEMMA ShownNext ==
  ASSUME TypeOK', \A t \in Taskbars : Shown(t)' PROVE ButtonsShown'
  <1>1. laid' = tasks' <=> \A t \in Taskbars : laid'[t] = tasks'[t]
    BY DEF TypeOK
  <1> QED BY <1>1 DEF ButtonsShown, Shown

LEMMA AddWindowBars ==
  ASSUME BarsInv, TypeOK', NEW w \in Windows \cup {NoWindow},
         NEW lit \in [Taskbars -> SUBSET Windows], \A t \in Taskbars : lit[t] \subseteq tasks[t],
         AddWindow(w, lit), initializing' = initializing
  PROVE  TaskbarsFollowMap' /\ ButtonsShown'
  <1> USE DEF BarsInv
  <1>1. CASE w \in visible \ listed
    <2> DEFINE bars == Wanting(monitor[w])
    <2>1. w \in Windows /\ buttons[w] = {} /\ \A t \in Taskbars : w \notin tasks[t]
      BY <1>1 DEF TypeOK, TaskbarsFollowMap
    <2>2. /\ listed' = listed \cup {w}
          /\ uMonitor' = [uMonitor EXCEPT ![w] = monitor[w]]
          /\ buttons' = [buttons EXCEPT ![w] = bars]
          /\ \A t \in Taskbars : tasks'[t] = IF t \in bars THEN tasks[t] \cup {w} ELSE tasks[t]
      BY <1>1 DEF AddWindow, With
    <2>3. TaskbarsFollowMap'
      <3> SUFFICES ASSUME NEW v \in Windows
                   PROVE  /\ buttons'[v] = {t \in Taskbars : v \in tasks'[t]}
                          /\ v \notin listed' => buttons'[v] = {}
                          /\ v \in listed' => buttons'[v] \in {{}, Wanting(uMonitor'[v])}
        BY DEF TaskbarsFollowMap, Wanting
      <3>1. CASE v = w
        <4>1. buttons'[w] = bars /\ uMonitor'[w] = monitor[w]
          BY <2>1, <2>2 DEF TypeOK
        <4>2. bars = {t \in Taskbars : w \in tasks'[t]}
          BY <2>1, <2>2, WantingTyped
        <4> QED BY <2>2, <3>1, <4>1, <4>2
      <3>2. CASE v # w
        <4>1. buttons'[v] = buttons[v] /\ uMonitor'[v] = uMonitor[v]
          BY <2>1, <2>2, <3>2 DEF TypeOK
        <4>2. \A t \in Taskbars : v \in tasks'[t] <=> v \in tasks[t]
          BY <2>2, <3>2
        <4> QED BY <2>2, <3>2, <4>1, <4>2 DEF TaskbarsFollowMap
      <3> QED BY <3>1, <3>2
    <2>4. ASSUME NEW t \in Taskbars PROVE Shown(t)'
      <3>1. Shown(t)
        BY ShownEach
      <3>2. laid'[t] = IF t \in bars /\ ~initializing THEN tasks'[t] ELSE laid[t]
        BY <1>1 DEF AddWindow
      <3>3. active'[t] \subseteq tasks'[t]
        BY <1>1, <2>2 DEF AddWindow, With
      <3>4. minimized'[t] \subseteq tasks'[t]
        <4>1. minimized' \in {minimized, With(minimized, bars, w)}
          BY <1>1 DEF AddWindow
        <4>2. minimized'[t] \subseteq minimized[t] \/ (t \in bars /\ minimized'[t] \subseteq minimized[t] \cup {w})
          BY <4>1 DEF With
        <4> QED BY <2>2, <3>1, <4>2 DEF Shown
      <3>5. flashing' = flashing
        BY <1>1 DEF AddWindow
      <3> QED BY <2>2, <3>1, <3>2, <3>3, <3>4, <3>5 DEF Shown
    <2> QED BY <2>3, <2>4, ShownNext
  <1>2. CASE w \notin visible \ listed
    BY <1>2 DEF AddWindow, mapVars, TaskbarsFollowMap, ButtonsShown, Wanting
  <1> QED BY <1>1, <1>2

LEMMA SetActiveBars ==
  ASSUME BarsInv, TypeOK', NEW w \in Windows \cup {NoWindow}, SetActive(w),
         initializing' = initializing
  PROVE  TaskbarsFollowMap' /\ ButtonsShown'
  <1> USE DEF BarsInv
  <1> DEFINE lit == Without(active, ButtonsOf(activeWindow), activeWindow)
  <1>1. lit \in [Taskbars -> SUBSET Windows] /\ \A t \in Taskbars : lit[t] \subseteq tasks[t]
    <2>1. \A t \in Taskbars : lit[t] \subseteq active[t]
      BY DEF Without
    <2>2. \A t \in Taskbars : active[t] \subseteq tasks[t]
      BY DEF ButtonsShown
    <2> QED BY <2>1, <2>2, BarsTyped DEF TypeOK
  <1>2. CASE w \in listed
    <2>1. \A t \in buttons[w] : t \in Taskbars /\ w \in tasks[t]
      BY <1>2 DEF TypeOK, TaskbarsFollowMap
    <2>2. /\ active' = With(lit, buttons[w], w)
          /\ minimized' = Without(minimized, buttons[w], w)
          /\ flashing' = Without(flashing, buttons[w], w)
          /\ UNCHANGED <<mapVars, tasks, laid>>
      BY <1>2 DEF SetActive
    <2>3. TaskbarsFollowMap'
      BY <2>2 DEF TaskbarsFollowMap, mapVars, Wanting
    <2>4. ASSUME NEW t \in Taskbars PROVE Shown(t)'
      <3>1. Shown(t)
        BY ShownEach
      <3>2. active'[t] \subseteq tasks[t]
        BY <1>1, <2>1, <2>2 DEF With
      <3>3. minimized'[t] \subseteq minimized[t] /\ flashing'[t] \subseteq flashing[t]
        BY <2>2 DEF Without
      <3> QED BY <2>2, <3>1, <3>2, <3>3 DEF Shown
    <2> QED BY <2>3, <2>4, ShownNext
  <1>3. CASE w \notin listed
    <2>1. AddWindow(w, lit)
      BY <1>3 DEF SetActive
    <2> QED BY <1>1, <2>1, AddWindowBars
  <1> QED BY <1>2, <1>3

LEMMA RemoveEntriesBars ==
  ASSUME BarsInv, TypeOK', NEW gone \in SUBSET listed, RemoveEntries(gone),
         initializing' = initializing,
         \A t \in Taskbars : minimized'[t] \subseteq tasks[t] \ gone
  PROVE  TaskbarsFollowMap' /\ ButtonsShown'
  <1> USE DEF BarsInv
  <1>1. TaskbarsFollowMap'
    <2> SUFFICES ASSUME NEW v \in Windows
                 PROVE  /\ buttons'[v] = {t \in Taskbars : v \in tasks'[t]}
                        /\ v \notin listed' => buttons'[v] = {}
                        /\ v \in listed' => buttons'[v] \in {{}, Wanting(uMonitor'[v])}
      BY DEF TaskbarsFollowMap, Wanting
    <2>1. /\ buttons'[v] = IF v \in gone THEN {} ELSE buttons[v]
          /\ \A t \in Taskbars : v \in tasks'[t] <=> v \in tasks[t] /\ v \notin gone
          /\ v \in listed' <=> v \in listed /\ v \notin gone
          /\ uMonitor' = uMonitor
      BY DEF RemoveEntries
    <2> QED BY <2>1 DEF TaskbarsFollowMap
  <1>2. ASSUME NEW t \in Taskbars PROVE Shown(t)'
    <2>1. Shown(t)
      BY ShownEach
    <2>2. /\ tasks'[t] = tasks[t] \ gone
          /\ laid'[t] = IF tasks[t] \cap gone # {} THEN tasks[t] \ gone ELSE laid[t]
          /\ active'[t] = active[t] \ gone /\ flashing'[t] = flashing[t] \ gone
      BY DEF RemoveEntries
    <2> QED BY <2>1, <2>2 DEF Shown
  <1> QED BY <1>1, <1>2, ShownNext

LEMMA RemoveWindowBars ==
  ASSUME BarsInv, TypeOK', NEW w, RemoveWindow(w), initializing' = initializing
  PROVE  TaskbarsFollowMap' /\ ButtonsShown'
  <1>1. CASE w \in listed
    <2>1. RemoveEntries({w})
      BY <1>1 DEF RemoveWindow
    <2>2. \A t \in Taskbars : minimized'[t] \subseteq tasks[t] \ {w}
      BY <1>1 DEF RemoveWindow, BarsInv, ButtonsShown
    <2> QED BY <1>1, <2>1, <2>2, RemoveEntriesBars
  <1>2. CASE w \notin listed
    BY <1>2 DEF RemoveWindow, mapVars, barVars, BarsInv, TaskbarsFollowMap, ButtonsShown, Wanting
  <1> QED BY <1>1, <1>2

LEMMA UpdateWindowBars ==
  ASSUME BarsInv, TypeOK', NEW w \in Windows \cup {NoWindow}, NEW what, UpdateWindow(w, what),
         initializing' = initializing
  PROVE  TaskbarsFollowMap' /\ ButtonsShown'
  <1> USE DEF BarsInv
  <1>1. CASE w \notin listed
    <2>1. AddWindow(w, active)
      BY <1>1 DEF UpdateWindow
    <2>2. active \in [Taskbars -> SUBSET Windows] /\ \A t \in Taskbars : active[t] \subseteq tasks[t]
      BY DEF TypeOK, ButtonsShown
    <2> QED BY <2>1, <2>2, AddWindowBars
  <1>2. CASE w \in listed
    <2>1. \A t \in buttons[w] : t \in Taskbars /\ w \in tasks[t]
      BY <1>2 DEF TypeOK, TaskbarsFollowMap
    <2>2. /\ UNCHANGED <<listed, uMonitor, buttons, tasks, laid, active, minimized>>
          /\ flashing' \in {flashing, With(flashing, buttons[w], w)}
      BY <1>2 DEF UpdateWindow
    <2>3. TaskbarsFollowMap'
      BY <2>2 DEF TaskbarsFollowMap, Wanting
    <2>4. ASSUME NEW t \in Taskbars PROVE Shown(t)'
      <3>1. Shown(t)
        BY ShownEach
      <3>2. flashing'[t] \subseteq tasks[t]
        BY <2>1, <2>2, <3>1 DEF With, Shown
      <3> QED BY <2>2, <3>1, <3>2 DEF Shown
    <2> QED BY <2>3, <2>4, ShownNext
  <1> QED BY <1>1, <1>2

LEMMA MonitorChangedBars ==
  ASSUME BarsInv, TypeOK', NEW moved \in SUBSET listed, MonitorChanged(moved),
         initializing' = initializing
  PROVE  TaskbarsFollowMap' /\ ButtonsShown'
  <1> USE DEF BarsInv
  <1> DEFINE onto(t) == {w \in moved \ tasks[t] : t \in Wanting(monitor[w])}
             off(t)  == {w \in moved \cap tasks[t] : t \notin Wanting(monitor[w])}
  <1>1. TaskbarsFollowMap'
    <2> SUFFICES ASSUME NEW v \in Windows
                 PROVE  /\ buttons'[v] = {t \in Taskbars : v \in tasks'[t]}
                        /\ v \notin listed' => buttons'[v] = {}
                        /\ v \in listed' => buttons'[v] \in {{}, Wanting(uMonitor'[v])}
      BY DEF TaskbarsFollowMap, Wanting
    <2>1. /\ buttons[v] = {t \in Taskbars : v \in tasks[t]}
          /\ listed' = listed
          /\ uMonitor'[v] = IF v \in moved THEN monitor[v] ELSE uMonitor[v]
          /\ buttons'[v] = (buttons[v] \cup {t \in Taskbars : v \in onto(t)})
                                       \ {t \in Taskbars : v \in off(t)}
          /\ \A t \in Taskbars : tasks'[t] = (tasks[t] \cup onto(t)) \ off(t)
      BY DEF MonitorChanged, TaskbarsFollowMap
    <2>2. CASE v \in moved
      <3>1. buttons'[v] = Wanting(monitor[v])
        BY <2>1, <2>2, WantingTyped
      <3>2. \A t \in Taskbars : v \in tasks'[t] <=> t \in Wanting(monitor[v])
        BY <2>1, <2>2
      <3> QED BY <2>1, <2>2, <3>1, <3>2, WantingTyped
    <2>3. CASE v \notin moved
      <3>1. buttons'[v] = buttons[v]
        BY <2>1, <2>3
      <3>2. \A t \in Taskbars : v \in tasks'[t] <=> v \in tasks[t]
        BY <2>1, <2>3
      <3> QED BY <2>1, <2>3, <3>1, <3>2 DEF TaskbarsFollowMap
    <2> QED BY <2>2, <2>3
  <1>2. ASSUME NEW t \in Taskbars PROVE Shown(t)'
    <2>1. Shown(t)
      BY ShownEach
    <2>2. /\ tasks'[t] = (tasks[t] \cup onto(t)) \ off(t)
          /\ laid'[t] = IF onto(t) \cup off(t) # {} THEN tasks'[t] ELSE laid[t]
          /\ active'[t] = (active[t] \cup (onto(t) \cap {foreground})) \ off(t)
          /\ minimized'[t] = (minimized[t] \cup ((onto(t) \cap iconic) \ {foreground})) \ off(t)
          /\ flashing'[t] = flashing[t] \ off(t)
      BY DEF MonitorChanged
    <2> HIDE DEF onto, off
    <2> QED BY <2>1, <2>2 DEF Shown
  <1> QED BY <1>1, <1>2, ShownNext

LEMMA HandleMessageBars ==
  ASSUME BarsInv, TypeOK', HandleMessage PROVE TaskbarsFollowMap' /\ ButtonsShown'
  <1> DEFINE n == Head(messages)
  <1>1. n.window \in Windows \cup {NoWindow}
    <2>1. n \in Message
      BY DEF HandleMessage, BarsInv, TypeOK
    <2> QED BY <2>1 DEF Message
  <1>2. CASE AddWindow(n.window, active) /\ UNCHANGED <<activeWindow, initializing>>
    <2>1. active \in [Taskbars -> SUBSET Windows] /\ \A t \in Taskbars : active[t] \subseteq tasks[t]
      BY DEF BarsInv, TypeOK, ButtonsShown
    <2> QED BY <1>1, <1>2, <2>1, AddWindowBars
  <1>3. CASE RemoveWindow(n.window) /\ UNCHANGED initializing
    BY <1>3, RemoveWindowBars
  <1>4. CASE SetActive(n.window) /\ UNCHANGED initializing
    BY <1>1, <1>4, SetActiveBars
  <1>5. CASE UpdateWindow(n.window, n.msg) /\ UNCHANGED <<activeWindow, initializing>>
    BY <1>1, <1>5, UpdateWindowBars
  <1>6. CASE MonitorChanged({n.window} \cap listed) /\ UNCHANGED <<activeWindow, initializing>>
    BY <1>6, MonitorChangedBars
  <1>7. CASE MarkAsMinimized(n.window) /\ UNCHANGED <<activeWindow, initializing, dirty>>
    <2>1. TaskbarsFollowMap'
      BY <1>7 DEF MarkAsMinimized, mapVars, BarsInv, TaskbarsFollowMap, Wanting
    <2>2. ASSUME NEW t \in Taskbars PROVE Shown(t)'
      <3>1. Shown(t)
        BY ShownEach DEF BarsInv
      <3>2. minimized'[t] \subseteq tasks[t]
        <4>1. minimized' \in {minimized, With(minimized, ButtonsOf(n.window), n.window)}
          BY <1>7 DEF MarkAsMinimized
        <4>2. t \in ButtonsOf(n.window) => n.window \in tasks[t]
          BY DEF ButtonsOf, BarsInv, TypeOK, TaskbarsFollowMap
        <4> QED BY <3>1, <4>1, <4>2 DEF With, Shown
      <3> QED BY <1>7, <3>1, <3>2 DEF MarkAsMinimized, Shown
    <2> QED BY <2>1, <2>2, ShownNext
  <1>8. CASE /\ initializing' = FALSE /\ laid' = tasks
             /\ UNCHANGED <<activeWindow, dirty, mapVars, tasks, active, flashing, minimized>>
    <2>1. TaskbarsFollowMap'
      BY <1>8 DEF mapVars, BarsInv, TaskbarsFollowMap, Wanting
    <2>2. ButtonsShown'
      BY <1>8 DEF BarsInv, ButtonsShown
    <2> QED BY <2>1, <2>2
  <1> QED BY <1>2, <1>3, <1>4, <1>5, <1>6, <1>7, <1>8 DEF HandleMessage, ShellMessage

LEMMA InitBars == Init => TaskbarsFollowMap /\ ButtonsShown
  <1> SUFFICES ASSUME Init PROVE TaskbarsFollowMap /\ ButtonsShown
    OBVIOUS
  <1>1. foreground \in Windows => listed = {foreground}
    BY DEF Init
  <1>2. ASSUME NEW w \in Windows
        PROVE  /\ w \notin listed => buttons[w] = {}
               /\ w \in listed => buttons[w] = Wanting(uMonitor[w])
               /\ buttons[w] \subseteq Taskbars
    BY WantingTyped DEF Init
  <1>3. \A t \in Taskbars : tasks[t] = {w \in listed : t \in buttons[w]}
    BY DEF Init
  <1>4. TaskbarsFollowMap
    BY <1>2, <1>3 DEF TaskbarsFollowMap
  <1>5. ButtonsShown
    BY DEF Init, ButtonsShown, Nowhere
  <1> QED BY <1>4, <1>5

LEMMA StepBars ==
  ASSUME BarsInv, TypeOK', [Next]_vars PROVE TaskbarsFollowMap' /\ ButtonsShown'
  <1> USE DEF BarsInv
  <1>1. ASSUME UNCHANGED <<listed, uMonitor, buttons, initializing, barVars>>
        PROVE  TaskbarsFollowMap' /\ ButtonsShown'
    BY <1>1 DEF barVars, TaskbarsFollowMap, ButtonsShown, Wanting
  <1>2. CASE Desktop
    <2>1. UNCHANGED <<listed, uMonitor, buttons, initializing, tasks, laid, active, flashing>>
      BY <1>2 DEF Desktop, Open, Close, Activate, Move, Redraw, Minimize, Restore, ClickButton,
                  Event, stateVars, mapVars
    <2>2. TaskbarsFollowMap'
      BY <2>1 DEF TaskbarsFollowMap, Wanting
    <2>3. \A t \in Taskbars : minimized'[t] \subseteq tasks[t]
      <3>1. ASSUME NEW w \in Windows, NEW t \in Taskbars, ClickButton(t, w)
            PROVE  \A s \in Taskbars : minimized'[s] \subseteq tasks[s]
        <4>1. w \in tasks[t]
          BY <3>1 DEF ClickButton, ButtonsShown
        <4>2. minimized' \in {minimized, [minimized EXCEPT ![t] = @ \cup {w}]}
          BY <3>1 DEF ClickButton
        <4> QED BY <4>1, <4>2 DEF TypeOK, ButtonsShown
      <3>2. CASE UNCHANGED minimized
        BY <3>2 DEF ButtonsShown
      <3> QED BY <1>2, <3>1, <3>2 DEF Desktop, Open, Close, Activate, Move, Redraw, Minimize, Restore
    <2>4. ButtonsShown'
      BY <2>1, <2>3 DEF ButtonsShown
    <2> QED BY <2>2, <2>4
  <1>3. CASE HandleMessage
    BY <1>3, HandleMessageBars
  <1>4. CASE UpdateWindowMonitors
    BY <1>4, MonitorChangedBars DEF UpdateWindowMonitors, stateVars
  <1>5. CASE RunWindowMaintenance
    <2>1. /\ RemoveEntries(listed \ exists) /\ initializing' = initializing
          /\ \A t \in Taskbars : minimized'[t] \subseteq tasks[t] \ (listed \ exists)
      BY <1>5 DEF RunWindowMaintenance, stateVars
    <2> QED BY <2>1, RemoveEntriesBars
  <1>6. CASE Refresh \/ Quit
    <2>1. /\ initializing' = TRUE
          /\ \A w \in Windows : buttons'[w] = {}
          /\ \A t \in Taskbars : /\ tasks'[t] = {} /\ laid'[t] = {} /\ active'[t] = {}
                                  /\ flashing'[t] = {} /\ minimized'[t] = {}
      BY <1>6 DEF Refresh, Quit, Nowhere
    <2> QED BY <2>1 DEF TaskbarsFollowMap, ButtonsShown
  <1>7. ASSUME NEW k \in Threads, Thread(k) PROVE TaskbarsFollowMap' /\ ButtonsShown'
    BY <1>1, <1>7 DEF Thread, EnumDesktopWindows, ExamineWindow, PostCreated, PostAdded, ThreadOnly,
                      mapVars, stateVars
  <1>8. CASE AddExisting
    BY <1>1, <1>8 DEF AddExisting, mapVars, stateVars
  <1>9. ASSUME NEW w \in Windows, Tick(w) PROVE TaskbarsFollowMap' /\ ButtonsShown'
    BY <1>1, <1>9 DEF Tick, stateVars
  <1>10. CASE UNCHANGED vars
    BY <1>1, <1>10 DEF vars, mapVars, stateVars
  <1> QED BY <1>2, <1>3, <1>4, <1>5, <1>6, <1>7, <1>8, <1>9, <1>10 DEF Next

LEMMA ManagerInvariant == Spec => []BarsInv
  <1>1. Init => BarsInv
    BY InitTyped, InitBars DEF BarsInv
  <1>2. BarsInv /\ [Next]_vars => BarsInv'
    BY StepTyped, StepBars DEF BarsInv
  <1> QED BY <1>1, <1>2, PTL DEF Spec

\* For any windows, monitors and taskbars: the TaskButton pointers in windowMap are
\* exactly the buttons of the taskbars' mButtonMap, so none dangles and AddTask's ASSERT
\* holds, and a window's buttons are on all the taskbars that want it or on none.
THEOREM PointersAreButtons == Spec => []TaskbarsFollowMap
  BY ManagerInvariant, PTL DEF BarsInv

\* Once the existing windows have been added, every button of every taskbar has been
\* given a place and is shown, and no state belongs to a button that is gone.
THEOREM EveryButtonShown == Spec => []ButtonsShown
  BY ManagerInvariant, PTL DEF BarsInv

----------------------------------------------------------------------------
(* The queue of messages.                                                   *)

In(q, m) == \E i \in DOMAIN q : q[i] = m

\* Of the messages of the queue q that are p or in M, if there are any in M, the last is p.
EndsWith(q, M, p) ==
  \A i \in DOMAIN q : q[i] \in M => \E j \in DOMAIN q : j >= i /\ q[j] = p

LEMMA InPost ==
  ASSUME NEW q \in Seq(Message), NEW r \in Seq(Message), NEW m
  PROVE  In(q \o r, m) <=> In(q, m) \/ In(r, m)
  <1>1. /\ Len(q) \in Nat /\ Len(r) \in Nat
        /\ DOMAIN q = 1..Len(q) /\ DOMAIN r = 1..Len(r)
        /\ DOMAIN (q \o r) = 1..(Len(q) + Len(r))
        /\ \A i \in 1..(Len(q) + Len(r)) :
             (q \o r)[i] = IF i <= Len(q) THEN q[i] ELSE r[i - Len(q)]
    OBVIOUS
  <1>2. ASSUME NEW i \in DOMAIN q PROVE i \in DOMAIN (q \o r) /\ (q \o r)[i] = q[i]
    BY <1>1
  <1>3. ASSUME NEW i \in DOMAIN r
        PROVE  i + Len(q) \in DOMAIN (q \o r) /\ (q \o r)[i + Len(q)] = r[i]
    BY <1>1
  <1>4. ASSUME NEW i \in DOMAIN (q \o r)
        PROVE  \/ i \in DOMAIN q /\ (q \o r)[i] = q[i]
               \/ i - Len(q) \in DOMAIN r /\ (q \o r)[i] = r[i - Len(q)]
    BY <1>1
  <1> QED BY <1>2, <1>3, <1>4 DEF In

LEMMA EndsPost ==
  ASSUME NEW q \in Seq(Message), NEW r \in Seq(Message), NEW M, NEW p,
         \/ EndsWith(q, M, p) /\ \A i \in DOMAIN r : r[i] \notin M
         \/ r # <<>> /\ r[Len(r)] = p
  PROVE  EndsWith(q \o r, M, p)
  <1>1. /\ Len(q) \in Nat /\ Len(r) \in Nat
        /\ DOMAIN q = 1..Len(q) /\ DOMAIN r = 1..Len(r)
        /\ DOMAIN (q \o r) = 1..(Len(q) + Len(r))
        /\ \A i \in 1..(Len(q) + Len(r)) :
             (q \o r)[i] = IF i <= Len(q) THEN q[i] ELSE r[i - Len(q)]
    OBVIOUS
  <1>2. CASE EndsWith(q, M, p) /\ \A i \in DOMAIN r : r[i] \notin M
    <2> SUFFICES ASSUME NEW i \in DOMAIN (q \o r), (q \o r)[i] \in M
                 PROVE  \E j \in DOMAIN (q \o r) : j >= i /\ (q \o r)[j] = p
      BY DEF EndsWith
    <2>1. i \in DOMAIN q /\ q[i] \in M
      BY <1>1, <1>2
    <2>2. PICK j \in DOMAIN q : j >= i /\ q[j] = p
      BY <1>2, <2>1 DEF EndsWith
    <2>3. j \in DOMAIN (q \o r) /\ (q \o r)[j] = p
      BY <1>1, <2>2
    <2> QED BY <2>2, <2>3
  <1>3. CASE r # <<>> /\ r[Len(r)] = p
    <2> DEFINE j == Len(q) + Len(r)
    <2>1. Len(r) >= 1
      BY <1>1, <1>3
    <2>2. j \in DOMAIN (q \o r) /\ (q \o r)[j] = p /\ \A i \in DOMAIN (q \o r) : j >= i
      BY <1>1, <1>3, <2>1
    <2> QED BY <2>2 DEF EndsWith
  <1> QED BY <1>2, <1>3

LEMMA TailIndices ==
  ASSUME NEW q \in Seq(Message), q # <<>>
  PROVE  /\ Tail(q) \in Seq(Message) /\ Head(q) \in Message
         /\ Head(q) = q[1] /\ 1 \in DOMAIN q /\ DOMAIN q \subseteq Nat
         /\ \A i \in DOMAIN q : i # 1 => i - 1 \in DOMAIN Tail(q) /\ Tail(q)[i - 1] = q[i]
         /\ \A i \in DOMAIN Tail(q) : i + 1 \in DOMAIN q /\ i + 1 # 1 /\ Tail(q)[i] = q[i + 1]
  <1>1. /\ Len(q) \in Nat \ {0} /\ DOMAIN q = 1..Len(q)
        /\ Tail(q) \in Seq(Message) /\ Len(Tail(q)) = Len(q) - 1
        /\ DOMAIN Tail(q) = 1..(Len(q) - 1)
        /\ \A i \in 1..(Len(q) - 1) : Tail(q)[i] = q[i + 1]
    OBVIOUS
  <1>2. Head(q) = q[1] /\ q[1] \in Message
    BY <1>1
  <1> QED BY <1>1, <1>2

LEMMA InTail ==
  ASSUME NEW q \in Seq(Message), q # <<>>, NEW m
  PROVE  /\ In(q, m) <=> Head(q) = m \/ In(Tail(q), m)
         /\ In(q, Head(q))
  <1> DEFINE h == Head(q)
             r == Tail(q)
  <1>1. /\ h = q[1] /\ 1 \in DOMAIN q
        /\ \A i \in DOMAIN q : i # 1 => i - 1 \in DOMAIN r /\ r[i - 1] = q[i]
        /\ \A i \in DOMAIN r : i + 1 \in DOMAIN q /\ r[i] = q[i + 1]
    BY TailIndices
  <1> HIDE DEF h, r
  <1>2. ASSUME In(q, m), h # m PROVE In(r, m)
    <2>1. PICK i \in DOMAIN q : q[i] = m
      BY <1>2 DEF In
    <2> QED BY <1>1, <1>2, <2>1 DEF In
  <1>3. In(r, m) => In(q, m)
    BY <1>1 DEF In
  <1>4. In(q, h) /\ (h = m => In(q, m))
    BY <1>1 DEF In
  <1>5. In(q, m) <=> h = m \/ In(r, m)
    BY <1>2, <1>3, <1>4
  <1> QED BY <1>4, <1>5 DEF h, r

LEMMA EndsTail ==
  ASSUME NEW q \in Seq(Message), q # <<>>, NEW M, NEW p, EndsWith(q, M, p)
  PROVE  /\ EndsWith(Tail(q), M, p)
         /\ Head(q) \in M => Head(q) = p \/ In(Tail(q), p)
  <1>1. ASSUME NEW i \in DOMAIN Tail(q), Tail(q)[i] \in M
        PROVE  \E j \in DOMAIN Tail(q) : j >= i /\ Tail(q)[j] = p
    <2>1. i + 1 \in DOMAIN q /\ q[i + 1] \in M /\ i \in Nat
      BY <1>1, TailIndices
    <2>2. PICK j \in DOMAIN q : j >= i + 1 /\ q[j] = p
      BY <2>1 DEF EndsWith
    <2>3. j # 1 /\ j \in Nat
      BY <2>1, <2>2, TailIndices
    <2>4. j - 1 \in DOMAIN Tail(q) /\ Tail(q)[j - 1] = p /\ j - 1 >= i
      BY <2>1, <2>2, <2>3, TailIndices
    <2> QED BY <2>4
  <1>2. ASSUME Head(q) \in M PROVE Head(q) = p \/ In(Tail(q), p)
    <2>1. In(q, p)
      BY <1>2, TailIndices DEF EndsWith, In
    <2> QED BY <2>1, InTail
  <1> QED BY <1>1, <1>2 DEF EndsWith

----------------------------------------------------------------------------
(* The active buttons.                                                      *)

\* The messages that make a button active or inactive that stands for f.
Turning(f) == {m \in Message : m.msg = "activated"} \cup {Msg("destroyed", f)}

\* What waits to be handled ends with the activation of the foreground window: a
\* button that is lit too much is that of a window which was active last or whose
\* turn to be active comes, and one can only be missing until then.
Turns ==
  /\ EndsWith(messages, Turning(foreground), Msg("activated", foreground))
  /\ foreground = activeWindow \/ Pending("activated", foreground)
  /\ \A t \in Taskbars : \A w \in active[t] : w = activeWindow \/ Pending("activated", w)
  /\ (\A w \in Windows \cup {NoWindow} : ~Pending("activated", w)) =>
       \A t \in Taskbars : foreground \in tasks[t] => foreground \in active[t]

ActiveInv ==
  /\ foreground \in visible \cup {NoWindow}
  /\ isStarted => Turns

LEMMA PendingIn == \A what, w : Pending(what, w) <=> In(messages, Msg(what, w))
  BY DEF Pending, In

LEMMA PendingNext == \A what, w : Pending(what, w)' <=> In(messages', Msg(what, w))
  BY DEF Pending, In

LEMMA DesktopActivates ==
  ASSUME TypeOK, ActiveInv, Desktop
  PROVE  /\ foreground' \in visible' \cup {NoWindow}
         /\ UNCHANGED <<isStarted, activeWindow, active, tasks>>
         /\ \E r \in Seq(Message) :
              /\ isStarted => messages' = messages \o r
              /\ \/ foreground' = foreground /\ \A i \in DOMAIN r : r[i] \notin Turning(foreground)
                 \/ r # <<>> /\ r[Len(r)] = Msg("activated", foreground')
  <1> DEFINE Said(r) ==
        /\ isStarted => messages' = messages \o r
        /\ \/ foreground' = foreground /\ \A i \in DOMAIN r : r[i] \notin Turning(foreground)
           \/ r # <<>> /\ r[Len(r)] = Msg("activated", foreground')
  <1>1. UNCHANGED <<isStarted, activeWindow, active, tasks>>
    BY DEF Desktop, Open, Close, Activate, Move, Redraw, Minimize, Restore, ClickButton,
           Event, stateVars
  <1>2. foreground' \in visible' \cup {NoWindow}
    <2>1. foreground \in visible \cup {NoWindow}
      BY DEF ActiveInv
    <2>2. ASSUME NEW w, NEW destroyed, NEW next, Close(w, destroyed, next)
          PROVE  foreground' \in visible' \cup {NoWindow}
      BY <2>1, <2>2 DEF Close
    <2>3. ASSUME NEW w, NEW m, Open(w, m)
          PROVE  foreground' \in visible' \cup {NoWindow}
      BY <2>1, <2>3 DEF Open
    <2> QED BY <2>1, <2>2, <2>3 DEF Desktop, Activate, Move, Redraw, Minimize, Restore, ClickButton,
                                    desktopVars
  <1>3. ASSUME NEW w \in Windows,
               NEW what \in {"created", "monitor", "redraw", "flash", "minrect"},
               Post(<<Msg(what, w)>>), UNCHANGED foreground
        PROVE  \E r \in Seq(Message) : Said(r)
    <2> DEFINE r == <<Msg(what, w)>>
    <2>1. r \in Seq(Message) /\ DOMAIN r = {1} /\ r[1] = Msg(what, w)
      BY OneMessage
    <2>2. Msg(what, w) \notin Turning(foreground)
      BY DEF Turning, Msg
    <2>3. isStarted => messages' = messages \o r
      BY <1>3 DEF Post
    <2> QED BY <1>3, <2>1, <2>2, <2>3
  <1>4. ASSUME NEW w \in Windows \cup {NoWindow}, Post(<<Msg("activated", w)>>), foreground' = w
        PROVE  \E r \in Seq(Message) : Said(r)
    <2> DEFINE r == <<Msg("activated", w)>>
    <2>1. r \in Seq(Message) /\ r # <<>> /\ r[Len(r)] = Msg("activated", w)
      BY OneMessage
    <2>2. isStarted => messages' = messages \o r
      BY <1>4 DEF Post
    <2> QED BY <1>4, <2>1, <2>2
  <1>5. ASSUME NEW w \in Windows, NEW destroyed, NEW next \in Windows \cup {NoWindow},
               Close(w, destroyed, next)
        PROVE  \E r \in Seq(Message) : Said(r)
    <2>1. CASE w = foreground
      <3> DEFINE r == <<Msg("destroyed", w), Msg("activated", next)>>
      <3>1. Msg("destroyed", w) \in Message /\ Msg("activated", next) \in Message
        BY DEF Msg, Message
      <3>2. r \in Seq(Message) /\ r # <<>> /\ r[Len(r)] = Msg("activated", next)
        BY <3>1
      <3>3. (isStarted => messages' = messages \o r) /\ foreground' = next
        BY <1>5, <2>1 DEF Close, Post
      <3> QED BY <3>2, <3>3
    <2>2. CASE w # foreground
      <3> DEFINE r == <<Msg("destroyed", w)>>
      <3>1. r \in Seq(Message) /\ DOMAIN r = {1} /\ r[1] = Msg("destroyed", w)
        BY OneMessage
      <3>2. Msg("destroyed", w) \notin Turning(foreground)
        BY <2>2 DEF Turning, Msg
      <3>3. (isStarted => messages' = messages \o r) /\ foreground' = foreground
        BY <1>5, <2>2 DEF Close, Post
      <3> QED BY <3>1, <3>2, <3>3
    <2> QED BY <2>1, <2>2
  <1>6. ASSUME NEW w \in Windows, NEW t \in Taskbars, ClickButton(t, w)
        PROVE  \E r \in Seq(Message) : Said(r)
    <2>1. CASE w \in iconic \/ w # foreground
      BY <1>4, <1>6, <2>1 DEF ClickButton
    <2>2. CASE ~(w \in iconic \/ w # foreground)
      <3>1. UNCHANGED <<foreground, messages>>
        BY <1>6, <2>2 DEF ClickButton
      <3>2. <<>> \in Seq(Message) /\ messages \o <<>> = messages
            /\ \A i \in DOMAIN <<>> : <<>>[i] \notin Turning(foreground)
        BY DEF TypeOK
      <3> QED BY <3>1, <3>2
    <2> QED BY <2>1, <2>2
  <1>7. \E r \in Seq(Message) : Said(r)
    <2>1. ASSUME NEW w \in Windows, NEW m, Open(w, m) \/ Move(w, m)
          PROVE  \E r \in Seq(Message) : Said(r)
      BY <1>3, <2>1 DEF Open, Move
    <2>2. ASSUME NEW w \in Windows, NEW what \in {"redraw", "flash"}, Redraw(w, what)
          PROVE  \E r \in Seq(Message) : Said(r)
      BY <1>3, <2>2 DEF Redraw, desktopVars
    <2>3. ASSUME NEW w \in Windows, Minimize(w) \/ Restore(w)
          PROVE  \E r \in Seq(Message) : Said(r)
      BY <1>3, <2>3 DEF Minimize, Restore
    <2>4. ASSUME NEW w \in Windows \cup {NoWindow}, Activate(w)
          PROVE  \E r \in Seq(Message) : Said(r)
      BY <1>4, <2>4 DEF Activate
    <2> HIDE DEF Said
    <2> QED BY <1>5, <1>6, <2>1, <2>2, <2>3, <2>4 DEF Desktop
  <1> QED BY <1>1, <1>2, <1>7

\* Messages that do not turn the foreground window, or that end with its activation.
LEMMA PostTurns ==
  ASSUME TypeOK, Turns, UNCHANGED <<activeWindow, active, tasks>>,
         NEW r \in Seq(Message), messages' = messages \o r,
         \/ foreground' = foreground /\ \A i \in DOMAIN r : r[i] \notin Turning(foreground)
         \/ r # <<>> /\ r[Len(r)] = Msg("activated", foreground')
  PROVE  Turns'
  <1>1. messages \in Seq(Message)
    BY DEF TypeOK
  <1>2. EndsWith(messages', Turning(foreground'), Msg("activated", foreground'))
    BY <1>1, EndsPost DEF Turns
  <1>3. \A what, w : Pending(what, w)' <=> Pending(what, w) \/ In(r, Msg(what, w))
    BY <1>1, InPost, PendingIn, PendingNext
  <1>4. foreground' = foreground \/ Pending("activated", foreground)'
    <2>1. ASSUME r # <<>>, r[Len(r)] = Msg("activated", foreground')
          PROVE  In(r, Msg("activated", foreground'))
      <3>1. Len(r) \in DOMAIN r
        BY <2>1
      <3> QED BY <2>1, <3>1 DEF In
    <2>2. In(messages', Msg("activated", foreground')) => Pending("activated", foreground)'
      BY DEF Pending, In
    <2>3. In(r, Msg("activated", foreground')) => In(messages', Msg("activated", foreground'))
      BY <1>1, InPost
    <2> QED BY <2>1, <2>2, <2>3
  <1>5. CASE Pending("activated", foreground)'
    <2>1. foreground' \in Windows \cup {NoWindow} \/ foreground' = foreground
      <3>1. ASSUME In(messages', Msg("activated", foreground')) PROVE foreground' \in Windows \cup {NoWindow}
        <4>1. messages' \in Seq(Message)
          BY <1>1
        <4>2. Msg("activated", foreground') \in Message
          BY <3>1, <4>1 DEF In
        <4> QED BY <4>2 DEF Msg, Message
      <3> QED BY <1>5, <3>1 DEF Pending, In
    <2>2. foreground' \in Windows \cup {NoWindow}
      BY <2>1 DEF TypeOK
    <2> QED BY <1>2, <1>3, <1>5, <2>2 DEF Turns
  <1>6. CASE foreground' = foreground
    BY <1>2, <1>3, <1>6 DEF Turns
  <1> QED BY <1>4, <1>5, <1>6

\* A handler that does not change which window is active lights at most the button of the
\* foreground window, and no button of it is left dark that was not dark before.
Steady ==
  /\ UNCHANGED activeWindow
  /\ \A t \in Taskbars :
       /\ active'[t] \subseteq active[t] \cup {foreground}
       /\ foreground \in tasks'[t] => foreground \in active'[t] \cup (tasks[t] \ active[t])

LEMMA UnchangedSteady ==
  ASSUME BarsInv, UNCHANGED <<activeWindow, active, tasks>> PROVE Steady
  BY DEF Steady

LEMMA AddWindowSteady ==
  ASSUME BarsInv, NEW w \in Windows \cup {NoWindow}, AddWindow(w, active), UNCHANGED activeWindow
  PROVE  Steady
  <1>1. CASE w \in visible \ listed
    <2> DEFINE bars == Wanting(monitor[w])
    <2>1. tasks' = With(tasks, bars, w)
          /\ active' = IF w = foreground THEN With(active, bars, w) ELSE active
      BY <1>1 DEF AddWindow
    <2>2. ASSUME NEW t \in Taskbars
          PROVE  /\ active'[t] \subseteq active[t] \cup {foreground}
                 /\ foreground \in tasks'[t] => foreground \in active'[t] \cup (tasks[t] \ active[t])
      <3>1. tasks'[t] = IF t \in bars THEN tasks[t] \cup {w} ELSE tasks[t]
        BY <2>1 DEF With
      <3>2. CASE w = foreground
        <4>1. active'[t] = IF t \in bars THEN active[t] \cup {w} ELSE active[t]
          BY <2>1, <3>2 DEF With
        <4> QED BY <3>1, <3>2, <4>1
      <3>3. CASE w # foreground
        BY <2>1, <3>1, <3>3
      <3> QED BY <3>2, <3>3
    <2> QED BY <2>2 DEF Steady
  <1>2. CASE w \notin visible \ listed
    BY <1>2, UnchangedSteady DEF AddWindow
  <1> QED BY <1>1, <1>2

LEMMA UpdateWindowSteady ==
  ASSUME BarsInv, NEW w \in Windows \cup {NoWindow}, NEW what, UpdateWindow(w, what),
         UNCHANGED activeWindow
  PROVE  Steady
  <1>1. CASE w \in listed
    BY <1>1, UnchangedSteady DEF UpdateWindow
  <1>2. CASE w \notin listed
    BY <1>2, AddWindowSteady DEF UpdateWindow
  <1> QED BY <1>1, <1>2

LEMMA MonitorChangedSteady ==
  ASSUME BarsInv, NEW moved \in SUBSET listed, MonitorChanged(moved), UNCHANGED activeWindow
  PROVE  Steady
  <1> DEFINE onto(t) == {w \in moved \ tasks[t] : t \in Wanting(monitor[w])}
             off(t)  == {w \in moved \cap tasks[t] : t \notin Wanting(monitor[w])}
  <1>1. ASSUME NEW t \in Taskbars
        PROVE  /\ tasks'[t] = (tasks[t] \cup onto(t)) \ off(t)
               /\ active'[t] = (active[t] \cup (onto(t) \cap {foreground})) \ off(t)
    BY DEF MonitorChanged
  <1> HIDE DEF onto, off
  <1> QED BY <1>1 DEF Steady

\* After SetActive the lit buttons are the given window's, and those that waited for
\* their turn before.
LEMMA SetActiveLit ==
  ASSUME BarsInv, NEW w \in Windows \cup {NoWindow}, SetActive(w)
  PROVE  /\ activeWindow' = w
         /\ \A t \in Taskbars : active'[t] \subseteq (active[t] \ {activeWindow}) \cup {w}
         /\ w = foreground => \A t \in Taskbars : w \in tasks'[t] => w \in active'[t]
  <1> DEFINE lit == Without(active, ButtonsOf(activeWindow), activeWindow)
  <1>1. \A t \in Taskbars : lit[t] = active[t] \ {activeWindow}
    <2> SUFFICES ASSUME NEW t \in Taskbars PROVE lit[t] = active[t] \ {activeWindow}
      OBVIOUS
    <2>1. CASE t \in ButtonsOf(activeWindow)
      BY <2>1 DEF Without
    <2>2. CASE t \notin ButtonsOf(activeWindow)
      <3>1. lit[t] = active[t]
        BY <2>2 DEF Without
      <3>2. activeWindow \notin tasks[t]
        BY <2>2 DEF ButtonsOf, BarsInv, TypeOK, TaskbarsFollowMap
      <3>3. activeWindow \notin active[t]
        BY <3>2 DEF BarsInv, ButtonsShown
      <3> QED BY <3>1, <3>3
    <2> QED BY <2>1, <2>2
  <1>2. activeWindow' = w
    BY DEF SetActive
  <1> HIDE DEF lit
  <1>3. CASE w \in listed
    <2>1. active' = With(lit, buttons[w], w) /\ tasks' = tasks
      BY <1>3 DEF SetActive, lit
    <2>2. \A t \in Taskbars : w \in tasks[t] => t \in buttons[w]
      BY <1>3 DEF BarsInv, TypeOK, TaskbarsFollowMap
    <2>3. ASSUME NEW t \in Taskbars
          PROVE  /\ active'[t] \subseteq (active[t] \ {activeWindow}) \cup {w}
                 /\ w \in tasks'[t] => w \in active'[t]
      <3>1. active'[t] = IF t \in buttons[w] THEN lit[t] \cup {w} ELSE lit[t]
        BY <2>1 DEF With
      <3> QED BY <1>1, <2>1, <2>2, <3>1
    <2> QED BY <1>2, <2>3
  <1>4. CASE w \notin listed
    <2>1. AddWindow(w, lit)
      BY <1>4 DEF SetActive, lit
    <2>2. \A t \in Taskbars : w \notin tasks[t]
      BY <1>4 DEF BarsInv, TypeOK, TaskbarsFollowMap
    <2>3. CASE w \in visible
      <3> DEFINE bars == Wanting(monitor[w])
      <3>1. tasks' = With(tasks, bars, w) /\ active' = IF w = foreground THEN With(lit, bars, w) ELSE lit
        BY <1>4, <2>1, <2>3 DEF AddWindow
      <3>2. CASE w = foreground
        <4>1. ASSUME NEW t \in Taskbars
              PROVE  /\ active'[t] = IF t \in bars THEN lit[t] \cup {w} ELSE lit[t]
                     /\ w \in tasks'[t] => t \in bars
          BY <2>2, <3>1, <3>2 DEF With
        <4> QED BY <1>1, <1>2, <4>1
      <3>3. CASE w # foreground
        BY <1>1, <1>2, <3>1, <3>3
      <3> QED BY <3>2, <3>3
    <2>4. CASE w \notin visible
      <3>1. active' = lit /\ tasks' = tasks
        BY <2>1, <2>4 DEF AddWindow
      <3> QED BY <1>1, <1>2, <2>2, <3>1
    <2> QED BY <2>3, <2>4
  <1> QED BY <1>3, <1>4

\* The buttons of a window that is removed are lit no more, the others are as they were.
LEMMA RemoveWindowLit ==
  ASSUME BarsInv, NEW w \in Windows \cup {NoWindow}, RemoveWindow(w)
  PROVE  /\ activeWindow' = IF activeWindow = w THEN NoWindow ELSE activeWindow
         /\ \A t \in Taskbars : active'[t] = active[t] \ {w} /\ tasks'[t] \subseteq tasks[t]
  <1>1. activeWindow' = IF activeWindow = w THEN NoWindow ELSE activeWindow
    BY DEF RemoveWindow
  <1>2. CASE w \in listed
    BY <1>1, <1>2 DEF RemoveWindow, RemoveEntries
  <1>3. CASE w \notin listed
    <2>1. UNCHANGED <<active, tasks>>
      BY <1>3 DEF RemoveWindow, barVars
    <2>2. \A t \in Taskbars : w \notin tasks[t]
      BY <1>3 DEF BarsInv, TypeOK, TaskbarsFollowMap
    <2>3. \A t \in Taskbars : w \notin active[t]
      BY <2>2 DEF BarsInv, ButtonsShown
    <2> QED BY <1>1, <2>1, <2>3
  <1> QED BY <1>2, <1>3

\* What is in the queue is a message about a window that may be there.
LEMMA PendingTyped ==
  ASSUME TypeOK, NEW what, NEW w, Pending(what, w)
  PROVE  w \in Windows \cup {NoWindow}
  <1>1. PICK i \in DOMAIN messages : messages[i] = Msg(what, w)
    BY DEF Pending
  <1>2. Msg(what, w) \in Message
    BY <1>1 DEF TypeOK
  <1> QED BY <1>2 DEF Msg, Message

\* Steps that leave the queue and the foreground alone and light no other button.
LEMMA SteadyTurns ==
  ASSUME TypeOK, Turns, Steady, UNCHANGED <<messages, foreground>> PROVE Turns'
  <1>1. \A what, w : Pending(what, w)' <=> Pending(what, w)
    BY PendingIn, PendingNext
  <1> QED BY <1>1 DEF Turns, Steady

LEMMA HandleMessageTurns ==
  ASSUME BarsInv, Turns, HandleMessage PROVE Turns'
  <1> DEFINE n == Head(messages)
             on == Msg("activated", foreground)
             more == In(Tail(messages), on)
  <1>1. /\ messages \in Seq(Message) /\ messages # <<>>
        /\ messages' = Tail(messages) /\ ShellMessage(n) /\ foreground' = foreground
        /\ foreground \in Windows \cup {NoWindow}
    BY DEF HandleMessage, desktopVars, BarsInv, TypeOK
  <1>2. n \in Message /\ n.window \in Windows \cup {NoWindow} /\ n = Msg(n.msg, n.window)
    <2>1. n \in Message
      BY <1>1, TailIndices
    <2> QED BY <2>1 DEF Message, Msg
  <1>3. /\ EndsWith(messages', Turning(foreground'), Msg("activated", foreground'))
        /\ n \in Turning(foreground) => n = on \/ more
    BY <1>1, EndsTail DEF Turns
  <1>4. /\ \A what, w : Pending(what, w) <=> n = Msg(what, w) \/ Pending(what, w)'
        /\ more <=> Pending("activated", foreground)'
    <2>1. \A what, w : Pending(what, w)' <=> In(Tail(messages), Msg(what, w))
      BY <1>1, PendingNext
    <2> QED BY <1>1, <2>1, InTail, PendingIn
  <1> HIDE DEF n, more
  <1> DEFINE Lit == \A t \in Taskbars : \A w \in active'[t] :
                      w = activeWindow' \/ Pending("activated", w)'
             Full == (\A w \in Windows \cup {NoWindow} : ~Pending("activated", w)') =>
                       \A t \in Taskbars : foreground \in tasks'[t] => foreground \in active'[t]
  <1>5. SUFFICES /\ foreground = activeWindow' \/ Pending("activated", foreground)'
                 /\ Lit /\ Full
    BY <1>1, <1>3 DEF Turns
  <1>6. CASE n.msg = "activated"
    <2>1. SetActive(n.window)
      BY <1>1, <1>6 DEF ShellMessage
    <2>2. /\ activeWindow' = n.window
          /\ \A t \in Taskbars : active'[t] \subseteq (active[t] \ {activeWindow}) \cup {n.window}
          /\ n.window = foreground => \A t \in Taskbars : n.window \in tasks'[t] => n.window \in active'[t]
      BY <1>2, <2>1, SetActiveLit
    <2>3. n = on \/ more
      BY <1>2, <1>3, <1>6 DEF Turning
    <2>4. n = on => n.window = foreground
      BY DEF Msg
    <2>5. \A w : n = Msg("activated", w) => w = n.window
      BY DEF Msg
    <2>6. Lit
      BY <1>4, <2>2, <2>5 DEF Turns
    <2> QED BY <1>1, <1>4, <2>2, <2>3, <2>4, <2>6
  <1>7. CASE n.msg = "destroyed"
    <2>1. RemoveWindow(n.window)
      BY <1>1, <1>7 DEF ShellMessage
    <2>2. /\ activeWindow' = IF activeWindow = n.window THEN NoWindow ELSE activeWindow
          /\ \A t \in Taskbars : active'[t] = active[t] \ {n.window} /\ tasks'[t] \subseteq tasks[t]
      BY <1>2, <2>1, RemoveWindowLit
    <2>3. n.window = foreground => more
      <3>1. n.window = foreground => n \in Turning(foreground)
        BY <1>2, <1>7 DEF Turning
      <3>2. n # on
        BY <1>7 DEF Msg
      <3> QED BY <1>3, <3>1, <3>2
    <2>4. \A w : n # Msg("activated", w)
      BY <1>7 DEF Msg
    <2>5. Lit
      BY <1>4, <2>2, <2>4 DEF Turns
    <2>6. Full
      BY <1>1, <1>4, <2>2, <2>3, <2>4 DEF Turns
    <2>7. foreground = activeWindow' \/ Pending("activated", foreground)'
      BY <1>1, <1>4, <2>2, <2>3, <2>4 DEF Turns
    <2> QED BY <2>5, <2>6, <2>7
  <1>8. CASE n.msg \notin {"activated", "destroyed"}
    <2>1. Steady
      <3>1. CASE AddWindow(n.window, active) /\ UNCHANGED <<activeWindow, initializing>>
        BY <1>2, <3>1, AddWindowSteady
      <3>2. CASE UpdateWindow(n.window, n.msg) /\ UNCHANGED <<activeWindow, initializing>>
        BY <1>2, <3>2, UpdateWindowSteady
      <3>3. CASE MonitorChanged({n.window} \cap listed) /\ UNCHANGED <<activeWindow, initializing>>
        BY <3>3, MonitorChangedSteady
      <3>4. CASE MarkAsMinimized(n.window) /\ UNCHANGED <<activeWindow, initializing, dirty>>
        BY <3>4, UnchangedSteady DEF MarkAsMinimized
      <3>5. CASE /\ initializing' = FALSE /\ laid' = tasks
                 /\ UNCHANGED <<activeWindow, dirty, mapVars, tasks, active, flashing, minimized>>
        BY <3>5, UnchangedSteady
      <3> QED BY <1>1, <1>8, <3>1, <3>2, <3>3, <3>4, <3>5 DEF ShellMessage
    <2>2. \A w : n # Msg("activated", w)
      BY <1>8 DEF Msg
    <2>3. foreground = activeWindow' \/ Pending("activated", foreground)'
      BY <1>1, <1>4, <2>1, <2>2 DEF Turns, Steady
    <2>4. Lit
      BY <1>1, <1>4, <2>1, <2>2, <2>3 DEF Turns, Steady
    <2>5. Full
      BY <1>1, <1>4, <2>1, <2>2 DEF Turns, Steady
    <2> QED BY <2>3, <2>4, <2>5
  <1> QED BY <1>6, <1>7, <1>8

LEMMA MaintenanceTurns ==
  ASSUME BarsInv, ActiveInv, Turns, RunWindowMaintenance PROVE Turns'
  <1> DEFINE gone == listed \ exists
  <1>1. /\ UNCHANGED <<messages, foreground>>
        /\ activeWindow' = IF activeWindow \in gone THEN NoWindow ELSE activeWindow
        /\ \A t \in Taskbars : active'[t] = active[t] \ gone /\ tasks'[t] = tasks[t] \ gone
    BY DEF RunWindowMaintenance, RemoveEntries, desktopVars
  <1>2. foreground \notin gone
    BY DEF ActiveInv, BarsInv, TypeOK
  <1>3. \A what, w : Pending(what, w)' <=> Pending(what, w)
    BY <1>1, PendingIn, PendingNext
  <1>4. foreground = activeWindow' \/ Pending("activated", foreground)
    BY <1>1, <1>2 DEF Turns
  <1> HIDE DEF gone
  <1>5. \A t \in Taskbars : \A w \in active'[t] : w = activeWindow' \/ Pending("activated", w)
    BY <1>1 DEF Turns
  <1>6. (\A w \in Windows \cup {NoWindow} : ~Pending("activated", w)) =>
          \A t \in Taskbars : foreground \in tasks'[t] => foreground \in active'[t]
    BY <1>1, <1>2 DEF Turns
  <1>7. EndsWith(messages', Turning(foreground'), Msg("activated", foreground'))
    BY <1>1 DEF Turns
  <1> QED BY <1>1, <1>3, <1>4, <1>5, <1>6, <1>7 DEF Turns

LEMMA ThreadTurns ==
  ASSUME TypeOK, Turns, NEW k \in Threads, Thread(k), isStarted PROVE Turns'
  <1>1. UNCHANGED <<activeWindow, active, tasks, foreground>>
    BY DEF Thread, EnumDesktopWindows, ExamineWindow, PostCreated, PostAdded, ThreadOnly,
           desktopVars, barVars
  <1>2. CASE UNCHANGED messages
    <2>1. \A what, w : Pending(what, w)' <=> Pending(what, w)
      BY <1>2, PendingIn, PendingNext
    <2> QED BY <1>1, <1>2, <2>1 DEF Turns
  <1>3. ASSUME NEW what \in {"created", "added"}, NEW w \in Windows \cup {NoWindow},
               Post(<<Msg(what, w)>>)
        PROVE  Turns'
    <2> DEFINE r == <<Msg(what, w)>>
    <2>1. r \in Seq(Message) /\ DOMAIN r = {1} /\ r[1] = Msg(what, w)
      BY OneMessage
    <2>2. Msg(what, w) \notin Turning(foreground)
      BY DEF Turning, Msg
    <2>3. messages' = messages \o r
      BY <1>3 DEF Post
    <2> HIDE DEF r
    <2> QED BY <1>1, <2>1, <2>2, <2>3, PostTurns
  <1>4. enumeration[k].found \in Windows \cup {NoWindow}
    BY DEF TypeOK, Enumeration
  <1> QED BY <1>2, <1>3, <1>4 DEF Thread, EnumDesktopWindows, ExamineWindow, PostCreated, PostAdded

LEMMA InitActive == Init => ActiveInv
  <1> SUFFICES ASSUME Init PROVE ActiveInv
    OBVIOUS
  <1>1. foreground \in visible \cup {NoWindow} /\ messages = <<>> /\ DOMAIN messages = {}
    <2>1. DOMAIN <<>> = {}
      OBVIOUS
    <2> QED BY <2>1 DEF Init
  <1>2. EndsWith(messages, Turning(foreground), Msg("activated", foreground))
    BY <1>1 DEF EndsWith
  <1>3. \A t \in Taskbars : active[t] = tasks[t] /\ active[t] \subseteq {foreground}
    BY DEF Init
  <1> QED BY <1>1, <1>2, <1>3 DEF Init, ActiveInv, Turns

LEMMA StepActive == ASSUME BarsInv, ActiveInv, [Next]_vars PROVE ActiveInv'
  <1> DEFINE Fore == foreground \in visible \cup {NoWindow}
  <1>1. CASE Desktop
    <2>1. PICK r \in Seq(Message) :
            /\ isStarted => messages' = messages \o r
            /\ \/ foreground' = foreground /\ \A i \in DOMAIN r : r[i] \notin Turning(foreground)
               \/ r # <<>> /\ r[Len(r)] = Msg("activated", foreground')
      BY <1>1, DesktopActivates DEF BarsInv
    <2>2. isStarted /\ Turns => Turns'
      BY <1>1, <2>1, DesktopActivates, PostTurns DEF BarsInv
    <2> QED BY <1>1, <2>2, DesktopActivates DEF ActiveInv, BarsInv
  <1>2. CASE HandleMessage
    BY <1>2, HandleMessageTurns DEF HandleMessage, desktopVars, ActiveInv
  <1>3. CASE UpdateWindowMonitors
    <2>1. Steady
      BY <1>3, MonitorChangedSteady DEF UpdateWindowMonitors
    <2> QED BY <1>3, <2>1, SteadyTurns DEF UpdateWindowMonitors, desktopVars, ActiveInv, BarsInv
  <1>4. CASE RunWindowMaintenance
    BY <1>4, MaintenanceTurns DEF RunWindowMaintenance, desktopVars, ActiveInv
  <1>5. CASE Refresh
    <2>1. /\ UNCHANGED <<messages, foreground, visible>> /\ activeWindow' = foreground
          /\ \A t \in Taskbars : active'[t] = {} /\ tasks'[t] = {}
      BY <1>5 DEF Refresh, Nowhere, desktopVars
    <2> QED BY <1>5, <2>1 DEF Refresh, ActiveInv, Turns
  <1>6. CASE Quit
    BY <1>6 DEF Quit, ActiveInv, desktopVars
  <1>7. ASSUME NEW k \in Threads, Thread(k) PROVE ActiveInv'
    <2>1. UNCHANGED <<isStarted, foreground, visible>>
      BY <1>7 DEF Thread, EnumDesktopWindows, ExamineWindow, PostCreated, PostAdded, ThreadOnly,
                  desktopVars, stateVars
    <2> QED BY <1>7, <2>1, ThreadTurns DEF ActiveInv, BarsInv
  <1>8. ASSUME UNCHANGED <<foreground, visible, isStarted, messages, activeWindow, active, tasks>>
        PROVE  ActiveInv'
    BY <1>8, UnchangedSteady, SteadyTurns DEF ActiveInv, BarsInv
  <1>9. CASE AddExisting
    BY <1>8, <1>9 DEF AddExisting, desktopVars, stateVars, barVars
  <1>10. ASSUME NEW w \in Windows, Tick(w) PROVE ActiveInv'
    BY <1>8, <1>10 DEF Tick, desktopVars, stateVars, barVars
  <1>11. CASE UNCHANGED vars
    BY <1>8, <1>11 DEF vars, desktopVars, stateVars, barVars
  <1> QED BY <1>1, <1>2, <1>3, <1>4, <1>5, <1>6, <1>7, <1>9, <1>10, <1>11 DEF Next

LEMMA ActiveInvariant == Spec => []ActiveInv
  <1>1. BarsInv /\ ActiveInv /\ [Next]_vars => ActiveInv'
    BY StepActive
  <1> QED BY <1>1, InitActive, ManagerInvariant, PTL DEF Spec

\* Once no activation is left to handle, the lit buttons on every taskbar are those of the
\* foreground window: SetActive puts out what the window before had lit, although a button
\* that is added asks for the foreground window and not for the one SetActive knows.
THEOREM LitFollowsForeground == Spec => []ActiveFollows
  <1>1. BarsInv /\ ActiveInv => ActiveFollows
    <2> SUFFICES ASSUME BarsInv, ActiveInv, isStarted,
                        \A w \in Windows \cup {NoWindow} : ~Pending("activated", w),
                        NEW t \in Taskbars
                 PROVE  active[t] = tasks[t] \cap {foreground}
      BY DEF ActiveFollows
    <2>1. foreground = activeWindow /\ foreground \in Windows \cup {NoWindow}
      BY DEF ActiveInv, Turns, BarsInv, TypeOK
    <2>2. active[t] \subseteq tasks[t] /\ active[t] \subseteq Windows
      BY DEF BarsInv, ButtonsShown, TypeOK
    <2>3. active[t] \subseteq {foreground}
      BY <2>1, <2>2 DEF ActiveInv, Turns
    <2>4. foreground \in tasks[t] => foreground \in active[t]
      BY DEF ActiveInv, Turns
    <2> QED BY <2>2, <2>3, <2>4
  <1> QED BY <1>1, ManagerInvariant, ActiveInvariant, PTL

----------------------------------------------------------------------------
(* The list of windows.                                                     *)

\* A window that comes up is or will be in the list: nothing that waits takes it out for
\* good, and if it is not there yet it will be put in.
Coming(w) ==
  /\ EndsWith(messages, {Msg("destroyed", w)}, Msg("created", w))
  /\ Pending("created", w) \/ w \in listed

ListInv ==
  /\ ~isStarted => listed = {}
  /\ isStarted => /\ \A w \in listed \ visible : Pending("destroyed", w)
                  /\ \A w \in visible : Coming(w) \/ WillBeExamined(w)

\* Of some numbers between 1 and n that there are, one is the greatest.
LEMMA Greatest ==
  ASSUME NEW n \in Nat, NEW S \in SUBSET (1..n), S # {}
  PROVE  \E i \in S : \A j \in S : j <= i
  <1> DEFINE less == OpToRel(<, Nat)
             D == {n - i : i \in S}
  <1>1. \A p, q \in Nat : <<p, q>> \in less <=> p < q
    BY DEF OpToRel
  <1>2. IsWellFoundedOn(less, Nat)
    BY NatLessThanWellFounded DEF OpToRel
  <1>3. D \subseteq Nat /\ D # {}
    <2>1. \A i \in S : n - i \in Nat
      OBVIOUS
    <2>2. PICK i \in S : TRUE
      OBVIOUS
    <2> QED BY <2>1, <2>2
  <1> HIDE DEF less, D
  <1>4. PICK p \in D : \A q \in D : ~(<<q, p>> \in less)
    BY <1>2, <1>3, WFMin
  <1>5. \A q \in D : p <= q
    <2> SUFFICES ASSUME NEW q \in D PROVE p <= q
      OBVIOUS
    <2>1. p \in Nat /\ q \in Nat
      BY <1>3
    <2>2. ~(q < p)
      BY <1>1, <1>4, <2>1
    <2> QED BY <2>1, <2>2
  <1>6. PICK i \in S : p = n - i
    BY DEF D
  <1>7. \A j \in S : n - i <= n - j
    BY <1>5, <1>6 DEF D
  <1> QED BY <1>7

\* The messages posted when something happens on the desktop.
LEMMA DesktopLists ==
  ASSUME TypeOK, Desktop
  PROVE  /\ UNCHANGED <<isStarted, listed, enumeration>>
         /\ \E r \in Seq(Message) :
              /\ isStarted => messages' = messages \o r
              /\ \A w \in visible' \ visible : r # <<>> /\ r[Len(r)] = Msg("created", w)
              /\ \A w \in visible \ visible' : In(r, Msg("destroyed", w))
              /\ \A w \in visible \cap visible' : \A i \in DOMAIN r : r[i] # Msg("destroyed", w)
  <1> DEFINE Said(r) ==
        /\ isStarted => messages' = messages \o r
        /\ \A w \in visible' \ visible : r # <<>> /\ r[Len(r)] = Msg("created", w)
        /\ \A w \in visible \ visible' : In(r, Msg("destroyed", w))
        /\ \A w \in visible \cap visible' : \A i \in DOMAIN r : r[i] # Msg("destroyed", w)
  <1>1. UNCHANGED <<isStarted, listed, enumeration>>
    BY DEF Desktop, Open, Close, Activate, Move, Redraw, Minimize, Restore, ClickButton,
           Event, stateVars, mapVars
  <1>2. ASSUME NEW w \in Windows \cup {NoWindow},
               NEW what \in {"activated", "monitor", "redraw", "flash", "minrect"},
               Post(<<Msg(what, w)>>), UNCHANGED visible
        PROVE  \E r \in Seq(Message) : Said(r)
    <2> DEFINE r == <<Msg(what, w)>>
    <2>1. r \in Seq(Message) /\ DOMAIN r = {1} /\ r[1] = Msg(what, w)
      BY OneMessage
    <2>2. \A v : r[1] # Msg("destroyed", v)
      BY <2>1 DEF Msg
    <2>3. isStarted => messages' = messages \o r
      BY <1>2 DEF Post
    <2> HIDE DEF r
    <2> QED BY <1>2, <2>1, <2>2, <2>3
  <1>3. ASSUME NEW w \in Windows, NEW m, Open(w, m)
        PROVE  \E r \in Seq(Message) : Said(r)
    <2> DEFINE r == <<Msg("created", w)>>
    <2>1. r \in Seq(Message) /\ DOMAIN r = {1} /\ r[1] = Msg("created", w) /\ r # <<>> /\ Len(r) = 1
      BY OneMessage
    <2>2. \A v : r[1] # Msg("destroyed", v)
      BY <2>1 DEF Msg
    <2>3. (isStarted => messages' = messages \o r) /\ visible' = visible \cup {w}
      BY <1>3 DEF Open, Post
    <2> HIDE DEF r
    <2> QED BY <2>1, <2>2, <2>3
  <1>4. ASSUME NEW w \in Windows, NEW destroyed, NEW next \in Windows \cup {NoWindow},
               Close(w, destroyed, next)
        PROVE  \E r \in Seq(Message) : Said(r)
    <2>1. visible' = visible \ {w}
      BY <1>4 DEF Close
    <2>2. \A v : Msg("destroyed", v) = Msg("destroyed", w) => v = w
      BY DEF Msg
    <2>3. CASE w = foreground
      <3> DEFINE r == <<Msg("destroyed", w), Msg("activated", next)>>
      <3>1. Msg("destroyed", w) \in Message /\ Msg("activated", next) \in Message
        BY DEF Msg, Message
      <3>2. r \in Seq(Message) /\ DOMAIN r = {1, 2} /\ r[1] = Msg("destroyed", w)
            /\ r[2] = Msg("activated", next)
        BY <3>1
      <3>3. \A v : Msg("activated", next) # Msg("destroyed", v)
        BY DEF Msg
      <3>4. isStarted => messages' = messages \o r
        BY <1>4, <2>3 DEF Close, Post
      <3> HIDE DEF r
      <3>5. In(r, Msg("destroyed", w))
        BY <3>2 DEF In
      <3> QED BY <2>1, <2>2, <3>2, <3>3, <3>4, <3>5
    <2>4. CASE w # foreground
      <3> DEFINE r == <<Msg("destroyed", w)>>
      <3>1. r \in Seq(Message) /\ DOMAIN r = {1} /\ r[1] = Msg("destroyed", w)
        BY OneMessage
      <3>2. isStarted => messages' = messages \o r
        BY <1>4, <2>4 DEF Close, Post
      <3> HIDE DEF r
      <3>3. In(r, Msg("destroyed", w))
        BY <3>1 DEF In
      <3> QED BY <2>1, <2>2, <3>1, <3>2, <3>3
    <2> QED BY <2>3, <2>4
  <1>5. ASSUME NEW w \in Windows, NEW t \in Taskbars, ClickButton(t, w)
        PROVE  \E r \in Seq(Message) : Said(r)
    <2>1. UNCHANGED visible
      BY <1>5 DEF ClickButton
    <2>2. CASE w \in iconic \/ w # foreground
      BY <1>2, <1>5, <2>1, <2>2 DEF ClickButton
    <2>3. CASE ~(w \in iconic \/ w # foreground)
      <3>1. UNCHANGED messages
        BY <1>5, <2>3 DEF ClickButton
      <3>2. <<>> \in Seq(Message) /\ messages \o <<>> = messages /\ DOMAIN <<>> = {}
        BY DEF TypeOK
      <3> QED BY <2>1, <3>1, <3>2
    <2> QED BY <2>2, <2>3
  <1>6. \E r \in Seq(Message) : Said(r)
    <2>1. ASSUME NEW w \in Windows, NEW m, Move(w, m)
          PROVE  \E r \in Seq(Message) : Said(r)
      BY <1>2, <2>1 DEF Move
    <2>2. ASSUME NEW w \in Windows, NEW what \in {"redraw", "flash"}, Redraw(w, what)
          PROVE  \E r \in Seq(Message) : Said(r)
      BY <1>2, <2>2 DEF Redraw, desktopVars
    <2>3. ASSUME NEW w \in Windows, Minimize(w) \/ Restore(w)
          PROVE  \E r \in Seq(Message) : Said(r)
      BY <1>2, <2>3 DEF Minimize, Restore
    <2>4. ASSUME NEW w \in Windows \cup {NoWindow}, Activate(w)
          PROVE  \E r \in Seq(Message) : Said(r)
      BY <1>2, <2>4 DEF Activate
    <2> HIDE DEF Said
    <2> QED BY <1>3, <1>4, <1>5, <2>1, <2>2, <2>3, <2>4 DEF Desktop
  <1> QED BY <1>1, <1>6

LEMMA DesktopListInv ==
  ASSUME TypeOK, ListInv, Desktop PROVE ListInv'
  <1>1. UNCHANGED <<isStarted, listed, enumeration>>
    BY DesktopLists
  <1>2. SUFFICES ASSUME isStarted PROVE ListInv'
    BY <1>1 DEF ListInv
  <1>3. PICK r \in Seq(Message) :
          /\ messages' = messages \o r
          /\ \A w \in visible' \ visible : r # <<>> /\ r[Len(r)] = Msg("created", w)
          /\ \A w \in visible \ visible' : In(r, Msg("destroyed", w))
          /\ \A w \in visible \cap visible' : \A i \in DOMAIN r : r[i] # Msg("destroyed", w)
    BY <1>2, DesktopLists
  <1>4. messages \in Seq(Message)
    BY DEF TypeOK
  <1>5. \A what, w : Pending(what, w)' <=> Pending(what, w) \/ In(r, Msg(what, w))
    BY <1>3, <1>4, InPost, PendingIn, PendingNext
  <1>6. \A w : WillBeExamined(w)' <=> WillBeExamined(w)
    BY <1>1 DEF WillBeExamined
  <1>7. ASSUME NEW w \in listed \ visible' PROVE Pending("destroyed", w)'
    <2>1. CASE w \in visible
      <3>1. In(r, Msg("destroyed", w))
        BY <1>3, <1>7, <2>1
      <3> QED BY <1>5, <3>1
    <2>2. CASE w \notin visible
      <3>1. Pending("destroyed", w)
        BY <1>2, <1>7, <2>2 DEF ListInv
      <3> QED BY <1>5, <3>1
    <2> QED BY <2>1, <2>2
  <1>8. ASSUME NEW w, \/ /\ EndsWith(messages, {Msg("destroyed", w)}, Msg("created", w))
                         /\ \A i \in DOMAIN r : r[i] # Msg("destroyed", w)
                      \/ r # <<>> /\ r[Len(r)] = Msg("created", w)
        PROVE  EndsWith(messages', {Msg("destroyed", w)}, Msg("created", w))
    <2> DEFINE M == {Msg("destroyed", w)}
               p == Msg("created", w)
    <2>1. \/ EndsWith(messages, M, p) /\ \A i \in DOMAIN r : r[i] \notin M
          \/ r # <<>> /\ r[Len(r)] = p
      BY <1>8
    <2> HIDE DEF M, p
    <2>2. EndsWith(messages \o r, M, p)
      BY <1>4, <2>1, EndsPost
    <2> QED BY <1>3, <2>2 DEF M, p
  <1>9. ASSUME NEW w \in visible' PROVE Coming(w)' \/ WillBeExamined(w)'
    <2>1. CASE w \in visible
      <3>1. ASSUME Coming(w) PROVE Coming(w)'
        <4>1. EndsWith(messages', {Msg("destroyed", w)}, Msg("created", w))
          BY <1>3, <1>8, <1>9, <2>1, <3>1 DEF Coming
        <4> QED BY <1>1, <1>5, <3>1, <4>1 DEF Coming
      <3> QED BY <1>2, <1>6, <2>1, <3>1 DEF ListInv
    <2>2. CASE w \notin visible
      <3>1. r # <<>> /\ r[Len(r)] = Msg("created", w)
        BY <1>3, <1>9, <2>2
      <3>2. EndsWith(messages', {Msg("destroyed", w)}, Msg("created", w))
        BY <1>8, <3>1
      <3>3. Len(r) \in DOMAIN r
        BY <3>1
      <3>4. In(r, Msg("created", w))
        BY <3>1, <3>3 DEF In
      <3> QED BY <1>5, <3>2, <3>4 DEF Coming
    <2> QED BY <2>1, <2>2
  <1> QED BY <1>1, <1>7, <1>9 DEF ListInv

\* What a handler may do to the list: it puts the window of a "created" in if it is there,
\* takes out that of a "destroyed", and otherwise puts in only windows that are there.
LEMMA HandlerLists ==
  ASSUME TypeOK, NEW n, n.window \in Windows \cup {NoWindow}, ShellMessage(n)
  PROVE  /\ listed' \subseteq listed \cup visible
         /\ listed \ listed' \subseteq {n.window}
         /\ listed \subseteq listed' \/ n.msg = "destroyed"
         /\ n.msg = "destroyed" => n.window \notin listed'
         /\ n.msg = "created" /\ n.window \in visible => n.window \in listed'
  <1>1. ASSUME NEW lit, AddWindow(n.window, lit)
        PROVE  /\ listed' \subseteq listed \cup visible /\ listed \subseteq listed'
               /\ n.window \in visible => n.window \in listed'
    BY <1>1 DEF AddWindow, mapVars
  <1>2. CASE n.msg = "created"
    BY <1>1, <1>2 DEF ShellMessage
  <1>3. CASE n.msg = "destroyed"
    <2>1. RemoveWindow(n.window)
      BY <1>3 DEF ShellMessage
    <2>2. listed' = listed \ {n.window}
      BY <2>1 DEF RemoveWindow, RemoveEntries, mapVars
    <2> QED BY <1>3, <2>2
  <1>4. CASE n.msg = "activated"
    <2>1. SetActive(n.window)
      BY <1>4 DEF ShellMessage
    <2>2. CASE n.window \in listed
      BY <1>4, <2>1, <2>2 DEF SetActive, mapVars
    <2>3. CASE n.window \notin listed
      <3>1. AddWindow(n.window, Without(active, ButtonsOf(activeWindow), activeWindow))
        BY <2>1, <2>3 DEF SetActive
      <3> QED BY <1>1, <1>4, <3>1
    <2> QED BY <2>2, <2>3
  <1>5. CASE n.msg \in {"redraw", "flash"}
    <2>1. UpdateWindow(n.window, n.msg)
      BY <1>5 DEF ShellMessage
    <2> QED BY <1>1, <1>5, <2>1 DEF UpdateWindow
  <1>6. CASE n.msg \in {"monitor", "minrect", "added"}
    BY <1>6 DEF ShellMessage, MonitorChanged, MarkAsMinimized, mapVars
  <1> QED BY <1>2, <1>3, <1>4, <1>5, <1>6 DEF ShellMessage

LEMMA HandleMessageListInv ==
  ASSUME TypeOK, ListInv, HandleMessage PROVE ListInv'
  <1> DEFINE n == Head(messages)
  <1>1. /\ messages \in Seq(Message) /\ messages # <<>> /\ messages' = Tail(messages)
        /\ ShellMessage(n) /\ isStarted /\ isStarted' = isStarted
        /\ UNCHANGED <<visible, enumeration>>
    BY DEF HandleMessage, desktopVars, TypeOK
  <1>2. n.window \in Windows \cup {NoWindow} /\ n = Msg(n.msg, n.window)
    <2>1. n \in Message
      BY <1>1, TailIndices
    <2> QED BY <2>1 DEF Message, Msg
  <1>3. \A what, w : Pending(what, w) <=> n = Msg(what, w) \/ Pending(what, w)'
    <2>1. \A what, w : Pending(what, w)' <=> In(Tail(messages), Msg(what, w))
      BY <1>1, PendingNext
    <2> QED BY <1>1, <2>1, InTail, PendingIn
  <1>4. ASSUME NEW w, EndsWith(messages, {Msg("destroyed", w)}, Msg("created", w))
        PROVE  /\ EndsWith(messages', {Msg("destroyed", w)}, Msg("created", w))
               /\ n = Msg("destroyed", w) => Pending("created", w)'
    <2>1. Msg("destroyed", w) # Msg("created", w)
      BY DEF Msg
    <2>2. /\ EndsWith(Tail(messages), {Msg("destroyed", w)}, Msg("created", w))
          /\ n = Msg("destroyed", w) => n = Msg("created", w) \/ In(Tail(messages), Msg("created", w))
      BY <1>1, <1>4, EndsTail
    <2>3. In(Tail(messages), Msg("created", w)) => Pending("created", w)'
      BY <1>1, PendingNext
    <2> QED BY <1>1, <2>1, <2>2, <2>3
  <1>5. \A w : WillBeExamined(w)' <=> WillBeExamined(w)
    BY <1>1 DEF WillBeExamined
  <1>6. \A what, w : n = Msg(what, w) => n.msg = what /\ n.window = w
    BY DEF Msg
  <1>7. /\ listed' \subseteq listed \cup visible
        /\ listed \ listed' \subseteq {n.window}
        /\ listed \subseteq listed' \/ n.msg = "destroyed"
        /\ n.msg = "destroyed" => n.window \notin listed'
        /\ n.msg = "created" /\ n.window \in visible => n.window \in listed'
    BY <1>1, <1>2, HandlerLists
  <1> HIDE DEF n
  <1>8. ASSUME NEW w \in listed' \ visible PROVE Pending("destroyed", w)'
    BY <1>1, <1>3, <1>6, <1>7, <1>8 DEF ListInv
  <1>9. ASSUME NEW w \in visible PROVE Coming(w)' \/ WillBeExamined(w)'
    <2>1. ASSUME Coming(w) PROVE Coming(w)'
      <3>1. /\ EndsWith(messages', {Msg("destroyed", w)}, Msg("created", w))
            /\ n = Msg("destroyed", w) => Pending("created", w)'
        BY <1>4, <2>1 DEF Coming
      <3>2. CASE n = Msg("destroyed", w)
        BY <3>1, <3>2 DEF Coming
      <3>3. CASE n # Msg("destroyed", w)
        <4>1. w \in listed => w \in listed'
          BY <1>2, <1>7, <3>3
        <4>2. n = Msg("created", w) => w \in listed'
          BY <1>6, <1>7, <1>9
        <4> QED BY <1>3, <2>1, <3>1, <4>1, <4>2 DEF Coming
      <3> QED BY <3>2, <3>3
    <2> QED BY <1>1, <1>5, <2>1 DEF ListInv
  <1> QED BY <1>1, <1>8, <1>9 DEF ListInv

LEMMA ThreadListInv ==
  ASSUME TypeOK, ListInv, NEW k \in Threads, Thread(k) PROVE ListInv'
  <1>1. UNCHANGED <<isStarted, listed, visible>>
    BY DEF Thread, EnumDesktopWindows, ExamineWindow, PostCreated, PostAdded, ThreadOnly,
           desktopVars, stateVars, mapVars
  <1>2. /\ visible \subseteq exists /\ visible \subseteq Windows
        /\ enumeration \in [Threads -> Enumeration] /\ messages \in Seq(Message)
    BY DEF TypeOK
  <1>3. ASSUME UNCHANGED messages
        PROVE  (\A what, w : Pending(what, w)' <=> Pending(what, w)) /\ \A w : Coming(w)' <=> Coming(w)
    BY <1>1, <1>3, PendingIn, PendingNext DEF Coming
  <1>4. CASE EnumDesktopWindows(k)
    <2>1. enumeration'[k].pc = "enumerating" /\ enumeration'[k].todo = exists
      BY <1>2, <1>4 DEF EnumDesktopWindows, Enumeration
    <2>2. \A w \in visible : WillBeExamined(w)'
      BY <1>2, <2>1 DEF WillBeExamined
    <2> QED BY <1>1, <1>3, <1>4, <2>2 DEF EnumDesktopWindows, ListInv
  <1>5. CASE ExamineWindow(k)
    <2>1. PICK v \in enumeration[k].todo :
            enumeration' = [enumeration EXCEPT ![k].todo = @ \ {v},
                                               ![k].found = IF v \in visible THEN v ELSE NoWindow]
      BY <1>5 DEF ExamineWindow
    <2>2. /\ enumeration[k].pc = "enumerating" /\ enumeration[k].found = NoWindow
          /\ UNCHANGED messages
      BY <1>5 DEF ExamineWindow
    <2>3. /\ \A j \in Threads \ {k} : enumeration'[j] = enumeration[j]
          /\ enumeration'[k].pc = "enumerating"
          /\ enumeration'[k].todo = enumeration[k].todo \ {v}
          /\ enumeration'[k].found = IF v \in visible THEN v ELSE NoWindow
      BY <1>2, <2>1, <2>2 DEF Enumeration
    <2>4. ASSUME NEW w \in visible, WillBeExamined(w) PROVE WillBeExamined(w)'
      <3>1. w # NoWindow
        BY <1>2
      <3>2. PICK j \in Threads :
              \/ enumeration[j].pc \in {"timer", "started"}
              \/ enumeration[j].pc = "enumerating" /\ w \in enumeration[j].todo
              \/ enumeration[j].found = w
        BY <2>4 DEF WillBeExamined
      <3>3. CASE j # k
        BY <2>3, <3>2, <3>3 DEF WillBeExamined
      <3>4. CASE j = k
        <4>1. w \in enumeration[k].todo
          BY <2>2, <3>1, <3>2, <3>4
        <4>2. w \in enumeration'[k].todo \/ enumeration'[k].found = w
          BY <2>3, <4>1
        <4> QED BY <2>3, <4>2 DEF WillBeExamined
      <3> QED BY <3>3, <3>4
    <2> QED BY <1>1, <1>3, <2>2, <2>4 DEF ListInv
  <1>6. CASE PostCreated(k) /\ isStarted
    <2> DEFINE v == enumeration[k].found
               r == <<Msg("created", v)>>
    <2>1. v \in Windows \cup {NoWindow}
      BY <1>2 DEF Enumeration
    <2>2. /\ r \in Seq(Message) /\ DOMAIN r = {1} /\ r[1] = Msg("created", v)
          /\ Len(r) = 1 /\ r # <<>>
      BY <2>1, OneMessage
    <2>3. messages' = messages \o r
      BY <1>6 DEF PostCreated, Post
    <2>4. /\ \A j \in Threads \ {k} : enumeration'[j] = enumeration[j]
          /\ enumeration'[k].pc = enumeration[k].pc
          /\ enumeration'[k].todo = enumeration[k].todo
      BY <1>2, <1>6 DEF PostCreated, Enumeration
    <2>5. \A w : w = enumeration[k].found => w = v
      OBVIOUS
    <2> HIDE DEF r, v
    <2>6. \A what, w : Pending(what, w)' <=> Pending(what, w) \/ In(r, Msg(what, w))
      BY <1>2, <2>2, <2>3, InPost, PendingIn, PendingNext
    <2>7. \A w : r[1] # Msg("destroyed", w)
      BY <2>2 DEF Msg
    <2>8. ASSUME NEW w, EndsWith(messages, {Msg("destroyed", w)}, Msg("created", w)) \/ w = v
          PROVE  EndsWith(messages', {Msg("destroyed", w)}, Msg("created", w))
      <3> DEFINE M == {Msg("destroyed", w)}
                 p == Msg("created", w)
      <3>1. \/ EndsWith(messages, M, p) /\ \A i \in DOMAIN r : r[i] \notin M
            \/ r # <<>> /\ r[Len(r)] = p
        BY <2>2, <2>7, <2>8
      <3> HIDE DEF M, p
      <3>2. EndsWith(messages \o r, M, p)
        BY <1>2, <2>2, <3>1, EndsPost
      <3> QED BY <2>3, <3>2 DEF M, p
    <2>9. ASSUME NEW w \in visible PROVE Coming(w)' \/ WillBeExamined(w)'
      <3>1. CASE w = v
        <4>1. In(r, Msg("created", w))
          BY <2>2, <3>1 DEF In
        <4> QED BY <2>6, <2>8, <3>1, <4>1 DEF Coming
      <3>2. CASE w # v
        <4>1. Coming(w) => Coming(w)'
          BY <1>1, <2>6, <2>8 DEF Coming
        <4>2. WillBeExamined(w) => WillBeExamined(w)'
          BY <2>4, <2>5, <3>2 DEF WillBeExamined
        <4> QED BY <1>6, <4>1, <4>2 DEF ListInv
      <3> QED BY <3>1, <3>2
    <2>10. \A w \in listed \ visible : Pending("destroyed", w)'
      BY <1>6, <2>6 DEF ListInv
    <2> QED BY <1>1, <1>6, <2>9, <2>10 DEF ListInv
  <1>7. CASE PostAdded(k) /\ isStarted
    <2> DEFINE r == <<Msg("added", NoWindow)>>
    <2>1. /\ r \in Seq(Message) /\ DOMAIN r = {1} /\ r[1] = Msg("added", NoWindow)
      BY OneMessage
    <2>2. messages' = messages \o r
      BY <1>7 DEF PostAdded, Post
    <2>3. /\ \A j \in Threads \ {k} : enumeration'[j] = enumeration[j]
          /\ enumeration[k].pc = "enumerating" /\ enumeration[k].todo = {}
          /\ enumeration[k].found = NoWindow
      BY <1>2, <1>7 DEF PostAdded, Enumeration
    <2> HIDE DEF r
    <2>4. \A what, w : Pending(what, w)' <=> Pending(what, w) \/ In(r, Msg(what, w))
      BY <1>2, <2>1, <2>2, InPost, PendingIn, PendingNext
    <2>5. \A w : r[1] # Msg("destroyed", w)
      BY <2>1 DEF Msg
    <2>6. ASSUME NEW w, EndsWith(messages, {Msg("destroyed", w)}, Msg("created", w))
          PROVE  EndsWith(messages', {Msg("destroyed", w)}, Msg("created", w))
      <3> DEFINE M == {Msg("destroyed", w)}
                 p == Msg("created", w)
      <3>1. EndsWith(messages, M, p) /\ \A i \in DOMAIN r : r[i] \notin M
        BY <2>1, <2>5, <2>6
      <3> HIDE DEF M, p
      <3>2. EndsWith(messages \o r, M, p)
        BY <1>2, <2>1, <3>1, EndsPost
      <3> QED BY <2>2, <3>2 DEF M, p
    <2>7. ASSUME NEW w \in visible PROVE Coming(w)' \/ WillBeExamined(w)'
      <3>1. Coming(w) => Coming(w)'
        BY <1>1, <2>4, <2>6 DEF Coming
      <3>2. ASSUME WillBeExamined(w) PROVE WillBeExamined(w)'
        <4>1. w # NoWindow
          BY <1>2
        <4> QED BY <2>3, <3>2, <4>1 DEF WillBeExamined
      <3> QED BY <1>7, <3>1, <3>2 DEF ListInv
    <2>8. \A w \in listed \ visible : Pending("destroyed", w)'
      BY <1>7, <2>4 DEF ListInv
    <2> QED BY <1>1, <1>7, <2>7, <2>8 DEF ListInv
  <1>8. CASE ~isStarted
    BY <1>1, <1>8 DEF ListInv
  <1> QED BY <1>4, <1>5, <1>6, <1>7, <1>8 DEF Thread

LEMMA InitList == Init => ListInv
  <1> SUFFICES ASSUME Init PROVE ListInv
    OBVIOUS
  <1>1. 1 \in Threads /\ enumeration[1].pc = "timer"
    <2>1. 1 \in Threads
      BY DEF Threads
    <2>2. enumeration = [k \in Threads |-> [pc |-> IF k = 1 THEN "timer" ELSE "none",
                                            todo |-> {}, found |-> NoWindow]]
      BY DEF Init
    <2> QED BY <2>1, <2>2
  <1>2. \A w \in visible : WillBeExamined(w)
    BY <1>1 DEF WillBeExamined
  <1>3. listed \subseteq visible /\ isStarted
    BY DEF Init
  <1> QED BY <1>2, <1>3 DEF ListInv

LEMMA StepList == ASSUME TypeOK, ListInv, [Next]_vars PROVE ListInv'
  <1>1. CASE Desktop
    BY <1>1, DesktopListInv
  <1>2. CASE HandleMessage
    BY <1>2, HandleMessageListInv
  <1>3. ASSUME NEW k \in Threads, Thread(k) PROVE ListInv'
    BY <1>3, ThreadListInv
  <1>4. CASE Quit
    BY <1>4 DEF Quit, ListInv
  <1>5. CASE Refresh
    <2> DEFINE k == refreshes + 2
    <2>1. k \in Threads
      BY <1>5 DEF Refresh, TypeOK, Threads
    <2>2. enumeration'[k].pc = "started"
      BY <1>5, <2>1 DEF Refresh, TypeOK, Enumeration
    <2>3. \A w \in visible' : WillBeExamined(w)'
      BY <2>1, <2>2 DEF WillBeExamined
    <2>4. listed' \subseteq visible' /\ isStarted' /\ isStarted
      BY <1>5 DEF Refresh, desktopVars
    <2> QED BY <2>3, <2>4 DEF ListInv
  <1>6. CASE AddExisting
    <2>1. enumeration'[1].pc = "started" /\ 1 \in Threads
      BY <1>6 DEF AddExisting, TypeOK, Enumeration, Threads
    <2>2. \A w \in visible : WillBeExamined(w)'
      BY <2>1 DEF WillBeExamined
    <2>3. UNCHANGED <<isStarted, listed, visible, messages>>
      BY <1>6 DEF AddExisting, desktopVars, stateVars, mapVars
    <2>4. \A what, w : Pending(what, w)' <=> Pending(what, w)
      BY <2>3, PendingIn, PendingNext
    <2> QED BY <2>2, <2>3, <2>4 DEF ListInv
  <1>7. ASSUME UNCHANGED <<isStarted, visible, messages, enumeration>>,
               listed' \subseteq listed, listed \cap visible \subseteq listed'
        PROVE  ListInv'
    <2>1. \A what, w : Pending(what, w)' <=> Pending(what, w)
      BY <1>7, PendingIn, PendingNext
    <2>2. \A w \in visible : Coming(w) => Coming(w)'
      BY <1>7, <2>1 DEF Coming
    <2>3. \A w : WillBeExamined(w)' <=> WillBeExamined(w)
      BY <1>7 DEF WillBeExamined
    <2> QED BY <1>7, <2>1, <2>2, <2>3 DEF ListInv
  <1>8. CASE UpdateWindowMonitors
    BY <1>7, <1>8 DEF UpdateWindowMonitors, MonitorChanged, desktopVars, stateVars
  <1>9. CASE RunWindowMaintenance
    <2>1. listed' = listed \ (listed \ exists)
      BY <1>9 DEF RunWindowMaintenance, RemoveEntries
    <2>2. visible \subseteq exists
      BY DEF TypeOK
    <2>3. UNCHANGED <<isStarted, visible, messages, enumeration>>
      BY <1>9 DEF RunWindowMaintenance, desktopVars, stateVars
    <2> QED BY <1>7, <2>1, <2>2, <2>3
  <1>10. ASSUME NEW w \in Windows, Tick(w) PROVE ListInv'
    BY <1>7, <1>10 DEF Tick, desktopVars, stateVars
  <1>11. CASE UNCHANGED vars
    BY <1>7, <1>11 DEF vars, desktopVars, stateVars, mapVars
  <1> QED BY <1>1, <1>2, <1>3, <1>4, <1>5, <1>6, <1>8, <1>9, <1>10, <1>11 DEF Next

LEMMA ListInvariant == Spec => []ListInv
  <1>1. BarsInv /\ ListInv /\ [Next]_vars => ListInv'
    BY StepList DEF BarsInv
  <1> QED BY <1>1, InitList, ManagerInvariant, PTL DEF Spec

\* Of the "created" and "destroyed" that wait for a window that is coming, the last one
\* puts it in.
LEMMA ComingListed ==
  ASSUME TypeOK, NEW w \in visible, Coming(w) PROVE WillBeListed(w)
  <1> DEFINE about == {i \in DOMAIN messages :
                         messages[i] \in {Msg("created", w), Msg("destroyed", w)}}
  <1>1. CASE about = {}
    <2>1. ~Pending("created", w)
      BY <1>1 DEF Pending
    <2> QED BY <1>1, <2>1 DEF Coming, WillBeListed
  <1>2. CASE about # {}
    <2>1. Len(messages) \in Nat /\ about \in SUBSET (1..Len(messages))
          /\ DOMAIN messages = 1..Len(messages)
      BY DEF TypeOK
    <2>2. PICK i \in about : \A j \in about : j <= i
      BY <1>2, <2>1, Greatest
    <2>3. messages[i] = Msg("created", w)
      <3>1. CASE messages[i] = Msg("destroyed", w)
        <4>1. PICK j \in DOMAIN messages : j >= i /\ messages[j] = Msg("created", w)
          BY <3>1 DEF Coming, EndsWith
        <4>2. j \in about /\ j \in Nat /\ i \in Nat
          BY <2>1, <4>1
        <4>3. j = i
          BY <2>2, <4>1, <4>2
        <4> QED BY <4>1, <4>3
      <3> QED BY <3>1
    <2>4. messages[i].msg = "created"
      BY <2>3 DEF Msg
    <2>5. WillBeListed(w) <=> /\ w \in visible
                              /\ \E k \in about : messages[k].msg = "created" /\ \A j \in about : j <= k
      BY <1>2 DEF WillBeListed
    <2> QED BY <2>2, <2>4, <2>5
  <1> QED BY <1>1, <1>2

\* However openings, closings, re-used handles, enumerations and refreshes interleave: the
\* messages under way and the windows a thread has still to look at make windowMap hold
\* the windows of the desktop, and no other.
THEOREM NoWindowMissed == Spec => []ListConverges
  <1>1. TypeOK /\ ListInv => ListConverges
    <2> SUFFICES ASSUME TypeOK, ListInv, isStarted, NEW w \in Windows
                 PROVE  IF w \in visible THEN WillBeListed(w) \/ WillBeExamined(w)
                                         ELSE ~WillBeListed(w)
      BY DEF ListConverges
    <2>1. CASE w \in visible
      BY <2>1, ComingListed DEF ListInv
    <2>2. CASE w \notin visible
      <3>1. CASE w \in listed
        <4>1. PICK i \in DOMAIN messages : messages[i] = Msg("destroyed", w)
          BY <2>2, <3>1 DEF ListInv, Pending
        <4> QED BY <2>2, <4>1 DEF WillBeListed
      <3> QED BY <2>2, <3>1 DEF WillBeListed
    <2> QED BY <2>1, <2>2
  <1> QED BY <1>1, ManagerInvariant, ListInvariant, PTL DEF BarsInv

----------------------------------------------------------------------------
(* What the buttons show.                                                   *)

\* What is shown of w is right or will be put right.
Fresh(w) ==
  /\ w \in dirty /\ buttons[w] # {} =>
       Pending("redraw", w) \/ Pending("flash", w) \/ w \in deferred
  /\ uMonitor[w] # monitor[w] => Pending("monitor", w)

LEMMA FreshNext ==
  ASSUME TypeOK', \A w \in listed' : Pending("destroyed", w)' \/ Fresh(w)' PROVE NothingStale'
  <1>1. listed' \subseteq Windows
    BY DEF TypeOK
  <1>2. SUFFICES ASSUME NEW w \in Windows, w \in listed', ~Pending("destroyed", w)' PROVE Fresh(w)'
    BY <1>1 DEF NothingStale, Fresh
  <1> QED BY <1>2

LEMMA AddWindowFresh ==
  ASSUME TypeOK, NEW v \in Windows \cup {NoWindow}, NEW lit, AddWindow(v, lit)
  PROVE  /\ \A w \in listed : /\ w \in dirty' => w \in dirty
                              /\ buttons'[w] = buttons[w] /\ uMonitor'[w] = uMonitor[w]
                              /\ w \in deferred => w \in deferred'
         /\ \A w \in listed' \ listed : w = v /\ w \notin dirty' /\ uMonitor'[w] = monitor[w]
  <1>1. CASE v \in visible \ listed
    <2>1. /\ dirty' = dirty \ {v} /\ listed' = listed \cup {v} /\ deferred' = deferred \ {v}
          /\ uMonitor' = [uMonitor EXCEPT ![v] = monitor[v]]
          /\ buttons' = [buttons EXCEPT ![v] = Wanting(monitor[v])]
      BY <1>1 DEF AddWindow
    <2>2. v \in Windows /\ v \notin listed /\ listed \subseteq Windows
      BY <1>1 DEF TypeOK
    <2>3. /\ uMonitor'[v] = monitor[v]
          /\ \A w \in listed : buttons'[w] = buttons[w] /\ uMonitor'[w] = uMonitor[w]
      BY <2>1, <2>2 DEF TypeOK
    <2> QED BY <2>1, <2>2, <2>3
  <1>2. CASE v \notin visible \ listed
    BY <1>2 DEF AddWindow, mapVars
  <1> QED BY <1>1, <1>2

LEMMA MonitorChangedFresh ==
  ASSUME TypeOK, NEW moved \in SUBSET listed, MonitorChanged(moved)
  PROVE  /\ UNCHANGED <<listed, deferred>>
         /\ \A w \in moved : uMonitor'[w] = monitor[w] /\ (w \in dirty' => w \in dirty /\ buttons[w] # {})
         /\ \A w \in listed \ moved : /\ w \in dirty' => w \in dirty
                                      /\ buttons'[w] = buttons[w] /\ uMonitor'[w] = uMonitor[w]
  <1> DEFINE onto(t) == {w \in moved \ tasks[t] : t \in Wanting(monitor[w])}
             off(t)  == {w \in moved \cap tasks[t] : t \notin Wanting(monitor[w])}
  <1>1. /\ uMonitor' = [w \in Windows |-> IF w \in moved THEN monitor[w] ELSE uMonitor[w]]
        /\ buttons' = [w \in Windows |-> (buttons[w] \cup {t \in Taskbars : w \in onto(t)})
                                                      \ {t \in Taskbars : w \in off(t)}]
        /\ dirty' = dirty \ {w \in moved : buttons[w] = {}}
        /\ UNCHANGED <<listed, deferred>>
    BY DEF MonitorChanged
  <1>2. listed \subseteq Windows
    BY DEF TypeOK
  <1>3. \A w \in listed \ moved : buttons'[w] = buttons[w]
    BY <1>1, <1>2
  <1> QED BY <1>1, <1>2, <1>3

LEMMA HandleMessageFresh ==
  ASSUME TypeOK, TypeOK', NothingStale, HandleMessage PROVE NothingStale'
  <1> DEFINE n == Head(messages)
  <1>1. /\ messages \in Seq(Message) /\ messages # <<>> /\ messages' = Tail(messages)
        /\ ShellMessage(n) /\ monitor' = monitor
    BY DEF HandleMessage, desktopVars, TypeOK
  <1>2. n.window \in Windows \cup {NoWindow} /\ n = Msg(n.msg, n.window)
    <2>1. n \in Message
      BY <1>1, TailIndices
    <2> QED BY <2>1 DEF Message, Msg
  <1>3. \A what, w : Pending(what, w) <=> n = Msg(what, w) \/ Pending(what, w)'
    <2>1. \A what, w : Pending(what, w)' <=> In(Tail(messages), Msg(what, w))
      BY <1>1, PendingNext
    <2> QED BY <1>1, <2>1, InTail, PendingIn
  <1>4. \A what, w : n = Msg(what, w) => n.msg = what /\ n.window = w
    BY DEF Msg
  <1>5. n.msg = "destroyed" => n.window \notin listed'
    BY <1>1, <1>2, HandlerLists
  <1> HIDE DEF n
  <1>6. SUFFICES ASSUME NEW w \in listed', ~Pending("destroyed", w)'
                 PROVE  Fresh(w)'
    BY FreshNext
  <1>7. ~Pending("destroyed", w)
    BY <1>3, <1>4, <1>5, <1>6
  <1>8. w \in listed => Fresh(w)
    BY <1>7 DEF NothingStale, Fresh, TypeOK
  <1>9. ASSUME NEW lit, AddWindow(n.window, lit), n.window \notin listed \/ n.msg \in {"created", "activated"}
        PROVE  Fresh(w)'
    <2>1. /\ w \in listed => /\ w \in dirty' => w \in dirty
                             /\ buttons'[w] = buttons[w] /\ uMonitor'[w] = uMonitor[w]
                             /\ w \in deferred => w \in deferred'
          /\ w \notin listed => w \notin dirty' /\ uMonitor'[w] = monitor[w]
      BY <1>2, <1>6, <1>9, AddWindowFresh
    <2>2. CASE w \in listed
      <3>1. \A what \in {"redraw", "flash", "monitor"} : Pending(what, w) => Pending(what, w)'
        BY <1>3, <1>4, <1>9, <2>2
      <3> QED BY <1>1, <1>8, <2>1, <2>2, <3>1 DEF Fresh
    <2>3. CASE w \notin listed
      BY <1>1, <2>1, <2>3 DEF Fresh
    <2> QED BY <2>2, <2>3
  <1>10. ASSUME w \in listed, w # n.window \/ n.msg \notin {"redraw", "flash", "monitor"},
                w \in dirty' => w \in dirty, buttons'[w] = buttons[w], uMonitor'[w] = uMonitor[w],
                w \in deferred => w \in deferred'
         PROVE  Fresh(w)'
    <2>1. \A what \in {"redraw", "flash", "monitor"} : Pending(what, w) => Pending(what, w)'
      BY <1>3, <1>4, <1>10
    <2> QED BY <1>1, <1>8, <1>10, <2>1 DEF Fresh
  <1>11. CASE n.msg = "created"
    BY <1>1, <1>9, <1>11 DEF ShellMessage
  <1>12. CASE n.msg = "destroyed"
    <2>1. RemoveWindow(n.window)
      BY <1>1, <1>12 DEF ShellMessage
    <2>2. w \in listed /\ w # n.window /\ dirty' = dirty
      BY <1>5, <1>6, <1>12, <2>1 DEF RemoveWindow, RemoveEntries, mapVars
    <2>3. buttons'[w] = buttons[w] /\ uMonitor' = uMonitor /\ (w \in deferred => w \in deferred')
      BY <2>1, <2>2 DEF RemoveWindow, RemoveEntries, mapVars, TypeOK
    <2> QED BY <1>10, <2>2, <2>3
  <1>13. CASE n.msg = "activated"
    <2>1. SetActive(n.window)
      BY <1>1, <1>13 DEF ShellMessage
    <2>2. CASE n.window \in listed
      BY <1>6, <1>10, <1>13, <2>1, <2>2 DEF SetActive, mapVars
    <2>3. CASE n.window \notin listed
      BY <1>9, <2>1, <2>3 DEF SetActive
    <2> QED BY <2>2, <2>3
  <1>14. CASE n.msg \in {"redraw", "flash"}
    <2>1. UpdateWindow(n.window, n.msg)
      BY <1>1, <1>14 DEF ShellMessage
    <2>2. CASE n.window \notin listed
      BY <1>9, <2>1, <2>2 DEF UpdateWindow
    <2>3. CASE n.window \in listed /\ n.window # w
      <3>1. /\ w \in listed /\ buttons' = buttons /\ uMonitor' = uMonitor
            /\ w \in dirty' => w \in dirty
            /\ w \in deferred => w \in deferred'
        BY <1>6, <2>1, <2>3 DEF UpdateWindow
      <3> QED BY <1>10, <2>3, <3>1
    <2>4. CASE n.window \in listed /\ n.window = w
      <3>1. w \notin dirty' \/ w \in deferred'
        BY <2>1, <2>4 DEF UpdateWindow
      <3>2. uMonitor' = uMonitor
        BY <2>1, <2>4 DEF UpdateWindow
      <3>3. Pending("monitor", w) => Pending("monitor", w)'
        BY <1>3, <1>4, <1>14
      <3> QED BY <1>1, <1>8, <2>4, <3>1, <3>2, <3>3 DEF Fresh
    <2> QED BY <2>2, <2>3, <2>4
  <1>15. CASE n.msg = "monitor"
    <2> DEFINE moved == {n.window} \cap listed
    <2>1. MonitorChanged(moved)
      BY <1>1, <1>15 DEF ShellMessage
    <2>2. /\ UNCHANGED <<listed, deferred>>
          /\ \A v \in moved : uMonitor'[v] = monitor[v] /\ (v \in dirty' => v \in dirty /\ buttons[v] # {})
          /\ \A v \in listed \ moved : /\ v \in dirty' => v \in dirty
                                       /\ buttons'[v] = buttons[v] /\ uMonitor'[v] = uMonitor[v]
      BY <2>1, MonitorChangedFresh
    <2>3. CASE w \in moved
      <3>1. \A what \in {"redraw", "flash"} : Pending(what, w) => Pending(what, w)'
        BY <1>3, <1>4, <1>15
      <3> QED BY <1>1, <1>6, <1>8, <2>2, <2>3, <3>1 DEF Fresh
    <2>4. CASE w \notin moved
      BY <1>6, <1>10, <2>2, <2>4
    <2> QED BY <2>3, <2>4
  <1>16. CASE n.msg \in {"minrect", "added"}
    <2>1. UNCHANGED <<dirty, mapVars>>
      BY <1>1, <1>16 DEF ShellMessage, MarkAsMinimized
    <2> QED BY <1>6, <1>10, <1>16, <2>1 DEF mapVars
  <1> QED BY <1>1, <1>11, <1>12, <1>13, <1>14, <1>15, <1>16 DEF ShellMessage

\* Posting loses nothing.
LEMMA PostedStays ==
  ASSUME TypeOK, NEW r \in Seq(Message), messages' = messages \o r
  PROVE  \A what, w : /\ Pending(what, w) => Pending(what, w)'
                      /\ In(r, Msg(what, w)) => Pending(what, w)'
  BY InPost, PendingIn, PendingNext DEF TypeOK

LEMMA DesktopFresh ==
  ASSUME TypeOK, TypeOK', ListInv, NothingStale, Desktop PROVE NothingStale'
  <1>1. UNCHANGED <<isStarted, listed, uMonitor, buttons, deferred>>
    BY DEF Desktop, Open, Close, Activate, Move, Redraw, Minimize, Restore, ClickButton,
           Event, stateVars, mapVars
  <1>2. CASE ~isStarted
    BY <1>1, <1>2 DEF ListInv, NothingStale
  <1>3. CASE isStarted
    <2>1. PICK r \in Seq(Message) : messages' = messages \o r
      BY <1>3, DesktopLists
    <2>2. \A what, w : Pending(what, w) => Pending(what, w)'
      BY <2>1, PostedStays
    <2>3. ASSUME NEW w \in listed,
                 \/ Pending("destroyed", w)'
                 \/ /\ w \in dirty' => w \in dirty \/ Pending("redraw", w)' \/ Pending("flash", w)'
                    /\ monitor'[w] = monitor[w] \/ Pending("monitor", w)'
          PROVE  Pending("destroyed", w)' \/ Fresh(w)'
      BY <1>1, <2>2, <2>3 DEF NothingStale, Fresh, TypeOK
    <2>4. ASSUME NEW w \in listed, UNCHANGED <<dirty, monitor>>
          PROVE  Pending("destroyed", w)' \/ Fresh(w)'
      BY <2>3, <2>4
    <2>5. \A what \in {"redraw", "flash", "monitor"}, v \in Windows : Post(<<Msg(what, v)>>) => Pending(what, v)'
      <3> SUFFICES ASSUME NEW what \in {"redraw", "flash", "monitor"}, NEW v \in Windows,
                          Post(<<Msg(what, v)>>)
                   PROVE  Pending(what, v)'
        OBVIOUS
      <3> DEFINE q == <<Msg(what, v)>>
      <3>1. q \in Seq(Message) /\ DOMAIN q = {1} /\ q[1] = Msg(what, v)
        BY OneMessage
      <3>2. messages' = messages \o q
        BY <1>3 DEF Post
      <3> HIDE DEF q
      <3>3. In(q, Msg(what, v))
        BY <3>1 DEF In
      <3> QED BY <3>1, <3>2, <3>3, PostedStays
    <2>6. ASSUME NEW v \in Windows, NEW m \in Monitors, Open(v, m), NEW w \in listed
          PROVE  Pending("destroyed", w)' \/ Fresh(w)'
      <3>1. /\ dirty' = dirty \cup {v} /\ monitor' = [monitor EXCEPT ![v] = m] /\ v \notin visible
        BY <2>6 DEF Open
      <3>2. CASE w = v
        BY <1>3, <2>2, <3>1, <3>2 DEF ListInv
      <3>3. CASE w # v
        BY <2>3, <3>1, <3>3 DEF TypeOK
      <3> QED BY <3>2, <3>3
    <2>7. ASSUME NEW v \in Windows, NEW m \in Monitors, Move(v, m), NEW w \in listed
          PROVE  Pending("destroyed", w)' \/ Fresh(w)'
      <3>1. /\ dirty' = dirty /\ monitor' = [monitor EXCEPT ![v] = m] /\ Pending("monitor", v)'
        BY <2>5, <2>7 DEF Move
      <3> QED BY <2>3, <3>1 DEF TypeOK
    <2>8. ASSUME NEW v \in Windows, NEW what \in {"redraw", "flash"}, Redraw(v, what), NEW w \in listed
          PROVE  Pending("destroyed", w)' \/ Fresh(w)'
      <3>1. /\ dirty' = dirty \cup {v} /\ monitor' = monitor /\ Pending(what, v)'
        BY <2>5, <2>8 DEF Redraw, desktopVars
      <3> QED BY <2>3, <3>1
    <2>9. ASSUME NEW w \in listed PROVE Pending("destroyed", w)' \/ Fresh(w)'
      BY <2>4, <2>6, <2>7, <2>8 DEF Desktop, Close, Activate, Minimize, Restore, ClickButton
    <2> QED BY <1>1, <2>9, FreshNext
  <1> QED BY <1>2, <1>3 DEF TypeOK

LEMMA StepFresh == ASSUME TypeOK, TypeOK', ListInv, NothingStale, [Next]_vars PROVE NothingStale'
  <1>1. ASSUME \A what, w : Pending(what, w) => Pending(what, w)',
               \A w \in listed' : /\ w \in listed
                                  /\ w \in dirty' /\ buttons'[w] # {} =>
                                       /\ w \in dirty /\ buttons[w] # {}
                                       /\ w \in deferred => w \in deferred'
                                  /\ uMonitor'[w] # monitor'[w] => uMonitor[w] # monitor[w]
        PROVE  NothingStale'
    <2> SUFFICES ASSUME NEW w \in listed', ~Pending("destroyed", w)' PROVE Fresh(w)'
      BY FreshNext
    <2>1. ~Pending("destroyed", w) /\ w \in listed /\ w \in Windows
      BY <1>1 DEF TypeOK
    <2>2. Fresh(w)
      BY <2>1 DEF NothingStale, Fresh
    <2> QED BY <1>1, <2>2 DEF Fresh
  <1>2. UNCHANGED messages => \A what, w : Pending(what, w) => Pending(what, w)'
    BY PendingIn, PendingNext
  <1>3. CASE Desktop
    BY <1>3, DesktopFresh
  <1>4. CASE HandleMessage
    BY <1>4, HandleMessageFresh
  <1>5. CASE UpdateWindowMonitors
    <2> DEFINE moved == {w \in listed : uMonitor[w] # monitor[w]}
    <2>1. MonitorChanged(moved) /\ UNCHANGED <<messages, monitor>>
      BY <1>5 DEF UpdateWindowMonitors, desktopVars
    <2>2. /\ UNCHANGED <<listed, deferred>>
          /\ \A w \in moved : uMonitor'[w] = monitor[w] /\ (w \in dirty' => w \in dirty /\ buttons[w] # {})
          /\ \A w \in listed \ moved : /\ w \in dirty' => w \in dirty
                                       /\ buttons'[w] = buttons[w] /\ uMonitor'[w] = uMonitor[w]
      BY <2>1, MonitorChangedFresh
    <2> HIDE DEF moved
    <2> QED BY <1>1, <1>2, <2>1, <2>2
  <1>6. CASE RunWindowMaintenance
    <2> DEFINE gone    == listed \ exists
               updated == (deferred \ gone) \ recent
    <2>1. /\ listed' = listed \ gone /\ deferred' = deferred \ (gone \cup updated)
          /\ dirty' = dirty \ updated /\ uMonitor' = uMonitor
          /\ UNCHANGED <<messages, monitor>>
      BY <1>6 DEF RunWindowMaintenance, RemoveEntries, desktopVars
    <2>2. buttons' = [w \in Windows |-> IF w \in gone THEN {} ELSE buttons[w]]
      BY <1>6 DEF RunWindowMaintenance, RemoveEntries
    <2>3. listed \subseteq Windows
      BY DEF TypeOK
    <2>4. \A w \in listed' : w \in listed /\ w \notin gone /\ buttons'[w] = buttons[w]
      BY <2>1, <2>2, <2>3
    <2> HIDE DEF gone, updated
    <2> QED BY <1>1, <1>2, <2>1, <2>4
  <1>7. CASE Refresh
    <2>1. /\ listed' = {foreground} \cap visible /\ monitor' = monitor
          /\ uMonitor' = [w \in Windows |-> IF w = foreground THEN monitor[w] ELSE uMonitor[w]]
          /\ \A w \in Windows : buttons'[w] = {}
      BY <1>7 DEF Refresh, desktopVars
    <2>2. visible \subseteq Windows
      BY DEF TypeOK
    <2> QED BY <2>1, <2>2 DEF NothingStale
  <1>8. CASE Quit
    BY <1>8 DEF Quit, NothingStale
  <1>9. ASSUME NEW k \in Threads, Thread(k) PROVE NothingStale'
    <2>1. UNCHANGED <<dirty, mapVars, monitor, isStarted>>
      BY <1>9 DEF Thread, EnumDesktopWindows, ExamineWindow, PostCreated, PostAdded, ThreadOnly,
                  desktopVars, stateVars
    <2>2. \A what, w : Pending(what, w) => Pending(what, w)'
      <3>1. CASE UNCHANGED messages
        BY <1>2, <3>1
      <3>2. ASSUME NEW what \in {"created", "added"}, NEW w \in Windows \cup {NoWindow},
                   Post(<<Msg(what, w)>>)
            PROVE  \A on, v : Pending(on, v) => Pending(on, v)'
        <4>1. <<Msg(what, w)>> \in Seq(Message)
          BY OneMessage
        <4>2. CASE isStarted
          BY <3>2, <4>1, <4>2, PostedStays DEF Post
        <4>3. CASE ~isStarted
          BY <1>2, <3>2, <4>3 DEF Post
        <4> QED BY <4>2, <4>3
      <3>3. enumeration[k].found \in Windows \cup {NoWindow}
        BY DEF TypeOK, Enumeration
      <3> QED BY <1>9, <3>1, <3>2, <3>3 DEF Thread, EnumDesktopWindows, ExamineWindow, PostCreated, PostAdded
    <2> QED BY <1>1, <2>1, <2>2 DEF mapVars
  <1>10. ASSUME UNCHANGED <<dirty, listed, uMonitor, buttons, deferred, monitor, messages>>
         PROVE  NothingStale'
    BY <1>1, <1>2, <1>10
  <1>11. CASE AddExisting
    BY <1>10, <1>11 DEF AddExisting, desktopVars, mapVars
  <1>12. ASSUME NEW w \in Windows, Tick(w) PROVE NothingStale'
    BY <1>10, <1>12 DEF Tick, desktopVars
  <1>13. CASE UNCHANGED vars
    BY <1>10, <1>13 DEF vars, desktopVars, mapVars
  <1> QED BY <1>3, <1>4, <1>5, <1>6, <1>7, <1>8, <1>9, <1>11, <1>12, <1>13 DEF Next

\* A title or a move that a listed window does not show yet is in a message that waits
\* or a deferred update: throttling loses none, nor do the timers that look at all
\* the windows of the list, nor does a handle that is used again.
THEOREM NoUpdateLost == Spec => []NothingStale
  <1>1. Init => NothingStale
    BY DEF Init, NothingStale
  <1>2. BarsInv /\ ListInv /\ NothingStale /\ [Next]_vars => NothingStale'
    BY StepFresh, StepTyped DEF BarsInv
  <1> QED BY <1>1, <1>2, ManagerInvariant, ListInvariant, PTL DEF Spec
=============================================================================
