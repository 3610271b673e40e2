---------------------------- MODULE WindowManager ----------------------------
(***************************************************************************)
(* The window manager of nTask and its taskbars (src/nTasks/               *)
(* WindowManager.cpp, Taskbar.cpp, TaskButton.cpp, nTask.cpp).             *)
(*                                                                         *)
(* windowMap holds the top level windows of the desktop, and with each one *)
(* the buttons that stand for it on the taskbars.  The manager learns of   *)
(* the desktop by messages, which are handled in order but some time after *)
(* the fact; a detached thread posts it the windows that existed before,   *)
(* and two timers repair what no message tells.                            *)
(*                                                                         *)
(* Every message handler and timer is one action: nothing is dispatched    *)
(* while one of them runs.                                                 *)
(*                                                                         *)
(* Of what a button shows there are its title, read from the window when   *)
(* it is set, and its states.  The icon is not modelled: UpdateIcon asks   *)
(* for it by a chain of asynchronous queries, whose answers come late, may *)
(* overtake each other and may not come at all, and a new button gets the  *)
(* icon that was stored last.                                              *)
(***************************************************************************)
EXTENDS Naturals, Sequences

CONSTANTS
  Windows,       \* the window handles; one can be used again for a new window
  NoWindow,      \* the null handle, and every window that is not on a taskbar
  Monitors,
  AnyMonitor,    \* the value 0xFFFFFFFF of a taskbar's Monitor setting
  Taskbars,      \* the *nTaskbar lines of the settings
  mMonitor,      \* taskbar -> the monitor whose windows it shows
  MaxEvents,     \* bound: how much happens on the desktop
  MaxRefreshes   \* bound: how often LiteStep is refreshed

ASSUME ManagerAssumption ==
  /\ NoWindow \notin Windows
  /\ AnyMonitor \notin Monitors
  /\ mMonitor \in [Taskbars -> Monitors \cup {AnyMonitor}]
  /\ MaxEvents \in Nat /\ MaxRefreshes \in Nat

VARIABLES
  exists,        \* IsWindow (external)
  visible,       \* the windows IsTaskbarWindow accepts (external)
  monitor,       \* the monitor each window is on (external)
  iconic,        \* the minimized windows (external)
  foreground,    \* GetForegroundWindow (external)
  dirty,         \* windows whose title is not the one last shown
  asked,         \* history: windows of the list that want attention
  messages,      \* what was posted to the window of the module
  enumeration,   \* the threads of AddExisting
  isStarted, initializing, activeWindow,
  listed,        \* the keys of windowMap
  uMonitor, buttons,    \* windowMap: the monitor, and the taskbars of the buttons
  deferred,      \* windowMap: updateDuringMaintenance
  recent,        \* windowMap: less than 100 ms since lastUpdateTime
  tasks,         \* taskbar -> its mButtonMap
  laid,          \* taskbar -> its buttons that were given a place and shown
  active, flashing, minimized,   \* taskbar -> its buttons in that state
  events, refreshes

desktopVars == <<exists, visible, monitor, iconic, foreground>>
mapVars     == <<listed, uMonitor, buttons, deferred, recent>>
barVars     == <<tasks, laid, active, flashing, minimized>>
stateVars   == <<isStarted, initializing>>
boundVars   == <<events, refreshes>>
vars == <<desktopVars, dirty, asked, messages, enumeration, stateVars, activeWindow,
          mapVars, barVars, boundVars>>

Message == [msg : {"created", "destroyed", "activated", "redraw", "flash",
                   "monitor", "minrect", "added"},
            window : Windows \cup {NoWindow}]

Msg(what, w) == [msg |-> what, window |-> w]

Threads == 1..(MaxRefreshes + 1)

Enumeration == [pc    : {"none", "timer", "started", "enumerating", "done"},
                todo  : SUBSET Windows,               \* not yet enumerated
                found : Windows \cup {NoWindow}]      \* accepted, not yet posted

Nowhere == [t \in Taskbars |-> {}]

Wanting(m) == {t \in Taskbars : mMonitor[t] \in {m, AnyMonitor}}

\* The module is loaded: the taskbars are there, the window manager has been started
\* and has added the active window; the timer for the other ones runs.
Init ==
  /\ exists \in SUBSET Windows
  /\ visible \in SUBSET exists
  /\ monitor \in [Windows -> Monitors]
  /\ iconic = {}
  /\ foreground \in visible \cup {NoWindow}
  /\ dirty = Windows \ {foreground} /\ asked = {}
  /\ messages = <<>>
  /\ enumeration = [k \in Threads |-> [pc    |-> IF k = 1 THEN "timer" ELSE "none",
                                       todo  |-> {}, found |-> NoWindow]]
  /\ isStarted = TRUE /\ initializing = TRUE
  /\ activeWindow = foreground
  /\ listed = {foreground} \ {NoWindow}
  /\ uMonitor = monitor
  /\ buttons = [w \in Windows |-> IF w = foreground THEN Wanting(monitor[w]) ELSE {}]
  /\ deferred = {} /\ recent = listed
  /\ tasks = [t \in Taskbars |-> {w \in listed : t \in buttons[w]}]
  /\ laid = Nowhere
  /\ active = tasks
  /\ flashing = Nowhere /\ minimized = Nowhere
  /\ events = 0 /\ refreshes = 0

----------------------------------------------------------------------------
(* The desktop and the shell hook (external).                               *)

Event ==
  /\ events < MaxEvents
  /\ events' = events + 1
  /\ UNCHANGED <<stateVars, activeWindow, mapVars, tasks, laid, active, flashing,
                 enumeration, refreshes>>

Post(news) == messages' = IF isStarted THEN messages \o news ELSE messages

\* A window comes up, a new one or one that was hidden.
Open(w, m) ==
  /\ w \notin visible
  /\ exists' = exists \cup {w} /\ visible' = visible \cup {w}
  /\ monitor' = [monitor EXCEPT ![w] = m]
  /\ iconic' = iconic \ {w}
  /\ dirty' = dirty \cup {w}
  /\ Post(<<Msg("created", w)>>)
  /\ UNCHANGED <<foreground, asked, minimized>>
  /\ Event

\* A window is hidden or destroyed; the active one passes the activation on.
Close(w, destroyed, next) ==
  /\ w \in visible
  /\ visible' = visible \ {w}
  /\ exists' = IF destroyed THEN exists \ {w} ELSE exists
  /\ asked' = asked \ {w}
  /\ IF w = foreground
     THEN /\ next \in (visible \cup {NoWindow}) \ {w}
          /\ foreground' = next
          /\ Post(<<Msg("destroyed", w), Msg("activated", next)>>)
     ELSE /\ next = foreground
          /\ UNCHANGED foreground
          /\ Post(<<Msg("destroyed", w)>>)
  /\ UNCHANGED <<monitor, iconic, dirty, minimized>>
  /\ Event

Activate(w) ==
  /\ w \in (visible \cup {NoWindow}) \ {foreground}
  /\ foreground' = w
  /\ asked' = asked \ {w}
  /\ Post(<<Msg("activated", w)>>)
  /\ UNCHANGED <<exists, visible, monitor, iconic, dirty, minimized>>
  /\ Event

Move(w, m) ==
  /\ w \in visible /\ m # monitor[w]
  /\ monitor' = [monitor EXCEPT ![w] = m]
  /\ Post(<<Msg("monitor", w)>>)
  /\ UNCHANGED <<exists, visible, iconic, foreground, dirty, asked, minimized>>
  /\ Event

\* A new title, possibly together with a wish for attention.
Redraw(w, what) ==
  /\ w \in visible
  /\ dirty' = dirty \cup {w}
  /\ asked' = IF what = "flash" THEN asked \cup ({w} \cap listed) ELSE asked
  /\ Post(<<Msg(what, w)>>)
  /\ UNCHANGED <<desktopVars, minimized>>
  /\ Event

Minimize(w) ==
  /\ w \in visible \ iconic
  /\ iconic' = iconic \cup {w}
  /\ Post(<<Msg("minrect", w)>>)
  /\ UNCHANGED <<exists, visible, monitor, foreground, dirty, asked, minimized>>
  /\ Event

Restore(w) ==
  /\ w \in visible \cap iconic
  /\ iconic' = iconic \ {w}
  /\ Post(<<Msg("minrect", w)>>)
  /\ UNCHANGED <<exists, visible, monitor, foreground, dirty, asked, minimized>>
  /\ Event

\* The left button on a task: the window is brought up, or if it is the active one
\* asked to minimize itself, which the button takes for done.
ClickButton(t, w) ==
  /\ isStarted
  /\ w \in laid[t]
  /\ IF w \in iconic \/ w # foreground
     THEN /\ w \in visible /\ w # foreground
          /\ foreground' = w
          /\ asked' = asked \ {w}
          /\ Post(<<Msg("activated", w)>>)
          /\ UNCHANGED minimized
     ELSE /\ minimized' = [minimized EXCEPT ![t] = @ \cup {w}]
          /\ UNCHANGED <<foreground, asked, messages>>
  /\ UNCHANGED <<exists, visible, monitor, iconic, dirty>>
  /\ Event

Desktop ==
  \/ \E w \in Windows : \/ \E m \in Monitors : Open(w, m) \/ Move(w, m)
                        \/ \E destroyed \in BOOLEAN, next \in Windows \cup {NoWindow} :
                             Close(w, destroyed, next)
                        \/ \E what \in {"redraw", "flash"} : Redraw(w, what)
                        \/ Minimize(w) \/ Restore(w)
                        \/ \E t \in Taskbars : ClickButton(t, w)
  \/ \E w \in Windows \cup {NoWindow} : Activate(w)

\* More than 100 ms have passed since the last update of w.
Tick(w) ==
  /\ w \in recent
  /\ recent' = recent \ {w}
  /\ UNCHANGED <<desktopVars, dirty, asked, messages, enumeration, stateVars, activeWindow,
                 listed, uMonitor, buttons, deferred, barVars, boundVars>>

----------------------------------------------------------------------------
(* The window manager.                                                      *)

With(state, bars, w)    == [t \in Taskbars |-> IF t \in bars THEN state[t] \cup {w} ELSE state[t]]
Without(state, bars, w) == [t \in Taskbars |-> IF t \in bars THEN state[t] \ {w} ELSE state[t]]

ButtonsOf(w) == IF w \in listed THEN buttons[w] ELSE {}

\* (mutant) A button is never laid out when it is added.
AddWindow_NoLayout(w, lit) ==
  IF w \in visible \ listed
  THEN LET bars == Wanting(monitor[w])
       IN  /\ listed' = listed \cup {w}
           /\ uMonitor' = [uMonitor EXCEPT ![w] = monitor[w]]
           /\ buttons' = [buttons EXCEPT ![w] = bars]
           /\ deferred' = deferred \ {w} /\ recent' = recent \cup {w}
           /\ tasks' = With(tasks, bars, w)
           /\ laid' = [t \in Taskbars |-> IF t \in bars /\ FALSE THEN tasks'[t] ELSE laid[t]]
           /\ active' = IF w = foreground THEN With(lit, bars, w) ELSE lit
           /\ minimized' = IF w \in iconic /\ w # foreground THEN With(minimized, bars, w)
                                                             ELSE minimized
           /\ dirty' = dirty \ {w}
           /\ UNCHANGED flashing
  ELSE /\ active' = lit
       /\ UNCHANGED <<mapVars, tasks, laid, flashing, minimized, dirty>>

\* (mutant) IsTaskbarWindow is not asked again.
AddWindow_Unchecked(w, lit) ==
  IF w \in Windows \ listed
  THEN LET bars == Wanting(monitor[w])
       IN  /\ listed' = listed \cup {w}
           /\ uMonitor' = [uMonitor EXCEPT ![w] = monitor[w]]
           /\ buttons' = [buttons EXCEPT ![w] = bars]
           /\ deferred' = deferred \ {w} /\ recent' = recent \cup {w}
           /\ tasks' = With(tasks, bars, w)
           /\ laid' = [t \in Taskbars |-> IF t \in bars /\ ~initializing THEN tasks'[t] ELSE laid[t]]
           /\ active' = IF w = foreground THEN With(lit, bars, w) ELSE lit
           /\ minimized' = IF w \in iconic /\ w # foreground THEN With(minimized, bars, w)
                                                             ELSE minimized
           /\ dirty' = dirty \ {w}
           /\ UNCHANGED flashing
  ELSE /\ active' = lit
       /\ UNCHANGED <<mapVars, tasks, laid, flashing, minimized, dirty>>

\* lit is what the active buttons are before the window is added.
AddWindow(w, lit) ==
  IF w \in visible \ listed
  THEN LET bars == Wanting(monitor[w])
       IN  /\ listed' = listed \cup {w}
           /\ uMonitor' = [uMonitor EXCEPT ![w] = monitor[w]]
           /\ buttons' = [buttons EXCEPT ![w] = bars]
           /\ deferred' = deferred \ {w} /\ recent' = recent \cup {w}
           /\ tasks' = With(tasks, bars, w)
           /\ laid' = [t \in Taskbars |-> IF t \in bars /\ ~initializing THEN tasks'[t] ELSE laid[t]]
           /\ active' = IF w = foreground THEN With(lit, bars, w) ELSE lit
           /\ minimized' = IF w \in iconic /\ w # foreground THEN With(minimized, bars, w)
                                                             ELSE minimized
           /\ dirty' = dirty \ {w}
           /\ UNCHANGED flashing
  ELSE /\ active' = lit
       /\ UNCHANGED <<mapVars, tasks, laid, flashing, minimized, dirty>>

\* (mutant) The buttons of the window that was active stay lit.
SetActive_KeepsLit(w) ==
  LET lit == active
  IN  /\ activeWindow' = w
      /\ IF w \in listed
         THEN /\ active' = With(lit, buttons[w], w)
              /\ minimized' = Without(minimized, buttons[w], w)
              /\ flashing' = Without(flashing, buttons[w], w)
              /\ UNCHANGED <<mapVars, tasks, laid, dirty>>
         ELSE AddWindow(w, lit)

SetActive(w) ==
  LET lit == Without(active, ButtonsOf(activeWindow), activeWindow)
  IN  /\ activeWindow' = w
      /\ IF w \in listed
         THEN /\ active' = With(lit, buttons[w], w)
              /\ minimized' = Without(minimized, buttons[w], w)
              /\ flashing' = Without(flashing, buttons[w], w)
              /\ UNCHANGED <<mapVars, tasks, laid, dirty>>
         ELSE AddWindow(w, lit)

\* The entries of the windows in gone and their buttons go; the caller sees to the
\* rest of the entries and to the minimized state.
RemoveEntries(gone) ==
  /\ listed' = listed \ gone
  /\ buttons' = [w \in Windows |-> IF w \in gone THEN {} ELSE buttons[w]]
  /\ tasks' = [t \in Taskbars |-> tasks[t] \ gone]
  /\ laid' = [t \in Taskbars |-> IF tasks[t] \cap gone # {} THEN tasks'[t] ELSE laid[t]]
  /\ active' = [t \in Taskbars |-> active[t] \ gone]
  /\ flashing' = [t \in Taskbars |-> flashing[t] \ gone]
  /\ UNCHANGED uMonitor

RemoveWindow(w) ==
  /\ IF w \in listed
     THEN /\ RemoveEntries({w})
          /\ deferred' = deferred \ {w} /\ recent' = recent \ {w}
          /\ minimized' = [t \in Taskbars |-> minimized[t] \ {w}]
     ELSE UNCHANGED <<mapVars, barVars>>
  /\ activeWindow' = IF activeWindow = w THEN NoWindow ELSE activeWindow
  /\ UNCHANGED dirty

\* (mutant) A throttled update is dropped.
UpdateWindow_DropsThrottled(w, what) ==
  IF w \in listed
  THEN /\ IF w \in recent
          THEN /\ UNCHANGED <<deferred, recent, dirty, flashing>>
          ELSE /\ deferred' = deferred \ {w}
               /\ recent' = recent \cup {w}
               /\ dirty' = dirty \ {w}
               /\ flashing' = IF what = "flash" THEN With(flashing, buttons[w], w) ELSE flashing
       /\ UNCHANGED <<listed, uMonitor, buttons, tasks, laid, active, minimized>>
  ELSE AddWindow(w, active)

UpdateWindow(w, what) ==
  IF w \in listed
  THEN /\ IF w \in recent
          THEN /\ deferred' = deferred \cup {w}
               /\ UNCHANGED <<recent, dirty, flashing>>
          ELSE /\ deferred' = deferred \ {w}
               /\ recent' = recent \cup {w}
               /\ dirty' = dirty \ {w}
               /\ flashing' = IF what = "flash" THEN With(flashing, buttons[w], w) ELSE flashing
       /\ UNCHANGED <<listed, uMonitor, buttons, tasks, laid, active, minimized>>
  ELSE AddWindow(w, active)

\* (mutant) The entry keeps the pointer to a button that was destroyed.
MonitorChanged_KeepsPointer(moved) ==
  LET onto(t) == {w \in moved \ tasks[t] : t \in Wanting(monitor[w])}
      off(t)  == {w \in moved \cap tasks[t] : t \notin Wanting(monitor[w])}
  IN  /\ uMonitor' = [w \in Windows |-> IF w \in moved THEN monitor[w] ELSE uMonitor[w]]
      /\ buttons' = [w \in Windows |-> buttons[w] \cup {t \in Taskbars : w \in onto(t)}]
      /\ tasks' = [t \in Taskbars |-> (tasks[t] \cup onto(t)) \ off(t)]
      /\ laid' = [t \in Taskbars |-> IF onto(t) \cup off(t) # {} THEN tasks'[t] ELSE laid[t]]
      /\ active' = [t \in Taskbars |-> (active[t] \cup (onto(t) \cap {foreground})) \ off(t)]
      /\ minimized' = [t \in Taskbars |->
                         (minimized[t] \cup ((onto(t) \cap iconic) \ {foreground})) \ off(t)]
      /\ flashing' = [t \in Taskbars |-> flashing[t] \ off(t)]
      /\ dirty' = dirty \ {w \in moved : buttons[w] = {}}
      /\ UNCHANGED <<listed, deferred, recent>>

\* MonitorChanged for each of the windows in moved.  A new button gets the title of
\* the day.
MonitorChanged(moved) ==
  LET onto(t) == {w \in moved \ tasks[t] : t \in Wanting(monitor[w])}
      off(t)  == {w \in moved \cap tasks[t] : t \notin Wanting(monitor[w])}
  IN  /\ uMonitor' = [w \in Windows |-> IF w \in moved THEN monitor[w] ELSE uMonitor[w]]
      /\ buttons' = [w \in Windows |-> (buttons[w] \cup {t \in Taskbars : w \in onto(t)})
                                                    \ {t \in Taskbars : w \in off(t)}]
      /\ tasks' = [t \in Taskbars |-> (tasks[t] \cup onto(t)) \ off(t)]
      /\ laid' = [t \in Taskbars |-> IF onto(t) \cup off(t) # {} THEN tasks'[t] ELSE laid[t]]
      /\ active' = [t \in Taskbars |-> (active[t] \cup (onto(t) \cap {foreground})) \ off(t)]
      /\ minimized' = [t \in Taskbars |->
                         (minimized[t] \cup ((onto(t) \cap iconic) \ {foreground})) \ off(t)]
      /\ flashing' = [t \in Taskbars |-> flashing[t] \ off(t)]
      /\ dirty' = dirty \ {w \in moved : buttons[w] = {}}
      /\ UNCHANGED <<listed, deferred, recent>>

\* LM_GETMINRECT: a window that is being minimized is marked right away.
MarkAsMinimized(w) ==
  /\ minimized' = IF w \in iconic THEN With(minimized, ButtonsOf(w), w) ELSE minimized
  /\ UNCHANGED <<mapVars, tasks, laid, active, flashing>>

----------------------------------------------------------------------------
(* The message loop of the module.                                          *)

ShellMessage(n) ==
  \/ /\ n.msg = "created"
     /\ AddWindow(n.window, active)
     /\ UNCHANGED <<activeWindow, initializing>>
  \/ /\ n.msg = "destroyed"
     /\ RemoveWindow(n.window)
     /\ UNCHANGED initializing
  \/ /\ n.msg = "activated"
     /\ SetActive(n.window)
     /\ UNCHANGED initializing
  \/ /\ n.msg \in {"redraw", "flash"}
     /\ UpdateWindow(n.window, n.msg)
     /\ UNCHANGED <<activeWindow, initializing>>
  \/ /\ n.msg = "monitor"
     /\ MonitorChanged({n.window} \cap listed)
     /\ UNCHANGED <<activeWindow, initializing>>
  \/ /\ n.msg = "minrect"
     /\ MarkAsMinimized(n.window)
     /\ UNCHANGED <<activeWindow, initializing, dirty>>
  \/ /\ n.msg = "added"
     /\ initializing' = FALSE
     /\ laid' = tasks
     /\ UNCHANGED <<activeWindow, dirty, mapVars, tasks, active, flashing, minimized>>

HandleMessage ==
  /\ isStarted
  /\ messages # <<>>
  /\ messages' = Tail(messages)
  /\ ShellMessage(Head(messages))
  /\ UNCHANGED <<desktopVars, asked, enumeration, isStarted, boundVars>>

\* The timer before Windows 8, and the end of a change of the display layout.
UpdateWindowMonitors ==
  LET moved == {w \in listed : uMonitor[w] # monitor[w]}
  IN  /\ isStarted
      /\ moved # {}
      /\ MonitorChanged(moved)
      /\ UNCHANGED <<desktopVars, asked, messages, enumeration, stateVars,
                     activeWindow, boundVars>>

\* (mutant) A removed entry leaves its deferred update behind.
RunWindowMaintenance_DefersRemoved ==
  LET gone    == listed \ exists
      updated == (deferred \ gone) \ recent
  IN  /\ isStarted
      /\ RemoveEntries(gone)
      /\ deferred' = deferred \ updated
      /\ recent' = (recent \ gone) \cup updated
      /\ dirty' = dirty \ updated
      /\ minimized' = [t \in Taskbars |-> (tasks[t] \ gone) \cap iconic]
      /\ activeWindow' = IF activeWindow \in gone THEN NoWindow ELSE activeWindow
      /\ UNCHANGED <<desktopVars, asked, messages, enumeration, stateVars, boundVars>>

\* (mutant) Deferred updates are not made up for.
RunWindowMaintenance_NoUpdates ==
  LET gone    == listed \ exists
      updated == {}
  IN  /\ isStarted
      /\ RemoveEntries(gone)
      /\ deferred' = deferred \ (gone \cup updated)
      /\ recent' = (recent \ gone) \cup updated
      /\ dirty' = dirty \ updated
      /\ minimized' = [t \in Taskbars |-> (tasks[t] \ gone) \cap iconic]
      /\ activeWindow' = IF activeWindow \in gone THEN NoWindow ELSE activeWindow
      /\ UNCHANGED <<desktopVars, asked, messages, enumeration, stateVars, boundVars>>

RunWindowMaintenance ==
  LET gone    == listed \ exists
      updated == (deferred \ gone) \ recent
  IN  /\ isStarted
      /\ RemoveEntries(gone)
      /\ deferred' = deferred \ (gone \cup updated)
      /\ recent' = (recent \ gone) \cup updated
      /\ dirty' = dirty \ updated
      /\ minimized' = [t \in Taskbars |-> (tasks[t] \ gone) \cap iconic]
      /\ activeWindow' = IF activeWindow \in gone THEN NoWindow ELSE activeWindow
      /\ UNCHANGED <<desktopVars, asked, messages, enumeration, stateVars, boundVars>>

\* AddExisting: the timer set at WM_CREATE starts the first thread.
AddExisting ==
  /\ isStarted
  /\ enumeration[1].pc = "timer"
  /\ enumeration' = [enumeration EXCEPT ![1].pc = "started"]
  /\ UNCHANGED <<desktopVars, dirty, asked, messages, stateVars, activeWindow, mapVars,
                 barVars, boundVars>>

\* LM_REFRESH: Stop, DestroyTaskbars, Start, LoadSettings, AddExisting.  Start adds the
\* active window while there are no taskbars.
Refresh ==
  /\ isStarted
  /\ refreshes < MaxRefreshes
  /\ refreshes' = refreshes + 1
  /\ initializing' = TRUE
  /\ activeWindow' = foreground
  /\ listed' = {foreground} \cap visible
  /\ uMonitor' = [w \in Windows |-> IF w = foreground THEN monitor[w] ELSE uMonitor[w]]
  /\ buttons' = [w \in Windows |-> {}]
  /\ deferred' = {} /\ recent' = listed'
  /\ tasks' = Nowhere /\ laid' = Nowhere
  /\ active' = Nowhere /\ flashing' = Nowhere /\ minimized' = Nowhere
  /\ enumeration' = [enumeration EXCEPT ![refreshes + 2].pc = "started"]
  /\ UNCHANGED <<desktopVars, dirty, asked, messages, isStarted, events>>

\* quitModule: Stop and DestroyTaskbars; the window goes with its messages.
Quit ==
  /\ isStarted
  /\ isStarted' = FALSE /\ initializing' = TRUE
  /\ activeWindow' = NoWindow
  /\ messages' = <<>>
  /\ listed' = {} /\ deferred' = {} /\ recent' = {}
  /\ buttons' = [w \in Windows |-> {}]
  /\ tasks' = Nowhere /\ laid' = Nowhere
  /\ active' = Nowhere /\ flashing' = Nowhere /\ minimized' = Nowhere
  /\ UNCHANGED <<desktopVars, dirty, asked, enumeration, uMonitor, boundVars>>

----------------------------------------------------------------------------
(* The threads of AddExisting.                                              *)

ThreadOnly ==
  UNCHANGED <<desktopVars, dirty, asked, stateVars, activeWindow, mapVars, barVars, boundVars>>

EnumDesktopWindows(k) ==
  /\ enumeration[k].pc = "started"
  /\ enumeration' = [enumeration EXCEPT ![k].pc = "enumerating", ![k].todo = exists]
  /\ UNCHANGED messages
  /\ ThreadOnly

\* IsTaskbarWindow on the thread.
ExamineWindow(k) ==
  /\ enumeration[k].pc = "enumerating" /\ enumeration[k].found = NoWindow
  /\ \E w \in enumeration[k].todo :
       enumeration' = [enumeration EXCEPT ![k].todo = @ \ {w},
                                          ![k].found = IF w \in visible THEN w ELSE NoWindow]
  /\ UNCHANGED messages
  /\ ThreadOnly

PostCreated(k) ==
  /\ enumeration[k].found # NoWindow
  /\ Post(<<Msg("created", enumeration[k].found)>>)
  /\ enumeration' = [enumeration EXCEPT ![k].found = NoWindow]
  /\ ThreadOnly

PostAdded(k) ==
  /\ enumeration[k].pc = "enumerating"
  /\ enumeration[k].todo = {} /\ enumeration[k].found = NoWindow
  /\ Post(<<Msg("added", NoWindow)>>)
  /\ enumeration' = [enumeration EXCEPT ![k].pc = "done"]
  /\ ThreadOnly

Thread(k) == EnumDesktopWindows(k) \/ ExamineWindow(k) \/ PostCreated(k) \/ PostAdded(k)

Next ==
  \/ Desktop
  \/ \E w \in Windows : Tick(w)
  \/ HandleMessage \/ UpdateWindowMonitors \/ RunWindowMaintenance \/ AddExisting
  \/ Refresh \/ Quit
  \/ \E k \in Threads : Thread(k)

Spec == Init /\ [][Next]_vars

\* Messages are dispatched, timers fire, threads run and time passes.
Fairness ==
  /\ WF_vars(HandleMessage) /\ WF_vars(RunWindowMaintenance) /\ WF_vars(AddExisting)
  /\ \A w \in Windows : WF_vars(Tick(w))
  /\ \A k \in Threads : WF_vars(Thread(k))

FairSpec == Spec /\ Fairness

----------------------------------------------------------------------------
(* Properties.                                                              *)

TypeOK ==
  /\ exists \subseteq Windows /\ visible \subseteq exists /\ iconic \subseteq Windows
  /\ monitor \in [Windows -> Monitors]
  /\ foreground \in Windows \cup {NoWindow}
  /\ dirty \subseteq Windows /\ asked \subseteq Windows
  /\ messages \in Seq(Message)
  /\ enumeration \in [Threads -> Enumeration]
  /\ isStarted \in BOOLEAN /\ initializing \in BOOLEAN
  /\ activeWindow \in Windows \cup {NoWindow}
  /\ listed \subseteq Windows /\ deferred \subseteq listed /\ recent \subseteq listed
  /\ uMonitor \in [Windows -> Monitors]
  /\ buttons \in [Windows -> SUBSET Taskbars]
  /\ tasks \in [Taskbars -> SUBSET Windows]
  /\ laid \in [Taskbars -> SUBSET Windows]
  /\ active \in [Taskbars -> SUBSET Windows]
  /\ flashing \in [Taskbars -> SUBSET Windows]
  /\ minimized \in [Taskbars -> SUBSET Windows]
  /\ events \in 0..MaxEvents
  /\ refreshes \in 0..MaxRefreshes

\* The pointers windowMap keeps to buttons are the buttons that exist: none dangles
\* after a button was destroyed with its window, its monitor or its taskbar, none is
\* left on a taskbar without an entry, and AddTask never meets a button of the same
\* window (its ASSERT, Taskbar.cpp line 81).  A window is never on some of the
\* taskbars that want it.
TaskbarsFollowMap ==
  \A w \in Windows :
    /\ buttons[w] = {t \in Taskbars : w \in tasks[t]}
    /\ w \notin listed => buttons[w] = {}
    /\ w \in listed => buttons[w] \in {{}, Wanting(uMonitor[w])}

\* A button is in a state only while it exists, and once the existing windows have
\* been added every button has a place and is shown, although buttons added before
\* are not laid out and a refresh can overtake the thread that says so.
ButtonsShown ==
  /\ ~initializing => laid = tasks
  /\ \A t \in Taskbars : laid[t] \cup active[t] \cup flashing[t] \cup minimized[t] \subseteq tasks[t]

Pending(what, w) == \E i \in DOMAIN messages : messages[i] = Msg(what, w)

\* The outcome for w of the messages that wait to be handled.
WillBeListed(w) ==
  LET about == {i \in DOMAIN messages : messages[i] \in {Msg("created", w), Msg("destroyed", w)}}
  IN  IF about = {} THEN w \in listed
      ELSE /\ w \in visible
           /\ \E i \in about : messages[i].msg = "created" /\ \A j \in about : j <= i

WillBeExamined(w) ==
  \E k \in Threads : \/ enumeration[k].pc \in {"timer", "started"}
                     \/ enumeration[k].pc = "enumerating" /\ w \in enumeration[k].todo
                     \/ enumeration[k].found = w

\* However openings, closings, re-used handles, enumerations and refreshes interleave,
\* the messages under way will make windowMap hold the windows of the desktop: no
\* window is missed and none stays behind.
ListConverges ==
  isStarted => \A w \in Windows : IF w \in visible THEN WillBeListed(w) \/ WillBeExamined(w)
                                                   ELSE ~WillBeListed(w)

\* The title of a button is right and the monitor of its window known, or the message
\* or deferred update that will correct them is under way: throttling, monitor changes
\* and removals lose no title and no move.  Of the icon, which comes by asynchronous
\* queries, nothing is said.
NothingStale ==
  \A w \in listed \ {v \in Windows : Pending("destroyed", v)} :
    /\ w \in dirty /\ buttons[w] # {} =>
         Pending("redraw", w) \/ Pending("flash", w) \/ w \in deferred
    /\ uMonitor[w] # monitor[w] => Pending("monitor", w)

\* Once no activation is left to handle, the buttons that are lit are those of the
\* window in the foreground, although adding a button looks at the foreground window
\* and SetActive at the last one it was told of.
ActiveFollows ==
  isStarted /\ (\A w \in Windows \cup {NoWindow} : ~Pending("activated", w)) =>
    \A t \in Taskbars : active[t] = tasks[t] \cap {foreground}

UpToDate ==
  /\ messages = <<>>
  /\ listed = visible
  /\ \A t \in Taskbars : minimized[t] = tasks[t] \cap iconic /\ laid[t] = tasks[t]
  /\ \A w \in listed : buttons[w] # {} => w \notin dirty

\* When the desktop settles, the taskbars end up showing it.
Converges == <>[](isStarted => UpToDate)

\* "Add it to any taskbar that wants it" (WindowManager.cpp line 146): when nothing is
\* under way any more, a window has a button on each of them.
OnEveryWantingTaskbar ==
  messages = <<>> /\ (\A k \in Threads : enumeration[k].pc \in {"none", "done"}) =>
    \A w \in listed : buttons[w] = Wanting(uMonitor[w])

\* A throttled update is only deferred "until the next maintenance cycle"
\* (WindowManager.cpp line 318): what it asked for is done then.
FlashNotLost ==
  \A w \in (asked \cap listed) \ deferred :
    Pending("flash", w) \/ Pending("destroyed", w) \/ \A t \in buttons[w] : w \in flashing[t]
=============================================================================
