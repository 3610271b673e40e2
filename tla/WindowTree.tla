------------------------------ MODULE WindowTree ------------------------------
(***************************************************************************)
(* The tree of drawables of all modules (src/nShared/Window.cpp), the      *)
(* registry of nCore that lets a drawable of one module become the child   *)
(* of a drawable of another (src/nCore/WindowRegistrar.cpp), and the       *)
(* callback timers that a top-level window hands out to the drawables on   *)
(* it (src/Utilities/UIDGenerator.hpp).                                    *)
(*                                                                         *)
(* A drawable names its parent in the settings.  The parent may not exist  *)
(* yet, and it may go away at any time, as modules are loaded, refreshed   *)
(* and unloaded on their own: a child without its parent waits for it, and *)
(* the drawables below it are told when the top-level window they are on   *)
(* is lost and found.  The clock (src/nClock/Clock.cpp) is the drawable    *)
(* that keeps a timer through all this.                                    *)
(***************************************************************************)
EXTENDS Integers, Sequences, FiniteSets, Functions

CONSTANTS
  Drawables,    \* the drawables of the settings
  Clocks,       \* the ones that keep a callback timer
  Prefixes,     \* the names drawables are registered under
  Prefix,       \* drawable -> its settings prefix
  Parent,       \* drawable -> the prefix of its Parent setting
  Screen,       \* the parent of a top-level drawable
  None,         \* the null pointer
  MaxTimers     \* bound: how many timer ids a top-level window ever makes

\* Prefixes can repeat, as every module checks its own only.  Nothing in the code
\* rules out a cycle of Parent settings; settings that have one are not considered.
ASSUME TreeAssumption ==
  /\ IsFiniteSet(Drawables)
  /\ Clocks \subseteq Drawables
  /\ None \notin Drawables
  /\ Prefix \in [Drawables -> Prefixes]
  /\ Parent \in [Drawables -> Prefixes \cup {Screen}]
  /\ Screen \notin Prefixes
  /\ MaxTimers \in Nat
  /\ \E depth \in [Prefixes -> 0..Cardinality(Prefixes)] :
       \A d \in Drawables : Parent[d] # Screen => depth[Parent[d]] < depth[Prefix[d]]

VARIABLES
  alive,                  \* the drawables that exist
  mParent,                \* drawable -> its parent window
  children,               \* drawable -> its child windows
  window,                 \* drawable -> the top-level window it is on
  sRegisteredWindows,     \* prefix -> the window registered under it
  sRegistrationListeners, \* prefix -> the windows that wait for it
  mNextFreshID,           \* top-level window -> the next timer id not yet used
  mReleasedIDs,           \* top-level window -> the timer ids given back
  timers,                 \* top-level window -> timer id -> the drawable called
  mUpdateTimer            \* clock -> its timer, 0 if it has none

treeVars     == <<alive, mParent, children, window>>
registryVars == <<sRegisteredWindows, sRegistrationListeners>>
timerVars    == <<mNextFreshID, mReleasedIDs, timers, mUpdateTimer>>
vars         == <<treeVars, registryVars, timerVars>>

Tops == {d \in Drawables : Parent[d] = Screen}

TimerIds == 1..MaxTimers

NoTimers == [id \in TimerIds |-> None]

\* (mutant) The generator of the timer ids starts at its default, 0.
Init_DefaultStart ==
  /\ alive = {}
  /\ mParent = [d \in Drawables |-> None]
  /\ children = [d \in Drawables |-> {}]
  /\ window = [d \in Drawables |-> None]
  /\ sRegisteredWindows = [p \in Prefixes |-> None]
  /\ sRegistrationListeners = [p \in Prefixes |-> {}]
  /\ mNextFreshID = [t \in Tops |-> 0]
  /\ mReleasedIDs = [t \in Tops |-> <<>>]
  /\ timers = [t \in Tops |-> NoTimers]
  /\ mUpdateTimer = [c \in Clocks |-> 0]

Init ==
  /\ alive = {}
  /\ mParent = [d \in Drawables |-> None]
  /\ children = [d \in Drawables |-> {}]
  /\ window = [d \in Drawables |-> None]
  /\ sRegisteredWindows = [p \in Prefixes |-> None]
  /\ sRegistrationListeners = [p \in Prefixes |-> {}]
  /\ mNextFreshID = [t \in Tops |-> 1]
  /\ mReleasedIDs = [t \in Tops |-> <<>>]
  /\ timers = [t \in Tops |-> NoTimers]
  /\ mUpdateTimer = [c \in Clocks |-> 0]

\* (mutant) The news does not go further than the children.
Below_ChildrenOnly(roots) == roots

\* The drawables of the subtrees below the drawables in roots, roots included: what
\* UpdateParentVariables and SendToAll reach.
Below(roots) ==
  {d \in Drawables : \A S \in SUBSET Drawables :
     roots \subseteq S /\ (\A s \in S : children[s] \subseteq S) => d \in S}

----------------------------------------------------------------------------
(* The timers of a top-level window.                                        *)

\* (mutant) A released id is handed out and stays among the released ones.
GetNewIDs_KeepsReleased(top, n) ==
  LET released == mReleasedIDs[top]
      reused   == IF n <= Len(released) THEN n ELSE Len(released)
  IN  [ids      |-> [k \in 1..n |-> IF k <= reused THEN released[k]
                                    ELSE mNextFreshID[top] + k - reused - 1],
       next     |-> mNextFreshID[top] + n - reused,
       released |-> released]

\* n calls of GetNewID: the ids of the generator of top, the oldest released ones first
\* and then fresh ones, and what is left in it.
GetNewIDs(top, n) ==
  LET released == mReleasedIDs[top]
      reused   == IF n <= Len(released) THEN n ELSE Len(released)
  IN  [ids      |-> [k \in 1..n |-> IF k <= reused THEN released[k]
                                    ELSE mNextFreshID[top] + k - reused - 1],
       next     |-> mNextFreshID[top] + n - reused,
       released |-> SubSeq(released, reused + 1, Len(released))]

\* Every clock in asking calls SetCallbackTimer, in some order, the one in last after
\* the others.  The call climbs to the top-level window top; without one it fails.
SetCallbackTimers(top, asking, last) ==
  IF top = None THEN
    /\ mUpdateTimer' = [c \in Clocks |-> IF c \in asking THEN 0 ELSE mUpdateTimer[c]]
    /\ UNCHANGED <<mNextFreshID, mReleasedIDs, timers>>
  ELSE
    LET new == GetNewIDs(top, Cardinality(asking))
    IN  /\ new.next <= MaxTimers + 1
        /\ \E rank \in Bijection(asking, 1..Cardinality(asking)) :
             /\ \A c \in last \cap asking : rank[c] = Cardinality(asking)
             /\ mUpdateTimer' = [c \in Clocks |-> IF c \in asking THEN new.ids[rank[c]]
                                                                  ELSE mUpdateTimer[c]]
             /\ timers' = [timers EXCEPT ![top] =
                  [id \in TimerIds |->
                     IF @[id] = None /\ \E c \in asking : new.ids[rank[c]] = id
                     THEN CHOOSE c \in asking : new.ids[rank[c]] = id
                     ELSE @[id]]]
        /\ mNextFreshID' = [mNextFreshID EXCEPT ![top] = new.next]
        /\ mReleasedIDs' = [mReleasedIDs EXCEPT ![top] = new.released]

----------------------------------------------------------------------------
(* The constructor: the window is created or attached, then registered,     *)
(* whereupon the windows that waited for it become its children; a clock    *)
(* sets its timer at the end.                                               *)

\* (mutant) A parent without a window of its own is not taken for one.
NewWindow_NeedsWindow(d) ==
  LET found == IF d \in Tops THEN None ELSE sRegisteredWindows[Parent[d]]
      p     == IF found = None THEN None ELSE IF window[found] = None THEN None ELSE found
  IN  [parent |-> p,
       window |-> IF d \in Tops THEN d ELSE IF p = None THEN None ELSE window[p],
       waits  |-> d \notin Tops /\ p = None]

\* A top-level window with the generator of its timer ids; a window of a parent that
\* is there; a window of one that is not.
NewWindow(d) ==
  LET p == IF d \in Tops THEN None ELSE sRegisteredWindows[Parent[d]]
  IN  [parent |-> p,
       window |-> IF d \in Tops THEN d ELSE IF p = None THEN None ELSE window[p],
       waits  |-> d \notin Tops /\ p = None]

\* The window becomes the child of its parent, and the windows that waited for it become
\* its children; everything below them learns the top-level window (WM_NEWTOPPARENT).
SetParent(d, new, waiting) ==
  /\ mParent' = [c \in Drawables |-> IF c = d THEN new.parent
                                     ELSE IF c \in waiting THEN d ELSE mParent[c]]
  /\ children' = [c \in Drawables |-> IF c = d THEN waiting
                                      ELSE IF c = new.parent THEN children[c] \cup {d}
                                      ELSE children[c]]
  /\ window' = [c \in Drawables |-> IF c \in Below(waiting) \cup {d} THEN new.window ELSE window[c]]

RegisterWindow(d, new) ==
  /\ sRegisteredWindows' = [sRegisteredWindows EXCEPT ![Prefix[d]] = d]
  /\ sRegistrationListeners' =
       [p \in Prefixes |-> IF p = Prefix[d] THEN {}
                           ELSE IF new.waits /\ p = Parent[d] THEN sRegistrationListeners[p] \cup {d}
                           ELSE sRegistrationListeners[p]]

Create(d) ==
  /\ d \notin alive
  /\ alive' = alive \cup {d}
  /\ LET new     == NewWindow(d)
         waiting == sRegistrationListeners[Prefix[d]]
     IN  /\ SetParent(d, new, waiting)
         /\ RegisterWindow(d, new)
         /\ SetCallbackTimers(new.window, (Below(waiting) \cup {d}) \cap Clocks, {d})

----------------------------------------------------------------------------
(* The destructor.                                                          *)

\* The clock gives its timer back; a top-level window takes all of its timers along.
ClearCallbackTimers(d) ==
  LET timer == IF d \in Clocks THEN mUpdateTimer[d] ELSE 0
      top   == window[d]
  IN  /\ mNextFreshID' = [t \in Tops |-> IF t = d THEN 1 ELSE mNextFreshID[t]]
      /\ mReleasedIDs' = [t \in Tops |-> CASE t = d -> <<>>
                                           [] t # d /\ t = top /\ timer # 0 ->
                                                Append(mReleasedIDs[t], timer)
                                           [] OTHER -> mReleasedIDs[t]]
      /\ timers' = [t \in Tops |-> CASE t = d -> NoTimers
                                     [] t # d /\ t = top /\ timer # 0 ->
                                          [timers[t] EXCEPT ![timer] = None]
                                     [] OTHER -> timers[t]]

\* (mutant) The window that waits for its parent is not taken off the list.
UnRegister_KeepsListener(d) ==
  /\ sRegisteredWindows' = [sRegisteredWindows EXCEPT ![Prefix[d]] = None]
  /\ sRegistrationListeners' =
       [p \in Prefixes |-> sRegistrationListeners[p] \cup {c \in children[d] : Parent[c] = p}]

\* The window no longer waits for its parent and is no longer found under its name; its
\* children wait for it from now on.
UnRegister(d) ==
  /\ sRegisteredWindows' = [sRegisteredWindows EXCEPT ![Prefix[d]] = None]
  /\ sRegistrationListeners' =
       [p \in Prefixes |->
          (IF d \notin Tops /\ mParent[d] = None /\ p = Parent[d]
           THEN sRegistrationListeners[p] \ {d}
           ELSE sRegistrationListeners[p]) \cup {c \in children[d] : Parent[c] = p}]

\* The window leaves its parent and its children lose theirs; everything below them learns
\* that there is no top-level window any more (WM_TOPPARENTLOST).
ParentLeft(d) ==
  LET told == Below(children[d]) \cup {d}
  IN  /\ mParent' = [c \in Drawables |-> IF c \in children[d] \cup {d} THEN None ELSE mParent[c]]
      /\ children' = [c \in Drawables |-> IF c = d THEN {}
                                          ELSE IF c = mParent[d] THEN children[c] \ {d}
                                          ELSE children[c]]
      /\ window' = [c \in Drawables |-> IF c \in told THEN None ELSE window[c]]
      /\ mUpdateTimer' = [c \in Clocks |-> IF c \in told THEN 0 ELSE mUpdateTimer[c]]

Destroy(d) ==
  /\ d \in alive
  /\ alive' = alive \ {d}
  /\ ClearCallbackTimers(d)
  /\ UnRegister(d)
  /\ ParentLeft(d)

Next == \E d \in Drawables : Create(d) \/ Destroy(d)

Spec == Init /\ [][Next]_vars

----------------------------------------------------------------------------
(* Properties.                                                              *)

TypeOK ==
  /\ alive \subseteq Drawables
  /\ mParent \in [Drawables -> Drawables \cup {None}]
  /\ children \in [Drawables -> SUBSET Drawables]
  /\ window \in [Drawables -> Tops \cup {None}]
  /\ sRegisteredWindows \in [Prefixes -> Drawables \cup {None}]
  /\ sRegistrationListeners \in [Prefixes -> SUBSET Drawables]
  /\ mNextFreshID \in [Tops -> 1..(MaxTimers + 1)]
  /\ mReleasedIDs \in [Tops -> Seq(TimerIds)]
  /\ timers \in [Tops -> [TimerIds -> Drawables \cup {None}]]
  /\ mUpdateTimer \in [Clocks -> TimerIds \cup {0}]

\* The three places that point at windows agree whatever is created and destroyed in
\* whatever order: the children of a window are the windows whose parent it is, a
\* child without a parent is listened for under its Parent setting and nobody else
\* is, and nothing that was destroyed is pointed at.
NoDanglingWindow ==
  /\ \A d \in Drawables : children[d] = {c \in alive : mParent[c] = d}
  /\ \A c \in alive : mParent[c] \in (alive \ {c}) \cup {None}
  /\ \A p \in Prefixes :
       /\ sRegistrationListeners[p] = {c \in alive : mParent[c] = None /\ Parent[c] = p}
       /\ sRegisteredWindows[p] # None =>
            sRegisteredWindows[p] \in alive /\ Prefix[sRegisteredWindows[p]] = p

\* A child that waits does so because its parent is not registered, and one that does
\* not has a parent of the name its settings ask for, also where a name is used twice.
AttachedIfPossible ==
  \A c \in alive \ Tops :
    IF mParent[c] = None THEN sRegisteredWindows[Parent[c]] = None
                         ELSE Prefix[mParent[c]] = Parent[c]

\* Every drawable knows the top-level window it is on, at any depth: the window of its
\* parent, none while the parent is missing or waits itself.
OnTheWindowOfItsParent ==
  \A d \in alive :
    window[d] = IF d \in Tops THEN d ELSE IF mParent[d] = None THEN None ELSE window[mParent[d]]

\* A clock has a timer exactly while it is on a top-level window, that timer calls the
\* clock, and no two clocks share it: not after any number of parents lost and found,
\* and not after an announcement of a new top parent where there is none.
ClocksRun ==
  \A c \in Clocks \cap alive :
    /\ mUpdateTimer[c] # 0 <=> window[c] # None
    /\ mUpdateTimer[c] # 0 => timers[window[c]][mUpdateTimer[c]] = c

\* "Sent when the top-level parent has gone away.  At this point, all calls to
\* RegisterUserMessage and SetCallbackTimer are invalidated" (Window.hpp line 60): no
\* timer calls a drawable that was told so and is gone.
TimersCallTheLiving ==
  \A t \in Tops, id \in TimerIds : timers[t][id] \in alive \cup {None}
=============================================================================
