--------------------------- MODULE WindowTreeProofs ---------------------------
(***************************************************************************)
(* The tree of drawables stays well typed and consistent, however many     *)
(* drawables there are, whatever they name as their parents, and in        *)
(* whatever order they are created and destroyed (TreeInv).                *)
(*                                                                         *)
(* On top of that (TimerInv) every clock on a top-level window has a timer *)
(* of its own: the ids the generator of a window holds free call nobody,   *)
(* and a drawable that is on a window lies below it, so that a window that *)
(* goes away with its timers takes the timer from all who have one.        *)
(***************************************************************************)
EXTENDS WindowTree, FiniteSetTheorems, WellFoundedInduction, TLAPS

----------------------------------------------------------------------------
(* What lies below: Below(roots) is the least set that holds the roots and  *)
(* is closed under children.  None of this needs the tree to be one.        *)

Closed(S) == \A s \in S : children[s] \subseteq S

\* The roots lie below themselves.
LEMMA BelowHoldsRoots ==
  ASSUME NEW roots \in SUBSET Drawables
  PROVE  roots \subseteq Below(roots)
BY DEF Below

\* Everything below lies in any closed set that holds the roots.
LEMMA BelowIsLeast ==
  ASSUME NEW roots \in SUBSET Drawables, NEW S \in SUBSET Drawables,
         roots \subseteq S, Closed(S)
  PROVE  Below(roots) \subseteq S
BY DEF Below, Closed

\* The children of what lies below lie below.
LEMMA BelowIsClosed ==
  ASSUME NEW roots \in SUBSET Drawables, children \in [Drawables -> SUBSET Drawables]
  PROVE  Below(roots) \in SUBSET Drawables /\ Closed(Below(roots))
<1>1. Below(roots) \in SUBSET Drawables
  BY DEF Below
<1>2. ASSUME NEW s \in Below(roots), NEW c \in children[s]
      PROVE  c \in Below(roots)
  <2>1. c \in Drawables
    BY <1>1
  <2>2. ASSUME NEW S \in SUBSET Drawables, roots \subseteq S, \A x \in S : children[x] \subseteq S
        PROVE  c \in S
    <3>1. s \in S
      BY <2>2 DEF Below
    <3>2. QED
      BY <3>1, <2>2
  <2>3. QED
    BY <2>1, <2>2 DEF Below
<1>3. QED
  BY <1>1, <1>2 DEF Closed

\* What lies below is a root, or its parent lies below too.
LEMMA BelowHasParent ==
  ASSUME NEW roots \in SUBSET Drawables, NEW c \in Below(roots),
         TypeOK, NoDanglingWindow, c \notin roots
  PROVE  mParent[c] \in Below(roots)
<1> DEFINE S == {x \in Below(roots) : x \in roots \/ mParent[x] \in Below(roots)}
<1>1. Below(roots) \in SUBSET Drawables /\ Closed(Below(roots))
  BY BelowIsClosed DEF TypeOK
<1>2. roots \subseteq S
  BY BelowHoldsRoots
<1>3. Closed(S)
  <2> SUFFICES ASSUME NEW s \in S, NEW x \in children[s]
               PROVE  x \in S
    BY DEF Closed
  <2>1. s \in Below(roots) /\ s \in Drawables
    BY <1>1
  <2>2. x \in Below(roots)
    BY <2>1, <1>1 DEF Closed
  <2>3. mParent[x] = s
    BY <2>1 DEF NoDanglingWindow
  <2>4. QED
    BY <2>1, <2>2, <2>3
<1>4. S \in SUBSET Drawables
  BY <1>1
<1>5. c \in S
  BY <1>2, <1>3, <1>4, BelowIsLeast
<1>6. QED
  BY <1>5

\* What lies below living roots lives.
LEMMA BelowLives ==
  ASSUME NEW roots \in SUBSET alive, TypeOK, NoDanglingWindow
  PROVE  Below(roots) \subseteq alive
<1>1. alive \in SUBSET Drawables /\ roots \in SUBSET Drawables
  BY DEF TypeOK
<1>2. Closed(alive)
  BY <1>1 DEF Closed, NoDanglingWindow
<1>3. QED
  BY <1>1, <1>2, BelowIsLeast

----------------------------------------------------------------------------
(* Types.                                                                   *)

LEMMA TopsAreDrawables == Tops \in SUBSET Drawables
BY DEF Tops

LEMMA TypeOKInit == Init => TypeOK
<1> SUFFICES ASSUME Init PROVE TypeOK
  OBVIOUS
<1> USE TreeAssumption DEF TreeAssumption
<1>1. NoTimers \in [TimerIds -> Drawables \cup {None}]
  BY DEF NoTimers
<1>2. <<>> \in Seq(TimerIds)
  OBVIOUS
<1>3. 1 \in 1..(MaxTimers + 1)
  OBVIOUS
<1>4. QED
  BY <1>1, <1>2, <1>3 DEF Init, TypeOK

\* A new window's parent is a drawable, and it is on a top-level window or on none.
LEMMA NewWindowType ==
  ASSUME TypeOK, NEW d \in Drawables
  PROVE  /\ NewWindow(d).parent \in Drawables \cup {None}
         /\ NewWindow(d).window \in Tops \cup {None}
<1> USE TreeAssumption DEF TreeAssumption
<1>1. d \notin Tops => Parent[d] \in Prefixes
  BY DEF Tops
<1>2. d \notin Tops => sRegisteredWindows[Parent[d]] \in Drawables \cup {None}
  BY <1>1 DEF TypeOK
<1>3. QED
  BY <1>2 DEF TypeOK, NewWindow

\* The k-th id handed out is a fresh one within the bound.
LEMMA FreshIDInRange ==
  ASSUME NEW max \in Nat, NEW fresh \in 1..(max + 1), NEW n \in Nat, NEW reused \in 0..n,
         NEW k \in 1..n, ~(k <= reused), fresh + n - reused <= max + 1
  PROVE  fresh + k - reused - 1 \in 1..max
<1>1. fresh \in Nat /\ reused \in Nat /\ k \in Nat /\ fresh >= 1 /\ k >= reused + 1 /\ k <= n
  OBVIOUS
<1>2. fresh + k - reused - 1 >= 1 /\ fresh + k - reused - 1 <= max
  BY <1>1
<1>3. QED
  BY <1>1, <1>2

\* The ids a generator hands out are timer ids when it is not exhausted, and what is
\* left in it is well typed.
LEMMA GetNewIDsType ==
  ASSUME TypeOK, NEW top \in Tops, NEW n \in Nat,
         GetNewIDs(top, n).next <= MaxTimers + 1
  PROVE  /\ GetNewIDs(top, n).next \in 1..(MaxTimers + 1)
         /\ GetNewIDs(top, n).released \in Seq(TimerIds)
         /\ \A k \in 1..n : GetNewIDs(top, n).ids[k] \in TimerIds
<1> USE TreeAssumption DEF TreeAssumption
<1> DEFINE released == mReleasedIDs[top]
<1> DEFINE reused == IF n <= Len(released) THEN n ELSE Len(released)
<1> DEFINE fresh == mNextFreshID[top]
<1>1. released \in Seq(TimerIds) /\ fresh \in 1..(MaxTimers + 1) /\ MaxTimers \in Nat
  BY DEF TypeOK
<1>2. Len(released) \in Nat
  BY <1>1
<1>3. reused \in 0..n /\ reused <= Len(released)
  BY <1>2
<1>4. GetNewIDs(top, n).next = fresh + n - reused
  BY DEF GetNewIDs
<1>5. GetNewIDs(top, n).released = SubSeq(released, reused + 1, Len(released))
  BY DEF GetNewIDs
<1>6. SubSeq(released, reused + 1, Len(released)) \in Seq(TimerIds)
  BY <1>1, <1>2, <1>3
<1>7. ASSUME NEW k \in 1..n
      PROVE  GetNewIDs(top, n).ids[k] \in TimerIds
  <2>1. GetNewIDs(top, n).ids[k] = IF k <= reused THEN released[k] ELSE fresh + k - reused - 1
    BY DEF GetNewIDs
  <2>2. CASE k <= reused
    BY <2>1, <2>2, <1>1, <1>2, <1>3
  <2>3. CASE ~(k <= reused)
    <3> HIDE DEF released, reused, fresh
    <3>1. fresh + n - reused <= MaxTimers + 1
      BY <1>4
    <3>2. reused \in 0..n /\ fresh \in 1..(MaxTimers + 1) /\ MaxTimers \in Nat
      BY <1>1, <1>3
    <3>3. fresh + k - reused - 1 \in 1..MaxTimers
      BY <2>3, <3>1, <3>2, FreshIDInRange
    <3>4. QED
      BY <3>3, <2>1, <2>3 DEF TimerIds
  <2>4. QED
    BY <2>2, <2>3
<1>8. QED
  BY <1>1, <1>3, <1>4, <1>5, <1>6, <1>7

\* Setting timers keeps the timers well typed.
LEMMA SetCallbackTimersType ==
  ASSUME TypeOK, NEW top \in Tops \cup {None}, NEW asking \in SUBSET Clocks, NEW last,
         SetCallbackTimers(top, asking, last)
  PROVE  /\ mNextFreshID' \in [Tops -> 1..(MaxTimers + 1)]
         /\ mReleasedIDs' \in [Tops -> Seq(TimerIds)]
         /\ timers' \in [Tops -> [TimerIds -> Drawables \cup {None}]]
         /\ mUpdateTimer' \in [Clocks -> TimerIds \cup {0}]
<1> USE TreeAssumption DEF TreeAssumption
<1>1. CASE top = None
  BY <1>1 DEF SetCallbackTimers, TypeOK
<1>2. CASE top # None
  <2>1. top \in Tops
    BY <1>2
  <2> DEFINE n == Cardinality(asking)
  <2> DEFINE new == GetNewIDs(top, n)
  <2>2. n \in Nat
    BY FS_Subset, FS_CardinalityType
  <2>3. /\ new.next <= MaxTimers + 1
        /\ mNextFreshID' = [mNextFreshID EXCEPT ![top] = new.next]
        /\ mReleasedIDs' = [mReleasedIDs EXCEPT ![top] = new.released]
    BY <1>2 DEF SetCallbackTimers
  <2>4. PICK rank \in Bijection(asking, 1..n) :
          /\ mUpdateTimer' = [c \in Clocks |-> IF c \in asking THEN new.ids[rank[c]]
                                                               ELSE mUpdateTimer[c]]
          /\ timers' = [timers EXCEPT ![top] =
               [id \in TimerIds |->
                  IF timers[top][id] = None /\ \E c \in asking : new.ids[rank[c]] = id
                  THEN CHOOSE c \in asking : new.ids[rank[c]] = id
                  ELSE timers[top][id]]]
    BY <1>2 DEF SetCallbackTimers
  <2>5. rank \in [asking -> 1..n]
    BY DEF Bijection, Injection, Surjection
  <2>6. /\ new.next \in 1..(MaxTimers + 1)
        /\ new.released \in Seq(TimerIds)
        /\ \A k \in 1..n : new.ids[k] \in TimerIds
    BY <2>1, <2>2, <2>3, GetNewIDsType
  <2>7. mNextFreshID' \in [Tops -> 1..(MaxTimers + 1)]
    BY <2>1, <2>3, <2>6 DEF TypeOK
  <2>8. mReleasedIDs' \in [Tops -> Seq(TimerIds)]
    BY <2>1, <2>3, <2>6 DEF TypeOK
  <2>9. mUpdateTimer' \in [Clocks -> TimerIds \cup {0}]
    BY <2>4, <2>5, <2>6 DEF TypeOK
  <2>10. timers' \in [Tops -> [TimerIds -> Drawables \cup {None}]]
    <3> DEFINE row == [id \in TimerIds |->
                  IF timers[top][id] = None /\ \E c \in asking : new.ids[rank[c]] = id
                  THEN CHOOSE c \in asking : new.ids[rank[c]] = id
                  ELSE timers[top][id]]
    <3>1. timers \in [Tops -> [TimerIds -> Drawables \cup {None}]]
      BY DEF TypeOK
    <3>2. asking \in SUBSET Drawables
      OBVIOUS
    <3>3. ASSUME NEW id \in TimerIds
          PROVE  row[id] \in Drawables \cup {None}
      BY <2>1, <3>1, <3>2
    <3>4. row \in [TimerIds -> Drawables \cup {None}]
      BY <3>3
    <3>5. timers' = [timers EXCEPT ![top] = row]
      BY <2>4
    <3> HIDE DEF row
    <3>6. QED
      BY <3>1, <3>4, <3>5, <2>1
  <2>11. QED
    BY <2>7, <2>8, <2>9, <2>10
<1>3. QED
  BY <1>1, <1>2

LEMMA TypeOKCreate ==
  ASSUME TypeOK, NEW d \in Drawables, Create(d)
  PROVE  TypeOK'
<1> USE TreeAssumption DEF TreeAssumption
<1> DEFINE new == NewWindow(d)
<1> DEFINE waiting == sRegistrationListeners[Prefix[d]]
<1> DEFINE asking == (Below(waiting) \cup {d}) \cap Clocks
<1>1. /\ new.parent \in Drawables \cup {None}
      /\ new.window \in Tops \cup {None}
  BY NewWindowType
<1>2. waiting \in SUBSET Drawables
  BY DEF TypeOK
<1>3. alive' \subseteq Drawables
  BY DEF Create, TypeOK
<1>4. /\ mParent' \in [Drawables -> Drawables \cup {None}]
      /\ children' \in [Drawables -> SUBSET Drawables]
      /\ window' \in [Drawables -> Tops \cup {None}]
  <2>1. SetParent(d, new, waiting)
    BY DEF Create
  <2> HIDE DEF new, waiting
  <2>2. mParent' \in [Drawables -> Drawables \cup {None}]
    BY <1>1, <2>1 DEF SetParent, TypeOK
  <2>3. children' \in [Drawables -> SUBSET Drawables]
    BY <1>2, <2>1 DEF SetParent, TypeOK
  <2>4. window' \in [Drawables -> Tops \cup {None}]
    BY <1>1, <2>1 DEF SetParent, TypeOK
  <2>5. QED
    BY <2>2, <2>3, <2>4
<1>5. /\ sRegisteredWindows' \in [Prefixes -> Drawables \cup {None}]
      /\ sRegistrationListeners' \in [Prefixes -> SUBSET Drawables]
  <2>1. RegisterWindow(d, new)
    BY DEF Create
  <2>2. QED
    BY <2>1 DEF RegisterWindow, TypeOK
<1>6. SetCallbackTimers(new.window, asking, {d})
  BY DEF Create
<1>7. asking \in SUBSET Clocks
  OBVIOUS
<1> HIDE DEF new, asking
<1>8. /\ mNextFreshID' \in [Tops -> 1..(MaxTimers + 1)]
      /\ mReleasedIDs' \in [Tops -> Seq(TimerIds)]
      /\ timers' \in [Tops -> [TimerIds -> Drawables \cup {None}]]
      /\ mUpdateTimer' \in [Clocks -> TimerIds \cup {0}]
  BY <1>1, <1>6, <1>7, SetCallbackTimersType
<1>9. QED
  BY <1>3, <1>4, <1>5, <1>8 DEF TypeOK

LEMMA TypeOKDestroy ==
  ASSUME TypeOK, NEW d \in Drawables, Destroy(d)
  PROVE  TypeOK'
<1> USE TreeAssumption DEF TreeAssumption
<1>1. alive' \subseteq Drawables
  BY DEF Destroy, TypeOK
<1>2. /\ mParent' \in [Drawables -> Drawables \cup {None}]
      /\ children' \in [Drawables -> SUBSET Drawables]
      /\ window' \in [Drawables -> Tops \cup {None}]
      /\ mUpdateTimer' \in [Clocks -> TimerIds \cup {0}]
  BY DEF Destroy, ParentLeft, TypeOK
<1>3. /\ sRegisteredWindows' \in [Prefixes -> Drawables \cup {None}]
      /\ sRegistrationListeners' \in [Prefixes -> SUBSET Drawables]
  BY DEF Destroy, UnRegister, TypeOK
<1>4. /\ mNextFreshID' \in [Tops -> 1..(MaxTimers + 1)]
      /\ mReleasedIDs' \in [Tops -> Seq(TimerIds)]
      /\ timers' \in [Tops -> [TimerIds -> Drawables \cup {None}]]
  <2> DEFINE timer == IF d \in Clocks THEN mUpdateTimer[d] ELSE 0
  <2>1. timer \in TimerIds \cup {0}
    BY DEF TypeOK
  <2>2. ClearCallbackTimers(d)
    BY DEF Destroy
  <2>3. mNextFreshID' = [t \in Tops |-> IF t = d THEN 1 ELSE mNextFreshID[t]]
    BY <2>2 DEF ClearCallbackTimers
  <2>4. mReleasedIDs' = [t \in Tops |-> CASE t = d -> <<>>
                                           [] t # d /\ t = window[d] /\ timer # 0 ->
                                                Append(mReleasedIDs[t], timer)
                                           [] OTHER -> mReleasedIDs[t]]
    BY <2>2 DEF ClearCallbackTimers
  <2>5. timers' = [t \in Tops |-> CASE t = d -> NoTimers
                                     [] t # d /\ t = window[d] /\ timer # 0 ->
                                          [timers[t] EXCEPT ![timer] = None]
                                     [] OTHER -> timers[t]]
    BY <2>2 DEF ClearCallbackTimers
  <2>6. 1 \in 1..(MaxTimers + 1)
    OBVIOUS
  <2>7. <<>> \in Seq(TimerIds)
    OBVIOUS
  <2>8. NoTimers \in [TimerIds -> Drawables \cup {None}]
    BY DEF NoTimers
  <2> HIDE DEF timer
  <2>9. ASSUME NEW t \in Tops, timer # 0
        PROVE  /\ Append(mReleasedIDs[t], timer) \in Seq(TimerIds)
               /\ [timers[t] EXCEPT ![timer] = None] \in [TimerIds -> Drawables \cup {None}]
    <3>1. timer \in TimerIds
      BY <2>1, <2>9
    <3>2. mReleasedIDs[t] \in Seq(TimerIds) /\ timers[t] \in [TimerIds -> Drawables \cup {None}]
      BY DEF TypeOK
    <3>3. QED
      BY <3>1, <3>2
  <2>10. mNextFreshID' \in [Tops -> 1..(MaxTimers + 1)]
    BY <2>3, <2>6 DEF TypeOK
  <2>11. mReleasedIDs' \in [Tops -> Seq(TimerIds)]
    <3>1. ASSUME NEW t \in Tops
          PROVE  mReleasedIDs'[t] \in Seq(TimerIds)
      BY <2>4, <2>7, <2>9 DEF TypeOK
    <3>2. QED
      BY <2>4, <3>1
  <2>12. timers' \in [Tops -> [TimerIds -> Drawables \cup {None}]]
    <3>1. ASSUME NEW t \in Tops
          PROVE  timers'[t] \in [TimerIds -> Drawables \cup {None}]
      BY <2>5, <2>8, <2>9 DEF TypeOK
    <3>2. QED
      BY <2>5, <3>1
  <2>13. QED
    BY <2>10, <2>11, <2>12
<1>5. QED
  BY <1>1, <1>2, <1>3, <1>4 DEF TypeOK

\* The tree, the registry and the timers stay well typed, whatever is created and
\* destroyed (Window::Window, Window::~Window, SetCallbackTimer, UIDGenerator).
THEOREM TreeTypeCorrect == Spec => []TypeOK
<1>1. Init => TypeOK
  BY TypeOKInit
<1>2. TypeOK /\ [Next]_vars => TypeOK'
  <2> SUFFICES ASSUME TypeOK, [Next]_vars
               PROVE  TypeOK'
    OBVIOUS
  <2>1. ASSUME NEW d \in Drawables, Create(d)
        PROVE  TypeOK'
    BY <2>1, TypeOKCreate
  <2>2. ASSUME NEW d \in Drawables, Destroy(d)
        PROVE  TypeOK'
    BY <2>2, TypeOKDestroy
  <2>3. CASE UNCHANGED vars
    BY <2>3 DEF vars, treeVars, registryVars, timerVars, TypeOK
  <2>4. QED
    BY <2>1, <2>2, <2>3 DEF Next
<1>3. QED
  BY <1>1, <1>2, PTL DEF Spec

----------------------------------------------------------------------------
(* The pointers between windows.  The invariant that is inductive adds to    *)
(* the checked ones that a top-level window never has a parent window.       *)

TopsHaveNoParent == \A d \in Tops : mParent[d] = None

TreeInv ==
  /\ TypeOK
  /\ NoDanglingWindow
  /\ TopsHaveNoParent
  /\ AttachedIfPossible
  /\ OnTheWindowOfItsParent

LEMMA TreeInvInit == Init => TreeInv
<1> SUFFICES ASSUME Init PROVE TreeInv
  OBVIOUS
<1>1. TypeOK
  BY TypeOKInit
<1>2. NoDanglingWindow
  BY DEF Init, NoDanglingWindow
<1>3. TopsHaveNoParent
  BY TopsAreDrawables DEF Init, TopsHaveNoParent
<1>4. AttachedIfPossible
  BY DEF Init, AttachedIfPossible
<1>5. OnTheWindowOfItsParent
  BY DEF Init, OnTheWindowOfItsParent
<1>6. QED
  BY <1>1, <1>2, <1>3, <1>4, <1>5 DEF TreeInv

\* No Parent setting names the drawable itself, and the parent that a new window finds
\* does not lie below the windows that waited for the new one: this is where settings
\* that form a cycle are excluded.
LEMMA ParentIsAbove ==
  ASSUME TreeInv, NEW d \in Drawables \ Tops
  PROVE  /\ Parent[d] \in Prefixes
         /\ Parent[d] # Prefix[d]
         /\ \A p \in Below(sRegistrationListeners[Prefix[d]]) : Prefix[p] # Parent[d]
<1> USE TreeAssumption DEF TreeAssumption
<1>1. PICK depth \in [Prefixes -> 0..Cardinality(Prefixes)] :
        \A c \in Drawables : Parent[c] # Screen => depth[Parent[c]] < depth[Prefix[c]]
  OBVIOUS
<1>2. Parent[d] # Screen /\ Parent[d] \in Prefixes
  BY DEF Tops
<1>3. \A p \in Prefixes : depth[p] \in Int
  BY <1>1
<1> DEFINE waiting == sRegistrationListeners[Prefix[d]]
<1> DEFINE S == {x \in Drawables : depth[Prefix[d]] < depth[Prefix[x]]}
<1>4. waiting \subseteq S
  <2> SUFFICES ASSUME NEW c \in waiting
               PROVE  c \in S
    OBVIOUS
  <2>1. c \in Drawables /\ Parent[c] = Prefix[d]
    BY DEF TreeInv, NoDanglingWindow, TypeOK
  <2>2. QED
    BY <1>1, <2>1
<1>5. Closed(S)
  <2> SUFFICES ASSUME NEW s \in S, NEW c \in children[s]
               PROVE  c \in S
    BY DEF Closed
  <2>1. c \in alive /\ c \in Drawables /\ mParent[c] = s
    BY DEF TreeInv, NoDanglingWindow, TypeOK
  <2>2. s # None /\ c \notin Tops
    BY <2>1 DEF TreeInv, TopsHaveNoParent
  <2>3. Prefix[s] = Parent[c] /\ Parent[c] # Screen
    BY <2>1, <2>2 DEF TreeInv, AttachedIfPossible, Tops
  <2>4. depth[Prefix[s]] < depth[Prefix[c]]
    BY <1>1, <2>1, <2>3
  <2>5. QED
    BY <1>3, <2>1, <2>4
<1>6. Below(waiting) \subseteq S
  <2>1. waiting \in SUBSET Drawables
    BY DEF TreeInv, TypeOK
  <2>2. QED
    BY <1>4, <1>5, <2>1, BelowIsLeast
<1>7. depth[Parent[d]] < depth[Prefix[d]]
  BY <1>1, <1>2
<1>8. ASSUME NEW p \in Below(waiting)
      PROVE  Prefix[p] # Parent[d]
  BY <1>2, <1>3, <1>6, <1>7
<1>9. QED
  BY <1>2, <1>3, <1>7, <1>8

\* What creating d finds and what it leaves, element by element.
Created(d, new, waiting) ==
  /\ d \notin alive /\ alive' = alive \cup {d}
  /\ \A c : c \in waiting <=> c \in alive /\ mParent[c] = None /\ Parent[c] = Prefix[d]
  /\ waiting \in SUBSET Drawables /\ waiting \cap Tops = {} /\ Below(waiting) \subseteq alive
  /\ new.parent \in alive \cup {None} /\ new.parent # d
  /\ d \in Tops => /\ new.parent = None /\ new.window = d /\ ~new.waits
                   /\ Parent[d] \notin Prefixes
  /\ d \notin Tops =>
       /\ Parent[d] \in Prefixes /\ Parent[d] # Prefix[d]
       /\ new.parent = sRegisteredWindows[Parent[d]]
       /\ new.waits <=> new.parent = None
       /\ new.parent # None => Prefix[new.parent] = Parent[d] /\ new.parent \notin Below(waiting)
       /\ new.window = IF new.parent = None THEN None ELSE window[new.parent]
  /\ mParent'[d] = new.parent
  /\ \A c \in waiting : mParent'[c] = d
  /\ \A c \in alive \ waiting : mParent'[c] = mParent[c]
  /\ \A c \in Drawables \ (waiting \cup {d}) : mParent'[c] = mParent[c]
  /\ children'[d] = waiting
  /\ new.parent # None => children'[new.parent] = children[new.parent] \cup {d}
  /\ \A x \in Drawables \ {d, new.parent} : children'[x] = children[x]
  /\ \A c \in Below(waiting) \cup {d} : window'[c] = new.window
  /\ \A c \in Drawables \ (Below(waiting) \cup {d}) : window'[c] = window[c]
  /\ sRegisteredWindows'[Prefix[d]] = d
  /\ \A p \in Prefixes \ {Prefix[d]} : sRegisteredWindows'[p] = sRegisteredWindows[p]
  /\ sRegistrationListeners'[Prefix[d]] = {}
  /\ new.waits => sRegistrationListeners'[Parent[d]] = sRegistrationListeners[Parent[d]] \cup {d}
  /\ \A p \in Prefixes \ {Prefix[d], Parent[d]} :
       sRegistrationListeners'[p] = sRegistrationListeners[p]
  /\ ~new.waits => \A p \in Prefixes \ {Prefix[d]} :
       sRegistrationListeners'[p] = sRegistrationListeners[p]

LEMMA CreateFacts ==
  ASSUME TreeInv, NEW d \in Drawables, Create(d),
         NEW new, new = NewWindow(d),
         NEW waiting, waiting = sRegistrationListeners[Prefix[d]]
  PROVE  Created(d, new, waiting)
<1> USE TreeAssumption DEF TreeAssumption
<1>1. d \notin alive /\ alive' = alive \cup {d}
  BY DEF Create
<1>2. waiting = {c \in alive : mParent[c] = None /\ Parent[c] = Prefix[d]}
  BY DEF TreeInv, NoDanglingWindow
<1>3. Below(waiting) \subseteq alive
  BY <1>2, BelowLives DEF TreeInv
<1>4. waiting \cap Tops = {} /\ waiting \in SUBSET Drawables
  BY <1>2 DEF Tops, TreeInv, TypeOK
<1>5. d \in Tops => new.parent = None /\ new.window = d /\ ~new.waits
  BY DEF NewWindow
<1>6. d \notin Tops =>
              /\ new.parent = sRegisteredWindows[Parent[d]]
              /\ new.waits = (new.parent = None)
              /\ new.window = IF new.parent = None THEN None ELSE window[new.parent]
  BY DEF NewWindow
<1>7. d \notin Tops => /\ new.parent \in alive \cup {None}
                       /\ new.parent # None => Prefix[new.parent] = Parent[d]
  <2>1. d \notin Tops => Parent[d] \in Prefixes
    BY DEF Tops
  <2>2. QED
    BY <2>1, <1>6 DEF TreeInv, NoDanglingWindow
<1>8. SetParent(d, new, waiting) /\ RegisterWindow(d, new)
  BY DEF Create
<1>9. d \notin Tops => /\ Parent[d] \in Prefixes /\ Parent[d] # Prefix[d]
                       /\ new.parent # None => new.parent \notin Below(waiting)
  BY <1>7, ParentIsAbove
<1>10. d \in Tops => Parent[d] \notin Prefixes
  BY DEF Tops
<1>11. /\ new.parent \in alive \cup {None} /\ new.parent # d
       /\ alive \subseteq Drawables
       /\ \A c : c \in waiting <=> c \in alive /\ mParent[c] = None /\ Parent[c] = Prefix[d]
  BY <1>1, <1>2, <1>5, <1>7 DEF TreeInv, TypeOK
<1>12. /\ mParent'[d] = new.parent
       /\ \A c \in waiting : mParent'[c] = d
       /\ \A c \in alive \ waiting : mParent'[c] = mParent[c]
       /\ \A c \in Drawables \ (waiting \cup {d}) : mParent'[c] = mParent[c]
  <2>1. mParent' = [c \in Drawables |-> IF c = d THEN new.parent
                                        ELSE IF c \in waiting THEN d ELSE mParent[c]]
    BY <1>8 DEF SetParent
  <2>2. QED
    BY <2>1, <1>1, <1>11
<1>13. /\ children'[d] = waiting
       /\ new.parent # None => children'[new.parent] = children[new.parent] \cup {d}
       /\ \A x \in Drawables \ {d, new.parent} : children'[x] = children[x]
  <2>1. children' = [c \in Drawables |-> IF c = d THEN waiting
                                         ELSE IF c = new.parent THEN children[c] \cup {d}
                                         ELSE children[c]]
    BY <1>8 DEF SetParent
  <2>2. QED
    BY <2>1, <1>1, <1>11
<1>14. /\ \A c \in Below(waiting) \cup {d} : window'[c] = new.window
       /\ \A c \in Drawables \ (Below(waiting) \cup {d}) : window'[c] = window[c]
  <2>1. window' = [c \in Drawables |-> IF c \in Below(waiting) \cup {d} THEN new.window
                                                                       ELSE window[c]]
    BY <1>8 DEF SetParent
  <2>2. QED
    BY <2>1, <1>3, <1>11
<1>15. /\ sRegisteredWindows'[Prefix[d]] = d
       /\ \A p \in Prefixes \ {Prefix[d]} : sRegisteredWindows'[p] = sRegisteredWindows[p]
  BY <1>8 DEF RegisterWindow, TreeInv, TypeOK
<1>16. \A p \in Prefixes :
         sRegistrationListeners'[p] = IF p = Prefix[d] THEN {}
                                      ELSE IF new.waits /\ p = Parent[d]
                                      THEN sRegistrationListeners[p] \cup {d}
                                      ELSE sRegistrationListeners[p]
  BY <1>8 DEF RegisterWindow
<1>17. new.waits => sRegistrationListeners'[Parent[d]] = sRegistrationListeners[Parent[d]] \cup {d}
  BY <1>5, <1>9, <1>16
<1>18. QED
  BY <1>1, <1>3, <1>4, <1>5, <1>6, <1>7, <1>9, <1>10, <1>11, <1>12, <1>13, <1>14, <1>15, <1>16, <1>17
     DEF Created

\* The invariant, as the facts about single drawables that the steps below use.
LEMMA TreeFacts ==
  ASSUME TreeInv
  PROVE  /\ alive \subseteq Drawables /\ None \notin Drawables
         /\ \A x \in Drawables : \A c : c \in children[x] <=> c \in alive /\ mParent[c] = x
         /\ \A c \in alive : mParent[c] \in alive \cup {None} /\ mParent[c] # c
         /\ \A p \in Prefixes : \A c :
              c \in sRegistrationListeners[p] <=> c \in alive /\ mParent[c] = None /\ Parent[c] = p
         /\ \A p \in Prefixes : sRegisteredWindows[p] # None =>
              sRegisteredWindows[p] \in alive /\ Prefix[sRegisteredWindows[p]] = p
BY TreeAssumption DEF TreeAssumption, TreeInv, NoDanglingWindow, TypeOK

LEMMA NoDanglingCreate ==
  ASSUME TreeInv, NEW d \in Drawables, NEW new, NEW waiting, Created(d, new, waiting)
  PROVE  NoDanglingWindow'
<1>1. /\ alive \subseteq Drawables /\ None \notin Drawables
      /\ \A x \in Drawables : \A c : c \in children[x] <=> c \in alive /\ mParent[c] = x
      /\ \A c \in alive : mParent[c] \in alive \cup {None} /\ mParent[c] # c
      /\ \A p \in Prefixes : \A c :
           c \in sRegistrationListeners[p] <=> c \in alive /\ mParent[c] = None /\ Parent[c] = p
      /\ \A p \in Prefixes : sRegisteredWindows[p] # None =>
           sRegisteredWindows[p] \in alive /\ Prefix[sRegisteredWindows[p]] = p
  BY TreeFacts
<1>2. /\ d \notin alive /\ alive' = alive \cup {d}
      /\ \A c : c \in waiting <=> c \in alive /\ mParent[c] = None /\ Parent[c] = Prefix[d]
      /\ new.parent \in alive \cup {None} /\ new.parent # d
      /\ mParent'[d] = new.parent
      /\ \A c \in waiting : mParent'[c] = d
      /\ \A c \in alive \ waiting : mParent'[c] = mParent[c]
  BY DEF Created
<1>3. ASSUME NEW x \in Drawables
      PROVE  children'[x] = {c \in alive' : mParent'[c] = x}
  <2>1. CASE x = d
    <3>1. children'[x] = waiting
      BY <2>1 DEF Created
    <3>2. QED
      BY <2>1, <3>1, <1>1, <1>2
  <2>2. CASE x = new.parent
    <3>1. children'[x] = children[x] \cup {d}
      BY <2>2, <1>1, <1>2 DEF Created
    <3>2. QED
      BY <2>2, <3>1, <1>1, <1>2
  <2>3. CASE x # d /\ x # new.parent
    <3>1. children'[x] = children[x]
      BY <2>3 DEF Created
    <3>2. QED
      BY <2>3, <3>1, <1>1, <1>2
  <2>4. QED
    BY <2>1, <2>2, <2>3
<1>4. ASSUME NEW c \in alive'
      PROVE  mParent'[c] \in (alive' \ {c}) \cup {None}
  BY <1>1, <1>2
<1>5. ASSUME NEW p \in Prefixes
      PROVE  sRegistrationListeners'[p] = {c \in alive' : mParent'[c] = None /\ Parent[c] = p}
  <2>1. CASE p = Prefix[d]
    <3>1. sRegistrationListeners'[p] = {} /\ (Parent[d] = p => FALSE)
      BY <2>1 DEF Created
    <3>2. QED
      BY <2>1, <3>1, <1>1, <1>2
  <2>2. CASE p # Prefix[d] /\ p = Parent[d] /\ new.waits
    <3>1. sRegistrationListeners'[p] = sRegistrationListeners[p] \cup {d} /\ new.parent = None
      BY <2>2 DEF Created
    <3>2. QED
      BY <2>2, <3>1, <1>1, <1>2
  <2>3. CASE p # Prefix[d] /\ (p # Parent[d] \/ ~new.waits)
    <3>1. /\ sRegistrationListeners'[p] = sRegistrationListeners[p]
          /\ Parent[d] = p => new.parent # None
      BY <2>3 DEF Created
    <3>2. QED
      BY <2>3, <3>1, <1>1, <1>2
  <2>4. QED
    BY <2>1, <2>2, <2>3
<1>6. ASSUME NEW p \in Prefixes, sRegisteredWindows'[p] # None
      PROVE  sRegisteredWindows'[p] \in alive' /\ Prefix[sRegisteredWindows'[p]] = p
  BY <1>6, <1>1, <1>2 DEF Created
<1>7. QED
  BY <1>3, <1>4, <1>5, <1>6 DEF NoDanglingWindow

LEMMA AttachedCreate ==
  ASSUME TreeInv, NEW d \in Drawables, NEW new, NEW waiting, Created(d, new, waiting)
  PROVE  TopsHaveNoParent' /\ AttachedIfPossible'
<1>1. Tops' = Tops
  BY DEF Tops
<1>2. TopsHaveNoParent'
  <2>1. ASSUME NEW c \in Tops
        PROVE  mParent'[c] = None
    <3>1. c \in Drawables /\ c \notin waiting /\ mParent[c] = None
      BY TopsAreDrawables DEF Created, TreeInv, TopsHaveNoParent
    <3>2. CASE c = d
      BY <3>2 DEF Created
    <3>3. CASE c # d
      BY <3>1, <3>3 DEF Created
    <3>4. QED
      BY <3>2, <3>3
  <2>2. QED
    BY <1>1, <2>1 DEF TopsHaveNoParent
<1>3. ASSUME NEW c \in alive' \ Tops
      PROVE  IF mParent'[c] = None THEN sRegisteredWindows'[Parent[c]] = None
                                   ELSE Prefix[mParent'[c]] = Parent[c]
  <2>1. c \in Drawables /\ Parent[c] \in Prefixes /\ None \notin Drawables
    BY TreeFacts, TreeAssumption DEF TreeAssumption, Created, Tops
  <2>2. CASE c = d
    BY <2>1, <2>2 DEF Created
  <2>3. CASE c \in waiting
    BY <2>1, <2>3 DEF Created
  <2>4. CASE c # d /\ c \notin waiting
    <3>1. c \in alive /\ mParent'[c] = mParent[c]
      BY <2>1, <2>4 DEF Created
    <3>2. mParent[c] = None => Parent[c] # Prefix[d]
      BY <2>4, <3>1 DEF Created
    <3>3. IF mParent[c] = None THEN sRegisteredWindows[Parent[c]] = None
                               ELSE Prefix[mParent[c]] = Parent[c]
      BY <3>1 DEF TreeInv, AttachedIfPossible
    <3>4. Parent[c] # Prefix[d] => sRegisteredWindows'[Parent[c]] = sRegisteredWindows[Parent[c]]
      BY <2>1 DEF Created
    <3>5. QED
      BY <3>1, <3>2, <3>3, <3>4
  <2>5. QED
    BY <2>2, <2>3, <2>4
<1>4. QED
  BY <1>1, <1>2, <1>3 DEF AttachedIfPossible

\* A window that finds its parent or is top-level takes the windows below it onto its own
\* top-level window; what is not below it is left alone.
LEMMA OnTheWindowCreate ==
  ASSUME TreeInv, NEW d \in Drawables, NEW new, NEW waiting, Created(d, new, waiting)
  PROVE  OnTheWindowOfItsParent'
<1> DEFINE told == Below(waiting)
<1>1. Tops' = Tops
  BY DEF Tops
<1>2. /\ alive \subseteq Drawables /\ None \notin Drawables
      /\ \A x \in Drawables : \A c : c \in children[x] <=> c \in alive /\ mParent[c] = x
      /\ \A c \in alive : mParent[c] \in alive \cup {None} /\ mParent[c] # c
  BY TreeFacts
<1>3. /\ d \notin alive /\ alive' = alive \cup {d}
      /\ told \subseteq alive /\ waiting \in SUBSET Drawables
      /\ \A c \in told \cup {d} : window'[c] = new.window
      /\ \A c \in Drawables \ (told \cup {d}) : window'[c] = window[c]
      /\ mParent'[d] = new.parent
      /\ \A c \in waiting : mParent'[c] = d
      /\ \A c \in Drawables \ (waiting \cup {d}) : mParent'[c] = mParent[c]
  BY DEF Created
<1>4. waiting \subseteq told /\ Closed(told)
  BY <1>3, BelowHoldsRoots, BelowIsClosed DEF TreeInv, TypeOK
<1>5. ASSUME NEW c \in told \ waiting
      PROVE  mParent[c] \in told
  BY <1>3, BelowHasParent DEF TreeInv
<1> HIDE DEF told
<1>6. ASSUME NEW c \in told
      PROVE  c \notin Tops
  <2>1. CASE c \in waiting
    BY <2>1 DEF Created
  <2>2. CASE c \notin waiting
    <3>1. mParent[c] # None
      BY <2>2, <1>2, <1>3, <1>5
    <3>2. QED
      BY <3>1 DEF TreeInv, TopsHaveNoParent
  <2>3. QED
    BY <2>1, <2>2
<1>7. ASSUME NEW c \in alive'
      PROVE  window'[c] = IF c \in Tops THEN c
                          ELSE IF mParent'[c] = None THEN None ELSE window'[mParent'[c]]
  <2>1. CASE c = d
    <3>1. window'[c] = new.window /\ mParent'[c] = new.parent
      BY <2>1, <1>3
    <3>2. CASE c \in Tops
      BY <2>1, <3>1, <3>2 DEF Created
    <3>3. CASE c \notin Tops /\ new.parent = None
      BY <2>1, <3>1, <3>3 DEF Created
    <3>4. CASE c \notin Tops /\ new.parent # None
      <4>1. /\ new.window = window[new.parent]
            /\ new.parent \in Drawables /\ new.parent # d /\ new.parent \notin told
        BY <2>1, <3>4, <1>2 DEF Created, told
      <4>2. window'[new.parent] = window[new.parent]
        BY <4>1, <1>3
      <4>3. QED
        BY <3>1, <3>4, <4>1, <4>2
    <3>5. QED
      BY <3>2, <3>3, <3>4
  <2>2. CASE c \in waiting
    <3>1. window'[c] = new.window /\ mParent'[c] = d /\ window'[d] = new.window
      BY <2>2, <1>3, <1>4
    <3>2. c \notin Tops /\ d # None
      BY <2>2, <1>2, <1>4, <1>6
    <3>3. QED
      BY <3>1, <3>2
  <2>3. CASE c \in told \ waiting
    <3>1. c \in alive /\ c # d /\ c \in Drawables
      BY <2>3, <1>2, <1>3
    <3>2. mParent'[c] = mParent[c] /\ mParent[c] \in told
      BY <2>3, <3>1, <1>3, <1>5
    <3>3. window'[c] = new.window /\ window'[mParent[c]] = new.window
      BY <2>3, <3>2, <1>3
    <3>4. c \notin Tops /\ mParent[c] # None
      BY <2>3, <3>2, <1>2, <1>3, <1>6
    <3>5. QED
      BY <3>2, <3>3, <3>4
  <2>4. CASE c # d /\ c \notin told
    <3>1. c \in alive /\ c \in Drawables /\ c \notin waiting
      BY <2>4, <1>2, <1>3, <1>4
    <3>2. window'[c] = window[c] /\ mParent'[c] = mParent[c]
      BY <2>4, <3>1, <1>3
    <3>3. window[c] = IF c \in Tops THEN c
                      ELSE IF mParent[c] = None THEN None ELSE window[mParent[c]]
      BY <3>1 DEF TreeInv, OnTheWindowOfItsParent
    <3>4. ASSUME mParent[c] # None
          PROVE  window'[mParent[c]] = window[mParent[c]]
      <4>1. mParent[c] \in alive /\ mParent[c] \in Drawables /\ mParent[c] # d
        BY <3>1, <3>4, <1>2, <1>3
      <4>2. c \in children[mParent[c]]
        BY <3>1, <4>1, <1>2
      <4>3. mParent[c] \notin told
        BY <2>4, <4>2, <1>4 DEF Closed
      <4>4. QED
        BY <4>1, <4>3, <1>3
    <3>5. QED
      BY <3>2, <3>3, <3>4
  <2>5. QED
    BY <2>1, <2>2, <2>3, <2>4
<1>8. QED
  BY <1>1, <1>7 DEF OnTheWindowOfItsParent

\* What destroying d finds and what it leaves, element by element.
Destroyed(d) ==
  /\ d \in alive /\ alive' = alive \ {d}
  /\ mParent'[d] = None
  /\ \A c \in children[d] : mParent'[c] = None
  /\ \A c \in Drawables \ (children[d] \cup {d}) : mParent'[c] = mParent[c]
  /\ children'[d] = {}
  /\ mParent[d] # None => children'[mParent[d]] = children[mParent[d]] \ {d}
  /\ \A x \in Drawables \ {d, mParent[d]} : children'[x] = children[x]
  /\ \A c \in Below(children[d]) \cup {d} : window'[c] = None
  /\ \A c \in Drawables \ (Below(children[d]) \cup {d}) : window'[c] = window[c]
  /\ sRegisteredWindows'[Prefix[d]] = None
  /\ \A p \in Prefixes \ {Prefix[d]} : sRegisteredWindows'[p] = sRegisteredWindows[p]
  /\ \A p \in Prefixes : \A c :
       c \in sRegistrationListeners'[p] <=>
         \/ c \in sRegistrationListeners[p] /\ ~(c = d /\ p = Parent[d])
         \/ c \in children[d] /\ Parent[c] = p

LEMMA DestroyFacts ==
  ASSUME TreeInv, NEW d \in Drawables, Destroy(d)
  PROVE  Destroyed(d)
<1>1. /\ alive \subseteq Drawables /\ None \notin Drawables
      /\ \A x \in Drawables : \A c : c \in children[x] <=> c \in alive /\ mParent[c] = x
      /\ \A c \in alive : mParent[c] \in alive \cup {None} /\ mParent[c] # c
      /\ \A p \in Prefixes : \A c :
           c \in sRegistrationListeners[p] <=> c \in alive /\ mParent[c] = None /\ Parent[c] = p
  BY TreeFacts
<1>2. /\ d \in alive /\ alive' = alive \ {d}
      /\ UnRegister(d) /\ ParentLeft(d)
  BY DEF Destroy
<1>3. children[d] \subseteq Drawables
  BY DEF TreeInv, TypeOK
<1>4. /\ mParent'[d] = None
      /\ \A c \in children[d] : mParent'[c] = None
      /\ \A c \in Drawables \ (children[d] \cup {d}) : mParent'[c] = mParent[c]
  BY <1>2, <1>3 DEF ParentLeft
<1>5. children' = [c \in Drawables |-> IF c = d THEN {}
                                       ELSE IF c = mParent[d] THEN children[c] \ {d}
                                       ELSE children[c]]
  BY <1>2 DEF ParentLeft
<1>6. /\ children'[d] = {}
      /\ mParent[d] # None => children'[mParent[d]] = children[mParent[d]] \ {d}
      /\ \A x \in Drawables \ {d, mParent[d]} : children'[x] = children[x]
  BY <1>1, <1>2, <1>5
<1>7. Below(children[d]) \subseteq Drawables
  BY DEF Below
<1>8. /\ \A c \in Below(children[d]) \cup {d} : window'[c] = None
      /\ \A c \in Drawables \ (Below(children[d]) \cup {d}) : window'[c] = window[c]
  <2>1. window' = [c \in Drawables |-> IF c \in Below(children[d]) \cup {d} THEN None ELSE window[c]]
    BY <1>2 DEF ParentLeft
  <2>2. QED
    BY <1>7, <2>1
<1>9. /\ sRegisteredWindows'[Prefix[d]] = None
      /\ \A p \in Prefixes \ {Prefix[d]} : sRegisteredWindows'[p] = sRegisteredWindows[p]
  <2>1. Prefix[d] \in Prefixes
    BY TreeAssumption DEF TreeAssumption
  <2>2. QED
    BY <1>2, <2>1 DEF UnRegister, TreeInv, TypeOK
<1>10. ASSUME NEW p \in Prefixes, NEW c
       PROVE  c \in sRegistrationListeners'[p] <=>
                \/ c \in sRegistrationListeners[p] /\ ~(c = d /\ p = Parent[d])
                \/ c \in children[d] /\ Parent[c] = p
  <2>1. sRegistrationListeners'[p] =
          (IF d \notin Tops /\ mParent[d] = None /\ p = Parent[d]
           THEN sRegistrationListeners[p] \ {d}
           ELSE sRegistrationListeners[p]) \cup {x \in children[d] : Parent[x] = p}
    BY <1>2 DEF UnRegister
  <2>2. d \in sRegistrationListeners[p] => d \notin Tops /\ mParent[d] = None /\ p = Parent[d]
    BY <1>1, TreeAssumption DEF TreeAssumption, Tops
  <2>3. CASE d \in sRegistrationListeners[p]
    BY <2>1, <2>2, <2>3
  <2>4. CASE d \notin sRegistrationListeners[p]
    <3>1. sRegistrationListeners'[p] = sRegistrationListeners[p] \cup {x \in children[d] : Parent[x] = p}
      BY <2>1, <2>4
    <3>2. QED
      BY <2>4, <3>1
  <2>5. QED
    BY <2>3, <2>4
<1>11. QED
  BY <1>2, <1>4, <1>6, <1>8, <1>9, <1>10 DEF Destroyed

LEMMA NoDanglingDestroy ==
  ASSUME TreeInv, NEW d \in Drawables, Destroyed(d)
  PROVE  NoDanglingWindow'
<1>1. /\ alive \subseteq Drawables /\ None \notin Drawables
      /\ \A x \in Drawables : \A c : c \in children[x] <=> c \in alive /\ mParent[c] = x
      /\ \A c \in alive : mParent[c] \in alive \cup {None} /\ mParent[c] # c
      /\ \A p \in Prefixes : \A c :
           c \in sRegistrationListeners[p] <=> c \in alive /\ mParent[c] = None /\ Parent[c] = p
      /\ \A p \in Prefixes : sRegisteredWindows[p] # None =>
           sRegisteredWindows[p] \in alive /\ Prefix[sRegisteredWindows[p]] = p
  BY TreeFacts
<1>2. /\ d \in alive /\ alive' = alive \ {d}
      /\ \A c \in children[d] : mParent'[c] = None
      /\ \A c \in Drawables \ (children[d] \cup {d}) : mParent'[c] = mParent[c]
  BY DEF Destroyed
<1>3. \A c \in alive' : mParent'[c] = IF c \in children[d] THEN None ELSE mParent[c]
  BY <1>1, <1>2
<1>4. ASSUME NEW x \in Drawables
      PROVE  children'[x] = {c \in alive' : mParent'[c] = x}
  <2>1. CASE x = d
    <3>1. children'[x] = {}
      BY <2>1 DEF Destroyed
    <3>2. QED
      BY <2>1, <3>1, <1>1, <1>2, <1>3
  <2>2. CASE x = mParent[d] /\ x # d
    <3>1. children'[x] = children[x] \ {d}
      BY <2>2, <1>1 DEF Destroyed
    <3>2. QED
      BY <2>2, <3>1, <1>1, <1>2, <1>3
  <2>3. CASE x # d /\ x # mParent[d]
    <3>1. children'[x] = children[x]
      BY <2>3 DEF Destroyed
    <3>2. QED
      BY <2>3, <3>1, <1>1, <1>2, <1>3
  <2>4. QED
    BY <2>1, <2>2, <2>3
<1>5. ASSUME NEW c \in alive'
      PROVE  mParent'[c] \in (alive' \ {c}) \cup {None}
  <2>1. mParent[c] = d => c \in children[d]
    BY <1>1, <1>2
  <2>2. QED
    BY <2>1, <1>1, <1>2, <1>3
<1>6. ASSUME NEW p \in Prefixes
      PROVE  sRegistrationListeners'[p] = {c \in alive' : mParent'[c] = None /\ Parent[c] = p}
  <2>1. ASSUME NEW c
        PROVE  c \in sRegistrationListeners'[p] <=> c \in alive' /\ mParent'[c] = None /\ Parent[c] = p
    <3>1. c \in sRegistrationListeners'[p] <=>
                \/ c \in sRegistrationListeners[p] /\ ~(c = d /\ p = Parent[d])
                \/ c \in children[d] /\ Parent[c] = p
      BY DEF Destroyed
    <3>2. CASE c = d
      BY <3>1, <3>2, <1>1, <1>2
    <3>3. CASE c # d /\ c \in children[d]
      BY <3>1, <3>3, <1>1, <1>2, <1>3
    <3>4. CASE c # d /\ c \notin children[d]
      BY <3>1, <3>4, <1>1, <1>2, <1>3
    <3>5. QED
      BY <3>2, <3>3, <3>4
  <2>2. QED
    BY <2>1
<1>7. ASSUME NEW p \in Prefixes, sRegisteredWindows'[p] # None
      PROVE  sRegisteredWindows'[p] \in alive' /\ Prefix[sRegisteredWindows'[p]] = p
  <2>1. p # Prefix[d] /\ sRegisteredWindows'[p] = sRegisteredWindows[p]
    BY <1>7 DEF Destroyed
  <2>2. QED
    BY <1>7, <2>1, <1>1, <1>2
<1>8. QED
  BY <1>4, <1>5, <1>6, <1>7 DEF NoDanglingWindow

LEMMA AttachedDestroy ==
  ASSUME TreeInv, NEW d \in Drawables, Destroyed(d)
  PROVE  TopsHaveNoParent' /\ AttachedIfPossible'
<1>1. Tops' = Tops
  BY DEF Tops
<1>2. /\ alive \subseteq Drawables /\ None \notin Drawables
      /\ \A c : c \in children[d] <=> c \in alive /\ mParent[c] = d
  BY TreeFacts
<1>3. \A c \in Drawables : mParent'[c] = mParent[c] \/ mParent'[c] = None
  BY DEF Destroyed
<1>4. TopsHaveNoParent'
  BY <1>1, <1>3, TopsAreDrawables DEF TreeInv, TopsHaveNoParent
<1>5. ASSUME NEW c \in alive' \ Tops
      PROVE  IF mParent'[c] = None THEN sRegisteredWindows'[Parent[c]] = None
                                   ELSE Prefix[mParent'[c]] = Parent[c]
  <2>1. c \in alive /\ c # d /\ c \in Drawables /\ Parent[c] \in Prefixes
    BY <1>2, TreeAssumption DEF TreeAssumption, Destroyed, Tops
  <2>2. IF mParent[c] = None THEN sRegisteredWindows[Parent[c]] = None
                             ELSE Prefix[mParent[c]] = Parent[c]
    BY <2>1 DEF TreeInv, AttachedIfPossible
  <2>3. CASE c \in children[d]
    <3>1. Prefix[d] = Parent[c] /\ mParent'[c] = None
      BY <1>2, <2>2, <2>3 DEF Destroyed
    <3>2. QED
      BY <3>1 DEF Destroyed
  <2>4. CASE c \notin children[d]
    <3>1. mParent'[c] = mParent[c]
      BY <2>1, <2>4 DEF Destroyed
    <3>2. sRegisteredWindows'[Parent[c]] = None
            \/ sRegisteredWindows'[Parent[c]] = sRegisteredWindows[Parent[c]]
      BY <2>1 DEF Destroyed
    <3>3. QED
      BY <2>2, <3>1, <3>2
  <2>5. QED
    BY <2>3, <2>4
<1>6. QED
  BY <1>1, <1>4, <1>5 DEF AttachedIfPossible

\* A window takes the top-level window away from all that is below it, and from nothing else.
LEMMA OnTheWindowDestroy ==
  ASSUME TreeInv, NEW d \in Drawables, Destroyed(d)
  PROVE  OnTheWindowOfItsParent'
<1> DEFINE told == Below(children[d])
<1>1. Tops' = Tops
  BY DEF Tops
<1>2. /\ alive \subseteq Drawables /\ None \notin Drawables
      /\ \A x \in Drawables : \A c : c \in children[x] <=> c \in alive /\ mParent[c] = x
      /\ \A c \in alive : mParent[c] \in alive \cup {None} /\ mParent[c] # c
  BY TreeFacts
<1>3. /\ d \in alive /\ alive' = alive \ {d}
      /\ \A c \in children[d] : mParent'[c] = None
      /\ \A c \in Drawables \ (children[d] \cup {d}) : mParent'[c] = mParent[c]
      /\ \A c \in told \cup {d} : window'[c] = None
      /\ \A c \in Drawables \ (told \cup {d}) : window'[c] = window[c]
  BY DEF Destroyed
<1>4. children[d] \in SUBSET Drawables /\ children[d] \subseteq told /\ Closed(told)
  BY BelowHoldsRoots, BelowIsClosed DEF TreeInv, TypeOK
<1>5. ASSUME NEW c \in told, c \notin children[d]
      PROVE  mParent[c] \in told
  BY <1>4, <1>5, BelowHasParent DEF TreeInv
<1>6. told \subseteq alive
  <2>1. children[d] \in SUBSET alive
    BY <1>2
  <2>2. QED
    BY <2>1, BelowLives DEF TreeInv
<1> HIDE DEF told
<1>7. ASSUME NEW c \in told
      PROVE  c \notin Tops
  <2>1. mParent[c] # None
    BY <1>2, <1>3, <1>5, <1>6
  <2>2. QED
    BY <2>1 DEF TreeInv, TopsHaveNoParent
<1>8. ASSUME NEW c \in alive'
      PROVE  window'[c] = IF c \in Tops THEN c
                          ELSE IF mParent'[c] = None THEN None ELSE window'[mParent'[c]]
  <2>1. c \in alive /\ c # d /\ c \in Drawables
    BY <1>2, <1>3
  <2>2. CASE c \in children[d]
    <3>1. window'[c] = None /\ mParent'[c] = None /\ c \notin Tops
      BY <2>2, <1>3, <1>4, <1>7
    <3>2. QED
      BY <3>1
  <2>3. CASE c \in told /\ c \notin children[d]
    <3>1. mParent'[c] = mParent[c] /\ mParent[c] \in told /\ mParent[c] # None
      BY <2>1, <2>3, <1>2, <1>3, <1>5, <1>6
    <3>2. window'[c] = None /\ window'[mParent[c]] = None /\ c \notin Tops
      BY <2>3, <3>1, <1>3, <1>7
    <3>3. QED
      BY <3>1, <3>2
  <2>4. CASE c \notin told
    <3>1. window'[c] = window[c] /\ mParent'[c] = mParent[c] /\ c \notin children[d]
      BY <2>1, <2>4, <1>3, <1>4
    <3>2. window[c] = IF c \in Tops THEN c
                      ELSE IF mParent[c] = None THEN None ELSE window[mParent[c]]
      BY <2>1 DEF TreeInv, OnTheWindowOfItsParent
    <3>3. ASSUME mParent[c] # None
          PROVE  window'[mParent[c]] = window[mParent[c]]
      <4>1. mParent[c] \in Drawables /\ c \in children[mParent[c]]
        BY <2>1, <3>3, <1>2
      <4>2. mParent[c] # d /\ mParent[c] \notin told
        BY <2>4, <3>1, <4>1, <1>4 DEF Closed
      <4>3. QED
        BY <4>1, <4>2, <1>3
    <3>4. QED
      BY <3>1, <3>2, <3>3
  <2>5. QED
    BY <2>2, <2>3, <2>4
<1>9. QED
  BY <1>1, <1>8 DEF OnTheWindowOfItsParent

LEMMA TreeInvNext == TreeInv /\ [Next]_vars => TreeInv'
<1> SUFFICES ASSUME TreeInv, [Next]_vars
             PROVE  TreeInv'
  OBVIOUS
<1>1. ASSUME NEW d \in Drawables, Create(d)
      PROVE  TreeInv'
  <2> DEFINE new == NewWindow(d)
  <2> DEFINE waiting == sRegistrationListeners[Prefix[d]]
  <2>1. Created(d, new, waiting)
    BY <1>1, CreateFacts
  <2> HIDE DEF new, waiting
  <2>2. TypeOK'
    BY <1>1, TypeOKCreate DEF TreeInv
  <2>3. QED
    BY <2>1, <2>2, NoDanglingCreate, AttachedCreate, OnTheWindowCreate DEF TreeInv
<1>2. ASSUME NEW d \in Drawables, Destroy(d)
      PROVE  TreeInv'
  <2>1. Destroyed(d)
    BY <1>2, DestroyFacts
  <2>2. TypeOK'
    BY <1>2, TypeOKDestroy DEF TreeInv
  <2>3. QED
    BY <2>1, <2>2, NoDanglingDestroy, AttachedDestroy, OnTheWindowDestroy DEF TreeInv
<1>3. CASE UNCHANGED vars
  BY <1>3 DEF vars, treeVars, registryVars, timerVars, TreeInv, TypeOK, NoDanglingWindow,
              TopsHaveNoParent, AttachedIfPossible, OnTheWindowOfItsParent, Tops
<1>4. QED
  BY <1>1, <1>2, <1>3 DEF Next

LEMMA TreeInvAlways == Spec => []TreeInv
BY TreeInvInit, TreeInvNext, PTL DEF Spec

\* Children, parents, the registry and the waiting list agree, and none of them points at
\* a window that was destroyed (Window::Window, ~Window, WindowRegistrar.cpp).
THEOREM PointersAgree == Spec => []NoDanglingWindow
<1>1. TreeInv => NoDanglingWindow
  BY DEF TreeInv
<1>2. QED
  BY <1>1, TreeInvAlways, PTL

\* A drawable waits only while no window is registered under the name of its parent, and
\* is never attached to a window of another name.  Where two windows share a name, the
\* destruction of one erases the entry of the other (UnRegisterWindow): a window of the
\* name may live while none is registered.
THEOREM WaitsOnlyInVain == Spec => []AttachedIfPossible
<1>1. TreeInv => AttachedIfPossible
  BY DEF TreeInv
<1>2. QED
  BY <1>1, TreeInvAlways, PTL

\* The names no two drawables share.
Unique(p) == \A c, d \in Drawables : Prefix[c] = p /\ Prefix[d] = p => c = d

\* Under such a name a window is registered as long as it lives.
RegisteredByName == \A d \in alive : Unique(Prefix[d]) => sRegisteredWindows[Prefix[d]] = d

LEMMA RegisteredAlways == Spec => []RegisteredByName
<1>1. Init => RegisteredByName
  BY DEF Init, RegisteredByName
<1>2. TreeInv /\ RegisteredByName /\ [Next]_vars => RegisteredByName'
  <2> SUFFICES ASSUME TreeInv, RegisteredByName, [Next]_vars,
                      NEW c \in alive', Unique(Prefix[c])
               PROVE  sRegisteredWindows'[Prefix[c]] = c
    BY DEF RegisteredByName, Unique
  <2>1. alive \subseteq Drawables /\ sRegisteredWindows \in [Prefixes -> Drawables \cup {None}]
    BY DEF TreeInv, TypeOK
  <2>2. ASSUME NEW d \in Drawables, Create(d) PROVE sRegisteredWindows'[Prefix[c]] = c
    <3>1. /\ alive' = alive \cup {d}
          /\ sRegisteredWindows' = [sRegisteredWindows EXCEPT ![Prefix[d]] = d]
      BY <2>2 DEF Create, RegisterWindow
    <3>2. c \in Drawables /\ Prefix[c] \in Prefixes
      BY <2>1, <3>1, TreeAssumption DEF TreeAssumption
    <3> QED
      BY <2>1, <3>1, <3>2 DEF RegisteredByName, Unique
  <2>3. ASSUME NEW d \in Drawables, Destroy(d) PROVE sRegisteredWindows'[Prefix[c]] = c
    <3>1. /\ alive' = alive \ {d}
          /\ sRegisteredWindows' = [sRegisteredWindows EXCEPT ![Prefix[d]] = None]
      BY <2>3 DEF Destroy, UnRegister
    <3>2. c \in Drawables /\ Prefix[c] # Prefix[d]
      BY <2>1, <3>1 DEF Unique
    <3> QED
      BY <2>1, <3>1, <3>2 DEF RegisteredByName
  <2>4. CASE UNCHANGED vars
    BY <2>4 DEF vars, treeVars, registryVars, RegisteredByName
  <2> QED
    BY <2>2, <2>3, <2>4 DEF Next
<1> QED
  BY <1>1, <1>2, TreeInvAlways, PTL DEF Spec

\* Where no two windows share the name a drawable waits for, no window of that name
\* exists, registered or not (FindRegisteredWindow, RegisterWindow, UnRegisterWindow).
THEOREM WaitsForTheMissing ==
  Spec => [](\A c \in alive \ Tops : mParent[c] = None /\ Unique(Parent[c]) =>
               \A d \in alive : Prefix[d] # Parent[c])
<1>1. TreeInv /\ RegisteredByName =>
        \A c \in alive \ Tops : mParent[c] = None /\ Unique(Parent[c]) =>
          \A d \in alive : Prefix[d] # Parent[c]
  <2> SUFFICES ASSUME TreeInv, RegisteredByName, NEW c \in alive \ Tops, mParent[c] = None,
                      Unique(Parent[c]), NEW d \in alive, Prefix[d] = Parent[c]
               PROVE  FALSE
    OBVIOUS
  <2>1. sRegisteredWindows[Parent[c]] = None
    BY DEF TreeInv, AttachedIfPossible
  <2>2. sRegisteredWindows[Prefix[d]] = d
    BY DEF RegisteredByName
  <2>3. d \in Drawables
    BY DEF TreeInv, TypeOK
  <2> QED
    BY <2>1, <2>2, <2>3, TreeAssumption DEF TreeAssumption
<1> QED
  BY <1>1, TreeInvAlways, RegisteredAlways, PTL

\* Every drawable, at any depth, knows the top-level window it is on, and none where there
\* is none (UpdateParentVariables, SetParent, ParentLeft).
THEOREM TopWindowKnown == Spec => []OnTheWindowOfItsParent
<1>1. TreeInv => OnTheWindowOfItsParent
  BY DEF TreeInv
<1>2. QED
  BY <1>1, TreeInvAlways, PTL

----------------------------------------------------------------------------
(* The timers.  What the generator of a top-level window will hand out next  *)
(* calls nobody: neither the ids that were given back, each of them once,    *)
(* nor the ids that were never used.                                         *)

FreeIDs(t) ==
  /\ \A j, k \in DOMAIN mReleasedIDs[t] : mReleasedIDs[t][j] = mReleasedIDs[t][k] => j = k
  /\ \A k \in DOMAIN mReleasedIDs[t] : /\ mReleasedIDs[t][k] < mNextFreshID[t]
                                       /\ timers[t][mReleasedIDs[t][k]] = None
  /\ \A id \in TimerIds : id >= mNextFreshID[t] => timers[t][id] = None

TimerInv ==
  /\ \A t \in Tops : FreeIDs(t)
  /\ ClocksRun

\* A drawable that is on a top-level window lies below it.
LEMMA OnlyBelow ==
  ASSUME TreeInv, NEW d \in alive, NEW c \in alive, window[c] = d
  PROVE  c \in Below(children[d]) \cup {d}
<1> USE TreeAssumption DEF TreeAssumption
<1> DEFINE told == Below(children[d])
<1>1. PICK depth \in [Prefixes -> 0..Cardinality(Prefixes)] :
        \A x \in Drawables : Parent[x] # Screen => depth[Parent[x]] < depth[Prefix[x]]
  OBVIOUS
<1>2. /\ alive \subseteq Drawables /\ None \notin Drawables
      /\ \A x \in Drawables : \A y : y \in children[x] <=> y \in alive /\ mParent[y] = x
      /\ \A y \in alive : mParent[y] \in alive \cup {None}
  BY TreeFacts
<1>3. children[d] \subseteq told /\ told \in SUBSET Drawables /\ Closed(told)
  <2>1. children[d] \in SUBSET Drawables /\ children \in [Drawables -> SUBSET Drawables]
    BY <1>2 DEF TreeInv, TypeOK
  <2>2. QED
    BY <2>1, BelowHoldsRoots, BelowIsClosed
<1> HIDE DEF told
<1> DEFINE off == {x \in alive : window[x] = d /\ x \notin told \cup {d}}
           D == {depth[Prefix[x]] : x \in off}
           less == OpToRel(<, Nat)
<1>4. SUFFICES ASSUME off # {} PROVE FALSE
  BY DEF told
<1>5. \A x \in Drawables : depth[Prefix[x]] \in Nat
  <2>1. \A p \in Prefixes : depth[p] \in Int /\ depth[p] >= 0
    <3>1. \A p \in Prefixes : depth[p] \in 0..Cardinality(Prefixes)
      BY <1>1
    <3>2. QED
      BY <3>1
  <2>2. QED
    BY <2>1
<1>6. D \subseteq Nat /\ D # {}
  BY <1>2, <1>4, <1>5
<1>7. \A p, q \in Nat : <<p, q>> \in less <=> p < q
  BY DEF OpToRel
<1>8. IsWellFoundedOn(less, Nat)
  BY NatLessThanWellFounded DEF OpToRel
<1> HIDE DEF less, D
<1>9. PICK n \in D : \A m \in D : ~(<<m, n>> \in less)
  BY <1>6, <1>8, WFMin
<1>10. PICK x \in off : n = depth[Prefix[x]]
  BY DEF D
<1>11. \A y \in off : ~(depth[Prefix[y]] < depth[Prefix[x]])
  <2> SUFFICES ASSUME NEW y \in off PROVE ~(depth[Prefix[y]] < depth[Prefix[x]])
    OBVIOUS
  <2>1. depth[Prefix[y]] \in D /\ depth[Prefix[y]] \in Nat /\ n \in Nat
    BY <1>6 DEF D
  <2>2. QED
    BY <1>7, <1>9, <1>10, <2>1
<1>12. x \in alive /\ x \in Drawables /\ window[x] = d /\ d # None
  BY <1>2
<1>13. x \notin Tops /\ mParent[x] # None /\ window[mParent[x]] = d
  <2>1. window[x] = IF x \in Tops THEN x ELSE IF mParent[x] = None THEN None ELSE window[mParent[x]]
    BY <1>12 DEF TreeInv, OnTheWindowOfItsParent
  <2>2. QED
    BY <1>12, <2>1
<1> DEFINE p == mParent[x]
<1>14. p \in alive /\ p \in Drawables /\ x \in children[p]
  BY <1>2, <1>12, <1>13
<1>15. Prefix[p] = Parent[x] /\ Parent[x] # Screen
  BY <1>12, <1>13 DEF TreeInv, AttachedIfPossible, Tops
<1>16. depth[Prefix[p]] < depth[Prefix[x]]
  BY <1>1, <1>12, <1>15
<1>17. p \in told \cup {d}
  BY <1>11, <1>13, <1>14, <1>16
<1>18. x \in told
  BY <1>3, <1>14, <1>17 DEF Closed
<1>19. QED
  BY <1>18

\* What GetNewID hands out calls nobody and is handed out once; what it keeps for later
\* is still free.
LEMMA NewIDsAreFree ==
  ASSUME TypeOK, NEW top \in Tops, FreeIDs(top), NEW n \in Nat, NEW new, new = GetNewIDs(top, n),
         new.next <= MaxTimers + 1
  PROVE  /\ \A k \in 1..n : /\ new.ids[k] \in TimerIds /\ new.ids[k] < new.next
                            /\ timers[top][new.ids[k]] = None
         /\ \A j, k \in 1..n : new.ids[j] = new.ids[k] => j = k
         /\ \A j, k \in DOMAIN new.released : new.released[j] = new.released[k] => j = k
         /\ \A k \in DOMAIN new.released : /\ new.released[k] < new.next
                                           /\ new.released[k] \in TimerIds
                                           /\ timers[top][new.released[k]] = None
                                           /\ \A j \in 1..n : new.ids[j] # new.released[k]
         /\ mNextFreshID[top] <= new.next /\ new.next \in Nat
<1> USE TreeAssumption DEF TreeAssumption
<1> DEFINE q == mReleasedIDs[top]
           m == Len(q)
           r == IF n <= m THEN n ELSE m
           f == mNextFreshID[top]
           row == timers[top]
<1>1. /\ new.next = f + n - r
      /\ new.released = SubSeq(q, r + 1, m)
      /\ \A k \in 1..n : new.ids[k] = IF k <= r THEN q[k] ELSE f + k - r - 1
  BY DEF GetNewIDs
<1>2. /\ q \in Seq(TimerIds) /\ m \in Nat /\ DOMAIN q = 1..m
      /\ f \in Nat /\ f >= 1 /\ MaxTimers \in Nat /\ TimerIds = 1..MaxTimers
  BY DEF TypeOK, TimerIds
<1>3. /\ \A j, k \in 1..m : q[j] = q[k] => j = k
      /\ \A k \in 1..m : q[k] < f /\ row[q[k]] = None
      /\ \A id \in TimerIds : id >= f => row[id] = None
  BY <1>2 DEF FreeIDs
<1>4. r \in Nat /\ r <= n /\ r <= m /\ (r = n \/ r = m)
  BY <1>2
<1>5. \A k \in 1..m : q[k] \in TimerIds /\ q[k] \in Nat
  BY <1>2
<1> HIDE DEF q, m, r, f, row
<1>6. /\ DOMAIN new.released = 1..(m - r)
      /\ \A k \in 1..(m - r) : k + r \in 1..m /\ new.released[k] = q[k + r]
  <2>1. SubSeq(q, r + 1, m) = [k \in 1..(m - r) |-> q[k + r]]
    BY <1>2, <1>4
  <2>2. QED
    BY <1>1, <1>2, <1>4, <2>1
<1>7. ASSUME NEW k \in 1..n
      PROVE  \/ k <= r /\ k \in 1..m /\ new.ids[k] = q[k]
             \/ /\ ~(k <= r) /\ new.ids[k] = f + k - r - 1
                /\ new.ids[k] \in TimerIds /\ new.ids[k] >= f /\ new.ids[k] < new.next
  BY <1>1, <1>2, <1>4
<1>8. f <= new.next /\ new.next \in Nat
  BY <1>1, <1>2, <1>4
<1>9. ASSUME NEW k \in 1..n
      PROVE  /\ new.ids[k] \in TimerIds /\ new.ids[k] < new.next
             /\ row[new.ids[k]] = None
  <2>1. CASE k <= r
    <3>1. k \in 1..m /\ new.ids[k] = q[k]
      BY <1>7, <2>1
    <3>2. q[k] < f /\ q[k] \in TimerIds /\ q[k] \in Nat /\ row[q[k]] = None
      BY <1>3, <1>5, <3>1
    <3>3. QED
      BY <1>2, <1>8, <3>1, <3>2
  <2>2. CASE ~(k <= r)
    BY <1>3, <1>7, <2>2
  <2>3. QED
    BY <2>1, <2>2
<1>10. ASSUME NEW j \in 1..n, NEW k \in 1..n, new.ids[j] = new.ids[k]
       PROVE  j = k
  <2>1. CASE j <= r /\ k <= r
    BY <1>3, <1>7, <1>10, <2>1
  <2>2. CASE ~(j <= r) /\ ~(k <= r)
    <3>1. f + j - r - 1 = f + k - r - 1
      BY <1>7, <1>10, <2>2
    <3>2. QED
      BY <1>2, <1>4, <3>1
  <2>3. CASE (j <= r /\ ~(k <= r)) \/ (~(j <= r) /\ k <= r)
    <3>1. \A i \in 1..n : i <= r => new.ids[i] < f /\ new.ids[i] \in Nat
      BY <1>3, <1>5, <1>7
    <3>2. \A i \in 1..n : ~(i <= r) => new.ids[i] >= f
      BY <1>7
    <3>3. QED
      BY <1>2, <1>10, <2>3, <3>1, <3>2
  <2>4. QED
    BY <2>1, <2>2, <2>3
<1>11. ASSUME NEW k \in 1..(m - r)
       PROVE  /\ new.released[k] < new.next /\ new.released[k] \in TimerIds
              /\ row[new.released[k]] = None
              /\ \A j \in 1..n : new.ids[j] # new.released[k]
  <2>1. k + r \in 1..m /\ new.released[k] = q[k + r]
    BY <1>6
  <2>2. q[k + r] < f /\ q[k + r] \in TimerIds /\ q[k + r] \in Nat /\ row[q[k + r]] = None
    BY <1>3, <1>5, <2>1
  <2>3. ASSUME NEW j \in 1..n PROVE new.ids[j] # q[k + r]
    <3>1. CASE j <= r
      <4>1. j \in 1..m /\ new.ids[j] = q[j] /\ j # k + r
        BY <1>4, <1>7, <3>1
      <4>2. QED
        BY <1>3, <2>1, <4>1
    <3>2. CASE ~(j <= r)
      <4>1. new.ids[j] >= f
        BY <1>7, <3>2
      <4>2. QED
        BY <1>2, <2>2, <4>1
    <3>3. QED
      BY <3>1, <3>2
  <2>4. QED
    BY <1>2, <1>8, <2>1, <2>2, <2>3
<1>12. ASSUME NEW j \in 1..(m - r), NEW k \in 1..(m - r), new.released[j] = new.released[k]
       PROVE  j = k
  <2>1. j + r \in 1..m /\ k + r \in 1..m /\ q[j + r] = q[k + r]
    BY <1>6, <1>12
  <2>2. j + r = k + r
    BY <1>3, <2>1
  <2>3. QED
    BY <1>4, <2>2
<1>13. /\ \A k \in DOMAIN new.released :
                       /\ new.released[k] < new.next /\ new.released[k] \in TimerIds
                       /\ row[new.released[k]] = None
                       /\ \A j \in 1..n : new.ids[j] # new.released[k]
       /\ \A j, k \in DOMAIN new.released : new.released[j] = new.released[k] => j = k
  BY <1>6, <1>11, <1>12
<1>14. QED
  BY <1>8, <1>9, <1>10, <1>13 DEF f, row

\* Setting timers gives each clock that asks one of its own and takes none away.
LEMMA TimersSet ==
  ASSUME TypeOK, \A t \in Tops : FreeIDs(t), NEW top \in Tops, NEW asking \in SUBSET Clocks, NEW last,
         SetCallbackTimers(top, asking, last)
  PROVE  /\ \A t \in Tops : FreeIDs(t)'
         /\ \A c \in Clocks \ asking : mUpdateTimer'[c] = mUpdateTimer[c]
         /\ \A c \in asking : mUpdateTimer'[c] # 0 /\ timers'[top][mUpdateTimer'[c]] = c
         /\ \A t \in Tops : \A id \in TimerIds : timers[t][id] # None => timers'[t][id] = timers[t][id]
<1> USE TreeAssumption DEF TreeAssumption
<1> DEFINE n == Cardinality(asking)
           new == GetNewIDs(top, n)
<1>1. n \in Nat /\ top # None /\ asking \subseteq Drawables
  BY FS_Subset, FS_CardinalityType DEF Tops
<1>2. /\ new.next <= MaxTimers + 1
      /\ mNextFreshID' = [mNextFreshID EXCEPT ![top] = new.next]
      /\ mReleasedIDs' = [mReleasedIDs EXCEPT ![top] = new.released]
  BY <1>1 DEF SetCallbackTimers
<1>3. PICK rank \in Bijection(asking, 1..n) :
        /\ mUpdateTimer' = [c \in Clocks |-> IF c \in asking THEN new.ids[rank[c]]
                                                             ELSE mUpdateTimer[c]]
        /\ timers' = [timers EXCEPT ![top] =
             [id \in TimerIds |->
                IF timers[top][id] = None /\ \E c \in asking : new.ids[rank[c]] = id
                THEN CHOOSE c \in asking : new.ids[rank[c]] = id
                ELSE timers[top][id]]]
  BY <1>1 DEF SetCallbackTimers
<1>4. rank \in [asking -> 1..n] /\ \A b, c \in asking : rank[b] = rank[c] => b = c
  BY DEF Bijection, Injection, Surjection, IsInjective
<1>5. /\ \A k \in 1..n : /\ new.ids[k] \in TimerIds /\ new.ids[k] < new.next
                         /\ timers[top][new.ids[k]] = None
      /\ \A j, k \in 1..n : new.ids[j] = new.ids[k] => j = k
      /\ \A j, k \in DOMAIN new.released : new.released[j] = new.released[k] => j = k
      /\ \A k \in DOMAIN new.released : /\ new.released[k] < new.next
                                        /\ new.released[k] \in TimerIds
                                        /\ timers[top][new.released[k]] = None
                                        /\ \A j \in 1..n : new.ids[j] # new.released[k]
      /\ mNextFreshID[top] <= new.next /\ new.next \in Nat
  BY <1>1, <1>2, NewIDsAreFree
<1> HIDE DEF n, new
<1>6. timers \in [Tops -> [TimerIds -> Drawables \cup {None}]] /\ mNextFreshID[top] \in Nat
  BY DEF TypeOK
<1>7. /\ \A t \in Tops \ {top} : timers'[t] = timers[t]
      /\ \A id \in TimerIds :
           timers'[top][id] = IF timers[top][id] = None /\ \E c \in asking : new.ids[rank[c]] = id
                              THEN CHOOSE c \in asking : new.ids[rank[c]] = id
                              ELSE timers[top][id]
  BY <1>3, <1>6
<1>8. \A b, c \in asking : new.ids[rank[b]] = new.ids[rank[c]] => b = c
  BY <1>4, <1>5
<1>9. ASSUME NEW c \in asking
      PROVE  mUpdateTimer'[c] # 0 /\ timers'[top][mUpdateTimer'[c]] = c
  <2> DEFINE id == new.ids[rank[c]]
  <2>1. mUpdateTimer'[c] = id
    BY <1>3
  <2>2. id \in TimerIds /\ timers[top][id] = None /\ id # 0
    BY <1>4, <1>5 DEF TimerIds
  <2>3. timers'[top][id] = CHOOSE b \in asking : new.ids[rank[b]] = id
    BY <1>7, <2>2
  <2>4. (CHOOSE b \in asking : new.ids[rank[b]] = id) = c
    BY <1>8
  <2>5. QED
    BY <2>1, <2>2, <2>3, <2>4
<1>10. ASSUME NEW t \in Tops, NEW id \in TimerIds, timers[t][id] # None
       PROVE  timers'[t][id] = timers[t][id]
  BY <1>7, <1>10
<1>11. ASSUME NEW t \in Tops
       PROVE  FreeIDs(t)'
  <2>1. CASE t # top
    <3>1. timers'[t] = timers[t] /\ mNextFreshID'[t] = mNextFreshID[t] /\ mReleasedIDs'[t] = mReleasedIDs[t]
      BY <1>2, <1>7, <2>1 DEF TypeOK
    <3>2. QED
      BY <3>1 DEF FreeIDs
  <2>2. CASE t = top
    <3>1. mNextFreshID'[t] = new.next /\ mReleasedIDs'[t] = new.released
      BY <1>2, <2>2 DEF TypeOK
    <3>2. \A k \in DOMAIN new.released : timers'[top][new.released[k]] = None
      <4> SUFFICES ASSUME NEW k \in DOMAIN new.released PROVE timers'[top][new.released[k]] = None
        OBVIOUS
      <4>1. ~ \E c \in asking : new.ids[rank[c]] = new.released[k]
        BY <1>4, <1>5
      <4>2. new.released[k] \in TimerIds /\ timers[top][new.released[k]] = None
        BY <1>5
      <4>3. QED
        BY <1>7, <4>1, <4>2
    <3>3. ASSUME NEW id \in TimerIds, id >= new.next
          PROVE  timers'[top][id] = None
      <4>1. ~ \E c \in asking : new.ids[rank[c]] = id
        <5>1. \A k \in 1..n : new.ids[k] < id
          <6>1. id \in Nat /\ \A k \in 1..n : new.ids[k] \in Nat
            BY <1>5 DEF TimerIds
          <6>2. QED
            BY <1>5, <3>3, <6>1
        <5>2. \A k \in 1..n : new.ids[k] # id
          <6>1. id \in Nat
            BY DEF TimerIds
          <6>2. QED
            BY <5>1, <6>1
        <5>3. QED
          BY <1>4, <5>2
      <4>2. timers[top][id] = None
        <5>1. id \in Nat
          BY DEF TimerIds
        <5>2. id >= mNextFreshID[top]
          BY <1>5, <1>6, <3>3, <5>1
        <5>3. QED
          BY <5>2 DEF FreeIDs
      <4>3. QED
        BY <1>7, <4>1, <4>2
    <3>4. QED
      BY <1>5, <2>2, <3>1, <3>2, <3>3 DEF FreeIDs
  <2>3. QED
    BY <2>1, <2>2
<1>12. QED
  BY <1>3, <1>9, <1>10, <1>11

LEMMA TimersCreate ==
  ASSUME TreeInv, TimerInv, NEW d \in Drawables, Create(d)
  PROVE  TimerInv'
<1> USE TreeAssumption DEF TreeAssumption
<1> DEFINE new == NewWindow(d)
           waiting == sRegistrationListeners[Prefix[d]]
           told == Below(waiting)
           asking == (told \cup {d}) \cap Clocks
<1>1. Created(d, new, waiting)
  BY CreateFacts
<1>2. new.window \in Tops \cup {None}
  BY NewWindowType DEF TreeInv
<1>3. SetCallbackTimers(new.window, asking, {d}) /\ asking \subseteq Clocks
  BY DEF Create
<1> HIDE DEF new, waiting
<1>4. /\ alive' = alive \cup {d} /\ told \subseteq alive
      /\ \A c \in told \cup {d} : window'[c] = new.window
      /\ \A c \in Drawables \ (told \cup {d}) : window'[c] = window[c]
  BY <1>1 DEF Created
<1> HIDE DEF told
<1>5. TypeOK /\ Tops' = Tops /\ TimerIds' = TimerIds /\ None \notin Drawables
  BY DEF TreeInv, Tops, TimerIds
<1>6. \A t \in Tops : FreeIDs(t)
  BY DEF TimerInv
<1> HIDE DEF asking
<1>7. CASE new.window = None
  <2>1. /\ mUpdateTimer' = [c \in Clocks |-> IF c \in asking THEN 0 ELSE mUpdateTimer[c]]
        /\ UNCHANGED <<mNextFreshID, mReleasedIDs, timers>>
    BY <1>3, <1>7 DEF SetCallbackTimers
  <2>2. \A t \in Tops : FreeIDs(t)'
    BY <1>6, <2>1 DEF FreeIDs
  <2>3. ASSUME NEW c \in Clocks, c \in alive'
        PROVE  /\ mUpdateTimer'[c] # 0 <=> window'[c] # None
               /\ mUpdateTimer'[c] # 0 => timers'[window'[c]][mUpdateTimer'[c]] = c
    <3>1. CASE c \in told \cup {d}
      <4>1. mUpdateTimer'[c] = 0 /\ window'[c] = None
        BY <1>4, <1>7, <2>1, <2>3, <3>1 DEF asking
      <4>2. QED
        BY <4>1
    <3>2. CASE c \notin told \cup {d}
      <4>1. mUpdateTimer'[c] = mUpdateTimer[c] /\ window'[c] = window[c] /\ c \in alive
        BY <1>4, <2>1, <2>3, <3>2 DEF asking
      <4>2. QED
        BY <2>1, <4>1 DEF TimerInv, ClocksRun
    <3>3. QED
      BY <3>1, <3>2
  <2>4. QED
    BY <1>5, <2>2, <2>3 DEF TimerInv, ClocksRun
<1>8. CASE new.window # None
  <2>1. new.window \in Tops
    BY <1>2, <1>8
  <2>2. /\ \A t \in Tops : FreeIDs(t)'
        /\ \A c \in Clocks \ asking : mUpdateTimer'[c] = mUpdateTimer[c]
        /\ \A c \in asking : mUpdateTimer'[c] # 0 /\ timers'[new.window][mUpdateTimer'[c]] = c
        /\ \A t \in Tops : \A id \in TimerIds : timers[t][id] # None => timers'[t][id] = timers[t][id]
    BY <1>3, <1>5, <1>6, <2>1, TimersSet
  <2>3. ASSUME NEW c \in Clocks, c \in alive'
        PROVE  /\ mUpdateTimer'[c] # 0 <=> window'[c] # None
               /\ mUpdateTimer'[c] # 0 => timers'[window'[c]][mUpdateTimer'[c]] = c
    <3>1. CASE c \in told \cup {d}
      <4>1. c \in asking /\ window'[c] = new.window
        BY <1>4, <3>1 DEF asking
      <4>2. QED
        BY <1>8, <2>2, <4>1
    <3>2. CASE c \notin told \cup {d}
      <4>1. mUpdateTimer'[c] = mUpdateTimer[c] /\ window'[c] = window[c] /\ c \in alive /\ c \in Drawables
        BY <1>4, <2>2, <2>3, <3>2 DEF asking
      <4>2. /\ mUpdateTimer[c] # 0 <=> window[c] # None
            /\ mUpdateTimer[c] # 0 => timers[window[c]][mUpdateTimer[c]] = c
        BY <4>1 DEF TimerInv, ClocksRun
      <4>3. ASSUME mUpdateTimer[c] # 0
            PROVE  timers'[window[c]][mUpdateTimer[c]] = c
        <5>1. window[c] \in Tops /\ mUpdateTimer[c] \in TimerIds /\ c # None
          BY <1>5, <4>1, <4>2, <4>3 DEF TypeOK
        <5>2. timers[window[c]][mUpdateTimer[c]] = c
          BY <4>2, <4>3
        <5>3. QED
          BY <2>2, <5>1, <5>2
      <4>4. QED
        BY <4>1, <4>2, <4>3
    <3>3. QED
      BY <3>1, <3>2
  <2>4. QED
    BY <1>5, <2>2, <2>3 DEF TimerInv, ClocksRun
<1>9. QED
  BY <1>7, <1>8

LEMMA TimersDestroy ==
  ASSUME TreeInv, TimerInv, NEW d \in Drawables, Destroy(d)
  PROVE  TimerInv'
<1> USE TreeAssumption DEF TreeAssumption
<1> DEFINE told == Below(children[d]) \cup {d}
           timer == IF d \in Clocks THEN mUpdateTimer[d] ELSE 0
           top == window[d]
<1>1. /\ d \in alive /\ alive' = alive \ {d}
      /\ \A c \in told : window'[c] = None
      /\ \A c \in Drawables \ told : window'[c] = window[c]
  BY DestroyFacts DEF Destroyed
<1>2. \A c \in Clocks : mUpdateTimer'[c] = IF c \in told THEN 0 ELSE mUpdateTimer[c]
  BY DEF Destroy, ParentLeft
<1>3. \A c \in alive : window[c] = d => c \in told
  BY <1>1, OnlyBelow
<1> HIDE DEF told
<1>4. ASSUME NEW t \in Tops
      PROVE  /\ mNextFreshID'[t] = IF t = d THEN 1 ELSE mNextFreshID[t]
             /\ t = d => mReleasedIDs'[t] = <<>> /\ timers'[t] = NoTimers
             /\ t # d /\ t = top /\ timer # 0 =>
                  /\ mReleasedIDs'[t] = Append(mReleasedIDs[t], timer)
                  /\ timers'[t] = [timers[t] EXCEPT ![timer] = None]
             /\ t # d /\ ~(t = top /\ timer # 0) =>
                  mReleasedIDs'[t] = mReleasedIDs[t] /\ timers'[t] = timers[t]
  BY DEF Destroy, ClearCallbackTimers
<1>5. TypeOK /\ Tops' = Tops /\ TimerIds' = TimerIds /\ None \notin Drawables
  BY DEF TreeInv, Tops, TimerIds
<1>6. timer # 0 => timer \in TimerIds /\ top \in Tops /\ timers[top][timer] = d
  <2> SUFFICES ASSUME timer # 0 PROVE timer \in TimerIds /\ top \in Tops /\ timers[top][timer] = d
    OBVIOUS
  <2>1. d \in Clocks /\ timer = mUpdateTimer[d] /\ timer \in TimerIds
    BY <1>5 DEF TypeOK
  <2>2. window[d] # None /\ timers[top][timer] = d
    BY <1>1, <2>1 DEF TimerInv, ClocksRun
  <2>3. top \in Tops
    BY <1>5, <2>2 DEF TypeOK
  <2>4. QED
    BY <2>1, <2>2, <2>3
<1> HIDE DEF timer, top
<1>7. ASSUME NEW t \in Tops
      PROVE  FreeIDs(t)'
  <2>1. FreeIDs(t)
    BY DEF TimerInv
  <2>2. CASE t = d
    <3>1. mReleasedIDs'[t] = <<>> /\ \A id \in TimerIds : timers'[t][id] = None
      BY <1>4, <2>2 DEF NoTimers
    <3>2. QED
      BY <3>1 DEF FreeIDs, TimerIds
  <2>3. CASE t # d /\ ~(t = top /\ timer # 0)
    BY <1>4, <2>1, <2>3 DEF FreeIDs
  <2>4. CASE t # d /\ t = top /\ timer # 0
    <3> DEFINE q == mReleasedIDs[t]
               new == mReleasedIDs'[t]
               row == timers'[t]
               f == mNextFreshID[t]
    <3>1. /\ q \in Seq(TimerIds) /\ timers[t] \in [TimerIds -> Drawables \cup {None}]
          /\ f \in Nat /\ timer \in TimerIds /\ timers[t][timer] = d /\ d # None
          /\ TimerIds \subseteq Nat
      BY <1>5, <1>6, <2>4 DEF TypeOK, TimerIds
    <3>2. /\ new = Append(q, timer)
          /\ row = [timers[t] EXCEPT ![timer] = None]
          /\ mNextFreshID'[t] = f
      BY <1>4, <2>4
    <3>3. /\ Len(q) \in Nat /\ DOMAIN q = 1..Len(q) /\ DOMAIN new = 1..(Len(q) + 1)
          /\ new[Len(q) + 1] = timer
          /\ \A k \in 1..Len(q) : new[k] = q[k] /\ q[k] \in TimerIds
      BY <3>1, <3>2
    <3>4. /\ \A j, k \in 1..Len(q) : q[j] = q[k] => j = k
          /\ \A k \in 1..Len(q) : q[k] < f /\ timers[t][q[k]] = None
          /\ \A id \in TimerIds : id >= f => timers[t][id] = None
      BY <2>1, <3>3 DEF FreeIDs
    <3>5. timer < f
      BY <3>1, <3>4
    <3>6. /\ row[timer] = None
          /\ \A id \in TimerIds : timers[t][id] = None => row[id] = None
      BY <3>1, <3>2
    <3> HIDE DEF q, new, row, f
    <3>7. ASSUME NEW j \in DOMAIN new, NEW k \in DOMAIN new, new[j] = new[k]
          PROVE  j = k
      <4>1. \A i \in 1..Len(q) : new[i] # timer
        BY <3>1, <3>3, <3>4
      <4>2. QED
        BY <3>3, <3>4, <3>7, <4>1
    <3>8. ASSUME NEW k \in DOMAIN new
          PROVE  new[k] < f /\ row[new[k]] = None
      <4>1. CASE k = Len(q) + 1
        BY <3>3, <3>5, <3>6, <4>1
      <4>2. CASE k # Len(q) + 1
        <5>1. k \in 1..Len(q)
          BY <3>3, <4>2
        <5>2. QED
          BY <3>3, <3>4, <3>6, <5>1
      <4>3. QED
        BY <4>1, <4>2
    <3>9. \A id \in TimerIds : id >= f => row[id] = None
      BY <3>4, <3>6
    <3>10. QED
      BY <3>2, <3>7, <3>8, <3>9 DEF FreeIDs, TimerIds, q, new, row, f
  <2>5. QED
    BY <2>2, <2>3, <2>4
<1>8. ASSUME NEW c \in Clocks, c \in alive'
      PROVE  /\ mUpdateTimer'[c] # 0 <=> window'[c] # None
             /\ mUpdateTimer'[c] # 0 => timers'[window'[c]][mUpdateTimer'[c]] = c
  <2>1. CASE c \in told
    <3>1. mUpdateTimer'[c] = 0 /\ window'[c] = None
      BY <1>1, <1>2, <2>1
    <3>2. QED
      BY <3>1
  <2>2. CASE c \notin told
    <3>1. /\ mUpdateTimer'[c] = mUpdateTimer[c] /\ window'[c] = window[c]
          /\ c \in alive /\ c # d /\ c \in Drawables
      BY <1>1, <1>2, <1>8, <2>2
    <3>2. /\ mUpdateTimer[c] # 0 <=> window[c] # None
          /\ mUpdateTimer[c] # 0 => timers[window[c]][mUpdateTimer[c]] = c
      BY <3>1 DEF TimerInv, ClocksRun
    <3>3. ASSUME mUpdateTimer[c] # 0
          PROVE  timers'[window[c]][mUpdateTimer[c]] = c
      <4> DEFINE t == window[c]
                 id == mUpdateTimer[c]
      <4>1. t \in Tops /\ id \in TimerIds /\ timers[t][id] = c /\ c # None
        BY <1>5, <3>1, <3>2, <3>3 DEF TypeOK
      <4>2. t # d
        BY <1>3, <2>2, <3>1
      <4>3. CASE t = top /\ timer # 0
        <5>1. timers'[t] = [timers[t] EXCEPT ![timer] = None] /\ timer # id
          BY <1>4, <1>6, <3>1, <4>1, <4>2, <4>3
        <5>2. timers[t] \in [TimerIds -> Drawables \cup {None}]
          BY <1>5, <4>1 DEF TypeOK
        <5>3. QED
          BY <4>1, <5>1, <5>2
      <4>4. CASE ~(t = top /\ timer # 0)
        BY <1>4, <4>1, <4>2, <4>4
      <4>5. QED
        BY <4>3, <4>4
    <3>4. QED
      BY <3>1, <3>2, <3>3
  <2>3. QED
    BY <2>1, <2>2
<1>9. QED
  BY <1>5, <1>7, <1>8 DEF TimerInv, ClocksRun

LEMMA TimerInvAlways == Spec => []TimerInv
<1>1. Init => TimerInv
  <2> SUFFICES ASSUME Init PROVE TimerInv
    OBVIOUS
  <2>1. \A t \in Tops : FreeIDs(t)
    BY DEF Init, FreeIDs, NoTimers, TimerIds
  <2>2. ClocksRun
    BY DEF Init, ClocksRun
  <2>3. QED
    BY <2>1, <2>2 DEF TimerInv
<1>2. TreeInv /\ TimerInv /\ [Next]_vars => TimerInv'
  <2> SUFFICES ASSUME TreeInv, TimerInv, [Next]_vars PROVE TimerInv'
    OBVIOUS
  <2>1. CASE UNCHANGED vars
    BY <2>1 DEF vars, treeVars, timerVars, TimerInv, FreeIDs, ClocksRun, Tops, TimerIds
  <2>2. QED
    BY <2>1, TimersCreate, TimersDestroy DEF Next
<1>3. QED
  BY <1>1, <1>2, TreeInvAlways, PTL DEF Spec

\* A clock has a timer exactly while it is on a top-level window, the timer calls it, and
\* so no two clocks share one: whatever parents are lost and found, a released id is
\* handed out once, and no announcement of a new top-level window leaves a timer of the
\* window before behind (SetCallbackTimer, ClearCallbackTimer, UIDGenerator, Clock.cpp).
THEOREM EveryClockRuns == Spec => []ClocksRun
<1>1. TimerInv => ClocksRun
  BY DEF TimerInv
<1>2. QED
  BY <1>1, TimerInvAlways, PTL
=============================================================================
