------------------------------ MODULE Painting -------------------------------
(***************************************************************************)
(* How a taskbar and its buttons look: the states of the buttons           *)
(* (src/nShared/StateRender.hpp with the table of                          *)
(* src/nTasks/ButtonSettings.cpp), and the device resources with which     *)
(* they are painted (DiscardDeviceResources and ReCreateDeviceResources of *)
(* StateRender.hpp and src/nShared/Window.cpp).                            *)
(*                                                                         *)
(* All buttons of a taskbar share one StateRender.  Each has its own set   *)
(* of active states and is painted in the highest one of them.  A state    *)
(* with dependencies is active when all of them are.                       *)
(*                                                                         *)
(* The brushes of the StateRender are made for the render target of the    *)
(* taskbar's top-level window and shared as well.  mDeviceRefCount is      *)
(* meant to count the windows that use them.  The taskbar has a Parent     *)
(* setting: it can lose its top-level window and get another one.          *)
(***************************************************************************)
EXTENDS Integers, Sequences, SequencesExt, FiniteSets

CONSTANTS
  Buttons,   \* the buttons a taskbar can have
  MaxDebt    \* bound: how far mDeviceRefCount may fall below zero

\* The top-level window the taskbar is on, among the holders of targets.
Top == "top-level"

ASSUME PaintingAssumption == MaxDebt \in Nat /\ Top \notin Buttons

VARIABLES
  buttons,           \* the buttons that exist
  activeStates,      \* button -> the states that are active
  currentState,      \* button -> the state it is painted in
  onTopLevel,        \* whether the taskbar is on a top-level window
  mRenderTarget,     \* the buttons, and perhaps Top, that have a render target
  mDeviceRefCount,   \* of the buttons' StateRender
  brushes            \* its brushes: "none", or of the "present" or a "past" target

stateVars  == <<activeStates, currentState>>
deviceVars == <<onTopLevel, mRenderTarget, mDeviceRefCount, brushes>>
paintVars  == <<buttons, stateVars, deviceVars>>

----------------------------------------------------------------------------
(* The states of a task button.                                            *)

\* In the order of the enumeration: later ones go before earlier ones.
ButtonStates == <<"Base", "Minimized", "Flashing", "MinimizedFlashing", "Active", "Hover",
                  "MinimizedHover", "ActiveHover", "FlashingHover", "MinimizedFlashingHover">>

States == Range(ButtonStates)

Rank(s) == CHOOSE i \in DOMAIN ButtonStates : ButtonStates[i] = s

Dependencies(s) ==
  CASE s = "ActiveHover"            -> {"Active", "Hover"}
    [] s = "FlashingHover"          -> {"Flashing", "Hover"}
    [] s = "MinimizedFlashing"      -> {"Flashing", "Minimized"}
    [] s = "MinimizedHover"         -> {"Minimized", "Hover"}
    [] s = "MinimizedFlashingHover" -> {"MinimizedFlashing", "MinimizedHover"}
    [] OTHER                        -> {}

\* Load: mDependentStates, whose lists are in the order of the enumeration.
Dependents(s) == {d \in States : s \in Dependencies(d)}

Look == [active : SUBSET States, current : States]

\* StateRender::ActivateState, which calls itself for the dependent states.
ActivateState(state, look) ==
  LET Activate[s \in States] == [l \in Look |->
        IF s \in l.active THEN l
        ELSE LET done == FoldLeft(
                   LAMBDA m, d : IF d \in Dependents(s) /\ Dependencies(d) \subseteq m.active
                                   THEN Activate[d][m] ELSE m,
                   [l EXCEPT !.active = @ \cup {s}], ButtonStates)
             IN  [done EXCEPT !.current = IF Rank(@) < Rank(s) THEN s ELSE @]]
  IN  Activate[state][look]

\* The highest active state up to s, or Base.
HighestUpTo(s, active) ==
  LET below == {i \in 1..Rank(s) : ButtonStates[i] \in active}
  IN  IF below = {} THEN "Base" ELSE ButtonStates[CHOOSE i \in below : \A k \in below : k <= i]

\* (mutant) The dependent states are left alone.
ClearState_Alone(state, look) ==
  IF state \notin look.active THEN look
  ELSE LET active == look.active \ {state}
       IN  [active |-> active,
            current |-> IF state = look.current THEN HighestUpTo(state, active) ELSE look.current]

\* StateRender::ClearState, which calls itself for the dependent states.
ClearState(state, look) ==
  LET Clear[s \in States] == [l \in Look |->
        IF s \notin l.active THEN l
        ELSE LET active == l.active \ {s}
             IN  FoldLeft(LAMBDA m, d : IF d \in Dependents(s) THEN Clear[d][m] ELSE m,
                          [active |-> active,
                           current |-> IF s = l.current THEN HighestUpTo(s, active) ELSE l.current],
                          ButtonStates)]
  IN  Clear[state][look]

ToggleState(state, look) ==
  IF state \in look.active THEN ClearState(state, look) ELSE ActivateState(state, look)

LookOf(b) == [active |-> activeStates[b], current |-> currentState[b]]

\* A new StateWindowData: not even Base is active.
Blank == [active |-> {}, current |-> "Base"]

SetLook(b, look) ==
  /\ activeStates' = [activeStates EXCEPT ![b] = look.active]
  /\ currentState' = [currentState EXCEPT ![b] = look.current]

\* Activate: the button of the window with the focus.
Activate(b) ==
  /\ b \in buttons
  /\ \E l \in {ClearState("Minimized", ActivateState("Active", LookOf(b)))} :
       \/ SetLook(b, l)
       \/ SetLook(b, ClearState("Flashing", l))
  /\ UNCHANGED <<buttons, deviceVars>>

\* What else TaskButton does to its states: Deactivate and WM_MOUSELEAVE clear
\* one, Flash, WM_MOUSEMOVE and minimizing activate one, WM_TIMER toggles one.
ChangeState(b) ==
  /\ b \in buttons
  /\ \/ \E s \in {"Active", "Hover"} : SetLook(b, ClearState(s, LookOf(b)))
     \/ \E s \in {"Flashing", "Hover", "Minimized"} : SetLook(b, ActivateState(s, LookOf(b)))
     \/ SetLook(b, ToggleState("Flashing", LookOf(b)))
  /\ UNCHANGED <<buttons, deviceVars>>

----------------------------------------------------------------------------
(* Device resources.                                                       *)

\* A window that has a target loses it and gives its share of the brushes back,
\* and so does one that has none: n windows call DiscardDeviceResources.  The
\* brushes go when the count comes down to zero.
Released(n, r) ==
  [count |-> r.count - n, brushes |-> IF r.count \in 1..n THEN "none" ELSE r.brushes]

\* n windows that had no target call ReCreateDeviceResources.  Brushes are made
\* whenever the count is zero.
Acquired(n, r) ==
  [count |-> r.count + n, brushes |-> IF -r.count \in 0..(n - 1) THEN "present" ELSE r.brushes]

Resources == [count |-> mDeviceRefCount, brushes |-> brushes]

SetResources(r) ==
  /\ r.count >= -MaxDebt
  /\ mDeviceRefCount' = r.count
  /\ brushes' = r.brushes

\* The target of the top-level window is released.
Outdated(r) == [r EXCEPT !.brushes = IF @ = "none" THEN @ ELSE "past"]

\* Window::ReCreateDeviceResources of the top-level window: it makes a target,
\* which may fail, and the windows on it that have none take it.
CreateTarget ==
  {[targets |-> {}, resources |-> Resources],
   [targets |-> {Top} \cup buttons,
    resources |-> Acquired(Cardinality(buttons \ mRenderTarget), Resources)]}

\* Window::DiscardDeviceResources of the top-level window.
DiscardTarget(r) == Released(Cardinality(buttons), Outdated(r))

PaintInit ==
  /\ buttons = {}
  /\ activeStates = [b \in Buttons |-> Blank.active]
  /\ currentState = [b \in Buttons |-> Blank.current]
  /\ onTopLevel = TRUE
  /\ mRenderTarget = {Top}
  /\ mDeviceRefCount = 0
  /\ brushes = "none"

\* (mutant) The share is counted even if there is no target.
AddButton_CountsAlways(b) ==
  /\ b \notin buttons
  /\ buttons' = buttons \cup {b}
  /\ \E l \in {Blank, ActivateState("Minimized", Blank)} : SetLook(b, l)
  /\ mRenderTarget' = IF Top \in mRenderTarget THEN mRenderTarget \cup {b} ELSE mRenderTarget
  /\ SetResources(Acquired(1, Resources))
  /\ UNCHANGED onTopLevel

\* TaskButton's constructor: the button takes the target of its parent, if that
\* has one, and shows whether the window is minimized.
AddButton(b) ==
  /\ b \notin buttons
  /\ buttons' = buttons \cup {b}
  /\ \E l \in {Blank, ActivateState("Minimized", Blank)} : SetLook(b, l)
  /\ IF Top \in mRenderTarget
       THEN /\ mRenderTarget' = mRenderTarget \cup {b}
            /\ SetResources(Acquired(1, Resources))
       ELSE UNCHANGED <<mRenderTarget, mDeviceRefCount, brushes>>
  /\ UNCHANGED onTopLevel

\* Its destructor discards the device resources, whether it has any or not.
RemoveButton(b) ==
  /\ b \in buttons
  /\ buttons' = buttons \ {b}
  /\ SetLook(b, Blank)
  /\ mRenderTarget' = mRenderTarget \ {b}
  /\ SetResources(Released(1, Resources))
  /\ UNCHANGED onTopLevel

\* WM_PAINT: the target is created if there is none.  Drawing may find that the
\* device is gone (D2DERR_RECREATE_TARGET): then all is discarded, and another
\* WM_PAINT follows.
Paint ==
  /\ onTopLevel
  /\ \E created \in IF Top \in mRenderTarget
                      THEN {[targets |-> mRenderTarget, resources |-> Resources]}
                      ELSE CreateTarget :
       \/ mRenderTarget' = created.targets /\ SetResources(created.resources)
       \/ /\ created.targets # {}
          /\ mRenderTarget' = {}
          /\ SetResources(DiscardTarget(created.resources))
  /\ UNCHANGED <<buttons, stateVars, onTopLevel>>

\* The top-level window is destroyed: it discards its resources, with those of
\* all windows on it, and leaves the taskbar (ParentLeft).
TopParentGone ==
  /\ onTopLevel
  /\ onTopLevel' = FALSE
  /\ mRenderTarget' = {}
  /\ SetResources(DiscardTarget(Resources))
  /\ UNCHANGED <<buttons, stateVars>>

\* Another one is registered under the name: the taskbar is attached (SetParent)
\* before Initialize creates the target.
TopParentBack ==
  /\ ~onTopLevel
  /\ onTopLevel' = TRUE
  /\ \E created \in CreateTarget :
       mRenderTarget' = created.targets /\ SetResources(created.resources)
  /\ UNCHANGED <<buttons, stateVars>>

PaintNext ==
  \/ \E b \in Buttons : Activate(b) \/ ChangeState(b) \/ AddButton(b) \/ RemoveButton(b)
  \/ Paint \/ TopParentGone \/ TopParentBack

PaintSpec == PaintInit /\ [][PaintNext]_paintVars

----------------------------------------------------------------------------
(* Properties.                                                             *)

PaintTypeOK ==
  /\ buttons \subseteq Buttons
  /\ activeStates \in [Buttons -> SUBSET States]
  /\ currentState \in [Buttons -> States]
  /\ onTopLevel \in BOOLEAN
  /\ mRenderTarget \subseteq {Top} \cup buttons
  /\ mDeviceRefCount \in (-MaxDebt)..Cardinality(buttons)
  /\ brushes \in {"none", "present", "past"}

\* A button looks as it is: whatever order its states came and went in, the
\* combined ones are active exactly when all they depend on are, and it is
\* painted in the highest of them (ActivateState, ClearState).
LooksAsItIs ==
  \A b \in Buttons :
    /\ \A s \in States : Dependencies(s) # {} =>
         (s \in activeStates[b] <=> Dependencies(s) \subseteq activeStates[b])
    /\ currentState[b] = HighestUpTo("MinimizedFlashingHover", activeStates[b])

\* Nothing is painted with brushes of a target that was released: they are gone
\* by the time the target is, although the count can go wrong.
BrushesOfTheTarget ==
  /\ brushes # "past"
  /\ brushes = "present" => Top \in mRenderTarget
=============================================================================
