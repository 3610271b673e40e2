------------------------------ MODULE MCModules ------------------------------
(* Modules that keep no state in common: a behaviour exercises one, module,   *)
(* while the others are idle in their initial state.                          *)
EXTENDS Tray, MCPopups, TaskSwitcher, Painting

VARIABLE module

modulesVars == <<module, vars, popupVars, switcherVars, paintVars>>

ModulesInit ==
  /\ module \in {"nTray", "nPopup", "nTaskSwitch", "nTasks"}
  /\ Init /\ (module # "nTray" => ~attached /\ state = "quiet")
  /\ PopupInit /\ SwitcherInit /\ PaintInit

ModulesNext ==
  \/ module = "nTray" /\ Next /\ UNCHANGED <<module, popupVars, switcherVars, paintVars>>
  \/ module = "nPopup" /\ PopupNext /\ UNCHANGED <<module, vars, switcherVars, paintVars>>
  \/ module = "nTaskSwitch" /\ SwitcherNext /\ UNCHANGED <<module, vars, popupVars, paintVars>>
  \/ module = "nTasks" /\ PaintNext /\ UNCHANGED <<module, vars, popupVars, switcherVars>>

\* The fairness of the tray (Tray!FairSpec); the others need none.
ModulesSpec ==
  ModulesInit /\ [][ModulesNext]_modulesVars /\ WF_vars(module = "nTray" /\ BalloonTimer)

\* Every component keeps its state within its types.
ModulesTypeOK == TypeOK /\ PopupTypeOK /\ SwitcherTypeOK /\ PaintTypeOK
=============================================================================
