----------------------------- MODULE DynamicText -----------------------------
(***************************************************************************)
(* Dynamic texts (src/nCore/ParsedText.cpp) and the windows that show them *)
(* (Window::SetText, UpdateText and the destructor in                      *)
(* src/nShared/Window.cpp).                                                *)
(*                                                                         *)
(* A label's text may call functions, "[Time]", that modules provide.      *)
(* functionMap remembers for every function its procedure, if a module     *)
(* provides it at the moment, and the parsed texts that use it, so that a  *)
(* change of its value can be passed on to the windows.                    *)
(*                                                                         *)
(* nCore provides the functions in TimerFunctions itself and announces     *)
(* them once a second; nMediaInfo provides the others, may be loaded and   *)
(* unloaded at any time, and announces them from its message window once   *)
(* its updater thread has written new values.  All else happens on the     *)
(* user interface thread.                                                  *)
(*                                                                         *)
(* The parsed texts live on the heap: Texts are addresses, and an address  *)
(* that was freed can be handed out again.                                 *)
(***************************************************************************)
CONSTANTS
  Labels,          \* the windows with evaluateText: labels, clocks, info items
  Texts,           \* the addresses a parsed text can have
  Functions,       \* the functions a text can name
  TimerFunctions,  \* those nCore provides
  NoText,          \* the null pointer
  Free             \* what lives at an address that is not in use

ASSUME TextAssumption ==
  /\ TimerFunctions \subseteq Functions
  /\ NoText \notin Texts
  /\ Free \notin [uses : SUBSET Functions, data : Labels]

VARIABLES
  functionMap,  \* function -> its procedure, if any, and the texts that use it
  heap,         \* address -> the parsed text that lives there
  labelText,    \* window -> its parsed text and what it shows of each function
  owed,         \* new values of nMediaInfo were not announced yet
  crashed       \* a freed text was called, and that was the end of the process

textVars == <<functionMap, heap, labelText, owed, crashed>>

ModuleFunctions == Functions \ TimerFunctions

\* What a window shows of a function: nothing, because its text does not call
\* it, "[name]", because nobody provides it, or the output of its procedure.
Output == {"none", "name", "old", "current"}

NoLabel == [text |-> NoText, shown |-> [f \in Functions |-> "none"]]

TextInit ==
  /\ functionMap = [f \in Functions |-> [proc |-> f \in TimerFunctions, users |-> {}]]
  /\ heap = [t \in Texts |-> Free]
  /\ labelText = [w \in Labels |-> NoLabel]
  /\ owed = FALSE
  /\ crashed = FALSE

Living == {w \in Labels : labelText[w].text # NoText}

----------------------------------------------------------------------------
(* Evaluation and notification.                                            *)

\* ParsedText::Evaluate of a text that calls the functions in uses.
Evaluate(map, uses) ==
  [f \in Functions |-> IF f \notin uses THEN "none"
                       ELSE IF map[f].proc THEN "current" ELSE "name"]

\* DynamicTextChangeNotification for the functions in changed.  A user that was
\* freed is called all the same: the process may die of it, or go on as if
\* nothing had been called.
Notify(map, changed) ==
  LET users == UNION {map[f].users : f \in changed}
      told  == {heap[t].data : t \in {u \in users : heap[u] # Free}}
  IN  /\ functionMap' = map
      /\ labelText' = [w \in Labels |->
           IF w \in told
             THEN [labelText[w] EXCEPT !.shown = Evaluate(map, heap[labelText[w].text].uses)]
             ELSE labelText[w]]
      /\ crashed' \in IF \E t \in users : heap[t] = Free THEN BOOLEAN ELSE {FALSE}

Procs(map, functions, provided) ==
  [f \in Functions |-> IF f \in functions THEN [map[f] EXCEPT !.proc = provided] ELSE map[f]]

----------------------------------------------------------------------------
(* Windows.                                                                *)

\* (mutant) A function nobody provides yet is not told about its users.
AddTokens_Provided(map, t, uses) ==
  [f \in Functions |-> IF f \in uses /\ map[f].proc
                         THEN [map[f] EXCEPT !.users = @ \cup {t}] ELSE map[f]]

\* ParsedText::AddToken for every expression of the text at t.
AddTokens(map, t, uses) ==
  [f \in Functions |-> IF f \in uses THEN [map[f] EXCEPT !.users = @ \cup {t}] ELSE map[f]]

\* Window::SetText, for a new window and for a window with a text.  SAFEDELETE
\* deletes the old text through IParsedText, which has no virtual destructor:
\* ~ParsedText does not run and the old text stays among the users of its
\* functions.  Its memory is free, also for the new text.
SetText(w, t, uses) ==
  LET old   == labelText[w].text
      freed == [a \in Texts |-> IF a = old THEN Free ELSE heap[a]]
  IN  /\ freed[t] = Free
      /\ heap' = [freed EXCEPT ![t] = [uses |-> uses, data |-> w]]
      /\ functionMap' = AddTokens(functionMap, t, uses)
      /\ labelText' = [labelText EXCEPT ![w] = [text |-> t, shown |-> Evaluate(functionMap, uses)]]
      /\ UNCHANGED <<owed, crashed>>

\* Window::~Window releases the text: Release deletes it as a ParsedText, whose
\* destructor takes it out of the users of every function it calls.
DestroyWindow(w) ==
  /\ w \in Living
  /\ LET t == labelText[w].text
     IN  /\ functionMap' = [f \in Functions |->
              IF f \in heap[t].uses THEN [functionMap[f] EXCEPT !.users = @ \ {t}]
                                    ELSE functionMap[f]]
         /\ heap' = [heap EXCEPT ![t] = Free]
  /\ labelText' = [labelText EXCEPT ![w] = NoLabel]
  /\ UNCHANGED <<owed, crashed>>

----------------------------------------------------------------------------
(* Providers.                                                              *)

Aged(functions) ==
  [w \in Labels |-> [labelText[w] EXCEPT !.shown =
     [f \in Functions |-> IF f \in functions /\ @[f] = "current" THEN "old" ELSE @[f]]]]

\* Time passes, or the title of a window changes.
TimePasses ==
  /\ labelText' = Aged(TimerFunctions)
  /\ UNCHANGED <<functionMap, heap, owed, crashed>>

\* nCore's WM_TIMER.
Timer ==
  /\ Notify(functionMap, TimerFunctions)
  /\ UNCHANGED <<heap, owed>>

\* (mutant) nMediaInfo is loaded without a first update.
LoadModule_Quiet ==
  /\ \A f \in ModuleFunctions : ~functionMap[f].proc
  /\ functionMap' = Procs(functionMap, ModuleFunctions, TRUE)
  /\ UNCHANGED <<heap, labelText, owed, crashed>>

\* nMediaInfo's initModule: it registers its functions, which notifies nobody,
\* and starts a first update.
LoadModule ==
  /\ \A f \in ModuleFunctions : ~functionMap[f].proc
  /\ functionMap' = Procs(functionMap, ModuleFunctions, TRUE)
  /\ owed' = TRUE
  /\ UNCHANGED <<heap, labelText, crashed>>

\* The updater thread wrote new values; it announces them before it ends.
NewValues ==
  /\ \A f \in ModuleFunctions : functionMap[f].proc
  /\ labelText' = Aged(ModuleFunctions)
  /\ owed' = TRUE
  /\ UNCHANGED <<functionMap, heap, crashed>>

\* nMediaInfo's WM_TEXTUPDATENOTIFY.
Announce ==
  /\ owed
  /\ Notify(functionMap, ModuleFunctions)
  /\ owed' = FALSE
  /\ UNCHANGED heap

\* (mutant) The users are told before the procedures are gone.
UnloadModule_NotifiesFirst ==
  /\ \A f \in ModuleFunctions : functionMap[f].proc
  /\ labelText' = [w \in Labels |->
       IF \E f \in ModuleFunctions : labelText[w].text \in functionMap[f].users
         THEN [labelText[w] EXCEPT !.shown = Evaluate(functionMap, heap[labelText[w].text].uses)]
         ELSE labelText[w]]
  /\ functionMap' = Procs(functionMap, ModuleFunctions, FALSE)
  /\ owed' = FALSE
  /\ UNCHANGED <<heap, crashed>>

\* nMediaInfo's quitModule: UnRegisterDynamicTextFunction for each function.
UnloadModule ==
  /\ \A f \in ModuleFunctions : functionMap[f].proc
  /\ Notify(Procs(functionMap, ModuleFunctions, FALSE), ModuleFunctions)
  /\ owed' = FALSE
  /\ UNCHANGED heap

----------------------------------------------------------------------------
Crashed == crashed /\ UNCHANGED textVars

TextNext ==
  \/ /\ ~crashed
     /\ \/ \E w \in Labels, t \in Texts, uses \in SUBSET Functions : SetText(w, t, uses)
        \/ \E w \in Labels : DestroyWindow(w)
        \/ TimePasses \/ Timer
        \/ LoadModule \/ NewValues \/ Announce \/ UnloadModule
  \/ Crashed

\* nCore's timer keeps firing, and the updater of nMediaInfo sends its message
\* after every change, which the user interface thread handles.
TextFairness ==
  /\ WF_textVars(~crashed /\ Timer)
  /\ WF_textVars(~crashed /\ Announce)

TextSpec == TextInit /\ [][TextNext]_textVars /\ TextFairness

----------------------------------------------------------------------------
(* Properties.                                                             *)

TextTypeOK ==
  /\ functionMap \in [Functions -> [proc : BOOLEAN, users : SUBSET Texts]]
  /\ heap \in [Texts -> [uses : SUBSET Functions, data : Labels] \cup {Free}]
  /\ labelText \in [Labels -> [text : Texts \cup {NoText}, shown : [Functions -> Output]]]
  /\ owed \in BOOLEAN
  /\ crashed \in BOOLEAN

\* The text of a window is alive, its own, and known to every function it
\* calls, whatever was freed and allocated at its address before: no change of
\* a value can pass the window by (AddToken, ~ParsedText, SetText).
EveryTextIsTold ==
  \A w \in Living :
    LET t == labelText[w].text
    IN  /\ heap[t] # Free /\ heap[t].data = w
        /\ \A f \in heap[t].uses : t \in functionMap[f].users

\* No window shows the output of a procedure that is gone: once nMediaInfo has
\* unregistered its functions every text that called one was evaluated again
\* (UnRegisterDynamicTextFunction, "Unregisters a dynamic text function").
NothingOfTheGone ==
  \A w \in Labels, f \in Functions :
    labelText[w].shown[f] \in {"old", "current"} => functionMap[f].proc

Lags(w, f) == /\ ~crashed
              /\ functionMap[f].proc
              /\ labelText[w].shown[f] \in {"name", "old"}

\* A window does not keep showing "[name]" for a function that is provided by
\* now, nor an old value: even though registering a function notifies nobody,
\* the window catches up.
TextsCatchUp == \A w \in Labels, f \in Functions : Lags(w, f) ~> ~Lags(w, f)

\* functionMap holds "All IParsedText objects which currently use this
\* function" (src/nCore/ParsedText.hpp:33): every user is a text that exists.
UsersExist ==
  \A f \in Functions : \A t \in functionMap[f].users :
    heap[t] # Free /\ f \in heap[t].uses
=============================================================================
