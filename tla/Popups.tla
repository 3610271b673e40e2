------------------------------- MODULE Popups --------------------------------
(***************************************************************************)
(* The menus of nPopup (src/nPopup).                                       *)
(*                                                                         *)
(* A popup is opened by its bang, or by moving the mouse over the folder   *)
(* item it belongs to.  The open popups of a menu form a chain: each knows *)
(* the one that opened it (owner) and the one it opened (openChild).       *)
(* Closing any of them closes the chain, and so does losing the focus to a *)
(* window outside it, unless the mouse is over it.                         *)
(*                                                                         *)
(* Hiding a popup posts WM_HIDDEN to it.  A popup with dynamic contents    *)
(* then deletes its items, and with them the popups of its folder items;   *)
(* the next time it is shown it loads them again.  A bang can show a popup *)
(* before its WM_HIDDEN arrives.  The mouse cannot: posted messages are    *)
(* handled before input.                                                   *)
(*                                                                         *)
(* Everything happens on one thread.  Sizes, positions, icons and the      *)
(* items' looks are left out.                                              *)
(***************************************************************************)
EXTENDS Naturals, FiniteSets, Sequences, SequencesExt

CONSTANTS
  Popups,    \* the popups, by their place in the menus
  Kind,      \* "folder" (from the .rc files), "content", "dynamic", "suicidal"
  Parent,    \* the popup whose folder item opens this one, None for a root
  Above,     \* that popup, the one above it, and so on up to the root
  NoPopup,   \* no popup: the null pointer, and any window that is no popup
  MaxPosted  \* bound: the WM_HIDDEN messages in the queue

ASSUME PopupAssumption ==
  /\ IsFiniteSet(Popups) /\ NoPopup \notin Popups
  /\ Kind \in [Popups -> {"folder", "content", "dynamic", "suicidal"}]
  /\ Parent \in [Popups -> Popups \cup {NoPopup}]
  /\ Above \in [Popups -> SUBSET Popups]
  /\ \A p \in Popups : /\ p \notin Above[p]
                       /\ Above[p] = IF Parent[p] = NoPopup THEN {}
                                     ELSE {Parent[p]} \cup Above[Parent[p]]
  /\ MaxPosted \in Nat

VARIABLES
  existing,      \* the popups that have been created and not deleted
  open,          \* the popups that are shown
  filled,        \* the popups that have their items
  popupOwner,    \* popup -> the one that opened it
  openChild,     \* popup -> the one it opened
  mouseOver,     \* the popup with mouseOver
  activeWindow,  \* the active window
  hiddenPosted,  \* the WM_HIDDEN messages
  reopened       \* history: popups shown while a WM_HIDDEN was on its way to them

chainVars == <<open, popupOwner, openChild, activeWindow, hiddenPosted, reopened>>
popupVars == <<existing, filled, mouseOver, chainVars>>

Roots == {p \in Popups : Parent[p] = NoPopup}
Kids(p) == {q \in Popups : Parent[q] = p}

Below(p) == {q \in Popups : p \in Above[q]}

\* What is created along with a popup: a folder brings the popups of its items.
Born(p) == {p} \cup {q \in Below(p) : \A r \in Above[q] \ Above[p] : Kind[r] = "folder"}

\* The popups the module has before anything is opened.
Rooted == UNION {Born(r) : r \in {q \in Roots : Kind[q] # "suicidal"}}

Folders(S) == {p \in S : Kind[p] = "folder"}

PopupInit ==
  /\ existing = Rooted
  /\ filled = Folders(Rooted)
  /\ open = {}
  /\ popupOwner = [p \in Popups |-> NoPopup]
  /\ openChild = [p \in Popups |-> NoPopup]
  /\ mouseOver = NoPopup
  /\ activeWindow = NoPopup
  /\ hiddenPosted = <<>>
  /\ reopened = {}

----------------------------------------------------------------------------
(* Chains and their closing.                                               *)

\* The popups from p upwards along owner and downwards along openChild.
Owners(p) == {q \in Above[p] : \A r \in ({p} \cup Above[p]) \ ({q} \cup Above[q]) :
                                  popupOwner[r] # NoPopup}
Opened(p) == {q \in Below(p) : \A r \in ({q} \cup Above[q]) \ ({p} \cup Above[p]) :
                                  openChild[Parent[r]] = r}
Chain(p) == Owners(p) \cup {p} \cup Opened(p)

\* The members of S one after the other, where before[x] holds those before x.
InOrder(S, before) ==
  [i \in 1..Cardinality(S) |-> CHOOSE x \in S : Cardinality(S \cap before[x]) = i - 1]

\* The popups of a part of a chain, from the one nearest the root downwards.
Downwards(S) == InOrder(S, Above)

\* In which order Popup::Close hides: itself, what it opened, who opened it.
ClosingOrder(p) == <<p>> \o Downwards(Opened(p)) \o Reverse(Downwards(Owners(p)))

\* Popup::CheckFocus fails for the active popup when window w is activated while
\* the mouse is over m: WM_ACTIVATE closes its chain.
Yields(w, m) == /\ activeWindow \in open
                /\ {w, m} \cap Chain(activeWindow) = {}

Yielding(w, m) == IF Yields(w, m) THEN ClosingOrder(activeWindow) ELSE <<>>

\* The popups in S are hidden and taken out of their chains.
Unlinked(links, S) ==
  [p \in Popups |-> IF p \in S \/ links[p] \in S THEN NoPopup ELSE links[p]]

\* When the active window is hidden or destroyed the system picks another one.
Activated(w, S) == IF w \in S THEN (open \ S) \cup {NoPopup} ELSE {w}

CanPost(n) == Len(hiddenPosted) + n <= MaxPosted

\* The popups in the sequence closing are closed, one after the other; w is the
\* active window and m the popup under the mouse but for that.
ClosePopups(closing, w, m) ==
  \E s \in {closing} : \E S \in {Range(s)} :
      /\ CanPost(Len(s))
      /\ open' = open \ S
      /\ popupOwner' = Unlinked(popupOwner, S)
      /\ openChild' = Unlinked(openChild, S)
      /\ mouseOver' = IF m \in S THEN NoPopup ELSE m
      /\ activeWindow' \in Activated(w, S)
      /\ hiddenPosted' = hiddenPosted \o s
      /\ reopened' = reopened \ S

----------------------------------------------------------------------------
(* Showing.                                                                *)

\* PreShow: contents are loaded once, or once each time for a dynamic popup.
\* The folders among the contents of a static popup come with popups; those of
\* a dynamic one are created when they are opened.
Brought(p) ==
  IF Kind[p] = "content" /\ p \notin filled THEN UNION {Born(q) : q \in Kids(p)} ELSE {}

PreShow(p) ==
  LET born == (Born(p) \ existing) \cup Brought(p)
  IN  /\ existing' = existing \cup born
      /\ filled' = filled \cup {p} \cup Folders(born)

\* Popup::Show: p is shown on behalf of opener, after the popups in the sequence
\* closing gave way; m is the popup under the mouse but for that.
ShowPopup(p, opener, closing, m) ==
  \E s \in {closing} : \E S \in {Range(s)} :
      /\ CanPost(Len(s))
      /\ PreShow(p)
      /\ open' = (open \ S) \cup {p}
      /\ popupOwner' = [Unlinked(popupOwner, S) EXCEPT ![p] = opener]
      /\ openChild' = [q \in Popups |-> IF q = opener THEN p ELSE Unlinked(openChild, S)[q]]
      /\ mouseOver' = IF m \in S THEN NoPopup ELSE m
      /\ activeWindow' = p
      /\ hiddenPosted' = hiddenPosted \o s
      /\ reopened' = (reopened \ S) \cup ({p} \cap Range(hiddenPosted))

\* A bang shows a root popup; !PopupDynamicFolder creates one.
ShowRoot(r) ==
  /\ r \in Roots
  /\ r \in existing => Kind[r] # "suicidal"
  /\ ShowPopup(r, NoPopup, Yielding(r, mouseOver), mouseOver)

\* Where the mouse can go: input comes after posted messages, and a popup has
\* been left before another one is entered.
MouseCanMove(p) == hiddenPosted = <<>> /\ p \in open /\ mouseOver \in {NoPopup, p}

\* FolderItem's WM_MOUSEMOVE: its popup is created if need be and opened.  The
\* child that was open gives way to it (OpenChild, CloseChild).
HoverFolder(p, c) ==
  /\ MouseCanMove(p) /\ p \in filled /\ Parent[c] = p
  /\ IF openChild[p] = c
       THEN /\ mouseOver' = p
            /\ UNCHANGED <<existing, filled, chainVars>>
       ELSE ShowPopup(c, p, Yielding(p, p) \o Downwards(Opened(p)), p)

----------------------------------------------------------------------------
(* Closing.                                                                *)

\* CommandItem's WM_MOUSEMOVE closes the open child, if any, and takes the focus.
HoverCommand(p) ==
  /\ MouseCanMove(p) /\ p \in filled
  /\ IF openChild[p] = NoPopup
       THEN /\ mouseOver' = p
            /\ UNCHANGED chainVars
       ELSE ClosePopups(Yielding(p, p) \o Downwards(Opened(p)), p, p)
  /\ UNCHANGED <<existing, filled>>

LeavePopup ==
  /\ mouseOver # NoPopup
  /\ mouseOver' = NoPopup
  /\ UNCHANGED <<existing, filled, chainVars>>

\* A click into a popup activates it.
Click(p) ==
  /\ MouseCanMove(p) /\ mouseOver = p
  /\ ClosePopups(Yielding(p, p), p, p)
  /\ UNCHANGED <<existing, filled>>

\* CommandItem's WM_LBUTTONDOWN: the command is run, which may be the bang of a
\* root popup, and the menu closes.
Execute(p) ==
  /\ MouseCanMove(p) /\ mouseOver = p /\ p \in filled
  /\ ClosePopups(Yielding(p, p) \o ClosingOrder(p), p, p)
  /\ UNCHANGED <<existing, filled>>

ExecuteBang(p, r) ==
  /\ MouseCanMove(p) /\ mouseOver = p /\ p \in filled
  /\ r \in Roots /\ Kind[r] # "suicidal"
  /\ PreShow(r)
  /\ \E yielding \in {Yielding(p, p)}, chain \in {ClosingOrder(p)} :
       LET s == yielding \o chain
           S == Range(s)
           shown == {r} \ Range(chain)
       IN  /\ CanPost(Len(s))
           /\ open' = (open \ S) \cup shown
           /\ popupOwner' = Unlinked(popupOwner, S)
           /\ openChild' = Unlinked(openChild, S)
           /\ mouseOver' = NoPopup
           /\ activeWindow' \in IF shown = {} THEN Activated(r, S) ELSE {r}
           /\ hiddenPosted' = hiddenPosted \o s
           /\ reopened' = (reopened \ S) \cup (shown \cap Range(yielding))

\* (mutant) Only the popup that lost the focus closes.
LoseFocus_Alone ==
  /\ activeWindow # NoPopup
  /\ IF Yields(NoPopup, mouseOver)
       THEN /\ CanPost(1)
            /\ open' = open \ {activeWindow}
            /\ hiddenPosted' = Append(hiddenPosted, activeWindow)
            /\ mouseOver' = mouseOver
       ELSE UNCHANGED <<open, hiddenPosted, mouseOver>>
  /\ activeWindow' = NoPopup
  /\ UNCHANGED <<existing, filled, popupOwner, openChild, reopened>>

\* A window that is no popup is activated: WM_ACTIVATE.
LoseFocus ==
  /\ activeWindow # NoPopup
  /\ ClosePopups(Yielding(NoPopup, mouseOver), NoPopup, mouseOver)
  /\ UNCHANGED <<existing, filled>>

----------------------------------------------------------------------------
(* Deletion.                                                               *)

\* The messages that are left when the popups in gone are destroyed.
Without(posted, gone) ==
  LET left  == {i \in DOMAIN posted : posted[i] \notin gone}
      order == InOrder(left, [i \in DOMAIN posted |-> 1..(i - 1)])
  IN  [i \in DOMAIN order |-> posted[order[i]]]

\* The popups in S are destroyed, and the messages for them vanish.  Nobody
\* takes them out of their chains.
Delete(gone) == \E S \in {gone} :
  /\ open' = open \ S
  /\ popupOwner' = [p \in Popups |-> IF p \in S THEN NoPopup ELSE popupOwner[p]]
  /\ openChild' = [p \in Popups |-> IF p \in S THEN NoPopup ELSE openChild[p]]
  /\ mouseOver' = IF mouseOver \in S THEN NoPopup ELSE mouseOver
  /\ activeWindow' \in Activated(activeWindow, S)
  /\ reopened' = reopened \ S

\* (mutant) A popup that closes itself does not delete itself.
Hidden_Survives ==
  /\ hiddenPosted # <<>>
  /\ LET p    == Head(hiddenPosted)
         gone == IF Kind[p] \in {"dynamic", "suicidal"} THEN Below(p) ELSE {}
     IN  /\ Delete(gone)
         /\ hiddenPosted' = Without(Tail(hiddenPosted), gone)
         /\ existing' = existing \ gone
         /\ filled' = filled \ (gone \cup IF Kind[p] = "dynamic" THEN {p} ELSE {})

\* WM_HIDDEN, PostClose: a dynamic popup deletes its items, a suicidal one
\* itself.
Hidden ==
  /\ hiddenPosted # <<>>
  /\ LET p    == Head(hiddenPosted)
         gone == CASE Kind[p] = "dynamic"  -> Below(p)
                   [] Kind[p] = "suicidal" -> {p} \cup Below(p)
                   [] OTHER                -> {}
     IN  /\ Delete(gone)
         /\ hiddenPosted' = Without(Tail(hiddenPosted), gone)
         /\ existing' = existing \ gone
         /\ filled' = filled \ (gone \cup IF Kind[p] = "dynamic" THEN {p} ELSE {})

\* LM_REFRESH: the root popups are deleted and loaded anew, even while they are
\* open.  Those of !PopupDynamicFolder are not among them.
Refresh ==
  LET gone == UNION {{r} \cup Below(r) : r \in {q \in Roots : Kind[q] # "suicidal"}}
  IN  /\ Delete(gone)
      /\ hiddenPosted' = Without(hiddenPosted, gone)
      /\ existing' = (existing \ gone) \cup Rooted
      /\ filled' = (filled \ gone) \cup Folders(Rooted)

PopupNext ==
  \/ \E r \in Roots : ShowRoot(r)
  \/ \E p, c \in Popups : HoverFolder(p, c)
  \/ \E p \in Popups : HoverCommand(p) \/ Click(p) \/ Execute(p)
  \/ \E p \in Popups, r \in Roots : ExecuteBang(p, r)
  \/ LeavePopup
  \/ LoseFocus
  \/ Hidden
  \/ Refresh

PopupSpec == PopupInit /\ [][PopupNext]_popupVars

----------------------------------------------------------------------------
(* Properties.                                                             *)

PopupTypeOK ==
  /\ {open, filled, reopened} \subseteq SUBSET existing
  /\ existing \in SUBSET Popups
  /\ popupOwner \in [Popups -> Popups \cup {NoPopup}]
  /\ openChild \in [Popups -> Popups \cup {NoPopup}]
  /\ {mouseOver, activeWindow} \subseteq existing \cup {NoPopup}
  /\ hiddenPosted \in Seq(existing) /\ Len(hiddenPosted) <= MaxPosted

\* The chain pointers fit: both ways, among popups that exist and are open, and
\* no submenu stays open on its own.  In particular none is left behind when a
\* part of a menu closes or the items of a dynamic popup are deleted, with the
\* popups under them (OpenChild, CloseChild, Close, PostClose, ~Popup).
ChainsFit ==
  /\ \A p \in Popups :
       /\ openChild[p] # NoPopup => /\ {p, openChild[p]} \subseteq open \cap existing
                                    /\ popupOwner[openChild[p]] = p
       /\ popupOwner[p] # NoPopup => openChild[popupOwner[p]] = p
  /\ \A p \in open \ Roots : popupOwner[p] = Parent[p]

\* A menu has its items while it is open and gives them back afterwards: a popup
\* on the screen is filled, unless it was shown again before the WM_HIDDEN of its
\* last closing arrived, which empties it while it is open; and a dynamic or
\* suicidal popup that was closed is emptied or deleted by a message that is on
\* its way (PreShow, PostClose).
Lingers(p) == Kind[p] \in {"dynamic", "suicidal"} /\ p \in filled \ open

ItemsWhileOpen ==
  /\ open \ reopened \subseteq filled
  /\ \A p \in Popups : Lingers(p) => p \in Range(hiddenPosted)
=============================================================================
