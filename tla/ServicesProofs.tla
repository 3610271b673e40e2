---------------------------- MODULE ServicesProofs ----------------------------
(***************************************************************************)
(* What is proved of the services of nCore that texts pass through, and of *)
(* nMediaInfo, which feeds one of them.                                    *)
(*                                                                         *)
(* Dynamic texts.  Every label is told of every change and shows nothing   *)
(* of a procedure that is gone, for any labels, functions and addresses,   *)
(* although the users of a function include texts that were freed.         *)
(*                                                                         *)
(* The parser.  No text is lost, however long it is and whatever brackets  *)
(* and quotes it holds (ParserInv): what the tokens show is the text up to *)
(* where the current segment began.  A text that is spelled from plain     *)
(* text and calls is taken apart into these (WrittenInv): what is read of  *)
(* them is told from where each lies in the text.                          *)
(*                                                                         *)
(* Media information.  What the labels show of the song, for any files.    *)
(*                                                                         *)
(* At the end, the services together (MCServices) stay within their types. *)
(***************************************************************************)
EXTENDS MCServices, FileSystemLoaderProofs, WindowTreeProofs, SequenceTheorems

----------------------------------------------------------------------------
(* Dynamic texts.                                                          *)

Text == [uses : SUBSET Functions, data : Labels]

LEMMA TypesOf ==
  TextTypeOK <=> /\ functionMap \in [Functions -> [proc : BOOLEAN, users : SUBSET Texts]]
                 /\ heap \in [Texts -> Text \cup {Free}]
                 /\ labelText \in [Labels -> [text : Texts \cup {NoText},
                                              shown : [Functions -> Output]]]
                 /\ owed \in BOOLEAN
                 /\ crashed \in BOOLEAN
BY DEF TextTypeOK, Text

LEMMA FreeIsNoText == Free \notin Text /\ NoText \notin Texts /\ TimerFunctions \subseteq Functions
BY TextAssumption DEF TextAssumption, Text

----------------------------------------------------------------------------
(* The operators.                                                           *)

LEMMA EvaluateTyped ==
  ASSUME NEW map, NEW uses
  PROVE  Evaluate(map, uses) \in [Functions -> Output]
BY DEF Evaluate, Output

LEMMA AddTokensSpec ==
  ASSUME NEW map \in [Functions -> [proc : BOOLEAN, users : SUBSET Texts]],
         NEW t \in Texts, NEW uses
  PROVE  /\ AddTokens(map, t, uses) \in [Functions -> [proc : BOOLEAN, users : SUBSET Texts]]
         /\ \A f \in Functions :
              /\ AddTokens(map, t, uses)[f].proc = map[f].proc
              /\ map[f].users \subseteq AddTokens(map, t, uses)[f].users
              /\ f \in uses => t \in AddTokens(map, t, uses)[f].users
BY DEF AddTokens

LEMMA AgedSpec ==
  ASSUME TextTypeOK, NEW functions
  PROVE  /\ Aged(functions) \in [Labels -> [text : Texts \cup {NoText},
                                            shown : [Functions -> Output]]]
         /\ \A w \in Labels :
              /\ Aged(functions)[w].text = labelText[w].text
              /\ \A f \in Functions :
                   Aged(functions)[w].shown[f] \in {"old", "current"} =>
                     labelText[w].shown[f] \in {"old", "current"}
<1> USE TypesOf
<1>1. \A w \in Labels : Aged(functions)[w] =
        [labelText[w] EXCEPT !.shown =
           [f \in Functions |-> IF f \in functions /\ @[f] = "current" THEN "old" ELSE @[f]]]
  BY DEF Aged
<1>2. ASSUME NEW w \in Labels
      PROVE  /\ Aged(functions)[w].text = labelText[w].text
             /\ Aged(functions)[w].shown =
                  [f \in Functions |-> IF f \in functions /\ labelText[w].shown[f] = "current"
                                       THEN "old" ELSE labelText[w].shown[f]]
             /\ Aged(functions)[w] \in [text : Texts \cup {NoText}, shown : [Functions -> Output]]
  <2>1. labelText[w] \in [text : Texts \cup {NoText}, shown : [Functions -> Output]]
    OBVIOUS
  <2>2. [f \in Functions |-> IF f \in functions /\ labelText[w].shown[f] = "current"
                             THEN "old" ELSE labelText[w].shown[f]] \in [Functions -> Output]
    BY <2>1 DEF Output
  <2> QED
    BY <1>1, <2>1, <2>2
<1>3. Aged(functions) \in [Labels -> [text : Texts \cup {NoText}, shown : [Functions -> Output]]]
  BY <1>2 DEF Aged
<1>4. ASSUME NEW w \in Labels, NEW f \in Functions,
             Aged(functions)[w].shown[f] \in {"old", "current"}
      PROVE  labelText[w].shown[f] \in {"old", "current"}
  <2>1. Aged(functions)[w].shown[f] = IF f \in functions /\ labelText[w].shown[f] = "current"
                                      THEN "old" ELSE labelText[w].shown[f]
    BY <1>2
  <2> QED
    BY <2>1, <1>4
<1> QED
  BY <1>2, <1>3, <1>4

----------------------------------------------------------------------------
(* The invariant: a text and its window know each other, and a window shows *)
(* only functions its text calls.                                           *)

\* An address in use holds the text of the window it names.
NoStray == \A t \in Texts : heap[t] # Free => labelText[heap[t].data].text = t

\* The output of a function is shown by a text that calls it.
ShowsItsUses ==
  \A w \in Labels, f \in Functions :
    labelText[w].shown[f] # "none" => w \in Living /\ f \in heap[labelText[w].text].uses

TextInv == TextTypeOK /\ NoStray /\ EveryTextIsTold /\ ShowsItsUses /\ NothingOfTheGone

LEMMA TextInvInit == TextInit => TextInv
<1> SUFFICES ASSUME TextInit PROVE TextInv
  OBVIOUS
<1> USE FreeIsNoText DEF TextInit, NoLabel
<1>1. \A w \in Labels : labelText[w].text = NoText /\ \A f \in Functions : labelText[w].shown[f] = "none"
  OBVIOUS
<1>2. TextTypeOK
  <2>1. functionMap \in [Functions -> [proc : BOOLEAN, users : SUBSET Texts]]
    OBVIOUS
  <2>2. heap \in [Texts -> Text \cup {Free}]
    OBVIOUS
  <2>3. labelText \in [Labels -> [text : Texts \cup {NoText}, shown : [Functions -> Output]]]
    BY DEF Output
  <2> QED
    BY <2>1, <2>2, <2>3, TypesOf
<1> QED
  BY <1>1, <1>2 DEF TextInv, NoStray, EveryTextIsTold, ShowsItsUses, NothingOfTheGone, Living

\* What a notification leaves: with the same users as before, and with no
\* procedure gone of a function that is not announced.
LEMMA NotifyKeeps ==
  ASSUME TextInv,
         NEW map \in [Functions -> [proc : BOOLEAN, users : SUBSET Texts]],
         NEW changed \in SUBSET Functions,
         \A f \in Functions : map[f].users = functionMap[f].users,
         \A f \in Functions \ changed : functionMap[f].proc => map[f].proc,
         Notify(map, changed), UNCHANGED heap, owed' \in BOOLEAN
  PROVE  TextInv'
<1> DEFINE users == UNION {map[f].users : f \in changed}
           told  == {heap[t].data : t \in {u \in users : heap[u] # Free}}
<1> USE FreeIsNoText, TypesOf DEF TextInv
<1>1. users \subseteq Texts
  OBVIOUS
<1>2. \A w \in Labels : w \in told => /\ w \in Living
                                      /\ heap[labelText[w].text] # Free
                                      /\ heap[labelText[w].text] \in Text
  BY <1>1 DEF NoStray, Living, Text
<1>3. \A w \in Labels : labelText'[w] =
        IF w \in told
          THEN [labelText[w] EXCEPT !.shown = Evaluate(map, heap[labelText[w].text].uses)]
          ELSE labelText[w]
  BY DEF Notify
<1>4. ASSUME NEW w \in Labels
      PROVE  /\ labelText'[w].text = labelText[w].text
             /\ w \in told => labelText'[w].shown = Evaluate(map, heap[labelText[w].text].uses)
  <2>1. labelText[w] \in [text : Texts \cup {NoText}, shown : [Functions -> Output]]
    OBVIOUS
  <2> HIDE DEF told
  <2> QED
    BY <1>3, <2>1
<1>5. \A w \in Labels : labelText'[w].text = labelText[w].text
  BY <1>4
<1>6. TextTypeOK'
  <2>1. ASSUME NEW w \in Labels
        PROVE  labelText'[w] \in [text : Texts \cup {NoText}, shown : [Functions -> Output]]
    <3>1. Evaluate(map, heap[labelText[w].text].uses) \in [Functions -> Output]
      BY EvaluateTyped
    <3> QED
      BY <1>3, <3>1
  <2>2. labelText' = [w \in Labels |-> labelText'[w]]
    BY DEF Notify
  <2>3. labelText' \in [Labels -> [text : Texts \cup {NoText}, shown : [Functions -> Output]]]
    BY <2>1, <2>2
  <2>4. crashed' \in BOOLEAN /\ functionMap' = map
    BY DEF Notify
  <2> QED
    BY <2>3, <2>4 DEF TextTypeOK, Text
<1>7. NoStray'
  BY <1>5 DEF NoStray, Text
<1>8. Living' = Living
  BY <1>5 DEF Living
<1>9. EveryTextIsTold'
  <2> SUFFICES ASSUME NEW w \in Living
               PROVE  LET t == labelText[w].text
                      IN  /\ heap[t] # Free /\ heap[t].data = w
                          /\ \A f \in heap[t].uses : t \in map[f].users
    BY <1>5, <1>8 DEF EveryTextIsTold, Notify, Living
  <2>1. heap[labelText[w].text] # Free /\ heap[labelText[w].text].data = w
    BY DEF EveryTextIsTold
  <2>2. heap[labelText[w].text].uses \subseteq Functions
    BY <2>1 DEF Living, Text
  <2> QED
    BY <2>1, <2>2 DEF EveryTextIsTold
<1>10. ShowsItsUses' /\ NothingOfTheGone'
  <2> SUFFICES ASSUME NEW w \in Labels, NEW f \in Functions
               PROVE  /\ labelText'[w].shown[f] # "none" =>
                           w \in Living /\ f \in heap[labelText[w].text].uses
                      /\ labelText'[w].shown[f] \in {"old", "current"} => map[f].proc
    BY <1>5, <1>8 DEF ShowsItsUses, NothingOfTheGone, Notify
  <2>1. CASE w \in told
    <3>1. /\ labelText'[w].shown = Evaluate(map, heap[labelText[w].text].uses)
          /\ w \in Living
      BY <2>1, <1>2, <1>4
    <3> HIDE DEF told
    <3>2. labelText'[w].shown[f] = IF f \notin heap[labelText[w].text].uses THEN "none"
                                   ELSE IF map[f].proc THEN "current" ELSE "name"
      BY <3>1 DEF Evaluate
    <3>3. CASE f \notin heap[labelText[w].text].uses
      BY <3>2, <3>3
    <3>4. CASE f \in heap[labelText[w].text].uses
      BY <3>1, <3>2, <3>4
    <3> QED
      BY <3>3, <3>4
  <2>2. CASE w \notin told
    <3>1. labelText'[w] = labelText[w]
      BY <2>2, <1>3
    <3>2. labelText[w].shown[f] # "none" => w \in Living /\ f \in heap[labelText[w].text].uses
      BY DEF ShowsItsUses
    <3>3. ASSUME labelText[w].shown[f] # "none" PROVE f \notin changed
      <4>1. w \in Living /\ f \in heap[labelText[w].text].uses
        BY <3>2, <3>3
      <4>2. /\ heap[labelText[w].text] # Free
            /\ heap[labelText[w].text].data = w
            /\ labelText[w].text \in functionMap[f].users
        BY <4>1 DEF EveryTextIsTold
      <4> QED
        BY <2>2, <4>2
    <3> QED
      BY <3>1, <3>2, <3>3 DEF NothingOfTheGone
  <2> QED
    BY <2>1, <2>2
<1> QED
  BY <1>6, <1>7, <1>9, <1>10

\* Values that get old leave everything else as it is.
LEMMA AgingKeeps ==
  ASSUME TextInv, NEW functions, labelText' = Aged(functions), owed' \in BOOLEAN,
         UNCHANGED <<functionMap, heap, crashed>>
  PROVE  TextInv'
<1> USE FreeIsNoText, TypesOf DEF TextInv
<1>1. \A w \in Labels : /\ labelText'[w].text = labelText[w].text
                        /\ \A f \in Functions :
                             /\ labelText'[w].shown[f] \in {"old", "current"} =>
                                  labelText[w].shown[f] \in {"old", "current"}
                             /\ labelText'[w].shown[f] # "none" => labelText[w].shown[f] # "none"
  <2>1. ASSUME NEW w \in Labels, NEW f \in Functions, labelText'[w].shown[f] # "none"
        PROVE  labelText[w].shown[f] # "none"
    <3>1. labelText'[w].shown = [g \in Functions |->
             IF g \in functions /\ labelText[w].shown[g] = "current"
               THEN "old" ELSE labelText[w].shown[g]]
      BY DEF Aged
    <3>2. labelText'[w].shown[f] = IF f \in functions /\ labelText[w].shown[f] = "current"
                                   THEN "old" ELSE labelText[w].shown[f]
      BY <3>1
    <3> QED
      BY <3>2, <2>1
  <2> QED
    BY <2>1, AgedSpec
<1>2. TextTypeOK'
  BY AgedSpec DEF TextTypeOK, Text
<1>3. Living' = Living
  BY <1>1 DEF Living
<1>4. NoStray'
  BY <1>1 DEF NoStray, Text
<1>5. EveryTextIsTold'
  BY <1>1, <1>3 DEF EveryTextIsTold, Living
<1>6. ShowsItsUses'
  BY <1>1, <1>3 DEF ShowsItsUses
<1>7. NothingOfTheGone'
  BY <1>1 DEF NothingOfTheGone
<1> QED
  BY <1>2, <1>4, <1>5, <1>6, <1>7

\* No other text is at the address that is freed or at the one that is taken.
LEMMA SetTextKeeps ==
  ASSUME TextInv, NEW w \in Labels, NEW t \in Texts, NEW uses \in SUBSET Functions,
         SetText(w, t, uses)
  PROVE  TextInv'
<1> DEFINE old == labelText[w].text
<1> USE FreeIsNoText, TypesOf DEF TextInv
<1>1. /\ heap[t] = Free \/ t = old
      /\ heap' = [a \in Texts |-> IF a = t THEN [uses |-> uses, data |-> w]
                                  ELSE IF a = old THEN Free ELSE heap[a]]
      /\ functionMap' = AddTokens(functionMap, t, uses)
      /\ labelText' = [labelText EXCEPT ![w] =
                         [text |-> t, shown |-> Evaluate(functionMap, uses)]]
      /\ UNCHANGED <<owed, crashed>>
  BY DEF SetText
<1>2. labelText'[w] = [text |-> t, shown |-> Evaluate(functionMap, uses)]
  BY <1>1
<1>3. \A v \in Labels \ {w} : labelText'[v] = labelText[v]
  BY <1>1
<1>4. TextTypeOK'
  <2>1. functionMap' \in [Functions -> [proc : BOOLEAN, users : SUBSET Texts]]
    BY <1>1, AddTokensSpec
  <2>2. heap' \in [Texts -> Text \cup {Free}]
    BY <1>1 DEF Text
  <2>3. Evaluate(functionMap, uses) \in [Functions -> Output]
    BY EvaluateTyped
  <2>4. labelText' \in [Labels -> [text : Texts \cup {NoText}, shown : [Functions -> Output]]]
    BY <1>1, <2>3
  <2> QED
    BY <1>1, <2>1, <2>2, <2>4 DEF TextTypeOK, Text
<1>5. \A v \in Labels \ {w} : v \in Living =>
        labelText[v].text # t /\ labelText[v].text # old /\ labelText[v].text \in Texts
  <2> SUFFICES ASSUME NEW v \in Labels \ {w}, v \in Living
               PROVE  labelText[v].text # t /\ labelText[v].text # old
    BY DEF Living
  <2>1. heap[labelText[v].text] # Free /\ heap[labelText[v].text].data = v
    BY DEF EveryTextIsTold
  <2>2. old # NoText => heap[old].data = w
    BY DEF EveryTextIsTold, Living
  <2>3. labelText[v].text # old
    BY <2>1, <2>2 DEF Living
  <2> QED
    BY <2>1, <2>3, <1>1
<1>6. Living' = Living \cup {w}
  BY <1>2, <1>3 DEF Living
<1>7. NoStray'
  <2> SUFFICES ASSUME NEW a \in Texts, heap'[a] # Free
               PROVE  labelText'[heap'[a].data].text = a
    BY DEF NoStray
  <2>1. CASE a = t
    <3>1. heap'[a].data = w
      BY <1>1, <2>1
    <3> QED
      BY <3>1, <2>1, <1>2
  <2>2. CASE a # t
    <3>1. a # old /\ heap'[a] = heap[a]
      BY <1>1, <2>2
    <3>2. labelText[heap[a].data].text = a /\ heap[a].data \in Labels
      BY <3>1 DEF NoStray, Text
    <3>3. heap[a].data # w
      BY <3>1, <3>2
    <3> QED
      BY <3>1, <3>2, <3>3, <1>3
  <2> QED
    BY <2>1, <2>2
<1>8. EveryTextIsTold'
  <2> SUFFICES ASSUME NEW v \in Living'
               PROVE  LET a == labelText'[v].text
                      IN  /\ heap'[a] # Free /\ heap'[a].data = v
                          /\ \A f \in heap'[a].uses : a \in functionMap'[f].users
    BY DEF EveryTextIsTold
  <2>1. CASE v = w
    <3>1. labelText'[v].text = t /\ heap'[t] = [uses |-> uses, data |-> w]
      BY <1>1, <1>2, <2>1
    <3>2. heap'[t] # Free
      BY <3>1 DEF Text
    <3>3. \A f \in uses : t \in functionMap'[f].users
      BY <1>1, AddTokensSpec
    <3> QED
      BY <2>1, <3>1, <3>2, <3>3
  <2>2. CASE v # w
    <3>1. v \in Living /\ v \in Labels
      BY <1>6, <2>2 DEF Living
    <3>2. labelText'[v] = labelText[v]
      BY <1>3, <2>2, <3>1
    <3>3. heap'[labelText[v].text] = heap[labelText[v].text]
      BY <1>1, <1>5, <2>2, <3>1
    <3>4. /\ heap[labelText[v].text] # Free /\ heap[labelText[v].text].data = v
          /\ \A f \in heap[labelText[v].text].uses : labelText[v].text \in functionMap[f].users
      BY <3>1 DEF EveryTextIsTold
    <3>5. heap[labelText[v].text].uses \subseteq Functions
      BY <3>1, <3>4, <1>5, <2>2 DEF Text
    <3>6. \A f \in Functions : functionMap[f].users \subseteq functionMap'[f].users
      BY <1>1, AddTokensSpec
    <3> QED
      BY <3>2, <3>3, <3>4, <3>5, <3>6
  <2> QED
    BY <2>1, <2>2
<1>9. ShowsItsUses' /\ NothingOfTheGone'
  <2> SUFFICES ASSUME NEW v \in Labels, NEW f \in Functions
               PROVE  /\ labelText'[v].shown[f] # "none" =>
                           v \in Living' /\ f \in heap'[labelText'[v].text].uses
                      /\ labelText'[v].shown[f] \in {"old", "current"} => functionMap'[f].proc
    BY DEF ShowsItsUses, NothingOfTheGone
  <2>1. functionMap'[f].proc = functionMap[f].proc
    BY <1>1, AddTokensSpec
  <2>2. CASE v = w
    <3>1. labelText'[v].text = t /\ labelText'[v].shown = Evaluate(functionMap, uses)
      BY <1>2, <2>2
    <3>2. heap'[t].uses = uses
      BY <1>1
    <3>3. Evaluate(functionMap, uses)[f] = IF f \notin uses THEN "none"
            ELSE IF functionMap[f].proc THEN "current" ELSE "name"
      BY DEF Evaluate
    <3>4. CASE f \in uses
      BY <3>1, <3>2, <3>3, <3>4, <2>1, <2>2, <1>6
    <3>5. CASE f \notin uses
      BY <3>1, <3>3, <3>5
    <3> QED
      BY <3>4, <3>5
  <2>3. CASE v # w
    <3>1. labelText'[v] = labelText[v]
      BY <1>3, <2>3
    <3>2. ASSUME labelText[v].shown[f] # "none"
          PROVE  v \in Living /\ f \in heap'[labelText[v].text].uses
      <4>1. v \in Living /\ f \in heap[labelText[v].text].uses
        BY <3>2 DEF ShowsItsUses
      <4>2. heap'[labelText[v].text] = heap[labelText[v].text]
        BY <1>1, <1>5, <2>3, <4>1
      <4> QED
        BY <4>1, <4>2
    <3> QED
      BY <3>1, <3>2, <2>1, <1>6 DEF NothingOfTheGone
  <2> QED
    BY <2>2, <2>3
<1> QED
  BY <1>4, <1>7, <1>8, <1>9

\* The destructor takes its own text, and no other, out of the users.
LEMMA DestroyKeeps ==
  ASSUME TextInv, NEW w \in Labels, DestroyWindow(w)
  PROVE  TextInv'
<1> DEFINE t == labelText[w].text
<1> USE FreeIsNoText, TypesOf DEF TextInv
<1>1. /\ w \in Living /\ t \in Texts
      /\ heap' = [heap EXCEPT ![t] = Free]
      /\ functionMap' = [f \in Functions |->
            IF f \in heap[t].uses THEN [functionMap[f] EXCEPT !.users = @ \ {t}]
                                  ELSE functionMap[f]]
      /\ labelText' = [labelText EXCEPT ![w] = NoLabel]
      /\ UNCHANGED <<owed, crashed>>
  BY DEF DestroyWindow, Living
<1>2. /\ labelText'[w] = NoLabel
      /\ \A v \in Labels \ {w} : labelText'[v] = labelText[v]
  BY <1>1
<1>3. NoLabel \in [text : Texts \cup {NoText}, shown : [Functions -> Output]]
  BY DEF NoLabel, Output
<1>4. \A f \in Functions : /\ functionMap'[f].proc = functionMap[f].proc
                           /\ functionMap[f].users \ {t} \subseteq functionMap'[f].users
                           /\ functionMap'[f] \in [proc : BOOLEAN, users : SUBSET Texts]
  BY <1>1
<1>5. TextTypeOK'
  <2>1. functionMap' \in [Functions -> [proc : BOOLEAN, users : SUBSET Texts]]
    <3>1. functionMap' = [f \in Functions |-> functionMap'[f]]
      BY <1>1
    <3> QED
      BY <1>4, <3>1
  <2>2. heap' \in [Texts -> Text \cup {Free}]
    BY <1>1
  <2>3. labelText' \in [Labels -> [text : Texts \cup {NoText}, shown : [Functions -> Output]]]
    BY <1>1, <1>3
  <2> QED
    BY <1>1, <2>1, <2>2, <2>3 DEF TextTypeOK, Text
<1>6. \A v \in Labels \ {w} : v \in Living =>
        labelText[v].text # t /\ heap'[labelText[v].text] = heap[labelText[v].text]
  <2> SUFFICES ASSUME NEW v \in Labels \ {w}, v \in Living
               PROVE  labelText[v].text # t /\ heap'[labelText[v].text] = heap[labelText[v].text]
    OBVIOUS
  <2>1. heap[labelText[v].text].data = v /\ heap[t].data = w /\ labelText[v].text \in Texts
    BY <1>1 DEF EveryTextIsTold, Living
  <2> QED
    BY <1>1, <2>1
<1>7. Living' = Living \ {w}
  BY <1>2 DEF Living, NoLabel
<1>8. NoStray'
  <2> SUFFICES ASSUME NEW a \in Texts, heap'[a] # Free
               PROVE  labelText'[heap'[a].data].text = a
    BY DEF NoStray
  <2>1. a # t /\ heap'[a] = heap[a]
    BY <1>1
  <2>2. labelText[heap[a].data].text = a /\ heap[a].data \in Labels
    BY <2>1 DEF NoStray, Text
  <2>3. heap[a].data # w
    BY <2>1, <2>2
  <2> QED
    BY <2>1, <2>2, <2>3, <1>2
<1>9. EveryTextIsTold'
  <2> SUFFICES ASSUME NEW v \in Living, v # w, v \in Labels
               PROVE  LET a == labelText[v].text
                      IN  /\ heap[a] # Free /\ heap[a].data = v
                          /\ \A f \in heap[a].uses : a \in functionMap'[f].users
    BY <1>2, <1>6, <1>7 DEF EveryTextIsTold, Living
  <2>1. /\ heap[labelText[v].text] # Free /\ heap[labelText[v].text].data = v
        /\ \A f \in heap[labelText[v].text].uses : labelText[v].text \in functionMap[f].users
        /\ labelText[v].text \in Texts
    BY DEF EveryTextIsTold, Living
  <2>2. heap[labelText[v].text].uses \subseteq Functions
    BY <2>1 DEF Text
  <2> QED
    BY <2>1, <2>2, <1>4, <1>6
<1>10. ShowsItsUses' /\ NothingOfTheGone'
  <2> SUFFICES ASSUME NEW v \in Labels, NEW f \in Functions
               PROVE  /\ labelText'[v].shown[f] # "none" =>
                           v \in Living' /\ f \in heap'[labelText'[v].text].uses
                      /\ labelText'[v].shown[f] \in {"old", "current"} => functionMap'[f].proc
    BY DEF ShowsItsUses, NothingOfTheGone
  <2>1. CASE v = w
    BY <1>2, <2>1 DEF NoLabel
  <2>2. CASE v # w
    BY <1>2, <1>4, <1>6, <1>7, <2>2 DEF ShowsItsUses, NothingOfTheGone
  <2> QED
    BY <2>1, <2>2
<1> QED
  BY <1>5, <1>8, <1>9, <1>10

----------------------------------------------------------------------------
(* The theorems.                                                            *)

LEMMA TextInvNext == TextInv /\ [TextNext]_textVars => TextInv'
<1> SUFFICES ASSUME TextInv, [TextNext]_textVars
             PROVE  TextInv'
  OBVIOUS
<1> DEFINE Typed(map) == map \in [Functions -> [proc : BOOLEAN, users : SUBSET Texts]]
<1>1. Typed(functionMap) /\ TimerFunctions \in SUBSET Functions
                         /\ ModuleFunctions \in SUBSET Functions /\ owed \in BOOLEAN
  BY FreeIsNoText DEF TextInv, TextTypeOK, ModuleFunctions
<1>2. CASE \E w \in Labels, t \in Texts, uses \in SUBSET Functions : SetText(w, t, uses)
  BY <1>2, SetTextKeeps
<1>3. CASE \E w \in Labels : DestroyWindow(w)
  BY <1>3, DestroyKeeps
<1>4. CASE TimePasses
  BY <1>1, <1>4, AgingKeeps DEF TimePasses
<1>5. CASE Timer
  BY <1>1, <1>5, NotifyKeeps DEF Timer
<1>6. CASE LoadModule
  <2>1. /\ Typed(functionMap')
        /\ \A f \in Functions : /\ functionMap'[f].users = functionMap[f].users
                                /\ functionMap[f].proc => functionMap'[f].proc
        /\ UNCHANGED <<heap, labelText, crashed>> /\ owed' \in BOOLEAN
    <3>1. /\ functionMap' = Procs(functionMap, ModuleFunctions, TRUE)
          /\ owed' = TRUE
          /\ UNCHANGED <<heap, labelText, crashed>>
      BY <1>6 DEF LoadModule
    <3>2. /\ functionMap \in [Functions -> [proc : BOOLEAN, users : SUBSET Texts]]
          /\ ModuleFunctions \in SUBSET Functions
      BY <1>1
    <3> QED
      BY <3>1, <3>2 DEF Procs
  <2>2. TextTypeOK'
    BY <2>1 DEF TextInv, TextTypeOK
  <2>3. EveryTextIsTold'
    <3> SUFFICES ASSUME NEW w \in Living
                 PROVE  LET t == labelText[w].text
                        IN  /\ heap[t] # Free /\ heap[t].data = w
                            /\ \A f \in heap[t].uses : t \in functionMap'[f].users
      BY <2>1 DEF EveryTextIsTold, Living
    <3>1. /\ heap[labelText[w].text] # Free /\ heap[labelText[w].text].data = w
          /\ \A f \in heap[labelText[w].text].uses : labelText[w].text \in functionMap[f].users
      BY DEF TextInv, EveryTextIsTold
    <3>2. heap[labelText[w].text].uses \subseteq Functions
      BY <3>1, TypesOf DEF TextInv, Living, Text
    <3> QED
      BY <2>1, <3>1, <3>2
  <2>4. NoStray' /\ ShowsItsUses' /\ NothingOfTheGone'
    BY <2>1 DEF TextInv, NoStray, ShowsItsUses, NothingOfTheGone, Living
  <2> QED
    BY <2>2, <2>3, <2>4 DEF TextInv
<1>7. CASE NewValues
  BY <1>1, <1>7, AgingKeeps DEF NewValues
<1>8. CASE Announce
  BY <1>1, <1>8, NotifyKeeps DEF Announce
<1>9. CASE UnloadModule
  <2> DEFINE map == Procs(functionMap, ModuleFunctions, FALSE)
  <2>1. /\ Typed(map)
        /\ \A f \in Functions : map[f].users = functionMap[f].users
        /\ \A f \in Functions \ ModuleFunctions : functionMap[f].proc => map[f].proc
    <3>1. /\ functionMap \in [Functions -> [proc : BOOLEAN, users : SUBSET Texts]]
          /\ ModuleFunctions \in SUBSET Functions
      BY <1>1
    <3> QED
      BY <3>1 DEF Procs
  <2>2. Notify(map, ModuleFunctions) /\ UNCHANGED heap /\ owed' \in BOOLEAN
    BY <1>9 DEF UnloadModule
  <2> HIDE DEF map
  <2> QED
    BY <1>1, <2>1, <2>2, NotifyKeeps
<1>10. CASE Crashed \/ UNCHANGED textVars
  BY <1>10 DEF Crashed, textVars, TextInv, TextTypeOK, NoStray, EveryTextIsTold, ShowsItsUses,
               NothingOfTheGone, Living
<1> QED
  BY <1>2, <1>3, <1>4, <1>5, <1>6, <1>7, <1>8, <1>9, <1>10 DEF TextNext

LEMMA TextInvAlways == TextSpec => []TextInv
BY TextInvInit, TextInvNext, PTL DEF TextSpec

\* The registry of functions, the heap and the labels stay well typed for any
\* labels, functions and addresses.
THEOREM TextTypeCorrect == TextSpec => []TextTypeOK
BY TextInvAlways, PTL DEF TextInv

\* Whatever was freed and allocated at its address before, the text of a window
\* is among the users of every function it calls (AddToken, ~ParsedText, SetText).
THEOREM TextsAreTold == TextSpec => []EveryTextIsTold
BY TextInvAlways, PTL DEF TextInv

\* No window shows the output of a procedure that is gone, although the users
\* that are told include texts that were freed (UnRegisterDynamicTextFunction).
THEOREM GoneIsNotShown == TextSpec => []NothingOfTheGone
BY TextInvAlways, PTL DEF TextInv

----------------------------------------------------------------------------
(* The parser.                                                             *)

(* Induction on the naturals, for a set that holds the numbers in question. *)

LEMMA UpTo ==
  ASSUME NEW m \in Nat, NEW P, 0 \in P,
         \A n \in 0..m : n \in P /\ n < m => n + 1 \in P
  PROVE  0..m \subseteq P
<1> DEFINE off == (0..m) \ P
           less == OpToRel(<, Nat)
<1>1. SUFFICES ASSUME off # {} PROVE FALSE
  OBVIOUS
<1>2. off \subseteq Nat
  OBVIOUS
<1>3. \A j, k \in Nat : j < k => <<j, k>> \in less
  BY DEF OpToRel
<1>4. IsWellFoundedOn(less, Nat)
  BY NatLessThanWellFounded DEF OpToRel
<1> HIDE DEF less
<1>5. PICK n \in off : \A k \in off : ~(<<k, n>> \in less)
  <2> HIDE DEF off
  <2> QED
    BY <1>1, <1>2, <1>4, WFMin
<1>6. n # 0 /\ n \in 0..m
  OBVIOUS
<1>7. n - 1 \in 0..m /\ n - 1 < m /\ n - 1 < n /\ n - 1 \in Nat /\ n \in Nat
  BY <1>6
<1>8. n - 1 \in P
  BY <1>3, <1>5, <1>7
<1>9. (n - 1) + 1 \in P
  BY <1>7, <1>8
<1> QED
  BY <1>5, <1>7, <1>9

----------------------------------------------------------------------------
(* FlattenSeq.                                                              *)

\* f holds what the beginnings of s come to.
Flattens(f, s) ==
  f = [i \in 1..Len(s) |-> IF i = 1 THEN s[i] ELSE f[i - 1] \o s[i]]

LEMMA FlattenExists ==
  ASSUME NEW S, NEW s \in Seq(Seq(S))
  PROVE  \E f : Flattens(f, s)
<1> DEFINE m == Len(s)
           P == {n \in 0..m : \E f : f = [i \in 1..n |-> IF i = 1 THEN s[i] ELSE f[i - 1] \o s[i]]}
<1>1. m \in Nat
  OBVIOUS
<1> HIDE DEF m
<1>2. 0 \in P
  <2> DEFINE f == [i \in 1..0 |-> {}]
  <2>1. \A i : i \notin 1..0
    OBVIOUS
  <2>2. f = [i \in 1..0 |-> IF i = 1 THEN s[i] ELSE f[i - 1] \o s[i]]
    BY <2>1
  <2> HIDE DEF f
  <2>3. \E h : h = [i \in 1..0 |-> IF i = 1 THEN s[i] ELSE h[i - 1] \o s[i]]
    BY <2>2
  <2>4. 0 \in 0..m
    BY <1>1
  <2> QED
    BY <2>3, <2>4
<1>3. ASSUME NEW n \in 0..m, n \in P, n < m
      PROVE  n + 1 \in P
  <2>1. PICK f : f = [i \in 1..n |-> IF i = 1 THEN s[i] ELSE f[i - 1] \o s[i]]
    BY <1>3
  <2> DEFINE g == [i \in 1..(n + 1) |-> IF i \in 1..n THEN f[i]
                                        ELSE IF i = 1 THEN s[i] ELSE f[i - 1] \o s[i]]
  <2>2. ASSUME NEW i \in 1..(n + 1)
        PROVE  g[i] = IF i = 1 THEN s[i] ELSE g[i - 1] \o s[i]
    <3>1. i # 1 => i - 1 \in 1..n
      BY <1>3
    <3>2. i # 1 => g[i - 1] = f[i - 1]
      BY <1>3, <3>1
    <3>3. CASE i \in 1..n
      <4>1. f[i] = IF i = 1 THEN s[i] ELSE f[i - 1] \o s[i]
        BY <2>1, <3>3
      <4>2. g[i] = f[i]
        BY <3>3
      <4> HIDE DEF g
      <4> QED
        BY <3>2, <4>1, <4>2
    <3>4. CASE i \notin 1..n
      <4>1. g[i] = IF i = 1 THEN s[i] ELSE f[i - 1] \o s[i]
        BY <3>4
      <4> HIDE DEF g
      <4> QED
        BY <3>2, <4>1
    <3> QED
      BY <3>3, <3>4
  <2>3. g = [i \in 1..(n + 1) |-> g[i]]
    OBVIOUS
  <2> HIDE DEF g
  <2>4. g = [i \in 1..(n + 1) |-> IF i = 1 THEN s[i] ELSE g[i - 1] \o s[i]]
    BY <2>2, <2>3
  <2>5. \E h : h = [i \in 1..(n + 1) |-> IF i = 1 THEN s[i] ELSE h[i - 1] \o s[i]]
    BY <2>4
  <2>6. n + 1 \in 0..m
    BY <1>1, <1>3
  <2> QED
    BY <2>5, <2>6
<1> HIDE DEF P
<1>4. 0..m \subseteq P
  BY <1>1, <1>2, <1>3, UpTo
<1>5. m \in 0..m
  BY <1>1
<1>6. \E f : f = [i \in 1..m |-> IF i = 1 THEN s[i] ELSE f[i - 1] \o s[i]]
  <2>1. m \in P
    BY <1>4, <1>5
  <2> QED
    BY <2>1 DEF P
<1> QED
  BY <1>6 DEF Flattens, m

\* So far as s goes there is but one such function.
Begins(f, s) == \A i \in 1..Len(s) : f[i] = IF i = 1 THEN s[i] ELSE f[i - 1] \o s[i]

LEMMA FlattenUnique ==
  ASSUME NEW S, NEW s \in Seq(Seq(S)), NEW f, NEW g, Begins(f, s), Begins(g, s)
  PROVE  \A i \in 1..Len(s) : f[i] = g[i] /\ f[i] \in Seq(S)
<1> DEFINE k == Len(s)
           P == {n \in 0..k : n # 0 => f[n] = g[n] /\ f[n] \in Seq(S)}
<1>1. k \in Nat /\ \A i \in 1..k : s[i] \in Seq(S)
  OBVIOUS
<1>2. 0 \in P
  BY <1>1
<1>3. ASSUME NEW n \in 0..k, n \in P, n < k
      PROVE  n + 1 \in P
  <2>1. PICK j \in 1..k : j = n + 1 /\ j - 1 = n
    BY <1>1, <1>3
  <2>2. /\ f[j] = IF j = 1 THEN s[j] ELSE f[j - 1] \o s[j]
        /\ g[j] = IF j = 1 THEN s[j] ELSE g[j - 1] \o s[j]
        /\ s[j] \in Seq(S)
    BY <1>1 DEF Begins
  <2>3. f[j] = g[j] /\ f[j] \in Seq(S)
    <3>1. CASE n = 0
      BY <2>1, <2>2, <3>1
    <3>2. CASE n # 0
      <4>1. f[n] = g[n] /\ f[n] \in Seq(S)
        BY <1>3, <3>2
      <4>2. f[j] = f[n] \o s[j] /\ g[j] = g[n] \o s[j]
        <5>1. j # 1
          BY <2>1, <3>2
        <5>2. f[j] = f[j - 1] \o s[j] /\ g[j] = g[j - 1] \o s[j]
          BY <2>2, <5>1
        <5> QED
          BY <2>1, <5>2
      <4>3. f[n] \o s[j] \in Seq(S)
        BY <2>2, <4>1
      <4> QED
        BY <4>1, <4>2, <4>3
    <3> QED
      BY <3>1, <3>2
  <2>4. j \in 0..k
    BY <1>1, <2>1
  <2>5. j \in P
    BY <2>3, <2>4
  <2> QED
    BY <2>1, <2>5
<1> HIDE DEF P
<1>4. 0..k \subseteq P
  BY <1>1, <1>2, <1>3, UpTo
<1>5. \A i \in 1..k : i \in 0..k /\ i # 0
  BY <1>1
<1> QED
  BY <1>4, <1>5 DEF P

LEMMA FlattenNone == SeqExt!FlattenSeq(<<>>) = <<>>
BY DEF SeqExt!FlattenSeq

LEMMA FlattenIs ==
  ASSUME NEW S, NEW s \in Seq(Seq(S)), s # <<>>
  PROVE  \E f : Flattens(f, s) /\ SeqExt!FlattenSeq(s) = f[Len(s)]
<1> DEFINE f == CHOOSE f : Flattens(f, s)
<1>1. Flattens(f, s)
  BY FlattenExists
<1>2. SeqExt!FlattenSeq(s) = f[Len(s)]
  BY DEF SeqExt!FlattenSeq, Flattens
<1> QED
  BY <1>1, <1>2

LEMMA FlattenAppend ==
  ASSUME NEW S, NEW s \in Seq(Seq(S)), NEW t \in Seq(S), SeqExt!FlattenSeq(s) \in Seq(S)
  PROVE  SeqExt!FlattenSeq(Append(s, t)) = SeqExt!FlattenSeq(s) \o t
<1> DEFINE u == Append(s, t)
           m == Len(s)
<1>1. /\ u \in Seq(Seq(S)) /\ u # <<>> /\ Len(u) = m + 1 /\ m \in Nat
      /\ \A i \in 1..m : u[i] = s[i] /\ s[i] \in Seq(S)
      /\ u[m + 1] = t
  <2>1. /\ u \in Seq(Seq(S)) /\ u # <<>> /\ Len(u) = m + 1
        /\ \A i \in 1..m : u[i] = s[i]
        /\ u[m + 1] = t
    BY AppendProperties
  <2>2. m \in Nat /\ \A i \in 1..m : s[i] \in Seq(S)
    OBVIOUS
  <2> QED
    BY <2>1, <2>2
<1> HIDE DEF u
<1>2. PICK g : Flattens(g, u) /\ SeqExt!FlattenSeq(u) = g[Len(u)]
  BY <1>1, FlattenIs
<1>3. \A i \in 1..(m + 1) : g[i] = IF i = 1 THEN u[i] ELSE g[i - 1] \o u[i]
  BY <1>1, <1>2 DEF Flattens
<1>4. m + 1 \in 1..(m + 1) /\ (m + 1) - 1 = m
  BY <1>1
<1>5. g[m + 1] = IF m = 0 THEN t ELSE g[m] \o t
  <2>1. PICK j \in 1..(m + 1) : j = m + 1 /\ j - 1 = m
    BY <1>4
  <2>2. g[j] = IF j = 1 THEN u[j] ELSE g[j - 1] \o u[j]
    BY <1>3
  <2>3. u[j] = t /\ (j = 1 <=> m = 0)
    BY <1>1, <2>1
  <2> QED
    BY <2>1, <2>2, <2>3
<1>6. CASE s = <<>>
  <2>1. m = 0 /\ SeqExt!FlattenSeq(s) = <<>>
    BY <1>6, FlattenNone
  <2>2. SeqExt!FlattenSeq(u) = t
    BY <1>1, <1>2, <1>5, <2>1
  <2>3. <<>> \o t = t
    OBVIOUS
  <2> QED
    BY <2>1, <2>2, <2>3 DEF u
<1>7. CASE s # <<>>
  <2>1. m # 0
    BY <1>1, <1>7
  <2>2. PICK f : Flattens(f, s) /\ SeqExt!FlattenSeq(s) = f[m]
    BY <1>7, FlattenIs
  <2>3. Begins(f, s)
    BY <2>2 DEF Flattens, Begins
  <2>4. Begins(g, s)
    <3>1. ASSUME NEW i \in 1..m
          PROVE  g[i] = IF i = 1 THEN s[i] ELSE g[i - 1] \o s[i]
      <4>1. i \in 1..(m + 1) /\ u[i] = s[i]
        BY <1>1
      <4>2. g[i] = IF i = 1 THEN u[i] ELSE g[i - 1] \o u[i]
        BY <1>3, <4>1
      <4> QED
        BY <4>1, <4>2
    <3> QED
      BY <3>1 DEF Begins
  <2>5. m \in 1..Len(s)
    BY <1>1, <2>1
  <2>6. f[m] = g[m]
    BY <2>3, <2>4, <2>5, FlattenUnique
  <2>7. SeqExt!FlattenSeq(u) = g[m] \o t
    BY <1>1, <1>2, <1>5, <2>1
  <2> QED
    BY <2>2, <2>6, <2>7 DEF u
<1> QED
  BY <1>6, <1>7

----------------------------------------------------------------------------
(* The characters of a text.                                                *)

LEMMA CharIs ==
  ASSUME text \in Seq(Characters), NEW i \in Nat
  PROVE  /\ Char(i) # Terminator => i \in 1..Len(text)
         /\ i \in 1..Len(text) => Char(i) = text[i] /\ Char(i) \in Characters /\ Char(i) # Terminator
<1>1. DOMAIN text = 1..Len(text) /\ \A k \in 1..Len(text) : text[k] \in Characters
  OBVIOUS
<1> QED
  BY <1>1, ParserAssumption DEF Char, ParserAssumption

LEMMA FindIs ==
  ASSUME text \in Seq(Characters), NEW i \in Nat, NEW c
  PROVE  \/ Find(i, c) = 0
         \/ Find(i, c) \in 1..Len(text) /\ Find(i, c) >= i /\ text[Find(i, c)] = c
<1> DEFINE found == {k \in DOMAIN text : k >= i /\ text[k] = c}
           less == OpToRel(<, Nat)
<1>1. found \subseteq Nat /\ DOMAIN text = 1..Len(text)
  OBVIOUS
<1>2. CASE found = {}
  BY <1>2 DEF Find
<1>3. CASE found # {}
  <2>1. \A j, k \in Nat : j < k => <<j, k>> \in less
    BY DEF OpToRel
  <2>2. IsWellFoundedOn(less, Nat)
    BY NatLessThanWellFounded DEF OpToRel
  <2> HIDE DEF less
  <2>3. PICK k \in found : \A m \in found : ~(<<m, k>> \in less)
    <3> HIDE DEF found
    <3> QED
      BY <1>1, <1>3, <2>2, WFMin
  <2>4. \A m \in found : k <= m
    <3> TAKE m \in found
    <3>1. k \in Nat /\ m \in Nat /\ ~(m < k)
      BY <1>1, <2>1, <2>3
    <3> QED
      BY <3>1
  <2>5. \E l \in found : \A m \in found : l <= m
    BY <2>4
  <2>6. Find(i, c) = CHOOSE l \in found : \A m \in found : l <= m
    BY <1>3 DEF Find
  <2> HIDE DEF found
  <2>7. Find(i, c) \in found
    BY <2>5, <2>6
  <2> QED
    BY <1>1, <2>7 DEF found
<1> QED
  BY <1>2, <1>3

\* The inside of a text from a to b.
LEMMA PieceIs ==
  ASSUME NEW S, NEW s \in Seq(S), NEW a \in 1..(Len(s) + 1), NEW b \in 0..Len(s)
  PROVE  SubSeq(s, a, b) \in Seq(S)
OBVIOUS

LEMMA PiecesJoin ==
  ASSUME NEW S, NEW s \in Seq(S), NEW a \in 1..(Len(s) + 1), NEW b \in (a - 1)..Len(s)
  PROVE  SubSeq(s, 1, a - 1) \o SubSeq(s, a, b) = SubSeq(s, 1, b)
<1>1. Len(s) \in Nat /\ 1 \in 1..(Len(s) + 1) /\ a - 1 \in 0..Len(s) /\ b \in (a - 1)..Len(s)
  OBVIOUS
<1>2. SubSeq(s, 1, a - 1) \o SubSeq(s, (a - 1) + 1, b) = SubSeq(s, 1, b)
  BY <1>1, ConcatAdjacentSubSeq
<1>3. (a - 1) + 1 = a
  OBVIOUS
<1> QED
  BY <1>2, <1>3

----------------------------------------------------------------------------
(* The tokens.                                                              *)

Marks == Characters \cup {"[", "]"}

Shows(ts) == [i \in 1..Len(ts) |-> Shown(ts[i])]

\* The text the tokens show.
Whole(ts) == SeqExt!FlattenSeq(Shows(ts))

LEMMA ShownIs ==
  ASSUME NEW t \in Token
  PROVE  Shown(t) \in Seq(Marks)
<1>1. t.text \in Seq(Marks)
  BY DEF Token, Marks
<1>2. <<"[">> \in Seq(Marks) /\ <<"]">> \in Seq(Marks)
  BY DEF Marks
<1> QED
  BY <1>1, <1>2 DEF Shown

LEMMA ShowsAre ==
  ASSUME NEW ts \in Seq(Token)
  PROVE  Shows(ts) \in Seq(Seq(Marks)) /\ Len(Shows(ts)) = Len(ts)
<1>1. \A i \in 1..Len(ts) : Shown(ts[i]) \in Seq(Marks)
  BY ShownIs
<1> QED
  BY <1>1 DEF Shows

LEMMA WholeAppend ==
  ASSUME NEW ts \in Seq(Token), NEW t \in Token, Whole(ts) \in Seq(Marks)
  PROVE  Whole(Append(ts, t)) = Whole(ts) \o Shown(t)
<1>1. Shows(ts) \in Seq(Seq(Marks)) /\ Shown(t) \in Seq(Marks) /\ Len(Shows(ts)) = Len(ts)
  BY ShowsAre, ShownIs
<1>2. Shows(Append(ts, t)) = Append(Shows(ts), Shown(t))
  <2> DEFINE u == Append(ts, t)
             v == Append(Shows(ts), Shown(t))
             n == Len(ts)
  <2>1. /\ u \in Seq(Token) /\ Len(u) = n + 1 /\ u[n + 1] = t
        /\ \A i \in 1..n : u[i] = ts[i]
    BY AppendProperties
  <2>2. /\ v \in Seq(Seq(Marks)) /\ Len(v) = n + 1 /\ v[n + 1] = Shown(t)
        /\ \A i \in 1..n : v[i] = Shows(ts)[i]
    BY <1>1, AppendProperties
  <2>3. n \in Nat /\ \A i \in 1..n : Shows(ts)[i] = Shown(ts[i])
    BY DEF Shows
  <2> HIDE DEF u, v, n
  <2>4. \A i \in 1..(n + 1) : v[i] = Shown(u[i])
    <3> TAKE i \in 1..(n + 1)
    <3>1. i \in 1..n \/ i = n + 1
      BY <2>3
    <3> QED
      BY <2>1, <2>2, <2>3, <3>1
  <2>5. v = [i \in 1..(n + 1) |-> v[i]]
    BY <2>2
  <2>6. v = [i \in 1..(n + 1) |-> Shown(u[i])]
    BY <2>4, <2>5
  <2>7. Shows(u) = v
    BY <2>1, <2>6 DEF Shows
  <2> QED
    BY <2>7 DEF u, v
<1> QED
  BY <1>1, <1>2, FlattenAppend DEF Whole

LEMMA WholeNone == Whole(<<>>) = <<>>
<1>1. Shows(<<>>) = <<>>
  BY DEF Shows
<1> QED
  BY <1>1, FlattenNone DEF Whole

\* An expression shows what lies between its brackets, with the brackets.
LEMMA BracketsShow ==
  ASSUME text \in Seq(Characters), NEW a \in 1..Len(text), NEW b \in (a + 1)..Len(text),
         text[a] = "[", text[b] = "]"
  PROVE  (<<"[">> \o SubSeq(text, a + 1, b - 1)) \o <<"]">> = SubSeq(text, a, b)
<1> DEFINE inside == SubSeq(text, a + 1, b - 1)
<1>1. Len(text) \in Nat /\ a + 1 \in 1..Len(text) /\ b \in a..Len(text)
  OBVIOUS
<1>2. SubSeq(text, a, b) = <<text[a]>> \o SubSeq(text, a + 1, b)
  BY <1>1, SubSeqRecursiveFirst
<1>3. SubSeq(text, a + 1, b) = inside \o <<text[b]>>
  BY <1>1, SubSeqRecursiveSecond
<1>4. inside \in Seq(Characters) /\ inside \in Seq(Marks)
  <2>1. a + 1 \in 1..(Len(text) + 1) /\ b - 1 \in 0..Len(text)
    BY <1>1
  <2>2. inside \in Seq(Characters)
    BY <2>1, PieceIs
  <2> QED
    BY <2>2 DEF Marks
<1>5. <<"[">> \in Seq(Marks) /\ <<"]">> \in Seq(Marks)
  BY DEF Marks
<1> HIDE DEF inside
<1>6. (<<"[">> \o inside) \o <<"]">> = <<"[">> \o (inside \o <<"]">>)
  BY <1>4, <1>5, ConcatAssociative
<1> QED
  BY <1>2, <1>3, <1>6 DEF inside

----------------------------------------------------------------------------
(* The invariant: where the parser is and what it has read.                 *)

Inside == {"name", "arguments", "success"}

\* The brackets: the expression begins behind the tokens, at a "[", and the
\* parser is beyond it; it has come to the "]" when it is done.
InBrackets ==
  /\ mode = "begin" /\ searchPos # 0 => pos <= searchPos
  /\ mode = "failure" /\ searchPos # 0 => pos < searchPos
  /\ mode \in Inside => /\ expressionStart \in 1..Len(text) /\ text[expressionStart] = "["
                        /\ pos <= expressionStart /\ expressionStart < searchPos
  /\ mode = "success" => Char(searchPos) = "]"

\* The pieces are sequences of characters.
PiecesTyped ==
  /\ text \in Seq(Characters)
  /\ functionName \in Seq(Characters)
  /\ arguments \in Seq(Seq(Characters))
  /\ tokens \in Seq(Token)

ParserInv ==
  /\ ParserTypeOK /\ PiecesTyped /\ InBrackets
  /\ pos # 0
  /\ Whole(tokens) = IF finished THEN text ELSE SubSeq(text, 1, pos - 1)

LEMMA ParserInvInit == ParserInit => ParserInv
<1> SUFFICES ASSUME ParserInit PROVE ParserInv
  OBVIOUS
<1> USE DEF ParserInit
<1>1. text \in Seq(Characters)
  BY ParserAssumption DEF ParserAssumption
<1>2. ParserTypeOK
  <2>1. Len(text) \in Nat
    BY <1>1
  <2>2. 0 \in 0..(Len(text) + 1) /\ 1 \in 0..(Len(text) + 1)
    BY <2>1
  <2> QED
    BY <2>2 DEF ParserTypeOK, Modes
<1>3. PiecesTyped
  BY <1>1 DEF PiecesTyped
<1>4. InBrackets
  BY DEF InBrackets, Inside
<1>5. SubSeq(text, 1, pos - 1) = <<>>
  BY <1>1
<1> QED
  <2>1. Whole(tokens) = <<>> /\ ~finished /\ pos # 0
    BY WholeNone
  <2> QED
    BY <1>2, <1>3, <1>4, <1>5, <2>1 DEF ParserInv

\* Where nothing is put into the tokens, what they show stays.
LEMMA TokensStay ==
  ASSUME ParserInv, ~finished, UNCHANGED <<text, written, pos, tokens, finished>>
  PROVE  pos' # 0 /\ Whole(tokens)' = IF finished' THEN text' ELSE SubSeq(text, 1, pos - 1)'
BY DEF ParserInv, Whole, Shows

LEMMA Here ==
  ASSUME ParserInv, Parsing
  PROVE  /\ searchPos \in 1..Len(text) /\ Len(text) \in Nat /\ searchPos \in Nat
         /\ pos \in 1..(Len(text) + 1)
         /\ expressionStart \in 0..(Len(text) + 1) /\ argumentStart \in 0..(Len(text) + 1)
<1>1. searchPos \in Nat /\ text \in Seq(Characters)
  BY DEF ParserInv, ParserTypeOK, PiecesTyped
<1> QED
  BY <1>1, CharIs DEF ParserInv, ParserTypeOK, Parsing

LEMMA SearchBeginningKeeps ==
  ASSUME ParserInv, Parsing, SearchBeginning, ~finished, UNCHANGED <<text, written, finished>>
  PROVE  ParserInv'
<1> DEFINE p == Find(searchPos, "[")
<1>1. /\ mode = "begin"
      /\ IF p = 0
           THEN searchPos' = 0 /\ UNCHANGED <<mode, expressionStart>>
           ELSE expressionStart' = p /\ searchPos' = p + 1 /\ mode' = "name"
      /\ UNCHANGED <<pos, functionName, arguments, argumentStart, tokens>>
  BY DEF SearchBeginning
<1>2. ParserTypeOK /\ PiecesTyped /\ InBrackets
  BY DEF ParserInv
<1>3. p = 0 \/ (p \in 1..Len(text) /\ p >= searchPos /\ text[p] = "[")
  <2>1. text \in Seq(Characters) /\ searchPos \in Nat
    BY <1>2, Here DEF PiecesTyped
  <2>2. \A c : \/ Find(searchPos, c) = 0
               \/ /\ Find(searchPos, c) \in 1..Len(text) /\ Find(searchPos, c) >= searchPos
                  /\ text[Find(searchPos, c)] = c
    BY <2>1, FindIs
  <2> QED
    BY <2>2
<1> HIDE DEF p
<1>4. ParserTypeOK'
  BY <1>1, <1>2, <1>3, Here DEF ParserTypeOK, Modes
<1>5. PiecesTyped'
  BY <1>1, <1>2 DEF PiecesTyped
<1>6. InBrackets'
  BY <1>1, <1>2, <1>3, Here DEF InBrackets, Inside
<1> QED
  BY <1>1, <1>4, <1>5, <1>6, TokensStay DEF ParserInv

LEMMA ReadNameKeeps ==
  ASSUME ParserInv, Parsing, ReadName, ~finished, UNCHANGED <<text, written, finished>>
  PROVE  ParserInv'
<1> DEFINE p == searchPos + 1
           OpensArguments == Char(p) = "(" /\ Char(p + 1) = "'"
           name == SubSeq(text, expressionStart + 1, p - 1)
<1>1. /\ mode = "name"
      /\ mode' = CASE Char(p) = "]"      -> "success"
                   [] OpensArguments     -> "arguments"
                   [] Char(p) \in Alnum  -> "name"
                   [] OTHER              -> "failure"
      /\ searchPos' = IF Char(p) = "(" THEN p + 1 ELSE p
      /\ functionName' = IF Char(p) = "]" \/ OpensArguments THEN name ELSE functionName
      /\ argumentStart' = IF OpensArguments THEN p + 1 ELSE argumentStart
      /\ UNCHANGED <<pos, expressionStart, arguments, tokens>>
  BY DEF ReadName
<1>2. ParserTypeOK /\ PiecesTyped /\ InBrackets
  BY DEF ParserInv
<1>3. /\ p \in 1..(Len(text) + 1) /\ p \in Nat
      /\ Char(p) = "(" => p + 1 \in 1..(Len(text) + 1)
  <2>1. p \in 1..(Len(text) + 1) /\ p \in Nat
    BY Here
  <2>2. Char(p) = "(" => p \in 1..Len(text)
    BY <1>2, <2>1, CharIs DEF PiecesTyped, Terminator
  <2> QED
    BY <2>1, <2>2
<1>4. name \in Seq(Characters)
  <2>1. expressionStart + 1 \in 1..(Len(text) + 1) /\ p - 1 \in 0..Len(text)
    BY <1>1, <1>2, Here DEF InBrackets, Inside
  <2> QED
    BY <1>2, <2>1, PieceIs DEF PiecesTyped
<1>5. searchPos < p /\ p < p + 1
  BY Here
<1> HIDE DEF p, name
<1>6. /\ mode' \in {"success", "arguments", "name", "failure"}
      /\ mode' = "success" => Char(p) = "]"
  BY <1>1
<1>7. searchPos' \in 1..(Len(text) + 1) /\ searchPos < searchPos'
  BY <1>1, <1>3, <1>5, Here
<1>8. argumentStart' \in 0..(Len(text) + 1)
  BY <1>1, <1>3, Here
<1>9. ParserTypeOK'
  BY <1>1, <1>2, <1>6, <1>7, <1>8, Here DEF ParserTypeOK, Modes
<1>10. PiecesTyped'
  BY <1>1, <1>2, <1>4 DEF PiecesTyped
<1>11. InBrackets'
  <2>1. mode' = "success" => Char(searchPos)' = "]"
    BY <1>1, <1>6 DEF Char
  <2>2. /\ expressionStart' \in 1..Len(text') /\ text'[expressionStart'] = "["
        /\ pos' <= expressionStart' /\ expressionStart' < searchPos'
    BY <1>1, <1>2, <1>7, Here DEF InBrackets, Inside
  <2>3. pos' < searchPos'
    BY <1>7, <2>2, Here, <1>1
  <2> QED
    BY <1>6, <2>1, <2>2, <2>3 DEF InBrackets
<1> QED
  BY <1>1, <1>9, <1>10, <1>11, TokensStay DEF ParserInv

LEMMA CommaIs == Comma # ")"
BY Zenon DEF Comma

LEMMA ReadArgumentKeeps ==
  ASSUME ParserInv, Parsing, ReadArgument, ~finished, UNCHANGED <<text, written, finished>>
  PROVE  ParserInv'
<1> DEFINE q == Find(searchPos + 1, "'")
           another == Char(q + 1) = Comma /\ Char(q + 2) = Space /\ Char(q + 3) = "'"
           closes  == Char(q + 1) = ")" /\ Char(q + 2) = "]"
<1>1. /\ mode = "arguments"
      /\ UNCHANGED <<pos, expressionStart, functionName, tokens>>
  BY DEF ReadArgument
<1>2. ParserTypeOK /\ PiecesTyped /\ InBrackets
  BY DEF ParserInv
<1>3. q = 0 \/ (q \in 1..Len(text) /\ q >= searchPos + 1)
  <2>1. text \in Seq(Characters) /\ searchPos + 1 \in Nat
    BY <1>2, Here DEF PiecesTyped
  <2>2. \A c : \/ Find(searchPos + 1, c) = 0
               \/ Find(searchPos + 1, c) \in 1..Len(text) /\ Find(searchPos + 1, c) >= searchPos + 1
    BY <2>1, FindIs
  <2> QED
    BY <2>2
<1>4. CASE q = 0
  <2>1. mode' = "failure" /\ searchPos' = 0 /\ UNCHANGED <<arguments, argumentStart>>
    BY <1>4 DEF ReadArgument
  <2>2. ParserTypeOK'
    BY <1>1, <1>2, <2>1, Here DEF ParserTypeOK, Modes
  <2>3. PiecesTyped'
    BY <1>1, <1>2, <2>1 DEF PiecesTyped
  <2>4. InBrackets'
    BY <2>1 DEF InBrackets, Inside
  <2> QED
    BY <1>1, <2>2, <2>3, <2>4, TokensStay DEF ParserInv
<1>6. CASE q # 0 /\ Len(arguments) = MaxNumArgs
  <2>1. mode' = "overrun" /\ UNCHANGED <<searchPos, arguments, argumentStart>>
    BY <1>6 DEF ReadArgument
  <2>2. ParserTypeOK'
    BY <1>1, <1>2, <2>1 DEF ParserTypeOK, Modes
  <2>3. PiecesTyped'
    BY <1>1, <1>2, <2>1 DEF PiecesTyped
  <2>4. InBrackets'
    BY <2>1 DEF InBrackets, Inside
  <2> QED
    BY <1>1, <2>2, <2>3, <2>4, TokensStay DEF ParserInv
<1>5. CASE q # 0 /\ Len(arguments) # MaxNumArgs
  <2> DEFINE argument == SubSeq(text, argumentStart + 1, q - 1)
  <2>1. /\ arguments' = Append(arguments, argument)
        /\ mode' = CASE another -> "arguments"
                     [] closes  -> "success"
                     [] OTHER   -> "failure"
        /\ argumentStart' = IF another THEN q + 3 ELSE argumentStart
        /\ searchPos' = IF another THEN q + 3
                        ELSE IF \/ Char(q + 1) = ")"
                                \/ Char(q + 1) = Comma /\ Char(q + 2) = Space THEN q + 2
                        ELSE q + 1
    BY <1>5 DEF ReadArgument
  <2>2. q \in 1..Len(text) /\ q \in Nat /\ Len(text) \in Nat /\ searchPos < q
    BY <1>3, <1>5, Here
  <2> HIDE DEF q
  <2>3. /\ Char(q + 1) # Terminator => q + 1 \in 1..Len(text)
        /\ Char(q + 2) # Terminator => q + 2 \in 1..Len(text)
        /\ Char(q + 3) # Terminator => q + 3 \in 1..Len(text)
    BY <1>2, <2>2, CharIs DEF PiecesTyped
  <2>4. /\ another => q + 3 \in 1..Len(text)
        /\ Char(q + 1) = ")" => q + 2 \in 1..(Len(text) + 1)
        /\ Char(q + 1) = Comma /\ Char(q + 2) = Space => q + 2 \in 1..Len(text)
        /\ q + 1 \in 1..(Len(text) + 1)
    <3>1. Comma # Terminator /\ Space # Terminator /\ "'" # Terminator /\ ")" # Terminator
      BY Zenon DEF Terminator, Comma, Space
    <3>2. another => q + 3 \in 1..Len(text)
      BY <2>3, <3>1
    <3>3. Char(q + 1) = ")" => q + 2 \in 1..(Len(text) + 1)
      <4>1. Char(q + 1) = ")" => q + 1 \in 1..Len(text)
        BY <2>3, <3>1
      <4> QED
        BY <2>2, <4>1
    <3>4. Char(q + 1) = Comma /\ Char(q + 2) = Space => q + 2 \in 1..Len(text)
      BY <2>3, <3>1
    <3>5. q + 1 \in 1..(Len(text) + 1)
      BY <2>2
    <3> QED
      BY <3>2, <3>3, <3>4, <3>5
  <2>5. closes => ~another
    BY CommaIs
  <2>6. argument \in Seq(Characters)
    <3>1. CASE argumentStart \in 0..Len(text)
      <4>1. argumentStart + 1 \in 1..(Len(text) + 1) /\ q - 1 \in 0..Len(text)
        BY <2>2, <3>1
      <4> QED
        BY <1>2, <4>1, PieceIs DEF PiecesTyped
    <3>2. CASE argumentStart = Len(text) + 1
      <4>1. argument = <<>>
        BY <1>2, <2>2, <3>2 DEF PiecesTyped
      <4>2. <<>> \in Seq(Characters)
        OBVIOUS
      <4> QED
        BY <4>1, <4>2
    <3> QED
      BY <2>2, <3>1, <3>2, Here
  <2>7. /\ another => /\ mode' = "arguments" /\ searchPos' = q + 3 /\ argumentStart' = q + 3
        /\ ~another => /\ argumentStart' = argumentStart
                       /\ (mode' = "success" /\ closes) \/ mode' = "failure"
                       /\ \/ Char(q + 1) = ")" /\ searchPos' = q + 2
                          \/ Char(q + 1) = Comma /\ Char(q + 2) = Space /\ searchPos' = q + 2
                          \/ Char(q + 1) # ")" /\ searchPos' = q + 1
    <3>1. CASE another
      <4>1. mode' = "arguments" /\ searchPos' = q + 3 /\ argumentStart' = q + 3
        BY <2>1, <2>5, <3>1
      <4> HIDE DEF another
      <4> QED
        BY <3>1, <4>1
    <3>2. CASE ~another
      <4>1. argumentStart' = argumentStart /\ ((mode' = "success" /\ closes) \/ mode' = "failure")
        BY <2>1, <3>2
      <4>2. CASE Char(q + 1) = ")"
        BY <2>1, <3>2, <4>1, <4>2
      <4>3. CASE Char(q + 1) # ")" /\ Char(q + 1) = Comma /\ Char(q + 2) = Space
        BY <2>1, <3>2, <4>1, <4>3
      <4>4. CASE Char(q + 1) # ")" /\ ~(Char(q + 1) = Comma /\ Char(q + 2) = Space)
        BY <2>1, <3>2, <4>1, <4>4
      <4> QED
        BY <3>2, <4>2, <4>3, <4>4
    <3> QED
      BY <3>1, <3>2
  <2>8. closes => Char(q + 1) = ")" /\ Char(q + 2) = "]"
    OBVIOUS
  <2> HIDE DEF argument, another, closes
  <2>9. searchPos' \in 1..(Len(text) + 1) /\ searchPos < searchPos' /\ argumentStart' \in 0..(Len(text) + 1)
    <3>1. /\ argumentStart \in 0..(Len(text) + 1) /\ searchPos \in 1..Len(text)
          /\ q + 1 \in 1..(Len(text) + 1)
      BY <2>4, Here
    <3>2. CASE another
      <4>1. q + 3 \in 1..Len(text)
        BY <2>4, <3>2
      <4> QED
        BY <2>2, <2>7, <3>1, <3>2, <4>1
    <3>3. CASE ~another
      <4>1. argumentStart' = argumentStart
        BY <2>7, <3>3
      <4>2. searchPos' = q + 1 \/ (searchPos' = q + 2 /\ q + 2 \in 1..(Len(text) + 1))
        <5>1. \/ Char(q + 1) = ")" /\ searchPos' = q + 2
              \/ Char(q + 1) = Comma /\ Char(q + 2) = Space /\ searchPos' = q + 2
              \/ Char(q + 1) # ")" /\ searchPos' = q + 1
          BY <2>7, <3>3
        <5>2. CASE Char(q + 1) = ")" /\ searchPos' = q + 2
          BY <2>4, <5>2
        <5>3. CASE Char(q + 1) = Comma /\ Char(q + 2) = Space /\ searchPos' = q + 2
          <6>1. q + 2 \in 1..Len(text)
            BY <2>4, <5>3
          <6>2. q + 2 \in 1..(Len(text) + 1)
            BY <2>2, <6>1
          <6> QED
            BY <5>3, <6>2
        <5> QED
          BY <5>1, <5>2, <5>3
      <4> QED
        BY <2>2, <3>1, <4>1, <4>2
    <3> QED
      BY <3>2, <3>3
  <2>10. /\ mode' \in {"success", "arguments", "failure"}
         /\ mode' = "success" => searchPos' = q + 2 /\ Char(q + 2) = "]"
    <3>1. ")" # Comma /\ "success" # "arguments" /\ "success" # "failure"
      BY CommaIs
    <3> QED
      BY <2>7, <2>8, <3>1
  <2>11. ParserTypeOK'
    BY <1>1, <1>2, <2>9, <2>10, Here DEF ParserTypeOK, Modes
  <2>12. PiecesTyped'
    <3>1. arguments' \in Seq(Seq(Characters))
      BY <1>2, <2>1, <2>6, AppendProperties DEF PiecesTyped
    <3> QED
      BY <1>1, <1>2, <3>1 DEF PiecesTyped
  <2>13. InBrackets'
    <3>1. mode' = "success" => Char(searchPos)' = "]"
      BY <2>10 DEF Char
    <3>2. /\ expressionStart' \in 1..Len(text') /\ text'[expressionStart'] = "["
          /\ pos' <= expressionStart' /\ expressionStart' < searchPos'
      BY <1>1, <1>2, <2>9, Here DEF InBrackets, Inside
    <3>3. pos' < searchPos'
      BY <1>1, <2>9, <3>2, Here
    <3> QED
      BY <2>10, <3>1, <3>2, <3>3 DEF InBrackets
  <2> QED
    BY <1>1, <2>11, <2>12, <2>13, TokensStay DEF ParserInv
<1> QED
  BY <1>4, <1>5, <1>6

LEMMA FailureKeeps ==
  ASSUME ParserInv, Parsing, Failure, ~finished, UNCHANGED <<text, written, finished>>
  PROVE  ParserInv'
<1>1. /\ mode = "failure" /\ mode' = "begin" /\ searchPos' = searchPos - 1
      /\ expressionStart' = 0 /\ argumentStart' = 0 /\ functionName' = <<>> /\ arguments' = <<>>
      /\ UNCHANGED <<pos, tokens>>
  BY DEF Failure
<1>2. ParserTypeOK /\ PiecesTyped /\ InBrackets
  BY DEF ParserInv
<1>3. ParserTypeOK'
  BY <1>1, <1>2, Here DEF ParserTypeOK, Modes
<1>4. PiecesTyped'
  BY <1>1, <1>2 DEF PiecesTyped
<1>5. InBrackets'
  BY <1>1, <1>2, Here DEF InBrackets, Inside
<1> QED
  BY <1>1, <1>3, <1>4, <1>5, TokensStay DEF ParserInv

LEMMA SuccessKeeps ==
  ASSUME ParserInv, Parsing, Success, ~finished, UNCHANGED <<text, written, finished>>
  PROVE  ParserInv'
<1> DEFINE before == SubSeq(text, pos, expressionStart - 1)
           inside == SubSeq(text, expressionStart + 1, searchPos - 1)
           a == TextToken(before)
           b == Expression(functionName, arguments, inside)
<1>1. /\ mode = "success" /\ mode' = "begin"
      /\ tokens' = tokens \o <<a, b>>
      /\ pos' = searchPos + 1 /\ searchPos' = searchPos + 1
      /\ functionName' = <<>> /\ arguments' = <<>> /\ argumentStart' = 0
      /\ UNCHANGED expressionStart
  BY DEF Success
<1>2. ParserTypeOK /\ PiecesTyped /\ InBrackets
  BY DEF ParserInv
<1>3. /\ expressionStart \in 1..Len(text) /\ text[expressionStart] = "["
      /\ pos <= expressionStart /\ searchPos \in (expressionStart + 1)..Len(text)
      /\ text[searchPos] = "]"
  <2>1. /\ expressionStart \in 1..Len(text) /\ text[expressionStart] = "["
        /\ pos <= expressionStart /\ expressionStart < searchPos /\ Char(searchPos) = "]"
    BY <1>1, <1>2 DEF InBrackets, Inside
  <2>2. text[searchPos] = "]"
    BY <1>2, <2>1, Here, CharIs DEF PiecesTyped
  <2>3. searchPos \in (expressionStart + 1)..Len(text)
    BY <2>1, Here
  <2> QED
    BY <2>1, <2>2, <2>3
<1>4. before \in Seq(Characters) /\ inside \in Seq(Characters)
  <2>1. /\ pos \in 1..(Len(text) + 1) /\ expressionStart - 1 \in 0..Len(text)
        /\ expressionStart + 1 \in 1..(Len(text) + 1) /\ searchPos - 1 \in 0..Len(text)
    BY <1>3, Here
  <2> QED
    BY <1>2, <2>1, PieceIs DEF PiecesTyped
<1>5. Whole(tokens) = SubSeq(text, 1, pos - 1)
  BY DEF ParserInv
<1>6. SubSeq(text, 1, pos - 1) \o before = SubSeq(text, 1, expressionStart - 1)
  <2>1. pos \in 1..(Len(text) + 1) /\ expressionStart - 1 \in (pos - 1)..Len(text)
    BY <1>3, Here
  <2> QED
    BY <1>2, <2>1, PiecesJoin DEF PiecesTyped
<1>7. (<<"[">> \o inside) \o <<"]">> = SubSeq(text, expressionStart, searchPos)
  BY <1>2, <1>3, BracketsShow DEF PiecesTyped
<1>8. SubSeq(text, 1, expressionStart - 1) \o SubSeq(text, expressionStart, searchPos)
        = SubSeq(text, 1, searchPos)
  <2>1. expressionStart \in 1..(Len(text) + 1) /\ searchPos \in (expressionStart - 1)..Len(text)
    BY <1>3, Here
  <2> QED
    BY <1>2, <2>1, PiecesJoin DEF PiecesTyped
<1>9. /\ SubSeq(text, 1, pos - 1) \in Seq(Marks)
      /\ SubSeq(text, 1, expressionStart - 1) \in Seq(Marks)
  <2>1. /\ 1 \in 1..(Len(text) + 1)
        /\ pos - 1 \in 0..Len(text) /\ expressionStart - 1 \in 0..Len(text)
    BY <1>3, Here
  <2>2. /\ SubSeq(text, 1, pos - 1) \in Seq(Characters)
        /\ SubSeq(text, 1, expressionStart - 1) \in Seq(Characters)
    BY <1>2, <2>1, PieceIs DEF PiecesTyped
  <2> QED
    BY <2>2 DEF Marks
<1> HIDE DEF before, inside
<1>10. /\ a \in Token /\ Shown(a) = before
       /\ b \in Token /\ Shown(b) = (<<"[">> \o inside) \o <<"]">>
  BY <1>2, <1>4 DEF Token, Shown, TextToken, Expression, PiecesTyped
<1> HIDE DEF a, b
<1>11. tokens \in Seq(Token) /\ Append(tokens, a) \in Seq(Token)
  BY <1>2, <1>10 DEF PiecesTyped
<1>12. tokens' = Append(Append(tokens, a), b)
  BY <1>1, <1>10, <1>11
<1>13. tokens' \in Seq(Token)
  BY <1>10, <1>11, <1>12
<1>14. Whole(Append(tokens, a)) = SubSeq(text, 1, expressionStart - 1)
  BY <1>5, <1>6, <1>9, <1>10, <1>11, WholeAppend
<1>15. Whole(Append(Append(tokens, a), b)) = SubSeq(text, 1, searchPos)
  BY <1>7, <1>8, <1>9, <1>10, <1>11, <1>14, WholeAppend
<1>16. Whole(tokens)' = SubSeq(text, 1, searchPos)
  BY <1>12, <1>15 DEF Whole, Shows
<1>17. SubSeq(text, 1, pos - 1)' = SubSeq(text, 1, searchPos)
  <2>1. pos' - 1 = searchPos
    BY <1>1, Here
  <2> QED
    BY <2>1
<1>18. ParserTypeOK'
  BY <1>1, <1>2, <1>3, Here DEF ParserTypeOK, Modes
<1>19. PiecesTyped'
  BY <1>1, <1>2, <1>13 DEF PiecesTyped
<1>20. InBrackets' /\ pos' # 0
  BY <1>1, Here DEF InBrackets, Inside
<1> QED
  BY <1>16, <1>17, <1>18, <1>19, <1>20 DEF ParserInv

LEMMA FinishKeeps ==
  ASSUME ParserInv, Finish, ~finished, UNCHANGED <<text, written>>
  PROVE  ParserInv'
<1>1. /\ finished' = TRUE
      /\ tokens' = IF Char(pos) = Terminator THEN tokens
                   ELSE Append(tokens, TextToken(SubSeq(text, pos, Len(text))))
      /\ UNCHANGED <<mode, searchPos, pos, expressionStart, functionName, arguments, argumentStart>>
  BY DEF Finish
<1>2. ParserTypeOK /\ PiecesTyped /\ InBrackets
  BY DEF ParserInv
<1>3. text \in Seq(Characters) /\ Len(text) \in Nat /\ pos \in 1..(Len(text) + 1) /\ pos \in Nat
  BY <1>2 DEF ParserInv, ParserTypeOK, PiecesTyped
<1>4. Whole(tokens) = SubSeq(text, 1, pos - 1) /\ tokens \in Seq(Token)
  BY <1>2 DEF ParserInv, PiecesTyped
<1>5. SubSeq(text, 1, Len(text)) = text
  BY <1>3
<1>6. tokens' \in Seq(Token) /\ Whole(tokens') = text
  <2>1. CASE Char(pos) = Terminator
    <3>1. pos = Len(text) + 1
      BY <1>3, <2>1, CharIs
    <3>2. pos - 1 = Len(text)
      BY <1>3, <3>1
    <3> QED
      BY <1>1, <1>4, <1>5, <2>1, <3>2
  <2>2. CASE Char(pos) # Terminator
    <3> DEFINE rest == SubSeq(text, pos, Len(text))
    <3>1. pos \in 1..Len(text)
      BY <1>3, <2>2, CharIs
    <3>2. Len(text) \in 0..Len(text) /\ Len(text) \in (pos - 1)..Len(text) /\ pos - 1 \in 0..Len(text)
          /\ 1 \in 1..(Len(text) + 1)
      BY <1>3, <3>1
    <3>3. rest \in Seq(Characters) /\ SubSeq(text, 1, pos - 1) \in Seq(Characters)
      BY <1>3, <3>2, PieceIs
    <3>4. SubSeq(text, 1, pos - 1) \o rest = text
      BY <1>3, <1>5, <3>2, PiecesJoin
    <3> HIDE DEF rest
    <3>5. TextToken(rest) \in Token /\ Shown(TextToken(rest)) = rest
      BY <3>3 DEF TextToken, Token, Shown
    <3>6. SubSeq(text, 1, pos - 1) \in Seq(Marks)
      BY <3>3 DEF Marks
    <3>7. Whole(Append(tokens, TextToken(rest))) = text
      BY <1>4, <3>4, <3>5, <3>6, WholeAppend
    <3> QED
      BY <1>1, <1>4, <2>2, <3>5, <3>7 DEF rest
  <2> QED
    BY <2>1, <2>2
<1>7. Whole(tokens)' = text
  BY <1>6 DEF Whole, Shows
<1>8. ParserTypeOK'
  BY <1>1, <1>2 DEF ParserTypeOK
<1>9. PiecesTyped'
  BY <1>1, <1>2, <1>6 DEF PiecesTyped
<1>10. InBrackets'
  BY <1>1, <1>2 DEF InBrackets, Char
<1> QED
  BY <1>1, <1>3, <1>7, <1>8, <1>9, <1>10 DEF ParserInv

LEMMA ParserInvNext == ParserInv /\ [ParserNext]_parserVars => ParserInv'
<1> SUFFICES ASSUME ParserInv, [ParserNext]_parserVars PROVE ParserInv'
  OBVIOUS
<1>1. CASE ~finished /\ UNCHANGED <<text, written>> /\ Parsing /\ UNCHANGED finished
           /\ (SearchBeginning \/ ReadName \/ ReadArgument \/ Failure \/ Success)
  BY <1>1, SearchBeginningKeeps, ReadNameKeeps, ReadArgumentKeeps, FailureKeeps, SuccessKeeps
<1>2. CASE ~finished /\ UNCHANGED <<text, written>> /\ Finish
  BY <1>2, FinishKeeps
<1>3. CASE UNCHANGED parserVars
  BY <1>3 DEF parserVars, ParserInv, ParserTypeOK, PiecesTyped, InBrackets, Whole, Shows, Char
<1> QED
  BY <1>1, <1>2, <1>3 DEF ParserNext, Parsed

LEMMA ParserInvAlways == ParserSpec => []ParserInv
BY ParserInvInit, ParserInvNext, PTL DEF ParserSpec

\* No position of the parser lies beyond the terminator, whatever the text and
\* wherever it ends (ParsedText::Parse).
THEOREM ParserStaysInside == ParserSpec => []ParserTypeOK
<1>1. ParserInv => ParserTypeOK
  BY DEF ParserInv
<1> QED
  BY <1>1, ParserInvAlways, PTL

\* Parsing loses nothing of any text that is parsed to its end, however long it is
\* and however malformed its brackets and quotes are.  The only text that is not is
\* one with more arguments in a row than numArgs can count (ParsedText::Parse).
THEOREM NothingIsLost == ParserSpec => []LosesNothing
<1>1. ParserInv => LosesNothing
  BY DEF ParserInv, LosesNothing, Whole, Shows
<1> QED
  BY <1>1, ParserInvAlways, PTL

----------------------------------------------------------------------------
(* Where the pieces of a flattened sequence lie.                            *)

LEMMA Joined ==
  ASSUME NEW S, NEW a \in Seq(S), NEW b \in Seq(S)
  PROVE  /\ a \o b \in Seq(S) /\ Len(a) \in Nat /\ Len(b) \in Nat /\ Len(a \o b) = Len(a) + Len(b)
         /\ \A m \in 1..Len(a) : (a \o b)[m] = a[m]
         /\ \A m \in 1..Len(b) : (a \o b)[Len(a) + m] = b[m]
OBVIOUS

\* The end of the ith sequence of s.
Ends(s, i) == Len(SeqExt!FlattenSeq(SubSeq(s, 1, i)))

LEMMA BeginningsAre ==
  ASSUME NEW S, NEW s \in Seq(Seq(S)),
         NEW F, F = [i \in 0..Len(s) |-> SeqExt!FlattenSeq(SubSeq(s, 1, i))]
  PROVE  /\ F[0] = <<>> /\ F[Len(s)] = SeqExt!FlattenSeq(s)
         /\ \A i \in 0..Len(s) : F[i] \in Seq(S)
         /\ \A i \in 1..Len(s) : F[i] = F[i - 1] \o s[i]
<1> DEFINE n == Len(s)
<1>1. n \in Nat /\ \A i \in 1..n : s[i] \in Seq(S)
  OBVIOUS
<1>2. F[0] = <<>> /\ F[n] = SeqExt!FlattenSeq(s)
  <2>1. SubSeq(s, 1, 0) = <<>> /\ SubSeq(s, 1, n) = s
    OBVIOUS
  <2>2. 0 \in 0..n /\ n \in 0..n
    BY <1>1
  <2> QED
    BY <2>1, <2>2, FlattenNone
<1>3. ASSUME NEW i \in 1..n, F[i - 1] \in Seq(S)
      PROVE  F[i] = F[i - 1] \o s[i]
  <2>1. i \in 0..n /\ i - 1 \in 0..n /\ 1 \in 1..i
    BY <1>1
  <2>2. SubSeq(s, 1, i) = Append(SubSeq(s, 1, i - 1), s[i])
    BY <1>1
  <2>3. SubSeq(s, 1, i - 1) \in Seq(Seq(S))
    BY <1>1
  <2>4. F[i - 1] = SeqExt!FlattenSeq(SubSeq(s, 1, i - 1)) /\ F[i] = SeqExt!FlattenSeq(SubSeq(s, 1, i))
    BY <2>1
  <2> QED
    BY <1>1, <1>3, <2>2, <2>3, <2>4, FlattenAppend
<1> DEFINE P == {i \in 0..n : F[i] \in Seq(S)}
<1>4. 0 \in P
  <2>1. 0 \in 0..n /\ <<>> \in Seq(S)
    BY <1>1
  <2> QED
    BY <1>2, <2>1
<1>5. \A i \in 0..n : i \in P /\ i < n => i + 1 \in P
  <2> TAKE i \in 0..n
  <2> HAVE i \in P /\ i < n
  <2>1. PICK j \in 1..n : j = i + 1 /\ j - 1 = i
    BY <1>1
  <2>2. F[j] = F[j - 1] \o s[j] /\ F[j - 1] \in Seq(S) /\ s[j] \in Seq(S)
    BY <1>1, <1>3, <2>1
  <2>3. F[j] \in Seq(S)
    <3>1. F[j - 1] \o s[j] \in Seq(S)
      BY <2>2, Joined
    <3> QED
      BY <2>2, <3>1, Zenon
  <2> QED
    BY <1>1, <2>1, <2>3
<1> HIDE DEF P
<1>6. 0..n \subseteq P
  BY <1>1, <1>4, <1>5, UpTo
<1>7. \A i \in 0..n : F[i] \in Seq(S)
  BY <1>6 DEF P
<1>8. \A i \in 1..n : i - 1 \in 0..n
  BY <1>1
<1> QED
  BY <1>2, <1>3, <1>7, <1>8

LEMMA EndsAre ==
  ASSUME NEW S, NEW s \in Seq(Seq(S))
  PROVE  /\ Ends(s, 0) = 0 /\ Ends(s, Len(s)) = Len(SeqExt!FlattenSeq(s))
         /\ SeqExt!FlattenSeq(s) \in Seq(S)
         /\ \A i \in 0..Len(s) : Ends(s, i) \in Nat
         /\ \A i \in 1..Len(s) : Ends(s, i) = Ends(s, i - 1) + Len(s[i])
<1> DEFINE F == [i \in 0..Len(s) |-> SeqExt!FlattenSeq(SubSeq(s, 1, i))]
<1>1. /\ F[0] = <<>> /\ F[Len(s)] = SeqExt!FlattenSeq(s)
      /\ \A i \in 0..Len(s) : F[i] \in Seq(S)
      /\ \A i \in 1..Len(s) : F[i] = F[i - 1] \o s[i]
  BY BeginningsAre
<1>2. \A i \in 0..Len(s) : Ends(s, i) = Len(F[i])
  BY DEF Ends
<1> HIDE DEF F
<1>3. /\ \A i \in 1..Len(s) : i \in 0..Len(s) /\ i - 1 \in 0..Len(s)
      /\ 0 \in 0..Len(s) /\ Len(s) \in 0..Len(s)
      /\ \A i \in 1..Len(s) : s[i] \in Seq(S)
  OBVIOUS
<1>4. ASSUME NEW i \in 1..Len(s)
      PROVE  Len(F[i]) = Len(F[i - 1]) + Len(s[i])
  <2>1. F[i] = F[i - 1] \o s[i] /\ F[i - 1] \in Seq(S) /\ s[i] \in Seq(S)
    BY <1>1, <1>3
  <2> QED
    BY <2>1, Joined
<1>5. \A i \in 0..Len(s) : Len(F[i]) \in Nat
  BY <1>1, LenProperties
<1>6. Len(F[0]) = 0
  BY <1>1
<1> QED
  BY <1>1, <1>2, <1>3, <1>4, <1>5, <1>6

\* The ith sequence of s lies where the one before it ends.
LEMMA PlacesAre ==
  ASSUME NEW S, NEW s \in Seq(Seq(S)), NEW i \in 1..Len(s)
  PROVE  /\ Ends(s, i) <= Len(SeqExt!FlattenSeq(s))
         /\ \A m \in 1..Len(s[i]) : SeqExt!FlattenSeq(s)[Ends(s, i - 1) + m] = s[i][m]
<1> DEFINE F == [k \in 0..Len(s) |-> SeqExt!FlattenSeq(SubSeq(s, 1, k))]
           n == Len(s)
           e == Len(F[i])
<1>1. /\ F[n] = SeqExt!FlattenSeq(s)
      /\ \A k \in 0..n : F[k] \in Seq(S)
      /\ \A k \in 1..n : F[k] = F[k - 1] \o s[k]
  BY BeginningsAre
<1>2. Ends(s, i) = e /\ Ends(s, i - 1) = Len(F[i - 1])
  <2>1. i \in 0..n /\ i - 1 \in 0..n
    OBVIOUS
  <2> QED
    BY <2>1 DEF Ends
<1> HIDE DEF F
<1>3. /\ n \in Nat /\ i \in 1..n /\ i \in 0..n /\ i - 1 \in 0..n /\ n - i \in Nat
      /\ \A k \in 1..n : s[k] \in Seq(S)
  OBVIOUS
<1>4. F[i] \in Seq(S) /\ F[i - 1] \in Seq(S) /\ s[i] \in Seq(S) /\ F[i] = F[i - 1] \o s[i]
  BY <1>1, <1>3
<1>5. e \in Nat /\ Len(F[i - 1]) \in Nat /\ Len(s[i]) \in Nat /\ e = Len(F[i - 1]) + Len(s[i])
  <2>1. e = Len(F[i - 1]) + Len(s[i])
    <3>1. Len(F[i - 1] \o s[i]) = Len(F[i - 1]) + Len(s[i])
      BY <1>4, Joined
    <3> QED
      BY <1>4, <3>1, Zenon DEF e
  <2>2. e \in Nat /\ Len(F[i - 1]) \in Nat /\ Len(s[i]) \in Nat
    BY <1>4, LenProperties DEF e
  <2> QED
    BY <2>1, <2>2
<1> HIDE DEF n, e
<1> DEFINE P == {d \in 0..(n - i) : Len(F[i + d]) >= e /\ \A x \in 1..e : F[i + d][x] = F[i][x]}
<1>6. 0 \in P
  <2>1. i + 0 = i /\ 0 \in 0..(n - i)
    BY <1>3
  <2>2. Len(F[i]) >= e
    BY <1>5 DEF e
  <2> QED
    BY <2>1, <2>2
<1>7. \A d \in 0..(n - i) : d \in P /\ d < n - i => d + 1 \in P
  <2> TAKE d \in 0..(n - i)
  <2> HAVE d \in P /\ d < n - i
  <2>1. PICK k \in 1..n : k = i + (d + 1) /\ k - 1 = i + d
    BY <1>3
  <2>2. F[k] = F[k - 1] \o s[k] /\ F[k - 1] \in Seq(S) /\ s[k] \in Seq(S)
    <3>1. k - 1 \in 0..n
      BY <1>3
    <3> QED
      BY <1>1, <1>3, <3>1
  <2>3. Len(F[k - 1]) >= e /\ \A x \in 1..e : F[k - 1][x] = F[i][x]
    BY <2>1
  <2>4. Len(F[k]) = Len(F[k - 1]) + Len(s[k]) /\ \A x \in 1..Len(F[k - 1]) : F[k][x] = F[k - 1][x]
    <3>1. PICK a \in Seq(S) : a = F[k - 1]
      BY <2>2
    <3>2. PICK b \in Seq(S) : b = s[k]
      BY <2>2
    <3>3. Len(a \o b) = Len(a) + Len(b) /\ \A x \in 1..Len(a) : (a \o b)[x] = a[x]
      BY Joined
    <3>4. F[k] = a \o b
      BY <2>2, <3>1, <3>2
    <3> QED
      BY <3>1, <3>2, <3>3, <3>4, Zenon
  <2>5. Len(F[k - 1]) \in Nat /\ Len(s[k]) \in Nat
    BY <2>2, LenProperties
  <2>6. Len(F[k]) >= e /\ \A x \in 1..e : x \in 1..Len(F[k - 1])
    <3> DEFINE l == Len(F[k - 1])
               r == Len(s[k])
    <3>1. l \in Nat /\ r \in Nat /\ e \in Nat /\ l >= e /\ Len(F[k]) = l + r
      BY <1>5, <2>3, <2>4, <2>5
    <3> HIDE DEF l, r
    <3>2. Len(F[k]) >= e /\ \A x \in 1..e : x \in 1..l
      BY <3>1
    <3> QED
      BY <3>2 DEF l
  <2>7. \A x \in 1..e : F[k][x] = F[i][x]
    BY <2>3, <2>4, <2>6
  <2>8. d + 1 \in 0..(n - i)
    BY <1>3
  <2> QED
    BY <2>1, <2>6, <2>7, <2>8
<1> HIDE DEF P
<1>8. 0..(n - i) \subseteq P
  BY <1>3, <1>6, <1>7, UpTo
<1>9. Len(F[n]) >= e /\ \A x \in 1..e : F[n][x] = F[i][x]
  <2>1. n - i \in P /\ i + (n - i) = n
    BY <1>3, <1>8
  <2> QED
    BY <2>1 DEF P
<1>10. ASSUME NEW m \in 1..Len(s[i])
       PROVE  F[n][Len(F[i - 1]) + m] = s[i][m]
  <2>1. Len(F[i - 1]) + m \in 1..e
    <3> DEFINE l == Len(F[i - 1])
               r == Len(s[i])
    <3>1. l \in Nat /\ r \in Nat /\ e = l + r /\ m \in 1..r
      BY <1>5
    <3> HIDE DEF l, r
    <3>2. l + m \in 1..e
      BY <3>1
    <3> QED
      BY <3>2 DEF l
  <2>2. F[i][Len(F[i - 1]) + m] = s[i][m]
    <3>1. PICK a \in Seq(S) : a = F[i - 1]
      BY <1>4
    <3>2. PICK b \in Seq(S) : b = s[i]
      BY <1>4
    <3>3. \A x \in 1..Len(b) : (a \o b)[Len(a) + x] = b[x]
      BY Joined
    <3>4. F[i] = a \o b
      BY <1>4, <3>1, <3>2
    <3> QED
      BY <3>1, <3>2, <3>3, <3>4, Zenon
  <2> QED
    BY <1>9, <2>1, <2>2
<1>11. Len(F[n]) \in Nat
  BY <1>1, <1>3
<1> QED
  BY <1>1, <1>2, <1>5, <1>9, <1>10, <1>11

----------------------------------------------------------------------------
(* Sequences of characters with something before and behind.                *)

LEMMA Framed ==
  ASSUME NEW S, NEW b \in Seq(S), NEW a \in Seq(S), NEW c \in Seq(S)
  PROVE  /\ (b \o a) \o c \in Seq(S) /\ Len((b \o a) \o c) = Len(b) + Len(a) + Len(c)
         /\ \A m \in 1..Len(b) : ((b \o a) \o c)[m] = b[m]
         /\ \A m \in 1..Len(a) : ((b \o a) \o c)[Len(b) + m] = a[m]
         /\ \A m \in 1..Len(c) : ((b \o a) \o c)[Len(b) + Len(a) + m] = c[m]
<1>1. PICK f \in Seq(S) : f = b \o a
  <2>1. b \o a \in Seq(S)
    OBVIOUS
  <2> QED
    BY <2>1, Zenon
<1>2. /\ Len(f) = Len(b) + Len(a)
      /\ \A m \in 1..Len(b) : f[m] = b[m]
      /\ \A m \in 1..Len(a) : f[Len(b) + m] = a[m]
  BY <1>1
<1>3. PICK s \in Seq(S) : s = f \o c
  <2>1. f \o c \in Seq(S)
    OBVIOUS
  <2> QED
    BY <2>1, Zenon
<1>4. /\ Len(f \o c) = Len(f) + Len(c)
      /\ \A m \in 1..Len(f) : (f \o c)[m] = f[m]
      /\ \A m \in 1..Len(c) : (f \o c)[Len(f) + m] = c[m]
  BY Joined
<1>5. /\ Len(s) = Len(f) + Len(c)
      /\ \A m \in 1..Len(f) : s[m] = f[m]
      /\ \A m \in 1..Len(c) : s[Len(f) + m] = c[m]
  BY <1>3, <1>4, Zenon
<1>6. Len(a) \in Nat /\ Len(b) \in Nat /\ Len(c) \in Nat
  OBVIOUS
<1>7. /\ \A m \in 1..Len(b) : m \in 1..Len(f)
      /\ \A m \in 1..Len(a) : Len(b) + m \in 1..Len(f)
  BY <1>2, <1>6
<1>8. /\ Len(s) = Len(b) + Len(a) + Len(c)
      /\ \A m \in 1..Len(b) : s[m] = b[m]
      /\ \A m \in 1..Len(a) : s[Len(b) + m] = a[m]
      /\ \A m \in 1..Len(c) : s[Len(b) + Len(a) + m] = c[m]
  BY <1>2, <1>5, <1>7
<1>9. s = (b \o a) \o c
  BY <1>1, <1>3
<1> QED
  BY <1>8, <1>9, Zenon

----------------------------------------------------------------------------
(* The inside of the brackets of a call.                                    *)

\* How far the quote of an argument is from the argument before.
Gap(i) == IF i = 1 THEN 0 ELSE 2

\* The arguments as Call spells them.
Quoted(args) ==
  [i \in 1..Len(args) |->
     (IF i = 1 THEN <<>> ELSE <<Comma, Space>>) \o <<"'">> \o args[i] \o <<"'">>]

\* Where the quote of the ith argument of p opens, inside the brackets.
Opening(p, i) == Len(p.name) + 2 + Ends(Quoted(p.args), i - 1) + Gap(i)

Signs == Characters \cup {"(", ")", "'", Comma, Space}

LEMMA SignsAre ==
  /\ "(" \in Signs /\ ")" \in Signs /\ "'" \in Signs /\ Comma \in Signs /\ Space \in Signs
  /\ Seq(Characters) \subseteq Seq(Signs)
BY DEF Signs

LEMMA QuotedIs ==
  ASSUME NEW b \in Seq(Signs), NEW a \in Seq(Signs)
  PROVE  /\ b \o a \o <<"'">> \in Seq(Signs) /\ Len(b \o a \o <<"'">>) = Len(b) + Len(a) + 1
         /\ \A m \in 1..Len(b) : (b \o a \o <<"'">>)[m] = b[m]
         /\ \A m \in 1..Len(a) : (b \o a \o <<"'">>)[Len(b) + m] = a[m]
         /\ (b \o a \o <<"'">>)[Len(b) + Len(a) + 1] = "'"
<1>1. PICK c \in Seq(Signs) : c = <<"'">>
  <2>1. <<"'">> \in Seq(Signs)
    BY SignsAre
  <2> QED
    BY <2>1, Zenon
<1>2. Len(c) = 1 /\ c[1] = "'"
  BY <1>1
<1>3. /\ (b \o a) \o c \in Seq(Signs) /\ Len((b \o a) \o c) = Len(b) + Len(a) + Len(c)
      /\ \A m \in 1..Len(b) : ((b \o a) \o c)[m] = b[m]
      /\ \A m \in 1..Len(a) : ((b \o a) \o c)[Len(b) + m] = a[m]
      /\ \A m \in 1..Len(c) : ((b \o a) \o c)[Len(b) + Len(a) + m] = c[m]
  BY Framed
<1>4. PICK s : s = (b \o a) \o c
  OBVIOUS
<1>5. /\ s \in Seq(Signs) /\ Len(s) = Len(b) + Len(a) + Len(c)
      /\ \A m \in 1..Len(b) : s[m] = b[m]
      /\ \A m \in 1..Len(a) : s[Len(b) + m] = a[m]
      /\ \A m \in 1..Len(c) : s[Len(b) + Len(a) + m] = c[m]
  BY <1>3, <1>4, Zenon
<1>6. Len(s) = Len(b) + Len(a) + 1 /\ s[Len(b) + Len(a) + 1] = "'"
  BY <1>2, <1>5
<1> QED
  BY <1>1, <1>4, <1>5, <1>6, Zenon

LEMMA AllQuoted ==
  ASSUME NEW args \in Seq(Seq(Signs)), NEW q, q = Quoted(args)
  PROVE  /\ q \in Seq(Seq(Signs)) /\ Len(q) = Len(args)
         /\ \A i \in 1..Len(args) :
              /\ q[i] \in Seq(Signs) /\ Len(q[i]) = Gap(i) + Len(args[i]) + 2
              /\ i # 1 => q[i][1] = Comma /\ q[i][2] = Space
              /\ q[i][Gap(i) + 1] = "'" /\ q[i][Gap(i) + Len(args[i]) + 2] = "'"
              /\ \A m \in 1..Len(args[i]) : q[i][Gap(i) + 1 + m] = args[i][m]
<1>1. ASSUME NEW i \in 1..Len(args)
      PROVE  /\ q[i] \in Seq(Signs) /\ Len(q[i]) = Gap(i) + Len(args[i]) + 2
             /\ i # 1 => q[i][1] = Comma /\ q[i][2] = Space
             /\ q[i][Gap(i) + 1] = "'" /\ q[i][Gap(i) + Len(args[i]) + 2] = "'"
             /\ \A m \in 1..Len(args[i]) : q[i][Gap(i) + 1 + m] = args[i][m]
  <2>1. PICK a \in Seq(Signs) : a = args[i]
    OBVIOUS
  <2>2. PICK b \in Seq(Signs) : /\ b = (IF i = 1 THEN <<>> ELSE <<Comma, Space>>) \o <<"'">>
                                /\ Len(b) = Gap(i) + 1 /\ b[Gap(i) + 1] = "'"
                                /\ i # 1 => b[1] = Comma /\ b[2] = Space
    <3>1. CASE i = 1
      <4>1. PICK b \in Seq(Signs) : b = <<"'">>
        <5>1. <<"'">> \in Seq(Signs)
          BY SignsAre
        <5> QED
          BY <5>1, Zenon
      <4>2. Len(b) = 1 /\ b[1] = "'"
        BY <4>1
      <4>3. b = (IF i = 1 THEN <<>> ELSE <<Comma, Space>>) \o <<"'">>
        BY <3>1, <4>1
      <4>4. Gap(i) + 1 = 1
        BY <3>1 DEF Gap
      <4> QED
        BY <3>1, <4>2, <4>3, <4>4, Zenon
    <3>2. CASE i # 1
      <4>1. PICK c \in Seq(Signs) : c = <<Comma, Space>>
        <5>1. <<Comma, Space>> \in Seq(Signs)
          BY SignsAre
        <5> QED
          BY <5>1, Zenon
      <4>2. PICK d \in Seq(Signs) : d = <<"'">>
        <5>1. <<"'">> \in Seq(Signs)
          BY SignsAre
        <5> QED
          BY <5>1, Zenon
      <4>3. Len(c) = 2 /\ c[1] = Comma /\ c[2] = Space /\ Len(d) = 1 /\ d[1] = "'"
        BY <4>1, <4>2
      <4>4. /\ c \o d \in Seq(Signs) /\ Len(c \o d) = Len(c) + Len(d)
            /\ \A m \in 1..Len(c) : (c \o d)[m] = c[m]
            /\ \A m \in 1..Len(d) : (c \o d)[Len(c) + m] = d[m]
        BY Joined
      <4>5. PICK b \in Seq(Signs) : b = c \o d
        BY <4>4, Zenon
      <4>6. /\ Len(b) = Len(c) + Len(d)
            /\ \A m \in 1..Len(c) : b[m] = c[m]
            /\ \A m \in 1..Len(d) : b[Len(c) + m] = d[m]
        BY <4>4, <4>5, Zenon
      <4>7. Len(b) = 3 /\ b[1] = Comma /\ b[2] = Space /\ b[3] = "'"
        BY <4>3, <4>6
      <4>8. b = (IF i = 1 THEN <<>> ELSE <<Comma, Space>>) \o <<"'">>
        BY <3>2, <4>1, <4>2, <4>5, Zenon
      <4>9. Gap(i) + 1 = 3
        BY <3>2 DEF Gap
      <4> QED
        BY <4>7, <4>8, <4>9, Zenon
    <3> QED
      BY <3>1, <3>2
  <2>3. PICK s : s = b \o a \o <<"'">>
    OBVIOUS
  <2>4. q[i] = s
    BY <2>1, <2>2, <2>3 DEF Quoted
  <2>5. /\ b \o a \o <<"'">> \in Seq(Signs) /\ Len(b \o a \o <<"'">>) = Len(b) + Len(a) + 1
        /\ \A m \in 1..Len(b) : (b \o a \o <<"'">>)[m] = b[m]
        /\ \A m \in 1..Len(a) : (b \o a \o <<"'">>)[Len(b) + m] = a[m]
        /\ (b \o a \o <<"'">>)[Len(b) + Len(a) + 1] = "'"
    BY QuotedIs
  <2>6. /\ s \in Seq(Signs) /\ Len(s) = Len(b) + Len(a) + 1
        /\ \A m \in 1..Len(b) : s[m] = b[m]
        /\ \A m \in 1..Len(a) : s[Len(b) + m] = a[m]
        /\ s[Len(b) + Len(a) + 1] = "'"
    BY <2>3, <2>5, Zenon
  <2>7. /\ Len(b) = Gap(i) + 1 /\ b[Gap(i) + 1] = "'"
        /\ i # 1 => b[1] = Comma /\ b[2] = Space
    BY <2>2
  <2>8. Gap(i) \in Nat /\ (i # 1 => Gap(i) = 2) /\ Len(a) \in Nat
    BY DEF Gap
  <2>9. /\ Len(s) = Gap(i) + Len(a) + 2
        /\ i # 1 => s[1] = Comma /\ s[2] = Space
        /\ s[Gap(i) + 1] = "'"
    BY <2>6, <2>7, <2>8
  <2>10. Len(b) + Len(a) + 1 = Gap(i) + Len(a) + 2
    BY <2>7, <2>8
  <2> QED
    BY <2>1, <2>4, <2>6, <2>7, <2>9, <2>10, Zenon
<1>2. Len(args) \in Nat /\ \A i \in 1..Len(args) : q[i] \in Seq(Signs)
  BY <1>1, LenProperties
<1>3. DOMAIN q = 1..Len(args)
  BY DEF Quoted
<1>4. q = [i \in 1..Len(args) |-> q[i]]
  BY DEF Quoted
<1>5. q \in Seq(Seq(Signs)) /\ Len(q) = Len(args)
  BY <1>2, <1>3, <1>4
<1> QED
  BY <1>1, <1>5

LEMMA InParentheses ==
  ASSUME NEW name \in Seq(Signs), NEW flat \in Seq(Signs)
  PROVE  \A c : c = name \o <<"(">> \o flat \o <<")">> =>
           /\ Len(c) = Len(name) + Len(flat) + 2
           /\ \A m \in 1..Len(name) : c[m] = name[m]
           /\ c[Len(name) + 1] = "("
           /\ c[Len(name) + Len(flat) + 2] = ")"
           /\ \A m \in 1..Len(flat) : c[Len(name) + 1 + m] = flat[m]
<1>0. PICK open \in Seq(Signs), close \in Seq(Signs) : open = <<"(">> /\ close = <<")">>
  <2>1. <<"(">> \in Seq(Signs) /\ <<")">> \in Seq(Signs)
    BY SignsAre
  <2> QED
    BY <2>1, Zenon
<1>a. Len(open) = 1 /\ open[1] = "(" /\ Len(close) = 1 /\ close[1] = ")"
  BY <1>0
<1>1. PICK b \in Seq(Signs) : b = name \o open
  <2>1. name \o open \in Seq(Signs)
    OBVIOUS
  <2> QED
    BY <2>1, Zenon
<1>2. Len(name \o open) = Len(name) + Len(open)
      /\ (\A m \in 1..Len(name) : (name \o open)[m] = name[m])
      /\ (\A m \in 1..Len(open) : (name \o open)[Len(name) + m] = open[m])
  BY Joined
<1>3. /\ Len(b) = Len(name) + Len(open)
      /\ \A m \in 1..Len(name) : b[m] = name[m]
      /\ \A m \in 1..Len(open) : b[Len(name) + m] = open[m]
  BY <1>1, <1>2, Zenon
<1>4. PICK c : c = (b \o flat) \o close
  OBVIOUS
<1>5. /\ Len((b \o flat) \o close) = Len(b) + Len(flat) + Len(close)
      /\ \A m \in 1..Len(b) : ((b \o flat) \o close)[m] = b[m]
      /\ \A m \in 1..Len(flat) : ((b \o flat) \o close)[Len(b) + m] = flat[m]
      /\ \A m \in 1..Len(close) : ((b \o flat) \o close)[Len(b) + Len(flat) + m] = close[m]
  BY Framed
<1>6. /\ Len(c) = Len(b) + Len(flat) + Len(close)
      /\ \A m \in 1..Len(b) : c[m] = b[m]
      /\ \A m \in 1..Len(flat) : c[Len(b) + m] = flat[m]
      /\ \A m \in 1..Len(close) : c[Len(b) + Len(flat) + m] = close[m]
  BY <1>4, <1>5, Zenon
<1>7. Len(name) \in Nat /\ Len(flat) \in Nat
  OBVIOUS
<1>8. b[Len(name) + 1] = "("
  BY <1>a, <1>3
<1>9. /\ \A m \in 1..Len(name) : m \in 1..Len(b)
      /\ Len(name) + 1 \in 1..Len(b)
      /\ Len(name) + Len(flat) + 2 = Len(b) + Len(flat) + 1
      /\ Len(b) = Len(name) + 1
      /\ Len(c) = Len(name) + Len(flat) + 2
  BY <1>a, <1>3, <1>6, <1>7
<1>10. c[Len(b) + Len(flat) + 1] = ")"
  BY <1>a, <1>6
<1>11. c[Len(name) + 1] = "("
  BY <1>6, <1>8, <1>9
<1>12. \A m \in 1..Len(name) : c[m] = name[m]
  BY <1>3, <1>6, <1>9
<1>13. c = name \o <<"(">> \o flat \o <<")">>
  BY <1>0, <1>1, <1>4, Zenon
<1> QED
  BY <1>6, <1>9, <1>10, <1>11, <1>12, <1>13, Zenon

\* What comes between the brackets when there are arguments.
CallSpelled(name, args) ==
  \E flat \in Seq(Signs) : \E c :
    /\ flat = SeqExt!FlattenSeq(Quoted(args)) /\ c = Call(name, args)
    /\ Len(c) = Len(name) + Len(flat) + 2
    /\ \A m \in 1..Len(name) : c[m] = name[m]
    /\ c[Len(name) + 1] = "("
    /\ c[Len(name) + Len(flat) + 2] = ")"
    /\ \A m \in 1..Len(flat) : c[Len(name) + 1 + m] = flat[m]

LEMMA CallIs ==
  ASSUME NEW name \in Seq(Signs), NEW args, args # <<>>,
         SeqExt!FlattenSeq(Quoted(args)) \in Seq(Signs)
  PROVE  CallSpelled(name, args)
<1>1. PICK flat \in Seq(Signs) : flat = SeqExt!FlattenSeq(Quoted(args))
  BY Zenon
<1>2. PICK c : c = name \o <<"(">> \o flat \o <<")">>
  OBVIOUS
<1>3. c = Call(name, args)
  BY <1>1, <1>2 DEF Call, Quoted
<1>4. /\ Len(c) = Len(name) + Len(flat) + 2
      /\ \A m \in 1..Len(name) : c[m] = name[m]
      /\ c[Len(name) + 1] = "("
      /\ c[Len(name) + Len(flat) + 2] = ")"
      /\ \A m \in 1..Len(flat) : c[Len(name) + 1 + m] = flat[m]
  <2>1. \A d : d = name \o <<"(">> \o flat \o <<")">> =>
          /\ Len(d) = Len(name) + Len(flat) + 2
          /\ \A m \in 1..Len(name) : d[m] = name[m]
          /\ d[Len(name) + 1] = "("
          /\ d[Len(name) + Len(flat) + 2] = ")"
          /\ \A m \in 1..Len(flat) : d[Len(name) + 1 + m] = flat[m]
    BY InParentheses
  <2> QED
    BY <1>2, <2>1, Zenon
<1> QED
  BY <1>1, <1>3, <1>4, Zenon DEF CallSpelled

LEMMA CallOf ==
  ASSUME NEW p \in Token, IsCall(p)
  PROVE  /\ p.type = "EXPRESSION" /\ p.text = Call(p.name, p.args) /\ p.text \in Seq(Characters)
         /\ p.name \in Seq(Characters) /\ p.name \in Seq(Signs) /\ Len(p.name) \in Nat \ {0}
         /\ p.args \in Seq(Seq(Characters)) /\ p.args \in Seq(Seq(Signs)) /\ Len(p.args) \in Nat
         /\ p.args = <<>> => p.text = p.name
<1>1. /\ p.text \in Seq(Characters) /\ p.name \in Seq(Characters) /\ p.args \in Seq(Seq(Characters))
      /\ p.name # <<>>
  BY DEF Token, IsCall
<1>2. p = Expression(p.name, p.args, Call(p.name, p.args))
  BY DEF IsCall
<1>3. \A t : Expression(p.name, p.args, t).text = t
             /\ Expression(p.name, p.args, t).type = "EXPRESSION"
  BY DEF Expression
<1>4. p.type = "EXPRESSION" /\ p.text = Call(p.name, p.args)
  BY <1>2, <1>3, Zenon
<1>5. p.name \in Seq(Signs)
  BY <1>1, SignsAre
<1>6. p.args \in Seq(Seq(Signs))
  <2>1. \A i \in 1..Len(p.args) : p.args[i] \in Seq(Characters)
    BY <1>1
  <2>2. \A i \in 1..Len(p.args) : p.args[i] \in Seq(Signs)
    BY <2>1, SignsAre
  <2>3. Len(p.args) \in Nat /\ p.args = [i \in 1..Len(p.args) |-> p.args[i]]
    BY <1>1
  <2> QED
    BY <2>2, <2>3
<1>7. Len(p.name) \in Nat \ {0} /\ Len(p.args) \in Nat
  BY <1>1
<1>8. p.args = <<>> => p.text = p.name
  BY <1>4 DEF Call
<1> QED
  BY <1>1, <1>4, <1>5, <1>6, <1>7, <1>8

\* The name, and the parenthesis behind it.
LEMMA NameOf ==
  ASSUME NEW p \in Token, IsCall(p)
  PROVE  /\ Len(p.text) >= Len(p.name)
         /\ \A m \in 1..Len(p.name) : p.text[m] = p.name[m]
         /\ p.args # <<>> => /\ Len(p.text) >= Len(p.name) + 2
                             /\ p.text[Len(p.name) + 1] = "("
<1>1. CASE p.args = <<>>
  BY <1>1, CallOf
<1>2. CASE p.args # <<>>
  <2>1. PICK name \in Seq(Signs) : name = p.name
    BY CallOf
  <2>2. PICK q \in Seq(Seq(Signs)) : q = Quoted(p.args)
    BY CallOf, AllQuoted
  <2>3. SeqExt!FlattenSeq(q) \in Seq(Signs)
    BY EndsAre
  <2>4. SeqExt!FlattenSeq(Quoted(p.args)) \in Seq(Signs)
    BY <2>2, <2>3, Zenon
  <2>5. PICK flat \in Seq(Signs) : \E c :
           /\ flat = SeqExt!FlattenSeq(Quoted(p.args)) /\ c = Call(name, p.args)
           /\ Len(c) = Len(name) + Len(flat) + 2
           /\ \A m \in 1..Len(name) : c[m] = name[m]
           /\ c[Len(name) + 1] = "("
           /\ c[Len(name) + Len(flat) + 2] = ")"
           /\ \A m \in 1..Len(flat) : c[Len(name) + 1 + m] = flat[m]
    <3>1. CallSpelled(name, p.args)
      BY <1>2, <2>4, CallIs
    <3> QED
      BY <3>1, Zenon DEF CallSpelled
  <2>6. PICK c : /\ c = Call(name, p.args)
                 /\ Len(c) = Len(name) + Len(flat) + 2
                 /\ \A m \in 1..Len(name) : c[m] = name[m]
                 /\ c[Len(name) + 1] = "("
    BY <2>5, Zenon
  <2>7. c = p.text
    BY <2>1, <2>6, CallOf
  <2>8. Len(flat) \in Nat /\ Len(name) \in Nat
    OBVIOUS
  <2>9. Len(c) >= Len(name) /\ Len(c) >= Len(name) + 2
    BY <2>6, <2>8
  <2> QED
    BY <2>1, <2>6, <2>7, <2>9, Zenon
<1> QED
  BY <1>1, <1>2

LEMMA Within ==
  \A e \in Nat, r \in Nat, f \in Nat : e + r <= f => \A m \in 1..r : e + m \in 1..f
OBVIOUS

\* The ith argument, its quotes and what comes behind them.
LEMMA ArgumentOf ==
  ASSUME NEW p \in Token, IsCall(p), NEW i \in 1..Len(p.args)
  PROVE  \E o \in Nat, l \in Nat :
           /\ o = Opening(p, i) /\ l = Len(p.args[i])
           /\ o > Len(p.name) + 1 /\ o + l + 2 <= Len(p.text)
           /\ p.text[o] = "'" /\ p.text[o + l + 1] = "'"
           /\ \A m \in 1..l : p.text[o + m] = p.args[i][m]
           /\ i < Len(p.args) =>
                /\ p.text[o + l + 2] = Comma /\ p.text[o + l + 3] = Space /\ p.text[o + l + 4] = "'"
                /\ Opening(p, i + 1) = o + l + 4 /\ o + l + 4 <= Len(p.text)
           /\ i = Len(p.args) => p.text[o + l + 2] = ")" /\ Len(p.text) = o + l + 2
<1>0. PICK args \in Seq(Seq(Signs)) : args = p.args
  BY CallOf
<1>1. PICK n \in Nat : n = Len(args)
  OBVIOUS
<1>2. PICK q \in Seq(Seq(Signs)) : q = Quoted(args) /\ Len(q) = n
  BY <1>1, AllQuoted
<1>3. PICK L \in Nat : L = Len(p.name)
  BY CallOf
<1>4. i \in 1..n /\ i \in 1..Len(q) /\ args # <<>> /\ args[i] \in Seq(Signs)
  BY <1>0, <1>1, <1>2
<1>5. PICK l \in Nat : l = Len(args[i])
  BY <1>4, LenProperties
<1>6. PICK E \in [0..n -> Nat] : /\ \A k \in 0..n : E[k] = Ends(q, k)
                                /\ E[0] = 0 /\ E[n] = Len(SeqExt!FlattenSeq(q))
                                /\ \A k \in 1..n : E[k] = E[k - 1] + Len(q[k])
  <2> DEFINE F == [k \in 0..n |-> Ends(q, k)]
  <2>1. /\ Ends(q, 0) = 0 /\ Ends(q, n) = Len(SeqExt!FlattenSeq(q))
        /\ \A k \in 0..n : Ends(q, k) \in Nat
        /\ \A k \in 1..n : Ends(q, k) = Ends(q, k - 1) + Len(q[k])
    BY <1>2, EndsAre
  <2>2. F \in [0..n -> Nat]
    BY <2>1
  <2>3. \A k \in 0..n : F[k] = Ends(q, k)
    OBVIOUS
  <2>4. 0 \in 0..n /\ n \in 0..n /\ \A k \in 1..n : k \in 0..n /\ k - 1 \in 0..n
    OBVIOUS
  <2>5. F[0] = 0 /\ F[n] = Len(SeqExt!FlattenSeq(q)) /\ \A k \in 1..n : F[k] = F[k - 1] + Len(q[k])
    BY <2>1, <2>3, <2>4
  <2> HIDE DEF F
  <2> QED
    BY <2>2, <2>3, <2>5, Zenon
<1>7. SeqExt!FlattenSeq(q) \in Seq(Signs)
  BY EndsAre
<1>b. PICK name \in Seq(Signs) : name = p.name
  BY CallOf
<1>8. PICK flat \in Seq(Signs) : \E c :
         /\ flat = SeqExt!FlattenSeq(Quoted(args)) /\ c = Call(name, args)
         /\ Len(c) = Len(name) + Len(flat) + 2
         /\ \A m \in 1..Len(name) : c[m] = name[m]
         /\ c[Len(name) + 1] = "("
         /\ c[Len(name) + Len(flat) + 2] = ")"
         /\ \A m \in 1..Len(flat) : c[Len(name) + 1 + m] = flat[m]
  <2>1. SeqExt!FlattenSeq(Quoted(args)) \in Seq(Signs)
    BY <1>2, <1>7, Zenon
  <2>2. args # <<>>
    BY <1>4
  <2>3. CallSpelled(name, args)
    BY <2>1, <2>2, CallIs
  <2> QED
    BY <2>3, Zenon DEF CallSpelled
<1>9. PICK c : /\ c = Call(name, args)
               /\ Len(c) = L + Len(flat) + 2
               /\ c[L + Len(flat) + 2] = ")"
               /\ \A m \in 1..Len(flat) : c[L + 1 + m] = flat[m]
  BY <1>3, <1>b, <1>8, Zenon
<1>10. c = p.text
  BY <1>0, <1>b, <1>9, CallOf
<1>11. flat = SeqExt!FlattenSeq(q)
  BY <1>2, <1>8
<1>12. \A k \in 1..n : /\ E[k] <= Len(flat)
                       /\ \A m \in 1..Len(q[k]) : flat[E[k - 1] + m] = q[k][m]
  <2> TAKE k \in 1..n
  <2>1. k \in 1..Len(q) /\ k \in 0..n /\ k - 1 \in 0..n
    BY <1>2
  <2>2. /\ Ends(q, k) <= Len(SeqExt!FlattenSeq(q))
        /\ \A m \in 1..Len(q[k]) : SeqExt!FlattenSeq(q)[Ends(q, k - 1) + m] = q[k][m]
    BY <2>1, PlacesAre
  <2>3. E[k] = Ends(q, k) /\ E[k - 1] = Ends(q, k - 1)
    BY <1>6, <2>1
  <2> QED
    BY <1>11, <2>2, <2>3, Zenon
<1>13. \A k \in 1..n : \A m \in 1..Len(q[k]) : c[L + 1 + E[k - 1] + m] = q[k][m]
  <2> TAKE k \in 1..n
  <2> TAKE m \in 1..Len(q[k])
  <2>1. E[k - 1] \in Nat /\ E[k] \in Nat /\ Len(q[k]) \in Nat /\ Len(flat) \in Nat
        /\ E[k] = E[k - 1] + Len(q[k]) /\ E[k] <= Len(flat)
    <3>1. k \in 0..n /\ k - 1 \in 0..n /\ q[k] \in Seq(Signs)
      BY <1>2
    <3> QED
      BY <1>6, <1>12, <3>1, LenProperties
  <2>2. PICK x \in 1..Len(flat) : x = E[k - 1] + m
    <3>1. E[k - 1] + Len(q[k]) <= Len(flat)
      BY <2>1
    <3>2. E[k - 1] + m \in 1..Len(flat)
      BY <2>1, <3>1, Within, Zenon
    <3> QED
      BY <3>2, Zenon
  <2>3. c[L + 1 + x] = flat[x]
    BY <1>9
  <2>4. L + 1 + x = L + 1 + E[k - 1] + m
    BY <2>1, <2>2
  <2>5. flat[x] = q[k][m]
    BY <1>12, <2>2
  <2> QED
    BY <2>3, <2>4, <2>5
<1>14. \A k \in 1..n : /\ Len(q[k]) = Gap(k) + Len(args[k]) + 2
                       /\ k # 1 => q[k][1] = Comma /\ q[k][2] = Space
                       /\ q[k][Gap(k) + 1] = "'" /\ q[k][Gap(k) + Len(args[k]) + 2] = "'"
                       /\ \A m \in 1..Len(args[k]) : q[k][Gap(k) + 1 + m] = args[k][m]
  BY <1>1, <1>2, AllQuoted
<1>15. \A k \in 1..n : Opening(p, k) = L + 2 + E[k - 1] + Gap(k)
  <2> TAKE k \in 1..n
  <2>1. k - 1 \in 0..n
    OBVIOUS
  <2> QED
    BY <1>0, <1>2, <1>3, <1>6, <2>1 DEF Opening
<1>a. Len(c) = L + Len(flat) + 2 /\ c[L + Len(flat) + 2] = ")"
  BY <1>9, Zenon
<1>16. PICK e \in Nat, g \in Nat, f \in Nat : /\ e = E[i - 1] /\ g = Gap(i) /\ f = Len(flat)
  <2>1. i - 1 \in 0..n /\ Gap(i) \in Nat
    BY <1>4 DEF Gap
  <2> QED
    BY <1>6, <2>1, LenProperties
<1>17. Len(q[i]) = g + l + 2
  BY <1>4, <1>5, <1>14, <1>16
<1>18. PICK d \in Nat : d = E[i] /\ d = e + (g + l + 2) /\ d <= f
  <2>1. E[i] = E[i - 1] + Len(q[i]) /\ E[i] <= Len(flat) /\ i \in 0..n
    BY <1>4, <1>6, <1>12
  <2> QED
    BY <1>6, <1>16, <1>17, <2>1
<1>19. PICK o \in Nat : o = Opening(p, i) /\ o = L + 2 + e + g
  BY <1>4, <1>15, <1>16
<1>20. /\ q[i][g + 1] = "'" /\ q[i][g + l + 2] = "'"
       /\ \A m \in 1..l : q[i][g + 1 + m] = args[i][m]
  BY <1>4, <1>5, <1>14, <1>16
<1>21. \A m \in 1..(g + l + 2) : c[L + 1 + e + m] = q[i][m]
  BY <1>4, <1>13, <1>16, <1>17
<1>22. o > L + 1 /\ o + l + 2 <= L + f + 2 /\ Len(c) = L + f + 2 /\ c[L + f + 2] = ")"
  <2>1. o > L + 1 /\ o + l + 2 <= L + f + 2
    BY <1>18, <1>19
  <2> QED
    BY <1>a, <1>16, <2>1, Zenon
<1>23. c[o] = "'"
  <2>1. g + 1 \in 1..(g + l + 2) /\ L + 1 + e + (g + 1) = o
    BY <1>19
  <2> QED
    BY <1>20, <1>21, <2>1
<1>24. c[o + l + 1] = "'"
  <2>1. g + l + 2 \in 1..(g + l + 2) /\ L + 1 + e + (g + l + 2) = o + l + 1
    BY <1>19
  <2> QED
    BY <1>20, <1>21, <2>1
<1>25. ASSUME NEW m \in 1..l PROVE c[o + m] = args[i][m]
  <2>1. g + 1 + m \in 1..(g + l + 2) /\ L + 1 + e + (g + 1 + m) = o + m
    BY <1>19
  <2> QED
    BY <1>20, <1>21, <2>1
<1>26. ASSUME i < n
       PROVE  /\ c[o + l + 2] = Comma /\ c[o + l + 3] = Space /\ c[o + l + 4] = "'"
              /\ Opening(p, i + 1) = o + l + 4 /\ o + l + 4 <= L + f + 2
  <2>1. PICK k \in 1..n : k = i + 1 /\ k - 1 = i
    BY <1>4, <1>26
  <2>2. Gap(k) = 2 /\ k # 1
    BY <1>4, <2>1 DEF Gap
  <2>3. PICK r \in Nat : r = Len(args[k])
    BY <1>1, LenProperties
  <2>4. q[k][1] = Comma /\ q[k][2] = Space /\ q[k][2 + 1] = "'" /\ Len(q[k]) = 2 + r + 2
    BY <1>14, <2>2, <2>3
  <2>5. \A m \in 1..(2 + r + 2) : c[L + 1 + d + m] = q[k][m]
    <3>1. \A m \in 1..Len(q[k]) : c[L + 1 + E[k - 1] + m] = q[k][m]
      BY <1>13
    <3>2. E[k - 1] = d
      BY <1>18, <2>1
    <3> QED
      BY <2>4, <3>1, <3>2, Zenon
  <2>6. /\ L + 1 + d + 1 = o + l + 2 /\ L + 1 + d + 2 = o + l + 3
        /\ L + 1 + d + (2 + 1) = o + l + 4
    BY <1>18, <1>19
  <2>7. c[o + l + 2] = Comma /\ c[o + l + 3] = Space /\ c[o + l + 4] = "'"
    <3>1. 1 \in 1..(2 + r + 2) /\ 2 \in 1..(2 + r + 2) /\ 2 + 1 \in 1..(2 + r + 2)
      OBVIOUS
    <3> QED
      BY <2>4, <2>5, <2>6, <3>1
  <2>8. Opening(p, i + 1) = o + l + 4
    <3>1. Opening(p, k) = L + 2 + d + 2
      BY <1>15, <1>18, <2>1, <2>2
    <3> QED
      BY <1>18, <1>19, <2>1, <3>1
  <2>9. d + (2 + r + 2) <= f
    <3>1. E[k] = d + Len(q[k]) /\ E[k] <= f
      BY <1>6, <1>12, <1>16, <1>18, <2>1
    <3> QED
      BY <2>4, <3>1
  <2>10. o + l + 4 <= L + f + 2
    BY <1>18, <1>19, <2>9
  <2> QED
    BY <2>7, <2>8, <2>10
<1>27. ASSUME i = n
       PROVE  c[o + l + 2] = ")" /\ L + f + 2 = o + l + 2
  <2>1. d = f
    BY <1>6, <1>11, <1>16, <1>18, <1>27
  <2>2. L + f + 2 = o + l + 2
    BY <1>18, <1>19, <2>1
  <2> QED
    BY <1>22, <2>2
<1>28. /\ p.args[i] = args[i] /\ n = Len(p.args) /\ L = Len(p.name) /\ c = p.text
       /\ Len(p.text) = L + f + 2
  BY <1>0, <1>1, <1>3, <1>10, <1>22
<1> QED
  BY <1>5, <1>19, <1>22, <1>23, <1>24, <1>25, <1>26, <1>27, <1>28, Zenon

----------------------------------------------------------------------------
(* The pieces in the text that was spelled from them.                       *)

Spells ==
  /\ written \in Seq(Token) /\ WellFormed(written)
  /\ text = Whole(written) /\ text \in Seq(Characters)

\* The end of the kth piece.
Off(k) == Ends(Shows(written), k)

LEMMA CutOut ==
  ASSUME NEW S, NEW t \in Seq(S), NEW s \in Seq(S), NEW x \in Nat, NEW y \in 0..Len(t),
         x + Len(s) = y, \A m \in 1..Len(s) : t[x + m] = s[m]
  PROVE  SubSeq(t, x + 1, y) = s
<1> DEFINE u == SubSeq(t, x + 1, y)
<1>1. Len(s) \in Nat /\ Len(t) \in Nat /\ y \in Nat
  OBVIOUS
<1>2. u \in Seq(S) /\ Len(u) = Len(s) /\ \A m \in 1..Len(s) : u[m] = t[x + m]
  <2>1. Len(u) = IF x + 1 <= y THEN y - (x + 1) + 1 ELSE 0
    BY <1>1
  <2>2. Len(u) = Len(s)
    BY <1>1, <2>1
  <2>3. \A m \in 1..Len(s) : u[m] = t[x + m]
    BY <1>1
  <2>4. u \in Seq(S)
    BY <1>1
  <2> QED
    BY <2>2, <2>3, <2>4
<1> HIDE DEF u
<1>3. \A m \in 1..Len(s) : u[m] = s[m]
  BY <1>2
<1> QED
  BY <1>2, <1>3 DEF u

LEMMA KindsAre ==
  ASSUME NEW p \in Token
  PROVE  /\ IsText(p) => /\ p.type = "TEXT" /\ Shown(p) = p.text /\ p.text \in Seq(Characters)
                         /\ p = TextToken(p.text) /\ Len(p.text) \in Nat \ {0}
                         /\ \A m \in 1..Len(p.text) : p.text[m] # "["
         /\ IsCall(p) => /\ p.type = "EXPRESSION" /\ Shown(p) = <<"[">> \o p.text \o <<"]">>
                         /\ p = Expression(p.name, p.args, p.text)
<1>1. ASSUME IsText(p)
      PROVE  /\ p.type = "TEXT" /\ Shown(p) = p.text /\ p.text \in Seq(Characters)
             /\ p = TextToken(p.text) /\ Len(p.text) \in Nat \ {0}
             /\ \A m \in 1..Len(p.text) : p.text[m] # "["
  <2>1. p = TextToken(p.text) /\ p.text \in Seq(Characters \ {"["}) /\ p.text # <<>>
    BY <1>1 DEF IsText
  <2>2. \A t : TextToken(t).type = "TEXT"
    BY DEF TextToken
  <2>3. p.type = "TEXT"
    BY <2>1, <2>2, Zenon
  <2>4. p.text \in Seq(Characters)
    BY DEF Token
  <2>5. Len(p.text) \in Nat \ {0} /\ \A m \in 1..Len(p.text) : p.text[m] # "["
    <3>1. PICK t \in Seq(Characters \ {"["}) : t = p.text
      BY <2>1
    <3>2. t # <<>> => Len(t) \in Nat \ {0}
      OBVIOUS
    <3>3. \A m \in 1..Len(t) : t[m] # "["
      OBVIOUS
    <3> QED
      BY <2>1, <3>1, <3>2, <3>3
  <2> QED
    BY <2>1, <2>3, <2>4, <2>5 DEF Shown
<1>2. ASSUME IsCall(p)
      PROVE  /\ p.type = "EXPRESSION" /\ Shown(p) = <<"[">> \o p.text \o <<"]">>
             /\ p = Expression(p.name, p.args, p.text)
  <2>1. p.type = "EXPRESSION" /\ p.text = Call(p.name, p.args)
    BY <1>2, CallOf
  <2>2. p = Expression(p.name, p.args, Call(p.name, p.args))
    BY <1>2 DEF IsCall
  <2> QED
    BY <2>1, <2>2, Zenon DEF Shown
<1> QED
  BY <1>1, <1>2, Zenon

LEMMA InBracketsIs ==
  ASSUME NEW t \in Seq(Marks)
  PROVE  \A s : s = <<"[">> \o t \o <<"]">> =>
           /\ s \in Seq(Marks) /\ Len(s) = Len(t) + 2 /\ s[1] = "[" /\ s[Len(t) + 2] = "]"
           /\ \A m \in 1..Len(t) : s[1 + m] = t[m]
<1>1. PICK open \in Seq(Marks), close \in Seq(Marks) : open = <<"[">> /\ close = <<"]">>
  <2>1. <<"[">> \in Seq(Marks) /\ <<"]">> \in Seq(Marks)
    BY DEF Marks
  <2> QED
    BY <2>1, Zenon
<1>2. Len(open) = 1 /\ open[1] = "[" /\ Len(close) = 1 /\ close[1] = "]"
  BY <1>1
<1>3. PICK s : s = (open \o t) \o close
  OBVIOUS
<1>4. /\ (open \o t) \o close \in Seq(Marks)
      /\ Len((open \o t) \o close) = Len(open) + Len(t) + Len(close)
      /\ \A m \in 1..Len(open) : ((open \o t) \o close)[m] = open[m]
      /\ \A m \in 1..Len(t) : ((open \o t) \o close)[Len(open) + m] = t[m]
      /\ \A m \in 1..Len(close) : ((open \o t) \o close)[Len(open) + Len(t) + m] = close[m]
  BY Framed
<1>5. /\ s \in Seq(Marks)
      /\ Len(s) = Len(open) + Len(t) + Len(close)
      /\ \A m \in 1..Len(open) : s[m] = open[m]
      /\ \A m \in 1..Len(t) : s[Len(open) + m] = t[m]
      /\ \A m \in 1..Len(close) : s[Len(open) + Len(t) + m] = close[m]
  BY <1>3, <1>4, Zenon
<1>6. Len(t) \in Nat
  OBVIOUS
<1>7. /\ Len(s) = Len(t) + 2 /\ s[1] = "[" /\ s[1 + Len(t) + 1] = "]"
      /\ \A m \in 1..Len(t) : s[1 + m] = t[m]
  BY <1>2, <1>5, <1>6
<1>8. s[Len(t) + 2] = "]"
  <2>1. 1 + Len(t) + 1 = Len(t) + 2
    BY <1>6
  <2> QED
    BY <1>7, <2>1
<1>9. s = <<"[">> \o t \o <<"]">>
  BY <1>1, <1>3, Zenon
<1> QED
  BY <1>5, <1>7, <1>8, <1>9, Zenon

LEMMA OffsetsAre ==
  ASSUME Spells
  PROVE  /\ Off(0) = 0 /\ Off(Len(written)) = Len(text) /\ Len(text) \in Nat /\ Len(written) \in Nat
         /\ \A k \in 0..Len(written) : Off(k) \in Nat
         /\ \A k \in 1..Len(written) : Off(k) = Off(k - 1) + Len(Shown(written[k])) /\ Off(k) <= Len(text)
         /\ \A k \in 1..Len(written) : \A m \in 1..Len(Shown(written[k])) :
              text[Off(k - 1) + m] = Shown(written[k])[m]
<1>1. PICK s \in Seq(Seq(Marks)) : s = Shows(written) /\ Len(s) = Len(written)
  BY ShowsAre DEF Spells
<1>2. text = SeqExt!FlattenSeq(s) /\ Len(text) \in Nat /\ Len(written) \in Nat
  BY <1>1 DEF Spells, Whole
<1>3. \A k \in 1..Len(written) : s[k] = Shown(written[k])
  BY <1>1 DEF Shows
<1>4. \A k : Off(k) = Ends(s, k)
  BY <1>1 DEF Off
<1>5. /\ Ends(s, 0) = 0 /\ Ends(s, Len(s)) = Len(SeqExt!FlattenSeq(s))
      /\ \A k \in 0..Len(s) : Ends(s, k) \in Nat
      /\ \A k \in 1..Len(s) : Ends(s, k) = Ends(s, k - 1) + Len(s[k])
  BY EndsAre
<1>6. \A k \in 1..Len(s) : /\ Ends(s, k) <= Len(SeqExt!FlattenSeq(s))
                           /\ \A m \in 1..Len(s[k]) :
                                SeqExt!FlattenSeq(s)[Ends(s, k - 1) + m] = s[k][m]
  BY PlacesAre
<1>7. Len(s) = Len(written)
  BY <1>1
<1> QED
  BY <1>2, <1>3, <1>4, <1>5, <1>6, <1>7, Zenon

\* A piece of plain text lies in the text from a to b.
LEMMA TextAt ==
  ASSUME Spells, NEW j \in 1..Len(written), IsText(written[j])
  PROVE  \E a \in Nat, b \in Nat :
           /\ a = Off(j - 1) /\ b = Off(j) /\ a < b /\ b <= Len(text)
           /\ \A x \in (a + 1)..b : text[x] # "["
           /\ SubSeq(text, a + 1, b) = written[j].text
<1>1. PICK a \in Nat, b \in Nat : /\ a = Off(j - 1) /\ b = Off(j)
  <2>1. j \in 0..Len(written) /\ j - 1 \in 0..Len(written)
    OBVIOUS
  <2> QED
    BY <2>1, OffsetsAre
<1>2. written[j] \in Token
  BY DEF Spells
<1>3. PICK t \in Seq(Characters) : /\ t = written[j].text /\ t = Shown(written[j])
                                   /\ Len(t) \in Nat \ {0}
                                   /\ \A m \in 1..Len(t) : t[m] # "["
  BY <1>2, KindsAre
<1>4. PICK l \in Nat : l = Len(t) /\ l # 0
  BY <1>3
<1>5. b = a + l /\ b <= Len(text) /\ \A m \in 1..l : text[a + m] = t[m]
  BY <1>1, <1>3, <1>4, OffsetsAre
<1>6. \A x \in (a + 1)..b : text[x] # "["
  <2> TAKE x \in (a + 1)..b
  <2>1. PICK m \in 1..l : x = a + m
    <3>1. x - a \in 1..l /\ x = a + (x - a)
      BY <1>5
    <3> QED
      BY <3>1
  <2> QED
    BY <1>3, <1>4, <1>5, <2>1
<1>7. SubSeq(text, a + 1, b) = t
  <2>1. text \in Seq(Characters) /\ b \in 0..Len(text) /\ a + Len(t) = b
        /\ \A m \in 1..Len(t) : text[a + m] = t[m]
    BY <1>4, <1>5 DEF Spells
  <2> QED
    BY <2>1, CutOut
<1>8. a < b
  BY <1>4, <1>5
<1> QED
  BY <1>1, <1>3, <1>5, <1>6, <1>7, <1>8, Zenon

\* A call lies in the text from its bracket at e to its bracket at b.
LEMMA CallAt ==
  ASSUME Spells, NEW j \in 1..Len(written), IsCall(written[j])
  PROVE  \E e \in Nat, b \in Nat :
           /\ e = Off(j - 1) + 1 /\ b = Off(j) /\ b <= Len(text) /\ e \in 1..b
           /\ b = e + Len(written[j].text) + 1
           /\ text[e] = "[" /\ text[b] = "]"
           /\ \A m \in 1..Len(written[j].text) : text[e + m] = written[j].text[m]
           /\ SubSeq(text, e + 1, b - 1) = written[j].text
<1>1. PICK a \in Nat, b \in Nat : /\ a = Off(j - 1) /\ b = Off(j)
  <2>1. j \in 0..Len(written) /\ j - 1 \in 0..Len(written)
    OBVIOUS
  <2> QED
    BY <2>1, OffsetsAre
<1>2. written[j] \in Token
  BY DEF Spells
<1>3. PICK t \in Seq(Characters) : t = written[j].text /\ Shown(written[j]) = <<"[">> \o t \o <<"]">>
  BY <1>2, CallOf, KindsAre
<1>4. PICK l \in Nat : l = Len(t)
  OBVIOUS
<1>5. t \in Seq(Marks)
  BY DEF Marks
<1>6. PICK s : s = Shown(written[j])
  OBVIOUS
<1>7. /\ Len(s) = Len(t) + 2 /\ s[1] = "[" /\ s[Len(t) + 2] = "]"
      /\ \A m \in 1..Len(t) : s[1 + m] = t[m]
  <2>1. \A u : u = <<"[">> \o t \o <<"]">> =>
           /\ u \in Seq(Marks) /\ Len(u) = Len(t) + 2 /\ u[1] = "[" /\ u[Len(t) + 2] = "]"
           /\ \A m \in 1..Len(t) : u[1 + m] = t[m]
    BY <1>5, InBracketsIs
  <2>2. s = <<"[">> \o t \o <<"]">>
    BY <1>3, <1>6
  <2> QED
    BY <2>1, <2>2, Zenon
<1>8. b = a + Len(s) /\ b <= Len(text) /\ \A m \in 1..Len(s) : text[a + m] = s[m]
  BY <1>1, <1>6, OffsetsAre
<1>9. PICK e \in Nat : e = a + 1
  OBVIOUS
<1>10. b = e + l + 1 /\ e \in 1..b /\ b <= Len(text)
  BY <1>4, <1>7, <1>8, <1>9
<1>11. text[e] = "["
  BY <1>4, <1>7, <1>8, <1>9
<1>12. text[b] = "]"
  <2>1. l + 2 \in 1..Len(s) /\ a + (l + 2) = b /\ s[l + 2] = "]"
    BY <1>4, <1>7, <1>9, <1>10
  <2> QED
    BY <1>8, <2>1
<1>13. ASSUME NEW m \in 1..l PROVE text[e + m] = t[m]
  <2>1. 1 + m \in 1..Len(s) /\ a + (1 + m) = e + m /\ s[1 + m] = t[m]
    BY <1>4, <1>7, <1>9
  <2> QED
    BY <1>8, <2>1
<1>14. SubSeq(text, e + 1, b - 1) = t
  <2>1. text \in Seq(Characters) /\ b - 1 \in 0..Len(text) /\ e + Len(t) = b - 1
        /\ \A m \in 1..Len(t) : text[e + m] = t[m]
    BY <1>4, <1>10, <1>13, OffsetsAre DEF Spells
  <2> QED
    BY <2>1, CutOut
<1>15. \A m \in 1..Len(written[j].text) : text[e + m] = written[j].text[m]
  BY <1>3, <1>4, <1>13, Zenon
<1>16. b = e + Len(written[j].text) + 1 /\ e = Off(j - 1) + 1
  BY <1>1, <1>3, <1>4, <1>9, <1>10, Zenon
<1>17. SubSeq(text, e + 1, b - 1) = written[j].text
  BY <1>3, <1>14, Zenon
<1>18. /\ e = Off(j - 1) + 1 /\ b = Off(j) /\ b <= Len(text) /\ e \in 1..b
       /\ b = e + Len(written[j].text) + 1
       /\ text[e] = "[" /\ text[b] = "]"
       /\ \A m \in 1..Len(written[j].text) : text[e + m] = written[j].text[m]
       /\ SubSeq(text, e + 1, b - 1) = written[j].text
  BY <1>1, <1>10, <1>11, <1>12, <1>15, <1>16, <1>17, Zenon
<1> QED
  BY <1>18, Zenon

----------------------------------------------------------------------------
(* Searching in a text, and the tokens that are kept.                       *)

LEMMA FindFirst ==
  ASSUME text \in Seq(Characters), NEW i \in Nat, NEW c, NEW k \in 1..Len(text),
         k >= i, text[k] = c,
         \A m \in 1..Len(text) : i <= m /\ m < k => text[m] # c
  PROVE  Find(i, c) = k
<1> DEFINE found == {m \in DOMAIN text : m >= i /\ text[m] = c}
<1>1. DOMAIN text = 1..Len(text) /\ Len(text) \in Nat
  OBVIOUS
<1>2. k \in found /\ \A m \in found : m \in Nat /\ k <= m
  BY <1>1
<1>3. Find(i, c) = IF found = {} THEN 0 ELSE CHOOSE l \in found : \A m \in found : l <= m
  BY DEF Find
<1> HIDE DEF found
<1>4. \A l \in found : (\A m \in found : l <= m) => l = k
  BY <1>2
<1> QED
  BY <1>2, <1>3, <1>4

LEMMA FindNone ==
  ASSUME text \in Seq(Characters), NEW i \in Nat, NEW c,
         \A m \in 1..Len(text) : i <= m => text[m] # c
  PROVE  Find(i, c) = 0
<1>1. DOMAIN text = 1..Len(text)
  OBVIOUS
<1>2. {m \in DOMAIN text : m >= i /\ text[m] = c} = {}
  BY <1>1
<1> QED
  BY <1>2 DEF Find

\* What a token adds to the tokens that are kept.
Keeps(t) == IF t = TextToken(<<>>) THEN <<>> ELSE <<t>>

LEMMA KeptAppend ==
  ASSUME NEW ts \in Seq(Token), NEW t \in Token, Kept(ts) \in Seq(Token)
  PROVE  /\ Append(ts, t) \in Seq(Token)
         /\ t = TextToken(<<>>) => Kept(Append(ts, t)) = Kept(ts)
         /\ t # TextToken(<<>>) => Kept(Append(ts, t)) = Append(Kept(ts), t)
<1> DEFINE Keep(us) == [i \in 1..Len(us) |-> Keeps(us[i])]
<1>1. \A us : Kept(us) = SeqExt!FlattenSeq(Keep(us))
  BY DEF Kept, Keeps
<1>2. \A u \in Token : Keeps(u) \in Seq(Token)
  BY DEF Keeps
<1>3. Keep(ts) \in Seq(Seq(Token)) /\ Len(Keep(ts)) = Len(ts)
  <2>1. \A i \in 1..Len(ts) : Keeps(ts[i]) \in Seq(Token)
    BY <1>2
  <2> QED
    BY <2>1
<1>4. Keep(Append(ts, t)) = Append(Keep(ts), Keeps(t))
  <2> DEFINE u == Append(ts, t)
             v == Append(Keep(ts), Keeps(t))
             n == Len(ts)
  <2>1. /\ u \in Seq(Token) /\ Len(u) = n + 1 /\ u[n + 1] = t
        /\ \A i \in 1..n : u[i] = ts[i]
    BY AppendProperties
  <2>2. /\ v \in Seq(Seq(Token)) /\ Len(v) = n + 1 /\ v[n + 1] = Keeps(t)
        /\ \A i \in 1..n : v[i] = Keep(ts)[i]
    <3> HIDE DEF Keep
    <3> QED
      BY <1>2, <1>3, AppendProperties
  <2>3. n \in Nat /\ \A i \in 1..n : Keep(ts)[i] = Keeps(ts[i])
    OBVIOUS
  <2> HIDE DEF u, v, n
  <2>4. \A i \in 1..(n + 1) : v[i] = Keeps(u[i])
    <3> TAKE i \in 1..(n + 1)
    <3>1. i \in 1..n \/ i = n + 1
      BY <2>3
    <3> HIDE DEF Keep
    <3> QED
      BY <2>1, <2>2, <2>3, <3>1
  <2>5. v = [i \in 1..(n + 1) |-> v[i]]
    BY <2>2
  <2>6. v = [i \in 1..(n + 1) |-> Keeps(u[i])]
    BY <2>4, <2>5
  <2>7. Keep(u) = v
    BY <2>1, <2>6
  <2> QED
    BY <2>7 DEF u, v
<1> HIDE DEF Keep
<1>5. Kept(Append(ts, t)) = Kept(ts) \o Keeps(t)
  BY <1>1, <1>2, <1>3, <1>4, FlattenAppend
<1>6. t = TextToken(<<>>) => Kept(Append(ts, t)) = Kept(ts)
  <2>1. \A s \in Seq(Token) : s \o <<>> = s
    OBVIOUS
  <2> QED
    BY <1>5, <2>1 DEF Keeps
<1>7. t # TextToken(<<>>) => Kept(Append(ts, t)) = Append(Kept(ts), t)
  <2>1. \A s \in Seq(Token) : s \o <<t>> = Append(s, t)
    OBVIOUS
  <2> QED
    BY <1>5, <2>1 DEF Keeps
<1> QED
  BY <1>6, <1>7, AppendProperties

LEMMA KeptNone == Kept(<<>>) = <<>>
<1>1. [i \in 1..Len(<<>>) |-> IF <<>>[i] = TextToken(<<>>) THEN <<>> ELSE <<(<<>>)[i]>>] = <<>>
  OBVIOUS
<1> QED
  BY <1>1, FlattenNone DEF Kept

\* Pieces that are kept.
LEMMA PieceKept ==
  ASSUME NEW p \in Token, IsText(p) \/ IsCall(p)
  PROVE  p # TextToken(<<>>)
<1>1. CASE IsText(p)
  <2>1. p.text # <<>>
    BY <1>1 DEF IsText
  <2> QED
    BY <2>1 DEF TextToken
<1>2. CASE IsCall(p)
  <2>1. p.type = "EXPRESSION"
    BY <1>2, CallOf
  <2> QED
    BY <2>1 DEF TextToken
<1> QED
  BY <1>1, <1>2

LEMMA BeginningGrows ==
  ASSUME NEW S, NEW s \in Seq(S), NEW k \in 1..Len(s)
  PROVE  /\ Append(SubSeq(s, 1, k - 1), s[k]) = SubSeq(s, 1, k)
         /\ SubSeq(s, 1, k - 1) \in Seq(S) /\ s[k] \in S
OBVIOUS

----------------------------------------------------------------------------
(* The invariant: what has been read of the pieces the text was spelled     *)
(* from.                                                                    *)

\* How far the call p has been read.
Reads(p) ==
  \/ /\ mode = "name" /\ arguments = <<>>
     /\ \E m \in 1..Len(p.name) : searchPos = expressionStart + m
  \/ /\ mode = "arguments" /\ functionName = p.name /\ argumentStart = searchPos
     /\ \E i \in 1..Len(p.args) : /\ arguments = SubSeq(p.args, 1, i - 1)
                                  /\ searchPos = expressionStart + Opening(p, i)
  \/ /\ mode = "success" /\ functionName = p.name /\ arguments = p.args
     /\ searchPos = expressionStart + Len(p.text) + 1

\* After the kth piece there is no further call.
NoMore(k) == k = Len(written) \/ (k + 1 = Len(written) /\ IsText(written[k + 1]))

\* The parser is behind the kth piece.
Between(k) == mode = "begin" /\ arguments = <<>> /\ (searchPos = pos \/ (searchPos = 0 /\ NoMore(k)))

\* The parser is in the call that follows the kth piece, or the plain text
\* behind it.
InCall(k) ==
  \E j \in 1..Len(written) :
    /\ IsCall(written[j]) /\ (j = k + 1 \/ (j = k + 2 /\ IsText(written[k + 1])))
    /\ expressionStart = Off(j - 1) + 1 /\ Reads(written[j])

\* The first k pieces are tokens.
Reached(k) ==
  /\ Kept(tokens) = SubSeq(written, 1, k) /\ pos = Off(k) + 1
  /\ Between(k) \/ InCall(k)

WrittenInv ==
  written # <<>> =>
    /\ Spells
    /\ IF finished THEN Kept(tokens) = written ELSE \E k \in 0..Len(written) : Reached(k)

LEMMA WrittenInvInit == ParserInit => WrittenInv
<1> SUFFICES ASSUME ParserInit, written # <<>> PROVE WrittenInv
  BY DEF WrittenInv
<1>1. written \in Writings /\ text = Spelled(written)
  BY DEF ParserInit
<1>2. Spells
  <2>1. Spelled(written) = Whole(written)
    BY DEF Spelled, Whole, Shows
  <2> QED
    BY <1>1, <2>1, ParserAssumption DEF ParserAssumption, Spells
<1>3. Reached(0)
  <2>1. SubSeq(written, 1, 0) = <<>>
    BY <1>2 DEF Spells
  <2>2. Off(0) = 0
    BY <1>2, OffsetsAre
  <2>3. Kept(tokens) = <<>>
    BY KeptNone DEF ParserInit
  <2>4. pos = 1 /\ searchPos = pos /\ mode = "begin" /\ arguments = <<>>
    BY DEF ParserInit
  <2>5. pos = Off(0) + 1
    BY <2>2, <2>4
  <2>6. Between(0)
    BY <2>4 DEF Between
  <2> QED
    BY <2>1, <2>3, <2>5, <2>6, Zenon DEF Reached
<1>4. 0 \in 0..Len(written)
  BY <1>2 DEF Spells
<1> QED
  BY <1>2, <1>3, <1>4 DEF WrittenInv, ParserInit

\* What the text was spelled from stays.
LEMMA SpellsOn ==
  ASSUME Spells, UNCHANGED <<text, written>>
  PROVE  Spells' /\ \A k : Off(k)' = Off(k) /\ NoMore(k)' = NoMore(k)
BY DEF Spells, Off, Ends, Shows, Shown, Whole, NoMore

LEMMA ReachedOn ==
  ASSUME Spells, UNCHANGED <<text, written, finished>>, ~finished,
         NEW k \in 0..Len(written), Kept(tokens)' = SubSeq(written, 1, k), pos' = Off(k) + 1,
         Between(k)' \/ InCall(k)'
  PROVE  WrittenInv'
<1>1. Spells' /\ Off(k)' = Off(k)
  BY SpellsOn
<1>2. Reached(k)'
  BY <1>1 DEF Reached
<1>3. k \in 0..Len(written') /\ ~finished'
  OBVIOUS
<1> QED
  BY <1>1, <1>2, <1>3 DEF WrittenInv

LEMMA InCallOn ==
  ASSUME Spells, UNCHANGED <<text, written>>,
         NEW k, NEW j \in 1..Len(written), IsCall(written[j]),
         j = k + 1 \/ (j = k + 2 /\ IsText(written[k + 1])),
         expressionStart' = Off(j - 1) + 1,
         NEW p, p = written[j],
         \/ /\ mode' = "name" /\ arguments' = <<>>
            /\ \E m \in 1..Len(p.name) : searchPos' = expressionStart' + m
         \/ /\ mode' = "arguments" /\ functionName' = p.name /\ argumentStart' = searchPos'
            /\ \E i \in 1..Len(p.args) : /\ arguments' = SubSeq(p.args, 1, i - 1)
                                         /\ searchPos' = expressionStart' + Opening(p, i)
         \/ /\ mode' = "success" /\ functionName' = p.name /\ arguments' = p.args
            /\ searchPos' = expressionStart' + Len(p.text) + 1
  PROVE  InCall(k)'
<1>1. \A q : Off(q)' = Off(q)
  BY SpellsOn
<1>2. Reads(written[j])'
  BY Zenon DEF Reads
<1>3. written' = written
  OBVIOUS
<1> QED
  BY <1>1, <1>2, <1>3, Zenon DEF InCall

\* Where the parser is, as long as it goes on.
LEMMA WhereItIs ==
  ASSUME WrittenInv, written # <<>>, ~finished
  PROVE  /\ Spells
         /\ \E k \in 0..Len(written) : Reached(k)
BY DEF WrittenInv

LEMMA InTheCall ==
  ASSUME WrittenInv, written # <<>>, ~finished, mode # "begin"
  PROVE  \E k \in 0..Len(written) : \E j \in 1..Len(written) :
           /\ Kept(tokens) = SubSeq(written, 1, k) /\ pos = Off(k) + 1
           /\ IsCall(written[j]) /\ (j = k + 1 \/ (j = k + 2 /\ IsText(written[k + 1])))
           /\ expressionStart = Off(j - 1) + 1 /\ Reads(written[j])
BY WhereItIs, Zenon DEF Reached, Between, InCall

----------------------------------------------------------------------------
(* The steps.                                                               *)

LEMMA SearchBeginningReads ==
  ASSUME WrittenInv, ParserInv, written # <<>>, ~finished, Parsing, SearchBeginning,
         UNCHANGED <<text, written, finished>>
  PROVE  WrittenInv'
<1>1. Spells
  BY WhereItIs
<1>2. PICK k \in 0..Len(written) : Reached(k)
  BY WhereItIs
<1>3. /\ mode = "begin" /\ UNCHANGED <<pos, arguments, tokens>>
      /\ Find(searchPos, "[") = 0 => searchPos' = 0 /\ mode' = mode
      /\ Find(searchPos, "[") # 0 => /\ expressionStart' = Find(searchPos, "[") /\ mode' = "name"
                                     /\ searchPos' = Find(searchPos, "[") + 1
  BY DEF SearchBeginning
<1>4. Kept(tokens) = SubSeq(written, 1, k) /\ pos = Off(k) + 1 /\ arguments = <<>> /\ searchPos = pos
  BY <1>2, <1>3 DEF Reached, Between, InCall, Reads, Parsing
<1>5. Kept(tokens)' = SubSeq(written, 1, k) /\ pos' = Off(k) + 1 /\ arguments' = <<>>
  BY <1>3, <1>4 DEF Kept
<1>6. text \in Seq(Characters) /\ Len(text) \in Nat /\ Len(written) \in Nat
  BY <1>1, OffsetsAre DEF Spells
<1>7. searchPos \in 1..Len(text)
  BY Here
<1>8. k < Len(written)
  <2>1. Off(Len(written)) = Len(text)
    BY <1>1, OffsetsAre
  <2>2. k # Len(written)
    BY <1>4, <1>6, <1>7, <2>1
  <2> QED
    BY <1>6, <2>2
<1>9. PICK j \in 1..Len(written) : j = k + 1
  BY <1>6, <1>8
<1>10. PICK a \in Nat : a = Off(k) /\ a = Off(j - 1) /\ searchPos = a + 1
  <2>1. j - 1 = k
    BY <1>9
  <2> QED
    BY <1>1, <1>4, <2>1, OffsetsAre
<1>11. IsText(written[j]) \/ IsCall(written[j])
  BY <1>1 DEF Spells, WellFormed
<1>12. CASE IsCall(written[j])
  <2>1. PICK e \in Nat, b \in Nat : e = Off(j - 1) + 1 /\ b <= Len(text) /\ e \in 1..b /\ text[e] = "["
    BY <1>1, <1>12, CallAt
  <2>2. e = searchPos /\ e \in 1..Len(text)
    BY <1>6, <1>10, <2>1
  <2>3. Find(searchPos, "[") = e
    BY <1>6, <2>1, <2>2, FindFirst
  <2>4. expressionStart' = Off(j - 1) + 1 /\ mode' = "name" /\ searchPos' = expressionStart' + 1
    BY <1>3, <2>1, <2>2, <2>3
  <2>5. InCall(k)'
    <3>1. PICK p : p = written[j]
      OBVIOUS
    <3>2. 1 \in 1..Len(p.name)
      <4>1. written[j] \in Token
        BY <1>1 DEF Spells
      <4> QED
        BY <1>12, <3>1, <4>1, CallOf
    <3>3. \E m \in 1..Len(p.name) : searchPos' = expressionStart' + m
      BY <2>4, <3>2
    <3> QED
      BY <1>1, <1>5, <1>9, <1>12, <2>4, <3>1, <3>3, InCallOn
  <2> QED
    BY <1>1, <1>5, <2>5, ReachedOn
<1>13. CASE IsText(written[j])
  <2>1. PICK c \in Nat, b \in Nat : /\ c = Off(j - 1) /\ b = Off(j) /\ c < b /\ b <= Len(text)
                                    /\ \A x \in (c + 1)..b : text[x] # "["
    BY <1>1, <1>13, TextAt
  <2>2. \A x \in (a + 1)..b : text[x] # "["
    BY <1>10, <2>1
  <2>3. CASE j = Len(written)
    <3>1. b = Len(text)
      BY <1>1, <2>1, <2>3, OffsetsAre
    <3>2. \A m \in 1..Len(text) : searchPos <= m => text[m] # "["
      BY <1>10, <2>2, <3>1
    <3>3. Find(searchPos, "[") = 0
      BY <1>6, <1>7, <3>2, FindNone
    <3>4. NoMore(k)'
      BY <1>9, <1>13, <2>3 DEF NoMore
    <3>5. Between(k)'
      BY <1>3, <1>5, <3>3, <3>4 DEF Between
    <3> QED
      BY <1>1, <1>5, <3>5, ReachedOn
  <2>4. CASE j # Len(written)
    <3>1. PICK i \in 1..Len(written) : i = j + 1
      BY <1>6, <2>4
    <3>2. IsCall(written[i])
      <4>1. j \in 1..(Len(written) - 1)
        BY <1>6, <2>4
      <4>2. IsCall(written[j]) \/ IsCall(written[j + 1])
        BY <1>1, <4>1 DEF Spells, WellFormed
      <4>3. CASE IsCall(written[j])
        <5>1. written[j] \in Token
          BY <1>1 DEF Spells
        <5>2. FALSE
          BY <1>13, <4>3, <5>1, KindsAre
        <5> QED
          BY <5>2
      <4> QED
        BY <3>1, <4>2, <4>3
    <3>3. PICK e \in Nat, f \in Nat : e = Off(i - 1) + 1 /\ f <= Len(text) /\ e \in 1..f /\ text[e] = "["
      BY <1>1, <3>2, CallAt
    <3>4. Off(i - 1) = b
      <4>1. i - 1 = j
        BY <3>1
      <4> QED
        BY <2>1, <4>1
    <3>5. e = b + 1 /\ e \in 1..Len(text)
      BY <1>6, <3>3, <3>4
    <3>6. e >= searchPos /\ \A m \in 1..Len(text) : searchPos <= m /\ m < e => text[m] # "["
      BY <1>10, <2>1, <2>2, <3>5
    <3>7. Find(searchPos, "[") = e
      BY <1>6, <1>7, <3>3, <3>5, <3>6, FindFirst
    <3>8. expressionStart' = Off(i - 1) + 1 /\ mode' = "name" /\ searchPos' = expressionStart' + 1
      BY <1>3, <3>3, <3>5, <3>7
    <3>9. InCall(k)'
      <4>1. PICK p : p = written[i]
        OBVIOUS
      <4>2. 1 \in 1..Len(p.name)
        <5>1. written[i] \in Token
          BY <1>1 DEF Spells
        <5> QED
          BY <3>2, <4>1, <5>1, CallOf
      <4>3. \E m \in 1..Len(p.name) : searchPos' = expressionStart' + m
        BY <3>8, <4>2
      <4>4. i = k + 2 /\ IsText(written[k + 1])
        BY <1>9, <1>13, <3>1
      <4> QED
        BY <1>1, <1>5, <3>2, <3>8, <4>1, <4>3, <4>4, InCallOn
    <3> QED
      BY <1>1, <1>5, <3>9, ReachedOn
  <2> QED
    BY <2>3, <2>4
<1> QED
  BY <1>11, <1>12, <1>13

LEMMA ReadNameReads ==
  ASSUME WrittenInv, ParserInv, written # <<>>, ~finished, Parsing, ReadName,
         UNCHANGED <<text, written, finished>>
  PROVE  WrittenInv'
<1>1. Spells
  BY WhereItIs
<1>2. /\ mode = "name"
      /\ UNCHANGED <<pos, expressionStart, arguments, tokens>>
  BY DEF ReadName
<1>3. PICK k \in 0..Len(written), j \in 1..Len(written) :
        /\ Kept(tokens) = SubSeq(written, 1, k) /\ pos = Off(k) + 1
        /\ IsCall(written[j]) /\ (j = k + 1 \/ (j = k + 2 /\ IsText(written[k + 1])))
        /\ expressionStart = Off(j - 1) + 1 /\ Reads(written[j])
  BY <1>2, InTheCall
<1>4. Kept(tokens)' = SubSeq(written, 1, k) /\ pos' = Off(k) + 1
      /\ expressionStart' = Off(j - 1) + 1
  BY <1>2, <1>3 DEF Kept
<1>5. PICK p \in Token : p = written[j]
  BY <1>1 DEF Spells
<1>6. IsCall(p) /\ arguments = <<>> /\ \E m \in 1..Len(p.name) : searchPos = expressionStart + m
  BY <1>2, <1>3, <1>5 DEF Reads
<1>7. PICK e \in Nat, b \in Nat :
        /\ e = Off(j - 1) + 1 /\ b <= Len(text) /\ e \in 1..b
        /\ b = e + Len(p.text) + 1
        /\ text[b] = "]"
        /\ \A m \in 1..Len(p.text) : text[e + m] = p.text[m]
        /\ SubSeq(text, e + 1, b - 1) = p.text
  <2>1. PICK e \in Nat, b \in Nat :
          /\ e = Off(j - 1) + 1 /\ b = Off(j) /\ b <= Len(text) /\ e \in 1..b
          /\ b = e + Len(written[j].text) + 1
          /\ text[e] = "[" /\ text[b] = "]"
          /\ \A m \in 1..Len(written[j].text) : text[e + m] = written[j].text[m]
          /\ SubSeq(text, e + 1, b - 1) = written[j].text
    BY <1>1, <1>3, CallAt
  <2> QED
    BY <2>1, <1>5, Zenon
<1>8. text \in Seq(Characters) /\ Len(text) \in Nat
  BY <1>1, OffsetsAre DEF Spells
<1>9. PICK L \in Nat, l \in Nat : L = Len(p.name) /\ l = Len(p.text) /\ L # 0 /\ L <= l
  <2>1. Len(p.name) \in Nat \ {0} /\ Len(p.text) \in Nat /\ Len(p.name) <= Len(p.text)
    BY <1>6, CallOf, NameOf
  <2> QED
    BY <2>1, Zenon
<1>21. /\ b = e + l + 1 /\ b <= Len(text) /\ e \in 1..b
       /\ \A i \in 1..l : text[e + i] = p.text[i]
  BY <1>7, <1>9, Zenon
<1>10. PICK m \in 1..L : searchPos = e + m
  BY <1>3, <1>6, <1>7, <1>9
<1>11. PICK x \in Nat : x = searchPos + 1 /\ x = e + m + 1
  BY <1>7, <1>9, <1>10
<1>12. /\ Char(x) = "]" => mode' = "success" /\ searchPos' = x
       /\ Char(x) = "(" /\ Char(x + 1) = "'" =>
            mode' = "arguments" /\ searchPos' = x + 1 /\ argumentStart' = x + 1
       /\ Char(x) = "]" \/ (Char(x) = "(" /\ Char(x + 1) = "'") =>
            functionName' = SubSeq(text, expressionStart + 1, x - 1)
       /\ Char(x) \in Alnum /\ Char(x) # "]" /\ Char(x) # "(" => mode' = "name" /\ searchPos' = x
  <2>1. /\ mode' = CASE Char(x) = "]"      -> "success"
                     [] Char(x) = "(" /\ Char(x + 1) = "'" -> "arguments"
                     [] Char(x) \in Alnum  -> "name"
                     [] OTHER              -> "failure"
        /\ searchPos' = IF Char(x) = "(" THEN x + 1 ELSE x
        /\ functionName' = IF Char(x) = "]" \/ (Char(x) = "(" /\ Char(x + 1) = "'")
                           THEN SubSeq(text, expressionStart + 1, x - 1) ELSE functionName
        /\ argumentStart' = IF Char(x) = "(" /\ Char(x + 1) = "'" THEN x + 1 ELSE argumentStart
    BY <1>11 DEF ReadName
  <2>2. PICK c, d : c = Char(x) /\ d = Char(x + 1)
    OBVIOUS
  <2>3. mode' = CASE c = "]" -> "success"
                  [] c = "(" /\ d = "'" -> "arguments"
                  [] c \in Alnum  -> "name"
                  [] OTHER        -> "failure"
    BY <2>1, <2>2, Zenon
  <2>4. /\ c = "]" => mode' = "success"
        /\ c = "(" /\ d = "'" => mode' = "arguments"
        /\ c \in Alnum /\ c # "]" /\ c # "(" => mode' = "name"
    <3>1. {"]", "("} \cap Alnum = {}
      BY ParserAssumption DEF ParserAssumption
    <3> QED
      BY <2>3, <3>1
  <2>5. searchPos' = IF c = "(" THEN x + 1 ELSE x
    BY <2>1, <2>2, Zenon
  <2>6. c = "]" => c # "("
    OBVIOUS
  <2> QED
    BY <2>1, <2>2, <2>4, <2>5, <2>6, Zenon
<1>13. \A i \in 1..l : Char(e + i) = p.text[i]
  <2> TAKE i \in 1..l
  <2>1. e + i \in 1..Len(text) /\ e + i \in Nat
    BY <1>8, <1>21
  <2>2. text[e + i] = p.text[i]
    BY <1>21
  <2> QED
    BY <1>8, <2>1, <2>2, CharIs
<1>14. Char(b) = "]"
  <2>1. b \in 1..Len(text)
    BY <1>7, <1>8
  <2> QED
    BY <1>7, <1>8, <2>1, CharIs
<1>15. \A i \in 1..L : p.text[i] = p.name[i]
  BY <1>6, <1>9, NameOf
<1>16. ASSUME \/ /\ mode' = "name" /\ arguments' = <<>>
                 /\ \E i \in 1..Len(p.name) : searchPos' = expressionStart' + i
              \/ /\ mode' = "arguments" /\ functionName' = p.name /\ argumentStart' = searchPos'
                 /\ \E i \in 1..Len(p.args) : /\ arguments' = SubSeq(p.args, 1, i - 1)
                                              /\ searchPos' = expressionStart' + Opening(p, i)
              \/ /\ mode' = "success" /\ functionName' = p.name /\ arguments' = p.args
                 /\ searchPos' = expressionStart' + Len(p.text) + 1
       PROVE  WrittenInv'
  <2>1. InCall(k)'
    BY <1>1, <1>3, <1>4, <1>5, <1>16, InCallOn
  <2> QED
    BY <1>1, <1>4, <2>1, ReachedOn
<1>17. expressionStart = e /\ expressionStart' = e
  BY <1>2, <1>3, <1>7
<1>18. CASE m < L
  <2>1. m + 1 \in 1..L /\ m + 1 \in 1..l /\ x = e + (m + 1) /\ m + 1 \in 2..L
    BY <1>9, <1>11, <1>18
  <2>2. Char(x) = p.name[m + 1]
    BY <1>13, <1>15, <2>1
  <2>3. p.name[m + 1] \in Alnum
    BY <1>6, <1>9, <2>1 DEF IsCall
  <2>4. Char(x) \in Alnum /\ Char(x) # "]" /\ Char(x) # "("
    BY <2>2, <2>3, ParserAssumption DEF ParserAssumption
  <2>5. mode' = "name" /\ searchPos' = x
    BY <1>12, <2>4, Zenon
  <2>6. \E i \in 1..Len(p.name) : searchPos' = expressionStart' + i
    BY <1>9, <1>17, <2>1, <2>5
  <2>7. arguments' = <<>>
    BY <1>2, <1>6
  <2> QED
    BY <1>16, <2>5, <2>6, <2>7
<1>19. CASE m = L /\ p.args = <<>>
  <2>1. p.text = p.name
    BY <1>6, <1>19, CallOf
  <2>2. l = L /\ x = b
    BY <1>7, <1>9, <1>11, <1>19, <2>1
  <2>3. Char(x) = "]"
    BY <1>14, <2>2
  <2>4. mode' = "success" /\ searchPos' = x /\ functionName' = SubSeq(text, expressionStart + 1, x - 1)
    BY <1>12, <2>3, Zenon
  <2>5. functionName' = p.name
    BY <1>7, <1>17, <2>1, <2>2, <2>4
  <2>6. searchPos' = expressionStart' + Len(p.text) + 1
    BY <1>7, <1>17, <2>2, <2>4
  <2>7. arguments' = p.args
    BY <1>2, <1>6, <1>19
  <2> QED
    BY <1>16, <2>4, <2>5, <2>6, <2>7
<1>20. CASE m = L /\ p.args # <<>>
  <2>1. l >= L + 2 /\ p.text[L + 1] = "("
    BY <1>6, <1>9, <1>20, NameOf
  <2>2. 1 \in 1..Len(p.args)
    <3>1. p.args \in Seq(Seq(Characters))
      BY <1>6, CallOf
    <3>2. \A s \in Seq(Seq(Characters)) : s # <<>> => 1 \in 1..Len(s)
      OBVIOUS
    <3> QED
      BY <1>20, <3>1, <3>2, Zenon
  <2>3. Opening(p, 1) = L + 2
    <3>1. PICK q \in Seq(Seq(Signs)) : q = Quoted(p.args)
      BY <1>6, CallOf, AllQuoted
    <3>2. Ends(q, 0) = 0
      BY EndsAre
    <3>3. Ends(Quoted(p.args), 1 - 1) = 0
      BY <3>1, <3>2
    <3>4. Gap(1) = 0
      BY DEF Gap
    <3> QED
      BY <1>9, <3>3, <3>4 DEF Opening
  <2>4. p.text[L + 2] = "'"
    <3>1. \E o \in Nat : o = Opening(p, 1) /\ p.text[o] = "'"
      BY <1>6, <2>2, ArgumentOf
    <3> QED
      BY <2>3, <3>1
  <2>5. x = e + (L + 1) /\ x + 1 = e + (L + 2) /\ L + 1 \in 1..l /\ L + 2 \in 1..l
    <3>1. m = L
      BY <1>20
    <3> QED
      BY <1>11, <2>1, <3>1
  <2>6. Char(x) = "(" /\ Char(x + 1) = "'"
    BY <1>13, <2>1, <2>4, <2>5
  <2>7. /\ mode' = "arguments" /\ searchPos' = x + 1 /\ argumentStart' = x + 1
        /\ functionName' = SubSeq(text, expressionStart + 1, x - 1)
    BY <1>12, <2>6, Zenon
  <2>8. functionName' = p.name
    <3>1. PICK n \in Seq(Characters) : n = p.name
      BY <1>6, CallOf
    <3>2. x - 1 \in 0..Len(text) /\ e + Len(n) = x - 1
      <4>1. Len(n) = L
        BY <1>9, <3>1, Zenon
      <4>2. x - 1 = e + L /\ x - 1 \in 0..Len(text)
        <5>1. x - 1 = e + L
          BY <2>5
        <5>2. e + L \in 0..Len(text)
          <6>1. PICK z \in Nat : z = Len(text)
            BY <1>8, Zenon
          <6>2. b <= z
            BY <1>21, <6>1, Zenon
          <6>3. b = e + l + 1
            BY <1>21
          <6>4. e + L \in 0..z
            BY <1>9, <6>2, <6>3
          <6> QED
            BY <6>1, <6>4, Zenon
        <5> QED
          BY <5>1, <5>2
      <4> QED
        BY <4>1, <4>2
    <3>3. \A i \in 1..Len(n) : text[e + i] = n[i]
      <4>1. \A i \in 1..L : i \in 1..l
        BY <1>9
      <4>2. \A i \in 1..L : text[e + i] = p.text[i]
        BY <1>21, <4>1
      <4> QED
        BY <1>9, <1>15, <3>1, <4>2
    <3>4. SubSeq(text, e + 1, x - 1) = n
      BY <1>8, <3>2, <3>3, CutOut
    <3> QED
      BY <1>17, <2>7, <3>1, <3>4
  <2>9. arguments' = SubSeq(p.args, 1, 1 - 1)
    <3>1. \A s \in Seq(Seq(Characters)) : SubSeq(s, 1, 1 - 1) = <<>>
      OBVIOUS
    <3>2. p.args \in Seq(Seq(Characters))
      BY <1>6, CallOf
    <3> QED
      BY <1>2, <1>6, <3>1, <3>2
  <2>10. searchPos' = expressionStart' + Opening(p, 1)
    BY <1>17, <2>3, <2>5, <2>7
  <2> QED
    BY <1>16, <2>2, <2>7, <2>8, <2>9, <2>10
<1> QED
  BY <1>9, <1>10, <1>18, <1>19, <1>20

\* numArgs does not wrap around at the arguments of a well-formed call.
LEMMA RoomForAnother ==
  ASSUME NEW p \in Token, IsCall(p), NEW i \in 1..Len(p.args), arguments = SubSeq(p.args, 1, i - 1)
  PROVE  Len(arguments) # MaxNumArgs
<1>1. p.args \in Seq(Seq(Characters)) /\ Len(p.args) \in Nat
  BY CallOf
<1>2. Len(p.args) <= MaxNumArgs
  BY DEF IsCall
<1>3. Len(arguments) = i - 1
  BY <1>1
<1> QED
  BY <1>1, <1>2, <1>3, ParserAssumption DEF ParserAssumption

LEMMA ReadArgumentReads ==
  ASSUME WrittenInv, ParserInv, written # <<>>, ~finished, Parsing, ReadArgument,
         UNCHANGED <<text, written, finished>>
  PROVE  WrittenInv'
<1>1. Spells
  BY WhereItIs
<1>2. /\ mode = "arguments"
      /\ UNCHANGED <<pos, expressionStart, functionName, tokens>>
  BY DEF ReadArgument
<1>3. PICK k \in 0..Len(written), j \in 1..Len(written) :
        /\ Kept(tokens) = SubSeq(written, 1, k) /\ pos = Off(k) + 1
        /\ IsCall(written[j]) /\ (j = k + 1 \/ (j = k + 2 /\ IsText(written[k + 1])))
        /\ expressionStart = Off(j - 1) + 1 /\ Reads(written[j])
  BY <1>2, InTheCall
<1>4. Kept(tokens)' = SubSeq(written, 1, k) /\ pos' = Off(k) + 1
      /\ expressionStart' = Off(j - 1) + 1
  BY <1>2, <1>3 DEF Kept
<1>5. PICK p \in Token : p = written[j]
  BY <1>1 DEF Spells
<1>6. /\ IsCall(p) /\ functionName = p.name /\ argumentStart = searchPos
      /\ \E i \in 1..Len(p.args) : /\ arguments = SubSeq(p.args, 1, i - 1)
                                   /\ searchPos = expressionStart + Opening(p, i)
  BY <1>2, <1>3, <1>5 DEF Reads
<1>7. PICK e \in Nat, b \in Nat :
        /\ e = Off(j - 1) + 1 /\ b <= Len(text) /\ e \in 1..b
        /\ b = e + Len(p.text) + 1
        /\ text[b] = "]"
        /\ \A m \in 1..Len(p.text) : text[e + m] = p.text[m]
  <2>1. PICK e \in Nat, b \in Nat :
          /\ e = Off(j - 1) + 1 /\ b = Off(j) /\ b <= Len(text) /\ e \in 1..b
          /\ b = e + Len(written[j].text) + 1
          /\ text[e] = "[" /\ text[b] = "]"
          /\ \A m \in 1..Len(written[j].text) : text[e + m] = written[j].text[m]
          /\ SubSeq(text, e + 1, b - 1) = written[j].text
    BY <1>1, <1>3, CallAt
  <2> QED
    BY <2>1, <1>5, Zenon
<1>8. text \in Seq(Characters) /\ Len(text) \in Nat
  BY <1>1, OffsetsAre DEF Spells
<1>9. PICK i \in 1..Len(p.args) : /\ arguments = SubSeq(p.args, 1, i - 1)
                                  /\ searchPos = expressionStart + Opening(p, i)
  BY <1>6, Zenon
<1>10. PICK o \in Nat, l \in Nat :
         /\ o = Opening(p, i) /\ l = Len(p.args[i])
         /\ o > Len(p.name) + 1 /\ o + l + 2 <= Len(p.text)
         /\ p.text[o] = "'" /\ p.text[o + l + 1] = "'"
         /\ \A m \in 1..l : p.text[o + m] = p.args[i][m]
         /\ i < Len(p.args) =>
              /\ p.text[o + l + 2] = Comma /\ p.text[o + l + 3] = Space /\ p.text[o + l + 4] = "'"
              /\ Opening(p, i + 1) = o + l + 4 /\ o + l + 4 <= Len(p.text)
         /\ i = Len(p.args) => p.text[o + l + 2] = ")" /\ Len(p.text) = o + l + 2
  BY <1>6, ArgumentOf
<1>11. PICK t \in Nat : t = Len(p.text)
  <2>1. p.text \in Seq(Characters)
    BY <1>6, CallOf
  <2>2. \A s \in Seq(Characters) : Len(s) \in Nat
    OBVIOUS
  <2> QED
    BY <2>1, <2>2, Zenon
<1>12. /\ b = e + t + 1 /\ b <= Len(text) /\ e \in 1..b
       /\ \A m \in 1..t : text[e + m] = p.text[m]
  BY <1>7, <1>11, Zenon
<1>13. o >= 1 /\ o + l + 2 <= t
  <2>1. Len(p.name) \in Nat
    BY <1>6, CallOf
  <2>2. o > Len(p.name) + 1
    BY <1>10
  <2>3. o + l + 2 <= t
    BY <1>10, <1>11, Zenon
  <2> QED
    BY <2>1, <2>2, <2>3
<1>14. \A m \in 1..t : Char(e + m) = p.text[m]
  <2> TAKE m \in 1..t
  <2>1. e + m \in 1..Len(text) /\ e + m \in Nat
    BY <1>8, <1>12
  <2>2. text[e + m] = p.text[m]
    BY <1>12
  <2> QED
    BY <1>8, <2>1, <2>2, CharIs
<1>15. Char(b) = "]"
  <2>1. b \in 1..Len(text)
    BY <1>8, <1>12
  <2> QED
    BY <1>7, <1>8, <2>1, CharIs
<1>16. expressionStart = e /\ expressionStart' = e
  BY <1>2, <1>3, <1>7
<1>17. searchPos = e + o /\ argumentStart = e + o
  BY <1>6, <1>9, <1>10, <1>16
<1>18. PICK arg \in Seq(Characters) : /\ arg = p.args[i] /\ l = Len(arg)
                                      /\ \A m \in 1..l : arg[m] # "'"
  <2>1. p.args \in Seq(Seq(Characters \ {"'"})) /\ p.args \in Seq(Seq(Characters))
    BY <1>6, CallOf DEF IsCall
  <2>2. p.args[i] \in Seq(Characters \ {"'"}) /\ p.args[i] \in Seq(Characters)
    BY <2>1
  <2>3. \A s \in Seq(Characters \ {"'"}) : \A m \in 1..Len(s) : s[m] # "'"
    OBVIOUS
  <2> QED
    BY <1>10, <2>2, <2>3, Zenon
<1>19. PICK q \in Nat : q = e + (o + l + 1)
  <2>1. e + (o + l + 1) \in Nat
    OBVIOUS
  <2> QED
    BY <2>1, Zenon
<1>20. q \in 1..Len(text) /\ q >= searchPos + 1 /\ text[q] = "'"
  <2>1. o + l + 1 \in 1..t
    BY <1>13
  <2>2. text[e + (o + l + 1)] = p.text[o + l + 1]
    BY <1>12, <2>1
  <2>3. p.text[o + l + 1] = "'"
    BY <1>10
  <2>4. text[q] = "'"
    BY <1>19, <2>2, <2>3
  <2>5. q \in 1..Len(text) /\ q >= searchPos + 1
    <3>1. PICK z \in Nat : z = Len(text)
      BY <1>8, Zenon
    <3>2. b <= z
      BY <1>12, <3>1, Zenon
    <3>3. b = e + t + 1 /\ e >= 1
      BY <1>12
    <3>4. q \in 1..z
      BY <1>13, <1>19, <3>2, <3>3
    <3>5. q >= searchPos + 1
      BY <1>17, <1>19
    <3> QED
      BY <3>1, <3>4, <3>5, Zenon
  <2> QED
    BY <2>4, <2>5
<1>21. \A m \in 1..l : text[(e + o) + m] = arg[m]
  <2> TAKE m \in 1..l
  <2>1. o + m \in 1..t /\ e + (o + m) = (e + o) + m
    BY <1>13
  <2>2. text[e + (o + m)] = p.text[o + m]
    BY <1>12, <2>1
  <2>3. p.text[o + m] = arg[m]
    BY <1>10, <1>18, Zenon
  <2> QED
    BY <2>1, <2>2, <2>3
<1>22. Find(searchPos + 1, "'") = q
  <2>1. \A m \in 1..Len(text) : searchPos + 1 <= m /\ m < q => text[m] # "'"
    <3> TAKE m \in 1..Len(text)
    <3> HAVE searchPos + 1 <= m /\ m < q
    <3>1. m - (e + o) \in 1..l /\ (e + o) + (m - (e + o)) = m
      BY <1>8, <1>17, <1>19
    <3> QED
      BY <1>18, <1>21, <3>1
  <2>2. searchPos + 1 \in Nat
    BY <1>17
  <2> QED
    BY <1>8, <1>20, <2>1, <2>2, FindFirst
<1>23. SubSeq(text, argumentStart + 1, q - 1) = arg
  <2>1. PICK x \in Nat : x = e + o
    OBVIOUS
  <2>2. PICK y \in 0..Len(text) : y = q - 1
    BY <1>8, <1>20
  <2>3. x + Len(arg) = y
    <3>1. x + l = y
      BY <1>19, <2>1, <2>2
    <3> QED
      BY <1>18, <3>1
  <2>4. \A m \in 1..Len(arg) : text[x + m] = arg[m]
    BY <1>18, <1>21, <2>1
  <2>5. SubSeq(text, x + 1, y) = arg
    BY <1>8, <2>3, <2>4, CutOut
  <2> QED
    BY <1>17, <2>1, <2>2, <2>5
<1>24. arguments' = SubSeq(p.args, 1, i)
  <2>1. q # 0 /\ Len(arguments) # MaxNumArgs
    BY <1>6, <1>9, <1>20, RoomForAnother
  <2>2. arguments' = Append(arguments, SubSeq(text, argumentStart + 1, q - 1))
    BY <1>22, <2>1, Zenon DEF ReadArgument
  <2>3. arguments' = Append(SubSeq(p.args, 1, i - 1), p.args[i])
    BY <1>9, <1>18, <1>23, <2>2, Zenon
  <2>4. p.args \in Seq(Seq(Characters))
    BY <1>6, CallOf
  <2> QED
    <3>1. \A s \in Seq(Seq(Characters)) : \A m \in 1..Len(s) :
            Append(SubSeq(s, 1, m - 1), s[m]) = SubSeq(s, 1, m)
      BY BeginningGrows
    <3> QED
      BY <1>9, <2>3, <2>4, <3>1, Zenon
<1>25. PICK c, d, f : c = Char(q + 1) /\ d = Char(q + 2) /\ f = Char(q + 3)
  OBVIOUS
<1>26. /\ c = Comma /\ d = Space /\ f = "'" =>
            mode' = "arguments" /\ searchPos' = q + 3 /\ argumentStart' = q + 3
       /\ c = ")" /\ d = "]" => mode' = "success" /\ searchPos' = q + 2
  <2>1. q # 0 /\ Len(arguments) # MaxNumArgs
    BY <1>6, <1>9, <1>20, RoomForAnother
  <2>2. /\ mode' = CASE c = Comma /\ d = Space /\ f = "'" -> "arguments"
                     [] c = ")" /\ d = "]" -> "success"
                     [] OTHER   -> "failure"
        /\ argumentStart' = IF c = Comma /\ d = Space /\ f = "'" THEN q + 3 ELSE argumentStart
        /\ searchPos' = IF c = Comma /\ d = Space /\ f = "'" THEN q + 3
                        ELSE IF c = ")" \/ (c = Comma /\ d = Space) THEN q + 2
                        ELSE q + 1
    BY <1>22, <1>25, <2>1, Zenon DEF ReadArgument
  <2>3. c = ")" => c # Comma
    BY CommaIs
  <2> QED
    BY <2>2, <2>3
<1>27. ASSUME \/ /\ mode' = "name" /\ arguments' = <<>>
                 /\ \E m \in 1..Len(p.name) : searchPos' = expressionStart' + m
              \/ /\ mode' = "arguments" /\ functionName' = p.name /\ argumentStart' = searchPos'
                 /\ \E m \in 1..Len(p.args) : /\ arguments' = SubSeq(p.args, 1, m - 1)
                                              /\ searchPos' = expressionStart' + Opening(p, m)
              \/ /\ mode' = "success" /\ functionName' = p.name /\ arguments' = p.args
                 /\ searchPos' = expressionStart' + Len(p.text) + 1
       PROVE  WrittenInv'
  <2>1. InCall(k)'
    BY <1>1, <1>3, <1>4, <1>5, <1>27, InCallOn
  <2> QED
    BY <1>1, <1>4, <2>1, ReachedOn
<1>28. functionName' = p.name
  BY <1>2, <1>6
<1>29. PICK n \in Nat : n = Len(p.args) /\ i \in 1..n
  BY <1>6, CallOf
<1>30. CASE i < n
  <2>1. /\ p.text[o + l + 2] = Comma /\ p.text[o + l + 3] = Space /\ p.text[o + l + 4] = "'"
        /\ Opening(p, i + 1) = o + l + 4 /\ o + l + 4 <= t
    <3>1. i < Len(p.args)
      BY <1>29, <1>30
    <3> QED
      BY <1>10, <1>11, <3>1, Zenon
  <2>2. /\ o + l + 2 \in 1..t /\ o + l + 3 \in 1..t /\ o + l + 4 \in 1..t
        /\ q + 1 = e + (o + l + 2) /\ q + 2 = e + (o + l + 3) /\ q + 3 = e + (o + l + 4)
    <3>1. o + l + 4 <= t
      BY <2>1
    <3>2. q + 1 = e + (o + l + 2) /\ q + 2 = e + (o + l + 3) /\ q + 3 = e + (o + l + 4)
      BY <1>19
    <3> QED
      BY <1>13, <3>1, <3>2
  <2>3. c = Comma /\ d = Space /\ f = "'"
    BY <1>14, <1>25, <2>1, <2>2
  <2>4. mode' = "arguments" /\ searchPos' = q + 3 /\ argumentStart' = q + 3
    BY <1>26, <2>3, Zenon
  <2>5. PICK m \in 1..Len(p.args) : m = i + 1 /\ i = m - 1
    BY <1>29, <1>30
  <2>6. searchPos' = expressionStart' + Opening(p, m)
    <3>1. Opening(p, m) = o + l + 4
      BY <2>1, <2>5
    <3> QED
      BY <1>16, <2>2, <2>4, <3>1
  <2>7. arguments' = SubSeq(p.args, 1, m - 1)
    BY <1>24, <2>5
  <2> QED
    BY <1>27, <1>28, <2>4, <2>6, <2>7
<1>31. CASE i = n
  <2>1. p.text[o + l + 2] = ")" /\ t = o + l + 2
    <3>1. i = Len(p.args)
      BY <1>29, <1>31
    <3> QED
      BY <1>10, <1>11, <3>1, Zenon
  <2>2. o + l + 2 \in 1..t /\ q + 1 = e + (o + l + 2) /\ q + 2 = b
    BY <1>12, <1>13, <1>19, <2>1
  <2>3. c = ")" /\ d = "]"
    BY <1>14, <1>15, <1>25, <2>1, <2>2
  <2>4. mode' = "success" /\ searchPos' = b
    BY <1>26, <2>2, <2>3
  <2>5. searchPos' = expressionStart' + Len(p.text) + 1
    BY <1>7, <1>16, <2>4
  <2>6. arguments' = p.args
    <3>1. \A s \in Seq(Seq(Characters)) : SubSeq(s, 1, Len(s)) = s
      OBVIOUS
    <3>2. p.args \in Seq(Seq(Characters))
      BY <1>6, CallOf
    <3>3. arguments' = SubSeq(p.args, 1, Len(p.args))
      BY <1>24, <1>29, <1>31, Zenon
    <3> QED
      BY <3>1, <3>2, <3>3, Zenon
  <2> QED
    BY <1>27, <1>28, <2>4, <2>5, <2>6
<1> QED
  BY <1>29, <1>30, <1>31

\* A text that is spelled from its pieces is never given up on.
LEMMA FailureReads ==
  ASSUME WrittenInv, written # <<>>, ~finished, Failure
  PROVE  WrittenInv'
<1>1. mode = "failure"
  BY DEF Failure
<1>2. \A k : ~Reached(k)
  BY <1>1 DEF Reached, Between, InCall, Reads
<1> QED
  BY <1>2, WhereItIs

LEMMA SuccessReads ==
  ASSUME WrittenInv, ParserInv, written # <<>>, ~finished, Parsing, Success,
         UNCHANGED <<text, written, finished>>
  PROVE  WrittenInv'
<1>1. Spells
  BY WhereItIs
<1>2. mode = "success"
  BY DEF Success
<1>3. PICK k \in 0..Len(written), j \in 1..Len(written) :
        /\ Kept(tokens) = SubSeq(written, 1, k) /\ pos = Off(k) + 1
        /\ IsCall(written[j]) /\ (j = k + 1 \/ (j = k + 2 /\ IsText(written[k + 1])))
        /\ expressionStart = Off(j - 1) + 1 /\ Reads(written[j])
  BY <1>2, InTheCall
<1>4. PICK p \in Token : p = written[j]
  BY <1>1 DEF Spells
<1>5. /\ IsCall(p) /\ functionName = p.name /\ arguments = p.args
      /\ searchPos = expressionStart + Len(p.text) + 1
  BY <1>2, <1>3, <1>4 DEF Reads
<1>6. PICK e \in Nat, b \in Nat :
        /\ e = Off(j - 1) + 1 /\ b = Off(j)
        /\ b = e + Len(p.text) + 1
        /\ SubSeq(text, e + 1, b - 1) = p.text
  <2>1. PICK e \in Nat, b \in Nat :
          /\ e = Off(j - 1) + 1 /\ b = Off(j) /\ b <= Len(text) /\ e \in 1..b
          /\ b = e + Len(written[j].text) + 1
          /\ text[e] = "[" /\ text[b] = "]"
          /\ \A m \in 1..Len(written[j].text) : text[e + m] = written[j].text[m]
          /\ SubSeq(text, e + 1, b - 1) = written[j].text
    BY <1>1, <1>3, CallAt
  <2> QED
    BY <2>1, <1>4, Zenon
<1>7. expressionStart = e /\ searchPos = b
  BY <1>3, <1>5, <1>6, Zenon
<1>8. PICK before : before = TextToken(SubSeq(text, pos, expressionStart - 1))
  OBVIOUS
<1>9. Expression(functionName, arguments, SubSeq(text, expressionStart + 1, searchPos - 1)) = p
  <2>1. SubSeq(text, expressionStart + 1, searchPos - 1) = p.text
    BY <1>6, <1>7, Zenon
  <2>2. p = Expression(p.name, p.args, p.text)
    BY <1>5, KindsAre
  <2> QED
    BY <1>5, <2>1, <2>2, Zenon
<1>10. /\ tokens' = tokens \o <<before, p>>
       /\ pos' = searchPos + 1 /\ searchPos' = searchPos + 1 /\ mode' = "begin" /\ arguments' = <<>>
  BY <1>8, <1>9, Zenon DEF Success
<1>11. tokens \in Seq(Token) /\ Kept(tokens) \in Seq(Token)
  <2>1. SubSeq(written, 1, k) \in Seq(Token)
    <3>1. written \in Seq(Token)
      BY <1>1 DEF Spells
    <3> QED
      BY <3>1
  <2> QED
    BY <1>3, <2>1 DEF ParserInv, PiecesTyped
<1>12. Off(j) \in Nat /\ written \in Seq(Token) /\ Len(written) \in Nat
  BY <1>1, <1>6 DEF Spells
<1>13. /\ before \in Token
       /\ Kept(Append(tokens, before)) = SubSeq(written, 1, j - 1)
  <2>1. CASE j = k + 1
    <3>1. PICK a \in Nat : a = Off(k)
      <4>1. k \in 0..Len(written)
        OBVIOUS
      <4> QED
        BY <1>1, <4>1, OffsetsAre
    <3>2. pos = a + 1 /\ e = a + 1
      <4>1. j - 1 = k
        BY <2>1
      <4> QED
        BY <1>3, <1>6, <3>1, <4>1
    <3>3. SubSeq(text, pos, expressionStart - 1) = <<>>
      <4>1. \A s \in Seq(Characters) : SubSeq(s, a + 1, (a + 1) - 1) = <<>>
        OBVIOUS
      <4>2. text \in Seq(Characters)
        BY <1>1 DEF Spells
      <4> QED
        BY <1>7, <3>2, <4>1, <4>2, Zenon
    <3>4. before = TextToken(<<>>)
      BY <1>8, <3>3, Zenon
    <3>5. before \in Token
      BY <3>4 DEF Token, TextToken
    <3>6. Kept(Append(tokens, before)) = Kept(tokens)
      BY <1>11, <3>4, <3>5, KeptAppend
    <3>7. j - 1 = k
      BY <2>1
    <3> QED
      BY <1>3, <3>5, <3>6, <3>7
  <2>2. CASE j = k + 2 /\ IsText(written[k + 1])
    <3>1. PICK i \in 1..Len(written) : i = k + 1 /\ i - 1 = k /\ i = j - 1
      BY <1>12, <2>2
    <3>2. IsText(written[i])
      BY <2>2, <3>1
    <3>3. PICK a \in Nat, c \in Nat :
            /\ a = Off(i - 1) /\ c = Off(i)
            /\ SubSeq(text, a + 1, c) = written[i].text
      BY <1>1, <3>2, TextAt
    <3>4. pos = a + 1 /\ e = c + 1
      BY <1>3, <1>6, <3>1, <3>3
    <3>5. SubSeq(text, pos, expressionStart - 1) = written[i].text
      <4>1. e - 1 = c
        BY <3>4
      <4> QED
        BY <1>7, <3>3, <3>4, <4>1
    <3>6. written[i] \in Token
      BY <1>12
    <3>7. before = written[i]
      <4>1. written[i] = TextToken(written[i].text)
        BY <3>2, <3>6, KindsAre
      <4> QED
        BY <1>8, <3>5, <4>1, Zenon
    <3>8. before # TextToken(<<>>)
      BY <3>2, <3>6, <3>7, PieceKept
    <3>9. Kept(Append(tokens, before)) = Append(SubSeq(written, 1, i - 1), written[i])
      <4>1. Kept(Append(tokens, before)) = Append(Kept(tokens), before)
        BY <1>11, <3>6, <3>7, <3>8, KeptAppend
      <4> QED
        BY <1>3, <3>1, <3>7, <4>1, Zenon
    <3>10. Append(SubSeq(written, 1, i - 1), written[i]) = SubSeq(written, 1, i)
      BY <1>12, BeginningGrows
    <3> QED
      BY <3>1, <3>6, <3>7, <3>9, <3>10, Zenon
  <2> QED
    BY <1>3, <2>1, <2>2
<1>14. /\ Append(tokens, before) \in Seq(Token)
       /\ Kept(Append(tokens, before)) \in Seq(Token)
  <2>1. SubSeq(written, 1, j - 1) \in Seq(Token)
    BY <1>12, BeginningGrows
  <2> QED
    BY <1>11, <1>13, <2>1, AppendProperties
<1>15. tokens' = Append(Append(tokens, before), p)
  <2>1. \A s \in Seq(Token) : \A t \in Token, u \in Token : s \o <<t, u>> = Append(Append(s, t), u)
    OBVIOUS
  <2> QED
    BY <1>10, <1>11, <1>13, <2>1, Zenon
<1>16. Kept(tokens)' = SubSeq(written, 1, j)
  <2>1. p # TextToken(<<>>)
    BY <1>5, PieceKept
  <2>2. Kept(Append(Append(tokens, before), p)) = Append(Kept(Append(tokens, before)), p)
    BY <1>14, <2>1, KeptAppend
  <2>3. Kept(Append(Append(tokens, before), p)) = Append(SubSeq(written, 1, j - 1), written[j])
    BY <1>4, <1>13, <2>2, Zenon
  <2>4. Append(SubSeq(written, 1, j - 1), written[j]) = SubSeq(written, 1, j)
    BY <1>12, BeginningGrows
  <2>5. Kept(tokens') = SubSeq(written, 1, j)
    BY <1>15, <2>3, <2>4, Zenon
  <2> QED
    BY <2>5 DEF Kept
<1>17. pos' = Off(j) + 1 /\ searchPos' = pos'
  BY <1>6, <1>7, <1>10, Zenon
<1>18. Between(j)'
  BY <1>10, <1>17 DEF Between
<1>19. j \in 0..Len(written)
  BY <1>12
<1> QED
  BY <1>1, <1>16, <1>17, <1>18, <1>19, ReachedOn

\* At the end, everything but one plain text has been read.
LEMMA FinishReads ==
  ASSUME WrittenInv, ParserInv, written # <<>>, ~finished, ~Parsing, Finish,
         UNCHANGED <<text, written>>
  PROVE  WrittenInv'
<1>1. Spells
  BY WhereItIs
<1>2. PICK k \in 0..Len(written) : Reached(k)
  BY WhereItIs
<1>3. text \in Seq(Characters) /\ Len(text) \in Nat /\ written \in Seq(Token) /\ Len(written) \in Nat
  BY <1>1, OffsetsAre DEF Spells
<1>4. SUFFICES ASSUME TRUE PROVE Kept(tokens') = written
  <2>1. Spells'
    BY <1>1, SpellsOn
  <2>2. finished' = TRUE
    BY DEF Finish
  <2> QED
    BY <2>1, <2>2 DEF WrittenInv, Kept
<1>5. tokens' = IF Char(pos) = Terminator THEN tokens
                ELSE Append(tokens, TextToken(SubSeq(text, pos, Len(text))))
  BY DEF Finish
<1>6. Kept(tokens) = SubSeq(written, 1, k) /\ pos = Off(k) + 1
  BY <1>2 DEF Reached
<1>7. PICK a \in Nat : a = Off(k) /\ pos = a + 1
  BY <1>1, <1>6, OffsetsAre
<1>8. \A s \in Seq(Token) : SubSeq(s, 1, Len(s)) = s
  OBVIOUS
<1>9. CASE k = Len(written)
  <2>1. a = Len(text)
    BY <1>1, <1>7, <1>9, OffsetsAre
  <2>2. Char(pos) = Terminator
    BY <1>3, <1>7, <2>1, CharIs
  <2>3. tokens' = tokens
    BY <1>5, <2>2
  <2> QED
    BY <1>3, <1>6, <1>8, <1>9, <2>3, Zenon
<1>10. CASE k # Len(written)
  <2>1. PICK j \in 1..Len(written) : j = k + 1 /\ j - 1 = k
    BY <1>3, <1>10
  <2>2. written[j] \in Token
    BY <1>3
  <2>3. IsText(written[j]) \/ IsCall(written[j])
    BY <1>1 DEF Spells, WellFormed
  \* A further piece begins where the text goes on.
  <2>4. pos \in 1..Len(text)
    <3>1. CASE IsText(written[j])
      <4>1. PICK c \in Nat, b \in Nat : c = Off(j - 1) /\ b = Off(j) /\ c < b /\ b <= Len(text)
        BY <1>1, <3>1, TextAt
      <4> QED
        BY <1>3, <1>7, <2>1, <4>1
    <3>2. CASE IsCall(written[j])
      <4>1. PICK e \in Nat, b \in Nat : e = Off(j - 1) + 1 /\ b = Off(j) /\ b <= Len(text) /\ e \in 1..b
        BY <1>1, <3>2, CallAt
      <4> QED
        BY <1>3, <1>7, <2>1, <4>1
    <3> QED
      BY <2>3, <3>1, <3>2
  <2>5. Char(pos) # Terminator
    BY <1>3, <1>7, <2>4, CharIs
  <2>6. mode = "begin" /\ searchPos = 0 /\ NoMore(k)
    <3>1. CASE Between(k)
      <4>1. searchPos = 0
        BY <2>5, <3>1 DEF Between, Parsing
      <4>2. searchPos # pos
        BY <1>7, <4>1
      <4> QED
        BY <3>1, <4>1, <4>2 DEF Between
    <3>2. CASE ~Between(k)
      <4>1. PICK i \in 1..Len(written) :
              IsCall(written[i]) /\ expressionStart = Off(i - 1) + 1 /\ Reads(written[i])
        BY <1>2, <3>2 DEF Reached, InCall
      <4>2. PICK p \in Token : p = written[i]
        BY <1>3
      <4>3. PICK e \in Nat, b \in Nat :
              /\ e = Off(i - 1) + 1 /\ b = Off(i) /\ b <= Len(text) /\ e \in 1..b
              /\ b = e + Len(written[i].text) + 1
        BY <1>1, <4>1, CallAt
      <4>4. expressionStart = e /\ b = e + Len(p.text) + 1 /\ IsCall(p) /\ Reads(p)
        BY <4>1, <4>2, <4>3, Zenon
      <4>5. searchPos \in (e + 1)..b
        <5>1. PICK L \in Nat, l \in Nat : L = Len(p.name) /\ l = Len(p.text) /\ L <= l
          <6>1. Len(p.name) \in Nat \ {0} /\ Len(p.text) \in Nat /\ Len(p.name) <= Len(p.text)
            BY <4>4, CallOf, NameOf
          <6> QED
            BY <6>1, Zenon
        <5>2. b = e + l + 1
          BY <4>4, <5>1, Zenon
        <5>3. \/ \E m \in 1..L : searchPos = e + m
              \/ \E m \in 1..Len(p.args) : searchPos = e + Opening(p, m)
              \/ searchPos = e + l + 1
          BY <4>4, <5>1, Zenon DEF Reads
        <5>4. ASSUME NEW m \in 1..Len(p.args) PROVE Opening(p, m) \in 1..l
          <6>1. PICK o \in Nat, r \in Nat : /\ o = Opening(p, m) /\ o > Len(p.name) + 1
                                            /\ o + r + 2 <= Len(p.text)
            BY <4>4, ArgumentOf
          <6>2. o > L + 1 /\ o + r + 2 <= l
            BY <5>1, <6>1, Zenon
          <6> QED
            BY <6>1, <6>2
        <5>5. CASE \E m \in 1..L : searchPos = e + m
          BY <5>1, <5>2, <5>5
        <5>6. CASE \E m \in 1..Len(p.args) : searchPos = e + Opening(p, m)
          <6>1. PICK o \in 1..l : searchPos = e + o
            BY <5>4, <5>6
          <6> QED
            BY <5>2, <6>1
        <5>7. CASE searchPos = e + l + 1
          BY <5>2, <5>7
        <5> QED
          BY <5>3, <5>5, <5>6, <5>7
      <4>6. searchPos \in 1..Len(text)
        BY <1>3, <4>3, <4>5
      <4>7. Parsing
        BY <1>3, <4>6, CharIs DEF Parsing
      <4> QED
        BY <4>7
    <3> QED
      BY <3>1, <3>2
  <2>7. j = Len(written) /\ IsText(written[j])
    BY <1>10, <2>1, <2>6 DEF NoMore
  <2>8. PICK c \in Nat, b \in Nat : /\ c = Off(j - 1) /\ b = Off(j)
                                    /\ SubSeq(text, c + 1, b) = written[j].text
    BY <1>1, <2>7, TextAt
  <2>9. c = a /\ b = Len(text)
    BY <1>1, <1>7, <2>1, <2>7, <2>8, OffsetsAre
  <2>10. TextToken(SubSeq(text, pos, Len(text))) = written[j]
    <3>1. SubSeq(text, pos, Len(text)) = written[j].text
      BY <1>7, <2>8, <2>9, Zenon
    <3>2. written[j] = TextToken(written[j].text)
      BY <2>2, <2>7, KindsAre
    <3> QED
      BY <3>1, <3>2, Zenon
  <2>11. tokens' = Append(tokens, written[j])
    BY <1>5, <2>5, <2>10, Zenon
  <2>12. Kept(tokens') = Append(Kept(tokens), written[j])
    <3>1. tokens \in Seq(Token)
      BY DEF ParserInv, PiecesTyped
    <3>2. Kept(tokens) \in Seq(Token)
      <4>1. SubSeq(written, 1, k) \in Seq(Token)
        BY <1>3
      <4> QED
        BY <1>6, <4>1
    <3>3. written[j] # TextToken(<<>>)
      BY <2>2, <2>7, PieceKept
    <3>4. Kept(Append(tokens, written[j])) = Append(Kept(tokens), written[j])
      BY <2>2, <3>1, <3>2, <3>3, KeptAppend
    <3> QED
      BY <2>11, <3>4, Zenon
  <2>13. Append(SubSeq(written, 1, j - 1), written[j]) = SubSeq(written, 1, j)
    BY <1>3, BeginningGrows
  <2>14. Kept(tokens') = SubSeq(written, 1, Len(written))
    BY <1>6, <2>1, <2>7, <2>12, <2>13, Zenon
  <2> QED
    BY <1>3, <1>8, <2>14, Zenon
<1> QED
  BY <1>9, <1>10

LEMMA WrittenInvNext == WrittenInv /\ ParserInv /\ [ParserNext]_parserVars => WrittenInv'
<1> SUFFICES ASSUME WrittenInv, ParserInv, [ParserNext]_parserVars PROVE WrittenInv'
  OBVIOUS
<1>1. CASE ~finished /\ UNCHANGED <<text, written>> /\ Parsing /\ UNCHANGED finished
           /\ (SearchBeginning \/ ReadName \/ ReadArgument \/ Failure \/ Success)
  <2>1. CASE written # <<>>
    BY <1>1, <2>1, SearchBeginningReads, ReadNameReads, ReadArgumentReads, FailureReads, SuccessReads
  <2>2. CASE written = <<>>
    BY <1>1, <2>2 DEF WrittenInv
  <2> QED
    BY <2>1, <2>2
<1>2. CASE ~finished /\ UNCHANGED <<text, written>> /\ ~Parsing /\ Finish
  <2>1. CASE written # <<>>
    BY <1>2, <2>1, FinishReads
  <2>2. CASE written = <<>>
    BY <1>2, <2>2 DEF WrittenInv
  <2> QED
    BY <2>1, <2>2
<1>3. CASE UNCHANGED parserVars
  <2>1. UNCHANGED <<text, written, mode, searchPos, pos, expressionStart, functionName, arguments,
                    argumentStart, tokens, finished>>
    BY <1>3 DEF parserVars
  <2>2. CASE written # <<>>
    <3>1. Spells
      BY <2>2 DEF WrittenInv
    <3>2. Spells'
      BY <2>1, <3>1, SpellsOn
    <3>3. CASE finished
      BY <2>1, <2>2, <3>2, <3>3 DEF WrittenInv, Kept
    <3>4. CASE ~finished
      <4>1. PICK k \in 0..Len(written) : Reached(k)
        BY <2>2, <3>4, WhereItIs
      <4>2. Kept(tokens)' = SubSeq(written, 1, k) /\ pos' = Off(k) + 1
        BY <2>1, <4>1 DEF Reached, Kept
      <4>3. \A q : Off(q)' = Off(q) /\ NoMore(q)' = NoMore(q)
        BY <2>1, <3>1, SpellsOn
      <4>4. Between(k)' = Between(k)
        BY <2>1, <4>3 DEF Between
      <4>5. \A p : Reads(p)' = Reads(p)
        BY <2>1 DEF Reads
      <4>6. InCall(k) => InCall(k)'
        BY <2>1, <4>3, <4>5 DEF InCall
      <4>7. Between(k)' \/ InCall(k)'
        BY <4>1, <4>4, <4>6 DEF Reached
      <4> QED
        BY <2>1, <3>1, <3>4, <4>2, <4>7, ReachedOn
    <3> QED
      BY <3>3, <3>4
  <2>3. CASE written = <<>>
    BY <2>1, <2>3 DEF WrittenInv
  <2> QED
    BY <2>2, <2>3
<1> QED
  BY <1>1, <1>2, <1>3 DEF ParserNext, Parsed

\* Every well-formed text is taken apart into the pieces it was put together
\* from, however many they are and whatever they hold, if none of its calls has
\* more arguments than numArgs can count: up to MaxNumArgs the counter does not wrap
\* around and the program does not end (ParsedText::Parse).
THEOREM WritingsAreRead == ParserSpec => []ReadsWhatWasWritten
<1>1. ParserInit => WrittenInv
  BY WrittenInvInit
<1>2. WrittenInv => ReadsWhatWasWritten
  BY DEF WrittenInv, Reached, Between, InCall, Reads, ReadsWhatWasWritten
<1> QED
  BY <1>1, <1>2, WrittenInvNext, ParserInvAlways, PTL DEF ParserSpec

----------------------------------------------------------------------------
(* Media information.                                                      *)

USE MediaAssumption DEF MediaAssumption

LEMMA MediaTypeInit == MediaInit => MediaTypeOK
<1> SUFFICES ASSUME MediaInit PROVE MediaTypeOK
  OBVIOUS
<1> USE DEF MediaInit, Paths
<1>1. {winamp, newFilePath, filePath, trackTitle, trackArtist, cover} \subseteq Paths
  OBVIOUS
<1>2. labels \in [title : Paths, artist : Paths]
  OBVIOUS
<1>3. announced \in 0..MaxAnnounced
  OBVIOUS
<1>4. closed \in BOOLEAN /\ missed \in BOOLEAN
  OBVIOUS
<1> QED
  BY <1>1, <1>2, <1>3, <1>4 DEF MediaTypeOK

LEMMA MediaTypeNext == MediaTypeOK /\ [MediaNext]_mediaVars => MediaTypeOK'
<1> SUFFICES ASSUME MediaTypeOK, [MediaNext]_mediaVars
             PROVE  MediaTypeOK'
  OBVIOUS
<1> USE DEF MediaTypeOK, Paths
<1>1. CASE \E file \in Files : PlaySong(file)
  BY <1>1 DEF PlaySong
<1>2. CASE QuitWinamp
  BY <1>2 DEF QuitWinamp
<1>3. CASE SongChanged
  BY <1>3 DEF SongChanged
<1>4. CASE Reevaluate
  BY <1>4 DEF Reevaluate, Buffers
<1>5. CASE FindWinamp
  BY <1>5 DEF FindWinamp
<1>6. CASE ReadFilePath
  BY <1>6 DEF ReadFilePath
<1>7. CASE ReadTitle
  BY <1>7 DEF ReadTitle, TellPath
<1>8. CASE ReadArtist
  BY <1>8 DEF ReadArtist, TellPath
<1>9. CASE NotifyLabels
  BY <1>9 DEF NotifyLabels, Buffers
<1>10. CASE FindCover
  BY <1>10 DEF FindCover
<1>11. CASE SetCover
  BY <1>11 DEF SetCover
<1>12. CASE EndUpdate
  BY <1>12 DEF EndUpdate
<1>13. CASE UNCHANGED mediaVars
  BY <1>13 DEF mediaVars
<1> QED
  BY <1>1, <1>2, <1>3, <1>4, <1>5, <1>6, <1>7, <1>8, <1>9, <1>10, <1>11, <1>12, <1>13
     DEF MediaNext, Updater

\* The state of the updater, the labels and the cover stays well typed for any
\* files and any number of announced changes (Update, _Update).
THEOREM MediaTypeCorrect == MediaSpec => []MediaTypeOK
BY MediaTypeInit, MediaTypeNext, PTL DEF MediaSpec

----------------------------------------------------------------------------
\* The song the thread works on while it writes the buffers, and what the
\* buffers and the labels hold when it has written them.
Told == {"cover", "source", "end", "none"}

BuffersInv ==
  /\ closed <=> updater # "none"
  /\ updater \in {"title", "artist"} => newFilePath = filePath
  /\ updater # "title" => trackTitle \in {NoFile, filePath}
  /\ updater \notin {"title", "artist"} => trackArtist \in {NoFile, filePath}
  /\ updater \in Told => labels = Buffers

\* No change is under way and none was missed: then Winamp still plays what it
\* played when the updater was started.
Settled == announced = 0 /\ ~missed /\ WinampRuns

SongInv ==
  Settled => /\ updater \in {"read", "title", "artist"} => newFilePath = winamp
             /\ updater \in {"artist", "notify"} \cup Told => trackTitle \in {winamp, NoFile}

MediaInv == MediaTypeOK /\ BuffersInv /\ SongInv

LEMMA BuffersInit == MediaInit => BuffersInv
BY DEF MediaInit, BuffersInv, Told, Buffers

LEMMA BuffersNext == MediaTypeOK /\ BuffersInv /\ [MediaNext]_mediaVars => BuffersInv'
<1> SUFFICES ASSUME MediaTypeOK, BuffersInv, [MediaNext]_mediaVars
             PROVE  BuffersInv'
  OBVIOUS
<1> USE DEF MediaTypeOK, BuffersInv, Told, Buffers
<1>1. CASE \E file \in Files : PlaySong(file)
  BY <1>1 DEF PlaySong
<1>2. CASE QuitWinamp
  BY <1>2 DEF QuitWinamp
<1>3. CASE SongChanged
  BY <1>3 DEF SongChanged
<1>4. CASE Reevaluate
  BY <1>4 DEF Reevaluate
<1>5. CASE FindWinamp
  BY <1>5 DEF FindWinamp
<1>6. CASE ReadFilePath
  BY <1>6 DEF ReadFilePath
<1>7. CASE ReadTitle
  BY <1>7 DEF ReadTitle, TellPath
<1>8. CASE ReadArtist
  BY <1>8 DEF ReadArtist, TellPath
<1>9. CASE NotifyLabels
  BY <1>9 DEF NotifyLabels
<1>10. CASE FindCover
  BY <1>10 DEF FindCover
<1>11. CASE SetCover
  BY <1>11 DEF SetCover
<1>12. CASE EndUpdate
  BY <1>12 DEF EndUpdate
<1>13. CASE UNCHANGED mediaVars
  BY <1>13 DEF mediaVars
<1> QED
  BY <1>1, <1>2, <1>3, <1>4, <1>5, <1>6, <1>7, <1>8, <1>9, <1>10, <1>11, <1>12, <1>13
     DEF MediaNext, Updater

LEMMA SongInit == MediaInit => SongInv
BY DEF MediaInit, SongInv, Told

LEMMA SongNext == MediaInv /\ [MediaNext]_mediaVars => SongInv'
<1> SUFFICES ASSUME MediaInv, [MediaNext]_mediaVars
             PROVE  SongInv'
  OBVIOUS
<1> USE DEF MediaInv, MediaTypeOK, BuffersInv, SongInv, Settled, WinampRuns, Told
<1>1. CASE \E file \in Files : PlaySong(file)
  BY <1>1 DEF PlaySong
<1>2. CASE QuitWinamp
  BY <1>2 DEF QuitWinamp
<1>3. CASE SongChanged
  BY <1>3 DEF SongChanged
<1>4. CASE Reevaluate
  BY <1>4 DEF Reevaluate
<1>5. CASE FindWinamp
  BY <1>5 DEF FindWinamp
<1>6. CASE ReadFilePath
  BY <1>6 DEF ReadFilePath
<1>7. CASE ReadTitle
  BY <1>7 DEF ReadTitle, TellPath
<1>8. CASE ReadArtist
  BY <1>8 DEF ReadArtist, TellPath
<1>9. CASE NotifyLabels
  BY <1>9 DEF NotifyLabels
<1>10. CASE FindCover
  BY <1>10 DEF FindCover
<1>11. CASE SetCover
  BY <1>11 DEF SetCover
<1>12. CASE EndUpdate
  BY <1>12 DEF EndUpdate
<1>13. CASE UNCHANGED mediaVars
  BY <1>13 DEF mediaVars
<1> QED
  BY <1>1, <1>2, <1>3, <1>4, <1>5, <1>6, <1>7, <1>8, <1>9, <1>10, <1>11, <1>12, <1>13
     DEF MediaNext, Updater

LEMMA MediaInvFollows == MediaInv => LabelsFollow
BY DEF MediaInv, BuffersInv, SongInv, Settled, Told, LabelsFollow, OneSong, AtRest, Buffers,
       MediaTypeOK

\* Whenever no update runs and no change is under way, the labels show what the
\* buffers hold, that is of one song, and the title is the one being played unless
\* its change was dropped (Update, _Update, _UpdateNotify).
THEOREM LabelsFollowTheSong == MediaSpec => []LabelsFollow
<1>1. MediaInit => MediaInv
  BY MediaTypeInit, BuffersInit, SongInit DEF MediaInv
<1>2. MediaInv /\ [MediaNext]_mediaVars => MediaInv'
  BY MediaTypeNext, BuffersNext, SongNext DEF MediaInv
<1> QED
  BY <1>1, <1>2, MediaInvFollows, PTL DEF MediaSpec

----------------------------------------------------------------------------
(* The services together.                                                  *)

LEMMA ServicesStart ==
  ServicesInit => LoaderInit /\ Init /\ TextInit /\ ParserInit /\ MediaInit
BY DEF ServicesInit

\* A step of one service leaves the others alone.
LEMMA ServicesStep ==
  [ServicesNext]_serviceVars =>
    /\ [LoaderNext]_loaderVars /\ [Next]_vars /\ [TextNext]_textVars
    /\ [ParserNext]_parserVars /\ [MediaNext]_mediaVars
BY DEF ServicesNext, serviceVars

\* The services keep within their types when they live in one process, nCore, each
\* with the lists and the threads of its own (src/nCore).
THEOREM ServicesKeepTypes == ServicesSpec => []ServicesTypeOK
<1>1. TextInv => TextTypeOK
  BY DEF TextInv
<1>2. ServicesSpec => LoaderSpec /\ Spec /\ ParserSpec /\ MediaSpec
  BY ServicesStart, ServicesStep, PTL DEF ServicesSpec, LoaderSpec, Spec, ParserSpec, MediaSpec
<1>3. ServicesSpec => []TextTypeOK
  BY <1>1, ServicesStart, ServicesStep, TextInvInit, TextInvNext, PTL DEF ServicesSpec
<1> QED
  BY <1>2, <1>3, LoaderTypeCorrect, TreeTypeCorrect, ParserStaysInside, MediaTypeCorrect, PTL
     DEF ServicesTypeOK
=============================================================================
