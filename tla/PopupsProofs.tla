---------------------------- MODULE PopupsProofs -----------------------------
(***************************************************************************)
(* The menus keep their chains and their items, for every forest of menus  *)
(* and any number of messages on their way (PopupInv).                     *)
(*                                                                         *)
(* What the proof rests on is that whatever closes closes as a whole: the  *)
(* list Popup::Close works through holds, with a popup, the one that popup *)
(* opened (Whole, ClosingOrder).  The popups of a chain lie above one      *)
(* another in the tree, so the list names each of them (InOrderLists).     *)
(***************************************************************************)
EXTENDS Popups, FiniteSetTheorems, FunctionTheorems, SequenceTheorems,
        WellFoundedInduction, TLAPS

----------------------------------------------------------------------------
(* The tree of the menus.                                                   *)

LEMMA AboveIs ==
  ASSUME NEW p \in Popups
  PROVE  /\ Above[p] \subseteq Popups /\ IsFiniteSet(Above[p])
         /\ p \notin Above[p] /\ p # NoPopup
         /\ Parent[p] = NoPopup => Above[p] = {}
         /\ Parent[p] # NoPopup => /\ Parent[p] \in Popups
                                   /\ Above[p] = {Parent[p]} \cup Above[Parent[p]]
<1>1. Above[p] \in SUBSET Popups
  BY PopupAssumption DEF PopupAssumption
<1>2. IsFiniteSet(Above[p])
  BY <1>1, FS_Subset, PopupAssumption DEF PopupAssumption
<1> QED
  BY <1>1, <1>2, PopupAssumption DEF PopupAssumption

\* What holds of a popup if it holds of the one above it holds of all of them.
LEMMA TopDown ==
  ASSUME NEW S,
         \A p \in Popups : (Parent[p] # NoPopup => Parent[p] \in S) => p \in S
  PROVE  Popups \subseteq S
<1> DEFINE off == Popups \ S
           height(p) == Cardinality(Above[p])
           D == {height(p) : p \in off}
           less == OpToRel(<, Nat)
<1>1. SUFFICES ASSUME off # {} PROVE FALSE
  OBVIOUS
<1>2. \A p \in Popups : height(p) \in Nat
  BY AboveIs, FS_CardinalityType
<1>3. D \subseteq Nat /\ D # {}
  BY <1>1, <1>2
<1>4. \A m, n \in Nat : m < n => <<m, n>> \in less
  BY DEF OpToRel
<1>5. IsWellFoundedOn(less, Nat)
  BY NatLessThanWellFounded DEF OpToRel
<1> HIDE DEF less
<1>6. PICK n \in D : \A m \in D : ~(<<m, n>> \in less)
  <2> HIDE DEF D
  <2> QED
    BY <1>3, <1>5, WFMin
<1>7. PICK p \in off : n = height(p)
  OBVIOUS
<1>8. Parent[p] # NoPopup /\ Parent[p] \in off
  BY AboveIs
<1>9. height(p) = height(Parent[p]) + 1
  BY <1>8, AboveIs, FS_AddElement
<1>10. height(Parent[p]) < height(p) /\ height(Parent[p]) \in D
  BY <1>2, <1>8, <1>9
<1> QED
  BY <1>2, <1>4, <1>6, <1>7, <1>8, <1>10

LEMMA AboveTransitive ==
  \A p \in Popups : \A q \in Above[p] : Above[q] \subseteq Above[p]
<1> DEFINE S == {p \in Popups : \A q \in Above[p] : Above[q] \subseteq Above[p]}
<1>1. ASSUME NEW p \in Popups, Parent[p] # NoPopup => Parent[p] \in S
      PROVE  p \in S
  BY <1>1, AboveIs
<1> HIDE DEF S
<1>2. Popups \subseteq S
  BY <1>1, TopDown
<1> QED
  BY <1>2 DEF S

\* Of two popups above a third one the one is above the other.
LEMMA AboveLinear ==
  \A p \in Popups : \A x, y \in Above[p] : x = y \/ x \in Above[y] \/ y \in Above[x]
<1> DEFINE S == {p \in Popups : \A x, y \in Above[p] :
                                  x = y \/ x \in Above[y] \/ y \in Above[x]}
<1>1. ASSUME NEW p \in Popups, Parent[p] # NoPopup => Parent[p] \in S
      PROVE  p \in S
  BY <1>1, AboveIs
<1> HIDE DEF S
<1>2. Popups \subseteq S
  BY <1>1, TopDown
<1> QED
  BY <1>2 DEF S

\* On the way from a popup up to u there is one right below u.
LEMMA RightBelow ==
  \A p \in Popups : \A u \in Above[p] :
    \E r \in {p} \cup Above[p] : Parent[r] = u /\ u \in Above[r] /\ r # NoPopup
<1> DEFINE S == {p \in Popups : \A u \in Above[p] :
                   \E r \in {p} \cup Above[p] : Parent[r] = u /\ u \in Above[r] /\ r # NoPopup}
<1>1. ASSUME NEW p \in Popups, Parent[p] # NoPopup => Parent[p] \in S
      PROVE  p \in S
  <2>1. SUFFICES ASSUME NEW u \in Above[p]
                 PROVE  \E r \in {p} \cup Above[p] : Parent[r] = u /\ u \in Above[r] /\ r # NoPopup
    OBVIOUS
  <2>2. Parent[p] # NoPopup /\ Parent[p] \in Popups /\ Above[p] = {Parent[p]} \cup Above[Parent[p]]
    BY <2>1, AboveIs
  <2>3. CASE u = Parent[p]
    BY <2>2, <2>3, AboveIs
  <2>4. CASE u \in Above[Parent[p]]
    BY <1>1, <2>2, <2>4
  <2> QED
    BY <2>1, <2>2, <2>3, <2>4
<1> HIDE DEF S
<1>2. Popups \subseteq S
  BY <1>1, TopDown
<1> QED
  BY <1>2 DEF S

----------------------------------------------------------------------------
(* Lists of popups.                                                         *)

\* InOrder lists each member of S, at the place given by how many are before it.
LEMMA InOrderLists ==
  ASSUME NEW S, IsFiniteSet(S), NEW before,
         \A x \in S : x \notin before[x],
         \A x, y \in S : x = y \/ x \in before[y] \/ y \in before[x],
         \A x, y \in S : x \in before[y] => S \cap before[x] \subseteq before[y]
  PROVE  /\ Cardinality(S) \in Nat
         /\ InOrder(S, before) \in [1..Cardinality(S) -> S]
         /\ \A x \in S : \E i \in 1..Cardinality(S) : InOrder(S, before)[i] = x
<1> DEFINE n == Cardinality(S)
           rank(x) == Cardinality(S \cap before[x])
           place == [x \in S |-> rank(x) + 1]
           list == InOrder(S, before)
<1>1. n \in Nat
  BY FS_CardinalityType
<1>2. ASSUME NEW x \in S
      PROVE  rank(x) \in Nat /\ rank(x) < n
  <2>1. IsFiniteSet(S \cap before[x]) /\ rank(x) <= n
    BY FS_Subset
  <2>2. rank(x) # n
    BY FS_Subset
  <2> QED
    BY <1>1, <2>1, <2>2, FS_CardinalityType
<1>3. ASSUME NEW x \in S, NEW y \in S, x \in before[y]
      PROVE  rank(x) < rank(y)
  <2> DEFINE A == S \cap before[x]
             B == S \cap before[y]
  <2>1. A \subseteq B /\ x \in B /\ x \notin A
    BY <1>3
  <2>2. IsFiniteSet(B)
    BY FS_Subset
  <2>3. Cardinality(A) <= Cardinality(B) /\ Cardinality(A) # Cardinality(B)
    BY <2>1, <2>2, FS_Subset
  <2> QED
    BY <1>2, <2>3
<1>4. \A x, y \in S : rank(x) = rank(y) => x = y
  BY <1>2, <1>3
<1> HIDE DEF rank, n
<1>5. /\ place \in [S -> 1..n]
      /\ \A x \in S : place[x] = rank(x) + 1 /\ rank(x) \in Int
  BY <1>1, <1>2
<1>6. place \in Injection(S, 1..n)
  <2>1. \A x, y \in S : place[x] = place[y] => x = y
    BY <1>4, <1>5
  <2> QED
    BY <1>5, <2>1 DEF Injection, IsInjective
<1>7. IsFiniteSet(1..n) /\ Cardinality(1..n) = n /\ Cardinality(S) = n
  BY <1>1, FS_Interval DEF n
<1>8. place \in Surjection(S, 1..n)
  <2> HIDE DEF place
  <2> QED
    BY <1>6, <1>7, FS_Injection
<1>9. \A i \in 1..n : \E x \in S : rank(x) = i - 1
  <2> TAKE i \in 1..n
  <2>1. \E x \in S : place[x] = i
    BY <1>8 DEF Surjection
  <2> QED
    BY <1>1, <1>5, <2>1
<1> HIDE DEF place
<1>10. list = [i \in 1..n |-> CHOOSE x \in S : rank(x) = i - 1]
  BY DEF InOrder, rank, n
<1>11. \A i \in 1..n : list[i] \in S /\ rank(list[i]) = i - 1
  <2> TAKE i \in 1..n
  <2>1. list[i] = CHOOSE x \in S : rank(x) = i - 1
    BY <1>10
  <2> QED
    BY <1>9, <2>1
<1>12. list \in [1..n -> S]
  BY <1>10, <1>11
<1>13. \A x \in S : list[rank(x) + 1] = x /\ rank(x) + 1 \in 1..n
  <2> TAKE x \in S
  <2>1. rank(x) + 1 \in 1..n
    BY <1>1, <1>2
  <2>2. list[rank(x) + 1] \in S /\ rank(list[rank(x) + 1]) = rank(x)
    BY <1>2, <1>11, <2>1
  <2> QED
    BY <1>4, <2>1, <2>2
<1> HIDE DEF list
<1> QED
  BY <1>1, <1>12, <1>13 DEF list, n

\* A part of a chain is listed from the root downwards.
LEMMA DownwardsLists ==
  ASSUME NEW S \in SUBSET Popups,
         \A x, y \in S : x = y \/ x \in Above[y] \/ y \in Above[x]
  PROVE  Downwards(S) \in Seq(S) /\ Range(Downwards(S)) = S
<1>1. IsFiniteSet(S)
  BY FS_Subset, PopupAssumption DEF PopupAssumption
<1>2. \A x \in S : x \notin Above[x]
  BY AboveIs
<1>3. \A x, y \in S : x \in Above[y] => S \cap Above[x] \subseteq Above[y]
  BY AboveTransitive
<1>4. /\ Cardinality(S) \in Nat
      /\ Downwards(S) \in [1..Cardinality(S) -> S]
      /\ \A x \in S : \E i \in 1..Cardinality(S) : Downwards(S)[i] = x
  BY <1>1, <1>2, <1>3, InOrderLists DEF Downwards
<1> HIDE DEF Downwards
<1>5. Downwards(S) \in Seq(S)
  BY <1>4
<1> QED
  BY <1>4, <1>5 DEF Range

LEMMA ReverseLists ==
  ASSUME NEW S, NEW s \in Seq(S)
  PROVE  Reverse(s) \in Seq(S) /\ Range(Reverse(s)) = Range(s)
<1> DEFINE n == Len(s)
<1>1. n \in Nat /\ s \in [1..n -> S] /\ DOMAIN s = 1..n
  OBVIOUS
<1> HIDE DEF n
<1>2. Reverse(s) = [i \in 1..n |-> s[(n - i) + 1]]
  BY DEF Reverse, n
<1>3. \A i \in 1..n : (n - i) + 1 \in 1..n /\ (n - ((n - i) + 1)) + 1 = i
  BY <1>1
<1>4. Reverse(s) \in [1..n -> S] /\ DOMAIN Reverse(s) = 1..n
  BY <1>1, <1>2, <1>3
<1>5. \A i \in 1..n : s[i] = Reverse(s)[(n - i) + 1] /\ Reverse(s)[i] = s[(n - i) + 1]
  BY <1>2, <1>3
<1>6. Range(Reverse(s)) = Range(s)
  BY <1>1, <1>3, <1>4, <1>5 DEF Range
<1> QED
  BY <1>1, <1>4, <1>6

\* Without drops the popups in gone, and them alone.
LEMMA WithoutLists ==
  ASSUME NEW T, NEW s \in Seq(T), NEW gone
  PROVE  /\ Without(s, gone) \in Seq(T \ gone)
         /\ Len(Without(s, gone)) <= Len(s)
         /\ Range(Without(s, gone)) = Range(s) \ gone
<1> DEFINE n == Len(s)
           left == {i \in DOMAIN s : s[i] \notin gone}
           before == [i \in DOMAIN s |-> 1..(i - 1)]
           order == InOrder(left, before)
           c == Cardinality(left)
<1>1. n \in Nat /\ DOMAIN s = 1..n /\ \A i \in 1..n : s[i] \in T
  OBVIOUS
<1> HIDE DEF n
<1>2. IsFiniteSet(1..n) /\ Cardinality(1..n) = n
  BY <1>1, FS_Interval
<1>3. left \subseteq 1..n /\ \A i \in left : i \in Nat /\ before[i] = 1..(i - 1)
  BY <1>1
<1>4. IsFiniteSet(left) /\ c <= n
  BY <1>2, <1>3, FS_Subset
<1>5. \A i \in left : i \notin before[i]
  BY <1>3
<1>6. \A i, j \in left : i = j \/ i \in before[j] \/ j \in before[i]
  BY <1>1, <1>3
<1>7. \A i, j \in left : i \in before[j] => left \cap before[i] \subseteq before[j]
  BY <1>3
<1>8. /\ c \in Nat
      /\ order \in [1..c -> left]
      /\ \A i \in left : \E j \in 1..c : order[j] = i
  <2> HIDE DEF left, before
  <2> QED
    BY <1>4, <1>5, <1>6, <1>7, InOrderLists
<1>9. Without(s, gone) = [i \in DOMAIN order |-> s[order[i]]]
  BY DEF Without
<1> HIDE DEF order, c
<1>10. Without(s, gone) = [i \in 1..c |-> s[order[i]]]
  BY <1>8, <1>9
<1>11. \A i \in left : s[i] \in T \ gone
  BY <1>1
<1>12. \A i \in 1..c : order[i] \in left
  BY <1>8
<1> HIDE DEF left
<1>13. Without(s, gone) \in [1..c -> T \ gone] /\ DOMAIN Without(s, gone) = 1..c
  BY <1>10, <1>11, <1>12
<1>14. Without(s, gone) \in Seq(T \ gone) /\ Len(Without(s, gone)) = c
  BY <1>8, <1>13
<1>15. Range(Without(s, gone)) = {s[i] : i \in left}
  <2>1. Range(Without(s, gone)) = {s[order[i]] : i \in 1..c}
    BY <1>10, <1>13 DEF Range
  <2> QED
    BY <1>8, <1>12, <2>1
<1>16. {s[i] : i \in left} = Range(s) \ gone
  BY DEF Range, left
<1> QED
  BY <1>4, <1>14, <1>15, <1>16 DEF n

----------------------------------------------------------------------------
(* Chains.                                                                  *)

\* What the chains rely on: the pointers fit, and lead along the tree.
Linked ==
  /\ open \subseteq Popups
  /\ popupOwner \in [Popups -> Popups \cup {NoPopup}]
  /\ openChild \in [Popups -> Popups \cup {NoPopup}]
  /\ ChainsFit
  /\ \A p \in Popups : popupOwner[p] \in {NoPopup, Parent[p]}

LEMMA ChildIs ==
  ASSUME Linked, NEW p \in Popups, openChild[p] # NoPopup
  PROVE  /\ openChild[p] \in Popups /\ p \in Above[openChild[p]]
         /\ Parent[openChild[p]] = p /\ popupOwner[openChild[p]] = p
         /\ {p, openChild[p]} \subseteq open
<1>1. /\ openChild[p] \in Popups /\ popupOwner[openChild[p]] = p
      /\ {p, openChild[p]} \subseteq open
  BY DEF Linked, ChainsFit
<1>2. Parent[openChild[p]] = p
  BY <1>1, AboveIs DEF Linked
<1>3. p \in Above[openChild[p]]
  BY <1>1, <1>2, AboveIs
<1> QED
  BY <1>1, <1>2, <1>3

LEMMA OwnerIs ==
  ASSUME Linked, NEW p \in Popups, popupOwner[p] # NoPopup
  PROVE  /\ Parent[p] \in Popups /\ popupOwner[p] = Parent[p]
         /\ openChild[Parent[p]] = p
         /\ {p, Parent[p]} \subseteq open
<1>1. Parent[p] # NoPopup /\ popupOwner[p] = Parent[p] /\ openChild[popupOwner[p]] = p
  BY DEF Linked, ChainsFit
<1>2. Parent[p] \in Popups
  BY <1>1, AboveIs
<1>3. openChild[Parent[p]] # NoPopup
  BY <1>1, AboveIs
<1> QED
  BY <1>1, <1>2, <1>3, ChildIs

\* A set of open popups that is closed as a whole, with all they opened.
Whole(S) == S \subseteq open /\ \A p \in S : openChild[p] \in S \cup {NoPopup}

\* The popups p opened, directly or not.
LEMMA OpenedIs ==
  ASSUME Linked, NEW p \in Popups
  PROVE  /\ Whole(Opened(p)) /\ p \notin Opened(p)
         /\ openChild[p] \in Opened(p) \cup {NoPopup}
         /\ \A x, y \in Opened(p) : x = y \/ x \in Above[y] \/ y \in Above[x]
<1>1. \A x \in Opened(p) : x \in Popups /\ p \in Above[x]
  BY DEF Opened, Below
<1>2. ASSUME NEW x \in Opened(p)
      PROVE  x \in open
  <2>1. x \in Popups /\ x \notin {p} \cup Above[p]
    BY <1>1, AboveIs, AboveTransitive
  <2>2. openChild[Parent[x]] = x /\ Parent[x] # NoPopup /\ Parent[x] \in Popups
    BY <1>1, <2>1, AboveIs DEF Opened
  <2> QED
    BY <2>1, <2>2, ChildIs, AboveIs
<1>3. ASSUME NEW u \in Opened(p) \cup {p}, openChild[u] # NoPopup
      PROVE  openChild[u] \in Opened(p)
  <2> DEFINE x == openChild[u]
  <2>1. u \in Popups
    BY <1>1
  <2>2. x \in Popups /\ Parent[x] = u /\ u \in Above[x]
    BY <1>3, <2>1, ChildIs
  <2>3. Above[x] = {u} \cup Above[u] /\ p \in Above[x]
    BY <1>1, <2>1, <2>2, AboveIs
  <2>4. ASSUME NEW r \in ({x} \cup Above[x]) \ ({p} \cup Above[p])
        PROVE  openChild[Parent[r]] = r
    BY <2>2, <2>3, <2>4 DEF Opened
  <2> QED
    BY <2>2, <2>3, <2>4 DEF Opened, Below
<1>4. ASSUME NEW x \in Opened(p), NEW u \in {p} \cup Opened(p), u \in Above[x]
      PROVE  openChild[u] # NoPopup /\ (x = openChild[u] \/ openChild[u] \in Above[x])
  <2>1. x \in Popups /\ u \in Popups
    BY <1>1
  <2>2. PICK r \in {x} \cup Above[x] : Parent[r] = u /\ u \in Above[r] /\ r # NoPopup
    BY <1>4, <2>1, RightBelow
  <2>3. r \in Popups /\ p \in Above[r]
    BY <1>1, <2>1, <2>2, AboveIs, AboveTransitive
  <2>4. r \notin {p} \cup Above[p]
    BY <2>3, AboveIs, AboveTransitive
  <2>5. openChild[u] = r
    BY <2>2, <2>4 DEF Opened
  <2> QED
    BY <2>2, <2>5
<1>5. \A x, y \in Opened(p) : x = y \/ x \in Above[y] \/ y \in Above[x]
  <2> DEFINE S == {x \in Popups : x \in Opened(p) =>
                     \A y \in Opened(p) : x = y \/ x \in Above[y] \/ y \in Above[x]}
  <2>1. ASSUME NEW x \in Popups, Parent[x] # NoPopup => Parent[x] \in S
        PROVE  x \in S
    <3>1. SUFFICES ASSUME x \in Opened(p), NEW y \in Opened(p)
                   PROVE  x = y \/ x \in Above[y] \/ y \in Above[x]
      OBVIOUS
    <3>2. Parent[x] # NoPopup /\ Parent[x] \in Popups /\ Above[x] = {Parent[x]} \cup Above[Parent[x]]
      BY <1>1, <3>1, AboveIs
    <3>3. openChild[Parent[x]] = x
      <4>1. x \notin {p} \cup Above[p]
        BY <1>1, <3>1, AboveIs, AboveTransitive
      <4> QED
        BY <3>1, <4>1 DEF Opened
    <3>4. CASE Parent[x] = p
      BY <1>1, <1>4, <3>3, <3>4
    <3>5. CASE Parent[x] # p
      <4>1. p \in Above[Parent[x]]
        BY <1>1, <3>1, <3>2, <3>5
      <4>2. \A r \in ({Parent[x]} \cup Above[Parent[x]]) \ ({p} \cup Above[p]) :
               openChild[Parent[r]] = r
        BY <3>1, <3>2 DEF Opened
      <4>3. Parent[x] \in Opened(p)
        BY <3>2, <4>1, <4>2 DEF Opened, Below
      <4>4. Parent[x] = y \/ Parent[x] \in Above[y] \/ y \in Above[Parent[x]]
        BY <2>1, <3>2, <4>3
      <4>5. CASE Parent[x] \in Above[y]
        BY <1>4, <3>3, <4>3, <4>5
      <4> QED
        BY <3>2, <4>4, <4>5
    <3> QED
      BY <3>4, <3>5
  <2> HIDE DEF S
  <2>2. Popups \subseteq S
    BY <2>1, TopDown
  <2> QED
    BY <1>1, <2>2 DEF S
<1>6. p \notin Opened(p)
  BY <1>1, AboveIs
<1> QED
  BY <1>2, <1>3, <1>5, <1>6 DEF Whole

\* A chain is closed as a whole.
LEMMA ChainIs ==
  ASSUME Linked, NEW p \in open
  PROVE  /\ Whole(Chain(p))
         /\ \A x, y \in Owners(p) : x = y \/ x \in Above[y] \/ y \in Above[x]
<1>1. p \in Popups /\ Owners(p) \subseteq Above[p] /\ Above[p] \subseteq Popups
  BY AboveIs DEF Linked, Owners
<1>2. ASSUME NEW q \in Owners(p)
      PROVE  q \in open /\ openChild[q] \in Owners(p) \cup {p}
  <2>1. PICK r \in {p} \cup Above[p] : Parent[r] = q /\ q \in Above[r] /\ r # NoPopup
    BY <1>1, RightBelow
  <2>2. r \in Popups /\ q \in Popups /\ Above[r] = {q} \cup Above[q]
    BY <1>1, <2>1, AboveIs
  <2>3. r \notin {q} \cup Above[q]
    BY <2>2, AboveIs
  <2>4. popupOwner[r] # NoPopup
    BY <2>1, <2>3 DEF Owners
  <2>5. openChild[q] = r /\ q \in open
    BY <2>1, <2>2, <2>4, OwnerIs
  <2>6. r \in Above[p] => r \in Owners(p)
    BY <2>2 DEF Owners
  <2> QED
    BY <2>1, <2>5, <2>6
<1>3. Whole(Opened(p)) /\ openChild[p] \in Opened(p) \cup {NoPopup}
  BY <1>1, OpenedIs
<1>4. \A x, y \in Owners(p) : x = y \/ x \in Above[y] \/ y \in Above[x]
  BY <1>1, AboveLinear
<1> QED
  BY <1>2, <1>3, <1>4 DEF Whole, Chain

\* A sequence that closes whole chains, or the lower parts of chains.
Closing(s) == s \in Seq(open) /\ Whole(Range(s))

LEMMA ClosingNone == Closing(<<>>) /\ Range(<<>>) = {}
<1>1. DOMAIN <<>> = {}
  OBVIOUS
<1>2. Range(<<>>) = {}
  BY <1>1 DEF Range
<1> QED
  BY <1>2 DEF Closing, Whole

LEMMA ClosingBoth ==
  ASSUME NEW s, NEW t, Closing(s), Closing(t)
  PROVE  Closing(s \o t) /\ Range(s \o t) = Range(s) \cup Range(t)
<1>1. s \in Seq(open) /\ t \in Seq(open) /\ s \o t \in Seq(open)
  BY DEF Closing
<1>2. Range(s \o t) = Range(s) \cup Range(t)
  BY <1>1, RangeConcatenation
<1> QED
  BY <1>1, <1>2 DEF Closing, Whole

LEMMA OpenedCloses ==
  ASSUME Linked, NEW p \in open
  PROVE  Closing(Downwards(Opened(p))) /\ Range(Downwards(Opened(p))) = Opened(p)
<1>1. p \in Popups /\ open \subseteq Popups
  BY DEF Linked
<1>2. Opened(p) \subseteq open
  BY <1>1, OpenedIs DEF Whole
<1>3. Downwards(Opened(p)) \in Seq(Opened(p)) /\ Range(Downwards(Opened(p))) = Opened(p)
  BY <1>1, <1>2, OpenedIs, DownwardsLists
<1>4. Downwards(Opened(p)) \in Seq(open)
  BY <1>2, <1>3
<1> QED
  BY <1>1, <1>3, <1>4, OpenedIs DEF Closing

LEMMA ChainCloses ==
  ASSUME Linked, NEW p \in open
  PROVE  Closing(ClosingOrder(p)) /\ Range(ClosingOrder(p)) = Chain(p)
<1> DEFINE down == Downwards(Opened(p))
           up == Downwards(Owners(p))
<1>1. p \in Popups /\ open \subseteq Popups /\ Chain(p) \subseteq open
  BY ChainIs DEF Linked, Whole
<1>2. Owners(p) \in SUBSET Popups /\ Owners(p) \subseteq open
  BY <1>1 DEF Chain
<1>3. down \in Seq(open) /\ Range(down) = Opened(p)
  BY OpenedCloses DEF Closing
<1>4. up \in Seq(Owners(p)) /\ Range(up) = Owners(p)
  BY <1>2, ChainIs, DownwardsLists
<1> HIDE DEF up, down
<1>5. Reverse(up) \in Seq(Owners(p)) /\ Range(Reverse(up)) = Owners(p)
  BY <1>4, ReverseLists
<1>6. Reverse(up) \in Seq(open) /\ <<p>> \in Seq(open)
  BY <1>2, <1>5
<1>7. Range(<<p>>) = {p}
  <2>1. DOMAIN <<p>> = {1} /\ <<p>>[1] = p
    OBVIOUS
  <2> QED
    BY <2>1 DEF Range
<1>8. <<p>> \o down \in Seq(open) /\ Range(<<p>> \o down) = {p} \cup Opened(p)
  <2>1. <<p>> \o down \in Seq(open)
    BY <1>3, <1>6
  <2>2. Range(<<p>> \o down) = Range(<<p>>) \cup Range(down)
    <3> DEFINE one == <<p>>
    <3>1. one \in Seq(open) /\ down \in Seq(open)
      BY <1>3, <1>6
    <3> HIDE DEF one
    <3>2. Range(one \o down) = Range(one) \cup Range(down)
      BY <3>1, RangeConcatenation
    <3> QED
      BY <3>2 DEF one
  <2> QED
    BY <1>3, <1>7, <2>1, <2>2
<1> DEFINE first == <<p>> \o down
           last == Reverse(up)
<1>9. /\ first \o last \in Seq(open)
      /\ Range(first \o last) = ({p} \cup Opened(p)) \cup Owners(p)
  <2> HIDE DEF first, last
  <2>1. first \in Seq(open) /\ last \in Seq(open)
    BY <1>6, <1>8 DEF first, last
  <2>2. Range(first \o last) = Range(first) \cup Range(last)
    BY <2>1, RangeConcatenation
  <2>3. Range(first) = {p} \cup Opened(p) /\ Range(last) = Owners(p)
    BY <1>5, <1>8 DEF first, last
  <2> QED
    BY <2>1, <2>2, <2>3
<1>10. ClosingOrder(p) = (<<p>> \o down) \o Reverse(up)
  BY DEF ClosingOrder, up, down
<1> QED
  BY <1>9, <1>10, ChainIs DEF Closing, Chain

\* A chain that gives way is closed as a whole, and w and m stay.
LEMMA YieldingCloses ==
  ASSUME Linked, NEW w, NEW m
  PROVE  Closing(Yielding(w, m)) /\ {w, m} \cap Range(Yielding(w, m)) = {}
<1>1. CASE Yields(w, m)
  BY <1>1, ChainCloses DEF Yielding, Yields
<1>2. CASE ~Yields(w, m)
  BY <1>2, ClosingNone DEF Yielding
<1> QED
  BY <1>1, <1>2

----------------------------------------------------------------------------
(* The inductive invariant.                                                 *)

\* The messages on their way: who is waited for has opened nothing, and is open
\* only if it was shown again; only a root can be.
Awaited ==
  /\ \A p \in Range(hiddenPosted) : openChild[p] = NoPopup
  /\ Range(hiddenPosted) \cap open \subseteq reopened
  /\ reopened \subseteq Roots \cap open

PopupInv ==
  /\ PopupTypeOK /\ Linked /\ Awaited /\ ItemsWhileOpen

LEMMA NothingPosted ==
  ASSUME hiddenPosted = <<>>
  PROVE  Range(hiddenPosted) = {}
BY ClosingNone

LEMMA PopupInvInit == PopupInit => PopupInv
<1> SUFFICES ASSUME PopupInit PROVE PopupInv
  OBVIOUS
<1> USE DEF PopupInit
<1>1. Rooted \subseteq Popups /\ filled \subseteq Rooted /\ \A p \in filled : Kind[p] = "folder"
  BY DEF Rooted, Roots, Born, Below, Folders
<1>2. Range(hiddenPosted) = {}
  BY NothingPosted
<1>3. PopupTypeOK
  <2>1. hiddenPosted \in Seq(existing) /\ Len(hiddenPosted) <= MaxPosted
    BY PopupAssumption DEF PopupAssumption
  <2>2. {} \in SUBSET existing
    OBVIOUS
  <2> QED
    BY <1>1, <2>1, <2>2 DEF PopupTypeOK
<1>4. Linked
  BY DEF Linked, ChainsFit
<1>5. Awaited
  BY <1>2 DEF Awaited
<1>6. ItemsWhileOpen
  BY <1>1 DEF ItemsWhileOpen, Lingers
<1> QED
  BY <1>3, <1>4, <1>5, <1>6 DEF PopupInv

----------------------------------------------------------------------------
(* Closing and showing.                                                     *)

LEMMA PostingTyped ==
  ASSUME PopupTypeOK, existing \subseteq existing',
         NEW s \in Seq(open), CanPost(Len(s)), hiddenPosted' = hiddenPosted \o s
  PROVE  /\ hiddenPosted' \in Seq(existing') /\ Len(hiddenPosted') <= MaxPosted
         /\ Range(hiddenPosted') = Range(hiddenPosted) \cup Range(s)
<1>1. hiddenPosted \in Seq(existing) /\ open \subseteq existing
  BY DEF PopupTypeOK
<1>2. hiddenPosted \in Seq(existing') /\ s \in Seq(existing')
  BY <1>1
<1>3. hiddenPosted \o s \in Seq(existing') /\ Len(hiddenPosted \o s) = Len(hiddenPosted) + Len(s)
  BY <1>2, ConcatProperties
<1>4. Range(hiddenPosted \o s) = Range(hiddenPosted) \cup Range(s)
  BY <1>2, RangeConcatenation
<1> QED
  BY <1>3, <1>4 DEF CanPost

\* Whole chains are taken apart, and roots may be shown.
LEMMA UnlinkedFits ==
  ASSUME Linked, NEW S, Whole(S), NEW shown \in SUBSET Roots,
         open \subseteq existing, existing \subseteq existing',
         open' = (open \ S) \cup shown,
         popupOwner' = Unlinked(popupOwner, S),
         openChild' = Unlinked(openChild, S)
  PROVE  Linked' /\ \A p \in Popups : openChild[p] = NoPopup => openChild'[p] = NoPopup
<1>1. Roots \subseteq Popups /\ \A p \in Roots : Parent[p] = NoPopup
  BY DEF Roots
<1>2. /\ popupOwner' \in [Popups -> Popups \cup {NoPopup}]
      /\ openChild' \in [Popups -> Popups \cup {NoPopup}]
      /\ open' \subseteq Popups
  BY <1>1 DEF Unlinked, Linked
<1>3. \A p \in Popups :
        /\ popupOwner'[p] = IF p \in S \/ popupOwner[p] \in S THEN NoPopup ELSE popupOwner[p]
        /\ openChild'[p] = IF p \in S \/ openChild[p] \in S THEN NoPopup ELSE openChild[p]
  BY DEF Unlinked
<1>4. ASSUME NEW p \in Popups, openChild'[p] # NoPopup
      PROVE  /\ {p, openChild'[p]} \subseteq open' \cap existing'
             /\ popupOwner'[openChild'[p]] = p
  <2>1. p \notin S /\ openChild[p] \notin S /\ openChild'[p] = openChild[p] /\ openChild[p] # NoPopup
    BY <1>3, <1>4
  <2>2. /\ openChild[p] \in Popups /\ popupOwner[openChild[p]] = p
        /\ {p, openChild[p]} \subseteq open
    BY <2>1, ChildIs
  <2> QED
    BY <1>3, <2>1, <2>2
<1>5. ASSUME NEW p \in Popups, popupOwner'[p] # NoPopup
      PROVE  openChild'[popupOwner'[p]] = p
  <2>1. p \notin S /\ popupOwner[p] \notin S /\ popupOwner'[p] = popupOwner[p] /\ popupOwner[p] # NoPopup
    BY <1>3, <1>5
  <2>2. popupOwner[p] \in Popups /\ openChild[popupOwner[p]] = p
    BY <2>1, OwnerIs
  <2> QED
    BY <1>3, <2>1, <2>2
<1>6. ASSUME NEW p \in open' \ Roots
      PROVE  popupOwner'[p] = Parent[p]
  <2>1. p \in open /\ p \notin S /\ p \in Popups
    BY <1>6 DEF Linked
  <2>2. Parent[p] # NoPopup /\ popupOwner[p] = Parent[p]
    BY <1>6, <2>1 DEF Linked, ChainsFit, Roots
  <2>3. openChild[Parent[p]] = p /\ p # NoPopup
    BY <2>1, <2>2, OwnerIs, AboveIs
  <2>4. Parent[p] \notin S
    BY <2>1, <2>3 DEF Whole
  <2> QED
    BY <1>3, <2>1, <2>2, <2>4
<1>7. \A p \in Popups : popupOwner'[p] \in {NoPopup, Parent[p]}
  BY <1>3 DEF Linked
<1>8. ChainsFit'
  BY <1>4, <1>5, <1>6 DEF ChainsFit
<1> QED
  BY <1>2, <1>3, <1>7, <1>8 DEF Linked

\* What closes whole chains and shows roots keeps the invariant.
LEMMA ClosingKeeps ==
  ASSUME PopupInv, NEW s, Closing(s), CanPost(Len(s)), NEW shown \in SUBSET Roots, NEW X,
         existing \subseteq existing', existing' \subseteq Popups,
         filled \subseteq filled', filled' \subseteq existing', shown \subseteq filled',
         \A q \in filled' \ filled : Kind[q] = "folder" \/ q \in shown \cup Range(s),
         open' = (open \ Range(s)) \cup shown,
         popupOwner' = Unlinked(popupOwner, Range(s)),
         openChild' = Unlinked(openChild, Range(s)),
         {mouseOver', activeWindow'} \subseteq existing' \cup {NoPopup},
         hiddenPosted' = hiddenPosted \o s,
         reopened' = (reopened \ Range(s)) \cup (shown \cap X),
         shown \cap Range(hiddenPosted') \subseteq reopened'
  PROVE  PopupInv'
<1> DEFINE S == Range(s)
<1>1. PopupTypeOK /\ Linked /\ Awaited /\ ItemsWhileOpen
  BY DEF PopupInv
<1>2. s \in Seq(open) /\ Whole(S) /\ S \subseteq open
  BY DEF Closing, Whole
<1>3. /\ hiddenPosted' \in Seq(existing') /\ Len(hiddenPosted') <= MaxPosted
      /\ Range(hiddenPosted') = Range(hiddenPosted) \cup S
  BY <1>1, <1>2, PostingTyped
<1>4. {open, filled, reopened} \subseteq SUBSET existing
  BY <1>1 DEF PopupTypeOK
<1> HIDE DEF S
<1>5. Linked' /\ \A p \in Popups : openChild[p] = NoPopup => openChild'[p] = NoPopup
  BY <1>1, <1>2, <1>4, UnlinkedFits DEF S
<1>6. open' = (open \ S) \cup shown /\ reopened' = (reopened \ S) \cup (shown \cap X)
  BY DEF S
<1>7. PopupTypeOK'
  <2>1. open' \subseteq existing' /\ filled' \subseteq existing' /\ reopened' \subseteq existing'
    BY <1>4, <1>6
  <2>2. /\ popupOwner' \in [Popups -> Popups \cup {NoPopup}]
        /\ openChild' \in [Popups -> Popups \cup {NoPopup}]
    BY <1>5 DEF Linked
  <2> QED
    BY <1>3, <2>1, <2>2 DEF PopupTypeOK
<1>8. Awaited'
  <2>1. \A p \in Range(hiddenPosted') : openChild'[p] = NoPopup
    <3>1. \A p \in S : openChild'[p] = NoPopup
      BY <1>2 DEF Unlinked, S, Linked, Whole, PopupInv
    <3>2. \A p \in Range(hiddenPosted) : p \in Popups /\ openChild[p] = NoPopup
      <4>1. hiddenPosted \in Seq(existing) /\ existing \subseteq Popups
        BY <1>1 DEF PopupTypeOK
      <4> QED
        BY <1>1, <4>1, RangeOfSeq DEF Awaited
    <3> QED
      BY <1>3, <1>5, <3>1, <3>2
  <2>2. Range(hiddenPosted') \cap open' \subseteq reopened'
    BY <1>1, <1>3, <1>6 DEF Awaited
  <2>3. reopened' \subseteq Roots \cap open'
    BY <1>1, <1>6 DEF Awaited
  <2> QED
    BY <2>1, <2>2, <2>3 DEF Awaited, Roots
<1>9. ItemsWhileOpen'
  <2>1. open' \ reopened' \subseteq filled'
    BY <1>1, <1>6 DEF ItemsWhileOpen
  <2>2. ASSUME NEW p \in Popups, Kind[p] \in {"dynamic", "suicidal"}, p \in filled' \ open'
        PROVE  p \in Range(hiddenPosted')
    <3>1. CASE p \in filled
      BY <1>1, <1>3, <1>6, <2>2, <3>1 DEF ItemsWhileOpen, Lingers
    <3>2. CASE p \notin filled
      BY <1>3, <1>6, <2>2, <3>2 DEF S
    <3> QED
      BY <3>1, <3>2
  <2> QED
    BY <2>1, <2>2 DEF ItemsWhileOpen, Lingers
<1> QED
  BY <1>5, <1>7, <1>8, <1>9 DEF PopupInv

LEMMA PreShowIs ==
  ASSUME PopupTypeOK, NEW p \in Popups, PreShow(p)
  PROVE  /\ existing \subseteq existing' /\ existing' \subseteq Popups
         /\ filled \subseteq filled' /\ filled' \subseteq existing'
         /\ p \in filled'
         /\ \A q \in filled' \ filled : q = p \/ Kind[q] = "folder"
<1> DEFINE born == (Born(p) \ existing) \cup Brought(p)
<1>1. born \subseteq Popups
  BY DEF Born, Below, Brought, Kids
<1>2. p \in existing \cup born
  BY DEF Born
<1>3. existing \subseteq Popups /\ filled \subseteq existing
  BY DEF PopupTypeOK
<1>4. existing' = existing \cup born /\ filled' = filled \cup {p} \cup Folders(born)
  BY DEF PreShow
<1>5. Folders(born) \subseteq born /\ \A q \in Folders(born) : Kind[q] = "folder"
  BY DEF Folders
<1> HIDE DEF born
<1> QED
  BY <1>1, <1>2, <1>3, <1>4, <1>5

LEMMA ActivatedTyped ==
  ASSUME NEW w, NEW S, NEW v \in Activated(w, S)
  PROVE  v \in open \cup {NoPopup, w}
BY DEF Activated

LEMMA ClosePopupsKeeps ==
  ASSUME PopupInv, NEW s, Closing(s), NEW w \in existing \cup {NoPopup},
         NEW m \in existing \cup {NoPopup},
         ClosePopups(s, w, m), UNCHANGED <<existing, filled>>
  PROVE  PopupInv'
<1> DEFINE S == Range(s)
<1>1. /\ CanPost(Len(s))
      /\ open' = open \ S
      /\ popupOwner' = Unlinked(popupOwner, S)
      /\ openChild' = Unlinked(openChild, S)
      /\ mouseOver' = IF m \in S THEN NoPopup ELSE m
      /\ activeWindow' \in Activated(w, S)
      /\ hiddenPosted' = hiddenPosted \o s
      /\ reopened' = reopened \ S
  BY DEF ClosePopups
<1>2. open \subseteq existing /\ filled \subseteq existing /\ existing \subseteq Popups
  BY DEF PopupInv, PopupTypeOK
<1>3. activeWindow' \in existing' \cup {NoPopup} /\ mouseOver' \in existing' \cup {NoPopup}
  BY <1>1, <1>2, ActivatedTyped
<1> HIDE DEF S
<1>4. open' = (open \ S) \cup {} /\ reopened' = (reopened \ S) \cup ({} \cap {}) /\ {} \in SUBSET Roots
  BY <1>1
<1> QED
  BY <1>1, <1>2, <1>3, <1>4, ClosingKeeps DEF S

LEMMA ShowRootKeeps ==
  ASSUME PopupInv, NEW r \in Roots, ShowRoot(r)
  PROVE  PopupInv'
<1> DEFINE s == Yielding(r, mouseOver)
           S == Range(s)
<1>1. /\ CanPost(Len(s)) /\ PreShow(r)
      /\ open' = (open \ S) \cup {r}
      /\ popupOwner' = [Unlinked(popupOwner, S) EXCEPT ![r] = NoPopup]
      /\ openChild' = [q \in Popups |-> IF q = NoPopup THEN r ELSE Unlinked(openChild, S)[q]]
      /\ mouseOver' = IF mouseOver \in S THEN NoPopup ELSE mouseOver
      /\ activeWindow' = r
      /\ hiddenPosted' = hiddenPosted \o s
      /\ reopened' = (reopened \ S) \cup ({r} \cap Range(hiddenPosted))
  BY DEF ShowRoot, ShowPopup
<1>2. PopupTypeOK /\ Linked /\ Awaited
  BY DEF PopupInv
<1>3. r \in Popups /\ Parent[r] = NoPopup /\ {r} \in SUBSET Roots
  BY DEF Roots
<1>4. Closing(s) /\ r \notin S
  BY <1>2, YieldingCloses
<1> HIDE DEF s
<1>5. popupOwner' = Unlinked(popupOwner, S)
  BY <1>1, <1>2, <1>3 DEF Unlinked, Linked
<1>6. openChild' = Unlinked(openChild, S)
  BY <1>1, AboveIs DEF Unlinked
<1>7. /\ existing \subseteq existing' /\ existing' \subseteq Popups
      /\ filled \subseteq filled' /\ filled' \subseteq existing' /\ r \in filled'
      /\ \A q \in filled' \ filled : q = r \/ Kind[q] = "folder"
  BY <1>1, <1>2, <1>3, PreShowIs
<1>8. {mouseOver', activeWindow'} \subseteq existing' \cup {NoPopup}
  BY <1>1, <1>2, <1>7 DEF PopupTypeOK
<1>9. {r} \cap Range(hiddenPosted') \subseteq reopened'
  <2>1. existing \subseteq existing' /\ s \in Seq(open)
    BY <1>4, <1>7 DEF Closing
  <2>2. Range(hiddenPosted') = Range(hiddenPosted) \cup S
    BY <1>1, <1>2, <2>1, PostingTyped
  <2> QED
    BY <1>1, <1>4, <2>2
<1>10. {r} \subseteq filled' /\ \A q \in filled' \ filled : Kind[q] = "folder" \/ q \in {r} \cup S
  BY <1>7
<1>11. CanPost(Len(s)) /\ hiddenPosted' = hiddenPosted \o s
  BY <1>1
<1>12. open' = (open \ S) \cup {r} /\ reopened' = (reopened \ S) \cup ({r} \cap Range(hiddenPosted))
  BY <1>1
<1> DEFINE X == Range(hiddenPosted)
<1> HIDE DEF X
<1>13. reopened' = (reopened \ S) \cup ({r} \cap X)
  BY <1>12 DEF X
<1> QED
  BY <1>3, <1>4, <1>5, <1>6, <1>7, <1>8, <1>9, <1>10, <1>11, <1>12, <1>13, ClosingKeeps

\* Where the mouse is nothing gives way.
LEMMA UnderTheMouse ==
  ASSUME PopupInv, NEW p \in open
  PROVE  /\ Closing(Yielding(p, p)) /\ p \notin Range(Yielding(p, p))
         /\ Closing(Yielding(p, p) \o Downwards(Opened(p)))
         /\ Range(Yielding(p, p) \o Downwards(Opened(p))) = Range(Yielding(p, p)) \cup Opened(p)
         /\ Closing(Yielding(p, p) \o ClosingOrder(p))
         /\ Range(Yielding(p, p) \o ClosingOrder(p)) = Range(Yielding(p, p)) \cup Chain(p)
         /\ p \in Popups /\ p \in existing
<1>1. Linked
  BY DEF PopupInv
<1>2. Closing(Yielding(p, p)) /\ p \notin Range(Yielding(p, p))
  BY <1>1, YieldingCloses
<1>3. Closing(Downwards(Opened(p))) /\ Range(Downwards(Opened(p))) = Opened(p)
  BY <1>1, OpenedCloses
<1>4. Closing(ClosingOrder(p)) /\ Range(ClosingOrder(p)) = Chain(p)
  BY <1>1, ChainCloses
<1>5. p \in Popups /\ p \in existing
  BY DEF PopupInv, PopupTypeOK
<1> HIDE DEF Closing, Yielding, Downwards, ClosingOrder
<1> QED
  BY <1>2, <1>3, <1>4, <1>5, ClosingBoth

LEMMA HoverCommandKeeps ==
  ASSUME PopupInv, NEW p \in Popups, HoverCommand(p)
  PROVE  PopupInv'
<1>1. p \in open /\ UNCHANGED <<existing, filled>>
  BY DEF HoverCommand, MouseCanMove
<1>2. p \in existing
  BY <1>1, UnderTheMouse
<1>3. CASE openChild[p] = NoPopup
  <2>1. mouseOver' = p /\ UNCHANGED <<existing, filled, chainVars>>
    BY <1>1, <1>3 DEF HoverCommand
  <2> QED
    BY <1>2, <2>1 DEF chainVars, PopupInv, PopupTypeOK, Linked, ChainsFit, Awaited,
                      ItemsWhileOpen, Lingers
<1>4. CASE openChild[p] # NoPopup
  <2>1. ClosePopups(Yielding(p, p) \o Downwards(Opened(p)), p, p)
    BY <1>4 DEF HoverCommand
  <2> QED
    BY <1>1, <1>2, <2>1, UnderTheMouse, ClosePopupsKeeps
<1> QED
  BY <1>3, <1>4

LEMMA LeavePopupKeeps ==
  ASSUME PopupInv, LeavePopup
  PROVE  PopupInv'
BY DEF LeavePopup, chainVars, PopupInv, PopupTypeOK, Linked, ChainsFit, Awaited,
       ItemsWhileOpen, Lingers

LEMMA ClickKeeps ==
  ASSUME PopupInv, NEW p \in Popups, Click(p)
  PROVE  PopupInv'
<1>1. p \in open /\ ClosePopups(Yielding(p, p), p, p) /\ UNCHANGED <<existing, filled>>
  BY DEF Click, MouseCanMove
<1> QED
  BY <1>1, UnderTheMouse, ClosePopupsKeeps

LEMMA ExecuteKeeps ==
  ASSUME PopupInv, NEW p \in Popups, Execute(p)
  PROVE  PopupInv'
<1>1. /\ p \in open /\ UNCHANGED <<existing, filled>>
      /\ ClosePopups(Yielding(p, p) \o ClosingOrder(p), p, p)
  BY DEF Execute, MouseCanMove
<1> QED
  BY <1>1, UnderTheMouse, ClosePopupsKeeps

LEMMA LoseFocusKeeps ==
  ASSUME PopupInv, LoseFocus
  PROVE  PopupInv'
<1>1. ClosePopups(Yielding(NoPopup, mouseOver), NoPopup, mouseOver) /\ UNCHANGED <<existing, filled>>
  BY DEF LoseFocus
<1>2. Closing(Yielding(NoPopup, mouseOver))
  BY YieldingCloses DEF PopupInv
<1>3. mouseOver \in existing \cup {NoPopup}
  BY DEF PopupInv, PopupTypeOK
<1> QED
  BY <1>1, <1>2, <1>3, ClosePopupsKeeps

LEMMA ExecuteBangKeeps ==
  ASSUME PopupInv, NEW p \in Popups, NEW r \in Roots, ExecuteBang(p, r)
  PROVE  PopupInv'
<1> DEFINE yielding == Yielding(p, p)
           chain == ClosingOrder(p)
           s == yielding \o chain
           S == Range(s)
           shown == {r} \ Range(chain)
<1>1. /\ p \in open /\ hiddenPosted = <<>> /\ PreShow(r)
      /\ CanPost(Len(s))
      /\ open' = (open \ S) \cup shown
      /\ popupOwner' = Unlinked(popupOwner, S)
      /\ openChild' = Unlinked(openChild, S)
      /\ mouseOver' = NoPopup
      /\ activeWindow' \in IF shown = {} THEN Activated(r, S) ELSE {r}
      /\ hiddenPosted' = hiddenPosted \o s
      /\ reopened' = (reopened \ S) \cup (shown \cap Range(yielding))
  BY DEF ExecuteBang, MouseCanMove
<1>2. PopupTypeOK /\ Linked
  BY DEF PopupInv
<1>3. Closing(s) /\ S = Range(yielding) \cup Chain(p) /\ Range(chain) = Chain(p)
  BY <1>1, <1>2, UnderTheMouse, ChainCloses
<1>4. r \in Popups /\ shown \in SUBSET Roots /\ shown \subseteq {r}
  BY DEF Roots
<1>5. r \in shown \cup S
  BY <1>3
<1>6. shown \cap S \subseteq Range(yielding)
  BY <1>3
<1> HIDE DEF s, shown, yielding
<1>7. /\ existing \subseteq existing' /\ existing' \subseteq Popups
      /\ filled \subseteq filled' /\ filled' \subseteq existing' /\ r \in filled'
      /\ \A q \in filled' \ filled : q = r \/ Kind[q] = "folder"
  BY <1>1, <1>2, <1>4, PreShowIs
<1>8. open \subseteq existing
  BY <1>2 DEF PopupTypeOK
<1>9. activeWindow' \in existing' \cup {NoPopup}
  <2>1. \A v \in Activated(r, S) : v \in open \cup {NoPopup, r}
    BY ActivatedTyped
  <2>2. activeWindow' \in Activated(r, S) \/ activeWindow' = r
    BY <1>1
  <2> QED
    BY <1>7, <1>8, <2>1, <2>2
<1>10. shown \cap Range(hiddenPosted') \subseteq reopened'
  <2>1. s \in Seq(open)
    BY <1>3 DEF Closing
  <2>2. Range(hiddenPosted') = Range(hiddenPosted) \cup S
    BY <1>1, <1>2, <1>7, <2>1, PostingTyped
  <2>3. Range(hiddenPosted) = {}
    BY <1>1, NothingPosted
  <2> HIDE DEF S
  <2> QED
    BY <1>1, <1>6, <2>2, <2>3
<1>11. {mouseOver', activeWindow'} \subseteq existing' \cup {NoPopup}
  BY <1>1, <1>9
<1> QED
  BY <1>1, <1>3, <1>4, <1>5, <1>7, <1>10, <1>11, ClosingKeeps

\* A submenu is opened: what its popup had open has been closed before.
LEMMA OpeningFits ==
  ASSUME Linked, NEW p \in open, NEW c \in Popups, Parent[c] = p, openChild[p] # c,
         NEW S, Whole(S), p \notin S, openChild[p] \in S \cup {NoPopup},
         open \subseteq existing, existing \subseteq existing', c \in existing',
         open' = (open \ S) \cup {c},
         popupOwner' = [Unlinked(popupOwner, S) EXCEPT ![c] = p],
         openChild' = [q \in Popups |-> IF q = p THEN c ELSE Unlinked(openChild, S)[q]]
  PROVE  Linked' /\ c \notin open /\ \A q \in Popups \ {p} : openChild'[q] = Unlinked(openChild, S)[q]
<1>1. p \in Popups /\ p # NoPopup /\ c # p /\ c # NoPopup /\ c \notin Roots
  BY AboveIs DEF Linked, Roots
<1>2. c \notin open
  <2>1. c \in open => popupOwner[c] = p
    BY <1>1 DEF Linked, ChainsFit
  <2> QED
    BY <1>1, <2>1 DEF Linked, ChainsFit
<1>3. c \notin S
  BY <1>2 DEF Whole
<1>4. openChild[c] = NoPopup /\ popupOwner[c] = NoPopup
  BY <1>2, ChildIs, OwnerIs
<1>5. \A q \in Popups :
        /\ popupOwner'[q] = IF q = c THEN p
                            ELSE IF q \in S \/ popupOwner[q] \in S THEN NoPopup ELSE popupOwner[q]
        /\ openChild'[q] = IF q = p THEN c
                           ELSE IF q \in S \/ openChild[q] \in S THEN NoPopup ELSE openChild[q]
  BY DEF Unlinked
<1>6. /\ popupOwner' \in [Popups -> Popups \cup {NoPopup}]
      /\ openChild' \in [Popups -> Popups \cup {NoPopup}]
      /\ open' \subseteq Popups
  BY <1>1 DEF Unlinked, Linked
<1>7. ASSUME NEW q \in Popups, openChild'[q] # NoPopup
      PROVE  /\ {q, openChild'[q]} \subseteq open' \cap existing'
             /\ popupOwner'[openChild'[q]] = q
  <2>1. CASE q = p
    BY <1>5, <2>1
  <2>2. CASE q # p
    <3>1. q \notin S /\ openChild[q] \notin S /\ openChild'[q] = openChild[q] /\ openChild[q] # NoPopup
      BY <1>5, <1>7, <2>2
    <3>2. /\ openChild[q] \in Popups /\ popupOwner[openChild[q]] = q
          /\ {q, openChild[q]} \subseteq open
      BY <3>1, ChildIs
    <3>3. openChild[q] # c
      BY <1>2, <3>2
    <3> QED
      BY <1>5, <3>1, <3>2, <3>3
  <2> QED
    BY <2>1, <2>2
<1>8. ASSUME NEW q \in Popups, popupOwner'[q] # NoPopup
      PROVE  openChild'[popupOwner'[q]] = q
  <2>1. CASE q = c
    BY <1>1, <1>5, <2>1
  <2>2. CASE q # c
    <3>1. q \notin S /\ popupOwner[q] \notin S /\ popupOwner'[q] = popupOwner[q] /\ popupOwner[q] # NoPopup
      BY <1>5, <1>8, <2>2
    <3>2. popupOwner[q] \in Popups /\ openChild[popupOwner[q]] = q /\ q # NoPopup
      BY <3>1, OwnerIs, AboveIs
    <3>3. popupOwner[q] # p
      BY <3>1, <3>2
    <3> QED
      BY <1>5, <3>1, <3>2, <3>3
  <2> QED
    BY <2>1, <2>2
<1>9. ASSUME NEW q \in open' \ Roots
      PROVE  popupOwner'[q] = Parent[q]
  <2>1. CASE q = c
    BY <1>1, <1>5, <2>1
  <2>2. CASE q # c
    <3>1. q \in open /\ q \notin S /\ q \in Popups
      BY <1>9, <2>2 DEF Linked
    <3>2. Parent[q] # NoPopup /\ popupOwner[q] = Parent[q]
      BY <1>9, <3>1 DEF Linked, ChainsFit, Roots
    <3>3. openChild[Parent[q]] = q /\ q # NoPopup
      BY <3>1, <3>2, OwnerIs, AboveIs
    <3>4. Parent[q] \notin S
      BY <3>1, <3>3 DEF Whole
    <3> QED
      BY <1>5, <2>2, <3>1, <3>2, <3>4
  <2> QED
    BY <2>1, <2>2
<1>10. \A q \in Popups : popupOwner'[q] \in {NoPopup, Parent[q]}
  BY <1>5 DEF Linked
<1>11. ChainsFit'
  BY <1>7, <1>8, <1>9 DEF ChainsFit
<1>12. \A q \in Popups \ {p} : openChild'[q] = Unlinked(openChild, S)[q]
  OBVIOUS
<1> QED
  BY <1>2, <1>6, <1>10, <1>11, <1>12 DEF Linked

LEMMA HoverFolderKeeps ==
  ASSUME PopupInv, NEW p \in Popups, NEW c \in Popups, HoverFolder(p, c)
  PROVE  PopupInv'
<1>1. p \in open /\ hiddenPosted = <<>> /\ Parent[c] = p
  BY DEF HoverFolder, MouseCanMove
<1>2. PopupTypeOK /\ Linked /\ Awaited /\ ItemsWhileOpen /\ p \in existing
  BY <1>1, UnderTheMouse DEF PopupInv
<1>3. CASE openChild[p] = c
  <2>1. mouseOver' = p /\ UNCHANGED <<existing, filled, chainVars>>
    BY <1>3 DEF HoverFolder
  <2> QED
    BY <1>2, <2>1 DEF chainVars, PopupInv, PopupTypeOK, Linked, ChainsFit, Awaited,
                      ItemsWhileOpen, Lingers
<1>4. CASE openChild[p] # c
  <2> DEFINE s == Yielding(p, p) \o Downwards(Opened(p))
             S == Range(s)
  <2>1. ShowPopup(c, p, s, p)
    BY <1>4 DEF HoverFolder
  <2>2. Closing(s) /\ S = Range(Yielding(p, p)) \cup Opened(p) /\ p \notin Range(Yielding(p, p))
    BY <1>1, UnderTheMouse
  <2> HIDE DEF s
  <2>3. /\ CanPost(Len(s)) /\ PreShow(c)
        /\ open' = (open \ S) \cup {c}
        /\ popupOwner' = [Unlinked(popupOwner, S) EXCEPT ![c] = p]
        /\ openChild' = [q \in Popups |-> IF q = p THEN c ELSE Unlinked(openChild, S)[q]]
        /\ mouseOver' = IF p \in S THEN NoPopup ELSE p
        /\ activeWindow' = c
        /\ hiddenPosted' = hiddenPosted \o s
        /\ reopened' = (reopened \ S) \cup ({c} \cap Range(hiddenPosted))
    BY <2>1 DEF ShowPopup
  <2>4. /\ existing \subseteq existing' /\ existing' \subseteq Popups
        /\ filled \subseteq filled' /\ filled' \subseteq existing' /\ c \in filled'
        /\ \A q \in filled' \ filled : q = c \/ Kind[q] = "folder"
    BY <1>2, <2>3, PreShowIs
  <2>5. Range(hiddenPosted) = {}
    BY <1>1, NothingPosted
  <2>6. s \in Seq(open) /\ Whole(S) /\ S \subseteq open
    BY <2>2 DEF Closing, Whole
  <2>7. /\ hiddenPosted' \in Seq(existing') /\ Len(hiddenPosted') <= MaxPosted
        /\ Range(hiddenPosted') = S
    BY <1>2, <2>3, <2>4, <2>5, <2>6, PostingTyped
  <2>8. p \notin S /\ openChild[p] \in S \cup {NoPopup}
    BY <1>2, <2>2, OpenedIs
  <2>9. open \subseteq existing /\ filled \subseteq existing /\ reopened \subseteq existing
    BY <1>2 DEF PopupTypeOK
  <2> HIDE DEF S
  <2>10. Linked' /\ c \notin open /\ \A q \in Popups \ {p} : openChild'[q] = Unlinked(openChild, S)[q]
    BY <1>1, <1>2, <1>4, <2>3, <2>4, <2>6, <2>8, <2>9, OpeningFits
  <2>11. reopened' = reopened \ S
    BY <2>3, <2>5
  <2>12. PopupTypeOK'
    <3>1. {mouseOver', activeWindow'} \subseteq existing' \cup {NoPopup}
      BY <1>2, <2>3, <2>4
    <3>2. open' \subseteq existing' /\ reopened' \subseteq existing' /\ filled' \subseteq existing'
      BY <2>3, <2>4, <2>9, <2>11
    <3>3. /\ popupOwner' \in [Popups -> Popups \cup {NoPopup}]
          /\ openChild' \in [Popups -> Popups \cup {NoPopup}]
      BY <2>10 DEF Linked
    <3> QED
      BY <2>4, <2>7, <3>1, <3>2, <3>3 DEF PopupTypeOK
  <2>13. Awaited'
    <3>1. \A q \in S : openChild'[q] = NoPopup
      <4>1. S \subseteq Popups \ {p}
        BY <1>2, <2>6, <2>8 DEF Linked
      <4>2. \A q \in S : Unlinked(openChild, S)[q] = NoPopup
        BY <4>1 DEF Unlinked
      <4> QED
        BY <2>10, <4>1, <4>2
    <3>2. S \cap open' = {}
      BY <2>3, <2>6, <2>10
    <3>3. reopened' \subseteq Roots \cap open'
      BY <1>2, <2>3, <2>11 DEF Awaited
    <3> QED
      BY <2>7, <3>1, <3>2, <3>3 DEF Awaited, Roots
  <2>14. ItemsWhileOpen'
    <3>1. open' \ reopened' \subseteq filled'
      BY <1>2, <2>3, <2>4, <2>11 DEF ItemsWhileOpen
    <3>2. ASSUME NEW q \in Popups, Kind[q] \in {"dynamic", "suicidal"}, q \in filled' \ open'
          PROVE  q \in Range(hiddenPosted')
      <4>1. q \in filled
        BY <2>3, <2>4, <3>2
      <4> QED
        BY <1>2, <2>3, <2>5, <2>7, <3>2, <4>1 DEF ItemsWhileOpen, Lingers
    <3> QED
      BY <3>1, <3>2 DEF ItemsWhileOpen, Lingers
  <2> QED
    BY <2>10, <2>12, <2>13, <2>14 DEF PopupInv
<1> QED
  BY <1>3, <1>4

----------------------------------------------------------------------------
(* Deletion.                                                                *)

\* What lies below a popup that goes goes with it, and nobody else has a popup
\* open that goes.
LEMMA DeleteKeeps ==
  ASSUME PopupInv, NEW gone \in SUBSET Popups, NEW posted \in Seq(existing),
         Len(posted) <= MaxPosted, Range(posted) \subseteq Range(hiddenPosted),
         \A q \in Popups : Parent[q] \in gone => q \in gone,
         \A q \in Popups \ gone : openChild[q] \notin gone,
         existing \ gone \subseteq existing', existing' \subseteq Popups,
         Delete(gone), hiddenPosted' = Without(posted, gone),
         filled' \subseteq existing'
  PROVE  PopupTypeOK' /\ Linked' /\ Awaited' /\ Range(hiddenPosted') = Range(posted) \ gone
<1>1. /\ open' = open \ gone
      /\ popupOwner' = [p \in Popups |-> IF p \in gone THEN NoPopup ELSE popupOwner[p]]
      /\ openChild' = [p \in Popups |-> IF p \in gone THEN NoPopup ELSE openChild[p]]
      /\ mouseOver' = IF mouseOver \in gone THEN NoPopup ELSE mouseOver
      /\ activeWindow' \in Activated(activeWindow, gone)
      /\ reopened' = reopened \ gone
  BY DEF Delete
<1>2. PopupTypeOK /\ Linked /\ Awaited
  BY DEF PopupInv
<1>3. /\ hiddenPosted' \in Seq(existing \ gone) /\ Len(hiddenPosted') <= Len(posted)
      /\ Range(hiddenPosted') = Range(posted) \ gone
  BY WithoutLists
<1>4. PopupTypeOK'
  <2>1. hiddenPosted' \in Seq(existing') /\ Len(hiddenPosted') <= MaxPosted
    <3>1. hiddenPosted' \in Seq(existing')
      BY <1>3
    <3>2. Len(hiddenPosted') \in Nat /\ Len(posted) \in Nat /\ MaxPosted \in Nat
      BY <1>3, PopupAssumption DEF PopupAssumption
    <3> QED
      BY <1>3, <3>1, <3>2
  <2>2. open' \subseteq existing' /\ reopened' \subseteq existing'
    BY <1>1, <1>2 DEF PopupTypeOK
  <2>3. mouseOver' \in existing' \cup {NoPopup}
    BY <1>1, <1>2 DEF PopupTypeOK
  <2>4. activeWindow' \in existing' \cup {NoPopup}
    BY <1>1, <1>2 DEF PopupTypeOK, Activated
  <2>5. /\ popupOwner' \in [Popups -> Popups \cup {NoPopup}]
        /\ openChild' \in [Popups -> Popups \cup {NoPopup}]
    BY <1>1, <1>2 DEF PopupTypeOK
  <2> QED
    BY <2>1, <2>2, <2>3, <2>4, <2>5 DEF PopupTypeOK
<1>5. Linked'
  <2>1. ASSUME NEW p \in Popups, openChild'[p] # NoPopup
        PROVE  /\ {p, openChild'[p]} \subseteq open' \cap existing'
               /\ popupOwner'[openChild'[p]] = p
    <3>1. p \notin gone /\ openChild'[p] = openChild[p] /\ openChild[p] # NoPopup /\ openChild[p] \notin gone
      BY <1>1, <2>1
    <3>2. /\ openChild[p] \in Popups /\ popupOwner[openChild[p]] = p
          /\ {p, openChild[p]} \subseteq open
      BY <1>2, <3>1, ChildIs
    <3> QED
      BY <1>1, <1>4, <3>1, <3>2 DEF PopupTypeOK
  <2>2. ASSUME NEW p \in Popups, popupOwner'[p] # NoPopup
        PROVE  openChild'[popupOwner'[p]] = p
    <3>1. p \notin gone /\ popupOwner'[p] = popupOwner[p] /\ popupOwner[p] # NoPopup
      BY <1>1, <2>2
    <3>2. Parent[p] \in Popups /\ popupOwner[p] = Parent[p] /\ openChild[Parent[p]] = p
      BY <1>2, <3>1, OwnerIs
    <3>3. Parent[p] \notin gone
      BY <3>1
    <3> QED
      BY <1>1, <3>1, <3>2, <3>3
  <2>3. ASSUME NEW p \in open' \ Roots
        PROVE  popupOwner'[p] = Parent[p]
    <3>1. p \in open \ Roots /\ p \notin gone /\ p \in Popups
      BY <1>1, <1>2, <2>3 DEF Linked
    <3> QED
      BY <1>1, <1>2, <3>1 DEF Linked, ChainsFit
  <2>4. \A p \in Popups : popupOwner'[p] \in {NoPopup, Parent[p]}
    BY <1>1, <1>2 DEF Linked
  <2>5. ChainsFit'
    BY <2>1, <2>2, <2>3 DEF ChainsFit
  <2>6. /\ popupOwner' \in [Popups -> Popups \cup {NoPopup}]
        /\ openChild' \in [Popups -> Popups \cup {NoPopup}]
        /\ open' \subseteq Popups
    BY <1>1, <1>2 DEF Linked
  <2> QED
    BY <2>4, <2>5, <2>6 DEF Linked
<1>6. Awaited'
  <2>1. Range(posted) \subseteq Popups
    BY <1>2, RangeOfSeq DEF PopupTypeOK
  <2>2. \A p \in Range(hiddenPosted') : openChild'[p] = NoPopup
    BY <1>1, <1>2, <1>3, <2>1 DEF Awaited
  <2>3. Range(hiddenPosted') \cap open' \subseteq reopened'
    BY <1>1, <1>2, <1>3 DEF Awaited
  <2>4. reopened' \subseteq Roots \cap open'
    BY <1>1, <1>2 DEF Awaited
  <2> QED
    BY <2>2, <2>3, <2>4 DEF Awaited, Roots
<1> QED
  BY <1>3, <1>4, <1>5, <1>6

LEMMA TailOf ==
  ASSUME NEW T, NEW s \in Seq(T), s # <<>>
  PROVE  /\ Head(s) \in Range(s) /\ Head(s) \in T
         /\ Tail(s) \in Seq(T) /\ Len(Tail(s)) <= Len(s)
         /\ Range(s) = {Head(s)} \cup Range(Tail(s))
<1>1. Len(s) \in Nat /\ Len(s) # 0 /\ DOMAIN s = 1..Len(s) /\ Head(s) = s[1]
  OBVIOUS
<1>2. /\ Head(s) \in T /\ Tail(s) \in Seq(T) /\ Len(Tail(s)) = Len(s) - 1
      /\ \A i \in 1..Len(Tail(s)) : Tail(s)[i] = s[i + 1]
  BY HeadTailProperties
<1>3. DOMAIN Tail(s) = 1..(Len(s) - 1)
  BY <1>1, <1>2
<1> DEFINE n == Len(s)
           h == Head(s)
           t == Tail(s)
<1>4. n \in Nat /\ n # 0 /\ DOMAIN s = 1..n /\ h = s[1] /\ DOMAIN t = 1..(n - 1)
  BY <1>1, <1>3
<1>5. \A i \in 1..(n - 1) : t[i] = s[i + 1]
  BY <1>2, <1>3
<1> HIDE DEF n, h, t
<1>6. 1 \in 1..n
  BY <1>4
<1>7. h \in Range(s)
  BY <1>4, <1>6 DEF Range
<1>8. Range(t) \subseteq Range(s)
  <2>1. \A i \in 1..(n - 1) : i + 1 \in 1..n
    BY <1>4
  <2> QED
    BY <1>4, <1>5, <2>1 DEF Range
<1>9. Range(s) \subseteq {h} \cup Range(t)
  <2>1. SUFFICES ASSUME NEW i \in 1..n PROVE s[i] \in {h} \cup Range(t)
    BY <1>4 DEF Range
  <2>2. CASE i = 1
    BY <1>4, <2>2
  <2>3. CASE i # 1
    <3>1. i - 1 \in 1..(n - 1) /\ (i - 1) + 1 = i
      BY <1>4, <2>3
    <3>2. t[i - 1] = s[i]
      BY <1>5, <3>1
    <3> QED
      BY <1>4, <3>1, <3>2 DEF Range
  <2> QED
    BY <2>2, <2>3
<1> QED
  BY <1>1, <1>2, <1>7, <1>8, <1>9 DEF h, t

\* What is below a popup, with it or without it, goes as a whole.
LEMMA BelowIs ==
  ASSUME NEW p \in Popups, NEW q \in Popups, Parent[q] \in {p} \cup Below(p)
  PROVE  q \in Below(p)
<1>1. Parent[q] \in Popups /\ Parent[q] # NoPopup
  BY AboveIs DEF Below
<1>2. Above[q] = {Parent[q]} \cup Above[Parent[q]]
  BY <1>1, AboveIs
<1> QED
  BY <1>1, <1>2 DEF Below

LEMMA OpensIntoBelow ==
  ASSUME Linked, NEW p \in Popups, NEW q \in Popups, openChild[q] \in Below(p)
  PROVE  q \in {p} \cup Below(p)
<1>1. openChild[q] \in Popups /\ p \in Above[openChild[q]] /\ openChild[q] # NoPopup
  BY AboveIs DEF Below
<1>2. Parent[openChild[q]] = q
  BY <1>1, ChildIs
<1>3. Above[openChild[q]] = {q} \cup Above[q]
  BY <1>1, <1>2, AboveIs
<1> QED
  BY <1>1, <1>3 DEF Below

LEMMA HiddenKeeps ==
  ASSUME PopupInv, Hidden
  PROVE  PopupInv'
<1> DEFINE p == Head(hiddenPosted)
           gone == CASE Kind[p] = "dynamic"  -> Below(p)
                     [] Kind[p] = "suicidal" -> {p} \cup Below(p)
                     [] OTHER                -> {}
           posted == Tail(hiddenPosted)
<1>1. /\ hiddenPosted # <<>>
      /\ Delete(gone)
      /\ hiddenPosted' = Without(posted, gone)
      /\ existing' = existing \ gone
      /\ filled' = filled \ (gone \cup IF Kind[p] = "dynamic" THEN {p} ELSE {})
  BY DEF Hidden
<1>2. PopupTypeOK /\ Linked /\ Awaited /\ ItemsWhileOpen
  BY DEF PopupInv
<1>3. /\ hiddenPosted \in Seq(existing) /\ Len(hiddenPosted) <= MaxPosted
      /\ existing \subseteq Popups /\ filled \subseteq existing
  BY <1>2 DEF PopupTypeOK
<1>4. /\ p \in Range(hiddenPosted) /\ p \in Popups
      /\ posted \in Seq(existing) /\ Len(posted) <= MaxPosted
      /\ Range(hiddenPosted) = {p} \cup Range(posted)
  <2>1. /\ p \in Range(hiddenPosted) /\ p \in existing
        /\ posted \in Seq(existing) /\ Len(posted) <= Len(hiddenPosted)
        /\ Range(hiddenPosted) = {p} \cup Range(posted)
    BY <1>1, <1>3, TailOf
  <2>2. Len(posted) \in Nat /\ Len(hiddenPosted) \in Nat /\ MaxPosted \in Nat
    BY <1>3, <2>1, PopupAssumption DEF PopupAssumption
  <2> HIDE DEF p, posted
  <2> QED
    BY <1>3, <2>1, <2>2
<1>5. /\ Kind[p] = "dynamic" => gone = Below(p)
      /\ Kind[p] = "suicidal" => gone = {p} \cup Below(p)
      /\ Kind[p] \notin {"dynamic", "suicidal"} => gone = {}
      /\ Below(p) \subseteq Popups
  BY DEF Below
<1> HIDE DEF p, gone, posted
<1>6. gone \in SUBSET Popups
  BY <1>4, <1>5
<1>7. \A q \in Popups : Parent[q] \in gone => q \in gone
  BY <1>4, <1>5, BelowIs
<1>8. ASSUME NEW q \in Popups \ gone, openChild[q] \in gone
      PROVE  FALSE
  <2>1. openChild[q] = p \/ openChild[q] \in Below(p)
    BY <1>5, <1>8
  <2>2. openChild[p] = NoPopup /\ p # NoPopup
    BY <1>2, <1>4, AboveIs DEF Awaited
  <2>3. CASE openChild[q] \in Below(p)
    <3>1. q = p
      BY <1>2, <1>4, <1>5, <1>8, <2>3, OpensIntoBelow
    <3>2. NoPopup \notin Popups
      BY PopupAssumption DEF PopupAssumption
    <3> QED
      BY <1>5, <2>2, <2>3, <3>1, <3>2
  <2>4. CASE openChild[q] = p
    <3>1. Parent[p] = q /\ p \in open
      BY <1>2, <2>2, <2>4, ChildIs
    <3>2. p \in Roots
      BY <1>2, <1>4, <3>1 DEF Awaited
    <3> QED
      BY <3>1, <3>2, AboveIs DEF Roots
  <2> QED
    BY <2>1, <2>3, <2>4
<1>9. PopupTypeOK' /\ Linked' /\ Awaited' /\ Range(hiddenPosted') = Range(posted) \ gone
  <2>1. existing \ gone \subseteq existing' /\ existing' \subseteq Popups
    BY <1>1, <1>3
  <2>2. Range(posted) \subseteq Range(hiddenPosted)
    BY <1>4
  <2>3. filled' \subseteq existing'
    BY <1>1, <1>3
  <2> QED
    BY <1>1, <1>4, <1>6, <1>7, <1>8, <2>1, <2>2, <2>3, DeleteKeeps
<1>10. open' = open \ gone /\ reopened' = reopened \ gone
  BY <1>1 DEF Delete
<1>11. ItemsWhileOpen'
  <2>1. open' \ reopened' \subseteq filled'
    <3>1. p \in open => p \in reopened
      BY <1>2, <1>4 DEF Awaited
    <3> QED
      BY <1>1, <1>2, <1>10, <3>1 DEF ItemsWhileOpen
  <2>2. ASSUME NEW q \in Popups, Kind[q] \in {"dynamic", "suicidal"}, q \in filled' \ open'
        PROVE  q \in Range(hiddenPosted')
    <3>1. q \in filled /\ q \notin gone /\ q \notin open /\ q # p
      BY <1>1, <1>5, <1>10, <2>2
    <3>2. q \in Range(hiddenPosted)
      BY <1>2, <2>2, <3>1 DEF ItemsWhileOpen, Lingers
    <3> QED
      BY <1>4, <1>9, <3>1, <3>2
  <2> QED
    BY <2>1, <2>2 DEF ItemsWhileOpen, Lingers
<1> QED
  BY <1>9, <1>11 DEF PopupInv

LEMMA RefreshKeeps ==
  ASSUME PopupInv, Refresh
  PROVE  PopupInv'
<1> DEFINE R == {r \in Roots : Kind[r] # "suicidal"}
           gone == UNION {{r} \cup Below(r) : r \in R}
<1>1. /\ Delete(gone)
      /\ hiddenPosted' = Without(hiddenPosted, gone)
      /\ existing' = (existing \ gone) \cup Rooted
      /\ filled' = (filled \ gone) \cup Folders(Rooted)
  BY DEF Refresh
<1>2. PopupTypeOK /\ Linked /\ Awaited /\ ItemsWhileOpen
  BY DEF PopupInv
<1>3. /\ hiddenPosted \in Seq(existing) /\ Len(hiddenPosted) <= MaxPosted
      /\ existing \subseteq Popups /\ filled \subseteq existing
  BY <1>2 DEF PopupTypeOK
<1>4. R \subseteq Popups /\ \A r \in R : Parent[r] = NoPopup
  BY DEF Roots
<1>5. \A q : q \in gone <=> \E r \in R : q \in {r} \cup Below(r)
  OBVIOUS
<1> HIDE DEF R, gone
<1>6. gone \in SUBSET Popups
  BY <1>4, <1>5 DEF Below
<1>7. \A q \in Popups : Parent[q] \in gone => q \in gone
  BY <1>4, <1>5, BelowIs
<1>8. ASSUME NEW q \in Popups \ gone, openChild[q] \in gone
      PROVE  FALSE
  <2>1. PICK r \in R : openChild[q] \in {r} \cup Below(r)
    BY <1>5, <1>8
  <2>2. r \in Popups /\ openChild[q] \in Popups /\ openChild[q] # NoPopup
    BY <1>4, <1>6, <1>8, AboveIs
  <2>3. Parent[openChild[q]] = q /\ q # NoPopup
    BY <1>2, <2>2, ChildIs, AboveIs
  <2>4. openChild[q] # r
    BY <1>4, <2>3
  <2>5. q \in {r} \cup Below(r)
    BY <1>2, <2>1, <2>2, <2>4, OpensIntoBelow
  <2> QED
    BY <1>5, <1>8, <2>5
<1>9. Rooted \subseteq Popups /\ Folders(Rooted) \subseteq Rooted /\ \A q \in Folders(Rooted) : Kind[q] = "folder"
  BY DEF Rooted, Roots, Born, Below, Folders
<1>10. /\ PopupTypeOK' /\ Linked' /\ Awaited'
       /\ Range(hiddenPosted') = Range(hiddenPosted) \ gone
  <2>1. existing \ gone \subseteq existing' /\ existing' \subseteq Popups /\ filled' \subseteq existing'
    BY <1>1, <1>3, <1>9
  <2> QED
    BY <1>1, <1>3, <1>6, <1>7, <1>8, <2>1, DeleteKeeps
<1>11. open' = open \ gone /\ reopened' = reopened \ gone
  BY <1>1 DEF Delete
<1>12. ItemsWhileOpen'
  <2>1. open' \ reopened' \subseteq filled'
    BY <1>1, <1>2, <1>11 DEF ItemsWhileOpen
  <2>2. ASSUME NEW q \in Popups, Kind[q] \in {"dynamic", "suicidal"}, q \in filled' \ open'
        PROVE  q \in Range(hiddenPosted')
    <3>1. q \in filled /\ q \notin gone /\ q \notin open
      BY <1>1, <1>9, <1>11, <2>2
    <3> QED
      BY <1>2, <1>10, <2>2, <3>1 DEF ItemsWhileOpen, Lingers
  <2> QED
    BY <2>1, <2>2 DEF ItemsWhileOpen, Lingers
<1> QED
  BY <1>10, <1>12 DEF PopupInv

----------------------------------------------------------------------------

LEMMA PopupInvNext == PopupInv /\ [PopupNext]_popupVars => PopupInv'
<1> SUFFICES ASSUME PopupInv, [PopupNext]_popupVars PROVE PopupInv'
  OBVIOUS
<1>1. CASE \E r \in Roots : ShowRoot(r)
  BY <1>1, ShowRootKeeps
<1>2. CASE \E p, c \in Popups : HoverFolder(p, c)
  BY <1>2, HoverFolderKeeps
<1>3. CASE \E p \in Popups : HoverCommand(p) \/ Click(p) \/ Execute(p)
  BY <1>3, HoverCommandKeeps, ClickKeeps, ExecuteKeeps
<1>4. CASE \E p \in Popups, r \in Roots : ExecuteBang(p, r)
  BY <1>4, ExecuteBangKeeps
<1>5. CASE LeavePopup
  BY <1>5, LeavePopupKeeps
<1>6. CASE LoseFocus
  BY <1>6, LoseFocusKeeps
<1>7. CASE Hidden
  BY <1>7, HiddenKeeps
<1>8. CASE Refresh
  BY <1>8, RefreshKeeps
<1>9. CASE UNCHANGED popupVars
  BY <1>9 DEF popupVars, chainVars, PopupInv, PopupTypeOK, Linked, ChainsFit, Awaited,
              ItemsWhileOpen, Lingers
<1> QED
  BY <1>1, <1>2, <1>3, <1>4, <1>5, <1>6, <1>7, <1>8, <1>9 DEF PopupNext

LEMMA PopupInvAlways == PopupSpec => []PopupInv
BY PopupInvInit, PopupInvNext, PTL DEF PopupSpec

\* Popups, messages and pointers stay within their types, whatever the menus: no
\* pointer, no message and no mark names a popup that was deleted.
THEOREM PopupTypeCorrect == PopupSpec => []PopupTypeOK
<1>1. PopupInv => PopupTypeOK
  BY DEF PopupInv
<1> QED
  BY <1>1, PopupInvAlways, PTL

\* The chains fit at all times, for every forest of menus: whatever is opened,
\* closed or deleted (Popup::OpenChild, CloseChild, Close, PostClose, ~Popup).
THEOREM ChainsAlwaysFit == PopupSpec => []ChainsFit
<1>1. PopupInv => ChainsFit
  BY DEF PopupInv, Linked
<1> QED
  BY <1>1, PopupInvAlways, PTL

\* A menu has its items while it is open and gives them back afterwards, for
\* every forest of menus and with any number of WM_HIDDEN on their way.
THEOREM MenusHaveTheirItems == PopupSpec => []ItemsWhileOpen
<1>1. PopupInv => ItemsWhileOpen
  BY DEF PopupInv
<1> QED
  BY <1>1, PopupInvAlways, PTL
=============================================================================
