----------------------- MODULE FileSystemLoaderProofs -----------------------
(***************************************************************************)
(* What FileSystemLoader guarantees for every set of items and clients and *)
(* every number of requests.                                               *)
(***************************************************************************)
EXTENDS FileSystemLoader, TLAPS

\* The life of one request, as the worker, the map and the flag agree on it.
RequestInv(id) ==
  /\ id > sNextRequestId => /\ thread[id].pc = "none"
                            /\ id \notin Outstanding \cup answered \cup cancelled
  /\ id <= sNextRequestId => thread[id].pc # "none"
  /\ id \in Outstanding /\ id \notin answered =>
       /\ abort[id] = "clear"
       /\ thread[id].pc \notin {"leaving", "done"}
  /\ thread[id].pc \in {"started", "loading", "loaded", "sending"} =>
       /\ abort[id] \in {"clear", "set"}
       /\ id \notin answered
  /\ thread[id].pc = "loaded" /\ abort[id] = "clear" => thread[id].todo = {}
  /\ thread[id].pc = "sending" => thread[id].todo = {}
  /\ id \in cancelled => id \notin Outstanding /\ id \notin answered

LoaderInv == LoaderTypeOK /\ \A id \in Ids : RequestInv(id)

USE LoaderAssumption

LEMMA InitInv == LoaderInit => LoaderInv
  BY DEF LoaderInit, LoaderInv, LoaderTypeOK, RequestInv, Outstanding, ThreadState,
         NoThread, Ids

\* Every action of the loader keeps the invariant; the clients' discipline is the
\* premise of the case of CancelLoad.
LEMMA IssueInv ==
  ASSUME LoaderInv, NEW handler \in Handlers, NEW worker \in ThreadState,
         worker.pc \in {"started", "loading"}, worker.todo = {},
         Issue(handler, worker)
  PROVE  LoaderInv'
  BY DEF LoaderInv, LoaderTypeOK, RequestInv, Outstanding, ThreadState, Issue, Ids

LEMMA CancelInv ==
  ASSUME LoaderInv, NEW id \in Ids, id \notin answered, CancelLoad(id)
  PROVE  LoaderInv'
  BY DEF LoaderInv, LoaderTypeOK, RequestInv, Outstanding, CancelLoad, Ids

\* A worker that moves on keeps its response and its listing.
LEMMA MoveOn ==
  ASSUME LoaderTypeOK, NEW id \in Ids,
         NEW pc \in {"loading", "loaded", "sending", "leaving", "done"},
         thread' = [thread EXCEPT ![id].pc = pc]
  PROVE  /\ thread' \in [Ids -> ThreadState]
         /\ thread'[id].pc = pc
         /\ thread'[id].todo = thread[id].todo
         /\ \A other \in Ids \ {id} : thread'[other] = thread[other]
  BY DEF LoaderTypeOK, ThreadState

LEMMA AnswerInv ==
  ASSUME LoaderInv, NEW id \in Ids, Answer(id)
  PROVE  LoaderInv'
  <1> USE DEF LoaderInv
  <1>1. LoaderTypeOK' BY MoveOn DEF Answer, LoaderTypeOK
  <1>2. ASSUME NEW other \in Ids PROVE RequestInv(other)'
    <2>1. CASE other = id BY <2>1, MoveOn DEF Answer, RequestInv, Outstanding, LoaderTypeOK, Ids
    <2>2. CASE other # id BY <2>2, MoveOn DEF Answer, RequestInv, Outstanding
    <2> QED BY <2>1, <2>2
  <1> QED BY <1>1, <1>2

LEMMA EnumInv ==
  ASSUME LoaderInv, NEW id \in Ids, NEW listing \in SUBSET Items, EnumObjects(id, listing)
  PROVE  LoaderInv'
  <1> USE DEF LoaderInv
  <1>1. /\ thread' \in [Ids -> ThreadState]
        /\ thread'[id].pc = "loading"
        /\ \A other \in Ids \ {id} : thread'[other] = thread[other]
    BY DEF EnumObjects, LoaderTypeOK, ThreadState
  <1>2. LoaderTypeOK' BY <1>1 DEF EnumObjects, WorkerOnly, LoaderTypeOK
  <1>3. ASSUME NEW other \in Ids PROVE RequestInv(other)'
    <2>1. CASE other = id
      BY <1>1, <2>1 DEF EnumObjects, WorkerOnly, RequestInv, Outstanding, LoaderTypeOK, Ids
    <2>2. CASE other # id
      BY <1>1, <2>2 DEF EnumObjects, WorkerOnly, RequestInv, Outstanding
    <2> QED BY <2>1, <2>2
  <1> QED BY <1>2, <1>3

LEMMA WorkerInv ==
  ASSUME LoaderInv, NEW id \in Ids, WorkerStep(id)
  PROVE  LoaderInv'
  <1> USE DEF LoaderInv, WorkerOnly
  <1>1. CASE LoadNextItem(id)
    <2>1. /\ thread' \in [Ids -> ThreadState]
          /\ thread'[id].pc = "loading"
          /\ \A other \in Ids \ {id} : thread'[other] = thread[other]
      <3>1. PICK item \in thread[id].todo :
              thread' = [thread EXCEPT
                           ![id].todo = @ \ {item},
                           ![id].items = @ \cup ({item} \ (thread[id].skip \cup Unreadable))]
        BY <1>1 DEF LoadNextItem
      <3>2. /\ thread[id] \in ThreadState
            /\ thread[id].todo \ {item} \subseteq Items
            /\ thread[id].items \cup ({item} \ (thread[id].skip \cup Unreadable)) \subseteq Items
        BY <3>1 DEF LoaderTypeOK, ThreadState
      <3> QED BY <1>1, <3>1, <3>2 DEF LoadNextItem, LoaderTypeOK, ThreadState
    <2>2. LoaderTypeOK' BY <1>1, <2>1 DEF LoadNextItem, LoaderTypeOK
    <2>3. ASSUME NEW other \in Ids PROVE RequestInv(other)'
      BY <1>1, <2>1 DEF LoadNextItem, RequestInv, Outstanding, LoaderTypeOK, Ids
    <2> QED BY <2>2, <2>3
  <1>2. CASE FinishLoading(id)
    <2>1. LoaderTypeOK' BY <1>2, MoveOn DEF FinishLoading, LoaderTypeOK
    <2>2. ASSUME NEW other \in Ids PROVE RequestInv(other)'
      BY <1>2, MoveOn DEF FinishLoading, RequestInv, Outstanding, LoaderTypeOK, Ids
    <2> QED BY <2>1, <2>2
  <1>3. CASE CheckAbort(id)
    <2>1. LoaderTypeOK' BY <1>3, MoveOn DEF CheckAbort, LoaderTypeOK
    <2>2. ASSUME NEW other \in Ids PROVE RequestInv(other)'
      BY <1>3, MoveOn DEF CheckAbort, RequestInv, Outstanding, LoaderTypeOK, Ids
    <2> QED BY <2>1, <2>2
  <1>4. CASE DeleteAbort(id)
    <2>1. LoaderTypeOK' BY <1>4, MoveOn DEF DeleteAbort, LoaderTypeOK
    <2>2. ASSUME NEW other \in Ids PROVE RequestInv(other)'
      BY <1>4, MoveOn DEF DeleteAbort, RequestInv, Outstanding, LoaderTypeOK, Ids
    <2> QED BY <2>1, <2>2
  <1> QED BY <1>1, <1>2, <1>3, <1>4 DEF WorkerStep

LEMMA StepInv == LoaderInv /\ [LoaderNext]_loaderVars => LoaderInv'
  <1> SUFFICES ASSUME LoaderInv, [LoaderNext]_loaderVars
               PROVE  LoaderInv'
    OBVIOUS
  <1>1. ASSUME NEW handler \in Handlers, NEW blackList \in SUBSET Items,
               LoadFolder(handler, blackList)
        PROVE  LoaderInv'
    BY <1>1, IssueInv DEF LoadFolder, ThreadState
  <1>2. ASSUME NEW handler \in Handlers, NEW item \in Items, LoadFolderItem(handler, item)
        PROVE  LoaderInv'
    BY <1>2, IssueInv DEF LoadFolderItem, ThreadState
  <1>3. CASE UNCHANGED loaderVars
    BY <1>3 DEF LoaderInv, LoaderTypeOK, RequestInv, Outstanding, loaderVars
  <1> QED BY <1>1, <1>2, <1>3, CancelInv, AnswerInv, EnumInv, WorkerInv DEF LoaderNext

\* Type correctness of the loader.
THEOREM LoaderTypeCorrect == LoaderSpec => []LoaderTypeOK
  <1>1. LoaderInv => LoaderTypeOK BY DEF LoaderInv
  <1> QED BY <1>1, InitInv, StepInv, PTL DEF LoaderSpec

\* The abort flag exists for as long as the map or the worker uses it, so neither
\* CancelLoad (line 275) nor a worker's read touches a deleted flag.
THEOREM FlagSafety == LoaderSpec => []FlagOutlivesRequest
  <1>1. LoaderInv => FlagOutlivesRequest
    BY DEF LoaderInv, RequestInv, FlagOutlivesRequest
  <1> QED BY <1>1, InitInv, StepInv, PTL DEF LoaderSpec

\* A folder response that is sent is complete.
THEOREM Completeness == LoaderSpec => []CompleteWhenSent
  <1>1. LoaderInv => CompleteWhenSent
    BY DEF LoaderInv, RequestInv, CompleteWhenSent
  <1> QED BY <1>1, InitInv, StepInv, PTL DEF LoaderSpec

\* A cancelled request is never answered.
THEOREM CancelSafety == LoaderSpec => []CancelledNeverAnswered
  <1>1. LoaderInv => CancelledNeverAnswered
    BY DEF LoaderInv, LoaderTypeOK, RequestInv, CancelledNeverAnswered
  <1> QED BY <1>1, InitInv, StepInv, PTL DEF LoaderSpec

LEMMA StatusOfTyped ==
  /\ \A id \in Ids : id \in cancelled => StatusOf(id) = "cancelled"
  /\ \A id \in Ids : id \in answered \ cancelled => StatusOf(id) = "answered"
  /\ \A id \in Ids : id \notin answered \cup cancelled /\ id <= sNextRequestId
                      => StatusOf(id) = "waiting"
  /\ \A id \in Ids : id \notin answered \cup cancelled /\ ~(id <= sNextRequestId)
                      => StatusOf(id) = "unused"
  BY DEF StatusOf

\* Every step of the loader issues a request, resolves a waiting one for good, or
\* is invisible to the clients.
THEOREM RefinesPromise == LoaderSpec => Promise!Safety
  <1> DEFINE status == [id \in Ids |-> StatusOf(id)]
  <1>1. LoaderInit => Promise!Init
    BY StatusOfTyped DEF LoaderInit, Promise!Init, Promise!Requests, Ids
  <1>2. LoaderInv /\ [LoaderNext]_loaderVars => [Promise!Next]_status
    <2> SUFFICES ASSUME LoaderInv, [LoaderNext]_loaderVars
                 PROVE  [Promise!Next]_status
      OBVIOUS
    <2>s. /\ \A id \in Ids : id \in cancelled' => StatusOf(id)' = "cancelled"
          /\ \A id \in Ids : id \in answered' \ cancelled' => StatusOf(id)' = "answered"
          /\ \A id \in Ids : id \notin answered' \cup cancelled' /\ id <= sNextRequestId'
                              => StatusOf(id)' = "waiting"
          /\ \A id \in Ids : id \notin answered' \cup cancelled' /\ ~(id <= sNextRequestId')
                              => StatusOf(id)' = "unused"
      BY DEF StatusOf
    <2>0. ASSUME answered' = answered, cancelled' = cancelled, sNextRequestId' = sNextRequestId
          PROVE  status' = status
      BY <2>0 DEF StatusOf
    <2>1. ASSUME NEW handler, NEW worker, Issue(handler, worker)
          PROVE  Promise!Next
      <3> DEFINE new == sNextRequestId + 1
      <3>1. /\ new \in Ids
            /\ new \notin answered \cup cancelled
            /\ \A id \in Ids : id < new => id <= sNextRequestId
            /\ \A id \in Ids : id # new => (id <= sNextRequestId' <=> id <= sNextRequestId)
        BY <2>1 DEF Issue, LoaderInv, LoaderTypeOK, RequestInv, Ids
      <3>2. /\ status[new] = "unused"
            /\ \A earlier \in 1..(new - 1) : status[earlier] # "unused"
        BY <3>1, StatusOfTyped DEF LoaderInv, LoaderTypeOK, Ids
      <3>3. status' = [status EXCEPT ![new] = "waiting"]
        <4>1. \A id \in Ids : status'[id] = IF id = new THEN "waiting" ELSE status[id]
          BY <3>1, <2>1, <2>s, StatusOfTyped DEF Issue, LoaderInv, LoaderTypeOK, Ids
        <4> QED BY <4>1
      <3> QED BY <3>1, <3>2, <3>3 DEF Promise!Next, Promise!Issue, Promise!Requests, Ids
    <2>2. ASSUME NEW id \in Ids, id \notin answered, CancelLoad(id)
          PROVE  Promise!Next
      <3>1. /\ id \notin cancelled
            /\ id <= sNextRequestId
        BY <2>2 DEF CancelLoad, LoaderInv, LoaderTypeOK, RequestInv, Ids
      <3>2. status[id] = "waiting"
        BY <2>2, <3>1, StatusOfTyped
      <3>3. status' = [status EXCEPT ![id] = "cancelled"]
        <4>1. \A r \in Ids : status'[r] = IF r = id THEN "cancelled" ELSE status[r]
          BY <2>2, <2>s, StatusOfTyped DEF CancelLoad
        <4> QED BY <4>1
      <3> QED BY <3>2, <3>3 DEF Promise!Next, Promise!Resolve, Promise!Requests, Ids
    <2>3. ASSUME NEW id \in Ids, Answer(id)
          PROVE  [Promise!Next]_status
      <3>1. CASE id \notin Outstanding
        BY <2>0, <2>3, <3>1 DEF Answer
      <3>2. CASE id \in Outstanding
        <4>1. /\ id \notin cancelled \cup answered
              /\ id <= sNextRequestId
          BY <2>3, <3>2 DEF Answer, LoaderInv, LoaderTypeOK, RequestInv, Ids
        <4>2. status[id] = "waiting"
          BY <4>1, StatusOfTyped
        <4>3. status' = [status EXCEPT ![id] = "answered"]
          <5>1. \A r \in Ids : status'[r] = IF r = id THEN "answered" ELSE status[r]
            BY <2>3, <2>s, <3>2, <4>1, StatusOfTyped DEF Answer
          <5> QED BY <5>1
        <4> QED BY <4>2, <4>3 DEF Promise!Next, Promise!Resolve, Promise!Requests, Ids
      <3> QED BY <3>1, <3>2
    <2>4. ASSUME NEW id \in Ids, NEW listing \in SUBSET Items, EnumObjects(id, listing)
          PROVE  status' = status
      BY <2>0, <2>4 DEF EnumObjects, WorkerOnly
    <2>5. ASSUME NEW id \in Ids, WorkerStep(id)
          PROVE  status' = status
      BY <2>0, <2>5 DEF WorkerStep, LoadNextItem, FinishLoading, CheckAbort, DeleteAbort, WorkerOnly
    <2>6. CASE UNCHANGED loaderVars
      BY <2>0, <2>6 DEF loaderVars
    <2> QED BY <2>1, <2>2, <2>3, <2>4, <2>5, <2>6 DEF LoaderNext, LoadFolder, LoadFolderItem
  <1> QED BY <1>1, <1>2, InitInv, StepInv, PTL DEF LoaderSpec, Promise!Safety
=============================================================================
