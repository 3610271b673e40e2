-------------------------- MODULE FileSystemLoader --------------------------
(***************************************************************************)
(* The asynchronous file system loader of nCore                            *)
(* (src/nCore/FileSystemLoader.cpp).                                       *)
(*                                                                         *)
(* A client asks for the contents of a folder or for one item of it and    *)
(* hands over a response handler.  Every request gets a detached worker    *)
(* thread.  The worker shares one thing with the user interface thread: a  *)
(* heap-allocated abort flag, which CancelLoad sets and which the worker   *)
(* deletes on its way out.  A worker that was not cancelled in time sends  *)
(* its response to nCore's window with SendMessage, i.e. it blocks until   *)
(* the user interface thread has looked the request up and called its      *)
(* handler.                                                                *)
(*                                                                         *)
(* LoadFolder, LoadFolderItem, CancelLoad and Answer run on the user       *)
(* interface thread; the other actions are the steps of a worker.          *)
(***************************************************************************)
EXTENDS Naturals

CONSTANTS
  Items,        \* the items a folder can hold
  Handlers,     \* the response handlers, i.e. the clients of the loader
  NoHandler,    \* a request that is not in sOutstandingRequests
  Unreadable,   \* the items whose parsing name the shell cannot tell
  MaxRequests   \* bound: how many requests are ever issued

ASSUME LoaderAssumption ==
  /\ MaxRequests \in Nat
  /\ Unreadable \subseteq Items
  /\ NoHandler \notin Handlers

VARIABLES
  sNextRequestId,       \* the id of the newest request
  sOutstandingRequests, \* id -> handler, NoHandler if the id is not a key
  abort,                \* id -> the abort flag the worker and the map share
  thread,               \* id -> the worker of the request
  answered,             \* history: the requests whose handler was called
  cancelled             \* history: the requests CancelLoad was called for

loaderVars == <<sNextRequestId, sOutstandingRequests, abort, thread,
                answered, cancelled>>

Ids == 1..MaxRequests

\* What a worker is doing.  "loading" covers the enumeration loop of a folder
\* and the thumbnail of an item; "loaded" is the read of the abort flag after
\* it; "sending" is blocked in SendMessage; "leaving" is about to delete the
\* flag.
ThreadState ==
  [pc    : {"none", "started", "loading", "loaded", "sending", "leaving", "done"},
   kind  : {"none", "folder", "item"},
   skip  : SUBSET Items,   \* request.blackList
   todo  : SUBSET Items,   \* what the enumeration has yet to hand out
   items : SUBSET Items]   \* the response so far

NoThread == [pc |-> "none", kind |-> "none", skip |-> {}, todo |-> {}, items |-> {}]

LoaderInit ==
  /\ sNextRequestId = 0
  /\ sOutstandingRequests = [id \in Ids |-> NoHandler]
  /\ abort = [id \in Ids |-> "none"]
  /\ thread = [id \in Ids |-> NoThread]
  /\ answered = {}
  /\ cancelled = {}

Outstanding == {id \in Ids : sOutstandingRequests[id] # NoHandler}

----------------------------------------------------------------------------
(* The user interface thread: requests, cancellation and answers.           *)

\* (mutant) The id of every request is the same.
Issue_ReusesId(handler, worker) ==
  LET id == 1
  IN  /\ sNextRequestId < MaxRequests
      /\ sNextRequestId' = sNextRequestId + 1
      /\ sOutstandingRequests' = [sOutstandingRequests EXCEPT ![id] = handler]
      /\ abort' = [abort EXCEPT ![id] = "clear"]
      /\ thread' = [thread EXCEPT ![id] = worker]
      /\ UNCHANGED <<answered, cancelled>>

\* A new request: its id, its entry, its abort flag and its worker.
Issue(handler, worker) ==
  LET id == sNextRequestId + 1
  IN  /\ sNextRequestId < MaxRequests
      /\ sNextRequestId' = id
      /\ sOutstandingRequests' = [sOutstandingRequests EXCEPT ![id] = handler]
      /\ abort' = [abort EXCEPT ![id] = "clear"]
      /\ thread' = [thread EXCEPT ![id] = worker]
      /\ UNCHANGED <<answered, cancelled>>

\* A request for everything in a folder but the black-listed names.
LoadFolder(handler, blackList) ==
  Issue(handler, [pc |-> "started", kind |-> "folder", skip |-> blackList,
                  todo |-> {}, items |-> {}])

\* A request for a single item: nothing to enumerate, the response is the item.
LoadFolderItem(handler, item) ==
  Issue(handler, [pc |-> "loading", kind |-> "item", skip |-> {},
                  todo |-> {}, items |-> {item}])

\* (mutant) Cancelling sets the flag but leaves the request in the map.
CancelLoad_KeepsEntry(id) ==
  /\ id \in Outstanding
  /\ abort' = [abort EXCEPT ![id] = "set"]
  /\ cancelled' = cancelled \cup {id}
  /\ UNCHANGED <<sOutstandingRequests, sNextRequestId, thread, answered>>

\* The ASSERT of CancelLoad is its guard: the request has to be in the map.
CancelLoad(id) ==
  /\ id \in Outstanding
  /\ abort' = [abort EXCEPT ![id] = "set"]
  /\ sOutstandingRequests' = [sOutstandingRequests EXCEPT ![id] = NoHandler]
  /\ cancelled' = cancelled \cup {id}
  /\ UNCHANGED <<sNextRequestId, thread, answered>>

\* nCore's window procedure receives the response of a worker, calls the handler
\* if the request is still in the map, and thereby unblocks the worker.  The
\* request stays in the map.
Answer(id) ==
  /\ thread[id].pc = "sending"
  /\ thread' = [thread EXCEPT ![id].pc = "leaving"]
  /\ answered' = IF id \in Outstanding THEN answered \cup {id} ELSE answered
  /\ UNCHANGED <<sNextRequestId, sOutstandingRequests, abort, cancelled>>

----------------------------------------------------------------------------
(* The worker threads.                                                      *)

WorkerOnly == UNCHANGED <<sNextRequestId, sOutstandingRequests, answered, cancelled>>

\* EnumObjects: the shell hands out a listing, an empty one if the call fails.
EnumObjects(id, listing) ==
  /\ thread[id].pc = "started"
  /\ thread' = [thread EXCEPT ![id].pc = "loading", ![id].todo = listing]
  /\ UNCHANGED abort
  /\ WorkerOnly

\* One round of the enumeration loop; an item whose name cannot be told and a
\* black-listed one are left out of the response.
LoadNextItem(id) ==
  /\ thread[id].pc = "loading"
  /\ abort[id] = "clear"
  /\ \E item \in thread[id].todo :
       thread' = [thread EXCEPT
                    ![id].todo = @ \ {item},
                    ![id].items = @ \cup ({item} \ (thread[id].skip \cup Unreadable))]
  /\ UNCHANGED abort
  /\ WorkerOnly

\* (mutant) The loop is left at the end of the listing only.
FinishLoading_IgnoresAbort(id) ==
  /\ thread[id].pc = "loading"
  /\ thread[id].todo = {}
  /\ thread' = [thread EXCEPT ![id].pc = "loaded"]
  /\ UNCHANGED abort
  /\ WorkerOnly

\* The loop ends when nothing is left or the request was cancelled.
FinishLoading(id) ==
  /\ thread[id].pc = "loading"
  /\ thread[id].todo = {} \/ abort[id] = "set"
  /\ thread' = [thread EXCEPT ![id].pc = "loaded"]
  /\ UNCHANGED abort
  /\ WorkerOnly

\* (mutant) The worker deletes the flag before it sends its response.
CheckAbort_DeletesEarly(id) ==
  /\ thread[id].pc = "loaded"
  /\ thread' = [thread EXCEPT ![id].pc = IF abort[id] = "clear" THEN "sending" ELSE "leaving"]
  /\ abort' = [abort EXCEPT ![id] = "deleted"]
  /\ WorkerOnly

\* (mutant) The flag is not read again once the loop is left.
CheckAbort_SendsAlways(id) ==
  /\ thread[id].pc = "loaded"
  /\ thread' = [thread EXCEPT ![id].pc = "sending"]
  /\ UNCHANGED abort
  /\ WorkerOnly

\* The flag is read once more; only a request not yet cancelled is sent.
CheckAbort(id) ==
  /\ thread[id].pc = "loaded"
  /\ thread' = [thread EXCEPT ![id].pc = IF abort[id] = "clear" THEN "sending" ELSE "leaving"]
  /\ UNCHANGED abort
  /\ WorkerOnly

DeleteAbort(id) ==
  /\ thread[id].pc = "leaving"
  /\ thread' = [thread EXCEPT ![id].pc = "done"]
  /\ abort' = [abort EXCEPT ![id] = "deleted"]
  /\ WorkerOnly

\* A step of worker id that needs nothing from outside the loader.
WorkerStep(id) ==
  \/ LoadNextItem(id)
  \/ FinishLoading(id)
  \/ CheckAbort(id)
  \/ DeleteAbort(id)

----------------------------------------------------------------------------
(* The loader among clients that cancel a request only while they wait for   *)
(* its answer.                                                              *)

LoaderNext ==
  \/ \E handler \in Handlers, blackList \in SUBSET Items : LoadFolder(handler, blackList)
  \/ \E handler \in Handlers, item \in Items : LoadFolderItem(handler, item)
  \/ \E id \in Ids : id \notin answered /\ CancelLoad(id)
  \/ \E id \in Ids, listing \in SUBSET Items : EnumObjects(id, listing)
  \/ \E id \in Ids : Answer(id)
  \/ \E id \in Ids : WorkerStep(id)

LoaderSpec == LoaderInit /\ [][LoaderNext]_loaderVars

\* A worker is a running thread, and nCore's message loop dispatches what is sent
\* to it: both make progress whenever they can.  Nothing obliges a client to
\* issue or to cancel a request.
LoaderFairness ==
  \A id \in Ids :
    /\ WF_loaderVars(\E listing \in SUBSET Items : EnumObjects(id, listing))
    /\ WF_loaderVars(WorkerStep(id))
    /\ WF_loaderVars(Answer(id))

FairLoaderSpec == LoaderSpec /\ LoaderFairness

----------------------------------------------------------------------------
(* Properties.                                                              *)

LoaderTypeOK ==
  /\ sNextRequestId \in 0..MaxRequests
  /\ sOutstandingRequests \in [Ids -> Handlers \cup {NoHandler}]
  /\ abort \in [Ids -> {"none", "clear", "set", "deleted"}]
  /\ thread \in [Ids -> ThreadState]
  /\ answered \subseteq Ids
  /\ cancelled \subseteq Ids

\* The abort flag outlives every use the loader makes of it: while a request waits
\* for its answer, CancelLoad writes a flag that still exists, and while the
\* worker still reads it, it exists too (CancelLoad line 275, the threads' reads
\* and deletes of *abort).
FlagOutlivesRequest ==
  \A id \in Ids :
    /\ id \in Outstanding /\ id \notin answered => abort[id] = "clear"
    /\ thread[id].pc \in {"started", "loading", "loaded"} => abort[id] \in {"clear", "set"}

\* A response that reaches a handler is complete: the enumeration that the abort
\* flag cuts short is never delivered, however the cancellation interleaves with
\* the worker's two reads of the flag.
CompleteWhenSent ==
  \A id \in Ids : thread[id].pc = "sending" => thread[id].todo = {}

\* The handler of a cancelled request is never called, not even when the
\* cancellation overtakes a response that is already on its way.
CancelledNeverAnswered == answered \cap cancelled = {}

\* Every request is answered or cancelled in the end, and its worker leaves.
RequestsEnd ==
  \A id \in Ids :
    thread[id].pc # "none" ~> (thread[id].pc = "done" /\ id \in answered \cup cancelled)

\* What the loader promises, seen from its clients: each request is resolved once.
StatusOf(id) ==
  CASE id \in cancelled -> "cancelled"
    [] id \in answered \ cancelled -> "answered"
    [] id \notin answered \cup cancelled /\ id <= sNextRequestId -> "waiting"
    [] OTHER -> "unused"

Promise == INSTANCE RequestPromise WITH status <- [id \in Ids |-> StatusOf(id)]

\* The loader implements that promise, its liveness included.
ImplementsPromise == Promise!Spec
=============================================================================
