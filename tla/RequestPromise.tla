--------------------------- MODULE RequestPromise ---------------------------
(***************************************************************************)
(* What an asynchronous request of the loader promises its client,         *)
(* whatever the worker threads do: ids are issued in order, and a waiting  *)
(* request is resolved exactly once, by an answer or by its cancellation.  *)
(***************************************************************************)
EXTENDS Naturals

CONSTANT MaxRequests    \* bound: how many requests are ever issued

VARIABLE status         \* id -> how far the request is

Requests == 1..MaxRequests

Init == status = [r \in Requests |-> "unused"]

Issue(r) ==
  /\ status[r] = "unused"
  /\ \A earlier \in 1..(r - 1) : status[earlier] # "unused"
  /\ status' = [status EXCEPT ![r] = "waiting"]

Resolve(r) ==
  /\ status[r] = "waiting"
  /\ \E how \in {"answered", "cancelled"} : status' = [status EXCEPT ![r] = how]

Next == \E r \in Requests : Issue(r) \/ Resolve(r)

\* The part of the promise that is a safety property.
Safety == Init /\ [][Next]_status

Spec == Safety /\ \A r \in Requests : WF_status(Resolve(r))
=============================================================================
