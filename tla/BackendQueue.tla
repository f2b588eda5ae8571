----------------------------- MODULE BackendQueue -----------------------------
(***************************************************************************)
(* The PHP queues the worker talks to, and the network in between.  The    *)
(* code behind /next and /result is not in the repository: it is modelled  *)
(* from what api_client/jobs.py and the README's route table rely on.      *)
(*                                                                         *)
(* Every server numbers its own rows, so the same job_id exists on several *)
(* servers.  A request the client gave up on may still be served later:    *)
(* that is what lateGets and latePosts hold.                               *)
(***************************************************************************)
EXTENDS Naturals, Sequences

CONSTANTS Shared,       \* Settings.backend_base_url
          PrivateUrls,  \* Settings.private_base_urls, in the order they are polled
          JobId,        \* values of ppt_ispring_queue.id, on any server
          Requeues,     \* bound on ops' POST /retry calls
          LateBound     \* bound on the abandoned requests of one kind a server holds

Private == {PrivateUrls[i] : i \in 1..Len(PrivateUrls)}
Server == Private \cup {Shared}
Row == Server \X JobId
Verdict == {2, 3}                    \* the status of a POST /result

ASSUME QueueAssumption ==
  /\ PrivateUrls \in Seq(Private)
  /\ Shared \notin Private
  /\ Requeues \in Nat
  /\ LateBound \in Nat

VARIABLES row,        \* the status column of every queue row
          lateGets,   \* GETs the client abandoned that the server still holds
          latePosts,  \* likewise for POSTs, with the row and the status they carry
          requeued    \* how many rows ops have requeued

queueVars == <<row, lateGets, latePosts, requeued>>
networkVars == <<lateGets, latePosts, requeued>>

\* "none": no such row yet.  Then 0, 1, 2 and 3 of the status column.
RowStatus == {"none", "queued", "open", "done", "failed"}

QueueTypeOK ==
  /\ row \in [Row -> RowStatus]
  /\ lateGets \in [Server -> Nat]
  /\ latePosts \in [Row \X Verdict -> Nat]
  /\ requeued \in 0..Requeues

QueueInit ==
  /\ row \in [Row -> {"none", "queued"}]
  /\ lateGets = [s \in Server |-> 0]
  /\ latePosts = [p \in Row \X Verdict |-> 0]
  /\ requeued = 0

-----------------------------------------------------------------------------
Queued(s) == {r \in Row : r[1] = s /\ row[r] = "queued"}

\* PHP marks the row in progress as it hands it over.
HandOver(r) == row' = [row EXCEPT ![r] = "open"]

\* What a GET does on the server whose answer the client cannot use.
UnseenGet(s) ==
  \/ UNCHANGED row
  \/ \E r \in Queued(s) : HandOver(r)

Closed(status) == IF status = 2 THEN "done" ELSE "failed"

\* A result closes an open row.  Whether PHP also overwrites the status of a row
\* that is no longer open is not known from this repository: both are allowed.
ApplyResult(r, status) ==
  \/ /\ row[r] # "none"
     /\ row' = [row EXCEPT ![r] = Closed(status)]
  \/ /\ row[r] # "open"
     /\ UNCHANGED row

\* A teacher uploads a deck.
Enqueue(r) ==
  /\ row[r] = "none"
  /\ row' = [row EXCEPT ![r] = "queued"]
  /\ UNCHANGED networkVars

\* Ops: POST /retry puts a failed row back.
Requeue(r) ==
  /\ row[r] = "failed"
  /\ requeued < Requeues
  /\ row' = [row EXCEPT ![r] = "queued"]
  /\ requeued' = requeued + 1
  /\ UNCHANGED <<lateGets, latePosts>>

\* The client gives up on a request that the server will still serve.
AbandonGet(s) ==
  /\ lateGets[s] < LateBound
  /\ lateGets' = [lateGets EXCEPT ![s] = @ + 1]
  /\ UNCHANGED row

AbandonPost(r, status) ==
  /\ latePosts[<<r, status>>] < LateBound
  /\ latePosts' = [latePosts EXCEPT ![<<r, status>>] = @ + 1]
  /\ UNCHANGED row

LateGetServed(s) ==
  /\ lateGets[s] > 0
  /\ lateGets' = [lateGets EXCEPT ![s] = @ - 1]
  /\ UnseenGet(s)
  /\ UNCHANGED <<latePosts, requeued>>

LatePostServed(r, status) ==
  /\ latePosts[<<r, status>>] > 0
  /\ latePosts' = [latePosts EXCEPT ![<<r, status>>] = @ - 1]
  /\ ApplyResult(r, status)
  /\ UNCHANGED <<lateGets, requeued>>

QueueNext ==
  \/ \E r \in Row : Enqueue(r) \/ Requeue(r)
  \/ \E s \in Server : LateGetServed(s)
  \/ \E r \in Row, status \in Verdict : LatePostServed(r, status)
=============================================================================
