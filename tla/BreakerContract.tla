---------------------------- MODULE BreakerContract ----------------------------
(***************************************************************************)
(* What worker/health.py promises of the whole worker, in the words of its *)
(* own docstring: machine failures in a row are counted, at the limit the  *)
(* worker takes no more work, and only a person puts it back in service.   *)
(* A restart changes nothing.  A clear that falls between the load and the *)
(* end of one save is lost, and no step here.  PollWorker is shown to      *)
(* implement it.                                                           *)
(***************************************************************************)
EXTENDS Naturals

CONSTANT Limit        \* a positive number, as WorkerHealth assumes of its own

VARIABLES working,  \* a job is in hand
          count     \* machine failures in a row

vars == <<working, count>>

Init == working = FALSE /\ count = 0

TakeJob ==
  /\ ~working
  /\ count < Limit
  /\ working' = TRUE
  /\ UNCHANGED count

\* A success, or a failure that is the job's own, starts the count again.
EndWell == working /\ working' = FALSE /\ count' = 0

EndBadly == working /\ working' = FALSE /\ count' = count + 1

\* The process dies with a job in hand: the job counts for nothing, and a clear that its
\* save was about to overwrite stands.
LoseJob == working /\ working' = FALSE /\ count' \in {count, 0}

\* The operator may start the count again at any time.
PutBack == count' = 0 /\ UNCHANGED working

Next == TakeJob \/ EndWell \/ EndBadly \/ LoseJob \/ PutBack

Spec == Init /\ [][Next]_vars
=============================================================================
