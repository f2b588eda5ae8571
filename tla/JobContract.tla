------------------------------ MODULE JobContract ------------------------------
(***************************************************************************)
(* What run_cloud_job promises its caller, CloudPipeline.process: the deck *)
(* is sent at most once; the job returns only a deck that was sent, or     *)
(* raises an error whose stage says where; and what it returned or raised  *)
(* stands while its finally tidies up.  CloudJob is shown to implement it; *)
(* in PollWorker it is the step from "work" to "post".                     *)
(***************************************************************************)
EXTENDS ErrorStages

VARIABLES running, \* run_cloud_job has not come back
          sent,    \* the deck may be in the cloud
          outcome  \* "none" yet, "published", or the error's stage

vars == <<running, sent, outcome>>

Init == running = TRUE /\ sent = FALSE /\ outcome = "none"

Send ==
  /\ running /\ outcome = "none" /\ ~sent
  /\ sent' = TRUE
  /\ UNCHANGED <<running, outcome>>

Return ==
  /\ running /\ outcome = "none" /\ sent
  /\ outcome' = "published"
  /\ UNCHANGED <<running, sent>>

\* Of a deck that may have been sent neither the download nor PowerPoint is blamed;
\* posting the result is the caller's business.
Raise(stage) ==
  /\ running /\ outcome = "none"
  /\ stage # "callback"
  /\ outcome' = stage
  /\ sent' \in {sent, TRUE}
  /\ sent' => stage \notin {"download", "powerpoint"}
  /\ UNCHANGED running

Finish ==
  /\ running /\ outcome # "none"
  /\ running' = FALSE
  /\ UNCHANGED <<sent, outcome>>

Next == Send \/ Return \/ (\E stage \in Stage : Raise(stage)) \/ Finish

Spec == Init /\ [][Next]_vars
================================================================================
