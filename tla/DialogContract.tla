---------------------------- MODULE DialogContract ----------------------------
(***************************************************************************)
(* What publish_to_cloud promises the loop around it, in run_cloud_job,    *)
(* for each of its calls: its dialog ends well only when iSpring says that *)
(* the deck has been sent; the folder is said to be missing, which makes   *)
(* the loop try again, only before anything was sent; and any other error  *)
(* leaves open whether the deck arrives, even later.  PublishDialog is     *)
(* shown to implement it; in CloudJob it is PickProject and Upload.        *)
(***************************************************************************)

VARIABLES phase,   \* "pick", "send", or how the call ended
          arrived  \* iSpring has sent the deck of this call to the cloud

vars == <<phase, arrived>>

Init == phase = "pick" /\ arrived = FALSE

Press == phase = "pick" /\ phase' = "send" /\ UNCHANGED arrived

Arrive ==
  /\ phase \in {"send", "failed"} /\ ~arrived
  /\ arrived' = TRUE
  /\ UNCHANGED phase

Return == phase = "send" /\ arrived /\ phase' = "uploaded" /\ UNCHANGED arrived

Miss == phase = "pick" /\ phase' = "missing" /\ UNCHANGED arrived

Fail == phase \in {"pick", "send"} /\ phase' = "failed" /\ UNCHANGED arrived

CallAgain ==
  /\ phase \in {"uploaded", "missing", "failed"}
  /\ phase' = "pick" /\ arrived' = FALSE

Next == Press \/ Arrive \/ Return \/ Miss \/ Fail \/ CallAgain

Spec == Init /\ [][Next]_vars
===============================================================================
