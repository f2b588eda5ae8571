----------------------------- MODULE MCPollWorker -----------------------------
(* Instances of PollWorker for TLC. *)
EXTENDS PollWorker, TLC

CONSTANTS shared, p1, p2

NoPrivate == <<>>
OnePrivate == <<p1>>
TwoPrivate == <<p1, p2>>
=============================================================================
