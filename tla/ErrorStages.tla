----------------------------- MODULE ErrorStages -----------------------------
(* What an error says about where it came from: the stage it carries, and   *)
(* which stages worker/health.py takes for the machine's fault.             *)

\* The stages an error of the cloud pipeline carries into record_failure.
Stage == {"download", "powerpoint", "ispring_publish", "callback", "unexpected"}

MachineStages ==
  {"powerpoint", "powerpoint_open", "ispring", "ispring_publish", "worker_health"}
=============================================================================
