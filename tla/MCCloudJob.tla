------------------------------ MODULE MCCloudJob ------------------------------
(* Instances of CloudJob for TLC. *)
EXTENDS CloudJob, TLC
=============================================================================
