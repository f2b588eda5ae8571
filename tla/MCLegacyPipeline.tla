--------------------------- MODULE MCLegacyPipeline ---------------------------
(* Values for the constants of LegacyPipeline: a job that is run again. *)
EXTENDS LegacyPipeline

CONSTANTS j, m

MCRuns == <<[job |-> j, material |-> m], [job |-> j, material |-> m]>>

\* Whole, whole with one more, and a stub.
MCPackages == {{Index, "data/player.js"}, File, {Index}}

MCSettings == {[storage |-> "local_fs", keep |-> FALSE, check |-> TRUE],
               [storage |-> "s3", keep |-> TRUE, check |-> FALSE],
               [storage |-> "s3", keep |-> FALSE, check |-> TRUE],
               [storage |-> "http_api", keep |-> FALSE, check |-> TRUE]}
===============================================================================
