---------------------------- MODULE MCPublishDialog ----------------------------
(* Values for the constants of PublishDialog. *)
EXTENDS PublishDialog, TLC

CONSTANTS old, new

\* "PPT Migration" is a prefix of "PPT migration New": both contain it.
MCNear == <<old, new>>

\* A small picker: the folder is anywhere, or nowhere, in either project.
MCOrder == <<new, old>>
MCLength == (old :> 5) @@ (new :> 3)
MCPlacements == {(old :> i) @@ (new :> j) : i \in {0, 1, 3, 5}, j \in {0, 2}}
MCFaultSets == {{"missed_click", "slow_fill"}, {"missed_click", "slow_fill", "flat"},
                {"slow_tree", "missed_click"}, {"lost_click"}, {"open_before"}, {"open_before", "flat"},
                {"no_wheel"}}

\* The real branches and sweep: 340 folders, 15 lines a step, 20 steps.
MCLongLength == (old :> 340) @@ (new :> 133)
MCLongPlacements == {(old :> i) @@ (new :> 0) : i \in {1, 20, 40, 100, 340}}
MCNoFaults == {{}}
===============================================================================
