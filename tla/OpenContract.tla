----------------------------- MODULE OpenContract -----------------------------
(***************************************************************************)
(* What open_with_repair promises run_cloud_job, which calls it for each   *)
(* of its goes at the publish dialog: the deck is tried a few times, every *)
(* time but the first with no PowerPoint left of the time before that has  *)
(* not withstood taskkill; what was opened is given up for another try     *)
(* only while there is one; and the error that blames PowerPoint comes     *)
(* after the last try and leaves none running, but for such a survivor.    *)
(* PowerPointOpen is shown to implement it with its threads, and CloudJob  *)
(* with PowerPoint's history, so that the one is the inside of the steps   *)
(* of the other.                                                           *)
(***************************************************************************)
EXTENDS Naturals

CONSTANT Tries

VARIABLES phase,   \* "trying", "between" two tries, "opened", or how it ended
          try,
          running  \* a POWERPNT.EXE: "no", "yes", or a "survivor" of a taskkill that failed

vars == <<phase, try, running>>

Init == phase = "trying" /\ try = 1 /\ running \in {"no", "yes", "survivor"}

\* Only a try starts one, and it may fail right after.
Start ==
  /\ phase = "trying"
  /\ running' = IF running = "no" THEN "yes" ELSE running
  /\ phase' \in {"trying", "between"}
  /\ UNCHANGED try

\* Whoever takes it down, and whenever.
Lose == running' = "no" /\ UNCHANGED <<phase, try>>

\* Somebody's taskkill is refused.
Survive == running = "yes" /\ running' = "survivor" /\ UNCHANGED <<phase, try>>

\* What quit and taskkill leave.
AfterKill == running' \in {"no"} \cup (IF running = "no" THEN {} ELSE {"survivor"})

Open == phase = "trying" /\ phase' = "opened" /\ UNCHANGED <<try, running>>

GiveUpTry ==
  /\ phase = "trying" \/ (phase = "opened" /\ try < Tries)
  /\ phase' = "between"
  /\ UNCHANGED <<try, running>>

Retry ==
  /\ phase \in {"trying", "between", "opened"} /\ try < Tries
  /\ phase' = "trying" /\ try' = try + 1
  /\ AfterKill

Fail ==
  /\ phase \in {"trying", "between"} /\ try = Tries
  /\ phase' = "failed"
  /\ AfterKill
  /\ UNCHANGED try

\* The caller is done with the deck, or an error leaves that is handled nowhere.
Leave == phase \in {"trying", "opened"} /\ phase' = "over" /\ UNCHANGED <<try, running>>

CallAgain ==
  /\ phase = "opened"
  /\ phase' = "trying" /\ try' = 1
  /\ running' = running \/ AfterKill

Next == Start \/ Lose \/ Survive \/ Open \/ GiveUpTry \/ Retry \/ Fail \/ Leave \/ CallAgain

Spec == Init /\ [][Next]_vars
===============================================================================
