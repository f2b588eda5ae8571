----------------------------- MODULE WorkerHealth -----------------------------
(***************************************************************************)
(* worker/health.py: the small JSON file that counts consecutive machine   *)
(* failures and, past a limit, keeps the worker from asking for work.      *)
(*                                                                         *)
(* Only the two fields a decision reads are kept: the count, and whether   *)
(* unhealthy_since is set.  A missing, empty or half-written file is       *)
(* Unreadable.  save() truncates the file and then writes it, so it is two *)
(* steps here; its caller holds the value in `pending' between them.       *)
(***************************************************************************)
EXTENDS Naturals, ErrorStages

CONSTANTS Limit,        \* DEFAULT_LIMIT: machine failures in a row that stop the worker
          IgnoreHealth, \* TRUE when WORKER_IGNORE_HEALTH is set in the environment
          Unreadable    \* no file, an empty one, or one that is not JSON

Health == [failures : Nat, down : BOOLEAN]
Fresh == [failures |-> 0, down |-> FALSE]

ASSUME HealthAssumption ==
  /\ Limit \in Nat \ {0}
  /\ IgnoreHealth \in BOOLEAN
  /\ Unreadable \notin Health

VARIABLES healthFile,   \* what worker-health.json holds
          pending       \* the Health value the worker is about to save

healthVars == <<healthFile, pending>>

HealthTypeOK ==
  /\ healthFile \in Health \cup {Unreadable}
  /\ pending \in Health

HealthInit ==
  /\ healthFile = Unreadable
  /\ pending = Fresh

-----------------------------------------------------------------------------
\* load(): anything that cannot be read is a fresh, healthy worker.
Load(file) == IF file = Unreadable THEN Fresh ELSE file

IsDown == Load(healthFile).down

\* Mutant: the count is compared, one off, instead of the flag.
ShouldTakeWorkByCount == IgnoreHealth \/ Load(healthFile).failures <= Limit

ShouldTakeWork == IgnoreHealth \/ ~IsDown

\* Mutant: one failure too many.
AfterFailureLate(h, stage) ==
  IF stage \notin MachineStages
    THEN [h EXCEPT !.failures = 0]
    ELSE [failures |-> h.failures + 1,
          down     |-> h.down \/ h.failures + 1 > Limit]

\* Mutant: a failure of the job's own does not clear the count.
AfterFailureSticky(h, stage) ==
  IF stage \notin MachineStages
    THEN h
    ELSE [failures |-> h.failures + 1,
          down     |-> h.down \/ h.failures + 1 >= Limit]

\* The value record_failure saves.  A failure of the job's own clears the count
\* and leaves unhealthy_since as it was.
AfterFailure(h, stage) ==
  IF stage \notin MachineStages
    THEN [h EXCEPT !.failures = 0]
    ELSE [failures |-> h.failures + 1,
          down     |-> h.down \/ h.failures + 1 >= Limit]

RecordSuccess ==
  /\ pending' = Fresh
  /\ UNCHANGED healthFile

RecordFailure(stage) ==
  /\ pending' = AfterFailure(Load(healthFile), stage)
  /\ UNCHANGED healthFile

\* save(): write_text opens the file (truncating it), then writes the content.
SaveTruncate ==
  /\ healthFile' = Unreadable
  /\ UNCHANGED pending

SaveWrite ==
  /\ healthFile' = pending
  /\ pending' = Fresh

\* save() swallows every exception: the open failed and the file is as it was,
\* or the write failed and the file is empty.
SaveFails ==
  /\ healthFile' \in {healthFile, Unreadable}
  /\ pending' = Fresh

\* clear(): scripts/worker_health.py --clear, run by an operator.
Clear ==
  /\ healthFile' = Fresh
  /\ UNCHANGED pending
=============================================================================
