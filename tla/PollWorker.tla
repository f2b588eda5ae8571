------------------------------ MODULE PollWorker ------------------------------
(***************************************************************************)
(* The production worker as one process: main.py starts WorkerLoop         *)
(* (worker/loop.py), which fetches jobs with BackendClient                 *)
(* (api_client/jobs.py) and hands each one to CloudPipeline                *)
(* (worker/cloud_pipeline.py).  The pipeline runs the job, posts its       *)
(* result and updates the health file.  BackendQueue supplies the servers, *)
(* WorkerHealth the file; signals, crashes, restarts and the operator      *)
(* interleave with every step.                                             *)
(***************************************************************************)
EXTENDS WorkerHealth, BackendQueue

CONSTANTS NoBase,       \* Job.base_url = "": the shared backend
          NoJob,        \* no job in hand
          GetAttempts,  \* Settings.get_job_retry_attempts
          PostAttempts, \* Settings.callback_retry_attempts
          MaxPerRound,  \* PRIVATE_MAX_PER_ROUND
          Faults        \* which of AllFaults the environment may commit

\* "network":   requests and answers are lost, late, refused or unusable;
\* "crash":     the process dies between two steps;
\* "torn_save": it dies, or the write fails, half way through a save.
AllFaults == {"network", "crash", "torn_save"}

\* jobs.Job, by the two fields the worker acts on.
Job == [job_id : JobId, base_url : Private \cup {NoBase}]

ASSUME WorkerAssumption ==
  /\ NoBase \notin Server
  /\ NoJob \notin Job
  /\ GetAttempts \in Nat \ {0}
  /\ PostAttempts \in Nat \ {0}
  /\ MaxPerRound \in Nat \ {0}
  /\ Faults \subseteq AllFaults

VARIABLES
  pc,         \* where the worker's only thread is
  stopping,   \* WorkerLoop._stop
  due,        \* clock() >= WorkerLoop._private_due
  position,   \* the private server of the round, an index of PrivateUrls
  taken,      \* jobs taken from it in this round
  server,     \* the server being asked
  attempt,    \* the attempt of get_next_job or send_job_result
  job,        \* the job in hand
  verdict,    \* the status being posted for it
  errorStage, \* the stage of its error, when verdict = 3
  \* Observed, never read by an action:
  published,  \* rows whose deck run_cloud_job published
  streak,     \* jobs ended at a machine stage since a success, a job's own failure
              \* or a clear that no save overwrote; one that a crash cut short before
              \* its save is not counted
  cleared,    \* the file was cleared after the save in progress had read it
  waited,     \* private jobs run since the shared queue was last asked, or the
              \* worker last held back as unhealthy
  lateStarts  \* jobs started since the stop signal

loopVars == <<due, position, taken>>
clientVars == <<server, attempt>>
jobVars == <<job, verdict, errorStage>>
seenVars == <<published, streak, cleared, waited, lateStarts>>
workerVars == <<pc, stopping, loopVars, clientVars, jobVars, seenVars>>
vars == <<healthVars, queueVars, workerVars>>

PC == {"off", "loop", "once", "sleep", "round", "get", "work", "post",
       "record", "truncate", "write"}

TypeOK ==
  /\ HealthTypeOK
  /\ QueueTypeOK
  /\ pc \in PC
  /\ stopping \in BOOLEAN
  /\ due \in BOOLEAN
  /\ position \in Nat \ {0}
  /\ taken \in Nat
  /\ server \in Server
  /\ attempt \in Nat \ {0}
  /\ job \in Job \cup {NoJob}
  /\ verdict \in Verdict
  /\ errorStage \in Stage
  /\ published \subseteq Row
  /\ streak \in Nat
  /\ cleared \in BOOLEAN
  /\ waited \in Nat
  /\ lateStarts \in Nat

\* A worker that is not running has no state but its files.
Idle ==
  /\ pc = "off"
  /\ stopping = FALSE
  /\ due = TRUE
  /\ position = 1
  /\ taken = 0
  /\ server = Shared
  /\ attempt = 1
  /\ job = NoJob
  /\ verdict = 3
  /\ errorStage = "unexpected"
  /\ waited = 0
  /\ lateStarts = 0

Init ==
  /\ HealthInit
  /\ QueueInit
  /\ Idle
  /\ published = {}
  /\ streak = 0
  /\ cleared = FALSE

-----------------------------------------------------------------------------
(* main.py and WorkerLoop *)

\* main(): the signal handlers are in place and run_forever begins.
Start ==
  /\ pc = "off"
  /\ pc' = "loop"
  /\ UNCHANGED <<healthVars, queueVars, stopping, loopVars, clientVars, jobVars, seenVars>>

\* The process ends, by itself or not; the next Start finds fresh variables.
Vanish ==
  /\ pc' = "off"
  /\ stopping' = FALSE
  /\ due' = TRUE
  /\ position' = 1
  /\ taken' = 0
  /\ server' = Shared
  /\ attempt' = 1
  /\ job' = NoJob
  /\ verdict' = 3
  /\ errorStage' = "unexpected"
  /\ waited' = 0
  /\ lateStarts' = 0
  /\ pending' = Fresh
  /\ streak' = IF cleared THEN 0 ELSE streak
  /\ cleared' = FALSE
  /\ UNCHANGED <<healthFile, published>>

\* Mutant: the loop condition is not looked at.
RunForeverDeaf ==
  /\ pc = "loop"
  /\ pc' = "once"
  /\ UNCHANGED <<healthVars, queueVars, stopping, loopVars, clientVars, jobVars, seenVars>>

\* run_forever(): the loop condition.
RunForever ==
  /\ pc = "loop"
  /\ \/ /\ stopping
        /\ Vanish
     \/ /\ ~stopping
        /\ pc' = "once"
        /\ UNCHANGED <<healthVars, stopping, loopVars, clientVars, jobVars, seenVars>>
  /\ UNCHANGED queueVars

\* _fetch(url) begins: the first GET goes out.
Ask(s) ==
  /\ pc' = "get"
  /\ server' = s
  /\ attempt' = 1

\* run_once(): the health gate, then the private round or the shared queue.
RunOnce ==
  /\ pc = "once"
  /\ \/ /\ ~ShouldTakeWork
        /\ pc' = "sleep"
        /\ waited' = 0
        /\ UNCHANGED <<loopVars, clientVars>>
     \/ /\ ShouldTakeWork
        /\ PrivateUrls # <<>> /\ due
        /\ pc' = "round"
        /\ position' = 1
        /\ taken' = 0
        /\ UNCHANGED <<due, clientVars, waited>>
     \/ /\ ShouldTakeWork
        /\ ~(PrivateUrls # <<>> /\ due)
        /\ Ask(Shared)
        /\ waited' = 0
        /\ UNCHANGED loopVars
  /\ UNCHANGED <<healthVars, queueVars, stopping, jobVars, published, streak, cleared,
                 lateStarts>>

Wake ==
  /\ pc = "sleep"
  /\ pc' = "loop"
  /\ UNCHANGED <<healthVars, queueVars, stopping, loopVars, clientVars, jobVars, seenVars>>

\* Mutant: _private_due is never moved on.
EndRoundStillDue ==
  /\ position' = 1
  /\ taken' = 0
  /\ pc' = "loop"
  /\ UNCHANGED <<due, clientVars>>

\* The last lines of _poll_private: the next round is an interval away.
EndRound ==
  /\ due' = FALSE
  /\ position' = 1
  /\ taken' = 0
  /\ pc' = "loop"
  /\ UNCHANGED clientVars

NextServer ==
  /\ position' = position + 1
  /\ taken' = 0
  /\ UNCHANGED <<due, pc, clientVars>>

\* Mutant: the round does not look at the stop flag.
RoundOverDeaf == position > Len(PrivateUrls)

RoundOver == stopping \/ position > Len(PrivateUrls)

\* Mutant: a private server is asked again without a look at the health file.
MayTakeMoreUnasked == taken < MaxPerRound

MayTakeMore == taken < MaxPerRound /\ ShouldTakeWork

\* _poll_private(): both of its loops, up to the next GET.
PollPrivate ==
  /\ pc = "round"
  /\ \/ /\ RoundOver
        /\ EndRound
     \/ /\ ~RoundOver /\ ~MayTakeMore
        /\ NextServer
     \/ /\ ~RoundOver /\ MayTakeMore
        /\ Ask(PrivateUrls[position])
        /\ UNCHANGED loopVars
  /\ UNCHANGED <<healthVars, queueVars, stopping, jobVars, seenVars>>

\* A call of the client has returned: its locals are gone.
ClientReturns == server' = Shared /\ attempt' = 1

\* Mutant: a private server with nothing to give is asked again in the same round.
NothingFetchedStays ==
  /\ IF server = Shared
       THEN pc' = "sleep" /\ UNCHANGED <<position, taken>>
       ELSE pc' = "round" /\ UNCHANGED <<position, taken>>
  /\ ClientReturns
  /\ UNCHANGED due

\* _fetch() returned None: the shared queue is left to sleep, a private server
\* for the next one.
NothingFetched ==
  /\ IF server = Shared
       THEN pc' = "sleep" /\ UNCHANGED <<position, taken>>
       ELSE pc' = "round" /\ position' = position + 1 /\ taken' = 0
  /\ ClientReturns
  /\ UNCHANGED due

-----------------------------------------------------------------------------
(* BackendClient.get_next_job *)

JobFrom(r) ==
  [job_id |-> r[2], base_url |-> IF server = Shared THEN NoBase ELSE server]

\* The answer carries a material: _run(job), pipeline.process(job).
GetJob(r) ==
  /\ pc = "get"
  /\ r \in Queued(server)
  /\ HandOver(r)
  /\ job' = JobFrom(r)
  /\ pc' = "work"
  /\ waited' = IF server = Shared THEN waited ELSE waited + 1
  /\ lateStarts' = IF stopping THEN lateStarts + 1 ELSE lateStarts
  /\ attempt' = 1
  /\ UNCHANGED <<healthVars, networkVars, stopping, loopVars, server,
                 verdict, errorStage, published, streak, cleared>>

\* The server has nothing to hand over.
GetNothing ==
  /\ pc = "get"
  /\ Queued(server) = {}
  /\ NothingFetched
  /\ UNCHANGED <<healthVars, queueVars, stopping, jobVars, seenVars>>

\* JobFetchError at once: a 4xx, an empty body, no JSON, or a material that
\* _parse_material refuses after PHP marked its row in progress.
GetUnusable ==
  /\ pc = "get"
  /\ "network" \in Faults
  /\ UnseenGet(server)
  /\ NothingFetched
  /\ UNCHANGED <<healthVars, networkVars, stopping, jobVars, seenVars>>

\* A transport error or a 5xx: asked again, up to GetAttempts times.  The server
\* may have served this one already, or may serve it later.
GetFails ==
  /\ pc = "get"
  /\ "network" \in Faults
  /\ \/ UnseenGet(server) /\ UNCHANGED lateGets
     \/ AbandonGet(server)
  /\ IF attempt < GetAttempts
       THEN attempt' = attempt + 1 /\ UNCHANGED <<pc, loopVars, server>>
       ELSE NothingFetched
  /\ UNCHANGED <<healthVars, latePosts, requeued, stopping, jobVars, seenVars>>

-----------------------------------------------------------------------------
(* CloudPipeline.process and BackendClient.send_job_result *)

\* Mutant: every result goes to the shared backend.
ResultRowShared(j) == <<Shared, j.job_id>>

\* send_job_result: base = job.base_url or the shared backend.
ResultRow(j) ==
  <<IF j.base_url = NoBase THEN Shared ELSE j.base_url, j.job_id>>

Report(status, stage) ==
  /\ pc' = "post"
  /\ attempt' = 1
  /\ verdict' = status
  /\ errorStage' = stage

\* run_cloud_job returned a link: the deck of the row that `server' handed over is in
\* the cloud.
JobPublishes ==
  /\ pc = "work"
  /\ published' = published \cup {<<server, job.job_id>>}
  /\ Report(2, errorStage)
  /\ UNCHANGED <<healthVars, queueVars, stopping, loopVars, server, job, streak, cleared,
                 waited, lateStarts>>

\* run_cloud_job raised: the error's own stage, "unexpected" for an exception
\* that is not a PptAutomationError.
JobFails(stage) ==
  /\ pc = "work"
  /\ stage # "callback"
  /\ Report(3, stage)
  /\ UNCHANGED <<healthVars, queueVars, stopping, loopVars, server, job, seenVars>>

\* Any answer below 400 ends send_job_result; its body is not looked at.
PostAnswered ==
  /\ pc = "post"
  /\ \/ ApplyResult(ResultRow(job), verdict)
     \/ "network" \in Faults /\ UNCHANGED row
  /\ pc' = "record"
  /\ attempt' = 1
  /\ UNCHANGED <<healthVars, networkVars, stopping, loopVars, server, jobVars, seenVars>>

\* Mutant: after the last attempt the retries begin again.
PostTriesForEver == Report(verdict, errorStage)

\* CallbackError.  For a success it is the job's error and a failure is posted
\* instead; for a failure it is only logged.
PostGivesUp ==
  IF verdict = 2
    THEN Report(3, "callback")
    ELSE pc' = "record" /\ attempt' = 1 /\ UNCHANGED <<verdict, errorStage>>

\* A 4xx is not tried again.
PostRefused ==
  /\ pc = "post"
  /\ "network" \in Faults
  /\ PostGivesUp
  /\ UNCHANGED <<healthVars, queueVars, stopping, loopVars, server, job, seenVars>>

\* A transport error or a 5xx: the result may be applied now, later or never.
PostFails ==
  /\ pc = "post"
  /\ "network" \in Faults
  /\ \/ UNCHANGED <<row, latePosts>>
     \/ ApplyResult(ResultRow(job), verdict) /\ UNCHANGED latePosts
     \/ AbandonPost(ResultRow(job), verdict)
  /\ IF attempt < PostAttempts
       THEN attempt' = attempt + 1 /\ UNCHANGED <<pc, verdict, errorStage>>
       ELSE PostGivesUp
  /\ UNCHANGED <<healthVars, lateGets, requeued, stopping, loopVars, server, job, seenVars>>

\* record_success, or record_failure with the error's stage: load and decide.
RecordHealth ==
  /\ pc = "record"
  /\ IF verdict = 2 THEN RecordSuccess ELSE RecordFailure(errorStage)
  /\ pc' = "truncate"
  /\ UNCHANGED <<queueVars, stopping, loopVars, clientVars, jobVars, seenVars>>

\* _run() ends and the loop goes on where it was.
JobOver ==
  /\ job' = NoJob
  /\ verdict' = 3
  /\ errorStage' = "unexpected"
  /\ ClientReturns
  /\ IF server = Shared
       THEN pc' = "loop" /\ UNCHANGED taken
       ELSE pc' = "round" /\ taken' = taken + 1
  /\ UNCHANGED <<queueVars, stopping, due, position, published, waited, lateStarts>>

\* The job in hand ended as one that counts against the machine.
Counted == verdict = 3 /\ errorStage \in MachineStages

\* The observed count stops at one past the limit: beyond that it tells no more.
CountedOn(failures) ==
  IF ~Counted THEN 0 ELSE IF failures > Limit THEN failures ELSE failures + 1

BeginSave ==
  /\ pc = "truncate"
  /\ SaveTruncate
  /\ streak' = CountedOn(streak)
  /\ pc' = "write"
  /\ UNCHANGED <<queueVars, stopping, loopVars, clientVars, jobVars,
                 published, cleared, waited, lateStarts>>

\* A clear that came in between is overwritten.
FinishSave ==
  /\ pc = "write"
  /\ SaveWrite
  /\ JobOver
  /\ cleared' = FALSE
  /\ UNCHANGED streak

FailSave ==
  /\ pc = "truncate"
  /\ "torn_save" \in Faults
  /\ SaveFails
  /\ JobOver
  /\ cleared' = FALSE
  /\ streak' = CountedOn(IF cleared THEN 0 ELSE streak)

-----------------------------------------------------------------------------
(* What happens to the worker *)

\* SIGINT or SIGTERM: loop.stop().
StopSignal ==
  /\ pc # "off"
  /\ ~stopping
  /\ stopping' = TRUE
  /\ UNCHANGED <<healthVars, queueVars, pc, loopVars, clientVars, jobVars, seenVars>>

Crash ==
  /\ pc # "off"
  /\ "crash" \in Faults
  /\ pc = "write" => "torn_save" \in Faults
  /\ Vanish
  /\ UNCHANGED queueVars

\* The private interval elapses.  It is minutes long, so this happens while the
\* worker sleeps, runs a job or waits for a server, never between two of its lines.
Tick ==
  /\ pc \in {"sleep", "get", "work", "post"}
  /\ ~due
  /\ due' = TRUE
  /\ UNCHANGED <<healthVars, queueVars, pc, stopping, position, taken, clientVars,
                 jobVars, seenVars>>

\* scripts/worker_health.py --clear: an operator puts the worker back in service, with the
\* worker running or not, healthy or not, and without a lock on the file.
OperatorClears ==
  /\ Clear
  /\ cleared' = (pc \in {"truncate", "write"})
  /\ streak' = IF cleared' THEN streak ELSE 0
  /\ UNCHANGED <<queueVars, pc, stopping, loopVars, clientVars, jobVars,
                 published, waited, lateStarts>>

ServersStep == QueueNext /\ UNCHANGED <<healthVars, workerVars>>

WorkerStep ==
  \/ RunForever \/ RunOnce \/ Wake \/ PollPrivate
  \/ (\E r \in Row : GetJob(r)) \/ GetNothing \/ GetUnusable \/ GetFails
  \/ JobPublishes \/ (\E stage \in Stage : JobFails(stage))
  \/ PostAnswered \/ PostRefused \/ PostFails
  \/ RecordHealth \/ BeginSave \/ FinishSave \/ FailSave

Next ==
  \/ Start
  \/ WorkerStep
  \/ StopSignal \/ Crash \/ Tick \/ OperatorClears
  \/ ServersStep

Spec == Init /\ [][Next]_vars

\* One thread whose every wait of its own has a limit, given that run_cloud_job returns
\* (CloudJob says in which calls it may not): it keeps stepping.  Nothing is assumed of
\* the servers, the operator, the clock or whoever starts the process.
FairSpec == Spec /\ WF_vars(WorkerStep)

-----------------------------------------------------------------------------
(* What must hold *)

\* A row says "success" only if the deck of that very row was published: whatever is
\* lost, late or repeated, and although job_ids collide between servers, no result
\* closes another job's row (Job.base_url, send_job_result).
ResultsAreTrue == \A r \in Row : row[r] = "done" => r \in published

\* From the first GET to the end of the job's save the file does not say "unhealthy":
\* the gate is asked before every fetch, and nothing on the way can trip it unseen.
WorksOnlyWhenHealthy ==
  pc \in {"get", "work", "post", "record", "truncate", "write"} => IgnoreHealth \/ ~IsDown

\* A file that says "unhealthy" keeps saying so through restarts, crashes and
\* failed saves until the operator clears it.
OnlyOperatorClears == [][IsDown /\ ~IsDown' => OperatorClears]_vars

\* After SIGINT or SIGTERM at most one more job is started: the one whose GET was
\* already decided on.
StopTakesOneMore == lateStarts <= 1

\* However full the private queues are, the shared queue is asked again after one
\* round of them.
SharedWaitsOneRound == waited <= MaxPerRound * Len(PrivateUrls)

\* A machine that fails every job costs at most Limit of them, restarts included.
LossBounded == streak <= Limit

\* The worker is never taken out of service by fewer than Limit machine failures in
\* a row.  A clear starts the row again, unless it falls between the load and the end of
\* one save: that save overwrites it.
GoesDownOnlyAtLimit == [][~IsDown /\ IsDown' => streak' >= Limit]_vars

\* The worker as its health promise sees it.  The job is over when its save begins,
\* which is when the new count takes effect; until then it is the one that was read.
Breaker == INSTANCE BreakerContract WITH
  working <- pc \in {"work", "post", "record", "truncate"},
  count   <- IF pc = "write" THEN pending.failures
             ELSE IF pc = "truncate" /\ Counted THEN pending.failures - 1
             ELSE Load(healthFile).failures

\* The worker keeps the promise of worker/health.py's docstring: it takes a job only below
\* the limit, each machine failure counts for one, and nothing but a success, a job's own
\* failure or the operator sets the count back.
KeepsHealthPromise == Breaker!Spec

\* Every job in hand gets its result posted or given up on: no step waits for ever.
JobEnds == job # NoJob ~> job = NoJob

\* A stop signal ends the process.
StopEnds == stopping ~> pc = "off"

\* Whatever the private servers do, the shared queue is asked again and again, unless
\* the worker is held back as unhealthy or is not running.
SharedKeepsBeingAsked ==
  []<>(pc = "off" \/ IsDown \/ (pc = "get" /\ server = Shared))
=============================================================================
