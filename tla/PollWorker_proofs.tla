--------------------------- MODULE PollWorker_proofs ---------------------------
(***************************************************************************)
(* What holds of PollWorker for any servers, queues, limits and faults.    *)
(***************************************************************************)
EXTENDS PollWorker, Integers, TLAPS

USE DEF vars, healthVars, queueVars, networkVars, workerVars, loopVars, clientVars,
        jobVars, seenVars

-----------------------------------------------------------------------------
(* Where the job is *)

JobPC == {"work", "post", "record", "truncate", "write"}

\* A job is in hand exactly while it is worked on.
JobInv == job \in Job <=> pc \in JobPC

ControlInv == TypeOK /\ JobInv

\* The address a result is posted to is a queue row.
LEMMA ResultRowType == ASSUME NEW j \in Job PROVE ResultRow(j) \in Row
BY DEF Job, ResultRow, Row, Server

LEMMA JobFromType ==
  ASSUME NEW r \in Row, server \in Server
  PROVE  JobFrom(r) \in Job
BY DEF Job, JobFrom, Row, Server

LEMMA PrivateUrlType ==
  /\ Len(PrivateUrls) \in Nat
  /\ \A i \in Nat \ {0} : i <= Len(PrivateUrls) =>
       PrivateUrls[i] \in Server /\ PrivateUrls[i] # Shared
<1>1. Len(PrivateUrls) \in Nat
  BY QueueAssumption DEF QueueAssumption
<1>2. ASSUME NEW i \in Nat \ {0}, i <= Len(PrivateUrls)
      PROVE  PrivateUrls[i] \in Private
  BY <1>1, <1>2 DEF Private
<1> QED BY <1>1, <1>2, QueueAssumption DEF QueueAssumption, Server

LEMMA NoJobIsNone == NoJob \notin Job
BY WorkerAssumption DEF WorkerAssumption

LEMMA ControlInit == Init => ControlInv
<1> SUFFICES ASSUME Init PROVE ControlInv OBVIOUS
<1>1. HealthTypeOK
  BY DEF Init, HealthInit, HealthTypeOK, Health, Fresh
<1>2. QueueTypeOK
  BY QueueAssumption DEF QueueAssumption, Init, QueueInit, QueueTypeOK, RowStatus
<1>3. pc \in PC /\ server \in Server /\ verdict \in Verdict /\ errorStage \in Stage
  BY DEF Init, Idle, PC, Server, Verdict, Stage
<1>4. JobInv
  BY NoJobIsNone DEF Init, Idle, JobInv, JobPC
<1>5. stopping \in BOOLEAN /\ due \in BOOLEAN /\ cleared \in BOOLEAN
  BY DEF Init, Idle
<1>6. QED
  BY <1>1, <1>2, <1>3, <1>4, <1>5 DEF Init, Idle, ControlInv, TypeOK

\* What an unseen GET, a hand-over or a result does to the status column.
LEMMA RowSteps ==
  ASSUME QueueTypeOK
  PROVE  /\ \A r \in Row : HandOver(r) => row' \in [Row -> RowStatus]
         /\ \A s \in Server : UnseenGet(s) => row' \in [Row -> RowStatus]
         /\ \A r \in Row, v \in Verdict : ApplyResult(r, v) => row' \in [Row -> RowStatus]
<1>1. \A r \in Row : HandOver(r) => row' \in [Row -> RowStatus]
  BY DEF QueueTypeOK, HandOver, RowStatus
<1>2. \A s \in Server : UnseenGet(s) => row' \in [Row -> RowStatus]
  BY <1>1 DEF QueueTypeOK, UnseenGet, Queued
<1>3. \A r \in Row, v \in Verdict : ApplyResult(r, v) => row' \in [Row -> RowStatus]
  BY DEF QueueTypeOK, ApplyResult, Closed, RowStatus
<1> QED BY <1>1, <1>2, <1>3

LEMMA QueueStepType == QueueTypeOK /\ QueueNext => QueueTypeOK'
<1> SUFFICES ASSUME QueueTypeOK, QueueNext PROVE QueueTypeOK' OBVIOUS
<1>1. ASSUME NEW r \in Row, Enqueue(r) PROVE QueueTypeOK'
  BY <1>1 DEF Enqueue, QueueTypeOK, RowStatus
<1>2. ASSUME NEW r \in Row, Requeue(r) PROVE QueueTypeOK'
  BY <1>2, QueueAssumption DEF QueueAssumption, Requeue, QueueTypeOK, RowStatus
<1>3. ASSUME NEW s \in Server, LateGetServed(s) PROVE QueueTypeOK'
  BY <1>3, RowSteps DEF LateGetServed, QueueTypeOK
<1>4. ASSUME NEW r \in Row, NEW v \in Verdict, LatePostServed(r, v) PROVE QueueTypeOK'
  BY <1>4, RowSteps DEF LatePostServed, QueueTypeOK
<1> QED BY <1>1, <1>2, <1>3, <1>4 DEF QueueNext

LEMMA AfterFailureType ==
  ASSUME NEW h \in Health, NEW stage PROVE AfterFailure(h, stage) \in Health
BY DEF AfterFailure, Health

LEMMA LoadType == HealthTypeOK => Load(healthFile) \in Health
BY DEF HealthTypeOK, Load, Fresh, Health

LEMMA ControlStep == ControlInv /\ [Next]_vars => ControlInv'
<1> SUFFICES ASSUME ControlInv, [Next]_vars PROVE ControlInv' OBVIOUS
<1> USE DEF ControlInv, JobInv, JobPC, TypeOK
<1>0. Fresh \in Health
  BY DEF Fresh, Health
<1>1. CASE Start
  BY <1>1 DEF Start, PC, HealthTypeOK, QueueTypeOK
<1>v. ASSUME Vanish, UNCHANGED queueVars PROVE ControlInv'
  <2>1. HealthTypeOK' /\ QueueTypeOK'
    BY <1>v, <1>0 DEF Vanish, HealthTypeOK, QueueTypeOK
  <2>2. (pc \in PC /\ server \in Server /\ verdict \in Verdict /\ errorStage \in Stage)'
    BY <1>v DEF Vanish, PC, Server, Verdict, Stage
  <2>3. JobInv'
    BY <1>v, NoJobIsNone DEF Vanish
  <2>4. (stopping \in BOOLEAN /\ due \in BOOLEAN /\ cleared \in BOOLEAN)'
    BY <1>v DEF Vanish
  <2> QED
    BY <1>v, <2>1, <2>2, <2>3, <2>4 DEF Vanish
<1>2. CASE RunForever
  <2>1. CASE stopping
    BY <1>2, <1>v, <2>1 DEF RunForever
  <2>2. CASE ~stopping
    BY <1>2, <2>2 DEF RunForever, PC, HealthTypeOK, QueueTypeOK
  <2> QED BY <2>1, <2>2
<1>3. CASE RunOnce
  BY <1>3 DEF RunOnce, Ask, PC, HealthTypeOK, QueueTypeOK, Server
<1>4. CASE Wake
  BY <1>4 DEF Wake, PC, HealthTypeOK, QueueTypeOK
<1>5. CASE PollPrivate
  <2>1. CASE RoundOver
    <3>1. (due \in BOOLEAN)'
      BY <1>5, <2>1 DEF PollPrivate, EndRound
    <3> QED
      BY <1>5, <2>1, <3>1 DEF PollPrivate, EndRound, PC, HealthTypeOK, QueueTypeOK
  <2>2. CASE ~RoundOver
    <3>1. PrivateUrls[position] \in Server
      BY <2>2, PrivateUrlType DEF RoundOver
    <3> QED
      BY <1>5, <2>2, <3>1 DEF PollPrivate, NextServer, Ask, PC, HealthTypeOK, QueueTypeOK
  <2> QED BY <2>1, <2>2
<1>6. ASSUME NEW r \in Row, GetJob(r) PROVE ControlInv'
  BY <1>6, RowSteps, JobFromType DEF GetJob, PC, HealthTypeOK, QueueTypeOK
<1>7. CASE GetNothing
  BY <1>7 DEF GetNothing, NothingFetched, ClientReturns, PC, HealthTypeOK, QueueTypeOK, Server
<1>8. CASE GetUnusable
  BY <1>8, RowSteps DEF GetUnusable, NothingFetched, ClientReturns, PC, HealthTypeOK, QueueTypeOK, Server
<1>9. CASE GetFails
  BY <1>9, RowSteps DEF GetFails, AbandonGet, NothingFetched, ClientReturns, PC, HealthTypeOK, QueueTypeOK, Server
<1>10. CASE JobPublishes
  <2>1. <<server, job.job_id>> \in Row
    BY <1>10 DEF JobPublishes, JobPC, Job, Row
  <2> QED
    BY <1>10, <2>1 DEF JobPublishes, Report, PC, HealthTypeOK, QueueTypeOK, Verdict, JobPC
<1>11. ASSUME NEW stage \in Stage, JobFails(stage) PROVE ControlInv'
  BY <1>11 DEF JobFails, Report, PC, HealthTypeOK, QueueTypeOK, Verdict
<1>12. CASE PostAnswered
  BY <1>12, RowSteps, ResultRowType DEF PostAnswered, PC, HealthTypeOK, QueueTypeOK
<1>13. CASE PostRefused
  BY <1>13 DEF PostRefused, PostGivesUp, Report, PC, HealthTypeOK, QueueTypeOK, Verdict, Stage
<1>14. CASE PostFails
  BY <1>14, RowSteps, ResultRowType DEF PostFails, AbandonPost, PostGivesUp, Report, PC, HealthTypeOK, QueueTypeOK, Verdict, Stage
<1>15. CASE RecordHealth
  BY <1>15, <1>0, LoadType, AfterFailureType
  DEF RecordHealth, RecordSuccess, RecordFailure, PC, HealthTypeOK, QueueTypeOK
<1>16. CASE BeginSave
  BY <1>16 DEF BeginSave, SaveTruncate, CountedOn, PC, HealthTypeOK, QueueTypeOK
<1>17. CASE FinishSave
  <2>1. cleared' \in BOOLEAN
    BY <1>17 DEF FinishSave
  <2> QED
    BY <1>17, <2>1, <1>0, NoJobIsNone
    DEF FinishSave, SaveWrite, JobOver, ClientReturns, PC, HealthTypeOK, QueueTypeOK, Server, Verdict, Stage
<1>18. CASE FailSave
  <2>1. cleared' \in BOOLEAN
    BY <1>18 DEF FailSave
  <2> QED
    BY <1>18, <2>1, <1>0, NoJobIsNone
    DEF FailSave, SaveFails, CountedOn, JobOver, ClientReturns, PC, HealthTypeOK, QueueTypeOK, Server, Verdict, Stage
<1>19. CASE StopSignal
  BY <1>19 DEF StopSignal, HealthTypeOK, QueueTypeOK
<1>20. CASE Crash
  BY <1>20, <1>v DEF Crash
<1>21. CASE Tick
  BY <1>21 DEF Tick, HealthTypeOK, QueueTypeOK
<1>22. CASE OperatorClears
  BY <1>22, <1>0 DEF OperatorClears, Clear, HealthTypeOK, QueueTypeOK
<1>23. CASE ServersStep
  BY <1>23, QueueStepType DEF ServersStep, HealthTypeOK
<1>24. CASE UNCHANGED vars
  BY <1>24 DEF HealthTypeOK, QueueTypeOK
<1> QED
  BY <1>1, <1>2, <1>3, <1>4, <1>5, <1>6, <1>7, <1>8, <1>9, <1>10, <1>11, <1>12, <1>13,
     <1>14, <1>15, <1>16, <1>17, <1>18, <1>19, <1>20, <1>21, <1>22, <1>23, <1>24
  DEF Next, WorkerStep

\* Every variable keeps its type, and a job is in hand exactly while it is worked on.
THEOREM TypeCorrect == Spec => []TypeOK
<1>1. ControlInv => TypeOK
  BY DEF ControlInv
<1> QED BY ControlInit, ControlStep, <1>1, PTL DEF Spec

THEOREM ControlCorrect == Spec => []ControlInv
BY ControlInit, ControlStep, PTL DEF Spec

-----------------------------------------------------------------------------
(* The health gate *)

LEMMA GateInit == Init => WorksOnlyWhenHealthy
BY DEF Init, Idle, WorksOnlyWhenHealthy

LEMMA GateStep == ControlInv /\ WorksOnlyWhenHealthy /\ [Next]_vars => WorksOnlyWhenHealthy'
<1> SUFFICES ASSUME ControlInv, WorksOnlyWhenHealthy, [Next]_vars,
                    ~IgnoreHealth,
                    (pc \in {"get", "work", "post", "record", "truncate", "write"})'
             PROVE  ~IsDown'
  BY HealthAssumption DEF HealthAssumption, WorksOnlyWhenHealthy
<1> USE DEF WorksOnlyWhenHealthy
<1>1. CASE UNCHANGED healthFile /\ pc \in {"get", "work", "post", "record", "truncate", "write"}
  BY <1>1 DEF IsDown
<1>2. CASE UNCHANGED healthFile /\ ShouldTakeWork
  BY <1>2 DEF IsDown, ShouldTakeWork
<1>3. CASE OperatorClears
  BY <1>3 DEF OperatorClears, Clear, IsDown, Load, Fresh
<1>4. CASE Start \/ Wake \/ RunForever \/ FinishSave \/ FailSave \/ Crash \/ GetNothing \/ GetUnusable
  BY <1>4 DEF Start, Wake, RunForever, Vanish, FinishSave, FailSave, JobOver, Crash,
     GetNothing, GetUnusable, NothingFetched
<1>5. CASE RunOnce \/ PollPrivate
  BY <1>5, <1>2 DEF RunOnce, PollPrivate, EndRound, NextServer, Ask, MayTakeMore
<1>6. CASE GetFails
  BY <1>6, <1>1 DEF GetFails, NothingFetched
<1>7. ASSUME NEW r \in Row, GetJob(r) PROVE ~IsDown'
  BY <1>7, <1>1 DEF GetJob
<1>8. ASSUME NEW stage \in Stage, JobFails(stage) PROVE ~IsDown'
  BY <1>8, <1>1 DEF JobFails
<1>9. CASE JobPublishes \/ PostAnswered \/ PostRefused \/ PostFails
  BY <1>9, <1>1 DEF JobPublishes, PostAnswered, PostRefused, PostFails
<1>10. CASE RecordHealth
  BY <1>10, <1>1 DEF RecordHealth, RecordSuccess, RecordFailure
<1>11. CASE StopSignal \/ Tick \/ ServersStep \/ UNCHANGED vars
  BY <1>11, <1>1 DEF StopSignal, Tick, ServersStep
<1>12. CASE BeginSave
  BY <1>12 DEF BeginSave, SaveTruncate, IsDown, Load, Fresh
<1> QED
  BY <1>3, <1>4, <1>5, <1>6, <1>7, <1>8, <1>9, <1>10, <1>11, <1>12 DEF Next, WorkerStep

\* The worker asks for a job and works on it only while its file says "healthy".
THEOREM GateCorrect == Spec => []WorksOnlyWhenHealthy
BY ControlInit, ControlStep, GateInit, GateStep, PTL DEF Spec

\* Once the file says "unhealthy" only the operator's clear makes it say otherwise.
THEOREM ClearCorrect ==
  ASSUME IgnoreHealth = FALSE
  PROVE  Spec => OnlyOperatorClears
<1>1. WorksOnlyWhenHealthy /\ [Next]_vars => [IsDown /\ ~IsDown' => OperatorClears]_vars
  <2> SUFFICES ASSUME WorksOnlyWhenHealthy, Next, IsDown, ~IsDown', ~OperatorClears
               PROVE  FALSE
    OBVIOUS
  <2>1. healthFile' # healthFile
    BY DEF IsDown
  <2>2. pc \notin {"truncate", "write"}
    BY DEF WorksOnlyWhenHealthy
  <2>3. ASSUME NEW r \in Row PROVE ~GetJob(r)
    BY <2>1 DEF GetJob
  <2>4. ASSUME NEW stage \in Stage PROVE ~JobFails(stage)
    BY <2>1 DEF JobFails
  <2>5. ~(Start \/ Wake \/ RunForever \/ RunOnce \/ PollPrivate \/ GetNothing \/ GetUnusable
          \/ GetFails \/ Crash \/ StopSignal \/ Tick \/ ServersStep)
    BY <2>1 DEF Start, Wake, RunForever, Vanish, RunOnce, PollPrivate, GetNothing, GetUnusable,
       GetFails, Crash, StopSignal, Tick, ServersStep
  <2>6. ~(JobPublishes \/ PostAnswered \/ PostRefused \/ PostFails \/ RecordHealth)
    BY <2>1 DEF JobPublishes, PostAnswered, PostRefused, PostFails, RecordHealth, RecordSuccess,
       RecordFailure
  <2>7. ~(BeginSave \/ FinishSave \/ FailSave)
    BY <2>2 DEF BeginSave, FinishSave, FailSave
  <2> QED
    BY <2>3, <2>4, <2>5, <2>6, <2>7 DEF Next, WorkerStep
<1> QED BY GateCorrect, <1>1, PTL DEF Spec, OnlyOperatorClears

-----------------------------------------------------------------------------
(* Results *)

\* The job in hand goes back to the row it came from; a success that is being posted,
\* or that a server still holds, is of a published row.
PostsInv ==
  /\ pc = "work" => ResultRow(job) = <<server, job.job_id>>
  /\ pc = "post" /\ verdict = 2 => ResultRow(job) \in published
  /\ \A r \in Row : latePosts[<<r, 2>>] > 0 => r \in published

TruthInv == ResultsAreTrue /\ PostsInv

LEMMA ApplyEffect ==
  ASSUME QueueTypeOK, NEW r \in Row, NEW v \in Verdict, ApplyResult(r, v),
         NEW q \in Row, row'[q] = "done"
  PROVE  row[q] = "done" \/ (q = r /\ v = 2)
BY DEF QueueTypeOK, ApplyResult, Closed, RowStatus

LEMMA UnseenEffect ==
  ASSUME QueueTypeOK, NEW s \in Server, UnseenGet(s), NEW q \in Row, row'[q] = "done"
  PROVE  row[q] = "done"
BY DEF QueueTypeOK, UnseenGet, Queued, HandOver, RowStatus

LEMMA TruthInit == Init => TruthInv
BY DEF Init, Idle, QueueInit, TruthInv, ResultsAreTrue, PostsInv, Verdict

LEMMA TruthStep == ControlInv /\ TruthInv /\ [Next]_vars => TruthInv'
<1> SUFFICES ASSUME ControlInv, TruthInv, [Next]_vars PROVE TruthInv' OBVIOUS
<1> USE DEF TruthInv, ResultsAreTrue, PostsInv
<1>q. QueueTypeOK /\ server \in Server
  BY DEF ControlInv, TypeOK
<1>j. pc = "post" => ResultRow(job) \in Row /\ verdict \in Verdict
  BY ResultRowType DEF ControlInv, TypeOK, JobInv, JobPC
<1>1. CASE Start \/ Wake \/ RunForever \/ RunOnce \/ PollPrivate \/ Crash \/ GetNothing
  BY <1>1 DEF Start, Wake, RunForever, Vanish, RunOnce, PollPrivate, EndRound, NextServer,
     Ask, Crash, GetNothing, NothingFetched
<1>2. CASE FinishSave \/ FailSave \/ BeginSave \/ RecordHealth
  BY <1>2 DEF FinishSave, FailSave, BeginSave, RecordHealth, JobOver
<1>3. CASE StopSignal \/ Tick \/ OperatorClears \/ UNCHANGED vars
  BY <1>3 DEF StopSignal, Tick, OperatorClears
<1>4. ASSUME NEW r \in Row, GetJob(r) PROVE TruthInv'
  <2>1. r = <<server, r[2]>> /\ r[2] \in JobId
    BY <1>4 DEF GetJob, Queued, Row
  <2>2. ResultRow(JobFrom(r)) = <<server, r[2]>>
    BY <1>q, WorkerAssumption DEF WorkerAssumption, JobFrom, ResultRow
  <2>3. (pc = "work" => ResultRow(job) = <<server, job.job_id>>)'
    BY <1>4, <2>2 DEF GetJob, ResultRow, JobFrom
  <2> QED
    BY <1>4, <1>q, <2>3 DEF GetJob, HandOver, QueueTypeOK
<1>5. CASE GetUnusable
  BY <1>5, <1>q, UnseenEffect DEF GetUnusable, NothingFetched
<1>6. CASE GetFails
  BY <1>6, <1>q, UnseenEffect DEF GetFails, AbandonGet, NothingFetched
<1>7. CASE JobPublishes
  BY <1>7 DEF JobPublishes, Report
<1>8. ASSUME NEW stage \in Stage, JobFails(stage) PROVE TruthInv'
  BY <1>8 DEF JobFails, Report
<1>9. CASE PostAnswered
  BY <1>9, <1>q, <1>j, ApplyEffect DEF PostAnswered
<1>10. CASE PostRefused
  BY <1>10 DEF PostRefused, PostGivesUp, Report
<1>11. CASE PostFails
  <2>1. \A q \in Row : row'[q] = "done" => q \in published
    BY <1>11, <1>q, <1>j, ApplyEffect DEF PostFails, AbandonPost
  <2>2. \A r \in Row : latePosts'[<<r, 2>>] > 0 => r \in published
    BY <1>11, <1>q, <1>j DEF PostFails, AbandonPost, QueueTypeOK, Verdict
  <2>3. (pc = "post" /\ verdict = 2)' => (pc = "post" /\ verdict = 2) /\ UNCHANGED job
    BY <1>11 DEF PostFails, PostGivesUp, Report
  <2>4. pc' # "work"
    BY <1>11 DEF PostFails, PostGivesUp, Report
  <2> QED
    BY <1>11, <2>1, <2>2, <2>3, <2>4 DEF PostFails, ResultRow
<1>12. CASE ServersStep
  <2> SUFFICES ASSUME QueueNext, UNCHANGED workerVars PROVE TruthInv'
    BY <1>12 DEF ServersStep
  <2>1. ASSUME NEW r \in Row, Enqueue(r) \/ Requeue(r) PROVE TruthInv'
    BY <2>1, <1>q DEF Enqueue, Requeue, QueueTypeOK
  <2>2. ASSUME NEW s \in Server, LateGetServed(s) PROVE TruthInv'
    BY <2>2, <1>q, UnseenEffect DEF LateGetServed
  <2>3. ASSUME NEW r \in Row, NEW v \in Verdict, LatePostServed(r, v) PROVE TruthInv'
    <3>1. \A q \in Row : latePosts'[<<q, 2>>] > 0 => latePosts[<<q, 2>>] > 0
      BY <2>3, <1>q DEF LatePostServed, QueueTypeOK, Verdict
    <3>2. \A q \in Row : row'[q] = "done" => q \in published
      BY <2>3, <1>q, ApplyEffect DEF LatePostServed
    <3> QED BY <3>1, <3>2
  <2> QED BY <2>1, <2>2, <2>3 DEF QueueNext
<1> QED
  BY <1>1, <1>2, <1>3, <1>4, <1>5, <1>6, <1>7, <1>8, <1>9, <1>10, <1>11, <1>12
  DEF Next, WorkerStep

\* A row that says "success" is a row whose own deck was published.
THEOREM ResultsCorrect == Spec => []ResultsAreTrue
<1>1. TruthInv => ResultsAreTrue
  BY DEF TruthInv
<1> QED BY ControlInit, ControlStep, TruthInit, TruthStep, <1>1, PTL DEF Spec

-----------------------------------------------------------------------------
(* The stop signal *)

\* The one late job leaves the loop no way back to a GET.
StopInv ==
  /\ ~stopping => lateStarts = 0
  /\ lateStarts \in {0, 1}
  /\ lateStarts = 1 => pc \notin {"once", "get", "off"}

LEMMA StopInit == Init => StopInv
BY DEF Init, Idle, StopInv

LEMMA StopStep == StopInv /\ [Next]_vars => StopInv'
<1> SUFFICES ASSUME StopInv, [Next]_vars PROVE StopInv' OBVIOUS
<1> USE DEF StopInv
<1>1. CASE Start \/ Wake \/ RunForever \/ RunOnce \/ Crash \/ StopSignal
  BY <1>1 DEF Start, Wake, RunForever, Vanish, RunOnce, Ask, Crash, StopSignal
<1>2. CASE PollPrivate
  BY <1>2 DEF PollPrivate, RoundOver, EndRound, NextServer, Ask
<1>3. CASE GetNothing \/ GetUnusable \/ GetFails
  BY <1>3 DEF GetNothing, GetUnusable, GetFails, NothingFetched
<1>4. ASSUME NEW r \in Row, GetJob(r) PROVE StopInv'
  BY <1>4 DEF GetJob
<1>5. CASE JobPublishes \/ PostAnswered \/ PostRefused \/ PostFails
  BY <1>5 DEF JobPublishes, PostAnswered, PostRefused, PostFails, PostGivesUp, Report
<1>6. ASSUME NEW stage \in Stage, JobFails(stage) PROVE StopInv'
  BY <1>6 DEF JobFails, Report
<1>7. CASE FinishSave \/ FailSave \/ BeginSave \/ RecordHealth
  BY <1>7 DEF FinishSave, FailSave, BeginSave, RecordHealth, JobOver
<1>8. CASE Tick \/ OperatorClears \/ ServersStep \/ UNCHANGED vars
  BY <1>8 DEF Tick, OperatorClears, ServersStep
<1> QED
  BY <1>1, <1>2, <1>3, <1>4, <1>5, <1>6, <1>7, <1>8 DEF Next, WorkerStep

\* After a stop signal at most one more job is started.
THEOREM StopCorrect == Spec => []StopTakesOneMore
<1>1. StopInv => StopTakesOneMore
  BY DEF StopInv, StopTakesOneMore
<1> QED BY StopInit, StopStep, <1>1, PTL DEF Spec

-----------------------------------------------------------------------------
(* The circuit breaker *)

\* A Health value whose two fields agree, as every saved one does.
Sound(h) == h \in Health /\ h.failures <= Limit /\ (h.down <=> h.failures = Limit)

\* What RecordHealth decides for the job that has just ended.
Decided == IF verdict = 2 THEN Fresh ELSE AfterFailure(Load(healthFile), errorStage)

\* The count that the save in progress was decided from, as far as it matters: of a clear
\* that came since, the file no longer tells.
CountRead ==
  IF pc = "truncate" /\ Counted THEN pending.failures - 1 ELSE Load(healthFile).failures

\* Inductive when saves are whole and the gate is not bypassed.
BreakerInv ==
  /\ Sound(Load(healthFile))
  /\ Sound(pending)
  /\ cleared => pc \in {"truncate", "write"} /\ Load(healthFile) = Fresh
  /\ pc = "truncate" => /\ pending.failures = IF Counted THEN CountRead + 1 ELSE 0
                        /\ ~cleared => CountRead = Load(healthFile).failures
  /\ pc = "write" => Load(healthFile) = Fresh
  /\ streak <= Limit
  /\ pc = "write" => streak = pending.failures
  /\ pc # "write" => streak = CountRead \/ (cleared /\ ~Counted)

\* WORKER_IGNORE_HEALTH is not set and no save is cut short.
Reliable == IgnoreHealth = FALSE /\ "torn_save" \notin Faults

LEMMA FreshSound == Sound(Fresh)
BY HealthAssumption DEF HealthAssumption, Sound, Fresh, Health

LEMMA UnreadableLoad == Load(Unreadable) = Fresh
BY DEF Load

LEMMA SoundLoad == ASSUME NEW h, Sound(h) PROVE Load(h) = h
BY HealthAssumption DEF HealthAssumption, Load, Sound

LEMMA AfterFailureSound ==
  ASSUME NEW h, Sound(h), ~h.down, NEW stage
  PROVE  /\ Sound(AfterFailure(h, stage))
         /\ AfterFailure(h, stage).failures =
              IF stage \in MachineStages THEN h.failures + 1 ELSE 0
<1>1. h \in Health /\ h.failures < Limit /\ Limit \in Nat \ {0} /\ h.failures \in Nat
  BY HealthAssumption DEF HealthAssumption, Sound, Health
<1>2. CASE stage \in MachineStages
  <2>1. AfterFailure(h, stage) =
          [failures |-> h.failures + 1, down |-> h.down \/ h.failures + 1 >= Limit]
    BY <1>2 DEF AfterFailure
  <2>2. AfterFailure(h, stage).down <=> h.failures + 1 = Limit
    <3>1. h.failures + 1 >= Limit <=> h.failures + 1 = Limit
      BY <1>1
    <3>2. AfterFailure(h, stage).down = (h.down \/ h.failures + 1 >= Limit)
      BY <2>1
    <3> QED BY <3>1, <3>2
  <2>3. AfterFailure(h, stage) \in Health
    BY <1>1, AfterFailureType
  <2> QED BY <1>1, <1>2, <2>1, <2>2, <2>3 DEF Sound
<1>3. CASE stage \notin MachineStages
  <2>1. AfterFailure(h, stage) = [h EXCEPT !.failures = 0]
    BY <1>3 DEF AfterFailure
  <2>2. AfterFailure(h, stage).failures = 0 /\ ~AfterFailure(h, stage).down
    BY <1>1, <2>1 DEF Health
  <2>3. AfterFailure(h, stage) \in Health
    BY <1>1, AfterFailureType
  <2> QED BY <1>1, <1>3, <2>2, <2>3 DEF Sound
<1> QED BY <1>2, <1>3

LEMMA BreakerInit == Init => BreakerInv
<1> SUFFICES ASSUME Init PROVE BreakerInv OBVIOUS
<1>1. /\ Load(healthFile) = Fresh /\ pending = Fresh /\ pc = "off"
      /\ streak = 0 /\ cleared = FALSE
  BY UnreadableLoad DEF Init, Idle, HealthInit
<1>2. Fresh.failures = 0 /\ 0 <= Limit
  BY HealthAssumption DEF HealthAssumption, Fresh
<1> QED BY <1>1, <1>2, FreshSound DEF BreakerInv, CountRead

\* A step that leaves the file, the count and the pending value alone keeps BreakerInv
\* if it does not touch a save in progress.
LEMMA BreakerFrame ==
  ASSUME BreakerInv, UNCHANGED <<healthFile, streak, cleared>>,
         pc \notin {"truncate", "write"}, pc' \notin {"truncate", "write"},
         pending' = pending \/ pending' = Fresh
  PROVE  BreakerInv'
<1>1. Load(healthFile)' = Load(healthFile)
  BY DEF Load
<1>2. Sound(Load(healthFile))'
  BY <1>1 DEF BreakerInv, Sound
<1>3. Sound(pending)'
  BY FreshSound DEF BreakerInv, Sound
<1>4. streak' = CountRead' /\ ~cleared'
  BY <1>1 DEF BreakerInv, CountRead
<1>5. streak' <= Limit
  BY DEF BreakerInv
<1> QED BY <1>2, <1>3, <1>4, <1>5 DEF BreakerInv

\* A process that ends keeps it too: a clear that its save was about to overwrite stands.
LEMMA VanishKeeps ==
  ASSUME BreakerInv, Vanish, pc # "write"
  PROVE  BreakerInv'
<1>1. /\ Load(healthFile)' = Load(healthFile) /\ pending' = Fresh /\ pc' = "off"
      /\ cleared' = FALSE
  BY DEF Vanish, Load
<1>2. Sound(Load(healthFile))'
  BY <1>1 DEF BreakerInv, Sound
<1>3. Sound(pending)'
  BY <1>1, FreshSound DEF Sound
<1>4. CountRead' = Load(healthFile).failures
  BY <1>1 DEF CountRead
<1>5. streak' = Load(healthFile).failures /\ streak' <= Limit
  <2>1. CASE cleared
    <3>1. streak' = 0 /\ Load(healthFile) = Fresh
      BY <2>1 DEF Vanish, BreakerInv
    <3> QED BY <3>1, HealthAssumption DEF HealthAssumption, Fresh
  <2>2. CASE ~cleared
    <3>1. streak' = streak
      BY <2>2 DEF Vanish
    <3>2. CountRead = Load(healthFile).failures
      BY <2>2 DEF BreakerInv, CountRead
    <3> QED BY <2>2, <3>1, <3>2 DEF BreakerInv
  <2> QED BY <2>1, <2>2 DEF ControlInv, TypeOK
<1> QED BY <1>1, <1>2, <1>3, <1>4, <1>5 DEF BreakerInv

\* BeginSave is where the count of the job takes effect.
LEMMA BeginSaveCounts ==
  ASSUME ControlInv, BreakerInv, BeginSave
  PROVE  streak' = pending.failures
<1>1. /\ pending.failures = IF Counted THEN CountRead + 1 ELSE 0
      /\ streak = CountRead \/ (cleared /\ ~Counted)
      /\ streak' = CountedOn(streak)
  BY DEF BeginSave, BreakerInv
<1>2. CASE ~Counted
  BY <1>1, <1>2 DEF CountedOn
<1>3. CASE Counted
  <2>1. streak = CountRead /\ pending.failures = streak + 1
    BY <1>1, <1>3
  <2>2. streak \in Nat /\ Limit \in Nat /\ pending.failures <= Limit
    BY HealthAssumption DEF HealthAssumption, BreakerInv, Sound, ControlInv, TypeOK
  <2> QED BY <1>1, <1>3, <2>1, <2>2 DEF CountedOn
<1> QED BY <1>2, <1>3

LEMMA BreakerStep ==
  ASSUME Reliable
  PROVE  ControlInv /\ WorksOnlyWhenHealthy /\ BreakerInv /\ [Next]_vars => BreakerInv'
<1> SUFFICES ASSUME ControlInv, WorksOnlyWhenHealthy, BreakerInv, [Next]_vars PROVE BreakerInv'
  OBVIOUS
<1>1. CASE Start \/ Wake \/ RunOnce \/ PollPrivate
  BY <1>1, BreakerFrame DEF Start, Wake, RunOnce, PollPrivate, EndRound, NextServer, Ask
<1>2. CASE Crash \/ RunForever
  <2>1. CASE Vanish
    BY <1>2, <2>1, VanishKeeps DEF Crash, RunForever, Reliable
  <2>2. CASE ~Vanish
    BY <1>2, <2>2, BreakerFrame DEF Crash, RunForever
  <2> QED BY <2>1, <2>2
<1>3. CASE GetNothing \/ GetUnusable \/ GetFails
  BY <1>3, BreakerFrame DEF GetNothing, GetUnusable, GetFails, NothingFetched
<1>4. ASSUME NEW r \in Row, GetJob(r) PROVE BreakerInv'
  BY <1>4, BreakerFrame DEF GetJob
<1>5. CASE JobPublishes \/ PostAnswered \/ PostRefused \/ PostFails
  BY <1>5, BreakerFrame DEF JobPublishes, PostAnswered, PostRefused, PostFails, PostGivesUp, Report
<1>6. ASSUME NEW stage \in Stage, JobFails(stage) PROVE BreakerInv'
  BY <1>6, BreakerFrame DEF JobFails, Report
<1>7. CASE RecordHealth
  <2>1. ~Load(healthFile).down
    BY <1>7 DEF RecordHealth, WorksOnlyWhenHealthy, Reliable, IsDown
  <2>2. Sound(Decided)
    BY <2>1, FreshSound, AfterFailureSound DEF Decided, BreakerInv
  <2>3. /\ pending' = Decided /\ pc = "record" /\ pc' = "truncate"
        /\ UNCHANGED <<healthFile, streak, cleared, verdict, errorStage>>
    BY <1>7 DEF RecordHealth, RecordSuccess, RecordFailure, Decided
  <2>4. ~cleared /\ streak = Load(healthFile).failures /\ streak <= Limit
    BY <2>3 DEF BreakerInv, CountRead
  <2>5. Decided.failures = IF Counted THEN Load(healthFile).failures + 1 ELSE 0
    <3>1. verdict \in {2, 3}
      BY DEF ControlInv, TypeOK, Verdict
    <3>2. CASE verdict = 2
      BY <3>2 DEF Decided, Counted, Fresh
    <3>3. CASE verdict = 3
      BY <2>1, <3>3, AfterFailureSound DEF Decided, Counted, BreakerInv
    <3> QED BY <3>1, <3>2, <3>3
  <2>6. Counted' = Counted /\ Load(healthFile)' = Load(healthFile)
    BY <2>3 DEF Counted, Load
  <2>7. Load(healthFile).failures \in Nat
    BY DEF BreakerInv, Sound, Health
  <2>8. CountRead' = Load(healthFile).failures
    BY <2>3, <2>5, <2>6, <2>7 DEF CountRead
  <2>9. Sound(Load(healthFile))' /\ Sound(pending)'
    BY <2>2, <2>3, <2>6 DEF BreakerInv, Sound
  <2> QED BY <2>3, <2>4, <2>5, <2>6, <2>8, <2>9 DEF BreakerInv
<1>8. CASE BeginSave
  <2>1. streak' = pending.failures
    BY <1>8, BeginSaveCounts
  <2>2. pc' = "write" /\ healthFile' = Unreadable /\ UNCHANGED <<pending, cleared>>
    BY <1>8 DEF BeginSave, SaveTruncate
  <2>3. Load(healthFile)' = Fresh
    BY <2>2, UnreadableLoad DEF Load
  <2>4. pending.failures <= Limit
    BY DEF BreakerInv, Sound
  <2> QED
    BY <2>1, <2>2, <2>3, <2>4, FreshSound DEF BreakerInv, Sound
<1>9. CASE FinishSave
  <2>1. Load(pending) = pending
    BY SoundLoad DEF BreakerInv
  <2>2. /\ healthFile' = pending /\ pending' = Fresh /\ pc = "write"
        /\ pc' \in {"loop", "round"} /\ cleared' = FALSE /\ streak' = streak
    BY <1>9 DEF FinishSave, SaveWrite, JobOver
  <2>3. Load(healthFile)' = pending
    BY <2>1, <2>2 DEF Load
  <2>4. CountRead' = pending.failures
    BY <2>2, <2>3 DEF CountRead
  <2> QED
    BY <2>2, <2>3, <2>4, FreshSound DEF BreakerInv, Sound
<1>10. CASE FailSave
  BY <1>10 DEF FailSave, Reliable
<1>11. CASE OperatorClears
  <2>1. /\ healthFile' = Fresh /\ UNCHANGED <<pending, pc, verdict, errorStage>>
        /\ cleared' = (pc \in {"truncate", "write"})
        /\ streak' = IF cleared' THEN streak ELSE 0
    BY <1>11 DEF OperatorClears, Clear, jobVars
  <2>2. Load(healthFile)' = Fresh /\ Sound(Fresh) /\ Fresh.failures = 0
    BY <2>1, FreshSound, SoundLoad DEF Load, Fresh
  <2>3. Counted' = Counted
    BY <2>1 DEF Counted
  <2>4. Sound(Load(healthFile))' /\ Sound(pending)'
    BY <2>1, <2>2 DEF BreakerInv, Sound
  <2>5. CASE pc = "truncate"
    <3>1. cleared' /\ streak' = streak
      BY <2>1, <2>5
    <3>2. CASE Counted
      <4>1. streak = CountRead /\ CountRead' = CountRead
        BY <2>1, <2>3, <2>5, <3>2 DEF BreakerInv, CountRead
      <4> QED BY <2>1, <2>2, <2>3, <2>4, <2>5, <3>1, <3>2, <4>1 DEF BreakerInv
    <3>3. CASE ~Counted
      BY <2>1, <2>2, <2>3, <2>4, <2>5, <3>1, <3>3 DEF BreakerInv
    <3> QED BY <3>2, <3>3
  <2>6. CASE pc = "write"
    BY <2>1, <2>2, <2>4, <2>6 DEF BreakerInv
  <2>7. CASE pc \notin {"truncate", "write"}
    <3>1. ~cleared' /\ streak' = 0 /\ CountRead' = 0
      BY <2>1, <2>2, <2>7 DEF CountRead
    <3>2. 0 <= Limit
      BY HealthAssumption DEF HealthAssumption
    <3> QED BY <2>1, <2>2, <2>4, <2>7, <3>1, <3>2 DEF BreakerInv
  <2> QED BY <2>5, <2>6, <2>7
<1>12. CASE StopSignal \/ Tick \/ ServersStep \/ UNCHANGED vars
  <2>1. UNCHANGED <<healthFile, pending, pc, streak, cleared, verdict, errorStage>>
    BY <1>12 DEF StopSignal, Tick, ServersStep
  <2>2. Load(healthFile)' = Load(healthFile) /\ CountRead' = CountRead /\ Counted' = Counted
    BY <2>1 DEF Load, CountRead, Counted
  <2> QED BY <2>1, <2>2 DEF BreakerInv, Sound
<1> QED
  BY <1>1, <1>2, <1>3, <1>4, <1>5, <1>6, <1>7, <1>8, <1>9, <1>10, <1>11, <1>12
  DEF Next, WorkerStep

\* With whole saves, a machine that fails every job costs at most Limit of them,
\* however often the process is killed and restarted, and whenever the operator clears.
THEOREM LossCorrect ==
  ASSUME Reliable
  PROVE  Spec => []LossBounded
<1>1. ControlInv /\ BreakerInv => LossBounded
  BY DEF BreakerInv, LossBounded
<1> QED
  BY ControlInit, ControlStep, GateInit, GateStep, BreakerInit, BreakerStep, <1>1, PTL DEF Spec

\* The worker goes out of service only after Limit machine failures in a row, whenever the
\* operator clears: only a clear that one save overwrites does not start the row again.
THEOREM LimitCorrect ==
  ASSUME Reliable
  PROVE  Spec => GoesDownOnlyAtLimit
<1>1. ControlInv /\ BreakerInv /\ WorksOnlyWhenHealthy /\ IsDown => streak >= Limit
  <2> SUFFICES ASSUME ControlInv, BreakerInv, WorksOnlyWhenHealthy, IsDown
               PROVE  streak >= Limit
    OBVIOUS
  <2>1. pc \notin {"truncate", "write"}
    BY DEF WorksOnlyWhenHealthy, Reliable
  <2>2. streak = Load(healthFile).failures
    BY <2>1 DEF BreakerInv, CountRead
  <2> QED
    BY <2>2, HealthAssumption DEF HealthAssumption, BreakerInv, Sound, IsDown
<1>2. (ControlInv /\ BreakerInv /\ WorksOnlyWhenHealthy)' /\ [Next]_vars
        => [~IsDown /\ IsDown' => streak' >= Limit]_vars
  <2> SUFFICES ASSUME (ControlInv /\ BreakerInv /\ WorksOnlyWhenHealthy /\ IsDown)'
               PROVE  streak' >= Limit
    OBVIOUS
  <2>1. (ControlInv /\ BreakerInv /\ WorksOnlyWhenHealthy /\ IsDown => streak >= Limit)'
    BY <1>1, PTL
  <2> QED BY <2>1
<1> QED
  BY ControlInit, ControlStep, GateInit, GateStep, BreakerInit, BreakerStep, <1>2, PTL
  DEF Spec, GoesDownOnlyAtLimit

-----------------------------------------------------------------------------
(* The contract *)

LEMMA ContractInit ==
  ASSUME Init PROVE Breaker!Init
<1>1. healthFile = Unreadable /\ pc = "off"
  BY DEF Init, HealthInit, Idle
<1> QED BY <1>1, UnreadableLoad DEF Breaker!Init, Fresh

\* The refinement mapping reads pc, the file and the pending value: a step that keeps
\* the count and does not move pc in or out of the job is a stutter.
LEMMA ContractStutter ==
  ASSUME UNCHANGED healthFile, pc \notin {"truncate", "write"}, pc' \notin {"truncate", "write"},
         pc \in {"work", "post", "record", "truncate"}
           <=> pc' \in {"work", "post", "record", "truncate"}
  PROVE  UNCHANGED Breaker!vars
BY DEF Breaker!vars, Load

LEMMA ContractStep ==
  ASSUME Reliable
  PROVE  ControlInv /\ WorksOnlyWhenHealthy /\ BreakerInv /\ [Next]_vars
           => [Breaker!Next]_(Breaker!vars)
<1> SUFFICES ASSUME ControlInv, WorksOnlyWhenHealthy, BreakerInv, [Next]_vars
             PROVE  Breaker!Next \/ UNCHANGED Breaker!vars
  OBVIOUS
<1>1. CASE Start \/ Wake \/ RunOnce \/ PollPrivate
  BY <1>1, ContractStutter DEF Start, Wake, RunOnce, PollPrivate, EndRound, NextServer, Ask
<1>2. CASE RunForever
  BY <1>2, ContractStutter DEF RunForever, Vanish
<1>3. CASE GetNothing \/ GetUnusable \/ GetFails
  BY <1>3, ContractStutter DEF GetNothing, GetUnusable, GetFails, NothingFetched
<1>4. ASSUME NEW r \in Row, GetJob(r) PROVE Breaker!TakeJob
  <2>1. Load(healthFile).failures < Limit
    BY <1>4, HealthAssumption
    DEF HealthAssumption, GetJob, WorksOnlyWhenHealthy, Reliable, IsDown, BreakerInv, Sound, Health
  <2> QED BY <1>4, <2>1 DEF GetJob, Breaker!TakeJob, Load
<1>5. CASE JobPublishes \/ PostAnswered \/ PostRefused \/ PostFails
  BY <1>5, ContractStutter
  DEF JobPublishes, PostAnswered, PostRefused, PostFails, PostGivesUp, Report
<1>6. ASSUME NEW stage \in Stage, JobFails(stage) PROVE UNCHANGED Breaker!vars
  BY <1>6, ContractStutter DEF JobFails, Report
<1>7. CASE RecordHealth
  <2>1. pc = "record" /\ pc' = "truncate"
    BY <1>7 DEF RecordHealth
  <2>2. BreakerInv'
    BY <1>7, BreakerStep
  <2>3. CountRead' = Load(healthFile)'.failures /\ Load(healthFile)' = Load(healthFile)
    <3>1. UNCHANGED <<healthFile, cleared>>
      BY <1>7 DEF RecordHealth, RecordSuccess, RecordFailure
    <3>2. ~cleared'
      BY <2>1, <3>1 DEF BreakerInv
    <3> QED BY <2>1, <2>2, <3>1, <3>2 DEF BreakerInv, Load
  <2> QED BY <2>1, <2>3 DEF Breaker!vars, CountRead
<1>8. CASE BeginSave
  <2>1. pc = "truncate" /\ pc' = "write" /\ pending' = pending
    BY <1>8 DEF BeginSave, SaveTruncate
  <2>2. CASE Counted
    <3>1. pending.failures = pending.failures - 1 + 1
      BY DEF BreakerInv, Sound, Health
    <3> QED BY <2>1, <2>2, <3>1 DEF Breaker!Next, Breaker!EndBadly
  <2>3. CASE ~Counted
    <3>1. pending.failures = 0
      BY <2>1, <2>3 DEF BreakerInv
    <3> QED BY <2>1, <3>1 DEF Breaker!Next, Breaker!EndWell
  <2> QED BY <2>2, <2>3
<1>9. CASE FinishSave
  <2>1. healthFile' = pending /\ Load(pending) = pending
    BY <1>9, SoundLoad DEF FinishSave, SaveWrite, BreakerInv
  <2>2. pc = "write" /\ pc' \in {"loop", "round"}
    BY <1>9 DEF FinishSave, JobOver
  <2> QED
    BY <2>1, <2>2 DEF Breaker!vars, Load
<1>10. CASE FailSave
  BY <1>10 DEF FailSave, Reliable
<1>11. CASE Crash
  <2>1. pc # "write" /\ pc' = "off" /\ UNCHANGED healthFile
    BY <1>11 DEF Crash, Vanish, Reliable
  <2>2. CASE pc \in {"work", "post", "record"}
    BY <2>1, <2>2 DEF Breaker!Next, Breaker!LoseJob, Load
  <2>3. CASE pc = "truncate"
    <3>1. Load(healthFile).failures \in {CountRead, 0}
      <4>1. CASE cleared
        BY <4>1 DEF BreakerInv, Fresh
      <4>2. CASE ~cleared
        BY <2>3, <4>2 DEF BreakerInv
      <4> QED BY <4>1, <4>2
    <3> QED BY <2>1, <2>3, <3>1 DEF Breaker!Next, Breaker!LoseJob, CountRead, Load
  <2>4. CASE pc \notin {"work", "post", "record", "truncate"}
    BY <2>1, <2>4, ContractStutter
  <2> QED BY <2>2, <2>3, <2>4
<1>12. CASE OperatorClears
  <2>1. healthFile' = Fresh /\ UNCHANGED <<pc, pending, verdict, errorStage>>
    BY <1>12 DEF OperatorClears, Clear, jobVars
  <2>2. Load(healthFile)'.failures = 0
    BY <2>1, FreshSound, SoundLoad DEF Fresh, Load
  <2>3. Counted' = Counted
    BY <2>1 DEF Counted
  <2>4. CASE pc = "write" \/ (pc = "truncate" /\ Counted)
    BY <2>1, <2>3, <2>4 DEF Breaker!vars
  <2>5. CASE ~(pc = "write" \/ (pc = "truncate" /\ Counted))
    BY <2>1, <2>2, <2>3, <2>5 DEF Breaker!Next, Breaker!PutBack
  <2> QED BY <2>4, <2>5
<1>13. CASE StopSignal \/ Tick \/ ServersStep \/ UNCHANGED vars
  BY <1>13 DEF StopSignal, Tick, ServersStep, Breaker!vars, Load, Counted
<1> QED
  BY <1>1, <1>2, <1>3, <1>4, <1>5, <1>6, <1>7, <1>8, <1>9, <1>10, <1>11, <1>12, <1>13
  DEF Next, WorkerStep, Breaker!Next

\* The worker implements the promise of worker/health.py.
THEOREM ContractCorrect ==
  ASSUME Reliable
  PROVE  Spec => KeepsHealthPromise
<1>1. Init => Breaker!Init
  BY ContractInit
<1> QED
  BY <1>1, ControlInit, ControlStep, GateInit, GateStep, BreakerInit, BreakerStep, ContractStep,
     PTL DEF Spec, KeepsHealthPromise, Breaker!Spec

-----------------------------------------------------------------------------
(* The private round *)

\* The most jobs that p whole turns of a private server can run.
Quota(p) == MaxPerRound * p

LEMMA QuotaFacts ==
  /\ Quota(0) = 0
  /\ \A p \in Nat : Quota(p) \in Nat /\ Quota(p + 1) = Quota(p) + MaxPerRound
  /\ \A p, q \in Nat : p <= q => Quota(p) <= Quota(q)
<1>1. MaxPerRound \in Nat \ {0}
  BY WorkerAssumption DEF WorkerAssumption
<1>2. \A p \in Nat : Quota(p) \in Nat /\ Quota(p + 1) = Quota(p) + MaxPerRound
  BY <1>1 DEF Quota
<1>3. ASSUME NEW p \in Nat, NEW q \in Nat, p <= q PROVE Quota(p) <= Quota(q)
  <2>1. MaxPerRound * (q - p) >= 0
    BY <1>1, <1>3
  <2>2. MaxPerRound * q = MaxPerRound * p + MaxPerRound * (q - p)
    BY <1>1, <1>3
  <2> QED BY <1>1, <2>1, <2>2 DEF Quota
<1> QED BY <1>1, <1>2, <1>3 DEF Quota

\* How far the round has got bounds the jobs it has run.
RoundInv ==
  /\ pc \in {"off", "sleep"} => waited = 0
  /\ pc \in {"loop", "once"} /\ due => waited = 0
  /\ pc \in {"loop", "once"} => waited <= Quota(Len(PrivateUrls))
  /\ pc = "round" =>
       /\ position <= Len(PrivateUrls) + 1
       /\ waited <= Quota(position - 1) + taken
       /\ IF position > Len(PrivateUrls) THEN taken = 0 ELSE taken <= MaxPerRound
  /\ pc \in JobPC \cup {"get"} /\ server = Shared => waited = 0
  /\ pc \in JobPC \cup {"get"} /\ server # Shared =>
       /\ position <= Len(PrivateUrls)
       /\ taken < MaxPerRound
       /\ waited <= Quota(position - 1) + taken + (IF pc = "get" THEN 0 ELSE 1)

LEMMA RoundInit == Init => RoundInv
BY DEF Init, Idle, RoundInv, JobPC

LEMMA RoundStep == ControlInv /\ RoundInv /\ [Next]_vars => RoundInv'
<1> SUFFICES ASSUME ControlInv, RoundInv, [Next]_vars PROVE RoundInv' OBVIOUS
<1> USE DEF RoundInv, JobPC
<1>a. /\ position \in Nat \ {0} /\ taken \in Nat /\ waited \in Nat
      /\ Len(PrivateUrls) \in Nat /\ MaxPerRound \in Nat \ {0}
      /\ position - 1 \in Nat /\ (position - 1) + 1 = position
  BY PrivateUrlType, WorkerAssumption DEF ControlInv, TypeOK, WorkerAssumption
<1>b. /\ Quota(position - 1) \in Nat /\ Quota(position) = Quota(position - 1) + MaxPerRound
      /\ Quota(Len(PrivateUrls)) \in Nat /\ Quota(0) = 0
      /\ position <= Len(PrivateUrls) => Quota(position) <= Quota(Len(PrivateUrls))
      /\ position - 1 <= Len(PrivateUrls) => Quota(position - 1) <= Quota(Len(PrivateUrls))
      /\ (position + 1) - 1 = position
  <2>1. /\ Quota(position - 1) \in Nat
        /\ Quota((position - 1) + 1) = Quota(position - 1) + MaxPerRound
    BY <1>a, QuotaFacts
  <2>2. /\ Quota(Len(PrivateUrls)) \in Nat /\ Quota(0) = 0
        /\ position <= Len(PrivateUrls) => Quota(position) <= Quota(Len(PrivateUrls))
        /\ position - 1 <= Len(PrivateUrls) => Quota(position - 1) <= Quota(Len(PrivateUrls))
    BY <1>a, QuotaFacts
  <2> QED BY <1>a, <2>1, <2>2
<1>c. \A i \in Nat \ {0} : i <= Len(PrivateUrls) => PrivateUrls[i] # Shared
  BY PrivateUrlType
<1>1. CASE Start \/ Wake \/ Crash
  BY <1>1, <1>b DEF Start, Wake, Crash, Vanish
<1>2. CASE RunForever
  BY <1>2 DEF RunForever, Vanish
<1>3. CASE RunOnce
  <2>1. CASE ~ShouldTakeWork
    BY <1>3, <2>1 DEF RunOnce
  <2>2. CASE ShouldTakeWork /\ PrivateUrls # <<>> /\ due
    <3>1. pc = "once" /\ pc' = "round" /\ position' = 1 /\ taken' = 0 /\ waited' = 0
      BY <1>3, <2>2 DEF RunOnce
    <3>2. position' - 1 = 0
      BY <3>1
    <3>3. waited' <= Quota(position' - 1) + taken'
      BY <3>1, <3>2, <1>b
    <3> QED BY <3>1, <3>3, <1>a
  <2>3. CASE ShouldTakeWork /\ ~(PrivateUrls # <<>> /\ due)
    BY <1>3, <2>3 DEF RunOnce, Ask
  <2> QED BY <2>1, <2>2, <2>3
<1>4. CASE PollPrivate
  <2>1. CASE RoundOver
    BY <1>4, <2>1, <1>a, <1>b DEF PollPrivate, EndRound
  <2>2. CASE ~RoundOver /\ ~MayTakeMore
    BY <1>4, <2>2, <1>a, <1>b DEF PollPrivate, NextServer, RoundOver
  <2>3. CASE ~RoundOver /\ MayTakeMore
    <3>1. /\ pc = "round" /\ position <= Len(PrivateUrls) /\ taken < MaxPerRound
          /\ waited <= Quota(position - 1) + taken
      BY <1>4, <2>3, <1>a DEF PollPrivate, RoundOver, MayTakeMore
    <3>2. /\ pc' = "get" /\ server' = PrivateUrls[position]
          /\ position' = position /\ taken' = taken /\ waited' = waited
      BY <1>4, <2>3 DEF PollPrivate, Ask, loopVars, seenVars
    <3>3. server' # Shared
      BY <3>1, <3>2, <1>a, <1>c
    <3>4. waited' <= Quota(position' - 1) + taken' + 0
      BY <3>1, <3>2, <1>a, <1>b
    <3> QED BY <3>1, <3>2, <3>3, <3>4
  <2> QED BY <2>1, <2>2, <2>3
<1>5. CASE (pc = "get" /\ NothingFetched /\ UNCHANGED waited)
  BY <1>5, <1>a, <1>b DEF NothingFetched
<1>6. CASE GetNothing \/ GetUnusable
  BY <1>6, <1>5 DEF GetNothing, GetUnusable
<1>7. CASE GetFails
  BY <1>7, <1>5 DEF GetFails
<1>8. ASSUME NEW r \in Row, GetJob(r) PROVE RoundInv'
  BY <1>8, <1>a, <1>b DEF GetJob
<1>9. CASE JobPublishes \/ PostAnswered \/ PostRefused \/ PostFails
  BY <1>9 DEF JobPublishes, PostAnswered, PostRefused, PostFails, PostGivesUp, Report
<1>10. ASSUME NEW stage \in Stage, JobFails(stage) PROVE RoundInv'
  BY <1>10 DEF JobFails, Report
<1>11. CASE RecordHealth \/ BeginSave
  BY <1>11 DEF RecordHealth, BeginSave
<1>12. CASE FinishSave \/ FailSave
  <2>1. /\ pc \in JobPC \ {"get"} /\ JobOver /\ waited' = waited /\ position' = position
    BY <1>12 DEF FinishSave, FailSave, JobOver
  <2>2. CASE server = Shared
    <3>1. pc' = "loop" /\ waited' = 0
      BY <2>1, <2>2 DEF JobOver
    <3> QED BY <3>1, <1>b, <1>a
  <2>3. CASE server # Shared
    <3>1. /\ position <= Len(PrivateUrls) /\ taken < MaxPerRound
          /\ waited <= Quota(position - 1) + taken + 1
      BY <2>1, <2>3
    <3>2. pc' = "round" /\ taken' = taken + 1
      BY <2>1, <2>3 DEF JobOver
    <3>3. waited' <= Quota(position' - 1) + taken'
      BY <2>1, <3>1, <3>2, <1>a, <1>b
    <3> QED BY <2>1, <3>1, <3>2, <3>3, <1>a
  <2> QED BY <2>2, <2>3
<1>13. CASE StopSignal \/ Tick \/ OperatorClears \/ ServersStep \/ UNCHANGED vars
  BY <1>13 DEF StopSignal, Tick, OperatorClears, ServersStep
<1> QED
  BY <1>1, <1>2, <1>3, <1>4, <1>6, <1>7, <1>8, <1>9, <1>10, <1>11, <1>12, <1>13
  DEF Next, WorkerStep

\* The shared queue never waits for more than one round of the private ones.
THEOREM RoundCorrect == Spec => []SharedWaitsOneRound
<1>1. ControlInv /\ RoundInv => SharedWaitsOneRound
  <2> SUFFICES ASSUME ControlInv, RoundInv PROVE waited <= Quota(Len(PrivateUrls))
    BY DEF SharedWaitsOneRound, Quota
  <2>1. /\ position \in Nat \ {0} /\ taken \in Nat /\ waited \in Nat
        /\ Len(PrivateUrls) \in Nat /\ MaxPerRound \in Nat \ {0}
        /\ pc \in PC
    BY PrivateUrlType, WorkerAssumption DEF ControlInv, TypeOK, WorkerAssumption
  <2>2. /\ Quota(position - 1) \in Nat /\ Quota(Len(PrivateUrls)) \in Nat
        /\ Quota((position - 1) + 1) = Quota(position - 1) + MaxPerRound
        /\ position <= Len(PrivateUrls) => Quota(position) <= Quota(Len(PrivateUrls))
        /\ position - 1 <= Len(PrivateUrls) => Quota(position - 1) <= Quota(Len(PrivateUrls))
    <3>1. position - 1 \in Nat
      BY <2>1
    <3> QED BY <2>1, <3>1, QuotaFacts
  <2>3. (position - 1) + 1 = position
    BY <2>1
  <2>4. CASE pc \in {"off", "sleep", "loop", "once"}
    BY <2>1, <2>2, <2>4 DEF RoundInv
  <2>5. CASE pc = "round"
    BY <2>1, <2>2, <2>3, <2>5 DEF RoundInv
  <2>6. CASE pc \in JobPC \cup {"get"}
    BY <2>1, <2>2, <2>3, <2>6 DEF RoundInv
  <2> QED BY <2>1, <2>4, <2>5, <2>6 DEF PC, JobPC
<1> QED BY ControlInit, ControlStep, RoundInit, RoundStep, <1>1, PTL DEF Spec

-----------------------------------------------------------------------------
(* A job in hand and a stop signal both come to an end *)

\* The request being made is one of those that it may be made in.
AttemptInv ==
  /\ pc = "get" => attempt <= GetAttempts
  /\ pc = "post" => attempt <= PostAttempts

\* The requests that get_next_job and send_job_result may still make.
GetsLeft == GetAttempts - attempt + 1
PostsLeft == PostAttempts - attempt + 1

\* How many steps the worker has left at most until its job is over and, once it is told to
\* stop, until it ends.  A success may be posted until it is given up, and then its failure.
StepsLeft ==
  CASE pc = "off"      -> 0
    [] pc = "loop"     -> 1
    [] pc = "sleep"    -> 2
    [] pc = "round"    -> 2
    [] pc = "write"    -> 3
    [] pc = "truncate" -> 4
    [] pc = "record"   -> 5
    [] pc = "post"     -> 5 + PostsLeft + IF verdict = 2 THEN PostAttempts ELSE 0
    [] pc = "work"     -> 6 + PostAttempts + PostAttempts
    [] pc = "get"      -> 6 + PostAttempts + PostAttempts + GetsLeft
    [] pc = "once"     -> 7 + PostAttempts + PostAttempts + GetAttempts

\* What has begun: a fetch, a job, or the way out.
UnderWay == stopping \/ job # NoJob \/ pc = "get"

LEMMA AttemptNumbers ==
  ASSUME TypeOK, AttemptInv
  PROVE  /\ GetAttempts \in Nat \ {0} /\ PostAttempts \in Nat \ {0}
         /\ pc = "get" => GetsLeft \in 1..GetAttempts
         /\ pc = "post" => PostsLeft \in 1..PostAttempts
BY WorkerAssumption DEF WorkerAssumption, AttemptInv, TypeOK, GetsLeft, PostsLeft

LEMMA AttemptStep == ControlInv /\ AttemptInv /\ [Next]_vars => AttemptInv'
<1> SUFFICES ASSUME ControlInv, AttemptInv, [Next]_vars PROVE AttemptInv' OBVIOUS
<1>n. /\ GetAttempts \in Nat \ {0} /\ PostAttempts \in Nat \ {0} /\ attempt \in Nat \ {0}
      /\ 1 <= GetAttempts /\ 1 <= PostAttempts
  BY WorkerAssumption DEF WorkerAssumption, ControlInv, TypeOK
<1> USE DEF AttemptInv
<1>1. CASE pc' \notin {"get", "post"} BY <1>1
<1>2. CASE attempt' = 1 BY <1>2, <1>n
<1>3. CASE pc' = pc /\ attempt' = attempt BY <1>3
<1>4. CASE Start \/ RunForever \/ Wake \/ Crash \/ RecordHealth \/ BeginSave \/ FinishSave \/ FailSave
  BY <1>4, <1>1 DEF Start, RunForever, Wake, Crash, Vanish, RecordHealth, BeginSave,
     FinishSave, FailSave, JobOver
<1>5. CASE RunOnce \/ PollPrivate
  BY <1>5, <1>1, <1>2, <1>3 DEF RunOnce, PollPrivate, Ask, EndRound, NextServer
<1>6. CASE GetNothing \/ GetUnusable
  BY <1>6, <1>2 DEF GetNothing, GetUnusable, NothingFetched, ClientReturns
<1>7. CASE GetFails
  <2>1. CASE attempt < GetAttempts BY <1>7, <2>1, <1>n DEF GetFails
  <2>2. CASE ~(attempt < GetAttempts)
    BY <1>7, <2>2, <1>2 DEF GetFails, NothingFetched, ClientReturns
  <2> QED BY <2>1, <2>2
<1>8. ASSUME NEW r \in Row, GetJob(r) PROVE AttemptInv' BY <1>8, <1>2 DEF GetJob
<1>9. CASE JobPublishes \/ PostAnswered \/ PostRefused
  BY <1>9, <1>2 DEF JobPublishes, PostAnswered, PostRefused, PostGivesUp, Report
<1>10. ASSUME NEW stage \in Stage, JobFails(stage) PROVE AttemptInv'
  BY <1>10, <1>2 DEF JobFails, Report
<1>11. CASE PostFails
  <2>1. CASE attempt < PostAttempts BY <1>11, <2>1, <1>n DEF PostFails
  <2>2. CASE ~(attempt < PostAttempts)
    BY <1>11, <2>2, <1>2 DEF PostFails, PostGivesUp, Report
  <2> QED BY <2>1, <2>2
<1>12. CASE StopSignal \/ Tick \/ OperatorClears \/ ServersStep \/ UNCHANGED vars
  BY <1>12, <1>3 DEF StopSignal, Tick, OperatorClears, ServersStep
<1> QED
  BY <1>4, <1>5, <1>6, <1>7, <1>8, <1>9, <1>10, <1>11, <1>12 DEF Next, WorkerStep

\* Each step of the worker is one towards the end of what it has begun.
LEMMA ShorterStep ==
  ControlInv /\ AttemptInv /\ AttemptInv' /\ UnderWay /\ WorkerStep => StepsLeft' < StepsLeft
<1> SUFFICES ASSUME ControlInv, AttemptInv, AttemptInv', UnderWay, WorkerStep
             PROVE  StepsLeft' < StepsLeft
  OBVIOUS
<1>n. /\ GetAttempts \in Nat \ {0} /\ PostAttempts \in Nat \ {0} /\ attempt \in Nat \ {0}
      /\ pc = "get" => GetsLeft \in 1..GetAttempts
      /\ pc = "post" => PostsLeft \in 1..PostAttempts
  BY AttemptNumbers DEF ControlInv, TypeOK
<1>m. pc \in JobPC \cup {"get"} \/ stopping
  BY NoJobIsNone DEF UnderWay, ControlInv, TypeOK, JobInv
<1>1. CASE RunForever \/ Wake
  BY <1>1, <1>m DEF RunForever, Wake, Vanish, StepsLeft, JobPC
<1>2. CASE RunOnce
  <2>1. pc = "once" /\ (pc' \in {"sleep", "round"} \/ (pc' = "get" /\ attempt' = 1))
    BY <1>2 DEF RunOnce, Ask
  <2> QED BY <1>n, <2>1 DEF StepsLeft, GetsLeft
<1>3. CASE PollPrivate
  <2>1. pc = "round" /\ stopping BY <1>3, <1>m DEF PollPrivate, JobPC
  <2>2. pc' = "loop" BY <1>3, <2>1 DEF PollPrivate, RoundOver, EndRound
  <2> QED BY <2>1, <2>2 DEF StepsLeft
<1>4. CASE pc = "get" /\ NothingFetched
  <2>1. pc' \in {"sleep", "round"} BY <1>4 DEF NothingFetched
  <2> QED BY <1>n, <1>4, <2>1 DEF StepsLeft
<1>5. CASE GetFails
  <2>1. CASE attempt < GetAttempts
    <3>1. pc = "get" /\ pc' = "get" /\ attempt' = attempt + 1 BY <1>5, <2>1 DEF GetFails
    <3> QED BY <1>n, <3>1 DEF StepsLeft, GetsLeft
  <2>2. CASE ~(attempt < GetAttempts) BY <1>5, <2>2, <1>4 DEF GetFails
  <2> QED BY <2>1, <2>2
<1>6. ASSUME NEW r \in Row, GetJob(r) PROVE StepsLeft' < StepsLeft
  BY <1>n, <1>6 DEF GetJob, StepsLeft
<1>7. CASE pc = "work" /\ pc' = "post" /\ attempt' = 1
  BY <1>n, <1>7 DEF StepsLeft, PostsLeft
<1>8. CASE pc = "post" /\ PostGivesUp
  <2>1. CASE verdict = 2
    BY <1>n, <1>8, <2>1 DEF PostGivesUp, Report, StepsLeft, PostsLeft
  <2>2. CASE verdict # 2
    BY <1>n, <1>8, <2>2 DEF PostGivesUp, StepsLeft
  <2> QED BY <2>1, <2>2
<1>9. CASE PostFails
  <2>1. CASE attempt < PostAttempts
    <3>1. pc = "post" /\ pc' = "post" /\ attempt' = attempt + 1 /\ verdict' = verdict
      BY <1>9, <2>1 DEF PostFails
    <3> QED BY <1>n, <3>1 DEF StepsLeft, PostsLeft
  <2>2. CASE ~(attempt < PostAttempts) BY <1>9, <2>2, <1>8 DEF PostFails
  <2> QED BY <2>1, <2>2
<1>10. CASE PostAnswered
  BY <1>n, <1>10 DEF PostAnswered, StepsLeft
<1>11. CASE RecordHealth \/ BeginSave \/ FinishSave \/ FailSave
  BY <1>11 DEF RecordHealth, BeginSave, FinishSave, FailSave, JobOver, StepsLeft
<1>12. CASE GetNothing \/ GetUnusable
  BY <1>12, <1>4 DEF GetNothing, GetUnusable
<1>13. CASE JobPublishes \/ \E stage \in Stage : JobFails(stage)
  BY <1>13, <1>7 DEF JobPublishes, JobFails, Report
<1>14. CASE PostRefused
  BY <1>14, <1>8 DEF PostRefused
<1> QED
  BY <1>1, <1>2, <1>3, <1>5, <1>6, <1>9, <1>10, <1>11, <1>12, <1>13, <1>14 DEF WorkerStep

\* A fetch, a job in hand and a stop take no more steps than the attempts of the two requests
\* allow, for any number of them: each step of the worker is one towards the end, a crash is
\* the end at once, and neither the servers nor the clock, the operator or the signal itself
\* put it back.  With waits that have a limit this is why JobEnds and StopEnds hold.
THEOREM StepsCorrect ==
  Spec => /\ [](StepsLeft \in 0..2 * PostAttempts + GetAttempts + 7)
          /\ [][/\ UnderWay /\ WorkerStep => StepsLeft' < StepsLeft
                /\ Crash => StepsLeft' = 0
                /\ StopSignal \/ Tick \/ OperatorClears \/ ServersStep
                     => StepsLeft' = StepsLeft]_vars
<1>1. Init => AttemptInv
  BY DEF Init, Idle, AttemptInv
<1>2. ControlInv /\ AttemptInv => StepsLeft \in 0..2 * PostAttempts + GetAttempts + 7
  <2> SUFFICES ASSUME ControlInv, AttemptInv
               PROVE  StepsLeft \in 0..2 * PostAttempts + GetAttempts + 7
    OBVIOUS
  <2>1. pc \in PC /\ TypeOK BY DEF ControlInv, TypeOK
  <2>2. PICK p \in Nat \ {0}, g \in Nat \ {0} : p = PostAttempts /\ g = GetAttempts
    BY <2>1, AttemptNumbers
  <2>3. /\ pc = "get" => GetsLeft \in 1..g
        /\ pc = "post" => PostsLeft \in 1..p
    BY <2>1, <2>2, AttemptNumbers
  <2>4. CASE pc = "post" BY <2>2, <2>3, <2>4 DEF StepsLeft
  <2>5. CASE pc = "get" BY <2>2, <2>3, <2>5 DEF StepsLeft
  <2>6. CASE pc \notin {"get", "post"}
    <3>1. StepsLeft \in 0..5 \cup {6 + p + p, 7 + p + p + g}
      BY <2>1, <2>2, <2>6 DEF StepsLeft, PC
    <3> QED BY <2>2, <3>1
  <2> QED BY <2>4, <2>5, <2>6
<1>3. /\ Crash => StepsLeft' = 0
      /\ StopSignal \/ Tick \/ OperatorClears \/ ServersStep => StepsLeft' = StepsLeft
  <2>1. Crash => StepsLeft' = 0 BY DEF Crash, Vanish, StepsLeft
  <2>2. StopSignal \/ Tick \/ OperatorClears \/ ServersStep => StepsLeft' = StepsLeft
    BY DEF StopSignal, Tick, OperatorClears, ServersStep, StepsLeft, GetsLeft, PostsLeft
  <2> QED BY <2>1, <2>2
<1> QED BY ControlCorrect, AttemptStep, ShorterStep, <1>1, <1>2, <1>3, PTL DEF Spec
=============================================================================
