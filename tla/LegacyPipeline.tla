---------------------------- MODULE LegacyPipeline ----------------------------
(***************************************************************************)
(* worker/pipeline.py with what it calls: the pipeline from before iSpring *)
(* Cloud, which publishes a deck into a folder, puts the folder into the   *)
(* worker's own storage and reports its address.  scripts/process_local.py *)
(* still runs it, one process to a job (worker/local_run.py).              *)
(*                                                                         *)
(* Two things outlive a process and meet the next one: the workspace,      *)
(* which is named after the job's number, and the storage, where a         *)
(* material has one place however often it is converted.  Files carry the  *)
(* number of the run they come from.                                       *)
(***************************************************************************)
EXTENDS Naturals, Sequences

CONSTANTS Job, Material,
          Runs,     \* the runs, in their order: a sequence of [job, material]
          Asset,    \* the files of a package, besides its index.html
          Packages, \* what a publisher may leave in the output directory
          Settings, \* the configurations
          Faults    \* "dies": the process may be killed; "interrupt": Ctrl+C is pressed

Index == "index.html"
File == {Index} \cup Asset

\* storage: STORAGE_BACKEND; keep: KEEP_FAILED_JOB_FILES; check: BROWSER_TEST_ENABLED
Setting == [storage : {"local_fs", "s3", "http_api"}, keep : BOOLEAN, check : BOOLEAN]

ASSUME LegacyAssumption ==
  /\ Runs \in Seq([job : Job, material : Material])
  /\ Index \notin Asset
  /\ Packages \subseteq SUBSET File
  /\ Settings \subseteq Setting
  /\ Faults \subseteq {"dies", "interrupt"}

Run == DOMAIN Runs

\* No file, or no run.
None == 0

\* A file that was cut short.
Broken == Len(Runs) + 1

VARIABLES
  setting,
  storage,  \* [Material -> [File -> the run whose file is stored]]
  disk,     \* the workspaces: [Job -> [source, working, output]]
  opened,   \* the run whose deck PowerPoint has open, the last one if there are several
  pc, run,
  raised,   \* what the try block ended with; an exception is original_error
  uploaded, \* upload_result is set
  sent,     \* the files that upload_directory has stored
  orphans,  \* the runs in orphaned_outputs.jsonl
  told,     \* [Run -> the last result the backend accepted]
  \* Observed, never read by an action:
  built,    \* [Run -> the package that was validated]
  began,    \* the runs that began to change the storage
  stored,   \* those whose upload_directory returned
  outcome   \* [Run -> how it ended]

jobVars == <<raised, uploaded, sent>>
seenVars == <<built, began, stored, outcome>>
vars == <<setting, storage, disk, opened, pc, run, jobVars, orphans, told, seenVars>>

PC == {"idle", "prepare", "download", "copy", "open", "publish", "close", "validate",
       "upload", "store", "check", "report", "teardown", "orphan", "fail", "cleanup"}

Workspace == [source : 0..Broken, working : 0..Broken, output : [File -> Run \cup {None}]]
Empty == [f \in File |-> None]
Bare == [source |-> None, working |-> None, output |-> Empty]

MyJob == Runs[run].job
MyMaterial == Runs[run].material
MyOutput == disk[MyJob].output
Files(output) == {f \in File : output[f] # None}

TypeOK ==
  /\ setting \in Settings
  /\ storage \in [Material -> [File -> 0..Broken]]
  /\ disk \in [Job -> Workspace]
  /\ opened \in Run \cup {None}
  /\ pc \in PC
  /\ run \in Run \cup {None}
  /\ pc # "idle" => run # None
  /\ raised \in {"nothing", "exception", "interrupt"} /\ uploaded \in BOOLEAN
  /\ sent \subseteq File
  /\ orphans \subseteq Run
  /\ told \in [Run -> {"nothing", "success", "failure"}]
  /\ built \in [Run -> SUBSET File]
  /\ began \subseteq Run /\ stored \subseteq Run
  /\ outcome \in [Run -> {"none", "success", "failure", "raised", "died"}]

Init ==
  /\ setting \in Settings
  /\ storage = [m \in Material |-> Empty]
  /\ disk = [j \in Job |-> Bare]
  /\ opened = None
  /\ pc = "idle" /\ run = None
  /\ raised = "nothing" /\ uploaded = FALSE /\ sent = {}
  /\ orphans = {}
  /\ told = [r \in Run |-> "nothing"]
  /\ built = [r \in Run |-> {}]
  /\ began = {} /\ stored = {}
  /\ outcome = [r \in Run |-> "none"]

-----------------------------------------------------------------------------
(* Pipeline.process, up to the upload *)

\* One step done, with nothing but the workspace and PowerPoint changed.
Goto(label) ==
  /\ pc' = label
  /\ UNCHANGED <<setting, storage, run, jobVars, orphans, told, seenVars>>

\* Any Exception becomes original_error.  Ctrl+C is none, and goes past both excepts.
Fails == raised' = "exception" \/ ("interrupt" \in Faults /\ raised' = "interrupt")

\* Either way, on to the finally block.
Raise ==
  /\ pc' = "teardown" /\ Fails
  /\ UNCHANGED <<setting, storage, run, uploaded, sent, orphans, told, seenVars>>

MoreRuns == run < Len(Runs)

StartRun ==
  /\ pc = "idle" /\ MoreRuns
  /\ run' = run + 1 /\ pc' = "prepare"
  /\ raised' = "nothing" /\ uploaded' = FALSE /\ sent' = {}
  /\ UNCHANGED <<setting, storage, disk, opened, orphans, told, seenVars>>

\* _prepare: enough disk, and the directories, which may be there already.
Prepare ==
  /\ pc = "prepare"
  /\ Goto("download") \/ Raise
  /\ UNCHANGED <<disk, opened>>

InWorkspace(field, value) == disk' = [disk EXCEPT ![MyJob][field] = value]

\* The deck is in place, checked; or it is refused, and what there is of it removed.
Fetched ==
  \/ InWorkspace("source", run) /\ Goto("copy")
  \/ InWorkspace("source", None) /\ Raise

\* download_pptx writes to another file first, which replaces the source when it is whole.
\* An error of the disk leaves the source as it was.
DownloadPptx == Fetched \/ (UNCHANGED disk /\ Raise)

\* copy_local_pptx copies over the source, and checks it afterwards.
CopyLocalPptx == Fetched \/ (InWorkspace("source", Broken) /\ Raise)

Download ==
  /\ pc = "download"
  /\ DownloadPptx \/ CopyLocalPptx
  /\ UNCHANGED opened

\* Mutant: a working copy that is there already is used again.
CopyWorkingOnce ==
  /\ pc = "copy"
  /\ IF disk[MyJob].working = None THEN InWorkspace("working", disk[MyJob].source)
                                   ELSE UNCHANGED disk
  /\ Goto("open")
  /\ UNCHANGED opened

\* _copy_working_pptx.  Windows does not overwrite a file that PowerPoint has open; but a
\* deck that an earlier run left open may be open under the name its repair was saved by,
\* source.repaired.pptx, and is then not in the way.
CopyWorking ==
  /\ pc = "copy"
  /\ \/ InWorkspace("working", disk[MyJob].source) /\ Goto("open")
     \/ InWorkspace("working", Broken) /\ Raise
     \/ UNCHANGED disk /\ Raise
  /\ UNCHANGED opened

\* start() and open().  They may raise with the deck open.
OpenDeck ==
  /\ pc = "open"
  /\ \/ /\ disk[MyJob].working \in Run /\ opened' = disk[MyJob].working
        /\ Goto("publish") \/ Raise
     \/ opened' = None /\ Raise
     \/ UNCHANGED opened /\ Raise
  /\ UNCHANGED disk

\* Mutant: the publisher writes into what an earlier run left.
Replaces(package) == [f \in File |-> IF f \in package THEN run ELSE MyOutput[f]]

\* rmtree and copytree.
Fresh(package) == [f \in File |-> IF f \in package THEN run ELSE None]

\* A publisher replaces the output directory, or fails on the way.
Publish ==
  /\ pc = "publish"
  /\ \/ \E package \in Packages : InWorkspace("output", Fresh(package)) /\ Goto("close")
     \/ \E files \in SUBSET File : InWorkspace("output", Fresh(files)) /\ Raise
     \/ UNCHANGED disk /\ Raise
  /\ UNCHANGED opened

\* close() and quit() log what PowerPoint raises, and the run goes on, with the deck still
\* open perhaps.
CloseDeck ==
  /\ pc = "close"
  /\ opened' \in {None, opened}
  /\ Goto("validate") \/ (Raise /\ raised' = "interrupt")
  /\ UNCHANGED disk

LooksComplete(files) == Index \in files /\ files \cap Asset # {}

\* Mutant: an index.html is enough.
ValidateIndex ==
  /\ pc = "validate"
  /\ Index \in Files(MyOutput)
  /\ pc' = "upload"
  /\ built' = [built EXCEPT ![run] = Files(MyOutput)]
  /\ UNCHANGED <<setting, storage, disk, opened, run, jobVars, orphans, told, began, stored,
                 outcome>>

\* validate_ispring_output
Validate ==
  /\ pc = "validate"
  /\ \/ /\ LooksComplete(Files(MyOutput))
        /\ pc' = "upload"
        /\ built' = [built EXCEPT ![run] = Files(MyOutput)]
        /\ UNCHANGED <<setting, storage, run, jobVars, orphans, told, began, stored, outcome>>
     \/ ~LooksComplete(Files(MyOutput)) /\ Raise
  /\ UNCHANGED <<disk, opened>>

-----------------------------------------------------------------------------
(* upload_directory *)

\* local_fs empties the material's place first, and may fail half way.
ClearPlace ==
  /\ pc = "upload" /\ setting.storage = "local_fs"
  /\ began' = began \cup {run}
  /\ \/ storage' = [storage EXCEPT ![MyMaterial] = Empty] /\ pc' = "store" /\ UNCHANGED raised
     \/ /\ \E files \in SUBSET File :
              storage' = [storage EXCEPT ![MyMaterial] =
                            [f \in File |-> IF f \in files THEN @[f] ELSE None]]
        /\ pc' = "teardown" /\ Fails
  /\ UNCHANGED <<setting, disk, opened, run, uploaded, sent, orphans, told, built, stored,
                 outcome>>

\* s3 writes over what is there; http_api is not implemented.
BeginUpload ==
  /\ pc = "upload"
  /\ \/ setting.storage = "s3" /\ Goto("store")
     \/ setting.storage = "http_api" /\ Raise
  /\ UNCHANGED <<disk, opened>>

StoreFile ==
  /\ pc = "store"
  /\ \E f \in Files(MyOutput) \ sent :
       /\ storage' = [storage EXCEPT ![MyMaterial][f] = MyOutput[f]]
       /\ sent' = sent \cup {f}
  /\ began' = began \cup {run}
  /\ UNCHANGED <<setting, disk, opened, pc, run, raised, uploaded, orphans, told, built,
                 stored, outcome>>

\* Mutant: an upload that fails is begun again.
StoreRetries ==
  /\ pc = "store"
  /\ pc' = "upload" /\ sent' = {}
  /\ UNCHANGED <<setting, storage, disk, opened, run, raised, uploaded, orphans, told,
                 seenVars>>

\* s3 stops at the first file that fails.  copytree goes on with the other files before it
\* raises: what it has not stored is missing or cut short.
StoreFails ==
  /\ pc = "store"
  /\ \/ UNCHANGED storage
     \/ /\ setting.storage = "local_fs"
        /\ \E whole, cut \in SUBSET (Files(MyOutput) \ sent) :
             storage' = [storage EXCEPT ![MyMaterial] =
                           [f \in File |-> CASE f \in whole       -> MyOutput[f]
                                             [] f \in cut \ whole -> Broken
                                             [] OTHER            -> @[f]]]
  /\ pc' = "teardown" /\ Fails
  /\ UNCHANGED <<setting, disk, opened, run, uploaded, sent, orphans, told, seenVars>>

Stored ==
  /\ pc = "store" /\ sent = Files(MyOutput)
  /\ pc' = "check" /\ uploaded' = TRUE /\ stored' = stored \cup {run}
  /\ UNCHANGED <<setting, storage, disk, opened, run, raised, sent, orphans, told, built,
                 began, outcome>>

\* The index.html that is served now, whichever run's it is.
PageLoads == storage[MyMaterial][Index] # None

CheckLocal ==
  /\ setting.storage = "local_fs"
  /\ \/ PageLoads /\ Goto("report")
     \/ Raise

\* A browser on the public address, unless it is switched off.
CheckPublic ==
  /\ setting.storage # "local_fs"
  /\ \/ (PageLoads \/ ~setting.check) /\ Goto("report")
     \/ setting.check /\ Raise

\* LocalJobBrowser.check
Check == pc = "check" /\ (CheckLocal \/ CheckPublic) /\ UNCHANGED <<disk, opened>>

-----------------------------------------------------------------------------
(* Results, and the finally block *)

\* send_job_result: accepted and answered; accepted and the answer lost; or neither.
Send(result, Answered, NotAnswered) ==
  \/ told' = [told EXCEPT ![run] = result] /\ (Answered \/ NotAnswered)
  \/ UNCHANGED told /\ NotAnswered

Report ==
  /\ pc = "report"
  /\ Send("success", UNCHANGED raised, Fails)
  /\ pc' = "teardown"
  /\ UNCHANGED <<setting, storage, disk, opened, run, uploaded, sent, orphans, seenVars>>

\* Mutant: the link of an upload is not put on record.
AfterTeardownFails == IF raised = "exception" THEN "fail" ELSE "cleanup"

\* Ctrl+C is not reported, and what was uploaded is not put on record.
AfterTeardown ==
  CASE raised # "exception" -> "cleanup"
    [] uploaded             -> "orphan"
    [] OTHER                -> "fail"

\* _safe_close_powerpoint: whatever it raises is logged.
Teardown ==
  /\ pc = "teardown"
  /\ opened' \in {None, opened}
  /\ pc' = AfterTeardown
  /\ UNCHANGED <<setting, storage, disk, run, jobVars, orphans, told, seenVars>>

\* record_orphaned_output.  When it raises, neither the report nor the cleanup is reached.
RecordOrphan ==
  /\ pc = "orphan"
  /\ \/ orphans' = orphans \cup {run} /\ pc' = "fail" /\ UNCHANGED outcome
     \/ UNCHANGED orphans /\ pc' = "idle" /\ outcome' = [outcome EXCEPT ![run] = "raised"]
  /\ UNCHANGED <<setting, storage, disk, opened, run, jobVars, told, built, began, stored>>

\* The rest of _report_failure.  A CallbackError is logged.
ReportFailure ==
  /\ pc = "fail"
  /\ Send("failure", TRUE, TRUE)
  /\ pc' = "cleanup"
  /\ UNCHANGED <<setting, storage, disk, opened, run, jobVars, orphans, seenVars>>

InUse(job) == opened # None /\ Runs[opened].job = job

\* CleanupService.run deletes the workspace, that of a run without success unless it is to
\* be kept; it may fail, or stop half way at a file that is open.
Cleanup ==
  /\ pc = "cleanup"
  /\ LET deletes == raised # "nothing" => ~setting.keep
     IN \/ deletes /\ ~InUse(MyJob) /\ disk' = [disk EXCEPT ![MyJob] = Bare]
        \/ deletes /\ InWorkspace("output", Empty)
        \/ UNCHANGED disk
  /\ pc' = "idle"
  /\ outcome' = [outcome EXCEPT ![run] = CASE raised = "nothing"   -> "success"
                                            [] raised = "exception" -> "failure"
                                            [] OTHER                -> "raised"]
  /\ UNCHANGED <<setting, storage, opened, run, jobVars, orphans, told, built, began, stored>>

\* The process is killed, or stopped by Ctrl+C in the finally block.  PowerPoint is another
\* one.
Die ==
  /\ pc # "idle" /\ "dies" \in Faults
  /\ pc' = "idle"
  /\ outcome' = [outcome EXCEPT ![run] = "died"]
  /\ UNCHANGED <<setting, storage, disk, opened, run, jobVars, orphans, told, built, began,
                 stored>>

Process ==
  \/ Prepare \/ Download \/ CopyWorking \/ OpenDeck \/ Publish \/ CloseDeck \/ Validate
  \/ ClearPlace \/ BeginUpload \/ StoreFile \/ StoreFails \/ Stored \/ Check \/ Report
  \/ Teardown \/ RecordOrphan \/ ReportFailure \/ Cleanup

Next == StartRun \/ Process \/ Die

Spec == Init /\ [][Next]_vars

\* Dispatch, the lookup of Open2007, presentation.Close and app.Quit are calls into
\* PowerPoint that nothing limits (service.py:100, 154, 237, 249): "open", "close" and
\* "teardown" may take for ever.  Downloads, uploads, the check and the reports have limits.
PowerPointCall == {"open", "close", "teardown"}

FairSpec == Spec /\ WF_vars(pc \notin PowerPointCall /\ Process)

-----------------------------------------------------------------------------
(* What must hold *)

\* A package that was reported is whole and its own run's, until another run of the same
\* material begins to upload: whatever an earlier run left in the workspace or the storage.
LinkServes ==
  \A r \in Run : told[r] = "success" =>
    \/ LooksComplete(built[r]) /\ \A f \in built[r] : storage[Runs[r].material][f] = r
    \/ \E s \in began : s > r /\ Runs[s].material = Runs[r].material

\* "Persist a successful publish that could not be reported to PHP" (jobs.py:226): a run
\* whose package is in the storage and that is reported as failed, though perhaps a report
\* of success got through before, has put its link on record first.  A run that is stopped
\* by Ctrl+C is not reported at all; its package is on nobody's record.
NothingLost ==
  \A r \in stored : told[r] = "failure" \/ outcome[r] = "failure" => r \in orphans

\* PowerPoint publishes the deck of this run and no other, though a workspace that a run
\* of the same number left behind is used again.
OpensOwnDeck == pc \in {"publish", "close"} => opened = run

\* A run whose output is not complete leaves the material's last package as it is.
OldPackageSafe ==
  [][storage' # storage => /\ LooksComplete(Files(MyOutput))
                           /\ \A f \in Files(MyOutput) : MyOutput[f] = run]_vars

\* Each run comes to an end, unless a call of PowerPoint never returns.
RunEnds ==
  \/ (pc = "prepare") ~> (pc = "idle")
  \/ \E call \in PowerPointCall : <>[](pc = call)
=============================================================================
