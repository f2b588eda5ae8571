------------------------------- MODULE CloudJob -------------------------------
(***************************************************************************)
(* worker/cloud_job.py: one job, from the download to the end of its       *)
(* finally, with the PowerPoint, the add-in registration and the cloud     *)
(* library it works on.  run_cloud_job has three goes at the publish       *)
(* dialog; each needs the deck open, for which open_with_repair has three  *)
(* goes at PowerPoint.                                                     *)
(*                                                                         *)
(* PowerPoint is a process with a history: it loads the add-in, and the    *)
(* add-in reads the cloud tree, when it starts and never again; it writes  *)
(* the registration back when it exits; and when it is killed with the     *)
(* add-in loaded Office may switch the add-in off.                         *)
(***************************************************************************)
EXTENDS Naturals, ErrorStages

CONSTANTS PublishTries,    \* PUBLISH_TRIES
          OpenTries,       \* the attempts of open_with_repair
          KeepFailedFiles, \* KEEP_FAILED_JOB_FILES
          Faults           \* which of AllFaults may happen

\* "dies":         PowerPoint crashes or stops answering;
\* "slow_quit":    Quit returns and the process lives on;
\* "probe_raises": looking for the ribbon tab raises;
\* "no_licence":   the Suite licence is not active, so its tab does not show;
\* "kill_fails":   taskkill does not end PowerPoint, which nobody is told;
\* "locked_keys":  the add-in's keys cannot be written without an elevated prompt.
AllFaults == {"dies", "slow_quit", "probe_raises", "no_licence", "kill_fails", "locked_keys"}

ASSUME JobAssumption ==
  /\ PublishTries \in Nat \ {0}
  /\ OpenTries \in Nat \ {0}
  /\ KeepFailedFiles \in BOOLEAN
  /\ Faults \subseteq AllFaults

VARIABLES
  kind,      \* what the deck is: PowerPoint can open it, it cannot, or inspect refuses it
  ppt,       \* the running POWERPNT.EXE, or NoPowerPoint
  born,      \* how many PowerPoints there have been
  addin,     \* the add-in's registration: on, switched off by Office, or missing
  pinned,    \* it is in Office's always-enabled list
  folder,    \* the institution has a folder in the cloud library
  uploads,   \* decks this job has sent to the cloud
  workspace, \* the job's folder is on disk
  pc,        \* where the worker is
  attempt,   \* run_cloud_job's go at the dialog
  try,       \* open_with_repair's go at PowerPoint
  opened,    \* the application of open_with_repair's service, 0 for None
  service,   \* that of run_cloud_job's service, 0 when there is none
  ensured,   \* folder_ensured
  fixed,     \* this try follows a restart for the add-in's sake that ended PowerPoint
             \* and whose repair reported success
  outcome    \* how the job ended: none yet, "published", or the error's stage

desktopVars == <<ppt, born, addin, pinned>>
cloudVars == <<folder, uploads>>
loopVars == <<attempt, try, opened, service, ensured, fixed>>
vars == <<kind, desktopVars, cloudVars, workspace, pc, loopVars, outcome>>

Kind == {"sound", "unreadable", "refused"}

NoPowerPoint == [id |-> 0, answers |-> FALSE, deck |-> FALSE,
                 enabled |-> FALSE, tab |-> FALSE, tree |-> FALSE, spared |-> FALSE]

\* answers: it serves COM calls; deck: the job's deck is open in it; enabled: the
\* registration as it will write it back; tab: the Suite tab is on the ribbon; tree:
\* the institution's folder is in the copy of the cloud tree that it holds; spared: a
\* taskkill of this job has failed to end it.
PowerPoint == [id : Nat, answers : BOOLEAN, deck : BOOLEAN, enabled : BOOLEAN,
               tab : BOOLEAN, tree : BOOLEAN, spared : BOOLEAN]

Registration == {"on", "off", "missing"}

PC == {"download", "inspect", "usable", "enable", "start", "open", "ready",
       "publish", "dialog", "upload", "embed", "missing", "restart",
       "teardown", "remove", "done"}

DesktopTypeOK ==
  /\ ppt \in PowerPoint
  /\ born \in Nat /\ ppt.id <= born
  /\ addin \in Registration
  /\ pinned \in BOOLEAN

TypeOK ==
  /\ DesktopTypeOK
  /\ kind \in Kind
  /\ folder \in BOOLEAN
  /\ uploads \in Nat
  /\ workspace \in BOOLEAN
  /\ pc \in PC
  /\ attempt \in 1..PublishTries
  /\ try \in 1..OpenTries
  /\ opened \in 0..born
  /\ service \in 0..born
  /\ ensured \in BOOLEAN
  /\ fixed \in BOOLEAN
  /\ outcome \in {"none", "published"} \cup Stage

\* The desktop is as earlier jobs, people and Office left it: perhaps with a PowerPoint
\* that somebody else started, or that no longer answers.
Init ==
  /\ kind \in Kind
  /\ folder \in BOOLEAN
  /\ addin \in {"on", "off", "missing"}
  /\ pinned \in BOOLEAN
  /\ \/ ppt = NoPowerPoint /\ born = 0
     \/ /\ born = 1
        /\ \E answers, enabled, tab, tree \in BOOLEAN :
             /\ tab => enabled
             /\ tree => folder
             /\ ppt = [id |-> 1, answers |-> answers, deck |-> FALSE,
                       enabled |-> enabled, tab |-> tab, tree |-> tree,
                       spared |-> FALSE]
  /\ uploads = 0
  /\ workspace = TRUE
  /\ pc = "download"
  /\ attempt = 1 /\ try = 1 /\ opened = 0 /\ service = 0
  /\ ensured = FALSE /\ fixed = FALSE
  /\ outcome = "none"

-----------------------------------------------------------------------------
(* PowerPoint and Office, as the code's comments describe them *)

\* The registrations there may be after PowerPoint has exited, or was killed.
AfterExit == {IF addin = "missing" THEN "missing" ELSE IF ppt.enabled THEN "on" ELSE "off"}

AfterKill == {addin} \cup (IF ppt.tab /\ ~pinned /\ addin = "on" THEN {"off"} ELSE {})

\* service.quit() and then taskkill: PowerPoint exits, or it is killed.
AfterTakeDown == AfterKill \cup (IF ppt.answers THEN AfterExit ELSE {})

Gone == ppt' = NoPowerPoint /\ UNCHANGED born

\* The taskkill of terminate_powerpoint_processes fails; the deck is open in PowerPoint
\* still, or closed before.  No caller looks at the result.
Spared(deck) ==
  /\ "kill_fails" \in Faults
  /\ ppt.id # 0
  /\ ppt' = [ppt EXCEPT !.deck = deck, !.spared = TRUE]
  /\ UNCHANGED born

\* terminate_powerpoint_processes alone.
Killed ==
  /\ \/ Gone /\ addin' \in AfterKill
     \/ Spared(ppt.deck) /\ UNCHANGED addin
  /\ UNCHANGED pinned

\* service.quit() and then taskkill, which leave this registration.
TakenDown(registration) ==
  \/ Gone /\ registration \in AfterTakeDown
  \/ (\E deck \in {ppt.deck, FALSE} : Spared(deck)) /\ registration = addin

\* service.quit() alone.  Quitting a PowerPoint that is gone or does not answer raises,
\* and then every PowerPoint is killed.
Quit(application) ==
  \/ application = 0 /\ UNCHANGED desktopVars
  \/ /\ application # 0
     /\ \/ Gone /\ addin' \in AfterKill
        \/ (\E deck \in {ppt.deck, FALSE} : Spared(deck)) /\ UNCHANGED addin
     /\ UNCHANGED pinned
  \/ application # 0 /\ application = ppt.id /\ ppt.answers
     /\ \/ Gone /\ addin' \in AfterExit /\ UNCHANGED pinned
        \/ /\ "slow_quit" \in Faults
           /\ ppt' = [ppt EXCEPT !.deck = FALSE]
           /\ UNCHANGED <<born, addin, pinned>>

\* What ensure_addin_enabled makes of LoadBehavior and Disabled Items: an add-in that is
\* not registered stays so, and keys that cannot be written stay as they are.
Repaired(registration) ==
  IF registration = "missing" THEN {"missing"}
  ELSE {"on"} \cup (IF "locked_keys" \in Faults THEN {registration} ELSE {})

\* harden_addin, of an add-in that is registered, where the policy key can be written.
Harden(registration) ==
  pinned' \in IF registration = "missing" THEN {pinned} ELSE {pinned, TRUE}

\* A PowerPoint that starts now.
Newborn ==
  {[id |-> born + 1, answers |-> TRUE, deck |-> FALSE, enabled |-> addin = "on",
    tab |-> shown, tree |-> folder, spared |-> FALSE] :
      shown \in IF addin # "on" THEN {FALSE}
                ELSE IF "no_licence" \in Faults THEN BOOLEAN ELSE {TRUE}}

Alive(application) == application # 0 /\ ppt.id = application /\ ppt.answers

PowerPointDies ==
  /\ "dies" \in Faults
  /\ ppt.id # 0
  /\ \/ Gone /\ addin' \in AfterKill /\ UNCHANGED pinned
     \/ ppt.answers /\ ppt' = [ppt EXCEPT !.answers = FALSE]
        /\ UNCHANGED <<born, addin, pinned>>
  /\ UNCHANGED <<kind, cloudVars, workspace, pc, loopVars, outcome>>

-----------------------------------------------------------------------------
Goto(label) == pc' = label /\ UNCHANGED outcome

\* An exception leaves run_cloud_job, by way of its finally.
Fail(stage) == pc' = "teardown" /\ outcome' = stage

Download ==
  /\ pc = "download"
  /\ Goto("inspect") \/ Fail("download") \/ Fail("unexpected")
  /\ UNCHANGED <<kind, desktopVars, cloudVars, workspace, loopVars>>

Inspect ==
  /\ pc = "inspect"
  /\ IF kind = "refused" THEN Fail("download") ELSE Goto("usable")
  /\ UNCHANGED <<kind, desktopVars, cloudVars, workspace, loopVars>>

-----------------------------------------------------------------------------
(* open_with_repair *)

EnsureUsable ==
  /\ pc = "usable"
  /\ IF ppt.id # 0 /\ ~ppt.answers
       THEN Killed
       ELSE UNCHANGED desktopVars
  /\ try' = 1 /\ opened' = 0 /\ fixed' = FALSE
  /\ Goto("enable")
  /\ UNCHANGED <<kind, cloudVars, workspace, attempt, service, ensured>>

EnsureAddinEnabled ==
  /\ pc = "enable"
  /\ addin' \in Repaired(addin)
  /\ Harden(addin)
  /\ Goto("start")
  /\ UNCHANGED <<kind, ppt, born, cloudVars, workspace, loopVars>>

\* Dispatch attaches to the PowerPoint that runs, or starts one.
StartService ==
  /\ pc = "start"
  /\ IF ppt.id # 0
       THEN UNCHANGED <<ppt, born>>
       ELSE ppt' \in Newborn /\ born' = born + 1
  /\ opened' = ppt'.id
  /\ Goto("open")
  /\ UNCHANGED <<kind, addin, pinned, cloudVars, workspace, attempt, try, service,
                 ensured, fixed>>

Open ==
  /\ pc = "open"
  /\ Alive(opened) /\ kind # "unreadable"
  /\ ppt' = [ppt EXCEPT !.deck = TRUE]
  /\ Goto("ready")
  /\ UNCHANGED <<kind, born, addin, pinned, cloudVars, workspace, loopVars>>

\* Mutant: PowerPoint is taken down only to be tried again.
OpenFailsLeavesLast ==
  /\ pc \in {"start", "open"}
  /\ IF try < OpenTries
       THEN /\ \E registration \in Registration :
                 TakenDown(registration) /\ addin' = registration
            /\ Goto("start") /\ try' = try + 1
       ELSE Fail("powerpoint") /\ UNCHANGED <<ppt, born, addin, try>>
  /\ opened' = 0 /\ fixed' = FALSE
  /\ UNCHANGED <<kind, pinned, cloudVars, workspace, attempt, service, ensured>>

\* start() or open() raises PowerPointAutomationError: PowerPoint is taken down and,
\* but for the last time, tried again.
OpenFails ==
  /\ pc \in {"start", "open"}
  /\ \E registration \in Registration : TakenDown(registration) /\ addin' = registration
  /\ IF try < OpenTries
       THEN Goto("start") /\ try' = try + 1
       ELSE Fail("powerpoint") /\ UNCHANGED try
  /\ opened' = 0 /\ fixed' = FALSE
  /\ UNCHANGED <<kind, pinned, cloudVars, workspace, attempt, service, ensured>>

\* Of a PowerPoint that has gone, or is busy, looking up Open2007 itself may raise.
OpenEscapes ==
  /\ pc = "open"
  /\ Fail("unexpected")
  /\ UNCHANGED <<kind, desktopVars, cloudVars, workspace, loopVars>>

\* open_with_repair returns its service.
HandOver == Goto("publish") /\ service' = opened

\* connect_addin switches the add-in on in the PowerPoint that runs.
ConnectAddin ==
  /\ addin # "missing"
  /\ ppt' = [ppt EXCEPT !.tab = TRUE, !.enabled = TRUE]

\* addin_ready is true: the tab is there, or connecting the add-in brings it.
AddinReady ==
  /\ pc = "ready"
  /\ Alive(opened)
  /\ \/ ppt.tab /\ UNCHANGED ppt
     \/ ~ppt.tab /\ ConnectAddin
  /\ HandOver
  /\ UNCHANGED <<kind, born, addin, pinned, cloudVars, workspace, attempt, try, opened,
                 ensured, fixed>>

\* Mutant: the registration is put right before PowerPoint is closed.
AddinMissingRepairedFirst ==
  /\ pc = "ready"
  /\ ~ppt.tab \/ ~ppt.answers
  /\ IF try < OpenTries
       THEN /\ Gone
            /\ addin' \in IF ppt.answers THEN AfterExit ELSE Repaired(addin)
            /\ Harden(addin)
            /\ fixed' = (addin # "missing")
            /\ Goto("start") /\ try' = try + 1 /\ opened' = 0
            /\ UNCHANGED service
       ELSE HandOver /\ UNCHANGED <<desktopVars, try, opened, fixed>>
  /\ UNCHANGED <<kind, cloudVars, workspace, attempt, ensured>>

\* addin_ready is false, for want of the tab or of a window to look at.  PowerPoint is
\* taken down, then the registration is put right.  The last try is handed over as it is.
AddinMissing ==
  /\ pc = "ready"
  /\ ~ppt.tab \/ ~ppt.answers
  /\ IF try < OpenTries
       THEN /\ \E registration \in Registration :
                 /\ TakenDown(registration)
                 /\ addin' \in Repaired(registration)
                 /\ Harden(registration)
            /\ fixed' = (addin' = "on" /\ ppt'.id = 0)
            /\ Goto("start") /\ try' = try + 1 /\ opened' = 0
            /\ UNCHANGED service
       ELSE HandOver /\ UNCHANGED <<desktopVars, try, opened, fixed>>
  /\ UNCHANGED <<kind, cloudVars, workspace, attempt, ensured>>

\* dismiss_nuisance_dialogs raises inside has_addin_tab, and nothing catches it: the
\* service that holds PowerPoint never reaches run_cloud_job.
AddinProbeRaises ==
  /\ "probe_raises" \in Faults
  /\ pc = "ready"
  /\ Fail("unexpected")
  /\ UNCHANGED <<kind, desktopVars, cloudVars, workspace, loopVars>>

-----------------------------------------------------------------------------
(* publish_to_cloud, and the loop around it *)

Locate ==
  /\ pc = "publish"
  /\ \/ Goto(IF folder THEN "dialog" ELSE "missing")
     \/ Fail("ispring_publish")
     \/ Fail("unexpected")
  /\ UNCHANGED <<kind, desktopVars, cloudVars, workspace, loopVars>>

PublishDialogOpens == ppt.answers /\ ppt.tab

\* The picker shows the folder, or does not (it is not in its tree, or a click missed),
\* or something else goes wrong.
PickProject ==
  /\ pc = "dialog"
  /\ \/ PublishDialogOpens /\ ppt.deck /\ ppt.tree /\ Goto("upload")
     \/ PublishDialogOpens /\ Goto("missing")
     \/ Fail("ispring_publish")
     \/ Fail("unexpected")
  /\ UNCHANGED <<kind, desktopVars, cloudVars, workspace, loopVars>>

\* Mutant: a publish that timed out is tried again like a missing folder.
UploadRetried ==
  /\ pc = "upload"
  /\ uploads' \in {uploads, uploads + 1}
  /\ \/ uploads' # uploads /\ Goto("embed")
     \/ Goto("missing")
  /\ UNCHANGED <<kind, desktopVars, folder, workspace, loopVars>>

\* Publish is pressed.  Only the finish window says that it is done; without it the
\* deck may or may not have arrived.
Upload ==
  /\ pc = "upload"
  /\ uploads' \in {uploads, uploads + 1}
  /\ \/ uploads' # uploads /\ Goto("embed")
     \/ Fail("ispring_publish")
     \/ Fail("unexpected")
  /\ UNCHANGED <<kind, desktopVars, folder, workspace, loopVars>>

FetchEmbed ==
  /\ pc = "embed"
  /\ \/ pc' = "teardown" /\ outcome' = "published"
     \/ Fail("ispring_publish")
     \/ Fail("unexpected")
  /\ UNCHANGED <<kind, desktopVars, cloudVars, workspace, loopVars>>

\* ensure_project_folder makes the folder, or finds that there is one.  It may raise
\* before or after.
EnsureProjectFolder ==
  \/ folder' = TRUE /\ ensured' = TRUE /\ Goto("restart")
  \/ /\ Fail("ispring_publish") \/ Fail("unexpected")
     /\ folder' \in {folder, TRUE} /\ UNCHANGED ensured

\* Mutant: once the folder is made, the dialog is tried again at once, uncounted.
ProjectMissingAtOnce ==
  /\ pc = "missing"
  /\ IF ensured THEN Goto("publish") /\ UNCHANGED <<folder, ensured>>
                ELSE EnsureProjectFolder
  /\ UNCHANGED <<kind, desktopVars, uploads, workspace, attempt, try, opened, service,
                 fixed>>

\* ProjectMissingError: the last one is raised again; otherwise the folder is made, once,
\* and PowerPoint restarted.
ProjectMissing ==
  /\ pc = "missing"
  /\ \/ attempt = PublishTries /\ Fail("ispring_publish") /\ UNCHANGED <<folder, ensured>>
     \/ attempt < PublishTries /\ ~ensured /\ EnsureProjectFolder
     \/ attempt < PublishTries /\ ensured /\ Goto("restart") /\ UNCHANGED <<folder, ensured>>
  /\ UNCHANGED <<kind, desktopVars, uploads, workspace, attempt, try, opened, service,
                 fixed>>

\* Mutant: the same PowerPoint is used again.
RestartPowerPointKept ==
  /\ pc = "restart"
  /\ attempt' = attempt + 1
  /\ Goto("publish")
  /\ UNCHANGED <<kind, desktopVars, cloudVars, workspace, try, opened, service,
                 ensured, fixed>>

RestartPowerPoint ==
  /\ pc = "restart"
  /\ Quit(service)
  /\ service' = 0
  /\ attempt' = attempt + 1
  /\ Goto("usable")
  /\ UNCHANGED <<kind, cloudVars, workspace, try, opened, ensured, fixed>>

\* Mutant: only a published job closes its PowerPoint.
TeardownPublishedOnly ==
  /\ pc = "teardown"
  /\ IF outcome = "published" THEN Quit(service) ELSE UNCHANGED desktopVars
  /\ Goto("remove")
  /\ UNCHANGED <<kind, cloudVars, workspace, loopVars>>

\* finally: service.quit(), then the job's files.
Teardown ==
  /\ pc = "teardown"
  /\ Quit(service)
  /\ Goto("remove")
  /\ UNCHANGED <<kind, cloudVars, workspace, loopVars>>

\* remove_workspace tries a few times, and gives up on a file that stays open.
RemoveWorkspace ==
  /\ pc = "remove"
  /\ IF outcome # "published" /\ KeepFailedFiles
       THEN UNCHANGED workspace
       ELSE workspace' \in IF ppt.deck THEN {TRUE} ELSE BOOLEAN
  /\ Goto("done")
  /\ UNCHANGED <<kind, desktopVars, cloudVars, loopVars>>

JobStep ==
  \/ Download \/ Inspect
  \/ EnsureUsable \/ EnsureAddinEnabled \/ StartService \/ Open \/ OpenFails
  \/ OpenEscapes \/ AddinReady \/ AddinMissing \/ AddinProbeRaises
  \/ Locate \/ PickProject \/ Upload \/ FetchEmbed \/ ProjectMissing
  \/ RestartPowerPoint \/ Teardown \/ RemoveWorkspace

Next == JobStep \/ PowerPointDies

Spec == Init /\ [][Next]_vars

\* Steps that call PowerPoint through COM with no limit of their own: GetActiveObject,
\* Dispatch, the lookup of Open2007, connect_addin, Close and Quit.  Such a call may
\* never return.
PowerPointCall == {"usable", "start", "open", "ready", "restart", "teardown"}

\* Every other wait of the job has a timeout, so the worker's thread keeps moving.
FairSpec == Spec /\ WF_vars(pc \notin PowerPointCall /\ JobStep)

-----------------------------------------------------------------------------
(* What must hold *)

\* A deck is sent to the cloud at most once in a job, for all its attempts: only a
\* missing folder is tried again, and that is noticed before anything is sent.
UploadsOnce == uploads <= 1 /\ (outcome = "published" => uploads = 1)

\* The job as its caller sees it.
Contract == INSTANCE JobContract WITH
  running <- pc # "done",
  sent    <- uploads > 0,
  outcome <- outcome

\* A job keeps its contract: once the deck may be in the cloud it is not sent again, nor
\* is its failure put down to the download or to PowerPoint, which CloudPipeline.process
\* reports to the server and to the health file; and what is decided stays decided.
KeepsJobContract == Contract!Spec

\* Its calls of open_with_repair.
OpenPhase ==
  CASE pc \in {"download", "inspect", "usable", "enable", "start", "open"} -> "trying"
    [] pc \in {"teardown", "remove", "done"} ->
         IF outcome = "powerpoint" THEN "failed" ELSE "over"
    [] OTHER -> "opened"

Opening == INSTANCE OpenContract WITH
  Tries <- OpenTries, phase <- OpenPhase, try <- IF pc = "usable" THEN 1 ELSE try,
  running <- IF ppt.id = 0 THEN "no" ELSE IF ppt.spared THEN "survivor" ELSE "yes"

\* The job opens its deck by the contract that PowerPointOpen implements: PowerPoint is
\* blamed for it after the last try only, and is then gone, and no try begins with the
\* PowerPoint of the one before; but for a PowerPoint that a taskkill failed to end.
KeepsOpenContract == Opening!Spec

\* "PowerPoint has to let go of the file before it can be deleted" (cloud_job.py:531):
\* it does, unless a taskkill failed.
LetsGoOfFile == pc = "remove" => ~ppt.deck \/ ppt.spared

\* "Three goes at the publish dialog, each with a fresh PowerPoint" (cloud_job.py:448):
\* after the first, the folder just made is in the tree the picker shows, unless the
\* PowerPoint is one that a taskkill failed to end.
PickerKnowsFolder ==
  pc = "dialog" /\ attempt > 1 /\ ppt.id # 0 => ppt.tree \/ ppt.spared

\* A PowerPoint restarted for the add-in's sake has it once the repair says that it is
\* enabled, whatever Office and the old PowerPoint wrote into the registration on the way.
RestartLoadsAddin == pc = "ready" /\ fixed /\ Alive(opened) => ppt.tab

\* Whatever goes wrong, the job comes to an end, unless one call of PowerPoint never
\* returns.
JobEnds == <>(pc = "done") \/ \E call \in PowerPointCall : <>[](pc = call)
=============================================================================
