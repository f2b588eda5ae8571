---------------------------- MODULE PowerPointOpen ----------------------------
(***************************************************************************)
(* powerpoint/service.py against its own watchdog, as open_with_repair     *)
(* (worker/cloud_job.py) drives it: up to MaxOpens attempts, each with a   *)
(* new PowerPointService and, inside open(), a daemon thread that gives up *)
(* on PowerPoint when the limit expires.                                   *)
(*                                                                         *)
(* The threads share the service object and the one POWERPNT.EXE of the    *)
(* machine.  open() joins its watchdog for a second only, so that of one   *)
(* attempt may still be cleaning up during the next.                       *)
(***************************************************************************)
EXTENDS Naturals

CONSTANTS MaxOpens,   \* attempts of open_with_repair
          Faults      \* which of AllFaults may happen

\* "late_expiry":   the limit expires after open() last looked at timed_out;
\* "outlives_join": a watchdog is still cleaning up after join(timeout=1);
\* "dies":          PowerPoint goes away by itself;
\* "kill_fails":    taskkill is refused, which nobody looks at.
AllFaults == {"late_expiry", "outlives_join", "dies", "kill_fails"}

ASSUME OpenAssumption ==
  /\ MaxOpens \in Nat \ {0}
  /\ Faults \subseteq AllFaults

Attempt == 1..MaxOpens
Worker == 0                     \* the worker's own thread; a is the watchdog of attempt a
Thread == {Worker} \cup Attempt
File == {"source", "repaired"}

VARIABLES
  ppt,          \* the running POWERPNT.EXE, numbered by age; 0 when there is none
  born,         \* how many have been started
  spared,       \* the instance that a taskkill has failed to end, or 0
  deck,         \* the file that the last presentation opened in it is in, or "none"
  pc,           \* where the worker's thread is
  cur,          \* the attempt it is at
  target,       \* the instance whose Open2007 this attempt calls
  ok,           \* open() is on its way to a normal return
  dog,          \* the watchdog of each attempt
  cleanup,      \* how far each thread is with taking PowerPoint down
  callee,       \* the instance whose Close or Quit it is calling, or 0
  app,          \* PowerPointService._app of each attempt: an instance, 0 for None
  presentation, \* whether _presentation is set
  currentPptx,  \* _current_pptx
  timedOut,     \* the timed_out event
  done,         \* the done event
  cleaned       \* _open_cleanup_done

machineVars == <<ppt, born, spared, deck>>
placeVars == <<pc, cur, target, ok>>
cleanVars == <<cleanup, callee>>
refVars == <<app, presentation, currentPptx>>
flagVars == <<timedOut, done, cleaned>>
vars == <<machineVars, placeVars, dog, cleanVars, refVars, flagVars>>

PC == {"start", "open", "body", "check1", "protect", "save", "check2", "success",
       "raised", "join", "inUse", "abandon", "closing", "closed", "gaveUp", "escaped"}

TypeOK ==
  /\ born \in Nat
  /\ ppt \in 0..born
  /\ spared \in {0, ppt}
  /\ deck \in File \cup {"none"}
  /\ pc \in PC
  /\ cur \in Attempt
  /\ target \in 0..born
  /\ ok \in BOOLEAN
  /\ dog \in [Attempt -> {"off", "waiting", "fired"}]
  /\ cleanup \in [Thread -> {"none", "check", "take", "close", "drop", "quit", "kill"}]
  /\ callee \in [Thread -> 0..born]
  /\ app \in [Attempt -> 0..born]
  /\ presentation \in [Attempt -> BOOLEAN]
  /\ currentPptx \in [Attempt -> File \cup {"none"}]
  /\ timedOut \in [Attempt -> BOOLEAN]
  /\ done \in [Attempt -> BOOLEAN]
  /\ cleaned \in [Attempt -> BOOLEAN]

\* A PowerPoint that runs already and answers COM is left alone by
\* ensure_usable_powerpoint, as is one that it fails to kill; the first service attaches
\* to it.
Init ==
  /\ born \in {0, 1} /\ ppt = born /\ deck = "none"
  /\ spared = 0 \/ ("kill_fails" \in Faults /\ spared = born)
  /\ pc = "start" /\ cur = 1 /\ target = 0 /\ ok = FALSE
  /\ dog = [a \in Attempt |-> "off"]
  /\ cleanup = [t \in Thread |-> "none"]
  /\ callee = [t \in Thread |-> 0]
  /\ app = [a \in Attempt |-> 0]
  /\ presentation = [a \in Attempt |-> FALSE]
  /\ currentPptx = [a \in Attempt |-> "none"]
  /\ timedOut = [a \in Attempt |-> FALSE]
  /\ done = [a \in Attempt |-> FALSE]
  /\ cleaned = [a \in Attempt |-> FALSE]

\* The PowerPoint this attempt talks to is still there.
Alive == target # 0 /\ ppt = target

Goto(label) == pc' = label /\ UNCHANGED <<cur, target, ok>>

-----------------------------------------------------------------------------
(* Taking PowerPoint down: _cleanup_failed_open and quit, on any thread *)

Vanish == ppt' = 0 /\ deck' = "none" /\ spared' = 0 /\ UNCHANGED born

\* terminate_powerpoint_processes: every POWERPNT.EXE goes, whoever started it, or
\* taskkill is refused, and the callers go on as if it had not been.
Terminate ==
  \/ Vanish
  \/ /\ "kill_fails" \in Faults
     /\ spared' = ppt
     /\ UNCHANGED <<ppt, born, deck>>

AttemptOf(thread) == IF thread = Worker THEN cur ELSE thread

To(thread, step) == cleanup' = [cleanup EXCEPT ![thread] = step]

\* The flag is read here and set in the next step: two threads may find it clear.
CheckCleaned(thread) ==
  /\ cleanup[thread] = "check"
  /\ To(thread, IF cleaned[AttemptOf(thread)] THEN "none" ELSE "take")
  /\ UNCHANGED <<machineVars, placeVars, dog, callee, refVars, flagVars>>

\* quit() begins with close(): _presentation is taken, and Close called if there is one.
TakePresentation(thread) ==
  LET a == AttemptOf(thread)
  IN  /\ cleanup[thread] = "take"
      /\ To(thread, IF presentation[a] THEN "close" ELSE "drop")
      /\ callee' = [callee EXCEPT ![thread] = IF presentation[a] THEN target ELSE 0]
      /\ presentation' = [presentation EXCEPT ![a] = FALSE]
      /\ cleaned' = [cleaned EXCEPT ![a] = @ \/ thread # Worker \/ pc = "raised"]
      /\ UNCHANGED <<machineVars, placeVars, dog, app, currentPptx, timedOut, done>>

\* presentation.Close() returns, or raises, which is swallowed.
CloseDeck(thread) ==
  /\ cleanup[thread] = "close"
  /\ To(thread, "drop")
  /\ callee' = [callee EXCEPT ![thread] = 0]
  /\ deck' \in IF callee[thread] = ppt THEN {deck, "none"} ELSE {deck}
  /\ UNCHANGED <<ppt, born, spared, placeVars, dog, refVars, flagVars>>

\* Behind quit() comes terminate_powerpoint_processes, but not when the job is done.
AfterQuit(thread) == IF thread = Worker /\ pc = "closing" THEN "none" ELSE "kill"

\* _current_pptx and _app are cleared, and Quit called if there was an application.
DropReferences(thread) ==
  LET a == AttemptOf(thread)
  IN  /\ cleanup[thread] = "drop"
      /\ To(thread, IF app[a] # 0 THEN "quit" ELSE AfterQuit(thread))
      /\ callee' = [callee EXCEPT ![thread] = app[a]]
      /\ app' = [app EXCEPT ![a] = 0]
      /\ currentPptx' = [currentPptx EXCEPT ![a] = "none"]
      /\ UNCHANGED <<machineVars, placeVars, dog, presentation, flagVars>>

\* app.Quit() ends the process, or returns while it lives on, with its decks or without;
\* or it raises, as it does when the process is gone, and PowerPoint is terminated.
QuitApp(thread) ==
  /\ cleanup[thread] = "quit"
  /\ To(thread, AfterQuit(thread))
  /\ callee' = [callee EXCEPT ![thread] = 0]
  /\ \/ callee[thread] = ppt /\ Vanish
     \/ /\ callee[thread] = ppt
        /\ deck' \in {deck, "none"}
        /\ UNCHANGED <<ppt, born, spared>>
     \/ Terminate
  /\ UNCHANGED <<placeVars, dog, refVars, flagVars>>

\* Mutant: PowerPoint is asked to quit, and not terminated.
KillNothing(thread) ==
  /\ cleanup[thread] = "kill"
  /\ To(thread, "none")
  /\ UNCHANGED <<machineVars, placeVars, dog, callee, refVars, flagVars>>

Kill(thread) ==
  /\ cleanup[thread] = "kill"
  /\ To(thread, "none")
  /\ Terminate
  /\ UNCHANGED <<placeVars, dog, callee, refVars, flagVars>>

TakeDown(thread) ==
  \/ CheckCleaned(thread) \/ TakePresentation(thread) \/ CloseDeck(thread)
  \/ DropReferences(thread) \/ QuitApp(thread) \/ Kill(thread)

-----------------------------------------------------------------------------
(* The worker's thread: start() and open() *)

\* PowerPointService(settings), then start(): Dispatch attaches to the PowerPoint that
\* runs or starts one.  It may fail before there is an application, and after.
StartService ==
  /\ pc = "start"
  /\ \/ /\ ppt' = IF ppt = 0 THEN born + 1 ELSE ppt
        /\ born' = IF ppt = 0 THEN born + 1 ELSE born
        /\ app' = [app EXCEPT ![cur] = ppt']
        /\ \/ Goto("open") /\ UNCHANGED cleanup
           \/ Goto("abandon") /\ To(Worker, "take")
     \/ /\ Goto("abandon") /\ To(Worker, "take")
        /\ UNCHANGED <<ppt, born, app>>
  /\ UNCHANGED <<spared, deck, dog, callee, presentation, currentPptx, flagVars>>

Raise == Goto("raised") /\ To(Worker, "check")

\* open() up to the call, its watchdog just started.  There may be no Open2007 to call, or
\* asking a PowerPoint that is gone or busy for it raises an error that nobody handles.
BeginOpen ==
  /\ pc = "open"
  /\ target' = app[cur]
  /\ UNCHANGED <<cur, ok>>
  /\ \/ /\ ppt = app[cur]
        /\ pc' = "body"
        /\ dog' = [dog EXCEPT ![cur] = "waiting"]
        /\ UNCHANGED cleanup
     \/ /\ \/ pc' = "raised" /\ To(Worker, "check")
           \/ pc' = "escaped" /\ UNCHANGED cleanup
        /\ UNCHANGED dog
  /\ UNCHANGED <<machineVars, callee, refVars, flagVars>>

Open2007Returns ==
  /\ pc = "body"
  /\ Alive
  /\ presentation' = [presentation EXCEPT ![cur] = TRUE]
  /\ deck' = "source"
  /\ Goto("check1")
  /\ UNCHANGED <<ppt, born, spared, dog, cleanVars, app, currentPptx, flagVars>>

\* A call of the body raises: the deck's fault, or a PowerPoint that is gone.
BodyRaises ==
  /\ \/ pc = "body"
     \/ pc = "protect" /\ app[cur] # 0
     \/ pc = "save" /\ presentation[cur]
  /\ Raise
  /\ UNCHANGED <<machineVars, dog, callee, refVars, flagVars>>

\* if timed_out.is_set(): raise
FirstCheck ==
  /\ pc = "check1"
  /\ IF timedOut[cur] THEN Raise ELSE Goto("protect") /\ UNCHANGED cleanup
  /\ UNCHANGED <<machineVars, dog, callee, refVars, flagVars>>

\* _reject_protected_view finds no such window, or no application to look in; then
\* _current_pptx = resolved.
NoProtectedView ==
  /\ pc = "protect"
  /\ Alive \/ app[cur] = 0
  /\ currentPptx' = [currentPptx EXCEPT ![cur] = "source"]
  /\ Goto("save")
  /\ UNCHANGED <<machineVars, dog, cleanVars, app, presentation, flagVars>>

\* Mutant: current_pptx does not follow the presentation to its new file.
SaveUnderNewNameUnnoticed == deck' = "repaired" /\ UNCHANGED currentPptx

\* _save_under_new_name: the presentation lives in the new file from here on.
SaveUnderNewName ==
  /\ deck' = "repaired"
  /\ currentPptx' = [currentPptx EXCEPT ![cur] = "repaired"]

\* _save_repaired_if_needed: nothing to save, saved in place, or saved as.
SaveRepaired ==
  /\ pc = "save"
  /\ \/ /\ ~presentation[cur] \/ Alive
        /\ UNCHANGED <<deck, currentPptx>>
     \/ /\ presentation[cur] /\ Alive /\ deck # "none"
        /\ SaveUnderNewName
  /\ Goto("check2")
  /\ UNCHANGED <<ppt, born, spared, dog, cleanVars, app, presentation, flagVars>>

SecondCheck ==
  /\ pc = "check2"
  /\ IF timedOut[cur] THEN Raise ELSE Goto("success") /\ UNCHANGED cleanup
  /\ UNCHANGED <<machineVars, dog, callee, refVars, flagVars>>

\* finally: done.set(), then join.
Finally ==
  /\ pc = "success" \/ (pc = "raised" /\ cleanup[Worker] = "none")
  /\ done' = [done EXCEPT ![cur] = TRUE]
  /\ ok' = (pc = "success")
  /\ pc' = "join"
  /\ UNCHANGED <<machineVars, cur, target, dog, cleanVars, refVars, timedOut, cleaned>>

DogOver(a) == dog[a] # "waiting" /\ cleanup[a] = "none"

\* join(timeout=1) ends, and open() returns or raises to open_with_repair.
Join ==
  /\ pc = "join"
  /\ DogOver(cur) \/ "outlives_join" \in Faults
  /\ IF ok
       THEN pc' = "inUse" /\ UNCHANGED cleanup
       ELSE pc' = "abandon" /\ To(Worker, "take")
  /\ ok' = FALSE
  /\ UNCHANGED <<cur, target>>
  /\ UNCHANGED <<machineVars, dog, callee, refVars, flagVars>>

-----------------------------------------------------------------------------
(* The worker's thread: open_with_repair around it *)

\* The ribbon tab is missing: this PowerPoint is given up, but not the last one.
AddinMissing ==
  /\ pc = "inUse"
  /\ cur < MaxOpens
  /\ Goto("abandon") /\ To(Worker, "take")
  /\ UNCHANGED <<machineVars, dog, callee, refVars, flagVars>>

\* quit and terminate are through: a fresh service, or the error is raised again.
NextAttempt ==
  /\ pc = "abandon"
  /\ cleanup[Worker] = "none"
  /\ \/ cur < MaxOpens /\ cur' = cur + 1 /\ pc' = "start"
     \/ cur = MaxOpens /\ UNCHANGED cur /\ pc' = "gaveUp"
  /\ target' = 0
  /\ UNCHANGED <<machineVars, ok, dog, cleanVars, refVars, flagVars>>

\* run_cloud_job is finished with the deck: service.quit().
CloseService ==
  /\ pc = "inUse"
  /\ Goto("closing") /\ To(Worker, "take")
  /\ UNCHANGED <<machineVars, dog, callee, refVars, flagVars>>

Closed ==
  /\ pc = "closing"
  /\ cleanup[Worker] = "none"
  /\ Goto("closed")
  /\ UNCHANGED <<machineVars, dog, cleanVars, refVars, flagVars>>

-----------------------------------------------------------------------------
(* The watchdogs, and PowerPoint itself *)

\* done.wait(limit) ends.
DogReleased(a) ==
  /\ dog[a] = "waiting"
  /\ done[a]
  /\ dog' = [dog EXCEPT ![a] = "off"]
  /\ UNCHANGED <<machineVars, placeVars, cleanVars, refVars, flagVars>>

\* Mutant: the watchdog reports the timeout and leaves PowerPoint alone.
LimitExpiresIdle(a) ==
  /\ dog[a] = "waiting"
  /\ ~done[a]
  /\ pc = "success" => "late_expiry" \in Faults
  /\ timedOut' = [timedOut EXCEPT ![a] = TRUE]
  /\ dog' = [dog EXCEPT ![a] = "fired"]
  /\ UNCHANGED <<machineVars, placeVars, cleanVars, refVars, done, cleaned>>

\* The limit expires first: timed_out is set and the cleanup begins.
LimitExpires(a) ==
  /\ dog[a] = "waiting"
  /\ ~done[a]
  /\ pc = "success" => "late_expiry" \in Faults
  /\ timedOut' = [timedOut EXCEPT ![a] = TRUE]
  /\ dog' = [dog EXCEPT ![a] = "fired"]
  /\ To(a, "check")
  /\ UNCHANGED <<machineVars, placeVars, callee, refVars, done, cleaned>>

DogStep(a) == DogReleased(a) \/ LimitExpires(a) \/ TakeDown(a)

PowerPointDies ==
  /\ "dies" \in Faults
  /\ ppt # 0
  /\ Vanish
  /\ UNCHANGED <<placeVars, dog, cleanVars, refVars, flagVars>>

WorkerStep ==
  \/ StartService \/ BeginOpen
  \/ Open2007Returns \/ BodyRaises \/ FirstCheck \/ NoProtectedView
  \/ SaveRepaired \/ SecondCheck \/ Finally \/ Join
  \/ AddinMissing \/ NextAttempt \/ CloseService \/ Closed
  \/ TakeDown(Worker)

Next ==
  \/ WorkerStep
  \/ \E a \in Attempt : DogStep(a)
  \/ PowerPointDies

Spec == Init /\ [][Next]_vars

\* The calls into PowerPoint that open() makes with its watchdog running.
WatchedCall == pc \in {"body", "protect", "save"} /\ Alive

\* Those that nobody limits: Dispatch, the look for Open2007 before the watchdog starts,
\* and Close and Quit, which the watchdog calls itself before it resorts to taskkill.
InTeardownCall(thread) ==
  /\ cleanup[thread] \in {"close", "quit"}
  /\ callee[thread] # 0 /\ callee[thread] = ppt

UnwatchedCall ==
  \/ pc = "start"
  \/ pc = "open" /\ ppt = app[cur]
  \/ InTeardownCall(Worker)

\* A call into a PowerPoint that runs may never come back, so a thread is only sure to
\* take the steps that make none.  The threads run, and the watchdog's limit is finite.
FairSpec ==
  /\ Spec
  /\ WF_vars(~WatchedCall /\ ~UnwatchedCall /\ WorkerStep)
  /\ \A a \in Attempt : WF_vars(~InTeardownCall(a) /\ DogStep(a))

-----------------------------------------------------------------------------
(* What must hold *)

\* The watchdog has come, and PowerPoint has withstood it.
DogDefeated ==
  /\ dog[cur] = "fired"
  /\ InTeardownCall(cur) \/ (cleanup[cur] = "none" /\ spared # 0)

\* However Open2007 hangs, open_with_repair comes to an end: the watchdog takes
\* PowerPoint away and the call that waited for it raises.  What can hold it up for ever
\* is a call made without a watchdog, or a PowerPoint from which the watchdog's own Close
\* or Quit does not return, or which its taskkill does not end.
OpenEnds ==
  \/ <>(pc \in {"inUse", "closed", "gaveUp", "escaped"})
  \/ <>[](UnwatchedCall \/ (WatchedCall /\ DogDefeated))

\* A retry begins without the PowerPoint of the attempt before, whoever else was taking
\* it down at the time ("retrying with a fresh copy"), and giving up leaves none behind,
\* unless taskkill was tried on it and failed.
RetryIsFresh == (pc = "start" /\ cur > 1) \/ pc = "gaveUp" => ppt = 0 \/ spared # 0

\* The deck that open() hands to the publish step is open in its PowerPoint while that
\* lives, and current_pptx is the file it lives in, whatever the watchdogs of earlier
\* attempts are still doing.  A limit that expires after open() last looked at timed_out
\* is the exception: then this attempt's own watchdog takes the deck away.  The other is
\* a PowerPoint that withstood a taskkill: an earlier attempt's Quit may still reach it.
InUseIsUsable ==
  pc = "inUse" /\ ~timedOut[cur] =>
    /\ app[cur] # 0
    /\ ppt = app[cur] => currentPptx[cur] \in File
                         /\ (deck = currentPptx[cur] \/ (spared # 0 /\ deck = "none"))

\* The attempts as run_cloud_job sees them.
Phase ==
  CASE pc \in {"inUse", "closing"}  -> "opened"
    [] pc = "abandon"               -> "between"
    [] pc = "gaveUp"                -> "failed"
    [] pc \in {"closed", "escaped"} -> "over"
    [] OTHER                        -> "trying"

Running == IF ppt = 0 THEN "no" ELSE IF spared = 0 THEN "yes" ELSE "survivor"

Contract == INSTANCE OpenContract WITH
  Tries <- MaxOpens, phase <- Phase, try <- cur, running <- Running

\* Through its attempts, its watchdogs and a PowerPoint that dies, open_with_repair keeps
\* the contract by which CloudJob calls it: nobody's cleanup reaches into a try that has
\* begun but by taking its PowerPoint away, and no PowerPoint outlives its attempt but one
\* that taskkill failed to end.
KeepsOpenContract == Contract!Spec
=============================================================================
