---------------------------- MODULE CloudJob_proofs ----------------------------
(***************************************************************************)
(* What holds of CloudJob for any number of tries and any faults.          *)
(***************************************************************************)
EXTENDS CloudJob, Integers, TLAPS

USE DEF vars, desktopVars, cloudVars, loopVars

Application == 0..born
\* Taking PowerPoint down leaves a registration that is one.
LEMMA AfterTypes ==
  ASSUME DesktopTypeOK
  PROVE  /\ AfterExit \subseteq Registration
         /\ AfterKill \subseteq Registration
         /\ AfterTakeDown \subseteq Registration
BY DEF DesktopTypeOK, AfterExit, AfterKill, AfterTakeDown, Registration

LEMMA NobodyType ==
  NoPowerPoint \in PowerPoint /\ NoPowerPoint.id = 0 /\ ~NoPowerPoint.deck
BY DEF NoPowerPoint, PowerPoint

\* A PowerPoint that starts is one more, has nothing open, has read the cloud tree and,
\* on a licensed machine, loaded an add-in that is switched on.
LEMMA NewbornType ==
  ASSUME DesktopTypeOK, folder \in BOOLEAN, NEW p \in Newborn
  PROVE  /\ p \in PowerPoint
         /\ p.id = born + 1 /\ ~p.deck /\ p.tree = folder /\ ~p.spared
         /\ addin = "on" /\ "no_licence" \notin Faults => p.tab
<1>1. PICK shown \in IF addin # "on" THEN {FALSE}
                     ELSE IF "no_licence" \in Faults THEN BOOLEAN ELSE {TRUE} :
        p = [id |-> born + 1, answers |-> TRUE, deck |-> FALSE, enabled |-> addin = "on",
             tab |-> shown, tree |-> folder, spared |-> FALSE]
  BY DEF Newborn
<1>2. shown \in BOOLEAN /\ (addin = "on" /\ "no_licence" \notin Faults => shown = TRUE)
  BY <1>1
<1>3. /\ p.id = born + 1 /\ p.deck = FALSE /\ p.tree = folder /\ p.tab = shown
      /\ p.spared = FALSE
  BY <1>1
<1>4. born + 1 \in Nat /\ (addin = "on") \in BOOLEAN
  BY DEF DesktopTypeOK
<1>5. p \in PowerPoint
  BY <1>1, <1>2, <1>4 DEF PowerPoint
<1> QED BY <1>2, <1>3, <1>5

\* PowerPoint is restarted for another go only while there is one left.
RestartInv == pc = "restart" => attempt < PublishTries

JobInv == TypeOK /\ RestartInv

LEMMA JobInit == Init => JobInv
<1> SUFFICES ASSUME Init PROVE JobInv OBVIOUS
<1>1. DesktopTypeOK
  <2>1. CASE ppt = NoPowerPoint /\ born = 0
    BY <2>1, NobodyType DEF Init, DesktopTypeOK, Registration
  <2>2. CASE /\ born = 1
             /\ \E answers, enabled, tab, tree \in BOOLEAN :
                  ppt = [id |-> 1, answers |-> answers, deck |-> FALSE,
                         enabled |-> enabled, tab |-> tab, tree |-> tree, spared |-> FALSE]
    BY <2>2 DEF Init, DesktopTypeOK, PowerPoint, Registration
  <2> QED BY <2>1, <2>2 DEF Init
<1>2. 1 \in 1..PublishTries /\ 1 \in 1..OpenTries /\ 0 \in 0..born
  BY <1>1, JobAssumption DEF JobAssumption, DesktopTypeOK
<1> QED BY <1>1, <1>2 DEF Init, JobInv, TypeOK, RestartInv, PC, Stage

\* Changing what is open, whether it answers or that it withstood a taskkill changes
\* nothing else.
LEMMA DeckClosed ==
  ASSUME DesktopTypeOK, NEW b \in BOOLEAN
  PROVE  /\ [ppt EXCEPT !.deck = b] \in PowerPoint
         /\ [ppt EXCEPT !.deck = b].id = ppt.id
         /\ [ppt EXCEPT !.deck = b].tab = ppt.tab
         /\ [ppt EXCEPT !.deck = b].tree = ppt.tree
         /\ [ppt EXCEPT !.deck = b].spared = ppt.spared
         /\ [ppt EXCEPT !.deck = b].deck = b
         /\ [ppt EXCEPT !.answers = b] \in PowerPoint
         /\ [ppt EXCEPT !.answers = b].id = ppt.id
         /\ [ppt EXCEPT !.answers = b].deck = ppt.deck
         /\ [ppt EXCEPT !.answers = b].tab = ppt.tab
         /\ [ppt EXCEPT !.answers = b].tree = ppt.tree
         /\ [ppt EXCEPT !.answers = b].spared = ppt.spared
         /\ [ppt EXCEPT !.deck = b, !.spared = TRUE] \in PowerPoint
         /\ [ppt EXCEPT !.deck = b, !.spared = TRUE].id = ppt.id
         /\ [ppt EXCEPT !.deck = b, !.spared = TRUE].spared = TRUE
BY DEF DesktopTypeOK, PowerPoint

\* What a taskkill leaves: no PowerPoint, or the one that withstood it.
Ended == ppt'.id = 0 /\ ~ppt'.deck
Withstood == ppt'.id = ppt.id /\ ppt'.spared

\* The desktop keeps its types when PowerPoint is gone or spared.
LEMMA GoneType ==
  ASSUME DesktopTypeOK, addin' \in Registration, pinned' \in BOOLEAN
  PROVE  /\ Gone => DesktopTypeOK' /\ Ended /\ born' = born
         /\ \A deck \in BOOLEAN :
              Spared(deck) => DesktopTypeOK' /\ Withstood /\ born' = born
<1>1. Gone => DesktopTypeOK' /\ Ended /\ born' = born
  BY NobodyType DEF Gone, DesktopTypeOK, Ended
<1>2. ASSUME NEW deck \in BOOLEAN, Spared(deck)
      PROVE  DesktopTypeOK' /\ Withstood /\ born' = born
  BY <1>2, DeckClosed DEF Spared, DesktopTypeOK, Withstood
<1> QED BY <1>1, <1>2

\* taskkill alone.
LEMMA KilledType ==
  ASSUME DesktopTypeOK, Killed
  PROVE  DesktopTypeOK' /\ born' = born /\ (Ended \/ Withstood)
<1>1. addin' \in Registration /\ pinned' \in BOOLEAN
  BY AfterTypes DEF Killed, DesktopTypeOK
<1>2. ppt.deck \in BOOLEAN BY DEF DesktopTypeOK, PowerPoint
<1> QED BY <1>1, <1>2, GoneType DEF Killed

\* Quit and taskkill, whatever is then done to the registration.
LEMMA TakenDownType ==
  ASSUME DesktopTypeOK, NEW registration \in Registration, TakenDown(registration),
         addin' \in Registration, pinned' \in BOOLEAN
  PROVE  DesktopTypeOK' /\ born' = born /\ (Ended \/ Withstood)
<1>1. {ppt.deck, FALSE} \subseteq BOOLEAN BY DEF DesktopTypeOK, PowerPoint
<1> QED BY <1>1, GoneType DEF TakenDown

\* A failed try leaves a desktop.
LEMMA OpenFailsType ==
  ASSUME DesktopTypeOK, OpenFails
  PROVE  DesktopTypeOK' /\ born' = born /\ (Ended \/ Withstood)
<1>1. PICK registration \in Registration : TakenDown(registration) /\ addin' = registration
  BY DEF OpenFails
<1>2. pinned' \in BOOLEAN BY DEF OpenFails, DesktopTypeOK
<1> QED BY <1>1, <1>2, TakenDownType

\* So does a restart for the add-in's sake.
LEMMA RestartedType ==
  ASSUME DesktopTypeOK, AddinMissing, try < OpenTries
  PROVE  DesktopTypeOK' /\ born' = born /\ (Ended \/ Withstood)
<1>1. PICK registration \in Registration :
        /\ TakenDown(registration)
        /\ addin' \in Repaired(registration)
        /\ Harden(registration)
  BY DEF AddinMissing
<1>2. addin' \in Registration BY <1>1 DEF Repaired, Registration
<1>3. pinned' \in BOOLEAN BY <1>1 DEF Harden, DesktopTypeOK
<1> QED BY <1>1, <1>2, <1>3, TakenDownType

\* quit() leaves PowerPoint gone, or spared by the taskkill, or as it was, or, when it is
\* slow, without the deck.
LEMMA QuitType ==
  ASSUME DesktopTypeOK, NEW a \in Application, Quit(a)
  PROVE  /\ DesktopTypeOK' /\ born' = born
         /\ \/ Ended
            \/ Withstood
            \/ a = 0 /\ ppt' = ppt
            \/ /\ "slow_quit" \in Faults /\ ~ppt'.deck
               /\ ppt'.id = ppt.id /\ ppt'.spared = ppt.spared
<1>1. CASE a = 0 /\ UNCHANGED desktopVars
  BY <1>1 DEF DesktopTypeOK
<1>2. CASE /\ \/ Gone /\ addin' \in AfterKill \cup AfterExit
              \/ (\E deck \in {ppt.deck, FALSE} : Spared(deck)) /\ UNCHANGED addin
           /\ UNCHANGED pinned
  <2>1. addin' \in Registration /\ pinned' \in BOOLEAN
    BY <1>2, AfterTypes DEF DesktopTypeOK
  <2>2. {ppt.deck, FALSE} \subseteq BOOLEAN BY DEF DesktopTypeOK, PowerPoint
  <2> QED BY <1>2, <2>1, <2>2, GoneType
<1>3. CASE /\ "slow_quit" \in Faults
           /\ ppt' = [ppt EXCEPT !.deck = FALSE] /\ UNCHANGED <<born, addin, pinned>>
  BY <1>3, DeckClosed DEF DesktopTypeOK
<1> QED BY <1>1, <1>2, <1>3 DEF Quit

\* Office and people do not touch the job.
LEMMA DiesType ==
  ASSUME DesktopTypeOK, PowerPointDies
  PROVE  /\ DesktopTypeOK' /\ born' = born
         /\ \/ Ended
            \/ /\ ppt'.id = ppt.id /\ ppt'.deck = ppt.deck /\ ppt'.spared = ppt.spared
               /\ ppt'.tab = ppt.tab /\ ppt'.tree = ppt.tree /\ addin' = addin
<1>1. CASE Gone /\ addin' \in AfterKill /\ UNCHANGED pinned
  <2>1. addin' \in Registration /\ pinned' \in BOOLEAN
    BY <1>1, AfterTypes DEF DesktopTypeOK
  <2> QED BY <1>1, <2>1, GoneType
<1>2. CASE ppt' = [ppt EXCEPT !.answers = FALSE] /\ UNCHANGED <<born, addin, pinned>>
  BY <1>2, DeckClosed DEF DesktopTypeOK
<1> QED BY <1>1, <1>2 DEF PowerPointDies

LEMMA RestartStep == JobInv /\ [Next]_vars => RestartInv'
<1> SUFFICES ASSUME JobInv, [Next]_vars, pc' = "restart" PROVE attempt' < PublishTries
  BY DEF RestartInv
<1> USE DEF Goto, Fail, HandOver
<1>1. CASE ProjectMissing
  BY <1>1 DEF ProjectMissing, JobInv, TypeOK
<1>2. CASE pc = "restart" /\ attempt' = attempt
  BY <1>2 DEF JobInv, RestartInv
<1>3. ProjectMissing \/ (pc = "restart" /\ attempt' = attempt)
  BY DEF Next, JobStep, Download, Inspect, EnsureUsable, EnsureAddinEnabled, StartService,
     Open, OpenFails, OpenEscapes, AddinReady, AddinMissing, AddinProbeRaises, Locate,
     PickProject, Upload, FetchEmbed, RestartPowerPoint, Teardown, RemoveWorkspace,
     PowerPointDies
<1> QED BY <1>1, <1>2, <1>3

\* Every step keeps TypeOK.
LEMMA JobTypeStep == JobInv /\ [Next]_vars => TypeOK'
<1> SUFFICES ASSUME TypeOK, RestartInv, [Next]_vars PROVE TypeOK' BY DEF JobInv
<1> USE JobAssumption DEF JobAssumption, PC, Stage, Goto, Fail
<1>0. DesktopTypeOK BY DEF TypeOK
<1>1. CASE Download BY <1>1 DEF Download, TypeOK, DesktopTypeOK
<1>2. CASE Inspect BY <1>2 DEF Inspect, TypeOK, DesktopTypeOK
<1>3. CASE EnsureUsable
  <2>1. DesktopTypeOK' /\ born' = born
    BY <1>0, <1>3, KilledType DEF EnsureUsable, DesktopTypeOK
  <2>2. try' \in 1..OpenTries /\ opened' \in 0..born'
    BY <1>0, <1>3, <2>1 DEF EnsureUsable, DesktopTypeOK
  <2> QED BY <1>3, <2>1, <2>2 DEF EnsureUsable, TypeOK
<1>4. CASE EnsureAddinEnabled
  BY <1>4 DEF EnsureAddinEnabled, Repaired, Harden, TypeOK, DesktopTypeOK, Registration
<1>5. CASE StartService
  <2>1. CASE ppt.id # 0 /\ UNCHANGED <<ppt, born>>
    BY <1>5, <2>1 DEF StartService, TypeOK, DesktopTypeOK, PowerPoint
  <2>2. CASE ppt' \in Newborn /\ born' = born + 1
    <3>1. ppt' \in PowerPoint /\ ppt'.id = born + 1
      BY <1>0, <2>2, NewbornType DEF TypeOK
    <3> QED BY <1>5, <2>2, <3>1 DEF StartService, TypeOK, DesktopTypeOK
  <2> QED BY <1>5, <2>1, <2>2 DEF StartService
<1>6. CASE Open
  <2>1. ppt' \in PowerPoint /\ ppt'.id = ppt.id BY <1>0, <1>6, DeckClosed DEF Open
  <2> QED BY <1>6, <2>1 DEF Open, TypeOK, DesktopTypeOK
<1>7. CASE OpenFails
  <2>1. DesktopTypeOK' /\ born' = born BY <1>0, <1>7, OpenFailsType
  <2>2. try' \in 1..OpenTries BY <1>7 DEF OpenFails, TypeOK
  <2>3. opened' \in 0..born' BY <1>0, <1>7, <2>1 DEF OpenFails, DesktopTypeOK
  <2> QED BY <1>7, <2>1, <2>2, <2>3 DEF OpenFails, TypeOK
<1>8. CASE OpenEscapes BY <1>8 DEF OpenEscapes, TypeOK, DesktopTypeOK
<1>9. CASE AddinReady
  <2>1. ppt' \in PowerPoint /\ ppt'.id = ppt.id
    <3>1. /\ [ppt EXCEPT !.tab = TRUE, !.enabled = TRUE] \in PowerPoint
          /\ [ppt EXCEPT !.tab = TRUE, !.enabled = TRUE].id = ppt.id
      BY <1>0 DEF DesktopTypeOK, PowerPoint
    <3> QED BY <1>0, <1>9, <3>1 DEF AddinReady, ConnectAddin, DesktopTypeOK
  <2> QED BY <1>9, <2>1 DEF AddinReady, HandOver, TypeOK, DesktopTypeOK
<1>10. CASE AddinMissing
  <2>1. CASE try < OpenTries
    <3>1. DesktopTypeOK' /\ born' = born BY <1>0, <1>10, <2>1, RestartedType
    <3>2. try' \in 1..OpenTries /\ opened' \in 0..born' /\ fixed' \in BOOLEAN
      BY <1>0, <1>10, <2>1, <3>1 DEF AddinMissing, TypeOK, DesktopTypeOK
    <3> QED BY <1>10, <2>1, <3>1, <3>2 DEF AddinMissing, TypeOK
  <2>2. CASE ~(try < OpenTries)
    BY <1>10, <2>2 DEF AddinMissing, HandOver, TypeOK, DesktopTypeOK
  <2> QED BY <2>1, <2>2
<1>11. CASE AddinProbeRaises BY <1>11 DEF AddinProbeRaises, TypeOK, DesktopTypeOK
<1>12. CASE Locate BY <1>12 DEF Locate, TypeOK, DesktopTypeOK
<1>13. CASE PickProject BY <1>13 DEF PickProject, TypeOK, DesktopTypeOK
<1>14. CASE Upload BY <1>14 DEF Upload, TypeOK, DesktopTypeOK
<1>15. CASE FetchEmbed BY <1>15 DEF FetchEmbed, TypeOK, DesktopTypeOK
<1>16. CASE ProjectMissing
  <2>1. folder' \in BOOLEAN /\ ensured' \in BOOLEAN /\ pc' \in PC
        /\ outcome' \in {"none", "published"} \cup Stage
    BY <1>16 DEF ProjectMissing, EnsureProjectFolder, TypeOK
  <2> QED BY <1>16, <2>1 DEF ProjectMissing, TypeOK, DesktopTypeOK
<1>17. CASE RestartPowerPoint
  <2>1. DesktopTypeOK' /\ born' = born
    BY <1>0, <1>17, QuitType DEF RestartPowerPoint, TypeOK, Application
  <2>2. attempt' \in 1..PublishTries
    BY <1>17 DEF RestartPowerPoint, TypeOK, RestartInv
  <2>3. service' \in 0..born' BY <1>0, <1>17, <2>1 DEF RestartPowerPoint, DesktopTypeOK
  <2> QED BY <1>17, <2>1, <2>2, <2>3 DEF RestartPowerPoint, TypeOK
<1>18. CASE Teardown
  <2>1. DesktopTypeOK' /\ born' = born
    BY <1>0, <1>18, QuitType DEF Teardown, TypeOK, Application
  <2> QED BY <1>18, <2>1 DEF Teardown, TypeOK
<1>19. CASE RemoveWorkspace BY <1>19 DEF RemoveWorkspace, TypeOK, DesktopTypeOK
<1>20. CASE PowerPointDies BY <1>0, <1>20, DiesType DEF PowerPointDies, TypeOK
<1>21. CASE UNCHANGED vars BY <1>21 DEF TypeOK, DesktopTypeOK
<1> QED
  BY <1>1, <1>2, <1>3, <1>4, <1>5, <1>6, <1>7, <1>8, <1>9, <1>10, <1>11, <1>12, <1>13,
     <1>14, <1>15, <1>16, <1>17, <1>18, <1>19, <1>20, <1>21 DEF Next, JobStep

LEMMA JobStepInv == JobInv /\ [Next]_vars => JobInv'
BY JobTypeStep, RestartStep DEF JobInv

\* Every variable keeps its type: among other things no PowerPoint is used that was never
\* started, and no loop passes its limit.
THEOREM JobTypeCorrect == Spec => []TypeOK
<1>1. JobInv => TypeOK BY DEF JobInv
<1> QED BY JobInit, JobStepInv, <1>1, PTL DEF Spec

-----------------------------------------------------------------------------
(* The deck is sent once *)

Ending == {"teardown", "remove", "done"}

\* Nothing has been sent before Upload, and nothing is decided before the teardown.
UploadInv ==
  /\ uploads \in {0, 1}
  /\ pc \notin {"embed"} \cup Ending => uploads = 0
  /\ pc = "embed" => uploads = 1
  /\ pc \notin Ending => outcome = "none"
  /\ outcome = "published" => uploads = 1

LEMMA UploadStep == TypeOK /\ UploadInv /\ [Next]_vars => UploadInv'
<1> SUFFICES ASSUME TypeOK, UploadInv, [Next]_vars PROVE UploadInv' OBVIOUS
<1> USE DEF UploadInv, Ending, Goto, Fail, HandOver
<1>1. CASE Download \/ Inspect \/ EnsureUsable \/ EnsureAddinEnabled \/ StartService \/ Open
  BY <1>1 DEF Download, Inspect, EnsureUsable, EnsureAddinEnabled, StartService, Open
<1>2. CASE OpenFails \/ OpenEscapes \/ AddinReady \/ AddinMissing \/ AddinProbeRaises
  BY <1>2 DEF OpenFails, OpenEscapes, AddinReady, AddinMissing, AddinProbeRaises
<1>3. CASE Locate \/ PickProject BY <1>3 DEF Locate, PickProject
<1>4. CASE Upload BY <1>4 DEF Upload
<1>5. CASE FetchEmbed BY <1>5 DEF FetchEmbed
<1>6. CASE ProjectMissing BY <1>6 DEF ProjectMissing, EnsureProjectFolder
<1>7. CASE RestartPowerPoint \/ Teardown \/ RemoveWorkspace
  BY <1>7 DEF RestartPowerPoint, Teardown, RemoveWorkspace
<1>8. CASE PowerPointDies \/ UNCHANGED vars BY <1>8 DEF PowerPointDies
<1> QED BY <1>1, <1>2, <1>3, <1>4, <1>5, <1>6, <1>7, <1>8 DEF Next, JobStep

\* A deck is sent to the cloud at most once in a job, and once if it is published.
THEOREM UploadsCorrect == Spec => []UploadsOnce
<1>1. Init => UploadInv BY DEF Init, UploadInv, Ending
<1>2. UploadInv => UploadsOnce BY DEF UploadInv, UploadsOnce
<1> QED BY JobTypeCorrect, UploadStep, <1>1, <1>2, PTL DEF Spec

\* What is being tidied up after has been decided.
DecidedInv == pc \in Ending => outcome # "none"

LEMMA DecidedStep == DecidedInv /\ [Next]_vars => DecidedInv'
<1> SUFFICES ASSUME DecidedInv, [Next]_vars PROVE DecidedInv' OBVIOUS
<1> USE DEF DecidedInv, Ending, Goto, Fail, HandOver
<1>1. CASE Download \/ Inspect \/ EnsureUsable \/ EnsureAddinEnabled \/ StartService \/ Open
  BY <1>1 DEF Download, Inspect, EnsureUsable, EnsureAddinEnabled, StartService, Open
<1>2. CASE OpenFails \/ OpenEscapes \/ AddinReady \/ AddinMissing \/ AddinProbeRaises
  BY <1>2 DEF OpenFails, OpenEscapes, AddinReady, AddinMissing, AddinProbeRaises
<1>3. CASE Locate \/ PickProject \/ Upload \/ FetchEmbed
  BY <1>3 DEF Locate, PickProject, Upload, FetchEmbed
<1>4. CASE ProjectMissing BY <1>4 DEF ProjectMissing, EnsureProjectFolder
<1>5. CASE RestartPowerPoint \/ Teardown \/ RemoveWorkspace
  BY <1>5 DEF RestartPowerPoint, Teardown, RemoveWorkspace
<1>6. CASE PowerPointDies \/ UNCHANGED vars BY <1>6 DEF PowerPointDies
<1> QED BY <1>1, <1>2, <1>3, <1>4, <1>5, <1>6 DEF Next, JobStep

\* An error leaves the job.
LEMMA RaiseStep ==
  ASSUME pc # "done", pc' # "done", outcome = "none",
         uploads \in {0, 1}, uploads' \in {uploads, 1},
         outcome' \in {"download", "powerpoint", "ispring_publish", "unexpected"},
         uploads' = 1 => outcome' \notin {"download", "powerpoint"}
  PROVE  Contract!Next
<1>1. (uploads' > 0) \in {uploads > 0, TRUE}
  <2>1. CASE uploads' = uploads BY <2>1
  <2>2. CASE uploads' = 1
    <3>1. (uploads' > 0) = TRUE BY <2>2
    <3> QED BY <3>1, Zenon
  <2> QED BY <2>1, <2>2
<1>2. uploads' > 0 => outcome' \notin {"download", "powerpoint"} OBVIOUS
<1>3. (pc # "done") /\ (pc' # "done") = (pc # "done") OBVIOUS
<1>4. PICK stage \in Stage : outcome' = stage BY DEF Stage
<1>5. stage # "callback" BY <1>4
<1>6. Contract!Raise(stage) BY <1>1, <1>2, <1>3, <1>4, <1>5 DEF Contract!Raise
<1> QED BY <1>6 DEF Contract!Next, Contract!Stage, Stage

\* A step before the upload decides nothing, or raises without anything sent.
Early ==
  /\ pc \notin {"upload", "embed"} \cup Ending
  /\ pc' # "done" /\ uploads' = uploads
  /\ outcome' \in {outcome, "download", "powerpoint", "ispring_publish", "unexpected"}

LEMMA EarlyStep == UploadInv /\ Early => Contract!Next \/ UNCHANGED Contract!vars
<1> SUFFICES ASSUME UploadInv, Early PROVE Contract!Next \/ UNCHANGED Contract!vars
  OBVIOUS
<1>1. uploads = 0 /\ uploads' = 0 /\ outcome = "none" /\ pc # "done" /\ pc' # "done"
  BY DEF UploadInv, Early, Ending
<1>2. CASE outcome' = outcome BY <1>1, <1>2 DEF Contract!vars
<1>3. CASE outcome' \in {"download", "powerpoint", "ispring_publish", "unexpected"}
  BY <1>1, <1>3, RaiseStep
<1> QED BY <1>2, <1>3 DEF Early

LEMMA ContractStep ==
  UploadInv /\ DecidedInv /\ [Next]_vars => [Contract!Next]_(Contract!vars)
<1> SUFFICES ASSUME UploadInv, DecidedInv, [Next]_vars
             PROVE  Contract!Next \/ UNCHANGED Contract!vars
  OBVIOUS
<1> USE DEF Goto, Fail, HandOver
<1>1. CASE Download \/ Inspect \/ EnsureUsable \/ EnsureAddinEnabled \/ StartService \/ Open
  <2>1. Early
    BY <1>1 DEF Early, Ending, Download, Inspect, EnsureUsable, EnsureAddinEnabled,
       StartService, Open
  <2> QED BY <2>1, EarlyStep
<1>2. CASE OpenFails \/ OpenEscapes \/ AddinReady \/ AddinMissing \/ AddinProbeRaises
  <2>1. Early
    BY <1>2 DEF Early, Ending, OpenFails, OpenEscapes, AddinReady, AddinMissing,
       AddinProbeRaises
  <2> QED BY <2>1, EarlyStep
<1>3. CASE Locate \/ PickProject \/ ProjectMissing \/ RestartPowerPoint
  <2>1. Early
    BY <1>3 DEF Early, Ending, Locate, PickProject, ProjectMissing, EnsureProjectFolder,
       RestartPowerPoint
  <2> QED BY <2>1, EarlyStep
<1>4. CASE Upload
  <2>1. uploads = 0 /\ outcome = "none" /\ uploads' \in {0, 1} /\ pc = "upload"
    BY <1>4 DEF Upload, UploadInv, Ending
  <2>2. CASE uploads' # uploads /\ pc' = "embed" /\ outcome' = outcome
    BY <1>4, <2>1, <2>2 DEF Upload, Contract!Next, Contract!Send
  <2>3. CASE pc' = "teardown" /\ outcome' \in {"ispring_publish", "unexpected"}
    BY <2>1, <2>3, RaiseStep
  <2> QED BY <1>4, <2>2, <2>3 DEF Upload
<1>5. CASE FetchEmbed
  <2>1. uploads = 1 /\ outcome = "none" /\ uploads' = 1 /\ pc = "embed" /\ pc' = "teardown"
    BY <1>5 DEF FetchEmbed, UploadInv, Ending
  <2>2. CASE outcome' = "published"
    BY <2>1, <2>2 DEF Contract!Next, Contract!Return
  <2>3. CASE outcome' \in {"ispring_publish", "unexpected"}
    BY <2>1, <2>3, RaiseStep
  <2> QED BY <1>5, <2>2, <2>3 DEF FetchEmbed
<1>6. CASE Teardown
  BY <1>6 DEF Teardown, Contract!vars
<1>7. CASE RemoveWorkspace
  BY <1>7 DEF RemoveWorkspace, DecidedInv, Ending, Contract!Next, Contract!Finish
<1>8. CASE PowerPointDies \/ UNCHANGED vars
  BY <1>8 DEF PowerPointDies, Contract!vars
<1> QED
  BY <1>1, <1>2, <1>3, <1>4, <1>5, <1>6, <1>7, <1>8 DEF Next, JobStep

\* CloudJob implements JobContract, for any number of tries, any deck and any faults: every
\* step of the job is one of the contract's or none of its caller's business.
THEOREM ContractCorrect == Spec => KeepsJobContract
<1>1. Init => UploadInv /\ DecidedInv BY DEF Init, UploadInv, DecidedInv, Ending
<1>2. Init => Contract!Init BY DEF Init, Contract!Init
<1> QED
  BY <1>1, <1>2, JobTypeCorrect, UploadStep, DecidedStep, ContractStep,
     PTL DEF Spec, KeepsJobContract, Contract!Spec

-----------------------------------------------------------------------------
(* Its calls of open_with_repair *)

\* The first call has not begun.
FirstTryInv == pc \in {"download", "inspect"} => try = 1

\* PowerPoint is as it was, or gone, or has withstood a taskkill.
StaysOrGoes == Ended \/ Withstood \/ (ppt'.id = ppt.id /\ ppt'.spared = ppt.spared)

\* Whatever happens to it between the calls is the contract's Lose, Survive or nothing.
LEMMA StaysOrGoesStep ==
  ASSUME StaysOrGoes, OpenPhase' = OpenPhase, TypeOK,
         (IF pc = "usable" THEN 1 ELSE try)' = IF pc = "usable" THEN 1 ELSE try
  PROVE  Opening!Next \/ UNCHANGED Opening!vars
<1>1. CASE ppt'.id = ppt.id /\ ppt'.spared = ppt.spared BY <1>1 DEF Opening!vars
<1>2. CASE Ended BY <1>2 DEF Opening!Next, Opening!Lose, Ended
<1>3. CASE Withstood /\ ppt.id # 0 /\ ~ppt.spared
  BY <1>3 DEF Opening!Next, Opening!Survive, Withstood
<1>4. CASE Withstood /\ (ppt.id = 0 \/ ppt.spared)
  BY <1>4 DEF Opening!vars, Withstood
<1> QED BY <1>1, <1>2, <1>3, <1>4 DEF StaysOrGoes

\* What quit and taskkill leave is what the contract says.
LEMMA AfterKillStep == Ended \/ Withstood => Opening!AfterKill
BY DEF Ended, Withstood, Opening!AfterKill

LEMMA OpeningStep ==
  TypeOK /\ TypeOK' /\ FirstTryInv /\ DecidedInv /\ [Next]_vars => [Opening!Next]_(Opening!vars)
<1> SUFFICES ASSUME TypeOK, TypeOK', FirstTryInv, DecidedInv, [Next]_vars
             PROVE  Opening!Next \/ UNCHANGED Opening!vars
  OBVIOUS
<1> USE DEF OpenPhase, Goto, Fail
<1>0. DesktopTypeOK BY DEF TypeOK
<1>1. CASE Download \/ Inspect
  <2>1. /\ pc \in {"download", "inspect"} /\ try' = try /\ try = 1 /\ ppt' = ppt
        /\ pc' \in {"inspect", "usable"} \/ (pc' = "teardown" /\ outcome' # "powerpoint")
    BY <1>1 DEF Download, Inspect, FirstTryInv, desktopVars, loopVars
  <2>2. CASE pc' = "teardown" BY <2>1, <2>2 DEF Opening!Next, Opening!Leave
  <2>3. CASE pc' # "teardown" BY <2>1, <2>3 DEF Opening!vars
  <2> QED BY <2>2, <2>3
<1>2. CASE EnsureUsable
  <2>1. pc = "usable" /\ pc' = "enable" /\ try' = 1 /\ StaysOrGoes
    BY <1>0, <1>2, KilledType DEF EnsureUsable, desktopVars, StaysOrGoes
  <2> QED BY <2>1, StaysOrGoesStep
<1>3. CASE EnsureAddinEnabled
  BY <1>3 DEF EnsureAddinEnabled, Opening!vars
<1>4. CASE StartService
  <2>1. pc = "start" /\ pc' = "open" /\ try' = try BY <1>4 DEF StartService
  <2>2. CASE ppt.id # 0 BY <1>4, <2>1, <2>2 DEF StartService, Opening!vars
  <2>3. CASE ppt.id = 0
    <3>1. ppt' \in Newborn /\ DesktopTypeOK /\ folder \in BOOLEAN /\ born \in Nat
      BY <1>4, <2>3 DEF StartService, TypeOK, DesktopTypeOK
    <3>2. ppt'.id = born + 1 /\ ~ppt'.spared BY <3>1, NewbornType
    <3>3. ppt'.id # 0 BY <3>1, <3>2
    <3> QED BY <2>1, <2>3, <3>2, <3>3 DEF Opening!Next, Opening!Start
  <2> QED BY <2>2, <2>3
<1>5. CASE Open
  <2>1. /\ pc = "open" /\ pc' = "ready" /\ try' = try
        /\ ppt'.id = ppt.id /\ ppt'.spared = ppt.spared
    BY <1>5 DEF Open, loopVars, TypeOK, DesktopTypeOK, PowerPoint
  <2> QED BY <2>1 DEF Opening!Next, Opening!Open
<1>6. CASE OpenFails
  <2>1. pc \in {"start", "open"} /\ try \in 1..OpenTries /\ OpenTries \in Nat
    BY <1>6, JobAssumption DEF JobAssumption, OpenFails, TypeOK
  <2>4. Opening!AfterKill BY <1>0, <1>6, OpenFailsType, AfterKillStep
  <2>2. CASE try < OpenTries /\ pc' = "start" /\ try' = try + 1
    BY <2>1, <2>2, <2>4 DEF Opening!Next, Opening!Retry
  <2>3. CASE try = OpenTries /\ pc' = "teardown" /\ outcome' = "powerpoint" /\ try' = try
    BY <2>1, <2>3, <2>4 DEF Opening!Next, Opening!Fail
  <2> QED BY <1>6, <2>1, <2>2, <2>3 DEF OpenFails
<1>7. CASE OpenEscapes \/ AddinProbeRaises
  BY <1>7 DEF OpenEscapes, AddinProbeRaises, desktopVars, loopVars, Opening!Next, Opening!Leave
<1>8. CASE AddinReady
  <2>1. /\ pc = "ready" /\ pc' = "publish" /\ try' = try
        /\ ppt'.id = ppt.id /\ ppt'.spared = ppt.spared
    BY <1>8 DEF AddinReady, ConnectAddin, HandOver, TypeOK, DesktopTypeOK, PowerPoint
  <2> QED BY <2>1, StaysOrGoesStep DEF StaysOrGoes
<1>9. CASE AddinMissing
  <2>1. CASE try < OpenTries
    <3>1. Opening!AfterKill BY <1>0, <1>9, <2>1, RestartedType, AfterKillStep
    <3> QED BY <1>9, <2>1, <3>1 DEF AddinMissing, Opening!Next, Opening!Retry
  <2>2. CASE ~(try < OpenTries)
    BY <1>9, <2>2 DEF AddinMissing, HandOver, desktopVars, Opening!vars
  <2> QED BY <2>1, <2>2
<1>10. CASE Locate \/ PickProject \/ Upload \/ FetchEmbed \/ ProjectMissing
  <2>1. /\ pc \in {"publish", "dialog", "upload", "embed", "missing"}
        /\ try' = try /\ ppt' = ppt
        /\ \/ pc' \in {"dialog", "missing", "upload", "embed", "restart"}
           \/ pc' = "teardown" /\ outcome' # "powerpoint"
    BY <1>10 DEF Locate, PickProject, Upload, FetchEmbed, ProjectMissing, EnsureProjectFolder,
       desktopVars, loopVars
  <2>2. CASE pc' = "teardown" BY <2>1, <2>2 DEF Opening!Next, Opening!Leave
  <2>3. CASE pc' # "teardown" BY <2>1, <2>3 DEF Opening!vars
  <2> QED BY <2>2, <2>3
<1>11. CASE RestartPowerPoint
  <2>1. pc = "restart" /\ pc' = "usable" /\ StaysOrGoes
    BY <1>0, <1>11, QuitType DEF RestartPowerPoint, TypeOK, Application, StaysOrGoes
  <2>2. CASE Ended \/ Withstood
    BY <2>1, <2>2, AfterKillStep DEF Opening!Next, Opening!CallAgain
  <2>3. CASE ppt'.id = ppt.id /\ ppt'.spared = ppt.spared
    BY <2>1, <2>3 DEF Opening!Next, Opening!CallAgain
  <2> QED BY <2>1, <2>2, <2>3 DEF StaysOrGoes
<1>12. CASE Teardown
  <2>1. pc = "teardown" /\ pc' = "remove" /\ outcome' = outcome /\ try' = try /\ StaysOrGoes
    BY <1>0, <1>12, QuitType DEF Teardown, loopVars, TypeOK, Application, StaysOrGoes
  <2> QED BY <2>1, StaysOrGoesStep
<1>13. CASE RemoveWorkspace
  BY <1>13 DEF RemoveWorkspace, desktopVars, loopVars, Opening!vars
<1>14. CASE PowerPointDies
  <2>1. pc' = pc /\ outcome' = outcome /\ try' = try /\ StaysOrGoes
    BY <1>0, <1>14, DiesType DEF PowerPointDies, loopVars, StaysOrGoes
  <2> QED BY <2>1, StaysOrGoesStep
<1>15. CASE UNCHANGED vars
  BY <1>15 DEF vars, desktopVars, loopVars, Opening!vars
<1> QED
  BY <1>1, <1>2, <1>3, <1>4, <1>5, <1>6, <1>7, <1>8, <1>9, <1>10, <1>11, <1>12, <1>13,
     <1>14, <1>15
     DEF Next, JobStep

\* The job calls open_with_repair by the contract that PowerPointOpen implements, for any
\* number of tries of each kind, any deck and any faults, failed taskkills included: what
\* CloudJob says of opening in one step, PowerPointOpen may do in many, with its watchdogs.
THEOREM OpeningCorrect == Spec => KeepsOpenContract
<1>1. Init => FirstTryInv /\ DecidedInv BY DEF Init, FirstTryInv, DecidedInv, Ending
<1>2. Init => Opening!Init BY DEF Init, Opening!Init, OpenPhase
<1>3. FirstTryInv /\ [Next]_vars => FirstTryInv'
  BY DEF FirstTryInv, Next, JobStep, Download, Inspect, EnsureUsable, EnsureAddinEnabled,
     StartService, Open, OpenFails, OpenEscapes, AddinReady, AddinMissing, AddinProbeRaises,
     Locate, PickProject, Upload, FetchEmbed, ProjectMissing, EnsureProjectFolder,
     RestartPowerPoint, Teardown, RemoveWorkspace, PowerPointDies, HandOver, Goto, Fail, vars,
     loopVars
<1> QED
  BY <1>1, <1>2, <1>3, JobTypeCorrect, DecidedStep, OpeningStep,
     PTL DEF Spec, KeepsOpenContract, Opening!Spec

-----------------------------------------------------------------------------
(* Whose PowerPoint it is, while Quit means gone and no probe raises *)

Prompt == "slow_quit" \notin Faults /\ "probe_raises" \notin Faults

Publishing == {"publish", "dialog", "upload", "embed", "missing", "restart", "teardown"}

\* A PowerPoint that has the deck open is the one a service will be asked to quit, or has
\* withstood a taskkill.
DeckInv ==
  ppt.deck => \/ ppt.spared
              \/ /\ ppt.id # 0
                 /\ \/ pc = "ready" /\ ppt.id = opened
                    \/ pc \in Publishing /\ ppt.id = service

\* What a service holds is an application, once it has opened the deck.
HeldInv ==
  /\ pc \in {"open", "ready"} => opened # 0
  /\ pc \in Publishing \ {"teardown"} => service # 0

LEMMA HeldStep == TypeOK /\ HeldInv /\ [Next]_vars => HeldInv'
<1> SUFFICES ASSUME TypeOK, HeldInv, [Next]_vars PROVE HeldInv' OBVIOUS
<1> USE DEF HeldInv, Publishing, Goto, Fail, HandOver
<1>1. CASE Download \/ Inspect \/ EnsureUsable \/ EnsureAddinEnabled \/ Open
  BY <1>1 DEF Download, Inspect, EnsureUsable, EnsureAddinEnabled, Open
<1>2. CASE StartService
  <2>1. CASE ppt.id # 0 /\ UNCHANGED <<ppt, born>>
    BY <1>2, <2>1 DEF StartService
  <2>2. CASE ppt' \in Newborn
    <3>1. ppt'.id = born + 1 /\ born \in Nat
      BY <2>2, NewbornType DEF TypeOK, DesktopTypeOK
    <3> QED BY <1>2, <3>1 DEF StartService
  <2> QED BY <1>2, <2>1, <2>2 DEF StartService
<1>3. CASE OpenFails \/ OpenEscapes \/ AddinReady \/ AddinMissing \/ AddinProbeRaises
  BY <1>3 DEF OpenFails, OpenEscapes, AddinReady, AddinMissing, AddinProbeRaises
<1>4. CASE Locate \/ PickProject \/ Upload \/ FetchEmbed
  BY <1>4 DEF Locate, PickProject, Upload, FetchEmbed
<1>5. CASE ProjectMissing BY <1>5 DEF ProjectMissing, EnsureProjectFolder
<1>6. CASE RestartPowerPoint \/ Teardown \/ RemoveWorkspace
  BY <1>6 DEF RestartPowerPoint, Teardown, RemoveWorkspace
<1>7. CASE PowerPointDies \/ UNCHANGED vars BY <1>7 DEF PowerPointDies
<1> QED BY <1>1, <1>2, <1>3, <1>4, <1>5, <1>6, <1>7 DEF Next, JobStep

LEMMA DeckStep ==
  ASSUME Prompt
  PROVE  TypeOK /\ HeldInv /\ DeckInv /\ [Next]_vars => DeckInv'
<1> SUFFICES ASSUME TypeOK, HeldInv, DeckInv, [Next]_vars PROVE DeckInv' OBVIOUS
<1> USE DEF DeckInv, Publishing, Goto, Fail, HandOver, Ended, Withstood
<1>0. DesktopTypeOK BY DEF TypeOK
<1>1. CASE Download \/ Inspect \/ EnsureAddinEnabled
  BY <1>1 DEF Download, Inspect, EnsureAddinEnabled
<1>2. CASE EnsureUsable
  BY <1>0, <1>2, KilledType DEF EnsureUsable
<1>3. CASE StartService
  <2>1. CASE ppt.id # 0 /\ UNCHANGED <<ppt, born>>
    BY <1>3, <2>1 DEF StartService
  <2>2. CASE ppt' \in Newborn
    <3>1. ~ppt'.deck BY <1>0, <2>2, NewbornType DEF TypeOK
    <3> QED BY <3>1
  <2> QED BY <1>3, <2>1, <2>2 DEF StartService
<1>4. CASE Open
  <2>1. ppt'.id = ppt.id BY <1>0, <1>4, DeckClosed DEF Open
  <2> QED BY <1>4, <2>1 DEF Open, Alive
<1>5. CASE OpenFails BY <1>0, <1>5, OpenFailsType
<1>6. CASE OpenEscapes BY <1>6 DEF OpenEscapes
<1>7. CASE AddinReady
  <2>1. ppt'.id = ppt.id
    BY <1>0, <1>7 DEF AddinReady, ConnectAddin, DesktopTypeOK, PowerPoint
  <2> QED BY <1>7, <2>1 DEF AddinReady, Alive
<1>8. CASE AddinMissing
  <2>1. CASE try < OpenTries
    <3>1. Ended \/ Withstood BY <1>0, <1>8, <2>1, RestartedType
    <3> QED BY <3>1
  <2>2. CASE ~(try < OpenTries) BY <1>8, <2>2 DEF AddinMissing
  <2> QED BY <2>1, <2>2
<1>9. CASE AddinProbeRaises BY <1>9 DEF AddinProbeRaises, Prompt
<1>10. CASE Locate \/ PickProject \/ Upload \/ FetchEmbed
  BY <1>10 DEF Locate, PickProject, Upload, FetchEmbed
<1>11. CASE ProjectMissing BY <1>11 DEF ProjectMissing, EnsureProjectFolder
<1>12. CASE RestartPowerPoint \/ Teardown
  <2>1. Quit(service) /\ service \in Application /\ pc \in {"restart", "teardown"}
    BY <1>12 DEF RestartPowerPoint, Teardown, TypeOK, Application
  <2>2. ~ppt'.deck \/ ppt'.spared \/ (service = 0 /\ ppt' = ppt)
    BY <1>0, <2>1, QuitType DEF Prompt
  <2> QED BY <2>1, <2>2
<1>13. CASE RemoveWorkspace BY <1>13 DEF RemoveWorkspace
<1>14. CASE PowerPointDies BY <1>0, <1>14, DiesType DEF PowerPointDies
<1>15. CASE UNCHANGED vars BY <1>15
<1> QED
  BY <1>1, <1>2, <1>3, <1>4, <1>5, <1>6, <1>7, <1>8, <1>9, <1>10, <1>11, <1>12, <1>13,
     <1>14, <1>15 DEF Next, JobStep

LEMMA DeckInit == Init => HeldInv /\ DeckInv
<1> SUFFICES ASSUME Init PROVE HeldInv /\ DeckInv OBVIOUS
<1>1. ~ppt.deck BY NobodyType DEF Init
<1> QED BY <1>1 DEF Init, HeldInv, DeckInv, Publishing

\* The deck is closed before its file is deleted, while a PowerPoint that is told to quit
\* goes and looking for the ribbon tab does not raise, by any PowerPoint that no taskkill
\* failed to end.
THEOREM FileCorrect ==
  ASSUME Prompt
  PROVE  Spec => []LetsGoOfFile
<1>1. DeckInv => LetsGoOfFile BY DEF DeckInv, LetsGoOfFile, Publishing
<1> QED BY JobTypeCorrect, HeldStep, DeckStep, DeckInit, <1>1, PTL DEF Spec

-----------------------------------------------------------------------------
(* A restarted PowerPoint has what it was restarted for *)

\* After the first go the folder exists, and no PowerPoint is older than it that has not
\* withstood a taskkill.
PickerInv ==
  /\ ensured \/ pc = "restart" \/ attempt > 1 => folder
  /\ attempt > 1 => ppt.id = 0 \/ ppt.tree \/ ppt.spared

LEMMA PickerStep ==
  ASSUME "slow_quit" \notin Faults
  PROVE  TypeOK /\ HeldInv /\ PickerInv /\ [Next]_vars => PickerInv'
<1> SUFFICES ASSUME TypeOK, HeldInv, PickerInv, [Next]_vars PROVE PickerInv' OBVIOUS
<1> USE DEF PickerInv, Goto, Fail, HandOver, Ended, Withstood
<1>0. DesktopTypeOK BY DEF TypeOK
<1>1. CASE Download \/ Inspect \/ EnsureAddinEnabled
  BY <1>1 DEF Download, Inspect, EnsureAddinEnabled
<1>2. CASE EnsureUsable BY <1>0, <1>2, KilledType DEF EnsureUsable
<1>3. CASE StartService
  <2>1. CASE ppt.id # 0 /\ UNCHANGED <<ppt, born>>
    BY <1>3, <2>1 DEF StartService
  <2>2. CASE ppt' \in Newborn
    <3>1. ppt'.tree = folder BY <1>0, <2>2, NewbornType DEF TypeOK
    <3> QED BY <1>3, <3>1 DEF StartService
  <2> QED BY <1>3, <2>1, <2>2 DEF StartService
<1>4. CASE Open
  <2>1. ppt'.id = ppt.id /\ ppt'.tree = ppt.tree /\ ppt'.spared = ppt.spared
    BY <1>0, <1>4, DeckClosed DEF Open
  <2> QED BY <1>4, <2>1 DEF Open
<1>5. CASE OpenFails BY <1>0, <1>5, OpenFailsType DEF OpenFails
<1>6. CASE OpenEscapes \/ AddinProbeRaises BY <1>6 DEF OpenEscapes, AddinProbeRaises
<1>7. CASE AddinReady
  <2>1. ppt'.id = ppt.id /\ ppt'.tree = ppt.tree /\ ppt'.spared = ppt.spared
    BY <1>0, <1>7 DEF AddinReady, ConnectAddin, DesktopTypeOK, PowerPoint
  <2> QED BY <1>7, <2>1 DEF AddinReady
<1>8. CASE AddinMissing
  <2>1. CASE try < OpenTries BY <1>0, <1>8, <2>1, RestartedType DEF AddinMissing
  <2>2. CASE ~(try < OpenTries) BY <1>8, <2>2 DEF AddinMissing
  <2> QED BY <2>1, <2>2
<1>9. CASE Locate \/ PickProject \/ Upload \/ FetchEmbed
  BY <1>9 DEF Locate, PickProject, Upload, FetchEmbed
<1>10. CASE ProjectMissing
  <2>1. folder' \in {folder, TRUE} /\ UNCHANGED <<ppt, attempt>>
    BY <1>10 DEF ProjectMissing, EnsureProjectFolder
  <2>2. CASE folder' = TRUE BY <2>1, <2>2
  <2>3. CASE folder' = folder /\ UNCHANGED ensured /\ pc' # "restart"
    BY <2>1, <2>3
  <2>4. CASE folder' = folder /\ ensured
    BY <2>1, <2>4
  <2> QED
    BY <1>10, <2>1, <2>2, <2>3, <2>4 DEF ProjectMissing, EnsureProjectFolder
<1>11. CASE RestartPowerPoint
  <2>1. ppt'.id = 0 \/ ppt'.spared
    BY <1>0, <1>11, QuitType
    DEF RestartPowerPoint, TypeOK, Application, HeldInv, Publishing
  <2> QED BY <1>11, <2>1 DEF RestartPowerPoint
<1>12. CASE Teardown
  <2>1. ppt'.id = 0 \/ ppt'.spared \/ ppt' = ppt
    BY <1>0, <1>12, QuitType DEF Teardown, TypeOK, Application
  <2> QED BY <1>12, <2>1 DEF Teardown
<1>13. CASE RemoveWorkspace BY <1>13 DEF RemoveWorkspace
<1>14. CASE PowerPointDies BY <1>0, <1>14, DiesType DEF PowerPointDies
<1>15. CASE UNCHANGED vars BY <1>15
<1> QED
  BY <1>1, <1>2, <1>3, <1>4, <1>5, <1>6, <1>7, <1>8, <1>9, <1>10, <1>11, <1>12, <1>13,
     <1>14, <1>15 DEF Next, JobStep

\* Every go at the dialog after the first has a picker that knows the new folder, while a
\* PowerPoint that is told to quit goes, unless a taskkill failed to end its PowerPoint.
THEOREM PickerCorrect ==
  ASSUME "slow_quit" \notin Faults
  PROVE  Spec => []PickerKnowsFolder
<1>1. Init => PickerInv BY DEF Init, PickerInv
<1>2. PickerInv => PickerKnowsFolder BY DEF PickerInv, PickerKnowsFolder
<1> QED BY JobTypeCorrect, HeldStep, DeckInit, PickerStep, <1>1, <1>2, PTL DEF Spec

\* From a repair that reports success to the ribbon check the add-in is on, and then
\* loaded.
AddinInv ==
  /\ pc = "enable" => ~fixed
  /\ fixed =>
       /\ pc = "start" => addin = "on" /\ ppt.id = 0
       /\ pc \in {"open", "ready"} => ppt.id = 0 \/ ppt.tab

LEMMA AddinStep ==
  ASSUME "no_licence" \notin Faults
  PROVE  TypeOK /\ AddinInv /\ [Next]_vars => AddinInv'
<1> SUFFICES ASSUME TypeOK, AddinInv, [Next]_vars PROVE AddinInv' OBVIOUS
<1> USE DEF AddinInv, Goto, Fail, HandOver
<1>0. DesktopTypeOK BY DEF TypeOK
<1>1. CASE Download \/ Inspect BY <1>1 DEF Download, Inspect
<1>2. CASE EnsureUsable BY <1>2 DEF EnsureUsable
<1>3. CASE EnsureAddinEnabled BY <1>3 DEF EnsureAddinEnabled
<1>4. CASE StartService
  <2>1. CASE ppt.id # 0 /\ UNCHANGED <<ppt, born>>
    BY <1>4, <2>1 DEF StartService
  <2>2. CASE ppt' \in Newborn
    <3>1. addin = "on" => ppt'.tab BY <1>0, <2>2, NewbornType DEF TypeOK
    <3> QED BY <1>4, <3>1 DEF StartService
  <2> QED BY <1>4, <2>1, <2>2 DEF StartService
<1>5. CASE Open
  <2>1. ppt'.id = ppt.id /\ ppt'.tab = ppt.tab BY <1>0, <1>5, DeckClosed DEF Open
  <2> QED BY <1>5, <2>1 DEF Open
<1>6. CASE OpenFails BY <1>6 DEF OpenFails
<1>7. CASE OpenEscapes \/ AddinReady \/ AddinProbeRaises
  BY <1>7 DEF OpenEscapes, AddinReady, AddinProbeRaises
<1>8. CASE AddinMissing
  <2>1. CASE try < OpenTries BY <1>8, <2>1 DEF AddinMissing
  <2>2. CASE ~(try < OpenTries) BY <1>8, <2>2 DEF AddinMissing
  <2> QED BY <2>1, <2>2
<1>9. CASE Locate \/ PickProject \/ Upload \/ FetchEmbed
  BY <1>9 DEF Locate, PickProject, Upload, FetchEmbed
<1>10. CASE ProjectMissing BY <1>10 DEF ProjectMissing, EnsureProjectFolder
<1>11. CASE RestartPowerPoint \/ Teardown \/ RemoveWorkspace
  BY <1>11 DEF RestartPowerPoint, Teardown, RemoveWorkspace
<1>12. CASE PowerPointDies
  <2>1. ppt.id # 0 /\ (ppt'.id = 0 \/ (ppt'.id = ppt.id /\ ppt'.tab = ppt.tab))
    BY <1>0, <1>12, DiesType DEF PowerPointDies, Ended
  <2> QED BY <1>12, <2>1 DEF PowerPointDies
<1>13. CASE UNCHANGED vars BY <1>13
<1> QED
  BY <1>1, <1>2, <1>3, <1>4, <1>5, <1>6, <1>7, <1>8, <1>9, <1>10, <1>11, <1>12, <1>13
  DEF Next, JobStep

\* On a licensed machine, a PowerPoint restarted for the add-in's sake has it loaded once
\* the repair, which locked keys may defeat, says that it is enabled.
THEOREM AddinCorrect ==
  ASSUME "no_licence" \notin Faults
  PROVE  Spec => []RestartLoadsAddin
<1>1. Init => AddinInv BY DEF Init, AddinInv
<1>2. AddinInv => RestartLoadsAddin BY DEF AddinInv, RestartLoadsAddin, Alive
<1> QED BY JobTypeCorrect, AddinStep, <1>1, <1>2, PTL DEF Spec

-----------------------------------------------------------------------------
(* The job cannot go on for ever *)

\* How many steps a go at the publish dialog has, with all its goes at PowerPoint.
GoSteps == 3 * OpenTries + 6

\* How many this one has left.
GoLeft ==
  CASE pc = "download" -> GoSteps + 2
    [] pc = "inspect"  -> GoSteps + 1
    [] pc = "usable"   -> GoSteps
    [] pc = "enable"   -> GoSteps - 1
    [] pc = "start"    -> 3 * (OpenTries - try) + 7
    [] pc = "open"     -> 3 * (OpenTries - try) + 6
    [] pc = "ready"    -> 3 * (OpenTries - try) + 5
    [] pc = "publish"  -> 4
    [] pc = "dialog"   -> 3
    [] pc \in {"upload", "missing"} -> 2
    [] OTHER           -> 1

\* How many the job has left: those of this go, of the goes after it, and of the finally.
StepsLeft ==
  CASE pc = "done"     -> 0
    [] pc = "remove"   -> 1
    [] pc = "teardown" -> 2
    [] OTHER           -> 2 + GoLeft + (PublishTries - attempt) * GoSteps

LEMMA GoNumbers ==
  ASSUME TypeOK
  PROVE  /\ GoSteps \in Nat /\ GoSteps = 3 * OpenTries + 6
         /\ OpenTries \in Nat /\ try \in Nat /\ try >= 1 /\ try <= OpenTries
         /\ GoLeft \in Nat /\ GoLeft >= 1 /\ GoLeft <= GoSteps + 2
         /\ PublishTries \in Nat /\ attempt \in Nat
         /\ (PublishTries - attempt) * GoSteps \in Nat
         /\ (PublishTries - attempt) * GoSteps <= PublishTries * GoSteps - GoSteps
         /\ PublishTries * GoSteps \in Nat
<1>1. /\ OpenTries \in Nat /\ PublishTries \in Nat
      /\ try \in 1..OpenTries /\ attempt \in 1..PublishTries
  BY JobAssumption DEF JobAssumption, TypeOK
<1>2. GoSteps \in Nat /\ GoSteps = 3 * OpenTries + 6 BY <1>1 DEF GoSteps
<1>3. GoLeft \in Nat /\ GoLeft >= 1 /\ GoLeft <= GoSteps + 2 BY <1>1, <1>2 DEF GoLeft
<1>4. PICK k \in Nat : k = PublishTries - attempt /\ k <= PublishTries - 1 BY <1>1
<1>5. \A m, n, g \in Nat : m <= n => m * g <= n * g /\ m * g \in Nat OBVIOUS
<1>6. k * GoSteps \in Nat /\ k * GoSteps <= (PublishTries - 1) * GoSteps
  BY <1>1, <1>2, <1>4, <1>5
<1>7. (PublishTries - 1) * GoSteps = PublishTries * GoSteps - GoSteps
      /\ PublishTries * GoSteps \in Nat
  BY <1>1, <1>2
<1> QED BY <1>1, <1>2, <1>3, <1>4, <1>6, <1>7

\* A step is one less if it is within a go, or if it leaves the goes for the finally.
LEMMA Shorter ==
  ASSUME TypeOK, pc \notin Ending
  PROVE  /\ attempt' = attempt /\ pc' \notin Ending /\ GoLeft' \in Int /\ GoLeft' < GoLeft
              => StepsLeft' < StepsLeft
         /\ pc' = "teardown" => StepsLeft' < StepsLeft
<1>1. PICK later \in Nat : later = (PublishTries - attempt) * GoSteps BY GoNumbers
<1>2. GoLeft \in Nat /\ GoLeft >= 1 /\ StepsLeft = 2 + GoLeft + later
  BY <1>1, GoNumbers DEF StepsLeft, Ending
<1>3. ASSUME attempt' = attempt, pc' \notin Ending, GoLeft' \in Int, GoLeft' < GoLeft
      PROVE  StepsLeft' < StepsLeft
  <2>1. GoSteps' = GoSteps BY DEF GoSteps
  <2>2. StepsLeft' = 2 + GoLeft' + later BY <1>1, <1>3, <2>1 DEF StepsLeft, Ending
  <2>3. \A g, h \in Int : g < h => 2 + g + later < 2 + h + later BY <1>1
  <2>4. GoLeft' \in Int BY <1>3
  <2>5. GoLeft' < GoLeft BY <1>3
  <2>6. GoLeft \in Int BY <1>2
  <2>7. 2 + GoLeft' + later < 2 + GoLeft + later BY <2>3, <2>4, <2>5, <2>6
  <2> QED BY <1>2, <2>2, <2>7
<1>4. ASSUME pc' = "teardown" PROVE StepsLeft' < StepsLeft
  <2>1. StepsLeft' = 2 BY <1>4 DEF StepsLeft
  <2> QED BY <1>2, <2>1
<1> QED BY <1>3, <1>4

\* Each step of the job is one towards its end.
LEMMA ShorterStep == TypeOK /\ TypeOK' /\ JobStep => StepsLeft' < StepsLeft
<1> SUFFICES ASSUME TypeOK, TypeOK', JobStep PROVE StepsLeft' < StepsLeft OBVIOUS
<1>n. /\ GoSteps \in Nat /\ GoSteps = 3 * OpenTries + 6 /\ GoSteps' = GoSteps
      /\ OpenTries \in Nat /\ try \in Nat /\ try >= 1 /\ try <= OpenTries
  BY GoNumbers DEF GoSteps
<1>m. try' \in Nat /\ try' >= 1 /\ try' <= OpenTries
  BY <1>n DEF TypeOK
<1> USE Shorter DEF Goto, Fail, HandOver, Ending, GoLeft
<1>1. CASE Download \/ Inspect \/ EnsureUsable \/ EnsureAddinEnabled
  BY <1>n, <1>m, <1>1 DEF Download, Inspect, EnsureUsable, EnsureAddinEnabled
<1>2. CASE StartService \/ Open \/ OpenFails \/ OpenEscapes
  BY <1>n, <1>m, <1>2 DEF StartService, Open, OpenFails, OpenEscapes
<1>3. CASE AddinReady \/ AddinMissing \/ AddinProbeRaises
  BY <1>n, <1>m, <1>3 DEF AddinReady, AddinMissing, AddinProbeRaises
<1>4. CASE Locate \/ PickProject \/ Upload \/ FetchEmbed
  BY <1>n, <1>m, <1>4 DEF Locate, PickProject, Upload, FetchEmbed
<1>5. CASE ProjectMissing
  <2>1. pc = "missing" /\ attempt' = attempt /\ (pc' = "restart" \/ pc' = "teardown")
    BY <1>5 DEF ProjectMissing, EnsureProjectFolder
  <2> QED BY <2>1
<1>6. CASE RestartPowerPoint
  <2> DEFINE later == (PublishTries - attempt) * GoSteps
  <2>1. pc = "restart" /\ pc' = "usable" /\ attempt' = attempt + 1
    BY <1>6 DEF RestartPowerPoint
  <2>2. StepsLeft = 3 + later BY <2>1 DEF StepsLeft
  <2>3. StepsLeft' = 2 + GoSteps + (PublishTries - (attempt + 1)) * GoSteps
    BY <1>n, <2>1 DEF StepsLeft
  <2>4. (PublishTries - (attempt + 1)) * GoSteps = later - GoSteps
    <3>1. PublishTries \in Int /\ attempt \in Int BY GoNumbers
    <3>2. PICK k \in Int : k = PublishTries - attempt BY <3>1
    <3>3. PublishTries - (attempt + 1) = k - 1 BY <3>1, <3>2
    <3>4. (k - 1) * GoSteps = k * GoSteps - GoSteps BY <1>n
    <3> QED BY <3>2, <3>3, <3>4
  <2>5. later \in Nat BY GoNumbers
  <2> HIDE DEF later
  <2> QED BY <1>n, <2>2, <2>3, <2>4, <2>5
<1>7. CASE Teardown
  <2>1. pc = "teardown" /\ pc' = "remove" BY <1>7 DEF Teardown
  <2> QED BY <2>1 DEF StepsLeft
<1>8. CASE RemoveWorkspace
  <2>1. pc = "remove" /\ pc' = "done" BY <1>8 DEF RemoveWorkspace
  <2> QED BY <2>1 DEF StepsLeft
<1> QED BY <1>1, <1>2, <1>3, <1>4, <1>5, <1>6, <1>7, <1>8 DEF JobStep

\* The job takes no more steps than its two loops allow, for any number of tries, whatever
\* fails and however often PowerPoint dies: each step is one towards the end, and nothing
\* that PowerPoint does puts the job back (the loop at cloud_job.py:461).  This is why the
\* job ends if its calls return.
THEOREM StepsCorrect ==
  Spec => /\ [](StepsLeft \in 0..PublishTries * GoSteps + 4)
          /\ [][/\ JobStep => StepsLeft' < StepsLeft
                /\ PowerPointDies => StepsLeft' = StepsLeft]_vars
<1>1. TypeOK => StepsLeft \in 0..PublishTries * GoSteps + 4
  <2> SUFFICES ASSUME TypeOK PROVE StepsLeft \in 0..PublishTries * GoSteps + 4 OBVIOUS
  <2> DEFINE later == (PublishTries - attempt) * GoSteps
             all == PublishTries * GoSteps
  <2>1. /\ GoLeft \in Nat /\ GoLeft <= GoSteps + 2 /\ GoSteps \in Nat
        /\ later \in Nat /\ later <= all - GoSteps /\ all \in Nat
    BY GoNumbers
  <2>2. StepsLeft \in {0, 1, 2, 2 + GoLeft + later} BY DEF StepsLeft
  <2> HIDE DEF later
  <2>3. StepsLeft \in 0..all + 4
    <3> HIDE DEF all
    <3> QED BY <2>1, <2>2
  <2> QED BY <2>3
<1>2. PowerPointDies => StepsLeft' = StepsLeft
  BY DEF PowerPointDies, StepsLeft, GoLeft, GoSteps
<1> QED BY JobTypeCorrect, <1>1, <1>2, ShorterStep, PTL
=============================================================================
