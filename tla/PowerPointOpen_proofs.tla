------------------------- MODULE PowerPointOpen_proofs -------------------------
(***************************************************************************)
(* What holds of PowerPointOpen for any number of attempts and any faults. *)
(***************************************************************************)
EXTENDS PowerPointOpen, Integers, TLAPS

USE DEF machineVars, placeVars, cleanVars, refVars, flagVars, vars

-----------------------------------------------------------------------------
(* Types *)

LEMMA ConstantFacts ==
  /\ MaxOpens \in Nat /\ 1 \in Attempt /\ Attempt \subseteq Nat
  /\ Worker \notin Attempt /\ Worker \in Thread /\ Attempt \subseteq Thread
BY OpenAssumption DEF OpenAssumption, Attempt, Worker, Thread

\* The types by the group of variables that a step changes.
MachineType ==
  /\ born \in Nat /\ ppt \in 0..born /\ deck \in File \cup {"none"}
  /\ spared \in {0, ppt}

PlaceType == pc \in PC /\ cur \in Attempt /\ target \in 0..born /\ ok \in BOOLEAN

CleanType ==
  /\ cleanup \in [Thread -> {"none", "check", "take", "close", "drop", "quit", "kill"}]
  /\ callee \in [Thread -> 0..born]

RefType ==
  /\ app \in [Attempt -> 0..born]
  /\ presentation \in [Attempt -> BOOLEAN]
  /\ currentPptx \in [Attempt -> File \cup {"none"}]

FlagType ==
  /\ dog \in [Attempt -> {"off", "waiting", "fired"}]
  /\ timedOut \in [Attempt -> BOOLEAN]
  /\ done \in [Attempt -> BOOLEAN]
  /\ cleaned \in [Attempt -> BOOLEAN]

LEMMA TypeParts == TypeOK <=> MachineType /\ PlaceType /\ CleanType /\ RefType /\ FlagType
BY DEF TypeOK, MachineType, PlaceType, CleanType, RefType, FlagType

LEMMA TypeInit == Init => TypeOK
<1> SUFFICES ASSUME Init PROVE TypeOK OBVIOUS
<1>1. MachineType /\ PlaceType
  <2>1. born \in {0, 1} /\ ppt = born /\ deck = "none" BY DEF Init
  <2>0. spared \in {0, ppt} BY <2>1 DEF Init
  <2>2. MachineType BY <2>0, <2>1 DEF MachineType
  <2>3. target \in 0..born BY <2>1 DEF Init
  <2> QED BY <2>2, <2>3, ConstantFacts DEF Init, PlaceType, PC
<1>2. born \in Nat /\ 0 \in 0..born BY <1>1 DEF MachineType
<1>3. CleanType BY <1>2 DEF Init, CleanType
<1>4. RefType BY <1>2 DEF Init, RefType
<1>5. FlagType BY DEF Init, FlagType
<1> QED BY <1>1, <1>3, <1>4, <1>5, TypeParts

\* Taking PowerPoint down, on the worker's thread or on a watchdog's.
LEMMA TakeDownType ==
  ASSUME TypeOK, NEW t \in Thread, TakeDown(t)
  PROVE  TypeOK'
<1> USE DEF MachineType, PlaceType, CleanType, RefType, FlagType
<1>0. AttemptOf(t) \in Attempt
  BY ConstantFacts DEF AttemptOf, TypeOK, Thread, Worker
<1>1. CASE CheckCleaned(t)
  BY <1>1 DEF CheckCleaned, To, TypeOK
<1>2. CASE TakePresentation(t)
  <2> DEFINE a == AttemptOf(t)
  <2>1. MachineType' /\ PlaceType' BY <1>2, TypeParts DEF TakePresentation
  <2>2. CleanType' BY <1>0, <1>2, TypeParts DEF TakePresentation, To
  <2>3. RefType' BY <1>0, <1>2, TypeParts DEF TakePresentation
  <2>4. cleaned' \in [Attempt -> BOOLEAN]
    <3>1. cleaned' = [cleaned EXCEPT ![a] = @ \/ t # Worker \/ pc = "raised"]
      BY <1>2 DEF TakePresentation
    <3>2. cleaned \in [Attempt -> BOOLEAN] BY TypeParts
    <3> HIDE DEF a
    <3> QED BY <3>1, <3>2
  <2>5. FlagType' BY <1>2, <2>4, TypeParts DEF TakePresentation
  <2> QED BY <2>1, <2>2, <2>3, <2>5 DEF TypeOK
<1>3. CASE CloseDeck(t)
  BY <1>3 DEF CloseDeck, To, TypeOK
<1>4. CASE DropReferences(t)
  <2>1. MachineType' /\ PlaceType' /\ FlagType' BY <1>4, TypeParts DEF DropReferences
  <2>2. CleanType' BY <1>0, <1>4, TypeParts DEF DropReferences, AfterQuit, To
  <2>3. RefType' BY <1>0, <1>4, TypeParts DEF DropReferences
  <2> QED BY <2>1, <2>2, <2>3 DEF TypeOK
<1>5. CASE QuitApp(t)
  BY <1>5 DEF QuitApp, AfterQuit, To, Terminate, Vanish, TypeOK
<1>6. CASE Kill(t)
  BY <1>6 DEF Kill, To, Terminate, Vanish, TypeOK
<1> QED BY <1>1, <1>2, <1>3, <1>4, <1>5, <1>6 DEF TakeDown

LEMMA TypeStep == TypeOK /\ [Next]_vars => TypeOK'
<1> SUFFICES ASSUME TypeOK, [Next]_vars PROVE TypeOK' OBVIOUS
<1> USE ConstantFacts
<1>1. CASE StartService
  <2>1. /\ born' \in {born, born + 1} /\ ppt' \in 0..born' /\ deck' = deck
        /\ spared' = spared /\ spared' \in {0, ppt'}
    BY <1>1 DEF StartService, TypeOK
  <2>2. app' \in [Attempt -> 0..born']
    BY <1>1, <2>1 DEF StartService, TypeOK
  <2>3. pc' \in PC /\ UNCHANGED <<cur, target, ok>>
    BY <1>1 DEF StartService, Goto, PC
  <2>4. cleanup' \in [Thread -> {"none", "check", "take", "close", "drop", "quit", "kill"}]
    BY <1>1 DEF StartService, To, TypeOK
  <2>5. UNCHANGED <<dog, callee, presentation, currentPptx, timedOut, done, cleaned>>
    BY <1>1 DEF StartService
  <2>6. born \in Nat /\ 0..born \subseteq 0..born' BY <2>1 DEF TypeOK
  <2> QED BY <2>1, <2>2, <2>3, <2>4, <2>5, <2>6 DEF TypeOK
<1>2. CASE BeginOpen
  BY <1>2 DEF BeginOpen, To, TypeOK, PC
<1>3. CASE Open2007Returns \/ BodyRaises \/ FirstCheck \/ NoProtectedView
  BY <1>3 DEF Open2007Returns, BodyRaises, FirstCheck, NoProtectedView, Goto, Raise, To,
     TypeOK, PC, File
<1>4. CASE SaveRepaired \/ SecondCheck \/ Finally
  BY <1>4 DEF SaveRepaired, SaveUnderNewName, SecondCheck, Finally, Goto, Raise, To,
     TypeOK, PC, File
<1>5. CASE Join \/ AddinMissing \/ CloseService \/ Closed
  BY <1>5 DEF Join, AddinMissing, CloseService, Closed, Goto, To, TypeOK, PC
<1>6. CASE NextAttempt
  <2>1. cur' \in Attempt BY <1>6 DEF NextAttempt, TypeOK, Attempt
  <2> QED BY <1>6, <2>1 DEF NextAttempt, TypeOK, PC
<1>7. CASE TakeDown(Worker)
  BY <1>7, TakeDownType
<1>8. ASSUME NEW a \in Attempt, DogStep(a) PROVE TypeOK'
  <2>1. CASE DogReleased(a) \/ LimitExpires(a)
    BY <2>1 DEF DogReleased, LimitExpires, To, TypeOK
  <2>2. CASE TakeDown(a)
    BY <2>2, TakeDownType
  <2> QED BY <1>8, <2>1, <2>2 DEF DogStep
<1>9. CASE PowerPointDies
  BY <1>9 DEF PowerPointDies, Vanish, TypeOK
<1>10. CASE UNCHANGED vars
  BY <1>10 DEF TypeOK
<1> QED
  BY <1>1, <1>2, <1>3, <1>4, <1>5, <1>6, <1>7, <1>8, <1>9, <1>10 DEF Next, WorkerStep

\* Type correctness: no instance is named that was not started.
THEOREM TypeCorrect == Spec => []TypeOK
BY TypeInit, TypeStep, PTL DEF Spec

-----------------------------------------------------------------------------
(* The worker's path *)

\* Open2007 has returned, and open() has not raised since.
Opened ==
  \/ pc \in {"check1", "protect", "save", "check2", "success", "inUse"}
  \/ pc = "join" /\ ok

\* This attempt has an application.
Started == pc \in {"open", "body"} \/ Opened

\* The worker takes PowerPoint down only where an attempt ends.
WorkerCleans == cleanup[Worker] # "none" => pc \in {"raised", "abandon", "closing"}

\* The order in which an attempt is abandoned: the references, the application, the kill.
Abandons ==
  pc = "abandon" =>
    /\ cleanup[Worker] # "check"
    /\ cleanup[Worker] # "take" => ~presentation[cur]
    /\ cleanup[Worker] \in {"quit", "kill", "none"} => app[cur] = 0
    /\ cleanup[Worker] = "none" => ppt = 0 \/ spared # 0

\* Only the attempt that is under way holds an application or a presentation.
OneHolder == \A a \in Attempt : a # cur => app[a] = 0 /\ ~presentation[a]

\* A watchdog left over calls only into a PowerPoint that its attempt has lost, but for
\* one that taskkill failed to end.
OldCallees ==
  \A a \in Attempt : a # cur /\ callee[a] # 0 /\ callee[a] = ppt => spared # 0

\* A watchdog that cleans up has set timed_out before.
DogsTell == \A a \in Attempt : cleanup[a] # "none" => timedOut[a]

\* While this attempt's watchdog keeps still, the deck is open in the PowerPoint it
\* started, and from "save" on current_pptx names it.
DeckThere ==
  ~timedOut[cur] =>
    /\ Started => app[cur] # 0
    /\ pc = "body" => target = app[cur]
    /\ Opened /\ pc \notin {"check1", "protect"} => currentPptx[cur] \in File
    /\ Opened /\ ppt = app[cur] =>
         \/ spared # 0 /\ deck = "none"
         \/ deck = IF pc \in {"check1", "protect"} THEN "source" ELSE currentPptx[cur]

OpenInv ==
  /\ WorkerCleans /\ Abandons /\ RetryIsFresh
  /\ OneHolder /\ OldCallees /\ DogsTell /\ DeckThere

LEMMA OpenInit == Init => OpenInv
BY ConstantFacts
   DEF Init, OpenInv, WorkerCleans, Abandons, RetryIsFresh, OneHolder, OldCallees,
        DogsTell, DeckThere, Started, Opened

\* The steps of the worker itself, none of which is one of taking PowerPoint down.
LEMMA WorkerInv ==
  ASSUME TypeOK, OpenInv, [Next]_vars,
         \/ StartService \/ BeginOpen
         \/ Open2007Returns \/ BodyRaises \/ FirstCheck \/ NoProtectedView
         \/ SaveRepaired \/ SecondCheck \/ Finally \/ Join
         \/ AddinMissing \/ NextAttempt \/ CloseService \/ Closed
  PROVE  OpenInv'
<1> USE ConstantFacts
        DEF OpenInv, WorkerCleans, Abandons, RetryIsFresh, OneHolder, OldCallees,
        DogsTell, DeckThere, Started, Opened, Goto, To, Raise
<1>0. cleanup \in [Thread -> {"none", "check", "take", "close", "drop", "quit", "kill"}]
      /\ app \in [Attempt -> 0..born] /\ born \in Nat /\ cur \in Attempt
      /\ currentPptx \in [Attempt -> File \cup {"none"}]
      /\ presentation \in [Attempt -> BOOLEAN] /\ ppt \in 0..born
      /\ callee \in [Thread -> 0..born] /\ Attempt \subseteq Thread
  BY DEF TypeOK
<1>1. CASE StartService
  BY <1>0, <1>1 DEF StartService
<1>2. CASE BeginOpen
  BY <1>0, <1>2 DEF BeginOpen
<1>3. CASE Open2007Returns
  BY <1>0, <1>3 DEF Open2007Returns, Alive
<1>4. CASE BodyRaises
  BY <1>0, <1>4 DEF BodyRaises
<1>5. CASE FirstCheck \/ SecondCheck
  BY <1>0, <1>5 DEF FirstCheck, SecondCheck
<1>6. CASE NoProtectedView
  BY <1>0, <1>6 DEF NoProtectedView, Alive, File
<1>7. CASE SaveRepaired
  BY <1>0, <1>7 DEF SaveRepaired, SaveUnderNewName, Alive, File
<1>8. CASE Finally
  BY <1>0, <1>8 DEF Finally
<1>9. CASE Join
  BY <1>0, <1>9 DEF Join
<1>10. CASE AddinMissing \/ CloseService \/ Closed
  BY <1>0, <1>10 DEF AddinMissing, CloseService, Closed
<1>11. CASE NextAttempt
  BY <1>0, <1>11 DEF NextAttempt
<1> QED
  BY <1>1, <1>2, <1>3, <1>4, <1>5, <1>6, <1>7, <1>8, <1>9, <1>10, <1>11

\* Taking PowerPoint down, by the worker where an attempt ends, or by a watchdog.
LEMMA TakeDownInv ==
  ASSUME TypeOK, OpenInv, NEW t \in Thread, TakeDown(t)
  PROVE  OpenInv'
<1> USE ConstantFacts
        DEF OpenInv, WorkerCleans, Abandons, RetryIsFresh, OneHolder, OldCallees,
        DogsTell, DeckThere, Started, Opened, To
<1>0. cleanup \in [Thread -> {"none", "check", "take", "close", "drop", "quit", "kill"}]
      /\ app \in [Attempt -> 0..born] /\ born \in Nat /\ cur \in Attempt
      /\ presentation \in [Attempt -> BOOLEAN] /\ ppt \in 0..born
      /\ currentPptx \in [Attempt -> File \cup {"none"}]
      /\ callee \in [Thread -> 0..born] /\ Attempt \subseteq Thread
      /\ spared \in {0, ppt}
  BY DEF TypeOK
<1>1. t = Worker \/ (t \in Attempt /\ t # Worker) BY DEF Thread, Worker, Attempt
<1>2. CASE CheckCleaned(t)
  BY <1>0, <1>1, <1>2 DEF CheckCleaned
<1>3. CASE TakePresentation(t)
  <2>1. CASE t = Worker
    BY <1>0, <1>3, <2>1 DEF TakePresentation, AttemptOf
  <2>2. CASE t \in Attempt /\ t # Worker
    BY <1>0, <1>3, <2>2 DEF TakePresentation, AttemptOf
  <2> QED BY <1>1, <2>1, <2>2
<1>4. CASE CloseDeck(t)
  BY <1>0, <1>1, <1>4 DEF CloseDeck
<1>5. CASE DropReferences(t)
  <2>1. CASE t = Worker
    BY <1>0, <1>5, <2>1 DEF DropReferences, AttemptOf, AfterQuit
  <2>2. CASE t \in Attempt /\ t # Worker
    BY <1>0, <1>5, <2>2 DEF DropReferences, AttemptOf, AfterQuit
  <2> QED BY <1>1, <2>1, <2>2
<1>6. CASE QuitApp(t)
  BY <1>0, <1>1, <1>6 DEF QuitApp, AfterQuit, Terminate, Vanish
<1>7. CASE Kill(t)
  BY <1>0, <1>1, <1>7 DEF Kill, Terminate, Vanish
<1> QED BY <1>2, <1>3, <1>4, <1>5, <1>6, <1>7 DEF TakeDown

LEMMA OpenStep == TypeOK /\ OpenInv /\ [Next]_vars => OpenInv'
<1> SUFFICES ASSUME TypeOK, OpenInv, [Next]_vars PROVE OpenInv' OBVIOUS
<1>1. CASE WorkerStep
  BY <1>1, WorkerInv, TakeDownInv, ConstantFacts DEF WorkerStep
<1>2. ASSUME NEW a \in Attempt, DogStep(a) PROVE OpenInv'
  <2>1. CASE DogReleased(a)
    BY <2>1 DEF DogReleased, OpenInv, WorkerCleans, Abandons, RetryIsFresh, OneHolder,
       OldCallees, DogsTell, DeckThere, Started, Opened
  <2>2. CASE LimitExpires(a)
    BY <2>2, ConstantFacts
       DEF LimitExpires, To, OpenInv, WorkerCleans, Abandons, RetryIsFresh, OneHolder, OldCallees,
           DogsTell, DeckThere, Started, Opened, TypeOK
  <2>3. CASE TakeDown(a)
    BY <2>3, TakeDownInv, ConstantFacts
  <2> QED BY <1>2, <2>1, <2>2, <2>3 DEF DogStep
<1>3. CASE PowerPointDies
  BY <1>3 DEF PowerPointDies, Vanish, OpenInv, WorkerCleans, Abandons, RetryIsFresh,
     OneHolder, OldCallees, DogsTell, DeckThere, Started, Opened, TypeOK
<1>4. CASE UNCHANGED vars
  BY <1>4 DEF OpenInv, WorkerCleans, Abandons, RetryIsFresh, OneHolder, OldCallees,
        DogsTell, DeckThere, Started, Opened
<1> QED BY <1>1, <1>2, <1>3, <1>4 DEF Next

-----------------------------------------------------------------------------
(* What the job relies on *)

\* However many watchdogs are still cleaning up, a retry starts without the PowerPoint of
\* the attempt before, and giving up leaves none behind (open_with_repair's quit and
\* terminate), but for one that a taskkill has failed to end: only StartService brings one
\* up, and the worker kills last.
THEOREM RetryCorrect == Spec => []RetryIsFresh
<1>1. OpenInv => RetryIsFresh BY DEF OpenInv
<1> QED BY <1>1, TypeInit, TypeStep, OpenInit, OpenStep, PTL DEF Spec

\* The deck that open() hands over is open in its PowerPoint while that lives, and
\* current_pptx is the file it lives in: a watchdog of an earlier attempt holds no
\* application any more, so it takes no deck away but by ending the PowerPoint, or by a
\* Quit that it had begun before, of a PowerPoint that survived its taskkill.
THEOREM InUseCorrect == Spec => []InUseIsUsable
<1>1. OpenInv => InUseIsUsable
  BY DEF OpenInv, DeckThere, InUseIsUsable, Started, Opened
<1> QED BY <1>1, TypeInit, TypeStep, OpenInit, OpenStep, PTL DEF Spec

-----------------------------------------------------------------------------
(* A call that hangs *)

\* The attempts that have come to their call, or to an end without one.
Begun(a) == a < cur \/ (a = cur /\ pc \notin {"start", "open"})

\* Between Open2007 and the last call of open().
InOpen == pc \in {"body", "check1", "protect", "save"}

\* Nobody has touched what an attempt to come will use.
FreshAhead ==
  \A a \in Attempt :
    ~Begun(a) => dog[a] = "off" /\ cleanup[a] = "none" /\ ~done[a] /\ ~cleaned[a]

\* A watchdog takes PowerPoint down only once its limit has expired.
DogsFire == \A a \in Attempt : cleanup[a] # "none" => dog[a] = "fired"

\* Until open() is past its calls nobody has released this attempt's watchdog or done its
\* cleanup for it, and when it is through with that, the PowerPoint is gone, or taskkill
\* has failed.
DogOnDuty ==
  InOpen =>
    /\ ~done[cur]
    /\ cleaned[cur] => dog[cur] = "fired" /\ cleanup[cur] # "check"
    /\ \/ dog[cur] = "waiting"
       \/ dog[cur] = "fired" /\ (cleanup[cur] # "none" \/ ~Alive \/ spared # 0)

WatchInv == FreshAhead /\ DogsFire /\ DogOnDuty

LEMMA WatchInit == Init => WatchInv
BY DEF Init, WatchInv, FreshAhead, DogsFire, DogOnDuty, InOpen, Thread

LEMMA WatchStep == TypeOK /\ OpenInv /\ WatchInv /\ [Next]_vars => WatchInv'
<1> SUFFICES ASSUME TypeOK, OpenInv, WatchInv, [Next]_vars PROVE WatchInv' OBVIOUS
<1> USE ConstantFacts
        DEF WatchInv, FreshAhead, DogsFire, DogOnDuty, Begun, InOpen, Alive, Goto, To, Raise
<1>0. /\ cleanup \in [Thread -> {"none", "check", "take", "close", "drop", "quit", "kill"}]
      /\ dog \in [Attempt -> {"off", "waiting", "fired"}]
      /\ done \in [Attempt -> BOOLEAN] /\ cleaned \in [Attempt -> BOOLEAN]
      /\ cur \in Attempt /\ cur \in Nat
  BY DEF TypeOK
<1>1. CASE StartService
  BY <1>0, <1>1 DEF StartService
<1>2. CASE BeginOpen
  BY <1>0, <1>2 DEF BeginOpen
<1>3. CASE Open2007Returns \/ BodyRaises \/ FirstCheck \/ NoProtectedView
  BY <1>0, <1>3 DEF Open2007Returns, BodyRaises, FirstCheck, NoProtectedView
<1>4. CASE SaveRepaired \/ SecondCheck
  BY <1>0, <1>4 DEF SaveRepaired, SaveUnderNewName, SecondCheck
<1>5. CASE Finally
  BY <1>0, <1>5 DEF Finally
<1>6. CASE Join \/ AddinMissing \/ CloseService \/ Closed
  BY <1>0, <1>6 DEF Join, AddinMissing, CloseService, Closed
<1>7. CASE NextAttempt
  BY <1>0, <1>7 DEF NextAttempt
<1>8. CASE TakeDown(Worker)
  <2>1. pc \in {"raised", "abandon", "closing"}
    BY <1>8
       DEF TakeDown, CheckCleaned, TakePresentation, CloseDeck, DropReferences, QuitApp, Kill,
           OpenInv, WorkerCleans
  <2> QED
    BY <1>0, <1>8, <2>1
       DEF TakeDown, CheckCleaned, TakePresentation, CloseDeck, DropReferences, QuitApp, Kill,
           AttemptOf
<1>9. ASSUME NEW a \in Attempt, DogStep(a) PROVE WatchInv'
  <2>0. a # Worker /\ AttemptOf(a) = a BY DEF AttemptOf
  <2>1. CASE DogReleased(a)
    BY <1>0, <2>1 DEF DogReleased
  <2>2. CASE LimitExpires(a)
    BY <1>0, <2>2 DEF LimitExpires
  <2>3. CASE CheckCleaned(a)
    BY <1>0, <2>0, <2>3 DEF CheckCleaned
  <2>4. CASE TakePresentation(a) \/ CloseDeck(a)
    BY <1>0, <2>0, <2>4 DEF TakePresentation, CloseDeck
  <2>5. CASE DropReferences(a)
    BY <1>0, <2>0, <2>5 DEF DropReferences, AfterQuit
  <2>6. CASE QuitApp(a)
    BY <1>0, <2>0, <2>6 DEF QuitApp, AfterQuit, Terminate, Vanish
  <2>7. CASE Kill(a)
    BY <1>0, <2>7 DEF Kill, Terminate, Vanish, TypeOK
  <2> QED BY <1>9, <2>1, <2>2, <2>3, <2>4, <2>5, <2>6, <2>7 DEF DogStep, TakeDown
<1>10. CASE PowerPointDies
  BY <1>10 DEF PowerPointDies, Vanish
<1>11. CASE UNCHANGED vars
  BY <1>11
<1> QED
  BY <1>1, <1>2, <1>3, <1>4, <1>5, <1>6, <1>7, <1>8, <1>9, <1>10, <1>11
     DEF Next, WorkerStep

\* The watchdog of the attempt under way waits for its limit, is taking PowerPoint down,
\* or could not: taskkill has failed.
DogIsComing ==
  \/ dog[cur] = "waiting" /\ ~done[cur]
  \/ cleanup[cur] # "none"
  \/ dog[cur] = "fired" /\ spared # 0

\* No call that open() makes between the start of its watchdog and done.set() is left
\* to hang (service.py:147): whenever the worker is in one, and its PowerPoint runs, this
\* attempt's watchdog still has its limit before it, or is on its way to terminate that
\* PowerPoint, whatever the watchdogs of earlier attempts have done to it, or has tried to
\* and failed.  It says nothing of the calls that are made without a watchdog: Dispatch,
\* the look for Open2007, Close and Quit.
THEOREM OpenIsWatched == Spec => [](WatchedCall => DogIsComing)
<1>1. TypeOK /\ WatchInv => (WatchedCall => DogIsComing)
  BY DEF TypeOK, WatchInv, DogOnDuty, DogsFire, InOpen, WatchedCall, DogIsComing
<1> QED BY <1>1, TypeInit, TypeStep, OpenInit, OpenStep, WatchInit, WatchStep, PTL DEF Spec

-----------------------------------------------------------------------------
(* The attempts come to an end *)

\* Of taking PowerPoint down.
CleanupLeft(t) ==
  CASE cleanup[t] = "check" -> 6
    [] cleanup[t] = "take"  -> 5
    [] cleanup[t] = "close" -> 4
    [] cleanup[t] = "drop"  -> 3
    [] cleanup[t] = "quit"  -> 2
    [] cleanup[t] = "kill"  -> 1
    [] cleanup[t] = "none"  -> 0

\* Of this attempt, but for taking PowerPoint down.
AttemptLeft ==
  CASE pc = "start"                   -> 22
    [] pc = "open"                    -> 21
    [] pc = "body"                    -> 20
    [] pc = "check1"                  -> 19
    [] pc = "protect"                 -> 18
    [] pc = "save"                    -> 17
    [] pc = "check2"                  -> 16
    [] pc \in {"success", "raised"}   -> 9
    [] pc = "join"                    -> 8
    [] pc = "inUse"                   -> 7
    [] pc \in {"abandon", "closing"}  -> 1

Over == pc \in {"closed", "gaveUp", "escaped"}

\* How many steps the worker has left at most, of this attempt and of those to come.
WorkerLeft ==
  IF Over THEN 0 ELSE AttemptLeft + CleanupLeft(Worker) + 22 * (MaxOpens - cur)

\* How many a watchdog has: to be released or to fire, and to take PowerPoint down.
DogLeft(a) ==
  (IF dog[a] = "waiting" \/ ~Begun(a) THEN 7 ELSE 0) + CleanupLeft(a)

LEMMA CleanupNumbers ==
  ASSUME TypeOK, NEW t \in Thread
  PROVE  CleanupLeft(t) \in 0..6 /\ (cleanup[t] = "none" => CleanupLeft(t) = 0)
BY DEF TypeOK, CleanupLeft

\* Each step of taking PowerPoint down is one less, and on no other thread.
LEMMA CleanupShorter ==
  ASSUME TypeOK, NEW t \in Thread, TakeDown(t)
  PROVE  /\ CleanupLeft(t)' < CleanupLeft(t)
         /\ \A u \in Thread \ {t} : CleanupLeft(u)' = CleanupLeft(u)
         /\ UNCHANGED <<pc, cur, dog>>
         /\ cleanup[t] # "none"
<1>1. cleanup \in [Thread -> {"none", "check", "take", "close", "drop", "quit", "kill"}] BY DEF TypeOK
<1>2. CASE CheckCleaned(t)
  BY <1>1, <1>2 DEF CheckCleaned, To, CleanupLeft, placeVars
<1>3. CASE TakePresentation(t)
  BY <1>1, <1>3 DEF TakePresentation, To, CleanupLeft, placeVars
<1>4. CASE CloseDeck(t)
  BY <1>1, <1>4 DEF CloseDeck, To, CleanupLeft, placeVars
<1>5. CASE DropReferences(t)
  BY <1>1, <1>5 DEF DropReferences, AfterQuit, To, CleanupLeft, placeVars
<1>6. CASE QuitApp(t)
  BY <1>1, <1>6 DEF QuitApp, AfterQuit, To, CleanupLeft, placeVars
<1>7. CASE Kill(t)
  BY <1>1, <1>7 DEF Kill, To, CleanupLeft, placeVars
<1> QED BY <1>2, <1>3, <1>4, <1>5, <1>6, <1>7 DEF TakeDown

LEMMA WorkerNumbers ==
  ASSUME TypeOK, OpenInv
  PROVE  /\ 22 * (MaxOpens - cur) \in Nat /\ 22 * (MaxOpens - cur) <= 22 * MaxOpens - 22
         /\ ~Over => AttemptLeft \in 1..22
         /\ CleanupLeft(Worker) \in 0..6
         /\ cleanup[Worker] # "none" => AttemptLeft \in 1..9 /\ ~Over
         /\ 22 * MaxOpens \in Nat
         /\ WorkerLeft \in 0..22 * MaxOpens
<1> DEFINE later == 22 * (MaxOpens - cur)
<1>1. later \in Nat /\ later <= 22 * MaxOpens - 22 /\ MaxOpens \in Nat /\ 22 * MaxOpens \in Nat
  BY OpenAssumption DEF OpenAssumption, TypeOK, Attempt
<1>2. ~Over => AttemptLeft \in 1..22
  BY DEF TypeOK, PC, Over, AttemptLeft
<1>3. CleanupLeft(Worker) \in 0..6 BY CleanupNumbers, ConstantFacts
<1>4. cleanup[Worker] # "none" => AttemptLeft \in 1..9 /\ ~Over
  BY DEF OpenInv, WorkerCleans, Over, AttemptLeft
<1>5. cleanup[Worker] = "none" => CleanupLeft(Worker) = 0
  BY CleanupNumbers, ConstantFacts
<1>6. ~Over => AttemptLeft + CleanupLeft(Worker) \in 0..22
  BY <1>2, <1>3, <1>4, <1>5
<1>7. WorkerLeft \in {0, AttemptLeft + CleanupLeft(Worker) + later} BY DEF WorkerLeft
<1>8. WorkerLeft \in 0..22 * MaxOpens
  <2> HIDE DEF later
  <2>1. CASE Over BY <1>1, <2>1 DEF WorkerLeft
  <2>2. CASE ~Over
    <3>1. PICK k \in 0..22 : k = AttemptLeft + CleanupLeft(Worker) BY <1>6, <2>2
    <3>2. WorkerLeft = k + later BY <2>2, <3>1 DEF WorkerLeft, later
    <3> QED BY <1>1, <3>1, <3>2
  <2> QED BY <2>1, <2>2
<1> QED BY <1>1, <1>2, <1>3, <1>4, <1>8

\* A step within an attempt: nearer its end by more than a cleanup that it begins, if any.
LEMMA NearerEnd ==
  ASSUME TypeOK, TypeOK', OpenInv, OpenInv', ~Over, cur' = cur, cleanup[Worker] = "none",
         \/ Over'
         \/ ~Over' /\ cleanup'[Worker] = "none" /\ AttemptLeft' < AttemptLeft
         \/ ~Over' /\ AttemptLeft' + 6 < AttemptLeft
         \/ ~Over' /\ cleanup'[Worker] = "take" /\ AttemptLeft' + 5 < AttemptLeft
  PROVE  WorkerLeft' < WorkerLeft
<1>1. PICK later \in Nat : later = 22 * (MaxOpens - cur) BY WorkerNumbers
<1>2. PICK k \in 1..22 : k = AttemptLeft BY WorkerNumbers
<1>3. CleanupLeft(Worker) = 0 BY CleanupNumbers, ConstantFacts
<1>4. WorkerLeft = k + later BY <1>1, <1>2, <1>3 DEF WorkerLeft
<1>5. CASE Over' BY <1>4, <1>5 DEF WorkerLeft
<1>6. CASE ~Over'
  <2>1. CleanupLeft(Worker)' \in 0..6
        /\ (cleanup'[Worker] = "none" => CleanupLeft(Worker)' = 0)
        /\ (cleanup'[Worker] = "take" => CleanupLeft(Worker)' = 5)
    <3>1. cleanup' \in [Thread -> {"none", "check", "take", "close", "drop", "quit", "kill"}] BY DEF TypeOK
    <3> QED BY <3>1, ConstantFacts DEF CleanupLeft
  <2>2. AttemptLeft' \in 1..22 BY <1>6 DEF TypeOK, PC, Over, AttemptLeft
  <2>3. PICK m \in 1..22, c \in 0..6 : m = AttemptLeft' /\ c = CleanupLeft(Worker)'
    BY <2>1, <2>2
  <2>4. WorkerLeft' = m + c + later BY <1>1, <1>6, <2>3 DEF WorkerLeft
  <2>5. m + c < k
    <3>1. CASE cleanup'[Worker] = "none" /\ m < k BY <2>1, <2>3, <3>1
    <3>2. CASE m + 6 < k
      <4>1. m \in Int /\ c \in Int /\ k \in Int /\ c <= 6 BY <1>2, <2>3
      <4> QED BY <3>2, <4>1
    <3>3. CASE cleanup'[Worker] = "take" /\ m + 5 < k BY <2>1, <2>3, <3>3
    <3> QED BY <1>2, <1>6, <2>3, <3>1, <3>2, <3>3
  <2>6. m + c + later < k + later BY <2>5
  <2> QED BY <1>4, <2>4, <2>6
<1> QED BY <1>5, <1>6

LEMMA WorkerShorter ==
  ASSUME TypeOK, TypeOK', OpenInv, OpenInv', WorkerStep PROVE WorkerLeft' < WorkerLeft
<1> USE DEF Over, AttemptLeft
<1>0. cleanup \in [Thread -> {"none", "check", "take", "close", "drop", "quit", "kill"}] BY DEF TypeOK
<1>1. CASE \/ StartService \/ BeginOpen
           \/ Open2007Returns \/ BodyRaises \/ FirstCheck \/ NoProtectedView
           \/ SaveRepaired \/ SecondCheck
  <2> USE DEF Goto, Raise, To
  <2>1. cleanup[Worker] = "none"
    BY <1>0, <1>1
       DEF OpenInv, WorkerCleans, StartService, BeginOpen, Open2007Returns, BodyRaises,
           FirstCheck, NoProtectedView, SaveRepaired, SecondCheck
  <2>2. CASE StartService
    BY <1>0, <2>1, <2>2, NearerEnd, ConstantFacts DEF StartService
  <2>3. CASE BeginOpen
    BY <1>0, <2>1, <2>3, NearerEnd, ConstantFacts DEF BeginOpen
  <2>4. CASE BodyRaises \/ FirstCheck \/ SecondCheck
    <3>1. CASE BodyRaises
      BY <1>0, <2>1, <3>1, NearerEnd, ConstantFacts DEF BodyRaises
    <3>2. CASE FirstCheck
      <4>1. pc = "check1" /\ pc' \in {"raised", "protect"} /\ cur' = cur BY <3>2 DEF FirstCheck
      <4>2. pc' = "protect" => cleanup' = cleanup BY <3>2 DEF FirstCheck
      <4>3. AttemptLeft = 19 BY <4>1
      <4>4. CASE pc' = "raised"
        <5>1. AttemptLeft' = 9 /\ ~Over' BY <4>4
        <5> QED BY <2>1, <4>1, <4>3, <5>1, NearerEnd
      <4>5. CASE pc' = "protect"
        <5>1. AttemptLeft' = 18 /\ ~Over' BY <4>5
        <5> QED BY <2>1, <4>1, <4>2, <4>3, <4>5, <5>1, NearerEnd
      <4> QED BY <4>1, <4>4, <4>5
    <3>3. CASE SecondCheck
      BY <1>0, <2>1, <3>3, NearerEnd, ConstantFacts DEF SecondCheck
    <3> QED BY <2>4, <3>1, <3>2, <3>3
  <2>5. CASE Open2007Returns \/ NoProtectedView \/ SaveRepaired
    BY <1>0, <2>1, <2>5, NearerEnd, ConstantFacts
       DEF Open2007Returns, NoProtectedView, SaveRepaired
  <2> QED BY <1>1, <2>2, <2>3, <2>4, <2>5
<1>2. CASE Finally \/ Join \/ AddinMissing \/ CloseService \/ Closed
  <2> USE DEF Goto, To
  <2>1. cleanup[Worker] = "none"
    BY <1>0, <1>2 DEF OpenInv, WorkerCleans, Finally, Join, AddinMissing, CloseService, Closed
  <2>2. CASE Finally
    BY <1>0, <2>1, <2>2, NearerEnd, ConstantFacts DEF Finally
  <2>3. CASE Join
    <3>1. pc = "join" /\ cur' = cur BY <2>3 DEF Join
    <3>2. \/ pc' = "inUse" /\ cleanup' = cleanup
          \/ pc' = "abandon" /\ cleanup'[Worker] = "take"
      BY <1>0, <2>3, ConstantFacts DEF Join
    <3> QED BY <2>1, <3>1, <3>2, NearerEnd
  <2>4. CASE AddinMissing \/ CloseService
    <3>1. /\ pc = "inUse" /\ pc' \in {"abandon", "closing"} /\ cur' = cur
          /\ cleanup'[Worker] = "take"
      BY <1>0, <2>4, ConstantFacts DEF AddinMissing, CloseService
    <3> QED BY <2>1, <3>1, NearerEnd
  <2>5. CASE Closed
    BY <2>1, <2>5, NearerEnd DEF Closed
  <2> QED BY <1>2, <2>2, <2>3, <2>4, <2>5
<1>3. CASE NextAttempt
  <2>1. pc = "abandon" /\ cleanup[Worker] = "none" /\ cleanup' = cleanup
    BY <1>3 DEF NextAttempt
  <2>2. CleanupLeft(Worker) = 0 /\ CleanupLeft(Worker)' = 0
    BY <2>1, CleanupNumbers, ConstantFacts DEF CleanupLeft
  <2>3. PICK later \in Nat : later = 22 * (MaxOpens - cur) BY WorkerNumbers
  <2>4. WorkerLeft = 1 + later BY <2>1, <2>2, <2>3 DEF WorkerLeft
  <2>5. CASE pc' = "gaveUp"
    <3>1. WorkerLeft' = 0 BY <2>5 DEF WorkerLeft
    <3> QED BY <2>4, <3>1
  <2>6. CASE pc' = "start" /\ cur' = cur + 1
    <3>1. 22 * (MaxOpens - cur') = later - 22
      BY <2>3, <2>6, OpenAssumption DEF OpenAssumption, TypeOK, Attempt
    <3>2. WorkerLeft' = 22 + 0 + (later - 22) BY <2>2, <2>6, <3>1 DEF WorkerLeft
    <3> QED BY <2>4, <3>2
  <2> QED BY <1>3, <2>5, <2>6 DEF NextAttempt
<1>4. CASE TakeDown(Worker)
  <2>1. CleanupLeft(Worker)' < CleanupLeft(Worker) /\ UNCHANGED <<pc, cur>>
        /\ cleanup[Worker] # "none"
    BY <1>4, CleanupShorter, ConstantFacts
  <2>2. ~Over /\ ~Over' /\ AttemptLeft' = AttemptLeft /\ AttemptLeft \in 1..22
    BY <2>1, WorkerNumbers
  <2>3. PICK later \in Nat : later = 22 * (MaxOpens - cur) BY WorkerNumbers
  <2>4. CleanupLeft(Worker) \in 0..6 /\ CleanupLeft(Worker)' \in 0..6
    BY CleanupNumbers, ConstantFacts DEF TypeOK, CleanupLeft
  <2>5. PICK k \in 1..22, c \in 0..6, d \in 0..6 :
          k = AttemptLeft /\ c = CleanupLeft(Worker) /\ d = CleanupLeft(Worker)' /\ d < c
    BY <2>1, <2>2, <2>4
  <2>6. WorkerLeft = k + c + later /\ WorkerLeft' = k + d + later
    BY <2>1, <2>2, <2>3, <2>5 DEF WorkerLeft
  <2>7. k + d + later < k + c + later
    <3> HIDE DEF AttemptLeft, Over
    <3>1. k \in Int /\ c \in Int /\ d \in Int /\ later \in Int /\ d < c BY <2>3, <2>5
    <3> QED BY <3>1
  <2> QED BY <2>6, <2>7
<1> QED BY <1>1, <1>2, <1>3, <1>4 DEF WorkerStep

\* The worker's steps give no watchdog more to do than it was counted for.
LEMMA DogsKeep ==
  ASSUME TypeOK, TypeOK', OpenInv, WatchInv, WorkerStep
  PROVE  \A a \in Attempt : DogLeft(a)' <= DogLeft(a)
<1>1. ASSUME NEW a \in Attempt PROVE DogLeft(a)' <= DogLeft(a)
  <2>0. a # Worker /\ Worker \in Thread /\ a \in Thread /\ a \in Nat /\ cur \in Attempt /\ Attempt \subseteq Nat
        /\ cleanup \in [Thread -> {"none", "check", "take", "close", "drop", "quit", "kill"}]
        /\ dog \in [Attempt -> {"off", "waiting", "fired"}]
    BY <1>1, ConstantFacts DEF TypeOK
  <2>1. CleanupLeft(a)' = CleanupLeft(a)
    <3>1. cleanup'[a] = cleanup[a]
      <4>1. CASE \/ StartService \/ BeginOpen \/ BodyRaises \/ FirstCheck \/ SecondCheck
                 \/ Join \/ AddinMissing \/ CloseService
        BY <2>0, <4>1
           DEF StartService, BeginOpen, BodyRaises, FirstCheck, SecondCheck, Join,
               AddinMissing, CloseService, To, Raise
      <4>2. CASE \/ Open2007Returns \/ NoProtectedView \/ SaveRepaired \/ Finally
                 \/ NextAttempt \/ Closed
        BY <4>2 DEF Open2007Returns, NoProtectedView, SaveRepaired, Finally, NextAttempt, Closed
      <4>3. CASE TakeDown(Worker)
        BY <2>0, <4>3 DEF TakeDown, CheckCleaned, TakePresentation, CloseDeck, DropReferences, QuitApp, Kill, To
      <4> QED BY <4>1, <4>2, <4>3 DEF WorkerStep
    <3> QED BY <3>1 DEF CleanupLeft
  <2>2. dog'[a] = "waiting" \/ ~Begun(a)' => dog[a] = "waiting" \/ ~Begun(a)
    <3>1. CASE BeginOpen
      BY <2>0, <3>1 DEF BeginOpen, Begun
    <3>2. CASE NextAttempt
      BY <2>0, <3>2 DEF NextAttempt, Begun
    <3>3. CASE \/ StartService \/ Open2007Returns \/ BodyRaises \/ FirstCheck
               \/ NoProtectedView \/ SaveRepaired \/ SecondCheck \/ Finally \/ Join
               \/ AddinMissing \/ CloseService \/ Closed \/ TakeDown(Worker)
      BY <2>0, <3>3
         DEF StartService, Open2007Returns, BodyRaises, FirstCheck, NoProtectedView,
             SaveRepaired, SaveUnderNewName, SecondCheck, Finally, Join, AddinMissing,
             CloseService, Closed, TakeDown, CheckCleaned, TakePresentation, CloseDeck, DropReferences, QuitApp, Kill,
             Raise, Goto, Begun
    <3> QED BY <3>1, <3>2, <3>3 DEF WorkerStep
  <2>3. CleanupLeft(a) \in 0..6 BY <1>1, CleanupNumbers, ConstantFacts
  <2>4. PICK c \in 0..6 : c = CleanupLeft(a) /\ c = CleanupLeft(a)' BY <2>1, <2>3
  <2> QED BY <2>2, <2>4 DEF DogLeft
<1> QED BY <1>1

\* A watchdog's step is one of its own, and costs nobody else anything.
LEMMA DogShorter ==
  ASSUME TypeOK, WatchInv, NEW a \in Attempt, DogStep(a)
  PROVE  /\ DogLeft(a)' < DogLeft(a)
         /\ \A b \in Attempt \ {a} : DogLeft(b)' = DogLeft(b)
         /\ WorkerLeft' = WorkerLeft
<1>0. a # Worker /\ a \in Thread /\ Worker \in Thread
      /\ cleanup \in [Thread -> {"none", "check", "take", "close", "drop", "quit", "kill"}]
      /\ dog \in [Attempt -> {"off", "waiting", "fired"}]
  BY ConstantFacts DEF TypeOK
<1>1. pc' = pc /\ cur' = cur
  BY DEF DogStep, DogReleased, LimitExpires, TakeDown, CheckCleaned, TakePresentation, CloseDeck, DropReferences, QuitApp,
     Kill
<1>2. \A b : Begun(b)' = Begun(b) BY <1>1 DEF Begun
<1>3. \A t \in Thread \ {a} : CleanupLeft(t)' = CleanupLeft(t)
  <2>1. CASE TakeDown(a) BY <1>0, <2>1, CleanupShorter
  <2>2. CASE DogReleased(a) \/ LimitExpires(a)
    BY <1>0, <2>2 DEF DogReleased, LimitExpires, To, CleanupLeft
  <2> QED BY <2>1, <2>2 DEF DogStep
<1>4. \A b \in Attempt \ {a} : dog'[b] = dog[b]
  BY <1>0 DEF DogStep, DogReleased, LimitExpires, TakeDown, CheckCleaned, TakePresentation, CloseDeck, DropReferences,
     QuitApp, Kill
<1>5. \A b \in Attempt \ {a} : DogLeft(b)' = DogLeft(b)
  BY <1>2, <1>3, <1>4, ConstantFacts DEF DogLeft
<1>6. WorkerLeft' = WorkerLeft
  <2>1. AttemptLeft' = AttemptLeft /\ Over' = Over BY <1>1 DEF AttemptLeft, Over
  <2>2. CleanupLeft(Worker)' = CleanupLeft(Worker) BY <1>0, <1>3
  <2> QED BY <1>1, <2>1, <2>2 DEF WorkerLeft
<1>7. DogLeft(a)' < DogLeft(a)
  <2>1. CASE DogReleased(a)
    <3>1. dog[a] = "waiting" /\ dog'[a] = "off" /\ cleanup' = cleanup
      BY <1>0, <2>1 DEF DogReleased
    <3>2. Begun(a) /\ cleanup[a] = "none" BY <3>1, ConstantFacts DEF WatchInv, FreshAhead, DogsFire
    <3>3. CleanupLeft(a) = 0 /\ CleanupLeft(a)' = 0 BY <3>1, <3>2 DEF CleanupLeft
    <3>4. DogLeft(a) = 7 + 0 BY <3>1, <3>3 DEF DogLeft
    <3>5. DogLeft(a)' = 0 + 0 BY <1>2, <3>1, <3>2, <3>3 DEF DogLeft
    <3> QED BY <3>4, <3>5
  <2>2. CASE LimitExpires(a)
    <3>1. dog[a] = "waiting" /\ dog'[a] = "fired" /\ cleanup'[a] = "check"
      BY <1>0, <2>2 DEF LimitExpires, To
    <3>2. Begun(a) /\ cleanup[a] = "none" BY <3>1, ConstantFacts DEF WatchInv, FreshAhead, DogsFire
    <3>3. CleanupLeft(a) = 0 /\ CleanupLeft(a)' = 6 BY <3>1, <3>2 DEF CleanupLeft
    <3>4. DogLeft(a) = 7 + 0 BY <3>1, <3>3 DEF DogLeft
    <3>5. DogLeft(a)' = 0 + 6 BY <1>2, <3>1, <3>2, <3>3 DEF DogLeft
    <3> QED BY <3>4, <3>5
  <2>3. CASE TakeDown(a)
    <3>1. CleanupLeft(a)' < CleanupLeft(a) /\ dog' = dog BY <1>0, <2>3, CleanupShorter
    <3>2. CleanupLeft(a) \in 0..6 BY <1>0, CleanupNumbers
    <3>3. CleanupLeft(a)' \in 0..6
      <4>1. cleanup' \in [Thread -> {"none", "check", "take", "close", "drop", "quit", "kill"}]
        BY <2>3, TakeDownType, <1>0 DEF TypeOK
      <4> QED BY <1>0, <4>1 DEF CleanupLeft
    <3>4. PICK c \in 0..6, d \in 0..6 : c = CleanupLeft(a) /\ d = CleanupLeft(a)' /\ d < c
      BY <3>1, <3>2, <3>3
    <3>5. PICK n \in {0, 7} : DogLeft(a) = n + c /\ DogLeft(a)' = n + d
      BY <1>2, <3>1, <3>4 DEF DogLeft
    <3>6. n + d < n + c BY <3>4, <3>5
    <3> QED BY <3>5, <3>6
  <2> QED BY <2>1, <2>2, <2>3 DEF DogStep
<1> QED BY <1>5, <1>6, <1>7

\* Opening takes no more steps than the attempts of open_with_repair allow, for any number
\* of them and whatever PowerPoint does: each step of the worker is one towards its end and
\* gives no watchdog more to do, each step of a watchdog is one of the five that it has,
\* and nobody's step, nor the death of PowerPoint, puts anybody back.  No retry is undone
\* by a watchdog, and no watchdog goes round.  With OpenIsWatched this is why OpenEnds
\* holds: who stops taking steps for ever has a call into PowerPoint that does not return.
THEOREM StepsCorrect ==
  Spec => /\ [](WorkerLeft \in 0..22 * MaxOpens)
          /\ [](\A a \in Attempt : DogLeft(a) \in 0..7)
          /\ [][/\ WorkerStep => /\ WorkerLeft' < WorkerLeft
                                 /\ \A a \in Attempt : DogLeft(a)' <= DogLeft(a)
                /\ \A a \in Attempt :
                     DogStep(a) => /\ DogLeft(a)' < DogLeft(a)
                                   /\ \A b \in Attempt \ {a} : DogLeft(b)' = DogLeft(b)
                                   /\ WorkerLeft' = WorkerLeft
                /\ PowerPointDies => /\ WorkerLeft' = WorkerLeft
                                     /\ \A a \in Attempt : DogLeft(a)' = DogLeft(a)]_vars
<1> DEFINE Inv == TypeOK /\ OpenInv /\ WatchInv
           Shorter == /\ WorkerStep => /\ WorkerLeft' < WorkerLeft
                                       /\ \A a \in Attempt : DogLeft(a)' <= DogLeft(a)
                      /\ \A a \in Attempt :
                           DogStep(a) => /\ DogLeft(a)' < DogLeft(a)
                                         /\ \A b \in Attempt \ {a} : DogLeft(b)' = DogLeft(b)
                                         /\ WorkerLeft' = WorkerLeft
                      /\ PowerPointDies => /\ WorkerLeft' = WorkerLeft
                                           /\ \A a \in Attempt : DogLeft(a)' = DogLeft(a)
<1>1. Spec => []Inv
  BY TypeInit, TypeStep, OpenInit, OpenStep, WatchInit, WatchStep, PTL DEF Spec
<1>2. Inv => WorkerLeft \in 0..22 * MaxOpens BY WorkerNumbers
<1>3. Inv => \A a \in Attempt : DogLeft(a) \in 0..7
  <2> SUFFICES ASSUME Inv, NEW a \in Attempt PROVE DogLeft(a) \in 0..7 OBVIOUS
  <2>1. CleanupLeft(a) \in 0..6 /\ (cleanup[a] = "none" => CleanupLeft(a) = 0)
    BY CleanupNumbers, ConstantFacts
  <2>2. dog[a] = "waiting" \/ ~Begun(a) => cleanup[a] = "none"
    BY ConstantFacts DEF WatchInv, FreshAhead, DogsFire
  <2> QED BY <2>1, <2>2 DEF DogLeft
<1>4. Inv /\ Inv' => Shorter
  <2> SUFFICES ASSUME Inv, Inv' PROVE Shorter OBVIOUS
  <2>1. PowerPointDies => /\ WorkerLeft' = WorkerLeft
                          /\ \A a \in Attempt : DogLeft(a)' = DogLeft(a)
    BY DEF PowerPointDies, WorkerLeft, DogLeft, Over, AttemptLeft, CleanupLeft, Begun
  <2> QED BY <2>1, WorkerShorter, DogsKeep, DogShorter
<1> HIDE DEF Inv, Shorter
<1>5. Spec => [][Shorter]_vars BY <1>1, <1>4, PTL DEF Spec
<1> USE DEF Shorter
<1> QED BY <1>1, <1>2, <1>3, <1>5, PTL

-----------------------------------------------------------------------------
(* The contract with run_cloud_job *)

\* No step but StartService brings a PowerPoint up, and then none has run.
LEMMA OnlyStartBrings ==
  ASSUME TypeOK, Next, ppt = 0, ppt' # 0
  PROVE  StartService
BY DEF Next, WorkerStep, BeginOpen, Open2007Returns, BodyRaises, FirstCheck, NoProtectedView,
   SaveRepaired, SecondCheck, Finally, Join, AddinMissing, NextAttempt, CloseService, Closed,
   DogStep, DogReleased, LimitExpires, TakeDown, CheckCleaned, TakePresentation, CloseDeck, DropReferences, QuitApp, Kill,
   Terminate, Vanish, PowerPointDies

\* Cleaning up changes no phase, and at most takes PowerPoint away or fails to.
LEMMA CleanupIsLoss ==
  ASSUME TypeOK, TypeOK', Next, UNCHANGED <<pc, cur>>
  PROVE  Contract!Next \/ UNCHANGED Contract!vars
<1>1. Phase' = Phase BY DEF Phase
<1>2. CASE ppt = 0 /\ ppt' # 0
  <2>1. pc = "start" /\ pc' \in {"open", "abandon"}
    BY <1>2, OnlyStartBrings DEF StartService, Goto
  <2> QED BY <2>1
<1>3. CASE ppt' = 0
  <2>1. Running' = "no" BY <1>3 DEF Running
  <2> QED BY <1>1, <2>1 DEF Contract!Next, Contract!Lose
<1>4. CASE ppt # 0 /\ ppt' # 0
  <2>1. spared' \in {spared, ppt}
    BY <1>4 DEF Next, WorkerStep, StartService, BeginOpen, Open2007Returns, BodyRaises,
       FirstCheck, NoProtectedView, SaveRepaired, SecondCheck, Finally, Join, AddinMissing,
       NextAttempt, CloseService, Closed, DogStep, DogReleased, LimitExpires, TakeDown,
       CheckCleaned, TakePresentation, CloseDeck, DropReferences, QuitApp, Kill, Terminate,
       Vanish, PowerPointDies
  <2>2. CASE spared' # 0 /\ spared = 0
    <3>1. Running = "yes" /\ Running' = "survivor" BY <1>4, <2>2 DEF Running
    <3> QED BY <1>1, <3>1 DEF Contract!Next, Contract!Survive
  <2>3. CASE (spared' # 0) = (spared # 0)
    <3>1. Running' = Running BY <1>4, <2>3 DEF Running
    <3> QED BY <1>1, <3>1 DEF Contract!vars
  <2> QED BY <1>4, <2>1, <2>2, <2>3
<1> QED BY <1>2, <1>3, <1>4

LEMMA ContractStep ==
  TypeOK /\ TypeOK' /\ OpenInv /\ [Next]_vars => [Contract!Next]_(Contract!vars)
<1> SUFFICES ASSUME TypeOK, TypeOK', OpenInv, [Next]_vars
             PROVE  Contract!Next \/ UNCHANGED Contract!vars
  OBVIOUS
<1> USE DEF Phase, Running
<1>1. CASE StartService
  <2>1. pc = "start" /\ pc' \in {"open", "abandon"} /\ cur' = cur BY <1>1 DEF StartService, Goto
  <2>2. CASE ppt' # 0
    <3>1. spared' = spared /\ (ppt = 0 => spared = 0) /\ (ppt # 0 => ppt' = ppt)
      BY <1>1, <2>2 DEF StartService, TypeOK
    <3> QED BY <2>1, <2>2, <3>1 DEF Contract!Next, Contract!Start
  <2>3. CASE ppt' = 0
    <3>1. ppt' = ppt /\ spared' = spared /\ pc' = "abandon"
      BY <1>1, <2>3 DEF StartService, Goto, TypeOK
    <3> QED BY <2>1, <3>1 DEF Contract!Next, Contract!GiveUpTry
  <2> QED BY <2>2, <2>3
<1>2. CASE BeginOpen
  <2>1. pc = "open" /\ pc' \in {"body", "raised", "escaped"} /\ cur' = cur /\ ppt' = ppt /\ spared' = spared
    BY <1>2 DEF BeginOpen
  <2>2. CASE pc' = "escaped" BY <2>1, <2>2 DEF Contract!Next, Contract!Leave
  <2>3. CASE pc' # "escaped" BY <2>1, <2>3 DEF Contract!vars
  <2> QED BY <2>2, <2>3
<1>3. CASE \/ Open2007Returns \/ BodyRaises \/ FirstCheck \/ NoProtectedView
           \/ SaveRepaired \/ SecondCheck \/ Finally
  <2>1. /\ pc \in {"body", "check1", "protect", "save", "check2", "success", "raised"}
        /\ pc' \in {"check1", "protect", "save", "check2", "success", "raised", "join"}
        /\ cur' = cur /\ ppt' = ppt /\ spared' = spared
    BY <1>3 DEF Open2007Returns, BodyRaises, FirstCheck, NoProtectedView, SaveRepaired,
       SecondCheck, Finally, Raise, Goto
  <2> QED BY <2>1 DEF Contract!vars
<1>4. CASE Join
  <2>1. pc = "join" /\ pc' \in {"inUse", "abandon"} /\ cur' = cur /\ ppt' = ppt /\ spared' = spared
    BY <1>4 DEF Join
  <2>2. CASE pc' = "inUse" BY <2>1, <2>2 DEF Contract!Next, Contract!Open
  <2>3. CASE pc' = "abandon" BY <2>1, <2>3 DEF Contract!Next, Contract!GiveUpTry
  <2> QED BY <2>1, <2>2, <2>3
<1>5. CASE AddinMissing
  BY <1>5 DEF AddinMissing, Goto, Contract!Next, Contract!GiveUpTry
<1>6. CASE NextAttempt
  <2>1. pc = "abandon" /\ ppt' = ppt /\ spared' = spared /\ (ppt = 0 \/ spared # 0)
    BY <1>6 DEF NextAttempt, OpenInv, Abandons
  <2>2. CASE cur < MaxOpens /\ cur' = cur + 1 /\ pc' = "start"
    BY <2>1, <2>2 DEF Contract!Next, Contract!Retry, Contract!AfterKill
  <2>3. CASE cur = MaxOpens /\ cur' = cur /\ pc' = "gaveUp"
    BY <2>1, <2>3 DEF Contract!Next, Contract!Fail, Contract!AfterKill
  <2> QED BY <1>6, <2>2, <2>3 DEF NextAttempt
<1>7. CASE CloseService
  BY <1>7 DEF CloseService, Goto, Contract!vars
<1>8. CASE Closed
  BY <1>8 DEF Closed, Goto, Contract!Next, Contract!Leave
<1>9. CASE TakeDown(Worker) \/ (\E a \in Attempt : DogStep(a)) \/ PowerPointDies
  <2>1. UNCHANGED <<pc, cur>>
    BY <1>9 DEF TakeDown, CheckCleaned, TakePresentation, CloseDeck, DropReferences, QuitApp, Kill, DogStep, DogReleased,
       LimitExpires, PowerPointDies
  <2>2. Next BY <1>9 DEF Next, WorkerStep
  <2> QED BY <2>1, <2>2, CleanupIsLoss
<1>10. CASE UNCHANGED vars
  BY <1>10 DEF Contract!vars
<1> QED
  BY <1>1, <1>2, <1>3, <1>4, <1>5, <1>6, <1>7, <1>8, <1>9, <1>10 DEF Next, WorkerStep

\* Opening implements OpenContract, for any number of attempts and any faults: every step
\* of the worker and its watchdogs is one of the contract's, or none of the job's business.
THEOREM ContractCorrect == Spec => KeepsOpenContract
<1>1. Init => Contract!Init BY DEF Init, Contract!Init, Phase, Running
<1> QED
  BY <1>1, TypeInit, TypeStep, OpenInit, OpenStep, ContractStep,
     PTL DEF Spec, KeepsOpenContract, Contract!Spec
================================================================================
