------------------------- MODULE LegacyPipeline_proofs -------------------------
(***************************************************************************)
(* What holds of LegacyPipeline for any runs, packages and configurations, *)
(* with every step able to fail and the process able to die.               *)
(***************************************************************************)
EXTENDS LegacyPipeline, FiniteSetTheorems, TLAPS

USE DEF vars, jobVars, seenVars, Fails

-----------------------------------------------------------------------------
(* Types *)

LEMMA RunFacts ==
  /\ Len(Runs) \in Nat
  /\ Run = 1..Len(Runs)
  /\ Broken \in Nat /\ None \notin Run
  /\ \A r \in Run : Runs[r].job \in Job /\ Runs[r].material \in Material
<1> DEFINE R == [job : Job, material : Material]
<1>1. Runs \in Seq(R) BY LegacyAssumption DEF LegacyAssumption
<1> HIDE DEF R
<1>2. Len(Runs) \in Nat /\ Run = 1..Len(Runs) /\ \A r \in Run : Runs[r] \in R
  BY <1>1 DEF Run
<1>3. Broken \in Nat /\ None \notin Run BY <1>2 DEF Broken, None
<1> USE DEF R
<1> QED BY <1>2, <1>3

\* A process that is under way works on a run, with a workspace and a place of its own.
LEMMA MineType ==
  ASSUME TypeOK, pc # "idle"
  PROVE  /\ run \in Run
         /\ MyJob \in Job /\ MyMaterial \in Material
         /\ MyOutput \in [File -> Run \cup {None}]
BY RunFacts DEF TypeOK, MyJob, MyMaterial, MyOutput, Workspace

LEMMA EmptyType ==
  /\ Empty \in [File -> 0..Broken]
  /\ Empty \in [File -> Run \cup {None}]
  /\ Bare \in Workspace
<1>1. 0 \in 0..Broken BY RunFacts
<1>2. Empty \in [File -> 0..Broken] /\ Empty \in [File -> Run \cup {None}]
  BY <1>1 DEF Empty, None
<1> QED BY <1>1, <1>2 DEF Bare, Workspace, None

LEMMA TypeInit == Init => TypeOK
<1> SUFFICES ASSUME Init PROVE TypeOK OBVIOUS
<1>1. Empty \in [File -> 0..Broken] /\ Bare \in Workspace BY EmptyType
<1>2. storage \in [Material -> [File -> 0..Broken]] /\ disk \in [Job -> Workspace]
  BY <1>1 DEF Init
<1> QED BY <1>2 DEF Init, TypeOK, PC

\* What may be put into a field of the job's workspace.
LEMMA WorkspaceType ==
  ASSUME TypeOK, pc # "idle", NEW value
  PROVE  /\ value \in 0..Broken /\ InWorkspace("source", value) =>
              disk' \in [Job -> Workspace]
         /\ value \in 0..Broken /\ InWorkspace("working", value) =>
              disk' \in [Job -> Workspace]
         /\ value \in [File -> Run \cup {None}] /\ InWorkspace("output", value) =>
              disk' \in [Job -> Workspace]
<1>1. MyJob \in Job /\ disk[MyJob] \in Workspace BY MineType DEF TypeOK
<1>2. /\ value \in 0..Broken => [disk[MyJob] EXCEPT !.source = value] \in Workspace
      /\ value \in 0..Broken => [disk[MyJob] EXCEPT !.working = value] \in Workspace
      /\ value \in [File -> Run \cup {None}] =>
           [disk[MyJob] EXCEPT !.output = value] \in Workspace
  BY <1>1 DEF Workspace
<1>3. \A w \in Workspace : [disk EXCEPT ![MyJob] = w] \in [Job -> Workspace]
  BY DEF TypeOK
<1> QED BY <1>2, <1>3 DEF InWorkspace

LEMMA FreshType ==
  ASSUME TypeOK, pc # "idle", NEW files PROVE Fresh(files) \in [File -> Run \cup {None}]
BY MineType DEF Fresh

\* The steps that leave all but the workspace and PowerPoint alone.
LEMMA DeskType ==
  ASSUME TypeOK, pc # "idle",
         disk' \in [Job -> Workspace],
         opened' \in Run \cup {None},
         (\E label \in PC \ {"idle", "store"} : Goto(label)) \/ Raise
  PROVE  TypeOK'
BY MineType DEF TypeOK, Goto, Raise, PC

LEMMA DeskStepType ==
  ASSUME TypeOK,
         \/ Prepare \/ Download \/ CopyWorking \/ OpenDeck \/ Publish \/ CloseDeck \/ Check
  PROVE  TypeOK'
<1> USE DEF PC
<1> opened \in Run \cup {None} BY DEF TypeOK
<1>0. run \in 0..Broken /\ None \in 0..Broken /\ Broken \in 0..Broken
  BY RunFacts DEF TypeOK, Broken, None
<1>1. CASE Prepare
  BY <1>1, DeskType DEF Prepare, TypeOK
<1>2. CASE Download
  <2>1. pc # "idle" /\ UNCHANGED opened
        /\ ((\E label \in PC \ {"idle", "store"} : Goto(label)) \/ Raise)
    BY <1>2 DEF Download, DownloadPptx, CopyLocalPptx, Fetched
  <2>2. disk' = disk \/ \E value \in {run, None, Broken} : InWorkspace("source", value)
    BY <1>2 DEF Download, DownloadPptx, CopyLocalPptx, Fetched
  <2>3. disk' \in [Job -> Workspace]
    BY <1>0, <2>1, <2>2, WorkspaceType DEF TypeOK
  <2> QED BY <2>1, <2>3, DeskType
<1>3. CASE CopyWorking
  <2>1. pc # "idle" /\ UNCHANGED opened
        /\ ((\E label \in PC \ {"idle", "store"} : Goto(label)) \/ Raise)
    BY <1>3 DEF CopyWorking
  <2>2. disk[MyJob].source \in 0..Broken BY <2>1, MineType DEF TypeOK, Workspace
  <2>3. \/ disk' = disk
        \/ \E value \in {disk[MyJob].source, Broken} : InWorkspace("working", value)
    BY <1>3 DEF CopyWorking
  <2>4. disk' \in [Job -> Workspace]
    BY <1>0, <2>1, <2>2, <2>3, WorkspaceType DEF TypeOK
  <2> QED BY <2>1, <2>4, DeskType
<1>4. CASE OpenDeck
  BY <1>4, DeskType DEF OpenDeck, TypeOK
<1>5. CASE Publish
  <2>1. pc # "idle" /\ UNCHANGED opened
        /\ ((\E label \in PC \ {"idle", "store"} : Goto(label)) \/ Raise)
    BY <1>5 DEF Publish
  <2>2. disk' = disk \/ \E files : InWorkspace("output", Fresh(files))
    BY <1>5 DEF Publish
  <2>3. disk' \in [Job -> Workspace]
    BY <2>1, <2>2, FreshType, WorkspaceType DEF TypeOK
  <2> QED BY <2>1, <2>3, DeskType
<1>6. CASE CloseDeck
  BY <1>6, DeskType DEF CloseDeck, TypeOK
<1>7. CASE Check
  BY <1>7, DeskType DEF Check, CheckLocal, CheckPublic, TypeOK
<1> QED BY <1>1, <1>2, <1>3, <1>4, <1>5, <1>6, <1>7

LEMMA UploadStepType ==
  ASSUME TypeOK, ClearPlace \/ BeginUpload \/ StoreFile \/ StoreFails \/ Stored
  PROVE  TypeOK'
<1> USE MineType, RunFacts DEF PC
<1>1. CASE ClearPlace
  <2>1. \A m \in Material : storage[m] \in [File -> 0..Broken] BY DEF TypeOK
  <2>2. Empty \in [File -> 0..Broken] BY DEF Empty, None
  <2>3. MyMaterial \in Material /\ run \in Run BY <1>1 DEF ClearPlace
  <2>4. storage' \in [Material -> [File -> 0..Broken]]
    <3>1. CASE storage' = [storage EXCEPT ![MyMaterial] = Empty]
      BY <2>2, <2>3, <3>1 DEF TypeOK
    <3>2. CASE \E files \in SUBSET File :
                 storage' = [storage EXCEPT ![MyMaterial] =
                               [f \in File |-> IF f \in files THEN @[f] ELSE None]]
      <4>1. PICK files \in SUBSET File :
              storage' = [storage EXCEPT ![MyMaterial] =
                            [f \in File |-> IF f \in files THEN storage[MyMaterial][f]
                                                           ELSE None]]
        BY <3>2
      <4>2. [f \in File |-> IF f \in files THEN storage[MyMaterial][f] ELSE None]
              \in [File -> 0..Broken]
        BY <2>1, <2>3 DEF None
      <4> QED BY <2>3, <4>1, <4>2 DEF TypeOK
    <3> QED BY <1>1, <3>1, <3>2 DEF ClearPlace
  <2> QED BY <1>1, <2>3, <2>4 DEF ClearPlace, TypeOK
<1>2. CASE BeginUpload
  BY <1>2 DEF BeginUpload, Goto, Raise, TypeOK
<1>3. CASE StoreFile
  <2>1. PICK f \in Files(MyOutput) \ sent :
          storage' = [storage EXCEPT ![MyMaterial][f] = MyOutput[f]] /\ sent' = sent \cup {f}
    BY <1>3 DEF StoreFile
  <2>2. f \in File /\ MyOutput[f] \in 0..Broken
    BY <1>3, <2>1 DEF StoreFile, Files, Run, Broken, None
  <2>3. storage' \in [Material -> [File -> 0..Broken]]
    BY <1>3, <2>1, <2>2 DEF StoreFile, TypeOK
  <2> QED BY <1>3, <2>1, <2>2, <2>3 DEF StoreFile, TypeOK
<1>4. CASE StoreFails
  <2>1. storage' \in [Material -> [File -> 0..Broken]]
    <3>1. Broken \in 0..Broken /\ MyMaterial \in Material BY <1>4 DEF StoreFails
    <3>2. CASE storage' # storage
      <4>1. PICK whole, cut \in SUBSET (Files(MyOutput) \ sent) :
              storage' = [storage EXCEPT ![MyMaterial] =
                            [f \in File |-> CASE f \in whole       -> MyOutput[f]
                                              [] f \in cut \ whole -> Broken
                                              [] OTHER            -> storage[MyMaterial][f]]]
        BY <1>4, <3>2 DEF StoreFails
      <4>2. \A f \in File : MyOutput[f] \in 0..Broken /\ storage[MyMaterial][f] \in 0..Broken
        BY <1>4, <3>1 DEF StoreFails, Broken, None, TypeOK
      <4>3. [f \in File |-> CASE f \in whole       -> MyOutput[f]
                              [] f \in cut \ whole -> Broken
                              [] OTHER            -> storage[MyMaterial][f]]
              \in [File -> 0..Broken]
        BY <3>1, <4>2
      <4> QED BY <3>1, <4>1, <4>3 DEF TypeOK
    <3> QED BY <3>2 DEF TypeOK
  <2>2. began' \subseteq Run BY <1>4 DEF StoreFails, TypeOK
  <2> QED BY <1>4, <2>1, <2>2 DEF StoreFails, TypeOK
<1>5. CASE Stored
  BY <1>5 DEF Stored, TypeOK
<1> QED BY <1>1, <1>2, <1>3, <1>4, <1>5

LEMMA TypeStep == TypeOK /\ [Next]_vars => TypeOK'
<1> SUFFICES ASSUME TypeOK, [Next]_vars PROVE TypeOK' OBVIOUS
<1> USE MineType, RunFacts DEF PC
<1>1. CASE StartRun
  <2>1. run' = run + 1 /\ run < Len(Runs) /\ run \in Run \cup {0} /\ pc' = "prepare"
        /\ raised' = "nothing" /\ uploaded' = FALSE /\ sent' = {}
        /\ UNCHANGED <<setting, storage, disk, opened, orphans, told, seenVars>>
    BY <1>1 DEF StartRun, MoreRuns, TypeOK, None
  <2>2. run' \in Run /\ run' # None BY <2>1 DEF None
  <2> QED BY <2>1, <2>2 DEF TypeOK
<1>2. CASE Prepare \/ Download \/ CopyWorking \/ OpenDeck \/ Publish \/ CloseDeck \/ Check
  BY <1>2, DeskStepType
<1>3. CASE Validate
  <2>1. CASE Raise /\ UNCHANGED <<disk, opened>>
    BY <1>3, <2>1 DEF Validate, Raise, TypeOK
  <2>2. CASE pc' = "upload" /\ Validate
    <3>1. Files(MyOutput) \subseteq File BY DEF Files
    <3>2. built' = [built EXCEPT ![run] = Files(MyOutput)] /\ run \in Run
      BY <2>2 DEF Validate, Raise
    <3>3. built' \in [Run -> SUBSET File] BY <3>1, <3>2 DEF TypeOK
    <3> QED BY <2>2, <3>2, <3>3 DEF Validate, Raise, TypeOK
  <2> QED BY <1>3, <2>1, <2>2 DEF Validate
<1>4. CASE ClearPlace \/ BeginUpload \/ StoreFile \/ StoreFails \/ Stored
  BY <1>4, UploadStepType
<1>5. CASE Report
  BY <1>5 DEF Report, Send, TypeOK
<1>6. CASE Teardown
  BY <1>6 DEF Teardown, AfterTeardown, TypeOK
<1>7. CASE RecordOrphan
  BY <1>7 DEF RecordOrphan, TypeOK
<1>8. CASE ReportFailure
  BY <1>8 DEF ReportFailure, Send, TypeOK
<1>9. CASE Cleanup
  <2>1. Empty \in [File -> Run \cup {None}] /\ Bare \in Workspace BY EmptyType
  <2>2. MyJob \in Job BY <1>9 DEF Cleanup
  <2>3. disk' \in [Job -> Workspace]
    BY <1>9, <2>1, <2>2, WorkspaceType DEF Cleanup, TypeOK
  <2> QED BY <1>9, <2>3 DEF Cleanup, TypeOK
<1>10. CASE Die
  BY <1>10 DEF Die, TypeOK
<1>11. CASE UNCHANGED vars
  BY <1>11 DEF TypeOK, MyOutput, MyJob, Files
<1> QED
  BY <1>1, <1>2, <1>3, <1>4, <1>5, <1>6, <1>7, <1>8, <1>9, <1>10, <1>11 DEF Next, Process

\* Type correctness (the process, the workspaces and the storage).
THEOREM TypeCorrect == Spec => []TypeOK
BY TypeInit, TypeStep, PTL DEF Spec

-----------------------------------------------------------------------------
(* The invariant *)

\* Every file on the way from the deck to the package is this run's: a step that succeeds
\* writes what the next one reads, whatever was there before.
PackageInv ==
  /\ pc = "copy" => disk[MyJob].source = run
  /\ pc = "open" => disk[MyJob].working = run
  /\ pc \in {"publish", "close"} => opened = run
  /\ pc \in {"close", "validate", "upload", "store"} =>
       \A f \in File : MyOutput[f] \in {None, run}
  /\ pc \in {"upload", "store"} =>
       built[run] = Files(MyOutput) /\ LooksComplete(built[run])

Early == {"prepare", "download", "copy", "open", "publish", "close", "validate", "upload"}

\* What has been stored is in the storage, and stays there while the run is on.
StoreInv ==
  /\ pc \in Early => sent = {}
  /\ pc = "store" => \A f \in sent : storage[MyMaterial][f] = run
  /\ pc = "store" /\ setting.storage = "local_fs" => run \in began
  /\ pc \in {"check", "report"} =>
       LooksComplete(built[run]) /\ \A f \in built[run] : storage[MyMaterial][f] = run

\* What has been said of this run, and that nothing has been said of those to come.
ToldInv ==
  /\ \A r \in Run : r > run => told[r] = "nothing" /\ outcome[r] = "none" /\ r \notin stored
  /\ pc \in Early \cup {"store", "check", "report"} => told[run] = "nothing"
  /\ pc # "idle" => outcome[run] = "none"
  /\ pc \in Early \cup {"store"} => run \notin stored
  /\ pc \in {"teardown", "orphan", "fail"} => told[run] # "failure"

\* A package that is in the storage makes upload_result, and with it the record, certain
\* before the failure is reported.
OrphanInv ==
  /\ pc # "idle" /\ run \in stored => uploaded
  /\ run \in stored /\ (pc = "fail" \/ (pc = "cleanup" /\ raised = "exception")) => run \in orphans

IInv ==
  /\ TypeOK /\ PackageInv /\ StoreInv /\ ToldInv /\ OrphanInv
  /\ LinkServes /\ NothingLost

LEMMA InvInit == Init => IInv
<1> SUFFICES ASSUME Init PROVE IInv OBVIOUS
<1>1. \A r \in Run : told[r] = "nothing" /\ outcome[r] = "none" BY DEF Init
<1>2. pc = "idle" /\ stored = {} BY DEF Init
<1> QED BY <1>1, <1>2, TypeInit
        DEF IInv, PackageInv, StoreInv, ToldInv, OrphanInv, LinkServes, NothingLost, Early

-----------------------------------------------------------------------------
(* Up to the upload *)

\* A step that fails on the way: nothing of this run is in the storage.
LEMMA RaiseEarly ==
  ASSUME IInv, TypeOK', pc \in Early \ {"upload"}, Raise PROVE IInv'
BY DEF IInv, PackageInv, StoreInv, ToldInv, OrphanInv, LinkServes, NothingLost, Early, Raise

\* A step that succeeds keeps all but PackageInv for the same reason.
LEMMA GotoEarly ==
  ASSUME IInv, TypeOK', pc \in Early, NEW label \in Early, Goto(label)
  PROVE  StoreInv' /\ ToldInv' /\ OrphanInv' /\ LinkServes' /\ NothingLost'
BY DEF IInv, StoreInv, ToldInv, OrphanInv, LinkServes, NothingLost, Early, Goto

LEMMA EarlyStep ==
  ASSUME IInv, TypeOK',
         Prepare \/ Download \/ CopyWorking \/ OpenDeck \/ Publish \/ CloseDeck
  PROVE  IInv'
<1> SUFFICES ASSUME NEW label \in Early, Goto(label), pc \in Early PROVE PackageInv'
  BY RaiseEarly, GotoEarly
  DEF Prepare, Download, DownloadPptx, CopyLocalPptx, Fetched, CopyWorking, OpenDeck, Publish,
      CloseDeck, IInv, Early
<1>1. MyJob \in Job /\ run \in Run /\ MyOutput \in [File -> Run \cup {None}]
  BY MineType DEF IInv, Early
<1>2. UNCHANGED <<run, MyJob, built>> BY DEF Goto, MyJob
<1>3. CASE Prepare
  BY <1>3 DEF Prepare, Goto, Raise, PackageInv
<1>4. CASE Download
  <2>1. pc' = "copy" /\ InWorkspace("source", run)
    BY <1>4 DEF Download, DownloadPptx, CopyLocalPptx, Fetched, Goto, Raise, Early
  <2> QED BY <1>1, <1>2, <2>1 DEF InWorkspace, PackageInv, IInv, TypeOK, Workspace
<1>5. CASE CopyWorking
  <2>1. pc' = "open" /\ InWorkspace("working", run)
    BY <1>5 DEF CopyWorking, Goto, Raise, Early, IInv, PackageInv
  <2> QED BY <1>1, <1>2, <2>1 DEF InWorkspace, PackageInv, IInv, TypeOK, Workspace
<1>6. CASE OpenDeck
  BY <1>2, <1>6 DEF OpenDeck, Goto, Raise, Early, IInv, PackageInv
<1>7. CASE Publish
  <2>1. PICK files : pc' = "close" /\ InWorkspace("output", Fresh(files)) /\ UNCHANGED opened
    BY <1>7 DEF Publish, Goto, Raise, Early
  <2>2. MyOutput' = Fresh(files)
    BY <1>1, <1>2, <2>1 DEF InWorkspace, MyOutput, IInv, TypeOK, Workspace
  <2>3. opened = run BY <1>7 DEF Publish, IInv, PackageInv
  <2> QED BY <1>2, <2>1, <2>2, <2>3 DEF Fresh, PackageInv
<1>8. CASE CloseDeck
  <2>1. pc' = "validate" /\ UNCHANGED <<disk, run>> /\ pc = "close"
    BY <1>8 DEF CloseDeck, Goto, Raise, Early
  <2> QED BY <2>1 DEF IInv, PackageInv, MyOutput, MyJob
<1> QED BY <1>3, <1>4, <1>5, <1>6, <1>7, <1>8

LEMMA ValidateStep == ASSUME IInv, TypeOK', Validate PROVE IInv'
<1>1. CASE Raise BY <1>1, RaiseEarly DEF Validate, Early
<1>2. CASE /\ LooksComplete(Files(MyOutput)) /\ pc = "validate" /\ pc' = "upload"
           /\ built' = [built EXCEPT ![run] = Files(MyOutput)]
           /\ UNCHANGED <<setting, storage, disk, opened, run, jobVars, orphans, told, began,
                          stored, outcome>>
  <2>1. run \in Run /\ built'[run] = Files(MyOutput) /\ \A r \in Run \ {run} : built'[r] = built[r]
    BY <1>2, MineType DEF IInv, TypeOK
  <2>2. PackageInv' BY <1>2, <2>1 DEF IInv, PackageInv, MyOutput, MyJob
  <2>3. StoreInv' /\ ToldInv' /\ OrphanInv' /\ NothingLost'
    BY <1>2 DEF IInv, StoreInv, ToldInv, OrphanInv, NothingLost, Early
  <2>4. LinkServes'
    BY <1>2, <2>1 DEF IInv, ToldInv, LinkServes, Early
  <2> QED BY <2>2, <2>3, <2>4 DEF IInv
<1> QED BY <1>1, <1>2 DEF Validate

-----------------------------------------------------------------------------
(* The upload *)

\* Only the files of this run's material change, and from then on it has begun.
LEMMA LinkKept ==
  ASSUME IInv, TypeOK', pc \in {"upload", "store"}, began' = began \cup {run},
         UNCHANGED <<told, built, run>>,
         \A m \in Material : m # MyMaterial => storage'[m] = storage[m]
  PROVE  LinkServes'
<1>1. run \in Run /\ told[run] = "nothing" BY MineType DEF IInv, ToldInv, Early
<1> SUFFICES ASSUME NEW r \in Run, told[r] = "success",
                    ~\E s \in began' : s > r /\ Runs[s].material = Runs[r].material
             PROVE  LooksComplete(built[r])
                    /\ \A f \in built[r] : storage'[Runs[r].material][f] = r
  BY DEF LinkServes
<1>2. ~(r > run) /\ r # run BY <1>1 DEF IInv, ToldInv
<1>3. Runs[r].material # MyMaterial BY <1>1, <1>2, RunFacts DEF MyMaterial
<1>4. Runs[r].material \in Material BY RunFacts
<1> QED BY <1>3, <1>4 DEF IInv, LinkServes

LEMMA UploadStep ==
  ASSUME IInv, TypeOK', ClearPlace \/ BeginUpload \/ StoreFile \/ StoreFails PROVE IInv'
<1>1. pc \in {"upload", "store"} BY DEF ClearPlace, BeginUpload, StoreFile, StoreFails
<1>2. /\ run \in Run /\ MyMaterial \in Material /\ UNCHANGED <<run, told, built, MyOutput, MyMaterial>>
      /\ UNCHANGED <<disk, opened, orphans, stored, outcome, uploaded, setting>>
  BY <1>1, MineType
  DEF IInv, ClearPlace, BeginUpload, StoreFile, StoreFails, Goto, Raise, MyOutput, MyMaterial, MyJob
<1>3. pc' \in {"store", "teardown"} /\ ToldInv' /\ OrphanInv' /\ NothingLost' /\ PackageInv'
  <2>1. pc' \in {"store", "teardown"}
    BY <1>1 DEF ClearPlace, BeginUpload, StoreFile, StoreFails, Goto, Raise
  <2> QED BY <1>1, <1>2, <2>1
          DEF IInv, ToldInv, OrphanInv, NothingLost, PackageInv, Early
<1>4. CASE ClearPlace
  <2>1. \A m \in Material : m # MyMaterial => storage'[m] = storage[m]
    BY <1>2, <1>4 DEF ClearPlace, IInv, TypeOK
  <2>2. LinkServes' BY <1>1, <1>2, <1>4, <2>1, LinkKept DEF ClearPlace
  <2>3. StoreInv' BY <1>2, <1>3, <1>4 DEF ClearPlace, IInv, StoreInv, Early
  <2> QED BY <1>3, <2>2, <2>3 DEF IInv
<1>5. CASE BeginUpload
  <2>1. LinkServes' BY <1>5 DEF BeginUpload, Goto, Raise, IInv, LinkServes
  <2>2. StoreInv' BY <1>5 DEF BeginUpload, Goto, Raise, IInv, StoreInv, Early
  <2> QED BY <1>3, <2>1, <2>2 DEF IInv
<1>6. CASE StoreFile
  <2>1. PICK f \in Files(MyOutput) \ sent :
          storage' = [storage EXCEPT ![MyMaterial][f] = MyOutput[f]] /\ sent' = sent \cup {f}
    BY <1>6 DEF StoreFile
  <2>2. f \in File /\ MyOutput[f] = run
    BY <1>6, <2>1 DEF StoreFile, Files, IInv, PackageInv
  <2>3. storage[MyMaterial] \in [File -> 0..Broken] BY <1>2 DEF IInv, TypeOK
  <2>4. /\ \A m \in Material : m # MyMaterial => storage'[m] = storage[m]
        /\ storage'[MyMaterial][f] = run
        /\ \A g \in File \ {f} : storage'[MyMaterial][g] = storage[MyMaterial][g]
    BY <1>2, <2>1, <2>2, <2>3 DEF IInv, TypeOK
  <2>5. LinkServes' BY <1>1, <1>2, <1>6, <2>4, LinkKept DEF StoreFile
  <2>6. sent \subseteq File BY DEF IInv, TypeOK
  <2>7. StoreInv'
    BY <1>2, <1>3, <1>6, <2>1, <2>4, <2>6 DEF StoreFile, IInv, StoreInv, Early
  <2> QED BY <1>3, <2>5, <2>7 DEF IInv
<1>7. CASE StoreFails
  <2>1. pc = "store" /\ pc' = "teardown" /\ UNCHANGED began BY <1>7 DEF StoreFails
  <2>2. StoreInv' BY <2>1 DEF StoreInv, Early
  <2>3. LinkServes'
    <3>1. CASE storage' = storage
      BY <1>2, <2>1, <3>1 DEF IInv, LinkServes
    <3>2. CASE storage' # storage
      <4>1. \E place : storage' = [storage EXCEPT ![MyMaterial] = place]
        BY <1>7, <3>2 DEF StoreFails
      <4>2. began' = began \cup {run}
        BY <1>7, <2>1, <3>2 DEF StoreFails, IInv, StoreInv
      <4>3. \A m \in Material : m # MyMaterial => storage'[m] = storage[m]
        BY <1>2, <4>1 DEF IInv, TypeOK
      <4> QED BY <1>1, <1>2, <4>2, <4>3, LinkKept
    <3> QED BY <3>1, <3>2
  <2> QED BY <1>3, <2>2, <2>3 DEF IInv
<1> QED BY <1>4, <1>5, <1>6, <1>7

-----------------------------------------------------------------------------
(* After the upload *)

LEMMA LateStep ==
  ASSUME IInv, TypeOK',
         \/ Stored \/ Check \/ Report \/ Teardown \/ RecordOrphan \/ ReportFailure \/ Cleanup
  PROVE  IInv'
<1>0. run \in Run /\ MyMaterial' = MyMaterial
  BY MineType DEF IInv, Stored, Check, CheckLocal, CheckPublic, Goto, Raise, Report, Teardown,
     RecordOrphan, ReportFailure, Cleanup, MyMaterial
<1>1. CASE Stored
  <2>1. /\ pc = "store" /\ pc' = "check" /\ sent = Files(MyOutput)
        /\ uploaded' = TRUE /\ stored' = stored \cup {run}
        /\ UNCHANGED <<setting, storage, disk, opened, run, raised, sent, orphans, told, built,
                       began, outcome>>
    BY <1>1 DEF Stored
  <2>2. told[run] = "nothing" /\ outcome[run] = "none"
    BY <2>1 DEF IInv, ToldInv
  <2>3. PackageInv' BY <2>1 DEF PackageInv
  <2>4. StoreInv' BY <1>0, <2>1 DEF IInv, PackageInv, StoreInv, Early
  <2>5. ToldInv' BY <1>0, <2>1, <2>2, RunFacts DEF IInv, ToldInv, Early
  <2>6. OrphanInv' /\ NothingLost' BY <2>1, <2>2 DEF IInv, OrphanInv, NothingLost
  <2>7. LinkServes' BY <2>1 DEF IInv, LinkServes
  <2> QED BY <2>3, <2>4, <2>5, <2>6, <2>7 DEF IInv
<1>2. CASE Check
  <2>1. /\ pc = "check" /\ pc' \in {"report", "teardown"}
        /\ UNCHANGED <<storage, disk, opened, run, uploaded, sent, orphans, told, seenVars>>
    BY <1>2 DEF Check, CheckLocal, CheckPublic, Goto, Raise
  <2>2. PackageInv' /\ ToldInv' /\ OrphanInv' /\ NothingLost'
    BY <2>1 DEF IInv, PackageInv, ToldInv, OrphanInv, NothingLost, Early
  <2>3. StoreInv' /\ LinkServes'
    BY <1>0, <2>1 DEF IInv, StoreInv, LinkServes, Early
  <2> QED BY <2>2, <2>3 DEF IInv
<1>3. CASE Report
  <2>1. /\ pc = "report" /\ pc' = "teardown"
        /\ told' = told \/ told' = [told EXCEPT ![run] = "success"]
        /\ UNCHANGED <<setting, storage, disk, opened, run, uploaded, sent, orphans, seenVars>>
    BY <1>3 DEF Report, Send
  <2>2. told[run] = "nothing" BY <2>1 DEF IInv, ToldInv
  <2>3. \A r \in Run : told'[r] = told[r] \/ (r = run /\ told'[r] = "success")
    BY <1>0, <2>1 DEF IInv, TypeOK
  <2>4. LinkServes' BY <2>1, <2>3 DEF IInv, StoreInv, LinkServes, MyMaterial
  <2>5. PackageInv' /\ StoreInv' /\ OrphanInv'
    BY <2>1 DEF IInv, PackageInv, StoreInv, OrphanInv, Early
  <2>6. ToldInv' BY <1>0, <2>1, <2>2, <2>3, RunFacts DEF IInv, ToldInv, Early
  <2>7. stored \subseteq Run BY DEF IInv, TypeOK
  <2>8. NothingLost' BY <2>1, <2>3, <2>7 DEF IInv, NothingLost
  <2> QED BY <2>4, <2>5, <2>6, <2>8 DEF IInv
<1>4. CASE Teardown
  BY <1>0, <1>4
  DEF Teardown, AfterTeardown, IInv, PackageInv, StoreInv, ToldInv, OrphanInv, LinkServes,
      NothingLost, Early
<1>5. CASE RecordOrphan
  <2>1. /\ pc = "orphan" /\ pc' \in {"fail", "idle"}
        /\ pc' = "fail" => orphans' = orphans \cup {run} /\ UNCHANGED outcome
        /\ pc' = "idle" => orphans' = orphans /\ outcome' = [outcome EXCEPT ![run] = "raised"]
        /\ UNCHANGED <<setting, storage, disk, opened, run, jobVars, told, built, began, stored>>
    BY <1>5 DEF RecordOrphan
  <2>2. \A r \in Run : outcome'[r] = outcome[r] \/ (r = run /\ outcome'[r] = "raised")
    BY <1>0, <2>1 DEF IInv, TypeOK
  <2>3. PackageInv' /\ StoreInv' /\ LinkServes'
    BY <2>1 DEF IInv, PackageInv, StoreInv, LinkServes, Early
  <2>4. ToldInv' BY <1>0, <2>1, <2>2, RunFacts DEF IInv, ToldInv, Early
  <2>5. orphans \subseteq orphans' /\ (pc' = "fail" => run \in orphans') BY <2>1
  <2>6. OrphanInv' BY <2>1, <2>5 DEF IInv, OrphanInv
  <2>7. stored \subseteq Run BY DEF IInv, TypeOK
  <2>8. NothingLost' BY <2>1, <2>2, <2>5, <2>7 DEF IInv, NothingLost
  <2> QED BY <2>3, <2>4, <2>6, <2>8 DEF IInv
<1>6. CASE ReportFailure
  <2>1. /\ pc = "fail" /\ pc' = "cleanup"
        /\ told' = told \/ told' = [told EXCEPT ![run] = "failure"]
        /\ UNCHANGED <<setting, storage, disk, opened, run, jobVars, orphans, seenVars>>
    BY <1>6 DEF ReportFailure, Send
  <2>2. \A r \in Run : told'[r] = told[r] \/ (r = run /\ told'[r] = "failure")
    BY <1>0, <2>1 DEF IInv, TypeOK
  <2>3. PackageInv' /\ StoreInv' /\ OrphanInv'
    BY <2>1 DEF IInv, PackageInv, StoreInv, OrphanInv, Early
  <2>4. LinkServes' BY <2>1, <2>2 DEF IInv, LinkServes
  <2>5. ToldInv' BY <1>0, <2>1, <2>2, RunFacts DEF IInv, ToldInv, Early
  <2>6. stored \subseteq Run BY DEF IInv, TypeOK
  <2>7. NothingLost' BY <2>1, <2>2, <2>6 DEF IInv, OrphanInv, NothingLost
  <2> QED BY <2>3, <2>4, <2>5, <2>7 DEF IInv
<1>7. CASE Cleanup
  <2>1. /\ pc = "cleanup" /\ pc' = "idle"
        /\ outcome' = [outcome EXCEPT ![run] = CASE raised = "nothing"   -> "success"
                                                  [] raised = "exception" -> "failure"
                                                  [] OTHER                -> "raised"]
        /\ UNCHANGED <<setting, storage, opened, run, jobVars, orphans, told, built, began,
                       stored>>
    BY <1>7 DEF Cleanup
  <2>2. \A r \in Run : r # run => outcome'[r] = outcome[r]
    BY <1>0, <2>1 DEF IInv, TypeOK
  <2>3. outcome'[run] = "failure" => raised = "exception"
    BY <1>0, <2>1 DEF IInv, TypeOK
  <2>4. PackageInv' /\ StoreInv' /\ OrphanInv' /\ LinkServes'
    BY <2>1 DEF IInv, PackageInv, StoreInv, OrphanInv, LinkServes, Early
  <2>5. ToldInv' BY <1>0, <2>1, <2>2, RunFacts DEF IInv, ToldInv, Early
  <2>6. stored \subseteq Run BY DEF IInv, TypeOK
  <2>7. NothingLost' BY <2>1, <2>2, <2>3, <2>6 DEF IInv, OrphanInv, NothingLost
  <2> QED BY <2>4, <2>5, <2>7 DEF IInv
<1> QED BY <1>1, <1>2, <1>3, <1>4, <1>5, <1>6, <1>7

LEMMA InvStep == IInv /\ [Next]_vars => IInv'
<1> SUFFICES ASSUME IInv, [Next]_vars PROVE IInv' OBVIOUS
<1>0. TypeOK' BY TypeStep DEF IInv
<1>1. CASE StartRun
  <2>1. /\ pc = "idle" /\ pc' = "prepare" /\ run' = run + 1 /\ run < Len(Runs) /\ sent' = {}
        /\ UNCHANGED <<setting, storage, disk, opened, orphans, told, seenVars>>
    BY <1>1 DEF StartRun, MoreRuns
  <2>2. run \in Nat /\ run' \in Run /\ run' > run
    BY <2>1, RunFacts DEF IInv, TypeOK, None
  <2>3. ToldInv'
    <3>1. \A r \in Run : r > run' => r > run BY <2>1, <2>2, RunFacts
    <3> QED BY <2>1, <2>2, <3>1 DEF IInv, ToldInv, Early
  <2>4. run' \notin stored BY <2>2 DEF IInv, ToldInv
  <2> QED BY <1>0, <2>1, <2>3, <2>4
          DEF IInv, PackageInv, StoreInv, OrphanInv, LinkServes, NothingLost, Early
<1>2. CASE Prepare \/ Download \/ CopyWorking \/ OpenDeck \/ Publish \/ CloseDeck
  BY <1>0, <1>2, EarlyStep
<1>3. CASE Validate
  BY <1>0, <1>3, ValidateStep
<1>4. CASE ClearPlace \/ BeginUpload \/ StoreFile \/ StoreFails
  BY <1>0, <1>4, UploadStep
<1>5. CASE \/ Stored \/ Check \/ Report \/ Teardown \/ RecordOrphan \/ ReportFailure \/ Cleanup
  BY <1>0, <1>5, LateStep
<1>6. CASE Die
  <2>1. run \in Run BY <1>6, MineType DEF Die, IInv
  <2>2. \A r \in Run : outcome'[r] = outcome[r] \/ (r = run /\ outcome'[r] = "died")
    BY <1>6, <2>1 DEF Die, IInv, TypeOK
  <2>3. pc' = "idle" /\ UNCHANGED <<setting, storage, disk, opened, run, jobVars, orphans, told,
                                    built, began, stored>>
    BY <1>6 DEF Die
  <2>4. PackageInv' /\ StoreInv' /\ OrphanInv' /\ LinkServes'
    BY <2>3 DEF IInv, PackageInv, StoreInv, OrphanInv, LinkServes, Early
  <2>5. ToldInv' BY <2>1, <2>2, <2>3, RunFacts DEF IInv, ToldInv, Early
  <2>6. stored \subseteq Run BY DEF IInv, TypeOK
  <2>7. NothingLost' BY <2>2, <2>3, <2>6 DEF IInv, NothingLost
  <2> QED BY <1>0, <2>4, <2>5, <2>7 DEF IInv
<1>7. CASE UNCHANGED vars
  <2>1. UNCHANGED <<MyJob, MyMaterial, MyOutput>> BY <1>7 DEF MyJob, MyMaterial, MyOutput
  <2> QED BY <1>0, <1>7, <2>1
          DEF IInv, PackageInv, StoreInv, ToldInv, OrphanInv, LinkServes, NothingLost, Early
<1> QED BY <1>1, <1>2, <1>3, <1>4, <1>5, <1>6, <1>7 DEF Next, Process

-----------------------------------------------------------------------------
(* What follows *)

\* A package that was reported is whole and its own run's until another run of the same
\* material begins to upload (validate_ispring_output, upload_directory, send_job_result).
THEOREM LinkCorrect == Spec => []LinkServes
<1>1. IInv => LinkServes BY DEF IInv
<1> QED BY <1>1, InvInit, InvStep, PTL DEF Spec

\* "Persist a successful publish that could not be reported to PHP" (jobs.py:226): no
\* package in the storage is reported as a failure without its link on record.
THEOREM RecordCorrect == Spec => []NothingLost
<1>1. IInv => NothingLost BY DEF IInv
<1> QED BY <1>1, InvInit, InvStep, PTL DEF Spec

\* The deck that is published is this run's, whatever earlier runs left in the workspace.
THEOREM DeckCorrect == Spec => []OpensOwnDeck
<1>1. IInv => OpensOwnDeck BY DEF IInv, PackageInv, OpensOwnDeck
<1> QED BY <1>1, InvInit, InvStep, PTL DEF Spec

\* The storage is touched only by a run that has a whole package of its own.
THEOREM PackageCorrect == Spec => OldPackageSafe
<1> DEFINE Safe == storage' # storage => /\ LooksComplete(Files(MyOutput))
                                         /\ \A f \in Files(MyOutput) : MyOutput[f] = run
<1>1. ASSUME IInv, [Next]_vars PROVE [Safe]_vars
  <2>1. CASE pc \in {"upload", "store"}
    BY <1>1, <2>1 DEF IInv, PackageInv, Files
  <2>2. CASE pc \notin {"upload", "store"} /\ Next
    <3>1. UNCHANGED storage
      BY <2>2 DEF Next, Process, StartRun, Prepare, Download, DownloadPptx, CopyLocalPptx,
         Fetched, CopyWorking, OpenDeck, Publish, CloseDeck, Validate, ClearPlace, BeginUpload,
         StoreFile, StoreFails, Stored, Check, CheckLocal, CheckPublic, Report, Teardown,
         RecordOrphan, ReportFailure, Cleanup, Die, Goto, Raise
    <3> QED BY <3>1
  <2> QED BY <1>1, <2>1, <2>2
<1> QED BY <1>1, InvInit, InvStep, PTL DEF Spec, OldPackageSafe

-----------------------------------------------------------------------------
(* A run cannot go on for ever *)

\* The files that may still be stored.
Unsent == Cardinality(File \ sent)

\* How many steps a run has left.
StepsLeft ==
  CASE pc = "prepare"  -> 15 + Unsent
    [] pc = "download" -> 14 + Unsent
    [] pc = "copy"     -> 13 + Unsent
    [] pc = "open"     -> 12 + Unsent
    [] pc = "publish"  -> 11 + Unsent
    [] pc = "close"    -> 10 + Unsent
    [] pc = "validate" -> 9 + Unsent
    [] pc = "upload"   -> 8 + Unsent
    [] pc = "store"    -> 7 + Unsent
    [] pc = "check"    -> 6
    [] pc = "report"   -> 5
    [] pc = "teardown" -> 4
    [] pc = "orphan"   -> 3
    [] pc = "fail"     -> 2
    [] pc = "cleanup"  -> 1
    [] OTHER           -> 0

LEMMA UnsentNumbers ==
  ASSUME IsFiniteSet(Asset)
  PROVE  /\ Cardinality(File) \in Nat
         /\ Unsent \in Nat /\ Unsent <= Cardinality(File)
<1>1. IsFiniteSet(File) BY FS_AddElement DEF File
<1>2. IsFiniteSet(File \ sent) /\ Cardinality(File \ sent) <= Cardinality(File)
  BY <1>1, FS_Subset, FS_CardinalityType
<1> QED BY <1>1, <1>2, FS_CardinalityType DEF Unsent

\* A file that is stored is one less to store.
LEMMA FileSent ==
  ASSUME IsFiniteSet(Asset), NEW f \in File \ sent, sent' = sent \cup {f}
  PROVE  Unsent' = Unsent - 1
<1>1. IsFiniteSet(File) BY FS_AddElement DEF File
<1>2. IsFiniteSet(File \ sent) BY <1>1, FS_Subset
<1>3. File \ (sent \cup {f}) = (File \ sent) \ {f} OBVIOUS
<1>4. Cardinality((File \ sent) \ {f}) = Cardinality(File \ sent) - 1
  BY <1>2, FS_RemoveElement
<1>5. File' = File BY DEF File, Index
<1> QED BY <1>3, <1>4, <1>5 DEF Unsent

LEMMA ShorterStep ==
  ASSUME IsFiniteSet(Asset), Process
  PROVE  StepsLeft' < StepsLeft
<1>n. Unsent \in Nat BY UnsentNumbers
<1>s. sent' = sent => Unsent' = Unsent BY DEF Unsent, File, Index
<1> USE DEF Goto, Raise
<1>1. CASE Prepare \/ Download \/ CopyWorking \/ OpenDeck \/ Publish \/ CloseDeck
  <2>1. sent' = sent
    BY <1>1 DEF Prepare, Download, DownloadPptx, CopyLocalPptx, Fetched, CopyWorking,
       OpenDeck, Publish, CloseDeck
  <2>2. \/ pc = "prepare" /\ pc' \in {"download", "teardown"}
        \/ pc = "download" /\ pc' \in {"copy", "teardown"}
        \/ pc = "copy" /\ pc' \in {"open", "teardown"}
        \/ pc = "open" /\ pc' \in {"publish", "teardown"}
        \/ pc = "publish" /\ pc' \in {"close", "teardown"}
        \/ pc = "close" /\ pc' \in {"validate", "teardown"}
    BY <1>1 DEF Prepare, Download, DownloadPptx, CopyLocalPptx, Fetched, CopyWorking,
       OpenDeck, Publish, CloseDeck
  <2> QED BY <1>n, <1>s, <2>1, <2>2 DEF StepsLeft
<1>2. CASE Validate \/ ClearPlace \/ BeginUpload \/ StoreFails \/ Stored \/ Check
  <2>1. sent' = sent
    BY <1>2 DEF Validate, ClearPlace, BeginUpload, StoreFails, Stored, Check, CheckLocal,
       CheckPublic
  <2>2. \/ pc = "validate" /\ pc' \in {"upload", "teardown"}
        \/ pc = "upload" /\ pc' \in {"store", "teardown"}
        \/ pc = "store" /\ pc' \in {"check", "teardown"}
        \/ pc = "check" /\ pc' \in {"report", "teardown"}
    BY <1>2 DEF Validate, ClearPlace, BeginUpload, StoreFails, Stored, Check, CheckLocal,
       CheckPublic
  <2> QED BY <1>n, <1>s, <2>1, <2>2 DEF StepsLeft
<1>3. CASE StoreFile
  <2>1. PICK f \in Files(MyOutput) \ sent : sent' = sent \cup {f}
    BY <1>3 DEF StoreFile
  <2>2. Unsent' = Unsent - 1 BY <2>1, FileSent DEF Files
  <2> QED BY <1>n, <1>3, <2>2 DEF StoreFile, StepsLeft
<1>4. CASE Report \/ Teardown \/ RecordOrphan \/ ReportFailure \/ Cleanup
  <2>1. \/ pc = "report" /\ pc' = "teardown"
        \/ pc = "teardown" /\ pc' \in {"cleanup", "orphan", "fail"}
        \/ pc = "orphan" /\ pc' \in {"fail", "idle"}
        \/ pc = "fail" /\ pc' = "cleanup"
        \/ pc = "cleanup" /\ pc' = "idle"
    BY <1>4 DEF Report, Teardown, AfterTeardown, RecordOrphan, ReportFailure, Cleanup
  <2> QED BY <2>1 DEF StepsLeft
<1> QED BY <1>1, <1>2, <1>3, <1>4 DEF Process

\* A run takes no more steps than there are files, and fifteen: each is one towards the end,
\* whatever fails in it (Pipeline.process), if a package has finitely many files.  With calls
\* that return this is why RunEnds holds.
THEOREM StepsCorrect ==
  ASSUME IsFiniteSet(Asset)
  PROVE  Spec => /\ [](StepsLeft \in 0..Cardinality(File) + 15)
                 /\ [][Process => StepsLeft' < StepsLeft]_vars
<1>1. StepsLeft \in 0..Cardinality(File) + 15
  <2>1. PICK all \in Nat : all = Cardinality(File) BY UnsentNumbers
  <2>2. Unsent \in Nat /\ Unsent <= all BY <2>1, UnsentNumbers
  <2>3. StepsLeft \in Nat /\ StepsLeft <= Unsent + 15 BY <2>2 DEF StepsLeft
  <2> QED BY <2>1, <2>2, <2>3
<1>2. Process => StepsLeft' < StepsLeft BY ShorterStep
<1> QED BY <1>1, <1>2, PTL
=============================================================================
