------------------------ MODULE InstitutionFolder_proofs ------------------------
(***************************************************************************)
(* What holds of InstitutionFolder for any parents, names, maps, tries and *)
(* faults.                                                                 *)
(***************************************************************************)
EXTENDS InstitutionFolder, TLAPS

USE DEF vars, jobVars

-----------------------------------------------------------------------------
(* Types *)

\* Every parent that is asked is one of the library's.
LEMMA SearchInType ==
  ASSUME TypeOK
  PROVE  /\ SearchIn \in Seq(Parent)
         /\ \A p \in ToSet(ParentFolders) : \E i \in DOMAIN SearchIn : SearchIn[i] = p
         /\ Contents[institution] # NoEntry =>
              \E i \in DOMAIN SearchIn : SearchIn[i] = Contents[institution][1]
<1> DEFINE remembered == Contents[institution]
<1>1. ParentFolders \in Seq(Parent) BY FolderAssumption DEF FolderAssumption
<1>2. remembered \in Folder \cup {NoEntry}
  BY DEF TypeOK, Contents, Map, EmptyMap
<1>3. CASE remembered = NoEntry \/ remembered[1] \in ToSet(ParentFolders)
  <2>1. SearchIn = ParentFolders BY <1>3 DEF SearchIn
  <2> QED BY <1>1, <1>3, <2>1 DEF ToSet
<1>4. CASE ~(remembered = NoEntry \/ remembered[1] \in ToSet(ParentFolders))
  <2>1. SearchIn = Append(ParentFolders, remembered[1]) BY <1>4 DEF SearchIn
  <2>2. remembered[1] \in Parent BY <1>2, <1>4 DEF Folder
  <2> HIDE DEF remembered
  <2>3. /\ SearchIn \in Seq(Parent) /\ DOMAIN SearchIn = 1..Len(ParentFolders) + 1
        /\ Len(ParentFolders) \in Nat
        /\ SearchIn[Len(ParentFolders) + 1] = remembered[1]
        /\ \A i \in 1..Len(ParentFolders) : SearchIn[i] = ParentFolders[i]
    BY <1>1, <2>1, <2>2
  <2> QED BY <1>1, <2>3 DEF ToSet, remembered
<1> QED BY <1>3, <1>4

LEMMA ContentsType == TypeOK => Contents \in Map
BY DEF TypeOK, Contents, EmptyMap, Map

\* Where the folder has been found.
Found == {"remember", "truncate", "write", "picker"}

\* The folder is made at most once, and never on the last try.
TryInv == TypeOK /\ (pc = "ensure" => attempt < PublishTries /\ ~ensured)
                 /\ (pc \in Found => located # NoEntry)

LEMMA ConstantFacts ==
  /\ PublishTries \in Nat /\ 1 \in 1..PublishTries
  /\ Institution \subseteq Title
  /\ \A f \in FaultSets : f \subseteq AllFaults
BY FolderAssumption DEF FolderAssumption

LEMMA TypeInit == Init => TryInv
<1> SUFFICES ASSUME Init PROVE TryInv OBVIOUS
<1>1. library \subseteq Folder /\ folderMap \in Map /\ EmptyMap \in Map
  BY DEF Init, EmptyMap, Map
<1>2. home \in [Institution -> SUBSET Folder] BY <1>1 DEF Init
<1>3. mapped \subseteq Institution BY DEF Init, Known
<1> QED BY <1>1, <1>2, <1>3, ConstantFacts DEF Init, TypeOK, TryInv, Found

LEMMA NewFolderType == NewParent \in Parent
BY FolderAssumption DEF FolderAssumption, ToSet

LEMMA TypeStep == TryInv /\ [Next]_vars => TryInv'
<1> SUFFICES ASSUME TryInv, [Next]_vars PROVE TryInv' OBVIOUS
<1> USE DEF TryInv, Found
<1>1. CASE StartJob
  <2>1. EmptyMap \in Map BY DEF EmptyMap, Map
  <2> QED BY <1>1, <2>1, ConstantFacts DEF StartJob, TypeOK
<1>2. CASE Locate
  <2>1. located' \in Folder \cup {NoEntry} /\ (pc' = "remember" => located' # NoEntry)
    <3>1. CASE located' = NoEntry /\ pc' = "missing" BY <3>1
    <3>2. CASE \E i \in DOMAIN SearchIn : located' = <<SearchIn[i], institution>>
      <4>1. PICK i \in DOMAIN SearchIn : located' = <<SearchIn[i], institution>> BY <3>2
      <4>2. SearchIn[i] \in Parent BY SearchInType
      <4>3. institution \in Title BY ConstantFacts DEF TypeOK
      <4>4. located' \in Folder BY <4>1, <4>2, <4>3 DEF Folder
      <4> QED BY <4>4, FolderAssumption DEF FolderAssumption
    <3> QED BY <1>2, <3>1, <3>2 DEF Locate
  <2> QED BY <1>2, <2>1 DEF Locate, TypeOK
<1>3. CASE Remember
  <2>1. data' \in Map BY <1>3, ContentsType DEF Remember, Updated, TypeOK, Map
  <2> QED BY <1>3, <2>1 DEF Remember, TypeOK
<1>4. CASE TruncateMap
  BY <1>4 DEF TruncateMap, TypeOK
<1>5. CASE WriteMap
  BY <1>5 DEF WriteMap, TypeOK, Known
<1>6. CASE Publish \/ PickerMisses \/ JobFails
  BY <1>6 DEF Publish, PickerMisses, JobFails, TypeOK
<1>7. CASE ProjectMissing
  BY <1>7, ConstantFacts DEF ProjectMissing, TypeOK
<1>8. CASE EnsureFinds
  BY <1>8, ConstantFacts DEF EnsureFinds, Retry, TypeOK
<1>9. CASE EnsureCreates
  <2>1. <<NewParent, institution>> \in Folder
    BY NewFolderType, ConstantFacts DEF TypeOK, Folder
  <2>2. library' \subseteq Folder BY <1>9, <2>1 DEF EnsureCreates, TypeOK
  <2>3. home' \in [Institution -> SUBSET Folder] BY <1>9, <2>1 DEF EnsureCreates, TypeOK
  <2>4. attempt' \in 1..PublishTries /\ ensured' \in BOOLEAN /\ pc' \in {"locate", "idle"}
    <3>1. attempt \in 1..PublishTries /\ attempt < PublishTries /\ ensured \in BOOLEAN
      BY <1>9 DEF EnsureCreates, TypeOK
    <3>2. attempt + 1 \in 1..PublishTries BY <3>1, ConstantFacts
    <3>3. attempt' \in {attempt, attempt + 1} /\ ensured' \in {ensured, TRUE}
          /\ pc' \in {"locate", "idle"}
      BY <1>9 DEF EnsureCreates, Retry
    <3> QED BY <3>1, <3>2, <3>3
  <2> QED BY <1>9, <2>2, <2>3, <2>4 DEF EnsureCreates, TypeOK
<1>10. CASE UNCHANGED vars
  BY <1>10 DEF TypeOK
<1> QED
  BY <1>1, <1>2, <1>3, <1>4, <1>5, <1>6, <1>7, <1>8, <1>9, <1>10 DEF Next

\* Type correctness, which includes that a job never exceeds its tries.
THEOREM TypeCorrect == Spec => []TypeOK
<1>1. TryInv => TypeOK BY DEF TryInv
<1> QED BY <1>1, TypeInit, TypeStep, PTL DEF Spec

-----------------------------------------------------------------------------
(* The map *)

\* Between the truncation and the write the map is in data, with everything it held.
MapInv ==
  "torn_write" \notin faults =>
    /\ pc # "write" => mapped \subseteq Known(Contents)
    /\ pc \in {"truncate", "write"} => mapped \subseteq Known(data)

LEMMA MapInit == Init => MapInv
<1> SUFFICES ASSUME Init PROVE MapInv OBVIOUS
<1>1. folderMap \in Map BY DEF Init
<1>2. Contents = folderMap BY <1>1, FolderAssumption DEF FolderAssumption, Contents, Map
<1> QED BY <1>2 DEF Init, MapInv

LEMMA MapStep == TryInv /\ MapInv /\ [Next]_vars => MapInv'
<1> SUFFICES ASSUME TryInv, MapInv, [Next]_vars, "torn_write" \notin faults'
             PROVE  MapInv'
  BY DEF MapInv
<1> USE DEF MapInv
<1>0. "torn_write" \notin faults
  BY DEF Next, StartJob, Locate, Remember, TruncateMap, WriteMap, Publish, PickerMisses,
     ProjectMissing, EnsureFinds, EnsureCreates, JobFails
<1>1. CASE StartJob \/ Locate \/ Publish \/ PickerMisses \/ ProjectMissing \/ EnsureFinds
           \/ EnsureCreates \/ JobFails
  <2>1. pc \notin {"write", "truncate"} \/ (pc = "truncate" /\ pc' = "idle")
    BY <1>0, <1>1 DEF StartJob, Locate, Publish, PickerMisses, ProjectMissing, EnsureFinds,
       EnsureCreates, JobFails
  <2>2. UNCHANGED <<folderMap, mapped>> /\ pc' \notin {"write", "truncate"}
    BY <1>1 DEF StartJob, Locate, Publish, PickerMisses, ProjectMissing, EnsureFinds,
       EnsureCreates, Retry, JobFails
  <2> QED BY <1>0, <2>1, <2>2 DEF Contents
<1>2. CASE Remember
  <2>1. Contents \in Map /\ institution \in Institution /\ located # NoEntry
    BY <1>2, ContentsType DEF TryInv, Found, Remember, TypeOK
  <2>2. Known(Contents) \subseteq Known(data')
    BY <1>2, <2>1 DEF Remember, Updated, Known, Map
  <2> QED BY <1>0, <1>2, <2>2 DEF Remember, Contents
<1>3. CASE TruncateMap
  BY <1>0, <1>3 DEF TruncateMap, Contents
<1>4. CASE WriteMap
  <2>1. folderMap' = data /\ mapped' = mapped \cup Known(data) /\ pc' = "picker"
        /\ mapped \subseteq Known(data)
    BY <1>0, <1>4 DEF WriteMap
  <2>2. data \in Map BY DEF TryInv, TypeOK
  <2>3. Contents' = data
    BY <2>1, <2>2, FolderAssumption DEF FolderAssumption, Contents, Map
  <2> QED BY <2>1, <2>3
<1>5. CASE UNCHANGED vars
  BY <1>0, <1>5 DEF Contents
<1> QED BY <1>1, <1>2, <1>3, <1>4, <1>5 DEF Next

\* Unless a write is torn, the map keeps every institution it ever knew, whichever write
\* fails to begin and wherever a job ends (remember_folder, _folder_map).
THEOREM MapCorrect == Spec => []MapForgetsNobody
<1>1. MapInv => MapForgetsNobody BY DEF MapInv, MapForgetsNobody
<1> QED BY <1>1, TypeInit, TypeStep, MapInit, MapStep, PTL DEF Spec

-----------------------------------------------------------------------------
(* The folder that is made *)

\* Once it is ensured it is there, and every look finds one.
EnsuredInv ==
  /\ ensured => <<NewParent, institution>> \in library
  /\ EnsuredIsFound

LEMMA EnsuredStep == TryInv /\ EnsuredInv /\ [Next]_vars => EnsuredInv'
<1> SUFFICES ASSUME TryInv, EnsuredInv, [Next]_vars PROVE EnsuredInv' OBVIOUS
<1> USE DEF EnsuredInv, EnsuredIsFound
<1>1. CASE StartJob
  BY <1>1 DEF StartJob
<1>2. CASE Locate
  <2>1. CASE ~ensured
    BY <1>2, <2>1 DEF Locate
  <2>2. CASE ensured
    <3>1. NewParent \in ToSet(ParentFolders) BY FolderAssumption DEF FolderAssumption
    <3>2. PICK i \in DOMAIN SearchIn : SearchIn[i] = NewParent
      BY <3>1, SearchInType DEF TryInv
    <3>3. HasInstitution(SearchIn[i]) BY <2>2, <3>2 DEF HasInstitution
    <3>4. pc' = "remember" BY <1>2, <3>3 DEF Locate
    <3> QED BY <1>2, <3>4 DEF Locate
  <2> QED BY <2>1, <2>2
<1>3. CASE Remember \/ TruncateMap \/ WriteMap \/ Publish \/ JobFails
  BY <1>3 DEF Remember, TruncateMap, WriteMap, Publish, JobFails
<1>4. CASE PickerMisses
  BY <1>4 DEF PickerMisses, TryInv, Found
<1>5. CASE ProjectMissing
  BY <1>5 DEF ProjectMissing
<1>6. CASE EnsureFinds
  BY <1>6 DEF EnsureFinds, FolderExists, Existing, Retry
<1>7. CASE EnsureCreates
  BY <1>7 DEF EnsureCreates, Retry, TryInv
<1>8. CASE UNCHANGED vars
  BY <1>8
<1> QED BY <1>1, <1>2, <1>3, <1>4, <1>5, <1>6, <1>7, <1>8 DEF Next

\* A job that had the folder made does not end with the folder missing: its next look finds
\* it, whatever the map says and wherever the picker misses (run_cloud_job's handler).
THEOREM EnsuredCorrect == Spec => []EnsuredIsFound
<1>1. Init => EnsuredInv BY DEF Init, EnsuredInv, EnsuredIsFound
<1>2. EnsuredInv => EnsuredIsFound BY DEF EnsuredInv
<1> QED BY <1>1, <1>2, TypeInit, TypeStep, EnsuredStep, PTL DEF Spec

\* Only making a folder changes the library and the institutions' homes.
LEMMA OnlyEnsureCreates ==
  [Next]_vars => EnsureCreates \/ UNCHANGED <<library, home>>
BY DEF Next, StartJob, Locate, Remember, TruncateMap, WriteMap, Publish, PickerMisses,
   ProjectMissing, EnsureFinds, JobFails

\* No folder is made beside one of its parent's that differs from it in the spaces only.
THEOREM NearCorrect == Spec => NoNearPairInParent
<1> DEFINE Apart == \A f \in library' \ library, g \in library :
                      f[1] = g[1] => squash[f[2]] # squash[g[2]]
<1>1. TypeOK /\ [Next]_vars => [Apart]_vars
  <2> SUFFICES ASSUME TypeOK, [Next]_vars PROVE Apart OBVIOUS
  <2>1. CASE EnsureCreates
    <3> SUFFICES ASSUME NEW f \in library' \ library, NEW g \in library, f[1] = g[1]
                 PROVE  squash[f[2]] # squash[g[2]]
      OBVIOUS
    <3>1. f = <<NewParent, institution>> BY <2>1 DEF EnsureCreates
    <3>2. g[2] \in Title /\ g = <<NewParent, g[2]>> BY <3>1 DEF TypeOK, Folder
    <3>3. g[2] \in Existing BY <3>2 DEF Existing
    <3>4. g[2] # institution BY <2>1, <3>3 DEF EnsureCreates, MayCreate
    <3>5. squash[g[2]] # squash[institution]
      BY <2>1, <3>3, <3>4 DEF EnsureCreates, MayCreate, Near
    <3> QED BY <3>1, <3>5
  <2> QED BY <2>1, OnlyEnsureCreates
<1>2. TryInv => TypeOK BY DEF TryInv
<1> QED BY <1>1, <1>2, TypeInit, TypeStep, PTL DEF Spec, NoNearPairInParent

-----------------------------------------------------------------------------
(* One home *)

\* Without faults: the map, or what is about to be written into it, accounts for every
\* institution's folder; and the job that takes the folder for missing is right, or has
\* found the one under the parent where it would make another.
HomeInv ==
  faults = {} =>
    /\ pc # "write" => Seeded(Contents)
    /\ pc \in {"truncate", "write"} => Seeded(data)
    /\ \A i \in Institution : home[i] \subseteq {f \in library : f[2] = i}
    /\ pc \in Found => located \in library /\ located[2] = institution
    /\ pc \in {"missing", "ensure"} /\ ~ensured =>
         home[institution] = {} \/ <<NewParent, institution>> \in library

LEMMA HomeInit == Init => HomeInv
<1> SUFFICES ASSUME Init, faults = {} PROVE HomeInv BY DEF HomeInv
<1>1. folderMap \in Map BY DEF Init
<1>2. Contents = folderMap BY <1>1, FolderAssumption DEF FolderAssumption, Contents, Map
<1>3. Seeded(folderMap) BY DEF Init
<1>4. \A i \in Institution : home[i] \subseteq {f \in library : f[2] = i}
  <2> SUFFICES ASSUME NEW i \in Institution, NEW f \in home[i]
               PROVE  f \in library /\ f[2] = i
    OBVIOUS
  <2>1. f \in library /\ (f[2] = i \/ f = folderMap[i]) BY DEF Init
  <2>2. f # NoEntry
    BY <2>1, FolderAssumption DEF Init, FolderAssumption
  <2> QED BY <1>3, <2>1, <2>2 DEF Seeded
<1> QED BY <1>2, <1>3, <1>4 DEF Init, HomeInv, Found

LEMMA HomeStep == TryInv /\ HomeInv /\ [Next]_vars => HomeInv'
<1> SUFFICES ASSUME TryInv, HomeInv, [Next]_vars, faults' = {} PROVE HomeInv'
  BY DEF HomeInv
<1> USE DEF HomeInv, Found
<1>0. faults = {}
  BY DEF Next, StartJob, Locate, Remember, TruncateMap, WriteMap, Publish, PickerMisses,
     ProjectMissing, EnsureFinds, EnsureCreates, JobFails
<1>1. CASE StartJob \/ Publish
  <2>1. UNCHANGED <<faults, library, folderMap, home>> /\ pc' \in {"locate", "idle"}
        /\ pc # "write"
    BY <1>1 DEF StartJob, Publish
  <2> QED BY <1>0, <2>1 DEF Contents, Seeded
<1>2. CASE Locate
  <2>1. UNCHANGED <<faults, library, folderMap, home, institution, ensured>> /\ pc = "locate"
    BY <1>2 DEF Locate
  <2>2. Seeded(Contents)' BY <1>0, <2>1 DEF Contents, Seeded
  <2>3. CASE pc' = "remember"
    <3>1. located' \in library' /\ located'[2] = institution'
      <4>1. PICK i \in DOMAIN SearchIn :
              <<SearchIn[i], institution>> \in library /\ located' = <<SearchIn[i], institution>>
        BY <1>2, <2>3 DEF Locate, HasInstitution
      <4> QED BY <2>1, <4>1
    <3> QED BY <1>0, <2>1, <2>2, <2>3, <3>1
  <2>4. CASE pc' = "missing"
    <3>1. \A i \in DOMAIN SearchIn : <<SearchIn[i], institution>> \notin library
      BY <1>2, <2>4 DEF Locate, HasInstitution
    <3>2. home[institution] = {}
      <4> SUFFICES ASSUME NEW f \in home[institution] PROVE FALSE OBVIOUS
      <4>1. institution \in Institution /\ f \in library /\ f[2] = institution
        BY <1>0 DEF TryInv, TypeOK
      <4>2. f[1] \in Parent /\ <<f[1], institution>> \in library
        BY <4>1 DEF TryInv, TypeOK, Folder
      <4> DEFINE known == Contents[institution]
      <4>3. known # NoEntry \/ \E p \in ToSet(ParentFolders) : <<p, institution>> \in library
        BY <1>0, <2>1, <4>1, <4>2 DEF Seeded
      <4>4. known # NoEntry => known \in library /\ known[2] = institution
        BY <1>0, <2>1, <4>1 DEF Seeded
      <4>5. known # NoEntry => <<known[1], institution>> \in library
        <5> HIDE DEF known
        <5> QED BY <4>4 DEF TryInv, TypeOK, Folder
      <4>6. CASE known # NoEntry
        <5>1. \E i \in DOMAIN SearchIn : SearchIn[i] = known[1]
          BY <4>6, SearchInType DEF TryInv
        <5> QED BY <3>1, <4>5, <4>6, <5>1
      <4>7. CASE \E p \in ToSet(ParentFolders) : <<p, institution>> \in library
        BY <3>1, <4>7, SearchInType DEF TryInv
      <4> QED BY <4>3, <4>6, <4>7
    <3> QED BY <1>0, <2>1, <2>2, <2>4, <3>2
  <2> QED BY <1>2, <2>3, <2>4 DEF Locate
<1>3. CASE Remember
  <2>1. UNCHANGED <<faults, library, folderMap, home, institution, located>>
        /\ pc = "remember" /\ pc' \in {"picker", "truncate"} /\ data' = Updated
    BY <1>3 DEF Remember
  <2>2. Seeded(Contents)' BY <1>0, <2>1 DEF Contents, Seeded
  <2>3. Seeded(data)'
    <3>1. Contents \in Map /\ institution \in Institution
      BY ContentsType DEF TryInv, TypeOK
    <3>2. \A i \in Institution : Updated[i] = IF i = institution THEN located ELSE Contents[i]
      BY <3>1 DEF Updated, Map
    <3>3. located \in library /\ located[2] = institution /\ located # NoEntry
      BY <1>0, <2>1 DEF TryInv
    <3>4. Seeded(Contents) BY <1>0, <2>1
    <3>5. data'= Updated /\ library' = library /\ faults' = faults BY <2>1
    <3> HIDE DEF HomeInv, Found
    <3> QED BY <3>2, <3>3, <3>4, <3>5 DEF Seeded
  <2> QED BY <1>0, <2>1, <2>2, <2>3
<1>4. CASE TruncateMap
  <2>1. /\ UNCHANGED <<faults, library, home, institution, located, data>>
        /\ pc = "truncate"
        /\ pc' = "write" \/ (pc' = "picker" /\ folderMap' = folderMap)
    BY <1>4 DEF TruncateMap
  <2>2. Seeded(data)' BY <1>0, <2>1 DEF Seeded
  <2>3. folderMap' = folderMap => Seeded(Contents)' BY <1>0, <2>1 DEF Contents, Seeded
  <2> QED BY <1>0, <2>1, <2>2, <2>3
<1>5. CASE WriteMap
  <2>1. /\ UNCHANGED <<faults, library, home, institution, located, data>>
        /\ folderMap' = data /\ pc = "write" /\ pc' = "picker"
    BY <1>0, <1>5 DEF WriteMap
  <2>2. data \in Map BY DEF TryInv, TypeOK
  <2>3. Contents' = data
    BY <2>1, <2>2, FolderAssumption DEF FolderAssumption, Contents, Map
  <2>4. Seeded(Contents)' BY <1>0, <2>1, <2>3 DEF Seeded
  <2> QED BY <1>0, <2>1, <2>4
<1>6. CASE PickerMisses
  <2>1. /\ UNCHANGED <<faults, library, folderMap, home, institution, located, ensured>>
        /\ pc = "picker" /\ pc' = "missing" /\ (ensured \/ located[1] = NewParent)
    BY <1>0, <1>6 DEF PickerMisses
  <2>2. Seeded(Contents)' BY <1>0, <2>1 DEF Contents, Seeded
  <2>3. ~ensured => <<NewParent, institution>> \in library
    BY <1>0, <2>1 DEF TryInv, TypeOK, Folder
  <2> QED BY <1>0, <2>1, <2>2, <2>3
<1>7. CASE ProjectMissing \/ EnsureFinds \/ JobFails
  <2>1. /\ UNCHANGED <<faults, library, folderMap, home, institution>>
        /\ pc # "write"
        /\ pc' \in {"idle", "locate"} \/ (pc = "missing" /\ pc' = "ensure" /\ ensured' = ensured)
    BY <1>0, <1>7 DEF ProjectMissing, EnsureFinds, Retry, JobFails
  <2>2. Seeded(Contents)' BY <1>0, <2>1 DEF Contents, Seeded
  <2> QED BY <1>0, <2>1, <2>2
<1>8. CASE EnsureCreates
  <2>1. /\ UNCHANGED <<faults, folderMap, institution>> /\ pc = "ensure"
        /\ pc' \in {"idle", "locate"}
        /\ library' = library \cup {<<NewParent, institution>>}
        /\ home' = [home EXCEPT ![institution] = @ \cup {<<NewParent, institution>>}]
    BY <1>8 DEF EnsureCreates, Retry
  <2>2. Seeded(Contents)'
    <3>1. NewParent \in ToSet(ParentFolders) BY FolderAssumption DEF FolderAssumption
    <3>2. Seeded(Contents) BY <1>0, <2>1
    <3>3. Contents' = Contents BY <2>1 DEF Contents
    <3> HIDE DEF HomeInv, Found
    <3> QED BY <2>1, <3>1, <3>2, <3>3 DEF Seeded
  <2>3. \A i \in Institution : home'[i] \subseteq {f \in library' : f[2] = i}
    BY <1>0, <2>1 DEF TryInv, TypeOK
  <2> QED BY <1>0, <2>1, <2>2, <2>3
<1>9. CASE UNCHANGED vars
  BY <1>0, <1>9 DEF Contents, Seeded
<1> QED
  BY <1>1, <1>2, <1>3, <1>4, <1>5, <1>6, <1>7, <1>8, <1>9 DEF Next

\* Without faults an institution that has a folder, in whichever parent, is not given another
\* one, over any jobs: the map that forgets nobody is what makes the search complete
\* ("If the institution has no folder yet, make one", run_cloud_job).
THEOREM HomeCorrect == Spec => OneHome
<1> DEFINE Kept == faults = {} =>
                     \A i \in Institution : home[i] # {} => home'[i] = home[i]
<1>1. TryInv /\ HomeInv /\ [Next]_vars => [Kept]_vars
  <2> SUFFICES ASSUME TryInv, HomeInv, [Next]_vars, faults = {},
                      NEW i \in Institution, home[i] # {}
               PROVE  home'[i] = home[i]
    OBVIOUS
  <2>1. CASE EnsureCreates
    <3>1. pc = "ensure" /\ <<NewParent, institution>> \notin library /\ institution \in Title
      BY <2>1, ConstantFacts DEF EnsureCreates, MayCreate, Existing, TryInv, TypeOK
    <3>2. home[institution] = {} BY <3>1 DEF TryInv, HomeInv
    <3>3. home' = [home EXCEPT ![institution] = @ \cup {<<NewParent, institution>>}]
      BY <2>1 DEF EnsureCreates
    <3> QED BY <3>2, <3>3 DEF TryInv, TypeOK
  <2> QED BY <2>1, OnlyEnsureCreates
<1> QED
  BY <1>1, TypeInit, TypeStep, HomeInit, HomeStep, PTL DEF Spec, OneHome
==============================================================================
