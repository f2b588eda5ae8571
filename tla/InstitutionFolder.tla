--------------------------- MODULE InstitutionFolder ---------------------------
(***************************************************************************)
(* Where a deck goes: the institution's folder in the cloud library, the   *)
(* map that remembers it (config/institution_folders.json), and the folder *)
(* that is made when there is none.                                        *)
(*                                                                         *)
(* publisher/ispring_cloud.py asks the library under the configured        *)
(* parents and the remembered one, keeps the map, and lets the picker      *)
(* choose; worker/cloud_job.py tries again when the folder is missing and  *)
(* has it made the first time.  Jobs follow one another; their PowerPoint  *)
(* is CloudJob's business.                                                 *)
(*                                                                         *)
(* A title is a folder's name with case and spacing normalised; squash     *)
(* takes the spaces out as well.                                           *)
(***************************************************************************)
EXTENDS Naturals, SequencesExt

CONSTANTS Parent,        \* the library's top folders
          ParentFolders, \* ISPRING_PARENT_FOLDERS, a sequence of them
          NewParent,     \* ISPRING_NEW_INSTITUTION_PARENT
          Title,         \* folder names
          Institution,   \* the names that queue rows carry
          squash,        \* [Title -> what is left without the spaces]
          NoEntry,       \* the map says nothing of an institution
          Unreadable,    \* a map that is missing or not JSON
          PublishTries,  \* PUBLISH_TRIES
          FaultSets      \* the sets of faults that may happen together

\* "alias":         the map knows institutions whose folder has another name;
\* "picker_misses": the picker may not show a folder that is there;
\* "torn_write":    the process or the disk fails between truncating the map and
\*                  writing it.
AllFaults == {"alias", "picker_misses", "torn_write"}

Folder == Parent \X Title

ASSUME FolderAssumption ==
  /\ ParentFolders \in Seq(Parent)
  /\ NewParent \in ToSet(ParentFolders)
  /\ Institution \subseteq Title
  /\ DOMAIN squash = Title
  /\ NoEntry \notin Folder
  /\ Unreadable \notin [Institution -> Folder \cup {NoEntry}]
  /\ PublishTries \in Nat \ {0}
  /\ FaultSets \subseteq SUBSET AllFaults

VARIABLES
  faults,      \* what may go wrong in this behaviour
  library,     \* the folders there are
  folderMap,   \* what institution_folders.json holds
  pc,          \* where the job is
  institution, \* whose deck it is
  attempt,     \* run_cloud_job's go at the dialog
  ensured,     \* folder_ensured
  located,     \* the folder locate_institution returned, or NoEntry
  data,        \* the map remember_folder is about to write
  home,        \* [Institution -> its folders, by name or by the map]
  mapped       \* the institutions the map has ever known

jobVars == <<institution, attempt, ensured, located, data>>
vars == <<faults, library, folderMap, pc, jobVars, home, mapped>>

Map == [Institution -> Folder \cup {NoEntry}]
EmptyMap == [i \in Institution |-> NoEntry]

\* _folder_map: what cannot be read is empty.
Contents == IF folderMap = Unreadable THEN EmptyMap ELSE folderMap

Known(map) == {i \in Institution : map[i] # NoEntry}

\* What the job and the map may hold; a job never has more than its tries.
TypeOK ==
  /\ faults \subseteq AllFaults
  /\ library \subseteq Folder
  /\ folderMap \in Map \cup {Unreadable}
  /\ pc \in {"idle", "locate", "remember", "truncate", "write", "picker", "missing", "ensure"}
  /\ institution \in Institution
  /\ attempt \in 1..PublishTries
  /\ ensured \in BOOLEAN
  /\ located \in Folder \cup {NoEntry}
  /\ data \in Map
  /\ home \in [Institution -> SUBSET Folder]
  /\ mapped \subseteq Institution

\* The map was seeded from the library: what it says is there, and it knows every
\* institution whose folder lies outside the configured parents.
Seeded(map) ==
  \A i \in Institution :
    /\ map[i] # NoEntry => map[i] \in library
    /\ map[i] # NoEntry /\ "alias" \notin faults => map[i][2] = i
    /\ (\E p \in Parent : <<p, i>> \in library) =>
         map[i] # NoEntry \/ \E p \in ToSet(ParentFolders) : <<p, i>> \in library

Init ==
  /\ faults \in FaultSets
  /\ library \in SUBSET Folder
  /\ folderMap \in {map \in Map : Seeded(map)}
  /\ pc = "idle"
  /\ institution \in Institution
  /\ attempt = 1 /\ ensured = FALSE /\ located = NoEntry /\ data = EmptyMap
  /\ home = [i \in Institution |->
               {f \in library : f[2] = i \/ f = folderMap[i]}]
  /\ mapped = Known(folderMap)

-----------------------------------------------------------------------------
StartJob ==
  /\ pc = "idle"
  /\ institution' \in Institution
  /\ attempt' = 1 /\ ensured' = FALSE
  /\ located' = NoEntry /\ data' = EmptyMap
  /\ pc' = "locate"
  /\ UNCHANGED <<faults, library, folderMap, home, mapped>>

\* Mutant: the map is not asked.
SearchInConfigured == ParentFolders

\* The parents that are asked, in their order: the remembered one comes last.
SearchIn ==
  LET remembered == Contents[institution]
  IN  IF remembered = NoEntry \/ remembered[1] \in ToSet(ParentFolders)
        THEN ParentFolders
        ELSE Append(ParentFolders, remembered[1])

HasInstitution(parent) == <<parent, institution>> \in library

\* locate_institution: the first of them that has a folder of the institution's name.
Locate ==
  /\ pc = "locate"
  /\ \/ /\ \A i \in DOMAIN SearchIn : ~HasInstitution(SearchIn[i])
        /\ located' = NoEntry /\ pc' = "missing"
     \/ \E i \in DOMAIN SearchIn :
          /\ HasInstitution(SearchIn[i])
          /\ \A k \in 1..i - 1 : ~HasInstitution(SearchIn[k])
          /\ located' = <<SearchIn[i], institution>> /\ pc' = "remember"
  /\ UNCHANGED <<faults, library, folderMap, institution, attempt, ensured, data, home, mapped>>

\* Mutant: the map is written with this entry alone.
UpdatedAlone == [EmptyMap EXCEPT ![institution] = located]

Updated == [Contents EXCEPT ![institution] = located]

\* remember_folder, when the entry is new or changed.
Remember ==
  /\ pc = "remember"
  /\ data' = Updated
  /\ pc' = IF Contents[institution] = located THEN "picker" ELSE "truncate"
  /\ UNCHANGED <<faults, library, folderMap, institution, attempt, ensured, located, home, mapped>>

\* open("w"): the old map is gone.  Where the file cannot be opened it stays.
TruncateMap ==
  /\ pc = "truncate"
  /\ \/ folderMap' = Unreadable /\ pc' = "write"
     \/ UNCHANGED folderMap /\ pc' = "picker"
  /\ UNCHANGED <<faults, library, jobVars, home, mapped>>

WriteMap ==
  /\ pc = "write"
  /\ \/ folderMap' = data /\ mapped' = mapped \cup Known(data)
     \/ "torn_write" \in faults /\ UNCHANGED <<folderMap, mapped>>
  /\ pc' = "picker"
  /\ UNCHANGED <<faults, library, jobVars, home>>

\* The picker selects the row and the deck is published.
Publish ==
  /\ pc = "picker"
  /\ pc' = "idle"
  /\ UNCHANGED <<faults, library, folderMap, jobVars, home, mapped>>

\* ProjectMissingError from the picker: its copy of the tree is older than the folder,
\* or a click missed.
PickerMisses ==
  /\ pc = "picker"
  /\ ensured \/ located[1] = NewParent \/ "picker_misses" \in faults
  /\ pc' = "missing"
  /\ UNCHANGED <<faults, library, folderMap, jobVars, home, mapped>>

\* run_cloud_job's handler: the last try raises, the first has the folder made.
ProjectMissing ==
  /\ pc = "missing"
  /\ \/ attempt = PublishTries /\ pc' = "idle" /\ UNCHANGED attempt
     \/ attempt < PublishTries /\ ~ensured /\ pc' = "ensure" /\ UNCHANGED attempt
     \/ attempt < PublishTries /\ ensured /\ pc' = "locate" /\ attempt' = attempt + 1
  /\ UNCHANGED <<faults, library, folderMap, institution, ensured, located, data, home, mapped>>

Existing == {t \in Title : <<NewParent, t>> \in library}

\* Another title that differs in its spaces only.
Near == {t \in Existing : squash[t] = squash[institution]} \ {institution}

Retry == ensured' = TRUE /\ pc' = "locate" /\ attempt' = attempt + 1

\* Mutant: a near name is taken for the folder.
FolderExistsNearly == institution \in Existing \/ Near # {}

FolderExists == institution \in Existing

\* ensure_project_folder: it is there.
EnsureFinds ==
  /\ pc = "ensure"
  /\ FolderExists
  /\ Retry
  /\ UNCHANGED <<faults, library, folderMap, institution, located, data, home, mapped>>

\* Mutant: a near name does not keep the folder from being made.
MayCreateNearly == institution \notin Existing

MayCreate == institution \notin Existing /\ Near = {}

\* It is made; reading it back may still fail, and with it the job.
EnsureCreates ==
  /\ pc = "ensure"
  /\ MayCreate
  /\ library' = library \cup {<<NewParent, institution>>}
  /\ home' = [home EXCEPT ![institution] = @ \cup {<<NewParent, institution>>}]
  /\ Retry \/ (pc' = "idle" /\ UNCHANGED <<ensured, attempt>>)
  /\ UNCHANGED <<faults, folderMap, institution, located, data, mapped>>

\* A near name, a library that does not answer, a dialog or an upload that fails, or a
\* process that dies: the job is over.
JobFails ==
  /\ pc \in {"locate", "picker", "ensure", "remember", "truncate"}
       \cup (IF "torn_write" \in faults THEN {"write"} ELSE {})
  /\ pc' = "idle"
  /\ UNCHANGED <<faults, library, folderMap, jobVars, home, mapped>>

Next ==
  \/ StartJob \/ Locate \/ Remember \/ TruncateMap \/ WriteMap
  \/ Publish \/ PickerMisses \/ ProjectMissing \/ EnsureFinds \/ EnsureCreates \/ JobFails

Spec == Init /\ [][Next]_vars

-----------------------------------------------------------------------------
(* What must hold *)

\* "If the institution has no folder yet, make one" (cloud_job.py:450): where the map gives
\* no other names, the picker shows what is there and no write is torn, an institution that
\* has a folder, in any parent, is not given another.
OneHome ==
  [][faults = {} => \A i \in Institution : home[i] # {} => home'[i] = home[i]]_vars

\* Writing one institution's entry loses nobody else's, unless a write is torn.
MapForgetsNobody ==
  pc # "write" /\ "torn_write" \notin faults => mapped \subseteq Known(Contents)

\* Once ensure_project_folder has returned, the next look finds the folder.
EnsuredIsFound == pc = "missing" /\ ensured => located # NoEntry

\* "Creating an eighth splits one institution's decks across two folders"
\* (ispring_cloud.py:339): no folder is made next to one that differs in its spaces
\* only.  Other parents are not looked at.
NoNearPairInParent ==
  [][\A f \in library' \ library, g \in library :
       f[1] = g[1] => squash[f[2]] # squash[g[2]]]_vars
=============================================================================
