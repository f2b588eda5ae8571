---------------------------- MODULE ShareLink_proofs ----------------------------
(***************************************************************************)
(* What holds of ShareLink for any library, any number of jobs, decks and  *)
(* rounds, and any of its faults.                                          *)
(***************************************************************************)
EXTENDS ShareLink, Integers, TLAPS

USE DEF vars, cloudVars, pageVars, workVars

-----------------------------------------------------------------------------
(* Types *)

\* Where a route leaves the worker.
Walking == PC \ {"toggle", "press", "read", "idle"}

\* The jobs are numbered, and each publishes a deck.
LEMMA JobFacts ==
  /\ Len(Published) \in Nat
  /\ Job = 1..Len(Published)
  /\ \A j \in Job : Published[j] \in Deck
BY ShareAssumption DEF ShareAssumption, Job

LEMMA FoldersHoldDecks ==
  ASSUME TypeOK PROVE \A f : DecksIn(f) \subseteq Deck
BY DEF TypeOK, DecksIn

LEMMA TypeInit == Init => TypeOK
<1> SUFFICES ASSUME Init PROVE TypeOK OBVIOUS
<1>1. popups = <<>> /\ <<>> \in Seq(Deck) BY DEF Init
<1>2. round \in 1..Rounds /\ presses \in 0..Presses
  BY ShareAssumption DEF ShareAssumption, Init
<1>3. link \in [Job -> Deck \cup {NoDeck}] BY DEF Init
<1> QED BY <1>1, <1>2, <1>3 DEF Init, TypeOK, OldDecks, PC

\* What a route into a folder leaves on the page.
LEMMA RouteType ==
  ASSUME TypeOK, NEW folders, NEW next \in Walking,
         EnterFolder(folders, next)
  PROVE  /\ rows' \subseteq Deck
         /\ pc' \in Walking
         /\ UNCHANGED workVars
BY FoldersHoldDecks DEF EnterFolder, Goto, PC, Walking

\* One step of the browser, but for those that open a popup or press the switch.
LEMMA WalkType ==
  ASSUME TypeOK, pc # "idle",
         \/ SearchInstitution \/ OpenProject \/ WalkLibrary \/ GoRecent \/ FoundElsewhere
  PROVE  TypeOK'
<1>1. job \in Job BY JobFacts DEF TypeOK
<1>2. <<>> \in Seq(Deck) OBVIOUS
<1>3. CASE SearchInstitution
  <2>1. EnterFolder(scene.namesakes[Home], "project") BY <1>3 DEF SearchInstitution
  <2>2. rows' \subseteq Deck /\ pc' \in Walking /\ UNCHANGED workVars
    BY <2>1, RouteType DEF PC, Walking
  <2> QED BY <1>1, <1>2, <1>3, <2>2 DEF SearchInstitution, TypeOK, Walking
<1>4. CASE OpenProject
  <2>1. EnterFolder(scene.alike[Home], "library") BY <1>4 DEF OpenProject
  <2>2. rows' \subseteq Deck /\ pc' \in Walking /\ UNCHANGED workVars
    BY <2>1, RouteType DEF PC, Walking
  <2> QED BY <1>1, <1>4, <2>2 DEF OpenProject, TypeOK, Walking
<1>5. CASE WalkLibrary
  <2>1. EnterFolder(scene.alike[Home] \cup scene.namesakes[Home], "recent")
    BY <1>5 DEF WalkLibrary
  <2>2. rows' \subseteq Deck /\ pc' \in Walking /\ UNCHANGED workVars
    BY <2>1, RouteType DEF PC, Walking
  <2> QED BY <1>1, <1>2, <1>5, <2>2 DEF WalkLibrary, MayDrop, TypeOK, Walking
<1>6. CASE GoRecent
  BY <1>1, <1>2, <1>6 DEF GoRecent, MayDrop, Goto, TypeOK, PC
<1>7. CASE FoundElsewhere
  BY <1>1, <1>7 DEF FoundElsewhere, Goto, TypeOK, PC
<1> QED BY <1>3, <1>4, <1>5, <1>6, <1>7

\* A popup joins those that are open.
LEMMA PopupType ==
  ASSUME TypeOK, pc # "idle", NEW d \in Deck, OpensPopup(d), astray' \subseteq Job
  PROVE  TypeOK'
<1>1. popups' \in Seq(Deck) /\ popups' # <<>> BY DEF OpensPopup, TypeOK
<1>2. shown' \in BOOLEAN
  <2>1. (d \in public) \in BOOLEAN OBVIOUS
  <2> QED BY <2>1, Zenon DEF OpensPopup, TypeOK
<1> QED BY <1>1, <1>2, JobFacts DEF OpensPopup, Goto, TypeOK, PC

LEMMA ToggleType ==
  ASSUME TypeOK, pc # "idle", PressToggle
  PROVE  TypeOK'
<1>1. Head(popups) \in Deck BY DEF PressToggle, TypeOK
<1>2. public' \subseteq Deck BY <1>1 DEF PressToggle, TypeOK
<1>3. shown' \in BOOLEAN
  <2>1. (Head(popups) \in public') \in BOOLEAN OBVIOUS
  <2> QED BY <2>1, Zenon DEF PressToggle, TypeOK
<1>4. presses \in Nat /\ presses + 1 \in 0..Presses
  BY ShareAssumption DEF ShareAssumption, PressToggle, TypeOK
<1> QED BY <1>1, <1>2, <1>3, <1>4 DEF PressToggle, TypeOK, PC

\* A page that is loaded again drops its popups, if it loads.
LEMMA DropType == ASSUME TypeOK, MayDrop PROVE popups' \in Seq(Deck)
<1>1. <<>> \in Seq(Deck) OBVIOUS
<1> QED BY <1>1 DEF MayDrop, TypeOK

LEMMA TypeStep == TypeOK /\ [Next]_vars => TypeOK'
<1> SUFFICES ASSUME TypeOK, [Next]_vars PROVE TypeOK' OBVIOUS
<1> USE JobFacts
<1>1. CASE CloudTakes
  <2>1. job' \in Job /\ Published[job'] \in Deck BY <1>1 DEF CloudTakes, TypeOK
  <2>2. place' \in [Deck -> Folder] /\ listed' \subseteq Deck
    BY <1>1, <2>1 DEF CloudTakes, TypeOK
  <2>3. round' \in 1..Rounds /\ presses' \in 0..Presses
    BY <1>1, ShareAssumption DEF ShareAssumption, CloudTakes
  <2> QED BY <1>1, <2>1, <2>2, <2>3 DEF CloudTakes, TypeOK, PC
<1>2. CASE CloudLists
  BY <1>2 DEF CloudLists, TypeOK, PC
<1>3. CASE ToggleShows
  BY <1>3 DEF ToggleShows, TypeOK
<1>4. CASE Attach
  BY <1>4, DropType DEF Attach, Goto, Fails, TypeOK, PC
<1>5. CASE SearchInstitution \/ OpenProject \/ WalkLibrary \/ GoRecent \/ FoundElsewhere
  BY <1>5, WalkType DEF SearchInstitution, OpenProject, WalkLibrary, GoRecent, FoundElsewhere
<1>6. CASE NextRound
  BY <1>6, DropType, ShareAssumption
  DEF ShareAssumption, NextRound, RoundsLeft, Goto, TypeOK, PC
<1>7. CASE OpenShare \/ OpenShareOldWay
  <2>1. PICK d \in rows : OpensPopup(d)
    BY <1>7 DEF OpenShare, OpenShareOldWay, Newest, Titled
  <2>2. pc # "idle" /\ job \in Job BY <1>7 DEF OpenShare, OpenShareOldWay, TypeOK
  <2>3. astray' \subseteq Job
    BY <1>7, <2>2 DEF OpenShare, OpenShareOldWay, Guess, TypeOK
  <2> QED BY <2>1, <2>2, <2>3, PopupType DEF TypeOK
<1>8. CASE OpenShareFails
  BY <1>8 DEF OpenShareFails, Fails, TypeOK, PC
<1>9. CASE ReadToggle
  BY <1>9 DEF ReadToggle, Goto, Fails, TypeOK, PC
<1>10. CASE PressToggle
  BY <1>10, ToggleType DEF PressToggle
<1>11. CASE ReadEmbedCode
  <2>1. job \in Job /\ astray' \subseteq Job BY <1>11 DEF ReadEmbedCode, Guess, TypeOK
  <2>2. code' \in Deck \cup {NoDeck} BY <1>11 DEF ReadEmbedCode, OnPage, TypeOK
  <2> QED BY <1>11, <2>1, <2>2 DEF ReadEmbedCode, TypeOK, PC
<1>12. CASE ClosePopup
  BY <1>12, DropType DEF ClosePopup, TypeOK, PC
<1>13. CASE UNCHANGED vars
  BY <1>13 DEF TypeOK
<1> QED
  BY <1>1, <1>2, <1>3, <1>4, <1>5, <1>6, <1>7, <1>8, <1>9, <1>10, <1>11, <1>12, <1>13
  DEF Next, Browse

\* Type correctness (the state of the library's page and of fetch_embed).
THEOREM TypeCorrect == Spec => []TypeOK
BY TypeInit, TypeStep, PTL DEF Spec

-----------------------------------------------------------------------------
(* Whose popup is open *)

\* No two decks of a library have the same title.
TitlesApart == \A s \in Scenes : \A d, e \in Deck : s.title[d] = s.title[e] => d = e

\* The page shows what the cloud lists; and once a route has found the title there, the
\* job's deck is among its rows.
RowsInv ==
  /\ rows \subseteq listed
  /\ pc \in {"elsewhere", "share", "toggle", "press", "read"} => Mine \in rows

\* Between the search that closes what an earlier job left open and the share popup
\* nothing is open; and then it is the job's own.  The search is the first route of every
\* round, which is why all the others may rely on it.
PopupInv ==
  job \notin astray =>
    /\ pc \in {"project", "library", "recent", "elsewhere", "again", "share"} => popups = <<>>
    /\ pc \in {"toggle", "press", "read"} => popups = <<Mine>>
    /\ pc = "close" => code \in {Mine, NoDeck}

\* A job that is not over has returned no link, one to come has not gone astray.
LinkInv ==
  /\ \A j \in Job : j > job \/ (j = job /\ pc # "idle") => link[j] = NoDeck
  /\ \A j \in astray : j <= job

LinkIInv == TypeOK /\ RowsInv /\ PopupInv /\ LinkInv /\ RightLink

LEMMA MineIsDeck ==
  ASSUME TypeOK, pc # "idle" PROVE job \in Job /\ Mine \in Deck
BY JobFacts DEF TypeOK, Mine

\* A row with the job's title is the job's.
LEMMA TitledIsMine ==
  ASSUME TitlesApart, TypeOK, pc # "idle", NEW d \in Deck, TitleOf(d) = TitleOf(Mine)
  PROVE  d = Mine
BY MineIsDeck DEF TitlesApart, TypeOK, TitleOf

\* So a list that shows the title shows the job's deck.
LEMMA TitledShowsMine ==
  ASSUME TitlesApart, TypeOK, pc # "idle", NEW decks, decks \subseteq Deck,
         Titled(decks) # {}
  PROVE  Mine \in decks
<1>1. PICK d \in decks : TitleOf(d) = TitleOf(Mine) BY DEF Titled
<1> QED BY <1>1, TitledIsMine

\* The job's title is among those that contain it.
LEMMA MineIsContained ==
  ASSUME TypeOK, pc # "idle" PROVE <<TitleOf(Mine), TitleOf(Mine)>> \in Contained
<1>1. scene.title \in [Deck -> Title]
  BY ShareAssumption DEF ShareAssumption, Scene, TypeOK
<1>2. TitleOf(Mine) \in Title BY <1>1, MineIsDeck DEF TitleOf
<1> QED BY <1>2, ShareAssumption DEF ShareAssumption

\* A guess among decks of which one is the job's is the job's, unless it leads astray.
LEMMA GuessIsMine ==
  ASSUME NEW d, NEW decks, Mine \in decks, Guess(d, decks), job \notin astray'
  PROVE  d = Mine
BY DEF Guess

\* What the steps do to the rows.
LEMMA RowsStep ==
  ASSUME TitlesApart, TypeOK, RowsInv, [Next]_vars
  PROVE  RowsInv'
<1> USE DEF RowsInv, Mine
<1>1. CASE CloudTakes
  BY <1>1 DEF CloudTakes
<1>2. CASE CloudLists \/ ToggleShows \/ Attach \/ NextRound \/ OpenShareFails
  BY <1>2 DEF CloudLists, ToggleShows, Attach, NextRound, OpenShareFails, Goto, Fails
<1>3. ASSUME NEW folders, NEW next \in {"project", "library", "recent"}, pc # "idle",
             EnterFolder(folders, next), UNCHANGED <<scene, place, listed>>
      PROVE  RowsInv'
  <2>1. rows' \subseteq listed BY <1>3 DEF EnterFolder, DecksIn
  <2>2. CASE pc' = next BY <1>3, <2>1, <2>2
  <2>3. CASE Titled(rows') # {} /\ pc' = "share"
    <3>1. rows' \subseteq Deck BY <2>1 DEF TypeOK
    <3>2. Mine \in rows' BY <1>3, <2>3, <3>1, TitledShowsMine
    <3> QED BY <1>3, <2>1, <3>2 DEF EnterFolder, Goto
  <2> QED BY <1>3, <2>2, <2>3 DEF EnterFolder, Goto
<1>4. CASE SearchInstitution \/ OpenProject \/ WalkLibrary
  BY <1>3, <1>4 DEF SearchInstitution, OpenProject, WalkLibrary
<1>5. CASE GoRecent
  <2>1. Titled(listed) # {} => Mine \in listed
    BY <1>5, TitledShowsMine DEF GoRecent, TypeOK
  <2> QED BY <1>5, <2>1 DEF GoRecent, Goto
<1>6. CASE FoundElsewhere
  BY <1>6, MineIsContained DEF FoundElsewhere, Goto
<1>7. CASE OpenShare \/ OpenShareOldWay
  BY <1>7 DEF OpenShare, OpenShareOldWay, OpensPopup, Goto
<1>8. CASE ReadToggle \/ PressToggle
  BY <1>8 DEF ReadToggle, PressToggle, Goto, Fails
<1>9. CASE ReadEmbedCode \/ ClosePopup
  BY <1>9 DEF ReadEmbedCode, ClosePopup
<1>10. CASE UNCHANGED vars
  BY <1>10
<1> QED
  BY <1>1, <1>2, <1>4, <1>5, <1>6, <1>7, <1>8, <1>9, <1>10 DEF Next, Browse

LEMMA LinkInit == Init => LinkIInv
<1> SUFFICES ASSUME Init PROVE LinkIInv OBVIOUS
<1>1. \A j \in Job : link[j] = NoDeck BY DEF Init
<1> QED BY <1>1, TypeInit DEF Init, LinkIInv, RowsInv, PopupInv, LinkInv, RightLink

LEMMA LinkStep == ASSUME TitlesApart PROVE LinkIInv /\ [Next]_vars => LinkIInv'
<1> SUFFICES ASSUME LinkIInv, [Next]_vars PROVE LinkIInv' OBVIOUS
<1> USE DEF LinkIInv, PopupInv, LinkInv, RightLink, Mine
<1>0. TypeOK' /\ RowsInv' BY TypeStep, RowsStep
<1>j. Job = 1..Len(Published) /\ Len(Published) \in Nat /\ job \in Job \cup {0}
      /\ astray \subseteq Job
  BY JobFacts DEF TypeOK
<1>1. CASE CloudTakes
  <2>1. job' = job + 1 /\ pc' = "attach" /\ pc = "idle" /\ UNCHANGED <<link, astray>>
    BY <1>1 DEF CloudTakes
  <2> QED BY <1>0, <1>j, <2>1
<1>2. CASE CloudLists
  BY <1>0, <1>2 DEF CloudLists
<1>3. CASE ToggleShows
  BY <1>0, <1>3 DEF ToggleShows
<1>4. CASE Attach
  BY <1>0, <1>4 DEF Attach, Goto, Fails
<1>5. CASE SearchInstitution
  <2>1. /\ UNCHANGED <<job, code, link>> /\ pc # "idle" /\ pc' \in {"project", "share"}
        /\ \/ popups' = <<>> /\ UNCHANGED astray
           \/ astray' = astray \cup {job}
    BY <1>5 DEF SearchInstitution, EnterFolder, Goto
  <2> QED BY <1>0, <1>j, <2>1 DEF TypeOK
<1>6. CASE OpenProject \/ WalkLibrary \/ GoRecent \/ FoundElsewhere
  <2>1. /\ popups' \in {<<>>, popups} /\ UNCHANGED <<job, code, link, astray>> /\ pc # "idle"
        /\ pc \in {"project", "library", "recent", "elsewhere"}
        /\ pc' \in {"library", "recent", "elsewhere", "again", "share"}
    BY <1>6 DEF OpenProject, WalkLibrary, GoRecent, FoundElsewhere, MayDrop, EnterFolder, Goto
  <2> QED BY <1>0, <2>1
<1>7. CASE NextRound
  BY <1>0, <1>7 DEF NextRound, Goto
<1>8. CASE OpenShare
  <2>1. PICK d \in rows : OpensPopup(d) /\ TitleOf(d) = TitleOf(Mine) /\ UNCHANGED astray
    BY <1>8 DEF OpenShare, Newest, Titled
  <2>2. d \in Deck /\ pc = "share" BY <1>8 DEF OpenShare, TypeOK
  <2>3. d = Published[job] BY <2>1, <2>2, TitledIsMine
  <2>4. Append(<<>>, d) = <<Published[job]>> BY <2>3
  <2> QED BY <1>0, <2>1, <2>2, <2>4 DEF OpensPopup, Goto
<1>9. CASE OpenShareOldWay
  <2> DEFINE Candidates == {e \in rows : <<TitleOf(Mine), TitleOf(e)>> \in Contained}
  <2>1. pc = "share" /\ Mine \in Candidates
    BY <1>9, MineIsContained DEF OpenShareOldWay, RowsInv
  <2>2. PICK d \in rows : OpensPopup(d) /\ Guess(d, Candidates) BY <1>9 DEF OpenShareOldWay
  <2>3. job \notin astray' => d = Published[job] BY <2>1, <2>2, GuessIsMine
  <2>4. astray \subseteq astray' /\ astray' \subseteq astray \cup {job} BY <2>2 DEF Guess
  <2>5. /\ popups' = Append(popups, d) /\ pc' = "toggle"
        /\ UNCHANGED <<job, code, link>>
    BY <2>2 DEF OpensPopup, Goto
  <2>6. job \notin astray' => popups' = <<Published[job]>>
    <3>1. Append(<<>>, Published[job]) = <<Published[job]>> OBVIOUS
    <3> QED BY <2>1, <2>3, <2>4, <2>5, <3>1
  <2> HIDE DEF Candidates
  <2> QED BY <1>0, <1>j, <2>1, <2>4, <2>5, <2>6 DEF TypeOK
<1>10. CASE OpenShareFails
  BY <1>0, <1>10 DEF OpenShareFails, Fails
<1>11. CASE ReadToggle
  BY <1>0, <1>11 DEF ReadToggle, Goto, Fails
<1>12. CASE PressToggle
  BY <1>0, <1>12 DEF PressToggle
<1>13. CASE ReadEmbedCode
  <2>1. pc = "read" /\ pc' = "close" /\ UNCHANGED <<job, link>>
        /\ astray \subseteq astray' /\ astray' \subseteq astray \cup {job}
    BY <1>13 DEF ReadEmbedCode, Guess
  <2>2. ASSUME job \notin astray' PROVE code' \in {Mine, NoDeck}
    <3>1. popups = <<Published[job]>> BY <2>1, <2>2
    <3>2. Mine \in OnPage BY <2>1 DEF RowsInv, OnPage
    <3> QED BY <1>13, <2>2, <3>1, <3>2, GuessIsMine DEF ReadEmbedCode
  <2> QED BY <1>0, <1>j, <2>1, <2>2 DEF TypeOK
<1>14. CASE ClosePopup
  BY <1>0, <1>j, <1>14 DEF ClosePopup, TypeOK
<1>15. CASE UNCHANGED vars
  BY <1>0, <1>15
<1> QED
  BY <1>1, <1>2, <1>3, <1>4, <1>5, <1>6, <1>7, <1>8, <1>9, <1>10, <1>11, <1>12, <1>13, <1>14,
     <1>15 DEF Next, Browse

\* "That is how a deck got another deck's iframe" (ispring_cloud.py:1862): where no two
\* decks have the same title, no job returns another deck's link, however late the cloud
\* lists, wherever the deck went and whatever the last job left open, unless it went on
\* behind a popup that would not close or the code let the page's text choose between
\* several decks (the old way to the row menu, the page-wide search for a link).
THEOREM LinkCorrect == ASSUME TitlesApart PROVE Spec => []RightLink
<1>1. LinkIInv => RightLink BY DEF LinkIInv
<1> QED BY <1>1, LinkInit, LinkStep, PTL DEF Spec

-----------------------------------------------------------------------------
(* Whose sharing is changed *)

\* The switch that is pressed is the job's own deck's, unless the job went astray.
THEOREM SharingCorrect == ASSUME TitlesApart PROVE Spec => OnlyOwnSharing
<1> DEFINE Own == \A d \in Deck : (d \in public) # (d \in public') => d = Mine \/ job \in astray
<1>1. ASSUME LinkIInv, [Next]_vars PROVE [Own]_vars
  <2>1. CASE PressToggle
    <3>1. job \notin astray => Head(popups) = Mine
      BY <1>1, <2>1 DEF PressToggle, LinkIInv, PopupInv
    <3> QED BY <2>1, <3>1 DEF PressToggle
  <2>2. CASE ~PressToggle /\ Next
    <3>1. UNCHANGED public
      BY <2>2 DEF Next, Browse, CloudTakes, CloudLists, ToggleShows, Attach, SearchInstitution,
         OpenProject, WalkLibrary, GoRecent, FoundElsewhere, NextRound, OpenShare,
         OpenShareOldWay, OpenShareFails, ReadToggle, ReadEmbedCode, ClosePopup, Fails,
         OpensPopup
    <3> QED BY <3>1
  <2> QED BY <1>1, <2>1, <2>2
<1> QED BY <1>1, LinkInit, LinkStep, PTL DEF Spec, OnlyOwnSharing

-----------------------------------------------------------------------------
(* Whether the link is viewable *)

\* The switch can be found, and shows what it is.
Plain == ~Fault("lag") /\ ~Fault("unmarked")

\* A plain switch shows the state of the first popup's deck.  So it is pressed only when
\* that deck is private, and the code that is read from it is of a deck that is viewable.
ViewInv ==
  Plain =>
    /\ popups # <<>> => shown = (Head(popups) \in public)
    /\ pc = "press" => Head(popups) \notin public
    /\ pc = "read" => Head(popups) \in public
    /\ pc = "close" /\ job \notin astray /\ code # NoDeck => code \in public

ViewIInv == TypeOK /\ ViewInv /\ ViewableLink

LEMMA ViewInit == Init => ViewIInv
<1> SUFFICES ASSUME Init PROVE ViewIInv OBVIOUS
<1>1. \A j \in Job : link[j] = NoDeck BY DEF Init
<1> QED BY <1>1, TypeInit DEF Init, ViewIInv, ViewInv, ViewableLink

LEMMA ViewStep == ViewIInv /\ [Next]_vars => ViewIInv'
<1> SUFFICES ASSUME ViewIInv, [Next]_vars, Plain' PROVE ViewIInv'
  BY TypeStep DEF ViewIInv, ViewInv, ViewableLink, Plain
<1> USE DEF ViewIInv, ViewInv, ViewableLink, Plain, Fault
<1>0. TypeOK' BY TypeStep
<1>1. UNCHANGED scene
  BY DEF Next, Browse, CloudTakes, CloudLists, ToggleShows, Attach, SearchInstitution,
     OpenProject, WalkLibrary, GoRecent, FoundElsewhere, NextRound, OpenShare,
     OpenShareOldWay, OpenShareFails, ReadToggle, PressToggle, ReadEmbedCode, ClosePopup,
     Fails, OpensPopup
<1>2. Plain BY <1>1
<1>3. CASE CloudTakes
  BY <1>0, <1>2, <1>3 DEF CloudTakes
<1>4. CASE CloudLists
  BY <1>0, <1>2, <1>4 DEF CloudLists
<1>5. CASE ToggleShows
  BY <1>0, <1>2, <1>5 DEF ToggleShows
<1>6. CASE Attach \/ OpenShareFails \/ NextRound
  BY <1>0, <1>2, <1>6 DEF Attach, OpenShareFails, NextRound, MayDrop, Goto, Fails
<1>7. CASE SearchInstitution \/ OpenProject \/ WalkLibrary \/ GoRecent \/ FoundElsewhere
  <2>1. /\ popups' \in {<<>>, popups} /\ UNCHANGED <<public, shown, link>>
        /\ pc' \in {"project", "library", "recent", "elsewhere", "again", "share"}
        /\ astray \subseteq astray'
    BY <1>7 DEF SearchInstitution, OpenProject, WalkLibrary, GoRecent, FoundElsewhere, MayDrop,
       EnterFolder, Goto
  <2> QED BY <1>0, <1>2, <2>1
<1>8. CASE OpenShare \/ OpenShareOldWay
  <2>1. PICK d \in rows : OpensPopup(d)
    BY <1>8 DEF OpenShare, OpenShareOldWay, Newest, Titled
  <2>2. astray \subseteq astray' BY <1>8 DEF OpenShare, OpenShareOldWay, Guess
  <2>3. /\ popups' = Append(popups, d) /\ UNCHANGED <<public, link>> /\ pc' = "toggle"
        /\ shown' = IF popups = <<>> THEN d \in public ELSE shown
    BY <2>1 DEF OpensPopup, Goto
  <2>4. d \in Deck /\ popups \in Seq(Deck) BY DEF TypeOK
  <2>5. Head(popups') = IF popups = <<>> THEN d ELSE Head(popups) BY <2>3, <2>4
  <2>6. shown' = (Head(popups') \in public') BY <1>2, <2>3, <2>5
  <2> QED BY <1>0, <1>2, <2>2, <2>3, <2>6
<1>9. CASE ReadToggle
  <2>1. popups # <<>> BY <1>9 DEF ReadToggle, TypeOK
  <2>2. /\ TRUE \in Readings => Head(popups) \in public
        /\ FALSE \in Readings => Head(popups) \notin public
    BY <1>2, <2>1 DEF Readings
  <2> QED BY <1>0, <1>2, <1>9, <2>2 DEF ReadToggle, Goto, Fails
<1>10. CASE PressToggle
  <2>1. public \subseteq public' BY <1>2, <1>10 DEF PressToggle
  <2>2. popups' # <<>> => shown' = (Head(popups') \in public')
    BY <1>2, <1>10 DEF PressToggle
  <2> QED BY <1>0, <1>2, <1>10, <2>1, <2>2 DEF PressToggle
<1>11. CASE ReadEmbedCode
  <2>1. popups # <<>> /\ pc' = "close" /\ UNCHANGED <<popups, shown, public, link, job>>
    BY <1>11 DEF ReadEmbedCode, TypeOK
  <2>2. astray \subseteq astray' BY <1>11 DEF ReadEmbedCode, Guess
  <2>3. job \notin astray' => code' \in {Head(popups), NoDeck}
    <3>1. Head(popups) \in OnPage BY <2>1 DEF OnPage, TypeOK
    <3> QED BY <1>11, <3>1 DEF ReadEmbedCode, Guess
  <2> QED BY <1>0, <1>2, <1>11, <2>1, <2>2, <2>3 DEF ReadEmbedCode
<1>12. CASE ClosePopup
  BY <1>0, <1>2, <1>12 DEF ClosePopup, MayDrop, TypeOK
<1>13. CASE UNCHANGED vars
  BY <1>0, <1>2, <1>13
<1> QED
  BY <1>3, <1>4, <1>5, <1>6, <1>7, <1>8, <1>9, <1>10, <1>11, <1>12, <1>13 DEF Next, Browse

\* "The embed code is shown even while the content is private" (ispring_cloud.py:2250):
\* where the switch shows what it is, every link that was ever returned is viewable and
\* stays so through the jobs that follow, whatever the titles in the library, unless the
\* job that returned it went astray.
THEOREM ViewableCorrect == Spec => []ViewableLink
<1>1. ViewIInv => ViewableLink BY DEF ViewIInv
<1> QED BY <1>1, ViewInit, ViewStep, PTL DEF Spec

-----------------------------------------------------------------------------
(* The browsing of a job comes to an end *)

\* What the switch may still cost, a step to read it and one to press it each time, and
\* what the rounds to come may.
PressesLeft == 2 * (Presses - presses)
RoundsToCome == 5 * (Rounds - round)

\* How many steps the job in hand has left at most.
StepsLeft ==
  CASE pc = "idle"        -> 0
    [] pc = "close"       -> 1
    [] pc = "read"        -> 2
    [] pc = "press"       -> 2 + PressesLeft
    [] pc = "toggle"      -> 3 + PressesLeft
    [] pc = "share"       -> 4 + PressesLeft
    [] pc = "elsewhere"   -> 5 + PressesLeft
    [] pc = "again"       -> 5 + PressesLeft + RoundsToCome
    [] pc = "recent"      -> 6 + PressesLeft + RoundsToCome
    [] pc = "library"     -> 7 + PressesLeft + RoundsToCome
    [] pc = "project"     -> 8 + PressesLeft + RoundsToCome
    [] pc = "institution" -> 9 + PressesLeft + RoundsToCome
    [] pc = "attach"      -> 10 + PressesLeft + RoundsToCome

LEMMA StepNumbers ==
  ASSUME TypeOK
  PROVE  /\ Presses \in Nat /\ presses \in Nat /\ presses <= Presses
         /\ Rounds \in Nat /\ round \in Nat /\ 1 <= round /\ round <= Rounds
         /\ PressesLeft \in Nat /\ PressesLeft <= 2 * Presses
         /\ RoundsToCome \in Nat /\ RoundsToCome <= 5 * Rounds - 5
BY ShareAssumption DEF ShareAssumption, TypeOK, PressesLeft, RoundsToCome

\* A route into a folder leads on to the popup or to the next route.
LEMMA RouteShorter ==
  ASSUME TypeOK, NEW folders, NEW next \in PC, EnterFolder(folders, next)
  PROVE  /\ pc' \in {"share", next}
         /\ PressesLeft' = PressesLeft /\ RoundsToCome' = RoundsToCome
BY DEF EnterFolder, Goto, PressesLeft, RoundsToCome

\* Each step of the browser is one towards the end of the job's browsing.
LEMMA ShorterStep == TypeOK /\ TypeOK' /\ Browse => StepsLeft' < StepsLeft
<1> SUFFICES ASSUME TypeOK, TypeOK', Browse PROVE StepsLeft' < StepsLeft OBVIOUS
<1>n. PressesLeft \in Nat /\ RoundsToCome \in Nat BY StepNumbers
<1>1. CASE Attach \/ FoundElsewhere \/ OpenShareFails \/ GoRecent
  <2>1. \/ PressesLeft' = PressesLeft /\ RoundsToCome' = RoundsToCome
    BY <1>1 DEF Attach, FoundElsewhere, OpenShareFails, GoRecent, Goto, Fails, PressesLeft,
       RoundsToCome
  <2> QED
    BY <1>n, <1>1, <2>1 DEF Attach, FoundElsewhere, OpenShareFails, GoRecent, Goto, Fails,
       StepsLeft
<1>2. CASE SearchInstitution
  <2>1. pc = "institution" /\ EnterFolder(scene.namesakes[Home], "project")
    BY <1>2 DEF SearchInstitution
  <2> QED BY <1>n, <2>1, RouteShorter DEF StepsLeft, PC
<1>3. CASE OpenProject
  <2>1. pc = "project" /\ EnterFolder(scene.alike[Home], "library") BY <1>3 DEF OpenProject
  <2> QED BY <1>n, <2>1, RouteShorter DEF StepsLeft, PC
<1>4. CASE WalkLibrary
  <2>1. pc = "library" /\ EnterFolder(scene.alike[Home] \cup scene.namesakes[Home], "recent")
    BY <1>4 DEF WalkLibrary
  <2> QED BY <1>n, <2>1, RouteShorter DEF StepsLeft, PC
<1>5. CASE NextRound
  <2>1. CASE Goto("idle") BY <1>n, <1>5, <2>1 DEF NextRound, Goto, StepsLeft
  <2>2. CASE RoundsLeft /\ round' = round + 1 /\ pc' = "institution" /\ presses' = presses
    <3>1. PressesLeft' = PressesLeft BY <2>2 DEF PressesLeft
    <3>2. RoundsToCome = RoundsToCome' + 5 BY <2>2, StepNumbers DEF RoundsToCome
    <3>3. RoundsToCome' \in Nat BY <2>2, StepNumbers DEF RoundsToCome, RoundsLeft
    <3>4. PICK m \in Nat, n \in Nat : m = PressesLeft /\ n = RoundsToCome' BY <1>n, <3>3
    <3>5. StepsLeft = 5 + m + (n + 5) BY <1>5, <3>2, <3>4 DEF NextRound, StepsLeft
    <3>6. StepsLeft' = 9 + m + n BY <2>2, <3>1, <3>4 DEF StepsLeft
    <3> QED BY <3>5, <3>6
  <2> QED BY <1>5, <2>1, <2>2 DEF NextRound
<1>6. CASE OpenShare \/ OpenShareOldWay
  <2>1. pc = "share" /\ pc' = "toggle" /\ presses' = presses
    BY <1>6 DEF OpenShare, OpenShareOldWay, OpensPopup, Goto
  <2>2. PressesLeft' = PressesLeft BY <2>1 DEF PressesLeft
  <2> QED BY <1>n, <2>1, <2>2 DEF StepsLeft
<1>7. CASE ReadToggle
  <2>1. pc = "toggle" /\ pc' \in {"read", "press", "idle"} /\ presses' = presses
    BY <1>7 DEF ReadToggle, Goto, Fails
  <2>2. PressesLeft' = PressesLeft BY <2>1 DEF PressesLeft
  <2> QED BY <1>n, <2>1, <2>2 DEF StepsLeft
<1>8. CASE PressToggle
  <2>1. pc = "press" /\ pc' = "toggle" /\ presses' = presses + 1 BY <1>8 DEF PressToggle
  <2>2. PressesLeft = PressesLeft' + 2 BY <2>1, StepNumbers DEF PressesLeft
  <2>3. PressesLeft' \in Nat
    <3>1. Presses \in Nat /\ presses \in Nat /\ presses < Presses
      BY <2>1, StepNumbers DEF TypeOK
    <3>2. PICK n \in Nat : n = Presses - presses' BY <2>1, <3>1
    <3> QED BY <3>2 DEF PressesLeft
  <2>4. PICK n \in Nat : n = PressesLeft' BY <2>3
  <2>5. StepsLeft = 2 + (n + 2) /\ StepsLeft' = 3 + n BY <2>1, <2>2, <2>4 DEF StepsLeft
  <2> QED BY <2>5
<1>9. CASE ReadEmbedCode \/ ClosePopup
  BY <1>9 DEF ReadEmbedCode, ClosePopup, StepsLeft
<1> QED BY <1>1, <1>2, <1>3, <1>4, <1>5, <1>6, <1>7, <1>8, <1>9 DEF Browse

\* A job's browsing takes no more steps than the rounds of locate_material and the presses
\* of make_viewable_via_link allow, for any number of each, whatever the library holds:
\* each step is one towards its end, and neither the cloud nor a switch that shows its
\* state late puts it back.  With waits that have a limit this is why BrowsingEnds holds.
THEOREM StepsCorrect ==
  Spec => /\ [](StepsLeft \in 0..2 * Presses + 5 * Rounds + 5)
          /\ [][/\ Browse => StepsLeft' < StepsLeft
                /\ CloudLists \/ ToggleShows => StepsLeft' = StepsLeft]_vars
<1>1. TypeOK => StepsLeft \in 0..2 * Presses + 5 * Rounds + 5
  <2> SUFFICES ASSUME TypeOK PROVE StepsLeft \in 0..2 * Presses + 5 * Rounds + 5 OBVIOUS
  <2>1. PICK m \in Nat, n \in Nat : m = PressesLeft /\ n = RoundsToCome BY StepNumbers
  <2>2. m <= 2 * Presses /\ n <= 5 * Rounds - 5 /\ Presses \in Nat /\ Rounds \in Nat
        /\ 1 <= Rounds
    BY <2>1, StepNumbers
  <2>3. pc \in PC BY DEF TypeOK
  <2>4. /\ StepsLeft \in Nat
        /\ StepsLeft <= 2 \/ StepsLeft <= m + 5 \/ StepsLeft <= m + n + 10
    BY <2>1, <2>3 DEF StepsLeft, PC
  <2> QED BY <2>2, <2>4
<1>2. CloudLists \/ ToggleShows => StepsLeft' = StepsLeft
  BY DEF CloudLists, ToggleShows, StepsLeft, PressesLeft, RoundsToCome
<1> QED BY TypeCorrect, <1>1, <1>2, ShorterStep, PTL
=============================================================================
