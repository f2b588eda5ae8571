------------------------------- MODULE ShareLink -------------------------------
(***************************************************************************)
(* The browser half of publisher/ispring_cloud.py (fetch_embed): find the  *)
(* deck that was just published in the cloud library, open its share       *)
(* popup, make it viewable via its link, and read the link.                *)
(*                                                                         *)
(* The library is a web page that the worker shares with nobody but with   *)
(* its own past: whatever one job leaves on it is there for the next.  A   *)
(* page shows the decks that the cloud listed when it was loaded, and the  *)
(* cloud lists a new deck some time after it has taken it.  Decks are told *)
(* apart by their titles.                                                  *)
(***************************************************************************)
EXTENDS Naturals, Sequences

CONSTANTS Deck,      \* the presentations in the library
          Published, \* those that the jobs publish, in this order
          Folder,    \* the library's folders
          Title,     \* what decks are called
          Contained, \* the pairs of titles of which the first is in the second
          Rounds,    \* the rounds of locate_material
          Presses,   \* how often make_viewable_via_link presses at most: twice by the
                     \* site's mark, and in three attempts each candidate in two ways,
                     \* five spots beside "Off", and each candidate's wrappers
          NoDeck,    \* nothing
          Scenes     \* the libraries there may be, see Scene

\* "misplaced": the picker may have sent the deck to another folder;
\* "late":      the cloud lists a deck some time after it has taken it;
\* "lag":       the switch shows its state later than the worker looks;
\* "unmarked":  the switch is not found by the site's mark.
AllFaults == {"misplaced", "late", "lag", "unmarked"}

\* title: of each deck; home: the folder of each job's institution; alike: the folders
\* whose name a folder's name is found in, itself included; namesakes: those of the same
\* name; faults: what may go wrong.
Scene == [title : [Deck -> Title], home : [DOMAIN Published -> Folder],
          alike : [Folder -> SUBSET Folder], namesakes : [Folder -> SUBSET Folder],
          faults : SUBSET AllFaults]

ASSUME ShareAssumption ==
  /\ Published \in Seq(Deck)
  /\ \A i, j \in DOMAIN Published : Published[i] = Published[j] => i = j
  /\ Contained \subseteq Title \X Title
  /\ \A t \in Title : <<t, t>> \in Contained
  /\ Rounds \in Nat \ {0} /\ Presses \in Nat
  /\ NoDeck \notin Deck
  /\ Scenes \subseteq Scene

VARIABLES
  scene,  \* the library this is
  \* the cloud
  place,  \* [Deck -> the folder it is in]
  listed, \* the decks that a page loaded now would show
  public, \* those that are viewable via their link
  \* the page
  rows,   \* the decks it shows
  popups, \* the decks whose share popups are open, the first in the page first
  shown,  \* what the switch of the first popup says
  \* the worker
  pc, job, round, presses,
  code,   \* the deck whose embed code was read
  link,   \* [jobs -> the deck whose link was returned]
  \* Observed, never read by an action:
  astray  \* the jobs that went on behind a popup that did not close, or took one of
          \* several decks by a text that any of them may have on the page

cloudVars == <<scene, place, listed, public>>
pageVars == <<rows, popups, shown>>
workVars == <<job, round, presses, code, link>>
vars == <<cloudVars, pageVars, pc, workVars, astray>>

Job == DOMAIN Published

\* Before the first job there is none.
Mine == Published[job]
OldDecks == Deck \ {Published[j] : j \in Job}
Home == scene.home[job]
TitleOf(d) == scene.title[d]
Fault(f) == f \in scene.faults

PC == {"idle", "attach", "institution", "project", "library", "recent", "elsewhere",
       "again", "share", "toggle", "press", "read", "close"}

TypeOK ==
  /\ scene \in Scenes
  /\ place \in [Deck -> Folder]
  /\ listed \subseteq Deck /\ public \subseteq Deck /\ rows \subseteq Deck
  /\ popups \in Seq(Deck)
  /\ shown \in BOOLEAN
  /\ pc \in PC
  /\ job \in Job \cup {0}
  /\ pc # "idle" => job # 0
  /\ pc \in {"toggle", "press", "read"} => popups # <<>>
  /\ round \in 1..Rounds
  /\ presses \in 0..Presses
  /\ pc = "press" => presses < Presses
  /\ code \in Deck \cup {NoDeck}
  /\ link \in [Job -> Deck \cup {NoDeck}]
  /\ astray \subseteq Job

Init ==
  /\ scene \in Scenes
  /\ place \in [Deck -> Folder]
  /\ \A j \in Job : place[Published[j]] = scene.home[j]
  /\ listed = OldDecks
  /\ public = {}
  /\ rows = {} /\ popups = <<>> /\ shown = FALSE
  /\ pc = "idle" /\ job = 0
  /\ round = 1 /\ presses = 0 /\ code = NoDeck
  /\ link = [j \in Job |-> NoDeck]
  /\ astray = {}

-----------------------------------------------------------------------------
(* The cloud and its page *)

\* The job's deck reaches the cloud.
CloudTakes ==
  /\ pc = "idle" /\ job < Len(Published)
  /\ job' = job + 1
  /\ \/ UNCHANGED place
     \/ Fault("misplaced") /\ \E f \in Folder : place' = [place EXCEPT ![Published[job']] = f]
  /\ \/ listed' = listed \cup {Published[job']}
     \/ Fault("late") /\ UNCHANGED listed
  /\ pc' = "attach"
  /\ round' = 1 /\ presses' = 0 /\ code' = NoDeck
  /\ UNCHANGED <<scene, public, pageVars, link, astray>>

CloudLists ==
  /\ \E j \in 1..job : Published[j] \notin listed /\ listed' = listed \cup {Published[j]}
  /\ UNCHANGED <<scene, place, public, pageVars, pc, workVars, astray>>

ToggleShows ==
  /\ popups # <<>> /\ shown # (Head(popups) \in public)
  /\ shown' = (Head(popups) \in public)
  /\ UNCHANGED <<cloudVars, rows, popups, pc, workVars, astray>>

DecksIn(folder) == {d \in listed : place[d] = folder}

-----------------------------------------------------------------------------
(* fetch_embed, up to the row *)

Goto(label) == pc' = label /\ UNCHANGED workVars

\* An exception leaves fetch_embed.  The page stays as it is.
Fails ==
  /\ pc' = "idle"
  /\ UNCHANGED <<cloudVars, pageVars, workVars, astray>>

\* What a page that is loaded again, or fails to load, leaves of the popups.
MayDrop == popups' \in {<<>>, popups}

\* A browser on the debug port, started if need be, with an iSpring tab as it was left or
\* opened anew.
Attach ==
  /\ pc = "attach"
  /\ \/ MayDrop /\ Goto("institution") /\ UNCHANGED <<cloudVars, rows, shown, astray>>
     \/ Fails

\* find_row: the rows of exactly this title.
Titled(decks) == {d \in decks : TitleOf(d) = TitleOf(Mine)}

\* One of the routes into a folder.  It leads into one of these, or nowhere.
EnterFolder(folders, next) ==
  \/ \E f \in folders :
       /\ rows' = DecksIn(f)
       /\ Goto(IF Titled(rows') # {} THEN "share" ELSE next)
  \/ rows' = {} /\ Goto(next)

\* Mutant: the search goes on with a popup over the library.
SearchUnderPopup ==
  /\ pc = "institution"
  /\ EnterFolder(scene.namesakes[Home], "project")
  /\ UNCHANGED <<cloudVars, popups, shown, astray>>

\* search_library closes what covers the page, and carries on if it cannot; open_result
\* opens the folder found.
SearchInstitution ==
  /\ pc = "institution"
  /\ \/ popups' = <<>> /\ UNCHANGED astray
     \/ popups # <<>> /\ UNCHANGED popups /\ astray' = astray \cup {job}
  /\ EnterFolder(scene.namesakes[Home], "project")
  /\ UNCHANGED <<cloudVars, shown>>

\* open_project and enter_folder, which takes a folder whose name only contains it when
\* there is no other.
OpenProject ==
  /\ pc = "project"
  /\ EnterFolder(scene.alike[Home], "library")
  /\ UNCHANGED <<cloudVars, popups, shown, astray>>

\* go_library loads the page, which drops what was open on it; that it may not load is not
\* looked at.
WalkLibrary ==
  /\ pc = "library"
  /\ MayDrop
  /\ EnterFolder(scene.alike[Home] \cup scene.namesakes[Home], "recent")
  /\ UNCHANGED <<cloudVars, shown, astray>>

\* go_recent, the last resort: every folder's decks.
GoRecent ==
  /\ pc = "recent"
  /\ \/ /\ popups' = <<>> /\ rows' = listed
        /\ Goto(IF Titled(rows') # {} THEN "elsewhere" ELSE "again")
     \/ MayDrop /\ rows' = {} /\ Goto("again")
  /\ UNCHANGED <<cloudVars, shown, astray>>

\* found_elsewhere, for the log: it searches for the material by name, or loads Recent
\* again, and leaves the page there.
FoundElsewhere ==
  /\ pc = "elsewhere"
  /\ \/ rows' = {d \in listed : <<TitleOf(Mine), TitleOf(d)>> \in Contained}
     \/ rows' = listed
     \/ UNCHANGED rows
  /\ Goto("share")
  /\ UNCHANGED <<cloudVars, popups, shown, astray>>

RoundsLeft == round < Rounds

\* Mutant: the rounds are not counted.
NextRoundUncounted ==
  pc = "again" /\ Goto("institution") /\ UNCHANGED <<cloudVars, pageVars, astray>>

\* Not in the folder yet: another round, or a last look elsewhere, for the message.
NextRound ==
  /\ pc = "again"
  /\ \/ /\ RoundsLeft
        /\ round' = round + 1
        /\ pc' = "institution"
        /\ UNCHANGED <<popups, job, presses, code, link>>
     \/ ~RoundsLeft /\ MayDrop /\ Goto("idle")
  /\ UNCHANGED <<cloudVars, rows, shown, astray>>

-----------------------------------------------------------------------------
(* open_share *)

OpensPopup(d) ==
  /\ popups' = Append(popups, d)
  /\ shown' = IF popups = <<>> THEN d \in public ELSE shown
  /\ Goto("toggle")
  /\ UNCHANGED <<cloudVars, rows>>

\* One of the decks that the page names in a way that does not tell them apart.
Guess(d, decks) ==
  /\ d \in decks
  /\ astray' = IF decks = {d} THEN astray ELSE astray \cup {job}

\* A deck that was published later was modified later.
Newer(d, e) ==
  \E j \in Job : Published[j] = d /\ \A i \in Job : Published[i] = e => i < j

\* Mutant: of several rows with the title, the oldest.
NewestIsOldest(decks) == {d \in decks : \A e \in decks : e # d => ~Newer(d, e)}

Newest(decks) == {d \in decks : \A e \in decks : ~Newer(e, d)}

\* The row is looked for again, by its title, on the page that is there now.
OpenShare ==
  /\ pc = "share"
  /\ \E d \in Newest(Titled(rows)) : OpensPopup(d)
  /\ UNCHANGED astray

\* "The old way", when the three dots do not open the menu: open_row_menu, by the first
\* text that contains the title.
OpenShareOldWay ==
  /\ pc = "share" /\ Titled(rows) # {}
  /\ \E d \in rows :
       /\ Guess(d, {e \in rows : <<TitleOf(Mine), TitleOf(e)>> \in Contained})
       /\ OpensPopup(d)

OpenShareFails == pc = "share" /\ Fails

-----------------------------------------------------------------------------
(* make_viewable_via_link *)

\* is_public: the switch's state or, where it is not found, that no text says otherwise.
Readings == IF Fault("unmarked") THEN {Head(popups) \in public, TRUE} ELSE {shown}

\* Mutant: the switch is taken to be on.
ReadToggleAssumes == pc = "toggle" /\ Goto("read") /\ UNCHANGED <<cloudVars, pageVars, astray>>

\* On: go on.  Off: press, while there is a way to press it left.
ReadToggle ==
  /\ pc = "toggle"
  /\ \/ TRUE \in Readings /\ Goto("read") /\ UNCHANGED <<cloudVars, pageVars, astray>>
     \/ /\ FALSE \in Readings /\ presses < Presses
        /\ Goto("press") /\ UNCHANGED <<cloudVars, pageVars, astray>>
     \/ FALSE \in Readings /\ Fails

\* Every way to press the switch toggles it, or misses.
PressToggle ==
  /\ pc = "press"
  /\ presses' = presses + 1
  /\ \/ public' = (public \cup {Head(popups)}) \ (public \cap {Head(popups)})
     \/ UNCHANGED public
  /\ \/ shown' = (Head(popups) \in public')
     \/ Fault("lag") /\ UNCHANGED shown
  /\ pc' = "toggle"
  /\ UNCHANGED <<scene, place, listed, rows, popups, job, round, code, link, astray>>

-----------------------------------------------------------------------------
(* The link *)

\* The decks whose links the page may hold, in a row or in a popup.
OnPage == rows \cup {popups[i] : i \in DOMAIN popups}

\* read_embed_code takes the code in the first popup; where that holds none, the first
\* iframe, embed URL or preview URL anywhere in the page; or it finds none.
ReadEmbedCode ==
  /\ pc = "read"
  /\ \/ code' \in {Head(popups), NoDeck} /\ UNCHANGED astray
     \/ code' \in OnPage /\ Guess(code', OnPage)
  /\ pc' = "close"
  /\ UNCHANGED <<cloudVars, pageVars, job, round, presses, link>>

\* close_popup, which reloads the page when nothing else closes it, and leaves the popup
\* there when that fails too; then the code is returned, or its lack raised.
ClosePopup ==
  /\ pc = "close"
  /\ MayDrop
  /\ link' = [link EXCEPT ![job] = code]
  /\ pc' = "idle"
  /\ UNCHANGED <<cloudVars, rows, shown, job, round, presses, code, astray>>

Browse ==
  \/ Attach \/ SearchInstitution \/ OpenProject \/ WalkLibrary \/ GoRecent
  \/ FoundElsewhere \/ NextRound \/ OpenShare \/ OpenShareOldWay \/ OpenShareFails
  \/ ReadToggle \/ PressToggle \/ ReadEmbedCode \/ ClosePopup

Next == Browse \/ CloudTakes \/ CloudLists \/ ToggleShows

Spec == Init /\ [][Next]_vars

\* Every wait in the browser has a limit.
FairSpec == Spec /\ WF_vars(Browse)

-----------------------------------------------------------------------------
(* What must hold *)

\* "That is how a deck got another deck's iframe" (ispring_cloud.py:1862): the link that a
\* job returns is its own deck's, whatever the titles in the library, wherever the deck went
\* and whatever the last job left open.  Excepted is a job that went astray: the code has
\* roads to another deck, and they are named there.
RightLink == \A j \in Job \ astray : link[j] \in {Published[j], NoDeck}

\* "The embed code is shown even while the content is private ... so this has to succeed
\* first and is verified rather than assumed" (ispring_cloud.py:2250): a deck whose link
\* was returned is viewable, and the jobs that follow leave it so, if the switch can be
\* found and shows what it is.  A job astray is excepted: it may press one deck's switch and
\* return another's link.
ViewableLink ==
  ~Fault("lag") /\ ~Fault("unmarked") =>
    \A j \in Job \ astray : link[j] # NoDeck => link[j] \in public

\* What a job presses changes the sharing of no deck but its own, unless it went astray.
OnlyOwnSharing ==
  [][\A d \in Deck : (d \in public) # (d \in public') => d = Mine \/ job \in astray]_vars

\* Each job's browsing comes to an end.
BrowsingEnds == [](pc = "attach" => <>(pc = "idle"))
=============================================================================
