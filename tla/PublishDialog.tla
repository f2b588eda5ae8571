----------------------------- MODULE PublishDialog -----------------------------
(***************************************************************************)
(* The desktop half of publisher/ispring_cloud.py: iSpring's publish       *)
(* dialog, the project picker in it, and the wait for the upload.          *)
(*                                                                         *)
(* The picker is a web page in a pane.  It has a row for every project and,*)
(* under a project whose branch is open, one for every folder; only the    *)
(* rows that are drawn can be found, and a row can be found while the page *)
(* is still loading the others.  The worker knows in which project         *)
(* the institution's folder is; it opens that branch with a click that     *)
(* reports nothing, and sweeps the page for the folder.  The other project *)
(* may have a folder of the same name.                                     *)
(*                                                                         *)
(* The same deck is published again when its job is tried again.           *)
(***************************************************************************)
EXTENDS Integers, Sequences, FiniteSets

CONSTANTS Branch,      \* the project rows
          Order,       \* their order on the page, a sequence
          Length,      \* [Branch -> how many folders it has]
          Placements,  \* where the folder may lie: [Branch -> its place, 0 for none]
          Holder,      \* the project that the library named
          Exact,       \* the branches whose label is its name: one, or none
          Near,        \* those whose label contains it, the shortest label first
          NoBranch,    \* none of them
          Screen,      \* the rows that are drawn at once
          StepRows,    \* the rows that one step of a sweep moves the page by
          SweepSteps,  \* SWEEP_STEPS
          SweepPasses, \* SWEEP_PASSES
          Rounds,      \* the sweeps there is time for in PICKER_SEARCH_S
          Jobs,        \* how often the deck is published, the retries included
          FaultSets    \* the sets of faults that may happen together

\* "missed_click": a click lands beside the chevron;
\* "slow_fill":    an opened branch shows its folders later than the worker looks;
\* "slow_tree":    the projects are listed one after the other;
\* "open_before":  the picker comes up with branches open;
\* "lost_click":   a click on the folder's row reaches another window;
\* "no_wheel":     the page may refuse to be scrolled;
\* "flat":         no row tells which project it is under.
AllFaults == {"missed_click", "slow_fill", "slow_tree", "open_before", "lost_click",
              "no_wheel", "flat"}

ASSUME PickerAssumption ==
  /\ NoBranch \notin Branch
  /\ Order \in Seq(Branch) /\ \A b \in Branch : \E i \in DOMAIN Order : Order[i] = b
  /\ \A i, j \in DOMAIN Order : Order[i] = Order[j] => i = j
  /\ Length \in [Branch -> Nat]
  /\ Placements \subseteq [Branch -> Nat]
  /\ \A p \in Placements : \A b \in Branch : p[b] <= Length[b]
  /\ Holder \in Branch
  /\ Exact \subseteq Branch /\ \A a, b \in Exact : a = b
  /\ Near \in Seq(Branch)
  /\ Screen \in Nat \ {0} /\ StepRows \in Nat \ {0}
  /\ SweepSteps \in Nat \ {0} /\ SweepPasses \in Nat \ {0}
  /\ Rounds \in Nat \ {0} /\ Jobs \in Nat \ {0}
  /\ FaultSets \subseteq SUBSET AllFaults

VARIABLES
  faults,   \* what may go wrong in this behaviour
  place,    \* where the institution's folder lies in each project
  \* the picker's page
  listed,   \* the projects that have a row
  open,     \* those whose branch is open
  filled,   \* those whose folders have been loaded
  view,     \* the first row that is drawn
  \* the worker
  pc,       \* where it is
  resolved, \* what resolve_parent returned
  before,   \* the rows in the tree before the branch was clicked
  clicks,   \* how often it was clicked
  grown,    \* expand_branch's verdict: the tree grew
  round,    \* the sweep
  steps,    \* how many of its wheel steps are done
  match,    \* the project whose folder's row is to be clicked
  chosen,   \* the project of the folder that is selected; NoBranch is what the
            \* dialog came filled in with
  \* iSpring and its cloud
  upload,   \* how far iSpring is: "no", "asks" to replace, "sends", "sent"
  decks,    \* the decks of this name, by project; NoBranch is anywhere else
  job,      \* which publish of the deck this is
  onPage    \* the folder of the project clicked was on the page when the sweep began

pageVars == <<listed, open, filled, view>>
findVars == <<resolved, before, clicks, grown, round, steps, match, chosen, onPage>>
cloudVars == <<upload, decks>>
fixedVars == <<faults, place>>
vars == <<fixedVars, pageVars, pc, findVars, cloudVars, job>>

PC == {"dialog", "destination", "name", "browse", "resolve", "expand", "look", "sweep",
       "again", "click", "select", "publish", "wait", "close", "uploaded", "missing",
       "failed"}

TypeOK ==
  /\ faults \subseteq AllFaults
  /\ place \in [Branch -> Nat]
  /\ listed \subseteq Branch /\ open \subseteq Branch /\ filled \subseteq Branch
  /\ view \in Int
  /\ pc \in PC
  /\ resolved \in Branch \cup {NoBranch}
  /\ before \in Int
  /\ clicks \in 0..2
  /\ grown \in BOOLEAN
  /\ round \in 1..Rounds
  /\ steps \in 0..SweepPasses * SweepSteps
  /\ match \in Branch \cup {NoBranch}
  /\ chosen \in Branch \cup {NoBranch}
  /\ upload \in {"no", "asks", "sends", "sent"}
  /\ decks \in [Branch \cup {NoBranch} -> Nat]
  /\ job \in 1..Jobs
  /\ onPage \in BOOLEAN

-----------------------------------------------------------------------------
(* The page *)

Lower(a, b) == IF a < b THEN a ELSE b
Higher(a, b) == IF a < b THEN b ELSE a

Unfolded == open \cap filled

\* The rows of a branch, when these branches are unfolded: its own is 0, the others are its
\* folders'.
RowsOf(b, shown) ==
  {k \in 0..Length[b] : b \in listed /\ (k = 0 \/ b \in shown)}

\* The rows of the first n branches.
Rows(n, shown) == UNION {{i} \X RowsOf(Order[i], shown) : i \in 1..n}

RowsUpTo(n, shown) == Cardinality(Rows(n, shown))

PageRows(shown) == RowsUpTo(Len(Order), shown)

Position(b) == CHOOSE i \in DOMAIN Order : Order[i] = b

RowOf(b) == RowsUpTo(Position(b) - 1, Unfolded) + 1

\* As far down as the page goes.
Bottom(shown) == Higher(1, PageRows(shown) - Screen + 1)

Drawn(row) == view <= row /\ row < view + Screen

LabelsSeen == {b \in listed : Drawn(RowOf(b))}

HasFolderRow(b) == b \in listed \cap Unfolded /\ place[b] # 0

\* find_named(picker, institution)
FoldersSeen == {b \in Branch : HasFolderRow(b) /\ Drawn(RowOf(b) + place[b])}

\* len(picker.descendants())
RowsSeen == Lower(Screen, PageRows(Unfolded) - view + 1)

\* Opening a branch leaves the page at the bottom of it; closing one leaves it where it
\* still is a page.
Unfold(b) ==
  view' = Higher(1, RowsUpTo(Position(b), Unfolded \cup {b}) - Screen + 1)

Toggle(b) ==
  IF b \in open
    THEN /\ open' = open \ {b}
         /\ view' = Lower(view, Bottom(Unfolded \ {b}))
         /\ UNCHANGED <<listed, filled>>
    ELSE /\ open' = open \cup {b}
         /\ \/ filled' = filled \cup {b} /\ Unfold(b)
            \/ "slow_fill" \in faults /\ UNCHANGED <<filled, view>>
         /\ UNCHANGED listed

\* A picker that has just come up.
FreshPage ==
  /\ listed' \in IF "slow_tree" \in faults THEN SUBSET Branch ELSE {Branch}
  /\ open' \in IF "open_before" \in faults THEN SUBSET Branch ELSE {{}}
  /\ filled' = open'
  /\ view' = 1

\* What the page does while the worker looks at it.
Picking == pc \in {"resolve", "expand", "look", "sweep", "again", "click"}

PageLists ==
  /\ Picking
  /\ \E b \in Branch \ listed : listed' = listed \cup {b}
  /\ UNCHANGED <<fixedVars, open, filled, view, pc, findVars, cloudVars, job>>

PageFills ==
  /\ Picking
  /\ \E b \in open \ filled : filled' = filled \cup {b} /\ Unfold(b)
  /\ UNCHANGED <<fixedVars, listed, open, pc, findVars, cloudVars, job>>

Init ==
  /\ faults \in FaultSets
  /\ place \in Placements
  /\ listed = {} /\ open = {} /\ filled = {} /\ view = 1
  /\ pc = "dialog"
  /\ resolved = NoBranch /\ before = 0 /\ clicks = 0 /\ grown = FALSE
  /\ round = 1 /\ steps = 0 /\ match = NoBranch /\ chosen = NoBranch
  /\ upload = "no"
  /\ decks = [b \in Branch \cup {NoBranch} |-> 0]
  /\ job = 1
  /\ onPage = FALSE

-----------------------------------------------------------------------------
(* The dialog, up to the picker *)

Fails == pc' = "failed" /\ UNCHANGED <<fixedVars, pageVars, findVars, cloudVars, job>>

Goto(label) == pc' = label /\ UNCHANGED <<fixedVars, pageVars, findVars, cloudVars, job>>

OpenPublishDialog == pc = "dialog" /\ (Goto("destination") \/ Fails)

\* The unnamed buttons are pressed until the header says "cloud".
ChooseCloudDestination == pc = "destination" /\ (Goto("name") \/ Fails)

NameContent == pc = "name" /\ (Goto("browse") \/ Fails)

Browse ==
  /\ pc = "browse"
  /\ \/ /\ pc' = "resolve"
        /\ FreshPage
        /\ UNCHANGED <<fixedVars, findVars, cloudVars, job>>
     \/ Fails

-----------------------------------------------------------------------------
(* pick_project *)

\* Mutant: the first row that contains the name.
ResolvedNear ==
  LET seen == SelectSeq(Order, LAMBDA b : b \in LabelsSeen /\ \E i \in DOMAIN Near : Near[i] = b)
  IN  IF seen # <<>> THEN Head(seen) ELSE NoBranch

\* resolve_parent: the row of that name or, failing that, the shortest containing it.
Resolved ==
  LET near == {i \in DOMAIN Near : Near[i] \in LabelsSeen}
  IN  CASE LabelsSeen \cap Exact # {} -> CHOOSE b \in LabelsSeen \cap Exact : TRUE
        [] LabelsSeen \cap Exact = {} /\ near # {} ->
             Near[CHOOSE i \in near : \A j \in near : i <= j]
        [] OTHER -> NoBranch

ResolveParent ==
  /\ pc = "resolve"
  /\ resolved' = Resolved
  /\ pc' = "expand"
  /\ UNCHANGED <<fixedVars, pageVars, before, clicks, grown, round, steps, match, chosen,
                 onPage, cloudVars, job>>

\* The branches that answer to the parent's name, as resolved or as configured.
Parents == IF resolved # NoBranch THEN {resolved} ELSE Exact

StartSweep ==
  /\ pc' = "sweep" /\ steps' = 0
  /\ onPage' = \E b \in Parents : HasFolderRow(b)

\* expand_branch, when the label is not in the tree.
NotInTree ==
  /\ pc = "expand" /\ clicks = 0
  /\ Parents \cap LabelsSeen = {}
  /\ StartSweep
  /\ UNCHANGED <<fixedVars, pageVars, resolved, before, clicks, grown, round, match, chosen,
                 cloudVars, job>>

\* The chevron, and if the tree did not grow a double click, which some builds ignore.
ClickBranch ==
  /\ pc = "expand" /\ clicks < 2
  /\ clicks = 0 => Parents \cap LabelsSeen # {}
  /\ before' = IF clicks = 0 THEN RowsSeen ELSE before
  /\ clicks' = clicks + 1
  /\ pc' = "look"
  /\ \/ \E b \in Parents : Toggle(b)
     \/ /\ clicks = 0 => "missed_click" \in faults
        /\ UNCHANGED pageVars
  /\ UNCHANGED <<fixedVars, resolved, grown, round, steps, match, chosen, onPage,
                 cloudVars, job>>

\* Mutant: a tree of the same size counts as grown.
BranchGrewOrStayed == RowsSeen >= before

BranchGrew == RowsSeen > before

LookAtBranch ==
  /\ pc = "look"
  /\ grown' = BranchGrew
  /\ IF grown' \/ clicks = 2
       THEN StartSweep
       ELSE pc' = "expand" /\ UNCHANGED <<steps, onPage>>
  /\ UNCHANGED <<fixedVars, pageVars, resolved, before, clicks, round, match, chosen,
                 cloudVars, job>>

\* The rows whose ancestors, if they can be read, name the parent.
UnderParent == IF "flat" \in faults THEN {} ELSE FoldersSeen \cap Parents

\* choose_match: the rows under the parent, or all of them when none is known to be.
ChooseMatch == IF UnderParent # {} THEN UnderParent ELSE FoldersSeen

FindFolder ==
  /\ pc = "sweep"
  /\ ChooseMatch # {}
  /\ match' = CHOOSE b \in ChooseMatch :
                \A other \in ChooseMatch : Position(b) <= Position(other)
  /\ pc' = "click"
  /\ UNCHANGED <<fixedVars, pageVars, resolved, before, clicks, grown, round, steps, chosen,
                 onPage, cloudVars, job>>

\* Mutant: the page is only ever scrolled down.
NeverGoesUp(step) == FALSE

\* Odd passes go up, even ones come back down.
GoesUp(step) == ((step \div SweepSteps) % 2) = 0

\* sweep_for, one step of the wheel.
WheelStep ==
  /\ pc = "sweep"
  /\ ChooseMatch = {}
  /\ steps < SweepPasses * SweepSteps
  /\ steps' = steps + 1
  /\ view' = IF GoesUp(steps) THEN Higher(1, view - StepRows)
                              ELSE Lower(Bottom(Unfolded), view + StepRows)
  /\ UNCHANGED <<fixedVars, listed, open, filled, pc, resolved, before, clicks, grown, round,
                 match, chosen, onPage, cloudVars, job>>

\* The passes are over, or the page cannot be scrolled.
EndSweep ==
  /\ pc = "sweep"
  /\ ChooseMatch = {}
  /\ steps = SweepPasses * SweepSteps \/ "no_wheel" \in faults
  /\ Goto("again")

TimeLeft == round < Rounds

\* The search goes on until PICKER_SEARCH_S is over.
SweepAgain ==
  /\ pc = "again"
  /\ \/ /\ TimeLeft
        /\ round' = round + 1
        /\ StartSweep
     \/ pc' = "missing" /\ UNCHANGED <<round, steps, onPage>>
  /\ UNCHANGED <<fixedVars, pageVars, resolved, before, clicks, grown, match, chosen,
                 cloudVars, job>>

\* scroll_into_view and the click.  Nothing tells whether the row took it.
ClickFolder ==
  /\ pc = "click"
  /\ \/ /\ pc' = "select"
        /\ \/ chosen' = match
           \/ "lost_click" \in faults /\ UNCHANGED chosen
        /\ UNCHANGED <<fixedVars, pageVars, resolved, before, clicks, grown, round, steps,
                       match, onPage, cloudVars, job>>
     \/ Fails

SelectProject == pc = "select" /\ (Goto("publish") \/ Fails)

-----------------------------------------------------------------------------
(* Publish, and wait *)

PressPublish ==
  /\ pc = "publish"
  /\ \/ /\ pc' = "wait"
        /\ upload' = IF decks[chosen] > 0 THEN "asks" ELSE "sends"
        /\ UNCHANGED <<fixedVars, pageVars, findVars, decks, job>>
     \/ Fails

\* iSpring has sent the deck.  It may still do so after the worker has given up.
CloudTakes ==
  /\ upload = "sends"
  /\ upload' = "sent"
  /\ decks' = [decks EXCEPT ![chosen] = Higher(1, @)]
  /\ UNCHANGED <<fixedVars, pageVars, pc, findVars, job>>

\* Mutant: the prompt is answered with "Keep both".
ConfirmOverwriteKeeps ==
  /\ pc = "wait" /\ upload = "asks"
  /\ upload' = "sent"
  /\ decks' = [decks EXCEPT ![chosen] = @ + 1]
  /\ UNCHANGED <<fixedVars, pageVars, pc, findVars, job>>

\* confirm_overwrite presses the button that replaces.
ConfirmOverwrite ==
  /\ pc = "wait" /\ upload = "asks"
  /\ upload' = "sends"
  /\ UNCHANGED <<fixedVars, pageVars, pc, findVars, decks, job>>

\* Mutant: any finish window will do, the one that says "Uploading" included.
CompleteEarly == pc = "wait" /\ upload # "asks" /\ Goto("close")

\* "Publishing is complete!"
Complete == pc = "wait" /\ upload = "sent" /\ Goto("close")

\* Mutant: the wait has no limit.
NeverTimesOut == FALSE

TimesOut == pc = "wait" /\ upload # "sent" /\ Fails

\* close_ispring_windows is not guarded here.
CloseWindows == pc = "close" /\ (Goto("uploaded") \/ Fails)

\* The job's row is handed out again; its PowerPoint and whatever that was still sending
\* are gone.
PublishAgain ==
  /\ pc \in {"uploaded", "missing", "failed"}
  /\ job < Jobs
  /\ job' = job + 1
  /\ listed' = {} /\ open' = {} /\ filled' = {} /\ view' = 1
  /\ pc' = "dialog"
  /\ resolved' = NoBranch /\ before' = 0 /\ clicks' = 0 /\ grown' = FALSE
  /\ round' = 1 /\ steps' = 0 /\ match' = NoBranch /\ chosen' = NoBranch /\ onPage' = FALSE
  /\ upload' = "no"
  /\ UNCHANGED <<fixedVars, decks>>

WorkerStep ==
  \/ OpenPublishDialog \/ ChooseCloudDestination \/ NameContent \/ Browse
  \/ ResolveParent \/ NotInTree \/ ClickBranch \/ LookAtBranch
  \/ FindFolder \/ WheelStep \/ EndSweep \/ SweepAgain \/ ClickFolder \/ SelectProject
  \/ PressPublish \/ ConfirmOverwrite \/ Complete \/ TimesOut \/ CloseWindows

Next == WorkerStep \/ PublishAgain \/ PageLists \/ PageFills \/ CloudTakes

Spec == Init /\ [][Next]_vars

\* Every wait of the worker has a limit.  iSpring and its page promise nothing.
FairSpec == Spec /\ WF_vars(WorkerStep)

-----------------------------------------------------------------------------
(* What must hold *)

\* The picker comes up whole and shut, and a click on a row reaches it.  Then only the
\* parent's branch is ever opened, and rows that do not tell their project do no harm.
Orderly == faults \subseteq {"missed_click", "slow_fill", "flat"}

Publishing == pc \in {"publish", "wait", "close"}

\* An orderly picker sends the deck where the library said the folder is, though the other
\* project has a folder of the same name (resolve_parent and choose_match).
PublishesUnderHolder == Publishing /\ Orderly => chosen = Holder

\* "Success is judged by the tree growing" (ispring_cloud.py:867): in an orderly picker a
\* branch that is reported as expanded is open, whichever clicks missed or came late.
ExpandedIsOpen == grown /\ Orderly => Parents \subseteq open

\* "50 steps of 5 notches is about 750 lines, more than the longest branch"
\* (ispring_cloud.py:148): a sweep that began with the folder on the page does not end
\* without it.
SweepSees == pc = "again" /\ Orderly => ~onPage

\* "A retried queue row is published under the same job_id ... not a second presentation
\* with a new name" (ispring_cloud.py:71): however often the job is tried, and whichever
\* of the tries got through, a folder has at most one deck of its name; and where the
\* picker is orderly, so has the cloud.
NoSecondDeck ==
  /\ \A b \in DOMAIN decks : decks[b] <= 1
  /\ Orderly => \A a, b \in DOMAIN decks : decks[a] > 0 /\ decks[b] > 0 => a = b

\* The dialog as the loop around it sees it.
Contract == INSTANCE DialogContract WITH
  phase   <- CASE pc \in {"uploaded", "missing", "failed"} -> pc
               [] pc \in {"wait", "close"} -> "send"
               [] OTHER -> "pick",
  arrived <- upload = "sent" /\ decks[chosen] > 0

\* "A missing folder raises ProjectMissingError rather than the general publishing error"
\* (ispring_cloud.py:1049), and run_cloud_job calls again: only that error is sure to have
\* sent nothing, and only a dialog that ended well is sure of the deck, while iSpring goes on
\* by itself.
KeepsDialogContract == Contract!Spec

\* The dialog comes to an end: uploaded, missing or failed.
DialogEnds == (pc = "dialog") ~> (pc \in {"uploaded", "missing", "failed"})
=============================================================================
