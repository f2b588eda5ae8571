-------------------------- MODULE PublishDialog_proofs --------------------------
(***************************************************************************)
(* What holds of PublishDialog for any projects, any folders in them, any  *)
(* screen and any sweep, however often the deck is published.              *)
(***************************************************************************)
EXTENDS PublishDialog, FiniteSetTheorems, TLAPS

USE DEF fixedVars, pageVars, findVars, cloudVars, vars

-----------------------------------------------------------------------------
(* Order *)

\* Every set of numbers that is not empty has a least one.
LEMMA Least ==
  ASSUME NEW S \in SUBSET Nat, S # {}
  PROVE  \E i \in S : \A j \in S : i <= j
<1> DEFINE R == OpToRel(<, Nat)
<1>1. IsWellFoundedOn(R, Nat) BY NatLessThanWellFounded, Zenon DEF OpToRel
<1>2. \A i, j \in Nat : <<i, j>> \in R <=> i < j BY DEF OpToRel
<1> HIDE DEF R
<1>3. \E i \in S : \A j \in S : ~ (<<j, i>> \in R)
  BY <1>1, WFMin, Zenon
<1>4. PICK i \in S : \A j \in S : ~ (<<j, i>> \in R) BY <1>3
<1>5. i \in Nat /\ \A j \in S : ~ (j < i) BY <1>2, <1>4
<1> QED BY <1>4, <1>5

\* Each project has one row of its own, at its place in the order.
LEMMA PositionFacts ==
  /\ Len(Order) \in Nat /\ DOMAIN Order = 1..Len(Order)
  /\ \A b \in Branch : Position(b) \in 1..Len(Order) /\ Order[Position(b)] = b
  /\ \A i \in 1..Len(Order) : Order[i] \in Branch /\ Position(Order[i]) = i
<1>1. Order \in Seq(Branch) /\ Len(Order) \in Nat /\ DOMAIN Order = 1..Len(Order)
  BY PickerAssumption DEF PickerAssumption
<1>2. \A b \in Branch : Position(b) \in 1..Len(Order) /\ Order[Position(b)] = b
  BY <1>1, PickerAssumption DEF PickerAssumption, Position
<1>3. \A i \in 1..Len(Order) : Order[i] \in Branch BY <1>1
<1>4. \A i \in 1..Len(Order) : Position(Order[i]) = i
  BY <1>1, <1>2, <1>3, PickerAssumption DEF PickerAssumption
<1> QED BY <1>1, <1>2, <1>3, <1>4

-----------------------------------------------------------------------------
(* Counting rows *)

LEMMA Intervals ==
  \A m \in Nat : /\ IsFiniteSet(0..m) /\ IsFiniteSet(1..m)
                 /\ Cardinality(1..m) = m
<1> TAKE m \in Nat
<1> QED BY FS_Interval

LEMMA Singletons == \A x : IsFiniteSet({x}) /\ Cardinality({x}) = 1
BY FS_Singleton

\* There are finitely many rows, whatever is listed and unfolded.
LEMMA RowsFinite ==
  ASSUME NEW n \in 0..Len(Order), NEW shown
  PROVE  IsFiniteSet(Rows(n, shown)) /\ RowsUpTo(n, shown) \in Nat
<1> DEFINE Of(i) == {i} \X RowsOf(Order[i], shown)
           f == [i \in 1..n |-> Of(i)]
           T == {Of(i) : i \in 1..n}
<1>1. IsFiniteSet(1..n) BY FS_Interval, PositionFacts
<1>2. f \in Surjection(1..n, T) BY DEF Surjection
<1>3. IsFiniteSet(T)
  <2> HIDE DEF f, T
  <2> QED BY <1>1, <1>2, FS_Surjection
<1>4. \A i \in 1..n : IsFiniteSet(Of(i))
  <2> TAKE i \in 1..n
  <2>1. Length[Order[i]] \in Nat BY PositionFacts, PickerAssumption DEF PickerAssumption
  <2>2. IsFiniteSet(0..Length[Order[i]]) BY <2>1, Intervals
  <2>3. IsFiniteSet(RowsOf(Order[i], shown))
    <3>1. RowsOf(Order[i], shown) \in SUBSET (0..Length[Order[i]]) BY DEF RowsOf
    <3> QED BY <2>2, <3>1, FS_Subset
  <2> QED BY <2>3, FS_Singleton, FS_Product
<1>5. IsFiniteSet(UNION T)
  <2>1. \A S \in T : IsFiniteSet(S) BY <1>4
  <2> HIDE DEF T
  <2> QED BY <1>3, <2>1, FS_UNION
<1>6. Rows(n, shown) = UNION T BY DEF Rows
<1> QED BY <1>5, <1>6, FS_CardinalityType DEF RowsUpTo

\* With every project listed and no branch unfolded, a page is its projects.
LEMMA ShutRows ==
  ASSUME listed = Branch, NEW n \in 0..Len(Order)
  PROVE  RowsUpTo(n, {}) = n
<1>1. \A i \in 1..n : Order[i] \in Branch /\ Length[Order[i]] \in Nat
  BY PositionFacts, PickerAssumption DEF PickerAssumption
<1>2. \A i \in 1..n : RowsOf(Order[i], {}) = {0}
  BY <1>1 DEF RowsOf
<1>3. Rows(n, {}) = (1..n) \X {0}
  <2>1. Rows(n, {}) = UNION {{i} \X {0} : i \in 1..n} BY <1>2 DEF Rows
  <2>2. \A x : x \in UNION {{i} \X {0} : i \in 1..n} <=> \E i \in 1..n : x \in {i} \X {0}
    OBVIOUS
  <2>3. \A x : x \in (1..n) \X {0} <=> \E i \in 1..n : x \in {i} \X {0}
    OBVIOUS
  <2> QED BY <2>1, <2>2, <2>3
<1>4. IsFiniteSet(1..n) /\ Cardinality(1..n) = n BY FS_Interval, PositionFacts
<1>5. IsFiniteSet({0}) /\ Cardinality({0}) = 1 BY FS_Singleton
<1>6. Cardinality((1..n) \X {0}) = n * 1
  <2> DEFINE S == 1..n
             T == {0}
  <2>1. IsFiniteSet(S) /\ IsFiniteSet(T) /\ Cardinality(S) = n /\ Cardinality(T) = 1
    BY <1>4, <1>5
  <2> HIDE DEF S, T
  <2>2. Cardinality(S \X T) = n * 1 BY <2>1, FS_Product
  <2> QED BY <2>2 DEF S, T
<1>7. n * 1 = n BY PositionFacts
<1> QED BY <1>3, <1>6, <1>7 DEF RowsUpTo

\* With one branch unfolded, its folders come after it.
LEMMA UnfoldedRows ==
  ASSUME listed = Branch, NEW n \in 0..Len(Order), NEW b \in Branch
  PROVE  RowsUpTo(n, {b}) = n + (IF Position(b) <= n THEN Length[b] ELSE 0)
<1> DEFINE p == Position(b)
           own == (1..n) \X {0}
           folders == IF p <= n THEN {p} \X (1..Length[b]) ELSE {}
<1>n. n \in Nat /\ \A i \in 1..n : i \in 1..Len(Order) BY PositionFacts
<1>p. p \in Nat /\ p >= 1 /\ Length[b] \in Nat
  BY PositionFacts, PickerAssumption DEF PickerAssumption
<1>1. \A i \in 1..n : /\ Order[i] \in Branch /\ Length[Order[i]] \in Nat
                      /\ Order[i] = b <=> i = p
  BY <1>n, PositionFacts, PickerAssumption DEF PickerAssumption
<1>2. \A i \in 1..n : RowsOf(Order[i], {b}) = {0} \cup (IF i = p THEN 1..Length[b] ELSE {})
  BY <1>1, <1>p DEF RowsOf
<1>3. Rows(n, {b}) = own \cup folders
  <2> DEFINE these(i) == {0} \cup (IF i = p THEN 1..Length[b] ELSE {})
  <2>1. Rows(n, {b}) = UNION {{i} \X these(i) : i \in 1..n} BY <1>2 DEF Rows
  <2>2. \A x : x \in UNION {{i} \X these(i) : i \in 1..n}
                <=> \E i \in 1..n : x \in {i} \X these(i)
    OBVIOUS
  <2>3. \A x : x \in own \cup folders <=> \E i \in 1..n : x \in {i} \X these(i)
    <3>1. \A x : x \in own <=> \E i \in 1..n : x \in {i} \X {0} OBVIOUS
    <3>2. \A x : x \in folders <=> \E i \in 1..n : i = p /\ x \in {i} \X (1..Length[b])
      BY <1>n, <1>p
    <3>3. \A x, i : x \in {i} \X these(i) <=>
                     \/ x \in {i} \X {0}
                     \/ i = p /\ x \in {i} \X (1..Length[b])
      OBVIOUS
    <3> HIDE DEF own, folders, these
    <3> QED BY <3>1, <3>2, <3>3
  <2> HIDE DEF own, folders, these
  <2> QED BY <2>1, <2>2, <2>3
<1>4. own \cap folders = {} OBVIOUS
<1>5. IsFiniteSet(own) /\ Cardinality(own) = n
  <2>1. IsFiniteSet(1..n) /\ Cardinality(1..n) = n BY <1>n, FS_Interval
  <2>2. IsFiniteSet({0}) /\ Cardinality({0}) = 1 BY FS_Singleton
  <2> DEFINE S == 1..n
             T == {0}
  <2>3. IsFiniteSet(S) /\ IsFiniteSet(T) /\ Cardinality(S) = n /\ Cardinality(T) = 1
    BY <2>1, <2>2
  <2> HIDE DEF S, T
  <2>4. IsFiniteSet(S \X T) /\ Cardinality(S \X T) = n * 1 BY <2>3, FS_Product
  <2>5. n * 1 = n BY <1>n
  <2>6. IsFiniteSet(S \X T) /\ Cardinality(S \X T) = n BY <2>4, <2>5
  <2> QED BY <2>6 DEF S, T
<1>6. IsFiniteSet(folders) /\ Cardinality(folders) = IF p <= n THEN Length[b] ELSE 0
  <2>1. IsFiniteSet(1..Length[b]) /\ Cardinality(1..Length[b]) = Length[b]
    BY <1>p, Intervals
  <2>2. IsFiniteSet({p}) /\ Cardinality({p}) = 1 BY Singletons
  <2>3. IsFiniteSet({p} \X (1..Length[b])) /\ Cardinality({p} \X (1..Length[b])) = 1 * Length[b]
    <3> DEFINE P == {p}
               K == 1..Length[b]
    <3> HIDE DEF P, K
    <3>1. /\ IsFiniteSet(P) /\ Cardinality(P) = 1
          /\ IsFiniteSet(K) /\ Cardinality(K) = Length[b]
      BY <2>1, <2>2 DEF P, K
    <3>2. IsFiniteSet(P \X K) /\ Cardinality(P \X K) = 1 * Length[b]
      BY <3>1, FS_Product
    <3> QED BY <3>2 DEF P, K
  <2>4. IsFiniteSet({}) /\ Cardinality({}) = 0 BY FS_EmptySet
  <2> QED BY <1>p, <2>3, <2>4
<1>7. Cardinality(own \cup folders) = Cardinality(own) + Cardinality(folders) - Cardinality({})
  <2> HIDE DEF own, folders
  <2> QED BY <1>4, <1>5, <1>6, FS_Union
<1>8. Cardinality({}) = 0 BY FS_EmptySet
<1>9. RowsUpTo(n, {b}) = Cardinality(own \cup folders) BY <1>3 DEF RowsUpTo
<1> HIDE DEF own, folders
<1> QED BY <1>5, <1>6, <1>7, <1>8, <1>9, <1>n, <1>p

-----------------------------------------------------------------------------
(* Types *)

LEMMA ConstantFacts ==
  /\ Screen \in Nat /\ Screen > 0 /\ StepRows \in Nat /\ StepRows > 0
  /\ SweepSteps \in Nat /\ SweepSteps > 0 /\ SweepPasses \in Nat /\ SweepPasses > 0
  /\ SweepPasses * SweepSteps \in Nat
  /\ Rounds \in Nat /\ Rounds > 0 /\ Jobs \in Nat /\ Jobs > 0
  /\ NoBranch \notin Branch /\ Exact \subseteq Branch /\ Holder \in Branch
  /\ \A a, b \in Exact : a = b
  /\ \A p \in Placements : /\ p \in [Branch -> Nat]
                           /\ \A b \in Branch : p[b] <= Length[b]
  /\ Length \in [Branch -> Nat]
  /\ FaultSets \subseteq SUBSET AllFaults
BY PickerAssumption DEF PickerAssumption

\* Whatever is drawn, the parent that is resolved is a project of the page, or none.
LEMMA ResolvedType == Resolved \in Branch \cup {NoBranch}
<1> DEFINE near == {i \in DOMAIN Near : Near[i] \in LabelsSeen}
           least == CHOOSE i \in near : \A j \in near : i <= j
<1>1. Exact \subseteq Branch BY ConstantFacts
<1>2. CASE LabelsSeen \cap Exact # {}
  <2>1. Resolved = CHOOSE b \in LabelsSeen \cap Exact : TRUE BY <1>2 DEF Resolved
  <2> QED BY <1>1, <1>2, <2>1
<1>3. CASE LabelsSeen \cap Exact = {} /\ near # {}
  <2>1. Near \in Seq(Branch) BY PickerAssumption DEF PickerAssumption
  <2>2. near \in SUBSET Nat BY <2>1
  <2>3. \E i \in near : \A j \in near : i <= j
    <3> HIDE DEF near
    <3> QED BY <1>3, <2>2, Least
  <2>4. least \in near BY <2>3
  <2>5. Near[least] \in Branch BY <2>1, <2>4
  <2>6. Resolved = Near[least] BY <1>3 DEF Resolved
  <2> QED BY <2>5, <2>6
<1>4. CASE LabelsSeen \cap Exact = {} /\ near = {}
  BY <1>4 DEF Resolved
<1> QED BY <1>2, <1>3, <1>4

\* A folder that is clicked is one that is seen.
LEMMA MatchSeen ==
  ASSUME FindFolder
  PROVE  match' \in ChooseMatch /\ match' \in FoldersSeen /\ match' \in Branch
<1> DEFINE places == {Position(b) : b \in ChooseMatch}
<1>1. ChooseMatch \subseteq FoldersSeen /\ FoldersSeen \subseteq Branch
  BY DEF ChooseMatch, UnderParent, FoldersSeen
<1>2. ChooseMatch # {} BY DEF FindFolder
<1>3. places \in SUBSET Nat /\ places # {} BY <1>1, <1>2, PositionFacts
<1>4. PICK i \in places : \A j \in places : i <= j
  <2> HIDE DEF places
  <2> QED BY <1>3, Least
<1>5. \E b \in ChooseMatch : \A other \in ChooseMatch : Position(b) <= Position(other)
  BY <1>4
<1>6. match' = CHOOSE b \in ChooseMatch :
                 \A other \in ChooseMatch : Position(b) <= Position(other)
  BY DEF FindFolder
<1>7. match' \in ChooseMatch BY <1>5, <1>6
<1> QED BY <1>1, <1>7

\* Every count of rows is a number.
LEMMA RowCounts ==
  /\ \A shown : PageRows(shown) \in Nat
  /\ \A b \in Branch : \A shown : RowsUpTo(Position(b), shown) \in Nat
  /\ view \in Int => RowsSeen \in Int
  /\ \A shown : Bottom(shown) \in Int /\ Bottom(shown) >= 1
<1>1. \A n \in 0..Len(Order) : \A shown : RowsUpTo(n, shown) \in Nat BY RowsFinite
<1>2. \A shown : PageRows(shown) \in Nat BY <1>1, PositionFacts DEF PageRows
<1>3. \A b \in Branch : \A shown : RowsUpTo(Position(b), shown) \in Nat
  BY <1>1, PositionFacts
<1>4. view \in Int => RowsSeen \in Int BY <1>2, ConstantFacts DEF RowsSeen, Lower
<1>5. \A shown : Bottom(shown) \in Int /\ Bottom(shown) >= 1
  BY <1>2, ConstantFacts DEF Bottom, Higher
<1> QED BY <1>2, <1>3, <1>4, <1>5

\* A sweep begins with no step done.
LEMMA SweepType ==
  ASSUME StartSweep
  PROVE  pc' = "sweep" /\ steps' = 0 /\ 0 \in 0..SweepPasses * SweepSteps /\ onPage' \in BOOLEAN
<1>1. 0 \in 0..SweepPasses * SweepSteps BY ConstantFacts
<1>2. onPage' \in BOOLEAN BY Zenon DEF StartSweep
<1> QED BY <1>1, <1>2 DEF StartSweep

LEMMA TypeInit == Init => TypeOK
<1> SUFFICES ASSUME Init PROVE TypeOK OBVIOUS
<1>1. place \in [Branch -> Nat] /\ faults \subseteq AllFaults BY ConstantFacts DEF Init
<1>2. decks \in [Branch \cup {NoBranch} -> Nat] BY DEF Init
<1>3. round \in 1..Rounds /\ job \in 1..Jobs /\ steps \in 0..SweepPasses * SweepSteps
  BY ConstantFacts DEF Init
<1>4. view \in Int /\ before \in Int /\ clicks \in 0..2 BY DEF Init
<1> QED BY <1>1, <1>2, <1>3, <1>4 DEF Init, TypeOK, PC

LEMMA ToggleType ==
  ASSUME TypeOK, NEW b \in Branch, Toggle(b)
  PROVE  /\ open' \subseteq Branch /\ filled' \subseteq Branch /\ listed' \subseteq Branch
         /\ view' \in Int
<1>1. CASE b \in open
  BY <1>1, RowCounts DEF Toggle, TypeOK, Lower
<1>2. CASE b \notin open
  BY <1>2, RowCounts, ConstantFacts DEF Toggle, Unfold, TypeOK, Higher
<1> QED BY <1>1, <1>2

LEMMA ParentsType == TypeOK => Parents \subseteq Branch
BY ConstantFacts DEF TypeOK, Parents

\* What the page does by itself.
LEMMA PageType ==
  ASSUME TypeOK, PageLists \/ PageFills PROVE TypeOK'
<1>1. CASE PageLists BY <1>1 DEF PageLists, TypeOK
<1>2. CASE PageFills
  <2>1. PICK b \in open \ filled : filled' = filled \cup {b} /\ Unfold(b)
    BY <1>2 DEF PageFills
  <2>2. b \in Branch BY DEF TypeOK
  <2>3. view' \in Int BY <2>1, <2>2, RowCounts, ConstantFacts DEF Unfold, Higher
  <2> QED BY <1>2, <2>1, <2>2, <2>3 DEF PageFills, TypeOK
<1> QED BY <1>1, <1>2

LEMMA TypeStep == TypeOK /\ [Next]_vars => TypeOK'
<1> SUFFICES ASSUME TypeOK, [Next]_vars PROVE TypeOK' OBVIOUS
<1>1. CASE OpenPublishDialog \/ ChooseCloudDestination \/ NameContent \/ EndSweep
           \/ SelectProject \/ Complete \/ TimesOut \/ CloseWindows
  BY <1>1 DEF OpenPublishDialog, ChooseCloudDestination, NameContent, EndSweep,
              SelectProject, Complete, TimesOut, CloseWindows, Goto, Fails, TypeOK, PC
<1>2. CASE Browse
  <2>1. CASE Fails BY <2>1 DEF Fails, TypeOK, PC
  <2>2. CASE pc' = "resolve" /\ FreshPage /\ UNCHANGED <<fixedVars, findVars, cloudVars, job>>
    BY <2>2 DEF FreshPage, TypeOK, PC
  <2> QED BY <1>2, <2>1, <2>2 DEF Browse
<1>3. CASE ResolveParent
  BY <1>3, ResolvedType DEF ResolveParent, TypeOK, PC
<1>4. CASE NotInTree
  BY <1>4, SweepType DEF NotInTree, TypeOK, PC
<1>5. CASE ClickBranch
  <2>1. clicks' \in 0..2 /\ before' \in Int
    BY <1>5, RowCounts DEF ClickBranch, TypeOK
  <2>2. /\ open' \subseteq Branch /\ filled' \subseteq Branch /\ listed' \subseteq Branch
        /\ view' \in Int
    <3>1. CASE \E b \in Parents : Toggle(b)
      BY <3>1, ParentsType, ToggleType
    <3>2. CASE UNCHANGED pageVars BY <3>2 DEF TypeOK
    <3> QED BY <1>5, <3>1, <3>2 DEF ClickBranch
  <2> QED BY <1>5, <2>1, <2>2 DEF ClickBranch, TypeOK, PC
<1>6. CASE LookAtBranch
  <2>1. grown' \in BOOLEAN BY <1>6 DEF LookAtBranch, BranchGrew
  <2>2. steps' \in 0..SweepPasses * SweepSteps /\ pc' \in PC /\ onPage' \in BOOLEAN
    <3>1. CASE StartSweep BY <3>1, SweepType DEF PC
    <3>2. CASE pc' = "expand" /\ UNCHANGED <<steps, onPage>> BY <3>2 DEF TypeOK, PC
    <3> QED BY <1>6, <3>1, <3>2 DEF LookAtBranch
  <2> QED BY <1>6, <2>1, <2>2 DEF LookAtBranch, TypeOK
<1>7. CASE FindFolder
  BY <1>7, MatchSeen DEF FindFolder, TypeOK, PC
<1>8. CASE WheelStep
  <2>1. view' \in Int BY <1>8, RowCounts, ConstantFacts DEF WheelStep, TypeOK, Higher, Lower
  <2>2. steps' \in 0..SweepPasses * SweepSteps BY <1>8, ConstantFacts DEF WheelStep, TypeOK
  <2> QED BY <1>8, <2>1, <2>2 DEF WheelStep, TypeOK
<1>9. CASE SweepAgain
  <2>1. CASE TimeLeft /\ round' = round + 1 /\ StartSweep
    <3>1. round' \in 1..Rounds BY <2>1, ConstantFacts DEF TimeLeft, TypeOK
    <3> QED BY <1>9, <2>1, <3>1, SweepType DEF SweepAgain, TypeOK, PC
  <2>2. CASE pc' = "missing" /\ UNCHANGED <<round, steps, onPage>>
    BY <1>9, <2>2 DEF SweepAgain, TypeOK, PC
  <2> QED BY <1>9, <2>1, <2>2 DEF SweepAgain
<1>10. CASE ClickFolder
  BY <1>10 DEF ClickFolder, Fails, TypeOK, PC
<1>11. CASE PressPublish \/ ConfirmOverwrite
  BY <1>11 DEF PressPublish, ConfirmOverwrite, Fails, TypeOK, PC
<1>12. CASE CloudTakes
  BY <1>12 DEF CloudTakes, Higher, TypeOK
<1>13. CASE PublishAgain
  <2>1. /\ job' \in 1..Jobs /\ round' \in 1..Rounds
        /\ steps' \in 0..SweepPasses * SweepSteps
        /\ view' \in Int /\ before' \in Int /\ clicks' \in 0..2
    BY <1>13, ConstantFacts DEF PublishAgain, TypeOK
  <2> QED BY <1>13, <2>1 DEF PublishAgain, TypeOK, PC
<1>14. CASE PageLists \/ PageFills
  BY <1>14, PageType
<1>15. CASE UNCHANGED vars
  BY <1>15 DEF TypeOK
<1> QED
  BY <1>1, <1>2, <1>3, <1>4, <1>5, <1>6, <1>7, <1>8, <1>9, <1>10, <1>11, <1>12, <1>13, <1>14,
     <1>15
  DEF Next, WorkerStep

\* Type correctness (the picker's page and the worker's place in publish_to_cloud).
THEOREM TypeCorrect == Spec => []TypeOK
BY TypeInit, TypeStep, PTL DEF Spec

-----------------------------------------------------------------------------
(* An orderly picker *)

\* The labels on the first screen of a picker that comes up whole and shut.
FirstLabels == {b \in Branch : Position(b) <= Screen}

\* What resolve_parent makes of them, and the parent that is then searched.
First ==
  LET near == {i \in DOMAIN Near : Near[i] \in FirstLabels}
  IN  CASE FirstLabels \cap Exact # {} -> CHOOSE b \in FirstLabels \cap Exact : TRUE
        [] FirstLabels \cap Exact = {} /\ near # {} ->
             Near[CHOOSE i \in near : \A j \in near : i <= j]
        [] OTHER -> NoBranch

Home == IF First # NoBranch THEN {First} ELSE Exact

\* The rows of the page with one branch unfolded, and its lowest view.
Tall(b) == Len(Order) + Length[b]

LastView(b) == Higher(1, Tall(b) - Screen + 1)

\* Only the parent's branch is ever open, and it begins shut.
PageInv ==
  /\ place \in Placements
  /\ Picking => /\ listed = Branch /\ open \subseteq Home /\ filled \subseteq Home
                /\ view >= 1 /\ \A b \in Home : view <= LastView(b)
  /\ pc = "resolve" \/ (pc = "expand" /\ clicks = 0) => open = {} /\ filled = {} /\ view = 1

\* What the tree is compared with is the shut page, so it cannot grow into a shut one.
ExpandInv ==
  /\ pc \in {"dialog", "destination", "name", "browse", "resolve"} => clicks = 0
  /\ pc \in {"expand", "look", "sweep", "again", "click"} => resolved = First
  /\ pc \in {"expand", "look"} /\ clicks > 0 => before = Lower(Screen, Len(Order))
  /\ pc = "look" => clicks > 0
  /\ pc \in {"dialog", "destination", "name", "browse", "resolve", "expand", "look"} => ~grown
  /\ grown => resolved = First /\ Home \subseteq open

\* Only a folder of the parent is clicked, chosen and sent to, this time or before.
ChoiceInv ==
  /\ pc = "click" => match \in Home
  /\ pc = "select" \/ Publishing \/ upload # "no" => chosen \in Home
  /\ pc \in PC \ {"wait", "close", "uploaded", "missing", "failed"} => upload = "no"
  /\ \A b \in DOMAIN decks : decks[b] > 0 => b \in Home

OrderlyInv == Orderly => PageInv /\ ExpandInv /\ ChoiceInv

-----------------------------------------------------------------------------
(* The page of an orderly picker *)

\* Nothing changes where the folders are or what may go wrong.
LEMMA FixedStep == [Next]_vars => UNCHANGED fixedVars
BY DEF Next, WorkerStep, OpenPublishDialog, ChooseCloudDestination, NameContent, Browse,
       ResolveParent, NotInTree, ClickBranch, LookAtBranch, FindFolder, WheelStep, EndSweep,
       SweepAgain, ClickFolder, SelectProject, PressPublish, ConfirmOverwrite, Complete,
       TimesOut, CloseWindows, PublishAgain, PageLists, PageFills, CloudTakes, Goto, Fails

\* There is at most one parent to search.
LEMMA HomeFacts ==
  /\ Home \subseteq Branch /\ \A a, b \in Home : a = b
  /\ \A b \in Home : /\ Position(b) \in Nat /\ Position(b) >= 1 /\ Position(b) <= Len(Order)
                     /\ Length[b] \in Nat /\ Tall(b) \in Nat /\ LastView(b) \in Int
                     /\ LastView(b) >= 1
<1> DEFINE near == {i \in DOMAIN Near : Near[i] \in FirstLabels}
           least == CHOOSE i \in near : \A j \in near : i <= j
<1>1. First \in Branch \cup {NoBranch}
  <2>1. CASE FirstLabels \cap Exact # {}
    <3>1. First = CHOOSE b \in FirstLabels \cap Exact : TRUE BY <2>1 DEF First
    <3> QED BY <2>1, <3>1, ConstantFacts
  <2>2. CASE FirstLabels \cap Exact = {} /\ near # {}
    <3>1. Near \in Seq(Branch) BY PickerAssumption DEF PickerAssumption
    <3>2. near \in SUBSET Nat BY <3>1
    <3>3. \E i \in near : \A j \in near : i <= j
      <4> HIDE DEF near
      <4> QED BY <2>2, <3>2, Least
    <3>4. least \in near BY <3>3
    <3>5. Near[least] \in Branch BY <3>1, <3>4
    <3>6. First = Near[least] BY <2>2 DEF First
    <3> QED BY <3>5, <3>6
  <2>3. CASE FirstLabels \cap Exact = {} /\ near = {} BY <2>3 DEF First
  <2> QED BY <2>1, <2>2, <2>3
<1>2. Home \subseteq Branch /\ \A a, b \in Home : a = b
  BY <1>1, ConstantFacts DEF Home
<1> QED BY <1>2, PositionFacts, ConstantFacts DEF Tall, LastView, Higher

\* The shut page, from its top.
LEMMA ShutPage ==
  ASSUME listed = Branch, Unfolded = {}
  PROVE  /\ PageRows(Unfolded) = Len(Order)
         /\ \A b \in Branch : RowOf(b) = Position(b)
         /\ view = 1 => LabelsSeen = FirstLabels /\ Resolved = First
<1>1. \A n \in 0..Len(Order) : RowsUpTo(n, {}) = n BY ShutRows
<1>2. PageRows(Unfolded) = Len(Order) BY <1>1, PositionFacts DEF PageRows
<1>3. \A b \in Branch : RowOf(b) = Position(b)
  <2> TAKE b \in Branch
  <2>1. Position(b) - 1 \in 0..Len(Order) /\ Position(b) \in Nat BY PositionFacts
  <2>2. RowsUpTo(Position(b) - 1, {}) = Position(b) - 1 BY <1>1, <2>1
  <2> QED BY <2>1, <2>2 DEF RowOf
<1>4. ASSUME view = 1 PROVE LabelsSeen = FirstLabels
  <2>1. \A b \in Branch : Drawn(RowOf(b)) <=> Position(b) <= Screen
    BY <1>3, <1>4, PositionFacts, ConstantFacts DEF Drawn
  <2> QED BY <2>1 DEF LabelsSeen, FirstLabels
<1>5. LabelsSeen = FirstLabels => Resolved = First BY DEF Resolved, First
<1> QED BY <1>2, <1>3, <1>4, <1>5

\* The page with the parent's branch unfolded.
LEMMA OpenPage ==
  ASSUME listed = Branch, NEW b \in Branch
  PROVE  /\ PageRows({b}) = Tall(b) /\ Bottom({b}) = LastView(b)
         /\ RowsUpTo(Position(b), {b}) = Position(b) + Length[b]
         /\ Unfolded = {b} => RowOf(b) = Position(b)
<1>1. \A n \in 0..Len(Order) :
        RowsUpTo(n, {b}) = n + (IF Position(b) <= n THEN Length[b] ELSE 0)
  BY UnfoldedRows
<1>2. Position(b) \in 1..Len(Order) /\ Len(Order) \in Nat BY PositionFacts
<1>3. PageRows({b}) = Tall(b) BY <1>1, <1>2 DEF PageRows, Tall
<1>4. RowsUpTo(Position(b), {b}) = Position(b) + Length[b]
  <2>1. Position(b) \in 0..Len(Order) /\ Position(b) <= Position(b) BY <1>2
  <2> QED BY <1>1, <2>1
<1>5. RowsUpTo(Position(b) - 1, {b}) = Position(b) - 1
  <2>1. Position(b) - 1 \in 0..Len(Order) /\ ~(Position(b) <= Position(b) - 1) BY <1>2
  <2>2. RowsUpTo(Position(b) - 1, {b}) = Position(b) - 1 + 0 BY <1>1, <2>1
  <2> QED BY <1>2, <2>2
<1>6. Unfolded = {b} => RowOf(b) = Position(b)
  <2> HAVE Unfolded = {b}
  <2>1. RowOf(b) = RowsUpTo(Position(b) - 1, {b}) + 1 BY DEF RowOf
  <2> QED BY <1>2, <1>5, <2>1
<1> QED BY <1>3, <1>4, <1>6 DEF Bottom, LastView

\* Only folders of branches that are unfolded are seen.
LEMMA SeenUnfolded == FoldersSeen \subseteq open \cap filled
BY DEF FoldersSeen, HasFolderRow, Unfolded

-----------------------------------------------------------------------------
(* The worker on it *)

LEMMA OrderlyInit == Init => OrderlyInv
BY DEF Init, OrderlyInv, PageInv, ExpandInv, ChoiceInv, Picking, Publishing

\* A click on the parent's chevron leaves the page within its bounds.
LEMMA TogglePage ==
  ASSUME TypeOK, listed = Branch, open \subseteq Home, filled \subseteq Home,
         view >= 1, \A b \in Home : view <= LastView(b),
         Orderly, NEW p \in Home, Toggle(p)
  PROVE  /\ listed' = Branch /\ open' \subseteq Home /\ filled' \subseteq Home
         /\ view' >= 1 /\ \A b \in Home : view' <= LastView(b)
<1>1. p \in Branch /\ Home = {p} /\ Unfolded \cup {p} = {p}
  BY HomeFacts DEF Unfolded
<1>2. view \in Int BY DEF TypeOK
<1>3. CASE p \in open
  <2>1. view' = Lower(view, Bottom(Unfolded \ {p})) BY <1>3 DEF Toggle
  <2>2. view' >= 1 /\ view' <= view /\ view' \in Int
    BY <1>2, <2>1, RowCounts DEF Lower
  <2>3. \A b \in Home : view' <= LastView(b) BY <1>2, <2>2, HomeFacts
  <2> QED BY <1>3, <2>2, <2>3 DEF Toggle
<1>4. CASE p \notin open
  <2>1. CASE UNCHANGED <<filled, view>> BY <1>4, <2>1 DEF Toggle
  <2>2. CASE filled' = filled \cup {p} /\ Unfold(p)
    <3>1. view' = Higher(1, Position(p) + Length[p] - Screen + 1)
      <4>1. view' = Higher(1, RowsUpTo(Position(p), {p}) - Screen + 1)
        BY <1>1, <2>2 DEF Unfold
      <4>2. RowsUpTo(Position(p), {p}) = Position(p) + Length[p] BY <1>1, OpenPage
      <4> QED BY <1>1, <4>1, <4>2, HomeFacts, ConstantFacts
    <3>2. view' >= 1 /\ view' <= LastView(p)
      BY <3>1, HomeFacts, PositionFacts, ConstantFacts DEF Higher, LastView, Tall
    <3>3. \A b \in Home : view' <= LastView(b) BY <1>1, <3>2
    <3> QED BY <1>4, <2>2, <3>2, <3>3 DEF Toggle
  <2> QED BY <1>4, <2>1, <2>2 DEF Toggle
<1> QED BY <1>3, <1>4

\* The tree is never larger than the shut one when the parent's branch is shut.
LEMMA GrownIsOpen ==
  ASSUME TypeOK, listed = Branch, open \subseteq Home, view >= 1,
         before = Lower(Screen, Len(Order)), BranchGrew
  PROVE  Home \subseteq open
<1> SUFFICES ASSUME open = {} PROVE FALSE BY HomeFacts
<1>1. Unfolded = {} BY DEF Unfolded
<1>2. RowsSeen = Lower(Screen, Len(Order) - view + 1) BY <1>1, ShutPage DEF RowsSeen
<1>3. RowsSeen > before BY DEF BranchGrew
<1>4. Lower(Screen, Len(Order) - view + 1) > Lower(Screen, Len(Order)) BY <1>2, <1>3
<1>5. view \in Int /\ Screen \in Nat /\ Len(Order) \in Nat
  BY PositionFacts, ConstantFacts DEF TypeOK
<1> QED BY <1>4, <1>5 DEF Lower

\* A sweep begins on the page as it is.
LEMMA SweepBegins ==
  ASSUME TypeOK, OrderlyInv, Orderly, pc \in {"expand", "look", "again"}, StartSweep,
         UNCHANGED <<fixedVars, pageVars, resolved, match, chosen, cloudVars>>,
         pc = "look" /\ grown' => Home \subseteq open, pc # "look" => UNCHANGED grown
  PROVE  PageInv' /\ ExpandInv' /\ ChoiceInv'
<1>1. PageInv /\ ExpandInv /\ ChoiceInv BY DEF OrderlyInv
<1>2. pc' = "sweep" BY DEF StartSweep
<1>3. PageInv' BY <1>1, <1>2 DEF PageInv, Picking
<1>4. ExpandInv' BY <1>1, <1>2 DEF ExpandInv
<1>5. ChoiceInv' BY <1>1, <1>2 DEF ChoiceInv, Publishing, PC
<1> QED BY <1>3, <1>4, <1>5

LEMMA OrderlyStep == TypeOK /\ OrderlyInv /\ [Next]_vars => OrderlyInv'
<1> SUFFICES ASSUME TypeOK, OrderlyInv, [Next]_vars, Orderly'
             PROVE  PageInv' /\ ExpandInv' /\ ChoiceInv'
  BY DEF OrderlyInv
<1>a. Orderly /\ UNCHANGED fixedVars BY FixedStep DEF Orderly
<1>b. PageInv /\ ExpandInv /\ ChoiceInv BY <1>a DEF OrderlyInv
<1>c. Parents = Home \/ resolved # First BY DEF Parents, Home
<1> USE DEF Picking, Publishing
<1>1. CASE OpenPublishDialog \/ ChooseCloudDestination \/ NameContent \/ EndSweep
           \/ SelectProject \/ Complete \/ TimesOut \/ CloseWindows
  BY <1>1, <1>b DEF OpenPublishDialog, ChooseCloudDestination, NameContent, EndSweep,
                    SelectProject, Complete, TimesOut, CloseWindows, Goto, Fails,
                    PageInv, ExpandInv, ChoiceInv, PC
<1>2. CASE Browse
  <2>1. CASE Fails BY <1>2, <2>1, <1>b DEF Browse, Fails, PageInv, ExpandInv, ChoiceInv, PC
  <2>2. CASE pc' = "resolve" /\ FreshPage /\ UNCHANGED <<fixedVars, findVars, cloudVars, job>>
    <3>1. listed' = Branch /\ open' = {} /\ filled' = {} /\ view' = 1
      BY <1>a, <2>2 DEF FreshPage, Orderly
    <3>2. PageInv' BY <1>b, <2>2, <3>1, HomeFacts DEF PageInv
    <3>3. ExpandInv' /\ ChoiceInv' BY <1>2, <1>b, <2>2 DEF Browse, ExpandInv, ChoiceInv, PC
    <3> QED BY <3>2, <3>3
  <2> QED BY <1>2, <2>1, <2>2 DEF Browse
<1>3. CASE ResolveParent
  <2>1. pc = "resolve" /\ pc' = "expand" /\ resolved' = Resolved
        /\ UNCHANGED <<pageVars, before, clicks, grown, match, chosen, cloudVars>>
    BY <1>3 DEF ResolveParent
  <2>2. listed = Branch /\ Unfolded = {} /\ view = 1
    BY <1>b, <2>1 DEF PageInv, Unfolded
  <2>3. resolved' = First BY <2>1, <2>2, ShutPage
  <2>4. PageInv' BY <1>a, <1>b, <2>1 DEF PageInv
  <2>5. ExpandInv'
    <3>1. grown = FALSE BY <1>b, <2>1 DEF ExpandInv, TypeOK
    <3>2. clicks = 0 BY <1>b, <2>1 DEF ExpandInv
    <3> QED BY <2>1, <2>3, <3>1, <3>2 DEF ExpandInv
  <2>6. ChoiceInv' BY <1>b, <2>1 DEF ChoiceInv, PC
  <2> QED BY <2>4, <2>5, <2>6
<1>4. CASE NotInTree
  BY <1>4, <1>a, SweepBegins DEF NotInTree
<1>5. CASE ClickBranch
  <2>1. pc = "expand" /\ pc' = "look" /\ clicks' = clicks + 1 /\ clicks < 2
        /\ before' = (IF clicks = 0 THEN RowsSeen ELSE before)
        /\ UNCHANGED <<resolved, grown, match, chosen, cloudVars>>
    BY <1>5 DEF ClickBranch
  <2>2. clicks \in 0..2 BY DEF TypeOK
  <2>3. /\ resolved = First /\ Parents = Home /\ listed = Branch /\ ~grown
        /\ open \subseteq Home /\ filled \subseteq Home
        /\ view >= 1 /\ \A b \in Home : view <= LastView(b)
    BY <1>b, <1>c, <2>1 DEF PageInv, ExpandInv
  <2>4. /\ listed' = Branch /\ open' \subseteq Home /\ filled' \subseteq Home
        /\ view' >= 1 /\ \A b \in Home : view' <= LastView(b)
    <3>1. CASE \E b \in Parents : Toggle(b) BY <1>a, <2>3, <3>1, TogglePage
    <3>2. CASE UNCHANGED pageVars BY <2>3, <3>2
    <3> QED BY <1>5, <3>1, <3>2 DEF ClickBranch
  <2>5. before' = Lower(Screen, Len(Order))
    <3>1. CASE clicks = 0
      <4>1. Unfolded = {} /\ view = 1 BY <1>b, <2>1, <3>1 DEF PageInv, Unfolded
      <4>2. before' = Lower(Screen, Len(Order) - view + 1)
        BY <2>1, <2>3, <3>1, <4>1, ShutPage DEF RowsSeen
      <4> QED BY <4>1, <4>2, PositionFacts
    <3>2. CASE clicks # 0
      BY <1>b, <2>1, <2>2, <3>2 DEF ExpandInv
    <3> QED BY <3>1, <3>2
  <2>6. PageInv' BY <1>a, <1>b, <2>1, <2>4 DEF PageInv
  <2>7. ExpandInv' BY <2>1, <2>2, <2>3, <2>5 DEF ExpandInv
  <2>8. ChoiceInv' BY <1>b, <2>1 DEF ChoiceInv, PC
  <2> QED BY <2>6, <2>7, <2>8
<1>6. CASE LookAtBranch
  <2>1. pc = "look" /\ grown' = BranchGrew
        /\ UNCHANGED <<pageVars, resolved, before, clicks, match, chosen, cloudVars>>
    BY <1>6 DEF LookAtBranch
  <2>2. /\ listed = Branch /\ open \subseteq Home /\ view >= 1 /\ resolved = First
        /\ before = Lower(Screen, Len(Order)) /\ clicks > 0
    BY <1>b, <2>1 DEF PageInv, ExpandInv
  <2>3. grown' => Home \subseteq open BY <2>1, <2>2, GrownIsOpen
  <2>4. CASE StartSweep BY <1>a, <2>1, <2>3, <2>4, SweepBegins
  <2>5. CASE pc' = "expand" /\ ~grown'
    <3>1. PageInv' BY <1>a, <1>b, <2>1, <2>2, <2>5 DEF PageInv, TypeOK
    <3>2. ExpandInv' BY <1>b, <2>1, <2>2, <2>5 DEF ExpandInv
    <3>3. ChoiceInv' BY <1>b, <2>1, <2>5 DEF ChoiceInv, PC
    <3> QED BY <3>1, <3>2, <3>3
  <2> QED BY <1>6, <2>4, <2>5 DEF LookAtBranch
<1>7. CASE FindFolder
  <2>1. match' \in Home
    <3>1. match' \in open BY <1>7, MatchSeen, SeenUnfolded
    <3> QED BY <1>7, <1>b, <3>1 DEF FindFolder, PageInv
  <2> QED BY <1>7, <1>b, <2>1 DEF FindFolder, PageInv, ExpandInv, ChoiceInv, PC
<1>8. CASE WheelStep
  <2>1. pc = "sweep" /\ UNCHANGED <<listed, open, filled, pc, resolved, before, clicks, grown,
                                    match, chosen, cloudVars>>
    BY <1>8 DEF WheelStep
  <2>2. view' >= 1 /\ \A b \in Home : view' <= LastView(b)
    <3>1. view \in Int /\ view >= 1 /\ \A b \in Home : view <= LastView(b)
      BY <1>b, <2>1 DEF PageInv, TypeOK
    <3>2. CASE view' = Higher(1, view - StepRows)
      <4>1. view' >= 1 /\ view' <= view /\ view' \in Int
        BY <3>1, <3>2, ConstantFacts DEF Higher
      <4> QED BY <3>1, <4>1, HomeFacts
    <3>3. CASE view' = Lower(Bottom(Unfolded), view + StepRows)
      <4>1. view' >= 1 /\ view' <= Bottom(Unfolded) /\ view' \in Int /\ Bottom(Unfolded) \in Int
        BY <3>1, <3>3, RowCounts, ConstantFacts DEF Lower
      <4>2. listed = Branch /\ Unfolded \subseteq Home BY <1>b, <2>1 DEF PageInv, Unfolded
      <4>3. \A b \in Home : Bottom(Unfolded) <= LastView(b)
        <5> TAKE b \in Home
        <5>1. CASE Unfolded = {b}
          <6>1. b \in Branch /\ LastView(b) \in Int BY HomeFacts
          <6>2. Bottom(Unfolded) = LastView(b) BY <4>2, <5>1, <6>1, OpenPage
          <6> QED BY <6>1, <6>2
        <5>2. CASE Unfolded = {}
          <6>1. PageRows(Unfolded) = Len(Order) BY <4>2, <5>2, ShutPage
          <6>2. Len(Order) \in Nat /\ Length[b] \in Nat /\ Screen \in Nat
            BY PositionFacts, HomeFacts, ConstantFacts
          <6>3. Bottom(Unfolded) = Higher(1, Len(Order) - Screen + 1)
            BY <6>1 DEF Bottom
          <6>4. LastView(b) = Higher(1, Len(Order) + Length[b] - Screen + 1)
            BY <6>2 DEF LastView, Tall
          <6> QED BY <6>2, <6>3, <6>4 DEF Higher
        <5> QED BY <4>2, <5>1, <5>2, HomeFacts
      <4> QED BY <4>1, <4>3, HomeFacts
    <3> QED BY <1>8, <3>2, <3>3 DEF WheelStep
  <2>3. PageInv' BY <1>a, <1>b, <2>1, <2>2 DEF PageInv
  <2>4. ExpandInv' /\ ChoiceInv' BY <1>b, <2>1 DEF ExpandInv, ChoiceInv, PC
  <2> QED BY <2>3, <2>4
<1>9. CASE SweepAgain
  <2>1. CASE StartSweep BY <1>9, <2>1, <1>a, SweepBegins DEF SweepAgain
  <2>2. CASE pc' = "missing"
    BY <1>9, <2>2, <1>b DEF SweepAgain, PageInv, ExpandInv, ChoiceInv, PC
  <2> QED BY <1>9, <2>1, <2>2 DEF SweepAgain
<1>10. CASE ClickFolder
  <2>1. CASE Fails BY <1>10, <2>1, <1>b DEF ClickFolder, Fails, PageInv, ExpandInv, ChoiceInv, PC
  <2>2. CASE pc' = "select" /\ chosen' = match
    BY <1>10, <2>2, <1>b DEF ClickFolder, Fails, PageInv, ExpandInv, ChoiceInv, PC
  <2> QED BY <1>10, <1>a, <2>1, <2>2 DEF ClickFolder, Orderly
<1>11. CASE PressPublish \/ ConfirmOverwrite
  BY <1>11, <1>b DEF PressPublish, ConfirmOverwrite, Fails, PageInv, ExpandInv, ChoiceInv, PC
<1>12. CASE CloudTakes
  <2>1. \A b \in DOMAIN decks' : decks'[b] > 0 => b \in Home
    BY <1>12, <1>b DEF CloudTakes, ChoiceInv, TypeOK, Higher
  <2> QED BY <1>12, <1>b, <2>1 DEF CloudTakes, PageInv, ExpandInv, ChoiceInv, TypeOK, PC
<1>13. CASE PublishAgain
  BY <1>13, <1>b DEF PublishAgain, PageInv, ExpandInv, ChoiceInv, PC
<1>14. CASE PageLists
  BY <1>14, <1>b DEF PageLists, PageInv
<1>15. CASE PageFills
  <2>1. PICK p \in open \ filled : filled' = filled \cup {p} /\ Unfold(p)
    BY <1>15 DEF PageFills
  <2>2. p \in Home /\ Home = {p} /\ listed = Branch /\ p \in Branch /\ Unfolded \cup {p} = {p}
    BY <1>15, <1>b, <2>1, HomeFacts DEF PageFills, PageInv, Unfolded
  <2>3. view' >= 1 /\ view' <= LastView(p)
    <3>1. view' = Higher(1, RowsUpTo(Position(p), {p}) - Screen + 1)
      BY <2>1, <2>2 DEF Unfold
    <3>2. RowsUpTo(Position(p), {p}) = Position(p) + Length[p] BY <2>2, OpenPage
    <3>3. /\ Len(Order) \in Nat /\ Length[p] \in Nat /\ Screen \in Nat
          /\ Position(p) \in Nat /\ Position(p) <= Len(Order)
      BY <2>2, PositionFacts, HomeFacts, ConstantFacts
    <3> QED BY <3>1, <3>2, <3>3 DEF Higher, LastView, Tall
  <2>4. \A b \in Home : view' <= LastView(b) BY <2>2, <2>3
  <2>5. open # {} /\ filled' \subseteq Home BY <1>15, <1>b, <2>1, <2>2 DEF PageFills, PageInv
  <2>6. ~(pc = "resolve" \/ (pc = "expand" /\ clicks = 0)) BY <1>b, <2>5 DEF PageInv
  <2>7. PageInv' BY <1>15, <1>b, <2>3, <2>4, <2>5, <2>6 DEF PageFills, PageInv
  <2>8. ExpandInv' /\ ChoiceInv' BY <1>15, <1>b DEF PageFills, ExpandInv, ChoiceInv, PC
  <2> QED BY <2>7, <2>8
<1>16. CASE UNCHANGED vars
  BY <1>16, <1>b DEF PageInv, ExpandInv, ChoiceInv, PC
<1> QED
  BY <1>1, <1>2, <1>3, <1>4, <1>5, <1>6, <1>7, <1>8, <1>9, <1>10, <1>11, <1>12, <1>13, <1>14,
     <1>15, <1>16
  DEF Next, WorkerStep

\* An orderly picker sends the deck to the project that the library named, if that is the
\* name of a project on the first screen (resolve_parent, choose_match): whatever clicks
\* miss, whichever branch fills late and whatever the other projects hold.
THEOREM HolderCorrect ==
  ASSUME Exact = {Holder}, Position(Holder) <= Screen
  PROVE  Spec => []PublishesUnderHolder
<1>1. Home = {Holder}
  <2>1. Holder \in FirstLabels BY ConstantFacts DEF FirstLabels
  <2>2. First = CHOOSE b \in FirstLabels \cap Exact : TRUE BY <2>1 DEF First
  <2>3. First = Holder BY <2>1, <2>2
  <2> QED BY <2>3, ConstantFacts DEF Home
<1>2. OrderlyInv => PublishesUnderHolder
  BY <1>1 DEF OrderlyInv, ChoiceInv, PublishesUnderHolder
<1> QED BY <1>2, TypeInit, TypeStep, OrderlyInit, OrderlyStep, PTL DEF Spec

\* In an orderly picker a branch that expand_branch reports as expanded is open: the tree
\* is only larger than it was when it was shut.
THEOREM ExpandedCorrect == Spec => []ExpandedIsOpen
<1>1. OrderlyInv => ExpandedIsOpen
  BY DEF OrderlyInv, ExpandInv, ExpandedIsOpen, Parents, Home
<1> QED BY <1>1, TypeInit, TypeStep, OrderlyInit, OrderlyStep, PTL DEF Spec

\* Once a place has a deck of the name it has one for good: what is sent replaces it.
OneDeckEach == \A b \in DOMAIN decks : decks[b] <= 1

LEMMA OneDeckStep == TypeOK /\ OneDeckEach /\ [Next]_vars => OneDeckEach'
<1> SUFFICES ASSUME TypeOK, OneDeckEach, [Next]_vars PROVE OneDeckEach' OBVIOUS
<1>1. CASE CloudTakes
  BY <1>1 DEF CloudTakes, OneDeckEach, TypeOK, Higher
<1>2. CASE UNCHANGED decks
  BY <1>2 DEF OneDeckEach
<1>3. CloudTakes \/ UNCHANGED decks
  BY DEF Next, WorkerStep, OpenPublishDialog, ChooseCloudDestination, NameContent, Browse,
         ResolveParent, NotInTree, ClickBranch, LookAtBranch, FindFolder, WheelStep, EndSweep,
         SweepAgain, ClickFolder, SelectProject, PressPublish, ConfirmOverwrite, Complete,
         TimesOut, CloseWindows, PublishAgain, PageLists, PageFills, Goto, Fails
<1> QED BY <1>1, <1>2, <1>3

\* However often a job is tried and whichever tries got through, no folder has two decks
\* of the name and, with an orderly picker, only one folder has one (confirm_overwrite).
THEOREM DeckCorrect == Spec => []NoSecondDeck
<1>1. Init => OneDeckEach BY DEF Init, OneDeckEach
<1>2. TypeOK /\ OrderlyInv /\ OneDeckEach => NoSecondDeck
  BY HomeFacts DEF OrderlyInv, ChoiceInv, OneDeckEach, NoSecondDeck
<1> QED BY <1>1, <1>2, TypeInit, TypeStep, OrderlyInit, OrderlyStep, OneDeckStep, PTL DEF Spec

-----------------------------------------------------------------------------
(* A sweep *)

\* The sweep goes up and down, a step is at most a screen, and a pass is as long as the
\* longest page.
SweepSpans ==
  /\ SweepPasses >= 2
  /\ StepRows <= Screen
  /\ \A b \in Branch : Tall(b) <= Screen + SweepSteps * StepRows

\* The row of a parent's folder, its branch being the only one that is unfolded.
FolderRow(b) == Position(b) + place[b]

\* The way up ends at the top.  On the way down the folder is still ahead.
SweepInv ==
  Orderly /\ pc = "sweep" /\ onPage =>
    /\ Home # {} /\ Home \subseteq open \cap filled
    /\ steps <= 2 * SweepSteps
    /\ \A b \in Home :
         /\ place[b] # 0
         /\ steps <= SweepSteps => view <= Higher(1, Tall(b) - Screen + 1 - steps * StepRows)
         /\ steps >= SweepSteps =>
              /\ view <= FolderRow(b)
              /\ view >= Lower(LastView(b), 1 + (steps - SweepSteps) * StepRows)

SweepIInv == SweepInv /\ SweepSees

\* The first pass goes up and the second one down.
LEMMA PassWay ==
  /\ \A k \in Nat : k < SweepSteps => GoesUp(k)
  /\ \A k \in Nat : SweepSteps <= k /\ k < 2 * SweepSteps => ~GoesUp(k)
<1>1. \A k \in Nat : k < SweepSteps => k \div SweepSteps = 0
  BY ConstantFacts
<1>2. \A k \in Nat : SweepSteps <= k /\ k < 2 * SweepSteps => k \div SweepSteps = 1
  BY ConstantFacts
<1>3. 0 % 2 = 0 /\ 1 % 2 = 1 OBVIOUS
<1> QED BY <1>1, <1>2, <1>3 DEF GoesUp

\* A sweep that finds nothing has not drawn the folder's row.
LEMMA NotDrawn ==
  ASSUME OrderlyInv, SweepInv, Orderly, pc = "sweep", onPage, ChooseMatch = {}, NEW b \in Home
  PROVE  ~Drawn(FolderRow(b))
<1>1. listed = Branch /\ Unfolded = {b} /\ place[b] # 0 /\ b \in Branch
  BY HomeFacts DEF OrderlyInv, PageInv, Picking, SweepInv, Unfolded
<1>2. FoldersSeen = {} BY DEF ChooseMatch, UnderParent
<1>3. HasFolderRow(b) BY <1>1 DEF HasFolderRow
<1>4. ~Drawn(RowOf(b) + place[b]) BY <1>1, <1>2, <1>3 DEF FoldersSeen
<1> QED BY <1>1, <1>4, OpenPage DEF FolderRow

\* The numbers of a sweep.
LEMMA SweepNumbers ==
  ASSUME SweepSpans, TypeOK, OrderlyInv, Orderly, NEW b \in Home
  PROVE  /\ view \in Int /\ steps \in Nat
         /\ Tall(b) \in Nat /\ Tall(b) <= Screen + SweepSteps * StepRows
         /\ LastView(b) = Higher(1, Tall(b) - Screen + 1)
         /\ place[b] # 0 => FolderRow(b) \in Nat /\ FolderRow(b) > 1 /\ FolderRow(b) <= Tall(b)
         /\ Screen \in Nat /\ Screen > 0
         /\ StepRows \in Nat /\ StepRows > 0 /\ StepRows <= Screen
         /\ SweepSteps \in Nat /\ SweepSteps > 0 /\ SweepPasses \in Nat /\ SweepPasses >= 2
<1>1. b \in Branch BY HomeFacts
<1>2. place[b] \in Nat /\ place[b] <= Length[b]
  BY <1>1, ConstantFacts DEF OrderlyInv, PageInv
<1>3. steps \in Nat /\ view \in Int BY ConstantFacts DEF TypeOK
<1>4. Tall(b) <= Screen + SweepSteps * StepRows /\ SweepPasses >= 2 /\ StepRows <= Screen
  BY <1>1 DEF SweepSpans
<1>5. FolderRow(b) = Position(b) + place[b] /\ Tall(b) = Len(Order) + Length[b]
  BY DEF FolderRow, Tall
<1>6. place[b] # 0 => FolderRow(b) \in Nat /\ FolderRow(b) > 1 /\ FolderRow(b) <= Tall(b)
  BY <1>1, <1>2, <1>5, HomeFacts, PositionFacts
<1> QED BY <1>3, <1>4, <1>6, ConstantFacts, HomeFacts DEF LastView

\* Two passes over the page have drawn every row of it.
LEMMA TwoPasses ==
  ASSUME SweepSpans, TypeOK, OrderlyInv, SweepInv, Orderly, pc = "sweep", onPage,
         ChooseMatch = {}
  PROVE  steps < 2 * SweepSteps
<1> SUFFICES ASSUME steps = 2 * SweepSteps PROVE FALSE
  BY ConstantFacts DEF SweepInv, TypeOK
<1>1. PICK b \in Home : TRUE BY DEF SweepInv
<1>2. ~Drawn(FolderRow(b)) BY NotDrawn
<1> USE SweepNumbers
<1>3. /\ place[b] # 0 /\ view <= FolderRow(b)
      /\ view >= Lower(LastView(b), 1 + (steps - SweepSteps) * StepRows)
  BY DEF SweepInv
<1>4. steps - SweepSteps = SweepSteps OBVIOUS
<1>5. view >= Lower(LastView(b), 1 + SweepSteps * StepRows) BY <1>3, <1>4
<1>6. SweepSteps * StepRows \in Nat OBVIOUS
<1>7. view >= LastView(b) BY <1>5, <1>6 DEF Lower, Higher
<1>8. FolderRow(b) < view + Screen
  <2>1. LastView(b) >= Tall(b) - Screen + 1 /\ LastView(b) \in Int BY DEF Higher
  <2>2. FolderRow(b) \in Nat /\ FolderRow(b) <= Tall(b) BY <1>3
  <2> QED BY <1>7, <2>1, <2>2
<1> QED BY <1>2, <1>3, <1>8 DEF Drawn

\* One step of the wheel, towards the folder or past rows that are not its.
LEMMA WheelSweep ==
  ASSUME SweepSpans, TypeOK, OrderlyInv, SweepInv, Orderly, onPage, WheelStep
  PROVE  SweepInv'
<1> USE SweepNumbers
<1>1. /\ pc = "sweep" /\ ChooseMatch = {} /\ steps' = steps + 1
      /\ UNCHANGED <<place, open, filled, pc, onPage>>
  BY DEF WheelStep
<1>2. steps < 2 * SweepSteps BY <1>1, TwoPasses
<1>3. Home # {} /\ Home \subseteq open \cap filled BY <1>1 DEF SweepInv
<1>4. steps' <= 2 * SweepSteps
  <2>1. steps \in Nat /\ SweepSteps \in Nat BY ConstantFacts DEF TypeOK
  <2> QED BY <1>1, <1>2, <2>1
<1>5. ASSUME NEW b \in Home
      PROVE  /\ place[b] # 0
             /\ steps' <= SweepSteps =>
                  view' <= Higher(1, Tall(b) - Screen + 1 - steps' * StepRows)
             /\ steps' >= SweepSteps =>
                  /\ view' <= FolderRow(b)
                  /\ view' >= Lower(LastView(b), 1 + (steps' - SweepSteps) * StepRows)
  <2>1. place[b] # 0 BY <1>1 DEF SweepInv
  <2>2. steps' * StepRows = steps * StepRows + StepRows /\ steps * StepRows \in Nat
    BY <1>1
  <2>3. CASE steps < SweepSteps
    <3>1. view' = Higher(1, view - StepRows) BY <2>3, PassWay DEF WheelStep
    <3>2. view <= Higher(1, Tall(b) - Screen + 1 - steps * StepRows)
      BY <1>1, <2>3 DEF SweepInv
    <3>3. view' <= Higher(1, Tall(b) - Screen + 1 - steps' * StepRows)
      BY <2>2, <3>1, <3>2 DEF Higher
    <3>4. ASSUME steps' >= SweepSteps
          PROVE  view' = 1 /\ steps' - SweepSteps = 0
      <4>1. steps' = SweepSteps BY <1>1, <2>3, <3>4
      <4>2. SweepSteps * StepRows \in Nat OBVIOUS
      <4>3. view' <= Higher(1, Tall(b) - Screen + 1 - SweepSteps * StepRows)
        BY <3>3, <4>1
      <4> QED BY <3>1, <4>1, <4>2, <4>3 DEF Higher
    <3>5. ASSUME steps' >= SweepSteps
          PROVE  /\ view' <= FolderRow(b)
                 /\ view' >= Lower(LastView(b), 1 + (steps' - SweepSteps) * StepRows)
      <4>1. (steps' - SweepSteps) * StepRows = 0 BY <3>4, <3>5
      <4> QED BY <2>1, <3>4, <3>5, <4>1 DEF Lower, Higher
    <3> QED BY <2>1, <3>3, <3>5
  <2>4. CASE steps >= SweepSteps
    <3>1. view' = Lower(Bottom(Unfolded), view + StepRows)
      BY <1>2, <2>4, PassWay DEF WheelStep
    <3>2. Bottom(Unfolded) = LastView(b)
      <4>1. listed = Branch /\ Unfolded = {b} /\ b \in Branch
        BY <1>1, HomeFacts DEF OrderlyInv, PageInv, Picking, SweepInv, Unfolded
      <4> QED BY <4>1, OpenPage
    <3>3. view <= FolderRow(b) /\ view >= Lower(LastView(b), 1 + (steps - SweepSteps) * StepRows)
      BY <1>1, <2>4 DEF SweepInv
    <3>4. FolderRow(b) >= view + Screen
      BY <1>1, <2>1, <3>3, NotDrawn DEF Drawn
    <3>5. view' <= FolderRow(b) BY <2>1, <3>1, <3>2, <3>4 DEF Lower, Higher
    <3>6. (steps' - SweepSteps) * StepRows = (steps - SweepSteps) * StepRows + StepRows
          /\ (steps - SweepSteps) * StepRows \in Nat
      <4>1. PICK k \in Nat : k = steps - SweepSteps BY <2>4
      <4>2. steps' - SweepSteps = k + 1 BY <1>1, <4>1
      <4>3. (k + 1) * StepRows = k * StepRows + StepRows /\ k * StepRows \in Nat OBVIOUS
      <4> QED BY <4>1, <4>2, <4>3
    <3>7. view' >= Lower(LastView(b), 1 + (steps' - SweepSteps) * StepRows)
      BY <3>1, <3>2, <3>3, <3>6 DEF Lower, Higher
    <3>8. ~(steps' <= SweepSteps) BY <1>1, <2>4
    <3> QED BY <2>1, <3>5, <3>7, <3>8
  <2> QED BY <2>3, <2>4
<1> QED BY <1>1, <1>3, <1>4, <1>5 DEF SweepInv, FolderRow

\* A sweep begins at the foot of the page, or above it.
LEMMA BeginSweep ==
  ASSUME SweepSpans, TypeOK, OrderlyInv, Orderly, pc \in {"expand", "look", "again"},
         StartSweep, UNCHANGED <<place, open, filled, view>>
  PROVE  SweepInv'
<1> SUFFICES ASSUME onPage' PROVE SweepInv' BY DEF SweepInv
<1> USE SweepNumbers
<1>1. Parents = Home BY DEF OrderlyInv, ExpandInv, Parents, Home
<1>2. steps' = 0 /\ \E b \in Parents : HasFolderRow(b) BY DEF StartSweep
<1>3. PICK p \in Home : HasFolderRow(p) BY <1>1, <1>2
<1>4. Home = {p} /\ p \in open \cap filled /\ place[p] # 0
  BY <1>3, HomeFacts DEF HasFolderRow, Unfolded
<1>5. view <= LastView(p) BY <1>4 DEF OrderlyInv, PageInv, Picking
<1>6. 0 * StepRows = 0 /\ 0 <= 2 * SweepSteps /\ ~(0 >= SweepSteps) OBVIOUS
<1>7. view' <= Higher(1, Tall(p) - Screen + 1 - steps' * StepRows)
  BY <1>2, <1>5, <1>6 DEF Higher
<1> QED BY <1>2, <1>4, <1>6, <1>7 DEF SweepInv

LEMMA SweepStep ==
  ASSUME SweepSpans PROVE TypeOK /\ OrderlyInv /\ SweepIInv /\ [Next]_vars => SweepIInv'
<1> SUFFICES ASSUME TypeOK, OrderlyInv, SweepInv, SweepSees, [Next]_vars, Orderly'
             PROVE  SweepInv' /\ SweepSees'
  BY DEF SweepIInv, SweepInv, SweepSees
<1>a. Orderly /\ UNCHANGED fixedVars BY FixedStep DEF Orderly
<1>1. CASE EndSweep
  <2>1. ~onPage
    <3>1. SUFFICES ASSUME onPage PROVE FALSE OBVIOUS
    <3>2. pc = "sweep" /\ ChooseMatch = {} /\ steps = SweepPasses * SweepSteps
      BY <1>1, <1>a DEF EndSweep, Orderly
    <3>3. steps < 2 * SweepSteps BY <1>a, <3>1, <3>2, TwoPasses
    <3>4. SweepPasses * SweepSteps >= 2 * SweepSteps BY ConstantFacts DEF SweepSpans
    <3>5. SweepPasses * SweepSteps \in Nat /\ SweepSteps \in Nat BY ConstantFacts
    <3> QED BY <3>2, <3>3, <3>4, <3>5
  <2> QED BY <1>1, <2>1 DEF EndSweep, Goto, SweepInv, SweepSees
<1>2. CASE WheelStep
  <2>1. pc' = "sweep" /\ UNCHANGED onPage BY <1>2 DEF WheelStep
  <2>2. CASE onPage BY <1>2, <1>a, <2>1, <2>2, WheelSweep DEF SweepSees
  <2>3. CASE ~onPage BY <2>1, <2>3 DEF SweepInv, SweepSees
  <2> QED BY <2>2, <2>3
<1>3. CASE NotInTree
  BY <1>3, <1>a, BeginSweep DEF NotInTree, SweepSees, StartSweep
<1>4. CASE LookAtBranch
  <2>1. CASE StartSweep
    BY <1>4, <1>a, <2>1, BeginSweep DEF LookAtBranch, SweepSees, StartSweep
  <2>2. CASE pc' = "expand" BY <2>2 DEF SweepInv, SweepSees
  <2> QED BY <1>4, <2>1, <2>2 DEF LookAtBranch
<1>5. CASE SweepAgain
  <2>1. CASE StartSweep
    BY <1>5, <1>a, <2>1, BeginSweep DEF SweepAgain, SweepSees, StartSweep
  <2>2. CASE pc' = "missing" BY <2>2 DEF SweepInv, SweepSees
  <2> QED BY <1>5, <2>1, <2>2 DEF SweepAgain
<1>6. CASE OpenPublishDialog \/ ChooseCloudDestination \/ NameContent \/ Browse
           \/ ResolveParent \/ ClickBranch \/ FindFolder \/ ClickFolder \/ SelectProject
           \/ PressPublish \/ ConfirmOverwrite \/ Complete \/ TimesOut \/ CloseWindows
           \/ PublishAgain
  <2>1. pc' \notin {"sweep", "again"}
    BY <1>6 DEF OpenPublishDialog, ChooseCloudDestination, NameContent, Browse,
       ResolveParent, ClickBranch, FindFolder, ClickFolder, SelectProject, PressPublish,
       ConfirmOverwrite, Complete, TimesOut, CloseWindows, PublishAgain, Goto, Fails
  <2> QED BY <2>1 DEF SweepInv, SweepSees
<1>7. CASE PageLists
  BY <1>7, <1>a DEF PageLists, OrderlyInv, PageInv
<1>8. CASE PageFills
  <2>1. pc' = pc /\ onPage' = onPage /\ steps' = steps /\ open \ filled # {}
    BY <1>8 DEF PageFills
  <2>2. ~(pc = "sweep" /\ onPage)
    BY <1>8, <1>a, <2>1 DEF PageFills, OrderlyInv, PageInv, SweepInv
  <2> QED BY <1>a, <2>1, <2>2 DEF SweepInv, SweepSees
<1>9. CASE CloudTakes
  BY <1>9, <1>a DEF CloudTakes, SweepInv, SweepSees, FolderRow
<1>10. CASE UNCHANGED vars
  BY <1>10, <1>a DEF SweepInv, SweepSees, FolderRow
<1> QED
  BY <1>1, <1>2, <1>3, <1>4, <1>5, <1>6, <1>7, <1>8, <1>9, <1>10 DEF Next, WorkerStep

\* Where a pass of the sweep is as long as the longest page and its steps leave no row out
\* (the claim of ispring_cloud.py:148), a sweep that begins with the folder on the page of
\* an orderly picker does not end without it.
THEOREM SweepCorrect == ASSUME SweepSpans PROVE Spec => []SweepSees
<1>1. Init => SweepIInv BY DEF Init, SweepIInv, SweepInv, SweepSees
<1>2. SweepIInv => SweepSees BY DEF SweepIInv
<1> QED BY <1>1, <1>2, TypeInit, TypeStep, OrderlyInit, OrderlyStep, SweepStep, PTL DEF Spec

-----------------------------------------------------------------------------
(* What the loop around the dialog is promised *)

\* Before the publish button is pressed iSpring sends nothing; a wait that ends well has
\* seen the deck sent; and what is sent is in the cloud.
SendInv ==
  /\ upload # "no" => pc \in {"wait", "close", "uploaded", "failed"}
  /\ pc \in {"close", "uploaded"} => upload = "sent"
  /\ upload = "sent" => decks[chosen] > 0

\* The steps up to the button.
Choosing ==
  \/ OpenPublishDialog \/ ChooseCloudDestination \/ NameContent \/ Browse
  \/ ResolveParent \/ NotInTree \/ ClickBranch \/ LookAtBranch
  \/ FindFolder \/ WheelStep \/ EndSweep \/ SweepAgain \/ ClickFolder \/ SelectProject

\* They send nothing, and end with the button, without the folder, or in an error.
LEMMA ChoosingStep ==
  ASSUME TypeOK, SendInv, Choosing
  PROVE  /\ upload = "no" /\ UNCHANGED cloudVars
         /\ pc \notin {"wait", "close", "uploaded", "missing", "failed"}
         /\ pc' \notin {"wait", "close", "uploaded"}
<1> USE DEF SendInv, TypeOK, Goto, Fails
<1>1. CASE OpenPublishDialog \/ ChooseCloudDestination \/ NameContent \/ Browse
  BY <1>1 DEF OpenPublishDialog, ChooseCloudDestination, NameContent, Browse
<1>2. CASE ResolveParent \/ NotInTree \/ ClickBranch \/ LookAtBranch
  BY <1>2 DEF ResolveParent, NotInTree, ClickBranch, LookAtBranch, StartSweep
<1>3. CASE FindFolder \/ WheelStep \/ EndSweep \/ SweepAgain
  BY <1>3 DEF FindFolder, WheelStep, EndSweep, SweepAgain, StartSweep
<1>4. CASE ClickFolder \/ SelectProject
  BY <1>4 DEF ClickFolder, SelectProject
<1> QED BY <1>1, <1>2, <1>3, <1>4 DEF Choosing

LEMMA SendStep == TypeOK /\ SendInv /\ [Next]_vars => SendInv'
<1> SUFFICES ASSUME TypeOK, SendInv, [Next]_vars PROVE SendInv' OBVIOUS
<1> USE DEF SendInv, Goto, Fails
<1>1. CASE Choosing BY <1>1, ChoosingStep
<1>2. CASE PressPublish BY <1>2 DEF PressPublish
<1>3. CASE ConfirmOverwrite BY <1>3 DEF ConfirmOverwrite
<1>4. CASE Complete \/ TimesOut \/ CloseWindows
  BY <1>4 DEF Complete, TimesOut, CloseWindows
<1>5. CASE PublishAgain BY <1>5 DEF PublishAgain
<1>6. CASE PageLists \/ PageFills BY <1>6 DEF PageLists, PageFills
<1>7. CASE CloudTakes
  <2>1. decks'[chosen'] > 0 BY <1>7, ConstantFacts DEF CloudTakes, TypeOK, Higher
  <2> QED BY <1>7, <2>1 DEF CloudTakes
<1>8. CASE UNCHANGED vars BY <1>8
<1> QED
  BY <1>1, <1>2, <1>3, <1>4, <1>5, <1>6, <1>7, <1>8 DEF Next, WorkerStep, Choosing

LEMMA ContractStep ==
  TypeOK /\ SendInv /\ [Next]_vars => [Contract!Next]_(Contract!vars)
<1> SUFFICES ASSUME TypeOK, SendInv, [Next]_vars
             PROVE  Contract!Next \/ UNCHANGED Contract!vars
  OBVIOUS
<1> USE DEF SendInv, Goto, Fails
<1>1. CASE Choosing
  <2> USE <1>1, ChoosingStep
  <2>1. pc' = "missing" \/ pc' = "failed" \/ pc' \notin {"missing", "failed"} OBVIOUS
  <2>2. CASE pc' = "missing" BY <2>2 DEF Contract!Next, Contract!Miss
  <2>3. CASE pc' = "failed" BY <2>3 DEF Contract!Next, Contract!Fail
  <2>4. CASE pc' \notin {"missing", "failed"} BY <2>4 DEF Contract!vars
  <2> QED BY <2>1, <2>2, <2>3, <2>4
<1>2. CASE PressPublish
  BY <1>2 DEF PressPublish, Contract!Next, Contract!Press, Contract!Fail
<1>3. CASE ConfirmOverwrite BY <1>3 DEF ConfirmOverwrite, Contract!vars
<1>4. CASE Complete BY <1>4 DEF Complete, Contract!vars
<1>5. CASE TimesOut BY <1>5 DEF TimesOut, Contract!Next, Contract!Fail
<1>6. CASE CloseWindows
  BY <1>6 DEF CloseWindows, Contract!Next, Contract!Return, Contract!Fail
<1>7. CASE PublishAgain BY <1>7 DEF PublishAgain, Contract!Next, Contract!CallAgain
<1>8. CASE PageLists \/ PageFills \/ UNCHANGED vars
  BY <1>8 DEF PageLists, PageFills, Contract!vars
<1>9. CASE CloudTakes
  <2>1. decks'[chosen'] > 0 BY <1>9, ConstantFacts DEF CloudTakes, TypeOK, Higher
  <2>2. pc \in {"wait", "failed"} /\ pc' = pc /\ upload # "sent" /\ upload' = "sent"
    BY <1>9 DEF CloudTakes
  <2> QED BY <2>1, <2>2 DEF Contract!Next, Contract!Arrive
<1> QED
  BY <1>1, <1>2, <1>3, <1>4, <1>5, <1>6, <1>7, <1>8, <1>9 DEF Next, WorkerStep, Choosing

\* The dialog keeps its word to run_cloud_job (ispring_cloud.py:1049), for any picker and any
\* faults: it ends well only when the deck has been sent, says that the folder is missing only
\* when nothing was, and only after another error may the deck still arrive.
THEOREM ContractCorrect == Spec => KeepsDialogContract
<1>1. Init => SendInv BY DEF Init, SendInv
<1>2. Init => Contract!Init BY DEF Init, Contract!Init
<1> QED
  BY <1>1, <1>2, TypeInit, TypeStep, SendStep, ContractStep,
     PTL DEF Spec, KeepsDialogContract, Contract!Spec

-----------------------------------------------------------------------------
(* The dialog cannot go on for ever *)

\* The wheel steps of a sweep, and with its end and the look at the clock its steps.
Pass == SweepPasses * SweepSteps
RoundSteps == Pass + 2

\* How many steps the sweeps after this one have.
LaterSweeps == (Rounds - round) * RoundSteps

\* How many there are from the beginning of this sweep.
FromSweep == 8 + Pass + LaterSweeps

\* How many steps the dialog has left.
StepsLeft ==
  CASE pc = "dialog"      -> FromSweep + 9
    [] pc = "destination" -> FromSweep + 8
    [] pc = "name"        -> FromSweep + 7
    [] pc = "browse"      -> FromSweep + 6
    [] pc = "resolve"     -> FromSweep + 5
    [] pc = "expand"      -> FromSweep + 4 - 2 * clicks
    [] pc = "look"        -> FromSweep + 5 - 2 * clicks
    [] pc = "sweep"       -> FromSweep - steps
    [] pc = "again"       -> 7 + LaterSweeps
    [] pc = "click"       -> 6
    [] pc = "select"      -> 5
    [] pc = "publish"     -> 4
    [] pc = "wait"        -> IF upload = "asks" THEN 3 ELSE 2
    [] pc = "close"       -> 1
    [] OTHER              -> 0

LEMMA StepNumbers ==
  ASSUME TypeOK
  PROVE  /\ Pass \in Nat /\ RoundSteps = Pass + 2
         /\ clicks \in {0, 1, 2} /\ steps \in Nat /\ steps <= Pass
         /\ LaterSweeps \in Nat /\ FromSweep = 8 + Pass + LaterSweeps
         /\ Rounds * RoundSteps \in Nat
         /\ LaterSweeps <= Rounds * RoundSteps - RoundSteps
<1>1. Pass \in Nat /\ Rounds \in Nat /\ round \in 1..Rounds
  BY ConstantFacts DEF Pass, TypeOK
<1>2. RoundSteps \in Nat /\ RoundSteps = Pass + 2 BY <1>1 DEF RoundSteps
<1>3. PICK k \in Nat : k = Rounds - round /\ k <= Rounds - 1 BY <1>1
<1>4. \A m, n, g \in Nat : m <= n => m * g <= n * g /\ m * g \in Nat OBVIOUS
<1>5. Rounds - 1 \in Nat BY <1>1
<1>6. k * RoundSteps \in Nat /\ k * RoundSteps <= (Rounds - 1) * RoundSteps
  BY <1>2, <1>3, <1>4, <1>5
<1>7. (Rounds - 1) * RoundSteps = Rounds * RoundSteps - RoundSteps
      /\ Rounds * RoundSteps \in Nat
  BY <1>1, <1>2
<1>8. LaterSweeps = k * RoundSteps BY <1>3 DEF LaterSweeps
<1>9. clicks \in {0, 1, 2} /\ steps \in Nat /\ steps <= Pass
  BY <1>1 DEF TypeOK, Pass
<1> QED BY <1>1, <1>2, <1>6, <1>7, <1>8, <1>9 DEF FromSweep

\* A further sweep is one of those that were left.
LEMMA SweepUsed ==
  ASSUME TypeOK, round' = round + 1
  PROVE  LaterSweeps' = LaterSweeps - RoundSteps
<1>1. PICK k \in Int : k = Rounds - round BY ConstantFacts DEF TypeOK
<1>2. Rounds - (round + 1) = k - 1 BY <1>1, ConstantFacts DEF TypeOK
<1>3. RoundSteps \in Nat /\ RoundSteps' = RoundSteps BY StepNumbers DEF RoundSteps, Pass
<1>4. (k - 1) * RoundSteps = k * RoundSteps - RoundSteps BY <1>3
<1> QED BY <1>1, <1>2, <1>3, <1>4 DEF LaterSweeps

LEMMA ShorterStep == TypeOK /\ WorkerStep => StepsLeft' < StepsLeft
<1> SUFFICES ASSUME TypeOK, WorkerStep PROVE StepsLeft' < StepsLeft OBVIOUS
<1>n. /\ Pass \in Nat /\ Pass' = Pass /\ RoundSteps = Pass + 2
      /\ clicks \in {0, 1, 2} /\ steps \in Nat /\ steps <= Pass
      /\ LaterSweeps \in Nat /\ FromSweep = 8 + Pass + LaterSweeps
  BY StepNumbers DEF Pass
<1>r. round' = round => LaterSweeps' = LaterSweeps /\ FromSweep' = FromSweep
  BY DEF LaterSweeps, FromSweep, RoundSteps, Pass
<1> USE DEF Goto, Fails
<1>1. CASE OpenPublishDialog \/ ChooseCloudDestination \/ NameContent \/ Browse
  BY <1>n, <1>r, <1>1
  DEF OpenPublishDialog, ChooseCloudDestination, NameContent, Browse, StepsLeft
<1>2. CASE ResolveParent BY <1>n, <1>r, <1>2 DEF ResolveParent, StepsLeft
<1>3. CASE NotInTree BY <1>n, <1>r, <1>3 DEF NotInTree, StartSweep, StepsLeft
<1>4. CASE ClickBranch BY <1>n, <1>r, <1>4 DEF ClickBranch, StepsLeft
<1>5. CASE LookAtBranch
  <2>1. round' = round /\ clicks' = clicks BY <1>5 DEF LookAtBranch
  <2>2. CASE StartSweep
    BY <1>n, <1>r, <1>5, <2>1, <2>2 DEF LookAtBranch, StartSweep, StepsLeft
  <2>3. CASE pc' = "expand"
    BY <1>n, <1>r, <1>5, <2>1, <2>3 DEF LookAtBranch, StepsLeft
  <2> QED BY <1>5, <2>2, <2>3 DEF LookAtBranch
<1>6. CASE FindFolder BY <1>n, <1>r, <1>6 DEF FindFolder, StepsLeft
<1>7. CASE WheelStep BY <1>n, <1>r, <1>7 DEF WheelStep, StepsLeft
<1>8. CASE EndSweep BY <1>n, <1>r, <1>8 DEF EndSweep, StepsLeft
<1>9. CASE SweepAgain
  <2>1. pc = "again" /\ StepsLeft = 7 + LaterSweeps
    BY <1>9 DEF SweepAgain, StepsLeft
  <2>2. CASE round' = round + 1 /\ StartSweep
    <3>1. LaterSweeps' = LaterSweeps - RoundSteps BY <2>2, SweepUsed
    <3>2. StepsLeft' = 8 + Pass + LaterSweeps'
      BY <1>n, <2>2, <3>1 DEF StartSweep, StepsLeft, FromSweep
    <3> QED BY <1>n, <2>1, <3>1, <3>2
  <2>3. CASE pc' = "missing" BY <1>n, <2>1, <2>3 DEF StepsLeft
  <2> QED BY <1>9, <2>2, <2>3 DEF SweepAgain
<1>10. CASE ClickFolder \/ SelectProject
  BY <1>10 DEF ClickFolder, SelectProject, StepsLeft
<1>11. CASE PressPublish BY <1>11 DEF PressPublish, StepsLeft
<1>12. CASE ConfirmOverwrite BY <1>12 DEF ConfirmOverwrite, StepsLeft
<1>13. CASE Complete \/ TimesOut \/ CloseWindows
  BY <1>13 DEF Complete, TimesOut, CloseWindows, StepsLeft
<1> QED
  BY <1>1, <1>2, <1>3, <1>4, <1>5, <1>6, <1>7, <1>8, <1>9, <1>10, <1>11, <1>12, <1>13
  DEF WorkerStep

\* A dialog takes no more steps than its sweeps and their passes allow, for any page and any
\* faults: each step of the worker is one towards the end, and nothing that the page or
\* iSpring does takes one back (the loop of pick_project, "Then keep looking until it turns
\* up").  With a worker whose waits have limits this is why DialogEnds holds.
THEOREM StepsCorrect ==
  Spec => /\ [](StepsLeft \in 0..Rounds * RoundSteps + 15)
          /\ [][/\ WorkerStep => StepsLeft' < StepsLeft
                /\ PageLists \/ PageFills \/ CloudTakes => StepsLeft' = StepsLeft]_vars
<1>1. TypeOK => StepsLeft \in 0..Rounds * RoundSteps + 15
  <2> SUFFICES ASSUME TypeOK PROVE StepsLeft \in 0..Rounds * RoundSteps + 15 OBVIOUS
  <2>1. PICK all \in Nat : all = Rounds * RoundSteps BY StepNumbers
  <2>2. StepsLeft \in Nat /\ StepsLeft <= FromSweep + 9
    BY StepNumbers DEF StepsLeft
  <2>3. FromSweep \in Nat /\ FromSweep <= all + 6 BY <2>1, StepNumbers
  <2> QED BY <2>1, <2>2, <2>3
<1>2. PageLists \/ PageFills \/ CloudTakes => StepsLeft' = StepsLeft
  BY DEF PageLists, PageFills, CloudTakes, StepsLeft, FromSweep, LaterSweeps, RoundSteps, Pass
<1> QED BY TypeCorrect, <1>1, <1>2, ShorterStep, PTL
=============================================================================
