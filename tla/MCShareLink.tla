------------------------------ MODULE MCShareLink ------------------------------
(* Values for the constants of ShareLink. *)
EXTENDS ShareLink, TLC

CONSTANTS first, second, older, acme, acmeOld, newAcme, week1, week2, week10

MCPublished == <<first, second>>
MCContained == {<<t, t>> : t \in Title} \cup {<<week1, week10>>}
MCHome == <<acme, acmeOld>>

\* "Acme" under both projects, and another institution, "New Acme".
MCNamesakes == (acme :> {acme, acmeOld}) @@ (acmeOld :> {acme, acmeOld}) @@ (newAcme :> {newAcme})
MCAlike == (acme :> {acme, newAcme}) @@ (acmeOld :> {acmeOld, newAcme}) @@ (newAcme :> {newAcme})
MCApart == (acme :> {acme}) @@ (acmeOld :> {acmeOld}) @@ (newAcme :> {newAcme})

SceneOf(titles, alike, namesakes, faults) ==
  [title |-> (first :> titles[1]) @@ (second :> titles[2]) @@ (older :> titles[3]),
   home |-> MCHome, alike |-> alike, namesakes |-> namesakes, faults |-> faults]

MCScenes ==
  {\* Titles that contain one another, and decks that are listed late.
   SceneOf(<<week1, week2, week10>>, MCAlike, MCNamesakes, {"late", "misplaced"}),
   \* A switch that is hard to read.
   SceneOf(<<week1, week2, week10>>, MCApart, MCApart, {"lag", "unmarked"}),
   \* Two servers that gave their jobs the same number, and nothing late.
   SceneOf(<<week1, week1, week10>>, MCApart, MCApart, {})}

\* The same two servers, and decks that are listed late.
MCTwinScenes == {SceneOf(<<week1, week1, week10>>, MCApart, MCApart, {"late"})}
===============================================================================
