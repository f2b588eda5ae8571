-------------------------- MODULE MCInstitutionFolder --------------------------
(* Instances of InstitutionFolder for TLC: three names, two of which differ in *)
(* their spaces only, and three parents, one of them remembered only.          *)
EXTENDS InstitutionFolder, TLC

CONSTANTS old, new, other, lawSikho, lawsikho, acme

MCParentFolders == <<new, other>>
MCSquash == (lawSikho :> "lawsikho") @@ (lawsikho :> "lawsikho") @@ (acme :> "acme")
=============================================================================
