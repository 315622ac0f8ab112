---------------------------- MODULE MCCatalogue -----------------------------
(***************************************************************************)
(* Small instances of Catalogue for TLC.                                   *)
(***************************************************************************)
EXTENDS Catalogue

CONSTANTS p1, w1, w2

(* Packages are edited, or the settings; a package is there to be sold.     *)
MCTraffic == {{"create", "update", "delete"}, {"create", "setting"}}

WorkerSymmetry == Permutations(Worker)
=============================================================================
