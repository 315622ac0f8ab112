------------------------- MODULE MCSandboxLifecycle -------------------------
(***************************************************************************)
(* Small instances of SandboxLifecycle for TLC.                            *)
(***************************************************************************)
EXTENDS SandboxLifecycle, TLC

CONSTANTS w1, w2, w3

WorkerSymmetry == Permutations(Worker)
=============================================================================
