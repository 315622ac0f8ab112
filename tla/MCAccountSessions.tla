-------------------------- MODULE MCAccountSessions --------------------------
(***************************************************************************)
(* Small instances of AccountSessions for TLC.                             *)
(***************************************************************************)
EXTENDS AccountSessions, TLC

CONSTANTS w1, w2

(* Nobody, or a superadmin and an admin. *)
MCStaff ==
    {[u \in 1 .. 2 |-> "none"],
     [u \in 1 .. 2 |-> IF u = 1 THEN "superadmin" ELSE "admin"]}

(* Requests that meet: over a password, over a session, over an account,   *)
(* over the superadmins, and over the tenant and its terminal.             *)
MCTraffic ==
    {{"login", "own", "reset"}, {"reset", "switch", "upgrade"},
     {"login", "own", "switch", "status"},
     {"upgrade", "switch", "logout"},
     {"login", "update", "status"}, {"update", "switch", "upgrade"},
     {"create", "update", "operator", "first"},
     {"login", "switch", "terminal", "status"}}

WorkerSymmetry == Permutations(Worker)
=============================================================================
