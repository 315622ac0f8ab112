------------------------------- MODULE PgLocks -------------------------------
(***************************************************************************)
(* The locks the backend takes in PostgreSQL: rows FOR SHARE or FOR UPDATE *)
(* (an UPDATE or DELETE of a row takes the second), and transaction-level  *)
(* advisory locks, shared or exclusive.  A lock is held from the statement *)
(* that takes it to the end of its database transaction.                   *)
(***************************************************************************)

Share(resource)  == [on |-> resource, exclusive |-> FALSE]
Update(resource) == [on |-> resource, exclusive |-> TRUE]

ShareAll(resources)  == {Share(r) : r \in resources}
UpdateAll(resources) == {Update(r) : r \in resources}

(* Two locks of different transactions that cannot be held together. *)
Conflict(a, b) == a.on = b.on /\ (a.exclusive \/ b.exclusive)

Grantable(wanted, heldByOthers) ==
    \A a \in wanted, b \in heldByOthers : ~Conflict(a, b)
=============================================================================
