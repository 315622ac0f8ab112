------------------------- MODULE MCTransactionStore -------------------------
(***************************************************************************)
(* Small instances of TransactionStore for TLC.                            *)
(***************************************************************************)
EXTENDS TransactionStore, TLC

CONSTANTS t1, t2, o1, o2, o3, o4, admin, boss, w1, w2, w3

Sent(op, kind, tx, actor, base, status) ==
    [op |-> op, kind |-> kind, tx |-> tx, actor |-> actor, base |-> base,
     status |-> status, legacy |-> FALSE, valid |-> TRUE]

(* A transaction whose first revision is paid and printed. *)
PrintedOnce ==
    [revision |-> 1, owner |-> admin, method |-> "legacy",
     payment |-> "success", confirmed |-> 1,
     print |-> "success", printed |-> 1, deleted |-> FALSE]

ExistingRows == {PrintedOnce}

(***************************************************************************)
(* What contends for one row: two corrections of one revision, each of     *)
(* which may be sent again, a correction chained on them, a deletion, and  *)
(* the row's creation.                                                     *)
(***************************************************************************)
ContendedRequests ==
    {Sent(o1, "correct", t1, admin, 1, "pending"),
     Sent(o2, "correct", t1, boss, 1, "pending"),
     Sent(o3, "correct", t1, admin, 2, "pending"),
     Sent(o4, "create", t1, admin, 0, "pending"),
     Sent(Direct, "delete", t1, boss, 0, "pending")}

WorkerSymmetry == Permutations(Worker)
=============================================================================
