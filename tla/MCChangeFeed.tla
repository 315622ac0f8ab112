---------------------------- MODULE MCChangeFeed ----------------------------
(***************************************************************************)
(* Small instances of ChangeFeed for TLC.                                  *)
(***************************************************************************)
EXTENDS ChangeFeed

CONSTANTS t1, t2, o1, o2, o3, admin, boss, w1, w2

Sent(op, kind, tx, actor, base, status) ==
    [op |-> op, kind |-> kind, tx |-> tx, actor |-> actor, base |-> base,
     status |-> status, legacy |-> FALSE, valid |-> TRUE]

(* A transaction of revision 1, paid and printed. *)
PaidRow1 ==
    [revision |-> 1, owner |-> admin, method |-> "selectable",
     payment |-> "success", confirmed |-> 1,
     print |-> "success", printed |-> 1, deleted |-> FALSE]

UnpaidRow ==
    [revision |-> 1, owner |-> admin, method |-> "legacy",
     payment |-> "pending", confirmed |-> 0,
     print |-> "pending", printed |-> 0, deleted |-> FALSE]
ExistingRows == {PaidRow1, UnpaidRow}

(* A correction, a print, a payment and a deletion of one row; and one of: *)
(* a print of its next revision, a legacy correction, and the creation of  *)
(* it or of another.                                                       *)
FeedRequests ==
    {Sent(o1, "correct", t1, admin, 1, "pending"),
     Sent(o2, "print", t1, admin, 1, "failed"),
     Sent(o3, "print", t1, admin, 2, "success"),
     Sent(Direct, "delete", t1, boss, 0, "pending"),
     Sent(o3, "create", t2, admin, 0, "pending"),
     Sent(o3, "create", t1, admin, 0, "pending"),
     Sent(Direct, "payment", t1, boss, 1, "success"),
     [Sent(o3, "correct", t1, admin, 1, "pending") EXCEPT !.legacy = TRUE]}

WorkerSymmetry == Permutations(Worker)
=============================================================================
