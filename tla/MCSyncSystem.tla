---------------------------- MODULE MCSyncSystem ----------------------------
(***************************************************************************)
(* Small instances of SyncSystem for TLC.                                  *)
(***************************************************************************)
EXTENDS SyncSystem

CONSTANTS t1, t2, o1, o2, o3, cashier, boss

(* A transaction of the cashier that the device and the server share. *)
SharedRow ==
    [revision |-> 1, owner |-> cashier, method |-> "selectable",
     payment |-> "success", confirmed |-> 1,
     print |-> "pending", printed |-> 0, deleted |-> FALSE]

ExistingRows == {SharedRow}

Elsewhere(kind, t, base) ==
    [op |-> Direct, kind |-> kind, tx |-> t, actor |-> boss, base |-> base,
     status |-> "pending", legacy |-> FALSE, valid |-> TRUE]

(* Another client corrects the first revision, and one deletes. *)
OtherRequests ==
    UNION {{Elsewhere("correct", t, 1), Elsewhere("delete", t, 0)} : t \in Txn}

(* Another client corrects the first revision. *)
OneCorrection == {Elsewhere("correct", t1, 1)}

OperationSymmetry == Permutations(OpId)
=============================================================================
