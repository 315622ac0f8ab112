------------------------------- MODULE Outbox -------------------------------
(***************************************************************************)
(* The encrypted SQLite file of one device: its copies of transactions,    *)
(* the revisions it authored, the FIFO outbox of signed operations and the *)
(* revision conflicts that wait for a decision.  Every operator below is   *)
(* one local database transaction; SyncSystem runs them.                   *)
(*                                                                         *)
(* Money and items are abstracted to their author: a revision's content is *)
(* known by its number and the operation that made it.  Printing and the   *)
(* quarantine of a scope are left out.  Nothing in the app sends           *)
(* set_payment_status: no screen calls setPaymentStatus.                   *)
(***************************************************************************)
EXTENDS TransactionRules, FiniteSets, SequencesExt

VARIABLES
    local,      \* transactions: the copy each identifier has
    syncState,  \* transactions.sync_state
    history,    \* transaction_revisions authored here, with before_json
    outbox,     \* outbox_operations in rowid order
    conflicts,  \* sync_conflicts that are not resolved
    draft       \* a correction between its reads and its write

deviceVars == <<local, syncState, history, outbox, conflicts, draft>>

(* by: the operation whose content it is, Direct for another client's.     *)
(* paid: payment_status = success, confirmed for this revision.            *)
Copy == [revision : Nat \ {0}, by : OpId \cup {Direct}, paid : BOOLEAN,
         deleted : BOOLEAN]

ASSUME CopyAssumption == NoRow \notin Copy

SyncState == {"pending", "error", "conflict", "synced"}
OpState == {"pending", "synced", "conflict", "rejected", "resolved"}
Unfinished == {"pending", "conflict", "rejected"}

(***************************************************************************)
(* One outbox operation.  valid says whether its payload passes the        *)
(* server's validation.  basis, clean and failed are history: the copy the *)
(* user corrected, whether that was still the device's copy when the       *)
(* correction was written, and whether an answer was a server error.       *)
(***************************************************************************)
Operation == [op : OpId, tx : Txn, kind : {"create", "correct"}, base : Nat,
              valid : BOOLEAN, state : OpState, basis : Copy \cup {NoRow},
              clean : BOOLEAN, failed : BOOLEAN]

Snapshot == [tx : Txn, revision : Nat \ {0}, before : Copy \cup {NoRow}]
Conflict == [tx : Txn, local : Copy, server : Copy]
NoDraft == [open |-> FALSE]

OutboxTypeOK ==
    /\ local \in [Txn -> Copy \cup {NoRow}]
    /\ syncState \in [Txn -> SyncState]
    /\ history \subseteq Snapshot
    /\ outbox \in Seq(Operation)
    /\ conflicts \subseteq Conflict
    /\ \/ draft = NoDraft
       \/ draft \in [open : {TRUE}, tx : Txn, before : Copy]

-----------------------------------------------------------------------------
(* Some operation of t in the queue book is in one of states. *)
Has(book, t, states) ==
    \E i \in DOMAIN book : book[i].tx = t /\ book[i].state \in states

(* The queue after its operations at these positions have gone to state. *)
Moved(book, positions, state) ==
    [i \in DOMAIN book |->
        IF i \in positions THEN [book[i] EXCEPT !.state = state] ELSE book[i]]

(* UPDATE outbox_operations ... WHERE dependency_key = t AND state IN from. *)
MovedFrom(book, t, from, state) ==
    Moved(book, {i \in DOMAIN book : book[i].tx = t /\ book[i].state \in from},
          state)

NewOperation(o, t, kind, base, valid, basis, clean) ==
    [op |-> o, tx |-> t, kind |-> kind, base |-> base, valid |-> valid,
     state |-> "pending", basis |-> basis, clean |-> clean, failed |-> FALSE]

(* Identifiers are random UUIDs. *)
Fresh(o) == \A i \in DOMAIN outbox : outbox[i].op # o

(* Mutant of Sendable: every pending operation is sent. *)
SendableOutOfOrder(i) == outbox[i].state = "pending"

(* Mutant of Sendable: a predecessor blocks also once it is resolved. *)
SendableNeverAfterResolved(i) ==
    /\ outbox[i].state = "pending"
    /\ \A j \in 1 .. i - 1 :
          outbox[j].tx = outbox[i].tx => outbox[j].state = "synced"

(***************************************************************************)
(* getOutboxOperations: pending, and no unfinished operation of the same   *)
(* transaction before it.                                                  *)
(***************************************************************************)
Sendable(i) ==
    /\ outbox[i].state = "pending"
    /\ \A j \in 1 .. i - 1 :
          outbox[j].tx = outbox[i].tx => outbox[j].state \notin Unfinished

(* hasTerminalTransactionBlock. *)
Blocked(t) == Has(outbox, t, {"conflict", "rejected"})

-----------------------------------------------------------------------------
(***************************************************************************)
(* What the user does.                                                     *)
(***************************************************************************)
Create(t, o, valid) ==
    /\ local[t] = NoRow
    /\ Fresh(o)
    /\ local' = [local EXCEPT ![t] =
          [revision |-> 1, by |-> o, paid |-> TRUE, deleted |-> FALSE]]
    /\ syncState' = [syncState EXCEPT ![t] = "pending"]
    /\ history' = history \cup {[tx |-> t, revision |-> 1, before |-> NoRow]}
    /\ outbox' = Append(outbox,
          NewOperation(o, t, "create", 0, valid, NoRow, TRUE))
    /\ UNCHANGED <<conflicts, draft>>

(***************************************************************************)
(* correctTransactionLocal reads the transaction and what blocks it, then  *)
(* signs; the writes come in a later local transaction.                    *)
(***************************************************************************)
BeginCorrection(t) ==
    /\ draft = NoDraft
    /\ local[t] # NoRow
    /\ ~local[t].deleted
    /\ syncState[t] # "conflict"
    /\ ~Blocked(t)
    /\ draft' = [open |-> TRUE, tx |-> t, before |-> local[t]]
    /\ UNCHANGED <<local, syncState, history, outbox, conflicts>>

(* transaction_revisions has one row per transaction and revision. *)
RevisionTaken(t, n) == \E h \in history : h.tx = t /\ h.revision = n

(***************************************************************************)
(* The write checks nothing again: UPDATE transactions WHERE id = ?, with  *)
(* every column but deleted_at computed from the earlier read.             *)
(***************************************************************************)
SaveCorrection(o, valid) ==
    LET t == draft.tx
        before == draft.before
    IN /\ draft # NoDraft
       /\ ~RevisionTaken(t, before.revision + 1)
       /\ Fresh(o)
       /\ local' = [local EXCEPT ![t] =
             [revision |-> before.revision + 1, by |-> o, paid |-> TRUE,
              deleted |-> local[t].deleted]]
       /\ syncState' = [syncState EXCEPT ![t] = "pending"]
       /\ history' = history \cup
             {[tx |-> t, revision |-> before.revision + 1, before |-> before]}
       /\ outbox' = Append(outbox,
             NewOperation(o, t, "correct", before.revision, valid, before,
                          local[t] = before /\ ~Blocked(t)))
       /\ draft' = NoDraft
       /\ UNCHANGED conflicts

(* The revision is there already: the insert fails, the save rolls back. *)
FailCorrection ==
    /\ draft # NoDraft
    /\ RevisionTaken(draft.tx, draft.before.revision + 1)
    /\ draft' = NoDraft
    /\ UNCHANGED <<local, syncState, history, outbox, conflicts>>

(***************************************************************************)
(* discardRejectedOutboxOperationLocal, of a transaction whose creation    *)
(* was not rejected: a rejected creation keeps its payment as evidence     *)
(* (MarkRejected) and discarding it is refused.  The first rejected        *)
(* correction's snapshot becomes the transaction again.                    *)
(***************************************************************************)
Rejected(t) ==
    {i \in DOMAIN outbox : outbox[i].tx = t /\ outbox[i].state = "rejected"}

(* deleteTransactionArtifactsFromRevision *)
Forgotten(book, t, from) ==
    {h \in book : ~(h.tx = t /\ h.revision >= from)}

Discard(t) ==
    /\ Rejected(t) # {}
    /\ ~Has(outbox, t, {"conflict"})
    /\ \A i \in Rejected(t) : /\ outbox[i].kind = "correct"
                              /\ RevisionTaken(t, outbox[i].base + 1)
    /\ LET first == CHOOSE i \in Rejected(t) : \A j \in Rejected(t) : i <= j
           saved == CHOOSE h \in history :
                       h.tx = t /\ h.revision = outbox[first].base + 1
       IN /\ local' = [local EXCEPT ![t] = saved.before]
          /\ history' = Forgotten(history, t, saved.before.revision + 1)
    /\ syncState' = [syncState EXCEPT ![t] = "synced"]
    /\ outbox' = MovedFrom(outbox, t, {"rejected"}, "resolved")
    /\ UNCHANGED <<conflicts, draft>>

(***************************************************************************)
(* resolveConflictLocal.  It signs before it writes, but its transaction   *)
(* checks that the conflict is still the one it read, so the two are one   *)
(* step here.                                                              *)
(***************************************************************************)
Settled(t) == MovedFrom(outbox, t, {"conflict", "rejected"}, "resolved")

ResolveWithServer(c) ==
    /\ c \in conflicts
    /\ Has(outbox, c.tx, {"conflict"})
    /\ local' = [local EXCEPT ![c.tx] = c.server]
    /\ syncState' = [syncState EXCEPT ![c.tx] = "synced"]
    /\ history' = Forgotten(history, c.tx, c.local.revision)
    /\ outbox' = Settled(c.tx)
    /\ conflicts' = conflicts \ {c}
    /\ UNCHANGED draft

ResolveWithRetry(c, o) ==
    LET kept == Forgotten(history, c.tx, c.local.revision)
        next == c.server.revision + 1
    IN /\ c \in conflicts
       /\ Has(outbox, c.tx, {"conflict"})
       /\ ~c.server.deleted
       /\ Fresh(o)
       /\ ~\E h \in kept : h.tx = c.tx /\ h.revision = next
       /\ local' = [local EXCEPT ![c.tx] =
             [c.local EXCEPT !.revision = next, !.by = o, !.paid = FALSE]]
       /\ syncState' = [syncState EXCEPT ![c.tx] = "pending"]
       /\ history' = kept \cup
             {[tx |-> c.tx, revision |-> next, before |-> c.server]}
       /\ outbox' = Append(Settled(c.tx),
             NewOperation(o, c.tx, "correct", c.server.revision, TRUE, c.server,
                          TRUE))
       /\ conflicts' = conflicts \ {c}
       /\ UNCHANGED draft

-----------------------------------------------------------------------------
(***************************************************************************)
(* markOutboxResult, for the operation at position i of the queue.         *)
(***************************************************************************)
MarkApplied(i) ==
    LET t == outbox[i].tx
    IN /\ outbox' = [outbox EXCEPT ![i].state = "synced"]
       /\ syncState' = [syncState EXCEPT ![t] =
             IF Has(outbox', t, Unfinished) THEN "pending" ELSE "synced"]
       /\ UNCHANGED <<local, history, conflicts, draft>>

(* Mutant of StoppedAt: the later operations stay in the queue. *)
StoppedAlone(i, state) == [outbox EXCEPT ![i].state = state]

(* The operation stops in state, and so do the pending ones behind it. *)
StoppedAt(i, state) ==
    Moved([outbox EXCEPT ![i].state = state],
          {j \in DOMAIN outbox : /\ j > i
                                 /\ outbox[j].tx = outbox[i].tx
                                 /\ outbox[j].state = "pending"},
          "rejected")

(* A paid creation keeps its payment as evidence of the sale; a correction *)
(* loses the confirmation it was shown with.                               *)
MarkRejected(i, failed) ==
    LET t == outbox[i].tx
    IN /\ outbox' = [StoppedAt(i, "rejected") EXCEPT ![i].failed = failed]
       /\ local' = IF outbox[i].kind = "create" THEN local
                   ELSE [local EXCEPT ![t].paid = FALSE]
       /\ syncState' = [syncState EXCEPT ![t] = "error"]
       /\ UNCHANGED <<history, conflicts, draft>>

(* The server's snapshot is laid over the local copy (mergeSnapshot), which *)
(* keeps the copy's deletion.                                              *)
MarkConflict(i, server) ==
    LET t == outbox[i].tx
        Merged(revision, by, paid) ==
            [local[t] EXCEPT !.revision = revision, !.by = by, !.paid = paid]
    IN /\ outbox' = StoppedAt(i, "conflict")
       /\ local' = [local EXCEPT ![t].paid = FALSE]
       /\ syncState' = [syncState EXCEPT ![t] = "conflict"]
       /\ conflicts' = conflicts \cup
             {[tx |-> t,
               local |-> Merged(outbox[i].base + 1, outbox[i].op, TRUE),
               server |-> Merged(server.revision, server.by, server.paid)]}
       /\ UNCHANGED <<history, draft>>

-----------------------------------------------------------------------------
(***************************************************************************)
(* applyRemoteChanges installs a page in one local transaction: a fold of  *)
(* Installed over its changes.  A change of a page carries row, the        *)
(* server's current copy, unless it is a tombstone.                        *)
(***************************************************************************)
Device == [local |-> local, syncState |-> syncState, history |-> history,
           outbox |-> outbox, conflicts |-> conflicts]

(* recomputeTransactionSyncState, when no operation of t is rejected. *)
Recomputed(book, t) ==
    IF Has(book, t, {"conflict"}) THEN "conflict"
    ELSE IF Has(book, t, {"pending"}) THEN "pending"
    ELSE "synced"

(* Mutant of Refreshed: the conflict keeps the snapshot it was found with. *)
NotRefreshed(table, change) == table

(* The server side of an unresolved conflict follows the changes. *)
Refreshed(table, change) ==
    {IF c.tx # change.tx THEN c
     ELSE [c EXCEPT !.server = IF change.tombstone
                               THEN [@ EXCEPT !.deleted = TRUE]
                               ELSE change.row] : c \in table}

(* Mutant of Unblocked: the change also ends an undecided conflict. *)
UnblockedAll(book, t) == MovedFrom(book, t, {"conflict", "rejected"}, "resolved")

(* The rejected operations of a transaction are over when it is pulled. *)
Unblocked(book, t) == MovedFrom(book, t, {"rejected"}, "resolved")

(* Mutant of Replaced: a copy with operations in the queue is kept. *)
ReplacedUnlessUnfinished(dev, change) ==
    LET t == change.tx
    IN IF Has(dev.outbox, t, Unfinished) THEN dev.local
       ELSE [dev.local EXCEPT ![t] =
               IF ~change.tombstone THEN change.row
               ELSE IF @ = NoRow THEN NoRow
               ELSE [@ EXCEPT !.deleted = TRUE]]

(* replaceTransaction, whatever the device has changed meanwhile; a        *)
(* tombstone only sets deleted_at.                                         *)
Replaced(dev, change) ==
    [dev.local EXCEPT ![change.tx] =
        IF ~change.tombstone THEN change.row
        ELSE IF @ = NoRow THEN NoRow
        ELSE [@ EXCEPT !.deleted = TRUE]]

Installed(dev, change) ==
    LET t == change.tx
        discarded == {dev.outbox[i].base + 1 : i \in
            {j \in DOMAIN dev.outbox : /\ dev.outbox[j].tx = t
                                       /\ dev.outbox[j].kind = "correct"
                                       /\ dev.outbox[j].state = "rejected"}}
        book == Unblocked(dev.outbox, t)
    IN [local     |-> Replaced(dev, change),
        syncState |-> IF dev.local[t] = NoRow /\ change.tombstone
                      THEN dev.syncState
                      ELSE [dev.syncState EXCEPT ![t] = Recomputed(book, t)],
        history   |-> {h \in dev.history :
                          h.tx = t => \A n \in discarded : h.revision < n},
        outbox    |-> book,
        conflicts |-> Refreshed(dev.conflicts, change)]

InstallChanges(page) ==
    LET dev == FoldLeft(Installed, Device, page)
    IN /\ local' = dev.local
       /\ syncState' = dev.syncState
       /\ history' = dev.history
       /\ outbox' = dev.outbox
       /\ conflicts' = dev.conflicts
       /\ UNCHANGED draft
=============================================================================
