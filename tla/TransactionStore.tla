-------------------------- MODULE TransactionStore --------------------------
(***************************************************************************)
(* The PostgreSQL side of one active data space: HTTP workers that run     *)
(* ApplySyncMutation or a REST handler, each inside one READ COMMITTED     *)
(* database transaction, over the same transactions rows.                  *)
(*                                                                         *)
(* A worker's database transaction is not atomic here.  It is cut at every *)
(* place where another one may interleave: after the per-operation         *)
(* advisory lock and the idempotency lookup (Begin), after the snapshot    *)
(* that a locking SELECT or DeleteTransaction's plain SELECT takes (Scan), *)
(* after the row lock, the writes and the cursor that addChange draws from *)
(* the identity sequence (Stage...), and at the commit.  Writes between    *)
(* two cuts are invisible to the others until the commit, so nothing is    *)
(* lost by running them together.                                          *)
(*                                                                         *)
(* Identity, session and data-space locks are shared locks between the     *)
(* workers of one active space and never exclude one worker by another.    *)
(***************************************************************************)
EXTENDS Ledger, FiniteSets

CONSTANTS
    Worker,     \* concurrent database transactions
    MaxCursor   \* bound on the cursors the model draws from the sequence

ASSUME StoreAssumption == MaxCursor \in Nat

VARIABLES
    changes,    \* sync_changes: the committed rows
    nextCursor, \* next value of sync_changes_cursor_seq
    tr          \* the database transaction of each worker

storeVars == <<rows, revisions, results, changes, nextCursor, tr>>

(***************************************************************************)
(* One sync_changes row.  status is all that the model keeps of its        *)
(* payload: the status of a print attempt.                                 *)
(***************************************************************************)
Change == [cursor : Nat \ {0}, aggregate : {"transaction", "print_attempt"},
           tx : Txn, revision : Nat \ {0}, tombstone : BOOLEAN,
           status : AttemptStatus]

(***************************************************************************)
(* pc:  idle     no database transaction                                   *)
(*      running  advisory lock held, no idempotency record found           *)
(*      scanned  a SELECT has fixed the row version it saw (seen)          *)
(*      staged   row lock held, row and change written, not committed      *)
(*      refused  rolled back to the savepoint, refusal not committed       *)
(***************************************************************************)
NoWork == [pc |-> "idle"]

Active == {w \in Worker : tr[w].pc # "idle"}

(***************************************************************************)
(* Locks.  The advisory lock on space:terminal:operation is held from      *)
(* Begin to the end of the database transaction.  The row lock (FOR        *)
(* UPDATE, or the unique index entry of an uncommitted insert) is held     *)
(* while the row is staged; a refusal rolls back to the savepoint, which   *)
(* releases it.                                                            *)
(***************************************************************************)
OperationLocked(op) ==
    \E w \in Active : tr[w].request.op = op /\ op # Direct

(* Mutant of RowLocked: no FOR UPDATE. *)
RowNeverLocked(t) == FALSE

(* Mutant of RowLocked: a lock kept by every transaction that has read the *)
(* row, which each must wait for before it writes.                         *)
RowLockedByReaders(t) ==
    \E w \in Worker : /\ tr[w].pc \in {"scanned", "staged"}
                      /\ tr[w].request.tx = t

RowLocked(t) ==
    \E w \in Worker : /\ tr[w].pc = "staged"
                      /\ tr[w].request.tx = t
                      /\ tr[w].locks

-----------------------------------------------------------------------------
StoreInit ==
    /\ LedgerInit
    /\ changes = {}
    /\ nextCursor = 1
    /\ tr = [w \in Worker |-> NoWork]

Goto(w, state) == tr' = [tr EXCEPT ![w] = state]

(***************************************************************************)
(* The transaction opens, takes the advisory lock of its operationId and   *)
(* finds no idempotency record.  An operation that has one is answered     *)
(* from it (or with IDEMPOTENCY_MISMATCH) and writes nothing, so replays   *)
(* are the Begin steps this guard leaves out.                              *)
(***************************************************************************)
Begin(w, r) ==
    /\ tr[w].pc = "idle"
    /\ nextCursor + Cardinality(Active) <= MaxCursor
    /\ ~OperationLocked(r.op)
    /\ Undecided(r)
    /\ Goto(w, [pc |-> "running", request |-> r])
    /\ UNCHANGED <<rows, revisions, results, changes, nextCursor>>

(***************************************************************************)
(* ROLLBACK TO SAVEPOINT and an idempotency record to write for a signed   *)
(* operation; a plain rollback for a REST request, which is then over.     *)
(***************************************************************************)
Reject(w, outcome) ==
    /\ Goto(w, IF tr[w].request.op = Direct THEN NoWork
               ELSE [pc |-> "refused", request |-> tr[w].request,
                     outcome |-> outcome])
    /\ UNCHANGED <<rows, revisions, results, changes, nextCursor>>

(***************************************************************************)
(* addChange draws the cursor when it INSERTs, long before the commit that *)
(* makes the change visible.  A payment status that does not change logs   *)
(* no change.                                                              *)
(***************************************************************************)
StageWrite(w, row, revision, locks) ==
    LET r == tr[w].request
        silent == r.kind = "payment" /\ row = rows[r.tx]
    IN /\ Goto(w, [pc |-> "staged", request |-> r, row |-> row,
                   locks |-> locks,
                   inserted |-> NewRevisions(rows[r.tx], r),
                   logged |-> IF silent THEN {} ELSE
                     {[cursor |-> nextCursor,
                       aggregate |-> IF r.kind = "print" THEN "print_attempt"
                                     ELSE "transaction",
                       tx |-> r.tx, revision |-> revision,
                       tombstone |-> r.kind = "delete",
                       status |-> r.status]}])
       /\ nextCursor' = IF silent THEN nextCursor ELSE nextCursor + 1
       /\ UNCHANGED <<rows, revisions, results, changes>>

(***************************************************************************)
(* createTransactionTx.  INSERT INTO transactions waits for an uncommitted *)
(* insert of the same identifier, and fails with 23505 (CONFLICT) when the *)
(* identifier is taken.                                                    *)
(***************************************************************************)
StageCreate(w) ==
    LET r == tr[w].request
        verdict == CreateVerdict(rows[r.tx], r)
    IN /\ tr[w].pc = "running"
       /\ r.kind = "create"
       /\ ~RowLocked(r.tx)
       /\ IF verdict = "applied" THEN StageWrite(w, CreatedRow(r), 1, TRUE)
          ELSE Reject(w, verdict)

(***************************************************************************)
(* The statement of a correction, payment or print that locks the row      *)
(* FOR UPDATE takes its snapshot, and sees no row or one version of it; it *)
(* may then have to wait for the lock.                                     *)
(***************************************************************************)
Scan(w) ==
    LET r == tr[w].request
    IN /\ tr[w].pc = "running"
       /\ r.kind \in {"correct", "payment", "print"}
       /\ IF rows[r.tx] = NoRow THEN Reject(w, "NOT_FOUND")
          ELSE /\ Goto(w, [pc |-> "scanned", request |-> r,
                           seen |-> SeenRevision(r.tx)])
               /\ UNCHANGED <<rows, revisions, results, changes, nextCursor>>

(***************************************************************************)
(* The row lock is granted and the rest of the handler runs.  READ         *)
(* COMMITTED re-evaluates the WHERE clause on the newest version of the    *)
(* locked row only.  Correction and payment join transaction_revisions on  *)
(* r.revision = t.current_revision and lock OF t alone: when the row moved *)
(* to another revision while they waited, the old revision no longer       *)
(* joins, no row is returned and dbError answers NOT_FOUND.                *)
(***************************************************************************)
JoinLost(w) ==
    /\ tr[w].request.kind \in {"correct", "payment"}
    /\ tr[w].seen # SeenRevision(tr[w].request.tx)

LockedVerdict(w) ==
    IF JoinLost(w) THEN "NOT_FOUND"
    ELSE Verdict(rows[tr[w].request.tx], tr[w].request)

Stage(w) ==
    LET r == tr[w].request
        next == After(rows[r.tx], r)
    IN /\ tr[w].pc = "scanned"
       /\ r.kind # "delete"
       /\ ~RowLocked(r.tx)
       /\ IF LockedVerdict(w) = "applied"
          THEN StageWrite(w, next, next.revision, TRUE)
          ELSE Reject(w, LockedVerdict(w))

(***************************************************************************)
(* DeleteTransaction reads the row without a lock, decides on that copy,   *)
(* and only then UPDATEs ... WHERE deleted_at IS NULL.  It ignores how     *)
(* many rows the UPDATE touched, and audits and logs the revision it read. *)
(* An UPDATE that touches no row leaves it as it is.                       *)
(***************************************************************************)
ScanDelete(w) ==
    LET r == tr[w].request
        verdict == DeleteVerdict(rows[r.tx], r)
    IN /\ tr[w].pc = "running"
       /\ r.kind = "delete"
       /\ IF verdict # "applied" THEN Reject(w, verdict)
          ELSE /\ Goto(w, [pc |-> "scanned", request |-> r,
                           seen |-> SeenRevision(r.tx)])
               /\ UNCHANGED <<rows, revisions, results, changes, nextCursor>>

StageDelete(w) ==
    LET r == tr[w].request
    IN /\ tr[w].pc = "scanned"
       /\ r.kind = "delete"
       /\ ~RowLocked(r.tx)
       /\ StageWrite(w, DeletedRow(rows[r.tx]), tr[w].seen,
                     ~rows[r.tx].deleted)

(***************************************************************************)
(* COMMIT: the row, its revision, the change and the idempotency record    *)
(* become visible together, and every lock is released.                    *)
(***************************************************************************)
CommitApplied(w) ==
    LET r == tr[w].request
    IN /\ tr[w].pc = "staged"
       /\ rows' = IF tr[w].locks THEN [rows EXCEPT ![r.tx] = tr[w].row] ELSE rows
       /\ revisions' = revisions \cup tr[w].inserted
       /\ results' = Recorded(r, "applied")
       /\ changes' = changes \cup tr[w].logged
       /\ Goto(w, NoWork)
       /\ UNCHANGED nextCursor

CommitRefused(w) ==
    /\ tr[w].pc = "refused"
    /\ results' = Recorded(tr[w].request, tr[w].outcome)
    /\ Goto(w, NoWork)
    /\ UNCHANGED <<rows, revisions, changes, nextCursor>>

(***************************************************************************)
(* The connection is lost, the process stops, the request's context is     *)
(* cancelled or an internal error aborts: the deferred Rollback undoes     *)
(* everything but the value drawn from the sequence.                       *)
(***************************************************************************)
Abort(w) ==
    /\ w \in Active
    /\ Goto(w, NoWork)
    /\ UNCHANGED <<rows, revisions, results, changes, nextCursor>>

-----------------------------------------------------------------------------
Proceed(w) ==
    \/ StageCreate(w)
    \/ Scan(w)
    \/ Stage(w)
    \/ ScanDelete(w)
    \/ StageDelete(w)
    \/ CommitApplied(w)
    \/ CommitRefused(w)

StoreNext ==
    \E w \in Worker :
        \/ \E r \in Requests : Begin(w, r)
        \/ Proceed(w)
        \/ Abort(w)

StoreSpec == StoreInit /\ [][StoreNext]_storeVars

(***************************************************************************)
(* PostgreSQL queues lock waiters, so a waiter that is passed over again   *)
(* and again is not a behaviour of the system: strong fairness.            *)
(***************************************************************************)
FairStoreSpec == StoreSpec /\ \A w \in Worker : SF_storeVars(Proceed(w))
-----------------------------------------------------------------------------
(***************************************************************************)
(* Properties.                                                             *)
(***************************************************************************)
RunningWork == [pc : {"running"}, request : Requests]
ScannedWork == [pc : {"scanned"}, request : Requests, seen : Nat \ {0}]
StagedWork  == [pc : {"staged"}, request : Requests, row : Row,
                locks : BOOLEAN, inserted : SUBSET Revision,
                logged : SUBSET Change]
RefusedWork == [pc : {"refused"}, request : Requests, outcome : Refusal]

Work == {NoWork} \cup RunningWork \cup ScannedWork \cup StagedWork
                 \cup RefusedWork

(***************************************************************************)
(* What the locks are for.  These are the facts about workers in flight    *)
(* that make their commits serial; WorkersConsistent is inductive together *)
(* with TypeOK.                                                            *)
(***************************************************************************)

(* A row that a statement has seen is never physically deleted, and a      *)
(* deletion that went past its checks is a superadmin's.                   *)
ScannedRowExists ==
    \A w \in Worker :
        tr[w].pc = "scanned" =>
            /\ rows[tr[w].request.tx] # NoRow
            /\ tr[w].request.kind = "delete" =>
                  tr[w].request.actor \in Superadmin

(* One worker at a time attempts an operation, and only while it has no    *)
(* stored result.                                                          *)
OneAttempt ==
    /\ \A v, w \in Active :
          tr[v].request.op = tr[w].request.op /\ tr[v].request.op # Direct
             => v = w
    /\ \A w \in Active : Undecided(tr[w].request)

(* A row lock has one holder. *)
Holds(w) == tr[w].pc = "staged" /\ tr[w].locks

OneHolder ==
    \A v, w \in Worker :
        Holds(v) /\ Holds(w) /\ tr[v].request.tx = tr[w].request.tx => v = w

(* What a worker has staged is still the right answer for the row as it is *)
(* now: nobody committed to the row since.                                 *)
StagedRight(w) ==
    LET r == tr[w].request
    IN /\ tr[w].inserted = NewRevisions(rows[r.tx], r)
       /\ tr[w].locks => /\ Verdict(rows[r.tx], r) = "applied"
                         /\ tr[w].row = After(rows[r.tx], r)
       /\ ~tr[w].locks => r.kind = "delete"

StagedCurrent == \A w \in Worker : tr[w].pc = "staged" => StagedRight(w)

(***************************************************************************)
(* No commit overwrites one it did not see: an operation has one attempt   *)
(* and a row one writer in flight, and what the writer staged is what the  *)
(* rules give for the row at the moment of its commit.                     *)
(***************************************************************************)
WorkersConsistent ==
    ScannedRowExists /\ OneAttempt /\ OneHolder /\ StagedCurrent

(* The type invariant of the store's tables and of its workers. *)
TypeOK ==
    /\ rows \in [Txn -> Row \cup {NoRow}]
    /\ revisions \subseteq Revision
    /\ results \in [OpId -> Result \cup {NoResult}]
    /\ changes \subseteq Change
    /\ nextCursor \in Nat \ {0}
    /\ tr \in [Worker -> Work]

(***************************************************************************)
(* No worker waits for ever: advisory lock, row lock and commit never form *)
(* a cycle, so every request that starts is answered or rolled back.       *)
(***************************************************************************)
EveryRequestEnds ==
    \A w \in Worker : tr[w].pc # "idle" ~> tr[w].pc = "idle"

(***************************************************************************)
(* README.md:191 "Stale corrections return a revision conflict with local  *)
(* and server snapshots": a correction that found its transaction and is   *)
(* refused because the transaction moved on is told so.  The code answers  *)
(* NOT_FOUND when the two corrections overlap (see Stage).                 *)
(***************************************************************************)
StaleCorrectionConflicts ==
    [][\A w \in Worker :
        (/\ tr[w].pc = "scanned"
         /\ tr[w].request.kind = "correct"
         /\ CorrectVerdict(rows[tr[w].request.tx], tr[w].request)
                = "REVISION_CONFLICT"
         /\ tr'[w].pc = "refused")
        => tr'[w].outcome = "REVISION_CONFLICT"]_storeVars

(***************************************************************************)
(* transactions.go:796 answers CONFLICT, "Transaksi sudah dihapus"         *)
(* (already deleted), to the deletion of a deleted transaction: one        *)
(* deletion of a transaction succeeds, and leaves one tombstone.  Two that *)
(* overlap both read the live row, and both succeed (see StageDelete).     *)
(***************************************************************************)
DeletedOnce ==
    \A c, d \in changes :
        c.tx = d.tx /\ c.tombstone /\ d.tombstone => c = d
=============================================================================
