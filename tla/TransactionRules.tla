-------------------------- MODULE TransactionRules --------------------------
(***************************************************************************)
(* The business rules of one POS transaction row, as the backend applies   *)
(* them: what a request may do to the row it names, what it answers when   *)
(* it may not, and the row it leaves behind.  The rules are pure; who      *)
(* holds which lock when they run is the business of TransactionStore, and *)
(* the serial system they define is Ledger.                                *)
(*                                                                         *)
(* Money, line items, snapshots and receipt identities are abstracted: a   *)
(* request is "valid" when its items resolve to packages of the space, and *)
(* a revision is known by its number and its author.  A request that fails *)
(* before any row is read (its payload, QRIS binding or identity) is left  *)
(* out: like every refusal it changes no row.  So are the checks that the  *)
(* REST use cases make on an earlier, unlocked read of the row: they       *)
(* refuse only what the handler in the transaction refuses, or hide a      *)
(* deleted row.                                                            *)
(***************************************************************************)
EXTENDS Naturals

CONSTANTS
    Txn,        \* transaction identifiers (primary key of transactions)
    OpId,       \* operationId values of signed outbox operations
    Actor,      \* accounts that originate requests
    Superadmin, \* the accounts whose role is superadmin
    Direct,     \* stands for the operationId of a REST request, which has none
    NoRow       \* a transaction identifier with no row

ASSUME RulesAssumption ==
    /\ Superadmin \subseteq Actor
    /\ Direct \notin OpId

PaymentStatus == {"pending", "failed", "success"}
PaymentOutcome == {"success", "failed"}  \* domain.ValidatePaymentOutcome
AttemptStatus == {"pending", "success", "failed", "unknown"}
PrintState == AttemptStatus \cup {"needs-reprint"}
PaymentMethod == {"legacy", "selectable"}
Kind == {"create", "correct", "payment", "print", "delete"}

(***************************************************************************)
(* A row of transactions.  confirmed and printed are the nullable columns  *)
(* payment_confirmed_revision and latest_printed_revision; 0 is NULL.      *)
(***************************************************************************)
Row == [revision : Nat \ {0}, owner : Actor, method : PaymentMethod,
        payment : PaymentStatus, confirmed : Nat,
        print : PrintState, printed : Nat, deleted : BOOLEAN]

(***************************************************************************)
(* A request.  base is baseRevision, or the printed revision of a print    *)
(* attempt; status is the requested payment outcome or the attempt's.      *)
(***************************************************************************)
Request == [op : OpId \cup {Direct}, kind : Kind, tx : Txn, actor : Actor,
            base : Nat, status : AttemptStatus, legacy : BOOLEAN,
            valid : BOOLEAN]

Refusal == {"VALIDATION_ERROR", "FORBIDDEN", "NOT_FOUND", "CONFLICT",
            "REVISION_CONFLICT", "PAYMENT_STATE_CONFLICT"}
Outcome == {"applied"} \cup Refusal

(* domain.CanCorrectTransaction: a superadmin, or the actor who sold it. *)
CanCorrect(r, row) == r.actor \in Superadmin \/ r.actor = row.owner

(***************************************************************************)
(* What each handler answers when it runs against row, early returns in    *)
(* the order the code makes them.                                          *)
(***************************************************************************)
CreateVerdict(row, r) ==
    IF ~r.valid THEN "VALIDATION_ERROR"
    ELSE IF row # NoRow THEN "CONFLICT"
    ELSE "applied"

CorrectVerdict(row, r) ==
    IF row = NoRow THEN "NOT_FOUND"
    ELSE IF ~CanCorrect(r, row) THEN "FORBIDDEN"
    ELSE IF row.deleted \/ (r.legacy /\ row.method # "legacy") THEN "CONFLICT"
    ELSE IF ~r.valid THEN "VALIDATION_ERROR"
    ELSE IF r.base # row.revision THEN "REVISION_CONFLICT"
    ELSE "applied"

PaymentVerdict(row, r) ==
    IF r.status \notin PaymentOutcome THEN "VALIDATION_ERROR"
    ELSE IF row = NoRow THEN "NOT_FOUND"
    ELSE IF ~CanCorrect(r, row) THEN "FORBIDDEN"
    ELSE IF row.deleted THEN "CONFLICT"
    ELSE IF \/ r.base # row.revision
            \/ row.payment = "success" /\ r.status # "success"
         THEN "PAYMENT_STATE_CONFLICT"
    ELSE "applied"

PrintVerdict(row, r) ==
    IF row = NoRow THEN "NOT_FOUND"
    ELSE IF \/ row.deleted
            \/ r.base # row.revision
            \/ row.payment # "success"
            \/ row.confirmed # row.revision
         THEN "CONFLICT"
    ELSE "applied"

DeleteVerdict(row, r) ==
    IF r.actor \notin Superadmin THEN "FORBIDDEN"
    ELSE IF row = NoRow THEN "NOT_FOUND"
    ELSE IF row.deleted THEN "CONFLICT"
    ELSE "applied"

Verdict(row, r) ==
    CASE r.kind = "create"  -> CreateVerdict(row, r)
      [] r.kind = "correct" -> CorrectVerdict(row, r)
      [] r.kind = "payment" -> PaymentVerdict(row, r)
      [] r.kind = "print"   -> PrintVerdict(row, r)
      [] r.kind = "delete"  -> DeleteVerdict(row, r)

-----------------------------------------------------------------------------
(***************************************************************************)
(* The row each handler writes when its verdict is "applied".              *)
(***************************************************************************)
MethodOf(r) == IF r.legacy THEN "legacy" ELSE "selectable"

CreatedRow(r) ==
    [revision |-> 1, owner |-> r.actor, method |-> MethodOf(r),
     payment |-> "success", confirmed |-> 1,
     print |-> "pending", printed |-> 0, deleted |-> FALSE]

(* Mutant of CorrectedRow: the payment keeps confirming the old revision. *)
CorrectedUnconfirmed(row, r) ==
    [row EXCEPT !.revision = row.revision + 1,
                !.method = MethodOf(r),
                !.payment = "success",
                !.print = IF row.printed # 0 THEN "needs-reprint" ELSE "pending"]

(* Mutant of CorrectedRow: the print state survives the correction. *)
CorrectedStillPrinted(row, r) ==
    [row EXCEPT !.revision = row.revision + 1,
                !.method = MethodOf(r),
                !.payment = "success",
                !.confirmed = row.revision + 1]

(* A correction starts payment-confirmed, and asks for a reprint when any  *)
(* revision was ever printed.                                              *)
CorrectedRow(row, r) ==
    [row EXCEPT !.revision = row.revision + 1,
                !.method = MethodOf(r),
                !.payment = "success",
                !.confirmed = row.revision + 1,
                !.print = IF row.printed # 0 THEN "needs-reprint" ELSE "pending"]

PaidRow(row, r) ==
    IF r.status = row.payment THEN row
    ELSE [row EXCEPT !.payment = r.status,
                     !.confirmed = IF r.status = "success" THEN row.revision ELSE 0]

PrintedRow(row, r) ==
    [row EXCEPT !.print = r.status,
                !.printed = IF r.status = "success" THEN r.base ELSE @]

DeletedRow(row) == [row EXCEPT !.deleted = TRUE]

After(row, r) ==
    CASE r.kind = "create"  -> CreatedRow(r)
      [] r.kind = "correct" -> CorrectedRow(row, r)
      [] r.kind = "payment" -> PaidRow(row, r)
      [] r.kind = "print"   -> PrintedRow(row, r)
      [] r.kind = "delete"  -> DeletedRow(row)

(***************************************************************************)
(* The rows a handler inserts into transaction_revisions: creation and     *)
(* correction append one, every other request none.                        *)
(***************************************************************************)
Revision == [tx : Txn, revision : Nat \ {0}, base : Nat,
             author : OpId \cup {Direct}]

NewRevisions(row, r) ==
    CASE r.kind = "create" ->
            {[tx |-> r.tx, revision |-> 1, base |-> 0, author |-> r.op]}
      [] r.kind = "correct" ->
            {[tx |-> r.tx, revision |-> row.revision + 1,
              base |-> row.revision, author |-> r.op]}
      [] OTHER -> {}
=============================================================================
