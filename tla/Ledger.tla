------------------------------- MODULE Ledger -------------------------------
(***************************************************************************)
(* What the transaction store promises its callers: requests are decided   *)
(* one at a time, each against the rows as they are, and a signed          *)
(* operation is decided at most once.  There are no locks, no database     *)
(* transactions and no crashes here; TransactionStore has them all and     *)
(* implements this specification.                                          *)
(***************************************************************************)
EXTENDS TransactionRules

CONSTANTS
    Requests,   \* the requests that clients may send, any number of times
    Existing,   \* the rows a transaction may have when the model starts
    NoResult    \* an operationId with no idempotency record

VARIABLES
    rows,       \* transactions, by identifier
    revisions,  \* transaction_revisions
    results     \* idempotency_records, by operationId

ledgerVars == <<rows, revisions, results>>

(* The CHECK constraint transactions_payment_confirmation_shape. *)
SettledRow(row) ==
    row.confirmed = IF row.payment = "success" THEN row.revision ELSE 0

(* What the print state of a row claims about its revisions. *)
HonestPrint(row) ==
    /\ row.print = "success" => /\ row.printed = row.revision
                               /\ row.payment = "success"
    /\ row.print = "needs-reprint" => row.printed \in 1 .. row.revision - 1
    /\ row.printed <= row.revision

(* What an idempotency record keeps of an operation. *)
Result == [request : Request, outcome : Outcome]

ASSUME LedgerAssumption ==
    /\ Requests \subseteq Request
    /\ \A r \in Requests :
          /\ r.kind = "delete" => r.op = Direct
          /\ r.legacy => r.op # Direct
    /\ Existing \subseteq Row
    /\ \A row \in Existing :
          /\ row.revision = 1
          /\ SettledRow(row)
          /\ HonestPrint(row)
    /\ NoRow \notin Row
    /\ NoResult \notin Result

(* Revision of the row as a plain SELECT sees it; 0 when there is none. *)
SeenRevision(t) == IF rows[t] = NoRow THEN 0 ELSE rows[t].revision

(* The revisions of rows that were there before the model starts. *)
Seeded(book) ==
    {[tx |-> t, revision |-> 1, base |-> 0, author |-> Direct] :
        t \in {u \in Txn : book[u] # NoRow}}

LedgerInit ==
    /\ rows \in [Txn -> Existing \cup {NoRow}]
    /\ revisions = Seeded(rows)
    /\ results = [o \in OpId |-> NoResult]

(* Mutant of Recorded: the idempotency record is not written. *)
NeverRecorded(r, outcome) == results

(* An operation that has an operationId leaves its outcome behind. *)
Recorded(r, outcome) ==
    IF r.op = Direct THEN results
    ELSE [results EXCEPT ![r.op] = [request |-> r, outcome |-> outcome]]

Undecided(r) == r.op # Direct => results[r.op] = NoResult

(* The request is accepted and changes its row, all at once. *)
Apply(r) ==
    /\ Undecided(r)
    /\ Verdict(rows[r.tx], r) = "applied"
    /\ rows' = [rows EXCEPT ![r.tx] = After(@, r)]
    /\ revisions' = revisions \cup NewRevisions(rows[r.tx], r)
    /\ results' = Recorded(r, "applied")

(* The request is refused for good and changes nothing. *)
Refuse(r) ==
    /\ Undecided(r)
    /\ \E outcome \in Refusal : results' = Recorded(r, outcome)
    /\ UNCHANGED <<rows, revisions>>

LedgerNext == \E r \in Requests : Apply(r) \/ Refuse(r)

LedgerSpec == LedgerInit /\ [][LedgerNext]_ledgerVars

-----------------------------------------------------------------------------
(***************************************************************************)
(* Properties of every system that implements the ledger.                  *)
(***************************************************************************)
(***************************************************************************)
(* No correction overwrites another one: the revisions of a transaction    *)
(* are 1, 2, ..., current_revision, each present once and each made from   *)
(* the one right before it, however the workers of concurrent corrections  *)
(* interleave (the row lock of correctTransactionTx and its base check).   *)
(***************************************************************************)
RevisionChain ==
    \A t \in Txn :
        LET made == {x \in revisions : x.tx = t}
        IN /\ {x.revision : x \in made} = 1 .. SeenRevision(t)
           /\ \A x, y \in made : x.revision = y.revision => x = y
           /\ \A x \in made : x.base = x.revision - 1

(* The revision a creation or correction was made from, as its client knew. *)
BaseOf(r) == IF r.kind = "create" THEN 0 ELSE r.base

(***************************************************************************)
(* A signed operation takes effect exactly when its idempotency record     *)
(* says so, and once: however often it is retried, over however many       *)
(* workers and crashes, it authors one revision of the transaction it      *)
(* names, made from the revision its client had seen, or none (the         *)
(* savepoint, the advisory lock and the single commit of                   *)
(* ApplySyncMutation).                                                     *)
(***************************************************************************)
AppliedOnce ==
    \A o \in OpId :
        LET made == {x \in revisions : x.author = o}
            applied == /\ results[o] # NoResult
                       /\ results[o].outcome = "applied"
                       /\ results[o].request.kind \in {"create", "correct"}
        IN IF applied
           THEN \E x \in made : /\ made = {x}
                                /\ x.tx = results[o].request.tx
                                /\ x.base = BaseOf(results[o].request)
           ELSE made = {}

(***************************************************************************)
(* A payment is confirmed for the revision the customer sees or for none:  *)
(* no interleaving of corrections, payment changes and crashes makes a     *)
(* commit trip transactions_payment_confirmation_shape, or leaves a        *)
(* successful payment that confirms an older revision, which               *)
(* validatePrintableRevision would refuse to print for ever.               *)
(***************************************************************************)
PaymentConfirmed ==
    \A t \in Txn : rows[t] # NoRow => SettledRow(rows[t])

(***************************************************************************)
(* A transaction shown as printed was printed at its current, paid         *)
(* revision, and one shown as needing a reprint was printed at an older    *)
(* one, although corrections and print attempts race for the row.          *)
(***************************************************************************)
PrintStateHonest ==
    \A t \in Txn : rows[t] # NoRow => HonestPrint(rows[t])

(* Both: what a row says of its payment and of its prints happened to its   *)
(* current revision, as said (payments.go, printing.go).                    *)
RowHonest == PaymentConfirmed /\ PrintStateHonest

(***************************************************************************)
(* Deletion is final: nothing that was already past its checks when the    *)
(* superadmin deleted the transaction changes it afterwards.               *)
(***************************************************************************)
DeletedFrozen ==
    [][\A t \in Txn :
          rows[t] # NoRow /\ rows[t].deleted => rows'[t] = rows[t]]_ledgerVars

(***************************************************************************)
(* The answer to an operation is the answer for ever: no retry, concurrent *)
(* or late, replaces a stored result (README: "Duplicates replay the       *)
(* stored result").                                                        *)
(***************************************************************************)
ResultsFinal ==
    [][\A o \in OpId :
          results[o] # NoResult => results'[o] = results[o]]_ledgerVars
=============================================================================
