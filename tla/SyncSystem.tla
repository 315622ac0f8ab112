----------------------------- MODULE SyncSystem -----------------------------
(***************************************************************************)
(* One device and the server.  The server decides requests as Ledger does, *)
(* which TransactionStore implements; other clients correct and delete the *)
(* same transactions.  The device runs runSync: it pushes what its outbox  *)
(* allows until nothing is left, marks each result in a local transaction  *)
(* of its own, and then pulls pages until there are no more.  Requests and *)
(* answers are lost, requests arrive late, answers report server errors,   *)
(* and the app is killed, at any moment; the user goes on working.         *)
(*                                                                         *)
(* The log of changes is read in commit order: RowChangesInCursorOrder     *)
(* shows that for the changes of one transaction, and what a cursor skips  *)
(* is the matter of NoChangeSkipped.                                       *)
(***************************************************************************)
EXTENDS Ledger, Outbox

CONSTANTS
    Cashier,    \* the account signed in on the device
    Payloads,   \* whether the payloads the user writes are valid
    BatchSize,  \* operations of a push (the app sends 25)
    PageSize    \* changes of a page (the app asks for 100)

ASSUME SystemAssumption ==
    /\ Cashier \in Actor
    /\ \A r \in Requests : r.op = Direct
    /\ Payloads \subseteq BOOLEAN
    /\ BatchSize \in Nat \ {0}
    /\ PageSize \in Nat \ {0}

VARIABLES
    log,        \* the committed changes of transactions
    answers,    \* the server snapshot stored with a revision conflict
    sent,       \* operations of pushes that have left the device
    cursor,     \* sync_metadata.cursor
    sync,       \* where the run of runSync is
    restored    \* history: transactions discarded and not pulled since

systemVars == <<log, answers, sent, cursor, sync, restored>>
vars == <<ledgerVars, deviceVars, systemVars>>

Idle == [pc |-> "idle"]

(* The current row as the device's API mapper sees it. *)
Author(t, n) == (CHOOSE x \in revisions : x.tx = t /\ x.revision = n).author

ServerCopy(t) ==
    IF rows[t] = NoRow THEN NoRow
    ELSE [revision |-> rows[t].revision, by |-> Author(t, rows[t].revision),
          paid |-> rows[t].payment = "success", deleted |-> rows[t].deleted]

Init ==
    /\ LedgerInit
    /\ local = [t \in Txn |-> ServerCopy(t)]
    /\ syncState = [t \in Txn |-> "synced"]
    /\ history = {}
    /\ outbox = <<>>
    /\ conflicts = {}
    /\ draft = NoDraft
    /\ log = <<>>
    /\ answers = [o \in OpId |-> NoRow]
    /\ sent = {}
    /\ cursor = 0
    /\ sync = Idle
    /\ restored = {}

-----------------------------------------------------------------------------
(***************************************************************************)
(* The server.                                                             *)
(***************************************************************************)
RequestOf(m) ==
    [op |-> m.op, kind |-> m.kind, tx |-> m.tx, actor |-> Cashier,
     base |-> m.base, status |-> "pending", legacy |-> FALSE,
     valid |-> m.valid]

Logged(r) == Append(log, [tx |-> r.tx, tombstone |-> r.kind = "delete"])

(***************************************************************************)
(* The outcome a refused operation is stored with.  A correction that is   *)
(* refused because of another one may have waited for its lock, and is     *)
(* then answered NOT_FOUND (TransactionStore, JoinLost).                   *)
(***************************************************************************)
RefusedAs(r) ==
    LET verdict == Verdict(rows[r.tx], r)
    IN IF verdict = "REVISION_CONFLICT" THEN {verdict, "NOT_FOUND"}
       ELSE {verdict}

(* A push that has reached the server, however late. *)
ServerDecides(i) ==
    LET r == RequestOf(outbox[i])
    IN /\ r.op \in sent
       /\ Undecided(r)
       /\ \/ /\ Apply(r)
             /\ log' = Logged(r)
             /\ UNCHANGED answers
          \/ /\ Verdict(rows[r.tx], r) # "applied"
             /\ \E outcome \in RefusedAs(r) :
                   /\ results' = Recorded(r, outcome)
                   /\ answers' = IF outcome = "REVISION_CONFLICT"
                                 THEN [answers EXCEPT ![r.op] = ServerCopy(r.tx)]
                                 ELSE answers
             /\ UNCHANGED <<rows, revisions, log>>
       /\ UNCHANGED <<deviceVars, sent, cursor, sync, restored>>

(* Another client's request, over REST. *)
OtherApplies(r) ==
    /\ Apply(r)
    /\ log' = Logged(r)
    /\ UNCHANGED <<deviceVars, answers, sent, cursor, sync, restored>>

-----------------------------------------------------------------------------
(***************************************************************************)
(* runSync.  The next push batch is chosen in the same way when a run      *)
(* begins and when it has marked the previous batch, so both are Idle.     *)
(***************************************************************************)
Ready == {i \in DOMAIN outbox : Sendable(i)}

(* The first BatchSize of them, by their positions in the queue. *)
Batch == {i \in Ready : Cardinality({j \in Ready : j < i}) < BatchSize}

Push ==
    /\ sync = Idle
    /\ Batch # {}
    /\ sent' = sent \cup {outbox[i].op : i \in Batch}
    /\ sync' = [pc |-> "pushing", batch |-> Batch]
    /\ UNCHANGED <<ledgerVars, deviceVars, log, answers, cursor, restored>>

(***************************************************************************)
(* The answer to a push has, for each operation, its stored outcome, or    *)
(* INTERNAL_ERROR: the server failed before it decided, or after.          *)
(***************************************************************************)
Reported(i) ==
    LET stored == results[outbox[i].op]
    IN {"INTERNAL_ERROR"} \cup
       IF stored = NoResult THEN {} ELSE {stored.outcome}

ReceiveResults ==
    /\ sync.pc = "pushing"
    /\ \E outcome \in [sync.batch -> UNION {Reported(i) : i \in sync.batch}] :
          /\ \A i \in sync.batch : outcome[i] \in Reported(i)
          /\ sync' = [pc |-> "marking", todo |-> sync.batch, outcome |-> outcome]
    /\ UNCHANGED <<ledgerVars, deviceVars, log, answers, sent, cursor, restored>>

Mark(i, outcome) ==
    CASE outcome = "applied"           -> MarkApplied(i)
      [] outcome = "REVISION_CONFLICT" -> MarkConflict(i, answers[outbox[i].op])
      [] OTHER -> MarkRejected(i, outcome = "INTERNAL_ERROR")

MarkNext ==
    /\ sync.pc = "marking"
    /\ \E i \in sync.todo :
          /\ \A j \in sync.todo : i <= j
          /\ Mark(i, sync.outcome[i])
          /\ sync' = IF sync.todo = {i} THEN Idle
                     ELSE [sync EXCEPT !.todo = @ \ {i}]
    /\ UNCHANGED <<ledgerVars, log, answers, sent, cursor, restored>>

StartPull ==
    /\ sync = Idle
    /\ Batch = {}
    /\ sync' = [pc |-> "pulling"]
    /\ UNCHANGED <<ledgerVars, deviceVars, log, answers, sent, cursor, restored>>

PageEnd == IF Len(log) - cursor <= PageSize THEN Len(log) ELSE cursor + PageSize

(***************************************************************************)
(* GET /sync/pull: the page and the current rows, read at once here        *)
(* (ChangeFeed shows that reading them one at a time is as good).          *)
(***************************************************************************)
ServePage ==
    /\ sync.pc = "pulling"
    /\ sync' = [pc |-> "paged",
                page |-> [n \in 1 .. PageEnd - cursor |->
                   [tx |-> log[cursor + n].tx,
                    tombstone |-> log[cursor + n].tombstone,
                    row |-> IF log[cursor + n].tombstone THEN NoRow
                            ELSE ServerCopy(log[cursor + n].tx)]],
                more |-> PageEnd < Len(log)]
    /\ UNCHANGED <<ledgerVars, deviceVars, log, answers, sent, cursor, restored>>

(* Mutant of CursorAfter: the last change is asked for again. *)
CursorBefore(page) == IF page = <<>> THEN cursor ELSE cursor + Len(page) - 1

CursorAfter(page) == cursor + Len(page)

(* The page and the cursor after it are stored in one local transaction. *)
InstallPage ==
    /\ sync.pc = "paged"
    /\ InstallChanges(sync.page)
    /\ cursor' = CursorAfter(sync.page)
    /\ restored' = restored \ {c.tx : c \in ToSet(sync.page)}
    /\ sync' = IF sync.more THEN [pc |-> "pulling"] ELSE Idle
    /\ UNCHANGED <<ledgerVars, log, answers, sent>>

(* No answer: the request or the response is lost. *)
LoseRequest ==
    /\ sync.pc \in {"pushing", "pulling", "paged"}
    /\ sync' = Idle
    /\ UNCHANGED <<ledgerVars, deviceVars, log, answers, sent, cursor, restored>>

(* The app is killed: only what SQLite holds survives. *)
Kill ==
    /\ sync # Idle \/ draft # NoDraft
    /\ sync' = Idle
    /\ draft' = NoDraft
    /\ UNCHANGED <<ledgerVars, local, syncState, history, outbox, conflicts,
                   log, answers, sent, cursor, restored>>

-----------------------------------------------------------------------------
(* The user; decisions need no connection. *)
User ==
    /\ \/ \E o \in OpId, valid \in Payloads :
             \/ \E t \in Txn : Create(t, o, valid)
             \/ SaveCorrection(o, valid)
       \/ \E t \in Txn : BeginCorrection(t)
       \/ FailCorrection
       \/ \E c \in conflicts :
             \/ ResolveWithServer(c)
             \/ \E o \in OpId : ResolveWithRetry(c, o)
    /\ UNCHANGED <<ledgerVars, systemVars>>

DiscardRejected(t) ==
    /\ Discard(t)
    /\ restored' = restored \cup {t}
    /\ UNCHANGED <<ledgerVars, log, answers, sent, cursor, sync>>

Server ==
    \/ \E i \in DOMAIN outbox : ServerDecides(i)
    \/ \E r \in Requests : OtherApplies(r)

Run == Push \/ ReceiveResults \/ MarkNext \/ StartPull \/ ServePage \/ InstallPage

Next ==
    \/ User
    \/ \E t \in Txn : DiscardRejected(t)
    \/ Server
    \/ Run
    \/ LoseRequest
    \/ Kill

Spec == Init /\ [][Next]_vars

(***************************************************************************)
(* A foreground timer, connectivity changes and a background task start a  *)
(* run again and again (SyncProvider.tsx, background.ts), so its steps    *)
(* are not put off for ever; a network that works again and again, and an  *)
(* app that is not always killed first, are strong fairness of the steps   *)
(* that need them.  Nothing obliges users or other clients.                *)
(***************************************************************************)
FairSpec ==
    /\ Spec
    /\ WF_vars(Push) /\ WF_vars(StartPull)
    /\ WF_vars(\E i \in DOMAIN outbox : ServerDecides(i))
    /\ SF_vars(ReceiveResults) /\ SF_vars(MarkNext)
    /\ SF_vars(ServePage) /\ SF_vars(InstallPage)
-----------------------------------------------------------------------------
(***************************************************************************)
(* Properties.                                                             *)
(***************************************************************************)
PageItem == [tx : Txn, tombstone : BOOLEAN, row : Copy \cup {NoRow}]

SyncTypeOK ==
    \/ sync \in {Idle, [pc |-> "pulling"]}
    \/ /\ sync.pc = "pushing"
       /\ sync.batch \in (SUBSET DOMAIN outbox) \ {{}}
       /\ Cardinality(sync.batch) <= BatchSize
    \/ /\ sync.pc = "marking"
       /\ sync.todo \in (SUBSET DOMAIN outbox) \ {{}}
       /\ \A i \in sync.todo :
             sync.outcome[i] \in Outcome \cup {"INTERNAL_ERROR"}
    \/ /\ sync.pc = "paged"
       /\ sync.page \in Seq(PageItem)
       /\ Len(sync.page) <= PageSize

(* Types of the system's variables; those of the ledger are Ledger's. *)
TypeOK ==
    /\ OutboxTypeOK
    /\ log \in Seq([tx : Txn, tombstone : BOOLEAN])
    /\ answers \in [OpId -> Copy \cup {NoRow}]
    /\ sent \subseteq OpId
    /\ cursor \in 0 .. Len(log)
    /\ SyncTypeOK
    /\ restored \subseteq Txn

(* The device has pulled everything and nothing is in flight. *)
CaughtUp == sync = Idle /\ cursor = Len(log)

(***************************************************************************)
(* The device and the server agree on which operations took effect, across *)
(* lost answers, late requests, kills and retries: what the device calls   *)
(* synced was applied, and what was applied is never taken for rejected or *)
(* in conflict, unless the server answered it with an error of its own.    *)
(***************************************************************************)
AppliedNotDisowned ==
    \A i \in DOMAIN outbox :
        LET m == outbox[i]
            applied == /\ results[m.op] # NoResult
                       /\ results[m.op].outcome = "applied"
        IN /\ m.state = "synced" => applied
           /\ applied /\ ~m.failed => m.state \in {"pending", "synced"}

(***************************************************************************)
(* A conflict the user must decide is never lost and never asked twice:    *)
(* a transaction has an open conflict exactly when one operation of it is  *)
(* in conflict, whatever is pulled, saved or discarded meanwhile.          *)
(***************************************************************************)
ConflictTracked ==
    \A t \in Txn :
        LET stuck == {i \in DOMAIN outbox :
                        outbox[i].tx = t /\ outbox[i].state = "conflict"}
            open == {c \in conflicts : c.tx = t}
        IN Cardinality(stuck) <= 1 /\ Cardinality(open) = Cardinality(stuck)

(***************************************************************************)
(* The server version that the conflict screen offers is the server's, as  *)
(* soon as the device has pulled: a decision overwrites no newer revision  *)
(* unseen and brings no deleted transaction back.                          *)
(***************************************************************************)
ConflictFresh ==
    CaughtUp => \A c \in conflicts :
        LET now == ServerCopy(c.tx)
        IN c.server.deleted = now.deleted
           /\ (~now.deleted => c.server.revision = now.revision
                               /\ c.server.by = now.by)

(* Both: the conflicts on the screen are the ones to decide, as they are.   *)
(* (markOutboxResult, applyRemoteChanges, resolveConflictLocal).           *)
ConflictsTrue == ConflictTracked /\ ConflictFresh

(***************************************************************************)
(* README.md:191 "Stale corrections return a revision conflict": an        *)
(* applied correction of this device replaces exactly the revision its     *)
(* user corrected, also when that was the device's own unsent correction.  *)
(***************************************************************************)
Overwrites(m) ==
    \E x \in revisions :
        /\ x.author = m.op
        /\ \/ m.basis.revision # x.base
           \/ m.basis.by # Author(x.tx, x.base)

NoBlindOverwriteEver ==
    \A i \in DOMAIN outbox :
        outbox[i].kind = "correct" => ~Overwrites(outbox[i])

(***************************************************************************)
(* The same for a transaction whose corrections, this one and those before *)
(* it, were written on the copy they were read from.                       *)
(***************************************************************************)
NoBlindOverwrite ==
    \A i \in DOMAIN outbox :
        /\ outbox[i].kind = "correct"
        /\ \A j \in 1 .. i : outbox[j].tx = outbox[i].tx => outbox[j].clean
        => ~Overwrites(outbox[i])

(* What a transaction shows, when both sides have it. *)
Agrees(t) ==
    LET now == ServerCopy(t)
    IN /\ local[t] # NoRow /\ now # NoRow
       /\ local[t].deleted = now.deleted
       /\ ~now.deleted => local[t] = now

(***************************************************************************)
(* A copy marked synced is the server's once the device has pulled: no     *)
(* page, result or decision leaves an optimistic, stale or unpaid copy     *)
(* that nothing will ever correct.  (The fields of an archived copy are    *)
(* not compared: a tombstone brings none.)                                 *)
(***************************************************************************)
SyncedCopyAgreesEver ==
    CaughtUp => \A t \in Txn :
        local[t] # NoRow /\ syncState[t] = "synced" => Agrees(t)

(* The same, but for a transaction that was discarded and not pulled since. *)
SyncedCopyAgrees ==
    CaughtUp => \A t \in Txn \ restored :
        local[t] # NoRow /\ syncState[t] = "synced" => Agrees(t)

(***************************************************************************)
(* sync/index.tsx:111, of a rejected creation: "Transaksi ini tidak pernah *)
(* diterima server" (this transaction was never accepted by the server).   *)
(***************************************************************************)
RejectedNeverApplied ==
    \A i \in DOMAIN outbox :
        LET m == outbox[i]
        IN m.state = "rejected" /\ m.kind = "create" =>
              \/ results[m.op] = NoResult
              \/ results[m.op].outcome # "applied"

(***************************************************************************)
(* Every operation is answered in the end, unless it waits behind one that *)
(* the user must decide about.                                             *)
(***************************************************************************)
PendingAt(i) == i \in DOMAIN outbox /\ outbox[i].state = "pending"

PendingDrains ==
    \A i \in 1 .. Cardinality(OpId) :
        PendingAt(i) ~> (~PendingAt(i) \/ Blocked(outbox[i].tx))

(* Every change reaches the device, whatever is stuck in its outbox. *)
ChangesArrive ==
    \A n \in 1 .. Cardinality(OpId) + Cardinality(Requests) :
        (Len(log) >= n) ~> (cursor >= n)
=============================================================================
