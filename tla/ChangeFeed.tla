----------------------------- MODULE ChangeFeed -----------------------------
(***************************************************************************)
(* Cursor-based pull: one device follows the changes that the workers of   *)
(* TransactionStore commit.  GET /sync/pull reads a page of sync_changes   *)
(* in one statement and then, change by change, the CURRENT row of every   *)
(* transaction in it; the device installs the page and the cursor after    *)
(* it in one SQLite transaction.                                           *)
(*                                                                         *)
(* The device makes no change of its own here; that half of a device is    *)
(* Outbox.                                                                 *)
(***************************************************************************)
EXTENDS TransactionStore, SequencesExt

CONSTANT PageSize   \* limit of a pull (the app asks for 100)

ASSUME FeedAssumption == PageSize \in Nat \ {0}

VARIABLES
    position,   \* sync_metadata.cursor of the device
    replica,    \* the device's transactions, as the server's rows they copy
    delivered,  \* history: the changes the device has installed
    pull        \* the pull request in flight

feedVars == <<position, replica, delivered, pull>>

(***************************************************************************)
(* pull.page is what PullChanges returned; pull.filled is the prefix of it *)
(* whose payloads syncChangePayload has read: pairs of a change and a row. *)
(***************************************************************************)
NoPull == [pc |-> "idle"]

FeedInit ==
    /\ StoreInit
    /\ position = 0
    /\ replica = rows
    /\ delivered = {}
    /\ pull = NoPull

(* WHERE cursor > $2 ORDER BY cursor LIMIT $3, on the committed rows: the  *)
(* first changes after a cursor, in order.                                 *)
PagesAfter(cursor) ==
    LET later == {c \in changes : c.cursor > cursor}
    IN {s \in UNION {[1 .. n -> later] : n \in 1 .. PageSize} :
           /\ \A i, j \in DOMAIN s : i < j => s[i].cursor < s[j].cursor
           /\ \A c \in later \ ToSet(s) : Len(s) = PageSize /\ c.cursor > Last(s).cursor}

(* The first statement of GET /sync/pull. *)
PullPage ==
    /\ pull.pc = "idle"
    /\ \E s \in PagesAfter(position) :
          pull' = [pc |-> "reading", page |-> s, filled |-> <<>>]
    /\ UNCHANGED <<position, replica, delivered>>

(***************************************************************************)
(* The payload of the next change: none for a tombstone, the stored        *)
(* attempt for a print attempt, GetTransaction for a transaction.          *)
(***************************************************************************)
FillNext ==
    /\ pull.pc = "reading"
    /\ Len(pull.filled) < Len(pull.page)
    /\ LET c == pull.page[Len(pull.filled) + 1]
       IN pull' = [pull EXCEPT !.filled =
             Append(@, [change |-> c,
                        row |-> IF c.tombstone \/ c.aggregate = "print_attempt"
                                THEN NoRow ELSE rows[c.tx]])]
    /\ UNCHANGED <<position, replica, delivered>>

(* Mutant of Install: the status of a print attempt is not copied. *)
InstallNoPrint(book, item) ==
    LET c == item.change
    IN [book EXCEPT ![c.tx] =
          IF c.aggregate = "transaction" /\ ~c.tombstone THEN item.row
          ELSE IF @ # NoRow /\ c.tombstone THEN [@ EXCEPT !.deleted = TRUE]
          ELSE @]

(***************************************************************************)
(* What applyRemoteChanges does with one change: replace the transaction,  *)
(* mark it deleted, or copy the status of a print attempt into it.  The    *)
(* last two are UPDATEs and touch nothing when the device has no such row. *)
(***************************************************************************)
Install(book, item) ==
    LET c == item.change
    IN [book EXCEPT ![c.tx] =
          IF c.aggregate = "transaction" /\ ~c.tombstone THEN item.row
          ELSE IF @ = NoRow THEN NoRow
          ELSE IF c.tombstone THEN [@ EXCEPT !.deleted = TRUE]
          ELSE [@ EXCEPT !.print = c.status]]

(* The response arrives and the device installs it with its cursor. *)
InstallPage ==
    /\ pull.pc = "reading"
    /\ Len(pull.filled) = Len(pull.page)
    /\ replica' = FoldLeft(Install, replica, pull.filled)
    /\ position' = Last(pull.page).cursor
    /\ delivered' = delivered \cup ToSet(pull.page)
    /\ pull' = NoPull

(* The request or its response is lost, or the app stops before it stored  *)
(* the page: the cursor stays where it was.                                *)
LosePull ==
    /\ pull.pc = "reading"
    /\ pull' = NoPull
    /\ UNCHANGED <<position, replica, delivered>>

FeedStep == PullPage \/ FillNext \/ InstallPage \/ LosePull

FeedNext ==
    \/ StoreNext /\ UNCHANGED feedVars
    \/ FeedStep /\ UNCHANGED storeVars

FeedSpec == FeedInit /\ [][FeedNext]_<<storeVars, feedVars>>

-----------------------------------------------------------------------------
(***************************************************************************)
(* Properties.                                                             *)
(***************************************************************************)
(* The columns of a transaction that a device keeps. *)
Shown(row) ==
    IF row = NoRow THEN NoRow
    ELSE [revision |-> row.revision, payment |-> row.payment,
          confirmed |-> row.confirmed, print |-> row.print,
          deleted |-> row.deleted]

(***************************************************************************)
(* Sending the current row instead of the row as it was is sound: although *)
(* payloads are newer than their changes and are read one at a time while  *)
(* the rows move on, a device that has received every change of a          *)
(* transaction shows exactly what the server has for it, print state and   *)
(* deletion included.                                                      *)
(***************************************************************************)
DeliveredRowAgrees ==
    \A t \in Txn :
        {c \in changes : c.tx = t} \subseteq delivered
            => Shown(replica[t]) = Shown(rows[t])

(***************************************************************************)
(* apps/mobile/README.md:19 "remote changes are pulled by cursor", where   *)
(* the cursor is (openapi.yaml:4381) the "Durable tenant/data-space-bound  *)
(* cursor after this individual change": a device whose cursor is past a   *)
(* committed change has received it.  The code numbers a change when it    *)
(* is inserted and shows it at the commit, so one can appear behind a      *)
(* cursor that a device already holds.                                     *)
(***************************************************************************)
NoChangeSkipped ==
    \A c \in changes : c.cursor <= position => c \in delivered
=============================================================================
