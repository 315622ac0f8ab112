------------------------------- MODULE Reading -------------------------------
(***************************************************************************)
(* The sales of one data space as the handlers that list, show, count and  *)
(* export them read them: which statement reads what, while devices and    *)
(* other requests commit sales, corrections, payments, prints and          *)
(* deletions (TransactionStore has those in detail).                       *)
(*                                                                         *)
(* A handler reads with several statements of the pool and no transaction  *)
(* around them: each one sees what is committed when it runs.              *)
(*                                                                         *)
(* A sale is its row together with the rows that its revisions inserted,   *)
(* lines[k] for revision k, and its print attempts.  There is one package, *)
(* of price 1, so that a quantity is an amount.  paid says that the        *)
(* payment of the current revision is confirmed.  Names of users and       *)
(* terminals, receipts, the search prefix and the filters by creator,      *)
(* package and payment method are left out: they select rows the same way. *)
(***************************************************************************)
EXTENDS Integers, FiniteSetsExt, SequencesExt

CONSTANTS
    Sales,      \* how many transaction ids there are
    Moment,     \* values of occurred_at
    Quantity,   \* quantities of a line
    NoSale      \* a transaction id without a row

ASSUME ReadingAssumption ==
    Sales \in Nat /\ Moment \subseteq Int /\ Quantity \subseteq Nat

VARIABLE sales

Sale == 1 .. Sales

PrintState == {"pending", "success", "failed", "needs-reprint"}

SaleRow ==
    [at : Moment, total : Quantity, paid : BOOLEAN, print : PrintState,
     deleted : BOOLEAN, lines : Seq(Quantity), attempts : Nat]

Revision(sale) == Len(sale.lines)

-----------------------------------------------------------------------------
(***************************************************************************)
(* What the handlers of TransactionStore leave behind.                     *)
(***************************************************************************)
Sold(at, quantity) ==
    [at |-> at, total |-> quantity, paid |-> TRUE, print |-> "pending",
     deleted |-> FALSE, lines |-> <<quantity>>, attempts |-> 0]

(* A correction may move a sale in time, is paid from the start, and asks   *)
(* for a reprint of what was printed.                                       *)
Corrected(sale, at, quantity) ==
    [sale EXCEPT !.at = at, !.total = quantity, !.paid = TRUE,
                 !.lines = Append(@, quantity),
                 !.print = IF sale.print \in {"success", "needs-reprint"}
                           THEN "needs-reprint" ELSE "pending"]

Printed(sale, status) ==
    [sale EXCEPT !.print = status, !.attempts = @ + 1]

(* The sales that an operation may leave in place of a sale; none when it   *)
(* is refused.  (An attempt that is pending or unknown differs from a       *)
(* failed one by its name.)                                                 *)
Committed(kind, sale) ==
    LET known == sale # NoSale /\ ~sale.deleted IN
    CASE kind = "sell" /\ sale = NoSale -> {Sold(m, q) : m \in Moment, q \in Quantity}
      [] kind = "correct" /\ known -> {Corrected(sale, m, q) : m \in Moment, q \in Quantity}
      [] kind = "settle" /\ known -> {[sale EXCEPT !.paid = TRUE]}
      [] kind = "print" /\ known /\ sale.paid -> {Printed(sale, p) : p \in {"success", "failed"}}
      [] kind = "delete" /\ known -> {[sale EXCEPT !.deleted = TRUE]}
      [] OTHER -> {}

Kind == {"sell", "correct", "settle", "print", "delete"}

-----------------------------------------------------------------------------
(***************************************************************************)
(* Single statements.                                                      *)
(***************************************************************************)

(* A transaction header.  items are loaded, and the attempts counted, by    *)
(* later statements.                                                        *)
HeaderOf(s, row) ==
    [sale |-> s, rev |-> Revision(row), at |-> row.at, total |-> row.total,
     print |-> row.print, deleted |-> row.deleted, items |-> 0, attempts |-> 0]

Header(s) == HeaderOf(s, sales[s])

Found(s, deleted) == sales[s] # NoSale /\ (deleted \/ ~sales[s].deleted)

(* The WHERE clause of a listing without its cursor.                        *)
Matching(filter) ==
    {s \in Sale : /\ Found(s, filter.deleted)
                  /\ filter.paid => sales[s].paid
                  /\ sales[s].at \in filter.moments}

Newer(s, t) ==
    \/ sales[s].at > sales[t].at
    \/ sales[s].at = sales[t].at /\ s > t

(* Mutant of Beyond: rows of the moment of the cursor are skipped.          *)
BeyondMoment(s, cursor) == cursor = <<>> \/ sales[s].at < cursor[1]

(* (t.occurred_at, t.id) < cursor *)
Beyond(s, cursor) ==
    \/ cursor = <<>>
    \/ sales[s].at < cursor[1]
    \/ sales[s].at = cursor[1] /\ s < cursor[2]

(* The rows of a page and one more, which tells that there is another page. *)
Page(filter, cursor, limit) ==
    LET rows == {s \in Matching(filter) : Beyond(s, cursor)}
        order == SetToSortSeq(rows, Newer)
    IN [i \in 1 .. Min({limit + 1, Len(order)}) |-> Header(order[i])]

CursorAfter(page) == <<page[Len(page)].at, page[Len(page)].sale>>

(* Mutant of Hydrated: the lines of the revision that is current by now.    *)
HydratedByCurrent(page) ==
    [i \in DOMAIN page |->
        [page[i] EXCEPT !.items = sales[page[i].sale].lines[Revision(sales[page[i].sale])]]]

(* The lines of every header, by its id and its revision.                   *)
Hydrated(page) ==
    [i \in DOMAIN page |->
        [page[i] EXCEPT !.items = sales[page[i].sale].lines[page[i].rev]]]

(* The header as it is shown, with the print attempts counted.              *)
Viewed(header) == [header EXCEPT !.attempts = sales[header.sale].attempts]

(* The confirmed sales of a report.                                         *)
Counted(moments) == Matching([paid |-> TRUE, deleted |-> FALSE, moments |-> moments])

Gross(rows) == MapThenSumSet(LAMBDA s : sales[s].total, rows)

QuantitySold(rows) == MapThenSumSet(LAMBDA s : Last(sales[s].lines), rows)

Totals(moments) == [gross |-> Gross(Counted(moments)), count |-> Cardinality(Counted(moments))]

PackageQuantities(moments) == QuantitySold(Counted(moments))

(* The totals by bucket.                                                    *)
Trend(moments) ==
    [m \in moments |-> Gross({s \in Counted(moments) : sales[s].at = m})]

(* The rows of an export: one statement joins each sale with its lines.     *)
ExportRows(filter) ==
    LET order == Reverse(SetToSortSeq(Matching(filter), Newer)) IN
    [i \in DOMAIN order |->
        [Header(order[i]) EXCEPT !.items = Last(sales[order[i]].lines)]]

(* The lines of one revision.                                               *)
RevisionItems(s, k) == [rev |-> k, items |-> sales[s].lines[k]]
=============================================================================
