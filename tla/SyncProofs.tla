----------------------------- MODULE SyncProofs -----------------------------
(***************************************************************************)
(* Theorems about one device and the server, for any number of             *)
(* transactions, operations, other clients' requests and accounts, any     *)
(* size of batches and pages: the tables keep their types, the device and  *)
(* the server agree on what took effect, the conflicts that wait for a     *)
(* decision are the ones there are, with the server's version, a copy that *)
(* is marked synced is the server's once everything is pulled, and an      *)
(* applied correction replaces the revision that its user saw.             *)
(*                                                                         *)
(* The argument is about what the two sides know of each other.  An        *)
(* operation that has left the device keeps its place and its predecessors *)
(* are over (Orderly), so the answer that is marked is the answer to it;   *)
(* the cursor does not move while an answer is out (Carried), so what was  *)
(* said with a conflict, and what a synced copy shows, is the server's     *)
(* version but for changes that are still to be pulled (Current, Kept).    *)
(* A correction is made from a revision of the server's, or from what an   *)
(* operation before it is still to make, and is sent only when that one is *)
(* over (NInv).                                                            *)
(***************************************************************************)
EXTENDS SyncSystem, FiniteSetTheorems, WellFoundedInduction, TLAPS

-----------------------------------------------------------------------------
(***************************************************************************)
(* What the rules make of a request at the server.  TransactionStoreProofs *)
(* proves the same of the store; here it is needed of the requests that    *)
(* come from the outbox.                                                   *)
(***************************************************************************)
(* A handler that accepts a request writes a well-formed row. *)
LEMMA AfterIsRow ==
    ASSUME NEW row \in Row \cup {NoRow}, NEW r \in Request,
           Verdict(row, r) = "applied"
    PROVE  After(row, r) \in Row
<1>1. CASE r.kind = "create"
  <2>1. After(row, r) = CreatedRow(r)
    BY <1>1 DEF After
  <2> QED
    BY <2>1 DEF CreatedRow, MethodOf, Row, Request, PaymentStatus,
                PrintState, AttemptStatus, PaymentMethod
<1>2. CASE r.kind = "correct"
  <2>1. row \in Row
    BY <1>2 DEF Verdict, CorrectVerdict
  <2>2. After(row, r) = CorrectedRow(row, r)
    BY <1>2 DEF After
  <2>3. row.revision + 1 \in Nat \ {0}
    BY <2>1 DEF Row
  <2>4. MethodOf(r) \in PaymentMethod
    BY DEF MethodOf, PaymentMethod
  <2> QED
    BY <2>1, <2>2, <2>3, <2>4
       DEF CorrectedRow, Row, PaymentStatus, PrintState, AttemptStatus
<1>3. CASE r.kind = "payment"
  <2>1. row \in Row /\ r.status \in PaymentOutcome
    BY <1>3 DEF Verdict, PaymentVerdict
  <2>2. After(row, r) = PaidRow(row, r)
    BY <1>3 DEF After
  <2>3. CASE r.status = row.payment
    BY <2>1, <2>2, <2>3 DEF PaidRow
  <2>4. CASE r.status # row.payment
    <3> DEFINE confirmed == IF r.status = "success" THEN row.revision ELSE 0
    <3>1. confirmed \in Nat /\ r.status \in PaymentStatus
      BY <2>1 DEF Row, PaymentOutcome, PaymentStatus
    <3>2. After(row, r) = [row EXCEPT !.payment = r.status,
                                      !.confirmed = confirmed]
      BY <2>2, <2>4 DEF PaidRow
    <3> HIDE DEF confirmed
    <3> QED
      BY <2>1, <3>1, <3>2 DEF Row
  <2> QED
    BY <2>3, <2>4
<1>4. CASE r.kind = "print"
  <2>1. row \in Row
    BY <1>4 DEF Verdict, PrintVerdict
  <2>2. After(row, r) = PrintedRow(row, r)
    BY <1>4 DEF After
  <2> QED
    BY <2>1, <2>2 DEF PrintedRow, Row, Request, PrintState
<1>5. CASE r.kind = "delete"
  <2>1. row \in Row
    BY <1>5 DEF Verdict, DeleteVerdict
  <2>2. After(row, r) = DeletedRow(row)
    BY <1>5 DEF After
  <2> QED
    BY <2>1, <2>2 DEF DeletedRow, Row
<1> QED
  BY <1>1, <1>2, <1>3, <1>4, <1>5 DEF Request, Kind

(* The revision a handler appends is well-formed. *)
LEMMA NewRevisionsType ==
    ASSUME NEW row \in Row \cup {NoRow}, NEW r \in Request,
           Verdict(row, r) = "applied"
    PROVE  NewRevisions(row, r) \subseteq Revision
<1>1. CASE r.kind = "create"
  BY <1>1 DEF NewRevisions, Revision, Request
<1>2. CASE r.kind = "correct"
  <2>1. row \in Row
    BY <1>2 DEF Verdict, CorrectVerdict
  <2>2. row.revision \in Nat /\ row.revision + 1 \in Nat \ {0}
    BY <2>1 DEF Row
  <2> QED
    BY <1>2, <2>2 DEF NewRevisions, Revision, Request
<1>3. CASE r.kind \notin {"create", "correct"}
  BY <1>3 DEF NewRevisions
<1> QED
  BY <1>1, <1>2, <1>3

(* Refusals are refusals. *)
LEMMA VerdictOutcome ==
    ASSUME NEW row \in Row \cup {NoRow}, NEW r \in Request,
           Verdict(row, r) # "applied"
    PROVE  Verdict(row, r) \in Refusal
BY DEF Verdict, CreateVerdict, CorrectVerdict, PaymentVerdict, PrintVerdict,
       DeleteVerdict, Refusal, Request, Kind

(* Recording the outcome of a request keeps the idempotency table typed. *)
LEMMA RecordedType ==
    ASSUME results \in [OpId -> Result \cup {NoResult}],
           NEW r \in Request, NEW outcome \in Outcome
    PROVE  Recorded(r, outcome) \in [OpId -> Result \cup {NoResult}]
BY DEF Recorded, Result, Request

(* No request is accepted on a deleted row.                                *)
LEMMA DeletedRefuses ==
    ASSUME NEW row \in Row \cup {NoRow}, NEW r \in Request,
           Verdict(row, r) = "applied", row # NoRow
    PROVE  ~row.deleted
BY DEF Verdict, CreateVerdict, CorrectVerdict, PaymentVerdict, PrintVerdict,
       DeleteVerdict, Request, Kind

LedgerTypeOK ==
    /\ rows \in [Txn -> Row \cup {NoRow}]
    /\ revisions \subseteq Revision
    /\ results \in [OpId -> Result \cup {NoResult}]

(* The tables keep their column types when any request is accepted.        *)
LEMMA ApplyTyped ==
    ASSUME LedgerTypeOK, NEW r \in Request, Apply(r)
    PROVE  LedgerTypeOK'
<1>1. rows[r.tx] \in Row \cup {NoRow}
  BY DEF LedgerTypeOK, Request
<1>2. After(rows[r.tx], r) \in Row
  BY <1>1, AfterIsRow DEF Apply
<1>3. NewRevisions(rows[r.tx], r) \subseteq Revision
  BY <1>1, NewRevisionsType DEF Apply
<1>4. results' \in [OpId -> Result \cup {NoResult}]
  BY RecordedType DEF Apply, LedgerTypeOK, Outcome
<1> QED
  BY <1>2, <1>3, <1>4 DEF Apply, LedgerTypeOK

Made(t) == {x \in revisions : x.tx = t}

(* A row that was there before is its own first revision.                  *)
LEMMA ChainInit == LedgerInit => RevisionChain
<1> SUFFICES ASSUME LedgerInit, NEW t \in Txn
             PROVE  /\ {x.revision : x \in Made(t)} = 1 .. SeenRevision(t)
                    /\ \A x, y \in Made(t) : x.revision = y.revision => x = y
                    /\ \A x \in Made(t) : x.base = x.revision - 1
  BY DEF RevisionChain, Made
<1> DEFINE seed == [tx |-> t, revision |-> 1, base |-> 0, author |-> Direct]
<1>1. CASE rows[t] = NoRow
  <2>1. Made(t) = {}
    BY <1>1 DEF LedgerInit, Seeded, Made
  <2>2. 1 .. SeenRevision(t) = {}
    BY <1>1 DEF SeenRevision
  <2> QED
    BY <2>1, <2>2
<1>2. CASE rows[t] # NoRow
  <2>1. Made(t) = {seed}
    BY <1>2 DEF LedgerInit, Seeded, Made
  <2>2. SeenRevision(t) = 1
    BY <1>2, LedgerAssumption DEF LedgerInit, SeenRevision
  <2>3. 1 .. 1 = {1}
    OBVIOUS
  <2> QED
    BY <2>1, <2>2, <2>3
<1> QED
  BY <1>1, <1>2

(* How an accepted request extends the revisions of its row.               *)
LEMMA ApplyChain ==
    ASSUME LedgerTypeOK, NEW r \in Request, Apply(r)
    PROVE  /\ rows' = [rows EXCEPT ![r.tx] = After(rows[r.tx], r)]
           /\ \/ /\ r.kind \notin {"create", "correct"}
                 /\ revisions' = revisions
                 /\ SeenRevision(r.tx)' = SeenRevision(r.tx)
              \/ /\ r.kind \in {"create", "correct"}
                 /\ SeenRevision(r.tx) \in Nat
                 /\ SeenRevision(r.tx)' = SeenRevision(r.tx) + 1
                 /\ BaseOf(r) = SeenRevision(r.tx)
                 /\ revisions' = revisions \cup
                      {[tx |-> r.tx, revision |-> SeenRevision(r.tx) + 1,
                        base |-> SeenRevision(r.tx), author |-> r.op]}
<1> DEFINE row == rows[r.tx]
<1>1. r \in Request /\ r.tx \in Txn /\ row \in Row \cup {NoRow}
      /\ Verdict(row, r) = "applied"
  BY LedgerAssumption DEF LedgerTypeOK, Request, Apply
<1>2. rows' = [rows EXCEPT ![r.tx] = After(row, r)]
      /\ rows'[r.tx] = After(row, r)
      /\ revisions' = revisions \cup NewRevisions(row, r)
  BY <1>1 DEF Apply, LedgerTypeOK
<1>3. After(row, r) # NoRow /\ SeenRevision(r.tx)' = After(row, r).revision
  BY <1>1, <1>2, AfterIsRow, LedgerAssumption DEF SeenRevision
<1>4. CASE r.kind = "create"
  <2>1. row = NoRow /\ SeenRevision(r.tx) = 0
    BY <1>1, <1>4 DEF Verdict, CreateVerdict, SeenRevision
  <2>2. After(row, r).revision = 1
    BY <1>4 DEF After, CreatedRow
  <2>3. NewRevisions(row, r) =
          {[tx |-> r.tx, revision |-> 1, base |-> 0, author |-> r.op]}
    BY <1>4 DEF NewRevisions
  <2> QED
    BY <1>1, <1>2, <1>3, <1>4, <2>1, <2>2, <2>3 DEF BaseOf
<1>5. CASE r.kind = "correct"
  <2>1. row \in Row /\ row # NoRow /\ r.base = row.revision
    BY <1>1, <1>5 DEF Verdict, CorrectVerdict
  <2>2. SeenRevision(r.tx) = row.revision /\ row.revision \in Nat
    BY <2>1 DEF SeenRevision, Row
  <2>3. After(row, r).revision = row.revision + 1
    BY <1>5, <2>1 DEF After, CorrectedRow, Row
  <2>4. NewRevisions(row, r) =
          {[tx |-> r.tx, revision |-> row.revision + 1,
            base |-> row.revision, author |-> r.op]}
    BY <1>5 DEF NewRevisions
  <2> QED
    BY <1>1, <1>2, <1>3, <1>5, <2>1, <2>2, <2>3, <2>4 DEF BaseOf
<1>6. CASE r.kind \notin {"create", "correct"}
  <2>1. row \in Row /\ row # NoRow
    BY <1>1, <1>6 DEF Verdict, PaymentVerdict, PrintVerdict, DeleteVerdict,
                      Request, Kind
  <2>2. After(row, r).revision = row.revision
    BY <1>1, <1>6, <2>1 DEF After, PaidRow, PrintedRow, DeletedRow, Row,
                            Request, Kind
  <2>3. NewRevisions(row, r) = {}
    BY <1>6 DEF NewRevisions
  <2> QED
    BY <1>1, <1>2, <1>3, <1>6, <2>1, <2>2, <2>3 DEF SeenRevision
<1> QED
  BY <1>4, <1>5, <1>6

(* other request adds any.                                                 *)
LEMMA ApplyChained ==
    ASSUME LedgerTypeOK, RevisionChain, NEW r \in Request, Apply(r)
    PROVE  RevisionChain'
<1> SUFFICES ASSUME NEW t \in Txn
             PROVE  /\ {x.revision : x \in Made(t)'} = 1 .. SeenRevision(t)'
                    /\ \A x, y \in Made(t)' :
                          x.revision = y.revision => x = y
                    /\ \A x \in Made(t)' : x.base = x.revision - 1
  BY DEF RevisionChain, Made
<1>1. /\ {x.revision : x \in Made(t)} = 1 .. SeenRevision(t)
      /\ \A x, y \in Made(t) : x.revision = y.revision => x = y
      /\ \A x \in Made(t) : x.base = x.revision - 1
  BY DEF RevisionChain, Made
<1>2. CASE Made(t)' = Made(t) /\ SeenRevision(t)' = SeenRevision(t)
  BY <1>1, <1>2
<1>3. CASE t # r.tx
  <2>1. rows'[t] = rows[t]
    BY <1>3, ApplyChain DEF LedgerTypeOK
  <2>2. SeenRevision(t)' = SeenRevision(t)
    BY <2>1 DEF SeenRevision
  <2>3. Made(t)' = Made(t)
    BY <1>3, ApplyChain DEF Made
  <2> QED
    BY <1>2, <2>2, <2>3
<1>4. CASE t = r.tx /\ r.kind \notin {"create", "correct"}
  BY <1>2, <1>4, ApplyChain DEF Made
<1>5. CASE t = r.tx /\ r.kind \in {"create", "correct"}
  <2> DEFINE n == SeenRevision(t)
             new == [tx |-> t, revision |-> n + 1, base |-> n,
                     author |-> r.op]
  <2>1. n \in Nat /\ SeenRevision(t)' = n + 1
        /\ revisions' = revisions \cup {new}
    BY <1>5, ApplyChain
  <2>2. Made(t)' = Made(t) \cup {new}
    BY <2>1 DEF Made
  <2>3. new.revision = n + 1 /\ new.base = n
    OBVIOUS
  <2>4. \A x \in Made(t) : x.revision \in 1 .. n
    BY <1>1
  <2> HIDE DEF new, n
  <2>5. 1 .. (n + 1) = (1 .. n) \cup {n + 1}
    BY <2>1
  <2>6. {x.revision : x \in Made(t)'} = {x.revision : x \in Made(t)} \cup {n + 1}
    BY <2>2, <2>3
  <2>7. {x.revision : x \in Made(t)'} = 1 .. SeenRevision(t)'
    BY <1>1, <2>1, <2>5, <2>6 DEF n
  <2>8. \A x \in Made(t) : x.revision # new.revision
    BY <2>1, <2>3, <2>4
  <2>9. \A x, y \in Made(t)' : x.revision = y.revision => x = y
    BY <1>1, <2>2, <2>8
  <2>10. \A x \in Made(t)' : x.base = x.revision - 1
    BY <1>1, <2>1, <2>2, <2>3
  <2> QED
    BY <2>7, <2>9, <2>10
<1> QED
  BY <1>3, <1>4, <1>5

Decided(o) == results[o] # NoResult
Applied(o) == results[o] # NoResult /\ results[o].outcome = "applied"
InConflict(o) == results[o] # NoResult /\ results[o].outcome = "REVISION_CONFLICT"

-----------------------------------------------------------------------------
(***************************************************************************)
(* The inductive invariant.  Types first, with what they rest on: a row    *)
(* that was ever logged or queued is there, and only a creation has no     *)
(* copy before it.                                                         *)
(***************************************************************************)
SyncShape ==
    \/ sync \in {Idle, [pc |-> "pulling"]}
    \/ sync.pc = "pushing" /\ sync = [pc |-> "pushing", batch |-> sync.batch]
    \/ /\ sync.pc = "marking"
       /\ sync = [pc |-> "marking", todo |-> sync.todo, outcome |-> sync.outcome]
    \/ /\ sync.pc = "paged"
       /\ sync = [pc |-> "paged", page |-> sync.page, more |-> sync.more]

ServerTyped ==
    /\ LedgerTypeOK /\ RevisionChain
    /\ log \in Seq([tx : Txn, tombstone : BOOLEAN])
    /\ \A n \in DOMAIN log : rows[log[n].tx] # NoRow
    /\ answers \in [OpId -> Copy \cup {NoRow}]
    /\ \A o \in OpId : InConflict(o) => answers[o] \in Copy
    /\ sent \subseteq OpId

DeviceTyped ==
    /\ OutboxTypeOK
    /\ \A i \in DOMAIN outbox : /\ local[outbox[i].tx] # NoRow
                                /\ outbox[i].kind = "correct" => outbox[i].base # 0
    /\ draft # NoDraft => local[draft.tx] # NoRow
    /\ \A h \in history : h.before = NoRow => h.revision = 1

RunTyped ==
    /\ cursor \in 0 .. Len(log)
    /\ SyncTypeOK /\ SyncShape
    /\ restored \subseteq Txn

Typed == ServerTyped /\ DeviceTyped /\ RunTyped

(***************************************************************************)
(* The queue.  What has left the device was decided, or is pending, or was *)
(* answered with an error; those before it are over.                       *)
(***************************************************************************)
Orderly(book, gone, done) ==
    /\ \A i, j \in DOMAIN book : book[i].op = book[j].op => i = j
    /\ \A o \in OpId : done[o] # NoResult => o \in gone
    /\ \A o \in gone : \E i \in DOMAIN book : book[i].op = o
    /\ \A i, j \in DOMAIN book :
          i < j /\ book[i].tx = book[j].tx /\ book[j].op \in gone
          => book[i].state \in {"synced", "resolved"}
    /\ \A i \in DOMAIN book :
          LET m == book[i]
          IN /\ m.state \notin {"pending", "synced"} /\ m.op \in gone /\ ~m.failed
                => done[m.op] # NoResult /\ done[m.op].outcome # "applied"
             /\ m.state = "synced"
                => done[m.op] # NoResult /\ done[m.op].outcome = "applied"
             /\ m.state = "conflict" => m.op \in gone

(* Positions whose answer is out: one of a transaction, all pending.       *)
Awaited(positions, book, gone) ==
    /\ positions \subseteq DOMAIN book
    /\ \A i \in positions : book[i].state = "pending" /\ book[i].op \in gone
    /\ \A i, j \in positions : book[i].tx = book[j].tx => i = j

(* While a page is on its way, no answer is. *)
Carried(run, book, gone, done) ==
    /\ run.pc = "pushing" => Awaited(run.batch, book, gone)
    /\ run.pc = "marking" =>
          /\ Awaited(run.todo, book, gone)
          /\ \A i \in run.todo :
                \/ run.outcome[i] = "INTERNAL_ERROR"
                \/ /\ done[book[i].op] # NoResult
                   /\ run.outcome[i] = done[book[i].op].outcome
    /\ run.pc \in {"pulling", "paged"} =>
          \A i \in DOMAIN book : book[i].op \in gone => book[i].state # "pending"

Queued == Orderly(outbox, sent, results) /\ Carried(sync, outbox, sent, results)

(***************************************************************************)
(* The conflicts: one for each transaction with an operation in conflict.  *)
(***************************************************************************)
Tracked(book, table) ==
    /\ \A i, j \in DOMAIN book :
          /\ book[i].state = "conflict" /\ book[j].state = "conflict"
          /\ book[i].tx = book[j].tx
          => i = j
    /\ \A c, d \in table : c.tx = d.tx => c = d
    /\ \A i \in DOMAIN book :
          book[i].state = "conflict" => \E c \in table : c.tx = book[i].tx
    /\ \A c \in table :
          \E i \in DOMAIN book : book[i].state = "conflict" /\ book[i].tx = c.tx

(* Deletion is final, so a copy that is deleted has a row that is. *)
Gone(t) == rows[t] # NoRow /\ rows[t].deleted

Dated ==
    /\ \A t \in Txn : local[t] # NoRow /\ local[t].deleted => Gone(t)
    /\ \A h \in history : h.before # NoRow /\ h.before.deleted => Gone(h.tx)
    /\ \A c \in conflicts : c.local.deleted \/ c.server.deleted => Gone(c.tx)
    /\ draft # NoDraft => ~draft.before.deleted
    /\ \A n \in DOMAIN log : log[n].tombstone => Gone(log[n].tx)

(* A change of t after the n-th of the log. *)
Later(n, t) == \E k \in DOMAIN log : k > n /\ log[k].tx = t

(* What a copy shows of t is the server's version.                         *)
Same(copy, t) ==
    LET now == ServerCopy(t)
    IN copy.revision = now.revision /\ copy.by = now.by /\ copy.paid = now.paid

Shows(copy, t) ==
    /\ rows[t] # NoRow
    /\ copy.deleted = rows[t].deleted
    /\ ~copy.deleted => Same(copy, t)

(* The versions on the device are the server's, but for changes that are   *)
(* still to be pulled: those of the conflicts, of the answers that are out, *)
(* and of the page on its way.                                             *)
Offered(table, from) ==
    \A c \in table : Later(from, c.tx) \/ Shows(c.server, c.tx)

Answered ==
    \A i \in DOMAIN outbox :
        LET m == outbox[i]
        IN m.op \in sent /\ m.state = "pending" /\ InConflict(m.op) =>
              \/ Later(cursor, m.tx)
              \/ rows[m.tx] # NoRow /\ ~rows[m.tx].deleted /\ Same(answers[m.op], m.tx)

Paged ==
    sync.pc = "paged" =>
        /\ cursor + Len(sync.page) <= Len(log)
        /\ \A k \in DOMAIN sync.page :
              LET c == sync.page[k]
              IN /\ c.tx = log[cursor + k].tx
                 /\ c.tombstone = log[cursor + k].tombstone
                 /\ ~c.tombstone =>
                       /\ c.row \in Copy
                       /\ c.row.deleted => Gone(c.tx)
                       /\ \/ Later(cursor + Len(sync.page), c.tx)
                          \/ Shows(c.row, c.tx)

Current == Offered(conflicts, cursor) /\ Answered /\ Paged

SInv == Typed /\ Queued /\ Tracked(outbox, conflicts) /\ Dated /\ Current

-----------------------------------------------------------------------------
(* Induction over numbers, of a set instead of a predicate. *)
LEMMA CountingUp ==
    ASSUME NEW S \in SUBSET Nat, 0 \in S, \A n \in S : n + 1 \in S
    PROVE  \A n \in Nat : n \in S
<1> SUFFICES ASSUME NEW m \in Nat \ S PROVE FALSE
  OBVIOUS
<1>1. PICK n \in Nat \ S : \A k \in Nat \ S : ~(<<k, n>> \in OpToRel(<, Nat))
  BY WFMin, NatLessThanWellFounded
<1>2. n - 1 \in Nat /\ n - 1 < n /\ n = (n - 1) + 1
  OBVIOUS
<1>3. n - 1 \in S
  BY <1>1, <1>2 DEF OpToRel
<1> QED BY <1>2, <1>3

LEMMA LeastIs ==
    ASSUME NEW S \in SUBSET Nat, S # {}
    PROVE  \E n \in S : \A k \in S : n <= k
<1>1. PICK n \in S : \A k \in S : ~(<<k, n>> \in OpToRel(<, Nat))
  BY WFMin, NatLessThanWellFounded
<1>2. \A k \in S : ~(k < n)
  BY <1>1 DEF OpToRel
<1> QED BY <1>2

(* The largest of some numbers up to k. *)
LEMMA LargestIs ==
    ASSUME NEW k \in Nat, NEW s \in SUBSET (1 .. k), s # {}
    PROVE  Max(s) \in s /\ \A y \in s : Max(s) >= y
<1> DEFINE Bounded == {n \in Nat : \A r \in SUBSET (1 .. n) : r # {} => \E x \in r : \A y \in r : x >= y}
<1>1. 0 \in Bounded
  <2>1. 1 .. 0 = {}
    OBVIOUS
  <2> QED BY <2>1
<1>2. ASSUME NEW n \in Bounded PROVE n + 1 \in Bounded
  <2> SUFFICES ASSUME NEW r \in SUBSET (1 .. n + 1), r # {} PROVE \E x \in r : \A y \in r : x >= y
    BY <1>2
  <2>1. CASE n + 1 \in r
    BY <2>1
  <2>2. CASE n + 1 \notin r
    <3>1. r \in SUBSET (1 .. n)
      BY <2>2
    <3> QED BY <3>1
  <2> QED BY <2>1, <2>2
<1> HIDE DEF Bounded
<1>3. k \in Bounded
  <2>1. Bounded \in SUBSET Nat
    BY DEF Bounded
  <2> QED BY <1>1, <1>2, <2>1, CountingUp
<1>4. \E x \in s : \A y \in s : x >= y
  BY <1>3 DEF Bounded
<1> QED BY <1>4 DEF Max

LEMMA WithoutLargest ==
    ASSUME NEW n \in Nat, NEW s \in SUBSET (1 .. n + 1), s # {}
    PROVE  s \ {Max(s)} \in SUBSET (1 .. n)
<1>1. n + 1 \in Nat
  OBVIOUS
<1>2. Max(s) \in s /\ \A y \in s : Max(s) >= y
  BY <1>1, LargestIs
<1>3. ASSUME NEW x \in s, \A y \in s : x >= y PROVE s \ {x} \in SUBSET (1 .. n)
  BY <1>3
<1> QED BY <1>2, <1>3

(* g folds the changes of page, as FoldLeft does, over numbers up to n. *)
Folding(g, page, n) ==
    g = [s \in SUBSET (1 .. n) |->
            IF s = {} THEN Device
            ELSE Installed(g[s \ {Max(s)}], page[Max(s)])]

LEMMA FoldingExists ==
    ASSUME NEW page, NEW k \in Nat
    PROVE  \E g : Folding(g, page, k)
<1> DEFINE Far == {n \in Nat : \E g : Folding(g, page, n)}
<1>1. 0 \in Far
  <2> DEFINE g == [s \in SUBSET (1 .. 0) |-> Device]
  <2>1. \A s \in SUBSET (1 .. 0) : s = {}
    OBVIOUS
  <2>2. Folding(g, page, 0)
    BY <2>1 DEF Folding
  <2> QED BY <2>2
<1>2. ASSUME NEW n \in Far PROVE n + 1 \in Far
  <2>1. PICK g : Folding(g, page, n)
    BY <1>2
  <2> DEFINE Next1(h, s) == IF s = {} THEN Device
                       ELSE Installed(h[s \ {Max(s)}], page[Max(s)])
             f == [s \in SUBSET (1 .. n + 1) |-> Next1(g, s)]
  <2>0. n \in Nat /\ \A s \in SUBSET (1 .. n) : s \in SUBSET (1 .. n + 1)
    OBVIOUS
  <2>2. \A s \in SUBSET (1 .. n) : g[s] = Next1(g, s)
    BY <2>1, Zenon DEF Folding
  <2>3. \A s \in SUBSET (1 .. n) : f[s] = g[s]
    BY <2>0, <2>2
  <2>4. \A s \in SUBSET (1 .. n + 1) : s # {} => s \ {Max(s)} \in SUBSET (1 .. n)
    BY <2>0, WithoutLargest
  <2>5. \A s \in SUBSET (1 .. n + 1) : f[s] = Next1(f, s)
    BY <2>3, <2>4
  <2>6. f = [s \in SUBSET (1 .. n + 1) |-> Next1(f, s)]
    <3> HIDE DEF Next1
    <3>1. f = [s \in SUBSET (1 .. n + 1) |-> f[s]]
      OBVIOUS
    <3> HIDE DEF f
    <3> QED BY <2>5, <3>1
  <2>7. Folding(f, page, n + 1)
    <3> HIDE DEF f
    <3> QED BY <2>6 DEF Folding
  <2> HIDE DEF f
  <2> QED BY <2>7
<1> HIDE DEF Far
<1>3. Far \in SUBSET Nat
  BY DEF Far
<1>4. k \in Far
  BY <1>1, <1>2, <1>3, CountingUp
<1> QED BY <1>4 DEF Far

(* What FoldLeft does to a page. *)
LEMMA PageFolded ==
    ASSUME NEW page, NEW k \in Nat, DOMAIN page = 1 .. k
    PROVE  \E g : Folding(g, page, k) /\ FoldLeft(Installed, Device, page) = g[1 .. k]
<1> DEFINE iter == CHOOSE g : Folding(g, page, k)
<1>1. FoldLeft(Installed, Device, page) = iter[1 .. k]
  BY DEF FoldLeft, MapThenFoldSet, Folding
<1>2. Folding(iter, page, k)
  BY FoldingExists
<1> QED BY <1>1, <1>2

-----------------------------------------------------------------------------
(***************************************************************************)
(* Queues of operations.                                                   *)
(***************************************************************************)
LEMMA SeqIs ==
    ASSUME NEW S, NEW f \in Seq(S)
    PROVE  /\ Len(f) \in Nat /\ DOMAIN f = 1 .. Len(f)
           /\ f \in [1 .. Len(f) -> S] /\ \A i \in DOMAIN f : f[i] \in S
OBVIOUS

LEMMA AppendIs ==
    ASSUME NEW S, NEW f \in Seq(S), NEW e \in S
    PROVE  /\ Append(f, e) \in Seq(S) /\ Len(Append(f, e)) = Len(f) + 1
           /\ Len(f) + 1 \in DOMAIN Append(f, e)
           /\ DOMAIN Append(f, e) = DOMAIN f \cup {Len(f) + 1}
           /\ \A i \in DOMAIN f : i # Len(f) + 1 /\ i < Len(f) + 1 /\ Append(f, e)[i] = f[i]
           /\ Append(f, e)[Len(f) + 1] = e
OBVIOUS

(* m and n are the same operation, maybe in another state. *)
Like(m, n) ==
    /\ n.op = m.op /\ n.tx = m.tx /\ n.kind = m.kind /\ n.base = m.base /\ n.valid = m.valid
    /\ n.basis = m.basis /\ n.clean = m.clean
    /\ n \in Operation

LEMMA Stated ==
    ASSUME NEW m \in Operation, NEW s \in OpState
    PROVE  /\ Like(m, [m EXCEPT !.state = s])
           /\ [m EXCEPT !.state = s].state = s
           /\ [m EXCEPT !.state = s].failed = m.failed
BY DEF Like, Operation

LEMMA FailedIs ==
    ASSUME NEW m \in Operation, NEW b \in BOOLEAN
    PROVE  /\ Like(m, [m EXCEPT !.failed = b])
           /\ [m EXCEPT !.failed = b].state = m.state
           /\ [m EXCEPT !.failed = b].failed = b
BY DEF Like, Operation

LEMMA MovedIs ==
    ASSUME NEW book \in Seq(Operation), NEW P, NEW s \in OpState
    PROVE  /\ Moved(book, P, s) \in Seq(Operation)
           /\ DOMAIN Moved(book, P, s) = DOMAIN book
           /\ \A i \in DOMAIN book :
                 /\ i \notin P => Moved(book, P, s)[i] = book[i]
                 /\ i \in P => /\ Like(book[i], Moved(book, P, s)[i])
                               /\ Moved(book, P, s)[i].state = s
                               /\ Moved(book, P, s)[i].failed = book[i].failed
<1>1. \A i \in DOMAIN book :
         /\ i \notin P => Moved(book, P, s)[i] = book[i]
         /\ i \in P => Moved(book, P, s)[i] = [book[i] EXCEPT !.state = s]
  BY DEF Moved
<1>2. \A i \in DOMAIN book : book[i] \in Operation
  BY SeqIs
<1>3. ASSUME NEW i \in DOMAIN book
      PROVE  /\ Moved(book, P, s)[i] \in Operation
             /\ i \in P => /\ Like(book[i], Moved(book, P, s)[i])
                           /\ Moved(book, P, s)[i].state = s
                           /\ Moved(book, P, s)[i].failed = book[i].failed
  <2> DEFINE n == [book[i] EXCEPT !.state = s]
  <2>1. Like(book[i], n) /\ n.state = s /\ n.failed = book[i].failed
    BY <1>2, Stated
  <2>2. i \in P => Moved(book, P, s)[i] = n
    BY <1>1
  <2> HIDE DEF n
  <2> QED BY <1>1, <1>2, <2>1, <2>2 DEF Like
<1>4. Moved(book, P, s) \in [1 .. Len(book) -> Operation]
  <2>1. DOMAIN book = 1 .. Len(book)
    BY SeqIs
  <2>2. Moved(book, P, s) = [i \in DOMAIN book |-> Moved(book, P, s)[i]]
    BY DEF Moved
  <2> QED BY <1>3, <2>1, <2>2
<1>5. Moved(book, P, s) \in Seq(Operation)
  <2>1. \A n \in Nat : \A f \in [1 .. n -> Operation] : f \in Seq(Operation)
    OBVIOUS
  <2>2. Len(book) \in Nat
    BY SeqIs
  <2> QED BY <1>4, <2>1, <2>2, Zenon
<1> QED BY <1>1, <1>3, <1>5 DEF Moved

(* next is book after the answer to i: it is in state, and those behind it *)
(* are rejected if it stopped.                                             *)
Marked(book, next, i, state, failed, stops) ==
    /\ next \in Seq(Operation) /\ DOMAIN next = DOMAIN book
    /\ Like(book[i], next[i]) /\ next[i].state = state /\ next[i].failed = failed
    /\ \A j \in DOMAIN book \ {i} :
          IF stops /\ j > i /\ book[j].tx = book[i].tx /\ book[j].state = "pending"
          THEN /\ Like(book[j], next[j])
               /\ next[j].state = "rejected" /\ next[j].failed = book[j].failed
          ELSE next[j] = book[j]

LEMMA PutIs ==
    ASSUME NEW book \in Seq(Operation), NEW i \in DOMAIN book, NEW m \in Operation
    PROVE  /\ [book EXCEPT ![i] = m] \in Seq(Operation)
           /\ DOMAIN [book EXCEPT ![i] = m] = DOMAIN book
           /\ [book EXCEPT ![i] = m][i] = m
           /\ \A j \in DOMAIN book \ {i} : [book EXCEPT ![i] = m][j] = book[j]
OBVIOUS

LEMMA AppliedIs ==
    ASSUME NEW book \in Seq(Operation), NEW i \in DOMAIN book
    PROVE  Marked(book, [book EXCEPT ![i].state = "synced"], i, "synced", book[i].failed, FALSE)
<1> DEFINE m == [book[i] EXCEPT !.state = "synced"]
<1>1. book[i] \in Operation
  BY SeqIs
<1>2. Like(book[i], m) /\ m.state = "synced" /\ m.failed = book[i].failed
  BY <1>1, Stated DEF OpState
<1>3. [book EXCEPT ![i].state = "synced"] = [book EXCEPT ![i] = m]
  OBVIOUS
<1> HIDE DEF m
<1> QED BY <1>2, <1>3, PutIs DEF Marked, Like

LEMMA StoppedIs ==
    ASSUME outbox \in Seq(Operation), NEW i \in DOMAIN outbox, NEW state \in OpState \ {"pending"}
    PROVE  Marked(outbox, StoppedAt(i, state), i, state, outbox[i].failed, TRUE)
<1> DEFINE m == [outbox[i] EXCEPT !.state = state]
           book == [outbox EXCEPT ![i] = m]
           after == {j \in DOMAIN outbox : /\ j > i /\ outbox[j].tx = outbox[i].tx
                                           /\ outbox[j].state = "pending"}
<1>1. outbox[i] \in Operation
  BY SeqIs
<1>2. Like(outbox[i], m) /\ m.state = state /\ m.failed = outbox[i].failed
  BY <1>1, Stated
<1>3. StoppedAt(i, state) = Moved(book, after, "rejected")
  BY DEF StoppedAt
<1> HIDE DEF m
<1>4. /\ book \in Seq(Operation) /\ DOMAIN book = DOMAIN outbox /\ book[i] = m
      /\ \A j \in DOMAIN outbox \ {i} : book[j] = outbox[j]
  BY <1>2, PutIs DEF Like
<1>5. i \notin after /\ "rejected" \in OpState
  BY SeqIs DEF OpState
<1> HIDE DEF book
<1>6. /\ Moved(book, after, "rejected") \in Seq(Operation)
      /\ DOMAIN Moved(book, after, "rejected") = DOMAIN book
      /\ \A j \in DOMAIN book :
            /\ j \notin after => Moved(book, after, "rejected")[j] = book[j]
            /\ j \in after => /\ Like(book[j], Moved(book, after, "rejected")[j])
                              /\ Moved(book, after, "rejected")[j].state = "rejected"
                              /\ Moved(book, after, "rejected")[j].failed = book[j].failed
  BY <1>4, <1>5, MovedIs
<1> DEFINE next == Moved(book, after, "rejected")
<1> HIDE DEF next
<1>7. Marked(outbox, next, i, state, outbox[i].failed, TRUE)
  BY <1>2, <1>4, <1>5, <1>6 DEF Marked, next
<1> QED BY <1>3, <1>7 DEF next

LEMMA RejectedIs ==
    ASSUME outbox \in Seq(Operation), NEW i \in DOMAIN outbox, NEW failed \in BOOLEAN
    PROVE  Marked(outbox, [StoppedAt(i, "rejected") EXCEPT ![i].failed = failed], i, "rejected", failed, TRUE)
<1> DEFINE next == StoppedAt(i, "rejected")
           m == [next[i] EXCEPT !.failed = failed]
           put == [next EXCEPT ![i] = m]
<1>1. Marked(outbox, next, i, "rejected", outbox[i].failed, TRUE)
  BY StoppedIs DEF OpState
<1> HIDE DEF next
<1>2. next \in Seq(Operation) /\ i \in DOMAIN next /\ next[i] \in Operation
  BY <1>1 DEF Marked, Like
<1>3. Like(next[i], m) /\ m.state = next[i].state /\ m.failed = failed
  BY <1>2, FailedIs
<1>4. [next EXCEPT ![i].failed = failed] = put
  BY <1>2
<1> HIDE DEF m
<1>5. /\ put \in Seq(Operation) /\ DOMAIN put = DOMAIN next /\ put[i] = m
      /\ \A j \in DOMAIN next \ {i} : put[j] = next[j]
  BY <1>2, <1>3, PutIs DEF Like
<1> HIDE DEF put
<1>6. Marked(outbox, put, i, "rejected", failed, TRUE)
  BY <1>1, <1>2, <1>3, <1>5 DEF Marked, Like
<1> QED BY <1>4, <1>6 DEF next

-----------------------------------------------------------------------------
(***************************************************************************)
(* What keeps the queue in order.                                          *)
(***************************************************************************)
(* Conflicts and rejections of book may be over in next. *)
Eased(book, next) ==
    /\ next \in Seq(Operation) /\ DOMAIN next = DOMAIN book
    /\ \A i \in DOMAIN book :
          \/ next[i] = book[i]
          \/ /\ book[i].state \in {"conflict", "rejected"}
             /\ Like(book[i], next[i])
             /\ next[i].state = "resolved" /\ next[i].failed = book[i].failed

LEMMA EasedOrderly ==
    ASSUME NEW book, NEW next, NEW gone, NEW done, Orderly(book, gone, done), Eased(book, next)
    PROVE  Orderly(next, gone, done)
<1>1. \A i \in DOMAIN book : next[i].op = book[i].op /\ next[i].tx = book[i].tx
  BY DEF Eased, Like
<1>2. DOMAIN next = DOMAIN book
  BY DEF Eased
<1>3. ASSUME NEW i \in DOMAIN book
      PROVE  LET m == next[i]
             IN /\ m.state \notin {"pending", "synced"} /\ m.op \in gone /\ ~m.failed
                   => done[m.op] # NoResult /\ done[m.op].outcome # "applied"
                /\ m.state = "synced"
                   => done[m.op] # NoResult /\ done[m.op].outcome = "applied"
                /\ m.state = "conflict" => m.op \in gone
  BY DEF Eased, Like, Orderly
<1>4. \A i, j \in DOMAIN next :
         i < j /\ next[i].tx = next[j].tx /\ next[j].op \in gone
         => next[i].state \in {"synced", "resolved"}
  BY <1>1, <1>2 DEF Eased, Orderly
<1>5. /\ \A i, j \in DOMAIN next : next[i].op = next[j].op => i = j
      /\ \A o \in OpId : done[o] # NoResult => o \in gone
      /\ \A o \in gone : \E i \in DOMAIN next : next[i].op = o
  BY <1>1, <1>2 DEF Orderly
<1> QED BY <1>2, <1>3, <1>4, <1>5 DEF Orderly

LEMMA EasedCarried ==
    ASSUME NEW run, NEW book, NEW next, NEW gone, NEW done,
           Carried(run, book, gone, done), Eased(book, next)
    PROVE  Carried(run, next, gone, done)
<1>1. ASSUME NEW positions, Awaited(positions, book, gone)
      PROVE  Awaited(positions, next, gone) /\ \A i \in positions : next[i] = book[i]
  BY <1>1 DEF Awaited, Eased
<1>2. \A i \in DOMAIN book : next[i].op = book[i].op /\ (next[i].state = "pending" => book[i].state = "pending")
  BY DEF Eased, Like
<1>3. DOMAIN next = DOMAIN book
  BY DEF Eased
<1>4. run.pc = "pushing" => Awaited(run.batch, next, gone)
  BY <1>1 DEF Carried
<1>5. run.pc = "marking" =>
         /\ Awaited(run.todo, next, gone)
         /\ \A i \in run.todo :
               \/ run.outcome[i] = "INTERNAL_ERROR"
               \/ /\ done[next[i].op] # NoResult
                  /\ run.outcome[i] = done[next[i].op].outcome
  BY <1>1 DEF Carried
<1>6. run.pc \in {"pulling", "paged"} =>
         \A i \in DOMAIN next : next[i].op \in gone => next[i].state # "pending"
  BY <1>2, <1>3 DEF Carried
<1> QED BY <1>4, <1>5, <1>6 DEF Carried

(* An operation that is new has not left the device. *)
LEMMA AppendedOrderly ==
    ASSUME NEW book \in Seq(Operation), NEW m \in Operation, NEW gone, NEW done, NEW run,
           Orderly(book, gone, done), Carried(run, book, gone, done),
           m.state = "pending", \A i \in DOMAIN book : book[i].op # m.op
    PROVE  /\ Orderly(Append(book, m), gone, done)
           /\ Carried(run, Append(book, m), gone, done)
<1> DEFINE next == Append(book, m)
           n == Len(book) + 1
<1>1. /\ DOMAIN next = DOMAIN book \cup {n} /\ next[n] = m
      /\ \A i \in DOMAIN book : i # n /\ i < n /\ next[i] = book[i]
      /\ n \in Nat
  BY AppendIs
<1>2. m.op \notin gone
  BY DEF Orderly
<1>3. \A i \in DOMAIN book : i \in Nat
  BY SeqIs
<1> HIDE DEF next, n
<1>4. Orderly(next, gone, done)
  <2>1. \A i, j \in DOMAIN next : next[i].op = next[j].op => i = j
    BY <1>1 DEF Orderly
  <2>2. \A o \in gone : \E i \in DOMAIN next : next[i].op = o
    BY <1>1 DEF Orderly
  <2>3. \A i, j \in DOMAIN next :
           i < j /\ next[i].tx = next[j].tx /\ next[j].op \in gone
           => next[i].state \in {"synced", "resolved"}
    <3> SUFFICES ASSUME NEW i \in DOMAIN next, NEW j \in DOMAIN next,
                        i < j, next[i].tx = next[j].tx, next[j].op \in gone
                 PROVE  next[i].state \in {"synced", "resolved"}
      OBVIOUS
    <3>1. j \in DOMAIN book
      BY <1>1, <1>2
    <3>2. i \in DOMAIN book
      BY <1>1, <1>3, <3>1
    <3> QED BY <1>1, <3>1, <3>2 DEF Orderly
  <2>4. \A i \in DOMAIN next :
          LET e == next[i]
          IN /\ e.state \notin {"pending", "synced"} /\ e.op \in gone /\ ~e.failed
                => done[e.op] # NoResult /\ done[e.op].outcome # "applied"
             /\ e.state = "synced"
                => done[e.op] # NoResult /\ done[e.op].outcome = "applied"
             /\ e.state = "conflict" => e.op \in gone
    BY <1>1, <1>2 DEF Orderly
  <2> QED BY <2>1, <2>2, <2>3, <2>4 DEF Orderly
<1>5. Carried(run, next, gone, done)
  <2>1. ASSUME NEW positions, Awaited(positions, book, gone)
        PROVE  Awaited(positions, next, gone) /\ \A i \in positions : next[i] = book[i]
    BY <1>1, <2>1 DEF Awaited
  <2>2. run.pc = "marking" =>
           /\ Awaited(run.todo, next, gone)
           /\ \A i \in run.todo :
                 \/ run.outcome[i] = "INTERNAL_ERROR"
                 \/ /\ done[next[i].op] # NoResult
                    /\ run.outcome[i] = done[next[i].op].outcome
    BY <2>1 DEF Carried
  <2>3. run.pc \in {"pulling", "paged"} =>
           \A i \in DOMAIN next : next[i].op \in gone => next[i].state # "pending"
    BY <1>1, <1>2 DEF Carried
  <2> QED BY <2>1, <2>2, <2>3 DEF Carried
<1> QED BY <1>4, <1>5 DEF next

(* An answer that fits: an operation that stops was not applied, or failed. *)
Fits(m, done, state, failed, stops) ==
    \/ /\ state = "synced" /\ ~stops
       /\ done[m.op] # NoResult /\ done[m.op].outcome = "applied"
    \/ /\ state \in {"rejected", "conflict"}
       /\ failed \/ (done[m.op] # NoResult /\ done[m.op].outcome # "applied")

LEMMA MarkedOrderly ==
    ASSUME NEW book \in Seq(Operation), NEW next, NEW gone, NEW done, NEW i \in DOMAIN book,
           NEW state, NEW failed, NEW stops,
           Orderly(book, gone, done), Marked(book, next, i, state, failed, stops),
           book[i].state = "pending", book[i].op \in gone, Fits(book[i], done, state, failed, stops)
    PROVE  Orderly(next, gone, done)
<1>1. \A j \in DOMAIN book : next[j].op = book[j].op /\ next[j].tx = book[j].tx
  BY DEF Marked, Like
<1>2. DOMAIN next = DOMAIN book
  BY DEF Marked
<1>3. \A j \in DOMAIN book : j \in Nat
  BY SeqIs
<1>4. \A j \in DOMAIN book \ {i} :
         \/ next[j] = book[j]
         \/ /\ book[j].state = "pending" /\ book[j].op \notin gone
            /\ next[j].state = "rejected"
  BY <1>3 DEF Marked, Orderly, Fits
<1>5. ASSUME NEW j \in DOMAIN book
      PROVE  LET m == next[j]
             IN /\ m.state \notin {"pending", "synced"} /\ m.op \in gone /\ ~m.failed
                   => done[m.op] # NoResult /\ done[m.op].outcome # "applied"
                /\ m.state = "synced"
                   => done[m.op] # NoResult /\ done[m.op].outcome = "applied"
                /\ m.state = "conflict" => m.op \in gone
  <2>1. CASE j = i
    BY <1>1, <2>1 DEF Marked, Like, Fits
  <2>2. CASE j # i
    BY <1>1, <1>4, <2>2 DEF Orderly
  <2> QED BY <2>1, <2>2
<1>6. \A k, j \in DOMAIN next :
         k < j /\ next[k].tx = next[j].tx /\ next[j].op \in gone
         => next[k].state \in {"synced", "resolved"}
  <2> SUFFICES ASSUME NEW k \in DOMAIN book, NEW j \in DOMAIN book,
                      k < j, book[k].tx = book[j].tx, book[j].op \in gone
               PROVE  next[k].state \in {"synced", "resolved"}
    BY <1>1, <1>2
  <2>1. book[k].state \in {"synced", "resolved"}
    BY DEF Orderly
  <2> QED BY <1>4, <2>1
<1>7. /\ \A k, j \in DOMAIN next : next[k].op = next[j].op => k = j
      /\ \A o \in OpId : done[o] # NoResult => o \in gone
      /\ \A o \in gone : \E k \in DOMAIN next : next[k].op = o
  BY <1>1, <1>2 DEF Orderly
<1> QED BY <1>2, <1>5, <1>6, <1>7 DEF Orderly

(* An operation is decided after it has left, and once. *)
LEMMA DecidedOrderly ==
    ASSUME NEW book \in Seq(Operation), NEW gone, NEW done, NEW run, NEW o \in OpId, NEW result,
           DOMAIN done = OpId, o \in gone, done[o] = NoResult, result # NoResult,
           Orderly(book, gone, done), Carried(run, book, gone, done)
    PROVE  /\ Orderly(book, gone, [done EXCEPT ![o] = result])
           /\ Carried(run, book, gone, [done EXCEPT ![o] = result])
<1> DEFINE then == [done EXCEPT ![o] = result]
<1>1. /\ then[o] = result
      /\ \A x \in OpId : x # o => then[x] = done[x]
  OBVIOUS
<1>2. \A i \in DOMAIN book : book[i].op \in OpId
  <2>1. \A i \in DOMAIN book : book[i] \in Operation
    BY SeqIs
  <2> QED BY <2>1 DEF Operation
<1> HIDE DEF then
<1>3. \A i \in DOMAIN book : done[book[i].op] # NoResult => then[book[i].op] = done[book[i].op]
  BY <1>1, <1>2
<1>4. \A x \in OpId : then[x] # NoResult => x \in gone
  BY <1>1 DEF Orderly
<1>5. ASSUME NEW i \in DOMAIN book
      PROVE  LET m == book[i]
             IN /\ m.state \notin {"pending", "synced"} /\ m.op \in gone /\ ~m.failed
                   => then[m.op] # NoResult /\ then[m.op].outcome # "applied"
                /\ m.state = "synced"
                   => then[m.op] # NoResult /\ then[m.op].outcome = "applied"
                /\ m.state = "conflict" => m.op \in gone
  BY <1>3 DEF Orderly
<1>6. Orderly(book, gone, then)
  BY <1>4, <1>5 DEF Orderly
<1>7. Carried(run, book, gone, then)
  <2>1. run.pc = "marking" => run.todo \subseteq DOMAIN book
    BY DEF Carried, Awaited
  <2>2. run.pc = "marking" =>
           /\ Awaited(run.todo, book, gone)
           /\ \A i \in run.todo :
                 \/ run.outcome[i] = "INTERNAL_ERROR"
                 \/ /\ then[book[i].op] # NoResult
                    /\ run.outcome[i] = then[book[i].op].outcome
    BY <1>3, <2>1 DEF Carried
  <2> QED BY <2>2 DEF Carried
<1> QED BY <1>6, <1>7 DEF then

(* A batch is of operations with nothing unfinished before them. *)
LEMMA PushedOrderly ==
    ASSUME outbox \in Seq(Operation), NEW batch \in SUBSET Ready, NEW gone, NEW done, NEW then,
           Orderly(outbox, gone, done), then = gone \cup {outbox[i].op : i \in batch}
    PROVE  Orderly(outbox, then, done) /\ Awaited(batch, outbox, then)
<1>1. \A i \in DOMAIN outbox : outbox[i] \in Operation /\ i \in Nat
  BY SeqIs
<1>2. DOMAIN outbox = 1 .. Len(outbox) /\ Len(outbox) \in Nat
  BY SeqIs
<1>3. \A i \in batch :
         /\ i \in DOMAIN outbox /\ outbox[i].state = "pending"
         /\ \A j \in DOMAIN outbox :
               j < i /\ outbox[j].tx = outbox[i].tx => outbox[j].state \in {"synced", "resolved"}
  <2> SUFFICES ASSUME NEW i \in batch
               PROVE  /\ i \in DOMAIN outbox /\ outbox[i].state = "pending"
                      /\ \A j \in DOMAIN outbox :
                            j < i /\ outbox[j].tx = outbox[i].tx
                            => outbox[j].state \in {"synced", "resolved"}
    OBVIOUS
  <2>1. i \in DOMAIN outbox /\ Sendable(i)
    BY DEF Ready
  <2>2. ASSUME NEW j \in DOMAIN outbox, j < i, outbox[j].tx = outbox[i].tx
        PROVE  outbox[j].state \in {"synced", "resolved"}
    <3>1. j \in 1 .. i - 1
      BY <1>2, <2>1, <2>2
    <3>2. outbox[j].state \in OpState /\ outbox[j].state \notin Unfinished
      BY <1>1, <2>1, <2>2, <3>1 DEF Sendable, Operation
    <3> QED BY <3>2 DEF OpState, Unfinished
  <2> QED BY <2>1, <2>2 DEF Sendable
<1>4. \A i \in DOMAIN outbox : outbox[i].op \in then => outbox[i].op \in gone \/ i \in batch
  BY <1>3 DEF Orderly
<1>5. \A i, j \in DOMAIN outbox :
         i < j /\ outbox[i].tx = outbox[j].tx /\ outbox[j].op \in then
         => outbox[i].state \in {"synced", "resolved"}
  BY <1>3, <1>4 DEF Orderly
<1>6. ASSUME NEW i \in DOMAIN outbox
      PROVE  LET m == outbox[i]
             IN /\ m.state \notin {"pending", "synced"} /\ m.op \in then /\ ~m.failed
                   => done[m.op] # NoResult /\ done[m.op].outcome # "applied"
                /\ m.state = "synced"
                   => done[m.op] # NoResult /\ done[m.op].outcome = "applied"
                /\ m.state = "conflict" => m.op \in then
  BY <1>3, <1>4 DEF Orderly
<1>7. Orderly(outbox, then, done)
  <2>1. \A o \in then : \E i \in DOMAIN outbox : outbox[i].op = o
    BY <1>3 DEF Orderly
  <2>2. /\ \A i, j \in DOMAIN outbox : outbox[i].op = outbox[j].op => i = j
        /\ \A o \in OpId : done[o] # NoResult => o \in then
    BY DEF Orderly
  <2> QED BY <1>5, <1>6, <2>1, <2>2 DEF Orderly
<1>8. \A i, j \in batch : outbox[i].tx = outbox[j].tx => i = j
  <2> SUFFICES ASSUME NEW i \in batch, NEW j \in batch, outbox[i].tx = outbox[j].tx, i # j
               PROVE  FALSE
    OBVIOUS
  <2>1. i < j \/ j < i
    BY <1>1, <1>3
  <2> QED BY <1>3, <2>1
<1> QED BY <1>3, <1>7, <1>8 DEF Awaited

-----------------------------------------------------------------------------
(***************************************************************************)
(* What keeps the conflicts tracked.                                       *)
(***************************************************************************)
LEMMA SameTracked ==
    ASSUME NEW book, NEW next, NEW table, Tracked(book, table),
           DOMAIN book \subseteq DOMAIN next,
           \A i \in DOMAIN next : next[i].state = "conflict" => i \in DOMAIN book,
           \A i \in DOMAIN book : /\ next[i].tx = book[i].tx
                                  /\ next[i].state = "conflict" <=> book[i].state = "conflict"
    PROVE  Tracked(next, table)
BY DEF Tracked

LEMMA AppendedTracked ==
    ASSUME NEW book \in Seq(Operation), NEW m \in Operation, NEW table,
           Tracked(book, table), m.state = "pending"
    PROVE  Tracked(Append(book, m), table)
<1> DEFINE next == Append(book, m)
           n == Len(book) + 1
<1>1. /\ DOMAIN next = DOMAIN book \cup {n} /\ next[n] = m
      /\ \A i \in DOMAIN book : next[i] = book[i]
  BY AppendIs
<1> HIDE DEF next, n
<1>2. Tracked(next, table)
  BY <1>1, SameTracked
<1> QED BY <1>2 DEF next

(* The conflict of c is over, and c with it. *)
LEMMA SettledTracked ==
    ASSUME NEW book, NEW next, NEW table, NEW c \in table, Tracked(book, table),
           DOMAIN next = DOMAIN book,
           \A i \in DOMAIN book :
              /\ next[i].tx = book[i].tx
              /\ next[i].state = "conflict" <=> book[i].state = "conflict" /\ book[i].tx # c.tx
    PROVE  Tracked(next, table \ {c})
BY DEF Tracked

(* A new conflict is the only one of its transaction. *)
LEMMA ConflictTrackedNow ==
    ASSUME NEW book \in Seq(Operation), NEW next, NEW table, NEW gone, NEW done, NEW i \in DOMAIN book, NEW failed,
           NEW c, c.tx = book[i].tx,
           Orderly(book, gone, done), Tracked(book, table),
           Marked(book, next, i, "conflict", failed, TRUE),
           book[i].state = "pending", book[i].op \in gone
    PROVE  Tracked(next, table \cup {c})
<1>1. \A j \in DOMAIN book : j \in Nat
  BY SeqIs
<1>2. \A j \in DOMAIN book : book[j].state = "conflict" => book[j].tx # book[i].tx
  <2> SUFFICES ASSUME NEW j \in DOMAIN book, book[j].state = "conflict", book[j].tx = book[i].tx
               PROVE  FALSE
    OBVIOUS
  <2>1. book[j].op \in gone /\ (i < j \/ j < i)
    BY <1>1 DEF Orderly
  <2> QED BY <2>1 DEF Orderly
<1>3. DOMAIN next = DOMAIN book /\ next[i].state = "conflict" /\ next[i].tx = book[i].tx
  BY DEF Marked, Like
<1>4. \A j \in DOMAIN book \ {i} :
         next[j].tx = book[j].tx /\ (next[j].state = "conflict" <=> book[j].state = "conflict")
  BY DEF Marked, Like
<1>5. \A d \in table : d.tx # c.tx
  BY <1>2 DEF Tracked
<1>6. \A k, j \in DOMAIN next :
         next[k].state = "conflict" /\ next[j].state = "conflict" /\ next[k].tx = next[j].tx => k = j
  BY <1>2, <1>3, <1>4 DEF Tracked
<1>7. \A d, e \in table \cup {c} : d.tx = e.tx => d = e
  BY <1>5 DEF Tracked
<1>8. \A k \in DOMAIN next :
         next[k].state = "conflict" => \E d \in table \cup {c} : d.tx = next[k].tx
  BY <1>3, <1>4 DEF Tracked
<1>9. \A d \in table \cup {c} :
         \E k \in DOMAIN next : next[k].state = "conflict" /\ next[k].tx = d.tx
  <2> SUFFICES ASSUME NEW d \in table PROVE \E k \in DOMAIN next : next[k].state = "conflict" /\ next[k].tx = d.tx
    BY <1>3
  <2>1. PICK k \in DOMAIN book : book[k].state = "conflict" /\ book[k].tx = d.tx
    BY DEF Tracked
  <2>2. k # i
    BY <2>1
  <2> QED BY <1>3, <1>4, <2>1, <2>2
<1> QED BY <1>6, <1>7, <1>8, <1>9 DEF Tracked

-----------------------------------------------------------------------------
(***************************************************************************)
(* The server's version of a transaction.                                  *)
(***************************************************************************)
LEMMA AuthorIs ==
    ASSUME ServerTyped, NEW t \in Txn, rows[t] # NoRow
    PROVE  /\ rows[t] \in Row /\ rows[t].revision \in Nat \ {0}
           /\ \E x \in revisions : x.tx = t /\ x.revision = rows[t].revision
                                   /\ Author(t, rows[t].revision) = x.author
           /\ Author(t, rows[t].revision) \in OpId \cup {Direct}
<1>1. rows[t] \in Row /\ rows[t].revision \in Nat \ {0}
  BY DEF ServerTyped, LedgerTypeOK, Row
<1>2. \E x \in revisions : x.tx = t /\ x.revision = rows[t].revision
  <2>1. rows[t].revision \in {x.revision : x \in {y \in revisions : y.tx = t}}
    BY <1>1 DEF ServerTyped, RevisionChain, SeenRevision
  <2> QED BY <2>1
<1>3. \E x \in revisions : x.tx = t /\ x.revision = rows[t].revision
                           /\ Author(t, rows[t].revision) = x.author
  BY <1>2 DEF Author
<1>4. \A x \in revisions : x.author \in OpId \cup {Direct}
  BY DEF ServerTyped, LedgerTypeOK, Revision
<1> QED BY <1>1, <1>3, <1>4

(* A page on its way that nothing it depends on changes. *)
LEMMA PagedStays ==
    ASSUME Paged, UNCHANGED <<rows, revisions, log, cursor, sync>>
    PROVE  Paged'
<1>1. \A c, t : Shows(c, t) => Shows(c, t)'
  BY DEF Shows, Same, ServerCopy, Author
<1>2. \A t : (Gone(t) => Gone(t)') /\ \A n : Later(n, t) => Later(n, t)'
  BY DEF Gone, Later
<1>3. PICK page, from : page = sync.page /\ from = cursor
  OBVIOUS
<1>4. SUFFICES ASSUME sync.pc = "paged" PROVE Paged'
  BY DEF Paged
<1>5. /\ from + Len(page) <= Len(log)
      /\ \A k \in DOMAIN page :
            /\ page[k].tx = log[from + k].tx
            /\ page[k].tombstone = log[from + k].tombstone
            /\ ~page[k].tombstone =>
                  /\ page[k].row \in Copy
                  /\ page[k].row.deleted => Gone(page[k].tx)'
                  /\ Later(from + Len(page), page[k].tx)' \/ Shows(page[k].row, page[k].tx)'
  BY <1>1, <1>2, <1>3, <1>4 DEF Paged
<1> QED BY <1>3, <1>5 DEF Paged

LEMMA CopyTyped ==
    ASSUME ServerTyped, NEW t \in Txn, rows[t] # NoRow
    PROVE  /\ ServerCopy(t) \in Copy
           /\ ServerCopy(t).deleted = rows[t].deleted
           /\ ServerCopy(t).revision = rows[t].revision
<1>1. rows[t].deleted \in BOOLEAN
  BY AuthorIs DEF Row
<1> QED BY <1>1, AuthorIs DEF ServerCopy, Copy

(* The version of a row that a step leaves alone. *)
LEMMA CopyKept ==
    ASSUME ServerTyped, ServerTyped', NEW t \in Txn, rows[t] # NoRow,
           rows'[t] = rows[t], revisions \subseteq revisions'
    PROVE  ServerCopy(t)' = ServerCopy(t)
<1> DEFINE n == rows[t].revision
<1>1. PICK x \in revisions : x.tx = t /\ x.revision = n /\ Author(t, n) = x.author
  BY AuthorIs
<1>2. \A y, z \in revisions' : y.tx = t /\ z.tx = t /\ y.revision = z.revision => y = z
  BY DEF ServerTyped, RevisionChain
<1>3. Author(t, n)' = (CHOOSE y \in revisions' : y.tx = t /\ y.revision = n).author
  BY DEF Author
<1>4. (CHOOSE y \in revisions' : y.tx = t /\ y.revision = n) = x
  BY <1>1, <1>2
<1>5. (Author(t, rows[t].revision))' = Author(t, rows[t].revision)
  BY <1>1, <1>3, <1>4
<1> QED BY <1>5 DEF ServerCopy

-----------------------------------------------------------------------------
(***************************************************************************)
(* The server accepts a request.                                           *)
(***************************************************************************)
Accepts(r) ==
    /\ r \in Request /\ (r.op = Direct \/ r.op \in sent)
    /\ Apply(r)
    /\ log' = Logged(r)
    /\ UNCHANGED <<deviceVars, answers, sent, cursor, sync, restored>>

LoggedEntry(r) == [tx |-> r.tx, tombstone |-> r.kind = "delete"]

LEMMA LogIs ==
    ASSUME ServerTyped
    PROVE  /\ Len(log) \in Nat /\ DOMAIN log = 1 .. Len(log)
           /\ \A n \in DOMAIN log : n \in Nat /\ log[n].tx \in Txn /\ log[n].tombstone \in BOOLEAN
<1>1. log \in Seq([tx : Txn, tombstone : BOOLEAN])
  BY DEF ServerTyped
<1>2. \A n \in DOMAIN log : log[n] \in [tx : Txn, tombstone : BOOLEAN]
  BY <1>1, SeqIs
<1> QED BY <1>1, <1>2, SeqIs

LEMMA LoggedIs ==
    ASSUME ServerTyped, NEW r \in Request, log' = Logged(r)
    PROVE  /\ log' \in Seq([tx : Txn, tombstone : BOOLEAN])
           /\ Len(log) \in Nat /\ Len(log') = Len(log) + 1
           /\ DOMAIN log = 1 .. Len(log)
           /\ DOMAIN log' = DOMAIN log \cup {Len(log) + 1}
           /\ \A n \in DOMAIN log : n \in Nat /\ n < Len(log) + 1 /\ log'[n] = log[n]
           /\ log'[Len(log) + 1] = LoggedEntry(r)
<1>1. LoggedEntry(r) \in [tx : Txn, tombstone : BOOLEAN]
  BY DEF LoggedEntry, Request
<1>2. log' = Append(log, LoggedEntry(r))
  BY DEF Logged, LoggedEntry
<1>3. log \in Seq([tx : Txn, tombstone : BOOLEAN])
  BY DEF ServerTyped
<1>4. DOMAIN log = 1 .. Len(log) /\ Len(log) \in Nat
  BY <1>3, SeqIs
<1> QED BY <1>1, <1>2, <1>3, <1>4, AppendIs

(* The row of an accepted request, and its record. *)
LEMMA AcceptedIs ==
    ASSUME ServerTyped, NEW r \in Request, Apply(r)
    PROVE  /\ r.tx \in Txn /\ rows[r.tx] \in Row \cup {NoRow}
           /\ rows'[r.tx] \in Row /\ rows'[r.tx] # NoRow
           /\ r.kind = "delete" => rows'[r.tx].deleted
           /\ ~Gone(r.tx)
           /\ \A t \in Txn : t # r.tx => rows'[t] = rows[t]
           /\ revisions \subseteq revisions'
           /\ \A o \in OpId : \/ results'[o] = results[o]
                              \/ o = r.op /\ results[o] = NoResult /\ results'[o].outcome = "applied"
<1>1. r.tx \in Txn /\ rows[r.tx] \in Row \cup {NoRow} /\ rows \in [Txn -> Row \cup {NoRow}]
      /\ results \in [OpId -> Result \cup {NoResult}]
  BY DEF ServerTyped, LedgerTypeOK, Request
<1>2. Verdict(rows[r.tx], r) = "applied" /\ rows' = [rows EXCEPT ![r.tx] = After(rows[r.tx], r)]
  BY DEF Apply
<1>3. After(rows[r.tx], r) \in Row
  BY <1>1, <1>2, AfterIsRow
<1>4. rows'[r.tx] \in Row /\ rows'[r.tx] # NoRow /\ rows'[r.tx] = After(rows[r.tx], r)
      /\ \A t \in Txn : t # r.tx => rows'[t] = rows[t]
  BY <1>1, <1>2, <1>3, LedgerAssumption
<1>5. ~Gone(r.tx)
  BY <1>1, <1>2, DeletedRefuses DEF Gone
<1>6. r.kind = "delete" => rows'[r.tx].deleted
  <2> SUFFICES ASSUME r.kind = "delete" PROVE rows'[r.tx].deleted
    OBVIOUS
  <2>1. rows[r.tx] \in Row
    BY <1>1, <1>2 DEF Verdict, DeleteVerdict
  <2>2. After(rows[r.tx], r) = DeletedRow(rows[r.tx])
    BY DEF After
  <2> QED BY <1>4, <2>1, <2>2 DEF DeletedRow, Row
<1>7. \A o \in OpId : \/ results'[o] = results[o]
                      \/ o = r.op /\ results[o] = NoResult /\ results'[o].outcome = "applied"
  BY <1>1 DEF Apply, Recorded, Undecided
<1> QED BY <1>1, <1>4, <1>5, <1>6, <1>7 DEF Apply

LEMMA AcceptsTyped ==
    ASSUME Typed, NEW r, Accepts(r)
    PROVE  Typed'
<1>0. ServerTyped /\ DeviceTyped /\ RunTyped /\ r \in Request /\ Apply(r)
  BY DEF Typed, Accepts
<1>1. LedgerTypeOK' /\ RevisionChain'
  BY <1>0, ApplyTyped, ApplyChained DEF ServerTyped
<1>2. \A n \in DOMAIN log' : rows'[log'[n].tx] # NoRow
  <2>1. \A n \in DOMAIN log : log[n].tx \in Txn /\ rows[log[n].tx] # NoRow
    BY <1>0, LogIs DEF ServerTyped
  <2>2. LoggedEntry(r).tx = r.tx
    BY DEF LoggedEntry
  <2> QED BY <1>0, <2>1, <2>2, LoggedIs, AcceptedIs DEF Accepts
<1>3. \A o \in OpId : InConflict(o)' => answers[o] \in Copy
  BY <1>0, AcceptedIs DEF ServerTyped, InConflict
<1>4. ServerTyped'
  BY <1>0, <1>1, <1>2, <1>3, LoggedIs DEF ServerTyped, Accepts
<1>5. DeviceTyped'
  BY <1>0 DEF DeviceTyped, OutboxTypeOK, Accepts, deviceVars
<1>6. RunTyped'
  <2>1. Len(log) \in Nat /\ Len(log') = Len(log) + 1
    BY <1>0, LoggedIs DEF Accepts
  <2>2. cursor' \in 0 .. Len(log')
    BY <1>0, <2>1 DEF RunTyped, Accepts
  <2>3. SyncTypeOK' /\ SyncShape'
    BY <1>0 DEF RunTyped, SyncTypeOK, SyncShape, Accepts, deviceVars
  <2> QED BY <1>0, <2>2, <2>3 DEF RunTyped, Accepts
<1> QED BY <1>4, <1>5, <1>6 DEF Typed

LEMMA AcceptsQueued ==
    ASSUME Typed, Queued, NEW r, Accepts(r)
    PROVE  Queued'
<1>0. ServerTyped /\ r \in Request /\ Apply(r) /\ outbox \in Seq(Operation)
  BY DEF Typed, Accepts, DeviceTyped, OutboxTypeOK
<1>1. UNCHANGED <<outbox, sent, sync>>
  BY DEF Accepts, deviceVars
<1>2. CASE r.op = Direct
  <2>1. results' = results
    BY <1>0, <1>2 DEF Apply, Recorded
  <2> QED BY <1>1, <2>1 DEF Queued
<1>3. CASE r.op # Direct
  <2> DEFINE result == [request |-> r, outcome |-> "applied"]
  <2>1. r.op \in sent /\ r.op \in OpId /\ results[r.op] = NoResult
        /\ results' = [results EXCEPT ![r.op] = result]
    BY <1>0, <1>3 DEF Accepts, Apply, Undecided, Recorded, Request
  <2>2. result # NoResult
    BY <1>0, LedgerAssumption DEF Result, Outcome
  <2>3. DOMAIN results = OpId
    BY <1>0 DEF ServerTyped, LedgerTypeOK
  <2> HIDE DEF result
  <2>4. /\ Orderly(outbox, sent, [results EXCEPT ![r.op] = result])
        /\ Carried(sync, outbox, sent, [results EXCEPT ![r.op] = result])
    BY <1>0, <2>1, <2>2, <2>3, DecidedOrderly DEF Queued
  <2> QED BY <1>1, <2>1, <2>4 DEF Queued
<1> QED BY <1>2, <1>3

(* What the server's step leaves of the copies. *)
LEMMA AcceptsShows ==
    ASSUME Typed, NEW r, Accepts(r)
    PROVE  /\ \A t \in Txn : Gone(t) => Gone(t)'
           /\ \A t \in Txn : \A n \in Nat : Later(n, t) => Later(n, t)'
           /\ \A n \in 0 .. Len(log) : Later(n, r.tx)'
           /\ \A t \in Txn : t # r.tx /\ rows[t] # NoRow => rows'[t] = rows[t] /\ ServerCopy(t)' = ServerCopy(t)
           /\ \A t \in Txn : t # r.tx => \A c : Shows(c, t) => Shows(c, t)'
           /\ \A t \in Txn : t # r.tx => \A c : rows[t] # NoRow /\ Same(c, t) => Same(c, t)'
<1>0. ServerTyped /\ ServerTyped' /\ r \in Request /\ Apply(r) /\ log' = Logged(r)
  BY AcceptsTyped DEF Typed, Accepts
<1>1. \A t \in Txn : Gone(t) => Gone(t)'
  BY <1>0, AcceptedIs DEF Gone
<1>2. \A t \in Txn : \A n \in Nat : Later(n, t) => Later(n, t)'
  BY <1>0, LoggedIs DEF Later
<1>3. \A n \in 0 .. Len(log) : Later(n, r.tx)'
  <2> SUFFICES ASSUME NEW n \in 0 .. Len(log) PROVE Later(n, r.tx)'
    OBVIOUS
  <2>1. /\ DOMAIN log' = DOMAIN log \cup {Len(log) + 1} /\ Len(log) \in Nat
        /\ log'[Len(log) + 1] = LoggedEntry(r)
    BY <1>0, LoggedIs
  <2>2. LoggedEntry(r).tx = r.tx
    BY DEF LoggedEntry
  <2>3. Len(log) + 1 > n
    BY <2>1
  <2> QED BY <2>1, <2>2, <2>3 DEF Later
<1>4. \A t \in Txn : t # r.tx /\ rows[t] # NoRow => rows'[t] = rows[t] /\ ServerCopy(t)' = ServerCopy(t)
  BY <1>0, AcceptedIs, CopyKept
<1>5. \A t \in Txn : t # r.tx => \A c : Shows(c, t) => Shows(c, t)'
  BY <1>4 DEF Shows, Same
<1>6. \A t \in Txn : t # r.tx => \A c : rows[t] # NoRow /\ Same(c, t) => Same(c, t)'
  BY <1>4 DEF Same
<1> QED BY <1>1, <1>2, <1>3, <1>4, <1>5, <1>6

(* Where the transactions that the device speaks of come from. *)
LEMMA DeviceNames ==
    ASSUME DeviceTyped
    PROVE  /\ \A c \in conflicts : c.tx \in Txn /\ c.local \in Copy /\ c.server \in Copy
           /\ \A h \in history : h.tx \in Txn /\ h.before \in Copy \cup {NoRow} /\ h.revision \in Nat \ {0}
           /\ \A i \in DOMAIN outbox : outbox[i] \in Operation /\ outbox[i].tx \in Txn /\ outbox[i].op \in OpId
                                       /\ i \in Nat
           /\ draft # NoDraft => draft.tx \in Txn /\ draft.before \in Copy
           /\ outbox \in Seq(Operation) /\ local \in [Txn -> Copy \cup {NoRow}]
<1>1. conflicts \subseteq Conflict /\ history \subseteq Snapshot /\ outbox \in Seq(Operation)
      /\ local \in [Txn -> Copy \cup {NoRow}]
      /\ (draft = NoDraft \/ draft \in [open : {TRUE}, tx : Txn, before : Copy])
  BY DEF DeviceTyped, OutboxTypeOK
<1>2. \A i \in DOMAIN outbox : outbox[i] \in Operation /\ i \in Nat
  BY <1>1, SeqIs
<1>3. \A i \in DOMAIN outbox : outbox[i].tx \in Txn /\ outbox[i].op \in OpId
  BY <1>2 DEF Operation
<1>4. \A c \in conflicts : c.tx \in Txn /\ c.local \in Copy /\ c.server \in Copy
  BY <1>1 DEF Conflict
<1>5. \A h \in history : h.tx \in Txn /\ h.before \in Copy \cup {NoRow} /\ h.revision \in Nat \ {0}
  BY <1>1 DEF Snapshot
<1> QED BY <1>1, <1>2, <1>3, <1>4, <1>5

LEMMA AcceptsDated ==
    ASSUME Typed, Dated, NEW r, Accepts(r)
    PROVE  Dated'
<1>0. /\ ServerTyped /\ DeviceTyped /\ r \in Request /\ Apply(r) /\ log' = Logged(r)
      /\ UNCHANGED <<local, history, conflicts, draft>>
  BY DEF Typed, Accepts, deviceVars
<1>1. \A t \in Txn : Gone(t) => Gone(t)'
  BY AcceptsShows
<1>2. \A t \in Txn : local[t] # NoRow /\ local[t].deleted => Gone(t)'
  BY <1>1 DEF Dated
<1>3. \A h \in history : h.before # NoRow /\ h.before.deleted => Gone(h.tx)'
  BY <1>0, <1>1, DeviceNames DEF Dated
<1>4. \A c \in conflicts : c.local.deleted \/ c.server.deleted => Gone(c.tx)'
  BY <1>0, <1>1, DeviceNames DEF Dated
<1>5. (\A n \in DOMAIN log : log[n].tombstone => Gone(log[n].tx))'
  <2> SUFFICES ASSUME NEW n \in DOMAIN log', log'[n].tombstone
               PROVE  rows'[log'[n].tx] # NoRow /\ rows'[log'[n].tx].deleted
    BY DEF Gone
  <2>1. CASE n \in DOMAIN log
    <3>1. log'[n] = log[n] /\ log[n].tx \in Txn
      BY <1>0, <2>1, LoggedIs, LogIs
    <3>2. Gone(log[n].tx)
      BY <2>1, <3>1 DEF Dated
    <3> QED BY <1>1, <3>1, <3>2 DEF Gone
  <2>2. CASE n \notin DOMAIN log
    <3>1. log'[n] = LoggedEntry(r)
      BY <1>0, <2>2, LoggedIs
    <3>2. LoggedEntry(r).tx = r.tx /\ (LoggedEntry(r).tombstone <=> r.kind = "delete")
      BY DEF LoggedEntry
    <3>3. log'[n].tx = r.tx /\ r.kind = "delete"
      BY <3>1, <3>2
    <3> QED BY <1>0, <3>3, AcceptedIs
  <2> QED BY <2>1, <2>2
<1>6. (\A t \in Txn : local[t] # NoRow /\ local[t].deleted => Gone(t))'
  BY <1>0, <1>2
<1>7. (\A h \in history : h.before # NoRow /\ h.before.deleted => Gone(h.tx))'
  BY <1>0, <1>3
<1>8. (\A c \in conflicts : c.local.deleted \/ c.server.deleted => Gone(c.tx))'
  BY <1>0, <1>4
<1>9. draft' # NoDraft => ~draft'.before.deleted
  BY <1>0 DEF Dated
<1> QED BY <1>5, <1>6, <1>7, <1>8, <1>9 DEF Dated

LEMMA AcceptsCurrent ==
    ASSUME Typed, Current, NEW r, Accepts(r)
    PROVE  Current'
<1>0. /\ ServerTyped /\ DeviceTyped /\ RunTyped /\ r \in Request /\ Apply(r) /\ log' = Logged(r)
      /\ UNCHANGED <<conflicts, outbox, answers, sent, cursor, sync>>
  BY DEF Typed, Accepts, deviceVars
<1>1. cursor \in 0 .. Len(log) /\ cursor \in Nat
  BY <1>0, LogIs DEF RunTyped
<1>2. Offered(conflicts, cursor)'
  <2> SUFFICES ASSUME NEW c \in conflicts PROVE Later(cursor, c.tx)' \/ Shows(c.server, c.tx)'
    BY <1>0 DEF Offered
  <2>1. c.tx \in Txn
    BY <1>0, DeviceNames
  <2> QED BY <1>0, <1>1, <2>1, AcceptsShows DEF Current, Offered
<1>3. Answered'
  <2> SUFFICES ASSUME NEW i \in DOMAIN outbox,
                      outbox[i].op \in sent, outbox[i].state = "pending", InConflict(outbox[i].op)'
               PROVE  \/ Later(cursor, outbox[i].tx)'
                      \/ /\ rows'[outbox[i].tx] # NoRow /\ ~rows'[outbox[i].tx].deleted
                         /\ Same(answers[outbox[i].op], outbox[i].tx)'
    BY <1>0 DEF Answered
  <2>1. outbox[i].tx \in Txn /\ outbox[i].op \in OpId
    BY <1>0, DeviceNames
  <2>2. InConflict(outbox[i].op)
    BY <1>0, <2>1, AcceptedIs DEF InConflict
  <2> QED BY <1>0, <1>1, <2>1, <2>2, AcceptsShows DEF Current, Answered
<1>4. Paged'
  <2> SUFFICES ASSUME sync.pc = "paged" PROVE Paged'
    BY <1>0 DEF Paged
  <2>1. PICK page \in Seq(PageItem) : page = sync.page
    BY <1>0 DEF RunTyped, SyncTypeOK, Idle
  <2>2. PICK from \in Nat : from = cursor
    BY <1>1
  <2>3. /\ Len(page) \in Nat /\ DOMAIN page = 1 .. Len(page) /\ DOMAIN log = 1 .. Len(log)
        /\ Len(log') = Len(log) + 1 /\ Len(log) \in Nat
    BY <1>0, SeqIs, LoggedIs
  <2>4. from + Len(page) <= Len(log)
    BY <2>1, <2>2 DEF Current, Paged
  <2>5. from + Len(page) \in 0 .. Len(log) /\ from + Len(page) \in Nat /\ from + Len(page) <= Len(log')
    BY <2>2, <2>3, <2>4
  <2>6. ASSUME NEW k \in DOMAIN page
        PROVE  /\ page[k].tx = log'[from + k].tx
               /\ page[k].tombstone = log'[from + k].tombstone
               /\ ~page[k].tombstone =>
                     /\ page[k].row \in Copy
                     /\ page[k].row.deleted => Gone(page[k].tx)'
                     /\ \/ Later(from + Len(page), page[k].tx)'
                        \/ Shows(page[k].row, page[k].tx)'
    <3>1. from + k \in DOMAIN log
      BY <2>3, <2>4, <2>6
    <3>2. log'[from + k] = log[from + k] /\ log[from + k].tx \in Txn
      BY <1>0, <3>1, LoggedIs, LogIs
    <3>3. /\ page[k].tx = log[from + k].tx
          /\ page[k].tombstone = log[from + k].tombstone
          /\ ~page[k].tombstone =>
                /\ page[k].row \in Copy
                /\ page[k].row.deleted => Gone(page[k].tx)
                /\ Later(from + Len(page), page[k].tx) \/ Shows(page[k].row, page[k].tx)
      BY <2>1, <2>2, <2>6 DEF Current, Paged
    <3>4. page[k].tx # r.tx => \A c : Shows(c, page[k].tx) => Shows(c, page[k].tx)'
      BY <3>2, <3>3, AcceptsShows
    <3>5. /\ Gone(page[k].tx) => Gone(page[k].tx)'
          /\ Later(from + Len(page), page[k].tx) => Later(from + Len(page), page[k].tx)'
          /\ page[k].tx = r.tx => Later(from + Len(page), page[k].tx)'
      BY <2>5, <3>2, <3>3, AcceptsShows
    <3> QED BY <3>2, <3>3, <3>4, <3>5
  <2>7. sync'.page = page /\ cursor' = from /\ sync'.pc = "paged"
    BY <1>0, <2>1, <2>2
  <2> QED BY <2>5, <2>6, <2>7 DEF Paged
<1> QED BY <1>2, <1>3, <1>4 DEF Current

LEMMA AcceptsKeeps ==
    ASSUME SInv, NEW r, Accepts(r)
    PROVE  SInv'
<1>1. Tracked(outbox, conflicts)'
  BY DEF SInv, Accepts, deviceVars, Tracked
<1> QED BY <1>1, AcceptsTyped, AcceptsQueued, AcceptsDated, AcceptsCurrent DEF SInv

(* The server refuses the operation at i, and stores why. *)
Refuses(i) ==
    LET r == RequestOf(outbox[i])
    IN /\ r.op \in sent /\ Undecided(r) /\ Verdict(rows[r.tx], r) # "applied"
       /\ \E outcome \in RefusedAs(r) :
             /\ results' = Recorded(r, outcome)
             /\ answers' = IF outcome = "REVISION_CONFLICT"
                           THEN [answers EXCEPT ![r.op] = ServerCopy(r.tx)]
                           ELSE answers
       /\ UNCHANGED <<rows, revisions, log, deviceVars, sent, cursor, sync, restored>>

LEMMA RequestIs ==
    ASSUME NEW m \in Operation
    PROVE  /\ RequestOf(m) \in Request
           /\ RequestOf(m).op = m.op /\ RequestOf(m).op \in OpId /\ RequestOf(m).op # Direct
           /\ RequestOf(m).tx = m.tx /\ RequestOf(m).tx \in Txn
<1>1. Cashier \in Actor /\ Direct \notin OpId
  BY SystemAssumption, RulesAssumption
<1> QED BY <1>1 DEF RequestOf, Request, Operation, Kind, AttemptStatus

LEMMA RefusedIs ==
    ASSUME ServerTyped, NEW r \in Request, Verdict(rows[r.tx], r) # "applied", NEW outcome \in RefusedAs(r)
    PROVE  /\ outcome \in Refusal
           /\ outcome = "REVISION_CONFLICT" => rows[r.tx] # NoRow /\ ~rows[r.tx].deleted
<1> DEFINE row == rows[r.tx]
           verdict == Verdict(row, r)
<1>1. row \in Row \cup {NoRow}
  BY DEF ServerTyped, LedgerTypeOK, Request
<1>2. verdict \in Refusal
  BY <1>1, VerdictOutcome
<1>3. outcome = verdict \/ verdict = "REVISION_CONFLICT"
  BY DEF RefusedAs
<1>4. outcome \in {verdict, "NOT_FOUND"}
  BY DEF RefusedAs
<1>5. outcome \in Refusal
  BY <1>2, <1>4 DEF Refusal
<1>6. verdict = "REVISION_CONFLICT" => row # NoRow /\ ~row.deleted
  BY DEF Verdict, CreateVerdict, CorrectVerdict, PaymentVerdict, PrintVerdict,
         DeleteVerdict, Request, Kind
<1> QED BY <1>3, <1>5, <1>6

(* What is left of the invariant when the answer of one operation is new. *)
LEMMA RefusesKeeps ==
    ASSUME SInv, NEW i \in DOMAIN outbox, Refuses(i)
    PROVE  SInv'
<1> DEFINE r == RequestOf(outbox[i])
<1>0. ServerTyped /\ DeviceTyped /\ RunTyped /\ Queued
  BY DEF SInv, Typed
<1>1. outbox[i] \in Operation /\ outbox \in Seq(Operation)
  BY <1>0, DeviceNames
<1>2. r \in Request /\ r.op = outbox[i].op /\ r.op \in OpId /\ r.op # Direct /\ r.tx = outbox[i].tx /\ r.tx \in Txn
  BY <1>1, RequestIs
<1>3. PICK outcome \in RefusedAs(r) :
         /\ results' = Recorded(r, outcome)
         /\ answers' = IF outcome = "REVISION_CONFLICT"
                       THEN [answers EXCEPT ![r.op] = ServerCopy(r.tx)]
                       ELSE answers
  BY DEF Refuses
<1>4. /\ r.op \in sent /\ Undecided(r) /\ Verdict(rows[r.tx], r) # "applied"
      /\ UNCHANGED <<rows, revisions, log, deviceVars, sent, cursor, sync, restored>>
  BY DEF Refuses
<1> HIDE DEF r
<1>5. outcome \in Refusal /\ (outcome = "REVISION_CONFLICT" => rows[r.tx] # NoRow /\ ~rows[r.tx].deleted)
  BY <1>0, <1>2, <1>4, RefusedIs
<1> DEFINE result == [request |-> r, outcome |-> outcome]
<1>6. /\ results' = [results EXCEPT ![r.op] = result] /\ results[r.op] = NoResult
      /\ result # NoResult /\ result.outcome = outcome
  <2>1. result \in Result
    BY <1>2, <1>5 DEF Result, Outcome
  <2> QED BY <1>2, <1>3, <1>4, <2>1, LedgerAssumption DEF Recorded, Undecided
<1> HIDE DEF result
<1>7. results \in [OpId -> Result \cup {NoResult}] /\ answers \in [OpId -> Copy \cup {NoRow}]
  BY <1>0 DEF ServerTyped, LedgerTypeOK
<1>8. /\ \A o \in OpId : o # r.op => results'[o] = results[o] /\ answers'[o] = answers[o]
      /\ results'[r.op].outcome = outcome
      /\ outcome = "REVISION_CONFLICT" => answers'[r.op] = ServerCopy(r.tx)
  BY <1>2, <1>3, <1>6, <1>7
<1>9. outcome = "REVISION_CONFLICT" => ServerCopy(r.tx) \in Copy
  BY <1>0, <1>2, <1>5, CopyTyped
<1>10. ServerTyped'
  <2>1. LedgerTypeOK'
    <3>1. results' \in [OpId -> Result \cup {NoResult}]
      BY <1>2, <1>3, <1>5, <1>7, RecordedType DEF Outcome
    <3> QED BY <1>0, <1>4, <3>1 DEF ServerTyped, LedgerTypeOK
  <2>2. RevisionChain'
    BY <1>0, <1>4 DEF ServerTyped, RevisionChain, SeenRevision
  <2>3. answers' \in [OpId -> Copy \cup {NoRow}]
    BY <1>2, <1>3, <1>7, <1>9
  <2>4. \A o \in OpId : InConflict(o)' => answers'[o] \in Copy
    <3> SUFFICES ASSUME NEW o \in OpId, InConflict(o)' PROVE answers'[o] \in Copy
      OBVIOUS
    <3>1. CASE o = r.op
      BY <1>8, <1>9, <3>1 DEF InConflict
    <3>2. CASE o # r.op
      BY <1>0, <1>8, <3>2 DEF InConflict, ServerTyped
    <3> QED BY <3>1, <3>2
  <2> QED BY <1>0, <1>4, <2>1, <2>2, <2>3, <2>4 DEF ServerTyped
<1>11. DeviceTyped' /\ RunTyped'
  BY <1>0, <1>4 DEF DeviceTyped, OutboxTypeOK, RunTyped, SyncTypeOK, SyncShape, deviceVars
<1>12. Queued'
  <2>1. DOMAIN results = OpId
    BY <1>7
  <2>2. /\ Orderly(outbox, sent, [results EXCEPT ![r.op] = result])
        /\ Carried(sync, outbox, sent, [results EXCEPT ![r.op] = result])
    BY <1>0, <1>1, <1>2, <1>4, <1>6, <2>1, DecidedOrderly DEF Queued
  <2> QED BY <1>4, <1>6, <2>2 DEF Queued, deviceVars
<1>13. Tracked(outbox, conflicts)'
  BY <1>4 DEF SInv, deviceVars, Tracked
<1>14. Dated'
  BY <1>4 DEF SInv, Dated, Gone, deviceVars
<1>15. Offered(conflicts, cursor)' /\ Paged'
  <2>1. Offered(conflicts, cursor)'
    BY <1>4 DEF SInv, Current, Offered, Later, Shows, Same, ServerCopy, Author, deviceVars
  <2>2. Paged'
    BY <1>4, PagedStays DEF SInv, Current
  <2> QED BY <2>1, <2>2
<1>16. Answered'
  <2> SUFFICES ASSUME NEW j \in DOMAIN outbox,
                      outbox[j].op \in sent, outbox[j].state = "pending",
                      results'[outbox[j].op] # NoResult,
                      results'[outbox[j].op].outcome = "REVISION_CONFLICT"
               PROVE  \/ Later(cursor, outbox[j].tx)
                      \/ /\ rows[outbox[j].tx] # NoRow /\ ~rows[outbox[j].tx].deleted
                         /\ Same(answers'[outbox[j].op], outbox[j].tx)
    BY <1>4 DEF Answered, InConflict, Later, Same, ServerCopy, Author, deviceVars
  <2>1. outbox[j].op \in OpId
    BY <1>0, DeviceNames
  <2>2. CASE outbox[j].op = r.op
    <3>1. i = j
      BY <1>0, <1>2, <2>2 DEF Queued, Orderly
    <3>2. outcome = "REVISION_CONFLICT"
      BY <1>8, <2>2
    <3> QED BY <1>2, <1>5, <1>8, <2>2, <3>1, <3>2 DEF Same
  <2>3. CASE outbox[j].op # r.op
    BY <1>8, <2>1, <2>3 DEF InConflict, SInv, Current, Answered
  <2> QED BY <2>2, <2>3
<1> QED BY <1>10, <1>11, <1>12, <1>13, <1>14, <1>15, <1>16 DEF SInv, Typed, Current

LEMMA ServerKeeps ==
    ASSUME SInv, Server
    PROVE  SInv'
<1>1. ASSUME NEW i \in DOMAIN outbox, ServerDecides(i) PROVE SInv'
  <2> DEFINE r == RequestOf(outbox[i])
  <2>1. outbox[i] \in Operation
    BY DeviceNames DEF SInv, Typed
  <2>2. r \in Request
    BY <2>1, RequestIs
  <2>3. Accepts(r) \/ Refuses(i)
    BY <1>1, <2>2 DEF ServerDecides, Accepts, Refuses
  <2> QED BY <1>1, <2>3, AcceptsKeeps, RefusesKeeps
<1>2. ASSUME NEW r \in Requests, OtherApplies(r) PROVE SInv'
  <2>1. Accepts(r)
    BY <1>2, SystemAssumption, LedgerAssumption DEF OtherApplies, Accepts
  <2> QED BY <2>1, AcceptsKeeps
<1> QED BY <1>1, <1>2 DEF Server

-----------------------------------------------------------------------------
(***************************************************************************)
(* The steps of a run that only move it on.                                *)
(***************************************************************************)
LEMMA RunMoves ==
    ASSUME SInv, UNCHANGED <<ledgerVars, local, syncState, history, outbox, conflicts>>,
           UNCHANGED draft \/ draft' = NoDraft,
           UNCHANGED <<log, answers, cursor, restored>>,
           sent' \subseteq OpId, \A o \in sent' : InConflict(o) => o \in sent,
           SyncTypeOK', SyncShape', Queued', Paged'
    PROVE  SInv'
<1>1. UNCHANGED <<rows, revisions, results, local, syncState, history, outbox, conflicts>>
  BY DEF ledgerVars
<1>2. Typed'
  BY <1>1 DEF SInv, Typed, ServerTyped, LedgerTypeOK, RevisionChain, SeenRevision, InConflict,
              DeviceTyped, OutboxTypeOK, RunTyped
<1>3. Tracked(outbox, conflicts)' /\ Dated'
  BY <1>1 DEF SInv, Tracked, Dated, Gone
<1>4. Offered(conflicts, cursor)'
  BY <1>1 DEF SInv, Current, Offered, Later, Shows, Same, ServerCopy, Author
<1>5. Answered'
  BY <1>1 DEF SInv, Current, Answered, InConflict, Later, Same, ServerCopy, Author
<1> QED BY <1>2, <1>3, <1>4, <1>5 DEF SInv, Current

(* No answer is left out, and none is awaited. *)
LEMMA StopsKeep ==
    ASSUME SInv, UNCHANGED <<ledgerVars, local, syncState, history, outbox, conflicts>>,
           UNCHANGED draft \/ draft' = NoDraft,
           UNCHANGED <<log, answers, sent, cursor, restored>>, sync' = Idle
    PROVE  SInv'
<1>1. sync'.pc = "idle" /\ SyncTypeOK' /\ SyncShape'
  BY DEF Idle, SyncTypeOK, SyncShape
<1>2. Queued' /\ Paged'
  BY <1>1 DEF SInv, Queued, Orderly, Carried, Paged, ledgerVars
<1>3. sent \subseteq OpId
  BY DEF SInv, Typed, ServerTyped
<1> QED BY <1>1, <1>2, <1>3, RunMoves

LEMMA LoseKeeps ==
    ASSUME SInv, LoseRequest
    PROVE  SInv'
BY StopsKeep DEF LoseRequest, deviceVars

LEMMA KillKeeps ==
    ASSUME SInv, Kill
    PROVE  SInv'
BY StopsKeep DEF Kill

(* The ready operations of the batch have different numbers before them. *)
LEMMA BatchBounded ==
    ASSUME outbox \in Seq(Operation)
    PROVE  Cardinality(Batch) <= BatchSize
<1> DEFINE Before(i) == {j \in Ready : j < i}
           rank == [i \in Batch |-> Cardinality(Before(i))]
<1>1. DOMAIN outbox = 1 .. Len(outbox) /\ Len(outbox) \in Nat /\ BatchSize \in Nat \ {0}
  BY SeqIs, SystemAssumption
<1>2. Ready \in SUBSET (1 .. Len(outbox)) /\ Batch \in SUBSET Ready
  BY <1>1 DEF Ready, Batch
<1>3. IsFiniteSet(1 .. Len(outbox))
  BY <1>1, FS_Interval
<1>4. IsFiniteSet(Ready)
  BY <1>2, <1>3, FS_Subset
<1>5. \A i \in Batch : /\ IsFiniteSet(Before(i)) /\ Cardinality(Before(i)) \in Nat
                       /\ Cardinality(Before(i)) < BatchSize
  <2> SUFFICES ASSUME NEW i \in Batch
               PROVE  /\ IsFiniteSet(Before(i)) /\ Cardinality(Before(i)) \in Nat
                      /\ Cardinality(Before(i)) < BatchSize
    OBVIOUS
  <2>1. Before(i) \in SUBSET Ready
    OBVIOUS
  <2>2. IsFiniteSet(Before(i))
    BY <1>4, <2>1, FS_Subset
  <2>3. Cardinality(Before(i)) < BatchSize
    BY DEF Batch
  <2> QED BY <2>2, <2>3, FS_CardinalityType
<1>6. ASSUME NEW i \in Batch, NEW j \in Batch, i < j
      PROVE  Cardinality(Before(i)) # Cardinality(Before(j))
  <2>0. i \in Nat /\ j \in Nat /\ i \in Ready /\ \A k \in Ready : k \in Nat
    BY <1>2
  <2>1. i \in Before(j) /\ i \notin Before(i)
    BY <1>6, <2>0
  <2>3. ASSUME NEW k \in Before(i) PROVE k \in Before(j)
    BY <1>6, <2>0
  <2> HIDE DEF Before
  <2>4. Before(i) \in SUBSET Before(j)
    BY <2>3
  <2>2. Cardinality(Before(j)) = Cardinality(Before(i)) => Before(j) = Before(i)
    BY <1>5, <2>4, FS_Subset
  <2> QED BY <2>1, <2>2
<1>7. rank \in Injection(Batch, 0 .. BatchSize - 1)
  <2> HIDE DEF Before
  <2>1. rank \in [Batch -> 0 .. BatchSize - 1]
    BY <1>1, <1>5
  <2>2. \A i, j \in Batch : rank[i] = rank[j] => i = j
    <3> SUFFICES ASSUME NEW i \in Batch, NEW j \in Batch, i # j PROVE rank[i] # rank[j]
      OBVIOUS
    <3>1. i < j \/ j < i
      BY <1>2
    <3> QED BY <1>6, <3>1
  <2> QED BY <2>1, <2>2 DEF Injection, IsInjective
<1>8. IsFiniteSet(0 .. BatchSize - 1) /\ Cardinality(0 .. BatchSize - 1) = BatchSize
  <2>1. 0 \in Int /\ BatchSize - 1 \in Int /\ 0 <= BatchSize - 1
    BY <1>1
  <2>2. /\ IsFiniteSet(0 .. BatchSize - 1)
        /\ Cardinality(0 .. BatchSize - 1) = IF 0 > BatchSize - 1 THEN 0 ELSE (BatchSize - 1) - 0 + 1
    BY <2>1, FS_Interval
  <2> QED BY <1>1, <2>1, <2>2
<1> QED BY <1>7, <1>8, FS_Injection

(* The first operation that is ready is in the batch. *)
LEMMA BatchTakes ==
    ASSUME outbox \in Seq(Operation), Batch = {}
    PROVE  Ready = {}
<1> SUFFICES ASSUME Ready # {} PROVE FALSE
  OBVIOUS
<1>1. Ready \in SUBSET Nat /\ BatchSize \in Nat \ {0}
  <2>1. \A i \in DOMAIN outbox : i \in Nat
    BY SeqIs
  <2> QED BY <2>1, SystemAssumption DEF Ready
<1>2. PICK n \in Ready : \A k \in Ready : n <= k
  BY <1>1, LeastIs
<1>3. \A k \in Ready : ~(k < n)
  BY <1>1, <1>2
<1>4. {j \in Ready : j < n} = {}
  BY <1>3
<1>5. Cardinality({j \in Ready : j < n}) < BatchSize
  <2>1. Cardinality({j \in Ready : j < n}) = 0
    BY <1>4, FS_EmptySet
  <2> QED BY <1>1, <2>1
<1> QED BY <1>5 DEF Batch

LEMMA PushKeeps ==
    ASSUME SInv, Push
    PROVE  SInv'
<1>0. /\ outbox \in Seq(Operation) /\ Orderly(outbox, sent, results)
      /\ sent \subseteq OpId
  BY DeviceNames DEF SInv, Typed, Queued, ServerTyped
<1>1. /\ Batch # {} /\ sent' = sent \cup {outbox[i].op : i \in Batch}
      /\ sync' = [pc |-> "pushing", batch |-> Batch]
      /\ UNCHANGED <<ledgerVars, deviceVars, log, answers, cursor, restored>>
      /\ UNCHANGED <<outbox, results>>
  BY DEF Push, ledgerVars, deviceVars
<1>2. Batch \in SUBSET Ready /\ Ready \in SUBSET DOMAIN outbox
  BY DEF Batch, Ready
<1>3. Cardinality(Batch) <= BatchSize
  BY <1>0, BatchBounded
<1>4. sync'.pc = "pushing" /\ sync'.batch = Batch
  BY <1>1
<1>5. SyncTypeOK' /\ SyncShape'
  <2>1. sync'.batch \in (SUBSET DOMAIN outbox') \ {{}}
    <3>1. Batch \in SUBSET DOMAIN outbox
      BY <1>2
    <3>2. DOMAIN outbox' = DOMAIN outbox
      BY <1>1
    <3> QED BY <1>1, <1>4, <3>1, <3>2
  <2>2. Cardinality(sync'.batch) <= BatchSize
    BY <1>3, <1>4
  <2>3. sync' = [pc |-> "pushing", batch |-> sync'.batch]
    BY <1>1, <1>4
  <2> QED BY <1>4, <2>1, <2>2, <2>3 DEF SyncTypeOK, SyncShape
<1>6. Orderly(outbox, sent', results) /\ Awaited(Batch, outbox, sent')
  BY <1>0, <1>1, <1>2, PushedOrderly
<1>7. Queued' /\ Paged'
  BY <1>1, <1>4, <1>6 DEF Queued, Carried, Paged
<1>8. sent' \subseteq OpId
  BY <1>0, <1>1, <1>2, DeviceNames DEF SInv, Typed
<1>9. \A o \in sent' : InConflict(o) => o \in sent
  BY <1>0, <1>8 DEF InConflict, Orderly
<1> QED BY <1>1, <1>5, <1>7, <1>8, <1>9, RunMoves DEF deviceVars

LEMMA ReceiveKeeps ==
    ASSUME SInv, ReceiveResults
    PROVE  SInv'
<1>0. outbox \in Seq(Operation) /\ sent \subseteq OpId /\ sync.pc = "pushing"
  BY DeviceNames DEF SInv, Typed, ServerTyped, ReceiveResults
<1>1. PICK outcome \in [sync.batch -> UNION {Reported(i) : i \in sync.batch}] :
         /\ \A i \in sync.batch : outcome[i] \in Reported(i)
         /\ sync' = [pc |-> "marking", todo |-> sync.batch, outcome |-> outcome]
  BY DEF ReceiveResults
<1>2. UNCHANGED <<ledgerVars, deviceVars, log, answers, sent, cursor, restored>>
      /\ UNCHANGED <<outbox, results>>
  BY DEF ReceiveResults, ledgerVars, deviceVars
<1>3. /\ sync'.pc = "marking" /\ sync'.todo = sync.batch /\ sync'.outcome = outcome
      /\ sync' = [pc |-> "marking", todo |-> sync'.todo, outcome |-> sync'.outcome]
  BY <1>1
<1>4. sync.batch \in (SUBSET DOMAIN outbox) \ {{}}
  BY <1>0 DEF SInv, Typed, RunTyped, SyncTypeOK, Idle
<1>5. \A i \in sync.batch :
         \/ outcome[i] = "INTERNAL_ERROR"
         \/ results[outbox[i].op] # NoResult /\ outcome[i] = results[outbox[i].op].outcome
  BY <1>1 DEF Reported
<1>6. \A i \in sync.batch : outcome[i] \in Outcome \cup {"INTERNAL_ERROR"}
  <2>1. \A i \in sync.batch : outbox[i].op \in OpId
    BY <1>4, DeviceNames DEF SInv, Typed
  <2>2. results \in [OpId -> Result \cup {NoResult}]
    BY DEF SInv, Typed, ServerTyped, LedgerTypeOK
  <2> QED BY <1>5, <2>1, <2>2 DEF Result
<1>7. SyncTypeOK' /\ SyncShape'
  BY <1>2, <1>3, <1>4, <1>6 DEF SyncTypeOK, SyncShape
<1>8. Awaited(sync.batch, outbox, sent)
  BY <1>0 DEF SInv, Queued, Carried
<1>9. Queued' /\ Paged'
  BY <1>2, <1>3, <1>5, <1>8 DEF SInv, Queued, Carried, Paged
<1> QED BY <1>0, <1>2, <1>7, <1>9, RunMoves DEF deviceVars

(* Nothing that has left the device is pending when a pull begins. *)
LEMMA StartPullKeeps ==
    ASSUME SInv, StartPull
    PROVE  SInv'
<1>0. outbox \in Seq(Operation) /\ sent \subseteq OpId /\ Orderly(outbox, sent, results)
  BY DeviceNames DEF SInv, Typed, ServerTyped, Queued
<1>1. /\ sync' = [pc |-> "pulling"] /\ sync'.pc = "pulling" /\ Batch = {}
      /\ UNCHANGED <<ledgerVars, deviceVars, log, answers, sent, cursor, restored>>
      /\ UNCHANGED <<outbox, results>>
  BY DEF StartPull, ledgerVars, deviceVars
<1>2. Ready = {}
  BY <1>0, <1>1, BatchTakes
<1>3. \A i \in DOMAIN outbox : outbox[i].op \in sent => outbox[i].state # "pending"
  <2> SUFFICES ASSUME NEW i \in DOMAIN outbox, outbox[i].op \in sent, outbox[i].state = "pending"
               PROVE  Sendable(i)
    BY <1>2 DEF Ready
  <2>1. DOMAIN outbox = 1 .. Len(outbox) /\ Len(outbox) \in Nat
    BY <1>0, SeqIs
  <2>2. ASSUME NEW j \in 1 .. i - 1, outbox[j].tx = outbox[i].tx
        PROVE  outbox[j].state \notin Unfinished
    <3>1. j \in DOMAIN outbox /\ j < i
      BY <2>1
    <3>2. outbox[j].state \in {"synced", "resolved"}
      BY <1>0, <2>2, <3>1 DEF Orderly
    <3> QED BY <3>2 DEF Unfinished
  <2> QED BY <2>2 DEF Sendable
<1>4. SyncTypeOK' /\ SyncShape'
  BY <1>1 DEF SyncTypeOK, SyncShape
<1>5. Queued' /\ Paged'
  BY <1>0, <1>1, <1>3 DEF Queued, Carried, Paged
<1> QED BY <1>0, <1>1, <1>4, <1>5, RunMoves DEF deviceVars

(* The page is of the changes after the cursor, with the rows as they are. *)
LEMMA ServeKeeps ==
    ASSUME SInv, ServePage
    PROVE  SInv'
<1> DEFINE entry(n) == [tx |-> log[cursor + n].tx,
                        tombstone |-> log[cursor + n].tombstone,
                        row |-> IF log[cursor + n].tombstone THEN NoRow
                                ELSE ServerCopy(log[cursor + n].tx)]
           page == [n \in 1 .. PageEnd - cursor |-> entry(n)]
<1>0. ServerTyped /\ RunTyped /\ sent \subseteq OpId /\ sync.pc = "pulling"
  BY DEF SInv, Typed, ServerTyped, ServePage
<1>1. /\ Len(log) \in Nat /\ DOMAIN log = 1 .. Len(log) /\ cursor \in 0 .. Len(log)
      /\ PageSize \in Nat
  BY <1>0, LogIs, SystemAssumption DEF RunTyped
<1>2. PageEnd \in Nat /\ PageEnd - cursor \in 0 .. PageSize /\ cursor <= PageEnd /\ PageEnd <= Len(log)
  BY <1>1 DEF PageEnd
<1>3. /\ sync' = [pc |-> "paged", page |-> page, more |-> PageEnd < Len(log)]
      /\ UNCHANGED <<ledgerVars, deviceVars, log, answers, sent, cursor, restored>>
      /\ UNCHANGED <<rows, revisions, results, outbox>>
  BY DEF ServePage, ledgerVars, deviceVars
<1>4. \A n \in 1 .. PageEnd - cursor :
         LET t == log[cursor + n].tx
         IN /\ cursor + n \in DOMAIN log
            /\ t \in Txn /\ log[cursor + n].tombstone \in BOOLEAN
            /\ rows[t] # NoRow /\ ServerCopy(t) \in Copy /\ ServerCopy(t).deleted = rows[t].deleted
  <2> SUFFICES ASSUME NEW n \in 1 .. PageEnd - cursor
               PROVE  LET t == log[cursor + n].tx
                      IN /\ cursor + n \in DOMAIN log
                         /\ t \in Txn /\ log[cursor + n].tombstone \in BOOLEAN
                         /\ rows[t] # NoRow /\ ServerCopy(t) \in Copy
                         /\ ServerCopy(t).deleted = rows[t].deleted
    OBVIOUS
  <2>1. cursor + n \in DOMAIN log
    BY <1>1, <1>2
  <2>2. /\ log[cursor + n].tx \in Txn /\ log[cursor + n].tombstone \in BOOLEAN
        /\ rows[log[cursor + n].tx] # NoRow
    BY <1>0, <2>1, LogIs DEF ServerTyped
  <2> QED BY <1>0, <2>1, <2>2, CopyTyped
<1>5. ASSUME NEW n \in 1 .. PageEnd - cursor
      PROVE  /\ entry(n) \in PageItem
             /\ entry(n).tx = log[cursor + n].tx /\ entry(n).tombstone = log[cursor + n].tombstone
             /\ ~entry(n).tombstone =>
                   /\ entry(n).row = ServerCopy(entry(n).tx) /\ entry(n).row \in Copy
                   /\ entry(n).row.deleted => Gone(entry(n).tx)
                   /\ Shows(entry(n).row, entry(n).tx)
  <2>1. entry(n) \in PageItem
    BY <1>4 DEF PageItem
  <2>2. entry(n).tx = log[cursor + n].tx /\ entry(n).tombstone = log[cursor + n].tombstone
    OBVIOUS
  <2>3. ~entry(n).tombstone => entry(n).row = ServerCopy(entry(n).tx)
    OBVIOUS
  <2> HIDE DEF entry
  <2> QED BY <1>4, <2>1, <2>2, <2>3 DEF Gone, Shows, Same
<1> HIDE DEF entry
<1>6. /\ page \in Seq(PageItem) /\ Len(page) = PageEnd - cursor /\ DOMAIN page = 1 .. PageEnd - cursor
      /\ \A n \in 1 .. PageEnd - cursor : page[n] = entry(n)
  <2>1. PageEnd - cursor \in Nat
    BY <1>2
  <2>2. page \in [1 .. PageEnd - cursor -> PageItem]
    BY <1>5
  <2> QED BY <2>1, <2>2
<1> HIDE DEF page
<1>7. SyncTypeOK' /\ SyncShape'
  <2>1. /\ sync'.pc = "paged" /\ sync'.page = page
        /\ sync' = [pc |-> "paged", page |-> sync'.page, more |-> sync'.more]
    BY <1>3
  <2>2. Len(page) <= PageSize
    BY <1>1, <1>2, <1>6
  <2> QED BY <1>6, <2>1, <2>2 DEF SyncTypeOK, SyncShape
<1>8. Queued'
  BY <1>0, <1>3 DEF SInv, Queued, Orderly, Carried
<1>9. Paged'
  <2>1. sync'.page = page /\ cursor' = cursor /\ log' = log /\ rows' = rows /\ revisions' = revisions
    BY <1>3
  <2>2. cursor + Len(page) <= Len(log)
    BY <1>1, <1>2, <1>6
  <2>3. \A k \in DOMAIN page :
           /\ page[k].tx = log[cursor + k].tx /\ page[k].tombstone = log[cursor + k].tombstone
           /\ ~page[k].tombstone =>
                 /\ page[k].row \in Copy
                 /\ page[k].row.deleted => Gone(page[k].tx)
                 /\ Shows(page[k].row, page[k].tx)
    BY <1>5, <1>6
  <2> QED BY <2>1, <2>2, <2>3 DEF Paged, Gone, Shows, Same, ServerCopy, Author
<1> QED BY <1>0, <1>3, <1>7, <1>8, <1>9, RunMoves DEF deviceVars

-----------------------------------------------------------------------------
(***************************************************************************)
(* An answer is marked.                                                    *)
(***************************************************************************)
LEMMA MarkedQueue ==
    ASSUME outbox \in Seq(Operation), Queued, sync.pc = "marking",
           NEW i \in sync.todo, NEW state, NEW failed, NEW stops,
           Marked(outbox, outbox', i, state, failed, stops),
           Fits(outbox[i], results, state, failed, stops)
    PROVE  /\ Orderly(outbox', sent, results) /\ Awaited(sync.todo \ {i}, outbox', sent)
           /\ \A j \in sync.todo \ {i} : outbox'[j] = outbox[j]
<1>1. PICK next : next = outbox'
  OBVIOUS
<1>2. Orderly(outbox, sent, results) /\ Awaited(sync.todo, outbox, sent)
  BY DEF Queued, Carried
<1>3. i \in DOMAIN outbox /\ outbox[i].state = "pending" /\ outbox[i].op \in sent
  BY <1>2 DEF Awaited
<1>4. Marked(outbox, next, i, state, failed, stops)
  BY <1>1
<1>5. Orderly(next, sent, results)
  BY <1>2, <1>3, <1>4, MarkedOrderly
<1>6. Awaited(sync.todo \ {i}, next, sent) /\ \A j \in sync.todo \ {i} : next[j] = outbox[j]
  <2>1. \A j \in sync.todo \ {i} : j \in DOMAIN outbox \ {i} /\ outbox[j].tx # outbox[i].tx
    BY <1>2 DEF Awaited
  <2>2. (\A j \in sync.todo \ {i} : next[j] = outbox[j]) /\ DOMAIN next = DOMAIN outbox
    BY <1>4, <2>1 DEF Marked
  <2> QED BY <1>2, <2>1, <2>2 DEF Awaited
<1> QED BY <1>1, <1>5, <1>6

LEMMA MarksKeep ==
    ASSUME SInv, sync.pc = "marking", NEW i \in sync.todo, NEW state, NEW failed, NEW stops,
           Marked(outbox, outbox', i, state, failed, stops),
           Fits(outbox[i], results, state, failed, stops),
           local' \in [Txn -> Copy \cup {NoRow}], syncState' \in [Txn -> SyncState],
           \A t \in Txn : /\ local'[t] = NoRow <=> local[t] = NoRow
                          /\ local[t] # NoRow => local'[t].deleted = local[t].deleted,
           conflicts' \subseteq Conflict, Tracked(outbox', conflicts'),
           \A c \in conflicts' : /\ c.local.deleted \/ c.server.deleted => Gone(c.tx)
                                 /\ Later(cursor, c.tx) \/ Shows(c.server, c.tx),
           sync' = IF sync.todo = {i} THEN Idle ELSE [sync EXCEPT !.todo = @ \ {i}],
           UNCHANGED <<ledgerVars, history, draft, log, answers, sent, cursor, restored>>
    PROVE  SInv'
<1>0. /\ ServerTyped /\ DeviceTyped /\ RunTyped /\ Queued /\ Dated /\ Current
      /\ UNCHANGED <<rows, revisions, results>>
  BY DEF SInv, Typed, ledgerVars
<1>1. outbox \in Seq(Operation) /\ Awaited(sync.todo, outbox, sent) /\ Orderly(outbox, sent, results)
  BY <1>0, DeviceNames DEF Queued, Carried
<1>2. i \in DOMAIN outbox /\ outbox[i].state = "pending" /\ outbox[i].op \in sent
  BY <1>1 DEF Awaited
<1>3. outbox' \in Seq(Operation) /\ DOMAIN outbox' = DOMAIN outbox
  BY DEF Marked
<1>4. \A j \in DOMAIN outbox :
         /\ outbox'[j].op = outbox[j].op /\ outbox'[j].tx = outbox[j].tx
         /\ outbox'[j].kind = outbox[j].kind /\ outbox'[j].base = outbox[j].base
         /\ outbox'[j].state = "pending" => outbox[j].state = "pending"
  <2> SUFFICES ASSUME NEW j \in DOMAIN outbox
               PROVE  /\ outbox'[j].op = outbox[j].op /\ outbox'[j].tx = outbox[j].tx
                      /\ outbox'[j].kind = outbox[j].kind /\ outbox'[j].base = outbox[j].base
                      /\ outbox'[j].state = "pending" => outbox[j].state = "pending"
    OBVIOUS
  <2>1. CASE j = i
    BY <1>2, <2>1 DEF Marked, Like
  <2>2. CASE j # i
    BY <2>2 DEF Marked, Like
  <2> QED BY <2>1, <2>2
<1>5. sync = [pc |-> "marking", todo |-> sync.todo, outcome |-> sync.outcome]
  BY <1>0 DEF RunTyped, SyncShape, Idle
<1>6. /\ sync.todo \in (SUBSET DOMAIN outbox) \ {{}}
      /\ \A j \in sync.todo : sync.outcome[j] \in Outcome \cup {"INTERNAL_ERROR"}
  BY <1>0 DEF RunTyped, SyncTypeOK, Idle
<1>7. \/ sync.todo = {i} /\ sync' = Idle
      \/ /\ sync.todo # {i}
         /\ sync'.pc = "marking" /\ sync'.todo = sync.todo \ {i} /\ sync'.outcome = sync.outcome
         /\ sync' = [pc |-> "marking", todo |-> sync'.todo, outcome |-> sync'.outcome]
  BY <1>5
<1>8. ServerTyped'
  BY <1>0 DEF ServerTyped, LedgerTypeOK, RevisionChain, SeenRevision, InConflict
<1>9. DeviceTyped'
  <2>1. OutboxTypeOK'
    BY <1>0, <1>3 DEF DeviceTyped, OutboxTypeOK
  <2>2. \A j \in DOMAIN outbox : /\ local'[outbox[j].tx] # NoRow
                                 /\ outbox[j].kind = "correct" => outbox[j].base # 0
    BY <1>0, DeviceNames DEF DeviceTyped
  <2>3. draft # NoDraft => local'[draft.tx] # NoRow
    BY <1>0, DeviceNames DEF DeviceTyped
  <2> QED BY <1>0, <1>3, <1>4, <2>1, <2>2, <2>3 DEF DeviceTyped
<1>10. RunTyped'
  <2>1. CASE sync' = Idle
    BY <1>0, <2>1 DEF RunTyped, SyncTypeOK, SyncShape
  <2>2. CASE /\ sync.todo # {i}
             /\ sync'.pc = "marking" /\ sync'.todo = sync.todo \ {i} /\ sync'.outcome = sync.outcome
             /\ sync' = [pc |-> "marking", todo |-> sync'.todo, outcome |-> sync'.outcome]
    <3>1. sync'.todo \in (SUBSET DOMAIN outbox') \ {{}}
      BY <1>3, <1>6, <2>2
    <3>2. \A j \in sync'.todo : sync'.outcome[j] \in Outcome \cup {"INTERNAL_ERROR"}
      BY <1>6, <2>2
    <3> QED BY <1>0, <2>2, <3>1, <3>2 DEF RunTyped, SyncTypeOK, SyncShape
  <2> QED BY <1>7, <2>1, <2>2
<1>11. /\ Orderly(outbox', sent, results) /\ Awaited(sync.todo \ {i}, outbox', sent)
       /\ \A j \in sync.todo \ {i} : outbox'[j] = outbox[j]
  BY <1>0, <1>1, MarkedQueue
<1>13. Carried(sync', outbox', sent, results)
  <2>1. CASE sync' = Idle
    BY <2>1 DEF Carried, Idle
  <2>2. CASE sync'.pc = "marking" /\ sync'.todo = sync.todo \ {i} /\ sync'.outcome = sync.outcome
    <3>1. \A j \in sync.todo :
             \/ sync.outcome[j] = "INTERNAL_ERROR"
             \/ /\ results[outbox[j].op] # NoResult
                /\ sync.outcome[j] = results[outbox[j].op].outcome
      BY <1>0 DEF Queued, Carried
    <3> QED BY <1>11, <2>2, <3>1 DEF Carried
  <2> QED BY <1>7, <2>1, <2>2
<1>14. Dated'
  BY <1>0 DEF Dated, Gone
<1>15. Current'
  <2>1. Offered(conflicts, cursor)'
    BY <1>0 DEF Offered, Later, Shows, Same, ServerCopy, Author
  <2>2. Answered'
    <3>1. \A j \in DOMAIN outbox :
             LET m == outbox[j]
             IN m.op \in sent /\ outbox'[j].state = "pending" /\ InConflict(m.op) =>
                   \/ Later(cursor, m.tx)
                   \/ rows[m.tx] # NoRow /\ ~rows[m.tx].deleted /\ Same(answers[m.op], m.tx)
      BY <1>0, <1>4 DEF Current, Answered
    <3> QED BY <1>0, <1>3, <1>4, <3>1 DEF Answered, InConflict, Later, Same, ServerCopy, Author
  <2>3. Paged'
    BY <1>7 DEF Paged, Idle
  <2> QED BY <2>1, <2>2, <2>3 DEF Current
<1>16. Queued' /\ Tracked(outbox, conflicts)'
  BY <1>0, <1>11, <1>13 DEF Queued
<1> QED BY <1>8, <1>9, <1>10, <1>14, <1>15, <1>16 DEF SInv, Typed

(* No operation comes into conflict, and none leaves it. *)
LEMMA MarkedTracked ==
    ASSUME NEW book, NEW next, NEW table, NEW i \in DOMAIN book, NEW state, NEW failed, NEW stops,
           Tracked(book, table), Marked(book, next, i, state, failed, stops),
           book[i].state = "pending", state # "conflict"
    PROVE  Tracked(next, table)
<1>1. \A j \in DOMAIN book :
         /\ next[j].tx = book[j].tx
         /\ next[j].state = "conflict" <=> book[j].state = "conflict"
  <2> SUFFICES ASSUME NEW j \in DOMAIN book
               PROVE  /\ next[j].tx = book[j].tx
                      /\ next[j].state = "conflict" <=> book[j].state = "conflict"
    OBVIOUS
  <2>1. CASE j = i
    BY <2>1 DEF Marked, Like
  <2>2. CASE j # i
    BY <2>2 DEF Marked, Like
  <2> QED BY <2>1, <2>2
<1>2. DOMAIN next = DOMAIN book
  BY DEF Marked
<1> QED BY <1>1, <1>2, SameTracked

(* What every answer finds. *)
LEMMA MarkFinds ==
    ASSUME SInv, sync.pc = "marking", NEW i \in sync.todo
    PROVE  /\ outbox \in Seq(Operation) /\ i \in DOMAIN outbox /\ outbox[i] \in Operation
           /\ outbox[i].tx \in Txn /\ outbox[i].op \in OpId /\ outbox[i].base \in Nat
           /\ outbox[i].state = "pending" /\ outbox[i].op \in sent
           /\ local \in [Txn -> Copy \cup {NoRow}] /\ local[outbox[i].tx] \in Copy
           /\ syncState \in [Txn -> SyncState] /\ conflicts \subseteq Conflict
           /\ sync.outcome[i] \in Outcome \cup {"INTERNAL_ERROR"}
           /\ \/ sync.outcome[i] = "INTERNAL_ERROR"
              \/ /\ results[outbox[i].op] # NoResult
                 /\ sync.outcome[i] = results[outbox[i].op].outcome
           /\ \A c \in conflicts : /\ c.local.deleted \/ c.server.deleted => Gone(c.tx)
                                   /\ Later(cursor, c.tx) \/ Shows(c.server, c.tx)
<1>1. DeviceTyped /\ RunTyped /\ Queued /\ Dated /\ Current
  BY DEF SInv, Typed
<1>2. Awaited(sync.todo, outbox, sent)
  BY <1>1 DEF Queued, Carried
<1>3. i \in DOMAIN outbox /\ outbox[i].state = "pending" /\ outbox[i].op \in sent
  BY <1>2 DEF Awaited
<1>4. outbox \in Seq(Operation) /\ outbox[i] \in Operation /\ outbox[i].tx \in Txn
      /\ local \in [Txn -> Copy \cup {NoRow}] /\ local[outbox[i].tx] \in Copy
  BY <1>1, <1>3, DeviceNames DEF DeviceTyped
<1>5. syncState \in [Txn -> SyncState] /\ conflicts \subseteq Conflict
  BY <1>1 DEF DeviceTyped, OutboxTypeOK
<1>6. sync.outcome[i] \in Outcome \cup {"INTERNAL_ERROR"}
  BY <1>1 DEF RunTyped, SyncTypeOK, Idle
<1>7. \/ sync.outcome[i] = "INTERNAL_ERROR"
      \/ /\ results[outbox[i].op] # NoResult
         /\ sync.outcome[i] = results[outbox[i].op].outcome
  BY <1>1 DEF Queued, Carried
<1>8. \A c \in conflicts : /\ c.local.deleted \/ c.server.deleted => Gone(c.tx)
                           /\ Later(cursor, c.tx) \/ Shows(c.server, c.tx)
  BY <1>1 DEF Dated, Current, Offered
<1> QED BY <1>3, <1>4, <1>5, <1>6, <1>7, <1>8 DEF Operation

MarksAt(i) ==
    /\ sync' = IF sync.todo = {i} THEN Idle ELSE [sync EXCEPT !.todo = @ \ {i}]
    /\ UNCHANGED <<ledgerVars, log, answers, sent, cursor, restored>>

(* What an answer does to the queue. *)
LEMMA QueueMarked ==
    ASSUME SInv, sync.pc = "marking", NEW i \in sync.todo, Mark(i, sync.outcome[i])
    PROVE  \E state \in {"synced", "conflict", "rejected"}, failed, stops \in BOOLEAN :
              /\ Marked(outbox, outbox', i, state, failed, stops)
              /\ Fits(outbox[i], results, state, failed, stops)
              /\ stops <=> state # "synced"
<1>1. outbox \in Seq(Operation) /\ i \in DOMAIN outbox /\ outbox[i].failed \in BOOLEAN
  BY MarkFinds DEF Operation
<1>2. CASE sync.outcome[i] = "applied"
  <2>1. outbox' = [outbox EXCEPT ![i].state = "synced"]
    BY <1>2 DEF Mark, MarkApplied
  <2>2. Marked(outbox, outbox', i, "synced", outbox[i].failed, FALSE)
    BY <1>1, <2>1, AppliedIs
  <2>3. Fits(outbox[i], results, "synced", outbox[i].failed, FALSE)
    BY <1>2, MarkFinds DEF Fits
  <2> QED BY <1>1, <2>2, <2>3
<1>3. CASE sync.outcome[i] = "REVISION_CONFLICT"
  <2>1. outbox' = StoppedAt(i, "conflict")
    BY <1>3 DEF Mark, MarkConflict
  <2>2. Marked(outbox, outbox', i, "conflict", outbox[i].failed, TRUE)
    BY <1>1, <2>1, StoppedIs DEF OpState
  <2>3. Fits(outbox[i], results, "conflict", outbox[i].failed, TRUE)
    BY <1>3, MarkFinds DEF Fits
  <2> QED BY <1>1, <2>2, <2>3
<1>4. CASE sync.outcome[i] \notin {"applied", "REVISION_CONFLICT"}
  <2>1. PICK failed \in BOOLEAN : failed <=> sync.outcome[i] = "INTERNAL_ERROR"
    OBVIOUS
  <2>2. failed = (sync.outcome[i] = "INTERNAL_ERROR")
    BY <2>1
  <2>3. outbox' = [StoppedAt(i, "rejected") EXCEPT ![i].failed = failed]
    BY <1>4, <2>2 DEF Mark, MarkRejected
  <2>4. Marked(outbox, outbox', i, "rejected", failed, TRUE)
    BY <1>1, <2>3, RejectedIs
  <2>5. Fits(outbox[i], results, "rejected", failed, TRUE)
    BY <1>4, <2>1, MarkFinds DEF Fits
  <2> QED BY <2>4, <2>5
<1> QED BY <1>2, <1>3, <1>4

(* The same operations, and no other is pending. *)
LEMMA MarkedStays ==
    ASSUME NEW book, NEW next, NEW i \in DOMAIN book, NEW state, NEW failed, NEW stops,
           Marked(book, next, i, state, failed, stops), book[i].state = "pending"
    PROVE  /\ DOMAIN next = DOMAIN book
           /\ \A j \in DOMAIN book : /\ next[j].op = book[j].op /\ next[j].tx = book[j].tx
                                     /\ next[j].state = "pending" => book[j].state = "pending"
<1>1. ASSUME NEW j \in DOMAIN book
      PROVE  /\ next[j].op = book[j].op /\ next[j].tx = book[j].tx
             /\ next[j].state = "pending" => book[j].state = "pending"
  <2>1. CASE j = i
    BY <2>1 DEF Marked, Like
  <2>2. CASE j # i
    BY <2>2 DEF Marked, Like
  <2> QED BY <2>1, <2>2
<1> QED BY <1>1 DEF Marked

LEMMA AppliedKeeps ==
    ASSUME SInv, sync.pc = "marking", NEW i \in sync.todo, MarksAt(i),
           sync.outcome[i] = "applied", MarkApplied(i)
    PROVE  SInv'
<1> DEFINE book == [outbox EXCEPT ![i].state = "synced"]
           failed == outbox[i].failed
<1>1. outbox' = book /\ UNCHANGED <<local, history, conflicts, draft>>
  BY DEF MarkApplied
<1>2. Marked(outbox, book, i, "synced", failed, FALSE)
  BY MarkFinds, AppliedIs
<1> HIDE DEF book, failed
<1>3. Marked(outbox, outbox', i, "synced", failed, FALSE) /\ Tracked(outbox', conflicts')
  <2>1. Tracked(book, conflicts)
    BY <1>2, MarkFinds, MarkedTracked DEF SInv
  <2> QED BY <1>1, <1>2, <2>1
<1>4. Fits(outbox[i], results, "synced", failed, FALSE)
  BY MarkFinds DEF Fits
<1>5. syncState' \in [Txn -> SyncState]
  BY MarkFinds DEF MarkApplied, SyncState
<1>6. /\ local' \in [Txn -> Copy \cup {NoRow}] /\ conflicts' \subseteq Conflict
      /\ \A t \in Txn : /\ local'[t] = NoRow <=> local[t] = NoRow
                        /\ local[t] # NoRow => local'[t].deleted = local[t].deleted
      /\ \A c \in conflicts' : /\ c.local.deleted \/ c.server.deleted => Gone(c.tx)
                               /\ Later(cursor, c.tx) \/ Shows(c.server, c.tx)
  BY <1>1, MarkFinds
<1>7. /\ sync' = IF sync.todo = {i} THEN Idle ELSE [sync EXCEPT !.todo = @ \ {i}]
      /\ UNCHANGED <<ledgerVars, history, draft, log, answers, sent, cursor, restored>>
  BY <1>1 DEF MarksAt
<1> QED BY <1>3, <1>4, <1>5, <1>6, <1>7, MarksKeep

(* A copy loses its payment, and nothing else. *)
LEMMA Unpaid ==
    ASSUME local \in [Txn -> Copy \cup {NoRow}], NEW t \in Txn, local[t] \in Copy,
           local' = [local EXCEPT ![t].paid = FALSE]
    PROVE  /\ local' \in [Txn -> Copy \cup {NoRow}]
           /\ \A u \in Txn : /\ local'[u] = NoRow <=> local[u] = NoRow
                             /\ local[u] # NoRow => local'[u].deleted = local[u].deleted
<1> DEFINE copy == [local[t] EXCEPT !.paid = FALSE]
<1>1. copy \in Copy /\ copy.deleted = local[t].deleted
  BY DEF Copy
<1>2. copy # NoRow /\ local[t] # NoRow
  BY <1>1, CopyAssumption
<1>3. local' = [local EXCEPT ![t] = copy]
  OBVIOUS
<1> HIDE DEF copy
<1> QED BY <1>1, <1>2, <1>3

LEMMA RejectedKeeps ==
    ASSUME SInv, sync.pc = "marking", NEW i \in sync.todo, MarksAt(i),
           sync.outcome[i] # "applied", MarkRejected(i, sync.outcome[i] = "INTERNAL_ERROR")
    PROVE  SInv'
<1> DEFINE failed == sync.outcome[i] = "INTERNAL_ERROR"
           book == [StoppedAt(i, "rejected") EXCEPT ![i].failed = failed]
<1>0. failed \in BOOLEAN
  OBVIOUS
<1>1. outbox' = book /\ UNCHANGED <<history, conflicts, draft>>
  BY DEF MarkRejected
<1>2. Fits(outbox[i], results, "rejected", failed, TRUE)
  BY MarkFinds DEF Fits
<1> HIDE DEF failed, book
<1>3. Marked(outbox, book, i, "rejected", failed, TRUE)
  BY <1>0, MarkFinds, RejectedIs DEF book
<1>4. Marked(outbox, outbox', i, "rejected", failed, TRUE) /\ Tracked(outbox', conflicts')
  <2>1. Tracked(book, conflicts)
    BY <1>3, MarkFinds, MarkedTracked DEF SInv
  <2> QED BY <1>1, <1>3, <2>1
<1>5. /\ local' \in [Txn -> Copy \cup {NoRow}]
      /\ \A t \in Txn : /\ local'[t] = NoRow <=> local[t] = NoRow
                        /\ local[t] # NoRow => local'[t].deleted = local[t].deleted
  <2>1. local' = local \/ local' = [local EXCEPT ![outbox[i].tx].paid = FALSE]
    BY DEF MarkRejected
  <2> QED BY <2>1, MarkFinds, Unpaid
<1>6. syncState' \in [Txn -> SyncState]
  BY MarkFinds DEF MarkRejected, SyncState
<1>7. /\ conflicts' \subseteq Conflict
      /\ \A c \in conflicts' : /\ c.local.deleted \/ c.server.deleted => Gone(c.tx)
                               /\ Later(cursor, c.tx) \/ Shows(c.server, c.tx)
  BY <1>1, MarkFinds
<1>8. /\ sync' = IF sync.todo = {i} THEN Idle ELSE [sync EXCEPT !.todo = @ \ {i}]
      /\ UNCHANGED <<ledgerVars, history, draft, log, answers, sent, cursor, restored>>
  BY <1>1 DEF MarksAt
<1> QED BY <1>2, <1>4, <1>5, <1>6, <1>7, <1>8, MarksKeep

(* The conflict is recorded with the version that the answer brought. *)
LEMMA ConflictKeeps ==
    ASSUME SInv, sync.pc = "marking", NEW i \in sync.todo, MarksAt(i),
           sync.outcome[i] = "REVISION_CONFLICT", MarkConflict(i, answers[outbox[i].op])
    PROVE  SInv'
<1> DEFINE t == outbox[i].tx
           failed == outbox[i].failed
           book == StoppedAt(i, "conflict")
           server == answers[outbox[i].op]
           Merged(revision, by, paid) ==
              [local[t] EXCEPT !.revision = revision, !.by = by, !.paid = paid]
           c == [tx |-> t, local |-> Merged(outbox[i].base + 1, outbox[i].op, TRUE),
                 server |-> Merged(server.revision, server.by, server.paid)]
<1>1. /\ outbox' = book /\ conflicts' = conflicts \cup {c} /\ UNCHANGED <<history, draft>>
      /\ local' = [local EXCEPT ![t].paid = FALSE]
      /\ syncState' = [syncState EXCEPT ![t] = "conflict"]
  BY DEF MarkConflict
<1>2. Marked(outbox, book, i, "conflict", failed, TRUE)
  BY MarkFinds, StoppedIs DEF OpState
<1>3. InConflict(outbox[i].op) /\ t \in Txn
  BY MarkFinds DEF InConflict
<1>4. Fits(outbox[i], results, "conflict", failed, TRUE)
  BY MarkFinds DEF Fits
<1>5. server \in Copy /\ local[t] \in Copy
  BY <1>3, MarkFinds DEF SInv, Typed, ServerTyped
<1>6. \/ Later(cursor, t)
      \/ rows[t] # NoRow /\ ~rows[t].deleted /\ Same(server, t)
  BY <1>3, MarkFinds DEF SInv, Current, Answered
<1>7. local[t].deleted => Gone(t)
  BY <1>3, <1>5, CopyAssumption DEF SInv, Dated
<1> HIDE DEF book, failed, server
<1>8. /\ c \in Conflict /\ c.tx = t
      /\ c.local.deleted = local[t].deleted /\ c.server.deleted = local[t].deleted
      /\ c.server.revision = server.revision /\ c.server.by = server.by
      /\ c.server.paid = server.paid
  <2>1. outbox[i].base + 1 \in Nat \ {0} /\ outbox[i].op \in OpId
    BY MarkFinds
  <2>2. Merged(outbox[i].base + 1, outbox[i].op, TRUE) \in Copy
        /\ Merged(outbox[i].base + 1, outbox[i].op, TRUE).deleted = local[t].deleted
    BY <1>5, <2>1 DEF Copy
  <2>3. /\ Merged(server.revision, server.by, server.paid) \in Copy
        /\ Merged(server.revision, server.by, server.paid).deleted = local[t].deleted
        /\ Merged(server.revision, server.by, server.paid).revision = server.revision
        /\ Merged(server.revision, server.by, server.paid).by = server.by
        /\ Merged(server.revision, server.by, server.paid).paid = server.paid
    BY <1>5 DEF Copy
  <2> HIDE DEF Merged
  <2> QED BY <1>3, <2>2, <2>3 DEF Conflict
<1> HIDE DEF c, t
<1>9. Later(cursor, c.tx) \/ Shows(c.server, c.tx)
  <2> SUFFICES ASSUME ~Later(cursor, t) PROVE Shows(c.server, t)
    BY <1>8
  <2>1. ~local[t].deleted
    BY <1>6, <1>7 DEF Gone
  <2>2. c.server.deleted = FALSE /\ rows[t].deleted = FALSE
    <3>1. local[t].deleted \in BOOLEAN
      BY <1>5 DEF Copy
    <3>2. rows[t].deleted \in BOOLEAN
      BY <1>3, <1>6, AuthorIs DEF SInv, Typed, Row
    <3> QED BY <1>6, <1>8, <2>1, <3>1, <3>2
  <2> QED BY <1>6, <1>8, <2>2 DEF Shows, Same
<1>10. Tracked(outbox', conflicts')
  <2>1. Tracked(book, conflicts \cup {c})
    BY <1>2, <1>8, MarkFinds, ConflictTrackedNow DEF SInv, Queued, t
  <2> QED BY <1>1, <2>1
<1>11. Marked(outbox, outbox', i, "conflict", failed, TRUE)
  BY <1>1, <1>2
<1>12. /\ local' \in [Txn -> Copy \cup {NoRow}]
       /\ \A u \in Txn : /\ local'[u] = NoRow <=> local[u] = NoRow
                         /\ local[u] # NoRow => local'[u].deleted = local[u].deleted
  BY <1>1, <1>3, <1>5, MarkFinds, Unpaid
<1>13. syncState' \in [Txn -> SyncState]
  BY <1>1, MarkFinds DEF SyncState
<1>14. /\ conflicts' \subseteq Conflict
       /\ \A d \in conflicts' : /\ d.local.deleted \/ d.server.deleted => Gone(d.tx)
                                /\ Later(cursor, d.tx) \/ Shows(d.server, d.tx)
  BY <1>1, <1>7, <1>8, <1>9, MarkFinds
<1>15. /\ sync' = IF sync.todo = {i} THEN Idle ELSE [sync EXCEPT !.todo = @ \ {i}]
       /\ UNCHANGED <<ledgerVars, history, draft, log, answers, sent, cursor, restored>>
  BY <1>1 DEF MarksAt
<1> QED BY <1>4, <1>10, <1>11, <1>12, <1>13, <1>14, <1>15, MarksKeep

LEMMA MarkKeeps ==
    ASSUME SInv, MarkNext
    PROVE  SInv'
<1>1. PICK i \in sync.todo : Mark(i, sync.outcome[i]) /\ MarksAt(i)
  BY DEF MarkNext, MarksAt
<1>2. sync.pc = "marking"
  BY DEF MarkNext
<1>3. CASE sync.outcome[i] = "applied"
  BY <1>1, <1>2, <1>3, AppliedKeeps DEF Mark
<1>4. CASE sync.outcome[i] = "REVISION_CONFLICT"
  BY <1>1, <1>2, <1>4, ConflictKeeps DEF Mark
<1>5. CASE sync.outcome[i] \notin {"applied", "REVISION_CONFLICT"}
  BY <1>1, <1>2, <1>5, RejectedKeeps DEF Mark
<1> QED BY <1>3, <1>4, <1>5

-----------------------------------------------------------------------------
(***************************************************************************)
(* A page is installed, one change after another.                          *)
(***************************************************************************)
(* The device after the first k changes of the page. *)
Installing(k, dev) ==
    /\ dev.local \in [Txn -> Copy \cup {NoRow}]
    /\ dev.syncState \in [Txn -> SyncState]
    /\ dev.history \subseteq history
    /\ Eased(outbox, dev.outbox) /\ Tracked(dev.outbox, dev.conflicts)
    /\ dev.conflicts \subseteq Conflict
    /\ \A t \in Txn : /\ local[t] # NoRow => dev.local[t] # NoRow
                      /\ dev.local[t] # NoRow /\ dev.local[t].deleted => Gone(t)
    /\ \A c \in dev.conflicts : c.local.deleted \/ c.server.deleted => Gone(c.tx)
    /\ Offered(dev.conflicts, cursor + k)

(* What is known of a change of the page. *)
LEMMA ChangeIs ==
    ASSUME SInv, sync.pc = "paged"
    PROVE  /\ sync.page \in Seq(PageItem) /\ Len(sync.page) \in Nat
           /\ DOMAIN sync.page = 1 .. Len(sync.page)
           /\ cursor \in Nat /\ Len(log) \in Nat /\ cursor + Len(sync.page) <= Len(log)
           /\ \A k \in 1 .. Len(sync.page) :
                 LET c == sync.page[k]
                 IN /\ c.tx \in Txn /\ c.tombstone \in BOOLEAN /\ c.tx = log[cursor + k].tx
                    /\ cursor + k \in DOMAIN log
                    /\ c.tombstone => Gone(c.tx)
                    /\ ~c.tombstone =>
                          /\ c.row \in Copy
                          /\ c.row.deleted => Gone(c.tx)
                          /\ Later(cursor + Len(sync.page), c.tx) \/ Shows(c.row, c.tx)
<1>0. ServerTyped /\ RunTyped /\ Paged /\ Dated
  BY DEF SInv, Typed, Current
<1>1. sync.page \in Seq(PageItem)
  BY <1>0 DEF RunTyped, SyncTypeOK, Idle
<1>2. Len(sync.page) \in Nat /\ DOMAIN sync.page = 1 .. Len(sync.page)
      /\ \A k \in 1 .. Len(sync.page) : sync.page[k] \in PageItem
  BY <1>1, SeqIs
<1>3. cursor \in Nat /\ Len(log) \in Nat /\ cursor \in 0 .. Len(log) /\ DOMAIN log = 1 .. Len(log)
  BY <1>0, LogIs DEF RunTyped
<1>4. cursor + Len(sync.page) <= Len(log)
  BY <1>0 DEF Paged
<1>5. ASSUME NEW k \in 1 .. Len(sync.page)
      PROVE  LET c == sync.page[k]
             IN /\ c.tx \in Txn /\ c.tombstone \in BOOLEAN /\ c.tx = log[cursor + k].tx
                /\ cursor + k \in DOMAIN log
                /\ c.tombstone => Gone(c.tx)
                /\ ~c.tombstone =>
                      /\ c.row \in Copy
                      /\ c.row.deleted => Gone(c.tx)
                      /\ Later(cursor + Len(sync.page), c.tx) \/ Shows(c.row, c.tx)
  <2>1. cursor + k \in DOMAIN log
    BY <1>2, <1>3, <1>4
  <2>2. sync.page[k].tx \in Txn /\ sync.page[k].tombstone \in BOOLEAN
    BY <1>2 DEF PageItem
  <2>3. /\ sync.page[k].tx = log[cursor + k].tx /\ sync.page[k].tombstone = log[cursor + k].tombstone
        /\ ~sync.page[k].tombstone =>
              /\ sync.page[k].row \in Copy
              /\ sync.page[k].row.deleted => Gone(sync.page[k].tx)
              /\ Later(cursor + Len(sync.page), sync.page[k].tx) \/ Shows(sync.page[k].row, sync.page[k].tx)
    BY <1>0, <1>2 DEF Paged
  <2>4. sync.page[k].tombstone => Gone(sync.page[k].tx)
    BY <1>0, <2>1, <2>3 DEF Dated
  <2> QED BY <2>1, <2>2, <2>3, <2>4
<1> QED BY <1>1, <1>2, <1>3, <1>4, <1>5

(* The rejected operations of t, and no others, are over. *)
LEMMA UnblockedIs ==
    ASSUME NEW book, NEW next, Eased(book, next), NEW t
    PROVE  /\ Eased(book, Unblocked(next, t))
           /\ DOMAIN Unblocked(next, t) = DOMAIN next
           /\ \A i \in DOMAIN next :
                 /\ Unblocked(next, t)[i].tx = next[i].tx
                 /\ Unblocked(next, t)[i].state = "conflict" <=> next[i].state = "conflict"
                 /\ next[i].tx # t => Unblocked(next, t)[i] = next[i]
                 /\ next[i].tx = t => Unblocked(next, t)[i].state # "rejected"
<1> DEFINE P == {i \in DOMAIN next : next[i].tx = t /\ next[i].state \in {"rejected"}}
<1>0. Unblocked(next, t) = Moved(next, P, "resolved") /\ next \in Seq(Operation)
  BY DEF Unblocked, MovedFrom, Eased
<1>1. "resolved" \in OpState
  BY DEF OpState
<1>2. /\ \A i \in P : i \in DOMAIN next /\ next[i].state = "rejected"
      /\ \A i \in DOMAIN next : i \in P <=> next[i].tx = t /\ next[i].state = "rejected"
  OBVIOUS
<1> HIDE DEF P
<1> DEFINE then == Moved(next, P, "resolved")
<1>3. /\ then \in Seq(Operation) /\ DOMAIN then = DOMAIN next
      /\ \A i \in DOMAIN next :
            /\ i \notin P => then[i] = next[i]
            /\ i \in P => /\ Like(next[i], then[i]) /\ then[i].state = "resolved"
                          /\ then[i].failed = next[i].failed
  BY <1>0, <1>1, MovedIs
<1> HIDE DEF then
<1>4. \A i \in DOMAIN next :
         /\ then[i].tx = next[i].tx
         /\ then[i].state = "conflict" <=> next[i].state = "conflict"
         /\ next[i].tx # t => then[i] = next[i]
         /\ next[i].tx = t => then[i].state # "rejected"
  BY <1>2, <1>3 DEF Like
<1>5. Eased(book, then)
  <2>1. DOMAIN next = DOMAIN book
    BY DEF Eased
  <2>2. ASSUME NEW i \in DOMAIN book
        PROVE  \/ then[i] = book[i]
               \/ /\ book[i].state \in {"conflict", "rejected"}
                  /\ Like(book[i], then[i])
                  /\ then[i].state = "resolved" /\ then[i].failed = book[i].failed
    <3>1. CASE i \in P
      <4>1. next[i] = book[i]
        BY <1>2, <2>2, <3>1 DEF Eased
      <4> QED BY <1>2, <1>3, <3>1, <4>1
    <3>2. CASE i \notin P
      BY <1>3, <2>1, <3>2 DEF Eased
    <3> QED BY <3>1, <3>2
  <2> QED BY <1>3, <2>1, <2>2 DEF Eased
<1> QED BY <1>0, <1>3, <1>4, <1>5 DEF then

LEMMA RefreshedTracked ==
    ASSUME NEW book, NEW table, Tracked(book, table), NEW change
    PROVE  Tracked(book, Refreshed(table, change))
<1> DEFINE F(c) == IF c.tx # change.tx THEN c
                   ELSE [c EXCEPT !.server = IF change.tombstone
                                             THEN [@ EXCEPT !.deleted = TRUE]
                                             ELSE change.row]
<1>1. Refreshed(table, change) = {F(c) : c \in table}
  BY DEF Refreshed
<1>2. \A c : F(c).tx = c.tx
  OBVIOUS
<1> HIDE DEF F
<1>3. Tracked(book, {F(c) : c \in table})
  BY <1>2 DEF Tracked
<1> QED BY <1>1, <1>3

LEMMA InstalledGood ==
    ASSUME SInv, sync.pc = "paged", NEW k \in Nat, k + 1 \in 1 .. Len(sync.page),
           NEW dev, Installing(k, dev)
    PROVE  Installing(k + 1, Installed(dev, sync.page[k + 1]))
<1>1. PICK change : change = sync.page[k + 1]
  OBVIOUS
<1>2. /\ change.tx \in Txn /\ change.tombstone \in BOOLEAN /\ change.tx = log[cursor + (k + 1)].tx
      /\ change.tombstone => Gone(change.tx)
      /\ ~change.tombstone =>
            /\ change.row \in Copy
            /\ change.row.deleted => Gone(change.tx)
            /\ Later(cursor + Len(sync.page), change.tx) \/ Shows(change.row, change.tx)
  BY <1>1, ChangeIs
<1>3. cursor \in Nat /\ Len(sync.page) \in Nat /\ \A n \in DOMAIN log : n \in Nat
  BY ChangeIs, LogIs DEF SInv, Typed
<1> DEFINE t == change.tx
           next == Installed(dev, change)
           book == Unblocked(dev.outbox, t)
           table == Refreshed(dev.conflicts, change)
           copies == Replaced(dev, change)
<1>4. /\ next.local = copies /\ next.outbox = book /\ next.conflicts = table
      /\ next.history \subseteq dev.history
      /\ \/ next.syncState = dev.syncState
         \/ next.syncState = [dev.syncState EXCEPT ![t] = Recomputed(book, t)]
  BY DEF Installed
<1> HIDE DEF next
<1>5. /\ dev.local \in [Txn -> Copy \cup {NoRow}] /\ dev.syncState \in [Txn -> SyncState]
      /\ dev.conflicts \subseteq Conflict /\ dev.history \subseteq history
      /\ Eased(outbox, dev.outbox) /\ Tracked(dev.outbox, dev.conflicts)
      /\ \A u \in Txn : /\ local[u] # NoRow => dev.local[u] # NoRow
                        /\ dev.local[u] # NoRow /\ dev.local[u].deleted => Gone(u)
      /\ \A c \in dev.conflicts : c.local.deleted \/ c.server.deleted => Gone(c.tx)
      /\ Offered(dev.conflicts, cursor + k)
  BY DEF Installing
<1>6. /\ copies \in [Txn -> Copy \cup {NoRow}]
      /\ \A u \in Txn : /\ dev.local[u] # NoRow => copies[u] # NoRow
                        /\ copies[u] # NoRow /\ copies[u].deleted => Gone(u)
  <2> DEFINE copy == IF ~change.tombstone THEN change.row
                     ELSE IF dev.local[t] = NoRow THEN NoRow
                     ELSE [dev.local[t] EXCEPT !.deleted = TRUE]
  <2>1. copies = [dev.local EXCEPT ![t] = copy]
    BY DEF Replaced
  <2>2. /\ copy \in Copy \cup {NoRow}
        /\ dev.local[t] # NoRow => copy # NoRow
        /\ copy # NoRow /\ copy.deleted => Gone(t)
    <3>1. CASE ~change.tombstone
      BY <1>2, <3>1, CopyAssumption
    <3>2. CASE change.tombstone /\ dev.local[t] = NoRow
      BY <3>2
    <3>3. CASE change.tombstone /\ dev.local[t] # NoRow
      <4>1. dev.local[t] \in Copy
        BY <1>2, <1>5, <3>3
      <4>2. [dev.local[t] EXCEPT !.deleted = TRUE] \in Copy
        BY <4>1 DEF Copy
      <4> QED BY <1>2, <3>3, <4>2, CopyAssumption
    <3> HIDE DEF copy
    <3> QED BY <3>1, <3>2, <3>3
  <2> HIDE DEF copy, copies
  <2> QED BY <1>2, <1>5, <2>1, <2>2
<1>7. next.syncState \in [Txn -> SyncState]
  <2>1. Recomputed(book, t) \in SyncState
    BY DEF Recomputed, SyncState
  <2> HIDE DEF book
  <2> QED BY <1>4, <1>5, <2>1
<1>8. Eased(outbox, book) /\ Tracked(book, table)
  <2>1. Eased(outbox, book)
    BY <1>5, UnblockedIs
  <2>2. Tracked(book, dev.conflicts)
    BY <1>5, UnblockedIs, SameTracked
  <2> QED BY <2>1, <2>2, RefreshedTracked
<1>9. ASSUME NEW c \in table
      PROVE  /\ c \in Conflict
             /\ c.local.deleted \/ c.server.deleted => Gone(c.tx)
             /\ Later(cursor + (k + 1), c.tx) \/ Shows(c.server, c.tx)
  <2>1. PICK d \in dev.conflicts :
           c = IF d.tx # t THEN d
               ELSE [d EXCEPT !.server = IF change.tombstone
                                         THEN [@ EXCEPT !.deleted = TRUE]
                                         ELSE change.row]
    BY DEF Refreshed
  <2>2. /\ d \in Conflict
        /\ d.local.deleted \/ d.server.deleted => Gone(d.tx)
        /\ Later(cursor + k, d.tx) \/ Shows(d.server, d.tx)
    BY <1>5 DEF Offered
  <2>3. CASE d.tx # t
    <3>1. Later(cursor + k, d.tx) => Later(cursor + (k + 1), d.tx)
      BY <1>2, <1>3, <2>3 DEF Later
    <3> QED BY <2>1, <2>2, <2>3, <3>1
  <2>4. CASE d.tx = t /\ change.tombstone
    <3>1. d.server \in Copy /\ c = [d EXCEPT !.server = [d.server EXCEPT !.deleted = TRUE]]
      BY <2>1, <2>2, <2>4 DEF Conflict
    <3>2. [d.server EXCEPT !.deleted = TRUE] \in Copy /\ [d.server EXCEPT !.deleted = TRUE].deleted
      BY <3>1 DEF Copy
    <3>3. c \in Conflict /\ c.tx = t /\ c.server.deleted = TRUE
      BY <2>2, <2>4, <3>1, <3>2 DEF Conflict
    <3>4. Gone(t) /\ rows[t] # NoRow /\ rows[t].deleted = TRUE
      <4>1. rows[t] \in Row \cup {NoRow}
        BY <1>2 DEF SInv, Typed, ServerTyped, LedgerTypeOK
      <4> QED BY <1>2, <2>4, <4>1 DEF Gone, Row
    <3> QED BY <3>3, <3>4 DEF Shows
  <2>5. CASE d.tx = t /\ ~change.tombstone
    <3>1. c = [d EXCEPT !.server = change.row] /\ change.row \in Copy
      BY <1>2, <2>1, <2>5
    <3>2. c \in Conflict /\ c.tx = t /\ c.server = change.row /\ c.local = d.local
      BY <2>2, <2>5, <3>1 DEF Conflict
    <3>3. Later(cursor + Len(sync.page), t) => Later(cursor + (k + 1), t)
      BY <1>3 DEF Later
    <3> QED BY <1>2, <2>2, <2>5, <3>2, <3>3
  <2> QED BY <2>3, <2>4, <2>5
<1> HIDE DEF book, table, copies
<1>10. Offered(table, cursor + (k + 1))
  BY <1>9 DEF Offered
<1>11. /\ next.history \subseteq history /\ next.conflicts \subseteq Conflict
       /\ \A c \in next.conflicts : c.local.deleted \/ c.server.deleted => Gone(c.tx)
  BY <1>4, <1>5, <1>9
<1>12. \A u \in Txn : /\ local[u] # NoRow => next.local[u] # NoRow
                      /\ next.local[u] # NoRow /\ next.local[u].deleted => Gone(u)
  <2>1. next.local = copies
    BY <1>4
  <2>2. \A u \in Txn : /\ local[u] # NoRow => copies[u] # NoRow
                       /\ copies[u] # NoRow /\ copies[u].deleted => Gone(u)
    <3> TAKE u \in Txn
    <3>1. local[u] # NoRow => dev.local[u] # NoRow
      BY <1>5
    <3> QED BY <1>6, <3>1
  <2> QED BY <2>1, <2>2
<1>13. Installing(k + 1, next)
  BY <1>4, <1>6, <1>7, <1>8, <1>10, <1>11, <1>12 DEF Installing
<1> QED BY <1>1, <1>13 DEF next

(* The device before the page, after each of its changes, and after all.   *)
LEMMA PageSteps ==
    ASSUME SInv, sync.pc = "paged"
    PROVE  \E after :
              /\ after[0] = Device
              /\ \A k \in Nat : k + 1 \in 1 .. Len(sync.page)
                                => after[k + 1] = Installed(after[k], sync.page[k + 1])
              /\ FoldLeft(Installed, Device, sync.page) = after[Len(sync.page)]
<1> DEFINE L == Len(sync.page)
<1>0. L \in Nat /\ DOMAIN sync.page = 1 .. L
  BY ChangeIs
<1>1. PICK g : Folding(g, sync.page, L) /\ FoldLeft(Installed, Device, sync.page) = g[1 .. L]
  BY <1>0, PageFolded
<1> HIDE DEF L
<1>2. g[{}] = Device
  <2>1. {} \in SUBSET (1 .. L)
    OBVIOUS
  <2> QED BY <1>1, <2>1 DEF Folding
<1>3. \A k \in Nat : k + 1 \in 1 .. L => g[1 .. k + 1] = Installed(g[1 .. k], sync.page[k + 1])
  <2> SUFFICES ASSUME NEW k \in Nat, k + 1 \in 1 .. L
               PROVE  g[1 .. k + 1] = Installed(g[1 .. k], sync.page[k + 1])
    OBVIOUS
  <2> DEFINE s == 1 .. k + 1
  <2>0. k + 1 \in Nat /\ k + 1 <= L /\ k + 1 \in s
    BY <1>0
  <2>1. s \in SUBSET (1 .. L) /\ s # {} /\ s \in SUBSET (1 .. k + 1)
    <3>1. ASSUME NEW x \in s PROVE x \in 1 .. L
      BY <1>0, <2>0
    <3> QED BY <2>0, <3>1
  <2>2. Max(s) \in s /\ \A y \in s : Max(s) >= y
    BY <2>0, <2>1, LargestIs
  <2>3. Max(s) = k + 1
    BY <2>0, <2>2
  <2>4. s \ {k + 1} = 1 .. k
    OBVIOUS
  <2> HIDE DEF s
  <2>5. g[s] = IF s = {} THEN Device ELSE Installed(g[s \ {Max(s)}], sync.page[Max(s)])
    BY <1>1, <2>1 DEF Folding
  <2> QED BY <2>1, <2>3, <2>4, <2>5 DEF s
<1> DEFINE after == [k \in Nat |-> g[1 .. k]]
<1>4. after[0] = Device /\ after[L] = g[1 .. L]
  <2>1. 1 .. 0 = {}
    OBVIOUS
  <2> QED BY <1>0, <1>2, <2>1
<1>5. \A k \in Nat : k + 1 \in 1 .. L => after[k + 1] = Installed(after[k], sync.page[k + 1])
  BY <1>3
<1> HIDE DEF after
<1> QED BY <1>1, <1>4, <1>5 DEF L

LEMMA PageInstalled ==
    ASSUME SInv, sync.pc = "paged", NEW after, after[0] = Device,
           \A k \in Nat : k + 1 \in 1 .. Len(sync.page)
                         => after[k + 1] = Installed(after[k], sync.page[k + 1])
    PROVE  \A k \in 0 .. Len(sync.page) : Installing(k, after[k])
<1>1. Installing(0, Device)
  <2>0. DeviceTyped /\ RunTyped /\ Dated /\ Current /\ Tracked(outbox, conflicts)
    BY DEF SInv, Typed
  <2>1. /\ Device.local = local /\ Device.syncState = syncState /\ Device.history = history
        /\ Device.outbox = outbox /\ Device.conflicts = conflicts
    BY DEF Device
  <2>2. Eased(outbox, outbox)
    BY <2>0, DeviceNames DEF Eased
  <2>3. Offered(conflicts, cursor + 0)
    BY <2>0 DEF Current, RunTyped
  <2> HIDE DEF Device
  <2> QED BY <2>0, <2>1, <2>2, <2>3 DEF Installing, DeviceTyped, OutboxTypeOK, Dated
<1> DEFINE L == Len(sync.page)
           S == {k \in Nat : k <= L => Installing(k, after[k])}
<1>2. L \in Nat
  BY ChangeIs
<1>3. ASSUME NEW k \in S PROVE k + 1 \in S
  <2>1. CASE k + 1 <= L
    <3>1. k \in Nat /\ k <= L /\ k + 1 \in 1 .. L
      BY <1>2, <2>1
    <3>2. Installing(k, after[k])
      BY <3>1
    <3>3. Installing(k + 1, Installed(after[k], sync.page[k + 1]))
      BY <3>1, <3>2, InstalledGood
    <3> QED BY <3>1, <3>3
  <2>2. CASE ~(k + 1 <= L)
    BY <2>2
  <2> QED BY <2>1, <2>2
<1>4. 0 \in S
  BY <1>1
<1>5. \A k \in Nat : k \in S
  <2> HIDE DEF S
  <2>1. S \in SUBSET Nat
    BY DEF S
  <2> QED BY <1>3, <1>4, <2>1, CountingUp
<1> QED BY <1>2, <1>5

LEMMA InstallKeeps ==
    ASSUME SInv, InstallPage
    PROVE  SInv'
<1> DEFINE page == sync.page
           end == cursor + Len(page)
<1>0. /\ ServerTyped /\ DeviceTyped /\ RunTyped /\ Dated /\ Orderly(outbox, sent, results)
      /\ Carried(sync, outbox, sent, results) /\ sync.pc = "paged"
  BY DEF SInv, Typed, Queued, InstallPage
<1>1. PICK dev : dev = FoldLeft(Installed, Device, page)
  OBVIOUS
<1>2. Installing(Len(page), dev)
  <2>1. PICK after :
           /\ after[0] = Device
           /\ \A k \in Nat : k + 1 \in 1 .. Len(sync.page)
                             => after[k + 1] = Installed(after[k], sync.page[k + 1])
           /\ FoldLeft(Installed, Device, sync.page) = after[Len(sync.page)]
    BY <1>0, PageSteps
  <2>2. \A k \in 0 .. Len(sync.page) : Installing(k, after[k])
    BY <1>0, <2>1, PageInstalled
  <2>3. Len(sync.page) \in 0 .. Len(sync.page)
    BY <1>0, ChangeIs
  <2> QED BY <1>1, <2>1, <2>2, <2>3
<1>3. /\ local' = dev.local /\ syncState' = dev.syncState /\ history' = dev.history
      /\ outbox' = dev.outbox /\ conflicts' = dev.conflicts /\ draft' = draft
      /\ cursor' = end
      /\ restored' \subseteq restored
      /\ sync' = IF sync.more THEN [pc |-> "pulling"] ELSE Idle
      /\ UNCHANGED <<ledgerVars, log, answers, sent>>
      /\ UNCHANGED <<rows, revisions, results>>
  BY <1>1 DEF InstallPage, InstallChanges, CursorAfter, ledgerVars
<1>4. /\ page \in Seq(PageItem) /\ Len(page) \in Nat /\ cursor \in Nat /\ Len(log) \in Nat /\ end <= Len(log)
  BY <1>0, ChangeIs
<1> HIDE DEF page
<1>5. /\ dev.local \in [Txn -> Copy \cup {NoRow}] /\ dev.syncState \in [Txn -> SyncState]
      /\ dev.history \subseteq history /\ dev.conflicts \subseteq Conflict
      /\ Eased(outbox, dev.outbox) /\ Tracked(dev.outbox, dev.conflicts)
      /\ \A t \in Txn : /\ local[t] # NoRow => dev.local[t] # NoRow
                        /\ dev.local[t] # NoRow /\ dev.local[t].deleted => Gone(t)
      /\ \A c \in dev.conflicts : c.local.deleted \/ c.server.deleted => Gone(c.tx)
      /\ Offered(dev.conflicts, end)
  BY <1>2 DEF Installing
<1>6. dev.outbox \in Seq(Operation) /\ DOMAIN dev.outbox = DOMAIN outbox
      /\ \A i \in DOMAIN outbox : /\ dev.outbox[i].tx = outbox[i].tx /\ dev.outbox[i].kind = outbox[i].kind
                                  /\ dev.outbox[i].base = outbox[i].base
  BY <1>5 DEF Eased, Like
<1>7. Orderly(dev.outbox, sent, results) /\ Carried(sync, dev.outbox, sent, results)
  BY <1>0, <1>5, EasedOrderly, EasedCarried
<1>8. \A i \in DOMAIN dev.outbox : dev.outbox[i].op \in sent => dev.outbox[i].state # "pending"
  BY <1>0, <1>7 DEF Carried
<1>9. sync' = Idle \/ sync' = [pc |-> "pulling"]
  BY <1>3
<1>10. sync'.pc \in {"idle", "pulling"} /\ sync' \in {Idle, [pc |-> "pulling"]}
  BY <1>9 DEF Idle
<1>11. ServerTyped'
  BY <1>0, <1>3 DEF ServerTyped, LedgerTypeOK, RevisionChain, SeenRevision, InConflict
<1>12. DeviceTyped'
  <2>1. OutboxTypeOK'
    <3>1. /\ dev.history \subseteq Snapshot
          /\ draft = NoDraft \/ draft \in [open : {TRUE}, tx : Txn, before : Copy]
      BY <1>0, <1>5 DEF DeviceTyped, OutboxTypeOK
    <3> QED BY <1>3, <1>5, <1>6, <3>1 DEF OutboxTypeOK
  <2>2. \A i \in DOMAIN outbox : /\ dev.local[outbox[i].tx] # NoRow
                                 /\ outbox[i].kind = "correct" => outbox[i].base # 0
    BY <1>0, <1>5, DeviceNames DEF DeviceTyped
  <2>3. draft # NoDraft => dev.local[draft.tx] # NoRow
    BY <1>0, <1>5, DeviceNames DEF DeviceTyped
  <2>4. \A h \in dev.history : h.before = NoRow => h.revision = 1
    BY <1>0, <1>5 DEF DeviceTyped
  <2> QED BY <1>3, <1>6, <2>1, <2>2, <2>3, <2>4 DEF DeviceTyped
<1>13. RunTyped'
  <2>1. cursor' \in 0 .. Len(log')
    BY <1>3, <1>4
  <2> QED BY <1>0, <1>3, <1>10, <2>1 DEF RunTyped, SyncTypeOK, SyncShape
<1>14. Queued'
  <2>1. Carried(sync', dev.outbox, sent, results)
    BY <1>8, <1>10 DEF Carried
  <2> QED BY <1>3, <1>7, <2>1 DEF Queued
<1>15. Tracked(outbox, conflicts)'
  BY <1>3, <1>5 DEF Tracked
<1>16. Dated'
  <2>1. (\A t \in Txn : local[t] # NoRow /\ local[t].deleted => Gone(t))'
    BY <1>3, <1>5 DEF Gone
  <2>2. (\A h \in history : h.before # NoRow /\ h.before.deleted => Gone(h.tx))'
    BY <1>0, <1>3, <1>5 DEF Gone, Dated
  <2>3. (\A c \in conflicts : c.local.deleted \/ c.server.deleted => Gone(c.tx))'
    BY <1>3, <1>5 DEF Gone
  <2>4. /\ draft' # NoDraft => ~draft'.before.deleted
        /\ (\A n \in DOMAIN log : log[n].tombstone => Gone(log[n].tx))'
    BY <1>0, <1>3 DEF Gone, Dated
  <2> QED BY <2>1, <2>2, <2>3, <2>4 DEF Dated
<1>17. Current'
  <2>1. Offered(conflicts, cursor)'
    <3>1. PICK table, from : table = dev.conflicts /\ from = end
      OBVIOUS
    <3>2. \A copy, t : Shows(copy, t) => Shows(copy, t)'
      BY <1>3 DEF Shows, Same, ServerCopy, Author
    <3>3. \A t : Later(from, t) => Later(from, t)'
      BY <1>3 DEF Later
    <3>4. Offered(table, from)'
      BY <1>5, <3>1, <3>2, <3>3 DEF Offered
    <3> QED BY <1>3, <3>1, <3>4 DEF Offered, Later
  <2>2. Answered'
    BY <1>3, <1>8 DEF Answered
  <2>3. Paged'
    BY <1>10 DEF Paged
  <2> QED BY <2>1, <2>2, <2>3 DEF Current
<1> QED BY <1>11, <1>12, <1>13, <1>14, <1>15, <1>16, <1>17 DEF SInv, Typed

LEMMA RunKeeps ==
    ASSUME SInv, Run
    PROVE  SInv'
BY PushKeeps, ReceiveKeeps, MarkKeeps, StartPullKeeps, ServeKeeps, InstallKeeps DEF Run

-----------------------------------------------------------------------------
(***************************************************************************)
(* What the user does.                                                     *)
(***************************************************************************)
(* The user changes the device only, and sends nothing. *)
LEMMA UserMoves ==
    ASSUME SInv, UNCHANGED <<ledgerVars, log, answers, sent, cursor, sync>>, restored' \subseteq Txn,
           OutboxTypeOK', DOMAIN outbox \subseteq DOMAIN outbox',
           (\A i \in DOMAIN outbox : /\ local[outbox[i].tx] # NoRow
                                     /\ outbox[i].kind = "correct" => outbox[i].base # 0)',
           (draft # NoDraft => local[draft.tx] # NoRow /\ ~draft.before.deleted)',
           (\A h \in history : h.before = NoRow => h.revision = 1)',
           Orderly(outbox', sent, results), Carried(sync, outbox', sent, results),
           Tracked(outbox', conflicts'), conflicts' \subseteq conflicts,
           \A i \in DOMAIN outbox' : outbox'[i].op \in sent /\ outbox'[i].state = "pending" =>
              /\ i \in DOMAIN outbox /\ outbox[i].op = outbox'[i].op /\ outbox[i].tx = outbox'[i].tx
              /\ outbox[i].state = "pending",
           \A t \in Txn : local'[t] # NoRow /\ local'[t].deleted => Gone(t),
           \A h \in history' : h.before # NoRow /\ h.before.deleted => Gone(h.tx)
    PROVE  SInv'
<1>0. /\ ServerTyped /\ RunTyped /\ Dated /\ Current
      /\ UNCHANGED <<rows, revisions, results>>
  BY DEF SInv, Typed, ledgerVars
<1>1. ServerTyped'
  BY <1>0 DEF ServerTyped, LedgerTypeOK, RevisionChain, SeenRevision, InConflict
<1>2. DeviceTyped'
  BY DEF DeviceTyped
<1>3. RunTyped'
  <2>1. SyncTypeOK'
    BY <1>0 DEF RunTyped, SyncTypeOK
  <2> QED BY <1>0, <2>1 DEF RunTyped, SyncShape
<1>4. Queued'
  BY <1>0 DEF Queued
<1>5. Tracked(outbox, conflicts)'
  BY DEF Tracked
<1>6. Dated'
  BY <1>0 DEF Dated, Gone
<1>7. Current'
  <2>1. Offered(conflicts, cursor)'
    BY <1>0 DEF Current, Offered, Later, Shows, Same, ServerCopy, Author
  <2>2. Answered'
    BY <1>0 DEF Current, Answered, InConflict, Later, Same, ServerCopy, Author
  <2>3. Paged'
    BY <1>0, PagedStays DEF Current
  <2> QED BY <2>1, <2>2, <2>3 DEF Current
<1> QED BY <1>1, <1>2, <1>3, <1>4, <1>5, <1>6, <1>7 DEF SInv, Typed

(* What a step of the user finds. *)
LEMMA UserFinds ==
    ASSUME SInv
    PROVE  /\ outbox \in Seq(Operation) /\ Orderly(outbox, sent, results)
           /\ Carried(sync, outbox, sent, results) /\ Tracked(outbox, conflicts)
           /\ local \in [Txn -> Copy \cup {NoRow}] /\ syncState \in [Txn -> SyncState]
           /\ history \subseteq Snapshot /\ conflicts \subseteq Conflict /\ restored \subseteq Txn
           /\ draft = NoDraft \/ draft \in [open : {TRUE}, tx : Txn, before : Copy]
           /\ draft # NoDraft => local[draft.tx] # NoRow /\ ~draft.before.deleted
           /\ \A i \in DOMAIN outbox : /\ outbox[i].tx \in Txn /\ local[outbox[i].tx] # NoRow
                                       /\ outbox[i].kind = "correct" => outbox[i].base # 0
           /\ \A h \in history : /\ h.before = NoRow => h.revision = 1
                                 /\ h.before # NoRow /\ h.before.deleted => Gone(h.tx)
           /\ \A t \in Txn : local[t] # NoRow /\ local[t].deleted => Gone(t)
           /\ \A c \in conflicts : /\ c.tx \in Txn /\ c.local \in Copy /\ c.server \in Copy
                                   /\ c.local.deleted \/ c.server.deleted => Gone(c.tx)
<1>1. DeviceTyped /\ RunTyped /\ Dated
  BY DEF SInv, Typed
<1>2. Orderly(outbox, sent, results) /\ Carried(sync, outbox, sent, results) /\ Tracked(outbox, conflicts)
  BY DEF SInv, Queued
<1> QED BY <1>1, <1>2, DeviceNames DEF DeviceTyped, OutboxTypeOK, RunTyped, Dated

LEMMA CreateKeeps ==
    ASSUME SInv, NEW t \in Txn, NEW o \in OpId, NEW valid \in Payloads, Create(t, o, valid),
           UNCHANGED <<ledgerVars, systemVars>>
    PROVE  SInv'
<1> DEFINE m == NewOperation(o, t, "create", 0, valid, NoRow, TRUE)
           copy == [revision |-> 1, by |-> o, paid |-> TRUE, deleted |-> FALSE]
           entry == [tx |-> t, revision |-> 1, before |-> NoRow]
           book == Append(outbox, m)
           n == Len(outbox) + 1
<1>0. UNCHANGED <<ledgerVars, log, answers, sent, cursor, sync, restored>>
  BY DEF systemVars
<1>1. /\ local[t] = NoRow /\ Fresh(o)
      /\ local' = [local EXCEPT ![t] = copy] /\ syncState' = [syncState EXCEPT ![t] = "pending"]
      /\ history' = history \cup {entry} /\ outbox' = book /\ conflicts' = conflicts /\ draft' = draft
  BY DEF Create
<1>2. m \in Operation /\ m.op = o /\ m.tx = t /\ m.kind = "create" /\ m.state = "pending"
  BY SystemAssumption DEF NewOperation, Operation, OpState
<1>3. copy \in Copy /\ copy # NoRow /\ copy.deleted = FALSE
  <2>1. copy \in Copy
    BY DEF Copy
  <2> QED BY <2>1, CopyAssumption
<1>4. entry \in Snapshot /\ entry.before = NoRow /\ entry.revision = 1
  BY DEF Snapshot
<1> HIDE DEF m, copy, entry
<1>5. /\ book \in Seq(Operation) /\ DOMAIN book = DOMAIN outbox \cup {n} /\ book[n] = m
      /\ \A i \in DOMAIN outbox : book[i] = outbox[i]
  BY <1>2, UserFinds, AppendIs
<1>6. \A i \in DOMAIN outbox : outbox[i].op # m.op
  BY <1>1, <1>2 DEF Fresh
<1>7. m.op \notin sent
  BY <1>6, UserFinds DEF Orderly
<1>8. Orderly(book, sent, results) /\ Carried(sync, book, sent, results)
  BY <1>2, <1>6, UserFinds, AppendedOrderly
<1>9. Tracked(book, conflicts)
  BY <1>2, UserFinds, AppendedTracked
<1> HIDE DEF book
<1>10. OutboxTypeOK'
  <2>1. local' \in [Txn -> Copy \cup {NoRow}] /\ syncState' \in [Txn -> SyncState]
    BY <1>1, <1>3, UserFinds DEF SyncState
  <2> QED BY <1>1, <1>4, <1>5, <2>1, UserFinds DEF OutboxTypeOK
<1>11. \A u \in Txn : /\ local[u] # NoRow => local'[u] # NoRow
                      /\ local'[u] # NoRow /\ local'[u].deleted => Gone(u)
  BY <1>1, <1>3, UserFinds
<1>12. local'[t] # NoRow
  BY <1>1, <1>3, UserFinds
<1>13. (\A i \in DOMAIN outbox : /\ local[outbox[i].tx] # NoRow
                                 /\ outbox[i].kind = "correct" => outbox[i].base # 0)'
  BY <1>1, <1>2, <1>5, <1>11, <1>12, UserFinds
<1>14. (draft # NoDraft => local[draft.tx] # NoRow /\ ~draft.before.deleted)'
  BY <1>1, <1>11, UserFinds
<1>15. /\ \A h \in history' : h.before = NoRow => h.revision = 1
       /\ \A h \in history' : h.before # NoRow /\ h.before.deleted => Gone(h.tx)
  BY <1>1, <1>4, UserFinds
<1>16. \A i \in DOMAIN outbox' : outbox'[i].op \in sent /\ outbox'[i].state = "pending" =>
          /\ i \in DOMAIN outbox /\ outbox[i].op = outbox'[i].op /\ outbox[i].tx = outbox'[i].tx
          /\ outbox[i].state = "pending"
  BY <1>1, <1>5, <1>7
<1>17. /\ DOMAIN outbox \subseteq DOMAIN outbox' /\ restored' \subseteq Txn /\ conflicts' \subseteq conflicts
       /\ Orderly(outbox', sent, results) /\ Carried(sync, outbox', sent, results)
       /\ Tracked(outbox', conflicts')
  BY <1>0, <1>1, <1>5, <1>8, <1>9, UserFinds
<1> QED BY <1>0, <1>10, <1>11, <1>13, <1>14, <1>15, <1>16, <1>17, UserMoves

(* A step that leaves the queue and the conflicts alone. *)
LEMMA QueueStays ==
    ASSUME SInv, UNCHANGED <<outbox, conflicts, restored>>
    PROVE  /\ DOMAIN outbox \subseteq DOMAIN outbox' /\ restored' \subseteq Txn /\ conflicts' \subseteq conflicts
           /\ Orderly(outbox', sent, results) /\ Carried(sync, outbox', sent, results)
           /\ Tracked(outbox', conflicts')
           /\ \A i \in DOMAIN outbox' : outbox'[i].op \in sent /\ outbox'[i].state = "pending" =>
                 /\ i \in DOMAIN outbox /\ outbox[i].op = outbox'[i].op /\ outbox[i].tx = outbox'[i].tx
                 /\ outbox[i].state = "pending"
BY UserFinds

LEMMA DraftKeeps ==
    ASSUME SInv, \/ \E t \in Txn : BeginCorrection(t)
                 \/ FailCorrection,
           UNCHANGED <<ledgerVars, systemVars>>
    PROVE  SInv'
<1>0. /\ UNCHANGED <<ledgerVars, log, answers, sent, cursor, sync, restored>>
      /\ UNCHANGED <<local, syncState, history, outbox, conflicts>>
  BY DEF systemVars, BeginCorrection, FailCorrection
<1>1. /\ draft' = NoDraft \/ draft' \in [open : {TRUE}, tx : Txn, before : Copy]
      /\ draft' # NoDraft => local[draft'.tx] # NoRow /\ ~draft'.before.deleted
  <2>1. ASSUME NEW t \in Txn, BeginCorrection(t)
        PROVE  /\ draft' \in [open : {TRUE}, tx : Txn, before : Copy]
               /\ local[draft'.tx] # NoRow /\ ~draft'.before.deleted
    <3>1. /\ draft' = [open |-> TRUE, tx |-> t, before |-> local[t]]
          /\ local[t] # NoRow /\ ~local[t].deleted
      BY <2>1 DEF BeginCorrection
    <3>2. local[t] \in Copy
      BY <3>1, UserFinds
    <3> QED BY <3>1, <3>2
  <2>2. FailCorrection => draft' = NoDraft
    BY DEF FailCorrection
  <2> QED BY <2>1, <2>2
<1>2. OutboxTypeOK'
  BY <1>0, <1>1, UserFinds DEF OutboxTypeOK
<1>3. (\A i \in DOMAIN outbox : /\ local[outbox[i].tx] # NoRow
                                /\ outbox[i].kind = "correct" => outbox[i].base # 0)'
  BY <1>0, UserFinds
<1>4. (draft # NoDraft => local[draft.tx] # NoRow /\ ~draft.before.deleted)'
  BY <1>0, <1>1
<1>5. /\ \A h \in history' : h.before = NoRow => h.revision = 1
      /\ \A h \in history' : h.before # NoRow /\ h.before.deleted => Gone(h.tx)
      /\ \A t \in Txn : local'[t] # NoRow /\ local'[t].deleted => Gone(t)
  BY <1>0, UserFinds
<1> QED BY <1>0, <1>2, <1>3, <1>4, <1>5, QueueStays, UserMoves

LEMMA SaveKeeps ==
    ASSUME SInv, NEW o \in OpId, NEW valid \in Payloads, SaveCorrection(o, valid),
           UNCHANGED <<ledgerVars, systemVars>>
    PROVE  SInv'
<1> DEFINE t == draft.tx
           before == draft.before
           m == NewOperation(o, t, "correct", before.revision, valid, before,
                             local[t] = before /\ ~Blocked(t))
           copy == [revision |-> before.revision + 1, by |-> o, paid |-> TRUE,
                    deleted |-> local[t].deleted]
           entry == [tx |-> t, revision |-> before.revision + 1, before |-> before]
           book == Append(outbox, m)
           n == Len(outbox) + 1
<1>0. UNCHANGED <<ledgerVars, log, answers, sent, cursor, sync, restored>>
  BY DEF systemVars
<1>1. /\ draft # NoDraft /\ Fresh(o)
      /\ local' = [local EXCEPT ![t] = copy] /\ syncState' = [syncState EXCEPT ![t] = "pending"]
      /\ history' = history \cup {entry} /\ outbox' = book /\ conflicts' = conflicts /\ draft' = NoDraft
  BY DEF SaveCorrection
<1>2. /\ t \in Txn /\ before \in Copy /\ ~before.deleted /\ before # NoRow
      /\ local[t] \in Copy /\ local[t] # NoRow /\ (local[t].deleted => Gone(t))
      /\ before.revision \in Nat \ {0} /\ before.revision + 1 \in Nat \ {0} /\ local[t].deleted \in BOOLEAN
  <2>1. t \in Txn /\ before \in Copy /\ ~before.deleted /\ local[t] # NoRow
    BY <1>1, UserFinds
  <2>2. local[t] \in Copy /\ (local[t].deleted => Gone(t))
    BY <2>1, UserFinds
  <2>3. before.revision \in Nat \ {0} /\ before.revision + 1 \in Nat \ {0} /\ local[t].deleted \in BOOLEAN
    BY <2>1, <2>2 DEF Copy
  <2> QED BY <2>1, <2>2, <2>3, CopyAssumption
<1> HIDE DEF t, before
<1>3. m \in Operation /\ m.op = o /\ m.tx = t /\ m.kind = "correct" /\ m.state = "pending" /\ m.base # 0
  BY <1>2, SystemAssumption DEF NewOperation, Operation, OpState
<1>4. copy \in Copy /\ copy # NoRow /\ (copy.deleted => Gone(t))
  <2>1. copy \in Copy /\ copy.deleted = local[t].deleted
    BY <1>2 DEF Copy
  <2> QED BY <1>2, <2>1, CopyAssumption
<1>5. entry \in Snapshot /\ entry.before # NoRow /\ ~entry.before.deleted
  BY <1>2 DEF Snapshot
<1> HIDE DEF m, copy, entry
<1>6. /\ book \in Seq(Operation) /\ DOMAIN book = DOMAIN outbox \cup {n} /\ book[n] = m
      /\ \A i \in DOMAIN outbox : book[i] = outbox[i]
  BY <1>3, UserFinds, AppendIs
<1>7. \A i \in DOMAIN outbox : outbox[i].op # m.op
  BY <1>1, <1>3 DEF Fresh
<1>8. m.op \notin sent
  BY <1>7, UserFinds DEF Orderly
<1>9. Orderly(book, sent, results) /\ Carried(sync, book, sent, results)
  BY <1>3, <1>7, UserFinds, AppendedOrderly
<1>10. Tracked(book, conflicts)
  BY <1>3, UserFinds, AppendedTracked
<1> HIDE DEF book
<1>11. OutboxTypeOK'
  <2>1. local' \in [Txn -> Copy \cup {NoRow}] /\ syncState' \in [Txn -> SyncState]
    BY <1>1, <1>4, UserFinds DEF SyncState
  <2> QED BY <1>1, <1>5, <1>6, <2>1, UserFinds DEF OutboxTypeOK
<1>12. \A u \in Txn : /\ local[u] # NoRow => local'[u] # NoRow
                      /\ local'[u] # NoRow /\ local'[u].deleted => Gone(u)
  BY <1>1, <1>4, UserFinds
<1>13. local'[t] # NoRow
  BY <1>2, <1>12
<1>14. (\A i \in DOMAIN outbox : /\ local[outbox[i].tx] # NoRow
                                 /\ outbox[i].kind = "correct" => outbox[i].base # 0)'
  BY <1>1, <1>3, <1>6, <1>12, <1>13, UserFinds
<1>15. (draft # NoDraft => local[draft.tx] # NoRow /\ ~draft.before.deleted)'
  BY <1>1
<1>16. /\ \A h \in history' : h.before = NoRow => h.revision = 1
       /\ \A h \in history' : h.before # NoRow /\ h.before.deleted => Gone(h.tx)
  BY <1>1, <1>5, UserFinds
<1>17. \A i \in DOMAIN outbox' : outbox'[i].op \in sent /\ outbox'[i].state = "pending" =>
          /\ i \in DOMAIN outbox /\ outbox[i].op = outbox'[i].op /\ outbox[i].tx = outbox'[i].tx
          /\ outbox[i].state = "pending"
  BY <1>1, <1>6, <1>8
<1>18. /\ DOMAIN outbox \subseteq DOMAIN outbox' /\ restored' \subseteq Txn /\ conflicts' \subseteq conflicts
       /\ Orderly(outbox', sent, results) /\ Carried(sync, outbox', sent, results)
       /\ Tracked(outbox', conflicts')
  BY <1>0, <1>1, <1>6, <1>9, <1>10, UserFinds
<1> QED BY <1>0, <1>11, <1>12, <1>14, <1>15, <1>16, <1>17, <1>18, UserMoves

(* Conflicts or rejections of t are over. *)
LEMMA SettledIs ==
    ASSUME outbox \in Seq(Operation), NEW t, NEW from \in SUBSET {"conflict", "rejected"}
    PROVE  /\ Eased(outbox, MovedFrom(outbox, t, from, "resolved"))
           /\ \A i \in DOMAIN outbox :
                 MovedFrom(outbox, t, from, "resolved")[i].state = "conflict"
                 <=> outbox[i].state = "conflict" /\ ~(outbox[i].tx = t /\ "conflict" \in from)
           /\ \A i \in DOMAIN outbox :
                 /\ outbox[i].tx # t \/ outbox[i].state \notin from
                    => MovedFrom(outbox, t, from, "resolved")[i] = outbox[i]
                 /\ outbox[i].tx = t /\ outbox[i].state \in from
                    => MovedFrom(outbox, t, from, "resolved")[i].state = "resolved"
<1> DEFINE P == {i \in DOMAIN outbox : outbox[i].tx = t /\ outbox[i].state \in from}
           next == Moved(outbox, P, "resolved")
<1>1. MovedFrom(outbox, t, from, "resolved") = next
  BY DEF MovedFrom
<1>2. \A i \in DOMAIN outbox : i \in P <=> outbox[i].tx = t /\ outbox[i].state \in from
  OBVIOUS
<1> HIDE DEF P
<1>3. /\ next \in Seq(Operation) /\ DOMAIN next = DOMAIN outbox
      /\ \A i \in DOMAIN outbox :
            /\ i \notin P => next[i] = outbox[i]
            /\ i \in P => /\ Like(outbox[i], next[i]) /\ next[i].state = "resolved"
                          /\ next[i].failed = outbox[i].failed
  BY MovedIs DEF OpState
<1> HIDE DEF next
<1>4. Eased(outbox, next)
  BY <1>2, <1>3 DEF Eased
<1>5. \A i \in DOMAIN outbox :
         next[i].state = "conflict"
         <=> outbox[i].state = "conflict" /\ ~(outbox[i].tx = t /\ "conflict" \in from)
  BY <1>2, <1>3
<1>6. \A i \in DOMAIN outbox :
         /\ outbox[i].tx # t \/ outbox[i].state \notin from => next[i] = outbox[i]
         /\ outbox[i].tx = t /\ outbox[i].state \in from => next[i].state = "resolved"
  BY <1>2, <1>3
<1> QED BY <1>1, <1>4, <1>5, <1>6

LEMMA EasedStays ==
    ASSUME SInv, NEW next, Eased(outbox, next)
    PROVE  /\ next \in Seq(Operation) /\ DOMAIN next = DOMAIN outbox
           /\ Orderly(next, sent, results) /\ Carried(sync, next, sent, results)
           /\ \A i \in DOMAIN outbox :
                 /\ next[i].op = outbox[i].op /\ next[i].tx = outbox[i].tx
                 /\ next[i].kind = outbox[i].kind /\ next[i].base = outbox[i].base
                 /\ next[i].state = "pending" => outbox[i].state = "pending"
<1>1. Orderly(next, sent, results) /\ Carried(sync, next, sent, results)
  BY UserFinds, EasedOrderly, EasedCarried
<1> QED BY <1>1 DEF Eased, Like

LEMMA ServerChosenKeeps ==
    ASSUME SInv, NEW c \in conflicts, ResolveWithServer(c), UNCHANGED <<ledgerVars, systemVars>>
    PROVE  SInv'
<1> DEFINE book == Settled(c.tx)
<1>0. UNCHANGED <<ledgerVars, log, answers, sent, cursor, sync, restored>>
  BY DEF systemVars
<1>1. /\ local' = [local EXCEPT ![c.tx] = c.server] /\ syncState' = [syncState EXCEPT ![c.tx] = "synced"]
      /\ history' \subseteq history /\ outbox' = book /\ conflicts' = conflicts \ {c} /\ draft' = draft
  BY DEF ResolveWithServer, Forgotten
<1>2. c.tx \in Txn /\ c.server \in Copy /\ c.server # NoRow /\ (c.server.deleted => Gone(c.tx))
  BY UserFinds, CopyAssumption
<1>3. /\ Eased(outbox, book)
      /\ \A i \in DOMAIN outbox :
            book[i].state = "conflict" <=> outbox[i].state = "conflict" /\ outbox[i].tx # c.tx
  BY UserFinds, SettledIs DEF Settled
<1> HIDE DEF book
<1>4. /\ book \in Seq(Operation) /\ DOMAIN book = DOMAIN outbox
      /\ Orderly(book, sent, results) /\ Carried(sync, book, sent, results)
      /\ \A i \in DOMAIN outbox :
            /\ book[i].op = outbox[i].op /\ book[i].tx = outbox[i].tx
            /\ book[i].kind = outbox[i].kind /\ book[i].base = outbox[i].base
            /\ book[i].state = "pending" => outbox[i].state = "pending"
  BY <1>3, EasedStays
<1>5. Tracked(book, conflicts \ {c})
  BY <1>3, <1>4, UserFinds, SettledTracked
<1>6. OutboxTypeOK'
  <2>1. local' \in [Txn -> Copy \cup {NoRow}] /\ syncState' \in [Txn -> SyncState]
    BY <1>1, <1>2, UserFinds DEF SyncState
  <2> QED BY <1>1, <1>4, <2>1, UserFinds DEF OutboxTypeOK
<1>7. \A u \in Txn : /\ local[u] # NoRow => local'[u] # NoRow
                     /\ local'[u] # NoRow /\ local'[u].deleted => Gone(u)
  BY <1>1, <1>2, UserFinds
<1>8. (\A i \in DOMAIN outbox : /\ local[outbox[i].tx] # NoRow
                                /\ outbox[i].kind = "correct" => outbox[i].base # 0)'
  BY <1>1, <1>4, <1>7, UserFinds
<1>9. (draft # NoDraft => local[draft.tx] # NoRow /\ ~draft.before.deleted)'
  BY <1>1, <1>7, UserFinds
<1>10. /\ \A h \in history' : h.before = NoRow => h.revision = 1
       /\ \A h \in history' : h.before # NoRow /\ h.before.deleted => Gone(h.tx)
  BY <1>1, UserFinds
<1>11. \A i \in DOMAIN outbox' : outbox'[i].op \in sent /\ outbox'[i].state = "pending" =>
          /\ i \in DOMAIN outbox /\ outbox[i].op = outbox'[i].op /\ outbox[i].tx = outbox'[i].tx
          /\ outbox[i].state = "pending"
  BY <1>1, <1>4
<1>12. /\ DOMAIN outbox \subseteq DOMAIN outbox' /\ restored' \subseteq Txn /\ conflicts' \subseteq conflicts
       /\ Orderly(outbox', sent, results) /\ Carried(sync, outbox', sent, results)
       /\ Tracked(outbox', conflicts')
  BY <1>0, <1>1, <1>4, <1>5, UserFinds
<1> QED BY <1>0, <1>6, <1>7, <1>8, <1>9, <1>10, <1>11, <1>12, UserMoves

LEMMA RetryKeeps ==
    ASSUME SInv, NEW c \in conflicts, NEW o \in OpId, ResolveWithRetry(c, o),
           UNCHANGED <<ledgerVars, systemVars>>
    PROVE  SInv'
<1> DEFINE next == c.server.revision + 1
           old == Settled(c.tx)
           m == NewOperation(o, c.tx, "correct", c.server.revision, TRUE, c.server, TRUE)
           copy == [c.local EXCEPT !.revision = next, !.by = o, !.paid = FALSE]
           entry == [tx |-> c.tx, revision |-> next, before |-> c.server]
           book == Append(old, m)
           n == Len(old) + 1
<1>0. UNCHANGED <<ledgerVars, log, answers, sent, cursor, sync, restored>>
  BY DEF systemVars
<1>1. /\ ~c.server.deleted /\ Fresh(o)
      /\ local' = [local EXCEPT ![c.tx] = copy] /\ syncState' = [syncState EXCEPT ![c.tx] = "pending"]
      /\ history' \subseteq history \cup {entry}
      /\ outbox' = book /\ conflicts' = conflicts \ {c} /\ draft' = draft
  BY DEF ResolveWithRetry, Forgotten
<1>2. /\ c.tx \in Txn /\ c.server \in Copy /\ c.server # NoRow /\ c.local \in Copy
      /\ (c.local.deleted => Gone(c.tx)) /\ c.server.revision \in Nat \ {0} /\ next \in Nat \ {0}
  <2>1. c.tx \in Txn /\ c.server \in Copy /\ c.local \in Copy /\ (c.local.deleted => Gone(c.tx))
    BY UserFinds
  <2>2. c.server.revision \in Nat \ {0} /\ next \in Nat \ {0}
    BY <2>1 DEF Copy
  <2> QED BY <2>1, <2>2, CopyAssumption
<1>3. /\ Eased(outbox, old)
      /\ \A i \in DOMAIN outbox :
            old[i].state = "conflict" <=> outbox[i].state = "conflict" /\ outbox[i].tx # c.tx
  BY UserFinds, SettledIs DEF Settled
<1> HIDE DEF old, next
<1>4. m \in Operation /\ m.op = o /\ m.tx = c.tx /\ m.kind = "correct" /\ m.state = "pending" /\ m.base # 0
  BY <1>2 DEF NewOperation, Operation, OpState
<1>5. copy \in Copy /\ copy # NoRow /\ (copy.deleted => Gone(c.tx))
  <2>1. copy \in Copy /\ copy.deleted = c.local.deleted
    BY <1>2 DEF Copy
  <2> QED BY <1>2, <2>1, CopyAssumption
<1>6. entry \in Snapshot /\ entry.before # NoRow /\ ~entry.before.deleted
  BY <1>1, <1>2 DEF Snapshot
<1> HIDE DEF m, copy, entry
<1>7. /\ old \in Seq(Operation) /\ DOMAIN old = DOMAIN outbox
      /\ Orderly(old, sent, results) /\ Carried(sync, old, sent, results)
      /\ \A i \in DOMAIN outbox :
            /\ old[i].op = outbox[i].op /\ old[i].tx = outbox[i].tx
            /\ old[i].kind = outbox[i].kind /\ old[i].base = outbox[i].base
            /\ old[i].state = "pending" => outbox[i].state = "pending"
  BY <1>3, EasedStays
<1>8. Tracked(old, conflicts \ {c})
  BY <1>3, <1>7, UserFinds, SettledTracked
<1>9. /\ book \in Seq(Operation) /\ DOMAIN book = DOMAIN outbox \cup {n} /\ book[n] = m
      /\ \A i \in DOMAIN outbox : book[i] = old[i]
  BY <1>4, <1>7, AppendIs
<1>10. \A i \in DOMAIN old : old[i].op # m.op
  BY <1>1, <1>4, <1>7 DEF Fresh
<1>11. m.op \notin sent
  BY <1>7, <1>10 DEF Orderly
<1>12. Orderly(book, sent, results) /\ Carried(sync, book, sent, results)
  BY <1>4, <1>7, <1>10, AppendedOrderly
<1>13. Tracked(book, conflicts \ {c})
  BY <1>4, <1>7, <1>8, AppendedTracked
<1> HIDE DEF book
<1>14. OutboxTypeOK'
  <2>1. local' \in [Txn -> Copy \cup {NoRow}] /\ syncState' \in [Txn -> SyncState]
    BY <1>1, <1>2, <1>5, UserFinds DEF SyncState
  <2>2. history' \subseteq Snapshot
    BY <1>1, <1>6, UserFinds
  <2> QED BY <1>1, <1>9, <2>1, <2>2, UserFinds DEF OutboxTypeOK
<1>15. \A u \in Txn : /\ local[u] # NoRow => local'[u] # NoRow
                      /\ local'[u] # NoRow /\ local'[u].deleted => Gone(u)
  BY <1>1, <1>2, <1>5, UserFinds
<1>16. local'[c.tx] # NoRow
  BY <1>1, <1>2, <1>5, UserFinds
<1>17. (\A i \in DOMAIN outbox : /\ local[outbox[i].tx] # NoRow
                                 /\ outbox[i].kind = "correct" => outbox[i].base # 0)'
  <2>1. \A i \in DOMAIN outbox : /\ local'[book[i].tx] # NoRow
                                 /\ book[i].kind = "correct" => book[i].base # 0
    <3>1. \A i \in DOMAIN outbox : outbox[i].tx \in Txn /\ local[outbox[i].tx] # NoRow
      BY UserFinds, SeqIs DEF Operation
    <3>2. \A i \in DOMAIN outbox : /\ book[i].tx = outbox[i].tx
                                   /\ book[i].kind = outbox[i].kind /\ book[i].base = outbox[i].base
      BY <1>7, <1>9
    <3> QED BY <1>15, <3>1, <3>2, UserFinds
  <2>2. local'[book[n].tx] # NoRow /\ book[n].base # 0
    BY <1>4, <1>9, <1>16
  <2>3. \A i \in DOMAIN book : i \in DOMAIN outbox \/ i = n
    BY <1>9
  <2> QED BY <1>1, <2>1, <2>2, <2>3
<1>18. (draft # NoDraft => local[draft.tx] # NoRow /\ ~draft.before.deleted)'
  BY <1>1, <1>15, UserFinds
<1>19. /\ \A h \in history' : h.before = NoRow => h.revision = 1
       /\ \A h \in history' : h.before # NoRow /\ h.before.deleted => Gone(h.tx)
  BY <1>1, <1>6, UserFinds
<1>20. \A i \in DOMAIN outbox' : outbox'[i].op \in sent /\ outbox'[i].state = "pending" =>
          /\ i \in DOMAIN outbox /\ outbox[i].op = outbox'[i].op /\ outbox[i].tx = outbox'[i].tx
          /\ outbox[i].state = "pending"
  BY <1>1, <1>7, <1>9, <1>11
<1>21. /\ DOMAIN outbox \subseteq DOMAIN outbox' /\ restored' \subseteq Txn /\ conflicts' \subseteq conflicts
       /\ Orderly(outbox', sent, results) /\ Carried(sync, outbox', sent, results)
       /\ Tracked(outbox', conflicts')
  BY <1>0, <1>1, <1>9, <1>12, <1>13, UserFinds
<1> QED BY <1>0, <1>14, <1>15, <1>17, <1>18, <1>19, <1>20, <1>21, UserMoves

(* Discarding goes back to what was before the first rejected correction.  *)
(* It is a copy: a correction is not the first revision, and only that has *)
(* nothing before it.                                                      *)
LEMMA DiscardIs ==
    ASSUME SInv, NEW t \in Txn, Discard(t)
    PROVE  \E first \in Rejected(t), saved \in history :
              /\ \A j \in Rejected(t) : first <= j
              /\ first \in DOMAIN outbox /\ outbox[first].kind = "correct"
              /\ saved.tx = t /\ saved.revision = outbox[first].base + 1
              /\ saved.before \in Copy /\ saved.before # NoRow /\ (saved.before.deleted => Gone(t))
              /\ local' = [local EXCEPT ![t] = saved.before]
              /\ history' = Forgotten(history, t, saved.before.revision + 1)
              /\ syncState' = [syncState EXCEPT ![t] = "synced"]
              /\ outbox' = MovedFrom(outbox, t, {"rejected"}, "resolved")
              /\ conflicts' = conflicts /\ draft' = draft
<1> DEFINE first == CHOOSE i \in Rejected(t) : \A j \in Rejected(t) : i <= j
           saved == CHOOSE h \in history : h.tx = t /\ h.revision = outbox[first].base + 1
<1>1. first \in Rejected(t) /\ \A j \in Rejected(t) : first <= j
  <2>1. Rejected(t) \in SUBSET Nat
    <3>1. \A i \in DOMAIN outbox : i \in Nat
      BY UserFinds, SeqIs
    <3> QED BY <3>1 DEF Rejected
  <2>2. Rejected(t) # {}
    BY DEF Discard
  <2>3. \E i \in Rejected(t) : \A j \in Rejected(t) : i <= j
    BY <2>1, <2>2, LeastIs
  <2> QED BY <2>3
<1>2. /\ outbox[first].kind = "correct" /\ RevisionTaken(t, outbox[first].base + 1)
      /\ local' = [local EXCEPT ![t] = saved.before]
      /\ history' = Forgotten(history, t, saved.before.revision + 1)
      /\ syncState' = [syncState EXCEPT ![t] = "synced"]
      /\ outbox' = MovedFrom(outbox, t, {"rejected"}, "resolved") /\ conflicts' = conflicts /\ draft' = draft
  <2>1. outbox[first].kind = "correct" /\ RevisionTaken(t, outbox[first].base + 1)
    BY <1>1 DEF Discard
  <2> QED BY <2>1 DEF Discard
<1> HIDE DEF first
<1>3. /\ first \in DOMAIN outbox /\ outbox[first].base # 0 /\ outbox[first].base \in Nat
  <2>1. first \in DOMAIN outbox
    BY <1>1 DEF Rejected
  <2>2. outbox[first] \in Operation
    BY <2>1, UserFinds, SeqIs
  <2> QED BY <1>2, <2>1, <2>2, UserFinds DEF Operation
<1>4. saved \in history /\ saved.tx = t /\ saved.revision = outbox[first].base + 1
  BY <1>2 DEF RevisionTaken
<1> HIDE DEF saved
<1>5. saved.before \in Copy /\ saved.before # NoRow /\ (saved.before.deleted => Gone(t))
  <2>1. saved.before \in Copy \cup {NoRow} /\ saved.revision # 1
    BY <1>3, <1>4, UserFinds DEF Snapshot
  <2>2. saved.before # NoRow
    BY <1>4, <2>1, UserFinds
  <2> QED BY <1>4, <2>1, <2>2, UserFinds
<1> QED BY <1>1, <1>2, <1>3, <1>4, <1>5

LEMMA DiscardKeeps ==
    ASSUME SInv, NEW t \in Txn, DiscardRejected(t)
    PROVE  SInv'
<1> DEFINE book == MovedFrom(outbox, t, {"rejected"}, "resolved")
<1>0. /\ UNCHANGED <<ledgerVars, log, answers, sent, cursor, sync>> /\ restored' = restored \cup {t}
      /\ Discard(t)
  BY DEF DiscardRejected
<1>1. PICK first \in Rejected(t), saved \in history :
         /\ saved.before \in Copy /\ saved.before # NoRow /\ (saved.before.deleted => Gone(t))
         /\ local' = [local EXCEPT ![t] = saved.before]
         /\ history' = Forgotten(history, t, saved.before.revision + 1)
         /\ syncState' = [syncState EXCEPT ![t] = "synced"]
         /\ outbox' = book /\ conflicts' = conflicts /\ draft' = draft
  BY <1>0, DiscardIs
<1>6. /\ Eased(outbox, book)
      /\ \A i \in DOMAIN outbox : book[i].state = "conflict" <=> outbox[i].state = "conflict"
  BY UserFinds, SettledIs
<1> HIDE DEF book
<1>7. /\ book \in Seq(Operation) /\ DOMAIN book = DOMAIN outbox
      /\ Orderly(book, sent, results) /\ Carried(sync, book, sent, results)
      /\ \A i \in DOMAIN outbox :
            /\ book[i].op = outbox[i].op /\ book[i].tx = outbox[i].tx
            /\ book[i].kind = outbox[i].kind /\ book[i].base = outbox[i].base
            /\ book[i].state = "pending" => outbox[i].state = "pending"
  BY <1>6, EasedStays
<1>8. Tracked(book, conflicts)
  BY <1>6, <1>7, UserFinds, SameTracked
<1>9. history' \subseteq history
  BY <1>1 DEF Forgotten
<1>10. OutboxTypeOK'
  <2>1. local' \in [Txn -> Copy \cup {NoRow}] /\ syncState' \in [Txn -> SyncState]
    BY <1>1, UserFinds DEF SyncState
  <2> QED BY <1>1, <1>7, <1>9, <2>1, UserFinds DEF OutboxTypeOK
<1>11. \A u \in Txn : /\ local[u] # NoRow => local'[u] # NoRow
                      /\ local'[u] # NoRow /\ local'[u].deleted => Gone(u)
  BY <1>1, UserFinds
<1>12. (\A i \in DOMAIN outbox : /\ local[outbox[i].tx] # NoRow
                                 /\ outbox[i].kind = "correct" => outbox[i].base # 0)'
  BY <1>1, <1>7, <1>11, UserFinds
<1>13. (draft # NoDraft => local[draft.tx] # NoRow /\ ~draft.before.deleted)'
  BY <1>1, <1>11, UserFinds
<1>14. /\ \A h \in history' : h.before = NoRow => h.revision = 1
       /\ \A h \in history' : h.before # NoRow /\ h.before.deleted => Gone(h.tx)
  BY <1>9, UserFinds
<1>15. \A i \in DOMAIN outbox' : outbox'[i].op \in sent /\ outbox'[i].state = "pending" =>
          /\ i \in DOMAIN outbox /\ outbox[i].op = outbox'[i].op /\ outbox[i].tx = outbox'[i].tx
          /\ outbox[i].state = "pending"
  BY <1>1, <1>7
<1>16. /\ DOMAIN outbox \subseteq DOMAIN outbox' /\ restored' \subseteq Txn /\ conflicts' \subseteq conflicts
       /\ Orderly(outbox', sent, results) /\ Carried(sync, outbox', sent, results)
       /\ Tracked(outbox', conflicts')
  BY <1>0, <1>1, <1>7, <1>8, UserFinds
<1> QED BY <1>0, <1>10, <1>11, <1>12, <1>13, <1>14, <1>15, <1>16, UserMoves

LEMMA UserKeeps ==
    ASSUME SInv, User
    PROVE  SInv'
BY CreateKeeps, SaveKeeps, DraftKeeps, ServerChosenKeeps, RetryKeeps DEF User

-----------------------------------------------------------------------------
(***************************************************************************)
(* The invariant holds from the start and every step keeps it.             *)
(***************************************************************************)
LEMMA LedgerStarts ==
    ASSUME LedgerInit
    PROVE  LedgerTypeOK /\ RevisionChain
<1>1. rows \in [Txn -> Row \cup {NoRow}]
  BY LedgerAssumption DEF LedgerInit
<1>2. revisions \subseteq Revision
  BY DEF LedgerInit, Seeded, Revision
<1>3. results \in [OpId -> Result \cup {NoResult}]
  BY DEF LedgerInit
<1> QED BY <1>1, <1>2, <1>3, ChainInit DEF LedgerTypeOK

LEMMA InitKeeps ==
    ASSUME Init
    PROVE  SInv
<1>0. /\ LedgerInit /\ local = [t \in Txn |-> ServerCopy(t)] /\ history = {} /\ outbox = <<>>
      /\ syncState = [t \in Txn |-> "synced"] /\ conflicts = {} /\ draft = NoDraft
      /\ log = <<>> /\ answers = [o \in OpId |-> NoRow] /\ sent = {} /\ cursor = 0
      /\ sync = Idle /\ restored = {}
  BY DEF Init
<1>1. /\ DOMAIN outbox = {} /\ DOMAIN log = {} /\ Len(log) = 0
      /\ outbox \in Seq(Operation) /\ log \in Seq([tx : Txn, tombstone : BOOLEAN])
  BY <1>0
<1>2. \A o \in OpId : results[o] = NoResult
  BY <1>0 DEF LedgerInit
<1>3. ServerTyped
  <2>1. LedgerTypeOK /\ RevisionChain
    BY <1>0, LedgerStarts
  <2> QED BY <1>0, <1>1, <1>2, <2>1 DEF ServerTyped, InConflict
<1>4. \A t \in Txn : /\ local[t] \in Copy \cup {NoRow}
                     /\ local[t] # NoRow /\ local[t].deleted => Gone(t)
  <2> SUFFICES ASSUME NEW t \in Txn
               PROVE  /\ local[t] \in Copy \cup {NoRow}
                      /\ local[t] # NoRow /\ local[t].deleted => Gone(t)
    OBVIOUS
  <2>1. CASE rows[t] = NoRow
    BY <1>0, <2>1 DEF ServerCopy
  <2>2. CASE rows[t] # NoRow
    BY <1>0, <1>3, <2>2, CopyTyped DEF Gone
  <2> QED BY <2>1, <2>2
<1>5. DeviceTyped
  <2>1. local \in [Txn -> Copy \cup {NoRow}]
    BY <1>0, <1>4
  <2>2. OutboxTypeOK
    BY <1>0, <1>1, <2>1 DEF OutboxTypeOK, SyncState
  <2> QED BY <1>0, <1>1, <2>2 DEF DeviceTyped
<1>6. RunTyped
  BY <1>0, <1>1 DEF RunTyped, SyncTypeOK, SyncShape
<1>7. Orderly(outbox, sent, results) /\ Tracked(outbox, conflicts)
  BY <1>0, <1>1, <1>2 DEF Orderly, Tracked
<1>8. sync.pc = "idle"
  BY <1>0 DEF Idle
<1>9. Carried(sync, outbox, sent, results)
  BY <1>8 DEF Carried
<1>10. Dated
  BY <1>0, <1>1, <1>4 DEF Dated
<1>11. Current
  BY <1>0, <1>1, <1>8 DEF Current, Offered, Answered, Paged
<1> QED BY <1>3, <1>5, <1>6, <1>7, <1>9, <1>10, <1>11 DEF SInv, Typed, Queued

LEMMA StutterKeeps ==
    ASSUME SInv, UNCHANGED vars
    PROVE  SInv'
<1>1. /\ UNCHANGED <<ledgerVars, local, syncState, history, outbox, conflicts, draft>>
      /\ UNCHANGED <<log, answers, sent, cursor, sync, restored>>
  BY DEF vars, deviceVars, systemVars
<1>2. SyncTypeOK' /\ SyncShape'
  BY <1>1 DEF SInv, Typed, RunTyped, SyncTypeOK, SyncShape
<1>3. Queued' /\ Paged'
  <2>1. Queued'
    BY <1>1 DEF SInv, Queued, Orderly, Carried, ledgerVars
  <2>2. Paged'
    BY <1>1, PagedStays DEF SInv, Current, ledgerVars
  <2> QED BY <2>1, <2>2
<1>4. sent \subseteq OpId
  BY DEF SInv, Typed, ServerTyped
<1> QED BY <1>1, <1>2, <1>3, <1>4, RunMoves

LEMMA NextKeeps == SInv /\ [Next]_vars => SInv'
<1> SUFFICES ASSUME SInv, [Next]_vars PROVE SInv'
  OBVIOUS
<1>1. CASE User
  BY <1>1, UserKeeps
<1>2. ASSUME NEW t \in Txn, DiscardRejected(t) PROVE SInv'
  BY <1>2, DiscardKeeps
<1>3. CASE Server
  BY <1>3, ServerKeeps
<1>4. CASE Run
  BY <1>4, RunKeeps
<1>5. CASE LoseRequest
  BY <1>5, LoseKeeps
<1>6. CASE Kill
  BY <1>6, KillKeeps
<1>7. CASE UNCHANGED vars
  BY <1>7, StutterKeeps
<1> QED BY <1>1, <1>2, <1>3, <1>4, <1>5, <1>6, <1>7 DEF Next

LEMMA SyncHolds == Spec => []SInv
<1>1. Init => SInv
  BY InitKeeps
<1> QED BY <1>1, NextKeeps, PTL DEF Spec

-----------------------------------------------------------------------------
(***************************************************************************)
(* What is read off the invariant.                                         *)
(***************************************************************************)
(* Every table and the state of the run keep their types: no push takes    *)
(* more operations than it may, nothing is marked that is not in the       *)
(* queue, and no page is installed that is too long or of another shape.   *)
THEOREM SyncTypes == Spec => []TypeOK
<1>1. SInv => TypeOK
  BY DEF SInv, Typed, ServerTyped, DeviceTyped, RunTyped, TypeOK
<1> QED BY <1>1, SyncHolds, PTL

(* Whatever is lost, late, killed or answered with an error, the device     *)
(* and the server agree on what took effect: markOutboxResult marks synced *)
(* only what ApplySyncMutation applied, and what it applied is never shown *)
(* as rejected or in conflict, unless an answer to it was INTERNAL_ERROR.  *)
THEOREM AppliedIsKnown == Spec => []AppliedNotDisowned
<1>1. ASSUME SInv PROVE AppliedNotDisowned
  <2> SUFFICES ASSUME NEW i \in DOMAIN outbox
               PROVE  /\ outbox[i].state = "synced" => Applied(outbox[i].op)
                      /\ Applied(outbox[i].op) /\ ~outbox[i].failed
                         => outbox[i].state \in {"pending", "synced"}
    BY DEF AppliedNotDisowned, Applied
  <2>1. Orderly(outbox, sent, results) /\ outbox[i] \in Operation
    BY <1>1, UserFinds, SeqIs
  <2>2. outbox[i].op \in OpId
    BY <2>1 DEF Operation
  <2>3. Applied(outbox[i].op) => outbox[i].op \in sent
    BY <2>1, <2>2 DEF Orderly, Applied
  <2> QED BY <2>1, <2>3 DEF Orderly, Applied
<1> QED BY <1>1, SyncHolds, PTL

LEMMA OpenIsStuck ==
    ASSUME SInv, NEW t \in Txn
    PROVE  LET stuck == {i \in DOMAIN outbox : outbox[i].tx = t /\ outbox[i].state = "conflict"}
               open == {c \in conflicts : c.tx = t}
           IN Cardinality(stuck) <= 1 /\ Cardinality(open) = Cardinality(stuck)
<1> DEFINE stuck == {i \in DOMAIN outbox : outbox[i].tx = t /\ outbox[i].state = "conflict"}
           open == {c \in conflicts : c.tx = t}
<1>1. Tracked(outbox, conflicts)
  BY DEF SInv
<1>2. CASE stuck = {}
  <2>1. open = {}
    BY <1>1, <1>2 DEF Tracked
  <2> QED BY <1>2, <2>1, FS_EmptySet
<1>3. CASE stuck # {}
  <2>1. PICK i : stuck = {i}
    BY <1>1, <1>3 DEF Tracked
  <2>2. PICK c : open = {c}
    <3>1. i \in DOMAIN outbox /\ outbox[i].tx = t /\ outbox[i].state = "conflict"
      BY <2>1
    <3>2. PICK c \in conflicts : c.tx = t
      BY <1>1, <3>1, Zenon DEF Tracked
    <3>3. \A d \in conflicts : d.tx = t => d = c
      BY <1>1, <3>2 DEF Tracked
    <3>4. open = {c}
      BY <3>2, <3>3
    <3> QED BY <3>4
  <2>3. Cardinality(stuck) = 1 /\ Cardinality(open) = 1
    BY <2>1, <2>2, FS_Singleton
  <2> QED BY <2>3
<1> QED BY <1>2, <1>3

LEMMA OfferedIsCurrent ==
    ASSUME SInv, CaughtUp, NEW c \in conflicts
    PROVE  LET now == ServerCopy(c.tx)
           IN c.server.deleted = now.deleted
              /\ (~now.deleted => c.server.revision = now.revision
                                  /\ c.server.by = now.by)
<1>1. ~Later(cursor, c.tx)
  <2>1. log \in Seq([tx : Txn, tombstone : BOOLEAN])
    BY DEF SInv, Typed, ServerTyped
  <2>2. DOMAIN log = 1 .. Len(log) /\ Len(log) \in Nat
    BY <2>1, SeqIs
  <2> QED BY <2>2 DEF CaughtUp, Later
<1>2. Shows(c.server, c.tx)
  BY <1>1 DEF SInv, Current, Offered
<1>3. c.tx \in Txn /\ ServerTyped
  BY UserFinds DEF SInv, Typed
<1>4. ServerCopy(c.tx).deleted = rows[c.tx].deleted
  BY <1>2, <1>3, CopyTyped DEF Shows
<1> QED BY <1>2, <1>4 DEF Shows, Same

(* The conflicts on the device are the ones to decide, one for each        *)
(* operation that markOutboxResult put in conflict, whatever is pulled,    *)
(* saved or discarded meanwhile; and once applyRemoteChanges has installed *)
(* everything, the version that resolveConflictLocal offers is the         *)
(* server's, so a decision overwrites no newer revision unseen.            *)
THEOREM ConflictsAsTheyAre == Spec => []ConflictsTrue
<1>1. ASSUME SInv PROVE ConflictsTrue
  <2>1. ConflictTracked
    BY <1>1, OpenIsStuck DEF ConflictTracked
  <2>2. ConflictFresh
    BY <1>1, OfferedIsCurrent DEF ConflictFresh
  <2> QED BY <2>1, <2>2 DEF ConflictsTrue
<1> QED BY <1>1, SyncHolds, PTL

-----------------------------------------------------------------------------
(***************************************************************************)
(* Copies marked synced.                                                   *)
(***************************************************************************)
Fresher(copy, t) == Later(cursor, t) \/ Shows(copy, t)

(* A copy marked synced is the server's, but for what is still to be       *)
(* pulled or was discarded.                                                *)
Kept ==
    \A t \in Txn \ restored :
        local[t] # NoRow /\ syncState[t] = "synced" => Fresher(local[t], t)

(* The change that an operation made is pulled after the answer to it.     *)
PulledLater ==
    \A i \in DOMAIN outbox :
        outbox[i].state = "pending" /\ Applied(outbox[i].op) => Later(cursor, outbox[i].tx)

KInv == Kept /\ PulledLater

(* A step of the device, of which the cursor and the server know nothing. *)
LEMMA DeviceKept ==
    ASSUME KInv, UNCHANGED <<rows, revisions, results, log, cursor>>, restored \subseteq restored',
           \A t \in Txn \ restored' :
              local'[t] # NoRow /\ syncState'[t] = "synced" =>
                 \/ local'[t] = local[t] /\ syncState[t] = "synced"
                 \/ Fresher(local'[t], t),
           \A i \in DOMAIN outbox' :
              outbox'[i].state = "pending" /\ Applied(outbox'[i].op) =>
                 /\ i \in DOMAIN outbox /\ outbox[i].op = outbox'[i].op /\ outbox[i].tx = outbox'[i].tx
                 /\ outbox[i].state = "pending"
    PROVE  KInv'
<1>1. \A copy, t : Fresher(copy, t) <=> Fresher(copy, t)'
  BY DEF Fresher, Later, Shows, Same, ServerCopy, Author
<1>2. \A o : Applied(o)' <=> Applied(o)
  BY DEF Applied
<1>3. Kept'
  <2> SUFFICES ASSUME NEW t \in Txn \ restored', local'[t] # NoRow, syncState'[t] = "synced"
               PROVE  Fresher(local'[t], t)
    BY <1>1 DEF Kept, Fresher, Later, Shows, Same, ServerCopy, Author
  <2>1. CASE Fresher(local'[t], t)
    BY <2>1
  <2>2. CASE local'[t] = local[t] /\ syncState[t] = "synced"
    BY <2>2 DEF KInv, Kept
  <2> QED BY <2>1, <2>2
<1>4. PulledLater'
  <2>1. \A i \in DOMAIN outbox' :
           outbox'[i].state = "pending" /\ Applied(outbox'[i].op) => Later(cursor, outbox'[i].tx)
    BY DEF KInv, PulledLater
  <2> QED BY <2>1 DEF PulledLater, Applied, Later
<1> QED BY <1>3, <1>4 DEF KInv

LEMMA AcceptsKept ==
    ASSUME SInv, KInv, NEW r, Accepts(r),
           \A i \in DOMAIN outbox : outbox[i].op = r.op => outbox[i].tx = r.tx
    PROVE  KInv'
<1>0. /\ Typed /\ ServerTyped /\ RunTyped /\ r \in Request /\ Apply(r)
      /\ UNCHANGED <<local, syncState, outbox, cursor, restored>>
  BY DEF SInv, Typed, Accepts, deviceVars
<1>1. cursor \in 0 .. Len(log) /\ cursor \in Nat
  BY <1>0, LogIs DEF RunTyped
<1>2. \A t \in Txn : \A copy : Fresher(copy, t) => Fresher(copy, t)'
  <2> SUFFICES ASSUME NEW t \in Txn, NEW copy, Fresher(copy, t) PROVE Fresher(copy, t)'
    OBVIOUS
  <2>1. Later(cursor, r.tx)' /\ (Later(cursor, t) => Later(cursor, t)')
        /\ (t # r.tx /\ Shows(copy, t) => Shows(copy, t)')
    <3>1. PICK n \in 0 .. Len(log) : n = cursor /\ n \in Nat
      BY <1>1
    <3>2. Later(n, r.tx)' /\ (Later(n, t) => Later(n, t)')
      BY <1>0, <3>1, AcceptsShows
    <3>3. t # r.tx /\ Shows(copy, t) => Shows(copy, t)'
      BY <1>0, AcceptsShows
    <3>4. cursor' = n
      BY <1>0, <3>1
    <3> QED BY <3>1, <3>2, <3>3, <3>4 DEF Later
  <2> QED BY <2>1 DEF Fresher
<1>3. Kept'
  BY <1>0, <1>2 DEF KInv, Kept
<1>4. PulledLater'
  <2> SUFFICES ASSUME NEW i \in DOMAIN outbox, outbox[i].state = "pending", Applied(outbox[i].op)'
               PROVE  Later(cursor, outbox[i].tx)'
    BY <1>0 DEF PulledLater
  <2>1. PICK n \in 0 .. Len(log) : n = cursor /\ n \in Nat /\ cursor' = n
    BY <1>0, <1>1
  <2>2. outbox[i].op \in OpId /\ outbox[i].tx \in Txn
    BY <1>0, DeviceNames DEF Typed
  <2>3. CASE outbox[i].op = r.op
    <3>1. Later(n, r.tx)'
      BY <1>0, AcceptsShows
    <3> QED BY <1>0, <2>1, <2>3, <3>1 DEF Later
  <2>4. CASE outbox[i].op # r.op
    <3>1. results'[outbox[i].op] = results[outbox[i].op]
      BY <1>0, <2>2, <2>4, AcceptedIs
    <3>2. Later(n, outbox[i].tx)
      BY <1>0, <2>1, <3>1 DEF Applied, KInv, PulledLater
    <3>3. Later(n, outbox[i].tx)'
      BY <1>0, <2>1, <2>2, <3>2, AcceptsShows
    <3> QED BY <2>1, <3>3 DEF Later
  <2> QED BY <2>3, <2>4
<1> QED BY <1>3, <1>4 DEF KInv

(* Which requests the server accepts: the device's, as they are queued, and *)
(* those of others, which have no operationId.                             *)
LEMMA AcceptedFrom ==
    ASSUME SInv, Server
    PROVE  \/ \E i \in DOMAIN outbox : Refuses(i)
           \/ \E i \in DOMAIN outbox : Accepts(RequestOf(outbox[i]))
           \/ \E r \in Requests : r.op = Direct /\ Accepts(r)
<1>1. ASSUME NEW i \in DOMAIN outbox, ServerDecides(i) PROVE Accepts(RequestOf(outbox[i])) \/ Refuses(i)
  <2>1. outbox[i] \in Operation
    BY DeviceNames DEF SInv, Typed
  <2>2. RequestOf(outbox[i]) \in Request
    BY <2>1, RequestIs
  <2> QED BY <1>1, <2>2 DEF ServerDecides, Accepts, Refuses
<1>2. ASSUME NEW r \in Requests, OtherApplies(r) PROVE r.op = Direct /\ Accepts(r)
  BY <1>2, SystemAssumption, LedgerAssumption DEF OtherApplies, Accepts
<1> QED BY <1>1, <1>2 DEF Server

LEMMA ServerKept ==
    ASSUME SInv, KInv, Server
    PROVE  KInv'
<1>1. ASSUME NEW i \in DOMAIN outbox, Refuses(i) PROVE KInv'
  <2> DEFINE r == RequestOf(outbox[i])
  <2>1. /\ UNCHANGED <<rows, revisions, log, deviceVars, sent, cursor, sync, restored>>
        /\ Undecided(r) /\ Verdict(rows[r.tx], r) # "applied"
        /\ \E outcome \in RefusedAs(r) : results' = Recorded(r, outcome)
    BY <1>1 DEF Refuses
  <2>2. /\ ServerTyped /\ outbox[i] \in Operation /\ results \in [OpId -> Result \cup {NoResult}]
        /\ \A j \in DOMAIN outbox : outbox[j].op \in OpId
    BY DeviceNames DEF SInv, Typed, ServerTyped, LedgerTypeOK
  <2>3. r \in Request /\ r.op \in OpId /\ r.op # Direct
    BY <2>2, RequestIs
  <2> HIDE DEF r
  <2>4. PICK outcome \in RefusedAs(r) : results' = Recorded(r, outcome)
    BY <2>1
  <2>5. outcome # "applied"
    BY <2>1, <2>2, <2>3, RefusedIs DEF Refusal
  <2>6. \A o \in OpId : Applied(o)' => Applied(o)
    BY <2>2, <2>3, <2>4, <2>5 DEF Applied, Recorded
  <2>7. Kept'
    BY <2>1 DEF KInv, Kept, Fresher, Later, Shows, Same, ServerCopy, Author, deviceVars
  <2>8. PulledLater'
    <3>1. \A j \in DOMAIN outbox :
             outbox[j].state = "pending" /\ Applied(outbox[j].op)' => Later(cursor, outbox[j].tx)
      BY <2>1, <2>2, <2>6 DEF Applied, KInv, PulledLater, deviceVars
    <3> QED BY <2>1, <3>1 DEF PulledLater, Later, deviceVars
  <2> QED BY <2>7, <2>8 DEF KInv
<1>2. ASSUME NEW i \in DOMAIN outbox, Accepts(RequestOf(outbox[i])) PROVE KInv'
  <2>1. Orderly(outbox, sent, results) /\ outbox[i] \in Operation
    BY DeviceNames DEF SInv, Queued, Typed
  <2>2. RequestOf(outbox[i]).op = outbox[i].op /\ RequestOf(outbox[i]).tx = outbox[i].tx
    BY <2>1, RequestIs
  <2>3. \A j \in DOMAIN outbox : outbox[j].op = RequestOf(outbox[i]).op => outbox[j].tx = RequestOf(outbox[i]).tx
    BY <2>1, <2>2 DEF Orderly
  <2> QED BY <1>2, <2>3, AcceptsKept
<1>3. ASSUME NEW r \in Requests, r.op = Direct, Accepts(r) PROVE KInv'
  <2>1. \A j \in DOMAIN outbox : outbox[j].op \in OpId
    BY DeviceNames DEF SInv, Typed
  <2>2. \A j \in DOMAIN outbox : outbox[j].op # r.op
    BY <1>3, <2>1, RulesAssumption
  <2> QED BY <1>3, <2>2, AcceptsKept
<1> QED BY <1>1, <1>2, <1>3, AcceptedFrom

(* Steps that touch neither copies nor queue. *)
LEMMA CopiesStay ==
    ASSUME KInv, UNCHANGED <<rows, revisions, results, log, cursor, local, syncState, outbox, restored>>
    PROVE  KInv'
BY DeviceKept

(* An answer is marked: only a copy that waits for nothing else is synced. *)
LEMMA MarkKept ==
    ASSUME SInv, KInv, MarkNext
    PROVE  KInv'
<1>1. PICK i \in sync.todo : Mark(i, sync.outcome[i]) /\ MarksAt(i)
  BY DEF MarkNext, MarksAt
<1>2. sync.pc = "marking"
  BY DEF MarkNext
<1>3. UNCHANGED <<rows, revisions, results, log, cursor, restored>>
  BY <1>1 DEF MarksAt, ledgerVars
<1> DEFINE u == outbox[i].tx
<1>4. /\ u \in Txn /\ i \in DOMAIN outbox /\ outbox[i].state = "pending" /\ outbox \in Seq(Operation)
      /\ local \in [Txn -> Copy \cup {NoRow}] /\ syncState \in [Txn -> SyncState]
  BY <1>1, <1>2, MarkFinds
<1>5. \A t \in Txn : t # u => local'[t] = local[t] /\ syncState'[t] = syncState[t]
  BY <1>1, <1>4 DEF Mark, MarkApplied, MarkRejected, MarkConflict
<1>6. syncState'[u] = "synced" => local' = local /\ Later(cursor, u)
  <2>1. CASE sync.outcome[i] = "applied"
    <3>1. Applied(outbox[i].op)
      BY <1>1, <1>2, <2>1, MarkFinds DEF Applied
    <3>2. Later(cursor, u)
      BY <1>4, <3>1 DEF KInv, PulledLater
    <3> QED BY <1>1, <2>1, <3>2 DEF Mark, MarkApplied
  <2>2. CASE sync.outcome[i] = "REVISION_CONFLICT"
    BY <1>1, <1>4, <2>2 DEF Mark, MarkConflict
  <2>3. CASE sync.outcome[i] \notin {"applied", "REVISION_CONFLICT"}
    BY <1>1, <1>4, <2>3 DEF Mark, MarkRejected
  <2> QED BY <2>1, <2>2, <2>3
<1>7. DOMAIN outbox' = DOMAIN outbox
      /\ \A j \in DOMAIN outbox : /\ outbox'[j].op = outbox[j].op /\ outbox'[j].tx = outbox[j].tx
                                  /\ outbox'[j].state = "pending" => outbox[j].state = "pending"
  <2>1. \E state, failed, stops : Marked(outbox, outbox', i, state, failed, stops)
    BY <1>1, <1>2, QueueMarked
  <2> QED BY <1>4, <2>1, MarkedStays
<1>8. \A t \in Txn \ restored' :
         local'[t] # NoRow /\ syncState'[t] = "synced" =>
            \/ local'[t] = local[t] /\ syncState[t] = "synced"
            \/ Fresher(local'[t], t)
  BY <1>5, <1>6 DEF Fresher
<1> HIDE DEF u
<1> QED BY <1>3, <1>7, <1>8, DeviceKept

(* After the first k changes: what the others showed, they show still.     *)
KeptSoFar(k, dev) ==
    \A t \in Txn :
        dev.local[t] # NoRow /\ dev.syncState[t] = "synced" =>
           \/ Later(cursor + k, t) \/ Shows(dev.local[t], t)
           \/ t \in restored /\ \A j \in 1 .. k : sync.page[j].tx # t

LEMMA ChangeKept ==
    ASSUME SInv, sync.pc = "paged", NEW k \in Nat, k + 1 \in 1 .. Len(sync.page),
           NEW dev, Installing(k, dev), KeptSoFar(k, dev)
    PROVE  KeptSoFar(k + 1, Installed(dev, sync.page[k + 1]))
<1>1. PICK change : change = sync.page[k + 1]
  OBVIOUS
<1>2. /\ change.tx \in Txn /\ change.tombstone \in BOOLEAN /\ change.tx = log[cursor + (k + 1)].tx
      /\ change.tombstone => Gone(change.tx)
      /\ ~change.tombstone =>
            /\ change.row \in Copy
            /\ Later(cursor + Len(sync.page), change.tx) \/ Shows(change.row, change.tx)
  BY <1>1, ChangeIs
<1>3. cursor \in Nat /\ Len(sync.page) \in Nat /\ \A n \in DOMAIN log : n \in Nat
  BY ChangeIs, LogIs DEF SInv, Typed
<1>4. /\ dev.local \in [Txn -> Copy \cup {NoRow}] /\ dev.syncState \in [Txn -> SyncState]
  BY DEF Installing
<1> DEFINE u == change.tx
           next == Installed(dev, change)
           copy == IF ~change.tombstone THEN change.row
                   ELSE IF dev.local[u] = NoRow THEN NoRow
                   ELSE [dev.local[u] EXCEPT !.deleted = TRUE]
<1>5. /\ next.local = [dev.local EXCEPT ![u] = copy]
      /\ \/ next.syncState = dev.syncState
         \/ next.syncState = [dev.syncState EXCEPT ![u] = Recomputed(Unblocked(dev.outbox, u), u)]
  BY DEF Installed, Replaced
<1>6. copy # NoRow => Later(cursor + (k + 1), u) \/ Shows(copy, u)
  <2>1. CASE ~change.tombstone
    <3>1. Later(cursor + Len(sync.page), u) => Later(cursor + (k + 1), u)
      BY <1>3 DEF Later
    <3> QED BY <1>2, <2>1, <3>1
  <2>2. CASE change.tombstone /\ dev.local[u] # NoRow
    <3>1. dev.local[u] \in Copy
      BY <1>2, <1>4, <2>2
    <3>2. copy.deleted = TRUE
      BY <2>2, <3>1 DEF Copy
    <3>3. rows[u] # NoRow /\ rows[u].deleted = TRUE
      <4>1. rows[u] \in Row \cup {NoRow}
        BY <1>2 DEF SInv, Typed, ServerTyped, LedgerTypeOK
      <4> QED BY <1>2, <2>2, <4>1 DEF Gone, Row
    <3> HIDE DEF copy
    <3> QED BY <3>2, <3>3 DEF Shows
  <2> QED BY <2>1, <2>2
<1> HIDE DEF next, copy
<1>7. ASSUME NEW t \in Txn, next.local[t] # NoRow, next.syncState[t] = "synced"
      PROVE  \/ Later(cursor + (k + 1), t) \/ Shows(next.local[t], t)
             \/ t \in restored /\ \A j \in 1 .. k + 1 : sync.page[j].tx # t
  <2>1. CASE t = u
    BY <1>2, <1>4, <1>5, <1>6, <1>7, <2>1
  <2>2. CASE t # u
    <3>1. next.local[t] = dev.local[t] /\ next.syncState[t] = dev.syncState[t]
      BY <1>4, <1>5, <2>2
    <3>2. \/ Later(cursor + k, t) \/ Shows(dev.local[t], t)
          \/ t \in restored /\ \A j \in 1 .. k : sync.page[j].tx # t
      BY <1>7, <3>1 DEF KeptSoFar
    <3>3. Later(cursor + k, t) => Later(cursor + (k + 1), t)
      BY <1>2, <1>3, <2>2 DEF Later
    <3>4. sync.page[k + 1].tx # t
      BY <1>1, <2>2
    <3> QED BY <3>1, <3>2, <3>3, <3>4
  <2> QED BY <2>1, <2>2
<1> QED BY <1>1, <1>7 DEF KeptSoFar, next

LEMMA InstallKept ==
    ASSUME SInv, KInv, InstallPage
    PROVE  KInv'
<1>0. sync.pc = "paged" /\ Carried(sync, outbox, sent, results) /\ Orderly(outbox, sent, results)
  BY DEF InstallPage, SInv, Queued
<1> DEFINE L == Len(sync.page)
<1>1. L \in Nat /\ DOMAIN sync.page = 1 .. L /\ cursor \in Nat
  BY <1>0, ChangeIs
<1>2. PICK after :
         /\ after[0] = Device
         /\ \A k \in Nat : k + 1 \in 1 .. L => after[k + 1] = Installed(after[k], sync.page[k + 1])
         /\ FoldLeft(Installed, Device, sync.page) = after[L]
  BY <1>0, PageSteps
<1>3. \A k \in 0 .. L : Installing(k, after[k])
  BY <1>0, <1>2, PageInstalled
<1> HIDE DEF L
<1>4. KeptSoFar(0, after[0])
  <2>1. Device.local = local /\ Device.syncState = syncState
    BY DEF Device
  <2> QED BY <1>1, <1>2, <2>1 DEF KInv, Kept, Fresher, KeptSoFar
<1> DEFINE S == {k \in Nat : k <= L => KeptSoFar(k, after[k])}
<1>5. ASSUME NEW k \in S PROVE k + 1 \in S
  <2>1. CASE k + 1 <= L
    <3>1. k \in Nat /\ k \in 0 .. L /\ k + 1 \in 1 .. L
      BY <1>1, <2>1
    <3>2. Installing(k, after[k]) /\ KeptSoFar(k, after[k])
      BY <1>1, <1>3, <3>1
    <3>3. KeptSoFar(k + 1, Installed(after[k], sync.page[k + 1]))
      BY <1>0, <3>1, <3>2, ChangeKept DEF L
    <3> QED BY <1>2, <3>1, <3>3
  <2>2. CASE ~(k + 1 <= L)
    BY <2>2
  <2> QED BY <2>1, <2>2
<1>6. KeptSoFar(L, after[L])
  <2>1. 0 \in S
    BY <1>4
  <2> HIDE DEF S
  <2>2. S \in SUBSET Nat
    BY DEF S
  <2>3. L \in S
    BY <1>1, <1>5, <2>1, <2>2, CountingUp
  <2> QED BY <1>1, <2>3 DEF S
<1>7. PICK dev : dev = after[L]
  OBVIOUS
<1>8. /\ local' = dev.local /\ syncState' = dev.syncState /\ outbox' = dev.outbox
      /\ cursor' = cursor + L /\ restored' = restored \ {c.tx : c \in ToSet(sync.page)}
      /\ UNCHANGED <<rows, revisions, results, log, sent>>
  BY <1>2, <1>7 DEF InstallPage, InstallChanges, CursorAfter, ledgerVars, L
<1>9. Kept'
  <2> SUFFICES ASSUME NEW t \in Txn, t \notin restored', dev.local[t] # NoRow, dev.syncState[t] = "synced"
               PROVE  Later(cursor + L, t) \/ Shows(dev.local[t], t)
    BY <1>8 DEF Kept, Fresher, Later, Shows, Same, ServerCopy, Author
  <2>1. t \in restored => \E j \in 1 .. L : sync.page[j].tx = t
    BY <1>1, <1>8 DEF ToSet
  <2> QED BY <1>6, <1>7, <2>1 DEF KeptSoFar
<1>10. PulledLater'
  <2>1. Eased(outbox, dev.outbox)
    <3>1. L \in 0 .. L
      BY <1>1
    <3> QED BY <1>3, <1>7, <3>1 DEF Installing
  <2>2. \A i \in DOMAIN dev.outbox : dev.outbox[i].op \in sent => dev.outbox[i].state # "pending"
    <3>1. Carried(sync, dev.outbox, sent, results)
      BY <1>0, <2>1, EasedCarried
    <3> QED BY <1>0, <3>1 DEF Carried
  <2>3. \A i \in DOMAIN dev.outbox : dev.outbox[i].op \in OpId
    <3>1. dev.outbox \in Seq(Operation)
      BY <2>1 DEF Eased
    <3>2. \A i \in DOMAIN dev.outbox : dev.outbox[i] \in Operation
      BY <3>1, SeqIs
    <3> QED BY <3>2 DEF Operation
  <2>4. \A i \in DOMAIN dev.outbox : Applied(dev.outbox[i].op) => dev.outbox[i].op \in sent
    BY <1>0, <2>3 DEF Applied, Orderly
  <2> QED BY <1>8, <2>2, <2>4 DEF PulledLater, Applied
<1> QED BY <1>9, <1>10 DEF KInv

(* What the user does leaves a copy that waits to be sent, or the server's, *)
(* or one that is known to be discarded.                                   *)
LEMMA UserKept ==
    ASSUME SInv, KInv, User
    PROVE  KInv'
<1>0. /\ UNCHANGED <<rows, revisions, results, log, cursor, restored, sent>>
      /\ outbox \in Seq(Operation) /\ Orderly(outbox, sent, results)
      /\ local \in [Txn -> Copy \cup {NoRow}] /\ syncState \in [Txn -> SyncState]
  BY UserFinds DEF User, ledgerVars, systemVars
<1>1. ASSUME NEW book, Eased(outbox, book)
      PROVE  /\ DOMAIN book = DOMAIN outbox /\ book \in Seq(Operation)
             /\ \A i \in DOMAIN book :
                   /\ book[i].op = outbox[i].op /\ book[i].tx = outbox[i].tx
                   /\ book[i].state = "pending" => outbox[i].state = "pending"
  BY <1>1, EasedStays
<1>2. ASSUME NEW book \in Seq(Operation), NEW m \in Operation, outbox' = Append(book, m), Fresh(m.op),
             DOMAIN book = DOMAIN outbox,
             \A i \in DOMAIN book :
                /\ book[i].op = outbox[i].op /\ book[i].tx = outbox[i].tx
                /\ book[i].state = "pending" => outbox[i].state = "pending",
             NEW t \in Txn, \A u \in Txn : u # t => local'[u] = local[u] /\ syncState'[u] = syncState[u],
             syncState'[t] = "pending"
      PROVE  KInv'
  <2>1. /\ DOMAIN outbox' = DOMAIN outbox \cup {Len(book) + 1} /\ outbox'[Len(book) + 1] = m
        /\ \A i \in DOMAIN outbox : outbox'[i] = book[i]
    BY <1>2, AppendIs
  <2>2. ~Applied(m.op)
    <3>1. m.op \in OpId
      BY DEF Operation
    <3> QED BY <1>0, <1>2, <3>1 DEF Applied, Orderly, Fresh
  <2>3. \A i \in DOMAIN outbox' :
           outbox'[i].state = "pending" /\ Applied(outbox'[i].op) =>
              /\ i \in DOMAIN outbox /\ outbox[i].op = outbox'[i].op /\ outbox[i].tx = outbox'[i].tx
              /\ outbox[i].state = "pending"
    BY <1>2, <2>1, <2>2
  <2>4. \A u \in Txn \ restored' :
           local'[u] # NoRow /\ syncState'[u] = "synced" =>
              \/ local'[u] = local[u] /\ syncState[u] = "synced"
              \/ Fresher(local'[u], u)
    BY <1>2
  <2> QED BY <1>0, <2>3, <2>4, DeviceKept
<1>3. ASSUME NEW t \in Txn, NEW o \in OpId, NEW valid \in Payloads, Create(t, o, valid) PROVE KInv'
  <2> DEFINE m == NewOperation(o, t, "create", 0, valid, NoRow, TRUE)
  <2>1. m \in Operation /\ m.op = o
    BY SystemAssumption DEF NewOperation, Operation, OpState
  <2>2. outbox' = Append(outbox, m) /\ Fresh(o)
    BY <1>3 DEF Create
  <2>3. /\ \A u \in Txn : u # t => local'[u] = local[u] /\ syncState'[u] = syncState[u]
        /\ syncState'[t] = "pending"
    BY <1>0, <1>3 DEF Create
  <2> HIDE DEF m
  <2> QED BY <1>0, <1>2, <2>1, <2>2, <2>3
<1>4. ASSUME NEW o \in OpId, NEW valid \in Payloads, SaveCorrection(o, valid) PROVE KInv'
  <2> DEFINE t == draft.tx
             m == NewOperation(o, t, "correct", draft.before.revision, valid, draft.before,
                               local[t] = draft.before /\ ~Blocked(t))
  <2>1. outbox' = Append(outbox, m) /\ Fresh(o) /\ draft # NoDraft
    BY <1>4 DEF SaveCorrection
  <2>2. t \in Txn /\ draft.before \in Copy
    BY <2>1, UserFinds
  <2>3. m \in Operation /\ m.op = o
    <3>1. draft.before.revision \in Nat
      BY <2>2 DEF Copy
    <3> QED BY <2>2, <3>1, SystemAssumption DEF NewOperation, Operation, OpState
  <2>4. /\ \A u \in Txn : u # t => local'[u] = local[u] /\ syncState'[u] = syncState[u]
        /\ syncState'[t] = "pending"
    BY <1>0, <1>4, <2>2 DEF SaveCorrection
  <2> HIDE DEF m, t
  <2> QED BY <1>0, <1>2, <2>1, <2>2, <2>3, <2>4
<1>5. ASSUME NEW c \in conflicts, NEW o \in OpId, ResolveWithRetry(c, o) PROVE KInv'
  <2> DEFINE old == Settled(c.tx)
             m == NewOperation(o, c.tx, "correct", c.server.revision, TRUE, c.server, TRUE)
  <2>1. outbox' = Append(old, m) /\ Fresh(o)
    BY <1>5 DEF ResolveWithRetry
  <2>2. c.tx \in Txn /\ c.server \in Copy
    BY UserFinds
  <2>3. m \in Operation /\ m.op = o
    <3>1. c.server.revision \in Nat
      BY <2>2 DEF Copy
    <3> QED BY <2>2, <3>1 DEF NewOperation, Operation, OpState
  <2>4. Eased(outbox, old)
    BY UserFinds, SettledIs DEF Settled
  <2>5. /\ \A u \in Txn : u # c.tx => local'[u] = local[u] /\ syncState'[u] = syncState[u]
        /\ syncState'[c.tx] = "pending"
    BY <1>0, <1>5, <2>2 DEF ResolveWithRetry
  <2> HIDE DEF m, old
  <2>6. /\ DOMAIN old = DOMAIN outbox /\ old \in Seq(Operation)
        /\ \A i \in DOMAIN old :
              /\ old[i].op = outbox[i].op /\ old[i].tx = outbox[i].tx
              /\ old[i].state = "pending" => outbox[i].state = "pending"
    BY <1>1, <2>4
  <2> QED BY <1>2, <2>1, <2>2, <2>3, <2>5, <2>6
<1>6. ASSUME NEW c \in conflicts, ResolveWithServer(c) PROVE KInv'
  <2> DEFINE old == Settled(c.tx)
  <2>1. outbox' = old /\ local' = [local EXCEPT ![c.tx] = c.server]
        /\ syncState' = [syncState EXCEPT ![c.tx] = "synced"]
    BY <1>6 DEF ResolveWithServer
  <2>2. c.tx \in Txn /\ Fresher(c.server, c.tx)
    BY UserFinds DEF SInv, Current, Offered, Fresher
  <2>3. Eased(outbox, old)
    BY UserFinds, SettledIs DEF Settled
  <2> HIDE DEF old
  <2>4. /\ DOMAIN old = DOMAIN outbox /\ old \in Seq(Operation)
        /\ \A i \in DOMAIN old :
              /\ old[i].op = outbox[i].op /\ old[i].tx = outbox[i].tx
              /\ old[i].state = "pending" => outbox[i].state = "pending"
    BY <1>1, <2>3
  <2>5. \A u \in Txn \ restored' :
           local'[u] # NoRow /\ syncState'[u] = "synced" =>
              \/ local'[u] = local[u] /\ syncState[u] = "synced"
              \/ Fresher(local'[u], u)
    BY <1>0, <2>1, <2>2
  <2>6. \A i \in DOMAIN outbox' :
           outbox'[i].state = "pending" /\ Applied(outbox'[i].op) =>
              /\ i \in DOMAIN outbox /\ outbox[i].op = outbox'[i].op /\ outbox[i].tx = outbox'[i].tx
              /\ outbox[i].state = "pending"
    BY <2>1, <2>4
  <2> QED BY <1>0, <2>5, <2>6, DeviceKept
<1>7. ASSUME \/ \E t \in Txn : BeginCorrection(t)
             \/ FailCorrection
      PROVE  KInv'
  BY <1>0, <1>7, CopiesStay DEF BeginCorrection, FailCorrection
<1> QED BY <1>3, <1>4, <1>5, <1>6, <1>7 DEF User

LEMMA DiscardKept ==
    ASSUME SInv, KInv, NEW t \in Txn, DiscardRejected(t)
    PROVE  KInv'
<1>0. /\ UNCHANGED <<rows, revisions, results, log, cursor>> /\ restored' = restored \cup {t} /\ Discard(t)
      /\ local \in [Txn -> Copy \cup {NoRow}] /\ syncState \in [Txn -> SyncState]
  BY UserFinds DEF DiscardRejected, ledgerVars
<1> DEFINE book == MovedFrom(outbox, t, {"rejected"}, "resolved")
<1>1. PICK first \in Rejected(t), saved \in history :
         /\ local' = [local EXCEPT ![t] = saved.before]
         /\ syncState' = [syncState EXCEPT ![t] = "synced"]
         /\ outbox' = book
  BY <1>0, DiscardIs
<1>2. Eased(outbox, book)
  BY UserFinds, SettledIs
<1> HIDE DEF book
<1>3. \A i \in DOMAIN outbox' :
         outbox'[i].state = "pending" /\ Applied(outbox'[i].op) =>
            /\ i \in DOMAIN outbox /\ outbox[i].op = outbox'[i].op /\ outbox[i].tx = outbox'[i].tx
            /\ outbox[i].state = "pending"
  BY <1>1, <1>2, EasedStays
<1>4. \A u \in Txn \ restored' :
         local'[u] # NoRow /\ syncState'[u] = "synced" =>
            \/ local'[u] = local[u] /\ syncState[u] = "synced"
            \/ Fresher(local'[u], u)
  BY <1>0, <1>1
<1> QED BY <1>0, <1>3, <1>4, DeviceKept

LEMMA InitKept == Init => KInv
<1> SUFFICES ASSUME Init PROVE KInv
  OBVIOUS
<1>1. /\ local = [t \in Txn |-> ServerCopy(t)] /\ outbox = <<>> /\ SInv
  BY InitKeeps DEF Init
<1>2. Kept
  <2> SUFFICES ASSUME NEW t \in Txn, ServerCopy(t) # NoRow PROVE Shows(ServerCopy(t), t)
    BY <1>1 DEF Kept, Fresher
  <2>1. rows[t] # NoRow
    BY DEF ServerCopy
  <2> QED BY <1>1, <2>1, CopyTyped DEF Shows, Same, SInv, Typed
<1>3. PulledLater
  BY <1>1 DEF PulledLater
<1> QED BY <1>2, <1>3 DEF KInv

LEMMA NextKept == SInv /\ KInv /\ [Next]_vars => KInv'
<1> SUFFICES ASSUME SInv, KInv, [Next]_vars PROVE KInv'
  OBVIOUS
<1>1. ASSUME Push \/ ReceiveResults \/ StartPull \/ ServePage \/ LoseRequest \/ Kill \/ UNCHANGED vars
      PROVE  KInv'
  <2>1. UNCHANGED <<rows, revisions, results, log, cursor, local, syncState, outbox, restored>>
    BY <1>1 DEF Push, ReceiveResults, StartPull, ServePage, LoseRequest, Kill, vars,
                ledgerVars, deviceVars, systemVars
  <2> QED BY <2>1, CopiesStay
<1> QED BY <1>1, UserKept, DiscardKept, ServerKept, MarkKept, InstallKept DEF Next, Run

(* Once the device has pulled everything, a transaction it shows as synced *)
(* is what the server has, however its own answers, the pages and the      *)
(* decisions of the user were interleaved (applyRemoteChanges and          *)
(* markOutboxResult); all but one that was discarded and not pulled since. *)
THEOREM CopiesAgree == Spec => []SyncedCopyAgrees
<1>1. ASSUME SInv, KInv PROVE SyncedCopyAgrees
  <2> SUFFICES ASSUME CaughtUp, NEW t \in Txn \ restored, local[t] # NoRow, syncState[t] = "synced"
               PROVE  Agrees(t)
    BY DEF SyncedCopyAgrees
  <2>1. ~Later(cursor, t)
    <3>1. DOMAIN log = 1 .. Len(log) /\ Len(log) \in Nat
      BY <1>1, LogIs DEF SInv, Typed
    <3> QED BY <3>1 DEF CaughtUp, Later
  <2>2. Shows(local[t], t)
    BY <1>1, <2>1 DEF KInv, Kept, Fresher
  <2>3. /\ rows[t] # NoRow /\ ServerCopy(t) \in Copy /\ ServerCopy(t).deleted = rows[t].deleted
    BY <1>1, <2>2, CopyTyped DEF Shows, SInv, Typed
  <2>4. local[t] \in Copy
    BY <1>1, UserFinds
  <2>5. ~rows[t].deleted => local[t] = ServerCopy(t)
    <3> SUFFICES ASSUME ~rows[t].deleted PROVE local[t] = ServerCopy(t)
      OBVIOUS
    <3>1. PICK now : now = ServerCopy(t)
      OBVIOUS
    <3>2. local[t].revision = now.revision /\ local[t].by = now.by /\ local[t].paid = now.paid
          /\ local[t].deleted = now.deleted /\ now \in Copy
      BY <2>2, <2>3, <3>1 DEF Shows, Same
    <3> QED BY <2>4, <3>1, <3>2 DEF Copy
  <2> QED BY <2>2, <2>3, <2>5, CopyAssumption DEF Shows, Agrees
<1>2. Init => SInv /\ KInv
  BY InitKeeps, InitKept
<1>3. SInv /\ KInv /\ [Next]_vars => (SInv /\ KInv)'
  BY NextKeeps, NextKept
<1> QED BY <1>1, <1>2, <1>3, PTL DEF Spec

-----------------------------------------------------------------------------
(***************************************************************************)
(* What corrections are made from.  A copy is known when the server made   *)
(* that revision of that author.  The operations of a transaction before   *)
(* and with this one were written on the copies they were read from        *)
(* (Clean): then an operation is made from a known copy, or from what an   *)
(* unfinished operation before it will make, and only once that is known   *)
(* is it sent.                                                             *)
(***************************************************************************)
Known(copy, t) ==
    \E x \in revisions : x.tx = t /\ x.revision = copy.revision /\ x.author = copy.by

Clean(book, i) ==
    \A j \in DOMAIN book : j <= i /\ book[j].tx = book[i].tx => book[j].clean

(* The revision that the server makes of m is the one m was to make. *)
Rooted(m) ==
    /\ m.kind = "create" => m.base = 0
    /\ m.kind = "correct" => m.basis \in Copy /\ m.base = m.basis.revision
    /\ \A x \in revisions : x.author = m.op =>
          x.tx = m.tx /\ x.base = m.base /\ x.revision = m.base + 1
    /\ Applied(m.op) => \E x \in revisions : x.author = m.op

Attributed ==
    /\ \A x \in revisions : x.author \in OpId => x.author \in sent
    /\ \A i \in DOMAIN outbox : Rooted(outbox[i])

(* Nothing that is over stands behind a pending operation, and nothing that *)
(* stopped before one that was written when none had.                      *)
Waiting(book) ==
    \A i, j \in DOMAIN book :
        i < j /\ book[i].tx = book[j].tx /\ book[i].state = "pending" => book[j].state = "pending"

Free(book) ==
    \A i, j \in DOMAIN book :
        j < i /\ book[i].tx = book[j].tx /\ book[i].state = "pending" /\ book[i].clean
        => book[j].state \notin {"conflict", "rejected"}

(* m is to make copy. *)
Yields(m, copy, t) ==
    m.tx = t /\ m.state \in Unfinished /\ m.op = copy.by /\ m.base + 1 = copy.revision

Founded(book, gone) ==
    \A i \in DOMAIN book :
        book[i].kind = "correct" /\ Clean(book, i) =>
           /\ book[i].op \in gone => Known(book[i].basis, book[i].tx)
           /\ book[i].state \in Unfinished =>
                 \/ Known(book[i].basis, book[i].tx)
                 \/ \E j \in DOMAIN book : j < i /\ Yields(book[j], book[i].basis, book[i].tx)

AllClean(book, t) == \A i \in DOMAIN book : book[i].tx = t => book[i].clean

(* What the device shows is known, or an operation will make it. *)
Shown(copy, book, t) ==
    copy # NoRow /\ ~copy.deleted /\ AllClean(book, t) =>
       \/ Known(copy, t)
       \/ \E j \in DOMAIN book : Yields(book[j], copy, t)

Present(copies, book) == \A t \in Txn : Shown(copies[t], book, t)

(* Discarding a rejected correction finds the copy it was made from. *)
SnappedAt(book, past, i) ==
    book[i].kind = "correct" /\ Clean(book, i) /\ book[i].state \in {"pending", "rejected"} =>
       /\ \E h \in past : h.tx = book[i].tx /\ h.revision = book[i].base + 1
       /\ \A h \in past : h.tx = book[i].tx /\ h.revision = book[i].base + 1
                          => h.before = book[i].basis

Snapped(book, past) == \A i \in DOMAIN book : SnappedAt(book, past, i)

(* The versions that the server has sent are known. *)
Heard ==
    /\ \A i \in DOMAIN outbox :
          InConflict(outbox[i].op) => Known(answers[outbox[i].op], outbox[i].tx)
    /\ \A c \in conflicts : Known(c.server, c.tx)
    /\ sync.pc = "paged" =>
          \A k \in DOMAIN sync.page :
             ~sync.page[k].tombstone => Known(sync.page[k].row, sync.page[k].tx)

Lined(book, gone) == Waiting(book) /\ Free(book) /\ Founded(book, gone)

NInv == /\ Attributed /\ Lined(outbox, sent) /\ Present(local, outbox)
        /\ Snapped(outbox, history) /\ Heard

-----------------------------------------------------------------------------
(* Whether an operation is clean depends on what the queue keeps. *)
LEMMA CleanKept ==
    ASSUME NEW book, NEW next, DOMAIN next = DOMAIN book,
           \A i \in DOMAIN book : next[i].tx = book[i].tx /\ next[i].clean = book[i].clean
    PROVE  /\ \A i \in DOMAIN book : Clean(next, i) <=> Clean(book, i)
           /\ \A t : AllClean(next, t) <=> AllClean(book, t)
BY DEF Clean, AllClean

(* Operations of a transaction may be over in next: if so, no operation of *)
(* that transaction is rejected any more.                                  *)
Cleared(book, next) ==
    /\ Eased(book, next)
    /\ \A i, j \in DOMAIN book :
          book[i].tx = book[j].tx /\ next[j] # book[j] => next[i].state # "rejected"

(* Nothing pending and clean is in a transaction that something is over of. *)
LEMMA NothingWaits ==
    ASSUME NEW book \in Seq(Operation), NEW gone, NEW done, Orderly(book, gone, done),
           Waiting(book), Free(book),
           NEW i \in DOMAIN book, NEW j \in DOMAIN book, book[i].tx = book[j].tx,
           book[i].state = "pending", book[i].clean
    PROVE  book[j].state \notin {"conflict", "rejected"}
<1> SUFFICES ASSUME book[j].state \in {"conflict", "rejected"} PROVE FALSE
  OBVIOUS
<1>1. i < j \/ j < i
  <2>1. i \in Nat /\ j \in Nat /\ i # j
    BY SeqIs
  <2> QED BY <2>1
<1>2. ~(j < i)
  BY DEF Free
<1>3. ~(i < j)
  BY DEF Waiting
<1> QED BY <1>1, <1>2, <1>3

(* What is over was of no use to those behind it. *)
LEMMA ClearedLined ==
    ASSUME NEW book \in Seq(Operation), NEW next, NEW done, NEW gone, Orderly(book, gone, done),
           Lined(book, gone), Cleared(book, next)
    PROVE  Lined(next, gone)
<1>1. DOMAIN next = DOMAIN book
      /\ \A i \in DOMAIN book :
            /\ next[i].op = book[i].op /\ next[i].tx = book[i].tx /\ next[i].kind = book[i].kind
            /\ next[i].base = book[i].base /\ next[i].basis = book[i].basis /\ next[i].clean = book[i].clean
            /\ \/ next[i] = book[i]
               \/ book[i].state \in {"conflict", "rejected"} /\ next[i].state = "resolved"
  BY DEF Cleared, Eased, Like
<1>2. Waiting(next)
  BY <1>1 DEF Lined, Waiting
<1>3. Free(next)
  BY <1>1 DEF Lined, Free
<1>4. \A i \in DOMAIN book : Clean(next, i) <=> Clean(book, i)
  BY <1>1, CleanKept
<1>5. Founded(next, gone)
  <2> SUFFICES ASSUME NEW i \in DOMAIN book, book[i].kind = "correct", Clean(book, i)
               PROVE  /\ book[i].op \in gone => Known(book[i].basis, book[i].tx)
                      /\ next[i].state \in Unfinished =>
                            \/ Known(book[i].basis, book[i].tx)
                            \/ \E j \in DOMAIN book : j < i /\ Yields(next[j], book[i].basis, book[i].tx)
    BY <1>1, <1>4 DEF Founded
  <2>1. book[i].op \in gone => Known(book[i].basis, book[i].tx)
    BY DEF Lined, Founded
  <2>2. ASSUME next[i].state \in Unfinished, book[i].op \notin gone, ~Known(book[i].basis, book[i].tx)
        PROVE  \E j \in DOMAIN book : j < i /\ Yields(next[j], book[i].basis, book[i].tx)
    <3>1. next[i] = book[i] /\ book[i].state \in Unfinished
      BY <1>1, <2>2 DEF Unfinished
    <3>2. PICK j \in DOMAIN book : j < i /\ Yields(book[j], book[i].basis, book[i].tx)
      BY <2>2, <3>1 DEF Lined, Founded
    <3>3. next[j] = book[j]
      <4> SUFFICES ASSUME next[j] # book[j] PROVE FALSE
        OBVIOUS
      <4>1. book[j].state \in {"conflict", "rejected"} /\ book[j].tx = book[i].tx
        BY <1>1, <3>2 DEF Yields
      <4>2. book[i].state # "rejected"
        BY <3>1, <4>1 DEF Cleared
      <4>3. book[i].state # "conflict"
        BY <2>2 DEF Orderly
      <4>4. book[i].state = "pending" /\ book[i].clean
        <5>1. i \in Nat
          BY SeqIs
        <5> QED BY <3>1, <4>2, <4>3, <5>1 DEF Unfinished, Clean
      <4> QED BY <4>1, <4>4, NothingWaits DEF Lined
    <3> QED BY <3>2, <3>3
  <2> QED BY <2>1, <2>2
<1> QED BY <1>2, <1>3, <1>5 DEF Lined

(* What m was to make is known. *)
MadeKnown(m) == \A copy : Yields(m, copy, m.tx) => Known(copy, m.tx)

(* The answer to m is known; whether those behind m stop as well. *)
Answering(m, state, stops) ==
    /\ state \in {"synced", "conflict", "rejected"} /\ stops \in BOOLEAN
    /\ stops <=> state # "synced"
    /\ state = "synced" => MadeKnown(m)

LEMMA MarkedLined ==
    ASSUME NEW book \in Seq(Operation), NEW next, NEW gone, NEW done, NEW k \in DOMAIN book,
           NEW state, NEW failed, NEW stops,
           Orderly(book, gone, done), Lined(book, gone), Answering(book[k], state, stops),
           Marked(book, next, k, state, failed, stops), book[k].state = "pending", book[k].op \in gone
    PROVE  Lined(next, gone)
<1>0. /\ state \in {"synced", "conflict", "rejected"} /\ stops \in BOOLEAN
      /\ stops <=> state # "synced"
      /\ state = "synced" => MadeKnown(book[k])
  BY DEF Answering
<1>1. \A i \in DOMAIN book : i \in Nat
  BY SeqIs
<1>2. DOMAIN next = DOMAIN book
      /\ \A i \in DOMAIN book :
            /\ next[i].op = book[i].op /\ next[i].tx = book[i].tx /\ next[i].kind = book[i].kind
            /\ next[i].base = book[i].base /\ next[i].basis = book[i].basis /\ next[i].clean = book[i].clean
  <2>1. \A i \in DOMAIN book : next[i] = book[i] \/ Like(book[i], next[i])
    BY DEF Marked
  <2> QED BY <2>1 DEF Marked, Like
<1>3. next[k].state = state
  BY DEF Marked
<1>4. \A i \in DOMAIN book \ {k} :
         \/ next[i].state = book[i].state /\ ~(stops /\ i > k /\ book[i].tx = book[k].tx /\ book[i].state = "pending")
         \/ stops /\ i > k /\ book[i].tx = book[k].tx /\ book[i].state = "pending" /\ next[i].state = "rejected"
  BY DEF Marked
<1>5. \A i \in DOMAIN book : i < k /\ book[i].tx = book[k].tx => book[i].state \in {"synced", "resolved"}
  BY DEF Orderly
<1>6. \A i \in DOMAIN book : Clean(next, i) <=> Clean(book, i)
  BY <1>2, CleanKept
<1>7. Waiting(next)
  <2> SUFFICES ASSUME NEW i \in DOMAIN book, NEW j \in DOMAIN book, i < j, book[i].tx = book[j].tx,
                      next[i].state = "pending"
               PROVE  next[j].state = "pending"
    BY <1>2 DEF Waiting
  <2>1. i # k /\ book[i].state = "pending" /\ ~(stops /\ i > k /\ book[i].tx = book[k].tx)
    BY <1>0, <1>3, <1>4
  <2>2. book[j].state = "pending"
    BY <2>1 DEF Lined, Waiting
  <2>3. j # k
    BY <1>5, <2>1
  <2>4. CASE stops /\ j > k /\ book[j].tx = book[k].tx
    <3>1. i < k
      BY <1>1, <2>1, <2>4
    <3> QED BY <1>5, <2>1, <2>4, <3>1
  <2> QED BY <1>4, <2>2, <2>3, <2>4
<1>8. Free(next)
  <2> SUFFICES ASSUME NEW i \in DOMAIN book, NEW j \in DOMAIN book, j < i, book[i].tx = book[j].tx,
                      next[i].state = "pending", book[i].clean, next[j].state \in {"conflict", "rejected"}
               PROVE  FALSE
    BY <1>2 DEF Free
  <2>1. i # k /\ book[i].state = "pending" /\ ~(stops /\ i > k /\ book[i].tx = book[k].tx)
    BY <1>0, <1>3, <1>4
  <2>2. book[j].state \notin {"conflict", "rejected"}
    BY <2>1 DEF Lined, Free
  <2>3. stops /\ book[j].tx = book[k].tx /\ (j = k \/ j > k)
    BY <1>0, <1>3, <1>4, <2>2
  <2> QED BY <1>1, <2>1, <2>3
<1>9. Founded(next, gone)
  <2> SUFFICES ASSUME NEW i \in DOMAIN book, book[i].kind = "correct", Clean(book, i)
               PROVE  /\ book[i].op \in gone => Known(book[i].basis, book[i].tx)
                      /\ next[i].state \in Unfinished =>
                            \/ Known(book[i].basis, book[i].tx)
                            \/ \E j \in DOMAIN book : j < i /\ Yields(next[j], book[i].basis, book[i].tx)
    BY <1>2, <1>6 DEF Founded
  <2>1. book[i].op \in gone => Known(book[i].basis, book[i].tx)
    BY DEF Lined, Founded
  <2>2. ASSUME next[i].state \in Unfinished, ~Known(book[i].basis, book[i].tx)
        PROVE  \E j \in DOMAIN book : j < i /\ Yields(next[j], book[i].basis, book[i].tx)
    <3>1. book[i].state \in Unfinished
      BY <1>4, <2>2 DEF Unfinished
    <3>2. PICK j \in DOMAIN book : j < i /\ Yields(book[j], book[i].basis, book[i].tx)
      BY <2>2, <3>1 DEF Lined, Founded
    <3>3. next[j].state \in Unfinished
      <4>1. CASE j = k /\ state = "synced"
        BY <1>0, <2>2, <3>2, <4>1 DEF Yields, MadeKnown
      <4>2. CASE j = k /\ state # "synced"
        BY <1>0, <1>3, <4>2 DEF Unfinished
      <4>3. CASE j # k
        BY <1>4, <3>2, <4>3 DEF Yields, Unfinished
      <4> QED BY <4>1, <4>2, <4>3
    <3> QED BY <1>2, <3>2, <3>3 DEF Yields
  <2> QED BY <2>1, <2>2
<1> QED BY <1>7, <1>8, <1>9 DEF Lined

(* What is new was written on the copy it was read from, when nothing had  *)
(* stopped; or else it is of no concern.                                   *)
LEMMA AppendedLined ==
    ASSUME NEW book \in Seq(Operation), NEW gone, NEW m \in Operation, Lined(book, gone),
           m.state = "pending", m.op \notin gone,
           m.clean => \A i \in DOMAIN book : book[i].tx = m.tx => book[i].state \notin {"conflict", "rejected"},
           m.kind = "correct" /\ m.clean /\ AllClean(book, m.tx) =>
              \/ Known(m.basis, m.tx)
              \/ \E j \in DOMAIN book : Yields(book[j], m.basis, m.tx)
    PROVE  /\ Lined(Append(book, m), gone)
           /\ \A i \in DOMAIN book : Clean(Append(book, m), i) <=> Clean(book, i)
           /\ Clean(Append(book, m), Len(book) + 1) => AllClean(book, m.tx)
           /\ \A t : AllClean(Append(book, m), t) => AllClean(book, t)
<1> DEFINE next == Append(book, m)
           n == Len(book) + 1
<1>1. /\ DOMAIN next = DOMAIN book \cup {n} /\ next[n] = m
      /\ \A i \in DOMAIN book : i # n /\ i < n /\ next[i] = book[i]
      /\ n \in Nat /\ n \in DOMAIN next
  BY AppendIs
<1>2. \A i \in DOMAIN book : i \in Nat
  BY SeqIs
<1> HIDE DEF next, n
<1>3. \A i \in DOMAIN book : Clean(next, i) <=> Clean(book, i)
  BY <1>1, <1>2 DEF Clean
<1>4. /\ Clean(next, n) => AllClean(book, m.tx) /\ m.clean
      /\ \A t : AllClean(next, t) => AllClean(book, t)
  BY <1>1, <1>2 DEF Clean, AllClean
<1>5. \A i, j \in DOMAIN next : i < j => i \in DOMAIN book
  BY <1>1, <1>2
<1>6. Waiting(next)
  <2> SUFFICES ASSUME NEW i \in DOMAIN next, NEW j \in DOMAIN next, i < j, next[i].tx = next[j].tx,
                      next[i].state = "pending"
               PROVE  next[j].state = "pending"
    BY DEF Waiting
  <2>1. CASE j = n
    BY <1>1, <2>1
  <2>2. CASE j \in DOMAIN book
    BY <1>1, <1>5, <2>2 DEF Lined, Waiting
  <2> QED BY <1>1, <2>1, <2>2
<1>7. Free(next)
  <2> SUFFICES ASSUME NEW i \in DOMAIN next, NEW j \in DOMAIN next, j < i, next[i].tx = next[j].tx,
                      next[i].state = "pending", next[i].clean
               PROVE  next[j].state \notin {"conflict", "rejected"}
    BY DEF Free
  <2>1. CASE i = n
    BY <1>1, <1>5, <2>1
  <2>2. CASE i \in DOMAIN book
    BY <1>1, <1>5, <2>2 DEF Lined, Free
  <2> QED BY <1>1, <2>1, <2>2
<1>8. Founded(next, gone)
  <2>1. ASSUME NEW i \in DOMAIN book, book[i].kind = "correct", Clean(book, i)
        PROVE  /\ book[i].op \in gone => Known(book[i].basis, book[i].tx)
               /\ book[i].state \in Unfinished =>
                     \/ Known(book[i].basis, book[i].tx)
                     \/ \E j \in DOMAIN next : j < i /\ Yields(next[j], book[i].basis, book[i].tx)
    <3>1. /\ book[i].op \in gone => Known(book[i].basis, book[i].tx)
          /\ book[i].state \in Unfinished =>
                \/ Known(book[i].basis, book[i].tx)
                \/ \E j \in DOMAIN book : j < i /\ Yields(book[j], book[i].basis, book[i].tx)
      BY <2>1 DEF Lined, Founded
    <3> QED BY <1>1, <3>1
  <2>2. ASSUME m.kind = "correct", Clean(next, n)
        PROVE  \/ Known(m.basis, m.tx)
               \/ \E j \in DOMAIN next : j < n /\ Yields(next[j], m.basis, m.tx)
    <3>1. \/ Known(m.basis, m.tx)
          \/ \E j \in DOMAIN book : Yields(book[j], m.basis, m.tx)
      BY <1>4, <2>2
    <3> QED BY <1>1, <3>1
  <2> QED BY <1>1, <1>3, <2>1, <2>2 DEF Founded
<1> QED BY <1>3, <1>4, <1>6, <1>7, <1>8 DEF Lined, next, n

-----------------------------------------------------------------------------
(* What is shown of a transaction whose operations stay as they are. *)
LEMMA ShownKept ==
    ASSUME NEW book, NEW next, NEW copy, NEW t, Eased(book, next), Shown(copy, book, t),
           \A i \in DOMAIN book : book[i].tx = t => next[i] = book[i]
    PROVE  Shown(copy, next, t)
<1>1. DOMAIN next = DOMAIN book
      /\ \A i \in DOMAIN book : next[i].tx = book[i].tx /\ next[i].clean = book[i].clean
  BY DEF Eased, Like
<1>2. AllClean(next, t) => AllClean(book, t)
  BY <1>1, CleanKept
<1>3. \A j \in DOMAIN book : Yields(book[j], copy, t) => Yields(next[j], copy, t)
  BY DEF Yields
<1> QED BY <1>1, <1>2, <1>3 DEF Shown

(* Snapshots go only with operations that are over. *)
LEMMA ClearedSnapped ==
    ASSUME NEW book \in Seq(Operation), NEW next, NEW gone, NEW done, NEW past, NEW left,
           Orderly(book, gone, done), Waiting(book), Free(book), Cleared(book, next),
           Snapped(book, past), left \subseteq past,
           \A h \in past \ left : \E j \in DOMAIN book : book[j].tx = h.tx /\ next[j] # book[j]
    PROVE  Snapped(next, left)
<1>1. DOMAIN next = DOMAIN book
      /\ \A i \in DOMAIN book :
            /\ next[i].tx = book[i].tx /\ next[i].clean = book[i].clean
            /\ \/ next[i] = book[i]
               \/ book[i].state \in {"conflict", "rejected"} /\ next[i].state = "resolved"
  BY DEF Cleared, Eased, Like
<1>2. \A i \in DOMAIN book : Clean(next, i) <=> Clean(book, i)
  BY <1>1, CleanKept
<1> SUFFICES ASSUME NEW i \in DOMAIN book, next[i].kind = "correct", Clean(next, i),
                    next[i].state \in {"pending", "rejected"}
             PROVE  /\ \E h \in left : h.tx = next[i].tx /\ h.revision = next[i].base + 1
                    /\ \A h \in left : h.tx = next[i].tx /\ h.revision = next[i].base + 1
                                       => h.before = next[i].basis
  BY <1>1 DEF Snapped, SnappedAt
<1>3. next[i] = book[i] /\ Clean(book, i) /\ SnappedAt(book, past, i)
  BY <1>1, <1>2 DEF Snapped
<1>4. \A j \in DOMAIN book : book[j].tx = book[i].tx => next[j] = book[j]
  <2> SUFFICES ASSUME NEW j \in DOMAIN book, book[j].tx = book[i].tx, next[j] # book[j] PROVE FALSE
    OBVIOUS
  <2>1. book[i].state = "pending"
    BY <1>3 DEF Cleared
  <2>2. book[i].clean
    <3>1. i \in Nat
      BY SeqIs
    <3> QED BY <1>3, <3>1 DEF Clean
  <2>3. book[j].state \in {"conflict", "rejected"}
    BY <1>1
  <2> QED BY <2>1, <2>2, <2>3, NothingWaits
<1>5. \A h \in past : h.tx = book[i].tx => h \in left
  BY <1>4
<1> QED BY <1>3, <1>5 DEF SnappedAt

(* A new operation that is to make the copy that the device shows. *)
LEMMA AppendedPresent ==
    ASSUME NEW book \in Seq(Operation), NEW m \in Operation, NEW copies, NEW then,
           \A u \in Txn : u # m.tx => Shown(copies[u], book, u) /\ then[u] = copies[u],
           Yields(m, then[m.tx], m.tx)
    PROVE  Present(then, Append(book, m))
<1> DEFINE next == Append(book, m)
           n == Len(book) + 1
<1>1. /\ DOMAIN next = DOMAIN book \cup {n} /\ next[n] = m
      /\ \A i \in DOMAIN book : next[i] = book[i]
      /\ n \in DOMAIN next
  BY AppendIs
<1> HIDE DEF next, n
<1> SUFFICES ASSUME NEW u \in Txn PROVE Shown(then[u], next, u)
  BY DEF Present, next
<1>2. CASE u = m.tx
  BY <1>1, <1>2 DEF Shown
<1>3. CASE u # m.tx
  <2>1. AllClean(next, u) => AllClean(book, u)
    BY <1>1 DEF AllClean
  <2>2. Shown(copies[u], book, u) /\ then[u] = copies[u]
    BY <1>3
  <2> QED BY <1>1, <2>1, <2>2 DEF Shown
<1> QED BY <1>2, <1>3

(* A new correction with the snapshot of what it was made from. *)
LEMMA AppendedSnapped ==
    ASSUME NEW book \in Seq(Operation), NEW m \in Operation, NEW past, NEW entry, Snapped(book, past),
           entry.tx = m.tx, entry.revision = m.base + 1, m.kind = "correct" => entry.before = m.basis,
           \/ \A h \in past : ~(h.tx = m.tx /\ h.revision = m.base + 1)
           \/ m.kind = "create" /\ \A i \in DOMAIN book : book[i].tx # m.tx
    PROVE  Snapped(Append(book, m), past \cup {entry})
<1> DEFINE next == Append(book, m)
           n == Len(book) + 1
           then == past \cup {entry}
<1>1. /\ DOMAIN next = DOMAIN book \cup {n} /\ next[n] = m
      /\ \A i \in DOMAIN book : i # n /\ i < n /\ next[i] = book[i]
      /\ n \in Nat
  BY AppendIs
<1>2. \A i \in DOMAIN book : i \in Nat
  BY SeqIs
<1> HIDE DEF next, n
<1>3. \A i \in DOMAIN book : Clean(next, i) <=> Clean(book, i)
  BY <1>1, <1>2 DEF Clean
<1>4. ASSUME NEW i \in DOMAIN book PROVE SnappedAt(next, then, i)
  <2>1. SnappedAt(book, past, i) /\ next[i] = book[i]
    BY <1>1 DEF Snapped
  <2> SUFFICES ASSUME book[i].kind = "correct", Clean(book, i), book[i].state \in {"pending", "rejected"}
               PROVE  /\ \E h \in then : h.tx = book[i].tx /\ h.revision = book[i].base + 1
                      /\ \A h \in then : h.tx = book[i].tx /\ h.revision = book[i].base + 1
                                         => h.before = book[i].basis
    BY <1>3, <2>1 DEF SnappedAt
  <2>2. /\ \E h \in past : h.tx = book[i].tx /\ h.revision = book[i].base + 1
        /\ \A h \in past : h.tx = book[i].tx /\ h.revision = book[i].base + 1
                           => h.before = book[i].basis
    BY <2>1 DEF SnappedAt
  <2>3. ~(entry.tx = book[i].tx /\ entry.revision = book[i].base + 1)
    BY <2>2
  <2> QED BY <2>2, <2>3
<1>5. SnappedAt(next, then, n)
  <2> SUFFICES ASSUME m.kind = "correct"
               PROVE  /\ \E h \in then : h.tx = m.tx /\ h.revision = m.base + 1
                      /\ \A h \in then : h.tx = m.tx /\ h.revision = m.base + 1 => h.before = m.basis
    BY <1>1 DEF SnappedAt
  <2> QED OBVIOUS
<1> QED BY <1>1, <1>4, <1>5 DEF Snapped, next

-----------------------------------------------------------------------------
(* What the server shows is known. *)
LEMMA ServerKnown ==
    ASSUME ServerTyped, NEW t \in Txn, rows[t] # NoRow
    PROVE  Known(ServerCopy(t), t)
<1>1. PICK x \in revisions : x.tx = t /\ x.revision = rows[t].revision /\ Author(t, rows[t].revision) = x.author
  BY AuthorIs
<1>2. ServerCopy(t).revision = rows[t].revision /\ ServerCopy(t).by = Author(t, rows[t].revision)
  BY DEF ServerCopy
<1> QED BY <1>1, <1>2 DEF Known

(* An operation keeps what it was made from. *)
LEMMA RootedLike ==
    ASSUME NEW m, NEW n, Rooted(m), n = m \/ Like(m, n)
    PROVE  Rooted(n)
BY DEF Rooted, Like

(* The server has heard nothing of an operation that is new. *)
LEMMA NewRooted ==
    ASSUME SInv, NInv, NEW m \in Operation, Fresh(m.op),
           m.kind = "create" => m.base = 0,
           m.kind = "correct" => m.basis \in Copy /\ m.base = m.basis.revision
    PROVE  m.op \notin sent /\ Rooted(m) /\ ~InConflict(m.op)
<1>1. Orderly(outbox, sent, results) /\ m.op \in OpId
  BY UserFinds DEF Operation
<1>2. m.op \notin sent
  BY <1>1 DEF Orderly, Fresh
<1>3. results[m.op] = NoResult
  BY <1>1, <1>2 DEF Orderly
<1>4. \A x \in revisions : x.author # m.op
  BY <1>1, <1>2 DEF NInv, Attributed
<1> QED BY <1>2, <1>3, <1>4 DEF Rooted, Applied, InConflict

(* A step of the device. *)
LEMMA DeviceGrounded ==
    ASSUME NInv, UNCHANGED <<revisions, results, answers, sent>>,
           \A i \in DOMAIN outbox' : /\ Rooted(outbox'[i])
                                     /\ InConflict(outbox'[i].op) => Known(answers[outbox'[i].op], outbox'[i].tx),
           Lined(outbox', sent), Present(local', outbox'), Snapped(outbox', history'),
           \A c \in conflicts' : Known(c.server, c.tx),
           sync'.pc = "paged" =>
              \A k \in DOMAIN sync'.page :
                 ~sync'.page[k].tombstone => Known(sync'.page[k].row, sync'.page[k].tx)
    PROVE  NInv'
<1>1. \A copy, t : Known(copy, t) <=> Known(copy, t)'
  BY DEF Known
<1>2. \A o : (Applied(o) <=> Applied(o)') /\ (InConflict(o) <=> InConflict(o)')
  BY DEF Applied, InConflict
<1>3. Attributed'
  BY <1>2 DEF NInv, Attributed, Rooted, Applied
<1>4. Lined(outbox, sent)'
  BY <1>1 DEF Lined, Waiting, Free, Founded, Clean, Yields, Known
<1>5. Present(local, outbox)'
  BY <1>1 DEF Present, Shown, AllClean, Yields, Known
<1>6. Snapped(outbox, history)'
  BY DEF Snapped, SnappedAt, Clean
<1>7. Heard'
  BY DEF Heard, Known, InConflict
<1> QED BY <1>3, <1>4, <1>5, <1>6, <1>7 DEF NInv

(* What a step of the server leaves. *)
LEMMA ServerGrounded ==
    ASSUME NInv, revisions \subseteq revisions', UNCHANGED <<deviceVars, sent, sync>>, Attributed',
           (\A i \in DOMAIN outbox : InConflict(outbox[i].op) => Known(answers[outbox[i].op], outbox[i].tx))'
    PROVE  NInv'
<1>0. UNCHANGED <<local, history, outbox, conflicts>>
  BY DEF deviceVars
<1>1. \A copy, t : Known(copy, t) => Known(copy, t)'
  BY DEF Known
<1>2. Lined(outbox, sent)'
  BY <1>0, <1>1 DEF NInv, Lined, Waiting, Free, Founded, Clean, Yields
<1>3. Present(local, outbox)'
  BY <1>0, <1>1 DEF NInv, Present, Shown, AllClean, Yields
<1>4. Snapped(outbox, history)'
  BY <1>0 DEF NInv, Snapped, SnappedAt, Clean
<1>5. Heard'
  <2>1. \A c \in conflicts : Known(c.server, c.tx)'
    BY <1>1 DEF NInv, Heard
  <2>2. sync.pc = "paged" =>
          \A k \in DOMAIN sync.page :
             ~sync.page[k].tombstone => Known(sync.page[k].row, sync.page[k].tx)'
    BY <1>1 DEF NInv, Heard
  <2>5. (\A c \in conflicts : Known(c.server, c.tx))'
    BY <1>0, <2>1 DEF Known
  <2>6. (sync.pc = "paged" =>
           \A k \in DOMAIN sync.page :
              ~sync.page[k].tombstone => Known(sync.page[k].row, sync.page[k].tx))'
    BY <2>2 DEF Known
  <2> QED BY <2>5, <2>6 DEF Heard
<1> QED BY <1>2, <1>3, <1>4, <1>5 DEF NInv

(* The revision that an accepted request makes. *)
LEMMA MadeIs ==
    ASSUME ServerTyped, NEW r \in Request, Apply(r), NEW x \in revisions' \ revisions
    PROVE  /\ x.author = r.op /\ x.tx = r.tx /\ x.revision = x.base + 1
           /\ r.kind = "create" => x.base = 0
           /\ r.kind = "correct" => x.base = r.base
<1>1. x \in NewRevisions(rows[r.tx], r)
  BY DEF Apply
<1>2. CASE r.kind = "create"
  BY <1>1, <1>2 DEF NewRevisions
<1>3. CASE r.kind = "correct"
  <2>1. r.base = rows[r.tx].revision
    BY <1>3 DEF Apply, Verdict, CorrectVerdict
  <2>2. x = [tx |-> r.tx, revision |-> rows[r.tx].revision + 1, base |-> rows[r.tx].revision, author |-> r.op]
    BY <1>1, <1>3 DEF NewRevisions
  <2> QED BY <1>3, <2>1, <2>2
<1>4. CASE r.kind \notin {"create", "correct"}
  BY <1>1, <1>4 DEF NewRevisions
<1> QED BY <1>2, <1>3, <1>4

(* A revision is made by an operation that was sent, or by another client. *)
LEMMA AcceptsGrounded ==
    ASSUME SInv, NInv, NEW r, Accepts(r),
           \/ r.op = Direct
           \/ \E i \in DOMAIN outbox : r = RequestOf(outbox[i])
    PROVE  NInv'
<1>0. /\ ServerTyped /\ r \in Request /\ Apply(r) /\ (r.op = Direct \/ r.op \in sent)
      /\ UNCHANGED <<deviceVars, answers, sent, sync>> /\ outbox' = outbox
      /\ Orderly(outbox, sent, results) /\ revisions' = revisions \cup NewRevisions(rows[r.tx], r)
      /\ \A i \in DOMAIN outbox : outbox[i] \in Operation /\ outbox[i].op \in OpId /\ outbox[i].tx \in Txn
      /\ Direct \notin OpId
  BY DeviceNames, RulesAssumption DEF SInv, Typed, Queued, Accepts, Apply, deviceVars
<1>1. /\ revisions \subseteq revisions'
      /\ \A o \in OpId : \/ results'[o] = results[o]
                         \/ o = r.op /\ results[o] = NoResult /\ results'[o].outcome = "applied"
  BY <1>0, AcceptedIs
<1>2. \A x \in revisions' : x.author \in OpId => x.author \in sent'
  <2> SUFFICES ASSUME NEW x \in revisions', x.author \in OpId PROVE x.author \in sent
    BY <1>0
  <2>1. CASE x \in revisions
    BY <2>1 DEF NInv, Attributed
  <2>2. CASE x \notin revisions
    BY <1>0, <2>2, MadeIs
  <2> QED BY <2>1, <2>2
<1>3. ASSUME NEW j \in DOMAIN outbox PROVE Rooted(outbox[j])'
  <2>1. Rooted(outbox[j])
    BY DEF NInv, Attributed
  <2>2. CASE outbox[j].op # r.op
    <3>1. \A x \in revisions' : x.author = outbox[j].op => x \in revisions
      BY <1>0, <2>2, MadeIs
    <3>2. results'[outbox[j].op] = results[outbox[j].op]
      BY <1>0, <1>1, <2>2
    <3> QED BY <1>0, <1>1, <2>1, <3>1, <3>2 DEF Rooted, Applied
  <2>3. CASE outbox[j].op = r.op
    <3>1. PICK i \in DOMAIN outbox : r = RequestOf(outbox[i])
      BY <1>0, <2>3
    <3>2. i = j
      BY <1>0, <2>3, <3>1, RequestIs DEF Orderly
    <3>3. /\ r.tx = outbox[j].tx /\ r.base = outbox[j].base /\ r.kind = outbox[j].kind
          /\ r.kind \in {"create", "correct"}
      BY <1>0, <3>1, <3>2 DEF RequestOf, Operation
    <3>4. \A x \in revisions' : x.author = outbox[j].op =>
             x.tx = outbox[j].tx /\ x.base = outbox[j].base /\ x.revision = outbox[j].base + 1
      <4> SUFFICES ASSUME NEW x \in revisions', x.author = outbox[j].op
                   PROVE  x.tx = outbox[j].tx /\ x.base = outbox[j].base /\ x.revision = outbox[j].base + 1
        OBVIOUS
      <4>1. CASE x \in revisions
        BY <2>1, <4>1 DEF Rooted
      <4>2. CASE x \notin revisions
        BY <1>0, <2>1, <3>3, <4>2, MadeIs DEF Rooted
      <4> QED BY <4>1, <4>2
    <3>5. \E x \in revisions' : x.author = outbox[j].op
      <4>1. \E x \in NewRevisions(rows[r.tx], r) : x.author = r.op
        BY <3>3 DEF NewRevisions
      <4> QED BY <1>0, <2>3, <4>1
    <3> QED BY <1>0, <2>1, <3>4, <3>5 DEF Rooted
  <2> QED BY <2>2, <2>3
<1>4. Attributed'
  BY <1>0, <1>2, <1>3 DEF Attributed
<1>5. (\A i \in DOMAIN outbox : InConflict(outbox[i].op) => Known(answers[outbox[i].op], outbox[i].tx))'
  <2> SUFFICES ASSUME NEW i \in DOMAIN outbox, InConflict(outbox[i].op)'
               PROVE  Known(answers[outbox[i].op], outbox[i].tx)'
    BY <1>0
  <2>1. results'[outbox[i].op] = results[outbox[i].op]
    BY <1>0, <1>1 DEF InConflict
  <2>2. Known(answers[outbox[i].op], outbox[i].tx)
    BY <1>0, <2>1 DEF InConflict, NInv, Heard
  <2> QED BY <1>0, <1>1, <2>2 DEF Known
<1> QED BY <1>0, <1>1, <1>4, <1>5, ServerGrounded

(* What is sent with a conflict is the server's version. *)
LEMMA RefusesGrounded ==
    ASSUME SInv, NInv, NEW k \in DOMAIN outbox, Refuses(k)
    PROVE  NInv'
<1> DEFINE r == RequestOf(outbox[k])
<1>1. /\ UNCHANGED <<rows, revisions, deviceVars, sent, sync>> /\ outbox' = outbox
      /\ Verdict(rows[r.tx], r) # "applied"
  BY DEF Refuses, deviceVars
<1>2. /\ ServerTyped /\ outbox[k] \in Operation /\ results \in [OpId -> Result \cup {NoResult}]
      /\ answers \in [OpId -> Copy \cup {NoRow}] /\ Orderly(outbox, sent, results)
      /\ \A j \in DOMAIN outbox : outbox[j].op \in OpId /\ outbox[j].tx \in Txn
  BY DeviceNames DEF SInv, Typed, Queued, ServerTyped, LedgerTypeOK
<1>3. r \in Request /\ r.op \in OpId /\ r.op # Direct /\ r.op = outbox[k].op /\ r.tx = outbox[k].tx
  BY <1>2, RequestIs
<1>4. PICK outcome \in RefusedAs(r) :
         /\ results' = Recorded(r, outcome)
         /\ answers' = IF outcome = "REVISION_CONFLICT" THEN [answers EXCEPT ![r.op] = ServerCopy(r.tx)]
                       ELSE answers
  BY DEF Refuses
<1> HIDE DEF r
<1>5. outcome # "applied" /\ (outcome = "REVISION_CONFLICT" => rows[r.tx] # NoRow)
  BY <1>1, <1>2, <1>3, RefusedIs DEF Refusal
<1>6. /\ \A o \in OpId : o # r.op => results'[o] = results[o] /\ answers'[o] = answers[o]
      /\ results'[r.op] = [request |-> r, outcome |-> outcome]
      /\ outcome = "REVISION_CONFLICT" => answers'[r.op] = ServerCopy(r.tx)
  BY <1>2, <1>3, <1>4 DEF Recorded
<1>7. \A o \in OpId : Applied(o)' => Applied(o)
  BY <1>5, <1>6 DEF Applied
<1>8. Attributed'
  BY <1>1, <1>2, <1>7 DEF NInv, Attributed, Rooted
<1>9. (\A i \in DOMAIN outbox : InConflict(outbox[i].op) => Known(answers[outbox[i].op], outbox[i].tx))'
  <2> SUFFICES ASSUME NEW i \in DOMAIN outbox, InConflict(outbox[i].op)'
               PROVE  Known(answers[outbox[i].op], outbox[i].tx)'
    BY <1>1
  <2>1. CASE outbox[i].op = r.op
    <3>1. i = k
      BY <1>2, <1>3, <2>1 DEF Orderly
    <3>2. outcome = "REVISION_CONFLICT"
      BY <1>1, <1>6, <2>1 DEF InConflict
    <3>3. Known(ServerCopy(r.tx), r.tx)
      BY <1>2, <1>3, <1>5, <3>2, ServerKnown
    <3>4. PICK copy : copy = ServerCopy(r.tx) /\ answers'[outbox[i].op] = copy /\ Known(copy, r.tx)
      BY <1>6, <2>1, <3>2, <3>3
    <3> QED BY <1>1, <1>3, <3>1, <3>4 DEF Known
  <2>2. CASE outbox[i].op # r.op
    <3>1. results'[outbox[i].op] = results[outbox[i].op] /\ answers'[outbox[i].op] = answers[outbox[i].op]
      BY <1>2, <1>6, <2>2
    <3>2. Known(answers[outbox[i].op], outbox[i].tx)
      BY <1>1, <3>1 DEF InConflict, NInv, Heard
    <3> QED BY <1>1, <3>1, <3>2 DEF Known
  <2> QED BY <2>1, <2>2
<1> QED BY <1>1, <1>8, <1>9, ServerGrounded

LEMMA ServerStepGrounded ==
    ASSUME SInv, NInv, Server
    PROVE  NInv'
BY AcceptedFrom, RefusesGrounded, AcceptsGrounded

(* A batch is of operations whose copies are known by now. *)
LEMMA PushGrounded ==
    ASSUME SInv, NInv, Push
    PROVE  NInv'
<1>0. /\ UNCHANGED <<rows, revisions, results, answers, deviceVars>> /\ UNCHANGED <<local, history, outbox, conflicts>>
      /\ sent' = sent \cup {outbox[i].op : i \in Batch} /\ sync' = [pc |-> "pushing", batch |-> Batch]
      /\ Orderly(outbox, sent, results) /\ DOMAIN outbox = 1 .. Len(outbox) /\ Len(outbox) \in Nat
  BY UserFinds, SeqIs DEF Push, ledgerVars, deviceVars
<1>1. ASSUME NEW i \in Batch
      PROVE  /\ i \in DOMAIN outbox /\ outbox[i].state = "pending"
             /\ \A j \in DOMAIN outbox : j < i /\ outbox[j].tx = outbox[i].tx => outbox[j].state \notin Unfinished
  <2>1. i \in DOMAIN outbox /\ Sendable(i)
    BY DEF Batch, Ready
  <2>2. \A j \in DOMAIN outbox : j < i => j \in 1 .. i - 1
    BY <1>0, <2>1
  <2> QED BY <2>1, <2>2 DEF Sendable
<1>2. \A copy, t : Known(copy, t) <=> Known(copy, t)'
  BY <1>0 DEF Known
<1>3. Founded(outbox, sent)'
  <2> SUFFICES ASSUME NEW i \in DOMAIN outbox, outbox[i].kind = "correct", Clean(outbox, i)
               PROVE  /\ outbox[i].op \in sent' => Known(outbox[i].basis, outbox[i].tx)
                      /\ outbox[i].state \in Unfinished =>
                            \/ Known(outbox[i].basis, outbox[i].tx)
                            \/ \E j \in DOMAIN outbox : j < i /\ Yields(outbox[j], outbox[i].basis, outbox[i].tx)
    BY <1>0, <1>2 DEF Founded, Clean, Yields
  <2>1. /\ outbox[i].op \in sent => Known(outbox[i].basis, outbox[i].tx)
        /\ outbox[i].state \in Unfinished =>
              \/ Known(outbox[i].basis, outbox[i].tx)
              \/ \E j \in DOMAIN outbox : j < i /\ Yields(outbox[j], outbox[i].basis, outbox[i].tx)
    BY DEF NInv, Lined, Founded
  <2>2. ASSUME outbox[i].op \in sent', outbox[i].op \notin sent PROVE Known(outbox[i].basis, outbox[i].tx)
    <3>1. PICK k \in Batch : outbox[i].op = outbox[k].op
      BY <1>0, <2>2
    <3>2. i = k
      BY <1>0, <1>1, <3>1 DEF Orderly
    <3>3. ~\E j \in DOMAIN outbox : j < i /\ Yields(outbox[j], outbox[i].basis, outbox[i].tx)
      BY <1>1, <3>2 DEF Yields
    <3> QED BY <1>1, <2>1, <3>2, <3>3 DEF Unfinished
  <2> QED BY <2>1, <2>2
<1>4. Lined(outbox, sent)'
  BY <1>0, <1>3 DEF NInv, Lined, Waiting, Free
<1>5. Attributed'
  BY <1>0 DEF NInv, Attributed, Rooted, Applied
<1>6. Present(local, outbox)'
  BY <1>0, <1>2 DEF NInv, Present, Shown, AllClean, Yields
<1>7. Snapped(outbox, history)'
  BY <1>0 DEF NInv, Snapped, SnappedAt, Clean
<1>8. Heard'
  <2>1. sync'.pc # "paged"
    BY <1>0
  <2>2. (\A i \in DOMAIN outbox : InConflict(outbox[i].op) => Known(answers[outbox[i].op], outbox[i].tx))'
    BY <1>0 DEF NInv, Heard, InConflict, Known
  <2>3. (\A c \in conflicts : Known(c.server, c.tx))'
    BY <1>0 DEF NInv, Heard, Known
  <2> QED BY <2>1, <2>2, <2>3 DEF Heard
<1> QED BY <1>4, <1>5, <1>6, <1>7, <1>8 DEF NInv

(* A page is of the server's versions. *)
LEMMA ServeGrounded ==
    ASSUME SInv, NInv, ServePage
    PROVE  NInv'
<1> DEFINE entry(n) == [tx |-> log[cursor + n].tx,
                        tombstone |-> log[cursor + n].tombstone,
                        row |-> IF log[cursor + n].tombstone THEN NoRow
                                ELSE ServerCopy(log[cursor + n].tx)]
           page == [n \in 1 .. PageEnd - cursor |-> entry(n)]
<1>0. ServerTyped /\ RunTyped
  BY DEF SInv, Typed
<1>1. /\ Len(log) \in Nat /\ DOMAIN log = 1 .. Len(log) /\ cursor \in 0 .. Len(log)
      /\ PageSize \in Nat /\ PageEnd \in Nat /\ PageEnd <= Len(log)
  BY <1>0, LogIs, SystemAssumption DEF RunTyped, PageEnd
<1>2. /\ sync' = [pc |-> "paged", page |-> page, more |-> PageEnd < Len(log)]
      /\ UNCHANGED <<revisions, results, answers, sent, local, history, outbox, conflicts>>
  BY DEF ServePage, ledgerVars, deviceVars
<1>3. \A n \in DOMAIN page : ~page[n].tombstone => Known(page[n].row, page[n].tx)
  <2> SUFFICES ASSUME NEW n \in 1 .. PageEnd - cursor, ~log[cursor + n].tombstone
               PROVE  Known(ServerCopy(log[cursor + n].tx), log[cursor + n].tx)
    OBVIOUS
  <2>1. cursor + n \in DOMAIN log
    BY <1>1
  <2>2. log[cursor + n].tx \in Txn /\ rows[log[cursor + n].tx] # NoRow
    BY <1>0, <2>1, LogIs DEF ServerTyped
  <2> QED BY <1>0, <2>2, ServerKnown
<1> HIDE DEF page
<1>4. sync'.page = page
  BY <1>2
<1> QED BY <1>2, <1>3, <1>4, DeviceGrounded DEF NInv, Attributed, Heard

(* Steps that touch neither copies, queue nor conflicts. *)
LEMMA RestGrounded ==
    ASSUME NInv, UNCHANGED <<revisions, results, answers, sent, local, history, outbox, conflicts>>,
           sync' = sync \/ sync'.pc # "paged"
    PROVE  NInv'
<1>1. sync'.pc = "paged" =>
         \A k \in DOMAIN sync'.page :
            ~sync'.page[k].tombstone => Known(sync'.page[k].row, sync'.page[k].tx)
  BY DEF NInv, Heard
<1> QED BY <1>1, DeviceGrounded DEF NInv, Attributed, Heard

-----------------------------------------------------------------------------
(* The same content, paid or not. *)
Resembles(old, copy) ==
    /\ old = NoRow => copy = NoRow
    /\ old # NoRow => old.deleted = copy.deleted /\ old.revision = copy.revision /\ old.by = copy.by

(* An answer to k: what it was to make is known, or it stays unfinished.   *)
LEMMA MarkedShown ==
    ASSUME NEW book \in Seq(Operation), NEW next, NEW k \in DOMAIN book, NEW state, NEW failed, NEW stops,
           Marked(book, next, k, state, failed, stops), Answering(book[k], state, stops),
           NEW old, NEW copy, NEW t, Resembles(old, copy), Shown(old, book, t)
    PROVE  Shown(copy, next, t)
<1>0. /\ state \in {"synced", "conflict", "rejected"} /\ (state = "synced" => MadeKnown(book[k]))
      /\ Resembles(old, copy)
  BY DEF Answering
<1>1. DOMAIN next = DOMAIN book
      /\ \A i \in DOMAIN book :
            /\ next[i].op = book[i].op /\ next[i].tx = book[i].tx /\ next[i].base = book[i].base
            /\ next[i].clean = book[i].clean
  <2>1. \A i \in DOMAIN book : next[i] = book[i] \/ Like(book[i], next[i])
    BY DEF Marked
  <2> QED BY <2>1 DEF Marked, Like
<1>2. \A i \in DOMAIN book \ {k} : book[i].state \in Unfinished => next[i].state \in Unfinished
  BY DEF Marked, Unfinished
<1>3. next[k].state = state
  BY DEF Marked
<1>4. AllClean(next, t) => AllClean(book, t)
  BY <1>1, CleanKept
<1> SUFFICES ASSUME copy # NoRow, ~copy.deleted, AllClean(book, t)
             PROVE  Known(copy, t) \/ \E j \in DOMAIN book : Yields(next[j], copy, t)
  BY <1>1, <1>4 DEF Shown
<1>5. /\ old.revision = copy.revision /\ old.by = copy.by
      /\ Known(old, t) \/ \E j \in DOMAIN book : Yields(book[j], old, t)
  BY <1>0 DEF Shown, Resembles
<1>6. CASE Known(old, t)
  BY <1>5, <1>6 DEF Known
<1>7. ASSUME NEW j \in DOMAIN book, Yields(book[j], old, t)
      PROVE  Known(copy, t) \/ Yields(next[j], copy, t)
  <2>1. Yields(book[j], copy, t) /\ book[j].tx = t /\ book[j].state \in Unfinished
    BY <1>5, <1>7 DEF Yields
  <2>2. CASE j = k /\ state = "synced"
    BY <1>0, <2>1, <2>2 DEF MadeKnown
  <2>3. CASE j = k /\ state # "synced"
    BY <1>0, <1>1, <1>3, <2>1, <2>3 DEF Yields, Unfinished
  <2>4. CASE j # k
    BY <1>1, <1>2, <2>1, <2>4 DEF Yields
  <2> QED BY <2>2, <2>3, <2>4
<1> QED BY <1>5, <1>6, <1>7

(* An answer drops no snapshot. *)
LEMMA MarkedSnapped ==
    ASSUME NEW book \in Seq(Operation), NEW next, NEW k \in DOMAIN book, book[k].state = "pending",
           NEW state, NEW failed, NEW stops, Marked(book, next, k, state, failed, stops),
           NEW past, Snapped(book, past)
    PROVE  Snapped(next, past)
<1>1. DOMAIN next = DOMAIN book
      /\ \A i \in DOMAIN book :
            /\ next[i].tx = book[i].tx /\ next[i].kind = book[i].kind /\ next[i].base = book[i].base
            /\ next[i].basis = book[i].basis /\ next[i].clean = book[i].clean
  <2>1. \A i \in DOMAIN book : next[i] = book[i] \/ Like(book[i], next[i])
    BY DEF Marked
  <2> QED BY <2>1 DEF Marked, Like
<1>2. \A i \in DOMAIN book : next[i].state \in {"pending", "rejected"} => book[i].state \in {"pending", "rejected"}
  <2> SUFFICES ASSUME NEW i \in DOMAIN book, next[i].state \in {"pending", "rejected"}
               PROVE  book[i].state \in {"pending", "rejected"}
    OBVIOUS
  <2>1. CASE i = k
    BY <2>1
  <2>2. CASE i # k
    BY <2>2 DEF Marked
  <2> QED BY <2>1, <2>2
<1>3. \A i \in DOMAIN book : Clean(next, i) <=> Clean(book, i)
  BY <1>1, CleanKept
<1> QED BY <1>1, <1>2, <1>3 DEF Snapped, SnappedAt

(* What a synced operation was to make is a revision of the server's. *)
LEMMA MarkGrounded ==
    ASSUME SInv, NInv, MarkNext
    PROVE  NInv'
<1>1. PICK i \in sync.todo : Mark(i, sync.outcome[i]) /\ MarksAt(i)
  BY DEF MarkNext, MarksAt
<1>2. sync.pc = "marking"
  BY DEF MarkNext
<1>3. /\ UNCHANGED <<revisions, results, answers, sent, history>>
      /\ sync'.pc # "paged"
  <2>1. UNCHANGED <<revisions, results, answers, sent, history>>
    BY <1>1 DEF MarksAt, ledgerVars, Mark, MarkApplied, MarkRejected, MarkConflict
  <2>2. sync'.pc # "paged"
    <3>1. SyncShape
      BY DEF SInv, Typed, RunTyped
    <3>2. sync = [pc |-> "marking", todo |-> sync.todo, outcome |-> sync.outcome]
      BY <1>2, <3>1 DEF SyncShape, Idle
    <3>3. [sync EXCEPT !.todo = @ \ {i}].pc = "marking"
      BY <3>2
    <3> QED BY <1>1, <3>3 DEF MarksAt, Idle
  <2> QED BY <2>1, <2>2
<1> DEFINE m == outbox[i]
<1>4. /\ m.tx \in Txn /\ i \in DOMAIN outbox /\ m.state = "pending" /\ outbox \in Seq(Operation)
      /\ local \in [Txn -> Copy \cup {NoRow}] /\ local[m.tx] \in Copy /\ m.op \in sent /\ m.op \in OpId
      /\ Orderly(outbox, sent, results)
  BY <1>1, <1>2, MarkFinds, UserFinds
<1>5. PICK state \in {"synced", "conflict", "rejected"}, failed \in BOOLEAN, stops \in BOOLEAN :
         /\ Marked(outbox, outbox', i, state, failed, stops)
         /\ Fits(outbox[i], results, state, failed, stops)
         /\ stops <=> state # "synced"
  BY <1>1, <1>2, QueueMarked
<1>6. state = "synced" => MadeKnown(outbox[i])
  <2> SUFFICES ASSUME state = "synced", NEW copy, Yields(m, copy, m.tx) PROVE Known(copy, m.tx)
    BY DEF MadeKnown
  <2>1. Applied(m.op) /\ Rooted(m)
    BY <1>4, <1>5 DEF Fits, Applied, NInv, Attributed
  <2>2. PICK x \in revisions : x.author = m.op /\ x.tx = m.tx /\ x.revision = m.base + 1
    BY <2>1 DEF Rooted
  <2> QED BY <2>2 DEF Yields, Known
<1>7. /\ Answering(outbox[i], state, stops)
      /\ Lined(outbox', sent)
  <2>1. Lined(outbox, sent)
    BY DEF NInv
  <2>2. Answering(outbox[i], state, stops)
    BY <1>5, <1>6 DEF Answering
  <2>3. Lined(outbox', sent)
    BY <1>4, <1>5, <2>1, <2>2, MarkedLined
  <2> QED BY <2>2, <2>3
<1>8. \A t \in Txn :
         /\ local[t] # NoRow => local[t].deleted = local'[t].deleted /\ local[t].revision = local'[t].revision
                                /\ local[t].by = local'[t].by
         /\ local[t] = NoRow => local'[t] = NoRow
  <2>1. local' = local \/ local' = [local EXCEPT ![m.tx].paid = FALSE]
    BY <1>1 DEF Mark, MarkApplied, MarkRejected, MarkConflict
  <2>2. /\ [local[m.tx] EXCEPT !.paid = FALSE].deleted = local[m.tx].deleted
        /\ [local[m.tx] EXCEPT !.paid = FALSE].revision = local[m.tx].revision
        /\ [local[m.tx] EXCEPT !.paid = FALSE].by = local[m.tx].by
    BY <1>4 DEF Copy
  <2> HIDE DEF m
  <2> QED BY <1>4, <2>1, <2>2, CopyAssumption
<1>9. Present(local', outbox')
  <2>1. ASSUME NEW t \in Txn PROVE Shown(local'[t], outbox', t)
    <3>1. Shown(local[t], outbox, t)
      BY DEF NInv, Present
    <3>2. PICK old, copy : old = local[t] /\ copy = local'[t]
      OBVIOUS
    <3>3. Resembles(old, copy) /\ Shown(old, outbox, t)
      BY <1>8, <3>1, <3>2 DEF Resembles
    <3>4. Shown(copy, outbox', t)
      BY <1>4, <1>5, <1>7, <3>3, MarkedShown
    <3> QED BY <3>2, <3>4
  <2> QED BY <2>1 DEF Present
<1>10. Snapped(outbox', history')
  BY <1>3, <1>4, <1>5, MarkedSnapped DEF NInv
<1>11. \A j \in DOMAIN outbox' : /\ Rooted(outbox'[j])
                                 /\ InConflict(outbox'[j].op) => Known(answers[outbox'[j].op], outbox'[j].tx)
  <2>1. DOMAIN outbox' = DOMAIN outbox
        /\ \A j \in DOMAIN outbox : outbox'[j] = outbox[j] \/ Like(outbox[j], outbox'[j])
    BY <1>5 DEF Marked
  <2>2. ASSUME NEW j \in DOMAIN outbox
        PROVE  Rooted(outbox'[j]) /\ outbox'[j].op = outbox[j].op /\ outbox'[j].tx = outbox[j].tx
    <3>1. Rooted(outbox[j])
      BY DEF NInv, Attributed
    <3>2. outbox'[j] = outbox[j] \/ Like(outbox[j], outbox'[j])
      BY <2>1
    <3>3. Rooted(outbox'[j])
      BY <3>1, <3>2, RootedLike
    <3> QED BY <3>2, <3>3 DEF Like
  <2> QED BY <2>1, <2>2 DEF NInv, Heard
<1>12. \A c \in conflicts' : Known(c.server, c.tx)
  <2>1. CASE sync.outcome[i] # "REVISION_CONFLICT"
    <3>1. conflicts' = conflicts
      BY <1>1, <2>1 DEF Mark, MarkApplied, MarkRejected
    <3> QED BY <3>1 DEF NInv, Heard
  <2>2. CASE sync.outcome[i] = "REVISION_CONFLICT"
    <3>1. InConflict(m.op)
      BY <1>1, <1>2, <2>2, MarkFinds DEF InConflict
    <3>2. Known(answers[m.op], m.tx)
      BY <1>4, <3>1 DEF NInv, Heard
    <3>3. PICK answer : answer = answers[m.op]
      OBVIOUS
    <3> DEFINE server == [local[m.tx] EXCEPT !.revision = answer.revision, !.by = answer.by, !.paid = answer.paid]
    <3>4. server.revision = answer.revision /\ server.by = answer.by
      BY <1>4 DEF Copy
    <3>5. \A c \in conflicts' : c \in conflicts \/ (c.tx = m.tx /\ c.server = server)
      <4>1. MarkConflict(i, answer)
        BY <1>1, <2>2, <3>3 DEF Mark
      <4> QED BY <4>1 DEF MarkConflict
    <3> HIDE DEF server
    <3>6. Known(server, m.tx)
      BY <3>2, <3>3, <3>4 DEF Known
    <3> QED BY <3>5, <3>6 DEF NInv, Heard
  <2> QED BY <2>1, <2>2
<1> QED BY <1>3, <1>7, <1>9, <1>10, <1>11, <1>12, DeviceGrounded

(* The device after some changes of a page. *)
Pulled(dev) ==
    /\ Cleared(outbox, dev.outbox)
    /\ Present(dev.local, dev.outbox)
    /\ \A h \in history \ dev.history :
          \E j \in DOMAIN outbox : outbox[j].tx = h.tx /\ dev.outbox[j] # outbox[j]
    /\ \A c \in dev.conflicts : Known(c.server, c.tx)

(* What a change ends stays over. *)
LEMMA UnblockedCleared ==
    ASSUME NEW book, NEW next, Cleared(book, next), NEW t
    PROVE  /\ Cleared(book, Unblocked(next, t))
           /\ Eased(next, Unblocked(next, t))
           /\ \A i \in DOMAIN book : next[i] # book[i] => Unblocked(next, t)[i] # book[i]
           /\ \A i \in DOMAIN book : next[i].tx = t /\ next[i].state = "rejected" => Unblocked(next, t)[i] # book[i]
           /\ \A i \in DOMAIN next : next[i].tx # t => Unblocked(next, t)[i] = next[i]
<1>1. /\ Eased(book, next) /\ Eased(next, next) /\ DOMAIN next = DOMAIN book
      /\ \A i \in DOMAIN book : next[i].tx = book[i].tx
      /\ \A i \in DOMAIN book : next[i] # book[i] => book[i].state # "resolved" /\ next[i].state = "resolved"
  BY DEF Cleared, Eased, Like
<1>2. PICK then : then = Unblocked(next, t)
  OBVIOUS
<1>3. /\ Eased(book, then) /\ Eased(next, then) /\ DOMAIN then = DOMAIN next
      /\ \A i \in DOMAIN next :
            /\ then[i].tx = next[i].tx
            /\ next[i].tx # t => then[i] = next[i]
            /\ next[i].tx = t => then[i].state # "rejected"
  <2>1. PICK u : u = t
    OBVIOUS
  <2>2. /\ Eased(book, Unblocked(next, u)) /\ Eased(next, Unblocked(next, u))
        /\ DOMAIN Unblocked(next, u) = DOMAIN next
        /\ \A i \in DOMAIN next :
              /\ Unblocked(next, u)[i].tx = next[i].tx
              /\ next[i].tx # u => Unblocked(next, u)[i] = next[i]
              /\ next[i].tx = u => Unblocked(next, u)[i].state # "rejected"
    BY <1>1, UnblockedIs
  <2> QED BY <1>2, <2>1, <2>2
<1>4. \A i \in DOMAIN book : next[i] # book[i] => then[i] # book[i]
  <2> SUFFICES ASSUME NEW i \in DOMAIN book, next[i] # book[i] PROVE then[i] # book[i]
    OBVIOUS
  <2>1. then[i] = next[i]
    BY <1>1, <1>3 DEF Eased
  <2> QED BY <2>1
<1>5. \A i \in DOMAIN book : next[i].tx = t /\ next[i].state = "rejected" => then[i] # book[i]
  <2> SUFFICES ASSUME NEW i \in DOMAIN book, next[i].tx = t, next[i].state = "rejected" PROVE then[i] # book[i]
    OBVIOUS
  <2>1. next[i] = book[i]
    BY <1>1
  <2> QED BY <1>1, <1>3, <2>1
<1>6. Cleared(book, then)
  <2> SUFFICES ASSUME NEW i \in DOMAIN book, NEW j \in DOMAIN book, book[i].tx = book[j].tx, then[j] # book[j]
               PROVE  then[i].state # "rejected"
    BY <1>3 DEF Cleared
  <2>1. CASE next[i].tx = t
    BY <1>1, <1>3, <2>1
  <2>2. CASE next[i].tx # t
    <3>1. then[j] = next[j] /\ then[i] = next[i]
      BY <1>1, <1>3, <2>2
    <3> QED BY <3>1 DEF Cleared
  <2> QED BY <2>1, <2>2
<1> QED BY <1>2, <1>3, <1>4, <1>5, <1>6

(* A change of a page brings the server's version and ends rejections. *)
LEMMA ChangeGrounded ==
    ASSUME SInv, NInv, sync.pc = "paged", NEW k \in Nat, k + 1 \in 1 .. Len(sync.page),
           NEW dev, Installing(k, dev), Pulled(dev)
    PROVE  Pulled(Installed(dev, sync.page[k + 1]))
<1>1. PICK change : change = sync.page[k + 1]
  OBVIOUS
<1>2. change.tx \in Txn /\ (~change.tombstone => Known(change.row, change.tx))
  <2>1. change.tx \in Txn /\ k + 1 \in DOMAIN sync.page
    BY <1>1, ChangeIs
  <2> QED BY <1>1, <2>1 DEF NInv, Heard
<1>3. dev.local \in [Txn -> Copy \cup {NoRow}] /\ dev.conflicts \subseteq Conflict /\ dev.history \subseteq history
      /\ Eased(outbox, dev.outbox)
  BY DEF Installing
<1> DEFINE u == change.tx
           next == Installed(dev, change)
           copy == IF ~change.tombstone THEN change.row
                   ELSE IF dev.local[u] = NoRow THEN NoRow
                   ELSE [dev.local[u] EXCEPT !.deleted = TRUE]
<1>4. /\ next.local = [dev.local EXCEPT ![u] = copy]
      /\ next.outbox = Unblocked(dev.outbox, u)
      /\ next.conflicts = Refreshed(dev.conflicts, change)
      /\ \A h \in dev.history \ next.history :
            h.tx = u /\ \E j \in DOMAIN dev.outbox : dev.outbox[j].tx = u /\ dev.outbox[j].state = "rejected"
  BY DEF Installed, Replaced
<1>5. /\ Cleared(outbox, next.outbox) /\ Eased(dev.outbox, next.outbox)
      /\ \A i \in DOMAIN outbox : dev.outbox[i] # outbox[i] => next.outbox[i] # outbox[i]
      /\ \A i \in DOMAIN outbox :
            dev.outbox[i].tx = u /\ dev.outbox[i].state = "rejected" => next.outbox[i] # outbox[i]
      /\ \A i \in DOMAIN dev.outbox : dev.outbox[i].tx # u => next.outbox[i] = dev.outbox[i]
  <2>1. PICK book, t : book = dev.outbox /\ t = u
    OBVIOUS
  <2>2. Cleared(outbox, book)
    BY <2>1 DEF Pulled
  <2>3. /\ Cleared(outbox, Unblocked(book, t)) /\ Eased(book, Unblocked(book, t))
        /\ \A i \in DOMAIN outbox : book[i] # outbox[i] => Unblocked(book, t)[i] # outbox[i]
        /\ \A i \in DOMAIN outbox : book[i].tx = t /\ book[i].state = "rejected" => Unblocked(book, t)[i] # outbox[i]
        /\ \A i \in DOMAIN book : book[i].tx # t => Unblocked(book, t)[i] = book[i]
    BY <2>2, UnblockedCleared
  <2> QED BY <1>4, <2>1, <2>3
<1>6. DOMAIN dev.outbox = DOMAIN outbox /\ \A i \in DOMAIN outbox : dev.outbox[i].tx = outbox[i].tx
  BY <1>3 DEF Eased, Like
<1>7. Shown(copy, next.outbox, u)
  <2>1. CASE ~change.tombstone
    BY <1>2, <2>1 DEF Shown
  <2>2. CASE change.tombstone /\ dev.local[u] = NoRow
    BY <2>2 DEF Shown
  <2>3. CASE change.tombstone /\ dev.local[u] # NoRow
    <3>1. dev.local[u] \in Copy
      BY <1>2, <1>3, <2>3
    <3>2. copy.deleted = TRUE
      BY <2>3, <3>1 DEF Copy
    <3> HIDE DEF copy
    <3> QED BY <3>2 DEF Shown
  <2> QED BY <2>1, <2>2, <2>3
<1>8. \A c \in next.conflicts : Known(c.server, c.tx)
  <2> SUFFICES ASSUME NEW c \in next.conflicts PROVE Known(c.server, c.tx)
    OBVIOUS
  <2>1. PICK d \in dev.conflicts :
           c = IF d.tx # u THEN d
               ELSE [d EXCEPT !.server = IF change.tombstone THEN [@ EXCEPT !.deleted = TRUE] ELSE change.row]
    BY <1>4 DEF Refreshed
  <2>2. d \in Conflict /\ d.server \in Copy /\ Known(d.server, d.tx)
    BY <1>3 DEF Pulled, Conflict
  <2>3. CASE d.tx # u
    BY <2>1, <2>2, <2>3
  <2>4. CASE d.tx = u /\ change.tombstone
    <3>1. c = [d EXCEPT !.server = [d.server EXCEPT !.deleted = TRUE]]
      BY <2>1, <2>4
    <3>2. c.tx = d.tx /\ c.server = [d.server EXCEPT !.deleted = TRUE]
      BY <2>2, <3>1 DEF Conflict
    <3>3. c.server.revision = d.server.revision /\ c.server.by = d.server.by
      BY <2>2, <3>2 DEF Copy
    <3> QED BY <2>2, <3>2, <3>3 DEF Known
  <2>5. CASE d.tx = u /\ ~change.tombstone
    <3>1. c = [d EXCEPT !.server = change.row]
      BY <2>1, <2>5
    <3>2. c.tx = d.tx /\ c.server = change.row
      BY <2>2, <3>1 DEF Conflict
    <3> QED BY <1>2, <2>5, <3>2
  <2> QED BY <2>3, <2>4, <2>5
<1> HIDE DEF next, copy
<1>9. Present(next.local, next.outbox)
  <2> SUFFICES ASSUME NEW t \in Txn PROVE Shown(next.local[t], next.outbox, t)
    BY DEF Present
  <2>1. CASE t = u
    BY <1>2, <1>3, <1>4, <1>7, <2>1
  <2>2. CASE t # u
    <3>1. next.local[t] = dev.local[t]
      BY <1>3, <1>4, <2>2
    <3>2. PICK old, then, shown : old = dev.outbox /\ then = next.outbox /\ shown = dev.local[t]
      OBVIOUS
    <3>3. /\ Eased(old, then) /\ Shown(shown, old, t)
          /\ \A i \in DOMAIN old : old[i].tx = t => then[i] = old[i]
      BY <1>5, <2>2, <3>2 DEF Pulled, Present
    <3>4. Shown(shown, then, t)
      BY <3>3, ShownKept
    <3> QED BY <3>1, <3>2, <3>4
  <2> QED BY <2>1, <2>2
<1>10. \A h \in history \ next.history :
          \E j \in DOMAIN outbox : outbox[j].tx = h.tx /\ next.outbox[j] # outbox[j]
  <2> SUFFICES ASSUME NEW h \in history, h \notin next.history
               PROVE  \E j \in DOMAIN outbox : outbox[j].tx = h.tx /\ next.outbox[j] # outbox[j]
    OBVIOUS
  <2>1. CASE h \notin dev.history
    <3>1. PICK j \in DOMAIN outbox : outbox[j].tx = h.tx /\ dev.outbox[j] # outbox[j]
      BY <2>1 DEF Pulled
    <3> QED BY <1>5, <3>1
  <2>2. CASE h \in dev.history
    <3>1. PICK j \in DOMAIN dev.outbox : h.tx = u /\ dev.outbox[j].tx = u /\ dev.outbox[j].state = "rejected"
      BY <1>4, <2>2
    <3> QED BY <1>5, <1>6, <3>1
  <2> QED BY <2>1, <2>2
<1>11. Pulled(next)
  BY <1>5, <1>8, <1>9, <1>10 DEF Pulled
<1> QED BY <1>1, <1>11 DEF next

(* What the server has heard of the operations, some of them over. *)
LEMMA EasedGrounded ==
    ASSUME NInv, NEW next, Eased(outbox, next)
    PROVE  \A i \in DOMAIN next :
              /\ Rooted(next[i])
              /\ InConflict(next[i].op) => Known(answers[next[i].op], next[i].tx)
<1> SUFFICES ASSUME NEW i \in DOMAIN outbox
             PROVE  /\ Rooted(next[i])
                    /\ InConflict(next[i].op) => Known(answers[next[i].op], next[i].tx)
  BY DEF Eased
<1>1. next[i] = outbox[i] \/ Like(outbox[i], next[i])
  BY DEF Eased
<1>2. Rooted(outbox[i]) /\ (InConflict(outbox[i].op) => Known(answers[outbox[i].op], outbox[i].tx))
  BY DEF NInv, Attributed, Heard
<1>3. Rooted(next[i])
  BY <1>1, <1>2, RootedLike
<1>4. next[i].op = outbox[i].op /\ next[i].tx = outbox[i].tx
  BY <1>1 DEF Like
<1> QED BY <1>2, <1>3, <1>4

(* One change after the other, to the end of the page. *)
LEMMA InstallGrounded ==
    ASSUME SInv, NInv, InstallPage
    PROVE  NInv'
<1>0. sync.pc = "paged" /\ outbox \in Seq(Operation) /\ Orderly(outbox, sent, results)
  BY UserFinds DEF InstallPage
<1> DEFINE L == Len(sync.page)
<1>1. L \in Nat
  BY <1>0, ChangeIs
<1>2. PICK after :
         /\ after[0] = Device
         /\ \A k \in Nat : k + 1 \in 1 .. L => after[k + 1] = Installed(after[k], sync.page[k + 1])
         /\ FoldLeft(Installed, Device, sync.page) = after[L]
  BY <1>0, PageSteps
<1>3. \A k \in 0 .. L : Installing(k, after[k])
  BY <1>0, <1>2, PageInstalled
<1> HIDE DEF L
<1>4. Pulled(after[0])
  <2>1. /\ Device.local = local /\ Device.outbox = outbox /\ Device.history = history
        /\ Device.conflicts = conflicts
    BY DEF Device
  <2>2. Cleared(outbox, outbox)
    BY <1>0 DEF Cleared, Eased
  <2> HIDE DEF Device
  <2> QED BY <1>2, <2>1, <2>2 DEF Pulled, NInv, Heard
<1> DEFINE S == {k \in Nat : k <= L => Pulled(after[k])}
<1>5. ASSUME NEW k \in S PROVE k + 1 \in S
  <2>1. CASE k + 1 <= L
    <3>1. k \in Nat /\ k \in 0 .. L /\ k + 1 \in 1 .. L
      BY <1>1, <2>1
    <3>2. Installing(k, after[k]) /\ Pulled(after[k])
      BY <1>1, <1>3, <3>1
    <3>3. Pulled(Installed(after[k], sync.page[k + 1]))
      BY <1>0, <3>1, <3>2, ChangeGrounded DEF L
    <3> QED BY <1>2, <3>1, <3>3
  <2>2. CASE ~(k + 1 <= L)
    BY <2>2
  <2> QED BY <2>1, <2>2
<1>6. Pulled(after[L]) /\ Installing(L, after[L])
  <2>1. 0 \in S
    BY <1>4
  <2> HIDE DEF S
  <2>2. S \in SUBSET Nat
    BY DEF S
  <2>3. L \in S
    BY <1>1, <1>5, <2>1, <2>2, CountingUp
  <2> QED BY <1>1, <1>3, <2>3 DEF S
<1>7. PICK dev : dev = after[L]
  OBVIOUS
<1>8. /\ local' = dev.local /\ outbox' = dev.outbox /\ history' = dev.history /\ conflicts' = dev.conflicts
      /\ UNCHANGED <<revisions, results, answers, sent>> /\ sync'.pc # "paged"
  BY <1>2, <1>7 DEF InstallPage, InstallChanges, ledgerVars, L, Idle
<1>9. /\ Cleared(outbox, outbox') /\ Present(local', outbox') /\ history' \subseteq history
      /\ \A h \in history \ history' :
            \E j \in DOMAIN outbox : outbox[j].tx = h.tx /\ outbox'[j] # outbox[j]
      /\ \A c \in conflicts' : Known(c.server, c.tx)
  BY <1>6, <1>7, <1>8 DEF Pulled, Installing
<1>10. Lined(outbox', sent) /\ Snapped(outbox', history')
  <2>1. Lined(outbox, sent) /\ Waiting(outbox) /\ Free(outbox) /\ Snapped(outbox, history)
    BY DEF NInv, Lined
  <2>2. Lined(outbox', sent)
    BY <1>0, <1>9, <2>1, ClearedLined
  <2>3. Snapped(outbox', history')
    BY <1>0, <1>9, <2>1, ClearedSnapped
  <2> QED BY <2>2, <2>3
<1>11. \A i \in DOMAIN outbox' :
          /\ Rooted(outbox'[i])
          /\ InConflict(outbox'[i].op) => Known(answers[outbox'[i].op], outbox'[i].tx)
  BY <1>9, EasedGrounded DEF Cleared
<1> QED BY <1>8, <1>9, <1>10, <1>11, DeviceGrounded

-----------------------------------------------------------------------------
(* A new operation, after others of the queue may be over.                 *)
LEMMA AppendGrounded ==
    ASSUME SInv, NInv, UNCHANGED <<revisions, results, answers, sent, sync>>,
           NEW book, Eased(outbox, book), Lined(book, sent), NEW m \in Operation, Fresh(m.op),
           m.state = "pending",
           m.kind = "create" => m.base = 0,
           m.kind = "correct" => m.basis \in Copy /\ m.base = m.basis.revision,
           m.clean => \A i \in DOMAIN book : book[i].tx = m.tx => book[i].state \notin {"conflict", "rejected"},
           m.kind = "correct" /\ m.clean => Shown(m.basis, book, m.tx) /\ m.basis # NoRow /\ ~m.basis.deleted,
           outbox' = Append(book, m), conflicts' \subseteq conflicts,
           \A u \in Txn : u # m.tx => Shown(local[u], book, u) /\ local'[u] = local[u],
           Yields(m, local'[m.tx], m.tx),
           NEW past, NEW entry, history' = past \cup {entry}, Snapped(book, past),
           entry.tx = m.tx, entry.revision = m.base + 1, m.kind = "correct" => entry.before = m.basis,
           \/ \A h \in past : ~(h.tx = m.tx /\ h.revision = m.base + 1)
           \/ m.kind = "create" /\ \A i \in DOMAIN book : book[i].tx # m.tx
    PROVE  NInv'
<1>1. m.op \notin sent /\ Rooted(m) /\ ~InConflict(m.op)
  BY NewRooted
<1>2. book \in Seq(Operation)
  BY DEF Eased
<1>3. /\ DOMAIN outbox' = DOMAIN book \cup {Len(book) + 1} /\ outbox'[Len(book) + 1] = m
      /\ \A i \in DOMAIN book : outbox'[i] = book[i]
  BY <1>2, AppendIs
<1>4. Lined(outbox', sent)
  <2>1. m.kind = "correct" /\ m.clean /\ AllClean(book, m.tx) =>
           \/ Known(m.basis, m.tx)
           \/ \E j \in DOMAIN book : Yields(book[j], m.basis, m.tx)
    BY DEF Shown
  <2>2. Lined(Append(book, m), sent)
    BY <1>1, <1>2, <2>1, AppendedLined
  <2> QED BY <2>2
<1>5. Present(local', outbox')
  <2>1. PICK copies, then : copies = local /\ then = local'
    OBVIOUS
  <2>2. \A u \in Txn : u # m.tx => Shown(copies[u], book, u) /\ then[u] = copies[u]
    BY <2>1
  <2>3. Yields(m, then[m.tx], m.tx)
    BY <2>1
  <2>4. Present(then, Append(book, m))
    BY <1>2, <2>2, <2>3, AppendedPresent
  <2> QED BY <2>1, <2>4
<1>6. Snapped(outbox', history')
  <2>1. Snapped(Append(book, m), past \cup {entry})
    BY <1>2, AppendedSnapped
  <2> QED BY <2>1
<1>7. \A i \in DOMAIN outbox' :
         /\ Rooted(outbox'[i])
         /\ InConflict(outbox'[i].op) => Known(answers[outbox'[i].op], outbox'[i].tx)
  <2>1. \A i \in DOMAIN book :
           /\ Rooted(book[i])
           /\ InConflict(book[i].op) => Known(answers[book[i].op], book[i].tx)
    BY EasedGrounded
  <2> QED BY <1>1, <1>3, <2>1
<1>8. \A c \in conflicts' : Known(c.server, c.tx)
  BY DEF NInv, Heard
<1>9. sync'.pc = "paged" =>
         \A k \in DOMAIN sync'.page :
            ~sync'.page[k].tombstone => Known(sync'.page[k].row, sync'.page[k].tx)
  BY DEF NInv, Heard
<1> QED BY <1>4, <1>5, <1>6, <1>7, <1>8, <1>9, DeviceGrounded

(* What the user finds. *)
LEMMA UserSees ==
    ASSUME NInv
    PROVE  /\ Lined(outbox, sent) /\ Waiting(outbox) /\ Free(outbox) /\ Snapped(outbox, history)
           /\ \A t \in Txn : Shown(local[t], outbox, t)
           /\ \A c \in conflicts : Known(c.server, c.tx)
BY DEF NInv, Lined, Present, Heard

(* A creation is made from nothing. *)
LEMMA CreateGrounded ==
    ASSUME SInv, NInv, NEW t \in Txn, NEW o \in OpId, NEW valid \in Payloads, Create(t, o, valid),
           UNCHANGED <<ledgerVars, systemVars>>
    PROVE  NInv'
<1> DEFINE m == NewOperation(o, t, "create", 0, valid, NoRow, TRUE)
           copy == [revision |-> 1, by |-> o, paid |-> TRUE, deleted |-> FALSE]
           entry == [tx |-> t, revision |-> 1, before |-> NoRow]
<1>1. /\ local[t] = NoRow /\ Fresh(o) /\ local' = [local EXCEPT ![t] = copy]
      /\ history' = history \cup {entry} /\ outbox' = Append(outbox, m) /\ conflicts' = conflicts
      /\ UNCHANGED <<revisions, results, answers, sent, sync>>
  BY DEF Create, ledgerVars, systemVars
<1>2. /\ m \in Operation /\ m.op = o /\ m.tx = t /\ m.kind = "create" /\ m.state = "pending"
      /\ m.base = 0
  BY SystemAssumption DEF NewOperation, Operation, OpState
<1>3. entry.tx = t /\ entry.revision = 1 /\ copy.by = o /\ copy.revision = 1
  OBVIOUS
<1> HIDE DEF m, entry, copy
<1>4. /\ local \in [Txn -> Copy \cup {NoRow}] /\ Eased(outbox, outbox)
      /\ \A i \in DOMAIN outbox : outbox[i].tx # t
  BY <1>1, UserFinds DEF Eased
<1>5. \A u \in Txn : u # t => Shown(local[u], outbox, u) /\ local'[u] = local[u]
  BY <1>1, <1>4, UserSees
<1>6. Yields(m, local'[m.tx], m.tx)
  BY <1>1, <1>2, <1>3, <1>4 DEF Yields, Unfinished
<1>7. Lined(outbox, sent) /\ Snapped(outbox, history)
  BY UserSees
<1>8. /\ outbox' = Append(outbox, m) /\ conflicts' \subseteq conflicts /\ Fresh(m.op)
      /\ m.clean => \A i \in DOMAIN outbox : outbox[i].tx = m.tx => outbox[i].state \notin {"conflict", "rejected"}
      /\ \A u \in Txn : u # m.tx => Shown(local[u], outbox, u) /\ local'[u] = local[u]
      /\ UNCHANGED <<revisions, results, answers, sent, sync>>
  BY <1>1, <1>2, <1>4, <1>5
<1>9. /\ history' = history \cup {entry} /\ entry.tx = m.tx /\ entry.revision = m.base + 1
      /\ m.kind = "create" /\ \A i \in DOMAIN outbox : outbox[i].tx # m.tx
  BY <1>1, <1>2, <1>3, <1>4
<1>10. m.kind = "create" /\ m.base = 0 /\ m.state = "pending" /\ m \in Operation /\ Eased(outbox, outbox)
  BY <1>2, <1>4
<1> QED BY <1>6, <1>7, <1>8, <1>9, <1>10, AppendGrounded

(* A correction is made from what the device showed when it was begun. *)
LEMMA SaveGrounded ==
    ASSUME SInv, NInv, NEW o \in OpId, NEW valid \in Payloads, SaveCorrection(o, valid),
           UNCHANGED <<ledgerVars, systemVars>>
    PROVE  NInv'
<1>0. PICK t, before : t = draft.tx /\ before = draft.before
  OBVIOUS
<1> DEFINE m == NewOperation(o, t, "correct", before.revision, valid, before,
                             local[t] = before /\ ~Blocked(t))
           copy == [revision |-> before.revision + 1, by |-> o, paid |-> TRUE, deleted |-> local[t].deleted]
           entry == [tx |-> t, revision |-> before.revision + 1, before |-> before]
<1>1. /\ draft # NoDraft /\ ~RevisionTaken(t, before.revision + 1) /\ Fresh(o)
      /\ local' = [local EXCEPT ![t] = copy]
      /\ history' = history \cup {entry} /\ outbox' = Append(outbox, m) /\ conflicts' = conflicts
      /\ UNCHANGED <<revisions, results, answers, sent, sync>>
  BY <1>0 DEF SaveCorrection, ledgerVars, systemVars
<1>2. t \in Txn /\ before \in Copy /\ ~before.deleted /\ before # NoRow
  BY <1>0, <1>1, UserFinds, CopyAssumption
<1>3. /\ m \in Operation /\ m.op = o /\ m.tx = t /\ m.kind = "correct" /\ m.state = "pending"
      /\ m.base = before.revision /\ m.basis = before
      /\ m.clean => local[t] = before /\ ~Blocked(t)
  <2>1. before.revision \in Nat
    BY <1>2 DEF Copy
  <2> QED BY <1>2, <2>1, SystemAssumption DEF NewOperation, Operation, OpState
<1>4. /\ entry.tx = t /\ entry.revision = before.revision + 1 /\ entry.before = before
      /\ copy.by = o /\ copy.revision = before.revision + 1
  OBVIOUS
<1> HIDE DEF m, entry, copy
<1>5. local \in [Txn -> Copy \cup {NoRow}] /\ Eased(outbox, outbox)
  BY UserFinds DEF Eased
<1>6. \A u \in Txn : u # t => Shown(local[u], outbox, u) /\ local'[u] = local[u]
  BY <1>1, <1>5, UserSees
<1>7. Yields(m, local'[m.tx], m.tx)
  BY <1>1, <1>2, <1>3, <1>4, <1>5 DEF Yields, Unfinished
<1>8. Lined(outbox, sent) /\ Snapped(outbox, history)
  BY UserSees
<1>9. /\ m.clean => \A i \in DOMAIN outbox : outbox[i].tx = m.tx => outbox[i].state \notin {"conflict", "rejected"}
      /\ m.clean => Shown(m.basis, outbox, m.tx)
      /\ \A h \in history : ~(h.tx = m.tx /\ h.revision = m.base + 1)
  BY <1>1, <1>2, <1>3, UserSees DEF Blocked, Has, RevisionTaken
<1> QED BY <1>1, <1>2, <1>3, <1>4, <1>5, <1>6, <1>7, <1>8, <1>9, AppendGrounded

(* A decision on a conflict ends what is unfinished and not pending. *)
LEMMA SettledGrounded ==
    ASSUME SInv, NInv, NEW t \in Txn, Has(outbox, t, {"conflict"}), NEW past, past \subseteq history,
           \A h \in history \ past : h.tx = t
    PROVE  /\ Cleared(outbox, Settled(t)) /\ Lined(Settled(t), sent) /\ Snapped(Settled(t), past)
           /\ \A i \in DOMAIN Settled(t) :
                 Settled(t)[i].tx = t => Settled(t)[i].state \notin {"conflict", "rejected"}
           /\ \A u \in Txn : u # t => Shown(local[u], Settled(t), u)
<1>1. PICK next : next = Settled(t)
  OBVIOUS
<1>2. /\ Eased(outbox, next) /\ DOMAIN next = DOMAIN outbox
      /\ \A i \in DOMAIN outbox :
            /\ next[i].tx = outbox[i].tx
            /\ outbox[i].tx # t => next[i] = outbox[i]
            /\ outbox[i].tx = t => next[i].state \notin {"conflict", "rejected"}
  <2>1. {"conflict", "rejected"} \in SUBSET {"conflict", "rejected"}
    OBVIOUS
  <2>2. /\ Eased(outbox, next)
        /\ \A i \in DOMAIN outbox :
              /\ outbox[i].tx # t \/ outbox[i].state \notin {"conflict", "rejected"} => next[i] = outbox[i]
              /\ outbox[i].tx = t /\ outbox[i].state \in {"conflict", "rejected"} => next[i].state = "resolved"
    BY <1>1, <2>1, UserFinds, SettledIs DEF Settled
  <2> QED BY <2>2 DEF Eased, Like
<1>3. Cleared(outbox, next)
  BY <1>2 DEF Cleared
<1>4. outbox \in Seq(Operation) /\ Orderly(outbox, sent, results)
  BY UserFinds
<1>5. Lined(outbox, sent) /\ Waiting(outbox) /\ Free(outbox) /\ Snapped(outbox, history)
      /\ \A u \in Txn : Shown(local[u], outbox, u)
  BY UserSees
<1>6. Lined(next, sent)
  BY <1>3, <1>4, <1>5, ClearedLined
<1>7. Snapped(next, past)
  <2>1. PICK k \in DOMAIN outbox : outbox[k].tx = t /\ outbox[k].state = "conflict"
    BY DEF Has
  <2>2. next[k] # outbox[k]
    BY <1>2, <2>1
  <2>3. \A h \in history \ past : \E j \in DOMAIN outbox : outbox[j].tx = h.tx /\ next[j] # outbox[j]
    BY <2>1, <2>2
  <2> QED BY <1>3, <1>4, <1>5, <2>3, ClearedSnapped
<1>8. ASSUME NEW u \in Txn, u # t PROVE Shown(local[u], next, u)
  <2>1. PICK copy : copy = local[u]
    OBVIOUS
  <2>2. Shown(copy, outbox, u) /\ \A i \in DOMAIN outbox : outbox[i].tx = u => next[i] = outbox[i]
    BY <1>2, <1>5, <1>8, <2>1
  <2>3. Shown(copy, next, u)
    BY <1>2, <2>2, ShownKept
  <2> QED BY <2>1, <2>3
<1> QED BY <1>1, <1>2, <1>3, <1>6, <1>7, <1>8

(* The server's version takes the place of the copy in conflict. *)
LEMMA ServerChosenGrounded ==
    ASSUME SInv, NInv, NEW c \in conflicts, ResolveWithServer(c), UNCHANGED <<ledgerVars, systemVars>>
    PROVE  NInv'
<1>1. /\ Has(outbox, c.tx, {"conflict"}) /\ local' = [local EXCEPT ![c.tx] = c.server]
      /\ history' = Forgotten(history, c.tx, c.local.revision) /\ outbox' = Settled(c.tx)
      /\ conflicts' \subseteq conflicts
      /\ UNCHANGED <<revisions, results, answers, sent, sync>>
  BY DEF ResolveWithServer, ledgerVars, systemVars
<1>2. c.tx \in Txn /\ local \in [Txn -> Copy \cup {NoRow}] /\ Known(c.server, c.tx)
  BY UserFinds, UserSees
<1>3. history' \subseteq history /\ \A h \in history \ history' : h.tx = c.tx
  BY <1>1 DEF Forgotten
<1>4. /\ Cleared(outbox, outbox') /\ Lined(outbox', sent) /\ Snapped(outbox', history')
      /\ \A u \in Txn : u # c.tx => Shown(local[u], outbox', u)
  <2>1. PICK t, past : t = c.tx /\ past = history'
    OBVIOUS
  <2>2. t \in Txn /\ Has(outbox, t, {"conflict"}) /\ past \subseteq history /\ \A h \in history \ past : h.tx = t
    BY <1>1, <1>2, <1>3, <2>1
  <2>3. /\ Cleared(outbox, Settled(t)) /\ Lined(Settled(t), sent) /\ Snapped(Settled(t), past)
        /\ \A u \in Txn : u # t => Shown(local[u], Settled(t), u)
    BY <2>2, SettledGrounded
  <2> QED BY <1>1, <2>1, <2>3
<1>5. Present(local', outbox')
  <2> SUFFICES ASSUME NEW u \in Txn PROVE Shown(local'[u], outbox', u)
    BY DEF Present
  <2>1. CASE u = c.tx
    <3>1. local'[u] = c.server
      BY <1>1, <1>2, <2>1
    <3> QED BY <1>2, <2>1, <3>1 DEF Shown
  <2>2. CASE u # c.tx
    <3>1. local'[u] = local[u]
      BY <1>1, <1>2, <2>2
    <3> QED BY <1>4, <2>2, <3>1
  <2> QED BY <2>1, <2>2
<1>6. \A d \in conflicts' : Known(d.server, d.tx)
  BY <1>1, UserSees
<1>7. \A i \in DOMAIN outbox' :
         /\ Rooted(outbox'[i])
         /\ InConflict(outbox'[i].op) => Known(answers[outbox'[i].op], outbox'[i].tx)
  BY <1>4, EasedGrounded DEF Cleared
<1>8. sync'.pc = "paged" =>
         \A k \in DOMAIN sync'.page :
            ~sync'.page[k].tombstone => Known(sync'.page[k].row, sync'.page[k].tx)
  BY <1>1 DEF NInv, Heard
<1> QED BY <1>1, <1>4, <1>5, <1>6, <1>7, <1>8, DeviceGrounded

(* A retry is made from the server's version. *)
LEMMA RetryGrounded ==
    ASSUME SInv, NInv, NEW c \in conflicts, NEW o \in OpId, ResolveWithRetry(c, o),
           UNCHANGED <<ledgerVars, systemVars>>
    PROVE  NInv'
<1>0. PICK t, server : t = c.tx /\ server = c.server
  OBVIOUS
<1> DEFINE m == NewOperation(o, t, "correct", server.revision, TRUE, server, TRUE)
           copy == [c.local EXCEPT !.revision = server.revision + 1, !.by = o, !.paid = FALSE]
           entry == [tx |-> t, revision |-> server.revision + 1, before |-> server]
           kept == Forgotten(history, t, c.local.revision)
<1>1. /\ Has(outbox, t, {"conflict"}) /\ ~server.deleted /\ Fresh(o)
      /\ ~\E h \in kept : h.tx = t /\ h.revision = server.revision + 1
      /\ local' = [local EXCEPT ![t] = copy]
      /\ history' = kept \cup {entry} /\ outbox' = Append(Settled(t), m)
      /\ conflicts' \subseteq conflicts
      /\ UNCHANGED <<revisions, results, answers, sent, sync>>
  BY <1>0 DEF ResolveWithRetry, ledgerVars, systemVars
<1>2. /\ t \in Txn /\ local \in [Txn -> Copy \cup {NoRow}] /\ server \in Copy /\ c.local \in Copy
      /\ Known(server, t) /\ server # NoRow
  BY <1>0, UserFinds, UserSees, CopyAssumption
<1>3. /\ m \in Operation /\ m.op = o /\ m.tx = t /\ m.kind = "correct" /\ m.state = "pending"
      /\ m.base = server.revision /\ m.basis = server /\ m.clean = TRUE
  <2>1. server.revision \in Nat
    BY <1>2 DEF Copy
  <2> QED BY <1>2, <2>1 DEF NewOperation, Operation, OpState
<1>4. /\ entry.tx = t /\ entry.revision = server.revision + 1 /\ entry.before = server
      /\ copy.by = o /\ copy.revision = server.revision + 1
  BY <1>2 DEF Copy
<1>5. kept \subseteq history /\ \A h \in history \ kept : h.tx = t
  BY DEF Forgotten
<1> HIDE DEF m, entry, copy, kept
<1>6. PICK book : book = Settled(t)
  OBVIOUS
<1>7. /\ Cleared(outbox, book) /\ Lined(book, sent) /\ Snapped(book, kept)
      /\ \A i \in DOMAIN book : book[i].tx = t => book[i].state \notin {"conflict", "rejected"}
      /\ \A u \in Txn : u # t => Shown(local[u], book, u)
  <2>1. PICK past : past = kept
    OBVIOUS
  <2>2. past \subseteq history /\ \A h \in history \ past : h.tx = t
    BY <1>5, <2>1
  <2>3. /\ Cleared(outbox, Settled(t)) /\ Lined(Settled(t), sent) /\ Snapped(Settled(t), past)
        /\ \A i \in DOMAIN Settled(t) :
              Settled(t)[i].tx = t => Settled(t)[i].state \notin {"conflict", "rejected"}
        /\ \A u \in Txn : u # t => Shown(local[u], Settled(t), u)
    BY <1>1, <1>2, <2>2, SettledGrounded
  <2> QED BY <1>6, <2>1, <2>3
<1>8. \A u \in Txn : u # t => Shown(local[u], book, u) /\ local'[u] = local[u]
  BY <1>1, <1>2, <1>7
<1>9. Yields(m, local'[m.tx], m.tx)
  BY <1>1, <1>2, <1>3, <1>4 DEF Yields, Unfinished
<1>10. Eased(outbox, book) /\ Lined(book, sent)
  BY <1>7 DEF Cleared
<1>11. /\ m \in Operation /\ Fresh(m.op) /\ m.state = "pending" /\ m.kind = "correct"
       /\ m.basis \in Copy /\ m.base = m.basis.revision /\ m.tx = t
       /\ Shown(m.basis, book, m.tx) /\ m.basis # NoRow /\ ~m.basis.deleted
  BY <1>1, <1>2, <1>3 DEF Shown
<1>12. /\ m.kind = "create" => m.base = 0
       /\ m.kind = "correct" => m.basis \in Copy /\ m.base = m.basis.revision
       /\ m.clean => \A i \in DOMAIN book : book[i].tx = m.tx => book[i].state \notin {"conflict", "rejected"}
       /\ m.kind = "correct" /\ m.clean => Shown(m.basis, book, m.tx) /\ m.basis # NoRow /\ ~m.basis.deleted
  BY <1>7, <1>11
<1>13. PICK past, snap : past = kept /\ snap = entry
  OBVIOUS
<1>14. /\ history' = past \cup {snap} /\ Snapped(book, past)
       /\ snap.tx = m.tx /\ snap.revision = m.base + 1 /\ (m.kind = "correct" => snap.before = m.basis)
       /\ \A h \in past : ~(h.tx = m.tx /\ h.revision = m.base + 1)
  BY <1>1, <1>3, <1>4, <1>7, <1>13
<1>15. /\ outbox' = Append(book, m) /\ conflicts' \subseteq conflicts
       /\ UNCHANGED <<revisions, results, answers, sent, sync>>
  BY <1>1, <1>6
<1>16. \A u \in Txn : u # m.tx => Shown(local[u], book, u) /\ local'[u] = local[u]
  BY <1>8, <1>11
<1> HIDE DEF m
<1> QED BY <1>9, <1>10, <1>11, <1>12, <1>14, <1>15, <1>16, AppendGrounded

-----------------------------------------------------------------------------
(* A discarded correction leaves the copy that the first one was made from, *)
(* which is known, or still waited for.                                    *)
LEMMA DiscardGrounded ==
    ASSUME SInv, NInv, NEW t \in Txn, DiscardRejected(t)
    PROVE  NInv'
<1>0. /\ UNCHANGED <<revisions, results, answers, sent, sync>> /\ Discard(t)
      /\ ~Has(outbox, t, {"conflict"})
  BY DEF DiscardRejected, Discard, ledgerVars
<1>1. PICK first \in Rejected(t), saved \in history :
         /\ \A j \in Rejected(t) : first <= j
         /\ first \in DOMAIN outbox /\ outbox[first].kind = "correct"
         /\ saved.tx = t /\ saved.revision = outbox[first].base + 1
         /\ local' = [local EXCEPT ![t] = saved.before]
         /\ history' = Forgotten(history, t, saved.before.revision + 1)
         /\ outbox' = MovedFrom(outbox, t, {"rejected"}, "resolved")
         /\ conflicts' = conflicts
  BY <1>0, DiscardIs
<1>2. PICK next, past : next = outbox' /\ past = history'
  OBVIOUS
<1>3. /\ Eased(outbox, next) /\ DOMAIN next = DOMAIN outbox
      /\ \A i \in DOMAIN outbox :
            /\ next[i].tx = outbox[i].tx /\ next[i].clean = outbox[i].clean
            /\ outbox[i].tx # t \/ outbox[i].state # "rejected" => next[i] = outbox[i]
            /\ outbox[i].tx = t => next[i].state # "rejected"
  <2>1. {"rejected"} \in SUBSET {"conflict", "rejected"}
    OBVIOUS
  <2>2. /\ Eased(outbox, next)
        /\ \A i \in DOMAIN outbox :
              /\ outbox[i].tx # t \/ outbox[i].state \notin {"rejected"} => next[i] = outbox[i]
              /\ outbox[i].tx = t /\ outbox[i].state \in {"rejected"} => next[i].state = "resolved"
    BY <1>1, <1>2, <2>1, UserFinds, SettledIs
  <2> QED BY <2>2 DEF Eased, Like
<1>4. /\ outbox[first].tx = t /\ outbox[first].state = "rejected" /\ next[first] # outbox[first]
      /\ Cleared(outbox, next)
  BY <1>1, <1>3 DEF Rejected, Cleared
<1>5. /\ outbox \in Seq(Operation) /\ Orderly(outbox, sent, results)
      /\ local \in [Txn -> Copy \cup {NoRow}] /\ Lined(outbox, sent)
      /\ Waiting(outbox) /\ Free(outbox) /\ Snapped(outbox, history)
      /\ \A u \in Txn : Shown(local[u], outbox, u)
  BY UserFinds, UserSees
<1>6. Lined(next, sent)
  BY <1>4, <1>5, ClearedLined
<1>7. Snapped(next, past)
  <2>1. past \subseteq history /\ \A h \in history \ past : h.tx = t
    BY <1>1, <1>2 DEF Forgotten
  <2>2. \A h \in history \ past : \E j \in DOMAIN outbox : outbox[j].tx = h.tx /\ next[j] # outbox[j]
    BY <1>1, <1>4, <2>1
  <2> QED BY <1>4, <1>5, <2>1, <2>2, ClearedSnapped
<1>8. Shown(saved.before, next, t)
  <2> SUFFICES ASSUME AllClean(next, t)
               PROVE  \/ Known(saved.before, t)
                      \/ \E j \in DOMAIN next : Yields(next[j], saved.before, t)
    BY DEF Shown
  <2>1. Clean(outbox, first)
    BY <1>3, <1>4 DEF AllClean, Clean
  <2>2. saved.before = outbox[first].basis
    BY <1>1, <1>4, <1>5, <2>1 DEF Snapped, SnappedAt
  <2>3. \/ Known(saved.before, t)
        \/ \E j \in DOMAIN outbox : j < first /\ Yields(outbox[j], saved.before, t)
    BY <1>1, <1>4, <1>5, <2>1, <2>2 DEF Lined, Founded, Unfinished
  <2>4. ASSUME NEW j \in DOMAIN outbox, j < first, Yields(outbox[j], saved.before, t)
        PROVE  Yields(next[j], saved.before, t)
    <3>1. j \in Nat /\ first \in Nat
      BY <1>1, <1>5, SeqIs
    <3>2. outbox[j].tx = t /\ j \notin Rejected(t)
      BY <1>1, <2>4, <3>1 DEF Yields
    <3>3. outbox[j].state # "rejected"
      BY <3>2 DEF Rejected
    <3>4. next[j] = outbox[j]
      BY <1>3, <3>3
    <3> QED BY <2>4, <3>4
  <2> QED BY <1>3, <2>3, <2>4
<1>9. Present(local', next)
  <2> SUFFICES ASSUME NEW u \in Txn PROVE Shown(local'[u], next, u)
    BY DEF Present
  <2>1. CASE u = t
    BY <1>1, <1>5, <1>8, <2>1
  <2>2. CASE u # t
    <3>1. PICK copy : copy = local[u] /\ copy = local'[u]
      BY <1>1, <1>5, <2>2
    <3>2. Shown(copy, outbox, u) /\ \A i \in DOMAIN outbox : outbox[i].tx = u => next[i] = outbox[i]
      BY <1>3, <1>5, <2>2, <3>1
    <3>3. Shown(copy, next, u)
      BY <1>3, <3>2, ShownKept
    <3> QED BY <3>1, <3>3
  <2> QED BY <2>1, <2>2
<1>10. \A i \in DOMAIN outbox' :
          /\ Rooted(outbox'[i])
          /\ InConflict(outbox'[i].op) => Known(answers[outbox'[i].op], outbox'[i].tx)
  <2>1. \A i \in DOMAIN next :
           /\ Rooted(next[i])
           /\ InConflict(next[i].op) => Known(answers[next[i].op], next[i].tx)
    BY <1>3, EasedGrounded
  <2> QED BY <1>2, <2>1
<1>11. \A c \in conflicts' : Known(c.server, c.tx)
  BY <1>1, UserSees
<1>12. sync'.pc = "paged" =>
          \A k \in DOMAIN sync'.page :
             ~sync'.page[k].tombstone => Known(sync'.page[k].row, sync'.page[k].tx)
  BY <1>0 DEF NInv, Heard
<1> QED BY <1>0, <1>2, <1>6, <1>7, <1>9, <1>10, <1>11, <1>12, DeviceGrounded

LEMMA UserGrounded ==
    ASSUME SInv, NInv, User
    PROVE  NInv'
<1>1. UNCHANGED <<ledgerVars, systemVars>>
  BY DEF User
<1>2. ASSUME NEW t \in Txn, BeginCorrection(t) PROVE NInv'
  BY <1>1, <1>2, RestGrounded DEF BeginCorrection, ledgerVars, systemVars
<1>3. CASE FailCorrection
  BY <1>1, <1>3, RestGrounded DEF FailCorrection, ledgerVars, systemVars
<1> QED BY <1>1, <1>2, <1>3, CreateGrounded, SaveGrounded, ServerChosenGrounded, RetryGrounded DEF User

LEMMA StepGrounded ==
    ASSUME SInv, NInv, [Next]_vars
    PROVE  NInv'
<1>1. CASE User
  BY <1>1, UserGrounded
<1>2. ASSUME NEW t \in Txn, DiscardRejected(t) PROVE NInv'
  BY <1>2, DiscardGrounded
<1>3. CASE Server
  BY <1>3, ServerStepGrounded
<1>4. CASE Push
  BY <1>4, PushGrounded
<1>5. CASE MarkNext
  BY <1>5, MarkGrounded
<1>6. CASE ServePage
  BY <1>6, ServeGrounded
<1>7. CASE InstallPage
  BY <1>7, InstallGrounded
<1>8. CASE ReceiveResults \/ StartPull \/ LoseRequest \/ Kill \/ UNCHANGED vars
  <2>1. UNCHANGED <<revisions, results, answers, sent, local, history, outbox, conflicts>>
    BY <1>8 DEF ReceiveResults, StartPull, LoseRequest, Kill, vars, ledgerVars, deviceVars, systemVars
  <2>2. sync' = sync \/ sync'.pc # "paged"
    BY <1>8 DEF ReceiveResults, StartPull, LoseRequest, Kill, vars, systemVars, Idle
  <2> QED BY <2>1, <2>2, RestGrounded
<1> QED BY <1>1, <1>2, <1>3, <1>4, <1>5, <1>6, <1>7, <1>8 DEF Next, Run

LEMMA InitGrounded ==
    ASSUME Init, SInv
    PROVE  NInv
<1>0. /\ LedgerInit /\ local = [t \in Txn |-> ServerCopy(t)] /\ history = {} /\ outbox = <<>>
      /\ conflicts = {} /\ sync = Idle
  BY DEF Init
<1>1. DOMAIN outbox = {} /\ ServerTyped
  BY <1>0 DEF SInv, Typed
<1>2. Attributed
  <2>1. \A x \in revisions : x.author = Direct
    BY <1>0 DEF LedgerInit, Seeded
  <2> QED BY <1>1, <2>1, RulesAssumption DEF Attributed
<1>3. Lined(outbox, sent) /\ Snapped(outbox, history)
  BY <1>1 DEF Lined, Waiting, Free, Founded, Snapped
<1>4. Present(local, outbox)
  <2> SUFFICES ASSUME NEW t \in Txn, local[t] # NoRow PROVE Known(local[t], t)
    BY DEF Present, Shown
  <2>1. rows[t] # NoRow /\ local[t] = ServerCopy(t)
    BY <1>0 DEF ServerCopy
  <2> QED BY <1>1, <2>1, ServerKnown
<1>5. Heard
  BY <1>0, <1>1 DEF Heard, Idle
<1> QED BY <1>2, <1>3, <1>4, <1>5 DEF NInv

LEMMA Grounded == Spec => [](SInv /\ NInv)
<1>1. Init => SInv /\ NInv
  BY InitKeeps, InitGrounded
<1>2. SInv /\ NInv /\ [Next]_vars => (SInv /\ NInv)'
  BY NextKeeps, StepGrounded
<1> QED BY <1>1, <1>2, PTL DEF Spec

(* An applied correction replaces the revision that its user corrected,    *)
(* also when that was the device's own unsent correction, as long as it    *)
(* and those before it were written on the copies they were read from.     *)
(* (ApplySyncMutation, saveMutation, runSync).                             *)
THEOREM NothingOverwritten == Spec => []NoBlindOverwrite
<1>1. ASSUME SInv, NInv PROVE NoBlindOverwrite
  <2> SUFFICES ASSUME NEW i \in DOMAIN outbox, outbox[i].kind = "correct",
                      \A j \in 1 .. i : outbox[j].tx = outbox[i].tx => outbox[j].clean,
                      NEW x \in revisions, x.author = outbox[i].op
               PROVE  outbox[i].basis.revision = x.base /\ outbox[i].basis.by = Author(x.tx, x.base)
    BY DEF NoBlindOverwrite, Overwrites
  <2> DEFINE m == outbox[i]
  <2>1. /\ RevisionChain /\ m.op \in OpId /\ m.tx \in Txn
        /\ DOMAIN outbox = 1 .. Len(outbox) /\ Len(outbox) \in Nat
    <3>1. RevisionChain
      BY <1>1 DEF SInv, Typed, ServerTyped
    <3>2. outbox \in Seq(Operation) /\ m.tx \in Txn
      BY <1>1, UserFinds
    <3>3. m \in Operation /\ DOMAIN outbox = 1 .. Len(outbox) /\ Len(outbox) \in Nat
      BY <3>2, SeqIs
    <3> QED BY <3>1, <3>2, <3>3 DEF Operation
  <2>2. m.op \in sent /\ Rooted(m)
    BY <1>1, <2>1 DEF NInv, Attributed
  <2>3. x.tx = m.tx /\ x.base = m.base /\ m.base = m.basis.revision
    BY <2>2 DEF Rooted
  <2>4. Clean(outbox, i)
    BY <2>1 DEF Clean
  <2>5. PICK y \in revisions : y.tx = m.tx /\ y.revision = m.basis.revision /\ y.author = m.basis.by
    BY <1>1, <2>2, <2>4 DEF NInv, Lined, Founded, Known
  <2>6. Author(m.tx, m.basis.revision) = m.basis.by
    BY <2>1, <2>5 DEF RevisionChain, Author
  <2> QED BY <2>3, <2>6
<1> QED BY <1>1, Grounded, PTL
=============================================================================
