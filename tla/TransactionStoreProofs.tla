----------------------- MODULE TransactionStoreProofs -----------------------
(***************************************************************************)
(* Theorems about TransactionStore, and about ChangeFeed, which has a      *)
(* device pull what its workers commit: for any number of workers,         *)
(* requests, operations and transactions, and any size of a page.          *)
(*                                                                         *)
(* The first part is about the serial Ledger: what its rules keep holds of *)
(* the store because every commit is a step of the ledger (Refinement).    *)
(***************************************************************************)
EXTENDS ChangeFeed, WellFoundedInduction, TLAPS

-----------------------------------------------------------------------------
(***************************************************************************)
(* The business rules produce rows and revisions.                          *)
(***************************************************************************)

(* A handler that accepts a request writes a well-formed row. *)
LEMMA AfterIsRow ==
    ASSUME NEW row \in Row \cup {NoRow}, NEW r \in Request,
           Verdict(row, r) = "applied"
    PROVE  After(row, r) \in Row
<1>1. CASE r.kind = "create"
  <2>1. After(row, r) = CreatedRow(r)
    BY <1>1 DEF After
  <2> QED
    BY <2>1 DEF CreatedRow, MethodOf, Row, Request, PaymentStatus,
                PrintState, AttemptStatus, PaymentMethod
<1>2. CASE r.kind = "correct"
  <2>1. row \in Row
    BY <1>2 DEF Verdict, CorrectVerdict
  <2>2. After(row, r) = CorrectedRow(row, r)
    BY <1>2 DEF After
  <2>3. row.revision + 1 \in Nat \ {0}
    BY <2>1 DEF Row
  <2>4. MethodOf(r) \in PaymentMethod
    BY DEF MethodOf, PaymentMethod
  <2> QED
    BY <2>1, <2>2, <2>3, <2>4
       DEF CorrectedRow, Row, PaymentStatus, PrintState, AttemptStatus
<1>3. CASE r.kind = "payment"
  <2>1. row \in Row /\ r.status \in PaymentOutcome
    BY <1>3 DEF Verdict, PaymentVerdict
  <2>2. After(row, r) = PaidRow(row, r)
    BY <1>3 DEF After
  <2>3. CASE r.status = row.payment
    BY <2>1, <2>2, <2>3 DEF PaidRow
  <2>4. CASE r.status # row.payment
    <3> DEFINE confirmed == IF r.status = "success" THEN row.revision ELSE 0
    <3>1. confirmed \in Nat /\ r.status \in PaymentStatus
      BY <2>1 DEF Row, PaymentOutcome, PaymentStatus
    <3>2. After(row, r) = [row EXCEPT !.payment = r.status,
                                      !.confirmed = confirmed]
      BY <2>2, <2>4 DEF PaidRow
    <3> HIDE DEF confirmed
    <3> QED
      BY <2>1, <3>1, <3>2 DEF Row
  <2> QED
    BY <2>3, <2>4
<1>4. CASE r.kind = "print"
  <2>1. row \in Row
    BY <1>4 DEF Verdict, PrintVerdict
  <2>2. After(row, r) = PrintedRow(row, r)
    BY <1>4 DEF After
  <2> QED
    BY <2>1, <2>2 DEF PrintedRow, Row, Request, PrintState
<1>5. CASE r.kind = "delete"
  <2>1. row \in Row
    BY <1>5 DEF Verdict, DeleteVerdict
  <2>2. After(row, r) = DeletedRow(row)
    BY <1>5 DEF After
  <2> QED
    BY <2>1, <2>2 DEF DeletedRow, Row
<1> QED
  BY <1>1, <1>2, <1>3, <1>4, <1>5 DEF Request, Kind

(* The revision a handler appends is well-formed. *)
LEMMA NewRevisionsType ==
    ASSUME NEW row \in Row \cup {NoRow}, NEW r \in Request,
           Verdict(row, r) = "applied"
    PROVE  NewRevisions(row, r) \subseteq Revision
<1>1. CASE r.kind = "create"
  BY <1>1 DEF NewRevisions, Revision, Request
<1>2. CASE r.kind = "correct"
  <2>1. row \in Row
    BY <1>2 DEF Verdict, CorrectVerdict
  <2>2. row.revision \in Nat /\ row.revision + 1 \in Nat \ {0}
    BY <2>1 DEF Row
  <2> QED
    BY <1>2, <2>2 DEF NewRevisions, Revision, Request
<1>3. CASE r.kind \notin {"create", "correct"}
  BY <1>3 DEF NewRevisions
<1> QED
  BY <1>1, <1>2, <1>3

(* Refusals are refusals. *)
LEMMA VerdictOutcome ==
    ASSUME NEW row \in Row \cup {NoRow}, NEW r \in Request,
           Verdict(row, r) # "applied"
    PROVE  Verdict(row, r) \in Refusal
BY DEF Verdict, CreateVerdict, CorrectVerdict, PaymentVerdict, PrintVerdict,
       DeleteVerdict, Refusal, Request, Kind

(* Recording the outcome of a request keeps the idempotency table typed. *)
LEMMA RecordedType ==
    ASSUME results \in [OpId -> Result \cup {NoResult}],
           NEW r \in Request, NEW outcome \in Outcome
    PROVE  Recorded(r, outcome) \in [OpId -> Result \cup {NoResult}]
BY DEF Recorded, Result, Request


(* A handler that accepts a request keeps the payment of the row settled.  *)
LEMMA AfterSettled ==
    ASSUME NEW row \in Row \cup {NoRow}, NEW r \in Request,
           Verdict(row, r) = "applied", row # NoRow => SettledRow(row)
    PROVE  SettledRow(After(row, r))
<1>1. CASE r.kind = "create"
  BY <1>1 DEF After, CreatedRow, SettledRow
<1>2. CASE r.kind = "correct"
  <2>1. row \in Row
    BY <1>2 DEF Verdict, CorrectVerdict
  <2> QED
    BY <1>2, <2>1 DEF After, CorrectedRow, SettledRow, Row
<1>3. CASE r.kind = "payment"
  <2>1. row \in Row /\ r.status \in PaymentOutcome /\ row # NoRow
    BY <1>3 DEF Verdict, PaymentVerdict
  <2>2. CASE r.status = row.payment
    BY <1>3, <2>1, <2>2 DEF After, PaidRow
  <2>3. CASE r.status # row.payment
    BY <1>3, <2>1, <2>3 DEF After, PaidRow, SettledRow, Row
  <2> QED
    BY <2>2, <2>3
<1>4. CASE r.kind = "print"
  <2>1. row \in Row /\ row # NoRow
    BY <1>4 DEF Verdict, PrintVerdict
  <2> QED
    BY <1>4, <2>1 DEF After, PrintedRow, SettledRow, Row
<1>5. CASE r.kind = "delete"
  <2>1. row \in Row /\ row # NoRow
    BY <1>5 DEF Verdict, DeleteVerdict
  <2> QED
    BY <1>5, <2>1 DEF After, DeletedRow, SettledRow, Row
<1> QED
  BY <1>1, <1>2, <1>3, <1>4, <1>5 DEF Request, Kind

(* A handler that accepts a request keeps the print state honest.          *)
LEMMA AfterHonest ==
    ASSUME NEW row \in Row \cup {NoRow}, NEW r \in Request,
           Verdict(row, r) = "applied", row # NoRow => HonestPrint(row)
    PROVE  HonestPrint(After(row, r))
<1>1. CASE r.kind = "create"
  BY <1>1 DEF After, CreatedRow, HonestPrint
<1>2. CASE r.kind = "correct"
  <2>1. row \in Row /\ row # NoRow
    BY <1>2 DEF Verdict, CorrectVerdict
  <2> DEFINE after == CorrectedRow(row, r)
  <2>2. /\ after.revision = row.revision + 1
        /\ after.printed = row.printed
        /\ after.print = IF row.printed # 0 THEN "needs-reprint" ELSE "pending"
    BY <2>1 DEF CorrectedRow, Row
  <2>3. /\ row.revision \in Nat
        /\ row.printed \in Nat
        /\ row.printed <= row.revision
    BY <2>1 DEF Row, HonestPrint
  <2> HIDE DEF after
  <2>4. HonestPrint(after)
    BY <2>2, <2>3 DEF HonestPrint
  <2> QED
    BY <1>2, <2>4 DEF After, after
<1>3. CASE r.kind = "payment"
  <2>1. row \in Row /\ r.status \in PaymentOutcome /\ row # NoRow
        /\ ~(row.payment = "success" /\ r.status # "success")
    BY <1>3 DEF Verdict, PaymentVerdict
  <2>2. CASE r.status = row.payment
    BY <1>3, <2>1, <2>2 DEF After, PaidRow
  <2>3. CASE r.status # row.payment
    BY <1>3, <2>1, <2>3 DEF After, PaidRow, HonestPrint, Row
  <2> QED
    BY <2>2, <2>3
<1>4. CASE r.kind = "print"
  <2>1. row \in Row /\ row # NoRow /\ r.base = row.revision
        /\ row.payment = "success"
    BY <1>4 DEF Verdict, PrintVerdict
  <2> DEFINE after == PrintedRow(row, r)
  <2>2. /\ after.revision = row.revision
        /\ after.payment = row.payment
        /\ after.print = r.status
        /\ after.printed = IF r.status = "success" THEN r.base ELSE row.printed
    BY <2>1 DEF PrintedRow, Row
  <2>3. row.revision \in Nat /\ row.printed <= row.revision
    BY <2>1 DEF Row, HonestPrint
  <2>4. r.status # "needs-reprint"
    BY DEF Request, AttemptStatus
  <2> HIDE DEF after
  <2>5. HonestPrint(after)
    BY <2>1, <2>2, <2>3, <2>4 DEF HonestPrint
  <2> QED
    BY <1>4, <2>5 DEF After, after
<1>5. CASE r.kind = "delete"
  <2>1. row \in Row /\ row # NoRow
    BY <1>5 DEF Verdict, DeleteVerdict
  <2> QED
    BY <1>5, <2>1 DEF After, DeletedRow, HonestPrint, Row
<1> QED
  BY <1>1, <1>2, <1>3, <1>4, <1>5 DEF Request, Kind

(* No request is accepted on a deleted row.                                *)
LEMMA DeletedRefuses ==
    ASSUME NEW row \in Row \cup {NoRow}, NEW r \in Request,
           Verdict(row, r) = "applied", row # NoRow
    PROVE  ~row.deleted
BY DEF Verdict, CreateVerdict, CorrectVerdict, PaymentVerdict, PrintVerdict,
       DeleteVerdict, Request, Kind

-----------------------------------------------------------------------------
(***************************************************************************)
(* Type correctness of the ledger.                                         *)
(***************************************************************************)
LedgerTypeOK ==
    /\ rows \in [Txn -> Row \cup {NoRow}]
    /\ revisions \subseteq Revision
    /\ results \in [OpId -> Result \cup {NoResult}]

(* The tables keep their column types when any request is accepted.        *)
LEMMA ApplyTyped ==
    ASSUME LedgerTypeOK, NEW r \in Request, Apply(r)
    PROVE  LedgerTypeOK'
<1>1. rows[r.tx] \in Row \cup {NoRow}
  BY DEF LedgerTypeOK, Request
<1>2. After(rows[r.tx], r) \in Row
  BY <1>1, AfterIsRow DEF Apply
<1>3. NewRevisions(rows[r.tx], r) \subseteq Revision
  BY <1>1, NewRevisionsType DEF Apply
<1>4. results' \in [OpId -> Result \cup {NoResult}]
  BY RecordedType DEF Apply, LedgerTypeOK, Outcome
<1> QED
  BY <1>2, <1>3, <1>4 DEF Apply, LedgerTypeOK

(* The ledger's tables keep their column types.                            *)
LEMMA LedgerType == LedgerSpec => []LedgerTypeOK
<1>1. LedgerInit => LedgerTypeOK
  <2> SUFFICES ASSUME LedgerInit PROVE LedgerTypeOK
    OBVIOUS
  <2>1. rows \in [Txn -> Row \cup {NoRow}]
    BY LedgerAssumption DEF LedgerInit
  <2>2. revisions \subseteq Revision
    BY DEF LedgerInit, Seeded, Revision
  <2> QED
    BY <2>1, <2>2 DEF LedgerInit, LedgerTypeOK
<1>2. LedgerTypeOK /\ [LedgerNext]_ledgerVars => LedgerTypeOK'
  <2> SUFFICES ASSUME LedgerTypeOK, [LedgerNext]_ledgerVars
               PROVE  LedgerTypeOK'
    OBVIOUS
  <2>1. CASE UNCHANGED ledgerVars
    BY <2>1 DEF ledgerVars, LedgerTypeOK
  <2>2. ASSUME NEW r \in Requests, Apply(r) PROVE LedgerTypeOK'
    BY <2>2, LedgerAssumption, ApplyTyped
  <2>3. ASSUME NEW r \in Requests, Refuse(r) PROVE LedgerTypeOK'
    <3>1. PICK outcome \in Refusal : results' = Recorded(r, outcome)
      BY <2>3 DEF Refuse
    <3>2. results' \in [OpId -> Result \cup {NoResult}]
      BY <3>1, LedgerAssumption, RecordedType DEF LedgerTypeOK, Outcome
    <3> QED
      BY <2>3, <3>2 DEF Refuse, LedgerTypeOK
  <2> QED
    BY <2>1, <2>2, <2>3 DEF LedgerNext
<1> QED
  BY <1>1, <1>2, PTL DEF LedgerSpec

-----------------------------------------------------------------------------
(***************************************************************************)
(* The rows: payments stay settled and print states honest.                *)
(***************************************************************************)
LEMMA LedgerRows == LedgerSpec => [](PaymentConfirmed /\ PrintStateHonest)
<1>1. LedgerInit => PaymentConfirmed /\ PrintStateHonest
  <2> SUFFICES ASSUME LedgerInit, NEW t \in Txn, rows[t] # NoRow
               PROVE  SettledRow(rows[t]) /\ HonestPrint(rows[t])
    BY DEF PaymentConfirmed, PrintStateHonest
  <2>1. rows[t] \in Existing
    BY DEF LedgerInit
  <2> QED
    BY <2>1, LedgerAssumption
<1>2. LedgerTypeOK /\ PaymentConfirmed /\ PrintStateHonest
         /\ [LedgerNext]_ledgerVars
      => (PaymentConfirmed /\ PrintStateHonest)'
  <2> SUFFICES ASSUME LedgerTypeOK, PaymentConfirmed, PrintStateHonest,
                      [LedgerNext]_ledgerVars,
                      NEW t \in Txn, rows'[t] # NoRow
               PROVE  SettledRow(rows'[t]) /\ HonestPrint(rows'[t])
    BY DEF PaymentConfirmed, PrintStateHonest, SettledRow, HonestPrint
  <2>1. CASE rows' = rows
    BY <2>1 DEF PaymentConfirmed, PrintStateHonest
  <2>2. ASSUME NEW r \in Requests, Apply(r)
        PROVE  SettledRow(rows'[t]) /\ HonestPrint(rows'[t])
    <3>1. r \in Request /\ rows[r.tx] \in Row \cup {NoRow}
          /\ Verdict(rows[r.tx], r) = "applied"
      BY <2>2, LedgerAssumption DEF LedgerTypeOK, Request, Apply
    <3>2. rows[r.tx] # NoRow =>
             SettledRow(rows[r.tx]) /\ HonestPrint(rows[r.tx])
      BY <3>1 DEF PaymentConfirmed, PrintStateHonest, Request
    <3>3. CASE t = r.tx
      <4>1. rows'[t] = After(rows[r.tx], r)
        BY <2>2, <3>3 DEF Apply, LedgerTypeOK
      <4> QED
        BY <3>1, <3>2, <4>1, AfterSettled, AfterHonest
    <3>4. CASE t # r.tx
      <4>1. rows'[t] = rows[t]
        BY <2>2, <3>4 DEF Apply, LedgerTypeOK
      <4> QED
        BY <4>1 DEF PaymentConfirmed, PrintStateHonest
    <3> QED
      BY <3>3, <3>4
  <2> QED
    BY <2>1, <2>2 DEF LedgerNext, Refuse, ledgerVars
<1> QED
  BY <1>1, <1>2, LedgerType, PTL DEF LedgerSpec

-----------------------------------------------------------------------------
(***************************************************************************)
(* The chain of revisions.                                                 *)
(***************************************************************************)
Made(t) == {x \in revisions : x.tx = t}

(* A row that was there before is its own first revision.                  *)
LEMMA ChainInit == LedgerInit => RevisionChain
<1> SUFFICES ASSUME LedgerInit, NEW t \in Txn
             PROVE  /\ {x.revision : x \in Made(t)} = 1 .. SeenRevision(t)
                    /\ \A x, y \in Made(t) : x.revision = y.revision => x = y
                    /\ \A x \in Made(t) : x.base = x.revision - 1
  BY DEF RevisionChain, Made
<1> DEFINE seed == [tx |-> t, revision |-> 1, base |-> 0, author |-> Direct]
<1>1. CASE rows[t] = NoRow
  <2>1. Made(t) = {}
    BY <1>1 DEF LedgerInit, Seeded, Made
  <2>2. 1 .. SeenRevision(t) = {}
    BY <1>1 DEF SeenRevision
  <2> QED
    BY <2>1, <2>2
<1>2. CASE rows[t] # NoRow
  <2>1. Made(t) = {seed}
    BY <1>2 DEF LedgerInit, Seeded, Made
  <2>2. SeenRevision(t) = 1
    BY <1>2, LedgerAssumption DEF LedgerInit, SeenRevision
  <2>3. 1 .. 1 = {1}
    OBVIOUS
  <2> QED
    BY <2>1, <2>2, <2>3
<1> QED
  BY <1>1, <1>2

(* How an accepted request extends the revisions of its row.               *)
LEMMA ApplyChain ==
    ASSUME LedgerTypeOK, NEW r \in Request, Apply(r)
    PROVE  /\ rows' = [rows EXCEPT ![r.tx] = After(rows[r.tx], r)]
           /\ \/ /\ r.kind \notin {"create", "correct"}
                 /\ revisions' = revisions
                 /\ SeenRevision(r.tx)' = SeenRevision(r.tx)
              \/ /\ r.kind \in {"create", "correct"}
                 /\ SeenRevision(r.tx) \in Nat
                 /\ SeenRevision(r.tx)' = SeenRevision(r.tx) + 1
                 /\ BaseOf(r) = SeenRevision(r.tx)
                 /\ revisions' = revisions \cup
                      {[tx |-> r.tx, revision |-> SeenRevision(r.tx) + 1,
                        base |-> SeenRevision(r.tx), author |-> r.op]}
<1> DEFINE row == rows[r.tx]
<1>1. r \in Request /\ r.tx \in Txn /\ row \in Row \cup {NoRow}
      /\ Verdict(row, r) = "applied"
  BY LedgerAssumption DEF LedgerTypeOK, Request, Apply
<1>2. rows' = [rows EXCEPT ![r.tx] = After(row, r)]
      /\ rows'[r.tx] = After(row, r)
      /\ revisions' = revisions \cup NewRevisions(row, r)
  BY <1>1 DEF Apply, LedgerTypeOK
<1>3. After(row, r) # NoRow /\ SeenRevision(r.tx)' = After(row, r).revision
  BY <1>1, <1>2, AfterIsRow, LedgerAssumption DEF SeenRevision
<1>4. CASE r.kind = "create"
  <2>1. row = NoRow /\ SeenRevision(r.tx) = 0
    BY <1>1, <1>4 DEF Verdict, CreateVerdict, SeenRevision
  <2>2. After(row, r).revision = 1
    BY <1>4 DEF After, CreatedRow
  <2>3. NewRevisions(row, r) =
          {[tx |-> r.tx, revision |-> 1, base |-> 0, author |-> r.op]}
    BY <1>4 DEF NewRevisions
  <2> QED
    BY <1>1, <1>2, <1>3, <1>4, <2>1, <2>2, <2>3 DEF BaseOf
<1>5. CASE r.kind = "correct"
  <2>1. row \in Row /\ row # NoRow /\ r.base = row.revision
    BY <1>1, <1>5 DEF Verdict, CorrectVerdict
  <2>2. SeenRevision(r.tx) = row.revision /\ row.revision \in Nat
    BY <2>1 DEF SeenRevision, Row
  <2>3. After(row, r).revision = row.revision + 1
    BY <1>5, <2>1 DEF After, CorrectedRow, Row
  <2>4. NewRevisions(row, r) =
          {[tx |-> r.tx, revision |-> row.revision + 1,
            base |-> row.revision, author |-> r.op]}
    BY <1>5 DEF NewRevisions
  <2> QED
    BY <1>1, <1>2, <1>3, <1>5, <2>1, <2>2, <2>3, <2>4 DEF BaseOf
<1>6. CASE r.kind \notin {"create", "correct"}
  <2>1. row \in Row /\ row # NoRow
    BY <1>1, <1>6 DEF Verdict, PaymentVerdict, PrintVerdict, DeleteVerdict,
                      Request, Kind
  <2>2. After(row, r).revision = row.revision
    BY <1>1, <1>6, <2>1 DEF After, PaidRow, PrintedRow, DeletedRow, Row,
                            Request, Kind
  <2>3. NewRevisions(row, r) = {}
    BY <1>6 DEF NewRevisions
  <2> QED
    BY <1>1, <1>2, <1>3, <1>6, <2>1, <2>2, <2>3 DEF SeenRevision
<1> QED
  BY <1>4, <1>5, <1>6

(* An accepted creation or correction adds the next link of one chain; no  *)
(* other request adds any.                                                 *)
LEMMA ApplyChained ==
    ASSUME LedgerTypeOK, RevisionChain, NEW r \in Request, Apply(r)
    PROVE  RevisionChain'
<1> SUFFICES ASSUME NEW t \in Txn
             PROVE  /\ {x.revision : x \in Made(t)'} = 1 .. SeenRevision(t)'
                    /\ \A x, y \in Made(t)' :
                          x.revision = y.revision => x = y
                    /\ \A x \in Made(t)' : x.base = x.revision - 1
  BY DEF RevisionChain, Made
<1>1. /\ {x.revision : x \in Made(t)} = 1 .. SeenRevision(t)
      /\ \A x, y \in Made(t) : x.revision = y.revision => x = y
      /\ \A x \in Made(t) : x.base = x.revision - 1
  BY DEF RevisionChain, Made
<1>2. CASE Made(t)' = Made(t) /\ SeenRevision(t)' = SeenRevision(t)
  BY <1>1, <1>2
<1>3. CASE t # r.tx
  <2>1. rows'[t] = rows[t]
    BY <1>3, ApplyChain DEF LedgerTypeOK
  <2>2. SeenRevision(t)' = SeenRevision(t)
    BY <2>1 DEF SeenRevision
  <2>3. Made(t)' = Made(t)
    BY <1>3, ApplyChain DEF Made
  <2> QED
    BY <1>2, <2>2, <2>3
<1>4. CASE t = r.tx /\ r.kind \notin {"create", "correct"}
  BY <1>2, <1>4, ApplyChain DEF Made
<1>5. CASE t = r.tx /\ r.kind \in {"create", "correct"}
  <2> DEFINE n == SeenRevision(t)
             new == [tx |-> t, revision |-> n + 1, base |-> n,
                     author |-> r.op]
  <2>1. n \in Nat /\ SeenRevision(t)' = n + 1
        /\ revisions' = revisions \cup {new}
    BY <1>5, ApplyChain
  <2>2. Made(t)' = Made(t) \cup {new}
    BY <2>1 DEF Made
  <2>3. new.revision = n + 1 /\ new.base = n
    OBVIOUS
  <2>4. \A x \in Made(t) : x.revision \in 1 .. n
    BY <1>1
  <2> HIDE DEF new, n
  <2>5. 1 .. (n + 1) = (1 .. n) \cup {n + 1}
    BY <2>1
  <2>6. {x.revision : x \in Made(t)'} = {x.revision : x \in Made(t)} \cup {n + 1}
    BY <2>2, <2>3
  <2>7. {x.revision : x \in Made(t)'} = 1 .. SeenRevision(t)'
    BY <1>1, <2>1, <2>5, <2>6 DEF n
  <2>8. \A x \in Made(t) : x.revision # new.revision
    BY <2>1, <2>3, <2>4
  <2>9. \A x, y \in Made(t)' : x.revision = y.revision => x = y
    BY <1>1, <2>2, <2>8
  <2>10. \A x \in Made(t)' : x.base = x.revision - 1
    BY <1>1, <2>1, <2>2, <2>3
  <2> QED
    BY <2>7, <2>9, <2>10
<1> QED
  BY <1>3, <1>4, <1>5

(* So every step keeps the chain. *)
LEMMA ChainNext ==
    LedgerTypeOK /\ RevisionChain /\ [LedgerNext]_ledgerVars => RevisionChain'
<1> SUFFICES ASSUME LedgerTypeOK, RevisionChain, [LedgerNext]_ledgerVars
             PROVE  RevisionChain'
  OBVIOUS
<1>1. CASE UNCHANGED <<rows, revisions>>
  BY <1>1 DEF RevisionChain, SeenRevision
<1>2. ASSUME NEW r \in Requests, Apply(r) PROVE RevisionChain'
  BY <1>2, LedgerAssumption, ApplyChained
<1> QED
  BY <1>1, <1>2 DEF LedgerNext, Refuse, ledgerVars

(* The revisions of every transaction of the ledger are an unbroken chain. *)
LEMMA LedgerChain == LedgerSpec => []RevisionChain
BY ChainInit, ChainNext, LedgerType, PTL DEF LedgerSpec

-----------------------------------------------------------------------------
(***************************************************************************)
(* Operations take effect once, and their results are final.               *)
(***************************************************************************)
AppliedResult(o) ==
    /\ results[o] # NoResult
    /\ results[o].outcome = "applied"
    /\ results[o].request.kind \in {"create", "correct"}

Authored(o) == {x \in revisions : x.author = o}

OnceFor(o) ==
    IF AppliedResult(o)
    THEN \E x \in Authored(o) : /\ Authored(o) = {x}
                                /\ x.tx = results[o].request.tx
                                /\ x.base = BaseOf(results[o].request)
    ELSE Authored(o) = {}

(* AppliedOnce, one operation at a time.                                   *)
LEMMA AppliedOnceFor == AppliedOnce <=> \A o \in OpId : OnceFor(o)
BY DEF AppliedOnce, OnceFor, AppliedResult, Authored

(* Deciding an operation for the first time keeps its revisions and its    *)
(* stored result in step, and touches no other operation's.                *)
LEMMA OnceNext ==
    LedgerTypeOK /\ AppliedOnce /\ [LedgerNext]_ledgerVars => AppliedOnce'
<1> SUFFICES ASSUME LedgerTypeOK, AppliedOnce, [LedgerNext]_ledgerVars,
                    NEW o \in OpId
             PROVE  OnceFor(o)'
  BY DEF AppliedOnce, OnceFor, AppliedResult, Authored
<1>1. OnceFor(o)
  BY AppliedOnceFor
<1>2. CASE results'[o] = results[o] /\ Authored(o)' = Authored(o)
  BY <1>1, <1>2 DEF OnceFor, AppliedResult
<1>3. ASSUME NEW r \in Requests, Apply(r) PROVE OnceFor(o)'
  <2>0. r \in Request
    BY LedgerAssumption
  <2>1. CASE r.op # o
    <3>1. results'[o] = results[o]
      BY <1>3, <2>1 DEF Apply, Recorded, LedgerTypeOK
    <3>2. Authored(o)' = Authored(o)
      BY <1>3, <2>0, <2>1, ApplyChain DEF Authored
    <3> QED
      BY <1>2, <3>1, <3>2
  <2>2. CASE r.op = o
    <3>1. results[o] = NoResult /\ r.op # Direct
      BY <1>3, <2>2, RulesAssumption DEF Apply, Undecided
    <3>2. Authored(o) = {}
      BY <1>1, <3>1 DEF OnceFor, AppliedResult
    <3>3. results'[o] = [request |-> r, outcome |-> "applied"]
      BY <1>3, <2>2, <3>1 DEF Apply, Recorded, LedgerTypeOK
    <3>4. CASE r.kind \notin {"create", "correct"}
      BY <1>3, <2>0, <3>2, <3>3, <3>4, ApplyChain
         DEF OnceFor, AppliedResult, Authored
    <3>5. CASE r.kind \in {"create", "correct"}
      <4> DEFINE new == [tx |-> r.tx, revision |-> SeenRevision(r.tx) + 1,
                         base |-> SeenRevision(r.tx), author |-> r.op]
      <4>1. revisions' = revisions \cup {new} /\ BaseOf(r) = SeenRevision(r.tx)
        BY <1>3, <2>0, <3>5, ApplyChain
      <4>2. new.author = o /\ new.tx = r.tx /\ new.base = BaseOf(r)
        BY <2>2, <4>1
      <4> HIDE DEF new
      <4>3. Authored(o)' = {new}
        BY <3>2, <4>1, <4>2 DEF Authored
      <4>4. AppliedResult(o)'
            /\ results'[o].request = r
        <5>1. NoResult # [request |-> r, outcome |-> "applied"]
          BY <2>0, <3>3, LedgerAssumption DEF Result, Outcome
        <5> QED
          BY <3>3, <3>5, <5>1 DEF AppliedResult
      <4> QED
        BY <4>2, <4>3, <4>4 DEF OnceFor
    <3> QED
      BY <3>4, <3>5
  <2> QED
    BY <2>1, <2>2
<1>4. ASSUME NEW r \in Requests, Refuse(r) PROVE OnceFor(o)'
  <2>1. PICK outcome \in Refusal : results' = Recorded(r, outcome)
    BY <1>4 DEF Refuse
  <2>2. Authored(o)' = Authored(o)
    BY <1>4 DEF Refuse, Authored
  <2>3. CASE r.op # o
    BY <1>2, <2>1, <2>2, <2>3 DEF Recorded, LedgerTypeOK
  <2>4. CASE r.op = o
    <3>1. results[o] = NoResult /\ r.op # Direct
      BY <1>4, <2>4, RulesAssumption DEF Refuse, Undecided
    <3>2. Authored(o) = {}
      BY <1>1, <3>1 DEF OnceFor, AppliedResult
    <3>3. results'[o] = [request |-> r, outcome |-> outcome]
      BY <2>1, <2>4, <3>1 DEF Recorded, LedgerTypeOK
    <3>4. outcome # "applied"
      BY DEF Refusal
    <3> QED
      BY <2>2, <3>2, <3>3, <3>4 DEF OnceFor, AppliedResult
  <2> QED
    BY <2>3, <2>4
<1> QED
  BY <1>2, <1>3, <1>4 DEF LedgerNext, ledgerVars, Authored

(* In the ledger an operation takes effect exactly when its result says    *)
(* so, and once.                                                           *)
LEMMA LedgerOnce == LedgerSpec => []AppliedOnce
<1>1. LedgerInit => AppliedOnce
  BY RulesAssumption DEF LedgerInit, Seeded, AppliedOnce
<1> QED
  BY <1>1, OnceNext, LedgerType, PTL DEF LedgerSpec

(* Stored answers and deleted transactions never change in the ledger.     *)
LEMMA LedgerFinal == LedgerSpec => ResultsFinal /\ DeletedFrozen
<1>1. LedgerTypeOK /\ [LedgerNext]_ledgerVars
      => [\A o \in OpId : results[o] # NoResult
              => results'[o] = results[o]]_ledgerVars
  <2> SUFFICES ASSUME LedgerTypeOK, NEW o \in OpId, results[o] # NoResult,
                      NEW r \in Requests, Apply(r) \/ Refuse(r)
               PROVE  results'[o] = results[o]
    BY DEF LedgerNext
  <2>1. r.op # o \/ r.op = Direct
    BY DEF Apply, Refuse, Undecided
  <2> QED
    BY <2>1 DEF Apply, Refuse, Recorded, LedgerTypeOK
<1>2. LedgerTypeOK /\ [LedgerNext]_ledgerVars
      => [\A t \in Txn : rows[t] # NoRow /\ rows[t].deleted
              => rows'[t] = rows[t]]_ledgerVars
  <2> SUFFICES ASSUME LedgerTypeOK, NEW t \in Txn,
                      rows[t] # NoRow, rows[t].deleted,
                      NEW r \in Requests, Apply(r) \/ Refuse(r)
               PROVE  rows'[t] = rows[t]
    BY DEF LedgerNext
  <2>1. CASE Refuse(r)
    BY <2>1 DEF Refuse
  <2>2. CASE Apply(r)
    <3>1. r \in Request /\ rows[r.tx] \in Row \cup {NoRow}
          /\ Verdict(rows[r.tx], r) = "applied"
      BY <2>2, LedgerAssumption DEF LedgerTypeOK, Request, Apply
    <3>2. t # r.tx
      BY <3>1, DeletedRefuses
    <3> QED
      BY <2>2, <3>2 DEF Apply, LedgerTypeOK
  <2> QED
    BY <2>1, <2>2
<1> QED
  BY <1>1, <1>2, LedgerType, PTL DEF LedgerSpec, ResultsFinal, DeletedFrozen

-----------------------------------------------------------------------------
(***************************************************************************)
(* Type correctness.                                                       *)
(***************************************************************************)

(* The tables a data space starts with, and no database transaction open,  *)
(* are well typed.                                                         *)
LEMMA InitTypeOK == StoreInit => TypeOK
<1> SUFFICES ASSUME StoreInit PROVE TypeOK
  OBVIOUS
<1>1. rows \in [Txn -> Row \cup {NoRow}]
  BY LedgerAssumption DEF StoreInit, LedgerInit
<1>2. revisions \subseteq Revision
  BY DEF StoreInit, LedgerInit, Seeded, Revision
<1> QED
  BY <1>1, <1>2 DEF StoreInit, LedgerInit, TypeOK, Work, NoWork

(* What the program counter of a worker says about the rest of its state. *)
LEMMA WorkOf ==
    ASSUME TypeOK, NEW w \in Worker
    PROVE  /\ tr[w].pc # "idle" => tr[w].request \in Requests
                                  /\ tr[w].request \in Request
           /\ tr[w].pc = "idle" => tr[w] = NoWork
           /\ tr[w].pc = "running" => tr[w] \in RunningWork
           /\ tr[w].pc = "scanned" => tr[w] \in ScannedWork
           /\ tr[w].pc = "staged" => tr[w] \in StagedWork
           /\ tr[w].pc = "refused" => tr[w] \in RefusedWork
<1>1. tr[w] \in Work
  BY DEF TypeOK
<1> QED
  BY <1>1, LedgerAssumption
     DEF Work, NoWork, RunningWork, ScannedWork, StagedWork, RefusedWork

(* The rollback to the savepoint of a refused operation is well typed.     *)
LEMMA RejectTypeOK ==
    ASSUME TypeOK, NEW w \in Worker, tr[w].pc # "idle",
           NEW outcome \in Refusal, Reject(w, outcome)
    PROVE  TypeOK'
BY WorkOf DEF Reject, Goto, TypeOK, Work, RefusedWork, NoWork

(* What a handler stages, a row with its revision and its change, is well  *)
(* typed when the row and the revisions are.                               *)
LEMMA StageWriteTypeOK ==
    ASSUME TypeOK, NEW w \in Worker, tr[w].pc # "idle",
           NEW row \in Row, NEW revision \in Nat \ {0}, NEW locks \in BOOLEAN,
           NewRevisions(rows[tr[w].request.tx], tr[w].request)
              \subseteq Revision,
           StageWrite(w, row, revision, locks)
    PROVE  TypeOK'
<1> DEFINE r == tr[w].request
           silent == r.kind = "payment" /\ row = rows[r.tx]
           aggregate == IF r.kind = "print" THEN "print_attempt"
                        ELSE "transaction"
           tombstone == r.kind = "delete"
           change == [cursor |-> nextCursor, aggregate |-> aggregate,
                      tx |-> r.tx, revision |-> revision,
                      tombstone |-> tombstone, status |-> r.status]
           logged == IF silent THEN {} ELSE {change}
           inserted == NewRevisions(rows[r.tx], r)
           work == [pc |-> "staged", request |-> r, row |-> row,
                    locks |-> locks, inserted |-> inserted,
                    logged |-> logged]
<1>1. r \in Requests /\ r \in Request
  BY WorkOf
<1>2. logged \subseteq Change
  <2>1. nextCursor \in Nat \ {0} /\ r.tx \in Txn
    BY <1>1 DEF TypeOK, Request
  <2>2. r.status \in AttemptStatus
    BY <1>1 DEF Request
  <2>3. tombstone \in BOOLEAN
    OBVIOUS
  <2>4. aggregate \in {"transaction", "print_attempt"}
    OBVIOUS
  <2>5. change \in Change
    <3> HIDE DEF tombstone, aggregate, r
    <3> QED
      BY <2>1, <2>3, <2>4, <2>2 DEF Change
  <2> QED
    BY <2>5
<1>3. work \in StagedWork
  <2> HIDE DEF r, logged, inserted
  <2> QED
    BY <1>1, <1>2 DEF StagedWork, inserted, r
<1>4. tr' = [tr EXCEPT ![w] = work]
  BY DEF StageWrite, Goto
<1>5. tr' \in [Worker -> Work]
  <2> HIDE DEF work
  <2> QED
    BY <1>3, <1>4 DEF TypeOK, Work
<1>6. nextCursor' \in Nat \ {0}
  BY DEF StageWrite, TypeOK
<1> QED
  BY <1>5, <1>6 DEF StageWrite, TypeOK

(* Every step of every worker keeps the tables and the workers well typed, *)
(* given that a row seen by a statement is never physically deleted.       *)
LEMMA NextTypeOK ==
    TypeOK /\ ScannedRowExists /\ [StoreNext]_storeVars => TypeOK'
<1> SUFFICES ASSUME TypeOK, ScannedRowExists, [StoreNext]_storeVars PROVE TypeOK'
  OBVIOUS
<1>1. CASE UNCHANGED storeVars
  BY <1>1 DEF storeVars, TypeOK
<1>2. ASSUME NEW w \in Worker, NEW r \in Requests, Begin(w, r)
      PROVE  TypeOK'
  BY <1>2 DEF Begin, Goto, TypeOK, Work, RunningWork
<1>3. ASSUME NEW w \in Worker, StageCreate(w) PROVE TypeOK'
  <2> DEFINE r == tr[w].request
  <2>1. tr[w].pc # "idle" /\ r \in Request /\ r.kind = "create"
    BY <1>3, WorkOf DEF StageCreate
  <2>2. rows[r.tx] \in Row \cup {NoRow}
    BY <2>1 DEF TypeOK, Request
  <2>3. Verdict(rows[r.tx], r) = CreateVerdict(rows[r.tx], r)
        /\ After(rows[r.tx], r) = CreatedRow(r)
    BY <2>1 DEF Verdict, After
  <2>4. CASE CreateVerdict(rows[r.tx], r) = "applied"
    <3>1. StageWrite(w, CreatedRow(r), 1, TRUE)
      BY <1>3, <2>4 DEF StageCreate
    <3>2. CreatedRow(r) \in Row
      BY <2>1, <2>2, <2>3, <2>4, AfterIsRow
    <3>3. NewRevisions(rows[r.tx], r) \subseteq Revision
      BY <2>1, <2>2, <2>3, <2>4, NewRevisionsType
    <3>4. 1 \in Nat \ {0} /\ TRUE \in BOOLEAN
      OBVIOUS
    <3> QED
      BY <2>1, <3>1, <3>2, <3>3, <3>4, StageWriteTypeOK
  <2>5. CASE CreateVerdict(rows[r.tx], r) # "applied"
    <3>1. Reject(w, CreateVerdict(rows[r.tx], r))
      BY <1>3, <2>5 DEF StageCreate
    <3>2. CreateVerdict(rows[r.tx], r) \in Refusal
      BY <2>1, <2>2, <2>3, <2>5, VerdictOutcome
    <3> QED
      BY <2>1, <3>1, <3>2, RejectTypeOK
  <2> QED
    BY <2>4, <2>5
<1>4. ASSUME NEW w \in Worker, Scan(w) PROVE TypeOK'
  <2> DEFINE r == tr[w].request
  <2>1. tr[w].pc # "idle" /\ r \in Requests /\ r \in Request
    BY <1>4, WorkOf DEF Scan
  <2>2. CASE rows[r.tx] = NoRow
    BY <1>4, <2>1, <2>2, RejectTypeOK DEF Scan, Refusal
  <2>3. CASE rows[r.tx] # NoRow
    <3>1. SeenRevision(r.tx) \in Nat \ {0}
      BY <2>1, <2>3 DEF SeenRevision, TypeOK, Request, Row
    <3> QED
      BY <1>4, <2>1, <2>3, <3>1 DEF Scan, Goto, TypeOK, Work, ScannedWork
  <2> QED
    BY <2>2, <2>3
<1>5. ASSUME NEW w \in Worker, Stage(w) PROVE TypeOK'
  <2> DEFINE r == tr[w].request
             next == After(rows[r.tx], r)
  <2>1. tr[w].pc # "idle" /\ r \in Request
    BY <1>5, WorkOf DEF Stage
  <2>2. rows[r.tx] \in Row \cup {NoRow}
    BY <2>1 DEF TypeOK, Request
  <2>3. CASE LockedVerdict(w) = "applied"
    <3>1. StageWrite(w, next, next.revision, TRUE)
      BY <1>5, <2>3 DEF Stage
    <3>2. Verdict(rows[r.tx], r) = "applied"
      BY <2>3 DEF LockedVerdict
    <3>3. next \in Row /\ NewRevisions(rows[r.tx], r) \subseteq Revision
      BY <2>1, <2>2, <3>2, AfterIsRow, NewRevisionsType
    <3>4. next.revision \in Nat \ {0}
      BY <3>3 DEF Row
    <3> HIDE DEF next
    <3> QED
      BY <2>1, <3>1, <3>3, <3>4, StageWriteTypeOK
  <2>4. CASE LockedVerdict(w) # "applied"
    <3>1. Reject(w, LockedVerdict(w))
      BY <1>5, <2>4 DEF Stage
    <3>2. LockedVerdict(w) \in Refusal
      BY <2>1, <2>2, <2>4, VerdictOutcome DEF LockedVerdict, Refusal
    <3> QED
      BY <2>1, <3>1, <3>2, RejectTypeOK
  <2> QED
    BY <2>3, <2>4
<1>6. ASSUME NEW w \in Worker, ScanDelete(w) PROVE TypeOK'
  <2> DEFINE r == tr[w].request
             verdict == DeleteVerdict(rows[r.tx], r)
  <2>1. tr[w].pc # "idle" /\ r \in Requests /\ r \in Request
    BY <1>6, WorkOf DEF ScanDelete
  <2>2. rows[r.tx] \in Row \cup {NoRow}
    BY <2>1 DEF TypeOK, Request
  <2>3. Verdict(rows[r.tx], r) = verdict
    BY <1>6, <2>1 DEF ScanDelete, Verdict
  <2>4. CASE verdict # "applied"
    BY <1>6, <2>1, <2>2, <2>3, <2>4, VerdictOutcome, RejectTypeOK
       DEF ScanDelete
  <2>5. CASE verdict = "applied"
    <3>1. SeenRevision(r.tx) \in Nat \ {0}
      BY <2>2, <2>5 DEF SeenRevision, DeleteVerdict, Row
    <3> QED
      BY <1>6, <2>1, <2>5, <3>1 DEF ScanDelete, Goto, TypeOK, Work, ScannedWork
  <2> QED
    BY <2>4, <2>5
<1>7. ASSUME NEW w \in Worker, StageDelete(w) PROVE TypeOK'
  <2> DEFINE r == tr[w].request
  <2>1. tr[w] \in ScannedWork /\ tr[w].pc # "idle" /\ r \in Request
        /\ r.kind = "delete"
    BY <1>7, WorkOf DEF StageDelete
  <2>2. rows[r.tx] \in Row
    BY <1>7, <2>1 DEF ScannedRowExists, StageDelete, TypeOK, Request
  <2>3. DeletedRow(rows[r.tx]) \in Row
    BY <2>2 DEF DeletedRow, Row
  <2>4. (~rows[r.tx].deleted) \in BOOLEAN
    OBVIOUS
  <2>5. NewRevisions(rows[r.tx], r) \subseteq Revision
    BY <2>1 DEF NewRevisions
  <2>6. tr[w].seen \in Nat \ {0}
    BY <2>1 DEF ScannedWork
  <2>7. StageWrite(w, DeletedRow(rows[r.tx]), tr[w].seen, ~rows[r.tx].deleted)
    BY <1>7 DEF StageDelete
  <2> QED
    BY <2>1, <2>3, <2>4, <2>5, <2>6, <2>7, StageWriteTypeOK
<1>8. ASSUME NEW w \in Worker, CommitApplied(w) PROVE TypeOK'
  <2> DEFINE r == tr[w].request
  <2>1. tr[w] \in StagedWork /\ r \in Request
    BY <1>8, WorkOf DEF CommitApplied
  <2>2. rows' \in [Txn -> Row \cup {NoRow}]
    BY <1>8, <2>1 DEF CommitApplied, TypeOK, StagedWork
  <2>3. results' \in [OpId -> Result \cup {NoResult}]
    BY <1>8, <2>1, RecordedType DEF CommitApplied, TypeOK, Outcome
  <2>4. revisions' \subseteq Revision /\ changes' \subseteq Change
    BY <1>8, <2>1 DEF CommitApplied, TypeOK, StagedWork
  <2>5. tr' \in [Worker -> Work] /\ nextCursor' = nextCursor
    BY <1>8 DEF CommitApplied, Goto, TypeOK, Work
  <2> QED
    BY <2>2, <2>3, <2>4, <2>5 DEF TypeOK
<1>9. ASSUME NEW w \in Worker, CommitRefused(w) PROVE TypeOK'
  <2>1. tr[w] \in RefusedWork /\ tr[w].request \in Request
    BY <1>9, WorkOf DEF CommitRefused
  <2>2. results' \in [OpId -> Result \cup {NoResult}]
    BY <1>9, <2>1, RecordedType DEF CommitRefused, TypeOK, Outcome, RefusedWork
  <2> QED
    BY <1>9, <2>2 DEF CommitRefused, Goto, TypeOK, Work
<1>10. ASSUME NEW w \in Worker, Abort(w) PROVE TypeOK'
  BY <1>10 DEF Abort, Goto, TypeOK, Work
<1> QED
  BY <1>1, <1>2, <1>3, <1>4, <1>5, <1>6, <1>7, <1>8, <1>9, <1>10
     DEF StoreNext, Proceed

-----------------------------------------------------------------------------
(***************************************************************************)
(* The workers in flight.                                                  *)
(***************************************************************************)

(* A worker's own step ends its transaction or keeps its request, and      *)
(* touches no other worker.                                                *)
Keeps(w) ==
    /\ tr[w].pc # "idle"
    /\ \/ tr'[w] = NoWork
       \/ tr'[w].pc # "idle" /\ tr'[w].request = tr[w].request
    /\ \A v \in Worker : v # w => tr'[v] = tr[v]

(* A refusal ends or keeps the request and writes no committed row.        *)
LEMMA RejectKeeps ==
    ASSUME TypeOK, NEW w \in Worker, tr[w].pc # "idle", NEW outcome,
           Reject(w, outcome)
    PROVE  /\ Keeps(w)
           /\ tr'[w].pc \notin {"scanned", "staged"}
           /\ UNCHANGED <<rows, revisions, results>>
BY DEF Reject, Goto, Keeps, NoWork, TypeOK

(* Staging keeps the request, remembers what was staged, and writes no     *)
(* committed row.                                                          *)
LEMMA StageWriteKeeps ==
    ASSUME TypeOK, NEW w \in Worker, tr[w].pc # "idle",
           NEW row, NEW revision, NEW locks,
           StageWrite(w, row, revision, locks)
    PROVE  /\ Keeps(w)
           /\ tr'[w].pc = "staged"
           /\ tr'[w].request = tr[w].request
           /\ tr'[w].row = row
           /\ tr'[w].locks = locks
           /\ tr'[w].inserted =
                 NewRevisions(rows[tr[w].request.tx], tr[w].request)
           /\ UNCHANGED <<rows, revisions, results>>
BY DEF StageWrite, Goto, Keeps, TypeOK

(* The steps that stage a row find it unlocked, and stage what the rules   *)
(* give for it.                                                            *)
LEMMA StagingSteps ==
    ASSUME TypeOK, ScannedRowExists, NEW w \in Worker,
           StageCreate(w) \/ Stage(w) \/ StageDelete(w)
    PROVE  /\ Keeps(w)
           /\ UNCHANGED <<rows, revisions, results>>
           /\ tr'[w].pc # "scanned"
           /\ tr'[w].pc = "staged" => /\ ~RowLocked(tr'[w].request.tx)
                                      /\ StagedRight(w)'
<1> DEFINE r == tr[w].request
<1>1. tr[w].pc # "idle" /\ r \in Request
  BY WorkOf DEF StageCreate, Stage, StageDelete
<1>2. CASE StageCreate(w)
  <2>1. r.kind = "create" /\ ~RowLocked(r.tx)
        /\ Verdict(rows[r.tx], r) = CreateVerdict(rows[r.tx], r)
        /\ After(rows[r.tx], r) = CreatedRow(r)
    BY <1>2 DEF StageCreate, Verdict, After
  <2>2. CASE CreateVerdict(rows[r.tx], r) = "applied"
    <3>1. StageWrite(w, CreatedRow(r), 1, TRUE)
      BY <1>2, <2>2 DEF StageCreate
    <3> QED
      BY <1>1, <2>1, <2>2, <3>1, StageWriteKeeps DEF StagedRight
  <2>3. CASE CreateVerdict(rows[r.tx], r) # "applied"
    BY <1>1, <1>2, <2>3, RejectKeeps DEF StageCreate
  <2> QED
    BY <2>2, <2>3
<1>3. CASE Stage(w)
  <2>1. CASE LockedVerdict(w) = "applied"
    <3>1. StageWrite(w, After(rows[r.tx], r), After(rows[r.tx], r).revision, TRUE)
          /\ ~RowLocked(r.tx)
      BY <1>3, <2>1 DEF Stage
    <3>2. Verdict(rows[r.tx], r) = "applied"
      BY <2>1 DEF LockedVerdict
    <3> QED
      BY <1>1, <3>1, <3>2, StageWriteKeeps DEF StagedRight
  <2>2. CASE LockedVerdict(w) # "applied"
    BY <1>1, <1>3, <2>2, RejectKeeps DEF Stage
  <2> QED
    BY <2>1, <2>2
<1>4. CASE StageDelete(w)
  <2>1. r.kind = "delete" /\ ~RowLocked(r.tx)
        /\ StageWrite(w, DeletedRow(rows[r.tx]), tr[w].seen,
                      ~rows[r.tx].deleted)
    BY <1>4 DEF StageDelete
  <2>2. rows[r.tx] # NoRow /\ r.actor \in Superadmin
    BY <1>4, <2>1 DEF StageDelete, ScannedRowExists
  <2>3. ~rows[r.tx].deleted => Verdict(rows[r.tx], r) = "applied"
    BY <2>1, <2>2 DEF Verdict, DeleteVerdict
  <2>4. After(rows[r.tx], r) = DeletedRow(rows[r.tx])
    BY <2>1 DEF After
  <2> QED
    BY <1>1, <2>1, <2>3, <2>4, StageWriteKeeps DEF StagedRight
<1> QED
  BY <1>2, <1>3, <1>4

(* The steps that only look, or give up, stage nothing.                    *)
LEMMA LookingSteps ==
    ASSUME TypeOK, NEW w \in Worker, Scan(w) \/ ScanDelete(w) \/ Abort(w)
    PROVE  /\ Keeps(w)
           /\ UNCHANGED <<rows, revisions, results>>
           /\ tr'[w].pc # "staged"
           /\ tr'[w].pc = "scanned" =>
                 /\ rows[tr'[w].request.tx] # NoRow
                 /\ tr'[w].request.kind = "delete" =>
                       tr'[w].request.actor \in Superadmin
<1> DEFINE r == tr[w].request
<1>1. CASE Scan(w)
  <2>1. CASE rows[r.tx] = NoRow
    BY <1>1, <2>1, RejectKeeps DEF Scan
  <2>2. CASE rows[r.tx] # NoRow
    BY <1>1, <2>2 DEF Scan, Goto, Keeps, TypeOK
  <2> QED
    BY <2>1, <2>2
<1>2. CASE ScanDelete(w)
  <2>1. CASE DeleteVerdict(rows[r.tx], r) # "applied"
    BY <1>2, <2>1, RejectKeeps DEF ScanDelete
  <2>2. CASE DeleteVerdict(rows[r.tx], r) = "applied"
    <3>1. rows[r.tx] # NoRow /\ r.actor \in Superadmin
      BY <2>2 DEF DeleteVerdict
    <3> QED
      BY <1>2, <2>2, <3>1 DEF ScanDelete, Goto, Keeps, TypeOK
  <2> QED
    BY <2>1, <2>2
<1>3. CASE Abort(w)
  BY <1>3 DEF Abort, Active, Goto, Keeps, TypeOK, NoWork
<1> QED
  BY <1>1, <1>2, <1>3

(* The steps that commit are over.                                         *)
LEMMA CommitSteps ==
    ASSUME TypeOK, NEW w \in Worker, CommitApplied(w) \/ CommitRefused(w)
    PROVE  Keeps(w) /\ tr'[w] = NoWork
BY DEF CommitApplied, CommitRefused, Goto, Keeps, TypeOK

(* A row seen by a locking SELECT, or by DeleteTransaction, stays there.   *)
LEMMA ScannedNext ==
    ASSUME TypeOK, TypeOK', WorkersConsistent, [StoreNext]_storeVars
    PROVE  ScannedRowExists'
<1> SUFFICES ASSUME NEW v \in Worker, tr'[v].pc = "scanned"
             PROVE  /\ rows'[tr'[v].request.tx] # NoRow
                    /\ tr'[v].request.kind = "delete" =>
                          tr'[v].request.actor \in Superadmin
  BY DEF ScannedRowExists
<1>1. ASSUME tr'[v] = tr[v],
             \A t \in Txn : rows[t] # NoRow => rows'[t] # NoRow
      PROVE  /\ rows'[tr'[v].request.tx] # NoRow
             /\ tr'[v].request.kind = "delete" =>
                   tr'[v].request.actor \in Superadmin
  BY <1>1, WorkOf DEF WorkersConsistent, ScannedRowExists, Request
<1>2. CASE UNCHANGED storeVars
  BY <1>1, <1>2 DEF storeVars
<1>3. ASSUME NEW w \in Worker, NEW r \in Requests, Begin(w, r)
      PROVE  rows' = rows /\ tr'[v] = tr[v]
  BY <1>3 DEF Begin, Goto, TypeOK
<1>4. ASSUME NEW w \in Worker,
             StageCreate(w) \/ Stage(w) \/ StageDelete(w)
      PROVE  rows' = rows /\ tr'[v] = tr[v]
  BY <1>4, StagingSteps DEF WorkersConsistent, Keeps
<1>5. ASSUME NEW w \in Worker, Scan(w) \/ ScanDelete(w) \/ Abort(w),
             v # w
      PROVE  rows' = rows /\ tr'[v] = tr[v]
  BY <1>5, LookingSteps DEF Keeps
<1>6. ASSUME NEW w \in Worker, Scan(w) \/ ScanDelete(w) \/ Abort(w),
             v = w
      PROVE  /\ rows'[tr'[v].request.tx] # NoRow
             /\ tr'[v].request.kind = "delete" =>
                   tr'[v].request.actor \in Superadmin
  BY <1>6, LookingSteps
<1>7. ASSUME NEW w \in Worker, CommitApplied(w)
      PROVE  /\ tr'[v] = tr[v]
             /\ \A t \in Txn : rows[t] # NoRow => rows'[t] # NoRow
  <2>1. tr'[v] = tr[v]
    BY <1>7, CommitSteps DEF Keeps, NoWork
  <2>2. tr[w] \in StagedWork
    BY <1>7, WorkOf DEF CommitApplied
  <2>3. tr[w].row # NoRow
    BY <2>2, LedgerAssumption DEF StagedWork
  <2> QED
    BY <1>7, <2>1, <2>3 DEF CommitApplied, TypeOK
<1>8. ASSUME NEW w \in Worker, CommitRefused(w)
      PROVE  rows' = rows /\ tr'[v] = tr[v]
  BY <1>8, CommitSteps DEF Keeps, NoWork, CommitRefused
<1> QED
  BY <1>1, <1>2, <1>3, <1>4, <1>5, <1>6, <1>7, <1>8 DEF StoreNext, Proceed

(* The advisory lock and the idempotency lookup leave one attempt at a     *)
(* time, and none once a result is stored.                                 *)
LEMMA AttemptNext ==
    ASSUME TypeOK, TypeOK', WorkersConsistent, [StoreNext]_storeVars
    PROVE  OneAttempt'
<1> DEFINE Op(v) == tr[v].request.op
<1>1. /\ \A v, w \in Worker :
            /\ tr[v].pc # "idle" /\ tr[w].pc # "idle"
            /\ Op(v) = Op(w) /\ Op(v) # Direct
            => v = w
      /\ \A w \in Worker : tr[w].pc # "idle" => Undecided(tr[w].request)
  BY DEF WorkersConsistent, OneAttempt, Active
<1> SUFFICES
      /\ \A u, v \in Worker :
            /\ tr'[u].pc # "idle" /\ tr'[v].pc # "idle"
            /\ Op(u)' = Op(v)' /\ Op(u)' # Direct
            => u = v
      /\ \A v \in Worker : tr'[v].pc # "idle" => Undecided(tr[v].request)'
  BY DEF OneAttempt, Active
<1>2. CASE UNCHANGED storeVars
  BY <1>1, <1>2 DEF storeVars, Undecided
<1>3. ASSUME NEW w \in Worker, NEW r \in Requests, Begin(w, r)
      PROVE  /\ \A u, v \in Worker :
                   /\ tr'[u].pc # "idle" /\ tr'[v].pc # "idle"
                   /\ Op(u)' = Op(v)' /\ Op(u)' # Direct
                   => u = v
             /\ \A v \in Worker :
                   tr'[v].pc # "idle" => Undecided(tr[v].request)'
  <2>1. /\ tr'[w].request = r
        /\ \A v \in Worker : v # w => tr'[v] = tr[v]
        /\ results' = results
    BY <1>3 DEF Begin, Goto, TypeOK
  <2>2. \A v \in Worker : tr[v].pc # "idle" /\ r.op # Direct => Op(v) # r.op
    BY <1>3 DEF Begin, OperationLocked, Active
  <2>3. \A u, v \in Worker :
            /\ tr'[u].pc # "idle" /\ tr'[v].pc # "idle"
            /\ Op(u)' = Op(v)' /\ Op(u)' # Direct
            => u = v
    BY <1>1, <2>1, <2>2
  <2>4. \A v \in Worker : tr'[v].pc # "idle" => Undecided(tr[v].request)'
    BY <1>1, <1>3, <2>1 DEF Begin, Undecided
  <2> QED
    BY <2>3, <2>4
<1>4. ASSUME NEW w \in Worker, Keeps(w),
             \A v \in Worker : tr[v].pc # "idle" /\ tr'[v].pc # "idle"
                => Undecided(tr[v].request)'
      PROVE  /\ \A u, v \in Worker :
                   /\ tr'[u].pc # "idle" /\ tr'[v].pc # "idle"
                   /\ Op(u)' = Op(v)' /\ Op(u)' # Direct
                   => u = v
             /\ \A v \in Worker :
                   tr'[v].pc # "idle" => Undecided(tr[v].request)'
  <2>1. \A v \in Worker : tr'[v].pc # "idle" =>
            tr[v].pc # "idle" /\ tr'[v].request = tr[v].request
    BY <1>4 DEF Keeps, NoWork
  <2> QED
    BY <1>1, <1>4, <2>1
<1>5. ASSUME results' = results, NEW v \in Worker,
             tr[v].pc # "idle", tr'[v].pc # "idle",
             NEW w \in Worker, Keeps(w)
      PROVE  Undecided(tr[v].request)'
  <2>1. tr'[v].request = tr[v].request
    BY <1>5 DEF Keeps, NoWork
  <2> QED
    BY <1>1, <1>5, <2>1 DEF Undecided
<1>6. ASSUME NEW w \in Worker,
             StageCreate(w) \/ Stage(w) \/ StageDelete(w)
      PROVE  Keeps(w) /\ results' = results
  BY <1>6, StagingSteps DEF WorkersConsistent
<1>7. ASSUME NEW w \in Worker, Scan(w) \/ ScanDelete(w) \/ Abort(w)
      PROVE  Keeps(w) /\ results' = results
  BY <1>7, LookingSteps
<1>8. ASSUME NEW w \in Worker, CommitApplied(w) \/ CommitRefused(w),
             NEW v \in Worker, tr[v].pc # "idle", tr'[v].pc # "idle"
      PROVE  Undecided(tr[v].request)'
  <2>1. v # w /\ tr'[v] = tr[v] /\ tr[w].pc # "idle"
    BY <1>8, CommitSteps DEF Keeps, NoWork
  <2>2. Op(v) = Direct \/ Op(v) # Op(w)
    BY <1>1, <1>8, <2>1
  <2>3. PICK outcome \in Outcome : results' = Recorded(tr[w].request, outcome)
    <3>1. CASE CommitApplied(w)
      BY <3>1 DEF CommitApplied, Outcome
    <3>2. CASE CommitRefused(w)
      BY <3>2, WorkOf DEF CommitRefused, RefusedWork, Outcome
    <3> QED
      BY <1>8, <3>1, <3>2
  <2>4. Op(v) # Direct => Op(v) \in OpId /\ results[Op(v)] = NoResult
    BY <1>1, <1>8, WorkOf DEF Undecided, Request
  <2>5. Op(v) # Direct => results'[Op(v)] = results[Op(v)]
    BY <2>2, <2>3, <2>4 DEF Recorded, TypeOK
  <2> QED
    BY <2>1, <2>4, <2>5 DEF Undecided
<1>9. ASSUME NEW w \in Worker, CommitApplied(w) \/ CommitRefused(w)
      PROVE  Keeps(w)
  BY <1>9, CommitSteps
<1> HIDE DEF Op
<1> QED
  BY <1>2, <1>3, <1>4, <1>5, <1>6, <1>7, <1>8, <1>9 DEF StoreNext, Proceed

(* A row lock keeps its single holder: no step but one that finds the row  *)
(* unlocked makes a worker hold it.                                        *)
LEMMA HolderNext ==
    ASSUME TypeOK, TypeOK', WorkersConsistent, [StoreNext]_storeVars
    PROVE  OneHolder'
<1> SUFFICES ASSUME NEW u \in Worker, NEW v \in Worker,
                    Holds(u)', Holds(v)',
                    tr'[u].request.tx = tr'[v].request.tx
             PROVE  u = v
  BY DEF OneHolder
<1>1. ASSUME \A x \in Worker : Holds(x)' => tr'[x] = tr[x]
      PROVE  u = v
  <2>1. tr'[u] = tr[u] /\ tr'[v] = tr[v]
    BY <1>1
  <2> QED
    BY <2>1 DEF WorkersConsistent, OneHolder, Holds
<1>2. CASE UNCHANGED storeVars
  BY <1>1, <1>2 DEF storeVars
<1>3. ASSUME NEW w \in Worker, NEW r \in Requests, Begin(w, r)
      PROVE  \A x \in Worker : Holds(x)' => tr'[x] = tr[x]
  BY <1>3 DEF Begin, Goto, TypeOK, Holds
<1>4. ASSUME NEW w \in Worker,
             Scan(w) \/ ScanDelete(w) \/ Abort(w)
      PROVE  \A x \in Worker : Holds(x)' => tr'[x] = tr[x]
  BY <1>4, LookingSteps DEF Keeps, Holds
<1>5. ASSUME NEW w \in Worker, CommitApplied(w) \/ CommitRefused(w)
      PROVE  \A x \in Worker : Holds(x)' => tr'[x] = tr[x]
  BY <1>5, CommitSteps DEF Keeps, Holds, NoWork
<1>6. ASSUME NEW w \in Worker,
             StageCreate(w) \/ Stage(w) \/ StageDelete(w)
      PROVE  u = v
  <2>1. /\ \A x \in Worker : x # w => tr'[x] = tr[x]
        /\ tr'[w].pc = "staged" => ~RowLocked(tr'[w].request.tx)
    BY <1>6, StagingSteps DEF WorkersConsistent, Keeps
  <2>2. ASSUME NEW x \in Worker, x # w, Holds(x)', Holds(w)'
        PROVE  tr'[x].request.tx # tr'[w].request.tx
    <3>1. tr[x].pc = "staged" /\ tr[x].locks /\ tr'[x] = tr[x]
      BY <2>1, <2>2 DEF Holds
    <3>2. ~RowLocked(tr'[w].request.tx)
      BY <2>1, <2>2 DEF Holds
    <3> QED
      BY <3>1, <3>2 DEF RowLocked
  <2>3. CASE u # w /\ v # w
    BY <2>1, <2>3 DEF WorkersConsistent, OneHolder, Holds
  <2> QED
    BY <2>2, <2>3
<1> QED
  BY <1>1, <1>2, <1>3, <1>4, <1>5, <1>6 DEF StoreNext, Proceed

(* What a worker staged stays right: only the holder of a row's lock       *)
(* commits to the row, and nobody else has anything locked staged for it.  *)
LEMMA StagedNext ==
    ASSUME TypeOK, TypeOK', WorkersConsistent, [StoreNext]_storeVars
    PROVE  StagedCurrent'
<1> SUFFICES ASSUME NEW v \in Worker, tr'[v].pc = "staged"
             PROVE  StagedRight(v)'
  BY DEF StagedCurrent
<1>1. ASSUME tr'[v] = tr[v], rows'[tr[v].request.tx] = rows[tr[v].request.tx]
      PROVE  StagedRight(v)'
  BY <1>1 DEF WorkersConsistent, StagedCurrent, StagedRight
<1>2. CASE UNCHANGED storeVars
  BY <1>1, <1>2 DEF storeVars
<1>3. ASSUME NEW w \in Worker, NEW r \in Requests, Begin(w, r)
      PROVE  rows' = rows /\ tr'[v] = tr[v]
  BY <1>3 DEF Begin, Goto, TypeOK
<1>4. ASSUME NEW w \in Worker, Scan(w) \/ ScanDelete(w) \/ Abort(w)
      PROVE  rows' = rows /\ tr'[v] = tr[v]
  BY <1>4, LookingSteps DEF Keeps
<1>5. ASSUME NEW w \in Worker,
             StageCreate(w) \/ Stage(w) \/ StageDelete(w)
      PROVE  StagedRight(v)'
  <2>1. CASE v = w
    BY <1>5, <2>1, StagingSteps DEF WorkersConsistent
  <2>2. CASE v # w
    BY <1>1, <1>5, <2>2, StagingSteps DEF WorkersConsistent, Keeps
  <2> QED
    BY <2>1, <2>2
<1>6. ASSUME NEW w \in Worker, CommitRefused(w)
      PROVE  rows' = rows /\ tr'[v] = tr[v]
  BY <1>6, CommitSteps DEF Keeps, NoWork, CommitRefused
<1>7. ASSUME NEW w \in Worker, CommitApplied(w)
      PROVE  StagedRight(v)'
  <2>1. v # w /\ tr'[v] = tr[v]
    BY <1>7, CommitSteps DEF Keeps, NoWork
  <2>2. tr[v] \in StagedWork /\ tr[w] \in StagedWork
        /\ tr[v].request \in Request /\ tr[w].request \in Request
    BY <1>7, <2>1, WorkOf DEF CommitApplied
  <2>3. CASE ~tr[w].locks
    BY <1>1, <1>7, <2>1, <2>3 DEF CommitApplied
  <2>4. CASE tr[w].locks /\ tr[w].request.tx # tr[v].request.tx
    <3>1. rows' = [rows EXCEPT ![tr[w].request.tx] = tr[w].row]
      BY <1>7, <2>4 DEF CommitApplied
    <3>2. rows'[tr[v].request.tx] = rows[tr[v].request.tx]
      BY <2>2, <2>4, <3>1 DEF TypeOK, Request
    <3> QED
      BY <1>1, <2>1, <3>2
  <2>5. CASE tr[w].locks /\ tr[w].request.tx = tr[v].request.tx
    <3>1. ~tr[v].locks
      BY <1>7, <2>1, <2>5 DEF WorkersConsistent, OneHolder, Holds, CommitApplied
    <3>2. tr[v].request.kind = "delete"
          /\ tr[v].inserted = NewRevisions(rows[tr[v].request.tx], tr[v].request)
      BY <2>1, <3>1 DEF WorkersConsistent, StagedCurrent, StagedRight
    <3>3. NewRevisions(rows[tr[v].request.tx], tr[v].request) = {}
          /\ NewRevisions(rows'[tr[v].request.tx], tr[v].request) = {}
      BY <3>2 DEF NewRevisions
    <3> QED
      BY <2>1, <3>1, <3>2, <3>3 DEF StagedRight
  <2> QED
    BY <2>3, <2>4, <2>5
<1> QED
  BY <1>1, <1>2, <1>3, <1>4, <1>5, <1>6, <1>7 DEF StoreNext, Proceed

-----------------------------------------------------------------------------
(***************************************************************************)
(* The inductive invariant.                                                *)
(***************************************************************************)

(* Types and locks, together, are kept by every step of every worker.      *)
LEMMA StoreInvariant == StoreSpec => [](TypeOK /\ WorkersConsistent)
<1>1. StoreInit => TypeOK /\ WorkersConsistent
  <2>1. StoreInit => \A w \in Worker : tr[w].pc = "idle"
    BY DEF StoreInit, NoWork
  <2>2. StoreInit => WorkersConsistent
    BY <2>1 DEF WorkersConsistent, ScannedRowExists, OneAttempt, OneHolder,
                Holds, StagedCurrent, Active
  <2> QED
    BY <2>2, InitTypeOK
<1>2. TypeOK /\ WorkersConsistent /\ [StoreNext]_storeVars
        => (TypeOK /\ WorkersConsistent)'
  <2> SUFFICES ASSUME TypeOK, WorkersConsistent, [StoreNext]_storeVars
               PROVE  TypeOK' /\ WorkersConsistent'
    OBVIOUS
  <2>1. TypeOK'
    BY NextTypeOK DEF WorkersConsistent
  <2>2. ScannedRowExists' /\ OneAttempt' /\ OneHolder' /\ StagedCurrent'
    BY <2>1, ScannedNext, AttemptNext, HolderNext, StagedNext
  <2> QED
    BY <2>1, <2>2 DEF WorkersConsistent
<1> QED
  BY <1>1, <1>2, PTL DEF StoreSpec

(* Every column of the tables and every state of a database transaction    *)
(* keeps its type, whatever the workers do: in particular the row that     *)
(* each handler writes satisfies the column types of transactions.         *)
THEOREM StoreTypeCorrect == StoreSpec => []TypeOK
BY StoreInvariant, PTL

(* What a database transaction has staged under its row lock is what the   *)
(* rules give for the row at every moment until its COMMIT, and no two of  *)
(* them attempt one operation: the advisory lock of ApplySyncMutation and  *)
(* the FOR UPDATE and unique-index locks of the handlers do their work.    *)
THEOREM StoreConsistent == StoreSpec => []WorkersConsistent
BY StoreInvariant, PTL

-----------------------------------------------------------------------------
(***************************************************************************)
(* Refinement.                                                             *)
(***************************************************************************)

(* A commit is one step of the ledger: the request is decided against the  *)
(* rows as they are at that moment.  A deletion whose UPDATE touched no    *)
(* row is a stutter, and so is every other step of a worker.               *)
LEMMA StepSimulation ==
    TypeOK /\ WorkersConsistent /\ [StoreNext]_storeVars
       => [LedgerNext]_ledgerVars
<1> SUFFICES ASSUME TypeOK, WorkersConsistent, [StoreNext]_storeVars
             PROVE  LedgerNext \/ UNCHANGED ledgerVars
  OBVIOUS
<1>1. CASE UNCHANGED storeVars
  BY <1>1 DEF storeVars, ledgerVars
<1>2. ASSUME NEW w \in Worker, NEW r \in Requests, Begin(w, r)
      PROVE  UNCHANGED ledgerVars
  BY <1>2 DEF Begin, ledgerVars
<1>3. ASSUME NEW w \in Worker,
             StageCreate(w) \/ Stage(w) \/ StageDelete(w)
      PROVE  UNCHANGED ledgerVars
  BY <1>3, StagingSteps DEF WorkersConsistent, ledgerVars
<1>4. ASSUME NEW w \in Worker, Scan(w) \/ ScanDelete(w) \/ Abort(w)
      PROVE  UNCHANGED ledgerVars
  BY <1>4, LookingSteps DEF ledgerVars
<1>5. ASSUME NEW w \in Worker, CommitApplied(w)
      PROVE  LedgerNext \/ UNCHANGED ledgerVars
  <2> DEFINE r == tr[w].request
  <2>1. tr[w].pc = "staged" /\ tr[w] \in StagedWork
        /\ r \in Requests /\ r \in Request /\ w \in Active
    BY <1>5, WorkOf DEF CommitApplied, Active
  <2>2. StagedRight(w) /\ Undecided(r)
    BY <2>1 DEF WorkersConsistent, StagedCurrent, OneAttempt
  <2>3. /\ revisions' = revisions \cup NewRevisions(rows[r.tx], r)
        /\ results' = Recorded(r, "applied")
    BY <1>5, <2>2 DEF CommitApplied, StagedRight
  <2>4. CASE tr[w].locks
    <3>1. Verdict(rows[r.tx], r) = "applied"
          /\ rows' = [rows EXCEPT ![r.tx] = After(rows[r.tx], r)]
      BY <1>5, <2>2, <2>4 DEF CommitApplied, StagedRight
    <3>2. Apply(r)
      BY <2>2, <2>3, <3>1 DEF Apply
    <3> QED
      BY <2>1, <3>2 DEF LedgerNext
  <2>5. CASE ~tr[w].locks
    <3>1. r.kind = "delete"
      BY <2>2, <2>5 DEF StagedRight
    <3>2. NewRevisions(rows[r.tx], r) = {}
      BY <3>1 DEF NewRevisions
    <3>3. results' = results
      BY <2>1, <2>3, <3>1, LedgerAssumption DEF Recorded
    <3> QED
      BY <1>5, <2>3, <2>5, <3>2, <3>3 DEF CommitApplied, ledgerVars
  <2> QED
    BY <2>1, <2>4, <2>5 DEF StagedWork
<1>6. ASSUME NEW w \in Worker, CommitRefused(w)
      PROVE  LedgerNext
  <2> DEFINE r == tr[w].request
  <2>1. tr[w] \in RefusedWork /\ r \in Requests /\ w \in Active
    BY <1>6, WorkOf DEF CommitRefused, Active
  <2>2. Undecided(r)
    BY <2>1 DEF WorkersConsistent, OneAttempt
  <2>3. tr[w].outcome \in Refusal
    BY <2>1 DEF RefusedWork
  <2>4. Refuse(r)
    BY <1>6, <2>2, <2>3 DEF CommitRefused, Refuse
  <2> QED
    BY <2>1, <2>4 DEF LedgerNext
<1> QED
  BY <1>1, <1>2, <1>3, <1>4, <1>5, <1>6 DEF StoreNext, Proceed

(* Concurrent handlers, retries and crashes included, the store is the     *)
(* serial ledger: every answer it stores is one that some one-at-a-time    *)
(* execution of the requests gives.                                        *)
THEOREM StoreImplementsLedger == StoreSpec => LedgerSpec
<1>1. StoreInit => LedgerInit
  BY DEF StoreInit
<1> QED
  BY <1>1, StepSimulation, StoreInvariant, PTL DEF StoreSpec, LedgerSpec

(* No correction overwrites another: the revisions of every transaction    *)
(* are an unbroken chain (the row lock of correctTransactionTx).           *)
THEOREM StoreRevisionChain == StoreSpec => []RevisionChain
BY StoreImplementsLedger, LedgerChain, PTL

(* A signed operation takes effect once, and exactly when its idempotency  *)
(* record says so (ApplySyncMutation).                                     *)
THEOREM StoreAppliedOnce == StoreSpec => []AppliedOnce
BY StoreImplementsLedger, LedgerOnce, PTL

(* Payment confirmation and print state never claim more than happened to  *)
(* the current revision (payments.go, printing.go, correctTransactionTx).  *)
THEOREM StoreRowHonest == StoreSpec => []RowHonest
BY StoreImplementsLedger, LedgerRows, PTL DEF RowHonest

(* A stored answer is never replaced (the idempotency record).             *)
THEOREM StoreResultsFinal == StoreSpec => ResultsFinal
BY StoreImplementsLedger, LedgerFinal, PTL

(* A deleted transaction never changes again.                              *)
THEOREM StoreDeletedFrozen == StoreSpec => DeletedFrozen
BY StoreImplementsLedger, LedgerFinal, PTL

-----------------------------------------------------------------------------
(***************************************************************************)
(* The change feed: what a device that pulls by cursor shows.              *)
(*                                                                         *)
(* A device's copy, and a row on its way to it, may be behind the store in *)
(* any part; but whatever they are behind in, a committed change that the  *)
(* device has not had yet will bring it.  Cursors matter only where a      *)
(* change carries a fact instead of the row, the status of a print         *)
(* attempt: there the last one must win, and does, because a row's lock is *)
(* held from the drawing of a cursor to its commit.                        *)
(***************************************************************************)

(* A change that carries the whole transaction. *)
Whole(c) == c.aggregate = "transaction" /\ ~c.tombstone

(* What a device shows of a transaction, by the changes that bring it: a    *)
(* transaction all of it, a print attempt the print state, a tombstone the  *)
(* deletion.                                                                *)
Part == {"base", "print", "deleted"}

Touches(c, k) ==
    \/ Whole(c)
    \/ k = "print" /\ ~c.tombstone
    \/ k = "deleted" /\ c.tombstone

(* Two copies of a transaction agree on a part. *)
SamePart(a, b, k) ==
    /\ (a = NoRow) <=> (b = NoRow)
    /\ a # NoRow =>
          /\ k = "base" => /\ a.revision = b.revision
                           /\ a.payment = b.payment
                           /\ a.confirmed = b.confirmed
          /\ k = "print" => a.print = b.print
          /\ k = "deleted" => a.deleted = b.deleted

(* Where a copy differs from the row, some news touches that part. *)
Catching(copied, row, news) ==
    \A k \in Part : (\E c \in news : Touches(c, k)) \/ SamePart(copied, row, k)

(* The committed changes of a transaction that are not among those had. *)
News(t, had) == {c \in changes : c.tx = t /\ c \notin had}

(* Changes are numbered in the order of their inserts, each its own. *)
Logged(w) == IF tr[w].pc = "staged" THEN tr[w].logged ELSE {}

Numbered ==
    /\ \A c \in changes : c.cursor < nextCursor
    /\ \A w \in Worker : \A c \in Logged(w) : c.cursor < nextCursor /\ c \notin changes
    /\ \A v, w \in Worker : v # w => Logged(v) \cap Logged(w) = {}

(* The change that a request logs. *)
Describes(c, r) ==
    /\ c.tx = r.tx
    /\ c.status = r.status
    /\ c.tombstone = (r.kind = "delete")
    /\ c.aggregate = IF r.kind = "print" THEN "print_attempt" ELSE "transaction"

(* What a staged request will log accounts for what it will write, and is  *)
(* numbered after every earlier change of the transaction's print state.   *)
LoggedRight(w) ==
    LET r == tr[w].request
    IN /\ \A c \in tr[w].logged :
             /\ Describes(c, r)
             /\ \A d \in changes :
                   d.tx = r.tx /\ Touches(d, "print") => d.cursor < c.cursor
       /\ tr[w].logged = {} => r.kind = "payment" /\ tr[w].row = rows[r.tx]
       /\ ~tr[w].locks => rows[r.tx] # NoRow /\ rows[r.tx].deleted

LoggingRight == \A w \in Worker : tr[w].pc = "staged" => LoggedRight(w)

(* What a committed change said of its row is so, or a later one says what *)
(* is.                                                                     *)
Witnessed(c) ==
    /\ rows[c.tx] # NoRow
    /\ c.tombstone => rows[c.tx].deleted
    /\ ~Whole(c) /\ ~c.tombstone =>
          \/ rows[c.tx].print = c.status
          \/ \E d \in changes :
                d.tx = c.tx /\ Touches(d, "print") /\ c.cursor < d.cursor

CommittedRight == \A c \in changes : Witnessed(c)

Filled == [change : Change, row : Row \cup {NoRow}]

DeviceTyped ==
    /\ position \in Nat
    /\ replica \in [Txn -> Row \cup {NoRow}]
    /\ delivered \in SUBSET changes
    /\ \A c \in delivered : c.cursor <= position

(* The page in flight: changes after the cursor, in order. *)
PageRight ==
    /\ pull.page # <<>>
    /\ \A i \in DOMAIN pull.page : pull.page[i] \in changes /\ position < pull.page[i].cursor
    /\ \A i, j \in DOMAIN pull.page : i < j => pull.page[i].cursor < pull.page[j].cursor

(* A row read for the page is missing nothing but what is committed and    *)
(* not in the page.                                                        *)
FilledRight ==
    /\ Len(pull.filled) <= Len(pull.page)
    /\ \A i \in DOMAIN pull.filled :
          /\ pull.filled[i].change = pull.page[i]
          /\ Whole(pull.page[i]) =>
                /\ pull.filled[i].row # NoRow
                /\ Catching(pull.filled[i].row, rows[pull.page[i].tx],
                            News(pull.page[i].tx, delivered \cup ToSet(pull.page)))

PullRight ==
    pull # NoPull =>
        /\ pull \in [pc : {"reading"}, page : Seq(Change), filled : Seq(Filled)]
        /\ PageRight
        /\ FilledRight

ReplicaRight ==
    \A t \in Txn : Catching(replica[t], rows[t], News(t, delivered))

FeedInv ==
    /\ Numbered /\ LoggingRight /\ CommittedRight
    /\ DeviceTyped /\ PullRight /\ ReplicaRight

-----------------------------------------------------------------------------
(* --- The workers' steps, as the feed sees them --------------------------- *)
(* A step that neither stages nor commits a change. *)
Quiet(w) ==
    /\ UNCHANGED <<rows, changes, nextCursor>>
    /\ \A v \in Worker : v # w => tr'[v] = tr[v]
    /\ tr'[w].pc # "staged"

(* A step that stages one. *)
Staging(w) ==
    /\ UNCHANGED <<rows, changes>>
    /\ nextCursor' \in {nextCursor, nextCursor + 1}
    /\ \A v \in Worker : v # w => tr'[v] = tr[v]
    /\ tr'[w].pc = "staged"
    /\ \A c \in tr'[w].logged :
          /\ c.cursor = nextCursor
          /\ nextCursor' = nextCursor + 1
          /\ Describes(c, tr'[w].request)
    /\ tr'[w].logged = {} => /\ tr'[w].request.kind = "payment"
                             /\ tr'[w].row = rows[tr'[w].request.tx]
    /\ ~tr'[w].locks => /\ rows[tr'[w].request.tx] # NoRow
                        /\ rows[tr'[w].request.tx].deleted

(* A refusal stages nothing. *)
LEMMA RejectQuiet ==
    ASSUME TypeOK, NEW w \in Worker, tr[w].pc # "idle", NEW outcome,
           Reject(w, outcome)
    PROVE  Quiet(w)
BY DEF Reject, Goto, Quiet, NoWork, TypeOK

(* What a handler stages, with the change that addChange numbers for it.  *)
(* A deletion that holds no row lock found the row deleted.                *)
LEMMA StageWriteStaging ==
    ASSUME TypeOK, NEW w \in Worker, tr[w].pc # "idle",
           NEW row, NEW revision, NEW locks,
           StageWrite(w, row, revision, locks),
           ~locks => /\ rows[tr[w].request.tx] # NoRow
                     /\ rows[tr[w].request.tx].deleted
    PROVE  Staging(w)
<1> DEFINE r == tr[w].request
           silent == r.kind = "payment" /\ row = rows[r.tx]
<1>1. /\ UNCHANGED <<rows, changes>>
      /\ \A v \in Worker : v # w => tr'[v] = tr[v]
      /\ tr'[w].pc = "staged" /\ tr'[w].request = r /\ tr'[w].row = row
      /\ tr'[w].locks = locks
      /\ nextCursor' = IF silent THEN nextCursor ELSE nextCursor + 1
  BY DEF StageWrite, Goto, TypeOK
<1>2. tr'[w].logged = IF silent THEN {} ELSE
                     {[cursor |-> nextCursor,
                       aggregate |-> IF r.kind = "print" THEN "print_attempt"
                                     ELSE "transaction",
                       tx |-> r.tx, revision |-> revision,
                       tombstone |-> r.kind = "delete",
                       status |-> r.status]}
  BY DEF StageWrite, Goto, TypeOK
<1>3. ASSUME NEW c \in tr'[w].logged
      PROVE  ~silent /\ c.cursor = nextCursor /\ Describes(c, r)
  BY <1>2, <1>3 DEF Describes
<1>4. tr'[w].logged = {} => silent
  BY <1>2
<1> HIDE DEF silent, r
<1>5. silent => r.kind = "payment" /\ row = rows[r.tx]
  BY DEF silent, r
<1>6. ~locks => rows[r.tx] # NoRow /\ rows[r.tx].deleted
  BY DEF r
<1> QED BY <1>1, <1>3, <1>4, <1>5, <1>6 DEF Staging

(* Every step of a worker is one of the three kinds. *)
LEMMA WorkerSteps ==
    ASSUME TypeOK, WorkersConsistent, StoreNext
    PROVE  \E w \in Worker : Quiet(w) \/ Staging(w) \/ CommitApplied(w)
<1>1. ASSUME NEW w \in Worker, NEW r \in Requests, Begin(w, r) PROVE Quiet(w)
  BY <1>1 DEF Begin, Goto, Quiet, TypeOK
<1>2. ASSUME NEW w \in Worker, StageCreate(w) PROVE Quiet(w) \/ Staging(w)
  <2> DEFINE r == tr[w].request
  <2>1. tr[w].pc # "idle"
    BY <1>2 DEF StageCreate
  <2>2. CASE CreateVerdict(rows[r.tx], r) = "applied"
    <3>1. StageWrite(w, CreatedRow(r), 1, TRUE)
      BY <1>2, <2>2 DEF StageCreate
    <3> QED BY <2>1, <3>1, StageWriteStaging
  <2>3. CASE CreateVerdict(rows[r.tx], r) # "applied"
    BY <1>2, <2>1, <2>3, RejectQuiet DEF StageCreate
  <2> QED BY <2>2, <2>3
<1>3. ASSUME NEW w \in Worker, Scan(w) PROVE Quiet(w)
  <2>1. tr[w].pc # "idle"
    BY <1>3 DEF Scan
  <2>2. CASE rows[tr[w].request.tx] = NoRow
    BY <1>3, <2>1, <2>2, RejectQuiet DEF Scan
  <2>3. CASE rows[tr[w].request.tx] # NoRow
    BY <1>3, <2>3 DEF Scan, Goto, Quiet, TypeOK
  <2> QED BY <2>2, <2>3
<1>4. ASSUME NEW w \in Worker, Stage(w) PROVE Quiet(w) \/ Staging(w)
  <2> DEFINE r == tr[w].request
             next == After(rows[r.tx], r)
  <2>1. tr[w].pc # "idle"
    BY <1>4 DEF Stage
  <2>2. CASE LockedVerdict(w) = "applied"
    <3>1. StageWrite(w, next, next.revision, TRUE)
      BY <1>4, <2>2 DEF Stage
    <3> HIDE DEF next
    <3> QED BY <2>1, <3>1, StageWriteStaging
  <2>3. CASE LockedVerdict(w) # "applied"
    BY <1>4, <2>1, <2>3, RejectQuiet DEF Stage
  <2> QED BY <2>2, <2>3
<1>5. ASSUME NEW w \in Worker, ScanDelete(w) PROVE Quiet(w)
  <2>1. tr[w].pc # "idle"
    BY <1>5 DEF ScanDelete
  <2>2. CASE DeleteVerdict(rows[tr[w].request.tx], tr[w].request) # "applied"
    BY <1>5, <2>1, <2>2, RejectQuiet DEF ScanDelete
  <2>3. CASE DeleteVerdict(rows[tr[w].request.tx], tr[w].request) = "applied"
    BY <1>5, <2>3 DEF ScanDelete, Goto, Quiet, TypeOK
  <2> QED BY <2>2, <2>3
<1>6. ASSUME NEW w \in Worker, StageDelete(w) PROVE Staging(w)
  <2> DEFINE r == tr[w].request
  <2>1. tr[w].pc = "scanned" /\ rows[r.tx] # NoRow
    BY <1>6 DEF StageDelete, WorkersConsistent, ScannedRowExists
  <2>2. StageWrite(w, DeletedRow(rows[r.tx]), tr[w].seen, ~rows[r.tx].deleted)
    BY <1>6 DEF StageDelete
  <2>3. ~~rows[r.tx].deleted => rows[r.tx] # NoRow /\ rows[r.tx].deleted
    BY <2>1
  <2> QED BY <2>1, <2>2, <2>3, StageWriteStaging
<1>7. ASSUME NEW w \in Worker, CommitRefused(w) PROVE Quiet(w)
  BY <1>7 DEF CommitRefused, Goto, Quiet, TypeOK, NoWork
<1>8. ASSUME NEW w \in Worker, Abort(w) PROVE Quiet(w)
  BY <1>8 DEF Abort, Goto, Quiet, TypeOK, NoWork
<1> QED
  BY <1>1, <1>2, <1>3, <1>4, <1>5, <1>6, <1>7, <1>8 DEF StoreNext, Proceed

(* A commit, as the feed sees it: the row and the change appear together. *)
LEMMA CommitIs ==
    ASSUME TypeOK, WorkersConsistent, LoggingRight, NEW w \in Worker, CommitApplied(w)
    PROVE  LET r == tr[w].request
           IN /\ tr[w].pc = "staged" /\ tr'[w] = NoWork
              /\ \A v \in Worker : v # w => tr'[v] = tr[v]
              /\ nextCursor' = nextCursor /\ changes' = changes \cup tr[w].logged
              /\ r \in Request /\ r.tx \in Txn /\ tr[w].logged \in SUBSET Change
              /\ tr[w].row \in Row /\ tr[w].row # NoRow
              /\ \A t \in Txn : t # r.tx => rows'[t] = rows[t]
              /\ tr[w].locks => /\ rows'[r.tx] = tr[w].row
                                /\ Verdict(rows[r.tx], r) = "applied"
                                /\ tr[w].row = After(rows[r.tx], r)
              /\ ~tr[w].locks => /\ rows' = rows /\ r.kind = "delete"
                                 /\ rows[r.tx] # NoRow /\ rows[r.tx].deleted
<1> DEFINE r == tr[w].request
<1>1. /\ tr[w].pc = "staged" /\ tr'[w] = NoWork
      /\ \A v \in Worker : v # w => tr'[v] = tr[v]
      /\ nextCursor' = nextCursor /\ changes' = changes \cup tr[w].logged
  BY DEF CommitApplied, Goto, TypeOK
<1>2. r \in Request /\ tr[w] \in StagedWork
  BY <1>1, WorkOf
<1>3. /\ r.tx \in Txn /\ tr[w].logged \in SUBSET Change
      /\ tr[w].row \in Row /\ tr[w].row # NoRow
  BY <1>2, LedgerAssumption DEF Request, StagedWork
<1>4. StagedRight(w) /\ LoggedRight(w)
  BY <1>1 DEF WorkersConsistent, StagedCurrent, LoggingRight
<1>5. rows' = IF tr[w].locks THEN [rows EXCEPT ![r.tx] = tr[w].row] ELSE rows
  BY DEF CommitApplied
<1>6. \A t \in Txn : t # r.tx => rows'[t] = rows[t]
  BY <1>5 DEF TypeOK
<1>7. tr[w].locks => /\ rows'[r.tx] = tr[w].row
                     /\ Verdict(rows[r.tx], r) = "applied"
                     /\ tr[w].row = After(rows[r.tx], r)
  BY <1>3, <1>4, <1>5 DEF TypeOK, StagedRight
<1>8. ~tr[w].locks => /\ rows' = rows /\ r.kind = "delete"
                      /\ rows[r.tx] # NoRow /\ rows[r.tx].deleted
  BY <1>4, <1>5 DEF StagedRight, LoggedRight
<1> HIDE DEF r
<1>9. r = tr[w].request
  BY DEF r
<1> QED BY <1>1, <1>2, <1>3, <1>6, <1>7, <1>8, <1>9

(* What a request that holds the row's lock does to its parts: those that   *)
(* its change does not touch stay as they are.                              *)
LEMMA UntouchedStays ==
    ASSUME NEW row \in Row \cup {NoRow}, NEW r \in Request, NEW c,
           Verdict(row, r) = "applied", Describes(c, r), NEW k \in Part, ~Touches(c, k)
    PROVE  row # NoRow /\ SamePart(row, After(row, r), k)
<1>1. r.kind \in {"print", "delete"}
  BY DEF Describes, Touches, Whole
<1>2. row \in Row /\ row # NoRow
  BY <1>1 DEF Verdict, PrintVerdict, DeleteVerdict
<1>3. After(row, r) \in Row /\ After(row, r) # NoRow
  BY AfterIsRow, LedgerAssumption
<1>4. CASE r.kind = "print"
  <2>1. k \in {"base", "deleted"}
    BY <1>4 DEF Describes, Touches, Part
  <2>2. After(row, r) = PrintedRow(row, r)
    BY <1>4 DEF After
  <2>3. /\ PrintedRow(row, r).revision = row.revision /\ PrintedRow(row, r).payment = row.payment
        /\ PrintedRow(row, r).confirmed = row.confirmed /\ PrintedRow(row, r).deleted = row.deleted
    BY <1>2 DEF PrintedRow, Row
  <2> QED BY <1>2, <1>3, <2>1, <2>2, <2>3 DEF SamePart
<1>5. CASE r.kind = "delete"
  <2>1. k \in {"base", "print"}
    BY <1>5 DEF Describes, Touches, Part
  <2>2. After(row, r) = DeletedRow(row)
    BY <1>5 DEF After
  <2>3. /\ DeletedRow(row).revision = row.revision /\ DeletedRow(row).payment = row.payment
        /\ DeletedRow(row).confirmed = row.confirmed /\ DeletedRow(row).print = row.print
    BY <1>2 DEF DeletedRow, Row
  <2> QED BY <1>2, <1>3, <2>1, <2>2, <2>3 DEF SamePart
<1> QED BY <1>1, <1>4, <1>5

(* The parts that a request's change states, it states right. *)
LEMMA StatedRight ==
    ASSUME NEW row \in Row \cup {NoRow}, NEW r \in Request, NEW c,
           Verdict(row, r) = "applied", Describes(c, r), ~Whole(c)
    PROVE  /\ c.tombstone => After(row, r).deleted
           /\ ~c.tombstone => After(row, r).print = c.status
<1>1. r.kind \in {"print", "delete"}
  BY DEF Describes, Whole
<1>2. row \in Row /\ row # NoRow
  BY <1>1 DEF Verdict, PrintVerdict, DeleteVerdict
<1>3. CASE r.kind = "print"
  <2>1. After(row, r) = PrintedRow(row, r)
    BY <1>3 DEF After
  <2>2. PrintedRow(row, r).print = r.status
    BY <1>2 DEF PrintedRow, Row
  <2> QED BY <1>3, <2>1, <2>2 DEF Describes
<1>4. CASE r.kind = "delete"
  <2>1. After(row, r) = DeletedRow(row)
    BY <1>4 DEF After
  <2>2. DeletedRow(row).deleted
    BY <1>2 DEF DeletedRow, Row
  <2> QED BY <1>4, <2>1, <2>2 DEF Describes
<1> QED BY <1>1, <1>3, <1>4

(* Deletion is final, row by row. *)
LEMMA CommitKeepsDeleted ==
    ASSUME TypeOK, WorkersConsistent, LoggingRight, NEW w \in Worker, CommitApplied(w),
           NEW t \in Txn, rows[t] # NoRow
    PROVE  rows'[t] # NoRow /\ (rows[t].deleted => rows'[t] = rows[t])
<1>1. CASE t # tr[w].request.tx
  BY <1>1, CommitIs
<1>2. CASE t = tr[w].request.tx /\ tr[w].locks
  <2>1. /\ rows'[t] # NoRow /\ Verdict(rows[t], tr[w].request) = "applied"
        /\ tr[w].request \in Request
    BY <1>2, CommitIs
  <2>2. ~rows[t].deleted
    BY <2>1, DeletedRefuses DEF TypeOK
  <2> QED BY <2>1, <2>2
<1>3. CASE ~tr[w].locks
  BY <1>3, CommitIs
<1> QED BY <1>1, <1>2, <1>3

(* Cursors stay apart: a new one is drawn from the sequence, and a commit  *)
(* only moves a change from a worker to the table.                         *)
LEMMA NumberedNext ==
    ASSUME TypeOK, WorkersConsistent, LoggingRight, Numbered, NEW w \in Worker,
           Quiet(w) \/ Staging(w) \/ CommitApplied(w)
    PROVE  Numbered'
<1> DEFINE L(v) == IF tr'[v].pc = "staged" THEN tr'[v].logged ELSE {}
<1>1. Numbered' <=>
        /\ \A c \in changes' : c.cursor < nextCursor'
        /\ \A v \in Worker : \A c \in L(v) : c.cursor < nextCursor' /\ c \notin changes'
        /\ \A u, v \in Worker : u # v => L(u) \cap L(v) = {}
  BY DEF Numbered, Logged
<1>2. nextCursor \in Nat
  BY DEF TypeOK
<1>3. changes \in SUBSET Change /\ \A v \in Worker : \A c \in Logged(v) : c.cursor \in Nat
  <2>1. changes \in SUBSET Change
    BY DEF TypeOK
  <2>2. ASSUME NEW v \in Worker, NEW c \in Logged(v) PROVE c.cursor \in Nat
    BY <2>2, WorkOf DEF Logged, StagedWork, Change
  <2> QED BY <2>1, <2>2
<1>4. ASSUME NEW v \in Worker, tr'[v] = tr[v] PROVE L(v) = Logged(v)
  BY <1>4 DEF Logged
<1>5. CASE Quiet(w)
  <2>1. /\ changes' = changes /\ nextCursor' = nextCursor /\ L(w) = {}
        /\ \A v \in Worker : v # w => L(v) = Logged(v)
    BY <1>4, <1>5 DEF Quiet
  <2> HIDE DEF L
  <2> QED BY <1>1, <2>1 DEF Numbered
<1>6. CASE Staging(w)
  <2>1. /\ changes' = changes /\ nextCursor' \in {nextCursor, nextCursor + 1}
        /\ \A v \in Worker : v # w => L(v) = Logged(v)
        /\ \A c \in L(w) : c.cursor = nextCursor /\ nextCursor' = nextCursor + 1
    BY <1>4, <1>6 DEF Staging
  <2> HIDE DEF L
  <2>2. \A c \in changes : c.cursor < nextCursor'
    BY <1>2, <1>3, <2>1 DEF Numbered, Change
  <2>3. \A v \in Worker : v # w => \A c \in L(v) : c.cursor < nextCursor' /\ c \notin changes'
    BY <1>2, <1>3, <2>1 DEF Numbered
  <2>4. \A c \in L(w) : c.cursor < nextCursor' /\ c \notin changes'
    BY <1>2, <2>1 DEF Numbered
  <2>5. \A v \in Worker : v # w => L(v) \cap L(w) = {}
    BY <1>2, <2>1 DEF Numbered
  <2>6. \A u, v \in Worker : u # v => L(u) \cap L(v) = {}
    BY <2>1, <2>5 DEF Numbered
  <2> QED BY <1>1, <2>1, <2>2, <2>3, <2>4, <2>6
<1>7. CASE CommitApplied(w)
  <2>1. /\ changes' = changes \cup Logged(w) /\ nextCursor' = nextCursor /\ L(w) = {}
        /\ \A v \in Worker : v # w => L(v) = Logged(v)
    BY <1>4, <1>7, CommitIs DEF Logged, NoWork
  <2> HIDE DEF L
  <2>2. \A c \in changes' : c.cursor < nextCursor'
    BY <2>1 DEF Numbered
  <2>3. \A v \in Worker : \A c \in L(v) : c.cursor < nextCursor' /\ c \notin changes'
    BY <2>1 DEF Numbered
  <2> QED BY <1>1, <2>1, <2>2, <2>3 DEF Numbered
<1> QED BY <1>5, <1>6, <1>7

(* What is staged stays in order: nobody else commits to a locked row, and *)
(* a deletion without a lock stays true, since deletion is final.          *)
LEMMA LoggingNext ==
    ASSUME TypeOK, WorkersConsistent, LoggingRight, Numbered, NEW w \in Worker,
           Quiet(w) \/ Staging(w) \/ CommitApplied(w)
    PROVE  LoggingRight'
<1> SUFFICES ASSUME NEW v \in Worker, tr'[v].pc = "staged" PROVE LoggedRight(v)'
  BY DEF LoggingRight
<1>1. CASE v # w /\ UNCHANGED <<rows, changes>> /\ tr'[v] = tr[v]
  BY <1>1 DEF LoggingRight, LoggedRight
<1>2. CASE Quiet(w)
  BY <1>1, <1>2 DEF Quiet
<1>3. CASE Staging(w) /\ v # w
  BY <1>1, <1>3 DEF Staging
<1>4. CASE Staging(w) /\ v = w
  <2> DEFINE r == tr'[w].request
  <2>1. /\ rows' = rows /\ changes' = changes
        /\ \A c \in tr'[w].logged : c.cursor = nextCursor /\ Describes(c, r)
        /\ tr'[w].logged = {} => r.kind = "payment" /\ tr'[w].row = rows[r.tx]
        /\ ~tr'[w].locks => rows[r.tx] # NoRow /\ rows[r.tx].deleted
    BY <1>4 DEF Staging
  <2>2. \A d \in changes : d.cursor < nextCursor
    BY DEF Numbered
  <2>3. \A c \in tr'[w].logged : \A d \in changes' :
           d.tx = r.tx /\ Touches(d, "print") => d.cursor < c.cursor
    BY <2>1, <2>2
  <2> QED BY <1>4, <2>1, <2>3 DEF LoggedRight
<1>5. CASE CommitApplied(w)
  <2>1. /\ tr'[w].pc # "staged"
        /\ \A u \in Worker : u # w => tr'[u] = tr[u]
        /\ changes' = changes \cup tr[w].logged
    BY <1>5, CommitIs DEF NoWork
  <2>2. /\ v # w /\ tr'[v] = tr[v] /\ tr[v].pc = "staged" /\ tr[w].pc = "staged"
    BY <1>5, <2>1 DEF CommitApplied
  <2>3. LoggedRight(v) /\ LoggedRight(w)
    BY <2>2 DEF LoggingRight
  <2>4. tr[v].request.tx \in Txn
    BY <2>2, WorkOf DEF Request
  <2>5. CASE tr[v].request.tx # tr[w].request.tx
    <3>1. rows'[tr[v].request.tx] = rows[tr[v].request.tx]
      BY <1>5, <2>4, <2>5, CommitIs
    <3>2. \A d \in changes' : d.tx = tr[v].request.tx => d \in changes
      BY <2>1, <2>3, <2>5 DEF LoggedRight, Describes
    <3> QED BY <2>2, <2>3, <3>1, <3>2 DEF LoggedRight
  <2>6. CASE tr[v].request.tx = tr[w].request.tx /\ ~tr[w].locks
    <3>1. rows' = rows /\ tr[w].request.kind = "delete"
      BY <1>5, <2>6, CommitIs
    <3>2. \A d \in changes' : Touches(d, "print") => d \in changes
      BY <2>1, <2>3, <3>1 DEF LoggedRight, Describes, Touches, Whole
    <3> QED BY <2>2, <2>3, <3>1, <3>2 DEF LoggedRight
  <2>7. CASE tr[v].request.tx = tr[w].request.tx /\ tr[w].locks
    <3>1. ~tr[v].locks
      BY <2>2, <2>7 DEF WorkersConsistent, OneHolder, Holds
    <3>2. tr[v].request.kind = "delete" /\ rows[tr[v].request.tx] # NoRow
          /\ rows[tr[v].request.tx].deleted
      BY <2>2, <2>3, <3>1 DEF WorkersConsistent, StagedCurrent, StagedRight, LoggedRight
    <3>3. tr[w].request \in Request /\ Verdict(rows[tr[v].request.tx], tr[w].request) = "applied"
      BY <1>5, <2>7, CommitIs
    <3> QED BY <2>4, <3>2, <3>3, DeletedRefuses DEF TypeOK
  <2> QED BY <2>5, <2>6, <2>7
<1> QED BY <1>2, <1>3, <1>4, <1>5

(* A commit that makes an older change untrue brings a later one with it.  *)
LEMMA CommittedNext ==
    ASSUME TypeOK, WorkersConsistent, LoggingRight, CommittedRight, Numbered, NEW w \in Worker,
           Quiet(w) \/ Staging(w) \/ CommitApplied(w)
    PROVE  CommittedRight'
<1>1. CASE UNCHANGED <<rows, changes>>
  BY <1>1 DEF CommittedRight, Witnessed
<1>2. CASE CommitApplied(w)
  <2> DEFINE r == tr[w].request
  <2>1. /\ tr[w].pc = "staged" /\ r \in Request /\ r.tx \in Txn
        /\ changes' = changes \cup tr[w].logged
        /\ \A t \in Txn : t # r.tx => rows'[t] = rows[t]
    BY <1>2, CommitIs
  <2>2. /\ tr[w].locks => /\ rows'[r.tx] = After(rows[r.tx], r) /\ rows'[r.tx] # NoRow
                          /\ Verdict(rows[r.tx], r) = "applied"
        /\ ~tr[w].locks => /\ rows' = rows /\ r.kind = "delete"
                           /\ rows[r.tx] # NoRow /\ rows[r.tx].deleted
    BY <1>2, CommitIs
  <2>3. LoggedRight(w)
    BY <2>1 DEF LoggingRight
  <2>4. rows[r.tx] \in Row \cup {NoRow}
    BY <2>1 DEF TypeOK
  <2>5. ASSUME NEW c \in tr[w].logged PROVE Witnessed(c)'
    <3>1. Describes(c, r) /\ c.tx = r.tx
      BY <2>3 DEF LoggedRight, Describes
    <3>2. CASE tr[w].locks
      BY <2>1, <2>2, <2>4, <3>1, <3>2, StatedRight DEF Witnessed, Whole
    <3>3. CASE ~tr[w].locks
      <4>1. c.tombstone
        BY <2>2, <3>1, <3>3 DEF Describes
      <4> QED BY <2>2, <3>1, <3>3, <4>1 DEF Witnessed
    <3> QED BY <3>2, <3>3
  <2>6. ASSUME NEW c \in changes PROVE Witnessed(c)'
    <3>0. Witnessed(c) /\ c.tx \in Txn /\ rows[c.tx] # NoRow
      BY DEF CommittedRight, Witnessed, TypeOK, Change
    <3>1. rows'[c.tx] # NoRow /\ (rows[c.tx].deleted => rows'[c.tx].deleted)
      BY <1>2, <3>0, CommitKeepsDeleted
    <3>2. c.tombstone => rows'[c.tx].deleted
      BY <3>0, <3>1 DEF Witnessed
    <3>3. ASSUME ~Whole(c), ~c.tombstone
          PROVE  \/ rows'[c.tx].print = c.status
                 \/ \E d \in changes' : d.tx = c.tx /\ Touches(d, "print") /\ c.cursor < d.cursor
      <4>1. CASE \E d \in changes : d.tx = c.tx /\ Touches(d, "print") /\ c.cursor < d.cursor
        BY <2>1, <4>1
      <4>2. CASE rows[c.tx].print = c.status /\ rows'[c.tx] = rows[c.tx]
        BY <4>2
      <4>3. CASE rows[c.tx].print = c.status /\ rows'[c.tx] # rows[c.tx]
        <5>1. c.tx = r.tx /\ tr[w].locks
          BY <2>1, <2>2, <3>0, <4>3
        <5>2. tr[w].logged # {}
          <6>1. ASSUME tr[w].logged = {} PROVE FALSE
            <7>1. tr[w].row = rows[r.tx]
              BY <2>3, <6>1 DEF LoggedRight
            <7>2. rows'[r.tx] = tr[w].row
              BY <1>2, <5>1, CommitIs
            <7> QED BY <4>3, <5>1, <7>1, <7>2
          <6> QED BY <6>1
        <5>3. PICK d \in tr[w].logged : TRUE
          BY <5>2
        <5>4. Describes(d, r) /\ d.tx = c.tx
          BY <2>3, <5>1, <5>3 DEF LoggedRight, Describes
        <5>5. CASE Touches(d, "print")
          <6>1. Touches(c, "print")
            BY <3>3 DEF Touches
          <6>2. c.cursor < d.cursor
            BY <2>3, <5>1, <5>3, <6>1 DEF LoggedRight
          <6> QED BY <2>1, <5>3, <5>4, <5>5, <6>2
        <5>6. CASE ~Touches(d, "print")
          <6>1. SamePart(rows[r.tx], rows'[r.tx], "print") /\ rows[r.tx] # NoRow
            <7>1. "print" \in Part
              BY DEF Part
            <7> QED BY <2>1, <2>2, <2>4, <5>1, <5>4, <5>6, <7>1, UntouchedStays
          <6> QED BY <4>3, <5>1, <6>1 DEF SamePart
        <5> QED BY <5>5, <5>6
      <4> QED BY <3>0, <3>3, <4>1, <4>2, <4>3 DEF Witnessed
    <3> QED BY <3>1, <3>2, <3>3 DEF Witnessed
  <2> QED BY <2>1, <2>5, <2>6 DEF CommittedRight
<1> QED BY <1>1, <1>2 DEF Quiet, Staging

(* Agreement on a part is transitive. *)
LEMMA SamePartTransitive ==
    ASSUME NEW a, NEW b, NEW c, NEW k, SamePart(a, b, k), SamePart(b, c, k)
    PROVE  SamePart(a, c, k)
BY DEF SamePart

(* A copy that is catching up with a row is catching up with it after any  *)
(* step of a worker: a commit that changes a part brings news of it.       *)
LEMMA CatchingNext ==
    ASSUME TypeOK, WorkersConsistent, LoggingRight, Numbered, NEW w \in Worker,
           Quiet(w) \/ Staging(w) \/ CommitApplied(w),
           NEW t \in Txn, NEW copied, NEW had \in SUBSET changes,
           Catching(copied, rows[t], News(t, had))
    PROVE  Catching(copied, rows'[t], {c \in changes' : c.tx = t /\ c \notin had})
<1> DEFINE news == {c \in changes' : c.tx = t /\ c \notin had}
<1>1. CASE UNCHANGED <<rows, changes>>
  BY <1>1 DEF News
<1>2. CASE CommitApplied(w)
  <2> DEFINE r == tr[w].request
  <2>1. /\ tr[w].pc = "staged" /\ r \in Request /\ r.tx \in Txn
        /\ changes' = changes \cup tr[w].logged
        /\ \A u \in Txn : u # r.tx => rows'[u] = rows[u]
    BY <1>2, CommitIs
  <2>2. /\ tr[w].locks => /\ rows'[r.tx] = tr[w].row
                          /\ tr[w].row = After(rows[r.tx], r)
                          /\ Verdict(rows[r.tx], r) = "applied"
        /\ ~tr[w].locks => rows' = rows
    BY <1>2, CommitIs
  <2>3. LoggedRight(w) /\ rows[t] \in Row \cup {NoRow}
    BY <2>1 DEF LoggingRight, TypeOK
  <2>4. News(t, had) \subseteq news
    BY <2>1 DEF News
  <2>5. CASE rows'[t] = rows[t]
    BY <2>4, <2>5 DEF Catching
  <2>6. CASE rows'[t] # rows[t]
    <3>1. t = r.tx /\ tr[w].locks
      BY <2>1, <2>2, <2>6
    <3>2. tr[w].logged # {}
      BY <2>2, <2>3, <2>6, <3>1 DEF LoggedRight
    <3>3. PICK c \in tr[w].logged : TRUE
      BY <3>2
    <3>4. Describes(c, r) /\ c.tx = t /\ c \notin changes
      BY <2>1, <2>3, <3>1, <3>3 DEF LoggedRight, Describes, Numbered, Logged
    <3>5. c \in news
      BY <2>1, <3>3, <3>4
    <3> HIDE DEF news
    <3>6. ASSUME NEW k \in Part PROVE (\E d \in news : Touches(d, k)) \/ SamePart(copied, rows'[t], k)
      <4>1. CASE Touches(c, k)
        BY <3>5, <4>1
      <4>2. CASE ~Touches(c, k)
        <5>1. SamePart(rows[t], rows'[t], k)
          BY <2>1, <2>2, <2>3, <3>1, <3>4, <4>2, UntouchedStays
        <5>2. (\E d \in News(t, had) : Touches(d, k)) \/ SamePart(copied, rows[t], k)
          BY DEF Catching
        <5>3. CASE \E d \in News(t, had) : Touches(d, k)
          BY <2>4, <5>3
        <5>4. CASE SamePart(copied, rows[t], k)
          BY <5>1, <5>4, SamePartTransitive
        <5> QED BY <5>2, <5>3, <5>4
      <4> QED BY <4>1, <4>2
    <3> QED BY <3>6 DEF Catching, news
  <2> QED BY <2>5, <2>6
<1> QED BY <1>1, <1>2 DEF Quiet, Staging

(* The device through a step of the store. *)
LEMMA DeviceWaits ==
    ASSUME TypeOK, WorkersConsistent, FeedInv, StoreNext, UNCHANGED feedVars
    PROVE  FeedInv'
<1>1. PICK w \in Worker : Quiet(w) \/ Staging(w) \/ CommitApplied(w)
  BY WorkerSteps
<1>2. Numbered' /\ LoggingRight' /\ CommittedRight'
  BY <1>1, NumberedNext, LoggingNext, CommittedNext DEF FeedInv
<1>3. changes \subseteq changes'
  BY <1>1, CommitIs DEF Quiet, Staging, FeedInv
<1>4. UNCHANGED <<position, replica, delivered, pull>>
  BY DEF feedVars
<1>5. DeviceTyped'
  BY <1>3, <1>4 DEF DeviceTyped, FeedInv
<1>6. ASSUME NEW t \in Txn, NEW copied, NEW had \in SUBSET changes,
             Catching(copied, rows[t], News(t, had))
      PROVE  Catching(copied, rows'[t], {c \in changes' : c.tx = t /\ c \notin had})
  BY <1>1, <1>6, CatchingNext DEF FeedInv
<1>7. ReplicaRight'
  <2>1. ASSUME NEW t \in Txn
        PROVE  Catching(replica[t], rows'[t], {c \in changes' : c.tx = t /\ c \notin delivered})
    BY <1>6 DEF FeedInv, ReplicaRight, DeviceTyped
  <2> QED BY <1>4, <2>1 DEF ReplicaRight, Catching, News
<1>8. PullRight'
  <2> SUFFICES ASSUME pull # NoPull
               PROVE  /\ pull \in [pc : {"reading"}, page : Seq(Change), filled : Seq(Filled)]
                      /\ PageRight' /\ FilledRight'
    BY <1>4 DEF PullRight
  <2>1. /\ pull \in [pc : {"reading"}, page : Seq(Change), filled : Seq(Filled)]
        /\ PageRight /\ FilledRight
    BY DEF FeedInv, PullRight
  <2>2. PageRight'
    BY <1>3, <1>4, <2>1 DEF PageRight
  <2>3. PICK got : got = delivered \cup ToSet(pull.page)
    OBVIOUS
  <2>4. got \in SUBSET changes
    BY <2>1, <2>3 DEF PageRight, ToSet, FeedInv, DeviceTyped
  <2>5. ASSUME NEW i \in DOMAIN pull.filled, Whole(pull.page[i])
        PROVE  Catching(pull.filled[i].row, rows'[pull.page[i].tx],
                        {c \in changes' : c.tx = pull.page[i].tx /\ c \notin got})
    <3>1. pull.page[i] \in Change
      BY <2>1 DEF FilledRight
    <3>2. pull.page[i].tx \in Txn
      BY <3>1 DEF Change
    <3> QED BY <1>6, <2>1, <2>3, <2>4, <2>5, <3>2 DEF FilledRight
  <2>6. FilledRight'
    BY <1>4, <2>1, <2>3, <2>5 DEF FilledRight, Catching, News
  <2> QED BY <2>1, <2>2, <2>6
<1> QED BY <1>2, <1>5, <1>7, <1>8 DEF FeedInv

-----------------------------------------------------------------------------
(***************************************************************************)
(* What FoldLeft does to a page.  The fold recurses over the sets of       *)
(* positions up to the largest one; here it is one over their number.      *)
(***************************************************************************)

(* Induction over numbers, of a set instead of a predicate. *)
LEMMA CountingUp ==
    ASSUME NEW S \in SUBSET Nat, 0 \in S, \A n \in S : n + 1 \in S
    PROVE  \A n \in Nat : n \in S
<1> SUFFICES ASSUME NEW m \in Nat \ S PROVE FALSE
  OBVIOUS
<1>1. PICK n \in Nat \ S : \A k \in Nat \ S : ~(<<k, n>> \in OpToRel(<, Nat))
  BY WFMin, NatLessThanWellFounded
<1>2. n - 1 \in Nat /\ n - 1 < n /\ n = (n - 1) + 1
  OBVIOUS
<1>3. n - 1 \in S
  BY <1>1, <1>2 DEF OpToRel
<1> QED BY <1>2, <1>3

(* The largest of some of the first numbers. *)
LEMMA LargestIs ==
    ASSUME NEW k \in Nat, NEW s \in SUBSET (1 .. k), s # {}
    PROVE  Max(s) \in s /\ \A y \in s : Max(s) >= y
<1> DEFINE Bounded == {n \in Nat : \A r \in SUBSET (1 .. n) : r # {} => \E x \in r : \A y \in r : x >= y}
<1>1. 0 \in Bounded
  <2>1. 1 .. 0 = {}
    OBVIOUS
  <2> QED BY <2>1
<1>2. ASSUME NEW n \in Bounded PROVE n + 1 \in Bounded
  <2> SUFFICES ASSUME NEW r \in SUBSET (1 .. n + 1), r # {} PROVE \E x \in r : \A y \in r : x >= y
    BY <1>2
  <2>1. CASE n + 1 \in r
    BY <2>1
  <2>2. CASE n + 1 \notin r
    <3>1. r \in SUBSET (1 .. n)
      BY <2>2
    <3> QED BY <3>1
  <2> QED BY <2>1, <2>2
<1> HIDE DEF Bounded
<1>3. k \in Bounded
  <2>1. Bounded \in SUBSET Nat
    BY DEF Bounded
  <2> QED BY <1>1, <1>2, <2>1, CountingUp
<1>4. \E x \in s : \A y \in s : x >= y
  BY <1>3 DEF Bounded
<1> QED BY <1>4 DEF Max

(* Without it, they are among fewer. *)
LEMMA WithoutLargest ==
    ASSUME NEW n \in Nat, NEW s \in SUBSET (1 .. n + 1), s # {}
    PROVE  s \ {Max(s)} \in SUBSET (1 .. n)
<1>1. n + 1 \in Nat
  OBVIOUS
<1>2. Max(s) \in s /\ \A y \in s : Max(s) >= y
  BY <1>1, LargestIs
<1>3. ASSUME NEW x \in s, \A y \in s : x >= y PROVE s \ {x} \in SUBSET (1 .. n)
  BY <1>3
<1> QED BY <1>2, <1>3

(* g folds the filled page into the replica, over positions up to n. *)
Folding(g, n) ==
    g = [s \in SUBSET (1 .. n) |->
            IF s = {} THEN replica ELSE Install(g[s \ {Max(s)}], pull.filled[Max(s)])]

(* There is such a fold, however long the page. *)
LEMMA FoldingExists ==
    ASSUME NEW k \in Nat
    PROVE  \E g : Folding(g, k)
<1> DEFINE Far == {n \in Nat : \E g : Folding(g, n)}
<1>1. 0 \in Far
  <2> DEFINE g == [s \in SUBSET (1 .. 0) |-> replica]
  <2>1. \A s \in SUBSET (1 .. 0) : s = {}
    OBVIOUS
  <2>2. Folding(g, 0)
    BY <2>1 DEF Folding
  <2> QED BY <2>2
<1>2. ASSUME NEW n \in Far PROVE n + 1 \in Far
  <2>1. PICK g : Folding(g, n)
    BY <1>2
  <2> DEFINE Next1(h, s) == IF s = {} THEN replica
                            ELSE Install(h[s \ {Max(s)}], pull.filled[Max(s)])
             f == [s \in SUBSET (1 .. n + 1) |-> Next1(g, s)]
  <2>0. n \in Nat /\ \A s \in SUBSET (1 .. n) : s \in SUBSET (1 .. n + 1)
    OBVIOUS
  <2>2. \A s \in SUBSET (1 .. n) : g[s] = Next1(g, s)
    BY <2>1, Zenon DEF Folding
  <2>3. \A s \in SUBSET (1 .. n) : f[s] = g[s]
    BY <2>0, <2>2
  <2>4. \A s \in SUBSET (1 .. n + 1) : s # {} => s \ {Max(s)} \in SUBSET (1 .. n)
    BY <2>0, WithoutLargest
  <2>5. \A s \in SUBSET (1 .. n + 1) : f[s] = Next1(f, s)
    BY <2>3, <2>4
  <2>6. f = [s \in SUBSET (1 .. n + 1) |-> Next1(f, s)]
    <3> HIDE DEF Next1
    <3>1. f = [s \in SUBSET (1 .. n + 1) |-> f[s]]
      OBVIOUS
    <3> HIDE DEF f
    <3> QED BY <2>5, <3>1
  <2>7. Folding(f, n + 1)
    <3> HIDE DEF f
    <3> QED BY <2>6 DEF Folding
  <2> HIDE DEF f
  <2> QED BY <2>7
<1> HIDE DEF Far
<1>3. Far \in SUBSET Nat
  BY DEF Far
<1>4. k \in Far
  BY <1>1, <1>2, <1>3, CountingUp
<1> QED BY <1>4 DEF Far

(* The replica that InstallPage leaves. *)
Installed == FoldLeft(Install, replica, pull.filled)

(* What has become of the replica after i of n changes. *)
LEMMA PageFolded ==
    ASSUME NEW n \in Nat, DOMAIN pull.filled = 1 .. n
    PROVE  \E h : /\ h[0] = replica /\ h[n] = Installed
                  /\ \A i \in 1 .. n : h[i] = Install(h[i - 1], pull.filled[i])
<1> DEFINE iter == CHOOSE g : Folding(g, n)
<1>1. Installed = iter[1 .. n]
  BY DEF Installed, FoldLeft, MapThenFoldSet, Folding
<1>2. Folding(iter, n)
  BY FoldingExists
<1> HIDE DEF iter
<1> DEFINE h == [i \in 0 .. n |-> iter[1 .. i]]
<1>3. h[0] = replica
  <2>1. 1 .. 0 = {} /\ {} \in SUBSET (1 .. n) /\ 0 \in 0 .. n
    OBVIOUS
  <2> QED BY <1>2, <2>1 DEF Folding
<1>4. ASSUME NEW i \in 1 .. n PROVE h[i] = Install(h[i - 1], pull.filled[i])
  <2>1. PICK s : s = 1 .. i
    OBVIOUS
  <2>2. s \in SUBSET (1 .. n) /\ s # {} /\ s \in SUBSET (1 .. i) /\ i \in s /\ i \in Nat
    BY <2>1
  <2>3. Max(s) \in s /\ \A y \in s : Max(s) >= y
    BY <2>2, LargestIs
  <2>4. Max(s) = i /\ s \ {i} = 1 .. (i - 1)
    BY <2>1, <2>2, <2>3
  <2>5. iter[s] = IF s = {} THEN replica ELSE Install(iter[s \ {Max(s)}], pull.filled[Max(s)])
    BY <1>2, <2>2 DEF Folding
  <2>6. iter[s] = Install(iter[1 .. (i - 1)], pull.filled[i])
    BY <2>2, <2>4, <2>5
  <2> QED BY <2>1, <2>6
<1>5. h[n] = Installed
  BY <1>1
<1> HIDE DEF h
<1> QED BY <1>3, <1>4, <1>5

(* With less news there is less to catch up with. *)
LEMMA CatchingMore ==
    ASSUME NEW a, NEW b, NEW some, NEW more, some \subseteq more, Catching(a, b, some)
    PROVE  Catching(a, b, more)
BY DEF Catching

(* A transaction whose parts come from three changes, or all from one. *)
LEMMA InstallIs ==
    ASSUME NEW book \in [Txn -> Row \cup {NoRow}], NEW item \in Filled,
           Whole(item.change) => item.row # NoRow
    PROVE  LET c == item.change
               t == item.change.tx
               new == Install(book, item)[t]
           IN /\ Install(book, item) \in [Txn -> Row \cup {NoRow}] /\ t \in Txn
              /\ \A u \in Txn : u # t => Install(book, item)[u] = book[u]
              /\ Whole(c) => new = item.row
              /\ ~Whole(c) => (new = NoRow) = (book[t] = NoRow)
              /\ ~Whole(c) /\ book[t] # NoRow /\ c.tombstone =>
                    /\ new.deleted = TRUE
                    /\ SamePart(new, book[t], "base") /\ SamePart(new, book[t], "print")
              /\ ~Whole(c) /\ book[t] # NoRow /\ ~c.tombstone =>
                    /\ new.print = c.status
                    /\ SamePart(new, book[t], "base") /\ SamePart(new, book[t], "deleted")
<1> DEFINE c == item.change
           t == item.change.tx
           new == Install(book, item)[t]
           put == IF Whole(c) THEN item.row
                  ELSE IF book[t] = NoRow THEN NoRow
                  ELSE IF c.tombstone THEN [book[t] EXCEPT !.deleted = TRUE]
                  ELSE [book[t] EXCEPT !.print = c.status]
<1>1. c \in Change /\ t \in Txn /\ item.row \in Row \cup {NoRow} /\ book[t] \in Row \cup {NoRow}
      /\ c.status \in PrintState
  BY DEF Filled, Change, PrintState
<1>2. Install(book, item) = [book EXCEPT ![t] = put]
  BY DEF Install, Whole
<1>3. NoRow \notin Row
  BY LedgerAssumption
<1>4. ASSUME book[t] \in Row
      PROVE  /\ [book[t] EXCEPT !.deleted = TRUE] \in Row
             /\ [book[t] EXCEPT !.print = c.status] \in Row
  BY <1>1, <1>4 DEF Row
<1>5. put \in Row \cup {NoRow}
  BY <1>1, <1>4
<1>6. new = put /\ Install(book, item) \in [Txn -> Row \cup {NoRow}]
      /\ \A u \in Txn : u # t => Install(book, item)[u] = book[u]
  <2> HIDE DEF put, t
  <2>1. t \in Txn
    BY <1>1
  <2>2. Install(book, item) = [book EXCEPT ![t] = put]
    BY <1>2
  <2>3. Install(book, item)[t] = put
    BY <2>1, <2>2
  <2> QED BY <1>5, <2>1, <2>2, <2>3 DEF t
<1>7. ASSUME ~Whole(c), book[t] # NoRow, c.tombstone
      PROVE  /\ new.deleted = TRUE /\ new # NoRow
             /\ SamePart(new, book[t], "base") /\ SamePart(new, book[t], "print")
  <2>1. new = [book[t] EXCEPT !.deleted = TRUE] /\ book[t] \in Row
    BY <1>1, <1>6, <1>7
  <2>2. /\ new.deleted = TRUE /\ new.revision = book[t].revision /\ new.payment = book[t].payment
        /\ new.confirmed = book[t].confirmed /\ new.print = book[t].print
    BY <2>1 DEF Row
  <2>3. new # NoRow
    BY <1>3, <1>4, <2>1
  <2> QED BY <1>7, <2>2, <2>3 DEF SamePart
<1>8. ASSUME ~Whole(c), book[t] # NoRow, ~c.tombstone
      PROVE  /\ new.print = c.status /\ new # NoRow
             /\ SamePart(new, book[t], "base") /\ SamePart(new, book[t], "deleted")
  <2>1. new = [book[t] EXCEPT !.print = c.status] /\ book[t] \in Row
    BY <1>1, <1>6, <1>8
  <2>2. /\ new.print = c.status /\ new.revision = book[t].revision /\ new.payment = book[t].payment
        /\ new.confirmed = book[t].confirmed /\ new.deleted = book[t].deleted
    BY <2>1 DEF Row
  <2>3. new # NoRow
    BY <1>3, <1>4, <2>1
  <2> QED BY <1>8, <2>2, <2>3 DEF SamePart
<1>9. ASSUME Whole(c) PROVE new = item.row
  BY <1>6, <1>9
<1>10. ASSUME ~Whole(c) PROVE (new = NoRow) = (book[t] = NoRow)
  <2>1. CASE book[t] = NoRow
    BY <1>6, <1>10, <2>1
  <2>2. CASE book[t] # NoRow
    BY <1>7, <1>8, <1>10, <2>2
  <2> QED BY <2>1, <2>2
<1> HIDE DEF c, t, new, put
<1>11. c = item.change /\ t = item.change.tx /\ new = Install(book, item)[t]
  BY DEF c, t, new
<1> QED BY <1>1, <1>6, <1>7, <1>8, <1>9, <1>10, <1>11

(* Installing the next change of a page: what it states it states of the   *)
(* row as it is, unless later changes of the same part are still to come.  *)
LEMMA InstallCatches ==
    ASSUME CommittedRight, NEW book \in [Txn -> Row \cup {NoRow}], NEW item \in Filled,
           NEW had \in SUBSET changes, item.change \in changes,
           \A d \in had : d.cursor < item.change.cursor,
           changes \in SUBSET Change,
           \A t \in Txn : Catching(book[t], rows[t], News(t, had)),
           Whole(item.change) =>
              /\ item.row # NoRow
              /\ Catching(item.row, rows[item.change.tx],
                          News(item.change.tx, had \cup {item.change}))
    PROVE  /\ Install(book, item) \in [Txn -> Row \cup {NoRow}]
           /\ \A t \in Txn :
                 Catching(Install(book, item)[t], rows[t], News(t, had \cup {item.change}))
<1> DEFINE c == item.change
           t == item.change.tx
           after == Install(book, item)
           new == Install(book, item)[t]
<1>1. /\ after \in [Txn -> Row \cup {NoRow}] /\ t \in Txn
      /\ \A u \in Txn : u # t => after[u] = book[u]
      /\ Whole(c) => new = item.row
  BY InstallIs
<1>2. ~Whole(c) => (new = NoRow) = (book[t] = NoRow)
  BY InstallIs
<1>3. ~Whole(c) /\ book[t] # NoRow /\ c.tombstone =>
         /\ new.deleted = TRUE
         /\ SamePart(new, book[t], "base") /\ SamePart(new, book[t], "print")
  BY InstallIs
<1>4. ~Whole(c) /\ book[t] # NoRow /\ ~c.tombstone =>
         /\ new.print = c.status
         /\ SamePart(new, book[t], "base") /\ SamePart(new, book[t], "deleted")
  BY InstallIs
<1>5. Witnessed(c)
  BY DEF CommittedRight
<1> HIDE DEF new, after
<1>6. new = after[t]
  BY DEF new, after
<1>7. ASSUME NEW u \in Txn, u # t
      PROVE  Catching(after[u], rows[u], News(u, had \cup {c}))
  <2>1. News(u, had) = News(u, had \cup {c})
    BY <1>7 DEF News
  <2>2. after[u] = book[u]
    BY <1>1, <1>7
  <2>3. Catching(book[u], rows[u], News(u, had))
    OBVIOUS
  <2> QED BY <2>1, <2>2, <2>3
<1>8. CASE Whole(c)
  <2>1. Catching(new, rows[t], News(t, had \cup {c}))
    BY <1>1, <1>8
  <2> QED BY <1>1, <1>6, <1>7, <2>1 DEF after
<1>9. CASE ~Whole(c)
  <2>1. \A d \in News(t, had) : d # c => d \in News(t, had \cup {c})
    BY DEF News
  <2>2. Catching(book[t], rows[t], News(t, had))
    BY <1>1
  <2>3. CASE \E d \in News(t, had) : Whole(d)
    <3>1. PICK d \in News(t, had) : Whole(d)
      BY <2>3
    <3>2. d \in News(t, had \cup {c})
      BY <1>9, <2>1, <3>1
    <3>3. Catching(new, rows[t], News(t, had \cup {c}))
      BY <3>1, <3>2 DEF Catching, Touches
    <3> QED BY <1>1, <1>6, <1>7, <3>3 DEF after
  <2>4. CASE ~\E d \in News(t, had) : Whole(d)
    <3>1. SamePart(book[t], rows[t], "base")
      <4>1. "base" \in Part /\ \A d \in News(t, had) : ~Touches(d, "base")
        BY <2>4 DEF Part, Touches
      <4> QED BY <2>2, <4>1 DEF Catching
    <3>2. rows[t] # NoRow /\ book[t] # NoRow /\ new # NoRow
      BY <1>2, <1>5, <1>9, <3>1 DEF Witnessed, SamePart
    <3>3. ASSUME NEW k \in Part, ~Touches(c, k), SamePart(new, book[t], k)
          PROVE  (\E d \in News(t, had \cup {c}) : Touches(d, k)) \/ SamePart(new, rows[t], k)
      <4>1. CASE \E d \in News(t, had) : Touches(d, k)
        BY <2>1, <3>3, <4>1
      <4>2. CASE SamePart(book[t], rows[t], k)
        BY <3>3, <4>2, SamePartTransitive
      <4> QED BY <2>2, <4>1, <4>2 DEF Catching
    <3>4. CASE c.tombstone
      <4>1. SamePart(new, rows[t], "deleted")
        BY <1>3, <1>5, <1>9, <3>2, <3>4 DEF Witnessed, SamePart
      <4>2. /\ SamePart(new, book[t], "base") /\ SamePart(new, book[t], "print")
            /\ ~Touches(c, "base") /\ ~Touches(c, "print")
        BY <1>3, <1>9, <3>2, <3>4 DEF Touches
      <4>3. Catching(new, rows[t], News(t, had \cup {c}))
        BY <3>3, <4>1, <4>2 DEF Catching, Part
      <4> QED BY <1>1, <1>6, <1>7, <4>3 DEF after
    <3>5. CASE ~c.tombstone
      <4>1. SamePart(new, rows[t], "print") \/ \E d \in News(t, had \cup {c}) : Touches(d, "print")
        <5>1. CASE rows[t].print = c.status
          BY <1>4, <1>9, <3>2, <3>5, <5>1 DEF SamePart
        <5>2. CASE \E d \in changes : d.tx = t /\ Touches(d, "print") /\ c.cursor < d.cursor
          <6>1. PICK d \in changes : d.tx = t /\ Touches(d, "print") /\ c.cursor < d.cursor
            BY <5>2
          <6>2. c.cursor \in Nat /\ d.cursor \in Nat
            BY DEF Change
          <6>3. d # c /\ d \notin had
            BY <6>1, <6>2
          <6> QED BY <6>1, <6>3 DEF News
        <5> QED BY <1>5, <1>9, <3>5, <5>1, <5>2 DEF Witnessed
      <4>2. /\ SamePart(new, book[t], "base") /\ SamePart(new, book[t], "deleted")
            /\ ~Touches(c, "base") /\ ~Touches(c, "deleted")
        BY <1>4, <1>9, <3>2, <3>5 DEF Touches
      <4>3. Catching(new, rows[t], News(t, had \cup {c}))
        BY <3>3, <4>1, <4>2 DEF Catching, Part
      <4> QED BY <1>1, <1>6, <1>7, <4>3 DEF after
    <3> QED BY <3>4, <3>5
  <2> QED BY <2>3, <2>4
<1> QED BY <1>8, <1>9

-----------------------------------------------------------------------------
(* --- The device's steps --------------------------------------------------- *)
(* The first statement of a pull: nothing is behind the page yet. *)
LEMMA PagePulled ==
    ASSUME TypeOK, FeedInv, PullPage, UNCHANGED storeVars
    PROVE  FeedInv'
<1>0. /\ UNCHANGED <<rows, changes, nextCursor, tr>> /\ UNCHANGED <<position, replica, delivered>>
  BY DEF PullPage, storeVars
<1>1. PICK s \in PagesAfter(position) : pull' = [pc |-> "reading", page |-> s, filled |-> <<>>]
  BY DEF PullPage
<1>2. PICK n \in 1 .. PageSize : s \in [1 .. n -> {c \in changes : c.cursor > position}]
  BY <1>1 DEF PagesAfter
<1>3. /\ n \in Nat /\ n >= 1
      /\ \A i, j \in DOMAIN s : i < j => s[i].cursor < s[j].cursor
  BY <1>1, <1>2, FeedAssumption DEF PagesAfter
<1>4. changes \in SUBSET Change /\ position \in Nat
  BY DEF TypeOK, FeedInv, DeviceTyped
<1>5. /\ s \in Seq(Change) /\ s # <<>> /\ DOMAIN s = 1 .. n
      /\ \A i \in DOMAIN s : s[i] \in changes /\ position < s[i].cursor
  <2>1. DOMAIN s = 1 .. n /\ \A i \in 1 .. n : s[i] \in changes /\ position < s[i].cursor
    BY <1>2
  <2>2. s \in [1 .. n -> Change]
    BY <1>2, <1>4
  <2>3. s \in Seq(Change) /\ Len(s) = n
    BY <1>3, <2>2
  <2> QED BY <1>3, <2>1, <2>3
<1>6. /\ pull' \in [pc : {"reading"}, page : Seq(Change), filled : Seq(Filled)]
      /\ pull'.page = s /\ pull'.filled = <<>>
  BY <1>1, <1>5
<1>7. PageRight'
  BY <1>0, <1>3, <1>5, <1>6 DEF PageRight
<1>8. FilledRight'
  <2>1. Len(s) \in Nat /\ Len(<<>>) = 0 /\ DOMAIN <<>> = {}
    BY <1>5
  <2> QED BY <1>6, <2>1 DEF FilledRight
<1>9. PullRight'
  BY <1>6, <1>7, <1>8 DEF PullRight
<1>10. Numbered' /\ LoggingRight' /\ CommittedRight'
  BY <1>0 DEF FeedInv, Numbered, Logged, LoggingRight, LoggedRight, CommittedRight, Witnessed
<1>11. DeviceTyped' /\ ReplicaRight'
  BY <1>0 DEF FeedInv, DeviceTyped, ReplicaRight, Catching, News
<1> QED BY <1>9, <1>10, <1>11 DEF FeedInv

(* A row is not behind itself. *)
LEMMA SameRow ==
    ASSUME NEW a, NEW news
    PROVE  Catching(a, a, news)
BY DEF Catching, SamePart

(* The payload of the next change is the row as it is. *)
LEMMA ItemFilled ==
    ASSUME TypeOK, FeedInv, FillNext, UNCHANGED storeVars
    PROVE  FeedInv'
<1>0. /\ UNCHANGED <<rows, changes, nextCursor, tr>> /\ UNCHANGED <<position, replica, delivered>>
      /\ pull.pc = "reading" /\ Len(pull.filled) < Len(pull.page)
  BY DEF FillNext, storeVars
<1>1. /\ pull \in [pc : {"reading"}, page : Seq(Change), filled : Seq(Filled)]
      /\ PageRight /\ FilledRight
  BY <1>0 DEF FeedInv, PullRight, NoPull
<1>2. PICK n \in Nat : n = Len(pull.filled) /\ n + 1 \in DOMAIN pull.page /\ DOMAIN pull.filled = 1 .. n
  BY <1>0, <1>1
<1>3. PICK c : c = pull.page[n + 1]
  OBVIOUS
<1>4. c \in Change /\ c \in changes /\ c.tx \in Txn
  BY <1>1, <1>2, <1>3 DEF PageRight, TypeOK, Change
<1>5. rows[c.tx] \in Row \cup {NoRow} /\ rows[c.tx] # NoRow
  BY <1>4 DEF TypeOK, FeedInv, CommittedRight, Witnessed
<1>6. PICK item \in Filled : /\ item.change = c /\ (Whole(c) => item.row = rows[c.tx])
                             /\ pull' = [pull EXCEPT !.filled = Append(@, item)]
  <2> DEFINE shown == IF c.tombstone \/ c.aggregate = "print_attempt" THEN NoRow ELSE rows[c.tx]
             it == [change |-> c, row |-> shown]
  <2>1. pull' = [pull EXCEPT !.filled = Append(@, it)]
    BY <1>2, <1>3 DEF FillNext
  <2>2. shown \in Row \cup {NoRow} /\ (Whole(c) => shown = rows[c.tx])
    BY <1>5 DEF Whole
  <2> HIDE DEF shown
  <2>3. it \in Filled /\ it.change = c /\ it.row = shown
    BY <1>4, <2>2 DEF Filled
  <2> HIDE DEF it
  <2> QED BY <2>1, <2>2, <2>3
<1>7. /\ pull' \in [pc : {"reading"}, page : Seq(Change), filled : Seq(Filled)]
      /\ pull'.page = pull.page /\ pull'.filled = Append(pull.filled, item)
  <2>1. PICK longer : longer = Append(pull.filled, item)
    OBVIOUS
  <2>2. longer \in Seq(Filled)
    BY <1>1, <2>1
  <2>3. pull' = [pull EXCEPT !.filled = longer]
    BY <1>6, <2>1
  <2> QED BY <1>1, <2>1, <2>2, <2>3
<1>8. PageRight'
  BY <1>0, <1>1, <1>7 DEF PageRight
<1>9. /\ Len(pull'.filled) = n + 1 /\ DOMAIN pull'.filled = 1 .. n + 1
      /\ pull'.filled[n + 1] = item
      /\ \A i \in DOMAIN pull.filled : pull'.filled[i] = pull.filled[i]
  BY <1>1, <1>2, <1>7
<1>10. Len(pull'.filled) <= Len(pull'.page)
  BY <1>0, <1>1, <1>2, <1>7, <1>9
<1>11. PICK had : had = delivered \cup ToSet(pull.page)
  OBVIOUS
<1>12. ASSUME NEW i \in DOMAIN pull'.filled
       PROVE  /\ pull'.filled[i].change = pull.page[i]
              /\ Whole(pull.page[i]) =>
                   /\ pull'.filled[i].row # NoRow
                   /\ Catching(pull'.filled[i].row, rows[pull.page[i].tx],
                               News(pull.page[i].tx, had))
  <2>1. CASE i = n + 1
    BY <1>3, <1>5, <1>6, <1>9, <2>1, SameRow
  <2>2. CASE i # n + 1
    <3>1. i \in DOMAIN pull.filled /\ pull'.filled[i] = pull.filled[i]
      BY <1>2, <1>9, <2>2
    <3> QED BY <1>1, <1>11, <3>1 DEF FilledRight
  <2> QED BY <2>1, <2>2
<1>13. FilledRight'
  BY <1>0, <1>7, <1>10, <1>11, <1>12 DEF FilledRight, Catching, News
<1>14. PullRight'
  BY <1>7, <1>8, <1>13 DEF PullRight
<1>15. Numbered' /\ LoggingRight' /\ CommittedRight'
  BY <1>0 DEF FeedInv, Numbered, Logged, LoggingRight, LoggedRight, CommittedRight, Witnessed
<1>16. DeviceTyped' /\ ReplicaRight'
  BY <1>0 DEF FeedInv, DeviceTyped, ReplicaRight, Catching, News
<1> QED BY <1>14, <1>15, <1>16 DEF FeedInv

(* A lost pull leaves the device where it was. *)
LEMMA PullLost ==
    ASSUME FeedInv, LosePull, UNCHANGED storeVars
    PROVE  FeedInv'
<1>0. /\ UNCHANGED <<rows, changes, nextCursor, tr>> /\ UNCHANGED <<position, replica, delivered>>
      /\ pull' = NoPull
  BY DEF LosePull, storeVars
<1>1. Numbered' /\ LoggingRight' /\ CommittedRight'
  BY <1>0 DEF FeedInv, Numbered, Logged, LoggingRight, LoggedRight, CommittedRight, Witnessed
<1>2. DeviceTyped' /\ ReplicaRight'
  BY <1>0 DEF FeedInv, DeviceTyped, ReplicaRight, Catching, News
<1> QED BY <1>0, <1>1, <1>2 DEF FeedInv, PullRight

(* A page that is installed leaves the device behind in nothing but what   *)
(* is still to come, by induction over the changes of the page.            *)
LEMMA PageInstalled ==
    ASSUME TypeOK, FeedInv, InstallPage, UNCHANGED storeVars
    PROVE  FeedInv'
<1>0. /\ UNCHANGED <<rows, changes, nextCursor, tr>> /\ pull.pc = "reading"
      /\ Len(pull.filled) = Len(pull.page) /\ pull' = NoPull
      /\ replica' = Installed /\ position' = Last(pull.page).cursor
      /\ delivered' = delivered \cup ToSet(pull.page)
  BY DEF InstallPage, storeVars, Installed
<1>1. /\ pull \in [pc : {"reading"}, page : Seq(Change), filled : Seq(Filled)]
      /\ PageRight /\ FilledRight /\ CommittedRight /\ DeviceTyped /\ ReplicaRight
  BY <1>0 DEF FeedInv, PullRight, NoPull
<1>2. PICK n \in Nat : /\ n = Len(pull.page) /\ n >= 1
                       /\ DOMAIN pull.page = 1 .. n /\ DOMAIN pull.filled = 1 .. n
  BY <1>0, <1>1 DEF PageRight
<1>3. PICK h : /\ h[0] = replica /\ h[n] = Installed
               /\ \A i \in 1 .. n : h[i] = Install(h[i - 1], pull.filled[i])
  BY <1>2, PageFolded
<1> DEFINE Had(i) == delivered \cup {pull.page[j] : j \in 1 .. i}
           Halfway(i) == /\ h[i] \in [Txn -> Row \cup {NoRow}]
                         /\ \A t \in Txn : Catching(h[i][t], rows[t], News(t, Had(i)))
           S == {k \in Nat : k <= n => Halfway(k)}
<1>4. 0 \in S
  <2>1. Had(0) = delivered
    OBVIOUS
  <2>2. Halfway(0)
    <3> HIDE DEF Had
    <3> QED BY <1>1, <1>3, <2>1 DEF DeviceTyped, ReplicaRight
  <2> HIDE DEF Halfway
  <2> QED BY <2>2
<1>5. changes \in SUBSET Change
  BY DEF TypeOK
<1>6. ASSUME NEW k \in S PROVE k + 1 \in S
  <2>1. CASE ~(k + 1 <= n)
    BY <2>1
  <2>2. CASE k + 1 <= n
    <3>0. k \in Nat /\ k <= n /\ k + 1 \in 1 .. n /\ (k + 1) - 1 = k
      BY <2>2
    <3>1. Halfway(k)
      BY <3>0
    <3>2. PICK item : item = pull.filled[k + 1]
      OBVIOUS
    <3>3. /\ item \in Filled /\ item.change = pull.page[k + 1]
          /\ item.change \in changes /\ position < item.change.cursor
      BY <1>1, <1>2, <3>0, <3>2 DEF PageRight, FilledRight
    <3>4. PICK had : had = Had(k)
      OBVIOUS
    <3>5. had \in SUBSET changes
      <4>1. \A j \in 1 .. k : j \in DOMAIN pull.page /\ pull.page[j] \in changes
        BY <1>1, <1>2, <3>0 DEF PageRight
      <4> QED BY <1>1, <3>4, <4>1 DEF DeviceTyped
    <3>6. ASSUME NEW d \in had PROVE d.cursor < item.change.cursor
      <4>1. CASE d \in delivered
        <5>1. d.cursor <= position /\ d.cursor \in Nat /\ position \in Nat
          BY <1>1, <1>5, <3>5, <4>1 DEF DeviceTyped, Change
        <5>2. item.change.cursor \in Nat
          BY <1>5, <3>3 DEF Change
        <5> QED BY <3>3, <5>1, <5>2
      <4>2. CASE d \notin delivered
        <5>1. PICK j \in 1 .. k : d = pull.page[j]
          BY <3>4, <4>2
        <5>2. j \in DOMAIN pull.page /\ k + 1 \in DOMAIN pull.page /\ j < k + 1
          BY <1>2, <3>0
        <5> QED BY <1>1, <3>3, <5>1, <5>2 DEF PageRight
      <4> QED BY <4>1, <4>2
    <3>7. Had(k + 1) = had \cup {item.change}
      <4>1. 1 .. k + 1 = (1 .. k) \cup {k + 1}
        BY <3>0
      <4> QED BY <3>3, <3>4, <4>1
    <3>8. ASSUME Whole(item.change)
          PROVE  /\ item.row # NoRow
                 /\ Catching(item.row, rows[item.change.tx],
                             News(item.change.tx, had \cup {item.change}))
      <4>1. /\ item.row # NoRow
            /\ Catching(item.row, rows[item.change.tx],
                        News(item.change.tx, delivered \cup ToSet(pull.page)))
        BY <1>1, <1>2, <3>0, <3>2, <3>3, <3>8 DEF FilledRight
      <4>2. had \cup {item.change} \subseteq delivered \cup ToSet(pull.page)
        BY <1>2, <3>0, <3>3, <3>4 DEF ToSet
      <4>3. News(item.change.tx, delivered \cup ToSet(pull.page))
               \subseteq News(item.change.tx, had \cup {item.change})
        BY <4>2 DEF News
      <4> QED BY <4>1, <4>3, CatchingMore
    <3>9. PICK book : book = h[k]
      OBVIOUS
    <3>10. /\ book \in [Txn -> Row \cup {NoRow}]
           /\ \A t \in Txn : Catching(book[t], rows[t], News(t, had))
      <4> HIDE DEF Had
      <4> QED BY <3>1, <3>4, <3>9
    <3>11. /\ Install(book, item) \in [Txn -> Row \cup {NoRow}]
           /\ \A t \in Txn :
                 Catching(Install(book, item)[t], rows[t], News(t, had \cup {item.change}))
      BY <1>1, <1>5, <3>3, <3>5, <3>6, <3>8, <3>10, InstallCatches
    <3>12. h[k + 1] = Install(book, item)
      BY <1>3, <3>0, <3>2, <3>9
    <3>13. Halfway(k + 1)
      <4> HIDE DEF Had
      <4> QED BY <3>7, <3>11, <3>12
    <3> HIDE DEF Halfway
    <3> QED BY <3>0, <3>13
  <2> QED BY <2>1, <2>2
<1> HIDE DEF S
<1>7. n \in S
  <2>1. S \in SUBSET Nat
    BY DEF S
  <2> QED BY <1>4, <1>6, <2>1, CountingUp
<1>8. Had(n) = delivered'
  BY <1>0, <1>2 DEF ToSet
<1>9. Halfway(n)
  BY <1>7 DEF S
<1>10. replica' \in [Txn -> Row \cup {NoRow}]
       /\ \A t \in Txn : Catching(replica'[t], rows[t], News(t, delivered'))
  <2> HIDE DEF Had
  <2> QED BY <1>0, <1>3, <1>8, <1>9
<1>11. ReplicaRight'
  BY <1>0, <1>10 DEF ReplicaRight, Catching, News
<1>12. DeviceTyped'
  <2>1. PICK last : last = pull.page[n].cursor
    OBVIOUS
  <2>2. position' = last
    BY <1>0, <1>2, <2>1 DEF Last
  <2>3. /\ last \in Nat /\ position \in Nat /\ position < last
    BY <1>1, <1>2, <1>5, <2>1 DEF PageRight, Change, DeviceTyped
  <2>4. delivered' \in SUBSET changes
    BY <1>0, <1>1 DEF DeviceTyped, PageRight, ToSet
  <2>5. ASSUME NEW c \in delivered' PROVE c.cursor <= last
    <3>0. c.cursor \in Nat
      BY <1>5, <2>4 DEF Change
    <3>1. CASE c \in delivered
      BY <1>1, <2>3, <3>0, <3>1 DEF DeviceTyped
    <3>2. CASE c \notin delivered
      <4>1. PICK j \in 1 .. n : c = pull.page[j]
        BY <1>0, <1>2, <3>2 DEF ToSet
      <4>2. j = n \/ j < n
        BY <4>1
      <4> QED BY <1>1, <1>2, <2>1, <2>3, <3>0, <4>1, <4>2 DEF PageRight
    <3> QED BY <3>1, <3>2
  <2> QED BY <1>0, <1>10, <2>2, <2>3, <2>4, <2>5 DEF DeviceTyped
<1>13. Numbered' /\ LoggingRight' /\ CommittedRight'
  BY <1>0 DEF FeedInv, Numbered, Logged, LoggingRight, LoggedRight, CommittedRight, Witnessed
<1> QED BY <1>0, <1>11, <1>12, <1>13 DEF FeedInv, PullRight

-----------------------------------------------------------------------------
(* A device beside it changes nothing about the store. *)
LEMMA FeedStepsStore == [FeedNext]_<<storeVars, feedVars>> => [StoreNext]_storeVars
BY DEF FeedNext

(* The store that a device pulls from is still the serial ledger: pulling  *)
(* reads committed rows and takes no lock.                                 *)
THEOREM FeedImplementsLedger == FeedSpec => LedgerSpec
<1>1. FeedInit => StoreInit
  BY DEF FeedInit
<1>2. FeedSpec => StoreSpec
  BY <1>1, FeedStepsStore, PTL DEF FeedSpec, StoreSpec
<1> QED BY <1>2, StoreImplementsLedger, PTL

(* What the workers have logged, what is in flight to the device and what  *)
(* the device shows fit together, after every step of either side.         *)
LEMMA FeedInvariant == FeedSpec => []FeedInv
<1>1. FeedInit => StoreInit
  BY DEF FeedInit
<1>2. FeedSpec => StoreSpec
  BY <1>1, FeedStepsStore, PTL DEF FeedSpec, StoreSpec
<1>3. FeedInit => FeedInv
  <2> SUFFICES ASSUME FeedInit PROVE FeedInv
    OBVIOUS
  <2>1. /\ changes = {} /\ position = 0 /\ replica = rows /\ delivered = {} /\ pull = NoPull
        /\ \A w \in Worker : tr[w].pc # "staged"
    BY DEF FeedInit, StoreInit, NoWork
  <2>2. rows \in [Txn -> Row \cup {NoRow}]
    BY InitTypeOK DEF FeedInit, TypeOK
  <2>3. ReplicaRight
    BY <2>1, SameRow DEF ReplicaRight
  <2> QED BY <2>1, <2>2, <2>3 DEF FeedInv, Numbered, Logged, LoggingRight, CommittedRight,
                                 DeviceTyped, PullRight
<1>4. TypeOK /\ WorkersConsistent /\ FeedInv /\ [FeedNext]_<<storeVars, feedVars>> => FeedInv'
  <2> SUFFICES ASSUME TypeOK, WorkersConsistent, FeedInv, [FeedNext]_<<storeVars, feedVars>>
               PROVE  FeedInv'
    OBVIOUS
  <2>1. CASE StoreNext /\ UNCHANGED feedVars
    BY <2>1, DeviceWaits
  <2>2. CASE FeedStep /\ UNCHANGED storeVars
    BY <2>2, PagePulled, ItemFilled, PageInstalled, PullLost DEF FeedStep
  <2>3. CASE UNCHANGED <<storeVars, feedVars>>
    BY <2>3 DEF storeVars, feedVars, FeedInv, Numbered, Logged, LoggingRight, LoggedRight,
                CommittedRight, Witnessed, DeviceTyped, PullRight, PageRight, FilledRight,
                ReplicaRight, Catching, News
  <2> QED BY <2>1, <2>2, <2>3 DEF FeedNext
<1> QED BY <1>2, <1>3, <1>4, StoreInvariant, PTL DEF FeedSpec

(* A device that has had every change of a transaction shows what the      *)
(* server has for it, print state and deletion included, although the rows *)
(* it installs are newer than the changes they are sent for, are read one  *)
(* by one while the rows move on, and may come twice (PullChanges,         *)
(* syncChangePayload, applyRemoteChanges).                                 *)
THEOREM FeedDelivers == FeedSpec => []DeliveredRowAgrees
<1>1. FeedInv => DeliveredRowAgrees
  <2> SUFFICES ASSUME FeedInv, NEW t \in Txn, {c \in changes : c.tx = t} \subseteq delivered
               PROVE  Shown(replica[t]) = Shown(rows[t])
    BY DEF DeliveredRowAgrees
  <2>1. News(t, delivered) = {}
    BY DEF News
  <2>2. \A k \in Part : SamePart(replica[t], rows[t], k)
    BY <2>1 DEF FeedInv, ReplicaRight, Catching
  <2>3. /\ SamePart(replica[t], rows[t], "base") /\ SamePart(replica[t], rows[t], "print")
        /\ SamePart(replica[t], rows[t], "deleted")
    BY <2>2 DEF Part
  <2> QED BY <2>3 DEF SamePart, Shown
<1> QED BY <1>1, FeedInvariant, PTL
=============================================================================
