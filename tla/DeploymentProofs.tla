---------------------------- MODULE DeploymentProofs ----------------------------
(***************************************************************************)
(* Proofs about Deployment: a migration fits whatever the releases before  *)
(* it left, an upgrade takes nothing away and gives nothing, and accounts  *)
(* are provisioned once, for any number of processes, accounts and sales.  *)
(*                                                                         *)
(* An upgrade works for a long time on a view of its own while the         *)
(* database changes under it.  The invariant says what the two have in     *)
(* common: the view carries everything that the database holds, and where  *)
(* the upgrade has no lock yet the two are equal, so that a write which is *)
(* let through keeps them so.                                              *)
(***************************************************************************)
EXTENDS Deployment, TLAPS

(***************************************************************************)
(* THE INVARIANT.                                                          *)
(***************************************************************************)
(* What a database e has kept of an earlier one, d.                         *)
SaleCarried(d, e, s) ==
    /\ d.sales[s] = NONE <=> e.sales[s] = NONE
    /\ d.sales[s] # NONE =>
          /\ e.sales[s].rev = d.sales[s].rev /\ e.sales[s].total = d.sales[s].total
          /\ Paid(d, s) => Paid(e, s)

AccountCarried(d, e, a) ==
    /\ d.users[a] = NONE <=> e.users[a] = NONE
    /\ d.users[a] # NONE => e.users[a].password = d.users[a].password
    /\ Authority(d, a) <=> Authority(e, a)

Carries(d, e) ==
    /\ d.versions \subseteq e.versions
    /\ \A s \in Sale : SaleCarried(d, e, s)
    /\ \A a \in Account : AccountCarried(d, e, a)
    /\ e.sessions = d.sessions

(* What a transaction has not locked is as others see it.                   *)
SameSales(d, e, rows) ==
    /\ 2 \in d.versions <=> 2 \in e.versions
    /\ 4 \in d.versions <=> 4 \in e.versions
    /\ \A s \in Sale \ rows : d.sales[s] = e.sales[s]

SameAccounts(d, e) ==
    /\ 5 \in d.versions <=> 5 \in e.versions
    /\ 6 \in d.versions <=> 6 \in e.versions
    /\ d.users = e.users /\ d.members = e.members
    /\ d.sessions = e.sessions /\ d.fed = e.fed

Follows(d, e, locks, rows) ==
    /\ Carries(d, e)
    /\ "transactions" \notin locks => SameSales(d, e, rows)
    /\ locks \cap AccountTables = {} => SameAccounts(d, e)

(* A transaction in which every migration has fitted.  Only the packages of *)
(* the first one leave events outstanding, until the fourth settles them.   *)
Fits(t) ==
    /\ t \in Transaction
    /\ InOrder(t.view) /\ ~t.refused
    /\ t.pending = {} \/ t.view.versions \subseteq 1..3

UpgradeInv ==
    tx # NONE =>
        /\ pc[tx.owner] = "upgrading"
        /\ Fits(tx)
        /\ Follows(db, tx.view, tx.locks, tx.rows)
        /\ tx.locks \cap AccountTables # {} => \A q \in Process : staged[q] = NONE

(* What a command has decided still holds when it commits.                  *)
DecisionInv(p) ==
    staged[p] # NONE =>
        /\ org = p /\ pc[p] = "committing"
        /\ ~staged[p].reset => staged[p].create = Missing(p)
        /\ staged[p].reset =>
              /\ staged[p].create = {} /\ Missing(p) = {}
              /\ job[p].kind = "seed" /\ job[p].reset
        /\ job[p].kind = "first" /\ staged[p].create # {} =>
              /\ 6 \in db.versions
              /\ \A a \in Account : ~ActiveSuperadmin(db, a)

Past == {"deciding", "committing", "resetting", "serving", "done"}

PlaceInv(p) ==
    /\ pc[p] = "upgrading" => Owns(p)
    /\ org = p => staged[p] # NONE
    /\ pc[p] = "committing" => staged[p] # NONE
    /\ pc[p] \in {"deciding", "committing", "resetting"} => OneShot(p)
    /\ pc[p] = "resetting" => job[p].kind = "seed" /\ job[p].reset /\ Missing(p) = {}
    /\ pc[p] \in Past /\ Migrates(p) => Known(p) \subseteq db.versions
    /\ pc[p] \in {"serving", "done"} /\ OneShot(p) => Missing(p) = {}

IInv ==
    /\ TypeOK
    /\ InOrder(db)
    /\ UpgradeInv
    /\ \A p \in Process : DecisionInv(p) /\ PlaceInv(p)

(***************************************************************************)
(* THE MIGRATIONS.  Each fits into what those before it have left, and the *)
(* next database follows from the one before.                              *)
(***************************************************************************)
(* The transaction t after migration k, recorded.                           *)
After(k, t) == [orderedMigrations(k, t) EXCEPT !.view.versions = @ \cup {k}]

(* What a migration may do to a transaction.                                *)
Advances(t, u) ==
    /\ Fits(u)
    /\ u.owner = t.owner
    /\ t.locks \subseteq u.locks /\ t.rows \subseteq u.rows
    /\ Follows(t.view, u.view, u.locks, u.rows)

(* The parts of the steps of a migration.                                   *)
LEMMA AlterFields ==
    ASSUME NEW t \in Transaction, NEW tables \in SUBSET Table
    PROVE  LET u == Alter(t, tables) IN
           /\ u \in Transaction
           /\ u.owner = t.owner /\ u.view = t.view /\ u.pending = t.pending /\ u.rows = t.rows
           /\ u.locks = t.locks \cup tables
           /\ u.refused <=> t.refused \/ t.pending \cap tables # {}
BY DEF Alter, Transaction

LEMMA SettleFields ==
    ASSUME NEW t \in Transaction
    PROVE  LET u == SettleConstraints(t) IN
           /\ u \in Transaction
           /\ u.owner = t.owner /\ u.view = t.view /\ u.locks = t.locks /\ u.rows = t.rows
           /\ u.pending = {} /\ u.refused = t.refused
BY DEF SettleConstraints, Transaction

LEMMA MakeFields ==
    ASSUME NEW t \in Transaction, NEW version \in 1..Latest
    PROVE  LET u == Make(t, version) IN
           /\ u \in Transaction
           /\ u.owner = t.owner /\ u.pending = t.pending /\ u.locks = t.locks /\ u.rows = t.rows
           /\ u.view = [t.view EXCEPT !.made = @ \cup {version}]
           /\ u.refused <=> t.refused \/ version \in t.view.made
<1>1. t.view \in Database BY DEF Transaction
<1>2. [t.view EXCEPT !.made = @ \cup {version}] \in Database
  BY <1>1 DEF Database
<1> QED BY <1>1, <1>2 DEF Make, Transaction

(* The same transaction when the migration is recorded.                     *)
LEMMA RecordFields ==
    ASSUME NEW t \in Transaction, NEW k \in 1..Latest
    PROVE  LET u == [t EXCEPT !.view.versions = @ \cup {k}] IN
           /\ u \in Transaction
           /\ u.owner = t.owner /\ u.pending = t.pending /\ u.locks = t.locks
           /\ u.rows = t.rows /\ u.refused = t.refused
           /\ u.view = [t.view EXCEPT !.versions = @ \cup {k}]
<1>1. t.view \in Database BY DEF Transaction
<1>2. [t.view EXCEPT !.versions = @ \cup {k}] \in Database
  BY <1>1 DEF Database
<1> QED BY <1>1, <1>2 DEF Transaction

LEMMA VersionsAdvance ==
    ASSUME NEW d, NEW e, NEW n \in 0..9, VersionsInOrder(d), d.versions = 1..n,
           e.versions = d.versions \cup {n + 1},
           e.made = IF n + 1 \in MadeOnce THEN d.made \cup {n + 1} ELSE d.made
    PROVE  VersionsInOrder(e) /\ e.versions = 1..(n + 1)
<1>1. e.versions = 1..(n + 1) BY SMT
<1>2. e.made = e.versions \cap MadeOnce BY SMT DEF VersionsInOrder
<1>3. n + 1 \in 0..Latest BY DEF Latest
<1> QED BY <1>1, <1>2, <1>3 DEF VersionsInOrder

(* What is the same is carried, and stays in order.                         *)
SaleFits(t, u, s) ==
    /\ SaleCarried(t.view, u.view, s)
    /\ u.view.sales[s] # NONE => SaleInOrder(u.view, u.view.sales[s])
    /\ s \notin u.rows => u.view.sales[s] = t.view.sales[s]

AccountFits(t, u, a) ==
    /\ AccountCarried(t.view, u.view, a)
    /\ AccountInOrder(u.view, a)

LEMMA SaleKept ==
    ASSUME NEW t, NEW u, NEW s \in Sale, Fits(t),
           u.view.sales[s] = t.view.sales[s], \A a \in Account : AccountCarried(t.view, u.view, a),
           2 \in t.view.versions <=> 2 \in u.view.versions,
           4 \in t.view.versions <=> 4 \in u.view.versions
    PROVE  SaleFits(t, u, s)
<1>1. SaleCarried(t.view, u.view, s)
  BY DEF SaleCarried, Paid
<1>2. ASSUME t.view.sales[s] # NONE PROVE SaleInOrder(u.view, t.view.sales[s])
  <2>1. SaleInOrder(t.view, t.view.sales[s]) /\ t.view.sales[s].seller \in Account
    BY <1>2 DEF Fits, InOrder, SalesInOrder, Transaction, Database, SaleRow
  <2> QED BY <2>1 DEF SaleInOrder, AccountCarried
<1> QED BY <1>1, <1>2 DEF SaleFits

LEMMA AccountKept ==
    ASSUME NEW t, NEW u, NEW a \in Account, Fits(t),
           u.view.users = t.view.users, u.view.members = t.view.members,
           u.view.sessions = t.view.sessions, u.view.fed = t.view.fed,
           5 \in t.view.versions <=> 5 \in u.view.versions,
           6 \in t.view.versions <=> 6 \in u.view.versions
    PROVE  AccountFits(t, u, a)
<1>1. AccountCarried(t.view, u.view, a)
  BY DEF AccountCarried, Authority
<1>2. AccountInOrder(t.view, a)
  BY DEF Fits, InOrder, AccountsInOrder
<1>3. AccountInOrder(u.view, a)
  BY <1>2 DEF AccountInOrder
<1> QED BY <1>1, <1>3 DEF AccountFits

(* What every migration has to show of the transaction u that it makes of   *)
(* t, where n migrations are recorded.                                      *)
Records(t, u, n) ==
    /\ u \in Transaction /\ u.owner = t.owner /\ ~u.refused
    /\ t.locks \subseteq u.locks /\ t.rows \subseteq u.rows
    /\ u.pending = {} \/ n <= 2
    /\ u.view.versions = t.view.versions \cup {n + 1}
    /\ u.view.made = IF n + 1 \in MadeOnce THEN t.view.made \cup {n + 1} ELSE t.view.made
    /\ u.view.sessions = t.view.sessions
    /\ n + 1 \in {2, 4} => "transactions" \in u.locks
    /\ n + 1 \in {5, 6} => u.locks \cap AccountTables # {}
    /\ u.locks \cap AccountTables = {} =>
          u.view.users = t.view.users /\ u.view.members = t.view.members /\ u.view.fed = t.view.fed

LEMMA MigrationAdvances ==
    ASSUME NEW t, NEW u, NEW n \in 0..9, Fits(t), t.view.versions = 1..n,
           Records(t, u, n),
           \A s \in Sale : SaleFits(t, u, s),
           \A a \in Account : AccountFits(t, u, a)
    PROVE  Advances(t, u)
<1>1. VersionsInOrder(u.view) /\ u.view.versions = 1..(n + 1)
  <2>1. VersionsInOrder(t.view) BY DEF Fits, InOrder
  <2>2. /\ u.view.versions = t.view.versions \cup {n + 1}
        /\ u.view.made = IF n + 1 \in MadeOnce THEN t.view.made \cup {n + 1} ELSE t.view.made
    BY DEF Records
  <2> QED BY <2>1, <2>2, VersionsAdvance
<1>2. InOrder(u.view)
  BY <1>1 DEF InOrder, SalesInOrder, AccountsInOrder, SaleFits, AccountFits
<1>3. Fits(u)
  <2>1. u.pending = {} \/ u.view.versions \subseteq 1..3
    BY <1>1 DEF Records
  <2> QED BY <1>2, <2>1 DEF Fits, Records
<1>4. Carries(t.view, u.view)
  BY DEF Carries, Records, SaleFits, AccountFits
<1>5. "transactions" \notin u.locks => SameSales(t.view, u.view, u.rows)
  BY DEF SameSales, Records, SaleFits
<1>6. u.locks \cap AccountTables = {} => SameAccounts(t.view, u.view)
  BY DEF SameAccounts, Records
<1> QED BY <1>3, <1>4, <1>5, <1>6 DEF Advances, Follows, Records

(* A migration that touches neither sales nor accounts.                     *)
LEMMA TablesAdvance ==
    ASSUME NEW t, NEW o \in Transaction, NEW n \in 0..9, n + 1 \in {1, 3, 8, 9, 10},
           Fits(t), t.view.versions = 1..n, orderedMigrations(n + 1, t) = o,
           o.owner = t.owner, ~o.refused, t.locks \subseteq o.locks, o.rows = t.rows,
           o.pending = {} \/ n <= 2,
           o.view.versions = t.view.versions,
           o.view.made = IF n + 1 \in MadeOnce THEN t.view.made \cup {n + 1} ELSE t.view.made,
           o.view.users = t.view.users, o.view.members = t.view.members,
           o.view.sessions = t.view.sessions, o.view.fed = t.view.fed,
           o.view.sales = t.view.sales
    PROVE  Advances(t, After(n + 1, t))
<1> DEFINE u == After(n + 1, t)
<1>1. u = [o EXCEPT !.view.versions = @ \cup {n + 1}]
  BY DEF After
<1> HIDE DEF u
<1>2. /\ u \in Transaction
      /\ u.owner = o.owner /\ u.locks = o.locks /\ u.rows = o.rows /\ u.refused = o.refused
      /\ u.pending = o.pending
      /\ u.view = [o.view EXCEPT !.versions = @ \cup {n + 1}]
  <2>1. n + 1 \in 1..Latest BY DEF Latest
  <2> QED BY <1>1, <2>1, RecordFields
<1>3. /\ u.view.versions = t.view.versions \cup {n + 1}
      /\ u.view.made = IF n + 1 \in MadeOnce THEN t.view.made \cup {n + 1} ELSE t.view.made
      /\ u.view.users = t.view.users /\ u.view.members = t.view.members
      /\ u.view.sessions = t.view.sessions /\ u.view.fed = t.view.fed
      /\ u.view.sales = t.view.sales
  <2>1. o.view \in Database BY DEF Transaction
  <2> QED BY <1>2, <2>1 DEF Database
<1>4. n + 1 \notin {2, 4, 5, 6} OBVIOUS
<1>5. Records(t, u, n)
  BY <1>2, <1>3, <1>4 DEF Records
<1>6. \A a \in Account : AccountFits(t, u, a)
  BY <1>3, <1>4, AccountKept
<1>7. \A s \in Sale : SaleFits(t, u, s)
  BY <1>3, <1>4, <1>6, SaleKept DEF AccountFits
<1> QED BY <1>5, <1>6, <1>7, MigrationAdvances DEF u

(* Nothing is outstanding any more after the fourth, and what a migration   *)
(* makes is not there before it.                                            *)
LEMMA NothingOutstanding ==
    ASSUME NEW t, NEW n \in 0..9, Fits(t), t.view.versions = 1..n
    PROVE  /\ t \in Transaction /\ t.view \in Database /\ ~t.refused
           /\ t.pending \in SUBSET {"packages"}
           /\ n \in 4..9 => t.pending = {}
           /\ n + 1 \notin t.view.made
<1>1. t \in Transaction /\ t.view \in Database /\ ~t.refused /\ t.pending \in SUBSET {"packages"}
  BY DEF Fits, Transaction
<1>2. n \in 4..9 => t.pending = {}
  <2> SUFFICES ASSUME n \in 4..9 PROVE t.pending = {}
    OBVIOUS
  <2>1. 4 \in t.view.versions /\ 4 \notin 1..3 OBVIOUS
  <2> QED BY <2>1 DEF Fits
<1>3. t.view.made = (1..n) \cap MadeOnce
  BY DEF Fits, InOrder, VersionsInOrder
<1> QED BY <1>1, <1>2, <1>3

LEMMA FirstMigrates ==
    ASSUME NEW t, Fits(t), t.view.versions = 1..0
    PROVE  Advances(t, After(0 + 1, t))
<1> DEFINE o == orderedMigrations(0 + 1, t)
<1>1. t \in Transaction /\ t.view \in Database /\ ~t.refused
      /\ t.pending \in SUBSET {"packages"}
  BY NothingOutstanding
<1>2. o = SeedPackages([t EXCEPT !.locks = @ \cup InitialTables])
  BY DEF orderedMigrations, MigrateInitialSchema
<1>3. [t.view EXCEPT !.seeded = TRUE] \in Database
  BY <1>1 DEF Database
<1>4. /\ o \in Transaction /\ o.owner = t.owner /\ ~o.refused /\ t.locks \subseteq o.locks
      /\ o.rows = t.rows /\ o.view = [t.view EXCEPT !.seeded = TRUE]
  <2> HIDE DEF o
  <2> QED BY <1>1, <1>2, <1>3 DEF SeedPackages, Transaction, Table
<1> HIDE DEF o
<1>5. /\ o.view.versions = t.view.versions /\ o.view.made = t.view.made
      /\ o.view.users = t.view.users /\ o.view.members = t.view.members
      /\ o.view.sessions = t.view.sessions /\ o.view.fed = t.view.fed
      /\ o.view.sales = t.view.sales
  BY <1>1, <1>4 DEF Database
<1>6. /\ 0 + 1 \notin MadeOnce /\ 0 \in 0..9 /\ 0 + 1 \in {1, 3, 8, 9, 10}
      /\ o.pending = {} \/ 0 <= 2
  BY DEF MadeOnce
<1>7. orderedMigrations(0 + 1, t) = o BY DEF o
<1> QED BY <1>1, <1>4, <1>5, <1>6, <1>7, TablesAdvance

LEMMA ThirdMigrates ==
    ASSUME NEW t, Fits(t), t.view.versions = 1..2
    PROVE  Advances(t, After(2 + 1, t))
<1> DEFINE o == orderedMigrations(2 + 1, t)
           tables == {"transactions", "transaction_revisions"}
<1>1. t \in Transaction /\ t.view \in Database /\ ~t.refused
      /\ t.pending \in SUBSET {"packages"}
  BY NothingOutstanding
<1>2. o = Alter(t, tables)
  BY DEF orderedMigrations, MigrateQrisPayloadBinding
<1>3. tables \in SUBSET Table BY DEF Table, InitialTables
<1>4. /\ o \in Transaction /\ o.owner = t.owner /\ o.view = t.view
      /\ o.rows = t.rows /\ o.locks = t.locks \cup tables
      /\ o.refused <=> t.refused \/ t.pending \cap tables # {}
  <2> HIDE DEF o, tables
  <2> QED BY <1>1, <1>2, <1>3, AlterFields
<1>5. ~o.refused BY <1>1, <1>4
<1>6. /\ 2 + 1 \notin MadeOnce /\ 2 \in 0..9 /\ 2 + 1 \in {1, 3, 8, 9, 10}
      /\ o.pending = {} \/ 2 <= 2
  BY DEF MadeOnce
<1>7. orderedMigrations(2 + 1, t) = o BY DEF o
<1> HIDE DEF o
<1> QED BY <1>1, <1>4, <1>5, <1>6, <1>7, TablesAdvance

(* Those that change tables and make something that must not be there.      *)
LEMMA MakersMigrate ==
    ASSUME NEW t, NEW n \in {7, 8, 9}, Fits(t), t.view.versions = 1..n,
           NEW tables \in SUBSET Table,
           orderedMigrations(n + 1, t) = Make(Alter(t, tables), n + 1)
    PROVE  Advances(t, After(n + 1, t))
<1> DEFINE m == Alter(t, tables)
           o == Make(m, n + 1)
<1>1. t \in Transaction /\ t.view \in Database /\ ~t.refused /\ t.pending = {}
      /\ n + 1 \notin t.view.made
  <2>1. n \in 0..9 /\ n \in 4..9 OBVIOUS
  <2> QED BY <2>1, NothingOutstanding
<1>2. /\ m \in Transaction /\ m.owner = t.owner /\ m.view = t.view /\ m.pending = {}
      /\ m.rows = t.rows /\ m.locks = t.locks \cup tables
      /\ m.refused <=> t.refused \/ t.pending \cap tables # {}
  BY <1>1, AlterFields
<1> HIDE DEF m
<1>3. /\ o \in Transaction /\ o.owner = m.owner /\ o.pending = m.pending
      /\ o.locks = m.locks /\ o.rows = m.rows
      /\ o.view = [m.view EXCEPT !.made = @ \cup {n + 1}]
      /\ o.refused <=> m.refused \/ n + 1 \in m.view.made
  <2>1. n + 1 \in 1..Latest BY DEF Latest
  <2> QED BY <1>2, <2>1, MakeFields
<1>4. orderedMigrations(n + 1, t) = o BY DEF m
<1> HIDE DEF o
<1>5. /\ o.view.versions = t.view.versions /\ o.view.made = t.view.made \cup {n + 1}
      /\ o.view.users = t.view.users /\ o.view.members = t.view.members
      /\ o.view.sessions = t.view.sessions /\ o.view.fed = t.view.fed
      /\ o.view.sales = t.view.sales
  BY <1>1, <1>2, <1>3 DEF Database
<1>6. ~o.refused BY <1>1, <1>2, <1>3
<1>7. n \in 0..9 /\ n + 1 \in {1, 3, 8, 9, 10} /\ n + 1 \in MadeOnce BY DEF MadeOnce
<1> QED BY <1>2, <1>3, <1>4, <1>5, <1>6, <1>7, TablesAdvance

LEMMA LastMigrate ==
    ASSUME NEW t, NEW n \in {7, 8, 9}, Fits(t), t.view.versions = 1..n
    PROVE  Advances(t, After(n + 1, t))
<1>1. CASE n = 7
  <2>1. {"tenants"} \in SUBSET Table BY DEF Table
  <2>2. orderedMigrations(7 + 1, t) = Make(Alter(t, {"tenants"}), 7 + 1)
    BY DEF orderedMigrations, MigrateTenantSandboxSetting
  <2> QED BY <1>1, <2>1, <2>2, MakersMigrate
<1>2. CASE n = 8
  <2> DEFINE tables == (ScopedTables \ {"sync_changes", "idempotency_records"})
                           \cup {"sessions", "platform_audit_events"}
  <2>1. tables \in SUBSET Table BY DEF Table, InitialTables, ScopedTables
  <2>2. orderedMigrations(8 + 1, t) = Make(Alter(t, tables), 8 + 1)
    BY DEF orderedMigrations, MigrateQueryIndexes
  <2> HIDE DEF tables
  <2> QED BY <1>2, <2>1, <2>2, MakersMigrate
<1>3. CASE n = 9
  <2>1. {"transactions"} \in SUBSET Table BY DEF Table, InitialTables
  <2>2. orderedMigrations(9 + 1, t) = Make(Alter(t, {"transactions"}), 9 + 1)
    BY DEF orderedMigrations, MigrateTransactionIDSearchIndex
  <2> QED BY <1>3, <2>1, <2>2, MakersMigrate
<1> QED BY <1>1, <1>2, <1>3

(* A migration that rewrites sales.  What it makes of one:                  *)
SaleRewritten(old, new, n) ==
    /\ new.rev = old.rev /\ new.total = old.total /\ new.seller = old.seller
    /\ ConfirmationShape(new)
    /\ new.status = "success" \/ new.status = old.status
    /\ n + 1 >= 2 <=> new.status # NONE
    /\ new.amount = IF n + 1 >= 4 THEN new.total ELSE NONE
    /\ n + 1 = 2 => new.status = "success"

LEMMA SalesAdvance ==
    ASSUME NEW t, NEW o \in Transaction, NEW n \in 0..9, n + 1 \in {2, 4, 7},
           Fits(t), t.view.versions = 1..n, orderedMigrations(n + 1, t) = o,
           o.owner = t.owner, ~o.refused, t.locks \subseteq o.locks, t.rows \subseteq o.rows,
           o.pending = {} \/ n <= 2,
           n + 1 \in {2, 4} => "transactions" \in o.locks,
           o.view.versions = t.view.versions,
           o.view.made = IF n + 1 \in MadeOnce THEN t.view.made \cup {n + 1} ELSE t.view.made,
           o.view.users = t.view.users, o.view.members = t.view.members,
           o.view.sessions = t.view.sessions, o.view.fed = t.view.fed,
           \A s \in Sale :
               /\ o.view.sales[s] = NONE <=> t.view.sales[s] = NONE
               /\ s \notin o.rows => o.view.sales[s] = t.view.sales[s]
               /\ t.view.sales[s] # NONE => SaleRewritten(t.view.sales[s], o.view.sales[s], n)
    PROVE  Advances(t, After(n + 1, t))
<1> DEFINE u == After(n + 1, t)
<1>1. u = [o EXCEPT !.view.versions = @ \cup {n + 1}]
  BY DEF After
<1> HIDE DEF u
<1>2. /\ u \in Transaction
      /\ u.owner = o.owner /\ u.locks = o.locks /\ u.rows = o.rows /\ u.refused = o.refused
      /\ u.pending = o.pending
      /\ u.view = [o.view EXCEPT !.versions = @ \cup {n + 1}]
  <2>1. n + 1 \in 1..Latest BY DEF Latest
  <2> QED BY <1>1, <2>1, RecordFields
<1>3. /\ u.view.versions = t.view.versions \cup {n + 1}
      /\ u.view.made = IF n + 1 \in MadeOnce THEN t.view.made \cup {n + 1} ELSE t.view.made
      /\ u.view.users = t.view.users /\ u.view.members = t.view.members
      /\ u.view.sessions = t.view.sessions /\ u.view.fed = t.view.fed
      /\ u.view.sales = o.view.sales
  <2>1. o.view \in Database BY DEF Transaction
  <2> QED BY <1>2, <2>1 DEF Database
<1>4. n + 1 \notin {5, 6} OBVIOUS
<1>5. Records(t, u, n)
  BY <1>2, <1>3, <1>4 DEF Records
<1>6. \A a \in Account : AccountFits(t, u, a)
  BY <1>3, <1>4, AccountKept
<1>7. ASSUME NEW s \in Sale PROVE SaleFits(t, u, s)
  <2> DEFINE old == t.view.sales[s]
             new == u.view.sales[s]
  <2>1. /\ new = NONE <=> old = NONE
        /\ s \notin u.rows => new = old
        /\ old # NONE => SaleRewritten(old, new, n)
    BY <1>2, <1>3
  <2>2. /\ 2 \in u.view.versions <=> n + 1 >= 2
        /\ 4 \in u.view.versions <=> n + 1 >= 4
        /\ 2 \in t.view.versions <=> n >= 2
    BY <1>3
  <2>3. ASSUME old # NONE PROVE SaleInOrder(u.view, new)
    <3>1. SaleInOrder(t.view, old) BY <2>3 DEF Fits, InOrder, SalesInOrder
    <3> QED BY <1>3, <2>1, <2>2, <2>3, <3>1 DEF SaleInOrder, SaleRewritten
  <2>4. SaleCarried(t.view, u.view, s)
    <3>1. CASE old = NONE
      BY <2>1, <3>1 DEF SaleCarried, Paid
    <3>2. CASE old # NONE
      <4>1. 2 \notin t.view.versions => n + 1 = 2 BY <2>2
      <4>2. Paid(t.view, s) => Paid(u.view, s)
        BY <2>1, <2>2, <3>2, <4>1 DEF Paid, SaleRewritten
      <4> QED BY <2>1, <3>2, <4>2 DEF SaleCarried, SaleRewritten
    <3> QED BY <3>1, <3>2
  <2> QED BY <2>1, <2>3, <2>4 DEF SaleFits
<1> QED BY <1>5, <1>6, <1>7, MigrationAdvances DEF u

(* The rows that a statement rewrites, and the sales after it.              *)
Rewritten(t, rows, sales) ==
    [t EXCEPT !.view.sales = sales, !.rows = @ \cup rows, !.refused = FALSE]

LEMMA RewriteFields ==
    ASSUME NEW m \in Transaction, NEW rows \in SUBSET Sale,
           NEW sales \in [Sale -> SaleRow \cup {NONE}]
    PROVE  LET o == Rewritten(m, rows, sales) IN
           /\ o \in Transaction
           /\ o.owner = m.owner /\ o.pending = m.pending /\ o.locks = m.locks
           /\ o.rows = m.rows \cup rows /\ ~o.refused
           /\ o.view.sales = sales
           /\ o.view.versions = m.view.versions /\ o.view.made = m.view.made
           /\ o.view.users = m.view.users /\ o.view.members = m.view.members
           /\ o.view.sessions = m.view.sessions /\ o.view.fed = m.view.fed
<1> DEFINE o == Rewritten(m, rows, sales)
<1>1. m.view \in Database BY DEF Transaction
<1>2. [m.view EXCEPT !.sales = sales] \in Database
  BY <1>1 DEF Database
<1>3. /\ o \in Transaction
      /\ o.owner = m.owner /\ o.pending = m.pending /\ o.locks = m.locks
      /\ o.rows = m.rows \cup rows /\ ~o.refused
      /\ o.view = [m.view EXCEPT !.sales = sales]
  BY <1>2 DEF Transaction, Rewritten
<1> HIDE DEF o
<1> QED BY <1>1, <1>3 DEF Database, o

LEMMA RewriteAdvances ==
    ASSUME NEW t, NEW m \in Transaction, NEW n \in 0..9, n + 1 \in {2, 4, 7},
           NEW rows \in SUBSET Sale, NEW sales \in [Sale -> SaleRow \cup {NONE}],
           Fits(t), t.view.versions = 1..n,
           orderedMigrations(n + 1, t) = Rewritten(m, rows, sales),
           m.owner = t.owner, t.locks \subseteq m.locks, m.rows = t.rows,
           m.pending = {} \/ n <= 2,
           n + 1 \in {2, 4} => "transactions" \in m.locks,
           m.view.versions = t.view.versions,
           m.view.made = IF n + 1 \in MadeOnce THEN t.view.made \cup {n + 1} ELSE t.view.made,
           m.view.users = t.view.users, m.view.members = t.view.members,
           m.view.sessions = t.view.sessions, m.view.fed = t.view.fed,
           \A s \in Sale :
               /\ sales[s] = NONE <=> t.view.sales[s] = NONE
               /\ s \notin rows => sales[s] = t.view.sales[s]
               /\ t.view.sales[s] # NONE => SaleRewritten(t.view.sales[s], sales[s], n)
    PROVE  Advances(t, After(n + 1, t))
<1> DEFINE o == Rewritten(m, rows, sales)
<1>1. /\ o \in Transaction
      /\ o.owner = m.owner /\ o.pending = m.pending /\ o.locks = m.locks
      /\ o.rows = m.rows \cup rows /\ ~o.refused
      /\ o.view.sales = sales
      /\ o.view.versions = m.view.versions /\ o.view.made = m.view.made
      /\ o.view.users = m.view.users /\ o.view.members = m.view.members
      /\ o.view.sessions = m.view.sessions /\ o.view.fed = m.view.fed
  BY RewriteFields
<1>2. orderedMigrations(n + 1, t) = o OBVIOUS
<1> HIDE DEF o
<1>3. /\ o.owner = t.owner /\ t.locks \subseteq o.locks /\ t.rows \subseteq o.rows
      /\ n + 1 \in {2, 4} => "transactions" \in o.locks
      /\ o.pending = {} \/ n <= 2
      /\ o.view.versions = t.view.versions
      /\ o.view.made = IF n + 1 \in MadeOnce THEN t.view.made \cup {n + 1} ELSE t.view.made
      /\ o.view.users = t.view.users /\ o.view.members = t.view.members
      /\ o.view.sessions = t.view.sessions /\ o.view.fed = t.view.fed
  BY <1>1
<1>4. \A s \in Sale :
         /\ o.view.sales[s] = NONE <=> t.view.sales[s] = NONE
         /\ s \notin o.rows => o.view.sales[s] = t.view.sales[s]
         /\ t.view.sales[s] # NONE => SaleRewritten(t.view.sales[s], o.view.sales[s], n)
  BY <1>1
<1> QED BY <1>1, <1>2, <1>3, <1>4, SalesAdvance

(* A sale that a migration declares paid.                                   *)
Promoted(sale) == [sale EXCEPT !.status = "success", !.confirmed = sale.rev]

LEMMA PromotedFields ==
    ASSUME NEW sale \in SaleRow
    PROVE  LET new == Promoted(sale) IN
           /\ new \in SaleRow /\ new # NONE
           /\ new.rev = sale.rev /\ new.total = sale.total /\ new.seller = sale.seller
           /\ new.amount = sale.amount /\ new.status = "success" /\ ConfirmationShape(new)
<1>1. Promoted(sale) \in SaleRow BY DEF Promoted, SaleRow
<1>2. Promoted(sale) # NONE BY <1>1, NoneAssumption
<1> QED BY <1>1, <1>2 DEF Promoted, SaleRow, ConfirmationShape

LEMMA SecondMigrates ==
    ASSUME NEW t, Fits(t), t.view.versions = 1..1
    PROVE  Advances(t, After(1 + 1, t))
<1> DEFINE m == Alter(t, {"transactions"})
           rows == {s \in Sale : m.view.sales[s] # NONE /\ m.view.sales[s].status = NONE}
           sales == [s \in Sale |-> IF s \in rows THEN Promoted(m.view.sales[s]) ELSE m.view.sales[s]]
           refused == m.refused \/ \E s \in rows : ~ConfirmationShape(Promoted(m.view.sales[s]))
<1>1. t \in Transaction /\ t.view \in Database /\ ~t.refused /\ t.pending \in SUBSET {"packages"}
  BY NothingOutstanding
<1>2. /\ m \in Transaction
      /\ m.owner = t.owner /\ m.view = t.view /\ m.pending = t.pending /\ m.rows = t.rows
      /\ m.locks = t.locks \cup {"transactions"} /\ ~m.refused
  BY <1>1, AlterFields DEF Table, InitialTables
<1>3. orderedMigrations(1 + 1, t) = MigrateTransactionPayments(t)
  BY DEF orderedMigrations
<1>4. MigrateTransactionPayments(t) =
          [m EXCEPT !.view.sales = sales, !.rows = @ \cup rows, !.refused = refused]
  BY Zenon DEF MigrateTransactionPayments, Rewrite, Promoted
<1> HIDE DEF m
<1>5. ASSUME NEW s \in Sale, t.view.sales[s] # NONE
      PROVE  /\ t.view.sales[s] \in SaleRow /\ t.view.sales[s].status = NONE
             /\ Promoted(t.view.sales[s]) \in SaleRow
             /\ Promoted(t.view.sales[s]) # NONE
             /\ ConfirmationShape(Promoted(t.view.sales[s]))
             /\ SaleRewritten(t.view.sales[s], Promoted(t.view.sales[s]), 1)
  <2>1. t.view.sales[s] \in SaleRow BY <1>1, <1>5 DEF Database
  <2>2. t.view.sales[s].status = NONE /\ t.view.sales[s].amount = NONE
    BY <1>5 DEF Fits, InOrder, SalesInOrder, SaleInOrder
  <2>3. NONE # "success" BY NoneAssumption
  <2> QED BY <2>1, <2>2, <2>3, PromotedFields DEF SaleRewritten
<1>6. refused = FALSE BY <1>2, <1>5
<1>7. rows \in SUBSET Sale /\ sales \in [Sale -> SaleRow \cup {NONE}]
  BY <1>1, <1>2, <1>5 DEF Database
<1>8. \A s \in Sale :
         /\ sales[s] = NONE <=> t.view.sales[s] = NONE
         /\ s \notin rows => sales[s] = t.view.sales[s]
         /\ t.view.sales[s] # NONE => SaleRewritten(t.view.sales[s], sales[s], 1)
  BY <1>2, <1>5
<1> HIDE DEF rows, sales, refused
<1>9. orderedMigrations(1 + 1, t) = Rewritten(m, rows, sales)
  BY <1>3, <1>4, <1>6, Zenon DEF Rewritten
<1>10. 1 + 1 \in {2, 4, 7} /\ 1 \in 0..9 /\ 1 <= 2 /\ 1 + 1 \notin MadeOnce
  BY DEF MadeOnce
<1> QED BY <1>2, <1>7, <1>8, <1>9, <1>10, RewriteAdvances

LEMMA SeventhMigrates ==
    ASSUME NEW t, Fits(t), t.view.versions = 1..6
    PROVE  Advances(t, After(6 + 1, t))
<1> DEFINE rows == {s \in Sale : t.view.sales[s] # NONE /\ t.view.sales[s].status # "success"}
           sales == [s \in Sale |-> IF s \in rows THEN Promoted(t.view.sales[s]) ELSE t.view.sales[s]]
           refused == t.refused \/ \E s \in rows : ~ConfirmationShape(Promoted(t.view.sales[s]))
<1>1. t \in Transaction /\ t.view \in Database /\ ~t.refused /\ t.pending = {}
  BY NothingOutstanding
<1>2. orderedMigrations(6 + 1, t) = MigratePaymentsAutoConfirmed(t)
  BY DEF orderedMigrations
<1>3. MigratePaymentsAutoConfirmed(t) =
          [t EXCEPT !.view.sales = sales, !.rows = @ \cup rows, !.refused = refused]
  BY Zenon DEF MigratePaymentsAutoConfirmed, Rewrite, Promoted
<1>4. ASSUME NEW s \in Sale, t.view.sales[s] # NONE
      PROVE  /\ t.view.sales[s] \in SaleRow
             /\ Promoted(t.view.sales[s]) \in SaleRow
             /\ Promoted(t.view.sales[s]) # NONE
             /\ ConfirmationShape(Promoted(t.view.sales[s]))
             /\ SaleRewritten(t.view.sales[s], Promoted(t.view.sales[s]), 6)
             /\ SaleRewritten(t.view.sales[s], t.view.sales[s], 6)
  <2>1. t.view.sales[s] \in SaleRow BY <1>1, <1>4 DEF Database
  <2>2. /\ t.view.sales[s].status # NONE /\ t.view.sales[s].amount = t.view.sales[s].total
        /\ ConfirmationShape(t.view.sales[s])
    BY <1>4 DEF Fits, InOrder, SalesInOrder, SaleInOrder
  <2>3. NONE # "success" BY NoneAssumption
  <2> QED BY <2>1, <2>2, <2>3, PromotedFields DEF SaleRewritten
<1>5. refused = FALSE BY <1>1, <1>4
<1>6. rows \in SUBSET Sale /\ sales \in [Sale -> SaleRow \cup {NONE}]
  BY <1>1, <1>4 DEF Database
<1>7. \A s \in Sale :
         /\ sales[s] = NONE <=> t.view.sales[s] = NONE
         /\ s \notin rows => sales[s] = t.view.sales[s]
         /\ t.view.sales[s] # NONE => SaleRewritten(t.view.sales[s], sales[s], 6)
  BY <1>4
<1> HIDE DEF rows, sales, refused
<1>8. orderedMigrations(6 + 1, t) = Rewritten(t, rows, sales)
  BY <1>2, <1>3, <1>5, Zenon DEF Rewritten
<1>9. 6 + 1 \in {2, 4, 7} /\ 6 \in 0..9 /\ 6 + 1 \notin {2, 4} /\ 6 + 1 \notin MadeOnce
  BY DEF MadeOnce
<1> QED BY <1>1, <1>6, <1>7, <1>8, <1>9, RewriteAdvances

LEMMA FourthMigrates ==
    ASSUME NEW t, Fits(t), t.view.versions = 1..3
    PROVE  Advances(t, After(3 + 1, t))
<1> DEFINE tables == ScopedTables \cup {"sessions"}
           settled == SettleConstraints(t)
           altered == Alter(settled, tables)
           m == Make(altered, 4)
           Filled(sale) == [sale EXCEPT !.amount = sale.total]
           rows == {s \in Sale : m.view.sales[s] # NONE /\ m.view.sales[s].amount = NONE}
           sales == [s \in Sale |-> IF s \in rows THEN Filled(m.view.sales[s]) ELSE m.view.sales[s]]
           refused == m.refused \/ \E s \in rows : ~ConfirmationShape(Filled(m.view.sales[s]))
<1>1. t \in Transaction /\ t.view \in Database /\ ~t.refused /\ 3 + 1 \notin t.view.made
  BY NothingOutstanding
<1>2. orderedMigrations(3 + 1, t) = MigrateSandboxDataSpaces(t)
  BY DEF orderedMigrations
<1>3. MigrateSandboxDataSpaces(t) =
          [m EXCEPT !.view.sales = sales, !.rows = @ \cup rows, !.refused = refused]
  BY Zenon DEF MigrateSandboxDataSpaces, Rewrite
<1>4. /\ settled \in Transaction /\ settled.owner = t.owner /\ settled.view = t.view
      /\ settled.locks = t.locks /\ settled.rows = t.rows /\ settled.pending = {}
      /\ ~settled.refused
  BY <1>1, SettleFields
<1>5. tables \in SUBSET Table /\ "transactions" \in tables
  BY DEF Table, InitialTables, ScopedTables
<1> HIDE DEF settled, tables
<1>6. /\ altered \in Transaction /\ altered.owner = t.owner /\ altered.view = t.view
      /\ altered.pending = {} /\ altered.rows = t.rows /\ altered.locks = t.locks \cup tables
      /\ ~altered.refused
  BY <1>4, <1>5, AlterFields
<1> HIDE DEF altered
<1>7. /\ m \in Transaction /\ m.owner = t.owner /\ m.pending = {} /\ m.rows = t.rows
      /\ m.locks = t.locks \cup tables /\ m.view = [t.view EXCEPT !.made = @ \cup {4}]
      /\ ~m.refused
  <2>1. 4 \in 1..Latest BY DEF Latest
  <2> QED BY <1>1, <1>6, <2>1, MakeFields
<1> HIDE DEF m
<1>8. /\ m.view.versions = t.view.versions /\ m.view.made = t.view.made \cup {4}
      /\ m.view.users = t.view.users /\ m.view.members = t.view.members
      /\ m.view.sessions = t.view.sessions /\ m.view.fed = t.view.fed
      /\ m.view.sales = t.view.sales
  BY <1>1, <1>7 DEF Database
<1>9. ASSUME NEW s \in Sale, t.view.sales[s] # NONE
      PROVE  /\ t.view.sales[s] \in SaleRow /\ t.view.sales[s].amount = NONE
             /\ Filled(t.view.sales[s]) \in SaleRow
             /\ Filled(t.view.sales[s]) # NONE
             /\ ConfirmationShape(Filled(t.view.sales[s]))
             /\ SaleRewritten(t.view.sales[s], Filled(t.view.sales[s]), 3)
  <2> DEFINE old == t.view.sales[s]
             new == Filled(old)
  <2>1. old \in SaleRow BY <1>1, <1>9 DEF Database
  <2>2. old.status # NONE /\ old.amount = NONE /\ ConfirmationShape(old)
    BY <1>9 DEF Fits, InOrder, SalesInOrder, SaleInOrder
  <2>3. new \in SaleRow BY <2>1 DEF SaleRow
  <2>4. new # NONE BY <2>3, NoneAssumption
  <2>5. /\ new.rev = old.rev /\ new.total = old.total /\ new.seller = old.seller
        /\ new.amount = old.total /\ new.status = old.status /\ new.confirmed = old.confirmed
    BY <2>1 DEF SaleRow
  <2> HIDE DEF new
  <2>6. ConfirmationShape(new) /\ SaleRewritten(old, new, 3)
    BY <2>2, <2>5 DEF ConfirmationShape, SaleRewritten
  <2> QED BY <2>1, <2>2, <2>3, <2>4, <2>6 DEF new
<1>10. refused = FALSE BY <1>7, <1>8, <1>9
<1>11. rows \in SUBSET Sale /\ sales \in [Sale -> SaleRow \cup {NONE}]
  BY <1>1, <1>8, <1>9 DEF Database
<1>12. \A s \in Sale :
         /\ sales[s] = NONE <=> t.view.sales[s] = NONE
         /\ s \notin rows => sales[s] = t.view.sales[s]
         /\ t.view.sales[s] # NONE => SaleRewritten(t.view.sales[s], sales[s], 3)
  BY <1>8, <1>9
<1> HIDE DEF rows, sales, refused
<1>13. orderedMigrations(3 + 1, t) = Rewritten(m, rows, sales)
  BY <1>2, <1>3, <1>10, Zenon DEF Rewritten
<1>14. 3 + 1 \in {2, 4, 7} /\ 3 \in 0..9 /\ 3 + 1 \in MadeOnce /\ 3 + 1 = 4
  BY DEF MadeOnce
<1>15. /\ "transactions" \in m.locks /\ t.locks \subseteq m.locks
       /\ m.view.made = IF 3 + 1 \in MadeOnce THEN t.view.made \cup {3 + 1} ELSE t.view.made
  BY <1>5, <1>7, <1>8, <1>14
<1> QED BY <1>7, <1>8, <1>11, <1>12, <1>13, <1>14, <1>15, RewriteAdvances

(* A migration of accounts leaves the sales to those who made them.         *)
LEMMA AccountsAdvance ==
    ASSUME NEW t, NEW o \in Transaction, NEW n \in {4, 5}, Fits(t), t.view.versions = 1..n,
           orderedMigrations(n + 1, t) = o,
           o.owner = t.owner, ~o.refused, t.locks \subseteq o.locks, o.rows = t.rows,
           o.pending = {}, "sessions" \in o.locks,
           o.view.versions = t.view.versions, o.view.made = t.view.made \cup {n + 1},
           o.view.sessions = t.view.sessions, o.view.sales = t.view.sales,
           \A a \in Account :
              /\ o.view.users[a] = NONE <=> t.view.users[a] = NONE
              /\ t.view.users[a] # NONE =>
                    /\ o.view.users[a].password = t.view.users[a].password
                    /\ Authority(t.view, a) <=>
                          /\ o.view.users[a].active
                          /\ IF n = 4 THEN o.view.users[a].platform \/ o.view.members[a] = "superadmin"
                                      ELSE o.view.users[a].role = "superadmin"
                    /\ n = 5 => o.view.fed[a] = Projection(o.view.users[a])
    PROVE  Advances(t, After(n + 1, t))
<1> DEFINE u == After(n + 1, t)
<1>1. u = [o EXCEPT !.view.versions = @ \cup {n + 1}]
  BY DEF After
<1> HIDE DEF u
<1>2. /\ u \in Transaction
      /\ u.owner = o.owner /\ u.locks = o.locks /\ u.rows = o.rows /\ u.refused = o.refused
      /\ u.pending = o.pending
      /\ u.view = [o.view EXCEPT !.versions = @ \cup {n + 1}]
  <2>1. n + 1 \in 1..Latest BY DEF Latest
  <2> QED BY <1>1, <2>1, RecordFields
<1>3. /\ u.view.versions = t.view.versions \cup {n + 1}
      /\ u.view.made = t.view.made \cup {n + 1}
      /\ u.view.users = o.view.users /\ u.view.members = o.view.members
      /\ u.view.sessions = t.view.sessions /\ u.view.fed = o.view.fed
      /\ u.view.sales = t.view.sales
  <2>1. o.view \in Database BY DEF Transaction
  <2> QED BY <1>2, <2>1 DEF Database
<1>4. /\ n \in 0..9 /\ n + 1 \notin {2, 4} /\ n + 1 \in MadeOnce
      /\ 5 \in u.view.versions /\ (6 \in u.view.versions <=> n = 5)
      /\ 2 \in t.view.versions <=> 2 \in u.view.versions
      /\ 4 \in t.view.versions <=> 4 \in u.view.versions
  BY <1>3 DEF MadeOnce
<1>5. u.locks \cap AccountTables # {}
  BY <1>2 DEF AccountTables
<1>6. Records(t, u, n)
  BY <1>2, <1>3, <1>4, <1>5 DEF Records
<1>7. ASSUME NEW a \in Account PROVE AccountFits(t, u, a)
  <2>1. AccountCarried(t.view, u.view, a)
    <3>1. CASE t.view.users[a] = NONE
      BY <1>3, <3>1 DEF AccountCarried, Authority
    <3>2. CASE t.view.users[a] # NONE
      <4>1. Authority(t.view, a) <=> Authority(u.view, a)
        BY <1>3, <1>4, <3>2 DEF Authority
      <4> QED BY <1>3, <3>2, <4>1 DEF AccountCarried
    <3> QED BY <3>1, <3>2
  <2>2. AccountInOrder(t.view, a)
    BY DEF Fits, InOrder, AccountsInOrder
  <2>3. AccountInOrder(u.view, a)
    BY <1>3, <1>4, <2>2 DEF AccountInOrder
  <2> QED BY <2>1, <2>3 DEF AccountFits
<1>8. \A s \in Sale : SaleFits(t, u, s)
  BY <1>3, <1>4, <1>7, SaleKept DEF AccountFits
<1> QED BY <1>4, <1>6, <1>7, <1>8, MigrationAdvances DEF u

(* The tables that the fourth, the fifth and the sixth change, and what they *)
(* make.                                                                     *)
LEMMA AlteredAndMade ==
    ASSUME NEW t \in Transaction, ~t.refused, t.pending = {},
           NEW tables \in SUBSET Table, NEW k \in 1..Latest, k \notin t.view.made
    PROVE  LET m == Make(Alter(t, tables), k) IN
           /\ m \in Transaction /\ m.owner = t.owner /\ m.pending = {} /\ m.rows = t.rows
           /\ m.locks = t.locks \cup tables /\ ~m.refused
           /\ m.view \in Database
           /\ m.view.versions = t.view.versions /\ m.view.made = t.view.made \cup {k}
           /\ m.view.users = t.view.users /\ m.view.members = t.view.members
           /\ m.view.sessions = t.view.sessions /\ m.view.fed = t.view.fed
           /\ m.view.sales = t.view.sales
<1> DEFINE a == Alter(t, tables)
           m == Make(a, k)
<1>1. /\ a \in Transaction /\ a.owner = t.owner /\ a.view = t.view /\ a.pending = {}
      /\ a.rows = t.rows /\ a.locks = t.locks \cup tables /\ ~a.refused
  BY AlterFields
<1> HIDE DEF a
<1>2. /\ m \in Transaction /\ m.owner = t.owner /\ m.pending = {} /\ m.rows = t.rows
      /\ m.locks = t.locks \cup tables /\ m.view = [t.view EXCEPT !.made = @ \cup {k}]
      /\ ~m.refused
  BY <1>1, MakeFields
<1> HIDE DEF m
<1>3. t.view \in Database /\ m.view \in Database BY <1>2 DEF Transaction
<1>4. /\ m.view.versions = t.view.versions /\ m.view.made = t.view.made \cup {k}
      /\ m.view.users = t.view.users /\ m.view.members = t.view.members
      /\ m.view.sessions = t.view.sessions /\ m.view.fed = t.view.fed
      /\ m.view.sales = t.view.sales
  BY <1>2, <1>3 DEF Database
<1> QED BY <1>2, <1>3, <1>4 DEF m, a

LEMMA FifthMigrates ==
    ASSUME NEW t, Fits(t), t.view.versions = 1..4
    PROVE  Advances(t, After(4 + 1, t))
<1> DEFINE tables == ScopedTables \cup {"users", "sessions", "terminals"}
           settled == SettleConstraints(t)
           m == Make(Alter(settled, tables), 5)
           members == MembershipsOf(t.view.users)
           signedIn == {a \in Account : t.view.sessions[a] # "none"}
           sellers == {t.view.sales[s].seller : s \in {x \in Sale : t.view.sales[x] # NONE}}
           refused == m.refused \/ \E a \in signedIn \cup sellers : members[a] = NONE
           o == orderedMigrations(4 + 1, t)
<1>1. /\ t \in Transaction /\ t.view \in Database /\ ~t.refused /\ 4 + 1 \notin t.view.made
      /\ InOrder(t.view)
  BY NothingOutstanding DEF Fits
<1>2. o = MigrateTenants(t)
  BY DEF orderedMigrations
<1>3. MigrateTenants(t) = [m EXCEPT !.view.members = members, !.refused = refused]
  BY Zenon DEF MigrateTenants
<1>4. /\ settled \in Transaction /\ settled.owner = t.owner /\ settled.view = t.view
      /\ settled.locks = t.locks /\ settled.rows = t.rows /\ settled.pending = {}
      /\ ~settled.refused
  BY <1>1, SettleFields
<1>5. tables \in SUBSET Table /\ "sessions" \in tables /\ 5 \in 1..Latest
  BY DEF Table, InitialTables, ScopedTables, Latest
<1> HIDE DEF settled, tables
<1>6. /\ m \in Transaction /\ m.owner = t.owner /\ m.pending = {} /\ m.rows = t.rows
      /\ m.locks = t.locks \cup tables /\ ~m.refused /\ m.view \in Database
      /\ m.view.versions = t.view.versions /\ m.view.made = t.view.made \cup {5}
      /\ m.view.users = t.view.users
      /\ m.view.sessions = t.view.sessions /\ m.view.sales = t.view.sales
  BY <1>1, <1>4, <1>5, AlteredAndMade
<1> HIDE DEF m
<1>7. \A a \in Account :
         /\ t.view.users[a] = NONE => members[a] = NONE
         /\ t.view.users[a] # NONE =>
               /\ t.view.users[a] \in UserRow
               /\ members[a] = IF t.view.users[a].active THEN t.view.users[a].role ELSE "inactive"
               /\ members[a] \in {"admin", "superadmin", "inactive"} /\ members[a] # NONE
  BY <1>1, NoneAssumption DEF Database, MembershipsOf, UserRow
<1>8. members \in [Account -> {"admin", "superadmin", "inactive", NONE}]
  <2>1. members = [a \in Account |-> members[a]] BY DEF MembershipsOf
  <2> HIDE DEF members
  <2> QED BY <1>7, <2>1
<1>9. refused = FALSE
  <2> SUFFICES ASSUME NEW a \in signedIn \cup sellers PROVE members[a] # NONE
    BY <1>6
  <2>1. a \in Account /\ t.view.users[a] # NONE
    <3>1. CASE a \in signedIn
      BY <1>1, <3>1 DEF InOrder, AccountsInOrder, AccountInOrder
    <3>2. CASE a \in sellers
      <4>1. PICK s \in Sale : t.view.sales[s] # NONE /\ a = t.view.sales[s].seller
        BY <3>2
      <4>2. t.view.sales[s] \in SaleRow /\ SaleInOrder(t.view, t.view.sales[s])
        BY <1>1, <4>1 DEF Database, InOrder, SalesInOrder
      <4> QED BY <4>1, <4>2 DEF SaleInOrder, SaleRow
    <3> QED BY <3>1, <3>2
  <2> HIDE DEF members
  <2> QED BY <1>7, <2>1
<1> HIDE DEF members, refused, o
<1>10. o = [m EXCEPT !.view.members = members, !.refused = FALSE]
  BY <1>2, <1>3, <1>9, Zenon
<1>11. /\ o \in Transaction /\ o.owner = m.owner /\ o.pending = m.pending
       /\ o.rows = m.rows /\ o.locks = m.locks /\ ~o.refused
       /\ o.view = [m.view EXCEPT !.members = members]
  <2>1. [m.view EXCEPT !.members = members] \in Database
    BY <1>6, <1>8 DEF Database
  <2> QED BY <1>6, <1>10, <2>1 DEF Transaction
<1>12. /\ o.view.versions = t.view.versions /\ o.view.made = t.view.made \cup {4 + 1}
       /\ o.view.users = t.view.users /\ o.view.members = members
       /\ o.view.sessions = t.view.sessions /\ o.view.sales = t.view.sales
  BY <1>6, <1>11 DEF Database
<1>13. ASSUME NEW a \in Account, t.view.users[a] # NONE
       PROVE  Authority(t.view, a) <=>
                 /\ o.view.users[a].active
                 /\ o.view.users[a].platform \/ o.view.members[a] = "superadmin"
  <2>1. 5 \notin t.view.versions OBVIOUS
  <2>2. ~t.view.users[a].platform
    BY <1>1, <1>13, <2>1 DEF InOrder, AccountsInOrder, AccountInOrder
  <2>3. members[a] = IF t.view.users[a].active THEN t.view.users[a].role ELSE "inactive"
    BY <1>7, <1>13
  <2> QED BY <1>12, <1>13, <2>1, <2>2, <2>3 DEF Authority
<1>14. orderedMigrations(4 + 1, t) = o BY DEF o
<1>15. /\ o.owner = t.owner /\ t.locks \subseteq o.locks /\ o.rows = t.rows /\ o.pending = {}
       /\ "sessions" \in o.locks
  BY <1>5, <1>6, <1>11
<1>16. \A a \in Account :
          /\ o.view.users[a] = NONE <=> t.view.users[a] = NONE
          /\ t.view.users[a] # NONE =>
                /\ o.view.users[a].password = t.view.users[a].password
                /\ Authority(t.view, a) <=>
                      /\ o.view.users[a].active
                      /\ IF 4 = 4 THEN o.view.users[a].platform \/ o.view.members[a] = "superadmin"
                                  ELSE o.view.users[a].role = "superadmin"
                /\ 4 = 5 => o.view.fed[a] = Projection(o.view.users[a])
  BY <1>12, <1>13
<1> QED BY <1>11, <1>12, <1>14, <1>15, <1>16, AccountsAdvance

LEMMA SixthMigrates ==
    ASSUME NEW t, Fits(t), t.view.versions = 1..5
    PROVE  Advances(t, After(5 + 1, t))
<1> DEFINE tables == {"sessions", "tenants", "sync_changes"}
           m == Make(Alter(t, tables), 6)
           users == [a \in Account |->
                       IF t.view.users[a] # NONE /\ t.view.users[a].active
                       THEN [t.view.users[a] EXCEPT !.role = GlobalRole(t.view, a)]
                       ELSE t.view.users[a]]
           fed == [a \in Account |->
                     IF users[a] = NONE THEN t.view.fed[a] ELSE Projection(users[a])]
           o == orderedMigrations(5 + 1, t)
<1>1. /\ t \in Transaction /\ t.view \in Database /\ ~t.refused /\ t.pending = {}
      /\ 5 + 1 \notin t.view.made
  BY NothingOutstanding
<1>2. o = MigrateInternalOrganization(t)
  BY DEF orderedMigrations
<1>3. MigrateInternalOrganization(t) = [m EXCEPT !.view.users = users, !.view.fed = fed]
  BY Zenon DEF MigrateInternalOrganization
<1>4. tables \in SUBSET Table /\ "sessions" \in tables /\ 6 \in 1..Latest
  BY DEF Table, InitialTables, Latest
<1> HIDE DEF tables
<1>5. /\ m \in Transaction /\ m.owner = t.owner /\ m.pending = {} /\ m.rows = t.rows
      /\ m.locks = t.locks \cup tables /\ ~m.refused /\ m.view \in Database
      /\ m.view.versions = t.view.versions /\ m.view.made = t.view.made \cup {6}
      /\ m.view.members = t.view.members
      /\ m.view.sessions = t.view.sessions /\ m.view.sales = t.view.sales
  BY <1>1, <1>4, AlteredAndMade
<1> HIDE DEF m
<1>6. ASSUME NEW a \in Account, t.view.users[a] # NONE
      PROVE  /\ users[a] \in UserRow /\ users[a] # NONE
             /\ users[a].active = t.view.users[a].active
             /\ users[a].password = t.view.users[a].password
             /\ users[a].active => users[a].role = GlobalRole(t.view, a)
  <2>1. t.view.users[a] \in UserRow BY <1>1, <1>6 DEF Database
  <2>2. GlobalRole(t.view, a) \in {"admin", "superadmin"} BY DEF GlobalRole
  <2>3. users[a] \in UserRow
        /\ users[a].active = t.view.users[a].active
        /\ users[a].password = t.view.users[a].password
        /\ (users[a].active => users[a].role = GlobalRole(t.view, a))
    <3>1. CASE t.view.users[a].active
      <4>1. users[a] = [t.view.users[a] EXCEPT !.role = GlobalRole(t.view, a)]
        BY <1>6, <3>1
      <4> HIDE DEF users
      <4> QED BY <2>1, <2>2, <3>1, <4>1 DEF UserRow
    <3>2. CASE ~t.view.users[a].active
      <4>1. users[a] = t.view.users[a] BY <3>2
      <4> HIDE DEF users
      <4> QED BY <2>1, <3>2, <4>1
    <3> QED BY <3>1, <3>2
  <2> HIDE DEF users
  <2> QED BY <2>3, NoneAssumption
<1>7. ASSUME NEW a \in Account, t.view.users[a] = NONE
      PROVE  users[a] = NONE
  BY <1>7
<1>8. users \in [Account -> UserRow \cup {NONE}]
  <2>1. users = [a \in Account |-> users[a]] OBVIOUS
  <2> HIDE DEF users
  <2> QED BY <1>6, <1>7, <2>1
<1> HIDE DEF users
<1>9. \A a \in Account :
         /\ fed[a] \in FeedRow \cup {NONE}
         /\ users[a] # NONE => fed[a] = Projection(users[a])
  BY <1>1, <1>8 DEF Database, Projection, UserRow, FeedRow
<1>10. fed \in [Account -> FeedRow \cup {NONE}]
  <2>1. fed = [a \in Account |-> fed[a]] OBVIOUS
  <2> HIDE DEF fed
  <2> QED BY <1>9, <2>1
<1> HIDE DEF fed, o
<1>11. /\ o \in Transaction /\ o.owner = m.owner /\ o.pending = m.pending
       /\ o.rows = m.rows /\ o.locks = m.locks /\ ~o.refused
       /\ o.view = [m.view EXCEPT !.users = users, !.fed = fed]
  <2>1. [m.view EXCEPT !.users = users, !.fed = fed] \in Database
    BY <1>5, <1>8, <1>10 DEF Database
  <2>2. o = [m EXCEPT !.view.users = users, !.view.fed = fed] BY <1>2, <1>3
  <2> QED BY <1>5, <2>1, <2>2 DEF Transaction
<1>12. /\ o.view.versions = t.view.versions /\ o.view.made = t.view.made \cup {5 + 1}
       /\ o.view.users = users /\ o.view.fed = fed
       /\ o.view.sessions = t.view.sessions /\ o.view.sales = t.view.sales
  BY <1>5, <1>11 DEF Database
<1>13. ASSUME NEW a \in Account, t.view.users[a] # NONE
       PROVE  Authority(t.view, a) <=>
                 o.view.users[a].active /\ o.view.users[a].role = "superadmin"
  <2>1. 5 \in t.view.versions /\ 6 \notin t.view.versions OBVIOUS
  <2> QED BY <1>6, <1>12, <1>13, <2>1 DEF Authority, GlobalRole
<1>14. orderedMigrations(5 + 1, t) = o BY DEF o
<1>15. /\ o.owner = t.owner /\ t.locks \subseteq o.locks /\ o.rows = t.rows /\ o.pending = {}
       /\ "sessions" \in o.locks
  BY <1>4, <1>5, <1>11
<1>16. \A a \in Account :
          /\ o.view.users[a] = NONE <=> t.view.users[a] = NONE
          /\ t.view.users[a] # NONE =>
                /\ o.view.users[a].password = t.view.users[a].password
                /\ Authority(t.view, a) <=>
                      /\ o.view.users[a].active
                      /\ IF 5 = 4 THEN o.view.users[a].platform \/ o.view.members[a] = "superadmin"
                                  ELSE o.view.users[a].role = "superadmin"
                /\ 5 = 5 => o.view.fed[a] = Projection(o.view.users[a])
  BY <1>6, <1>7, <1>9, <1>12, <1>13
<1> QED BY <1>11, <1>12, <1>14, <1>15, <1>16, AccountsAdvance

(* Every migration fits in its turn.                                        *)
LEMMA MigrationFits ==
    ASSUME NEW t, NEW n \in 0..9, Fits(t), t.view.versions = 1..n
    PROVE  Advances(t, After(n + 1, t))
<1>1. CASE n = 0 BY <1>1, FirstMigrates
<1>2. CASE n = 1 BY <1>2, SecondMigrates
<1>3. CASE n = 2 BY <1>3, ThirdMigrates
<1>4. CASE n = 3 BY <1>4, FourthMigrates
<1>5. CASE n = 4 BY <1>5, FifthMigrates
<1>6. CASE n = 5 BY <1>6, SixthMigrates
<1>7. CASE n = 6 BY <1>7, SeventhMigrates
<1>8. CASE n \in {7, 8, 9} BY <1>8, LastMigrate
<1> QED BY <1>1, <1>2, <1>3, <1>4, <1>5, <1>6, <1>7, <1>8

(* It is the one after the last that is recorded.                           *)
LEMMA NextMigration ==
    ASSUME NEW n \in 0..Latest, NEW release \in 2..Latest, NEW S,
           S = (1..release) \ (1..n), S # {}
    PROVE  n \in 0..9 /\ Least(S) = n + 1
<1>1. n < release BY SMT
<1>2. n + 1 \in S /\ \A y \in S : n + 1 <= y BY <1>1, SMT
<1>3. PICK x : x = Least(S) OBVIOUS
<1>4. x \in S /\ \A y \in S : x <= y BY <1>2, <1>3 DEF Least
<1>5. x = n + 1 BY <1>2, <1>4, SMT
<1> QED BY <1>1, <1>3, <1>5 DEF Latest

(***************************************************************************)
(* THE STEPS.                                                              *)
(***************************************************************************)
LEMMA CarriesItself ==
    ASSUME NEW d, NEW locks, NEW rows
    PROVE  Follows(d, d, locks, rows)
BY DEF Follows, Carries, SaleCarried, AccountCarried, SameSales, SameAccounts

LEMMA FollowsOn ==
    ASSUME NEW d, NEW t, NEW u, Follows(d, t.view, t.locks, t.rows), Advances(t, u)
    PROVE  Follows(d, u.view, u.locks, u.rows)
<1>1. /\ t.locks \subseteq u.locks /\ t.rows \subseteq u.rows
      /\ Follows(t.view, u.view, u.locks, u.rows)
  BY DEF Advances
<1>2. Carries(d, u.view)
  <2>1. Carries(d, t.view) /\ Carries(t.view, u.view) BY <1>1 DEF Follows
  <2>2. \A s \in Sale : SaleCarried(d, u.view, s)
    BY <2>1 DEF Carries, SaleCarried
  <2>3. \A a \in Account : AccountCarried(d, u.view, a)
    BY <2>1 DEF Carries, AccountCarried
  <2> QED BY <2>1, <2>2, <2>3 DEF Carries
<1>3. ASSUME "transactions" \notin u.locks PROVE SameSales(d, u.view, u.rows)
  <2>1. SameSales(d, t.view, t.rows) /\ SameSales(t.view, u.view, u.rows)
    BY <1>1, <1>3 DEF Follows
  <2> QED BY <1>1, <2>1 DEF SameSales
<1>4. ASSUME u.locks \cap AccountTables = {} PROVE SameAccounts(d, u.view)
  <2>1. SameAccounts(d, t.view) /\ SameAccounts(t.view, u.view)
    BY <1>1, <1>4 DEF Follows
  <2> QED BY <2>1 DEF SameAccounts
<1> QED BY <1>2, <1>3, <1>4 DEF Follows

(* Whom a command is about.                                                 *)
LEMMA WantedAccounts ==
    ASSUME NEW p \in Process, job \in [Process -> Job], OneShot(p)
    PROVE  /\ DOMAIN Wanted(p) \subseteq Account /\ Missing(p) \subseteq Account
           /\ \A a \in DOMAIN Wanted(p) : Wanted(p)[a] \in {"admin", "superadmin"}
<1>1. job[p] \in Job OBVIOUS
<1>2. CASE job[p].kind = "bootstrap"
  <2>1. Wanted(p) = Manifest BY <1>2 DEF Wanted
  <2> QED BY <2>1, DeploymentAssumption DEF Missing
<1>3. CASE job[p].kind = "seed"
  <2>1. Wanted(p) = [a \in {Sample} |-> "superadmin"] BY <1>3 DEF Wanted
  <2> QED BY <2>1, DeploymentAssumption DEF Missing
<1>4. CASE job[p].kind = "first"
  <2>1. Wanted(p) = [a \in {job[p].account} |-> "superadmin"] BY <1>4 DEF Wanted
  <2> QED BY <1>1, <2>1 DEF Missing, Job
<1> QED BY <1>2, <1>3, <1>4 DEF OneShot

(* What a step of p leaves to another process q.                            *)
Undisturbed(q) ==
    /\ pc'[q] = pc[q] /\ staged'[q] = staged[q]
    /\ org' = q <=> org = q
    /\ Owns(q) => Owns(q)'

DatabaseKept ==
    /\ job' = job
    /\ db.versions \subseteq db'.versions
    /\ \A a \in Account : db'.users[a] = NONE <=> db.users[a] = NONE
    /\ 6 \in db.versions =>
          \A a \in Account : ActiveSuperadmin(db', a) => ActiveSuperadmin(db, a)

LEMMA PlaceKept ==
    ASSUME NEW q \in Process, IInv, Undisturbed(q), job' = job,
           db.versions \subseteq db'.versions,
           \A a \in Account : db.users[a] # NONE => db'.users[a] # NONE
    PROVE  PlaceInv(q)'
<1>1. PlaceInv(q) /\ job \in [Process -> Job] BY DEF IInv, TypeOK
<1>2. OneShot(q)' <=> OneShot(q) BY DEF OneShot
<1>3. Migrates(q)' <=> Migrates(q) BY DEF Migrates
<1>4. Known(q)' = Known(q) BY DEF Known
<1>5. ASSUME OneShot(q), Missing(q) = {} PROVE Missing(q)' = {}
  <2>1. Wanted(q)' = Wanted(q) BY DEF Wanted
  <2>2. DOMAIN Wanted(q) \subseteq Account BY <1>1, <1>5, WantedAccounts
  <2> QED BY <1>5, <2>1, <2>2 DEF Missing
<1>6. job[q].kind = "seed" => OneShot(q) BY DEF OneShot
<1> QED BY <1>1, <1>2, <1>3, <1>4, <1>5, <1>6 DEF PlaceInv, Undisturbed

LEMMA DecisionKept ==
    ASSUME NEW q \in Process, IInv, Undisturbed(q), DatabaseKept
    PROVE  DecisionInv(q)'
<1>1. DecisionInv(q) /\ PlaceInv(q) /\ job \in [Process -> Job] BY DEF IInv, TypeOK
<1> SUFFICES ASSUME staged'[q] # NONE PROVE DecisionInv(q)'
  BY DEF DecisionInv
<1>2. staged[q] # NONE /\ staged'[q] = staged[q] /\ pc'[q] = pc[q] BY DEF Undisturbed
<1>3. OneShot(q) BY <1>1, <1>2 DEF DecisionInv, PlaceInv
<1>4. Missing(q)' = Missing(q)
  <2>1. Wanted(q)' = Wanted(q) BY DEF Wanted, DatabaseKept
  <2>2. DOMAIN Wanted(q) \subseteq Account BY <1>1, <1>3, WantedAccounts
  <2> QED BY <2>1, <2>2 DEF Missing, DatabaseKept
<1>5. org' = q BY <1>1, <1>2 DEF DecisionInv, Undisturbed
<1>6. \A a \in Account : 6 \in db.versions /\ ~ActiveSuperadmin(db, a) => ~ActiveSuperadmin(db, a)'
  BY DEF DatabaseKept, ActiveSuperadmin
<1> QED BY <1>1, <1>2, <1>4, <1>5, <1>6 DEF DecisionInv, DatabaseKept

LEMMA OthersKept ==
    ASSUME NEW p \in Process, IInv, DatabaseKept,
           \A q \in Process \ {p} : Undisturbed(q),
           DecisionInv(p)', PlaceInv(p)'
    PROVE  \A q \in Process : DecisionInv(q)' /\ PlaceInv(q)'
<1>1. \A a \in Account : db.users[a] # NONE => db'.users[a] # NONE BY DEF DatabaseKept
<1>2. job' = job /\ db.versions \subseteq db'.versions BY DEF DatabaseKept
<1> QED BY <1>1, <1>2, PlaceKept, DecisionKept

(* A step that leaves the database alone.                                   *)
LEMMA DatabaseSame ==
    ASSUME db' = db, job' = job
    PROVE  DatabaseKept /\ (InOrder(db) => InOrder(db)')
BY DEF DatabaseKept

Places == {"off", "connecting", "migrating", "upgrading", "deciding", "committing",
           "resetting", "serving", "done", "failed"}

LEMMA TriesBound ==
    ASSUME NEW p \in Process
    PROVE  Attempts(p) \in Nat /\ Attempts(p) <= MaxAttempts /\ 0 \in 0..MaxAttempts
BY DeploymentAssumption DEF Attempts

(* Where a retry leads: nowhere that promises anything.                     *)
LEMMA RetryGoes ==
    ASSUME NEW p \in Process, TypeOK, Retry(p)
    PROVE  /\ pc' \in [Process -> Places] /\ tries' \in [Process -> 0..MaxAttempts]
           /\ pc'[p] \in {"connecting", "migrating", "failed"}
           /\ \A q \in Process \ {p} : pc'[q] = pc[q]
<1>1. /\ pc \in [Process -> Places] /\ tries \in [Process -> 0..MaxAttempts]
  BY DEF TypeOK, Places
<1>2. Attempts(p) \in Nat /\ Attempts(p) <= MaxAttempts /\ 0 \in 0..MaxAttempts
  BY TriesBound
<1> DEFINE place == IF pc[p] = "connecting" THEN "connecting" ELSE "migrating"
<1>3. CASE /\ tries[p] + 1 < Attempts(p)
           /\ tries' = [tries EXCEPT ![p] = @ + 1]
           /\ pc' = [pc EXCEPT ![p] = place]
  <2>1. tries[p] + 1 \in 0..MaxAttempts BY <1>1, <1>2, <1>3, DeploymentAssumption
  <2>2. place \in Places /\ place \in {"connecting", "migrating"} BY DEF Places
  <2> QED BY <1>1, <1>3, <2>1, <2>2
<1>4. CASE Goto(p, "failed")
  BY <1>1, <1>2, <1>4 DEF Goto, Places
<1> QED BY <1>3, <1>4 DEF Retry

LEMMA GotoGoes ==
    ASSUME NEW p \in Process, TypeOK, NEW place \in Places, Goto(p, place)
    PROVE  /\ pc' \in [Process -> Places] /\ tries' \in [Process -> 0..MaxAttempts]
           /\ pc'[p] = place
           /\ \A q \in Process \ {p} : pc'[q] = pc[q]
<1>1. /\ pc \in [Process -> Places] /\ tries \in [Process -> 0..MaxAttempts]
  BY DEF TypeOK, Places
<1> QED BY <1>1, TriesBound DEF Goto

(* A transaction that is not p's is not touched when p moves on.            *)
LEMMA UpgradeSame ==
    ASSUME IInv, NEW p \in Process, ~Owns(p), tx' = tx, db' = db,
           \A q \in Process \ {p} : pc'[q] = pc[q],
           tx # NONE /\ tx.locks \cap AccountTables # {} => \A q \in Process : staged'[q] = NONE
    PROVE  UpgradeInv'
<1>1. UpgradeInv /\ (tx # NONE => tx.owner \in Process)
  BY DEF IInv, TypeOK, Transaction
<1> SUFFICES ASSUME tx # NONE PROVE UpgradeInv'
  BY DEF UpgradeInv
<1>2. tx.owner \in Process \ {p} BY <1>1 DEF Owns
<1> QED BY <1>1, <1>2 DEF UpgradeInv

LEMMA StartKeeps ==
    ASSUME IInv, NEW p \in Process, Start(p)
    PROVE  IInv'
<1>1. /\ TypeOK /\ InOrder(db) /\ UpgradeInv /\ DecisionInv(p) /\ PlaceInv(p) BY DEF IInv
<1>2. /\ pc[p] \in {"off", "failed", "done"} /\ Goto(p, "connecting")
      /\ UNCHANGED <<db, tx, org, staged, job>>
  BY DEF Start
<1>3. /\ pc' \in [Process -> Places] /\ tries' \in [Process -> 0..MaxAttempts]
      /\ pc'[p] = "connecting" /\ \A q \in Process \ {p} : pc'[q] = pc[q]
  BY <1>1, <1>2, GotoGoes DEF Places
<1>4. TypeOK' BY <1>1, <1>2, <1>3 DEF TypeOK, Places
<1>5. InOrder(db)' /\ DatabaseKept BY <1>1, <1>2, DatabaseSame
<1>6. ~Owns(p) BY <1>1, <1>2 DEF UpgradeInv, Owns
<1>7. UpgradeInv'
  <2>1. tx # NONE /\ tx.locks \cap AccountTables # {} => \A q \in Process : staged'[q] = NONE
    BY <1>1, <1>2 DEF UpgradeInv
  <2> QED BY <1>2, <1>3, <1>6, <2>1, UpgradeSame
<1>8. DecisionInv(p)' /\ PlaceInv(p)'
  BY <1>1, <1>2, <1>3 DEF DecisionInv, PlaceInv, Past
<1>9. \A q \in Process \ {p} : Undisturbed(q)
  BY <1>2, <1>3 DEF Undisturbed, Owns
<1> QED BY <1>4, <1>5, <1>7, <1>8, <1>9, OthersKept DEF IInv

LEMMA AfterGoes ==
    ASSUME NEW p \in Process, job \in [Process -> Job]
    PROVE  /\ AfterMigrations(p) \in {"serving", "done", "deciding"}
           /\ AfterMigrations(p) = "deciding" <=> OneShot(p)
<1>1. job[p].kind \in {"api", "migrate", "seed", "bootstrap", "first"} BY DEF Job
<1> QED BY <1>1 DEF AfterMigrations, OneShot

LEMMA ConnectKeeps ==
    ASSUME IInv, NEW p \in Process, Connect(p)
    PROVE  IInv'
<1>1. /\ TypeOK /\ InOrder(db) /\ UpgradeInv /\ DecisionInv(p) /\ PlaceInv(p)
      /\ job \in [Process -> Job]
  BY DEF IInv, TypeOK
<1> DEFINE place == IF Migrates(p) THEN "migrating" ELSE AfterMigrations(p)
<1>2. /\ pc[p] = "connecting" /\ Goto(p, place)
      /\ UNCHANGED <<db, tx, org, staged, job>>
  BY DEF Connect
<1>3. /\ place \in Places
      /\ Migrates(p) => place = "migrating"
      /\ ~Migrates(p) => place = AfterMigrations(p)
  BY <1>1, AfterGoes DEF Places
<1> HIDE DEF place
<1>4. /\ pc' \in [Process -> Places] /\ tries' \in [Process -> 0..MaxAttempts]
      /\ pc'[p] = place /\ \A q \in Process \ {p} : pc'[q] = pc[q]
  BY <1>1, <1>2, <1>3, GotoGoes
<1>5. TypeOK' BY <1>1, <1>2, <1>4 DEF TypeOK, Places
<1>6. InOrder(db)' /\ DatabaseKept BY <1>1, <1>2, DatabaseSame
<1>7. ~Owns(p) BY <1>1, <1>2 DEF UpgradeInv, Owns
<1>8. UpgradeInv'
  <2>1. tx # NONE /\ tx.locks \cap AccountTables # {} => \A q \in Process : staged'[q] = NONE
    BY <1>1, <1>2 DEF UpgradeInv
  <2> QED BY <1>2, <1>4, <1>7, <2>1, UpgradeSame
<1>9. staged[p] = NONE /\ staged'[p] = NONE /\ org' # p
  BY <1>1, <1>2 DEF DecisionInv, PlaceInv
<1>10. DecisionInv(p)' BY <1>9 DEF DecisionInv
<1>11. PlaceInv(p)'
  <2>1. /\ OneShot(p)' <=> OneShot(p)
        /\ Migrates(p)' <=> Migrates(p)
    BY <1>2 DEF OneShot, Migrates
  <2> QED BY <1>1, <1>3, <1>4, <1>9, <2>1, AfterGoes DEF PlaceInv, Past
<1>12. \A q \in Process \ {p} : Undisturbed(q)
  BY <1>2, <1>4 DEF Undisturbed, Owns
<1> QED BY <1>5, <1>6, <1>8, <1>10, <1>11, <1>12, OthersKept DEF IInv

(* What is undone when a transaction of p is.                               *)
LEMMA RolledBackFields ==
    ASSUME IInv, NEW p \in Process, tx' = RolledBack(p), db' = db,
           \A q \in Process \ {p} : pc'[q] = pc[q],
           \A q \in Process : staged'[q] = staged[q] \/ staged'[q] = NONE
    PROVE  /\ tx' \in Transaction \cup {NONE} /\ ~Owns(p)'
           /\ UpgradeInv'
           /\ \A q \in Process \ {p} : Owns(q) => Owns(q)'
<1>1. UpgradeInv /\ tx \in Transaction \cup {NONE} BY DEF IInv, TypeOK
<1>2. CASE Owns(p)
  BY <1>2 DEF RolledBack, UpgradeInv, Owns
<1>3. CASE ~Owns(p)
  <2>1. tx' = tx BY <1>3 DEF RolledBack
  <2>2. tx # NONE /\ tx.locks \cap AccountTables # {} => \A q \in Process : staged'[q] = NONE
    BY <1>1 DEF UpgradeInv
  <2>3. UpgradeInv' BY <1>3, <2>1, <2>2, UpgradeSame
  <2> QED BY <1>1, <1>3, <2>1, <2>3 DEF Owns
<1> QED BY <1>2, <1>3

LEMMA AttemptFailsKeeps ==
    ASSUME IInv, NEW p \in Process, AttemptFails(p)
    PROVE  IInv'
<1>1. /\ TypeOK /\ InOrder(db) /\ UpgradeInv /\ DecisionInv(p) /\ PlaceInv(p) BY DEF IInv
<1>2. /\ pc[p] \in {"connecting", "migrating", "upgrading"} /\ Retry(p) /\ tx' = RolledBack(p)
      /\ UNCHANGED <<db, org, staged, job>>
  BY DEF AttemptFails
<1>3. /\ pc' \in [Process -> Places] /\ tries' \in [Process -> 0..MaxAttempts]
      /\ pc'[p] \in {"connecting", "migrating", "failed"}
      /\ \A q \in Process \ {p} : pc'[q] = pc[q]
  BY <1>1, <1>2, RetryGoes
<1>4. /\ tx' \in Transaction \cup {NONE} /\ UpgradeInv'
      /\ \A q \in Process \ {p} : Owns(q) => Owns(q)'
  BY <1>2, <1>3, RolledBackFields
<1>5. TypeOK' BY <1>1, <1>2, <1>3, <1>4 DEF TypeOK, Places
<1>6. InOrder(db)' /\ DatabaseKept BY <1>1, <1>2, DatabaseSame
<1>7. staged[p] = NONE /\ staged'[p] = NONE /\ org' # p
  BY <1>1, <1>2 DEF DecisionInv, PlaceInv
<1>8. DecisionInv(p)' /\ PlaceInv(p)'
  BY <1>3, <1>7 DEF DecisionInv, PlaceInv, Past
<1>9. \A q \in Process \ {p} : Undisturbed(q)
  BY <1>2, <1>3, <1>4 DEF Undisturbed
<1> QED BY <1>4, <1>5, <1>6, <1>8, <1>9, OthersKept DEF IInv

LEMMA BeginUpgradeKeeps ==
    ASSUME IInv, NEW p \in Process, BeginUpgrade(p)
    PROVE  IInv'
<1>1. /\ TypeOK /\ InOrder(db) /\ UpgradeInv /\ DecisionInv(p) /\ PlaceInv(p)
      /\ db \in Database /\ pc \in [Process -> Places]
  BY DEF IInv, TypeOK, Places
<1> DEFINE t == [owner |-> p, view |-> db, pending |-> {}, locks |-> {}, rows |-> {},
                 refused |-> FALSE]
<1>2. /\ pc[p] = "migrating" /\ tx = NONE /\ tx' = t /\ pc' = [pc EXCEPT ![p] = "upgrading"]
      /\ UNCHANGED <<db, org, staged, job, tries>>
  BY DEF BeginUpgrade
<1>3. /\ t \in Transaction /\ t.owner = p /\ t.view = db /\ t.pending = {} /\ t.locks = {}
      /\ ~t.refused
  BY <1>1 DEF Transaction
<1> HIDE DEF t
<1>4. /\ pc' \in [Process -> Places] /\ pc'[p] = "upgrading"
      /\ \A q \in Process \ {p} : pc'[q] = pc[q]
  BY <1>1, <1>2 DEF Places
<1>5. TypeOK' BY <1>1, <1>2, <1>3, <1>4 DEF TypeOK, Places
<1>6. InOrder(db)' /\ DatabaseKept BY <1>1, <1>2, DatabaseSame
<1>7. t # NONE BY <1>3, NoneAssumption
<1>8. UpgradeInv'
  <2>1. Fits(t) BY <1>1, <1>3 DEF Fits
  <2>2. Follows(db, t.view, t.locks, t.rows) BY <1>3, CarriesItself
  <2> QED BY <1>2, <1>3, <1>4, <2>1, <2>2 DEF UpgradeInv
<1>9. staged[p] = NONE /\ staged'[p] = NONE /\ org' # p
  BY <1>1, <1>2 DEF DecisionInv, PlaceInv
<1>10. DecisionInv(p)' /\ PlaceInv(p)'
  BY <1>2, <1>3, <1>4, <1>7, <1>9 DEF DecisionInv, PlaceInv, Past, Owns
<1>11. \A q \in Process \ {p} : Undisturbed(q)
  BY <1>2, <1>4 DEF Undisturbed, Owns
<1> QED BY <1>5, <1>6, <1>8, <1>10, <1>11, OthersKept DEF IInv

LEMMA MigrateKeeps ==
    ASSUME IInv, NEW p \in Process, Migrate(p)
    PROVE  IInv'
<1>1. /\ TypeOK /\ InOrder(db) /\ UpgradeInv /\ DecisionInv(p) /\ PlaceInv(p)
      /\ job \in [Process -> Job]
  BY DEF IInv, TypeOK
<1>2. /\ pc[p] = "upgrading" /\ ~tx.refused /\ Outstanding(p) # {}
      /\ UNCHANGED <<db, org, staged, job, pc, tries>>
  BY DEF Migrate
<1>3. tx # NONE /\ tx.owner = p /\ Fits(tx) /\ Follows(db, tx.view, tx.locks, tx.rows)
  BY <1>1, <1>2 DEF PlaceInv, UpgradeInv, Owns
<1>4. PICK n \in 0..Latest : tx.view.versions = 1..n
  BY <1>3 DEF Fits, InOrder, VersionsInOrder
<1>5. n \in 0..9 /\ Least(Outstanding(p)) = n + 1
  <2>1. job[p].release \in 2..Latest BY <1>1 DEF Job
  <2>2. Outstanding(p) = (1..job[p].release) \ (1..n) BY <1>4 DEF Outstanding, Known
  <2> QED BY <1>2, <2>1, <2>2, NextMigration
<1> DEFINE u == After(n + 1, tx)
<1>6. /\ tx' = u
      /\ (orderedMigrations(n + 1, tx).locks \ tx.locks) \cap AccountTables # {}
            => \A q \in Process : staged[q] = NONE
  BY <1>5, Zenon DEF Migrate, After
<1>7. Advances(tx, u) BY <1>3, <1>4, <1>5, MigrationFits
<1>8. u.locks = orderedMigrations(n + 1, tx).locks
  BY <1>7 DEF After
<1> HIDE DEF u
<1>9. /\ Fits(u) /\ u \in Transaction /\ u # NONE /\ u.owner = p
      /\ Follows(db, u.view, u.locks, u.rows)
  BY <1>3, <1>7, FollowsOn, NoneAssumption DEF Advances, Fits
<1>10. TypeOK' BY <1>1, <1>2, <1>6, <1>9 DEF TypeOK
<1>11. InOrder(db)' /\ DatabaseKept BY <1>1, <1>2, DatabaseSame
<1>12. UpgradeInv'
  <2>1. u.locks \cap AccountTables # {} => \A q \in Process : staged[q] = NONE
    <3>1. tx.locks \cap AccountTables # {} => \A q \in Process : staged[q] = NONE
      BY <1>1, <1>3 DEF UpgradeInv
    <3> QED BY <1>6, <1>8, <3>1
  <2> QED BY <1>2, <1>6, <1>9, <2>1 DEF UpgradeInv
<1>13. \A q \in Process : Undisturbed(q)
  BY <1>2, <1>3, <1>6, <1>9 DEF Undisturbed, Owns
<1>14. DecisionInv(p)' /\ PlaceInv(p)'
  <2>1. Undisturbed(p) BY <1>13
  <2> QED BY <1>11, <2>1, DecisionKept, PlaceKept DEF DatabaseKept
<1> QED BY <1>10, <1>11, <1>12, <1>13, <1>14, OthersKept DEF IInv

LEMMA CommitUpgradeKeeps ==
    ASSUME IInv, NEW p \in Process, CommitUpgrade(p)
    PROVE  IInv'
<1>1. /\ TypeOK /\ InOrder(db) /\ UpgradeInv /\ DecisionInv(p) /\ PlaceInv(p)
      /\ job \in [Process -> Job]
  BY DEF IInv, TypeOK
<1>2. /\ pc[p] = "upgrading" /\ Outstanding(p) = {}
      /\ db' = tx.view /\ tx' = NONE
      /\ Goto(p, AfterMigrations(p)) \/ Retry(p)
      /\ UNCHANGED <<org, staged, job>>
  BY DEF CommitUpgrade
<1>3. tx # NONE /\ tx.owner = p /\ Fits(tx) /\ Follows(db, tx.view, tx.locks, tx.rows)
  BY <1>1, <1>2 DEF PlaceInv, UpgradeInv, Owns
<1>4. /\ pc' \in [Process -> Places] /\ tries' \in [Process -> 0..MaxAttempts]
      /\ pc'[p] \in {"connecting", "migrating", "failed"} \/ pc'[p] = AfterMigrations(p)
      /\ \A q \in Process \ {p} : pc'[q] = pc[q]
  <2>1. CASE Goto(p, AfterMigrations(p))
    <3>1. AfterMigrations(p) \in Places BY <1>1, AfterGoes DEF Places
    <3> QED BY <1>1, <2>1, <3>1, GotoGoes
  <2>2. CASE Retry(p) BY <1>1, <2>2, RetryGoes
  <2> QED BY <1>2, <2>1, <2>2
<1>5. db' \in Database /\ InOrder(db)' BY <1>2, <1>3 DEF Fits, Transaction
<1>6. TypeOK' BY <1>1, <1>2, <1>4, <1>5 DEF TypeOK, Places
<1>7. DatabaseKept
  <2>1. Carries(db, db') BY <1>2, <1>3 DEF Follows
  <2>2. ASSUME 6 \in db.versions, NEW a \in Account, ActiveSuperadmin(db', a)
        PROVE  ActiveSuperadmin(db, a)
    <3>1. 6 \in db'.versions /\ (Authority(db, a) <=> Authority(db', a))
      BY <2>1, <2>2 DEF Carries, AccountCarried
    <3> QED BY <2>2, <3>1 DEF Authority, ActiveSuperadmin
  <2> QED BY <1>2, <2>1, <2>2 DEF DatabaseKept, Carries, AccountCarried
<1>8. UpgradeInv' BY <1>2 DEF UpgradeInv
<1>9. staged[p] = NONE /\ staged'[p] = NONE /\ org' # p
  BY <1>1, <1>2 DEF DecisionInv, PlaceInv
<1>10. DecisionInv(p)' BY <1>9 DEF DecisionInv
<1>11. PlaceInv(p)'
  <2>1. /\ OneShot(p)' <=> OneShot(p)
        /\ Known(p)' = Known(p)
    BY <1>2 DEF OneShot, Known
  <2>2. Known(p) \subseteq db'.versions BY <1>2 DEF Outstanding
  <2> QED BY <1>1, <1>4, <1>9, <2>1, <2>2, AfterGoes DEF PlaceInv, Past
<1>12. \A q \in Process \ {p} : Undisturbed(q)
  BY <1>2, <1>3, <1>4 DEF Undisturbed, Owns
<1> QED BY <1>5, <1>6, <1>7, <1>8, <1>10, <1>11, <1>12, OthersKept DEF IInv

(* A decision is taken where nobody else has one open and where no          *)
(* migration has locked the accounts.                                       *)
LEMMA DecisionTaken ==
    ASSUME IInv, NEW p \in Process, pc[p] \in {"deciding", "resetting"}, org = NONE,
           NEW what \in Staged, UNCHANGED <<db, tx, job, tries>>,
           AccountsOpen, org' = p, staged' = [staged EXCEPT ![p] = what],
           pc' = [pc EXCEPT ![p] = "committing"],
           ~what.reset => what.create = Missing(p),
           what.reset => /\ what.create = {} /\ Missing(p) = {}
                         /\ job[p].kind = "seed" /\ job[p].reset,
           job[p].kind = "first" /\ what.create # {} =>
              /\ 6 \in db.versions
              /\ \A a \in Account : ~ActiveSuperadmin(db, a)
    PROVE  IInv'
<1>1. /\ TypeOK /\ InOrder(db) /\ UpgradeInv /\ DecisionInv(p) /\ PlaceInv(p)
      /\ job \in [Process -> Job] /\ pc \in [Process -> Places]
      /\ staged \in [Process -> Staged \cup {NONE}]
  BY DEF IInv, TypeOK, Places
<1>2. /\ pc' \in [Process -> Places] /\ pc'[p] = "committing"
      /\ staged' \in [Process -> Staged \cup {NONE}] /\ staged'[p] = what /\ what # NONE
      /\ \A q \in Process \ {p} : pc'[q] = pc[q] /\ staged'[q] = staged[q]
  BY <1>1, NoneAssumption DEF Places
<1>3. TypeOK' BY <1>1, <1>2 DEF TypeOK, Places
<1>4. InOrder(db)' /\ DatabaseKept BY <1>1, DatabaseSame
<1>5. ~Owns(p) BY <1>1 DEF UpgradeInv, Owns
<1>6. UpgradeInv'
  <2>1. tx # NONE /\ tx.locks \cap AccountTables # {} => \A q \in Process : staged'[q] = NONE
    BY DEF AccountsOpen
  <2> QED BY <1>2, <1>5, <2>1, UpgradeSame
<1>7. /\ OneShot(p)' <=> OneShot(p)
      /\ Migrates(p)' <=> Migrates(p)
      /\ Known(p)' = Known(p) /\ Missing(p)' = Missing(p)
  BY DEF OneShot, Migrates, Known, Missing, Wanted
<1>8. DecisionInv(p)'
  <2>1. \A a \in Account : ActiveSuperadmin(db, a)' <=> ActiveSuperadmin(db, a)
    BY DEF ActiveSuperadmin
  <2> QED BY <1>2, <1>7, <2>1 DEF DecisionInv
<1>9. PlaceInv(p)'
  BY <1>1, <1>2, <1>7 DEF PlaceInv, Past
<1>10. \A q \in Process \ {p} : Undisturbed(q)
  <2> SUFFICES ASSUME NEW q \in Process \ {p} PROVE org' = q <=> org = q
    BY <1>2 DEF Undisturbed, Owns
  <2> QED BY NoneAssumption
<1> QED BY <1>3, <1>4, <1>6, <1>8, <1>9, <1>10, OthersKept DEF IInv

(* Giving up leaves nothing behind.                                         *)
LEMMA GivesUp ==
    ASSUME IInv, NEW p \in Process, pc[p] \in {"deciding", "resetting", "serving"},
           NEW place \in {"failed", "done"},
           place = "done" => pc[p] = "serving",
           UNCHANGED <<db, tx, org, staged, job>>, tries' \in [Process -> 0..MaxAttempts],
           pc' = [pc EXCEPT ![p] = place]
    PROVE  IInv'
<1>1. /\ TypeOK /\ InOrder(db) /\ UpgradeInv /\ DecisionInv(p) /\ PlaceInv(p)
      /\ pc \in [Process -> Places]
  BY DEF IInv, TypeOK, Places
<1>2. /\ pc' \in [Process -> Places] /\ pc'[p] = place
      /\ \A q \in Process \ {p} : pc'[q] = pc[q]
  BY <1>1 DEF Places
<1>3. TypeOK' BY <1>1, <1>2 DEF TypeOK, Places
<1>4. InOrder(db)' /\ DatabaseKept BY <1>1, DatabaseSame
<1>5. ~Owns(p) BY <1>1 DEF UpgradeInv, Owns
<1>6. UpgradeInv'
  <2>1. tx # NONE /\ tx.locks \cap AccountTables # {} => \A q \in Process : staged'[q] = NONE
    BY <1>1 DEF UpgradeInv
  <2> QED BY <1>2, <1>5, <2>1, UpgradeSame
<1>7. staged[p] = NONE /\ staged'[p] = NONE /\ org' # p
  BY <1>1 DEF DecisionInv, PlaceInv
<1>8. DecisionInv(p)' BY <1>7 DEF DecisionInv
<1>9. PlaceInv(p)'
  <2>1. /\ OneShot(p)' <=> OneShot(p)
        /\ Migrates(p)' <=> Migrates(p)
        /\ Known(p)' = Known(p) /\ Missing(p)' = Missing(p)
    BY DEF OneShot, Migrates, Known, Missing, Wanted
  <2> QED BY <1>1, <1>2, <1>7, <2>1 DEF PlaceInv, Past
<1>10. \A q \in Process \ {p} : Undisturbed(q)
  BY <1>2 DEF Undisturbed, Owns
<1> QED BY <1>3, <1>4, <1>6, <1>8, <1>9, <1>10, OthersKept DEF IInv

LEMMA DecideKeeps ==
    ASSUME IInv, NEW p \in Process, Decide(p)
    PROVE  IInv'
<1>1. /\ TypeOK /\ PlaceInv(p) /\ job \in [Process -> Job] /\ tries \in [Process -> 0..MaxAttempts]
  BY DEF IInv, TypeOK
<1>2. /\ pc[p] = "deciding" /\ org = NONE /\ AccountsOpen
      /\ UNCHANGED <<db, tx, job, tries>>
  BY DEF Decide, OrganizationFree
<1> DEFINE what == [create |-> Missing(p), reset |-> FALSE]
<1>3. CASE /\ (job[p].kind = "first" /\ AppliesFirst(p)) \/ (job[p].kind # "first" /\ Applies(p))
           /\ org' = p /\ staged' = [staged EXCEPT ![p] = what]
           /\ pc' = [pc EXCEPT ![p] = "committing"]
  <2>1. OneShot(p) BY <1>1, <1>2 DEF PlaceInv
  <2>2. what \in Staged BY <1>1, <2>1, WantedAccounts DEF Staged
  <2>3. what.create = Missing(p) /\ ~what.reset OBVIOUS
  <2>4. job[p].kind = "first" /\ what.create # {} =>
           /\ 6 \in db.versions
           /\ \A a \in Account : ~ActiveSuperadmin(db, a)
    BY <1>3, <2>3 DEF AppliesFirst
  <2> HIDE DEF what
  <2> QED BY <1>2, <1>3, <2>2, <2>3, <2>4, DecisionTaken
<1>4. CASE /\ pc' = [pc EXCEPT ![p] = "failed"]
           /\ UNCHANGED <<org, staged>>
  BY <1>1, <1>2, <1>4, GivesUp
<1> QED BY <1>3, <1>4 DEF Decide

LEMMA DecideResetKeeps ==
    ASSUME IInv, NEW p \in Process, DecideReset(p)
    PROVE  IInv'
<1>1. /\ TypeOK /\ PlaceInv(p) /\ tries \in [Process -> 0..MaxAttempts]
  BY DEF IInv, TypeOK
<1>2. /\ pc[p] = "resetting" /\ org = NONE /\ AccountsOpen
      /\ UNCHANGED <<db, tx, job, tries>>
  BY DEF DecideReset, OrganizationFree
<1> DEFINE what == [create |-> {}, reset |-> TRUE]
<1>3. CASE /\ org' = p /\ staged' = [staged EXCEPT ![p] = what]
           /\ pc' = [pc EXCEPT ![p] = "committing"]
  <2>1. what \in Staged /\ what.reset /\ what.create = {} BY DEF Staged
  <2>2. job[p].kind = "seed" /\ job[p].reset /\ Missing(p) = {} BY <1>1, <1>2 DEF PlaceInv
  <2> HIDE DEF what
  <2> QED BY <1>2, <1>3, <2>1, <2>2, DecisionTaken
<1>4. CASE /\ pc' = [pc EXCEPT ![p] = "failed"]
           /\ UNCHANGED <<org, staged>>
  BY <1>1, <1>2, <1>4, GivesUp
<1> QED BY <1>3, <1>4 DEF DecideReset

LEMMA ShutdownKeeps ==
    ASSUME IInv, NEW p \in Process, Shutdown(p)
    PROVE  IInv'
<1>1. TypeOK BY DEF IInv
<1>2. pc[p] = "serving" /\ Goto(p, "done") /\ UNCHANGED <<db, tx, org, staged, job>>
  BY DEF Shutdown, Serving
<1>3. tries' \in [Process -> 0..MaxAttempts]
  BY <1>1, <1>2, GotoGoes DEF Places
<1> QED BY <1>2, <1>3, GivesUp DEF Goto

LEMMA CrashKeeps ==
    ASSUME IInv, NEW p \in Process, Crash(p)
    PROVE  IInv'
<1>1. /\ TypeOK /\ InOrder(db) /\ UpgradeInv /\ DecisionInv(p) /\ PlaceInv(p)
      /\ staged \in [Process -> Staged \cup {NONE}] /\ org \in Process \cup {NONE}
  BY DEF IInv, TypeOK
<1>2. /\ Goto(p, "off") /\ tx' = RolledBack(p)
      /\ org' = IF org = p THEN NONE ELSE org
      /\ staged' = [staged EXCEPT ![p] = NONE]
      /\ UNCHANGED <<db, job>>
  BY DEF Crash
<1>3. /\ pc' \in [Process -> Places] /\ tries' \in [Process -> 0..MaxAttempts]
      /\ pc'[p] = "off" /\ \A q \in Process \ {p} : pc'[q] = pc[q]
  BY <1>1, <1>2, GotoGoes DEF Places
<1>4. /\ staged' \in [Process -> Staged \cup {NONE}] /\ staged'[p] = NONE
      /\ \A q \in Process \ {p} : staged'[q] = staged[q]
  BY <1>1, <1>2
<1>5. /\ tx' \in Transaction \cup {NONE} /\ UpgradeInv'
      /\ \A q \in Process \ {p} : Owns(q) => Owns(q)'
  <2>1. \A q \in Process : staged'[q] = staged[q] \/ staged'[q] = NONE BY <1>4
  <2> QED BY <1>2, <1>3, <2>1, RolledBackFields
<1>6. TypeOK' BY <1>1, <1>2, <1>3, <1>4, <1>5 DEF TypeOK, Places
<1>7. InOrder(db)' /\ DatabaseKept BY <1>1, <1>2, DatabaseSame
<1>8. org' # p /\ \A q \in Process \ {p} : org' = q <=> org = q
  BY <1>1, <1>2, NoneAssumption
<1>9. DecisionInv(p)' /\ PlaceInv(p)'
  BY <1>3, <1>4, <1>8 DEF DecisionInv, PlaceInv, Past
<1>10. \A q \in Process \ {p} : Undisturbed(q)
  BY <1>3, <1>4, <1>5, <1>8 DEF Undisturbed
<1> QED BY <1>5, <1>6, <1>7, <1>9, <1>10, OthersKept DEF IInv

(***************************************************************************)
(* What is written while an upgrade runs reaches the database and the view *)
(* alike, because it is let through only where the two are still equal.    *)
(***************************************************************************)
LEMMA AccountsWritten ==
    ASSUME IInv, AccountsOpen, NEW v,
           db' \in Database, db'.versions = db.versions, db'.made = db.made, db'.sales = db.sales,
           \A a \in Account : AccountInOrder(db', a),
           \A a \in Account : db.users[a] # NONE => db'.users[a] # NONE,
           tx = NONE => tx' = NONE,
           tx # NONE =>
              /\ tx' = [tx EXCEPT !.view = v] /\ v \in Database
              /\ v.versions = tx.view.versions /\ v.made = tx.view.made
              /\ v.sales = tx.view.sales
              /\ v.users = db'.users /\ v.members = db'.members
              /\ v.sessions = db'.sessions /\ v.fed = db'.fed,
           \A q \in Process : pc[q] = "upgrading" => pc'[q] = "upgrading"
    PROVE  /\ tx' \in Transaction \cup {NONE} /\ UpgradeInv' /\ InOrder(db')
           /\ \A q \in Process : Owns(q)' <=> Owns(q)
<1>1. UpgradeInv /\ InOrder(db) /\ tx \in Transaction \cup {NONE} /\ db \in Database
  BY DEF IInv, TypeOK
<1>2. InOrder(db')
  <2>1. VersionsInOrder(db') BY <1>1 DEF InOrder, VersionsInOrder
  <2>2. ASSUME NEW s \in Sale, db.sales[s] # NONE PROVE SaleInOrder(db', db.sales[s])
    <3>1. SaleInOrder(db, db.sales[s]) /\ db.sales[s].seller \in Account
      BY <1>1, <2>2 DEF InOrder, SalesInOrder, Database, SaleRow
    <3> QED BY <3>1 DEF SaleInOrder
  <2> QED BY <2>1, <2>2 DEF InOrder, SalesInOrder, AccountsInOrder
<1>3. CASE tx = NONE
  BY <1>2, <1>3 DEF UpgradeInv, Owns
<1>4. CASE tx # NONE
  <2>1. /\ pc[tx.owner] = "upgrading" /\ tx \in Transaction /\ tx.owner \in Process
        /\ Fits(tx) /\ Follows(db, tx.view, tx.locks, tx.rows)
        /\ tx.locks \cap AccountTables = {} /\ SameAccounts(db, tx.view)
    BY <1>1, <1>4 DEF UpgradeInv, AccountsOpen, Follows, Transaction
  <2>2. /\ tx' \in Transaction /\ tx'.view = v /\ tx'.owner = tx.owner /\ tx'.locks = tx.locks
        /\ tx'.rows = tx.rows /\ tx'.pending = tx.pending /\ ~tx'.refused
    BY <1>4, <2>1 DEF Transaction, Fits
  <2>3. /\ v.versions = tx.view.versions /\ v.made = tx.view.made
        /\ v.sales = tx.view.sales
        /\ v.users = db'.users /\ v.members = db'.members
        /\ v.sessions = db'.sessions /\ v.fed = db'.fed
    BY <1>4
  <2>4. InOrder(tx.view) /\ tx.view \in Database BY <2>1 DEF Fits, Transaction
  <2>5. InOrder(v)
    <3>1. VersionsInOrder(v) BY <2>3, <2>4 DEF InOrder, VersionsInOrder
    <3>2. ASSUME NEW s \in Sale, tx.view.sales[s] # NONE PROVE SaleInOrder(v, tx.view.sales[s])
      <4>1. /\ SaleInOrder(tx.view, tx.view.sales[s]) /\ tx.view.sales[s].seller \in Account
        BY <2>4, <3>2 DEF InOrder, SalesInOrder, Database, SaleRow
      <4>2. tx.view.users = db.users BY <2>1 DEF SameAccounts
      <4> QED BY <2>3, <4>1, <4>2 DEF SaleInOrder
    <3>3. ASSUME NEW a \in Account PROVE AccountInOrder(v, a)
      <4>1. AccountInOrder(db', a) OBVIOUS
      <4> QED BY <2>1, <2>3, <4>1 DEF AccountInOrder, SameAccounts
    <3> QED BY <2>3, <3>1, <3>2, <3>3 DEF InOrder, SalesInOrder, AccountsInOrder
  <2>6. Fits(tx')
    BY <2>1, <2>2, <2>3, <2>5 DEF Fits
  <2>7. Follows(db', v, tx.locks, tx.rows)
    <3>1. \A s \in Sale : SaleCarried(db', v, s)
      BY <2>1, <2>3 DEF Follows, Carries, SaleCarried, Paid
    <3>2. SameAccounts(db', v)
      BY <2>1, <2>3 DEF SameAccounts
    <3>3. \A a \in Account : AccountCarried(db', v, a)
      BY <3>2 DEF SameAccounts, AccountCarried, Authority
    <3>4. Carries(db', v)
      BY <2>1, <2>3, <3>1, <3>3 DEF Follows, Carries
    <3>5. "transactions" \notin tx.locks => SameSales(db', v, tx.rows)
      BY <2>1, <2>3 DEF Follows, SameSales
    <3> QED BY <3>2, <3>4, <3>5 DEF Follows
  <2>8. tx' # NONE BY <2>2, NoneAssumption
  <2>9. UpgradeInv'
    BY <2>1, <2>2, <2>6, <2>7 DEF UpgradeInv
  <2> QED BY <1>2, <1>4, <2>2, <2>8, <2>9 DEF Owns
<1> QED BY <1>3, <1>4

LEMMA SaleWritten ==
    ASSUME IInv, NEW s \in Sale, Unlocked(s), NEW row \in SaleRow, SaleInOrder(db, row),
           db' = [db EXCEPT !.sales[s] = row],
           tx' = IF tx = NONE THEN NONE ELSE [tx EXCEPT !.view = [@ EXCEPT !.sales[s] = row]],
           UNCHANGED <<org, staged, job, pc, tries>>
    PROVE  IInv'
<1>1. /\ TypeOK /\ UpgradeInv /\ InOrder(db) /\ tx \in Transaction \cup {NONE} /\ db \in Database
  BY DEF IInv, TypeOK
<1>2. /\ db' \in Database /\ db'.versions = db.versions /\ db'.made = db.made
      /\ db'.users = db.users /\ db'.members = db.members
      /\ db'.sessions = db.sessions /\ db'.fed = db.fed
      /\ db'.sales[s] = row /\ \A x \in Sale \ {s} : db'.sales[x] = db.sales[x]
  BY <1>1 DEF Database
<1>3. row # NONE BY NoneAssumption
<1>4. InOrder(db')
  <2>1. \A x \in Sale : db'.sales[x] # NONE => SaleInOrder(db, db'.sales[x])
    BY <1>1, <1>2 DEF InOrder, SalesInOrder
  <2>2. \A x \in Sale : db'.sales[x] # NONE => SaleInOrder(db', db'.sales[x])
    BY <1>2, <2>1 DEF SaleInOrder
  <2> QED BY <1>1, <1>2, <2>2 DEF InOrder, VersionsInOrder, SalesInOrder, AccountsInOrder, AccountInOrder
<1>5. DatabaseKept
  BY <1>2 DEF DatabaseKept, ActiveSuperadmin
<1>6. tx' \in Transaction \cup {NONE} /\ UpgradeInv' /\ \A q \in Process : Owns(q)' <=> Owns(q)
  <2>1. CASE tx = NONE
    BY <2>1 DEF UpgradeInv, Owns
  <2>2. CASE tx # NONE
    <3> DEFINE v == [tx.view EXCEPT !.sales[s] = row]
    <3>1. /\ pc[tx.owner] = "upgrading" /\ tx \in Transaction /\ tx.view \in Database
          /\ Fits(tx) /\ Follows(db, tx.view, tx.locks, tx.rows)
          /\ "transactions" \notin tx.locks /\ s \notin tx.rows
          /\ SameSales(db, tx.view, tx.rows)
          /\ tx.locks \cap AccountTables # {} => \A q \in Process : staged[q] = NONE
      BY <1>1, <2>2 DEF UpgradeInv, Unlocked, Follows, Transaction
    <3>2. /\ v \in Database /\ v.versions = tx.view.versions /\ v.made = tx.view.made
          /\ v.users = tx.view.users /\ v.members = tx.view.members
          /\ v.sessions = tx.view.sessions /\ v.fed = tx.view.fed
          /\ v.sales[s] = row /\ \A x \in Sale \ {s} : v.sales[x] = tx.view.sales[x]
      BY <3>1 DEF Database
    <3>3. tx' = [tx EXCEPT !.view = v] BY <2>2
    <3> HIDE DEF v
    <3>4. /\ tx' \in Transaction /\ tx'.view = v /\ tx'.owner = tx.owner /\ tx'.locks = tx.locks
          /\ tx'.rows = tx.rows /\ tx'.pending = tx.pending /\ ~tx'.refused
      BY <3>1, <3>2, <3>3 DEF Transaction, Fits
    <3>5. InOrder(tx.view) BY <3>1 DEF Fits
    <3>6. SaleInOrder(v, row)
      <4>1. row.seller \in Account BY DEF SaleRow
      <4>2. db.users[row.seller] = NONE <=> tx.view.users[row.seller] = NONE
        BY <3>1, <4>1 DEF Follows, Carries, AccountCarried
      <4> QED BY <3>1, <3>2, <4>2 DEF SaleInOrder, SameSales
    <3>7. InOrder(v)
      <4>1. \A x \in Sale : v.sales[x] # NONE => SaleInOrder(v, v.sales[x])
        <5> SUFFICES ASSUME NEW x \in Sale \ {s}, v.sales[x] # NONE
                     PROVE  SaleInOrder(v, v.sales[x])
          BY <3>2, <3>6
        <5>1. SaleInOrder(tx.view, v.sales[x]) BY <3>2, <3>5 DEF InOrder, SalesInOrder
        <5> QED BY <3>2, <5>1 DEF SaleInOrder
      <4> QED BY <3>2, <3>5, <4>1 DEF InOrder, VersionsInOrder, SalesInOrder, AccountsInOrder, AccountInOrder
    <3>8. Fits(tx')
      BY <3>1, <3>2, <3>4, <3>7 DEF Fits
    <3>9. Follows(db', v, tx.locks, tx.rows)
      <4>1. \A x \in Sale : SaleCarried(db', v, x)
        <5> SUFFICES ASSUME NEW x \in Sale PROVE SaleCarried(db', v, x)
          OBVIOUS
        <5>1. CASE x = s
          BY <1>2, <1>3, <3>1, <3>2, <5>1 DEF SaleCarried, Paid, SameSales
        <5>2. CASE x # s
          BY <1>2, <3>1, <3>2, <5>2 DEF SaleCarried, Paid, Follows, Carries
        <5> QED BY <5>1, <5>2
      <4>2. \A a \in Account : AccountCarried(db', v, a)
        BY <1>2, <3>1, <3>2 DEF Follows, Carries, AccountCarried, Authority
      <4>3. Carries(db', v)
        BY <1>2, <3>1, <3>2, <4>1, <4>2 DEF Follows, Carries
      <4>4. SameSales(db', v, tx.rows)
        BY <1>2, <3>1, <3>2 DEF SameSales
      <4>5. tx.locks \cap AccountTables = {} => SameAccounts(db', v)
        BY <1>2, <3>1, <3>2 DEF Follows, SameAccounts
      <4> QED BY <4>3, <4>4, <4>5 DEF Follows
    <3>10. tx' # NONE BY <3>4, NoneAssumption
    <3>11. UpgradeInv'
      BY <3>1, <3>4, <3>8, <3>9 DEF UpgradeInv
    <3> QED BY <2>2, <3>4, <3>10, <3>11 DEF Owns
  <2> QED BY <2>1, <2>2
<1>7. TypeOK' BY <1>1, <1>2, <1>6 DEF TypeOK
<1>8. \A q \in Process : Undisturbed(q) BY <1>6 DEF Undisturbed
<1>9. \A q \in Process : DecisionInv(q)' /\ PlaceInv(q)'
  BY <1>5, <1>8, PlaceKept, DecisionKept DEF DatabaseKept
<1> QED BY <1>4, <1>6, <1>7, <1>9 DEF IInv

(* A replica writes only what fits the schema that it finds.                *)
LEMMA AcceptedVersions ==
    ASSUME NEW p \in Process, job \in [Process -> Job], Accepted(p)
    PROVE  /\ job[p].release \in 2..Latest
           /\ 2 \in db.versions
           /\ job[p].release >= 4 => 4 \in db.versions
           /\ job[p].release = Latest => 6 \in db.versions
<1> DEFINE r == job[p].release
           S == {r, 8}
<1>1. r \in 2..Latest BY DEF Job
<1>2. PICK x : x = Least(S) OBVIOUS
<1>3. \E m \in S : \A y \in S : m <= y BY <1>1 DEF Latest
<1>4. x \in S /\ \A y \in S : x <= y BY <1>2, <1>3 DEF Least
<1>5. 1..x \subseteq db.versions BY <1>2 DEF Accepted
<1>6. x >= 2 /\ (r >= 4 => x >= 4) /\ (r = Latest => x >= 6) BY <1>1, <1>4 DEF Latest
<1> QED BY <1>1, <1>4, <1>5, <1>6 DEF Latest

(* What is stored is in order, the trigger included.                        *)
LEMMA StoreKeeps ==
    ASSUME IInv, NEW s \in Sale, Unlocked(s), NEW row \in SaleRow, Store(s, row),
           ConfirmationShape(row), row.status # NONE, 2 \in db.versions,
           db.users[row.seller] # NONE,
           4 \notin db.versions => row.amount = NONE,
           4 \in db.versions =>
              \/ row.amount = row.total
              \/ db.sales[s] = NONE /\ row.amount = NONE
              \/ db.sales[s] # NONE /\ row.amount = db.sales[s].amount,
           UNCHANGED <<org, staged, job, pc, tries>>
    PROVE  IInv'
<1> DEFINE stored == IF 4 \in db.versions
                     THEN maintain_legacy_production_payment_amount(db.sales[s], row) ELSE row
<1>1. /\ db' = [db EXCEPT !.sales[s] = stored]
      /\ tx' = IF tx = NONE THEN NONE ELSE [tx EXCEPT !.view = [@ EXCEPT !.sales[s] = stored]]
  BY Zenon DEF Store, Publish
<1>2. stored \in SaleRow /\ SaleInOrder(db, stored)
  <2>1. CASE 4 \notin db.versions
    BY <2>1 DEF SaleInOrder
  <2>2. CASE 4 \in db.versions
    <3>1. stored = row \/ stored = [row EXCEPT !.amount = row.total]
      BY <2>2 DEF maintain_legacy_production_payment_amount
    <3>2. stored.amount = row.total
      <4>1. CASE row.amount = row.total
        BY <3>1, <4>1 DEF SaleRow
      <4>2. CASE db.sales[s] = NONE /\ row.amount = NONE
        <5>1. stored = [row EXCEPT !.amount = row.total]
          BY <2>2, <4>2 DEF maintain_legacy_production_payment_amount
        <5> HIDE DEF stored
        <5> QED BY <5>1 DEF SaleRow
      <4>3. CASE db.sales[s] # NONE /\ row.amount = db.sales[s].amount /\ row.amount # row.total
        <5>1. db.sales[s].amount = db.sales[s].total
          BY <2>2, <4>3 DEF IInv, InOrder, SalesInOrder, SaleInOrder
        <5>2. stored = [row EXCEPT !.amount = row.total]
          BY <2>2, <4>3, <5>1 DEF maintain_legacy_production_payment_amount
        <5> HIDE DEF stored
        <5> QED BY <5>2 DEF SaleRow
      <4> QED BY <2>2, <4>1, <4>2, <4>3
    <3> HIDE DEF stored
    <3>3. /\ stored \in SaleRow /\ stored.rev = row.rev /\ stored.total = row.total
          /\ stored.seller = row.seller /\ stored.status = row.status
          /\ stored.confirmed = row.confirmed
      BY <3>1 DEF SaleRow
    <3> QED BY <2>2, <3>2, <3>3 DEF SaleInOrder, ConfirmationShape
  <2> QED BY <2>1, <2>2
<1> HIDE DEF stored
<1> QED BY <1>1, <1>2, SaleWritten

LEMMA CreateSaleKeeps ==
    ASSUME IInv, NEW p \in Process, NEW s \in Sale, NEW a \in Account, NEW total \in 1..2,
           CreateSale(p, s, a, total)
    PROVE  IInv'
<1> DEFINE release == job[p].release
           row == [rev |-> 1, total |-> total, seller |-> a,
                   amount |-> IF release < 4 THEN NONE ELSE total,
                   status |-> IF release < 7 THEN "pending" ELSE "success",
                   confirmed |-> IF release < 7 THEN NONE ELSE 1]
<1>1. /\ Accepted(p) /\ Unlocked(s) /\ db.sales[s] = NONE /\ db.users[a] # NONE
      /\ Store(s, row) /\ UNCHANGED <<org, staged, job, pc, tries>>
  BY DEF CreateSale, Writes
<1>2. /\ release \in 2..Latest /\ 2 \in db.versions /\ (release >= 4 => 4 \in db.versions)
  BY <1>1, AcceptedVersions DEF IInv, TypeOK
<1> HIDE DEF release
<1>3. row \in SaleRow BY DeploymentAssumption DEF SaleRow
<1>4. /\ ConfirmationShape(row) /\ row.status # NONE /\ row.seller = a
      /\ row.total = total /\ row.amount = IF release < 4 THEN NONE ELSE total
  BY NoneAssumption DEF ConfirmationShape
<1> HIDE DEF row
<1>5. release < 4 \/ release >= 4 BY <1>2 DEF Latest
<1>6. 4 \notin db.versions => row.amount = NONE BY <1>2, <1>4, <1>5
<1>7. row.amount = row.total \/ (db.sales[s] = NONE /\ row.amount = NONE) BY <1>1, <1>4
<1> QED BY <1>1, <1>2, <1>3, <1>4, <1>6, <1>7, StoreKeeps

LEMMA CorrectSaleKeeps ==
    ASSUME IInv, NEW p \in Process, NEW s \in Sale, NEW total \in 1..2,
           CorrectSale(p, s, total)
    PROVE  IInv'
<1> DEFINE release == job[p].release
           old == db.sales[s]
           row == [old EXCEPT !.rev = @ + 1, !.total = total,
                      !.amount = IF release < 4 THEN @ ELSE total,
                      !.status = IF release < 7 THEN "pending" ELSE "success",
                      !.confirmed = IF release < 7 THEN NONE ELSE old.rev + 1]
<1>1. /\ Accepted(p) /\ Unlocked(s) /\ old # NONE /\ old.rev < MaxRevision
      /\ Store(s, row) /\ UNCHANGED <<org, staged, job, pc, tries>>
  BY DEF CorrectSale, Writes
<1>2. /\ release \in 2..Latest /\ 2 \in db.versions /\ (release >= 4 => 4 \in db.versions)
  BY <1>1, AcceptedVersions DEF IInv, TypeOK
<1>3. old \in SaleRow /\ SaleInOrder(db, old)
  BY <1>1 DEF IInv, TypeOK, Database, InOrder, SalesInOrder
<1> HIDE DEF release, old
<1>4. old.rev + 1 \in 1..MaxRevision BY <1>1, <1>3, DeploymentAssumption DEF SaleRow
<1>5. row \in SaleRow BY <1>3, <1>4 DEF SaleRow
<1>6. /\ ConfirmationShape(row) /\ row.status # NONE /\ row.seller = old.seller
      /\ row.total = total /\ row.amount = IF release < 4 THEN old.amount ELSE total
  BY <1>3, NoneAssumption DEF ConfirmationShape, SaleRow
<1> HIDE DEF row
<1>7. release < 4 \/ release >= 4 BY <1>2 DEF Latest
<1>8. db.users[row.seller] # NONE BY <1>3, <1>6 DEF SaleInOrder
<1>9. 4 \notin db.versions => row.amount = NONE BY <1>2, <1>3, <1>6, <1>7 DEF SaleInOrder
<1>10. row.amount = row.total \/ (db.sales[s] # NONE /\ row.amount = db.sales[s].amount)
  BY <1>1, <1>6 DEF old
<1> QED BY <1>1, <1>2, <1>5, <1>6, <1>8, <1>9, <1>10, StoreKeeps

LEMMA SettlePaymentKeeps ==
    ASSUME IInv, NEW p \in Process, NEW s \in Sale, NEW status \in {"success", "failed"},
           SettlePayment(p, s, status)
    PROVE  IInv'
<1> DEFINE old == db.sales[s]
           row == [old EXCEPT !.status = status,
                              !.confirmed = IF status = "success" THEN old.rev ELSE NONE]
<1>1. /\ Accepted(p) /\ Unlocked(s) /\ old # NONE
      /\ Store(s, row) /\ UNCHANGED <<org, staged, job, pc, tries>>
  BY DEF SettlePayment, Writes
<1>2. 2 \in db.versions
  BY <1>1, AcceptedVersions DEF IInv, TypeOK
<1>3. old \in SaleRow /\ SaleInOrder(db, old)
  BY <1>1 DEF IInv, TypeOK, Database, InOrder, SalesInOrder
<1> HIDE DEF old
<1>4. row \in SaleRow BY <1>3 DEF SaleRow
<1>5. /\ ConfirmationShape(row) /\ row.status # NONE /\ row.seller = old.seller
      /\ row.total = old.total /\ row.amount = old.amount
  BY <1>3, NoneAssumption DEF ConfirmationShape, SaleRow
<1> HIDE DEF row
<1>6. db.users[row.seller] # NONE BY <1>3, <1>5 DEF SaleInOrder
<1>7. 4 \notin db.versions => row.amount = NONE BY <1>3, <1>5 DEF SaleInOrder
<1>8. db.sales[s] # NONE /\ row.amount = db.sales[s].amount BY <1>1, <1>5 DEF old
<1> QED BY <1>1, <1>2, <1>4, <1>5, <1>6, <1>7, <1>8, StoreKeeps

(* Databases with other accounts.                                           *)
WithAccounts(d, users, members, sessions, fed) ==
    [d EXCEPT !.users = users, !.members = members, !.sessions = sessions, !.fed = fed]

LEMMA WithAccountsFields ==
    ASSUME NEW d \in Database, NEW users \in [Account -> UserRow \cup {NONE}],
           NEW members \in [Account -> {"admin", "superadmin", "inactive", NONE}],
           NEW sessions \in [Account -> {"none", "live", "revoked"}],
           NEW fed \in [Account -> FeedRow \cup {NONE}]
    PROVE  LET e == WithAccounts(d, users, members, sessions, fed) IN
           /\ e \in Database /\ e.versions = d.versions /\ e.made = d.made /\ e.sales = d.sales
           /\ e.users = users /\ e.members = members /\ e.sessions = sessions /\ e.fed = fed
BY DEF WithAccounts, Database

LEMMA AccountsReplaced ==
    ASSUME IInv, AccountsOpen, NEW users \in [Account -> UserRow \cup {NONE}],
           NEW members \in [Account -> {"admin", "superadmin", "inactive", NONE}],
           NEW sessions \in [Account -> {"none", "live", "revoked"}],
           NEW fed \in [Account -> FeedRow \cup {NONE}],
           db' = WithAccounts(db, users, members, sessions, fed),
           tx' = IF tx = NONE THEN NONE
                 ELSE [tx EXCEPT !.view = WithAccounts(tx.view, users, members, sessions, fed)],
           \A a \in Account :
              /\ sessions[a] # "none" => users[a] # NONE
              /\ users[a] # NONE =>
                    /\ (5 \notin db.versions => ~users[a].platform)
                    /\ (6 \in db.versions => fed[a] = Projection(users[a]))
              /\ db.users[a] # NONE => users[a] # NONE,
           \A q \in Process : pc[q] = "upgrading" => pc'[q] = "upgrading"
    PROVE  /\ db' \in Database /\ tx' \in Transaction \cup {NONE} /\ UpgradeInv' /\ InOrder(db')
           /\ db'.versions = db.versions /\ db'.users = users /\ db'.sessions = sessions
           /\ \A q \in Process : Owns(q)' <=> Owns(q)
<1>1. db \in Database /\ tx \in Transaction \cup {NONE} BY DEF IInv, TypeOK
<1>2. /\ db' \in Database /\ db'.versions = db.versions /\ db'.made = db.made
      /\ db'.sales = db.sales /\ db'.users = users /\ db'.members = members
      /\ db'.sessions = sessions /\ db'.fed = fed
  BY <1>1, WithAccountsFields
<1>3. \A a \in Account : AccountInOrder(db', a)
  BY <1>2 DEF AccountInOrder
<1> DEFINE v == WithAccounts(tx.view, users, members, sessions, fed)
<1>4. ASSUME tx # NONE
      PROVE  /\ tx' = [tx EXCEPT !.view = v] /\ v \in Database
             /\ v.versions = tx.view.versions /\ v.made = tx.view.made
             /\ v.sales = tx.view.sales
             /\ v.users = users /\ v.members = members
             /\ v.sessions = sessions /\ v.fed = fed
  <2>1. tx.view \in Database BY <1>1, <1>4 DEF Transaction
  <2>2. tx' = [tx EXCEPT !.view = v] BY <1>4
  <2> QED BY <2>1, <2>2, WithAccountsFields
<1> HIDE DEF v
<1> QED BY <1>2, <1>3, <1>4, AccountsWritten

(* An account that exists changes.                                          *)
LEMMA AccountChanged ==
    ASSUME IInv, AccountsOpen, NEW a \in Account, 6 \in db.versions, db.users[a] # NONE,
           NEW user \in UserRow, NEW fed \in FeedRow, fed = Projection(user),
           NEW session \in {"none", "live", "revoked"},
           user.active /\ user.role = "superadmin" => ActiveSuperadmin(db, a),
           db' = WithAccounts(db, [db.users EXCEPT ![a] = user], db.members,
                              [db.sessions EXCEPT ![a] = session], [db.fed EXCEPT ![a] = fed]),
           tx' = IF tx = NONE THEN NONE
                 ELSE [tx EXCEPT !.view =
                        WithAccounts(tx.view, [db.users EXCEPT ![a] = user], db.members,
                              [db.sessions EXCEPT ![a] = session], [db.fed EXCEPT ![a] = fed])],
           UNCHANGED <<org, staged, job, pc, tries>>
    PROVE  IInv'
<1> DEFINE users == [db.users EXCEPT ![a] = user]
           sessions == [db.sessions EXCEPT ![a] = session]
           feed == [db.fed EXCEPT ![a] = fed]
<1>1. TypeOK /\ db \in Database /\ InOrder(db) BY DEF IInv, TypeOK
<1>2. /\ users \in [Account -> UserRow \cup {NONE}]
      /\ db.members \in [Account -> {"admin", "superadmin", "inactive", NONE}]
      /\ sessions \in [Account -> {"none", "live", "revoked"}]
      /\ feed \in [Account -> FeedRow \cup {NONE}]
  BY <1>1 DEF Database
<1>3. user # NONE BY NoneAssumption
<1>4. 5 \in db.versions
  BY <1>1 DEF InOrder, VersionsInOrder
<1>5. /\ users[a] = user /\ sessions[a] = session /\ feed[a] = fed
      /\ \A b \in Account \ {a} : /\ users[b] = db.users[b] /\ sessions[b] = db.sessions[b]
                                  /\ feed[b] = db.fed[b]
  BY <1>1 DEF Database
<1>6. \A b \in Account :
        /\ sessions[b] # "none" => users[b] # NONE
        /\ users[b] # NONE =>
              /\ (5 \notin db.versions => ~users[b].platform)
              /\ (6 \in db.versions => feed[b] = Projection(users[b]))
        /\ db.users[b] # NONE => users[b] # NONE
  <2> HIDE DEF users, sessions, feed
  <2> SUFFICES ASSUME NEW b \in Account
               PROVE  /\ sessions[b] # "none" => users[b] # NONE
                      /\ users[b] # NONE => feed[b] = Projection(users[b])
                      /\ db.users[b] # NONE => users[b] # NONE
    BY <1>4
  <2>1. CASE b = a BY <1>3, <1>5, <2>1
  <2>2. CASE b # a BY <1>1, <1>5, <2>2 DEF InOrder, AccountsInOrder, AccountInOrder
  <2> QED BY <2>1, <2>2
<1>7. /\ db' = WithAccounts(db, users, db.members, sessions, feed)
      /\ tx' = IF tx = NONE THEN NONE
               ELSE [tx EXCEPT !.view = WithAccounts(tx.view, users, db.members, sessions, feed)]
  OBVIOUS
<1> HIDE DEF users, sessions, feed
<1>8. /\ db' \in Database /\ tx' \in Transaction \cup {NONE} /\ UpgradeInv' /\ InOrder(db')
      /\ db'.versions = db.versions /\ db'.users = users
      /\ \A q \in Process : Owns(q)' <=> Owns(q)
  <2>1. \A q \in Process : pc[q] = "upgrading" => pc'[q] = "upgrading" OBVIOUS
  <2> QED BY ONLY IInv, AccountsOpen, <1>2, <1>6, <1>7, <2>1, AccountsReplaced
<1>9. TypeOK' BY <1>1, <1>8 DEF TypeOK
<1>10. DatabaseKept
  <2>1. ASSUME NEW b \in Account
        PROVE  /\ users[b] = NONE <=> db.users[b] = NONE
               /\ ActiveSuperadmin(db', b) => ActiveSuperadmin(db, b)
    BY <1>3, <1>5, <1>8 DEF ActiveSuperadmin
  <2> QED BY <1>8, <2>1 DEF DatabaseKept
<1>11. \A q \in Process : Undisturbed(q) BY <1>8 DEF Undisturbed
<1>12. \A q \in Process : DecisionInv(q)' /\ PlaceInv(q)'
  BY <1>10, <1>11, PlaceKept, DecisionKept DEF DatabaseKept
<1> QED BY <1>8, <1>9, <1>12 DEF IInv

(* Two databases with the same fields are the same.                         *)
LEMMA SameDatabase ==
    ASSUME NEW d \in Database, NEW e \in Database,
           d.versions = e.versions, d.made = e.made, d.seeded = e.seeded, d.users = e.users,
           d.members = e.members, d.sessions = e.sessions, d.sales = e.sales, d.fed = e.fed
    PROVE  d = e
BY DEF Database

OwnPassword(d, a) ==
    [d EXCEPT !.users[a].password = "own", !.users[a].must = FALSE, !.fed[a].must = FALSE]

LEMMA OwnPasswordFields ==
    ASSUME NEW d \in Database, NEW a \in Account, d.users[a] # NONE,
           d.fed[a] = Projection(d.users[a])
    PROVE  LET user == [d.users[a] EXCEPT !.password = "own", !.must = FALSE] IN
           /\ user \in UserRow /\ user.active = d.users[a].active /\ user.role = d.users[a].role
           /\ Projection(user) \in FeedRow
           /\ OwnPassword(d, a) =
                 WithAccounts(d, [d.users EXCEPT ![a] = user], d.members,
                              [d.sessions EXCEPT ![a] = d.sessions[a]],
                              [d.fed EXCEPT ![a] = Projection(user)])
<1> DEFINE user == [d.users[a] EXCEPT !.password = "own", !.must = FALSE]
           users == [d.users EXCEPT ![a] = user]
           sessions == [d.sessions EXCEPT ![a] = d.sessions[a]]
           feed == [d.fed EXCEPT ![a] = Projection(user)]
<1>1. d.users[a] \in UserRow BY DEF Database
<1>2. user \in UserRow /\ user.active = d.users[a].active /\ user.role = d.users[a].role
  BY <1>1 DEF UserRow
<1>3. Projection(user) \in FeedRow BY <1>2 DEF Projection, UserRow, FeedRow
<1>4. [d.fed[a] EXCEPT !.must = FALSE] = Projection(user)
  <2>1. d.fed[a] = [role |-> d.users[a].role, active |-> d.users[a].active, must |-> d.users[a].must]
    BY DEF Projection
  <2>2. Projection(user) = [role |-> d.users[a].role, active |-> d.users[a].active, must |-> FALSE]
    BY <1>1 DEF UserRow, Projection
  <2>3. d.fed[a] \in FeedRow BY <1>1, <2>1 DEF UserRow, FeedRow
  <2> HIDE DEF user
  <2> DEFINE x == [d.fed[a] EXCEPT !.must = FALSE]
             y == Projection(user)
  <2>4. /\ x \in FeedRow /\ x.role = d.fed[a].role
        /\ x.active = d.users[a].active /\ x.must = FALSE
    <3>1. x \in FeedRow BY <2>3 DEF FeedRow
    <3>2. x.role = d.fed[a].role BY <2>3 DEF FeedRow
    <3>3. d.fed[a].active = d.users[a].active /\ d.fed[a].must = d.users[a].must BY <2>1
    <3>4. x.active = d.users[a].active BY <2>3, <3>3 DEF FeedRow
    <3>5. x.must = FALSE BY <2>3, <3>3 DEF FeedRow
    <3> QED BY <3>1, <3>2, <3>4, <3>5
  <2>5. y \in FeedRow /\ y.role = d.fed[a].role /\ y.active = d.users[a].active /\ y.must = FALSE
    BY <1>3, <2>1, <2>2
  <2> HIDE DEF x, y
  <2>6. x = y BY <2>4, <2>5 DEF FeedRow
  <2> QED BY <2>6 DEF x, y
<1>5. OwnPassword(d, a) = [d EXCEPT !.users = users, !.fed = feed]
  <2>1. OwnPassword(d, a) = [d EXCEPT !.users = users, !.fed = [d.fed EXCEPT ![a] = [d.fed[a] EXCEPT !.must = FALSE]]]
    BY DEF OwnPassword, Database
  <2> QED BY <1>4, <2>1
<1>6. sessions = d.sessions BY DEF Database
<1> HIDE DEF user
<1>7. users \in [Account -> UserRow \cup {NONE}] /\ feed \in [Account -> FeedRow \cup {NONE}]
  BY <1>2, <1>3 DEF Database
<1> HIDE DEF users, feed, sessions
<1>8. [d EXCEPT !.users = users, !.fed = feed] = WithAccounts(d, users, d.members, sessions, feed)
  BY <1>6, <1>7 DEF WithAccounts, Database
<1> QED BY <1>2, <1>3, <1>5, <1>8 DEF user, users, feed, sessions

Deactivated(d, a) ==
    [d EXCEPT !.users[a].active = FALSE, !.fed[a].active = FALSE,
              !.sessions[a] = IF @ = "live" THEN "revoked" ELSE @]

LEMMA DeactivatedFields ==
    ASSUME NEW d \in Database, NEW a \in Account, d.users[a] # NONE,
           d.fed[a] = Projection(d.users[a])
    PROVE  LET user == [d.users[a] EXCEPT !.active = FALSE]
               session == IF d.sessions[a] = "live" THEN "revoked" ELSE d.sessions[a]
           IN
           /\ user \in UserRow /\ ~user.active
           /\ session \in {"none", "live", "revoked"}
           /\ Projection(user) \in FeedRow
           /\ Deactivated(d, a) =
                 WithAccounts(d, [d.users EXCEPT ![a] = user], d.members,
                              [d.sessions EXCEPT ![a] = session],
                              [d.fed EXCEPT ![a] = Projection(user)])
<1> DEFINE user == [d.users[a] EXCEPT !.active = FALSE]
           session == IF d.sessions[a] = "live" THEN "revoked" ELSE d.sessions[a]
           users == [d.users EXCEPT ![a] = user]
           sessions == [d.sessions EXCEPT ![a] = session]
           feed == [d.fed EXCEPT ![a] = Projection(user)]
<1>1. d.users[a] \in UserRow /\ session \in {"none", "live", "revoked"} BY DEF Database
<1>2. user \in UserRow /\ ~user.active
  BY <1>1 DEF UserRow
<1>3. Projection(user) \in FeedRow BY <1>2 DEF Projection, UserRow, FeedRow
<1>4. [d.fed[a] EXCEPT !.active = FALSE] = Projection(user)
  <2>1. d.fed[a] = [role |-> d.users[a].role, active |-> d.users[a].active, must |-> d.users[a].must]
    BY DEF Projection
  <2>2. Projection(user) = [role |-> d.users[a].role, active |-> FALSE, must |-> d.users[a].must]
    BY <1>1 DEF UserRow, Projection
  <2>3. d.fed[a] \in FeedRow BY <1>1, <2>1 DEF UserRow, FeedRow
  <2> HIDE DEF user
  <2> DEFINE x == [d.fed[a] EXCEPT !.active = FALSE]
             y == Projection(user)
  <2>4. /\ x \in FeedRow /\ x.role = d.fed[a].role
        /\ x.active = FALSE /\ x.must = d.users[a].must
    <3>1. x \in FeedRow BY <2>3 DEF FeedRow
    <3>2. x.role = d.fed[a].role BY <2>3 DEF FeedRow
    <3>3. d.fed[a].active = d.users[a].active /\ d.fed[a].must = d.users[a].must BY <2>1
    <3>4. x.active = FALSE BY <2>3, <3>3 DEF FeedRow
    <3>5. x.must = d.users[a].must BY <2>3, <3>3 DEF FeedRow
    <3> QED BY <3>1, <3>2, <3>4, <3>5
  <2>5. y \in FeedRow /\ y.role = d.fed[a].role /\ y.active = FALSE /\ y.must = d.users[a].must
    BY <1>3, <2>1, <2>2
  <2> HIDE DEF x, y
  <2>6. x = y BY <2>4, <2>5 DEF FeedRow
  <2> QED BY <2>6 DEF x, y
<1>5. Deactivated(d, a) = [d EXCEPT !.users = users, !.sessions = sessions, !.fed = feed]
  <2>1. Deactivated(d, a) =
          [d EXCEPT !.users = users, !.sessions = sessions,
                    !.fed = [d.fed EXCEPT ![a] = [d.fed[a] EXCEPT !.active = FALSE]]]
    BY DEF Deactivated, Database
  <2> QED BY <1>4, <2>1
<1> HIDE DEF user, session
<1>6. /\ users \in [Account -> UserRow \cup {NONE}] /\ feed \in [Account -> FeedRow \cup {NONE}]
      /\ sessions \in [Account -> {"none", "live", "revoked"}]
  BY <1>1, <1>2, <1>3 DEF Database
<1> HIDE DEF users, feed, sessions
<1>7. [d EXCEPT !.users = users, !.sessions = sessions, !.fed = feed]
          = WithAccounts(d, users, d.members, sessions, feed)
  BY <1>6 DEF WithAccounts, Database
<1> QED BY <1>1, <1>2, <1>3, <1>5, <1>7 DEF user, session, users, feed, sessions

(* Where a migration has not locked the accounts its view has them too.     *)
LEMMA ViewHasAccounts ==
    ASSUME IInv, AccountsOpen, tx # NONE
    PROVE  /\ tx.view \in Database /\ tx.view.users = db.users /\ tx.view.members = db.members
           /\ tx.view.sessions = db.sessions /\ tx.view.fed = db.fed
<1>1. /\ tx \in Transaction /\ Follows(db, tx.view, tx.locks, tx.rows)
      /\ tx.locks \cap AccountTables = {}
  BY DEF IInv, UpgradeInv, TypeOK, AccountsOpen
<1> QED BY <1>1 DEF Follows, SameAccounts, Transaction

LEMMA ChangeOwnPasswordKeeps ==
    ASSUME IInv, NEW p \in Process, NEW a \in Account, ChangeOwnPassword(p, a)
    PROVE  IInv'
<1>1. /\ Accepted(p) /\ job[p].release = Latest /\ AccountsOpen
      /\ db.users[a] # NONE /\ db.users[a].active
      /\ UNCHANGED <<org, staged, job, pc, tries>>
  BY DEF ChangeOwnPassword, Writes
<1>2. /\ db' = OwnPassword(db, a)
      /\ tx' = IF tx = NONE THEN NONE ELSE [tx EXCEPT !.view = OwnPassword(@, a)]
  BY Zenon DEF ChangeOwnPassword, Publish, OwnPassword
<1>3. 6 \in db.versions /\ db \in Database /\ db.fed[a] = Projection(db.users[a])
  <2>1. job \in [Process -> Job] /\ db \in Database /\ InOrder(db) BY DEF IInv, TypeOK
  <2>2. 6 \in db.versions BY <1>1, <2>1, AcceptedVersions
  <2> QED BY <1>1, <2>1, <2>2 DEF InOrder, AccountsInOrder, AccountInOrder
<1> DEFINE user == [db.users[a] EXCEPT !.password = "own", !.must = FALSE]
           Changed(d) == WithAccounts(d, [db.users EXCEPT ![a] = user], db.members,
                              [db.sessions EXCEPT ![a] = db.sessions[a]],
                              [db.fed EXCEPT ![a] = Projection(user)])
<1>4. /\ user \in UserRow /\ user.active = db.users[a].active /\ user.role = db.users[a].role
      /\ Projection(user) \in FeedRow /\ db' = Changed(db)
  BY <1>1, <1>2, <1>3, OwnPasswordFields
<1>5. ASSUME tx # NONE PROVE OwnPassword(tx.view, a) = Changed(tx.view)
  <2>1. /\ tx.view \in Database /\ tx.view.users = db.users /\ tx.view.members = db.members
        /\ tx.view.sessions = db.sessions /\ tx.view.fed = db.fed
    BY <1>1, <1>5, ViewHasAccounts
  <2>2. tx.view.users[a] # NONE /\ tx.view.fed[a] = Projection(tx.view.users[a])
    BY <1>1, <1>3, <2>1
  <2>3. LET x == [tx.view.users[a] EXCEPT !.password = "own", !.must = FALSE] IN
        OwnPassword(tx.view, a) =
             WithAccounts(tx.view, [tx.view.users EXCEPT ![a] = x], tx.view.members,
                              [tx.view.sessions EXCEPT ![a] = tx.view.sessions[a]],
                              [tx.view.fed EXCEPT ![a] = Projection(x)])
    BY <2>1, <2>2, OwnPasswordFields
  <2> QED BY <2>1, <2>3, Zenon
<1>6. tx' = IF tx = NONE THEN NONE ELSE [tx EXCEPT !.view = Changed(tx.view)]
  BY <1>2, <1>5
<1>7. user.active /\ user.role = "superadmin" => ActiveSuperadmin(db, a)
  BY <1>1, <1>4 DEF ActiveSuperadmin
<1>8. db.sessions[a] \in {"none", "live", "revoked"} BY <1>3 DEF Database
<1> HIDE DEF user
<1> QED BY <1>1, <1>3, <1>4, <1>6, <1>7, <1>8, AccountChanged

LEMMA DeactivateKeeps ==
    ASSUME IInv, NEW p \in Process, NEW a \in Account, Deactivate(p, a)
    PROVE  IInv'
<1>1. /\ Accepted(p) /\ job[p].release = Latest /\ AccountsOpen
      /\ db.users[a] # NONE
      /\ UNCHANGED <<org, staged, job, pc, tries>>
  BY DEF Deactivate, Writes
<1>2. /\ db' = Deactivated(db, a)
      /\ tx' = IF tx = NONE THEN NONE ELSE [tx EXCEPT !.view = Deactivated(@, a)]
  BY Zenon DEF Deactivate, Publish, Deactivated
<1>3. 6 \in db.versions /\ db \in Database /\ db.fed[a] = Projection(db.users[a])
  <2>1. job \in [Process -> Job] /\ db \in Database /\ InOrder(db) BY DEF IInv, TypeOK
  <2>2. 6 \in db.versions BY <1>1, <2>1, AcceptedVersions
  <2> QED BY <1>1, <2>1, <2>2 DEF InOrder, AccountsInOrder, AccountInOrder
<1> DEFINE user == [db.users[a] EXCEPT !.active = FALSE]
           session == IF db.sessions[a] = "live" THEN "revoked" ELSE db.sessions[a]
           Changed(d) == WithAccounts(d, [db.users EXCEPT ![a] = user], db.members,
                              [db.sessions EXCEPT ![a] = session],
                              [db.fed EXCEPT ![a] = Projection(user)])
<1>4. /\ user \in UserRow /\ ~user.active /\ session \in {"none", "live", "revoked"}
      /\ Projection(user) \in FeedRow /\ db' = Changed(db)
  BY <1>1, <1>2, <1>3, DeactivatedFields
<1>5. ASSUME tx # NONE PROVE Deactivated(tx.view, a) = Changed(tx.view)
  <2>1. /\ tx.view \in Database /\ tx.view.users = db.users /\ tx.view.members = db.members
        /\ tx.view.sessions = db.sessions /\ tx.view.fed = db.fed
    BY <1>1, <1>5, ViewHasAccounts
  <2>2. tx.view.users[a] # NONE /\ tx.view.fed[a] = Projection(tx.view.users[a])
    BY <1>1, <1>3, <2>1
  <2>3. LET x == [tx.view.users[a] EXCEPT !.active = FALSE]
            y == IF tx.view.sessions[a] = "live" THEN "revoked" ELSE tx.view.sessions[a]
        IN Deactivated(tx.view, a) =
             WithAccounts(tx.view, [tx.view.users EXCEPT ![a] = x], tx.view.members,
                              [tx.view.sessions EXCEPT ![a] = y],
                              [tx.view.fed EXCEPT ![a] = Projection(x)])
    BY <2>1, <2>2, DeactivatedFields
  <2> QED BY <2>1, <2>3, Zenon
<1>6. tx' = IF tx = NONE THEN NONE ELSE [tx EXCEPT !.view = Changed(tx.view)]
  BY <1>2, <1>5
<1> HIDE DEF user, session
<1> QED BY <1>1, <1>3, <1>4, <1>6, AccountChanged

(* What p writes when it commits the accounts that it creates.              *)
LEMMA CreationWrites ==
    ASSUME IInv, NEW p \in Process, CommitAccounts(p), ~staged[p].reset
    PROVE  /\ db' \in Database /\ tx' \in Transaction \cup {NONE} /\ UpgradeInv' /\ InOrder(db')
           /\ db'.versions = db.versions /\ db'.sessions = db.sessions
           /\ \A a \in Account : db'.users[a] = IF a \in staged[p].create THEN NewUser(p, a) ELSE db.users[a]
           /\ \A a \in Account : a \in staged[p].create => NewUser(p, a) \in UserRow /\ db.users[a] = NONE
           /\ \A q \in Process : Owns(q)' <=> Owns(q)
<1> DEFINE new == staged[p].create
           users(d) == [a \in Account |-> IF a \in new THEN NewUser(p, a) ELSE d.users[a]]
           members(d) == [a \in Account |-> IF a \in new THEN Wanted(p)[a] ELSE d.members[a]]
           fed(d) == [a \in Account |-> IF a \in new THEN Projection(NewUser(p, a)) ELSE d.fed[a]]
           Changed(d) == WithAccounts(d, users(db), members(db), db.sessions, fed(db))
<1>1. /\ UpgradeInv /\ DecisionInv(p) /\ PlaceInv(p) /\ db \in Database /\ InOrder(db)
      /\ job \in [Process -> Job]
  BY DEF IInv, TypeOK
<1>2. /\ pc[p] = "committing"
      /\ db' = Created(p, db)
      /\ tx' = IF tx = NONE THEN NONE ELSE [tx EXCEPT !.view = Created(p, @)]
      /\ \A q \in Process : pc[q] = "upgrading" => pc'[q] = "upgrading"
  <2>1. /\ pc[p] = "committing" /\ Publish(LAMBDA d : Created(p, d))
        /\ \E place : Goto(p, place)
    BY DEF CommitAccounts
  <2>2. /\ db' = Created(p, db)
        /\ tx' = IF tx = NONE THEN NONE ELSE [tx EXCEPT !.view = Created(p, @)]
    BY <2>1, Zenon DEF Publish
  <2>3. \A q \in Process : pc[q] = "upgrading" => pc'[q] = "upgrading"
    <3>1. pc \in [Process -> Places] BY DEF IInv, TypeOK, Places
    <3> QED BY <2>1, <3>1 DEF Goto
  <2> QED BY <2>1, <2>2, <2>3
<1>3. /\ staged[p] # NONE /\ new = Missing(p) /\ OneShot(p)
  BY <1>1, <1>2 DEF DecisionInv, PlaceInv
<1>4. AccountsOpen
  BY <1>1, <1>3 DEF UpgradeInv, AccountsOpen
<1>5. ASSUME NEW a \in new
      PROVE  /\ a \in Account /\ db.users[a] = NONE /\ Wanted(p)[a] \in {"admin", "superadmin"}
             /\ NewUser(p, a) \in UserRow /\ NewUser(p, a) # NONE
             /\ ~NewUser(p, a).platform
             /\ Projection(NewUser(p, a)) \in FeedRow
  <2>1. a \in Account /\ db.users[a] = NONE /\ a \in DOMAIN Wanted(p)
    BY <1>1, <1>3, <1>5, WantedAccounts DEF Missing
  <2>2. Wanted(p)[a] \in {"admin", "superadmin"} BY <1>1, <1>3, <2>1, WantedAccounts
  <2>3. job[p].kind \in {"seed", "bootstrap", "first"} BY <1>3 DEF OneShot
  <2>4. NewUser(p, a) \in UserRow /\ ~NewUser(p, a).platform
    BY <2>2, <2>3 DEF NewUser, UserRow
  <2>5. Projection(NewUser(p, a)) \in FeedRow BY <2>4 DEF Projection, UserRow, FeedRow
  <2> QED BY <2>1, <2>2, <2>4, <2>5, NoneAssumption
<1>6. /\ users(db) \in [Account -> UserRow \cup {NONE}]
      /\ members(db) \in [Account -> {"admin", "superadmin", "inactive", NONE}]
      /\ db.sessions \in [Account -> {"none", "live", "revoked"}]
      /\ fed(db) \in [Account -> FeedRow \cup {NONE}]
  BY <1>1, <1>5 DEF Database
<1>7. ASSUME NEW d \in Database, d.users = db.users, d.members = db.members,
             d.sessions = db.sessions, d.fed = db.fed
      PROVE  Created(p, d) = Changed(d)
  <2>1. Created(p, d) = [d EXCEPT !.users = users(d), !.members = members(d), !.fed = fed(d)]
    BY Zenon DEF Created
  <2>2. users(d) = users(db) /\ members(d) = members(db) /\ fed(d) = fed(db)
    BY <1>7, Zenon
  <2> HIDE DEF users, members, fed
  <2>3. [d EXCEPT !.users = users(db), !.members = members(db), !.fed = fed(db)] = Changed(d)
    BY <1>6, <1>7 DEF WithAccounts, Database
  <2> QED BY <2>1, <2>2, <2>3
<1>8. db' = Changed(db) BY <1>1, <1>2, <1>7
<1>9. ASSUME tx # NONE PROVE Created(p, tx.view) = Changed(tx.view)
  BY <1>4, <1>7, <1>9, ViewHasAccounts
<1>10. tx' = IF tx = NONE THEN NONE ELSE [tx EXCEPT !.view = Changed(tx.view)]
  BY <1>2, <1>9
<1>11. \A a \in Account :
         /\ users(db)[a] = IF a \in new THEN NewUser(p, a) ELSE db.users[a]
         /\ fed(db)[a] = IF a \in new THEN Projection(NewUser(p, a)) ELSE db.fed[a]
  OBVIOUS
<1>12. \A a \in Account :
              /\ db.sessions[a] # "none" => users(db)[a] # NONE
              /\ users(db)[a] # NONE =>
                    /\ (5 \notin db.versions => ~users(db)[a].platform)
                    /\ (6 \in db.versions => fed(db)[a] = Projection(users(db)[a]))
              /\ db.users[a] # NONE => users(db)[a] # NONE
  <2> HIDE DEF users, fed
  <2> QED BY <1>1, <1>5, <1>11 DEF InOrder, AccountsInOrder, AccountInOrder
<1> HIDE DEF users, members, fed
<1>13. /\ db' \in Database /\ tx' \in Transaction \cup {NONE} /\ UpgradeInv' /\ InOrder(db')
       /\ db'.versions = db.versions /\ db'.users = users(db) /\ db'.sessions = db.sessions
       /\ \A q \in Process : Owns(q)' <=> Owns(q)
  <2> DEFINE u == users(db)
             m == members(db)
             f == fed(db)
  <2>1. /\ u \in [Account -> UserRow \cup {NONE}]
        /\ m \in [Account -> {"admin", "superadmin", "inactive", NONE}]
        /\ db.sessions \in [Account -> {"none", "live", "revoked"}]
        /\ f \in [Account -> FeedRow \cup {NONE}]
    BY <1>6
  <2>2. /\ db' = WithAccounts(db, u, m, db.sessions, f)
        /\ tx' = IF tx = NONE THEN NONE
                 ELSE [tx EXCEPT !.view = WithAccounts(tx.view, u, m, db.sessions, f)]
    BY <1>8, <1>10
  <2>3. \A a \in Account :
              /\ db.sessions[a] # "none" => u[a] # NONE
              /\ u[a] # NONE =>
                    /\ (5 \notin db.versions => ~u[a].platform)
                    /\ (6 \in db.versions => f[a] = Projection(u[a]))
              /\ db.users[a] # NONE => u[a] # NONE
    BY <1>12
  <2>4. \A q \in Process : pc[q] = "upgrading" => pc'[q] = "upgrading" BY <1>2
  <2> HIDE DEF u, m, f
  <2>5. /\ db' \in Database /\ tx' \in Transaction \cup {NONE} /\ UpgradeInv' /\ InOrder(db')
        /\ db'.versions = db.versions /\ db'.users = u /\ db'.sessions = db.sessions
        /\ \A q \in Process : Owns(q)' <=> Owns(q)
    BY ONLY IInv, <1>4, <2>1, <2>2, <2>3, <2>4, AccountsReplaced
  <2> QED BY <2>5 DEF u
<1> QED BY <1>5, <1>11, <1>13

(* The password of the sample account as a seed resets it.                  *)
Reset(user) == [user EXCEPT !.password = "temporary", !.must = TRUE]

LEMMA PasswordResetFields ==
    ASSUME NEW d \in Database, d.users[Sample] # NONE
    PROVE  LET user == Reset(d.users[Sample])
               session == IF d.sessions[Sample] = "live" THEN "revoked" ELSE d.sessions[Sample]
           IN
           /\ user \in UserRow /\ user.active = d.users[Sample].active
           /\ user.role = d.users[Sample].role /\ user.platform = d.users[Sample].platform
           /\ user.must /\ session \in {"none", "revoked"}
           /\ Projection(user) \in FeedRow
           /\ PasswordReset(d) =
                 WithAccounts(d, [d.users EXCEPT ![Sample] = user], d.members,
                              [d.sessions EXCEPT ![Sample] = session],
                              [d.fed EXCEPT ![Sample] = Projection(user)])
<1> DEFINE user == Reset(d.users[Sample])
           session == IF d.sessions[Sample] = "live" THEN "revoked" ELSE d.sessions[Sample]
           users == [d.users EXCEPT ![Sample] = user]
           sessions == [d.sessions EXCEPT ![Sample] = session]
           feed == [d.fed EXCEPT ![Sample] = Projection(user)]
<1>1. d.users[Sample] \in UserRow /\ session \in {"none", "revoked"}
  BY DeploymentAssumption DEF Database
<1>2. /\ user \in UserRow /\ user.active = d.users[Sample].active
      /\ user.role = d.users[Sample].role /\ user.platform = d.users[Sample].platform
      /\ user.must
  BY <1>1 DEF UserRow, Reset
<1>3. Projection(user) \in FeedRow BY <1>2 DEF Projection, UserRow, FeedRow
<1>4. PasswordReset(d) = [d EXCEPT !.users = users, !.fed = feed, !.sessions = sessions]
  BY DEF PasswordReset, Reset, Database
<1> HIDE DEF user, session
<1>5. /\ users \in [Account -> UserRow \cup {NONE}] /\ feed \in [Account -> FeedRow \cup {NONE}]
      /\ sessions \in [Account -> {"none", "live", "revoked"}]
  BY <1>1, <1>2, <1>3 DEF Database
<1> HIDE DEF users, feed, sessions
<1>6. [d EXCEPT !.users = users, !.fed = feed, !.sessions = sessions]
          = WithAccounts(d, users, d.members, sessions, feed)
  BY <1>5 DEF WithAccounts, Database
<1> QED BY <1>1, <1>2, <1>3, <1>4, <1>6 DEF user, session, users, feed, sessions

LEMMA ResetWrites ==
    ASSUME IInv, NEW p \in Process, CommitAccounts(p), staged[p].reset
    PROVE  /\ db' \in Database /\ tx' \in Transaction \cup {NONE} /\ UpgradeInv' /\ InOrder(db')
           /\ db'.versions = db.versions
           /\ db.users[Sample] # NONE /\ job[p].kind = "seed" /\ job[p].reset
           /\ db'.users = [db.users EXCEPT ![Sample] = Reset(db.users[Sample])]
           /\ Reset(db.users[Sample]) \in UserRow /\ Reset(db.users[Sample]).must
           /\ db'.sessions[Sample] # "live"
           /\ \A q \in Process : Owns(q)' <=> Owns(q)
<1> DEFINE user == Reset(db.users[Sample])
           session == IF db.sessions[Sample] = "live" THEN "revoked" ELSE db.sessions[Sample]
           users == [db.users EXCEPT ![Sample] = user]
           sessions == [db.sessions EXCEPT ![Sample] = session]
           feed == [db.fed EXCEPT ![Sample] = Projection(user)]
           Changed(d) == WithAccounts(d, users, db.members, sessions, feed)
<1>1. /\ UpgradeInv /\ DecisionInv(p) /\ db \in Database /\ InOrder(db)
  BY DEF IInv, TypeOK
<1>2. /\ pc[p] = "committing"
      /\ db' = PasswordReset(db)
      /\ tx' = IF tx = NONE THEN NONE ELSE [tx EXCEPT !.view = PasswordReset(@)]
      /\ \A q \in Process : pc[q] = "upgrading" => pc'[q] = "upgrading"
  <2>1. /\ pc[p] = "committing" /\ Publish(PasswordReset)
        /\ \E place : Goto(p, place)
    BY DEF CommitAccounts
  <2>2. /\ db' = PasswordReset(db)
        /\ tx' = IF tx = NONE THEN NONE ELSE [tx EXCEPT !.view = PasswordReset(@)]
    BY <2>1, Zenon DEF Publish
  <2>3. \A q \in Process : pc[q] = "upgrading" => pc'[q] = "upgrading"
    <3>1. pc \in [Process -> Places] BY DEF IInv, TypeOK, Places
    <3> QED BY <2>1, <3>1 DEF Goto
  <2> QED BY <2>1, <2>2, <2>3
<1>3. staged[p] # NONE /\ staged[p].reset
  <2>1. PlaceInv(p) BY DEF IInv
  <2> QED BY <1>2, <2>1 DEF PlaceInv
<1>4. AccountsOpen BY <1>1, <1>3 DEF UpgradeInv, AccountsOpen
<1>5. db.users[Sample] # NONE /\ job[p].kind = "seed" /\ job[p].reset
  <2>1. Missing(p) = {} /\ job[p].kind = "seed" /\ job[p].reset BY <1>1, <1>3 DEF DecisionInv
  <2>2. Wanted(p) = [a \in {Sample} |-> "superadmin"] BY <2>1 DEF Wanted
  <2> QED BY <2>1, <2>2 DEF Missing
<1>6. /\ user \in UserRow /\ user.platform = db.users[Sample].platform
      /\ user.must /\ session \in {"none", "revoked"}
      /\ Projection(user) \in FeedRow /\ db' = Changed(db)
  BY <1>1, <1>2, <1>5, PasswordResetFields
<1>7. ASSUME tx # NONE PROVE PasswordReset(tx.view) = Changed(tx.view)
  <2>1. /\ tx.view \in Database /\ tx.view.users = db.users /\ tx.view.members = db.members
        /\ tx.view.sessions = db.sessions /\ tx.view.fed = db.fed
    BY <1>4, <1>7, ViewHasAccounts
  <2>2. tx.view.users[Sample] # NONE BY <1>5, <2>1
  <2>3. LET x == Reset(tx.view.users[Sample])
            y == IF tx.view.sessions[Sample] = "live" THEN "revoked" ELSE tx.view.sessions[Sample]
        IN PasswordReset(tx.view) =
             WithAccounts(tx.view, [tx.view.users EXCEPT ![Sample] = x], tx.view.members,
                              [tx.view.sessions EXCEPT ![Sample] = y],
                              [tx.view.fed EXCEPT ![Sample] = Projection(x)])
    BY <2>1, <2>2, PasswordResetFields
  <2> QED BY <2>1, <2>3, Zenon
<1>8. tx' = IF tx = NONE THEN NONE ELSE [tx EXCEPT !.view = Changed(tx.view)]
  BY <1>2, <1>7
<1>9. Sample \in Account /\ user # NONE BY <1>6, NoneAssumption, DeploymentAssumption
<1> HIDE DEF user, session
<1>10. /\ users \in [Account -> UserRow \cup {NONE}] /\ feed \in [Account -> FeedRow \cup {NONE}]
       /\ sessions \in [Account -> {"none", "live", "revoked"}]
       /\ db.members \in [Account -> {"admin", "superadmin", "inactive", NONE}]
  BY <1>1, <1>6 DEF Database
<1>11. /\ users[Sample] = user /\ sessions[Sample] = session /\ feed[Sample] = Projection(user)
       /\ \A b \in Account \ {Sample} :
             /\ users[b] = db.users[b] /\ sessions[b] = db.sessions[b] /\ feed[b] = db.fed[b]
  BY <1>1, <1>9 DEF Database
<1>12. /\ db' = WithAccounts(db, users, db.members, sessions, feed)
       /\ tx' = IF tx = NONE THEN NONE
                ELSE [tx EXCEPT !.view = WithAccounts(tx.view, users, db.members, sessions, feed)]
  BY <1>6, <1>8
<1> HIDE DEF users, sessions, feed
<1>13. ASSUME NEW b \in Account
       PROVE  /\ sessions[b] # "none" => users[b] # NONE
              /\ users[b] # NONE =>
                    /\ (5 \notin db.versions => ~users[b].platform)
                    /\ (6 \in db.versions => feed[b] = Projection(users[b]))
              /\ db.users[b] # NONE => users[b] # NONE
  <2>1. AccountInOrder(db, b) BY <1>1 DEF InOrder, AccountsInOrder
  <2>2. CASE b = Sample BY <1>5, <1>6, <1>9, <1>11, <2>1, <2>2 DEF AccountInOrder
  <2>3. CASE b # Sample BY <1>11, <2>1, <2>3 DEF AccountInOrder
  <2> QED BY <2>2, <2>3
<1>14. /\ db' \in Database /\ tx' \in Transaction \cup {NONE} /\ UpgradeInv' /\ InOrder(db')
       /\ db'.versions = db.versions /\ db'.users = users /\ db'.sessions = sessions
       /\ \A q \in Process : Owns(q)' <=> Owns(q)
  <2>1. \A q \in Process : pc[q] = "upgrading" => pc'[q] = "upgrading" BY <1>2
  <2> QED BY ONLY IInv, <1>4, <1>10, <1>12, <1>13, <2>1, AccountsReplaced
<1>15. db'.sessions[Sample] # "live" BY <1>6, <1>11, <1>14
<1> QED BY <1>5, <1>6, <1>14, <1>15 DEF user, users

(* Nobody is missing once p has committed what it decided.                  *)
LEMMA NobodyMissing ==
    ASSUME IInv, NEW p \in Process, CommitAccounts(p)
    PROVE  /\ Missing(p)' = {} /\ OneShot(p)
           /\ \A a \in Account : db.users[a] # NONE => db'.users[a] # NONE
           /\ db' \in Database /\ tx' \in Transaction \cup {NONE} /\ UpgradeInv' /\ InOrder(db')
           /\ db'.versions = db.versions
           /\ \A q \in Process : Owns(q)' <=> Owns(q)
<1>1. /\ DecisionInv(p) /\ PlaceInv(p) /\ job \in [Process -> Job]
      /\ db \in Database
  BY DEF IInv, TypeOK
<1>2. pc[p] = "committing" /\ job' = job BY DEF CommitAccounts
<1>3. staged[p] # NONE /\ OneShot(p) BY <1>1, <1>2 DEF PlaceInv
<1>4. Wanted(p)' = Wanted(p) /\ DOMAIN Wanted(p) \subseteq Account
  BY <1>1, <1>2, <1>3, WantedAccounts DEF Wanted
<1>5. CASE ~staged[p].reset
  <2>1. /\ db' \in Database /\ tx' \in Transaction \cup {NONE} /\ UpgradeInv' /\ InOrder(db')
        /\ db'.versions = db.versions
        /\ \A a \in Account : db'.users[a] = IF a \in staged[p].create THEN NewUser(p, a) ELSE db.users[a]
        /\ \A a \in Account : a \in staged[p].create => NewUser(p, a) \in UserRow /\ db.users[a] = NONE
        /\ \A q \in Process : Owns(q)' <=> Owns(q)
    BY <1>5, CreationWrites
  <2>2. staged[p].create = Missing(p) BY <1>1, <1>3, <1>5 DEF DecisionInv
  <2>3. ASSUME NEW a \in Account, db.users[a] # NONE \/ a \in Missing(p)
        PROVE  db'.users[a] # NONE
    BY <2>1, <2>2, <2>3, NoneAssumption
  <2>4. \A a \in DOMAIN Wanted(p) : db'.users[a] # NONE
    BY <1>4, <2>3 DEF Missing
  <2> QED BY <1>3, <1>4, <2>1, <2>3, <2>4 DEF Missing
<1>6. CASE staged[p].reset
  <2>1. /\ db' \in Database /\ tx' \in Transaction \cup {NONE} /\ UpgradeInv' /\ InOrder(db')
        /\ db'.versions = db.versions
        /\ db'.users = [db.users EXCEPT ![Sample] = Reset(db.users[Sample])]
        /\ Reset(db.users[Sample]) \in UserRow
        /\ \A q \in Process : Owns(q)' <=> Owns(q)
    BY <1>6, ResetWrites
  <2>2. Missing(p) = {} BY <1>1, <1>3, <1>6 DEF DecisionInv
  <2>3. ASSUME NEW a \in Account, db.users[a] # NONE
        PROVE  db'.users[a] # NONE
    <3>1. db.users \in [Account -> UserRow \cup {NONE}] BY <1>1 DEF Database
    <3>2. db'.users[a] = IF a = Sample THEN Reset(db.users[Sample]) ELSE db.users[a]
      BY <2>1, <3>1
    <3> QED BY <2>1, <2>3, <3>2, NoneAssumption
  <2>4. \A a \in DOMAIN Wanted(p) : db'.users[a] # NONE
    BY <1>4, <2>2, <2>3 DEF Missing
  <2> QED BY <1>3, <1>4, <2>1, <2>3, <2>4 DEF Missing
<1> QED BY <1>5, <1>6

LEMMA CommitAccountsKeeps ==
    ASSUME IInv, NEW p \in Process, CommitAccounts(p)
    PROVE  IInv'
<1>1. /\ TypeOK /\ DecisionInv(p) /\ PlaceInv(p)
      /\ staged \in [Process -> Staged \cup {NONE}]
  BY DEF IInv, TypeOK
<1>2. /\ pc[p] = "committing" /\ org' = NONE /\ job' = job
      /\ staged' = [staged EXCEPT ![p] = NONE]
  BY DEF CommitAccounts
<1>3. /\ staged[p] # NONE /\ org = p BY <1>1, <1>2 DEF PlaceInv, DecisionInv
<1>4. /\ Missing(p)' = {} /\ OneShot(p)
      /\ \A a \in Account : db.users[a] # NONE => db'.users[a] # NONE
      /\ db' \in Database /\ tx' \in Transaction \cup {NONE} /\ UpgradeInv' /\ InOrder(db')
      /\ db'.versions = db.versions
      /\ \A q \in Process : Owns(q)' <=> Owns(q)
  BY NobodyMissing
<1>5. \/ Goto(p, "resetting") /\ job[p].kind = "seed" /\ job[p].reset
      \/ Goto(p, "done") \/ Goto(p, "failed")
  BY DEF CommitAccounts
<1>6. /\ pc' \in [Process -> Places] /\ tries' \in [Process -> 0..MaxAttempts]
      /\ pc'[p] \in {"resetting", "done", "failed"}
      /\ pc'[p] = "resetting" => job[p].kind = "seed" /\ job[p].reset
      /\ \A q \in Process \ {p} : pc'[q] = pc[q]
  <2>1. CASE Goto(p, "resetting") /\ job[p].kind = "seed" /\ job[p].reset
    BY <1>1, <2>1, GotoGoes DEF Places
  <2>2. CASE Goto(p, "done") BY <1>1, <2>2, GotoGoes DEF Places
  <2>3. CASE Goto(p, "failed") BY <1>1, <2>3, GotoGoes DEF Places
  <2> QED BY <1>5, <2>1, <2>2, <2>3
<1>7. /\ staged' \in [Process -> Staged \cup {NONE}] /\ staged'[p] = NONE
      /\ \A q \in Process \ {p} : staged'[q] = staged[q]
  BY <1>1, <1>2
<1>8. TypeOK' BY <1>1, <1>2, <1>4, <1>6, <1>7 DEF TypeOK, Places
<1>9. \A q \in Process \ {p} : staged[q] = NONE
  BY <1>3 DEF IInv, DecisionInv
<1>10. \A q \in Process : DecisionInv(q)'
  BY <1>7, <1>9 DEF DecisionInv
<1>11. \A q \in Process : org' # q BY <1>2, NoneAssumption
<1>12. ASSUME NEW q \in Process \ {p} PROVE PlaceInv(q)'
  <2>1. Undisturbed(q)
    BY <1>3, <1>4, <1>6, <1>7, <1>11 DEF Undisturbed
  <2> QED BY <1>2, <1>4, <2>1, PlaceKept
<1>13. PlaceInv(p)'
  <2>1. /\ OneShot(p)' <=> OneShot(p)
        /\ Migrates(p)' <=> Migrates(p)
        /\ Known(p)' = Known(p)
    BY <1>2 DEF OneShot, Migrates, Known
  <2> QED BY <1>1, <1>2, <1>4, <1>6, <1>11, <2>1 DEF PlaceInv, Past
<1> QED BY <1>4, <1>8, <1>10, <1>12, <1>13 DEF IInv

(***************************************************************************)
(* THE THEOREMS.                                                           *)
(***************************************************************************)
LEMMA StartsInOrder == Init => IInv
<1> SUFFICES ASSUME Init PROVE IInv
  OBVIOUS
<1>1. /\ db \in Database /\ InOrder(db) /\ job \in [Process -> Job]
      /\ tx = NONE /\ org = NONE
      /\ staged = [p \in Process |-> NONE]
      /\ pc = [p \in Process |-> "off"]
      /\ tries = [p \in Process |-> 0]
  BY BeforeAssumption DEF Init
<1>2. TypeOK
  <2>1. 0 \in 0..MaxAttempts BY DeploymentAssumption
  <2> QED BY <1>1, <2>1 DEF TypeOK
<1>3. UpgradeInv BY <1>1 DEF UpgradeInv
<1>4. ASSUME NEW p \in Process PROVE DecisionInv(p) /\ PlaceInv(p)
  BY <1>1, NoneAssumption DEF DecisionInv, PlaceInv, Past
<1> QED BY <1>1, <1>2, <1>3, <1>4 DEF IInv

LEMMA StepKeeps ==
    ASSUME IInv, NEW p \in Process, Proceed(p) \/ Environment(p)
    PROVE  IInv'
<1>1. CASE Proceed(p)
  BY <1>1, ConnectKeeps, BeginUpgradeKeeps, MigrateKeeps, CommitUpgradeKeeps, DecideKeeps,
     DecideResetKeeps, CommitAccountsKeeps DEF Proceed
<1>2. CASE Environment(p)
  BY <1>2, StartKeeps, AttemptFailsKeeps, CrashKeeps, ShutdownKeeps, CreateSaleKeeps,
     CorrectSaleKeeps, SettlePaymentKeeps, ChangeOwnPasswordKeeps, DeactivateKeeps
     DEF Environment
<1> QED BY <1>1, <1>2

LEMMA NothingKeeps == IInv /\ UNCHANGED vars => IInv'
BY DEF IInv, TypeOK, UpgradeInv, DecisionInv, PlaceInv, Owns, Missing, Wanted, OneShot,
       Migrates, Known, ActiveSuperadmin, vars, counters

LEMMA NextKeeps == IInv /\ [Next]_vars => IInv'
BY StepKeeps, NothingKeeps DEF Next

(* The view of an open upgrade carries what the database holds and equals   *)
(* it where nothing is locked, decisions hold until they are committed, and *)
(* who has passed a migration knows it recorded.                            *)
THEOREM UpgradeInvariant == Spec => []IInv
BY StartsInOrder, NextKeeps, PTL DEF Spec

(* Every variable has its type, whatever the releases and jobs.             *)
THEOREM DeploymentTypes == Spec => []TypeOK
<1>1. IInv => TypeOK BY DEF IInv
<1> QED BY <1>1, UpgradeInvariant, PTL

(* PostgreSQL refuses no migration, from whichever release the database     *)
(* comes and whatever is written while the upgrade runs.                    *)
THEOREM EveryMigrationFits == Spec => []MigrationsFit
<1>1. IInv => MigrationsFit BY DEF IInv, UpgradeInv, Fits, MigrationsFit
<1> QED BY <1>1, UpgradeInvariant, PTL

(* The amount to pay of a Production sale is its total as soon as there is  *)
(* one, whichever releases create and correct it.                           *)
THEOREM AmountsFollow == Spec => []AmountFollowsTotal
<1>1. IInv => AmountFollowsTotal
  BY DEF IInv, InOrder, SalesInOrder, SaleInOrder, AmountFollowsTotal
<1> QED BY <1>1, UpgradeInvariant, PTL

(* From migration 6 on the feed says of every user what the table says,     *)
(* however the upgrade, the commands and the replicas interleave.           *)
THEOREM FeedSaysWhatUsersAre == Spec => []AccountsPublished
<1>1. IInv => AccountsPublished
  BY DEF IInv, InOrder, AccountsInOrder, AccountInOrder, AccountsPublished
<1> QED BY <1>1, UpgradeInvariant, PTL

(* Who serves or reports success after migrating finds every migration that *)
(* it knows recorded, and who provisions accounts finds them there.         *)
THEOREM PromisesKept == Spec => []EndsAsPromised
<1>1. IInv => EndsAsPromised BY DEF IInv, PlaceInv, Past, EndsAsPromised
<1> QED BY <1>1, UpgradeInvariant, PTL

(* The steps that touch the accounts or the recorded migrations.            *)
LEMMA StoreLeavesAccounts ==
    ASSUME NEW s, NEW row, Store(s, row)
    PROVE  db'.users = db.users /\ db'.versions = db.versions
<1>1. \E stored : db' = [db EXCEPT !.sales[s] = stored]
  BY Zenon DEF Store, Publish
<1> QED BY <1>1

LEMMA StepKinds ==
    ASSUME IInv, NEW p \in Process, Proceed(p) \/ Environment(p)
    PROVE  \/ db'.users = db.users /\ db'.versions = db.versions
           \/ CommitUpgrade(p) \/ CommitAccounts(p)
           \/ \E a \in Account : ChangeOwnPassword(p, a) \/ Deactivate(p, a)
<1>1. CASE Proceed(p)
  BY <1>1 DEF Proceed, Connect, BeginUpgrade, Migrate, Decide, DecideReset
<1>2. CASE Environment(p)
  <2>1. CASE Start(p) \/ AttemptFails(p) \/ Crash(p) \/ Shutdown(p)
    BY <2>1 DEF Start, AttemptFails, Crash, Shutdown
  <2>2. ASSUME NEW s \in Sale, NEW total \in 1..2,
               (\E a \in Account : CreateSale(p, s, a, total)) \/ CorrectSale(p, s, total)
        PROVE  db'.users = db.users /\ db'.versions = db.versions
    <3>1. \E row : Store(s, row) BY <2>2 DEF CreateSale, CorrectSale
    <3> QED BY <3>1, StoreLeavesAccounts
  <2>3. ASSUME NEW s \in Sale, NEW status \in {"success", "failed"}, SettlePayment(p, s, status)
        PROVE  db'.users = db.users /\ db'.versions = db.versions
    <3>1. \E row : Store(s, row) BY <2>3 DEF SettlePayment
    <3> QED BY <3>1, StoreLeavesAccounts
  <2> QED BY <1>2, <2>1, <2>2, <2>3 DEF Environment
<1> QED BY <1>1, <1>2

LEMMA UpgradeCarries ==
    ASSUME IInv, NEW p \in Process, CommitUpgrade(p)
    PROVE  Carries(db, db') /\ job' = job
<1>1. PlaceInv(p) /\ UpgradeInv BY DEF IInv
<1>2. pc[p] = "upgrading" /\ db' = tx.view /\ job' = job BY DEF CommitUpgrade
<1> QED BY <1>1, <1>2 DEF PlaceInv, Owns, UpgradeInv, Follows

(* What a replica writes of an account that exists.                         *)
LEMMA AccountWritten ==
    ASSUME IInv, NEW p \in Process, NEW b \in Account,
           ChangeOwnPassword(p, b) \/ Deactivate(p, b), NEW a \in Account
    PROVE  /\ db'.versions = db.versions
           /\ db'.users[a] = NONE <=> db.users[a] = NONE
           /\ db.users[a] # NONE =>
                 db'.users[a].password = db.users[a].password \/ db'.users[a].password = "own"
<1>1. db \in Database /\ db.users[b] # NONE
  BY DEF IInv, TypeOK, ChangeOwnPassword, Deactivate
<1>2. CASE ChangeOwnPassword(p, b)
  <2>1. db' = OwnPassword(db, b) BY <1>2, Zenon DEF ChangeOwnPassword, Publish, OwnPassword
  <2> DEFINE user == [db.users[b] EXCEPT !.password = "own", !.must = FALSE]
  <2>2. user \in UserRow /\ user.password = "own"
    <3>1. db.users[b] \in UserRow BY <1>1 DEF Database
    <3> QED BY <3>1 DEF UserRow
  <2>3. db'.versions = db.versions /\ db'.users = [db.users EXCEPT ![b] = user]
    BY <1>1, <2>1 DEF OwnPassword, Database
  <2> HIDE DEF user
  <2>4. db'.users[a] = IF a = b THEN user ELSE db.users[a]
    BY <1>1, <2>3 DEF Database
  <2> QED BY <1>1, <2>2, <2>3, <2>4, NoneAssumption
<1>3. CASE Deactivate(p, b)
  <2>1. db' = Deactivated(db, b) BY <1>3, Zenon DEF Deactivate, Publish, Deactivated
  <2> DEFINE user == [db.users[b] EXCEPT !.active = FALSE]
  <2>2. user \in UserRow /\ user.password = db.users[b].password
    <3>1. db.users[b] \in UserRow BY <1>1 DEF Database
    <3> QED BY <3>1 DEF UserRow
  <2>3. db'.versions = db.versions /\ db'.users = [db.users EXCEPT ![b] = user]
    BY <1>1, <2>1 DEF Deactivated, Database
  <2> HIDE DEF user
  <2>4. db'.users[a] = IF a = b THEN user ELSE db.users[a]
    BY <1>1, <2>3 DEF Database
  <2> QED BY <1>1, <2>2, <2>3, <2>4, NoneAssumption
<1> QED BY <1>2, <1>3

(* What a command commits of the accounts.                                  *)
LEMMA AccountsCommitted ==
    ASSUME IInv, NEW p \in Process, CommitAccounts(p), NEW a \in Account
    PROVE  /\ db'.versions = db.versions
           /\ db.users[a] = NONE /\ db'.users[a] # NONE /\ db'.users[a].origin = "first" =>
                 \A b \in Account : ~ActiveSuperadmin(db, b)
           /\ db.users[a] # NONE /\ db'.users[a].password # db.users[a].password =>
                 /\ a = Sample /\ job[p].kind = "seed" /\ job[p].reset
                 /\ db'.users[a].must /\ db'.sessions[a] # "live"
<1>1. DecisionInv(p) /\ PlaceInv(p) /\ db \in Database BY DEF IInv, TypeOK
<1>2. staged[p] # NONE BY <1>1 DEF CommitAccounts, PlaceInv
<1>3. CASE ~staged[p].reset
  <2>1. /\ db'.versions = db.versions
        /\ db'.users[a] = IF a \in staged[p].create THEN NewUser(p, a) ELSE db.users[a]
        /\ a \in staged[p].create => db.users[a] = NONE
    BY <1>3, CreationWrites
  <2>2. ASSUME a \in staged[p].create, db'.users[a].origin = "first"
        PROVE  \A b \in Account : ~ActiveSuperadmin(db, b)
    <3>1. job[p].kind = "first" BY <2>1, <2>2 DEF NewUser
    <3> QED BY <1>1, <1>2, <2>2, <3>1 DEF DecisionInv
  <2> QED BY <2>1, <2>2
<1>4. CASE staged[p].reset
  <2>1. /\ db'.versions = db.versions
        /\ db.users[Sample] # NONE /\ job[p].kind = "seed" /\ job[p].reset
        /\ db'.users = [db.users EXCEPT ![Sample] = Reset(db.users[Sample])]
        /\ Reset(db.users[Sample]).must
        /\ db'.sessions[Sample] # "live"
    BY <1>4, ResetWrites
  <2>2. db'.users[a] = IF a = Sample THEN Reset(db.users[Sample]) ELSE db.users[a]
    BY <1>1, <2>1 DEF Database
  <2> QED BY <2>1, <2>2
<1> QED BY <1>3, <1>4

(* bootstrap-superadmin creates an account only where nobody was superadmin *)
(* and active, whatever else has been committed meanwhile.                  *)
THEOREM FirstOfAll == Spec => FirstIsFirst
<1> DEFINE First ==
        \A a \in Account :
            db.users[a] = NONE /\ db'.users[a] # NONE /\ db'.users[a].origin = "first"
               => \A b \in Account : ~ActiveSuperadmin(db, b)
<1>1. IInv /\ Next => First
  <2> SUFFICES ASSUME IInv, NEW p \in Process, Proceed(p) \/ Environment(p), NEW a \in Account,
                      db.users[a] = NONE, db'.users[a] # NONE, db'.users[a].origin = "first"
               PROVE  \A b \in Account : ~ActiveSuperadmin(db, b)
    BY DEF Next
  <2>1. CASE CommitUpgrade(p) BY <2>1, UpgradeCarries DEF Carries, AccountCarried
  <2>2. CASE CommitAccounts(p) BY <2>2, AccountsCommitted
  <2>3. CASE \E b \in Account : ChangeOwnPassword(p, b) \/ Deactivate(p, b)
    BY <2>3, AccountWritten
  <2> QED BY <2>1, <2>2, <2>3, StepKinds
<1>2. IInv /\ [Next]_vars => [First]_vars BY <1>1
<1> HIDE DEF First
<1>3. Spec => [][First]_vars
  BY <1>2, StartsInOrder, NextKeeps, PTL DEF Spec
<1> QED BY <1>3 DEF First, FirstIsFirst

(* An upgrade from any release leaves what was paid paid, totals, revisions *)
(* and passwords as they were, and the organization to the same people.     *)
THEOREM UpgradesCarry == Spec => UpgradesKeepRecords
<1> DEFINE Keeps ==
        db'.versions # db.versions =>
         /\ \A s \in Sale : db.sales[s] # NONE =>
                /\ Paid(db, s) => Paid(db', s)
                /\ db'.sales[s].rev = db.sales[s].rev /\ db'.sales[s].total = db.sales[s].total
         /\ \A a \in Account :
                /\ Authority(db, a) <=> Authority(db', a)
                /\ db.users[a] # NONE => db'.users[a].password = db.users[a].password
         /\ db'.sessions = db.sessions
<1>1. IInv /\ Next => Keeps
  <2>1. SUFFICES ASSUME IInv, NEW p \in Process, Proceed(p) \/ Environment(p),
                        db'.versions # db.versions
                 PROVE  Keeps
    BY DEF Next
  <2>2. CASE CommitUpgrade(p)
    <3>1. Carries(db, db') BY <2>1, <2>2, UpgradeCarries
    <3>2. \A s \in Sale : SaleCarried(db, db', s) BY <3>1 DEF Carries
    <3>3. \A a \in Account : AccountCarried(db, db', a) BY <3>1 DEF Carries
    <3> QED BY <3>1, <3>2, <3>3 DEF Carries, SaleCarried, AccountCarried
  <2>3. CASE CommitAccounts(p)
    BY <2>1, <2>3, AccountsCommitted, DeploymentAssumption
  <2>4. CASE \E b \in Account : ChangeOwnPassword(p, b) \/ Deactivate(p, b)
    BY <2>1, <2>4, AccountWritten
  <2> QED BY <2>1, <2>2, <2>3, <2>4, StepKinds
<1>2. IInv /\ [Next]_vars => [Keeps]_vars BY <1>1
<1> HIDE DEF Keeps
<1>3. Spec => [][Keeps]_vars
  BY <1>2, StartsInOrder, NextKeeps, PTL DEF Spec
<1> QED BY <1>3 DEF Keeps, UpgradesKeepRecords

(* A password changes by its owner's hand, or by a seed that was asked to   *)
(* reset it and ends the sessions; no command that is run again and no      *)
(* upgrade changes one.                                                     *)
THEOREM PasswordsKept == Spec => CredentialsKept
<1> DEFINE Kept ==
        \A a \in Account :
         db.users[a] # NONE /\ db'.users[a].password # db.users[a].password =>
            \/ db'.users[a].password = "own"
            \/ /\ a = Sample /\ \E p \in Process : job[p].kind = "seed" /\ job[p].reset
               /\ db'.users[a].must /\ db'.sessions[a] # "live"
<1>1. IInv /\ Next => Kept
  <2> SUFFICES ASSUME IInv, NEW p \in Process, Proceed(p) \/ Environment(p), NEW a \in Account,
                      db.users[a] # NONE, db'.users[a].password # db.users[a].password,
                      db'.users[a].password # "own"
               PROVE  /\ a = Sample /\ job[p].kind = "seed" /\ job[p].reset
                      /\ db'.users[a].must /\ db'.sessions[a] # "live"
    BY DEF Next
  <2>1. CASE CommitUpgrade(p) BY <2>1, UpgradeCarries DEF Carries, AccountCarried
  <2>2. CASE CommitAccounts(p) BY <2>2, AccountsCommitted
  <2>3. CASE \E b \in Account : ChangeOwnPassword(p, b) \/ Deactivate(p, b)
    BY <2>3, AccountWritten
  <2> QED BY <2>1, <2>2, <2>3, StepKinds
<1>2. IInv /\ [Next]_vars => [Kept]_vars BY <1>1
<1> HIDE DEF Kept
<1>3. Spec => [][Kept]_vars
  BY <1>2, StartsInOrder, NextKeeps, PTL DEF Spec
<1> QED BY <1>3 DEF Kept, CredentialsKept
=============================================================================
