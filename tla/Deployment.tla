----------------------------- MODULE Deployment -----------------------------
(***************************************************************************)
(* Processes of several releases that start against one database: API      *)
(* replicas, with or without AUTO_MIGRATE, the migrate command, and the    *)
(* commands that provision accounts (seed-superadmin, bootstrap,           *)
(* bootstrap-superadmin).  They connect with a bounded number of attempts, *)
(* bring the schema up to date in one transaction, insert or reset         *)
(* accounts, and serve; they are stopped, crash, lose the answer to a      *)
(* commit and are started again, while replicas of older releases go on    *)
(* writing sales.                                                          *)
(*                                                                         *)
(* The database is one record: the migrations recorded and the objects     *)
(* that they made, the users with their memberships, a session of each,    *)
(* the sales of Production and what the change feed last said of a user.   *)
(* tx is the open transaction of a migration: what it sees (view), the     *)
(* tables with deferred constraint events outstanding, the tables and the  *)
(* sales that it has locked.  A write that commits meanwhile changes both. *)
(*                                                                         *)
(* What the code of releases 3 and 6 wrote is known from the migrations    *)
(* that kept them working.  Terminals, packages after their seed, indexes  *)
(* and the constraints that tie rows to a tenant (SandboxLifecycle) are    *)
(* reduced to the tables whose definition a migration changes.             *)
(***************************************************************************)
EXTENDS Integers, FiniteSets

CONSTANTS
    Process,        \* processes that may be started
    Account,        \* usernames
    Sale,           \* transaction ids
    Jobs,           \* assignments of a job to every process
    Databases,      \* databases to start from
    Manifest,       \* users of the bootstrap manifest, with their roles
    Sample,         \* DEV_SUPERADMIN_USERNAME
    MaxAttempts,    \* DB_CONNECT_MAX_ATTEMPTS
    MaxStarts,      \* bound on the starts of processes
    MaxFaults,      \* bound on failed attempts, lost answers and crashes
    MaxWrites,      \* bound on writes of serving replicas
    MaxRevision,    \* bound on the revisions of a sale
    NONE            \* no user, no sale, no value, no transaction

ASSUME DeploymentAssumption ==
    /\ MaxAttempts \in Nat \ {0} /\ MaxRevision \in Nat \ {0}
    /\ Sample \in Account
    /\ DOMAIN Manifest \subseteq Account
    /\ \A a \in DOMAIN Manifest : Manifest[a] \in {"admin", "superadmin"}

VARIABLES
    db,         \* the committed database
    tx,         \* the open migration transaction
    org,        \* holder of the organization-account-administration lock
    staged,     \* uncommitted account changes of each process
    job,        \* what each process is started for
    pc,         \* where each process is
    tries,      \* failed attempts of the retry that a process is in
    starts, faults, writes

counters == <<starts, faults, writes>>
vars == <<db, tx, org, staged, job, pc, tries, counters>>

(* Rows of users and of transactions.                                       *)
UserRow ==
    [role : {"admin", "superadmin"}, active : BOOLEAN,
     password : {"old", "temporary", "own"}, must : BOOLEAN, platform : BOOLEAN,
     origin : {"app", "seed", "bootstrap", "first"}]

SaleRow ==
    [rev : 1..MaxRevision, total : 1..2, amount : 1..2 \cup {NONE}, seller : Account,
     status : {"pending", "success", "failed", NONE}, confirmed : 1..MaxRevision \cup {NONE}]

(* What the change feed says of a user.                                     *)
FeedRow == [role : {"admin", "superadmin"}, active : BOOLEAN, must : BOOLEAN]

(* The kinds of process.  An API replica of a release knows the migrations  *)
(* up to it; the commands are those of the latest one.                      *)
Latest == 10
Known(p) == 1..job[p].release

Serving(p) == pc[p] = "serving"

(***************************************************************************)
(* MIGRATIONS.  Each takes the transaction and returns it after its        *)
(* statements; refused is set when PostgreSQL rejects one of them.         *)
(***************************************************************************)
Least(S) == CHOOSE x \in S : \A y \in S : x <= y

(* Changing the definition of a table waits for its users and keeps them    *)
(* out until the commit.  It is refused while the transaction itself has    *)
(* deferred constraint events outstanding on the table.                     *)
Alter(t, tables) ==
    [t EXCEPT !.locks = @ \cup tables,
              !.refused = @ \/ t.pending \cap tables # {}]

(* CREATE and ADD without IF NOT EXISTS work once.                          *)
Make(t, version) ==
    [t EXCEPT !.view.made = @ \cup {version}, !.refused = @ \/ version \in t.view.made]

(* Mutant of SettleConstraints: the constraints stay deferred.              *)
DeferConstraints(t) == t

(* SET CONSTRAINTS ALL IMMEDIATE fires what is outstanding.                 *)
SettleConstraints(t) == [t EXCEPT !.pending = {}]

(* transactions_payment_confirmation_shape *)
ConfirmationShape(sale) ==
    IF sale.status = "success" THEN sale.confirmed = sale.rev ELSE sale.confirmed = NONE

(* UPDATE transactions: the rows stay locked, the checks hold for them.     *)
Rewrite(t, change(_), which(_)) ==
    LET rows == {s \in Sale : t.view.sales[s] # NONE /\ which(t.view.sales[s])} IN
    [t EXCEPT !.view.sales = [s \in Sale |->
                IF s \in rows THEN change(t.view.sales[s]) ELSE t.view.sales[s]],
              !.rows = @ \cup rows,
              !.refused = @ \/ \E s \in rows : ~ConfirmationShape(change(t.view.sales[s]))]

(* The packages are inserted with their circular, deferred current_revision *)
(* constraint: its events wait for the commit.                              *)
SeedPackages(t) == [t EXCEPT !.view.seeded = TRUE, !.pending = @ \cup {"packages"}]

InitialTables ==
    {"users", "terminals", "sessions", "packages", "package_revisions", "transactions",
     "transaction_revisions", "transaction_items", "print_attempts", "audit_events",
     "sync_changes", "idempotency_records"}

MigrateInitialSchema(t) == SeedPackages([t EXCEPT !.locks = @ \cup InitialTables])

(* Every sale accepted until now was paid.                                  *)
MigrateTransactionPayments(t) ==
    LET Backfill(sale) == [sale EXCEPT !.status = "success", !.confirmed = sale.rev]
    IN Rewrite(Alter(t, {"transactions"}), Backfill, LAMBDA sale : sale.status = NONE)

(* NULL for every row written before; the revisions are append-only.        *)
MigrateQrisPayloadBinding(t) == Alter(t, {"transactions", "transaction_revisions"})

ScopedTables ==
    {"packages", "package_revisions", "transactions", "transaction_revisions",
     "transaction_items", "print_attempts", "audit_events", "sync_changes",
     "idempotency_records"}

(* The amount to pay of a sale that exists is its total.                    *)
MigrateSandboxDataSpaces(t) ==
    LET Backfill(sale) == [sale EXCEPT !.amount = sale.total] IN
    Rewrite(Make(Alter(SettleConstraints(t), ScopedTables \cup {"sessions"}), 4),
            Backfill, LAMBDA sale : sale.amount = NONE)

(* Mutant of MembershipsOf: everybody becomes an admin.                     *)
PlainMemberships(users) ==
    [a \in Account |->
        CASE users[a] = NONE -> NONE
          [] users[a] # NONE -> IF users[a].active THEN "admin" ELSE "inactive"]

(* INSERT INTO tenant_memberships ... SELECT ... FROM users *)
MembershipsOf(users) ==
    [a \in Account |->
        CASE users[a] = NONE -> NONE
          [] users[a] # NONE -> IF users[a].active THEN users[a].role ELSE "inactive"]

(* Memberships are what sessions and sales refer to from here on.           *)
MigrateTenants(t) ==
    LET members == MembershipsOf(t.view.users)
        signedIn == {a \in Account : t.view.sessions[a] # "none"}
        sellers == {t.view.sales[s].seller : s \in {x \in Sale : t.view.sales[x] # NONE}}
        altered == Make(Alter(SettleConstraints(t),
                              ScopedTables \cup {"users", "sessions", "terminals"}), 5)
    IN [altered EXCEPT
          !.view.members = members,
          !.refused = @ \/ \E a \in signedIn \cup sellers : members[a] = NONE]

(* Whom the role mapping makes superadmin: active accounts only.            *)
GlobalRole(d, a) ==
    IF d.users[a].platform \/ d.members[a] = "superadmin" THEN "superadmin" ELSE "admin"

Projection(user) == [role |-> user.role, active |-> user.active, must |-> user.must]

(* Mutant of MigrateInternalOrganization: the users are published before    *)
(* their roles are mapped.                                                  *)
PublishesFirst(t) ==
    LET users == [a \in Account |->
            IF t.view.users[a] # NONE /\ t.view.users[a].active
            THEN [t.view.users[a] EXCEPT !.role = GlobalRole(t.view, a)]
            ELSE t.view.users[a]]
    IN [Make(Alter(t, {"sessions", "tenants", "sync_changes"}), 6) EXCEPT
          !.view.users = users,
          !.view.fed = [a \in Account |->
                IF users[a] = NONE THEN t.view.fed[a] ELSE Projection(t.view.users[a])]]

MigrateInternalOrganization(t) ==
    LET users == [a \in Account |->
            IF t.view.users[a] # NONE /\ t.view.users[a].active
            THEN [t.view.users[a] EXCEPT !.role = GlobalRole(t.view, a)]
            ELSE t.view.users[a]]
    IN [Make(Alter(t, {"sessions", "tenants", "sync_changes"}), 6) EXCEPT
          !.view.users = users,
          !.view.fed = [a \in Account |->
                IF users[a] = NONE THEN t.view.fed[a] ELSE Projection(users[a])]]

(* What is pending or failed is promoted, in the one statement that the     *)
(* check on its two columns allows.                                         *)
MigratePaymentsAutoConfirmed(t) ==
    LET Promote(sale) == [sale EXCEPT !.status = "success", !.confirmed = sale.rev]
    IN Rewrite(t, Promote, LAMBDA sale : sale.status # "success")

MigrateTenantSandboxSetting(t) == Make(Alter(t, {"tenants"}), 8)

MigrateQueryIndexes(t) ==
    Make(Alter(t, (ScopedTables \ {"sync_changes", "idempotency_records"})
                    \cup {"sessions", "platform_audit_events"}), 9)

MigrateTransactionIDSearchIndex(t) == Make(Alter(t, {"transactions"}), 10)

orderedMigrations(version, t) ==
    CASE version = 1 -> MigrateInitialSchema(t)
      [] version = 2 -> MigrateTransactionPayments(t)
      [] version = 3 -> MigrateQrisPayloadBinding(t)
      [] version = 4 -> MigrateSandboxDataSpaces(t)
      [] version = 5 -> MigrateTenants(t)
      [] version = 6 -> MigrateInternalOrganization(t)
      [] version = 7 -> MigratePaymentsAutoConfirmed(t)
      [] version = 8 -> MigrateTenantSandboxSetting(t)
      [] version = 9 -> MigrateQueryIndexes(t)
      [] version = 10 -> MigrateTransactionIDSearchIndex(t)

(***************************************************************************)
(* STARTING.                                                               *)
(***************************************************************************)
OneShot(p) == job[p].kind \in {"seed", "bootstrap", "first"}

(* retry.Do: the API and migrate try MaxAttempts times, the others once.    *)
Attempts(p) == IF OneShot(p) THEN 1 ELSE MaxAttempts

Migrates(p) == job[p].kind \in {"migrate", "seed"} \/ job[p].auto

AfterMigrations(p) ==
    CASE job[p].kind = "api" -> "serving"
      [] job[p].kind = "migrate" -> "done"
      [] OTHER -> "deciding"

Goto(p, place) ==
    /\ pc' = [pc EXCEPT ![p] = place]
    /\ tries' = [tries EXCEPT ![p] = 0]

Start(p) ==
    /\ pc[p] \in {"off", "failed", "done"}
    /\ starts < MaxStarts
    /\ starts' = starts + 1
    /\ Goto(p, "connecting")
    /\ UNCHANGED <<db, tx, org, staged, job, faults, writes>>

Connect(p) ==
    /\ pc[p] = "connecting"
    /\ Goto(p, IF Migrates(p) THEN "migrating" ELSE AfterMigrations(p))
    /\ UNCHANGED <<db, tx, org, staged, job, counters>>

(* A failed attempt is repeated after a pause, unless it was the last one   *)
(* or the deadline passes meanwhile.  Only the API connects without one.    *)
Retry(p) ==
    LET place == IF pc[p] = "connecting" THEN "connecting" ELSE "migrating"
        endless == job[p].kind = "api" /\ pc[p] = "connecting"
    IN \/ /\ tries[p] + 1 < Attempts(p)
          /\ tries' = [tries EXCEPT ![p] = @ + 1]
          /\ pc' = [pc EXCEPT ![p] = place]
       \/ /\ tries[p] + 1 = Attempts(p) \/ ~endless
          /\ Goto(p, "failed")

Owns(p) == tx # NONE /\ tx.owner = p

(* Mutant of RolledBack: a lock of the session, not of the transaction.     *)
LeftLocked(p) == tx

(* What is left of the migration when the transaction of p is undone.       *)
RolledBack(p) == IF Owns(p) THEN NONE ELSE tx

AttemptFails(p) ==
    /\ pc[p] \in {"connecting", "migrating", "upgrading"}
    /\ IF Owns(p) /\ tx.refused
       THEN UNCHANGED faults
       ELSE faults < MaxFaults /\ faults' = faults + 1
    /\ Retry(p)
    /\ tx' = RolledBack(p)
    /\ UNCHANGED <<db, org, staged, job, starts, writes>>

(***************************************************************************)
(* migrations.Apply: one transaction under an advisory lock.               *)
(***************************************************************************)
BeginUpgrade(p) ==
    /\ pc[p] = "migrating"
    /\ tx = NONE
    /\ tx' = [owner |-> p, view |-> db, pending |-> {}, locks |-> {}, rows |-> {},
              refused |-> FALSE]
    /\ pc' = [pc EXCEPT ![p] = "upgrading"]
    /\ UNCHANGED <<db, org, staged, job, tries, counters>>

(* What an account transaction reads, writes or refers to.                  *)
AccountTables == {"users", "sessions", "tenants", "audit_events", "sync_changes"}

Outstanding(p) == Known(p) \ tx.view.versions

(* The next migration that is not recorded runs and is recorded.            *)
Migrate(p) ==
    /\ pc[p] = "upgrading" /\ ~tx.refused /\ Outstanding(p) # {}
    /\ LET version == Least(Outstanding(p))
           after == orderedMigrations(version, tx)
       IN /\ (after.locks \ tx.locks) \cap AccountTables # {} => \A q \in Process : staged[q] = NONE
          /\ tx' = [after EXCEPT !.view.versions = @ \cup {version}]
    /\ UNCHANGED <<db, org, staged, job, pc, tries, counters>>

(* The answer to the commit may be lost: what was done is found recorded.   *)
CommitUpgrade(p) ==
    /\ pc[p] = "upgrading" /\ ~tx.refused /\ Outstanding(p) = {}
    /\ db' = tx.view
    /\ tx' = NONE
    /\ \/ Goto(p, AfterMigrations(p)) /\ UNCHANGED faults
       \/ faults < MaxFaults /\ faults' = faults + 1 /\ Retry(p)
    /\ UNCHANGED <<org, staged, job, starts, writes>>

(***************************************************************************)
(* Accounts: decided and written under the organization's lock.            *)
(***************************************************************************)
(* A migration that has changed these tables is waited for.                 *)
AccountsOpen == tx # NONE => tx.locks \cap AccountTables = {}

ActiveSuperadmin(d, a) == d.users[a] # NONE /\ d.users[a].active /\ d.users[a].role = "superadmin"

Wanted(p) ==
    CASE job[p].kind = "bootstrap" -> Manifest
      [] job[p].kind = "seed" -> [a \in {Sample} |-> "superadmin"]
      [] job[p].kind = "first" -> [a \in {job[p].account} |-> "superadmin"]

(* Mutant of Missing: existing accounts are written again.                  *)
Everyone(p) == DOMAIN Wanted(p)

Missing(p) == {a \in DOMAIN Wanted(p) : db.users[a] = NONE}

(* Mutant of OrganizationFree: the lock is not taken.                       *)
AnyoneDecides == TRUE

OrganizationFree == org = NONE

(* bootstrap.Apply: who exists must be who the manifest names.              *)
Applies(p) ==
    /\ 5 \in db.versions
    /\ \A a \in DOMAIN Wanted(p) \ Missing(p) : db.users[a].role = Wanted(p)[a]

(* bootstrap.ApplyInitialSuperadmin: the account is there already, or       *)
(* nobody is superadmin yet.                                                *)
AppliesFirst(p) ==
    /\ 6 \in db.versions
    /\ IF Missing(p) = {}
       THEN ActiveSuperadmin(db, job[p].account)
       ELSE \A a \in Account : ~ActiveSuperadmin(db, a)

Decide(p) ==
    /\ pc[p] = "deciding"
    /\ OrganizationFree /\ AccountsOpen
    /\ IF (job[p].kind = "first" /\ AppliesFirst(p)) \/ (job[p].kind # "first" /\ Applies(p))
       THEN /\ org' = p
            /\ staged' = [staged EXCEPT ![p] = [create |-> Missing(p), reset |-> FALSE]]
            /\ pc' = [pc EXCEPT ![p] = "committing"]
       ELSE /\ pc' = [pc EXCEPT ![p] = "failed"]
            /\ UNCHANGED <<org, staged>>
    /\ UNCHANGED <<db, tx, job, tries, counters>>

(* bootstrap.ResetSampleSuperadminPassword, only on request and only when   *)
(* the account was there before.                                            *)
DecideReset(p) ==
    /\ pc[p] = "resetting"
    /\ OrganizationFree /\ AccountsOpen
    /\ IF ActiveSuperadmin(db, Sample)
       THEN /\ org' = p
            /\ staged' = [staged EXCEPT ![p] = [create |-> {}, reset |-> TRUE]]
            /\ pc' = [pc EXCEPT ![p] = "committing"]
       ELSE /\ pc' = [pc EXCEPT ![p] = "failed"]
            /\ UNCHANGED <<org, staged>>
    /\ UNCHANGED <<db, tx, job, tries, counters>>

NewUser(p, a) ==
    [role |-> Wanted(p)[a], active |-> TRUE, password |-> "temporary", must |-> TRUE,
     platform |-> FALSE, origin |-> job[p].kind]

Created(p, d) ==
    LET new == staged[p].create IN
    [d EXCEPT !.users = [a \in Account |-> IF a \in new THEN NewUser(p, a) ELSE d.users[a]],
              !.members = [a \in Account |-> IF a \in new THEN Wanted(p)[a] ELSE d.members[a]],
              !.fed = [a \in Account |-> IF a \in new THEN Projection(NewUser(p, a)) ELSE d.fed[a]]]

PasswordReset(d) ==
    LET after == [d.users[Sample] EXCEPT !.password = "temporary", !.must = TRUE] IN
    [d EXCEPT !.users[Sample] = after,
              !.fed[Sample] = Projection(after),
              !.sessions[Sample] = IF @ = "live" THEN "revoked" ELSE @]

(* A committed change is seen by a migration that has not locked it.        *)
Publish(Change(_)) ==
    /\ db' = Change(db)
    /\ tx' = IF tx = NONE THEN NONE ELSE [tx EXCEPT !.view = Change(@)]

CommitAccounts(p) ==
    /\ pc[p] = "committing"
    /\ IF staged[p].reset THEN Publish(PasswordReset) ELSE Publish(LAMBDA d : Created(p, d))
    /\ org' = NONE
    /\ staged' = [staged EXCEPT ![p] = NONE]
    /\ \/ /\ Goto(p, IF job[p].kind = "seed" /\ job[p].reset /\ ~staged[p].reset
                        /\ staged[p].create = {} THEN "resetting" ELSE "done")
          /\ UNCHANGED faults
       \/ faults < MaxFaults /\ faults' = faults + 1 /\ Goto(p, "failed")
    /\ UNCHANGED <<job, starts, writes>>

(* A process dies, or its command gives up: what it had open is undone.     *)
Crash(p) ==
    /\ pc[p] \in {"upgrading", "deciding", "committing", "resetting", "serving"}
    /\ faults < MaxFaults /\ faults' = faults + 1
    /\ Goto(p, "off")
    /\ tx' = RolledBack(p)
    /\ org' = IF org = p THEN NONE ELSE org
    /\ staged' = [staged EXCEPT ![p] = NONE]
    /\ UNCHANGED <<db, job, starts, writes>>

(* SIGTERM: no new requests, those running end.                             *)
Shutdown(p) ==
    /\ Serving(p)
    /\ Goto(p, "done")
    /\ UNCHANGED <<db, tx, org, staged, job, counters>>

(***************************************************************************)
(* What serving replicas write meanwhile.                                  *)
(***************************************************************************)
(* An insert of an older release has no data space and no tenant after      *)
(* migration 5; a newer release names columns that must be there.           *)
Accepted(p) ==
    /\ 1..Least({job[p].release, 8}) \subseteq db.versions
    /\ job[p].release < 5 => 5 \notin db.versions

Unlocked(s) == tx # NONE => "transactions" \notin tx.locks /\ s \notin tx.rows

(* Mutant of maintain_legacy_production_payment_amount: corrections are     *)
(* not followed.                                                            *)
FillAmount(old, new) ==
    IF old = NONE /\ new.amount = NONE THEN [new EXCEPT !.amount = new.total] ELSE new

(* Trigger transactions_legacy_production_payment_amount, from migration 4. *)
maintain_legacy_production_payment_amount(old, new) ==
    IF \/ old = NONE /\ new.amount = NONE
       \/ old # NONE /\ new.total # old.total /\ new.amount = old.amount
    THEN [new EXCEPT !.amount = new.total]
    ELSE new

Store(s, row) ==
    LET stored == IF 4 \in db.versions
                  THEN maintain_legacy_production_payment_amount(db.sales[s], row)
                  ELSE row
    IN Publish(LAMBDA d : [d EXCEPT !.sales[s] = stored])

Writes(p) ==
    /\ Serving(p) /\ Accepted(p)
    /\ writes < MaxWrites /\ writes' = writes + 1
    /\ UNCHANGED <<org, staged, job, pc, tries, starts, faults>>

(* Release 7 and later confirm with the sale; release 4 and later say what  *)
(* is to be paid.                                                           *)
CreateSale(p, s, a, total) ==
    /\ Writes(p) /\ Unlocked(s)
    /\ db.sales[s] = NONE /\ db.users[a] # NONE
    /\ Store(s, [rev |-> 1, total |-> total, seller |-> a,
                 amount |-> IF job[p].release < 4 THEN NONE ELSE total,
                 status |-> IF job[p].release < 7 THEN "pending" ELSE "success",
                 confirmed |-> IF job[p].release < 7 THEN NONE ELSE 1])

CorrectSale(p, s, total) ==
    /\ Writes(p) /\ Unlocked(s)
    /\ db.sales[s] # NONE /\ db.sales[s].rev < MaxRevision
    /\ LET old == db.sales[s] IN
       Store(s, [old EXCEPT !.rev = @ + 1, !.total = total,
                            !.amount = IF job[p].release < 4 THEN @ ELSE total,
                            !.status = IF job[p].release < 7 THEN "pending" ELSE "success",
                            !.confirmed = IF job[p].release < 7 THEN NONE ELSE old.rev + 1])

(* UpdatePaymentStatus of the releases that had a confirmation step.        *)
SettlePayment(p, s, status) ==
    /\ Writes(p) /\ Unlocked(s) /\ job[p].release < 7
    /\ db.sales[s] # NONE
    /\ Store(s, [db.sales[s] EXCEPT !.status = status,
                    !.confirmed = IF status = "success" THEN db.sales[s].rev ELSE NONE])

(* The owner of an account chooses a password of her own.                   *)
ChangeOwnPassword(p, a) ==
    /\ Writes(p) /\ job[p].release = Latest /\ AccountsOpen
    /\ db.users[a] # NONE /\ db.users[a].active
    /\ \A q \in Process : staged[q] # NONE /\ staged[q].reset => a # Sample
    /\ Publish(LAMBDA d : [d EXCEPT !.users[a].password = "own", !.users[a].must = FALSE,
                                    !.fed[a].must = FALSE])

(* A superadmin deactivates another account.                                *)
Deactivate(p, a) ==
    /\ Writes(p) /\ job[p].release = Latest /\ AccountsOpen /\ OrganizationFree
    /\ db.users[a] # NONE /\ db.users[a].active
    /\ \E b \in Account \ {a} : ActiveSuperadmin(db, b)
    /\ Publish(LAMBDA d : [d EXCEPT !.users[a].active = FALSE, !.fed[a].active = FALSE,
                                    !.sessions[a] = IF @ = "live" THEN "revoked" ELSE @])

(***************************************************************************)
(* WHAT IS THERE BEFORE.  A replica is of release 2 or later: the first    *)
(* one knew nothing of payments and is not described.                      *)
(***************************************************************************)
Job ==
    [kind : {"api", "migrate", "seed", "bootstrap", "first"}, release : 2..Latest,
     auto : BOOLEAN, reset : BOOLEAN, account : Account]

Database ==
    [versions : SUBSET (1..Latest), made : SUBSET (1..Latest), seeded : BOOLEAN,
     users : [Account -> UserRow \cup {NONE}],
     members : [Account -> {"admin", "superadmin", "inactive", NONE}],
     sessions : [Account -> {"none", "live", "revoked"}],
     sales : [Sale -> SaleRow \cup {NONE}],
     fed : [Account -> FeedRow \cup {NONE}]]

(* The migrations that create something without IF NOT EXISTS.              *)
MadeOnce == {4, 5, 6, 8, 9, 10}

(* What a release leaves: migrations recorded from the first one on, sales  *)
(* with the columns they have by then, sellers and sessions of users that   *)
(* exist, no superadmin of the platform before there were tenants.          *)
VersionsInOrder(d) ==
    /\ \E n \in 0..Latest : d.versions = 1..n
    /\ d.made = d.versions \cap MadeOnce

SaleInOrder(d, sale) ==
    /\ ConfirmationShape(sale)
    /\ 2 \in d.versions <=> sale.status # NONE
    /\ sale.amount = IF 4 \in d.versions THEN sale.total ELSE NONE
    /\ d.users[sale.seller] # NONE

SalesInOrder(d) == \A s \in Sale : d.sales[s] # NONE => SaleInOrder(d, d.sales[s])

AccountInOrder(d, a) ==
    /\ d.sessions[a] # "none" => d.users[a] # NONE
    /\ d.users[a] # NONE =>
          /\ (5 \notin d.versions => ~d.users[a].platform)
          /\ (6 \in d.versions => d.fed[a] = Projection(d.users[a]))

AccountsInOrder(d) == \A a \in Account : AccountInOrder(d, a)

InOrder(d) == VersionsInOrder(d) /\ SalesInOrder(d) /\ AccountsInOrder(d)

ASSUME BeforeAssumption ==
    /\ \A j \in Jobs : j \in [Process -> Job]
    /\ \A d \in Databases : d \in Database /\ InOrder(d)

(* Uncommitted account changes, and the open transaction of a migration.    *)
Staged == [create : SUBSET Account, reset : BOOLEAN]

Table == InitialTables \cup {"tenants", "platform_audit_events"}

Transaction ==
    [owner : Process, view : Database, pending : SUBSET {"packages"},
     locks : SUBSET Table, rows : SUBSET Sale, refused : BOOLEAN]

ASSUME NoneAssumption ==
    /\ NONE \notin Nat /\ NONE \notin Process
    /\ NONE \notin {"pending", "success", "failed", "admin", "superadmin", "inactive"}
    /\ NONE \notin UserRow /\ NONE \notin SaleRow /\ NONE \notin FeedRow
    /\ NONE \notin Staged /\ NONE \notin Transaction

(***************************************************************************)
(* THE SYSTEM.                                                             *)
(***************************************************************************)
Init ==
    /\ db \in Databases /\ job \in Jobs
    /\ tx = NONE /\ org = NONE
    /\ staged = [p \in Process |-> NONE]
    /\ pc = [p \in Process |-> "off"]
    /\ tries = [p \in Process |-> 0]
    /\ starts = 0 /\ faults = 0 /\ writes = 0

(* What a process does by itself once it is started.                        *)
Proceed(p) ==
    \/ Connect(p) \/ BeginUpgrade(p) \/ Migrate(p) \/ CommitUpgrade(p)
    \/ Decide(p) \/ DecideReset(p) \/ CommitAccounts(p)

Environment(p) ==
    \/ Start(p) \/ AttemptFails(p) \/ Crash(p) \/ Shutdown(p)
    \/ \E s \in Sale, total \in 1..2 :
        \/ \E a \in Account : CreateSale(p, s, a, total)
        \/ CorrectSale(p, s, total)
    \/ \E s \in Sale, status \in {"success", "failed"} : SettlePayment(p, s, status)
    \/ \E a \in Account : ChangeOwnPassword(p, a) \/ Deactivate(p, a)

Next == \E p \in Process : Proceed(p) \/ Environment(p)

(* A started process runs, its statements are answered, and PostgreSQL      *)
(* gives a lock to one who waits for it.                                    *)
Spec == Init /\ [][Next]_vars /\ \A p \in Process : WF_vars(Proceed(p))

(***************************************************************************)
(* PROPERTIES.                                                             *)
(***************************************************************************)
TypeOK ==
    /\ db \in Database
    /\ tx \in Transaction \cup {NONE}
    /\ staged \in [Process -> Staged \cup {NONE}]
    /\ job \in [Process -> Job]
    /\ org \in Process \cup {NONE}
    /\ pc \in [Process -> {"off", "connecting", "migrating", "upgrading", "deciding",
                          "committing", "resetting", "serving", "done", "failed"}]
    /\ tries \in [Process -> 0..MaxAttempts]

(* No migration is refused by PostgreSQL: not by the rows that earlier      *)
(* releases left, disabled users among them, not by constraint events that  *)
(* an earlier migration of the same transaction left outstanding, and not   *)
(* because an attempt whose answer was lost had done it already             *)
(* (migrations/000004_sandbox_data_spaces.go:18-31, 000005_tenants.go:44).  *)
MigrationsFit == tx # NONE => ~tx.refused

(* While replicas that know nothing of payment_amount still create and      *)
(* correct sales, the amount to pay of a Production sale is its total       *)
(* (000004_sandbox_data_spaces.go:76-80).                                   *)
AmountFollowsTotal ==
    4 \in db.versions =>
        \A s \in Sale : db.sales[s] # NONE => db.sales[s].amount = db.sales[s].total

(* A process that migrates serves, or reports success, only when every      *)
(* migration it knows is recorded; a command that provisions accounts only  *)
(* when they are there.  So it is after lost answers, crashes and races     *)
(* (migrate.go:46-91, retry.go:46-80, bootstrap.go:92-93).                  *)
EndsAsPromised ==
    \A p \in Process : pc[p] \in {"serving", "done"} =>
        /\ Migrates(p) => Known(p) \subseteq db.versions
        /\ OneShot(p) => Missing(p) = {}

(* From migration 6 on the feed says of every user what the users table     *)
(* says, whoever changed it and however the upgrade and the commands        *)
(* interleave (000006_internal_organization.go:37-53, bootstrap.go:171-180).*)
AccountsPublished ==
    6 \in db.versions =>
        \A a \in Account : db.users[a] # NONE => db.fed[a] = Projection(db.users[a])

(* bootstrap-superadmin creates an account only in an organization without  *)
(* an active superadmin, also when two of them, or another command, run at  *)
(* the same time (initial_superadmin.go:93-97).                             *)
FirstIsFirst ==
    [][\A a \in Account :
         db.users[a] = NONE /\ db'.users[a] # NONE /\ db'.users[a].origin = "first"
            => \A b \in Account : ~ActiveSuperadmin(db, b)]_vars

Paid(d, s) == d.sales[s] # NONE /\ (2 \in d.versions => d.sales[s].status = "success")

(* Who administers the organization: by users.role, except in a database    *)
(* that has memberships and no global roles yet.                            *)
Authority(d, a) ==
    /\ d.users[a] # NONE /\ d.users[a].active
    /\ IF 5 \in d.versions /\ 6 \notin d.versions
       THEN d.users[a].platform \/ d.members[a] = "superadmin"
       ELSE d.users[a].role = "superadmin"

(* An upgrade, from any release, takes nothing away and gives nothing: what *)
(* was paid stays paid, totals and revisions stay, and the same people      *)
(* administer the organization, with the passwords and sessions they had    *)
(* (000002_transaction_payments.go:42-44, 000006:24-25, 000007:26-29).      *)
UpgradesKeepRecords ==
    [][db'.versions # db.versions =>
         /\ \A s \in Sale : db.sales[s] # NONE =>
                /\ Paid(db, s) => Paid(db', s)
                /\ db'.sales[s].rev = db.sales[s].rev /\ db'.sales[s].total = db.sales[s].total
         /\ \A a \in Account :
                /\ Authority(db, a) <=> Authority(db', a)
                /\ db.users[a] # NONE => db'.users[a].password = db.users[a].password
         /\ db'.sessions = db.sessions]_vars

(* The password of an account that exists is changed by its owner, or by a  *)
(* seed that was asked to reset it, which ends its sessions; a command that *)
(* is run again changes nothing (bootstrap.go:92-93, 193-195).              *)
CredentialsKept ==
    [][\A a \in Account :
         db.users[a] # NONE /\ db'.users[a].password # db.users[a].password =>
            \/ db'.users[a].password = "own"
            \/ /\ a = Sample /\ \E p \in Process : job[p].kind = "seed" /\ job[p].reset
               /\ db'.users[a].must /\ db'.sessions[a] # "live"]_vars

(* Every start ends, as it promised: the process serves, reports success or *)
(* gives up, also when another one died while it held the migration lock or *)
(* the organization's (retry.go:46-80, migrate.go:56-60).                   *)
EveryStartEnds ==
    /\ []EndsAsPromised
    /\ \A p \in Process : pc[p] = "connecting" ~> pc[p] \in {"serving", "done", "failed", "off"}

=============================================================================
