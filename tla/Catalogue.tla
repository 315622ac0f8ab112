----------------------------- MODULE Catalogue ------------------------------
(***************************************************************************)
(* The packages that a business rents out and its settings (receipt        *)
(* profile, QRIS payloads, name), which superadmins edit concurrently, and *)
(* the copies of both from which a device sells while it is offline.       *)
(*                                                                         *)
(* A request is cut where another one may interleave: what the handler     *)
(* reads before its transaction (Ask...), the statement that locks the row *)
(* (Begin..., Lock...), and the commit.  A change draws its cursor under   *)
(* the lock and is seen at the commit.                                     *)
(*                                                                         *)
(* One tenant and its Production data space.  A package's content is its   *)
(* price, a QRIS payload is the revision that brought it.  Names, audit    *)
(* rows, the changes published for settings (devices read these over REST) *)
(* and who may edit (AccountSessions) are left out.                        *)
(***************************************************************************)
EXTENDS PgLocks, FiniteSets, Naturals, SequencesExt

CONSTANTS
    Package,        \* package ids
    Price,          \* the prices that superadmins give
    Traffic,        \* the kinds of request that are sent together
    Worker,         \* concurrent requests of superadmins
    MaxRevision,    \* bound on the revisions of a package or a setting
    MaxCursor,      \* bound on the changes published
    PageSize,       \* changes in one page of a pull
    NoPackage,      \* a package that was not created yet, or not pulled
    NoRows          \* no page, or a page without its rows

(* A row of packages with its package_revisions, and of packages_local. *)
Stored == [history : Seq([price : Price, base : Nat]), deleted : BOOLEAN]
Row == [revision : 1 .. MaxRevision, price : Price, offered : BOOLEAN]

ASSUME CatalogueAssumption ==
    /\ Price \subseteq Nat \ {0} /\ Price # {}
    /\ MaxRevision \in Nat \ {0} /\ MaxCursor \in Nat /\ PageSize \in Nat \ {0}
    /\ NoPackage \notin Package \cup Stored \cup Row

VARIABLES
    packages,   \* packages with their package_revisions
    settings,   \* the revisions of each setting of the tenant
    active,     \* tenants.qris_revision, 0 for none
    log,        \* the package changes that a reader sees
    nextCursor, \* the sequence that cursors are drawn from
    sent,       \* the kinds of request sent in this behaviour
    tr,         \* the request of each worker
    copy,       \* packages_local of the device
    cursor,     \* the device's cursor
    page,       \* a page that the device is pulling
    listing,    \* the last answer to GET /packages, which the device caches
    config,     \* tenant_configuration of the device
    sales       \* sales of the device that the server has not seen

serverVars == <<packages, settings, active, log, nextCursor, sent, tr>>
deviceVars == <<copy, cursor, page, listing, config, sales>>
vars == <<serverVars, deviceVars>>

Setting == {"profile", "qris", "metadata"}

(* The revision a package or a setting is at; the stored ones are 1 to it. *)
Revision(p) == Len(packages[p].history)

Present(p) == packages[p] # NoPackage

(***************************************************************************)
(* No request.  A request in flight keeps what it asks for (package and    *)
(* price, or setting, whether to activate), the revision it is based on    *)
(* (base, 0 if it states none), the revision its locking statement has     *)
(* seen, its locks, and the cursor it has drawn.                           *)
(***************************************************************************)
Idle == [pc |-> "idle", kind |-> "none", package |-> NoPackage, price |-> 0,
         setting |-> "none", activate |-> FALSE, base |-> 0, seen |-> 0,
         held |-> {}, cursor |-> 0]

At(w, pc, kinds) == tr[w].pc = pc /\ tr[w].kind \in kinds

Granted(w, wanted) ==
    Grantable(wanted, UNION {tr[v].held : v \in Worker \ {w}})

(* Only the request moves. *)
Goto(w, request) ==
    /\ tr' = [tr EXCEPT ![w] = request]
    /\ UNCHANGED <<packages, settings, active, log, nextCursor, sent, deviceVars>>

(* The request ends with an error, and its transaction is rolled back. *)
Refuse(w) == Goto(w, Idle)

(* The request is about to commit, and addChange has drawn its cursor. *)
Stage(w, request) ==
    /\ nextCursor < MaxCursor
    /\ nextCursor' = nextCursor + 1
    /\ tr' = [tr EXCEPT ![w] = [request EXCEPT !.pc = "staged",
                                               !.cursor = nextCursor + 1]]
    /\ UNCHANGED <<packages, settings, active, log, sent, deviceVars>>

(* The commit shows the package and its change. *)
CommitPackage(w, row) ==
    LET q == tr[w] IN
    /\ packages' = [packages EXCEPT ![q.package] = row]
    /\ log' = log \cup {[cursor |-> q.cursor, package |-> q.package,
                         tombstone |-> row.deleted]}
    /\ tr' = [tr EXCEPT ![w] = Idle]
    /\ UNCHANGED <<settings, active, nextCursor, sent, deviceVars>>

(* The tenant starts with its profile, its name and no QRIS or package.    *)
(* A device that has pulled nothing knows no profile (revision 0) either.  *)
Init ==
    /\ packages = [p \in Package |-> NoPackage]
    /\ settings = [k \in Setting |->
                      IF k = "qris" THEN <<>> ELSE <<[base |-> 0]>>]
    /\ active = 0 /\ log = {} /\ nextCursor = 0
    /\ sent \in Traffic
    /\ tr = [w \in Worker |-> Idle]
    /\ copy = [p \in Package |-> NoPackage]
    /\ cursor = 0 /\ page = NoRows /\ listing = {}
    /\ config = [profile |-> 0, qris |-> 0]
    /\ sales = {}

-----------------------------------------------------------------------------
(* --- Packages ----------------------------------------------------------- *)
AskCreate(w, p, price) ==
    /\ tr[w] = Idle
    /\ ~Present(p) /\ \A v \in Worker : tr[v].package # p
    /\ Goto(w, [Idle EXCEPT !.pc = "asked", !.kind = "create",
                            !.package = p, !.price = price])

StageCreate(w) ==
    /\ At(w, "asked", {"create"})
    /\ Granted(w, {Share(<<"tenant">>)})
    /\ Stage(w, [tr[w] EXCEPT !.held = {Share(<<"tenant">>)}])

CommitCreate(w) ==
    /\ At(w, "staged", {"create"})
    /\ CommitPackage(w, [history |-> <<[price |-> tr[w].price, base |-> 0]>>,
                         deleted |-> FALSE])

(***************************************************************************)
(* PATCH of a package: the handler reads it without a lock, refuses a base *)
(* revision that is not the current one, fills in the fields that the      *)
(* client has left out (price "keep") from what it has read, and lets      *)
(* UpdatePackage write all of them, or DeletePackage if it is deactivated. *)
(***************************************************************************)
AskUpdate(w, p, base, price) ==
    /\ tr[w] = Idle
    /\ Present(p)
    /\ base \in {0, Revision(p)}
    /\ Goto(w, [Idle EXCEPT !.pc = "asked", !.kind = "update",
                  !.package = p, !.base = base,
                  !.price = IF price = 0 THEN Last(packages[p].history).price
                            ELSE price])

AskDelete(w, p) ==
    /\ tr[w] = Idle
    /\ Present(p)
    /\ Goto(w, [Idle EXCEPT !.pc = "asked", !.kind = "delete", !.package = p])

(* lockTenantAccess, and the snapshot of packageForUpdate's statement. *)
BeginWrite(w) ==
    LET q == tr[w] IN
    /\ At(w, "asked", {"update", "delete"})
    /\ Granted(w, {Share(<<"tenant">>)})
    /\ Goto(w, [q EXCEPT !.pc = "locking", !.seen = Revision(q.package),
                         !.held = {Share(<<"tenant">>)}])

(* FOR UPDATE OF p *)
RowLocks(q) == {Update(<<"package", q.package>>)}

(***************************************************************************)
(* The row is locked.  If its current revision has moved since the         *)
(* snapshot, the re-evaluated join no longer matches and the package is    *)
(* not found; a deleted one is a conflict.                                 *)
(***************************************************************************)
LockPackage(w) ==
    LET q == tr[w] IN
    /\ At(w, "locking", {"update", "delete"})
    /\ Granted(w, RowLocks(q))
    /\ IF q.seen = Revision(q.package) /\ ~packages[q.package].deleted
       THEN /\ q.kind = "update" => q.seen < MaxRevision
            /\ Stage(w, [q EXCEPT !.held = @ \cup RowLocks(q)])
       ELSE Refuse(w)

(* Mutant of Revised: the current revision is rewritten in place. *)
RevisedInPlace(row, price, base) ==
    [row EXCEPT !.history[Len(row.history)] = [price |-> price, base |-> base]]

(* INSERT INTO package_revisions, UPDATE packages SET current_revision. *)
Revised(row, price, base) ==
    [row EXCEPT !.history = Append(@, [price |-> price, base |-> base])]

CommitUpdate(w) ==
    LET q == tr[w] IN
    /\ At(w, "staged", {"update"})
    /\ CommitPackage(w, Revised(packages[q.package], q.price, q.base))

CommitDelete(w) ==
    /\ At(w, "staged", {"delete"})
    /\ CommitPackage(w, [packages[tr[w].package] EXCEPT !.deleted = TRUE])

(* --- Settings ----------------------------------------------------------- *)
(* The client sends the revision that its form was loaded with. *)
AskSetting(w, k, activate) ==
    /\ tr[w] = Idle
    /\ activate => k = "qris"
    /\ Goto(w, [Idle EXCEPT !.pc = "asked", !.kind = "setting", !.setting = k,
                            !.activate = activate, !.base = Len(settings[k])])

(* Mutant of SettingLocks: the tenant is read like in a business write. *)
TenantShared(q) == {Share(<<"tenant">>)}

(* lockTenantOwner, or lockControlAccount, and the tenant FOR UPDATE. *)
SettingLocks(q) == {Update(<<"tenant">>)}

LockSetting(w) ==
    LET q == tr[w] IN
    /\ At(w, "asked", {"setting"})
    /\ Granted(w, SettingLocks(q))
    /\ IF Len(settings[q.setting]) = q.base
       THEN /\ q.base < MaxRevision
            /\ Goto(w, [q EXCEPT !.pc = "staged", !.held = SettingLocks(q)])
       ELSE Refuse(w)

CommitSetting(w) ==
    LET q == tr[w]
        next == Append(settings[q.setting], [base |-> q.base])
    IN /\ At(w, "staged", {"setting"})
       /\ settings' = [settings EXCEPT ![q.setting] = next]
       /\ active' = IF q.activate THEN Len(next) ELSE active
       /\ tr' = [tr EXCEPT ![w] = Idle]
       /\ UNCHANGED <<packages, log, nextCursor, sent, deviceVars>>

(* The client, the process or the database gives up: all is rolled back. *)
Abort(w) == tr[w] # Idle /\ Refuse(w)

-----------------------------------------------------------------------------
(* --- The device --------------------------------------------------------- *)
(* The package as GetPackage and ListPackages show it now. *)
Shown(p) == [revision |-> Revision(p), price |-> Last(packages[p].history).price,
             offered |-> ~packages[p].deleted]

(* WHERE cursor > $2 ORDER BY cursor LIMIT $3: the first changes after a   *)
(* cursor, in order.                                                       *)
PagesAfter(c) ==
    LET later == {x \in log : x.cursor > c}
    IN {s \in UNION {[1 .. n -> later] : n \in 1 .. PageSize} :
           /\ \A i, j \in DOMAIN s : i < j => s[i].cursor < s[j].cursor
           /\ \A x \in later \ ToSet(s) : Len(s) = PageSize /\ x.cursor > Last(s).cursor}

PullPage ==
    /\ page = NoRows
    /\ \E s \in PagesAfter(cursor) : page' = [changes |-> s, rows |-> NoRows]
    /\ UNCHANGED <<serverVars, copy, cursor, listing, config, sales>>

(* syncChangePayload: the rows as they are after the changes were read. *)
ReadRows ==
    /\ page # NoRows /\ page.rows = NoRows
    /\ page' = [page EXCEPT !.rows =
          [i \in DOMAIN page.changes |-> Shown(page.changes[i].package)]]
    /\ UNCHANGED <<serverVars, copy, cursor, listing, config, sales>>

(* Mutant of Upserted: no WHERE excluded.revision >= packages_local.revision *)
UpsertedAlways(old, new) == new

(* upsertPackageWithDatabase *)
Upserted(old, new) ==
    IF old = NoPackage \/ new.revision >= old.revision THEN new ELSE old

(* One change applied: a tombstone hides the package, if the device has it. *)
Applied(before, change, row) ==
    LET p == change.package
        old == before[p]
    IN [before EXCEPT ![p] =
           IF ~change.tombstone THEN Upserted(old, row)
           ELSE IF old = NoPackage THEN old ELSE [old EXCEPT !.offered = FALSE]]

(* applyRemoteChanges: the page and the cursor in one local transaction. *)
InstallPage ==
    /\ page # NoRows /\ page.rows # NoRows
    /\ copy' = FoldLeftDomain(
                  LAMBDA before, i : Applied(before, page.changes[i], page.rows[i]),
                  copy, page.changes)
    /\ cursor' = Last(page.changes).cursor
    /\ page' = NoRows
    /\ UNCHANGED <<serverVars, listing, config, sales>>

(* The package screen reads the list, and installs what it has cached of   *)
(* it one package at a time, now and whenever it is opened again.          *)
FetchListing ==
    /\ listing' = {[package |-> p, row |-> Shown(p)] :
                      p \in {x \in Package : Present(x) /\ ~packages[x].deleted}}
    /\ UNCHANGED <<serverVars, copy, cursor, page, config, sales>>

InstallListed ==
    /\ \E item \in listing :
          copy' = [copy EXCEPT ![item.package] = Upserted(@, item.row)]
    /\ UNCHANGED <<serverVars, cursor, page, listing, config, sales>>

(* refreshTenantConfiguration, after a sync.  (That an answer read before   *)
(* may be cached after a later one only leaves the device behind again.)   *)
RefreshSettings ==
    /\ config' = [profile |-> Len(settings["profile"]), qris |-> active]
    /\ UNCHANGED <<serverVars, copy, cursor, page, listing, sales>>

(* The app is stopped, or its requests fail. *)
Interrupt ==
    /\ page' = NoRows /\ listing' = {}
    /\ UNCHANGED <<serverVars, copy, cursor, config, sales>>

(***************************************************************************)
(* createTransactionLocal: an offered package at the price of the copy,    *)
(* the profile for the receipt and, for QRIS (qris # 0), the payload.      *)
(***************************************************************************)
Sell(p, qris) ==
    /\ copy[p] # NoPackage /\ copy[p].offered
    /\ config.profile # 0 /\ sales = {}
    /\ sales' = {[package |-> p, revision |-> copy[p].revision,
                  price |-> copy[p].price, profile |-> config.profile,
                  qris |-> qris]}
    /\ UNCHANGED <<serverVars, copy, cursor, page, listing, config>>

(***************************************************************************)
(* What CreateTransaction asks of the catalogue: resolveItems (any stored  *)
(* revision, at its stored price), resolveReceiptIdentity and              *)
(* validateMerchantBinding.                                                *)
(***************************************************************************)
Resolves(sale) ==
    /\ Present(sale.package) /\ sale.revision \in 1 .. Revision(sale.package)
    /\ sale.price = packages[sale.package].history[sale.revision].price
    /\ sale.profile \in 1 .. Len(settings["profile"])
    /\ sale.qris \in 0 .. Len(settings["qris"])

Push ==
    /\ sales # {} /\ sales' = {}
    /\ UNCHANGED <<serverVars, copy, cursor, page, listing, config>>

-----------------------------------------------------------------------------
Ask(w) ==
    \/ \E p \in Package :
          \/ AskDelete(w, p)
          \/ \E price \in Price : AskCreate(w, p, price)
          \/ \E price \in {0} \cup Price, base \in 0 .. MaxRevision :
                AskUpdate(w, p, base, price)
    \/ \E k \in Setting, activate \in BOOLEAN : AskSetting(w, k, activate)

Proceed(w) ==
    \/ StageCreate(w) \/ CommitCreate(w)
    \/ BeginWrite(w) \/ LockPackage(w) \/ CommitUpdate(w) \/ CommitDelete(w)
    \/ LockSetting(w) \/ CommitSetting(w)

Device ==
    \/ PullPage \/ ReadRows \/ InstallPage
    \/ FetchListing \/ InstallListed \/ RefreshSettings
    \/ Interrupt \/ Push
    \/ \E p \in Package, qris \in {0, config.qris} : Sell(p, qris)

Next ==
    \/ \E w \in Worker :
          (Ask(w) /\ tr'[w].kind \in sent) \/ Proceed(w) \/ Abort(w)
    \/ Device

Spec == Init /\ [][Next]_vars

-----------------------------------------------------------------------------
(***************************************************************************)
(* Properties.                                                             *)
(***************************************************************************)
(* The type invariant of both sides. *)
TypeOK ==
    /\ packages \in [Package -> Stored \cup {NoPackage}]
    /\ \A p \in Package : Present(p) => Revision(p) \in 1 .. MaxRevision
    /\ settings \in [Setting -> Seq([base : Nat])]
    /\ \A k \in Setting : Len(settings[k]) <= MaxRevision
    /\ active \in 0 .. Len(settings["qris"])
    /\ nextCursor \in 0 .. MaxCursor /\ cursor \in 0 .. nextCursor
    /\ log \subseteq [cursor : 1 .. MaxCursor, package : Package, tombstone : BOOLEAN]
    /\ copy \in [Package -> Row \cup {NoPackage}]
    /\ listing \subseteq [package : Package, row : Row]

(***************************************************************************)
(* README.md:194: a sale from a stale copy still syncs, at the price that  *)
(* the customer was shown: whatever was edited, deleted or re-imported     *)
(* since, the revisions that the device may sell from, or has sold from,   *)
(* resolve at the server to what the device has of them.                   *)
(***************************************************************************)
Offer(p) == [package |-> p, revision |-> copy[p].revision,
             price |-> copy[p].price, profile |-> 1, qris |-> config.qris]

StaleSalesResolve ==
    /\ \A sale \in sales : Resolves(sale)
    /\ \A p \in Package : copy[p] # NoPackage => Resolves(Offer(p))

(***************************************************************************)
(* No setting is overwritten unseen: each stored revision was saved by     *)
(* somebody who had loaded the one before it.                              *)
(***************************************************************************)
SettingsFollowWhatWasSeen ==
    \A k \in Setting : \A r \in DOMAIN settings[k] : settings[k][r].base = r - 1

(***************************************************************************)
(* The device's copy of a package never goes back to an earlier revision,  *)
(* although pages, listings that were cached long ago and the server's     *)
(* later rows are installed in any order, and a package that it hides is   *)
(* offered again only by a listing.                                        *)
(***************************************************************************)
CopyMovesOn ==
    [][\A p \in Package : copy[p] # NoPackage =>
         /\ copy'[p].revision >= copy[p].revision
         /\ copy'[p].offered /\ ~copy[p].offered =>
               [package |-> p, row |-> copy'[p]] \in listing]_vars

(***************************************************************************)
(* auth_users_packages.go:329: a change of a package that states its base  *)
(* revision is refused when "Paket telah berubah di server" (the package   *)
(* has changed on the server), so it only replaces that revision.          *)
(***************************************************************************)
UpdatesReplaceTheirBase ==
    \A p \in Package : Present(p) =>
        \A r \in 1 .. Revision(p) :
            packages[p].history[r].base \in {0, r - 1}
=============================================================================
