-------------------------- MODULE CatalogueProofs --------------------------
(***************************************************************************)
(* Proofs about Catalogue, for any number of packages, superadmins' edits  *)
(* in flight and changes in a page: a sale from a stale copy resolves, a   *)
(* setting is never overwritten unseen, and the device's copy moves on.    *)
(*                                                                         *)
(* What the device has read it may install long after: the invariant says  *)
(* of each place such a row can be in (the copy, a page on its way, the    *)
(* cached listing, a sale) that the server still has what it shows.  That  *)
(* stays true because histories only grow and deletions are final; the     *)
(* locks come in where a commit relies on what its request has seen.       *)
(***************************************************************************)
EXTENDS Catalogue, WellFoundedInduction, TLAPS

Resource == {<<"tenant">>} \cup {<<"package", p>> : p \in Package}
Lock == [on : Resource, exclusive : BOOLEAN]

Request ==
    [pc : {"idle", "asked", "locking", "staged"},
     kind : {"none", "create", "update", "delete", "setting"},
     package : Package \cup {NoPackage}, price : Nat,
     setting : Setting \cup {"none"}, activate : BOOLEAN,
     base : Nat, seen : Nat, held : SUBSET Lock, cursor : Nat]

Change == [cursor : Nat, package : Package, tombstone : BOOLEAN]

(* What is stored at the server. *)
Stores ==
    /\ packages \in [Package -> Stored \cup {NoPackage}]
    /\ \A p \in Package : Present(p) => Revision(p) \in 1 .. MaxRevision
    /\ settings \in [Setting -> Seq([base : Nat])]
    /\ \A k \in Setting : Len(settings[k]) <= MaxRevision
    /\ Len(settings["profile"]) >= 1
    /\ active \in 0 .. Len(settings["qris"])
    /\ nextCursor \in 0 .. MaxCursor

(* What a request refers to. *)
Shape(q) ==
    /\ q.pc = "idle" => q = Idle
    /\ q.kind \in {"create", "update"} => q.price \in Price
    /\ q.kind \in {"create", "update", "delete"} => q.package \in Package
    /\ q.kind \in {"update", "delete"} => Present(q.package)
    /\ q.kind = "create" => ~Present(q.package)
    /\ q.kind = "setting" => q.setting \in Setting
    /\ q.activate => q.setting = "qris"

(* What a request relies on from its locking statement to its commit. *)
Secured(q) ==
    q.pc = "staged" =>
        /\ q.kind \in {"create", "update", "delete"} => q.cursor \in 1 .. nextCursor
        /\ q.kind \in {"update", "delete"} =>
              /\ Update(<<"package", q.package>>) \in q.held
              /\ q.seen = Revision(q.package)
        /\ q.kind = "update" => q.seen < MaxRevision
        /\ q.kind = "setting" =>
              /\ Update(<<"tenant">>) \in q.held
              /\ q.base = Len(settings[q.setting]) /\ q.base < MaxRevision

(* Two requests: their locks go together, and one of them at most creates  *)
(* the package.                                                            *)
Apart(q, r) ==
    /\ \A a \in q.held, b \in r.held : ~Conflict(a, b)
    /\ q.kind = "create" => r.package # q.package

Requested ==
    /\ tr \in [Worker -> Request]
    /\ \A w \in Worker : Shape(tr[w]) /\ Secured(tr[w])
    /\ \A v, w \in Worker : v # w => Apart(tr[v], tr[w])

(* The server still has what a row of a device shows of a package. *)
Known(p, row) ==
    /\ row \in Row /\ Present(p)
    /\ row.revision \in 1 .. Revision(p)
    /\ row.price = packages[p].history[row.revision].price
    /\ row.offered \/ packages[p].deleted

Published ==
    /\ log \subseteq Change
    /\ \A x \in log : /\ x.cursor \in 1 .. nextCursor /\ Present(x.package)
                      /\ x.tombstone => packages[x.package].deleted

Copied ==
    /\ copy \in [Package -> Row \cup {NoPackage}]
    /\ \A p \in Package : copy[p] # NoPackage => Known(p, copy[p])
    /\ cursor \in 0 .. nextCursor

Listed ==
    /\ listing \subseteq [package : Package, row : Row]
    /\ \A item \in listing : Known(item.package, item.row) /\ item.row.offered

Sold ==
    /\ config \in [profile : 0 .. Len(settings["profile"]), qris : 0 .. Len(settings["qris"])]
    /\ \A sale \in sales : sale.package \in Package /\ Resolves(sale)

(* The page says that p is not offered any more, or the copy does. *)
Hides(p) ==
    \/ copy[p] # NoPackage /\ ~copy[p].offered
    \/ \E i \in DOMAIN page.changes :
          /\ page.changes[i].package = p
          /\ page.changes[i].tombstone \/ ~page.rows[i].offered

(* The rows of a page are read together, after its changes.  So they offer *)
(* nothing that a change of the page, or one before it, has hidden.        *)
Pulled ==
    page # NoRows =>
        /\ page = [changes |-> page.changes, rows |-> page.rows]
        /\ page.changes \in Seq(log) /\ page.changes # <<>>
        /\ page.rows # NoRows =>
              \A i \in DOMAIN page.changes :
                  /\ Known(page.changes[i].package, page.rows[i])
                  /\ Hides(page.changes[i].package) => ~page.rows[i].offered

CatalogueInv ==
    /\ Stores /\ Requested /\ Published
    /\ Copied /\ Listed /\ Sold /\ Pulled
    /\ SettingsFollowWhatWasSeen

-----------------------------------------------------------------------------
LEMMA SequenceIs ==
    ASSUME NEW S, NEW s \in Seq(S)
    PROVE  /\ Len(s) \in Nat /\ DOMAIN s = 1 .. Len(s)
           /\ \A r \in 1 .. Len(s) : s[r] \in S
           /\ s # <<>> <=> Len(s) >= 1
           /\ Last(s) = s[Len(s)]
<1>1. Last(s) = s[Len(s)]
  BY DEF Last
<1>2. s # <<>> <=> Len(s) >= 1
  OBVIOUS
<1> QED BY <1>1, <1>2

LEMMA AppendedIs ==
    ASSUME NEW S, NEW s \in Seq(S), NEW e \in S
    PROVE  /\ Append(s, e) \in Seq(S) /\ Len(Append(s, e)) = Len(s) + 1
           /\ \A r \in 1 .. Len(s) : Append(s, e)[r] = s[r]
           /\ Append(s, e)[Len(s) + 1] = e
OBVIOUS

LEMMA PackageIs ==
    ASSUME Stores, NEW p \in Package, Present(p)
    PROVE  /\ packages[p] \in Stored /\ packages[p].history \in Seq([price : Price, base : Nat])
           /\ Revision(p) \in Nat /\ Revision(p) >= 1 /\ Revision(p) <= MaxRevision
           /\ packages[p].deleted \in BOOLEAN
           /\ packages[p].history # <<>>
           /\ Last(packages[p].history) = packages[p].history[Revision(p)]
           /\ \A r \in 1 .. Revision(p) : packages[p].history[r] \in [price : Price, base : Nat]
<1>1. packages[p] \in Stored
  BY DEF Stores, Present
<1>2. packages[p].history \in Seq([price : Price, base : Nat]) /\ packages[p].deleted \in BOOLEAN
  BY <1>1 DEF Stored
<1>3. Revision(p) \in Nat /\ Revision(p) >= 1 /\ Revision(p) <= MaxRevision
  BY CatalogueAssumption DEF Stores
<1>4. Last(packages[p].history) = packages[p].history[Revision(p)] /\ packages[p].history # <<>>
  BY <1>2, <1>3, SequenceIs DEF Revision
<1> QED BY <1>1, <1>2, <1>3, <1>4, SequenceIs DEF Revision

LEMMA SettingIs ==
    ASSUME Stores, NEW k \in Setting
    PROVE  /\ settings[k] \in Seq([base : Nat])
           /\ Len(settings[k]) \in Nat /\ Len(settings[k]) <= MaxRevision
           /\ DOMAIN settings[k] = 1 .. Len(settings[k])
<1>1. settings[k] \in Seq([base : Nat]) /\ Len(settings[k]) <= MaxRevision
  BY DEF Stores
<1> QED BY <1>1

(* Nothing stored is taken back: histories grow, deletions are final. *)
PackagesGrow ==
    \A p \in Package : Present(p) =>
        /\ packages'[p] # NoPackage
        /\ Revision(p) <= Len(packages'[p].history)
        /\ \A r \in 1 .. Revision(p) : packages'[p].history[r] = packages[p].history[r]
        /\ packages[p].deleted => packages'[p].deleted

LEMMA KnownStays ==
    ASSUME Stores, Stores', PackagesGrow, NEW p \in Package, NEW row, Known(p, row)
    PROVE  Known(p, row)'
<1>1. Present(p) /\ row \in Row /\ row.revision \in 1 .. Revision(p)
  BY DEF Known
<1>2. Revision(p) \in Nat
  BY <1>1, PackageIs
<1>3. packages'[p] # NoPackage /\ Revision(p) <= Len(packages'[p].history)
  BY <1>1 DEF PackagesGrow
<1>4. Len(packages'[p].history) \in Nat
  BY <1>3 DEF Stores, Present, Revision
<1>5. row.revision \in 1 .. Len(packages'[p].history)
  BY <1>1, <1>2, <1>3, <1>4
<1>6. packages'[p].history[row.revision] = packages[p].history[row.revision]
  BY <1>1 DEF PackagesGrow
<1>7. packages[p].deleted => packages'[p].deleted
  BY <1>1 DEF PackagesGrow
<1> QED BY <1>1, <1>3, <1>5, <1>6, <1>7 DEF Known, Present, Revision

-----------------------------------------------------------------------------
(* --- Requests in flight ------------------------------------------------- *)
LEMMA OneRequestMoves ==
    ASSUME Requested, NEW w \in Worker, NEW q \in Request, tr' = [tr EXCEPT ![w] = q],
           Shape(q)', Secured(q)',
           \A v \in Worker \ {w} : \A r : r = tr[v] => Shape(r)' /\ Secured(r)',
           \A v \in Worker \ {w} : Apart(q, tr[v]) /\ Apart(tr[v], q)
    PROVE  Requested'
<1>1. tr' \in [Worker -> Request] /\ tr'[w] = q /\ \A v \in Worker \ {w} : tr'[v] = tr[v]
  BY DEF Requested
<1>2. ASSUME NEW v \in Worker PROVE \A r : r = tr'[v] => Shape(r)' /\ Secured(r)'
  BY <1>1
<1>3. ASSUME NEW v \in Worker PROVE Shape(tr[v])' /\ Secured(tr[v])'
  <2>1. PICK r : r = tr'[v]
    OBVIOUS
  <2>2. Shape(r)' /\ Secured(r)'
    BY <1>2, <2>1
  <2> QED BY <2>1, <2>2 DEF Shape, Secured, Present, Revision
<1>4. ASSUME NEW u \in Worker, NEW v \in Worker, u # v PROVE Apart(tr'[u], tr'[v])
  BY <1>1, <1>4 DEF Requested
<1>5. ASSUME NEW u \in Worker, NEW v \in Worker, u # v PROVE Apart(tr[u], tr[v])'
  BY <1>4, <1>5 DEF Apart, Conflict
<1> QED BY <1>1, <1>3, <1>5 DEF Requested

(* A step that only draws a cursor, at most. *)
Draws ==
    /\ UNCHANGED <<packages, settings, active, log, sent, deviceVars>>
    /\ nextCursor' \in 0 .. MaxCursor /\ nextCursor <= nextCursor'

LEMMA RequestStands ==
    ASSUME Stores, Draws, NEW r
    PROVE  /\ Shape(r) <=> Shape(r)'
           /\ Secured(r) => Secured(r)'
<1>1. UNCHANGED <<packages, settings>> /\ \A i \in 1 .. nextCursor : i \in 1 .. nextCursor'
  BY CatalogueAssumption DEF Draws, Stores
<1>2. Shape(r) <=> Shape(r)'
  BY <1>1 DEF Shape, Present
<1>3. Secured(r) => Secured(r)'
  BY <1>1 DEF Secured, Revision
<1> QED BY <1>2, <1>3

LEMMA RequestMoves ==
    ASSUME Stores, Requested, Draws, NEW w \in Worker, NEW q \in Request,
           tr' = [tr EXCEPT ![w] = q], Shape(q), Secured(q)',
           \A v \in Worker \ {w} : Apart(q, tr[v]) /\ Apart(tr[v], q)
    PROVE  Requested'
<1>1. Shape(q)'
  BY RequestStands
<1>2. ASSUME NEW v \in Worker \ {w}, NEW r, r = tr[v] PROVE Shape(r)' /\ Secured(r)'
  <2>1. Shape(r) /\ Secured(r)
    BY <1>2 DEF Requested
  <2> QED BY <2>1, RequestStands
<1> QED BY <1>1, <1>2, OneRequestMoves

(* A request that takes locks which are granted, or none, keeps its place. *)
LEMMA GrantedApart ==
    ASSUME Requested, NEW w \in Worker, NEW q, NEW wanted,
           q.held \in SUBSET (tr[w].held \cup wanted),
           q.kind = tr[w].kind, q.package = tr[w].package, Granted(w, wanted)
    PROVE  \A v \in Worker \ {w} : Apart(q, tr[v]) /\ Apart(tr[v], q)
<1> SUFFICES ASSUME NEW v \in Worker \ {w} PROVE Apart(q, tr[v]) /\ Apart(tr[v], q)
  OBVIOUS
<1>1. Apart(tr[w], tr[v]) /\ Apart(tr[v], tr[w])
  BY DEF Requested
<1>2. \A a \in wanted, b \in tr[v].held : ~Conflict(a, b)
  BY DEF Granted, Grantable
<1>3. \A a \in wanted, b \in tr[v].held : ~Conflict(b, a)
  BY <1>2 DEF Conflict
<1>4. \A a \in q.held, b \in tr[v].held : ~Conflict(a, b)
  BY <1>1, <1>2 DEF Apart
<1>5. \A a \in tr[v].held, b \in q.held : ~Conflict(a, b)
  BY <1>1, <1>3 DEF Apart
<1>6. q.kind = "create" => tr[v].package # q.package
  BY <1>1 DEF Apart
<1>7. tr[v].kind = "create" => q.package # tr[v].package
  BY <1>1 DEF Apart
<1> QED BY <1>4, <1>5, <1>6, <1>7 DEF Apart

LEMMA IdleIs ==
    /\ Idle \in Request /\ Idle.pc = "idle" /\ Idle.kind = "none" /\ Idle.held = {}
    /\ Idle.package = NoPackage /\ Idle.activate = FALSE /\ Idle.setting = "none"
BY DEF Idle, Request

LEMMA IdleApart ==
    ASSUME Requested
    PROVE  /\ \A v \in Worker : Apart(Idle, tr[v]) /\ Apart(tr[v], Idle)
           /\ Shape(Idle) /\ Secured(Idle) /\ Secured(Idle)'
<1>1. ASSUME NEW v \in Worker PROVE Apart(Idle, tr[v]) /\ Apart(tr[v], Idle)
  <2>1. tr[v].kind = "create" => tr[v].package \in Package
    BY DEF Requested, Shape
  <2>2. NoPackage \notin Package
    BY CatalogueAssumption
  <2> QED BY <2>1, <2>2, IdleIs DEF Apart
<1>2. Shape(Idle)
  BY IdleIs DEF Shape
<1>3. Secured(Idle) /\ Secured(Idle)'
  BY IdleIs DEF Secured
<1> QED BY <1>1, <1>2, <1>3

(* The request ends. *)
LEMMA RefuseKeeps ==
    ASSUME Stores, Requested, NEW w \in Worker, Refuse(w)
    PROVE  Requested' /\ Draws
<1>1. tr' = [tr EXCEPT ![w] = Idle]
  BY DEF Refuse, Goto
<1>2. Draws
  BY CatalogueAssumption DEF Refuse, Goto, Draws, Stores
<1> QED BY <1>1, <1>2, IdleIs, IdleApart, RequestMoves

(* A request that was not there, and has no lock yet. *)
LEMMA AskKeeps ==
    ASSUME Stores, Requested, NEW w \in Worker, NEW q \in Request, Goto(w, q),
           tr[w] = Idle, Shape(q), q.pc = "asked", q.held = {},
           \A v \in Worker : q.kind = "create" => tr[v].package # q.package,
           \A v \in Worker : tr[v].kind = "create" => tr[v].package # q.package
    PROVE  Requested' /\ Draws
<1>1. tr' = [tr EXCEPT ![w] = q]
  BY DEF Goto
<1>2. Draws
  BY CatalogueAssumption DEF Goto, Draws, Stores
<1>3. Secured(q)'
  BY DEF Secured
<1>4. \A v \in Worker \ {w} : Apart(q, tr[v]) /\ Apart(tr[v], q)
  BY DEF Apart
<1> QED BY <1>1, <1>2, <1>3, <1>4, RequestMoves

LEMMA AskNext ==
    ASSUME Stores, Requested, NEW w \in Worker, Ask(w)
    PROVE  Requested' /\ Draws
<1>0. Price \subseteq Nat /\ NoPackage \notin Package /\ \A base \in 0 .. MaxRevision : base \in Nat
  BY CatalogueAssumption
<1>1. ASSUME NEW p \in Package, AskDelete(w, p) PROVE Requested' /\ Draws
  <2> DEFINE q == [Idle EXCEPT !.pc = "asked", !.kind = "delete", !.package = p]
  <2>1. /\ q \in Request /\ q.pc = "asked" /\ q.kind = "delete" /\ q.package = p /\ q.held = {}
        /\ q.activate = FALSE
    BY DEF Idle, Request
  <2>2. Goto(w, q) /\ tr[w] = Idle /\ Present(p)
    BY <1>1 DEF AskDelete
  <2> HIDE DEF q
  <2>3. Shape(q)
    BY <2>1, <2>2 DEF Shape
  <2>4. \A v \in Worker : tr[v].kind = "create" => tr[v].package # q.package
    BY <2>1, <2>2 DEF Requested, Shape
  <2> QED BY <2>1, <2>2, <2>3, <2>4, AskKeeps
<1>2. ASSUME NEW p \in Package, NEW price \in Price, AskCreate(w, p, price) PROVE Requested' /\ Draws
  <2> DEFINE q == [Idle EXCEPT !.pc = "asked", !.kind = "create", !.package = p, !.price = price]
  <2>1. /\ q \in Request /\ q.pc = "asked" /\ q.kind = "create" /\ q.package = p /\ q.held = {}
        /\ q.activate = FALSE /\ q.price \in Price
    BY <1>0 DEF Idle, Request
  <2>2. Goto(w, q) /\ tr[w] = Idle /\ ~Present(p) /\ \A v \in Worker : tr[v].package # p
    BY <1>2 DEF AskCreate
  <2> HIDE DEF q
  <2>3. Shape(q)
    BY <2>1, <2>2 DEF Shape
  <2> QED BY <2>1, <2>2, <2>3, AskKeeps
<1>3. ASSUME NEW p \in Package, NEW price \in {0} \cup Price, NEW base \in 0 .. MaxRevision,
             AskUpdate(w, p, base, price)
      PROVE  Requested' /\ Draws
  <2> DEFINE given == IF price = 0 THEN Last(packages[p].history).price ELSE price
             q == [Idle EXCEPT !.pc = "asked", !.kind = "update", !.package = p, !.base = base,
                               !.price = given]
  <2>1. Goto(w, q) /\ tr[w] = Idle /\ Present(p)
    BY <1>3 DEF AskUpdate
  <2>2. given \in Price
    BY <2>1, PackageIs
  <2> HIDE DEF given
  <2>3. /\ q \in Request /\ q.pc = "asked" /\ q.kind = "update" /\ q.package = p /\ q.held = {}
        /\ q.activate = FALSE /\ q.price \in Price
    BY <1>0, <2>2 DEF Idle, Request
  <2> HIDE DEF q
  <2>4. Shape(q)
    BY <2>1, <2>3 DEF Shape
  <2>5. \A v \in Worker : tr[v].kind = "create" => tr[v].package # q.package
    BY <2>1, <2>3 DEF Requested, Shape
  <2> QED BY <2>1, <2>3, <2>4, <2>5, AskKeeps
<1>4. ASSUME NEW k \in Setting, NEW activate \in BOOLEAN, AskSetting(w, k, activate)
      PROVE  Requested' /\ Draws
  <2> DEFINE q == [Idle EXCEPT !.pc = "asked", !.kind = "setting", !.setting = k,
                               !.activate = activate, !.base = Len(settings[k])]
  <2>1. Goto(w, q) /\ tr[w] = Idle /\ (activate => k = "qris") /\ Len(settings[k]) \in Nat
    BY <1>4, SettingIs DEF AskSetting
  <2>2. /\ q \in Request /\ q.pc = "asked" /\ q.kind = "setting" /\ q.package = NoPackage
        /\ q.held = {} /\ q.setting = k /\ q.activate = activate
    BY <2>1 DEF Idle, Request
  <2> HIDE DEF q
  <2>3. Shape(q)
    BY <2>1, <2>2 DEF Shape
  <2>4. \A v \in Worker : tr[v].kind = "create" => tr[v].package # q.package
    BY <1>0, <2>2 DEF Requested, Shape
  <2> QED BY <2>1, <2>2, <2>3, <2>4, AskKeeps
<1> QED BY <1>1, <1>2, <1>3, <1>4 DEF Ask

LEMMA LocksAre ==
    /\ Share(<<"tenant">>) \in Lock /\ Update(<<"tenant">>) \in Lock
    /\ \A p \in Package : Update(<<"package", p>>) \in Lock
BY DEF Share, Update, Lock, Resource

(* A cursor is drawn: the request is staged. *)
LEMMA StageKeeps ==
    ASSUME Stores, Requested, NEW w \in Worker, NEW q \in Request, Stage(w, q), NEW wanted,
           q.held \in SUBSET (tr[w].held \cup wanted), Granted(w, wanted),
           q.kind = tr[w].kind, q.package = tr[w].package, Shape(q), q.pc # "idle",
           q.kind \in {"update", "delete"} =>
              Update(<<"package", q.package>>) \in q.held /\ q.seen = Revision(q.package),
           q.kind = "update" => q.seen < MaxRevision, q.kind # "setting"
    PROVE  Requested' /\ Draws
<1>0. PICK r : r = [q EXCEPT !.pc = "staged", !.cursor = nextCursor + 1]
  OBVIOUS
<1>1. tr' = [tr EXCEPT ![w] = r] /\ nextCursor' = nextCursor + 1 /\ nextCursor < MaxCursor
  BY <1>0 DEF Stage
<1>2. nextCursor \in Nat /\ MaxCursor \in Nat
  BY CatalogueAssumption DEF Stores
<1>3. Draws
  BY <1>1, <1>2 DEF Stage, Draws
<1>4. /\ r \in Request /\ r.pc = "staged" /\ r.cursor = nextCursor + 1 /\ r.kind = q.kind
      /\ r.package = q.package /\ r.price = q.price /\ r.setting = q.setting
      /\ r.activate = q.activate /\ r.held = q.held /\ r.seen = q.seen /\ r.base = q.base
  <2>1. nextCursor + 1 \in Nat
    BY <1>2
  <2> QED BY <1>0, <2>1 DEF Request
<1>5. Shape(r)
  BY <1>4 DEF Shape
<1>6. UNCHANGED packages /\ r.cursor \in 1 .. nextCursor'
  BY <1>1, <1>2, <1>4 DEF Stage
<1>7. Secured(r)'
  BY <1>4, <1>6 DEF Secured, Revision
<1>8. \A v \in Worker \ {w} : Apart(r, tr[v]) /\ Apart(tr[v], r)
  BY <1>4, GrantedApart
<1> QED BY <1>1, <1>3, <1>4, <1>5, <1>7, <1>8, RequestMoves

LEMMA LockingNext ==
    ASSUME Stores, Requested, NEW w \in Worker,
           StageCreate(w) \/ BeginWrite(w) \/ LockPackage(w) \/ LockSetting(w)
    PROVE  Requested' /\ Draws
<1>0. tr[w] \in Request /\ Shape(tr[w])
  BY DEF Requested
<1>1. CASE StageCreate(w)
  <2> DEFINE q == [tr[w] EXCEPT !.held = {Share(<<"tenant">>)}]
  <2>1. Stage(w, q) /\ Granted(w, {Share(<<"tenant">>)}) /\ At(w, "asked", {"create"})
    BY <1>1 DEF StageCreate
  <2>2. /\ q \in Request /\ q.pc = tr[w].pc /\ q.kind = tr[w].kind /\ q.package = tr[w].package
        /\ q.price = tr[w].price /\ q.setting = tr[w].setting /\ q.activate = tr[w].activate
        /\ q.held = {Share(<<"tenant">>)}
    BY <1>0, LocksAre DEF Request
  <2>3. q.kind = "create" /\ q.pc = "asked"
    BY <2>1, <2>2 DEF At
  <2> HIDE DEF q
  <2>4. Shape(q)
    BY <1>0, <2>2, <2>3 DEF Shape
  <2> QED BY <2>1, <2>2, <2>3, <2>4, StageKeeps
<1>2. CASE BeginWrite(w)
  <2>0. PICK q : q = [tr[w] EXCEPT !.pc = "locking", !.seen = Revision(tr[w].package),
                                   !.held = {Share(<<"tenant">>)}]
    OBVIOUS
  <2>1. Goto(w, q) /\ Granted(w, {Share(<<"tenant">>)}) /\ At(w, "asked", {"update", "delete"})
    BY <1>2, <2>0 DEF BeginWrite
  <2>2. Revision(tr[w].package) \in Nat
    BY <1>0, <2>1, PackageIs DEF At, Shape
  <2>3. /\ q \in Request /\ q.pc = "locking" /\ q.kind = tr[w].kind /\ q.package = tr[w].package
        /\ q.price = tr[w].price /\ q.setting = tr[w].setting /\ q.activate = tr[w].activate
        /\ q.held = {Share(<<"tenant">>)}
    BY <1>0, <2>2, <2>0, LocksAre DEF Request
  <2>4. Shape(q)
    BY <1>0, <2>3 DEF Shape
  <2>5. tr' = [tr EXCEPT ![w] = q] /\ Draws
    BY <2>1, CatalogueAssumption DEF Goto, Draws, Stores
  <2>6. Secured(q)'
    BY <2>3 DEF Secured
  <2>7. \A v \in Worker \ {w} : Apart(q, tr[v]) /\ Apart(tr[v], q)
    BY <2>1, <2>3, GrantedApart
  <2> QED BY <2>3, <2>4, <2>5, <2>6, <2>7, RequestMoves
<1>3. CASE LockPackage(w)
  <2>1. CASE Refuse(w)
    BY <2>1, RefuseKeeps
  <2>2. CASE ~Refuse(w)
    <3> DEFINE q == [tr[w] EXCEPT !.held = @ \cup RowLocks(tr[w])]
    <3>1. /\ Stage(w, q) /\ Granted(w, RowLocks(tr[w])) /\ At(w, "locking", {"update", "delete"})
          /\ tr[w].seen = Revision(tr[w].package)
          /\ tr[w].kind = "update" => tr[w].seen < MaxRevision
      BY <1>3, <2>2 DEF LockPackage
    <3>2. RowLocks(tr[w]) = {Update(<<"package", tr[w].package>>)} /\ tr[w].package \in Package
      BY <1>0, <3>1 DEF RowLocks, At, Shape
    <3>3. RowLocks(tr[w]) \in SUBSET Lock
      BY <3>2, LocksAre
    <3>4. /\ q \in Request /\ q.pc = tr[w].pc /\ q.kind = tr[w].kind /\ q.package = tr[w].package
          /\ q.price = tr[w].price /\ q.setting = tr[w].setting /\ q.activate = tr[w].activate
          /\ q.seen = tr[w].seen /\ q.held = tr[w].held \cup RowLocks(tr[w])
      BY <1>0, <3>3 DEF Request
    <3> HIDE DEF q
    <3>5. Shape(q) /\ q.pc = "locking" /\ q.kind # "setting"
      BY <1>0, <3>1, <3>4 DEF Shape, At
    <3> QED BY <3>1, <3>2, <3>4, <3>5, StageKeeps
  <2> QED BY <2>1, <2>2
<1>4. CASE LockSetting(w)
  <2>1. CASE Refuse(w)
    BY <2>1, RefuseKeeps
  <2>2. CASE ~Refuse(w)
    <3>0. PICK q : q = [tr[w] EXCEPT !.pc = "staged", !.held = SettingLocks(tr[w])]
      OBVIOUS
    <3>1. /\ Goto(w, q) /\ Granted(w, SettingLocks(tr[w])) /\ At(w, "asked", {"setting"})
          /\ Len(settings[tr[w].setting]) = tr[w].base /\ tr[w].base < MaxRevision
      BY <1>4, <2>2, <3>0 DEF LockSetting
    <3>2. SettingLocks(tr[w]) = {Update(<<"tenant">>)}
      BY DEF SettingLocks
    <3>3. /\ q \in Request /\ q.pc = "staged" /\ q.kind = tr[w].kind /\ q.package = tr[w].package
          /\ q.price = tr[w].price /\ q.setting = tr[w].setting /\ q.activate = tr[w].activate
          /\ q.base = tr[w].base /\ q.held = SettingLocks(tr[w])
      BY <1>0, <3>2, <3>0, LocksAre DEF Request
    <3>4. Shape(q) /\ q.kind = "setting"
      BY <1>0, <3>1, <3>3 DEF Shape, At
    <3>5. tr' = [tr EXCEPT ![w] = q] /\ Draws /\ UNCHANGED settings
      BY <3>1, CatalogueAssumption DEF Goto, Draws, Stores
    <3>6. Secured(q)'
      BY <3>1, <3>2, <3>3, <3>4, <3>5 DEF Secured
    <3>7. \A v \in Worker \ {w} : Apart(q, tr[v]) /\ Apart(tr[v], q)
      BY <3>1, <3>3, GrantedApart
    <3> QED BY <3>3, <3>4, <3>5, <3>6, <3>7, RequestMoves
  <2> QED BY <2>1, <2>2
<1> QED BY <1>1, <1>2, <1>3, <1>4

(* What only moves a request changes nothing that is stored or copied. *)
LEMMA DrawsKeeps ==
    ASSUME CatalogueInv, Draws
    PROVE  /\ Stores' /\ Published' /\ Copied' /\ Listed' /\ Sold' /\ Pulled'
           /\ SettingsFollowWhatWasSeen'
<1>0. /\ UNCHANGED <<packages, settings, active, log, copy, cursor, page, listing, config, sales>>
      /\ nextCursor' \in 0 .. MaxCursor /\ nextCursor <= nextCursor' /\ nextCursor \in 0 .. MaxCursor
      /\ MaxCursor \in Nat
  BY CatalogueAssumption DEF Draws, deviceVars, CatalogueInv, Stores
<1>1. Stores'
  BY <1>0 DEF CatalogueInv, Stores, Present, Revision
<1>2. Published'
  <2>1. \A i : i \in 1 .. nextCursor => i \in 1 .. nextCursor'
    BY <1>0
  <2> QED BY <1>0, <2>1 DEF CatalogueInv, Published, Present
<1>3. \A p, row : Known(p, row) <=> Known(p, row)'
  BY <1>0 DEF Known, Present, Revision
<1>4. Copied'
  <2>1. \A i : i \in 0 .. nextCursor => i \in 0 .. nextCursor'
    BY <1>0
  <2> QED BY <1>0, <2>1 DEF CatalogueInv, Copied, Known, Present, Revision
<1>5. Listed' /\ Sold'
  BY <1>0 DEF CatalogueInv, Listed, Sold, Known, Present, Revision, Resolves
<1>6. Pulled'
  BY <1>0 DEF CatalogueInv, Pulled, Known, Present, Revision, Hides
<1>7. SettingsFollowWhatWasSeen'
  BY <1>0 DEF CatalogueInv, SettingsFollowWhatWasSeen
<1> QED BY <1>1, <1>2, <1>4, <1>5, <1>6, <1>7

-----------------------------------------------------------------------------
(* --- Commits ------------------------------------------------------------ *)
LEMMA LongerLog ==
    ASSUME NEW S, NEW T, S \subseteq T, NEW s \in Seq(S)
    PROVE  s \in Seq(T)
OBVIOUS

(* What the device has stays true of what is stored. *)
LEMMA DeviceStays ==
    ASSUME CatalogueInv, Stores', PackagesGrow, log \subseteq log', UNCHANGED deviceVars,
           \A k \in Setting : Len(settings[k]) <= Len(settings'[k]),
           nextCursor' = nextCursor
    PROVE  Copied' /\ Listed' /\ Sold' /\ Pulled'
<1>0. /\ UNCHANGED <<copy, cursor, page, listing, config, sales>>
      /\ Stores /\ Published /\ Copied /\ Listed /\ Sold /\ Pulled
  BY DEF deviceVars, CatalogueInv
<1>1. \A p \in Package : \A row : Known(p, row) => Known(p, row)'
  BY <1>0, KnownStays
<1>2. Copied'
  <2>1. ASSUME NEW p \in Package, copy'[p] # NoPackage PROVE Known(p, copy[p])'
    <3>1. PICK row : row = copy[p]
      OBVIOUS
    <3>2. Known(p, row)'
      BY <1>0, <1>1, <2>1, <3>1 DEF Copied
    <3> QED BY <1>0, <3>1, <3>2 DEF Known, Present, Revision
  <2>2. \A p \in Package : (copy[p] # NoPackage)' => Known(p, copy[p])'
    BY <2>1
  <2> QED BY <1>0, <2>2 DEF Copied
<1>3. Listed'
  <2>1. ASSUME NEW item \in listing' PROVE Known(item.package, item.row)' /\ item.row.offered
    <3>1. item \in listing /\ item.package \in Package
      BY <1>0 DEF Listed
    <3> QED BY <1>0, <1>1, <3>1 DEF Listed
  <2> QED BY <1>0, <2>1 DEF Listed
<1>4. \A k \in {"profile", "qris"} : Len(settings[k]) \in Nat /\ Len(settings'[k]) \in Nat /\ Len(settings[k]) <= Len(settings'[k])
  <2>1. ASSUME NEW k \in Setting PROVE Len(settings'[k]) \in Nat
    BY DEF Stores
  <2> QED BY <1>0, <2>1, SettingIs DEF Setting
<1>5. Sold'
  <2>1. config' \in [profile : 0 .. Len(settings'["profile"]), qris : 0 .. Len(settings'["qris"])]
    BY <1>0, <1>4 DEF Sold
  <2>2. ASSUME NEW sale \in sales PROVE sale.package \in Package /\ Resolves(sale)'
    <3>1. sale.package \in Package /\ Resolves(sale)
      BY <1>0 DEF Sold
    <3>2. Present(sale.package) /\ sale.revision \in 1 .. Revision(sale.package)
      BY <3>1 DEF Resolves
    <3>3. /\ packages'[sale.package] # NoPackage
          /\ Revision(sale.package) <= Len(packages'[sale.package].history)
          /\ packages'[sale.package].history[sale.revision] = packages[sale.package].history[sale.revision]
      BY <3>1, <3>2 DEF PackagesGrow
    <3>4. Revision(sale.package) \in Nat /\ Len(packages'[sale.package].history) \in Nat
      BY <1>0, <3>1, <3>2, <3>3, PackageIs DEF Stores, Present, Revision
    <3>5. sale.revision \in 1 .. Len(packages'[sale.package].history)
      BY <3>2, <3>3, <3>4
    <3>6. sale.profile \in 1 .. Len(settings'["profile"]) /\ sale.qris \in 0 .. Len(settings'["qris"])
      BY <1>4, <3>1 DEF Resolves
    <3> QED BY <3>1, <3>3, <3>5, <3>6 DEF Resolves, Present, Revision
  <2> QED BY <1>0, <2>1, <2>2 DEF Sold
<1>6. Pulled'
  <2> SUFFICES ASSUME page # NoRows PROVE Pulled'
    BY <1>0 DEF Pulled
  <2>1. /\ page = [changes |-> page.changes, rows |-> page.rows]
        /\ page.changes \in Seq(log) /\ page.changes # <<>>
    BY <1>0 DEF Pulled
  <2>2. page.changes \in Seq(log')
    BY <2>1, LongerLog
  <2>3. \A p : Hides(p) <=> Hides(p)'
    BY <1>0 DEF Hides
  <2>4. ASSUME page.rows # NoRows, NEW i \in DOMAIN page.changes
        PROVE  /\ Known(page.changes[i].package, page.rows[i])'
               /\ Hides(page.changes[i].package)' => ~page.rows[i].offered
    <3>1. PICK p, row : p = page.changes[i].package /\ row = page.rows[i]
      OBVIOUS
    <3>2. Known(p, row) /\ (Hides(p) => ~row.offered)
      BY <1>0, <2>4, <3>1 DEF Pulled
    <3>3. p \in Package
      BY <1>0, <2>1, <2>4, <3>1, SequenceIs DEF Published, Change
    <3>4. Known(p, row)'
      BY <1>1, <3>2, <3>3
    <3>5. Known(page.changes[i].package, page.rows[i])'
      BY <1>0, <3>1, <3>4
    <3> QED BY <1>0, <2>3, <3>1, <3>2, <3>5
  <2> QED BY <1>0, <2>1, <2>2, <2>4 DEF Pulled
<1> QED BY <1>2, <1>3, <1>5, <1>6

(* The commit of a row that takes nothing back, and that nobody else who   *)
(* is about to commit relies on.                                           *)
LEMMA CommitKeeps ==
    ASSUME CatalogueInv, NEW w \in Worker, NEW row \in Stored, CommitPackage(w, row),
           tr[w].package \in Package, tr[w].cursor \in 1 .. nextCursor,
           Len(row.history) \in 1 .. MaxRevision,
           Present(tr[w].package) =>
              /\ Revision(tr[w].package) <= Len(row.history)
              /\ \A r \in 1 .. Revision(tr[w].package) :
                    row.history[r] = packages[tr[w].package].history[r]
              /\ packages[tr[w].package].deleted => row.deleted,
           \A v \in Worker \ {w} :
              tr[v].pc = "staged" /\ tr[v].kind \in {"update", "delete"} /\ tr[v].package = tr[w].package
                 => Len(row.history) = Revision(tr[w].package)
    PROVE  CatalogueInv'
<1>0. Stores /\ Requested /\ Published /\ SettingsFollowWhatWasSeen
  BY DEF CatalogueInv
<1>1. PICK p : p = tr[w].package
  OBVIOUS
<1>2. /\ packages' = [packages EXCEPT ![p] = row]
      /\ log' = log \cup {[cursor |-> tr[w].cursor, package |-> p, tombstone |-> row.deleted]}
      /\ tr' = [tr EXCEPT ![w] = Idle]
      /\ UNCHANGED <<settings, active, nextCursor, sent, deviceVars>>
  BY <1>1 DEF CommitPackage
<1>3. packages'[p] = row /\ row # NoPackage /\ \A x \in Package \ {p} : packages'[x] = packages[x]
  BY <1>0, <1>1, <1>2, CatalogueAssumption DEF Stores
<1>4. Stores'
  <2>1. packages' \in [Package -> Stored \cup {NoPackage}]
    BY <1>0, <1>1, <1>2 DEF Stores
  <2>2. \A x \in Package : packages'[x] # NoPackage => Len(packages'[x].history) \in 1 .. MaxRevision
    BY <1>0, <1>1, <1>3 DEF Stores, Present, Revision
  <2> QED BY <1>0, <1>2, <2>1, <2>2 DEF Stores, Present, Revision
<1>5. PackagesGrow
  <2> SUFFICES ASSUME NEW x \in Package, Present(x)
               PROVE  /\ packages'[x] # NoPackage
                      /\ Revision(x) <= Len(packages'[x].history)
                      /\ \A r \in 1 .. Revision(x) : packages'[x].history[r] = packages[x].history[r]
                      /\ packages[x].deleted => packages'[x].deleted
    BY DEF PackagesGrow
  <2>1. CASE x = p
    BY <1>1, <1>3, <2>1
  <2>2. CASE x # p
    <3>1. packages'[x] = packages[x] /\ Revision(x) \in Nat
      BY <1>0, <1>3, <2>2, PackageIs
    <3> QED BY <3>1 DEF Present, Revision
  <2> QED BY <2>1, <2>2
<1>6. Copied' /\ Listed' /\ Sold' /\ Pulled'
  <2>1. \A k \in Setting : Len(settings[k]) <= Len(settings'[k])
    BY <1>0, <1>2, SettingIs
  <2> QED BY <1>2, <1>4, <1>5, <2>1, DeviceStays
<1>7. Published'
  <2>1. [cursor |-> tr[w].cursor, package |-> p, tombstone |-> row.deleted] \in Change
    BY <1>0, <1>1 DEF Change, Stored, Stores
  <2>2. ASSUME NEW x \in log
        PROVE  packages'[x.package] # NoPackage /\ (x.tombstone => packages'[x.package].deleted)
    BY <1>0, <1>5 DEF Published, PackagesGrow, Change
  <2>3. ASSUME NEW x \in log'
        PROVE  /\ x.cursor \in 1 .. nextCursor' /\ packages'[x.package] # NoPackage
               /\ x.tombstone => packages'[x.package].deleted
    BY <1>0, <1>1, <1>2, <1>3, <2>2 DEF Published
  <2> QED BY <1>0, <1>2, <2>1, <2>3 DEF Published, Present
<1>8. Requested'
  <2>1. ASSUME NEW v \in Worker \ {w}, NEW r, r = tr[v] PROVE Shape(r)' /\ Secured(r)'
    <3>1. Shape(r) /\ Secured(r) /\ Apart(r, tr[w])
      BY <1>0, <2>1 DEF Requested
    <3>2. r.kind = "create" => r.package # p
      BY <1>1, <3>1 DEF Apart
    <3>3. Shape(r)'
      BY <1>3, <1>5, <3>1, <3>2 DEF Shape, PackagesGrow, Present
    <3>4. r.kind \in {"update", "delete"} /\ r.pc = "staged" => Len(packages'[r.package].history) = Revision(r.package)
      <4> SUFFICES ASSUME r.kind \in {"update", "delete"}, r.pc = "staged"
                   PROVE  Len(packages'[r.package].history) = Revision(r.package)
        OBVIOUS
      <4>1. r.package \in Package
        BY <3>1 DEF Shape
      <4> QED BY <1>1, <1>3, <2>1, <4>1 DEF Revision
    <3>5. Secured(r)'
      BY <1>2, <3>1, <3>4 DEF Secured, Revision
    <3> QED BY <3>3, <3>5
  <2>2. \A v \in Worker \ {w} : Apart(Idle, tr[v]) /\ Apart(tr[v], Idle)
    BY <1>0, IdleApart
  <2>3. Shape(Idle)' /\ Secured(Idle)'
    BY IdleIs DEF Shape, Secured
  <2> QED BY <1>0, <1>2, <2>1, <2>2, <2>3, IdleIs, OneRequestMoves
<1>9. SettingsFollowWhatWasSeen'
  BY <1>0, <1>2 DEF SettingsFollowWhatWasSeen
<1> QED BY <1>4, <1>6, <1>7, <1>8, <1>9 DEF CatalogueInv

LEMMA CommitNext ==
    ASSUME CatalogueInv, NEW w \in Worker, CommitCreate(w) \/ CommitUpdate(w) \/ CommitDelete(w)
    PROVE  CatalogueInv'
<1>0. Stores /\ Requested /\ tr[w] \in Request /\ Shape(tr[w]) /\ Secured(tr[w])
  BY DEF CatalogueInv, Requested
<1>1. PICK p : p = tr[w].package
  OBVIOUS
<1>2. tr[w].pc = "staged" /\ p \in Package /\ tr[w].cursor \in 1 .. nextCursor
  BY <1>0, <1>1 DEF CommitCreate, CommitUpdate, CommitDelete, At, Shape, Secured
<1>3. CASE CommitCreate(w)
  <2>1. PICK row : row = [history |-> <<[price |-> tr[w].price, base |-> 0]>>, deleted |-> FALSE]
    OBVIOUS
  <2>2. CommitPackage(w, row) /\ tr[w].kind = "create"
    BY <1>3, <2>1 DEF CommitCreate, At
  <2>3. tr[w].price \in Price /\ ~Present(p)
    BY <1>0, <1>1, <2>2 DEF Shape
  <2>4. row \in Stored /\ Len(row.history) = 1
    BY <2>1, <2>3 DEF Stored
  <2>5. Len(row.history) \in 1 .. MaxRevision
    BY <2>4, CatalogueAssumption
  <2>6. ASSUME NEW v \in Worker \ {w}, tr[v].kind \in {"update", "delete"} PROVE tr[v].package # p
    BY <1>0, <1>1, <2>2, <2>6 DEF Requested, Apart
  <2> QED BY <1>1, <1>2, <2>2, <2>3, <2>4, <2>5, <2>6, CommitKeeps
<1>4. CASE CommitUpdate(w)
  <2>1. PICK row : row = Revised(packages[p], tr[w].price, tr[w].base)
    OBVIOUS
  <2>2. CommitPackage(w, row) /\ tr[w].kind = "update"
    BY <1>1, <1>4, <2>1 DEF CommitUpdate, At
  <2>3. /\ Present(p) /\ tr[w].price \in Price /\ tr[w].base \in Nat
        /\ Revision(p) < MaxRevision /\ Update(<<"package", p>>) \in tr[w].held
    BY <1>0, <1>1, <1>2, <2>2 DEF Shape, Secured, Request
  <2>4. packages[p] \in Stored /\ packages[p].history \in Seq([price : Price, base : Nat])
    BY <1>0, <1>2, <2>3, PackageIs
  <2>5. PICK e : e = [price |-> tr[w].price, base |-> tr[w].base]
    OBVIOUS
  <2>6. e \in [price : Price, base : Nat]
    BY <2>3, <2>5
  <2>7. row = [packages[p] EXCEPT !.history = Append(packages[p].history, e)]
    BY <2>1, <2>5 DEF Revised
  <2>8. Append(packages[p].history, e) \in Seq([price : Price, base : Nat])
    BY <2>4, <2>6, AppendedIs
  <2>9. row \in Stored /\ row.history = Append(packages[p].history, e) /\ row.deleted = packages[p].deleted
    BY <2>4, <2>7, <2>8 DEF Stored
  <2>10. /\ Len(row.history) = Revision(p) + 1
         /\ \A r \in 1 .. Revision(p) : row.history[r] = packages[p].history[r]
    BY <2>4, <2>6, <2>9, AppendedIs DEF Revision
  <2>11. Revision(p) \in Nat /\ Revision(p) >= 1 /\ MaxRevision \in Nat
    BY <1>0, <1>2, <2>3, PackageIs, CatalogueAssumption
  <2>12. Len(row.history) \in 1 .. MaxRevision /\ Revision(p) <= Len(row.history)
    BY <2>3, <2>10, <2>11
  <2>13. ASSUME NEW v \in Worker \ {w}, tr[v].pc = "staged", tr[v].kind \in {"update", "delete"},
                tr[v].package = p
         PROVE  FALSE
    <3>1. Update(<<"package", p>>) \in tr[v].held
      BY <1>0, <2>13 DEF Requested, Secured
    <3>2. Conflict(Update(<<"package", p>>), Update(<<"package", p>>))
      BY DEF Conflict, Update
    <3> QED BY <1>0, <2>3, <3>1, <3>2 DEF Requested, Apart
  <2> QED BY <1>1, <1>2, <2>2, <2>9, <2>10, <2>12, <2>13, CommitKeeps
<1>5. CASE CommitDelete(w)
  <2>1. PICK row : row = [packages[p] EXCEPT !.deleted = TRUE]
    OBVIOUS
  <2>2. CommitPackage(w, row) /\ tr[w].kind = "delete"
    BY <1>1, <1>5, <2>1 DEF CommitDelete, At
  <2>3. Present(p)
    BY <1>0, <1>1, <1>2, <2>2 DEF Shape
  <2>4. packages[p] \in Stored /\ Revision(p) \in Nat /\ Revision(p) >= 1 /\ Revision(p) <= MaxRevision
    BY <1>0, <1>2, <2>3, PackageIs
  <2>5. row \in Stored /\ row.history = packages[p].history /\ row.deleted = TRUE
    BY <2>1, <2>4 DEF Stored
  <2>6. Len(row.history) = Revision(p)
    BY <2>5 DEF Revision
  <2>7. Len(row.history) \in 1 .. MaxRevision /\ Revision(p) <= Len(row.history)
    BY <2>4, <2>6, CatalogueAssumption
  <2> QED BY <1>1, <1>2, <2>2, <2>5, <2>6, <2>7, CommitKeeps
<1> QED BY <1>3, <1>4, <1>5

LEMMA SettingNext ==
    ASSUME CatalogueInv, NEW w \in Worker, CommitSetting(w)
    PROVE  CatalogueInv'
<1>0. Stores /\ Requested /\ Published /\ SettingsFollowWhatWasSeen /\ tr[w] \in Request
      /\ Shape(tr[w]) /\ Secured(tr[w])
  BY DEF CatalogueInv, Requested
<1>1. PICK k, base : k = tr[w].setting /\ base = tr[w].base
  OBVIOUS
<1>2. PICK next : next = Append(settings[k], [base |-> base])
  OBVIOUS
<1>3. /\ settings' = [settings EXCEPT ![k] = next]
      /\ active' = IF tr[w].activate THEN Len(next) ELSE active
      /\ tr' = [tr EXCEPT ![w] = Idle]
      /\ UNCHANGED <<packages, log, nextCursor, sent, deviceVars>>
      /\ tr[w].pc = "staged" /\ tr[w].kind = "setting"
  BY <1>1, <1>2 DEF CommitSetting, At
<1>4. /\ k \in Setting /\ Update(<<"tenant">>) \in tr[w].held /\ base = Len(settings[k]) /\ base < MaxRevision
      /\ tr[w].activate => k = "qris"
      /\ base \in Nat
  BY <1>0, <1>1, <1>3 DEF Shape, Secured, Request
<1>5. /\ next \in Seq([base : Nat]) /\ Len(next) = base + 1
      /\ \A r \in 1 .. base : next[r] = settings[k][r]
      /\ next[base + 1] = [base |-> base]
  <2>1. settings[k] \in Seq([base : Nat]) /\ [base |-> base] \in [base : Nat]
    BY <1>0, <1>4, SettingIs
  <2> QED BY <1>2, <1>4, <2>1, AppendedIs
<1>6. settings'[k] = next /\ \A x \in Setting \ {k} : settings'[x] = settings[x]
  BY <1>0, <1>3, <1>4 DEF Stores
<1>7. \A x \in Setting : Len(settings[x]) <= Len(settings'[x])
  <2> SUFFICES ASSUME NEW x \in Setting PROVE Len(settings[x]) <= Len(settings'[x])
    OBVIOUS
  <2>1. Len(settings[x]) \in Nat
    BY <1>0, SettingIs
  <2>2. CASE x = k
    <3>1. Len(settings'[x]) = base + 1 /\ Len(settings[x]) = base
      BY <1>4, <1>5, <1>6, <2>2
    <3> QED BY <1>4, <3>1
  <2>3. CASE x # k
    BY <1>6, <2>1, <2>3
  <2> QED BY <2>2, <2>3
<1>8. Stores'
  <2>1. settings' \in [Setting -> Seq([base : Nat])]
    BY <1>0, <1>3, <1>5 DEF Stores
  <2>2. ASSUME NEW x \in Setting PROVE Len(settings'[x]) <= MaxRevision
    BY <1>0, <1>4, <1>5, <1>6, SettingIs, CatalogueAssumption
  <2>3. Len(settings'["profile"]) >= 1
    <3>1. Len(settings["profile"]) >= 1 /\ Len(settings["profile"]) \in Nat /\ "profile" \in Setting
      BY <1>0, SettingIs DEF Stores, Setting
    <3>2. Len(settings'["profile"]) \in Nat
      BY <2>1, <3>1
    <3> QED BY <1>7, <3>1, <3>2
  <2>4. active' \in 0 .. Len(settings'["qris"])
    <3>1. active \in 0 .. Len(settings["qris"]) /\ Len(settings["qris"]) \in Nat /\ "qris" \in Setting
      BY <1>0, SettingIs DEF Stores, Setting
    <3>2. Len(settings'["qris"]) \in Nat
      BY <2>1, <3>1
    <3>3. CASE tr[w].activate
      BY <1>3, <1>4, <1>6, <3>2, <3>3
    <3>4. CASE ~tr[w].activate
      BY <1>3, <1>7, <3>1, <3>2, <3>4
    <3> QED BY <3>3, <3>4
  <2> QED BY <1>0, <1>3, <2>1, <2>2, <2>3, <2>4 DEF Stores, Present, Revision
<1>9. PackagesGrow
  <2> SUFFICES ASSUME NEW x \in Package, Present(x)
               PROVE  /\ packages'[x] # NoPackage
                      /\ Revision(x) <= Len(packages'[x].history)
                      /\ \A r \in 1 .. Revision(x) : packages'[x].history[r] = packages[x].history[r]
                      /\ packages[x].deleted => packages'[x].deleted
    BY DEF PackagesGrow
  <2>1. packages' = packages /\ Revision(x) \in Nat
    BY <1>0, <1>3, PackageIs
  <2> QED BY <2>1 DEF Present, Revision
<1>10. Copied' /\ Listed' /\ Sold' /\ Pulled'
  BY <1>3, <1>7, <1>8, <1>9, DeviceStays
<1>11. Published'
  BY <1>0, <1>3 DEF Published, Present
<1>12. Requested'
  <2>1. ASSUME NEW v \in Worker \ {w}, NEW r, r = tr[v] PROVE Shape(r)' /\ Secured(r)'
    <3>1. Shape(r) /\ Secured(r) /\ Apart(r, tr[w])
      BY <1>0, <2>1 DEF Requested
    <3>2. Shape(r)'
      BY <1>3, <3>1 DEF Shape, Present
    <3>3. Conflict(Update(<<"tenant">>), Update(<<"tenant">>))
      BY DEF Conflict, Update
    <3>4. ~(r.pc = "staged" /\ r.kind = "setting")
      BY <1>4, <3>1, <3>3 DEF Secured, Apart
    <3>5. Secured(r)'
      BY <1>3, <3>1, <3>4 DEF Secured, Revision
    <3> QED BY <3>2, <3>5
  <2>2. \A v \in Worker \ {w} : Apart(Idle, tr[v]) /\ Apart(tr[v], Idle)
    BY <1>0, IdleApart
  <2>3. Shape(Idle)' /\ Secured(Idle)'
    BY IdleIs DEF Shape, Secured
  <2> QED BY <1>0, <1>3, <2>1, <2>2, <2>3, IdleIs, OneRequestMoves
<1>13. SettingsFollowWhatWasSeen'
  <2> SUFFICES ASSUME NEW x \in Setting, NEW r \in DOMAIN settings'[x]
               PROVE  settings'[x][r].base = r - 1
    BY DEF SettingsFollowWhatWasSeen
  <2>1. CASE x = k
    <3>1. r \in 1 .. base + 1
      BY <1>5, <1>6, <2>1
    <3>2. CASE r = base + 1
      BY <1>4, <1>5, <1>6, <2>1, <3>2
    <3>3. CASE r # base + 1
      <4>1. r \in 1 .. base /\ r \in DOMAIN settings[k]
        BY <1>0, <1>4, <3>1, <3>3, SettingIs
      <4> QED BY <1>0, <1>4, <1>5, <1>6, <2>1, <4>1 DEF SettingsFollowWhatWasSeen
    <3> QED BY <3>2, <3>3
  <2>2. CASE x # k
    BY <1>0, <1>6, <2>2 DEF SettingsFollowWhatWasSeen
  <2> QED BY <2>1, <2>2
<1> QED BY <1>8, <1>10, <1>11, <1>12, <1>13 DEF CatalogueInv

-----------------------------------------------------------------------------
(***************************************************************************)
(* What FoldLeftDomain does to a page.  The fold recurses over the sets of *)
(* positions up to the largest one; here it is one over their number.      *)
(***************************************************************************)

(* Induction over numbers, of a set instead of a predicate. *)
LEMMA CountingUp ==
    ASSUME NEW S \in SUBSET Nat, 0 \in S, \A n \in S : n + 1 \in S
    PROVE  \A n \in Nat : n \in S
<1> SUFFICES ASSUME NEW m \in Nat \ S PROVE FALSE
  OBVIOUS
<1>1. PICK n \in Nat \ S : \A k \in Nat \ S : ~(<<k, n>> \in OpToRel(<, Nat))
  BY WFMin, NatLessThanWellFounded
<1>2. n - 1 \in Nat /\ n - 1 < n /\ n = (n - 1) + 1
  OBVIOUS
<1>3. n - 1 \in S
  BY <1>1, <1>2 DEF OpToRel
<1> QED BY <1>2, <1>3

LEMMA LargestIs ==
    ASSUME NEW k \in Nat, NEW s \in SUBSET (1 .. k), s # {}
    PROVE  Max(s) \in s /\ \A y \in s : Max(s) >= y
<1> DEFINE Bounded == {n \in Nat : \A r \in SUBSET (1 .. n) : r # {} => \E x \in r : \A y \in r : x >= y}
<1>1. 0 \in Bounded
  <2>1. 1 .. 0 = {}
    OBVIOUS
  <2> QED BY <2>1
<1>2. ASSUME NEW n \in Bounded PROVE n + 1 \in Bounded
  <2> SUFFICES ASSUME NEW r \in SUBSET (1 .. n + 1), r # {} PROVE \E x \in r : \A y \in r : x >= y
    BY <1>2
  <2>1. CASE n + 1 \in r
    BY <2>1
  <2>2. CASE n + 1 \notin r
    <3>1. r \in SUBSET (1 .. n)
      BY <2>2
    <3> QED BY <3>1
  <2> QED BY <2>1, <2>2
<1> HIDE DEF Bounded
<1>3. k \in Bounded
  <2>1. Bounded \in SUBSET Nat
    BY DEF Bounded
  <2> QED BY <1>1, <1>2, <2>1, CountingUp
<1>4. \E x \in s : \A y \in s : x >= y
  BY <1>3 DEF Bounded
<1> QED BY <1>4 DEF Max

LEMMA WithoutLargest ==
    ASSUME NEW n \in Nat, NEW s \in SUBSET (1 .. n + 1), s # {}
    PROVE  s \ {Max(s)} \in SUBSET (1 .. n)
<1>1. n + 1 \in Nat
  OBVIOUS
<1>2. Max(s) \in s /\ \A y \in s : Max(s) >= y
  BY <1>1, LargestIs
<1>3. ASSUME NEW x \in s, \A y \in s : x >= y PROVE s \ {x} \in SUBSET (1 .. n)
  BY <1>3
<1> QED BY <1>2, <1>3

(* g folds the rows of page in this order, over positions up to n. *)
Folding(g, order, n) ==
    g = [s \in SUBSET (1 .. n) |->
            IF s = {} THEN copy
            ELSE Applied(g[s \ {Max(s)}], page.changes[order[Max(s)]], page.rows[order[Max(s)]])]

LEMMA FoldingExists ==
    ASSUME NEW order, NEW k \in Nat
    PROVE  \E g : Folding(g, order, k)
<1> DEFINE Far == {n \in Nat : \E g : Folding(g, order, n)}
<1>1. 0 \in Far
  <2> DEFINE g == [s \in SUBSET (1 .. 0) |-> copy]
  <2>1. \A s \in SUBSET (1 .. 0) : s = {}
    OBVIOUS
  <2>2. Folding(g, order, 0)
    BY <2>1 DEF Folding
  <2> QED BY <2>2
<1>2. ASSUME NEW n \in Far PROVE n + 1 \in Far
  <2>1. PICK g : Folding(g, order, n)
    BY <1>2
  <2> DEFINE Next1(h, s) == IF s = {} THEN copy
                 ELSE Applied(h[s \ {Max(s)}], page.changes[order[Max(s)]], page.rows[order[Max(s)]])
             f == [s \in SUBSET (1 .. n + 1) |-> Next1(g, s)]
  <2>0. n \in Nat /\ \A s \in SUBSET (1 .. n) : s \in SUBSET (1 .. n + 1)
    OBVIOUS
  <2>2. \A s \in SUBSET (1 .. n) : g[s] = Next1(g, s)
    BY <2>1, Zenon DEF Folding
  <2>3. \A s \in SUBSET (1 .. n) : f[s] = g[s]
    BY <2>0, <2>2
  <2>4. \A s \in SUBSET (1 .. n + 1) : s # {} => s \ {Max(s)} \in SUBSET (1 .. n)
    BY <2>0, WithoutLargest
  <2>5. \A s \in SUBSET (1 .. n + 1) : f[s] = Next1(f, s)
    BY <2>3, <2>4
  <2>6. f = [s \in SUBSET (1 .. n + 1) |-> Next1(f, s)]
    <3> HIDE DEF Next1
    <3>1. f = [s \in SUBSET (1 .. n + 1) |-> f[s]]
      OBVIOUS
    <3> HIDE DEF f
    <3> QED BY <2>5, <3>1
  <2>7. Folding(f, order, n + 1)
    <3> HIDE DEF f
    <3> QED BY <2>6 DEF Folding
  <2> HIDE DEF f
  <2> QED BY <2>7
<1> HIDE DEF Far
<1>3. Far \in SUBSET Nat
  BY DEF Far
<1>4. k \in Far
  BY <1>1, <1>2, <1>3, CountingUp
<1> QED BY <1>4 DEF Far

(* The copy that InstallPage leaves. *)
Installed == FoldLeftDomain(LAMBDA before, i : Applied(before, page.changes[i], page.rows[i]),
                            copy, page.changes)

(* What has become of the copy after i of n changes. *)
LEMMA PageFolded ==
    ASSUME NEW n \in Nat, DOMAIN page.changes = 1 .. n
    PROVE  \E h : /\ h[0] = copy /\ h[n] = Installed
                  /\ \A i \in 1 .. n : h[i] = Applied(h[i - 1], page.changes[i], page.rows[i])
<1> DEFINE order == [i \in DOMAIN page.changes |-> i]
           iter == CHOOSE g : Folding(g, order, n)
<1>0. DOMAIN order = 1 .. n /\ \A i \in 1 .. n : order[i] = i
  OBVIOUS
<1> HIDE DEF order
<1>1. Installed = iter[1 .. n]
  BY <1>0 DEF Installed, FoldLeftDomain, FoldLeft, MapThenFoldSet, Folding, order
<1>2. Folding(iter, order, n)
  BY FoldingExists
<1> HIDE DEF iter
<1> DEFINE h == [i \in 0 .. n |-> iter[1 .. i]]
<1>3. h[0] = copy
  <2>1. 1 .. 0 = {} /\ {} \in SUBSET (1 .. n) /\ 0 \in 0 .. n
    OBVIOUS
  <2> QED BY <1>2, <2>1 DEF Folding
<1>4. ASSUME NEW i \in 1 .. n PROVE h[i] = Applied(h[i - 1], page.changes[i], page.rows[i])
  <2>1. PICK s : s = 1 .. i
    OBVIOUS
  <2>2. s \in SUBSET (1 .. n) /\ s # {} /\ s \in SUBSET (1 .. i) /\ i \in s /\ i \in Nat
    BY <2>1
  <2>3. Max(s) \in s /\ \A y \in s : Max(s) >= y
    BY <2>2, LargestIs
  <2>4. Max(s) = i /\ s \ {i} = 1 .. (i - 1)
    BY <2>1, <2>2, <2>3
  <2>5. iter[s] = IF s = {} THEN copy
                  ELSE Applied(iter[s \ {Max(s)}], page.changes[order[Max(s)]], page.rows[order[Max(s)]])
    BY <1>2, <2>2 DEF Folding
  <2>6. iter[s] = Applied(iter[1 .. (i - 1)], page.changes[i], page.rows[i])
    BY <1>0, <2>2, <2>4, <2>5
  <2> QED BY <2>1, <2>6
<1>5. h[n] = Installed
  BY <1>1
<1> HIDE DEF h
<1> QED BY <1>3, <1>4, <1>5

-----------------------------------------------------------------------------
(* --- The device --------------------------------------------------------- *)
(* The row that a request shows of a package. *)
LEMMA ShownKnown ==
    ASSUME Stores, NEW p \in Package, Present(p)
    PROVE  /\ Known(p, Shown(p)) /\ Shown(p) \in Row
           /\ Shown(p).offered = ~packages[p].deleted
<1>1. /\ Revision(p) \in 1 .. MaxRevision /\ Revision(p) \in 1 .. Revision(p)
      /\ Last(packages[p].history) = packages[p].history[Revision(p)]
      /\ packages[p].history[Revision(p)].price \in Price
  BY PackageIs, CatalogueAssumption
<1>2. /\ Shown(p).revision = Revision(p) /\ Shown(p).price = packages[p].history[Revision(p)].price
      /\ Shown(p).offered = ~packages[p].deleted /\ Shown(p) \in Row
  BY <1>1 DEF Shown, Row
<1> QED BY <1>1, <1>2 DEF Known

LEMMA HiddenRow ==
    ASSUME NEW row \in Row, NEW new, new = [row EXCEPT !.offered = FALSE]
    PROVE  /\ new \in Row /\ new.revision = row.revision /\ new.price = row.price /\ new.offered = FALSE
           /\ row.revision \in Nat
<1>1. MaxRevision \in Nat
  BY CatalogueAssumption
<1>2. new \in Row /\ new.revision = row.revision /\ new.price = row.price /\ new.offered = FALSE
  BY DEF Row
<1>3. row.revision \in Nat
  BY <1>1 DEF Row
<1> QED BY <1>2, <1>3

(* One row is put in the place of another, or not. *)
LEMMA UpsertedKnown ==
    ASSUME NEW p \in Package, NEW old \in Row \cup {NoPackage}, NEW new,
           old # NoPackage => Known(p, old), Known(p, new)
    PROVE  /\ Known(p, Upserted(old, new)) /\ Upserted(old, new) # NoPackage
           /\ Upserted(old, new) \in {old, new}
           /\ old # NoPackage => Upserted(old, new).revision >= old.revision
<1>1. Known(p, Upserted(old, new)) /\ Upserted(old, new) \in {old, new}
  BY DEF Upserted
<1>2. \A row \in Row : row # NoPackage /\ row.revision \in Nat
  BY CatalogueAssumption DEF Row
<1>3. old # NoPackage => Upserted(old, new).revision >= old.revision
  BY <1>2 DEF Upserted, Known
<1> QED BY <1>1, <1>2, <1>3 DEF Known

(* The copy is at least as new as it was, and offers what it did not only  *)
(* where a listing does.                                                   *)
MovesOn ==
    \A p \in Package : copy[p] # NoPackage =>
        /\ copy'[p].revision >= copy[p].revision
        /\ copy'[p].offered /\ ~copy[p].offered =>
              [package |-> p, row |-> copy'[p]] \in listing

LEMMA CopyRests ==
    ASSUME Copied, UNCHANGED copy
    PROVE  MovesOn
<1>1. ASSUME NEW p \in Package, copy[p] # NoPackage PROVE copy[p].revision \in Nat
  BY <1>1, CatalogueAssumption DEF Copied, Row
<1> QED BY <1>1 DEF MovesOn

LEMMA ListedInstalled ==
    ASSUME CatalogueInv, InstallListed
    PROVE  Copied' /\ Pulled' /\ MovesOn
<1>0. Stores /\ Copied /\ Listed /\ Pulled
      /\ UNCHANGED <<packages, settings, log, nextCursor, cursor, page, listing>>
  BY DEF InstallListed, serverVars, CatalogueInv
<1>1. PICK item \in listing : copy' = [copy EXCEPT ![item.package] = Upserted(copy[item.package], item.row)]
  BY DEF InstallListed
<1>2. PICK p, old, new : p = item.package /\ old = copy[p] /\ new = Upserted(old, item.row)
  OBVIOUS
<1>3. /\ p \in Package /\ Known(p, item.row) /\ item.row.offered /\ item = [package |-> p, row |-> item.row]
      /\ old \in Row \cup {NoPackage} /\ (old # NoPackage => Known(p, old))
  BY <1>0, <1>2 DEF Listed, Copied
<1>4. /\ Known(p, new) /\ new # NoPackage /\ new \in {old, item.row}
      /\ old # NoPackage => new.revision >= old.revision
  BY <1>2, <1>3, UpsertedKnown
<1>5. /\ copy' \in [Package -> Row \cup {NoPackage}]
      /\ copy'[p] = new /\ \A x \in Package \ {p} : copy'[x] = copy[x]
  BY <1>0, <1>1, <1>2, <1>3, <1>4 DEF Copied, Known
<1>6. Copied'
  <2>1. ASSUME NEW x \in Package, copy'[x] # NoPackage PROVE Known(x, copy[x])'
    <3>1. PICK row : row = copy'[x]
      OBVIOUS
    <3>2. Known(x, row)
      BY <1>0, <1>4, <1>5, <2>1, <3>1 DEF Copied
    <3> QED BY <1>0, <3>1, <3>2 DEF Known, Present, Revision
  <2>2. \A x \in Package : (copy[x] # NoPackage)' => Known(x, copy[x])'
    BY <2>1
  <2> QED BY <1>0, <1>5, <2>2 DEF Copied
<1>7. Pulled'
  <2> SUFFICES ASSUME page # NoRows PROVE Pulled'
    BY <1>0 DEF Pulled
  <2>1. /\ page = [changes |-> page.changes, rows |-> page.rows]
        /\ page.changes \in Seq(log) /\ page.changes # <<>>
    BY <1>0 DEF Pulled
  <2>2. ASSUME NEW x \in Package, copy'[x] # NoPackage, ~copy'[x].offered
        PROVE  copy[x] # NoPackage /\ ~copy[x].offered
    BY <1>2, <1>3, <1>4, <1>5, <2>2
  <2>3. ASSUME NEW x \in Package, Hides(x)' PROVE Hides(x)
    BY <1>0, <2>2, <2>3 DEF Hides
  <2>4. ASSUME page.rows # NoRows, NEW i \in DOMAIN page.changes
        PROVE  /\ Known(page.changes[i].package, page.rows[i])'
               /\ Hides(page.changes[i].package)' => ~page.rows[i].offered
    <3>1. PICK x, row : x = page.changes[i].package /\ row = page.rows[i]
      OBVIOUS
    <3>2. Known(x, row) /\ (Hides(x) => ~row.offered)
      BY <1>0, <2>4, <3>1 DEF Pulled
    <3>3. x \in Package
      BY <2>1, <2>4, <3>1, SequenceIs DEF CatalogueInv, Published, Change
    <3>4. Hides(x)' => ~row.offered
      BY <2>3, <3>2, <3>3
    <3>5. Hides(page.changes[i].package)' => Hides(x)'
      BY <1>0, <3>1 DEF Hides
    <3>6. Known(page.changes[i].package, page.rows[i])'
      BY <1>0, <3>1, <3>2 DEF Known, Present, Revision
    <3> QED BY <3>1, <3>4, <3>5, <3>6
  <2> QED BY <1>0, <2>1, <2>4 DEF Pulled
<1>8. MovesOn
  <2> SUFFICES ASSUME NEW x \in Package, copy[x] # NoPackage
               PROVE  /\ copy'[x].revision >= copy[x].revision
                      /\ copy'[x].offered /\ ~copy[x].offered =>
                            [package |-> x, row |-> copy'[x]] \in listing
    BY DEF MovesOn
  <2>1. copy[x].revision \in Nat
    BY <1>0, CatalogueAssumption DEF Copied, Row
  <2>2. CASE x = p
    BY <1>2, <1>3, <1>4, <1>5, <2>2
  <2>3. CASE x # p
    BY <1>5, <2>1, <2>3
  <2> QED BY <2>2, <2>3
<1> QED BY <1>6, <1>7, <1>8

(* A copy b on the way from copy to the one that the page leaves. *)
Halfway(b) ==
    /\ b \in [Package -> Row \cup {NoPackage}]
    /\ \A p \in Package : b[p] # NoPackage =>
          /\ Known(p, b[p])
          /\ ~b[p].offered => Hides(p)
    /\ \A p \in Package : copy[p] # NoPackage =>
          /\ b[p] # NoPackage /\ b[p].revision >= copy[p].revision
          /\ ~copy[p].offered => ~b[p].offered

LEMMA AppliedHalfway ==
    ASSUME CatalogueInv, page # NoRows, page.rows # NoRows,
           NEW i \in DOMAIN page.changes, NEW b, Halfway(b)
    PROVE  Halfway(Applied(b, page.changes[i], page.rows[i]))
<1>0. Stores /\ Published /\ Copied /\ Pulled
  BY DEF CatalogueInv
<1>1. PICK p, change, row : /\ p = page.changes[i].package /\ change = page.changes[i]
                            /\ row = page.rows[i]
  OBVIOUS
<1>2. change \in log /\ p \in Package
  BY <1>0, <1>1, SequenceIs DEF Pulled, Published, Change
<1>3. Known(p, row) /\ (Hides(p) => ~row.offered) /\ (change.tombstone => Hides(p))
      /\ (~row.offered => Hides(p))
  BY <1>0, <1>1 DEF Pulled, Hides
<1>4. PICK old, new : /\ old = b[p]
                      /\ new = IF ~change.tombstone THEN Upserted(old, row)
                               ELSE IF old = NoPackage THEN old ELSE [old EXCEPT !.offered = FALSE]
  OBVIOUS
<1>5. Applied(b, change, row) = [b EXCEPT ![p] = new]
  BY <1>1, <1>4 DEF Applied
<1>6. old \in Row \cup {NoPackage} /\ (old # NoPackage => Known(p, old) /\ (~old.offered => Hides(p)))
  BY <1>2, <1>4 DEF Halfway
<1>7. /\ new \in Row \cup {NoPackage}
      /\ new # NoPackage => Known(p, new) /\ (~new.offered => Hides(p))
      /\ old # NoPackage => /\ new # NoPackage /\ new.revision >= old.revision
                            /\ ~old.offered => ~new.offered
  <2>1. CASE ~change.tombstone
    <3>1. /\ Known(p, new) /\ new # NoPackage /\ new \in {old, row}
          /\ old # NoPackage => new.revision >= old.revision
      BY <1>2, <1>3, <1>4, <1>6, <2>1, UpsertedKnown
    <3>2. old # NoPackage /\ ~old.offered => ~new.offered
      BY <1>3, <1>6, <3>1
    <3>3. ~new.offered => Hides(p)
      BY <1>3, <1>6, <3>1
    <3> QED BY <3>1, <3>2, <3>3 DEF Known
  <2>2. CASE change.tombstone /\ old # NoPackage
    <3>1. new = [old EXCEPT !.offered = FALSE] /\ old \in Row
      BY <1>4, <1>6, <2>2
    <3>2. /\ new \in Row /\ new.revision = old.revision /\ new.price = old.price /\ new.offered = FALSE
          /\ old.revision \in Nat
      BY <3>1, HiddenRow
    <3>3. packages[p].deleted
      BY <1>0, <1>1, <1>2, <2>2 DEF Published
    <3>4. Known(p, new)
      BY <1>6, <2>2, <3>2, <3>3 DEF Known
    <3>5. new # NoPackage
      BY <3>2, CatalogueAssumption
    <3> QED BY <1>3, <2>2, <3>2, <3>4, <3>5
  <2>3. CASE change.tombstone /\ old = NoPackage
    BY <1>4, <2>3
  <2> QED BY <2>1, <2>2, <2>3
<1>8. PICK c : c = [b EXCEPT ![p] = new]
  OBVIOUS
<1>9. c \in [Package -> Row \cup {NoPackage}] /\ c[p] = new /\ \A x \in Package \ {p} : c[x] = b[x]
  BY <1>2, <1>7, <1>8 DEF Halfway
<1>10. ASSUME NEW x \in Package, c[x] # NoPackage PROVE Known(x, c[x]) /\ (~c[x].offered => Hides(x))
  BY <1>7, <1>9, <1>10 DEF Halfway
<1>11. ASSUME NEW x \in Package, copy[x] # NoPackage
       PROVE  /\ c[x] # NoPackage /\ c[x].revision >= copy[x].revision
              /\ ~copy[x].offered => ~c[x].offered
  <2>1. b[x] # NoPackage /\ b[x].revision >= copy[x].revision /\ (~copy[x].offered => ~b[x].offered)
    BY <1>11 DEF Halfway
  <2>2. CASE x # p
    BY <1>9, <2>1, <2>2
  <2>3. CASE x = p
    <3>1. copy[x] \in Row /\ old \in Row /\ new \in Row
      BY <1>0, <1>4, <1>6, <1>7, <1>11, <2>1, <2>3 DEF Copied
    <3>2. copy[x].revision \in Nat /\ old.revision \in Nat /\ new.revision \in Nat
      BY <3>1, CatalogueAssumption DEF Row
    <3>3. new # NoPackage /\ new.revision >= old.revision /\ (~old.offered => ~new.offered)
      BY <1>4, <1>7, <2>1, <2>3
    <3>4. new.revision >= copy[x].revision
      BY <1>4, <2>1, <2>3, <3>2, <3>3
    <3> QED BY <1>4, <1>9, <2>1, <2>3, <3>3, <3>4
  <2> QED BY <2>2, <2>3
<1>12. Halfway(c)
  BY <1>9, <1>10, <1>11 DEF Halfway
<1> QED BY <1>1, <1>5, <1>8, <1>12

LEMMA PageInstalled ==
    ASSUME CatalogueInv, InstallPage
    PROVE  Copied' /\ Pulled' /\ MovesOn
<1>0. /\ Stores /\ Published /\ Copied /\ Pulled /\ page # NoRows /\ page.rows # NoRows
      /\ copy' = Installed /\ cursor' = Last(page.changes).cursor /\ page' = NoRows
      /\ UNCHANGED <<packages, settings, log, nextCursor, listing>>
  BY DEF InstallPage, serverVars, CatalogueInv, Installed
<1>1. page.changes \in Seq(log) /\ page.changes # <<>>
  BY <1>0 DEF Pulled
<1>2. PICK n \in Nat : n = Len(page.changes) /\ DOMAIN page.changes = 1 .. n /\ n >= 1
  BY <1>1, SequenceIs
<1>3. PICK h : /\ h[0] = copy /\ h[n] = Installed
               /\ \A i \in 1 .. n : h[i] = Applied(h[i - 1], page.changes[i], page.rows[i])
  BY <1>2, PageFolded
<1>4. Halfway(copy)
  <2>1. ASSUME NEW p \in Package, copy[p] # NoPackage PROVE copy[p].revision \in Nat
    BY <1>0, <2>1, CatalogueAssumption DEF Copied, Row
  <2> QED BY <1>0, <2>1 DEF Halfway, Copied, Hides
<1> DEFINE S == {k \in Nat : k <= n => Halfway(h[k])}
<1>5. 0 \in S
  BY <1>3, <1>4
<1>6. ASSUME NEW k \in S PROVE k + 1 \in S
  <2>1. CASE k + 1 <= n
    <3>1. k \in Nat /\ k <= n /\ k + 1 \in 1 .. n /\ (k + 1) - 1 = k
      BY <2>1
    <3>2. Halfway(h[k])
      BY <3>1
    <3>3. Halfway(Applied(h[k], page.changes[k + 1], page.rows[k + 1]))
      BY <1>0, <1>2, <3>1, <3>2, AppliedHalfway
    <3>4. h[k + 1] = Applied(h[k], page.changes[k + 1], page.rows[k + 1])
      BY <1>3, <3>1
    <3> QED BY <3>1, <3>3, <3>4
  <2>2. CASE ~(k + 1 <= n)
    BY <2>2
  <2> QED BY <2>1, <2>2
<1> HIDE DEF S
<1>7. n \in S
  <2>1. S \in SUBSET Nat
    BY DEF S
  <2> QED BY <1>5, <1>6, <2>1, CountingUp
<1>8. PICK c : c = copy' /\ Halfway(c)
  BY <1>0, <1>3, <1>7 DEF S
<1>9. Copied'
  <2>1. ASSUME NEW x \in Package, copy'[x] # NoPackage PROVE Known(x, copy[x])'
    <3>1. PICK row : row = copy'[x]
      OBVIOUS
    <3>2. Known(x, row)
      BY <1>8, <2>1, <3>1 DEF Halfway
    <3> QED BY <1>0, <3>1, <3>2 DEF Known, Present, Revision
  <2>2. \A x \in Package : (copy[x] # NoPackage)' => Known(x, copy[x])'
    BY <2>1
  <2>3. Last(page.changes) \in log
    BY <1>1, <1>2, SequenceIs
  <2>4. cursor' \in 0 .. nextCursor
    BY <1>0, <2>3 DEF Published, Stores
  <2> QED BY <1>0, <1>8, <2>2, <2>4 DEF Copied, Halfway
<1>10. Pulled'
  BY <1>0 DEF Pulled
<1>11. MovesOn
  BY <1>8 DEF MovesOn, Halfway
<1> QED BY <1>9, <1>10, <1>11

LEMMA PageNext ==
    ASSUME CatalogueInv, PullPage \/ ReadRows
    PROVE  Pulled'
<1>0. Stores /\ Published /\ Copied /\ Pulled
      /\ UNCHANGED <<packages, settings, log, copy, cursor, listing>>
  BY DEF CatalogueInv, PullPage, ReadRows, serverVars
<1>1. CASE PullPage
  <2>1. PICK s \in PagesAfter(cursor) : page' = [changes |-> s, rows |-> NoRows]
    BY <1>1 DEF PullPage
  <2>2. PICK n \in 1 .. PageSize : s \in [1 .. n -> {x \in log : x.cursor > cursor}]
    BY DEF PagesAfter
  <2>3. n \in Nat /\ n >= 1
    BY CatalogueAssumption
  <2>4. s \in Seq(log) /\ s # <<>>
    <3>1. s \in [1 .. n -> log]
      BY <2>2
    <3>2. s \in Seq(log) /\ Len(s) = n
      BY <2>3, <3>1
    <3> QED BY <2>3, <3>2, SequenceIs
  <2> QED BY <1>0, <2>1, <2>4 DEF Pulled
<1>2. CASE ReadRows
  <2>1. page # NoRows /\ page.rows = NoRows
    BY <1>2 DEF ReadRows
  <2>2. /\ page = [changes |-> page.changes, rows |-> page.rows]
        /\ page.changes \in Seq(log) /\ page.changes # <<>>
    BY <1>0, <2>1 DEF Pulled
  <2>3. PICK rows : rows = [i \in DOMAIN page.changes |-> Shown(page.changes[i].package)]
    OBVIOUS
  <2>4. page' = [page EXCEPT !.rows = rows]
    BY <1>2, <2>3 DEF ReadRows
  <2>5. page' = [changes |-> page.changes, rows |-> rows]
    BY <2>2, <2>4
  <2>6. page'.changes = page.changes /\ page'.rows = rows
    BY <2>5
  <2>7. ASSUME NEW i \in DOMAIN page.changes
        PROVE  /\ page.changes[i] \in log /\ page.changes[i].package \in Package
               /\ Present(page.changes[i].package)
               /\ Known(page.changes[i].package, rows[i])
               /\ rows[i].offered = ~packages[page.changes[i].package].deleted
               /\ page.changes[i].tombstone => packages[page.changes[i].package].deleted
    <3>1. page.changes[i] \in log
      BY <2>2, <2>7, SequenceIs
    <3>2. /\ page.changes[i].package \in Package /\ Present(page.changes[i].package)
          /\ page.changes[i].tombstone => packages[page.changes[i].package].deleted
      BY <1>0, <3>1 DEF Published, Change
    <3> QED BY <1>0, <2>3, <2>7, <3>1, <3>2, ShownKnown
  <2>8. ASSUME NEW p \in Package, Hides(p)' PROVE packages[p].deleted
    <3>1. CASE copy[p] # NoPackage /\ ~copy[p].offered
      BY <1>0, <3>1 DEF Copied, Known
    <3>2. CASE \E i \in DOMAIN page'.changes :
                  /\ page'.changes[i].package = p
                  /\ page'.changes[i].tombstone \/ ~page'.rows[i].offered
      BY <2>6, <2>7, <3>2
    <3> QED BY <1>0, <2>8, <3>1, <3>2 DEF Hides
  <2>9. ASSUME NEW i \in DOMAIN page.changes
        PROVE  /\ Known(page.changes[i].package, page.rows[i])'
               /\ Hides(page.changes[i].package)' => ~rows[i].offered
    <3>1. PICK p, row : p = page.changes[i].package /\ row = rows[i]
      OBVIOUS
    <3>2. Known(p, row)' /\ (Hides(p)' => ~row.offered)
      BY <1>0, <2>7, <2>8, <3>1 DEF Known, Present, Revision
    <3>3. Known(page.changes[i].package, page.rows[i])'
      BY <2>6, <3>1, <3>2 DEF Known, Present, Revision
    <3>4. Hides(page.changes[i].package)' => Hides(p)'
      BY <2>6, <3>1 DEF Hides
    <3> QED BY <3>1, <3>2, <3>3, <3>4
  <2> QED BY <1>0, <2>2, <2>5, <2>6, <2>9 DEF Pulled
<1> QED BY <1>1, <1>2

LEMMA ListingNext ==
    ASSUME CatalogueInv, FetchListing
    PROVE  Listed'
<1>0. Stores /\ UNCHANGED <<packages, settings>>
      /\ listing' = {[package |-> p, row |-> Shown(p)] :
                        p \in {x \in Package : Present(x) /\ ~packages[x].deleted}}
  BY DEF CatalogueInv, FetchListing, serverVars
<1>1. ASSUME NEW item \in listing'
      PROVE  /\ item \in [package : Package, row : Row]
             /\ Known(item.package, item.row)' /\ item.row.offered
  <2>1. PICK p \in Package : Present(p) /\ ~packages[p].deleted /\ item = [package |-> p, row |-> Shown(p)]
    BY <1>0
  <2>2. Known(p, Shown(p)) /\ Shown(p) \in Row /\ Shown(p).offered = ~packages[p].deleted
    BY <1>0, <2>1, ShownKnown
  <2>3. Known(item.package, item.row)
    BY <2>1, <2>2
  <2> QED BY <1>0, <2>1, <2>2, <2>3 DEF Known, Present, Revision
<1> QED BY <1>1 DEF Listed

LEMMA SellNext ==
    ASSUME CatalogueInv, NEW p \in Package, NEW qris \in {0, config.qris}, Sell(p, qris)
    PROVE  Sold'
<1>0. /\ Stores /\ Copied /\ Sold /\ UNCHANGED <<packages, settings, config>>
      /\ copy[p] # NoPackage /\ config.profile # 0
      /\ sales' = {[package |-> p, revision |-> copy[p].revision, price |-> copy[p].price,
                    profile |-> config.profile, qris |-> qris]}
  BY DEF CatalogueInv, Sell, serverVars
<1>1. Known(p, copy[p])
  BY <1>0 DEF Copied
<1>2. /\ config \in [profile : 0 .. Len(settings["profile"]), qris : 0 .. Len(settings["qris"])]
      /\ Len(settings["profile"]) \in Nat /\ Len(settings["qris"]) \in Nat
  BY <1>0, SettingIs DEF Sold, Setting
<1>3. config.profile \in 1 .. Len(settings["profile"]) /\ qris \in 0 .. Len(settings["qris"])
  BY <1>0, <1>2
<1>4. ASSUME NEW sale \in sales' PROVE sale.package \in Package /\ Resolves(sale)'
  <2>1. sale.package = p /\ Resolves(sale)
    BY <1>0, <1>1, <1>3, <1>4 DEF Resolves, Known
  <2> QED BY <1>0, <2>1 DEF Resolves, Present, Revision
<1> QED BY <1>0, <1>2, <1>4 DEF Sold

LEMMA DeviceNext ==
    ASSUME CatalogueInv, Device
    PROVE  CatalogueInv' /\ MovesOn
<1>0. /\ Stores /\ Requested /\ Published /\ Copied /\ Listed /\ Sold /\ Pulled
      /\ SettingsFollowWhatWasSeen
  BY DEF CatalogueInv
<1>1. UNCHANGED <<packages, settings, active, log, nextCursor, sent, tr>>
  BY DEF Device, PullPage, ReadRows, InstallPage, FetchListing, InstallListed, RefreshSettings,
         Interrupt, Push, Sell, serverVars
<1>2. Stores' /\ SettingsFollowWhatWasSeen'
  BY <1>0, <1>1 DEF Stores, SettingsFollowWhatWasSeen, Present, Revision
<1>3. Published'
  BY <1>0, <1>1 DEF Published, Present
<1>4. Requested'
  BY <1>0, <1>1 DEF Requested, Shape, Secured, Present, Revision, Apart
<1>5. (UNCHANGED <<copy, cursor>>) => Copied' /\ MovesOn
  <2> SUFFICES ASSUME UNCHANGED <<copy, cursor>> PROVE Copied' /\ MovesOn
    OBVIOUS
  <2>1. Copied'
    BY <1>0, <1>1 DEF Copied, Known, Present, Revision
  <2> QED BY <1>0, <2>1, CopyRests
<1>6. (UNCHANGED listing) => Listed'
  BY <1>0, <1>1 DEF Listed, Known, Present, Revision
<1>7. (UNCHANGED <<config, sales>>) => Sold'
  BY <1>0, <1>1 DEF Sold, Resolves, Present, Revision
<1>8. (UNCHANGED <<page, copy>>) => Pulled'
  BY <1>0, <1>1 DEF Pulled, Known, Present, Revision, Hides
<1>9. page' = NoRows => Pulled'
  BY DEF Pulled
<1>10. Copied' /\ Listed' /\ Sold' /\ Pulled' /\ MovesOn
  <2>1. CASE PullPage
    BY <1>5, <1>6, <1>7, <2>1, PageNext DEF PullPage
  <2>2. CASE ReadRows
    BY <1>5, <1>6, <1>7, <2>2, PageNext DEF ReadRows
  <2>3. CASE InstallPage
    BY <1>6, <1>7, <2>3, PageInstalled DEF InstallPage
  <2>4. CASE FetchListing
    BY <1>5, <1>7, <1>8, <2>4, ListingNext DEF FetchListing
  <2>5. CASE InstallListed
    BY <1>6, <1>7, <2>5, ListedInstalled DEF InstallListed
  <2>6. CASE RefreshSettings
    <3>1. config' = [profile |-> Len(settings["profile"]), qris |-> active]
      BY <2>6 DEF RefreshSettings
    <3>2. Len(settings["profile"]) \in Nat /\ active \in 0 .. Len(settings["qris"])
      BY <1>0, SettingIs DEF Stores, Setting
    <3>3. UNCHANGED <<settings, sales, packages>>
      BY <1>1, <2>6 DEF RefreshSettings
    <3>4. \A sale : Resolves(sale) <=> Resolves(sale)'
      BY <3>3 DEF Resolves, Present, Revision
    <3>5. config' \in [profile : 0 .. Len(settings'["profile"]), qris : 0 .. Len(settings'["qris"])]
      BY <3>1, <3>2, <3>3
    <3>6. Sold'
      BY <1>0, <3>3, <3>4, <3>5 DEF Sold
    <3> QED BY <1>5, <1>6, <1>8, <2>6, <3>6 DEF RefreshSettings
  <2>7. CASE Interrupt
    <3>1. Listed'
      BY <2>7 DEF Interrupt, Listed
    <3> QED BY <1>5, <1>7, <1>9, <2>7, <3>1 DEF Interrupt
  <2>8. CASE Push
    <3>1. Sold'
      BY <1>0, <1>1, <2>8 DEF Push, Sold
    <3> QED BY <1>5, <1>6, <1>8, <2>8, <3>1 DEF Push
  <2>9. ASSUME NEW p \in Package, NEW qris \in {0, config.qris}, Sell(p, qris)
        PROVE  Copied' /\ Listed' /\ Sold' /\ Pulled' /\ MovesOn
    <3>1. Sold'
      BY <2>9, SellNext
    <3> QED BY <1>5, <1>6, <1>8, <2>9, <3>1 DEF Sell
  <2> QED BY <2>1, <2>2, <2>3, <2>4, <2>5, <2>6, <2>7, <2>8, <2>9 DEF Device
<1> QED BY <1>2, <1>3, <1>4, <1>10 DEF CatalogueInv

-----------------------------------------------------------------------------
(* --- The specification -------------------------------------------------- *)
LEMMA InvInit == Init => CatalogueInv
<1> SUFFICES ASSUME Init PROVE CatalogueInv
  OBVIOUS
<1>1. \A p \in Package : packages[p] = NoPackage /\ copy[p] = NoPackage
  BY DEF Init
<1>2. /\ \A k \in Setting : settings[k] \in Seq([base : Nat]) /\ Len(settings[k]) <= 1
      /\ Len(settings["profile"]) = 1 /\ Len(settings["qris"]) = 0
      /\ \A k \in Setting : \A r \in DOMAIN settings[k] : settings[k][r].base = r - 1
  <2>1. <<[base |-> 0]>> \in Seq([base : Nat]) /\ Len(<<[base |-> 0]>>) = 1 /\ <<>> \in Seq([base : Nat])
    OBVIOUS
  <2>2. \A k \in Setting : settings[k] = IF k = "qris" THEN <<>> ELSE <<[base |-> 0]>>
    BY DEF Init
  <2>3. "profile" \in Setting /\ "qris" \in Setting
    BY DEF Setting
  <2>4. ASSUME NEW k \in Setting
        PROVE  /\ settings[k] \in Seq([base : Nat]) /\ Len(settings[k]) <= 1
               /\ \A r \in DOMAIN settings[k] : settings[k][r].base = r - 1
    <3>1. CASE k = "qris"
      <4>1. settings[k] = <<>>
        BY <2>2, <3>1
      <4>2. DOMAIN settings[k] = {}
        BY <4>1
      <4> QED BY <2>1, <4>1, <4>2
    <3>2. CASE k # "qris"
      <4>1. settings[k] = <<[base |-> 0]>>
        BY <2>2, <3>2
      <4>2. ASSUME NEW r \in DOMAIN settings[k] PROVE settings[k][r].base = r - 1
        <5>1. r = 1
          BY <4>1
        <5> QED BY <4>1, <5>1
      <4> QED BY <2>1, <4>1, <4>2
    <3> QED BY <3>1, <3>2
  <2> QED BY <2>1, <2>2, <2>3, <2>4
<1>3. Stores
  <2>1. packages \in [Package -> Stored \cup {NoPackage}]
    BY DEF Init
  <2>2. settings \in [Setting -> Seq([base : Nat])]
    BY <1>2 DEF Init
  <2>3. \A k \in Setting : Len(settings[k]) <= MaxRevision
    BY <1>2, CatalogueAssumption
  <2> QED BY <1>1, <1>2, <2>1, <2>2, <2>3, CatalogueAssumption DEF Init, Stores, Present
<1>4. Requested
  <2>1. tr \in [Worker -> Request] /\ \A w \in Worker : tr[w] = Idle
    BY IdleIs DEF Init
  <2>2. Shape(Idle) /\ Secured(Idle) /\ Apart(Idle, Idle)
    BY IdleIs DEF Shape, Secured, Apart
  <2> QED BY <2>1, <2>2 DEF Requested
<1>5. Published /\ Listed /\ Pulled
  BY DEF Init, Published, Listed, Pulled
<1>6. Copied
  BY <1>1, CatalogueAssumption DEF Init, Copied
<1>7. Sold
  BY <1>2 DEF Init, Sold
<1>8. SettingsFollowWhatWasSeen
  BY <1>2 DEF SettingsFollowWhatWasSeen
<1> QED BY <1>3, <1>4, <1>5, <1>6, <1>7, <1>8 DEF CatalogueInv

LEMMA InvNext ==
    ASSUME CatalogueInv, [Next]_vars
    PROVE  CatalogueInv' /\ MovesOn
<1>0. Stores /\ Requested /\ Copied
  BY DEF CatalogueInv
<1>1. ASSUME NEW w \in Worker, Ask(w) \/ Proceed(w) \/ Abort(w) PROVE CatalogueInv' /\ MovesOn
  <2>1. CASE Draws /\ Requested'
    <3>1. CatalogueInv'
      BY <2>1, DrawsKeeps DEF CatalogueInv
    <3>2. MovesOn
      BY <1>0, <2>1, CopyRests DEF Draws, deviceVars
    <3> QED BY <3>1, <3>2
  <2>2. CASE Ask(w)
    BY <1>0, <2>1, <2>2, AskNext
  <2>3. CASE Abort(w)
    BY <1>0, <2>1, <2>3, RefuseKeeps DEF Abort
  <2>4. CASE StageCreate(w) \/ BeginWrite(w) \/ LockPackage(w) \/ LockSetting(w)
    BY <1>0, <2>1, <2>4, LockingNext
  <2>5. CASE CommitCreate(w) \/ CommitUpdate(w) \/ CommitDelete(w) \/ CommitSetting(w)
    <3>1. CatalogueInv'
      BY <2>5, CommitNext, SettingNext
    <3>2. UNCHANGED copy
      BY <2>5 DEF CommitCreate, CommitUpdate, CommitDelete, CommitSetting, CommitPackage, deviceVars
    <3> QED BY <1>0, <3>1, <3>2, CopyRests
  <2> QED BY <1>1, <2>2, <2>3, <2>4, <2>5 DEF Proceed
<1>2. CASE Device
  BY <1>2, DeviceNext
<1>3. CASE UNCHANGED vars
  <2>1. UNCHANGED <<packages, settings, active, log, nextCursor, sent, tr, deviceVars>>
    BY <1>3 DEF vars, serverVars
  <2>2. Draws
    BY <1>0, <2>1, CatalogueAssumption DEF Draws, Stores
  <2>3. Requested'
    BY <1>0, <2>1 DEF Requested, Shape, Secured, Present, Revision, Apart
  <2>4. CatalogueInv'
    BY <2>2, <2>3, DrawsKeeps DEF CatalogueInv
  <2>5. MovesOn
    BY <1>0, <2>1, CopyRests DEF deviceVars
  <2> QED BY <2>4, <2>5
<1> QED BY <1>1, <1>2, <1>3 DEF Next

LEMMA CatalogueInvariant == Spec => []CatalogueInv
<1>1. CatalogueInv /\ [Next]_vars => CatalogueInv'
  BY InvNext
<1> QED BY InvInit, <1>1, PTL DEF Spec

(***************************************************************************)
(* Packages, settings and requests have their types, and so has what the   *)
(* device keeps.                                                           *)
(***************************************************************************)
THEOREM CatalogueTypeCorrect == Spec => []TypeOK
<1>1. CatalogueInv => TypeOK
  <2> SUFFICES ASSUME CatalogueInv PROVE TypeOK
    OBVIOUS
  <2>1. nextCursor \in 0 .. MaxCursor /\ MaxCursor \in Nat
    BY CatalogueAssumption DEF CatalogueInv, Stores
  <2>2. log \subseteq [cursor : 1 .. MaxCursor, package : Package, tombstone : BOOLEAN]
    <3> SUFFICES ASSUME NEW x \in log
                 PROVE  x \in [cursor : 1 .. MaxCursor, package : Package, tombstone : BOOLEAN]
      OBVIOUS
    <3>1. x \in Change /\ x.cursor \in 1 .. nextCursor
      BY DEF CatalogueInv, Published
    <3>2. x.cursor \in 1 .. MaxCursor
      BY <2>1, <3>1
    <3> QED BY <3>1, <3>2 DEF Change
  <2> QED BY <2>2 DEF CatalogueInv, Stores, Copied, Listed, TypeOK
<1> QED BY <1>1, CatalogueInvariant, PTL

(***************************************************************************)
(* README.md:194: whatever superadmins edit or delete, a sale from a stale *)
(* copy still resolves at the server, at the price of the copy, because a  *)
(* revision is never rewritten (package_revisions is only inserted into).  *)
(***************************************************************************)
THEOREM CopiesStayGood == Spec => []StaleSalesResolve
<1>1. CatalogueInv => StaleSalesResolve
  <2> SUFFICES ASSUME CatalogueInv PROVE StaleSalesResolve
    OBVIOUS
  <2>0. Stores /\ Copied /\ Sold
    BY DEF CatalogueInv
  <2>1. ASSUME NEW p \in Package, copy[p] # NoPackage PROVE Resolves(Offer(p))
    <3>1. Known(p, copy[p])
      BY <2>0, <2>1 DEF Copied
    <3>2. 1 \in 1 .. Len(settings["profile"])
      <4>1. Len(settings["profile"]) \in Nat /\ Len(settings["profile"]) >= 1
        BY <2>0, SettingIs DEF Stores, Setting
      <4> QED BY <4>1
    <3> QED BY <2>0, <3>1, <3>2 DEF Resolves, Offer, Known, Sold
  <2> QED BY <2>0, <2>1 DEF StaleSalesResolve, Sold
<1> QED BY <1>1, CatalogueInvariant, PTL

(***************************************************************************)
(* Each stored revision of a setting was saved by somebody who had loaded  *)
(* the one before it: the tenant's row is locked from the comparison with  *)
(* the base revision to the commit.                                        *)
(***************************************************************************)
THEOREM SettingsAreSeen == Spec => []SettingsFollowWhatWasSeen
<1>1. CatalogueInv => SettingsFollowWhatWasSeen
  BY DEF CatalogueInv
<1> QED BY <1>1, CatalogueInvariant, PTL

(***************************************************************************)
(* The device's copy of a package never goes back, and only a listing      *)
(* offers again what the copy hides: upsertPackageWithDatabase keeps the   *)
(* newer row, and a page's rows are read after its changes.                *)
(***************************************************************************)
THEOREM CopiesMoveOn == Spec => CopyMovesOn
<1> DEFINE Step == \A p \in Package : copy[p] # NoPackage =>
                       /\ copy'[p].revision >= copy[p].revision
                       /\ copy'[p].offered /\ ~copy[p].offered =>
                             [package |-> p, row |-> copy'[p]] \in listing
<1>1. CatalogueInv /\ [Next]_vars => Step
  BY InvNext DEF MovesOn
<1>2. Spec => [][Step]_vars
  BY <1>1, CatalogueInvariant, PTL DEF Spec
<1> QED BY <1>2 DEF CopyMovesOn
=============================================================================
