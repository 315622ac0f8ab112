------------------------------ MODULE LockOrder ------------------------------
(***************************************************************************)
(* The locks of the requests that share accounts, tenants, generations and *)
(* sessions, in the order in which each request takes them.  A request is  *)
(* its list of locks: every lock is taken by a statement of its own, waits *)
(* for the transactions that hold a conflicting one, and is held to the    *)
(* end of the transaction.  What the statements read and write is the      *)
(* subject of SandboxLifecycle, AccountSessions and TransactionStore.      *)
(*                                                                         *)
(* A lock that the transaction already holds at least as strongly is not   *)
(* listed again.  An UPDATE of several sessions locks them one after the   *)
(* other, in ascending order, whether or not one was revoked before.       *)
(* Membership rows are locked with the account they belong to.             *)
(***************************************************************************)
EXTENDS PgLocks, FiniteSets, Integers, Sequences

CONSTANTS
    Worker,     \* concurrent transactions
    User,       \* accounts, numbered
    Tenant,     \* tenants, numbered
    Session,    \* sessions, numbered
    Holder,     \* whose session it is
    Home,       \* its tenant, 0 for an account session
    InSandbox,  \* the sessions in a Sandbox generation
    Enrolled,   \* the sessions bound to the terminal of their tenant
    Request,    \* the requests that may come in
    None        \* no request

ASSUME LockOrderAssumption ==
    /\ User \subseteq Nat /\ Tenant \subseteq Nat \ {0} /\ Session \subseteq Nat
    /\ IsFiniteSet(Worker) /\ IsFiniteSet(Tenant) /\ IsFiniteSet(Session)
    /\ Holder \in [Session -> User]
    /\ Home \in [Session -> Tenant \cup {0}]
    /\ InSandbox \subseteq Session /\ Enrolled \subseteq Session
    /\ None \notin Request

(* The requests of sessions inside a tenant, of any session, and of none. *)
OfTenantSession == {"mutation", "package", "revalidate", "switch_mode", "recover", "login",
                    "configure", "reset", "enroll", "revoke_terminal", "tenant_setting"}
OfSession == {"upgrade", "switch_context", "logout", "tenant_status", "tenant_name",
              "create_tenant", "create_account", "manage_account", "own_profile",
              "own_password"}
OfNoSession == {"activate", "purge", "operator", "first_superadmin"}

(* What a request names exists; a tenant session has a tenant. *)
ASSUME RequestAssumption ==
    \A q \in Request :
        /\ q.kind \in OfTenantSession \cup OfSession \cup OfNoSession
        /\ q.kind \notin OfNoSession => q.session \in Session
        /\ q.kind \in OfTenantSession => Home[q.session] # 0
        /\ q.kind \in {"manage_account", "operator"} => q.whom \in User
        /\ q.kind \in {"activate", "switch_context", "tenant_status", "tenant_name"} =>
              q.tenant \in Tenant

VARIABLES
    doing,  \* the request of each worker
    taken   \* how many locks of its list it has

vars == <<doing, taken>>

-----------------------------------------------------------------------------
(* The members of a set of numbers in ascending order. *)
Ascending(S) ==
    [i \in 1 .. Cardinality(S) |->
        CHOOSE s \in S : Cardinality({r \in S : r <= s}) = i]

Lock(resource, exclusive) == [on |-> resource, exclusive |-> exclusive]

(* One lock for each number of S: tenants, generations, users, sessions. *)
Each(name, S, exclusive) ==
    [i \in 1 .. Cardinality(S) |-> Lock(<<name, Ascending(S)[i]>>, exclusive)]

Account(q) == <<"user", Holder[q.session]>>
Space(q)   == <<"space", Home[q.session],
                IF q.session \in InSandbox THEN "sandbox" ELSE "production">>

Terminal(s) ==
    IF s \in Enrolled THEN <<Share(<<"terminal", Home[s]>>)>> ELSE <<>>

(***************************************************************************)
(* lockMutationIdentity.  lifecycle takes tenant and generation            *)
(* exclusively, consume the session.                                       *)
(***************************************************************************)
(* Mutant of Identity: the session is locked before the generation. *)
IdentitySessionFirst(q, lifecycle, consume) ==
    <<Share(Account(q)),
      Lock(<<"session", q.session>>, consume),
      Lock(<<"tenant", Home[q.session]>>, lifecycle),
      Lock(<<"generation", Home[q.session]>>, lifecycle),
      Share(Space(q))>> \o Terminal(q.session)

Identity(q, lifecycle, consume) ==
    <<Share(Account(q)),
      Lock(<<"tenant", Home[q.session]>>, lifecycle),
      Lock(<<"generation", Home[q.session]>>, lifecycle),
      Share(Space(q)),
      Lock(<<"session", q.session>>, consume)>> \o Terminal(q.session)

(* A pushed operation, or a direct business write, on one transaction. *)
Mutation(q) ==
    Identity(q, FALSE, FALSE) \o <<Update(<<"operation">>), Update(<<"transaction">>)>>

(* RevalidateOrigins: the caller as in a mutation. *)
Revalidate(q) == Identity(q, FALSE, FALSE)

(* CreatePackage, UpdatePackage, DeletePackage: the new row, or packageForUpdate. *)
PackageWrite(q) == Identity(q, FALSE, FALSE) \o <<Update(<<"package">>)>>

(* SwitchSession goes on to the space it switches to. *)
SwitchMode(q) ==
    Identity(q, FALSE, TRUE) \o <<Share(<<"space", Home[q.session], "sandbox">>)>>

(* RecoverRetiredSandboxSession *)
Recover(q) ==
    <<Share(Account(q)), Share(<<"tenant", Home[q.session]>>),
      Share(<<"generation", Home[q.session]>>),
      Share(<<"space", Home[q.session], "production">>),
      Update(<<"session", q.session>>)>> \o Terminal(q.session)

(* UpgradeSession locks a tenant session as a mutation does, then updates it. *)
UpgradeSession(q) ==
    (IF Home[q.session] = 0 THEN <<Share(Account(q))>>
     ELSE Identity(q, FALSE, FALSE)) \o <<Update(<<"session", q.session>>)>>

(* SwitchContextSession to the tenant q.tenant, from any session. *)
SwitchContext(q) ==
    <<Share(Account(q)), Share(<<"tenant", q.tenant>>),
      Share(<<"terminal", q.tenant>>), Update(<<"session", q.session>>)>>

(* CreateVerifiedLoginSession into Production; the new session is its own. *)
Login(q) ==
    <<Share(Account(q)), Share(<<"tenant", Home[q.session]>>)>> \o Terminal(q.session)

Logout(q) == <<Update(<<"session", q.session>>)>>

(* ConfigureSandbox *)
Configure(q) == Identity(q, TRUE, FALSE)

(* ResetSandbox retires the generation and revokes its sessions. *)
Reset(q) ==
    Identity(q, TRUE, FALSE)
        \o <<Update(<<"space", Home[q.session], "sandbox">>)>>
        \o Each("session", {s \in InSandbox : Home[s] = Home[q.session]}, TRUE)

(* EnrollTerminal binds the session that asks. *)
Enroll(q) ==
    Identity(q, TRUE, FALSE) \o <<Update(<<"terminal", Home[q.session]>>),
                                  Update(<<"session", q.session>>)>>

(* RevokeTerminal revokes the sessions bound to the terminal. *)
RevokeTerminal(q) ==
    Identity(q, TRUE, FALSE)
        \o <<Update(<<"terminal", Home[q.session]>>)>>
        \o Each("session", {s \in Enrolled : Home[s] = Home[q.session]}, TRUE)

(* EnsureSandbox of the tenant q.tenant. *)
Activate(q) == <<Share(<<"tenant", q.tenant>>), Update(<<"generation", q.tenant>>)>>

(* CleanupExpiredSandboxes, tenant after tenant.  The sessions it deletes   *)
(* are those of generations that a reset retired.                          *)
Purge(q) ==
    LET of == [i \in 1 .. Cardinality(Tenant) |->
                  LET t == Ascending(Tenant)[i]
                  IN <<Share(<<"tenant", t>>), Update(<<"generation", t>>),
                       Update(<<"space", t, "retired">>)>>]
    IN <<Update(<<"cleanup">>)>>
          \o [n \in 1 .. 3 * Len(of) |-> of[(n + 2) \div 3][1 + ((n + 2) % 3)]]

(* lockTenantOwner, then UpdateTenantProfile or UpdateTenantQRIS. *)
TenantSetting(q) ==
    <<Share(Account(q)), Update(<<"tenant", Home[q.session]>>),
      Share(<<"generation", Home[q.session]>>)>>

(* SetTenantStatus of q.tenant, which revokes its sessions. *)
TenantStatus(q) ==
    <<Share(Account(q)), Update(<<"tenant", q.tenant>>)>>
        \o Each("session", {s \in Session : Home[s] = q.tenant}, TRUE)
        \o <<Share(<<"generation", q.tenant>>)>>

(* UpdateManagedTenant: the name of q.tenant, from any session. *)
TenantName(q) ==
    <<Share(Account(q)), Update(<<"tenant", q.tenant>>), Share(<<"generation", q.tenant>>)>>

(* CreateTenant: lockManagedAccounts of the caller; the tenant is new. *)
CreateTenant(q) == <<Update(<<"organization">>), Update(Account(q))>>

(* addSharedChange: the generations of all tenants. *)
FanOut == Each("generation", Tenant, FALSE)

SessionsOf(u) == {s \in Session : Holder[s] = u}

(* UpdateManagedUser and ResetManagedPassword of the account q.whom. *)
ManageAccount(q) ==
    <<Update(<<"organization">>)>>
        \o Each("user", {Holder[q.session], q.whom}, TRUE)
        \o Each("session", SessionsOf(q.whom), TRUE) \o FanOut

(* CreateManagedUser: the account is new. *)
CreateAccount(q) == <<Update(<<"organization">>), Update(Account(q))>> \o FanOut

(* lockOwnAccount *)
OwnAccount(q) ==
    <<Share(<<"organization">>), Update(Account(q))>>
        \o (IF Home[q.session] = 0 THEN <<>> ELSE <<Share(<<"tenant", Home[q.session]>>)>>)
        \o <<Update(<<"session", q.session>>)>>

(* UpdateOwnProfile *)
OwnProfile(q) == OwnAccount(q) \o FanOut

(* ChangeOwnPassword revokes the other sessions of the account. *)
OwnPassword(q) ==
    OwnAccount(q)
        \o Each("session", SessionsOf(Holder[q.session]) \ {q.session}, TRUE) \o FanOut

(* The account-admin command on the account q.whom. *)
OperatorCommand(q) ==
    <<Update(<<"organization">>), Update(<<"user", q.whom>>)>>
        \o Each("tenant", Tenant, FALSE)
        \o Each("session", SessionsOf(q.whom), TRUE) \o FanOut

(* bootstrap-superadmin: the account is new. *)
FirstSuperadmin(q) ==
    <<Update(<<"organization">>)>> \o Each("tenant", Tenant, FALSE) \o FanOut

Script(q) ==
    CASE q.kind = "mutation"        -> Mutation(q)
      [] q.kind = "package"         -> PackageWrite(q)
      [] q.kind = "revalidate"      -> Revalidate(q)
      [] q.kind = "switch_mode"     -> SwitchMode(q)
      [] q.kind = "recover"         -> Recover(q)
      [] q.kind = "upgrade"         -> UpgradeSession(q)
      [] q.kind = "switch_context"  -> SwitchContext(q)
      [] q.kind = "login"           -> Login(q)
      [] q.kind = "logout"          -> Logout(q)
      [] q.kind = "configure"       -> Configure(q)
      [] q.kind = "reset"           -> Reset(q)
      [] q.kind = "enroll"          -> Enroll(q)
      [] q.kind = "revoke_terminal" -> RevokeTerminal(q)
      [] q.kind = "activate"        -> Activate(q)
      [] q.kind = "purge"           -> Purge(q)
      [] q.kind = "tenant_setting"  -> TenantSetting(q)
      [] q.kind = "tenant_status"   -> TenantStatus(q)
      [] q.kind = "tenant_name"     -> TenantName(q)
      [] q.kind = "create_tenant"   -> CreateTenant(q)
      [] q.kind = "create_account"  -> CreateAccount(q)
      [] q.kind = "manage_account"  -> ManageAccount(q)
      [] q.kind = "own_profile"     -> OwnProfile(q)
      [] q.kind = "own_password"    -> OwnPassword(q)
      [] q.kind = "operator"        -> OperatorCommand(q)
      [] q.kind = "first_superadmin" -> FirstSuperadmin(q)

-----------------------------------------------------------------------------
Init ==
    /\ doing = [w \in Worker |-> None]
    /\ taken = [w \in Worker |-> 0]

Busy(w) == doing[w] # None

Waiting(w) == Busy(w) /\ taken[w] < Len(Script(doing[w]))

Awaited(w) == Script(doing[w])[taken[w] + 1]

Held(w) ==
    LET locks == Script(doing[w])
    IN  IF Busy(w) THEN {locks[i] : i \in 1 .. taken[w]} ELSE {}

(* w waits for the end of the transaction of v. *)
WaitsFor(w, v) ==
    /\ w # v /\ Busy(v) /\ Waiting(w)
    /\ LET wanted == Awaited(w)
       IN  \E held \in Held(v) : Conflict(wanted, held)

CircularWait(S) ==
    S # {} /\ \A w \in S : \E v \in S : WaitsFor(w, v)

End(w) ==
    /\ doing' = [doing EXCEPT ![w] = None]
    /\ taken' = [taken EXCEPT ![w] = 0]

Begin(w, q) ==
    /\ ~Busy(w)
    /\ doing' = [doing EXCEPT ![w] = q]
    /\ UNCHANGED taken

Take(w) ==
    /\ Waiting(w)
    /\ \A v \in Worker : ~WaitsFor(w, v)
    /\ taken' = [taken EXCEPT ![w] = @ + 1]
    /\ UNCHANGED doing

(* The work under all the locks, and the commit. *)
Commit(w) == Busy(w) /\ ~Waiting(w) /\ End(w)

(* PostgreSQL ends a transaction of a circular wait after deadlock_timeout; *)
(* dbError makes CONFLICT of it.                                           *)
Victim(w) == (\E S \in SUBSET Worker : w \in S /\ CircularWait(S)) /\ End(w)

Next ==
    \E w \in Worker :
        \/ \E q \in Request : Begin(w, q)
        \/ Take(w) \/ Commit(w) \/ Victim(w)

Spec == Init /\ [][Next]_vars

-----------------------------------------------------------------------------
(* Properties. *)

(* A request in flight has a prefix of its locks, an idle worker none. *)
TypeOK ==
    /\ doing \in [Worker -> Request \cup {None}]
    /\ taken \in [Worker -> Nat]
    /\ \A w \in Worker :
          taken[w] <= IF Busy(w) THEN Len(Script(doing[w])) ELSE 0

(* The places of the resources in the lock order of the code's comments:   *)
(* organization, account, tenant, generation, space, session, terminal,    *)
(* operation, transaction (store.go:391, main.go:136).                     *)
Rank(resource) ==
    CASE resource[1] = "cleanup"      -> 0
      [] resource[1] = "organization" -> 1
      [] resource[1] = "user"         -> 2
      [] resource[1] = "tenant"       -> 3
      [] resource[1] = "generation"   -> 4
      [] resource[1] = "space"        -> 5
      [] resource[1] = "session"      -> 6
      [] resource[1] = "terminal"     -> 7
      [] resource[1] = "operation"    -> 8
      [] OTHER                        -> 9

(* A request that never goes back in the order, nor sideways. *)
InOrder(q) ==
    /\ Len(Script(q)) \in Nat
    /\ \A i, j \in 1 .. Len(Script(q)) :
          i < j => Rank(Script(q)[i].on) < Rank(Script(q)[j].on)

(***************************************************************************)
(* Why the order matters: however many transactions there are, those whose *)
(* locks are all asked for in order never wait for each other in a circle, *)
(* whatever else is running.                                               *)
(***************************************************************************)
OrderedNeverDeadlock ==
    \A S \in SUBSET Worker :
        (\A w \in S : Busy(w) => InOrder(doing[w])) => ~CircularWait(S)

Does(w, kinds) == doing[w].kind \in kinds

(***************************************************************************)
(* The lock order of the API (store.go:391, 462; tenancy_control.go:79;    *)
(* main.go:136) leaves three ways into a deadlock and no fourth: two       *)
(* upgrades of one session; an account change made through the API, which  *)
(* locks sessions before generations, against a reset or the revocation of *)
(* a terminal; and such a change against the suspension of a tenant whose  *)
(* row the purge waits for, while it keeps the generation locks of the     *)
(* tenants before it.  Without one of those nobody waits in a circle,      *)
(* however writes, mode switches, recoveries, logins, settings and the     *)
(* operator's commands interleave.                                         *)
(***************************************************************************)
AccountChange(w) == Does(w, {"manage_account", "own_password"})

KnownCircularWaits ==
    \A S \in SUBSET Worker : CircularWait(S) =>
        \/ \E v, w \in S : /\ v # w /\ doing[v].session = doing[w].session
                           /\ Does(v, {"upgrade"}) /\ Does(w, {"upgrade"})
        \/ \E v, w \in S : AccountChange(v) /\ Does(w, {"reset", "revoke_terminal"})
        \/ \E u, v, w \in S : /\ AccountChange(u)
                              /\ Does(v, {"tenant_status"}) /\ Does(w, {"purge"})

(***************************************************************************)
(* store.go:462 "Taking the exclusive row lock up front makes concurrent   *)
(* replacements queue; a share lock upgraded later deadlocks between       *)
(* them", and store.go:391 "Reset revokes sessions while holding its       *)
(* exclusive generation lock; the inverse order deadlocks": no requests    *)
(* wait for each other.                                                    *)
(***************************************************************************)
NoCircularWait == \A S \in SUBSET Worker : ~CircularWait(S)
=============================================================================
