--------------------------- MODULE AccountSessions ---------------------------
(***************************************************************************)
(* The accounts of the organization, the sessions they sign in with, and   *)
(* the administration of both: login and the re-encoding of its hash,      *)
(* session upgrade, context switch, logout, password change, the accounts  *)
(* that superadmins manage, the operator's command line, the first         *)
(* superadmin, the status of a tenant, and its terminal.                   *)
(*                                                                         *)
(* A request is cut where another one may interleave: what the use case    *)
(* reads before its transaction (Ask..., and the Argon2 verification in    *)
(* AskLogin, Again and AskOwnPassword), the statements that take its locks *)
(* and validate under them (Lock...), and the commit.  Locks of one step   *)
(* are taken together: their order is the subject of LockOrder.            *)
(*                                                                         *)
(* One tenant and its Production data space; one installation that may be  *)
(* enrolled as its terminal.  A password is the number of times that the   *)
(* account's password was set; encoding is the cost parameters of its      *)
(* hash.  Names, deletion marks, audit rows, protocol versions and the     *)
(* published changes are left out, and so is the Sandbox                   *)
(* (SandboxLifecycle).                                                     *)
(***************************************************************************)
EXTENDS PgLocks, FiniteSets, Naturals

CONSTANTS
    Users,          \* how many usernames there are
    Staff,          \* the roles the accounts start with, or "none"
    Traffic,        \* the kinds of request that are sent together
    Worker,         \* concurrent requests
    MaxSession,     \* bound on the sessions ever issued
    MaxSecret,      \* bound on the passwords an account ever has
    NoUser,         \* an account that was not created yet
    NoSession       \* a session that was not issued yet

ASSUME AccountAssumption ==
    /\ Users \in Nat /\ MaxSecret \in Nat
    /\ Staff \subseteq [1 .. Users -> {"superadmin", "admin", "none"}]
    /\ MaxSession \in Nat /\ Users <= MaxSession

VARIABLES
    users,      \* users, by username
    tenant,     \* status of the tenant
    terminal,   \* the terminal of the installation
    sessions,   \* sessions, by the order in which they were issued
    issued,     \* how many sessions were ever issued
    parent,     \* the session that a session replaced, 0 for a login
    sent,       \* the kinds of request sent in this behaviour
    tr          \* the request of each worker

accountVars == <<users, tenant, terminal, sessions, issued, parent>>
vars == <<accountVars, sent, tr>>

User == 1 .. Users
Session == 1 .. MaxSession
Role == {"superadmin", "admin"}

(* by is a history variable: the session that set the password, or 0.      *)
UserRow == [role : Role, standing : {"active", "inactive"},
            temporary : BOOLEAN, secret : Nat,
            encoding : {"outdated", "current"}, by : {0} \cup Session]

(* An account with the password that somebody else has chosen for it. *)
Account(role) == [role |-> role, standing |-> "active", temporary |-> TRUE,
                  secret |-> 1, encoding |-> "current", by |-> 0]

Revocation == {"session_upgraded", "context_switched", "logout",
               "password_changed", "account_access_changed",
               "password_recovered", "tenant_suspended", "terminal_revoked"}

(* The revocations that leave a session good for a switch of context. *)
Recoverable == {"tenant_suspended", "terminal_revoked"}

(***************************************************************************)
(* One sessions row: in the tenant's context or the account's, bound to    *)
(* the terminal or not.  secret and recovered are history variables: the   *)
(* password its holder has last shown or set, and whether a session it     *)
(* descends from was revoked before it was replaced.                       *)
(***************************************************************************)
SessionRow == [user : User, context : {"account", "tenant"}, bound : BOOLEAN,
               state : {"live"} \cup Revocation, secret : Nat,
               recovered : BOOLEAN]

ASSUME AbsentAssumption == NoUser \notin UserRow /\ NoSession \notin SessionRow

Present(u)    == users[u] # NoUser
Active(u)     == Present(u) /\ users[u].standing = "active"
Ready(u)      == Active(u) /\ ~users[u].temporary
Superadmins   == {u \in User : Active(u) /\ users[u].role = "superadmin"}

Is(s, states) == sessions[s] # NoSession /\ sessions[s].state \in states
Live(s)       == Is(s, {"live"})
LiveOf(u)     == {s \in Session : Live(s) /\ sessions[s].user = u}
LiveInTenant  == {s \in Session : Live(s) /\ sessions[s].context = "tenant"}
LiveBound     == {s \in Session : Live(s) /\ sessions[s].bound}

(***************************************************************************)
(* No request.  A request in flight keeps the principal it has read        *)
(* (session, user, context, bound), what it asks for (goal, or the role    *)
(* and standing of the account whom), the password and encoding it has     *)
(* verified, and, staged, its locks and the sessions it revokes.           *)
(***************************************************************************)
Idle == [pc |-> "idle", kind |-> "none", held |-> {}, session |-> 0, user |-> 0,
         context |-> "account", bound |-> FALSE, goal |-> "none", whom |-> 0,
         role |-> "keep", standing |-> "keep", secret |-> 0,
         encoding |-> "current", retried |-> FALSE, revoked |-> {}]

At(w, pc, kind) == tr[w].pc = pc /\ tr[w].kind = kind

Granted(w, wanted) ==
    Grantable(wanted, UNION {tr[v].held : v \in Worker \ {w}})

Goto(w, request) == tr' = [tr EXCEPT ![w] = request] /\ UNCHANGED accountVars

(* The request ends with an error, and its transaction is rolled back. *)
Refuse(w) == Goto(w, Idle)

(* Under its locks a request is admitted and stages what it will write. *)
Enter(w, kind, locks, admitted, staged) ==
    /\ At(w, "asked", kind)
    /\ Granted(w, locks)
    /\ IF admitted THEN Goto(w, [staged EXCEPT !.pc = "staged", !.held = locks])
       ELSE Refuse(w)

Done(w) == tr' = [tr EXCEPT ![w] = Idle]

(* What is left of a row that is revoked: nothing reads the rest again, but *)
(* for the history of one that may be recovered.                           *)
Spent(row, reason) ==
    [user |-> row.user, context |-> "account", bound |-> FALSE, state |-> reason,
     secret |-> IF reason \in Recoverable THEN row.secret ELSE 0,
     recovered |-> reason \in Recoverable /\ row.recovered]

(* UPDATE sessions SET revoked_at = ..., of those WHERE revoked_at IS NULL. *)
Revoked(gone, reason) ==
    [s \in Session |-> IF s \in gone /\ Live(s) THEN Spent(sessions[s], reason)
                       ELSE sessions[s]]

UserLock(u) == <<"user", u>>
SessionLocks(set) == UpdateAll({<<"session", s>> : s \in set})
TerminalShare(bound) == IF bound THEN {Share(<<"terminal">>)} ELSE {}

(***************************************************************************)
(* The program starts with some of the accounts, each with one account     *)
(* session, in an active tenant whose terminal is not enrolled.            *)
(***************************************************************************)
Init ==
    /\ \E staff \in Staff :
          users = [u \in User |->
              IF staff[u] = "none" THEN NoUser
              ELSE [Account(staff[u]) EXCEPT !.temporary = FALSE,
                                             !.encoding = "outdated"]]
    /\ sent \in Traffic
    /\ tenant = "active"
    /\ terminal = "none"
    /\ issued = Users
    /\ sessions = [s \in Session |->
          IF s \in User /\ users[s] # NoUser
          THEN [user |-> s, context |-> "account", bound |-> FALSE,
                state |-> "live", secret |-> 1, recovered |-> FALSE]
          ELSE NoSession]
    /\ parent = [s \in Session |-> 0]
    /\ tr = [w \in Worker |-> Idle]

(***************************************************************************)
(* The principal that a bearer token stands for is read once, before any   *)
(* transaction.  Revoked sessions have none, but for recovery.             *)
(***************************************************************************)
Principal(kind, s) ==
    [Idle EXCEPT !.pc = "asked", !.kind = kind, !.session = s,
                 !.user = sessions[s].user, !.context = sessions[s].context,
                 !.bound = sessions[s].bound]

Authenticated(s) ==
    /\ Live(s) /\ Active(sessions[s].user)
    /\ sessions[s].context = "tenant" =>
          tenant = "active" /\ (sessions[s].bound => terminal = "active")

(* The sessions that the gate lets through to switch-context and logout. *)
RecoverableAccess(s) ==
    Is(s, {"live", "account_access_changed", "password_recovered"} \cup Recoverable)

-----------------------------------------------------------------------------
(* --- Login -------------------------------------------------------------- *)
Issuing == {w \in Worker : tr[w].kind \in {"login", "upgrade", "switch"}}

MayIssue == issued + Cardinality(Issuing) < MaxSession

(***************************************************************************)
(* UserForLogin and Verify, before any transaction.  A client of protocol  *)
(* 1 signs in to Production at once, with the terminal that its            *)
(* installation resolves to.                                               *)
(***************************************************************************)
AskLogin(w, u, context) ==
    /\ tr[w] = Idle /\ MayIssue
    /\ Active(u)
    /\ \E bound \in {FALSE, context = "tenant" /\ terminal = "active"} :
          Goto(w, [Idle EXCEPT !.pc = "asked", !.kind = "login", !.user = u,
                               !.context = context, !.bound = bound,
                               !.secret = users[u].secret,
                               !.encoding = users[u].encoding])

LoginLocks(q) ==
    {Share(UserLock(q.user))} \cup
    IF q.context = "account" THEN {}
    ELSE {Share(<<"tenant">>)} \cup TerminalShare(q.bound)

(* Mutant of SameHash: the verified hash is not compared again. *)
AnyHash(q) == TRUE

(* The stored hash is the one that was verified, byte for byte. *)
SameHash(q) ==
    users[q.user].secret = q.secret /\ users[q.user].encoding = q.encoding

EntersTenant(q) ==
    q.context = "tenant" => tenant = "active" /\ (q.bound => terminal = "active")

(* CreateVerifiedLoginSession.  A hash that has changed is verified again, *)
(* once, against what is stored then.                                      *)
LockLogin(w) ==
    LET q == tr[w] IN
    /\ At(w, "asked", "login")
    /\ Granted(w, LoginLocks(q))
    /\ IF Active(q.user) /\ SameHash(q)
       THEN IF EntersTenant(q)
            THEN Goto(w, [q EXCEPT !.pc = "staged", !.held = LoginLocks(q)])
            ELSE Refuse(w)
       ELSE Goto(w, IF q.retried THEN Idle ELSE [q EXCEPT !.pc = "again"])

Again(w) ==
    LET q == tr[w] IN
    /\ At(w, "again", "login")
    /\ IF users[q.user].secret = q.secret /\ users[q.user].encoding # q.encoding
       THEN Goto(w, [q EXCEPT !.pc = "asked", !.retried = TRUE,
                              !.encoding = users[q.user].encoding])
       ELSE Refuse(w)

CommitLogin(w) ==
    LET q == tr[w] IN
    /\ At(w, "staged", "login")
    /\ issued' = issued + 1
    /\ sessions' = [sessions EXCEPT ![issued + 1] =
          [user |-> q.user, context |-> q.context, bound |-> q.bound,
           state |-> "live", secret |-> q.secret, recovered |-> FALSE]]
    /\ tr' = [tr EXCEPT ![w] = IF q.encoding = "outdated"
                               THEN [q EXCEPT !.pc = "rehash", !.kind = "rehash",
                                              !.held = {}]
                               ELSE Idle]
    /\ UNCHANGED <<users, tenant, terminal, parent>>

(* Mutant of Rehashed: UPDATE users SET password_hash WHERE id alone. *)
RehashedBlindly(q) ==
    [users EXCEPT ![q.user].encoding = "current", ![q.user].secret = q.secret]

(***************************************************************************)
(* UpgradePasswordHash, after the login has succeeded: a statement of its  *)
(* own that swaps only the exact hash that was verified.                   *)
(***************************************************************************)
Rehashed(q) ==
    IF Active(q.user) /\ SameHash(q)
    THEN [users EXCEPT ![q.user].encoding = "current"] ELSE users

Rehash(w) ==
    LET q == tr[w] IN
    /\ At(w, "rehash", "rehash")
    /\ Granted(w, {Update(UserLock(q.user))})
    /\ users' = Rehashed(q)
    /\ Done(w)
    /\ UNCHANGED <<tenant, terminal, sessions, issued, parent>>

(* --- Exchanging a session for another ----------------------------------- *)
(***************************************************************************)
(* UpgradeSession: in the tenant's context under the locks of a business   *)
(* write, else under the account's.  Scope and terminal are copied from    *)
(* the locked row.                                                         *)
(***************************************************************************)
AskUpgrade(w, s) ==
    /\ tr[w] = Idle /\ MayIssue
    /\ Authenticated(s)
    /\ Goto(w, [Principal("upgrade", s) EXCEPT !.goal = sessions[s].context])

(* lockMutationIdentity of the principal, without the generation. *)
IdentityLocks(q) ==
    ShareAll({UserLock(q.user), <<"tenant">>, <<"session", q.session>>})
        \cup TerminalShare(q.bound)

IdentityHolds(q) ==
    /\ Ready(q.user) /\ tenant = "active"
    /\ Live(q.session) /\ sessions[q.session].bound = q.bound
    /\ q.bound => terminal = "active"

LockUpgrade(w) ==
    LET q == tr[w] IN
    Enter(w, "upgrade",
          {Share(UserLock(q.user))} \cup SessionLocks({q.session}) \cup
              (IF q.context = "tenant" THEN IdentityLocks(q) ELSE {}),
          IF q.context = "tenant" THEN IdentityHolds(q)
          ELSE Active(q.user) /\ Live(q.session),
          q)

(* POST /auth/switch-context of a live session or one to recover. *)
AskSwitchContext(w, s, context) ==
    /\ tr[w] = Idle /\ MayIssue
    /\ RecoverableAccess(s) /\ Ready(sessions[s].user)
    /\ Goto(w, [Principal("switch", s) EXCEPT !.goal = context])

(* The terminal of the installation that is sent along, if it is active. *)
BoundTo(q) == q.goal = "tenant" /\ terminal = "active"

(* Mutant of SwitchLocks: the tenant is read, not locked. *)
SwitchTenantUnlocked(q, bound) ==
    {Share(UserLock(q.user))} \cup SessionLocks({q.session})

SwitchLocks(q, bound) ==
    {Share(UserLock(q.user))} \cup SessionLocks({q.session}) \cup
    IF q.goal = "tenant" THEN {Share(<<"tenant">>)} \cup TerminalShare(bound)
    ELSE {}

StillReplaceable(q) == Is(q.session, {"live"} \cup Recoverable)

(* SwitchContextSession, of a client that sends its installation or not. *)
LockSwitchContext(w) ==
    LET q == tr[w] IN
    \E bound \in {FALSE, BoundTo(q)} :
        Enter(w, "switch", SwitchLocks(q, bound),
              /\ Ready(q.user)
              /\ StillReplaceable(q)
              /\ q.goal = "tenant" => tenant = "active",
              [q EXCEPT !.bound = bound])

CommitReplacement(w) ==
    LET q == tr[w]
        old == sessions[q.session]
        reason == IF q.kind = "switch" THEN "context_switched"
                  ELSE "session_upgraded"
    IN /\ q.pc = "staged" /\ q.kind \in {"upgrade", "switch"}
       /\ issued' = issued + 1
       /\ sessions' = [sessions EXCEPT
             ![q.session] = Spent(old, reason),
             ![issued + 1] = [old EXCEPT
                 !.context = q.goal, !.bound = q.bound, !.state = "live",
                 !.recovered = old.recovered \/ old.state \in Recoverable]]
       /\ parent' = [parent EXCEPT ![issued + 1] = q.session]
       /\ Done(w)
       /\ UNCHANGED <<users, tenant, terminal>>

(***************************************************************************)
(* RevokeSession: one statement, without effect on a session that is       *)
(* revoked already.                                                        *)
(***************************************************************************)
AskLogout(w, s) ==
    /\ tr[w] = Idle
    /\ RecoverableAccess(s)
    /\ Goto(w, Principal("logout", s))

Logout(w) ==
    LET s == tr[w].session IN
    /\ At(w, "asked", "logout")
    /\ Granted(w, SessionLocks({s}))
    /\ sessions' = Revoked({s}, "logout")
    /\ Done(w)
    /\ UNCHANGED <<users, tenant, terminal, issued, parent>>

(* --- The account's own password ----------------------------------------- *)
AskOwnPassword(w, s) ==
    /\ tr[w] = Idle
    /\ Authenticated(s)
    /\ users[sessions[s].user].secret < MaxSecret
    /\ Goto(w, [Principal("own", s) EXCEPT
                   !.secret = users[sessions[s].user].secret])

(* lockOwnAccount; a temporary password may be changed. *)
OwnPasswordAllowed(q) ==
    /\ Active(q.user)
    /\ q.context = "tenant" =>
          tenant = "active" /\ (q.bound => terminal = "active")
    /\ Live(q.session)

LockOwnPassword(w) ==
    LET q == tr[w]
        others == LiveOf(q.user) \ {q.session}
    IN Enter(w, "own",
             {Share(<<"organization">>), Update(UserLock(q.user))}
                \cup SessionLocks(others \cup {q.session})
                \cup (IF q.context = "tenant" THEN {Share(<<"tenant">>)} ELSE {}),
             OwnPasswordAllowed(q) /\ users[q.user].secret < MaxSecret,
             [q EXCEPT !.revoked = others])

CommitOwnPassword(w) ==
    LET q == tr[w]
        secret == users[q.user].secret + 1
    IN /\ At(w, "staged", "own")
       /\ users' = [users EXCEPT
             ![q.user].secret = secret, ![q.user].encoding = "current",
             ![q.user].temporary = FALSE, ![q.user].by = q.session]
       /\ sessions' = [Revoked(q.revoked, "password_changed") EXCEPT
                          ![q.session].secret = secret]
       /\ Done(w)
       /\ UNCHANGED <<tenant, terminal, issued, parent>>

-----------------------------------------------------------------------------
(* --- Administration ----------------------------------------------------- *)
(* RequireManagement of the principal; lockControlAccount under its lock.  *)
Manages(u) == Ready(u) /\ users[u].role = "superadmin"

Authority(q) == Manages(q.user) /\ Live(q.session)

(***************************************************************************)
(* Create an account (role given), change its role or its standing, or     *)
(* reset its password.                                                     *)
(***************************************************************************)
AskManage(w, s) ==
    /\ tr[w] = Idle
    /\ Authenticated(s) /\ Manages(sessions[s].user)
    /\ \E u \in User :
          \/ ~Present(u) /\ \E r \in Role :
                Goto(w, [Principal("create", s) EXCEPT !.whom = u, !.role = r])
          \/ Present(u) /\ \E r \in Role :
                Goto(w, [Principal("update", s) EXCEPT !.whom = u, !.role = r])
          \/ Present(u) /\ \E st \in {"active", "inactive"} :
                Goto(w, [Principal("update", s) EXCEPT !.whom = u, !.standing = st])
          \/ Present(u) /\ users[u].secret < MaxSecret
                /\ Goto(w, [Principal("reset", s) EXCEPT !.whom = u])

(* lockManagedAccounts, and the sessions that will be revoked. *)
ManageLocks(q) ==
    UpdateAll({<<"organization">>, UserLock(q.user), UserLock(q.whom)})
        \cup SessionLocks(LiveOf(q.whom))

LockCreate(w) ==
    LET q == tr[w] IN
    Enter(w, "create", ManageLocks(q), Authority(q) /\ ~Present(q.whom), q)

CommitCreate(w) ==
    LET q == tr[w] IN
    /\ At(w, "staged", "create")
    /\ users' = [users EXCEPT ![q.whom] = Account(q.role)]
    /\ Done(w)
    /\ UNCHANGED <<tenant, terminal, sessions, issued, parent>>

(* A field that the request leaves out keeps its value. *)
Given(new, old) == IF new = "keep" THEN old ELSE new

UpdatedUser(q) ==
    [users[q.whom] EXCEPT !.role = Given(q.role, @),
                          !.standing = Given(q.standing, @)]

IsSuperadmin(row) == row.role = "superadmin" /\ row.standing = "active"

(* Another account is an active superadmin. *)
OtherSuperadmin(u) == Superadmins \ {u} # {}

(* The rules of UpdateManagedUser: nobody steps down, and one remains. *)
UpdateAllowed(q) ==
    ~IsSuperadmin(UpdatedUser(q)) =>
        /\ q.whom # q.user
        /\ IsSuperadmin(users[q.whom]) => OtherSuperadmin(q.whom)

LockUpdate(w) ==
    LET q == tr[w] IN
    Enter(w, "update", ManageLocks(q), Authority(q) /\ UpdateAllowed(q),
          [q EXCEPT !.revoked =
              IF UpdatedUser(q) = users[q.whom] THEN {} ELSE LiveOf(q.whom)])

CommitUpdate(w) ==
    LET q == tr[w] IN
    /\ At(w, "staged", "update")
    /\ users' = [users EXCEPT ![q.whom] = UpdatedUser(q)]
    /\ sessions' = Revoked(q.revoked, "account_access_changed")
    /\ Done(w)
    /\ UNCHANGED <<tenant, terminal, issued, parent>>

LockReset(w) ==
    LET q == tr[w] IN
    Enter(w, "reset", ManageLocks(q),
          Authority(q) /\ users[q.whom].secret < MaxSecret,
          [q EXCEPT !.revoked = LiveOf(q.whom)])

(* A temporary password that somebody else has chosen. *)
Recovered(row) ==
    [row EXCEPT !.secret = @ + 1, !.encoding = "current",
                !.temporary = TRUE, !.by = 0]

CommitReset(w) ==
    LET q == tr[w] IN
    /\ q.pc = "staged"
    /\ q.kind = "reset" \/ (q.kind = "operator" /\ q.goal = "reset")
    /\ users' = [users EXCEPT ![q.whom] = Recovered(@)]
    /\ sessions' = Revoked(q.revoked, "password_recovered")
    /\ Done(w)
    /\ UNCHANGED <<tenant, terminal, issued, parent>>

(***************************************************************************)
(* The account-admin command: grant or revoke superadmin, or reset a       *)
(* password, of an active account.                                         *)
(***************************************************************************)
AskOperator(w, u, goal) ==
    /\ tr[w] = Idle
    /\ Present(u)
    /\ goal = "reset" => users[u].secret < MaxSecret
    /\ Goto(w, [Idle EXCEPT !.pc = "asked", !.kind = "operator",
                            !.whom = u, !.goal = goal])

(* Mutant of OperatorLocks: no organization lock before the accounts. *)
OperatorWithoutOrganization(q) ==
    {Update(UserLock(q.whom)), Share(<<"tenant">>)} \cup SessionLocks(LiveOf(q.whom))

OperatorLocks(q) ==
    {Update(<<"organization">>), Update(UserLock(q.whom)), Share(<<"tenant">>)}
        \cup SessionLocks(LiveOf(q.whom))

GivenRole(goal) ==
    CASE goal = "grant"  -> "superadmin"
      [] goal = "revoke" -> "admin"
      [] OTHER           -> "keep"

OperatorAllowed(q) ==
    /\ Active(q.whom)
    /\ q.goal = "revoke" /\ users[q.whom].role = "superadmin" =>
          OtherSuperadmin(q.whom)
    /\ q.goal = "reset" => users[q.whom].secret < MaxSecret

LockOperator(w) ==
    LET q == tr[w]
        role == GivenRole(q.goal)
    IN Enter(w, "operator", OperatorLocks(q), OperatorAllowed(q),
             [q EXCEPT !.role = role,
                       !.revoked = IF Given(role, users[q.whom].role)
                                         # users[q.whom].role \/ q.goal = "reset"
                                   THEN LiveOf(q.whom) ELSE {}])

CommitOperator(w) ==
    LET q == tr[w] IN
    /\ At(w, "staged", "operator") /\ q.goal # "reset"
    /\ users' = [users EXCEPT ![q.whom].role = Given(q.role, @)]
    /\ sessions' = Revoked(q.revoked, "account_access_changed")
    /\ Done(w)
    /\ UNCHANGED <<tenant, terminal, issued, parent>>

(***************************************************************************)
(* ApplyInitialSuperadmin: the first account, while there is no active     *)
(* superadmin.  A name that exists is never overwritten.                   *)
(***************************************************************************)
AskFirstSuperadmin(w, u) ==
    /\ tr[w] = Idle
    /\ Goto(w, [Idle EXCEPT !.pc = "asked", !.kind = "first", !.whom = u])

FirstLocks(q) ==
    {Update(<<"organization">>), Update(UserLock(q.whom)), Share(<<"tenant">>)}

LockFirstSuperadmin(w) ==
    LET q == tr[w] IN
    Enter(w, "first", FirstLocks(q), ~Present(q.whom) /\ Superadmins = {}, q)

CommitFirstSuperadmin(w) ==
    /\ At(w, "staged", "first")
    /\ users' = [users EXCEPT ![tr[w].whom] = Account("superadmin")]
    /\ Done(w)
    /\ UNCHANGED <<tenant, terminal, sessions, issued, parent>>

(* --- Tenant and terminal ------------------------------------------------ *)
AskTenantStatus(w, s, status) ==
    /\ tr[w] = Idle
    /\ Authenticated(s) /\ Manages(sessions[s].user)
    /\ Goto(w, [Principal("status", s) EXCEPT !.goal = status])

(* Mutant of StatusLocks: the account is read, not locked. *)
StatusWithoutAccount(q, ended) == {Update(<<"tenant">>)} \cup SessionLocks(ended)

StatusLocks(q, ended) ==
    {Share(UserLock(q.user)), Update(<<"tenant">>)} \cup SessionLocks(ended)

LockTenantStatus(w) ==
    LET q == tr[w]
        ended == IF q.goal = "suspended" THEN LiveInTenant ELSE {}
    IN Enter(w, "status", StatusLocks(q, ended), Authority(q),
             [q EXCEPT !.revoked = ended])

CommitTenantStatus(w) ==
    LET q == tr[w] IN
    /\ At(w, "staged", "status")
    /\ tenant' = q.goal
    /\ sessions' = Revoked(q.revoked, "tenant_suspended")
    /\ Done(w)
    /\ UNCHANGED <<users, terminal, issued, parent>>

(* Enrol the installation as the tenant's terminal, or revoke it. *)
AskTerminal(w, s, goal) ==
    /\ tr[w] = Idle
    /\ Authenticated(s) /\ Manages(sessions[s].user)
    /\ sessions[s].context = "tenant"
    /\ Goto(w, [Principal("terminal", s) EXCEPT !.goal = goal])

(* lockTenantLifecycleAccess, the terminal, and the sessions to change. *)
LifecycleLocks(q, changed) ==
    IdentityLocks(q) \cup UpdateAll({<<"tenant">>, <<"terminal">>})
        \cup SessionLocks(changed)

LifecycleHolds(q) == IdentityHolds(q) /\ users[q.user].role = "superadmin"

(* A revoked installation is never enrolled again. *)
LockTerminal(w) ==
    LET q == tr[w]
        changed == IF q.goal = "enrolled" THEN {q.session} ELSE LiveBound
    IN Enter(w, "terminal", LifecycleLocks(q, changed),
             /\ LifecycleHolds(q)
             /\ IF q.goal = "enrolled" THEN terminal # "revoked"
                ELSE terminal = "active",
             [q EXCEPT !.revoked = IF q.goal = "enrolled" THEN {} ELSE changed])

CommitEnroll(w) ==
    LET q == tr[w] IN
    /\ At(w, "staged", "terminal") /\ q.goal = "enrolled"
    /\ terminal' = "active"
    /\ sessions' = [sessions EXCEPT ![q.session].bound = TRUE]
    /\ Done(w)
    /\ UNCHANGED <<users, tenant, issued, parent>>

CommitRevokeTerminal(w) ==
    LET q == tr[w] IN
    /\ At(w, "staged", "terminal") /\ q.goal = "revoked"
    /\ terminal' = "revoked"
    /\ sessions' = Revoked(q.revoked, "terminal_revoked")
    /\ Done(w)
    /\ UNCHANGED <<users, tenant, issued, parent>>

(* The client, the process or the database gives up: all is rolled back. *)
Abort(w) == tr[w] # Idle /\ Refuse(w)

-----------------------------------------------------------------------------
Ask(w) ==
    \/ \E s \in Session :
          \/ AskUpgrade(w, s) \/ AskLogout(w, s) \/ AskOwnPassword(w, s)
          \/ AskManage(w, s)
          \/ \E c \in {"account", "tenant"} : AskSwitchContext(w, s, c)
          \/ \E st \in {"active", "suspended"} : AskTenantStatus(w, s, st)
          \/ \E g \in {"enrolled", "revoked"} : AskTerminal(w, s, g)
    \/ \E u \in User :
          \/ \E c \in {"account", "tenant"} : AskLogin(w, u, c)
          \/ \E g \in {"grant", "revoke", "reset"} : AskOperator(w, u, g)
          \/ AskFirstSuperadmin(w, u)

Proceed(w) ==
    \/ LockLogin(w) \/ Again(w) \/ CommitLogin(w) \/ Rehash(w)
    \/ LockUpgrade(w) \/ LockSwitchContext(w) \/ CommitReplacement(w)
    \/ Logout(w)
    \/ LockOwnPassword(w) \/ CommitOwnPassword(w)
    \/ LockCreate(w) \/ CommitCreate(w)
    \/ LockUpdate(w) \/ CommitUpdate(w)
    \/ LockReset(w) \/ CommitReset(w)
    \/ LockOperator(w) \/ CommitOperator(w)
    \/ LockFirstSuperadmin(w) \/ CommitFirstSuperadmin(w)
    \/ LockTenantStatus(w) \/ CommitTenantStatus(w)
    \/ LockTerminal(w) \/ CommitEnroll(w) \/ CommitRevokeTerminal(w)

Next ==
    /\ \E w \in Worker :
          (Ask(w) /\ tr'[w].kind \in sent) \/ Proceed(w) \/ Abort(w)
    /\ UNCHANGED sent

Spec == Init /\ [][Next]_vars

-----------------------------------------------------------------------------
(***************************************************************************)
(* Properties.                                                             *)
(***************************************************************************)
Resource == {<<"organization">>, <<"tenant">>, <<"terminal">>}
                \cup ({"user"} \X User) \cup ({"session"} \X Session)

Request == [pc : {"idle", "asked", "again", "rehash", "staged"},
            kind : {"none", "login", "rehash", "upgrade", "switch", "logout",
                    "own", "create", "update", "reset", "operator", "first",
                    "status", "terminal"},
            held : SUBSET [on : Resource, exclusive : BOOLEAN],
            session : {0} \cup Session, user : {0} \cup User,
            context : {"account", "tenant"}, bound : BOOLEAN,
            goal : {"none", "account", "tenant", "grant", "revoke", "reset",
                    "active", "suspended", "enrolled", "revoked"},
            whom : {0} \cup User, role : {"keep"} \cup Role,
            standing : {"keep", "active", "inactive"}, secret : Nat,
            encoding : {"outdated", "current"}, retried : BOOLEAN,
            revoked : SUBSET Session]

(* The type invariant of the tables and of the requests in flight. *)
TypeOK ==
    /\ users \in [User -> UserRow \cup {NoUser}]
    /\ tenant \in {"active", "suspended"}
    /\ terminal \in {"none", "active", "revoked"}
    /\ sessions \in [Session -> SessionRow \cup {NoSession}]
    /\ issued \in Nat
    /\ parent \in [Session -> {0} \cup Session]
    /\ sent \in Traffic
    /\ tr \in [Worker -> Request]

(***************************************************************************)
(* No session outlives what it was issued under: a live session belongs to *)
(* an active account, one in the tenant's context to an active tenant, and *)
(* one bound to the terminal to an enrolled one, although a suspension, a  *)
(* revocation or a deactivation ends only the sessions that its statement  *)
(* finds, while logins and exchanges are on their way.                     *)
(***************************************************************************)
GoodStanding ==
    \A s \in Session : Live(s) =>
        /\ Active(sessions[s].user)
        /\ sessions[s].context = "tenant" => tenant = "active"
        /\ sessions[s].bound => terminal = "active"

(***************************************************************************)
(* A session stands for the account's present password: a change, a reset  *)
(* by a superadmin or by the operator, also one that races a login, a      *)
(* re-encoding of the hash or an exchange, leaves no session behind that   *)
(* was obtained with an earlier one.  Apart are the sessions that descend  *)
(* from one that was already revoked, for the tenant or the terminal, when *)
(* the password was set: such a session may still switch its context.      *)
(***************************************************************************)
SessionsFollowPassword ==
    \A s \in Session : Live(s) /\ ~sessions[s].recovered =>
        sessions[s].secret = users[sessions[s].user].secret

(***************************************************************************)
(* An organization with an active superadmin keeps one: two superadmins    *)
(* and the operator, who demote or deactivate each other at the same time, *)
(* each having seen that another one remains, never leave none.            *)
(***************************************************************************)
AdminRemains == [][Superadmins # {} => Superadmins' # {}]_vars

(***************************************************************************)
(* What a request decided under its locks is still so when it commits: an  *)
(* administrative request is committed while its sender is an active       *)
(* superadmin with a password of their own, and the first superadmin is    *)
(* created while there is none.                                            *)
(***************************************************************************)
DecisionsHold ==
    [][\A w \in Worker :
         /\ tr[w].pc = "staged"
         /\ tr'[w] = Idle
         /\ <<users, tenant, terminal>>' # <<users, tenant, terminal>>
         => /\ tr[w].kind \in {"create", "update", "reset", "status", "terminal"}
                  => Manages(tr[w].user)
            /\ tr[w].kind = "first" => Superadmins = {}]_vars

(***************************************************************************)
(* A password that was replaced does not come back, whichever way a change *)
(* or a reset races the re-encoding of the old hash after a login; and an  *)
(* account's own change replaces the password that its session has shown,  *)
(* or one that the same session set meanwhile, never one that a superadmin *)
(* or another session chose.                                               *)
(***************************************************************************)
PasswordsMoveOn ==
    [][\A u \in User : Present(u) =>
         /\ users'[u].secret >= users[u].secret
         /\ \A w \in Worker :
              (/\ At(w, "staged", "own") /\ tr[w].user = u
               /\ users'[u].secret # users[u].secret /\ tr'[w] = Idle)
              => \/ tr[w].secret = users[u].secret
                 \/ users[u].by = tr[w].session]_vars
=============================================================================
