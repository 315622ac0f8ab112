-------------------------- MODULE SandboxLifecycle --------------------------
(***************************************************************************)
(* The Sandbox generations of one tenant and the sessions that use them:   *)
(* activation, reset and purge of a generation, mode switch, recovery of a *)
(* session that a reset revoked, business writes, and the account changes  *)
(* that every data space's change feed must carry.                         *)
(*                                                                         *)
(* A request is cut where another one may interleave: the reads the use    *)
(* case makes before its database transaction (Ask..., Aim), the statement *)
(* that has its locks and validates under them (Lock..., and for the two   *)
(* transactions that take further locks later StageChange, FanOut and      *)
(* ResetRevoke), and the commit.  Locks of one step are taken together:    *)
(* the order in which they are taken is the subject of LockOrder.          *)
(*                                                                         *)
(* Production is a data space that is always active.  Rows are the Sandbox *)
(* rows only.  Package clones and audit rows are left out: they are        *)
(* written and purged with the generation they belong to.                  *)
(***************************************************************************)
EXTENDS PgLocks, FiniteSets, Naturals

CONSTANTS
    Users,          \* how many accounts there are
    Superadmin,     \* those with role superadmin
    Worker,         \* concurrent requests
    MaxSession,     \* bound on the sessions ever issued
    MaxGeneration,  \* bound on the Sandbox generations ever started
    MaxClock,       \* bound on the times that are told apart
    NoSession       \* a session that was never issued or was purged

ASSUME SandboxAssumption ==
    /\ MaxSession \in Nat /\ MaxGeneration \in Nat \ {0} /\ MaxClock \in Nat
    /\ Users \in 1 .. MaxSession
    /\ Superadmin \subseteq 1 .. Users
    /\ IsFiniteSet(Worker)

VARIABLES
    spaces,     \* data_spaces of the Sandbox, by generation
    enabled,    \* sandbox_enabled_override of the tenant
    accounts,   \* users: how often the row changed, and its updated_at
    sessions,   \* sessions, by the order in which they were issued
    issued,     \* how many sessions were ever issued
    parent,     \* the session that a session replaced, 0 for a login
    rows,       \* business rows: <<generation, session that wrote it>>
    feed,       \* per space, the account version its change feed ends with
    clock,      \* the last time that somebody read
    tr          \* the request of each worker

dbVars == <<spaces, enabled, accounts, sessions, issued, parent, rows, feed>>
vars == <<dbVars, clock, tr>>

Production == 0
Generation == 1 .. MaxGeneration
Space == {Production} \cup Generation
Session == 1 .. MaxSession
User == 1 .. Users

SpaceRow == [status : {"none", "active", "retired", "purged"}, retiredAt : Nat]
NoSpace == [status |-> "none", retiredAt |-> 0]
ActiveSpace == [status |-> "active", retiredAt |-> 0]

Revocation == {"mode_switched", "sandbox_generation_retired",
               "sandbox_generation_recovered", "account_changed"}

(***************************************************************************)
(* One sessions row.  known is a history variable: the version of the      *)
(* account at the commit that revoked the session.                         *)
(***************************************************************************)
SessionRow == [user : User, space : Space, state : {"live"} \cup Revocation,
               revokedAt : Nat, known : Nat]

ASSUME NoSessionAssumption == NoSession \notin SessionRow

LiveSession(user, space) ==
    [user |-> user, space |-> space, state |-> "live",
     revokedAt |-> 0, known |-> 0]

-----------------------------------------------------------------------------
ActiveGenerations == {g \in Generation : spaces[g].status = "active"}

IsActive(sp) == sp \in {Production} \cup ActiveGenerations

(* ActiveDataSpace of the Sandbox; 0 stands for its NOT_FOUND. *)
ActiveGeneration ==
    IF ActiveGenerations = {} THEN 0 ELSE CHOOSE g \in ActiveGenerations : TRUE

(***************************************************************************)
(* The session that a bearer token names.  A session revoked by a reset    *)
(* still authenticates, for recovery alone, while its generation is        *)
(* retired and not yet purged.                                             *)
(***************************************************************************)
Live(s) ==
    /\ sessions[s] # NoSession
    /\ sessions[s].state = "live"
    /\ IsActive(sessions[s].space)

RetiredByReset(s) ==
    /\ sessions[s] # NoSession
    /\ sessions[s].state = "sandbox_generation_retired"
    /\ spaces[sessions[s].space].status = "retired"
    /\ sessions[s].revokedAt = spaces[sessions[s].space].retiredAt

LiveIn(sp) == {s \in Session : Live(s) /\ sessions[s].space = sp}
LiveOf(u)  == {s \in Session : Live(s) /\ sessions[s].user = u}

(***************************************************************************)
(* No request.  A request in flight keeps what it has read and staged:     *)
(* the principal, the mode it asks for (sandbox), the space it goes to,    *)
(* makes or expects (target), the account it changes (whom), its time, the *)
(* sessions it revokes, the spaces it logs into or purges, the accounts it *)
(* seeds a feed with, and the locks it holds.                              *)
(***************************************************************************)
Idle == [pc |-> "idle", kind |-> "none", held |-> {}, session |-> 0,
         user |-> 0, space |-> Production, sandbox |-> FALSE,
         target |-> Production, whom |-> 0, at |-> 0, revoked |-> {},
         into |-> {}, seed |-> [u \in User |-> 0]]

At(w, pc, kind) == tr[w].pc = pc /\ tr[w].kind = kind

Granted(w, wanted) ==
    Grantable(wanted, UNION {tr[v].held : v \in Worker \ {w}})

Goto(w, request) == tr' = [tr EXCEPT ![w] = request] /\ UNCHANGED <<dbVars, clock>>

(* The request ends with an error, and its transaction is rolled back. *)
Refuse(w) == Goto(w, Idle)

(***************************************************************************)
(* lockMutationIdentity: account, tenant and generation in that order,     *)
(* then space and session.  A lifecycle operation takes tenant and         *)
(* generation exclusively, a replacement the session.                      *)
(***************************************************************************)
(* Mutant of IdentityLocks: the checks are made, the locks are not taken. *)
IdentityUnlocked(q) == {Share(<<"user", q.user>>)}

IdentityLocks(q) ==
    ShareAll({<<"user", q.user>>, <<"tenant">>, <<"generation">>,
              <<"space", q.space>>, <<"session", q.session>>})

ReplacementLocks(q) ==
    ShareAll({<<"user", q.user>>, <<"tenant">>, <<"generation">>,
              <<"space", q.space>>, <<"space", q.target>>})
        \cup {Update(<<"session", q.session>>)}

LifecycleLocks(q) ==
    ShareAll({<<"user", q.user>>, <<"space", q.space>>, <<"session", q.session>>})
        \cup UpdateAll({<<"tenant">>, <<"generation">>})

(* RecoverRetiredSandboxSession locks the space it goes to, not the old.   *)
RecoveryLocks(q) ==
    ShareAll({<<"user", q.user>>, <<"tenant">>, <<"generation">>,
              <<"space", q.target>>})
        \cup {Update(<<"session", q.session>>)}
-----------------------------------------------------------------------------
(***************************************************************************)
(* The program starts with one Production session for each account, in a   *)
(* tenant that has no Sandbox generation yet or has its first.             *)
(***************************************************************************)
Init ==
    /\ spaces \in {[g \in Generation |-> NoSpace],
                   [g \in Generation |-> IF g = 1 THEN ActiveSpace ELSE NoSpace]}
    /\ enabled \in BOOLEAN
    /\ accounts = [u \in User |-> [version |-> 1, updatedAt |-> 0]]
    /\ issued = Users
    /\ sessions = [s \in Session |->
                      IF s \in User THEN LiveSession(s, Production)
                      ELSE NoSession]
    /\ parent = [s \in Session |-> 0]
    /\ rows = {}
    /\ feed = [sp \in Space |-> [u \in User |->
                  IF IsActive(sp) THEN 1 ELSE 0]]
    /\ clock = 0
    /\ tr = [w \in Worker |-> Idle]

(***************************************************************************)
(* The principal of a request is read once, before any transaction.        *)
(***************************************************************************)
Principal(kind, s) ==
    [Idle EXCEPT !.pc = "asked", !.kind = kind, !.session = s,
                 !.user = sessions[s].user, !.space = sessions[s].space]

Stage(w, q, locks) == Goto(w, [q EXCEPT !.pc = "staged", !.held = locks])

(* --- Business writes ---------------------------------------------------- *)
AskWrite(w, s) ==
    /\ tr[w] = Idle
    /\ Live(s) /\ sessions[s].space # Production
    /\ Goto(w, Principal("write", s))

LockWrite(w) ==
    LET q == tr[w] IN
    /\ At(w, "asked", "write")
    /\ Granted(w, IdentityLocks(q))
    /\ IF Live(q.session) THEN Stage(w, q, IdentityLocks(q)) ELSE Refuse(w)

CommitWrite(w) ==
    /\ At(w, "staged", "write")
    /\ rows' = rows \cup {<<tr[w].space, tr[w].session>>}
    /\ tr' = [tr EXCEPT ![w] = Idle]
    /\ UNCHANGED <<spaces, enabled, accounts, sessions, issued, parent, feed, clock>>

(* --- Switching the mode of a session, and recovering a retired one ------ *)
(* Requests that will issue a session when they commit. *)
Replacing == {w \in Worker : tr[w].kind \in {"switch", "recover"}}

(***************************************************************************)
(* SwitchMode checks that the Sandbox is enabled on the principal it has   *)
(* read; a session that a reset revoked asks for either mode.              *)
(***************************************************************************)
AskSwitch(w, s, sandbox) ==
    /\ tr[w] = Idle
    /\ issued + Cardinality(Replacing) < MaxSession
    /\ sandbox => enabled
    /\ \/ /\ Live(s)
          /\ sandbox = (sessions[s].space = Production)
          /\ Goto(w, [Principal("switch", s) EXCEPT !.sandbox = sandbox])
       \/ /\ RetiredByReset(s)
          /\ Goto(w, [Principal("recover", s) EXCEPT !.sandbox = sandbox])

(* ActiveDataSpace is a statement of its own; without a generation yet the *)
(* request goes through EnsureSandbox.                                     *)
Aim(w) ==
    LET q == tr[w]
        target == IF q.sandbox THEN ActiveGeneration ELSE Production
    IN /\ q.pc = "asked" /\ q.kind \in {"switch", "recover"}
       /\ IF q.sandbox /\ target = 0
          THEN Goto(w, [q EXCEPT !.pc = "ensuring"])
          ELSE Goto(w, [q EXCEPT !.pc = "aimed", !.target = target])

(* SwitchSession validates target and session under its locks. *)
LockSwitch(w) ==
    LET q == tr[w] IN
    /\ At(w, "aimed", "switch")
    /\ Granted(w, ReplacementLocks(q))
    /\ IF Live(q.session) /\ IsActive(q.target)
       THEN Stage(w, q, ReplacementLocks(q)) ELSE Refuse(w)

(***************************************************************************)
(* RecoverRetiredSandboxSession: the session must still be one that the    *)
(* reset revoked, and the account must not have changed after that.        *)
(***************************************************************************)
(* Mutant of Recovers: the revocation reason is not looked at again. *)
RecoversAnyRevoked(q) ==
    /\ IsActive(q.target)
    /\ sessions[q.session] # NoSession
    /\ sessions[q.session].revokedAt = spaces[q.space].retiredAt
    /\ accounts[q.user].updatedAt <= sessions[q.session].revokedAt

Recovers(q) ==
    /\ IsActive(q.target)
    /\ RetiredByReset(q.session)
    /\ accounts[q.user].updatedAt <= sessions[q.session].revokedAt

LockRecover(w) ==
    LET q == tr[w] IN
    /\ At(w, "aimed", "recover")
    /\ Granted(w, RecoveryLocks(q))
    /\ IF Recovers(q) THEN Stage(w, q, RecoveryLocks(q)) ELSE Refuse(w)

(* The successor session, and the reason the old one is left with. *)
CommitReplacement(w) ==
    LET q == tr[w]
        reason == IF q.kind = "switch" THEN "mode_switched"
                  ELSE "sandbox_generation_recovered"
    IN /\ q.pc = "staged" /\ q.kind \in {"switch", "recover"}
       /\ issued' = issued + 1
       /\ sessions' = [sessions EXCEPT ![q.session].state = reason,
                                       ![issued + 1] = LiveSession(q.user, q.target)]
       /\ parent' = [parent EXCEPT ![issued + 1] = q.session]
       /\ tr' = [tr EXCEPT ![w] = Idle]
       /\ UNCHANGED <<spaces, enabled, accounts, rows, feed, clock>>

(* --- Activation --------------------------------------------------------- *)
(* What a generation's change feed starts with (seedSharedSyncChanges). *)
Seeded == [u \in User |-> accounts[u].version]

NextGeneration == 1 + Cardinality({g \in Generation : spaces[g].status # "none"})

(***************************************************************************)
(* ensureSandboxTx under the exclusive generation lock: the generation to  *)
(* start, or 0 when another request has started one meanwhile.             *)
(***************************************************************************)
Made == IF ActiveGeneration = 0 THEN NextGeneration ELSE 0

(* The spaces and feeds with generation g started, g # 0. *)
Started(g) == [spaces EXCEPT ![g] = ActiveSpace]

(* GET /sandbox of an enabled tenant without a generation. *)
AskStatus(w, s) ==
    /\ tr[w] = Idle
    /\ Live(s) /\ enabled /\ ActiveGeneration = 0
    /\ Goto(w, [Principal("status", s) EXCEPT !.pc = "ensuring"])

EnsureLocks == {Share(<<"tenant">>), Update(<<"generation">>)}

LockEnsure(w) ==
    /\ tr[w].pc = "ensuring"
    /\ Granted(w, EnsureLocks)
    /\ Goto(w, [tr[w] EXCEPT !.pc = "activating", !.held = EnsureLocks,
                             !.target = Made, !.seed = Seeded])

(* The transaction of EnsureSandbox commits; a mode switch goes on to its  *)
(* own transaction with the space that was returned.                       *)
CommitEnsure(w) ==
    LET q == tr[w]
        space == IF q.target = 0 THEN ActiveGeneration ELSE q.target
    IN /\ q.pc = "activating"
       /\ spaces' = IF q.target = 0 THEN spaces ELSE Started(q.target)
       /\ feed' = IF q.target = 0 THEN feed ELSE [feed EXCEPT ![q.target] = q.seed]
       /\ tr' = [tr EXCEPT ![w] = IF q.kind = "status" THEN Idle
                    ELSE [q EXCEPT !.pc = "aimed", !.held = {}, !.target = space,
                                   !.seed = Idle.seed]]
       /\ UNCHANGED <<enabled, accounts, sessions, issued, parent, rows, clock>>

(***************************************************************************)
(* PUT /sandbox/settings, and POST /sandbox/reset below, of a superadmin   *)
(* in Production.  sandbox is the setting, target the generation to start. *)
(***************************************************************************)
AskConfigure(w, s, on) ==
    /\ tr[w] = Idle
    /\ Live(s) /\ sessions[s].space = Production
    /\ sessions[s].user \in Superadmin
    /\ Goto(w, [Principal("configure", s) EXCEPT !.sandbox = on])

LockConfigure(w) ==
    LET q == tr[w] IN
    /\ At(w, "asked", "configure")
    /\ Granted(w, LifecycleLocks(q))
    /\ IF Live(q.session)
       THEN Stage(w, [q EXCEPT !.target = IF q.sandbox THEN Made ELSE 0,
                               !.seed = Seeded], LifecycleLocks(q))
       ELSE Refuse(w)

CommitConfigure(w) ==
    LET q == tr[w] IN
    /\ At(w, "staged", "configure")
    /\ enabled' = q.sandbox
    /\ spaces' = IF q.target = 0 THEN spaces ELSE Started(q.target)
    /\ feed' = IF q.target = 0 THEN feed ELSE [feed EXCEPT ![q.target] = q.seed]
    /\ tr' = [tr EXCEPT ![w] = Idle]
    /\ UNCHANGED <<accounts, sessions, issued, parent, rows, clock>>

(* --- Reset -------------------------------------------------------------- *)
(* expectedGeneration is the active one when the superadmin looked. *)
AskReset(w, s) ==
    /\ tr[w] = Idle
    /\ Live(s) /\ sessions[s].space = Production
    /\ sessions[s].user \in Superadmin
    /\ enabled
    /\ ActiveGeneration \in 1 .. MaxGeneration - 1
    /\ clock < MaxClock
    /\ Goto(w, [Principal("reset", s) EXCEPT !.target = ActiveGeneration])

ResetLocks(q) == LifecycleLocks(q) \cup {Update(<<"space", q.target>>)}

(* Under the locks: the generation is compared, and the time, the clones   *)
(* and the seed are read.                                                  *)
LockReset(w) ==
    LET q == tr[w] IN
    /\ At(w, "asked", "reset")
    /\ clock < MaxClock
    /\ Granted(w, ResetLocks(q))
    /\ IF Live(q.session) /\ ActiveGeneration = q.target
       THEN /\ clock' = clock + 1
            /\ tr' = [tr EXCEPT ![w] = [q EXCEPT
                         !.pc = "retiring", !.held = ResetLocks(q),
                         !.at = clock + 1, !.seed = Seeded]]
            /\ UNCHANGED dbVars
       ELSE Refuse(w)

(* UPDATE sessions ... WHERE data_space_id = previous AND revoked_at IS    *)
(* NULL waits for whoever holds one of those sessions.                     *)
ResetRevoke(w) ==
    LET q == tr[w]
        locks == UpdateAll({<<"session", s>> : s \in LiveIn(q.target)})
    IN /\ At(w, "retiring", "reset")
       /\ Granted(w, locks)
       /\ Stage(w, [q EXCEPT !.revoked = LiveIn(q.target)], q.held \cup locks)

Revoked(gone, reason, time) ==
    [s \in Session |-> IF s \in gone
        THEN [sessions[s] EXCEPT !.state = reason, !.revokedAt = time,
                                 !.known = accounts[sessions[s].user].version]
        ELSE sessions[s]]

CommitReset(w) ==
    LET q == tr[w] IN
    /\ At(w, "staged", "reset")
    /\ spaces' = [spaces EXCEPT
                     ![q.target] = [status |-> "retired", retiredAt |-> q.at],
                     ![q.target + 1] = ActiveSpace]
    /\ sessions' = Revoked(q.revoked, "sandbox_generation_retired", q.at)
    /\ feed' = [feed EXCEPT ![q.target + 1] = q.seed]
    /\ tr' = [tr EXCEPT ![w] = Idle]
    /\ UNCHANGED <<enabled, accounts, issued, parent, rows, clock>>

(* --- Purge -------------------------------------------------------------- *)
RetiredGenerations == {g \in Generation : spaces[g].status = "retired"}

(***************************************************************************)
(* CleanupExpiredSandboxes lists, under a lock of its own, the generations *)
(* whose retention is over; any retired one may be.                        *)
(***************************************************************************)
AskCleanup(w, expired) ==
    /\ tr[w] = Idle
    /\ expired # {} /\ expired \subseteq RetiredGenerations
    /\ Granted(w, {Update(<<"cleanup">>)})
    /\ Goto(w, [Idle EXCEPT !.pc = "asked", !.kind = "cleanup",
                            !.held = {Update(<<"cleanup">>)}, !.into = expired])

PurgeLocks(q) ==
    q.held \cup {Share(<<"tenant">>), Update(<<"generation">>)}
           \cup UpdateAll({<<"space", g>> : g \in q.into})

(* stillExpired is looked at again under the generation lock. *)
LockCleanup(w) ==
    LET q == tr[w] IN
    /\ At(w, "asked", "cleanup")
    /\ Granted(w, PurgeLocks(q))
    /\ Stage(w, [q EXCEPT !.into = q.into \cap RetiredGenerations], PurgeLocks(q))

CommitCleanup(w) ==
    LET q == tr[w] IN
    /\ At(w, "staged", "cleanup")
    /\ spaces' = [g \in Generation |-> IF g \in q.into
                     THEN [spaces[g] EXCEPT !.status = "purged"] ELSE spaces[g]]
    /\ sessions' = [s \in Session |->
                       IF sessions[s] # NoSession /\ sessions[s].space \in q.into
                       THEN NoSession ELSE sessions[s]]
    /\ rows' = {row \in rows : row[1] \notin q.into}
    /\ feed' = [sp \in Space |-> IF sp \in q.into THEN Idle.seed ELSE feed[sp]]
    /\ tr' = [tr EXCEPT ![w] = Idle]
    /\ UNCHANGED <<enabled, accounts, issued, parent, clock>>

(* --- Account changes ---------------------------------------------------- *)
(***************************************************************************)
(* ChangeOwnPassword of a Production session, and UpdateManagedUser or     *)
(* ResetManagedPassword of a superadmin on somebody else's account.        *)
(***************************************************************************)
AskChange(w, s, u) ==
    /\ tr[w] = Idle
    /\ Live(s) /\ sessions[s].space = Production
    /\ u = sessions[s].user \/ sessions[s].user \in Superadmin
    /\ clock < MaxClock
    /\ Goto(w, [Principal("change", s) EXCEPT !.whom = u])

(* BEGIN: now(), which updated_at is set to, stands still from here on. *)
BeginChange(w) ==
    /\ At(w, "asked", "change")
    /\ clock < MaxClock
    /\ clock' = clock + 1
    /\ tr' = [tr EXCEPT ![w].pc = "begun", ![w].at = clock + 1]
    /\ UNCHANGED dbVars

(* The sessions that the change ends: all of the account, but for its own. *)
Ended(q) == LiveOf(q.whom) \ {q.session}

ChangeLocks(q) ==
    LET taken == UpdateAll({<<"session", s>> : s \in Ended(q)})
    IN IF q.whom = q.user
       THEN taken \cup {Share(<<"organization">>), Update(<<"user", q.user>>),
                        Share(<<"tenant">>), Update(<<"session", q.session>>)}
       ELSE taken \cup {Update(<<"organization">>), Update(<<"user", q.user>>),
                        Update(<<"user", q.whom>>)}

(* Account, sessions: UPDATE users and UPDATE sessions ... revoked_at IS   *)
(* NULL, not visible to others yet.                                        *)
StageChange(w) ==
    LET q == tr[w] IN
    /\ At(w, "begun", "change")
    /\ Granted(w, ChangeLocks(q))
    /\ IF Live(q.session)
       THEN Goto(w, [q EXCEPT !.pc = "changed", !.held = ChangeLocks(q),
                              !.revoked = Ended(q)])
       ELSE Refuse(w)

(***************************************************************************)
(* addSharedChange: under the shared generation lock, one change for every *)
(* space that is active when the INSERT runs.                              *)
(***************************************************************************)
(* Mutant of FanOutLocks: no generation lock. *)
FanOutUnlocked == {}

FanOutLocks == {Share(<<"generation">>)}

FanOut(w) ==
    LET q == tr[w] IN
    /\ At(w, "changed", "change")
    /\ Granted(w, FanOutLocks)
    /\ Stage(w, [q EXCEPT !.into = {sp \in Space : IsActive(sp)}],
                q.held \cup FanOutLocks)

CommitChange(w) ==
    LET q == tr[w]
        version == accounts[q.whom].version + 1
    IN /\ At(w, "staged", "change")
       /\ accounts' = [accounts EXCEPT ![q.whom] =
                          [version |-> version, updatedAt |-> q.at]]
       /\ sessions' = Revoked(q.revoked, "account_changed", q.at)
       /\ feed' = [sp \in Space |-> IF sp \in q.into
                      THEN [feed[sp] EXCEPT ![q.whom] = version] ELSE feed[sp]]
       /\ tr' = [tr EXCEPT ![w] = Idle]
       /\ UNCHANGED <<spaces, enabled, issued, parent, rows, clock>>

(***************************************************************************)
(* The client gives up, the connection or the process is lost, or the      *)
(* deadlock detector picks this transaction: everything is rolled back.    *)
(***************************************************************************)
Abort(w) == tr[w] # Idle /\ Refuse(w)

-----------------------------------------------------------------------------
Ask(w) ==
    \/ \E s \in Session :
          \/ AskWrite(w, s) \/ AskStatus(w, s) \/ AskReset(w, s)
          \/ \E b \in BOOLEAN : AskSwitch(w, s, b) \/ AskConfigure(w, s, b)
          \/ \E u \in User : AskChange(w, s, u)
    \/ \E expired \in SUBSET Generation : AskCleanup(w, expired)

Proceed(w) ==
    \/ LockWrite(w) \/ CommitWrite(w)
    \/ Aim(w) \/ LockSwitch(w) \/ LockRecover(w) \/ CommitReplacement(w)
    \/ LockEnsure(w) \/ CommitEnsure(w)
    \/ LockConfigure(w) \/ CommitConfigure(w)
    \/ LockReset(w) \/ ResetRevoke(w) \/ CommitReset(w)
    \/ LockCleanup(w) \/ CommitCleanup(w)
    \/ BeginChange(w) \/ StageChange(w) \/ FanOut(w) \/ CommitChange(w)

Next == \E w \in Worker : Ask(w) \/ Proceed(w) \/ Abort(w)

Spec == Init /\ [][Next]_vars

-----------------------------------------------------------------------------
(***************************************************************************)
(* Properties.                                                             *)
(***************************************************************************)
Resource ==
    {<<"tenant">>, <<"generation">>, <<"organization">>, <<"cleanup">>}
        \cup ({"user"} \X User) \cup ({"session"} \X Session)
        \cup ({"space"} \X Space)

Request == [pc : {"idle", "asked", "aimed", "ensuring", "activating", "begun",
                  "changed", "retiring", "staged"},
            kind : {"none", "write", "switch", "recover", "status", "configure",
                    "reset", "cleanup", "change"},
            held : SUBSET [on : Resource, exclusive : BOOLEAN],
            session : {0} \cup Session, user : {0} \cup User, space : Space,
            sandbox : BOOLEAN, target : Space, whom : {0} \cup User, at : Nat,
            revoked : SUBSET Session, into : SUBSET Space,
            seed : [User -> Nat]]

(* The type invariant of the tables and of the requests in flight. *)
TypeOK ==
    /\ spaces \in [Generation -> SpaceRow]
    /\ enabled \in BOOLEAN
    /\ accounts \in [User -> [version : Nat, updatedAt : Nat]]
    /\ sessions \in [Session -> SessionRow \cup {NoSession}]
    /\ issued \in Users .. MaxSession
    /\ parent \in [Session -> {0} \cup Session]
    /\ rows \subseteq Generation \X Session
    /\ feed \in [Space -> [User -> Nat]]
    /\ clock \in 0 .. MaxClock
    /\ tr \in [Worker -> Request]

(***************************************************************************)
(* What the locks are for: to every session a generation is current or it  *)
(* is not there.  A reset turns all of its sessions out at the moment it   *)
(* starts the next generation, no session enters or writes to a past one   *)
(* although the target and the principal were read before the locks, and   *)
(* a purge erases past generations only.                                   *)
(***************************************************************************)
Gate == INSTANCE GenerationGate WITH
    Outside <- Production,
    current <- ActiveGeneration,
    inside  <- [s \in Session |->
                   IF sessions[s] # NoSession /\ sessions[s].state = "live"
                   THEN sessions[s].space ELSE Production],
    written <- rows

GateSpec == Gate!Spec

(***************************************************************************)
(* However mode switches, retries, resets and recoveries of one device     *)
(* interleave, one session in its chain of replacements can be used: a     *)
(* session is replaced once, and the one it replaced is spent.             *)
(***************************************************************************)
OneLiveSuccessor ==
    \A a, b \in 1 .. issued : parent[a] # 0 =>
        /\ parent[a] = parent[b] => a = b
        /\ sessions[parent[a]] # NoSession => sessions[parent[a]].state # "live"

(***************************************************************************)
(* The change feed of every active space carries every account as it is,   *)
(* whichever way a reset, an activation and the change of the account      *)
(* interleave: the change is in the seed of the new generation or in the   *)
(* changes that follow it (tenancy_accounts.go:17, store.go:256).          *)
(***************************************************************************)
FeedsCarryAccounts ==
    \A sp \in Space, u \in User :
        IsActive(sp) => feed[sp][u] = accounts[u].version

(***************************************************************************)
(* data_spaces.go:248 "The timestamp checks prevent a reset-revoked token  *)
(* from resurrecting access after a later password, role, profile, or      *)
(* terminal security change."  A recovered session belongs to an account   *)
(* that has not changed since the reset revoked it.  updated_at is the     *)
(* time at which the changing transaction began, so a change that began    *)
(* before the reset and committed after it passes the check.               *)
(***************************************************************************)
NoRecoveryAfterChange ==
    [][\A s \in Session :
        (/\ sessions[s] # NoSession /\ sessions'[s] # NoSession
         /\ sessions[s].state = "sandbox_generation_retired"
         /\ sessions'[s].state = "sandbox_generation_recovered")
        => accounts[sessions[s].user].version = sessions[s].known]_vars
=============================================================================
