------------------------------- MODULE Requests -------------------------------
(***************************************************************************)
(* HTTP requests from their arrival to their answer, on one API process:   *)
(* the Redis index of sessions, the verdict of PostgreSQL on a session,    *)
(* the routes that a refused session may still use, the guards, the        *)
(* handler, and what they share: the pool of database connections, the     *)
(* Argon2id slots and the login limiter.                                   *)
(*                                                                         *)
(* A request is the list of the steps that it still has to make (todo).    *)
(* A step is one call of Redis, one statement or transaction of the pool,  *)
(* or one key derivation; what a route does is a list of steps (Routes).   *)
(* Handlers that read sales are those of Reading.  A handler that calls    *)
(* one transaction of another component makes a "transact" step: that      *)
(* component's module says what it commits and what it answers.            *)
(*                                                                         *)
(* A token stands for the session that it was issued with; what changes    *)
(* sessions elsewhere are the steps of AccountSessions and                 *)
(* SandboxLifecycle, reduced to the rows that the verdict depends on.      *)
(* Bodies, parameters, log lines, traces and the layout of answers are     *)
(* left out; a request whose body or parameters are refused ends before    *)
(* its handler has read or changed anything.                               *)
(***************************************************************************)
EXTENDS Reading

CONSTANTS
    Request,        \* requests in flight
    Principals,     \* sessions with the principal of each
    Plans,          \* what is sent, and how often things go wrong
    InitialSales,   \* sales to start from
    PageSize,       \* limit of a listing
    Recent,         \* limit of the listing of the dashboard
    Connections,    \* MaxConns of the pool
    Period,         \* moments of a report
    Slots,          \* PASSWORD_HASH_CONCURRENCY
    Limit           \* LOGIN_RATE_LIMIT

ASSUME RequestsAssumption ==
    /\ PageSize \in Nat \ {0} /\ Recent \in Nat \ {0}
    /\ Connections \in Nat \ {0} /\ Slots \in Nat \ {0}

VARIABLES
    plan,       \* the plan of this behaviour
    req,        \* the requests
    sessions,   \* rows of sessions, with the tenant and account of each
    enabled,    \* whether the Sandbox of the tenant is enabled
    index,      \* tokens that Redis maps to their session
    limiter,    \* the counter of a login key
    slots,      \* derivations that run
    faults, events, writes

vars == <<plan, req, sessions, enabled, index, limiter, slots, sales,
          faults, events, writes>>

Session == DOMAIN Principals

TenantAccess == {"ACCOUNT_ACCESS_CHANGED", "TENANT_SUSPENDED", "MEMBERSHIP_INACTIVE"}

Retired == "SANDBOX_GENERATION_RETIRED"

(* What PostgreSQL says of a session with its rows.  ended stands for the reasons that    *)
(* leave no row to find.                                                    *)
VerdictOn(row, s) ==
    CASE row.reason \in {"ended", "unissued"} -> "NOT_FOUND"
      [] \/ ~row.account
         \/ row.reason \in {"account_access_changed", "password_recovered"} ->
            "ACCOUNT_ACCESS_CHANGED"
      [] Principals[s].mode = "account" -> "OK"
      [] ~row.tenant -> "TENANT_SUSPENDED"
      [] row.reason \in {"tenant_suspended", "terminal_revoked"} -> "MEMBERSHIP_INACTIVE"
      [] row.reason = "sandbox_generation_retired" -> Retired
      [] OTHER -> "OK"

Verdict(s) == VerdictOn(sessions[s], s)

(* The principal as one statement sees it.                                  *)
Standing(s) == [verdict |-> Verdict(s), enabled |-> enabled]

-----------------------------------------------------------------------------
(***************************************************************************)
(* ROUTES.  What a principal must be, and the steps of the handler.        *)
(***************************************************************************)
Route(demands, work) == [demands |-> demands, work |-> work]

(* requireTenant and requireSandboxEnabled                                  *)
Operational == <<"ready", "tenant", "sandbox enabled">>
Superadmin == Operational \o <<"superadmin">>
OfProduction == Superadmin \o <<"production">>
OfTerminal == Operational \o <<"terminal">>
Management == <<"ready", "superadmin">>
Exchanged == <<"exchange", "forget", "remember successor">>

PublicRoutes ==
    [login |-> <<"allow", "account", "verify", "issue", "remember successor", "rehash">>,
     ready |-> <<"statement">>,
     privacyPolicy |-> <<>>]

SessionRoutes ==
    [logout |-> Route(<<>>, <<"revoke">>),
     authContexts |-> Route(<<>>, <<"statement", "statement">>),
     switchContext |-> Route(<<"ready">>, Exchanged),
     upgradeSession |-> Route(<<>>, Exchanged),
     switchMode |-> Route(<<"ready", "tenant">>, <<"statement">> \o Exchanged),
     profile |-> Route(<<>>, <<>>),
     changePassword |-> Route(<<"not sandbox">>, <<"account", "verify", "hash", "transact">>)]

ManagementRoutes ==
    [managedUsers |-> Route(Management, <<"authorize", "statement">>),
     managedUser |-> Route(Management, <<"authorize", "statement">>),
     createManagedUser |-> Route(Management, <<"hash", "transact">>),
     updateManagedUser |-> Route(Management, <<"transact">>),
     resetManagedPassword |-> Route(Management, <<"hash", "transact">>),
     updateManagedTenant |-> Route(Management, <<"transact">>)]

TenancyRoutes ==
    [platformTenants |-> Route(Management, <<"authorize", "statement">>),
     createTenant |-> Route(Management, <<"transact">>),
     setTenantStatus |-> Route(Management, <<"transact">>),
     platformAudit |-> Route(Management, <<"authorize", "statement">>)]

TenantRoutes ==
    [tenantProfile |-> Route(Operational, <<"statement">>),
     updateTenantProfile |-> Route(OfProduction, <<"transact">>),
     tenantQRIS |-> Route(Operational, <<"statement">>),
     updateTenantQRIS |-> Route(OfProduction, <<"transact">>),
     updateOwnProfile |-> Route(<<"ready", "not sandbox">>, <<"transact">>),
     revalidateOrigins |-> Route(Operational, <<"statement">>)]

SandboxRoutes ==
    [sandboxStatus |-> Route(<<"ready", "tenant">>, <<"statement">>),
     sandboxSettings |-> Route(<<"ready", "tenant", "production", "superadmin">>,
                               <<"transact", "statement">>),
     sandboxReset |-> Route(Operational \o <<"production", "superadmin", "sandbox enabled for all">>,
                            <<"transact">>)]

UserRoutes ==
    [listUsers |-> Route(Superadmin, <<"account">>),
     getUser |-> Route(Superadmin, <<"statement">>)]

PackageRoutes ==
    [listPackages |-> Route(Operational, <<"statement">>),
     getPackage |-> Route(Operational, <<"statement">>),
     createPackage |-> Route(Superadmin, <<"transact">>),
     updatePackage |-> Route(Operational, <<"statement", "superadmin", "transact">>),
     deactivatePackage |-> Route(Operational, <<"statement", "superadmin", "transact",
                                                "statement">>),
     deletePackage |-> Route(Superadmin, <<"transact", "statement">>)]

TerminalRoutes ==
    [enrollTerminal |-> Route(OfProduction, <<"transact">>),
     currentTerminal |-> Route(Operational, <<"statement">>),
     revokeTerminal |-> Route(OfProduction, <<"transact">>),
     syncPush |-> Route(Operational, <<"transact">>),
     syncPull |-> Route(Operational, <<"statement">>)]

SaleRoutes ==
    [createTransaction |-> Route(OfTerminal, <<"sell", "views">>),
     getTransaction |-> Route(Operational, <<"header", "items", "views">>),
     listTransactions |-> Route(Operational, <<"page", "items", "views">>)]

(* A deletion compares the base revision with an earlier read, and reads    *)
(* what it deleted again.                                                   *)
ChangeRoutes ==
    [correctTransaction |-> Route(OfTerminal, <<"header", "items", "correct", "views">>),
     setTransactionPaymentStatus |->
        Route(OfTerminal, <<"header", "items", "settle", "views">>),
     deleteTransaction |->
        Route(Operational, <<"header", "items", "base", "superadmin", "delete",
                             "deleted header", "items", "views">>)]

HistoryRoutes ==
    [listRevisions |-> Route(Operational, <<"any header", "items", "open", "revision", "statement">>),
     recordPrintAttempt |-> Route(OfTerminal, <<"print", "statement">>),
     listPrintAttempts |-> Route(Operational, <<"any header", "items", "statement">>)]

ReportRoutes ==
    [dashboard |-> Route(Operational, <<"totals", "quantities", "trend", "recent", "items",
                                        "views">>),
     exportTransactions |-> Route(Operational, <<"rows", "statement">>)]

Routes ==
    SessionRoutes @@ ManagementRoutes @@ TenancyRoutes @@ TenantRoutes @@ SandboxRoutes
        @@ UserRoutes @@ PackageRoutes @@ TerminalRoutes @@ SaleRoutes @@ ChangeRoutes
        @@ HistoryRoutes @@ ReportRoutes

IsPublic(route) == route \in DOMAIN PublicRoutes

(* POST /auth/switch-mode takes a retired Sandbox session; the contexts of   *)
(* an account, its switch and logout take one that lost its tenant.         *)
Recovers(route, s, verdict) ==
    \/ /\ route = "switchMode"
       /\ verdict = Retired /\ Principals[s].mode = "sandbox"
    \/ /\ route \in {"authContexts", "switchContext", "logout"}
       /\ verdict \in TenantAccess

(* Whether a principal meets a demand.                                      *)
Meets(s, standing, demand) ==
    LET who == Principals[s] IN
    CASE demand = "ready" -> ~who.must
      [] demand = "tenant" -> who.mode # "account"
      [] demand = "sandbox enabled" -> who.mode = "sandbox" => standing.enabled
      [] demand = "sandbox enabled for all" -> standing.enabled
      [] demand = "production" -> who.mode = "production"
      [] demand = "not sandbox" -> who.mode # "sandbox"
      [] demand = "superadmin" -> who.superadmin
      [] demand = "terminal" -> who.terminal

-----------------------------------------------------------------------------
(***************************************************************************)
(* STEPS.                                                                  *)
(***************************************************************************)
Session0(r) == plan.requests[r].session
RouteOf(r) == plan.requests[r].route

Busy(r) == req[r].todo # <<>>
Doing(r, step) == Busy(r) /\ Head(req[r].todo) = step

(* The request goes on with these steps before the ones that it still has.  *)
Then(q, steps) == [q EXCEPT !.todo = steps \o Tail(@)]
Reply(q, code) == [q EXCEPT !.todo = <<>>, !.answer = code, !.cursorOpen = FALSE]
Update(r, q) == req' = [req EXCEPT ![r] = q]
Proceed(r) == Update(r, Then(req[r], <<>>))
Answer(r, code) == Update(r, Reply(req[r], code))

FreeConnections == Connections - Cardinality({r \in Request : req[r].cursorOpen})

(* The steps that use a connection of the pool.                             *)
Querying ==
    {"session", "token", "authorize", "statement", "transact", "revoke", "exchange", "issue",
     "reissue", "page", "recent", "header", "any header", "deleted header", "items", "views", "open",
     "revision", "totals", "quantities", "trend", "rows"} \cup Kind

Queries(r, step) == Doing(r, step) /\ FreeConnections > 0

database == <<sessions, enabled, sales>>
redis == <<index, limiter>>
bounds == <<faults, events, writes>>

Fault == faults < plan.faults /\ faults' = faults + 1

(***************************************************************************)
(* AUTHENTICATION.                                                         *)
(***************************************************************************)

(* Every request of a plan is sent once; a walk is one request per page.    *)
Fresh ==
    [todo |-> <<>>, answer |-> "none", who |-> [verdict |-> "none", enabled |-> FALSE],
     seen |-> {}, admitted |-> FALSE, cursorOpen |-> FALSE, page |-> <<>>, more |-> FALSE,
     cursor |-> <<>>, shown |-> <<>>, left |-> {}, report |-> <<>>,
     walked |-> <<>>, expected |-> {}, moved |-> {}]

Filter(r) == [paid |-> FALSE, deleted |-> Principals[Session0(r)].superadmin, moments |-> Moment]

Sent(r, q) ==
    [q EXCEPT !.todo = IF IsPublic(RouteOf(r)) THEN Append(PublicRoutes[RouteOf(r)], "answer")
                       ELSE <<"index", "demands">> \o Routes[RouteOf(r)].work \o <<"answer">>,
              !.seen = {Standing(Session0(r))}, !.admitted = FALSE, !.answer = "none",
              !.page = <<>>, !.shown = <<>>]

Arrive(r) ==
    /\ r \in DOMAIN plan.requests
    /\ ~Busy(r) /\ req[r].answer = "none"
    /\ Update(r, [Sent(r, req[r]) EXCEPT !.expected = Matching(Filter(r))])
    /\ UNCHANGED <<plan, database, redis, slots, bounds>>

(* An error of Redis is a miss.                                             *)
LookUp(r) ==
    /\ Doing(r, "index")
    /\ \/ /\ Session0(r) \in index
          /\ Update(r, Then(req[r], <<"session">>))
          /\ UNCHANGED faults
       \/ /\ Session0(r) \in index
          /\ Fault
          /\ Update(r, Then(req[r], <<"token">>))
       \/ /\ Session0(r) \notin index
          /\ Update(r, Then(req[r], <<"token">>))
          /\ UNCHANGED faults
    /\ UNCHANGED <<plan, database, redis, slots, events, writes>>

(* The steps that follow the verdict on a session.                          *)
Judged(r, q, verdict) ==
    LET known == [q EXCEPT !.who = Standing(Session0(r))] IN
    IF verdict = "OK" \/ Recovers(RouteOf(r), Session0(r), verdict)
    THEN Then(known, <<>>)
    ELSE Then(known, <<"refuse">>)

(* Mutant of PrincipalBySession: the index is trusted.                      *)
IndexTrusted(r) ==
    /\ Queries(r, "session")
    /\ Update(r, Then([req[r] EXCEPT !.who = [verdict |-> "OK", enabled |-> enabled]], <<>>))
    /\ UNCHANGED <<plan, database, redis, slots, bounds>>

(* The session that the index names, as it is now.  Only a token that is    *)
(* certainly stale leaves the index; a lost connection is an error.         *)
PrincipalBySession(r) ==
    /\ Queries(r, "session")
    /\ LET verdict == Verdict(Session0(r))
           judged == Judged(r, req[r], verdict) IN
       Update(r, CASE verdict = Retired -> [judged EXCEPT !.todo = <<"forget">> \o @]
                   [] verdict = "NOT_FOUND" -> Then(req[r], <<"forget", "token">>)
                   [] OTHER -> judged)
    /\ UNCHANGED <<plan, database, redis, slots, bounds>>

PrincipalByTokenHash(r) ==
    /\ Queries(r, "token")
    /\ LET verdict == Verdict(Session0(r))
           judged == Judged(r, req[r], verdict) IN
       Update(r, CASE verdict = "OK" -> [judged EXCEPT !.todo = <<"remember">> \o @]
                   [] verdict = "NOT_FOUND" -> Reply(req[r], "UNAUTHORIZED")
                   [] OTHER -> judged)
    /\ UNCHANGED <<plan, database, redis, slots, bounds>>

Refuse(r) ==
    /\ Doing(r, "refuse")
    /\ Answer(r, req[r].who.verdict)
    /\ UNCHANGED <<plan, database, redis, slots, bounds>>

(* Set and Delete of the index; an error leaves it as it was.               *)
Successor(s) == Principals[s].successor

Reindex(r) ==
    /\ \/ Doing(r, "remember") /\ index' = index \cup {Session0(r)} /\ UNCHANGED faults
       \/ Doing(r, "remember successor") /\ index' = index \cup {Successor(Session0(r))}
          /\ UNCHANGED faults
       \/ Doing(r, "forget") /\ index' = index \ {Session0(r)} /\ UNCHANGED faults
       \/ /\ \E step \in {"remember", "remember successor", "forget"} : Doing(r, step)
          /\ Fault
          /\ UNCHANGED index
    /\ Proceed(r)
    /\ UNCHANGED <<plan, database, limiter, slots, events, writes>>

(* requireTenant, requireSandboxEnabled, requireProduction and the checks   *)
(* that the use case makes on the principal.                                *)
Demands(r) ==
    /\ Doing(r, "demands")
    /\ LET unmet == SelectSeq(Routes[RouteOf(r)].demands,
                              LAMBDA demand : ~Meets(Session0(r), req[r].who, demand))
       IN Update(r, IF unmet # <<>> THEN Reply(req[r], "refused")
                    ELSE [Then(req[r], <<>>) EXCEPT !.admitted = TRUE])
    /\ UNCHANGED <<plan, database, redis, slots, bounds>>

(* RequireSuperadmin where the handler reads first.                         *)
RequireSuperadmin(r) ==
    /\ Doing(r, "superadmin")
    /\ IF Principals[Session0(r)].superadmin THEN Proceed(r) ELSE Answer(r, "refused")
    /\ UNCHANGED <<plan, database, redis, slots, bounds>>

-----------------------------------------------------------------------------
(***************************************************************************)
(* LOGIN, and the sessions that a handler ends or issues.                  *)
(***************************************************************************)

(* INCR, and EXPIRE by the request that found no counter.  An error of      *)
(* Redis lets the login pass.                                               *)
Allow(r) ==
    /\ Doing(r, "allow")
    /\ \/ /\ limiter' = [limiter EXCEPT !.count = @ + 1]
          /\ Update(r, IF limiter.count = 0 THEN Then(req[r], <<"expire">>)
                       ELSE IF limiter.count >= Limit THEN Reply(req[r], "RATE_LIMITED")
                       ELSE Then(req[r], <<>>))
          /\ UNCHANGED faults
       \/ /\ Fault
          /\ Proceed(r)
          /\ UNCHANGED limiter
    /\ UNCHANGED <<plan, database, index, slots, events, writes>>

Expire(r) ==
    /\ Doing(r, "expire")
    /\ \/ limiter' = [limiter EXCEPT !.expires = limiter.count # 0] /\ UNCHANGED faults
       \/ Fault /\ UNCHANGED limiter
    /\ Proceed(r)
    /\ UNCHANGED <<plan, database, index, slots, events, writes>>

(* UserForLogin and ListUsers, on the connections of the ORM.               *)
ReadAccount(r) ==
    /\ Doing(r, "account")
    /\ \/ Proceed(r)
       \/ RouteOf(r) = "login" /\ Answer(r, "INVALID_CREDENTIALS")
    /\ UNCHANGED <<plan, database, redis, slots, bounds>>

(* argon2Slots <- struct{}{}                                                *)
TakeSlot(r) ==
    /\ slots < Slots
    /\ slots' = slots + 1
    /\ \/ Doing(r, "verify") /\ Update(r, Then(req[r], <<"verified">>))
       \/ Doing(r, "hash") /\ Update(r, Then(req[r], <<"hashed">>))
    /\ UNCHANGED <<plan, database, redis, bounds>>

(* Mutant of GiveSlot: a password that does not match keeps its slot.       *)
KeepSlot(r) ==
    /\ \/ Doing(r, "verified") /\ Answer(r, "INVALID_CREDENTIALS") /\ UNCHANGED slots
       \/ /\ Doing(r, "verified") \/ Doing(r, "hashed")
          /\ slots' = slots - 1
          /\ Proceed(r)
    /\ UNCHANGED <<plan, database, redis, bounds>>

(* The derivation is done, whatever it says and whoever still waits for it. *)
GiveSlot(r) ==
    /\ slots' = slots - 1
    /\ \/ (Doing(r, "verified") \/ Doing(r, "hashed")) /\ Proceed(r)
       \/ Doing(r, "verified") /\ Answer(r, "INVALID_CREDENTIALS")
    /\ UNCHANGED <<plan, database, redis, bounds>>

(* Requests in flight have seen the sessions as they are now.               *)
Observed(requests, rows, on) ==
    [r \in Request |->
        IF requests[r].todo = <<>> THEN requests[r]
        ELSE [requests[r] EXCEPT !.seen = @ \cup
                {[verdict |-> VerdictOn(rows[Session0(r)], Session0(r)), enabled |-> on]}]]

(* A transaction changed the sessions; its answer reached the process or    *)
(* was lost.                                                                *)
Committing(rows, r) ==
    /\ sessions' = rows
    /\ \/ /\ req' = Observed([req EXCEPT ![r] = Then(@, <<>>)], rows, enabled)
          /\ UNCHANGED faults
       \/ /\ Fault
          /\ req' = Observed([req EXCEPT ![r] = Reply(@, "INTERNAL_ERROR")], rows, enabled)

Issued(rows, s) ==
    [rows EXCEPT ![s].reason = IF @ = "unissued" THEN "none" ELSE @]

(* CreateVerifiedLoginSession; a hash that was re-encoded meanwhile is read *)
(* and verified once more.                                                  *)
Issue(r) ==
    /\ UNCHANGED <<plan, enabled, sales, redis, slots, events, writes>>
    /\ \/ /\ Queries(r, "issue") \/ Queries(r, "reissue")
          /\ Committing(Issued(sessions, Successor(Session0(r))), r)
       \/ /\ Queries(r, "issue")
          /\ Update(r, Then(req[r], <<"account", "verify", "reissue">>))
          /\ UNCHANGED <<sessions, faults>>
       \/ /\ Queries(r, "reissue")
          /\ Answer(r, "INVALID_CREDENTIALS")
          /\ UNCHANGED <<sessions, faults>>

(* upgradePasswordHash: the login has succeeded, whatever becomes of it.    *)
Rehash(r) ==
    /\ \/ Doing(r, "rehash") /\ Proceed(r) /\ UNCHANGED faults
       \/ Doing(r, "rehash") /\ Update(r, Then(req[r], <<"hash", "rehashed">>))
          /\ UNCHANGED faults
       \/ Queries(r, "rehashed") /\ Proceed(r) /\ UNCHANGED faults
       \/ Doing(r, "rehashed") /\ Fault /\ Proceed(r)
    /\ UNCHANGED <<plan, database, redis, slots, events, writes>>

(* RevokeSession.  The index keeps the token.                               *)
Revoke(r) ==
    LET s == Session0(r) IN
    /\ Queries(r, "revoke")
    /\ UNCHANGED <<plan, enabled, sales, redis, slots, events, writes>>
    /\ IF sessions[s].reason = "none"
       THEN Committing([sessions EXCEPT ![s].reason = "ended"], r)
       ELSE /\ Answer(r, "NOT_FOUND")
            /\ UNCHANGED <<sessions, faults>>

(* What the transaction of an exchange accepts of the session it replaces.  *)
Exchangeable(route, standing, row, verdict) ==
    CASE route = "switchContext" ->
            row.account /\ row.reason \in {"none", "tenant_suspended", "terminal_revoked"}
      [] route = "upgradeSession" -> verdict = "OK"
      [] route = "switchMode" -> verdict = standing.verdict

Exchange(r) ==
    LET s == Session0(r) IN
    /\ Queries(r, "exchange")
    /\ UNCHANGED <<plan, enabled, sales, redis, slots, events, writes>>
    /\ \/ /\ Exchangeable(RouteOf(r), req[r].who, sessions[s], Verdict(s))
          /\ Committing(Issued([sessions EXCEPT ![s].reason = "ended"], Successor(s)), r)
       \/ /\ Exchangeable(RouteOf(r), req[r].who, sessions[s], Verdict(s)) => RouteOf(r) # "upgradeSession"
          /\ Answer(r, "refused")
          /\ UNCHANGED <<sessions, faults>>

Authorize(r) ==
    /\ Queries(r, "authorize")
    /\ IF Verdict(Session0(r)) = "OK" THEN Proceed(r) ELSE Answer(r, "refused")
    /\ UNCHANGED <<plan, database, redis, slots, bounds>>

-----------------------------------------------------------------------------
(***************************************************************************)
(* HANDLERS.                                                               *)
(***************************************************************************)
SaleOf(r) == plan.requests[r].sale
Base(r) == plan.requests[r].base

(* A statement whose result nothing here depends on.                        *)
Statement(r) ==
    /\ Queries(r, "statement")
    /\ Proceed(r)
    /\ UNCHANGED <<plan, database, redis, slots, bounds>>

(* A transaction of another component.                                      *)
Transact(r) ==
    /\ Queries(r, "transact")
    /\ \/ Proceed(r)
       \/ Answer(r, "refused")
    /\ UNCHANGED <<plan, database, redis, slots, bounds>>

(* A statement fails, or its client goes away while it waits for a          *)
(* connection.                                                              *)
QueryFails(r) ==
    /\ \E step \in Querying \cup {"account"} : Doing(r, step)
    /\ Fault
    /\ Answer(r, "INTERNAL_ERROR")
    /\ UNCHANGED <<plan, database, redis, slots, events, writes>>

(* A step that only reads.                                                  *)
Read(r, step, q) ==
    /\ Queries(r, step)
    /\ Update(r, q)
    /\ UNCHANGED <<plan, database, redis, slots, bounds>>

(* A page of the listing; the row beyond the limit is cut off.              *)
Cut(q, rows, limit) ==
    LET page == SubSeq(rows, 1, Min({limit, Len(rows)})) IN
    [Then(q, <<>>) EXCEPT !.page = page, !.more = Len(rows) > limit,
                          !.cursor = IF page = <<>> THEN @ ELSE CursorAfter(page)]

ReadPage(r) ==
    Read(r, "page", Cut(req[r], Page(Filter(r), req[r].cursor, PageSize), PageSize))

(* The latest confirmed sales of the period.                                *)
ReadRecent(r) ==
    LET filter == [paid |-> TRUE, deleted |-> FALSE, moments |-> Period] IN
    Read(r, "recent", Cut(req[r], Page(filter, <<>>, Recent), Recent))

ReadHeader(r) ==
    \E step \in {"header", "any header", "deleted header"} :
        LET deleted == step = "header" => Principals[Session0(r)].superadmin IN
        Read(r, step, IF Found(SaleOf(r), deleted)
                      THEN [Then(req[r], <<>>) EXCEPT !.page = <<Header(SaleOf(r))>>]
                      ELSE Reply(req[r], "NOT_FOUND"))

(* loadTransactionItems; nothing is read for an empty page.                 *)
LoadItems(r) ==
    /\ Doing(r, "items")
    /\ req[r].page # <<>> => FreeConnections > 0
    /\ Update(r, [Then(req[r], <<>>) EXCEPT !.page = Hydrated(@)])
    /\ UNCHANGED <<plan, database, redis, slots, bounds>>

(* transactionView, for one header after the other.                         *)
View(r) ==
    /\ Doing(r, "views")
    /\ req[r].page # <<>> => FreeConnections > 0
    /\ Update(r, IF req[r].page = <<>> THEN Then(req[r], <<>>)
                 ELSE [req[r] EXCEPT !.shown = Append(@, Viewed(Head(req[r].page))),
                                     !.page = Tail(@)])
    /\ UNCHANGED <<plan, database, redis, slots, bounds>>

(* The base revision of a deletion, compared with what was read.            *)
CompareBase(r) ==
    /\ Doing(r, "base")
    /\ IF req[r].page[1].rev = Base(r) THEN Proceed(r) ELSE Answer(r, "REVISION_CONFLICT")
    /\ UNCHANGED <<plan, database, redis, slots, bounds>>

(* Requests that read while a sale changes; print attempts leave no trace.  *)
Noticed(requests, s, row) ==
    LET same == /\ sales[s] # NoSale
                /\ [row EXCEPT !.print = "pending", !.attempts = 0]
                    = [sales[s] EXCEPT !.print = "pending", !.attempts = 0]
    IN [r \in Request |-> IF same THEN requests[r] ELSE [requests[r] EXCEPT !.moved = @ \cup {s}]]

(* What the transaction of a handler may commit.                            *)
Outcomes(r, kind) ==
    LET sale == sales[SaleOf(r)] IN
    {row \in Committed(kind, sale) :
        kind \in {"correct", "settle", "print"} => Base(r) = Revision(sale)}

(* The handler's transaction, which also reads what it answers.             *)
Commit(r) ==
    LET s == SaleOf(r) IN
    \E kind \in Kind :
        /\ Queries(r, kind)
        /\ UNCHANGED <<plan, sessions, enabled, redis, slots, events, writes>>
        /\ \/ \E row \in Outcomes(r, kind) :
                /\ sales' = [sales EXCEPT ![s] = row]
                /\ LET answered == [HeaderOf(s, row) EXCEPT !.items = Last(row.lines)]
                       done == [Then(req[r], <<>>) EXCEPT !.page = <<answered>>]
                   IN \/ /\ req' = Noticed([req EXCEPT ![r] = done], s, row)
                         /\ UNCHANGED faults
                      \/ /\ Fault
                         /\ req' = Noticed([req EXCEPT ![r] = Reply(@, "INTERNAL_ERROR")], s, row)
           \/ /\ Outcomes(r, kind) = {}
              /\ Answer(r, "CONFLICT")
              /\ UNCHANGED <<sales, faults>>

(* The rows of the revisions stay open while the items of each one are      *)
(* read through another connection.                                         *)
OpenRevisions(r) ==
    Read(r, "open", [Then(req[r], <<>>) EXCEPT
                       !.cursorOpen = TRUE, !.left = 2 .. Revision(sales[SaleOf(r)])])

ReadRevision(r) ==
    LET left == req[r].left IN
    /\ Doing(r, "revision")
    /\ left # {} => FreeConnections > 0
    /\ Update(r, IF left = {} THEN [Then(req[r], <<>>) EXCEPT !.cursorOpen = FALSE]
                 ELSE [req[r] EXCEPT !.report = Append(@, RevisionItems(SaleOf(r), Min(left))),
                                     !.left = @ \ {Min(left)}])
    /\ UNCHANGED <<plan, database, redis, slots, bounds>>

(* The statements of the dashboard.                                         *)
ReadTotals(r) ==
    Read(r, "totals", [Then(req[r], <<>>) EXCEPT !.report = <<Totals(Period)>>])

ReadQuantities(r) ==
    Read(r, "quantities", [Then(req[r], <<>>) EXCEPT !.report = Append(@, PackageQuantities(Period))])

ReadTrend(r) ==
    Read(r, "trend", [Then(req[r], <<>>) EXCEPT !.report = Append(@, Trend(Period))])

(* The rows of an export.  Only a superadmin sees deleted sales.            *)
Export(r) == Read(r, "rows", [Then(req[r], <<>>) EXCEPT !.shown = ExportRows(Filter(r))])

(* The answer; a client that was told of more asks for the next page.       *)
Answered(r) ==
    /\ Doing(r, "answer")
    /\ LET q == [req[r] EXCEPT !.walked = @ \o [i \in DOMAIN req[r].shown |-> req[r].shown[i].sale]]
       IN Update(r, IF RouteOf(r) = "listTransactions" /\ q.more THEN Sent(r, q)
                    ELSE Reply(q, "OK"))
    /\ UNCHANGED <<plan, database, redis, slots, bounds>>

Step(r) ==
    \/ Arrive(r) \/ LookUp(r) \/ PrincipalBySession(r) \/ PrincipalByTokenHash(r)
    \/ Refuse(r) \/ Reindex(r) \/ Demands(r) \/ RequireSuperadmin(r)
    \/ Allow(r) \/ Expire(r) \/ ReadAccount(r) \/ TakeSlot(r) \/ GiveSlot(r)
    \/ Issue(r) \/ Rehash(r) \/ Revoke(r) \/ Exchange(r) \/ Authorize(r)
    \/ Statement(r) \/ Transact(r) \/ QueryFails(r)
    \/ ReadPage(r) \/ ReadRecent(r) \/ ReadHeader(r) \/ LoadItems(r) \/ View(r)
    \/ CompareBase(r) \/ Commit(r) \/ OpenRevisions(r) \/ ReadRevision(r)
    \/ ReadTotals(r) \/ ReadQuantities(r) \/ ReadTrend(r) \/ Export(r)
    \/ Answered(r)

-----------------------------------------------------------------------------
(***************************************************************************)
(* What happens while a request is not answered yet.                       *)
(***************************************************************************)
Underway == \E r \in DOMAIN plan.requests : req[r].answer = "none"

Happens == Underway /\ events < plan.events /\ events' = events + 1

(* A device synchronises a change, or another process serves it.            *)
DeviceCommits(s) ==
    /\ Underway /\ writes < plan.writes
    /\ writes' = writes + 1
    /\ \E kind \in Kind : \E row \in Committed(kind, sales[s]) :
          /\ sales' = [sales EXCEPT ![s] = row]
          /\ req' = Noticed(req, s, row)
    /\ UNCHANGED <<plan, sessions, enabled, redis, slots, faults, events>>

(* The reasons that may end a session.                                      *)
Endings(s) ==
    {"ended", "account_access_changed", "password_recovered"}
        \cup (IF Principals[s].mode = "account" THEN {}
              ELSE {"tenant_suspended", "terminal_revoked"})
        \cup (IF Principals[s].mode = "sandbox" THEN {"sandbox_generation_retired"} ELSE {})

(* A session ends, or its retired generation is left elsewhere; its account *)
(* or its tenant is switched off and on again.                              *)
RowsAfter(s) ==
    LET row == sessions[s] IN
    (IF row.reason = "none" THEN {[row EXCEPT !.reason = reason] : reason \in Endings(s)}
     ELSE IF row.reason = "sandbox_generation_retired" THEN {[row EXCEPT !.reason = "ended"]}
     ELSE {})
    \cup {[row EXCEPT !.account = ~@]}
    \cup (IF Principals[s].mode = "account" THEN {} ELSE {[row EXCEPT !.tenant = ~@]})

Elsewhere ==
    /\ Happens
    /\ \/ \E s \in Session : /\ sessions[s].reason # "unissued"
                              /\ \E row \in RowsAfter(s) :
                                     sessions' = [sessions EXCEPT ![s] = row]
                              /\ UNCHANGED enabled
       \/ enabled' = ~enabled /\ UNCHANGED sessions
    /\ req' = Observed(req, sessions', enabled')
    /\ UNCHANGED <<plan, sales, redis, slots, faults, writes>>

(* The window of the login limiter ends.                                   *)
WindowEnds ==
    /\ Happens /\ limiter.expires
    /\ limiter' = [count |-> 0, expires |-> FALSE]
    /\ UNCHANGED <<plan, req, database, index, slots, faults, writes>>

(* The index forgets a token.                                               *)
Evict ==
    /\ Happens
    /\ \E s \in index : index' = index \ {s}
    /\ UNCHANGED <<plan, req, database, limiter, slots, faults, writes>>

Init ==
    /\ plan \in Plans
    /\ req = [r \in Request |-> Fresh]
    /\ sessions = [s \in Session |->
                     [reason |-> IF s \in plan.live THEN "none" ELSE "unissued",
                      account |-> TRUE, tenant |-> TRUE]]
    /\ enabled = TRUE
    /\ index \in {{}, plan.live}
    /\ limiter = [count |-> 0, expires |-> FALSE]
    /\ slots = 0
    /\ sales = InitialSales
    /\ faults = 0 /\ events = 0 /\ writes = 0

Next ==
    \/ \E r \in Request : Step(r)
    \/ \E s \in Sale : DeviceCommits(s)
    \/ Elsewhere \/ Evict \/ WindowEnds

(* The process runs its requests, and storage answers.                      *)
Spec == Init /\ [][Next]_vars /\ \A r \in Request : WF_vars(Step(r))

-----------------------------------------------------------------------------
(***************************************************************************)
(* PROPERTIES.                                                             *)
(***************************************************************************)

(* A handler runs for a session only if the session had, at some moment     *)
(* since the request came in, a standing that admits it to the route, even  *)
(* when the index has its token, Redis is down or the account changes       *)
(* meanwhile; and a refusal names something that was true of the session    *)
(* since then.  A lost connection never reads as an invalid session         *)
(* (Auth.Authenticate, Server.authenticate, requireSandboxEnabled).         *)
AdmittedAsFound(r) ==
    \E standing \in req[r].seen :
        /\ \/ standing.verdict = "OK"
           \/ Recovers(RouteOf(r), Session0(r), standing.verdict)
        /\ \A i \in DOMAIN Routes[RouteOf(r)].demands :
               Meets(Session0(r), standing, Routes[RouteOf(r)].demands[i])

RefusedAsFound(r) ==
    LET found == {standing.verdict : standing \in req[r].seen} IN
    /\ req[r].answer = "UNAUTHORIZED" => "NOT_FOUND" \in found
    /\ req[r].answer \in TenantAccess \cup {Retired} => req[r].answer \in found

AuthenticationHonest ==
    \A r \in DOMAIN plan.requests :
        /\ req[r].admitted => AdmittedAsFound(r)
        /\ RefusedAsFound(r)

(* Every connection is held for revisions whose items need another one      *)
(* (ListTransactionRevisions, transaction_history.go:63).                   *)
Starved ==
    /\ FreeConnections = 0
    /\ \A r \in Request : req[r].cursorOpen => Doing(r, "revision") /\ req[r].left # {}

(* Every request is answered, also when passwords do not match, statements  *)
(* fail and clients leave, unless the pool is exhausted by readers of       *)
(* revisions: slots of the key derivation and connections are given back    *)
(* (password.go idKey, pgxpool).                                            *)
RequestsEnd == \A r \in Request : []<>(~Busy(r) \/ Starved)

(* A client that follows the cursor to the last page has met every sale     *)
(* that was there when it began and that nobody moved, corrected or deleted *)
(* since, exactly once, whatever is sold meanwhile; a sale that it met      *)
(* twice was changed in between (ListTransactions, EncodeCursor).           *)
WalksComplete ==
    \A r \in DOMAIN plan.requests :
        LET q == req[r]
            met(s) == Cardinality({i \in DOMAIN q.walked : q.walked[i] = s})
        IN RouteOf(r) = "listTransactions" =>
             /\ q.answer = "OK" => \A s \in q.expected \ q.moved : met(s) = 1
             /\ \A s \in Sale \ q.moved : met(s) <= 1

(* What an answer says agrees with itself although several statements read  *)
(* it while sales change: the lines of a sale add up to its total, a sale   *)
(* shown as printed has an attempt, revisions are complete and in order,    *)
(* and the figures of a dashboard agree when no sale changed since the      *)
(* request came in (loadTransactionItems, transactionView, Dashboard,       *)
(* ExportRows, ListTransactionRevisions).                                   *)
FiguresAgree(report) ==
    /\ report[1].gross = report[2]
    /\ report[1].gross = MapThenSumSet(LAMBDA m : report[3][m], Period)

AnswersWhole ==
    \A r \in Request : Doing(r, "answer") =>
        LET q == req[r] IN
        /\ \A i \in DOMAIN q.shown :
              /\ q.shown[i].items = q.shown[i].total
              /\ RouteOf(r) # "exportTransactions" /\ q.shown[i].print = "success"
                    => q.shown[i].attempts > 0
        /\ RouteOf(r) = "listRevisions" =>
              \A i \in DOMAIN q.report : q.report[i].rev = i + 1
        /\ RouteOf(r) = "dashboard" /\ q.moved = {} => FiguresAgree(q.report)
=============================================================================
