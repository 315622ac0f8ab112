---------------------------- MODULE MCDeployment ----------------------------
(***************************************************************************)
(* Small instances of Deployment for TLC.                                  *)
(***************************************************************************)
EXTENDS Deployment

CONSTANTS p1, p2, p3, ana, budi, s1

MCManifest == [a \in {ana, budi} |-> IF a = ana THEN "superadmin" ELSE "admin"]

(* Jobs.                                                                    *)
Command(kind) ==
    [kind |-> kind, release |-> Latest, auto |-> FALSE, reset |-> FALSE, account |-> ana]
Api(release, auto) == [Command("api") EXCEPT !.release = release, !.auto = auto]
Seed(reset) == [Command("seed") EXCEPT !.reset = reset]
First(a) == [Command("first") EXCEPT !.account = a]
Team(x, y, z) == [p \in Process |-> IF p = p1 THEN x ELSE IF p = p2 THEN y ELSE z]

(* Replicas that start together; an older one that serves through an        *)
(* upgrade; commands at the same time, and with an upgrade.                 *)
MCJobs ==
    {Team(Api(Latest, TRUE), Api(Latest, TRUE), First(ana)),
     Team(Api(3, FALSE), Api(4, TRUE), Command("migrate")),
     Team(Api(6, FALSE), Api(Latest, FALSE), Command("migrate")),
     Team(First(ana), First(budi), Seed(FALSE)),
     Team(Seed(TRUE), Command("bootstrap"), Api(Latest, FALSE))}

(* Databases.                                                               *)
User(role, active, platform) ==
    [role |-> role, active |-> active, password |-> "old", must |-> FALSE,
     platform |-> platform, origin |-> "app"]

Empty ==
    [versions |-> {}, made |-> {}, seeded |-> FALSE,
     users |-> [a \in Account |-> NONE], members |-> [a \in Account |-> NONE],
     sessions |-> [a \in Account |-> "none"], sales |-> [s \in Sale |-> NONE],
     fed |-> [a \in Account |-> NONE]]

Paying(status, confirmed) ==
    [rev |-> 1, total |-> 1, seller |-> ana, amount |-> NONE, status |-> status,
     confirmed |-> confirmed]

(* One superadmin, one admin who was disabled, both with a session.         *)
Staffed(version) ==
    [Empty EXCEPT !.versions = 1..version, !.made = (1..version) \cap {4, 5, 6, 8, 9, 10},
                  !.seeded = TRUE,
                  !.users = [a \in Account |-> IF a = ana THEN User("superadmin", TRUE, FALSE)
                                               ELSE User("admin", FALSE, FALSE)],
                  !.sessions = [a \in Account |-> IF a = ana THEN "live" ELSE "revoked"]]

Selling(version, sale) == [Staffed(version) EXCEPT !.sales[s1] = sale]

(* Release 5 knew superadmins of the platform, whose role was admin.        *)
Tenants(version) ==
    [Staffed(version) EXCEPT
        !.users[ana] = User("admin", TRUE, TRUE),
        !.members = [a \in Account |-> IF a = ana THEN "admin" ELSE "inactive"],
        !.sales[s1] = [Paying("pending", NONE) EXCEPT !.amount = 1]]

Operated(version) ==
    [Tenants(version) EXCEPT
        !.users[ana] = User("superadmin", TRUE, TRUE),
        !.fed = [a \in Account |-> IF a = ana THEN Projection(User("superadmin", TRUE, TRUE))
                                   ELSE Projection(User("admin", FALSE, FALSE))]]

MCDatabases ==
    {Empty, Selling(1, Paying(NONE, NONE)), Selling(3, Paying("pending", NONE)),
     Selling(3, Paying("success", 1)), Tenants(5), Operated(6)}
=============================================================================
