----------------------------- MODULE MCLockOrder -----------------------------
(***************************************************************************)
(* Two superadmins and two tenants for TLC.  Session 1 is the first        *)
(* account's in Production of tenant 1, session 2 the other account's in   *)
(* its Sandbox, bound to the terminal, session 3 the account session of    *)
(* that second account, session 4 its session in Production of tenant 2.   *)
(***************************************************************************)
EXTENDS LockOrder, TLC

CONSTANTS w1, w2, w3

MCHolder == [s \in 1 .. 4 |-> IF s = 1 THEN 1 ELSE 2]
MCHome   == [s \in 1 .. 4 |-> CASE s = 3 -> 0 [] s = 4 -> 2 [] OTHER -> 1]

Of(kind, s, whom, t) == [kind |-> kind, session |-> s, whom |-> whom, tenant |-> t]

(* Requests of superadmins, to tenant 1 but for the last. *)
Administrative ==
    {Of(kind, 1, 0, 0) : kind \in {"reset", "configure", "enroll", "revoke_terminal",
                                   "tenant_setting", "switch_mode"}}
        \cup {Of("tenant_status", 3, 0, 1), Of("tenant_status", 1, 0, 2),
              Of("tenant_name", 3, 0, 1), Of("create_tenant", 1, 0, 0)}

(* Requests of the second account's device. *)
OfDevice ==
    {Of(kind, 2, 0, 0) : kind \in {"mutation", "package", "revalidate", "switch_mode",
                                   "recover", "upgrade", "login", "logout"}}
        \cup {Of("switch_context", 2, 0, 2), Of("upgrade", 3, 0, 0)}

OfAccounts ==
    {Of("manage_account", 3, 2, 0), Of("manage_account", 1, 2, 0),
     Of("manage_account", 3, 1, 0),
     Of("own_password", 3, 0, 0), Of("own_password", 1, 0, 0),
     Of("own_profile", 3, 0, 0), Of("own_profile", 1, 0, 0), Of("create_account", 1, 0, 0),
     Of("operator", 0, 1, 0), Of("operator", 0, 2, 0),
     Of("first_superadmin", 0, 0, 0)}

OfServer == {Of("activate", 0, 0, 1), Of("purge", 0, 0, 0)}

MCRequest == Administrative \cup OfDevice \cup OfAccounts \cup OfServer

(* The upgrade of one session, sent twice. *)
UpgradeTwice == {Of("upgrade", 2, 0, 0)}

(* A password change from an account session, and a reset. *)
PasswordAndReset == {Of("own_password", 3, 0, 0), Of("reset", 1, 0, 0)}

WorkerSymmetry == Permutations(Worker)
=============================================================================
