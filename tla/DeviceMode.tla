----------------------------- MODULE DeviceMode -----------------------------
(***************************************************************************)
(* One device between its sessions: start-up, login and logout, the switch *)
(* between Production and Sandbox, the choice of a business, the upgrade   *)
(* of a session, the background task, the foreground sync and the recovery *)
(* of a session whose Sandbox generation the server has reset, with local  *)
(* writes, the release of quarantined operations and profile edits.        *)
(*                                                                         *)
(* The app has one thread: a step is what runs between two awaits.  Steps  *)
(* whose awaits nobody else's steps can tell apart are one.  A task is one *)
(* call of the function it is named after; each runs once at a time.       *)
(*                                                                         *)
(* One account with one business on the server, so sessions are of the     *)
(* account, of Production or of a Sandbox generation, and quarantine never *)
(* belongs to another actor.  An outbox is its operations that countPending*)
(* Outbox counts (ready) and those in quarantine (held): Outbox and        *)
(* SyncSystem say what they do.  Notices, the terminal's key and snapshots *)
(* of the user are left out.                                               *)
(***************************************************************************)
EXTENDS Naturals, FiniteSets

CONSTANTS
    Nobody,         \* no task
    Plans,          \* what may happen in one behaviour, and how often
    MaxSession,     \* bound on the sessions ever issued
    MaxGeneration   \* bound on the Sandbox generations ever started

VARIABLES
    auth,           \* useAuthStore
    scope,          \* useModeStore: whose data the screens address
    barrier,        \* the mutation barrier
    tasks,          \* where each task is, and what it has read
    current,        \* tasks whose sessionInvalidationEpoch is still the last
    flight,         \* the single flights: sync, recoveries, invalidations
    disk,           \* secure store and encrypted databases
    server,         \* the sessions as the server knows them
    budget          \* what is left of the plan, and what the properties ask
                    \* of the past: whether a login has started, or stored
                    \* its session, while another task was on its way to one
                    \* (crossed), whether something has failed (failed), and
                    \* the sessions that a start-up has read while their
                    \* invalidation was under way (late)

memory == <<auth, scope, barrier, tasks, current, flight>>
vars == <<memory, disk, server, budget>>

Task == {"hydrate", "background", "sync", "write", "revalidate", "profile",
         "login", "switchMode", "switchContext", "upgrade", "logout"}
Changer == {"switchMode", "switchContext", "upgrade", "logout"}
Event == {"reset", "revoke", "disable", "suspend"}

(* The tasks and events of a plan, and bounds on the tasks ever started,   *)
(* on what happens to the sessions at the server, on lost requests and     *)
(* failures of the storage, and on the ends of the app's process.          *)
Plan == [may : SUBSET (Task \cup Event),
         starts : Nat, events : Nat, faults : Nat, kills : Nat]

ASSUME DeviceAssumption ==
    /\ Nobody \notin Task
    /\ \A plan \in Plans : plan \in Plan
    /\ MaxSession \in Nat \ {0} /\ MaxGeneration \in Nat \ {0}

None == 0                       \* no session (null)
Session == 1 .. MaxSession
Store == {"production", "sandbox"}

Row(s) == server.rows[s]
Business(s) == s # None /\ Row(s).mode # "account"
InSandbox(s) == s # None /\ Row(s).mode = "sandbox"
Space(s) == <<Row(s).mode, Row(s).generation>>

-----------------------------------------------------------------------------
(***************************************************************************)
(* The server's side of a request: what it answers to a session, and to    *)
(* the exchange of a session for another one.  A session that a reset has  *)
(* retired is good for one more exchange, by switch-mode alone.            *)
(***************************************************************************)
Answer(s) ==
    IF Row(s).state = "live"
    THEN IF InSandbox(s) /\ ~server.enabled THEN "disabled"
         ELSE IF Business(s) /\ ~server.open THEN "suspended"
         ELSE "ok"
    ELSE IF Row(s).state = "retired" THEN "retired" ELSE "unauthorized"

ExchangeAnswer(t, s, mode) ==
    IF Row(s).state = "live" \/ (Row(s).state = "retired" /\ t # "switchContext"
                                                         /\ t # "upgrade" /\ t # "logout")
    THEN IF mode = "sandbox" /\ ~server.enabled THEN "disabled"
         ELSE IF mode \in Store /\ ~server.open THEN "suspended"
         ELSE "ok"
    ELSE Answer(s)

NextSession == server.issued + 1

NewRow(mode) ==
    [mode |-> mode, state |-> "live",
     generation |-> IF mode = "sandbox" THEN server.generation ELSE 0]

Exchanged(s, mode) ==
    [server EXCEPT !.issued = NextSession,
                   !.rows = [r \in Session |->
                       IF r = NextSession THEN NewRow(mode)
                       ELSE IF r = s THEN [Row(r) EXCEPT !.state = "ended"]
                       ELSE Row(r)]]

LoggedOut(s) == [server EXCEPT !.rows[s].state = "ended"]

-----------------------------------------------------------------------------
(***************************************************************************)
(* The device's storage.  One file holds the Sandbox, of whatever          *)
(* generation; 0 when it is absent or has no generation yet.               *)
(***************************************************************************)
(* clearLocalDatabase of the Sandbox *)
Cleared(d) ==
    [d EXCEPT !.generation = 0, !.outbox["sandbox"] = {}, !.barred["sandbox"] = FALSE]

(* prepareDatabaseForSession *)
Prepared(d, s) ==
    IF InSandbox(s) /\ d.generation # Row(s).generation
    THEN [Cleared(d) EXCEPT !.generation = Row(s).generation]
    ELSE d

Holding(d, s) == [d EXCEPT !.stored = s]

(* quarantineScope *)
Quarantined(d, s) ==
    IF ~Business(s) THEN d
    ELSE [d EXCEPT !.barred[Row(s).mode] = TRUE,
                   !.outbox[Row(s).mode] = IF @ = {} THEN @ ELSE {"held"}]

(* revalidateQuarantinedOperations, when the server allows the origins *)
Released(d, s) ==
    [d EXCEPT !.outbox[Row(s).mode] = IF @ = {} THEN @ ELSE {"ready"}]

Ready(s) == "ready" \in disk.outbox[Row(s).mode]

(* blockedScopeReason *)
Barred(s) == disk.barred[Row(s).mode]

(* setModeFromSession *)
ScopeOf(s) == [of |-> s, blocked |-> FALSE]

(* exposeSession *)
Exposed(a, s, broken) == [a EXCEPT !.session = s, !.broken = broken]

-----------------------------------------------------------------------------
(***************************************************************************)
(* The mutation barrier, and the end of a task, which gives back what the  *)
(* task holds of it.                                                       *)
(***************************************************************************)
Idle == [pc |-> "idle", mine |-> None, target |-> "none", next |-> None,
         answer |-> "none", then |-> "none"]

Goto(t, task) == tasks' = [tasks EXCEPT ![t] = task]

Admitting == barrier.transition = Nobody

(* Mutant of Drained: the transition does not wait for local access. *)
DrainedAtOnce == TRUE

Drained == barrier.leases = {}

Leased(t) == [barrier EXCEPT !.leases = @ \cup {t}]

(* Mutant of Yielded: local access is kept for the recovery. *)
KeptLease(t) == barrier

Yielded(t) == [barrier EXCEPT !.leases = @ \ {t}]
Closed(t) == [barrier EXCEPT !.transition = t]
Opened(t) == [barrier EXCEPT !.transition = IF @ = t THEN Nobody ELSE @]
Given(t) == [leases |-> barrier.leases \ {t}, transition |-> Opened(t).transition]

(* switchingMode is reset by the task that has set it. *)
Switched(t, a) == [a EXCEPT !.switching = IF @ = t THEN Nobody ELSE @]

Ends(t, a) ==
    /\ Goto(t, Idle)
    /\ current' = current \ {t}
    /\ barrier' = Given(t)
    /\ auth' = Switched(t, a)

Crosses(t) == budget.crossed \/ (t = "login" /\ auth.switching # Nobody)

Ending(s) == flight.ending[s] \notin {"none", "done"}

Late(t) ==
    IF t = "hydrate" /\ disk.stored # None /\ Ending(disk.stored)
    THEN budget.late \cup {disk.stored} ELSE budget.late

CanStart(t) ==
    /\ t \in budget.may
    /\ budget.starts > 0
    /\ tasks[t].pc = "idle"
    /\ budget' = [budget EXCEPT !.starts = @ - 1, !.crossed = Crosses(t), !.late = Late(t)]

Fault ==
    /\ budget.faults > 0
    /\ budget' = [budget EXCEPT !.faults = @ - 1, !.failed = TRUE]

-----------------------------------------------------------------------------
(***************************************************************************)
(* A refused request is reported to handleAccessFailure before the error   *)
(* is thrown.  A token that is not accepted any more starts the            *)
(* invalidation of its session, once; the requester goes on when that has  *)
(* ended.  f and d are the single flights and the storage it leaves.       *)
(***************************************************************************)
(* The session that the token belongs to must be shown, or stored while   *)
(* the app has not started up yet.                                        *)
Invalidates(s) ==
    /\ ~Ending(s)
    /\ \/ auth.session = s
       \/ auth.session = None /\ auth.booting /\ disk.stored = s

Locked(a) == [a EXCEPT !.locked = TRUE]

Reported(s, answer, f, d) ==
    IF answer = "unauthorized" /\ Invalidates(s)
    THEN /\ flight' = [f EXCEPT !.ending[s] = "marking", !.last = s,
                                !.headless[s] = (auth.session = None)]
         /\ current' = {}
         /\ scope' = [scope EXCEPT !.blocked = TRUE]
         /\ auth' = Locked(auth)
         /\ disk' = d
    ELSE IF answer = "suspended" /\ auth.session = s /\ Business(s)
    THEN /\ scope' = [scope EXCEPT !.blocked = TRUE]
         /\ auth' = Locked(auth)
         /\ disk' = Quarantined(d, s)
         /\ flight' = f
         /\ UNCHANGED current
    ELSE /\ scope' = [scope EXCEPT !.blocked =
                          @ \/ (answer = "disabled" /\ auth.session = s /\ InSandbox(s))]
         /\ disk' = d
         /\ flight' = f
         /\ UNCHANGED <<auth, current>>

(* stillCurrent of invalidateSession *)
StillEnding(s) ==
    \/ auth.session = s
    \/ flight.headless[s] /\ auth.session = None /\ flight.last = s

EndingGoes(s, stage) == flight' = [flight EXCEPT !.ending[s] = stage]

(* The operations of the scope are put in quarantine. *)
EndingMarks(s) ==
    /\ flight.ending[s] = "marking"
    /\ \/ /\ disk' = Quarantined(disk, s)
          /\ EndingGoes(s, IF StillEnding(s) THEN "clearing" ELSE "none")
          /\ UNCHANGED <<auth, budget>>
       \/ /\ Fault
          /\ auth' = [auth EXCEPT !.broken = @ \/ StillEnding(s)]
          /\ EndingGoes(s, "none")
          /\ UNCHANGED disk
    /\ UNCHANGED <<scope, barrier, tasks, current, server>>

(* clearSession(token): only if that is still the stored session. *)
EndingClears(s) ==
    /\ flight.ending[s] = "clearing"
    /\ disk' = IF disk.stored = s THEN Holding(disk, None) ELSE disk
    /\ IF StillEnding(s)
       THEN /\ auth' = [auth EXCEPT !.session = None, !.locked = FALSE, !.broken = FALSE]
            /\ scope' = ScopeOf(None)
            /\ EndingGoes(s, "done")
       ELSE EndingGoes(s, "none") /\ UNCHANGED <<auth, scope>>
    /\ UNCHANGED <<barrier, tasks, current, server, budget>>

(* A task's own view: the invalidation its request started has ended. *)
Settled(s) == ~Ending(s)

-----------------------------------------------------------------------------
(***************************************************************************)
(* runSync: one at a time.  The same session joins the one that runs,      *)
(* another one waits for its end.  It pushes what is ready, pulls, and     *)
(* applies the rows; an operation in conflict or rejected stays.           *)
(***************************************************************************)
NoSync == [of |-> None, stage |-> "idle", answer |-> "none"]

SyncOf(t) == IF tasks[t].next # None THEN tasks[t].next ELSE tasks[t].mine

Synced(stage, answer) ==
    [flight EXCEPT !.sync.stage = stage, !.sync.answer = answer]

FirstStage(s) ==
    IF Barred(s) THEN "failed" ELSE IF Ready(s) THEN "push" ELSE "pull"

RunSync(t) ==
    LET s == SyncOf(t) IN
    /\ tasks[t].pc = "sync"
    /\ flight.sync.of \in {None, s}
    /\ Goto(t, [tasks[t] EXCEPT !.pc = "syncing"])
    /\ flight' = IF flight.sync.of = s THEN flight
                 ELSE [flight EXCEPT !.sync = [of |-> s, stage |-> FirstStage(s),
                                               answer |-> "blocked"]]
    /\ UNCHANGED <<auth, scope, barrier, current, disk, server, budget>>

SyncLost ==
    /\ flight.sync.stage \in {"push", "pull"}
    /\ Fault
    /\ flight' = Synced("failed", "lost")
    /\ UNCHANGED <<auth, scope, barrier, tasks, current, disk, server>>

SyncRefused ==
    LET s == flight.sync.of IN
    /\ flight.sync.stage \in {"push", "pull"}
    /\ Answer(s) # "ok"
    /\ Reported(s, Answer(s), Synced("failed", Answer(s)),
                IF Answer(s) = "suspended" THEN Quarantined(disk, s) ELSE disk)
    /\ UNCHANGED <<barrier, tasks, server, budget>>

SyncPushed ==
    LET s == flight.sync.of IN
    /\ flight.sync.stage = "push"
    /\ Answer(s) = "ok"
    /\ \E left \in {{}, {"ready"}} :
          disk' = [disk EXCEPT !.outbox[Row(s).mode] = (@ \ {"ready"}) \cup left]
    /\ flight' = Synced("pull", "none")
    /\ UNCHANGED <<auth, scope, barrier, tasks, current, server, budget>>

SyncPulled ==
    /\ flight.sync.stage = "pull"
    /\ Answer(flight.sync.of) = "ok"
    /\ flight' = Synced("apply", "ok")
    /\ UNCHANGED <<auth, scope, barrier, tasks, current, disk, server, budget>>

(* Everybody who waits for this sync goes on with its outcome. *)
SyncEnds ==
    /\ flight.sync.stage \in {"apply", "failed"}
    /\ Settled(flight.sync.of)
    /\ tasks' = [t \in Task |->
          IF tasks[t].pc = "syncing"
          THEN [tasks[t] EXCEPT !.pc = tasks[t].then, !.answer = flight.sync.answer]
          ELSE tasks[t]]
    /\ flight' = [flight EXCEPT !.sync = NoSync]
    /\ UNCHANGED <<auth, scope, barrier, current, disk, server, budget>>

Syncing(task, then) == [task EXCEPT !.pc = "sync", !.then = then, !.answer = "none"]

-----------------------------------------------------------------------------
(***************************************************************************)
(* hydrate, the start-up of the app's user interface.                      *)
(***************************************************************************)
HydrateBegin ==
    /\ CanStart("hydrate")
    /\ auth.booting
    /\ Admitting
    /\ barrier' = Leased("hydrate")
    /\ current' = current \cup {"hydrate"}
    /\ Goto("hydrate", [Idle EXCEPT !.pc = "reading", !.mine = disk.stored])
    /\ UNCHANGED <<auth, scope, flight, disk, server>>

Booted(a) == [a EXCEPT !.booting = FALSE]

HydratePrepare ==
    LET t == "hydrate" s == tasks[t].mine IN
    /\ tasks[t].pc = "reading"
    /\ \/ /\ t \notin current
          /\ Ends(t, Booted(auth))
          /\ UNCHANGED <<scope, disk, budget>>
       \/ /\ t \in current
          /\ scope' = ScopeOf(s)
          /\ disk' = Prepared(disk, s)
          /\ Goto(t, [tasks[t] EXCEPT !.pc = "prepared"])
          /\ UNCHANGED <<auth, barrier, current, budget>>
       \/ /\ t \in current
          /\ Business(s)
          /\ Fault
          /\ scope' = ScopeOf(s)
          /\ Ends(t, [Booted(auth) EXCEPT !.broken = TRUE])
          /\ UNCHANGED disk
    /\ UNCHANGED <<flight, server>>

(* No task is on its way to another session. *)
Unswitched == auth.switching = Nobody

(* Whether the scope is barred is read, and is old when it is used. *)
HydrateBlock ==
    LET t == "hydrate"
        barred == Business(tasks[t].mine) /\ Barred(tasks[t].mine)
    IN
    /\ tasks[t].pc = "prepared"
    /\ \/ /\ t \notin current
          /\ Ends(t, Booted(auth))
          /\ UNCHANGED scope
       \/ /\ t \in current
          /\ scope' = [scope EXCEPT !.blocked = barred]
          /\ Goto(t, [tasks[t] EXCEPT !.pc = "checked",
                                      !.answer = IF barred THEN "barred" ELSE "none"])
          /\ UNCHANGED <<auth, barrier, current>>
    /\ UNCHANGED <<flight, disk, server, budget>>

HydrateExpose ==
    LET t == "hydrate" shown == Exposed(Booted(auth), tasks[t].mine, FALSE) IN
    /\ tasks[t].pc = "checked"
    /\ Ends(t, IF t \in current /\ Unswitched
               THEN [shown EXCEPT !.locked = tasks[t].answer = "barred"]
               ELSE Booted(auth))
    /\ UNCHANGED <<scope, flight, disk, server, budget>>

-----------------------------------------------------------------------------
(***************************************************************************)
(* The background task, which needs no user interface, and syncNow.        *)
(***************************************************************************)
BackgroundBegin ==
    /\ CanStart("background")
    /\ Admitting
    /\ barrier' = Leased("background")
    /\ Goto("background", [Idle EXCEPT !.pc = "woken"])
    /\ UNCHANGED <<auth, scope, current, flight, disk, server>>

BackgroundPrepare ==
    LET t == "background" s == disk.stored IN
    /\ tasks[t].pc = "woken"
    /\ IF Business(s) /\ ~auth.locked
       THEN /\ scope' = ScopeOf(s)
            /\ disk' = Prepared(disk, s)
            /\ IF Prepared(disk, s).barred[Row(s).mode]
               THEN Ends(t, auth)
               ELSE /\ Goto(t, Syncing([tasks[t] EXCEPT !.mine = s], "synced"))
                    /\ UNCHANGED <<auth, barrier, current>>
       ELSE Ends(t, auth) /\ UNCHANGED <<scope, disk>>
    /\ UNCHANGED <<flight, server, budget>>

SyncNow ==
    /\ CanStart("sync")
    /\ Business(auth.session)
    /\ ~auth.locked
    /\ Unswitched
    /\ Admitting
    /\ barrier' = Leased("sync")
    /\ Goto("sync", Syncing([Idle EXCEPT !.mine = auth.session], "synced"))
    /\ UNCHANGED <<auth, scope, current, flight, disk, server>>

(* capturedSessionIsActive *)
StillShown(t) == Unswitched /\ auth.session = tasks[t].mine

TaskSynced(t) ==
    /\ tasks[t].pc = "synced"
    /\ t \in {"background", "sync"}
    /\ IF tasks[t].answer = "retired"
       THEN /\ barrier' = Yielded(t)
            /\ Goto(t, [tasks[t] EXCEPT !.pc = "checking"])
            /\ UNCHANGED <<auth, current>>
       ELSE IF t = "sync" /\ tasks[t].answer = "ok" /\ StillShown(t)
       THEN /\ Goto(t, [tasks[t] EXCEPT !.pc = "refreshing", !.next = disk.stored])
            /\ UNCHANGED <<auth, barrier, current>>
       ELSE Ends(t, auth)
    /\ UNCHANGED <<scope, flight, disk, server, budget>>

(* The stored copy of the session is shown if it is still this session's. *)
Refreshed(t) ==
    IF StillShown(t) /\ tasks[t].next = tasks[t].mine
    THEN [auth EXCEPT !.session = tasks[t].next]
    ELSE auth

SyncExpose ==
    /\ tasks["sync"].pc = "refreshing"
    /\ Ends("sync", Refreshed("sync"))
    /\ UNCHANGED <<scope, flight, disk, server, budget>>

-----------------------------------------------------------------------------
(***************************************************************************)
(* recoverRetiredSandboxGeneration: one recovery for a retired session,    *)
(* kept with its result for as long as the process lives.  A task that has *)
(* the transition already (switchMode) goes on with it, the others ask for *)
(* one.  Everybody shown out first; the databases change behind nobody.    *)
(***************************************************************************)
NoRecovery == [stage |-> "none", target |-> "none", result |-> None, posts |-> 0]

RecoveryOf(t) == flight.recovery[tasks[t].mine]

RecoveryGoes(t, stage, result) ==
    [flight EXCEPT !.recovery[tasks[t].mine].stage = stage,
                   !.recovery[tasks[t].mine].result = result]

Entered(s, stage, target) ==
    [flight EXCEPT !.recovery[s].stage = stage, !.recovery[s].target = target]

(* Mutant of Unrecovered: what a recovery has come to is not kept. *)
NotRecovering(s) == flight.recovery[s].stage \notin {"waiting", "started"}

Unrecovered(s) == flight.recovery[s].stage = "none"

(* The session whose generation is gone must be the stored one, or the     *)
(* shown one, before anything is done about it.                            *)
StillMine(t) ==
    IF t = "background"
    THEN disk.stored = tasks[t].mine
    ELSE auth.session = tasks[t].mine

RecoveryCheck(t) ==
    LET s == tasks[t].mine IN
    /\ tasks[t].pc = "checking"
    /\ \/ /\ \/ ~StillMine(t)
             \/ ~Unswitched /\ Unrecovered(s)
             \/ Unswitched /\ auth.session \notin {None, s}
          /\ Ends(t, auth)
          /\ UNCHANGED flight
       \/ /\ StillMine(t)
          /\ ~Unswitched
          /\ ~Unrecovered(s)
          /\ Goto(t, [tasks[t] EXCEPT !.pc = "joining"])
          /\ UNCHANGED <<auth, barrier, current, flight>>
       \/ /\ StillMine(t)
          /\ Unswitched
          /\ auth.session \in {None, s}
          /\ auth' = [Exposed(auth, None, FALSE) EXCEPT !.switching = t]
          /\ IF Unrecovered(s)
             THEN /\ barrier' = Closed(t)
                  /\ flight' = Entered(s, "waiting", "sandbox")
                  /\ Goto(t, [tasks[t] EXCEPT !.pc = "draining", !.target = "sandbox"])
             ELSE /\ Goto(t, [tasks[t] EXCEPT !.pc = "awaiting", !.target = "sandbox"])
                  /\ UNCHANGED <<barrier, flight>>
          /\ UNCHANGED current
    /\ UNCHANGED <<scope, disk, server, budget>>

(* activeRetiredSandboxRecovery: whatever becomes of it. *)
RecoveryJoined(t) ==
    /\ tasks[t].pc = "joining"
    /\ RecoveryOf(t).stage \in {"none", "done", "failed"}
    /\ Ends(t, auth)
    /\ UNCHANGED <<scope, flight, disk, server, budget>>

(* What the recovery has come to is shown by the task that goes on with it.*)
Shows(t, s) == Ends(t, Exposed(auth, s, FALSE))

RecoveryAwaited(t) ==
    LET r == RecoveryOf(t)
        kept == r.stage = "done" /\ r.target = tasks[t].target
    IN
    /\ tasks[t].pc = "awaiting"
    /\ r.stage \in {"done", "failed"}
    /\ Shows(t, IF kept THEN r.result ELSE None)
    /\ scope' = IF kept /\ t \in Changer THEN ScopeOf(r.result) ELSE scope
    /\ UNCHANGED <<flight, disk, server, budget>>

RecoverDrained(t) ==
    /\ tasks[t].pc = "draining"
    /\ t \notin Changer
    /\ Drained
    /\ flight' = RecoveryGoes(t, "started", None)
    /\ scope' = ScopeOf(None)
    /\ Goto(t, [tasks[t] EXCEPT !.pc = "recovering"])
    /\ UNCHANGED <<auth, barrier, current, disk, server, budget>>

RecoverClear(t) ==
    /\ tasks[t].pc = "recovering"
    /\ \/ /\ disk' = Cleared(disk)
          /\ Goto(t, [tasks[t] EXCEPT !.pc = "rotating"])
          /\ UNCHANGED budget
       \/ /\ Fault
          /\ Goto(t, [tasks[t] EXCEPT !.pc = "unrotated"])
          /\ UNCHANGED disk
    /\ UNCHANGED <<auth, scope, barrier, current, flight, server>>

Posted(t) == [flight EXCEPT !.recovery[tasks[t].mine].posts = @ + 1]

(* The exchange that the server allows a retired session once. *)
RecoverPost(t) ==
    LET s == tasks[t].mine
        answer == ExchangeAnswer(t, s, tasks[t].target)
    IN
    /\ tasks[t].pc = "rotating"
    /\ \/ /\ answer = "ok"
          /\ server.issued < MaxSession
          /\ server' = Exchanged(s, tasks[t].target)
          /\ flight' = Posted(t)
          /\ \/ /\ Goto(t, [tasks[t] EXCEPT !.pc = "rotated", !.next = NextSession])
                /\ UNCHANGED budget
             \/ /\ Fault
                /\ Goto(t, [tasks[t] EXCEPT !.pc = "unrotated"])
          /\ UNCHANGED <<auth, scope, current, disk>>
       \/ /\ Fault
          /\ flight' = Posted(t)
          /\ Goto(t, [tasks[t] EXCEPT !.pc = "unrotated"])
          /\ UNCHANGED <<auth, scope, current, disk, server>>
       \/ /\ answer # "ok"
          /\ Reported(s, answer, Posted(t), disk)
          /\ Goto(t, [tasks[t] EXCEPT !.pc = "unrotated"])
          /\ UNCHANGED <<server, budget>>
    /\ UNCHANGED barrier

(* The new session is stored and its database made before it is synced. *)
RecoverPersist(t) ==
    LET s == tasks[t].next IN
    /\ tasks[t].pc = "rotated"
    /\ \/ /\ disk' = Holding(Prepared(disk, s), s)
          /\ scope' = ScopeOf(s)
          /\ Goto(t, Syncing(tasks[t], "resynced"))
          /\ UNCHANGED budget
       \/ /\ Fault
          /\ \E durable \in {disk.stored, s} : disk' = Holding(disk, durable)
          /\ Goto(t, [tasks[t] EXCEPT !.pc = "unrotated"])
          /\ UNCHANGED scope
    /\ UNCHANGED <<auth, barrier, current, flight, server>>

(* The transition is given back and the session shown with no await for    *)
(* anything but what has ended.                                            *)
RecoverDone(t) ==
    LET s == tasks[t].next IN
    /\ tasks[t].pc = "resynced"
    /\ tasks[t].answer = "ok"
    /\ flight' = RecoveryGoes(t, "done", s)
    /\ Shows(t, s)
    /\ scope' = IF t \in Changer THEN ScopeOf(s) ELSE scope
    /\ UNCHANGED <<disk, server, budget>>

(* Whatever went wrong, the operator has to log in again.  Failures of the *)
(* cleaning are not told to anybody.                                       *)
RecoverFail(t) ==
    /\ \/ tasks[t].pc = "resynced" /\ tasks[t].answer # "ok"
       \/ tasks[t].pc = "unrotated" /\ Settled(tasks[t].mine)
    /\ scope' = ScopeOf(None)
    /\ \/ disk' = Holding(Cleared(disk), None) /\ UNCHANGED budget
       \/ disk' = Cleared(disk) /\ Fault
    /\ flight' = RecoveryGoes(t, "failed", None)
    /\ Shows(t, None)
    /\ UNCHANGED server

-----------------------------------------------------------------------------
(***************************************************************************)
(* switchMode, switchContext, upgradeSession and logout: the transition is *)
(* asked for, what is local is sent, and the session given up for another  *)
(* one, or for none.                                                       *)
(***************************************************************************)
Targets(t) ==
    CASE t = "switchMode"    -> Store \ {Row(auth.session).mode}
      [] t = "switchContext" -> {"account", "production"}
      [] t = "upgrade"       -> {Row(auth.session).mode}
      [] t = "logout"        -> {"none"}

ChangeBegin(t) ==
    /\ CanStart(t)
    /\ auth.session # None
    /\ Unswitched
    /\ t = "switchMode" => Business(auth.session)
    /\ t \in {"switchMode", "upgrade"} => ~auth.locked
    /\ Admitting
    /\ auth' = [auth EXCEPT !.switching = t]
    /\ barrier' = Closed(t)
    /\ \E mode \in Targets(t) :
          Goto(t, [Idle EXCEPT !.pc = "draining", !.mine = auth.session, !.target = mode])
    /\ UNCHANGED <<scope, current, flight, disk, server>>

(* A locked scope is left without a sync, except by the two that refuse it.*)
SyncsFirst(t) ==
    Business(tasks[t].mine) /\ (auth.locked => t \in {"switchMode", "upgrade"})

ChangeDrained(t) ==
    /\ tasks[t].pc = "draining"
    /\ t \in Changer
    /\ Drained
    /\ \/ /\ Goto(t, IF SyncsFirst(t)
                     THEN Syncing(tasks[t], "changing")
                     ELSE [tasks[t] EXCEPT !.pc = "posting"])
          /\ UNCHANGED <<auth, barrier, current, budget>>
       \/ Fault /\ Ends(t, auth)    \* no connection
    /\ UNCHANGED <<scope, flight, disk, server>>

(* A disabled Sandbox is left with its outbox, which stays on the device.  *)
LeavesOutbox(t) ==
    /\ t = "switchMode"
    /\ tasks[t].answer = "disabled"
    /\ InSandbox(tasks[t].mine)

(* Mutant of Complete: nobody counts what the sync has left in the outbox. *)
CompleteAfterSync(t) == tasks[t].answer = "ok" \/ LeavesOutbox(t)

Complete(t) ==
    \/ tasks[t].answer = "ok" /\ ~Ready(tasks[t].mine)
    \/ LeavesOutbox(t)

ChangeSynced(t) ==
    /\ tasks[t].pc = "changing"
    /\ Goto(t, [tasks[t] EXCEPT !.pc = IF Complete(t) THEN "posting" ELSE "refused"])
    /\ UNCHANGED <<auth, scope, barrier, current, flight, disk, server, budget>>

Rotation(t) ==
    IF t = "logout" THEN LoggedOut(tasks[t].mine)
    ELSE Exchanged(tasks[t].mine, tasks[t].target)

PostAnswer(t) ==
    IF t = "logout"
    THEN LET answer == Answer(tasks[t].mine) IN
         IF answer \in {"disabled", "suspended"} THEN "ok" ELSE answer
    ELSE ExchangeAnswer(t, tasks[t].mine, tasks[t].target)

ChangePost(t) ==
    LET s == tasks[t].mine
        refused == [tasks[t] EXCEPT !.pc = "refused", !.answer = "lost"]
    IN
    /\ tasks[t].pc = "posting"
    /\ \/ /\ PostAnswer(t) = "ok"
          /\ t # "logout" => server.issued < MaxSession
          /\ server' = Rotation(t)
          /\ \/ /\ Goto(t, [tasks[t] EXCEPT !.pc = "issued",
                               !.next = IF t = "logout" THEN None ELSE NextSession])
                /\ UNCHANGED budget
             \/ Fault /\ Goto(t, refused)
          /\ UNCHANGED <<auth, scope, current, disk, flight>>
       \/ /\ Fault
          /\ Goto(t, refused)
          /\ UNCHANGED <<auth, scope, current, disk, flight, server>>
       \/ /\ PostAnswer(t) # "ok"
          /\ Reported(s, PostAnswer(t), flight, disk)
          /\ Goto(t, [tasks[t] EXCEPT !.pc = "refused", !.answer = PostAnswer(t)])
          /\ UNCHANGED <<server, budget>>
    /\ UNCHANGED barrier

(***************************************************************************)
(* An error ends a change.  switchMode recovers a retired session, logout  *)
(* clears it away (retireSandboxSession), the others leave it.             *)
(***************************************************************************)
Refused(t) ==
    LET s == tasks[t].mine
        retired == tasks[t].answer = "retired" /\ InSandbox(s)
    IN
    /\ tasks[t].pc = "refused"
    /\ Settled(s)
    /\ \/ /\ t = "logout" /\ retired
          /\ Ends(t, Exposed(auth, None, FALSE))
          /\ scope' = ScopeOf(None)
          /\ \/ disk' = Holding(Cleared(disk), None) /\ UNCHANGED budget
             \/ disk' = Cleared(disk) /\ Fault
          /\ UNCHANGED flight
       \/ /\ t = "switchMode" /\ retired
          /\ auth' = Exposed(auth, None, FALSE)
          /\ IF Unrecovered(s)
             THEN /\ flight' = Entered(s, "started", tasks[t].target)
                  /\ scope' = ScopeOf(None)
                  /\ Goto(t, [tasks[t] EXCEPT !.pc = "recovering"])
             ELSE /\ Goto(t, [tasks[t] EXCEPT !.pc = "awaiting"])
                  /\ UNCHANGED <<scope, flight>>
          /\ UNCHANGED <<barrier, current, disk, budget>>
       \/ /\ ~(retired /\ t \in {"logout", "switchMode"})
          /\ Ends(t, auth)
          /\ UNCHANGED <<scope, disk, flight, budget>>
    /\ UNCHANGED server

LogoutDone ==
    LET t == "logout" s == tasks[t].mine IN
    /\ tasks[t].pc = "issued"
    /\ \/ /\ disk' = IF disk.stored = s THEN Holding(disk, None) ELSE disk
          /\ IF auth.session = s
             THEN /\ Ends(t, [Exposed(auth, None, FALSE) EXCEPT !.locked = FALSE])
                  /\ scope' = ScopeOf(None)
             ELSE Ends(t, auth) /\ UNCHANGED scope
          /\ UNCHANGED budget
       \/ /\ Fault
          /\ Ends(t, Exposed(auth, None, TRUE))
          /\ scope' = ScopeOf(None)
          /\ UNCHANGED disk
    /\ UNCHANGED <<flight, server>>

-----------------------------------------------------------------------------
(***************************************************************************)
(* switchMode into its new session, which is shown after its first sync.   *)
(***************************************************************************)
SwitchPersist ==
    LET t == "switchMode" s == tasks[t].next IN
    /\ tasks[t].pc = "issued"
    /\ \/ /\ disk' = Holding(Prepared(disk, s), s)
          /\ Goto(t, Syncing(tasks[t], "entered"))
          /\ UNCHANGED <<auth, scope, barrier, current, budget>>
       \/ /\ Fault    \* the session cannot be stored, or its database not opened
          /\ disk' \in {Holding(Prepared(disk, s), None), Holding(disk, s)}
          /\ scope' = ScopeOf(s)
          /\ Ends(t, Exposed(auth, s, TRUE))
    /\ UNCHANGED <<flight, server>>

SwitchEntered ==
    LET t == "switchMode"
        s == tasks[t].next
        retired == tasks[t].answer = "retired" /\ InSandbox(s)
    IN
    /\ tasks[t].pc = "entered"
    /\ \/ /\ tasks[t].answer # "unauthorized"
          /\ ~retired
          /\ scope' = ScopeOf(s)
          /\ Ends(t, Exposed(auth, s, FALSE))
          /\ UNCHANGED flight
       \/ /\ tasks[t].answer = "unauthorized"
          /\ IF auth.session = tasks[t].mine
             THEN /\ auth' = Locked(Exposed(auth, s, FALSE))
                  /\ scope' = [ScopeOf(s) EXCEPT !.blocked = TRUE]
                  /\ current' = {}
                  /\ flight' = [flight EXCEPT !.ending[s] = "marking", !.last = s,
                                              !.headless[s] = FALSE]
             ELSE UNCHANGED <<auth, scope, current, flight>>
          /\ Goto(t, [tasks[t] EXCEPT !.pc = "refused", !.mine = s])
          /\ UNCHANGED barrier
       \/ /\ retired
          /\ auth' = Exposed(auth, None, FALSE)
          /\ scope' = ScopeOf(None)
          /\ flight' = Entered(s, "started", tasks[t].target)
          /\ Goto(t, [tasks[t] EXCEPT !.pc = "recovering", !.mine = s, !.next = None])
          /\ UNCHANGED <<barrier, current>>
    /\ UNCHANGED <<disk, server, budget>>

-----------------------------------------------------------------------------
(***************************************************************************)
(* persistSession: stored first, then its database is prepared, then it is *)
(* shown; unless an invalidation has come in between.                      *)
(***************************************************************************)
Persists(t) ==
    \/ tasks[t].pc = "persisting"
    \/ tasks[t].pc = "issued" /\ t \in {"switchContext", "upgrade"}

(* An edited profile is kept only for the session that is still shown. *)
Wanted(t, s) ==
    /\ Settled(s)
    /\ t = "profile" => auth.session = s /\ ~auth.locked

PersistWrite(t) ==
    LET s == SyncOf(t) IN
    /\ Persists(t)
    /\ \/ /\ ~Wanted(t, s)
          /\ Ends(t, auth)
          /\ UNCHANGED <<scope, disk, budget>>
       \/ /\ Wanted(t, s)
          /\ disk' = Holding(disk, s)
          /\ current' = current \cup {t}
          /\ Goto(t, [tasks[t] EXCEPT !.pc = "written"])
          /\ budget' = [budget EXCEPT !.crossed = Crosses(t)]
          /\ UNCHANGED <<auth, scope, barrier>>
       \/ /\ Wanted(t, s)
          /\ budget.faults > 0
          /\ budget' = [budget EXCEPT !.faults = @ - 1, !.failed = TRUE,
                                      !.crossed = Crosses(t)]
          /\ scope' = ScopeOf(s)
          /\ Ends(t, Exposed(auth, s, TRUE))
          /\ UNCHANGED disk
    /\ UNCHANGED <<flight, server>>

(* Mutant of StillValid: nobody asks whether the session was ended since.  *)
ValidAnyway(t, s) == TRUE

StillValid(t, s) == t \in current /\ Settled(s)

(* markScopeRevalidated, when the business has been chosen again. *)
Revalidated(t, d, s) ==
    IF t = "switchContext" /\ Business(s)
    THEN [d EXCEPT !.barred[Row(s).mode] = FALSE]
    ELSE d

Entering(t, s) ==
    [Exposed(auth, s, FALSE) EXCEPT !.locked = @ /\ t \notin {"login", "switchContext"}]

PersistExpose(t) ==
    LET s == SyncOf(t) IN
    /\ tasks[t].pc = "written"
    /\ \/ /\ ~StillValid(t, s)
          /\ Ends(t, auth)
          /\ UNCHANGED <<scope, disk, budget>>
       \/ /\ StillValid(t, s)
          /\ disk' = Revalidated(t, Prepared(disk, s), s)
          /\ scope' = ScopeOf(s)
          /\ IF t \in {"switchContext", "upgrade"} /\ Business(s)
             THEN /\ auth' = Entering(t, s)
                  /\ Goto(t, Syncing(tasks[t], "entered"))
                  /\ UNCHANGED <<barrier, current>>
             ELSE Ends(t, Entering(t, s))
          /\ UNCHANGED budget
       \/ /\ StillValid(t, s)
          /\ Business(s)
          /\ Fault
          /\ scope' = ScopeOf(s)
          /\ Ends(t, Exposed(auth, s, TRUE))
          /\ UNCHANGED disk
    /\ UNCHANGED <<flight, server>>

(* The first sync of the new session only leaves a notice when it fails. *)
ChangeEntered(t) ==
    /\ tasks[t].pc = "entered"
    /\ t \in {"switchContext", "upgrade"}
    /\ Ends(t, auth)
    /\ UNCHANGED <<scope, flight, disk, server, budget>>

(* The login screen is there when no session is shown, except while an     *)
(* upgrade keeps the router unmounted (switchingOperationMode).            *)
Login ==
    /\ CanStart("login")
    /\ auth.session = None
    /\ ~auth.booting
    /\ tasks["upgrade"].pc = "idle"
    /\ server.issued < MaxSession
    /\ \E mode \in {"account"} \cup IF server.open THEN {"production"} ELSE {} :
          server' = [server EXCEPT !.issued = NextSession, !.rows[NextSession] = NewRow(mode)]
    /\ Goto("login", [Idle EXCEPT !.pc = "persisting", !.next = NextSession])
    /\ UNCHANGED <<auth, scope, barrier, current, flight, disk>>

-----------------------------------------------------------------------------
(***************************************************************************)
(* updateProfile and changePassword, a local write, and the release of     *)
(* quarantined operations: what runs under local access.                   *)
(***************************************************************************)
ProfileBegin ==
    /\ CanStart("profile")
    /\ Admitting
    /\ auth.session # None
    /\ ~auth.locked
    /\ ~InSandbox(auth.session)
    /\ barrier' = Leased("profile")
    /\ Goto("profile", [Idle EXCEPT !.pc = "asking", !.mine = auth.session])
    /\ UNCHANGED <<auth, scope, current, flight, disk, server>>

ProfileAnswered ==
    LET t == "profile" s == tasks[t].mine IN
    /\ tasks[t].pc = "asking"
    /\ \/ /\ Answer(s) = "ok"
          /\ Goto(t, [tasks[t] EXCEPT !.pc = "persisting"])
          /\ UNCHANGED <<auth, scope, barrier, current, flight, disk, budget>>
       \/ /\ Fault
          /\ Ends(t, auth)
          /\ UNCHANGED <<scope, flight, disk>>
       \/ /\ Answer(s) # "ok"
          /\ Reported(s, Answer(s), flight, disk)
          /\ Goto(t, [tasks[t] EXCEPT !.pc = "refused"])
          /\ UNCHANGED <<barrier, budget>>
    /\ UNCHANGED server

(* A screen has been opened on the shown session, and keeps it. *)
Open(t) ==
    /\ t \in {"write", "revalidate"}
    /\ CanStart(t)
    /\ Business(auth.session)
    /\ ~auth.locked
    /\ ~auth.broken
    /\ t = "revalidate" => "held" \in disk.outbox[Row(auth.session).mode]
    /\ Goto(t, [Idle EXCEPT !.pc = "opened", !.mine = auth.session])
    /\ UNCHANGED <<auth, scope, barrier, current, flight, disk, server>>

(* Mutant of InScope: a screen's session is taken as it is. *)
InAnyScope(s) == ~scope.blocked

InScope(s) ==
    /\ ~scope.blocked
    /\ Business(scope.of)
    /\ Space(scope.of) = Space(s)

(* beginLocalMutation(session) *)
BeginLocalMutation(t) ==
    /\ tasks[t].pc = "opened"
    /\ IF Admitting /\ InScope(tasks[t].mine)
       THEN /\ barrier' = Leased(t)
            /\ Goto(t, [tasks[t] EXCEPT !.pc = IF t = "write" THEN "writing" ELSE "asking"])
            /\ UNCHANGED <<auth, current>>
       ELSE Ends(t, auth)
    /\ UNCHANGED <<scope, flight, disk, server, budget>>

WriteEnds ==
    LET t == "write" s == tasks[t].mine IN
    /\ tasks[t].pc = "writing"
    /\ disk' = [disk EXCEPT !.outbox[Row(s).mode] = @ \cup {"ready"}]
    /\ Ends(t, auth)
    /\ UNCHANGED <<scope, flight, server, budget>>

(* The released operations are sent by a sync that is waited for, one that *)
(* runs already or a new one, if there can be one.                         *)
RevalidateAnswered ==
    LET t == "revalidate"
        s == tasks[t].mine
        starts == /\ tasks["sync"].pc = "idle"
                  /\ Business(auth.session) /\ ~auth.locked /\ Unswitched /\ Admitting
    IN
    /\ tasks[t].pc = "asking"
    /\ \/ /\ Answer(s) = "ok"
          /\ disk' = Released(disk, s)
          /\ IF starts
             THEN /\ tasks' = [tasks EXCEPT
                         ![t].pc = "waiting",
                         !["sync"] = Syncing([Idle EXCEPT !.mine = auth.session], "synced")]
                  /\ barrier' = Leased("sync")
             ELSE Goto(t, [tasks[t] EXCEPT !.pc = "waiting"]) /\ UNCHANGED barrier
          /\ UNCHANGED <<auth, scope, current, flight, budget>>
       \/ /\ Fault
          /\ Ends(t, auth)
          /\ UNCHANGED <<scope, flight, disk>>
       \/ /\ Answer(s) # "ok"
          /\ Reported(s, Answer(s), flight, disk)
          /\ Goto(t, [tasks[t] EXCEPT !.pc = "refused"])
          /\ UNCHANGED <<barrier, budget>>
    /\ UNCHANGED server

RevalidateEnds ==
    LET t == "revalidate" IN
    /\ tasks[t].pc = "waiting"
    /\ tasks["sync"].pc = "idle"
    /\ Ends(t, auth)
    /\ UNCHANGED <<scope, flight, disk, server, budget>>

-----------------------------------------------------------------------------
(***************************************************************************)
(* What happens elsewhere: a superadmin resets or disables the Sandbox, or *)
(* suspends and restores the business; a session is revoked.  And the end  *)
(* of the app's process, which leaves what is on the disk.                 *)
(***************************************************************************)
Happens(event) ==
    /\ event \in budget.may
    /\ budget.events > 0
    /\ budget' = [budget EXCEPT !.events = @ - 1]
    /\ UNCHANGED <<memory, disk>>

Reset ==
    /\ Happens("reset")
    /\ server.generation < MaxGeneration
    /\ server' = [server EXCEPT
          !.generation = @ + 1,
          !.rows = [s \in Session |->
              IF InSandbox(s) /\ Row(s).state = "live"
              THEN [Row(s) EXCEPT !.state = "retired"] ELSE Row(s)]]

Revoke(s) ==
    /\ Happens("revoke")
    /\ Row(s).state = "live"
    /\ server' = LoggedOut(s)

Disable ==
    /\ Happens("disable")
    /\ server' = [server EXCEPT !.enabled = ~@]

Suspend ==
    /\ Happens("suspend")
    /\ server' = [server EXCEPT !.open = ~@]

Unstarted(stored) ==
    [session |-> stored, switching |-> Nobody, locked |-> FALSE,
     booting |-> stored = None, broken |-> FALSE]

Fresh ==
    [sync |-> NoSync, recovery |-> [s \in Session |-> NoRecovery],
     ending |-> [s \in Session |-> "none"],
     headless |-> [s \in Session |-> FALSE], last |-> None]

Kill ==
    /\ budget.kills > 0
    /\ budget' = [budget EXCEPT !.kills = @ - 1]
    /\ auth' = Unstarted(None)
    /\ scope' = ScopeOf(None)
    /\ barrier' = [leases |-> {}, transition |-> Nobody]
    /\ tasks' = [t \in Task |-> Idle]
    /\ current' = {}
    /\ flight' = Fresh
    /\ UNCHANGED <<disk, server>>

-----------------------------------------------------------------------------
(* The app is started, or it has been started and shows its one session.   *)
Init ==
    /\ \E mode \in Store, shown \in {None, 1}, outbox \in {{}, {"ready"}, {"held"}} :
          /\ auth = Unstarted(shown)
          /\ scope = ScopeOf(shown)
          /\ server = [issued |-> 1, generation |-> 1, enabled |-> TRUE, open |-> TRUE,
                       rows |-> [s \in Session |->
                           IF s = 1 THEN [mode |-> mode, state |-> "live",
                                          generation |-> IF mode = "sandbox" THEN 1 ELSE 0]
                           ELSE [mode |-> "account", state |-> "none", generation |-> 0]]]
          /\ disk = [stored |-> 1, generation |-> IF mode = "sandbox" THEN 1 ELSE 0,
                     outbox |-> [m \in Store |-> IF m = mode THEN outbox ELSE {}],
                     barred |-> [m \in Store |-> FALSE]]
    /\ barrier = [leases |-> {}, transition |-> Nobody]
    /\ tasks = [t \in Task |-> Idle]
    /\ current = {}
    /\ flight = Fresh
    /\ \E plan \in Plans :
          budget = [may |-> plan.may, starts |-> plan.starts, events |-> plan.events,
                    faults |-> plan.faults, kills |-> plan.kills, crossed |-> FALSE,
                    failed |-> FALSE, late |-> {}]

RecoveryStep(t) ==
    \/ RecoveryCheck(t) \/ RecoveryJoined(t) \/ RecoveryAwaited(t)
    \/ RecoverDrained(t) \/ RecoverClear(t) \/ RecoverPost(t) \/ RecoverPersist(t)
    \/ RecoverDone(t) \/ RecoverFail(t)

ChangeStep(t) ==
    \/ ChangeDrained(t) \/ ChangeSynced(t) \/ ChangePost(t) \/ ChangeEntered(t)

(* What a task does next of its own. *)
TaskStep(t) ==
    \/ RunSync(t) \/ TaskSynced(t) \/ RecoveryStep(t) \/ ChangeStep(t) \/ Refused(t)
    \/ PersistWrite(t) \/ PersistExpose(t) \/ BeginLocalMutation(t)
    \/ t = "hydrate"    /\ (HydratePrepare \/ HydrateBlock \/ HydrateExpose)
    \/ t = "background" /\ BackgroundPrepare
    \/ t = "sync"       /\ SyncExpose
    \/ t = "switchMode" /\ (SwitchPersist \/ SwitchEntered)
    \/ t = "logout"     /\ LogoutDone
    \/ t = "profile"    /\ ProfileAnswered
    \/ t = "write"      /\ WriteEnds
    \/ t = "revalidate" /\ (RevalidateAnswered \/ RevalidateEnds)

SyncStep == SyncLost \/ SyncRefused \/ SyncPushed \/ SyncPulled \/ SyncEnds
EndingStep(s) == EndingMarks(s) \/ EndingClears(s)

Begin ==
    \/ HydrateBegin \/ BackgroundBegin \/ SyncNow \/ Login \/ ProfileBegin
    \/ \E t \in Task : Open(t)
    \/ \E t \in Changer : ChangeBegin(t)

Elsewhere == Reset \/ Disable \/ Suspend \/ \E s \in Session : Revoke(s)

Next ==
    \/ Begin
    \/ \E t \in Task : TaskStep(t)
    \/ SyncStep
    \/ \E s \in Session : EndingStep(s)
    \/ Elsewhere
    \/ Kill

Spec == Init /\ [][Next]_vars

(***************************************************************************)
(* The app's thread runs every task that has been resumed, a request is    *)
(* answered or fails, and the storage answers.  Nobody has to start a task,*)
(* nothing has to happen at the server, and the process may live for ever. *)
(***************************************************************************)
FairSpec ==
    /\ Spec
    /\ \A t \in Task : WF_vars(TaskStep(t))
    /\ WF_vars(SyncStep)
    /\ \A s \in Session : WF_vars(EndingStep(s))

-----------------------------------------------------------------------------
MB == INSTANCE MutationBarrier WITH
          leases <- barrier.leases,
          transition <- barrier.transition,
          granted <- barrier.transition # Nobody /\ tasks[barrier.transition].pc # "draining"

(***************************************************************************)
(* The tasks of the device keep the promise of the mutation barrier: while *)
(* one of them changes sessions, nobody reads or writes local data.        *)
(***************************************************************************)
BarrierSpec == MB!Spec

(***************************************************************************)
(* A session of a business is given up only when nothing that counts is    *)
(* left in the outbox of its scope, or when that scope is barred until the *)
(* business is chosen again; but for a disabled Sandbox, whose outbox waits*)
(* for the Sandbox, and for a session shown as one whose storage has failed*)
(* while the app was locked: a failed login does not unlock it, and what is*)
(* locked is left without a sync (auth-store.ts:455).                      *)
(***************************************************************************)
GivesUp(t) ==
    /\ tasks[t].pc = "posting"
    /\ tasks'[t].pc # "posting"
    /\ server' # server

LockedOut == auth.locked /\ auth.broken

NothingLeftBehind ==
    [][\A t \in Changer :
          GivesUp(t) /\ Business(tasks[t].mine) /\ ~LeavesOutbox(t) /\ ~LockedOut
             => ~Ready(tasks[t].mine) \/ Barred(tasks[t].mine)]_vars

(***************************************************************************)
(* Whoever writes or syncs for a Sandbox session does so in a database of  *)
(* that session's generation, never in that of another one: when something *)
(* has failed at most in one that a recovery has cleared and left without  *)
(* a generation.  But for the sync while the app says that the database    *)
(* could not be opened, which a login that has been under way for long may *)
(* have stopped it saying.                                                 *)
(***************************************************************************)
InItsGeneration(s) ==
    InSandbox(s) => \/ disk.generation = Row(s).generation
                    \/ budget.failed /\ disk.generation = 0

RowsInTheirGeneration ==
    /\ tasks["write"].pc = "writing" => InItsGeneration(tasks["write"].mine)
    /\ flight.sync.stage \in {"push", "pull", "apply"} /\ ~auth.broken /\ ~budget.crossed
          => InItsGeneration(flight.sync.of)

(***************************************************************************)
(* The one exchange of a retired session is asked for once in the life of  *)
(* the process, and one recovery at a time touches the device.             *)
(***************************************************************************)
Recovering == {"recovering", "rotating", "rotated", "resynced", "unrotated"}

OneRotation ==
    /\ \A s \in Session : flight.recovery[s].posts <= 1
    /\ \A t, u \in Task :
          tasks[t].pc \in Recovering /\ tasks[u].pc \in Recovering => t = u

(* A start-up that begins while the invalidation of the stored session is  *)
(* already under way does not notice it (auth-store.ts:248 takes the epoch *)
(* after the invalidation has advanced it), and shows what it has read.    *)
FoundLate(s) == s \in budget.late

(***************************************************************************)
(* A session whose invalidation has ended is neither stored nor shown      *)
(* again by a task that was under way with it; but for a session that      *)
(* FoundLate is about.                                                     *)
(***************************************************************************)
SignedOutStaysOut ==
    \A s \in Session :
        flight.ending[s] = "done" /\ ~FoundLate(s) => disk.stored # s /\ auth.session # s

(***************************************************************************)
(* The recovery writes or clears the stored session only while that is the *)
(* retired one or its own successor, never a newer one.                    *)
(***************************************************************************)
NewerSessionStands ==
    [][\A t \in Task :
          tasks[t].pc \in Recovering /\ tasks'[t] # tasks[t] /\ disk'.stored # disk.stored
             => disk.stored \in {None, tasks[t].mine, tasks[t].next}]_vars

(***************************************************************************)
(* A change of sessions comes to its end, and the device is usable again.  *)
(***************************************************************************)
SwitchingEnds == auth.switching # Nobody ~> auth.switching = Nobody

(* A recovery waits for the local access of a task that waits for it.      *)
HeldUp == tasks["revalidate"].pc = "waiting" /\ tasks["sync"].pc = "draining"

SwitchingEndsUnlessHeldUp ==
    auth.switching # Nobody ~> (auth.switching = Nobody \/ HeldUp)
=============================================================================
