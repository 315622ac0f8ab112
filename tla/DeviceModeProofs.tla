-------------------------- MODULE DeviceModeProofs --------------------------
(***************************************************************************)
(* The tasks of the device implement the mutation barrier's promise, for   *)
(* any plan and any bounds: while a task changes sessions, no other task   *)
(* has local access.  One recovery at a time touches the device, and it    *)
(* exchanges a retired session at most once.  A session that has been      *)
(* signed out is neither stored nor shown again.                           *)
(***************************************************************************)
EXTENDS DeviceMode, TLAPS

-----------------------------------------------------------------------------
(***************************************************************************)
(* The shape of the records: which fields they have, whatever is in them.  *)
(***************************************************************************)
TaskShape(r) ==
    r = [pc |-> r.pc, mine |-> r.mine, target |-> r.target, next |-> r.next,
         answer |-> r.answer, then |-> r.then]

AuthShape(a) ==
    a = [session |-> a.session, switching |-> a.switching, locked |-> a.locked,
         booting |-> a.booting, broken |-> a.broken]

BarrierShape(b) == b = [leases |-> b.leases, transition |-> b.transition]

Shapes ==
    /\ tasks = [t \in Task |-> tasks[t]]
    /\ \A t \in Task : TaskShape(tasks[t])
    /\ AuthShape(auth)
    /\ BarrierShape(barrier)

(* A task at one of these holds no local access. *)
Apart == {"idle", "checking", "draining"}

(* What a task at pc may be. *)
Fits(r, pc) == TaskShape(r) /\ r.pc = pc /\ r.then \notin Apart

(* What the sessions of the device may be, and who is on the way to one. *)
Keeps(a, who) == AuthShape(a) /\ a.switching = who

(***************************************************************************)
(* The inductive invariant.  Who holds the transition is the task that set *)
(* switchingMode, has no local access itself, and leaves its wait only     *)
(* when nobody has any.                                                    *)
(***************************************************************************)
Holders ==
    /\ barrier.leases \subseteq Task
    /\ \A t \in barrier.leases : tasks[t].pc \notin Apart
    /\ \A t \in Task : tasks[t].then \notin Apart

Owner ==
    barrier.transition # Nobody =>
        /\ barrier.transition \in Task \ barrier.leases
        /\ auth.switching = barrier.transition
        /\ tasks[barrier.transition].pc # "draining" => barrier.leases = {}

BInv == Shapes /\ Holders /\ Owner

Granted == barrier.transition # Nobody /\ tasks[barrier.transition].pc # "draining"

BStep == BInv' /\ [MB!Next]_(MB!vars)

LEMMA InitHolds == Init => BInv /\ MB!Init
BY DeviceAssumption
   DEF Init, BInv, Shapes, Holders, Owner, TaskShape, AuthShape, BarrierShape, Unstarted,
       Idle, Apart, MB!Init

-----------------------------------------------------------------------------
(***************************************************************************)
(* What the assignments to a task's record and to the sessions leave.      *)
(***************************************************************************)
LEMMA IdleFits == Fits(Idle, "idle")
BY DEF Fits, TaskShape, Idle, Apart

LEMMA TaskFits ==
    ASSUME BInv, NEW t \in Task
    PROVE  Fits(tasks[t], tasks[t].pc)
BY DEF BInv, Shapes, Holders, Fits

LEMMA TaskField ==
    ASSUME NEW r, NEW q, Fits(r, q), NEW x
    PROVE  /\ Fits([r EXCEPT !.pc = x], x)
           /\ Fits([r EXCEPT !.mine = x], q)
           /\ Fits([r EXCEPT !.target = x], q)
           /\ Fits([r EXCEPT !.next = x], q)
           /\ Fits([r EXCEPT !.answer = x], q)
           /\ x \notin Apart => Fits([r EXCEPT !.then = x], q)
BY SMT DEF Fits, TaskShape

LEMMA TaskFields ==
    ASSUME NEW r, NEW q, Fits(r, q), NEW pc, NEW x, NEW y
    PROVE  /\ Fits([r EXCEPT !.pc = pc, !.mine = x], pc)
           /\ Fits([r EXCEPT !.pc = pc, !.target = x], pc)
           /\ Fits([r EXCEPT !.pc = pc, !.next = x], pc)
           /\ Fits([r EXCEPT !.pc = pc, !.answer = x], pc)
           /\ Fits([r EXCEPT !.pc = pc, !.mine = x, !.target = y], pc)
           /\ Fits([r EXCEPT !.pc = pc, !.mine = x, !.next = y], pc)
<1> DEFINE m == [r EXCEPT !.pc = pc]
           n == [m EXCEPT !.mine = x]
<1>1. Fits(m, pc)
  BY TaskField
<1>2. /\ [r EXCEPT !.pc = pc, !.mine = x] = n
      /\ [r EXCEPT !.pc = pc, !.target = x] = [m EXCEPT !.target = x]
      /\ [r EXCEPT !.pc = pc, !.next = x] = [m EXCEPT !.next = x]
      /\ [r EXCEPT !.pc = pc, !.answer = x] = [m EXCEPT !.answer = x]
      /\ [r EXCEPT !.pc = pc, !.mine = x, !.target = y] = [n EXCEPT !.target = y]
      /\ [r EXCEPT !.pc = pc, !.mine = x, !.next = y] = [n EXCEPT !.next = y]
  OBVIOUS
<1> HIDE DEF m
<1>3. Fits(n, pc)
  BY <1>1, TaskField
<1> HIDE DEF n
<1>4. Fits([n EXCEPT !.target = y], pc) /\ Fits([n EXCEPT !.next = y], pc)
  BY <1>3, TaskField
<1>5. /\ Fits([m EXCEPT !.target = x], pc)
      /\ Fits([m EXCEPT !.next = x], pc)
      /\ Fits([m EXCEPT !.answer = x], pc)
  BY <1>1, TaskField
<1> QED
  BY <1>2, <1>3, <1>4, <1>5

LEMMA SyncingFits ==
    ASSUME NEW r, NEW q, Fits(r, q), NEW then, then \notin Apart
    PROVE  Fits(Syncing(r, then), "sync")
<1> DEFINE m == [r EXCEPT !.pc = "sync"]
           n == [m EXCEPT !.then = then]
<1>1. Syncing(r, then) = [n EXCEPT !.answer = "none"]
  BY DEF Syncing
<1>2. Fits(m, "sync")
  BY TaskField
<1> HIDE DEF m
<1>3. Fits(n, "sync")
  BY <1>2, TaskField
<1> HIDE DEF n
<1>4. Fits([n EXCEPT !.answer = "none"], "sync")
  BY <1>3, TaskField
<1> QED
  BY <1>1, <1>4

LEMMA AuthField ==
    ASSUME NEW a, NEW who, Keeps(a, who), NEW x
    PROVE  /\ Keeps([a EXCEPT !.session = x], who)
           /\ Keeps([a EXCEPT !.locked = x], who)
           /\ Keeps([a EXCEPT !.booting = x], who)
           /\ Keeps([a EXCEPT !.broken = x], who)
           /\ Keeps([a EXCEPT !.switching = x], x)
BY SMT DEF AuthShape, Keeps

LEMMA AuthFields ==
    ASSUME NEW a, NEW who, Keeps(a, who), NEW s, NEW broken
    PROVE  Keeps(Exposed(a, s, broken), who) /\ Keeps(Booted(a), who) /\ Keeps(Locked(a), who)
<1> DEFINE m == [a EXCEPT !.session = s]
<1>1. Exposed(a, s, broken) = [m EXCEPT !.broken = broken]
  BY DEF Exposed
<1>2. Keeps(m, who)
  BY AuthField
<1> HIDE DEF m
<1>3. Keeps([m EXCEPT !.broken = broken], who)
  BY <1>2, AuthField
<1> QED
  BY <1>1, <1>3, AuthField DEF Booted, Locked

LEMMA AuthKeeps == BInv => Keeps(auth, auth.switching)
BY DEF BInv, Shapes, Keeps

-----------------------------------------------------------------------------
(***************************************************************************)
(* The kinds of steps.                                                     *)
(***************************************************************************)
AuthKept == Keeps(auth', auth.switching)

(* Task t goes on, with what it has of the barrier. *)
LEMMA GoesOn ==
    ASSUME BInv, NEW t \in Task, NEW r, NEW pc, Goto(t, r), Fits(r, pc),
           tasks[t].pc # "draining", pc \notin Apart, barrier' = barrier, AuthKept
    PROVE  BStep
<1>1. tasks' = [tasks EXCEPT ![t] = r]
  BY DEF Goto
<1>2. tasks' = [u \in Task |-> IF u = t THEN r ELSE tasks[u]]
  BY <1>1 DEF BInv, Shapes, Fits, Keeps, AuthKept
<1>3. BInv'
  BY <1>2, DeviceAssumption DEF BInv, Shapes, Holders, Owner, Apart, Fits, Keeps, AuthKept
<1>4. UNCHANGED MB!vars
  BY <1>2, DeviceAssumption DEF BInv, Owner, Apart, MB!vars, Fits, Keeps, AuthKept
<1> QED
  BY <1>3, <1>4 DEF BStep

(* Task t ends, and gives back what it has of the barrier. *)
LEMMA Finishes ==
    ASSUME BInv, NEW t \in Task, NEW a, Ends(t, a), Keeps(a, auth.switching)
    PROVE  BStep
<1>1. tasks' = [u \in Task |-> IF u = t THEN Idle ELSE tasks[u]]
  BY DEF Ends, Goto, BInv, Shapes, Fits, Keeps, AuthKept
<1>2. barrier' = [leases |-> barrier.leases \ {t},
                  transition |-> IF barrier.transition = t THEN Nobody ELSE barrier.transition]
  BY DEF Ends, Given, Opened, BInv, Shapes, BarrierShape, Fits, Keeps, AuthKept
<1>3. /\ AuthShape(auth')
      /\ auth'.switching = IF auth.switching = t THEN Nobody ELSE auth.switching
  BY DEF Ends, Switched, AuthShape, Keeps
<1>4. TaskShape(Idle) /\ Idle.then \notin Apart /\ Idle.pc = "idle"
  BY DEF Idle, TaskShape, Apart
<1>5. Shapes'
  BY <1>1, <1>2, <1>3, <1>4 DEF BInv, Shapes, BarrierShape, Fits, Keeps, AuthKept
<1>6. Holders'
  BY <1>1, <1>2, <1>4 DEF BInv, Holders
<1>7. Owner'
  BY <1>1, <1>2, <1>3, DeviceAssumption DEF BInv, Holders, Owner, Fits, Keeps, AuthKept
<1>8. [MB!Next]_(MB!vars)
  <2>1. CASE barrier.transition = t
    <3>1. barrier.leases \ {t} = barrier.leases
      BY <2>1, DeviceAssumption DEF BInv, Owner, Fits, Keeps, AuthKept
    <3>2. MB!Open
      BY <1>2, <2>1, <3>1, DeviceAssumption DEF MB!Open
    <3> QED  BY <3>2 DEF MB!Next
  <2>2. CASE barrier.transition # t /\ t \in barrier.leases
    <3>1. Granted' = Granted
      BY <1>1, <1>2, <2>2, DeviceAssumption DEF Granted, BInv, Owner, Fits, Keeps, AuthKept
    <3>2. MB!Return(t)
      BY <1>2, <2>2, <3>1 DEF MB!Return, Granted
    <3> QED  BY <3>2 DEF MB!Next
  <2>3. CASE barrier.transition # t /\ t \notin barrier.leases
    <3>1. barrier' = barrier
      BY <1>2, <2>3 DEF BInv, Shapes, BarrierShape, Fits, Keeps, AuthKept
    <3>2. Granted' = Granted
      BY <1>1, <3>1, <2>3, DeviceAssumption DEF Granted, BInv, Owner, Fits, Keeps, AuthKept
    <3> QED  BY <3>1, <3>2 DEF MB!vars, Granted
  <2> QED  BY <2>1, <2>2, <2>3
<1> QED  BY <1>5, <1>6, <1>7, <1>8 DEF BStep, BInv

(* A task is given local access. *)
LEMMA Admits ==
    ASSUME BInv, NEW t \in Task, NEW r, NEW pc, Goto(t, r), Fits(r, pc),
           pc \notin Apart, Admitting, barrier' = Leased(t), AuthKept
    PROVE  BStep
<1>1. tasks' = [u \in Task |-> IF u = t THEN r ELSE tasks[u]]
  BY DEF Goto, BInv, Shapes, Fits, Keeps, AuthKept
<1>2. barrier' = [leases |-> barrier.leases \cup {t}, transition |-> Nobody]
  BY DEF Leased, Admitting, BInv, Shapes, BarrierShape, Fits, Keeps, AuthKept
<1>3. BInv'
  BY <1>1, <1>2 DEF BInv, Shapes, BarrierShape, Holders, Owner, Fits, Keeps, AuthKept
<1>4. MB!Admit(t)
  BY <1>2 DEF MB!Admit, Admitting
<1> QED
  BY <1>3, <1>4 DEF BStep, MB!Next

(* A task gives its local access back and asks whether to recover. *)
LEMMA Yields ==
    ASSUME BInv, NEW t \in Task, tasks[t].pc = "synced",
           Goto(t, [tasks[t] EXCEPT !.pc = "checking"]), barrier' = Yielded(t), auth' = auth
    PROVE  BStep
<1> DEFINE r == [tasks[t] EXCEPT !.pc = "checking"]
<1>1. tasks' = [u \in Task |-> IF u = t THEN r ELSE tasks[u]]
  BY DEF Goto, BInv, Shapes, Fits, Keeps, AuthKept
<1>2. barrier' = [leases |-> barrier.leases \ {t}, transition |-> barrier.transition]
  BY DEF Yielded, BInv, Shapes, BarrierShape, Fits, Keeps, AuthKept
<1>3. TaskShape(r) /\ r.pc = "checking" /\ r.then = tasks[t].then
  BY DEF TaskShape, BInv, Shapes, Fits, Keeps, AuthKept
<1> HIDE DEF r
<1>4. BInv'
  BY <1>1, <1>2, <1>3 DEF BInv, Shapes, BarrierShape, Holders, Owner, Fits, Keeps, AuthKept
<1>5. Granted' = Granted
  BY <1>1, <1>2, <1>3, DeviceAssumption DEF Granted, BInv, Owner, Fits, Keeps, AuthKept
<1>6. CASE t \in barrier.leases
  <2>1. MB!Return(t)
    BY <1>2, <1>5, <1>6 DEF MB!Return, Granted
  <2> QED  BY <2>1, <1>4 DEF BStep, MB!Next
<1>7. CASE t \notin barrier.leases
  <2>1. barrier' = barrier
    BY <1>2, <1>7 DEF BInv, Shapes, BarrierShape, Fits, Keeps, AuthKept
  <2> QED  BY <2>1, <1>4, <1>5 DEF BStep, MB!vars, Granted
<1> QED
  BY <1>6, <1>7

(* A task without local access asks for the transition. *)
LEMMA Closes ==
    ASSUME BInv, NEW t \in Task, NEW r, NEW pc, Goto(t, r), Fits(r, pc),
           pc = "draining", tasks[t].pc \in Apart, Admitting, barrier' = Closed(t),
           Keeps(auth', t)
    PROVE  BStep
<1>1. tasks' = [u \in Task |-> IF u = t THEN r ELSE tasks[u]]
  BY DEF Goto, BInv, Shapes, Fits, Keeps, AuthKept
<1>2. barrier' = [leases |-> barrier.leases, transition |-> t] /\ t # Nobody
  BY DeviceAssumption DEF Closed, BInv, Shapes, BarrierShape, Fits, Keeps, AuthKept
<1>3. t \notin barrier.leases
  BY DEF BInv, Holders
<1>4. BInv'
  BY <1>1, <1>2, <1>3 DEF BInv, Shapes, BarrierShape, Holders, Owner, Fits, Keeps, AuthKept
<1>5. ~Granted /\ ~Granted'
  BY <1>1, <1>2 DEF Granted, Admitting, Fits, Keeps, AuthKept
<1>6. MB!Close(t)
  BY <1>2, <1>3, <1>5 DEF MB!Close, Admitting, Granted
<1> QED
  BY <1>4, <1>6 DEF BStep, MB!Next

(* A task's wait for the transition is over. *)
LEMMA Grants ==
    ASSUME BInv, NEW t \in Task, NEW r, NEW pc, Goto(t, r), Fits(r, pc),
           pc \notin Apart, tasks[t].pc = "draining", Drained, barrier' = barrier,
           AuthKept
    PROVE  BStep
<1>1. tasks' = [u \in Task |-> IF u = t THEN r ELSE tasks[u]]
  BY DEF Goto, BInv, Shapes, Fits, Keeps, AuthKept
<1>2. BInv'
  BY <1>1, DeviceAssumption DEF BInv, Shapes, Holders, Owner, Drained, Fits, Keeps, AuthKept
<1>3. CASE barrier.transition = t
  <2>1. Granted'
    BY <1>1, <1>3, DeviceAssumption DEF Granted, Apart, Fits, Keeps, AuthKept
  <2>2. MB!Grant
    BY <2>1, <1>3, DeviceAssumption DEF MB!Grant, Granted, Drained
  <2> QED  BY <2>2, <1>2 DEF BStep, MB!Next
<1>4. CASE barrier.transition # t
  <2>1. Granted' = Granted
    BY <1>1, <1>4, DeviceAssumption DEF Granted, BInv, Owner, Fits, Keeps, AuthKept
  <2> QED  BY <2>1, <1>2 DEF BStep, MB!vars, Granted
<1> QED
  BY <1>3, <1>4

(* Nobody's task moves. *)
LEMMA Stays ==
    ASSUME BInv, tasks' = tasks, barrier' = barrier, AuthKept
    PROVE  BStep
BY DEF BStep, BInv, Shapes, Holders, Owner, AuthKept, Keeps, MB!vars

(* A report to handleAccessFailure leaves who is on the way where it is. *)
LEMMA ReportKeeps ==
    ASSUME BInv, NEW s, NEW answer, NEW f, NEW d, Reported(s, answer, f, d)
    PROVE  AuthKept
<1>1. auth' = auth \/ auth' = Locked(auth)
  BY DEF Reported
<1> QED
  BY <1>1, AuthKeeps, AuthFields DEF AuthKept

(* The usual step: a task goes on, and nobody else is concerned. *)
LEMMA Moves ==
    ASSUME BInv, NEW t \in Task, NEW r, NEW pc, Goto(t, r), Fits(r, pc),
           tasks[t].pc # "draining", pc \notin Apart, UNCHANGED <<auth, barrier>>
    PROVE  BStep
BY GoesOn, AuthKeeps DEF AuthKept

LEMMA Dies ==
    ASSUME BInv, NEW t \in Task, Ends(t, auth)
    PROVE  BStep
BY Finishes, AuthKeeps

-----------------------------------------------------------------------------
(***************************************************************************)
(* One lemma for each group of actions.                                    *)
(***************************************************************************)

LEMMA HydrateHolds ==
    ASSUME BInv, HydrateBegin \/ HydratePrepare \/ HydrateBlock \/ HydrateExpose
    PROVE  BStep
<1> DEFINE t == "hydrate"
<1>0. t \in Task /\ Fits(tasks[t], tasks[t].pc)
  BY TaskFits DEF Task
<1>1. CASE HydrateBegin
  <2>1. Fits([Idle EXCEPT !.pc = "reading", !.mine = disk.stored], "reading")
    BY IdleFits, TaskFields
  <2> QED  BY <1>0, <1>1, <2>1, Admits, AuthKeeps DEF HydrateBegin, Apart, AuthKept
<1>2. CASE HydratePrepare
  <2>1. CASE Ends(t, Booted(auth))
    BY <1>0, <2>1, AuthKeeps, AuthFields, Finishes
  <2>2. CASE Ends(t, [Booted(auth) EXCEPT !.broken = TRUE])
    <3>1. Keeps([Booted(auth) EXCEPT !.broken = TRUE], auth.switching)
      BY AuthKeeps, AuthFields, AuthField
    <3> QED  BY <1>0, <2>2, <3>1, Finishes
  <2>3. CASE Goto(t, [tasks[t] EXCEPT !.pc = "prepared"]) /\ UNCHANGED <<auth, barrier>>
    <3>1. Fits([tasks[t] EXCEPT !.pc = "prepared"], "prepared")
      BY <1>0, TaskField
    <3> QED  BY <1>0, <1>2, <2>3, <3>1, Moves DEF HydratePrepare, Apart
  <2> QED  BY <1>2, <2>1, <2>2, <2>3 DEF HydratePrepare
<1>3. CASE HydrateBlock
  <2> DEFINE answer == IF Business(tasks[t].mine) /\ Barred(tasks[t].mine)
                       THEN "barred" ELSE "none"
             r == [tasks[t] EXCEPT !.pc = "checked", !.answer = answer]
  <2>1. Fits(r, "checked")
    BY <1>0, TaskFields
  <2>2. CASE Ends(t, Booted(auth))
    BY <1>0, <2>2, AuthKeeps, AuthFields, Finishes
  <2>3. CASE Goto(t, r) /\ UNCHANGED <<auth, barrier>>
    <3> HIDE DEF r
    <3> QED  BY <1>0, <1>3, <2>1, <2>3, Moves DEF HydrateBlock, Apart
  <2> QED  BY <1>3, <2>2, <2>3 DEF HydrateBlock
<1>4. CASE HydrateExpose
  <2> DEFINE shown == Exposed(Booted(auth), tasks[t].mine, FALSE)
             locked == tasks[t].answer = "barred"
  <2>1. Keeps(shown, auth.switching) /\ Keeps(Booted(auth), auth.switching)
    BY AuthKeeps, AuthFields
  <2>2. Ends(t, [shown EXCEPT !.locked = locked]) \/ Ends(t, Booted(auth))
    BY <1>4, Zenon DEF HydrateExpose
  <2> HIDE DEF shown, locked
  <2>3. Keeps([shown EXCEPT !.locked = locked], auth.switching)
    BY <2>1, AuthField
  <2> QED  BY <1>0, <2>1, <2>2, <2>3, Finishes
<1> QED
  BY <1>1, <1>2, <1>3, <1>4

LEMMA SyncTaskHolds ==
    ASSUME BInv, NEW t \in Task,
           BackgroundBegin \/ BackgroundPrepare \/ SyncNow \/ TaskSynced(t) \/ SyncExpose
                \/ RunSync(t)
    PROVE  BStep
<1>0. "background" \in Task /\ "sync" \in Task /\ \A u \in Task : Fits(tasks[u], tasks[u].pc)
  BY TaskFits DEF Task
<1>1. CASE BackgroundBegin
  <2>1. Fits([Idle EXCEPT !.pc = "woken"], "woken")
    BY IdleFits, TaskField
  <2> QED  BY <1>0, <1>1, <2>1, Admits, AuthKeeps DEF BackgroundBegin, Apart, AuthKept
<1>2. CASE BackgroundPrepare
  <2> DEFINE u == "background"
             m == [tasks[u] EXCEPT !.mine = disk.stored]
  <2>1. Fits(m, tasks[u].pc)
    BY <1>0, TaskField
  <2>2. CASE Ends(u, auth)
    BY <1>0, <2>2, Dies
  <2>3. CASE Goto(u, Syncing(m, "synced")) /\ UNCHANGED <<auth, barrier>>
    <3> HIDE DEF m
    <3>1. Fits(Syncing(m, "synced"), "sync")
      BY <2>1, SyncingFits DEF Apart
    <3> QED  BY <1>0, <1>2, <2>3, <3>1, Moves DEF BackgroundPrepare, Apart
  <2> QED  BY <1>2, <2>2, <2>3 DEF BackgroundPrepare
<1>3. CASE SyncNow
  <2> DEFINE m == [Idle EXCEPT !.mine = auth.session]
  <2>1. Fits(m, "idle")
    BY IdleFits, TaskField
  <2>2. Goto("sync", Syncing(m, "synced")) /\ Admitting /\ barrier' = Leased("sync")
        /\ auth' = auth
    BY <1>3 DEF SyncNow
  <2> HIDE DEF m
  <2>3. Fits(Syncing(m, "synced"), "sync")
    BY <2>1, SyncingFits DEF Apart
  <2> QED  BY <1>0, <2>2, <2>3, Admits, AuthKeeps DEF Apart, AuthKept
<1>4. CASE TaskSynced(t)
  <2> DEFINE r == [tasks[t] EXCEPT !.pc = "refreshing", !.next = disk.stored]
  <2>1. Fits(r, "refreshing")
    BY <1>0, TaskFields
  <2>2. CASE Ends(t, auth)
    BY <2>2, Dies
  <2>3. CASE Goto(t, r) /\ UNCHANGED <<auth, barrier>>
    <3> HIDE DEF r
    <3> QED  BY <1>4, <2>1, <2>3, Moves DEF TaskSynced, Apart
  <2>4. CASE /\ barrier' = Yielded(t)
             /\ Goto(t, [tasks[t] EXCEPT !.pc = "checking"])
             /\ auth' = auth
    BY <1>4, <2>4, Yields DEF TaskSynced
  <2> QED  BY <1>4, <2>2, <2>3, <2>4 DEF TaskSynced
<1>5. CASE SyncExpose
  <2>1. Refreshed("sync") = auth
        \/ Refreshed("sync") = [auth EXCEPT !.session = tasks["sync"].next]
    BY DEF Refreshed
  <2>2. Keeps([auth EXCEPT !.session = tasks["sync"].next], auth.switching)
    BY AuthKeeps, AuthField
  <2>3. Keeps(Refreshed("sync"), auth.switching)
    BY <2>1, <2>2, AuthKeeps
  <2> QED  BY <1>0, <1>5, <2>3, Finishes DEF SyncExpose
<1>6. CASE RunSync(t)
  <2>1. Fits([tasks[t] EXCEPT !.pc = "syncing"], "syncing")
    BY <1>0, TaskField
  <2> QED  BY <1>6, <2>1, Moves DEF RunSync, Apart
<1> QED
  BY <1>1, <1>2, <1>3, <1>4, <1>5, <1>6

LEMMA RecoveryHolds ==
    ASSUME BInv, NEW t \in Task, RecoveryStep(t)
    PROVE  BStep
<1>0. Fits(tasks[t], tasks[t].pc)
  BY TaskFits
<1>a. ASSUME NEW pc, pc \notin Apart, tasks[t].pc # "draining",
             Goto(t, [tasks[t] EXCEPT !.pc = pc])
      PROVE  UNCHANGED barrier /\ AuthKept => BStep
  <2>1. Fits([tasks[t] EXCEPT !.pc = pc], pc)
    BY <1>0, TaskField
  <2> QED  BY <1>a, <2>1, GoesOn
<1>b. \A s : Shows(t, s) => BStep
  BY AuthKeeps, AuthFields, Finishes DEF Shows
<1>c. auth' = auth => AuthKept
  BY AuthKeeps DEF AuthKept
<1>1. CASE RecoveryCheck(t)
  <2> DEFINE a == [Exposed(auth, None, FALSE) EXCEPT !.switching = t]
             r == [tasks[t] EXCEPT !.pc = "draining", !.target = "sandbox"]
             w == [tasks[t] EXCEPT !.pc = "awaiting", !.target = "sandbox"]
  <2>1. Fits(r, "draining") /\ Fits(w, "awaiting")
    BY <1>0, TaskFields
  <2>2. Keeps(a, t)
    BY AuthKeeps, AuthFields, AuthField
  <2>3. CASE Ends(t, auth)
    BY <2>3, Dies
  <2>4. CASE Goto(t, [tasks[t] EXCEPT !.pc = "joining"]) /\ UNCHANGED <<auth, barrier>>
    BY <1>1, <1>a, <1>c, <2>4 DEF RecoveryCheck, Apart
  <2>5. CASE Unswitched /\ auth' = a /\ barrier' = Closed(t) /\ Goto(t, r)
    <3>1. Admitting
      BY <2>5, DeviceAssumption DEF Unswitched, Admitting, BInv, Owner
    <3> HIDE DEF a, r
    <3> QED  BY <1>1, <2>1, <2>2, <2>5, <3>1, Closes DEF RecoveryCheck, Apart
  <2>6. CASE Unswitched /\ auth' = a /\ barrier' = barrier /\ Goto(t, w)
    <3>1. barrier.transition = Nobody
      BY <2>6, DeviceAssumption DEF Unswitched, BInv, Owner
    <3> HIDE DEF a, w
    <3>2. tasks' = [u \in Task |-> IF u = t THEN w ELSE tasks[u]]
      BY <2>6 DEF Goto, BInv, Shapes
    <3>3. t \notin barrier.leases
      BY <1>1 DEF RecoveryCheck, BInv, Holders, Apart
    <3>4. BInv'
      BY <2>1, <2>2, <2>6, <3>1, <3>2, <3>3
         DEF BInv, Shapes, Holders, Owner, Fits, Keeps, Apart
    <3> QED  BY <2>6, <3>1, <3>4 DEF BStep, MB!vars
  <2> QED  BY <1>1, <2>3, <2>4, <2>5, <2>6 DEF RecoveryCheck
<1>2. CASE RecoveryJoined(t)
  BY <1>2, Dies DEF RecoveryJoined
<1>3. CASE RecoveryAwaited(t)
  BY <1>3, <1>b DEF RecoveryAwaited
<1>4. CASE RecoverDrained(t)
  <2>1. Fits([tasks[t] EXCEPT !.pc = "recovering"], "recovering")
    BY <1>0, TaskField
  <2> QED  BY <1>4, <1>c, <2>1, Grants DEF RecoverDrained, Apart
<1>5. CASE RecoverClear(t)
  BY <1>5, <1>a, <1>c DEF RecoverClear, Apart
<1>6. CASE RecoverPost(t)
  <2>1. tasks[t].pc = "rotating" /\ barrier' = barrier
    BY <1>6 DEF RecoverPost
  <2> DEFINE r == [tasks[t] EXCEPT !.pc = "rotated", !.next = NextSession]
             w == [tasks[t] EXCEPT !.pc = "unrotated"]
  <2>2. Fits(r, "rotated") /\ Fits(w, "unrotated")
    BY <1>0, TaskField, TaskFields
  <2>3. Goto(t, r) \/ Goto(t, w)
    BY <1>6 DEF RecoverPost
  <2>4. AuthKept
    BY <1>6, <1>c, ReportKeeps DEF RecoverPost
  <2> HIDE DEF r, w
  <2> QED  BY <2>1, <2>2, <2>3, <2>4, GoesOn DEF Apart
<1>7. CASE RecoverPersist(t)
  <2>1. Fits(Syncing(tasks[t], "resynced"), "sync")
    BY <1>0, SyncingFits DEF Apart
  <2>2. tasks[t].pc = "rotated" /\ barrier' = barrier /\ auth' = auth
    BY <1>7 DEF RecoverPersist
  <2>3. \/ Goto(t, Syncing(tasks[t], "resynced"))
        \/ Goto(t, [tasks[t] EXCEPT !.pc = "unrotated"])
    BY <1>7 DEF RecoverPersist
  <2> QED  BY <1>a, <1>c, <2>1, <2>2, <2>3, Moves DEF Apart
<1>8. CASE RecoverDone(t) \/ RecoverFail(t)
  BY <1>8, <1>b DEF RecoverDone, RecoverFail
<1> QED
  BY <1>1, <1>2, <1>3, <1>4, <1>5, <1>6, <1>7, <1>8 DEF RecoveryStep

LEMMA ChangeHolds ==
    ASSUME BInv, NEW t \in Task, ChangeStep(t) \/ (t \in Changer /\ ChangeBegin(t))
    PROVE  BStep
<1>0. Fits(tasks[t], tasks[t].pc)
  BY TaskFits
<1>c. auth' = auth => AuthKept
  BY AuthKeeps DEF AuthKept
<1>1. CASE ChangeBegin(t)
  <2>1. PICK mode : Goto(t, [Idle EXCEPT !.pc = "draining", !.mine = auth.session,
                                         !.target = mode])
    BY <1>1 DEF ChangeBegin
  <2> DEFINE r == [Idle EXCEPT !.pc = "draining", !.mine = auth.session, !.target = mode]
             a == [auth EXCEPT !.switching = t]
  <2>2. Fits(r, "draining")
    BY IdleFits, TaskFields
  <2>3. Keeps(a, t)
    BY AuthKeeps, AuthField
  <2>4. tasks[t].pc = "idle" /\ Admitting /\ barrier' = Closed(t) /\ auth' = a
    BY <1>1 DEF ChangeBegin, CanStart
  <2> HIDE DEF r, a
  <2> QED  BY <2>1, <2>2, <2>3, <2>4, Closes DEF Apart, r
<1>2. CASE ChangeDrained(t)
  <2>1. Fits(Syncing(tasks[t], "changing"), "sync")
    BY <1>0, SyncingFits DEF Apart
  <2>2. Fits([tasks[t] EXCEPT !.pc = "posting"], "posting")
    BY <1>0, TaskField
  <2>3. tasks[t].pc = "draining" /\ Drained
    BY <1>2 DEF ChangeDrained
  <2>4. \/ Ends(t, auth)
        \/ /\ \/ Goto(t, Syncing(tasks[t], "changing"))
              \/ Goto(t, [tasks[t] EXCEPT !.pc = "posting"])
           /\ UNCHANGED <<auth, barrier>>
    BY <1>2 DEF ChangeDrained
  <2>5. CASE Goto(t, Syncing(tasks[t], "changing")) /\ UNCHANGED <<auth, barrier>>
    BY <1>c, <2>1, <2>3, <2>5, Grants DEF Apart
  <2>6. CASE Goto(t, [tasks[t] EXCEPT !.pc = "posting"]) /\ UNCHANGED <<auth, barrier>>
    BY <1>c, <2>2, <2>3, <2>6, Grants DEF Apart
  <2> QED  BY <2>4, <2>5, <2>6, Dies
<1>3. CASE ChangeSynced(t)
  <2> DEFINE pc == IF Complete(t) THEN "posting" ELSE "refused"
  <2>1. Fits([tasks[t] EXCEPT !.pc = pc], pc)
    BY <1>0, TaskField
  <2>2. pc \notin Apart
    BY DEF Apart
  <2>3. /\ tasks[t].pc = "changing"
        /\ Goto(t, [tasks[t] EXCEPT !.pc = pc])
        /\ UNCHANGED <<auth, barrier>>
    BY <1>3 DEF ChangeSynced
  <2> HIDE DEF pc
  <2> QED  BY <2>1, <2>2, <2>3, Moves
<1>4. CASE ChangePost(t)
  <2> DEFINE next == IF t = "logout" THEN None ELSE NextSession
             r == [tasks[t] EXCEPT !.pc = "issued", !.next = next]
             w(x) == [tasks[t] EXCEPT !.pc = "refused", !.answer = x]
  <2>1. Fits(r, "issued") /\ \A x : Fits(w(x), "refused")
    BY <1>0, TaskFields
  <2>2. tasks[t].pc = "posting" /\ barrier' = barrier
    BY <1>4 DEF ChangePost
  <2>3. Goto(t, r) \/ Goto(t, w("lost")) \/ Goto(t, w(PostAnswer(t)))
    BY <1>4 DEF ChangePost
  <2>4. AuthKept
    BY <1>4, <1>c, ReportKeeps DEF ChangePost
  <2>5. CASE Goto(t, r)
    <3> HIDE DEF r
    <3> QED  BY <2>1, <2>2, <2>4, <2>5, GoesOn DEF Apart
  <2>6. ASSUME NEW x, Goto(t, w(x)) PROVE BStep
    <3>1. Fits(w(x), "refused")
      BY <2>1
    <3> HIDE DEF w
    <3> QED  BY <2>2, <2>4, <2>6, <3>1, GoesOn DEF Apart
  <2> QED  BY <2>3, <2>5, <2>6
<1>5. CASE ChangeEntered(t)
  BY <1>5, Dies DEF ChangeEntered
<1> QED
  BY <1>1, <1>2, <1>3, <1>4, <1>5 DEF ChangeStep

LEMMA OutcomeHolds ==
    ASSUME BInv, NEW t \in Task, Refused(t) \/ LogoutDone \/ SwitchPersist \/ SwitchEntered
    PROVE  BStep
<1>0. "logout" \in Task /\ "switchMode" \in Task /\ \A u \in Task : Fits(tasks[u], tasks[u].pc)
  BY TaskFits DEF Task
<1>a. \A x, y : Keeps(Exposed(auth, x, y), auth.switching)
  BY AuthKeeps, AuthFields
<1>1. CASE Refused(t)
  <2> DEFINE shown == Exposed(auth, None, FALSE)
             r == [tasks[t] EXCEPT !.pc = "recovering"]
             w == [tasks[t] EXCEPT !.pc = "awaiting"]
  <2>1. Fits(r, "recovering") /\ Fits(w, "awaiting")
    BY <1>0, TaskField
  <2>2. \/ Ends(t, shown) \/ Ends(t, auth)
        \/ auth' = shown /\ barrier' = barrier /\ (Goto(t, r) \/ Goto(t, w))
    BY <1>1 DEF Refused
  <2>3. tasks[t].pc = "refused"
    BY <1>1 DEF Refused
  <2>4. Keeps(shown, auth.switching)
    BY <1>a
  <2> HIDE DEF shown, r, w
  <2>5. CASE Ends(t, shown) \/ Ends(t, auth)
    BY <2>4, <2>5, Dies, Finishes
  <2>6. CASE auth' = shown /\ barrier' = barrier /\ (Goto(t, r) \/ Goto(t, w))
    BY <2>1, <2>3, <2>4, <2>6, GoesOn DEF Apart, AuthKept
  <2> QED  BY <2>2, <2>5, <2>6
<1>2. CASE LogoutDone
  <2>1. Keeps([Exposed(auth, None, FALSE) EXCEPT !.locked = FALSE], auth.switching)
    BY <1>a, AuthField
  <2>2. \/ Ends("logout", [Exposed(auth, None, FALSE) EXCEPT !.locked = FALSE])
        \/ Ends("logout", auth)
        \/ Ends("logout", Exposed(auth, None, TRUE))
    BY <1>2, Zenon DEF LogoutDone
  <2> QED  BY <1>0, <1>a, <2>1, <2>2, Dies, Finishes
<1>3. CASE SwitchPersist
  <2> DEFINE u == "switchMode"
  <2>1. Fits(Syncing(tasks[u], "entered"), "sync")
    BY <1>0, SyncingFits DEF Apart
  <2>2. \/ Goto(u, Syncing(tasks[u], "entered")) /\ UNCHANGED <<auth, barrier>>
        \/ Ends(u, Exposed(auth, tasks[u].next, TRUE))
    BY <1>3 DEF SwitchPersist
  <2>3. tasks[u].pc = "issued"
    BY <1>3 DEF SwitchPersist
  <2>4. CASE Goto(u, Syncing(tasks[u], "entered")) /\ UNCHANGED <<auth, barrier>>
    BY <1>0, <2>1, <2>3, <2>4, Moves DEF Apart
  <2>5. CASE Ends(u, Exposed(auth, tasks[u].next, TRUE))
    BY <1>0, <1>a, <2>5, Finishes
  <2> QED  BY <2>2, <2>4, <2>5
<1>4. CASE SwitchEntered
  <2> DEFINE u == "switchMode"
             s == tasks[u].next
             r == [tasks[u] EXCEPT !.pc = "refused", !.mine = s]
             w == [tasks[u] EXCEPT !.pc = "recovering", !.mine = s, !.next = None]
  <2>1. Fits(r, "refused") /\ Fits(w, "recovering")
    BY <1>0, TaskFields
  <2>2. Keeps(Locked(Exposed(auth, s, FALSE)), auth.switching)
    BY <1>a, AuthFields
  <2>3. \/ Ends(u, Exposed(auth, s, FALSE))
        \/ /\ auth' = Locked(Exposed(auth, s, FALSE)) \/ auth' = auth
           /\ barrier' = barrier /\ Goto(u, r)
        \/ auth' = Exposed(auth, None, FALSE) /\ barrier' = barrier /\ Goto(u, w)
    BY <1>4 DEF SwitchEntered
  <2>4. tasks[u].pc = "entered" /\ "refused" \notin Apart /\ "recovering" \notin Apart
    BY <1>4 DEF SwitchEntered, Apart
  <2>5. CASE Ends(u, Exposed(auth, s, FALSE))
    BY <1>0, <1>a, <2>5, Finishes
  <2>6. CASE /\ auth' = Locked(Exposed(auth, s, FALSE)) \/ auth' = auth
             /\ barrier' = barrier /\ Goto(u, r)
    <3>1. AuthKept
      BY <2>2, <2>6, AuthKeeps DEF AuthKept
    <3> HIDE DEF r
    <3> QED  BY <1>0, <2>1, <2>4, <2>6, <3>1, GoesOn
  <2>7. CASE auth' = Exposed(auth, None, FALSE) /\ barrier' = barrier /\ Goto(u, w)
    <3>1. AuthKept
      BY <1>a, <2>7 DEF AuthKept
    <3> HIDE DEF w
    <3> QED  BY <1>0, <2>1, <2>4, <2>7, <3>1, GoesOn
  <2> QED  BY <2>3, <2>5, <2>6, <2>7
<1> QED
  BY <1>1, <1>2, <1>3, <1>4

LEMMA PersistHolds ==
    ASSUME BInv, NEW t \in Task, PersistWrite(t) \/ PersistExpose(t) \/ Login
    PROVE  BStep
<1>0. "login" \in Task /\ \A u \in Task : Fits(tasks[u], tasks[u].pc)
  BY TaskFits DEF Task
<1>a. \A x, y : Keeps(Exposed(auth, x, y), auth.switching)
  BY AuthKeeps, AuthFields
<1>1. CASE PersistWrite(t)
  <2>1. Fits([tasks[t] EXCEPT !.pc = "written"], "written")
    BY <1>0, TaskField
  <2>2. \/ Ends(t, auth) \/ Ends(t, Exposed(auth, SyncOf(t), TRUE))
        \/ Goto(t, [tasks[t] EXCEPT !.pc = "written"]) /\ UNCHANGED <<auth, barrier>>
    BY <1>1 DEF PersistWrite
  <2>3. tasks[t].pc \in {"persisting", "issued"}
    BY <1>1 DEF PersistWrite, Persists
  <2>4. CASE Ends(t, auth)
    BY <2>4, Dies
  <2>5. CASE Ends(t, Exposed(auth, SyncOf(t), TRUE))
    BY <1>a, <2>5, Finishes
  <2>6. CASE Goto(t, [tasks[t] EXCEPT !.pc = "written"]) /\ UNCHANGED <<auth, barrier>>
    <3> DEFINE r == [tasks[t] EXCEPT !.pc = "written"]
    <3>1. Fits(r, "written") /\ Goto(t, r) /\ UNCHANGED <<auth, barrier>>
      BY <2>1, <2>6
    <3> HIDE DEF r
    <3> QED  BY <2>3, <3>1, Moves DEF Apart
  <2> QED  BY <2>2, <2>4, <2>5, <2>6
<1>2. CASE PersistExpose(t)
  <2> DEFINE s == SyncOf(t)
             a == Entering(t, s)
             m == Exposed(auth, s, FALSE)
             locked == m.locked /\ t \notin {"login", "switchContext"}
  <2>1. Keeps(m, auth.switching)
    BY <1>a
  <2>2. Keeps(a, auth.switching)
    <3> HIDE DEF m
    <3>1. \A x : Keeps([m EXCEPT !.locked = x], auth.switching)
      BY <2>1, AuthField
    <3>2. Keeps([m EXCEPT !.locked = locked], auth.switching)
      BY <3>1, Zenon
    <3> USE DEF m
    <3> QED  BY <3>2, Zenon DEF Entering
  <2>3. Fits(Syncing(tasks[t], "entered"), "sync")
    BY <1>0, SyncingFits DEF Apart
  <2>4. \/ Ends(t, auth) \/ Ends(t, a) \/ Ends(t, Exposed(auth, s, TRUE))
        \/ auth' = a /\ Goto(t, Syncing(tasks[t], "entered")) /\ barrier' = barrier
    BY <1>2 DEF PersistExpose
  <2>5. tasks[t].pc = "written"
    BY <1>2 DEF PersistExpose
  <2> HIDE DEF a
  <2>6. CASE Ends(t, auth) \/ Ends(t, a) \/ Ends(t, Exposed(auth, s, TRUE))
    BY <1>a, <2>2, <2>6, Dies, Finishes
  <2>7. CASE auth' = a /\ Goto(t, Syncing(tasks[t], "entered")) /\ barrier' = barrier
    BY <2>2, <2>3, <2>5, <2>7, GoesOn DEF Apart, AuthKept
  <2> QED  BY <2>4, <2>6, <2>7
<1>3. CASE Login
  <2>1. Fits([Idle EXCEPT !.pc = "persisting", !.next = NextSession], "persisting")
    BY IdleFits, TaskFields
  <2>2. /\ Goto("login", [Idle EXCEPT !.pc = "persisting", !.next = NextSession])
        /\ tasks["login"].pc = "idle"
        /\ UNCHANGED <<auth, barrier>>
    BY <1>3 DEF Login, CanStart
  <2> DEFINE r == [Idle EXCEPT !.pc = "persisting", !.next = NextSession]
  <2> HIDE DEF r
  <2> QED  BY <1>0, <2>1, <2>2, Moves DEF Apart, r
<1> QED
  BY <1>1, <1>2, <1>3

LEMMA AccessHolds ==
    ASSUME BInv, NEW t \in Task,
           ProfileBegin \/ ProfileAnswered \/ Open(t) \/ BeginLocalMutation(t) \/ WriteEnds
    PROVE  BStep
<1>0. "profile" \in Task /\ "write" \in Task /\ \A u \in Task : Fits(tasks[u], tasks[u].pc)
  BY TaskFits DEF Task
<1>1. CASE ProfileBegin
  <2> DEFINE r == [Idle EXCEPT !.pc = "asking", !.mine = auth.session]
  <2>1. Fits(r, "asking")
    BY IdleFits, TaskFields
  <2>2. Goto("profile", r) /\ Admitting /\ barrier' = Leased("profile") /\ auth' = auth
    BY <1>1 DEF ProfileBegin
  <2> HIDE DEF r
  <2> QED  BY <1>0, <2>1, <2>2, Admits, AuthKeeps DEF Apart, AuthKept
<1>2. CASE ProfileAnswered
  <2> DEFINE u == "profile"
             r == [tasks[u] EXCEPT !.pc = "persisting"]
             w == [tasks[u] EXCEPT !.pc = "refused"]
  <2>1. Fits(r, "persisting") /\ Fits(w, "refused")
    BY <1>0, TaskField
  <2>2. \/ Ends(u, auth)
        \/ Goto(u, r) /\ UNCHANGED <<auth, barrier>>
        \/ Goto(u, w) /\ AuthKept /\ barrier' = barrier
    BY <1>2, ReportKeeps DEF ProfileAnswered
  <2>3. tasks[u].pc = "asking"
    BY <1>2 DEF ProfileAnswered
  <2> HIDE DEF r, w
  <2> QED  BY <1>0, <2>1, <2>2, <2>3, Dies, Moves, GoesOn DEF Apart
<1>3. CASE Open(t)
  <2> DEFINE r == [Idle EXCEPT !.pc = "opened", !.mine = auth.session]
  <2>1. Fits(r, "opened")
    BY IdleFits, TaskFields
  <2>2. Goto(t, r) /\ tasks[t].pc = "idle" /\ UNCHANGED <<auth, barrier>>
    BY <1>3 DEF Open, CanStart
  <2> HIDE DEF r
  <2> QED  BY <2>1, <2>2, Moves DEF Apart
<1>4. CASE BeginLocalMutation(t)
  <2> DEFINE pc == IF t = "write" THEN "writing" ELSE "asking"
  <2>1. Fits([tasks[t] EXCEPT !.pc = pc], pc)
    BY <1>0, TaskField
  <2>2. pc \notin Apart
    BY DEF Apart
  <2>3. \/ Ends(t, auth)
        \/ /\ Goto(t, [tasks[t] EXCEPT !.pc = pc])
           /\ Admitting /\ barrier' = Leased(t) /\ auth' = auth
    BY <1>4 DEF BeginLocalMutation
  <2> HIDE DEF pc
  <2> QED  BY <2>1, <2>2, <2>3, Dies, Admits, AuthKeeps DEF AuthKept
<1>5. CASE WriteEnds
  BY <1>0, <1>5, Dies DEF WriteEnds
<1> QED
  BY <1>1, <1>2, <1>3, <1>4, <1>5

(* The release of quarantined operations starts a sync, which has local    *)
(* access as well.                                                         *)
LEMMA RevalidateHolds ==
    ASSUME BInv, RevalidateAnswered \/ RevalidateEnds
    PROVE  BStep
<1> DEFINE t == "revalidate"
           r == [tasks[t] EXCEPT !.pc = "waiting"]
           w == [tasks[t] EXCEPT !.pc = "refused"]
           m == [Idle EXCEPT !.mine = auth.session]
           sync == Syncing(m, "synced")
<1>0. t \in Task /\ "sync" \in Task /\ Fits(tasks[t], tasks[t].pc)
  BY TaskFits DEF Task
<1>1. Fits(r, "waiting") /\ Fits(w, "refused") /\ Fits(m, "idle")
  BY <1>0, IdleFits, TaskField
<1>2. Fits(sync, "sync")
  <2> HIDE DEF m
  <2> QED  BY <1>1, SyncingFits DEF Apart
<1>3. CASE RevalidateEnds
  BY <1>0, <1>3, Dies DEF RevalidateEnds
<1>4. CASE RevalidateAnswered
  <2>1. tasks[t].pc = "asking"
    BY <1>4 DEF RevalidateAnswered
  <2>2. \/ Ends(t, auth)
        \/ Goto(t, w) /\ AuthKept /\ barrier' = barrier
        \/ Goto(t, r) /\ UNCHANGED <<auth, barrier>>
        \/ /\ tasks' = [tasks EXCEPT ![t].pc = "waiting", !["sync"] = sync]
           /\ Admitting /\ barrier' = Leased("sync") /\ auth' = auth
    BY <1>4, ReportKeeps DEF RevalidateAnswered
  <2>3. CASE /\ tasks' = [tasks EXCEPT ![t].pc = "waiting", !["sync"] = sync]
             /\ Admitting /\ barrier' = Leased("sync") /\ auth' = auth
    <3>1. tasks' = [u \in Task |-> IF u = "sync" THEN sync
                                   ELSE IF u = t THEN r ELSE tasks[u]]
      BY <1>0, <2>3 DEF BInv, Shapes
    <3> HIDE DEF r, sync
    <3>2. barrier' = [leases |-> barrier.leases \cup {"sync"}, transition |-> Nobody]
      BY <2>3 DEF Leased, Admitting, BInv, Shapes, BarrierShape
    <3>3. /\ \A u \in Task : u \notin {"sync", t} => tasks'[u] = tasks[u]
          /\ tasks'["sync"] = sync /\ tasks'[t] = r
      BY <1>0, <3>1
    <3>4. Shapes'
      BY <1>1, <1>2, <2>3, <3>1, <3>2, <3>3 DEF BInv, Shapes, BarrierShape, Fits
    <3>5. Holders'
      BY <1>0, <1>1, <1>2, <2>1, <3>2, <3>3 DEF BInv, Holders, Fits, Apart
    <3>6. Owner'
      BY <3>2 DEF Owner
    <3>7. MB!Admit("sync")
      BY <2>3, <3>2 DEF MB!Admit, Admitting
    <3> QED  BY <1>0, <3>4, <3>5, <3>6, <3>7 DEF BStep, BInv, MB!Next
  <2>4. CASE Goto(t, w) /\ AuthKept /\ barrier' = barrier
    <3> HIDE DEF w
    <3> QED  BY <1>0, <1>1, <2>1, <2>4, GoesOn DEF Apart
  <2>5. CASE Goto(t, r) /\ UNCHANGED <<auth, barrier>>
    <3> HIDE DEF r
    <3> QED  BY <1>0, <1>1, <2>1, <2>5, Moves DEF Apart
  <2> QED  BY <1>0, <2>2, <2>3, <2>4, <2>5, Dies
<1> QED
  BY <1>3, <1>4

(* The sync that several tasks wait for, and what happens to nobody's task.*)
LEMMA SyncHolds ==
    ASSUME BInv, SyncStep \/ \E s \in Session : EndingStep(s)
    PROVE  BStep
<1>1. CASE SyncEnds
  <2> DEFINE r(t) == [tasks[t] EXCEPT !.pc = tasks[t].then, !.answer = flight.sync.answer]
  <2>1. \A t \in Task : Fits(r(t), tasks[t].then) /\ tasks[t].then \notin Apart
    <3>1. ASSUME NEW t \in Task
          PROVE  Fits(r(t), tasks[t].then) /\ tasks[t].then \notin Apart
      <4>1. Fits(tasks[t], tasks[t].pc)
        BY TaskFits
      <4>2. Fits(r(t), tasks[t].then)
        BY <4>1, TaskFields
      <4> QED  BY <4>1, <4>2 DEF Fits
    <3> QED  BY <3>1
  <2>2. /\ tasks' = [t \in Task |-> IF tasks[t].pc = "syncing" THEN r(t) ELSE tasks[t]]
        /\ UNCHANGED <<auth, barrier>>
    BY <1>1 DEF SyncEnds
  <2> HIDE DEF r
  <2>3. BInv'
    BY <2>1, <2>2 DEF BInv, Shapes, Holders, Owner, Fits, Apart
  <2>4. Granted' = Granted
    BY <2>1, <2>2, DeviceAssumption DEF Granted, BInv, Owner, Fits, Apart
  <2> QED  BY <2>2, <2>3, <2>4 DEF BStep, MB!vars, Granted
<1>2. CASE SyncLost \/ SyncRefused \/ SyncPushed \/ SyncPulled
  <2>1. UNCHANGED <<tasks, barrier>>
    BY <1>2 DEF SyncLost, SyncRefused, SyncPushed, SyncPulled
  <2>2. auth' = auth => AuthKept
    BY AuthKeeps DEF AuthKept
  <2>3. AuthKept
    BY <1>2, <2>2, ReportKeeps DEF SyncLost, SyncRefused, SyncPushed, SyncPulled
  <2> QED  BY <2>1, <2>3, Stays
<1>3. ASSUME NEW s \in Session, EndingMarks(s) PROVE BStep
  <2> DEFINE broken == auth.broken \/ StillEnding(s)
  <2>1. UNCHANGED <<tasks, barrier>>
    BY <1>3 DEF EndingMarks
  <2>2. auth' = auth \/ auth' = [auth EXCEPT !.broken = broken]
    BY <1>3, Zenon DEF EndingMarks
  <2> HIDE DEF broken
  <2>3. Keeps([auth EXCEPT !.broken = broken], auth.switching)
    BY AuthKeeps, AuthField
  <2>4. AuthKept
    BY <2>2, <2>3, AuthKeeps DEF AuthKept
  <2> QED  BY <2>1, <2>4, Stays
<1>4. ASSUME NEW s \in Session, EndingClears(s) PROVE BStep
  <2> DEFINE a == [auth EXCEPT !.session = None, !.locked = FALSE, !.broken = FALSE]
             b == [auth EXCEPT !.session = None]
             c == [b EXCEPT !.locked = FALSE]
  <2>1. UNCHANGED <<tasks, barrier>>
    BY <1>4 DEF EndingClears
  <2>2. auth' = auth \/ auth' = a
    BY <1>4 DEF EndingClears
  <2>3. Keeps(b, auth.switching)
    BY AuthKeeps, AuthField
  <2>4. Keeps(c, auth.switching)
    <3> HIDE DEF b
    <3> QED  BY <2>3, AuthField
  <2>5. a = [c EXCEPT !.broken = FALSE]
    OBVIOUS
  <2>6. Keeps(a, auth.switching)
    <3> HIDE DEF c, a
    <3>1. Keeps([c EXCEPT !.broken = FALSE], auth.switching)
      BY <2>4, AuthField
    <3> QED  BY <2>5, <3>1
  <2>7. AuthKept
    <3> HIDE DEF a
    <3> QED  BY <2>2, <2>6, AuthKeeps DEF AuthKept
  <2> QED  BY <2>1, <2>7, Stays
<1> QED
  BY <1>1, <1>2, <1>3, <1>4 DEF SyncStep, EndingStep

LEMMA KillHolds ==
    ASSUME BInv, Kill
    PROVE  BStep
<1>1. /\ tasks' = [t \in Task |-> Idle]
      /\ barrier' = [leases |-> {}, transition |-> Nobody]
      /\ auth' = Unstarted(None)
  BY DEF Kill
<1>2. BInv'
  BY <1>1, IdleFits
     DEF BInv, Shapes, Holders, Owner, AuthShape, BarrierShape, Unstarted, Fits
<1>3. MB!Kill
  BY <1>1 DEF MB!Kill
<1> QED
  BY <1>2, <1>3 DEF BStep, MB!Next

-----------------------------------------------------------------------------
(***************************************************************************)
(* Every step keeps the invariant, and is a step of the barrier or leaves  *)
(* it as it is.                                                            *)
(***************************************************************************)
LEMMA NextHolds == BInv /\ [Next]_vars => BStep
<1> SUFFICES ASSUME BInv, [Next]_vars PROVE BStep
  OBVIOUS
<1>0. {"hydrate", "background", "sync", "login"} \cup Changer \subseteq Task
  BY DEF Task, Changer
<1>1. CASE Begin
  BY <1>0, <1>1, HydrateHolds, SyncTaskHolds, PersistHolds, AccessHolds, ChangeHolds
     DEF Begin
<1>2. ASSUME NEW t \in Task, TaskStep(t) PROVE BStep
  BY <1>2, HydrateHolds, SyncTaskHolds, RecoveryHolds, ChangeHolds, OutcomeHolds,
     PersistHolds, AccessHolds, RevalidateHolds
     DEF TaskStep
<1>3. CASE SyncStep \/ \E s \in Session : EndingStep(s)
  BY <1>3, SyncHolds
<1>4. CASE Elsewhere \/ vars' = vars
  <2>1. UNCHANGED <<tasks, barrier, auth>>
    BY <1>4 DEF Elsewhere, Reset, Disable, Suspend, Revoke, Happens, vars, memory
  <2> QED  BY <2>1, Stays, AuthKeeps DEF AuthKept
<1>5. CASE Kill
  BY <1>5, KillHolds
<1> QED
  BY <1>1, <1>2, <1>3, <1>4, <1>5 DEF Next

(***************************************************************************)
(* The tasks of the device keep the promise of the mutation barrier        *)
(* (mutation-barrier.ts): nobody is admitted from the moment a change of   *)
(* sessions has asked for the transition, and it goes on only when the     *)
(* last local access has been given back.                                  *)
(***************************************************************************)
THEOREM DeviceKeepsBarrier == Spec => BarrierSpec
<1>1. Init => BInv /\ MB!Init
  BY InitHolds
<1>2. BInv /\ [Next]_vars => BInv' /\ [MB!Next]_(MB!vars)
  BY NextHolds DEF BStep
<1> QED
  BY <1>1, <1>2, PTL DEF Spec, BarrierSpec, MB!Spec

(***************************************************************************)
(* A task past the wait for its transition has the device's data to itself *)
(* (beginModeTransition): nobody, not even the task itself, has local      *)
(* access then, and the task is the one that switchingMode names.          *)
(***************************************************************************)
Alone ==
    Granted => barrier.leases = {} /\ auth.switching = barrier.transition

THEOREM ChangesAlone == Spec => []Alone
<1>1. BInv => Alone
  BY DEF BInv, Owner, Alone, Granted
<1>2. BInv /\ [Next]_vars => BInv'
  BY NextHolds DEF BStep
<1> QED
  BY <1>1, <1>2, InitHolds, PTL DEF Spec

-----------------------------------------------------------------------------
(***************************************************************************)
(* One recovery at a time, and one exchange of a retired session.  Both    *)
(* rest on the transition: the task that recovers holds it from its wait   *)
(* to its result, so nobody else touches what recoveries have come to; and *)
(* a session just issued has not been recovered, because nobody can know   *)
(* it before it is issued.                                                 *)
(***************************************************************************)
ServerShape(v) ==
    v = [issued |-> v.issued, generation |-> v.generation, enabled |-> v.enabled,
         open |-> v.open, rows |-> v.rows]

DiskShape(d) ==
    d = [stored |-> d.stored, generation |-> d.generation, outbox |-> d.outbox,
         barred |-> d.barred]

FlightShape(f) ==
    /\ f = [sync |-> f.sync, recovery |-> f.recovery, ending |-> f.ending,
            headless |-> f.headless, last |-> f.last]
    /\ f.sync = [of |-> f.sync.of, stage |-> f.sync.stage, answer |-> f.sync.answer]

RecoveryShape(r) ==
    r = [stage |-> r.stage, target |-> r.target, result |-> r.result, posts |-> r.posts]

(* What the recoveries may be when n sessions have been issued. *)
Recovered(rec, n) ==
    /\ rec = [s \in Session |-> rec[s]]
    /\ \A s \in Session :
          /\ RecoveryShape(rec[s])
          /\ rec[s].result \in 0 .. n
          /\ rec[s].posts \in {0, 1}
          /\ rec[s].stage = "none" \/ s > n => rec[s].posts = 0

(* Nobody has asked for the exchange of s yet; a recovery is about to.     *)
Unasked(s, rec) == s \in Session => rec[s].posts = 0
Pending(s, rec) == s \in Session => rec[s].posts = 0 /\ rec[s].stage # "none"

Thens == {"none", "synced", "changing", "resynced", "entered"}
Underway == {"sync", "syncing"}

(* Task t at q is on its way to another session, or recovers one. *)
OnItsWay(t, q) ==
    \/ t \in Changer /\ q.pc # "idle"
    \/ q.pc \in Recovering \cup {"draining"}
    \/ q.pc \in Underway /\ q.then = "resynced"

(* The session of task t at q has not been exchanged by a recovery. *)
NotAsked(t, q, rec) ==
    /\ q.pc = "draining" /\ t \notin Changer => Pending(q.mine, rec)
    /\ q.pc \in {"recovering", "rotating"} => Pending(q.mine, rec)
    /\ t = "switchMode" /\ (q.pc \in {"issued", "entered"}
                               \/ (q.pc \in Underway /\ q.then = "entered"))
          => Unasked(q.next, rec)

(* A task that syncs or asks about a recovery does so for a session.       *)
Placed(t, q) ==
    \/ t \in {"background", "sync"} /\ q.pc \notin {"idle", "woken"}
    \/ q.pc \in {"checking", "awaiting"}
    => q.mine \in Session

(* Task t may be at q while who holds the transition. *)
Safe(t, q, who, n, rec) ==
    /\ q.then \in Thens
    /\ q.mine \in 0 .. n /\ q.next \in 0 .. n
    /\ OnItsWay(t, q) => who = t
    /\ NotAsked(t, q, rec)
    /\ Placed(t, q)

Known ==
    /\ ServerShape(server) /\ server.issued \in 0 .. MaxSession
    /\ DiskShape(disk) /\ disk.stored \in 0 .. server.issued
    /\ auth.session \in 0 .. server.issued
    /\ FlightShape(flight) /\ flight.sync.of \in 0 .. server.issued
    /\ Recovered(flight.recovery, server.issued)

Careful ==
    \A t \in Task : Safe(t, tasks[t], barrier.transition, server.issued, flight.recovery)

RInv == BInv /\ Known /\ Careful

-----------------------------------------------------------------------------
(***************************************************************************)
(* What an assignment to the storage, the sessions, the single flights and *)
(* a task's record leaves.                                                 *)
(***************************************************************************)
DiskGood(d) == DiskShape(d) /\ d.stored \in 0 .. server.issued
ShownGood(a) == AuthShape(a) /\ a.session \in 0 .. server.issued
FlightGood(f) ==
    /\ FlightShape(f)
    /\ f.recovery = flight.recovery
    /\ f.sync.of \in 0 .. server.issued
RecGood(f) ==
    /\ FlightShape(f)
    /\ Recovered(f.recovery, server.issued)
    /\ f.sync.of \in 0 .. server.issued

LEMMA KnownGood ==
    ASSUME RInv
    PROVE  /\ DiskGood(disk) /\ ShownGood(auth) /\ FlightGood(flight)
           /\ 0 \in 0 .. server.issued /\ server.issued \in Nat
           /\ \A s \in 0 .. server.issued : s # None => s \in Session
           /\ \A t \in Task : tasks[t].mine \in 0 .. server.issued
                              /\ tasks[t].next \in 0 .. server.issued
                              /\ tasks[t].then \in Thens
                              /\ Placed(t, tasks[t])
BY DeviceAssumption
   DEF RInv, BInv, Shapes, Known, Careful, Safe, DiskGood, ShownGood, FlightGood, None, Session

LEMMA DiskField ==
    ASSUME NEW d, DiskShape(d), NEW x
    PROVE  /\ DiskShape([d EXCEPT !.stored = x]) /\ [d EXCEPT !.stored = x].stored = x
           /\ DiskShape([d EXCEPT !.generation = x])
           /\ [d EXCEPT !.generation = x].stored = d.stored
           /\ DiskShape([d EXCEPT !.outbox = x])
           /\ [d EXCEPT !.outbox = x].stored = d.stored
           /\ DiskShape([d EXCEPT !.barred = x])
           /\ [d EXCEPT !.barred = x].stored = d.stored
BY SMT DEF DiskShape

LEMMA DiskCleared ==
    ASSUME NEW d, DiskShape(d)
    PROVE  DiskShape(Cleared(d)) /\ Cleared(d).stored = d.stored
<1> DEFINE outbox == [d.outbox EXCEPT !["sandbox"] = {}]
           barred == [d.barred EXCEPT !["sandbox"] = FALSE]
           m == [d EXCEPT !.generation = 0]
           n == [m EXCEPT !.outbox = outbox]
<1>1. DiskShape(m) /\ m.stored = d.stored /\ m.outbox = d.outbox /\ m.barred = d.barred
  BY SMT DEF DiskShape
<1>2. Cleared(d) = [[m EXCEPT !.outbox["sandbox"] = {}] EXCEPT !.barred["sandbox"] = FALSE]
  BY Zenon DEF Cleared
<1> HIDE DEF m
<1>3. [m EXCEPT !.outbox["sandbox"] = {}] = n
  BY <1>1 DEF DiskShape
<1>4. DiskShape(n) /\ n.stored = d.stored /\ n.barred = d.barred
  BY <1>1, SMT DEF DiskShape
<1>5. Cleared(d) = [n EXCEPT !.barred["sandbox"] = FALSE]
  BY <1>2, <1>3
<1> HIDE DEF n
<1>6. Cleared(d) = [n EXCEPT !.barred = barred]
  BY <1>4, <1>5 DEF DiskShape
<1> HIDE DEF barred
<1>7. DiskShape([n EXCEPT !.barred = barred]) /\ [n EXCEPT !.barred = barred].stored = n.stored
  BY <1>4, DiskField, Zenon
<1> QED  BY <1>4, <1>6, <1>7, Zenon

LEMMA DiskPrepared ==
    ASSUME NEW d, DiskShape(d), NEW s
    PROVE  DiskShape(Prepared(d, s)) /\ Prepared(d, s).stored = d.stored
<1> DEFINE m == Cleared(d)
           x == Row(s).generation
<1>1. DiskShape(m) /\ m.stored = d.stored
  BY DiskCleared
<1>2. Prepared(d, s) = d \/ Prepared(d, s) = [m EXCEPT !.generation = x]
  BY Zenon DEF Prepared
<1> HIDE DEF m, x
<1>3. DiskShape([m EXCEPT !.generation = x]) /\ [m EXCEPT !.generation = x].stored = m.stored
  BY <1>1, DiskField, Zenon
<1> QED  BY <1>1, <1>2, <1>3, Zenon

LEMMA DiskHolding ==
    ASSUME NEW d, DiskShape(d), NEW s \in 0 .. server.issued
    PROVE  DiskGood(Holding(d, s))
BY DiskField DEF Holding, DiskGood

LEMMA DiskOutbox ==
    ASSUME NEW d, DiskGood(d), NEW s, NEW x
    PROVE  /\ DiskGood([d EXCEPT !.outbox[Row(s).mode] = x])
           /\ DiskGood([d EXCEPT !.barred[Row(s).mode] = x])
<1> DEFINE outbox == [d.outbox EXCEPT ![Row(s).mode] = x]
           barred == [d.barred EXCEPT ![Row(s).mode] = x]
<1>1. /\ [d EXCEPT !.outbox[Row(s).mode] = x] = [d EXCEPT !.outbox = outbox]
      /\ [d EXCEPT !.barred[Row(s).mode] = x] = [d EXCEPT !.barred = barred]
  BY DEF DiskGood, DiskShape
<1> HIDE DEF outbox, barred
<1> QED  BY <1>1, DiskField DEF DiskGood

LEMMA DiskOps ==
    ASSUME NEW d, DiskGood(d), NEW s, NEW t
    PROVE  /\ DiskGood(Cleared(d)) /\ DiskGood(Prepared(d, s))
           /\ DiskGood(Quarantined(d, s)) /\ DiskGood(Released(d, s))
           /\ DiskGood(Revalidated(t, d, s))
           /\ s \in 0 .. server.issued => DiskGood(Holding(d, s))
<1>1. DiskGood(Cleared(d)) /\ DiskGood(Prepared(d, s))
  BY DiskCleared, DiskPrepared DEF DiskGood
<1>2. DiskGood(Released(d, s)) /\ DiskGood(Revalidated(t, d, s))
  <2> DEFINE x == IF d.outbox[Row(s).mode] = {} THEN d.outbox[Row(s).mode] ELSE {"ready"}
  <2>1. Released(d, s) = [d EXCEPT !.outbox[Row(s).mode] = x]
    BY DEF Released, DiskGood, DiskShape
  <2> HIDE DEF x
  <2>2. /\ DiskGood([d EXCEPT !.outbox[Row(s).mode] = x])
        /\ DiskGood([d EXCEPT !.barred[Row(s).mode] = FALSE])
    BY DiskOutbox, Zenon
  <2>3. Revalidated(t, d, s) = d \/ Revalidated(t, d, s) = [d EXCEPT !.barred[Row(s).mode] = FALSE]
    BY Zenon DEF Revalidated
  <2> QED  BY <2>1, <2>2, <2>3, Zenon
<1>3. DiskGood(Quarantined(d, s))
  <2> DEFINE m == [d EXCEPT !.barred[Row(s).mode] = TRUE]
             x == IF m.outbox[Row(s).mode] = {} THEN m.outbox[Row(s).mode] ELSE {"held"}
  <2>1. Quarantined(d, s) = d \/ Quarantined(d, s) = [m EXCEPT !.outbox[Row(s).mode] = x]
    BY DEF Quarantined, DiskGood, DiskShape
  <2>2. DiskGood(m)
    BY DiskOutbox
  <2> HIDE DEF m, x
  <2>3. DiskGood([m EXCEPT !.outbox[Row(s).mode] = x])
    BY <2>2, DiskOutbox
  <2> QED  BY <2>1, <2>3
<1> QED
  BY <1>1, <1>2, <1>3, DiskHolding DEF DiskGood

LEMMA ShownOps ==
    ASSUME RInv, NEW s \in 0 .. server.issued, NEW x
    PROVE  /\ ShownGood(Exposed(auth, s, x)) /\ ShownGood(Booted(auth))
           /\ ShownGood(Locked(auth)) /\ ShownGood(Exposed(Booted(auth), s, x))
           /\ ShownGood([Booted(auth) EXCEPT !.broken = x])
           /\ ShownGood([auth EXCEPT !.broken = x])
           /\ ShownGood([auth EXCEPT !.session = s])
<1>1. ShownGood(auth)
  BY KnownGood
<1>2. ASSUME NEW a, ShownGood(a)
      PROVE  /\ ShownGood(Booted(a)) /\ ShownGood(Locked(a))
             /\ ShownGood([a EXCEPT !.broken = x]) /\ ShownGood([a EXCEPT !.session = s])
  <2>1. ASSUME NEW b, \/ b = [a EXCEPT !.booting = FALSE]
                      \/ b = [a EXCEPT !.locked = TRUE]
                      \/ b = [a EXCEPT !.broken = x]
        PROVE  ShownGood(b)
    BY <1>2, <2>1, SMT DEF ShownGood, AuthShape
  <2>2. ASSUME NEW b, b = [a EXCEPT !.session = s]
        PROVE  ShownGood(b)
    BY <1>2, <2>2, SMT DEF ShownGood, AuthShape
  <2> QED  BY <2>1, <2>2, Zenon DEF Booted, Locked
<1>3. ASSUME NEW a, ShownGood(a)
      PROVE  ShownGood(Exposed(a, s, x))
  <2> DEFINE m == [a EXCEPT !.session = s]
  <2>1. ShownGood(m) /\ Exposed(a, s, x) = [m EXCEPT !.broken = x]
    BY <1>2, <1>3, Zenon DEF Exposed
  <2> HIDE DEF m
  <2>2. ShownGood([m EXCEPT !.broken = x])
    BY <1>2, <2>1, Zenon
  <2> QED  BY <2>1, <2>2, Zenon
<1> QED
  BY <1>1, <1>2, <1>3, Zenon

LEMMA ShownField ==
    ASSUME NEW a, ShownGood(a), NEW x
    PROVE  /\ ShownGood([a EXCEPT !.locked = x]) /\ ShownGood([a EXCEPT !.switching = x])
           /\ ShownGood([a EXCEPT !.broken = x])
BY DEF ShownGood, AuthShape

(* g has of the sync's session and of the recoveries what f has. *)
FlightLike(g, f) ==
    FlightShape(g) /\ g.recovery = f.recovery /\ g.sync.of = f.sync.of

LEMMA FlightField ==
    ASSUME NEW f, NEW g, FlightLike(f, g), NEW s, NEW x
    PROVE  /\ FlightLike([f EXCEPT !.sync.stage = x], g)
           /\ FlightLike([f EXCEPT !.sync.answer = x], g)
           /\ FlightLike([f EXCEPT !.last = x], g)
           /\ FlightLike([f EXCEPT !.ending[s] = x], g)
           /\ FlightLike([f EXCEPT !.headless[s] = x], g)
<1>1. ASSUME NEW h, h = [f EXCEPT !.sync.stage = x]
      PROVE  FlightLike(h, g)
  BY <1>1, SMT DEF FlightLike, FlightShape
<1>2. ASSUME NEW h, h = [f EXCEPT !.sync.answer = x]
      PROVE  FlightLike(h, g)
  BY <1>2, SMT DEF FlightLike, FlightShape
<1>3. ASSUME NEW h, h = [f EXCEPT !.last = x]
      PROVE  FlightLike(h, g)
  BY <1>3, SMT DEF FlightLike, FlightShape
<1>4. ASSUME NEW h, h = [f EXCEPT !.ending[s] = x]
      PROVE  FlightLike(h, g)
  BY <1>4, SMT DEF FlightLike, FlightShape
<1>5. ASSUME NEW h, h = [f EXCEPT !.headless[s] = x]
      PROVE  FlightLike(h, g)
  BY <1>5, SMT DEF FlightLike, FlightShape
<1> QED
  BY <1>1, <1>2, <1>3, <1>4, <1>5, Zenon

LEMMA FlightFields ==
    ASSUME NEW f, NEW g, FlightLike(f, g), NEW s, NEW x, NEW y
    PROVE  /\ FlightLike([f EXCEPT !.sync.stage = x, !.sync.answer = y], g)
           /\ FlightLike([f EXCEPT !.ending[s] = "marking", !.last = s, !.headless[s] = x], g)
<1> DEFINE m == [f EXCEPT !.sync.stage = x]
           n == [f EXCEPT !.ending[s] = "marking"]
           l == [n EXCEPT !.last = s]
<1>1. FlightLike(m, g) /\ FlightLike(n, g)
  BY FlightField, Zenon
<1>2. FlightLike(l, g)
  <2> HIDE DEF n
  <2> QED  BY <1>1, FlightField, Zenon
<1>3. FlightLike([m EXCEPT !.sync.answer = y], g)
  <2> HIDE DEF m
  <2> QED  BY <1>1, FlightField, Zenon
<1>4. FlightLike([l EXCEPT !.headless[s] = x], g)
  <2> HIDE DEF l
  <2> QED  BY <1>2, FlightField, Zenon
<1> QED
  BY <1>3, <1>4, Zenon

LEMMA FlightLikeGood ==
    ASSUME RInv, NEW f, FlightLike(f, flight)
    PROVE  FlightGood(f)
BY KnownGood DEF FlightLike, FlightGood

LEMMA FlightSyncs ==
    ASSUME RInv, NEW s \in 0 .. server.issued, NEW x, NEW y
    PROVE  FlightGood([flight EXCEPT !.sync = [of |-> s, stage |-> x, answer |-> y]])
<1> DEFINE sync == [of |-> s, stage |-> x, answer |-> y]
           g == [flight EXCEPT !.sync = sync]
<1>1. sync = [of |-> sync.of, stage |-> sync.stage, answer |-> sync.answer] /\ sync.of = s
  BY SMT
<1>2. FlightShape(flight)
  BY KnownGood DEF FlightGood
<1> HIDE DEF sync
<1>3. FlightGood(g)
  BY <1>1, <1>2, SMT DEF FlightShape, FlightGood
<1> QED  BY <1>3, Zenon DEF sync

LEMMA RecoveryKept ==
    ASSUME RInv, NEW f, NEW g
    PROVE  /\ FlightGood(f) => RecGood(f)
           /\ RecGood(flight)
           /\ FlightLike(f, g) /\ RecGood(g) => RecGood(f)
BY DEF RInv, Known, FlightGood, RecGood, FlightLike

(* What is written into one recovery. *)
RecoveryIs(r, stage, result, posts) ==
    RecoveryShape(r) /\ r.stage = stage /\ r.result = result /\ r.posts = posts

LEMMA RecoveryField ==
    ASSUME server.issued \in Nat, NEW f, RecGood(f), NEW s, NEW x
    PROVE  /\ x # "none" =>
                 /\ RecGood([f EXCEPT !.recovery[s].stage = x])
                 /\ Unasked(s, f.recovery)
                       => Pending(s, [f EXCEPT !.recovery[s].stage = x].recovery)
           /\ RecGood([f EXCEPT !.recovery[s].target = x])
           /\ Pending(s, f.recovery)
                 => Pending(s, [f EXCEPT !.recovery[s].target = x].recovery)
           /\ x \in 0 .. server.issued =>
                 /\ RecGood([f EXCEPT !.recovery[s].result = x])
                 /\ Pending(s, f.recovery)
                       => Pending(s, [f EXCEPT !.recovery[s].result = x].recovery)
           /\ Pending(s, f.recovery) /\ s \in 0 .. server.issued /\ (s \in Session => x = 1)
                 => RecGood([f EXCEPT !.recovery[s].posts = x])
<1>0. /\ f.recovery = [u \in Session |-> f.recovery[u]]
      /\ FlightShape(f)
  BY DEF RecGood, Recovered
<1>1. ASSUME NEW g, g = [f EXCEPT !.recovery[s].stage = x], x # "none"
      PROVE  RecGood(g) /\ (Unasked(s, f.recovery) => Pending(s, g.recovery))
  <2> DEFINE q == f.recovery[s]
             r == [q EXCEPT !.stage = x]
             rec == [f.recovery EXCEPT ![s] = r]
  <2>1. g = [f EXCEPT !.recovery = rec]
    BY <1>0, <1>1, SMT DEF FlightShape
  <2>2. s \in Session => RecoveryIs(r, x, q.result, q.posts)
    <3>1. s \in Session => RecoveryShape(q)
      BY DEF RecGood, Recovered
    <3> HIDE DEF q
    <3> QED  BY <3>1, SMT DEF RecoveryShape, RecoveryIs
  <2> HIDE DEF r
  <2>3. /\ rec = [u \in Session |-> rec[u]]
        /\ \A u \in Session \ {s} : rec[u] = f.recovery[u]
        /\ s \in Session => rec[s] = r
    BY <1>0, SMT
  <2> HIDE DEF rec
  <2>4. FlightShape(g) /\ g.sync = f.sync /\ g.recovery = rec
    BY <1>0, <2>1, SMT DEF FlightShape
  <2>5. x # "none"
    BY <1>1
  <2> QED  BY <2>2, <2>3, <2>4, <2>5 DEF RecGood, Recovered, RecoveryIs, Unasked, Pending
<1>2. ASSUME NEW g, g = [f EXCEPT !.recovery[s].target = x]
      PROVE  RecGood(g) /\ (Pending(s, f.recovery) => Pending(s, g.recovery))
  <2> DEFINE q == f.recovery[s]
             r == [q EXCEPT !.target = x]
             rec == [f.recovery EXCEPT ![s] = r]
  <2>1. g = [f EXCEPT !.recovery = rec]
    BY <1>0, <1>2, SMT DEF FlightShape
  <2>2. s \in Session => RecoveryIs(r, q.stage, q.result, q.posts)
    <3>1. s \in Session => RecoveryShape(q)
      BY DEF RecGood, Recovered
    <3> HIDE DEF q
    <3> QED  BY <3>1, SMT DEF RecoveryShape, RecoveryIs
  <2> HIDE DEF r
  <2>3. /\ rec = [u \in Session |-> rec[u]]
        /\ \A u \in Session \ {s} : rec[u] = f.recovery[u]
        /\ s \in Session => rec[s] = r
    BY <1>0, SMT
  <2> HIDE DEF rec
  <2>4. FlightShape(g) /\ g.sync = f.sync /\ g.recovery = rec
    BY <1>0, <2>1, SMT DEF FlightShape
  <2> QED  BY <2>2, <2>3, <2>4 DEF RecGood, Recovered, RecoveryIs, Pending
<1>3. ASSUME NEW g, g = [f EXCEPT !.recovery[s].result = x], x \in 0 .. server.issued
      PROVE  RecGood(g) /\ (Pending(s, f.recovery) => Pending(s, g.recovery))
  <2> DEFINE q == f.recovery[s]
             r == [q EXCEPT !.result = x]
             rec == [f.recovery EXCEPT ![s] = r]
  <2>1. g = [f EXCEPT !.recovery = rec]
    BY <1>0, <1>3, SMT DEF FlightShape
  <2>2. s \in Session => RecoveryIs(r, q.stage, x, q.posts)
    <3>1. s \in Session => RecoveryShape(q)
      BY DEF RecGood, Recovered
    <3> HIDE DEF q
    <3> QED  BY <3>1, SMT DEF RecoveryShape, RecoveryIs
  <2> HIDE DEF r
  <2>3. /\ rec = [u \in Session |-> rec[u]]
        /\ \A u \in Session \ {s} : rec[u] = f.recovery[u]
        /\ s \in Session => rec[s] = r
    BY <1>0, SMT
  <2> HIDE DEF rec
  <2>4. FlightShape(g) /\ g.sync = f.sync /\ g.recovery = rec
    BY <1>0, <2>1, SMT DEF FlightShape
  <2>5. x \in 0 .. server.issued
    BY <1>3
  <2> QED  BY <2>2, <2>3, <2>4, <2>5 DEF RecGood, Recovered, RecoveryIs, Pending
<1>4. ASSUME NEW g, g = [f EXCEPT !.recovery[s].posts = x], s \in Session => x = 1,
             Pending(s, f.recovery), s \in 0 .. server.issued
      PROVE  RecGood(g)
  <2> DEFINE q == f.recovery[s]
             r == [q EXCEPT !.posts = x]
             rec == [f.recovery EXCEPT ![s] = r]
  <2>1. g = [f EXCEPT !.recovery = rec]
    BY <1>0, <1>4, SMT DEF FlightShape
  <2>2. s \in Session => RecoveryIs(r, q.stage, q.result, x)
    <3>1. s \in Session => RecoveryShape(q)
      BY DEF RecGood, Recovered
    <3> HIDE DEF q
    <3> QED  BY <3>1, SMT DEF RecoveryShape, RecoveryIs
  <2> HIDE DEF r
  <2>3. /\ rec = [u \in Session |-> rec[u]]
        /\ \A u \in Session \ {s} : rec[u] = f.recovery[u]
        /\ s \in Session => rec[s] = r
    BY <1>0, SMT
  <2> HIDE DEF rec
  <2>4. FlightShape(g) /\ g.sync = f.sync /\ g.recovery = rec
    BY <1>0, <2>1, SMT DEF FlightShape
  <2>5. (s \in Session => x = 1) /\ Pending(s, f.recovery) /\ s \in 0 .. server.issued
    BY <1>4
  <2> QED  BY <2>2, <2>3, <2>4, <2>5 DEF RecGood, Recovered, RecoveryIs, Pending
<1> QED
  BY <1>1, <1>2, <1>3, <1>4, Zenon

(* Task t at r is on its way to nothing that it was not on its way to. *)
Ordinary(t, r) ==
    /\ Placed(t, r)
    /\ r.then \in Thens
    /\ r.pc \notin Recovering \cup {"draining", "issued", "entered"}
    /\ r.pc \in Underway => r.then # "resynced" /\ ~(r.then = "entered" /\ t = "switchMode")

LEMMA OrdinarySafe ==
    ASSUME NEW t, NEW q, NEW r, NEW who, NEW n, NEW rec, Safe(t, q, who, n, rec),
           Ordinary(t, r), r.mine \in 0 .. n, r.next \in 0 .. n,
           q.pc # "idle" \/ t \notin Changer
    PROVE  Safe(t, r, who, n, rec)
BY DEF Safe, Ordinary, OnItsWay, NotAsked, Recovering, Underway

LEMMA IdleSafe ==
    ASSUME NEW t, NEW who, NEW n \in Nat, NEW rec
    PROVE  Safe(t, Idle, who, n, rec)
BY DEF Safe, Idle, OnItsWay, NotAsked, Placed, Recovering, Underway, Thens, None

(* What a task at q becomes. *)
Record(r, pc, mine, next, then) ==
    r.pc = pc /\ r.mine = mine /\ r.next = next /\ r.then = then

LEMMA RecordOf ==
    ASSUME NEW q, TaskShape(q), NEW pc, NEW x, NEW y, NEW then
    PROVE  /\ Record([q EXCEPT !.pc = pc], pc, q.mine, q.next, q.then)
           /\ Record([q EXCEPT !.pc = pc, !.answer = x], pc, q.mine, q.next, q.then)
           /\ Record([q EXCEPT !.pc = pc, !.target = x], pc, q.mine, q.next, q.then)
           /\ Record([q EXCEPT !.pc = pc, !.mine = x], pc, x, q.next, q.then)
           /\ Record([q EXCEPT !.pc = pc, !.mine = x, !.target = y], pc, x, q.next, q.then)
           /\ Record([q EXCEPT !.pc = pc, !.next = x], pc, q.mine, x, q.then)
           /\ Record([q EXCEPT !.pc = pc, !.mine = x, !.next = y], pc, x, y, q.then)
           /\ Record(Syncing(q, then), "sync", q.mine, q.next, then)
           /\ Record(Syncing([q EXCEPT !.mine = x], then), "sync", x, q.next, then)
<1>1. ASSUME NEW r, r = [q EXCEPT !.pc = pc]
      PROVE  Record(r, pc, q.mine, q.next, q.then)
  BY <1>1, SMT DEF TaskShape, Record
<1>2. ASSUME NEW r, r = [q EXCEPT !.pc = pc, !.answer = x]
      PROVE  Record(r, pc, q.mine, q.next, q.then)
  BY <1>2, SMT DEF TaskShape, Record
<1>3. ASSUME NEW r, r = [q EXCEPT !.pc = pc, !.target = x]
       PROVE  Record(r, pc, q.mine, q.next, q.then)
  BY <1>3, SMT DEF TaskShape, Record
<1>4. ASSUME NEW r, r = [q EXCEPT !.pc = pc, !.mine = x]
      PROVE  Record(r, pc, x, q.next, q.then)
  BY <1>4, SMT DEF TaskShape, Record
<1>5. ASSUME NEW r, r = [q EXCEPT !.pc = pc, !.mine = x, !.target = y]
       PROVE  Record(r, pc, x, q.next, q.then)
  BY <1>5, SMT DEF TaskShape, Record
<1>6. ASSUME NEW r, r = [q EXCEPT !.pc = pc, !.next = x]
      PROVE  Record(r, pc, q.mine, x, q.then)
  BY <1>6, SMT DEF TaskShape, Record
<1>7. ASSUME NEW r, r = [q EXCEPT !.pc = pc, !.mine = x, !.next = y]
      PROVE  Record(r, pc, x, y, q.then)
  BY <1>7, SMT DEF TaskShape, Record
<1>8. ASSUME NEW r, r = Syncing(q, then)
      PROVE  Record(r, "sync", q.mine, q.next, then)
  BY <1>8, SMT DEF Syncing, TaskShape, Record
<1>9. ASSUME NEW r, r = Syncing([q EXCEPT !.mine = x], then)
      PROVE  Record(r, "sync", x, q.next, then)
  BY <1>9, SMT DEF Syncing, TaskShape, Record
<1> QED
  BY <1>1, <1>2, <1>3, <1>4, <1>5, <1>6, <1>7, <1>8, <1>9, Zenon

LEMMA IdleRecord ==
    TaskShape(Idle) /\ Idle.pc = "idle" /\ Idle.mine = 0 /\ Idle.next = 0 /\ Idle.then = "none"
BY DEF Idle, TaskShape, None

LEMMA IdleOf ==
    ASSUME NEW pc, NEW x, NEW y
    PROVE  /\ Record([Idle EXCEPT !.pc = pc], pc, 0, 0, "none")
           /\ Record([Idle EXCEPT !.pc = pc, !.mine = x], pc, x, 0, "none")
           /\ Record([Idle EXCEPT !.pc = pc, !.mine = x, !.target = y], pc, x, 0, "none")
           /\ Record([Idle EXCEPT !.pc = pc, !.next = x], pc, 0, x, "none")
           /\ Record(Syncing([Idle EXCEPT !.mine = x], "synced"), "sync", x, 0, "synced")
<1> DEFINE q == Idle
<1>1. TaskShape(q) /\ q.mine = 0 /\ q.next = 0 /\ q.then = "none"
  BY IdleRecord
<1> HIDE DEF q
<1>2. /\ Record([q EXCEPT !.pc = pc], pc, q.mine, q.next, q.then)
      /\ Record([q EXCEPT !.pc = pc, !.mine = x], pc, x, q.next, q.then)
      /\ Record([q EXCEPT !.pc = pc, !.mine = x, !.target = y], pc, x, q.next, q.then)
      /\ Record([q EXCEPT !.pc = pc, !.next = x], pc, q.mine, x, q.then)
      /\ Record(Syncing([q EXCEPT !.mine = x], "synced"), "sync", x, q.next, "synced")
  BY <1>1, RecordOf, Zenon
<1>3. /\ Record([q EXCEPT !.pc = pc], pc, 0, 0, "none")
      /\ Record([q EXCEPT !.pc = pc, !.mine = x], pc, x, 0, "none")
      /\ Record([q EXCEPT !.pc = pc, !.mine = x, !.target = y], pc, x, 0, "none")
      /\ Record([q EXCEPT !.pc = pc, !.next = x], pc, 0, x, "none")
      /\ Record(Syncing([q EXCEPT !.mine = x], "synced"), "sync", x, 0, "synced")
  BY <1>1, <1>2, Zenon
<1> QED
  BY <1>3, Zenon DEF q

-----------------------------------------------------------------------------
(***************************************************************************)
(* The kinds of steps.                                                     *)
(***************************************************************************)
RStep == Known' /\ Careful'

Issues ==
    /\ ServerShape(server') /\ server'.issued \in {server.issued, server.issued + 1}
    /\ server'.issued <= MaxSession

LEMMA IssuesNone == RInv /\ server' = server => Issues
BY DeviceAssumption DEF RInv, Known, Issues

LEMMA KnownHolds ==
    ASSUME RInv, DiskGood(disk'), ShownGood(auth'), RecGood(flight'), Issues
    PROVE  Known'
<1>1. server'.issued \in Nat /\ 0 .. server.issued \subseteq 0 .. server'.issued
  BY DeviceAssumption DEF RInv, Known, Issues
<1>2. Recovered(flight'.recovery, server'.issued)
  BY <1>1 DEF RInv, Known, RecGood, Recovered, Session, Issues
<1> QED
  BY <1>1, <1>2 DEF Known, DiskGood, ShownGood, RecGood, Issues

LEMMA SafeGrows ==
    ASSUME RInv, Issues, NEW t \in Task
    PROVE  Safe(t, tasks[t], barrier.transition, server'.issued, flight.recovery)
<1>1. 0 .. server.issued \subseteq 0 .. server'.issued
  BY DeviceAssumption DEF RInv, Known, Issues
<1>2. Safe(t, tasks[t], barrier.transition, server.issued, flight.recovery)
  BY DEF RInv, Careful
<1> QED
  BY <1>1, <1>2 DEF Safe

(* Only a task on its way touches what recoveries have come to, and then   *)
(* no other task is on its way.                                            *)
LEMMA CarefulHolds ==
    ASSUME RInv, NEW t \in Task, NEW r, Goto(t, r), Issues,
           Safe(t, r, barrier'.transition, server'.issued, flight'.recovery),
           \A u \in Task : u # t /\ barrier.transition = u => barrier'.transition = u,
           flight'.recovery = flight.recovery \/ barrier.transition \in {t, Nobody}
    PROVE  Careful'
<1>1. tasks' = [u \in Task |-> IF u = t THEN r ELSE tasks[u]]
  BY DEF Goto, RInv, BInv, Shapes
<1>2. ASSUME NEW u \in Task, u # t
      PROVE  Safe(u, tasks[u], barrier'.transition, server'.issued, flight'.recovery)
  <2>1. Safe(u, tasks[u], barrier.transition, server'.issued, flight.recovery)
    BY SafeGrows
  <2>2. CASE flight'.recovery = flight.recovery
    BY <1>2, <2>1, <2>2 DEF Safe
  <2>3. CASE barrier.transition \in {t, Nobody}
    <3>1. ~OnItsWay(u, tasks[u])
      BY <1>2, <2>1, <2>3, DeviceAssumption DEF Safe
    <3>2. NotAsked(u, tasks[u], flight'.recovery)
      BY <3>1 DEF NotAsked, OnItsWay, Recovering, Changer, Underway
    <3> QED  BY <2>1, <3>1, <3>2 DEF Safe
  <2> QED  BY <2>2, <2>3
<1>3. \A u \in Task : Safe(u, tasks'[u], barrier'.transition, server'.issued, flight'.recovery)
  BY <1>1, <1>2
<1> QED
  BY <1>3 DEF Careful

(* Task t goes on, and has of the transition what it had. *)
LEMMA GoesSafely ==
    ASSUME RInv, NEW t \in Task, NEW r, Goto(t, r), Issues,
           Safe(t, r, barrier.transition, server.issued, flight.recovery),
           barrier'.transition = barrier.transition,
           DiskGood(disk'), ShownGood(auth'), FlightGood(flight')
    PROVE  RStep
<1>1. Safe(t, r, barrier.transition, server'.issued, flight.recovery)
  <2>1. 0 .. server.issued \subseteq 0 .. server'.issued
    BY DeviceAssumption DEF RInv, Known, Issues
  <2> QED  BY <2>1 DEF Safe
<1>2. flight'.recovery = flight.recovery
  BY DEF FlightGood
<1> QED
  BY <1>1, <1>2, RecoveryKept, KnownHolds, CarefulHolds DEF RStep

(* The usual case. *)
LEMMA GoesOrdinarily ==
    ASSUME RInv, NEW t \in Task, NEW r, Goto(t, r), server' = server,
           Ordinary(t, r), r.mine \in 0 .. server.issued, r.next \in 0 .. server.issued,
           tasks[t].pc # "idle" \/ t \notin Changer,
           barrier'.transition = barrier.transition,
           DiskGood(disk'), ShownGood(auth'), FlightGood(flight')
    PROVE  RStep
<1>1. Safe(t, tasks[t], barrier.transition, server.issued, flight.recovery)
  BY DEF RInv, Careful
<1>2. Safe(t, r, barrier.transition, server.issued, flight.recovery)
  BY <1>1, OrdinarySafe
<1> QED
  BY <1>2, IssuesNone, GoesSafely

(* Task t ends. *)
LEMMA EndsSafely ==
    ASSUME RInv, NEW t \in Task, NEW a, Ends(t, a), server' = server, ShownGood(a),
           DiskGood(disk'), FlightGood(flight')
    PROVE  RStep
<1>1. ShownGood(auth')
  BY ShownField, Zenon DEF Ends, Switched
<1>2. barrier' = [leases |-> barrier.leases \ {t},
                  transition |-> IF barrier.transition = t THEN Nobody ELSE barrier.transition]
  BY DEF Ends, Given, Opened, RInv, BInv, Shapes, BarrierShape
<1>3. Goto(t, Idle)
  BY DEF Ends
<1>4. Safe(t, Idle, barrier'.transition, server'.issued, flight'.recovery)
  BY IdleSafe DEF RInv, Known
<1> QED
  BY <1>1, <1>2, <1>3, <1>4, IssuesNone, RecoveryKept, KnownHolds, CarefulHolds DEF RStep, FlightGood

(* Nobody's task moves. *)
LEMMA StaysSafe ==
    ASSUME RInv, UNCHANGED <<tasks, barrier>>, Issues,
           DiskGood(disk'), ShownGood(auth'), FlightGood(flight')
    PROVE  RStep
<1>1. Careful'
  BY SafeGrows DEF Careful, FlightGood
<1> QED
  BY <1>1, RecoveryKept, KnownHolds DEF RStep

(* A report to handleAccessFailure. *)
LEMMA ReportGood ==
    ASSUME RInv, NEW s, NEW answer, NEW f, NEW d, Reported(s, answer, f, d), FlightShape(f),
           DiskGood(d)
    PROVE  DiskGood(disk') /\ ShownGood(auth') /\ FlightLike(flight', f)
<1>1. FlightLike(f, f)
  BY DEF FlightLike
<1>2. CASE answer = "unauthorized" /\ Invalidates(s)
  <2>1. auth' = Locked(auth) /\ disk' = d
    BY <1>2 DEF Reported
  <2>2. PICK x : flight' = [f EXCEPT !.ending[s] = "marking", !.last = s, !.headless[s] = x]
    BY <1>2 DEF Reported
  <2>3. FlightLike([f EXCEPT !.ending[s] = "marking", !.last = s, !.headless[s] = x], f)
    BY <1>1, FlightFields, Zenon
  <2>4. ShownGood(Locked(auth))
    BY ShownOps, KnownGood, Zenon
  <2> QED  BY <2>1, <2>2, <2>3, <2>4, Zenon
<1>3. CASE ~(answer = "unauthorized" /\ Invalidates(s))
  <2>1. /\ auth' = auth \/ auth' = Locked(auth)
        /\ disk' = d \/ disk' = Quarantined(d, s)
        /\ flight' = f
    BY <1>3 DEF Reported
  <2> QED  BY <1>1, <2>1, KnownGood, ShownOps, DiskOps
<1> QED
  BY <1>2, <1>3

LEMMA TransitionKept ==
    ASSUME RInv, NEW t
    PROVE  /\ Leased(t).transition = barrier.transition
           /\ Yielded(t).transition = barrier.transition
           /\ Closed(t).transition = t
BY DEF Leased, Yielded, Closed, RInv, BInv, Shapes, BarrierShape

LEMMA TaskNames ==
    /\ Changer \subseteq Task
    /\ {"hydrate", "background", "sync", "login", "profile", "write", "revalidate"}
           \subseteq Task \ Changer
BY DEF Task, Changer

LEMMA TaskRecord == RInv => \A t \in Task : TaskShape(tasks[t])
BY DEF RInv, BInv, Shapes

(* A task's record after an ordinary step, but for what it is. *)
Plain(r, pc, q) == Record(r, pc, q.mine, q.next, q.then)

LEMMA PlainGoes ==
    ASSUME RInv, NEW t \in Task, NEW pc, NEW r, Goto(t, r), Plain(r, pc, tasks[t]),
           pc \notin Recovering \cup Underway \cup {"draining", "issued", "entered"},
           Placed(t, r),
           tasks[t].pc # "idle" \/ t \notin Changer, server' = server,
           barrier'.transition = barrier.transition,
           DiskGood(disk'), ShownGood(auth'), FlightGood(flight')
    PROVE  RStep
<1>1. Ordinary(t, r) /\ r.mine \in 0 .. server.issued /\ r.next \in 0 .. server.issued
  BY KnownGood DEF Plain, Record, Ordinary
<1> QED
  BY <1>1, GoesOrdinarily

-----------------------------------------------------------------------------
(***************************************************************************)
(* One lemma for each group of actions.                                    *)
(***************************************************************************)
LEMMA HydrateSafe ==
    ASSUME RInv, HydrateBegin \/ HydratePrepare \/ HydrateBlock \/ HydrateExpose
    PROVE  RStep
<1> DEFINE t == "hydrate"
<1>0. /\ t \in Task \ Changer /\ TaskShape(tasks[t])
      /\ tasks[t].mine \in 0 .. server.issued /\ tasks[t].next \in 0 .. server.issued
      /\ DiskGood(disk) /\ ShownGood(auth) /\ FlightGood(flight)
  BY TaskNames, TaskRecord, KnownGood
<1>1. CASE HydrateBegin
  <2> DEFINE r == [Idle EXCEPT !.pc = "reading", !.mine = disk.stored]
  <2>1. /\ Goto(t, r) /\ barrier' = Leased(t)
        /\ UNCHANGED <<auth, flight, disk, server>>
    BY <1>1 DEF HydrateBegin
  <2>2. Record(r, "reading", disk.stored, 0, "none")
    BY IdleOf, Zenon
  <2> HIDE DEF r
  <2>3. Ordinary(t, r) /\ r.mine \in 0 .. server.issued /\ r.next \in 0 .. server.issued
    BY <1>0, <2>2, KnownGood DEF Record, Ordinary, Placed, Recovering, Underway, Thens, DiskGood
  <2> QED  BY <1>0, <2>1, <2>3, TransitionKept, GoesOrdinarily
<1>2. CASE HydratePrepare
  <2>1. UNCHANGED <<flight, server>>
    BY <1>2 DEF HydratePrepare
  <2>2. DiskGood(disk')
    BY <1>0, <1>2, DiskOps DEF HydratePrepare
  <2>3. ShownGood(Booted(auth)) /\ ShownGood([Booted(auth) EXCEPT !.broken = TRUE])
    BY ShownOps, KnownGood, Zenon
  <2>4. \/ Ends(t, Booted(auth)) \/ Ends(t, [Booted(auth) EXCEPT !.broken = TRUE])
        \/ Goto(t, [tasks[t] EXCEPT !.pc = "prepared"]) /\ UNCHANGED <<auth, barrier>>
    BY <1>2, Zenon DEF HydratePrepare
  <2>5. CASE Goto(t, [tasks[t] EXCEPT !.pc = "prepared"]) /\ UNCHANGED <<auth, barrier>>
    <3> DEFINE r == [tasks[t] EXCEPT !.pc = "prepared"]
    <3>1. Plain(r, "prepared", tasks[t])
      BY <1>0, RecordOf, Zenon DEF Plain
    <3> HIDE DEF r
    <3>2. Placed(t, r)
      BY <3>1 DEF Placed, Plain, Record
    <3> QED  BY <1>0, <2>1, <2>2, <2>5, <3>1, <3>2, PlainGoes DEF Recovering, Underway, r
  <2> QED  BY <1>0, <2>1, <2>2, <2>3, <2>4, <2>5, EndsSafely
<1>3. CASE HydrateBlock
  <2>1. UNCHANGED <<flight, disk, server>>
    BY <1>3 DEF HydrateBlock
  <2>2. \/ Ends(t, Booted(auth))
        \/ /\ \E x : Goto(t, [tasks[t] EXCEPT !.pc = "checked", !.answer = x])
           /\ UNCHANGED <<auth, barrier>>
    BY <1>3 DEF HydrateBlock
  <2>3. ASSUME NEW x, Goto(t, [tasks[t] EXCEPT !.pc = "checked", !.answer = x]),
               UNCHANGED <<auth, barrier>>
        PROVE  RStep
    <3> DEFINE r == [tasks[t] EXCEPT !.pc = "checked", !.answer = x]
    <3>1. Plain(r, "checked", tasks[t])
      BY <1>0, RecordOf, Zenon DEF Plain
    <3> HIDE DEF r
    <3>2. Placed(t, r)
      BY <3>1 DEF Placed, Plain, Record
    <3> QED  BY <1>0, <2>1, <2>3, <3>1, <3>2, PlainGoes DEF Recovering, Underway, r
  <2>4. ShownGood(Booted(auth))
    BY ShownOps, KnownGood
  <2> QED  BY <1>0, <2>1, <2>2, <2>3, <2>4, EndsSafely
<1>4. CASE HydrateExpose
  <2>1. UNCHANGED <<flight, disk, server>>
    BY <1>4 DEF HydrateExpose
  <2> DEFINE shown == Exposed(Booted(auth), tasks[t].mine, FALSE)
  <2>2. ShownGood(shown) /\ ShownGood(Booted(auth))
    BY <1>0, ShownOps
  <2>3. Ends(t, Booted(auth)) \/ \E x : Ends(t, [shown EXCEPT !.locked = x])
    BY <1>4 DEF HydrateExpose
  <2> HIDE DEF shown
  <2>4. \A x : ShownGood([shown EXCEPT !.locked = x])
    BY <2>2, ShownField
  <2> QED  BY <1>0, <2>1, <2>2, <2>3, <2>4, EndsSafely
<1> QED
  BY <1>1, <1>2, <1>3, <1>4

LEMMA SyncTaskSafe ==
    ASSUME RInv, NEW t \in Task,
           BackgroundBegin \/ BackgroundPrepare \/ SyncNow \/ TaskSynced(t) \/ SyncExpose
                \/ RunSync(t)
    PROVE  RStep
<1>0. /\ {"background", "sync"} \subseteq Task \ Changer
      /\ \A u \in Task : /\ TaskShape(tasks[u])
                         /\ tasks[u].mine \in 0 .. server.issued
                         /\ tasks[u].next \in 0 .. server.issued
                         /\ tasks[u].then \in Thens
                         /\ Placed(u, tasks[u])
      /\ DiskGood(disk) /\ ShownGood(auth) /\ FlightGood(flight)
  BY TaskNames, TaskRecord, KnownGood
<1>1. CASE BackgroundBegin
  <2> DEFINE r == [Idle EXCEPT !.pc = "woken"]
  <2>1. /\ Goto("background", r) /\ barrier' = Leased("background")
        /\ UNCHANGED <<auth, flight, disk, server>>
    BY <1>1 DEF BackgroundBegin
  <2>2. Record(r, "woken", 0, 0, "none")
    BY IdleOf, Zenon
  <2> HIDE DEF r
  <2>3. /\ Ordinary("background", r)
        /\ r.mine \in 0 .. server.issued /\ r.next \in 0 .. server.issued
    BY <2>2, KnownGood DEF Record, Ordinary, Placed, Recovering, Underway, Thens
  <2> QED  BY <1>0, <2>1, <2>3, TransitionKept, GoesOrdinarily
<1>2. CASE BackgroundPrepare
  <2> DEFINE u == "background"
             r == Syncing([tasks[u] EXCEPT !.mine = disk.stored], "synced")
  <2>1. UNCHANGED <<flight, server>>
    BY <1>2 DEF BackgroundPrepare
  <2>2. DiskGood(disk')
    BY <1>0, <1>2, DiskOps DEF BackgroundPrepare
  <2>3. \/ Ends(u, auth)
        \/ Business(disk.stored) /\ Goto(u, r) /\ UNCHANGED <<auth, barrier>>
    BY <1>2, Zenon DEF BackgroundPrepare
  <2>4. Business(disk.stored) => disk.stored \in Session
    BY KnownGood DEF DiskGood, Business
  <2>5. Record(r, "sync", disk.stored, tasks[u].next, "synced")
    BY <1>0, RecordOf, Zenon
  <2> HIDE DEF r
  <2>6. Business(disk.stored) =>
           Ordinary(u, r) /\ r.mine \in 0 .. server.issued /\ r.next \in 0 .. server.issued
    BY <1>0, <2>4, <2>5 DEF Record, Ordinary, Placed, Recovering, Underway, Thens, DiskGood
  <2> QED  BY <1>0, <2>1, <2>2, <2>3, <2>6, GoesOrdinarily, EndsSafely
<1>3. CASE SyncNow
  <2> DEFINE r == Syncing([Idle EXCEPT !.mine = auth.session], "synced")
  <2>1. /\ Goto("sync", r) /\ barrier' = Leased("sync")
        /\ UNCHANGED <<auth, flight, disk, server>>
        /\ auth.session \in Session
    BY <1>3, KnownGood DEF SyncNow, Business, ShownGood
  <2>2. Record(r, "sync", auth.session, 0, "synced")
    BY IdleOf, Zenon
  <2> HIDE DEF r
  <2>3. /\ Ordinary("sync", r)
        /\ r.mine \in 0 .. server.issued /\ r.next \in 0 .. server.issued
    BY <1>0, <2>1, <2>2, KnownGood
       DEF Record, Ordinary, Placed, Recovering, Underway, Thens, ShownGood
  <2> QED  BY <1>0, <2>1, <2>3, TransitionKept, GoesOrdinarily
<1>4. CASE TaskSynced(t)
  <2> DEFINE r == [tasks[t] EXCEPT !.pc = "refreshing", !.next = disk.stored]
             w == [tasks[t] EXCEPT !.pc = "checking"]
  <2>1. /\ UNCHANGED <<flight, disk, server>> /\ tasks[t].pc = "synced"
        /\ tasks[t].mine \in Session
    BY <1>0, <1>4 DEF TaskSynced, Placed
  <2>2. \/ Ends(t, auth)
        \/ Goto(t, r) /\ UNCHANGED <<auth, barrier>>
        \/ Goto(t, w) /\ barrier' = Yielded(t) /\ auth' = auth
    BY <1>4 DEF TaskSynced
  <2>3. Record(r, "refreshing", tasks[t].mine, disk.stored, tasks[t].then)
    BY <1>0, RecordOf, Zenon
  <2>4. Plain(w, "checking", tasks[t])
    BY <1>0, RecordOf, Zenon DEF Plain
  <2> HIDE DEF r, w
  <2>5. Ordinary(t, r) /\ r.mine \in 0 .. server.issued /\ r.next \in 0 .. server.issued
    BY <1>0, <2>1, <2>3 DEF Record, Ordinary, Placed, Recovering, Underway, DiskGood
  <2>6. CASE Goto(t, r) /\ UNCHANGED <<auth, barrier>>
    BY <1>0, <2>1, <2>5, <2>6, GoesOrdinarily
  <2>7. CASE Goto(t, w) /\ barrier' = Yielded(t) /\ auth' = auth
    <3>1. Placed(t, w)
      BY <2>1, <2>4 DEF Placed, Plain, Record
    <3> QED  BY <1>0, <2>1, <2>4, <2>7, <3>1, TransitionKept, PlainGoes DEF Recovering, Underway
  <2> QED  BY <1>0, <2>1, <2>2, <2>6, <2>7, EndsSafely
<1>5. CASE SyncExpose
  <2>1. UNCHANGED <<flight, disk, server>> /\ Ends("sync", Refreshed("sync"))
    BY <1>5 DEF SyncExpose
  <2>2. ShownGood([auth EXCEPT !.session = tasks["sync"].next])
    BY <1>0, ShownOps
  <2>3. Refreshed("sync") = auth
        \/ Refreshed("sync") = [auth EXCEPT !.session = tasks["sync"].next]
    BY DEF Refreshed
  <2>4. ShownGood(Refreshed("sync"))
    BY <1>0, <2>2, <2>3
  <2> QED  BY <1>0, <2>1, <2>4, EndsSafely
<1>6. CASE RunSync(t)
  <2> DEFINE s == SyncOf(t)
             r == [tasks[t] EXCEPT !.pc = "syncing"]
  <2>1. UNCHANGED <<auth, barrier, disk, server>> /\ Goto(t, r) /\ tasks[t].pc = "sync"
    BY <1>6 DEF RunSync
  <2>2. s \in 0 .. server.issued
    BY <1>0 DEF SyncOf
  <2>3. \/ flight' = flight
        \/ \E x, y : flight' = [flight EXCEPT !.sync = [of |-> s, stage |-> x, answer |-> y]]
    BY <1>6 DEF RunSync
  <2> HIDE DEF s
  <2>4. \A x, y : FlightGood([flight EXCEPT !.sync = [of |-> s, stage |-> x, answer |-> y]])
    BY <2>2, FlightSyncs, Zenon
  <2>5. FlightGood(flight')
    <3>1. CASE flight' = flight
      BY <1>0, <3>1
    <3>2. ASSUME NEW x, NEW y,
                 flight' = [flight EXCEPT !.sync = [of |-> s, stage |-> x, answer |-> y]]
          PROVE  FlightGood(flight')
      <4>1. FlightGood([flight EXCEPT !.sync = [of |-> s, stage |-> x, answer |-> y]])
        BY <2>4, Zenon
      <4> QED  BY <3>2, <4>1, Zenon
    <3> QED  BY <2>3, <3>1, <3>2
  <2>6. Plain(r, "syncing", tasks[t])
    BY <1>0, RecordOf, Zenon DEF Plain
  <2> HIDE DEF r
  <2>7. Safe(t, tasks[t], barrier.transition, server.issued, flight.recovery)
    BY DEF RInv, Careful
  <2>8. Safe(t, r, barrier.transition, server.issued, flight.recovery)
    BY <2>1, <2>6, <2>7 DEF Safe, OnItsWay, NotAsked, Placed, Plain, Record, Recovering, Underway
  <2> QED  BY <1>0, <2>1, <2>5, <2>8, GoesSafely, IssuesNone
<1> QED
  BY <1>1, <1>2, <1>3, <1>4, <1>5, <1>6

LEMMA EnteredGood ==
    ASSUME RInv, NEW s, NEW stage, stage # "none", NEW target
    PROVE  /\ RecGood(Entered(s, stage, target))
           /\ Unasked(s, flight.recovery) => Pending(s, Entered(s, stage, target).recovery)
<1> DEFINE m == [flight EXCEPT !.recovery[s].stage = stage]
<1>1. server.issued \in Nat /\ RecGood(flight)
  BY KnownGood, RecoveryKept
<1>2. RecGood(m) /\ (Unasked(s, flight.recovery) => Pending(s, m.recovery))
  BY <1>1, RecoveryField, Zenon
<1>3. Entered(s, stage, target) = [m EXCEPT !.recovery[s].target = target]
  BY Zenon DEF Entered
<1> HIDE DEF m
<1>4. /\ RecGood([m EXCEPT !.recovery[s].target = target])
      /\ Pending(s, m.recovery)
            => Pending(s, [m EXCEPT !.recovery[s].target = target].recovery)
  BY <1>1, <1>2, RecoveryField, Zenon
<1> QED
  BY <1>2, <1>3, <1>4, Zenon

LEMMA RecoveryGoesGood ==
    ASSUME RInv, NEW t, NEW stage, stage # "none", NEW result \in 0 .. server.issued
    PROVE  /\ RecGood(RecoveryGoes(t, stage, result))
           /\ Pending(tasks[t].mine, flight.recovery)
                 => Pending(tasks[t].mine, RecoveryGoes(t, stage, result).recovery)
<1> DEFINE s == tasks[t].mine
           m == [flight EXCEPT !.recovery[s].stage = stage]
<1>1. server.issued \in Nat /\ RecGood(flight)
  BY KnownGood, RecoveryKept
<1>2. RecGood(m) /\ (Unasked(s, flight.recovery) => Pending(s, m.recovery))
  BY <1>1, RecoveryField, Zenon
<1>3. RecoveryGoes(t, stage, result) = [m EXCEPT !.recovery[s].result = result]
  BY Zenon DEF RecoveryGoes
<1>4. Pending(s, flight.recovery) => Unasked(s, flight.recovery)
  BY DEF Pending, Unasked
<1> HIDE DEF m
<1>5. /\ RecGood([m EXCEPT !.recovery[s].result = result])
      /\ Pending(s, m.recovery)
            => Pending(s, [m EXCEPT !.recovery[s].result = result].recovery)
  BY <1>1, <1>2, RecoveryField, Zenon
<1> QED
  BY <1>2, <1>3, <1>4, <1>5, Zenon

LEMMA PostedGood ==
    ASSUME RInv, NEW t \in Task, Pending(tasks[t].mine, flight.recovery)
    PROVE  RecGood(Posted(t))
<1> DEFINE s == tasks[t].mine
           x == flight.recovery[s].posts + 1
<1>1. server.issued \in Nat /\ RecGood(flight) /\ s \in 0 .. server.issued
  BY KnownGood, RecoveryKept
<1>2. s \in Session => x = 1
  BY DEF Pending
<1>3. Posted(t) = [flight EXCEPT !.recovery[s].posts = x]
  BY <1>1 DEF Posted, RecGood, Recovered, FlightShape
<1> HIDE DEF x
<1>4. RecGood([flight EXCEPT !.recovery[s].posts = x])
  BY <1>1, <1>2, RecoveryField, Zenon
<1> QED
  BY <1>3, <1>4, Zenon

(* The task that holds the transition goes on with its recovery.           *)
LEMMA RecoverGoes ==
    ASSUME RInv, NEW t \in Task, NEW r, Goto(t, r), Issues,
           Safe(t, r, barrier.transition, server'.issued, flight'.recovery),
           barrier' = barrier, barrier.transition \in {t, Nobody},
           DiskGood(disk'), ShownGood(auth'), RecGood(flight')
    PROVE  RStep
BY KnownHolds, CarefulHolds DEF RStep

(* The exchange of a session for another one issues one. *)
LEMMA ExchangedIssues ==
    ASSUME RInv, NEW s, NEW mode, server.issued < MaxSession, server' = Exchanged(s, mode)
    PROVE  Issues /\ server'.issued = server.issued + 1 /\ NextSession = server.issued + 1
<1> DEFINE n == server.issued + 1
           rows == [r \in Session |-> IF r = n THEN NewRow(mode)
                                      ELSE IF r = s THEN [Row(r) EXCEPT !.state = "ended"]
                                      ELSE Row(r)]
<1>1. server' = [server EXCEPT !.issued = n, !.rows = rows]
  BY DEF Exchanged, NextSession
<1> HIDE DEF rows
<1>2. server' = [issued |-> n, generation |-> server.generation, enabled |-> server.enabled,
                 open |-> server.open, rows |-> rows]
  BY <1>1 DEF RInv, Known, ServerShape
<1> QED
  BY <1>2, KnownGood, DeviceAssumption DEF Issues, ServerShape, NextSession

LEMMA RecoverySafe ==
    ASSUME RInv, NEW t \in Task, RecoveryStep(t)
    PROVE  RStep
<1> DEFINE s == tasks[t].mine
           q == tasks[t]
           n == server.issued
<1>0. /\ TaskShape(q) /\ s \in 0 .. n /\ q.next \in 0 .. n /\ q.then \in Thens
      /\ DiskGood(disk) /\ ShownGood(auth) /\ FlightGood(flight) /\ RecGood(flight)
      /\ Placed(t, q) /\ 0 \in 0 .. n /\ n \in Nat
  BY TaskRecord, KnownGood, RecoveryKept
<1>a. Safe(t, q, barrier.transition, n, flight.recovery)
  BY DEF RInv, Careful
<1>b. /\ ShownGood(Exposed(auth, None, FALSE))
      /\ ShownGood(Exposed(auth, q.next, FALSE))
  BY <1>0, ShownOps DEF None
<1>1. CASE RecoveryCheck(t)
  <2> DEFINE a == [Exposed(auth, None, FALSE) EXCEPT !.switching = t]
             j == [q EXCEPT !.pc = "joining"]
             r == [q EXCEPT !.pc = "draining", !.target = "sandbox"]
             w == [q EXCEPT !.pc = "awaiting", !.target = "sandbox"]
             f == Entered(s, "waiting", "sandbox")
  <2>1. UNCHANGED <<disk, server>> /\ q.pc = "checking"
    BY <1>1 DEF RecoveryCheck
  <2>2. /\ Plain(j, "joining", q) /\ Plain(w, "awaiting", q)
        /\ Record(r, "draining", s, q.next, q.then)
    BY <1>0, RecordOf, Zenon DEF Plain
  <2>3. ShownGood(a)
    BY <1>b, ShownField
  <2>4. \/ Ends(t, auth) /\ flight' = flight
        \/ Goto(t, j) /\ UNCHANGED <<auth, barrier, flight>>
        \/ /\ Unswitched /\ auth' = a
           /\ \/ /\ Unrecovered(s) /\ barrier' = Closed(t) /\ flight' = f /\ Goto(t, r)
              \/ Goto(t, w) /\ UNCHANGED <<barrier, flight>>
    BY <1>1, Zenon DEF RecoveryCheck
  <2> HIDE DEF j, w, r, a
  <2>5. CASE Ends(t, auth) /\ flight' = flight
    BY <1>0, <2>1, <2>5, EndsSafely
  <2>6. CASE Goto(t, j) /\ UNCHANGED <<auth, barrier, flight>>
    <3>1. Placed(t, j)
      BY <1>0, <2>1, <2>2 DEF Placed, Plain, Record
    <3> QED  BY <1>0, <2>1, <2>2, <2>6, <3>1, PlainGoes DEF Recovering, Underway
  <2>7. CASE auth' = a /\ Goto(t, w) /\ UNCHANGED <<barrier, flight>>
    <3>1. Placed(t, w)
      BY <1>0, <2>1, <2>2 DEF Placed, Plain, Record
    <3> QED  BY <1>0, <2>1, <2>2, <2>3, <2>7, <3>1, PlainGoes DEF Recovering, Underway
  <2>8. CASE /\ Unswitched /\ auth' = a /\ Unrecovered(s)
             /\ barrier' = Closed(t) /\ flight' = f /\ Goto(t, r)
    <3>1. barrier.transition = Nobody
      BY <2>8, DeviceAssumption DEF Unswitched, RInv, BInv, Owner
    <3>2. t \notin Changer
      BY <1>a, <2>1, <3>1, DeviceAssumption DEF Safe, OnItsWay
    <3>3. Unasked(s, flight.recovery)
      BY <1>0, <2>8 DEF Unrecovered, Unasked, RecGood, Recovered
    <3>4. RecGood(f) /\ Pending(s, f.recovery)
      BY <3>3, EnteredGood
    <3>5. barrier'.transition = t
      BY <2>8, TransitionKept
    <3> HIDE DEF f
    <3>6. Safe(t, r, barrier'.transition, server'.issued, flight'.recovery)
      BY <1>0, <2>1, <2>2, <2>8, <3>2, <3>4, <3>5
         DEF Safe, Record, NotAsked, Placed, Recovering, Underway
    <3>7. Careful'
      BY <2>1, <2>8, <3>1, <3>6, CarefulHolds, IssuesNone, DeviceAssumption
    <3> QED  BY <1>0, <2>1, <2>3, <2>8, <3>4, <3>7, KnownHolds, IssuesNone DEF RStep
  <2> QED  BY <2>4, <2>5, <2>6, <2>7, <2>8
<1>2. CASE RecoveryJoined(t)
  BY <1>0, <1>2, EndsSafely DEF RecoveryJoined
<1>3. CASE RecoveryAwaited(t)
  <2> DEFINE x == RecoveryOf(t).result
  <2>1. /\ UNCHANGED <<flight, disk, server>> /\ q.pc = "awaiting"
        /\ Shows(t, x) \/ Shows(t, None)
    BY <1>3 DEF RecoveryAwaited
  <2>2. x \in 0 .. n
    BY <1>0, <2>1 DEF RecoveryOf, Placed, RecGood, Recovered
  <2> HIDE DEF x
  <2>3. ShownGood(Exposed(auth, x, FALSE))
    BY <2>2, ShownOps
  <2> QED  BY <1>0, <1>b, <2>1, <2>3, EndsSafely DEF Shows
<1>4. CASE RecoverDrained(t)
  <2> DEFINE r == [q EXCEPT !.pc = "recovering"]
             f == RecoveryGoes(t, "started", None)
  <2>1. /\ UNCHANGED <<auth, barrier, disk, server>>
        /\ q.pc = "draining" /\ t \notin Changer /\ flight' = f /\ Goto(t, r)
    BY <1>4 DEF RecoverDrained
  <2>2. Record(r, "recovering", s, q.next, q.then)
    BY <1>0, RecordOf, Zenon
  <2>3. barrier.transition = t /\ Pending(s, flight.recovery)
    BY <1>a, <2>1 DEF Safe, OnItsWay, NotAsked
  <2>4. RecGood(f) /\ Pending(s, f.recovery)
    BY <1>0, <2>3, RecoveryGoesGood DEF None
  <2> HIDE DEF r, f
  <2>5. Safe(t, r, barrier.transition, n, f.recovery)
    BY <1>0, <2>1, <2>2, <2>3, <2>4 DEF Safe, Record, NotAsked, Placed, Recovering, Underway
  <2> QED  BY <1>0, <2>1, <2>3, <2>4, <2>5, RecoverGoes, IssuesNone
<1>5. CASE RecoverClear(t)
  <2> DEFINE r == [q EXCEPT !.pc = "rotating"]
             w == [q EXCEPT !.pc = "unrotated"]
  <2>1. /\ UNCHANGED <<auth, barrier, flight, server>> /\ q.pc = "recovering"
        /\ Goto(t, r) \/ Goto(t, w)
        /\ disk' = disk \/ disk' = Cleared(disk)
    BY <1>5 DEF RecoverClear
  <2>2. DiskGood(disk')
    BY <1>0, <2>1, DiskOps
  <2>3. /\ Record(r, "rotating", s, q.next, q.then)
        /\ Record(w, "unrotated", s, q.next, q.then)
    BY <1>0, RecordOf, Zenon
  <2> HIDE DEF r, w
  <2>4. /\ Safe(t, r, barrier.transition, n, flight.recovery)
        /\ Safe(t, w, barrier.transition, n, flight.recovery)
    BY <1>0, <1>a, <2>1, <2>3 DEF Safe, Record, OnItsWay, NotAsked, Placed, Recovering, Underway
  <2> QED  BY <1>0, <2>1, <2>2, <2>4, GoesSafely, IssuesNone
<1>6. CASE RecoverPost(t)
  <2> DEFINE r == [q EXCEPT !.pc = "rotated", !.next = NextSession]
             w == [q EXCEPT !.pc = "unrotated"]
  <2>1. barrier' = barrier /\ q.pc = "rotating"
    BY <1>6 DEF RecoverPost
  <2>2. barrier.transition = t /\ Pending(s, flight.recovery)
    BY <1>a, <2>1 DEF Safe, OnItsWay, NotAsked, Placed, Recovering
  <2>3. RecGood(Posted(t)) /\ FlightShape(Posted(t))
    BY <2>2, PostedGood DEF RecGood
  <2>4. /\ Record(r, "rotated", s, NextSession, q.then)
        /\ Record(w, "unrotated", s, q.next, q.then)
    BY <1>0, RecordOf, Zenon
  <2>5. /\ DiskGood(disk') /\ ShownGood(auth') /\ RecGood(flight')
    <3>1. \/ UNCHANGED <<auth, disk>> /\ flight' = Posted(t)
          \/ \E answer : Reported(s, answer, Posted(t), disk)
      BY <1>6 DEF RecoverPost
    <3> QED  BY <1>0, <2>3, <3>1, ReportGood, RecoveryKept
  <2>6. \/ /\ server' = Exchanged(s, q.target) /\ server.issued < MaxSession
           /\ Goto(t, r) \/ Goto(t, w)
        \/ server' = server /\ Goto(t, w)
    BY <1>6 DEF RecoverPost
  <2> HIDE DEF r, w
  <2>7. CASE /\ server' = Exchanged(s, q.target) /\ server.issued < MaxSession
             /\ Goto(t, r) \/ Goto(t, w)
    <3>1. Issues /\ server'.issued = n + 1 /\ NextSession = n + 1
      BY <2>7, ExchangedIssues
    <3>2. /\ Safe(t, r, barrier.transition, server'.issued, flight'.recovery)
          /\ Safe(t, w, barrier.transition, server'.issued, flight'.recovery)
      BY <1>0, <2>1, <2>2, <2>4, <3>1 DEF Safe, Record, NotAsked, Placed, Recovering, Underway
    <3> QED  BY <2>1, <2>2, <2>5, <2>7, <3>1, <3>2, RecoverGoes
  <2>8. CASE server' = server /\ Goto(t, w)
    <3>1. Safe(t, w, barrier.transition, server'.issued, flight'.recovery)
      BY <1>0, <2>1, <2>2, <2>4, <2>8 DEF Safe, Record, NotAsked, Placed, Recovering, Underway
    <3> QED  BY <2>1, <2>2, <2>5, <2>8, <3>1, RecoverGoes, IssuesNone
  <2> QED  BY <2>6, <2>7, <2>8
<1>7. CASE RecoverPersist(t)
  <2> DEFINE r == Syncing(q, "resynced")
             w == [q EXCEPT !.pc = "unrotated"]
  <2>1. /\ UNCHANGED <<auth, barrier, flight, server>> /\ q.pc = "rotated"
        /\ Goto(t, r) \/ Goto(t, w)
        /\ \/ disk' = Holding(Prepared(disk, q.next), q.next)
           \/ \E durable \in {disk.stored, q.next} : disk' = Holding(disk, durable)
    BY <1>7 DEF RecoverPersist
  <2>2. DiskGood(disk')
    <3>1. disk.stored \in 0 .. n /\ DiskGood(Prepared(disk, q.next))
      BY <1>0, DiskOps DEF DiskGood
    <3> QED  BY <1>0, <2>1, <3>1, DiskOps
  <2>3. Record(r, "sync", s, q.next, "resynced") /\ Record(w, "unrotated", s, q.next, q.then)
    BY <1>0, RecordOf, Zenon
  <2> HIDE DEF r, w
  <2>4. /\ Safe(t, r, barrier.transition, n, flight.recovery)
        /\ Safe(t, w, barrier.transition, n, flight.recovery)
    BY <1>0, <1>a, <2>1, <2>3
       DEF Safe, Record, OnItsWay, NotAsked, Placed, Recovering, Underway, Thens
  <2> QED  BY <1>0, <2>1, <2>2, <2>4, GoesSafely, IssuesNone
<1>8. CASE RecoverDone(t) \/ RecoverFail(t)
  <2>1. /\ server' = server /\ q.pc \in {"resynced", "unrotated"}
        /\ \/ disk' = disk \/ disk' = Cleared(disk) \/ disk' = Holding(Cleared(disk), None)
    BY <1>8 DEF RecoverDone, RecoverFail
  <2>2. PICK stage \in {"done", "failed"}, x \in {None, q.next} :
                Shows(t, x) /\ flight' = RecoveryGoes(t, stage, x)
    BY <1>8 DEF RecoverDone, RecoverFail
  <2>3. DiskGood(disk')
    <3>1. DiskGood(Cleared(disk)) /\ 0 \in 0 .. n
      BY <1>0, DiskOps
    <3> QED  BY <1>0, <2>1, <3>1, DiskOps DEF None
  <2>4. RecGood(flight')
    BY <1>0, <2>2, RecoveryGoesGood DEF None
  <2>5. barrier.transition = t
    BY <1>a, <2>1 DEF Safe, OnItsWay, Recovering
  <2>6. ShownGood(auth')
    BY <1>b, <2>2, ShownField, Zenon DEF Shows, Ends, Switched
  <2>7. Goto(t, Idle) /\ \A u \in Task : u # t => barrier.transition # u
    BY <2>2, <2>5 DEF Shows, Ends
  <2>8. Safe(t, Idle, barrier'.transition, n, flight'.recovery)
    BY <1>0, <2>4, IdleSafe DEF RecGood
  <2>9. Careful'
    BY <2>1, <2>5, <2>7, <2>8, CarefulHolds, IssuesNone
  <2> QED  BY <1>0, <2>1, <2>3, <2>4, <2>6, <2>9, KnownHolds, IssuesNone DEF RStep
<1> QED
  BY <1>1, <1>2, <1>3, <1>4, <1>5, <1>6, <1>7, <1>8 DEF RecoveryStep

LEMMA ServerRows ==
    ASSUME RInv, NEW rows, server' = [server EXCEPT !.rows = rows]
    PROVE  Issues /\ server'.issued = server.issued
BY KnownGood DEF RInv, Known, ServerShape, Issues

(* What a change of sessions leaves at the server. *)
LEMMA RotationIssues ==
    ASSUME RInv, NEW t \in Task, server' = Rotation(t), t # "logout" => server.issued < MaxSession
    PROVE  Issues /\ (t # "logout" => server'.issued = server.issued + 1)
<1>1. CASE t # "logout"
  <2>1. server' = Exchanged(tasks[t].mine, tasks[t].target)
    BY <1>1 DEF Rotation
  <2> QED  BY <1>1, <2>1, ExchangedIssues
<1>2. CASE t = "logout"
  <2> DEFINE s == tasks[t].mine
             rows == [server.rows EXCEPT ![s] = [server.rows[s] EXCEPT !.state = "ended"]]
  <2>1. server' = [server EXCEPT !.rows[s].state = "ended"]
    BY <1>2 DEF Rotation, LoggedOut
  <2>2. server' = [server EXCEPT !.rows = rows]
    BY <2>1 DEF RInv, Known, ServerShape
  <2> HIDE DEF rows
  <2> QED  BY <1>2, <2>2, ServerRows
<1> QED
  BY <1>1, <1>2

LEMMA ChangeSafe ==
    ASSUME RInv, NEW t \in Task, ChangeStep(t) \/ (t \in Changer /\ ChangeBegin(t))
    PROVE  RStep
<1> DEFINE s == tasks[t].mine
           q == tasks[t]
           n == server.issued
<1>0. /\ TaskShape(q) /\ s \in 0 .. n /\ q.next \in 0 .. n /\ q.then \in Thens
      /\ DiskGood(disk) /\ ShownGood(auth) /\ FlightGood(flight) /\ RecGood(flight)
      /\ Placed(t, q) /\ 0 \in 0 .. n /\ n \in Nat
  BY TaskRecord, KnownGood, RecoveryKept
<1>a. Safe(t, q, barrier.transition, n, flight.recovery)
  BY DEF RInv, Careful
<1>1. CASE t \in Changer /\ ChangeBegin(t)
  <2>1. PICK mode : Goto(t, [Idle EXCEPT !.pc = "draining", !.mine = auth.session,
                                         !.target = mode])
    BY <1>1 DEF ChangeBegin
  <2> DEFINE r == [Idle EXCEPT !.pc = "draining", !.mine = auth.session, !.target = mode]
  <2>2. /\ UNCHANGED <<flight, disk, server>> /\ Admitting /\ barrier' = Closed(t)
        /\ auth' = [auth EXCEPT !.switching = t]
    BY <1>1 DEF ChangeBegin
  <2>3. Record(r, "draining", auth.session, 0, "none")
    BY IdleOf, Zenon
  <2>4. ShownGood(auth')
    BY <1>0, <2>2, ShownField
  <2> HIDE DEF r
  <2>5. barrier'.transition = t
    BY <2>2, TransitionKept
  <2>6. Safe(t, r, barrier'.transition, n, flight.recovery)
    BY <1>0, <1>1, <2>3, <2>5
       DEF Safe, Record, NotAsked, Placed, Recovering, Underway, Thens, ShownGood, Changer
  <2>7. Careful'
    BY <2>1, <2>2, <2>5, <2>6, CarefulHolds, IssuesNone, DeviceAssumption DEF Admitting, r
  <2> QED  BY <1>0, <2>2, <2>4, <2>7, KnownHolds, IssuesNone DEF RStep
<1>2. CASE ChangeDrained(t)
  <2> DEFINE r == Syncing(q, "changing")
             w == [q EXCEPT !.pc = "posting"]
  <2>1. UNCHANGED <<flight, disk, server>> /\ q.pc = "draining" /\ t \in Changer
    BY <1>2 DEF ChangeDrained
  <2>2. \/ Ends(t, auth)
        \/ (Goto(t, r) \/ Goto(t, w)) /\ UNCHANGED <<auth, barrier>>
    BY <1>2 DEF ChangeDrained
  <2>3. Record(r, "sync", s, q.next, "changing") /\ Record(w, "posting", s, q.next, q.then)
    BY <1>0, RecordOf, Zenon
  <2> HIDE DEF r, w
  <2>4. /\ Ordinary(t, r) /\ r.mine \in 0 .. n /\ r.next \in 0 .. n
        /\ Ordinary(t, w) /\ w.mine \in 0 .. n /\ w.next \in 0 .. n
    BY <1>0, <2>1, <2>3 DEF Record, Ordinary, Placed, Recovering, Underway, Thens, Changer
  <2> QED  BY <1>0, <2>1, <2>2, <2>4, GoesOrdinarily, EndsSafely
<1>3. CASE ChangeSynced(t)
  <2>1. /\ UNCHANGED <<auth, barrier, flight, disk, server>> /\ q.pc = "changing"
        /\ \E pc \in {"posting", "refused"} : Goto(t, [q EXCEPT !.pc = pc])
    BY <1>3 DEF ChangeSynced
  <2>2. PICK pc \in {"posting", "refused"} : Goto(t, [q EXCEPT !.pc = pc])
    BY <2>1
  <2> DEFINE r == [q EXCEPT !.pc = pc]
  <2>3. Plain(r, pc, q)
    BY <1>0, RecordOf, Zenon DEF Plain
  <2> HIDE DEF r
  <2>4. Placed(t, r)
    BY <1>0, <2>1, <2>3 DEF Placed, Plain, Record
  <2> QED  BY <1>0, <2>1, <2>2, <2>3, <2>4, PlainGoes DEF Recovering, Underway, r
<1>4. CASE ChangePost(t)
  <2> DEFINE next == IF t = "logout" THEN None ELSE NextSession
             r == [q EXCEPT !.pc = "issued", !.next = next]
             w(x) == [q EXCEPT !.pc = "refused", !.answer = x]
  <2>1. q.pc = "posting" /\ barrier' = barrier
    BY <1>4 DEF ChangePost
  <2>2. /\ Record(r, "issued", s, next, q.then)
        /\ \A x : Record(w(x), "refused", s, q.next, q.then)
    BY <1>0, RecordOf, Zenon
  <2>3. DiskGood(disk') /\ ShownGood(auth') /\ FlightGood(flight')
    <3>1. \/ UNCHANGED <<auth, disk, flight>>
          \/ \E answer : Reported(s, answer, flight, disk)
      BY <1>4 DEF ChangePost
    <3>2. FlightShape(flight)
      BY <1>0 DEF FlightGood
    <3> QED  BY <1>0, <3>1, <3>2, ReportGood, FlightLikeGood
  <2>4. \/ server' = server /\ \E x : Goto(t, w(x))
        \/ /\ server' = Rotation(t) /\ (t # "logout" => server.issued < MaxSession)
           /\ Goto(t, r) \/ Goto(t, w("lost"))
    BY <1>4 DEF ChangePost
  <2>5. \A x : /\ Ordinary(t, w(x)) /\ w(x).mine \in 0 .. n /\ w(x).next \in 0 .. n
               /\ Safe(t, w(x), barrier.transition, n, flight.recovery)
    <3>1. ASSUME NEW x
          PROVE  /\ Ordinary(t, w(x)) /\ w(x).mine \in 0 .. n /\ w(x).next \in 0 .. n
      <4>1. Record(w(x), "refused", s, q.next, q.then)
        BY <2>2
      <4> HIDE DEF w
      <4> QED  BY <1>0, <2>1, <4>1 DEF Record, Ordinary, Placed, Recovering, Underway
    <3> HIDE DEF w
    <3> QED  BY <1>a, <2>1, <3>1, OrdinarySafe
  <2> HIDE DEF w, r
  <2>6. CASE server' = server /\ \E x : Goto(t, w(x))
    BY <1>0, <2>1, <2>3, <2>5, <2>6, GoesOrdinarily
  <2>7. CASE /\ server' = Rotation(t) /\ (t # "logout" => server.issued < MaxSession)
             /\ Goto(t, r) \/ Goto(t, w("lost"))
    <3>1. Issues
      BY <2>7, RotationIssues
    <3>2. CASE Goto(t, w("lost"))
      BY <2>1, <2>3, <2>5, <3>1, <3>2, GoesSafely
    <3>3. CASE Goto(t, r)
      <4>1. next \in 0 .. server'.issued /\ (next \in Session => next > n)
        <5>1. t # "logout" => server'.issued = n + 1
          BY <2>7, RotationIssues
        <5>2. CASE t = "logout"
          <6>1. next = 0
            BY <5>2 DEF None
          <6> QED  BY <1>0, <3>1, <6>1 DEF Issues, Session
        <5>3. CASE t # "logout"
          <6>1. next = n + 1 /\ server'.issued = n + 1
            BY <5>1, <5>3 DEF NextSession
          <6> HIDE DEF next
          <6> QED  BY <1>0, <6>1
        <5> QED  BY <5>2, <5>3
      <4>2. Unasked(next, flight.recovery)
        BY <1>0, <4>1 DEF Unasked, RecGood, Recovered
      <4> HIDE DEF next
      <4>3. 0 .. n \subseteq 0 .. server'.issued
        BY <1>0, <3>1 DEF Issues
      <4>4. Safe(t, r, barrier'.transition, server'.issued, flight'.recovery)
        BY <1>0, <1>a, <2>1, <2>2, <2>3, <4>1, <4>2, <4>3
           DEF Safe, Record, OnItsWay, NotAsked, Placed, Recovering, Underway, FlightGood
      <4>5. Careful'
        BY <2>1, <2>3, <3>1, <3>3, <4>4, CarefulHolds DEF FlightGood
      <4> QED  BY <2>3, <3>1, <4>5, KnownHolds, RecoveryKept DEF RStep
    <3> QED  BY <2>7, <3>2, <3>3
  <2> QED  BY <2>4, <2>6, <2>7
<1>5. CASE ChangeEntered(t)
  BY <1>0, <1>5, EndsSafely DEF ChangeEntered
<1> QED
  BY <1>1, <1>2, <1>3, <1>4, <1>5 DEF ChangeStep

LEMMA OutcomeSafe ==
    ASSUME RInv, NEW t \in Task, Refused(t) \/ LogoutDone \/ SwitchPersist \/ SwitchEntered
    PROVE  RStep
<1> DEFINE n == server.issued
<1>0. /\ "logout" \in Task /\ "switchMode" \in Task
      /\ \A u \in Task : /\ TaskShape(tasks[u]) /\ Placed(u, tasks[u])
                         /\ tasks[u].mine \in 0 .. n /\ tasks[u].next \in 0 .. n
                         /\ tasks[u].then \in Thens
                         /\ Safe(u, tasks[u], barrier.transition, n, flight.recovery)
      /\ DiskGood(disk) /\ ShownGood(auth) /\ FlightGood(flight) /\ RecGood(flight)
      /\ 0 \in 0 .. n /\ n \in Nat
      /\ \A s \in 0 .. n : s # None => s \in Session
  BY TaskRecord, KnownGood, RecoveryKept DEF Task, RInv, Careful
<1>a. \A s \in 0 .. n : \A x : ShownGood(Exposed(auth, s, x))
  BY ShownOps
<1>b. \A s \in 0 .. n : DiskGood(Holding(Cleared(disk), s)) /\ DiskGood(Holding(disk, s))
                        /\ DiskGood(Holding(Prepared(disk, s), s)) /\ DiskGood(Cleared(disk))
                        /\ DiskGood(Holding(Prepared(disk, s), 0))
  BY <1>0, DiskOps
<1>1. CASE Refused(t)
  <2> DEFINE q == tasks[t]
             s == q.mine
             shown == Exposed(auth, None, FALSE)
             r == [q EXCEPT !.pc = "recovering"]
             w == [q EXCEPT !.pc = "awaiting"]
             f == Entered(s, "started", q.target)
  <2>1. server' = server /\ q.pc = "refused"
    BY <1>1 DEF Refused
  <2>2. /\ Record(r, "recovering", s, q.next, q.then)
        /\ Plain(w, "awaiting", q)
    BY <1>0, RecordOf, Zenon DEF Plain
  <2>3. ShownGood(shown)
    BY <1>0, <1>a DEF None
  <2>4. DiskGood(disk')
    BY <1>0, <1>1, <1>b DEF Refused, None
  <2>5. \/ (Ends(t, shown) \/ Ends(t, auth)) /\ flight' = flight
        \/ /\ t = "switchMode" /\ InSandbox(s) /\ auth' = shown /\ barrier' = barrier
           /\ \/ Unrecovered(s) /\ flight' = f /\ Goto(t, r)
              \/ flight' = flight /\ Goto(t, w)
    BY <1>1, Zenon DEF Refused
  <2> HIDE DEF shown, r, w
  <2>6. CASE (Ends(t, shown) \/ Ends(t, auth)) /\ flight' = flight
    BY <1>0, <2>1, <2>3, <2>4, <2>6, EndsSafely
  <2>7. CASE /\ t = "switchMode" /\ InSandbox(s) /\ auth' = shown /\ barrier' = barrier
             /\ flight' = flight /\ Goto(t, w)
    <3>1. Placed(t, w)
      BY <1>0, <2>2, <2>7 DEF Placed, Plain, Record, InSandbox
    <3> QED  BY <1>0, <2>1, <2>2, <2>3, <2>4, <2>7, <3>1, PlainGoes DEF Recovering, Underway
  <2>8. CASE /\ t = "switchMode" /\ auth' = shown /\ barrier' = barrier
             /\ Unrecovered(s) /\ flight' = f /\ Goto(t, r)
    <3>1. barrier.transition = t
      BY <1>0, <2>1, <2>8 DEF Safe, OnItsWay, Changer
    <3>2. Unasked(s, flight.recovery)
      BY <2>8, <1>0 DEF Unrecovered, Unasked, RecGood, Recovered
    <3>3. RecGood(f) /\ Pending(s, f.recovery)
      BY <3>2, EnteredGood
    <3> HIDE DEF f
    <3>4. Safe(t, r, barrier.transition, n, flight'.recovery)
      BY <1>0, <2>1, <2>2, <2>8, <3>1, <3>3
         DEF Safe, Record, NotAsked, Placed, Recovering, Underway
    <3> QED  BY <2>1, <2>3, <2>4, <2>8, <3>1, <3>3, <3>4, RecoverGoes, IssuesNone
  <2> QED  BY <2>5, <2>6, <2>7, <2>8
<1>2. CASE LogoutDone
  <2>1. UNCHANGED <<flight, server>>
    BY <1>2 DEF LogoutDone
  <2>2. DiskGood(disk')
    BY <1>0, <1>2, <1>b DEF LogoutDone, None
  <2>3. /\ ShownGood(Exposed(auth, None, FALSE)) /\ ShownGood(Exposed(auth, None, TRUE))
    BY <1>0, <1>a DEF None
  <2>4. ShownGood([Exposed(auth, None, FALSE) EXCEPT !.locked = FALSE])
    BY <2>3, ShownField
  <2>5. \/ Ends("logout", [Exposed(auth, None, FALSE) EXCEPT !.locked = FALSE])
        \/ Ends("logout", auth)
        \/ Ends("logout", Exposed(auth, None, TRUE))
    BY <1>2, Zenon DEF LogoutDone
  <2> QED  BY <1>0, <2>1, <2>2, <2>3, <2>4, <2>5, EndsSafely
<1>3. CASE SwitchPersist
  <2> DEFINE u == "switchMode"
             q == tasks[u]
             r == Syncing(q, "entered")
  <2>1. UNCHANGED <<flight, server>> /\ q.pc = "issued"
    BY <1>3 DEF SwitchPersist
  <2>2. DiskGood(disk')
    BY <1>0, <1>3, <1>b DEF SwitchPersist, None
  <2>3. \/ Goto(u, r) /\ UNCHANGED <<auth, barrier>>
        \/ Ends(u, Exposed(auth, q.next, TRUE))
    BY <1>3 DEF SwitchPersist
  <2>4. Record(r, "sync", q.mine, q.next, "entered")
    BY <1>0, RecordOf, Zenon
  <2> HIDE DEF r
  <2>5. Safe(u, r, barrier.transition, n, flight.recovery)
    BY <1>0, <2>1, <2>4
       DEF Safe, Record, OnItsWay, NotAsked, Placed, Recovering, Underway, Thens
  <2>6. CASE Goto(u, r) /\ UNCHANGED <<auth, barrier>>
    BY <1>0, <2>1, <2>2, <2>5, <2>6, GoesSafely, IssuesNone
  <2>7. CASE Ends(u, Exposed(auth, q.next, TRUE))
    BY <1>0, <1>a, <2>1, <2>2, <2>7, EndsSafely
  <2> QED  BY <2>3, <2>6, <2>7
<1>4. CASE SwitchEntered
  <2> DEFINE u == "switchMode"
             q == tasks[u]
             s == q.next
             r == [q EXCEPT !.pc = "refused", !.mine = s]
             w == [q EXCEPT !.pc = "recovering", !.mine = s, !.next = None]
             f == Entered(s, "started", q.target)
  <2>1. UNCHANGED <<disk, server>> /\ q.pc = "entered"
    BY <1>4 DEF SwitchEntered
  <2>2. /\ Record(r, "refused", s, q.next, q.then)
        /\ Record(w, "recovering", s, None, q.then)
    BY <1>0, RecordOf, Zenon
  <2>3. \/ Ends(u, Exposed(auth, s, FALSE)) /\ flight' = flight
        \/ /\ auth' = Locked(Exposed(auth, s, FALSE)) \/ auth' = auth
           /\ \/ flight' = flight
              \/ flight' = [flight EXCEPT !.ending[s] = "marking", !.last = s,
                                          !.headless[s] = FALSE]
           /\ barrier' = barrier /\ Goto(u, r)
        \/ /\ auth' = Exposed(auth, None, FALSE) /\ flight' = f
           /\ barrier' = barrier /\ Goto(u, w)
    BY <1>4, Zenon DEF SwitchEntered
  <2>4. barrier.transition = u /\ Unasked(s, flight.recovery)
    BY <1>0, <2>1 DEF Safe, OnItsWay, NotAsked, Changer
  <2>5. /\ ShownGood(Locked(Exposed(auth, s, FALSE)))
        /\ ShownGood(Exposed(auth, None, FALSE)) /\ ShownGood(Exposed(auth, s, FALSE))
    <3>1. ShownGood(Exposed(auth, None, FALSE)) /\ ShownGood(Exposed(auth, s, FALSE))
      BY <1>0, <1>a DEF None
    <3>2. ShownGood(Locked(Exposed(auth, s, FALSE)))
      BY <3>1, ShownField, Zenon DEF Locked
    <3> QED  BY <3>1, <3>2
  <2>6. RecGood(f) /\ Pending(s, f.recovery)
    BY <2>4, EnteredGood
  <2>7. FlightGood([flight EXCEPT !.ending[s] = "marking", !.last = s, !.headless[s] = FALSE])
    <3>1. FlightLike(flight, flight)
      BY <1>0 DEF FlightLike, FlightGood
    <3>2. FlightLike([flight EXCEPT !.ending[s] = "marking", !.last = s,
                                    !.headless[s] = FALSE], flight)
      BY <3>1, FlightFields, Zenon
    <3> QED  BY <3>2, FlightLikeGood, Zenon
  <2> HIDE DEF r, w, f
  <2>8. CASE Ends(u, Exposed(auth, s, FALSE)) /\ flight' = flight
    BY <1>0, <2>1, <2>5, <2>8, EndsSafely
  <2>9. CASE /\ auth' = Locked(Exposed(auth, s, FALSE)) \/ auth' = auth
             /\ \/ flight' = flight
                \/ flight' = [flight EXCEPT !.ending[s] = "marking", !.last = s,
                                            !.headless[s] = FALSE]
             /\ barrier' = barrier /\ Goto(u, r)
    <3>1. Ordinary(u, r) /\ r.mine \in 0 .. n /\ r.next \in 0 .. n
      BY <1>0, <2>2 DEF Record, Ordinary, Placed, Recovering, Underway
    <3>2. ShownGood(auth') /\ FlightGood(flight')
      BY <1>0, <2>5, <2>7, <2>9, Zenon
    <3> QED  BY <1>0, <2>1, <2>9, <3>1, <3>2, GoesOrdinarily
  <2>10. CASE /\ auth' = Exposed(auth, None, FALSE) /\ flight' = f
              /\ barrier' = barrier /\ Goto(u, w)
    <3>1. Safe(u, w, barrier.transition, n, flight'.recovery)
      BY <1>0, <2>1, <2>2, <2>4, <2>6, <2>10
         DEF Safe, Record, NotAsked, Placed, Recovering, Underway, None
    <3> QED  BY <1>0, <2>1, <2>4, <2>5, <2>6, <2>10, <3>1, RecoverGoes, IssuesNone
  <2> QED  BY <2>3, <2>8, <2>9, <2>10
<1> QED
  BY <1>1, <1>2, <1>3, <1>4

LEMMA PersistSafe ==
    ASSUME RInv, NEW t \in Task, PersistWrite(t) \/ PersistExpose(t) \/ Login
    PROVE  RStep
<1> DEFINE n == server.issued
           q == tasks[t]
           s == SyncOf(t)
<1>0. /\ TaskShape(q) /\ Placed(t, q) /\ s \in 0 .. n
      /\ q.mine \in 0 .. n /\ q.next \in 0 .. n /\ q.then \in Thens
      /\ DiskGood(disk) /\ ShownGood(auth) /\ FlightGood(flight) /\ RecGood(flight)
      /\ 0 \in 0 .. n /\ n \in Nat
  BY TaskRecord, KnownGood, RecoveryKept DEF SyncOf
<1>1. CASE PersistWrite(t)
  <2> DEFINE r == [q EXCEPT !.pc = "written"]
             shown == Exposed(auth, s, TRUE)
  <2>1. UNCHANGED <<flight, server>> /\ q.pc \in {"persisting", "issued"}
    BY <1>1 DEF PersistWrite, Persists
  <2>2. DiskGood(disk')
    <3>1. disk' = disk \/ disk' = Holding(disk, s)
      BY <1>1, Zenon DEF PersistWrite
    <3> QED  BY <1>0, <3>1, DiskOps
  <2>3. \/ Ends(t, auth) \/ Ends(t, shown)
        \/ Goto(t, r) /\ UNCHANGED <<auth, barrier>>
    BY <1>1, Zenon DEF PersistWrite
  <2>4. Plain(r, "written", q) /\ ShownGood(shown)
    BY <1>0, RecordOf, ShownOps, Zenon DEF Plain
  <2> HIDE DEF r, shown
  <2>5. CASE Goto(t, r) /\ UNCHANGED <<auth, barrier>>
    <3>1. Placed(t, r)
      BY <1>0, <2>1, <2>4 DEF Placed, Plain, Record
    <3> QED  BY <1>0, <2>1, <2>2, <2>4, <2>5, <3>1, PlainGoes DEF Recovering, Underway
  <2> QED  BY <1>0, <2>1, <2>2, <2>3, <2>4, <2>5, EndsSafely
<1>2. CASE PersistExpose(t)
  <2> DEFINE r == Syncing(q, "entered")
             shown == Exposed(auth, s, TRUE)
             entering == Entering(t, s)
  <2>1. UNCHANGED <<flight, server>> /\ q.pc = "written"
    BY <1>2 DEF PersistExpose
  <2>2. DiskGood(disk')
    BY <1>0, <1>2, DiskOps DEF PersistExpose
  <2>3. \/ Ends(t, auth) \/ Ends(t, shown) \/ Ends(t, entering)
        \/ t \in {"switchContext", "upgrade"} /\ Goto(t, r) /\ auth' = entering /\ barrier' = barrier
    BY <1>2, Zenon DEF PersistExpose
  <2>4. ShownGood(shown) /\ ShownGood(entering)
    <3> DEFINE new == Exposed(auth, s, FALSE)
               locked == new.locked /\ t \notin {"login", "switchContext"}
    <3>1. ShownGood(new) /\ ShownGood(shown)
      BY <1>0, ShownOps, Zenon
    <3>2. entering = [new EXCEPT !.locked = locked]
      BY <3>1 DEF Entering, ShownGood, AuthShape
    <3> HIDE DEF new, locked
    <3>3. ShownGood([new EXCEPT !.locked = locked])
      BY <3>1, ShownField, Zenon
    <3> QED  BY <3>1, <3>2, <3>3, Zenon
  <2>5. Record(r, "sync", q.mine, q.next, "entered")
    BY <1>0, RecordOf, Zenon
  <2> HIDE DEF r, shown, entering
  <2>6. CASE t \in {"switchContext", "upgrade"} /\ Goto(t, r) /\ auth' = entering /\ barrier' = barrier
    <3>1. Ordinary(t, r) /\ r.mine \in 0 .. n /\ r.next \in 0 .. n
      BY <1>0, <2>1, <2>5, <2>6 DEF Record, Ordinary, Placed, Recovering, Underway, Thens
    <3> QED  BY <1>0, <2>1, <2>2, <2>4, <2>6, <3>1, GoesOrdinarily
  <2> QED  BY <1>0, <2>1, <2>2, <2>3, <2>4, <2>6, EndsSafely
<1>3. CASE Login
  <2> DEFINE u == "login"
             r == [Idle EXCEPT !.pc = "persisting", !.next = NextSession]
  <2>1. PICK mode : server' = [server EXCEPT !.issued = NextSession,
                                             !.rows[NextSession] = NewRow(mode)]
    BY <1>3 DEF Login
  <2>2. /\ Goto(u, r) /\ server.issued < MaxSession
        /\ UNCHANGED <<auth, barrier, flight, disk>>
    BY <1>3 DEF Login
  <2>3. Record(r, "persisting", 0, NextSession, "none")
    BY IdleOf, Zenon
  <2> HIDE DEF r
  <2>4. Issues /\ server'.issued = n + 1 /\ NextSession = n + 1
    <3> DEFINE rows == [server.rows EXCEPT ![NextSession] = NewRow(mode)]
    <3>1. server' = [issued |-> n + 1, generation |-> server.generation,
                     enabled |-> server.enabled, open |-> server.open, rows |-> rows]
      <4>1. server' = [server EXCEPT !.issued = NextSession, !.rows = rows]
        BY <2>1 DEF RInv, Known, ServerShape
      <4> HIDE DEF rows
      <4> QED  BY <4>1 DEF RInv, Known, ServerShape, NextSession
    <3> HIDE DEF rows
    <3> QED  BY <1>0, <2>2, <3>1, DeviceAssumption DEF Issues, ServerShape, NextSession
  <2>5. u \in Task \ Changer
    BY TaskNames
  <2>6. Safe(u, r, barrier.transition, server'.issued, flight.recovery)
    BY <1>0, <2>3, <2>4, <2>5
       DEF Safe, Record, OnItsWay, NotAsked, Placed, Recovering, Underway, Thens
  <2>7. Careful'
    BY <2>2, <2>4, <2>5, <2>6, CarefulHolds
  <2> QED  BY <1>0, <2>2, <2>4, <2>7, KnownHolds DEF RStep
<1> QED
  BY <1>1, <1>2, <1>3

LEMMA AccessSafe ==
    ASSUME RInv, NEW t \in Task,
           ProfileBegin \/ ProfileAnswered \/ Open(t) \/ BeginLocalMutation(t) \/ WriteEnds
    PROVE  RStep
<1> DEFINE n == server.issued
<1>0. /\ {"profile", "write", "revalidate"} \subseteq Task \ Changer
      /\ \A u \in Task : TaskShape(tasks[u]) /\ Placed(u, tasks[u])
      /\ DiskGood(disk) /\ ShownGood(auth) /\ FlightGood(flight)
      /\ auth.session \in 0 .. n /\ 0 \in 0 .. n
  BY TaskNames, TaskRecord, KnownGood DEF ShownGood
<1>1. CASE ProfileBegin
  <2> DEFINE r == [Idle EXCEPT !.pc = "asking", !.mine = auth.session]
  <2>1. /\ Goto("profile", r) /\ barrier' = Leased("profile")
        /\ UNCHANGED <<auth, flight, disk, server>>
    BY <1>1 DEF ProfileBegin
  <2>2. Record(r, "asking", auth.session, 0, "none")
    BY IdleOf, Zenon
  <2> HIDE DEF r
  <2>3. Ordinary("profile", r) /\ r.mine \in 0 .. n /\ r.next \in 0 .. n
    BY <1>0, <2>2 DEF Record, Ordinary, Placed, Recovering, Underway, Thens
  <2> QED  BY <1>0, <2>1, <2>3, TransitionKept, GoesOrdinarily
<1>2. CASE ProfileAnswered
  <2> DEFINE u == "profile"
             r(pc) == [tasks[u] EXCEPT !.pc = pc]
  <2>1. server' = server
    BY <1>2 DEF ProfileAnswered
  <2>2. \/ Ends(u, auth) /\ UNCHANGED <<flight, disk>>
        \/ /\ \E pc \in {"persisting", "refused"} : Goto(u, r(pc)) /\ barrier' = barrier
           /\ \/ UNCHANGED <<auth, disk, flight>>
              \/ \E answer : Reported(tasks[u].mine, answer, flight, disk)
    BY <1>2 DEF ProfileAnswered
  <2>3. CASE Ends(u, auth) /\ UNCHANGED <<flight, disk>>
    BY <1>0, <2>1, <2>3, EndsSafely
  <2>4. ASSUME NEW pc \in {"persisting", "refused"}, Goto(u, r(pc)), barrier' = barrier,
               \/ UNCHANGED <<auth, disk, flight>>
               \/ \E answer : Reported(tasks[u].mine, answer, flight, disk)
        PROVE  RStep
    <3>1. Plain(r(pc), pc, tasks[u])
      BY <1>0, RecordOf, Zenon DEF Plain
    <3> HIDE DEF r
    <3>2. Placed(u, r(pc))
      BY <3>1 DEF Placed, Plain, Record
    <3>3. DiskGood(disk') /\ ShownGood(auth') /\ FlightGood(flight')
      BY <1>0, <2>4, ReportGood, FlightLikeGood DEF FlightGood
    <3> QED  BY <1>0, <2>1, <2>4, <3>1, <3>2, <3>3, PlainGoes DEF Recovering, Underway
  <2> HIDE DEF r
  <2> QED  BY <2>2, <2>3, <2>4
<1>3. CASE Open(t)
  <2> DEFINE r == [Idle EXCEPT !.pc = "opened", !.mine = auth.session]
  <2>1. /\ Goto(t, r) /\ t \in {"write", "revalidate"}
        /\ UNCHANGED <<auth, barrier, flight, disk, server>>
    BY <1>3 DEF Open
  <2>2. Record(r, "opened", auth.session, 0, "none")
    BY IdleOf, Zenon
  <2> HIDE DEF r
  <2>3. Ordinary(t, r) /\ r.mine \in 0 .. n /\ r.next \in 0 .. n
    BY <1>0, <2>1, <2>2 DEF Record, Ordinary, Placed, Recovering, Underway, Thens
  <2> QED  BY <1>0, <2>1, <2>3, GoesOrdinarily
<1>4. CASE BeginLocalMutation(t)
  <2> DEFINE pc == IF t = "write" THEN "writing" ELSE "asking"
             r == [tasks[t] EXCEPT !.pc = pc]
  <2>1. /\ UNCHANGED <<flight, disk, server>> /\ tasks[t].pc = "opened"
        /\ \/ Ends(t, auth)
           \/ Goto(t, r) /\ barrier' = Leased(t) /\ auth' = auth
    BY <1>4 DEF BeginLocalMutation
  <2>2. Plain(r, pc, tasks[t])
    BY <1>0, RecordOf, Zenon DEF Plain
  <2> HIDE DEF r
  <2>3. Placed(t, r)
    BY <1>0, <2>1, <2>2 DEF Placed, Plain, Record
  <2>4. CASE Goto(t, r) /\ barrier' = Leased(t) /\ auth' = auth
    BY <1>0, <2>1, <2>2, <2>3, <2>4, TransitionKept, PlainGoes DEF Recovering, Underway
  <2> QED  BY <1>0, <2>1, <2>4, EndsSafely
<1>5. CASE WriteEnds
  <2>1. UNCHANGED <<flight, server>> /\ Ends("write", auth)
    BY <1>5 DEF WriteEnds
  <2> DEFINE x == disk.outbox[Row(tasks["write"].mine).mode] \cup {"ready"}
  <2>2. disk' = [disk EXCEPT !.outbox[Row(tasks["write"].mine).mode] = x]
    BY <1>0, <1>5 DEF WriteEnds, DiskGood, DiskShape
  <2> HIDE DEF x
  <2>3. DiskGood(disk')
    BY <1>0, <2>2, DiskOutbox
  <2> QED  BY <1>0, <2>1, <2>3, EndsSafely
<1> QED
  BY <1>1, <1>2, <1>3, <1>4, <1>5

(* The release of quarantined operations starts a sync: two tasks move.    *)
LEMMA RevalidateSafe ==
    ASSUME RInv, RevalidateAnswered \/ RevalidateEnds
    PROVE  RStep
<1> DEFINE t == "revalidate"
           n == server.issued
           r == [tasks[t] EXCEPT !.pc = "waiting"]
           w == [tasks[t] EXCEPT !.pc = "refused"]
           sync == Syncing([Idle EXCEPT !.mine = auth.session], "synced")
<1>0. /\ {t, "sync"} \subseteq Task \ Changer
      /\ TaskShape(tasks[t]) /\ Placed(t, tasks[t])
      /\ DiskGood(disk) /\ ShownGood(auth) /\ FlightGood(flight)
      /\ auth.session \in 0 .. n /\ 0 \in 0 .. n
      /\ Business(auth.session) => auth.session \in Session
  BY TaskNames, TaskRecord, KnownGood DEF ShownGood, Business
<1>1. CASE RevalidateEnds
  BY <1>0, <1>1, EndsSafely DEF RevalidateEnds
<1>2. CASE RevalidateAnswered
  <2>1. server' = server /\ tasks[t].pc = "asking"
    BY <1>2 DEF RevalidateAnswered
  <2>2. /\ Plain(r, "waiting", tasks[t]) /\ Plain(w, "refused", tasks[t])
        /\ Record(sync, "sync", auth.session, 0, "synced")
    BY <1>0, RecordOf, IdleOf, Zenon DEF Plain
  <2>3. \/ Ends(t, auth) /\ UNCHANGED <<flight, disk>>
        \/ /\ Reported(tasks[t].mine, Answer(tasks[t].mine), flight, disk)
           /\ Goto(t, w) /\ barrier' = barrier
        \/ /\ disk' = Released(disk, tasks[t].mine) /\ UNCHANGED <<auth, flight>>
           /\ \/ Goto(t, r) /\ barrier' = barrier
              \/ /\ tasks' = [tasks EXCEPT ![t].pc = "waiting", !["sync"] = sync]
                 /\ Business(auth.session) /\ barrier' = Leased("sync")
    BY <1>2 DEF RevalidateAnswered
  <2>4. tasks' = [tasks EXCEPT ![t].pc = "waiting", !["sync"] = sync]
           => tasks' = [u \in Task |-> IF u = "sync" THEN sync
                                       ELSE IF u = t THEN r ELSE tasks[u]]
    BY <1>0 DEF RInv, BInv, Shapes
  <2> HIDE DEF r, w, sync
  <2>5. CASE Ends(t, auth) /\ UNCHANGED <<flight, disk>>
    BY <1>0, <2>1, <2>5, EndsSafely
  <2>6. CASE /\ Reported(tasks[t].mine, Answer(tasks[t].mine), flight, disk)
             /\ Goto(t, w) /\ barrier' = barrier
    <3>1. Placed(t, w)
      BY <2>2 DEF Placed, Plain, Record
    <3>2. DiskGood(disk') /\ ShownGood(auth') /\ FlightGood(flight')
      BY <1>0, <2>6, ReportGood, FlightLikeGood DEF FlightGood
    <3> QED  BY <1>0, <2>1, <2>2, <2>6, <3>1, <3>2, PlainGoes DEF Recovering, Underway
  <2>7. DiskGood(Released(disk, tasks[t].mine))
    BY <1>0, DiskOps
  <2>8. Placed(t, r)
    BY <2>2 DEF Placed, Plain, Record
  <2>9. CASE /\ disk' = Released(disk, tasks[t].mine) /\ UNCHANGED <<auth, flight>>
             /\ Goto(t, r) /\ barrier' = barrier
    BY <1>0, <2>1, <2>2, <2>7, <2>8, <2>9, PlainGoes DEF Recovering, Underway
  <2>10. CASE /\ disk' = Released(disk, tasks[t].mine) /\ UNCHANGED <<auth, flight>>
              /\ tasks' = [tasks EXCEPT ![t].pc = "waiting", !["sync"] = sync]
              /\ Business(auth.session) /\ barrier' = Leased("sync")
    <3>1. barrier'.transition = barrier.transition
      BY <2>10, TransitionKept
    <3>2. Safe(t, tasks[t], barrier.transition, n, flight.recovery)
          /\ Safe("sync", tasks["sync"], barrier.transition, n, flight.recovery)
      BY <1>0 DEF RInv, Careful
    <3>3. Safe(t, r, barrier.transition, n, flight.recovery)
      BY <1>0, <2>2, <2>8, <3>2
         DEF Safe, Plain, Record, OnItsWay, NotAsked, Recovering, Underway
    <3>4. Safe("sync", sync, barrier.transition, n, flight.recovery)
      BY <1>0, <2>2, <2>10
         DEF Safe, Record, OnItsWay, NotAsked, Placed, Recovering, Underway, Thens
    <3>5. Careful'
      BY <2>1, <2>4, <2>10, <3>1, <3>3, <3>4 DEF RInv, Careful
    <3> QED  BY <1>0, <2>1, <2>7, <2>10, <3>5, KnownHolds, IssuesNone, RecoveryKept DEF RStep
  <2> QED  BY <2>3, <2>5, <2>6, <2>9, <2>10
<1> QED
  BY <1>1, <1>2

(* Everybody who waits for the sync goes on at once.                       *)
LEMMA SyncSafe ==
    ASSUME RInv, SyncStep
    PROVE  RStep
<1> DEFINE n == server.issued
           s == flight.sync.of
<1>0. /\ DiskGood(disk) /\ ShownGood(auth) /\ FlightGood(flight)
      /\ FlightLike(flight, flight) /\ 0 \in 0 .. n
  BY KnownGood DEF FlightLike, FlightGood
<1>a. \A stage, answer : FlightLike(Synced(stage, answer), flight)
  BY <1>0, FlightFields, Zenon DEF Synced
<1>1. CASE SyncEnds
  <2> DEFINE r(t) == [tasks[t] EXCEPT !.pc = tasks[t].then, !.answer = flight.sync.answer]
  <2>1. /\ tasks' = [t \in Task |-> IF tasks[t].pc = "syncing" THEN r(t) ELSE tasks[t]]
        /\ flight' = [flight EXCEPT !.sync = NoSync]
        /\ UNCHANGED <<auth, barrier, disk, server>>
    BY <1>1 DEF SyncEnds
  <2>2. FlightGood(flight')
    <3>1. FlightGood([flight EXCEPT !.sync = [of |-> 0, stage |-> "idle", answer |-> "none"]])
      BY <1>0, FlightSyncs, Zenon
    <3> QED  BY <2>1, <3>1, Zenon DEF NoSync, None
  <2>3. ASSUME NEW t \in Task, tasks[t].pc = "syncing"
        PROVE  Safe(t, r(t), barrier.transition, n, flight.recovery)
    <3>1. Record(r(t), tasks[t].then, tasks[t].mine, tasks[t].next, tasks[t].then)
      BY TaskRecord, RecordOf, Zenon
    <3>2. Safe(t, tasks[t], barrier.transition, n, flight.recovery)
      BY DEF RInv, Careful
    <3> HIDE DEF r
    <3> QED  BY <2>3, <3>1, <3>2
             DEF Safe, Record, OnItsWay, NotAsked, Placed, Recovering, Underway, Thens
  <2> HIDE DEF r
  <2>4. Careful'
    BY <2>1, <2>2, <2>3 DEF RInv, Careful, FlightGood
  <2> QED  BY <1>0, <2>1, <2>2, <2>4, KnownHolds, IssuesNone, RecoveryKept DEF RStep
<1>2. CASE SyncLost \/ SyncPushed \/ SyncPulled
  <2>1. UNCHANGED <<tasks, barrier, auth, server>>
    BY <1>2 DEF SyncLost, SyncPushed, SyncPulled
  <2>2. FlightGood(flight')
    BY <1>a, <1>2, FlightLikeGood DEF SyncLost, SyncPushed, SyncPulled
  <2>3. DiskGood(disk')
    <3>1. CASE disk' = disk
      BY <1>0, <3>1
    <3>2. ASSUME NEW left,
                 disk' = [disk EXCEPT !.outbox[Row(s).mode] = (@ \ {"ready"}) \cup left]
          PROVE  DiskGood(disk')
      <4> DEFINE x == (disk.outbox[Row(s).mode] \ {"ready"}) \cup left
      <4>1. disk' = [disk EXCEPT !.outbox[Row(s).mode] = x]
        BY <1>0, <3>2 DEF DiskGood, DiskShape
      <4> HIDE DEF x
      <4> QED  BY <1>0, <4>1, DiskOutbox
    <3> QED  BY <1>2, <3>1, <3>2 DEF SyncLost, SyncPushed, SyncPulled
  <2> QED  BY <1>0, <2>1, <2>2, <2>3, StaysSafe, IssuesNone
<1>3. CASE SyncRefused
  <2>1. /\ UNCHANGED <<tasks, barrier, server>>
        /\ \E answer, d : /\ Reported(s, answer, Synced("failed", answer), d)
                          /\ d = disk \/ d = Quarantined(disk, s)
    BY <1>3 DEF SyncRefused
  <2>2. PICK answer, d : /\ Reported(s, answer, Synced("failed", answer), d)
                         /\ d = disk \/ d = Quarantined(disk, s)
    BY <2>1
  <2> DEFINE f == Synced("failed", answer)
  <2>3. FlightLike(f, flight) /\ FlightShape(f) /\ DiskGood(d)
    BY <1>0, <1>a, <2>2, DiskOps DEF FlightLike
  <2> HIDE DEF f
  <2>4. DiskGood(disk') /\ ShownGood(auth') /\ FlightLike(flight', f)
    BY <2>2, <2>3, ReportGood DEF f
  <2>5. FlightGood(flight')
    BY <2>3, <2>4, FlightLikeGood DEF FlightLike
  <2> QED  BY <2>1, <2>4, <2>5, StaysSafe, IssuesNone
<1> QED
  BY <1>1, <1>2, <1>3 DEF SyncStep

LEMMA EndingSafe ==
    ASSUME RInv, NEW s \in Session, EndingStep(s)
    PROVE  RStep
<1>0. /\ DiskGood(disk) /\ ShownGood(auth) /\ FlightLike(flight, flight)
      /\ 0 \in 0 .. server.issued
  BY KnownGood DEF FlightLike, FlightGood
<1>1. UNCHANGED <<tasks, barrier, server>>
  BY DEF EndingStep, EndingMarks, EndingClears
<1>2. FlightGood(flight')
  <2>1. \E stage : flight' = [flight EXCEPT !.ending[s] = stage]
    BY DEF EndingStep, EndingMarks, EndingClears, EndingGoes
  <2>2. \A stage : FlightLike([flight EXCEPT !.ending[s] = stage], flight)
    BY <1>0, FlightField, Zenon
  <2> QED  BY <2>1, <2>2, FlightLikeGood, Zenon
<1>3. DiskGood(disk')
  <2>1. disk' = disk \/ disk' = Quarantined(disk, s) \/ disk' = Holding(disk, 0)
    BY DEF EndingStep, EndingMarks, EndingClears, None
  <2> QED  BY <1>0, <2>1, DiskOps
<1>4. ShownGood(auth')
  <2> DEFINE b == [auth EXCEPT !.session = 0]
             c == [b EXCEPT !.locked = FALSE]
  <2>1. \/ auth' = auth
        \/ \E x : auth' = [auth EXCEPT !.broken = x]
        \/ auth' = [c EXCEPT !.broken = FALSE]
    <3>1. CASE EndingMarks(s)
      BY <1>0, <3>1 DEF EndingMarks, ShownGood, AuthShape
    <3>2. CASE EndingClears(s)
      BY <3>2, Zenon DEF EndingClears, None
    <3> QED  BY <3>1, <3>2 DEF EndingStep
  <2>2. ShownGood(b)
    BY <1>0, ShownOps
  <2> HIDE DEF b
  <2>3. ShownGood(c)
    BY <2>2, ShownField
  <2> HIDE DEF c
  <2>4. ShownGood([c EXCEPT !.broken = FALSE])
    BY <2>3, ShownField
  <2>5. \A x : ShownGood([auth EXCEPT !.broken = x])
    BY <1>0, ShownField
  <2> QED  BY <1>0, <2>1, <2>4, <2>5, Zenon
<1> QED
  BY <1>1, <1>2, <1>3, <1>4, StaysSafe, IssuesNone

(* What happens at the server issues no session.                           *)
LEMMA ElsewhereSafe ==
    ASSUME RInv, Elsewhere \/ vars' = vars
    PROVE  RStep
<1>0. DiskGood(disk) /\ ShownGood(auth) /\ FlightGood(flight) /\ server.issued \in Nat
  BY KnownGood
<1>1. UNCHANGED <<tasks, barrier, auth, flight, disk>>
  BY DEF Elsewhere, Reset, Disable, Suspend, Revoke, Happens, vars, memory
<1>2. Issues
  <2>1. CASE server' = server
    BY <2>1, IssuesNone
  <2>2. CASE Disable \/ Suspend
    <3>1. server.issued <= MaxSession /\ ServerShape(server)
      BY <1>0, DeviceAssumption DEF RInv, Known
    <3>2. \/ server' = [server EXCEPT !.enabled = ~server.enabled]
          \/ server' = [server EXCEPT !.open = ~server.open]
      BY <2>2, <3>1 DEF Disable, Suspend, ServerShape
    <3> DEFINE x == ~server.enabled
               y == ~server.open
    <3>3. server' = [server EXCEPT !.enabled = x] \/ server' = [server EXCEPT !.open = y]
      BY <3>2
    <3> HIDE DEF x, y
    <3> QED  BY <3>1, <3>3 DEF Issues, ServerShape
  <2>3. CASE Reset
    <3>1. PICK rows, g : server' = [server EXCEPT !.generation = g, !.rows = rows]
      BY <2>3 DEF Reset
    <3>2. server' = [issued |-> server.issued, generation |-> g, enabled |-> server.enabled,
                     open |-> server.open, rows |-> rows]
      BY <3>1 DEF RInv, Known, ServerShape
    <3> QED  BY <1>0, <3>2, DeviceAssumption DEF RInv, Known, ServerShape, Issues
  <2>4. CASE \E s \in Session : Revoke(s)
    <3>1. PICK s \in Session : server' = [server EXCEPT !.rows[s].state = "ended"]
      BY <2>4 DEF Revoke, LoggedOut
    <3> DEFINE rows == [server.rows EXCEPT ![s] = [server.rows[s] EXCEPT !.state = "ended"]]
    <3>2. server' = [server EXCEPT !.rows = rows]
      BY <3>1 DEF RInv, Known, ServerShape
    <3> HIDE DEF rows
    <3> QED  BY <3>2, ServerRows
  <2> QED  BY <2>1, <2>2, <2>3, <2>4 DEF Elsewhere, vars
<1> QED
  BY <1>0, <1>1, <1>2, StaysSafe

(* When the process starts, nothing has been recovered.                    *)
LEMMA FreshGood ==
    ASSUME NEW n \in Nat
    PROVE  FlightShape(Fresh) /\ Fresh.sync.of = 0 /\ Recovered(Fresh.recovery, n)
<1>1. FlightShape(Fresh) /\ Fresh.sync.of = 0
  BY DEF Fresh, FlightShape, NoSync, None
<1>2. Fresh.recovery = [s \in Session |-> NoRecovery]
  BY DEF Fresh
<1>3. RecoveryShape(NoRecovery) /\ NoRecovery.result = 0 /\ NoRecovery.posts = 0
  BY DEF RecoveryShape, NoRecovery, None
<1>4. Recovered(Fresh.recovery, n)
  <2> HIDE DEF NoRecovery
  <2> QED  BY <1>2, <1>3 DEF Recovered
<1> QED
  BY <1>1, <1>4

LEMMA KillSafe ==
    ASSUME RInv, Kill
    PROVE  RStep
<1>1. /\ tasks' = [t \in Task |-> Idle] /\ flight' = Fresh /\ auth' = Unstarted(0)
      /\ UNCHANGED <<disk, server>>
  BY DEF Kill, None
<1>2. server.issued \in Nat /\ 0 \in 0 .. server.issued
  BY KnownGood
<1>3. auth'.session = 0
  BY <1>1 DEF Unstarted
<1>4. Careful'
  BY <1>1, <1>2, IdleSafe DEF Careful
<1> QED
  BY <1>1, <1>2, <1>3, <1>4, FreshGood DEF RInv, Known, RStep

LEMMA InitSafe == Init => Known /\ Careful
<1> SUFFICES ASSUME Init PROVE Known /\ Careful
  OBVIOUS
<1>1. /\ tasks = [t \in Task |-> Idle] /\ flight = Fresh
      /\ auth.session \in {0, 1}
      /\ ServerShape(server) /\ server.issued = 1
      /\ DiskShape(disk) /\ disk.stored = 1
  BY DEF Init, Unstarted, None, ServerShape, DiskShape
<1>2. Careful
  BY <1>1, IdleSafe DEF Careful
<1> QED
  BY <1>1, <1>2, FreshGood, DeviceAssumption DEF Known

-----------------------------------------------------------------------------
LEMMA NextSafe == RInv /\ [Next]_vars => RInv'
<1> SUFFICES ASSUME RInv, [Next]_vars PROVE RInv'
  OBVIOUS
<1>0. {"hydrate", "background", "sync", "login"} \cup Changer \subseteq Task
  BY DEF Task, Changer
<1>1. ASSUME Begin PROVE RStep
  <2>1. CASE HydrateBegin
    BY <2>1, HydrateSafe
  <2>2. CASE BackgroundBegin \/ SyncNow
    BY <1>0, <2>2, SyncTaskSafe
  <2>3. CASE Login
    BY <1>0, <2>3, PersistSafe
  <2>4. CASE ProfileBegin \/ \E t \in Task : Open(t)
    BY <1>0, <2>4, AccessSafe
  <2>5. CASE \E t \in Changer : ChangeBegin(t)
    BY <1>0, <2>5, ChangeSafe
  <2> QED  BY <1>1, <2>1, <2>2, <2>3, <2>4, <2>5 DEF Begin
<1>2. ASSUME NEW t \in Task, TaskStep(t) PROVE RStep
  BY <1>2, HydrateSafe, SyncTaskSafe, RecoverySafe, ChangeSafe, OutcomeSafe,
     PersistSafe, AccessSafe, RevalidateSafe
     DEF TaskStep
<1>3. RStep
  BY <1>1, <1>2, SyncSafe, EndingSafe, ElsewhereSafe, KillSafe DEF Next
<1>4. BInv'
  BY NextHolds DEF RInv, BStep
<1> QED
  BY <1>3, <1>4 DEF RStep, RInv

(***************************************************************************)
(* A retired session is exchanged at most once by recoveries while the     *)
(* process lives, and no two tasks recover at a time                       *)
(* (recoverRetiredSandboxGeneration of auth-store.ts, which keeps what a   *)
(* recovery has come to, and its mutation transition).                     *)
(***************************************************************************)
THEOREM RecoversOnce == Spec => []OneRotation
<1>1. Init => RInv
  BY InitHolds, InitSafe DEF RInv
<1>2. RInv => OneRotation
  <2> SUFFICES ASSUME RInv PROVE OneRotation
    OBVIOUS
  <2>1. \A s \in Session : flight.recovery[s].posts <= 1
    BY DEF RInv, Known, Recovered
  <2>2. ASSUME NEW t \in Task, tasks[t].pc \in Recovering
        PROVE  barrier.transition = t
    BY <2>2 DEF RInv, Careful, Safe, OnItsWay
  <2> QED  BY <2>1, <2>2 DEF OneRotation
<1> QED
  BY <1>1, <1>2, NextSafe, PTL DEF Spec

(***************************************************************************)
(* Whoever recovers holds the transition, and has the device's data to     *)
(* itself once the recovery touches it.                                    *)
(***************************************************************************)
RecoversAlone ==
    \A t \in Task : tasks[t].pc \in Recovering =>
        /\ barrier.transition = t
        /\ barrier.leases = {}
        /\ auth.switching = t

THEOREM RecoveriesAlone == Spec => []RecoversAlone
<1>1. Init => RInv
  BY InitHolds, InitSafe DEF RInv
<1>2. RInv => RecoversAlone
  BY DeviceAssumption
     DEF RInv, BInv, Owner, Careful, Safe, OnItsWay, Recovering, RecoversAlone
<1> QED
  BY <1>1, <1>2, NextSafe, PTL DEF Spec

-----------------------------------------------------------------------------
(***************************************************************************)
(* A session that has been signed out stays out.  A session just issued is *)
(* known to one task only, which stores or shows it before anybody can be  *)
(* told that it has ended; a start-up, and a task that has stored its      *)
(* session, hears of every invalidation that begins since; and a session   *)
(* that a recovery has exchanged is nowhere any more.                      *)
(***************************************************************************)
RowShape(row) == row = [mode |-> row.mode, state |-> row.state, generation |-> row.generation]

Stage(s) == flight.recovery[s].stage

(* x may be stored, or shown. *)
Allowed(x) ==
    x # None => /\ flight.ending[x] = "done" => FoundLate(x)
                /\ Stage(x) # "done"

(* Nobody has been told that x has ended, or a start-up was late. *)
Sound(x) == x # None => flight.ending[x] = "none" \/ FoundLate(x)

(* A task has been issued a session, and has not stored it yet. *)
Born(t, q) ==
    \/ q.pc = "rotated"
    \/ q.pc = "issued" /\ t # "logout"
    \/ q.pc = "persisting" /\ t = "login"

(* A task has stored a session, and has not shown it yet. *)
Settling(t, q) ==
    \/ q.pc \in Underway /\ q.then = "resynced"
    \/ q.pc = "resynced"
    \/ t = "switchMode" /\ (q.pc = "entered" \/ (q.pc \in Underway /\ q.then = "entered"))

(* Task t may be recovering its session. *)
Recoverer(t, q) ==
    \/ q.pc \in {"checking", "awaiting"} \cup Recovering
    \/ q.pc = "draining" /\ t \notin Changer
    \/ q.pc \in Underway /\ q.then = "resynced"

(* Task t is at what the periodic sync and the background task do under    *)
(* local access.                                                           *)
Polling(t, q) ==
    /\ t \in {"background", "sync"}
    /\ q.pc \in {"woken", "synced"} \/ (q.pc \in Underway /\ q.then = "synced")

(* No task but t has x. *)
Own(t, x) ==
    /\ x # None /\ tasks[t].mine # x /\ auth.session # x
    /\ \A u \in Task \ {t} : tasks[u].mine # x /\ tasks[u].next # x

Untold(t) ==
    LET x == tasks[t].next IN
    Born(t, tasks[t]) =>
        /\ Own(t, x) /\ Stage(x) # "done"
        /\ disk.stored # x /\ flight.sync.of # x
        /\ flight.ending[x] = "none"

Quiet(t) ==
    LET q == tasks[t] x == q.next IN
    Settling(t, q) =>
        /\ Own(t, x) /\ Stage(x) # "done"
        /\ q.pc # "syncing" => flight.sync.of # x
        /\ Recoverer(t, q) => disk.stored # q.mine
        /\ \/ flight.ending[x] = "none"
           \/ q.pc = "syncing" /\ flight.sync.stage = "failed"
                               /\ flight.sync.answer = "unauthorized"
           \/ q.pc \in {"resynced", "entered"} /\ q.answer = "unauthorized"

Joined(t) ==
    tasks[t].pc \in Underway =>
        /\ SyncOf(t) # None
        /\ tasks[t].pc = "syncing" => flight.sync.of = SyncOf(t)

Wrote(t) ==
    LET x == SyncOf(t) IN
    tasks[t].pc = "written" =>
        /\ x # None /\ Stage(x) # "done"
        /\ t \in Changer \/ ~InSandbox(x)
        /\ t \in current => Sound(x)

Noticed(t) ==
    t = "hydrate" /\ tasks[t].pc # "idle" /\ t \in current => Sound(tasks[t].mine)

Unfinished(t) ==
    /\ \/ t \in Changer \cup {"hydrate"} /\ tasks[t].pc # "idle"
       \/ tasks[t].pc = "awaiting"
    /\ tasks[t].mine # None
    => Stage(tasks[t].mine) # "done"

(* Only sessions of a Sandbox are recovered; a login and a profile edit    *)
(* are for others.                                                         *)
OfItsKind(t) ==
    LET q == tasks[t] IN
    /\ Recoverer(t, q) => InSandbox(q.mine) /\ t \in {"background", "sync", "switchMode"}
    /\ Polling(t, q) => q.next = None /\ t \in barrier.leases
    /\ Polling(t, q) /\ q.pc = "synced" /\ q.answer = "retired" => InSandbox(q.mine)
    /\ t = "hydrate" /\ q.pc # "idle" => t \in barrier.leases
    /\ t = "login" /\ q.pc # "idle" => q.mine = None /\ q.next # None /\ ~InSandbox(q.next)
    /\ t = "profile" /\ q.pc # "idle" => q.mine # None /\ q.next = None /\ ~InSandbox(q.mine)
    /\ q.pc = "persisting" => t \in {"login", "profile"}
    /\ q.pc = "awaiting" => t \in Changer \/ auth.switching = t
    /\ \/ q.pc \in {"changing", "posting", "issued", "entered"}
       \/ q.pc \in Underway /\ q.then \in {"changing", "entered"}
       => t \in Changer

Fine(t) ==
    /\ Untold(t) /\ Quiet(t) /\ Joined(t) /\ Wrote(t) /\ Noticed(t) /\ Unfinished(t)
    /\ OfItsKind(t)

Rows ==
    /\ server.rows = [s \in Session |-> server.rows[s]]
    /\ \A s \in Session : RowShape(Row(s)) /\ (Row(s).state = "retired" => InSandbox(s))

Flights ==
    /\ flight.ending = [s \in Session |-> flight.ending[s]]
    /\ \A s \in Session : Stage(s) # "none" => InSandbox(s)
    /\ \A s \in Session : s > server.issued => flight.ending[s] = "none" /\ Stage(s) = "none"
    /\ flight.sync.stage # "idle" => flight.sync.of # None
    /\ flight.sync.answer = "retired" => InSandbox(flight.sync.of)

BudgetShape(b) ==
    b = [may |-> b.may, starts |-> b.starts, events |-> b.events, faults |-> b.faults,
         kills |-> b.kills, crossed |-> b.crossed, failed |-> b.failed, late |-> b.late]

World == Rows /\ Flights /\ Allowed(disk.stored) /\ Allowed(auth.session)

SInv == World /\ BudgetShape(budget) /\ \A t \in Task : Fine(t)
-----------------------------------------------------------------------------
(***************************************************************************)
(* What a step does to the sessions, A being the ones it has to do with.   *)
(***************************************************************************)
(* No session already issued changes between Sandbox and Production.       *)
Modes == \A x \in 0 .. server.issued : InSandbox(x)' <=> InSandbox(x)

SyncGoes(A) ==
    \/ flight'.sync = flight.sync
    \/ flight.sync.of = None /\ flight'.sync.of \in A
    \/ flight'.sync.of = flight.sync.of /\ flight.sync.stage # "failed"

(* The sync of x has been told that x is not accepted any more. *)
Disowned(x) ==
    /\ flight.sync.of = x /\ flight'.sync.of = x
    /\ flight'.sync.stage = "failed" /\ flight'.sync.answer = "unauthorized"

Gentle(A) ==
    /\ Modes /\ SyncGoes(A)
    /\ budget.late \subseteq budget'.late
    /\ disk'.stored \in A \cup {disk.stored, None}
    /\ auth'.session \in A \cup {auth.session, None}
    /\ \A x \in Session :
          flight.ending[x] = "none" /\ flight'.ending[x] # "none"
              => current' = {} /\ (x \in A \/ Disowned(x))

(* Where task w may have got x from. *)
Seen(x, w) ==
    \/ x \in {None, tasks[w].mine, tasks[w].next, auth.session, server.issued + 1}
    \/ x = disk.stored /\ (barrier.transition = Nobody \/ barrier.leases # {})

(* The step is not task u's, and gives it nothing and takes nothing of it. *)
Leaves(u, A) ==
    /\ tasks'[u] = tasks[u]
    /\ \A x : Own(u, x) => x \notin A
    /\ \A w \in Task \ {u} : Seen(tasks'[w].mine, w) /\ Seen(tasks'[w].next, w)
    /\ u \in current' => u \in current
    /\ u \in barrier.leases => u \in barrier'.leases
    /\ auth.switching = u => auth'.switching = u
    /\ \A x \in Session :
          Stage(x) # "done" /\ Stage(x)' = "done"
              => /\ x \in A /\ InSandbox(x) /\ barrier.leases = {}
                 /\ barrier.transition \notin {u, Nobody}
    /\ \/ disk'.stored \in {disk.stored, None} \/ ~InSandbox(disk'.stored)
       \/ barrier.transition # u

(* What RInv says of a task. *)
LEMMA TaskIs ==
    ASSUME RInv, NEW u \in Task
    PROVE  /\ tasks[u].mine \in 0 .. server.issued /\ tasks[u].next \in 0 .. server.issued
           /\ SyncOf(u) \in 0 .. server.issued
           /\ OnItsWay(u, tasks[u]) => barrier.transition = u
           /\ barrier.transition = u =>
                 /\ u # Nobody /\ auth.switching = u
                 /\ tasks[u].pc # "draining" => barrier.leases = {}
           /\ barrier.transition \notin {u, Nobody} => auth.switching # u
           /\ \A x \in 0 .. server.issued : x # None => x \in Session
           /\ server.issued \in Nat
<1>1. Safe(u, tasks[u], barrier.transition, server.issued, flight.recovery)
  BY DEF RInv, Careful
<1>2. u # Nobody
  BY DeviceAssumption
<1> QED
  BY <1>1, <1>2, KnownGood DEF Safe, SyncOf, RInv, BInv, Owner

LEMMA OwnStays ==
    ASSUME RInv, NEW u \in Task, NEW A, Gentle(A), Leaves(u, A),
           NEW x \in 0 .. server.issued, Own(u, x),
           disk.stored = x => barrier.transition = u /\ barrier.leases = {}
    PROVE  Own(u, x)'
<1>0. x # server.issued + 1 /\ x # None /\ tasks[u].mine # x /\ auth.session # x
  BY TaskIs DEF Own
<1>1. x \notin A /\ auth'.session # x
  BY <1>0 DEF Gentle, Leaves
<1>2. \A w \in Task \ {u} : ~Seen(x, w)
  BY <1>0, TaskIs DEF Own, Seen
<1>3. \A w \in Task \ {u} : tasks'[w].mine # x /\ tasks'[w].next # x
  BY <1>2 DEF Leaves
<1> QED
  BY <1>0, <1>1, <1>3 DEF Own, Leaves

LEMMA UntoldStays ==
    ASSUME RInv, NEW u \in Task, Untold(u), NEW A, Gentle(A), Leaves(u, A)
    PROVE  Untold(u)'
<1> DEFINE x == tasks[u].next
<1>0. tasks'[u] = tasks[u]
  BY DEF Leaves
<1> SUFFICES ASSUME Born(u, tasks[u])
             PROVE  /\ Own(u, x)' /\ Stage(x)' # "done"
                    /\ disk'.stored # x /\ flight'.sync.of # x
                    /\ flight'.ending[x] = "none"
  BY <1>0 DEF Untold, Born
<1>1. /\ Own(u, x) /\ Stage(x) # "done" /\ disk.stored # x /\ flight.sync.of # x
      /\ flight.ending[x] = "none" /\ x \in 0 .. server.issued
  BY TaskIs DEF Untold
<1>2. x # None /\ x \notin A /\ x \in Session
  BY <1>1, TaskIs DEF Own, Leaves
<1>3. Own(u, x)'
  BY <1>0, <1>1, OwnStays
<1>4. Stage(x)' # "done"
  BY <1>1, <1>2 DEF Leaves
<1>5. disk'.stored # x /\ flight'.sync.of # x
  BY <1>1, <1>2 DEF Gentle, SyncGoes
<1>6. flight'.ending[x] = "none"
  BY <1>1, <1>2 DEF Gentle, Disowned
<1> QED
  BY <1>3, <1>4, <1>5, <1>6

LEMMA QuietStays ==
    ASSUME RInv, NEW u \in Task, Quiet(u), Joined(u), OfItsKind(u),
           NEW A, Gentle(A), Leaves(u, A)
    PROVE  Quiet(u)'
<1> DEFINE q == tasks[u]
           x == q.next
<1>0. tasks'[u] = q
  BY DEF Leaves
<1>a. SUFFICES ASSUME Settling(u, q)
               PROVE  /\ Own(u, x)' /\ Stage(x)' # "done"
                      /\ q.pc # "syncing" => flight'.sync.of # x
                      /\ Recoverer(u, q) => disk'.stored # q.mine
                      /\ \/ flight'.ending[x] = "none"
                         \/ q.pc = "syncing" /\ flight'.sync.stage = "failed"
                                             /\ flight'.sync.answer = "unauthorized"
                         \/ q.pc \in {"resynced", "entered"} /\ q.answer = "unauthorized"
  BY <1>0 DEF Quiet, Settling, Recoverer
<1>1. /\ Own(u, x) /\ Stage(x) # "done" /\ x \in 0 .. server.issued
      /\ q.pc # "syncing" => flight.sync.of # x
      /\ Recoverer(u, q) => disk.stored # q.mine
      /\ \/ flight.ending[x] = "none"
         \/ q.pc = "syncing" /\ flight.sync.stage = "failed"
                             /\ flight.sync.answer = "unauthorized"
         \/ q.pc \in {"resynced", "entered"} /\ q.answer = "unauthorized"
  BY <1>a, TaskIs DEF Quiet
<1>2. x # None /\ x \notin A /\ x \in Session
  BY <1>1, TaskIs DEF Own, Leaves
<1>3. barrier.transition = u /\ barrier.leases = {}
  <2>1. OnItsWay(u, q) /\ q.pc # "draining"
    BY <1>a DEF Settling, OnItsWay, Recovering, Underway, Changer
  <2> QED  BY <2>1, TaskIs
<1>4. Own(u, x)'
  BY <1>0, <1>1, <1>3, OwnStays
<1>5. Stage(x)' # "done"
  BY <1>1, <1>2 DEF Leaves
<1>6. q.pc # "syncing" => flight'.sync.of # x
  BY <1>1, <1>2 DEF Gentle, SyncGoes
<1>7. \/ flight'.ending[x] = "none"
      \/ q.pc = "syncing" /\ flight'.sync.stage = "failed"
                          /\ flight'.sync.answer = "unauthorized"
      \/ q.pc \in {"resynced", "entered"} /\ q.answer = "unauthorized"
  <2>1. CASE flight.ending[x] = "none"
    BY <1>1, <1>2, <2>1 DEF Gentle, Disowned
  <2>2. CASE q.pc = "syncing" /\ flight.sync.stage = "failed"
                              /\ flight.sync.answer = "unauthorized"
                              /\ flight.ending[x] # "none"
    <3>1. flight.sync.of = x
      BY <1>2, <2>2 DEF Joined, SyncOf, Underway
    <3> QED  BY <1>1, <1>2, <2>2, <3>1 DEF Gentle, SyncGoes
  <2> QED  BY <1>1, <2>1, <2>2
<1>8. Recoverer(u, q) => disk'.stored # q.mine
  <2>1. Recoverer(u, q) => InSandbox(q.mine)
    BY DEF OfItsKind
  <2>2. disk'.stored \in {disk.stored, None} \/ ~InSandbox(disk'.stored)
    BY <1>3 DEF Leaves
  <2> QED  BY <1>1, <2>1, <2>2 DEF InSandbox
<1> QED
  BY <1>4, <1>5, <1>6, <1>7, <1>8

LEMMA JoinedStays ==
    ASSUME NEW u \in Task, Joined(u), NEW A, Gentle(A), Leaves(u, A)
    PROVE  Joined(u)'
<1>0. tasks'[u] = tasks[u] /\ SyncOf(u)' = SyncOf(u)
  BY DEF Leaves, SyncOf
<1>1. ASSUME tasks[u].pc \in Underway
      PROVE  /\ SyncOf(u) # None
             /\ tasks[u].pc = "syncing" => flight'.sync.of = SyncOf(u)
  BY <1>1 DEF Joined, Gentle, SyncGoes
<1> QED
  BY <1>0, <1>1 DEF Joined

LEMMA WroteStays ==
    ASSUME RInv, NEW u \in Task, Wrote(u), NEW A, Gentle(A), Leaves(u, A)
    PROVE  Wrote(u)'
<1> PICK x : x = SyncOf(u)
  OBVIOUS
<1>0. tasks'[u] = tasks[u] /\ SyncOf(u)' = x
  BY DEF Leaves, SyncOf
<1>a. SUFFICES ASSUME tasks[u].pc = "written"
               PROVE  /\ x # None /\ Stage(x)' # "done"
                      /\ u \in Changer \/ ~InSandbox(x)'
                      /\ u \in current' => Sound(x)'
  BY <1>0 DEF Wrote, Sound, FoundLate, InSandbox, Row
<1>1. /\ x # None /\ Stage(x) # "done" /\ x \in 0 .. server.issued /\ x \in Session
      /\ u \in Changer \/ ~InSandbox(x)
      /\ u \in current => Sound(x)
  BY <1>a, TaskIs DEF Wrote
<1>2. Stage(x)' # "done"
  <2>1. u \in Changer => barrier.transition = u
    BY <1>a, TaskIs DEF OnItsWay
  <2> QED  BY <1>1, <2>1 DEF Leaves
<1>3. u \in Changer \/ ~InSandbox(x)'
  BY <1>1 DEF Gentle, Modes
<1>4. u \in current' => Sound(x)'
  BY <1>1 DEF Gentle, Leaves, Sound, FoundLate
<1> QED
  BY <1>1, <1>2, <1>3, <1>4

LEMMA NoticedStays ==
    ASSUME RInv, NEW u \in Task, Noticed(u), NEW A, Gentle(A), Leaves(u, A)
    PROVE  Noticed(u)'
<1>1. tasks'[u] = tasks[u] /\ (u \in current' => u \in current)
  BY DEF Leaves
<1>2. tasks[u].mine # None => tasks[u].mine \in Session
  BY TaskIs
<1>3. u \in current' /\ Sound(tasks[u].mine) => Sound(tasks[u].mine)'
  BY <1>1, <1>2 DEF Gentle, Sound, FoundLate
<1> QED
  BY <1>1, <1>3 DEF Noticed, Sound, FoundLate

LEMMA UnfinishedStays ==
    ASSUME RInv, NEW u \in Task, Unfinished(u), OfItsKind(u), NEW A, Gentle(A), Leaves(u, A)
    PROVE  Unfinished(u)'
<1> DEFINE q == tasks[u]
           way == (u \in Changer \cup {"hydrate"} /\ q.pc # "idle") \/ q.pc = "awaiting"
<1>0. tasks'[u] = q
  BY DEF Leaves
<1>a. SUFFICES ASSUME way, q.mine # None PROVE Stage(q.mine)' # "done"
  BY <1>0 DEF Unfinished
<1>1. Stage(q.mine) # "done" /\ q.mine \in Session
  BY <1>a, TaskIs DEF Unfinished
<1>2. ~(barrier.leases = {} /\ barrier.transition \notin {u, Nobody})
  <2>1. CASE u \in Changer
    BY <1>a, <2>1, TaskIs DEF OnItsWay
  <2>2. CASE u = "hydrate"
    BY <1>a, <2>2 DEF OfItsKind
  <2>3. CASE q.pc = "awaiting" /\ u \notin Changer
    BY <2>3, TaskIs DEF OfItsKind
  <2> QED  BY <1>a, <2>1, <2>2, <2>3
<1> QED
  BY <1>1, <1>2 DEF Leaves

LEMMA KindStays ==
    ASSUME RInv, NEW u \in Task, OfItsKind(u), NEW A, Gentle(A), Leaves(u, A)
    PROVE  OfItsKind(u)'
<1> DEFINE q == tasks[u]
<1>0. tasks'[u] = q
  BY DEF Leaves
<1>1. /\ InSandbox(q.mine)' <=> InSandbox(q.mine)
      /\ InSandbox(q.next)' <=> InSandbox(q.next)
  <2> PICK x, y : x = q.mine /\ y = q.next
    OBVIOUS
  <2>1. InSandbox(x)' <=> InSandbox(x)
    BY TaskIs DEF Gentle, Modes
  <2>2. InSandbox(y)' <=> InSandbox(y)
    BY TaskIs DEF Gentle, Modes
  <2> QED  BY <1>0, <2>1, <2>2 DEF InSandbox, Row
<1>2. /\ u \in barrier.leases => u \in barrier'.leases
      /\ auth.switching = u => auth'.switching = u
  BY DEF Leaves
<1> QED
  BY <1>0, <1>1, <1>2 DEF OfItsKind, Recoverer, Polling, InSandbox, Row

LEMMA FineStays ==
    ASSUME RInv, NEW u \in Task, Fine(u), NEW A, Gentle(A), Leaves(u, A)
    PROVE  Fine(u)'
<1>1. Untold(u) /\ Quiet(u) /\ Joined(u) /\ Wrote(u) /\ Noticed(u) /\ Unfinished(u) /\ OfItsKind(u)
  BY DEF Fine
<1> QED
  BY <1>1, UntoldStays, QuietStays, JoinedStays, WroteStays, NoticedStays, UnfinishedStays,
     KindStays DEF Fine

-----------------------------------------------------------------------------
(***************************************************************************)
(* The kinds of steps.                                                     *)
(***************************************************************************)
SStep == World' /\ \A u \in Task : Fine(u)'

LateGrows == budget.late \subseteq budget'.late

(* What a step of task t leaves to the others. *)
Kept(t) ==
    /\ \A u \in Task \ {t} : u \in current' => u \in current
    /\ barrier.leases \ {t} \subseteq barrier'.leases
    /\ auth.switching \notin {t, Nobody} => auth'.switching = auth.switching

(* The recovery of its session may succeed, while nobody has local access. *)
DoneAlone(t) ==
    \A x \in Session :
        Stage(x) # "done" /\ Stage(x)' = "done"
            => /\ x = tasks[t].mine /\ InSandbox(x)
               /\ barrier.transition = t /\ barrier.leases = {}

(* A session of a Sandbox is stored by the task that has the transition. *)
StoresAlone(t) ==
    disk'.stored \in {disk.stored, None} \/ ~InSandbox(disk'.stored) \/ barrier.transition = t

LEMMA TaskAt ==
    ASSUME RInv, NEW t \in Task, NEW r, Goto(t, r)
    PROVE  tasks'[t] = r /\ \A u \in Task \ {t} : tasks'[u] = tasks[u]
BY DEF RInv, BInv, Shapes, Goto

LEMMA OthersFine ==
    ASSUME RInv, SInv, NEW t \in Task, NEW r, Goto(t, r),
           Gentle({tasks[t].mine, tasks[t].next}), Kept(t), DoneAlone(t), StoresAlone(t),
           Seen(r.mine, t), Seen(r.next, t),
           NEW u \in Task, u # t
    PROVE  Fine(u)'
<1> DEFINE A == {tasks[t].mine, tasks[t].next}
<1>1. Leaves(u, A)
  <2>1. tasks'[u] = tasks[u]
    BY TaskAt
  <2>2. \A x : Own(u, x) => x \notin A
    BY DEF Own
  <2>3. \A w \in Task \ {u} : Seen(tasks'[w].mine, w) /\ Seen(tasks'[w].next, w)
    <3>1. \A w \in Task : Seen(tasks[w].mine, w) /\ Seen(tasks[w].next, w)
      BY DEF Seen
    <3> QED  BY <3>1, TaskAt
  <2>4. /\ u \in current' => u \in current
        /\ u \in barrier.leases => u \in barrier'.leases
        /\ auth.switching = u => auth'.switching = u
    BY DeviceAssumption DEF Kept
  <2>5. \A x \in Session :
          Stage(x) # "done" /\ Stage(x)' = "done"
              => /\ x \in A /\ InSandbox(x) /\ barrier.leases = {}
                 /\ barrier.transition \notin {u, Nobody}
    BY DeviceAssumption DEF DoneAlone
  <2>6. \/ disk'.stored \in {disk.stored, None} \/ ~InSandbox(disk'.stored)
        \/ barrier.transition # u
    BY DEF StoresAlone
  <2> HIDE DEF A
  <2> QED  BY <2>1, <2>2, <2>3, <2>4, <2>5, <2>6 DEF Leaves
<1>2. Fine(u) /\ Gentle(A)
  BY DEF SInv
<1> HIDE DEF A
<1> QED
  BY <1>1, <1>2, FineStays

(* Most tasks at most points have little to keep. *)
Dull(t, r) ==
    \/ r.pc \in {"reading", "prepared", "checked", "refreshing", "joining", "refused",
                 "opened", "writing", "asking", "waiting"}
    \/ r.pc \in {"draining", "changing", "posting"} /\ t \in Changer

LEMMA DullFine ==
    ASSUME RInv, NEW t \in Task, NEW r, Goto(t, r), Dull(t, r),
           t = "login" => r.mine = None /\ r.next # None /\ ~InSandbox(r.next)',
           t \in Changer \cup {"hydrate"} /\ r.mine # None
               => flight'.recovery[r.mine].stage # "done",
           t = "hydrate" => t \in barrier'.leases /\ (t \in current' => Sound(r.mine)'),
           t = "profile" => r.mine # None /\ r.next = None /\ ~InSandbox(r.mine)'
    PROVE  Fine(t)'
<1>0. tasks'[t] = r
  BY TaskAt
<1>1. Untold(t)' /\ Quiet(t)'
  BY <1>0 DEF Dull, Untold, Quiet, Born, Settling, Underway
<1>2. Joined(t)' /\ Wrote(t)'
  BY <1>0 DEF Dull, Joined, Wrote, Underway
<1>3. Noticed(t)'
  BY <1>0 DEF Noticed
<1>4. Unfinished(t)'
  BY <1>0 DEF Dull, Unfinished, Stage
<1>5. OfItsKind(t)'
  BY <1>0 DEF Dull, OfItsKind, Recoverer, Polling, Underway, Recovering, Changer
<1> QED
  BY <1>1, <1>2, <1>3, <1>4, <1>5 DEF Fine

LEMMA IdleFine ==
    ASSUME NEW t \in Task, tasks'[t] = Idle
    PROVE  Fine(t)'
BY DEF Idle, Fine, Untold, Quiet, Joined, Wrote, Noticed, Unfinished, OfItsKind, Born, Settling,
       Recoverer, Polling, Underway, Recovering, Changer

(***************************************************************************)
(* Steps after which no session has ended and no recovery succeeded that   *)
(* had not, A being the sessions they have to do with.                     *)
(***************************************************************************)
(* What may become of a recovery, and of an invalidation. *)
Recovers(x) ==
    Stage(x)' # Stage(x) => Stage(x)' # "done" /\ InSandbox(x) /\ x <= server.issued

Begins(x, A) ==
    flight'.ending[x] # flight.ending[x] =>
        /\ flight'.ending[x] # "done" /\ x <= server.issued
        /\ flight.ending[x] = "none" => current' = {} /\ (x \in A \/ Disowned(x))

Mild(A) ==
    /\ Rows' /\ Modes /\ LateGrows /\ SyncGoes(A)
    /\ server'.issued \in Nat /\ server.issued <= server'.issued
    /\ flight'.ending = [s \in Session |-> flight'.ending[s]]
    /\ \A x \in Session : Recovers(x) /\ Begins(x, A)
    /\ flight'.sync.stage # "idle" => flight'.sync.of # None
    /\ flight'.sync.answer = "retired" => InSandbox(flight.sync.of)'

(* Steps that leave the server and the single flights alone. *)
Calm == server' = server /\ flight' = flight /\ LateGrows

(* y, where old was, has been task t's. *)
Installs(t, y, old) ==
    y \in {old, None} \/ (y \in {tasks[t].mine, tasks[t].next} /\ Allowed(y))

LEMMA AllowedStays ==
    ASSUME RInv, NEW A, Mild(A), NEW x \in 0 .. server.issued, Allowed(x)
    PROVE  Allowed(x)'
<1>1. CASE x = None
  BY <1>1 DEF Allowed
<1>2. CASE x # None
  <2>1. x \in Session
    BY <1>2, KnownGood
  <2> QED  BY <1>2, <2>1 DEF Allowed, Mild, Recovers, Begins, LateGrows, FoundLate
<1> QED
  BY <1>1, <1>2

LEMMA MildFlights ==
    ASSUME RInv, SInv, NEW A, Mild(A)
    PROVE  Rows' /\ Flights'
<1>1. \A x \in Session :
          /\ Stage(x)' # "none" => InSandbox(x)'
          /\ x > server'.issued => flight'.ending[x] = "none" /\ Stage(x)' = "none"
  <2> TAKE x \in Session
  <2>1. /\ Stage(x) # "none" => InSandbox(x)
        /\ x > server.issued => flight.ending[x] = "none" /\ Stage(x) = "none"
    BY DEF SInv, World, Flights
  <2>2. x \in Nat /\ server.issued \in Nat /\ (x <= server.issued => x \in 0 .. server.issued)
    BY KnownGood DEF Session
  <2>3. x <= server.issued => (InSandbox(x)' <=> InSandbox(x))
    BY <2>2 DEF Mild, Modes
  <2>4. /\ Stage(x)' # Stage(x) => InSandbox(x) /\ x <= server.issued
        /\ flight'.ending[x] # flight.ending[x] => x <= server.issued
        /\ server.issued <= server'.issued /\ server'.issued \in Nat
    BY DEF Mild, Recovers, Begins
  <2>5. Stage(x)' # "none" => InSandbox(x)'
    <3>1. Stage(x)' # "none" => InSandbox(x) /\ ~(x > server.issued)
      BY <2>1, <2>2, <2>4
    <3> QED  BY <2>2, <2>3, <3>1
  <2> QED
    BY <2>1, <2>2, <2>4, <2>5
<1> QED
  BY <1>1 DEF Flights, Mild, Stage

LEMMA MildWorld ==
    ASSUME RInv, SInv, NEW A, Mild(A),
           disk'.stored \in 0 .. server.issued, Allowed(disk'.stored),
           auth'.session \in 0 .. server.issued, Allowed(auth'.session)
    PROVE  World'
<1>1. Allowed(disk.stored)' /\ Allowed(auth.session)'
  <2> PICK x, y : x = disk'.stored /\ y = auth'.session
    OBVIOUS
  <2>1. Allowed(x)' /\ Allowed(y)'
    BY AllowedStays
  <2> QED  BY <2>1 DEF Allowed, Stage, FoundLate
<1> QED
  BY <1>1, MildFlights DEF World

LEMMA InstallsKnown ==
    ASSUME RInv, NEW t \in Task, NEW old \in 0 .. server.issued, Allowed(old),
           NEW y, Installs(t, y, old)
    PROVE  y \in 0 .. server.issued /\ Allowed(y)
BY KnownGood DEF Installs, Allowed, None

LEMMA MildGentle ==
    ASSUME Mild({}), disk'.stored \in {disk.stored, None}, auth'.session \in {auth.session, None}
    PROVE  Gentle({})
<1>1. /\ disk'.stored \in {} \cup {disk.stored, None}
      /\ auth'.session \in {} \cup {auth.session, None}
  OBVIOUS
<1>2. \A x \in Session :
          flight.ending[x] = "none" /\ flight'.ending[x] # "none"
              => current' = {} /\ (x \in {} \/ Disowned(x))
  BY DEF Mild, Begins
<1> QED
  BY <1>1, <1>2 DEF Mild, LateGrows, Gentle

(* Task t goes on. *)
LEMMA MildGoes ==
    ASSUME RInv, SInv, NEW t \in Task, NEW r, Goto(t, r), Mild({tasks[t].mine, tasks[t].next}),
           Kept(t), Fine(t)', Seen(r.mine, t), Seen(r.next, t), StoresAlone(t),
           Installs(t, disk'.stored, disk.stored), Installs(t, auth'.session, auth.session)
    PROVE  SStep
<1> DEFINE A == {tasks[t].mine, tasks[t].next}
<1>1. /\ disk.stored \in 0 .. server.issued /\ Allowed(disk.stored)
      /\ auth.session \in 0 .. server.issued /\ Allowed(auth.session)
  BY KnownGood DEF SInv, World, DiskGood, ShownGood
<1>2. /\ disk'.stored \in 0 .. server.issued /\ Allowed(disk'.stored)
      /\ auth'.session \in 0 .. server.issued /\ Allowed(auth'.session)
  BY <1>1, InstallsKnown
<1>3. World'
  BY <1>2, MildWorld
<1>4. DoneAlone(t)
  BY DEF Mild, DoneAlone, Recovers
<1>5. Gentle(A)
  <2>1. disk'.stored \in A \cup {disk.stored, None} /\ auth'.session \in A \cup {auth.session, None}
    BY DEF Installs
  <2>2. Mild(A)
    OBVIOUS
  <2> HIDE DEF A
  <2> QED  BY <2>1, <2>2 DEF Mild, Begins, LateGrows, Gentle
<1> QED
  BY <1>3, <1>4, <1>5, OthersFine DEF SStep

LEMMA CalmMild ==
    ASSUME RInv, SInv, Calm, NEW A
    PROVE  Mild(A)
<1>1. Rows' /\ Modes
  BY DEF SInv, World, Calm, Rows, Row, InSandbox, Modes
<1>2. /\ flight'.ending = [s \in Session |-> flight'.ending[s]]
      /\ flight'.sync.stage # "idle" => flight'.sync.of # None
      /\ flight'.sync.answer = "retired" => InSandbox(flight.sync.of)'
  BY DEF SInv, World, Flights, Calm, InSandbox, Row
<1>3. \A x \in Session : Recovers(x) /\ Begins(x, A)
  BY DEF Calm, Recovers, Begins, Stage
<1> QED
  BY <1>1, <1>2, <1>3, KnownGood DEF Mild, Calm, SyncGoes

LEMMA CalmGoes ==
    ASSUME RInv, SInv, NEW t \in Task, NEW r, Goto(t, r), Calm, Kept(t), Fine(t)',
           Seen(r.mine, t), Seen(r.next, t), StoresAlone(t),
           Installs(t, disk'.stored, disk.stored), Installs(t, auth'.session, auth.session)
    PROVE  SStep
BY CalmMild, MildGoes

LEMMA EndsKept ==
    ASSUME RInv, NEW t \in Task, NEW a, Ends(t, a), Keeps(a, auth.switching)
    PROVE  /\ Kept(t) /\ Goto(t, Idle) /\ auth'.session = a.session
           /\ Fine(t)' /\ Seen(Idle.mine, t) /\ Seen(Idle.next, t)
<1>1. auth'.session = a.session
  BY DEF Ends, Switched, Keeps, AuthShape
<1>2. Kept(t)
  <2>1. auth.switching \notin {t, Nobody} => auth'.switching = auth.switching
    BY DEF Ends, Switched, Keeps, AuthShape
  <2> QED  BY <2>1 DEF Kept, Ends, Given
<1>3. Goto(t, Idle) /\ tasks'[t] = Idle
  BY TaskAt DEF Ends
<1> QED
  BY <1>1, <1>2, <1>3, IdleFine, IdleRecord DEF Seen, None

(* Task t ends. *)
LEMMA MildEnds ==
    ASSUME RInv, SInv, NEW t \in Task, NEW a, Ends(t, a), Mild({tasks[t].mine, tasks[t].next}),
           Keeps(a, auth.switching),
           Installs(t, disk'.stored, disk.stored), StoresAlone(t),
           Installs(t, a.session, auth.session)
    PROVE  SStep
<1>1. /\ Kept(t) /\ Goto(t, Idle) /\ auth'.session = a.session
      /\ Fine(t)' /\ Seen(Idle.mine, t) /\ Seen(Idle.next, t)
  BY EndsKept
<1> HIDE DEF Idle
<1> QED
  BY <1>1, MildGoes

LEMMA CalmEnds ==
    ASSUME RInv, SInv, NEW t \in Task, NEW a, Ends(t, a), Calm, Keeps(a, auth.switching),
           Installs(t, disk'.stored, disk.stored), StoresAlone(t),
           Installs(t, a.session, auth.session)
    PROVE  SStep
BY CalmMild, MildEnds

(* Nothing that is stored changes, or it is given up. *)
LEMMA StoredStays ==
    ASSUME NEW t, disk'.stored \in {disk.stored, None}
    PROVE  Installs(t, disk'.stored, disk.stored) /\ StoresAlone(t)
BY DEF Installs, StoresAlone

(* Task t ends, and nothing is shown or stored that was not. *)
LEMMA JustEnds ==
    ASSUME RInv, SInv, NEW t \in Task, NEW a, Ends(t, a), Calm, Keeps(a, auth.switching),
           disk'.stored \in {disk.stored, None}, a.session \in {auth.session, None}
    PROVE  SStep
<1>1. Installs(t, a.session, auth.session)
  BY DEF Installs
<1> QED
  BY <1>1, StoredStays, CalmEnds

LEMMA EndsAsItIs ==
    ASSUME RInv, SInv, NEW t \in Task, Ends(t, auth), Calm,
           disk'.stored \in {disk.stored, None}
    PROVE  SStep
BY JustEnds, AuthKeeps DEF RInv

(* The fields that the operations on the sessions shown and stored set. *)
LEMMA SessionsSet ==
    ASSUME RInv, NEW s, NEW x
    PROVE  /\ Exposed(auth, s, x).session = s /\ Booted(auth).session = auth.session
           /\ Exposed(Booted(auth), s, x).session = s
           /\ Locked(auth).session = auth.session
           /\ [Exposed(auth, s, FALSE) EXCEPT !.locked = x].session = s
           /\ [Exposed(Booted(auth), s, FALSE) EXCEPT !.locked = x].session = s
           /\ [Booted(auth) EXCEPT !.broken = x].session = auth.session
           /\ Locked(Exposed(auth, s, FALSE)).session = s
           /\ [Exposed(auth, s, FALSE) EXCEPT !.switching = x].session = s
           /\ [Exposed(auth, s, FALSE) EXCEPT !.switching = x].switching = x
           /\ [auth EXCEPT !.switching = x].session = auth.session
           /\ [auth EXCEPT !.switching = x].switching = x
BY DEF RInv, BInv, Shapes, AuthShape, Exposed, Booted, Locked

LEMMA StoredSet ==
    ASSUME RInv, NEW s, NEW y, NEW t
    PROVE  /\ Cleared(disk).stored = disk.stored /\ Prepared(disk, s).stored = disk.stored
           /\ Quarantined(disk, s).stored = disk.stored
           /\ Released(disk, s).stored = disk.stored
           /\ Holding(disk, y).stored = y
           /\ Holding(Cleared(disk), y).stored = y
           /\ Holding(Prepared(disk, s), y).stored = y
           /\ Revalidated(t, Prepared(disk, s), s).stored = disk.stored
<1> DEFINE Like(d, v) == DiskShape(d) /\ d.stored = v
<1>1. Like(disk, disk.stored)
  BY DEF RInv, Known
<1> QED
  BY <1>1 DEF Cleared, Prepared, Quarantined, Released, Holding, Revalidated, DiskShape

-----------------------------------------------------------------------------
(***************************************************************************)
(* One lemma for each group of actions.                                    *)
(***************************************************************************)
LEMMA HydrateFine ==
    ASSUME RInv, SInv, LateGrows,
           HydrateBegin \/ HydratePrepare \/ HydrateBlock \/ HydrateExpose
    PROVE  SStep
<1> DEFINE t == "hydrate"
           q == tasks[t]
<1>0. /\ t \in Task \ Changer /\ TaskShape(q) /\ Fine(t) /\ World
      /\ q.pc # "idle" => t \in barrier.leases
  BY TaskNames, TaskRecord DEF SInv, Fine, OfItsKind
<1>a. /\ q.pc # "idle" /\ q.mine # None => Stage(q.mine) # "done"
      /\ q.pc # "idle" /\ t \in current => Sound(q.mine)
  BY <1>0 DEF Fine, Unfinished, Noticed
<1>b. /\ Keeps(auth, auth.switching) /\ Keeps(Booted(auth), auth.switching)
      /\ Keeps([Booted(auth) EXCEPT !.broken = TRUE], auth.switching)
      /\ Keeps(Exposed(Booted(auth), q.mine, FALSE), auth.switching)
  <2>1. RInv => BInv
    BY DEF RInv
  <2> QED  BY <2>1, AuthKeeps, AuthFields, AuthField
<1>c. ASSUME NEW r, Goto(t, r), Calm, Kept(t), Dull(t, r),
             UNCHANGED <<disk.stored, auth.session>>,
             Seen(r.mine, t), Seen(r.next, t), t \in barrier'.leases,
             r.mine # None => Stage(r.mine) # "done", t \in current' => Sound(r.mine)'
      PROVE  SStep
  <2>1. Fine(t)'
    BY <1>0, <1>c, DullFine DEF Calm, Stage
  <2> QED  BY <1>0, <1>c, <2>1, CalmGoes, StoredStays DEF Installs
<1>1. CASE HydrateBegin
  <2> PICK r : r = [Idle EXCEPT !.pc = "reading", !.mine = disk.stored]
    OBVIOUS
  <2>1. /\ Goto(t, r) /\ barrier' = Leased(t) /\ Admitting
        /\ UNCHANGED <<auth, flight, disk, server>>
        /\ current' = current \cup {t}
        /\ CanStart(t)
    BY <1>1 DEF HydrateBegin
  <2>2. Record(r, "reading", disk.stored, 0, "none")
    BY IdleOf, Zenon
  <2>3. Kept(t) /\ t \in barrier'.leases /\ Calm
    BY <2>1 DEF Kept, Leased, RInv, BInv, Shapes, BarrierShape, Calm
  <2>4. Seen(r.mine, t) /\ Seen(r.next, t) /\ Dull(t, r)
    BY <2>1, <2>2 DEF Seen, Record, Admitting, None, Dull
  <2>5. Allowed(disk.stored)
    BY <1>0 DEF World
  <2>6. Sound(disk.stored)'
    <3>1. disk.stored # None /\ flight.ending[disk.stored] \notin {"none", "done"}
             => disk.stored \in budget'.late
      BY <2>1 DEF CanStart, Late, Ending, SInv, BudgetShape
    <3> QED  BY <2>1, <2>3, <2>5, <3>1 DEF Sound, FoundLate, Allowed, Calm, LateGrows
  <2>7. Sound(r.mine)'
    BY <2>1, <2>2, <2>6 DEF Record, Sound, FoundLate
  <2>8. r.mine # None => Stage(r.mine) # "done"
    BY <2>2, <2>5 DEF Record, Allowed
  <2> QED  BY <1>c, <2>1, <2>3, <2>4, <2>7, <2>8
<1>2. CASE HydratePrepare
  <2> PICK r : r = [q EXCEPT !.pc = "prepared"]
    OBVIOUS
  <2>1. UNCHANGED <<flight, server>> /\ Calm /\ q.pc = "reading"
    BY <1>2 DEF HydratePrepare, Calm
  <2>2. disk'.stored = disk.stored
    BY <1>2, StoredSet DEF HydratePrepare
  <2>3. \/ Ends(t, Booted(auth)) \/ Ends(t, [Booted(auth) EXCEPT !.broken = TRUE])
        \/ Goto(t, r) /\ UNCHANGED <<auth, barrier, current>> /\ t \in current
    BY <1>2, Zenon DEF HydratePrepare
  <2>4. Plain(r, "prepared", q)
    BY <1>0, RecordOf, Zenon DEF Plain
  <2>5. CASE Goto(t, r) /\ UNCHANGED <<auth, barrier, current>> /\ t \in current
    <3>1. Kept(t) /\ t \in barrier'.leases
      BY <1>0, <2>1, <2>5 DEF Kept
    <3>2. Seen(r.mine, t) /\ Seen(r.next, t) /\ Dull(t, r)
      BY <2>4 DEF Plain, Record, Seen, Dull
    <3>3. Sound(r.mine)'
      BY <1>a, <2>1, <2>4, <2>5 DEF Plain, Record, Sound, FoundLate, Calm, LateGrows
    <3> QED  BY <1>a, <1>c, <2>1, <2>2, <2>4, <2>5, <3>1, <3>2, <3>3 DEF Plain, Record
  <2>6. /\ Booted(auth).session = auth.session
        /\ [Booted(auth) EXCEPT !.broken = TRUE].session = auth.session
    BY SessionsSet
  <2> QED  BY <1>0, <1>b, <2>1, <2>2, <2>3, <2>5, <2>6, JustEnds
<1>3. CASE HydrateBlock
  <2>1. UNCHANGED <<flight, disk, server>> /\ Calm /\ q.pc = "prepared"
    BY <1>3 DEF HydrateBlock, Calm
  <2>2. \/ Ends(t, Booted(auth))
        \/ /\ \E x : Goto(t, [q EXCEPT !.pc = "checked", !.answer = x])
           /\ UNCHANGED <<auth, barrier, current>> /\ t \in current
    BY <1>3 DEF HydrateBlock
  <2>3. CASE Ends(t, Booted(auth))
    BY <1>0, <1>b, <2>1, <2>3, SessionsSet, JustEnds
  <2>4. ASSUME NEW x, Goto(t, [q EXCEPT !.pc = "checked", !.answer = x]),
               UNCHANGED <<auth, barrier, current>>, t \in current
        PROVE  SStep
    <3> PICK r : r = [q EXCEPT !.pc = "checked", !.answer = x]
      OBVIOUS
    <3>1. Plain(r, "checked", q) /\ Goto(t, r)
      BY <1>0, <2>4, RecordOf, Zenon DEF Plain
    <3>2. Kept(t) /\ t \in barrier'.leases
      BY <1>0, <2>1, <2>4 DEF Kept
    <3>3. Seen(r.mine, t) /\ Seen(r.next, t) /\ Dull(t, r)
      BY <3>1 DEF Plain, Record, Seen, Dull
    <3>4. Sound(r.mine)'
      BY <1>a, <2>1, <2>4, <3>1 DEF Plain, Record, Sound, FoundLate, Calm, LateGrows
    <3> QED  BY <1>a, <1>c, <2>1, <2>4, <3>1, <3>2, <3>3, <3>4 DEF Plain, Record
  <2> QED  BY <2>2, <2>3, <2>4
<1>4. CASE HydrateExpose
  <2> DEFINE shown == Exposed(Booted(auth), q.mine, FALSE)
  <2>1. UNCHANGED <<flight, disk, server>> /\ Calm /\ q.pc = "checked"
    BY <1>4 DEF HydrateExpose, Calm
  <2>2. Ends(t, Booted(auth)) \/ (t \in current /\ \E x : Ends(t, [shown EXCEPT !.locked = x]))
    BY <1>4 DEF HydrateExpose
  <2>3. CASE Ends(t, Booted(auth))
    BY <1>0, <1>b, <2>1, <2>3, SessionsSet, JustEnds
  <2>4. ASSUME NEW x, t \in current, Ends(t, [shown EXCEPT !.locked = x])
        PROVE  SStep
    <3> DEFINE a == [shown EXCEPT !.locked = x]
    <3>1. a.session = q.mine
      BY SessionsSet
    <3>2. Keeps(a, auth.switching)
      <4> HIDE DEF shown
      <4> QED  BY <1>b, AuthField DEF shown
    <3>3. Allowed(q.mine)
      BY <1>a, <2>1, <2>4 DEF Allowed, Sound
    <3> HIDE DEF a
    <3>4. Installs(t, a.session, auth.session)
      BY <3>1, <3>3 DEF Installs
    <3>5. Ends(t, a)
      BY <2>4 DEF a
    <3> QED  BY <1>0, <2>1, <3>2, <3>4, <3>5, CalmEnds, StoredStays
  <2> QED  BY <2>2, <2>3, <2>4
<1> QED
  BY <1>1, <1>2, <1>3, <1>4

(* A task under local access that is about to sync. *)
LEMMA PollingFine ==
    ASSUME RInv, NEW t \in {"background", "sync"}, NEW r, Goto(t, r),
           r.pc = "woken" \/ (r.pc = "sync" /\ r.then = "synced" /\ r.mine # None),
           r.next = None, t \in barrier'.leases
    PROVE  Fine(t)'
<1>0. t \in Task \ Changer /\ tasks'[t] = r
  BY TaskAt, TaskNames
<1>1. Untold(t)' /\ Quiet(t)' /\ Wrote(t)'
  BY <1>0 DEF Untold, Quiet, Wrote, Born, Settling, Underway
<1>2. Joined(t)'
  BY <1>0 DEF Joined, Underway, SyncOf
<1>3. Noticed(t)' /\ Unfinished(t)'
  BY <1>0 DEF Noticed, Unfinished
<1>4. OfItsKind(t)'
  BY <1>0 DEF OfItsKind, Recoverer, Polling, Underway, Recovering
<1> QED
  BY <1>1, <1>2, <1>3, <1>4 DEF Fine

(* A task with a session to recover. *)
LEMMA RecovererFine ==
    ASSUME RInv, NEW t \in {"background", "sync", "switchMode"}, NEW r, Goto(t, r),
           r.pc \in {"checking", "draining", "recovering", "rotating", "unrotated"},
           InSandbox(r.mine)',
           t = "switchMode" /\ r.mine # None => flight'.recovery[r.mine].stage # "done"
    PROVE  Fine(t)'
<1>0. t \in Task /\ tasks'[t] = r
  BY TaskAt, TaskNames DEF Changer
<1>1. Untold(t)' /\ Quiet(t)' /\ Wrote(t)' /\ Joined(t)'
  BY <1>0 DEF Untold, Quiet, Wrote, Joined, Born, Settling, Underway
<1>3. Noticed(t)' /\ Unfinished(t)'
  BY <1>0 DEF Noticed, Unfinished, Stage, Changer
<1>4. OfItsKind(t)'
  BY <1>0 DEF OfItsKind, Recoverer, Polling, Underway, Recovering
<1> QED
  BY <1>1, <1>3, <1>4 DEF Fine

LEMMA SyncTaskFine ==
    ASSUME RInv, SInv, LateGrows, NEW t \in Task,
           BackgroundBegin \/ BackgroundPrepare \/ SyncNow \/ TaskSynced(t) \/ SyncExpose
    PROVE  SStep
<1> DEFINE q == tasks[t]
<1>0. /\ {"background", "sync"} \subseteq Task \ Changer
      /\ \A u \in Task : TaskShape(tasks[u]) /\ OfItsKind(u)
      /\ World
  BY TaskNames, TaskRecord DEF SInv, Fine
<1>a. ASSUME UNCHANGED <<disk.stored, auth>>, NEW u \in {"background", "sync"}, NEW r, Goto(u, r),
             Calm, Kept(u), r.pc = "woken" \/ (r.pc = "sync" /\ r.then = "synced" /\ r.mine # None),
             Seen(r.mine, u), r.next = None, u \in barrier'.leases
      PROVE  SStep
  <2>1. Fine(u)'
    BY <1>a, PollingFine
  <2>2. Seen(r.next, u)
    BY <1>a DEF Seen
  <2> QED  BY <1>0, <1>a, <2>1, <2>2, CalmGoes, StoredStays DEF Installs
<1>1. CASE BackgroundBegin
  <2> PICK r : r = [Idle EXCEPT !.pc = "woken"]
    OBVIOUS
  <2>1. /\ Goto("background", r) /\ barrier' = Leased("background")
        /\ UNCHANGED <<auth, current, flight, disk, server>>
    BY <1>1 DEF BackgroundBegin
  <2>2. Record(r, "woken", 0, 0, "none")
    BY IdleOf, Zenon
  <2>3. Kept("background") /\ "background" \in barrier'.leases /\ Calm
    BY <2>1 DEF Kept, Leased, RInv, BInv, Shapes, BarrierShape, Calm
  <2>4. Seen(r.mine, "background") /\ r.next = None
    BY <2>2 DEF Seen, Record, None
  <2> QED  BY <1>a, <2>1, <2>2, <2>3, <2>4 DEF Record
<1>2. CASE BackgroundPrepare
  <2> DEFINE u == "background"
  <2> PICK r : r = Syncing([tasks[u] EXCEPT !.mine = disk.stored], "synced")
    OBVIOUS
  <2>1. UNCHANGED <<flight, server>> /\ tasks[u].pc = "woken" /\ Calm
    BY <1>2 DEF BackgroundPrepare, Calm
  <2>2. disk'.stored = disk.stored
    BY <1>2, StoredSet DEF BackgroundPrepare
  <2>3. \/ Ends(u, auth)
        \/ Business(disk.stored) /\ Goto(u, r) /\ UNCHANGED <<auth, barrier, current>>
    BY <1>2, Zenon DEF BackgroundPrepare
  <2>4. Record(r, "sync", disk.stored, tasks[u].next, "synced")
    BY <1>0, RecordOf, Zenon
  <2>5. CASE Business(disk.stored) /\ Goto(u, r) /\ UNCHANGED <<auth, barrier, current>>
    <3>1. tasks[u].next = None /\ u \in barrier.leases
      BY <1>0, <2>1 DEF OfItsKind, Polling
    <3>2. Kept(u)
      BY <2>5 DEF Kept
    <3>3. Seen(r.mine, u)
      BY <2>4, <3>1 DEF Seen, Record
    <3> QED  BY <1>a, <2>1, <2>2, <2>4, <2>5, <3>1, <3>2, <3>3 DEF Record, Business
  <2> QED  BY <1>0, <2>1, <2>2, <2>3, <2>5, EndsAsItIs
<1>3. CASE SyncNow
  <2> PICK r : r = Syncing([Idle EXCEPT !.mine = auth.session], "synced")
    OBVIOUS
  <2>1. /\ Goto("sync", r) /\ barrier' = Leased("sync") /\ Business(auth.session)
        /\ UNCHANGED <<auth, current, flight, disk, server>>
    BY <1>3 DEF SyncNow
  <2>2. Record(r, "sync", auth.session, 0, "synced")
    BY IdleOf, Zenon
  <2>3. Kept("sync") /\ "sync" \in barrier'.leases /\ Calm
    BY <2>1 DEF Kept, Leased, RInv, BInv, Shapes, BarrierShape, Calm
  <2>4. Seen(r.mine, "sync") /\ r.next = None /\ r.mine # None
    BY <2>1, <2>2 DEF Seen, Record, None, Business
  <2> QED  BY <1>a, <2>1, <2>2, <2>3, <2>4 DEF Record
<1>4. CASE TaskSynced(t)
  <2> PICK r, w : /\ r = [q EXCEPT !.pc = "refreshing", !.next = disk.stored]
                  /\ w = [q EXCEPT !.pc = "checking"]
    OBVIOUS
  <2>1. /\ UNCHANGED <<flight, disk, server>> /\ q.pc = "synced" /\ Calm
        /\ t \in {"background", "sync"}
    BY <1>4 DEF TaskSynced, Calm
  <2>2. \/ Ends(t, auth)
        \/ Goto(t, r) /\ UNCHANGED <<auth, barrier, current>> /\ t = "sync"
        \/ /\ q.answer = "retired"
           /\ Goto(t, w) /\ barrier' = Yielded(t) /\ UNCHANGED <<auth, current>>
    BY <1>4 DEF TaskSynced
  <2>3. /\ Record(r, "refreshing", q.mine, disk.stored, q.then)
        /\ Plain(w, "checking", q)
    BY <1>0, RecordOf, Zenon DEF Plain
  <2>4. t \in barrier.leases /\ (q.answer = "retired" => InSandbox(q.mine))
    BY <1>0, <2>1 DEF OfItsKind, Polling
  <2>5. CASE Goto(t, r) /\ UNCHANGED <<auth, barrier, current>> /\ t = "sync"
    <3>1. Kept(t)
      BY <2>5 DEF Kept
    <3>2. Seen(r.mine, t) /\ Seen(r.next, t) /\ Dull(t, r)
      BY <2>3, <2>4 DEF Seen, Record, Dull
    <3>3. Fine(t)'
      BY <1>0, <2>5, <3>2, DullFine
    <3>4. /\ Installs(t, disk'.stored, disk.stored) /\ StoresAlone(t)
          /\ Installs(t, auth'.session, auth.session)
      BY <2>1, <2>5 DEF Installs, StoresAlone
    <3> QED  BY <2>1, <2>5, <3>1, <3>2, <3>3, <3>4, CalmGoes
  <2>6. CASE /\ q.answer = "retired"
             /\ Goto(t, w) /\ barrier' = Yielded(t) /\ UNCHANGED <<auth, current>>
    <3>1. Kept(t)
      BY <2>6 DEF Kept, Yielded, RInv, BInv, Shapes, BarrierShape
    <3>2. Seen(w.mine, t) /\ Seen(w.next, t)
      BY <2>3 DEF Seen, Plain, Record
    <3>3. InSandbox(w.mine)'
      BY <2>1, <2>3, <2>4, <2>6 DEF Plain, Record, InSandbox, Row
    <3>4. w.pc = "checking" /\ t # "switchMode"
      BY <2>1, <2>3 DEF Plain, Record
    <3>5. Fine(t)'
      BY <2>1, <2>6, <3>3, <3>4, RecovererFine
    <3>6. /\ Installs(t, disk'.stored, disk.stored) /\ StoresAlone(t)
          /\ Installs(t, auth'.session, auth.session)
      BY <2>1, <2>6 DEF Installs, StoresAlone
    <3> QED  BY <2>1, <2>6, <3>1, <3>2, <3>5, <3>6, CalmGoes
  <2> QED  BY <1>0, <2>1, <2>2, <2>5, <2>6, EndsAsItIs
<1>5. CASE SyncExpose
  <2>1. UNCHANGED <<flight, disk, server>> /\ Ends("sync", Refreshed("sync")) /\ Calm
    BY <1>5 DEF SyncExpose, Calm
  <2>2. /\ Refreshed("sync").session = auth.session
        /\ Keeps(Refreshed("sync"), auth.switching)
    BY DEF Refreshed, StillShown, RInv, BInv, Shapes, AuthShape, Keeps
  <2> QED  BY <1>0, <2>1, <2>2, JustEnds
<1> QED
  BY <1>1, <1>2, <1>3, <1>4, <1>5

LEMMA RunSyncFine ==
    ASSUME RInv, SInv, LateGrows, NEW t \in Task, RunSync(t)
    PROVE  SStep
<1> DEFINE q == tasks[t]
           s == SyncOf(t)
<1> PICK r : r = [q EXCEPT !.pc = "syncing"]
  OBVIOUS
<1>0. /\ q.pc = "sync" /\ Goto(t, r) /\ UNCHANGED <<auth, barrier, current, disk, server>>
      /\ flight.sync.of \in {None, s}
      /\ flight' = IF flight.sync.of = s THEN flight
                   ELSE [flight EXCEPT !.sync = [of |-> s, stage |-> FirstStage(s),
                                                 answer |-> "blocked"]]
  BY DEF RunSync
<1>1. /\ Plain(r, "syncing", q) /\ r.answer = q.answer
      /\ tasks'[t] = r /\ \A u \in Task \ {t} : tasks'[u] = tasks[u]
  <2>1. TaskShape(q)
    BY TaskRecord
  <2>2. Plain(r, "syncing", q)
    BY <2>1, RecordOf, Zenon DEF Plain
  <2>3. r.answer = q.answer
    BY <2>1 DEF TaskShape
  <2> QED  BY <1>0, <2>2, <2>3, TaskAt
<1>2. /\ flight'.recovery = flight.recovery /\ flight'.ending = flight.ending
      /\ flight'.sync.of = s
      /\ \/ flight'.sync = flight.sync
         \/ flight.sync.of = None /\ flight'.sync.answer = "blocked"
  BY <1>0 DEF RInv, Known, FlightShape
<1>3. /\ s # None /\ s \in {q.mine, q.next}
      /\ Quiet(t) /\ Noticed(t) /\ Unfinished(t) /\ OfItsKind(t)
  BY <1>0 DEF SInv, Fine, Joined, Underway, SyncOf
<1>4. SyncOf(t)' = s
  BY <1>1 DEF SyncOf, Plain, Record
<1>5. Mild({q.mine, q.next})
  <2>1. Rows' /\ Modes
    BY <1>0 DEF SInv, World, Rows, Row, InSandbox, Modes
  <2>2. SyncGoes({q.mine, q.next})
    BY <1>2, <1>3 DEF SyncGoes
  <2>3. \A x \in Session : Recovers(x) /\ Begins(x, {q.mine, q.next})
    BY <1>2 DEF Recovers, Begins, Stage
  <2>4. /\ flight'.ending = [x \in Session |-> flight'.ending[x]]
        /\ flight'.sync.stage # "idle" => flight'.sync.of # None
        /\ flight'.sync.answer = "retired" => InSandbox(flight.sync.of)'
    BY <1>0, <1>2, <1>3 DEF SInv, World, Flights, InSandbox, Row
  <2>5. server'.issued \in Nat /\ server.issued <= server'.issued
    BY <1>0, KnownGood
  <2> QED  BY <2>1, <2>2, <2>3, <2>4, <2>5, Zenon DEF Mild
<1>6. Quiet(t)'
  <2> DEFINE x == q.next
  <2>1. Settling(t, q) <=> Settling(t, r)
    BY <1>0, <1>1 DEF Settling, Underway, Plain, Record
  <2>2. Recoverer(t, q) <=> Recoverer(t, r)
    BY <1>0, <1>1 DEF Recoverer, Underway, Plain, Record, Recovering
  <2>3. Own(t, x) => Own(t, x)'
    BY <1>0, <1>1 DEF Own, Plain, Record
  <2> QED  BY <1>0, <1>1, <1>2, <1>3, <2>1, <2>2, <2>3 DEF Quiet, Plain, Record, Stage
<1>7. Untold(t)' /\ Joined(t)' /\ Wrote(t)'
  BY <1>1, <1>2, <1>3, <1>4 DEF Untold, Joined, Wrote, Born, Plain, Record
<1>8. Noticed(t)' /\ Unfinished(t)'
  BY <1>0, <1>1, <1>2, <1>3
     DEF Noticed, Unfinished, Plain, Record, Sound, FoundLate, LateGrows, Stage
<1>9. OfItsKind(t)'
  BY <1>0, <1>1, <1>3
     DEF OfItsKind, Recoverer, Polling, Plain, Record, Underway, Recovering, InSandbox, Row
<1>10. Fine(t)'
  BY <1>6, <1>7, <1>8, <1>9 DEF Fine
<1>11. /\ Kept(t) /\ Seen(r.mine, t) /\ Seen(r.next, t) /\ StoresAlone(t)
       /\ Installs(t, disk'.stored, disk.stored) /\ Installs(t, auth'.session, auth.session)
  BY <1>0, <1>1 DEF Kept, Seen, Plain, Record, StoresAlone, Installs
<1> QED
  BY <1>0, <1>5, <1>10, <1>11, MildGoes

-----------------------------------------------------------------------------
(***************************************************************************)
(* What the steps of a recovery do to the single flights, and what a       *)
(* request does.                                                           *)
(***************************************************************************)
(* The recovery of s has come to stage. *)
StageSet(f, s, stage) ==
    /\ f.sync = flight.sync /\ f.ending = flight.ending
    /\ \A x \in Session : f.recovery[x].stage = IF x = s THEN stage ELSE Stage(x)

LEMMA StagesSet ==
    ASSUME RInv, NEW s \in Session, NEW stage, NEW y
    PROVE  /\ StageSet(Entered(s, stage, y), s, stage)
           /\ StageSet([flight EXCEPT !.recovery[s].stage = stage, !.recovery[s].result = y],
                       s, stage)
           /\ StageSet([flight EXCEPT !.recovery[s].posts = y], s, Stage(s))
<1> DEFINE Like(f, stg) ==
               /\ FlightShape(f) /\ f.sync = flight.sync /\ f.ending = flight.ending
               /\ f.recovery = [x \in Session |-> f.recovery[x]]
               /\ \A x \in Session : RecoveryShape(f.recovery[x])
               /\ \A x \in Session : f.recovery[x].stage = IF x = s THEN stg ELSE Stage(x)
           Kind(r, stg) == RecoveryShape(r) /\ r.stage = stg
<1>1. Like(flight, Stage(s))
  BY DEF RInv, Known, Recovered, Stage
<1>2. ASSUME NEW f, NEW stg, Like(f, stg), NEW new, NEW r, Kind(r, new),
             NEW g, g = [f EXCEPT !.recovery = [f.recovery EXCEPT ![s] = r]]
      PROVE  Like(g, new)
  <2> DEFINE rec == [f.recovery EXCEPT ![s] = r]
  <2>1. /\ rec = [x \in Session |-> rec[x]] /\ rec[s] = r
        /\ \A x \in Session \ {s} : rec[x] = f.recovery[x]
    BY <1>2, SMT
  <2>2. g = [f EXCEPT !.recovery = rec]
    BY <1>2
  <2> HIDE DEF rec
  <2>3. FlightShape(g) /\ g.sync = f.sync /\ g.ending = f.ending /\ g.recovery = rec
    BY <1>2, <2>2, SMT DEF FlightShape
  <2> QED  BY <1>2, <2>1, <2>3
<1>3. ASSUME NEW r, NEW stg, Kind(r, stg), NEW x
      PROVE  /\ Kind([r EXCEPT !.stage = x], x) /\ Kind([r EXCEPT !.target = x], stg)
             /\ Kind([r EXCEPT !.result = x], stg) /\ Kind([r EXCEPT !.posts = x], stg)
  BY <1>3, SMT DEF RecoveryShape
<1>4. ASSUME NEW f, NEW stg, Like(f, stg), NEW x
      PROVE  /\ Like([f EXCEPT !.recovery[s].stage = x], x)
             /\ Like([f EXCEPT !.recovery[s].target = x], stg)
             /\ Like([f EXCEPT !.recovery[s].result = x], stg)
             /\ Like([f EXCEPT !.recovery[s].posts = x], stg)
  <2> PICK q : q = f.recovery[s]
    OBVIOUS
  <2>1. Kind(q, stg)
    BY <1>4
  <2> HIDE DEF Kind, Like
  <2>2. \A r, new : Kind(r, new) => Like([f EXCEPT !.recovery = [f.recovery EXCEPT ![s] = r]], new)
    <3> TAKE r, new
    <3> PICK g : g = [f EXCEPT !.recovery = [f.recovery EXCEPT ![s] = r]]
      OBVIOUS
    <3> QED  BY <1>2, <1>4
  <2>3. /\ Like([f EXCEPT !.recovery = [f.recovery EXCEPT ![s] = [q EXCEPT !.stage = x]]], x)
        /\ Like([f EXCEPT !.recovery = [f.recovery EXCEPT ![s] = [q EXCEPT !.target = x]]], stg)
        /\ Like([f EXCEPT !.recovery = [f.recovery EXCEPT ![s] = [q EXCEPT !.result = x]]], stg)
        /\ Like([f EXCEPT !.recovery = [f.recovery EXCEPT ![s] = [q EXCEPT !.posts = x]]], stg)
    BY <1>3, <2>1, <2>2
  <2> QED  BY <2>3
<1> DEFINE m == [flight EXCEPT !.recovery[s].stage = stage]
<1> HIDE DEF Like
<1>5. Like(m, stage)
  BY <1>1, <1>4
<1>6. /\ Entered(s, stage, y) = [m EXCEPT !.recovery[s].target = y]
      /\ [flight EXCEPT !.recovery[s].stage = stage, !.recovery[s].result = y]
            = [m EXCEPT !.recovery[s].result = y]
  BY Zenon DEF Entered
<1> HIDE DEF m
<1>7. /\ Like([m EXCEPT !.recovery[s].target = y], stage)
      /\ Like([m EXCEPT !.recovery[s].result = y], stage)
      /\ Like([flight EXCEPT !.recovery[s].posts = y], Stage(s))
  BY <1>1, <1>4, <1>5
<1>8. \A f, stg : Like(f, stg) => StageSet(f, s, stg)
  BY DEF Like, StageSet
<1> QED
  BY <1>6, <1>7, <1>8, Zenon

(* A step that only takes a recovery on, short of its success. *)
LEMMA StageMild ==
    ASSUME RInv, SInv, server' = server, LateGrows, NEW s \in Session, NEW stage,
           StageSet(flight', s, stage), stage # "done", InSandbox(s), s <= server.issued, NEW A
    PROVE  Mild(A)
<1>1. Rows' /\ Modes
  BY DEF SInv, World, Rows, Row, InSandbox, Modes
<1>2. /\ flight'.ending = [x \in Session |-> flight'.ending[x]]
      /\ flight'.sync.stage # "idle" => flight'.sync.of # None
      /\ flight'.sync.answer = "retired" => InSandbox(flight.sync.of)'
  BY DEF SInv, World, Flights, StageSet, InSandbox, Row
<1>3. \A x \in Session : Recovers(x) /\ Begins(x, A)
  BY DEF StageSet, Recovers, Begins, Stage
<1> QED
  BY <1>1, <1>2, <1>3, KnownGood DEF Mild, StageSet, SyncGoes

(* The session that is told to handleAccessFailure may begin to end. *)
ReportsOn(s, f, d) ==
    /\ flight'.sync = f.sync /\ flight'.recovery = f.recovery
    /\ flight'.ending = [x \in Session |-> flight'.ending[x]]
    /\ \A x \in Session :
          flight'.ending[x] # flight.ending[x]
              => x = s /\ flight'.ending[x] = "marking" /\ current' = {}
    /\ disk'.stored = d.stored
    /\ auth'.session = auth.session /\ auth'.switching = auth.switching
    /\ current' \subseteq current

LEMMA ReportedOn ==
    ASSUME RInv, SInv, NEW s, NEW answer, NEW f, NEW d, Reported(s, answer, f, d),
           FlightShape(f), f.ending = flight.ending, DiskShape(d)
    PROVE  /\ ReportsOn(s, f, d)
           /\ \A x \in Session :
                 flight'.ending[x] # flight.ending[x] => answer = "unauthorized"
<1>0. flight.ending = [x \in Session |-> flight.ending[x]]
  BY DEF SInv, World, Flights
<1>1. CASE answer = "unauthorized" /\ Invalidates(s)
  <2>1. /\ current' = {} /\ auth' = Locked(auth) /\ disk' = d
        /\ flight' = [f EXCEPT !.ending[s] = "marking", !.last = s,
                               !.headless[s] = (auth.session = None)]
    BY <1>1 DEF Reported
  <2>2. /\ flight'.sync = f.sync /\ flight'.recovery = f.recovery
        /\ flight'.ending = [f.ending EXCEPT ![s] = "marking"]
    BY <2>1 DEF FlightShape
  <2>3. auth'.session = auth.session /\ auth'.switching = auth.switching
    BY <2>1 DEF Locked, RInv, BInv, Shapes, AuthShape
  <2> QED  BY <1>0, <1>1, <2>1, <2>2, <2>3 DEF ReportsOn
<1>2. CASE ~(answer = "unauthorized" /\ Invalidates(s))
  <2>1. /\ flight' = f /\ current' = current
        /\ auth' = auth \/ auth' = Locked(auth)
        /\ disk' = d \/ disk' = Quarantined(d, s)
    BY <1>2 DEF Reported
  <2>2. auth'.session = auth.session /\ auth'.switching = auth.switching
    BY <2>1 DEF Locked, RInv, BInv, Shapes, AuthShape
  <2>3. disk'.stored = d.stored
    BY <2>1 DEF Quarantined, DiskShape
  <2> QED  BY <1>0, <2>1, <2>2, <2>3 DEF ReportsOn
<1> QED
  BY <1>1, <1>2

(* What a step makes of the server. *)
Serves == Rows' /\ Modes /\ server'.issued \in Nat /\ server.issued <= server'.issued

LEMMA ServesStill == RInv /\ SInv /\ server' = server => Serves
BY KnownGood DEF SInv, World, Rows, Row, InSandbox, Modes, Serves

LEMMA ExchangedServes ==
    ASSUME RInv, SInv, NEW s, NEW mode, server.issued < MaxSession, server' = Exchanged(s, mode)
    PROVE  Serves
<1> DEFINE n == server.issued + 1
           row(r) == IF r = n THEN NewRow(mode)
                     ELSE IF r = s THEN [Row(r) EXCEPT !.state = "ended"]
                     ELSE Row(r)
<1>0. server.issued \in Nat /\ ServerShape(server) /\ 0 .. server.issued \subseteq Nat
  BY KnownGood DEF RInv, Known
<1>1. server'.rows = [r \in Session |-> row(r)] /\ server'.issued = n
  BY <1>0 DEF Exchanged, NextSession, ServerShape
<1>2. \A r \in Session : RowShape(row(r)) /\ (row(r).state = "retired" => row(r).mode = "sandbox")
  <2> TAKE r \in Session
  <2>1. RowShape(Row(r)) /\ (Row(r).state = "retired" => Row(r).mode = "sandbox")
    BY DEF SInv, World, Rows, InSandbox
  <2>2. RowShape(NewRow(mode)) /\ NewRow(mode).state = "live"
    BY DEF RowShape, NewRow
  <2> PICK old : old = Row(r)
    OBVIOUS
  <2>3. RowShape([old EXCEPT !.state = "ended"]) /\ [old EXCEPT !.state = "ended"].state = "ended"
    BY <2>1 DEF RowShape
  <2> QED  BY <2>1, <2>2, <2>3
<1>3. \A r \in Session : r # n => row(r).mode = Row(r).mode
  BY DEF SInv, World, Rows, RowShape
<1> HIDE DEF row
<1>4. Rows'
  BY <1>1, <1>2 DEF Rows, Row, InSandbox, None, Session
<1>5. Modes
  <2> SUFFICES ASSUME NEW x \in 0 .. server.issued PROVE InSandbox(x)' <=> InSandbox(x)
    BY DEF Modes
  <2>1. x # None => x \in Session
    BY KnownGood
  <2>2. x # n
    BY <1>0
  <2> QED  BY <1>1, <1>3, <2>1, <2>2 DEF InSandbox, Row
<1> QED
  BY <1>0, <1>1, <1>4, <1>5 DEF Serves

(* The session just issued is nobody else's. *)
LEMMA NewUntold ==
    ASSUME RInv, SInv, NEW t \in Task, NEW r, Goto(t, r), server.issued < MaxSession,
           r.next = server.issued + 1, r.mine \in 0 .. server.issued,
           UNCHANGED <<auth, disk>>, flight'.sync = flight.sync, flight'.ending = flight.ending,
           \A x \in Session : Stage(x)' = Stage(x)
    PROVE  Untold(t)'
<1> PICK x : x = server.issued + 1
  OBVIOUS
<1>1. x \in Session /\ x > server.issued /\ x # None /\ \A y \in 0 .. server.issued : y # x
  BY KnownGood, DeviceAssumption DEF Session, None
<1>2. tasks'[t] = r /\ \A u \in Task \ {t} : tasks'[u] = tasks[u]
  BY TaskAt
<1>3. auth.session # x /\ disk.stored # x /\ flight.sync.of # x
  BY <1>1, KnownGood DEF DiskGood, ShownGood, FlightGood
<1>4. flight.ending[x] = "none" /\ Stage(x) = "none"
  BY <1>1 DEF SInv, World, Flights
<1>5. Own(t, x)'
  BY <1>1, <1>2, <1>3, KnownGood DEF Own
<1> QED
  BY <1>1, <1>2, <1>3, <1>4, <1>5 DEF Untold

-----------------------------------------------------------------------------
(***************************************************************************)
(* The steps of a recovery.                                                *)
(***************************************************************************)
(* A task that waits for what the recovery of its session comes to. *)
LEMMA AwaitingFine ==
    ASSUME RInv, NEW t \in {"background", "sync", "switchMode"}, NEW r, Goto(t, r),
           r.pc = "awaiting", InSandbox(r.mine)', flight'.recovery[r.mine].stage # "done",
           t = "switchMode" \/ auth'.switching = t
    PROVE  Fine(t)'
<1>0. t \in Task /\ tasks'[t] = r
  BY TaskAt, TaskNames DEF Changer
<1>1. Untold(t)' /\ Quiet(t)' /\ Wrote(t)' /\ Joined(t)'
  BY <1>0 DEF Untold, Quiet, Wrote, Joined, Born, Settling, Underway
<1>3. Noticed(t)' /\ Unfinished(t)'
  BY <1>0 DEF Noticed, Unfinished, Stage
<1>4. OfItsKind(t)'
  BY <1>0 DEF OfItsKind, Recoverer, Polling, Underway, Recovering, Changer
<1> QED
  BY <1>1, <1>3, <1>4 DEF Fine

(* The exchange of a session, answered or not. *)
LEMMA PostMild ==
    ASSUME RInv, SInv, LateGrows, NEW t \in Task, Serves, NEW f,
           f.sync = flight.sync, \A x \in Session : f.recovery[x].stage = Stage(x),
           \/ flight' = f /\ f.ending = flight.ending
           \/ ReportsOn(tasks[t].mine, f, disk)
    PROVE  Mild({tasks[t].mine, tasks[t].next})
<1> DEFINE s == tasks[t].mine
<1>1. /\ flight'.sync = flight.sync
      /\ flight'.ending = [x \in Session |-> flight'.ending[x]]
      /\ \A x \in Session : Stage(x)' = Stage(x)
      /\ \A x \in Session :
            flight'.ending[x] # flight.ending[x]
                => x = s /\ flight'.ending[x] = "marking" /\ current' = {}
  BY DEF ReportsOn, SInv, World, Flights, Stage
<1>2. s \in 0 .. server.issued /\ server.issued \in Nat
  BY KnownGood
<1>3. \A x \in Session : Recovers(x) /\ Begins(x, {s, tasks[t].next})
  BY <1>1, <1>2 DEF Recovers, Begins
<1>4. /\ flight'.sync.stage # "idle" => flight'.sync.of # None
      /\ flight'.sync.answer = "retired" => InSandbox(flight.sync.of)'
  <2> PICK x : x = flight.sync.of
    OBVIOUS
  <2>1. x \in 0 .. server.issued
    BY KnownGood DEF FlightGood
  <2>2. InSandbox(x)' <=> InSandbox(x)
    BY <2>1 DEF Serves, Modes
  <2> QED  BY <1>1, <2>2 DEF SInv, World, Flights, InSandbox, Row
<1> QED
  BY <1>1, <1>3, <1>4 DEF Mild, Serves, SyncGoes

LEMMA RecoveryAsks ==
    ASSUME RInv, SInv, LateGrows, NEW t \in Task,
           RecoveryCheck(t) \/ RecoveryJoined(t) \/ RecoveryAwaited(t)
    PROVE  SStep
<1> DEFINE q == tasks[t]
<1> PICK s : s = q.mine
  OBVIOUS
<1>0. /\ TaskShape(q) /\ Fine(t) /\ World
      /\ q.pc # "joining" => s \in Session /\ s \in 0 .. server.issued
  <2>1. q.pc \in {"checking", "joining", "awaiting"}
    BY DEF RecoveryCheck, RecoveryJoined, RecoveryAwaited
  <2> QED  BY <2>1, TaskRecord, KnownGood DEF SInv, Placed
<1>1. CASE RecoveryCheck(t)
  <2> DEFINE a == [Exposed(auth, None, FALSE) EXCEPT !.switching = t]
             f == Entered(s, "waiting", "sandbox")
  <2> PICK j, r, w : /\ j = [q EXCEPT !.pc = "joining"]
                     /\ r = [q EXCEPT !.pc = "draining", !.target = "sandbox"]
                     /\ w = [q EXCEPT !.pc = "awaiting", !.target = "sandbox"]
    OBVIOUS
  <2>1. UNCHANGED <<disk, server>> /\ q.pc = "checking"
    BY <1>1 DEF RecoveryCheck
  <2>2. Plain(j, "joining", q) /\ Plain(r, "draining", q) /\ Plain(w, "awaiting", q)
    BY <1>0, RecordOf, Zenon DEF Plain
  <2>3. /\ InSandbox(s) /\ t \in {"background", "sync", "switchMode"}
        /\ t = "switchMode" => Stage(s) # "done"
    BY <1>0, <2>1 DEF Fine, OfItsKind, Unfinished, Recoverer, Changer, InSandbox
  <2>4. \/ Ends(t, auth) /\ flight' = flight
        \/ Goto(t, j) /\ UNCHANGED <<auth, barrier, current, flight>>
        \/ /\ StillMine(t) /\ Unswitched /\ auth' = a /\ current' = current
           /\ \/ barrier' = Closed(t) /\ flight' = f /\ Goto(t, r)
              \/ Goto(t, w) /\ UNCHANGED <<barrier, flight>>
    BY <1>1, Zenon DEF RecoveryCheck
  <2>5. InSandbox(s)'
    BY <2>1, <2>3 DEF InSandbox, Row
  <2>6. CASE Ends(t, auth) /\ flight' = flight
    BY <2>1, <2>6, EndsAsItIs DEF Calm
  <2>7. CASE Goto(t, j) /\ UNCHANGED <<auth, barrier, current, flight>>
    <3>1. Dull(t, j) /\ t # "login" /\ t # "hydrate" /\ t # "profile"
      BY <2>2, <2>3 DEF Dull, Plain, Record
    <3>2. t \in Changer \cup {"hydrate"} /\ j.mine # None
              => flight'.recovery[j.mine].stage # "done"
      BY <2>2, <2>3, <2>7 DEF Changer, Plain, Record, Stage
    <3>3. Fine(t)'
      BY <2>7, <3>1, <3>2, DullFine
    <3>4. /\ Kept(t) /\ Seen(j.mine, t) /\ Seen(j.next, t) /\ StoresAlone(t) /\ Calm
          /\ Installs(t, disk'.stored, disk.stored) /\ Installs(t, auth'.session, auth.session)
      BY <2>1, <2>2, <2>7 DEF Kept, Seen, Plain, Record, StoresAlone, Installs, Calm
    <3> QED  BY <2>7, <3>3, <3>4, CalmGoes
  <2>8. CASE /\ StillMine(t) /\ Unswitched /\ auth' = a /\ current' = current
             /\ \/ barrier' = Closed(t) /\ flight' = f /\ Goto(t, r)
                \/ Goto(t, w) /\ UNCHANGED <<barrier, flight>>
    <3>1. /\ auth'.session = None /\ auth'.switching = t
      <4>1. a.session = None /\ a.switching = t
        BY DEF RInv, BInv, Shapes, AuthShape, Exposed
      <4> QED  BY <2>8, <4>1
    <3>2. /\ StoresAlone(t) /\ Installs(t, disk'.stored, disk.stored)
          /\ Installs(t, auth'.session, auth.session)
      BY <2>1, <3>1 DEF StoresAlone, Installs
    <3>3. auth.switching \notin {t, Nobody} => auth'.switching = auth.switching
      BY <2>8 DEF Unswitched
    <3>4. CASE barrier' = Closed(t) /\ flight' = f /\ Goto(t, r)
      <4>1. StageSet(flight', s, "waiting")
        BY <1>0, <2>1, <3>4, StagesSet
      <4>2. Mild({tasks[t].mine, tasks[t].next})
        BY <1>0, <2>1, <2>3, <4>1, StageMild
      <4>3. /\ Kept(t) /\ Seen(r.mine, t) /\ Seen(r.next, t)
        BY <2>2, <2>8, <3>3, <3>4
           DEF Kept, Closed, RInv, BInv, Shapes, BarrierShape, Seen, Plain, Record
      <4>4. r.pc = "draining" /\ r.mine = s
        BY <2>2 DEF Plain, Record
      <4>5. InSandbox(r.mine)' /\ flight'.recovery[r.mine].stage # "done"
        BY <1>0, <2>1, <2>5, <4>1, <4>4 DEF StageSet, InSandbox, Row
      <4>6. Fine(t)'
        BY <2>3, <3>4, <4>4, <4>5, RecovererFine
      <4> QED  BY <3>2, <3>4, <4>2, <4>3, <4>6, MildGoes
    <3>5. CASE Goto(t, w) /\ UNCHANGED <<barrier, flight>>
      <4>1. /\ Kept(t) /\ Seen(w.mine, t) /\ Seen(w.next, t) /\ Calm
        BY <2>1, <2>2, <2>8, <3>3, <3>5 DEF Kept, Seen, Plain, Record, Calm
      <4>2. w.pc = "awaiting" /\ w.mine = s
        BY <2>2 DEF Plain, Record
      <4>3. Stage(s) # "done"
        BY <1>0, <2>8, <2>3 DEF StillMine, World, Allowed, InSandbox
      <4>4. InSandbox(w.mine)' /\ flight'.recovery[w.mine].stage # "done"
        BY <2>1, <2>5, <3>5, <4>2, <4>3 DEF Stage, InSandbox, Row
      <4>5. Fine(t)'
        BY <2>3, <3>1, <3>5, <4>2, <4>4, AwaitingFine
      <4> QED  BY <3>2, <3>5, <4>1, <4>5, CalmGoes
    <3> QED  BY <2>8, <3>4, <3>5
  <2> QED  BY <2>4, <2>6, <2>7, <2>8
<1>2. CASE RecoveryJoined(t)
  BY <1>2, EndsAsItIs DEF RecoveryJoined, Calm
<1>3. CASE RecoveryAwaited(t)
  <2>1. UNCHANGED <<flight, disk, server>> /\ q.pc = "awaiting" /\ Calm
    BY <1>3 DEF RecoveryAwaited, Calm
  <2>2. Stage(s) # "done"
    BY <1>0, <2>1 DEF Fine, Unfinished, None, Session
  <2>3. Ends(t, Exposed(auth, None, FALSE))
    BY <1>3, <2>2 DEF RecoveryAwaited, RecoveryOf, Stage, Shows
  <2>4. Keeps(Exposed(auth, None, FALSE), auth.switching)
    BY AuthKeeps, AuthFields DEF RInv
  <2> QED  BY <2>1, <2>3, <2>4, SessionsSet, JustEnds
<1> QED
  BY <1>1, <1>2, <1>3

(* The task that recovers its session goes on, and stores nothing new. *)
LEMMA RecoveryOn ==
    ASSUME RInv, SInv, LateGrows, NEW t \in Task, NEW r, Goto(t, r), Recoverer(t, tasks[t]),
           Plain(r, r.pc, tasks[t]),
           r.pc \in {"recovering", "rotating", "unrotated"},
           UNCHANGED <<auth, barrier, current>> \/ (UNCHANGED barrier /\ ReportsOn(tasks[t].mine, Posted(t), disk)),
           disk'.stored \in {disk.stored, None},
           Mild({tasks[t].mine, tasks[t].next}),
           t = "switchMode" => flight'.recovery[tasks[t].mine].stage # "done"
    PROVE  SStep
<1> PICK s : s = tasks[t].mine
  OBVIOUS
<1>1. InSandbox(s) /\ t \in {"background", "sync", "switchMode"} /\ s \in 0 .. server.issued
  BY KnownGood DEF SInv, Fine, OfItsKind
<1>2. r.mine = s /\ r.next = tasks[t].next
  BY DEF Plain, Record
<1>3. InSandbox(s)'
  BY <1>1 DEF Mild, Modes
<1>4. InSandbox(r.mine)'
  BY <1>2, <1>3 DEF InSandbox, Row
<1>5. Fine(t)'
  BY <1>1, <1>2, <1>4, RecovererFine
<1>6. /\ Kept(t) /\ Seen(r.mine, t) /\ Seen(r.next, t) /\ StoresAlone(t)
      /\ Installs(t, disk'.stored, disk.stored) /\ Installs(t, auth'.session, auth.session)
  BY <1>2 DEF ReportsOn, Kept, Seen, StoresAlone, Installs
<1> QED
  BY <1>5, <1>6, MildGoes

LEMMA RecoveryWorks ==
    ASSUME RInv, SInv, LateGrows, NEW t \in Task,
           RecoverDrained(t) \/ RecoverClear(t) \/ RecoverPost(t) \/ RecoverPersist(t)
    PROVE  SStep
<1> DEFINE q == tasks[t]
<1> PICK s : s = q.mine
  OBVIOUS
<1>0. /\ TaskShape(q) /\ Fine(t) /\ World /\ s \in 0 .. server.issued /\ q.next \in 0 .. server.issued
      /\ Recoverer(t, q)
  <2>1. Recoverer(t, q)
    BY DEF RecoverDrained, RecoverClear, RecoverPost, RecoverPersist, Recoverer, Recovering
  <2> QED  BY <2>1, TaskRecord, KnownGood DEF SInv
<1>a. /\ InSandbox(s) /\ t \in {"background", "sync", "switchMode"} /\ s \in Session
      /\ q.pc # "idle" /\ t = "switchMode" => Stage(s) # "done"
      /\ barrier.transition = t
  <2>1. OnItsWay(t, q) /\ q.pc # "idle"
    BY DEF RecoverDrained, RecoverClear, RecoverPost, RecoverPersist, OnItsWay, Recovering
  <2> QED  BY <1>0, <2>1, TaskIs DEF Fine, OfItsKind, Unfinished, Changer, InSandbox
<1>1. CASE RecoverDrained(t)
  <2> PICK r : r = [q EXCEPT !.pc = "recovering"]
    OBVIOUS
  <2>1. /\ UNCHANGED <<auth, barrier, current, disk, server>> /\ Goto(t, r)
        /\ flight' = RecoveryGoes(t, "started", None)
    BY <1>1 DEF RecoverDrained
  <2>2. Plain(r, "recovering", q)
    BY <1>0, RecordOf, Zenon DEF Plain
  <2>3. StageSet(flight', s, "started")
    BY <1>a, <2>1, StagesSet, Zenon DEF RecoveryGoes
  <2>4. Mild({q.mine, q.next})
    BY <1>0, <1>a, <2>1, <2>3, StageMild
  <2>5. Plain(r, r.pc, q) /\ r.pc = "recovering"
    BY <2>2 DEF Plain, Record
  <2>6. flight'.recovery[s].stage # "done"
    BY <1>a, <2>3 DEF StageSet
  <2> QED  BY <1>0, <2>1, <2>4, <2>5, <2>6, RecoveryOn
<1>2. CASE RecoverClear(t)
  <2> PICK r, w : r = [q EXCEPT !.pc = "rotating"] /\ w = [q EXCEPT !.pc = "unrotated"]
    OBVIOUS
  <2>1. /\ UNCHANGED <<auth, barrier, current, flight, server>> /\ (Goto(t, r) \/ Goto(t, w))
        /\ q.pc = "recovering" /\ Calm
        /\ disk' = disk \/ disk' = Cleared(disk)
    BY <1>2 DEF RecoverClear, Calm
  <2>2. Plain(r, "rotating", q) /\ Plain(w, "unrotated", q)
    BY <1>0, RecordOf, Zenon DEF Plain
  <2>3. /\ Plain(r, r.pc, q) /\ r.pc = "rotating"
        /\ Plain(w, w.pc, q) /\ w.pc = "unrotated"
    BY <2>2 DEF Plain, Record
  <2>4. disk'.stored \in {disk.stored, None}
    BY <2>1, StoredSet
  <2>5. t = "switchMode" => flight'.recovery[q.mine].stage # "done"
    BY <1>a, <2>1 DEF Stage
  <2>6. Mild({q.mine, q.next})
    BY <2>1, CalmMild
  <2> QED  BY <1>0, <2>1, <2>3, <2>4, <2>5, <2>6, RecoveryOn
<1>3. CASE RecoverPost(t)
  <2> DEFINE answer == ExchangeAnswer(t, q.mine, q.target)
  <2> PICK r, w : /\ r = [q EXCEPT !.pc = "rotated", !.next = NextSession]
                  /\ w = [q EXCEPT !.pc = "unrotated"]
    OBVIOUS
  <2> PICK f : f = Posted(t)
    OBVIOUS
  <2>1. barrier' = barrier /\ q.pc = "rotating"
    BY <1>3 DEF RecoverPost
  <2>2. /\ f.sync = flight.sync /\ f.ending = flight.ending /\ FlightShape(f)
        /\ \A x \in Session : f.recovery[x].stage = Stage(x)
    <3>1. StageSet(f, s, Stage(s))
      <4> PICK y : y = flight.recovery[s].posts + 1
        OBVIOUS
      <4>1. f = [flight EXCEPT !.recovery[s].posts = y]
        BY <1>a DEF Posted, RInv, Known, Recovered, FlightShape
      <4>2. StageSet([flight EXCEPT !.recovery[s].posts = y], s, Stage(s))
        BY <1>a, StagesSet
      <4> QED  BY <4>1, <4>2
    <3>2. RecGood(f)
      <4>1. Pending(q.mine, flight.recovery)
        BY <2>1 DEF RInv, Careful, Safe, NotAsked
      <4> QED  BY <4>1, PostedGood
    <3> QED  BY <3>1, <3>2 DEF StageSet, RecGood
  <2>3. /\ Plain(w, "unrotated", q) /\ Record(r, "rotated", s, NextSession, q.then)
    BY <1>0, RecordOf, Zenon DEF Plain
  <2>4. /\ \/ UNCHANGED <<auth, current, disk>> /\ flight' = f
           \/ Goto(t, w) /\ server' = server /\ ReportsOn(q.mine, f, disk)
        /\ \/ server.issued < MaxSession /\ server' = Exchanged(q.mine, q.target)
           \/ server' = server /\ Goto(t, w)
        /\ Goto(t, r) \/ Goto(t, w)
    <3>1. Reported(q.mine, answer, f, disk) => ReportsOn(q.mine, f, disk)
      BY <2>2, ReportedOn, KnownGood DEF DiskGood
    <3> QED  BY <1>3, <3>1 DEF RecoverPost
  <2>5. Serves
    BY <2>4, ExchangedServes, ServesStill
  <2>6. Mild({q.mine, q.next})
    BY <2>2, <2>4, <2>5, PostMild
  <2>7. CASE Goto(t, w)
    <3>1. Plain(w, w.pc, q) /\ w.pc = "unrotated"
      BY <2>3 DEF Plain, Record
    <3>2. disk'.stored \in {disk.stored, None}
      BY <2>4 DEF ReportsOn
    <3>3. t = "switchMode" => flight'.recovery[q.mine].stage # "done"
      BY <1>a, <2>1, <2>2, <2>4 DEF ReportsOn, Stage
    <3>4. UNCHANGED <<auth, barrier, current>>
             \/ (UNCHANGED barrier /\ ReportsOn(q.mine, Posted(t), disk))
      BY <2>1, <2>4
    <3> QED  BY <1>0, <2>6, <2>7, <3>1, <3>2, <3>3, <3>4, RecoveryOn
  <2>8. CASE Goto(t, r) /\ ~Goto(t, w)
    <3>1. /\ UNCHANGED <<auth, barrier, current, disk>> /\ flight' = f
          /\ server.issued < MaxSession
      BY <2>1, <2>4, <2>8
    <3>2. r.pc = "rotated" /\ r.mine = s /\ r.next = server.issued + 1
      BY <2>3 DEF Record, NextSession
    <3>3. \A x \in Session : Stage(x)' = Stage(x)
      BY <2>2, <3>1 DEF Stage
    <3>4. Untold(t)'
      BY <1>0, <2>2, <2>8, <3>1, <3>2, <3>3, NewUntold
    <3>5. tasks'[t] = r
      BY <2>8, TaskAt
    <3>6. Quiet(t)' /\ Joined(t)' /\ Wrote(t)' /\ Noticed(t)'
      BY <1>a, <3>2, <3>5 DEF Quiet, Joined, Wrote, Noticed, Settling, Underway
    <3>7. Unfinished(t)'
      <4>1. t = "switchMode" => Stage(s)' # "done"
        BY <1>a, <2>1, <3>3
      <4> QED  BY <1>a, <3>2, <3>5, <4>1 DEF Unfinished, Changer, Stage
    <3>8. OfItsKind(t)'
      <4>1. InSandbox(s)'
        BY <1>0, <1>a, <2>5 DEF Serves, Modes
      <4> QED  BY <1>a, <3>2, <3>5, <4>1
                  DEF OfItsKind, Recoverer, Polling, Underway, Recovering, InSandbox, Row
    <3>9. Fine(t)'
      BY <3>4, <3>6, <3>7, <3>8 DEF Fine
    <3>10. /\ Kept(t) /\ Seen(r.mine, t) /\ Seen(r.next, t) /\ StoresAlone(t)
           /\ Installs(t, disk'.stored, disk.stored) /\ Installs(t, auth'.session, auth.session)
      BY <3>1, <3>2 DEF Kept, Seen, StoresAlone, Installs
    <3> QED  BY <2>6, <2>8, <3>9, <3>10, MildGoes
  <2> QED  BY <2>4, <2>7, <2>8
<1>4. CASE RecoverPersist(t)
  <2> PICK x : x = q.next
    OBVIOUS
  <2> PICK r, w : r = Syncing(q, "resynced") /\ w = [q EXCEPT !.pc = "unrotated"]
    OBVIOUS
  <2>1. /\ UNCHANGED <<auth, barrier, current, flight, server>> /\ q.pc = "rotated" /\ Calm
        /\ \/ Goto(t, r) /\ disk' = Holding(Prepared(disk, x), x)
           \/ Goto(t, w) /\ \E durable \in {disk.stored, x} : disk' = Holding(disk, durable)
    BY <1>4 DEF RecoverPersist, Calm
  <2>2. /\ Own(t, x) /\ Stage(x) # "done" /\ disk.stored # x
        /\ flight.sync.of # x /\ flight.ending[x] = "none"
    BY <1>0, <2>1 DEF Fine, Untold, Born
  <2>3. Allowed(x) /\ StoresAlone(t)
    BY <1>a, <2>2 DEF Allowed, StoresAlone
  <2>4. Plain(w, "unrotated", q) /\ Record(r, "sync", s, x, "resynced")
    BY <1>0, RecordOf, Zenon DEF Plain
  <2>5. disk'.stored \in {disk.stored, x} /\ (Goto(t, r) => disk'.stored \in {disk.stored, x})
    BY <2>1, StoredSet
  <2>6. /\ Kept(t) /\ Installs(t, disk'.stored, disk.stored) /\ Installs(t, auth'.session, auth.session)
    BY <2>1, <2>3, <2>5 DEF Kept, Installs
  <2>7. CASE Goto(t, w)
    <3>1. w.pc = "unrotated" /\ w.mine = s /\ w.next = x
      BY <2>4 DEF Plain, Record
    <3>2. InSandbox(w.mine)' /\ (t = "switchMode" => flight'.recovery[w.mine].stage # "done")
      BY <1>a, <2>1, <3>1 DEF InSandbox, Row, Stage
    <3>3. Fine(t)'
      BY <1>a, <2>7, <3>1, <3>2, RecovererFine
    <3>4. Seen(w.mine, t) /\ Seen(w.next, t)
      BY <3>1 DEF Seen
    <3> QED  BY <2>1, <2>3, <2>6, <2>7, <3>3, <3>4, CalmGoes
  <2>8. CASE Goto(t, r) /\ disk' = Holding(Prepared(disk, x), x)
    <3>1. r.pc = "sync" /\ r.mine = s /\ r.next = x /\ r.then = "resynced"
      BY <2>4 DEF Record
    <3>2. tasks'[t] = r /\ \A u \in Task \ {t} : tasks'[u] = tasks[u]
      BY <2>8, TaskAt
    <3>3. disk'.stored = x
      BY <2>8, StoredSet
    <3>4. Own(t, x)'
      BY <2>1, <2>2, <3>1, <3>2 DEF Own
    <3>5. Quiet(t)'
      BY <2>1, <2>2, <3>1, <3>2, <3>3, <3>4 DEF Quiet, Own, Stage
    <3>6. Untold(t)' /\ Joined(t)' /\ Wrote(t)' /\ Noticed(t)'
      BY <1>a, <2>2, <3>1, <3>2 DEF Untold, Joined, Wrote, Noticed, Born, SyncOf, Own
    <3>7. Unfinished(t)'
      BY <1>a, <2>1, <3>1, <3>2 DEF Unfinished, Changer, Stage
    <3>8. OfItsKind(t)'
      BY <1>a, <2>1, <3>1, <3>2
         DEF OfItsKind, Recoverer, Polling, Underway, Recovering, InSandbox, Row
    <3>9. Fine(t)'
      BY <3>5, <3>6, <3>7, <3>8 DEF Fine
    <3>10. Seen(r.mine, t) /\ Seen(r.next, t)
      BY <3>1 DEF Seen
    <3> QED  BY <2>1, <2>3, <2>6, <2>8, <3>9, <3>10, CalmGoes
  <2> QED  BY <2>1, <2>7, <2>8
<1> QED
  BY <1>1, <1>2, <1>3, <1>4

LEMMA RecoveryResults ==
    ASSUME RInv, SInv, LateGrows, NEW t \in Task, RecoverDone(t) \/ RecoverFail(t)
    PROVE  SStep
<1> DEFINE q == tasks[t]
           A == {q.mine, q.next}
<1> PICK s, x : s = q.mine /\ x = q.next
  OBVIOUS
<1>0. /\ Fine(t) /\ World /\ s \in 0 .. server.issued /\ x \in 0 .. server.issued
      /\ q.pc \in {"resynced", "unrotated"} /\ Recoverer(t, q)
      /\ Keeps(Exposed(auth, x, FALSE), auth.switching)
      /\ Keeps(Exposed(auth, None, FALSE), auth.switching)
  <2>1. q.pc \in {"resynced", "unrotated"}
    BY DEF RecoverDone, RecoverFail
  <2> QED  BY <2>1, KnownGood, AuthKeeps, AuthFields DEF SInv, RInv, Recoverer, Recovering
<1>a. InSandbox(s) /\ s \in Session /\ barrier.transition = t /\ barrier.leases = {}
  <2>1. OnItsWay(t, q) /\ q.pc # "draining"
    BY <1>0 DEF OnItsWay, Recovering
  <2> QED  BY <1>0, <2>1, TaskIs DEF Fine, OfItsKind, InSandbox
<1>1. CASE RecoverDone(t)
  <2>1. /\ q.pc = "resynced" /\ q.answer = "ok" /\ UNCHANGED <<disk, server>>
        /\ Ends(t, Exposed(auth, x, FALSE)) /\ flight' = RecoveryGoes(t, "done", x)
    BY <1>1 DEF RecoverDone, Shows
  <2>2. StageSet(flight', s, "done")
    BY <1>a, <2>1, StagesSet, Zenon DEF RecoveryGoes
  <2>3. /\ Own(t, x) /\ Stage(x) # "done" /\ disk.stored # s /\ flight.ending[x] = "none"
        /\ x # s /\ x \in Session
    BY <1>0, <2>1, TaskIs DEF Fine, Quiet, Settling, Own
  <2>4. /\ Kept(t) /\ Goto(t, Idle) /\ auth'.session = Exposed(auth, x, FALSE).session
        /\ Fine(t)' /\ Seen(Idle.mine, t) /\ Seen(Idle.next, t)
    BY <1>0, <2>1, EndsKept
  <2>5. auth'.session = x
    BY <2>4, SessionsSet
  <2>6. /\ flight'.sync = flight.sync /\ flight'.ending = flight.ending
        /\ \A y \in Session : Stage(y)' = IF y = s THEN "done" ELSE Stage(y)
    BY <2>2 DEF StageSet, Stage
  <2>7. Rows' /\ Modes
    BY <2>1 DEF World, Rows, Row, InSandbox, Modes, SInv
  <2>8. Gentle(A)
    BY <1>a, <2>1, <2>5, <2>6, <2>7 DEF Gentle, SyncGoes, LateGrows
  <2>9. DoneAlone(t) /\ StoresAlone(t)
    BY <1>a, <2>1, <2>6 DEF DoneAlone, StoresAlone
  <2>10. World'
    <3>1. Flights'
      <4>1. \A y \in Session : Stage(y)' # "none" => InSandbox(y)'
        BY <1>0, <1>a, <2>1, <2>6 DEF World, Flights, InSandbox, Row
      <4>2. \A y \in Session :
              y > server'.issued => flight'.ending[y] = "none" /\ Stage(y)' = "none"
        BY <1>0, <2>1, <2>6, KnownGood DEF World, Flights
      <4> QED  BY <1>0, <2>1, <2>6, <4>1, <4>2 DEF World, Flights, InSandbox, Row
    <3>2. Allowed(disk.stored)'
      <4> PICK y : y = disk.stored
        OBVIOUS
      <4>1. Allowed(y) /\ y # s /\ (y # None => y \in Session)
        BY <1>0, <2>3, KnownGood DEF World, DiskGood
      <4>2. Allowed(y)'
        BY <2>6, <4>1 DEF Allowed, FoundLate, LateGrows
      <4> QED  BY <2>1, <4>2 DEF Allowed, Stage, FoundLate
    <3>3. Allowed(auth.session)'
      <4>1. Allowed(x)'
        BY <2>3, <2>6 DEF Allowed
      <4> QED  BY <2>5, <4>1 DEF Allowed, Stage, FoundLate
    <3> QED  BY <2>7, <3>1, <3>2, <3>3 DEF World
  <2> HIDE DEF Idle
  <2> QED  BY <2>4, <2>8, <2>9, <2>10, OthersFine DEF SStep
<1>2. CASE RecoverFail(t)
  <2>1. /\ server' = server
        /\ Ends(t, Exposed(auth, None, FALSE)) /\ flight' = RecoveryGoes(t, "failed", None)
        /\ disk' = Holding(Cleared(disk), None) \/ disk' = Cleared(disk)
    BY <1>2 DEF RecoverFail, Shows
  <2>2. StageSet(flight', s, "failed")
    BY <1>a, <2>1, StagesSet, Zenon DEF RecoveryGoes
  <2>3. Mild({q.mine, q.next})
    BY <1>0, <1>a, <2>1, <2>2, StageMild
  <2>4. disk'.stored \in {disk.stored, None}
    BY <2>1, StoredSet
  <2> PICK a : a = Exposed(auth, None, FALSE)
    OBVIOUS
  <2>5. /\ Ends(t, a) /\ Keeps(a, auth.switching) /\ Installs(t, a.session, auth.session)
    <3>1. Exposed(auth, None, FALSE).session = None
      BY SessionsSet
    <3> QED  BY <1>0, <2>1, <3>1 DEF Installs
  <2>6. Installs(t, disk'.stored, disk.stored) /\ StoresAlone(t)
    BY <2>4, StoredStays
  <2> QED  BY <2>3, <2>5, <2>6, MildEnds
<1> QED
  BY <1>1, <1>2

LEMMA RecoveryFine ==
    ASSUME RInv, SInv, LateGrows, NEW t \in Task, RecoveryStep(t)
    PROVE  SStep
BY RecoveryAsks, RecoveryWorks, RecoveryResults DEF RecoveryStep

-----------------------------------------------------------------------------
(***************************************************************************)
(* The steps of a change of sessions.                                      *)
(***************************************************************************)
(* A task goes on with what it has, at a point where it has little to keep.*)
LEMMA DullGoes ==
    ASSUME RInv, SInv, NEW t \in Task, NEW r, Goto(t, r), Plain(r, r.pc, tasks[t]), Dull(t, r),
           tasks[t].pc # "idle", Mild({tasks[t].mine, tasks[t].next}), Kept(t),
           t = "hydrate" => t \in barrier'.leases, current' \subseteq current, StoresAlone(t),
           Installs(t, disk'.stored, disk.stored), Installs(t, auth'.session, auth.session)
    PROVE  SStep
<1> PICK x, y : x = tasks[t].mine /\ y = tasks[t].next
  OBVIOUS
<1>1. /\ r.mine = x /\ r.next = y
      /\ x \in 0 .. server.issued /\ y \in 0 .. server.issued
      /\ x # None => x \in Session
      /\ Noticed(t) /\ Unfinished(t) /\ OfItsKind(t)
  BY KnownGood DEF Plain, Record, SInv, Fine
<1>2. (InSandbox(x)' <=> InSandbox(x)) /\ (InSandbox(y)' <=> InSandbox(y))
  BY <1>1 DEF Mild, Modes
<1>3. x # None /\ Stage(x) # "done" => Stage(x)' # "done"
  BY <1>1 DEF Mild, Recovers
<1>4. t \in current' /\ Sound(x) => Sound(x)'
  BY <1>1 DEF Mild, Begins, Sound, FoundLate, LateGrows
<1>5. t \in Changer \cup {"hydrate"} /\ r.mine # None
         => flight'.recovery[r.mine].stage # "done"
  BY <1>1, <1>3 DEF Unfinished, Stage
<1>6. t = "hydrate" => t \in barrier'.leases /\ (t \in current' => Sound(r.mine)')
  <2>1. t = "hydrate" /\ t \in current' => Sound(x)'
    BY <1>1, <1>4 DEF Noticed
  <2> QED  BY <1>1, <2>1 DEF Sound, FoundLate
<1>7. t = "login" => r.mine = None /\ r.next # None /\ ~InSandbox(r.next)'
  BY <1>1, <1>2 DEF OfItsKind, InSandbox, Row
<1>8. t = "profile" => r.mine # None /\ r.next = None /\ ~InSandbox(r.mine)'
  BY <1>1, <1>2 DEF OfItsKind, InSandbox, Row
<1>9. Fine(t)'
  BY <1>5, <1>6, <1>7, <1>8, DullFine
<1>10. Seen(r.mine, t) /\ Seen(r.next, t)
  BY <1>1 DEF Seen
<1> QED
  BY <1>9, <1>10, MildGoes

LEMMA LoggedOutServes ==
    ASSUME RInv, SInv, NEW s, server' = LoggedOut(s)
    PROVE  Serves
<1> DEFINE rows == [server.rows EXCEPT ![s] = [server.rows[s] EXCEPT !.state = "ended"]]
<1>1. server'.rows = rows /\ server'.issued = server.issued
  BY DEF LoggedOut, RInv, Known, ServerShape
<1>2. server.rows = [x \in Session |-> server.rows[x]]
  BY DEF SInv, World, Rows
<1>3. \A x \in Session :
          /\ RowShape(rows[x]) /\ rows[x].mode = Row(x).mode
          /\ rows[x].state = "retired" => Row(x).state = "retired"
  <2> TAKE x \in Session
  <2> PICK old : old = Row(x)
    OBVIOUS
  <2>1. RowShape(old)
    BY DEF SInv, World, Rows
  <2>2. rows[x] = old \/ rows[x] = [old EXCEPT !.state = "ended"]
    BY <1>2 DEF Row
  <2>3. \/ rows[x] = old
        \/ RowShape(rows[x]) /\ rows[x].mode = old.mode /\ rows[x].state = "ended"
    BY <2>1, <2>2 DEF RowShape
  <2> QED  BY <2>1, <2>3
<1>4. rows = [x \in Session |-> rows[x]]
  BY <1>2
<1> HIDE DEF rows
<1>5. Rows'
  BY <1>1, <1>3, <1>4 DEF Rows, Row, InSandbox, SInv, World
<1>6. Modes
  BY <1>1, <1>3, KnownGood DEF Modes, InSandbox, Row
<1> QED
  BY <1>1, <1>5, <1>6, KnownGood DEF Serves

LEMMA ChangeFine ==
    ASSUME RInv, SInv, LateGrows, NEW t \in Task, ChangeStep(t) \/ (t \in Changer /\ ChangeBegin(t))
    PROVE  SStep
<1> DEFINE q == tasks[t]
<1> PICK s : s = q.mine
  OBVIOUS
<1>0. /\ TaskShape(q) /\ Fine(t) /\ World /\ s \in 0 .. server.issued /\ q.next \in 0 .. server.issued
      /\ t \in Changer /\ (q.pc # "idle" /\ s # None => Stage(s) # "done")
      /\ t \notin {"hydrate", "login", "profile", "background", "sync"}
  <2>1. t \in Changer
    BY DEF ChangeStep, ChangeDrained, ChangeSynced, ChangePost, ChangeEntered, SInv, Fine, OfItsKind
  <2> QED  BY <2>1, TaskRecord, KnownGood DEF SInv, Fine, Unfinished, Changer
<1>a. ASSUME NEW r, Goto(t, r), Plain(r, r.pc, q), r.pc \in {"changing", "posting", "refused"},
             q.pc # "idle", Mild({q.mine, q.next}),
             \/ UNCHANGED <<auth, barrier, current, disk>>
             \/ UNCHANGED barrier /\ ReportsOn(q.mine, flight, disk)
      PROVE  SStep
  <2>1. Dull(t, r)
    BY <1>0, <1>a DEF Dull
  <2>2. /\ Kept(t) /\ current' \subseteq current /\ StoresAlone(t)
        /\ Installs(t, disk'.stored, disk.stored) /\ Installs(t, auth'.session, auth.session)
    BY <1>a DEF Kept, ReportsOn, StoresAlone, Installs
  <2> QED  BY <1>0, <1>a, <2>1, <2>2, DullGoes
<1>1. CASE ChangeDrained(t)
  <2> PICK r, w : r = Syncing(q, "changing") /\ w = [q EXCEPT !.pc = "posting"]
    OBVIOUS
  <2>1. /\ UNCHANGED <<flight, disk, server>> /\ q.pc = "draining" /\ Calm
        /\ \/ Ends(t, auth)
           \/ /\ UNCHANGED <<auth, barrier, current>>
              /\ Goto(t, w) \/ (Goto(t, r) /\ s # None)
    BY <1>1, Zenon DEF ChangeDrained, SyncsFirst, Business, Calm
  <2>2. Plain(w, "posting", q) /\ Record(r, "sync", s, q.next, "changing")
    BY <1>0, RecordOf, Zenon DEF Plain
  <2>3. CASE Goto(t, r) /\ s # None /\ UNCHANGED <<auth, barrier, current>>
    <3>1. r.pc = "sync" /\ r.mine = s /\ r.next = q.next /\ r.then = "changing" /\ tasks'[t] = r
      BY <2>2, <2>3, TaskAt DEF Record
    <3>2. Untold(t)' /\ Quiet(t)' /\ Joined(t)' /\ Wrote(t)' /\ Noticed(t)'
      BY <1>0, <2>3, <3>1
         DEF Untold, Quiet, Joined, Wrote, Noticed, Born, Settling, SyncOf
    <3>3. Unfinished(t)'
      BY <1>0, <2>1, <3>1 DEF Unfinished, Stage
    <3>4. OfItsKind(t)'
      BY <1>0, <3>1 DEF OfItsKind, Recoverer, Polling, Underway, Recovering
    <3>5. Fine(t)'
      BY <3>2, <3>3, <3>4 DEF Fine
    <3>6. /\ Kept(t) /\ Seen(r.mine, t) /\ Seen(r.next, t) /\ StoresAlone(t)
          /\ Installs(t, disk'.stored, disk.stored) /\ Installs(t, auth'.session, auth.session)
      BY <2>1, <2>3, <3>1 DEF Kept, Seen, StoresAlone, Installs
    <3> QED  BY <2>1, <2>3, <3>5, <3>6, CalmGoes
  <2>4. CASE Goto(t, w) /\ UNCHANGED <<auth, barrier, current>>
    <3>1. Plain(w, w.pc, q) /\ w.pc = "posting"
      BY <2>2 DEF Plain, Record
    <3>2. Mild({q.mine, q.next})
      BY <2>1, CalmMild
    <3> QED  BY <1>a, <2>1, <2>4, <3>1, <3>2
  <2> QED  BY <2>1, <2>3, <2>4, EndsAsItIs
<1>2. CASE ChangeSynced(t)
  <2> PICK r : r = [q EXCEPT !.pc = IF Complete(t) THEN "posting" ELSE "refused"]
    OBVIOUS
  <2>1. /\ UNCHANGED <<auth, barrier, current, flight, disk, server>> /\ q.pc = "changing" /\ Calm
        /\ Goto(t, r)
    BY <1>2, Zenon DEF ChangeSynced, Calm
  <2>2. Plain(r, IF Complete(t) THEN "posting" ELSE "refused", q)
    BY <1>0, RecordOf, Zenon DEF Plain
  <2>3. Plain(r, r.pc, q) /\ r.pc \in {"posting", "refused"}
    BY <2>2 DEF Plain, Record
  <2>4. Mild({q.mine, q.next})
    BY <2>1, CalmMild
  <2> QED  BY <1>a, <2>1, <2>3, <2>4
<1>3. CASE ChangePost(t)
  <2>1. barrier' = barrier /\ q.pc = "posting"
    BY <1>3 DEF ChangePost
  <2> PICK r : r = [q EXCEPT !.pc = "issued", !.next = IF t = "logout" THEN None ELSE NextSession]
    OBVIOUS
  <2>2. /\ \/ UNCHANGED <<auth, current, disk, flight>>
           \/ ReportsOn(q.mine, flight, disk) /\ server' = server
        /\ server' = server \/ (server' = Rotation(t) /\ (t # "logout" => server.issued < MaxSession))
        /\ \/ \E x : Goto(t, [q EXCEPT !.pc = "refused", !.answer = x])
           \/ /\ Goto(t, r) /\ UNCHANGED <<auth, current, disk, flight>>
              /\ t # "logout" => server.issued < MaxSession
    <3>1. Reported(q.mine, PostAnswer(t), flight, disk) => ReportsOn(q.mine, flight, disk)
      BY ReportedOn, KnownGood DEF DiskGood, FlightGood
    <3> QED  BY <1>3, <3>1 DEF ChangePost
  <2>3. Serves
    BY <2>2, ExchangedServes, LoggedOutServes, ServesStill DEF Rotation
  <2>4. Mild({q.mine, q.next})
    BY <2>2, <2>3, PostMild DEF Stage
  <2>5. ASSUME NEW x, Goto(t, [q EXCEPT !.pc = "refused", !.answer = x])
        PROVE  SStep
    <3> PICK w : w = [q EXCEPT !.pc = "refused", !.answer = x]
      OBVIOUS
    <3>1. Plain(w, "refused", q) /\ Goto(t, w)
      BY <1>0, <2>5, RecordOf, Zenon DEF Plain
    <3>2. Plain(w, w.pc, q) /\ w.pc = "refused"
      BY <3>1 DEF Plain, Record
    <3> QED  BY <1>a, <2>1, <2>2, <2>4, <3>1, <3>2
  <2>6. CASE /\ Goto(t, r) /\ UNCHANGED <<auth, current, disk, flight>>
             /\ t # "logout" => server.issued < MaxSession
    <3>1. Record(r, "issued", s, IF t = "logout" THEN None ELSE NextSession, q.then)
      BY <1>0, RecordOf, Zenon
    <3>2. /\ r.pc = "issued" /\ r.mine = s /\ tasks'[t] = r
          /\ t = "logout" => r.next = None
          /\ t # "logout" => r.next = server.issued + 1
      BY <2>6, <3>1, TaskAt DEF Record, NextSession
    <3>3. Untold(t)'
      <4>1. CASE t = "logout"
        BY <3>2, <4>1 DEF Untold, Born
      <4>2. CASE t # "logout"
        BY <1>0, <2>6, <3>2, <4>2, NewUntold DEF Stage
      <4> QED  BY <4>1, <4>2
    <3>4. Quiet(t)' /\ Joined(t)' /\ Wrote(t)' /\ Noticed(t)'
      BY <1>0, <3>2 DEF Quiet, Joined, Wrote, Noticed, Settling, Underway
    <3>5. Unfinished(t)'
      BY <1>0, <2>1, <2>6, <3>2 DEF Unfinished, Stage
    <3>6. OfItsKind(t)'
      BY <1>0, <3>2 DEF OfItsKind, Recoverer, Polling, Underway, Recovering
    <3>7. Fine(t)'
      BY <3>3, <3>4, <3>5, <3>6 DEF Fine
    <3>8. /\ Kept(t) /\ Seen(r.mine, t) /\ Seen(r.next, t) /\ StoresAlone(t)
          /\ Installs(t, disk'.stored, disk.stored) /\ Installs(t, auth'.session, auth.session)
      BY <2>1, <2>6, <3>2 DEF Kept, Seen, StoresAlone, Installs
    <3> QED  BY <2>4, <2>6, <3>7, <3>8, MildGoes
  <2> QED  BY <2>2, <2>5, <2>6
<1>4. CASE ChangeEntered(t)
  BY <1>4, EndsAsItIs DEF ChangeEntered, Calm
<1>5. CASE ChangeBegin(t)
  <2> PICK x : x = auth.session
    OBVIOUS
  <2> PICK mode : Goto(t, [Idle EXCEPT !.pc = "draining", !.mine = x, !.target = mode])
    BY <1>5 DEF ChangeBegin
  <2> PICK r : r = [Idle EXCEPT !.pc = "draining", !.mine = x, !.target = mode]
    OBVIOUS
  <2>1. /\ UNCHANGED <<current, flight, disk, server>> /\ Calm /\ Goto(t, r)
        /\ barrier' = Closed(t) /\ Unswitched /\ auth' = [auth EXCEPT !.switching = t]
    BY <1>5 DEF ChangeBegin, Calm
  <2>2. Record(r, "draining", x, 0, "none")
    BY IdleOf, Zenon
  <2>3. r.pc = "draining" /\ r.mine = x /\ r.next = None
    BY <2>2 DEF Record, None
  <2>4. /\ auth'.session = auth.session
    BY <2>1, SessionsSet
  <2>5. Stage(x) # "done" \/ x = None
    BY <1>0 DEF World, Allowed
  <2>6. Dull(t, r)
    BY <1>0, <2>3 DEF Dull
  <2>7. t \in Changer \cup {"hydrate"} /\ r.mine # None
           => flight'.recovery[r.mine].stage # "done"
    BY <2>1, <2>3, <2>5 DEF Stage
  <2>8. Fine(t)'
    BY <1>0, <2>1, <2>6, <2>7, DullFine
  <2>9. /\ Kept(t) /\ Seen(r.mine, t) /\ Seen(r.next, t) /\ StoresAlone(t)
        /\ Installs(t, disk'.stored, disk.stored) /\ Installs(t, auth'.session, auth.session)
    BY <2>1, <2>3, <2>4
       DEF Kept, Closed, RInv, BInv, Shapes, BarrierShape, Seen, StoresAlone, Installs, Unswitched
  <2> QED  BY <2>1, <2>8, <2>9, CalmGoes
<1> QED
  BY <1>1, <1>2, <1>3, <1>4, <1>5 DEF ChangeStep

LEMMA OutcomeFine ==
    ASSUME RInv, SInv, LateGrows, NEW t \in Task,
           Refused(t) \/ (t = "logout" /\ LogoutDone)
             \/ (t = "switchMode" /\ (SwitchPersist \/ SwitchEntered))
    PROVE  SStep
<1> DEFINE q == tasks[t]
           A == {q.mine, q.next}
<1> PICK s, x : s = q.mine /\ x = q.next
  OBVIOUS
<1>0. /\ TaskShape(q) /\ Fine(t) /\ World /\ s \in 0 .. server.issued /\ x \in 0 .. server.issued
      /\ q.pc # "idle" /\ s # None /\ t \in Changer => Stage(s) # "done"
      /\ \A y \in 0 .. server.issued : y # None => y \in Session
      /\ t \in Changer /\ q.pc # "idle" => barrier.transition = t
  <2>1. TaskShape(q) /\ Fine(t) /\ World
    BY TaskRecord DEF SInv
  <2>2. t \in Changer /\ q.pc # "idle" => barrier.transition = t
    BY TaskIs DEF OnItsWay
  <2> QED  BY <2>1, <2>2, KnownGood DEF Fine, Unfinished
<1>a. /\ \A y, z : Keeps(Exposed(auth, y, z), auth.switching)
      /\ Keeps([Exposed(auth, None, FALSE) EXCEPT !.locked = FALSE], auth.switching)
      /\ Keeps(Locked(Exposed(auth, x, FALSE)), auth.switching)
  <2>1. \A y, z : Keeps(Exposed(auth, y, z), auth.switching)
    BY AuthKeeps, AuthFields DEF RInv
  <2> QED  BY <2>1, AuthField, AuthFields
<1>b. /\ \A y, z : Exposed(auth, y, z).session = y
      /\ [Exposed(auth, None, FALSE) EXCEPT !.locked = FALSE].session = None
      /\ Locked(Exposed(auth, x, FALSE)).session = x
  BY DEF RInv, BInv, Shapes, AuthShape, Exposed, Locked
<1>1. CASE Refused(t)
  <2> PICK r, w : r = [q EXCEPT !.pc = "recovering"] /\ w = [q EXCEPT !.pc = "awaiting"]
    OBVIOUS
  <2>1. /\ q.pc = "refused" /\ server' = server
        /\ \/ /\ Ends(t, Exposed(auth, None, FALSE)) /\ flight' = flight
              /\ disk' = Holding(Cleared(disk), None) \/ disk' = Cleared(disk)
           \/ /\ t = "switchMode" /\ InSandbox(s)
              /\ auth' = Exposed(auth, None, FALSE) /\ UNCHANGED <<barrier, current, disk>>
              /\ \/ flight' = Entered(s, "started", q.target) /\ Goto(t, r)
                 \/ flight' = flight /\ Goto(t, w)
           \/ Ends(t, auth) /\ UNCHANGED <<flight, disk>>
    BY <1>1, Zenon DEF Refused
  <2>2. CASE /\ Ends(t, Exposed(auth, None, FALSE)) /\ flight' = flight
             /\ disk' = Holding(Cleared(disk), None) \/ disk' = Cleared(disk)
    <3> PICK a : a = Exposed(auth, None, FALSE)
      OBVIOUS
    <3>1. /\ disk'.stored \in {disk.stored, None} /\ Calm
      BY <2>1, <2>2, StoredSet DEF Calm
    <3>2. Ends(t, a) /\ Keeps(a, auth.switching) /\ a.session \in {auth.session, None}
      BY <1>a, <1>b, <2>2
    <3> QED  BY <3>1, <3>2, JustEnds
  <2>3. CASE /\ t = "switchMode" /\ InSandbox(s)
             /\ auth' = Exposed(auth, None, FALSE) /\ UNCHANGED <<barrier, current, disk>>
             /\ \/ flight' = Entered(s, "started", q.target) /\ Goto(t, r)
                \/ flight' = flight /\ Goto(t, w)
    <3>0. t \in Changer /\ q.pc # "idle" /\ InSandbox(s) /\ server' = server /\ s # None
      <4>1. t \in Changer /\ InSandbox(s)
        BY <2>3 DEF Changer
      <4>2. q.pc # "idle" /\ server' = server
        BY <2>1
      <4> QED  BY <4>1, <4>2 DEF InSandbox
    <3>1. s \in Session /\ s \in 0 .. server.issued /\ Stage(s) # "done" /\ InSandbox(s)'
      <4>1. s \in Session /\ s \in 0 .. server.issued /\ Stage(s) # "done"
        BY <1>0, <3>0
      <4>2. InSandbox(s)'
        BY <3>0 DEF InSandbox, Row
      <4> QED  BY <4>1, <4>2
    <3>2. auth'.session = None /\ auth'.switching = auth.switching
      <4>1. auth' = Exposed(auth, None, FALSE)
        BY <2>3
      <4>2. /\ Keeps(Exposed(auth, None, FALSE), auth.switching)
            /\ Exposed(auth, None, FALSE).session = None
        BY <1>a, <1>b
      <4> QED  BY <4>1, <4>2 DEF Keeps
    <3>3. Plain(r, "recovering", q) /\ Plain(w, "awaiting", q)
      BY <1>0, RecordOf, Zenon DEF Plain
    <3>4. /\ r.pc = "recovering" /\ r.mine = s /\ r.next = x
          /\ w.pc = "awaiting" /\ w.mine = s /\ w.next = x
      BY <3>3 DEF Plain, Record
    <3>5. /\ Kept(t) /\ StoresAlone(t) /\ \A y \in {s, x} : Seen(y, t)
          /\ Installs(t, disk'.stored, disk.stored) /\ Installs(t, auth'.session, auth.session)
      BY <2>3, <3>2 DEF Kept, StoresAlone, Installs, Seen
    <3>6. CASE flight' = Entered(s, "started", q.target) /\ Goto(t, r)
      <4>1. StageSet(flight', s, "started")
        BY <3>1, <3>6, StagesSet, Zenon
      <4>2. Mild(A)
        BY <2>1, <2>3, <3>1, <4>1, StageMild
      <4>3. InSandbox(r.mine)' /\ flight'.recovery[r.mine].stage # "done"
        BY <3>1, <3>4, <4>1 DEF StageSet, InSandbox, Row
      <4>4. Fine(t)'
        BY <2>3, <3>4, <3>6, <4>3, RecovererFine
      <4> QED  BY <3>4, <3>5, <3>6, <4>2, <4>4, MildGoes
    <3>7. CASE flight' = flight /\ Goto(t, w)
      <4>1. Calm
        BY <2>1, <3>7 DEF Calm
      <4>2. InSandbox(w.mine)' /\ flight'.recovery[w.mine].stage # "done"
        BY <3>1, <3>4, <3>7 DEF Stage, InSandbox, Row
      <4>3. Fine(t)'
        BY <2>3, <3>4, <3>7, <4>2, AwaitingFine
      <4> QED  BY <3>4, <3>5, <3>7, <4>1, <4>3, CalmGoes
    <3> QED  BY <2>3, <3>6, <3>7
  <2>4. CASE Ends(t, auth) /\ UNCHANGED <<flight, disk>>
    BY <2>1, <2>4, EndsAsItIs DEF Calm
  <2> QED  BY <2>1, <2>2, <2>3, <2>4
<1>2. CASE t = "logout" /\ LogoutDone
  <2> PICK a : /\ Ends(t, a)
               /\ \/ a = auth \/ a = Exposed(auth, None, TRUE)
                  \/ a = [Exposed(auth, None, FALSE) EXCEPT !.locked = FALSE]
    BY <1>2 DEF LogoutDone
  <2>1. Calm /\ (disk' = disk \/ disk' = Holding(disk, None))
    BY <1>2 DEF LogoutDone, Calm
  <2>2. disk'.stored \in {disk.stored, None}
    BY <2>1, StoredSet
  <2>3. a.session \in {auth.session, None} /\ Keeps(a, auth.switching)
    <3>1. Keeps(auth, auth.switching)
      BY AuthKeeps DEF RInv
    <3>2. CASE a = auth
      BY <3>1, <3>2
    <3>3. CASE a = Exposed(auth, None, TRUE)
      BY <1>a, <1>b, <3>3
    <3>4. CASE a = [Exposed(auth, None, FALSE) EXCEPT !.locked = FALSE]
      BY <1>a, <1>b, <3>4
    <3> QED  BY <3>2, <3>3, <3>4
  <2> QED  BY <2>1, <2>2, <2>3, JustEnds
<1>3. CASE t = "switchMode" /\ SwitchPersist
  <2> PICK r : r = Syncing(q, "entered")
    OBVIOUS
  <2>1. /\ q.pc = "issued" /\ UNCHANGED <<flight, server>> /\ Calm /\ t \in Changer
        /\ \/ /\ Goto(t, r) /\ disk' = Holding(Prepared(disk, x), x)
              /\ UNCHANGED <<auth, barrier, current>>
           \/ /\ Ends(t, Exposed(auth, x, TRUE))
              /\ disk' \in {Holding(Prepared(disk, x), None), Holding(disk, x)}
    BY <1>3 DEF SwitchPersist, Calm, Changer
  <2>2. /\ Own(t, x) /\ Stage(x) # "done" /\ disk.stored # x
        /\ flight.sync.of # x /\ flight.ending[x] = "none" /\ x # None
    BY <1>0, <1>3, <2>1 DEF Fine, Untold, Born, Own
  <2>3. Allowed(x) /\ StoresAlone(t) /\ disk'.stored \in {x, None}
        /\ Installs(t, disk'.stored, disk.stored)
    <3>1. Allowed(x) /\ StoresAlone(t)
      BY <1>0, <2>1, <2>2 DEF Allowed, StoresAlone
    <3>2. disk'.stored \in {x, None}
      <4>1. /\ Holding(Prepared(disk, x), x).stored = x
            /\ Holding(Prepared(disk, x), None).stored = None /\ Holding(disk, x).stored = x
        BY StoredSet
      <4> QED  BY <2>1, <4>1
    <3> QED  BY <3>1, <3>2 DEF Installs
  <2>4. CASE /\ Goto(t, r) /\ disk' = Holding(Prepared(disk, x), x)
             /\ UNCHANGED <<auth, barrier, current>>
    <3>1. Record(r, "sync", s, x, "entered")
      BY <1>0, RecordOf, Zenon
    <3>2. /\ r.pc = "sync" /\ r.mine = s /\ r.next = x /\ r.then = "entered"
          /\ tasks'[t] = r /\ \A u \in Task \ {t} : tasks'[u] = tasks[u]
      BY <2>4, <3>1, TaskAt DEF Record
    <3>3. Own(t, x)'
      BY <2>2, <2>4, <3>2 DEF Own
    <3>4. Quiet(t)'
      BY <2>1, <2>2, <3>2, <3>3 DEF Quiet, Recoverer, Recovering, Changer, Stage
    <3>5. Untold(t)' /\ Joined(t)' /\ Wrote(t)' /\ Noticed(t)'
      BY <1>3, <2>2, <3>2 DEF Untold, Joined, Wrote, Noticed, Born, SyncOf
    <3>6. Unfinished(t)'
      BY <1>0, <2>1, <3>2 DEF Unfinished, Stage
    <3>7. OfItsKind(t)'
      BY <1>3, <2>1, <3>2 DEF OfItsKind, Recoverer, Polling, Underway, Recovering
    <3>8. Fine(t)'
      BY <3>4, <3>5, <3>6, <3>7 DEF Fine
    <3>9. /\ Kept(t) /\ Seen(r.mine, t) /\ Seen(r.next, t)
          /\ Installs(t, auth'.session, auth.session)
      BY <2>4, <3>2 DEF Kept, Seen, Installs
    <3> QED  BY <2>1, <2>3, <2>4, <3>8, <3>9, CalmGoes
  <2>5. CASE Ends(t, Exposed(auth, x, TRUE))
    <3> PICK a : a = Exposed(auth, x, TRUE)
      OBVIOUS
    <3>1. Ends(t, a) /\ Keeps(a, auth.switching) /\ Installs(t, a.session, auth.session)
      BY <1>a, <2>3, <2>5, <1>b DEF Installs
    <3> QED  BY <2>1, <2>3, <3>1, CalmEnds
  <2> QED  BY <2>1, <2>4, <2>5
<1>4. CASE t = "switchMode" /\ SwitchEntered
  <2> PICK r, w : /\ r = [q EXCEPT !.pc = "refused", !.mine = x]
                  /\ w = [q EXCEPT !.pc = "recovering", !.mine = x, !.next = None]
    OBVIOUS
  <2>1. /\ q.pc = "entered" /\ UNCHANGED <<disk, server>> /\ t \in Changer
        /\ \/ /\ q.answer # "unauthorized" /\ flight' = flight
              /\ Ends(t, Exposed(auth, x, FALSE))
           \/ /\ Goto(t, r) /\ barrier' = barrier
              /\ \/ /\ auth' = Locked(Exposed(auth, x, FALSE)) /\ current' = {}
                    /\ flight' = [flight EXCEPT !.ending[x] = "marking", !.last = x,
                                                !.headless[x] = FALSE]
                 \/ UNCHANGED <<auth, current, flight>>
           \/ /\ InSandbox(x) /\ Goto(t, w) /\ auth' = Exposed(auth, None, FALSE)
              /\ flight' = Entered(x, "started", q.target)
              /\ UNCHANGED <<barrier, current>>
    BY <1>4, Zenon DEF SwitchEntered, Changer
  <2>2. /\ Own(t, x) /\ Stage(x) # "done" /\ x # None /\ x \in Session
        /\ q.answer # "unauthorized" => flight.ending[x] = "none"
    BY <1>0, <1>4, <2>1 DEF Fine, Quiet, Settling, Own
  <2>3. Installs(t, disk'.stored, disk.stored) /\ StoresAlone(t)
    BY <2>1, StoredStays
  <2>4. CASE /\ q.answer # "unauthorized" /\ flight' = flight
             /\ Ends(t, Exposed(auth, x, FALSE))
    <3> PICK a : a = Exposed(auth, x, FALSE)
      OBVIOUS
    <3>1. Allowed(x) /\ Calm
      BY <2>1, <2>2, <2>4 DEF Allowed, Calm
    <3>2. Ends(t, a) /\ Keeps(a, auth.switching) /\ Installs(t, a.session, auth.session)
      BY <1>a, <2>4, <3>1, <1>b DEF Installs
    <3> QED  BY <2>3, <3>1, <3>2, CalmEnds
  <2>5. CASE Goto(t, r) /\ barrier' = barrier /\ UNCHANGED <<auth, current, flight>>
    <3>1. Record(r, "refused", x, x, q.then)
      BY <1>0, RecordOf, Zenon
    <3>2. r.pc = "refused" /\ r.mine = x /\ r.next = x
      BY <3>1 DEF Record
    <3>3. Dull(t, r) /\ t # "login" /\ t # "hydrate" /\ t # "profile"
      BY <1>4, <3>2 DEF Dull
    <3>4. flight'.recovery[r.mine].stage # "done"
      BY <2>2, <2>5, <3>2 DEF Stage
    <3>5. Fine(t)'
      BY <2>5, <3>3, <3>4, DullFine
    <3>6. /\ Kept(t) /\ Seen(r.mine, t) /\ Seen(r.next, t) /\ Calm
          /\ Installs(t, auth'.session, auth.session)
      BY <2>1, <2>5, <3>2 DEF Kept, Seen, Installs, Calm
    <3> QED  BY <2>3, <2>5, <3>5, <3>6, CalmGoes
  <2>6. CASE /\ Goto(t, r) /\ barrier' = barrier
             /\ auth' = Locked(Exposed(auth, x, FALSE)) /\ current' = {}
             /\ flight' = [flight EXCEPT !.ending[x] = "marking", !.last = x,
                                         !.headless[x] = FALSE]
    <3>1. Record(r, "refused", x, x, q.then)
      BY <1>0, RecordOf, Zenon
    <3>2. r.pc = "refused" /\ r.mine = x /\ r.next = x
      BY <3>1 DEF Record
    <3>3. Dull(t, r) /\ t # "login" /\ t # "hydrate" /\ t # "profile"
      BY <1>4, <3>2 DEF Dull
    <3>4. /\ flight'.sync = flight.sync /\ flight'.recovery = flight.recovery
          /\ flight'.ending = [flight.ending EXCEPT ![x] = "marking"]
      BY <2>6 DEF RInv, Known, FlightShape
    <3>5. /\ flight'.ending = [y \in Session |-> flight'.ending[y]]
          /\ flight'.ending[x] = "marking"
          /\ \A y \in Session \ {x} : flight'.ending[y] = flight.ending[y]
      <4>1. flight.ending = [y \in Session |-> flight.ending[y]]
        BY <1>0 DEF World, Flights
      <4> QED  BY <2>2, <3>4, <4>1
    <3>6. auth'.session = x /\ auth'.switching = auth.switching
      BY <1>a, <2>6, <1>b DEF Keeps
    <3>7. flight'.recovery[r.mine].stage # "done"
      BY <2>2, <3>2, <3>4 DEF Stage
    <3>8. Fine(t)'
      BY <2>6, <3>3, <3>7, DullFine
    <3>9. Mild(A)
      <4>1. Serves
        BY <2>1, ServesStill
      <4>2. \A y \in Session : Recovers(y) /\ Begins(y, A)
        BY <1>0, <2>6, <3>4, <3>5, KnownGood DEF Recovers, Begins, Stage
      <4>3. /\ flight'.sync.stage # "idle" => flight'.sync.of # None
            /\ flight'.sync.answer = "retired" => InSandbox(flight.sync.of)'
        BY <1>0, <2>1, <3>4 DEF World, Flights, InSandbox, Row
      <4> QED  BY <3>4, <3>5, <4>1, <4>2, <4>3 DEF Mild, Serves, SyncGoes
    <3>10. Rows' /\ Flights'
      BY <3>9, MildFlights
    <3>11. Allowed(disk.stored)' /\ Allowed(auth.session)'
      <4> PICK y : y = disk.stored
        OBVIOUS
      <4>1. Allowed(y)'
        BY <1>0, <3>9, AllowedStays, KnownGood DEF World, DiskGood
      <4>2. Allowed(x)'
        BY <2>2, <3>4, <3>5 DEF Allowed, Stage
      <4> QED  BY <2>1, <3>6, <4>1, <4>2 DEF Allowed, Stage, FoundLate
    <3>12. Gentle(A)
      <4>1. disk'.stored \in A \cup {disk.stored, None} /\ auth'.session \in A \cup {auth.session, None}
        BY <2>1, <3>6
      <4> HIDE DEF A
      <4> QED  BY <3>9, <4>1 DEF Mild, Begins, LateGrows, Gentle
    <3>13. DoneAlone(t) /\ Kept(t) /\ Seen(r.mine, t) /\ Seen(r.next, t)
      BY <2>6, <3>2, <3>4, <3>6 DEF DoneAlone, Stage, Kept, Seen
    <3> QED  BY <2>3, <2>6, <3>8, <3>10, <3>11, <3>12, <3>13, OthersFine DEF SStep, World
  <2>7. CASE /\ InSandbox(x) /\ Goto(t, w) /\ auth' = Exposed(auth, None, FALSE)
             /\ flight' = Entered(x, "started", q.target)
             /\ UNCHANGED <<barrier, current>>
    <3>1. Record(w, "recovering", x, None, q.then)
      BY <1>0, RecordOf, Zenon
    <3>2. w.pc = "recovering" /\ w.mine = x /\ w.next = None
      BY <3>1 DEF Record
    <3>3. StageSet(flight', x, "started")
      BY <2>2, <2>7, StagesSet, Zenon
    <3>4. Mild(A)
      BY <1>0, <2>1, <2>2, <2>7, <3>3, StageMild
    <3>5. InSandbox(w.mine)' /\ flight'.recovery[w.mine].stage # "done"
      BY <2>1, <2>2, <2>7, <3>2, <3>3 DEF StageSet, InSandbox, Row
    <3>6. Fine(t)'
      BY <1>4, <2>7, <3>2, <3>5, RecovererFine
    <3>7. auth'.session = None /\ auth'.switching = auth.switching
      BY <1>a, <2>7, <1>b DEF Keeps
    <3>8. /\ Kept(t) /\ Seen(w.mine, t) /\ Seen(w.next, t)
          /\ Installs(t, auth'.session, auth.session)
      BY <2>7, <3>2, <3>7 DEF Kept, Seen, Installs
    <3> QED  BY <2>3, <2>7, <3>4, <3>6, <3>8, MildGoes
  <2> QED  BY <2>1, <2>4, <2>5, <2>6, <2>7
<1> QED
  BY <1>1, <1>2, <1>3, <1>4

-----------------------------------------------------------------------------
(***************************************************************************)
(* persistSession, and what runs under local access.                       *)
(***************************************************************************)
LEMMA PersistFine ==
    ASSUME RInv, SInv, LateGrows, NEW t \in Task, PersistWrite(t) \/ PersistExpose(t)
    PROVE  SStep
<1> DEFINE q == tasks[t]
<1> PICK s, x : s = q.mine /\ x = SyncOf(t)
  OBVIOUS
<1>0. /\ TaskShape(q) /\ Fine(t) /\ World /\ s \in 0 .. server.issued /\ x \in 0 .. server.issued
      /\ q.pc # "idle" /\ s # None /\ t \in Changer => Stage(s) # "done"
      /\ \A y \in 0 .. server.issued : y # None => y \in Session
      /\ t \in Changer /\ q.pc # "idle" => barrier.transition = t
      /\ x \in {q.mine, q.next}
  <2>1. TaskShape(q) /\ Fine(t) /\ World
    BY TaskRecord DEF SInv
  <2>2. t \in Changer /\ q.pc # "idle" => barrier.transition = t
    BY TaskIs DEF OnItsWay
  <2>3. x \in {q.mine, q.next}
    BY DEF SyncOf
  <2> QED  BY <2>1, <2>2, <2>3, KnownGood DEF Fine, Unfinished
<1>a. /\ \A y, z : Keeps(Exposed(auth, y, z), auth.switching)
      /\ Keeps(Entering(t, x), auth.switching)
  <2>1. \A y, z : Keeps(Exposed(auth, y, z), auth.switching)
    BY AuthKeeps, AuthFields DEF RInv
  <2> PICK a : a = Exposed(auth, x, FALSE)
    OBVIOUS
  <2>2. \A y : Keeps([a EXCEPT !.locked = y], auth.switching)
    BY <2>1, AuthField
  <2> QED  BY <2>1, <2>2 DEF Entering
<1>b. /\ \A y, z : Exposed(auth, y, z).session = y
      /\ Entering(t, x).session = x
  BY DEF RInv, BInv, Shapes, AuthShape, Exposed, Entering
<1>1. CASE PersistWrite(t)
  <2> PICK r : r = [q EXCEPT !.pc = "written"]
    OBVIOUS
  <2>1. /\ Persists(t) /\ UNCHANGED <<flight, server>> /\ Calm
        /\ \/ Ends(t, auth) /\ disk' = disk
           \/ /\ Wanted(t, x) /\ Goto(t, r) /\ disk' = Holding(disk, x)
              /\ UNCHANGED <<auth, barrier>> /\ current' = current \cup {t}
           \/ /\ Wanted(t, x) /\ Ends(t, Exposed(auth, x, TRUE)) /\ disk' = disk
    BY <1>1, Zenon DEF PersistWrite, Calm
  <2>2. \/ q.pc = "persisting" /\ t \in {"login", "profile"}
        \/ q.pc = "issued" /\ t \in {"switchContext", "upgrade"}
    BY <1>0, <2>1 DEF Persists, Fine, OfItsKind
  <2>3. Wanted(t, x) => /\ x # None /\ Stage(x) # "done" /\ Sound(x)
                        /\ t \in Changer \/ ~InSandbox(x)
    <3>1. CASE t = "profile"
      <4>1. x = s /\ x # None /\ ~InSandbox(x)
        BY <1>0, <2>1, <3>1 DEF Fine, OfItsKind, Persists, SyncOf
      <4>2. Wanted(t, x) => auth.session = x /\ flight.ending[x] \in {"none", "done"}
        BY <3>1 DEF Wanted, Settled, Ending
      <4> QED  BY <1>0, <4>1, <4>2 DEF World, Allowed, Sound
    <3>2. CASE t # "profile"
      <4>1. Born(t, q)
        BY <2>2, <3>2 DEF Born
      <4>2. /\ Own(t, q.next) /\ Stage(q.next) # "done" /\ flight.ending[q.next] = "none"
        BY <1>0, <4>1 DEF Fine, Untold
      <4>3. x = q.next /\ x # None
        BY <4>2 DEF Own, SyncOf
      <4>4. t = "login" => ~InSandbox(x)
        BY <1>0, <2>1, <4>3 DEF Fine, OfItsKind, Persists
      <4>5. t \in Changer \/ ~InSandbox(x)
        BY <2>2, <3>2, <4>4 DEF Changer
      <4> QED  BY <4>2, <4>3, <4>5 DEF Sound
    <3> QED  BY <3>1, <3>2
  <2>4. Wanted(t, x) => Allowed(x)
    BY <2>3 DEF Allowed, Sound
  <2>5. CASE Ends(t, auth) /\ disk' = disk
    BY <2>1, <2>5, EndsAsItIs
  <2>6. CASE Wanted(t, x) /\ Ends(t, Exposed(auth, x, TRUE)) /\ disk' = disk
    <3> PICK a : a = Exposed(auth, x, TRUE)
      OBVIOUS
    <3>1. Ends(t, a) /\ Keeps(a, auth.switching) /\ Installs(t, a.session, auth.session)
      BY <1>0, <1>a, <1>b, <2>4, <2>6 DEF Installs
    <3>2. Installs(t, disk'.stored, disk.stored) /\ StoresAlone(t)
      BY <2>6, StoredStays
    <3> QED  BY <2>1, <3>1, <3>2, CalmEnds
  <2>7. CASE /\ Wanted(t, x) /\ Goto(t, r) /\ disk' = Holding(disk, x)
             /\ UNCHANGED <<auth, barrier>> /\ current' = current \cup {t}
    <3>1. Plain(r, "written", q)
      BY <1>0, RecordOf, Zenon DEF Plain
    <3>2. r.pc = "written" /\ r.mine = s /\ r.next = q.next /\ tasks'[t] = r
      BY <2>7, <3>1, TaskAt DEF Plain, Record
    <3>3. disk'.stored = x
      BY <2>7, StoredSet
    <3>4. SyncOf(t)' = x
      BY <3>2 DEF SyncOf
    <3>5. InSandbox(x)' <=> InSandbox(x)
      BY <2>1 DEF InSandbox, Row
    <3>6. StoresAlone(t)
      BY <1>0, <2>1, <2>3, <2>7, <3>3, <3>5 DEF StoresAlone, Persists
    <3>7. Wrote(t)'
      <4>1. Stage(x)' # "done" /\ Sound(x)'
        BY <2>1, <2>3, <2>7 DEF Stage, Sound, FoundLate, LateGrows
      <4> PICK y : y = x
        OBVIOUS
      <4> QED  BY <2>3, <2>7, <3>2, <3>4, <3>5, <4>1
               DEF Wrote, Stage, Sound, FoundLate, InSandbox, Row
    <3>8. Untold(t)' /\ Quiet(t)' /\ Joined(t)' /\ Noticed(t)'
      BY <2>2, <3>2 DEF Untold, Quiet, Joined, Noticed, Born, Settling, Underway
    <3>9. Unfinished(t)'
      <4>1. q.pc # "idle"
        BY <2>1 DEF Persists
      <4> QED  BY <1>0, <2>1, <2>2, <3>2, <4>1 DEF Unfinished, Stage
    <3>10. OfItsKind(t)'
      <4>1. q.pc # "idle"
        BY <2>1 DEF Persists
      <4> QED  BY <1>0, <2>1, <2>2, <3>2, <4>1
               DEF Fine, OfItsKind, Recoverer, Polling, Underway, Recovering, InSandbox, Row
    <3>11. Fine(t)'
      BY <3>7, <3>8, <3>9, <3>10 DEF Fine
    <3>12. /\ Kept(t) /\ Seen(r.mine, t) /\ Seen(r.next, t)
           /\ Installs(t, disk'.stored, disk.stored) /\ Installs(t, auth'.session, auth.session)
      BY <1>0, <2>4, <2>7, <3>2, <3>3 DEF Kept, Seen, Installs
    <3> QED  BY <2>1, <2>7, <3>6, <3>11, <3>12, CalmGoes
  <2> QED  BY <2>1, <2>5, <2>6, <2>7
<1>2. CASE PersistExpose(t)
  <2> PICK r : r = Syncing(q, "entered")
    OBVIOUS
  <2>1. /\ q.pc = "written" /\ UNCHANGED <<flight, server>> /\ Calm
        /\ \/ Ends(t, auth) /\ disk' = disk
           \/ /\ StillValid(t, x) /\ disk' = Revalidated(t, Prepared(disk, x), x)
              /\ \/ /\ t \in {"switchContext", "upgrade"} /\ auth' = Entering(t, x) /\ Goto(t, r)
                    /\ UNCHANGED <<barrier, current>>
                 \/ Ends(t, Entering(t, x))
           \/ StillValid(t, x) /\ Ends(t, Exposed(auth, x, TRUE)) /\ disk' = disk
    BY <1>2, Zenon DEF PersistExpose, Calm
  <2>2. disk'.stored \in {disk.stored, None}
    <3>1. Revalidated(t, Prepared(disk, x), x).stored = disk.stored
      BY StoredSet, Zenon
    <3> QED  BY <2>1, <3>1
  <2>3. x # None /\ Stage(x) # "done" /\ (StillValid(t, x) => Allowed(x))
    BY <1>0, <2>1 DEF Fine, Wrote, Allowed, Sound, StillValid
  <2>4. Installs(t, disk'.stored, disk.stored) /\ StoresAlone(t)
    BY <2>2, StoredStays
  <2>5. CASE Ends(t, auth) /\ disk' = disk
    BY <2>1, <2>5, EndsAsItIs
  <2>6. ASSUME NEW a \in {Entering(t, x), Exposed(auth, x, TRUE)}, StillValid(t, x), Ends(t, a)
        PROVE  SStep
    <3>1. Keeps(a, auth.switching) /\ Installs(t, a.session, auth.session)
      BY <1>0, <1>a, <1>b, <2>3, <2>6 DEF Installs
    <3> QED  BY <2>1, <2>4, <2>6, <3>1, CalmEnds
  <2>7. CASE /\ StillValid(t, x)
             /\ t \in {"switchContext", "upgrade"} /\ auth' = Entering(t, x) /\ Goto(t, r)
             /\ UNCHANGED <<barrier, current>>
    <3>1. Record(r, "sync", s, q.next, "entered")
      BY <1>0, RecordOf, Zenon
    <3>2. /\ r.pc = "sync" /\ r.mine = s /\ r.next = q.next /\ r.then = "entered" /\ tasks'[t] = r
          /\ t \in Changer
      BY <2>7, <3>1, TaskAt DEF Record, Changer
    <3>3. SyncOf(t)' = x
      BY <3>2 DEF SyncOf
    <3>4. Joined(t)'
      BY <2>3, <3>2, <3>3 DEF Joined
    <3>5. Untold(t)' /\ Quiet(t)' /\ Wrote(t)' /\ Noticed(t)'
      BY <2>7, <3>2 DEF Untold, Quiet, Wrote, Noticed, Born, Settling, Underway
    <3>6. Unfinished(t)'
      BY <1>0, <2>1, <3>2 DEF Unfinished, Stage
    <3>7. OfItsKind(t)'
      BY <2>7, <3>2 DEF OfItsKind, Recoverer, Polling, Underway, Recovering
    <3>8. Fine(t)'
      BY <3>4, <3>5, <3>6, <3>7 DEF Fine
    <3>9. auth'.session = x /\ auth'.switching = auth.switching
      BY <1>a, <1>b, <2>7 DEF Keeps
    <3>10. /\ Kept(t) /\ Seen(r.mine, t) /\ Seen(r.next, t)
           /\ Installs(t, auth'.session, auth.session)
      BY <1>0, <2>3, <2>7, <3>2, <3>9 DEF Kept, Seen, Installs
    <3> QED  BY <2>1, <2>4, <2>7, <3>8, <3>10, CalmGoes
  <2> QED  BY <2>1, <2>5, <2>6, <2>7
<1> QED
  BY <1>1, <1>2

(* A session just issued by a login is one of the account or of Production. *)
LEMMA LoginServes ==
    ASSUME RInv, SInv, Login
    PROVE  Serves /\ \A n : n = server.issued + 1 => ~InSandbox(n)'
<1> PICK n : n = server.issued + 1
  OBVIOUS
<1> PICK mode \in {"account", "production"} :
        server' = [server EXCEPT !.issued = n, !.rows[n] = NewRow(mode)]
  BY DEF Login, NextSession
<1>0. /\ server.issued \in Nat /\ ServerShape(server) /\ server.issued < MaxSession
      /\ \A x \in 0 .. server.issued : x # n
  BY KnownGood DEF RInv, Known, Login
<1>1. n \in Session /\ n \in Nat /\ server.issued <= n
  BY <1>0, DeviceAssumption DEF Session
<1>2. RowShape(NewRow(mode)) /\ NewRow(mode).state = "live" /\ NewRow(mode).mode # "sandbox"
  BY DEF RowShape, NewRow
<1> PICK new : new = NewRow(mode)
  OBVIOUS
<1>3. /\ server'.issued = n /\ server'.rows = [server.rows EXCEPT ![n] = new]
      /\ server.rows = [s \in Session |-> server.rows[s]]
  BY <1>0 DEF ServerShape, SInv, World, Rows
<1>4. /\ server'.rows = [s \in Session |-> server'.rows[s]]
      /\ server'.rows[n] = new
      /\ \A s \in Session \ {n} : server'.rows[s] = server.rows[s]
  BY <1>1, <1>3
<1>5. Rows'
  BY <1>2, <1>4 DEF SInv, World, Rows, Row, RowShape, InSandbox
<1>6. Modes
  <2> SUFFICES ASSUME NEW x \in 0 .. server.issued PROVE InSandbox(x)' <=> InSandbox(x)
    BY DEF Modes
  <2>1. x # n /\ (x # None => x \in Session)
    BY <1>0, KnownGood
  <2> QED  BY <1>4, <2>1 DEF InSandbox, Row
<1>7. ~InSandbox(n)'
  BY <1>2, <1>4 DEF InSandbox, Row
<1> QED
  BY <1>0, <1>1, <1>3, <1>5, <1>6, <1>7 DEF Serves

LEMMA LoginFine ==
    ASSUME RInv, SInv, LateGrows, Login
    PROVE  SStep
<1> DEFINE t == "login"
<1> PICK n, r : n = server.issued + 1 /\ r = [Idle EXCEPT !.pc = "persisting", !.next = n]
  OBVIOUS
<1>0. t \in Task \ Changer
  BY DEF Task, Changer
<1>1. /\ Goto(t, r) /\ server.issued < MaxSession
      /\ UNCHANGED <<auth, barrier, current, flight, disk>>
  BY DEF Login, NextSession
<1>2. Record(r, "persisting", 0, n, "none")
  BY IdleOf, Zenon
<1>3. /\ r.pc = "persisting" /\ r.mine = None /\ r.next = n /\ tasks'[t] = r
      /\ n # None /\ None \in 0 .. server.issued
  BY <1>0, <1>1, <1>2, TaskAt, KnownGood DEF Record, None
<1>4. Serves /\ ~InSandbox(n)'
  BY LoginServes
<1>5. Untold(t)'
  BY <1>0, <1>1, <1>3, NewUntold DEF Stage
<1>6. Quiet(t)' /\ Joined(t)' /\ Wrote(t)' /\ Noticed(t)' /\ Unfinished(t)'
  BY <1>0, <1>3 DEF Quiet, Joined, Wrote, Noticed, Unfinished, Settling, Underway
<1>7. OfItsKind(t)'
  BY <1>0, <1>3, <1>4 DEF OfItsKind, Recoverer, Polling, Underway, Recovering, InSandbox, Row
<1>8. Fine(t)'
  BY <1>5, <1>6, <1>7 DEF Fine
<1>9. Mild({tasks[t].mine, tasks[t].next})
  <2>1. /\ flight' = flight /\ flight.ending = flight.ending /\ flight.sync = flight.sync
        /\ \A x \in Session : flight.recovery[x].stage = Stage(x)
    BY <1>1 DEF Stage
  <2> QED  BY <1>0, <1>4, <2>1, PostMild
<1>10. /\ Kept(t) /\ Seen(r.mine, t) /\ Seen(r.next, t) /\ StoresAlone(t)
       /\ Installs(t, disk'.stored, disk.stored) /\ Installs(t, auth'.session, auth.session)
  BY <1>1, <1>3 DEF Kept, Seen, StoresAlone, Installs
<1> QED
  BY <1>0, <1>1, <1>8, <1>9, <1>10, MildGoes

(* A task that asks the server under local access goes on. *)
LEMMA PlainFine ==
    ASSUME RInv, SInv, NEW t \in {"profile", "write", "revalidate"}, NEW r, Goto(t, r),
           r.pc \in {"opened", "writing", "asking", "waiting", "refused"},
           Seen(r.mine, t), Seen(r.next, t),
           t = "profile" => r.mine # None /\ r.next = None /\ ~InSandbox(r.mine)',
           Mild({tasks[t].mine, tasks[t].next}), Kept(t), disk'.stored = disk.stored,
           auth'.session = auth.session
    PROVE  SStep
<1>0. t \in Task \ Changer /\ t # "login" /\ t # "hydrate"
  BY DEF Task, Changer
<1>1. Fine(t)'
  BY <1>0, DullFine DEF Dull
<1>2. /\ StoresAlone(t) /\ Installs(t, disk'.stored, disk.stored)
      /\ Installs(t, auth'.session, auth.session)
  BY DEF StoresAlone, Installs
<1> QED
  BY <1>0, <1>1, <1>2, MildGoes

(* A request under local access that is refused. *)
LEMMA AskedFine ==
    ASSUME RInv, SInv, LateGrows, NEW t \in {"profile", "revalidate"}, NEW answer,
           Reported(tasks[t].mine, answer, flight, disk), UNCHANGED <<barrier, server>>,
           tasks[t].pc = "asking",
           Goto(t, [tasks[t] EXCEPT !.pc = "refused"])
    PROVE  SStep
<1> DEFINE q == tasks[t]
<1> PICK s, r : s = q.mine /\ r = [q EXCEPT !.pc = "refused"]
  OBVIOUS
<1>0. t \in Task /\ FlightShape(flight) /\ DiskShape(disk) /\ Fine(t)
  BY KnownGood DEF FlightGood, DiskGood, SInv, Task
<1>1. Plain(r, "refused", q)
  BY <1>0, TaskRecord, RecordOf, Zenon DEF Plain
<1>2. r.pc = "refused" /\ r.mine = s /\ r.next = q.next
  BY <1>1 DEF Plain, Record
<1>3. ReportsOn(s, flight, disk)
  BY <1>0, ReportedOn
<1>4. Mild({q.mine, q.next})
  <2>1. \A x \in Session : flight.recovery[x].stage = Stage(x)
    BY DEF Stage
  <2>2. Serves
    BY ServesStill
  <2> QED  BY <1>0, <1>3, <2>1, <2>2, PostMild
<1>5. Kept(t) /\ Seen(r.mine, t) /\ Seen(r.next, t)
  BY <1>2, <1>3 DEF ReportsOn, Kept, Seen
<1>6. t = "profile" => r.mine # None /\ r.next = None /\ ~InSandbox(r.mine)'
  BY <1>0, <1>2 DEF Fine, OfItsKind, InSandbox, Row
<1>7. disk'.stored = disk.stored /\ auth'.session = auth.session
  BY <1>3 DEF ReportsOn
<1> QED
  BY <1>2, <1>4, <1>5, <1>6, <1>7, PlainFine

LEMMA AccessFine ==
    ASSUME RInv, SInv, LateGrows, NEW t \in Task,
           ProfileBegin \/ ProfileAnswered \/ Open(t) \/ BeginLocalMutation(t) \/ WriteEnds
    PROVE  SStep
<1>0. /\ {"profile", "write", "revalidate"} \subseteq Task \ Changer
      /\ \A u \in Task : TaskShape(tasks[u]) /\ Fine(u)
  BY TaskNames, TaskRecord DEF SInv
<1>a. ASSUME NEW u, NEW lease, barrier' \in {barrier, Leased(lease)}, UNCHANGED <<auth, current>>
      PROVE  Kept(u)
  BY <1>a DEF Kept, Leased, RInv, BInv, Shapes, BarrierShape
<1>b. ASSUME Calm, NEW A
      PROVE  Mild(A)
  BY <1>b, CalmMild
<1>1. CASE ProfileBegin
  <2> PICK x, r : x = auth.session /\ r = [Idle EXCEPT !.pc = "asking", !.mine = x]
    OBVIOUS
  <2>1. /\ Goto("profile", r) /\ barrier' = Leased("profile") /\ x # None /\ ~InSandbox(x)
        /\ UNCHANGED <<auth, current, flight, disk, server>>
    BY <1>1 DEF ProfileBegin
  <2>2. Record(r, "asking", x, 0, "none")
    BY IdleOf, Zenon
  <2>3. r.pc = "asking" /\ r.mine = x /\ r.next = None
    BY <2>2 DEF Record, None
  <2>4. Mild({tasks["profile"].mine, tasks["profile"].next})
    BY <1>b, <2>1 DEF Calm
  <2>5. Kept("profile") /\ Seen(r.mine, "profile") /\ Seen(r.next, "profile")
    BY <1>a, <2>1, <2>3 DEF Seen
  <2>6. r.mine # None /\ r.next = None /\ ~InSandbox(r.mine)'
    BY <2>1, <2>3 DEF InSandbox, Row
  <2> QED  BY <2>1, <2>3, <2>4, <2>5, <2>6, PlainFine
<1>2. CASE ProfileAnswered
  <2> DEFINE u == "profile"
             q == tasks[u]
  <2> PICK s, r : s = q.mine /\ r = [q EXCEPT !.pc = "persisting"]
    OBVIOUS
  <2>1. /\ server' = server /\ q.pc = "asking"
        /\ \/ Goto(u, r) /\ UNCHANGED <<auth, barrier, current, flight, disk>>
           \/ Ends(u, auth) /\ UNCHANGED <<flight, disk>>
           \/ /\ Reported(q.mine, Answer(q.mine), flight, disk) /\ barrier' = barrier
              /\ Goto(u, [q EXCEPT !.pc = "refused"])
    BY <1>2, Zenon DEF ProfileAnswered
  <2>2. CASE Goto(u, r) /\ UNCHANGED <<auth, barrier, current, flight, disk>>
    <3>1. Plain(r, "persisting", q)
      BY <1>0, RecordOf, Zenon DEF Plain
    <3>2. r.pc = "persisting" /\ r.mine = s /\ r.next = q.next /\ tasks'[u] = r
      BY <1>0, <2>2, <3>1, TaskAt DEF Plain, Record
    <3>3. q.mine # None /\ q.next = None /\ ~InSandbox(s)'
      BY <1>0, <2>1 DEF Fine, OfItsKind, InSandbox, Row
    <3>4. Fine(u)'
      BY <1>0, <3>2, <3>3
         DEF Fine, Untold, Quiet, Joined, Wrote, Noticed, Unfinished, OfItsKind, Born, Settling,
             Recoverer, Polling, Underway, Recovering
    <3>5. Kept(u) /\ Calm
      BY <1>a, <2>1, <2>2 DEF Calm
    <3>6. /\ Seen(r.mine, u) /\ Seen(r.next, u) /\ StoresAlone(u)
          /\ Installs(u, disk'.stored, disk.stored) /\ Installs(u, auth'.session, auth.session)
      BY <2>2, <3>2 DEF Seen, StoresAlone, Installs
    <3> QED  BY <1>0, <2>2, <3>4, <3>5, <3>6, CalmGoes
  <2>3. CASE Ends(u, auth) /\ UNCHANGED <<flight, disk>>
    BY <1>0, <2>1, <2>3, EndsAsItIs DEF Calm
  <2>4. CASE /\ Reported(q.mine, Answer(q.mine), flight, disk) /\ barrier' = barrier
             /\ Goto(u, [q EXCEPT !.pc = "refused"])
    BY <2>1, <2>4, AskedFine
  <2> QED  BY <2>1, <2>2, <2>3, <2>4
<1>3. CASE Open(t)
  <2> PICK x, r : x = auth.session /\ r = [Idle EXCEPT !.pc = "opened", !.mine = x]
    OBVIOUS
  <2>1. /\ Goto(t, r) /\ t \in {"write", "revalidate"}
        /\ UNCHANGED <<auth, barrier, current, flight, disk, server>>
    BY <1>3 DEF Open
  <2>2. Record(r, "opened", x, 0, "none")
    BY IdleOf, Zenon
  <2>3. r.pc = "opened" /\ r.mine = x /\ r.next = None
    BY <2>2 DEF Record, None
  <2>4. Mild({tasks[t].mine, tasks[t].next})
    BY <1>b, <2>1 DEF Calm
  <2>5. Kept(t) /\ Seen(r.mine, t) /\ Seen(r.next, t)
    BY <1>a, <2>1, <2>3 DEF Seen
  <2> QED  BY <2>1, <2>3, <2>4, <2>5, PlainFine
<1>4. CASE BeginLocalMutation(t)
  <2> DEFINE q == tasks[t]
  <2> PICK pc \in {"writing", "asking"} :
        \/ Ends(t, auth)
        \/ /\ Goto(t, [q EXCEPT !.pc = pc]) /\ barrier' = Leased(t)
           /\ UNCHANGED <<auth, current>>
    BY <1>4 DEF BeginLocalMutation
  <2> PICK r : r = [q EXCEPT !.pc = pc]
    OBVIOUS
  <2>1. UNCHANGED <<flight, disk, server>> /\ q.pc = "opened" /\ Calm
    BY <1>4 DEF BeginLocalMutation, Calm
  <2>2. CASE Goto(t, r) /\ barrier' = Leased(t) /\ UNCHANGED <<auth, current>>
    <3>1. Plain(r, pc, q)
      BY <1>0, RecordOf, Zenon DEF Plain
    <3>2. r.pc = pc /\ r.mine = q.mine /\ r.next = q.next /\ tasks'[t] = r
      BY <2>2, <3>1, TaskAt DEF Plain, Record
    <3>3. Fine(t)'
      <4>1. Dull(t, r)
        BY <3>2 DEF Dull
      <4>2. Fine(t) /\ q.mine \in 0 .. server.issued
        BY <1>0, KnownGood
      <4>3. t = "login" => r.mine = None /\ r.next # None /\ ~InSandbox(r.next)'
        BY <2>1, <3>2, <4>2 DEF Fine, OfItsKind, InSandbox, Row
      <4>4. t = "profile" => r.mine # None /\ r.next = None /\ ~InSandbox(r.mine)'
        BY <2>1, <3>2, <4>2 DEF Fine, OfItsKind, InSandbox, Row
      <4>5. t = "hydrate" => t \in barrier'.leases /\ (t \in current' => Sound(r.mine)')
        <5>1. t = "hydrate" => t \in barrier'.leases
          BY <2>2 DEF Leased, RInv, BInv, Shapes, BarrierShape
        <5>2. t = "hydrate" => Noticed(t)
          BY <4>2 DEF Fine
        <5> PICK y : y = q.mine
          OBVIOUS
        <5>3. Sound(y) => Sound(y)'
          BY <2>1 DEF Sound, FoundLate, Calm, LateGrows
        <5>4. r.mine = y
          BY <3>2
        <5>5. t = "hydrate" /\ t \in current => Sound(y)
          BY <2>1, <5>2 DEF Noticed
        <5> QED  BY <2>2, <5>1, <5>3, <5>4, <5>5 DEF Sound, FoundLate
      <4>6. t \in Changer \cup {"hydrate"} /\ r.mine # None
               => flight'.recovery[r.mine].stage # "done"
        BY <2>1, <3>2, <4>2 DEF Fine, Unfinished, Stage
      <4> QED  BY <2>2, <4>1, <4>3, <4>4, <4>5, <4>6, DullFine
    <3>4. Kept(t)
      BY <1>a, <2>2
    <3>5. /\ Seen(r.mine, t) /\ Seen(r.next, t) /\ StoresAlone(t)
          /\ Installs(t, disk'.stored, disk.stored) /\ Installs(t, auth'.session, auth.session)
      BY <2>1, <2>2, <3>2 DEF Seen, StoresAlone, Installs
    <3> QED  BY <2>1, <2>2, <3>3, <3>4, <3>5, CalmGoes
  <2> QED  BY <2>1, <2>2, EndsAsItIs
<1>5. CASE WriteEnds
  <2>1. /\ Ends("write", auth) /\ Calm
        /\ disk' = [disk EXCEPT !.outbox[Row(tasks["write"].mine).mode] = @ \cup {"ready"}]
    BY <1>5 DEF WriteEnds, Calm
  <2>2. disk'.stored = disk.stored
    BY <2>1, KnownGood DEF DiskGood, DiskShape
  <2> QED  BY <1>0, <2>1, <2>2, EndsAsItIs
<1> QED
  BY <1>1, <1>2, <1>3, <1>4, <1>5

(* The release of quarantined operations starts a sync: two tasks move. *)
LEMMA RevalidateFine ==
    ASSUME RInv, SInv, LateGrows, RevalidateAnswered \/ RevalidateEnds
    PROVE  SStep
<1> DEFINE t == "revalidate"
           q == tasks[t]
<1>0. /\ {t, "sync"} \subseteq Task \ Changer
      /\ TaskShape(q) /\ World /\ \A u \in Task : Fine(u)
      /\ Business(auth.session) => auth.session # None
  BY TaskNames, TaskRecord DEF SInv, Business
<1>1. CASE RevalidateEnds
  BY <1>0, <1>1, EndsAsItIs DEF RevalidateEnds, Calm
<1>2. CASE RevalidateAnswered
  <2> PICK r, sync : /\ r = [q EXCEPT !.pc = "waiting"]
                     /\ sync = Syncing([Idle EXCEPT !.mine = auth.session], "synced")
    OBVIOUS
  <2>1. /\ server' = server /\ q.pc = "asking"
        /\ \/ Ends(t, auth) /\ UNCHANGED <<flight, disk>>
           \/ /\ Reported(q.mine, Answer(q.mine), flight, disk) /\ barrier' = barrier
              /\ Goto(t, [q EXCEPT !.pc = "refused"])
           \/ /\ disk' = Released(disk, q.mine) /\ UNCHANGED <<auth, current, flight>>
              /\ \/ Goto(t, r) /\ barrier' = barrier
                 \/ /\ tasks' = [tasks EXCEPT ![t].pc = "waiting", !["sync"] = sync]
                    /\ Business(auth.session) /\ barrier' = Leased("sync")
                    /\ tasks["sync"].pc = "idle"
    BY <1>2 DEF RevalidateAnswered
  <2>2. Plain(r, "waiting", q) /\ Record(sync, "sync", auth.session, 0, "synced")
    BY <1>0, RecordOf, IdleOf, Zenon DEF Plain
  <2>3. /\ r.pc = "waiting" /\ r.mine = q.mine /\ r.next = q.next
        /\ sync.pc = "sync" /\ sync.then = "synced" /\ sync.mine = auth.session
        /\ sync.next = None
    BY <2>2 DEF Plain, Record, None
  <2>4. Released(disk, q.mine).stored = disk.stored
    BY StoredSet, Zenon
  <2>5. CASE Ends(t, auth) /\ UNCHANGED <<flight, disk>>
    BY <1>0, <2>1, <2>5, EndsAsItIs DEF Calm
  <2>6. CASE /\ Reported(q.mine, Answer(q.mine), flight, disk) /\ barrier' = barrier
             /\ Goto(t, [q EXCEPT !.pc = "refused"])
    BY <2>1, <2>6, AskedFine
  <2>7. CASE /\ disk' = Released(disk, q.mine) /\ UNCHANGED <<auth, current, flight>>
             /\ Goto(t, r) /\ barrier' = barrier
    <3>1. Mild({tasks[t].mine, tasks[t].next})
      BY <2>1, <2>7, CalmMild DEF Calm
    <3>2. Kept(t) /\ Seen(r.mine, t) /\ Seen(r.next, t)
      BY <2>3, <2>7 DEF Kept, Seen
    <3> QED  BY <2>3, <2>4, <2>7, <3>1, <3>2, PlainFine
  <2>8. CASE /\ disk' = Released(disk, q.mine) /\ UNCHANGED <<auth, current, flight>>
             /\ tasks' = [tasks EXCEPT ![t].pc = "waiting", !["sync"] = sync]
             /\ Business(auth.session) /\ barrier' = Leased("sync")
             /\ tasks["sync"].pc = "idle"
    <3>1. /\ tasks'[t] = r /\ tasks'["sync"] = sync
          /\ \A u \in Task \ {t, "sync"} : tasks'[u] = tasks[u]
      BY <1>0, <2>8 DEF RInv, BInv, Shapes
    <3>2. Mild({})
      BY <2>1, <2>8, CalmMild DEF Calm
    <3>3. Gentle({})
      <4>1. disk'.stored = disk.stored /\ auth'.session = auth.session
        BY <2>4, <2>8
      <4> QED  BY <3>2, <4>1, MildGentle
    <3>4. \A w \in Task : Seen(tasks'[w].mine, w) /\ Seen(tasks'[w].next, w)
      <4>1. \A w \in Task : /\ tasks'[w].mine \in {tasks[w].mine, auth.session}
                            /\ tasks'[w].next \in {tasks[w].next, None}
        BY <2>3, <3>1
      <4> QED  BY <4>1 DEF Seen
    <3>5. ASSUME NEW u \in Task \ {t, "sync"} PROVE Fine(u)'
      <4>1. Leaves(u, {})
        <5>1. \A x \in Session : ~(Stage(x) # "done" /\ Stage(x)' = "done")
          BY <2>8 DEF Stage
        <5>2. u \in barrier.leases => u \in barrier'.leases
          BY <2>8 DEF Leased, RInv, BInv, Shapes, BarrierShape
        <5> QED  BY <2>4, <2>8, <3>1, <3>4, <5>1, <5>2 DEF Leaves
      <4> QED  BY <1>0, <3>3, <4>1, FineStays
    <3>6. Fine(t)'
      <4>1. Fine(t) /\ t # "login" /\ t # "hydrate" /\ t # "profile" /\ t \notin Changer
        BY <1>0
      <4> QED  BY <2>3, <3>1, <4>1
               DEF Fine, Untold, Quiet, Joined, Wrote, Noticed, Unfinished, OfItsKind, Born,
                   Settling, Recoverer, Polling, Underway, Recovering
    <3>7. Fine("sync")'
      <4>1. "sync" \in barrier'.leases
        BY <2>8 DEF Leased, RInv, BInv, Shapes, BarrierShape
      <4>2. sync.mine # None
        BY <1>0, <2>3, <2>8
      <4>3. Untold("sync")' /\ Quiet("sync")' /\ Wrote("sync")'
        BY <2>3, <3>1 DEF Untold, Quiet, Wrote, Born, Settling
      <4>4. Joined("sync")'
        BY <2>3, <3>1, <4>2 DEF Joined, SyncOf
      <4>5. Noticed("sync")' /\ Unfinished("sync")'
        BY <1>0, <2>3, <3>1 DEF Noticed, Unfinished
      <4>6. OfItsKind("sync")'
        BY <2>3, <3>1, <4>1 DEF OfItsKind, Recoverer, Polling, Underway, Recovering
      <4> QED  BY <4>3, <4>4, <4>5, <4>6 DEF Fine
    <3>8. World'
      <4>1. /\ disk'.stored \in 0 .. server.issued /\ Allowed(disk'.stored)
            /\ auth'.session \in 0 .. server.issued /\ Allowed(auth'.session)
        BY <1>0, <2>4, <2>8, KnownGood DEF World, DiskGood, ShownGood
      <4> QED  BY <3>2, <4>1, MildWorld
    <3> QED  BY <3>5, <3>6, <3>7, <3>8 DEF SStep
  <2> QED  BY <2>1, <2>5, <2>6, <2>7, <2>8
<1> QED
  BY <1>1, <1>2

-----------------------------------------------------------------------------
(***************************************************************************)
(* The sync, the end of a session, and what happens elsewhere: no task has *)
(* its turn.                                                               *)
(***************************************************************************)
LEMMA StandStill ==
    ASSUME RInv, SInv, Mild({}), UNCHANGED <<tasks, barrier>>,
           auth'.switching = auth.switching, current' \subseteq current,
           disk'.stored \in {disk.stored, None}, auth'.session \in {auth.session, None}
    PROVE  SStep
<1>1. World'
  <2>1. /\ disk'.stored \in 0 .. server.issued /\ Allowed(disk'.stored)
        /\ auth'.session \in 0 .. server.issued /\ Allowed(auth'.session)
    BY KnownGood DEF SInv, World, DiskGood, ShownGood, Allowed, None
  <2> QED  BY <2>1, MildWorld
<1>2. Gentle({})
  BY MildGentle
<1>3. ASSUME NEW u \in Task PROVE Fine(u)'
  <2>1. Leaves(u, {})
    <3>1. \A x \in Session : ~(Stage(x) # "done" /\ Stage(x)' = "done")
      BY DEF Mild, Recovers
    <3> QED  BY <3>1 DEF Leaves, Seen
  <2> QED  BY <1>2, <2>1, FineStays DEF SInv
<1> QED
  BY <1>1, <1>3 DEF SStep

LEMMA SyncedIs ==
    ASSUME RInv, NEW stage, NEW answer, NEW f, f = Synced(stage, answer)
    PROVE  /\ FlightShape(f) /\ f.recovery = flight.recovery /\ f.ending = flight.ending
           /\ f.sync.of = flight.sync.of /\ f.sync.stage = stage /\ f.sync.answer = answer
BY KnownGood DEF FlightGood, FlightShape, Synced

(* The sync goes on, or is refused. *)
LEMMA SyncMild ==
    ASSUME RInv, SInv, LateGrows, server' = server,
           flight.sync.stage \in {"push", "pull"},
           flight'.sync.of = flight.sync.of,
           flight'.sync.answer = "retired" => InSandbox(flight.sync.of),
           flight'.recovery = flight.recovery,
           flight'.ending = [x \in Session |-> flight'.ending[x]],
           \A x \in Session : flight'.ending[x] # flight.ending[x]
              => flight'.ending[x] = "marking" /\ current' = {} /\ Disowned(x)
    PROVE  Mild({})
<1>1. Serves
  BY ServesStill
<1>2. flight.sync.of \in 0 .. server.issued /\ flight.sync.of # None /\ server.issued \in Nat
  BY KnownGood DEF FlightGood, SInv, World, Flights
<1>3. \A x \in Session : Recovers(x) /\ Begins(x, {})
  BY <1>2 DEF Recovers, Begins, Stage, Disowned
<1> QED
  BY <1>1, <1>2, <1>3 DEF Mild, Serves, SyncGoes, InSandbox, Row

LEMMA SyncGoesFine ==
    ASSUME RInv, SInv, LateGrows, SyncLost \/ SyncRefused \/ SyncPushed \/ SyncPulled
    PROVE  SStep
<1>0. /\ UNCHANGED <<tasks, barrier, server>> /\ flight.sync.stage \in {"push", "pull"}
      /\ flight.ending = [x \in Session |-> flight.ending[x]]
  <2>1. UNCHANGED <<tasks, barrier, server>> /\ flight.sync.stage \in {"push", "pull"}
    BY DEF SyncLost, SyncRefused, SyncPushed, SyncPulled
  <2>2. flight.ending = [x \in Session |-> flight.ending[x]]
    BY DEF SInv, World, Flights
  <2> QED  BY <2>1, <2>2
<1>1. CASE SyncLost \/ SyncPushed \/ SyncPulled
  <2>0. \/ flight' = Synced("failed", "lost") \/ flight' = Synced("pull", "none")
        \/ flight' = Synced("apply", "ok")
    BY <1>1, Zenon DEF SyncLost, SyncPushed, SyncPulled
  <2>1. PICK stage, answer : flight' = Synced(stage, answer) /\ answer # "retired"
    BY <2>0
  <2> PICK f : f = flight'
    OBVIOUS
  <2>2. /\ f.recovery = flight.recovery /\ f.ending = flight.ending
        /\ f.sync.of = flight.sync.of /\ f.sync.answer = answer
    BY <2>1, SyncedIs
  <2>3. Mild({})
    BY <1>0, <2>1, <2>2, SyncMild
  <2>4. disk'.stored = disk.stored /\ auth' = auth /\ current' = current
    BY <1>1, KnownGood DEF SyncLost, SyncPushed, SyncPulled, DiskGood, DiskShape
  <2> QED  BY <1>0, <2>3, <2>4, StandStill
<1>2. CASE SyncRefused
  <2> PICK s, answer, f, d :
         /\ s = flight.sync.of /\ answer = Answer(s) /\ f = Synced("failed", answer)
         /\ d = IF answer = "suspended" THEN Quarantined(disk, s) ELSE disk
    OBVIOUS
  <2>1. Reported(s, answer, f, d)
    BY <1>2 DEF SyncRefused
  <2>2. /\ FlightShape(f) /\ f.recovery = flight.recovery /\ f.ending = flight.ending
        /\ f.sync.of = s /\ f.sync.stage = "failed" /\ f.sync.answer = answer
    BY SyncedIs
  <2>3. DiskShape(d) /\ d.stored = disk.stored
    <3>1. DiskGood(disk) /\ Quarantined(disk, s).stored = disk.stored
      BY KnownGood, StoredSet
    <3>2. DiskShape(Quarantined(disk, s))
      BY <3>1, DiskOps DEF DiskGood
    <3> QED  BY <3>1, <3>2 DEF DiskGood
  <2>4. /\ ReportsOn(s, f, d)
        /\ \A x \in Session : flight'.ending[x] # flight.ending[x] => answer = "unauthorized"
    BY <2>1, <2>2, <2>3, ReportedOn
  <2>5. \A x \in Session : flight'.ending[x] # flight.ending[x]
           => flight'.ending[x] = "marking" /\ current' = {} /\ Disowned(x)
    BY <2>2, <2>4 DEF ReportsOn, Disowned
  <2>6. answer = "retired" => InSandbox(s)
    <3>1. s # None /\ s \in Session
      BY <1>0, KnownGood DEF SInv, World, Flights, FlightGood
    <3> QED  BY <3>1 DEF Answer, SInv, World, Rows
  <2>7. Mild({})
    <3>1. /\ flight'.sync = f.sync /\ flight'.recovery = flight.recovery
          /\ flight'.ending = [x \in Session |-> flight'.ending[x]]
      BY <2>2, <2>4 DEF ReportsOn
    <3> QED  BY <1>0, <2>2, <2>5, <2>6, <3>1, SyncMild
  <2>8. /\ disk'.stored = disk.stored /\ auth'.session = auth.session
        /\ auth'.switching = auth.switching /\ current' \subseteq current
    BY <2>3, <2>4 DEF ReportsOn
  <2> QED  BY <1>0, <2>7, <2>8, StandStill
<1> QED
  BY <1>1, <1>2

(* Everybody who waits for the sync goes on at once. *)
LEMMA SyncEndsFine ==
    ASSUME RInv, SInv, LateGrows, SyncEnds
    PROVE  SStep
<1> DEFINE r(t) == [tasks[t] EXCEPT !.pc = tasks[t].then, !.answer = flight.sync.answer]
<1>1. /\ tasks' = [t \in Task |-> IF tasks[t].pc = "syncing" THEN r(t) ELSE tasks[t]]
      /\ flight' = [flight EXCEPT !.sync = NoSync]
      /\ UNCHANGED <<auth, barrier, current, disk, server>>
  BY DEF SyncEnds
<1>2. /\ flight'.sync = NoSync /\ flight'.ending = flight.ending
      /\ flight'.recovery = flight.recovery
  BY <1>1, KnownGood DEF FlightGood, FlightShape
<1>3. ASSUME NEW t \in Task, tasks[t].pc = "syncing"
      PROVE  Plain(r(t), tasks[t].then, tasks[t]) /\ r(t).answer = flight.sync.answer
  <2>1. TaskShape(tasks[t])
    BY TaskRecord
  <2> QED  BY <2>1, RecordOf, Zenon DEF Plain, TaskShape
<1> HIDE DEF r
<1>4. \A t \in Task : tasks'[t].mine = tasks[t].mine /\ tasks'[t].next = tasks[t].next
  BY <1>1, <1>3 DEF Plain, Record
<1>5. \A x : \A t \in Task : Own(t, x) => Own(t, x)'
  BY <1>1, <1>4 DEF Own
<1>6. World'
  <2>1. Rows'
    BY <1>1 DEF SInv, World, Rows, Row, InSandbox
  <2>2. Flights'
    BY <1>1, <1>2 DEF SInv, World, Flights, NoSync, Stage, InSandbox, Row
  <2>3. Allowed(disk.stored)' /\ Allowed(auth.session)'
    BY <1>1, <1>2 DEF SInv, World, Allowed, Stage, FoundLate, LateGrows
  <2> QED  BY <2>1, <2>2, <2>3 DEF World
<1>7. ASSUME NEW t \in Task PROVE Fine(t)'
  <2> PICK x : x = tasks[t].next
    OBVIOUS
  <2>0. Fine(t) /\ SyncOf(t)' = SyncOf(t) /\ tasks[t].then \in Thens
    BY <1>4, KnownGood DEF SInv, SyncOf
  <2>1. \A y : (Stage(y)' = Stage(y)) /\ (InSandbox(y)' <=> InSandbox(y))
    BY <1>1, <1>2 DEF Stage, InSandbox, Row
  <2>2. \A y : Sound(y) => Sound(y)'
    BY <1>2 DEF Sound, FoundLate, LateGrows
  <2>a. Own(t, x) => Own(t, x)' /\ flight'.sync.of # x
    <3>1. Own(t, x) => Own(t, x)'
      BY <1>5
    <3>2. Own(t, x) => x # None
      BY DEF Own
    <3> QED  BY <1>2, <3>1, <3>2 DEF NoSync
  <2>3. CASE tasks[t].pc # "syncing"
    <3>1. tasks'[t] = tasks[t]
      BY <1>1, <2>3
    <3>2. Untold(t)'
      <4>1. Born(t, tasks[t]) => /\ Own(t, x) /\ Stage(x) # "done" /\ disk.stored # x
                                 /\ flight.ending[x] = "none"
        BY <2>0 DEF Fine, Untold
      <4>2. Born(t, tasks[t]) => /\ Own(t, x)' /\ Stage(x)' # "done" /\ disk'.stored # x
                                 /\ flight'.ending[x] = "none" /\ flight'.sync.of # x
        BY <1>1, <1>2, <2>a, <2>1, <4>1
      <4>3. tasks'[t].next = x
        BY <3>1
      <4> QED  BY <3>1, <4>2, <4>3 DEF Untold, Own, Stage
    <3>3. Quiet(t)'
      <4>1. Settling(t, tasks[t]) =>
                /\ Own(t, x) /\ Stage(x) # "done"
                /\ Recoverer(t, tasks[t]) => disk.stored # tasks[t].mine
                /\ \/ flight.ending[x] = "none"
                   \/ tasks[t].pc \in {"resynced", "entered"} /\ tasks[t].answer = "unauthorized"
        BY <2>0, <2>3 DEF Fine, Quiet
      <4>2. Settling(t, tasks[t]) => Own(t, x)' /\ Stage(x)' # "done" /\ flight'.sync.of # x
        BY <1>2, <2>a, <2>1, <4>1
      <4>3. tasks'[t].next = x
        BY <3>1
      <4> QED  BY <1>1, <1>2, <3>1, <4>1, <4>2, <4>3 DEF Quiet, Own, Stage
    <3>4. Joined(t)' /\ Unfinished(t)'
      BY <2>0, <2>1, <2>3, <3>1 DEF Fine, Joined, Unfinished
    <3>5. Wrote(t)'
      BY <1>1, <2>0, <2>1, <2>2, <3>1 DEF Fine, Wrote
    <3>6. Noticed(t)'
      BY <1>1, <2>0, <2>2, <3>1 DEF Fine, Noticed
    <3>7. OfItsKind(t)'
      BY <1>1, <2>0, <2>1, <3>1 DEF Fine, OfItsKind
    <3> QED  BY <3>2, <3>3, <3>4, <3>5, <3>6, <3>7 DEF Fine
  <2>4. CASE tasks[t].pc = "syncing"
    <3> PICK q, w : q = tasks[t] /\ w = r(t)
      OBVIOUS
    <3>1. /\ tasks'[t] = w /\ w.pc = q.then /\ w.mine = q.mine /\ w.next = q.next
          /\ w.answer = flight.sync.answer /\ q.pc = "syncing"
      BY <1>1, <1>3, <2>4 DEF Plain, Record
    <3>2. Untold(t)' /\ Wrote(t)' /\ Joined(t)'
      BY <2>0, <3>1 DEF Untold, Wrote, Joined, Born, Thens, Underway
    <3>3. Quiet(t)'
      <4>1. Settling(t, w) => Settling(t, q) /\ w.pc \in {"resynced", "entered"}
        BY <3>1, <2>0 DEF Settling, Thens, Underway
      <4>2. Recoverer(t, w) => Recoverer(t, q)
        BY <3>1, <2>0 DEF Recoverer, Recovering, Thens, Underway
      <4>3. Settling(t, q) =>
                /\ Own(t, x) /\ Stage(x) # "done"
                /\ Recoverer(t, q) => disk.stored # q.mine
                /\ flight.ending[x] = "none" \/ w.answer = "unauthorized"
        BY <2>0, <3>1 DEF Fine, Quiet
      <4>4. Settling(t, q) => Own(t, x)' /\ Stage(x)' # "done" /\ flight'.sync.of # x
        BY <1>2, <2>a, <2>1, <4>3
      <4>5. tasks'[t].next = x
        BY <3>1
      <4> QED
        BY <1>1, <1>2, <3>1, <4>1, <4>2, <4>3, <4>4, <4>5 DEF Quiet, Own, Stage
    <3>4. Noticed(t)'
      BY <1>1, <2>0, <2>2, <3>1 DEF Fine, Noticed
    <3>5. Unfinished(t)'
      BY <2>0, <2>1, <3>1 DEF Fine, Unfinished, Thens
    <3>6. OfItsKind(t)'
      <4>1. Polling(t, w) => Polling(t, q)
        BY <3>1, <2>0 DEF Polling, Thens, Underway
      <4>2. Recoverer(t, w) => Recoverer(t, q)
        BY <3>1, <2>0 DEF Recoverer, Recovering, Thens, Underway
      <4>3. Polling(t, w) /\ w.answer = "retired" => InSandbox(w.mine)
        BY <2>0, <3>1, <4>1 DEF Fine, Joined, OfItsKind, SyncOf, SInv, World, Flights, Underway
      <4> QED  BY <1>1, <2>0, <2>1, <3>1, <4>1, <4>2, <4>3 DEF Fine, OfItsKind, Thens, Underway
    <3> QED  BY <3>2, <3>3, <3>4, <3>5, <3>6 DEF Fine
  <2> QED  BY <2>3, <2>4
<1> QED
  BY <1>6, <1>7 DEF SStep

(* The invalidation of a session goes on, or is given up. *)
LEMMA EndingMild ==
    ASSUME RInv, SInv, LateGrows, server' = server, NEW s \in Session,
           flight.ending[s] # "none", NEW stage, stage # "done", EndingGoes(s, stage)
    PROVE  Mild({})
<1>1. /\ flight'.sync = flight.sync /\ flight'.recovery = flight.recovery
      /\ flight'.ending = [flight.ending EXCEPT ![s] = stage]
      /\ flight.ending = [x \in Session |-> flight.ending[x]]
  BY DEF EndingGoes, RInv, Known, FlightShape, SInv, World, Flights
<1>2. /\ flight'.ending = [x \in Session |-> flight'.ending[x]]
      /\ flight'.ending[s] = stage
      /\ \A x \in Session \ {s} : flight'.ending[x] = flight.ending[x]
  BY <1>1
<1>3. s <= server.issued
  <2>1. s \in Nat /\ server.issued \in Nat /\ ~(s > server.issued)
    BY KnownGood DEF Session, SInv, World, Flights
  <2> QED  BY <2>1
<1>4. \A x \in Session : Recovers(x) /\ Begins(x, {})
  BY <1>1, <1>2, <1>3 DEF Recovers, Begins, Stage
<1>5. Serves
  BY ServesStill
<1>6. /\ flight'.sync.stage # "idle" => flight'.sync.of # None
      /\ flight'.sync.answer = "retired" => InSandbox(flight.sync.of)'
  BY <1>1 DEF SInv, World, Flights, InSandbox, Row
<1> QED
  BY <1>1, <1>2, <1>4, <1>5, <1>6 DEF Mild, Serves, SyncGoes

LEMMA EndingFine ==
    ASSUME RInv, SInv, LateGrows, NEW s \in Session, EndingStep(s)
    PROVE  SStep
<1>0. UNCHANGED <<tasks, barrier, current, server>>
  BY DEF EndingStep, EndingMarks, EndingClears
<1>1. CASE EndingMarks(s)
  <2>1. PICK stage : stage # "done" /\ EndingGoes(s, stage)
    BY <1>1 DEF EndingMarks
  <2>2. flight.ending[s] # "none"
    BY <1>1 DEF EndingMarks
  <2>3. Mild({})
    BY <1>0, <2>1, <2>2, EndingMild
  <2>4. disk'.stored = disk.stored
    <3>2. Quarantined(disk, s).stored = disk.stored
      BY StoredSet, Zenon
    <3> QED  BY <1>1, <3>2 DEF EndingMarks
  <2>5. auth'.session = auth.session /\ auth'.switching = auth.switching
    BY <1>1 DEF EndingMarks, RInv, BInv, Shapes, AuthShape
  <2> QED  BY <1>0, <2>3, <2>4, <2>5, StandStill
<1>2. CASE EndingClears(s)
  <2>1. disk'.stored \in {disk.stored, None} /\ disk'.stored # s
    <3>1. s # None
      BY DEF Session, None
    <3>2. Holding(disk, None).stored = None
      BY StoredSet, Zenon
    <3> QED  BY <1>2, <3>1, <3>2 DEF EndingClears
  <2>2. CASE ~StillEnding(s)
    <3>1. EndingGoes(s, "none") /\ auth' = auth /\ flight.ending[s] # "none"
      BY <1>2, <2>2 DEF EndingClears
    <3>2. Mild({})
      BY <1>0, <3>1, EndingMild
    <3> QED  BY <1>0, <2>1, <3>1, <3>2, StandStill
  <2>3. CASE StillEnding(s)
    <3>1. /\ EndingGoes(s, "done") /\ flight.ending[s] = "clearing"
          /\ auth' = [auth EXCEPT !.session = None, !.locked = FALSE, !.broken = FALSE]
      BY <1>2, <2>3 DEF EndingClears
    <3>2. auth'.session = None /\ auth'.switching = auth.switching
      BY <3>1 DEF RInv, BInv, Shapes, AuthShape
    <3>3. /\ flight'.sync = flight.sync /\ flight'.recovery = flight.recovery
          /\ flight'.ending = [flight.ending EXCEPT ![s] = "done"]
          /\ flight.ending = [x \in Session |-> flight.ending[x]]
      BY <3>1 DEF EndingGoes, RInv, Known, FlightShape, SInv, World, Flights
    <3>4. /\ flight'.ending = [x \in Session |-> flight'.ending[x]]
          /\ flight'.ending[s] = "done"
          /\ \A x \in Session \ {s} : flight'.ending[x] = flight.ending[x]
      BY <3>3
    <3>5. Rows' /\ Modes
      BY <1>0, ServesStill DEF Serves
    <3>6. Flights'
      BY <1>0, <3>1, <3>3, <3>4 DEF SInv, World, Flights, Stage, InSandbox, Row
    <3>7. Allowed(disk.stored)' /\ Allowed(auth.session)'
      <4> PICK y : y = disk'.stored
        OBVIOUS
      <4>1. Allowed(y) /\ y # s /\ (y # None => y \in Session)
        BY <2>1, KnownGood DEF SInv, World, Allowed, DiskGood
      <4>2. Allowed(y)'
        BY <3>3, <3>4, <4>1 DEF Allowed, Stage, FoundLate, LateGrows
      <4> QED  BY <3>2, <4>2 DEF Allowed, Stage, FoundLate
    <3>8. Gentle({})
      BY <2>1, <3>1, <3>2, <3>3, <3>4, <3>5 DEF Gentle, SyncGoes, LateGrows
    <3>9. ASSUME NEW u \in Task PROVE Fine(u)'
      <4>1. Leaves(u, {})
        BY <1>0, <2>1, <3>2, <3>3 DEF Leaves, Seen, Stage
      <4> QED  BY <3>8, <4>1, FineStays DEF SInv
    <3> QED  BY <3>5, <3>6, <3>7, <3>9 DEF SStep, World
  <2> QED  BY <2>2, <2>3
<1> QED
  BY <1>1, <1>2 DEF EndingStep

(* What happens at the server moves no session of the device. *)
LEMMA ElsewhereFine ==
    ASSUME RInv, SInv, LateGrows, Elsewhere \/ vars' = vars
    PROVE  SStep
<1>1. UNCHANGED <<tasks, barrier, auth, current, flight, disk>>
  BY DEF Elsewhere, Reset, Disable, Suspend, Revoke, Happens, vars, memory
<1>2. Serves
  <2>1. CASE server' = server
    BY <2>1, ServesStill
  <2>2. CASE Disable \/ Suspend
    <3>1. server'.rows = server.rows /\ server'.issued = server.issued
      BY <2>2 DEF Disable, Suspend, RInv, Known, ServerShape
    <3> QED  BY <3>1, KnownGood DEF Serves, Modes, SInv, World, Rows, Row, InSandbox
  <2>3. CASE Reset
    <3> DEFINE row(s) == IF InSandbox(s) /\ Row(s).state = "live"
                         THEN [Row(s) EXCEPT !.state = "retired"] ELSE Row(s)
    <3>1. server'.rows = [s \in Session |-> row(s)] /\ server'.issued = server.issued
      BY <2>3 DEF Reset, RInv, Known, ServerShape
    <3>2. ASSUME NEW s \in Session
          PROVE  /\ RowShape(row(s)) /\ row(s).mode = Row(s).mode
                 /\ row(s).state = "retired" => InSandbox(s)
      <4> PICK old : old = Row(s)
        OBVIOUS
      <4>1. RowShape(old) /\ (old.state = "retired" => InSandbox(s))
        BY DEF SInv, World, Rows
      <4>2. /\ RowShape([old EXCEPT !.state = "retired"])
            /\ [old EXCEPT !.state = "retired"].mode = old.mode
        BY <4>1 DEF RowShape
      <4> QED  BY <4>1, <4>2
    <3> HIDE DEF row
    <3>3. \A s \in Session : Row(s)' = row(s) /\ (InSandbox(s)' <=> InSandbox(s))
      BY <3>1, <3>2 DEF Row, InSandbox
    <3>4. Rows'
      BY <3>1, <3>2, <3>3 DEF Rows
    <3>5. Modes
      BY <3>3, KnownGood DEF Modes, InSandbox
    <3> QED  BY <3>1, <3>4, <3>5, KnownGood DEF Serves
  <2>4. CASE \E s \in Session : Revoke(s)
    BY <2>4, LoggedOutServes DEF Revoke
  <2> QED  BY <2>1, <2>2, <2>3, <2>4 DEF Elsewhere, vars
<1>3. Mild({})
  <2>1. \A x \in Session : Recovers(x) /\ Begins(x, {})
    BY <1>1 DEF Recovers, Begins, Stage
  <2>2. /\ flight'.ending = [s \in Session |-> flight'.ending[s]]
        /\ flight'.sync.stage # "idle" => flight'.sync.of # None
    BY <1>1 DEF SInv, World, Flights
  <2>3. flight'.sync.answer = "retired" => InSandbox(flight.sync.of)'
    <3> PICK y : y = flight.sync.of
      OBVIOUS
    <3>1. InSandbox(y)' <=> InSandbox(y)
      BY <1>2, KnownGood DEF Serves, Modes, FlightGood
    <3>2. flight.sync.answer = "retired" => InSandbox(y)
      BY DEF SInv, World, Flights
    <3>3. flight'.sync.of = y
      BY <1>1
    <3> QED  BY <1>1, <3>1, <3>2, <3>3 DEF InSandbox, Row
  <2> QED  BY <1>1, <1>2, <2>1, <2>2, <2>3 DEF Mild, Serves, SyncGoes
<1> QED
  BY <1>1, <1>3, StandStill

(* When the process starts, nobody has been told of anything. *)
LEMMA FreshIs ==
    /\ Fresh.ending = [s \in Session |-> "none"]
    /\ \A s \in Session : Fresh.recovery[s].stage = "none"
    /\ Fresh.sync.stage = "idle" /\ Fresh.sync.answer = "none"
BY DEF Fresh, NoRecovery, NoSync

LEMMA KillFine ==
    ASSUME RInv, SInv, LateGrows, Kill
    PROVE  SStep
<1>1. /\ \A t \in Task : tasks'[t] = Idle
      /\ flight' = Fresh /\ auth'.session = None /\ UNCHANGED <<disk, server>>
  BY DEF Kill, Unstarted
<1>2. Rows'
  BY <1>1, ServesStill DEF Serves
<1>3. Flights'
  BY <1>1, FreshIs DEF Flights, Stage
<1>4. Allowed(disk.stored)' /\ Allowed(auth.session)'
  BY <1>1, FreshIs, KnownGood DEF Allowed, Stage, DiskGood
<1> QED
  BY <1>1, <1>2, <1>3, <1>4, IdleFine DEF SStep, World

(* Nothing forgets that a start-up was late. *)
Spends == LateGrows /\ BudgetShape(budget)'

LEMMA Spent ==
    ASSUME SInv, \/ budget' = budget \/ Fault
                 \/ \E t \in Task : CanStart(t)
                 \/ \E x : budget' = [budget EXCEPT !.crossed = x]
                 \/ \E x : budget' = [budget EXCEPT !.faults = @ - 1, !.failed = TRUE, !.crossed = x]
                 \/ budget' = [budget EXCEPT !.events = @ - 1]
                 \/ budget' = [budget EXCEPT !.kills = @ - 1]
    PROVE  Spends
<1>0. BudgetShape(budget)
  BY DEF SInv
<1>1. CASE budget' = budget
  BY <1>0, <1>1 DEF Spends, LateGrows, BudgetShape
<1>2. CASE Fault
  BY <1>0, <1>2 DEF Fault, Spends, LateGrows, BudgetShape
<1>3. ASSUME NEW t \in Task, CanStart(t) PROVE Spends
  <2> PICK x, y : x = Crosses(t) /\ y = Late(t)
    OBVIOUS
  <2>1. budget' = [budget EXCEPT !.starts = @ - 1, !.crossed = x, !.late = y]
    BY <1>3 DEF CanStart
  <2>2. budget.late \subseteq y
    BY DEF Late
  <2> QED  BY <1>0, <2>1, <2>2 DEF Spends, LateGrows, BudgetShape
<1>4. ASSUME NEW x, budget' = [budget EXCEPT !.crossed = x] PROVE Spends
  BY <1>0, <1>4 DEF Spends, LateGrows, BudgetShape
<1>5. ASSUME NEW x, budget' = [budget EXCEPT !.faults = @ - 1, !.failed = TRUE, !.crossed = x]
      PROVE  Spends
  BY <1>0, <1>5 DEF Spends, LateGrows, BudgetShape
<1>6. CASE \/ budget' = [budget EXCEPT !.events = @ - 1]
           \/ budget' = [budget EXCEPT !.kills = @ - 1]
  BY <1>0, <1>6 DEF Spends, LateGrows, BudgetShape
<1> QED
  BY <1>1, <1>2, <1>3, <1>4, <1>5, <1>6

LEMMA BudgetStays ==
    ASSUME SInv, [Next]_vars
    PROVE  Spends
<1>0. {"hydrate", "background", "sync", "login", "profile"} \cup Changer \subseteq Task
  BY DEF Task, Changer
<1>1. CASE Begin
  <2>1. \E t \in Task : CanStart(t)
    BY <1>0, <1>1
       DEF Begin, HydrateBegin, BackgroundBegin, SyncNow, Login, ProfileBegin, Open, ChangeBegin
  <2> QED  BY <2>1, Spent
<1>2. ASSUME NEW t \in Task, TaskStep(t) PROVE Spends
  <2>1. CASE \/ t = "hydrate" /\ (HydratePrepare \/ HydrateBlock \/ HydrateExpose)
             \/ t = "background" /\ BackgroundPrepare
             \/ t = "sync" /\ SyncExpose
             \/ RunSync(t) \/ TaskSynced(t)
    BY <2>1, Spent
       DEF HydratePrepare, HydrateBlock, HydrateExpose, BackgroundPrepare, SyncExpose, RunSync,
           TaskSynced
  <2>2. CASE RecoveryStep(t)
    BY <2>2, Spent
       DEF RecoveryStep, RecoveryCheck, RecoveryJoined, RecoveryAwaited, RecoverDrained,
           RecoverClear, RecoverPost, RecoverPersist, RecoverDone, RecoverFail
  <2>3. CASE ChangeStep(t) \/ Refused(t) \/ (t = "logout" /\ LogoutDone)
    BY <2>3, Spent
       DEF ChangeStep, ChangeDrained, ChangeSynced, ChangePost, ChangeEntered, Refused, LogoutDone
  <2>4. CASE t = "switchMode" /\ (SwitchPersist \/ SwitchEntered)
    BY <2>4, Spent DEF SwitchPersist, SwitchEntered
  <2>5. CASE PersistWrite(t)
    BY <2>5, Spent DEF PersistWrite
  <2>6. CASE PersistExpose(t) \/ BeginLocalMutation(t)
    BY <2>6, Spent DEF PersistExpose, BeginLocalMutation
  <2>7. CASE \/ t = "profile" /\ ProfileAnswered
             \/ t = "write" /\ WriteEnds
             \/ t = "revalidate" /\ (RevalidateAnswered \/ RevalidateEnds)
    BY <2>7, Spent DEF ProfileAnswered, WriteEnds, RevalidateAnswered, RevalidateEnds
  <2> QED  BY <1>2, <2>1, <2>2, <2>3, <2>4, <2>5, <2>6, <2>7, Zenon DEF TaskStep
<1>3. CASE SyncStep \/ \E s \in Session : EndingStep(s)
  BY <1>3, Spent
     DEF SyncStep, SyncLost, SyncRefused, SyncPushed, SyncPulled, SyncEnds, EndingStep,
         EndingMarks, EndingClears
<1>4. CASE Elsewhere \/ Kill \/ vars' = vars
  BY <1>4, Spent DEF Elsewhere, Reset, Disable, Suspend, Revoke, Happens, Kill, vars
<1> QED
  BY <1>1, <1>2, <1>3, <1>4 DEF Next

LEMMA InitFine == Init => SInv
<1> SUFFICES ASSUME Init PROVE SInv
  OBVIOUS
<1>1. PICK mode \in Store :
         server.rows = [s \in Session |->
             IF s = 1 THEN [mode |-> mode, state |-> "live",
                            generation |-> IF mode = "sandbox" THEN 1 ELSE 0]
             ELSE [mode |-> "account", state |-> "none", generation |-> 0]]
  BY DEF Init
<1>2. /\ tasks = [t \in Task |-> Idle] /\ flight = Fresh
      /\ auth.session \in {None, 1} /\ disk.stored = 1 /\ 1 \in Session
  BY DeviceAssumption DEF Init, Unstarted, Session
<1>3. Rows
  BY <1>1 DEF Rows, Row, RowShape
<1>4. Flights
  BY <1>2, FreshIs DEF Flights, Stage
<1>5. Allowed(disk.stored) /\ Allowed(auth.session)
  BY <1>2, FreshIs DEF Allowed, Stage
<1>6. BudgetShape(budget)
  BY DEF Init, BudgetShape
<1>7. ASSUME NEW t \in Task PROVE Fine(t)
  BY <1>2 DEF Idle, Fine, Untold, Quiet, Joined, Wrote, Noticed, Unfinished, OfItsKind, Born,
     Settling, Recoverer, Polling, Underway, Recovering, Changer
<1> QED
  BY <1>3, <1>4, <1>5, <1>6, <1>7 DEF SInv, World

LEMMA NextFine == RInv /\ SInv /\ [Next]_vars => SInv'
<1> SUFFICES ASSUME RInv, SInv, [Next]_vars PROVE SInv'
  OBVIOUS
<1>0. /\ Spends /\ LateGrows
      /\ {"hydrate", "background", "sync", "login"} \cup Changer \subseteq Task
  BY BudgetStays DEF Spends, Task, Changer
<1>1. ASSUME Begin PROVE SStep
  <2>1. CASE HydrateBegin
    BY <1>0, <2>1, HydrateFine
  <2>2. CASE BackgroundBegin \/ SyncNow
    BY <1>0, <2>2, SyncTaskFine
  <2>3. CASE Login
    BY <1>0, <2>3, LoginFine
  <2>4. CASE ProfileBegin \/ \E t \in Task : Open(t)
    BY <1>0, <2>4, AccessFine
  <2>5. CASE \E t \in Changer : ChangeBegin(t)
    BY <1>0, <2>5, ChangeFine
  <2> QED  BY <1>1, <2>1, <2>2, <2>3, <2>4, <2>5 DEF Begin
<1>2. ASSUME NEW t \in Task, TaskStep(t) PROVE SStep
  BY <1>0, <1>2, HydrateFine, SyncTaskFine, RunSyncFine, RecoveryFine, ChangeFine, OutcomeFine,
     PersistFine, AccessFine, RevalidateFine
     DEF TaskStep
<1>3. SStep
  BY <1>0, <1>1, <1>2, SyncGoesFine, SyncEndsFine, EndingFine, ElsewhereFine, KillFine
     DEF Next, SyncStep
<1> QED
  BY <1>0, <1>3 DEF SStep, SInv, Spends

(***************************************************************************)
(* A session whose invalidation has ended is neither stored nor shown      *)
(* again, by whatever was under way with it (invalidateSession,            *)
(* persistSession and sessionInvalidationEpoch of auth-store.ts); but for  *)
(* one that a start-up has read too late.                                  *)
(***************************************************************************)
THEOREM SignedOut == Spec => []SignedOutStaysOut
<1>1. Init => RInv /\ SInv
  BY InitHolds, InitSafe, InitFine DEF RInv
<1>2. RInv /\ SInv /\ [Next]_vars => (RInv /\ SInv)'
  BY NextSafe, NextFine
<1>3. RInv /\ SInv => SignedOutStaysOut
  <2> SUFFICES ASSUME SInv, NEW s \in Session, flight.ending[s] = "done", ~FoundLate(s)
               PROVE  disk.stored # s /\ auth.session # s
    BY DEF SignedOutStaysOut
  <2>1. s # None /\ Allowed(disk.stored) /\ Allowed(auth.session)
    BY DEF Session, None, SInv, World
  <2> QED  BY <2>1 DEF Allowed
<1> QED
  BY <1>1, <1>2, <1>3, PTL DEF Spec
=============================================================================
