---------------------------- MODULE SandboxProofs ----------------------------
(***************************************************************************)
(* SandboxLifecycle implements GenerationGate, for any number of accounts, *)
(* sessions, generations and requests in flight; a session is replaced     *)
(* once; and the feed of every active space carries every account.         *)
(*                                                                         *)
(* A request reads its principal and the space it goes to some steps       *)
(* before it commits.  The invariant says what each request still knows    *)
(* at every step (Seen), by which locks (Keys), and what its session has   *)
(* told it (Remembers).  A step changes nothing that another request holds *)
(* the lock of (Careful), so what the others know stays true.              *)
(***************************************************************************)
EXTENDS SandboxLifecycle, FiniteSetTheorems, TLAPS

Lock == [on : Resource, exclusive : BOOLEAN]

(* The requests of a session, those that replace it, and where one may be. *)
OfSession == {"write", "switch", "recover", "status", "configure", "reset", "change"}
Replacements == {"switch", "recover"}
Stages == {"idle", "asked", "aimed", "ensuring", "activating", "begun",
           "changed", "retiring", "staged"}

(* Locks of different requests do not conflict. *)
Separate ==
    \A v, w \in Worker : v # w =>
        \A a \in tr[v].held, b \in tr[w].held : ~Conflict(a, b)

(* No generation was ever started, or one is active and all before it are past. *)
OneCurrent ==
    \/ \A g \in Generation : spaces[g].status = "none"
    \/ \E c \in Generation :
          /\ spaces[c].status = "active"
          /\ \A g \in Generation :
                /\ g > c => spaces[g].status = "none"
                /\ g < c => spaces[g].status \in {"retired", "purged"}

(* A session that was not revoked; it is inside an active space. *)
Usable(s) == sessions[s] # NoSession /\ sessions[s].state = "live"

LiveInside == \A s \in Session : Usable(s) => IsActive(sessions[s].space)

(* Sessions are numbered as they are issued. *)
Fresh == \A s \in Session : s > issued => sessions[s] = NoSession /\ parent[s] = 0

(* A session that was replaced was replaced once, and says so. *)
SpentParents ==
    \A a, b \in Session : parent[a] # 0 =>
        /\ parent[a] <= issued
        /\ parent[a] = parent[b] => a = b
        /\ sessions[parent[a]] # NoSession =>
              sessions[parent[a]].state \in {"mode_switched", "sandbox_generation_recovered"}

(* What a request has read of its session, and what it was asked for. *)
Remembers(q) ==
    /\ q.kind \in OfSession =>
          /\ q.session \in 1 .. issued /\ q.user \in User
          /\ sessions[q.session] # NoSession =>
                sessions[q.session].user = q.user /\ sessions[q.session].space = q.space
    /\ q.kind = "write" => q.space # Production
    /\ q.kind = "switch" => q.sandbox = (q.space = Production)
    /\ q.kind \in Replacements =>
          /\ q.pc \in {"asked", "ensuring", "activating", "aimed", "staged"}
          /\ q.pc \in {"aimed", "staged"} => (q.target # Production <=> q.sandbox)
          /\ q.pc \in {"ensuring", "activating"} => q.sandbox
    /\ q.pc \in {"ensuring", "activating"} => q.kind \in Replacements \cup {"status"}
    /\ q.pc \in {"aimed"} => q.kind \in Replacements
    /\ q.kind = "reset" => q.target \in Generation /\ q.target + 1 \in Generation
    /\ q.kind = "change" => q.whom \in User
    /\ q.kind = "cleanup" => q.into \subseteq Generation

(* The locks a request relies on. *)
Keys(q) ==
    /\ q.pc = "staged" /\ q.kind \in {"write", "switch", "recover", "change"} =>
          Share(<<"generation">>) \in q.held
    /\ q.pc = "staged" /\ q.kind = "write" => Share(<<"session", q.session>>) \in q.held
    /\ q.pc = "staged" /\ q.kind \in Replacements => Update(<<"session", q.session>>) \in q.held
    /\ \/ q.pc \in {"activating", "retiring"}
       \/ q.pc = "staged" /\ q.kind \in {"configure", "reset", "cleanup"}
       => Update(<<"generation">>) \in q.held
    /\ q.pc = "changed" \/ (q.pc = "staged" /\ q.kind \in {"reset", "change"}) =>
          \A s \in q.revoked : Update(<<"session", s>>) \in q.held

(* What it has seen under them. *)
Seen(q) ==
    /\ q.pc = "staged" /\ q.kind \in {"write", "switch"} => Live(q.session)
    /\ q.pc = "staged" /\ q.kind \in Replacements => IsActive(q.target)
    /\ q.pc = "staged" /\ q.kind = "recover" => RetiredByReset(q.session)
    /\ q.pc = "activating" => q.target = Made /\ q.seed = Seeded
    /\ q.pc = "staged" /\ q.kind = "configure" => q.target \in {0, Made} /\ q.seed = Seeded
    /\ q.pc = "retiring" \/ (q.pc = "staged" /\ q.kind = "reset") =>
          ActiveGeneration = q.target /\ q.seed = Seeded
    /\ q.pc = "staged" /\ q.kind = "reset" => LiveIn(q.target) \subseteq q.revoked
    /\ q.pc = "changed" \/ (q.pc = "staged" /\ q.kind \in {"reset", "change"}) =>
          \A s \in q.revoked : Live(s)
    /\ q.pc = "staged" /\ q.kind = "change" => q.into = {sp \in Space : IsActive(sp)}
    /\ q.pc = "staged" /\ q.kind = "cleanup" => q.into \subseteq RetiredGenerations

Prepared == \A w \in Worker : Remembers(tr[w]) /\ Keys(tr[w]) /\ Seen(tr[w])

(* No session is promised beyond the bound of the model. *)
Budget == issued + Cardinality(Replacing) <= MaxSession

(* The tables agree with themselves. *)
Sound == OneCurrent /\ LiveInside /\ Fresh /\ SpentParents /\ FeedsCarryAccounts

Inv == TypeOK /\ Separate /\ Sound /\ Budget /\ Prepared

-----------------------------------------------------------------------------
(* --- What a step leaves alone ------------------------------------------- *)
(* No other request holds a lock of the resource, or a lock for update. *)
Free(w, r)      == \A v \in Worker \ {w} : \A a \in tr[v].held : a.on # r
Unclaimed(w, r) == \A v \in Worker \ {w} : Update(r) \notin tr[v].held

(* A row of sessions that is revoked under its lock. *)
Ends(w, s) ==
    /\ Free(w, <<"session", s>>)
    /\ sessions[s] # NoSession /\ sessions'[s] # NoSession
    /\ sessions'[s].user = sessions[s].user /\ sessions'[s].space = sessions[s].space
    /\ sessions'[s].state # "live"

(* A row that is added, and one that is purged with its generation. *)
Adds(w, s)   == s > issued /\ Unclaimed(w, <<"generation">>)
Purges(w, s) == sessions'[s] = NoSession /\ ~Live(s) /\ Free(w, <<"generation">>)

Careful(w) ==
    /\ issued <= issued'
    /\ spaces' = spaces \/ Free(w, <<"generation">>)
    /\ accounts' = accounts \/ Unclaimed(w, <<"generation">>)
    /\ \A s \in Session :
          /\ sessions'[s] = sessions[s] \/ Ends(w, s) \/ Adds(w, s) \/ Purges(w, s)
          /\ Live(s) => Live(s)' \/ Free(w, <<"session", s>>)
          /\ Live(s)' => Live(s) \/ Unclaimed(w, <<"generation">>)

(* What one request holds for update, no other holds. *)
LEMMA HeldAlone ==
    ASSUME Inv, NEW w \in Worker, NEW r, Update(r) \in tr[w].held
    PROVE  Free(w, r)
  BY DEF Inv, Separate, Free, Conflict, Update

(* What one request holds for share, no other holds for update. *)
LEMMA HeldShared ==
    ASSUME Inv, NEW w \in Worker, NEW r, Share(r) \in tr[w].held
    PROVE  Unclaimed(w, r)
  BY DEF Inv, Separate, Unclaimed, Conflict, Update, Share

(* Nobody holds what is free for update. *)
LEMMA FreeUnclaimed ==
    ASSUME NEW w, NEW r, Free(w, r) PROVE Unclaimed(w, r)
  BY DEF Free, Unclaimed, Update

(* A session that is in use was issued, and its row is a row. *)
LEMMA LiveFacts ==
    ASSUME Inv, NEW s \in Session, sessions[s] # NoSession
    PROVE  /\ s \in 1 .. issued /\ issued \in Nat /\ sessions[s] \in SessionRow
           /\ sessions[s].user \in User /\ sessions[s].space \in Space
  <1>1. sessions[s] \in SessionRow /\ issued \in Nat /\ s \in Nat /\ s >= 1
    BY SandboxAssumption DEF Inv, TypeOK, Session
  <1>2. s <= issued
    BY <1>1 DEF Inv, Sound, Fresh
  <1> QED BY <1>1, <1>2 DEF SessionRow

-----------------------------------------------------------------------------
(* --- Generations --------------------------------------------------------- *)
(* No generation is active before the first is made, and exactly one after. *)
LEMMA ActiveFacts ==
    ASSUME OneCurrent, spaces \in [Generation -> SpaceRow]
    PROVE  /\ \/ /\ ActiveGeneration = 0 /\ Made = 1 /\ ActiveGenerations = {}
                 /\ \A g \in Generation : spaces[g].status = "none"
              \/ /\ ActiveGeneration \in Generation /\ Made = 0
                 /\ ActiveGenerations = {ActiveGeneration}
                 /\ \A g \in Generation :
                       /\ g > ActiveGeneration => spaces[g].status = "none"
                       /\ g < ActiveGeneration => spaces[g].status \in {"retired", "purged"}
                       /\ g = ActiveGeneration => spaces[g].status = "active"
           /\ \A sp \in Space : IsActive(sp) <=> sp = 0 \/ sp = ActiveGeneration
           /\ 1 \in Generation
  <1>0. 1 \in Generation /\ \A g \in Generation : g \in Nat /\ g # 0
    BY SandboxAssumption DEF Generation
  <1>1. CASE \A g \in Generation : spaces[g].status = "none"
    <2>1. ActiveGenerations = {}
      BY <1>1 DEF ActiveGenerations
    <2>2. ActiveGeneration = 0
      BY <2>1 DEF ActiveGeneration
    <2>3. {g \in Generation : spaces[g].status # "none"} = {}
      BY <1>1
    <2>4. Made = 1
      BY <2>2, <2>3, FS_EmptySet DEF Made, NextGeneration
    <2>5. \A sp \in Space : IsActive(sp) <=> sp = 0
      BY <2>1 DEF IsActive, Production
    <2> QED BY <1>0, <1>1, <2>1, <2>2, <2>4, <2>5
  <1>2. ASSUME NEW c \in Generation, spaces[c].status = "active",
               \A g \in Generation :
                  /\ g > c => spaces[g].status = "none"
                  /\ g < c => spaces[g].status \in {"retired", "purged"}
        PROVE  /\ ActiveGeneration = c /\ Made = 0 /\ ActiveGenerations = {c}
               /\ \A sp \in Space : IsActive(sp) <=> sp = 0 \/ sp = c
    <2>1. ASSUME NEW g \in Generation, spaces[g].status = "active" PROVE g = c
      <3>1. ~(g > c) /\ ~(g < c)
        BY <1>2, <2>1
      <3> QED BY <1>0, <3>1
    <2>2. ActiveGenerations = {c}
      BY <1>2, <2>1 DEF ActiveGenerations
    <2>3. ActiveGeneration = c
      BY <2>2 DEF ActiveGeneration
    <2>4. Made = 0
      BY <1>0, <2>3 DEF Made
    <2>5. \A sp \in Space : IsActive(sp) <=> sp = 0 \/ sp = c
      BY <2>2 DEF IsActive, Production
    <2> QED BY <2>2, <2>3, <2>4, <2>5
  <1> QED BY <1>0, <1>1, <1>2 DEF OneCurrent

-----------------------------------------------------------------------------
(* --- The requests that do not move -------------------------------------- *)
(* A careful step of one request leaves every other what it relies on. *)
LEMMA OthersPrepared ==
    ASSUME Inv, issued' \in Nat, NEW w \in Worker, Careful(w),
           NEW v \in Worker \ {w}, tr'[v] = tr[v]
    PROVE  Remembers(tr[v])' /\ Keys(tr[v])' /\ Seen(tr[v])'
  <1> DEFINE q == tr[v]
             s == q.session
             gen == <<"generation">>
  <1>0. /\ q \in Request /\ Remembers(q) /\ Keys(q) /\ Seen(q)
        /\ issued \in Nat /\ issued <= issued'
        /\ \A x \in Session : x \in Nat
    BY SandboxAssumption DEF Inv, TypeOK, Prepared, Careful, Session
  <1>1. \A r : Share(r) \in q.held \/ Update(r) \in q.held => ~Free(w, r)
    BY DEF Free, Share, Update
  <1>2. \A r : Update(r) \in q.held => ~Unclaimed(w, r)
    BY DEF Unclaimed
  <1>3. Share(gen) \in q.held \/ Update(gen) \in q.held => spaces' = spaces
    BY <1>1 DEF Careful
  <1>4. Update(gen) \in q.held => accounts' = accounts
    BY <1>2 DEF Careful
  <1>5. ASSUME NEW x \in Session,
               Share(<<"session", x>>) \in q.held \/ Update(<<"session", x>>) \in q.held, Live(x)
        PROVE  Live(x)'
    BY <1>1, <1>5 DEF Careful
  <1>6. ASSUME NEW x \in Session, x <= issued
        PROVE  \/ sessions'[x] = NoSession
               \/ /\ sessions[x] # NoSession
                  /\ sessions'[x].user = sessions[x].user
                  /\ sessions'[x].space = sessions[x].space
    <2>1. ~(x > issued)
      BY <1>0, <1>6
    <2> QED BY <2>1 DEF Careful, Ends, Adds, Purges
  <1>7. q.kind \in OfSession => s \in Session /\ s <= issued /\ s \in 1 .. issued'
    <2>1. q.kind \in OfSession => s \in 1 .. issued
      BY <1>0 DEF Remembers
    <2>2. issued <= MaxSession /\ MaxSession \in Nat
      BY SandboxAssumption DEF Inv, TypeOK
    <2> QED BY <1>0, <2>1, <2>2 DEF Session
  <1>8. q.kind \in OfSession /\ sessions'[s] # NoSession =>
            sessions'[s].user = q.user /\ sessions'[s].space = q.space
    BY <1>0, <1>6, <1>7 DEF Remembers
  <1>9. Remembers(tr[v])'
    BY <1>0, <1>7, <1>8 DEF Remembers
  <1>10. Keys(tr[v])'
    BY <1>0 DEF Keys, Share, Update
  <1>11. q.pc = "staged" /\ q.kind \in {"write", "switch"} => Live(s)'
    BY <1>0, <1>5, <1>7 DEF Keys, Seen, OfSession, Replacements
  <1>12. q.pc = "staged" /\ q.kind \in Replacements => IsActive(q.target)'
    BY <1>0, <1>3 DEF Keys, Seen, Replacements, IsActive, ActiveGenerations
  <1>13. q.pc = "staged" /\ q.kind = "recover" => RetiredByReset(s)'
    <2> SUFFICES ASSUME q.pc = "staged", q.kind = "recover" PROVE RetiredByReset(s)'
      OBVIOUS
    <2>1. /\ Share(gen) \in q.held /\ Update(<<"session", s>>) \in q.held
          /\ RetiredByReset(s)
      BY <1>0 DEF Keys, Seen, Replacements
    <2>2. s \in Session /\ s <= issued
      BY <1>7 DEF OfSession
    <2>3. sessions'[s] = sessions[s]
      <3>1. ~(s > issued)
        BY <1>0, <2>2
      <3> QED BY <1>1, <2>1, <2>2, <3>1 DEF Careful, Ends, Adds, Purges
    <2>4. spaces' = spaces
      BY <1>3, <2>1
    <2> QED BY <2>1, <2>3, <2>4 DEF RetiredByReset
  <1>14. Update(gen) \in q.held =>
            /\ Made' = Made /\ Seeded' = Seeded /\ ActiveGeneration' = ActiveGeneration
            /\ RetiredGenerations' = RetiredGenerations
    BY <1>3, <1>4 DEF Made, Seeded, ActiveGeneration, ActiveGenerations, NextGeneration,
       RetiredGenerations
  <1>15. ASSUME Update(gen) \in q.held, NEW sp PROVE LiveIn(sp)' \subseteq LiveIn(sp)
    <2> SUFFICES ASSUME NEW x \in Session, Live(x)', sessions'[x].space = sp
                 PROVE  Live(x) /\ sessions[x].space = sp
      BY DEF LiveIn
    <2>1. Live(x)
      BY <1>2, <1>15 DEF Careful
    <2>2. x <= issued
      BY <2>1, LiveFacts DEF Live
    <2> QED BY <1>6, <2>1, <2>2 DEF Live
  <1>16. q.pc = "changed" \/ (q.pc = "staged" /\ q.kind \in {"reset", "change"}) =>
            \A x \in q.revoked : Live(x)'
    <2>1. q.revoked \subseteq Session
      BY <1>0 DEF Request
    <2> QED BY <1>0, <1>5, <2>1 DEF Keys, Seen
  <1>17. q.pc = "staged" /\ q.kind = "change" => q.into = {sp \in Space : IsActive(sp)'}
    <2> SUFFICES ASSUME q.pc = "staged", q.kind = "change"
                 PROVE  q.into = {sp \in Space : IsActive(sp)'}
      OBVIOUS
    <2>1. spaces' = spaces
      BY <1>0, <1>3 DEF Keys
    <2>2. \A sp : IsActive(sp)' <=> IsActive(sp)
      BY <2>1 DEF IsActive, ActiveGenerations
    <2> QED BY <1>0, <2>2 DEF Seen
  <1>18. /\ q.pc = "activating" => q.target = Made' /\ q.seed = Seeded'
         /\ q.pc = "staged" /\ q.kind = "configure" =>
               q.target \in {0, Made'} /\ q.seed = Seeded'
         /\ q.pc = "retiring" \/ (q.pc = "staged" /\ q.kind = "reset") =>
               ActiveGeneration' = q.target /\ q.seed = Seeded'
         /\ q.pc = "staged" /\ q.kind = "cleanup" => q.into \subseteq RetiredGenerations'
    <2>1. \/ q.pc \in {"activating", "retiring"}
          \/ q.pc = "staged" /\ q.kind \in {"configure", "reset", "cleanup"}
          => Update(gen) \in q.held
      BY <1>0 DEF Keys
    <2> QED BY <1>0, <1>14, <2>1 DEF Seen
  <1>19. q.pc = "staged" /\ q.kind = "reset" => LiveIn(q.target)' \subseteq q.revoked
    BY <1>0, <1>15 DEF Seen, Keys
  <1>20. Seen(tr[v])'
    BY <1>11, <1>12, <1>13, <1>16, <1>17, <1>18, <1>19 DEF Seen
  <1> QED BY <1>9, <1>10, <1>20

(* A careful step of one request that ends well keeps the invariant. *)
LEMMA StepKeeps ==
    ASSUME Inv, TypeOK', Separate', Sound', Budget', NEW w \in Worker, NEW q,
           tr' = [tr EXCEPT ![w] = q], Careful(w),
           Remembers(tr[w])', Keys(tr[w])', Seen(tr[w])'
    PROVE  Inv'
  <1>1. issued' \in Nat
    BY SandboxAssumption DEF TypeOK
  <1>2. ASSUME NEW v \in Worker \ {w} PROVE tr'[v] = tr[v]
    BY DEF Inv, TypeOK
  <1>3. \A v \in Worker : Remembers(tr[v])' /\ Keys(tr[v])' /\ Seen(tr[v])'
    BY <1>1, <1>2, OthersPrepared
  <1> QED BY <1>3 DEF Inv, Prepared

(* The locks that a request would hold are no other's. *)
Claims(w, held) ==
    \A v \in Worker \ {w} : \A a \in held, b \in tr[v].held : ~Conflict(a, b)

(* Those it holds and those it is granted are. *)
LEMMA GrantedClaims ==
    ASSUME Inv, NEW w \in Worker, NEW locks, Granted(w, locks),
           NEW held, held \subseteq tr[w].held \cup locks
    PROVE  Claims(w, held)
  BY DEF Inv, Separate, Granted, Grantable, Claims

(* What is granted for update, no other holds. *)
LEMMA SeparateStays ==
    ASSUME Inv, NEW w \in Worker, NEW q \in Request, tr' = [tr EXCEPT ![w] = q],
           Claims(w, q.held)
    PROVE  Separate'
  <1>1. /\ tr'[w] = q
        /\ \A v \in Worker \ {w} : tr'[v] = tr[v]
    BY DEF Inv, TypeOK
  <1>2. \A a, b : Conflict(a, b) <=> Conflict(b, a)
    BY DEF Conflict
  <1> SUFFICES ASSUME NEW u \in Worker, NEW v \in Worker, u # v,
                      NEW a \in tr'[u].held, NEW b \in tr'[v].held
               PROVE  ~Conflict(a, b)
    BY DEF Separate, Conflict
  <1>3. CASE u = w
    BY <1>1, <1>3 DEF Claims
  <1>4. CASE v = w
    BY <1>1, <1>2, <1>4 DEF Claims
  <1>5. CASE u # w /\ v # w
    BY <1>1, <1>5 DEF Inv, Separate
  <1> QED BY <1>3, <1>4, <1>5

(* What requests read of the tables, when the tables stay as they are. *)
LEMMA ReadsStay ==
    ASSUME UNCHANGED dbVars
    PROVE  /\ \A sp : IsActive(sp)' <=> IsActive(sp)
           /\ \A s : (Live(s)' <=> Live(s)) /\ (RetiredByReset(s)' <=> RetiredByReset(s))
           /\ \A g : LiveIn(g)' = LiveIn(g)
           /\ Made' = Made /\ Seeded' = Seeded /\ ActiveGeneration' = ActiveGeneration
           /\ RetiredGenerations' = RetiredGenerations
  <1>1. /\ \A sp : IsActive(sp)' <=> IsActive(sp)
        /\ \A s : (Live(s)' <=> Live(s)) /\ (RetiredByReset(s)' <=> RetiredByReset(s))
        /\ \A g : LiveIn(g)' = LiveIn(g)
    BY DEF dbVars, Live, IsActive, ActiveGenerations, RetiredByReset, LiveIn
  <1>2. /\ Made' = Made /\ Seeded' = Seeded /\ ActiveGeneration' = ActiveGeneration
        /\ RetiredGenerations' = RetiredGenerations
    BY DEF dbVars, Made, Seeded, ActiveGeneration, ActiveGenerations, NextGeneration,
       RetiredGenerations
  <1> QED BY <1>1, <1>2

(* A step that only moves one request, at some time. *)
LEMMA Moved ==
    ASSUME Inv, NEW w \in Worker, NEW q \in Request, tr' = [tr EXCEPT ![w] = q],
           UNCHANGED dbVars, clock' \in 0 .. MaxClock, Claims(w, q.held), Budget',
           Remembers(q), Keys(q), Seen(q)
    PROVE  Inv'
  <1>0. /\ UNCHANGED <<spaces, enabled, accounts, sessions, issued, parent, rows, feed>>
        /\ tr'[w] = q
    BY DEF dbVars, Inv, TypeOK
  <1>1. TypeOK'
    BY <1>0 DEF Inv, TypeOK
  <1>2. Separate'
    BY SeparateStays
  <1>3. Sound'
    BY <1>0 DEF Inv, Sound, OneCurrent, LiveInside, Usable, IsActive, ActiveGenerations,
       Fresh, SpentParents, FeedsCarryAccounts
  <1>4. Careful(w)
    <2>1. issued <= issued'
      BY <1>0, SandboxAssumption DEF Inv, TypeOK
    <2>2. \A s \in Session : Live(s)' <=> Live(s)
      BY <1>0 DEF Live, IsActive, ActiveGenerations
    <2> QED BY <1>0, <2>1, <2>2 DEF Careful
  <1>5. Remembers(tr[w])'
    BY <1>0 DEF Remembers
  <1>6. Keys(tr[w])'
    BY <1>0 DEF Keys, Share, Update
  <1>7. Seen(tr[w])'
    BY <1>0, ReadsStay DEF Seen
  <1> QED BY <1>1, <1>2, <1>3, <1>4, <1>5, <1>6, <1>7, StepKeeps

(* A step that issues no session and starts no replacement stays in bounds. *)
LEMMA BudgetStays ==
    ASSUME Inv, NEW w \in Worker, NEW q, tr' = [tr EXCEPT ![w] = q], issued' = issued,
           q.kind = tr[w].kind \/ q.kind \notin Replacements
    PROVE  Budget'
  <1>1. IsFiniteSet(Replacing)
    BY SandboxAssumption, FS_Subset DEF Replacing
  <1>2. Replacing' \in SUBSET Replacing
    <2>1. /\ tr'[w] = q
          /\ \A v \in Worker \ {w} : tr'[v] = tr[v]
      BY DEF Inv, TypeOK
    <2> QED BY <2>1 DEF Replacing, Replacements
  <1>3. Cardinality(Replacing') <= Cardinality(Replacing)
    BY <1>1, <1>2, FS_Subset
  <1>4. Cardinality(Replacing') \in Nat /\ Cardinality(Replacing) \in Nat
    BY <1>1, <1>2, FS_Subset, FS_CardinalityType
  <1>5. issued \in Nat /\ MaxSession \in Nat /\ Cardinality(Replacing)' = Cardinality(Replacing')
    BY SandboxAssumption DEF Inv, TypeOK
  <1> QED BY <1>3, <1>4, <1>5 DEF Inv, Budget

(* A request that goes on, with locks it holds or is granted. *)
LEMMA Goes ==
    ASSUME Inv, NEW w \in Worker, NEW q \in Request, Goto(w, q),
           NEW locks, Granted(w, locks), q.held \subseteq tr[w].held \cup locks,
           q.kind = tr[w].kind \/ q.kind \notin Replacements,
           Remembers(q), Keys(q), Seen(q)
    PROVE  Inv'
  <1>1. tr' = [tr EXCEPT ![w] = q] /\ UNCHANGED dbVars /\ clock' = clock
    BY DEF Goto
  <1>2. issued' = issued
    BY <1>1 DEF dbVars
  <1>3. clock' \in 0 .. MaxClock
    BY <1>1 DEF Inv, TypeOK
  <1>4. Budget'
    BY <1>1, <1>2, BudgetStays
  <1>5. Claims(w, q.held)
    BY GrantedClaims
  <1> QED BY <1>1, <1>3, <1>4, <1>5, Moved

(* No request is a request, and relies on nothing. *)
LEMMA IdleFacts ==
    /\ Idle \in Request /\ Idle.held = {} /\ Idle.kind = "none" /\ Idle.pc = "idle"
    /\ Remembers(Idle) /\ Keys(Idle) /\ Seen(Idle)
  <1>1. /\ Idle.held = {} /\ Idle.kind = "none" /\ Idle.pc = "idle"
    BY DEF Idle
  <1>2. Idle \in Request
    <2>1. [u \in User |-> 0] \in [User -> Nat]
      OBVIOUS
    <2> QED BY <2>1 DEF Idle, Request, Production, Space
  <1>3. Remembers(Idle)
    BY <1>1 DEF Remembers, OfSession, Replacements
  <1>4. Keys(Idle) /\ Seen(Idle)
    BY <1>1 DEF Keys, Seen
  <1> QED BY <1>1, <1>2, <1>3, <1>4

(* A refused request has nothing to remember. *)
LEMMA Refused ==
    ASSUME Inv, NEW w \in Worker, Refuse(w)
    PROVE  Inv'
  <1>1. Granted(w, {})
    BY DEF Granted, Grantable
  <1> QED BY <1>1, IdleFacts, Goes DEF Refuse, Replacements

-----------------------------------------------------------------------------
(* --- The fields of a request that moves on ------------------------------ *)
(* Who asks for what does not change after the request was sent. *)
Same(r, q) ==
    /\ r.kind = q.kind /\ r.session = q.session /\ r.user = q.user
    /\ r.space = q.space /\ r.sandbox = q.sandbox /\ r.whom = q.whom

(* What a request carries over when it is where it has its locks. *)
Carries(t, r, pc, locks) ==
    /\ t \in Request /\ Same(t, r) /\ t.pc = pc /\ t.held = locks
    /\ t.target = r.target /\ t.at = r.at /\ t.revoked = r.revoked
    /\ t.into = r.into /\ t.seed = r.seed

LEMMA StagedFields ==
    ASSUME NEW q \in Request, NEW pc \in Stages, NEW locks \in SUBSET Lock,
           NEW r, r = [q EXCEPT !.pc = pc, !.held = locks]
    PROVE  Carries(r, q, pc, locks)
  <1>1. r \in Request
    BY DEF Request, Lock, Stages
  <1>2. Same(r, q) /\ r.pc = pc /\ r.held = locks
    BY DEF Request, Same
  <1>3. /\ r.target = q.target /\ r.at = q.at /\ r.revoked = q.revoked
        /\ r.into = q.into /\ r.seed = q.seed
    BY DEF Request
  <1> QED BY <1>1, <1>2, <1>3 DEF Carries

(* What a request has read of its session when it is sent. *)
Reads(q, kind, s) ==
    /\ q \in Request /\ q.pc = "asked" /\ q.kind = kind /\ q.held = {}
    /\ q.session = s /\ q.session \in 1 .. issued /\ q.user \in User
    /\ q.user = sessions[s].user /\ q.space = sessions[s].space

LEMMA PrincipalFacts ==
    ASSUME Inv, NEW s \in Session, sessions[s] # NoSession, NEW kind \in OfSession
    PROVE  Reads(Principal(kind, s), kind, s)
  <1> DEFINE p == Principal(kind, s)
  <1>1. s \in 1 .. issued /\ sessions[s].user \in User /\ sessions[s].space \in Space
    BY LiveFacts
  <1>2. p \in Request
    BY <1>1, IdleFacts DEF Principal, Request, OfSession
  <1>3. /\ p.pc = "asked" /\ p.kind = kind /\ p.held = {} /\ p.session = s
        /\ p.user = sessions[s].user /\ p.space = sessions[s].space
    BY DEF Principal, Idle
  <1> HIDE DEF p
  <1>4. Reads(p, kind, s)
    BY <1>1, <1>2, <1>3 DEF Reads
  <1> QED BY <1>4 DEF p

(* And what it is asked for. *)
LEMMA AskedFacts ==
    ASSUME NEW p, NEW kind, NEW s, Reads(p, kind, s)
    PROVE  /\ \A b \in BOOLEAN : /\ Reads([p EXCEPT !.sandbox = b], kind, s)
                                 /\ [p EXCEPT !.sandbox = b].sandbox = b
           /\ \A g \in Space : /\ Reads([p EXCEPT !.target = g], kind, s)
                               /\ [p EXCEPT !.target = g].target = g
           /\ \A u \in User : /\ Reads([p EXCEPT !.whom = u], kind, s)
                              /\ [p EXCEPT !.whom = u].whom = u
  <1>1. ASSUME NEW b \in BOOLEAN
        PROVE  Reads([p EXCEPT !.sandbox = b], kind, s) /\ [p EXCEPT !.sandbox = b].sandbox = b
    BY DEF Reads, Request
  <1>2. ASSUME NEW g \in Space
        PROVE  Reads([p EXCEPT !.target = g], kind, s) /\ [p EXCEPT !.target = g].target = g
    BY DEF Reads, Request
  <1>3. ASSUME NEW u \in User
        PROVE  Reads([p EXCEPT !.whom = u], kind, s) /\ [p EXCEPT !.whom = u].whom = u
    BY DEF Reads, Request
  <1> QED BY <1>1, <1>2, <1>3

-----------------------------------------------------------------------------
(* --- The requests that are sent ------------------------------------------ *)
(* A request that holds nothing yet and has validated nothing. *)
LEMMA Sent ==
    ASSUME Inv, NEW w \in Worker, NEW q \in Request, Goto(w, q),
           q.pc \in {"asked", "ensuring"}, q.held = {}, Remembers(q), Budget'
    PROVE  Inv'
  <1>1. tr' = [tr EXCEPT ![w] = q] /\ UNCHANGED dbVars /\ clock' \in 0 .. MaxClock
    BY DEF Goto, Inv, TypeOK
  <1>2. Keys(q) /\ Seen(q)
    BY DEF Keys, Seen
  <1>3. Claims(w, q.held)
    BY DEF Claims
  <1> QED BY <1>1, <1>2, <1>3, Moved

LEMMA SentOther ==
    ASSUME Inv, NEW w \in Worker, NEW q \in Request, Goto(w, q),
           q.pc \in {"asked", "ensuring"}, q.held = {}, Remembers(q),
           q.kind \notin Replacements
    PROVE  Inv'
  <1>1. tr' = [tr EXCEPT ![w] = q] /\ issued' = issued
    BY DEF Goto, dbVars
  <1> QED BY <1>1, BudgetStays, Sent

(* A replacement is promised within the bound. *)
LEMMA SentReplacement ==
    ASSUME Inv, NEW w \in Worker, NEW q \in Request, Goto(w, q),
           issued + Cardinality(Replacing) < MaxSession,
           q.pc = "asked", q.held = {}, Remembers(q)
    PROVE  Inv'
  <1>1. tr' = [tr EXCEPT ![w] = q] /\ issued' = issued
    BY DEF Goto, dbVars
  <1>2. IsFiniteSet(Replacing) /\ Cardinality(Replacing) \in Nat
    BY SandboxAssumption, FS_Subset, FS_CardinalityType DEF Replacing
  <1>3. Replacing' \in SUBSET (Replacing \cup {w})
    <2>1. \A v \in Worker \ {w} : tr'[v] = tr[v]
      BY <1>1 DEF Inv, TypeOK
    <2> QED BY <2>1 DEF Replacing
  <1>4. /\ IsFiniteSet(Replacing \cup {w})
        /\ Cardinality(Replacing \cup {w}) \in
              {Cardinality(Replacing), Cardinality(Replacing) + 1}
    BY <1>2, FS_AddElement
  <1>5. /\ IsFiniteSet(Replacing')
        /\ Cardinality(Replacing') <= Cardinality(Replacing \cup {w})
    BY <1>3, <1>4, FS_Subset
  <1>6. Cardinality(Replacing') \in Nat
    BY <1>5, FS_CardinalityType
  <1>7. Cardinality(Replacing') <= Cardinality(Replacing) + 1
    BY <1>2, <1>4, <1>5, <1>6
  <1>8. issued \in Nat /\ MaxSession \in Nat
    BY SandboxAssumption DEF Inv, TypeOK
  <1>9. issued' + Cardinality(Replacing') <= MaxSession
    BY <1>1, <1>2, <1>6, <1>7, <1>8
  <1>10. Budget'
    BY <1>9 DEF Budget
  <1> QED BY <1>10, Sent

(* The handlers that only read (Ask...) remember what they have read. *)
LEMMA AskKeeps ==
    ASSUME Inv, NEW w \in Worker, Ask(w)
    PROVE  Inv'
  <1> USE DEF Production
  <1>0. /\ Production \in Space /\ 0 \in {0} \cup User /\ FALSE \in BOOLEAN
        /\ \A s \in Session : Live(s) \/ RetiredByReset(s) => sessions[s] # NoSession
    BY DEF Space, Live, RetiredByReset
  <1>1. ASSUME NEW s \in Session, AskWrite(w, s) PROVE Inv'
    <2> DEFINE p == Principal("write", s)
    <2>1. Goto(w, p) /\ sessions[s] # NoSession /\ sessions[s].space # Production
      BY <1>0, <1>1 DEF AskWrite
    <2>2. Reads(p, "write", s)
      BY <1>0, <2>1, PrincipalFacts DEF OfSession
    <2> HIDE DEF p
    <2>3. Remembers(p)
      BY <2>1, <2>2 DEF Remembers, Reads, OfSession, Replacements
    <2> QED BY <2>1, <2>2, <2>3, SentOther DEF Replacements, Reads
  <1>2. ASSUME NEW s \in Session, NEW b \in BOOLEAN, AskSwitch(w, s, b) PROVE Inv'
    <2>1. PICK kind \in Replacements :
             /\ Goto(w, [Principal(kind, s) EXCEPT !.sandbox = b])
             /\ sessions[s] # NoSession
             /\ kind = "switch" => b = (sessions[s].space = Production)
      BY <1>0, <1>2 DEF AskSwitch, Replacements
    <2> DEFINE o == Principal(kind, s)
               p == [o EXCEPT !.sandbox = b]
    <2>2. Goto(w, p)
      BY <2>1
    <2>3. kind \in OfSession
      BY DEF OfSession, Replacements
    <2>4. Reads(p, kind, s) /\ p.sandbox = b
      <3>1. Reads(o, kind, s)
        BY <2>1, <2>3, PrincipalFacts
      <3> HIDE DEF o
      <3> QED BY <3>1, AskedFacts
    <2> HIDE DEF p
    <2>5. Remembers(p)
      BY <2>1, <2>4 DEF Remembers, Reads, OfSession, Replacements
    <2> QED BY <1>2, <2>2, <2>4, <2>5, SentReplacement DEF AskSwitch, Reads
  <1>3. ASSUME NEW s \in Session, AskStatus(w, s) PROVE Inv'
    <2> DEFINE o == Principal("status", s)
               p == [o EXCEPT !.pc = "ensuring"]
    <2>1. Goto(w, p) /\ sessions[s] # NoSession
      BY <1>0, <1>3 DEF AskStatus
    <2>2. /\ p \in Request /\ p.pc = "ensuring" /\ p.kind = "status" /\ p.held = {}
          /\ p.session = s /\ p.session \in 1 .. issued /\ p.user \in User
          /\ p.user = sessions[s].user /\ p.space = sessions[s].space
      <3>1. Reads(o, "status", s)
        BY <2>1, PrincipalFacts DEF OfSession
      <3> HIDE DEF o
      <3> QED BY <3>1 DEF Reads, Request
    <2> HIDE DEF p
    <2>4. Remembers(p)
      BY <2>2 DEF Remembers, Reads, OfSession, Replacements
    <2> QED BY <2>1, <2>2, <2>4, SentOther DEF Replacements, Reads
  <1>4. ASSUME NEW s \in Session, NEW b \in BOOLEAN, AskConfigure(w, s, b) PROVE Inv'
    <2> DEFINE o == Principal("configure", s)
               p == [o EXCEPT !.sandbox = b]
    <2>1. Goto(w, p) /\ sessions[s] # NoSession
      BY <1>0, <1>4 DEF AskConfigure
    <2>2. Reads(p, "configure", s)
      <3>1. Reads(o, "configure", s)
        BY <2>1, PrincipalFacts DEF OfSession
      <3> HIDE DEF o
      <3> QED BY <3>1, AskedFacts
    <2> HIDE DEF p
    <2>3. Remembers(p)
      BY <2>2 DEF Remembers, Reads, OfSession, Replacements
    <2> QED BY <2>1, <2>2, <2>3, SentOther DEF Replacements, Reads
  <1>5. ASSUME NEW s \in Session, AskReset(w, s) PROVE Inv'
    <2>0. PICK g \in Generation : g = ActiveGeneration /\ g + 1 \in Generation /\ g \in Space
      BY <1>5, SandboxAssumption DEF AskReset, Generation, Space
    <2> DEFINE o == Principal("reset", s)
               p == [o EXCEPT !.target = g]
    <2>1. Goto(w, p) /\ sessions[s] # NoSession
      BY <1>0, <1>5, <2>0 DEF AskReset
    <2>2. Reads(p, "reset", s) /\ p.target = g
      <3>1. Reads(o, "reset", s)
        BY <2>1, PrincipalFacts DEF OfSession
      <3> HIDE DEF o
      <3> QED BY <2>0, <3>1, AskedFacts
    <2> HIDE DEF p
    <2>3. Remembers(p)
      BY <2>0, <2>2 DEF Remembers, Reads, OfSession, Replacements
    <2> QED BY <2>1, <2>2, <2>3, SentOther DEF Replacements, Reads
  <1>6. ASSUME NEW s \in Session, NEW u \in User, AskChange(w, s, u) PROVE Inv'
    <2> DEFINE o == Principal("change", s)
               p == [o EXCEPT !.whom = u]
    <2>1. Goto(w, p) /\ sessions[s] # NoSession
      BY <1>0, <1>6 DEF AskChange
    <2>2. Reads(p, "change", s) /\ p.whom = u
      <3>1. Reads(o, "change", s)
        BY <2>1, PrincipalFacts DEF OfSession
      <3> HIDE DEF o
      <3> QED BY <3>1, AskedFacts
    <2> HIDE DEF p
    <2>3. Remembers(p)
      BY <2>2 DEF Remembers, Reads, OfSession, Replacements
    <2> QED BY <2>1, <2>2, <2>3, SentOther DEF Replacements, Reads
  <1>7. ASSUME NEW expired \in SUBSET Generation, AskCleanup(w, expired) PROVE Inv'
    <2> DEFINE locks == {Update(<<"cleanup">>)}
               q == [Idle EXCEPT !.pc = "asked", !.kind = "cleanup",
                                 !.held = locks, !.into = expired]
    <2>1. Goto(w, q) /\ Granted(w, locks)
      BY <1>7 DEF AskCleanup
    <2>2. q.pc = "asked" /\ q.kind = "cleanup" /\ q.held = locks /\ q.into = expired
      BY DEF Idle
    <2>3. q \in Request
      <3>1. locks \in SUBSET Lock /\ expired \in SUBSET Space
        BY DEF Lock, Update, Resource, Space
      <3> HIDE DEF locks
      <3> QED BY <3>1, IdleFacts DEF Request, Lock
    <2> HIDE DEF q, locks
    <2>4. Remembers(q) /\ Keys(q) /\ Seen(q)
      BY <2>2 DEF Remembers, Keys, Seen, OfSession, Replacements
    <2> QED BY <2>1, <2>2, <2>3, <2>4, Goes DEF Replacements
  <1> QED BY <1>1, <1>2, <1>3, <1>4, <1>5, <1>6, <1>7 DEF Ask
-----------------------------------------------------------------------------
(* --- The locks ------------------------------------------------------------ *)
(* The locks that are taken are locks. *)
LEMMA LockTypes ==
    /\ \A r \in Resource : Share(r) \in Lock /\ Update(r) \in Lock
    /\ \A set \in SUBSET Resource : ShareAll(set) \subseteq Lock /\ UpdateAll(set) \subseteq Lock
    /\ <<"tenant">> \in Resource /\ <<"generation">> \in Resource
    /\ <<"organization">> \in Resource /\ <<"cleanup">> \in Resource
    /\ \A u \in User : <<"user", u>> \in Resource
    /\ \A s \in Session : <<"session", s>> \in Resource
    /\ \A sp \in Space : <<"space", sp>> \in Resource
  <1>1. \A r \in Resource : Share(r) \in Lock /\ Update(r) \in Lock
    BY DEF Share, Update, Lock
  <1>2. \A set \in SUBSET Resource : ShareAll(set) \subseteq Lock /\ UpdateAll(set) \subseteq Lock
    BY <1>1 DEF ShareAll, UpdateAll
  <1>3. /\ <<"tenant">> \in Resource /\ <<"generation">> \in Resource
        /\ <<"organization">> \in Resource /\ <<"cleanup">> \in Resource
    BY DEF Resource
  <1>4. \A u \in User : <<"user", u>> \in Resource
    BY DEF Resource
  <1>5. \A s \in Session : <<"session", s>> \in Resource
    BY DEF Resource
  <1>6. \A sp \in Space : <<"space", sp>> \in Resource
    BY DEF Resource
  <1> QED BY <1>1, <1>2, <1>3, <1>4, <1>5, <1>6

(* Who sends a request of a session. *)
LEMMA SenderFacts ==
    ASSUME Inv, NEW w \in Worker
    PROVE  /\ tr[w] \in Request /\ Remembers(tr[w]) /\ Keys(tr[w]) /\ Seen(tr[w])
           /\ tr[w].target \in Space /\ tr[w].space \in Space /\ tr[w].held \in SUBSET Lock
           /\ tr[w].seed \in [User -> Nat] /\ tr[w].at \in Nat
           /\ tr[w].revoked \in SUBSET Session /\ tr[w].into \in SUBSET Space
           /\ tr[w].kind \in OfSession =>
                 /\ tr[w].session \in 1 .. issued /\ tr[w].session \in Session
                 /\ tr[w].user \in User
  <1>1. tr[w] \in Request /\ Remembers(tr[w]) /\ Keys(tr[w]) /\ Seen(tr[w])
    BY DEF Inv, TypeOK, Prepared
  <1>2. issued \in Nat /\ issued <= MaxSession /\ MaxSession \in Nat
    BY SandboxAssumption DEF Inv, TypeOK
  <1>3. tr[w].kind \in OfSession => tr[w].session \in 1 .. issued /\ tr[w].user \in User
    BY <1>1 DEF Remembers
  <1>4. \A s \in 1 .. issued : s \in Session
    BY <1>2 DEF Session
  <1>5. /\ tr[w].target \in Space /\ tr[w].space \in Space /\ tr[w].held \in SUBSET Lock
        /\ tr[w].seed \in [User -> Nat] /\ tr[w].at \in Nat
        /\ tr[w].revoked \in SUBSET Session /\ tr[w].into \in SUBSET Space
    BY <1>1 DEF Request, Lock
  <1> QED BY <1>1, <1>3, <1>4, <1>5

(* What a business write, a replacement and a lifecycle operation take. *)
LEMMA RequestLocks ==
    ASSUME NEW q \in Request, q.user \in User, q.session \in Session
    PROVE  /\ IdentityLocks(q) \in SUBSET Lock
           /\ Share(<<"generation">>) \in IdentityLocks(q)
           /\ Share(<<"session", q.session>>) \in IdentityLocks(q)
           /\ ReplacementLocks(q) \in SUBSET Lock
           /\ Share(<<"generation">>) \in ReplacementLocks(q)
           /\ Update(<<"session", q.session>>) \in ReplacementLocks(q)
           /\ RecoveryLocks(q) \in SUBSET Lock
           /\ Share(<<"generation">>) \in RecoveryLocks(q)
           /\ Update(<<"session", q.session>>) \in RecoveryLocks(q)
           /\ LifecycleLocks(q) \in SUBSET Lock
           /\ Update(<<"generation">>) \in LifecycleLocks(q)
           /\ ResetLocks(q) \in SUBSET Lock
           /\ Update(<<"generation">>) \in ResetLocks(q)
  <1>0. q.space \in Space /\ q.target \in Space
    BY DEF Request
  <1>1. /\ <<"user", q.user>> \in Resource /\ <<"session", q.session>> \in Resource
        /\ <<"space", q.space>> \in Resource /\ <<"space", q.target>> \in Resource
        /\ <<"tenant">> \in Resource /\ <<"generation">> \in Resource
    BY <1>0, LockTypes
  <1>2. /\ IdentityLocks(q) \in SUBSET Lock
        /\ Share(<<"generation">>) \in IdentityLocks(q)
        /\ Share(<<"session", q.session>>) \in IdentityLocks(q)
    BY <1>1, LockTypes DEF IdentityLocks, ShareAll
  <1>3. /\ ReplacementLocks(q) \in SUBSET Lock
        /\ Share(<<"generation">>) \in ReplacementLocks(q)
        /\ Update(<<"session", q.session>>) \in ReplacementLocks(q)
    BY <1>1, LockTypes DEF ReplacementLocks, ShareAll
  <1>4. /\ RecoveryLocks(q) \in SUBSET Lock
        /\ Share(<<"generation">>) \in RecoveryLocks(q)
        /\ Update(<<"session", q.session>>) \in RecoveryLocks(q)
    BY <1>1, LockTypes DEF RecoveryLocks, ShareAll
  <1>5. /\ LifecycleLocks(q) \in SUBSET Lock
        /\ Update(<<"generation">>) \in LifecycleLocks(q)
    BY <1>1, LockTypes DEF LifecycleLocks, ShareAll, UpdateAll
  <1>6. ResetLocks(q) \in SUBSET Lock /\ Update(<<"generation">>) \in ResetLocks(q)
    BY <1>1, <1>5, LockTypes DEF ResetLocks
  <1> QED BY <1>2, <1>3, <1>4, <1>5, <1>6

(* What an activation, a purge and the change of an account take. *)
LEMMA OtherLocks ==
    ASSUME NEW q \in Request
    PROVE  /\ EnsureLocks \in SUBSET Lock /\ Update(<<"generation">>) \in EnsureLocks
           /\ FanOutLocks \in SUBSET Lock /\ Share(<<"generation">>) \in FanOutLocks
           /\ PurgeLocks(q) \in SUBSET Lock /\ Update(<<"generation">>) \in PurgeLocks(q)
           /\ \A set \in SUBSET Session :
                 LET locks == UpdateAll({<<"session", s>> : s \in set})
                 IN  /\ locks \in SUBSET Lock
                     /\ \A s \in set : Update(<<"session", s>>) \in locks
           /\ q.user \in User /\ q.whom \in User /\ q.session \in Session =>
                 /\ ChangeLocks(q) \in SUBSET Lock
                 /\ \A s \in Ended(q) : Update(<<"session", s>>) \in ChangeLocks(q)
  <1>1. EnsureLocks \in SUBSET Lock /\ Update(<<"generation">>) \in EnsureLocks
    BY LockTypes DEF EnsureLocks
  <1>2. FanOutLocks \in SUBSET Lock /\ Share(<<"generation">>) \in FanOutLocks
    BY LockTypes DEF FanOutLocks
  <1>3. PurgeLocks(q) \in SUBSET Lock /\ Update(<<"generation">>) \in PurgeLocks(q)
    <2>1. q.held \in SUBSET Lock /\ q.into \in SUBSET Space
      BY DEF Request, Lock
    <2>2. {<<"space", g>> : g \in q.into} \in SUBSET Resource
      BY <2>1, LockTypes
    <2>3. UpdateAll({<<"space", g>> : g \in q.into}) \subseteq Lock
      BY <2>2, LockTypes
    <2> QED BY <2>1, <2>3, LockTypes DEF PurgeLocks
  <1>4. ASSUME NEW set \in SUBSET Session
        PROVE  LET locks == UpdateAll({<<"session", s>> : s \in set})
               IN  /\ locks \in SUBSET Lock
                   /\ \A s \in set : Update(<<"session", s>>) \in locks
    <2>1. {<<"session", s>> : s \in set} \in SUBSET Resource
      BY LockTypes
    <2>2. UpdateAll({<<"session", s>> : s \in set}) \subseteq Lock
      BY <2>1, LockTypes
    <2>3. \A s \in set : Update(<<"session", s>>) \in UpdateAll({<<"session", x>> : x \in set})
      BY DEF UpdateAll
    <2> QED BY <2>2, <2>3
  <1>5. ASSUME q.user \in User, q.whom \in User, q.session \in Session
        PROVE  /\ ChangeLocks(q) \in SUBSET Lock
               /\ \A s \in Ended(q) : Update(<<"session", s>>) \in ChangeLocks(q)
    <2> DEFINE taken == UpdateAll({<<"session", s>> : s \in Ended(q)})
    <2>1. Ended(q) \in SUBSET Session
      BY DEF Ended, LiveOf
    <2>2. taken \in SUBSET Lock /\ \A s \in Ended(q) : Update(<<"session", s>>) \in taken
      BY <1>4, <2>1
    <2>3. /\ <<"user", q.user>> \in Resource /\ <<"user", q.whom>> \in Resource
          /\ <<"session", q.session>> \in Resource
      BY <1>5, LockTypes
    <2> HIDE DEF taken
    <2>4. ChangeLocks(q) =
             IF q.whom = q.user
             THEN taken \cup {Share(<<"organization">>), Update(<<"user", q.user>>),
                              Share(<<"tenant">>), Update(<<"session", q.session>>)}
             ELSE taken \cup {Update(<<"organization">>), Update(<<"user", q.user>>),
                              Update(<<"user", q.whom>>)}
      BY DEF ChangeLocks, taken
    <2> QED BY <2>2, <2>3, <2>4, LockTypes
  <1> QED BY <1>1, <1>2, <1>3, <1>4, <1>5

(* A request that is granted its locks and goes on with them. *)
LEMMA Entered ==
    ASSUME Inv, NEW w \in Worker, NEW r \in Request, r.kind = tr[w].kind,
           NEW pc \in Stages, NEW locks \in SUBSET Lock, NEW granted, Granted(w, granted),
           locks \subseteq tr[w].held \cup granted,
           Goto(w, [r EXCEPT !.pc = pc, !.held = locks]),
           \A t : Carries(t, r, pc, locks) => Remembers(t) /\ Keys(t) /\ Seen(t)
    PROVE  Inv'
  <1> DEFINE t == [r EXCEPT !.pc = pc, !.held = locks]
  <1>0. t = [r EXCEPT !.pc = pc, !.held = locks]
    OBVIOUS
  <1>1. Carries(t, r, pc, locks)
    <2> HIDE DEF t
    <2> QED BY <1>0, StagedFields
  <1>2. Goto(w, t)
    OBVIOUS
  <1> HIDE DEF t
  <1>3. t \in Request /\ t.held = locks /\ t.kind = tr[w].kind
    BY <1>1 DEF Carries, Same
  <1>4. Remembers(t) /\ Keys(t) /\ Seen(t)
    BY <1>1
  <1> QED BY <1>2, <1>3, <1>4, Goes
-----------------------------------------------------------------------------
(* --- The steps under the locks ------------------------------------------- *)
LEMMA LockWriteKeeps ==
    ASSUME Inv, NEW w \in Worker, LockWrite(w) PROVE Inv'
  <1> DEFINE q == tr[w]
             locks == IdentityLocks(q)
  <1>0. q.kind = "write" /\ Granted(w, locks)
    BY DEF LockWrite, At
  <1>1. CASE Live(q.session) /\ Goto(w, [q EXCEPT !.pc = "staged", !.held = locks])
    <2>1. /\ q \in Request /\ Remembers(q)
          /\ q.session \in Session /\ q.user \in User
      BY <1>0, SenderFacts DEF OfSession
    <2>2. /\ locks \in SUBSET Lock /\ Share(<<"generation">>) \in locks
          /\ Share(<<"session", q.session>>) \in locks
      BY <2>1, RequestLocks
    <2> HIDE DEF q, locks
    <2>3. ASSUME NEW t, Carries(t, q, "staged", locks)
          PROVE  Remembers(t) /\ Keys(t) /\ Seen(t)
      <3>1. Remembers(t)
        BY <1>0, <2>1, <2>3 DEF Carries, Same, Remembers, OfSession, Replacements
      <3>2. Keys(t)
        BY <1>0, <2>2, <2>3 DEF Carries, Same, Keys, Replacements
      <3>3. Seen(t)
        BY <1>0, <1>1, <2>3 DEF Carries, Same, Seen, Replacements
      <3> QED BY <3>1, <3>2, <3>3
    <2> QED BY <1>0, <1>1, <2>1, <2>2, <2>3, Entered DEF q, Stages
  <1> QED BY <1>1, Refused DEF LockWrite, Stage

LEMMA LockReplacementKeeps ==
    ASSUME Inv, NEW w \in Worker, LockSwitch(w) \/ LockRecover(w) PROVE Inv'
  <1> DEFINE q == tr[w]
             locks == IF q.kind = "switch" THEN ReplacementLocks(q) ELSE RecoveryLocks(q)
  <1>0. q.kind \in Replacements /\ q.pc = "aimed" /\ Granted(w, locks)
    BY DEF LockSwitch, LockRecover, At, Replacements
  <1>1. CASE /\ IsActive(q.target)
             /\ q.kind = "switch" => Live(q.session)
             /\ q.kind = "recover" => RetiredByReset(q.session)
             /\ Goto(w, [q EXCEPT !.pc = "staged", !.held = locks])
    <2>1. /\ q \in Request /\ Remembers(q)
          /\ q.session \in Session /\ q.user \in User
      BY <1>0, SenderFacts DEF OfSession, Replacements
    <2>2. /\ locks \in SUBSET Lock /\ Share(<<"generation">>) \in locks
          /\ Update(<<"session", q.session>>) \in locks
      BY <2>1, RequestLocks
    <2> HIDE DEF q, locks
    <2>3. ASSUME NEW t, Carries(t, q, "staged", locks)
          PROVE  Remembers(t) /\ Keys(t) /\ Seen(t)
      <3>1. Remembers(t)
        BY <1>0, <2>1, <2>3 DEF Carries, Same, Remembers, OfSession, Replacements
      <3>2. Keys(t)
        BY <1>0, <2>2, <2>3 DEF Carries, Same, Keys, Replacements
      <3>3. Seen(t)
        BY <1>0, <1>1, <2>3 DEF Carries, Same, Seen, Replacements
      <3> QED BY <3>1, <3>2, <3>3
    <2> QED BY <1>0, <1>1, <2>1, <2>2, <2>3, Entered DEF q, Stages
  <1>2. CASE Refuse(w)
    BY <1>2, Refused
  <1> QED BY <1>1, <1>2 DEF LockSwitch, LockRecover, Stage, Recovers, At

(* The space that a replacement goes to. *)
LEMMA AimKeeps ==
    ASSUME Inv, NEW w \in Worker, Aim(w) PROVE Inv'
  <1> DEFINE q == tr[w]
             target == IF q.sandbox THEN ActiveGeneration ELSE Production
             here == [q EXCEPT !.pc = "ensuring"]
             there == [q EXCEPT !.pc = "aimed", !.target = target]
  <1>1. /\ q.kind \in Replacements /\ q \in Request /\ Remembers(q) /\ q.pc = "asked"
        /\ q.sandbox \in BOOLEAN
    BY SenderFacts DEF Aim, Replacements, Request
  <1>2. target \in Space
    BY ActiveFacts DEF Inv, TypeOK, Sound, Space, Production
  <1>3. Granted(w, {}) /\ q.held \subseteq tr[w].held \cup {}
    BY DEF Granted, Grantable
  <1>4. CASE q.sandbox /\ target = 0 /\ Goto(w, here)
    <2>1. here \in Request /\ Same(here, q) /\ here.pc = "ensuring" /\ here.held = q.held
      BY <1>1 DEF Request, Same
    <2> HIDE DEF q, here, target
    <2>2. Remembers(here)
      BY <1>1, <1>4, <2>1 DEF Remembers, Same, OfSession, Replacements
    <2>3. Keys(here) /\ Seen(here)
      BY <2>1 DEF Keys, Seen
    <2> QED BY <1>3, <1>4, <2>1, <2>2, <2>3, Goes DEF q, Same
  <1>5. CASE ~(q.sandbox /\ target = 0) /\ Goto(w, there)
    <2>1. there \in Request
      <3> HIDE DEF target
      <3> QED BY <1>1, <1>2 DEF Request
    <2>2. Same(there, q) /\ there.pc = "aimed" /\ there.held = q.held /\ there.target = target
      <3> HIDE DEF target
      <3> QED BY <1>1 DEF Request, Same
    <2>3. target # Production <=> q.sandbox
      BY <1>1, <1>5 DEF Production
    <2> HIDE DEF q, there, target
    <2>4. Remembers(there)
      BY <1>1, <1>5, <2>2, <2>3 DEF Remembers, Same, OfSession, Replacements
    <2>5. Keys(there) /\ Seen(there)
      BY <2>2 DEF Keys, Seen
    <2> QED BY <1>3, <1>5, <2>1, <2>2, <2>4, <2>5, Goes DEF q, Same
  <1> QED BY <1>4, <1>5 DEF Aim

(* What an activation would make is a space, and what it seeds a feed. *)
LEMMA MadeTypes ==
    ASSUME Inv
    PROVE  Made \in Space /\ Seeded \in [User -> Nat]
  <1>1. Made \in Space
    BY ActiveFacts DEF Inv, TypeOK, Sound, Space, Production
  <1>2. Seeded \in [User -> Nat]
    BY DEF Seeded, Inv, TypeOK
  <1> QED BY <1>1, <1>2

LEMMA LockEnsureKeeps ==
    ASSUME Inv, NEW w \in Worker, LockEnsure(w) PROVE Inv'
  <1> DEFINE q == tr[w]
             t == [q EXCEPT !.pc = "activating", !.held = EnsureLocks,
                            !.target = Made, !.seed = Seeded]
  <1>1. /\ q \in Request /\ Remembers(q) /\ q.pc = "ensuring"
        /\ Granted(w, EnsureLocks) /\ Goto(w, t)
        /\ EnsureLocks \in SUBSET Lock /\ Update(<<"generation">>) \in EnsureLocks
    BY SenderFacts, OtherLocks DEF LockEnsure
  <1>2. Made \in Space /\ Seeded \in [User -> Nat]
    BY MadeTypes
  <1>3. t \in Request
    BY <1>1, <1>2 DEF Request, Lock
  <1>4. Same(t, q)
    BY <1>1 DEF Request, Same
  <1>5. t.pc = "activating" /\ t.held = EnsureLocks
    BY <1>1 DEF Request
  <1>6. t.target = Made /\ t.seed = Seeded
    BY <1>1 DEF Request
  <1> HIDE DEF q, t
  <1>7. Remembers(t)
    BY <1>1, <1>4, <1>5 DEF Remembers, Same, OfSession, Replacements
  <1>8. Keys(t)
    BY <1>1, <1>5 DEF Keys
  <1>9. Seen(t)
    BY <1>5, <1>6 DEF Seen
  <1> QED BY <1>1, <1>3, <1>4, <1>5, <1>7, <1>8, <1>9, Goes DEF q, Same

LEMMA LockConfigureKeeps ==
    ASSUME Inv, NEW w \in Worker, LockConfigure(w) PROVE Inv'
  <1> DEFINE q == tr[w]
             locks == LifecycleLocks(q)
             x == IF q.sandbox THEN Made ELSE 0
             r == [q EXCEPT !.target = x, !.seed = Seeded]
  <1>0. q.kind = "configure" /\ Granted(w, locks)
    BY DEF LockConfigure, At
  <1>1. CASE Goto(w, [r EXCEPT !.pc = "staged", !.held = locks])
    <2>1. /\ q \in Request /\ Remembers(q) /\ q.session \in Session /\ q.user \in User
      BY <1>0, SenderFacts DEF OfSession
    <2>2. locks \in SUBSET Lock /\ Update(<<"generation">>) \in locks
      BY <2>1, RequestLocks
    <2>3. x \in Space /\ x \in {0, Made} /\ Seeded \in [User -> Nat]
      BY MadeTypes DEF Space, Production
    <2> HIDE DEF x
    <2>4. r \in Request /\ Same(r, q) /\ r.target = x /\ r.seed = Seeded
      <3>1. r \in Request
        BY <2>1, <2>3 DEF Request
      <3>2. Same(r, q)
        BY <2>1 DEF Request, Same
      <3>3. r.target = x /\ r.seed = Seeded
        BY <2>1 DEF Request
      <3> QED BY <3>1, <3>2, <3>3
    <2>5. r.kind = tr[w].kind
      BY <2>4 DEF Same
    <2> HIDE DEF q, locks, r
    <2>6. ASSUME NEW t, Carries(t, r, "staged", locks)
          PROVE  Remembers(t) /\ Keys(t) /\ Seen(t)
      <3>1. Remembers(t)
        BY <1>0, <2>1, <2>4, <2>6 DEF Carries, Same, Remembers, OfSession, Replacements
      <3>2. Keys(t)
        BY <1>0, <2>2, <2>4, <2>6 DEF Carries, Same, Keys, Replacements
      <3>3. Seen(t)
        BY <1>0, <2>3, <2>4, <2>6 DEF Carries, Same, Seen, Replacements
      <3> QED BY <3>1, <3>2, <3>3
    <2> QED BY <1>0, <1>1, <2>2, <2>4, <2>5, <2>6, Entered DEF Stages
  <1> QED BY <1>1, Refused DEF LockConfigure, Stage

(* The reset looks at its generation under the locks, at a time of its own. *)
LEMMA LockResetKeeps ==
    ASSUME Inv, NEW w \in Worker, LockReset(w) PROVE Inv'
  <1> DEFINE q == tr[w]
             locks == ResetLocks(q)
             t == [q EXCEPT !.pc = "retiring", !.held = locks,
                            !.at = clock + 1, !.seed = Seeded]
  <1>0. q.kind = "reset" /\ Granted(w, locks) /\ clock < MaxClock
    BY DEF LockReset, At
  <1>1. CASE /\ ActiveGeneration = q.target
             /\ clock' = clock + 1 /\ tr' = [tr EXCEPT ![w] = t] /\ UNCHANGED dbVars
    <2>1. /\ q \in Request /\ Remembers(q) /\ q.session \in Session /\ q.user \in User
      BY <1>0, SenderFacts DEF OfSession
    <2>2. locks \in SUBSET Lock /\ Update(<<"generation">>) \in locks
      BY <2>1, RequestLocks
    <2>3. Seeded \in [User -> Nat] /\ clock + 1 \in Nat /\ clock' \in 0 .. MaxClock
      BY <1>0, <1>1, MadeTypes, SandboxAssumption DEF Inv, TypeOK
    <2> HIDE DEF locks
    <2>4. t \in Request
      BY <2>1, <2>2, <2>3 DEF Request, Lock
    <2>5. Same(t, q)
      BY <2>1 DEF Request, Same
    <2>6. t.pc = "retiring" /\ t.held = locks
      BY <2>1 DEF Request
    <2>7. t.target = q.target /\ t.seed = Seeded
      BY <2>1 DEF Request
    <2>8. tr' = [tr EXCEPT ![w] = t]
      BY <1>1
    <2> HIDE DEF t
    <2>9. Claims(w, t.held)
      <3>1. t.held \subseteq tr[w].held \cup locks
        BY <2>6
      <3> QED BY <1>0, <3>1, GrantedClaims
    <2>10. Budget'
      <3>1. issued' = issued /\ t.kind = tr[w].kind
        BY <1>1, <2>5 DEF dbVars, Same
      <3> QED BY <2>8, <3>1, BudgetStays
    <2> HIDE DEF q
    <2>11. Remembers(t)
      BY <1>0, <2>1, <2>5, <2>6, <2>7 DEF Remembers, Same, OfSession, Replacements
    <2>12. Keys(t)
      BY <2>2, <2>6 DEF Keys
    <2>13. Seen(t)
      BY <1>1, <2>6, <2>7 DEF Seen
    <2> QED BY <1>1, <2>3, <2>4, <2>8, <2>9, <2>10, <2>11, <2>12, <2>13, Moved
  <1> QED BY <1>1, Refused DEF LockReset

(* It takes the sessions of its generation, which it still sees as active. *)
LEMMA ResetRevokeKeeps ==
    ASSUME Inv, NEW w \in Worker, ResetRevoke(w) PROVE Inv'
  <1> DEFINE q == tr[w]
             gone == LiveIn(q.target)
             taken == UpdateAll({<<"session", s>> : s \in gone})
             r == [q EXCEPT !.revoked = gone]
             locks == q.held \cup taken
  <1>1. /\ q.kind = "reset" /\ q.pc = "retiring" /\ Granted(w, taken)
        /\ Goto(w, [r EXCEPT !.pc = "staged", !.held = locks])
    BY DEF ResetRevoke, At, Stage
  <1>2. /\ q \in Request /\ Remembers(q) /\ Keys(q) /\ Seen(q) /\ q.held \in SUBSET Lock
    BY SenderFacts
  <1>3. gone \in SUBSET Session /\ \A s \in gone : Live(s)
    BY DEF LiveIn
  <1>4. gone = LiveIn(q.target)
    OBVIOUS
  <1> HIDE DEF gone
  <1>5. taken \in SUBSET Lock /\ \A s \in gone : Update(<<"session", s>>) \in taken
    BY <1>2, <1>3, OtherLocks
  <1>6. r \in Request /\ r.revoked = gone
    BY <1>2, <1>3 DEF Request
  <1>7. Same(r, q)
    BY <1>2 DEF Request, Same
  <1>8. r.target = q.target /\ r.seed = q.seed
    BY <1>2 DEF Request
  <1> HIDE DEF taken, r
  <1>9. ASSUME NEW t, Carries(t, r, "staged", locks)
        PROVE  Remembers(t) /\ Keys(t) /\ Seen(t)
    <2> HIDE DEF q
    <2>0. /\ t.pc = "staged" /\ t.kind = "reset" /\ t.revoked = gone
          /\ t.target = q.target /\ t.seed = q.seed
          /\ t.held = q.held \cup taken /\ Same(t, q)
      BY <1>1, <1>6, <1>7, <1>8, <1>9 DEF Carries, Same
    <2>1. Remembers(t)
      BY <1>1, <1>2, <2>0 DEF Same, Remembers, OfSession, Replacements
    <2>2. Keys(t)
      BY <1>1, <1>2, <1>5, <2>0 DEF Keys, Replacements
    <2>3. Seen(t)
      BY <1>1, <1>2, <1>3, <1>4, <2>0 DEF Seen, Replacements
    <2> QED BY <2>1, <2>2, <2>3
  <1>10. r.kind = tr[w].kind /\ locks \in SUBSET Lock /\ locks \subseteq tr[w].held \cup taken
    BY <1>2, <1>5, <1>7 DEF Same
  <1> HIDE DEF locks
  <1> QED BY <1>1, <1>6, <1>9, <1>10, Entered DEF Stages

(* The purge keeps, of what it was told has expired, what is retired. *)
LEMMA LockCleanupKeeps ==
    ASSUME Inv, NEW w \in Worker, LockCleanup(w) PROVE Inv'
  <1> DEFINE q == tr[w]
             left == q.into \cap RetiredGenerations
             locks == PurgeLocks(q)
             r == [q EXCEPT !.into = left]
  <1>1. /\ q.kind = "cleanup" /\ Granted(w, locks)
        /\ Goto(w, [r EXCEPT !.pc = "staged", !.held = locks])
    BY DEF LockCleanup, At, Stage
  <1>2. q \in Request /\ Remembers(q)
    BY SenderFacts
  <1>3. /\ left \in SUBSET Space /\ left \subseteq RetiredGenerations
        /\ left \subseteq Generation
    BY <1>2 DEF Request, RetiredGenerations
  <1>4. locks \in SUBSET Lock /\ Update(<<"generation">>) \in locks
    BY <1>2, OtherLocks
  <1> HIDE DEF left, locks
  <1>5. r \in Request /\ r.into = left
    BY <1>2, <1>3 DEF Request
  <1>6. Same(r, q)
    BY <1>2 DEF Request, Same
  <1>7. r.kind = tr[w].kind
    BY <1>6 DEF Same
  <1> HIDE DEF q, r
  <1>8. ASSUME NEW t, Carries(t, r, "staged", locks)
        PROVE  Remembers(t) /\ Keys(t) /\ Seen(t)
    <2>0. /\ t.pc = "staged" /\ t.kind = "cleanup" /\ t.into = left /\ t.held = locks
      BY <1>1, <1>5, <1>6, <1>8 DEF Carries, Same
    <2>1. Remembers(t)
      BY <1>3, <2>0 DEF Remembers, OfSession, Replacements
    <2>2. Keys(t)
      BY <1>4, <2>0 DEF Keys, Replacements
    <2>3. Seen(t)
      BY <1>3, <2>0 DEF Seen, Replacements
    <2> QED BY <2>1, <2>2, <2>3
  <1> QED BY <1>1, <1>4, <1>5, <1>7, <1>8, Entered DEF Stages

(* The transaction of an account change begins. *)
LEMMA BeginChangeKeeps ==
    ASSUME Inv, NEW w \in Worker, BeginChange(w) PROVE Inv'
  <1> DEFINE q == tr[w]
             t == [q EXCEPT !.pc = "begun", !.at = clock + 1]
  <1>1. /\ q.kind = "change" /\ clock < MaxClock /\ clock' = clock + 1 /\ UNCHANGED dbVars
    BY DEF BeginChange, At
  <1>2. q \in Request /\ Remembers(q)
    BY SenderFacts
  <1>3. tr' = [tr EXCEPT ![w] = t]
    BY DEF BeginChange
  <1>4. clock + 1 \in Nat /\ clock' \in 0 .. MaxClock
    BY <1>1, SandboxAssumption DEF Inv, TypeOK
  <1>5. t \in Request
    BY <1>2, <1>4 DEF Request
  <1>6. Same(t, q)
    BY <1>2 DEF Request, Same
  <1>7. t.pc = "begun" /\ t.held = q.held
    BY <1>2 DEF Request
  <1> HIDE DEF t
  <1>8. Claims(w, t.held)
    <2>1. Granted(w, {}) /\ t.held \subseteq tr[w].held \cup {}
      BY <1>7 DEF Granted, Grantable
    <2> QED BY <2>1, GrantedClaims
  <1>9. Budget'
    <2>1. issued' = issued /\ t.kind = tr[w].kind
      BY <1>1, <1>6 DEF dbVars, Same
    <2> QED BY <1>3, <2>1, BudgetStays
  <1> HIDE DEF q
  <1>10. Remembers(t)
    BY <1>1, <1>2, <1>6, <1>7 DEF Remembers, Same, OfSession, Replacements
  <1>11. Keys(t) /\ Seen(t)
    BY <1>7 DEF Keys, Seen
  <1> QED BY <1>1, <1>3, <1>4, <1>5, <1>8, <1>9, <1>10, <1>11, Moved

(* It finds the sessions it ends, and takes them. *)
LEMMA StageChangeKeeps ==
    ASSUME Inv, NEW w \in Worker, StageChange(w) PROVE Inv'
  <1> DEFINE q == tr[w]
             gone == Ended(q)
             locks == ChangeLocks(q)
             t == [q EXCEPT !.pc = "changed", !.held = locks, !.revoked = gone]
  <1>1. q.kind = "change" /\ Granted(w, locks)
    BY DEF StageChange, At
  <1>2. CASE Goto(w, t)
    <2>1. /\ q \in Request /\ Remembers(q) /\ q.session \in Session /\ q.user \in User
      BY <1>1, SenderFacts DEF OfSession
    <2>2. q.whom \in User
      BY <1>1, <2>1 DEF Remembers
    <2>3. locks \in SUBSET Lock /\ \A s \in gone : Update(<<"session", s>>) \in locks
      BY <2>1, <2>2, OtherLocks
    <2>4. gone \in SUBSET Session /\ \A s \in gone : Live(s)
      BY DEF Ended, LiveOf
    <2> HIDE DEF gone, locks
    <2>5. t \in Request
      BY <2>1, <2>3, <2>4 DEF Request, Lock
    <2>6. Same(t, q)
      BY <2>1 DEF Request, Same
    <2>7. t.pc = "changed" /\ t.held = locks
      BY <2>1 DEF Request
    <2>8. t.revoked = gone
      BY <2>1 DEF Request
    <2> HIDE DEF t
    <2>9. t.kind = tr[w].kind /\ t.held \subseteq tr[w].held \cup locks
      BY <2>6, <2>7 DEF Same
    <2>10. Remembers(t)
      <3> HIDE DEF q
      <3> QED BY <1>1, <2>1, <2>6, <2>7 DEF Remembers, Same, OfSession, Replacements
    <2>11. Keys(t)
      BY <2>3, <2>7, <2>8 DEF Keys
    <2>12. Seen(t)
      BY <2>4, <2>7, <2>8 DEF Seen
    <2> QED BY <1>1, <1>2, <2>5, <2>9, <2>10, <2>11, <2>12, Goes
  <1> QED BY <1>2, Refused DEF StageChange

(* It lists the spaces that are active, under the generation lock. *)
LEMMA FanOutKeeps ==
    ASSUME Inv, NEW w \in Worker, FanOut(w) PROVE Inv'
  <1> DEFINE q == tr[w]
             listed == {sp \in Space : IsActive(sp)}
             r == [q EXCEPT !.into = listed]
             locks == q.held \cup FanOutLocks
  <1>1. /\ q.kind = "change" /\ q.pc = "changed" /\ Granted(w, FanOutLocks)
        /\ Goto(w, [r EXCEPT !.pc = "staged", !.held = locks])
    BY DEF FanOut, At, Stage
  <1>2. /\ q \in Request /\ Remembers(q) /\ Keys(q) /\ Seen(q) /\ q.held \in SUBSET Lock
    BY SenderFacts
  <1>3. listed \in SUBSET Space /\ listed = {sp \in Space : IsActive(sp)}
    OBVIOUS
  <1>4. FanOutLocks \in SUBSET Lock /\ Share(<<"generation">>) \in FanOutLocks
    BY <1>2, OtherLocks
  <1> HIDE DEF listed
  <1>5. r \in Request /\ r.into = listed
    BY <1>2, <1>3 DEF Request
  <1>6. Same(r, q)
    BY <1>2 DEF Request, Same
  <1>7. r.revoked = q.revoked
    BY <1>2 DEF Request
  <1> HIDE DEF r
  <1>8. ASSUME NEW t, Carries(t, r, "staged", locks)
        PROVE  Remembers(t) /\ Keys(t) /\ Seen(t)
    <2> HIDE DEF q
    <2>0. /\ t.pc = "staged" /\ t.kind = "change" /\ t.into = listed
          /\ t.revoked = q.revoked
          /\ t.held = q.held \cup FanOutLocks /\ Same(t, q)
      BY <1>1, <1>5, <1>6, <1>7, <1>8 DEF Carries, Same
    <2>1. Remembers(t)
      BY <1>1, <1>2, <2>0 DEF Same, Remembers, OfSession, Replacements
    <2>2. Keys(t)
      BY <1>1, <1>2, <1>4, <2>0 DEF Keys, Replacements
    <2>3. Seen(t)
      BY <1>1, <1>2, <1>3, <2>0 DEF Seen, Replacements
    <2> QED BY <2>1, <2>2, <2>3
  <1>9. /\ r.kind = tr[w].kind /\ locks \in SUBSET Lock
        /\ locks \subseteq tr[w].held \cup FanOutLocks
    BY <1>2, <1>4, <1>6 DEF Same
  <1> HIDE DEF locks
  <1> QED BY <1>1, <1>5, <1>8, <1>9, Entered DEF Stages
-----------------------------------------------------------------------------
(* --- The commits ----------------------------------------------------------- *)
(* A commit that leaves its worker without a request. *)
LEMMA Committed ==
    ASSUME Inv, NEW w \in Worker, tr' = [tr EXCEPT ![w] = Idle], Careful(w),
           TypeOK', Sound', Budget'
    PROVE  Inv'
  <1>1. tr'[w] = Idle
    BY DEF Inv, TypeOK
  <1>2. Claims(w, Idle.held)
    BY IdleFacts DEF Claims
  <1>3. Separate'
    BY <1>2, IdleFacts, SeparateStays
  <1>4. Remembers(tr[w])'
    BY <1>1, IdleFacts DEF Remembers, OfSession, Replacements
  <1>5. Keys(tr[w])' /\ Seen(tr[w])'
    BY <1>1, IdleFacts DEF Keys, Seen
  <1> QED BY <1>3, <1>4, <1>5, StepKeeps

(* Its budget, when it has issued no session. *)
LEMMA CommitBudget ==
    ASSUME Inv, NEW w \in Worker, tr' = [tr EXCEPT ![w] = Idle], issued' = issued
    PROVE  Budget'
  BY IdleFacts, BudgetStays DEF Replacements

LEMMA CommitWriteKeeps ==
    ASSUME Inv, NEW w \in Worker, CommitWrite(w) PROVE Inv'
  <1>1. /\ tr[w].kind = "write" /\ tr[w].pc = "staged"
        /\ rows' = rows \cup {<<tr[w].space, tr[w].session>>}
        /\ tr' = [tr EXCEPT ![w] = Idle]
        /\ UNCHANGED <<spaces, enabled, accounts, sessions, issued, parent, feed, clock>>
    BY DEF CommitWrite, At
  <1>2. /\ tr[w].session \in Session /\ tr[w].space \in Space
        /\ tr[w].space # Production
    BY <1>1, SenderFacts DEF OfSession, Remembers
  <1>3. TypeOK'
    <2>1. <<tr[w].space, tr[w].session>> \in Generation \X Session
      BY <1>2 DEF Space
    <2>2. rows' \subseteq Generation \X Session
      BY <1>1, <2>1 DEF Inv, TypeOK
    <2>3. tr' \in [Worker -> Request]
      BY <1>1, IdleFacts DEF Inv, TypeOK
    <2> QED BY <1>1, <2>2, <2>3 DEF Inv, TypeOK
  <1>4. Sound'
    BY <1>1 DEF Inv, Sound, OneCurrent, LiveInside, Usable, IsActive, ActiveGenerations,
       Fresh, SpentParents, FeedsCarryAccounts
  <1>5. Careful(w)
    <2>1. issued <= issued'
      BY <1>1, SandboxAssumption DEF Inv, TypeOK
    <2>2. \A s \in Session : Live(s)' <=> Live(s)
      BY <1>1 DEF Live, IsActive, ActiveGenerations
    <2> QED BY <1>1, <2>1, <2>2 DEF Careful
  <1> QED BY <1>1, <1>3, <1>4, <1>5, CommitBudget, Committed

(* --- Replacement --- *)
(* What a replacement does to the tables. *)
Replaces(w, s, n, reason) ==
    /\ s = tr[w].session /\ s <= issued /\ sessions[s] # NoSession
    /\ n \in Session /\ n # s /\ n = issued + 1 /\ issued' = n /\ issued \in Nat
    /\ sessions[n] = NoSession /\ parent[n] = 0
    /\ sessions' = [x \in Session |-> sessions'[x]]
    /\ sessions'[s] = [sessions[s] EXCEPT !.state = reason]
    /\ sessions'[n] = LiveSession(tr[w].user, tr[w].target)
    /\ \A x \in Session \ {s, n} : sessions'[x] = sessions[x]
    /\ parent'[n] = s
    /\ \A x \in Session \ {n} : parent'[x] = parent[x]
    /\ tr[w].user \in User /\ tr[w].target \in Space /\ IsActive(tr[w].target)
    /\ Free(w, <<"session", s>>) /\ Unclaimed(w, <<"generation">>)
    /\ tr[w].kind = "switch" => Live(s)
    /\ tr[w].kind = "recover" => sessions[s].state = "sandbox_generation_retired"
    /\ \A a \in Session : parent[a] # s

LEMMA ReplacementFacts ==
    ASSUME Inv, NEW w \in Worker, CommitReplacement(w)
    PROVE  /\ Budget'
           /\ \E s \in Session, reason \in {"mode_switched", "sandbox_generation_recovered"} :
                 Replaces(w, s, issued + 1, reason)
  <1> DEFINE q == tr[w]
  <1>1. /\ q.kind \in Replacements /\ q.pc = "staged" /\ issued' = issued + 1
        /\ tr' = [tr EXCEPT ![w] = Idle]
    BY DEF CommitReplacement, Replacements
  <1>2. PICK s \in Session : s = q.session /\ s \in 1 .. issued
    BY <1>1, SenderFacts DEF OfSession, Replacements
  <1>3. PICK reason \in {"mode_switched", "sandbox_generation_recovered"} :
           /\ sessions' = [sessions EXCEPT ![s].state = reason,
                                           ![issued + 1] = LiveSession(q.user, q.target)]
           /\ parent' = [parent EXCEPT ![issued + 1] = s]
    BY <1>2 DEF CommitReplacement
  <1>4. issued \in Nat /\ MaxSession \in Nat /\ \A x \in Session : x \in Nat
    BY SandboxAssumption DEF Inv, TypeOK, Session
  <1>5. Budget' /\ issued + 1 <= MaxSession
    <2>1. IsFiniteSet(Replacing) /\ Cardinality(Replacing) \in Nat
      BY SandboxAssumption, FS_Subset, FS_CardinalityType DEF Replacing
    <2>2. w \in Replacing
      BY <1>1 DEF Replacing, Replacements
    <2>3. Replacing' = Replacing \ {w}
      <3>1. tr'[w] = Idle /\ \A v \in Worker \ {w} : tr'[v] = tr[v]
        BY <1>1 DEF Inv, TypeOK
      <3> QED BY <3>1, IdleFacts DEF Replacing
    <2>4. Cardinality(Replacing \ {w}) = Cardinality(Replacing) - 1
      BY <2>1, <2>2, FS_RemoveElement
    <2>5. IsFiniteSet(Replacing \ {w})
      BY <2>1, FS_RemoveElement
    <2>6. Cardinality(Replacing \ {w}) \in Nat
      BY <2>5, FS_CardinalityType
    <2>7. issued + Cardinality(Replacing) <= MaxSession
      BY DEF Inv, Budget
    <2>8. issued' + Cardinality(Replacing') <= MaxSession
      BY <1>1, <1>4, <2>1, <2>3, <2>4, <2>7
    <2>9. issued + 1 <= MaxSession
      BY <1>4, <2>1, <2>4, <2>6, <2>7
    <2> QED BY <2>8, <2>9 DEF Budget
  <1>6. /\ issued + 1 \in Session /\ s <= issued /\ issued + 1 # s
    BY <1>2, <1>4, <1>5 DEF Session
  <1>7. sessions[issued + 1] = NoSession /\ parent[issued + 1] = 0
    <2>1. issued + 1 > issued
      BY <1>4
    <2> QED BY <1>6, <2>1 DEF Inv, Sound, Fresh
  <1>14. sessions' = [x \in Session |-> sessions'[x]]
    <2>1. sessions = [x \in Session |-> sessions[x]]
      BY DEF Inv, TypeOK
    <2> QED BY <1>3, <2>1
  <1>8. /\ sessions'[s] = [sessions[s] EXCEPT !.state = reason]
        /\ sessions'[issued + 1] = LiveSession(q.user, q.target)
        /\ \A x \in Session \ {s, issued + 1} : sessions'[x] = sessions[x]
        /\ parent'[issued + 1] = s
        /\ \A x \in Session \ {issued + 1} : parent'[x] = parent[x]
    BY <1>3, <1>6 DEF Inv, TypeOK
  <1>9. /\ q.user \in User /\ q.target \in Space /\ IsActive(q.target)
        /\ q.kind = "switch" => Live(s)
        /\ q.kind = "recover" => RetiredByReset(s)
        /\ Share(<<"generation">>) \in q.held /\ Update(<<"session", s>>) \in q.held
    BY <1>1, <1>2, SenderFacts DEF Seen, Keys, Replacements, OfSession
  <1>10. Free(w, <<"session", s>>) /\ Unclaimed(w, <<"generation">>)
    BY <1>9, HeldAlone, HeldShared
  <1>11. /\ sessions[s] # NoSession
         /\ sessions[s].state \in {"live", "sandbox_generation_retired"}
         /\ q.kind = "recover" => sessions[s].state = "sandbox_generation_retired"
    BY <1>1, <1>9 DEF Live, RetiredByReset, Replacements
  <1>12. ASSUME NEW a \in Session, parent[a] = s PROVE FALSE
    <2>1. parent[a] # 0
      BY <1>2, <1>4, <1>12
    <2>2. sessions[s].state \in {"mode_switched", "sandbox_generation_recovered"}
      BY <1>11, <1>12, <2>1 DEF Inv, Sound, SpentParents
    <2> QED BY <1>11, <2>2
  <1>13. issued' = issued + 1 /\ issued \in Nat
    BY <1>1, <1>4
  <1>15. Replaces(w, s, issued + 1, reason)
    BY <1>2, <1>6, <1>7, <1>8, <1>9, <1>10, <1>11, <1>12, <1>13, <1>14 DEF Replaces
  <1> QED BY <1>5, <1>15

LEMMA CommitReplacementKeeps ==
    ASSUME Inv, NEW w \in Worker, CommitReplacement(w) PROVE Inv'
  <1> DEFINE n == issued + 1
  <1>0. PICK s \in Session, reason \in {"mode_switched", "sandbox_generation_recovered"} :
           Replaces(w, s, n, reason)
    BY ReplacementFacts
  <1>1. /\ s = tr[w].session /\ s <= issued /\ sessions[s] # NoSession
        /\ n \in Session /\ n # s /\ n = issued + 1 /\ issued' = n /\ issued \in Nat
        /\ sessions[n] = NoSession /\ parent[n] = 0
        /\ sessions' = [x \in Session |-> sessions'[x]]
        /\ sessions'[s] = [sessions[s] EXCEPT !.state = reason]
        /\ sessions'[n] = LiveSession(tr[w].user, tr[w].target)
        /\ \A x \in Session \ {s, n} : sessions'[x] = sessions[x]
        /\ parent'[n] = s
        /\ \A x \in Session \ {n} : parent'[x] = parent[x]
        /\ tr[w].user \in User /\ tr[w].target \in Space /\ IsActive(tr[w].target)
        /\ Free(w, <<"session", s>>) /\ Unclaimed(w, <<"generation">>)
        /\ \A a \in Session : parent[a] # s
        /\ Budget'
    BY <1>0, ReplacementFacts DEF Replaces
  <1>2. /\ tr' = [tr EXCEPT ![w] = Idle]
        /\ UNCHANGED <<spaces, enabled, accounts, rows, feed, clock>>
    BY DEF CommitReplacement
  <1>3. n > issued /\ n \in Nat /\ MaxSession \in Nat /\ \A x \in Session : x \in Nat
    BY <1>1, SandboxAssumption DEF Session
  <1>4. /\ sessions[s] \in SessionRow
        /\ sessions'[s] \in SessionRow /\ sessions'[s] # NoSession
        /\ sessions'[s].state = reason
        /\ sessions'[s].user = sessions[s].user /\ sessions'[s].space = sessions[s].space
    <2>1. sessions[s] \in SessionRow
      BY <1>1, LiveFacts
    <2>2. sessions'[s] \in SessionRow
      BY <1>1, <2>1 DEF SessionRow, Revocation
    <2>3. /\ sessions'[s].state = reason
          /\ sessions'[s].user = sessions[s].user /\ sessions'[s].space = sessions[s].space
      BY <1>1, <2>1 DEF SessionRow
    <2> QED BY <2>1, <2>2, <2>3, NoSessionAssumption
  <1>5. /\ sessions'[n] \in SessionRow /\ sessions'[n] # NoSession
        /\ sessions'[n].state = "live" /\ sessions'[n].space = tr[w].target
    <2>1. sessions'[n] \in SessionRow
      BY <1>1 DEF LiveSession, SessionRow
    <2>2. sessions'[n].state = "live" /\ sessions'[n].space = tr[w].target
      BY <1>1 DEF LiveSession
    <2> QED BY <2>1, <2>2, NoSessionAssumption
  <1>6. TypeOK'
    <2>1. sessions' \in [Session -> SessionRow \cup {NoSession}]
      <3>1. \A x \in Session : sessions'[x] \in SessionRow \cup {NoSession}
        BY <1>1, <1>4, <1>5 DEF Inv, TypeOK
      <3>2. sessions' = [x \in Session |-> sessions'[x]]
        BY <1>1
      <3> QED BY <3>1, <3>2
    <2>2. parent' \in [Session -> {0} \cup Session]
      <3>1. parent' = [parent EXCEPT ![n] = s]
        BY <1>1 DEF CommitReplacement
      <3> QED BY <1>1, <3>1 DEF Inv, TypeOK
    <2>3. issued' \in Users .. MaxSession
      BY <1>1, <1>3, SandboxAssumption DEF Inv, TypeOK, Session
    <2>4. tr' \in [Worker -> Request]
      BY <1>2, IdleFacts DEF Inv, TypeOK
    <2> QED BY <1>2, <2>1, <2>2, <2>3, <2>4 DEF Inv, TypeOK
  <1>7. /\ ActiveGenerations' = ActiveGenerations
        /\ tr[w].target \in {Production} \cup ActiveGenerations
    BY <1>1, <1>2 DEF IsActive, ActiveGenerations
  <1>8. Sound'
    <2>1. OneCurrent'
      BY <1>2 DEF Inv, Sound, OneCurrent
    <2>2. LiveInside'
      <3> SUFFICES ASSUME NEW x \in Session, Usable(x)'
                   PROVE  sessions'[x].space \in {Production} \cup ActiveGenerations'
        BY DEF LiveInside, IsActive
      <3>1. CASE x = n
        BY <1>1, <1>5, <1>7, <3>1
      <3>2. CASE x = s
        BY <1>4, <3>2 DEF Usable
      <3>3. CASE x # n /\ x # s
        BY <1>1, <1>7, <3>3 DEF Inv, Sound, LiveInside, Usable, IsActive
      <3> QED BY <3>1, <3>2, <3>3
    <2>3. Fresh'
      <3> SUFFICES ASSUME NEW x \in Session, x > issued'
                   PROVE  sessions'[x] = NoSession /\ parent'[x] = 0
        BY DEF Fresh
      <3>1. x # n /\ x # s /\ x > issued
        BY <1>1, <1>3
      <3> QED BY <1>1, <3>1 DEF Inv, Sound, Fresh
    <2>4. SpentParents'
      <3> SUFFICES ASSUME NEW a \in Session, NEW b \in Session, parent'[a] # 0
                   PROVE  /\ parent'[a] <= issued'
                          /\ parent'[a] = parent'[b] => a = b
                          /\ sessions'[parent'[a]] # NoSession =>
                                sessions'[parent'[a]].state
                                    \in {"mode_switched", "sandbox_generation_recovered"}
        BY DEF SpentParents
      <3>1. CASE a = n
        <4>1. parent'[a] = s /\ (b # n => parent'[b] # s)
          BY <1>1, <3>1
        <4>2. s <= n
          BY <1>1, <1>3
        <4> QED BY <1>1, <1>4, <3>1, <4>1, <4>2
      <3>2. CASE a # n
        <4>1. parent'[a] = parent[a] /\ parent[a] # s /\ parent[a] \in Session
              /\ parent[a] <= issued /\ parent[a] # n
          BY <1>1, <1>3, <3>2 DEF Inv, TypeOK, Sound, SpentParents
        <4>2. parent[a] <= issued'
          BY <1>1, <1>3, <4>1
        <4>3. parent'[a] = parent'[b] => a = b
          BY <1>1, <3>2, <4>1 DEF Inv, Sound, SpentParents
        <4>4. sessions'[parent[a]] = sessions[parent[a]]
          BY <1>1, <4>1
        <4> QED BY <4>1, <4>2, <4>3, <4>4 DEF Inv, Sound, SpentParents
      <3> QED BY <3>1, <3>2
    <2>5. FeedsCarryAccounts'
      BY <1>2, <1>7 DEF Inv, Sound, FeedsCarryAccounts, IsActive
    <2> QED BY <2>1, <2>2, <2>3, <2>4, <2>5 DEF Sound
  <1>9. Careful(w)
    <2>1. issued <= issued'
      BY <1>1, <1>3
    <2>2. ASSUME NEW x \in Session
          PROVE  /\ sessions'[x] = sessions[x] \/ Ends(w, x) \/ Adds(w, x)
                 /\ Live(x) => Live(x)' \/ Free(w, <<"session", x>>)
                 /\ Live(x)' => Live(x) \/ Unclaimed(w, <<"generation">>)
      <3>1. CASE x = n
        BY <1>1, <1>3, <3>1 DEF Adds, Live
      <3>2. CASE x = s
        BY <1>1, <1>4, <3>2 DEF Ends
      <3>3. CASE x # n /\ x # s
        BY <1>1, <1>7, <3>3 DEF Live, IsActive
      <3> QED BY <3>1, <3>2, <3>3
    <2> QED BY <1>2, <2>1, <2>2 DEF Careful
  <1> QED BY <1>1, <1>2, <1>6, <1>8, <1>9, Committed

(* --- Activation --- *)
(* The generation that is started, if any, is the first; its feed carries  *)
(* every account, and no session is inside it yet.                         *)
LEMMA ActivationFacts ==
    ASSUME Inv, NEW x \in {0, Made}, NEW seed, seed = Seeded,
           spaces' = IF x = 0 THEN spaces ELSE Started(x),
           feed' = IF x = 0 THEN feed ELSE [feed EXCEPT ![x] = seed],
           UNCHANGED <<accounts, sessions, issued, parent>>
    PROVE  /\ Sound'
           /\ spaces' \in [Generation -> SpaceRow] /\ feed' \in [Space -> [User -> Nat]]
           /\ \A s \in Session : Live(s)' <=> Live(s)
           /\ x # 0 => x = 1 /\ ActiveGeneration = 0 /\ ActiveGeneration' = 1
           /\ x # 0 => ActiveGenerations = {} /\ 1 \in Generation
           /\ x = 0 => spaces' = spaces
  <1>0. spaces \in [Generation -> SpaceRow] /\ Sound /\ OneCurrent
    BY DEF Inv, TypeOK, Sound
  <1>1. CASE x = 0
    <2>1. /\ spaces' = spaces /\ feed' = feed /\ accounts' = accounts
          /\ sessions' = sessions /\ issued' = issued /\ parent' = parent
      BY <1>1
    <2>2. Sound'
      BY <1>0, <2>1 DEF Sound, OneCurrent, LiveInside, Usable, IsActive, ActiveGenerations,
         Fresh, SpentParents, FeedsCarryAccounts
    <2>3. \A s \in Session : Live(s)' <=> Live(s)
      BY <2>1 DEF Live, IsActive, ActiveGenerations
    <2> QED BY <1>1, <2>1, <2>2, <2>3 DEF Inv, TypeOK
  <1>2. CASE x # 0
    <2>1. /\ x = 1 /\ ActiveGeneration = 0 /\ ActiveGenerations = {} /\ 1 \in Generation
          /\ \A g \in Generation : spaces[g].status = "none"
      BY <1>0, <1>2, ActiveFacts
    <2>2. spaces' = [spaces EXCEPT ![1] = ActiveSpace] /\ feed' = [feed EXCEPT ![1] = seed]
      BY <2>1 DEF Started
    <2>3. spaces' \in [Generation -> SpaceRow]
      BY <1>0, <2>2 DEF ActiveSpace, SpaceRow
    <2>4. 1 \in Space /\ feed' \in [Space -> [User -> Nat]]
      BY <2>1, <2>2, MadeTypes DEF Inv, TypeOK, Space
    <2>5. spaces'[1].status = "active" /\ \A g \in Generation \ {1} : spaces'[g] = spaces[g]
      BY <1>0, <2>1, <2>2 DEF ActiveSpace
    <2>6. \A g \in Generation : g \in Nat /\ g >= 1
      BY SandboxAssumption DEF Generation
    <2>7. OneCurrent'
      <3>1. \A g \in Generation :
               (g > 1 => spaces'[g].status = "none") /\ ~(g < 1)
        BY <2>1, <2>5, <2>6
      <3> QED BY <2>1, <2>5, <3>1 DEF OneCurrent
    <2>8. ActiveGenerations' = {1}
      BY <2>1, <2>5 DEF ActiveGenerations
    <2>9. ActiveGeneration' = 1
      BY <2>8 DEF ActiveGeneration
    <2>10. LiveInside'
      <3> SUFFICES ASSUME NEW s \in Session, Usable(s)'
                   PROVE  sessions'[s].space \in {Production} \cup ActiveGenerations'
        BY DEF LiveInside, IsActive
      <3> QED BY <1>0, <2>1 DEF Sound, LiveInside, Usable, IsActive
    <2>11. Fresh' /\ SpentParents'
      BY <1>0 DEF Sound, Fresh, SpentParents
    <2>12. FeedsCarryAccounts'
      <3> SUFFICES ASSUME NEW sp \in Space, NEW u \in User,
                          sp \in {Production} \cup {1}
                   PROVE  feed'[sp][u] = accounts'[u].version
        BY <2>8 DEF FeedsCarryAccounts, IsActive
      <3>1. CASE sp = 1
        <4>1. feed'[1] = seed
          BY <2>2, <2>4 DEF Inv, TypeOK
        <4> QED BY <3>1, <4>1 DEF Seeded
      <3>2. CASE sp # 1
        <4>1. feed'[sp] = feed[sp]
          BY <2>2, <3>2 DEF Inv, TypeOK
        <4>2. IsActive(sp)
          BY <3>2 DEF IsActive
        <4> QED BY <1>0, <4>1, <4>2 DEF Sound, FeedsCarryAccounts
      <3> QED BY <3>1, <3>2
    <2>13. ASSUME NEW s \in Session PROVE Live(s)' <=> Live(s)
      <3>1. Live(s)' => sessions[s].space \in {Production} \cup ActiveGenerations
        BY <1>0, <2>1 DEF Live, Sound, LiveInside, Usable, IsActive
      <3>2. Live(s)' => Live(s)
        BY <3>1 DEF Live, IsActive
      <3>3. Live(s) => Live(s)'
        BY <2>1, <2>8 DEF Live, IsActive
      <3> QED BY <3>2, <3>3
    <2>14. Sound'
      BY <2>7, <2>10, <2>11, <2>12 DEF Sound
    <2> QED BY <1>2, <2>1, <2>3, <2>4, <2>9, <2>13, <2>14
  <1> QED BY <1>1, <1>2

(* An activation is careful: it holds the generation lock for update. *)
LEMMA ActivationCareful ==
    ASSUME Inv, NEW w \in Worker, Update(<<"generation">>) \in tr[w].held,
           \A s \in Session : Live(s)' <=> Live(s),
           UNCHANGED <<accounts, sessions, issued>>
    PROVE  Careful(w)
  <1>1. Free(w, <<"generation">>)
    BY HeldAlone
  <1>2. issued <= issued'
    BY SandboxAssumption DEF Inv, TypeOK
  <1> QED BY <1>1, <1>2 DEF Careful

LEMMA CommitConfigureKeeps ==
    ASSUME Inv, NEW w \in Worker, CommitConfigure(w) PROVE Inv'
  <1> DEFINE q == tr[w]
  <1>1. /\ q.kind = "configure" /\ q.pc = "staged" /\ enabled' = q.sandbox
        /\ spaces' = IF q.target = 0 THEN spaces ELSE Started(q.target)
        /\ feed' = IF q.target = 0 THEN feed ELSE [feed EXCEPT ![q.target] = q.seed]
        /\ tr' = [tr EXCEPT ![w] = Idle]
        /\ UNCHANGED <<accounts, sessions, issued, parent, rows, clock>>
    BY DEF CommitConfigure, At
  <1>2. /\ q.target \in {0, Made} /\ q.seed = Seeded /\ Update(<<"generation">>) \in q.held
        /\ q \in Request
    BY <1>1, SenderFacts DEF Seen, Keys
  <1> HIDE DEF q
  <1>3. PICK x \in {0, Made}, seed \in {Seeded} : x = q.target /\ seed = q.seed
    BY <1>2
  <1>4. /\ spaces' = IF x = 0 THEN spaces ELSE Started(x)
        /\ feed' = IF x = 0 THEN feed ELSE [feed EXCEPT ![x] = seed]
        /\ UNCHANGED <<accounts, sessions, issued, parent>>
    BY <1>1, <1>3
  <1>5. /\ Sound' /\ spaces' \in [Generation -> SpaceRow] /\ feed' \in [Space -> [User -> Nat]]
        /\ \A s \in Session : Live(s)' <=> Live(s)
    BY <1>4, ActivationFacts
  <1>6. TypeOK'
    <2>1. q.sandbox \in BOOLEAN
      BY <1>2 DEF Request
    <2>2. tr' \in [Worker -> Request]
      BY <1>1, IdleFacts DEF Inv, TypeOK
    <2> QED BY <1>1, <1>5, <2>1, <2>2 DEF Inv, TypeOK
  <1>7. Careful(w)
    BY <1>1, <1>2, <1>5, ActivationCareful DEF q
  <1> QED BY <1>1, <1>5, <1>6, <1>7, CommitBudget, Committed

LEMMA CommitEnsureKeeps ==
    ASSUME Inv, NEW w \in Worker, CommitEnsure(w) PROVE Inv'
  <1> DEFINE q == tr[w]
             space == IF q.target = 0 THEN ActiveGeneration ELSE q.target
             t == [q EXCEPT !.pc = "aimed", !.held = {}, !.target = space,
                            !.seed = Idle.seed]
  <1>1. /\ q.pc = "activating"
        /\ spaces' = IF q.target = 0 THEN spaces ELSE Started(q.target)
        /\ feed' = IF q.target = 0 THEN feed ELSE [feed EXCEPT ![q.target] = q.seed]
        /\ tr' = [tr EXCEPT ![w] = IF q.kind = "status" THEN Idle ELSE t]
        /\ UNCHANGED <<enabled, accounts, sessions, issued, parent, rows, clock>>
    BY DEF CommitEnsure
  <1>2. /\ q.target = Made /\ q.seed = Seeded /\ Update(<<"generation">>) \in q.held
        /\ q \in Request /\ Remembers(q) /\ q.kind \in Replacements \cup {"status"}
    BY <1>1, SenderFacts DEF Seen, Keys, Remembers
  <1>3. PICK x \in {0, Made}, seed \in {Seeded} : x = q.target /\ seed = q.seed
    BY <1>2
  <1>4. /\ spaces' = IF x = 0 THEN spaces ELSE Started(x)
        /\ feed' = IF x = 0 THEN feed ELSE [feed EXCEPT ![x] = seed]
        /\ UNCHANGED <<accounts, sessions, issued, parent>>
    BY <1>1, <1>3
  <1>5. /\ Sound' /\ spaces' \in [Generation -> SpaceRow] /\ feed' \in [Space -> [User -> Nat]]
        /\ \A s \in Session : Live(s)' <=> Live(s)
    BY <1>4, ActivationFacts
  <1>6. Careful(w)
    BY <1>1, <1>2, <1>5, ActivationCareful
  <1>7. ASSUME NEW r \in Request, tr' = [tr EXCEPT ![w] = r] PROVE TypeOK'
    BY <1>1, <1>5, <1>7 DEF Inv, TypeOK
  <1>8. CASE q.kind = "status"
    <2>1. tr' = [tr EXCEPT ![w] = Idle]
      BY <1>1, <1>8
    <2> QED BY <1>1, <1>5, <1>6, <1>7, <2>1, IdleFacts, CommitBudget, Committed
  <1>9. CASE q.kind # "status"
    <2>1. q.kind \in Replacements /\ tr' = [tr EXCEPT ![w] = t]
      BY <1>1, <1>2, <1>9
    <2>2. space \in Space /\ space # Production /\ Idle.seed \in [User -> Nat]
      <3>1. \/ ActiveGeneration = 0 /\ Made = 1
            \/ ActiveGeneration \in Generation /\ Made = 0
        BY ActiveFacts DEF Inv, TypeOK, Sound
      <3>2. 1 \in Generation /\ \A g \in Generation : g # 0
        BY SandboxAssumption DEF Generation
      <3>3. space \in Generation
        BY <1>2, <3>1, <3>2
      <3>4. Idle.seed \in [User -> Nat]
        BY IdleFacts DEF Request
      <3> QED BY <3>2, <3>3, <3>4 DEF Space, Production
    <2> HIDE DEF space
    <2>3. t \in Request
      BY <1>2, <2>2 DEF Request
    <2>4. Same(t, q)
      BY <1>2 DEF Request, Same
    <2>5. t.pc = "aimed" /\ t.held = {}
      BY <1>2 DEF Request
    <2>6. t.target = space
      BY <1>2 DEF Request
    <2> HIDE DEF t
    <2>7. tr'[w] = t /\ Separate'
      <3>1. Claims(w, t.held)
        BY <2>5 DEF Claims
      <3> QED BY <2>1, <2>3, <3>1, SeparateStays DEF Inv, TypeOK
    <2>8. Budget'
      BY <1>1, <2>1, <2>4, BudgetStays DEF Same
    <2>9. Remembers(t)
      <3> HIDE DEF q
      <3> QED BY <1>1, <1>2, <2>1, <2>2, <2>4, <2>5, <2>6
          DEF Remembers, Same, OfSession, Replacements
    <2>10. Remembers(tr[w])'
      BY <1>1, <2>7, <2>9 DEF Remembers
    <2>11. Keys(tr[w])' /\ Seen(tr[w])'
      BY <2>5, <2>7 DEF Keys, Seen
    <2> QED BY <1>5, <1>6, <1>7, <2>1, <2>3, <2>7, <2>8, <2>10, <2>11, StepKeeps
  <1> QED BY <1>8, <1>9

(* --- Revocation --- *)
(* What revoking live sessions does to the table. *)
LEMMA RevokedFacts ==
    ASSUME Inv, NEW gone \in SUBSET Session, \A s \in gone : Live(s),
           NEW reason \in Revocation, NEW time \in Nat,
           sessions' = Revoked(gone, reason, time), UNCHANGED <<issued, parent>>
    PROVE  /\ sessions' \in [Session -> SessionRow \cup {NoSession}]
           /\ \A s \in Session \ gone : sessions'[s] = sessions[s]
           /\ \A s \in gone :
                 /\ sessions[s] # NoSession /\ sessions'[s] # NoSession
                 /\ sessions'[s].user = sessions[s].user
                 /\ sessions'[s].space = sessions[s].space
                 /\ sessions'[s].state = reason
           /\ Fresh' /\ SpentParents'
  <1>1. sessions' = [s \in Session |-> IF s \in gone
            THEN [sessions[s] EXCEPT !.state = reason, !.revokedAt = time,
                                     !.known = accounts[sessions[s].user].version]
            ELSE sessions[s]]
    BY DEF Revoked
  <1>2. \A s \in Session \ gone : sessions'[s] = sessions[s]
    BY <1>1
  <1>3. ASSUME NEW s \in gone
        PROVE  /\ sessions[s] # NoSession /\ sessions'[s] # NoSession
               /\ sessions'[s] \in SessionRow
               /\ sessions'[s].user = sessions[s].user
               /\ sessions'[s].space = sessions[s].space
               /\ sessions'[s].state = reason
    <2> DEFINE known == accounts[sessions[s].user].version
               row == [sessions[s] EXCEPT !.state = reason, !.revokedAt = time, !.known = known]
    <2>1. /\ sessions[s] \in SessionRow /\ sessions[s].user \in User
          /\ sessions[s] # NoSession
      BY LiveFacts DEF Live
    <2>2. known \in Nat
      BY <2>1 DEF Inv, TypeOK
    <2>3. sessions'[s] = row
      BY <1>1
    <2> HIDE DEF known
    <2>4. row \in SessionRow
      BY <2>1, <2>2 DEF SessionRow
    <2>5. row.user = sessions[s].user /\ row.space = sessions[s].space /\ row.state = reason
      BY <2>1 DEF SessionRow
    <2> QED BY <2>1, <2>3, <2>4, <2>5, NoSessionAssumption
  <1>4. sessions' \in [Session -> SessionRow \cup {NoSession}]
    <2>1. \A s \in Session : sessions'[s] \in SessionRow \cup {NoSession}
      BY <1>2, <1>3 DEF Inv, TypeOK
    <2>2. sessions' = [s \in Session |-> sessions'[s]]
      BY <1>1
    <2> QED BY <2>1, <2>2
  <1>5. Fresh'
    <2>1. ASSUME NEW s \in Session, s > issued PROVE s \notin gone
      BY <1>3, <2>1 DEF Inv, Sound, Fresh
    <2> QED BY <1>2, <2>1 DEF Inv, Sound, Fresh
  <1>6. SpentParents'
    <2> SUFFICES ASSUME NEW a \in Session, NEW b \in Session, parent[a] # 0
                 PROVE  /\ parent[a] <= issued
                        /\ parent[a] = parent[b] => a = b
                        /\ sessions'[parent[a]] # NoSession =>
                              sessions'[parent[a]].state
                                  \in {"mode_switched", "sandbox_generation_recovered"}
      BY DEF SpentParents
    <2>1. parent[a] \in Session
      BY DEF Inv, TypeOK
    <2>2. parent[a] \notin gone
      BY <1>3 DEF Inv, Sound, SpentParents, Live
    <2>3. sessions'[parent[a]] = sessions[parent[a]]
      BY <1>2, <2>1, <2>2
    <2> QED BY <2>3 DEF Inv, Sound, SpentParents
  <1> QED BY <1>2, <1>3, <1>4, <1>5, <1>6

(* --- Reset --- *)
(* What a reset relies on when it commits. *)
LEMMA ResetFacts ==
    ASSUME Inv, NEW w \in Worker, CommitReset(w)
    PROVE  \E g \in Generation, gone \in SUBSET Session :
              /\ g = ActiveGeneration /\ g + 1 \in Generation /\ g \in Nat
              /\ tr[w].target = g /\ tr[w].revoked = gone /\ tr[w].seed = Seeded
              /\ \A s \in gone : Live(s) /\ Free(w, <<"session", s>>)
              /\ LiveIn(g) \subseteq gone
              /\ Free(w, <<"generation">>)
              /\ spaces' = [spaces EXCEPT
                               ![g] = [status |-> "retired", retiredAt |-> tr[w].at],
                               ![g + 1] = ActiveSpace]
              /\ sessions' = Revoked(gone, "sandbox_generation_retired", tr[w].at)
              /\ feed' = [feed EXCEPT ![g + 1] = Seeded]
  <1>1. tr[w].kind = "reset" /\ tr[w].pc = "staged"
    BY DEF CommitReset, At
  <1>2. /\ tr[w].target \in Generation /\ tr[w].target + 1 \in Generation
        /\ ActiveGeneration = tr[w].target /\ tr[w].seed = Seeded
        /\ LiveIn(tr[w].target) \subseteq tr[w].revoked
        /\ \A s \in tr[w].revoked : Live(s) /\ Update(<<"session", s>>) \in tr[w].held
        /\ Update(<<"generation">>) \in tr[w].held
        /\ tr[w].revoked \in SUBSET Session
    BY <1>1, SenderFacts DEF Remembers, Seen, Keys
  <1>3. PICK g \in Generation : g = tr[w].target
    BY <1>2
  <1>4. PICK gone \in SUBSET Session : gone = tr[w].revoked
    BY <1>2
  <1>5. /\ Free(w, <<"generation">>)
        /\ \A s \in gone : Free(w, <<"session", s>>)
    BY <1>2, <1>4, HeldAlone
  <1>6. g \in Nat
    BY DEF Generation
  <1> QED BY <1>2, <1>3, <1>4, <1>5, <1>6 DEF CommitReset

LEMMA CommitResetKeeps ==
    ASSUME Inv, NEW w \in Worker, CommitReset(w)
    PROVE  /\ Inv'
           /\ ActiveGeneration \in Generation /\ ActiveGeneration' = ActiveGeneration + 1
           /\ \A s \in Session : Usable(s)' => sessions'[s].space = Production
  <1>1. PICK g \in Generation, gone \in SUBSET Session :
              /\ g = ActiveGeneration /\ g + 1 \in Generation /\ g \in Nat
              /\ \A s \in gone : Live(s) /\ Free(w, <<"session", s>>)
              /\ LiveIn(g) \subseteq gone
              /\ Free(w, <<"generation">>)
              /\ spaces' = [spaces EXCEPT
                               ![g] = [status |-> "retired", retiredAt |-> tr[w].at],
                               ![g + 1] = ActiveSpace]
              /\ sessions' = Revoked(gone, "sandbox_generation_retired", tr[w].at)
              /\ feed' = [feed EXCEPT ![g + 1] = Seeded]
    BY ResetFacts
  <1>2. /\ tr' = [tr EXCEPT ![w] = Idle]
        /\ UNCHANGED <<enabled, accounts, issued, parent, rows, clock>>
        /\ tr[w].at \in Nat
    BY SenderFacts DEF CommitReset
  <1>3. /\ ActiveGenerations = {g} /\ g \in Nat /\ \A h \in Generation : h \in Nat /\ h # 0
        /\ \A h \in Generation : /\ h > g => spaces[h].status = "none"
                                 /\ h < g => spaces[h].status \in {"retired", "purged"}
    <2>1. \A h \in Generation : h \in Nat /\ h # 0
      BY DEF Generation
    <2> QED BY <1>1, <2>1, ActiveFacts DEF Inv, TypeOK, Sound
  <1>4. /\ spaces' \in [Generation -> SpaceRow]
        /\ spaces'[g].status = "retired" /\ spaces'[g + 1].status = "active"
        /\ \A h \in Generation \ {g, g + 1} : spaces'[h] = spaces[h]
    <2> DEFINE past == [status |-> "retired", retiredAt |-> tr[w].at]
    <2>1. past \in SpaceRow /\ ActiveSpace \in SpaceRow
      BY <1>2 DEF SpaceRow, ActiveSpace
    <2>2. past.status = "retired" /\ ActiveSpace.status = "active"
      BY DEF ActiveSpace
    <2>3. spaces' = [spaces EXCEPT ![g] = past, ![g + 1] = ActiveSpace] /\ g + 1 # g
      BY <1>1
    <2> HIDE DEF past
    <2> QED BY <1>1, <2>1, <2>2, <2>3 DEF Inv, TypeOK
  <1>5. OneCurrent' /\ ActiveGenerations' = {g + 1}
    <2>1. ASSUME NEW h \in Generation
          PROVE  /\ h > g + 1 => spaces'[h].status = "none"
                 /\ h < g + 1 => spaces'[h].status \in {"retired", "purged"}
      <3>1. CASE h = g
        BY <1>3, <1>4, <3>1
      <3>2. CASE h = g + 1
        BY <1>3, <3>2
      <3>3. CASE h # g /\ h # g + 1
        BY <1>3, <1>4, <3>3
      <3> QED BY <3>1, <3>2, <3>3
    <2>2. OneCurrent'
      BY <1>1, <1>4, <2>1 DEF OneCurrent
    <2>3. ASSUME NEW h \in Generation, spaces'[h].status = "active" PROVE h = g + 1
      <3>1. ~(h > g + 1) /\ ~(h < g + 1)
        BY <2>1, <2>3
      <3> QED BY <1>3, <3>1
    <2> QED BY <1>1, <1>4, <2>2, <2>3 DEF ActiveGenerations
  <1>6. ActiveGeneration' = g + 1
    BY <1>5 DEF ActiveGeneration
  <1>7. /\ sessions' \in [Session -> SessionRow \cup {NoSession}]
        /\ \A s \in Session \ gone : sessions'[s] = sessions[s]
        /\ \A s \in gone :
              /\ sessions[s] # NoSession /\ sessions'[s] # NoSession
              /\ sessions'[s].user = sessions[s].user
              /\ sessions'[s].space = sessions[s].space
              /\ sessions'[s].state = "sandbox_generation_retired"
        /\ Fresh' /\ SpentParents'
    BY <1>1, <1>2, RevokedFacts DEF Revocation
  <1>8. ASSUME NEW s \in Session, Usable(s)'
        PROVE  s \notin gone /\ sessions'[s].space = Production
    <2>1. s \notin gone
      BY <1>7, <1>8 DEF Usable
    <2>2. sessions'[s] = sessions[s] /\ Usable(s)
      BY <1>7, <1>8, <2>1 DEF Usable
    <2>3. sessions[s].space \in {Production} \cup {g}
      BY <1>3, <2>2 DEF Inv, Sound, LiveInside, IsActive
    <2>4. sessions[s].space # g
      BY <1>1, <2>1, <2>2, <2>3 DEF LiveIn, Live, Usable, Inv, Sound, LiveInside
    <2> QED BY <2>1, <2>2, <2>3, <2>4
  <1>9. LiveInside'
    BY <1>8 DEF LiveInside, IsActive
  <1>10. FeedsCarryAccounts'
    <2> SUFFICES ASSUME NEW sp \in Space, NEW u \in User, sp \in {Production} \cup {g + 1}
                 PROVE  feed'[sp][u] = accounts'[u].version
      BY <1>5 DEF FeedsCarryAccounts, IsActive
    <2>1. CASE sp = g + 1
      <3>1. feed'[sp] = Seeded
        BY <1>1, <2>1 DEF Inv, TypeOK
      <3> QED BY <1>2, <3>1 DEF Seeded
    <2>2. CASE sp # g + 1
      <3>1. feed'[sp] = feed[sp]
        BY <1>1, <2>2 DEF Inv, TypeOK
      <3>2. IsActive(sp)
        BY <2>2 DEF IsActive
      <3> QED BY <1>2, <3>1, <3>2 DEF Inv, Sound, FeedsCarryAccounts
    <2> QED BY <2>1, <2>2
  <1>11. Sound'
    BY <1>5, <1>7, <1>9, <1>10 DEF Sound
  <1>12. TypeOK'
    <2>1. feed' \in [Space -> [User -> Nat]]
      BY <1>1, MadeTypes DEF Inv, TypeOK
    <2>2. tr' \in [Worker -> Request]
      BY <1>2, IdleFacts DEF Inv, TypeOK
    <2> QED BY <1>2, <1>4, <1>7, <2>1, <2>2 DEF Inv, TypeOK
  <1>13. Careful(w)
    <2>1. issued <= issued'
      BY <1>2, SandboxAssumption DEF Inv, TypeOK
    <2>2. Unclaimed(w, <<"generation">>)
      BY <1>1, FreeUnclaimed
    <2>3. ASSUME NEW s \in Session
          PROVE  /\ sessions'[s] = sessions[s] \/ Ends(w, s)
                 /\ Live(s) => Live(s)' \/ Free(w, <<"session", s>>)
      <3>1. CASE s \in gone
        BY <1>1, <1>7, <3>1 DEF Ends
      <3>2. CASE s \notin gone
        <4>1. sessions'[s] = sessions[s]
          BY <1>7, <3>2
        <4>2. ASSUME Live(s) PROVE Live(s)'
          <5>1. sessions[s].space \in {Production} \cup {g}
            BY <1>3, <4>2 DEF Live, IsActive
          <5>2. sessions[s].space # g
            BY <1>1, <3>2, <4>2 DEF LiveIn
          <5> QED BY <4>1, <4>2, <5>1, <5>2 DEF Live, IsActive
        <4> QED BY <4>1, <4>2
      <3> QED BY <3>1, <3>2
    <2> QED BY <1>1, <1>2, <2>1, <2>2, <2>3 DEF Careful
  <1>14. Inv'
    BY <1>2, <1>11, <1>12, <1>13, CommitBudget, Committed
  <1> QED BY <1>1, <1>6, <1>8, <1>14

(* --- Purge --- *)
(* Nobody is inside a generation that is purged, and it is a past one. *)
LEMMA CommitCleanupKeeps ==
    ASSUME Inv, NEW w \in Worker, CommitCleanup(w)
    PROVE  /\ Inv'
           /\ tr[w].into \subseteq RetiredGenerations
           /\ ActiveGeneration' = ActiveGeneration
           /\ \A s \in Session : sessions'[s] = sessions[s] \/ (~Usable(s) /\ ~Usable(s)')
  <1> DEFINE into == tr[w].into
  <1>1. /\ tr[w].kind = "cleanup" /\ tr[w].pc = "staged"
        /\ spaces' = [g \in Generation |-> IF g \in into
                         THEN [spaces[g] EXCEPT !.status = "purged"] ELSE spaces[g]]
        /\ sessions' = [s \in Session |->
                           IF sessions[s] # NoSession /\ sessions[s].space \in into
                           THEN NoSession ELSE sessions[s]]
        /\ rows' = {row \in rows : row[1] \notin into}
        /\ feed' = [sp \in Space |-> IF sp \in into THEN Idle.seed ELSE feed[sp]]
        /\ tr' = [tr EXCEPT ![w] = Idle]
        /\ UNCHANGED <<enabled, accounts, issued, parent, clock>>
    BY DEF CommitCleanup, At
  <1>2. into \subseteq RetiredGenerations /\ Update(<<"generation">>) \in tr[w].held
    BY <1>1, SenderFacts DEF Seen, Keys
  <1>3. Free(w, <<"generation">>)
    BY <1>2, HeldAlone
  <1> HIDE DEF into
  <1>4. /\ \A g \in Generation : g \in into =>
              spaces[g].status = "retired" /\ spaces'[g].status = "purged"
        /\ \A g \in Generation : g \notin into => spaces'[g] = spaces[g]
        /\ into \subseteq Generation /\ spaces' \in [Generation -> SpaceRow]
    <2>1. ASSUME NEW g \in Generation, g \in into
          PROVE  /\ spaces[g].status = "retired" /\ spaces'[g].status = "purged"
                 /\ spaces'[g] \in SpaceRow
      <3>1. spaces[g] \in SpaceRow /\ spaces'[g] = [spaces[g] EXCEPT !.status = "purged"]
        BY <1>1, <2>1 DEF Inv, TypeOK
      <3>2. spaces'[g] \in SpaceRow /\ spaces'[g].status = "purged"
        BY <3>1 DEF SpaceRow
      <3> QED BY <1>2, <2>1, <3>2 DEF RetiredGenerations
    <2>2. \A g \in Generation : g \notin into => spaces'[g] = spaces[g]
      BY <1>1
    <2>3. \A g \in Generation : spaces'[g] \in SpaceRow
      BY <2>1, <2>2 DEF Inv, TypeOK
    <2>4. spaces' = [g \in Generation |-> spaces'[g]]
      BY <1>1
    <2>5. spaces' \in [Generation -> SpaceRow]
      BY <2>3, <2>4
    <2> QED BY <1>2, <2>1, <2>2, <2>5 DEF RetiredGenerations
  <1>5. OneCurrent'
    <2>1. CASE \A g \in Generation : spaces[g].status = "none"
      BY <1>4, <2>1 DEF OneCurrent
    <2>2. ASSUME NEW c \in Generation, spaces[c].status = "active",
                 \A g \in Generation :
                    /\ g > c => spaces[g].status = "none"
                    /\ g < c => spaces[g].status \in {"retired", "purged"}
          PROVE  OneCurrent'
      <3>1. spaces'[c].status = "active"
        BY <1>4, <2>2
      <3>2. \A g \in Generation :
               /\ g > c => spaces'[g].status = "none"
               /\ g < c => spaces'[g].status \in {"retired", "purged"}
        BY <1>4, <2>2
      <3> QED BY <3>1, <3>2 DEF OneCurrent
    <2> QED BY <2>1, <2>2 DEF Inv, Sound, OneCurrent
  <1>6. ActiveGenerations' = ActiveGenerations
    BY <1>4 DEF ActiveGenerations
  <1>7. ActiveGeneration' = ActiveGeneration
    BY <1>6 DEF ActiveGeneration
  <1>8. \A sp \in into : sp \notin {Production} \cup ActiveGenerations
    <2>1. Production \notin Generation
      BY DEF Production, Generation
    <2> QED BY <1>4, <2>1 DEF ActiveGenerations
  <1>9. ASSUME NEW s \in Session
        PROVE  \/ sessions'[s] = sessions[s]
               \/ sessions'[s] = NoSession /\ ~Usable(s) /\ ~Live(s)
    <2>1. CASE sessions[s] # NoSession /\ sessions[s].space \in into
      <3>1. ~Usable(s)
        BY <1>8, <2>1 DEF Inv, Sound, LiveInside, IsActive
      <3>2. ~Live(s)
        BY <3>1 DEF Live, Usable
      <3> QED BY <1>1, <2>1, <3>1, <3>2
    <2>2. CASE ~(sessions[s] # NoSession /\ sessions[s].space \in into)
      BY <1>1, <2>2
    <2> QED BY <2>1, <2>2
  <1>10. \A s \in Session : Live(s)' <=> Live(s)
    BY <1>6, <1>9 DEF Live, IsActive
  <1>11. LiveInside'
    <2> SUFFICES ASSUME NEW s \in Session, Usable(s)'
                 PROVE  sessions'[s].space \in {Production} \cup ActiveGenerations'
      BY DEF LiveInside, IsActive
    <2>1. sessions'[s] = sessions[s] /\ Usable(s)
      BY <1>9 DEF Usable
    <2> QED BY <1>6, <2>1 DEF Inv, Sound, LiveInside, IsActive
  <1>12. Fresh'
    BY <1>1, <1>9 DEF Inv, Sound, Fresh
  <1>13. SpentParents'
    <2> SUFFICES ASSUME NEW a \in Session, NEW b \in Session, parent[a] # 0
                 PROVE  /\ parent[a] <= issued
                        /\ parent[a] = parent[b] => a = b
                        /\ sessions'[parent[a]] # NoSession =>
                              sessions'[parent[a]].state
                                  \in {"mode_switched", "sandbox_generation_recovered"}
      BY <1>1 DEF SpentParents
    <2>1. parent[a] \in Session
      BY DEF Inv, TypeOK
    <2> QED BY <1>9, <2>1 DEF Inv, Sound, SpentParents
  <1>14. FeedsCarryAccounts'
    <2> SUFFICES ASSUME NEW sp \in Space, NEW u \in User,
                        sp \in {Production} \cup ActiveGenerations
                 PROVE  feed'[sp][u] = accounts[u].version
      BY <1>1, <1>6 DEF FeedsCarryAccounts, IsActive
    <2>1. feed'[sp] = feed[sp]
      BY <1>1, <1>8
    <2> QED BY <2>1 DEF Inv, Sound, FeedsCarryAccounts, IsActive
  <1>15. TypeOK'
    <2>1. sessions' \in [Session -> SessionRow \cup {NoSession}]
      BY <1>1 DEF Inv, TypeOK
    <2>2. feed' \in [Space -> [User -> Nat]]
      BY <1>1, IdleFacts DEF Inv, TypeOK, Request
    <2>3. rows' \subseteq Generation \X Session
      BY <1>1 DEF Inv, TypeOK
    <2>4. tr' \in [Worker -> Request]
      BY <1>1, IdleFacts DEF Inv, TypeOK
    <2> QED BY <1>1, <1>4, <2>1, <2>2, <2>3, <2>4 DEF Inv, TypeOK
  <1>16. Careful(w)
    <2>1. issued <= issued'
      BY <1>1, SandboxAssumption DEF Inv, TypeOK
    <2> QED BY <1>1, <1>3, <1>9, <1>10, <2>1 DEF Careful, Purges
  <1>17. Sound'
    BY <1>5, <1>11, <1>12, <1>13, <1>14 DEF Sound
  <1>18. Inv'
    BY <1>1, <1>15, <1>16, <1>17, CommitBudget, Committed
  <1>19. \A s \in Session : sessions'[s] = sessions[s] \/ (~Usable(s) /\ ~Usable(s)')
    BY <1>9 DEF Usable
  <1> QED BY <1>2, <1>7, <1>18, <1>19 DEF into

(* --- Account changes --- *)
(* Every space that is active gets the change, and every session it ends  *)
(* is revoked under its lock.                                              *)
LEMMA CommitChangeKeeps ==
    ASSUME Inv, NEW w \in Worker, CommitChange(w)
    PROVE  /\ Inv'
           /\ tr[w].revoked \in SUBSET Session
           /\ \A s \in Session : /\ s \in tr[w].revoked => ~Usable(s)'
                                 /\ s \notin tr[w].revoked => sessions'[s] = sessions[s]
  <1> DEFINE q == tr[w]
             version == accounts[q.whom].version + 1
  <1>1. /\ q.kind = "change" /\ q.pc = "staged"
        /\ accounts' = [accounts EXCEPT ![q.whom] = [version |-> version, updatedAt |-> q.at]]
        /\ sessions' = Revoked(q.revoked, "account_changed", q.at)
        /\ feed' = [sp \in Space |-> IF sp \in q.into
                       THEN [feed[sp] EXCEPT ![q.whom] = version] ELSE feed[sp]]
        /\ tr' = [tr EXCEPT ![w] = Idle]
        /\ UNCHANGED <<spaces, enabled, issued, parent, rows, clock>>
    BY DEF CommitChange, At
  <1>2. /\ q.whom \in User /\ q.at \in Nat /\ q.revoked \in SUBSET Session
        /\ \A s \in q.revoked : Live(s) /\ Update(<<"session", s>>) \in q.held
        /\ Share(<<"generation">>) \in q.held
        /\ q.into = {sp \in Space : IsActive(sp)}
    BY <1>1, SenderFacts DEF Remembers, Seen, Keys
  <1>3. /\ Unclaimed(w, <<"generation">>)
        /\ \A s \in q.revoked : Free(w, <<"session", s>>)
    BY <1>2, HeldAlone, HeldShared
  <1>4. PICK u \in User : u = q.whom
    BY <1>2
  <1>5. PICK gone \in SUBSET Session : gone = q.revoked
    BY <1>2
  <1>6. version \in Nat
    BY <1>2 DEF Inv, TypeOK
  <1> HIDE DEF q, version
  <1>7. /\ accounts' \in [User -> [version : Nat, updatedAt : Nat]]
        /\ accounts'[u].version = version
        /\ \A x \in User \ {u} : accounts'[x] = accounts[x]
    BY <1>1, <1>2, <1>4, <1>6 DEF Inv, TypeOK
  <1>8. /\ sessions' \in [Session -> SessionRow \cup {NoSession}]
        /\ \A s \in Session \ gone : sessions'[s] = sessions[s]
        /\ \A s \in gone :
              /\ sessions[s] # NoSession /\ sessions'[s] # NoSession
              /\ sessions'[s].user = sessions[s].user
              /\ sessions'[s].space = sessions[s].space
              /\ sessions'[s].state = "account_changed"
        /\ Fresh' /\ SpentParents'
    <2>1. PICK time \in Nat : time = q.at
      BY <1>2
    <2>2. \A s \in gone : Live(s)
      BY <1>2, <1>5
    <2>3. sessions' = Revoked(gone, "account_changed", time)
      BY <1>1, <1>5, <2>1
    <2> QED BY <1>1, <2>2, <2>3, RevokedFacts DEF Revocation
  <1>9. ActiveGenerations' = ActiveGenerations
    BY <1>1 DEF ActiveGenerations
  <1>10. OneCurrent'
    BY <1>1 DEF Inv, Sound, OneCurrent
  <1>11. \A s \in gone : ~Usable(s)'
    BY <1>8 DEF Usable
  <1>12. LiveInside'
    <2> SUFFICES ASSUME NEW s \in Session, Usable(s)'
                 PROVE  sessions'[s].space \in {Production} \cup ActiveGenerations'
      BY DEF LiveInside, IsActive
    <2>1. sessions'[s] = sessions[s] /\ Usable(s)
      BY <1>8, <1>11 DEF Usable
    <2> QED BY <1>9, <2>1 DEF Inv, Sound, LiveInside, IsActive
  <1>13. FeedsCarryAccounts'
    <2> SUFFICES ASSUME NEW sp \in Space, NEW x \in User, IsActive(sp)
                 PROVE  feed'[sp][x] = accounts'[x].version
      BY <1>9 DEF FeedsCarryAccounts, IsActive
    <2>1. feed'[sp] = [feed[sp] EXCEPT ![u] = version] /\ feed[sp] \in [User -> Nat]
      BY <1>1, <1>2, <1>4 DEF Inv, TypeOK
    <2>2. CASE x = u
      BY <1>7, <2>1, <2>2
    <2>3. CASE x # u
      <3>1. feed'[sp][x] = feed[sp][x] /\ accounts'[x] = accounts[x]
        BY <1>7, <2>1, <2>3
      <3> QED BY <3>1 DEF Inv, Sound, FeedsCarryAccounts
    <2> QED BY <2>2, <2>3
  <1>14. TypeOK'
    <2>1. feed' \in [Space -> [User -> Nat]]
      <3>1. ASSUME NEW sp \in Space PROVE feed'[sp] \in [User -> Nat]
        <4>1. feed[sp] \in [User -> Nat]
          BY DEF Inv, TypeOK
        <4>2. feed'[sp] \in {feed[sp], [feed[sp] EXCEPT ![u] = version]}
          BY <1>1, <1>4
        <4> QED BY <1>6, <4>1, <4>2
      <3>2. feed' = [sp \in Space |-> feed'[sp]]
        BY <1>1
      <3> QED BY <3>1, <3>2
    <2>2. tr' \in [Worker -> Request]
      BY <1>1, IdleFacts DEF Inv, TypeOK
    <2> QED BY <1>1, <1>7, <1>8, <2>1, <2>2 DEF Inv, TypeOK
  <1>15. Careful(w)
    <2>1. issued <= issued'
      BY <1>1, SandboxAssumption DEF Inv, TypeOK
    <2>2. ASSUME NEW s \in Session
          PROVE  /\ sessions'[s] = sessions[s] \/ Ends(w, s)
                 /\ Live(s) => Live(s)' \/ Free(w, <<"session", s>>)
                 /\ Live(s)' => Live(s)
      <3>1. CASE s \in gone
        BY <1>3, <1>5, <1>8, <3>1 DEF Ends, Live
      <3>2. CASE s \notin gone
        BY <1>8, <1>9, <3>2 DEF Live, IsActive
      <3> QED BY <3>1, <3>2
    <2> QED BY <1>1, <1>3, <2>1, <2>2 DEF Careful
  <1>16. Sound'
    BY <1>8, <1>10, <1>12, <1>13 DEF Sound
  <1>17. Inv'
    BY <1>1, <1>14, <1>15, <1>16, CommitBudget, Committed
  <1> QED BY <1>5, <1>8, <1>11, <1>17 DEF q

-----------------------------------------------------------------------------
(* --- The theorems ---------------------------------------------------------- *)
LEMMA InitKeeps ==
    ASSUME Init
    PROVE  Inv
  <1>0. /\ MaxSession \in Nat /\ MaxGeneration \in Nat /\ MaxGeneration >= 1
        /\ MaxClock \in Nat /\ Users \in Nat /\ Users <= MaxSession
        /\ \A g \in Generation : g \in Nat /\ g >= 1
        /\ 1 \in Generation /\ 1 \in Space /\ Production \in Space
        /\ \A s \in Session : s \in Nat /\ (s > Users <=> s \notin User)
        /\ User \subseteq Session
    BY SandboxAssumption DEF Generation, Space, Session, User, Production
  <1>1. /\ \A w \in Worker : tr[w] = Idle
        /\ tr \in [Worker -> Request]
    BY IdleFacts DEF Init
  <1>2. /\ spaces \in [Generation -> SpaceRow]
        /\ \/ \A g \in Generation : spaces[g].status = "none"
           \/ /\ spaces[1].status = "active"
              /\ \A g \in Generation \ {1} : spaces[g].status = "none"
    <2>1. /\ NoSpace \in SpaceRow /\ ActiveSpace \in SpaceRow
          /\ NoSpace.status = "none" /\ ActiveSpace.status = "active"
      BY DEF NoSpace, ActiveSpace, SpaceRow
    <2>2. CASE spaces = [g \in Generation |-> NoSpace]
      BY <2>1, <2>2
    <2>3. CASE spaces = [g \in Generation |-> IF g = 1 THEN ActiveSpace ELSE NoSpace]
      BY <1>0, <2>1, <2>3
    <2> QED BY <2>2, <2>3 DEF Init
  <1>3. /\ \A s \in Session : s \in User =>
               /\ sessions[s] \in SessionRow /\ sessions[s].space = Production
               /\ sessions[s] # NoSession
        /\ \A s \in Session : s \notin User => sessions[s] = NoSession
        /\ sessions \in [Session -> SessionRow \cup {NoSession}]
    <2>1. ASSUME NEW s \in User
          PROVE  /\ LiveSession(s, Production) \in SessionRow
                 /\ LiveSession(s, Production).space = Production
      BY <1>0 DEF LiveSession, SessionRow
    <2>2. sessions = [s \in Session |-> IF s \in User THEN LiveSession(s, Production)
                                        ELSE NoSession]
      BY DEF Init
    <2> QED BY <2>1, <2>2, NoSessionAssumption
  <1>4. feed \in [Space -> [User -> Nat]] /\ FeedsCarryAccounts
    <2>1. feed = [sp \in Space |-> [u \in User |-> IF IsActive(sp) THEN 1 ELSE 0]]
      BY DEF Init
    <2>2. \A u \in User : accounts[u].version = 1
      BY DEF Init
    <2> QED BY <2>1, <2>2 DEF FeedsCarryAccounts
  <1>5. TypeOK
    <2>1. accounts \in [User -> [version : Nat, updatedAt : Nat]] /\ enabled \in BOOLEAN
      BY DEF Init
    <2>2. issued \in Users .. MaxSession /\ clock \in 0 .. MaxClock /\ rows = {}
      BY <1>0 DEF Init
    <2>3. parent \in [Session -> {0} \cup Session]
      BY DEF Init
    <2> QED BY <1>1, <1>2, <1>3, <1>4, <2>1, <2>2, <2>3 DEF TypeOK
  <1>6. Separate
    BY <1>1, IdleFacts DEF Separate
  <1>7. Sound
    <2>1. OneCurrent
      BY <1>0, <1>2 DEF OneCurrent
    <2>2. LiveInside
      BY <1>3 DEF LiveInside, Usable, IsActive
    <2>3. Fresh
      BY <1>0, <1>3 DEF Fresh, Init
    <2>4. SpentParents
      BY DEF SpentParents, Init
    <2> QED BY <1>4, <2>1, <2>2, <2>3, <2>4 DEF Sound
  <1>8. Budget
    <2>1. Replacing = {}
      BY <1>1, IdleFacts DEF Replacing
    <2>2. Cardinality(Replacing) = 0
      BY <2>1, FS_EmptySet
    <2> QED BY <1>0, <2>2 DEF Budget, Init
  <1>9. Prepared
    BY <1>1, IdleFacts DEF Prepared
  <1> QED BY <1>5, <1>6, <1>7, <1>8, <1>9 DEF Inv

LEMMA ProceedKeeps ==
    ASSUME Inv, NEW w \in Worker, Proceed(w)
    PROVE  Inv'
  BY LockWriteKeeps, CommitWriteKeeps, AimKeeps, LockReplacementKeeps,
     CommitReplacementKeeps, LockEnsureKeeps, CommitEnsureKeeps, LockConfigureKeeps,
     CommitConfigureKeeps, LockResetKeeps, ResetRevokeKeeps, CommitResetKeeps,
     LockCleanupKeeps, CommitCleanupKeeps, BeginChangeKeeps, StageChangeKeeps,
     FanOutKeeps, CommitChangeKeeps DEF Proceed

LEMMA StutterKeeps ==
    ASSUME Inv, UNCHANGED vars
    PROVE  Inv'
  <1>0. UNCHANGED dbVars
    BY DEF vars
  <1>1. /\ UNCHANGED <<spaces, enabled, accounts, sessions, issued, parent, rows, feed>>
        /\ clock' = clock /\ tr' = tr
    BY DEF vars, dbVars
  <1>2. TypeOK' /\ Separate' /\ Budget'
    BY <1>1 DEF Inv, TypeOK, Separate, Budget, Replacing
  <1>3. Sound'
    BY <1>1 DEF Inv, Sound, OneCurrent, LiveInside, Usable, IsActive, ActiveGenerations,
       Fresh, SpentParents, FeedsCarryAccounts
  <1>4. ASSUME NEW v \in Worker
        PROVE  Remembers(tr[v])' /\ Keys(tr[v])' /\ Seen(tr[v])'
    <2>1. Remembers(tr[v]) /\ Keys(tr[v]) /\ Seen(tr[v])
      BY DEF Inv, Prepared
    <2>2. Remembers(tr[v])'
      BY <1>1, <2>1 DEF Remembers
    <2>3. Keys(tr[v])'
      BY <1>1, <2>1 DEF Keys, Share, Update
    <2>4. tr'[v] = tr[v]
      BY <1>1
    <2>5. Seen(tr[v])'
      BY <1>0, <2>1, <2>4, ReadsStay DEF Seen
    <2> QED BY <2>2, <2>3, <2>5
  <1> QED BY <1>2, <1>3, <1>4 DEF Inv, Prepared

LEMMA NextKeeps ==
    ASSUME Inv, [Next]_vars
    PROVE  Inv'
  <1>1. ASSUME NEW w \in Worker, Ask(w) \/ Proceed(w) \/ Abort(w) PROVE Inv'
    BY <1>1, AskKeeps, ProceedKeeps, Refused DEF Abort
  <1> QED BY <1>1, StutterKeeps DEF Next

(* What every request still knows when it commits, at every step: the      *)
(* inductive invariant the theorems below follow from.                     *)
THEOREM RequestsPrepared == Spec => []Inv
  <1>1. Init => Inv
    BY InitKeeps
  <1>2. Inv /\ [Next]_vars => Inv'
    BY NextKeeps
  <1> QED BY <1>1, <1>2, PTL DEF Spec

(* The tables and the requests in flight keep their types: no generation   *)
(* and no session beyond the tables is ever made.                          *)
THEOREM SandboxTypes == Spec => []TypeOK
  <1>1. Inv => TypeOK
    BY DEF Inv
  <1> QED BY <1>1, RequestsPrepared, PTL

(* A session is replaced at most once, and the replaced one cannot be used *)
(* again, however switches, recoveries and resets interleave               *)
(* (data_spaces.go SwitchSession, RecoverRetiredSandboxSession).           *)
THEOREM OneSuccessor == Spec => []OneLiveSuccessor
  <1>1. Inv => OneLiveSuccessor
    <2> SUFFICES ASSUME Inv PROVE OneLiveSuccessor
      OBVIOUS
    <2>1. \A a \in 1 .. issued : a \in Session
      BY SandboxAssumption DEF Inv, TypeOK, Session
    <2> QED BY <2>1 DEF Inv, Sound, SpentParents, OneLiveSuccessor
  <1> QED BY <1>1, RequestsPrepared, PTL

(* The change feed of every active space carries every account as it is:   *)
(* an account that changes while a generation starts is in its seed or in  *)
(* its feed (addSharedChange, seedSharedSyncChanges).                      *)
THEOREM FeedsComplete == Spec => []FeedsCarryAccounts
  <1>1. Inv => FeedsCarryAccounts
    BY DEF Inv, Sound
  <1> QED BY <1>1, RequestsPrepared, PTL

-----------------------------------------------------------------------------
(* --- The gate ----------------------------------------------------------------- *)
(* The generation each session is inside, or Production. *)
Inside == [s \in Session |-> IF Usable(s) THEN sessions[s].space ELSE Production]

(* A step that the gate does not see. *)
LEMMA GateStutters ==
    ASSUME ActiveGeneration' = ActiveGeneration, Inside' = Inside, rows' = rows
    PROVE  UNCHANGED Gate!vars
  BY DEF Gate!vars, Inside, Usable

LEMMA GateUnchanged ==
    ASSUME UNCHANGED dbVars
    PROVE  UNCHANGED Gate!vars
  <1>1. ActiveGeneration' = ActiveGeneration
    BY DEF dbVars, ActiveGeneration, ActiveGenerations
  <1>2. Inside' = Inside /\ rows' = rows
    BY DEF dbVars, Inside, Usable
  <1> QED BY <1>1, <1>2, GateStutters

(* The requests that read, and those that take their locks. *)
LEMMA GateAsks ==
    ASSUME NEW w \in Worker, Ask(w) \/ Abort(w)
    PROVE  UNCHANGED dbVars
  BY DEF Ask, Abort, Refuse, Goto, AskWrite, AskStatus, AskReset, AskSwitch, AskConfigure,
     AskChange, AskCleanup

LEMMA GateLocks ==
    ASSUME NEW w \in Worker,
           \/ LockWrite(w) \/ Aim(w) \/ LockSwitch(w) \/ LockRecover(w) \/ LockEnsure(w)
           \/ LockConfigure(w) \/ LockReset(w) \/ ResetRevoke(w) \/ LockCleanup(w)
           \/ BeginChange(w) \/ StageChange(w) \/ FanOut(w)
    PROVE  UNCHANGED dbVars
  <1>1. ASSUME LockWrite(w) \/ Aim(w) \/ LockSwitch(w) \/ LockRecover(w) PROVE UNCHANGED dbVars
    BY <1>1 DEF LockWrite, Aim, LockSwitch, LockRecover, Stage, Refuse, Goto
  <1>2. ASSUME LockEnsure(w) \/ LockConfigure(w) \/ LockCleanup(w) PROVE UNCHANGED dbVars
    BY <1>2 DEF LockEnsure, LockConfigure, LockCleanup, Stage, Refuse, Goto
  <1>3. ASSUME LockReset(w) \/ ResetRevoke(w) PROVE UNCHANGED dbVars
    BY <1>3 DEF LockReset, ResetRevoke, Stage, Refuse, Goto
  <1>4. ASSUME BeginChange(w) \/ StageChange(w) \/ FanOut(w) PROVE UNCHANGED dbVars
    BY <1>4 DEF BeginChange, StageChange, FanOut, Stage, Refuse, Goto
  <1> QED BY <1>1, <1>2, <1>3, <1>4

(* A business write is an insider's, into the current generation. *)
LEMMA GateWrites ==
    ASSUME Inv, NEW w \in Worker, CommitWrite(w)
    PROVE  \E s \in Session : Gate!Write(s)
  <1>1. /\ tr[w].kind = "write" /\ tr[w].pc = "staged"
        /\ rows' = rows \cup {<<tr[w].space, tr[w].session>>}
        /\ UNCHANGED <<spaces, sessions>>
    BY DEF CommitWrite, At
  <1>2. PICK s \in Session : s = tr[w].session
    BY <1>1, SenderFacts DEF OfSession
  <1>3. /\ Live(s) /\ tr[w].space # Production
        /\ sessions[s].space = tr[w].space
    BY <1>1, <1>2, SenderFacts DEF Seen, Remembers, OfSession, Live
  <1>4. Usable(s) /\ sessions[s].space \in Space
    BY <1>3, LiveFacts DEF Live, Usable
  <1>5. /\ sessions[s].space = ActiveGeneration /\ ActiveGeneration \in Generation
    BY <1>3, <1>4, ActiveFacts DEF Live, Production, Inv, TypeOK, Sound
  <1>6. ActiveGeneration > 0
    BY <1>5 DEF Generation
  <1>7. Inside[s] = ActiveGeneration /\ Inside' = Inside /\ ActiveGeneration' = ActiveGeneration
    BY <1>1, <1>4, <1>5 DEF Inside, Usable, ActiveGeneration, ActiveGenerations
  <1>8. rows' = rows \cup {<<ActiveGeneration, s>>}
    BY <1>1, <1>2, <1>3, <1>5
  <1>9. Gate!Write(s)
    BY <1>6, <1>7, <1>8 DEF Gate!Write, Inside, Usable
  <1> QED BY <1>9

(* A switch or a recovery enters the current generation from outside, or   *)
(* leaves it.                                                              *)
LEMMA GateReplaces ==
    ASSUME Inv, NEW w \in Worker, CommitReplacement(w)
    PROVE  \/ UNCHANGED Gate!vars
           \/ \E s \in Session : Gate!Enter(s)
           \/ \E leavers \in SUBSET Session : Gate!Leave(leavers)
  <1>a. PICK s \in Session, reason \in {"mode_switched", "sandbox_generation_recovered"} :
           Replaces(w, s, issued + 1, reason)
    BY ReplacementFacts
  <1>b. issued + 1 \in Session
    BY <1>a DEF Replaces
  <1>c. PICK n \in Session : n = issued + 1
    BY <1>b
  <1>0. Replaces(w, s, n, reason)
    BY <1>a, <1>c
  <1> DEFINE target == tr[w].target
  <1>1. /\ s = tr[w].session /\ sessions[s] # NoSession /\ n \in Session /\ n # s
        /\ sessions[n] = NoSession
        /\ sessions'[s] = [sessions[s] EXCEPT !.state = reason]
        /\ sessions'[n] = LiveSession(tr[w].user, target)
        /\ \A x \in Session \ {s, n} : sessions'[x] = sessions[x]
        /\ target \in Space /\ IsActive(target) /\ tr[w].user \in User
        /\ tr[w].kind = "switch" => Live(s)
        /\ tr[w].kind = "recover" => sessions[s].state = "sandbox_generation_retired"
    BY <1>0 DEF Replaces
  <1>2. /\ tr[w].kind \in Replacements /\ tr[w].pc = "staged"
        /\ rows' = rows /\ spaces' = spaces
    BY DEF CommitReplacement, Replacements
  <1>3. /\ target # Production <=> tr[w].sandbox
        /\ tr[w].kind = "switch" => tr[w].sandbox = (sessions[s].space = Production)
    BY <1>1, <1>2, SenderFacts DEF Remembers, Replacements, OfSession
  <1>4. ActiveGeneration' = ActiveGeneration
    BY <1>2 DEF ActiveGeneration, ActiveGenerations
  <1>5. /\ Usable(n)' /\ sessions'[n].space = target /\ ~Usable(n) /\ ~Usable(s)'
        /\ \A x \in Session \ {s, n} : Usable(x)' <=> Usable(x)
    <2>1. LiveSession(tr[w].user, target) \in SessionRow
      BY <1>1 DEF LiveSession, SessionRow
    <2>2. sessions[s] \in SessionRow
      BY <1>1, LiveFacts
    <2>3. sessions'[s].state = reason
      BY <1>1, <2>2 DEF SessionRow
    <2>4. sessions'[n] # NoSession /\ sessions'[n].state = "live" /\ sessions'[n].space = target
      BY <1>1, <2>1, NoSessionAssumption DEF LiveSession
    <2> QED BY <1>1, <2>3, <2>4 DEF Usable
  <1> HIDE DEF target
  <1>6. /\ Inside'[n] = target /\ Inside[n] = Production /\ Inside'[s] = Production
        /\ \A x \in Session \ {s, n} : Inside'[x] = Inside[x]
        /\ Inside' = [x \in Session |-> Inside'[x]]
        /\ Inside = [x \in Session |-> Inside[x]]
    BY <1>1, <1>5 DEF Inside
  <1>7. CASE target = Production
    <2>1. Inside' = [x \in Session |-> IF x \in {s} THEN Production ELSE Inside[x]]
      BY <1>1, <1>6, <1>7
    <2>2. Gate!Leave({s})
      BY <1>2, <1>4, <2>1 DEF Gate!Leave, Inside, Usable
    <2> QED BY <2>2
  <1>8. CASE target # Production
    <2>1. target = ActiveGeneration /\ ActiveGeneration \in Generation
      BY <1>1, <1>8, ActiveFacts DEF Production, Inv, TypeOK, Sound
    <2>2. ActiveGeneration > 0
      BY <2>1 DEF Generation
    <2>3. Inside[s] = Production
      BY <1>1, <1>2, <1>3, <1>8 DEF Inside, Usable, Live, Replacements
    <2>4. Inside' = [Inside EXCEPT ![n] = ActiveGeneration]
      BY <1>1, <1>6, <2>1, <2>3
    <2>5. Gate!Enter(n)
      BY <1>2, <1>4, <1>6, <2>2, <2>4 DEF Gate!Enter, Inside, Usable
    <2> QED BY <1>1, <2>5
  <1> QED BY <1>7, <1>8

(* The first generation starts when nobody is inside any. *)
LEMMA GateActivates ==
    ASSUME Inv, NEW w \in Worker, CommitEnsure(w) \/ CommitConfigure(w)
    PROVE  UNCHANGED Gate!vars \/ Gate!Advance
  <1> DEFINE q == tr[w]
  <1>1. /\ spaces' = IF q.target = 0 THEN spaces ELSE Started(q.target)
        /\ feed' = IF q.target = 0 THEN feed ELSE [feed EXCEPT ![q.target] = q.seed]
        /\ UNCHANGED <<accounts, sessions, issued, parent, rows>>
        /\ q.pc = "activating" \/ (q.pc = "staged" /\ q.kind = "configure")
    BY DEF CommitEnsure, CommitConfigure, At
  <1>2. q.target \in {0, Made} /\ q.seed = Seeded
    BY <1>1, SenderFacts DEF Seen
  <1> HIDE DEF q
  <1>3. PICK x \in {0, Made}, seed \in {Seeded} : x = q.target /\ seed = q.seed
    BY <1>2
  <1>4. /\ spaces' = IF x = 0 THEN spaces ELSE Started(x)
        /\ feed' = IF x = 0 THEN feed ELSE [feed EXCEPT ![x] = seed]
        /\ UNCHANGED <<accounts, sessions, issued, parent>>
    BY <1>1, <1>3
  <1>5. /\ x # 0 => ActiveGeneration = 0 /\ ActiveGeneration' = 1 /\ ActiveGenerations = {}
        /\ x = 0 => spaces' = spaces
    BY <1>4, ActivationFacts
  <1>6. Inside' = Inside /\ rows' = rows
    BY <1>1 DEF Inside, Usable
  <1>7. CASE x = 0
    <2>1. ActiveGeneration' = ActiveGeneration
      BY <1>5, <1>7 DEF ActiveGeneration, ActiveGenerations
    <2> QED BY <1>6, <2>1, GateStutters
  <1>8. CASE x # 0
    <2>1. ActiveGeneration' = ActiveGeneration + 1
      BY <1>5, <1>8
    <2>2. \A s \in Session : Usable(s) => sessions[s].space = Production
      BY <1>5, <1>8 DEF Inv, Sound, LiveInside, IsActive
    <2>3. Inside' = [s \in Session |-> Production]
      BY <1>6, <2>2 DEF Inside
    <2> QED BY <1>6, <2>1, <2>3 DEF Gate!Advance, Inside, Usable
  <1> QED BY <1>7, <1>8

(* A reset turns everybody out as it starts the next generation. *)
LEMMA GateResets ==
    ASSUME Inv, NEW w \in Worker, CommitReset(w)
    PROVE  Gate!Advance
  <1>1. ActiveGeneration' = ActiveGeneration + 1 /\ rows' = rows
    BY CommitResetKeeps DEF CommitReset
  <1>2. Inside' = [s \in Session |-> Production]
    BY CommitResetKeeps DEF Inside
  <1> QED BY <1>1, <1>2 DEF Gate!Advance, Inside, Usable

(* A purge erases past generations only. *)
LEMMA GatePurges ==
    ASSUME Inv, NEW w \in Worker, CommitCleanup(w)
    PROVE  \E past \in SUBSET (1 .. ActiveGeneration) : Gate!Purge(past)
  <1> DEFINE into == tr[w].into
  <1>1. /\ into \subseteq RetiredGenerations /\ ActiveGeneration' = ActiveGeneration
        /\ \A s \in Session : sessions'[s] = sessions[s] \/ (~Usable(s) /\ ~Usable(s)')
        /\ rows' = {row \in rows : row[1] \notin into}
    BY CommitCleanupKeeps DEF CommitCleanup
  <1>2. Inside' = Inside
    <2>1. ASSUME NEW s \in Session
          PROVE  (IF Usable(s)' THEN sessions'[s].space ELSE Production)
                    = (IF Usable(s) THEN sessions[s].space ELSE Production)
      BY <1>1 DEF Usable
    <2> QED BY <2>1 DEF Inside
  <1> HIDE DEF into
  <1>3. ASSUME NEW g \in into PROVE g < ActiveGeneration /\ g \in 1 .. ActiveGeneration
    <2>1. g \in Generation /\ spaces[g].status = "retired"
      BY <1>1 DEF RetiredGenerations
    <2>2. g \in Nat /\ g >= 1
      BY <2>1 DEF Generation
    <2>3. /\ ActiveGeneration \in Generation
          /\ g > ActiveGeneration => spaces[g].status = "none"
          /\ g = ActiveGeneration => spaces[g].status = "active"
      BY <2>1, ActiveFacts DEF Inv, TypeOK, Sound
    <2>4. ActiveGeneration \in Nat /\ ~(g > ActiveGeneration) /\ g # ActiveGeneration
      BY <2>1, <2>3 DEF Generation
    <2> QED BY <2>2, <2>4
  <1>4. Gate!Purge(into)
    BY <1>1, <1>2, <1>3 DEF Gate!Purge, Inside, Usable
  <1> QED BY <1>3, <1>4

(* A change of an account turns its sessions out. *)
LEMMA GateChanges ==
    ASSUME Inv, NEW w \in Worker, CommitChange(w)
    PROVE  \E leavers \in SUBSET Session : Gate!Leave(leavers)
  <1>1. PICK gone \in SUBSET Session :
           \A s \in Session : /\ s \in gone => ~Usable(s)'
                              /\ s \notin gone => sessions'[s] = sessions[s]
    BY CommitChangeKeeps
  <1>2. rows' = rows /\ spaces' = spaces
    BY DEF CommitChange
  <1>3. ActiveGeneration' = ActiveGeneration
    BY <1>2 DEF ActiveGeneration, ActiveGenerations
  <1>4. Inside' = [s \in Session |-> IF s \in gone THEN Production ELSE Inside[s]]
    BY <1>1 DEF Inside, Usable
  <1>5. Gate!Leave(gone)
    BY <1>2, <1>3, <1>4 DEF Gate!Leave, Inside, Usable
  <1> QED BY <1>5

LEMMA GateNext ==
    ASSUME Inv, [Next]_vars
    PROVE  [Gate!Next]_(Gate!vars)
  <1>1. CASE UNCHANGED vars
    BY <1>1, GateUnchanged DEF vars
  <1>2. ASSUME NEW w \in Worker, Ask(w) \/ Abort(w) PROVE UNCHANGED Gate!vars
    BY <1>2, GateAsks, GateUnchanged
  <1>3. ASSUME NEW w \in Worker, Proceed(w) PROVE Gate!Next \/ UNCHANGED Gate!vars
    <2>1. CASE \/ LockWrite(w) \/ Aim(w) \/ LockSwitch(w) \/ LockRecover(w) \/ LockEnsure(w)
               \/ LockConfigure(w) \/ LockReset(w) \/ ResetRevoke(w) \/ LockCleanup(w)
               \/ BeginChange(w) \/ StageChange(w) \/ FanOut(w)
      BY <2>1, GateLocks, GateUnchanged
    <2>2. CASE CommitWrite(w)
      BY <2>2, GateWrites DEF Gate!Next
    <2>3. CASE CommitReplacement(w)
      BY <2>3, GateReplaces DEF Gate!Next
    <2>4. CASE CommitEnsure(w) \/ CommitConfigure(w)
      BY <2>4, GateActivates DEF Gate!Next
    <2>5. CASE CommitReset(w)
      BY <2>5, GateResets DEF Gate!Next
    <2>6. CASE CommitCleanup(w)
      BY <2>6, GatePurges DEF Gate!Next
    <2>7. CASE CommitChange(w)
      BY <2>7, GateChanges DEF Gate!Next
    <2> QED BY <1>3, <2>1, <2>2, <2>3, <2>4, <2>5, <2>6, <2>7 DEF Proceed
  <1> QED BY <1>1, <1>2, <1>3 DEF Next

LEMMA GateInit ==
    ASSUME Init
    PROVE  Gate!Init
  <1>1. Inv
    BY InitKeeps
  <1>2. \A s \in Session : Usable(s) => sessions[s].space = Production
    BY DEF Usable, LiveSession, Init
  <1>3. Inside = [s \in Session |-> Production]
    BY <1>2 DEF Inside
  <1>4. ActiveGeneration \in {0, 1}
    <2>1. \A g \in Generation : spaces[g].status = "active" => g = 1
      BY DEF Init, NoSpace, ActiveSpace
    <2>2. ActiveGeneration = 0 \/ (ActiveGeneration \in Generation
             /\ spaces[ActiveGeneration].status = "active")
      BY <1>1, ActiveFacts DEF Inv, TypeOK, Sound
    <2> QED BY <2>1, <2>2
  <1>5. rows = {}
    BY DEF Init
  <1> QED BY <1>3, <1>4, <1>5 DEF Gate!Init, Inside, Usable

(* SandboxLifecycle implements the gate: to every session a generation is  *)
(* current or it is not there, although each request decides where it goes *)
(* before it has its locks (lockMutationIdentity, ResetSandbox).           *)
THEOREM ImplementsGate == Spec => GateSpec
  <1>1. Init => Gate!Init
    BY GateInit
  <1>2. Inv /\ [Next]_vars => [Gate!Next]_(Gate!vars)
    BY GateNext
  <1> QED BY <1>1, <1>2, RequestsPrepared, PTL DEF Spec, GateSpec, Gate!Spec
=============================================================================
