----------------------- MODULE AccountSessionsProofs -----------------------
(***************************************************************************)
(* Proofs about AccountSessions, for any number of accounts, of requests   *)
(* in flight and of sessions: the types, and that an organization keeps a  *)
(* superadmin because every request that could take the last one away      *)
(* still sees, when it commits, what it decided on under its locks.        *)
(***************************************************************************)
EXTENDS AccountSessions, TLAPS

Lock == [on : Resource, exclusive : BOOLEAN]

(* The kinds of request that a session sends, and those about an account.  *)
OfSession == {"upgrade", "switch", "logout", "own", "create", "update",
              "reset", "status", "terminal"}
OfAccount == {"create", "update", "reset", "operator", "first"}

(* What a request refers to exists, and stays.                             *)
Shape(q) ==
    /\ q.kind \in OfSession =>
          q.session \in Session /\ sessions[q.session] # NoSession
    /\ q.kind \in OfSession \cup {"login", "rehash"} => q.user \in User
    /\ q.kind \in OfAccount => q.whom \in User
    /\ q.kind \in {"upgrade", "switch"} => q.goal \in {"account", "tenant"}
    /\ q.kind = "status" => q.goal \in {"active", "suspended"}
    /\ q.kind = "create" => q.role \in Role
    /\ q.kind = "operator" => q.goal \in {"grant", "revoke", "reset"}
    /\ q.kind \in {"login", "rehash", "own"} => Present(q.user)
    /\ q.kind \in {"update", "reset", "operator"} => Present(q.whom)

Shapes == \A w \in Worker : Shape(tr[w])

(* Nothing that exists is forgotten. *)
Kept ==
    /\ \A u \in User : Present(u) => users'[u] # NoUser
    /\ \A s \in Session : sessions[s] # NoSession => sessions'[s] # NoSession

-----------------------------------------------------------------------------
(* --- Types -------------------------------------------------------------- *)
(* The locks that are taken are locks. *)
LEMMA LockTypes ==
    /\ \A u \in User : Share(UserLock(u)) \in Lock /\ Update(UserLock(u)) \in Lock
    /\ \A s \in Session : Share(<<"session", s>>) \in Lock
    /\ Share(<<"organization">>) \in Lock /\ Update(<<"organization">>) \in Lock
    /\ Share(<<"tenant">>) \in Lock /\ Update(<<"tenant">>) \in Lock
    /\ Share(<<"terminal">>) \in Lock /\ Update(<<"terminal">>) \in Lock
    /\ \A set \in SUBSET Session : SessionLocks(set) \subseteq Lock
    /\ \A b : TerminalShare(b) \subseteq Lock
  <1>1. \A r \in Resource : Share(r) \in Lock /\ Update(r) \in Lock
    BY DEF Share, Update, Lock
  <1>2. \A u \in User : UserLock(u) \in Resource
    BY DEF UserLock, Resource
  <1>3. \A s \in Session : <<"session", s>> \in Resource
    BY DEF Resource
  <1>4. /\ <<"organization">> \in Resource
        /\ <<"tenant">> \in Resource
        /\ <<"terminal">> \in Resource
    BY DEF Resource
  <1>5. \A set \in SUBSET Session : SessionLocks(set) \subseteq Lock
    BY <1>1, <1>3 DEF SessionLocks, UpdateAll
  <1>6. \A b : TerminalShare(b) \subseteq Lock
    BY <1>1, <1>4 DEF TerminalShare
  <1> QED BY <1>1, <1>2, <1>3, <1>4, <1>5, <1>6

(* The locks of a business write of a request that is shaped. *)
LEMMA IdentityLockTypes ==
    ASSUME NEW q \in Request, q.user \in User, q.session \in Session
    PROVE  IdentityLocks(q) \subseteq Lock
  <1>1. ShareAll({UserLock(q.user), <<"tenant">>, <<"session", q.session>>})
            = {Share(UserLock(q.user)), Share(<<"tenant">>), Share(<<"session", q.session>>)}
    BY DEF ShareAll
  <1> QED BY <1>1, LockTypes DEF IdentityLocks

(* No request is a request. *)
LEMMA IdleType == Idle \in Request /\ Shape(Idle)
  BY DEF Idle, Request, Shape, OfSession, OfAccount, Role

(* A session that is there is a row. *)
LEMMA RowTypes ==
    ASSUME TypeOK
    PROVE  /\ \A s \in Session : sessions[s] # NoSession => sessions[s] \in SessionRow
           /\ \A u \in User : Present(u) => users[u] \in UserRow
           /\ \A s \in Session : \A st : Is(s, st) => sessions[s] # NoSession
  BY DEF TypeOK, Present, Is

(* A request stays one when what it is waiting for, its locks or what it    *)
(* has read of the account change.                                          *)
LEMMA FieldTypes ==
    ASSUME NEW q \in Request
    PROVE  /\ \A pc \in {"asked", "again", "staged"} : [q EXCEPT !.pc = pc] \in Request
           /\ \A locks \in SUBSET Lock : [q EXCEPT !.held = locks] \in Request
           /\ \A secret \in Nat :
                 LET r == [q EXCEPT !.secret = secret]
                 IN  r \in Request /\ r.kind = q.kind /\ r.user = q.user
           /\ \A code \in {"outdated", "current"} :
                 LET r == [q EXCEPT !.encoding = code]
                 IN  r \in Request /\ r.kind = q.kind /\ r.user = q.user
  <1>1. ASSUME NEW pc \in {"asked", "again", "staged"} PROVE [q EXCEPT !.pc = pc] \in Request
    BY DEF Request
  <1>2. ASSUME NEW locks \in SUBSET Lock PROVE [q EXCEPT !.held = locks] \in Request
    BY DEF Request, Lock
  <1>3. ASSUME NEW secret \in Nat
        PROVE  LET r == [q EXCEPT !.secret = secret]
               IN  r \in Request /\ r.kind = q.kind /\ r.user = q.user
    BY DEF Request
  <1>4. ASSUME NEW code \in {"outdated", "current"}
        PROVE  LET r == [q EXCEPT !.encoding = code]
               IN  r \in Request /\ r.kind = q.kind /\ r.user = q.user
    BY DEF Request
  <1> QED BY <1>1, <1>2, <1>3, <1>4

(* A request that has its locks is a request. *)
LEMMA StagedType ==
    ASSUME NEW q \in Request, NEW locks \in SUBSET Lock
    PROVE  [q EXCEPT !.pc = "staged", !.held = locks] \in Request
  <1> DEFINE there == [q EXCEPT !.pc = "staged"]
  <1>1. there \in Request
    BY FieldTypes
  <1>2. [there EXCEPT !.held = locks] \in Request
    <2> HIDE DEF there
    <2> QED BY <1>1, FieldTypes
  <1> QED BY <1>2

(* A step that only moves one request. *)
LEMMA Moved ==
    ASSUME TypeOK, Shapes, UNCHANGED sent, NEW w \in Worker,
           NEW q \in Request, Shape(q), Goto(w, q)
    PROVE  TypeOK' /\ Shapes' /\ Kept
  <1> USE DEF Goto, accountVars
  <1>1. TypeOK'
    BY DEF TypeOK
  <1>2. Shapes'
    <2> SUFFICES ASSUME NEW v \in Worker PROVE Shape(tr[v])'
      BY DEF Shapes
    <2>1. tr'[v] = q \/ tr'[v] = tr[v]
      BY DEF TypeOK
    <2>2. Shape(tr'[v])
      BY <2>1 DEF Shapes
    <2>3. users' = users /\ sessions' = sessions
      OBVIOUS
    <2> QED BY <2>2, <2>3 DEF Shape, Present
  <1> QED BY <1>1, <1>2 DEF Kept, Present

(* A refused request leaves the tables alone and its worker idle. *)
LEMMA Refused ==
    ASSUME TypeOK, Shapes, UNCHANGED sent, NEW w \in Worker, Refuse(w)
    PROVE  TypeOK' /\ Shapes' /\ Kept
  BY Moved, IdleType DEF Refuse

(* A step that enters the critical part of a request. *)
LEMMA Entered ==
    ASSUME TypeOK, Shapes, UNCHANGED sent, NEW w \in Worker,
           NEW kind, NEW locks \in SUBSET Lock, NEW admitted,
           NEW q \in Request, Shape(q), Enter(w, kind, locks, admitted, q)
    PROVE  TypeOK' /\ Shapes' /\ Kept
  <1> DEFINE staged == [q EXCEPT !.pc = "staged", !.held = locks]
  <1>1. staged \in Request
    BY StagedType
  <1>2. /\ staged.kind = q.kind /\ staged.session = q.session
        /\ staged.user = q.user /\ staged.whom = q.whom
        /\ staged.goal = q.goal /\ staged.role = q.role
    BY DEF Request
  <1> HIDE DEF staged
  <1>3. Shape(staged)
    BY <1>2 DEF Shape
  <1>4. Refuse(w) \/ Goto(w, staged)
    BY DEF Enter, staged
  <1> QED BY <1>1, <1>3, <1>4, Moved, Refused

(* A step that commits a request. *)
LEMMA Written ==
    ASSUME TypeOK, Shapes, UNCHANGED sent, NEW w \in Worker,
           NEW q \in Request, Shape(q), tr' = [tr EXCEPT ![w] = q],
           users' \in [User -> UserRow \cup {NoUser}],
           tenant' \in {"active", "suspended"},
           terminal' \in {"none", "active", "revoked"},
           sessions' \in [Session -> SessionRow \cup {NoSession}],
           issued' \in Nat, parent' \in [Session -> {0} \cup Session], Kept
    PROVE  TypeOK' /\ Shapes'
  <1>1. TypeOK'
    BY DEF TypeOK
  <1>2. Shapes'
    <2> SUFFICES ASSUME NEW v \in Worker PROVE Shape(tr[v])'
      BY DEF Shapes
    <2>1. tr'[v] = q \/ tr'[v] = tr[v]
      BY DEF TypeOK
    <2>2. Shape(tr'[v])
      BY <2>1 DEF Shapes
    <2>3. /\ tr'[v].kind \in OfAccount => tr'[v].whom \in User
          /\ tr'[v].kind \in OfSession \cup {"login", "rehash"} => tr'[v].user \in User
      BY <2>2 DEF Shape
    <2>4. /\ tr'[v].kind \in OfSession =>
                tr'[v].session \in Session /\ sessions'[tr'[v].session] # NoSession
      BY <2>2 DEF Shape, Kept
    <2>5. /\ tr'[v].kind \in {"login", "rehash", "own"} => users'[tr'[v].user] # NoUser
          /\ tr'[v].kind \in {"update", "reset", "operator"} =>
                users'[tr'[v].whom] # NoUser
      BY <2>2, <2>3 DEF Shape, Present, Kept, OfAccount, OfSession
    <2> QED BY <2>2, <2>3, <2>4, <2>5 DEF Shape, Present
  <1> QED BY <1>1, <1>2

(* A statement that revokes sessions. *)
LEMMA RevokedTypes ==
    ASSUME TypeOK, NEW gone \in SUBSET Session, NEW reason \in Revocation
    PROVE  /\ Revoked(gone, reason) \in [Session -> SessionRow \cup {NoSession}]
           /\ \A s \in Session :
                 sessions[s] # NoSession => Revoked(gone, reason)[s] # NoSession
  <1>1. \A s \in gone : Live(s) => Spent(sessions[s], reason) \in SessionRow
    BY RowTypes DEF Live, Spent, SessionRow, TypeOK
  <1> QED BY <1>1, AbsentAssumption DEF Revoked, TypeOK

(* --- The steps, one by one ---------------------------------------------- *)
Typed == TypeOK /\ Shapes

(* The request that a session sends. *)
LEMMA PrincipalType ==
    ASSUME TypeOK, NEW s \in Session, sessions[s] # NoSession,
           NEW kind \in OfSession
    PROVE  LET q == Principal(kind, s) IN
           /\ q \in Request
           /\ q.kind = kind /\ q.session = s /\ q.user \in User
           /\ q.user = sessions[s].user
  <1> DEFINE row  == sessions[s]
             asked == [Idle EXCEPT !.pc = "asked", !.kind = kind, !.session = s]
             owned == [asked EXCEPT !.user = row.user]
             q == [owned EXCEPT !.context = row.context, !.bound = row.bound]
  <1>1. /\ row.user \in User /\ row.context \in {"account", "tenant"}
        /\ row.bound \in BOOLEAN
    BY RowTypes DEF SessionRow
  <1>2. asked \in Request /\ asked.kind = kind /\ asked.session = s
    BY DEF Idle, Request, OfSession
  <1>3. Principal(kind, s) = q
    BY DEF Principal
  <1> HIDE DEF row, asked
  <1>4. /\ owned \in Request /\ owned.kind = kind /\ owned.session = s
        /\ owned.user = row.user
    BY <1>1, <1>2 DEF Request
  <1> HIDE DEF owned
  <1> DEFINE aimed == [owned EXCEPT !.context = row.context]
  <1>5. aimed \in Request /\ aimed.kind = kind /\ aimed.session = s /\ aimed.user = row.user
    BY <1>1, <1>4 DEF Request
  <1>6. q = [aimed EXCEPT !.bound = row.bound]
    OBVIOUS
  <1> HIDE DEF aimed, q
  <1>7. q \in Request /\ q.kind = kind /\ q.session = s /\ q.user = row.user
    BY <1>1, <1>5, <1>6 DEF Request
  <1> QED BY <1>1, <1>3, <1>7 DEF row

(* The same, about an account. *)
LEMMA AddressedType ==
    ASSUME NEW p \in Request, NEW u \in User
    PROVE  /\ \A r \in Role : [p EXCEPT !.whom = u, !.role = r] \in Request
           /\ \A st \in {"active", "inactive"} :
                 [p EXCEPT !.whom = u, !.standing = st] \in Request
  <1>1. [p EXCEPT !.whom = u] \in Request
    BY DEF Request
  <1>2. ASSUME NEW r \in Role PROVE [p EXCEPT !.whom = u, !.role = r] \in Request
    BY <1>1 DEF Request
  <1>3. ASSUME NEW st \in {"active", "inactive"}
        PROVE  [p EXCEPT !.whom = u, !.standing = st] \in Request
    <2> DEFINE addressed == [p EXCEPT !.whom = u]
    <2>1. addressed \in Request
      BY <1>1
    <2>2. [addressed EXCEPT !.standing = st] \in Request
      <3> HIDE DEF addressed
      <3> QED BY <2>1 DEF Request
    <2> QED BY <2>2
  <1> QED BY <1>2, <1>3

(* What the handlers keep of what they have read (Auth.Login, Auth.Authenticate) has its type. *)
LEMMA AskTypes ==
    ASSUME Typed, UNCHANGED sent, NEW w \in Worker, Ask(w)
    PROVE  Typed' /\ Kept
  <1> USE DEF Typed
  <1>1. ASSUME NEW s \in Session, AskUpgrade(w, s) PROVE Typed' /\ Kept
    <2>1. sessions[s] # NoSession /\ sessions[s].context \in {"account", "tenant"}
      BY <1>1, RowTypes DEF AskUpgrade, Authenticated, Live, SessionRow
    <2> DEFINE q == [Principal("upgrade", s) EXCEPT !.goal = sessions[s].context]
    <2>2. q \in Request /\ Shape(q)
      BY <2>1, PrincipalType DEF Request, Shape, OfSession, OfAccount
    <2> QED BY <1>1, <2>2, Moved DEF AskUpgrade
  <1>2. ASSUME NEW s \in Session, AskLogout(w, s) PROVE Typed' /\ Kept
    <2>1. sessions[s] # NoSession
      BY <1>2, RowTypes DEF AskLogout, RecoverableAccess
    <2> DEFINE q == Principal("logout", s)
    <2>2. q \in Request /\ Shape(q)
      BY <2>1, PrincipalType DEF Request, Shape, OfSession, OfAccount
    <2> QED BY <1>2, <2>2, Moved DEF AskLogout
  <1>3. ASSUME NEW s \in Session, AskOwnPassword(w, s) PROVE Typed' /\ Kept
    <2>1. sessions[s] # NoSession /\ users[sessions[s].user].secret \in Nat
      BY <1>3, RowTypes
      DEF AskOwnPassword, Authenticated, Live, Active, UserRow, SessionRow
    <2>2. Present(sessions[s].user)
      BY <1>3 DEF AskOwnPassword, Authenticated, Active
    <2> DEFINE q == [Principal("own", s) EXCEPT
                        !.secret = users[sessions[s].user].secret]
    <2>3. q \in Request
      BY <2>1, PrincipalType DEF Request, OfSession
    <2>4. /\ q.kind = "own" /\ q.session = s /\ q.user \in User
          /\ q.user = sessions[s].user
      BY <2>1, PrincipalType DEF Request, OfSession
    <2>5. Goto(w, q)
      BY <1>3 DEF AskOwnPassword
    <2> HIDE DEF q
    <2>6. Shape(q)
      BY <2>1, <2>2, <2>4 DEF Shape, OfSession, OfAccount
    <2> QED BY <2>3, <2>5, <2>6, Moved
  <1>4. ASSUME NEW s \in Session, AskManage(w, s) PROVE Typed' /\ Kept
    <2>1. sessions[s] # NoSession
      BY <1>4, RowTypes DEF AskManage, Authenticated, Live
    <2>2. PICK u \in User :
             \/ ~Present(u) /\ \E r \in Role :
                   Goto(w, [Principal("create", s) EXCEPT !.whom = u, !.role = r])
             \/ Present(u) /\ \E r \in Role :
                   Goto(w, [Principal("update", s) EXCEPT !.whom = u, !.role = r])
             \/ Present(u) /\ \E st \in {"active", "inactive"} :
                   Goto(w, [Principal("update", s) EXCEPT !.whom = u, !.standing = st])
             \/ Present(u) /\ users[u].secret < MaxSecret
                   /\ Goto(w, [Principal("reset", s) EXCEPT !.whom = u])
      BY <1>4 DEF AskManage
    <2>3. ASSUME NEW r \in Role,
                 Goto(w, [Principal("create", s) EXCEPT !.whom = u, !.role = r])
          PROVE  Typed' /\ Kept
      <3> DEFINE q == [Principal("create", s) EXCEPT !.whom = u, !.role = r]
      <3>1. q \in Request
        BY <2>1, PrincipalType, AddressedType DEF OfSession
      <3>2. /\ q.kind = "create" /\ q.session = s /\ q.user \in User
            /\ q.whom = u
            /\ q.role = r
        BY <2>1, PrincipalType DEF Request, OfSession
      <3> HIDE DEF q
      <3>3. Shape(q)
        BY <2>1, <3>2 DEF Shape, OfSession, OfAccount
      <3> QED BY <2>3, <3>1, <3>3, Moved DEF q
    <2>4. ASSUME Present(u), NEW r \in Role,
                 Goto(w, [Principal("update", s) EXCEPT !.whom = u, !.role = r])
          PROVE  Typed' /\ Kept
      <3> DEFINE q == [Principal("update", s) EXCEPT !.whom = u, !.role = r]
      <3>1. q \in Request
        BY <2>1, PrincipalType, AddressedType DEF OfSession
      <3>2. /\ q.kind = "update" /\ q.session = s /\ q.user \in User
            /\ q.whom = u
        BY <2>1, PrincipalType DEF Request, OfSession
      <3> HIDE DEF q
      <3>3. Shape(q)
        BY <2>1, <2>4, <3>2 DEF Shape, OfSession, OfAccount
      <3> QED BY <2>4, <3>1, <3>3, Moved DEF q
    <2>5. ASSUME Present(u), NEW st \in {"active", "inactive"},
                 Goto(w, [Principal("update", s) EXCEPT !.whom = u, !.standing = st])
          PROVE  Typed' /\ Kept
      <3> DEFINE q == [Principal("update", s) EXCEPT !.whom = u, !.standing = st]
      <3>1. q \in Request
        BY <2>1, PrincipalType, AddressedType DEF OfSession
      <3>2. /\ q.kind = "update" /\ q.session = s /\ q.user \in User
            /\ q.whom = u
        BY <2>1, PrincipalType DEF Request, OfSession
      <3> HIDE DEF q
      <3>3. Shape(q)
        BY <2>1, <2>5, <3>2 DEF Shape, OfSession, OfAccount
      <3> QED BY <2>5, <3>1, <3>3, Moved DEF q
    <2>6. ASSUME Present(u), Goto(w, [Principal("reset", s) EXCEPT !.whom = u])
          PROVE  Typed' /\ Kept
      <3> DEFINE q == [Principal("reset", s) EXCEPT !.whom = u]
      <3>1. q \in Request /\ Shape(q)
        BY <2>1, <2>6, PrincipalType DEF Request, Shape, OfSession, OfAccount
      <3> QED BY <2>6, <3>1, Moved
    <2> QED BY <2>2, <2>3, <2>4, <2>5, <2>6
  <1>5. ASSUME NEW s \in Session, NEW c \in {"account", "tenant"},
               AskSwitchContext(w, s, c)
        PROVE  Typed' /\ Kept
    <2>1. sessions[s] # NoSession
      BY <1>5, RowTypes DEF AskSwitchContext, RecoverableAccess
    <2> DEFINE q == [Principal("switch", s) EXCEPT !.goal = c]
    <2>2. q \in Request /\ Shape(q)
      BY <2>1, PrincipalType DEF Request, Shape, OfSession, OfAccount
    <2> QED BY <1>5, <2>2, Moved DEF AskSwitchContext
  <1>6. ASSUME NEW s \in Session, NEW st \in {"active", "suspended"},
               AskTenantStatus(w, s, st)
        PROVE  Typed' /\ Kept
    <2>1. sessions[s] # NoSession
      BY <1>6, RowTypes DEF AskTenantStatus, Authenticated, Live
    <2> DEFINE q == [Principal("status", s) EXCEPT !.goal = st]
    <2>2. q \in Request /\ Shape(q)
      BY <2>1, PrincipalType DEF Request, Shape, OfSession, OfAccount
    <2> QED BY <1>6, <2>2, Moved DEF AskTenantStatus
  <1>7. ASSUME NEW s \in Session, NEW g \in {"enrolled", "revoked"},
               AskTerminal(w, s, g)
        PROVE  Typed' /\ Kept
    <2>1. sessions[s] # NoSession
      BY <1>7, RowTypes DEF AskTerminal, Authenticated, Live
    <2> DEFINE q == [Principal("terminal", s) EXCEPT !.goal = g]
    <2>2. q \in Request /\ Shape(q)
      BY <2>1, PrincipalType DEF Request, Shape, OfSession, OfAccount
    <2> QED BY <1>7, <2>2, Moved DEF AskTerminal
  <1>8. ASSUME NEW u \in User, NEW c \in {"account", "tenant"}, AskLogin(w, u, c)
        PROVE  Typed' /\ Kept
    <2>1. users[u] \in UserRow /\ Present(u)
      BY <1>8, RowTypes DEF AskLogin, Active
    <2>2. PICK bound \in {FALSE, c = "tenant" /\ terminal = "active"} :
             Goto(w, [Idle EXCEPT !.pc = "asked", !.kind = "login", !.user = u,
                                  !.context = c, !.bound = bound,
                                  !.secret = users[u].secret,
                                  !.encoding = users[u].encoding])
      BY <1>8 DEF AskLogin
    <2> DEFINE q == [Idle EXCEPT !.pc = "asked", !.kind = "login", !.user = u,
                                 !.context = c, !.bound = bound,
                                 !.secret = users[u].secret,
                                 !.encoding = users[u].encoding]
    <2> DEFINE named == [Idle EXCEPT !.pc = "asked", !.kind = "login", !.user = u,
                                     !.context = c, !.bound = bound]
               known == [named EXCEPT !.secret = users[u].secret]
    <2>3. bound \in BOOLEAN
      OBVIOUS
    <2>4. named \in Request /\ named.kind = "login" /\ named.user = u
      BY <2>3 DEF Request, Idle
    <2>5. users[u].secret \in Nat /\ users[u].encoding \in {"outdated", "current"}
      BY <2>1 DEF UserRow
    <2>6. q = [known EXCEPT !.encoding = users[u].encoding]
      OBVIOUS
    <2> HIDE DEF named
    <2>7. known \in Request /\ known.kind = "login" /\ known.user = u
      BY <2>4, <2>5, FieldTypes
    <2>8. Goto(w, q)
      BY <2>2
    <2> HIDE DEF known, q
    <2>9. q \in Request /\ q.kind = "login" /\ q.user = u
      BY <2>5, <2>6, <2>7, FieldTypes
    <2>10. Shape(q)
      BY <2>1, <2>9 DEF Shape, OfSession, OfAccount
    <2> QED BY <2>8, <2>9, <2>10, Moved
  <1>9. ASSUME NEW u \in User, NEW g \in {"grant", "revoke", "reset"},
               AskOperator(w, u, g)
        PROVE  Typed' /\ Kept
    <2> DEFINE q == [Idle EXCEPT !.pc = "asked", !.kind = "operator",
                                 !.whom = u, !.goal = g]
    <2>1. q \in Request /\ Shape(q)
      BY <1>9 DEF AskOperator, Request, Shape, Idle, OfSession, OfAccount
    <2> QED BY <1>9, <2>1, Moved DEF AskOperator
  <1>10. ASSUME NEW u \in User, AskFirstSuperadmin(w, u) PROVE Typed' /\ Kept
    <2> DEFINE q == [Idle EXCEPT !.pc = "asked", !.kind = "first", !.whom = u]
    <2>1. q \in Request /\ Shape(q)
      BY DEF Request, Shape, Idle, OfSession, OfAccount
    <2> QED BY <1>10, <2>1, Moved DEF AskFirstSuperadmin
  <1> QED
    BY <1>1, <1>2, <1>3, <1>4, <1>5, <1>6, <1>7, <1>8, <1>9, <1>10 DEF Ask

(* The sessions that a statement finds are there. *)
LEMMA LiveTypes ==
    /\ \A u : LiveOf(u) \in SUBSET Session
    /\ \A u : \A s \in LiveOf(u) : sessions[s] # NoSession
    /\ LiveInTenant \in SUBSET Session /\ LiveBound \in SUBSET Session
    /\ \A s \in LiveInTenant \cup LiveBound : sessions[s] # NoSession
  BY DEF LiveOf, LiveInTenant, LiveBound, Live, Is

(* A request that remembers which sessions it will revoke. *)
LEMMA RevokingType ==
    ASSUME NEW q \in Request, Shape(q), NEW gone \in SUBSET Session
    PROVE  /\ [q EXCEPT !.revoked = gone] \in Request
           /\ Shape([q EXCEPT !.revoked = gone])
  <1> DEFINE r == [q EXCEPT !.revoked = gone]
  <1>1. r \in Request
    BY DEF Request
  <1>2. /\ r.kind = q.kind /\ r.session = q.session /\ r.user = q.user
        /\ r.whom = q.whom /\ r.goal = q.goal /\ r.role = q.role
    BY DEF Request
  <1> HIDE DEF r
  <1>3. Shape(r)
    BY <1>2 DEF Shape
  <1> QED BY <1>1, <1>3 DEF r

(* A request that has locked and validated keeps its type. *)
LEMMA LockTypesOfRequests ==
    ASSUME Typed, UNCHANGED sent, NEW w \in Worker,
           \/ LockLogin(w) \/ Again(w) \/ LockUpgrade(w) \/ LockSwitchContext(w)
           \/ LockOwnPassword(w) \/ LockCreate(w) \/ LockUpdate(w) \/ LockReset(w)
           \/ LockOperator(w) \/ LockFirstSuperadmin(w)
           \/ LockTenantStatus(w) \/ LockTerminal(w)
    PROVE  Typed' /\ Kept
  <1> DEFINE q == tr[w]
  <1>0. q \in Request /\ Shape(q)
    BY DEF Typed, TypeOK, Shapes
  <1> USE DEF Typed
  <1>1. CASE LockLogin(w)
    <2>1. q.user \in User /\ Present(q.user)
      BY <1>0, <1>1 DEF LockLogin, At, Shape
    <2>2. LoginLocks(q) \subseteq Lock
      BY <2>1, LockTypes DEF LoginLocks
    <2> DEFINE entered == [q EXCEPT !.pc = "staged", !.held = LoginLocks(q)]
               again   == [q EXCEPT !.pc = "again"]
    <2>3. entered \in Request /\ again \in Request
      BY <1>0, <2>2, StagedType, FieldTypes
    <2>4. /\ entered.kind = "login" /\ again.kind = "login"
          /\ entered.user = q.user /\ again.user = q.user
      BY <1>0, <1>1 DEF LockLogin, At, Request
    <2>5. Refuse(w) \/ Goto(w, entered) \/ Goto(w, again)
      BY <1>1 DEF LockLogin, Refuse
    <2> HIDE DEF entered, again
    <2>6. Shape(entered) /\ Shape(again)
      BY <2>1, <2>4 DEF Shape, OfSession, OfAccount
    <2> QED BY <2>3, <2>5, <2>6, Moved, Refused
  <1>2. CASE Again(w)
    <2>1. q.user \in User /\ Present(q.user)
      BY <1>0, <1>2 DEF Again, At, Shape
    <2> DEFINE next == [q EXCEPT !.pc = "asked", !.retried = TRUE,
                                 !.encoding = users[q.user].encoding]
    <2>2. users[q.user].encoding \in {"outdated", "current"}
      BY <2>1, RowTypes DEF UserRow
    <2>3. next \in Request
      <3> DEFINE code  == users[q.user].encoding
                 asked == [q EXCEPT !.pc = "asked"]
                 tried == [asked EXCEPT !.retried = TRUE]
      <3>1. code \in {"outdated", "current"}
        BY <2>2
      <3>2. asked \in Request
        BY <1>0 DEF Request
      <3> HIDE DEF code, asked
      <3>3. tried \in Request
        BY <3>2 DEF Request
      <3> HIDE DEF tried
      <3>4. [tried EXCEPT !.encoding = code] \in Request
        BY <3>1, <3>3 DEF Request
      <3> QED BY <3>4 DEF tried, asked, code
    <2>4. next.kind = "login" /\ next.user = q.user
      BY <1>0, <1>2 DEF Again, At, Request
    <2>5. Refuse(w) \/ Goto(w, next)
      BY <1>2 DEF Again
    <2> HIDE DEF next
    <2>6. Shape(next)
      BY <2>1, <2>4 DEF Shape, OfSession, OfAccount
    <2> QED BY <2>3, <2>5, <2>6, Moved, Refused
  <1>3. CASE LockUpgrade(w)
    <2>1. q.user \in User /\ q.session \in Session
      BY <1>0, <1>3 DEF LockUpgrade, Enter, At, Shape, OfSession
    <2> DEFINE locks == {Share(UserLock(q.user))} \cup SessionLocks({q.session}) \cup
                        (IF q.context = "tenant" THEN IdentityLocks(q) ELSE {})
    <2>2. locks \in SUBSET Lock
      BY <1>0, <2>1, LockTypes, IdentityLockTypes
    <2>3. Enter(w, "upgrade", locks,
                IF q.context = "tenant" THEN IdentityHolds(q)
                ELSE Active(q.user) /\ Live(q.session), q)
      BY <1>3 DEF LockUpgrade
    <2> HIDE DEF locks
    <2> QED BY <1>0, <2>2, <2>3, Entered
  <1>4. CASE LockSwitchContext(w)
    <2>1. q.user \in User /\ q.session \in Session
      BY <1>0, <1>4 DEF LockSwitchContext, Enter, At, Shape, OfSession
    <2>2. PICK bound \in {FALSE, BoundTo(q)} :
             Enter(w, "switch", SwitchLocks(q, bound),
                   /\ Ready(q.user)
                   /\ StillReplaceable(q)
                   /\ q.goal = "tenant" => tenant = "active",
                   [q EXCEPT !.bound = bound])
      BY <1>4 DEF LockSwitchContext
    <2>3. bound \in BOOLEAN
      BY DEF BoundTo
    <2>4. SwitchLocks(q, bound) \in SUBSET Lock
      BY <2>1, LockTypes DEF SwitchLocks
    <2> DEFINE aimed == [q EXCEPT !.bound = bound]
    <2>5. aimed \in Request
      BY <1>0, <2>3 DEF Request
    <2>6. /\ aimed.kind = q.kind /\ aimed.session = q.session
          /\ aimed.user = q.user /\ aimed.whom = q.whom
          /\ aimed.goal = q.goal /\ aimed.role = q.role
      BY <1>0 DEF Request
    <2>7. Enter(w, "switch", SwitchLocks(q, bound),
                /\ Ready(q.user)
                /\ StillReplaceable(q)
                /\ q.goal = "tenant" => tenant = "active", aimed)
      BY <2>2
    <2> HIDE DEF aimed
    <2>8. Shape(aimed)
      BY <1>0, <2>6 DEF Shape
    <2> QED BY <2>4, <2>5, <2>7, <2>8, Entered
  <1>5. CASE LockOwnPassword(w)
    <2> DEFINE others == LiveOf(q.user) \ {q.session}
               locks  == {Share(<<"organization">>), Update(UserLock(q.user))}
                            \cup SessionLocks(others \cup {q.session})
                            \cup (IF q.context = "tenant" THEN {Share(<<"tenant">>)} ELSE {})
    <2>1. q.user \in User /\ q.session \in Session
      BY <1>0, <1>5 DEF LockOwnPassword, Enter, At, Shape, OfSession
    <2>2. others \in SUBSET Session
      BY LiveTypes
    <2>3. locks \in SUBSET Lock
      BY <2>1, <2>2, LockTypes
    <2>4. Enter(w, "own", locks, OwnPasswordAllowed(q) /\ users[q.user].secret < MaxSecret,
                [q EXCEPT !.revoked = others])
      BY <1>5 DEF LockOwnPassword
    <2> HIDE DEF others, locks
    <2> QED BY <1>0, <2>2, <2>3, <2>4, RevokingType, Entered
  <1>6. CASE LockCreate(w) \/ LockUpdate(w) \/ LockReset(w)
    <2>1. q.user \in User /\ q.whom \in User
      BY <1>0, <1>6 DEF LockCreate, LockUpdate, LockReset, Enter, At, Shape,
                        OfSession, OfAccount
    <2>2. LiveOf(q.whom) \in SUBSET Session /\ {} \in SUBSET Session
      BY LiveTypes
    <2>3. ManageLocks(q) \in SUBSET Lock
      BY <2>1, <2>2, LockTypes DEF ManageLocks, UpdateAll
    <2>4. CASE LockCreate(w)
      BY <1>0, <2>3, <2>4, Entered DEF LockCreate
    <2>5. CASE LockUpdate(w)
      <3> DEFINE gone == IF UpdatedUser(q) = users[q.whom] THEN {} ELSE LiveOf(q.whom)
      <3>1. gone \in SUBSET Session
        BY <2>2
      <3>2. Enter(w, "update", ManageLocks(q), Authority(q) /\ UpdateAllowed(q),
                  [q EXCEPT !.revoked = gone])
        BY <2>5 DEF LockUpdate
      <3> HIDE DEF gone
      <3> QED BY <1>0, <2>3, <3>1, <3>2, RevokingType, Entered
    <2>6. CASE LockReset(w)
      <3>1. Enter(w, "reset", ManageLocks(q),
                  Authority(q) /\ users[q.whom].secret < MaxSecret,
                  [q EXCEPT !.revoked = LiveOf(q.whom)])
        BY <2>6 DEF LockReset
      <3> QED BY <1>0, <2>2, <2>3, <3>1, RevokingType, Entered
    <2> QED BY <1>6, <2>4, <2>5, <2>6
  <1>7. CASE LockOperator(w)
    <2> DEFINE role == GivenRole(q.goal)
               gone == IF Given(role, users[q.whom].role) # users[q.whom].role
                             \/ q.goal = "reset"
                       THEN LiveOf(q.whom) ELSE {}
               given == [q EXCEPT !.role = role, !.revoked = gone]
    <2>1. q.whom \in User /\ q.kind = "operator"
      BY <1>0, <1>7 DEF LockOperator, Enter, At, Shape, OfAccount
    <2>2. LiveOf(q.whom) \in SUBSET Session /\ gone \in SUBSET Session
      BY LiveTypes
    <2>3. OperatorLocks(q) \in SUBSET Lock
      BY <2>1, <2>2, LockTypes DEF OperatorLocks
    <2>4. role \in {"keep"} \cup Role
      BY DEF GivenRole, Role
    <2>5. Enter(w, "operator", OperatorLocks(q), OperatorAllowed(q), given)
      BY <1>7 DEF LockOperator
    <2> HIDE DEF gone, role
    <2>6. given \in Request
      <3>1. [q EXCEPT !.role = role] \in Request
        BY <1>0, <2>4 DEF Request
      <3> QED BY <2>2, <3>1 DEF Request
    <2>7. /\ given.kind = q.kind /\ given.whom = q.whom /\ given.goal = q.goal
      BY <1>0 DEF Request
    <2> HIDE DEF given
    <2>8. Shape(given)
      BY <1>0, <2>1, <2>7 DEF Shape, OfSession, OfAccount
    <2> QED BY <2>3, <2>5, <2>6, <2>8, Entered
  <1>8. CASE LockFirstSuperadmin(w)
    <2>1. q.whom \in User
      BY <1>0, <1>8 DEF LockFirstSuperadmin, Enter, At, Shape, OfAccount
    <2>2. FirstLocks(q) \in SUBSET Lock
      BY <2>1, LockTypes DEF FirstLocks
    <2> QED BY <1>0, <1>8, <2>2, Entered DEF LockFirstSuperadmin
  <1>9. CASE LockTenantStatus(w)
    <2> DEFINE ended == IF q.goal = "suspended" THEN LiveInTenant ELSE {}
    <2>1. q.user \in User
      BY <1>0, <1>9 DEF LockTenantStatus, Enter, At, Shape, OfSession
    <2>2. ended \in SUBSET Session
      BY LiveTypes
    <2>3. StatusLocks(q, ended) \in SUBSET Lock
      BY <2>1, <2>2, LockTypes DEF StatusLocks
    <2>4. Enter(w, "status", StatusLocks(q, ended), Authority(q),
                [q EXCEPT !.revoked = ended])
      BY <1>9 DEF LockTenantStatus
    <2> HIDE DEF ended
    <2> QED BY <1>0, <2>2, <2>3, <2>4, RevokingType, Entered
  <1>10. CASE LockTerminal(w)
    <2> DEFINE changed == IF q.goal = "enrolled" THEN {q.session} ELSE LiveBound
               gone    == IF q.goal = "enrolled" THEN {} ELSE changed
               holds   == /\ LifecycleHolds(q)
                          /\ IF q.goal = "enrolled" THEN terminal # "revoked"
                             ELSE terminal = "active"
    <2>1. q.user \in User /\ q.session \in Session
      BY <1>0, <1>10 DEF LockTerminal, Enter, At, Shape, OfSession
    <2>2. changed \in SUBSET Session /\ gone \in SUBSET Session
      BY <2>1, LiveTypes
    <2>3. LifecycleLocks(q, changed) \in SUBSET Lock
      BY <1>0, <2>1, <2>2, LockTypes, IdentityLockTypes DEF LifecycleLocks, UpdateAll
    <2>4. Enter(w, "terminal", LifecycleLocks(q, changed), holds,
                [q EXCEPT !.revoked = gone])
      BY <1>10 DEF LockTerminal
    <2> HIDE DEF changed, gone, holds
    <2> QED BY <1>0, <2>2, <2>3, <2>4, RevokingType, Entered
  <1> QED
    BY <1>1, <1>2, <1>3, <1>4, <1>5, <1>6, <1>7, <1>8, <1>9, <1>10

(* A commit that ends its request. *)
LEMMA Ended ==
    ASSUME Typed, UNCHANGED sent, NEW w \in Worker, Done(w),
           users' \in [User -> UserRow \cup {NoUser}],
           tenant' \in {"active", "suspended"},
           terminal' \in {"none", "active", "revoked"},
           sessions' \in [Session -> SessionRow \cup {NoSession}],
           issued' \in Nat, parent' \in [Session -> {0} \cup Session], Kept
    PROVE  Typed'
  BY IdleType, Written DEF Done, Typed

(* One account is written over. *)
LEMMA AccountWritten ==
    ASSUME TypeOK, NEW u \in User, NEW row \in UserRow,
           users' = [users EXCEPT ![u] = row]
    PROVE  /\ users' \in [User -> UserRow \cup {NoUser}]
           /\ \A v \in User : Present(v) => users'[v] # NoUser
  BY AbsentAssumption DEF TypeOK, Present

(* UPDATE sessions ... revoked_at IS NULL keeps the type of the sessions. *)
LEMMA RevokedWritten ==
    ASSUME TypeOK, NEW gone \in SUBSET Session, NEW reason \in Revocation,
           sessions' = Revoked(gone, reason)
    PROVE  /\ sessions' \in [Session -> SessionRow \cup {NoSession}]
           /\ \A s \in Session : sessions[s] # NoSession => sessions'[s] # NoSession
  BY RevokedTypes

(* The commits that write an account (management.go, account-admin) keep the types. *)
LEMMA UserCommitTypes ==
    ASSUME Typed, UNCHANGED sent, NEW w \in Worker,
           \/ CommitCreate(w) \/ CommitUpdate(w) \/ CommitReset(w)
           \/ CommitOperator(w) \/ CommitFirstSuperadmin(w)
    PROVE  Typed' /\ Kept
  <1> DEFINE q == tr[w]
             row == users[q.whom]
  <1>0. /\ q \in Request /\ Shape(q)
        /\ TypeOK
        /\ q.revoked \in SUBSET Session
    BY DEF Typed, TypeOK, Shapes, Request
  <1>1. q.whom \in User
    BY <1>0 DEF CommitCreate, CommitUpdate, CommitReset, CommitOperator,
                CommitFirstSuperadmin, At, Shape, OfAccount
  <1>2. ASSUME NEW new \in UserRow, users' = [users EXCEPT ![q.whom] = new],
               UNCHANGED <<tenant, terminal, issued, parent>>, Done(w),
               \/ UNCHANGED sessions
               \/ \E reason \in Revocation : sessions' = Revoked(q.revoked, reason)
        PROVE  Typed' /\ Kept
    <2>1. /\ users' \in [User -> UserRow \cup {NoUser}]
          /\ \A v \in User : Present(v) => users'[v] # NoUser
      BY <1>0, <1>1, <1>2, AccountWritten
    <2>2. /\ sessions' \in [Session -> SessionRow \cup {NoSession}]
          /\ \A s \in Session : sessions[s] # NoSession => sessions'[s] # NoSession
      BY <1>0, <1>2, RevokedWritten DEF TypeOK
    <2>3. Kept
      BY <2>1, <2>2 DEF Kept
    <2>4. /\ tenant' \in {"active", "suspended"}
          /\ terminal' \in {"none", "active", "revoked"}
          /\ issued' \in Nat /\ parent' \in [Session -> {0} \cup Session]
      BY <1>0, <1>2 DEF TypeOK
    <2> QED BY <1>2, <2>1, <2>2, <2>3, <2>4, Ended
  <1>3. \A role \in Role : Account(role) \in UserRow
    BY DEF Account, UserRow, Role
  <1>4. q.role \in {"keep"} \cup Role /\ q.standing \in {"keep", "active", "inactive"}
    BY <1>0 DEF Request
  <1>5. CASE CommitCreate(w)
    <2>1. q.role \in Role
      BY <1>0, <1>5 DEF CommitCreate, At, Shape
    <2> QED BY <1>2, <1>3, <1>5, <2>1 DEF CommitCreate
  <1>6. CASE CommitFirstSuperadmin(w)
    BY <1>2, <1>3, <1>6 DEF CommitFirstSuperadmin, Role
  <1>7. ASSUME ~CommitCreate(w), ~CommitFirstSuperadmin(w) PROVE row \in UserRow
    <2>1. Present(q.whom)
      BY <1>0, <1>7 DEF CommitUpdate, CommitReset, CommitOperator, At, Shape
    <2> QED BY <1>0, <1>1, <2>1, RowTypes
  <1>8. CASE CommitUpdate(w)
    <2>1. row \in UserRow
      BY <1>7, <1>8 DEF CommitUpdate, CommitCreate, CommitFirstSuperadmin, At
    <2>2. UpdatedUser(q) \in UserRow
      <3>1. /\ Given(q.role, row.role) \in Role
            /\ Given(q.standing, row.standing) \in {"active", "inactive"}
        BY <1>4, <2>1 DEF Given, UserRow
      <3>2. UpdatedUser(q) = [row EXCEPT !.role = Given(q.role, row.role),
                                         !.standing = Given(q.standing, row.standing)]
        BY <2>1 DEF UpdatedUser, UserRow
      <3>3. ASSUME NEW r \in Role, NEW st \in {"active", "inactive"}
            PROVE  [row EXCEPT !.role = r, !.standing = st] \in UserRow
        BY <2>1 DEF UserRow
      <3> QED BY <3>1, <3>2, <3>3
    <2>3. sessions' = Revoked(q.revoked, "account_access_changed")
      BY <1>8 DEF CommitUpdate
    <2> QED BY <1>2, <1>8, <2>2, <2>3 DEF CommitUpdate, Revocation
  <1>9. CASE CommitReset(w)
    <2>1. row \in UserRow
      BY <1>7, <1>9 DEF CommitReset, CommitCreate, CommitFirstSuperadmin, At
    <2>2. Recovered(row) \in UserRow
      <3> DEFINE own   == [row EXCEPT !.secret = row.secret + 1]
                 fresh == [own EXCEPT !.encoding = "current", !.temporary = TRUE]
      <3>1. row.secret + 1 \in Nat
        BY <2>1 DEF UserRow
      <3>2. own \in UserRow
        BY <2>1, <3>1 DEF UserRow
      <3> HIDE DEF own
      <3>3. fresh \in UserRow
        BY <3>2 DEF UserRow
      <3> HIDE DEF fresh
      <3>4. [fresh EXCEPT !.by = 0] \in UserRow
        BY <3>3 DEF UserRow
      <3>5. Recovered(row) = [fresh EXCEPT !.by = 0]
        BY <2>1 DEF Recovered, fresh, own, UserRow
      <3> QED BY <3>4, <3>5
    <2>3. users' = [users EXCEPT ![q.whom] = Recovered(row)]
      BY <1>0, <1>1, <1>9 DEF CommitReset, TypeOK
    <2>4. sessions' = Revoked(q.revoked, "password_recovered")
      BY <1>9 DEF CommitReset
    <2> QED BY <1>2, <1>9, <2>2, <2>3, <2>4 DEF CommitReset, Revocation
  <1>10. CASE CommitOperator(w)
    <2>1. row \in UserRow
      BY <1>7, <1>10 DEF CommitOperator, CommitCreate, CommitFirstSuperadmin, At
    <2> DEFINE new == [row EXCEPT !.role = Given(q.role, @)]
    <2>2. new \in UserRow
      BY <1>4, <2>1 DEF Given, UserRow, Role
    <2>3. users' = [users EXCEPT ![q.whom] = new]
      BY <1>0, <1>1, <1>10 DEF CommitOperator, TypeOK
    <2>4. sessions' = Revoked(q.revoked, "account_access_changed")
      BY <1>10 DEF CommitOperator
    <2> HIDE DEF new
    <2> QED BY <1>2, <1>10, <2>2, <2>3, <2>4 DEF CommitOperator, Revocation
  <1> QED BY <1>5, <1>6, <1>8, <1>9, <1>10

(* A row is written, or nothing, beyond the bound. *)
LEMMA SessionWritten ==
    ASSUME TypeOK, NEW s, NEW row \in SessionRow
    PROVE  LET written == [sessions EXCEPT ![s] = row] IN
           /\ written \in [Session -> SessionRow \cup {NoSession}]
           /\ \A t \in Session : sessions[t] # NoSession => written[t] # NoSession
  BY AbsentAssumption DEF TypeOK

(* The commit of a login (session_policy.go:32) keeps the types. *)
LEMMA LoginCommitTypes ==
    ASSUME Typed, UNCHANGED sent, NEW w \in Worker,
           CommitLogin(w) \/ Rehash(w)
    PROVE  Typed' /\ Kept
  <1> DEFINE q == tr[w]
  <1>0. q \in Request /\ Shape(q) /\ TypeOK /\ Shapes
    BY DEF Typed, TypeOK, Shapes
  <1>1. q.user \in User /\ Present(q.user)
    BY <1>0 DEF CommitLogin, Rehash, At, Shape
  <1>2. CASE CommitLogin(w)
    <2> DEFINE row == [user |-> q.user, context |-> q.context, bound |-> q.bound,
                       state |-> "live", secret |-> q.secret, recovered |-> FALSE]
               left == [q EXCEPT !.pc = "rehash", !.kind = "rehash", !.held = {}]
    <2>1. row \in SessionRow
      BY <1>0, <1>1 DEF Request, SessionRow
    <2>2. sessions' = [sessions EXCEPT ![issued + 1] = row]
      BY <1>2 DEF CommitLogin
    <2>3. tr' = [tr EXCEPT ![w] = left] \/ tr' = [tr EXCEPT ![w] = Idle]
      BY <1>2 DEF CommitLogin
    <2>4. left \in Request
      <3> DEFINE moved == [q EXCEPT !.pc = "rehash"]
                 named == [moved EXCEPT !.kind = "rehash"]
      <3>1. moved \in Request
        BY <1>0 DEF Request
      <3> HIDE DEF moved
      <3>2. named \in Request
        BY <3>1 DEF Request
      <3> HIDE DEF named
      <3>3. [named EXCEPT !.held = {}] \in Request
        BY <3>2 DEF Request
      <3> QED BY <3>3 DEF named, moved
    <2>5. left.kind = "rehash" /\ left.user = q.user
      BY <1>0 DEF Request
    <2> HIDE DEF row, left
    <2>6. Shape(left)
      BY <1>1, <2>5 DEF Shape, OfSession, OfAccount
    <2>7. /\ sessions' \in [Session -> SessionRow \cup {NoSession}]
          /\ \A t \in Session : sessions[t] # NoSession => sessions'[t] # NoSession
      BY <1>0, <2>1, <2>2, SessionWritten
    <2>8. /\ users' = users /\ tenant' = tenant /\ terminal' = terminal
          /\ parent' = parent /\ issued' = issued + 1
      BY <1>2 DEF CommitLogin
    <2>9. Kept
      BY <2>7, <2>8 DEF Kept, Present
    <2>10. /\ users' \in [User -> UserRow \cup {NoUser}]
           /\ tenant' \in {"active", "suspended"}
           /\ terminal' \in {"none", "active", "revoked"}
           /\ issued' \in Nat /\ parent' \in [Session -> {0} \cup Session]
      BY <1>0, <2>8 DEF TypeOK
    <2>11. CASE tr' = [tr EXCEPT ![w] = left]
      BY <1>0, <2>4, <2>6, <2>7, <2>9, <2>10, <2>11, Written DEF Typed
    <2>12. CASE tr' = [tr EXCEPT ![w] = Idle]
      BY <1>0, <2>7, <2>9, <2>10, <2>12, Written, IdleType DEF Typed
    <2> QED BY <2>3, <2>11, <2>12
  <1>3. CASE Rehash(w)
    <2>1. users[q.user] \in UserRow
      BY <1>0, <1>1, RowTypes
    <2>2. [users[q.user] EXCEPT !.encoding = "current"] \in UserRow
      BY <2>1 DEF UserRow
    <2>3. \/ users' = users
          \/ users' = [users EXCEPT ![q.user] =
                          [users[q.user] EXCEPT !.encoding = "current"]]
      BY <1>0, <1>1, <1>3 DEF Rehash, Rehashed, TypeOK
    <2>4. /\ users' \in [User -> UserRow \cup {NoUser}]
          /\ \A v \in User : Present(v) => users'[v] # NoUser
      BY <1>0, <1>1, <2>2, <2>3, AccountWritten DEF TypeOK, Present
    <2>5. UNCHANGED <<tenant, terminal, sessions, issued, parent>> /\ Done(w)
      BY <1>3 DEF Rehash
    <2>6. Kept
      BY <2>4, <2>5 DEF Kept
    <2>7. /\ sessions' \in [Session -> SessionRow \cup {NoSession}]
          /\ tenant' \in {"active", "suspended"}
          /\ terminal' \in {"none", "active", "revoked"}
          /\ issued' \in Nat /\ parent' \in [Session -> {0} \cup Session]
      BY <1>0, <2>5 DEF TypeOK
    <2> QED BY <2>4, <2>5, <2>6, <2>7, Ended
  <1> QED BY <1>2, <1>3

(* The commit of an upgrade or a context switch keeps the types. *)
LEMMA ReplacementTypes ==
    ASSUME Typed, UNCHANGED sent, NEW w \in Worker, CommitReplacement(w)
    PROVE  Typed' /\ Kept
  <1> DEFINE q == tr[w]
             old == sessions[q.session]
             reason == IF q.kind = "switch" THEN "context_switched"
                       ELSE "session_upgraded"
             ended == [sessions EXCEPT ![q.session] = Spent(old, reason)]
             new == [old EXCEPT !.context = q.goal, !.bound = q.bound, !.state = "live",
                                !.recovered = old.recovered \/ old.state \in Recoverable]
  <1>0. q \in Request /\ Shape(q) /\ TypeOK
    BY DEF Typed, TypeOK, Shapes
  <1>1. /\ q.session \in Session /\ old # NoSession
        /\ q.goal \in {"account", "tenant"} /\ q.bound \in BOOLEAN
    BY <1>0 DEF CommitReplacement, Shape, OfSession, Request
  <1>2. old \in SessionRow
    BY <1>0, <1>1, RowTypes
  <1>3. Spent(old, reason) \in SessionRow
    BY <1>2 DEF Spent, SessionRow, Revocation, Recoverable
  <1>4. new \in SessionRow
    <2> DEFINE again == old.recovered \/ old.state \in Recoverable
               aimed == [old EXCEPT !.context = q.goal]
               bound == [aimed EXCEPT !.bound = q.bound]
               live  == [bound EXCEPT !.state = "live"]
    <2>1. again \in BOOLEAN
      BY <1>2 DEF SessionRow
    <2>2. aimed \in SessionRow
      BY <1>1, <1>2 DEF SessionRow
    <2>3. bound \in SessionRow
      <3> HIDE DEF aimed
      <3> QED BY <1>1, <2>2 DEF SessionRow
    <2>4. live \in SessionRow
      <3> HIDE DEF bound
      <3> QED BY <2>3 DEF SessionRow
    <2>5. [live EXCEPT !.recovered = again] \in SessionRow
      <3> HIDE DEF live, again
      <3> QED BY <2>1, <2>4 DEF SessionRow
    <2> QED BY <2>5
  <1>5. /\ sessions' = [ended EXCEPT ![issued + 1] = new]
        /\ issued' = issued + 1
        /\ parent' = [parent EXCEPT ![issued + 1] = q.session]
        /\ Done(w)
        /\ UNCHANGED <<users, tenant, terminal>>
    BY DEF CommitReplacement
  <1> HIDE DEF new, old
  <1>6. /\ sessions' \in [Session -> SessionRow \cup {NoSession}]
        /\ \A t \in Session : sessions[t] # NoSession => sessions'[t] # NoSession
    <2>1. /\ ended \in [Session -> SessionRow \cup {NoSession}]
          /\ \A t \in Session : sessions[t] # NoSession => ended[t] # NoSession
      BY <1>0, <1>1, <1>3, AbsentAssumption DEF TypeOK
    <2> HIDE DEF ended
    <2> QED BY <1>4, <1>5, <2>1, AbsentAssumption
  <1>7. Kept
    BY <1>5, <1>6 DEF Kept, Present
  <1>8. /\ users' \in [User -> UserRow \cup {NoUser}]
        /\ tenant' \in {"active", "suspended"}
        /\ terminal' \in {"none", "active", "revoked"}
        /\ issued' \in Nat /\ parent' \in [Session -> {0} \cup Session]
    <2> HIDE DEF ended
    <2>1. users' = users /\ tenant' = tenant /\ terminal' = terminal
      BY <1>5
    <2>2. issued' \in Nat
      BY <1>0, <1>5 DEF TypeOK
    <2>3. parent' \in [Session -> {0} \cup Session]
      BY <1>0, <1>1, <1>5 DEF TypeOK
    <2> QED BY <1>0, <2>1, <2>2, <2>3 DEF TypeOK
  <1> QED BY <1>5, <1>6, <1>7, <1>8, Ended

(* The commits that write sessions and the tenant or the terminal keep the types. *)
LEMMA SessionCommitTypes ==
    ASSUME Typed, UNCHANGED sent, NEW w \in Worker,
           \/ Logout(w) \/ CommitTenantStatus(w) \/ CommitEnroll(w)
           \/ CommitRevokeTerminal(w)
    PROVE  Typed' /\ Kept
  <1> DEFINE q == tr[w]
  <1>0. q \in Request /\ Shape(q) /\ TypeOK /\ q.revoked \in SUBSET Session
    BY DEF Typed, TypeOK, Shapes, Request
  <1>1. q.session \in Session /\ sessions[q.session] # NoSession
    BY <1>0 DEF Logout, CommitTenantStatus, CommitEnroll, CommitRevokeTerminal,
                At, Shape, OfSession
  <1>2. /\ sessions' \in [Session -> SessionRow \cup {NoSession}]
        /\ \A t \in Session : sessions[t] # NoSession => sessions'[t] # NoSession
    <2>1. CASE Logout(w)
      <3>1. sessions' = Revoked({q.session}, "logout")
        BY <2>1 DEF Logout
      <3> QED BY <1>0, <1>1, <3>1, RevokedWritten DEF Revocation
    <2>2. CASE CommitTenantStatus(w)
      <3>1. sessions' = Revoked(q.revoked, "tenant_suspended")
        BY <2>2 DEF CommitTenantStatus
      <3> QED BY <1>0, <3>1, RevokedWritten DEF Revocation
    <2>3. CASE CommitRevokeTerminal(w)
      <3>1. sessions' = Revoked(q.revoked, "terminal_revoked")
        BY <2>3 DEF CommitRevokeTerminal
      <3> QED BY <1>0, <3>1, RevokedWritten DEF Revocation
    <2>4. CASE CommitEnroll(w)
      <3> DEFINE row == [sessions[q.session] EXCEPT !.bound = TRUE]
      <3>1. row \in SessionRow
        <4>1. sessions[q.session] \in SessionRow
          BY <1>0, <1>1, RowTypes
        <4> QED BY <4>1 DEF SessionRow
      <3>2. sessions' = [sessions EXCEPT ![q.session] = row]
        BY <1>0, <1>1, <2>4 DEF CommitEnroll, TypeOK
      <3> HIDE DEF row
      <3> QED BY <1>0, <3>1, <3>2, SessionWritten
    <2> QED BY <2>1, <2>2, <2>3, <2>4
  <1>3. /\ users' = users /\ issued' = issued /\ parent' = parent /\ Done(w)
        /\ tenant' = tenant \/ (tenant' = q.goal /\ q.kind = "status")
        /\ terminal' \in {terminal, "active", "revoked"}
    BY DEF Logout, CommitTenantStatus, CommitEnroll, CommitRevokeTerminal, At
  <1>4. Kept
    BY <1>2, <1>3 DEF Kept, Present
  <1>5. /\ users' \in [User -> UserRow \cup {NoUser}]
        /\ tenant' \in {"active", "suspended"}
        /\ terminal' \in {"none", "active", "revoked"}
        /\ issued' \in Nat /\ parent' \in [Session -> {0} \cup Session]
    BY <1>0, <1>3 DEF TypeOK, Shape
  <1> QED BY <1>2, <1>3, <1>4, <1>5, Ended

(* The commit of a change of the own password (auth_users.go:188) keeps the types. *)
LEMMA OwnPasswordTypes ==
    ASSUME Typed, UNCHANGED sent, NEW w \in Worker, CommitOwnPassword(w)
    PROVE  Typed' /\ Kept
  <1> DEFINE q == tr[w]
             row == users[q.user]
             secret == row.secret + 1
             ended == Revoked(q.revoked, "password_changed")
  <1>0. /\ q \in Request /\ Shape(q) /\ TypeOK /\ q.revoked \in SUBSET Session
        /\ q.session \in Session /\ sessions[q.session] # NoSession
        /\ q.user \in User /\ Present(q.user)
    <2>1. q \in Request /\ Shape(q) /\ TypeOK
      BY DEF Typed, TypeOK, Shapes
    <2>2. q.kind = "own"
      BY DEF CommitOwnPassword, At
    <2>3. q.revoked \in SUBSET Session
      BY <2>1 DEF Request
    <2> QED BY <2>1, <2>2, <2>3 DEF Shape, OfSession
  <1>1. row \in UserRow /\ secret \in Nat
    BY <1>0, RowTypes DEF UserRow
  <1>2. /\ users' = [users EXCEPT ![q.user].secret = secret,
                                  ![q.user].encoding = "current",
                                  ![q.user].temporary = FALSE, ![q.user].by = q.session]
        /\ sessions' = [ended EXCEPT ![q.session].secret = secret]
        /\ Done(w)
        /\ UNCHANGED <<tenant, terminal, issued, parent>>
    BY DEF CommitOwnPassword
  <1> HIDE DEF secret
  <1>3. /\ users' \in [User -> UserRow \cup {NoUser}]
        /\ \A v \in User : Present(v) => users'[v] # NoUser
    <2> DEFINE one == [row EXCEPT !.secret = secret]
               two == [one EXCEPT !.encoding = "current"]
               three == [two EXCEPT !.temporary = FALSE]
               four == [three EXCEPT !.by = q.session]
    <2>1. one \in UserRow
      BY <1>1 DEF UserRow
    <2>2. two \in UserRow
      <3> HIDE DEF one
      <3> QED BY <2>1 DEF UserRow
    <2>3. three \in UserRow
      <3> HIDE DEF two
      <3> QED BY <2>2 DEF UserRow
    <2>4. four \in UserRow
      <3> HIDE DEF three
      <3> QED BY <1>0, <2>3 DEF UserRow
    <2>5. users' = [users EXCEPT ![q.user] = four]
      <3> DEFINE u1 == [users EXCEPT ![q.user].secret = secret]
                 u2 == [u1 EXCEPT ![q.user].encoding = "current"]
                 u3 == [u2 EXCEPT ![q.user].temporary = FALSE]
                 u4 == [u3 EXCEPT ![q.user].by = q.session]
      <3>1. users' = u4
        BY <1>2
      <3>2. u1 = [users EXCEPT ![q.user] = one]
        BY <1>0 DEF TypeOK
      <3>3. u2 = [users EXCEPT ![q.user] = two]
        <4> HIDE DEF one
        <4> QED BY <1>0, <3>2 DEF TypeOK
      <3>4. u3 = [users EXCEPT ![q.user] = three]
        <4> HIDE DEF two
        <4> QED BY <1>0, <3>3 DEF TypeOK
      <3>5. u4 = [users EXCEPT ![q.user] = four]
        <4> HIDE DEF three
        <4> QED BY <1>0, <3>4 DEF TypeOK
      <3> QED BY <3>1, <3>5
    <2> HIDE DEF four
    <2> QED BY <1>0, <2>4, <2>5, AccountWritten
  <1>4. /\ sessions' \in [Session -> SessionRow \cup {NoSession}]
        /\ \A t \in Session : sessions[t] # NoSession => sessions'[t] # NoSession
    <2>1. /\ ended \in [Session -> SessionRow \cup {NoSession}]
          /\ \A s \in Session : sessions[s] # NoSession => ended[s] # NoSession
      BY <1>0, RevokedTypes DEF Revocation
    <2> DEFINE mine == [ended[q.session] EXCEPT !.secret = secret]
    <2> HIDE DEF ended
    <2>2. ended[q.session] \in SessionRow
      BY <1>0, <2>1
    <2>3. mine \in SessionRow
      BY <1>1, <2>2 DEF SessionRow
    <2>4. sessions' = [ended EXCEPT ![q.session] = mine]
      BY <1>0, <1>2, <2>1
    <2> HIDE DEF mine
    <2> QED BY <2>1, <2>3, <2>4, AbsentAssumption
  <1>5. Kept
    BY <1>3, <1>4 DEF Kept
  <1>6. /\ tenant' \in {"active", "suspended"}
        /\ terminal' \in {"none", "active", "revoked"}
        /\ issued' \in Nat /\ parent' \in [Session -> {0} \cup Session]
    BY <1>0, <1>2 DEF TypeOK
  <1> QED BY <1>2, <1>3, <1>4, <1>5, <1>6, Ended

(* The tables start with their types. *)
LEMMA TypedInit == Init => Typed
  <1> SUFFICES ASSUME Init PROVE Typed
    OBVIOUS
  <1>1. PICK staff \in Staff :
           users = [u \in User |->
              IF staff[u] = "none" THEN NoUser
              ELSE [Account(staff[u]) EXCEPT !.temporary = FALSE,
                                             !.encoding = "outdated"]]
    BY DEF Init
  <1>2. \A u \in User : staff[u] \in {"superadmin", "admin", "none"}
    BY AccountAssumption DEF User
  <1>3. \A role \in Role : [Account(role) EXCEPT !.temporary = FALSE,
                                                 !.encoding = "outdated"] \in UserRow
    BY DEF Account, UserRow, Role
  <1>4. users \in [User -> UserRow \cup {NoUser}]
    BY <1>1, <1>2, <1>3 DEF Role
  <1>5. sessions \in [Session -> SessionRow \cup {NoSession}]
    BY DEF Init, SessionRow
  <1>6. \A w \in Worker : tr[w] = Idle
    BY DEF Init
  <1>7. tr \in [Worker -> Request] /\ Shapes
    BY <1>6, IdleType DEF Init, Shapes
  <1>8. issued \in Nat
    BY AccountAssumption DEF Init
  <1> QED BY <1>4, <1>5, <1>7, <1>8 DEF Init, Typed, TypeOK

(* Every step keeps the types. *)
LEMMA TypedNext == Typed /\ [Next]_vars => Typed'
  <1> SUFFICES ASSUME Typed, [Next]_vars PROVE Typed'
    OBVIOUS
  <1>1. CASE UNCHANGED vars
    BY <1>1 DEF vars, accountVars, Typed, TypeOK, Shapes, Shape, Present
  <1>2. CASE Next
    <2>1. PICK w \in Worker : Ask(w) \/ Proceed(w) \/ Abort(w)
      BY <1>2 DEF Next
    <2>2. UNCHANGED sent
      BY <1>2 DEF Next
    <2>3. CASE Ask(w)
      BY <2>2, <2>3, AskTypes
    <2>4. CASE Proceed(w)
      BY <2>2, <2>4, LockTypesOfRequests, UserCommitTypes, LoginCommitTypes,
         ReplacementTypes, SessionCommitTypes, OwnPasswordTypes DEF Proceed
    <2>5. CASE Abort(w)
      BY <2>2, <2>5, Refused DEF Abort, Typed
    <2> QED BY <2>1, <2>3, <2>4, <2>5
  <1> QED BY <1>1, <1>2

(* The types of the tables and of the requests hold, whatever the number   *)
(* of accounts, sessions and requests in flight.                           *)
THEOREM TypeCorrect == Spec => []TypeOK
  <1> QED BY TypedInit, TypedNext, PTL DEF Spec, Typed

-----------------------------------------------------------------------------
(***************************************************************************)
(* What an administrative request of AccountSessions decided on under its  *)
(* locks is still so when it commits, and so an organization that has a    *)
(* superadmin keeps one.  The inductive invariant says which locks a       *)
(* staged request holds, that no two of them conflict, and what it has     *)
(* seen under them.                                                        *)
(***************************************************************************)
(* Every change of an account but its own password excludes every other,   *)
(* and one of a tenant or a terminal the changes of its sender.            *)
Covers(held, q) ==
    /\ q.kind \in OfAccount =>
          Update(<<"organization">>) \in held /\ Update(UserLock(q.whom)) \in held
    /\ q.kind \in {"status", "terminal"} => Share(UserLock(q.user)) \in held

Covered(q) == IF q.pc = "staged" THEN Covers(q.held, q) ELSE q.held = {}

Separate ==
    \A v, w \in Worker : v # w =>
        \A a \in tr[v].held, b \in tr[w].held : ~Conflict(a, b)

(* What a request that is about to commit has seen. *)
Rightful(q) ==
    /\ q.kind \in {"create", "update", "reset", "status", "terminal"} =>
          Manages(q.user)
    /\ q.kind \in {"create", "first"} => ~Present(q.whom)
    /\ q.kind = "first" => Superadmins = {}
    /\ q.kind = "update" => UpdateAllowed(q)
    /\ q.kind = "operator" /\ q.goal # "reset" =>
          /\ q.role = GivenRole(q.goal)
          /\ q.goal = "revoke" /\ users[q.whom].role = "superadmin" =>
                OtherSuperadmin(q.whom)

Decided(q) == q.pc = "staged" => Rightful(q)

Serial ==
    /\ Separate
    /\ \A w \in Worker : Covered(tr[w])
    /\ \A w \in Worker : Decided(tr[w])

Inv == Typed /\ Serial

(* The accounts are the same, but for passwords; none becomes temporary. *)
Alike ==
    \A u \in User :
        /\ (users'[u] # NoUser) <=> Present(u)
        /\ Present(u) => /\ users'[u].role = users[u].role
                         /\ users'[u].standing = users[u].standing
                         /\ users'[u].temporary => users[u].temporary

-----------------------------------------------------------------------------
(* No two requests hold conflicting locks, if each takes what is granted. *)
LEMMA SeparateStays ==
    ASSUME Typed, Separate, NEW w \in Worker, NEW q,
           tr' = [tr EXCEPT ![w] = q], q.held = {} \/ Granted(w, q.held)
    PROVE  Separate'
  <1>1. \A v \in Worker : tr'[v] = IF v = w THEN q ELSE tr[v]
    BY DEF Typed, TypeOK
  <1>2. ASSUME NEW v \in Worker, v # w, NEW a \in q.held, NEW b \in tr[v].held
        PROVE  ~Conflict(a, b) /\ ~Conflict(b, a)
    BY <1>2 DEF Granted, Grantable, Conflict
  <1>3. ASSUME NEW v \in Worker, NEW x \in Worker, v # x,
               NEW a \in tr'[v].held, NEW b \in tr'[x].held
        PROVE  ~Conflict(a, b)
    BY <1>1, <1>2, <1>3 DEF Separate
  <1> QED BY <1>3 DEF Separate, Conflict

(* Accounts alike have the same active superadmins. *)
LEMMA SameSuperadmins == ASSUME Alike PROVE Superadmins' = Superadmins
  BY DEF Alike, Superadmins, Active, Present

(* A request that does not move still decides well among accounts alike. *)
LEMMA DecidedStays ==
    ASSUME Typed, Typed', Alike, NEW v \in Worker, tr'[v] = tr[v], Decided(tr[v])
    PROVE  Decided(tr[v])'
  <1> DEFINE q == tr[v]
  <1> SUFFICES ASSUME q.pc = "staged" PROVE Rightful(tr[v])'
    BY DEF Decided
  <1>0. Rightful(q) /\ Shape(q)
    BY DEF Decided, Typed, Shapes
  <1>1. Superadmins' = Superadmins
    BY SameSuperadmins
  <1>2. q.kind \in {"create", "update", "reset", "status", "terminal"} =>
            Manages(tr[v].user)'
    BY <1>0 DEF Rightful, Shape, OfSession, Manages, Ready, Active, Present, Alike
  <1>3. q.kind \in {"create", "first"} => users'[q.whom] = NoUser
    BY <1>0 DEF Rightful, Shape, OfAccount, Present, Alike
  <1>4. q.kind = "first" => Superadmins' = {}
    BY <1>0, <1>1 DEF Rightful
  <1>5. q.kind = "update" => UpdateAllowed(tr[v])'
    <2> SUFFICES ASSUME q.kind = "update" PROVE UpdateAllowed(tr[v])'
      OBVIOUS
    <2>1. q.whom \in User /\ Present(q.whom) /\ UpdateAllowed(q)
      BY <1>0 DEF Rightful, Shape, OfAccount
    <2>2. /\ users[q.whom] \in UserRow /\ users'[q.whom] # NoUser
          /\ users'[q.whom].role = users[q.whom].role
          /\ users'[q.whom].standing = users[q.whom].standing
      BY <2>1, RowTypes DEF Alike, Typed
    <2>3. users'[q.whom] \in UserRow
      BY <2>1, <2>2 DEF Typed, TypeOK
    <2> DEFINE after(row) == /\ Given(q.role, row.role) = "superadmin"
                             /\ Given(q.standing, row.standing) = "active"
    <2>4. IsSuperadmin(UpdatedUser(q)) <=> after(users[q.whom])
      BY <2>2 DEF IsSuperadmin, UpdatedUser, UserRow
    <2>5. IsSuperadmin(UpdatedUser(tr[v]))' <=> after(users'[q.whom])
      BY <2>3 DEF IsSuperadmin, UpdatedUser, UserRow
    <2>6. IsSuperadmin(users[q.whom]) <=> IsSuperadmin(users[q.whom])'
      BY <2>2 DEF IsSuperadmin
    <2> QED
      BY <1>1, <2>1, <2>2, <2>4, <2>5, <2>6 DEF UpdateAllowed, OtherSuperadmin, IsSuperadmin
  <1>6. q.kind = "operator" /\ q.goal # "reset" =>
            /\ q.role = GivenRole(q.goal)
            /\ q.goal = "revoke" /\ users'[q.whom].role = "superadmin" =>
                  Superadmins' \ {q.whom} # {}
    BY <1>0, <1>1 DEF Rightful, Shape, OfAccount, Alike, OtherSuperadmin
  <1> QED BY <1>2, <1>3, <1>4, <1>5, <1>6 DEF Rightful, Present, OtherSuperadmin

(* A step of one request among accounts that stay alike. *)
LEMMA SerialStep ==
    ASSUME Inv, Typed', Alike, NEW w \in Worker, NEW q,
           tr' = [tr EXCEPT ![w] = q], q.held = {} \/ Granted(w, q.held),
           Covered(q), Decided(tr[w])'
    PROVE  Serial'
  <1>1. \A v \in Worker : tr'[v] = IF v = w THEN q ELSE tr[v]
    BY DEF Inv, Typed, TypeOK
  <1>2. Separate'
    BY SeparateStays DEF Inv, Serial
  <1>3. ASSUME NEW v \in Worker PROVE Covered(tr'[v])
    BY <1>1 DEF Inv, Serial
  <1>4. ASSUME NEW v \in Worker PROVE Decided(tr[v])'
    <2>1. CASE v = w
      BY <2>1
    <2>2. CASE v # w
      BY <1>1, <2>2, DecidedStays DEF Inv, Serial
    <2> QED BY <2>1, <2>2
  <1>5. \A v \in Worker : Covered(tr[v])'
    BY <1>3 DEF Covered, Covers, OfAccount, UserLock, Share, Update
  <1> QED BY <1>2, <1>4, <1>5 DEF Serial

(* A request that holds nothing has decided nothing. *)
LEMMA QuietStep ==
    ASSUME Inv, Typed', Alike, NEW w \in Worker, NEW q,
           tr' = [tr EXCEPT ![w] = q], q.held = {}, q.pc # "staged"
    PROVE  Serial'
  <1>1. tr'[w] = q
    BY DEF Inv, Typed, TypeOK
  <1>2. Covered(q)
    BY DEF Covered
  <1>3. Decided(tr[w])'
    BY <1>1 DEF Decided
  <1> QED BY <1>2, <1>3, SerialStep

(* A step that does not write users leaves the accounts alike. *)
LEMMA SameAccounts == ASSUME users' = users PROVE Alike
  BY DEF Alike, Present

(* A request that is validated under its locks has decided well. *)
LEMMA EnteredStep ==
    ASSUME Inv, Typed', NEW w \in Worker, NEW kind, NEW locks, NEW admitted,
           NEW q \in Request, Enter(w, kind, locks, admitted, q),
           Covers(locks, q), admitted => Rightful(q)
    PROVE  Serial'
  <1> DEFINE staged == [q EXCEPT !.pc = "staged", !.held = locks]
  <1>1. Alike
    BY SameAccounts DEF Enter, Refuse, Goto, accountVars
  <1>2. CASE Refuse(w)
    <2>1. Idle.held = {} /\ Idle.pc # "staged"
      BY DEF Idle
    <2>2. tr' = [tr EXCEPT ![w] = Idle]
      BY <1>2 DEF Refuse, Goto
    <2> QED BY <1>1, <2>1, <2>2, QuietStep
  <1>3. CASE admitted /\ Goto(w, staged)
    <2>1. tr' = [tr EXCEPT ![w] = staged] /\ users' = users
      BY <1>3 DEF Goto, accountVars
    <2>2. /\ staged.pc = "staged" /\ staged.held = locks
          /\ staged.kind = q.kind /\ staged.user = q.user /\ staged.whom = q.whom
          /\ staged.goal = q.goal /\ staged.role = q.role
          /\ staged.standing = q.standing
      BY DEF Request
    <2>3. Granted(w, locks)
      BY DEF Enter
    <2> HIDE DEF staged
    <2>4. Covered(staged)
      BY <2>2 DEF Covered, Covers
    <2>5. tr'[w] = staged
      BY <2>1 DEF Inv, Typed, TypeOK
    <2>6. Rightful(staged)
      BY <1>3, <2>2 DEF Rightful, UpdateAllowed, UpdatedUser
    <2>7. Rightful(tr'[w])
      BY <2>5, <2>6
    <2>8. Decided(tr[w])'
      BY <2>1, <2>7 DEF Decided, Rightful, Manages, Ready, Active, Present, Superadmins,
           UpdateAllowed, UpdatedUser, OtherSuperadmin
    <2> QED BY <1>1, <2>1, <2>2, <2>3, <2>4, <2>8, SerialStep
  <1> QED BY <1>2, <1>3 DEF Enter

(* A request that moves on with no lock and no decision disturbs nothing. *)
LEMMA MovedStep ==
    ASSUME Inv, Typed', NEW w \in Worker, NEW q, Goto(w, q),
           q.held = {}, q.pc # "staged"
    PROVE  Serial'
  BY QuietStep, SameAccounts DEF Goto, accountVars

(* A handler that only reads (Ask...) keeps the invariant. *)
LEMMA AskStep ==
    ASSUME Inv, Typed', NEW w \in Worker, Ask(w)
    PROVE  Serial'
  <1>1. ASSUME NEW s \in Session, AskUpgrade(w, s) PROVE Serial'
    <2> DEFINE q == [Principal("upgrade", s) EXCEPT !.goal = sessions[s].context]
    <2>1. q.held = {} /\ q.pc # "staged"
      BY DEF Principal, Idle
    <2>2. Goto(w, q)
      BY <1>1 DEF AskUpgrade
    <2> HIDE DEF q
    <2> QED BY <2>1, <2>2, MovedStep
  <1>2. ASSUME NEW s \in Session, AskLogout(w, s) PROVE Serial'
    <2> DEFINE q == Principal("logout", s)
    <2>1. q.held = {} /\ q.pc # "staged"
      BY DEF Principal, Idle
    <2>2. Goto(w, q)
      BY <1>2 DEF AskLogout
    <2> HIDE DEF q
    <2> QED BY <2>1, <2>2, MovedStep
  <1>3. ASSUME NEW s \in Session, AskOwnPassword(w, s) PROVE Serial'
    <2> DEFINE q == [Principal("own", s) EXCEPT
                        !.secret = users[sessions[s].user].secret]
    <2>1. q.held = {} /\ q.pc # "staged"
      BY DEF Principal, Idle
    <2>2. Goto(w, q)
      BY <1>3 DEF AskOwnPassword
    <2> HIDE DEF q
    <2> QED BY <2>1, <2>2, MovedStep
  <1>4. ASSUME NEW s \in Session, NEW c, AskSwitchContext(w, s, c) PROVE Serial'
    <2> DEFINE q == [Principal("switch", s) EXCEPT !.goal = c]
    <2>1. q.held = {} /\ q.pc # "staged"
      BY DEF Principal, Idle
    <2>2. Goto(w, q)
      BY <1>4 DEF AskSwitchContext
    <2> HIDE DEF q
    <2> QED BY <2>1, <2>2, MovedStep
  <1>5. ASSUME NEW s \in Session, NEW st, AskTenantStatus(w, s, st) PROVE Serial'
    <2> DEFINE q == [Principal("status", s) EXCEPT !.goal = st]
    <2>1. q.held = {} /\ q.pc # "staged"
      BY DEF Principal, Idle
    <2>2. Goto(w, q)
      BY <1>5 DEF AskTenantStatus
    <2> HIDE DEF q
    <2> QED BY <2>1, <2>2, MovedStep
  <1>6. ASSUME NEW s \in Session, NEW g, AskTerminal(w, s, g) PROVE Serial'
    <2> DEFINE q == [Principal("terminal", s) EXCEPT !.goal = g]
    <2>1. q.held = {} /\ q.pc # "staged"
      BY DEF Principal, Idle
    <2>2. Goto(w, q)
      BY <1>6 DEF AskTerminal
    <2> HIDE DEF q
    <2> QED BY <2>1, <2>2, MovedStep
  <1>7. ASSUME NEW u \in User, NEW g, AskOperator(w, u, g) PROVE Serial'
    <2> DEFINE q == [Idle EXCEPT !.pc = "asked", !.kind = "operator",
                                 !.whom = u, !.goal = g]
    <2>1. q.held = {} /\ q.pc # "staged"
      BY DEF Idle
    <2>2. Goto(w, q)
      BY <1>7 DEF AskOperator
    <2> HIDE DEF q
    <2> QED BY <2>1, <2>2, MovedStep
  <1>8. ASSUME NEW u \in User, AskFirstSuperadmin(w, u) PROVE Serial'
    <2> DEFINE q == [Idle EXCEPT !.pc = "asked", !.kind = "first", !.whom = u]
    <2>1. q.held = {} /\ q.pc # "staged"
      BY DEF Idle
    <2>2. Goto(w, q)
      BY <1>8 DEF AskFirstSuperadmin
    <2> HIDE DEF q
    <2> QED BY <2>1, <2>2, MovedStep
  <1>9. ASSUME NEW u \in User, NEW c, AskLogin(w, u, c) PROVE Serial'
    <2>1. PICK bound \in {FALSE, c = "tenant" /\ terminal = "active"} :
             Goto(w, [Idle EXCEPT !.pc = "asked", !.kind = "login", !.user = u,
                                  !.context = c, !.bound = bound,
                                  !.secret = users[u].secret,
                                  !.encoding = users[u].encoding])
      BY <1>9 DEF AskLogin
    <2> DEFINE q == [Idle EXCEPT !.pc = "asked", !.kind = "login", !.user = u,
                                 !.context = c, !.bound = bound,
                                 !.secret = users[u].secret,
                                 !.encoding = users[u].encoding]
    <2>2. q.held = {} /\ q.pc # "staged"
      BY DEF Idle
    <2>3. Goto(w, q)
      BY <2>1
    <2> HIDE DEF q
    <2> QED BY <2>2, <2>3, MovedStep
  <1>10. ASSUME NEW s \in Session, AskManage(w, s) PROVE Serial'
    <2>1. ASSUME NEW kind, NEW u, NEW x,
                 \/ Goto(w, [Principal(kind, s) EXCEPT !.whom = u, !.role = x])
                 \/ Goto(w, [Principal(kind, s) EXCEPT !.whom = u, !.standing = x])
                 \/ Goto(w, [Principal(kind, s) EXCEPT !.whom = u])
          PROVE  Serial'
      <3> DEFINE a == [Principal(kind, s) EXCEPT !.whom = u, !.role = x]
                 b == [Principal(kind, s) EXCEPT !.whom = u, !.standing = x]
                 d == [Principal(kind, s) EXCEPT !.whom = u]
      <3>1. /\ a.held = {} /\ a.pc # "staged"
            /\ b.held = {} /\ b.pc # "staged"
            /\ d.held = {} /\ d.pc # "staged"
        BY DEF Principal, Idle
      <3>2. Goto(w, a) \/ Goto(w, b) \/ Goto(w, d)
        BY <2>1
      <3> HIDE DEF a, b, d
      <3> QED BY <3>1, <3>2, MovedStep
    <2> QED BY <1>10, <2>1 DEF AskManage
  <1> QED
    BY <1>1, <1>2, <1>3, <1>4, <1>5, <1>6, <1>7, <1>8, <1>9, <1>10 DEF Ask

(* The steps of a login, which decide nothing about accounts, keep the invariant. *)
LEMMA LoginStep ==
    ASSUME Inv, Typed', NEW w \in Worker, LockLogin(w) \/ Again(w)
    PROVE  Serial'
  <1> DEFINE q == tr[w]
  <1>0. q \in Request /\ q.kind = "login" /\ Covered(q) /\ q.pc # "staged"
    BY DEF Inv, Typed, TypeOK, Serial, LockLogin, Again, At
  <1>1. q.held = {}
    BY <1>0 DEF Covered
  <1>2. CASE Again(w)
    <2> DEFINE next == [q EXCEPT !.pc = "asked", !.retried = TRUE,
                                 !.encoding = users[q.user].encoding]
    <2>1. next.held = {} /\ next.pc # "staged" /\ Idle.held = {} /\ Idle.pc # "staged"
      BY <1>0, <1>1 DEF Request, Idle
    <2>2. Goto(w, next) \/ Goto(w, Idle)
      BY <1>2 DEF Again, Refuse
    <2> HIDE DEF next
    <2> QED BY <2>1, <2>2, MovedStep
  <1>3. CASE LockLogin(w)
    <2> DEFINE next == [q EXCEPT !.pc = "again"]
    <2>1. next.held = {} /\ next.pc # "staged" /\ Idle.held = {} /\ Idle.pc # "staged"
      BY <1>0, <1>1 DEF Request, Idle
    <2>2. \/ Goto(w, next) \/ Goto(w, Idle)
          \/ Enter(w, "login", LoginLocks(q), TRUE, q)
      BY <1>3 DEF LockLogin, Refuse, Enter
    <2>3. Covers(LoginLocks(q), q) /\ Rightful(q)
      BY <1>0 DEF Covers, Rightful, OfAccount
    <2> HIDE DEF next
    <2> QED BY <1>0, <2>1, <2>2, <2>3, MovedStep, EnteredStep
  <1> QED BY <1>2, <1>3

(* Requests that change neither an account nor the tenant or terminal.     *)
LEMMA SessionLockStep ==
    ASSUME Inv, Typed', NEW w \in Worker,
           LockUpgrade(w) \/ LockSwitchContext(w) \/ LockOwnPassword(w)
    PROVE  Serial'
  <1> DEFINE q == tr[w]
  <1>0. q \in Request /\ q.kind \in {"upgrade", "switch", "own"}
    BY DEF Inv, Typed, TypeOK, LockUpgrade, LockSwitchContext, LockOwnPassword,
           Enter, At
  <1>1. ASSUME NEW r \in Request, r.kind = q.kind, NEW kind, NEW locks, NEW admitted,
               Enter(w, kind, locks, admitted, r)
        PROVE  Serial'
    <2>1. Covers(locks, r) /\ Rightful(r)
      BY <1>0, <1>1 DEF Covers, Rightful, OfAccount
    <2> QED BY <1>1, <2>1, EnteredStep
  <1>2. CASE LockUpgrade(w)
    BY <1>0, <1>1, <1>2 DEF LockUpgrade
  <1>3. CASE LockSwitchContext(w)
    <2>1. PICK bound \in {FALSE, BoundTo(q)} : \E locks, admitted :
             Enter(w, "switch", locks, admitted, [q EXCEPT !.bound = bound])
      BY <1>3 DEF LockSwitchContext
    <2>2. bound \in BOOLEAN
      BY DEF BoundTo
    <2> DEFINE r == [q EXCEPT !.bound = bound]
    <2>3. r \in Request /\ r.kind = q.kind
      BY <1>0, <2>2 DEF Request
    <2> HIDE DEF r
    <2> QED BY <1>1, <2>1, <2>3 DEF r
  <1>4. CASE LockOwnPassword(w)
    <2> DEFINE others == LiveOf(q.user) \ {q.session}
               r == [q EXCEPT !.revoked = others]
    <2>1. \E locks, admitted : Enter(w, "own", locks, admitted, r)
      BY <1>4 DEF LockOwnPassword
    <2>2. others \in SUBSET Session
      BY LiveTypes
    <2> HIDE DEF others
    <2>3. r \in Request /\ r.kind = q.kind
      BY <1>0, <2>2 DEF Request
    <2> HIDE DEF r
    <2> QED BY <1>1, <2>1, <2>3
  <1> QED BY <1>2, <1>3, <1>4

(* Requests about an account hold the organization and that account.       *)
LEMMA AccountLockStep ==
    ASSUME Inv, Typed', NEW w \in Worker,
           \/ LockCreate(w) \/ LockUpdate(w) \/ LockReset(w)
           \/ LockOperator(w) \/ LockFirstSuperadmin(w)
    PROVE  Serial'
  <1> DEFINE q == tr[w]
  <1>0. q \in Request
    BY DEF Inv, Typed, TypeOK
  <1>1. ASSUME NEW gone \in SUBSET Session, NEW role \in {"keep"} \cup Role,
               NEW r \in {q, [q EXCEPT !.revoked = gone],
                          [q EXCEPT !.role = role, !.revoked = gone]}
        PROVE  /\ r \in Request
               /\ r.kind = q.kind /\ r.user = q.user /\ r.whom = q.whom
               /\ r.goal = q.goal /\ r.standing = q.standing
               /\ r.role \in {q.role, role}
    <2> DEFINE a == [q EXCEPT !.role = role]
    <2>1. a \in Request /\ [q EXCEPT !.revoked = gone] \in Request
      BY <1>0 DEF Request
    <2>2. [a EXCEPT !.revoked = gone] \in Request
      <3> HIDE DEF a
      <3> QED BY <2>1 DEF Request
    <2>3. r \in Request
      BY <1>0, <2>1, <2>2
    <2> QED BY <1>0, <2>3 DEF Request
  <1>2. /\ Update(<<"organization">>) \in ManageLocks(q)
        /\ Update(UserLock(q.whom)) \in ManageLocks(q)
        /\ Update(<<"organization">>) \in OperatorLocks(q)
        /\ Update(UserLock(q.whom)) \in OperatorLocks(q)
        /\ Update(<<"organization">>) \in FirstLocks(q)
        /\ Update(UserLock(q.whom)) \in FirstLocks(q)
    BY DEF ManageLocks, OperatorLocks, FirstLocks, UpdateAll
  <1>3. CASE LockCreate(w)
    <2>1. Covers(ManageLocks(q), q) /\ q.kind = "create"
      BY <1>2, <1>3 DEF Covers, LockCreate, Enter, At
    <2>2. Authority(q) /\ ~Present(q.whom) => Rightful(q)
      BY <2>1 DEF Rightful, Authority
    <2> QED BY <1>0, <1>3, <2>1, <2>2, EnteredStep DEF LockCreate
  <1>4. CASE LockFirstSuperadmin(w)
    <2>1. Covers(FirstLocks(q), q) /\ q.kind = "first"
      BY <1>2, <1>4 DEF Covers, LockFirstSuperadmin, Enter, At
    <2>2. ~Present(q.whom) /\ Superadmins = {} => Rightful(q)
      BY <2>1 DEF Rightful
    <2> QED BY <1>0, <1>4, <2>1, <2>2, EnteredStep DEF LockFirstSuperadmin
  <1>5. CASE LockUpdate(w)
    <2> DEFINE gone == IF UpdatedUser(q) = users[q.whom] THEN {} ELSE LiveOf(q.whom)
               r == [q EXCEPT !.revoked = gone]
    <2>1. gone \in SUBSET Session
      BY LiveTypes
    <2>2. Enter(w, "update", ManageLocks(q), Authority(q) /\ UpdateAllowed(q), r)
      BY <1>5 DEF LockUpdate
    <2> HIDE DEF gone
    <2>3. /\ r \in Request /\ r.kind = "update" /\ r.user = q.user /\ r.whom = q.whom
          /\ r.role = q.role /\ r.standing = q.standing
      BY <1>0, <1>5, <2>1 DEF Request, LockUpdate, Enter, At
    <2> HIDE DEF r
    <2>4. Covers(ManageLocks(q), r)
      BY <1>2, <2>3 DEF Covers
    <2>5. Authority(q) /\ UpdateAllowed(q) => Rightful(r)
      BY <2>3 DEF Rightful, Authority, UpdateAllowed, UpdatedUser
    <2> QED BY <2>2, <2>3, <2>4, <2>5, EnteredStep
  <1>6. CASE LockReset(w)
    <2> DEFINE r == [q EXCEPT !.revoked = LiveOf(q.whom)]
    <2>1. LiveOf(q.whom) \in SUBSET Session
      BY LiveTypes
    <2>2. /\ r \in Request /\ r.kind = "reset" /\ r.user = q.user /\ r.whom = q.whom
      BY <1>0, <1>6, <2>1 DEF Request, LockReset, Enter, At
    <2>3. Enter(w, "reset", ManageLocks(q),
                Authority(q) /\ users[q.whom].secret < MaxSecret, r)
      BY <1>6 DEF LockReset
    <2> HIDE DEF r
    <2>4. Covers(ManageLocks(q), r)
      BY <1>2, <2>2 DEF Covers
    <2>5. Authority(q) => Rightful(r)
      BY <2>2 DEF Rightful, Authority
    <2> QED BY <2>2, <2>3, <2>4, <2>5, EnteredStep
  <1>7. CASE LockOperator(w)
    <2> DEFINE role == GivenRole(q.goal)
               gone == IF Given(role, users[q.whom].role) # users[q.whom].role
                             \/ q.goal = "reset"
                       THEN LiveOf(q.whom) ELSE {}
               r == [q EXCEPT !.role = role, !.revoked = gone]
    <2>1. gone \in SUBSET Session
      BY LiveTypes
    <2>2. role \in {"keep"} \cup Role
      BY DEF GivenRole, Role
    <2>3. Enter(w, "operator", OperatorLocks(q), OperatorAllowed(q), r)
      BY <1>7 DEF LockOperator
    <2>4. q.kind = "operator"
      BY <1>7 DEF LockOperator, Enter, At
    <2> DEFINE a == [q EXCEPT !.role = role]
    <2> HIDE DEF gone, role
    <2>a. a \in Request /\ a.role = role
      BY <1>0, <2>2 DEF Request
    <2>b. a.kind = q.kind /\ a.whom = q.whom /\ a.goal = q.goal
      BY <1>0 DEF Request
    <2>c. r = [a EXCEPT !.revoked = gone]
      BY <1>0 DEF Request
    <2> HIDE DEF a, r
    <2>d. r \in Request
      BY <2>1, <2>a, <2>c DEF Request
    <2>e. r.kind = a.kind /\ r.whom = a.whom /\ r.goal = a.goal /\ r.role = a.role
      BY <2>a, <2>c DEF Request
    <2>5. /\ r \in Request /\ r.kind = "operator" /\ r.whom = q.whom
          /\ r.goal = q.goal /\ r.role = role
      BY <2>4, <2>a, <2>b, <2>d, <2>e
    <2> HIDE DEF r
    <2>6. Covers(OperatorLocks(q), r)
      BY <1>2, <2>5 DEF Covers
    <2>7. OperatorAllowed(q) => Rightful(r)
      BY <2>5 DEF Rightful, OperatorAllowed, role
    <2> QED BY <2>3, <2>5, <2>6, <2>7, EnteredStep
  <1> QED BY <1>3, <1>4, <1>5, <1>6, <1>7

(* Requests about the tenant and its terminal hold their sender.           *)
LEMMA TenantLockStep ==
    ASSUME Inv, Typed', NEW w \in Worker, LockTenantStatus(w) \/ LockTerminal(w)
    PROVE  Serial'
  <1> DEFINE q == tr[w]
  <1>0. q \in Request
    BY DEF Inv, Typed, TypeOK
  <1>1. CASE LockTenantStatus(w)
    <2> DEFINE ended == IF q.goal = "suspended" THEN LiveInTenant ELSE {}
               r == [q EXCEPT !.revoked = ended]
    <2>1. ended \in SUBSET Session
      BY LiveTypes
    <2>2. Enter(w, "status", StatusLocks(q, ended), Authority(q), r)
      BY <1>1 DEF LockTenantStatus
    <2> HIDE DEF ended
    <2>3. r \in Request /\ r.kind = "status" /\ r.user = q.user
      BY <1>0, <1>1, <2>1 DEF Request, LockTenantStatus, Enter, At
    <2> HIDE DEF r
    <2>4. Covers(StatusLocks(q, ended), r)
      BY <2>3 DEF Covers, StatusLocks, OfAccount
    <2>5. Authority(q) => Rightful(r)
      BY <2>3 DEF Rightful, Authority
    <2> QED BY <2>2, <2>3, <2>4, <2>5, EnteredStep
  <1>2. CASE LockTerminal(w)
    <2> DEFINE changed == IF q.goal = "enrolled" THEN {q.session} ELSE LiveBound
               gone == IF q.goal = "enrolled" THEN {} ELSE changed
               holds == /\ LifecycleHolds(q)
                        /\ IF q.goal = "enrolled" THEN terminal # "revoked"
                           ELSE terminal = "active"
               r == [q EXCEPT !.revoked = gone]
    <2>1. gone \in SUBSET Session
      BY LiveTypes
    <2>2. Enter(w, "terminal", LifecycleLocks(q, changed), holds, r)
      BY <1>2 DEF LockTerminal
    <2> HIDE DEF changed, gone
    <2>3. r \in Request /\ r.kind = "terminal" /\ r.user = q.user
      BY <1>0, <1>2, <2>1 DEF Request, LockTerminal, Enter, At
    <2>4. holds => Manages(q.user)
      BY DEF LifecycleHolds, IdentityHolds, Manages
    <2> HIDE DEF r, holds
    <2>5. Covers(LifecycleLocks(q, changed), r)
      BY <2>3 DEF Covers, LifecycleLocks, IdentityLocks, ShareAll, OfAccount
    <2>6. holds => Rightful(r)
      BY <2>3, <2>4 DEF Rightful
    <2> QED BY <2>2, <2>3, <2>5, <2>6, EnteredStep
  <1> QED BY <1>1, <1>2

(* The commits that leave role and standing of every account alone.        *)
LEMMA AlikeCommit ==
    ASSUME Inv, UNCHANGED sent, Typed', NEW w \in Worker,
           \/ CommitLogin(w) \/ Rehash(w) \/ CommitReplacement(w) \/ Logout(w)
           \/ CommitOwnPassword(w) \/ CommitTenantStatus(w) \/ CommitEnroll(w)
           \/ CommitRevokeTerminal(w)
    PROVE  Serial' /\ Alike
  <1> DEFINE q == tr[w]
  <1>0. TypeOK /\ q \in Request /\ Shape(q)
    BY DEF Inv, Typed, TypeOK, Shapes
  <1>1. Alike
    <2>1. CASE Rehash(w)
      <3>1. q.user \in User /\ Present(q.user)
        BY <1>0, <2>1 DEF Rehash, At, Shape
      <3>2. users[q.user] \in UserRow
        BY <1>0, <3>1, RowTypes
      <3>3. users' = users \/ users' = [users EXCEPT ![q.user].encoding = "current"]
        BY <2>1 DEF Rehash, Rehashed
      <3>4. CASE users' = users
        BY <3>4, SameAccounts
      <3>5. CASE users' = [users EXCEPT ![q.user].encoding = "current"]
        <4>1. /\ users'[q.user].role = users[q.user].role
              /\ users'[q.user].standing = users[q.user].standing
              /\ users'[q.user].temporary = users[q.user].temporary
              /\ \A v \in User \ {q.user} : users'[v] = users[v]
          BY <1>0, <3>1, <3>2, <3>5 DEF TypeOK, UserRow
        <4>2. users'[q.user] # NoUser
          BY <2>1, <3>1, LoginCommitTypes DEF Kept, Inv
        <4> QED BY <3>1, <4>1, <4>2 DEF Alike, Present
      <3> QED BY <3>3, <3>4, <3>5
    <2>2. CASE CommitOwnPassword(w)
      <3>1. q.user \in User /\ Present(q.user)
        BY <1>0, <2>2 DEF CommitOwnPassword, At, Shape, OfSession
      <3>2. users[q.user] \in UserRow
        BY <1>0, <3>1, RowTypes
      <3>3. PICK a, b : users' = [users EXCEPT
                ![q.user].secret = a, ![q.user].encoding = "current",
                ![q.user].temporary = FALSE, ![q.user].by = b]
        BY <2>2 DEF CommitOwnPassword
      <3> DEFINE row == [users[q.user] EXCEPT !.secret = a, !.encoding = "current",
                                              !.temporary = FALSE, !.by = b]
      <3>a. users' = [users EXCEPT ![q.user] = row]
        BY <1>0, <3>1, <3>3 DEF TypeOK
      <3>b. row.role = users[q.user].role /\ row.standing = users[q.user].standing
        BY <3>2 DEF UserRow
      <3>c. row.temporary = FALSE
        BY <3>2 DEF UserRow
      <3> HIDE DEF row
      <3>d. users'[q.user] = row /\ \A v \in User \ {q.user} : users'[v] = users[v]
        BY <1>0, <3>1, <3>a DEF TypeOK
      <3>4. /\ users'[q.user].role = users[q.user].role
            /\ users'[q.user].standing = users[q.user].standing
            /\ users'[q.user].temporary = FALSE
            /\ \A v \in User \ {q.user} : users'[v] = users[v]
        BY <3>b, <3>c, <3>d
      <3>5. users'[q.user] # NoUser
        BY <2>2, <3>1, OwnPasswordTypes DEF Kept, Inv
      <3> QED BY <3>1, <3>4, <3>5 DEF Alike, Present
    <2>3. CASE users' = users
      BY <2>3, SameAccounts
    <2> QED
      BY <2>1, <2>2, <2>3 DEF CommitLogin, CommitReplacement, Logout,
         CommitTenantStatus, CommitEnroll, CommitRevokeTerminal
  <1>2. CASE Done(w)
    <2>1. Idle.held = {} /\ Idle.pc # "staged"
      BY DEF Idle
    <2>2. tr' = [tr EXCEPT ![w] = Idle]
      BY <1>2 DEF Done
    <2> QED BY <1>1, <2>1, <2>2, QuietStep
  <1>3. CASE CommitLogin(w)
    <2> DEFINE left == [q EXCEPT !.pc = "rehash", !.kind = "rehash", !.held = {}]
    <2>1. left.held = {} /\ left.pc # "staged" /\ Idle.held = {} /\ Idle.pc # "staged"
      BY <1>0 DEF Request, Idle
    <2>2. tr' = [tr EXCEPT ![w] = left] \/ tr' = [tr EXCEPT ![w] = Idle]
      BY <1>3 DEF CommitLogin
    <2> HIDE DEF left
    <2> QED BY <1>1, <2>1, <2>2, QuietStep
  <1> QED
    BY <1>1, <1>2, <1>3 DEF Rehash, CommitReplacement, Logout, CommitOwnPassword,
       CommitTenantStatus, CommitEnroll, CommitRevokeTerminal

(* The commits that create an account or change its role or its standing.  *)
LEMMA AccountCommit ==
    ASSUME Inv, Typed', NEW w \in Worker,
           \/ CommitCreate(w) \/ CommitUpdate(w) \/ CommitReset(w)
           \/ CommitOperator(w) \/ CommitFirstSuperadmin(w)
    PROVE  Serial'
  <1> DEFINE q == tr[w]
  <1>0. /\ q \in Request /\ Shape(q) /\ TypeOK
        /\ q.pc = "staged" /\ q.kind \in OfAccount /\ q.whom \in User
    BY DEF Inv, Typed, TypeOK, Shapes, CommitCreate, CommitUpdate, CommitReset,
           CommitOperator, CommitFirstSuperadmin, At, Shape, OfAccount
  <1>1. \A v \in Worker : tr'[v] = IF v = w THEN Idle ELSE tr[v]
    BY <1>0 DEF CommitCreate, CommitUpdate, CommitReset, CommitOperator,
           CommitFirstSuperadmin, Done, TypeOK
  <1>2. \A u \in User \ {q.whom} : users'[u] = users[u]
    BY <1>0 DEF CommitCreate, CommitUpdate, CommitReset, CommitOperator,
           CommitFirstSuperadmin, TypeOK
  <1>3. Update(<<"organization">>) \in q.held /\ Update(UserLock(q.whom)) \in q.held
    BY <1>0 DEF Inv, Serial, Covered, Covers
  <1>4. ASSUME NEW v \in Worker, v # w PROVE Decided(tr[v])'
    <2> DEFINE r == tr[v]
    <2> SUFFICES ASSUME r.pc = "staged" PROVE Rightful(tr[v])'
      BY <1>1, <1>4 DEF Decided
    <2>0. tr'[v] = r
      BY <1>1, <1>4
    <2>1. Rightful(r) /\ Covers(r.held, r) /\ Shape(r)
      BY DEF Inv, Typed, Shapes, Serial, Decided, Covered
    <2>2. \A a \in q.held, b \in r.held : ~Conflict(a, b)
      BY <1>4 DEF Inv, Serial, Separate
    <2>3. r.kind \notin OfAccount
      BY <1>3, <2>1, <2>2 DEF Covers, Conflict, Update
    <2>4. CASE r.kind \in {"status", "terminal"}
      <3>1. Share(UserLock(r.user)) \in r.held /\ Manages(r.user) /\ r.user \in User
        BY <2>1, <2>4 DEF Covers, Rightful, Shape, OfSession
      <3>2. r.user # q.whom
        BY <1>3, <2>2, <3>1 DEF Conflict, Share, Update
      <3>3. users'[r.user] = users[r.user]
        BY <1>2, <3>1, <3>2
      <3>4. Manages(tr[v].user)'
        BY <2>0, <3>1, <3>3 DEF Manages, Ready, Active, Present
      <3> QED BY <2>0, <2>3, <2>4, <3>4 DEF Rightful, OfAccount
    <2>5. CASE r.kind \notin {"status", "terminal"}
      BY <2>0, <2>3, <2>5 DEF Rightful, OfAccount
    <2> QED BY <2>4, <2>5
  <1>5. Decided(tr[w])'
    <2>1. tr'[w].pc # "staged"
      BY <1>1 DEF Idle
    <2> QED BY <2>1 DEF Decided
  <1>6. Separate'
    <2>1. Idle.held = {} /\ tr' = [tr EXCEPT ![w] = Idle]
      BY DEF Idle, CommitCreate, CommitUpdate, CommitReset, CommitOperator,
             CommitFirstSuperadmin, Done
    <2> QED BY <2>1, SeparateStays DEF Inv, Serial
  <1>7. ASSUME NEW v \in Worker PROVE Covered(tr'[v])
    <2>1. Covered(Idle)
      BY DEF Covered, Idle
    <2> QED BY <1>1, <2>1 DEF Inv, Serial
  <1>8. \A v \in Worker : Covered(tr[v])'
    BY <1>7 DEF Covered, Covers, OfAccount, UserLock, Share, Update
  <1> QED BY <1>4, <1>5, <1>6, <1>8 DEF Serial

(* No account's change leaves an organization without its last superadmin. *)
LEMMA AccountKeepsAdmin ==
    ASSUME Inv, UNCHANGED sent, NEW w \in Worker,
           \/ CommitCreate(w) \/ CommitUpdate(w) \/ CommitReset(w)
           \/ CommitOperator(w) \/ CommitFirstSuperadmin(w),
           Superadmins # {}
    PROVE  Superadmins' # {}
  <1> DEFINE q == tr[w]
  <1>0. /\ q \in Request /\ Shape(q) /\ TypeOK /\ Rightful(q) /\ q.whom \in User
    BY DEF Inv, Typed, TypeOK, Shapes, Serial, Decided, CommitCreate, CommitUpdate,
           CommitReset, CommitOperator, CommitFirstSuperadmin, At, Shape, OfAccount
  <1>1. \A u \in User \ {q.whom} : users'[u] = users[u]
    BY <1>0 DEF CommitCreate, CommitUpdate, CommitReset, CommitOperator,
           CommitFirstSuperadmin, TypeOK
  <1>2. \A u \in Superadmins \ {q.whom} : u \in Superadmins'
    BY <1>1 DEF Superadmins, Active, Present
  <1>3. SUFFICES ASSUME Superadmins = {q.whom} PROVE q.whom \in Superadmins'
    BY <1>2
  <1>4. /\ Present(q.whom) /\ users[q.whom] \in UserRow
        /\ IsSuperadmin(users[q.whom]) /\ ~OtherSuperadmin(q.whom)
    <2>1. q.whom \in Superadmins
      BY <1>3
    <2>2. Present(q.whom) /\ IsSuperadmin(users[q.whom])
      BY <2>1 DEF Superadmins, Active, IsSuperadmin
    <2>3. users[q.whom] \in UserRow
      BY <1>0, <2>2, RowTypes
    <2> QED BY <1>3, <2>2, <2>3 DEF OtherSuperadmin
  <1>5. ~CommitCreate(w) /\ ~CommitFirstSuperadmin(w)
    BY <1>0, <1>4 DEF CommitCreate, CommitFirstSuperadmin, At, Rightful
  <1>6. IsSuperadmin(users'[q.whom])
    <2>1. CASE CommitUpdate(w)
      <3>1. UpdateAllowed(q)
        BY <1>0, <2>1 DEF CommitUpdate, At, Rightful
      <3>2. IsSuperadmin(UpdatedUser(q))
        BY <1>4, <3>1 DEF UpdateAllowed
      <3>3. users'[q.whom] = UpdatedUser(q)
        BY <1>0, <2>1 DEF CommitUpdate, TypeOK
      <3> QED BY <3>2, <3>3
    <2>2. CASE CommitReset(w)
      <3>1. users'[q.whom] = Recovered(users[q.whom])
        BY <1>0, <2>2 DEF CommitReset, TypeOK
      <3> QED BY <1>4, <3>1 DEF Recovered, IsSuperadmin, UserRow
    <2>3. CASE CommitOperator(w)
      <3>1. q.kind = "operator" /\ q.goal # "reset"
        BY <2>3 DEF CommitOperator, At
      <3>2. q.role = GivenRole(q.goal) /\ q.goal \in {"grant", "revoke"}
        BY <1>0, <3>1 DEF Rightful, Shape
      <3>3. q.goal # "revoke"
        BY <1>0, <1>4, <3>1 DEF Rightful, IsSuperadmin
      <3>4. q.role = "superadmin"
        BY <3>2, <3>3 DEF GivenRole
      <3>5. users'[q.whom] = [users[q.whom] EXCEPT !.role = "superadmin"]
        BY <1>0, <2>3, <3>4 DEF CommitOperator, Given, TypeOK
      <3> QED BY <1>4, <3>5 DEF IsSuperadmin, UserRow
    <2> QED BY <1>5, <2>1, <2>2, <2>3
  <1>7. users'[q.whom] # NoUser
    BY <1>0, <1>4, UserCommitTypes DEF Inv, Kept
  <1> QED BY <1>0, <1>6, <1>7 DEF IsSuperadmin, Superadmins, Active, Present

(* Before it commits, a request changes nothing but itself. *)
LEMMA AsksOnly ==
    ASSUME NEW w \in Worker, Ask(w) PROVE users' = users
  BY DEF Ask, AskUpgrade, AskLogout, AskOwnPassword, AskManage, AskSwitchContext,
     AskTenantStatus, AskTerminal, AskLogin, AskOperator, AskFirstSuperadmin,
     Goto, accountVars

(* Taking locks and validating under them writes no account. *)
LEMMA LocksOnly ==
    ASSUME NEW w \in Worker,
           \/ LockLogin(w) \/ Again(w) \/ LockUpgrade(w) \/ LockSwitchContext(w)
           \/ LockOwnPassword(w) \/ LockCreate(w) \/ LockUpdate(w) \/ LockReset(w)
           \/ LockOperator(w) \/ LockFirstSuperadmin(w)
           \/ LockTenantStatus(w) \/ LockTerminal(w)
    PROVE  users' = users
  BY DEF LockLogin, Again, LockUpgrade, LockSwitchContext, LockOwnPassword,
     LockCreate, LockUpdate, LockReset, LockOperator, LockFirstSuperadmin,
     LockTenantStatus, LockTerminal, Enter, Refuse, Goto, accountVars

-----------------------------------------------------------------------------
(* The inductive invariant. *)
LEMMA InvInit == Init => Inv
  <1> SUFFICES ASSUME Init PROVE Inv
    OBVIOUS
  <1>1. Typed
    BY TypedInit
  <1>2. \A w \in Worker : tr[w] = Idle
    BY DEF Init
  <1>3. Separate
    BY <1>2 DEF Separate, Idle
  <1>4. \A w \in Worker : Covered(tr[w]) /\ Decided(tr[w])
    BY <1>2 DEF Covered, Decided, Idle
  <1> QED BY <1>1, <1>3, <1>4 DEF Inv, Serial

(* Every step keeps the inductive invariant. *)
LEMMA InvNext == Inv /\ [Next]_vars => Inv'
  <1> SUFFICES ASSUME Inv, [Next]_vars PROVE Inv'
    OBVIOUS
  <1>1. Typed'
    BY TypedNext DEF Inv
  <1>2. CASE UNCHANGED vars
    <2>1. Alike /\ tr' = tr
      BY <1>2, SameAccounts DEF vars, accountVars
    <2>2. \A v \in Worker : Decided(tr[v])'
      BY <1>1, <2>1, DecidedStays DEF Inv, Serial
    <2>3. Separate' /\ \A v \in Worker : Covered(tr[v])'
      BY <2>1 DEF Inv, Serial, Separate
    <2> QED BY <1>1, <2>2, <2>3 DEF Inv, Serial
  <1>3. CASE Next
    <2>1. PICK w \in Worker : Ask(w) \/ Proceed(w) \/ Abort(w)
      BY <1>3 DEF Next
    <2>2. UNCHANGED sent
      BY <1>3 DEF Next
    <2>3. CASE Ask(w)
      BY <1>1, <2>3, AskStep DEF Inv
    <2>4. CASE Proceed(w)
      BY <1>1, <2>2, <2>4, LoginStep, SessionLockStep, AccountLockStep,
         TenantLockStep, AlikeCommit, AccountCommit DEF Proceed, Inv
    <2>5. CASE Abort(w)
      <3>1. Idle.held = {} /\ Idle.pc # "staged" /\ Goto(w, Idle)
        BY <2>5 DEF Abort, Refuse, Idle
      <3> QED BY <1>1, <3>1, MovedStep DEF Inv
    <2> QED BY <1>1, <2>1, <2>3, <2>4, <2>5 DEF Inv
  <1> QED BY <1>2, <1>3

(* An organization with an active superadmin keeps one, however superadmins *)
(* and the operator demote and deactivate each other at the same time.     *)
THEOREM AdminsRemain == Spec => AdminRemains
  <1>1. Inv /\ [Next]_vars => [Superadmins # {} => Superadmins' # {}]_vars
    <2> SUFFICES ASSUME Inv, Next, Superadmins # {} PROVE Superadmins' # {}
      BY DEF vars, accountVars
    <2>1. PICK w \in Worker : Ask(w) \/ Proceed(w) \/ Abort(w)
      BY DEF Next
    <2>2. UNCHANGED sent /\ Typed'
      BY TypedNext DEF Next, Inv
    <2>3. CASE \/ CommitCreate(w) \/ CommitUpdate(w) \/ CommitReset(w)
               \/ CommitOperator(w) \/ CommitFirstSuperadmin(w)
      BY <2>2, <2>3, AccountKeepsAdmin
    <2>4. CASE \/ CommitLogin(w) \/ Rehash(w) \/ CommitReplacement(w) \/ Logout(w)
               \/ CommitOwnPassword(w) \/ CommitTenantStatus(w) \/ CommitEnroll(w)
               \/ CommitRevokeTerminal(w)
      BY <2>2, <2>4, AlikeCommit, SameSuperadmins
    <2>5. CASE Ask(w) \/ Abort(w)
      BY <2>5, SameAccounts, SameSuperadmins, AsksOnly DEF Abort, Refuse, Goto, accountVars
    <2>6. CASE \/ LockLogin(w) \/ Again(w) \/ LockUpgrade(w) \/ LockSwitchContext(w)
               \/ LockOwnPassword(w) \/ LockCreate(w) \/ LockUpdate(w) \/ LockReset(w)
               \/ LockOperator(w) \/ LockFirstSuperadmin(w)
               \/ LockTenantStatus(w) \/ LockTerminal(w)
      BY <2>6, SameAccounts, SameSuperadmins, LocksOnly
    <2> QED BY <2>1, <2>3, <2>4, <2>5, <2>6 DEF Proceed
  <1> QED BY <1>1, InvInit, InvNext, PTL DEF Spec, AdminRemains

(* What a request decided under its locks is still so when it commits:     *)
(* its sender is a superadmin, or there is none yet.                       *)
THEOREM DecisionsStand == Spec => DecisionsHold
  <1> DEFINE Holds ==
         \A w \in Worker :
            /\ tr[w].pc = "staged"
            /\ tr'[w] = Idle
            /\ <<users, tenant, terminal>>' # <<users, tenant, terminal>>
            => /\ tr[w].kind \in {"create", "update", "reset", "status", "terminal"}
                     => Manages(tr[w].user)
               /\ tr[w].kind = "first" => Superadmins = {}
  <1>1. Inv => Holds
    BY DEF Inv, Serial, Decided, Rightful
  <1>2. Inv /\ [Next]_vars => [Holds]_vars
    BY <1>1
  <1> HIDE DEF Holds
  <1>3. Spec => [][Holds]_vars
    BY <1>2, InvInit, InvNext, PTL DEF Spec
  <1> QED BY <1>3 DEF Holds, DecisionsHold

-----------------------------------------------------------------------------
(***************************************************************************)
(* No session of AccountSessions outlives what it was issued under, and    *)
(* none stands for a password that was replaced, for any number of         *)
(* accounts, sessions and requests in flight.                              *)
(*                                                                         *)
(* Neither fact is inductive: a login or an exchange issues a session from *)
(* what it has seen some steps before, and a suspension, a deactivation or *)
(* a change of password ends the sessions it has found some steps before.  *)
(* The invariant says what each of them still knows (Seen), by which locks *)
(* (Keys), and what its session has told it (Remembers).  The argument is  *)
(* then the same for every pair of requests: a step changes or adds        *)
(* nothing that another one holds the lock of (Careful).                   *)
(***************************************************************************)

(* The requests that issue a session, and those that revoke some. *)
Issuers  == {"login", "upgrade", "switch"}
Revokers == {"own", "update", "reset", "operator", "status", "terminal"}

(* The context of the session that a request issues. *)
Into(q) == IF q.kind = "login" THEN q.context ELSE q.goal

(* A request sets a password that its sender does not know. *)
Resets(q) == q.kind = "reset" \/ (q.kind = "operator" /\ q.goal = "reset")

(* What a request has read of its session, while that session is live. *)
Remembers(q) ==
    /\ q.kind \in OfSession =>
          /\ q.user = sessions[q.session].user
          /\ Live(q.session) => q.context = sessions[q.session].context
    /\ q.kind = "upgrade" => q.goal = q.context
    /\ q.kind \in {"login", "upgrade"} /\ q.bound => q.context = "tenant"
    /\ q.kind = "terminal" => q.context = "tenant"
    /\ q.kind = "own" /\ Live(q.session) =>
          q.secret = users[q.user].secret \/ users[q.user].by = q.session

(* The locks that a staged request relies on. *)
Keys(held, q) ==
    /\ q.kind \in Issuers =>
          /\ Share(UserLock(q.user)) \in held
          /\ Into(q) = "tenant" => Share(<<"tenant">>) \in held
          /\ q.bound => Share(<<"terminal">>) \in held
    /\ q.kind \in {"upgrade", "switch", "own"} =>
          Update(<<"session", q.session>>) \in held
    /\ q.kind = "own" => Update(UserLock(q.user)) \in held
    /\ q.kind = "status" => Update(<<"tenant">>) \in held
    /\ q.kind = "terminal" =>
          /\ Update(<<"terminal">>) \in held
          /\ q.goal = "enrolled" => Update(<<"session", q.session>>) \in held
    /\ q.kind \in Revokers =>
          \A s \in q.revoked : Update(<<"session", s>>) \in held

(* What a staged request has seen under them. *)
Seen(q) ==
    /\ q.kind \in Issuers =>
          /\ Active(q.user)
          /\ Into(q) = "tenant" => tenant = "active"
          /\ q.bound => terminal = "active" /\ Into(q) = "tenant"
    /\ q.kind = "login" => q.secret = users[q.user].secret
    /\ q.kind \in {"upgrade", "switch"} => StillReplaceable(q)
    /\ q.kind = "own" =>
          Live(q.session) /\ LiveOf(q.user) \subseteq q.revoked \cup {q.session}
    /\ q.kind = "update" =>
          UpdatedUser(q) = users[q.whom] \/ LiveOf(q.whom) \subseteq q.revoked
    /\ Resets(q) => LiveOf(q.whom) \subseteq q.revoked
    /\ q.kind = "status" /\ q.goal = "suspended" => LiveInTenant \subseteq q.revoked
    /\ q.kind = "terminal" /\ q.goal = "revoked" => LiveBound \subseteq q.revoked

Prepared(q) ==
    Remembers(q) /\ (q.pc = "staged" => Keys(q.held, q) /\ Seen(q))

(* A session that is live may be: GoodStanding and SessionsFollowPassword. *)
Sound(s) ==
    Live(s) =>
        /\ Active(sessions[s].user)
        /\ sessions[s].context = "tenant" => tenant = "active"
        /\ sessions[s].bound => terminal = "active" /\ sessions[s].context = "tenant"
        /\ ~sessions[s].recovered =>
              sessions[s].secret = users[sessions[s].user].secret

Standing ==
    /\ \A w \in Worker : Prepared(tr[w])
    /\ \A s \in Session : Sound(s)
    /\ \A s \in Session : s > issued => sessions[s] = NoSession

SInv == Inv /\ Standing

-----------------------------------------------------------------------------
(* --- What a step leaves alone ------------------------------------------- *)
(* No other request holds a lock of the resource, or a lock for update. *)
Free(w, r)      == \A v \in Worker \ {w} : \A a \in tr[v].held : a.on # r
Unclaimed(w, r) == \A v \in Worker \ {w} : Update(r) \notin tr[v].held

(* A row of sessions that is there: ended, or changed under its lock. *)
Changed(w, s) ==
    /\ Free(w, <<"session", s>>)
    /\ sessions'[s].user = sessions[s].user
    /\ Live(s)' => /\ Live(s)
                   /\ sessions'[s].context = sessions[s].context
                   /\ sessions'[s].bound => sessions[s].bound \/ Unclaimed(w, <<"terminal">>)

(* A row that is added. *)
Added(w, s) ==
    /\ sessions[s] = NoSession
    /\ Unclaimed(w, UserLock(sessions'[s].user))
    /\ sessions'[s].context = "tenant" => Unclaimed(w, <<"tenant">>)
    /\ sessions'[s].bound => Unclaimed(w, <<"terminal">>)

(* A password is replaced: of the sessions only the one that set it stays. *)
Replaced(u) ==
    \A s \in Session : Live(s)' /\ Live(s) /\ sessions[s].user = u => users'[u].by = s

Careful(w) ==
    /\ \A u \in User :
          \/ users'[u] = users[u]
          \/ /\ Free(w, UserLock(u))
             /\ \/ ~Present(u)
                \/ users'[u].secret = users[u].secret /\ users'[u].by = users[u].by
                \/ Replaced(u)
    /\ tenant' = tenant \/ Free(w, <<"tenant">>)
    /\ terminal' = terminal \/ Free(w, <<"terminal">>)
    /\ \A s \in Session :
          sessions'[s] = sessions[s] \/ Changed(w, s) \/ Added(w, s)

(* What one request holds for update, no other holds. *)
LEMMA HeldAlone ==
    ASSUME Inv, NEW w \in Worker, NEW r, Update(r) \in tr[w].held
    PROVE  Free(w, r)
  BY DEF Inv, Serial, Separate, Free, Conflict, Update

(* What one request holds for share, no other holds for update. *)
LEMMA HeldShared ==
    ASSUME Inv, NEW w \in Worker, NEW r, Share(r) \in tr[w].held
    PROVE  Unclaimed(w, r)
  BY DEF Inv, Serial, Separate, Unclaimed, Conflict, Update, Share

(* Nobody holds what is free for update. *)
LEMMA FreeUnclaimed ==
    ASSUME NEW w, NEW r, Free(w, r) PROVE Unclaimed(w, r)
  BY DEF Free, Unclaimed, Update

(* What is granted for update, no other holds. *)
LEMMA GrantedAlone ==
    ASSUME NEW w, NEW r, NEW locks, Update(r) \in locks, Granted(w, locks)
    PROVE  Free(w, r)
  BY DEF Granted, Grantable, Free, Conflict, Update

-----------------------------------------------------------------------------
(* --- The requests that do not move -------------------------------------- *)
(* A careful step of one request leaves every other what it relies on. *)
LEMMA OthersPrepared ==
    ASSUME SInv, NEW w \in Worker, Careful(w), NEW v \in Worker \ {w}, tr'[v] = tr[v]
    PROVE  Prepared(tr[v])'
  <1> DEFINE q == tr[v]
             u == q.user
             s == q.session
  <1>0. /\ Typed /\ q \in Request /\ Shape(q) /\ Prepared(q)
        /\ q.pc = "staged" => Covers(q.held, q)
    BY DEF SInv, Inv, Typed, TypeOK, Shapes, Serial, Covered, Standing
  <1>1. \A r : Share(r) \in q.held \/ Update(r) \in q.held => ~Free(w, r)
    BY DEF Free, Share, Update
  <1>2. \A r : Update(r) \in q.held => ~Unclaimed(w, r)
    BY DEF Unclaimed
  <1>3. \A x \in User : Share(UserLock(x)) \in q.held \/ Update(UserLock(x)) \in q.held
            => users'[x] = users[x]
    BY <1>1 DEF Careful
  <1>4. \A x \in Session : Update(<<"session", x>>) \in q.held /\ sessions[x] # NoSession
            => sessions'[x] = sessions[x]
    BY <1>1 DEF Careful, Changed, Added
  <1>5. \A x \in Session : Live(x)' =>
            \/ Added(w, x)
            \/ /\ Live(x) /\ sessions'[x].user = sessions[x].user
               /\ sessions'[x].context = sessions[x].context
               /\ sessions'[x].bound => sessions[x].bound \/ Unclaimed(w, <<"terminal">>)
    BY DEF Careful, Changed, Live, Is
  <1>6. \A x \in User : Update(UserLock(x)) \in q.held => LiveOf(x)' \subseteq LiveOf(x)
    BY <1>2, <1>5 DEF LiveOf, Added
  <1>7. Update(<<"tenant">>) \in q.held => LiveInTenant' \subseteq LiveInTenant
    BY <1>2, <1>5 DEF LiveInTenant, Added
  <1>8. Update(<<"terminal">>) \in q.held => LiveBound' \subseteq LiveBound
    BY <1>2, <1>5 DEF LiveBound, Added
  <1>9. Remembers(tr[v])'
    <2>1. q.kind \in OfSession => s \in Session /\ sessions[s] # NoSession
      BY <1>0 DEF Shape
    <2>2. q.kind \in OfSession =>
             /\ sessions'[s].user = sessions[s].user
             /\ Live(s)' => Live(s) /\ sessions'[s].context = sessions[s].context
      BY <1>5, <2>1 DEF Added, Careful, Changed
    <2>3. ASSUME q.kind = "own", Live(s)'
          PROVE  q.secret = users'[u].secret \/ users'[u].by = s
      <3>1. /\ s \in Session /\ u \in User /\ Present(u) /\ u = sessions[s].user
            /\ Live(s) /\ (q.secret = users[u].secret \/ users[u].by = s)
        BY <1>0, <2>1, <2>2, <2>3 DEF Prepared, Remembers, Shape, OfSession
      <3>2. \/ users'[u].secret = users[u].secret /\ users'[u].by = users[u].by
            \/ Replaced(u)
        BY <3>1 DEF Careful
      <3> QED BY <2>3, <3>1, <3>2 DEF Replaced
    <2>4. /\ q.kind \in OfSession => u = sessions[s].user
          /\ q.kind \in OfSession /\ Live(s) => q.context = sessions[s].context
          /\ q.kind = "upgrade" => q.goal = q.context
          /\ q.kind \in {"login", "upgrade"} /\ q.bound => q.context = "tenant"
          /\ q.kind = "terminal" => q.context = "tenant"
      BY <1>0 DEF Prepared, Remembers
    <2> QED BY <2>2, <2>3, <2>4 DEF Remembers
  <1>10. SUFFICES ASSUME q.pc = "staged" PROVE Keys(q.held, q) /\ Seen(tr[v])'
    BY <1>9 DEF Prepared, Keys, Into, UserLock, Share, Update, Issuers, Revokers
  <1>11. Keys(q.held, q) /\ Seen(q) /\ Covers(q.held, q)
    BY <1>0, <1>10 DEF Prepared
  <1>12. q.kind \in Issuers =>
            /\ Active(u)'
            /\ Into(q) = "tenant" => tenant' = "active"
            /\ q.bound => terminal' = "active" /\ Into(q) = "tenant"
            /\ q.kind = "login" => q.secret = users'[u].secret
    <2> SUFFICES ASSUME q.kind \in Issuers
                 PROVE  /\ Active(u)'
                        /\ Into(q) = "tenant" => tenant' = "active"
                        /\ q.bound => terminal' = "active" /\ Into(q) = "tenant"
                        /\ q.kind = "login" => q.secret = users'[u].secret
      OBVIOUS
    <2>1. u \in User /\ Share(UserLock(u)) \in q.held
      BY <1>0, <1>11 DEF Shape, OfSession, Issuers, Keys
    <2>2. users'[u] = users[u]
      BY <1>3, <2>1
    <2>3. Into(q) = "tenant" => tenant' = tenant
      BY <1>1, <1>11 DEF Careful, Keys
    <2>4. q.bound => terminal' = terminal
      BY <1>1, <1>11 DEF Careful, Keys
    <2> QED BY <1>11, <2>2, <2>3, <2>4 DEF Seen, Active, Present
  <1>13. q.kind \in {"upgrade", "switch", "own"} => sessions'[s] = sessions[s]
    BY <1>0, <1>4, <1>11 DEF Shape, OfSession, Keys
  <1>14. /\ q.kind \in {"upgrade", "switch"} => StillReplaceable(tr[v])'
         /\ q.kind = "own" => Live(s)'
    BY <1>11, <1>13 DEF Seen, StillReplaceable, Live, Is
  <1>15. q.kind = "own" => LiveOf(u)' \subseteq q.revoked \cup {s}
    BY <1>0, <1>6, <1>11 DEF Shape, OfSession, Keys, Seen
  <1>16. q.kind \in OfAccount =>
            users'[q.whom] = users[q.whom] /\ LiveOf(q.whom)' \subseteq LiveOf(q.whom)
    BY <1>0, <1>3, <1>6, <1>11 DEF Shape, Covers
  <1>17. /\ q.kind = "update" =>
               \/ UpdatedUser(tr[v])' = users'[q.whom]
               \/ LiveOf(q.whom)' \subseteq q.revoked
         /\ Resets(q) => LiveOf(q.whom)' \subseteq q.revoked
    BY <1>11, <1>16 DEF Seen, Resets, OfAccount, UpdatedUser
  <1>18. /\ q.kind = "status" /\ q.goal = "suspended" => LiveInTenant' \subseteq q.revoked
         /\ q.kind = "terminal" /\ q.goal = "revoked" => LiveBound' \subseteq q.revoked
    BY <1>7, <1>8, <1>11 DEF Seen, Keys
  <1>19. Seen(tr[v])'
    BY <1>12, <1>14, <1>15, <1>17, <1>18 DEF Seen, Into, Issuers, Resets
  <1> QED BY <1>11, <1>19

(* A careful step of one request that ends well keeps the invariant. *)
LEMMA StandingStep ==
    ASSUME SInv, Inv', NEW w \in Worker, NEW q, tr' = [tr EXCEPT ![w] = q], Careful(w),
           Prepared(tr[w])', \A s \in Session : Sound(s)',
           \A s \in Session : s > issued' => sessions'[s] = NoSession
    PROVE  SInv'
  <1>1. \A v \in Worker \ {w} : tr'[v] = tr[v]
    BY DEF SInv, Inv, Typed, TypeOK
  <1>2. \A v \in Worker : Prepared(tr[v])'
    BY <1>1, OthersPrepared
  <1> QED BY <1>2 DEF SInv, Standing

(* A step that only moves one request. *)
LEMMA StandingMoved ==
    ASSUME SInv, Inv', NEW w \in Worker, NEW q, Goto(w, q),
           Remembers(q), q.pc = "staged" => Keys(q.held, q) /\ Seen(q)
    PROVE  SInv'
  <1>1. UNCHANGED <<users, tenant, terminal, sessions, issued>> /\ tr' = [tr EXCEPT ![w] = q]
    BY DEF Goto, accountVars
  <1>2. Careful(w)
    BY <1>1 DEF Careful
  <1>3. tr'[w] = q
    BY <1>1 DEF SInv, Inv, Typed, TypeOK
  <1>4. Remembers(tr[w])'
    BY <1>1, <1>3 DEF Remembers, Live, Is
  <1>5. q.pc = "staged" => Seen(tr[w])'
    <2>1. SUFFICES ASSUME Seen(q) PROVE Seen(tr[w])'
      OBVIOUS
    <2>2. /\ \A u : Active(u)' = Active(u) /\ LiveOf(u)' = LiveOf(u)
          /\ \A s : Live(s)' = Live(s)
          /\ LiveInTenant' = LiveInTenant /\ LiveBound' = LiveBound
      BY <1>1 DEF Active, Present, LiveOf, LiveInTenant, LiveBound, Live, Is
    <2>3. (q.kind \in {"upgrade", "switch"} => StillReplaceable(tr[w])')
      BY <1>1, <1>3, <2>1 DEF Seen, StillReplaceable, Live, Is
    <2>4. UpdatedUser(tr[w])' = UpdatedUser(q)
      BY <1>1, <1>3 DEF UpdatedUser
    <2> QED BY <1>1, <1>3, <2>1, <2>2, <2>3, <2>4 DEF Seen, Into, Resets
  <1>6. q.pc = "staged" => Keys(tr[w].held, tr[w])'
    BY <1>3 DEF Keys, Into, UserLock, Share, Update, Issuers, Revokers
  <1>7. Prepared(tr[w])'
    BY <1>3, <1>4, <1>5, <1>6 DEF Prepared
  <1>8. \A s \in Session : Sound(s)' /\ (s > issued' => sessions'[s] = NoSession)
    BY <1>1 DEF SInv, Standing, Sound, Live, Is, Active, Present
  <1> QED BY <1>1, <1>2, <1>7, <1>8, StandingStep

(* A refused request has nothing to remember. *)
LEMMA StandingRefused ==
    ASSUME SInv, Inv', NEW w \in Worker, Goto(w, Idle)
    PROVE  SInv'
  <1>1. Remembers(Idle) /\ Idle.pc # "staged"
    BY DEF Remembers, Idle, OfSession
  <1> QED BY <1>1, StandingMoved

(* A request that is validated under its locks has seen what it relies on. *)
LEMMA StandingEntered ==
    ASSUME SInv, Inv', NEW w \in Worker, NEW kind, NEW locks, NEW admitted,
           NEW q \in Request, Enter(w, kind, locks, admitted, q),
           Remembers(q), Keys(locks, q), admitted => Seen(q)
    PROVE  SInv'
  <1> DEFINE staged == [q EXCEPT !.pc = "staged", !.held = locks]
  <1>1. CASE Refuse(w)
    BY <1>1, StandingRefused DEF Refuse
  <1>2. CASE admitted /\ Goto(w, staged)
    <2>1. /\ staged.pc = "staged" /\ staged.held = locks
          /\ staged.kind = q.kind /\ staged.user = q.user /\ staged.whom = q.whom
          /\ staged.goal = q.goal /\ staged.role = q.role
          /\ staged.standing = q.standing /\ staged.session = q.session
      BY DEF Request
    <2>2. /\ staged.context = q.context /\ staged.bound = q.bound
          /\ staged.secret = q.secret /\ staged.revoked = q.revoked
      BY DEF Request
    <2>3. Goto(w, staged)
      BY <1>2
    <2> HIDE DEF staged
    <2>4. Remembers(staged)
      BY <2>1, <2>2 DEF Remembers
    <2>5. Keys(staged.held, staged)
      BY <2>1, <2>2 DEF Keys, Into
    <2>6. Seen(staged)
      BY <1>2, <2>1, <2>2 DEF Seen, Into, StillReplaceable, UpdatedUser, Resets
    <2> QED BY <2>3, <2>4, <2>5, <2>6, StandingMoved
  <1> QED BY <1>1, <1>2 DEF Enter

(* The handlers that only read (Ask...) remember what they have read. *)
LEMMA StandingAsk ==
    ASSUME SInv, Inv', NEW w \in Worker, Ask(w)
    PROVE  SInv'
  <1>0. \A s \in Session : Sound(s)
    BY DEF SInv, Standing
  <1>1. ASSUME NEW s \in Session, AskUpgrade(w, s) PROVE SInv'
    <2> DEFINE q == [Principal("upgrade", s) EXCEPT !.goal = sessions[s].context]
    <2>1. /\ q.kind = "upgrade" /\ q.session = s /\ q.user = sessions[s].user
          /\ q.context = sessions[s].context /\ q.bound = sessions[s].bound
          /\ q.goal = sessions[s].context /\ q.pc = "asked"
      BY DEF Principal, Idle
    <2>2. Goto(w, q) /\ Live(s)
      BY <1>1 DEF AskUpgrade, Authenticated
    <2> HIDE DEF q
    <2>3. Remembers(q)
      BY <1>0, <2>1, <2>2 DEF Remembers, Sound
    <2> QED BY <2>1, <2>2, <2>3, StandingMoved
  <1>2. ASSUME NEW s \in Session, AskLogout(w, s) PROVE SInv'
    <2> DEFINE q == Principal("logout", s)
    <2>1. /\ q.kind = "logout" /\ q.session = s /\ q.user = sessions[s].user
          /\ q.context = sessions[s].context /\ q.pc = "asked"
      BY DEF Principal, Idle
    <2>2. Goto(w, q)
      BY <1>2 DEF AskLogout
    <2> HIDE DEF q
    <2>3. Remembers(q)
      BY <2>1 DEF Remembers
    <2> QED BY <2>1, <2>2, <2>3, StandingMoved
  <1>3. ASSUME NEW s \in Session, AskOwnPassword(w, s) PROVE SInv'
    <2> DEFINE q == [Principal("own", s) EXCEPT
                        !.secret = users[sessions[s].user].secret]
    <2>1. /\ q.kind = "own" /\ q.session = s /\ q.user = sessions[s].user
          /\ q.context = sessions[s].context /\ q.pc = "asked"
          /\ q.secret = users[sessions[s].user].secret
      BY DEF Principal, Idle
    <2>2. Goto(w, q)
      BY <1>3 DEF AskOwnPassword
    <2> HIDE DEF q
    <2>3. Remembers(q)
      BY <2>1 DEF Remembers
    <2> QED BY <2>1, <2>2, <2>3, StandingMoved
  <1>4. ASSUME NEW s \in Session, NEW kind \in {"switch", "status", "terminal"}, NEW g,
               Goto(w, [Principal(kind, s) EXCEPT !.goal = g]),
               kind = "terminal" => sessions[s].context = "tenant"
        PROVE  SInv'
    <2> DEFINE q == [Principal(kind, s) EXCEPT !.goal = g]
    <2>1. /\ q.kind = kind /\ q.session = s /\ q.user = sessions[s].user
          /\ q.context = sessions[s].context /\ q.pc = "asked"
      BY DEF Principal, Idle
    <2>2. Goto(w, q)
      BY <1>4
    <2> HIDE DEF q
    <2>3. Remembers(q)
      BY <1>4, <2>1 DEF Remembers
    <2> QED BY <2>1, <2>2, <2>3, StandingMoved
  <1>5. ASSUME NEW s \in Session, AskManage(w, s) PROVE SInv'
    <2>1. ASSUME NEW kind \in {"create", "update", "reset"}, NEW u, NEW x,
                 \/ Goto(w, [Principal(kind, s) EXCEPT !.whom = u, !.role = x])
                 \/ Goto(w, [Principal(kind, s) EXCEPT !.whom = u, !.standing = x])
                 \/ Goto(w, [Principal(kind, s) EXCEPT !.whom = u])
          PROVE  SInv'
      <3> DEFINE a == [Principal(kind, s) EXCEPT !.whom = u, !.role = x]
                 b == [Principal(kind, s) EXCEPT !.whom = u, !.standing = x]
                 d == [Principal(kind, s) EXCEPT !.whom = u]
                 here(q) == /\ q.kind = kind /\ q.session = s
                            /\ q.user = sessions[s].user
                            /\ q.context = sessions[s].context /\ q.pc = "asked"
      <3>a. here(a)
        BY DEF Principal, Idle
      <3>b. here(b)
        BY DEF Principal, Idle
      <3>d. here(d)
        BY DEF Principal, Idle
      <3>2. PICK q \in {a, b, d} : Goto(w, q)
        BY <2>1
      <3> HIDE DEF a, b, d
      <3>1. here(q)
        BY <3>a, <3>b, <3>d
      <3>3. Remembers(q)
        BY <2>1, <3>1 DEF Remembers
      <3> QED BY <3>1, <3>2, <3>3, StandingMoved
    <2> QED BY <1>5, <2>1 DEF AskManage
  <1>6. ASSUME NEW u, NEW c, AskLogin(w, u, c) PROVE SInv'
    <2>1. PICK bound \in {FALSE, c = "tenant" /\ terminal = "active"} :
             Goto(w, [Idle EXCEPT !.pc = "asked", !.kind = "login", !.user = u,
                                  !.context = c, !.bound = bound,
                                  !.secret = users[u].secret,
                                  !.encoding = users[u].encoding])
      BY <1>6 DEF AskLogin
    <2> DEFINE q == [Idle EXCEPT !.pc = "asked", !.kind = "login", !.user = u,
                                 !.context = c, !.bound = bound,
                                 !.secret = users[u].secret,
                                 !.encoding = users[u].encoding]
    <2>2. q.kind = "login" /\ q.pc = "asked" /\ q.context = c /\ q.bound = bound
      BY DEF Idle
    <2>3. Goto(w, q) /\ (bound => c = "tenant")
      BY <2>1
    <2> HIDE DEF q
    <2>4. Remembers(q)
      BY <2>2, <2>3 DEF Remembers, OfSession
    <2> QED BY <2>2, <2>3, <2>4, StandingMoved
  <1>7. ASSUME NEW u, NEW g, AskOperator(w, u, g) \/ AskFirstSuperadmin(w, u) PROVE SInv'
    <2> DEFINE a == [Idle EXCEPT !.pc = "asked", !.kind = "operator", !.whom = u, !.goal = g]
               b == [Idle EXCEPT !.pc = "asked", !.kind = "first", !.whom = u]
    <2>1. \A q \in {a, b} : q.kind \in {"operator", "first"} /\ q.pc = "asked"
      BY DEF Idle
    <2>2. PICK q \in {a, b} : Goto(w, q)
      BY <1>7 DEF AskOperator, AskFirstSuperadmin
    <2> HIDE DEF a, b
    <2>3. Remembers(q)
      BY <2>1 DEF Remembers, OfSession
    <2> QED BY <2>1, <2>2, <2>3, StandingMoved
  <1> QED
    BY <1>1, <1>2, <1>3, <1>4, <1>5, <1>6, <1>7
    DEF Ask, AskSwitchContext, AskTenantStatus, AskTerminal

-----------------------------------------------------------------------------
(* --- Taking the locks --------------------------------------------------- *)
(* A login, verified once more or not, takes its locks. *)
LEMMA StandingLogin ==
    ASSUME SInv, Inv', NEW w \in Worker, LockLogin(w) \/ Again(w)
    PROVE  SInv'
  <1> DEFINE q == tr[w]
  <1>0. /\ q \in Request /\ Shape(q) /\ Remembers(q) /\ q.kind = "login"
        /\ q.pc # "staged"
    BY DEF SInv, Standing, Prepared, Inv, Typed, TypeOK, Shapes, LockLogin, Again, At
  <1>1. CASE Again(w)
    <2> DEFINE next == [q EXCEPT !.pc = "asked", !.retried = TRUE,
                                 !.encoding = users[q.user].encoding]
    <2>1. /\ next.pc = "asked" /\ next.kind = "login" /\ next.bound = q.bound
          /\ next.context = q.context
      BY <1>0 DEF Request
    <2>2. Goto(w, next) \/ Goto(w, Idle)
      BY <1>1 DEF Again, Refuse
    <2> HIDE DEF next
    <2>3. Remembers(next)
      BY <1>0, <2>1 DEF Remembers, OfSession
    <2> QED BY <2>1, <2>2, <2>3, StandingMoved, StandingRefused
  <1>2. CASE LockLogin(w)
    <2> DEFINE next == [q EXCEPT !.pc = "again"]
               admitted == Active(q.user) /\ SameHash(q) /\ EntersTenant(q)
    <2>1. /\ next.pc = "again" /\ next.kind = "login" /\ next.bound = q.bound
          /\ next.context = q.context
      BY <1>0 DEF Request
    <2>2. \/ Goto(w, next) \/ Goto(w, Idle)
          \/ admitted /\ Enter(w, "login", LoginLocks(q), TRUE, q)
      BY <1>2 DEF LockLogin, Refuse, Enter
    <2> HIDE DEF next
    <2>3. Remembers(next)
      BY <1>0, <2>1 DEF Remembers, OfSession
    <2>4. Keys(LoginLocks(q), q)
      BY <1>0 DEF Keys, LoginLocks, TerminalShare, Into, Issuers, Revokers, Remembers
    <2>5. admitted => Seen(q)
      BY <1>0 DEF Seen, SameHash, EntersTenant, Into, Resets, Remembers
    <2> QED BY <1>0, <2>1, <2>2, <2>3, <2>4, <2>5, StandingMoved, StandingRefused,
               StandingEntered
  <1> QED BY <1>1, <1>2

(* An upgrade and a switch of context lock the session they replace. *)
LEMMA StandingExchange ==
    ASSUME SInv, Inv', NEW w \in Worker, LockUpgrade(w) \/ LockSwitchContext(w)
    PROVE  SInv'
  <1> DEFINE q == tr[w]
  <1>0. /\ q \in Request /\ Shape(q) /\ Remembers(q)
        /\ q.kind \in {"upgrade", "switch"} /\ q.goal \in {"account", "tenant"}
    BY DEF SInv, Standing, Prepared, Inv, Typed, TypeOK, Shapes, Shape,
           LockUpgrade, LockSwitchContext, Enter, At
  <1>a. \A s : Update(<<"session", s>>) \in SessionLocks({s})
    BY DEF SessionLocks, UpdateAll
  <1>1. CASE LockUpgrade(w)
    <2> DEFINE locks == {Share(UserLock(q.user))} \cup SessionLocks({q.session}) \cup
                           (IF q.context = "tenant" THEN IdentityLocks(q) ELSE {})
               admitted == IF q.context = "tenant" THEN IdentityHolds(q)
                           ELSE Active(q.user) /\ Live(q.session)
    <2>1. Enter(w, "upgrade", locks, admitted, q) /\ q.kind = "upgrade"
      BY <1>1 DEF LockUpgrade, Enter, At
    <2>2. q.context = "tenant" =>
             /\ Share(<<"tenant">>) \in IdentityLocks(q)
             /\ q.bound => Share(<<"terminal">>) \in IdentityLocks(q)
      BY DEF IdentityLocks, ShareAll, TerminalShare
    <2>3. Keys(locks, q)
      BY <1>0, <1>a, <2>1, <2>2 DEF Keys, Into, Issuers, Revokers, Remembers
    <2>4. admitted => Seen(q)
      BY <1>0, <2>1 DEF Seen, IdentityHolds, Ready, Into, Resets, Remembers,
         StillReplaceable, Live, Is
    <2> HIDE DEF locks, admitted
    <2> QED BY <1>0, <2>1, <2>3, <2>4, StandingEntered
  <1>2. CASE LockSwitchContext(w)
    <2> DEFINE admitted == /\ Ready(q.user) /\ StillReplaceable(q)
                           /\ q.goal = "tenant" => tenant = "active"
    <2>1. PICK bound \in {FALSE, BoundTo(q)} :
             Enter(w, "switch", SwitchLocks(q, bound), admitted, [q EXCEPT !.bound = bound])
      BY <1>2 DEF LockSwitchContext
    <2> DEFINE r == [q EXCEPT !.bound = bound]
    <2>2. bound \in BOOLEAN /\ (bound => q.goal = "tenant" /\ terminal = "active")
      BY DEF BoundTo
    <2>3. q.kind = "switch"
      BY <1>2 DEF LockSwitchContext, Enter, At
    <2>4. /\ r \in Request /\ r.kind = "switch" /\ r.user = q.user
          /\ r.session = q.session /\ r.goal = q.goal
      BY <1>0, <2>2, <2>3 DEF Request
    <2>5. r.context = q.context /\ r.bound = bound
      BY <1>0, <2>2, <2>3 DEF Request
    <2> HIDE DEF r
    <2>6. Remembers(r)
      BY <1>0, <2>3, <2>4, <2>5 DEF Remembers
    <2>7. Keys(SwitchLocks(q, bound), r)
      BY <1>a, <2>2, <2>4, <2>5 DEF Keys, Into, Issuers, Revokers, SwitchLocks, TerminalShare
    <2>8. admitted => Seen(r)
      BY <2>2, <2>4, <2>5 DEF Seen, Into, Resets, Ready, StillReplaceable
    <2> HIDE DEF admitted
    <2>9. Enter(w, "switch", SwitchLocks(q, bound), admitted, r)
      BY <2>1 DEF r
    <2> QED BY <2>4, <2>6, <2>7, <2>8, <2>9, StandingEntered
  <1> QED BY <1>1, <1>2

(* A change of the own password locks the account and all its sessions. *)
LEMMA StandingOwn ==
    ASSUME SInv, Inv', NEW w \in Worker, LockOwnPassword(w)
    PROVE  SInv'
  <1> DEFINE q == tr[w]
             others == LiveOf(q.user) \ {q.session}
             r == [q EXCEPT !.revoked = others]
             locks == {Share(<<"organization">>), Update(UserLock(q.user))}
                         \cup SessionLocks(others \cup {q.session})
                         \cup (IF q.context = "tenant" THEN {Share(<<"tenant">>)} ELSE {})
             admitted == OwnPasswordAllowed(q) /\ users[q.user].secret < MaxSecret
  <1>1. q \in Request /\ Remembers(q) /\ q.kind = "own" /\ others \in SUBSET Session
    BY LiveTypes DEF SInv, Standing, Prepared, Inv, Typed, TypeOK, LockOwnPassword, Enter, At
  <1>2. Enter(w, "own", locks, admitted, r)
    BY DEF LockOwnPassword
  <1>3. /\ Update(UserLock(q.user)) \in locks
        /\ \A s \in others \cup {q.session} : Update(<<"session", s>>) \in locks
    BY DEF SessionLocks, UpdateAll
  <1>4. admitted => Live(q.session) /\ LiveOf(q.user) \subseteq others \cup {q.session}
    BY DEF OwnPasswordAllowed
  <1> HIDE DEF others, locks, admitted
  <1>5. /\ r \in Request /\ r.kind = "own" /\ r.user = q.user
        /\ r.session = q.session /\ r.revoked = others
    BY <1>1 DEF Request
  <1>6. r.context = q.context /\ r.secret = q.secret
    BY <1>1 DEF Request
  <1> HIDE DEF r
  <1>7. Remembers(r)
    BY <1>1, <1>5, <1>6 DEF Remembers
  <1>8. Keys(locks, r)
    BY <1>3, <1>5 DEF Keys, Issuers
  <1>9. admitted => Seen(r)
    BY <1>4, <1>5 DEF Seen, Issuers, Resets
  <1> QED BY <1>2, <1>5, <1>7, <1>8, <1>9, StandingEntered

(* A request about an account locks the sessions that it will revoke. *)
LEMMA StandingAccount ==
    ASSUME SInv, Inv', NEW w \in Worker,
           \/ LockCreate(w) \/ LockUpdate(w) \/ LockReset(w)
           \/ LockOperator(w) \/ LockFirstSuperadmin(w)
    PROVE  SInv'
  <1> DEFINE q == tr[w]
  <1>0. q \in Request /\ Remembers(q)
    BY DEF SInv, Standing, Prepared, Inv, Typed, TypeOK
  <1>1. LiveOf(q.whom) \in SUBSET Session
    BY LiveTypes
  <1>2. \A s \in LiveOf(q.whom) :
           Update(<<"session", s>>) \in ManageLocks(q) \cap OperatorLocks(q)
    BY DEF ManageLocks, OperatorLocks, SessionLocks, UpdateAll
  <1>3. CASE LockCreate(w) \/ LockFirstSuperadmin(w)
    <2>1. PICK kind \in {"create", "first"} : \E locks, admitted :
             q.kind = kind /\ Enter(w, kind, locks, admitted, q)
      BY <1>3 DEF LockCreate, LockFirstSuperadmin, Enter, At
    <2>2. (\A locks : Keys(locks, q)) /\ Seen(q)
      BY <2>1 DEF Keys, Seen, Issuers, Revokers, Resets
    <2> QED BY <1>0, <2>1, <2>2, StandingEntered
  <1>4. ASSUME NEW role \in {"keep"} \cup Role, NEW gone \in SUBSET LiveOf(q.whom),
               NEW r, r = [q EXCEPT !.role = role, !.revoked = gone],
               NEW locks \in {ManageLocks(q), OperatorLocks(q)}, NEW admitted,
               Enter(w, q.kind, locks, admitted, r),
               q.kind \in {"update", "reset", "operator"},
               admitted /\ q.kind = "update" =>
                  UpdatedUser(r) = users[q.whom] \/ gone = LiveOf(q.whom),
               Resets(q) => gone = LiveOf(q.whom)
        PROVE  SInv'
    <2> DEFINE a == [q EXCEPT !.role = role]
    <2>1. a \in Request
      BY <1>0 DEF Request
    <2>2. /\ a.kind = q.kind /\ a.session = q.session /\ a.user = q.user
          /\ a.context = q.context /\ a.whom = q.whom /\ a.goal = q.goal
      BY <1>0 DEF Request
    <2>3. r = [a EXCEPT !.revoked = gone]
      BY <1>0, <1>4 DEF Request
    <2> HIDE DEF a
    <2>4. r \in Request /\ r.revoked = gone
      BY <1>1, <1>4, <2>1, <2>3 DEF Request
    <2>5. /\ r.kind = a.kind /\ r.session = a.session /\ r.user = a.user
          /\ r.context = a.context /\ r.whom = a.whom /\ r.goal = a.goal
      BY <2>1, <2>3 DEF Request
    <2>6. Remembers(r)
      BY <1>0, <1>4, <2>2, <2>5 DEF Remembers
    <2>7. Keys(locks, r)
      BY <1>2, <1>4, <2>2, <2>4, <2>5 DEF Keys, Issuers
    <2>8. admitted => Seen(r)
      BY <1>4, <2>2, <2>4, <2>5 DEF Seen, Issuers, Resets
    <2> QED BY <1>4, <2>4, <2>6, <2>7, <2>8, StandingEntered
  <1>a. q.role \in {"keep"} \cup Role /\ q = [q EXCEPT !.role = q.role]
    BY <1>0 DEF Request
  <1>5. CASE LockUpdate(w)
    <2> DEFINE gone == IF UpdatedUser(q) = users[q.whom] THEN {} ELSE LiveOf(q.whom)
               r == [q EXCEPT !.revoked = gone]
    <2>1. q.kind = "update" /\ Enter(w, q.kind, ManageLocks(q), Authority(q) /\ UpdateAllowed(q), r)
      BY <1>5 DEF LockUpdate, Enter, At
    <2>2. gone \in SUBSET LiveOf(q.whom)
      OBVIOUS
    <2>3. UpdatedUser(q) = users[q.whom] \/ gone = LiveOf(q.whom)
      OBVIOUS
    <2> HIDE DEF gone
    <2>4. r.whom = q.whom /\ r.role = q.role /\ r.standing = q.standing
      BY <1>0 DEF Request
    <2>5. r = [q EXCEPT !.role = q.role, !.revoked = gone]
      BY <1>0 DEF Request
    <2> HIDE DEF r
    <2>6. UpdatedUser(r) = UpdatedUser(q)
      BY <2>4 DEF UpdatedUser
    <2> QED BY <1>4, <1>a, <2>1, <2>2, <2>3, <2>5, <2>6 DEF Resets
  <1>6. CASE LockReset(w)
    <2> DEFINE r == [q EXCEPT !.revoked = LiveOf(q.whom)]
    <2>1. /\ q.kind = "reset"
          /\ Enter(w, q.kind, ManageLocks(q),
                   Authority(q) /\ users[q.whom].secret < MaxSecret, r)
      BY <1>6 DEF LockReset, Enter, At
    <2>2. r = [q EXCEPT !.role = q.role, !.revoked = LiveOf(q.whom)]
      BY <1>0 DEF Request
    <2> HIDE DEF r
    <2> QED BY <1>4, <1>a, <2>1, <2>2
  <1>7. CASE LockOperator(w)
    <2> DEFINE role == GivenRole(q.goal)
               gone == IF Given(role, users[q.whom].role) # users[q.whom].role
                             \/ q.goal = "reset"
                       THEN LiveOf(q.whom) ELSE {}
               r == [q EXCEPT !.role = role, !.revoked = gone]
    <2>1. /\ q.kind = "operator"
          /\ Enter(w, q.kind, OperatorLocks(q), OperatorAllowed(q), r)
      BY <1>7 DEF LockOperator, Enter, At
    <2>2. role \in {"keep"} \cup Role
      BY DEF GivenRole, Role
    <2>3. gone \in SUBSET LiveOf(q.whom) /\ (q.goal = "reset" => gone = LiveOf(q.whom))
      OBVIOUS
    <2> HIDE DEF gone, role
    <2> QED BY <1>4, <2>1, <2>2, <2>3 DEF Resets
  <1> QED BY <1>3, <1>5, <1>6, <1>7

(* A request about the tenant or its terminal does so, too. *)
LEMMA StandingTenant ==
    ASSUME SInv, Inv', NEW w \in Worker, LockTenantStatus(w) \/ LockTerminal(w)
    PROVE  SInv'
  <1> DEFINE q == tr[w]
  <1>0. q \in Request /\ Shape(q) /\ Remembers(q)
    BY DEF SInv, Standing, Prepared, Inv, Typed, TypeOK, Shapes
  <1>1. ASSUME NEW gone \in SUBSET Session, NEW locks, NEW admitted,
               Enter(w, q.kind, locks, admitted, [q EXCEPT !.revoked = gone]),
               q.kind \in {"status", "terminal"},
               \A s \in gone : Update(<<"session", s>>) \in locks,
               q.kind = "status" => Update(<<"tenant">>) \in locks,
               q.kind = "terminal" =>
                  /\ Update(<<"terminal">>) \in locks
                  /\ q.goal = "enrolled" => Update(<<"session", q.session>>) \in locks,
               q.kind = "status" /\ q.goal = "suspended" => LiveInTenant \subseteq gone,
               q.kind = "terminal" /\ q.goal = "revoked" => LiveBound \subseteq gone
        PROVE  SInv'
    <2> DEFINE r == [q EXCEPT !.revoked = gone]
    <2>1. r \in Request /\ r.revoked = gone
      BY <1>0, <1>1 DEF Request
    <2>2. /\ r.kind = q.kind /\ r.session = q.session /\ r.user = q.user
          /\ r.context = q.context /\ r.goal = q.goal
      BY <1>0 DEF Request
    <2>3. Enter(w, q.kind, locks, admitted, r)
      BY <1>1
    <2> HIDE DEF r
    <2>4. Remembers(r)
      BY <1>0, <1>1, <2>2 DEF Remembers
    <2>5. Keys(locks, r)
      BY <1>1, <2>1, <2>2 DEF Keys, Issuers
    <2>6. Seen(r)
      BY <1>1, <2>1, <2>2 DEF Seen, Issuers, Resets
    <2> QED BY <2>1, <2>3, <2>4, <2>5, <2>6, StandingEntered
  <1>2. CASE LockTenantStatus(w)
    <2> DEFINE ended == IF q.goal = "suspended" THEN LiveInTenant ELSE {}
               locks == StatusLocks(q, ended)
    <2>1. /\ q.kind = "status"
          /\ Enter(w, q.kind, locks, Authority(q), [q EXCEPT !.revoked = ended])
      BY <1>2 DEF LockTenantStatus, Enter, At
    <2>2. /\ ended \in SUBSET Session
          /\ q.goal = "suspended" => LiveInTenant \subseteq ended
      BY LiveTypes
    <2> HIDE DEF ended
    <2>3. /\ Update(<<"tenant">>) \in locks
          /\ \A s \in ended : Update(<<"session", s>>) \in locks
      BY DEF StatusLocks, SessionLocks, UpdateAll
    <2> HIDE DEF locks
    <2> QED BY <1>1, <2>1, <2>2, <2>3
  <1>3. CASE LockTerminal(w)
    <2> DEFINE changed == IF q.goal = "enrolled" THEN {q.session} ELSE LiveBound
               gone == IF q.goal = "enrolled" THEN {} ELSE changed
               locks == LifecycleLocks(q, changed)
               admitted == /\ LifecycleHolds(q)
                           /\ IF q.goal = "enrolled" THEN terminal # "revoked"
                              ELSE terminal = "active"
    <2>1. /\ q.kind = "terminal"
          /\ Enter(w, q.kind, locks, admitted, [q EXCEPT !.revoked = gone])
      BY <1>3 DEF LockTerminal, Enter, At
    <2>2. /\ gone \in SUBSET Session /\ gone \subseteq changed
          /\ q.goal = "enrolled" => q.session \in changed
          /\ q.goal # "enrolled" => LiveBound \subseteq gone
      BY LiveTypes
    <2> HIDE DEF changed, gone, admitted
    <2>3. /\ Update(<<"terminal">>) \in locks
          /\ \A s \in changed : Update(<<"session", s>>) \in locks
      BY DEF LifecycleLocks, SessionLocks, UpdateAll
    <2> HIDE DEF locks
    <2> QED BY <1>1, <2>1, <2>2, <2>3
  <1> QED BY <1>2, <1>3

-----------------------------------------------------------------------------
(* --- The commits -------------------------------------------------------- *)
(* What a request that commits has locked and seen. *)
LEMMA Committing ==
    ASSUME SInv, NEW w \in Worker
    PROVE  /\ Typed /\ TypeOK /\ tr[w] \in Request /\ Shape(tr[w]) /\ Remembers(tr[w])
           /\ tr[w].pc = "staged" =>
                 /\ Keys(tr[w].held, tr[w]) /\ Seen(tr[w])
                 /\ Covers(tr[w].held, tr[w]) /\ Rightful(tr[w])
           /\ \A s \in Session : Sound(s) /\ (s > issued => sessions[s] = NoSession)
  BY DEF SInv, Standing, Prepared, Inv, Typed, TypeOK, Shapes, Serial, Covered, Decided

(* Of the sessions that are revoked, none is live any more; the others stay. *)
LEMMA RevokedRows ==
    ASSUME SInv, NEW w \in Worker, NEW gone \in SUBSET Session, NEW reason \in Revocation,
           sessions' = Revoked(gone, reason),
           \A s \in gone : Free(w, <<"session", s>>)
    PROVE  \A s \in Session :
              /\ sessions'[s] = sessions[s] \/ Changed(w, s)
              /\ Live(s)' => Live(s) /\ s \notin gone /\ sessions'[s] = sessions[s]
              /\ sessions[s] = NoSession => sessions'[s] = NoSession
  <1> SUFFICES ASSUME NEW s \in Session
               PROVE  /\ sessions'[s] = sessions[s] \/ Changed(w, s)
                      /\ Live(s)' => Live(s) /\ s \notin gone /\ sessions'[s] = sessions[s]
                      /\ sessions[s] = NoSession => sessions'[s] = NoSession
    OBVIOUS
  <1>1. CASE s \in gone /\ Live(s)
    <2>1. sessions'[s] = Spent(sessions[s], reason) /\ sessions[s] # NoSession
      BY <1>1 DEF Revoked, Live, Is
    <2>2. sessions'[s].user = sessions[s].user /\ sessions'[s].state = reason
      BY <2>1 DEF Spent
    <2>3. ~Live(s)'
      BY <2>2 DEF Live, Is, Revocation
    <2> QED BY <1>1, <2>1, <2>2, <2>3 DEF Changed
  <1>2. CASE ~(s \in gone /\ Live(s))
    <2>1. sessions'[s] = sessions[s]
      BY <1>2 DEF Revoked
    <2> QED BY <1>2, <2>1 DEF Live, Is
  <1> QED BY <1>1, <1>2

(* A worker that is idle is prepared, and one that only re-encodes. *)
LEMMA QuietPrepared ==
    ASSUME SInv, NEW w \in Worker, NEW q, tr' = [tr EXCEPT ![w] = q],
           q.kind \in {"none", "rehash"}, q.pc # "staged"
    PROVE  Prepared(tr[w])'
  <1>1. tr'[w] = q
    BY DEF SInv, Inv, Typed, TypeOK
  <1> QED BY <1>1 DEF Prepared, Remembers, OfSession

(* A commit that writes no session but to end it. *)
LEMMA Ending ==
    ASSUME SInv, Inv', NEW w \in Worker, Done(w), Careful(w), issued' = issued,
           \A s \in Session :
              /\ Sound(s)'
              /\ sessions[s] = NoSession => sessions'[s] = NoSession
    PROVE  SInv'
  <1>1. Prepared(tr[w])' /\ tr' = [tr EXCEPT ![w] = Idle]
    <2>1. Idle.kind = "none" /\ Idle.pc # "staged"
      BY DEF Idle
    <2> QED BY <2>1, QuietPrepared DEF Done
  <1>2. \A s \in Session : s > issued' => sessions'[s] = NoSession
    BY DEF SInv, Standing
  <1> QED BY <1>1, <1>2, StandingStep

(* The status of the tenant: a suspension ends every session inside it. *)
LEMMA StatusStanding ==
    ASSUME SInv, Inv', NEW w \in Worker, CommitTenantStatus(w)
    PROVE  SInv'
  <1> DEFINE q == tr[w]
  <1>0. /\ q \in Request /\ q.kind = "status" /\ Keys(q.held, q) /\ Seen(q)
        /\ q.goal \in {"active", "suspended"} /\ \A s \in Session : Sound(s)
    BY Committing DEF CommitTenantStatus, At, Shape
  <1>1. /\ tenant' = q.goal /\ sessions' = Revoked(q.revoked, "tenant_suspended")
        /\ Done(w) /\ UNCHANGED <<users, terminal, issued>>
    BY DEF CommitTenantStatus
  <1>2. /\ q.revoked \in SUBSET Session /\ "tenant_suspended" \in Revocation
        /\ Free(w, <<"tenant">>) /\ \A s \in q.revoked : Free(w, <<"session", s>>)
    BY <1>0, HeldAlone DEF SInv, Keys, Revokers, Request, Revocation
  <1>3. \A s \in Session :
           /\ sessions'[s] = sessions[s] \/ Changed(w, s)
           /\ Live(s)' => Live(s) /\ s \notin q.revoked /\ sessions'[s] = sessions[s]
           /\ sessions[s] = NoSession => sessions'[s] = NoSession
    BY <1>1, <1>2, RevokedRows
  <1>4. Careful(w)
    BY <1>1, <1>2, <1>3 DEF Careful
  <1>5. \A s \in Session : Sound(s)'
    BY <1>0, <1>1, <1>3 DEF Sound, Seen, LiveInTenant, Active, Present
  <1> QED BY <1>1, <1>3, <1>4, <1>5, Ending

(* The revocation of the terminal ends every session bound to it. *)
LEMMA RevokeStanding ==
    ASSUME SInv, Inv', NEW w \in Worker, CommitRevokeTerminal(w)
    PROVE  SInv'
  <1> DEFINE q == tr[w]
  <1>0. /\ q \in Request /\ q.kind = "terminal" /\ q.goal = "revoked"
        /\ Keys(q.held, q) /\ Seen(q) /\ \A s \in Session : Sound(s)
    BY Committing DEF CommitRevokeTerminal, At, Shape
  <1>1. /\ terminal' = "revoked" /\ sessions' = Revoked(q.revoked, "terminal_revoked")
        /\ Done(w) /\ UNCHANGED <<users, tenant, issued>>
    BY DEF CommitRevokeTerminal
  <1>2. /\ q.revoked \in SUBSET Session /\ "terminal_revoked" \in Revocation
        /\ Free(w, <<"terminal">>) /\ \A s \in q.revoked : Free(w, <<"session", s>>)
    BY <1>0, HeldAlone DEF SInv, Keys, Revokers, Request, Revocation
  <1>3. \A s \in Session :
           /\ sessions'[s] = sessions[s] \/ Changed(w, s)
           /\ Live(s)' => Live(s) /\ s \notin q.revoked /\ sessions'[s] = sessions[s]
           /\ sessions[s] = NoSession => sessions'[s] = NoSession
    BY <1>1, <1>2, RevokedRows
  <1>4. Careful(w)
    BY <1>1, <1>2, <1>3 DEF Careful
  <1>5. \A s \in Session : Sound(s)'
    BY <1>0, <1>1, <1>3 DEF Sound, Seen, LiveBound, Active, Present
  <1> QED BY <1>1, <1>3, <1>4, <1>5, Ending

(* An enrolment binds the session that asked for it. *)
LEMMA EnrollStanding ==
    ASSUME SInv, Inv', NEW w \in Worker, CommitEnroll(w)
    PROVE  SInv'
  <1> DEFINE q == tr[w]
  <1>0. /\ q \in Request /\ Shape(q) /\ q.kind = "terminal" /\ q.goal = "enrolled"
        /\ Keys(q.held, q) /\ Remembers(q) /\ TypeOK /\ \A x \in Session : Sound(x)
    BY Committing DEF CommitEnroll, At
  <1>s. PICK s \in Session : s = q.session /\ sessions[s] # NoSession
    BY <1>0 DEF Shape, OfSession
  <1> DEFINE row == [sessions[s] EXCEPT !.bound = TRUE]
  <1>1. /\ terminal' = "active" /\ sessions' = [sessions EXCEPT ![s].bound = TRUE]
        /\ Done(w) /\ UNCHANGED <<users, tenant, issued>>
    BY <1>s DEF CommitEnroll
  <1>2. Free(w, <<"terminal">>) /\ Free(w, <<"session", s>>)
    BY <1>0, <1>s, HeldAlone DEF SInv, Keys
  <1>3. sessions[s] # NoSession /\ sessions[s] \in SessionRow
    BY <1>0, <1>s, RowTypes
  <1>4. sessions'[s] = row /\ \A x \in Session \ {s} : sessions'[x] = sessions[x]
    BY <1>0, <1>1, <1>3 DEF TypeOK
  <1>5. /\ row.user = sessions[s].user /\ row.context = sessions[s].context
        /\ row.state = sessions[s].state
    BY <1>3 DEF SessionRow
  <1>6. row.secret = sessions[s].secret /\ row.recovered = sessions[s].recovered
    BY <1>3 DEF SessionRow
  <1> HIDE DEF row
  <1>7. Live(s)' => Live(s)
    BY <1>3, <1>4, <1>5 DEF Live, Is
  <1>8. Changed(w, s)
    BY <1>2, <1>4, <1>5, <1>7, FreeUnclaimed DEF Changed
  <1>9. Careful(w)
    BY <1>1, <1>2, <1>4, <1>8 DEF Careful
  <1>10. Sound(s)'
    <2>0. SUFFICES ASSUME Live(s)' PROVE Sound(s)'
      BY DEF Sound
    <2>1. Live(s) /\ Sound(s)
      BY <1>0, <1>7, <2>0
    <2>2. PICK u : u = sessions[s].user
      OBVIOUS
    <2>3. Active(u)' /\ terminal' = "active" /\ tenant' = tenant
      BY <1>1, <2>1, <2>2 DEF Sound, Active, Present
    <2>4. row.context = "tenant" /\ tenant' = "active"
      BY <1>0, <1>s, <1>5, <2>1, <2>3 DEF Remembers, OfSession, Sound
    <2>5. ~row.recovered => row.secret = users'[u].secret
      BY <1>1, <1>6, <2>1, <2>2 DEF Sound
    <2> QED BY <1>4, <1>5, <2>2, <2>3, <2>4, <2>5 DEF Sound
  <1>11. \A x \in Session \ {s} : Sound(x)'
    BY <1>0, <1>1, <1>4 DEF Sound, Live, Is, Active, Present
  <1> QED BY <1>1, <1>3, <1>4, <1>9, <1>10, <1>11, Ending

(* A logout ends one session. *)
LEMMA LogoutStanding ==
    ASSUME SInv, Inv', NEW w \in Worker, Logout(w)
    PROVE  SInv'
  <1> DEFINE s == tr[w].session
  <1>0. s \in Session /\ \A x \in Session : Sound(x)
    BY Committing DEF Logout, At, Shape, OfSession
  <1>1. /\ sessions' = Revoked({s}, "logout") /\ Done(w)
        /\ UNCHANGED <<users, tenant, terminal, issued>>
    BY DEF Logout
  <1>2. Free(w, <<"session", s>>) /\ "logout" \in Revocation
    <2>1. Update(<<"session", s>>) \in SessionLocks({s})
      BY DEF SessionLocks, UpdateAll
    <2> QED BY <2>1, GrantedAlone DEF Logout, Revocation
  <1>3. \A x \in Session :
           /\ sessions'[x] = sessions[x] \/ Changed(w, x)
           /\ Live(x)' => Live(x) /\ sessions'[x] = sessions[x]
           /\ sessions[x] = NoSession => sessions'[x] = NoSession
    <2> DEFINE gone == {s}
    <2>1. gone \in SUBSET Session /\ \A x \in gone : Free(w, <<"session", x>>)
      BY <1>0, <1>2
    <2> HIDE DEF gone
    <2>2. sessions' = Revoked(gone, "logout")
      BY <1>1 DEF gone
    <2> QED BY <1>2, <2>1, <2>2, RevokedRows
  <1>4. Careful(w)
    BY <1>1, <1>3 DEF Careful
  <1>5. \A x \in Session : Sound(x)'
    BY <1>0, <1>1, <1>3 DEF Sound, Active, Present
  <1> QED BY <1>1, <1>3, <1>4, <1>5, Ending

(* A row of users that is written under its lock: its sessions are ended,  *)
(* or they have no reason to be.                                           *)
LEMMA AccountStanding ==
    ASSUME SInv, Inv', NEW w \in Worker, NEW u \in User, NEW row, NEW gone,
           users' = [users EXCEPT ![u] = row], Free(w, UserLock(u)),
           UNCHANGED <<tenant, terminal, issued>>, Done(w),
           \A s \in Session :
              /\ sessions'[s] = sessions[s] \/ Changed(w, s)
              /\ Live(s)' => Live(s) /\ s \notin gone /\ sessions'[s] = sessions[s]
              /\ sessions[s] = NoSession => sessions'[s] = NoSession,
           \/ LiveOf(u) \subseteq gone
           \/ row = users[u]
           \/ /\ row # NoUser /\ row.standing = users[u].standing
              /\ row.secret = users[u].secret /\ row.by = users[u].by
    PROVE  SInv'
  <1>0. TypeOK /\ \A s \in Session : Sound(s)
    BY Committing
  <1>1. users'[u] = row /\ \A x \in User \ {u} : users'[x] = users[x]
    BY <1>0 DEF TypeOK
  <1>2. LiveOf(u) \subseteq gone => Replaced(u)
    BY DEF Replaced, LiveOf
  <1>3. Careful(w)
    BY <1>1, <1>2 DEF Careful
  <1>4. ASSUME NEW s \in Session, Live(s)' PROVE Sound(s)'
    <2>1. /\ Live(s) /\ s \notin gone /\ sessions'[s] = sessions[s] /\ Sound(s)
          /\ sessions[s].user \in User
      BY <1>0, <1>4, RowTypes DEF Live, SessionRow
    <2>2. sessions[s].user = u => s \in LiveOf(u)
      BY <2>1 DEF LiveOf
    <2>4. /\ users'[sessions[s].user] # NoUser
          /\ users'[sessions[s].user].standing = "active"
          /\ users'[sessions[s].user].secret = users[sessions[s].user].secret
      BY <1>1, <2>1, <2>2 DEF Sound, Active, Present
    <2> QED BY <2>1, <2>4 DEF Sound, Active, Present
  <1>5. \A s \in Session : Sound(s)'
    BY <1>4 DEF Sound
  <1> QED BY <1>3, <1>5, Ending

(* The commits about an account, and the re-encoding of a hash. *)
LEMMA AccountsStanding ==
    ASSUME SInv, Inv', NEW w \in Worker,
           \/ CommitCreate(w) \/ CommitUpdate(w) \/ CommitReset(w)
           \/ CommitOperator(w) \/ CommitFirstSuperadmin(w)
    PROVE  SInv'
  <1> DEFINE q == tr[w]
  <1>0. /\ q.pc = "staged" /\ q.kind \in OfAccount /\ q \in Request /\ TypeOK
        /\ Keys(q.held, q) /\ Seen(q) /\ Rightful(q) /\ Shape(q)
        /\ \A s \in Session : Sound(s)
    BY Committing DEF CommitCreate, CommitUpdate, CommitReset, CommitOperator,
       CommitFirstSuperadmin, At, OfAccount
  <1>1. PICK u \in User : u = q.whom
    BY <1>0 DEF Shape
  <1>2. Free(w, UserLock(u)) /\ Done(w) /\ UNCHANGED <<tenant, terminal, issued>>
    <2>1. Update(UserLock(u)) \in q.held
      BY <1>0, <1>1, Committing DEF Covers
    <2> QED BY <2>1, HeldAlone DEF SInv, CommitCreate, CommitUpdate, CommitReset,
               CommitOperator, CommitFirstSuperadmin
  <1>3. CASE CommitCreate(w) \/ CommitFirstSuperadmin(w)
    <2>1. /\ ~Present(u) /\ sessions' = sessions
          /\ \E row : users' = [users EXCEPT ![u] = row]
      BY <1>0, <1>1, <1>3 DEF CommitCreate, CommitFirstSuperadmin, At, Rightful
    <2>2. LiveOf(u) \subseteq {}
      BY <1>0, <2>1 DEF LiveOf, Sound, Active
    <2>3. \A s \in Session : Live(s)' => Live(s)
      BY <2>1 DEF Live, Is
    <2> DEFINE gone == {}
    <2>4. /\ LiveOf(u) \subseteq gone
          /\ \A s \in Session : s \notin gone
      BY <2>2
    <2> HIDE DEF gone
    <2> QED BY <1>2, <2>1, <2>3, <2>4, AccountStanding
  <1>4. ASSUME NEW reason \in Revocation, NEW row, q.kind \in Revokers,
               sessions' = Revoked(q.revoked, reason),
               users' = [users EXCEPT ![u] = row],
               \/ LiveOf(u) \subseteq q.revoked
               \/ row = users[u]
               \/ /\ row # NoUser /\ row.standing = users[u].standing
                  /\ row.secret = users[u].secret /\ row.by = users[u].by
        PROVE  SInv'
    <2>1. /\ q.revoked \in SUBSET Session
          /\ \A s \in q.revoked : Free(w, <<"session", s>>)
      BY <1>0, <1>4, HeldAlone DEF SInv, Keys, Request
    <2>2. \A s \in Session :
             /\ sessions'[s] = sessions[s] \/ Changed(w, s)
             /\ Live(s)' => Live(s) /\ s \notin q.revoked /\ sessions'[s] = sessions[s]
             /\ sessions[s] = NoSession => sessions'[s] = NoSession
      BY <1>4, <2>1, RevokedRows
    <2> QED BY <1>2, <1>4, <2>2, AccountStanding
  <1>5. CASE CommitUpdate(w)
    <2>1. q.kind = "update" /\ users' = [users EXCEPT ![u] = UpdatedUser(q)]
      BY <1>1, <1>5 DEF CommitUpdate, At
    <2>2. LiveOf(u) \subseteq q.revoked \/ UpdatedUser(q) = users[u]
      BY <1>0, <1>1, <2>1 DEF Seen
    <2>3. sessions' = Revoked(q.revoked, "account_access_changed")
      BY <1>5 DEF CommitUpdate
    <2>4. q.kind \in Revokers /\ "account_access_changed" \in Revocation
      BY <2>1 DEF Revokers, Revocation
    <2> DEFINE row == UpdatedUser(q)
    <2> HIDE DEF row
    <2>5. users' = [users EXCEPT ![u] = row]
      BY <2>1 DEF row
    <2>6. LiveOf(u) \subseteq q.revoked \/ row = users[u]
      BY <2>2 DEF row
    <2> QED BY <1>4, <2>3, <2>4, <2>5, <2>6
  <1>6. CASE CommitReset(w)
    <2>1. /\ Resets(q) /\ users' = [users EXCEPT ![u] = Recovered(@)]
          /\ sessions' = Revoked(q.revoked, "password_recovered")
      BY <1>1, <1>6 DEF CommitReset, Resets
    <2>2. LiveOf(u) \subseteq q.revoked /\ q.kind \in Revokers
      BY <1>0, <1>1, <2>1 DEF Seen, Resets, Revokers
    <2> QED BY <1>4, <2>1, <2>2 DEF Revocation
  <1>7. CASE CommitOperator(w)
    <2> DEFINE row == [users[u] EXCEPT !.role = Given(q.role, users[u].role)]
    <2>1. q.kind = "operator" /\ sessions' = Revoked(q.revoked, "account_access_changed")
      BY <1>7 DEF CommitOperator, At
    <2>2. users' = [users EXCEPT ![u] = row]
      BY <1>0, <1>1, <1>7 DEF CommitOperator, TypeOK
    <2>3. users[u] \in UserRow /\ Given(q.role, users[u].role) \in Role
      BY <1>0, <1>1, <2>1, RowTypes DEF Shape, Given, Request, UserRow
    <2>4. /\ row \in UserRow /\ row.standing = users[u].standing
          /\ row.secret = users[u].secret /\ row.by = users[u].by
      BY <2>3 DEF UserRow
    <2> HIDE DEF row
    <2>5. row # NoUser
      BY <2>4, AbsentAssumption
    <2>6. q.kind \in Revokers /\ "account_access_changed" \in Revocation
      BY <2>1 DEF Revokers, Revocation
    <2> QED BY <1>4, <2>1, <2>2, <2>4, <2>5, <2>6
  <1> QED BY <1>3, <1>5, <1>6, <1>7

(* The re-encoding of a hash leaves the password what it was. *)
LEMMA RehashStanding ==
    ASSUME SInv, Inv', NEW w \in Worker, Rehash(w)
    PROVE  SInv'
  <1> DEFINE q == tr[w]
  <1>0. /\ q \in Request /\ Shape(q) /\ q.kind = "rehash" /\ TypeOK
    BY Committing DEF Rehash, At
  <1>1. PICK u \in User : u = q.user /\ Present(u)
    BY <1>0 DEF Shape
  <1>2. users[u] \in UserRow
    BY <1>0, <1>1, RowTypes
  <1> DEFINE row == [users[u] EXCEPT !.encoding = "current"]
  <1>3. /\ row \in UserRow /\ row.standing = users[u].standing
        /\ row.secret = users[u].secret /\ row.by = users[u].by
    BY <1>2 DEF UserRow
  <1>4. users' = [users EXCEPT ![u] = users[u]] \/ users' = [users EXCEPT ![u] = row]
    BY <1>0, <1>1 DEF Rehash, Rehashed, TypeOK
  <1> HIDE DEF row
  <1>5. Free(w, UserLock(u)) /\ Done(w) /\ UNCHANGED <<tenant, terminal, issued, sessions>>
    BY <1>1, GrantedAlone DEF Rehash
  <1> DEFINE gone == {}
  <1>6. \A s \in Session : (Live(s)' => Live(s)) /\ s \notin gone
    BY <1>5 DEF Live, Is
  <1> HIDE DEF gone
  <1>7. row # NoUser
    BY <1>3, AbsentAssumption
  <1>8. CASE users' = [users EXCEPT ![u] = row]
    BY <1>3, <1>5, <1>6, <1>7, <1>8, AccountStanding
  <1>9. CASE users' = [users EXCEPT ![u] = users[u]]
    BY <1>5, <1>6, <1>9, AccountStanding
  <1> QED BY <1>4, <1>8, <1>9

(* A change of the own password keeps the session that asked for it, and   *)
(* ends every other session of the account.                                *)
LEMMA OwnStanding ==
    ASSUME SInv, Inv', NEW w \in Worker, CommitOwnPassword(w)
    PROVE  SInv'
  <1> DEFINE q == tr[w]
             gone == q.revoked
             base == Revoked(gone, "password_changed")
  <1>0. /\ q.pc = "staged" /\ q.kind = "own" /\ q \in Request /\ TypeOK /\ Shape(q)
        /\ Keys(q.held, q) /\ Seen(q) /\ Remembers(q) /\ \A s \in Session : Sound(s)
    BY Committing DEF CommitOwnPassword, At
  <1>1. PICK u \in User, s0 \in Session :
           /\ u = q.user /\ s0 = q.session /\ Present(u) /\ sessions[s0] # NoSession
           /\ sessions[s0].user = u
    BY <1>0 DEF Shape, OfSession, Remembers
  <1> DEFINE secret == users[u].secret + 1
             row  == [users[u] EXCEPT !.secret = secret, !.encoding = "current",
                                      !.temporary = FALSE, !.by = s0]
             kept == [base[s0] EXCEPT !.secret = secret]
  <1>2. /\ Free(w, UserLock(u)) /\ Free(w, <<"session", s0>>) /\ gone \in SUBSET Session
        /\ \A s \in gone : Free(w, <<"session", s>>)
    BY <1>0, <1>1, HeldAlone DEF SInv, Keys, Revokers, Request
  <1>3. Live(s0) /\ LiveOf(u) \subseteq gone \cup {s0}
    BY <1>0, <1>1 DEF Seen
  <1>4. /\ users' = [users EXCEPT ![u] = row] /\ sessions' = [base EXCEPT ![s0] = kept]
        /\ Done(w) /\ UNCHANGED <<tenant, terminal, issued>>
    BY <1>0, <1>1 DEF CommitOwnPassword, TypeOK, Revoked
  <1>5. users[u] \in UserRow /\ sessions[s0] \in SessionRow
    BY <1>0, <1>1, RowTypes
  <1>6. /\ row.standing = users[u].standing /\ row.secret = secret /\ row.by = s0
        /\ row # NoUser
    <2>1. secret \in Nat
      BY <1>5 DEF UserRow
    <2> HIDE DEF secret
    <2>2. row.standing = users[u].standing /\ row.secret = secret /\ row.by = s0
      BY <1>5 DEF UserRow
    <2>3. row \in UserRow
      BY <1>5, <2>1 DEF UserRow
    <2> QED BY <2>2, <2>3, AbsentAssumption
  <1>7. users'[u] = row /\ \A x \in User \ {u} : users'[x] = users[x]
    BY <1>0, <1>4 DEF TypeOK
  <1>8. /\ base[s0].user = u /\ kept.user = base[s0].user /\ kept.state = base[s0].state
        /\ kept.context = base[s0].context /\ kept.bound = base[s0].bound
        /\ kept.recovered = base[s0].recovered /\ kept.secret = secret
        /\ s0 \notin gone => base[s0] = sessions[s0]
        /\ s0 \in gone => base[s0].state = "password_changed"
    <2>1. base[s0] \in SessionRow
      BY <1>0, <1>1, <1>2, RevokedTypes DEF Revocation
    <2>2. base[s0] = IF s0 \in gone THEN Spent(sessions[s0], "password_changed")
                     ELSE sessions[s0]
      BY <1>3 DEF Revoked
    <2>3. /\ base[s0].user = u
          /\ s0 \notin gone => base[s0] = sessions[s0]
          /\ s0 \in gone => base[s0].state = "password_changed"
      BY <1>1, <2>2 DEF Spent
    <2> HIDE DEF base
    <2>4. /\ kept.user = base[s0].user /\ kept.state = base[s0].state
          /\ kept.context = base[s0].context
      BY <2>1 DEF SessionRow
    <2>5. /\ kept.bound = base[s0].bound /\ kept.recovered = base[s0].recovered
          /\ kept.secret = secret
      BY <2>1 DEF SessionRow
    <2> QED BY <2>3, <2>4, <2>5
  <1>9. sessions'[s0] = kept /\ \A s \in Session \ {s0} : sessions'[s] = base[s]
    BY <1>4 DEF Revoked
  <1>10. \A s \in Session \ {s0} :
            /\ sessions'[s] = sessions[s] \/ Changed(w, s)
            /\ Live(s)' => Live(s) /\ s \notin gone /\ sessions'[s] = sessions[s]
            /\ sessions[s] = NoSession => sessions'[s] = NoSession
    <2> SUFFICES ASSUME NEW s \in Session \ {s0}
                 PROVE  /\ sessions'[s] = sessions[s] \/ Changed(w, s)
                        /\ Live(s)' => Live(s) /\ s \notin gone /\ sessions'[s] = sessions[s]
                        /\ sessions[s] = NoSession => sessions'[s] = NoSession
      OBVIOUS
    <2>1. CASE s \in gone /\ Live(s)
      <3>1. /\ sessions'[s] = Spent(sessions[s], "password_changed")
            /\ sessions[s] # NoSession
        BY <1>9, <2>1 DEF Revoked, Live, Is
      <3>2. /\ sessions'[s].user = sessions[s].user
            /\ sessions'[s].state = "password_changed"
        BY <3>1 DEF Spent
      <3>3. ~Live(s)'
        BY <3>2 DEF Live, Is
      <3> QED BY <1>2, <2>1, <3>1, <3>2, <3>3 DEF Changed
    <2>2. CASE ~(s \in gone /\ Live(s))
      <3>1. sessions'[s] = sessions[s]
        BY <1>9, <2>2 DEF Revoked
      <3> QED BY <2>2, <3>1 DEF Live, Is
    <2> QED BY <2>1, <2>2
  <1> HIDE DEF row, kept, base, gone, secret
  <1>11. /\ Live(s0)' => s0 \notin gone /\ sessions'[s0].context = sessions[s0].context
                         /\ sessions'[s0].bound = sessions[s0].bound
         /\ Changed(w, s0)
    <2>1. Live(s0)' => s0 \notin gone
      BY <1>8, <1>9 DEF Live, Is
    <2>2. Live(s0)' => sessions'[s0].context = sessions[s0].context
                       /\ sessions'[s0].bound = sessions[s0].bound
      BY <1>1, <1>8, <1>9, <2>1
    <2>3. sessions'[s0].user = sessions[s0].user
      BY <1>1, <1>8, <1>9
    <2>4. Changed(w, s0)
      BY <1>2, <1>3, <2>2, <2>3 DEF Changed
    <2> QED BY <2>1, <2>2, <2>4
  <1>12. Replaced(u)
    BY <1>3, <1>6, <1>7, <1>10 DEF Replaced, LiveOf
  <1>13. Careful(w)
    BY <1>2, <1>4, <1>7, <1>10, <1>11, <1>12 DEF Careful
  <1>14. Sound(s0)'
    <2>1. Active(u) /\ Active(u)'
      BY <1>0, <1>1, <1>3, <1>6, <1>7 DEF Sound, Active, Present
    <2>2. SUFFICES ASSUME Live(s0)' PROVE Sound(s0)'
      BY DEF Sound
    <2>3. /\ sessions'[s0].user = u /\ sessions'[s0].context = sessions[s0].context
          /\ sessions'[s0].bound = sessions[s0].bound
      BY <1>8, <1>9, <1>11, <2>2
    <2>4. sessions'[s0].secret = users'[u].secret
      BY <1>6, <1>7, <1>8, <1>9
    <2>5. Sound(s0) /\ Live(s0)
      BY <1>0, <1>3
    <2> QED BY <1>4, <2>1, <2>3, <2>4, <2>5 DEF Sound
  <1>15. ASSUME NEW s \in Session \ {s0}, Live(s)' PROVE Sound(s)'
    <2>1. Live(s) /\ s \notin gone /\ sessions'[s] = sessions[s] /\ Sound(s)
      BY <1>0, <1>10, <1>15
    <2>2. sessions[s].user \in User
      BY <1>0, <2>1, RowTypes DEF Live, SessionRow
    <2>3. sessions[s].user # u
      BY <1>3, <1>15, <2>1 DEF LiveOf
    <2>4. users'[sessions[s].user] = users[sessions[s].user]
      BY <1>7, <2>2, <2>3
    <2> QED BY <1>4, <2>1, <2>4 DEF Sound, Active, Present
  <1>16. \A s \in Session : Sound(s)'
    BY <1>14, <1>15 DEF Sound
  <1> QED BY <1>1, <1>4, <1>10, <1>13, <1>16, Ending

(* A login issues a session for what it has seen under its locks. *)
LEMMA LoginStanding ==
    ASSUME SInv, Inv', NEW w \in Worker, CommitLogin(w)
    PROVE  SInv'
  <1> DEFINE q == tr[w]
             new == issued + 1
             row == [user |-> q.user, context |-> q.context, bound |-> q.bound,
                     state |-> "live", secret |-> q.secret, recovered |-> FALSE]
             left == [q EXCEPT !.pc = "rehash", !.kind = "rehash", !.held = {}]
             next == IF q.encoding = "outdated" THEN left ELSE Idle
  <1>0. /\ q \in Request /\ q.kind = "login" /\ TypeOK /\ Keys(q.held, q) /\ Seen(q)
        /\ \A s \in Session : Sound(s) /\ (s > issued => sessions[s] = NoSession)
    BY Committing DEF CommitLogin, At
  <1>a. PICK u \in User : u = q.user
    BY <1>0, Committing DEF Shape
  <1>1. /\ issued' = new /\ sessions' = [sessions EXCEPT ![new] = row]
        /\ tr' = [tr EXCEPT ![w] = next] /\ UNCHANGED <<users, tenant, terminal>>
    BY DEF CommitLogin
  <1>2. Prepared(tr[w])'
    <2>1. next.kind \in {"none", "rehash"} /\ next.pc # "staged"
      BY <1>0 DEF Idle, Request
    <2> HIDE DEF next
    <2> QED BY <1>1, <2>1, QuietPrepared
  <1>3. issued \in Nat /\ issued' = new /\ new > issued /\ new \in Nat
    BY <1>0, <1>1 DEF TypeOK
  <1>4. \A s \in Session : sessions'[s] = IF s = new THEN row ELSE sessions[s]
    BY <1>0, <1>1 DEF TypeOK
  <1> HIDE DEF row, new, next
  <1>5. /\ row.user = q.user /\ row.context = q.context /\ row.bound = q.bound
        /\ row.state = "live" /\ row.secret = q.secret
    BY DEF row
  <1>6. \A s \in Session : s > issued' => sessions'[s] = NoSession
    BY <1>0, <1>3, <1>4 DEF Session
  <1>7. /\ Unclaimed(w, UserLock(q.user))
        /\ q.context = "tenant" => Unclaimed(w, <<"tenant">>)
        /\ q.bound => Unclaimed(w, <<"terminal">>)
    BY <1>0, HeldShared DEF SInv, Keys, Issuers, Into
  <1>8. ASSUME new \in Session PROVE Added(w, new)
    BY <1>0, <1>3, <1>4, <1>5, <1>7, <1>8 DEF Added
  <1>9. Careful(w)
    BY <1>1, <1>4, <1>8 DEF Careful
  <1>10. ASSUME NEW s \in Session PROVE Sound(s)'
    <2>1. CASE s = new
      <3>1. sessions'[s] = row
        BY <1>4, <2>1
      <3>2. Active(u)' /\ q.secret = users'[u].secret
        BY <1>0, <1>a, <1>1 DEF Seen, Issuers, Active, Present
      <3>3. /\ q.context = "tenant" => tenant' = "active"
            /\ q.bound => terminal' = "active" /\ q.context = "tenant"
        BY <1>0, <1>1 DEF Seen, Issuers, Into
      <3> QED BY <1>5, <1>a, <3>1, <3>2, <3>3 DEF Sound, Active, Present
    <2>2. CASE s # new
      BY <1>0, <1>1, <1>4, <2>2 DEF Sound, Live, Is, Active, Present
    <2> QED BY <2>1, <2>2
  <1> QED BY <1>1, <1>2, <1>6, <1>9, <1>10, StandingStep

(* An exchange ends one session and issues one that knows no more. *)
LEMMA ReplacementStanding ==
    ASSUME SInv, Inv', NEW w \in Worker, CommitReplacement(w)
    PROVE  SInv'
  <1> DEFINE q == tr[w]
             new == issued + 1
             reason == IF q.kind = "switch" THEN "context_switched" ELSE "session_upgraded"
  <1>0. /\ q \in Request /\ Shape(q) /\ q.kind \in {"upgrade", "switch"} /\ TypeOK
        /\ Keys(q.held, q) /\ Seen(q) /\ Remembers(q) /\ issued \in Nat
        /\ \A s \in Session : Sound(s) /\ (s > issued => sessions[s] = NoSession)
    BY Committing DEF CommitReplacement, TypeOK
  <1>1. PICK s0 \in Session : s0 = q.session /\ sessions[s0] # NoSession
                              /\ sessions[s0].user = q.user
    BY <1>0 DEF Shape, OfSession, Remembers
  <1> DEFINE old  == sessions[s0]
             past == old.recovered \/ old.state \in Recoverable
             row  == [old EXCEPT !.context = q.goal, !.bound = q.bound,
                                 !.state = "live", !.recovered = past]
  <1>2. /\ issued' = new
        /\ sessions' = [sessions EXCEPT ![s0] = Spent(old, reason), ![new] = row]
        /\ Done(w) /\ UNCHANGED <<users, tenant, terminal>>
    BY <1>1 DEF CommitReplacement
  <1>3. new > issued /\ new \in Nat /\ s0 # new
    BY <1>0, <1>1 DEF Session
  <1>4. \A s \in Session :
           sessions'[s] = IF s = new THEN row
                          ELSE IF s = s0 THEN Spent(old, reason) ELSE sessions[s]
    BY <1>0, <1>2, <1>3 DEF TypeOK
  <1>5. old \in SessionRow
    BY <1>0, <1>1, RowTypes
  <1>6. /\ row.user = q.user /\ row.context = q.goal /\ row.bound = q.bound
        /\ row.state = "live" /\ row.secret = old.secret /\ row.recovered = past
    <2> DEFINE a == [old EXCEPT !.context = q.goal, !.bound = q.bound]
    <2>1. a.user = q.user /\ a.context = q.goal /\ a.bound = q.bound /\ a.secret = old.secret
      BY <1>1, <1>5 DEF SessionRow
    <2>2. a \in [DOMAIN old -> UNION {{a[f]} : f \in DOMAIN old}]
               /\ DOMAIN a = DOMAIN old
               /\ row = [a EXCEPT !.state = "live", !.recovered = past]
      OBVIOUS
    <2>3. {"user", "context", "bound", "state", "secret", "recovered"} \subseteq DOMAIN old
      BY <1>5 DEF SessionRow
    <2> HIDE DEF a, past
    <2> QED BY <2>1, <2>2, <2>3
  <1>7. LET x == Spent(old, reason) IN x.user = q.user /\ x.state = reason
    BY <1>1 DEF Spent
  <1> HIDE DEF row, new, past
  <1>8. \A s \in Session : s > issued' => sessions'[s] = NoSession
    <2> SUFFICES ASSUME NEW s \in Session, s > issued' PROVE sessions'[s] = NoSession
      OBVIOUS
    <2>1. s > issued /\ s # new
      BY <1>0, <1>2, <1>3, AccountAssumption DEF Session
    <2>2. sessions[s] = NoSession /\ s # s0
      BY <1>0, <1>1, <2>1
    <2> QED BY <1>4, <2>1, <2>2
  <1>9. /\ Unclaimed(w, UserLock(q.user)) /\ Free(w, <<"session", s0>>)
        /\ q.goal = "tenant" => Unclaimed(w, <<"tenant">>)
        /\ q.bound => Unclaimed(w, <<"terminal">>)
    BY <1>0, <1>1, HeldShared, HeldAlone DEF SInv, Keys, Issuers, Into
  <1>10. new \in Session => Added(w, new)
    BY <1>0, <1>3, <1>4, <1>6, <1>9 DEF Added
  <1>11. ~Live(s0)'
    BY <1>3, <1>4, <1>7 DEF Live, Is
  <1>12. Changed(w, s0)
    BY <1>1, <1>3, <1>4, <1>7, <1>9, <1>11 DEF Changed
  <1>13. Careful(w)
    BY <1>2, <1>4, <1>10, <1>12 DEF Careful
  <1>14. ASSUME NEW s \in Session PROVE Sound(s)'
    <2>1. CASE s = new
      <3>1. sessions'[s] = row /\ Sound(s0)
        BY <1>0, <1>4, <2>1
      <3>2. Active(q.user) /\ Is(s0, {"live"} \cup Recoverable)
        BY <1>0, <1>1 DEF Seen, Issuers, StillReplaceable
      <3>3. /\ q.goal = "tenant" => tenant' = "active"
            /\ q.bound => terminal' = "active" /\ q.goal = "tenant"
        BY <1>0, <1>2 DEF Seen, Issuers, Into
      <3>4. ~past => old.secret = users'[q.user].secret
        BY <1>1, <1>2, <3>1, <3>2 DEF past, Sound, Live, Is
      <3> QED BY <1>2, <1>6, <3>1, <3>2, <3>3, <3>4 DEF Sound, Active, Present
    <2>2. CASE s = s0
      BY <1>11, <2>2 DEF Sound
    <2>3. CASE s # new /\ s # s0
      <3>1. sessions'[s] = sessions[s] /\ Sound(s)
        BY <1>0, <1>4, <2>3
      <3> QED BY <1>2, <3>1 DEF Sound, Live, Is, Active, Present
    <2> QED BY <2>1, <2>2, <2>3
  <1>15. Prepared(tr[w])' /\ tr' = [tr EXCEPT ![w] = Idle]
    <2>1. Idle.kind = "none" /\ Idle.pc # "staged"
      BY DEF Idle
    <2> QED BY <1>2, <2>1, QuietPrepared DEF Done
  <1> QED BY <1>8, <1>13, <1>14, <1>15, StandingStep

-----------------------------------------------------------------------------
(* The inductive invariant. *)
LEMMA StandingInit == Init => SInv
  <1> SUFFICES ASSUME Init PROVE SInv
    OBVIOUS
  <1>1. Inv
    BY InvInit
  <1>2. \A w \in Worker : Prepared(tr[w])
    BY DEF Init, Prepared, Remembers, Idle, OfSession
  <1>3. ASSUME NEW s \in Session PROVE Sound(s) /\ (s > issued => sessions[s] = NoSession)
    <2>1. s > issued => s \notin User
      <3>1. issued = Users
        BY DEF Init
      <3> QED BY <3>1, AccountAssumption DEF Session, User
    <2>2. CASE sessions[s] = NoSession
      BY <2>2 DEF Sound, Live, Is
    <2>3. CASE sessions[s] # NoSession
      <3>1. /\ s \in User /\ users[s] # NoUser
            /\ sessions[s] = [user |-> s, context |-> "account", bound |-> FALSE,
                              state |-> "live", secret |-> 1, recovered |-> FALSE]
        BY <2>3 DEF Init
      <3>2. PICK staff \in Staff :
              users = [u \in User |->
                  IF staff[u] = "none" THEN NoUser
                  ELSE [Account(staff[u]) EXCEPT !.temporary = FALSE,
                                                 !.encoding = "outdated"]]
        BY DEF Init
      <3>3. users[s].standing = "active" /\ users[s].secret = 1
        BY <3>1, <3>2 DEF Account
      <3> QED BY <2>1, <3>1, <3>3 DEF Sound, Active, Present
    <2> QED BY <2>2, <2>3
  <1> QED BY <1>1, <1>2, <1>3 DEF SInv, Standing

(* Every step keeps the inductive invariant. *)
LEMMA StandingNext == SInv /\ [Next]_vars => SInv'
  <1> SUFFICES ASSUME SInv, [Next]_vars PROVE SInv'
    OBVIOUS
  <1>1. Inv'
    BY InvNext DEF SInv
  <1>2. CASE UNCHANGED vars
    <2>1. UNCHANGED <<users, tenant, terminal, sessions, issued, tr>>
      BY <1>2 DEF vars, accountVars
    <2>2. \A w \in Worker : Prepared(tr[w])'
      <3> SUFFICES ASSUME NEW w \in Worker PROVE Prepared(tr[w])'
        OBVIOUS
      <3>1. Remembers(tr[w])'
        BY <2>1 DEF SInv, Standing, Prepared, Remembers, Live, Is
      <3>2. tr[w].pc = "staged" => Seen(tr[w])'
        BY <2>1 DEF SInv, Standing, Prepared, Seen, Active, Present, Into,
           StillReplaceable, Live, Is, LiveOf, UpdatedUser, Resets, LiveInTenant, LiveBound
      <3>3. tr[w].pc = "staged" => Keys(tr[w].held, tr[w])'
        BY <2>1 DEF SInv, Standing, Prepared, Keys, Into, UserLock, Share, Update,
           Issuers, Revokers
      <3> QED BY <2>1, <3>1, <3>2, <3>3 DEF Prepared
    <2>3. \A s \in Session : Sound(s)' /\ (s > issued' => sessions'[s] = NoSession)
      BY <2>1 DEF SInv, Standing, Sound, Live, Is, Active, Present
    <2> QED BY <1>1, <2>2, <2>3 DEF SInv, Standing
  <1>3. CASE Next
    <2>1. PICK w \in Worker : Ask(w) \/ Proceed(w) \/ Abort(w)
      BY <1>3 DEF Next
    <2>2. CASE Ask(w)
      BY <1>1, <2>2, StandingAsk
    <2>3. CASE Proceed(w)
      BY <1>1, <2>3, StandingLogin, StandingExchange, StandingOwn, StandingAccount,
         StandingTenant, StatusStanding, RevokeStanding, EnrollStanding, LogoutStanding,
         AccountsStanding, RehashStanding, OwnStanding, LoginStanding, ReplacementStanding
      DEF Proceed
    <2>4. CASE Abort(w)
      BY <1>1, <2>4, StandingRefused DEF Abort, Refuse
    <2> QED BY <2>1, <2>2, <2>3, <2>4
  <1> QED BY <1>2, <1>3

(* No session outlives what it was issued under: its account is active,    *)
(* its tenant too, and the terminal it is bound to is enrolled.            *)
THEOREM SessionsInGoodStanding == Spec => []GoodStanding
  <1>1. SInv => GoodStanding
    BY DEF SInv, Standing, Sound, GoodStanding
  <1> QED BY <1>1, StandingInit, StandingNext, PTL DEF Spec

(* A live session stands for the account's present password, but for one   *)
(* that descends from a session already revoked when it was set.           *)
THEOREM PasswordsEndSessions == Spec => []SessionsFollowPassword
  <1>1. SInv => SessionsFollowPassword
    BY DEF SInv, Standing, Sound, SessionsFollowPassword
  <1> QED BY <1>1, StandingInit, StandingNext, PTL DEF Spec

(* A row that is written keeps the password, or has a later one. *)
LEMMA SecretsRise ==
    ASSUME SInv, NEW w \in Worker, Ask(w) \/ Proceed(w) \/ Abort(w),
           NEW u \in User, Present(u)
    PROVE  users'[u].secret >= users[u].secret
  <1> DEFINE q == tr[w]
  <1>0. users[u] \in UserRow /\ users[u].secret \in Nat /\ TypeOK
    BY Committing, RowTypes DEF UserRow
  <1>1. CASE users' = users
    BY <1>0, <1>1
  <1>2. CASE CommitCreate(w) \/ CommitFirstSuperadmin(w)
    <2>1. ~Present(q.whom) /\ \E row : users' = [users EXCEPT ![q.whom] = row]
      BY <1>2, Committing DEF CommitCreate, CommitFirstSuperadmin, At, Rightful
    <2>2. users'[u] = users[u]
      BY <1>0, <2>1 DEF TypeOK
    <2> QED BY <1>0, <2>2
  <1>3. CASE CommitUpdate(w)
    <2>1. users'[u] = users[u] \/ (users'[u] = UpdatedUser(q) /\ u = q.whom)
      BY <1>0, <1>3 DEF CommitUpdate, TypeOK
    <2>2. u = q.whom => UpdatedUser(q).secret = users[u].secret
      BY <1>0 DEF UpdatedUser, UserRow
    <2> QED BY <1>0, <2>1, <2>2
  <1>4. CASE CommitReset(w)
    <2>1. users'[u] = users[u] \/ users'[u] = Recovered(users[u])
      BY <1>0, <1>4 DEF CommitReset, TypeOK
    <2>2. Recovered(users[u]).secret = users[u].secret + 1
      BY <1>0 DEF Recovered, UserRow
    <2> QED BY <1>0, <2>1, <2>2
  <1>5. CASE CommitOperator(w)
    <2> DEFINE row == [users[u] EXCEPT !.role = Given(q.role, users[u].role)]
    <2>1. users'[u] = users[u] \/ users'[u] = row
      BY <1>0, <1>5 DEF CommitOperator, TypeOK
    <2>2. row.secret = users[u].secret
      BY <1>0 DEF UserRow
    <2> HIDE DEF row
    <2> QED BY <1>0, <2>1, <2>2
  <1>a. CASE Rehash(w)
    <2> DEFINE row == [users[u] EXCEPT !.encoding = "current"]
    <2>1. users'[u] = users[u] \/ users'[u] = row
      BY <1>0, <1>a DEF Rehash, Rehashed, TypeOK
    <2>2. row.secret = users[u].secret
      BY <1>0 DEF UserRow
    <2> HIDE DEF row
    <2> QED BY <1>0, <2>1, <2>2
  <1>6. CASE CommitOwnPassword(w)
    <2>1. CASE u = q.user
      <3> DEFINE secret == users[u].secret + 1
                 row == [users[u] EXCEPT !.secret = secret, !.encoding = "current",
                                         !.temporary = FALSE, !.by = q.session]
      <3>1. users' = [users EXCEPT ![u] = row]
        BY <1>0, <1>6, <2>1 DEF CommitOwnPassword, TypeOK
      <3>2. row.secret = secret
        BY <1>0 DEF UserRow
      <3> HIDE DEF row
      <3>3. users'[u] = row
        BY <1>0, <3>1 DEF TypeOK
      <3> QED BY <1>0, <3>2, <3>3
    <2>2. CASE u # q.user
      <3>1. users'[u] = users[u]
        BY <1>0, <1>6, <2>2 DEF CommitOwnPassword, TypeOK
      <3> QED BY <1>0, <3>1
    <2> QED BY <2>1, <2>2
  <1>7. CASE \/ CommitLogin(w) \/ CommitReplacement(w) \/ Logout(w) \/ CommitTenantStatus(w)
             \/ CommitEnroll(w) \/ CommitRevokeTerminal(w) \/ Abort(w)
    <2>1. users' = users
      BY <1>7 DEF CommitLogin, CommitReplacement, Logout, CommitTenantStatus, CommitEnroll,
         CommitRevokeTerminal, Abort, Refuse, Goto, accountVars
    <2> QED BY <1>1, <2>1
  <1>8. CASE Ask(w)
    BY <1>1, <1>8, AsksOnly
  <1>9. CASE \/ LockLogin(w) \/ Again(w) \/ LockUpgrade(w) \/ LockSwitchContext(w)
             \/ LockOwnPassword(w) \/ LockCreate(w) \/ LockUpdate(w) \/ LockReset(w)
             \/ LockOperator(w) \/ LockFirstSuperadmin(w)
             \/ LockTenantStatus(w) \/ LockTerminal(w)
    BY <1>1, <1>9, LocksOnly
  <1> QED
    BY <1>2, <1>3, <1>4, <1>5, <1>a, <1>6, <1>7, <1>8, <1>9 DEF Proceed

(* A password that was replaced does not come back, and a change by its    *)
(* owner replaces the one that the session has shown, or itself has set.   *)
THEOREM PasswordsRise == Spec => PasswordsMoveOn
  <1> DEFINE Moves ==
         \A u \in User : Present(u) =>
            /\ users'[u].secret >= users[u].secret
            /\ \A w \in Worker :
                 (/\ At(w, "staged", "own") /\ tr[w].user = u
                  /\ users'[u].secret # users[u].secret /\ tr'[w] = Idle)
                 => \/ tr[w].secret = users[u].secret
                    \/ users[u].by = tr[w].session
  <1>1. SInv /\ Next => Moves
    <2> SUFFICES ASSUME SInv, Next, NEW u \in User, Present(u)
                 PROVE  /\ users'[u].secret >= users[u].secret
                        /\ \A w \in Worker : At(w, "staged", "own") /\ tr[w].user = u
                              => \/ tr[w].secret = users[u].secret
                                 \/ users[u].by = tr[w].session
      OBVIOUS
    <2>1. users'[u].secret >= users[u].secret
      BY SecretsRise DEF Next
    <2>2. ASSUME NEW w \in Worker, At(w, "staged", "own"), tr[w].user = u
          PROVE  tr[w].secret = users[u].secret \/ users[u].by = tr[w].session
      BY <2>2, Committing DEF At, Seen, Remembers
    <2> QED BY <2>1, <2>2
  <1>2. SInv /\ [Next]_vars => [Moves]_vars
    BY <1>1
  <1> HIDE DEF Moves
  <1>3. Spec => [][Moves]_vars
    BY <1>2, StandingInit, StandingNext, PTL DEF Spec
  <1> QED BY <1>3 DEF Moves, PasswordsMoveOn
=============================================================================
