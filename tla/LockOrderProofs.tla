--------------------------- MODULE LockOrderProofs ---------------------------
(***************************************************************************)
(* Theorems about LockOrder, for any number of transactions, accounts,     *)
(* tenants and sessions.  First where in the scripts each lock is asked    *)
(* for: under which locks, and after which.  Then that no two transactions *)
(* hold locks that conflict.  So transactions that wait for each other in  *)
(* a circle wait for tenants, generations and sessions only, and unless    *)
(* the circle is a known one, each waits for something that comes after    *)
(* what the one before it waits for.                                       *)
(***************************************************************************)
EXTENDS LockOrder, FiniteSetTheorems, WellFoundedInduction, TLAPS

-----------------------------------------------------------------------------
(* Each member of a finite set of numbers has a place of its own. *)
LEMMA Places ==
    ASSUME NEW S \in SUBSET Nat, IsFiniteSet(S)
    PROVE  /\ Cardinality(S) \in Nat
           /\ \A s \in S : Cardinality({r \in S : r <= s}) \in 1 .. Cardinality(S)
           /\ \A s \in S : \A t \in S : s < t =>
                Cardinality({r \in S : r <= s}) < Cardinality({r \in S : r <= t})
           /\ \A i \in 1 .. Cardinality(S) :
                \E s \in S : Cardinality({r \in S : r <= s}) = i
<1> DEFINE upTo(s) == {r \in S : r <= s}
           place == [s \in S |-> Cardinality(upTo(s))]
<1>1. Cardinality(S) \in Nat
  BY FS_CardinalityType
<1>2. \A s \in S : IsFiniteSet(upTo(s)) /\ Cardinality(upTo(s)) \in Nat
                   /\ Cardinality(upTo(s)) <= Cardinality(S)
  BY FS_Subset, FS_CardinalityType
<1>3. ASSUME NEW s \in S, NEW t \in S, s < t
      PROVE  Cardinality(upTo(s)) < Cardinality(upTo(t))
  <2>1. upTo(s) \in SUBSET upTo(t)
    <3>1. \A r \in S : r <= s => r <= t
      BY <1>3
    <3> QED BY <3>1
  <2>2. t \in upTo(t) /\ t \notin upTo(s)
    BY <1>3
  <2>3. Cardinality(upTo(s)) <= Cardinality(upTo(t)) /\ Cardinality(upTo(s)) # Cardinality(upTo(t))
    <3> HIDE DEF upTo
    <3> QED BY <2>1, <2>2, <1>2, FS_Subset
  <2> QED BY <2>3, <1>2
<1>4. ASSUME NEW s \in S PROVE Cardinality(upTo(s)) # 0
  <2>1. s \in upTo(s)
    OBVIOUS
  <2>2. Cardinality(upTo(s)) = 0 <=> upTo(s) = {}
    <3> HIDE DEF upTo
    <3> QED BY <1>2, FS_EmptySet
  <2> QED BY <2>1, <2>2
<1>5. \A s \in S : Cardinality(upTo(s)) \in 1 .. Cardinality(S)
  BY <1>1, <1>2, <1>4
<1>6. place \in Injection(S, 1 .. Cardinality(S))
  <2>1. place \in [S -> 1 .. Cardinality(S)]
    BY <1>5
  <2>2. \A s, t \in S : place[s] = place[t] => s = t
    <3> SUFFICES ASSUME NEW s \in S, NEW t \in S, s # t PROVE place[s] # place[t]
      OBVIOUS
    <3>1. s < t \/ t < s
      OBVIOUS
    <3>2. s \in Nat /\ t \in Nat
      OBVIOUS
    <3> HIDE DEF upTo
    <3> QED BY <3>1, <3>2, <1>2, <1>3
  <2> QED BY <2>1, <2>2 DEF Injection, IsInjective
<1>7. /\ IsFiniteSet(1 .. Cardinality(S))
      /\ Cardinality(1 .. Cardinality(S)) = Cardinality(S)
  <2> PICK n \in Nat : n = Cardinality(S)
    BY <1>1
  <2>1. IsFiniteSet(1 .. n) /\ Cardinality(1 .. n) = IF 1 > n THEN 0 ELSE n - 1 + 1
    <3>1. 1 \in Int /\ n \in Int
      OBVIOUS
    <3> QED BY <3>1, FS_Interval
  <2> QED BY <2>1
<1>8. place \in Surjection(S, 1 .. Cardinality(S))
  <2> HIDE DEF place
  <2> QED BY <1>6, <1>7, FS_Injection
<1>9. \A i \in 1 .. Cardinality(S) : \E s \in S : Cardinality(upTo(s)) = i
  BY <1>8 DEF Surjection
<1> QED BY <1>1, <1>3, <1>5, <1>9

(* In ascending order, every member once. *)
LEMMA AscendingOrder ==
    ASSUME NEW S \in SUBSET Nat, IsFiniteSet(S)
    PROVE  /\ Cardinality(S) \in Nat
           /\ \A i \in 1 .. Cardinality(S) : Ascending(S)[i] \in S
           /\ \A i, j \in 1 .. Cardinality(S) : i < j => Ascending(S)[i] < Ascending(S)[j]
           /\ \A s \in S : \E i \in 1 .. Cardinality(S) : Ascending(S)[i] = s
<1> DEFINE place(s) == Cardinality({r \in S : r <= s})
<1>1. /\ Cardinality(S) \in Nat
      /\ \A s \in S : place(s) \in 1 .. Cardinality(S)
      /\ \A s \in S : \A t \in S : s < t => place(s) < place(t)
      /\ \A i \in 1 .. Cardinality(S) : \E s \in S : place(s) = i
  BY Places
<1>2. \A i \in 1 .. Cardinality(S) : Ascending(S)[i] = CHOOSE s \in S : place(s) = i
  BY DEF Ascending
<1> HIDE DEF place
<1>3. \A i \in 1 .. Cardinality(S) : Ascending(S)[i] \in S /\ place(Ascending(S)[i]) = i
  BY <1>1, <1>2
<1>4. ASSUME NEW i \in 1 .. Cardinality(S), NEW j \in 1 .. Cardinality(S), i < j
      PROVE  Ascending(S)[i] < Ascending(S)[j]
  <2> PICK a \in S : a = Ascending(S)[i]
    BY <1>3
  <2> PICK b \in S : b = Ascending(S)[j]
    BY <1>3
  <2>1. place(a) = i /\ place(b) = j
    BY <1>3
  <2>2. a < b \/ b < a \/ a = b
    OBVIOUS
  <2>3. ~(b < a)
    BY <2>1, <1>1, <1>4
  <2> QED BY <2>1, <2>2, <2>3, <1>4
<1>5. ASSUME NEW s \in S PROVE Ascending(S)[place(s)] = s
  <2>1. place(s) \in 1 .. Cardinality(S)
    BY <1>1
  <2> PICK b \in S : b = Ascending(S)[place(s)]
    BY <1>3, <2>1
  <2>2. place(b) = place(s)
    BY <1>3, <2>1
  <2>3. s < b \/ b < s \/ s = b
    OBVIOUS
  <2> QED BY <2>2, <2>3, <1>1
<1> QED BY <1>1, <1>3, <1>4, <1>5

(* A finite set of numbers has a bound. *)
LEMMA HasBound ==
    ASSUME NEW S \in SUBSET Nat, IsFiniteSet(S)
    PROVE  \E n \in Nat : \A s \in S : s <= n
<1>1. CASE S = {}
  BY <1>1
<1>2. CASE S # {}
  <2>1. Cardinality(S) \in Nat /\ Cardinality(S) # 0
    BY <1>2, FS_EmptySet, FS_CardinalityType
  <2>2. PICK s \in S : Cardinality({r \in S : r <= s}) = Cardinality(S)
    BY <2>1, Places
  <2>3. {r \in S : r <= s} = S
    BY <2>2, FS_Subset
  <2> QED BY <2>3
<1> QED BY <1>1, <1>2

-----------------------------------------------------------------------------
(***************************************************************************)
(* What a transaction holds when it asks for a lock: the places of locks   *)
(* in the scripts.                                                         *)
(***************************************************************************)
Before(s, j) == {s[i] : i \in 1 .. (j - 1)}
All(s) == {s[i] : i \in 1 .. Len(s)}

(* A lock of H is on the resource, an exclusive one if x. *)
Has(H, resource, x) == \E h \in H : h.on = resource /\ (x => h.exclusive)

(* The account of session s, or its tenant if it has one, is locked. *)
HasOwner(H, s, x)  == Has(H, <<"user", Holder[s]>>, x)
HasTenant(H, s, x) == Home[s] = 0 \/ Has(H, <<"tenant", Home[s]>>, x)

UserPlace(H) ==
    \/ H = {}
    \/ /\ Has(H, <<"organization">>, FALSE)
       /\ \A h \in H : \/ h.on[1] = "organization"
                       \/ h.on[1] = "user" /\ Has(H, <<"organization">>, TRUE)

TenantPlace(q, a, H) ==
    /\ a.on[2] \in Tenant
    /\ a.exclusive => \A h \in H : h.on[1] = "user"
    /\ \A h \in H : \/ h.on[1] \in {"cleanup", "organization", "user"}
                    \/ h.on[1] = "tenant" /\ ~h.exclusive
                    \/ /\ q.kind = "purge"
                       /\ \/ h.on[1] = "space"
                          \/ h.on[1] = "generation" /\ h.on[2] < a.on[2]

(* After sessions, only account changes and suspensions go back to generations. *)
GenerationPlace(q, a, H) ==
    /\ a.on[2] \in Tenant
    /\ \A h \in H : /\ h.on[1] = "generation" => h.on[2] < a.on[2]
                    /\ h.on[1] = "tenant" /\ h.exclusive => h.on[2] = a.on[2]
                    /\ h.on[1] = "session" =>
                          q.kind \in {"own_profile", "manage_account", "own_password",
                                      "operator", "tenant_status"}

(* Terminals and spaces are locked under the row of their tenant, retired  *)
(* spaces by the one purge.                                                *)
UnderTenant(a, H) ==
    IF a.on[1] = "space" /\ a.on[3] = "retired" THEN Has(H, <<"cleanup">>, TRUE)
    ELSE Has(H, <<"tenant", a.on[2]>>, a.exclusive)

(* What protects a session from whom. *)
Guarded(q, s, H) ==
    /\ q.kind \in {"mutation", "package", "revalidate", "switch_mode", "recover", "upgrade",
                   "configure"} =>
          s = q.session /\ HasOwner(H, s, FALSE) /\ HasTenant(H, s, FALSE)
    /\ q.kind = "switch_context" =>
          \A h \in H : ~h.exclusive /\ h.on[1] \in {"user", "tenant", "terminal"}
    /\ q.kind = "enroll" => Home[s] # 0 /\ HasOwner(H, s, FALSE) /\ HasTenant(H, s, TRUE)
    /\ q.kind \in {"reset", "revoke_terminal", "tenant_status"} =>
          Home[s] # 0 /\ HasTenant(H, s, TRUE)
    /\ q.kind \in {"own_profile", "operator"} => HasOwner(H, s, TRUE) /\ HasTenant(H, s, FALSE)
    /\ q.kind \in {"manage_account", "own_password"} => HasOwner(H, s, TRUE)
    /\ q.kind = "own_password" /\ s = q.session => HasTenant(H, s, FALSE)
    /\ q.kind = "logout" => H = {}

SessionPlace(q, a, H) ==
    /\ a.on[2] \in Session
    /\ Guarded(q, a.on[2], H)
    /\ q.kind \in {"mutation", "package", "revalidate", "switch_mode", "recover", "upgrade",
                   "configure", "switch_context", "enroll", "reset", "revoke_terminal",
                   "tenant_status", "own_profile", "operator", "manage_account",
                   "own_password", "logout"}
    /\ \A h \in H :
          /\ h.on[1] = "session" =>
                q.kind \in {"upgrade", "enroll", "reset", "revoke_terminal", "tenant_status",
                            "manage_account", "own_password", "operator"}
          /\ q.kind \in {"tenant_status", "manage_account", "own_password"} =>
                /\ h.on[1] # "generation"
                /\ h.on[1] = "session" =>
                      h.on[2] < a.on[2] \/ (q.kind = "own_password" /\ h.on[2] = q.session)

Place(q, a, H) ==
    /\ a.on[1] \in {"cleanup", "organization", "user", "tenant", "generation", "space",
                    "session", "terminal", "operation", "transaction", "package"}
    /\ a.on[1] \in {"cleanup", "organization"} => H = {}
    /\ a.on[1] = "user" => UserPlace(H)
    /\ a.on[1] = "tenant" => TenantPlace(q, a, H)
    /\ a.on[1] = "generation" => GenerationPlace(q, a, H)
    /\ a.on[1] \in {"space", "terminal"} => UnderTenant(a, H)
    /\ a.on[1] = "session" => SessionPlace(q, a, H)
    /\ \A h \in H : /\ h.on[1] \notin {"transaction", "package"}
                    /\ h.on[1] = "operation" => a.on[1] = "transaction"

(* Every lock of s is at its place, when those of G are held before. *)
Charted(q, s, G) ==
    /\ Len(s) \in Nat
    /\ \A j \in 1 .. Len(s) : Place(q, s[j], G \cup Before(s, j))

Joined(a, b, s) == All(s) = All(a) \cup All(b)

(* A chart goes on with another one. *)
LEMMA ChartOn ==
    ASSUME NEW q, NEW A, NEW a \in Seq(A), NEW b \in Seq(A), NEW G, NEW H,
           Charted(q, a, G), Charted(q, b, H), H = G \cup All(a)
    PROVE  /\ a \o b \in Seq(A)
           /\ Charted(q, a \o b, G)
           /\ Joined(a, b, a \o b)
<1> DEFINE s == a \o b
<1>1. /\ s \in Seq(A) /\ Len(s) = Len(a) + Len(b)
      /\ Len(a) \in Nat /\ Len(b) \in Nat
      /\ \A i \in 1 .. Len(a) + Len(b) : s[i] = IF i <= Len(a) THEN a[i] ELSE b[i - Len(a)]
  OBVIOUS
<1> HIDE DEF s
<1>2. ASSUME NEW n \in Nat, n <= Len(a)
      PROVE  {s[i] : i \in 1 .. n} = {a[i] : i \in 1 .. n}
  <2>1. \A i \in 1 .. n : s[i] = a[i]
    BY <1>1, <1>2
  <2> QED BY <2>1
<1>3. ASSUME NEW n \in Nat, n <= Len(b)
      PROVE  {s[i] : i \in 1 .. (Len(a) + n)} = All(a) \cup {b[i] : i \in 1 .. n}
  <2>1. \A i \in 1 .. Len(a) : s[i] = a[i] /\ i \in 1 .. (Len(a) + n)
    BY <1>1, <1>3
  <2>2. \A i \in 1 .. n : s[Len(a) + i] = b[i] /\ Len(a) + i \in 1 .. (Len(a) + n)
    BY <1>1, <1>3
  <2>3. \A i \in 1 .. (Len(a) + n) : i \in 1 .. Len(a) \/ \E k \in 1 .. n : i = Len(a) + k
    <3> SUFFICES ASSUME NEW i \in 1 .. (Len(a) + n), i \notin 1 .. Len(a)
                 PROVE  \E k \in 1 .. n : i = Len(a) + k
      OBVIOUS
    <3>1. i - Len(a) \in 1 .. n /\ i = Len(a) + (i - Len(a))
      BY <1>1
    <3> QED BY <3>1
  <2>4. All(a) \cup {b[i] : i \in 1 .. n} \subseteq {s[i] : i \in 1 .. (Len(a) + n)}
    BY <2>1, <2>2 DEF All
  <2>5. {s[i] : i \in 1 .. (Len(a) + n)} \subseteq All(a) \cup {b[i] : i \in 1 .. n}
    <3> SUFFICES ASSUME NEW i \in 1 .. (Len(a) + n) PROVE s[i] \in All(a) \cup {b[k] : k \in 1 .. n}
      OBVIOUS
    <3>1. CASE i \in 1 .. Len(a)
      BY <2>1, <3>1 DEF All
    <3>2. CASE \E k \in 1 .. n : i = Len(a) + k
      BY <2>2, <3>2
    <3> QED BY <2>3, <3>1, <3>2
  <2> QED BY <2>4, <2>5
<1>4. ASSUME NEW j \in 1 .. Len(a) PROVE Place(q, s[j], G \cup Before(s, j))
  <2>1. j - 1 \in Nat /\ j - 1 <= Len(a) /\ s[j] = a[j]
    BY <1>1
  <2>2. Before(s, j) = Before(a, j)
    BY <2>1, <1>2 DEF Before
  <2> QED BY <2>1, <2>2 DEF Charted
<1>5. ASSUME NEW k \in 1 .. Len(b) PROVE Place(q, s[Len(a) + k], G \cup Before(s, Len(a) + k))
  <2>1. /\ k - 1 \in Nat /\ k - 1 <= Len(b) /\ s[Len(a) + k] = b[k]
        /\ (Len(a) + k) - 1 = Len(a) + (k - 1)
    <3>1. /\ Len(a) + k \in 1 .. Len(a) + Len(b) /\ ~(Len(a) + k <= Len(a))
          /\ (Len(a) + k) - Len(a) = k
      BY <1>1
    <3>2. s[Len(a) + k] = b[(Len(a) + k) - Len(a)]
      BY <3>1, <1>1
    <3> QED BY <3>1, <3>2, <1>1
  <2>2. Before(s, Len(a) + k) = All(a) \cup Before(b, k)
    BY <2>1, <1>3 DEF Before
  <2>3. G \cup (All(a) \cup Before(b, k)) = (G \cup All(a)) \cup Before(b, k)
    OBVIOUS
  <2> QED BY <2>1, <2>2, <2>3 DEF Charted
<1>6. Charted(q, s, G)
  <2> SUFFICES ASSUME NEW j \in 1 .. Len(s) PROVE Place(q, s[j], G \cup Before(s, j))
    BY <1>1 DEF Charted
  <2>1. CASE j <= Len(a)
    <3>1. j \in 1 .. Len(a)
      BY <1>1, <2>1
    <3> QED BY <3>1, <1>4
  <2>2. CASE j > Len(a)
    <3>1. j - Len(a) \in 1 .. Len(b) /\ j = Len(a) + (j - Len(a))
      BY <1>1, <2>2
    <3> QED BY <3>1, <1>5
  <2> QED BY <1>1, <2>1, <2>2
<1>7. All(s) = All(a) \cup All(b)
  <2>1. {s[i] : i \in 1 .. (Len(a) + Len(b))} = All(a) \cup {b[i] : i \in 1 .. Len(b)}
    <3>1. Len(b) \in Nat /\ Len(b) <= Len(b)
      BY <1>1
    <3> QED BY <3>1, <1>3
  <2> QED BY <2>1, <1>1 DEF All
<1> QED BY <1>1, <1>6, <1>7 DEF s, Joined

(* No lock, one lock, and one after those of a chart. *)
LEMMA ChartNone ==
    ASSUME NEW q, NEW G, NEW A
    PROVE  <<>> \in Seq(A) /\ Charted(q, <<>>, G) /\ All(<<>>) = {}
<1> DEFINE s == <<>>
<1>1. Len(s) = 0 /\ s \in Seq(A)
  OBVIOUS
<1>2. 1 .. 0 = {}
  OBVIOUS
<1> HIDE DEF s
<1>3. Charted(q, s, G) /\ All(s) = {}
  BY <1>1, <1>2 DEF Charted, All
<1> QED BY <1>1, <1>3 DEF s

LEMMA ChartOne ==
    ASSUME NEW q, NEW G, NEW A, NEW a \in A, Place(q, a, G)
    PROVE  <<a>> \in Seq(A) /\ Charted(q, <<a>>, G) /\ All(<<a>>) = {a}
<1> DEFINE s == <<a>>
<1>1. Len(s) = 1 /\ s \in Seq(A) /\ s[1] = a
  OBVIOUS
<1>2. 1 .. 1 = {1} /\ 1 .. (1 - 1) = {}
  OBVIOUS
<1> HIDE DEF s
<1>3. G \cup Before(s, 1) = G
  BY <1>2 DEF Before
<1>4. Place(q, s[1], G \cup Before(s, 1))
  BY <1>1, <1>3
<1>5. Charted(q, s, G)
  BY <1>1, <1>2, <1>4 DEF Charted
<1>6. All(s) = {a}
  BY <1>1, <1>2 DEF All
<1> QED BY <1>1, <1>5, <1>6 DEF s

LEMMA ChartTwo ==
    ASSUME NEW q, NEW G, NEW A, NEW a \in A, NEW b \in A,
           Place(q, a, G), Place(q, b, G \cup {a})
    PROVE  <<a, b>> \in Seq(A) /\ Charted(q, <<a, b>>, G) /\ All(<<a, b>>) = {a, b}
<1> DEFINE s == <<a, b>>
<1>1. Len(s) = 2 /\ s \in Seq(A) /\ s[1] = a /\ s[2] = b
  OBVIOUS
<1>2. 1 .. 2 = {1, 2} /\ 1 .. (1 - 1) = {} /\ 1 .. (2 - 1) = {1}
  OBVIOUS
<1> HIDE DEF s
<1>3. G \cup Before(s, 1) = G /\ G \cup Before(s, 2) = G \cup {a}
  BY <1>1, <1>2 DEF Before
<1>4. Place(q, s[1], G \cup Before(s, 1)) /\ Place(q, s[2], G \cup Before(s, 2))
  BY <1>1, <1>3
<1>5. Charted(q, s, G)
  BY <1>1, <1>2, <1>4 DEF Charted
<1>6. All(s) = {a, b}
  BY <1>1, <1>2 DEF All
<1> QED BY <1>1, <1>5, <1>6 DEF s

LEMMA ChartThree ==
    ASSUME NEW q, NEW G, NEW A, NEW a \in A, NEW b \in A, NEW c \in A,
           Place(q, a, G), Place(q, b, G \cup {a}), Place(q, c, G \cup {a, b})
    PROVE  /\ <<a, b, c>> \in Seq(A) /\ Charted(q, <<a, b, c>>, G)
           /\ All(<<a, b, c>>) = {a, b, c}
<1> DEFINE s == <<a, b, c>>
<1>1. Len(s) = 3 /\ s \in Seq(A) /\ s[1] = a /\ s[2] = b /\ s[3] = c
  OBVIOUS
<1>2. /\ 1 .. 3 = {1, 2, 3} /\ 1 .. (1 - 1) = {} /\ 1 .. (2 - 1) = {1}
      /\ 1 .. (3 - 1) = {1, 2}
  OBVIOUS
<1> HIDE DEF s
<1>3. /\ G \cup Before(s, 1) = G /\ G \cup Before(s, 2) = G \cup {a}
      /\ G \cup Before(s, 3) = G \cup {a, b}
  BY <1>1, <1>2 DEF Before
<1>4. /\ Place(q, s[1], G \cup Before(s, 1)) /\ Place(q, s[2], G \cup Before(s, 2))
      /\ Place(q, s[3], G \cup Before(s, 3))
  BY <1>1, <1>3
<1>5. Charted(q, s, G)
  BY <1>1, <1>2, <1>4 DEF Charted
<1>6. All(s) = {a, b, c}
  BY <1>1, <1>2 DEF All
<1> QED BY <1>1, <1>5, <1>6 DEF s

LEMMA ChartFive ==
    ASSUME NEW q, NEW G, NEW A, NEW a \in A, NEW b \in A, NEW c \in A, NEW d \in A, NEW e \in A,
           Place(q, a, G), Place(q, b, G \cup {a}), Place(q, c, G \cup {a, b}),
           Place(q, d, G \cup {a, b, c}), Place(q, e, G \cup {a, b, c, d})
    PROVE  /\ <<a, b, c, d, e>> \in Seq(A) /\ Charted(q, <<a, b, c, d, e>>, G)
           /\ All(<<a, b, c, d, e>>) = {a, b, c, d, e}
<1> DEFINE s == <<a, b, c, d, e>>
<1>1. /\ Len(s) = 5 /\ s \in Seq(A)
      /\ s[1] = a /\ s[2] = b /\ s[3] = c /\ s[4] = d /\ s[5] = e
  OBVIOUS
<1>2. /\ 1 .. 5 = {1, 2, 3, 4, 5} /\ 1 .. (1 - 1) = {} /\ 1 .. (2 - 1) = {1}
      /\ 1 .. (3 - 1) = {1, 2} /\ 1 .. (4 - 1) = {1, 2, 3} /\ 1 .. (5 - 1) = {1, 2, 3, 4}
  OBVIOUS
<1> HIDE DEF s
<1>3. /\ G \cup Before(s, 1) = G /\ G \cup Before(s, 2) = G \cup {a}
      /\ G \cup Before(s, 3) = G \cup {a, b} /\ G \cup Before(s, 4) = G \cup {a, b, c}
      /\ G \cup Before(s, 5) = G \cup {a, b, c, d}
  BY <1>1, <1>2 DEF Before
<1>4. /\ Place(q, s[1], G \cup Before(s, 1)) /\ Place(q, s[2], G \cup Before(s, 2))
      /\ Place(q, s[3], G \cup Before(s, 3)) /\ Place(q, s[4], G \cup Before(s, 4))
      /\ Place(q, s[5], G \cup Before(s, 5))
  BY <1>1, <1>3
<1>5. Charted(q, s, G)
  BY <1>1, <1>2, <1>4 DEF Charted
<1>6. All(s) = {a, b, c, d, e}
  BY <1>1, <1>2 DEF All
<1> QED BY <1>1, <1>5, <1>6 DEF s

(* One lock for each member of S, in ascending order. *)
EachPlaced(q, G, A, name, S, x) ==
    /\ S \in SUBSET Nat /\ IsFiniteSet(S)
    /\ \A s \in S :
          /\ Lock(<<name, s>>, x) \in A
          /\ Place(q, Lock(<<name, s>>, x),
                   G \cup {Lock(<<name, r>>, x) : r \in {t \in S : t < s}})

EachCharted(q, G, A, name, S, x) ==
    /\ Each(name, S, x) \in Seq(A)
    /\ Charted(q, Each(name, S, x), G)
    /\ \A h : h \in All(Each(name, S, x)) <=> \E s \in S : h = Lock(<<name, s>>, x)

(* Such a list is charted. *)
LEMMA ChartEach ==
    ASSUME NEW q, NEW G, NEW A, NEW name, NEW x, NEW S, EachPlaced(q, G, A, name, S, x)
    PROVE  EachCharted(q, G, A, name, S, x)
<1>0. S \in SUBSET Nat /\ IsFiniteSet(S)
  BY DEF EachPlaced
<1> PICK n \in Nat : n = Cardinality(S)
  BY <1>0, AscendingOrder
<1> PICK f : f = Ascending(S)
  OBVIOUS
<1> PICK e : e = Each(name, S, x)
  OBVIOUS
<1> DEFINE lock(s) == Lock(<<name, s>>, x)
<1>1. /\ \A i \in 1 .. n : f[i] \in S
      /\ \A i, j \in 1 .. n : i < j => f[i] < f[j]
      /\ \A s \in S : \E i \in 1 .. n : f[i] = s
  BY <1>0, AscendingOrder
<1>2. e = [i \in 1 .. n |-> lock(f[i])]
  BY DEF Each
<1>3. \A s \in S : lock(s) \in A
  BY DEF EachPlaced
<1>4. \A s \in S : Place(q, lock(s), G \cup {lock(r) : r \in {t \in S : t < s}})
  BY DEF EachPlaced
<1> HIDE DEF lock
<1>5. Len(e) = n /\ e \in Seq(A) /\ \A i \in 1 .. n : e[i] = lock(f[i])
  <2>1. \A i \in 1 .. n : lock(f[i]) \in A
    BY <1>1, <1>3
  <2>2. e \in [1 .. n -> A] /\ \A i \in 1 .. n : e[i] = lock(f[i])
    BY <1>2, <2>1
  <2>3. Len(e) = n /\ e \in Seq(A)
    BY <2>2
  <2> QED BY <2>2, <2>3
<1>6. All(e) = {lock(s) : s \in S}
  <2>1. ASSUME NEW s \in S PROVE lock(s) \in All(e)
    <3>1. PICK i \in 1 .. n : f[i] = s
      BY <1>1
    <3>2. e[i] = lock(s)
      BY <3>1, <1>5
    <3> QED BY <3>2, <1>5 DEF All
  <2>2. ASSUME NEW i \in 1 .. Len(e) PROVE e[i] \in {lock(s) : s \in S}
    BY <1>1, <1>5
  <2> QED BY <2>1, <2>2 DEF All
<1>7. ASSUME NEW j \in 1 .. n PROVE Before(e, j) = {lock(r) : r \in {t \in S : t < f[j]}}
  <2>1. \A i \in 1 .. (j - 1) : i \in 1 .. n /\ i < j
    OBVIOUS
  <2>2. \A i \in 1 .. (j - 1) : f[i] \in {t \in S : t < f[j]} /\ e[i] = lock(f[i])
    BY <2>1, <1>1, <1>5
  <2>3. \A t \in S : t < f[j] => \E i \in 1 .. (j - 1) : f[i] = t
    <3> SUFFICES ASSUME NEW t \in S, t < f[j] PROVE \E i \in 1 .. (j - 1) : f[i] = t
      OBVIOUS
    <3>1. PICK i \in 1 .. n : f[i] = t
      BY <1>1
    <3>2. f[j] \in Nat /\ t \in Nat
      BY <1>0, <1>1
    <3>3. ~(j < i) /\ i # j
      BY <3>1, <3>2, <1>1
    <3>4. i \in 1 .. (j - 1)
      BY <3>3
    <3> QED BY <3>1, <3>4
  <2>4. ASSUME NEW t \in S, t < f[j] PROVE lock(t) \in Before(e, j)
    <3>1. PICK i \in 1 .. (j - 1) : f[i] = t
      BY <2>3, <2>4
    <3>2. e[i] = lock(t)
      BY <3>1, <2>2
    <3> QED BY <3>2 DEF Before
  <2>5. ASSUME NEW i \in 1 .. (j - 1) PROVE e[i] \in {lock(r) : r \in {t \in S : t < f[j]}}
    BY <2>2
  <2> QED BY <2>4, <2>5 DEF Before
<1>8. Charted(q, e, G)
  <2> SUFFICES ASSUME NEW j \in 1 .. n PROVE Place(q, e[j], G \cup Before(e, j))
    BY <1>5 DEF Charted
  <2> PICK s \in S : s = f[j]
    BY <1>1
  <2>1. Place(q, lock(s), G \cup {lock(r) : r \in {t \in S : t < s}})
    BY <1>4
  <2>2. e[j] = lock(s)
    BY <1>5
  <2>3. Before(e, j) = {lock(r) : r \in {t \in S : t < s}}
    BY <1>7
  <2> QED BY <2>1, <2>2, <2>3
<1>9. \A h : h \in All(e) <=> \E s \in S : h = lock(s)
  BY <1>6
<1> QED BY <1>5, <1>8, <1>9 DEF lock, EachCharted

LEMMA ChartFour ==
    ASSUME NEW q, NEW G, NEW A, NEW a \in A, NEW b \in A, NEW c \in A, NEW d \in A,
           Place(q, a, G), Place(q, b, G \cup {a}), Place(q, c, G \cup {a, b}),
           Place(q, d, G \cup {a, b, c})
    PROVE  /\ <<a, b, c, d>> \in Seq(A) /\ Charted(q, <<a, b, c, d>>, G)
           /\ All(<<a, b, c, d>>) = {a, b, c, d}
<1> DEFINE s == <<a, b, c, d>>
<1>1. Len(s) = 4 /\ s \in Seq(A) /\ s[1] = a /\ s[2] = b /\ s[3] = c /\ s[4] = d
  OBVIOUS
<1>2. /\ 1 .. 4 = {1, 2, 3, 4} /\ 1 .. (1 - 1) = {} /\ 1 .. (2 - 1) = {1}
      /\ 1 .. (3 - 1) = {1, 2} /\ 1 .. (4 - 1) = {1, 2, 3}
  OBVIOUS
<1> HIDE DEF s
<1>3. /\ G \cup Before(s, 1) = G /\ G \cup Before(s, 2) = G \cup {a}
      /\ G \cup Before(s, 3) = G \cup {a, b} /\ G \cup Before(s, 4) = G \cup {a, b, c}
  BY <1>1, <1>2 DEF Before
<1>4. /\ Place(q, s[1], G \cup Before(s, 1)) /\ Place(q, s[2], G \cup Before(s, 2))
      /\ Place(q, s[3], G \cup Before(s, 3)) /\ Place(q, s[4], G \cup Before(s, 4))
  BY <1>1, <1>3
<1>5. Charted(q, s, G)
  BY <1>1, <1>2, <1>4 DEF Charted
<1>6. All(s) = {a, b, c, d}
  BY <1>1, <1>2 DEF All
<1> QED BY <1>1, <1>5, <1>6 DEF s

(* The resources and the locks on them. *)
Resource ==
    {<<"cleanup">>, <<"organization">>, <<"operation">>, <<"transaction">>, <<"package">>}
      \cup ({"user"} \X User) \cup ({"tenant"} \X Tenant) \cup ({"generation"} \X Tenant)
      \cup ({"space"} \X Tenant \X {"sandbox", "production", "retired"})
      \cup ({"session"} \X Session) \cup ({"terminal"} \X Tenant)

AnyLock == [on : Resource, exclusive : BOOLEAN]

(* The locks of the scripts are locks. *)
LEMMA LockOf ==
    ASSUME NEW r \in Resource
    PROVE  /\ Share(r) \in AnyLock /\ Update(r) \in AnyLock
           /\ \A x \in BOOLEAN : Lock(r, x) \in AnyLock
BY DEF AnyLock, Share, Update, Lock

LEMMA ResourceOf ==
    /\ <<"cleanup">> \in Resource /\ <<"organization">> \in Resource
    /\ <<"operation">> \in Resource /\ <<"transaction">> \in Resource
    /\ <<"package">> \in Resource
    /\ \A u \in User : <<"user", u>> \in Resource
    /\ \A t \in Tenant : /\ <<"tenant", t>> \in Resource /\ <<"generation", t>> \in Resource
                         /\ <<"terminal", t>> \in Resource
                         /\ <<"space", t, "sandbox">> \in Resource
                         /\ <<"space", t, "production">> \in Resource
                         /\ <<"space", t, "retired">> \in Resource
    /\ \A s \in Session : <<"session", s>> \in Resource
BY DEF Resource

(* The account, tenant and space of the session that asks exist. *)
LEMMA CallerResources ==
    ASSUME NEW q \in Request, q.session \in Session
    PROVE  /\ Account(q) \in Resource /\ <<"session", q.session>> \in Resource
           /\ Home[q.session] # 0 =>
                 /\ Home[q.session] \in Tenant
                 /\ Space(q) \in Resource
BY LockOrderAssumption, ResourceOf DEF Account, Space

(* A lock alone in its class is at its place by what is held before. *)
LEMMA UserFits ==
    ASSUME NEW q, NEW u, NEW H, NEW a, a.on = <<"user", u>>, UserPlace(H)
    PROVE  Place(q, a, H)
BY DEF Place, UserPlace, Has

LEMMA TenantFits ==
    ASSUME NEW q, NEW t \in Tenant, NEW H, NEW a, a.on = <<"tenant", t>>, TenantPlace(q, a, H)
    PROVE  Place(q, a, H)
BY DEF Place, TenantPlace

LEMMA GenerationFits ==
    ASSUME NEW q, NEW t \in Tenant, NEW H, NEW a, a.on = <<"generation", t>>,
           GenerationPlace(q, a, H),
           \A h \in H : h.on[1] \notin {"operation", "transaction", "package"}
    PROVE  Place(q, a, H)
BY DEF Place

NoRows(H) == \A h \in H : h.on[1] \notin {"operation", "transaction", "package"}
UnderOne(a, H) == a.on[1] \in {"space", "terminal"} /\ UnderTenant(a, H)

LEMMA UnderFits ==
    ASSUME NEW q, NEW H, NEW a, UnderOne(a, H), NoRows(H)
    PROVE  Place(q, a, H)
BY DEF Place, NoRows, UnderOne

LEMMA SessionFits ==
    ASSUME NEW q, NEW H, NEW a, a.on[1] = "session", SessionPlace(q, a, H),
           \A h \in H : h.on[1] \notin {"operation", "transaction", "package"}
    PROVE  Place(q, a, H)
BY DEF Place

LEMMA RowFits ==
    ASSUME NEW q, NEW H, NEW a, a.on \in {<<"operation">>, <<"transaction">>, <<"package">>},
           \A h \in H : /\ h.on[1] \notin {"transaction", "package"}
                        /\ h.on[1] = "operation" => a.on = <<"transaction">>
    PROVE  Place(q, a, H)
BY DEF Place

LEMMA FirstFits ==
    ASSUME NEW q, NEW a, a.on \in {<<"cleanup">>, <<"organization">>}
    PROVE  Place(q, a, {})
BY DEF Place

(* What Lock, Share and Update make. *)
LEMMA LockParts ==
    \A r : /\ Share(r).on = r /\ Update(r).on = r
           /\ Share(r).exclusive = FALSE /\ Update(r).exclusive = TRUE
           /\ \A x : Lock(r, x).on = r /\ Lock(r, x).exclusive = x
BY DEF Share, Update, Lock

(* The class of the resource of a lock. *)
LEMMA PairClass ==
    \A n, v : /\ Share(<<n, v>>).on[1] = n /\ Update(<<n, v>>).on[1] = n
              /\ \A x : Lock(<<n, v>>, x).on[1] = n
BY DEF Share, Update, Lock

LEMMA EachClass ==
    \A n, v : /\ Lock(<<n, v>>, TRUE).on[1] = n /\ Lock(<<n, v>>, TRUE).on[2] = v
              /\ Lock(<<n, v>>, TRUE).exclusive = TRUE
              /\ Lock(<<n, v>>, FALSE).on[1] = n /\ Lock(<<n, v>>, FALSE).on[2] = v
              /\ Lock(<<n, v>>, FALSE).exclusive = FALSE
BY DEF Lock

LEMMA TripleClass == \A n, v, k : Share(<<n, v, k>>).on[1] = n /\ Update(<<n, v, k>>).on[1] = n
BY DEF Share, Update

(* The terminal of the session that asks, under a lock of its tenant. *)
LEMMA TerminalCharted ==
    ASSUME NEW q \in Request, q.session \in Session, Home[q.session] # 0, NEW G,
           Has(G, <<"tenant", Home[q.session]>>, FALSE),
           \A h \in G : h.on[1] \notin {"operation", "transaction", "package"}
    PROVE  /\ Terminal(q.session) \in Seq(AnyLock)
           /\ Charted(q, Terminal(q.session), G)
           /\ \A h \in All(Terminal(q.session)) :
                 h.on = <<"terminal", Home[q.session]>> /\ ~h.exclusive
<1>1. CASE q.session \in Enrolled
  <2> DEFINE a == Share(<<"terminal", Home[q.session]>>)
  <2>1. Terminal(q.session) = <<a>>
    BY <1>1 DEF Terminal
  <2>2. a \in AnyLock
    BY CallerResources, ResourceOf, LockOf
  <2>3. a.on = <<"terminal", Home[q.session]>> /\ a.exclusive = FALSE
    BY LockParts
  <2> HIDE DEF a
  <2>4. UnderTenant(a, G)
    BY <2>3 DEF UnderTenant, Has
  <2>5. Place(q, a, G)
    BY <2>3, <2>4, UnderFits DEF UnderOne, NoRows
  <2>6. <<a>> \in Seq(AnyLock) /\ Charted(q, <<a>>, G) /\ All(<<a>>) = {a}
    BY <2>2, <2>5, ChartOne
  <2> QED BY <2>1, <2>3, <2>6
<1>2. CASE q.session \notin Enrolled
  <2>1. Terminal(q.session) = <<>>
    BY <1>2 DEF Terminal
  <2>2. <<>> \in Seq(AnyLock) /\ Charted(q, <<>>, G) /\ All(<<>>) = {}
    BY ChartNone
  <2> QED BY <2>1, <2>2
<1> QED BY <1>1, <1>2

(* The kinds that begin with lockMutationIdentity, by the locks they take. *)
ByShare == {"mutation", "package", "revalidate", "switch_mode", "upgrade", "recover"}
ByUpdate == {"configure", "reset", "enroll", "revoke_terminal"}

(* Account, tenant, generation, space and session of the one who asks. *)
LEMMA SpineCharted ==
    ASSUME NEW q \in Request, q.kind \in ByShare \cup ByUpdate,
           q.session \in Session, Home[q.session] # 0,
           NEW x \in BOOLEAN, NEW y \in BOOLEAN, q.kind \in ByUpdate => x = TRUE,
           NEW sp \in {Space(q), <<"space", Home[q.session], "production">>},
           NEW s, s = <<Share(Account(q)), Lock(<<"tenant", Home[q.session]>>, x),
                        Lock(<<"generation", Home[q.session]>>, x), Share(sp),
                        Lock(<<"session", q.session>>, y)>>
    PROVE  /\ s \in Seq(AnyLock) /\ Charted(q, s, {})
           /\ All(s) = {Share(Account(q)), Lock(<<"tenant", Home[q.session]>>, x),
                        Lock(<<"generation", Home[q.session]>>, x), Share(sp),
                        Lock(<<"session", q.session>>, y)}
<1> DEFINE t == Home[q.session]
<1> PICK a : a = Share(Account(q))
  OBVIOUS
<1> PICK b : b = Lock(<<"tenant", t>>, x)
  OBVIOUS
<1> PICK c : c = Lock(<<"generation", t>>, x)
  OBVIOUS
<1> PICK d : d = Share(sp)
  OBVIOUS
<1> PICK e : e = Lock(<<"session", q.session>>, y)
  OBVIOUS
<1>1. /\ a \in AnyLock /\ b \in AnyLock /\ c \in AnyLock /\ d \in AnyLock /\ e \in AnyLock
      /\ t \in Tenant
  <2>1. t \in Tenant /\ sp \in Resource /\ Account(q) \in Resource
        /\ <<"session", q.session>> \in Resource
    BY CallerResources, ResourceOf
  <2>2. <<"tenant", t>> \in Resource /\ <<"generation", t>> \in Resource
    BY <2>1, ResourceOf
  <2> QED BY <2>1, <2>2, LockOf
<1>2. /\ a.on = <<"user", Holder[q.session]>> /\ a.exclusive = FALSE
      /\ b.on = <<"tenant", t>> /\ b.exclusive = x
      /\ c.on = <<"generation", t>> /\ c.exclusive = x
      /\ d.exclusive = FALSE /\ d.on = sp
      /\ sp = <<"space", t, "sandbox">> \/ sp = <<"space", t, "production">>
      /\ e.on = <<"session", q.session>> /\ e.exclusive = y
  BY LockParts DEF Account, Space
<1>3. Place(q, a, {})
  BY <1>2, UserFits DEF UserPlace
<1>4. Place(q, b, {} \cup {a})
  BY <1>1, <1>2, TenantFits DEF TenantPlace
<1>5. Place(q, c, {} \cup {a, b})
  BY <1>1, <1>2, GenerationFits DEF GenerationPlace
<1>6. Place(q, d, {} \cup {a, b, c})
  <2>1. UnderTenant(d, {a, b, c})
    BY <1>2 DEF UnderTenant, Has
  <2> QED BY <1>2, <2>1, UnderFits DEF UnderOne, NoRows
<1>7. Place(q, e, {} \cup {a, b, c, d})
  <2> DEFINE H == {a, b, c, d}
  <2>1. HasOwner(H, q.session, FALSE) /\ HasTenant(H, q.session, x)
        /\ HasTenant(H, q.session, FALSE)
    BY <1>2 DEF HasOwner, HasTenant, Has
  <2>2. \A h \in H : h.on[1] \in {"user", "tenant", "generation", "space"}
    BY <1>2
  <2> HIDE DEF H
  <2>3. Guarded(q, q.session, H)
    BY <2>1 DEF Guarded, ByShare, ByUpdate
  <2>4. SessionPlace(q, e, H)
    BY <1>2, <2>2, <2>3 DEF SessionPlace, ByShare, ByUpdate
  <2>5. Place(q, e, H)
    BY <1>2, <2>2, <2>4, SessionFits
  <2>6. {} \cup {a, b, c, d} = H
    BY DEF H
  <2> QED BY <2>5, <2>6
<1> HIDE DEF t
<1>8. s = <<a, b, c, d, e>>
  BY DEF t
<1> QED BY <1>1, <1>3, <1>4, <1>5, <1>6, <1>7, <1>8, ChartFive DEF t

(* A script that is charted from the start, and its locks. *)
Good(q, s) == s \in Seq(AnyLock) /\ Charted(q, s, {})

(* A charted script goes on. *)
Further(q, a, b) == Good(q, a) /\ b \in Seq(AnyLock) /\ Charted(q, b, All(a))

(* What goes further is charted as a whole. *)
LEMMA GoodOn ==
    ASSUME NEW q, NEW a, NEW b, Further(q, a, b)
    PROVE  Good(q, a \o b) /\ Joined(a, b, a \o b)
<1> PICK G : G = All(a)
  OBVIOUS
<1>1. G = {} \cup All(a)
  OBVIOUS
<1>2. /\ a \in Seq(AnyLock) /\ Charted(q, a, {})
      /\ b \in Seq(AnyLock) /\ Charted(q, b, G)
  BY DEF Good, Further
<1>3. a \o b \in Seq(AnyLock) /\ Charted(q, a \o b, {}) /\ Joined(a, b, a \o b)
  BY <1>1, <1>2, ChartOn
<1> QED BY <1>3 DEF Good

(* What the identity of a request leaves: its locks, under those of its    *)
(* account, tenant and session.                                            *)
Opened(q, x, y, G) ==
    /\ \A h \in G : \/ h = Share(Account(q))
                    \/ h = Lock(<<"tenant", Home[q.session]>>, x)
                    \/ h = Lock(<<"generation", Home[q.session]>>, x)
                    \/ h.on[1] = "space"
                    \/ h = Lock(<<"session", q.session>>, y)
                    \/ h.on[1] = "terminal"
    /\ {Share(Account(q)), Lock(<<"tenant", Home[q.session]>>, x),
        Lock(<<"generation", Home[q.session]>>, x),
        Lock(<<"session", q.session>>, y)} \subseteq G

(* lockMutationIdentity (store.go:373). *)
LEMMA IdentityCharted ==
    ASSUME NEW q \in Request, q.kind \in ByShare \cup ByUpdate,
           q.session \in Session, Home[q.session] # 0,
           NEW x \in BOOLEAN, NEW y \in BOOLEAN, q.kind \in ByUpdate => x = TRUE
    PROVE  /\ Identity(q, x, y) \in Seq(AnyLock) /\ Charted(q, Identity(q, x, y), {})
           /\ Opened(q, x, y, All(Identity(q, x, y)))
<1> DEFINE T == Terminal(q.session)
<1> PICK sp \in {Space(q), <<"space", Home[q.session], "production">>} : sp = Space(q)
  OBVIOUS
<1> DEFINE spine == <<Share(Account(q)), Lock(<<"tenant", Home[q.session]>>, x),
                      Lock(<<"generation", Home[q.session]>>, x), Share(sp),
                      Lock(<<"session", q.session>>, y)>>
<1>1. /\ Good(q, spine)
      /\ All(spine) = {Share(Account(q)), Lock(<<"tenant", Home[q.session]>>, x),
                       Lock(<<"generation", Home[q.session]>>, x), Share(sp),
                       Lock(<<"session", q.session>>, y)}
  <2>1. CASE x = TRUE /\ y = TRUE
    BY <2>1, SpineCharted DEF Good
  <2>2. CASE x = TRUE /\ y = FALSE
    BY <2>2, SpineCharted DEF Good
  <2>3. CASE x = FALSE /\ y = TRUE
    BY <2>3, SpineCharted DEF Good
  <2>4. CASE x = FALSE /\ y = FALSE
    BY <2>4, SpineCharted DEF Good
  <2> QED BY <2>1, <2>2, <2>3, <2>4
<1>2. Identity(q, x, y) = spine \o T
  BY DEF Identity
<1> HIDE DEF spine
<1>3. \A h \in All(spine) : h.on[1] \in {"user", "tenant", "generation", "space", "session"}
  BY <1>1, LockParts DEF Account, Space
<1>4. Has(All(spine), <<"tenant", Home[q.session]>>, FALSE)
  BY <1>1, LockParts DEF Has
<1>5. /\ T \in Seq(AnyLock) /\ Charted(q, T, All(spine))
      /\ \A h \in All(T) : h.on = <<"terminal", Home[q.session]>>
  BY <1>3, <1>4, TerminalCharted
<1> HIDE DEF T
<1>7. Good(q, spine \o T) /\ All(spine \o T) = All(spine) \cup All(T)
  BY <1>1, <1>5, GoodOn DEF Further, Joined
<1>8. Share(sp).on[1] = "space"
  BY LockParts DEF Space
<1>9. Opened(q, x, y, All(spine) \cup All(T))
  <2>1. \A h \in All(T) : h.on[1] = "terminal"
    BY <1>5
  <2> HIDE DEF T
  <2> QED BY <1>1, <1>8, <2>1 DEF Opened
<1> QED BY <1>2, <1>7, <1>9 DEF Good

(* Where the locks that an identity leaves belong. *)
LEMMA OpenedParts ==
    ASSUME NEW q, NEW x, NEW y, NEW G, Opened(q, x, y, G)
    PROVE  /\ \A h \in G : h.on[1] \in {"user", "tenant", "generation", "space", "session",
                                        "terminal"}
           /\ Has(G, <<"tenant", Home[q.session]>>, x)
           /\ HasOwner(G, q.session, FALSE) /\ HasTenant(G, q.session, x)
           /\ \A h \in G : h.on[1] = "session" => h.on[2] = q.session
BY LockParts DEF Opened, Has, HasOwner, HasTenant, Account

(* A pushed operation or a direct write. *)
LEMMA MutationCharted ==
    ASSUME NEW q \in Request, q.kind = "mutation" PROVE Good(q, Script(q))
<1> DEFINE I == Identity(q, FALSE, FALSE)
           a == Update(<<"operation">>)
           b == Update(<<"transaction">>)
<1>1. Script(q) = I \o <<a, b>>
  BY DEF Script, Mutation
<1>2. q.session \in Session /\ Home[q.session] # 0
  BY RequestAssumption DEF OfTenantSession, OfNoSession
<1>3. Good(q, I) /\ Opened(q, FALSE, FALSE, All(I))
  BY <1>2, IdentityCharted DEF ByShare, ByUpdate, Good
<1>4. /\ a \in AnyLock /\ b \in AnyLock /\ a.on = <<"operation">> /\ b.on = <<"transaction">>
  BY LockOf, ResourceOf, LockParts
<1> HIDE DEF I, a, b
<1>p. \A h \in All(I) : h.on[1] \in {"user", "tenant", "generation", "space", "session",
                                      "terminal"}
  BY <1>3, OpenedParts
<1>5. Place(q, a, All(I))
  <2>1. \A h \in All(I) : h.on[1] \notin {"operation", "transaction", "package"}
    BY <1>p
  <2> QED BY <1>4, <2>1, RowFits
<1>6. Place(q, b, All(I) \cup {a})
  <2>1. \A h \in All(I) \cup {a} : h.on[1] \notin {"transaction", "package"}
    BY <1>p, <1>4
  <2> QED BY <1>4, <2>1, RowFits
<1>7. <<a, b>> \in Seq(AnyLock) /\ Charted(q, <<a, b>>, All(I))
  BY <1>4, <1>5, <1>6, ChartTwo
<1> QED BY <1>1, <1>3, <1>7, GoodOn DEF Further

(* A write of a package. *)
LEMMA PackageCharted ==
    ASSUME NEW q \in Request, q.kind = "package" PROVE Good(q, Script(q))
<1> DEFINE I == Identity(q, FALSE, FALSE)
           a == Update(<<"package">>)
<1>1. Script(q) = I \o <<a>>
  BY DEF Script, PackageWrite
<1>2. q.session \in Session /\ Home[q.session] # 0
  BY RequestAssumption DEF OfTenantSession, OfNoSession
<1>3. Good(q, I) /\ Opened(q, FALSE, FALSE, All(I))
  BY <1>2, IdentityCharted DEF ByShare, ByUpdate, Good
<1>4. a \in AnyLock /\ a.on = <<"package">>
  BY LockOf, ResourceOf, LockParts
<1> HIDE DEF I, a
<1>p. \A h \in All(I) : h.on[1] \in {"user", "tenant", "generation", "space", "session",
                                      "terminal"}
  BY <1>3, OpenedParts
<1>5. Place(q, a, All(I))
  BY <1>p, <1>4, RowFits
<1>6. <<a>> \in Seq(AnyLock) /\ Charted(q, <<a>>, All(I))
  BY <1>4, <1>5, ChartOne
<1> QED BY <1>1, <1>3, <1>6, GoodOn DEF Further

(* The configuration of the Sandbox and the check of origins. *)
LEMMA CallerCharted ==
    ASSUME NEW q \in Request, q.kind \in {"revalidate", "configure"} PROVE Good(q, Script(q))
<1>1. q.session \in Session /\ Home[q.session] # 0
  BY RequestAssumption DEF OfTenantSession, OfNoSession
<1>2. CASE q.kind = "revalidate"
  <2>1. Script(q) = Identity(q, FALSE, FALSE)
    BY <1>2 DEF Script, Revalidate
  <2> QED BY <2>1, <1>1, <1>2, IdentityCharted DEF ByShare, ByUpdate, Good
<1>3. CASE q.kind = "configure"
  <2>1. Script(q) = Identity(q, TRUE, FALSE)
    BY <1>3 DEF Script, Configure
  <2> QED BY <2>1, <1>1, <1>3, IdentityCharted DEF ByShare, ByUpdate, Good
<1> QED BY <1>2, <1>3

(* A switch of mode. *)
LEMMA SwitchModeCharted ==
    ASSUME NEW q \in Request, q.kind = "switch_mode" PROVE Good(q, Script(q))
<1> DEFINE I == Identity(q, FALSE, TRUE)
           t == Home[q.session]
           a == Share(<<"space", t, "sandbox">>)
<1>1. Script(q) = I \o <<a>>
  BY DEF Script, SwitchMode
<1>2. q.session \in Session /\ t # 0 /\ t \in Tenant
  BY RequestAssumption, CallerResources DEF OfTenantSession, OfNoSession
<1>3. Good(q, I) /\ Opened(q, FALSE, TRUE, All(I))
  BY <1>2, IdentityCharted DEF ByShare, ByUpdate, Good
<1>4. a \in AnyLock /\ a.on = <<"space", t, "sandbox">> /\ a.exclusive = FALSE
  BY <1>2, LockOf, ResourceOf, LockParts
<1> HIDE DEF I, a
<1>5. Place(q, a, All(I))
  <2>1. Has(All(I), <<"tenant", t>>, FALSE)
    BY <1>3, OpenedParts
  <2>2. UnderTenant(a, All(I))
    <3>1. a.on[1] = "space" /\ a.on[2] = t /\ a.on[3] # "retired"
      BY <1>4
    <3> HIDE DEF t
    <3> QED BY <1>4, <2>1, <3>1 DEF UnderTenant, Has
  <2>3. \A h \in All(I) : h.on[1] \in {"user", "tenant", "generation", "space", "session",
                                        "terminal"}
    BY <1>3, OpenedParts
  <2> QED BY <1>4, <2>2, <2>3, UnderFits DEF UnderOne, NoRows
<1>6. <<a>> \in Seq(AnyLock) /\ Charted(q, <<a>>, All(I))
  BY <1>4, <1>5, ChartOne
<1> QED BY <1>1, <1>3, <1>6, GoodOn DEF Further

(* A recovery from a retired Sandbox. *)
LEMMA RecoverCharted ==
    ASSUME NEW q \in Request, q.kind = "recover" PROVE Good(q, Script(q))
<1> DEFINE t == Home[q.session]
           spine == <<Share(Account(q)), Lock(<<"tenant", t>>, FALSE),
                      Lock(<<"generation", t>>, FALSE), Share(<<"space", t, "production">>),
                      Lock(<<"session", q.session>>, TRUE)>>
<1>1. Script(q) = spine \o Terminal(q.session)
  BY DEF Script, Recover, Share, Update, Lock
<1>2. q.session \in Session /\ t # 0
  BY RequestAssumption DEF OfTenantSession, OfNoSession
<1>3. /\ Good(q, spine)
      /\ All(spine) = {Share(Account(q)), Lock(<<"tenant", t>>, FALSE),
                       Lock(<<"generation", t>>, FALSE), Share(<<"space", t, "production">>),
                       Lock(<<"session", q.session>>, TRUE)}
  BY <1>2, SpineCharted DEF ByShare, ByUpdate, Good
<1> HIDE DEF spine
<1>4. \A h \in All(spine) : h.on[1] \in {"user", "tenant", "generation", "space", "session"}
  <2>1. Share(<<"space", t, "production">>).on[1] = "space"
    BY TripleClass
  <2>2. /\ Share(Account(q)).on[1] = "user" /\ Lock(<<"tenant", t>>, FALSE).on[1] = "tenant"
        /\ Lock(<<"generation", t>>, FALSE).on[1] = "generation"
        /\ Lock(<<"session", q.session>>, TRUE).on[1] = "session"
    <3> PICK u : u = Holder[q.session]
      OBVIOUS
    <3>1. Account(q) = <<"user", u>>
      BY DEF Account
    <3>2. Share(<<"user", u>>).on[1] = "user"
      BY DEF Share
    <3>3. /\ Lock(<<"tenant", t>>, FALSE).on[1] = "tenant"
          /\ Lock(<<"generation", t>>, FALSE).on[1] = "generation"
      BY DEF Lock
    <3>4. Lock(<<"session", q.session>>, TRUE).on[1] = "session"
      BY DEF Lock
    <3> QED BY <3>1, <3>2, <3>3, <3>4
  <2> QED BY <1>3, <2>1, <2>2
<1>5. Has(All(spine), <<"tenant", t>>, FALSE)
  BY <1>3, LockParts DEF Has
<1>6. /\ Terminal(q.session) \in Seq(AnyLock)
      /\ Charted(q, Terminal(q.session), All(spine))
  BY <1>2, <1>4, <1>5, TerminalCharted
<1> QED BY <1>1, <1>3, <1>6, GoodOn DEF Further

(* The upgrade of a session. *)
LEMMA UpgradeCharted ==
    ASSUME NEW q \in Request, q.kind = "upgrade" PROVE Good(q, Script(q))
<1> DEFINE I == IF Home[q.session] = 0 THEN <<Share(Account(q))>> ELSE Identity(q, FALSE, FALSE)
           a == Update(<<"session", q.session>>)
<1>1. Script(q) = I \o <<a>>
  BY DEF Script, UpgradeSession
<1>2. q.session \in Session
  BY RequestAssumption DEF OfTenantSession, OfNoSession
<1>3. /\ Good(q, I)
      /\ HasOwner(All(I), q.session, FALSE) /\ HasTenant(All(I), q.session, FALSE)
      /\ \A h \in All(I) : h.on[1] \in {"user", "tenant", "generation", "space", "session",
                                        "terminal"}
  <2>1. CASE Home[q.session] = 0
    <3> DEFINE o == Share(Account(q))
    <3>1. o \in AnyLock /\ o.on = <<"user", Holder[q.session]>>
      BY <1>2, CallerResources, LockOf, LockParts DEF Account
    <3>2. I = <<o>>
      BY <2>1
    <3> HIDE DEF o, I
    <3>3. Place(q, o, {})
      BY <3>1, UserFits DEF UserPlace
    <3>4. Good(q, I) /\ All(I) = {o}
      BY <3>1, <3>2, <3>3, ChartOne DEF Good
    <3> QED BY <2>1, <3>1, <3>4 DEF HasOwner, HasTenant, Has
  <2>2. CASE Home[q.session] # 0
    <3>1. I = Identity(q, FALSE, FALSE)
      BY <2>2
    <3>2. Good(q, I) /\ Opened(q, FALSE, FALSE, All(I))
      BY <1>2, <2>2, <3>1, IdentityCharted DEF ByShare, ByUpdate, Good
    <3> HIDE DEF I
    <3> QED BY <3>2, OpenedParts
  <2> QED BY <2>1, <2>2
<1>4. a \in AnyLock /\ a.on = <<"session", q.session>>
  BY <1>2, LockOf, ResourceOf, LockParts
<1> HIDE DEF I, a
<1>5. Place(q, a, All(I))
  <2>1. a.on[1] = "session" /\ a.on[2] = q.session
    BY <1>4
  <2>2. Guarded(q, q.session, All(I))
    BY <1>3 DEF Guarded
  <2>3. SessionPlace(q, a, All(I))
    BY <1>2, <1>3, <2>1, <2>2 DEF SessionPlace
  <2> QED BY <1>3, <2>1, <2>3, SessionFits
<1>6. <<a>> \in Seq(AnyLock) /\ Charted(q, <<a>>, All(I))
  BY <1>4, <1>5, ChartOne
<1> QED BY <1>1, <1>3, <1>6, GoodOn DEF Further

(* A switch to another tenant. *)
LEMMA SwitchContextCharted ==
    ASSUME NEW q \in Request, q.kind = "switch_context" PROVE Good(q, Script(q))
<1> PICK a : a = Share(Account(q))
  OBVIOUS
<1> PICK b : b = Share(<<"tenant", q.tenant>>)
  OBVIOUS
<1> PICK c : c = Share(<<"terminal", q.tenant>>)
  OBVIOUS
<1> PICK d : d = Update(<<"session", q.session>>)
  OBVIOUS
<1>1. Script(q) = <<a, b, c, d>>
  BY DEF Script, SwitchContext
<1>2. q.session \in Session /\ q.tenant \in Tenant
  BY RequestAssumption DEF OfTenantSession, OfNoSession
<1>3. a \in AnyLock /\ b \in AnyLock /\ c \in AnyLock /\ d \in AnyLock
  BY <1>2, CallerResources, LockOf, ResourceOf
<1>4. /\ a.on = <<"user", Holder[q.session]>> /\ a.exclusive = FALSE
      /\ b.on = <<"tenant", q.tenant>> /\ b.exclusive = FALSE
      /\ c.on = <<"terminal", q.tenant>> /\ c.exclusive = FALSE
      /\ d.on = <<"session", q.session>>
  BY LockParts DEF Account
<1>5. Place(q, a, {})
  BY <1>4, UserFits DEF UserPlace
<1>6. Place(q, b, {} \cup {a})
  BY <1>2, <1>4, TenantFits DEF TenantPlace
<1>7. Place(q, c, {} \cup {a, b})
  <2>1. UnderTenant(c, {a, b})
    BY <1>4 DEF UnderTenant, Has
  <2> QED BY <1>4, <2>1, UnderFits DEF UnderOne, NoRows
<1>8. Place(q, d, {} \cup {a, b, c})
  <2>1. SessionPlace(q, d, {a, b, c})
    BY <1>2, <1>4 DEF SessionPlace, Guarded
  <2> QED BY <1>4, <2>1, SessionFits
<1> QED BY <1>1, <1>3, <1>5, <1>6, <1>7, <1>8, ChartFour DEF Good

(* A login. *)
LEMMA LoginCharted ==
    ASSUME NEW q \in Request, q.kind = "login" PROVE Good(q, Script(q))
<1> DEFINE t == Home[q.session]
           a == Share(Account(q))
           b == Share(<<"tenant", t>>)
<1>1. Script(q) = <<a, b>> \o Terminal(q.session)
  BY DEF Script, Login
<1>2. q.session \in Session /\ t # 0 /\ t \in Tenant
  BY RequestAssumption, CallerResources DEF OfTenantSession, OfNoSession
<1>3. a \in AnyLock /\ b \in AnyLock
  BY <1>2, CallerResources, LockOf, ResourceOf
<1>4. /\ a.on = <<"user", Holder[q.session]>> /\ a.exclusive = FALSE
      /\ b.on = <<"tenant", t>> /\ b.exclusive = FALSE
  BY LockParts DEF Account
<1> HIDE DEF a, b
<1>5. Place(q, a, {}) /\ Place(q, b, {} \cup {a})
  <2>1. Place(q, a, {})
    BY <1>4, UserFits DEF UserPlace
  <2>2. TenantPlace(q, b, {a})
    BY <1>2, <1>4 DEF TenantPlace
  <2>3. Place(q, b, {a})
    BY <1>2, <1>4, <2>2, TenantFits
  <2> QED BY <2>1, <2>3
<1>6. Good(q, <<a, b>>) /\ All(<<a, b>>) = {a, b}
  BY <1>3, <1>5, ChartTwo DEF Good
<1>7. Has({a, b}, <<"tenant", t>>, FALSE)
  BY <1>4 DEF Has
<1>8. /\ Terminal(q.session) \in Seq(AnyLock)
      /\ Charted(q, Terminal(q.session), {a, b})
  <2>1. \A h \in {a, b} : h.on[1] \notin {"operation", "transaction", "package"}
    BY <1>4
  <2> PICK G : G = {a, b}
    OBVIOUS
  <2>2. Has(G, <<"tenant", Home[q.session]>>, FALSE)
    BY <1>7
  <2>3. \A h \in G : h.on[1] \notin {"operation", "transaction", "package"}
    BY <2>1
  <2> HIDE DEF t
  <2> QED BY <1>2, <2>2, <2>3, TerminalCharted DEF t
<1> QED BY <1>1, <1>6, <1>8, GoodOn DEF Further

(* What guards a session still guards it when more is held. *)
LEMMA GuardedStill ==
    ASSUME NEW q, NEW s, NEW G, NEW H, G \subseteq H, Guarded(q, s, G),
           q.kind \notin {"switch_context", "logout"}
    PROVE  Guarded(q, s, H)
BY DEF Guarded, HasOwner, HasTenant, Has

(* Sessions in ascending order, each guarded by what was locked before. *)
AllGuarded(q, S, G) ==
    /\ q.kind \in {"reset", "revoke_terminal", "tenant_status", "manage_account",
                   "own_password", "operator"}
    /\ S \in SUBSET Session /\ NoRows(G)
    /\ \A s \in S : Guarded(q, s, G)
    /\ q.kind \in {"tenant_status", "manage_account", "own_password"} =>
          \A h \in G : /\ h.on[1] # "generation"
                       /\ h.on[1] = "session" => q.kind = "own_password" /\ h.on[2] = q.session

(* Such sessions are locked at their places. *)
LEMMA SessionsCharted ==
    ASSUME NEW q, NEW S, NEW G, AllGuarded(q, S, G)
    PROVE  /\ Each("session", S, TRUE) \in Seq(AnyLock)
           /\ Charted(q, Each("session", S, TRUE), G)
           /\ \A h : h \in All(Each("session", S, TRUE)) <=>
                     \E s \in S : h = Lock(<<"session", s>>, TRUE)
<1>0. S \in SUBSET Session /\ \A s \in S : Guarded(q, s, G)
  BY DEF AllGuarded
<1>1. IsFiniteSet(S) /\ S \in SUBSET Nat
  BY <1>0, LockOrderAssumption, FS_Subset
<1> PICK x \in BOOLEAN : x = TRUE
  OBVIOUS
<1> DEFINE L(s) == Lock(<<"session", s>>, x)
<1>2. \A s \in S : L(s) \in AnyLock
  BY <1>0, LockOf, ResourceOf
<1>3. \A s : L(s).on = <<"session", s>> /\ L(s).on[1] = "session" /\ L(s).on[2] = s
  <2>1. \A s : L(s).on = <<"session", s>>
    BY LockParts
  <2>2. \A s : <<"session", s>>[1] = "session" /\ <<"session", s>>[2] = s
    OBVIOUS
  <2> QED BY <2>1, <2>2
<1> HIDE DEF L
<1>4. ASSUME NEW s \in S PROVE Place(q, L(s), G \cup {L(r) : r \in {t \in S : t < s}})
  <2> PICK a : a = L(s)
    OBVIOUS
  <2> PICK H : H = G \cup {L(r) : r \in {t \in S : t < s}}
    OBVIOUS
  <2>1. a.on[1] = "session" /\ a.on[2] = s
    BY <1>3
  <2>2. \A h \in H : h \in G \/ \E r \in S : r < s /\ h = L(r)
    OBVIOUS
  <2>3. \A h \in H : h \in G \/ (h.on[1] = "session" /\ h.on[2] < s)
    BY <2>2, <1>3
  <2>4. Guarded(q, s, H)
    <3>1. Guarded(q, s, G) /\ G \subseteq H /\ q.kind \notin {"switch_context", "logout"}
      BY <1>0 DEF AllGuarded
    <3> QED BY <3>1, GuardedStill
  <2>5. SessionPlace(q, a, H)
    BY <1>0, <2>1, <2>3, <2>4 DEF SessionPlace, AllGuarded
  <2>6. \A h \in H : h.on[1] \notin {"operation", "transaction", "package"}
    BY <2>3 DEF AllGuarded, NoRows
  <2>7. Place(q, a, H)
    BY <2>1, <2>5, <2>6, SessionFits
  <2> QED BY <2>7
<1>5. EachPlaced(q, G, AnyLock, "session", S, x)
  BY <1>1, <1>2, <1>4 DEF EachPlaced, L
<1>6. EachCharted(q, G, AnyLock, "session", S, x)
  BY <1>5, ChartEach
<1> QED BY <1>6 DEF EachCharted

(* The generations of all tenants, in ascending order. *)
BeforeFanOut(q, G) ==
    \A h \in G : /\ h.on[1] \notin {"generation", "operation", "transaction", "package"}
                 /\ h.on[1] = "tenant" => ~h.exclusive
                 /\ h.on[1] = "session" =>
                       q.kind \in {"own_profile", "manage_account", "own_password", "operator"}

(* A shared change locks the generations of all tenants. *)
LEMMA FanOutCharted ==
    ASSUME NEW q, NEW G, BeforeFanOut(q, G)
    PROVE  FanOut \in Seq(AnyLock) /\ Charted(q, FanOut, G)
<1>1. IsFiniteSet(Tenant) /\ Tenant \in SUBSET Nat
  BY LockOrderAssumption
<1> PICK x \in BOOLEAN : x = FALSE
  OBVIOUS
<1> DEFINE L(t) == Lock(<<"generation", t>>, x)
<1>2. \A t \in Tenant : L(t) \in AnyLock
  BY LockOf, ResourceOf
<1>3. \A t : /\ L(t).on = <<"generation", t>> /\ L(t).on[1] = "generation" /\ L(t).on[2] = t
             /\ L(t).exclusive = x
  BY LockParts
<1> HIDE DEF L
<1>4. ASSUME NEW t \in Tenant PROVE Place(q, L(t), G \cup {L(r) : r \in {u \in Tenant : u < t}})
  <2> PICK a : a = L(t)
    OBVIOUS
  <2> PICK H : H = G \cup {L(r) : r \in {u \in Tenant : u < t}}
    OBVIOUS
  <2>1. a.on[1] = "generation" /\ a.on[2] = t
    BY <1>3
  <2>2. \A h \in H : h \in G \/ \E r \in Tenant : r < t /\ h = L(r)
    OBVIOUS
  <2>3. \A h \in H : h \in G \/ (h.on[1] = "generation" /\ h.on[2] < t)
    BY <2>2, <1>3
  <2>4. GenerationPlace(q, a, H)
    BY <2>1, <2>3 DEF GenerationPlace, BeforeFanOut
  <2>5. \A h \in H : h.on[1] \notin {"operation", "transaction", "package"}
    BY <2>3 DEF BeforeFanOut
  <2>6. Place(q, a, H)
    BY <2>1, <2>4, <2>5, <1>3, GenerationFits
  <2> QED BY <2>6
<1>5. EachPlaced(q, G, AnyLock, "generation", Tenant, x)
  BY <1>1, <1>2, <1>4 DEF EachPlaced, L
<1>6. EachCharted(q, G, AnyLock, "generation", Tenant, x)
  BY <1>5, ChartEach
<1> QED BY <1>6 DEF EachCharted, FanOut

(* The rows of all tenants, shared, in ascending order. *)
OfAccounts(G) == \A h \in G : h.on[1] \in {"organization", "user"}

(* The operator locks all tenants. *)
LEMMA TenantsCharted ==
    ASSUME NEW q, NEW G, OfAccounts(G)
    PROVE  /\ Each("tenant", Tenant, FALSE) \in Seq(AnyLock)
           /\ Charted(q, Each("tenant", Tenant, FALSE), G)
           /\ \A h : h \in All(Each("tenant", Tenant, FALSE)) <=>
                     \E t \in Tenant : h = Lock(<<"tenant", t>>, FALSE)
<1>1. IsFiniteSet(Tenant) /\ Tenant \in SUBSET Nat
  BY LockOrderAssumption
<1> PICK x \in BOOLEAN : x = FALSE
  OBVIOUS
<1> DEFINE L(t) == Lock(<<"tenant", t>>, x)
<1>2. \A t \in Tenant : L(t) \in AnyLock
  BY LockOf, ResourceOf
<1>3. \A t : /\ L(t).on = <<"tenant", t>> /\ L(t).on[1] = "tenant" /\ L(t).on[2] = t
             /\ L(t).exclusive = x
  BY LockParts
<1> HIDE DEF L
<1>4. ASSUME NEW t \in Tenant PROVE Place(q, L(t), G \cup {L(r) : r \in {u \in Tenant : u < t}})
  <2> PICK a : a = L(t)
    OBVIOUS
  <2> PICK H : H = G \cup {L(r) : r \in {u \in Tenant : u < t}}
    OBVIOUS
  <2>1. a.on[1] = "tenant" /\ a.on[2] = t
    BY <1>3
  <2>2. \A h \in H : h \in G \/ \E r \in Tenant : r < t /\ h = L(r)
    OBVIOUS
  <2>3. \A h \in H : h \in G \/ (h.on[1] = "tenant" /\ ~h.exclusive)
    BY <2>2, <1>3
  <2>4. TenantPlace(q, a, H)
    BY <2>1, <2>3, <1>3 DEF TenantPlace, OfAccounts
  <2>6. Place(q, a, H)
    BY <2>4, <1>3, TenantFits
  <2> QED BY <2>6
<1>5. EachPlaced(q, G, AnyLock, "tenant", Tenant, x)
  BY <1>1, <1>2, <1>4 DEF EachPlaced, L
<1>6. EachCharted(q, G, AnyLock, "tenant", Tenant, x)
  BY <1>5, ChartEach
<1> QED BY <1>6 DEF EachCharted

(* A logout. *)
LEMMA LogoutCharted ==
    ASSUME NEW q \in Request, q.kind = "logout" PROVE Good(q, Script(q))
<1> PICK a : a = Update(<<"session", q.session>>)
  OBVIOUS
<1>1. Script(q) = <<a>>
  BY DEF Script, Logout
<1>2. q.session \in Session
  BY RequestAssumption DEF OfNoSession
<1>3. a \in AnyLock /\ a.on = <<"session", q.session>>
  BY <1>2, LockOf, ResourceOf, LockParts
<1>4. Place(q, a, {})
  <2>1. SessionPlace(q, a, {})
    BY <1>2, <1>3 DEF SessionPlace, Guarded
  <2> QED BY <1>3, <2>1, SessionFits
<1> QED BY <1>1, <1>3, <1>4, ChartOne DEF Good

(* The identity of a request that changes the control plane, and a row under it. *)
RowOfTenant(q, a) ==
    \/ a = Update(<<"space", Home[q.session], "sandbox">>)
    \/ a = Update(<<"terminal", Home[q.session]>>)

(* A row of the tenant, under its exclusive locks. *)
LEMMA ChangeOpened ==
    ASSUME NEW q \in Request, q.kind \in {"reset", "enroll", "revoke_terminal"},
           NEW I, I = Identity(q, TRUE, FALSE),
           NEW a, RowOfTenant(q, a)
    PROVE  /\ Good(q, I) /\ a \in AnyLock /\ Place(q, a, All(I))
           /\ \A h \in All(I) \cup {a} : h.on[1] \in {"user", "tenant", "generation", "space",
                                                      "session", "terminal"}
           /\ Home[q.session] # 0 /\ q.session \in Session
           /\ Has(All(I) \cup {a}, <<"tenant", Home[q.session]>>, TRUE)
           /\ HasOwner(All(I) \cup {a}, q.session, FALSE)
<1>1. q.session \in Session /\ Home[q.session] # 0
  BY RequestAssumption DEF OfTenantSession, OfNoSession
<1>2. Good(q, I) /\ Opened(q, TRUE, FALSE, All(I))
  BY <1>1, IdentityCharted DEF ByShare, ByUpdate, Good
<1>3. /\ \A h \in All(I) : h.on[1] \in {"user", "tenant", "generation", "space", "session",
                                        "terminal"}
      /\ Has(All(I), <<"tenant", Home[q.session]>>, TRUE)
      /\ HasOwner(All(I), q.session, FALSE)
  <2> PICK x \in BOOLEAN : x = TRUE
    OBVIOUS
  <2>1. Opened(q, x, FALSE, All(I))
    BY <1>2
  <2>2. Has(All(I), <<"tenant", Home[q.session]>>, x)
    BY <2>1, OpenedParts
  <2> QED BY <2>1, <2>2, OpenedParts
<1>4. /\ a \in AnyLock /\ a.on[1] \in {"space", "terminal"} /\ a.on[2] = Home[q.session]
      /\ a.exclusive = TRUE /\ (a.on[1] = "space" => a.on[3] # "retired")
  <2> PICK t \in Tenant : t = Home[q.session]
    BY <1>1, LockOrderAssumption
  <2>1. CASE a = Update(<<"space", Home[q.session], "sandbox">>)
    <3>1. a \in AnyLock /\ a.on = <<"space", t, "sandbox">> /\ a.exclusive = TRUE
      BY <2>1, LockOf, ResourceOf, LockParts
    <3> QED BY <3>1
  <2>2. CASE a = Update(<<"terminal", Home[q.session]>>)
    <3>1. a \in AnyLock /\ a.on = <<"terminal", t>> /\ a.exclusive = TRUE
      BY <2>2, LockOf, ResourceOf, LockParts
    <3> QED BY <3>1
  <2> QED BY <2>1, <2>2 DEF RowOfTenant
<1>5. UnderTenant(a, All(I))
  BY <1>3, <1>4 DEF UnderTenant
<1>6. Place(q, a, All(I))
  <2>1. \A h \in All(I) : h.on[1] \notin {"operation", "transaction", "package"}
    BY <1>3
  <2> QED BY <1>4, <1>5, <2>1, UnderFits DEF UnderOne, NoRows
<1> QED BY <1>1, <1>2, <1>3, <1>4, <1>6 DEF Has, HasOwner

(* The enrolment of a terminal. *)
LEMMA EnrollCharted ==
    ASSUME NEW q \in Request, q.kind = "enroll" PROVE Good(q, Script(q))
<1> PICK I : I = Identity(q, TRUE, FALSE)
  OBVIOUS
<1> PICK a : a = Update(<<"terminal", Home[q.session]>>)
  OBVIOUS
<1> PICK b : b = Update(<<"session", q.session>>)
  OBVIOUS
<1> PICK G : G = All(I) \cup {a}
  OBVIOUS
<1>1. /\ Good(q, I) /\ a \in AnyLock /\ Place(q, a, All(I))
      /\ \A h \in G : h.on[1] \in {"user", "tenant", "generation", "space", "session",
                                   "terminal"}
      /\ Home[q.session] # 0 /\ q.session \in Session
      /\ Has(G, <<"tenant", Home[q.session]>>, TRUE)
      /\ HasOwner(G, q.session, FALSE)
  BY ChangeOpened DEF RowOfTenant
<1>2. b \in AnyLock /\ b.on = <<"session", q.session>>
  BY <1>1, LockOf, ResourceOf, LockParts
<1>3. Script(q) = I \o <<a, b>>
  BY DEF Script, Enroll
<1>4. Place(q, b, G)
  <2>1. b.on[1] = "session" /\ b.on[2] = q.session
    BY <1>2
  <2>2. Guarded(q, q.session, G)
    BY <1>1 DEF Guarded, HasTenant
  <2>3. SessionPlace(q, b, G)
    BY <1>1, <2>1, <2>2 DEF SessionPlace
  <2> QED BY <1>1, <2>1, <2>3, SessionFits
<1>5. <<a, b>> \in Seq(AnyLock) /\ Charted(q, <<a, b>>, All(I))
  BY <1>1, <1>2, <1>4, ChartTwo
<1> QED BY <1>1, <1>3, <1>5, GoodOn DEF Further

(* ResetSandbox and RevokeTerminal end with sessions of their tenant. *)
LEMMA ChangeCharted ==
    ASSUME NEW q \in Request, q.kind \in {"reset", "revoke_terminal"},
           NEW a, RowOfTenant(q, a),
           NEW S \in SUBSET Session, \A s \in S : Home[s] = Home[q.session]
    PROVE  Good(q, (Identity(q, TRUE, FALSE) \o <<a>>) \o Each("session", S, TRUE))
<1> PICK I : I = Identity(q, TRUE, FALSE)
  OBVIOUS
<1> PICK G : G = All(I) \cup {a}
  OBVIOUS
<1>1. /\ Good(q, I) /\ a \in AnyLock /\ Place(q, a, All(I))
      /\ \A h \in G : h.on[1] \in {"user", "tenant", "generation", "space", "session",
                                   "terminal"}
      /\ Home[q.session] # 0
      /\ Has(G, <<"tenant", Home[q.session]>>, TRUE)
  BY ChangeOpened
<1> DEFINE b == <<a>>
           s == I \o b
           e == Each("session", S, TRUE)
<1>2. b \in Seq(AnyLock) /\ Charted(q, b, All(I)) /\ All(b) = {a}
  BY <1>1, ChartOne
<1> HIDE DEF b
<1>3. Good(q, s) /\ All(s) = G
  <2>1. Further(q, I, b)
    BY <1>1, <1>2 DEF Further
  <2>2. Good(q, I \o b) /\ Joined(I, b, I \o b)
    BY <2>1, GoodOn
  <2> QED BY <2>2, <1>2 DEF Joined
<1> HIDE DEF s
<1>4. \A r \in S : Guarded(q, r, G)
  BY <1>1 DEF Guarded, HasTenant
<1>5. \A h \in G : h.on[1] \notin {"operation", "transaction", "package"}
  BY <1>1
<1>6. e \in Seq(AnyLock) /\ Charted(q, e, All(s))
  <2>1. AllGuarded(q, S, G)
    BY <1>4, <1>5 DEF AllGuarded, NoRows
  <2>2. /\ Each("session", S, TRUE) \in Seq(AnyLock)
        /\ Charted(q, Each("session", S, TRUE), G)
    BY <2>1, SessionsCharted
  <2> QED BY <2>2, <1>3
<1> HIDE DEF e
<1>7. Good(q, s \o e)
  BY <1>3, <1>6, GoodOn DEF Further
<1> QED BY <1>7 DEF s, b, e

(* A reset of the Sandbox. *)
LEMMA ResetCharted ==
    ASSUME NEW q \in Request, q.kind = "reset" PROVE Good(q, Script(q))
<1> PICK S : S = {s \in InSandbox : Home[s] = Home[q.session]}
  OBVIOUS
<1> PICK a : a = Update(<<"space", Home[q.session], "sandbox">>)
  OBVIOUS
<1>1. Script(q) = (Identity(q, TRUE, FALSE) \o <<a>>) \o Each("session", S, TRUE)
  BY DEF Script, Reset
<1>2. S \in SUBSET Session /\ \A s \in S : Home[s] = Home[q.session]
  BY LockOrderAssumption
<1> QED BY <1>1, <1>2, ChangeCharted DEF RowOfTenant

(* The revocation of a terminal. *)
LEMMA RevokeTerminalCharted ==
    ASSUME NEW q \in Request, q.kind = "revoke_terminal" PROVE Good(q, Script(q))
<1> PICK S : S = {s \in Enrolled : Home[s] = Home[q.session]}
  OBVIOUS
<1> PICK a : a = Update(<<"terminal", Home[q.session]>>)
  OBVIOUS
<1>1. Script(q) = (Identity(q, TRUE, FALSE) \o <<a>>) \o Each("session", S, TRUE)
  BY DEF Script, RevokeTerminal
<1>2. S \in SUBSET Session /\ \A s \in S : Home[s] = Home[q.session]
  BY LockOrderAssumption
<1> QED BY <1>1, <1>2, ChangeCharted DEF RowOfTenant

(* The activation of a Sandbox. *)
LEMMA ActivateCharted ==
    ASSUME NEW q \in Request, q.kind = "activate" PROVE Good(q, Script(q))
<1> PICK a : a = Share(<<"tenant", q.tenant>>)
  OBVIOUS
<1> PICK b : b = Update(<<"generation", q.tenant>>)
  OBVIOUS
<1>1. Script(q) = <<a, b>>
  BY DEF Script, Activate
<1>2. q.tenant \in Tenant
  BY RequestAssumption
<1>3. /\ a \in AnyLock /\ a.on = <<"tenant", q.tenant>> /\ a.exclusive = FALSE
      /\ b \in AnyLock /\ b.on = <<"generation", q.tenant>>
  BY <1>2, LockOf, ResourceOf, LockParts
<1>4. a.on[1] = "tenant" /\ a.on[2] = q.tenant /\ b.on[1] = "generation" /\ b.on[2] = q.tenant
  BY <1>3
<1>5. Place(q, a, {}) /\ Place(q, b, {a})
  <2>1. TenantPlace(q, a, {}) /\ GenerationPlace(q, b, {a})
    BY <1>2, <1>3, <1>4 DEF TenantPlace, GenerationPlace
  <2>2. Place(q, a, {})
    BY <1>2, <1>3, <2>1, TenantFits
  <2>3. Place(q, b, {a})
    BY <1>2, <1>3, <1>4, <2>1, GenerationFits
  <2> QED BY <2>2, <2>3
<1>6. Place(q, b, {} \cup {a})
  BY <1>5
<1> QED BY <1>1, <1>3, <1>5, <1>6, ChartTwo DEF Good

(* A tenant of a superadmin's or owner's choice, and its generation. *)
LEMMA TenantRowCharted ==
    ASSUME NEW q \in Request, q.session \in Session, NEW t \in Tenant,
           NEW s, s = <<Share(Account(q)), Update(<<"tenant", t>>), Share(<<"generation", t>>)>>
    PROVE  Good(q, s)
<1> PICK a : a = Share(Account(q))
  OBVIOUS
<1> PICK b : b = Update(<<"tenant", t>>)
  OBVIOUS
<1> PICK c : c = Share(<<"generation", t>>)
  OBVIOUS
<1>1. /\ a \in AnyLock /\ a.on = <<"user", Holder[q.session]>> /\ a.exclusive = FALSE
      /\ b \in AnyLock /\ b.on = <<"tenant", t>> /\ b.exclusive = TRUE
      /\ c \in AnyLock /\ c.on = <<"generation", t>>
  BY CallerResources, LockOf, ResourceOf, LockParts DEF Account
<1>2. /\ a.on[1] = "user" /\ b.on[1] = "tenant" /\ b.on[2] = t
      /\ c.on[1] = "generation" /\ c.on[2] = t
  BY <1>1
<1>3. Place(q, a, {})
  BY <1>1, UserFits DEF UserPlace
<1>4. Place(q, b, {a})
  <2>1. TenantPlace(q, b, {a})
    BY <1>1, <1>2 DEF TenantPlace
  <2> QED BY <1>1, <2>1, TenantFits
<1>5. Place(q, c, {a, b})
  <2>1. GenerationPlace(q, c, {a, b})
    BY <1>2 DEF GenerationPlace
  <2> QED BY <1>1, <1>2, <2>1, GenerationFits
<1>6. Place(q, b, {} \cup {a}) /\ Place(q, c, {} \cup {a, b})
  BY <1>4, <1>5
<1> QED BY <1>1, <1>3, <1>6, ChartThree DEF Good

(* A tenant setting, by its owner or by name. *)
LEMMA TenantSettingCharted ==
    ASSUME NEW q \in Request, q.kind \in {"tenant_setting", "tenant_name"}
    PROVE  Good(q, Script(q))
<1>1. CASE q.kind = "tenant_setting"
  <2>1. q.session \in Session /\ Home[q.session] \in Tenant
    BY <1>1, RequestAssumption, CallerResources DEF OfTenantSession, OfNoSession
  <2>2. Script(q) = <<Share(Account(q)), Update(<<"tenant", Home[q.session]>>),
                      Share(<<"generation", Home[q.session]>>)>>
    BY <1>1 DEF Script, TenantSetting
  <2> QED BY <2>1, <2>2, TenantRowCharted
<1>2. CASE q.kind = "tenant_name"
  <2>1. q.session \in Session /\ q.tenant \in Tenant
    BY <1>2, RequestAssumption DEF OfNoSession
  <2>2. Script(q) = <<Share(Account(q)), Update(<<"tenant", q.tenant>>),
                      Share(<<"generation", q.tenant>>)>>
    BY <1>2 DEF Script, TenantName
  <2> QED BY <2>1, <2>2, TenantRowCharted
<1> QED BY <1>1, <1>2

(* The organization, shared or not, and the account of the one who asks. *)
Organized(q, o, s) ==
    /\ o \in AnyLock /\ o.on = <<"organization">>
    /\ s = <<o, Update(Account(q))>>

(* The organization first, then an account. *)
LEMMA OrganizationCharted ==
    ASSUME NEW q \in Request, q.session \in Session, NEW o, NEW s, Organized(q, o, s)
    PROVE  /\ Good(q, s) /\ OfAccounts(All(s))
           /\ HasOwner(All(s), q.session, TRUE)
<1> PICK a : a = Update(Account(q))
  OBVIOUS
<1>1. /\ a \in AnyLock /\ a.on = <<"user", Holder[q.session]>> /\ a.exclusive = TRUE
      /\ o \in AnyLock /\ o.on = <<"organization">> /\ s = <<o, a>>
  BY CallerResources, LockOf, LockParts DEF Account, Organized
<1>2. a.on[1] = "user" /\ o.on[1] = "organization"
  BY <1>1
<1>3. Place(q, o, {})
  BY <1>1, FirstFits
<1>4. Place(q, a, {o})
  <2>1. UserPlace({o})
    BY <1>1, <1>2 DEF UserPlace, Has
  <2> QED BY <1>1, <2>1, UserFits
<1>5. Place(q, a, {} \cup {o})
  BY <1>4
<1>6. Good(q, s) /\ All(s) = {o, a}
  BY <1>1, <1>3, <1>5, ChartTwo DEF Good
<1> QED BY <1>1, <1>2, <1>6 DEF OfAccounts, HasOwner, Has

(* A new tenant. *)
LEMMA CreateTenantCharted ==
    ASSUME NEW q \in Request, q.kind = "create_tenant" PROVE Good(q, Script(q))
<1> PICK o : o = Update(<<"organization">>)
  OBVIOUS
<1>1. q.session \in Session
  BY RequestAssumption DEF OfNoSession
<1>2. Organized(q, o, Script(q))
  BY LockOf, ResourceOf, LockParts DEF Organized, Script, CreateTenant
<1> QED BY <1>1, <1>2, OrganizationCharted

(* A new account. *)
LEMMA CreateAccountCharted ==
    ASSUME NEW q \in Request, q.kind = "create_account" PROVE Good(q, Script(q))
<1> PICK o : o = Update(<<"organization">>)
  OBVIOUS
<1> DEFINE s == <<o, Update(Account(q))>>
<1>1. q.session \in Session
  BY RequestAssumption DEF OfNoSession
<1>2. Organized(q, o, s)
  BY LockOf, ResourceOf, LockParts DEF Organized
<1>3. Script(q) = s \o FanOut
  BY DEF Script, CreateAccount
<1> HIDE DEF s
<1>4. Good(q, s) /\ OfAccounts(All(s))
  BY <1>1, <1>2, OrganizationCharted
<1>5. BeforeFanOut(q, All(s))
  BY <1>4 DEF BeforeFanOut, OfAccounts
<1>6. FanOut \in Seq(AnyLock) /\ Charted(q, FanOut, All(s))
  BY <1>5, FanOutCharted
<1> QED BY <1>3, <1>4, <1>6, GoodOn DEF Further

(* The bootstrap of the first superadmin. *)
LEMMA FirstSuperadminCharted ==
    ASSUME NEW q \in Request, q.kind = "first_superadmin" PROVE Good(q, Script(q))
<1> PICK o : o = Update(<<"organization">>)
  OBVIOUS
<1> DEFINE s == <<o>>
           T == Each("tenant", Tenant, FALSE)
<1>1. Script(q) = (s \o T) \o FanOut
  BY DEF Script, FirstSuperadmin
<1>2. o \in AnyLock /\ o.on = <<"organization">> /\ o.on[1] = "organization"
  BY LockOf, ResourceOf, LockParts
<1>3. Place(q, o, {})
  BY <1>2, FirstFits
<1>4. Good(q, s) /\ All(s) = {o}
  BY <1>2, <1>3, ChartOne DEF Good
<1> HIDE DEF s
<1>5. OfAccounts(All(s))
  BY <1>2, <1>4 DEF OfAccounts
<1>6. /\ T \in Seq(AnyLock) /\ Charted(q, T, All(s))
      /\ \A h : h \in All(T) <=> \E t \in Tenant : h = Lock(<<"tenant", t>>, FALSE)
  BY <1>5, TenantsCharted
<1> HIDE DEF T
<1>7. Good(q, s \o T) /\ Joined(s, T, s \o T)
  BY <1>4, <1>6, GoodOn DEF Further
<1>8. BeforeFanOut(q, All(s \o T))
  <2>1. ASSUME NEW h \in All(T) PROVE h.on[1] = "tenant" /\ h.exclusive = FALSE
    <3>1. PICK t \in Tenant : h = Lock(<<"tenant", t>>, FALSE)
      BY <1>6
    <3>2. Lock(<<"tenant", t>>, FALSE).on[1] = "tenant"
      BY DEF Lock
    <3>3. Lock(<<"tenant", t>>, FALSE).exclusive = FALSE
      BY DEF Lock
    <3> QED BY <3>1, <3>2, <3>3
  <2>2. \A h \in All(s) : h.on[1] = "organization"
    BY <1>2, <1>4
  <2>3. \A h \in All(s \o T) : h \in All(s) \/ h \in All(T)
    BY <1>7 DEF Joined
  <2> QED BY <2>1, <2>2, <2>3 DEF BeforeFanOut
<1>9. FanOut \in Seq(AnyLock) /\ Charted(q, FanOut, All(s \o T))
  BY <1>8, FanOutCharted
<1> QED BY <1>1, <1>7, <1>9, GoodOn DEF Further

(* An operator's command. *)
LEMMA OperatorCharted ==
    ASSUME NEW q \in Request, q.kind = "operator" PROVE Good(q, Script(q))
<1> PICK o : o = Update(<<"organization">>)
  OBVIOUS
<1> PICK a : a = Update(<<"user", q.whom>>)
  OBVIOUS
<1> DEFINE s == <<o, a>>
           T == Each("tenant", Tenant, FALSE)
           S == SessionsOf(q.whom)
           e == Each("session", S, TRUE)
<1>1. Script(q) = ((s \o T) \o e) \o FanOut
  BY DEF Script, OperatorCommand
<1>2. q.whom \in User
  BY RequestAssumption
<1>3. /\ o \in AnyLock /\ o.on = <<"organization">>
      /\ a \in AnyLock /\ a.on = <<"user", q.whom>> /\ a.exclusive = TRUE
  BY <1>2, LockOf, ResourceOf, LockParts
<1>4. o.on[1] = "organization" /\ a.on[1] = "user"
  BY <1>3
<1>5. Good(q, s) /\ All(s) = {o, a}
  <2>1. Place(q, o, {})
    BY <1>3, FirstFits
  <2>2. UserPlace({o})
    BY <1>3, <1>4 DEF UserPlace, Has
  <2>3. Place(q, a, {o})
    BY <1>3, <2>2, UserFits
  <2>4. Place(q, a, {} \cup {o})
    BY <2>3
  <2> QED BY <1>3, <2>1, <2>4, ChartTwo DEF Good
<1> HIDE DEF s
<1>6. OfAccounts(All(s))
  BY <1>4, <1>5 DEF OfAccounts
<1>7. /\ T \in Seq(AnyLock) /\ Charted(q, T, All(s))
      /\ \A h : h \in All(T) <=> \E t \in Tenant : h = Lock(<<"tenant", t>>, FALSE)
  BY <1>6, TenantsCharted
<1> HIDE DEF T
<1> DEFINE G == All(s \o T)
<1>8. Good(q, s \o T) /\ Joined(s, T, s \o T)
  BY <1>5, <1>7, GoodOn DEF Further
<1>9. /\ \A h \in G : /\ h.on[1] \in {"organization", "user", "tenant"}
                      /\ h.on[1] = "tenant" => ~h.exclusive
      /\ a \in G /\ \A t \in Tenant : Has(G, <<"tenant", t>>, FALSE)
  <2>1. ASSUME NEW h \in All(T) PROVE h.on[1] = "tenant" /\ h.exclusive = FALSE
    <3>1. PICK t \in Tenant : h = Lock(<<"tenant", t>>, FALSE)
      BY <1>7
    <3>2. Lock(<<"tenant", t>>, FALSE).on[1] = "tenant"
      BY DEF Lock
    <3>3. Lock(<<"tenant", t>>, FALSE).exclusive = FALSE
      BY DEF Lock
    <3> QED BY <3>1, <3>2, <3>3
  <2>2. \A h : h \in G <=> h \in All(s) \/ h \in All(T)
    BY <1>8 DEF Joined
  <2>3. \A t \in Tenant : \E h \in G : h.on = <<"tenant", t>>
    <3> SUFFICES ASSUME NEW t \in Tenant PROVE \E h \in G : h.on = <<"tenant", t>>
      OBVIOUS
    <3>1. Lock(<<"tenant", t>>, FALSE).on = <<"tenant", t>>
      BY LockParts
    <3>2. Lock(<<"tenant", t>>, FALSE) \in G
      BY <1>7, <2>2
    <3> QED BY <3>1, <3>2
  <2> QED BY <1>4, <1>5, <2>1, <2>2, <2>3 DEF Has
<1> HIDE DEF G
<1>10. AllGuarded(q, S, G)
  <2>1. S \in SUBSET Session /\ \A r \in S : Holder[r] = q.whom
    BY DEF SessionsOf
  <2>2. \A r \in S : HasOwner(G, r, TRUE)
    BY <1>3, <1>9, <2>1 DEF HasOwner, Has
  <2>3. \A r \in S : HasTenant(G, r, FALSE)
    BY <1>9, <2>1, LockOrderAssumption DEF HasTenant
  <2>4. \A r \in S : Guarded(q, r, G)
    BY <2>2, <2>3 DEF Guarded
  <2> HIDE DEF S
  <2> QED BY <1>9, <2>1, <2>4 DEF AllGuarded, NoRows
<1>11. /\ e \in Seq(AnyLock) /\ Charted(q, e, G)
       /\ \A h : h \in All(e) <=> \E r \in S : h = Lock(<<"session", r>>, TRUE)
  BY <1>10, SessionsCharted
<1> HIDE DEF e, S
<1>12. Good(q, (s \o T) \o e) /\ Joined(s \o T, e, (s \o T) \o e)
  BY <1>8, <1>11, GoodOn DEF Further, G
<1>13. BeforeFanOut(q, All((s \o T) \o e))
  <2>1. ASSUME NEW h \in All(e) PROVE h.on[1] = "session"
    <3>1. PICK r \in S : h = Lock(<<"session", r>>, TRUE)
      BY <1>11
    <3> QED BY <3>1, EachClass
  <2>2. \A h \in All((s \o T) \o e) : h \in G \/ h \in All(e)
    BY <1>12 DEF Joined, G
  <2> QED BY <1>9, <2>1, <2>2 DEF BeforeFanOut
<1>14. FanOut \in Seq(AnyLock) /\ Charted(q, FanOut, All((s \o T) \o e))
  BY <1>13, FanOutCharted
<1> QED BY <1>1, <1>12, <1>14, GoodOn DEF Further

(* Accounts in ascending order, under the organization. *)
LEMMA UsersCharted ==
    ASSUME NEW q, NEW o, o.on = <<"organization">>, o.exclusive = TRUE,
           NEW U \in SUBSET User, IsFiniteSet(U)
    PROVE  EachCharted(q, {o}, AnyLock, "user", U, TRUE)
<1> PICK x \in BOOLEAN : x = TRUE
  OBVIOUS
<1> DEFINE L(u) == Lock(<<"user", u>>, x)
<1>1. U \in SUBSET Nat
  BY LockOrderAssumption
<1>2. \A u \in U : L(u) \in AnyLock
  BY LockOf, ResourceOf
<1>3. \A u : L(u).on = <<"user", u>> /\ L(u).on[1] = "user"
  <2>1. \A u : L(u).on = <<"user", u>>
    BY LockParts
  <2>2. \A u : <<"user", u>>[1] = "user"
    OBVIOUS
  <2> QED BY <2>1, <2>2
<1> HIDE DEF L
<1>4. ASSUME NEW u \in U PROVE Place(q, L(u), {o} \cup {L(r) : r \in {t \in U : t < u}})
  <2> PICK a : a = L(u)
    OBVIOUS
  <2> PICK H : H = {o} \cup {L(r) : r \in {t \in U : t < u}}
    OBVIOUS
  <2>1. \A h \in H : h = o \/ h.on[1] = "user"
    BY <1>3
  <2>2. o.on[1] = "organization"
    OBVIOUS
  <2>3. UserPlace(H)
    BY <2>1, <2>2 DEF UserPlace, Has
  <2>4. Place(q, a, H)
    BY <1>3, <2>3, UserFits
  <2> QED BY <2>4
<1>5. EachPlaced(q, {o}, AnyLock, "user", U, x)
  BY <1>1, <1>2, <1>4 DEF EachPlaced, L
<1>6. EachCharted(q, {o}, AnyLock, "user", U, x)
  BY <1>5, ChartEach
<1> QED BY <1>6

(* A change of a managed account. *)
LEMMA ManageAccountCharted ==
    ASSUME NEW q \in Request, q.kind = "manage_account" PROVE Good(q, Script(q))
<1> PICK o : o = Update(<<"organization">>)
  OBVIOUS
<1> DEFINE s == <<o>>
           U == {Holder[q.session], q.whom}
           T == Each("user", U, TRUE)
           S == SessionsOf(q.whom)
           e == Each("session", S, TRUE)
<1>1. Script(q) = ((s \o T) \o e) \o FanOut
  BY DEF Script, ManageAccount
<1>2. q.whom \in User /\ Holder[q.session] \in User
  BY RequestAssumption, LockOrderAssumption DEF OfNoSession
<1>3. o \in AnyLock /\ o.on = <<"organization">> /\ o.exclusive = TRUE
  BY LockOf, ResourceOf, LockParts
<1>4. o.on[1] = "organization"
  BY <1>3
<1>5. Good(q, s) /\ All(s) = {o}
  <2>1. Place(q, o, {})
    BY <1>3, FirstFits
  <2> QED BY <1>3, <2>1, ChartOne DEF Good
<1> HIDE DEF s
<1>6. IsFiniteSet(U) /\ U \in SUBSET User /\ q.whom \in U
  <2>1. IsFiniteSet({Holder[q.session]} \cup {q.whom})
    BY FS_Singleton, FS_Union
  <2>2. U = {Holder[q.session]} \cup {q.whom}
    OBVIOUS
  <2> QED BY <1>2, <2>1, <2>2
<1> HIDE DEF U
<1>7. /\ T \in Seq(AnyLock) /\ Charted(q, T, All(s))
      /\ \A h : h \in All(T) <=> \E u \in U : h = Lock(<<"user", u>>, TRUE)
  <2>1. EachCharted(q, {o}, AnyLock, "user", U, TRUE)
    BY <1>3, <1>6, UsersCharted
  <2> QED BY <1>5, <2>1 DEF EachCharted
<1> HIDE DEF T
<1> DEFINE G == All(s \o T)
<1>8. Good(q, s \o T) /\ Joined(s, T, s \o T)
  BY <1>5, <1>7, GoodOn DEF Further
<1>9. /\ \A h \in G : h.on[1] \in {"organization", "user"}
      /\ Has(G, <<"user", q.whom>>, TRUE)
  <2>1. ASSUME NEW h \in All(T) PROVE h.on[1] = "user"
    <3>1. PICK u \in U : h = Lock(<<"user", u>>, TRUE)
      BY <1>7
    <3> QED BY <3>1, EachClass
  <2>2. \A h : h \in G <=> h \in All(s) \/ h \in All(T)
    BY <1>8 DEF Joined
  <2> PICK h : h = Lock(<<"user", q.whom>>, TRUE)
    OBVIOUS
  <2>3. h \in All(T)
    BY <1>6, <1>7
  <2>4. h.on = <<"user", q.whom>> /\ h.exclusive = TRUE
    BY DEF Lock
  <2> QED BY <1>4, <1>5, <2>1, <2>2, <2>3, <2>4 DEF Has
<1> HIDE DEF G
<1>10. AllGuarded(q, S, G)
  <2>1. S \in SUBSET Session /\ \A r \in S : Holder[r] = q.whom
    BY DEF SessionsOf
  <2>2. \A r \in S : HasOwner(G, r, TRUE)
    BY <1>9, <2>1 DEF HasOwner
  <2>4. \A r \in S : Guarded(q, r, G)
    BY <2>2 DEF Guarded
  <2> HIDE DEF S
  <2> QED BY <1>9, <2>1, <2>4 DEF AllGuarded, NoRows
<1>11. /\ e \in Seq(AnyLock) /\ Charted(q, e, G)
       /\ \A h : h \in All(e) <=> \E r \in S : h = Lock(<<"session", r>>, TRUE)
  BY <1>10, SessionsCharted
<1> HIDE DEF e, S
<1>12. Good(q, (s \o T) \o e) /\ Joined(s \o T, e, (s \o T) \o e)
  BY <1>8, <1>11, GoodOn DEF Further, G
<1>13. BeforeFanOut(q, All((s \o T) \o e))
  <2>1. ASSUME NEW h \in All(e) PROVE h.on[1] = "session"
    <3>1. PICK r \in S : h = Lock(<<"session", r>>, TRUE)
      BY <1>11
    <3> QED BY <3>1, EachClass
  <2>2. \A h \in All((s \o T) \o e) : h \in G \/ h \in All(e)
    BY <1>12 DEF Joined, G
  <2> QED BY <1>9, <2>1, <2>2 DEF BeforeFanOut
<1>14. FanOut \in Seq(AnyLock) /\ Charted(q, FanOut, All((s \o T) \o e))
  BY <1>13, FanOutCharted
<1> QED BY <1>1, <1>12, <1>14, GoodOn DEF Further

(* What lockOwnAccount leaves. *)
Own(q, G) ==
    /\ \A h \in G : /\ h.on[1] \in {"organization", "user", "tenant", "session"}
                    /\ h.on[1] = "tenant" => ~h.exclusive
                    /\ h.on[1] = "session" => h.on[2] = q.session
    /\ HasOwner(G, q.session, TRUE)

(* lockOwnAccount. *)
LEMMA OwnAccountCharted ==
    ASSUME NEW q \in Request, q.kind \in {"own_profile", "own_password"}
    PROVE  Good(q, OwnAccount(q)) /\ Own(q, All(OwnAccount(q)))
<1> PICK o : o = Share(<<"organization">>)
  OBVIOUS
<1> PICK b : b = Update(<<"session", q.session>>)
  OBVIOUS
<1> DEFINE s == <<o, Update(Account(q))>>
           T == IF Home[q.session] = 0 THEN <<>> ELSE <<Share(<<"tenant", Home[q.session]>>)>>
           B == <<b>>
<1>1. OwnAccount(q) = (s \o T) \o B
  BY DEF OwnAccount
<1>2. q.session \in Session
  BY RequestAssumption DEF OfNoSession
<1>3. Organized(q, o, s)
  BY LockOf, ResourceOf, LockParts DEF Organized
<1> HIDE DEF s
<1>4. Good(q, s) /\ OfAccounts(All(s)) /\ HasOwner(All(s), q.session, TRUE)
  BY <1>2, <1>3, OrganizationCharted
<1>5. /\ T \in Seq(AnyLock) /\ Charted(q, T, All(s))
      /\ \A h \in All(T) : h.on[1] = "tenant" /\ h.exclusive = FALSE
      /\ HasTenant(All(T), q.session, FALSE)
  <2>1. CASE Home[q.session] = 0
    <3>1. T = <<>>
      BY <2>1
    <3> HIDE DEF T
    <3>2. T \in Seq(AnyLock) /\ Charted(q, T, All(s)) /\ All(T) = {}
      BY <3>1, ChartNone
    <3> QED BY <2>1, <3>2 DEF HasTenant
  <2>2. CASE Home[q.session] # 0
    <3> PICK t \in Tenant : t = Home[q.session]
      BY <1>2, <2>2, CallerResources
    <3> PICK c : c = Share(<<"tenant", t>>)
      OBVIOUS
    <3>1. T = <<c>>
      BY <2>2
    <3>2. c \in AnyLock /\ c.on = <<"tenant", t>> /\ c.exclusive = FALSE
      BY LockOf, ResourceOf, LockParts
    <3>3. c.on[1] = "tenant" /\ c.on[2] = t
      BY <3>2
    <3>4. TenantPlace(q, c, All(s))
      BY <1>4, <3>2, <3>3 DEF TenantPlace, OfAccounts
    <3>5. Place(q, c, All(s))
      BY <3>2, <3>4, TenantFits
    <3> HIDE DEF T
    <3>6. T \in Seq(AnyLock) /\ Charted(q, T, All(s)) /\ All(T) = {c}
      BY <3>1, <3>2, <3>5, ChartOne
    <3> QED BY <3>2, <3>3, <3>6 DEF HasTenant, Has
  <2> QED BY <2>1, <2>2
<1> HIDE DEF T
<1> DEFINE G == All(s \o T)
<1>6. Good(q, s \o T) /\ Joined(s, T, s \o T)
  BY <1>4, <1>5, GoodOn DEF Further
<1>7. /\ \A h \in G : /\ h.on[1] \in {"organization", "user", "tenant"}
                      /\ h.on[1] = "tenant" => ~h.exclusive
      /\ HasOwner(G, q.session, TRUE) /\ HasTenant(G, q.session, FALSE)
  <2>1. \A h : h \in G <=> h \in All(s) \/ h \in All(T)
    BY <1>6 DEF Joined
  <2> QED BY <1>4, <1>5, <2>1 DEF OfAccounts, HasOwner, HasTenant, Has
<1> HIDE DEF G
<1>8. b \in AnyLock /\ b.on = <<"session", q.session>>
  BY <1>2, LockOf, ResourceOf, LockParts
<1>9. b.on[1] = "session" /\ b.on[2] = q.session
  BY <1>8
<1>10. Place(q, b, G)
  <2>1. Guarded(q, q.session, G)
    BY <1>7 DEF Guarded
  <2>2. SessionPlace(q, b, G)
    BY <1>2, <1>7, <1>9, <2>1 DEF SessionPlace
  <2> QED BY <1>7, <1>9, <2>2, SessionFits
<1>11. B \in Seq(AnyLock) /\ Charted(q, B, G) /\ All(B) = {b}
  BY <1>8, <1>10, ChartOne
<1> HIDE DEF B
<1>12. Good(q, (s \o T) \o B) /\ Joined(s \o T, B, (s \o T) \o B)
  BY <1>6, <1>11, GoodOn DEF Further, G
<1>13. Own(q, All((s \o T) \o B))
  <2>1. \A h : h \in All((s \o T) \o B) <=> h \in G \/ h = b
    BY <1>11, <1>12 DEF Joined, G
  <2> QED BY <1>7, <1>9, <2>1 DEF Own, HasOwner, Has
<1> QED BY <1>1, <1>12, <1>13

(* A change of one's own profile. *)
LEMMA OwnProfileCharted ==
    ASSUME NEW q \in Request, q.kind = "own_profile" PROVE Good(q, Script(q))
<1> PICK s : s = OwnAccount(q)
  OBVIOUS
<1>1. Script(q) = s \o FanOut
  BY DEF Script, OwnProfile
<1>2. Good(q, s) /\ Own(q, All(s))
  BY OwnAccountCharted
<1>3. BeforeFanOut(q, All(s))
  BY <1>2 DEF BeforeFanOut, Own
<1>4. FanOut \in Seq(AnyLock) /\ Charted(q, FanOut, All(s))
  BY <1>3, FanOutCharted
<1> QED BY <1>1, <1>2, <1>4, GoodOn DEF Further

(* A change of one's own password. *)
LEMMA OwnPasswordCharted ==
    ASSUME NEW q \in Request, q.kind = "own_password" PROVE Good(q, Script(q))
<1> PICK s : s = OwnAccount(q)
  OBVIOUS
<1> DEFINE S == SessionsOf(Holder[q.session]) \ {q.session}
           e == Each("session", S, TRUE)
           G == All(s)
<1>1. Script(q) = (s \o e) \o FanOut
  BY DEF Script, OwnPassword
<1>2. Good(q, s) /\ Own(q, G)
  BY OwnAccountCharted
<1> HIDE DEF G
<1>3. AllGuarded(q, S, G)
  <2>1. S \in SUBSET Session /\ \A r \in S : Holder[r] = Holder[q.session] /\ r # q.session
    BY DEF SessionsOf
  <2> HIDE DEF S
  <2>2. \A r \in S : HasOwner(G, r, TRUE)
    BY <1>2, <2>1 DEF HasOwner, Own
  <2>3. \A r \in S : Guarded(q, r, G)
    BY <2>1, <2>2 DEF Guarded
  <2> QED BY <1>2, <2>1, <2>3 DEF AllGuarded, NoRows, Own
<1>4. /\ e \in Seq(AnyLock) /\ Charted(q, e, G)
      /\ \A h : h \in All(e) <=> \E r \in S : h = Lock(<<"session", r>>, TRUE)
  BY <1>3, SessionsCharted
<1> HIDE DEF e, S
<1>5. Good(q, s \o e) /\ Joined(s, e, s \o e)
  BY <1>2, <1>4, GoodOn DEF Further, G
<1>6. BeforeFanOut(q, All(s \o e))
  <2>1. ASSUME NEW h \in All(e) PROVE h.on[1] = "session"
    <3>1. PICK r \in S : h = Lock(<<"session", r>>, TRUE)
      BY <1>4
    <3> QED BY <3>1, EachClass
  <2>2. \A h \in All(s \o e) : h \in G \/ h \in All(e)
    BY <1>5 DEF Joined, G
  <2> QED BY <1>2, <2>1, <2>2 DEF BeforeFanOut, Own
<1>7. FanOut \in Seq(AnyLock) /\ Charted(q, FanOut, All(s \o e))
  BY <1>6, FanOutCharted
<1> QED BY <1>1, <1>5, <1>7, GoodOn DEF Further

(* The suspension or reactivation of a tenant. *)
LEMMA TenantStatusCharted ==
    ASSUME NEW q \in Request, q.kind = "tenant_status" PROVE Good(q, Script(q))
<1> PICK a : a = Share(Account(q))
  OBVIOUS
<1> PICK b : b = Update(<<"tenant", q.tenant>>)
  OBVIOUS
<1> PICK c : c = Share(<<"generation", q.tenant>>)
  OBVIOUS
<1> DEFINE s == <<a, b>>
           S == {r \in Session : Home[r] = q.tenant}
           e == Each("session", S, TRUE)
           C == <<c>>
<1>1. Script(q) = (s \o e) \o C
  BY DEF Script, TenantStatus
<1>2. q.session \in Session /\ q.tenant \in Tenant /\ q.tenant # 0
  BY RequestAssumption, LockOrderAssumption DEF OfNoSession
<1>3. /\ a \in AnyLock /\ a.on = <<"user", Holder[q.session]>> /\ a.exclusive = FALSE
      /\ b \in AnyLock /\ b.on = <<"tenant", q.tenant>> /\ b.exclusive = TRUE
      /\ c \in AnyLock /\ c.on = <<"generation", q.tenant>>
  BY <1>2, CallerResources, LockOf, ResourceOf, LockParts DEF Account
<1>4. /\ a.on[1] = "user" /\ b.on[1] = "tenant" /\ b.on[2] = q.tenant
      /\ c.on[1] = "generation" /\ c.on[2] = q.tenant
  BY <1>3
<1>5. Good(q, s) /\ All(s) = {a, b}
  <2>1. Place(q, a, {})
    BY <1>3, UserFits DEF UserPlace
  <2>2. TenantPlace(q, b, {a})
    BY <1>2, <1>4 DEF TenantPlace
  <2>3. Place(q, b, {a})
    BY <1>2, <1>3, <2>2, TenantFits
  <2>4. Place(q, b, {} \cup {a})
    BY <2>3
  <2> QED BY <1>3, <2>1, <2>4, ChartTwo DEF Good
<1> HIDE DEF s
<1> DEFINE G == All(s)
<1>6. AllGuarded(q, S, G)
  <2>1. Has(G, <<"tenant", q.tenant>>, TRUE)
    BY <1>3, <1>5 DEF Has
  <2>2. \A r \in S : Guarded(q, r, G)
    BY <1>2, <2>1 DEF Guarded, HasTenant
  <2>3. \A h \in G : h.on[1] \in {"user", "tenant"}
    BY <1>4, <1>5
  <2> HIDE DEF G
  <2> QED BY <2>2, <2>3 DEF AllGuarded, NoRows
<1>7. /\ e \in Seq(AnyLock) /\ Charted(q, e, G)
      /\ \A h : h \in All(e) <=> \E r \in S : h = Lock(<<"session", r>>, TRUE)
  BY <1>6, SessionsCharted
<1> HIDE DEF e, S
<1>8. Good(q, s \o e) /\ Joined(s, e, s \o e)
  BY <1>5, <1>7, GoodOn DEF Further
<1> DEFINE K == All(s \o e)
<1>9. Place(q, c, K)
  <2>1. ASSUME NEW h \in All(e) PROVE h.on[1] = "session"
    <3>1. PICK r \in S : h = Lock(<<"session", r>>, TRUE)
      BY <1>7
    <3> QED BY <3>1, EachClass
  <2>2. \A h \in K : h \in {a, b} \/ h \in All(e)
    BY <1>5, <1>8 DEF Joined
  <2> HIDE DEF K
  <2>3. GenerationPlace(q, c, K)
    BY <1>2, <1>4, <2>1, <2>2 DEF GenerationPlace
  <2>4. \A h \in K : h.on[1] \notin {"operation", "transaction", "package"}
    BY <1>4, <2>1, <2>2
  <2> QED BY <1>2, <1>3, <2>3, <2>4, GenerationFits
<1>10. C \in Seq(AnyLock) /\ Charted(q, C, K)
  BY <1>3, <1>9, ChartOne
<1> HIDE DEF C
<1> QED BY <1>1, <1>8, <1>10, GoodOn DEF Further

(* The lock n of the purge after the advisory one: the tenant and its part. *)
LEMMA Thirds ==
    ASSUME NEW k \in Nat, NEW n \in 1 .. 3 * k
    PROVE  /\ (n + 2) \div 3 \in 1 .. k
           /\ (n + 2) % 3 \in 0 .. 2
           /\ n + 2 = 3 * ((n + 2) \div 3) + ((n + 2) % 3)
OBVIOUS

(* The purge, tenant after tenant. *)
LEMMA PurgeCharted ==
    ASSUME NEW q \in Request, q.kind = "purge" PROVE Good(q, Script(q))
<1> DEFINE k == Cardinality(Tenant)
           f == Ascending(Tenant)
<1>1. /\ k \in Nat
      /\ \A i \in 1 .. k : f[i] \in Tenant
      /\ \A i, j \in 1 .. k : i < j => f[i] < f[j]
  BY LockOrderAssumption, AscendingOrder
<1> DEFINE A(t) == Share(<<"tenant", t>>)
           B(t) == Update(<<"generation", t>>)
           C(t) == Update(<<"space", t, "retired">>)
           at(n) == (n + 2) \div 3
           rest(n) == (n + 2) % 3
           of == [i \in 1 .. k |-> <<A(f[i]), B(f[i]), C(f[i])>>]
           p == [n \in 1 .. 3 * k |-> of[at(n)][1 + rest(n)]]
<1> PICK c : c = Update(<<"cleanup">>)
  OBVIOUS
<1> DEFINE s == <<c>>
<1>2. Script(q) = s \o p
  <2>1. Script(q) = s \o [n \in 1 .. 3 * Len(of) |-> of[at(n)][1 + rest(n)]]
    BY DEF Script, Purge
  <2> HIDE DEF A, B, C, k, f
  <2>2. Len(of) = k
    BY <1>1
  <2> QED BY <2>1, <2>2
<1> HIDE DEF k, f
<1>3. \A t \in Tenant :
         /\ A(t) \in AnyLock /\ A(t).on = <<"tenant", t>> /\ A(t).exclusive = FALSE
         /\ B(t) \in AnyLock /\ B(t).on = <<"generation", t>>
  BY LockOf, ResourceOf, LockParts
<1>4. \A t \in Tenant :
         /\ A(t).on[1] = "tenant" /\ A(t).on[2] = t
         /\ B(t).on[1] = "generation" /\ B(t).on[2] = t
  <2>1. \A t : /\ <<"tenant", t>>[1] = "tenant" /\ <<"tenant", t>>[2] = t
               /\ <<"generation", t>>[1] = "generation" /\ <<"generation", t>>[2] = t
    OBVIOUS
  <2> HIDE DEF A, B, C
  <2> QED BY <1>3, <2>1
<1>5. \A t \in Tenant : C(t) \in AnyLock /\ C(t).on = <<"space", t, "retired">>
  BY LockOf, ResourceOf, LockParts
<1>6. \A t \in Tenant : C(t).on[1] = "space" /\ C(t).on[3] = "retired"
  <2>1. \A t : /\ <<"space", t, "retired">>[1] = "space"
               /\ <<"space", t, "retired">>[3] = "retired"
    OBVIOUS
  <2> HIDE DEF A, B, C
  <2> QED BY <1>5, <2>1
<1> HIDE DEF A, B, C
<1>7. \A n \in 1 .. 3 * k : /\ at(n) \in 1 .. k /\ rest(n) \in 0 .. 2
                            /\ n + 2 = 3 * at(n) + rest(n)
  BY <1>1, Thirds
<1> HIDE DEF at, rest
<1>8. ASSUME NEW n \in 1 .. 3 * k
      PROVE  \E t \in Tenant : /\ t = f[at(n)]
                               /\ rest(n) = 0 => p[n] = A(t)
                               /\ rest(n) = 1 => p[n] = B(t)
                               /\ rest(n) = 2 => p[n] = C(t)
  <2> PICK i \in 1 .. k : i = at(n)
    BY <1>7
  <2>1. f[i] \in Tenant
    BY <1>1
  <2>2. of[i] = <<A(f[i]), B(f[i]), C(f[i])>>
    OBVIOUS
  <2>3. p[n] = of[i][1 + rest(n)]
    OBVIOUS
  <2> HIDE DEF of, p
  <2>4. of[i][1] = A(f[i]) /\ of[i][2] = B(f[i]) /\ of[i][3] = C(f[i])
    BY <2>2
  <2> QED BY <2>1, <2>3, <2>4
<1>9. Len(p) = 3 * k /\ p \in Seq(AnyLock)
  <2>1. \A n \in 1 .. 3 * k : p[n] \in AnyLock
    <3> HIDE DEF p
    <3> SUFFICES ASSUME NEW n \in 1 .. 3 * k PROVE p[n] \in AnyLock
      OBVIOUS
    <3>1. rest(n) = 0 \/ rest(n) = 1 \/ rest(n) = 2
      BY <1>7
    <3> QED BY <1>3, <1>5, <1>8, <3>1
  <2>2. 3 * k \in Nat /\ p = [n \in 1 .. 3 * k |-> p[n]]
    BY <1>1
  <2> HIDE DEF p
  <2>3. p \in [1 .. 3 * k -> AnyLock]
    BY <2>1, <2>2
  <2> QED BY <2>2, <2>3
<1> HIDE DEF of, p
<1>10. c \in AnyLock /\ c.on = <<"cleanup">> /\ c.exclusive = TRUE
  BY LockOf, ResourceOf, LockParts
<1>11. c.on[1] = "cleanup"
  BY <1>10
<1>12. Good(q, s) /\ All(s) = {c}
  <2>1. Place(q, c, {})
    BY <1>10, FirstFits
  <2> QED BY <1>10, <2>1, ChartOne DEF Good
<1> HIDE DEF s
(* What is held before the lock j: of tenants before, or of the same one. *)
<1>13. ASSUME NEW j \in 1 .. 3 * k, NEW u \in Tenant, u = f[at(j)],
              NEW h \in {c} \cup Before(p, j)
       PROVE  \/ h = c
              \/ \E t \in Tenant : t <= u /\ h = A(t)
              \/ \E t \in Tenant : /\ t < u \/ (t = u /\ 1 < rest(j))
                                   /\ h = B(t)
              \/ \E t \in Tenant : h = C(t)
  <2> SUFFICES ASSUME h # c
               PROVE  \/ \E t \in Tenant : t <= u /\ h = A(t)
                      \/ \E t \in Tenant : /\ t < u \/ (t = u /\ 1 < rest(j))
                                           /\ h = B(t)
                      \/ \E t \in Tenant : h = C(t)
    OBVIOUS
  <2>1. PICK m \in 1 .. (j - 1) : h = p[m]
    BY DEF Before
  <2>2. m \in 1 .. 3 * k /\ m < j
    BY <1>1
  <2>3. PICK t \in Tenant : /\ t = f[at(m)]
                            /\ rest(m) = 0 => p[m] = A(t)
                            /\ rest(m) = 1 => p[m] = B(t)
                            /\ rest(m) = 2 => p[m] = C(t)
    BY <2>2, <1>8
  <2>4. at(m) < at(j) \/ (at(m) = at(j) /\ rest(m) < rest(j))
    <3>1. /\ at(m) \in Nat /\ rest(m) \in 0 .. 2 /\ m + 2 = 3 * at(m) + rest(m)
          /\ at(j) \in Nat /\ rest(j) \in 0 .. 2 /\ j + 2 = 3 * at(j) + rest(j)
      BY <2>2, <1>1, <1>7
    <3> QED BY <2>2, <3>1
  <2>5. t < u \/ (t = u /\ rest(m) < rest(j))
    BY <1>1, <1>7, <1>13, <2>2, <2>3, <2>4
  <2>6. rest(m) = 0 \/ rest(m) = 1 \/ rest(m) = 2
    BY <1>7, <2>2
  <2>7. t \in Nat /\ u \in Nat
    BY LockOrderAssumption
  <2> QED BY <2>1, <2>3, <2>5, <2>6, <2>7
<1>14. ASSUME NEW j \in 1 .. 3 * k PROVE Place(q, p[j], {c} \cup Before(p, j))
  <2>1. PICK u \in Tenant : /\ u = f[at(j)]
                            /\ rest(j) = 0 => p[j] = A(u)
                            /\ rest(j) = 1 => p[j] = B(u)
                            /\ rest(j) = 2 => p[j] = C(u)
    BY <1>8
  <2> DEFINE H == {c} \cup Before(p, j)
  <2>2. \A h \in H : \/ h = c
                     \/ \E t \in Tenant : t <= u /\ h = A(t)
                     \/ \E t \in Tenant : /\ t < u \/ (t = u /\ 1 < rest(j))
                                          /\ h = B(t)
                     \/ \E t \in Tenant : h = C(t)
    BY <1>13, <2>1
  <2>3. c \in H
    OBVIOUS
  <2> HIDE DEF H
  <2>4. \A h \in H : /\ h.on[1] \in {"cleanup", "tenant", "generation", "space"}
                     /\ h.on[1] = "tenant" => h.exclusive = FALSE
                     /\ h.on[1] = "generation" => h.on[2] < u \/ (h.on[2] = u /\ 1 < rest(j))
    <3> SUFFICES ASSUME NEW h \in H
                 PROVE  /\ h.on[1] \in {"cleanup", "tenant", "generation", "space"}
                        /\ h.on[1] = "tenant" => h.exclusive = FALSE
                        /\ h.on[1] = "generation" =>
                              h.on[2] < u \/ (h.on[2] = u /\ 1 < rest(j))
      OBVIOUS
    <3>1. CASE h = c
      BY <3>1, <1>11
    <3>2. CASE \E t \in Tenant : t <= u /\ h = A(t)
      BY <3>2, <1>3, <1>4
    <3>3. CASE \E t \in Tenant : (t < u \/ (t = u /\ 1 < rest(j))) /\ h = B(t)
      BY <3>3, <1>4
    <3>4. CASE \E t \in Tenant : h = C(t)
      BY <3>4, <1>6
    <3> QED BY <2>2, <3>1, <3>2, <3>3, <3>4
  <2>5. NoRows(H)
    BY <2>4 DEF NoRows
  <2>6. CASE rest(j) = 0
    <3>1. TenantPlace(q, p[j], H)
      BY <2>1, <2>4, <2>6, <1>3, <1>4 DEF TenantPlace
    <3> QED BY <2>1, <2>6, <3>1, <1>3, TenantFits DEF H
  <2>7. CASE rest(j) = 1
    <3>1. GenerationPlace(q, p[j], H)
      BY <2>1, <2>4, <2>7, <1>4 DEF GenerationPlace
    <3>2. \A h \in H : h.on[1] \notin {"operation", "transaction", "package"}
      BY <2>5 DEF NoRows
    <3>3. Place(q, p[j], H)
      BY <2>1, <2>7, <3>1, <3>2, <1>3, GenerationFits
    <3> QED BY <3>3 DEF H
  <2>8. CASE rest(j) = 2
    <3>1. Has(H, <<"cleanup">>, TRUE)
      BY <1>10, <2>3 DEF Has
    <3>2. UnderOne(p[j], H)
      BY <2>1, <2>8, <1>6, <3>1 DEF UnderOne, UnderTenant
    <3>3. Place(q, p[j], H)
      BY <2>5, <3>2, UnderFits
    <3> QED BY <3>3 DEF H
  <2>9. rest(j) = 0 \/ rest(j) = 1 \/ rest(j) = 2
    BY <1>7
  <2> QED BY <2>6, <2>7, <2>8, <2>9
<1>15. Charted(q, p, All(s))
  BY <1>9, <1>12, <1>14 DEF Charted
<1> QED BY <1>2, <1>9, <1>12, <1>15, GoodOn DEF Further

(* The script of every request takes its locks at their places. *)
LEMMA ScriptCharted ==
    ASSUME NEW q \in Request PROVE Good(q, Script(q))
<1>1. q.kind \in OfTenantSession \cup OfSession \cup OfNoSession
  BY RequestAssumption
<1>2. CASE q.kind \in OfTenantSession
  BY <1>2, MutationCharted, PackageCharted, CallerCharted, SwitchModeCharted, RecoverCharted,
     LoginCharted, ResetCharted, EnrollCharted, RevokeTerminalCharted, TenantSettingCharted
     DEF OfTenantSession
<1>3. CASE q.kind \in OfSession
  BY <1>3, UpgradeCharted, SwitchContextCharted, LogoutCharted, TenantStatusCharted,
     TenantSettingCharted, CreateTenantCharted, CreateAccountCharted, ManageAccountCharted,
     OwnProfileCharted, OwnPasswordCharted
     DEF OfSession
<1>4. CASE q.kind \in OfNoSession
  BY <1>4, ActivateCharted, PurgeCharted, OperatorCharted, FirstSuperadminCharted DEF OfNoSession
<1> QED BY <1>1, <1>2, <1>3, <1>4

-----------------------------------------------------------------------------
(* No two transactions hold locks that cannot be held together. *)
Compatible ==
    \A w, v \in Worker : w # v => \A a \in Held(w), b \in Held(v) : ~Conflict(a, b)

(* A conflict is of both locks. *)
LEMMA ConflictBoth == \A a, b : Conflict(a, b) <=> Conflict(b, a)
BY DEF Conflict

(* One lock more, or none: what a step changes of what one transaction holds. *)
LEMMA HeldAfter ==
    ASSUME TypeOK, NEW w \in Worker
    PROVE  /\ (\E q \in Request : Begin(w, q)) => Held(w)' = {}
           /\ End(w) => Held(w)' = {}
           /\ Take(w) => Held(w)' = Held(w) \cup {Awaited(w)}
           /\ (\E q \in Request : Begin(w, q)) \/ End(w) \/ Take(w) =>
                 \A v \in Worker : v # w => Held(v)' = Held(v)
<1>1. taken[w] \in Nat /\ (doing[w] = None => taken[w] = 0)
  BY DEF TypeOK, Busy
<1>2. doing \in [Worker -> Request \cup {None}] /\ taken \in [Worker -> Nat]
  BY DEF TypeOK
<1>3. ASSUME NEW q \in Request, Begin(w, q) PROVE Held(w)' = {}
  <2>1. doing'[w] = q /\ taken'[w] = 0
    BY <1>1, <1>2, <1>3 DEF Begin, Busy
  <2>2. {Script(q)[i] : i \in 1 .. 0} = {}
    OBVIOUS
  <2> QED BY <2>1, <2>2 DEF Held, Busy
<1>4. ASSUME End(w) PROVE Held(w)' = {}
  <2>1. doing'[w] = None
    BY <1>2, <1>4 DEF End
  <2> QED BY <2>1 DEF Held, Busy
<1>5. ASSUME Take(w) PROVE Held(w)' = Held(w) \cup {Awaited(w)}
  <2> PICK n \in Nat : n = taken[w]
    BY <1>1
  <2> PICK s : s = Script(doing[w])
    OBVIOUS
  <2>1. doing'[w] = doing[w] /\ taken'[w] = n + 1 /\ doing[w] # None
    BY <1>2, <1>5 DEF Take, Waiting, Busy
  <2>2. Held(w) = {s[i] : i \in 1 .. n} /\ Awaited(w) = s[n + 1]
    BY <2>1 DEF Held, Busy, Awaited
  <2>3. Held(w)' = {s[i] : i \in 1 .. (n + 1)}
    BY <2>1 DEF Held, Busy
  <2>4. 1 .. (n + 1) = (1 .. n) \cup {n + 1}
    OBVIOUS
  <2>5. {s[i] : i \in 1 .. (n + 1)} = {s[i] : i \in 1 .. n} \cup {s[n + 1]}
    BY <2>4
  <2> QED BY <2>2, <2>3, <2>5
<1>6. ASSUME (\E q \in Request : Begin(w, q)) \/ End(w) \/ Take(w), NEW v \in Worker, v # w
      PROVE  Held(v)' = Held(v)
  <2>1. doing'[v] = doing[v] /\ taken'[v] = taken[v]
    <3>1. CASE \E q \in Request : Begin(w, q)
      BY <1>2, <1>6, <3>1 DEF Begin
    <3>2. CASE End(w)
      BY <1>2, <1>6, <3>2 DEF End
    <3>3. CASE Take(w)
      BY <1>2, <1>6, <3>3 DEF Take
    <3> QED BY <1>6, <3>1, <3>2, <3>3
  <2> QED BY <2>1 DEF Held, Busy
<1> QED BY <1>3, <1>4, <1>5, <1>6

(* Requests in flight have a prefix of their locks. *)
LEMMA TypesStay == TypeOK /\ [Next]_vars => TypeOK'
<1> SUFFICES ASSUME TypeOK, [Next]_vars PROVE TypeOK'
  OBVIOUS
<1>1. CASE UNCHANGED vars
  BY <1>1 DEF TypeOK, vars, Busy
<1>2. CASE Next
  <2>1. PICK w \in Worker : (\E q \in Request : Begin(w, q)) \/ Take(w) \/ End(w)
    BY <1>2 DEF Next, Commit, Victim
  <2>2. /\ doing \in [Worker -> Request \cup {None}] /\ taken \in [Worker -> Nat]
        /\ \A v \in Worker : taken[v] <= IF doing[v] # None THEN Len(Script(doing[v])) ELSE 0
    BY DEF TypeOK, Busy
  <2>3. CASE \E q \in Request : Begin(w, q)
    <3> PICK q \in Request : Begin(w, q)
      BY <2>3
    <3>1. doing[w] = None /\ doing' = [doing EXCEPT ![w] = q] /\ taken' = taken
      BY DEF Begin, Busy
    <3>2. taken[w] = 0
      BY <2>2, <3>1
    <3>3. Len(Script(q)) \in Nat
      BY ScriptCharted DEF Good, Charted
    <3>4. q # None
      BY LockOrderAssumption
    <3> QED BY <2>2, <3>1, <3>2, <3>3, <3>4 DEF TypeOK, Busy
  <2>4. CASE Take(w)
    <3>1. /\ doing[w] # None /\ taken[w] < Len(Script(doing[w]))
          /\ taken' = [taken EXCEPT ![w] = taken[w] + 1] /\ doing' = doing
      BY <2>4 DEF Take, Waiting, Busy
    <3>2. Len(Script(doing[w])) \in Nat
      BY <2>2, <3>1, ScriptCharted DEF Good, Charted
    <3> QED BY <2>2, <3>1, <3>2 DEF TypeOK, Busy
  <2>5. CASE End(w)
    BY <2>2, <2>5 DEF TypeOK, Busy, End
  <2> QED BY <2>1, <2>3, <2>4, <2>5
<1> QED BY <1>1, <1>2

(* A step takes only what nobody else holds in its way. *)
LEMMA CompatibleStays == TypeOK /\ Compatible /\ [Next]_vars => Compatible'
<1> SUFFICES ASSUME TypeOK, Compatible, [Next]_vars PROVE Compatible'
  OBVIOUS
<1>1. CASE UNCHANGED vars
  BY <1>1 DEF Compatible, vars, Held, Busy
<1>2. CASE Next
  <2>1. PICK w \in Worker : (\E q \in Request : Begin(w, q)) \/ Take(w) \/ End(w)
    BY <1>2 DEF Next, Commit, Victim
  <2>2. \A v \in Worker : v # w => Held(v)' = Held(v)
    BY <2>1, HeldAfter
  <2>3. \A v \in Worker : v # w => \A a \in Held(w)', b \in Held(v) : ~Conflict(a, b)
    <3>1. CASE (\E q \in Request : Begin(w, q)) \/ End(w)
      <4>1. Held(w)' = {}
        BY <3>1, HeldAfter
      <4> QED BY <4>1
    <3>2. CASE Take(w)
      <4>1. Held(w)' = Held(w) \cup {Awaited(w)}
        BY <3>2, HeldAfter
      <4>2. ASSUME NEW v \in Worker, v # w, NEW b \in Held(v) PROVE ~Conflict(Awaited(w), b)
        <5>1. Busy(v)
          BY <4>2 DEF Held
        <5> QED BY <3>2, <4>2, <5>1 DEF Take, WaitsFor
      <4> QED BY <4>1, <4>2 DEF Compatible
    <3> QED BY <2>1, <3>1, <3>2
  <2>4. ASSUME NEW u \in Worker, NEW v \in Worker, u # v,
               NEW a \in Held(u)', NEW b \in Held(v)'
        PROVE  ~Conflict(a, b)
    <3>1. CASE u = w
      BY <2>2, <2>3, <2>4, <3>1
    <3>2. CASE v = w
      BY <2>2, <2>3, <2>4, <3>2, ConflictBoth
    <3>3. CASE u # w /\ v # w
      BY <2>2, <2>4, <3>3 DEF Compatible
    <3> QED BY <3>1, <3>2, <3>3
  <2> QED BY <2>4 DEF Compatible
<1> QED BY <1>1, <1>2

(* The inductive invariant of the locks. *)
LocksInv == TypeOK /\ Compatible

(* It is invariant. *)
LEMMA LocksAlways == Spec => []LocksInv
<1>1. Init => LocksInv
  BY DEF Init, LocksInv, TypeOK, Compatible, Held, Busy
<1>2. LocksInv /\ [Next]_vars => LocksInv'
  BY TypesStay, CompatibleStays DEF LocksInv
<1> QED BY <1>1, <1>2, PTL DEF Spec

(***************************************************************************)
(* TypeOK: a request in flight has a prefix of its locks, an idle worker   *)
(* none.                                                                   *)
(***************************************************************************)
THEOREM LocksTyped == Spec => []TypeOK
<1>1. LocksInv => TypeOK
  BY DEF LocksInv
<1> QED
  BY <1>1, LocksAlways, PTL

-----------------------------------------------------------------------------
(* Every resource has a rank. *)
LEMMA RankType == \A resource : Rank(resource) \in 0 .. 9
BY DEF Rank

(***************************************************************************)
(* A transaction that takes its locks in order waits for something that    *)
(* comes after everything it holds.                                        *)
(***************************************************************************)
LEMMA AwaitedComesLast ==
    ASSUME TypeOK, NEW v \in Worker, Waiting(v), InOrder(doing[v]),
           NEW held \in Held(v)
    PROVE  Rank(held.on) < Rank(Awaited(v).on)
<1>1. PICK i \in 1 .. taken[v] : held = Script(doing[v])[i]
  BY DEF Held, Waiting, Busy
<1>2. taken[v] \in Nat
  BY DEF TypeOK
<1>3. /\ i \in 1 .. Len(Script(doing[v]))
      /\ taken[v] + 1 \in 1 .. Len(Script(doing[v]))
      /\ i < taken[v] + 1
  BY <1>2 DEF Waiting, InOrder
<1> QED
  BY <1>1, <1>3 DEF InOrder, Awaited

(* So along a circular wait the ranks grow without end: but there are ten. *)
LEMMA RanksGrow ==
    ASSUME TypeOK, NEW S \in SUBSET Worker, CircularWait(S),
           \A w \in S : Busy(w) => InOrder(doing[w]),
           NEW k \in Nat, \E w \in S : Rank(Awaited(w).on) >= k
    PROVE  \E w \in S : Rank(Awaited(w).on) >= k + 1
<1>1. PICK w \in S : Rank(Awaited(w).on) >= k
  OBVIOUS
<1>2. PICK v \in S : WaitsFor(w, v)
  BY DEF CircularWait
<1>3. PICK held \in Held(v) : Conflict(Awaited(w), held)
  BY <1>2 DEF WaitsFor
<1>4. Rank(held.on) = Rank(Awaited(w).on)
  BY <1>3 DEF Conflict
<1>5. Waiting(v) /\ InOrder(doing[v])
  BY DEF CircularWait, WaitsFor, Waiting
<1>6. Rank(held.on) < Rank(Awaited(v).on)
  BY <1>5, AwaitedComesLast
<1> QED
  BY <1>1, <1>4, <1>6, RankType

(***************************************************************************)
(* Transactions that take their locks in the order of the code's comments  *)
(* never deadlock (store.go:391, main.go:136).                             *)
(***************************************************************************)
THEOREM Ordered == Spec => []OrderedNeverDeadlock
<1>1. LocksInv => OrderedNeverDeadlock
  <2> SUFFICES ASSUME TypeOK, NEW S \in SUBSET Worker, CircularWait(S),
                      \A w \in S : Busy(w) => InOrder(doing[w])
               PROVE  FALSE
    BY DEF OrderedNeverDeadlock, LocksInv
  <2> DEFINE Reaches(k) == \E w \in S : Rank(Awaited(w).on) >= k
  <2>1. Reaches(0)
    BY RankType DEF CircularWait
  <2>2. ASSUME NEW k \in Nat, Reaches(k) PROVE Reaches(k + 1)
    BY <2>2, RanksGrow
  <2>3. \A k \in Nat : Reaches(k) => Reaches(k + 1)
    BY <2>2
  <2> HIDE DEF Reaches
  <2>4. Reaches(5)
    BY <2>1, <2>3
  <2>5. Reaches(10)
    BY <2>4, <2>3
  <2> QED
    BY <2>5, RankType DEF Reaches
<1> QED
  BY <1>1, LocksAlways, PTL

-----------------------------------------------------------------------------
(***************************************************************************)
(* Transactions that wait for each other in a circle.                      *)
(***************************************************************************)
LEMMA LeastIs ==
    ASSUME NEW S \in SUBSET Nat, S # {}
    PROVE  \E n \in S : \A k \in S : n <= k
<1>1. PICK n \in S : \A k \in S : ~(<<k, n>> \in OpToRel(<, Nat))
  BY WFMin, NatLessThanWellFounded
<1>2. \A k \in S : ~(k < n)
  BY <1>1 DEF OpToRel
<1> QED BY <1>2

(* v holds h, which w waits for. *)
Blocks(v, h, w) ==
    /\ v # w /\ h \in Held(v)
    /\ Awaited(w).on = h.on /\ (Awaited(w).exclusive \/ h.exclusive)

(* Everyone in T waits for one of T, and is waited for. *)
Ring(T) ==
    /\ T \in SUBSET Worker /\ T # {}
    /\ \A w \in T : /\ Busy(w) /\ Waiting(w)
                    /\ \E v \in T : \E h : Blocks(v, h, w)
                    /\ \E u \in T : \E h : Blocks(w, h, u)

(* A circle has a part without bystanders. *)
LEMMA TightCircle ==
    ASSUME NEW S \in SUBSET Worker, CircularWait(S)
    PROVE  \E T \in SUBSET S : Ring(T)
<1> DEFINE circles == {T \in SUBSET S : CircularWait(T)}
<1>1. IsFiniteSet(S) /\ \A T \in SUBSET S : IsFiniteSet(T) /\ Cardinality(T) \in Nat
  BY LockOrderAssumption, FS_Subset, FS_CardinalityType
<1>2. PICK T \in circles : \A C \in circles : Cardinality(T) <= Cardinality(C)
  <2> DEFINE sizes == {Cardinality(C) : C \in circles}
  <2>1. sizes \in SUBSET Nat /\ sizes # {}
    BY <1>1
  <2>2. PICK n \in sizes : \A k \in sizes : n <= k
    <3> HIDE DEF sizes
    <3> QED BY <2>1, LeastIs
  <2> QED BY <2>2
<1>3. T # {} /\ \A w \in T : \E v \in T : WaitsFor(w, v)
  BY DEF CircularWait
<1>4. ASSUME NEW v \in T PROVE \E w \in T : WaitsFor(w, v)
  <2> SUFFICES ASSUME \A w \in T : ~WaitsFor(w, v) PROVE FALSE
    OBVIOUS
  <2>1. \A w \in T \ {v} : \E u \in T \ {v} : WaitsFor(w, u)
    BY <1>3
  <2>2. T \ {v} # {}
    BY <1>3 DEF WaitsFor
  <2>3. CircularWait(T \ {v})
    BY <2>1, <2>2 DEF CircularWait
  <2>4. Cardinality(T \ {v}) = Cardinality(T) - 1 /\ Cardinality(T) \in Nat
    BY <1>1, FS_RemoveElement
  <2>5. T \ {v} \in circles
    BY <2>3
  <2>6. Cardinality(T) <= Cardinality(T \ {v})
    BY <1>2, <2>5
  <2> QED BY <2>4, <2>6
<1>5. \A w, v \in T : WaitsFor(w, v) => Busy(w) /\ Waiting(w) /\ \E h : Blocks(v, h, w)
  BY DEF WaitsFor, Waiting, Blocks, Conflict
<1>6. Ring(T)
  BY <1>3, <1>4, <1>5 DEF Ring
<1> QED BY <1>6

(* Who waits in a circle asks for a lock at its place, and so did who holds one. *)
Placed(w) ==
    /\ Place(doing[w], Awaited(w), Held(w))
    /\ \A h \in Held(w) : \E G \in SUBSET Held(w) : Place(doing[w], h, G)
    /\ Awaited(w) \in AnyLock /\ Held(w) \subseteq AnyLock

(* They were all at their places. *)
LEMMA InPlace ==
    ASSUME TypeOK, NEW w \in Worker, Busy(w), Waiting(w)
    PROVE  Placed(w)
<1> PICK q \in Request : q = doing[w]
  BY DEF TypeOK, Busy
<1> PICK s : s = Script(q)
  OBVIOUS
<1> PICK n \in Nat : n = taken[w]
  BY DEF TypeOK
<1>1. /\ s \in Seq(AnyLock) /\ Len(s) \in Nat
      /\ \A j \in 1 .. Len(s) : Place(q, s[j], {} \cup Before(s, j))
  BY ScriptCharted DEF Good, Charted
<1>2. n < Len(s) /\ Awaited(w) = s[n + 1]
  BY DEF Waiting, Awaited
<1>3. Held(w) = {s[i] : i \in 1 .. n}
  BY DEF Held
<1>4. \A j \in 1 .. (n + 1) : Before(s, j) \subseteq Held(w) /\ Place(q, s[j], Before(s, j))
  <2> SUFFICES ASSUME NEW j \in 1 .. (n + 1)
               PROVE  Before(s, j) \subseteq Held(w) /\ Place(q, s[j], Before(s, j))
    OBVIOUS
  <2>1. j \in 1 .. Len(s) /\ {} \cup Before(s, j) = Before(s, j)
    BY <1>1, <1>2
  <2>2. \A i \in 1 .. (j - 1) : i \in 1 .. n
    OBVIOUS
  <2>3. Before(s, j) \subseteq Held(w)
    BY <1>3, <2>2 DEF Before
  <2> QED BY <1>1, <2>1, <2>3
<1>5. Before(s, n + 1) = Held(w)
  BY <1>3 DEF Before
<1>6. Place(q, s[n + 1], Held(w))
  BY <1>4, <1>5
<1>7. ASSUME NEW h \in Held(w) PROVE \E G \in SUBSET Held(w) : Place(q, h, G)
  <2>1. PICK i \in 1 .. n : h = s[i]
    BY <1>3
  <2>2. i \in 1 .. (n + 1)
    OBVIOUS
  <2> QED BY <1>4, <2>1, <2>2
<1>8. \A i \in 1 .. (n + 1) : s[i] \in AnyLock
  BY <1>1, <1>2
<1>9. Held(w) \subseteq AnyLock /\ Awaited(w) \in AnyLock
  BY <1>2, <1>3, <1>8
<1> QED BY <1>2, <1>6, <1>7, <1>9 DEF Placed

(* Two transactions do not hold conflicting locks. *)
LEMMA Apart ==
    ASSUME LocksInv, NEW w \in Worker, NEW v \in Worker, w # v, NEW r,
           Has(Held(w), r, TRUE), Has(Held(v), r, FALSE)
    PROVE  FALSE
<1>1. PICK a \in Held(w) : a.on = r /\ a.exclusive
  BY DEF Has
<1>2. PICK b \in Held(v) : b.on = r
  BY DEF Has
<1>3. ~Conflict(a, b)
  BY DEF LocksInv, Compatible
<1> QED BY <1>1, <1>2, <1>3 DEF Conflict

(* What there is between the members of a ring. *)
LEMMA RingMembers ==
    ASSUME LocksInv, NEW T, Ring(T)
    PROVE  /\ \A w \in T : w \in Worker /\ Placed(w) /\ Held(w) # {}
           /\ \A w \in T : \E v \in T : \E h \in AnyLock : Blocks(v, h, w)
           /\ \A w \in T : \E u \in T : \E h \in AnyLock : Blocks(w, h, u)
<1>1. \A w \in T : w \in Worker /\ Busy(w) /\ Waiting(w)
  BY DEF Ring
<1>2. \A w \in T : Placed(w)
  BY <1>1, InPlace DEF LocksInv
<1>3. /\ \A w \in T : \E v \in T : \E h : Blocks(v, h, w)
      /\ \A w \in T : \E u \in T : \E h : Blocks(w, h, u)
  BY DEF Ring
<1>4. \A w, v \in T : \A h : Blocks(v, h, w) => h \in AnyLock
  BY <1>2 DEF Placed, Blocks
<1>5. \A w \in T : Held(w) # {}
  BY <1>3 DEF Blocks
<1> QED BY <1>1, <1>2, <1>3, <1>4, <1>5

(* Nobody in a ring awaits the advisory locks, an account, or a tenant for itself. *)
LEMMA RingPastAccounts ==
    ASSUME LocksInv, NEW T, Ring(T), NEW w \in T
    PROVE  /\ Awaited(w).on[1] \notin {"cleanup", "organization", "user"}
           /\ Awaited(w).on[1] = "tenant" => ~Awaited(w).exclusive
<1>1. \A x \in T : Awaited(x).on[1] \notin {"cleanup", "organization"}
  BY RingMembers DEF Placed, Place
<1>2. ASSUME NEW x \in T, Awaited(x).on[1] = "user" PROVE FALSE
  <2>1. UserPlace(Held(x)) /\ Held(x) # {} /\ x \in Worker
    BY <1>2, RingMembers DEF Placed, Place
  <2>2. /\ Has(Held(x), <<"organization">>, FALSE)
        /\ \A h \in Held(x) : \/ h.on[1] = "organization"
                              \/ h.on[1] = "user" /\ Has(Held(x), <<"organization">>, TRUE)
    BY <2>1 DEF UserPlace
  <2>3. PICK u \in T, h \in AnyLock : Blocks(x, h, u)
    BY RingMembers
  <2>4. u # x /\ h \in Held(x) /\ Awaited(u).on[1] = h.on[1]
    BY <2>3 DEF Blocks
  <2>5. Awaited(u).on[1] = "user" /\ Has(Held(x), <<"organization">>, TRUE)
    BY <1>1, <2>2, <2>4
  <2>6. UserPlace(Held(u)) /\ Held(u) # {} /\ u \in Worker
    BY <2>5, RingMembers DEF Placed, Place
  <2>7. Has(Held(u), <<"organization">>, FALSE)
    BY <2>6 DEF UserPlace
  <2> QED BY <2>1, <2>4, <2>5, <2>6, <2>7, Apart
<1>3. ASSUME Awaited(w).on[1] = "tenant", Awaited(w).exclusive PROVE FALSE
  <2>1. \A h \in Held(w) : h.on[1] = "user"
    BY <1>3, RingMembers DEF Placed, Place, TenantPlace
  <2>2. PICK u \in T, h \in AnyLock : Blocks(w, h, u)
    BY RingMembers
  <2> QED BY <1>2, <2>1, <2>2 DEF Blocks
<1> QED BY <1>1, <1>2, <1>3

(* Nor a row, a terminal or a space. *)
LEMMA RingBeforeRows ==
    ASSUME LocksInv, NEW T, Ring(T), NEW w \in T
    PROVE  Awaited(w).on[1] \in {"tenant", "generation", "session"}
<1>1. PICK v \in T, h \in AnyLock : Blocks(v, h, w)
  BY RingMembers
<1>2. /\ v # w /\ h \in Held(v) /\ Awaited(w).on = h.on
      /\ Awaited(w).exclusive \/ h.exclusive
      /\ v \in Worker /\ w \in Worker
  BY <1>1, RingMembers DEF Blocks
<1>3. \A x \in T : \A g \in Held(x) : /\ g.on[1] \notin {"transaction", "package"}
                                      /\ g.on[1] = "operation" => Awaited(x).on[1] = "transaction"
  BY RingMembers DEF Placed, Place
<1>4. \A x \in T : Awaited(x).on[1] \notin {"transaction", "package"}
  <2> SUFFICES ASSUME NEW x \in T PROVE Awaited(x).on[1] \notin {"transaction", "package"}
    OBVIOUS
  <2>1. PICK y \in T, g \in AnyLock : Blocks(y, g, x)
    BY RingMembers
  <2> QED BY <1>3, <2>1 DEF Blocks
<1>5. Awaited(w).on[1] # "operation"
  BY <1>2, <1>3, <1>4
<1>6. ASSUME Awaited(w).on[1] \in {"space", "terminal"} PROVE FALSE
  <2>1. UnderTenant(Awaited(w), Held(w))
    BY <1>6, RingMembers DEF Placed, Place
  <2>2. PICK G \in SUBSET Held(v) : Place(doing[v], h, G)
    BY <1>2, RingMembers DEF Placed
  <2>3. UnderTenant(h, Held(v))
    BY <1>2, <1>6, <2>2 DEF Place, UnderTenant, Has
  <2> PICK a : a = Awaited(w)
    OBVIOUS
  <2>4. CASE a.on[1] = "space" /\ a.on[3] = "retired"
    <3>1. Has(Held(w), <<"cleanup">>, TRUE) /\ Has(Held(v), <<"cleanup">>, TRUE)
      BY <1>2, <2>1, <2>3, <2>4 DEF UnderTenant
    <3>2. Has(Held(v), <<"cleanup">>, FALSE)
      BY <3>1 DEF Has
    <3> QED BY <1>2, <3>1, <3>2, Apart
  <2>5. CASE ~(a.on[1] = "space" /\ a.on[3] = "retired")
    <3>1. /\ Has(Held(w), <<"tenant", a.on[2]>>, a.exclusive)
          /\ Has(Held(v), <<"tenant", a.on[2]>>, h.exclusive)
      BY <1>2, <2>1, <2>3, <2>5 DEF UnderTenant
    <3> PICK r : r = <<"tenant", a.on[2]>>
      OBVIOUS
    <3>2. /\ a.exclusive => Has(Held(w), r, TRUE)
          /\ h.exclusive => Has(Held(v), r, TRUE)
          /\ Has(Held(w), r, FALSE) /\ Has(Held(v), r, FALSE)
      BY <3>1 DEF Has
    <3> QED BY <1>2, <3>2, Apart
  <2> QED BY <2>4, <2>5
<1>7. Awaited(w).on[1] \in {"cleanup", "organization", "user", "tenant", "generation", "space",
                            "session", "terminal", "operation", "transaction", "package"}
  BY RingMembers DEF Placed, Place
<1> QED BY <1>4, <1>5, <1>6, <1>7, RingPastAccounts

(* Who awaits a tenant is the purge, and holds no session. *)
LEMMA RingTenants ==
    ASSUME LocksInv, NEW T, Ring(T), NEW w \in T, Awaited(w).on[1] = "tenant"
    PROVE  /\ doing[w].kind = "purge"
           /\ \A h \in Held(w) : /\ h.on[1] # "session"
                                 /\ h.on[1] = "tenant" => ~h.exclusive
                                 /\ h.on[1] = "generation" => h.on[2] < Awaited(w).on[2]
<1>1. TenantPlace(doing[w], Awaited(w), Held(w))
  BY RingMembers DEF Placed, Place
<1>2. PICK u \in T, h \in AnyLock : Blocks(w, h, u)
  BY RingMembers
<1>3. /\ h \in Held(w) /\ Awaited(u).on[1] = h.on[1]
      /\ Awaited(u).exclusive \/ h.exclusive
  BY <1>2 DEF Blocks
<1>4. /\ Awaited(u).on[1] \notin {"cleanup", "organization", "user"}
      /\ Awaited(u).on[1] = "tenant" => ~Awaited(u).exclusive
  BY RingPastAccounts
<1>5. doing[w].kind = "purge"
  BY <1>1, <1>3, <1>4 DEF TenantPlace
<1> QED BY <1>1, <1>5 DEF TenantPlace

(* A guard that one transaction has for itself the other does not have. *)
LEMMA OwnersApart ==
    ASSUME LocksInv, NEW w \in Worker, NEW v \in Worker, w # v, NEW s
    PROVE  /\ ~(HasOwner(Held(w), s, TRUE) /\ HasOwner(Held(v), s, FALSE))
           /\ Home[s] # 0 => ~(HasTenant(Held(w), s, TRUE) /\ HasTenant(Held(v), s, FALSE))
<1>1. \A r : ~(Has(Held(w), r, TRUE) /\ Has(Held(v), r, FALSE))
  BY Apart
<1>2. ~(HasOwner(Held(w), s, TRUE) /\ HasOwner(Held(v), s, FALSE))
  BY <1>1 DEF HasOwner
<1>3. Home[s] # 0 => ~(HasTenant(Held(w), s, TRUE) /\ HasTenant(Held(v), s, FALSE))
  BY <1>1 DEF HasTenant
<1> QED BY <1>2, <1>3

(* Which requests guard a session by its account, and which by its tenant. *)
Callers == {"mutation", "package", "revalidate", "switch_mode", "recover", "upgrade", "configure"}
ByOwner == {"own_profile", "operator", "manage_account", "own_password"}
ByTenant == {"enroll", "reset", "revoke_terminal", "tenant_status"}

(* What a guard of a request comes to. *)
LEMMA Guards ==
    ASSUME NEW q, NEW s, NEW H, Guarded(q, s, H)
    PROVE  /\ q.kind \in ByOwner => HasOwner(H, s, TRUE)
           /\ q.kind \in Callers \cup ByOwner \cup {"enroll"} => HasOwner(H, s, FALSE)
           /\ q.kind \in ByTenant => Home[s] # 0 /\ HasTenant(H, s, TRUE)
           /\ q.kind \in Callers \cup ByTenant \cup {"own_profile", "operator"} =>
                 HasTenant(H, s, FALSE)
           /\ q.kind = "own_password" /\ s = q.session => HasTenant(H, s, FALSE)
<1>1. /\ HasOwner(H, s, TRUE) => HasOwner(H, s, FALSE)
      /\ HasTenant(H, s, TRUE) => HasTenant(H, s, FALSE)
  BY DEF HasOwner, HasTenant, Has
<1>2. /\ q.kind \in Callers => HasOwner(H, s, FALSE) /\ HasTenant(H, s, FALSE)
      /\ q.kind = "enroll" => Home[s] # 0 /\ HasOwner(H, s, FALSE) /\ HasTenant(H, s, TRUE)
      /\ q.kind \in {"reset", "revoke_terminal", "tenant_status"} =>
            Home[s] # 0 /\ HasTenant(H, s, TRUE)
      /\ q.kind \in {"own_profile", "operator"} => HasOwner(H, s, TRUE) /\ HasTenant(H, s, FALSE)
      /\ q.kind \in {"manage_account", "own_password"} => HasOwner(H, s, TRUE)
      /\ q.kind = "own_password" /\ s = q.session => HasTenant(H, s, FALSE)
  BY DEF Guarded, Callers
<1> QED BY <1>1, <1>2 DEF ByOwner, ByTenant

(* w may wait for session s while v holds it. *)
SessionWait(w, v, s) ==
    \/ Does(w, Callers) /\ Does(v, {"upgrade"})
    \/ Does(w, {"reset", "revoke_terminal"}) /\ AccountChange(v)
    \/ /\ Does(w, {"tenant_status"}) /\ AccountChange(v)
       /\ Does(v, {"own_password"}) => s # doing[v].session
    \/ AccountChange(w) /\ Does(v, {"reset", "revoke_terminal", "tenant_status"})

(* Who waits in a ring for a session, and who holds it. *)
LEMMA SessionHolders ==
    ASSUME LocksInv, NEW T, Ring(T), NEW v \in T, NEW h \in Held(v), h.on[1] = "session"
    PROVE  /\ doing[v].kind \in {"upgrade", "enroll", "reset", "revoke_terminal", "tenant_status",
                                 "manage_account", "own_password", "operator", "own_profile"}
           /\ Guarded(doing[v], h.on[2], Held(v))
<1>1. Placed(v)
  BY RingMembers
<1>2. Awaited(v).on[1] \in {"generation", "session"}
  BY RingBeforeRows, RingTenants
<1>3. doing[v].kind \in {"upgrade", "enroll", "reset", "revoke_terminal", "tenant_status",
                         "manage_account", "own_password", "operator", "own_profile"}
  <2>1. CASE Awaited(v).on[1] = "generation"
    <3>1. GenerationPlace(doing[v], Awaited(v), Held(v))
      BY <1>1, <2>1 DEF Placed, Place
    <3> QED BY <3>1 DEF GenerationPlace
  <2>2. CASE Awaited(v).on[1] = "session"
    <3>1. SessionPlace(doing[v], Awaited(v), Held(v))
      BY <1>1, <2>2 DEF Placed, Place
    <3> QED BY <3>1 DEF SessionPlace
  <2> QED BY <1>2, <2>1, <2>2
<1>4. PICK G \in SUBSET Held(v) : Place(doing[v], h, G)
  BY <1>1 DEF Placed
<1>5. Guarded(doing[v], h.on[2], G)
  <2>1. SessionPlace(doing[v], h, G)
    BY <1>4 DEF Place
  <2> QED BY <2>1 DEF SessionPlace
<1>6. Guarded(doing[v], h.on[2], Held(v))
  BY <1>3, <1>5, GuardedStill
<1> QED BY <1>3, <1>6

(* In a ring, whoever waits for a session and whoever holds it are such a pair. *)
LEMMA SessionPair ==
    ASSUME LocksInv, NEW T, Ring(T), NEW w \in T, NEW v \in T, NEW h, Blocks(v, h, w),
           h.on[1] = "session"
    PROVE  SessionWait(w, v, h.on[2])
<1> PICK s : s = h.on[2]
  OBVIOUS
<1>1. w \in Worker /\ v \in Worker /\ v # w /\ h \in Held(v) /\ Awaited(w).on = h.on
  BY RingMembers DEF Blocks
<1>2. /\ doing[v].kind \in {"upgrade", "enroll", "reset", "revoke_terminal", "tenant_status",
                            "manage_account", "own_password", "operator", "own_profile"}
      /\ Guarded(doing[v], s, Held(v))
  BY <1>1, SessionHolders
<1>3. SessionPlace(doing[w], Awaited(w), Held(w))
  BY <1>1, RingMembers DEF Placed, Place
<1>4. Guarded(doing[w], s, Held(w))
  BY <1>1, <1>3 DEF SessionPlace
<1>5. doing[w].kind # "logout"
  BY <1>4, RingMembers DEF Guarded
<1>6. doing[w].kind # "switch_context"
  <2> SUFFICES ASSUME doing[w].kind = "switch_context" PROVE FALSE
    OBVIOUS
  <2>1. \A g \in Held(w) : ~g.exclusive /\ g.on[1] \in {"user", "tenant", "terminal"}
    BY <1>4 DEF Guarded
  <2>2. PICK u \in T, g \in AnyLock : Blocks(w, g, u)
    BY RingMembers
  <2>3. g \in Held(w) /\ Awaited(u).on[1] = g.on[1] /\ (Awaited(u).exclusive \/ g.exclusive)
    BY <2>2 DEF Blocks
  <2>4. Awaited(u).on[1] \in {"tenant", "generation", "session"}
    BY RingBeforeRows
  <2>5. Awaited(u).on[1] = "tenant" => ~Awaited(u).exclusive
    BY RingPastAccounts
  <2> QED BY <2>1, <2>3, <2>4, <2>5
<1>7. doing[w].kind \in Callers \cup ByOwner \cup ByTenant
  BY <1>3, <1>5, <1>6 DEF SessionPlace, Callers, ByOwner, ByTenant
<1>8. doing[v].kind \in {"upgrade"} \cup ByOwner \cup ByTenant
  BY <1>2 DEF ByOwner, ByTenant
<1>9. /\ ~(HasOwner(Held(w), s, TRUE) /\ HasOwner(Held(v), s, FALSE))
      /\ ~(HasOwner(Held(v), s, TRUE) /\ HasOwner(Held(w), s, FALSE))
      /\ Home[s] # 0 => /\ ~(HasTenant(Held(w), s, TRUE) /\ HasTenant(Held(v), s, FALSE))
                        /\ ~(HasTenant(Held(v), s, TRUE) /\ HasTenant(Held(w), s, FALSE))
  BY <1>1, OwnersApart
<1> PICK p : p = doing[w]
  OBVIOUS
<1> PICK q : q = doing[v]
  OBVIOUS
<1>10. /\ p.kind \in ByOwner => HasOwner(Held(w), s, TRUE)
       /\ p.kind \in Callers \cup ByOwner \cup {"enroll"} => HasOwner(Held(w), s, FALSE)
       /\ p.kind \in ByTenant => Home[s] # 0 /\ HasTenant(Held(w), s, TRUE)
       /\ p.kind \in Callers \cup ByTenant \cup {"own_profile", "operator"} =>
             HasTenant(Held(w), s, FALSE)
  BY <1>4, Guards
<1>11. /\ q.kind \in ByOwner => HasOwner(Held(v), s, TRUE)
       /\ q.kind \in Callers \cup ByOwner \cup {"enroll"} => HasOwner(Held(v), s, FALSE)
       /\ q.kind \in ByTenant => Home[s] # 0 /\ HasTenant(Held(v), s, TRUE)
       /\ q.kind \in Callers \cup ByTenant \cup {"own_profile", "operator"} =>
             HasTenant(Held(v), s, FALSE)
       /\ q.kind = "own_password" /\ s = q.session => HasTenant(Held(v), s, FALSE)
  BY <1>2, Guards
<1>12. "upgrade" \in Callers
  BY DEF Callers
<1>13. CASE p.kind \in Callers
  <2>1. q.kind \notin ByOwner /\ q.kind \notin ByTenant
    BY <1>9, <1>10, <1>11, <1>13
  <2> QED BY <2>1, <1>8, <1>13 DEF SessionWait, Does
<1>14. CASE p.kind = "enroll"
  <2>1. p.kind \in ByTenant
    BY <1>14 DEF ByTenant
  <2>2. q.kind \notin ByOwner /\ q.kind \notin ByTenant /\ q.kind \notin Callers
    BY <1>9, <1>10, <1>11, <1>14, <2>1
  <2> QED BY <2>2, <1>8, <1>12
<1>15. CASE p.kind \in {"reset", "revoke_terminal", "tenant_status"}
  <2>1. p.kind \in ByTenant
    BY <1>15 DEF ByTenant
  <2>2. /\ q.kind \notin ByTenant /\ q.kind \notin Callers
        /\ q.kind \notin {"own_profile", "operator"}
        /\ q.kind = "own_password" => s # q.session
    BY <1>9, <1>10, <1>11, <2>1
  <2>3. q.kind \in {"manage_account", "own_password"}
    BY <2>2, <1>8, <1>12 DEF ByOwner
  <2> QED BY <2>2, <2>3, <1>15 DEF SessionWait, Does, AccountChange
<1>16. CASE p.kind \in {"own_profile", "operator"}
  <2>1. p.kind \in ByOwner
    BY <1>16 DEF ByOwner
  <2>2. q.kind \notin ByOwner /\ q.kind \notin ByTenant /\ q.kind \notin Callers
    BY <1>9, <1>10, <1>11, <1>16, <2>1
  <2> QED BY <2>2, <1>8, <1>12
<1>17. CASE p.kind \in {"manage_account", "own_password"}
  <2>1. p.kind \in ByOwner
    BY <1>17 DEF ByOwner
  <2>2. q.kind \notin ByOwner /\ q.kind \notin Callers /\ q.kind # "enroll"
    BY <1>9, <1>10, <1>11, <2>1
  <2>3. q.kind \in {"reset", "revoke_terminal", "tenant_status"}
    BY <2>2, <1>8, <1>12 DEF ByTenant
  <2> QED BY <2>3, <1>17 DEF SessionWait, Does, AccountChange
<1> QED BY <1>7, <1>13, <1>14, <1>15, <1>16, <1>17 DEF ByOwner, ByTenant

(* An upgrade that holds a session waits for its own: for another upgrade of it. *)
LEMMA UpgradePair ==
    ASSUME LocksInv, NEW T, Ring(T), NEW w \in T, NEW v \in T, NEW h, Blocks(v, h, w),
           h.on[1] = "session", Does(v, {"upgrade"})
    PROVE  \E x \in T : /\ x # v /\ Does(x, {"upgrade"})
                        /\ doing[x].session = doing[v].session
<1>1. h \in Held(v)
  BY DEF Blocks
<1>2. Placed(v)
  BY RingMembers
<1>3. Awaited(v).on[1] = "session"
  <2>1. Awaited(v).on[1] \in {"generation", "session"}
    BY <1>1, RingBeforeRows, RingTenants
  <2>2. ASSUME Awaited(v).on[1] = "generation" PROVE FALSE
    <3>1. GenerationPlace(doing[v], Awaited(v), Held(v))
      BY <1>2, <2>2 DEF Placed, Place
    <3> QED BY <3>1, <1>1 DEF GenerationPlace, Does
  <2> QED BY <2>1, <2>2
<1>4. PICK x \in T, g \in AnyLock : Blocks(x, g, v)
  BY RingMembers
<1>5. x # v /\ g \in Held(x) /\ Awaited(v).on = g.on /\ g.on[1] = "session"
  BY <1>3, <1>4 DEF Blocks
<1>6. SessionWait(v, x, g.on[2])
  BY <1>4, <1>5, SessionPair
<1>7. Does(x, {"upgrade"})
  BY <1>6 DEF SessionWait, Does, AccountChange
<1>8. g.on[2] = doing[v].session
  <2>1. SessionPlace(doing[v], Awaited(v), Held(v))
    BY <1>2, <1>3 DEF Placed, Place
  <2> QED BY <2>1, <1>5 DEF SessionPlace, Guarded, Does
<1>9. g.on[2] = doing[x].session
  <2>1. Guarded(doing[x], g.on[2], Held(x))
    BY <1>5, SessionHolders
  <2> QED BY <2>1, <1>7 DEF Guarded, Does
<1> QED BY <1>5, <1>7, <1>8, <1>9

(* The circles the lock order is known to leave. *)
Known(T) ==
    \/ \E v, w \in T : /\ v # w /\ doing[v].session = doing[w].session
                       /\ Does(v, {"upgrade"}) /\ Does(w, {"upgrade"})
    \/ \E v, w \in T : AccountChange(v) /\ Does(w, {"reset", "revoke_terminal"})
    \/ \E u, v, w \in T : /\ AccountChange(u)
                          /\ Does(v, {"tenant_status"}) /\ Does(w, {"purge"})

(* In any other, sessions are between a suspension and an account change. *)
LEMMA OtherSessions ==
    ASSUME LocksInv, NEW T, Ring(T), ~Known(T), NEW w \in T, NEW v \in T, NEW h,
           Blocks(v, h, w), h.on[1] = "session"
    PROVE  \/ /\ Does(w, {"tenant_status"}) /\ AccountChange(v)
              /\ Does(v, {"own_password"}) => h.on[2] # doing[v].session
           \/ AccountChange(w) /\ Does(v, {"tenant_status"})
<1>1. SessionWait(w, v, h.on[2])
  BY SessionPair
<1>2. ~Does(v, {"upgrade"})
  <2> SUFFICES ASSUME Does(v, {"upgrade"}) PROVE FALSE
    OBVIOUS
  <2>1. PICK x \in T : x # v /\ Does(x, {"upgrade"}) /\ doing[x].session = doing[v].session
    BY UpgradePair
  <2> QED BY <2>1 DEF Known
<1>3. ~(Does(w, {"reset", "revoke_terminal"}) /\ AccountChange(v))
  BY DEF Known
<1>4. ~(AccountChange(w) /\ Does(v, {"reset", "revoke_terminal"}))
  BY DEF Known
<1>5. Does(v, {"reset", "revoke_terminal", "tenant_status"}) =>
        Does(v, {"reset", "revoke_terminal"}) \/ Does(v, {"tenant_status"})
  BY DEF Does
<1> QED BY <1>1, <1>2, <1>3, <1>4, <1>5 DEF SessionWait

(* Sessions first, then tenant by tenant its row and its generation. *)
Height(w, n) ==
    CASE Awaited(w).on[1] = "session"    -> Awaited(w).on[2]
      [] Awaited(w).on[1] = "tenant"     -> n + 2 * Awaited(w).on[2]
      [] Awaited(w).on[1] = "generation" -> n + 2 * Awaited(w).on[2] + 1

(* The heights of what a ring waits for. *)
LEMMA Heights ==
    ASSUME LocksInv, NEW T, Ring(T), NEW w \in T, NEW n \in Nat
    PROVE  /\ Awaited(w).on[1] = "session" =>
                Awaited(w).on[2] \in Session /\ Height(w, n) = Awaited(w).on[2]
           /\ Awaited(w).on[1] = "tenant" =>
                Awaited(w).on[2] \in Tenant /\ Height(w, n) = n + 2 * Awaited(w).on[2]
           /\ Awaited(w).on[1] = "generation" =>
                Awaited(w).on[2] \in Tenant /\ Height(w, n) = n + 2 * Awaited(w).on[2] + 1
<1>1. Place(doing[w], Awaited(w), Held(w))
  BY RingMembers DEF Placed
<1>2. /\ Awaited(w).on[1] = "session" => Awaited(w).on[2] \in Session
      /\ Awaited(w).on[1] = "tenant" => Awaited(w).on[2] \in Tenant
      /\ Awaited(w).on[1] = "generation" => Awaited(w).on[2] \in Tenant
  BY <1>1 DEF Place, SessionPlace, TenantPlace, GenerationPlace
<1> QED BY <1>2 DEF Height

(* In a circle that is not known, who is waited for waits higher up. *)
LEMMA RingOrder ==
    ASSUME LocksInv, NEW T, Ring(T), ~Known(T), NEW w \in T, NEW v \in T, NEW h,
           Blocks(v, h, w), NEW n \in Nat, \A s \in Session : s <= n
    PROVE  Height(w, n) < Height(v, n)
<1> PICK a : a = Awaited(w)
  OBVIOUS
<1> PICK b : b = Awaited(v)
  OBVIOUS
<1>1. v # w /\ h \in Held(v) /\ h.on = a.on /\ (a.exclusive \/ h.exclusive)
  BY DEF Blocks
<1>2. /\ a.on[1] \in {"tenant", "generation", "session"}
      /\ b.on[1] \in {"tenant", "generation", "session"}
  BY RingBeforeRows
<1>3. Place(doing[v], b, Held(v))
  BY RingMembers DEF Placed
<1>4. /\ a.on[1] = "session" => a.on[2] \in Session /\ Height(w, n) = a.on[2]
      /\ a.on[1] = "tenant" => a.on[2] \in Tenant /\ Height(w, n) = n + 2 * a.on[2]
      /\ a.on[1] = "generation" => a.on[2] \in Tenant /\ Height(w, n) = n + 2 * a.on[2] + 1
  BY Heights
<1>5. /\ b.on[1] = "session" => b.on[2] \in Session /\ Height(v, n) = b.on[2]
      /\ b.on[1] = "tenant" => b.on[2] \in Tenant /\ Height(v, n) = n + 2 * b.on[2]
      /\ b.on[1] = "generation" => b.on[2] \in Tenant /\ Height(v, n) = n + 2 * b.on[2] + 1
  BY Heights
<1>6. Session \subseteq Nat /\ Tenant \subseteq Nat \ {0}
  BY LockOrderAssumption
<1>7. ASSUME b.on[1] = "session"
      PROVE  \E u \in T : \/ AccountChange(u) /\ Does(v, {"tenant_status"})
                          \/ AccountChange(v) /\ Does(u, {"tenant_status"})
  <2>1. PICK u \in T, g \in AnyLock : Blocks(u, g, v)
    BY RingMembers
  <2>2. g.on[1] = "session"
    BY <2>1, <1>7 DEF Blocks
  <2> QED BY <2>1, <2>2, OtherSessions
<1>8. ASSUME b.on[1] = "session"
      PROVE  \A g \in Held(v) : /\ g.on[1] # "generation"
                                /\ g.on[1] = "session" =>
                                      \/ g.on[2] < b.on[2]
                                      \/ Does(v, {"own_password"}) /\ g.on[2] = doing[v].session
  <2>1. SessionPlace(doing[v], b, Held(v))
    BY <1>3, <1>8 DEF Place
  <2>2. doing[v].kind \in {"tenant_status", "manage_account", "own_password"}
    BY <1>7, <1>8 DEF Does, AccountChange
  <2> QED BY <2>1, <2>2 DEF SessionPlace, Does
<1>9. CASE a.on[1] = "session"
  <2>1. \/ AccountChange(v) /\ (Does(v, {"own_password"}) => h.on[2] # doing[v].session)
        \/ Does(v, {"tenant_status"})
    BY <1>1, <1>9, OtherSessions
  <2>2. Does(v, {"own_password"}) => h.on[2] # doing[v].session
    BY <2>1 DEF Does
  <2>3. b.on[1] # "tenant"
    BY <1>1, <1>9, RingTenants
  <2>4. CASE b.on[1] = "session"
    <3>1. a.on[2] < b.on[2]
      BY <1>1, <1>8, <1>9, <2>2, <2>4
    <3> QED BY <3>1, <1>4, <1>5, <1>9, <2>4
  <2>5. CASE b.on[1] = "generation"
    <3>1. Height(w, n) <= n /\ Height(w, n) \in Nat
      BY <1>4, <1>6, <1>9
    <3>2. Height(v, n) = n + 2 * b.on[2] + 1 /\ b.on[2] \in Nat
      BY <1>5, <1>6, <2>5
    <3> QED BY <3>1, <3>2
  <2> QED BY <1>2, <2>3, <2>4, <2>5
<1>10. CASE a.on[1] = "generation"
  <2>1. Height(w, n) = n + 2 * a.on[2] + 1 /\ a.on[2] \in Nat
    BY <1>4, <1>6, <1>10
  <2>2. b.on[1] # "session"
    BY <1>1, <1>8, <1>10
  <2>3. CASE b.on[1] = "tenant"
    <3>1. a.on[2] < b.on[2]
      BY <1>1, <1>10, <2>3, RingTenants
    <3>2. Height(v, n) = n + 2 * b.on[2] /\ b.on[2] \in Nat
      BY <1>5, <1>6, <2>3
    <3> QED BY <2>1, <3>1, <3>2
  <2>4. CASE b.on[1] = "generation"
    <3>1. GenerationPlace(doing[v], b, Held(v))
      BY <1>3, <2>4 DEF Place
    <3>2. a.on[2] < b.on[2]
      BY <1>1, <1>10, <3>1 DEF GenerationPlace
    <3>3. Height(v, n) = n + 2 * b.on[2] + 1 /\ b.on[2] \in Nat
      BY <1>5, <1>6, <2>4
    <3> QED BY <2>1, <3>2, <3>3
  <2> QED BY <1>2, <2>2, <2>3, <2>4
<1>11. CASE a.on[1] = "tenant"
  <2>1. Height(w, n) = n + 2 * a.on[2] /\ a.on[2] \in Nat
    BY <1>4, <1>6, <1>11
  <2>2. h.exclusive /\ Does(w, {"purge"})
    BY <1>1, <1>11, RingPastAccounts, RingTenants DEF Does
  <2>3. b.on[1] # "tenant"
    BY <1>1, <1>11, <2>2, RingTenants
  <2>4. b.on[1] # "session"
    BY <1>7, <2>2 DEF Known
  <2>5. b.on[1] = "generation"
    BY <1>2, <2>3, <2>4
  <2>6. GenerationPlace(doing[v], b, Held(v))
    BY <1>3, <2>5 DEF Place
  <2>7. a.on[2] = b.on[2]
    BY <1>1, <1>11, <2>2, <2>6 DEF GenerationPlace
  <2>8. Height(v, n) = n + 2 * b.on[2] + 1 /\ b.on[2] \in Nat
    BY <1>5, <1>6, <2>5
  <2> QED BY <2>1, <2>7, <2>8
<1> QED BY <1>2, <1>9, <1>10, <1>11

(* So every ring is known. *)
LEMMA RingsKnown ==
    ASSUME LocksInv, NEW T, Ring(T)
    PROVE  Known(T)
<1> SUFFICES ASSUME ~Known(T) PROVE FALSE
  OBVIOUS
<1>1. Session \in SUBSET Nat /\ Tenant \in SUBSET Nat /\ IsFiniteSet(Session) /\ IsFiniteSet(Tenant)
  BY LockOrderAssumption
<1>2. PICK n \in Nat : \A s \in Session : s <= n
  BY <1>1, HasBound
<1>3. PICK m \in Nat : \A t \in Tenant : t <= m
  BY <1>1, HasBound
<1>4. ASSUME NEW w \in T PROVE Height(w, n) \in Nat /\ Height(w, n) <= n + 2 * m + 1
  <2> PICK b : b = Awaited(w)
    OBVIOUS
  <2>1. b.on[1] \in {"tenant", "generation", "session"}
    BY RingBeforeRows
  <2>2. /\ b.on[1] = "session" => b.on[2] \in Session /\ Height(w, n) = b.on[2]
        /\ b.on[1] = "tenant" => b.on[2] \in Tenant /\ Height(w, n) = n + 2 * b.on[2]
        /\ b.on[1] = "generation" => b.on[2] \in Tenant /\ Height(w, n) = n + 2 * b.on[2] + 1
    BY Heights
  <2>3. \A t \in Tenant : t \in Nat /\ t <= m
    BY <1>1, <1>3
  <2>4. \A s \in Session : s \in Nat /\ s <= n
    BY <1>1, <1>2
  <2>5. CASE b.on[1] = "session"
    BY <2>2, <2>4, <2>5
  <2>6. CASE b.on[1] # "session"
    <3> PICK t : t = b.on[2]
      OBVIOUS
    <3>1. t \in Nat /\ t <= m /\ (Height(w, n) = n + 2 * t \/ Height(w, n) = n + 2 * t + 1)
      BY <2>1, <2>2, <2>3, <2>6
    <3> QED BY <3>1
  <2> QED BY <2>5, <2>6
<1> PICK k \in Nat : k = n + 2 * m + 1
  OBVIOUS
<1> DEFINE depths == {k - Height(w, n) : w \in T}
<1>5. depths \in SUBSET Nat /\ depths # {}
  <2>1. \A w \in T : k - Height(w, n) \in Nat
    BY <1>4
  <2> QED BY <2>1 DEF Ring
<1>6. PICK d \in depths : \A e \in depths : d <= e
  <2> HIDE DEF depths
  <2> QED BY <1>5, LeastIs
<1>7. PICK w \in T : d = k - Height(w, n)
  OBVIOUS
<1>8. PICK v \in T, h \in AnyLock : Blocks(v, h, w)
  BY RingMembers
<1>9. Height(w, n) < Height(v, n)
  BY <1>2, <1>8, RingOrder
<1>10. d <= k - Height(v, n)
  BY <1>6
<1> QED BY <1>4, <1>7, <1>9, <1>10

(***************************************************************************)
(* KnownCircularWaits: however many transactions run, and whatever they    *)
(* ask for, PostgreSQL ends a request for a circle only when two upgrades  *)
(* of one session meet, an account change meets a reset or a revocation of *)
(* a terminal, or one meets a suspension while the purge waits.            *)
(***************************************************************************)
THEOREM NoOtherCircle == Spec => []KnownCircularWaits
<1>1. LocksInv => KnownCircularWaits
  <2> SUFFICES ASSUME LocksInv, NEW S \in SUBSET Worker, CircularWait(S) PROVE Known(S)
    BY DEF KnownCircularWaits, Known
  <2>1. PICK T \in SUBSET S : Ring(T)
    BY TightCircle
  <2>2. Known(T)
    BY <2>1, RingsKnown
  <2> QED BY <2>2 DEF Known
<1> QED BY <1>1, LocksAlways, PTL

-----------------------------------------------------------------------------
(***************************************************************************)
(* Whose requests can never be the victim of a circle among themselves:    *)
(* all but the upgrade of a session and the account changes made through   *)
(* the API.                                                                *)
(***************************************************************************)
Orderly == (OfTenantSession \cup OfSession \cup OfNoSession)
              \ {"upgrade", "manage_account", "own_password"}

(* No circle among the requests whose kind is in Orderly. *)
OrderlyNeverDeadlock ==
    \A S \in SUBSET Worker :
        (\A w \in S : Busy(w) => doing[w].kind \in Orderly) => ~CircularWait(S)

(***************************************************************************)
(* Business writes, package changes, checks of origins, switches,          *)
(* recoveries, logins, logouts, everything about Sandboxes and terminals,  *)
(* suspensions, tenant settings, new tenants and accounts, the purge and   *)
(* the operator's commands never deadlock with each other, however many    *)
(* there are (store.go:391, tenancy_control.go:79, main.go:136).           *)
(***************************************************************************)
THEOREM Orderliness == Spec => []OrderlyNeverDeadlock
<1>1. KnownCircularWaits => OrderlyNeverDeadlock
  <2> SUFFICES ASSUME KnownCircularWaits, NEW S \in SUBSET Worker, CircularWait(S),
                      \A w \in S : Busy(w) => doing[w].kind \in Orderly
               PROVE  FALSE
    BY DEF OrderlyNeverDeadlock
  <2>1. \A w \in S : doing[w].kind \notin {"upgrade", "manage_account", "own_password"}
    BY DEF CircularWait, WaitsFor, Waiting, Orderly
  <2>2. \A w \in S : ~AccountChange(w) /\ ~Does(w, {"upgrade"})
    BY <2>1 DEF AccountChange, Does
  <2> QED BY <2>2 DEF KnownCircularWaits
<1> QED
  BY <1>1, NoOtherCircle, PTL
=============================================================================
