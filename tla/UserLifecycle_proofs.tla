------------------------ MODULE UserLifecycle_proofs ------------------------
(***************************************************************************)
(* Theorems about UserLifecycle.                                           *)
(*                                                                         *)
(* A row is only ever changed by flushing what a session wants over what   *)
(* is in the database, so the proofs start with what the operators of      *)
(* UserRecord and Flush do to a row, and with the bag of open calls.       *)
(***************************************************************************)
EXTENDS UserLifecycle, FiniteSetTheorems, TLAPS

------------------------------------------------------------------------------
(* Rows *)

\* Row s is a row that may follow row r: its key is the same, and a user who is
\* there does not turn into one who never was.
Tame(r, s) == s \in RowType /\ s.key = r.key /\ (s.status = "absent" => r.status = "absent")

\* The empty row is a row: the first key is within the bound.
LEMMA AbsentTyped ==
  /\ Absent \in RowType /\ Deleted \in RowType
  /\ Absent.status = "absent" /\ Deleted.status = "deleted" /\ Deleted.key = 1
<1>1. 0 \in 0..MaxUsed /\ 1 \in 1..MaxKey /\ -99 \in Int
  BY RequestAssumption, UserAssumption DEF RequestAssumption, UserAssumption
<1>2. Absent \in RowType /\ Absent.status = "absent" /\ Absent.key = 1
  BY <1>1 DEF Absent, RowType, Statuses, Gone, NoLimit, NoExpire
<1>3. Deleted = [Absent EXCEPT !.status = "deleted"]
  BY DEF Deleted
<1> QED BY <1>2, <1>3 DEF RowType, Statuses, Gone

\* update_user keeps rows rows: each of its four parts does.
LEMMA StatusTame ==
  ASSUME NEW r \in RowType, NEW s \in {"keep", "active", "on_hold", "disabled"}
  PROVE  Tame(r, WithStatus(r, s))
  BY DEF Tame, WithStatus, RowType, Statuses, Gone

\* So does a new data limit.
LEMMA LimitTame ==
  ASSUME NEW r \in RowType, NEW l \in Nat \cup {Keep}
  PROVE  Tame(r, WithLimit(r, l))
<1> DEFINE s == [r EXCEPT !.limit = IF l = 0 THEN NoLimit ELSE l]
<1>1. CASE l = Keep
  BY <1>1 DEF Tame, WithLimit
<1>2. CASE l # Keep
  <2>1. s \in RowType /\ s.key = r.key /\ s.status = r.status
    BY <1>2 DEF RowType, NoLimit
  <2>2. StatusForLimit(s) \in Statuses \ {"absent"} \/ StatusForLimit(s) = s.status
    BY DEF StatusForLimit, Statuses, Gone
  <2>3. WithLimit(r, l) = [s EXCEPT !.status = StatusForLimit(s)]
    BY <1>2 DEF WithLimit
  <2> HIDE DEF s
  <2> QED BY <2>1, <2>2, <2>3 DEF Tame, RowType, Statuses, Gone
<1> QED BY <1>1, <1>2

\* And a new expiry.
LEMMA ExpireTame ==
  ASSUME NEW r \in RowType, NEW e \in Nat \cup {Keep}, NEW t
  PROVE  Tame(r, WithExpire(r, e, t))
<1> DEFINE s == [r EXCEPT !.expire = e]
<1>1. CASE e = Keep
  BY <1>1 DEF Tame, WithExpire
<1>2. CASE e # Keep
  <2>1. s \in RowType /\ s.key = r.key /\ s.status = r.status
    BY <1>2 DEF RowType
  <2>2. StatusForExpire(s, t) \in Statuses \ {"absent"} \/ StatusForExpire(s, t) = s.status
    BY DEF StatusForExpire, Statuses, Gone
  <2>3. WithExpire(r, e, t) = [s EXCEPT !.status = StatusForExpire(s, t)]
    BY <1>2 DEF WithExpire
  <2> HIDE DEF s
  <2> QED BY <2>1, <2>2, <2>3 DEF Tame, RowType, Statuses, Gone
<1> QED BY <1>1, <1>2

\* update_user as a whole changes neither the key nor whether the row is there.
LEMMA ModifiedTame ==
  ASSUME NEW r \in RowType, NEW t, NEW m,
         Tame(r, WithStatus(r, m.status)),
         m.limit \in Nat \cup {Keep}, m.expire \in Nat \cup {Keep},
         m.hold \in Nat, m.timeout \in Nat, m.tags \in SUBSET Tags,
         m.plan \in {NoPlan} \cup Plans
  PROVE  Tame(r, Modified(r, m, t))
<1> DEFINE a == WithStatus(r, m.status)
           b == WithLimit(a, m.limit)
           s == WithExpire(b, m.expire, t)
<1>2. Tame(r, a) /\ a \in RowType
  BY DEF Tame
<1>3. Tame(a, b) /\ b \in RowType
  <2> HIDE DEF a
  <2> QED BY <1>2, LimitTame DEF Tame
<1>4. Tame(b, s) /\ s \in RowType
  <2> HIDE DEF b
  <2> QED BY <1>3, ExpireTame DEF Tame
<1>5. Tame(r, s)
  BY <1>2, <1>3, <1>4 DEF Tame
<1>6. Modified(r, m, t) =
        [s EXCEPT !.tags    = IF m.tags = {} THEN @ ELSE m.tags,
                  !.timeout = IF m.timeout = 0 THEN @ ELSE m.timeout,
                  !.hold    = IF m.hold = 0 THEN @ ELSE m.hold,
                  !.plan    = m.plan,
                  !.online  = IF @ = "since" THEN "before" ELSE @]
  BY DEF Modified
<1> HIDE DEF s
<1> QED BY <1>4, <1>5, <1>6 DEF Tame, RowType

\* revoke_user_sub is such an update, of the row as it is, followed by the new key.
LEMMA RevokedTyped ==
  ASSUME NEW r \in RowType, Presentable(r), NEW k \in 1..MaxKey, NEW t
  PROVE  /\ Revoked(r, k, t) \in RowType
         /\ Revoked(r, k, t).key = k
         /\ Revoked(r, k, t).status = "absent" => r.status = "absent"
<1> DEFINE m == [status |-> r.status,
                 limit |-> IF r.limit = NoLimit THEN Keep ELSE r.limit,
                 expire |-> IF r.expire = NoExpire THEN Keep ELSE r.expire,
                 tags |-> {}, hold |-> 0, timeout |-> 0, plan |-> r.plan]
           s == Modified(r, m, t)
<1>1. Tame(r, WithStatus(r, m.status))
  <2>1. WithStatus(r, m.status) = r
    BY DEF WithStatus, RowType
  <2> QED BY <2>1 DEF Tame
<1>2. /\ m.limit \in Nat \cup {Keep} /\ m.expire \in Nat \cup {Keep}
      /\ m.hold \in Nat /\ m.timeout \in Nat /\ m.tags \in SUBSET Tags
      /\ m.plan \in {NoPlan} \cup Plans
  BY DEF RowType, Presentable, NoLimit, NoExpire
<1>3. Revoked(r, k, t) = [s EXCEPT !.key = k]
  BY DEF Revoked
<1> HIDE DEF m
<1>4. Tame(r, s)
  BY <1>1, <1>2, ModifiedTame
<1> HIDE DEF s
<1> QED BY <1>3, <1>4 DEF Tame, RowType

\* The resets, and what the bulk routes do to one row.
LEMMA ResetsTame ==
  ASSUME NEW r \in RowType
  PROVE  /\ Tame(r, UsageReset(r)) /\ Tame(r, BulkReset(r))
         /\ Tame(r, BulkDisabled(r)) /\ Tame(r, BulkActivated(r))
<1>1. 0 \in 0..MaxUsed
  BY UserAssumption DEF UserAssumption
<1>2. Tame(r, UsageReset(r))
  BY <1>1 DEF Tame, RowType, UsageReset, Statuses, Gone
<1>3. Tame(r, BulkReset(r))
  BY <1>1 DEF Tame, RowType, BulkReset, Statuses, Gone
<1>4. Tame(r, BulkDisabled(r))
  BY DEF Tame, RowType, BulkDisabled, Statuses, Gone, Served
<1>5. Tame(r, BulkActivated(r))
  <2> DEFINE s == IF r.status # "disabled" THEN r.status
                  ELSE IF r.expire = NoExpire /\ r.hold # 0 /\ r.online = "never" THEN "on_hold"
                  ELSE "active"
  <2>1. BulkActivated(r) = [r EXCEPT !.status = s]
    BY DEF BulkActivated
  <2>2. s \in Statuses /\ (s = "absent" => r.status = "absent")
    BY DEF RowType, Statuses, Gone
  <2> HIDE DEF s
  <2> QED BY <2>1, <2>2 DEF Tame, RowType
<1> QED BY <1>2, <1>3, <1>4, <1>5

\* A next plan is applied to a row that has one; subtracting from NULL raised before.
LEMMA NextPlanTame ==
  ASSUME NEW r \in RowType, r.plan # NoPlan
  PROVE  Tame(r, NextPlanApplied(r))
<1>1. r.plan \in Plans /\ r.limit \in Int /\ r.used \in 0..MaxUsed
  BY DEF RowType
<1>2. r.plan.limit \in Nat /\ r.plan.expire \in Nat /\ 0 \in 0..MaxUsed
  BY <1>1, UserAssumption DEF Plans, UserAssumption
<1>3. r.limit - r.used \in Int
  BY <1>1, UserAssumption DEF UserAssumption
<1> DEFINE l == r.plan.limit + IF r.plan.carry THEN 0 ELSE r.limit - r.used
<1>4. l \in Int
  BY <1>2, <1>3
<1>5. NextPlanApplied(r) =
        [r EXCEPT !.status = "active", !.used = 0, !.due = FALSE, !.plan = NoPlan,
                  !.expire = r.plan.expire, !.limit = l]
  BY DEF NextPlanApplied
<1> HIDE DEF l
<1> QED BY <1>2, <1>4, <1>5 DEF Tame, RowType, Statuses

\* Starting the clock of a user changes the times only.
LEMMA StartedTame ==
  ASSUME NEW r \in RowType, NEW t \in Nat
  PROVE  Tame(r, Started(r, t))
<1>1. t + r.hold \in Nat
  BY DEF RowType
<1> QED BY <1>1 DEF Tame, RowType, Started

\* Flushing a tame change over whatever the database holds is a tame change of that.
LEMMA FlushTame ==
  ASSUME NEW db \in RowType, NEW loaded \in RowType, NEW wanted, Tame(loaded, wanted)
  PROVE  Tame(db, Flush(db, loaded, wanted))
<1>1. DOMAIN db = {"status", "used", "limit", "expire", "hold", "timeout", "online",
                   "due", "key", "tags", "plan"}
  BY DEF RowType
<1>2. Flush(db, loaded, wanted) \in RowType
  BY <1>1 DEF Flush, RowType, Tame
<1> QED BY <1>1, <1>2 DEF Flush, Tame

------------------------------------------------------------------------------
(* The bag of open calls *)

\* Issuing the calls of a set adds them to the bag.
LEMMA IssueBag ==
  ASSUME NEW B, IsABag(B), NEW S
  PROVE  /\ IsABag(B (+) SetToBag(S))
         /\ BagToSet(B (+) SetToBag(S)) = BagToSet(B) \cup S
<1> DEFINE N == B (+) SetToBag(S)
<1>1. N = [e \in DOMAIN B \cup S |->
             (IF e \in DOMAIN B THEN B[e] ELSE 0) + (IF e \in S THEN 1 ELSE 0)]
  BY DEF (+), SetToBag
<1>2. DOMAIN N = DOMAIN B \cup S
  BY <1>1
<1>3. ASSUME NEW e \in DOMAIN N PROVE N[e] \in {n \in Nat : n > 0}
  BY <1>1 DEF IsABag
<1>4. N = [e \in DOMAIN N |-> N[e]]
  BY <1>1
<1> HIDE DEF N
<1>5. N \in [DOMAIN N -> {n \in Nat : n > 0}]
  BY <1>3, <1>4
<1> QED BY <1>2, <1>5 DEF N, IsABag, BagToSet

\* Delivering one copy of a call takes it out of the bag.
LEMMA TakeBag ==
  ASSUME NEW B, IsABag(B), NEW k
  PROVE  /\ IsABag(B (-) SetToBag({k}))
         /\ BagToSet(B (-) SetToBag({k})) \subseteq BagToSet(B)
         /\ BagToSet(B) \ {k} \subseteq BagToSet(B (-) SetToBag({k}))
<1> DEFINE C == [e \in DOMAIN B |-> IF e \in {k} THEN B[e] - 1 ELSE B[e]]
           N == B (-) SetToBag({k})
<1>1. N = [e \in {d \in DOMAIN B : C[d] > 0} |-> C[e]]
  BY DEF (-), SetToBag
<1>2. DOMAIN N = {d \in DOMAIN B : C[d] > 0}
  BY <1>1
<1>3. ASSUME NEW e \in DOMAIN N PROVE N[e] \in {n \in Nat : n > 0}
  <2>1. N[e] = C[e] /\ e \in DOMAIN B /\ C[e] > 0
    BY <1>1, <1>2
  <2>2. B[e] \in Nat
    BY <2>1 DEF IsABag
  <2>3. C[e] = IF e \in {k} THEN B[e] - 1 ELSE B[e]
    BY <2>1
  <2> HIDE DEF N, C
  <2> QED BY <2>1, <2>2, <2>3
<1>4. N = [e \in DOMAIN N |-> N[e]]
  BY <1>1
<1>5. ASSUME NEW e \in DOMAIN B, e # k PROVE C[e] > 0
  BY <1>5 DEF IsABag
<1> HIDE DEF N, C
<1>6. N \in [DOMAIN N -> {n \in Nat : n > 0}]
  BY <1>3, <1>4
<1> QED BY <1>2, <1>5, <1>6 DEF N, IsABag, BagToSet

\* There is nothing in the empty bag.
LEMMA EmptyBagTyped == IsABag(EmptyBag) /\ BagToSet(EmptyBag) = {}
  BY DEF IsABag, EmptyBag, SetToBag, BagToSet

------------------------------------------------------------------------------
(* Type correctness *)

\* The rows a session may have loaded, by their users.
Loads == UNION {[D -> RowType] : D \in SUBSET Users}

HandlerType ==
    [kind : {"idle", "modify", "delete", "reset", "revoke", "active_next", "delete_expired"},
     user : Users \cup {NoUser}, row : RowType]

ReviewType ==
    [pc : {"idle", "active", "limited", "expired", "hold", "start"}, at : 0..MaxTime,
     todo : SUBSET Users, user : Users \cup {NoUser}, loaded : Loads]

RenewType == [pc : {"idle", "reset"}, todo : SUBSET Users, loaded : Loads]

RowsOK == rows \in [Users -> RowType]

CallsOK == IsABag(calls) /\ BagToSet(calls) \subseteq CallType

CoresOK ==
    /\ accounts \in [Cores -> Configs]
    /\ up \in [Cores -> BOOLEAN]
    /\ restarts \subseteq [core : Cores, config : Configs]
    /\ starting \in [Cores -> Configs \cup {NoConfig}]

\* A request under way is about a user whose row is, or was, there.
HandlersOK ==
    /\ handler \in [Handlers -> HandlerType]
    /\ \A h \in Handlers : handler[h].kind # "idle" =>
          /\ handler[h].user \in Users
          /\ rows[handler[h].user].status # "absent"
          /\ handler[h].kind = "delete_expired" =>
                handler[h].row.status \in {"expired", "limited"}

\* Every revocation under way still has a key to give.
Revoking(u) == {h \in Handlers : handler[h].kind = "revoke" /\ handler[h].user = u}

KeysOK == \A u \in Users : rows[u].key + Cardinality(Revoking(u)) <= MaxKey

\* Between two commits for one user, the job holds the row of that user.
ReviewOK ==
    /\ review \in ReviewType
    /\ review.pc \in {"limited", "expired", "start"} => review.user \in DOMAIN review.loaded

RenewOK == renew \in RenewType

\* The inductive invariant behind TypeOK.
TInv ==
    /\ RowsOK
    /\ now \in 0..MaxTime
    /\ CallsOK
    /\ CoresOK
    /\ HandlersOK
    /\ KeysOK
    /\ ReviewOK
    /\ RenewOK

\* What a session loads.
LEMMA LoadsTyped ==
  /\ \A l \in Loads : DOMAIN l \subseteq Users /\ \A u \in DOMAIN l : l[u] \in RowType
  /\ << >> \in Loads /\ DOMAIN << >> = {}
  /\ \A D \in SUBSET Users : \A f \in [D -> RowType] : f \in Loads
<1>1. << >> \in [{} -> RowType]
  OBVIOUS
<1> QED BY <1>1 DEF Loads

\* The rows of the users that are not idle, as the handlers are.
LEMMA IdleTyped ==
  /\ HandlerIdle \in HandlerType /\ HandlerIdle.kind = "idle"
  /\ ReviewIdle \in ReviewType /\ ReviewIdle.pc = "idle" /\ ReviewIdle.loaded = << >>
  /\ RenewIdle \in RenewType
<1>1. 0 \in 0..MaxTime
  BY UserAssumption DEF UserAssumption
<1>2. HandlerIdle \in HandlerType /\ HandlerIdle.kind = "idle"
  BY AbsentTyped DEF HandlerIdle, HandlerType
<1>3. ReviewIdle \in ReviewType /\ ReviewIdle.pc = "idle" /\ ReviewIdle.loaded = << >>
  BY <1>1, LoadsTyped DEF ReviewIdle, ReviewType
<1>4. RenewIdle \in RenewType
  BY LoadsTyped DEF RenewIdle, RenewType
<1> QED BY <1>2, <1>3, <1>4

\* A configuration made from rows gives every user a key, or none, per inbound.
LEMMA ConfigTyped ==
  ASSUME NEW T \in [Users -> RowType]
  PROVE  Config(T) \in Configs
<1>1. ASSUME NEW u \in Users PROVE T[u].key \in 0..MaxKey /\ NoKey \in 0..MaxKey
  BY UserAssumption DEF UserAssumption, RowType, NoKey
<1> QED BY <1>1 DEF Config, Configs

\* The calls that add, update and remove a user are calls for that user, to cores
\* that are reached.
LEMMA CallsTyped ==
  ASSUME CoresOK, NEW u \in Users, NEW r \in RowType
  PROVE  /\ AddUser(u, r) \subseteq CallType
         /\ UpdateUser(u, r) \subseteq CallType
         /\ RemoveUser(u) \subseteq CallType
<1>1. r.key \in 0..MaxKey /\ NoKey \in 0..MaxKey /\ r.tags \in SUBSET Tags
  BY UserAssumption DEF UserAssumption, RowType, NoKey
<1>2. Reached \subseteq Cores
  BY UserAssumption DEF UserAssumption, Reached
<1> QED BY <1>1, <1>2 DEF AddUser, UpdateUser, RemoveUser, Call, CallType

\* Issuing calls leaves a bag of calls.
LEMMA IssueTyped ==
  ASSUME CallsOK, NEW S \in SUBSET CallType, Issue(S)
  PROVE  CallsOK'
  BY IssueBag DEF CallsOK, Issue

\* A step that leaves the calls alone issues none.
LEMMA NothingIssued ==
  ASSUME CallsOK, calls' = calls PROVE Issue({})
<1>1. calls (+) SetToBag({}) = [e \in DOMAIN calls |-> calls[e]]
  BY DEF CallsOK, IsABag, SetToBag, (+)
<1> QED BY <1>1 DEF Issue, CallsOK, IsABag

\* What the requests have pending is not disturbed by a step that keeps the keys,
\* makes nobody absent and at most finishes a request.
LEMMA HandlersStep ==
  ASSUME HandlersOK, KeysOK, RowsOK, RowsOK',
         \A u \in Users :
            /\ rows'[u].key <= rows[u].key
            /\ rows'[u].status = "absent" => rows[u].status = "absent",
         \/ handler' = handler
         \/ \E h \in Handlers : handler' = [handler EXCEPT ![h] = HandlerIdle]
  PROVE  HandlersOK' /\ KeysOK'
<1>1. /\ handler' \in [Handlers -> HandlerType]
      /\ \A h \in Handlers : handler'[h].kind # "idle" => handler'[h] = handler[h]
  BY IdleTyped DEF HandlersOK
<1>2. HandlersOK'
  <2>1. ASSUME NEW h \in Handlers, handler'[h].kind # "idle"
        PROVE  /\ handler'[h].user \in Users /\ rows'[handler'[h].user].status # "absent"
               /\ handler'[h].kind = "delete_expired" =>
                     handler'[h].row.status \in {"expired", "limited"}
    <3>1. handler'[h] = handler[h]
      BY <1>1, <2>1
    <3>2. /\ handler[h].user \in Users /\ rows[handler[h].user].status # "absent"
          /\ handler[h].kind = "delete_expired" =>
                handler[h].row.status \in {"expired", "limited"}
      BY <2>1, <3>1 DEF HandlersOK
    <3> QED BY <3>1, <3>2
  <2> QED BY <1>1, <2>1 DEF HandlersOK
<1>3. ASSUME NEW u \in Users
      PROVE  rows'[u].key + Cardinality(Revoking(u)') <= MaxKey
  <2>1. Revoking(u)' \subseteq Revoking(u)
    BY <1>1 DEF Revoking
  <2>2. IsFiniteSet(Revoking(u))
    BY RequestAssumption, FS_Subset DEF RequestAssumption, Revoking
  <2>3. /\ Cardinality(Revoking(u)') <= Cardinality(Revoking(u))
        /\ Cardinality(Revoking(u)) \in Nat /\ Cardinality(Revoking(u)') \in Nat
    BY <2>1, <2>2, FS_Subset, FS_CardinalityType
  <2>4. rows[u].key \in Nat /\ rows'[u].key \in Nat /\ MaxKey \in Nat
    BY UserAssumption DEF RowsOK, RowType, UserAssumption
  <2>5. rows[u].key + Cardinality(Revoking(u)) <= MaxKey
    BY Zenon DEF KeysOK
  <2>6. rows'[u].key <= rows[u].key
    OBVIOUS
  <2> QED BY <2>3, <2>4, <2>5, <2>6
<1>4. KeysOK'
  BY <1>3 DEF KeysOK
<1> QED BY <1>2, <1>4

\* So for a step that changes one row tamely.
LEMMA RowStep ==
  ASSUME HandlersOK, KeysOK, RowsOK,
         NEW u \in Users, NEW s, Tame(rows[u], s), rows' = [rows EXCEPT ![u] = s],
         \/ handler' = handler
         \/ \E h \in Handlers : handler' = [handler EXCEPT ![h] = HandlerIdle]
  PROVE  RowsOK' /\ HandlersOK' /\ KeysOK'
<1>1. RowsOK'
  BY DEF RowsOK, Tame
<1>2. ASSUME NEW v \in Users
      PROVE  /\ rows'[v].key <= rows[v].key
             /\ rows'[v].status = "absent" => rows[v].status = "absent"
  <2>1. rows[v].key \in Nat
    BY DEF RowsOK, RowType
  <2> QED BY <2>1 DEF RowsOK, Tame
<1> QED BY <1>1, <1>2, HandlersStep

\* And for one that changes none.
LEMMA NoRowStep ==
  ASSUME HandlersOK, KeysOK, RowsOK, rows' = rows,
         \/ handler' = handler
         \/ \E h \in Handlers : handler' = [handler EXCEPT ![h] = HandlerIdle]
  PROVE  RowsOK' /\ HandlersOK' /\ KeysOK'
<1>1. RowsOK'
  BY DEF RowsOK
<1>2. ASSUME NEW v \in Users
      PROVE  /\ rows'[v].key <= rows[v].key
             /\ rows'[v].status = "absent" => rows[v].status = "absent"
  <2>1. rows[v].key \in Nat
    BY DEF RowsOK, RowType
  <2> QED BY <2>1
<1> QED BY <1>1, <1>2, HandlersStep

\* A row that has been loaded, and what the job sees of a user.
LEMMA SeenTyped ==
  ASSUME RowsOK, NEW u \in Users, NEW job, job.loaded \in Loads
  PROVE  Seen(job, u) \in RowType
  BY LoadsTyped DEF Seen, RowsOK

\* Changing one account changes that one only.
LEMMA PutKey ==
  ASSUME NEW A \in [Cores -> Configs], NEW c \in Cores, NEW u \in Users, NEW tag \in Tags,
         NEW n \in 0..MaxKey, NEW B, B = [A EXCEPT ![c][u][tag] = n]
  PROVE  /\ B \in [Cores -> Configs]
         /\ \A d \in Cores : \A v \in Users : \A g \in Tags :
               B[d][v][g] = IF d = c /\ v = u /\ g = tag THEN n ELSE A[d][v][g]
<1> DEFINE f == [A[c][u] EXCEPT ![tag] = n]
           g == [A[c] EXCEPT ![u] = f]
<1>1. B = [A EXCEPT ![c] = g]
  OBVIOUS
<1>2. A[c] \in Configs /\ A[c][u] \in [Tags -> 0..MaxKey]
  BY DEF Configs
<1>3. f \in [Tags -> 0..MaxKey] /\ \A t \in Tags : f[t] = IF t = tag THEN n ELSE A[c][u][t]
  BY <1>2
<1> HIDE DEF f
<1>4. g \in Configs /\ \A v \in Users : g[v] = IF v = u THEN f ELSE A[c][v]
  BY <1>2, <1>3 DEF Configs
<1> HIDE DEF g
<1>5. B \in [Cores -> Configs] /\ \A d \in Cores : B[d] = IF d = c THEN g ELSE A[d]
  BY <1>1, <1>4
<1>6. ASSUME NEW d \in Cores, NEW v \in Users, NEW t \in Tags
      PROVE  B[d][v][t] = IF d = c /\ v = u /\ t = tag THEN n ELSE A[d][v][t]
  <2>1. CASE d # c
    BY <1>5, <2>1
  <2>2. CASE d = c /\ v # u
    BY <1>4, <1>5, <2>2
  <2>3. CASE d = c /\ v = u
    <3>1. B[d][v] = f
      BY <1>4, <1>5, <2>3
    <3> QED BY <1>3, <2>3, <3>1
  <2> QED BY <2>1, <2>2, <2>3
<1> QED BY <1>5, <1>6

\* The cores.
LEMMA DeliverTyped ==
  ASSUME TInv, NEW k \in BagToSet(calls), Deliver(k)
  PROVE  TInv'
<1>1. k \in CallType /\ k.do \in {"add", "remove", "alter"} /\ k.user \in Users
      /\ k.core \in Cores /\ k.tag \in Tags /\ k.key \in 0..MaxKey
  BY DEF TInv, CallsOK, CallType
<1> DEFINE held == accounts[k.core][k.user][k.tag]
           new == IF k.do # "add" THEN NoKey ELSE IF held = NoKey THEN k.key ELSE held
           next == IF k.do = "alter" THEN {[k EXCEPT !.do = "add"]} ELSE {}
<1>2. held \in 0..MaxKey /\ NoKey \in 0..MaxKey
  BY <1>1, UserAssumption DEF TInv, CoresOK, Configs, NoKey, UserAssumption
<1>3. new \in 0..MaxKey
  BY <1>1, <1>2
<1>4. \/ accounts' = [accounts EXCEPT ![k.core][k.user][k.tag] = new]
      \/ accounts' = accounts
  BY DEF Deliver
<1>5. accounts' \in [Cores -> Configs]
  <2> HIDE DEF new
  <2>1. accounts \in [Cores -> Configs]
    BY DEF TInv, CoresOK
  <2> QED BY <1>1, <1>3, <1>4, <2>1, PutKey
<1>6. CoresOK'
  BY <1>5 DEF Deliver, TInv, CoresOK
<1>7. CallsOK'
  <2>1. next \subseteq CallType
    BY <1>1 DEF CallType
  <2>2. IsABag(calls (-) SetToBag({k})) /\ BagToSet(calls (-) SetToBag({k})) \subseteq CallType
    BY TakeBag DEF TInv, CallsOK
  <2>3. calls' = (calls (-) SetToBag({k})) (+) SetToBag(next)
    BY DEF Deliver
  <2> HIDE DEF next
  <2> QED BY <2>1, <2>2, <2>3, IssueBag DEF CallsOK
<1>8. RowsOK' /\ HandlersOK' /\ KeysOK'
  <2>1. rows' = rows /\ handler' = handler
    BY DEF Deliver
  <2> QED BY <2>1, NoRowStep DEF TInv
<1> QED BY <1>6, <1>7, <1>8 DEF TInv, ReviewOK, RenewOK, Deliver, jobVars

\* An empty core serves nobody.
LEMMA EmptyConfigTyped == Config([u \in Users |-> Absent]) \in Configs
  BY AbsentTyped, ConfigTyped

\* Restarts, the health check and crashes give cores configurations, or empty ones.
LEMMA RestartsTyped ==
  ASSUME TInv,
         \/ \E r \in restarts : RestartBegin(r)
         \/ \E c \in Cores : RestartEnd(c) \/ HealthCheck(c) \/ CoreCrash(c)
         \/ RestartCores
  PROVE  TInv'
<1>1. rows' = rows /\ now' = now /\ handler' = handler /\ review' = review /\ renew' = renew
      /\ calls' = calls
  BY DEF RestartBegin, RestartEnd, HealthCheck, CoreCrash, RestartCores, jobVars
<1>2. RowsOK' /\ HandlersOK' /\ KeysOK'
  BY <1>1, NoRowStep DEF TInv
<1>3. Config(rows) \in Configs
  BY ConfigTyped DEF TInv, RowsOK
<1>4. CoresOK'
  <2>1. ASSUME NEW r \in restarts, RestartBegin(r) PROVE CoresOK'
    <3>1. r.core \in Cores /\ r.config \in Configs
      BY DEF TInv, CoresOK
    <3>2. CASE starting[r.core] # NoConfig
      <4>1. restarts' = restarts \ {r} /\ UNCHANGED <<accounts, up, starting>>
        BY <2>1, <3>2 DEF RestartBegin
      <4> QED BY <4>1 DEF TInv, CoresOK
    <3>3. CASE starting[r.core] = NoConfig
      <4> DEFINE empty == Config([u \in Users |-> Absent])
      <4>1. /\ restarts' = restarts \ {r}
            /\ starting' = [starting EXCEPT ![r.core] = r.config]
            /\ accounts' = [accounts EXCEPT ![r.core] = empty]
            /\ up' = [up EXCEPT ![r.core] = FALSE]
        BY <2>1, <3>3 DEF RestartBegin
      <4>2. empty \in Configs
        BY EmptyConfigTyped
      <4> HIDE DEF empty
      <4> QED BY <3>1, <4>1, <4>2 DEF TInv, CoresOK
    <3> QED BY <3>2, <3>3
  <2>2. ASSUME NEW c \in Cores, RestartEnd(c) PROVE CoresOK'
    BY <2>2 DEF TInv, CoresOK, RestartEnd
  <2>3. ASSUME NEW c \in Cores, HealthCheck(c) PROVE CoresOK'
    BY <1>3, <2>3 DEF TInv, CoresOK, HealthCheck
  <2>4. ASSUME NEW c \in Cores, CoreCrash(c) PROVE CoresOK'
    <3> DEFINE empty == Config([u \in Users |-> Absent])
    <3>1. /\ restarts' = restarts /\ starting' = starting
          /\ accounts' = [accounts EXCEPT ![c] = empty]
          /\ up' = [up EXCEPT ![c] = FALSE]
      BY <2>4 DEF CoreCrash
    <3>2. empty \in Configs
      BY EmptyConfigTyped
    <3> HIDE DEF empty
    <3> QED BY <3>1, <3>2 DEF TInv, CoresOK
  <2>5. ASSUME RestartCores PROVE CoresOK'
    <3>1. Reached \subseteq Cores
      BY UserAssumption DEF UserAssumption, Reached
    <3> QED BY <1>3, <2>5, <3>1 DEF TInv, CoresOK, RestartCores, RestartWith
  <2> QED BY <2>1, <2>2, <2>3, <2>4, <2>5
<1> QED BY <1>1, <1>2, <1>4 DEF TInv, CallsOK, ReviewOK, RenewOK

\* The bulk routes.
LEMMA BulkTyped ==
  ASSUME TInv, ResetAll \/ DisableAll \/ ActivateAll
  PROVE  TInv'
<1>1. /\ now' = now /\ handler' = handler /\ review' = review /\ renew' = renew
      /\ calls' = calls /\ accounts' = accounts /\ up' = up /\ starting' = starting
      /\ RestartWith(rows')
  BY DEF ResetAll, DisableAll, ActivateAll, Bulk, jobVars
<1>2. \/ rows' = [u \in Users |-> BulkReset(rows[u])]
      \/ rows' = [u \in Users |-> BulkDisabled(rows[u])]
      \/ rows' = [u \in Users |-> BulkActivated(rows[u])]
  BY DEF ResetAll, DisableAll, ActivateAll, Bulk
<1>3. /\ rows' = [u \in Users |-> rows'[u]]
      /\ \A u \in Users : Tame(rows[u], rows'[u])
  BY <1>2, ResetsTame DEF TInv, RowsOK
<1>4. RowsOK'
  BY <1>3 DEF RowsOK, Tame
<1>5. ASSUME NEW u \in Users
      PROVE  /\ rows'[u].key <= rows[u].key
             /\ rows'[u].status = "absent" => rows[u].status = "absent"
  <2>1. rows[u].key \in Nat
    BY DEF TInv, RowsOK, RowType
  <2> QED BY <1>3, <2>1 DEF Tame
<1>6. HandlersOK' /\ KeysOK'
  BY <1>1, <1>4, <1>5, HandlersStep DEF TInv
<1>7. CoresOK'
  <2>1. Reached \subseteq Cores
    BY UserAssumption DEF UserAssumption, Reached
  <2>2. Config(rows') \in Configs
    BY <1>4, ConfigTyped DEF RowsOK
  <2> QED BY <1>1, <2>1, <2>2 DEF TInv, CoresOK, RestartWith
<1> QED BY <1>1, <1>4, <1>6, <1>7 DEF TInv, CallsOK, ReviewOK, RenewOK

\* The requests.
LEMMA CreateTyped ==
  ASSUME TInv, NEW u \in Users, Create(u)
  PROVE  TInv'
<1>1. PICK p \in Profiles : rows' = [rows EXCEPT ![u] = p] /\ Issue(AddUser(u, p))
  BY DEF Create
<1>2. /\ now' = now /\ handler' = handler /\ review' = review /\ renew' = renew
      /\ accounts' = accounts /\ up' = up /\ starting' = starting /\ restarts' = restarts
      /\ rows[u].status = "absent"
  BY DEF Create, jobVars
<1>3. p \in RowType /\ p.status \in Served
  BY RequestAssumption DEF RequestAssumption
<1>4. RowsOK'
  BY <1>1, <1>3 DEF TInv, RowsOK
<1>5. HandlersOK'
  <2>1. ASSUME NEW h \in Handlers, handler'[h].kind # "idle"
        PROVE  handler'[h].user \in Users /\ rows'[handler'[h].user].status # "absent"
    <3>1. handler'[h].user \in Users /\ rows[handler'[h].user].status # "absent"
      BY <1>2, <2>1 DEF TInv, HandlersOK
    <3>2. handler'[h].user # u
      BY <1>2, <3>1
    <3> QED BY <1>1, <3>1, <3>2 DEF TInv, RowsOK
  <2> QED BY <1>2, <2>1 DEF TInv, HandlersOK
<1>6. KeysOK'
  <2>1. ASSUME NEW v \in Users
        PROVE  rows'[v].key + Cardinality(Revoking(v)') <= MaxKey
    <3>1. Revoking(v)' = Revoking(v)
      BY <1>2 DEF Revoking
    <3>2. CASE v = u
      <4>1. Revoking(v) = {}
        BY <1>2, <3>2 DEF Revoking, TInv, HandlersOK
      <4>2. Cardinality(Revoking(v)') = 0
        BY <3>1, <4>1, FS_EmptySet
      <4>3. rows'[v].key = p.key /\ p.key \in 1..MaxKey
        BY <1>1, <1>3, <3>2 DEF TInv, RowsOK, RowType
      <4> QED BY <4>2, <4>3, UserAssumption DEF UserAssumption
    <3>3. CASE v # u
      <4>1. rows'[v] = rows[v]
        BY <1>1, <3>3 DEF TInv, RowsOK
      <4>2. rows[v].key + Cardinality(Revoking(v)) <= MaxKey
        BY Zenon DEF TInv, KeysOK
      <4> QED BY <3>1, <4>1, <4>2
    <3> QED BY <3>2, <3>3
  <2> QED BY <2>1 DEF KeysOK
<1>7. CallsOK'
  BY <1>1, <1>3, CallsTyped, IssueTyped DEF TInv
<1> QED BY <1>2, <1>4, <1>5, <1>6, <1>7 DEF TInv, CoresOK, ReviewOK, RenewOK

\* A request loads a row; one that will revoke still finds a key to give.
LEMMA LoadTyped ==
  ASSUME TInv, NEW h \in Handlers, NEW u \in Users, NEW kind, Load(h, u, kind)
  PROVE  TInv'
<1>1. /\ kind \in {"modify", "delete", "reset", "revoke", "active_next", "delete_expired"}
      /\ kind = "delete_expired" => rows[u].status \in {"expired", "limited"}
      /\ handler[h] = HandlerIdle /\ rows[u].status \notin Gone
      /\ kind = "revoke" =>
            rows[u].key + Cardinality({g \in Handlers : handler[g].kind = "revoke"}) < MaxKey
      /\ handler' = [handler EXCEPT ![h] = [kind |-> kind, user |-> u, row |-> rows[u]]]
      /\ rows' = rows /\ now' = now /\ UNCHANGED coreVars /\ UNCHANGED jobVars
  BY DEF Load, Exists
<1>2. [kind |-> kind, user |-> u, row |-> rows[u]] \in HandlerType
  BY <1>1 DEF HandlerType, TInv, RowsOK
<1>3. /\ handler' \in [Handlers -> HandlerType]
      /\ handler'[h].kind = kind /\ handler'[h].user = u /\ handler'[h].row = rows[u]
      /\ \A g \in Handlers : g # h => handler'[g] = handler[g]
  BY <1>1, <1>2 DEF TInv, HandlersOK
<1>4. HandlersOK'
  <2>1. ASSUME NEW g \in Handlers, handler'[g].kind # "idle"
        PROVE  /\ handler'[g].user \in Users /\ rows'[handler'[g].user].status # "absent"
               /\ handler'[g].kind = "delete_expired" =>
                     handler'[g].row.status \in {"expired", "limited"}
    <3>1. CASE g = h
      BY <1>1, <1>3, <3>1 DEF Gone
    <3>2. CASE g # h
      BY <1>1, <1>3, <2>1, <3>2 DEF TInv, HandlersOK
    <3> QED BY <3>1, <3>2
  <2> QED BY <1>3, <2>1 DEF HandlersOK
<1>5. KeysOK'
  <2>1. ASSUME NEW v \in Users
        PROVE  rows'[v].key + Cardinality(Revoking(v)') <= MaxKey
    <3>1. rows[v].key + Cardinality(Revoking(v)) <= MaxKey
      BY Zenon DEF TInv, KeysOK
    <3>2. CASE ~(kind = "revoke" /\ v = u)
      <4>1. Revoking(v)' = Revoking(v)
        <5>1. handler[h].kind = "idle"
          BY <1>1, IdleTyped
        <5> QED BY <1>3, <3>2, <5>1 DEF Revoking
      <4> QED BY <1>1, <3>1, <4>1
    <3>3. CASE kind = "revoke" /\ v = u
      <4> DEFINE R == {g \in Handlers : handler[g].kind = "revoke"}
      <4>1. Revoking(v)' \subseteq R \cup {h}
        BY <1>3 DEF Revoking
      <4>2. IsFiniteSet(R) /\ IsFiniteSet(R \cup {h}) /\ h \notin R
        <5>1. handler[h].kind = "idle"
          BY <1>1, IdleTyped
        <5>2. IsFiniteSet(R)
          BY RequestAssumption, FS_Subset DEF RequestAssumption
        <5> QED BY <5>1, <5>2, FS_AddElement
      <4>3. Cardinality(R \cup {h}) = Cardinality(R) + 1 /\ Cardinality(R) \in Nat
        BY <4>2, FS_AddElement, FS_CardinalityType
      <4>4. Cardinality(Revoking(v)') <= Cardinality(R) + 1 /\ Cardinality(Revoking(v)') \in Nat
        BY <4>1, <4>2, <4>3, FS_Subset, FS_CardinalityType
      <4>5. rows[v].key + Cardinality(R) < MaxKey /\ rows'[v].key = rows[v].key
        BY <1>1, <3>3
      <4>6. rows[v].key \in Nat /\ MaxKey \in Nat
        BY UserAssumption DEF UserAssumption, TInv, RowsOK, RowType
      <4> HIDE DEF R
      <4> QED BY <4>3, <4>4, <4>5, <4>6
    <3> QED BY <3>2, <3>3
  <2> QED BY <2>1 DEF KeysOK
<1> QED BY <1>1, <1>4, <1>5
        DEF TInv, RowsOK, CallsOK, CoresOK, ReviewOK, RenewOK, coreVars, jobVars

\* A request that flushes a tame change, or nothing, and issues calls.
LEMMA CommitTyped ==
  ASSUME TInv, NEW h \in Handlers, handler[h].kind # "idle",
         NEW S \in SUBSET CallType, NEW wanted, Tame(handler[h].row, wanted),
         \/ rows' = rows /\ calls' = calls
         \/ /\ rows' = [rows EXCEPT ![handler[h].user] =
                           Flush(rows[handler[h].user], handler[h].row, wanted)]
            /\ Issue(S),
         handler' = [handler EXCEPT ![h] = HandlerIdle],
         UNCHANGED <<now, accounts, up, restarts, starting, jobVars>>
  PROVE  TInv'
<1> DEFINE u == handler[h].user
           after == Flush(rows[u], handler[h].row, wanted)
<1>1. u \in Users /\ handler[h].row \in RowType /\ rows[u] \in RowType
  BY DEF TInv, HandlersOK, HandlerType, RowsOK
<1>2. Tame(rows[u], after)
  BY <1>1, FlushTame
<1>3. rows' = rows \/ rows' = [rows EXCEPT ![u] = after]
  OBVIOUS
<1> HIDE DEF u, after
<1>4. RowsOK' /\ HandlersOK' /\ KeysOK'
  BY <1>1, <1>2, <1>3, RowStep, NoRowStep DEF TInv
<1>5. CallsOK'
  BY IssueTyped DEF TInv, CallsOK
<1> QED BY <1>4, <1>5 DEF TInv, CoresOK, ReviewOK, RenewOK, jobVars

\* Each handler is such a commit, except the two that delete and that give a new key.
LEMMA HandlersTyped ==
  ASSUME TInv, NEW h \in Handlers, Modify(h) \/ Reset(h) \/ ActiveNext(h)
  PROVE  TInv'
<1> DEFINE u == handler[h].user
           r == handler[h].row
<1>1. /\ handler[h].kind # "idle" /\ handler' = [handler EXCEPT ![h] = HandlerIdle]
      /\ UNCHANGED <<now, accounts, up, restarts, starting, jobVars>>
  BY DEF Modify, Reset, ActiveNext
<1>2. u \in Users /\ r \in RowType /\ rows[u] \in RowType
  BY <1>1 DEF TInv, HandlersOK, HandlerType, RowsOK
<1>3. /\ \A s \in RowType : /\ AddUser(u, s) \subseteq CallType
                            /\ UpdateUser(u, s) \subseteq CallType
      /\ RemoveUser(u) \subseteq CallType
  BY <1>2, CallsTyped DEF TInv
<1>4. ASSUME NEW w, Tame(r, w) PROVE Flush(rows[u], r, w) \in RowType
  BY <1>2, <1>4, FlushTame DEF Tame
<1>5. ASSUME Modify(h) PROVE TInv'
  <2> DEFINE Sync(s) == IF s.status \in Served THEN UpdateUser(u, s) ELSE RemoveUser(u)
  <2>1. PICK m \in Edits : Commit(h, Modified(r, m, now), Sync)
    BY <1>5 DEF Modify
  <2> DEFINE w == Modified(r, m, now)
             after == Flush(rows[u], r, w)
             S == IF Presentable(after) THEN Sync(after) ELSE {}
  <2>2. Tame(r, w)
    <3>1. m \in EditType
      BY RequestAssumption DEF RequestAssumption
    <3>2. Tame(r, WithStatus(r, m.status))
      BY <1>2, <3>1, StatusTame DEF EditType
    <3> QED BY <1>2, <3>1, <3>2, ModifiedTame DEF EditType
  <2>3. \/ rows' = rows /\ calls' = calls
        \/ rows' = [rows EXCEPT ![u] = after] /\ Issue(S)
    BY <2>1 DEF Commit
  <2>4. after \in RowType
    BY <1>4, <2>2
  <2>5. S \in SUBSET CallType
    <3> HIDE DEF after
    <3> QED BY <1>3, <2>4
  <2> HIDE DEF w, S
  <2> QED BY <1>1, <2>2, <2>3, <2>5, CommitTyped
<1>6. ASSUME Reset(h) PROVE TInv'
  <2> DEFINE Sync(s) == IF s.status \in Served THEN AddUser(u, s) ELSE {}
             w == UsageReset(r)
             after == Flush(rows[u], r, w)
             S == IF Presentable(after) THEN Sync(after) ELSE {}
  <2>1. Commit(h, w, Sync)
    BY <1>6 DEF Reset
  <2>2. Tame(r, w)
    BY <1>2, ResetsTame
  <2>3. \/ rows' = rows /\ calls' = calls
        \/ rows' = [rows EXCEPT ![u] = after] /\ Issue(S)
    BY <2>1 DEF Commit
  <2>4. after \in RowType
    BY <1>4, <2>2
  <2>5. S \in SUBSET CallType
    <3> HIDE DEF after
    <3> QED BY <1>3, <2>4
  <2> HIDE DEF w, S
  <2> QED BY <1>1, <2>2, <2>3, <2>5, CommitTyped
<1>7. ASSUME ActiveNext(h) PROVE TInv'
  <2> DEFINE w == IF r.plan = NoPlan THEN r ELSE NextPlanApplied(r)
             after == Flush(rows[u], r, w)
  <2>1. Tame(r, w)
    BY <1>2, NextPlanTame DEF Tame
  <2>2. \/ rows' = rows /\ calls' = calls
        \/ rows' = [rows EXCEPT ![u] = after] /\ Issue({})
    <3>1. CASE r.plan = NoPlan \/ NextPlanRaises(r)
      BY <1>7, <3>1 DEF ActiveNext
    <3>2. CASE ~(r.plan = NoPlan \/ NextPlanRaises(r))
      <4> DEFINE Nothing(s) == {}
      <4>1. Commit(h, w, Nothing)
        BY <1>7, <3>2 DEF ActiveNext
      <4> HIDE DEF w
      <4> QED BY <4>1 DEF Commit
    <3> QED BY <3>1, <3>2
  <2> HIDE DEF w
  <2>3. {} \in SUBSET CallType
    OBVIOUS
  <2> QED BY <1>1, <2>1, <2>2, <2>3, CommitTyped
<1> QED BY <1>5, <1>6, <1>7

\* Deletions leave the key of the row, and the handlers that hold it, in place.
LEMMA DeletionsTyped ==
  ASSUME TInv,
         \E h \in Handlers : Delete(h) \/ RemoveExpired(h)
  PROVE  TInv'
<1>1. PICK u \in Users :
        /\ rows' = [rows EXCEPT ![u] = Deleted]
        /\ \/ calls' = calls
           \/ \E S \in SUBSET CallType : Issue(S)
        /\ \E h \in Handlers : handler' = [handler EXCEPT ![h] = HandlerIdle]
        /\ UNCHANGED <<now, accounts, up, restarts, starting, jobVars>>
  <2>1. ASSUME NEW h \in Handlers, Delete(h)
        PROVE  \E u \in Users :
                  /\ rows' = [rows EXCEPT ![u] = Deleted]
                  /\ \E S \in SUBSET CallType : Issue(S)
                  /\ handler' = [handler EXCEPT ![h] = HandlerIdle]
                  /\ UNCHANGED <<now, accounts, up, restarts, starting, jobVars>>
    <3> DEFINE u == handler[h].user
               S == IF u \in Unowned THEN {} ELSE RemoveUser(u)
    <3>1. u \in Users
      BY <2>1 DEF Delete, TInv, HandlersOK
    <3>2. S \in SUBSET CallType
      BY <3>1, AbsentTyped, CallsTyped DEF TInv
    <3>3. /\ rows' = [rows EXCEPT ![u] = Deleted] /\ Issue(S)
          /\ handler' = [handler EXCEPT ![h] = HandlerIdle]
          /\ UNCHANGED <<now, accounts, up, restarts, starting, jobVars>>
      BY <2>1 DEF Delete
    <3> HIDE DEF u, S
    <3> QED BY <3>1, <3>2, <3>3
  <2>2. ASSUME NEW h \in Handlers, RemoveExpired(h)
        PROVE  \E u \in Users :
                  /\ rows' = [rows EXCEPT ![u] = Deleted]
                  /\ calls' = calls
                  /\ handler' = [handler EXCEPT ![h] = HandlerIdle]
                  /\ UNCHANGED <<now, accounts, up, restarts, starting, jobVars>>
    BY <2>2 DEF RemoveExpired, coreVars, TInv, HandlersOK
  <2> QED BY <2>1, <2>2
<1>2. RowsOK'
  BY <1>1, AbsentTyped DEF TInv, RowsOK
<1>3. ASSUME NEW v \in Users
      PROVE  /\ rows'[v].key <= rows[v].key
             /\ rows'[v].status = "absent" => rows[v].status = "absent"
  <2>1. rows[v].key \in Nat /\ 1 <= rows[v].key
    BY UserAssumption DEF UserAssumption, TInv, RowsOK, RowType
  <2>2. rows'[v] = rows[v] \/ rows'[v] = Deleted
    BY <1>1 DEF TInv, RowsOK
  <2> QED BY <2>1, <2>2, AbsentTyped
<1>4. HandlersOK' /\ KeysOK'
  BY <1>1, <1>2, <1>3, HandlersStep DEF TInv
<1>5. CallsOK'
  BY <1>1, IssueTyped DEF TInv, CallsOK
<1> QED BY <1>1, <1>2, <1>4, <1>5 DEF TInv, CoresOK, ReviewOK, RenewOK, jobVars

\* A revocation takes the key that was kept for it.
LEMMA RevokeTyped ==
  ASSUME TInv, NEW h \in Handlers, Revoke(h)
  PROVE  TInv'
<1>0. PICK u \in Users : u = handler[h].user
  <2>1. handler[h].kind # "idle"
    BY DEF Revoke
  <2> QED BY <2>1 DEF TInv, HandlersOK
<1> DEFINE r == handler[h].row
           w == Revoked(r, rows[u].key + 1, now)
           after == Flush(rows[u], r, w)
           Sync(s) == IF s.status \in Served THEN UpdateUser(u, s) ELSE {}
           S == IF Presentable(after) THEN Sync(after) ELSE {}
<1>1. /\ handler[h].kind = "revoke" /\ handler' = [handler EXCEPT ![h] = HandlerIdle]
      /\ UNCHANGED <<now, accounts, up, restarts, starting, jobVars>>
  BY DEF Revoke
<1>2. u \in Users /\ r \in RowType /\ rows[u] \in RowType
  BY DEF TInv, HandlersOK, HandlerType, RowsOK
<1>3. CASE rows' = rows /\ calls' = calls
  <2>1. RowsOK' /\ HandlersOK' /\ KeysOK'
    BY <1>1, <1>3, NoRowStep DEF TInv
  <2> QED BY <1>1, <1>3, <2>1 DEF TInv, CallsOK, CoresOK, ReviewOK, RenewOK, jobVars
<1>4. CASE /\ Presentable(r) /\ Exists(u)
           /\ rows' = [rows EXCEPT ![u] = after] /\ Issue(S)
  <2>1. /\ IsFiniteSet(Revoking(u)) /\ h \in Revoking(u)
        /\ Revoking(u)' \subseteq Revoking(u) \ {h}
    <3>1. IsFiniteSet(Revoking(u)) /\ h \in Revoking(u)
      BY <1>0, <1>1, RequestAssumption, FS_Subset DEF RequestAssumption, Revoking
    <3>2. \A g \in Handlers : handler'[g] = IF g = h THEN HandlerIdle ELSE handler[g]
      BY <1>1 DEF TInv, HandlersOK
    <3> QED BY <3>1, <3>2, IdleTyped DEF Revoking
  <2>2. /\ Cardinality(Revoking(u)) \in Nat /\ Cardinality(Revoking(u)') \in Nat
        /\ Cardinality(Revoking(u)') <= Cardinality(Revoking(u)) - 1
    <3>1. /\ Cardinality(Revoking(u) \ {h}) = Cardinality(Revoking(u)) - 1
          /\ IsFiniteSet(Revoking(u) \ {h})
      BY <2>1, FS_RemoveElement
    <3>2. /\ Cardinality(Revoking(u)') <= Cardinality(Revoking(u) \ {h})
          /\ IsFiniteSet(Revoking(u)')
      BY <2>1, <3>1, FS_Subset
    <3> QED BY <2>1, <3>1, <3>2, FS_CardinalityType
  <2>3. rows[u].key + Cardinality(Revoking(u)) <= MaxKey
    BY <1>2, Zenon DEF TInv, KeysOK
  <2>4. rows[u].key \in 1..MaxKey /\ MaxKey \in Nat
    BY <1>2, UserAssumption DEF RowType, UserAssumption
  <2>5. rows[u].key + 1 \in 1..MaxKey
    BY <2>2, <2>3, <2>4
  <2>6. w \in RowType /\ w.key = rows[u].key + 1 /\ (w.status = "absent" => r.status = "absent")
    BY <1>2, <1>4, <2>5, RevokedTyped
  <2>7. /\ after \in RowType /\ after.key \in {rows[u].key, rows[u].key + 1}
        /\ after.status = "absent" => rows[u].status = "absent"
    <3>1. DOMAIN rows[u] = {"status", "used", "limit", "expire", "hold", "timeout",
                            "online", "due", "key", "tags", "plan"}
      BY <1>2 DEF RowType
    <3> HIDE DEF w
    <3>2. after \in RowType
      BY <1>2, <2>6, <3>1 DEF Flush, RowType
    <3> QED BY <2>6, <3>1, <3>2 DEF Flush
  <2> HIDE DEF r, w, after
  <2>8. RowsOK' /\ rows'[u] = after /\ \A v \in Users : v # u => rows'[v] = rows[v]
    BY <1>2, <1>4, <2>7 DEF TInv, RowsOK
  <2>9. HandlersOK'
    <3>1. /\ handler' \in [Handlers -> HandlerType]
          /\ \A g \in Handlers : handler'[g].kind # "idle" => handler'[g] = handler[g]
      BY <1>1, IdleTyped DEF TInv, HandlersOK
    <3>2. ASSUME NEW g \in Handlers, handler'[g].kind # "idle"
          PROVE  /\ handler'[g].user \in Users /\ rows'[handler'[g].user].status # "absent"
                 /\ handler'[g].kind = "delete_expired" =>
                       handler'[g].row.status \in {"expired", "limited"}
      <4>1. handler'[g] = handler[g]
        BY <3>1, <3>2
      <4>2. /\ handler[g].user \in Users /\ rows[handler[g].user].status # "absent"
            /\ handler[g].kind = "delete_expired" =>
                  handler[g].row.status \in {"expired", "limited"}
        BY <3>2, <4>1 DEF TInv, HandlersOK
      <4> QED BY <2>7, <2>8, <4>1, <4>2
    <3> QED BY <3>1, <3>2 DEF HandlersOK
  <2>10. KeysOK'
    <3>1. ASSUME NEW v \in Users
          PROVE  rows'[v].key + Cardinality(Revoking(v)') <= MaxKey
      <4>1. CASE v = u
        <5>1. rows'[u].key + Cardinality(Revoking(u)') <= MaxKey
          BY <2>2, <2>3, <2>4, <2>7, <2>8
        <5> QED BY <4>1, <5>1
      <4>2. CASE v # u
        <5>1. rows'[v] = rows[v]
          BY <2>8, <4>2
        <5>2. rows[v].key + Cardinality(Revoking(v)) <= MaxKey
          BY Zenon DEF TInv, KeysOK
        <5>3. Revoking(v)' = Revoking(v)
          <6>1. \A g \in Handlers : handler'[g] = IF g = h THEN HandlerIdle ELSE handler[g]
            BY <1>1 DEF TInv, HandlersOK
          <6> QED BY <1>0, <4>2, <6>1, IdleTyped DEF Revoking
        <5> QED BY <5>1, <5>2, <5>3
      <4> QED BY <4>1, <4>2
    <3> QED BY <3>1 DEF KeysOK
  <2>11. S \in SUBSET CallType
    BY <1>2, <2>7, CallsTyped DEF TInv
  <2> HIDE DEF S
  <2>12. CallsOK'
    BY <1>4, <2>11, IssueTyped DEF TInv
  <2> QED BY <1>1, <2>8, <2>9, <2>10, <2>12 DEF TInv, CoresOK, ReviewOK, RenewOK, jobVars
<1>5. \/ rows' = rows /\ calls' = calls
      \/ /\ Presentable(r) /\ Exists(u)
         /\ rows' = [rows EXCEPT ![u] = after] /\ Issue(S)
  BY <1>0 DEF Revoke, Commit
<1> QED BY <1>3, <1>4, <1>5

\* A step that tamely changes one row or none, and issues calls.
LEMMA JobStep ==
  ASSUME TInv, ReviewOK', RenewOK',
         \/ rows' = rows
         \/ \E u \in Users : \E s : Tame(rows[u], s) /\ rows' = [rows EXCEPT ![u] = s],
         calls' = calls \/ \E S \in SUBSET CallType : Issue(S),
         UNCHANGED <<now, accounts, up, restarts, starting, handler>>
  PROVE  TInv'
<1>1. RowsOK' /\ HandlersOK' /\ KeysOK'
  BY RowStep, NoRowStep DEF TInv
<1>2. CallsOK'
  BY IssueTyped DEF TInv, CallsOK
<1> QED BY <1>1, <1>2 DEF TInv, CoresOK

\* The session of a job that loads the users of some statuses.
LEMMA LoadingTyped ==
  ASSUME RowsOK, NEW status
  PROVE  /\ \A job \in ReviewType : /\ Loading(job, status) \in ReviewType
                                    /\ Loading(job, status).pc = job.pc
         /\ \A job \in RenewType : Loading(job, status) \in RenewType
<1> DEFINE T == {u \in Users : rows[u].status \in status}
           l == [u \in T |-> rows[u]]
<1>1. l \in Loads
  <2>1. l \in [T -> RowType]
    BY DEF RowsOK
  <2>2. T \in SUBSET Users
    OBVIOUS
  <2> HIDE DEF T, l
  <2> QED BY <2>1, <2>2, LoadsTyped
<1>2. T \in SUBSET Users
  OBVIOUS
<1>3. \A job : Loading(job, status) = [job EXCEPT !.todo = T, !.loaded = l]
  BY DEF Loading
<1> HIDE DEF T, l
<1>4. ASSUME NEW job \in ReviewType
      PROVE  Loading(job, status) \in ReviewType /\ Loading(job, status).pc = job.pc
  <2>1. [job EXCEPT !.todo = T, !.loaded = l] \in ReviewType
    BY <1>1, <1>2 DEF ReviewType
  <2>2. [job EXCEPT !.todo = T, !.loaded = l].pc = job.pc
    BY DEF ReviewType
  <2> QED BY <1>3, <2>1, <2>2, Zenon
<1>5. ASSUME NEW job \in RenewType PROVE Loading(job, status) \in RenewType
  <2>1. [job EXCEPT !.todo = T, !.loaded = l] \in RenewType
    BY <1>1, <1>2 DEF RenewType
  <2> QED BY <1>3, <2>1, Zenon
<1> QED BY <1>4, <1>5

\* The review job at an active user.
LEMMA ReviewActiveTyped ==
  ASSUME TInv, NEW u \in Users, ReviewActive(u)
  PROVE  TInv'
<1> DEFINE r == Seen(review, u)
           rest == [review EXCEPT !.todo = @ \ {u}]
           verdict == Verdict(r, review.at)
           w == NextPlanApplied(r)
           after == Flush(rows[u], r, w)
<1>1. /\ review \in ReviewType /\ review.loaded \in Loads
      /\ r \in RowType /\ rows[u] \in RowType
  BY SeenTyped DEF TInv, ReviewOK, RowsOK, ReviewType
<1>2. rest \in ReviewType /\ rest.pc = "active"
  BY <1>1 DEF ReviewActive, ReviewType
<1>3. RenewOK' /\ UNCHANGED <<now, accounts, up, restarts, starting, handler>>
  BY DEF ReviewActive, TInv, RenewOK
<1>4. CASE review' = ReviewIdle /\ UNCHANGED <<rows, calls>>
  BY <1>3, <1>4, IdleTyped, JobStep DEF ReviewOK
<1>5. CASE review' = rest /\ UNCHANGED <<rows, calls>>
  BY <1>2, <1>3, <1>5, JobStep DEF ReviewOK
<1>6. CASE /\ verdict = "next_plan" /\ rows' = [rows EXCEPT ![u] = after]
           /\ \/ review' = [rest EXCEPT !.loaded = << >>] /\ Issue(UpdateUser(u, after))
              \/ review' = ReviewIdle /\ UNCHANGED calls
  <2>1. r.plan # NoPlan
    BY <1>6 DEF Verdict
  <2>2. Tame(r, w)
    BY <1>1, <2>1, NextPlanTame
  <2>3. Tame(rows[u], after)
    BY <1>1, <2>2, FlushTame
  <2>4. UpdateUser(u, after) \in SUBSET CallType
    <3> HIDE DEF after
    <3> QED BY <2>3, CallsTyped DEF Tame, TInv
  <2> HIDE DEF after
  <2>5. ReviewOK'
    <3>1. [rest EXCEPT !.loaded = << >>] \in ReviewType
          /\ [rest EXCEPT !.loaded = << >>].pc = "active"
      <4> HIDE DEF rest
      <4> QED BY <1>2, LoadsTyped DEF ReviewType
    <3> HIDE DEF rest
    <3> QED BY <1>6, <3>1, IdleTyped DEF ReviewOK
  <2>6. calls' = calls \/ \E S \in SUBSET CallType : Issue(S)
    BY <1>6, <2>4
  <2> QED BY <1>3, <1>6, <2>3, <2>5, <2>6, JobStep
<1>7. CASE /\ verdict \in {"limited", "expired"} /\ Issue(RemoveUser(u)) /\ rows' = rows
           /\ review' = [rest EXCEPT !.pc = verdict, !.user = u,
                                     !.loaded = [v \in {u} \cup DOMAIN @ |-> Seen(review, v)]]
  <2> DEFINE D == {u} \cup DOMAIN rest.loaded
             l == [v \in D |-> Seen(review, v)]
  <2>1. l \in Loads /\ u \in DOMAIN l
    <3>1. rest.loaded = review.loaded
      BY <1>1 DEF ReviewType
    <3>2. D \in SUBSET Users
      BY <1>1, <3>1, LoadsTyped
    <3>3. \A v \in D : Seen(review, v) \in RowType
      BY <1>1, <3>2, SeenTyped DEF TInv
    <3> HIDE DEF D, r, rest
    <3>4. l \in [D -> RowType]
      BY <3>3
    <3> HIDE DEF l
    <3>5. u \in D
      BY DEF D
    <3> QED BY <3>2, <3>4, <3>5, LoadsTyped
  <2>2. review' = [rest EXCEPT !.pc = verdict, !.user = u, !.loaded = l]
    BY <1>7
  <2> HIDE DEF l
  <2>3. review' \in ReviewType /\ review'.user = u /\ review'.loaded = l
    <3> HIDE DEF rest, verdict
    <3> QED BY <1>2, <1>7, <2>1, <2>2 DEF ReviewType
  <2>4. ReviewOK'
    BY <2>1, <2>3 DEF ReviewOK
  <2>5. RemoveUser(u) \in SUBSET CallType
    BY <1>1, CallsTyped DEF TInv
  <2> QED BY <1>3, <1>7, <2>4, <2>5, JobStep
<1> QED BY <1>4, <1>5, <1>6, <1>7 DEF ReviewActive

\* The other steps of the review job.
LEMMA ReviewTyped ==
  ASSUME TInv, ReviewStep
  PROVE  TInv'
<1>1. RenewOK' /\ UNCHANGED <<now, accounts, up, restarts, starting, handler>>
  BY DEF ReviewStep, ReviewBegin, ReviewVerdict, ReviewTurn, ReviewStart, ReviewEnd,
         ReviewActive, ReviewHold, TInv, RenewOK, coreVars
<1>2. /\ review \in ReviewType /\ review.loaded \in Loads
      /\ \A u \in Users : rows[u] \in RowType /\ Seen(review, u) \in RowType
  BY SeenTyped DEF TInv, ReviewOK, ReviewType, RowsOK
<1>3. ASSUME ReviewBegin PROVE TInv'
  <2> DEFINE job == [ReviewIdle EXCEPT !.pc = "active", !.at = now]
  <2>1. job \in ReviewType /\ job.pc = "active"
    BY IdleTyped DEF ReviewType, TInv
  <2>2. review' = Loading(job, {"active"}) /\ rows' = rows /\ calls' = calls
    BY <1>3 DEF ReviewBegin, coreVars
  <2> HIDE DEF job
  <2>3. review' \in ReviewType /\ review'.pc = "active"
    BY <2>1, <2>2, LoadingTyped DEF TInv
  <2> QED BY <1>1, <2>2, <2>3, JobStep DEF ReviewOK
<1>4. ASSUME ReviewTurn PROVE TInv'
  <2> DEFINE job == [review EXCEPT !.pc = "hold"]
  <2>1. job \in ReviewType /\ job.pc = "hold"
    BY <1>2 DEF ReviewType
  <2>2. review' = Loading(job, {"on_hold"}) /\ rows' = rows /\ calls' = calls
    BY <1>4 DEF ReviewTurn, coreVars
  <2> HIDE DEF job
  <2>3. review' \in ReviewType /\ review'.pc = "hold"
    BY <2>1, <2>2, LoadingTyped DEF TInv
  <2> QED BY <1>1, <2>2, <2>3, JobStep DEF ReviewOK
<1>5. ASSUME ReviewEnd PROVE TInv'
  <2>1. review' = ReviewIdle /\ rows' = rows /\ calls' = calls
    BY <1>5 DEF ReviewEnd, coreVars
  <2> QED BY <1>1, <2>1, IdleTyped, JobStep DEF ReviewOK
<1>6. ASSUME ReviewVerdict PROVE TInv'
  <2> DEFINE u == review.user
             r == review.loaded[u]
             w == [r EXCEPT !.status = review.pc]
             after == Flush(rows[u], r, w)
             next == [review EXCEPT !.pc = "active", !.user = NoUser, !.loaded = << >>]
  <2>1. review.pc \in {"limited", "expired"} /\ calls' = calls
    BY <1>6 DEF ReviewVerdict, coreVars
  <2>2. u \in Users /\ r \in RowType /\ rows[u] \in RowType
    BY <1>2, <2>1, LoadsTyped DEF TInv, ReviewOK
  <2>3. Tame(rows[u], after)
    <3>1. Tame(r, w)
      BY <2>1, <2>2 DEF Tame, RowType, Statuses
    <3> HIDE DEF w
    <3> QED BY <2>2, <3>1, FlushTame
  <2>4. next \in ReviewType /\ next.pc = "active"
    BY <1>2, LoadsTyped DEF ReviewType
  <2>5. /\ rows' = rows \/ rows' = [rows EXCEPT ![u] = after]
        /\ review' = next \/ review' = ReviewIdle
    BY <1>6 DEF ReviewVerdict
  <2> HIDE DEF u, after, next
  <2> QED BY <1>1, <2>1, <2>2, <2>3, <2>4, <2>5, IdleTyped, JobStep DEF ReviewOK
<1>7. ASSUME ReviewStart PROVE TInv'
  <2> DEFINE u == review.user
             r == review.loaded[u]
             w == Started(r, now)
             after == Flush(rows[u], r, w)
             next == [review EXCEPT !.pc = "hold", !.user = NoUser, !.loaded = << >>]
  <2>1. review.pc = "start" /\ calls' = calls
    BY <1>7 DEF ReviewStart, coreVars
  <2>2. u \in Users /\ r \in RowType /\ rows[u] \in RowType
    BY <1>2, <2>1, LoadsTyped DEF TInv, ReviewOK
  <2>3. Tame(rows[u], after)
    <3>1. Tame(r, w)
      <4>1. now \in Nat
        BY UserAssumption DEF TInv, UserAssumption
      <4> HIDE DEF r
      <4> QED BY <2>2, <4>1, StartedTame
    <3> HIDE DEF w
    <3> QED BY <2>2, <3>1, FlushTame
  <2>4. next \in ReviewType /\ next.pc = "hold"
    BY <1>2, LoadsTyped DEF ReviewType
  <2>5. /\ rows' = rows \/ rows' = [rows EXCEPT ![u] = after]
        /\ review' = next \/ review' = ReviewIdle
    BY <1>7 DEF ReviewStart
  <2> HIDE DEF u, after, next
  <2> QED BY <1>1, <2>1, <2>2, <2>3, <2>4, <2>5, IdleTyped, JobStep DEF ReviewOK
<1>8. ASSUME NEW u \in Users, ReviewHold(u) PROVE TInv'
  <2> DEFINE r == Seen(review, u)
             rest == [review EXCEPT !.todo = @ \ {u}]
             w == [r EXCEPT !.status = "active"]
             after == Flush(rows[u], r, w)
             l == [v \in {u} |-> after]
             next == [rest EXCEPT !.pc = "start", !.user = u, !.loaded = l]
  <2>1. review.pc = "hold" /\ calls' = calls
    BY <1>8 DEF ReviewHold, coreVars
  <2>2. r \in RowType /\ rows[u] \in RowType
    BY <1>2
  <2>3. Tame(rows[u], after)
    <3>1. Tame(r, w)
      <4> HIDE DEF r
      <4> QED BY <2>2 DEF Tame, RowType, Statuses
    <3> HIDE DEF w, r
    <3> QED BY <2>2, <3>1, FlushTame
  <2>4. rest \in ReviewType /\ rest.pc = "hold"
    BY <1>2, <2>1 DEF ReviewType
  <2>5. \/ review' = rest /\ rows' = rows
        \/ review' = ReviewIdle /\ rows' = rows
        \/ review' = next /\ rows' = [rows EXCEPT ![u] = after]
    BY <1>8 DEF ReviewHold
  <2> HIDE DEF after, rest
  <2>6. l \in Loads /\ u \in DOMAIN l
    <3>1. l \in [{u} -> RowType]
      BY <2>3 DEF Tame
    <3>2. DOMAIN l = {u} /\ {u} \in SUBSET Users
      OBVIOUS
    <3> HIDE DEF l
    <3> QED BY <3>1, <3>2, LoadsTyped
  <2> HIDE DEF l
  <2>7. next \in ReviewType /\ next.user = u /\ next.loaded = l
    BY <2>4, <2>6 DEF ReviewType
  <2>8. ReviewOK'
    <3> HIDE DEF next
    <3> QED BY <2>4, <2>5, <2>6, <2>7, IdleTyped DEF ReviewOK
  <2> HIDE DEF next
  <2> QED BY <1>1, <2>1, <2>3, <2>5, <2>8, JobStep
<1> QED BY <1>3, <1>4, <1>5, <1>6, <1>7, <1>8, ReviewActiveTyped DEF ReviewStep

\* The job that resets usage.
LEMMA RenewTyped ==
  ASSUME TInv, RenewStep
  PROVE  TInv'
<1>1. ReviewOK' /\ UNCHANGED <<now, accounts, up, restarts, starting, handler>>
  BY DEF RenewStep, RenewBegin, RenewUser, RenewEnd, TInv, ReviewOK, coreVars
<1>2. renew \in RenewType /\ renew.loaded \in Loads
  BY DEF TInv, RenewOK, RenewType
<1>3. ASSUME RenewBegin PROVE TInv'
  <2> DEFINE job == [RenewIdle EXCEPT !.pc = "reset"]
  <2>1. job \in RenewType
    BY IdleTyped DEF RenewType
  <2>2. renew' = Loading(job, {"active", "limited"}) /\ rows' = rows /\ calls' = calls
    BY <1>3 DEF RenewBegin, coreVars
  <2> HIDE DEF job
  <2>3. RenewOK'
    BY <2>1, <2>2, LoadingTyped DEF TInv, RenewOK
  <2> QED BY <1>1, <2>2, <2>3, JobStep
<1>4. ASSUME RenewEnd PROVE TInv'
  <2>1. renew' = RenewIdle /\ rows' = rows /\ calls' = calls
    BY <1>4 DEF RenewEnd, coreVars
  <2> QED BY <1>1, <2>1, IdleTyped, JobStep DEF RenewOK
<1>5. ASSUME NEW u \in Users, RenewUser(u) PROVE TInv'
  <2> DEFINE r == Seen(renew, u)
             after == Flush(rows[u], r, UsageReset(r))
             rest == [renew EXCEPT !.todo = @ \ {u}]
             next == [rest EXCEPT !.loaded = << >>]
             S == IF after.status = "limited" THEN AddUser(u, after) ELSE {}
  <2>1. r \in RowType /\ rows[u] \in RowType
    BY <1>2, SeenTyped DEF TInv, RowsOK
  <2>2. Tame(rows[u], after)
    <3> HIDE DEF r
    <3> QED BY <2>1, ResetsTame, FlushTame
  <2>3. rest \in RenewType /\ next \in RenewType
    BY <1>2, LoadsTyped DEF RenewType
  <2>4. S \in SUBSET CallType
    <3> HIDE DEF after
    <3> QED BY <2>2, CallsTyped DEF Tame, TInv
  <2>5. \/ renew' = rest /\ rows' = rows /\ calls' = calls
        \/ renew' = RenewIdle /\ rows' = rows /\ calls' = calls
        \/ renew' = next /\ rows' = [rows EXCEPT ![u] = after] /\ Issue(S)
    BY <1>5 DEF RenewUser
  <2> HIDE DEF r, rest, next, S, after
  <2> QED BY <1>1, <2>2, <2>3, <2>4, <2>5, IdleTyped, JobStep DEF RenewOK
<1> QED BY <1>3, <1>4, <1>5 DEF RenewStep

\* The rest.
LEMMA RecordTyped ==
  ASSUME TInv, NEW u \in Users, Record(u) \/ PeriodEnds(u)
  PROVE  TInv'
<1> DEFINE s == [rows[u] EXCEPT !.used = @ + 1, !.online = "since"]
           d == [rows[u] EXCEPT !.due = TRUE]
<1>1. /\ UNCHANGED <<now, accounts, up, restarts, starting, handler>> /\ calls' = calls
      /\ ReviewOK' /\ RenewOK'
  BY DEF Record, PeriodEnds, coreVars, jobVars, TInv, ReviewOK, RenewOK
<1>2. rows[u] \in RowType
  BY DEF TInv, RowsOK
<1>3. CASE Record(u)
  <2>1. rows' = [rows EXCEPT ![u] = s] /\ rows[u].used < MaxUsed
    BY <1>2, <1>3 DEF Record, TInv, RowsOK
  <2>2. Tame(rows[u], s)
    <3>1. rows[u].used + 1 \in 0..MaxUsed
      BY <1>2, <2>1, UserAssumption DEF RowType, UserAssumption
    <3> QED BY <1>2, <3>1 DEF Tame, RowType
  <2> HIDE DEF s
  <2> QED BY <1>1, <2>1, <2>2, JobStep
<1>4. CASE PeriodEnds(u)
  <2>1. rows' = [rows EXCEPT ![u] = d]
    BY <1>2, <1>4 DEF PeriodEnds, TInv, RowsOK
  <2>2. Tame(rows[u], d)
    BY <1>2 DEF Tame, RowType
  <2> HIDE DEF d
  <2> QED BY <1>1, <2>1, <2>2, JobStep
<1> QED BY <1>3, <1>4

\* The clock.
LEMMA ElapseTyped ==
  ASSUME TInv, Elapse
  PROVE  TInv'
<1>1. rows' = rows /\ handler' = handler
  BY DEF Elapse
<1>2. RowsOK' /\ HandlersOK' /\ KeysOK'
  BY <1>1, NoRowStep DEF TInv
<1>3. now' \in 0..MaxTime
  BY UserAssumption DEF Elapse, TInv, UserAssumption
<1> QED BY <1>2, <1>3 DEF Elapse, TInv, CallsOK, CoresOK, ReviewOK, RenewOK, coreVars, jobVars

\* A restart of the panel forgets every session, with the keys kept for revocations.
LEMMA PanelRestartTyped ==
  ASSUME TInv, PanelRestart
  PROVE  TInv'
<1>1. /\ handler' = [h \in Handlers |-> HandlerIdle] /\ rows' = rows
      /\ calls' = EmptyBag /\ review' = ReviewIdle /\ renew' = RenewIdle
  BY DEF PanelRestart
<1>2. RowsOK' /\ HandlersOK' /\ KeysOK'
  <2>1. RowsOK'
    BY <1>1 DEF TInv, RowsOK
  <2>2. HandlersOK'
    BY <1>1, IdleTyped DEF HandlersOK
  <2>3. ASSUME NEW u \in Users
        PROVE  rows'[u].key + Cardinality(Revoking(u)') <= MaxKey
    <3>1. Revoking(u)' = {}
      BY <1>1, IdleTyped DEF Revoking
    <3>2. Cardinality(Revoking(u)') = 0
      BY <3>1, FS_EmptySet
    <3>3. rows'[u].key \in 1..MaxKey
      BY <1>1 DEF TInv, RowsOK, RowType
    <3> QED BY <3>2, <3>3, UserAssumption DEF UserAssumption
  <2> QED BY <2>1, <2>2, <2>3 DEF KeysOK
<1>3. CallsOK'
  BY <1>1, EmptyBagTyped DEF CallsOK
<1>4. CoresOK'
  <2>1. Config(rows) \in Configs
    BY ConfigTyped DEF TInv, RowsOK
  <2> QED BY <2>1 DEF PanelRestart, TInv, CoresOK
<1>5. ReviewOK' /\ RenewOK'
  BY <1>1, IdleTyped DEF ReviewOK, RenewOK
<1> QED BY <1>2, <1>3, <1>4, <1>5 DEF TInv, PanelRestart

\* The typing invariant holds at first ...
LEMMA TInvInit == Init => TInv
<1> SUFFICES ASSUME Init PROVE TInv
  OBVIOUS
<1>1. RowsOK
  BY AbsentTyped DEF Init, RowsOK
<1>2. CoresOK
  <2>1. Config(rows) \in Configs
    BY <1>1, ConfigTyped DEF RowsOK
  <2> QED BY <2>1 DEF Init, CoresOK
<1>3. HandlersOK /\ ReviewOK /\ RenewOK
  BY IdleTyped DEF Init, HandlersOK, ReviewOK, RenewOK
<1>4. KeysOK
  <2>1. ASSUME NEW u \in Users
        PROVE  rows[u].key + Cardinality(Revoking(u)) <= MaxKey
    <3>1. Revoking(u) = {}
      BY IdleTyped DEF Revoking, Init
    <3>2. Cardinality(Revoking(u)) = 0
      BY <3>1, FS_EmptySet
    <3>3. rows[u].key \in 1..MaxKey
      BY <1>1 DEF RowsOK, RowType
    <3> QED BY <3>2, <3>3, UserAssumption DEF UserAssumption
  <2> QED BY <2>1 DEF KeysOK
<1>5. now \in 0..MaxTime
  BY UserAssumption DEF Init, UserAssumption
<1>6. CallsOK
  BY EmptyBagTyped DEF Init, CallsOK
<1> QED BY <1>1, <1>2, <1>3, <1>4, <1>5, <1>6 DEF TInv

\* ... and every step keeps it.
LEMMA TInvNext == TInv /\ [Next]_vars => TInv'
<1> SUFFICES ASSUME TInv, [Next]_vars PROVE TInv'
  OBVIOUS
<1>1. ASSUME CoreStep PROVE TInv'
  BY <1>1, DeliverTyped, RestartsTyped DEF CoreStep
<1>2. ASSUME NEW u \in Users, UserRequest(u) \/ Record(u) \/ PeriodEnds(u) PROVE TInv'
  BY <1>2, CreateTyped, DeletionsTyped, LoadTyped, RecordTyped DEF UserRequest
<1>3. ASSUME NEW h \in Handlers, RequestStep(h) PROVE TInv'
  BY <1>3, HandlersTyped, DeletionsTyped, RevokeTyped DEF RequestStep
<1>4. ASSUME ResetAll \/ DisableAll \/ ActivateAll PROVE TInv'
  BY <1>4, BulkTyped
<1>5. ASSUME RestartCores \/ \E c \in Cores : CoreCrash(c) PROVE TInv'
  BY <1>5, RestartsTyped
<1>6. ASSUME ReviewStep \/ RenewStep PROVE TInv'
  BY <1>6, ReviewTyped, RenewTyped
<1>7. ASSUME Elapse \/ PanelRestart PROVE TInv'
  BY <1>7, ElapseTyped, PanelRestartTyped
<1>8. ASSUME UNCHANGED vars PROVE TInv'
  <2>1. rows' = rows /\ handler' = handler
    BY <1>8 DEF vars
  <2>2. RowsOK' /\ HandlersOK' /\ KeysOK'
    BY <2>1, NoRowStep DEF TInv
  <2> QED BY <1>8, <2>2
          DEF TInv, CallsOK, CoresOK, ReviewOK, RenewOK, vars, coreVars, jobVars
<1> QED BY <1>1, <1>2, <1>3, <1>4, <1>5, <1>6, <1>7, <1>8 DEF Next

\* The typing invariant holds in every behaviour.
LEMMA UserInvariant == Spec => []TInv
  BY TInvInit, TInvNext, PTL DEF Spec

\* Whatever requests, jobs and faults an instance is exposed to, the rows stay rows, the
\* open calls calls for known users to known cores, and no session ever holds anything
\* but rows (app/db/models.py; the sessions of app/routers/user.py and app/jobs).
THEOREM UserTyping == Spec => []TypeOK
<1>1. Spec => []TInv
  BY UserInvariant
<1>2. TInv => TypeOK
  <2> SUFFICES ASSUME TInv PROVE TypeOK
    OBVIOUS
  <2>1. /\ rows \in [Users -> RowType] /\ now \in 0..MaxTime
        /\ IsABag(calls) /\ BagToSet(calls) \subseteq CallType
    BY DEF TInv, RowsOK, CallsOK
  <2>2. \A h \in Handlers : handler[h].user \in Users \cup {NoUser} /\ handler[h].row \in RowType
    BY DEF TInv, HandlersOK, HandlerType
  <2>3. /\ review.pc \in {"idle", "active", "limited", "expired", "hold", "start"}
        /\ \A u \in DOMAIN review.loaded : review.loaded[u] \in RowType
    BY LoadsTyped DEF TInv, ReviewOK, ReviewType
  <2>4. /\ renew.pc \in {"idle", "reset"}
        /\ \A u \in DOMAIN renew.loaded : renew.loaded[u] \in RowType
    BY LoadsTyped DEF TInv, RenewOK, RenewType
  <2> QED BY <2>1, <2>2, <2>3, <2>4 DEF TInv, CoresOK, TypeOK
<1> QED BY <1>1, <1>2, PTL

------------------------------------------------------------------------------
(* Access *)

\* What a response can describe, and a next plan that can be added to any limit.
Sound(r) == Presentable(r) /\ (r.plan # NoPlan => r.plan.carry)

\* The instances of the theorem.  One thing happens at a time, no call is lost, every
\* row has an owner, next plans carry the rest over; revoke_sub and active-next are
\* left out, and so is the job that resets usage periodically.
Careful ==
    /\ Patient
    /\ Jobs \cap {"renew"} = {} /\ Faults \cap {"lost"} = {} /\ Unowned = {}
    /\ Requests \cap {"revoke", "active_next"} = {}
    /\ \A p \in Profiles : Sound(p)
    /\ \A m \in Edits : m.plan # NoPlan => m.plan.carry

Busy(h) == handler[h].kind # "idle"
Open == BagToSet(calls)
Restarting == restarts # {} \/ \E c \in Cores : starting[c] # NoConfig

\* A restart, a request and a pass of the job exclude each other, and the first two
\* begin when no call is open.
OneThing ==
    /\ Restarting => Open = {} /\ review.pc = "idle"
    /\ \A h \in Handlers : Busy(h) =>
          /\ ~Restarting /\ Open = {} /\ review.pc = "idle"
          /\ \A g \in Handlers \ {h} : ~Busy(g)
    /\ renew.pc = "idle"

\* What sessions hold can be shown, and a request holds the status of the database.
RowsSound ==
    /\ \A u \in Users : Sound(rows[u])
    /\ \A h \in Handlers : Busy(h) =>
          /\ handler[h].kind \in Requests /\ Sound(handler[h].row)
          /\ handler[h].row.status = rows[handler[h].user].status
          /\ handler[h].row.status \notin Gone
    /\ \A u \in DOMAIN review.loaded : Sound(review.loaded[u]) /\ review.loaded[u].status \in Served

\* The job is about users who are served and have no open calls; the one it is cutting
\* off it has finished with.
ReviewSound ==
    /\ review.pc # "idle" => \A u \in review.todo : rows[u].status \in Served
    /\ review.pc \in {"limited", "expired"} =>
          review.user \notin review.todo /\ rows[review.user].status \in Served
    /\ review.pc \in {"active", "limited", "expired"} =>
          \A k \in Open : k.user \notin review.todo

\* A restart is under way with the configuration of the rows.
RestartsFresh ==
    /\ \A r \in restarts : r.config = Config(rows)
    /\ \A c \in Cores : starting[c] # NoConfig => starting[c] = Config(rows) /\ ~up[c]

\* The key that row r gives its user on an inbound, and the one that a core will have
\* for u once every open call is delivered.
Grant(r, tag) == IF r.status \in Served /\ tag \in r.tags THEN r.key ELSE NoKey
CuttingOff(u) == review.pc \in {"limited", "expired"} /\ review.user = u
Target(u, tag) == IF CuttingOff(u) THEN NoKey ELSE Grant(rows[u], tag)

\* Open calls lead to the target, whatever their order.
CallsLead ==
    \A k \in Open :
        IF k.do = "remove" THEN Target(k.user, k.tag) = NoKey
        ELSE k.key # NoKey /\ Target(k.user, k.tag) = k.key

\* And a core that runs already has it, or is about to be told.
Told(c, u, tag) ==
    \E k \in Open : /\ k.core = c /\ k.user = u /\ k.tag = tag
                    /\ k.do # "add" \/ accounts[c][u][tag] = NoKey

CoresFollow ==
    \A c \in Cores : up[c] /\ (\A r \in restarts : r.core # c) =>
        \A u \in Users : \A tag \in Tags :
            accounts[c][u][tag] = Target(u, tag) \/ Told(c, u, tag)

\* The inductive invariant behind AccessMatchesStatus.
AInv ==
    /\ OneThing
    /\ RowsSound
    /\ ReviewSound
    /\ RestartsFresh
    /\ CallsLead
    /\ CoresFollow

\* Flushing, field by field.
LEMMA FlushFields ==
  ASSUME NEW db \in RowType, NEW loaded, NEW wanted
  PROVE  /\ Flush(db, loaded, wanted).status =
               IF wanted.status = loaded.status THEN db.status ELSE wanted.status
         /\ Flush(db, loaded, wanted).limit \in {db.limit, wanted.limit}
         /\ Flush(db, loaded, wanted).plan \in {db.plan, wanted.plan}
         /\ wanted.key = loaded.key => Flush(db, loaded, wanted).key = db.key
         /\ wanted.tags = loaded.tags => Flush(db, loaded, wanted).tags = db.tags
<1>1. DOMAIN db = {"status", "used", "limit", "expire", "hold", "timeout", "online",
                   "due", "key", "tags", "plan"}
  BY DEF RowType
<1> QED BY <1>1 DEF Flush

\* A flush mixes two rows that can be shown into one that can be.
LEMMA FlushSound ==
  ASSUME NEW db \in RowType, NEW loaded, NEW wanted, Sound(db), Sound(wanted)
  PROVE  Sound(Flush(db, loaded, wanted))
  BY FlushFields DEF Sound, Presentable

\* update_user leaves a limit that can be shown.
LEMMA ModifiedSound ==
  ASSUME NEW r \in RowType, Sound(r), NEW m \in EditType, m.plan # NoPlan => m.plan.carry, NEW t
  PROVE  Sound(Modified(r, m, t))
<1> DEFINE a == WithStatus(r, m.status)
           b == WithLimit(a, m.limit)
           s == WithExpire(b, m.expire, t)
<1>1. a \in RowType /\ Presentable(a)
  <2>1. a.limit = r.limit
    BY DEF WithStatus, RowType
  <2> QED BY <2>1, StatusTame DEF EditType, Tame, Sound, Presentable
<1> HIDE DEF a
<1>2. b \in RowType /\ Presentable(b)
  <2>1. m.limit \in Nat \cup {Keep}
    BY DEF EditType
  <2>2. CASE m.limit = Keep
    BY <1>1, <2>2 DEF WithLimit
  <2>3. CASE m.limit # Keep
    <3>1. b.limit = IF m.limit = 0 THEN NoLimit ELSE m.limit
      BY <1>1, <2>3 DEF WithLimit, RowType
    <3>2. b \in RowType
      BY <1>1, <2>1, LimitTame DEF Tame
    <3> QED BY <2>1, <2>3, <3>1, <3>2 DEF Presentable, Keep
  <2> QED BY <2>2, <2>3
<1> HIDE DEF b
<1>3. s \in RowType /\ Presentable(s)
  <2>1. m.expire \in Nat \cup {Keep}
    BY DEF EditType
  <2>2. s.limit = b.limit
    BY <1>2 DEF WithExpire, RowType
  <2> QED BY <1>2, <2>1, <2>2, ExpireTame DEF Tame, Presentable
<1>4. Modified(r, m, t) =
        [s EXCEPT !.tags    = IF m.tags = {} THEN @ ELSE m.tags,
                  !.timeout = IF m.timeout = 0 THEN @ ELSE m.timeout,
                  !.hold    = IF m.hold = 0 THEN @ ELSE m.hold,
                  !.plan    = m.plan,
                  !.online  = IF @ = "since" THEN "before" ELSE @]
  BY DEF Modified, a, b
<1> HIDE DEF s
<1>5. Modified(r, m, t).limit = s.limit /\ Modified(r, m, t).plan = m.plan
  BY <1>3, <1>4 DEF RowType
<1> QED BY <1>3, <1>5 DEF Sound, Presentable

\* So do the resets, the next plan and the jobs.
LEMMA ChangesSound ==
  ASSUME NEW r \in RowType, Sound(r)
  PROVE  /\ Sound(UsageReset(r)) /\ Sound(BulkReset(r)) /\ Sound(BulkDisabled(r))
         /\ Sound(BulkActivated(r))
         /\ r.plan # NoPlan => Sound(NextPlanApplied(r))
         /\ \A t : Sound(Started(r, t))
         /\ \A x : Sound([r EXCEPT !.status = x])
<1>1. /\ UsageReset(r).limit = r.limit /\ UsageReset(r).plan = NoPlan
      /\ BulkReset(r).limit = r.limit /\ BulkReset(r).plan = NoPlan
  BY DEF UsageReset, BulkReset, RowType
<1>2. /\ BulkDisabled(r).limit = r.limit /\ BulkDisabled(r).plan = r.plan
      /\ BulkActivated(r).limit = r.limit /\ BulkActivated(r).plan = r.plan
  BY DEF BulkDisabled, BulkActivated, RowType
<1>3. \A t : Started(r, t).limit = r.limit /\ Started(r, t).plan = r.plan
  BY DEF Started, RowType
<1>4. \A x : [r EXCEPT !.status = x].limit = r.limit /\ [r EXCEPT !.status = x].plan = r.plan
  BY DEF RowType
<1>5. ASSUME r.plan # NoPlan PROVE Sound(NextPlanApplied(r))
  <2>1. r.plan.carry /\ r.plan.limit \in Nat
    BY <1>5 DEF RowType, Plans, Sound
  <2>2. NextPlanApplied(r).limit = r.plan.limit + 0 /\ NextPlanApplied(r).plan = NoPlan
    BY <2>1 DEF NextPlanApplied, RowType
  <2> QED BY <2>1, <2>2 DEF Sound, Presentable
<1>6. Sound(UsageReset(r)) /\ Sound(BulkReset(r))
  BY <1>1 DEF Sound, Presentable
<1>7. Sound(BulkDisabled(r)) /\ Sound(BulkActivated(r))
  BY <1>2 DEF Sound, Presentable
<1>8. (\A t : Sound(Started(r, t))) /\ \A x : Sound([r EXCEPT !.status = x])
  BY <1>3, <1>4 DEF Sound, Presentable
<1> QED BY <1>5, <1>6, <1>7, <1>8

\* A configuration gives every user what the row grants.
LEMMA ConfigGrants ==
  ASSUME NEW T
  PROVE  /\ Config(T) = [u \in Users |-> [tag \in Tags |-> Grant(T[u], tag)]]
         /\ \A u \in Users : \A tag \in Tags : Config(T)[u][tag] = Grant(T[u], tag)
  BY DEF Config, Grant

\* When nothing begins before the last thing ended, nothing is under way when it begins.
LEMMA QuietFacts ==
  ASSUME Careful, Free
  PROVE  /\ calls = EmptyBag /\ Open = {} /\ ~Restarting /\ restarts = {}
         /\ \A c \in Cores : starting[c] = NoConfig
         /\ \A h \in Handlers : ~Busy(h)
         /\ review = ReviewIdle /\ review.pc = "idle" /\ review.loaded = << >>
         /\ renew = RenewIdle /\ renew.pc = "idle"
<1>1. Quiet
  BY DEF Free, Careful
<1>2. renew.pc = "idle"
  BY <1>1 DEF Quiet, RenewIdle
<1> QED BY <1>1, <1>2, EmptyBagTyped, IdleTyped DEF Quiet, Open, Restarting, Busy

\* A step that moves no target leaves calls and cores as they should be.
LEMMA SlotsKept ==
  ASSUME TInv, CallsLead, CoresFollow,
         \A u \in Users : \A tag \in Tags : Target(u, tag)' = Target(u, tag),
         calls' = calls, accounts' = accounts, up' = up, restarts \subseteq restarts'
  PROVE  CallsLead' /\ CoresFollow'
<1>1. Open' = Open
  BY DEF Open
<1>2. \A k \in Open : k.user \in Users /\ k.tag \in Tags
  BY DEF TInv, CallsOK, CallType, Open
<1>3. CallsLead'
  BY <1>1, <1>2 DEF CallsLead
<1>4. ASSUME NEW c \in Cores, NEW u \in Users, NEW tag \in Tags
      PROVE  Told(c, u, tag)' <=> Told(c, u, tag)
  BY <1>1 DEF Told
<1>5. CoresFollow'
  BY <1>4 DEF CoresFollow
<1> QED BY <1>3, <1>5

\* A batch of calls for a user who had none leads to the target it was made for.
LEMMA BatchLeads ==
  ASSUME TInv, CallsLead, CoresFollow, NEW u \in Users, NEW S \in SUBSET CallType, Issue(S),
         \A k \in Open : k.user # u,
         \A k \in S : /\ k.user = u
                      /\ IF k.do = "remove" THEN Target(u, k.tag)' = NoKey
                         ELSE k.key # NoKey /\ Target(u, k.tag)' = k.key,
         \A v \in Users \ {u} : \A tag \in Tags : Target(v, tag)' = Target(v, tag),
         accounts' = accounts, up' = up, restarts' = restarts,
         \A c \in Cores : up[c] /\ accounts[c] \in Configs => \A tag \in Tags :
            accounts[c][u][tag] = Target(u, tag) =>
               \/ accounts[c][u][tag] = Target(u, tag)'
               \/ \E k \in S : /\ k.core = c /\ k.tag = tag
                               /\ k.do # "add" \/ accounts[c][u][tag] = NoKey
  PROVE  CallsLead' /\ CoresFollow'
<1>1. Open' = Open \cup S
  BY IssueBag DEF Issue, Open, TInv, CallsOK
<1>2. \A k \in Open : k.user \in Users \ {u} /\ k.tag \in Tags
  BY DEF TInv, CallsOK, CallType, Open
<1>3. CallsLead'
  BY <1>1, <1>2 DEF CallsLead
<1>4. ASSUME NEW c \in Cores, up[c], \A r \in restarts : r.core # c,
             NEW v \in Users, NEW tag \in Tags
      PROVE  accounts[c][v][tag] = Target(v, tag)' \/ Told(c, v, tag)'
  <2>1. accounts[c][v][tag] = Target(v, tag) \/ Told(c, v, tag)
    BY <1>4 DEF CoresFollow
  <2>2. CASE v # u
    <3>1. Told(c, v, tag) => Told(c, v, tag)'
      BY <1>1 DEF Told
    <3> QED BY <2>1, <2>2, <3>1
  <2>3. CASE v = u
    <3>1. accounts[c][u][tag] = Target(u, tag)
      BY <2>1, <2>3 DEF Told
    <3>2. accounts[c] \in Configs
      BY DEF TInv, CoresOK
    <3>3. \/ accounts[c][u][tag] = Target(u, tag)'
          \/ \E k \in S : /\ k.core = c /\ k.tag = tag
                          /\ k.do # "add" \/ accounts[c][u][tag] = NoKey
      BY <1>4, <3>1, <3>2
    <3>4. ASSUME NEW k \in S, k.core = c, k.tag = tag, k.do # "add" \/ accounts[c][u][tag] = NoKey
          PROVE  Told(c, u, tag)'
      <4>1. k.user = u /\ k \in Open'
        BY <1>1
      <4> QED BY <3>4, <4>1 DEF Told
    <3> QED BY <2>3, <3>3, <3>4
  <2> QED BY <2>2, <2>3
<1>5. CoresFollow'
  BY <1>4 DEF CoresFollow
<1> QED BY <1>3, <1>5

\* What the configurations and the targets depend on.
LEMMA GrantsKept ==
  ASSUME NEW T, NEW R, \A u \in Users : \A tag \in Tags : Grant(R[u], tag) = Grant(T[u], tag)
  PROVE  Config(R) = Config(T)
  BY ConfigGrants

\* A step that changes no grant and no status, and nothing else that the invariant is
\* about: traffic is recorded, time passes.
LEMMA AloofStep ==
  ASSUME TInv, AInv, UNCHANGED <<coreVars, handler, jobVars>>,
         \A u \in Users : /\ rows'[u].status = rows[u].status /\ rows'[u].tags = rows[u].tags
                          /\ rows'[u].key = rows[u].key /\ rows'[u].limit = rows[u].limit
                          /\ rows'[u].plan = rows[u].plan
  PROVE  AInv'
<1>1. /\ accounts' = accounts /\ up' = up /\ calls' = calls /\ restarts' = restarts
      /\ starting' = starting /\ handler' = handler /\ review' = review /\ renew' = renew
  BY DEF coreVars, jobVars
<1>2. \A u \in Users : \A tag \in Tags : Grant(rows'[u], tag) = Grant(rows[u], tag)
  BY DEF Grant
<1>3. Config(rows') = Config(rows)
  BY <1>2, GrantsKept
<1>4. Open' = Open /\ (Restarting' <=> Restarting) /\ \A h \in Handlers : Busy(h)' <=> Busy(h)
  BY <1>1 DEF Open, Restarting, Busy
<1>5. OneThing'
  BY <1>1, <1>4 DEF AInv, OneThing
<1>6. RowsSound'
  <2>1. \A u \in Users : Sound(rows'[u])
    BY DEF AInv, RowsSound, Sound, Presentable
  <2>2. ASSUME NEW h \in Handlers, Busy(h)
        PROVE  /\ handler[h].kind \in Requests /\ Sound(handler[h].row)
               /\ handler[h].row.status = rows'[handler[h].user].status
               /\ handler[h].row.status \notin Gone
    <3>1. handler[h].user \in Users
      BY <2>2 DEF TInv, HandlersOK, Busy
    <3>2. /\ handler[h].kind \in Requests /\ Sound(handler[h].row)
          /\ handler[h].row.status = rows[handler[h].user].status
          /\ handler[h].row.status \notin Gone
      BY <2>2 DEF AInv, RowsSound
    <3> QED BY <3>1, <3>2
  <2>3. \A v \in DOMAIN review.loaded : Sound(review.loaded[v]) /\ review.loaded[v].status \in Served
    BY DEF AInv, RowsSound
  <2> QED BY <1>1, <1>4, <2>1, <2>2, <2>3 DEF RowsSound
<1>7. ReviewSound'
  <2>1. review.pc \in {"limited", "expired"} => review.user \in Users
    BY LoadsTyped DEF TInv, ReviewOK, ReviewType
  <2>2. review.todo \subseteq Users
    BY DEF TInv, ReviewOK, ReviewType
  <2> QED BY <1>1, <1>4, <2>1, <2>2 DEF AInv, ReviewSound
<1>8. RestartsFresh'
  BY <1>1, <1>3 DEF AInv, RestartsFresh
<1>9. \A u \in Users : \A tag \in Tags : Target(u, tag)' = Target(u, tag)
  BY <1>1, <1>2 DEF Target, CuttingOff
<1>10. CallsLead' /\ CoresFollow'
  BY <1>1, <1>9, SlotsKept DEF AInv
<1> QED BY <1>5, <1>6, <1>7, <1>8, <1>10 DEF AInv

\* Recording traffic and the end of a period touch no grant.
LEMMA RecordAccess ==
  ASSUME TInv, AInv, NEW u \in Users, Record(u) \/ PeriodEnds(u)
  PROVE  AInv'
<1>1. UNCHANGED <<coreVars, handler, jobVars>>
  BY DEF Record, PeriodEnds
<1>2. PICK x : /\ rows' = [rows EXCEPT ![u] = x]
               /\ \/ x = [rows[u] EXCEPT !.used = @ + 1, !.online = "since"]
                  \/ x = [rows[u] EXCEPT !.due = TRUE]
  BY DEF Record, PeriodEnds, TInv, RowsOK
<1>3. rows[u] \in RowType
  BY DEF TInv, RowsOK
<1>4. /\ x.status = rows[u].status /\ x.tags = rows[u].tags /\ x.key = rows[u].key
      /\ x.limit = rows[u].limit /\ x.plan = rows[u].plan
  BY <1>2, <1>3 DEF RowType
<1>5. \A v \in Users : /\ rows'[v].status = rows[v].status /\ rows'[v].tags = rows[v].tags
                       /\ rows'[v].key = rows[v].key /\ rows'[v].limit = rows[v].limit
                       /\ rows'[v].plan = rows[v].plan
  BY <1>2, <1>4 DEF TInv, RowsOK
<1> QED BY <1>1, <1>5, AloofStep

\* A call is delivered.
LEMMA DeliverAccess ==
  ASSUME Careful, TInv, TInv', AInv, NEW k \in BagToSet(calls), Deliver(k)
  PROVE  AInv'
<1>1. /\ k \in Open /\ k \in CallType /\ k.do \in {"add", "remove", "alter"} /\ k.user \in Users
      /\ k.core \in Cores /\ k.tag \in Tags /\ k.key \in 0..MaxKey
  BY DEF TInv, CallsOK, CallType, Open
<1>2. /\ rows' = rows /\ up' = up /\ restarts' = restarts /\ starting' = starting
      /\ handler' = handler /\ review' = review /\ renew' = renew
  BY DEF Deliver, jobVars
<1> DEFINE held == accounts[k.core][k.user][k.tag]
           new == IF k.do # "add" THEN NoKey ELSE IF held = NoKey THEN k.key ELSE held
           next == IF k.do = "alter" THEN {[k EXCEPT !.do = "add"]} ELSE {}
           left == BagToSet(calls (-) SetToBag({k}))
<1>3. Open' = left \cup next /\ left \subseteq Open /\ Open \ {k} \subseteq left
  <2>1. calls' = (calls (-) SetToBag({k})) (+) SetToBag(next)
    BY DEF Deliver
  <2>2. IsABag(calls (-) SetToBag({k})) /\ left \subseteq Open /\ Open \ {k} \subseteq left
    BY TakeBag DEF TInv, CallsOK, Open
  <2> HIDE DEF next
  <2> QED BY <2>1, <2>2, IssueBag DEF Open
<1>4. \/ up[k.core] /\ accounts' = [accounts EXCEPT ![k.core][k.user][k.tag] = new]
      \/ ~up[k.core] /\ accounts' = accounts
  BY DEF Deliver, Careful
<1> HIDE DEF left
<1>5. Open # {} /\ ~Restarting /\ (\A h \in Handlers : ~Busy(h)) /\ renew.pc = "idle"
  BY <1>1 DEF AInv, OneThing
<1>6. ~Restarting' /\ (\A h \in Handlers : ~Busy(h)') /\ renew'.pc = "idle"
  BY <1>2, <1>5 DEF Restarting, Busy
<1>7. OneThing'
  BY <1>6 DEF OneThing
<1>8. RowsSound' /\ RestartsFresh'
  BY <1>2, <1>6 DEF AInv, RowsSound, Busy, RestartsFresh
<1>9. \A j \in Open' : \E i \in Open : /\ j.user = i.user /\ j.tag = i.tag /\ j.key = i.key
                                       /\ j.do = "remove" <=> i.do = "remove"
  <2>1. ASSUME NEW j \in next
        PROVE  /\ j.user = k.user /\ j.tag = k.tag /\ j.key = k.key /\ j.core = k.core
               /\ j.do = "add" /\ k.do = "alter"
    BY <1>1 DEF CallType
  <2> HIDE DEF next
  <2>2. ASSUME NEW j \in next
        PROVE  \E i \in Open : /\ j.user = i.user /\ j.tag = i.tag /\ j.key = i.key
                               /\ j.do = "remove" <=> i.do = "remove"
    BY <1>1, <2>1
  <2> QED BY <1>3, <2>2
<1>10. ReviewSound'
  BY <1>2, <1>9 DEF AInv, ReviewSound
<1>11. \A u \in Users : \A tag \in Tags : Target(u, tag)' = Target(u, tag)
  BY <1>2 DEF Target, CuttingOff
<1>12. CallsLead'
  <2>1. ASSUME NEW j \in Open'
        PROVE  IF j.do = "remove" THEN Target(j.user, j.tag)' = NoKey
               ELSE j.key # NoKey /\ Target(j.user, j.tag)' = j.key
    <3>1. PICK i \in Open : /\ j.user = i.user /\ j.tag = i.tag /\ j.key = i.key
                            /\ j.do = "remove" <=> i.do = "remove"
      BY <1>9
    <3>2. i.user \in Users /\ i.tag \in Tags
      BY DEF TInv, CallsOK, CallType, Open
    <3>3. IF i.do = "remove" THEN Target(i.user, i.tag) = NoKey
          ELSE i.key # NoKey /\ Target(i.user, i.tag) = i.key
      BY DEF AInv, CallsLead
    <3>4. Target(j.user, j.tag)' = Target(i.user, i.tag)
      <4>1. Target(i.user, i.tag)' = Target(i.user, i.tag)
        BY <1>11, <3>2
      <4> QED BY <3>1, <4>1, <1>2 DEF Target, CuttingOff
    <3> QED BY <3>1, <3>3, <3>4
  <2> QED BY <2>1 DEF CallsLead
<1>13. CoresFollow'
  <2>1. ASSUME NEW c \in Cores, up[c], NEW u \in Users, NEW tag \in Tags
        PROVE  accounts'[c][u][tag] = Target(u, tag)' \/ Told(c, u, tag)'
    <3>1. accounts[c][u][tag] = Target(u, tag) \/ Told(c, u, tag)
      BY <1>5, <2>1 DEF AInv, CoresFollow, Restarting
    <3>2. Target(u, tag)' = Target(u, tag)
      BY <1>11
    <3>3. CASE ~(c = k.core /\ u = k.user /\ tag = k.tag)
      <4>1. accounts'[c][u][tag] = accounts[c][u][tag]
        <5>1. new \in 0..MaxKey
          <6>1. held \in 0..MaxKey /\ NoKey \in 0..MaxKey
            BY <1>1, UserAssumption DEF TInv, CoresOK, Configs, NoKey, UserAssumption
          <6> QED BY <1>1, <6>1
        <5> HIDE DEF new
        <5>2. accounts \in [Cores -> Configs]
          BY DEF TInv, CoresOK
        <5> QED BY <1>1, <1>4, <3>3, <5>1, <5>2, PutKey
      <4>2. Told(c, u, tag) => Told(c, u, tag)'
        <5>1. ASSUME NEW j \in Open, j.core = c, j.user = u, j.tag = tag PROVE j \in Open'
          <6>1. j # k
            BY <3>3, <5>1
          <6> HIDE DEF next
          <6> QED BY <1>3, <6>1
        <5> QED BY <4>1, <5>1 DEF Told
      <4> QED BY <3>1, <3>2, <4>1, <4>2
    <3>4. CASE c = k.core /\ u = k.user /\ tag = k.tag
      <4>1. accounts'[c][u][tag] = new
        <5>1. new \in 0..MaxKey
          <6>1. held \in 0..MaxKey /\ NoKey \in 0..MaxKey
            BY <1>1, UserAssumption DEF TInv, CoresOK, Configs, NoKey, UserAssumption
          <6> QED BY <1>1, <6>1
        <5> HIDE DEF new
        <5>2. accounts \in [Cores -> Configs]
          BY DEF TInv, CoresOK
        <5> QED BY <1>1, <1>4, <2>1, <3>4, <5>1, <5>2, PutKey
      <4>2. IF k.do = "remove" THEN Target(u, tag) = NoKey
            ELSE k.key # NoKey /\ Target(u, tag) = k.key
        BY <1>1, <3>4 DEF AInv, CallsLead
      <4>3. CASE k.do = "remove"
        BY <3>2, <4>1, <4>2, <4>3
      <4>4. CASE k.do = "alter"
        <5> DEFINE j == [k EXCEPT !.do = "add"]
        <5>1. j \in Open' /\ j.core = c /\ j.user = u /\ j.tag = tag
          BY <1>1, <1>3, <3>4, <4>4 DEF CallType
        <5>2. accounts'[c][u][tag] = NoKey
          BY <4>1, <4>4
        <5> HIDE DEF j
        <5> QED BY <5>1, <5>2 DEF Told
      <4>5. CASE k.do = "add" /\ held = NoKey
        BY <3>2, <4>1, <4>2, <4>5
      <4>6. CASE k.do = "add" /\ held # NoKey
        <5>1. new = accounts[c][u][tag]
          BY <3>4, <4>6
        <5>2. CASE accounts[c][u][tag] = Target(u, tag)
          BY <3>2, <4>1, <5>1, <5>2
        <5>3. CASE Told(c, u, tag)
          <6>1. PICK j \in Open : /\ j.core = c /\ j.user = u /\ j.tag = tag
                                  /\ j.do # "add" \/ accounts[c][u][tag] = NoKey
            BY <5>3 DEF Told
          <6>2. j.do # "add" /\ j # k
            BY <3>4, <4>6, <6>1
          <6>3. j \in Open'
            <7> HIDE DEF next
            <7> QED BY <1>3, <6>2
          <6> QED BY <6>1, <6>2, <6>3 DEF Told
        <5> QED BY <3>1, <5>2, <5>3
      <4> QED BY <1>1, <4>3, <4>4, <4>5, <4>6
    <3> QED BY <3>3, <3>4
  <2> QED BY <1>2, <2>1 DEF CoresFollow
<1> QED BY <1>7, <1>8, <1>10, <1>12, <1>13 DEF AInv

\* A restart is asked for, begins or ends.
LEMMA RestartsAccess ==
  ASSUME Careful, TInv, AInv,
         \/ \E r \in restarts : RestartBegin(r)
         \/ \E c \in Cores : RestartEnd(c)
  PROVE  AInv'
<1>1. /\ rows' = rows /\ handler' = handler /\ review' = review /\ renew' = renew
      /\ calls' = calls
  BY DEF RestartBegin, RestartEnd, jobVars
<1>2. Restarting /\ restarts \subseteq [core : Cores, config : Configs]
  BY DEF RestartBegin, RestartEnd, Restarting, TInv, CoresOK
<1>3. Open = {} /\ Open' = {} /\ review.pc = "idle" /\ renew.pc = "idle"
      /\ \A h \in Handlers : ~Busy(h) /\ ~Busy(h)'
  BY <1>1, <1>2 DEF AInv, OneThing, Open, Busy
<1>4. OneThing' /\ ReviewSound' /\ RowsSound' /\ CallsLead'
  BY <1>1, <1>3 DEF OneThing, ReviewSound, RowsSound, AInv, CallsLead, Busy
<1>5. \A u \in Users : \A tag \in Tags : /\ Target(u, tag) = Config(rows)[u][tag]
                                         /\ Target(u, tag)' = Target(u, tag)
  BY <1>1, <1>3, ConfigGrants DEF Target, CuttingOff
<1>6. ASSUME NEW c \in Cores, up[c], \A r \in restarts : r.core # c
      PROVE  \A u \in Users : \A tag \in Tags : accounts[c][u][tag] = Target(u, tag)
  BY <1>3, <1>6 DEF AInv, CoresFollow, Told
<1>7. ASSUME NEW r \in restarts, RestartBegin(r) PROVE RestartsFresh' /\ CoresFollow'
  <2>1. r.core \in Cores /\ r.config = Config(rows) /\ restarts' = restarts \ {r}
    BY <1>2, <1>7 DEF AInv, RestartsFresh, RestartBegin
  <2>2. CASE starting[r.core] # NoConfig
    <3>1. UNCHANGED <<accounts, up, starting>> /\ ~up[r.core]
      BY <1>7, <2>1, <2>2 DEF RestartBegin, AInv, RestartsFresh
    <3>2. RestartsFresh'
      BY <1>1, <2>1, <3>1 DEF AInv, RestartsFresh
    <3>3. ASSUME NEW c \in Cores, up[c], \A s \in restarts' : s.core # c
          PROVE  \A u \in Users : \A tag \in Tags : accounts'[c][u][tag] = Target(u, tag)'
      <4>1. c # r.core
        BY <3>1, <3>3
      <4>2. \A s \in restarts : s.core # c
        BY <2>1, <3>3, <4>1
      <4> QED BY <1>5, <1>6, <3>1, <3>3, <4>2
    <3>4. CoresFollow'
      BY <3>1, <3>3 DEF CoresFollow
    <3> QED BY <3>2, <3>4
  <2>3. CASE starting[r.core] = NoConfig
    <3> DEFINE empty == Config([u \in Users |-> Absent])
    <3>1. /\ starting' = [starting EXCEPT ![r.core] = r.config]
          /\ accounts' = [accounts EXCEPT ![r.core] = empty]
          /\ up' = [up EXCEPT ![r.core] = FALSE]
      BY <1>7, <2>3 DEF RestartBegin
    <3> HIDE DEF empty
    <3>2. \A c \in Cores : /\ starting'[c] = IF c = r.core THEN Config(rows) ELSE starting[c]
                           /\ up'[c] <=> c # r.core /\ up[c]
                           /\ c # r.core => accounts'[c] = accounts[c]
      BY <2>1, <3>1 DEF TInv, CoresOK
    <3>3. RestartsFresh'
      BY <1>1, <2>1, <3>2 DEF AInv, RestartsFresh
    <3>4. ASSUME NEW c \in Cores, up'[c], \A s \in restarts' : s.core # c
          PROVE  \A u \in Users : \A tag \in Tags : accounts'[c][u][tag] = Target(u, tag)'
      <4>1. c # r.core /\ up[c] /\ accounts'[c] = accounts[c]
        BY <3>2, <3>4
      <4>2. \A s \in restarts : s.core # c
        BY <2>1, <3>4, <4>1
      <4> QED BY <1>5, <1>6, <4>1, <4>2
    <3>5. CoresFollow'
      BY <3>4 DEF CoresFollow
    <3> QED BY <3>3, <3>5
  <2> QED BY <2>2, <2>3
<1>8. ASSUME NEW d \in Cores, RestartEnd(d) PROVE RestartsFresh' /\ CoresFollow'
  <2>1. /\ starting[d] = Config(rows) /\ restarts' = restarts
        /\ accounts' = [accounts EXCEPT ![d] = starting[d]]
        /\ up' = [up EXCEPT ![d] = TRUE]
        /\ starting' = [starting EXCEPT ![d] = NoConfig]
    BY <1>8 DEF RestartEnd, AInv, RestartsFresh
  <2>2. \A c \in Cores : /\ starting'[c] = IF c = d THEN NoConfig ELSE starting[c]
                         /\ up'[c] <=> c = d \/ up[c]
                         /\ accounts'[c] = IF c = d THEN Config(rows) ELSE accounts[c]
    BY <2>1 DEF TInv, CoresOK
  <2>3. RestartsFresh'
    BY <1>1, <2>1, <2>2 DEF AInv, RestartsFresh
  <2>4. ASSUME NEW c \in Cores, up'[c], \A s \in restarts' : s.core # c
        PROVE  \A u \in Users : \A tag \in Tags : accounts'[c][u][tag] = Target(u, tag)'
    <3>1. CASE c = d
      BY <1>5, <2>2, <3>1
    <3>2. CASE c # d
      BY <1>5, <1>6, <2>1, <2>2, <2>4, <3>2
    <3> QED BY <3>1, <3>2
  <2>5. CoresFollow'
    BY <2>4 DEF CoresFollow
  <2> QED BY <2>3, <2>5
<1> QED BY <1>4, <1>7, <1>8 DEF AInv

\* In a quiet state every core that runs is as the rows say.
LEMMA QuietMatches ==
  ASSUME Careful, TInv, AInv, Free
  PROVE  \A c \in Cores : up[c] => \A u \in Users : \A tag \in Tags :
            accounts[c][u][tag] = Grant(rows[u], tag)
  BY QuietFacts DEF AInv, CoresFollow, Told, Target, CuttingOff

\* From a quiet state, a step that starts no call, request or job: restarts of the cores
\* with the rows, which may just have changed.
LEMMA RestartsAsked ==
  ASSUME Careful, TInv, AInv, Free,
         calls' = EmptyBag, \A h \in Handlers : ~Busy(h)',
         review' = ReviewIdle, renew' = RenewIdle,
         \A u \in Users : Sound(rows'[u]),
         starting' = starting \/ starting' = [c \in Cores |-> NoConfig],
         \A r \in restarts' : r.config = Config(rows'),
         \A c \in Cores : up'[c] => \/ \E r \in restarts' : r.core = c
                                    \/ /\ up[c] /\ accounts'[c] = accounts[c]
                                       /\ \A u \in Users : \A tag \in Tags :
                                             Grant(rows'[u], tag) = Grant(rows[u], tag)
  PROVE  AInv'
<1>1. Open' = {} /\ review'.pc = "idle" /\ renew'.pc = "idle" /\ review'.loaded = << >>
  <2>1. RenewIdle.pc = "idle"
    BY DEF RenewIdle
  <2> QED BY <2>1, EmptyBagTyped, IdleTyped DEF Open
<1>2. OneThing'
  BY <1>1 DEF OneThing
<1>3. RowsSound'
  BY <1>1, LoadsTyped DEF RowsSound
<1>4. ReviewSound' /\ CallsLead'
  BY <1>1 DEF ReviewSound, CallsLead
<1>5. \A c \in Cores : starting'[c] = NoConfig
  BY QuietFacts
<1>6. RestartsFresh'
  BY <1>5 DEF RestartsFresh
<1>7. \A u \in Users : \A tag \in Tags : Target(u, tag)' = Grant(rows'[u], tag)
  BY <1>1 DEF Target, CuttingOff
<1>8. ASSUME NEW c \in Cores, up'[c], \A r \in restarts' : r.core # c,
             NEW u \in Users, NEW tag \in Tags
      PROVE  accounts'[c][u][tag] = Target(u, tag)'
  <2>1. up[c] /\ accounts'[c] = accounts[c] /\ Grant(rows'[u], tag) = Grant(rows[u], tag)
    BY <1>8
  <2>2. accounts[c][u][tag] = Grant(rows[u], tag)
    BY <1>8, <2>1, QuietMatches
  <2> QED BY <1>7, <2>1, <2>2
<1>9. CoresFollow'
  BY <1>8 DEF CoresFollow
<1> QED BY <1>2, <1>3, <1>4, <1>6, <1>9 DEF AInv

\* The bulk routes and what happens to whole cores.
LEMMA BulkAccess ==
  ASSUME Careful, TInv, AInv,
         \/ ResetAll \/ DisableAll \/ ActivateAll \/ RestartCores
         \/ \E c \in Cores : HealthCheck(c) \/ CoreCrash(c)
         \/ PanelRestart
  PROVE  AInv'
<1>1. Free
  BY DEF ResetAll, DisableAll, ActivateAll, RestartCores, HealthCheck, CoreCrash,
         PanelRestart, Bulk
<1>2. /\ restarts = {} /\ calls = EmptyBag /\ review = ReviewIdle /\ renew = RenewIdle
      /\ \A h \in Handlers : ~Busy(h)
  BY <1>1, QuietFacts
<1>3. /\ calls' = EmptyBag /\ review' = ReviewIdle /\ renew' = RenewIdle
      /\ handler' = handler \/ handler' = [h \in Handlers |-> HandlerIdle]
      /\ starting' = starting \/ starting' = [c \in Cores |-> NoConfig]
  BY <1>2 DEF ResetAll, DisableAll, ActivateAll, RestartCores, HealthCheck,
              CoreCrash, PanelRestart, Bulk, coreVars, jobVars
<1>4. \A h \in Handlers : ~Busy(h)'
  BY <1>2, <1>3, IdleTyped DEF Busy
<1>5. \A u \in Users : rows[u] \in RowType /\ Sound(rows[u])
  BY DEF AInv, RowsSound, TInv, RowsOK
<1>6. CASE ResetAll \/ DisableAll \/ ActivateAll \/ RestartCores
  <2>1. accounts' = accounts /\ up' = up /\ restarts' = restarts \cup
              {[core |-> c, config |-> Config(rows')] : c \in Reached}
    BY <1>6 DEF ResetAll, DisableAll, ActivateAll, RestartCores, Bulk, RestartWith
  <2>2. \/ rows' = [u \in Users |-> BulkReset(rows[u])]
        \/ rows' = [u \in Users |-> BulkDisabled(rows[u])]
        \/ rows' = [u \in Users |-> BulkActivated(rows[u])]
        \/ rows' = rows
    BY <1>6 DEF ResetAll, DisableAll, ActivateAll, RestartCores, Bulk
  <2>3. \A u \in Users : Sound(rows'[u])
    BY <1>5, <2>2, ChangesSound
  <2>4. \A r \in restarts' : r.config = Config(rows')
    BY <1>2, <2>1
  <2>5. ASSUME NEW c \in Cores, up'[c] PROVE \E r \in restarts' : r.core = c
    <3>1. [core |-> c, config |-> Config(rows')] \in restarts'
      BY <2>1, <2>5 DEF Reached
    <3>2. [core |-> c, config |-> Config(rows')].core = c
      OBVIOUS
    <3> QED BY <3>1, <3>2
  <2> QED BY <1>1, <1>3, <1>4, <2>3, <2>4, <2>5, RestartsAsked
<1>7. CASE \E c \in Cores : HealthCheck(c) \/ CoreCrash(c)
  <2>1. PICK d \in Cores : HealthCheck(d) \/ CoreCrash(d)
    BY <1>7
  <2>2. rows' = rows /\ \A u \in Users : \A tag \in Tags : Grant(rows'[u], tag) = Grant(rows[u], tag)
    BY <2>1 DEF HealthCheck, CoreCrash
  <2>3. \A c \in Cores : up'[c] => up[c] /\ accounts'[c] = accounts[c]
    <3>1. CASE HealthCheck(d)
      BY <3>1 DEF HealthCheck
    <3>2. CASE CoreCrash(d)
      <4> DEFINE empty == Config([u \in Users |-> Absent])
      <4>1. accounts' = [accounts EXCEPT ![d] = empty] /\ up' = [up EXCEPT ![d] = FALSE]
        BY <3>2 DEF CoreCrash
      <4> HIDE DEF empty
      <4> QED BY <4>1 DEF TInv, CoresOK
    <3> QED BY <2>1, <3>1, <3>2
  <2>4. \A r \in restarts' : r.config = Config(rows')
    BY <1>2, <2>1 DEF HealthCheck, CoreCrash
  <2> QED BY <1>1, <1>3, <1>4, <1>5, <2>2, <2>3, <2>4, RestartsAsked
<1>8. CASE PanelRestart
  <2>1. /\ rows' = rows /\ restarts' = {[core |-> c, config |-> Config(rows)] : c \in Cores}
    BY <1>8 DEF PanelRestart
  <2>2. \A r \in restarts' : r.config = Config(rows')
    BY <2>1
  <2>3. ASSUME NEW c \in Cores PROVE \E r \in restarts' : r.core = c
    <3>1. [core |-> c, config |-> Config(rows)] \in restarts'
      BY <2>1
    <3>2. [core |-> c, config |-> Config(rows)].core = c
      OBVIOUS
    <3> QED BY <3>1, <3>2
  <2> QED BY <1>1, <1>3, <1>4, <1>5, <2>1, <2>2, <2>3, RestartsAsked
<1> QED BY <1>6, <1>7, <1>8

\* The invariant is about the rest of the state only through these: when no restart is
\* under way before and none is asked for, only rows, calls, handlers and review matter.
LEMMA NoRestarts ==
  ASSUME ~Restarting, restarts' = restarts, starting' = starting
  PROVE  ~Restarting' /\ RestartsFresh'
  BY DEF Restarting, RestartsFresh

\* A new user is added to every core that is reached.
LEMMA CreateAccess ==
  ASSUME Careful, TInv, TInv', AInv, NEW u \in Users, Create(u)
  PROVE  AInv'
<1>1. PICK p \in Profiles : rows' = [rows EXCEPT ![u] = p] /\ Issue(AddUser(u, p))
  BY DEF Create
<1>2. /\ handler' = handler /\ review' = review /\ renew' = renew /\ rows[u].status = "absent"
      /\ accounts' = accounts /\ up' = up /\ starting' = starting /\ restarts' = restarts /\ Free
  BY DEF Create, jobVars
<1>3. /\ Open = {} /\ ~Restarting /\ review = ReviewIdle /\ review.pc = "idle"
      /\ review.loaded = << >> /\ renew.pc = "idle"
      /\ \A h \in Handlers : ~Busy(h) /\ ~Busy(h)'
  BY <1>2, QuietFacts DEF Busy
<1>4. p \in RowType /\ p.status \in Served /\ Sound(p)
  BY RequestAssumption DEF RequestAssumption, Careful
<1>5. ~Restarting' /\ RestartsFresh'
  BY <1>2, <1>3, NoRestarts
<1>6. OneThing'
  BY <1>2, <1>3, <1>5 DEF OneThing
<1>7. rows'[u] = p /\ \A v \in Users \ {u} : rows'[v] = rows[v]
  BY <1>1 DEF TInv, RowsOK
<1>8. RowsSound'
  <2>1. \A v \in Users : Sound(rows'[v])
    BY <1>4, <1>7 DEF AInv, RowsSound
  <2> QED BY <1>2, <1>3, <2>1, LoadsTyped DEF RowsSound
<1>9. ReviewSound'
  BY <1>2, <1>3 DEF ReviewSound
<1>10. \A v \in Users : \A tag \in Tags : /\ Target(v, tag) = Grant(rows[v], tag)
                                          /\ Target(v, tag)' = Grant(rows'[v], tag)
  BY <1>2, <1>3 DEF Target, CuttingOff
<1>11. CallsLead' /\ CoresFollow'
  <2>1. AddUser(u, p) \in SUBSET CallType
    BY <1>4, CallsTyped DEF TInv
  <2>2. ASSUME NEW k \in AddUser(u, p)
        PROVE  k.user = u /\ k.do = "add" /\ k.key # NoKey /\ Target(u, k.tag)' = k.key
    <3>1. k.user = u /\ k.do = "add" /\ k.key = p.key /\ k.tag \in p.tags
      BY DEF AddUser, Call
    <3>2. p.key # NoKey /\ k.tag \in Tags
      BY <1>4, <3>1, UserAssumption DEF RowType, NoKey, UserAssumption
    <3> QED BY <1>4, <1>7, <1>10, <3>1, <3>2 DEF Grant
  <2>3. ASSUME NEW c \in Cores, up[c], NEW tag \in Tags, accounts[c][u][tag] = Target(u, tag)
        PROVE  \/ accounts[c][u][tag] = Target(u, tag)'
               \/ \E k \in AddUser(u, p) : /\ k.core = c /\ k.tag = tag
                                           /\ k.do # "add" \/ accounts[c][u][tag] = NoKey
    <3>1. accounts[c][u][tag] = NoKey
      BY <1>2, <1>10, <2>3 DEF Grant, Served
    <3>2. CASE tag \in p.tags
      <4> DEFINE k == Call("add", u, c, tag, p.key)
      <4>1. k \in AddUser(u, p)
        BY <2>3, <3>2 DEF AddUser, Reached
      <4>2. k.core = c /\ k.tag = tag
        BY DEF Call
      <4> HIDE DEF k
      <4> QED BY <3>1, <4>1, <4>2
    <3>3. CASE tag \notin p.tags
      BY <1>7, <1>10, <3>1, <3>3 DEF Grant
    <3> QED BY <3>2, <3>3
  <2>4. \A v \in Users \ {u} : \A tag \in Tags : Target(v, tag)' = Target(v, tag)
    BY <1>7, <1>10
  <2> QED BY <1>1, <1>2, <1>3, <2>1, <2>2, <2>3, <2>4, BatchLeads DEF AInv
<1> QED BY <1>5, <1>6, <1>8, <1>9, <1>11 DEF AInv

\* A request that begins alone holds what the database holds.
LEMMA LoadAccess ==
  ASSUME Careful, TInv, TInv', AInv, NEW h \in Handlers, NEW u \in Users, NEW kind, Load(h, u, kind)
  PROVE  AInv'
<1>1. /\ rows' = rows /\ calls' = calls /\ review' = review /\ renew' = renew
      /\ accounts' = accounts /\ up' = up /\ starting' = starting /\ restarts' = restarts
      /\ handler' = [handler EXCEPT ![h] = [kind |-> kind, user |-> u, row |-> rows[u]]] /\ Free
  BY DEF Load, coreVars, jobVars
<1>2. /\ Open = {} /\ Open' = {} /\ ~Restarting /\ review.pc = "idle"
      /\ review.loaded = << >> /\ renew.pc = "idle" /\ \A g \in Handlers : ~Busy(g)
  BY <1>1, QuietFacts DEF Open
<1>3. handler'[h] = [kind |-> kind, user |-> u, row |-> rows[u]]
      /\ \A g \in Handlers \ {h} : handler'[g] = handler[g]
  BY <1>1 DEF TInv, HandlersOK
<1>4. \A g \in Handlers \ {h} : ~Busy(g)'
  BY <1>2, <1>3 DEF Busy
<1>5. ~Restarting' /\ RestartsFresh'
  BY <1>1, <1>2, NoRestarts
<1>6. OneThing'
  BY <1>1, <1>2, <1>4, <1>5 DEF OneThing
<1>7. RowsSound'
  <2>1. /\ handler'[h].row = rows[u] /\ handler'[h].user = u
        /\ handler'[h].kind = kind /\ kind \in Requests /\ rows[u].status \notin Gone
    BY <1>3 DEF Load, Exists
  <2>2. \A g \in Handlers : Busy(g)' => g = h
    BY <1>4
  <2> QED BY <1>1, <1>2, <2>1, <2>2, LoadsTyped DEF AInv, RowsSound
<1>8. ReviewSound'
  BY <1>1, <1>2 DEF ReviewSound
<1>9. CallsLead' /\ CoresFollow'
  <2>1. \A v \in Users : \A tag \in Tags : Target(v, tag)' = Target(v, tag)
    BY <1>1 DEF Target, CuttingOff
  <2> QED BY <1>1, <2>1, SlotsKept DEF AInv
<1> QED BY <1>5, <1>6, <1>7, <1>8, <1>9 DEF AInv

\* A batch of calls for u that gives the cores what row s grants: every call is for that,
\* and a core that runs and was up to date has it already or is told.
Leads(S, u, s) ==
    \A k \in S : /\ k.user = u
                 /\ IF k.do = "remove" THEN Grant(s, k.tag) = NoKey
                    ELSE k.key # NoKey /\ Grant(s, k.tag) = k.key

Reaches(S, u, s) ==
    \A c \in Cores : up[c] => \A tag \in Tags :
        accounts[c][u][tag] = Grant(rows[u], tag) =>
            \/ accounts[c][u][tag] = Grant(s, tag)
            \/ \E k \in S : /\ k.core = c /\ k.tag = tag
                            /\ k.do # "add" \/ accounts[c][u][tag] = NoKey

\* A request that was alone ends: with the row it leaves and the calls it issues, cores
\* get what the row grants.
LEMMA RequestEnds ==
  ASSUME Careful, TInv, TInv', AInv, NEW h \in Handlers, Busy(h),
         NEW u \in Users, NEW s \in RowType, Sound(s), rows' = [rows EXCEPT ![u] = s],
         NEW S \in SUBSET CallType, Issue(S),
         handler' = [handler EXCEPT ![h] = HandlerIdle],
         UNCHANGED <<accounts, up, restarts, starting, jobVars>>,
         Leads(S, u, s), Reaches(S, u, s)
  PROVE  AInv'
<1>1. /\ ~Restarting /\ Open = {} /\ review.pc = "idle" /\ renew.pc = "idle"
      /\ \A g \in Handlers \ {h} : ~Busy(g)
  BY DEF AInv, OneThing
<1>2. accounts' = accounts /\ up' = up /\ restarts' = restarts /\ starting' = starting
      /\ review' = review /\ renew' = renew
  BY DEF jobVars
<1>3. \A g \in Handlers : ~Busy(g)'
  BY <1>1, IdleTyped DEF Busy, TInv, HandlersOK
<1>4. ~Restarting' /\ RestartsFresh'
  BY <1>1, <1>2, NoRestarts
<1>5. OneThing'
  BY <1>1, <1>2, <1>3, <1>4 DEF OneThing
<1>6. rows'[u] = s /\ \A v \in Users \ {u} : rows'[v] = rows[v]
  BY DEF TInv, RowsOK
<1>7. RowsSound'
  <2>1. \A v \in Users : Sound(rows'[v])
    BY <1>6 DEF AInv, RowsSound
  <2> QED BY <1>2, <1>3, <2>1 DEF AInv, RowsSound
<1>8. ReviewSound'
  BY <1>1, <1>2 DEF ReviewSound
<1>9. \A v \in Users : \A tag : /\ Target(v, tag) = Grant(rows[v], tag)
                                /\ Target(v, tag)' = Grant(rows'[v], tag)
  BY <1>1, <1>2 DEF Target, CuttingOff
<1>10. \A v \in Users \ {u} : \A tag \in Tags : Target(v, tag)' = Target(v, tag)
  BY <1>6, <1>9
<1>11. \A k \in S : /\ k.user = u
                    /\ IF k.do = "remove" THEN Target(u, k.tag)' = NoKey
                       ELSE k.key # NoKey /\ Target(u, k.tag)' = k.key
  BY <1>6, <1>9 DEF Leads
<1>12. \A c \in Cores : up[c] /\ accounts[c] \in Configs => \A tag \in Tags :
            accounts[c][u][tag] = Target(u, tag) =>
               \/ accounts[c][u][tag] = Target(u, tag)'
               \/ \E k \in S : /\ k.core = c /\ k.tag = tag
                               /\ k.do # "add" \/ accounts[c][u][tag] = NoKey
  BY <1>6, <1>9 DEF Reaches
<1>13. \A k \in Open : k.user # u
  BY <1>1
<1>14. CallsLead' /\ CoresFollow'
  BY <1>2, <1>10, <1>11, <1>12, <1>13, BatchLeads DEF AInv
<1> QED BY <1>4, <1>5, <1>7, <1>8, <1>14 DEF AInv

\* update_user and remove_user tell every core about every inbound.
LEMMA BatchesSuit ==
  ASSUME TInv, NEW u \in Users, NEW s \in RowType,
         NEW S, \/ s.status \in Served /\ S = UpdateUser(u, s)
                \/ s.status \notin Served /\ S = RemoveUser(u)
  PROVE  S \in SUBSET CallType /\ Leads(S, u, s) /\ Reaches(S, u, s)
<1>1. S \in SUBSET CallType
  BY CallsTyped DEF TInv
<1>2. s.key # NoKey /\ s.tags \in SUBSET Tags
  BY UserAssumption DEF RowType, NoKey, UserAssumption
<1>3. CASE s.status \in Served /\ S = UpdateUser(u, s)
  <2>1. ASSUME NEW k \in S
        PROVE  /\ k.user = u
               /\ IF k.do = "remove" THEN Grant(s, k.tag) = NoKey
                  ELSE k.key # NoKey /\ Grant(s, k.tag) = k.key
    <3>1. \/ k.user = u /\ k.do = "alter" /\ k.tag \in s.tags /\ k.key = s.key
          \/ k.user = u /\ k.do = "remove" /\ k.tag \notin s.tags
      BY <1>3 DEF UpdateUser, Call
    <3> QED BY <1>2, <1>3, <3>1 DEF Grant
  <2>2. ASSUME NEW c \in Cores, up[c], NEW tag \in Tags
        PROVE  \E k \in S : k.core = c /\ k.tag = tag /\ k.do # "add"
    <3>1. CASE tag \in s.tags
      <4>1. Call("alter", u, c, tag, s.key) \in S
        BY <1>3, <2>2, <3>1 DEF UpdateUser, Reached
      <4> QED BY <4>1 DEF Call
    <3>2. CASE tag \notin s.tags
      <4>1. Call("remove", u, c, tag, NoKey) \in S
        BY <1>3, <2>2, <3>2 DEF UpdateUser, Reached
      <4> QED BY <4>1 DEF Call
    <3> QED BY <3>1, <3>2
  <2> QED BY <1>1, <2>1, <2>2 DEF Leads, Reaches
<1>4. CASE s.status \notin Served /\ S = RemoveUser(u)
  <2>1. ASSUME NEW k \in S PROVE k.user = u /\ k.do = "remove" /\ Grant(s, k.tag) = NoKey
    BY <1>4 DEF RemoveUser, Call, Grant
  <2>2. ASSUME NEW c \in Cores, up[c], NEW tag \in Tags
        PROVE  \E k \in S : k.core = c /\ k.tag = tag /\ k.do # "add"
    <3>1. Call("remove", u, c, tag, NoKey) \in S
      BY <1>4, <2>2 DEF RemoveUser, Reached
    <3> QED BY <3>1 DEF Call
  <2> QED BY <1>1, <2>1, <2>2 DEF Leads, Reaches
<1> QED BY <1>3, <1>4

\* The commit of a request, with the calls that follow it.
LEMMA RequestsAccess ==
  ASSUME Careful, TInv, TInv', AInv, NEW h \in Handlers, RequestStep(h)
  PROVE  AInv'
<1>1. /\ Busy(h) /\ handler' = [handler EXCEPT ![h] = HandlerIdle]
      /\ UNCHANGED <<accounts, up, restarts, starting, jobVars>>
  BY DEF RequestStep, Modify, Delete, RemoveExpired, Reset, Revoke, ActiveNext, Busy, coreVars
<1>2. PICK u \in Users : u = handler[h].user
  BY <1>1 DEF TInv, HandlersOK, Busy
<1> DEFINE r == handler[h].row
<1>3. /\ r \in RowType /\ rows[u] \in RowType /\ Sound(r) /\ Sound(rows[u])
      /\ r.status = rows[u].status /\ rows[u].status \notin Gone /\ Exists(u)
      /\ handler[h].kind \notin {"revoke", "active_next"}
  BY <1>1, <1>2 DEF TInv, HandlersOK, HandlerType, RowsOK, AInv, RowsSound, Exists, Careful
<1>4. ASSUME Modify(h) PROVE AInv'
  <2> DEFINE Sync(s) == IF s.status \in Served THEN UpdateUser(handler[h].user, s)
                        ELSE RemoveUser(handler[h].user)
  <2>1. PICK m \in Edits : Commit(h, Modified(r, m, now), Sync)
    BY <1>4 DEF Modify
  <2> DEFINE w == Modified(r, m, now)
             s == Flush(rows[u], r, w)
             S == IF s.status \in Served THEN UpdateUser(u, s) ELSE RemoveUser(u)
  <2>2. m \in EditType /\ (m.plan # NoPlan => m.plan.carry)
    BY RequestAssumption DEF RequestAssumption, Careful
  <2>3. Tame(r, w) /\ Sound(w)
    <3>1. Tame(r, WithStatus(r, m.status))
      BY <1>3, <2>2, StatusTame DEF EditType
    <3> QED BY <1>3, <2>2, <3>1, ModifiedTame, ModifiedSound DEF EditType
  <2>4. s \in RowType /\ Sound(s)
    <3> HIDE DEF w
    <3> QED BY <1>3, <2>3, FlushTame, FlushSound DEF Tame
  <2>5. rows' = [rows EXCEPT ![u] = s] /\ Issue(S)
    <3>1. Presentable(s)
      BY <2>4 DEF Sound
    <3> QED BY <1>2, <1>3, <2>1, <3>1 DEF Commit
  <2> HIDE DEF s
  <2>6. \/ s.status \in Served /\ S = UpdateUser(u, s)
        \/ s.status \notin Served /\ S = RemoveUser(u)
    OBVIOUS
  <2> HIDE DEF S
  <2>7. S \in SUBSET CallType /\ Leads(S, u, s) /\ Reaches(S, u, s)
    BY <2>4, <2>6, BatchesSuit
  <2> QED BY <1>1, <2>4, <2>5, <2>7, RequestEnds
<1>5. ASSUME Delete(h) PROVE AInv'
  <2> DEFINE S == RemoveUser(u)
  <2>1. rows' = [rows EXCEPT ![u] = Deleted] /\ Issue(S)
    BY <1>2, <1>5 DEF Delete, Careful
  <2>2. Deleted \in RowType /\ Deleted.status \notin Served /\ Sound(Deleted)
    BY AbsentTyped DEF Served, Deleted, Absent, Sound, Presentable
  <2>3. S \in SUBSET CallType /\ Leads(S, u, Deleted) /\ Reaches(S, u, Deleted)
    BY <2>2, BatchesSuit
  <2> HIDE DEF S
  <2> QED BY <1>1, <2>1, <2>2, <2>3, RequestEnds
<1>6. ASSUME RemoveExpired(h) PROVE AInv'
  <2>1. rows' = [rows EXCEPT ![u] = Deleted] /\ Issue({})
    BY <1>2, <1>6, NothingIssued DEF RemoveExpired, coreVars, TInv
  <2>2. rows[u].status \in {"expired", "limited"}
    BY <1>2, <1>3, <1>6 DEF RemoveExpired, TInv, HandlersOK
  <2>3. Deleted \in RowType /\ Deleted.status \notin Served /\ Sound(Deleted)
    BY AbsentTyped DEF Served, Deleted, Absent, Sound, Presentable
  <2>4. Leads({}, u, Deleted) /\ Reaches({}, u, Deleted)
    BY <2>2, <2>3 DEF Leads, Reaches, Grant, Served
  <2> QED BY <1>1, <2>1, <2>3, <2>4, RequestEnds
<1>7. ASSUME Reset(h) PROVE AInv'
  <2> DEFINE Sync(s) == IF s.status \in Served THEN AddUser(handler[h].user, s) ELSE {}
             w == UsageReset(r)
             s == Flush(rows[u], r, w)
             S == IF s.status \in Served THEN AddUser(u, s) ELSE {}
  <2>1. Commit(h, w, Sync)
    BY <1>7 DEF Reset
  <2>2. /\ Tame(r, w) /\ Sound(w) /\ w.tags = r.tags /\ w.key = r.key
        /\ w.status = IF r.status = "expired" THEN "expired" ELSE "active"
    <3>1. /\ w.tags = r.tags /\ w.key = r.key
          /\ w.status = IF r.status = "expired" THEN "expired" ELSE "active"
      BY <1>3 DEF UsageReset, RowType
    <3> QED BY <1>3, <3>1, ResetsTame, ChangesSound
  <2>3. /\ s \in RowType /\ Sound(s) /\ s.tags = rows[u].tags /\ s.key = rows[u].key
        /\ s.status = IF rows[u].status = "expired" THEN "expired" ELSE "active"
    <3> HIDE DEF w
    <3>1. s \in RowType /\ Sound(s)
      BY <1>3, <2>2, FlushTame, FlushSound DEF Tame
    <3> QED BY <1>3, <2>2, <3>1, FlushFields
  <2>4. rows' = [rows EXCEPT ![u] = s] /\ Issue(S)
    <3>1. Presentable(s)
      BY <2>3 DEF Sound
    <3> QED BY <1>2, <1>3, <2>1, <3>1 DEF Commit
  <2> HIDE DEF s
  <2>5. s.key # NoKey /\ s.tags \in SUBSET Tags
    BY <2>3, UserAssumption DEF RowType, NoKey, UserAssumption
  <2>6. S \in SUBSET CallType
    BY <2>3, CallsTyped DEF TInv
  <2>7. ASSUME NEW k \in S
        PROVE  /\ k.user = u
               /\ IF k.do = "remove" THEN Grant(s, k.tag) = NoKey
                  ELSE k.key # NoKey /\ Grant(s, k.tag) = k.key
    <3>1. k \in AddUser(u, s) /\ s.status \in Served
      OBVIOUS
    <3>2. k.user = u /\ k.do = "add" /\ k.key = s.key /\ k.tag \in s.tags
      BY <3>1 DEF AddUser, Call
    <3> QED BY <2>5, <3>1, <3>2 DEF Grant
  <2>8. ASSUME NEW c \in Cores, up[c], NEW tag \in Tags,
               accounts[c][u][tag] = Grant(rows[u], tag)
        PROVE  \/ accounts[c][u][tag] = Grant(s, tag)
               \/ \E k \in S : /\ k.core = c /\ k.tag = tag
                               /\ k.do # "add" \/ accounts[c][u][tag] = NoKey
    <3>1. CASE rows[u].status \in Served \/ tag \notin s.tags \/ rows[u].status = "expired"
      BY <2>3, <2>8, <3>1 DEF Grant, Served
    <3>2. CASE rows[u].status \notin Served /\ tag \in s.tags /\ rows[u].status # "expired"
      <4> DEFINE k == Call("add", u, c, tag, s.key)
      <4>1. k \in S
        BY <2>3, <2>8, <3>2 DEF AddUser, Reached, Served
      <4>2. k.core = c /\ k.tag = tag
        BY DEF Call
      <4>3. accounts[c][u][tag] = NoKey
        BY <2>8, <3>2 DEF Grant
      <4> HIDE DEF k, S
      <4> QED BY <4>1, <4>2, <4>3
    <3> QED BY <3>1, <3>2
  <2> HIDE DEF S
  <2>9. Leads(S, u, s) /\ Reaches(S, u, s)
    BY <2>7, <2>8 DEF Leads, Reaches
  <2> QED BY <1>1, <2>3, <2>4, <2>6, <2>9, RequestEnds
<1> QED BY <1>3, <1>4, <1>5, <1>6, <1>7 DEF RequestStep, Revoke, ActiveNext

\* A step of the job, in which at most one row changes, and that not for the worse.
LEMMA PassStep ==
  ASSUME Careful, TInv, TInv', AInv, review.pc # "idle",
         UNCHANGED <<accounts, up, restarts, starting, handler, renew>>
  PROVE  /\ OneThing' /\ RestartsFresh'
         /\ \A h \in Handlers : ~Busy(h) /\ ~Busy(h)'
         /\ restarts' = restarts
<1>1. ~Restarting /\ (\A h \in Handlers : ~Busy(h)) /\ renew.pc = "idle"
  BY DEF AInv, OneThing
<1>2. ~Restarting' /\ RestartsFresh'
  BY <1>1, NoRestarts
<1>3. \A h \in Handlers : ~Busy(h)'
  BY <1>1 DEF Busy
<1> QED BY <1>1, <1>2, <1>3 DEF OneThing

\* What a pass of the job may hold.
LoadedSound == \A u \in DOMAIN review.loaded :
                   Sound(review.loaded[u]) /\ review.loaded[u].status \in Served

\* A step of the job that moves no target.
LEMMA PassNoCalls ==
  ASSUME Careful, TInv, TInv', AInv, review.pc # "idle", calls' = calls,
         UNCHANGED <<accounts, up, restarts, starting, handler, renew>>,
         \A u \in Users : Sound(rows'[u]), LoadedSound', ReviewSound',
         \A u \in Users : \A tag \in Tags : Target(u, tag)' = Target(u, tag)
  PROVE  AInv'
<1>1. /\ OneThing' /\ RestartsFresh' /\ restarts' = restarts
      /\ \A h \in Handlers : ~Busy(h)'
  BY PassStep
<1>2. RowsSound'
  BY <1>1 DEF RowsSound, LoadedSound
<1>3. CallsLead' /\ CoresFollow'
  BY <1>1, SlotsKept DEF AInv
<1> QED BY <1>1, <1>2, <1>3 DEF AInv

\* A pass that is over holds nothing.
LEMMA IdleSound ==
  /\ review' = ReviewIdle => LoadedSound' /\ ReviewSound'
  /\ AInv => LoadedSound
<1>1. review' = ReviewIdle => review'.pc = "idle" /\ review'.loaded = << >>
  BY IdleTyped
<1>2. review' = ReviewIdle => LoadedSound' /\ ReviewSound'
  BY <1>1, LoadsTyped DEF LoadedSound, ReviewSound
<1>3. AInv => LoadedSound
  BY DEF AInv, RowsSound, LoadedSound
<1> QED BY <1>2, <1>3

\* A pass, or its second half, loads users who are served.
LEMMA LoadingSound ==
  ASSUME TInv, \A u \in Users : Sound(rows[u]), NEW status, status \subseteq Served,
         NEW job \in ReviewType, review' = Loading(job, status)
  PROVE  /\ LoadedSound' /\ review'.pc = job.pc /\ review'.todo \subseteq Users
         /\ \A u \in review'.todo : rows[u].status \in Served
<1> DEFINE T == {u \in Users : rows[u].status \in status}
           l == [u \in T |-> rows[u]]
<1>1. review' = [job EXCEPT !.todo = T, !.loaded = l]
  BY DEF Loading
<1>2. \A u \in T : u \in Users /\ rows[u].status \in Served
  OBVIOUS
<1>3. DOMAIN l = T /\ \A u \in T : l[u] = rows[u]
  OBVIOUS
<1> HIDE DEF T, l
<1>4. review'.todo = T /\ review'.loaded = l /\ review'.pc = job.pc
  BY <1>1 DEF ReviewType
<1> QED BY <1>2, <1>3, <1>4 DEF LoadedSound

\* A pass of the review job begins when nothing is under way.
LEMMA ReviewBeginAccess ==
  ASSUME Careful, TInv, TInv', AInv, ReviewBegin
  PROVE  AInv'
<1> DEFINE job == [ReviewIdle EXCEPT !.pc = "active", !.at = now]
<1>1. /\ Free /\ review' = Loading(job, {"active"})
      /\ rows' = rows /\ accounts' = accounts /\ up' = up /\ calls' = calls /\ restarts' = restarts
      /\ starting' = starting /\ handler' = handler /\ renew' = renew
  BY DEF ReviewBegin, coreVars
<1>2. /\ Open = {} /\ Open' = {} /\ ~Restarting /\ renew.pc = "idle" /\ review.pc = "idle"
      /\ \A h \in Handlers : ~Busy(h)
  BY <1>1, QuietFacts DEF Open
<1>3. \A u \in Users : Sound(rows[u])
  BY DEF AInv, RowsSound
<1>4. job \in ReviewType /\ job.pc = "active"
  BY IdleTyped DEF ReviewType, TInv
<1> HIDE DEF job
<1>5. /\ LoadedSound' /\ review'.pc = "active" /\ review'.todo \subseteq Users
      /\ \A u \in review'.todo : rows[u].status \in Served
  BY <1>1, <1>3, <1>4, LoadingSound DEF Served
<1>6. ~Restarting' /\ RestartsFresh'
  BY <1>1, <1>2, NoRestarts
<1>7. \A h \in Handlers : ~Busy(h)'
  BY <1>1, <1>2 DEF Busy
<1>8. OneThing' /\ RowsSound'
  BY <1>1, <1>2, <1>3, <1>5, <1>6, <1>7 DEF OneThing, RowsSound, LoadedSound
<1>9. ReviewSound'
  BY <1>1, <1>2, <1>5 DEF ReviewSound
<1>10. \A u \in Users : \A tag \in Tags : Target(u, tag)' = Target(u, tag)
  BY <1>1, <1>2, <1>5 DEF Target, CuttingOff
<1>11. CallsLead' /\ CoresFollow'
  BY <1>1, <1>10, SlotsKept DEF AInv
<1> QED BY <1>6, <1>8, <1>9, <1>11 DEF AInv

\* It turns to the users on hold, and ends.
LEMMA ReviewTurnAccess ==
  ASSUME Careful, TInv, TInv', AInv, ReviewTurn \/ ReviewEnd
  PROVE  AInv'
<1>1. /\ review.pc \in {"active", "hold"} /\ calls' = calls /\ rows' = rows
      /\ UNCHANGED <<accounts, up, restarts, starting, handler, renew>>
  BY DEF ReviewTurn, ReviewEnd, coreVars
<1>2. \A u \in Users : Sound(rows[u])
  BY DEF AInv, RowsSound
<1>3. LoadedSound' /\ ReviewSound' /\ review'.pc \in {"idle", "hold"}
  <2>1. CASE ReviewEnd
    BY <2>1, IdleSound, IdleTyped DEF ReviewEnd
  <2>2. CASE ReviewTurn
    <3> DEFINE job == [review EXCEPT !.pc = "hold"]
    <3>1. job \in ReviewType /\ job.pc = "hold"
      BY DEF TInv, ReviewOK, ReviewType
    <3>2. review' = Loading(job, {"on_hold"})
      BY <2>2 DEF ReviewTurn
    <3> HIDE DEF job
    <3>3. /\ LoadedSound' /\ review'.pc = "hold"
          /\ \A u \in review'.todo : rows[u].status \in Served
      BY <1>2, <3>1, <3>2, LoadingSound DEF Served
    <3> QED BY <1>1, <3>3 DEF ReviewSound
  <2> QED BY <2>1, <2>2
<1>4. \A u \in Users : \A tag \in Tags : Target(u, tag)' = Target(u, tag)
  BY <1>1, <1>3 DEF Target, CuttingOff
<1> QED BY <1>1, <1>2, <1>3, <1>4, PassNoCalls

\* The two commits that end a hold change the status from one that is served to another.
LEMMA ReviewHoldAccess ==
  ASSUME Careful, TInv, TInv', AInv,
         ReviewStart \/ \E u \in Users : ReviewHold(u)
  PROVE  AInv'
<1>1. /\ review.pc \in {"hold", "start"} /\ calls' = calls
      /\ UNCHANGED <<accounts, up, restarts, starting, handler, renew>>
      /\ review \in ReviewType /\ review.loaded \in Loads /\ review.todo \subseteq Users
  BY DEF ReviewStart, ReviewHold, coreVars, TInv, ReviewOK, ReviewType
<1>2. \A u \in Users : Sound(rows[u]) /\ rows[u] \in RowType
  BY DEF AInv, RowsSound, TInv, RowsOK
<1>3. LoadedSound /\ \A u \in review.todo : rows[u].status \in Served
  BY <1>1, IdleSound DEF AInv, ReviewSound
<1>4. ASSUME NEW u \in Users, NEW s, s \in RowType, Sound(s),
             s.tags = rows[u].tags, s.key = rows[u].key,
             rows[u].status \in Served => s.status \in Served,
             rows[u].status \notin Served => s.status = rows[u].status,
             rows' = [rows EXCEPT ![u] = s] \/ rows' = rows,
             LoadedSound', review'.pc \in {"idle", "hold", "start"},
             review'.pc = "idle" \/ review'.todo \subseteq review.todo
      PROVE  AInv'
  <2>1. \A v \in Users : /\ Sound(rows'[v])
                         /\ rows[v].status \in Served => rows'[v].status \in Served
                         /\ \A tag \in Tags : Grant(rows'[v], tag) = Grant(rows[v], tag)
    <3>1. \A tag \in Tags : Grant(s, tag) = Grant(rows[u], tag)
      BY <1>4 DEF Grant
    <3> QED BY <1>2, <1>4, <3>1 DEF TInv, RowsOK
  <2>2. ReviewSound'
    BY <1>1, <1>3, <1>4, <2>1 DEF ReviewSound
  <2>3. \A v \in Users : \A tag \in Tags : Target(v, tag)' = Target(v, tag)
    BY <1>1, <1>4, <2>1 DEF Target, CuttingOff
  <2> QED BY <1>1, <1>4, <2>1, <2>2, <2>3, PassNoCalls
<1>5. ASSUME ReviewStart PROVE AInv'
  <2> DEFINE w == Started(review.loaded[review.user], now)
             next == [review EXCEPT !.pc = "hold", !.user = NoUser, !.loaded = << >>]
  <2>1. PICK u \in Users : u = review.user /\ u \in DOMAIN review.loaded
    BY <1>1, <1>5, LoadsTyped DEF ReviewStart, TInv, ReviewOK
  <2> DEFINE r == review.loaded[u]
             s == Flush(rows[u], r, w)
  <2>2. r \in RowType /\ Sound(r)
    BY <1>1, <1>3, <2>1, LoadsTyped DEF LoadedSound
  <2>3. /\ Sound(w) /\ w.status = r.status /\ w.tags = r.tags /\ w.key = r.key
        /\ Tame(r, w)
    <3>1. now \in Nat
      BY UserAssumption DEF TInv, UserAssumption
    <3>2. w.status = r.status /\ w.tags = r.tags /\ w.key = r.key
      BY <2>1, <2>2 DEF Started, RowType
    <3> QED BY <2>1, <2>2, <3>1, <3>2, StartedTame, ChangesSound
  <2>4. \/ rows' = rows /\ review' = ReviewIdle
        \/ rows' = [rows EXCEPT ![u] = s] /\ (review' = next \/ review' = ReviewIdle)
    BY <1>5, <2>1, <1>2 DEF ReviewStart, TInv, RowsOK
  <2>5. next.pc = "hold" /\ next.loaded = << >> /\ next.todo = review.todo
    BY <1>1 DEF ReviewType
  <2>6. LoadedSound' /\ review'.pc \in {"idle", "hold"}
        /\ (review'.pc = "idle" \/ review'.todo \subseteq review.todo)
    <3> HIDE DEF next
    <3>1. CASE review' = ReviewIdle
      BY <3>1, IdleSound, IdleTyped
    <3>2. CASE review' = next
      BY <2>5, <3>2, LoadsTyped DEF LoadedSound
    <3> QED BY <2>4, <3>1, <3>2
  <2>7. s \in RowType /\ Sound(s) /\ s.tags = rows[u].tags /\ s.key = rows[u].key
        /\ s.status = rows[u].status
    <3> HIDE DEF w
    <3> QED BY <1>2, <2>2, <2>3, FlushTame, FlushSound, FlushFields DEF Tame
  <2> HIDE DEF s
  <2> QED BY <1>4, <2>4, <2>6, <2>7
<1>6. ASSUME NEW u \in Users, ReviewHold(u) PROVE AInv'
  <2> DEFINE r == Seen(review, u)
             rest == [review EXCEPT !.todo = @ \ {u}]
             w == [r EXCEPT !.status = "active"]
             s == Flush(rows[u], r, w)
             l == [v \in {u} |-> s]
             next == [rest EXCEPT !.pc = "start", !.user = u, !.loaded = l]
  <2>1. u \in review.todo /\ rows[u].status \in Served
    BY <1>3, <1>6 DEF ReviewHold
  <2>2. r \in RowType /\ Sound(r) /\ r.status \in Served
    <3>1. r \in RowType
      BY <1>1, SeenTyped DEF TInv
    <3> QED BY <1>2, <1>3, <2>1, <3>1 DEF Seen, LoadedSound
  <2> HIDE DEF r
  <2>3. Sound(w) /\ w.status = "active" /\ w.tags = r.tags /\ w.key = r.key /\ Tame(r, w)
    <3>1. w.status = "active" /\ w.tags = r.tags /\ w.key = r.key /\ w \in RowType
      BY <2>2 DEF RowType, Statuses
    <3> QED BY <2>2, <3>1, ChangesSound DEF Tame
  <2>4. s \in RowType /\ Sound(s) /\ s.tags = rows[u].tags /\ s.key = rows[u].key
        /\ s.status \in Served
    <3> HIDE DEF w
    <3>1. s \in RowType
      BY <1>2, <2>2, <2>3, FlushTame DEF Tame
    <3> QED BY <1>2, <2>1, <2>3, <3>1, FlushSound, FlushFields DEF Served
  <2>5. \/ review' = rest /\ rows' = rows
        \/ review' = ReviewIdle /\ rows' = rows
        \/ review' = next /\ rows' = [rows EXCEPT ![u] = s]
    BY <1>6 DEF ReviewHold, r
  <2>6. /\ rest.pc = review.pc /\ rest.todo \subseteq review.todo /\ rest.loaded = review.loaded
        /\ rest \in ReviewType
    BY <1>1 DEF ReviewType
  <2>7. l[u] = s /\ DOMAIN l = {u}
    OBVIOUS
  <2> HIDE DEF s, l, rest
  <2>8. next.pc = "start" /\ next.todo = rest.todo /\ next.loaded = l
    BY <2>6 DEF ReviewType
  <2> HIDE DEF next
  <2>9. LoadedSound' /\ review'.pc \in {"idle", "hold", "start"}
        /\ (review'.pc = "idle" \/ review'.todo \subseteq review.todo)
    <3>1. CASE review' = ReviewIdle
      BY <3>1, IdleSound, IdleTyped
    <3>2. CASE review' = rest
      BY <1>1, <1>3, <2>6, <3>2 DEF LoadedSound
    <3>3. CASE review' = next
      BY <2>4, <2>6, <2>7, <2>8, <3>3 DEF LoadedSound
    <3> QED BY <2>5, <3>1, <3>2, <3>3
  <2> QED BY <1>4, <2>1, <2>4, <2>5, <2>9
<1> QED BY <1>5, <1>6

\* The verdict is written: whoever was cut off is no longer served by the row either.
LEMMA ReviewVerdictAccess ==
  ASSUME Careful, TInv, TInv', AInv, ReviewVerdict
  PROVE  AInv'
<1>1. /\ review.pc \in {"limited", "expired"} /\ calls' = calls
      /\ UNCHANGED <<accounts, up, restarts, starting, handler, renew>>
      /\ review \in ReviewType /\ review.loaded \in Loads /\ review.todo \subseteq Users
  BY DEF ReviewVerdict, coreVars, TInv, ReviewOK, ReviewType
<1>2. PICK u \in Users : u = review.user /\ u \in DOMAIN review.loaded
  BY <1>1, LoadsTyped DEF TInv, ReviewOK
<1> DEFINE r == review.loaded[u]
           w == [r EXCEPT !.status = review.pc]
           s == Flush(rows[u], r, w)
           next == [review EXCEPT !.pc = "active", !.user = NoUser, !.loaded = << >>]
<1>3. /\ \A v \in Users : Sound(rows[v]) /\ rows[v] \in RowType
      /\ r \in RowType /\ Sound(r) /\ r.status \in Served
  BY <1>1, <1>2, LoadsTyped DEF AInv, RowsSound, TInv, RowsOK
<1>4. /\ u \notin review.todo /\ Exists(u)
      /\ \A v \in review.todo : rows[v].status \in Served
      /\ \A k \in Open : k.user \notin review.todo
  BY <1>1, <1>2 DEF AInv, ReviewSound, Exists, Served, Gone
<1>5. Sound(w) /\ Tame(r, w) /\ w.status = review.pc /\ w.status # r.status
  <2>1. w.status = review.pc /\ w.tags = r.tags /\ w.key = r.key /\ w \in RowType
    BY <1>1, <1>3 DEF RowType, Statuses
  <2> QED BY <1>1, <1>3, <2>1, ChangesSound DEF Tame, Served
<1>6. s \in RowType /\ Sound(s) /\ s.status = review.pc
  <2> HIDE DEF w
  <2>1. s \in RowType
    BY <1>3, <1>5, FlushTame DEF Tame
  <2> QED BY <1>3, <1>5, <2>1, FlushSound, FlushFields
<1>7. rows' = [rows EXCEPT ![u] = s] /\ review' = next
  <2>1. Presentable(s)
    BY <1>6 DEF Sound
  <2> QED BY <1>2, <1>4, <2>1 DEF ReviewVerdict
<1> HIDE DEF s
<1>8. rows'[u] = s /\ \A v \in Users \ {u} : rows'[v] = rows[v]
  BY <1>7 DEF TInv, RowsOK
<1>9. next.pc = "active" /\ next.loaded = << >> /\ next.todo = review.todo
  BY <1>1 DEF ReviewType
<1> HIDE DEF next
<1>10. LoadedSound' /\ \A v \in Users : Sound(rows'[v])
  BY <1>3, <1>6, <1>7, <1>8, <1>9, LoadsTyped DEF LoadedSound
<1>11. ReviewSound'
  <2>1. Open' = Open
    BY <1>1 DEF Open
  <2> QED BY <1>1, <1>4, <1>7, <1>8, <1>9, <2>1 DEF ReviewSound
<1>12. \A v \in Users : \A tag \in Tags : Target(v, tag)' = Target(v, tag)
  <2>1. \A tag \in Tags : Target(u, tag)' = NoKey /\ Target(u, tag) = NoKey
    BY <1>1, <1>2, <1>6, <1>7, <1>8, <1>9 DEF Target, CuttingOff, Grant, Served
  <2>2. \A v \in Users \ {u} : \A tag \in Tags : Target(v, tag)' = Target(v, tag)
    BY <1>2, <1>7, <1>8, <1>9 DEF Target, CuttingOff
  <2> QED BY <2>1, <2>2
<1> QED BY <1>1, <1>10, <1>11, <1>12, PassNoCalls

\* A step of the pass that issues calls for the user it is at, and takes that user from
\* the list.
LEMMA PassCalls ==
  ASSUME Careful, TInv, TInv', AInv, review.pc = "active",
         UNCHANGED <<accounts, up, restarts, starting, handler, renew>>,
         NEW u \in Users, u \in review.todo, NEW S \in SUBSET CallType, Issue(S),
         NEW s, Leads(S, u, s), Reaches(S, u, s),
         \A v \in Users \ {u} : rows'[v] = rows[v], Sound(rows'[u]),
         rows'[u].status \in Served \/ review'.pc = "active",
         review'.pc \in {"active", "limited", "expired"},
         review'.pc = "active" \/ review'.user = u,
         review'.todo = review.todo \ {u}, LoadedSound',
         \A tag \in Tags : Target(u, tag)' = Grant(s, tag)
  PROVE  AInv'
<1>1. /\ OneThing' /\ RestartsFresh' /\ restarts' = restarts
      /\ \A h \in Handlers : ~Busy(h)'
  BY PassStep
<1>2. RowsSound'
  <2>1. \A v \in Users : Sound(rows'[v])
    BY DEF AInv, RowsSound
  <2> QED BY <1>1, <2>1 DEF RowsSound, LoadedSound
<1>3. Open' = Open \cup S /\ \A k \in S : k.user = u
  BY IssueBag DEF Issue, Open, TInv, CallsOK, Leads
<1>4. /\ \A v \in review.todo : v \in Users /\ rows[v].status \in Served
      /\ \A k \in Open : k.user \notin review.todo
  BY DEF AInv, ReviewSound, TInv, ReviewOK, ReviewType
<1>5. ReviewSound'
  <2>1. \A v \in review'.todo : rows'[v].status \in Served
    BY <1>4
  <2>2. \A k \in Open' : k.user \notin review'.todo
    BY <1>3, <1>4
  <2>3. review'.pc \in {"limited", "expired"} =>
            review'.user \notin review'.todo /\ rows'[review'.user].status \in Served
    OBVIOUS
  <2> QED BY <2>1, <2>2, <2>3 DEF ReviewSound
<1>6. \A v \in Users \ {u} : \A tag \in Tags : Target(v, tag)' = Target(v, tag)
  BY DEF Target, CuttingOff
<1>7. \A tag \in Tags : Target(u, tag) = Grant(rows[u], tag)
  BY DEF Target, CuttingOff
<1>8. \A k \in S : /\ k.user = u
                   /\ IF k.do = "remove" THEN Target(u, k.tag)' = NoKey
                      ELSE k.key # NoKey /\ Target(u, k.tag)' = k.key
  BY DEF Leads, CallType
<1>9. \A c \in Cores : up[c] /\ accounts[c] \in Configs => \A tag \in Tags :
            accounts[c][u][tag] = Target(u, tag) =>
               \/ accounts[c][u][tag] = Target(u, tag)'
               \/ \E k \in S : /\ k.core = c /\ k.tag = tag
                               /\ k.do # "add" \/ accounts[c][u][tag] = NoKey
  BY <1>7 DEF Reaches
<1>10. \A k \in Open : k.user # u
  BY <1>4
<1>11. CallsLead' /\ CoresFollow'
  BY <1>1, <1>6, <1>8, <1>9, <1>10, BatchLeads DEF AInv
<1> QED BY <1>1, <1>2, <1>5, <1>11 DEF AInv

\* A next plan ends in an active row.
LEMMA NextPlanActive == ASSUME NEW r \in RowType PROVE NextPlanApplied(r).status = "active"
  BY DEF NextPlanApplied, RowType

\* The job looks at an active user: nothing, a next plan, or the first half of a verdict.
LEMMA ReviewActiveAccess ==
  ASSUME Careful, TInv, TInv', AInv, NEW u \in Users, ReviewActive(u)
  PROVE  AInv'
<1> DEFINE r == Seen(review, u)
           rest == [review EXCEPT !.todo = @ \ {u}]
           verdict == Verdict(r, review.at)
           w == NextPlanApplied(r)
           s == Flush(rows[u], r, w)
           D == {u} \cup DOMAIN review.loaded
           l == [v \in D |-> Seen(review, v)]
           next == [rest EXCEPT !.loaded = << >>]
           cut == [rest EXCEPT !.pc = verdict, !.user = u, !.loaded = l]
<1>1. /\ review.pc = "active" /\ u \in review.todo
      /\ UNCHANGED <<accounts, up, restarts, starting, handler, renew>>
      /\ review \in ReviewType /\ review.loaded \in Loads /\ review.todo \subseteq Users
      /\ DOMAIN review.loaded \subseteq Users
  BY LoadsTyped DEF ReviewActive, TInv, ReviewOK, ReviewType
<1>2. \A v \in Users : Sound(rows[v]) /\ rows[v] \in RowType
  BY DEF AInv, RowsSound, TInv, RowsOK
<1>3. LoadedSound /\ (\A v \in review.todo : rows[v].status \in Served) /\ Exists(u)
  BY <1>1, IdleSound DEF AInv, ReviewSound, Exists, Served, Gone
<1>4. \A v \in Users : v \in D => Sound(Seen(review, v)) /\ Seen(review, v).status \in Served
  BY <1>1, <1>2, <1>3 DEF LoadedSound, Seen
<1>5. r \in RowType /\ Sound(r) /\ r.status \in Served
  BY <1>1, <1>4, SeenTyped DEF TInv
<1>6. /\ rest.pc = "active" /\ rest.loaded = review.loaded /\ rest.todo = review.todo \ {u}
      /\ rest \in ReviewType
  BY <1>1 DEF ReviewType
<1>7. \A v \in D : v \in Users
  BY <1>1
<1> HIDE DEF r, rest, verdict, D
<1>8. /\ next.pc = "active" /\ next.loaded = << >> /\ next.todo = rest.todo
      /\ cut.pc = verdict /\ cut.loaded = l /\ cut.todo = rest.todo /\ cut.user = u
  BY <1>6 DEF ReviewType
<1>9. \/ review' \in {ReviewIdle, rest} /\ rows' = rows /\ calls' = calls
      \/ /\ verdict = "next_plan" /\ rows' = [rows EXCEPT ![u] = s]
         /\ IF Presentable(s) THEN review' = next /\ Issue(UpdateUser(u, s))
                              ELSE review' = ReviewIdle /\ calls' = calls
      \/ /\ verdict \in {"limited", "expired"} /\ Issue(RemoveUser(u)) /\ rows' = rows
         /\ review' = cut
  BY <1>3, <1>6 DEF ReviewActive, r, rest, verdict, D
<1> HIDE DEF next, cut
<1>10. CASE review' \in {ReviewIdle, rest} /\ rows' = rows /\ calls' = calls
  <2>1. LoadedSound' /\ ReviewSound' /\ review'.pc \in {"idle", "active"}
    <3>1. CASE review' = ReviewIdle
      BY <3>1, IdleSound, IdleTyped
    <3>2. CASE review' = rest
      <4>1. LoadedSound'
        BY <1>3, <1>6, <3>2 DEF LoadedSound
      <4>2. Open' = Open
        BY <1>10 DEF Open
      <4>3. ReviewSound'
        BY <1>1, <1>3, <1>6, <1>10, <3>2, <4>2 DEF AInv, ReviewSound
      <4> QED BY <1>6, <3>2, <4>1, <4>3
    <3> QED BY <1>10, <3>1, <3>2
  <2>2. \A v \in Users : \A tag \in Tags : Target(v, tag)' = Target(v, tag)
    BY <1>1, <1>10, <2>1 DEF Target, CuttingOff
  <2>3. \A v \in Users : Sound(rows'[v])
    BY <1>2, <1>10
  <2> QED BY <1>1, <1>10, <2>1, <2>2, <2>3, PassNoCalls
<1>11. CASE /\ verdict = "next_plan" /\ rows' = [rows EXCEPT ![u] = s]
            /\ IF Presentable(s) THEN review' = next /\ Issue(UpdateUser(u, s))
                                 ELSE review' = ReviewIdle /\ calls' = calls
  <2>1. r.plan # NoPlan
    BY <1>11 DEF Verdict, verdict
  <2>2. Tame(r, w) /\ Sound(w) /\ w.status = "active"
    BY <1>5, <2>1, NextPlanTame, NextPlanActive, ChangesSound
  <2>3. s \in RowType /\ Sound(s) /\ s.status \in Served
    <3> HIDE DEF w
    <3>1. s \in RowType
      BY <1>2, <1>5, <2>2, FlushTame DEF Tame
    <3> QED BY <1>1, <1>2, <1>3, <1>5, <2>2, <3>1, FlushSound, FlushFields DEF Served
  <2> HIDE DEF s
  <2> DEFINE S == UpdateUser(u, s)
  <2>4. S \in SUBSET CallType /\ Leads(S, u, s) /\ Reaches(S, u, s)
    BY <2>3, BatchesSuit
  <2>5. review' = next /\ Issue(S)
    BY <1>11, <2>3 DEF Sound
  <2> HIDE DEF S
  <2>6. rows'[u] = s /\ \A v \in Users \ {u} : rows'[v] = rows[v]
    BY <1>11 DEF TInv, RowsOK
  <2>7. LoadedSound' /\ review'.pc = "active" /\ review'.todo = review.todo \ {u}
    BY <1>6, <1>8, <2>5, LoadsTyped DEF LoadedSound
  <2>8. \A tag \in Tags : Target(u, tag)' = Grant(s, tag)
    BY <2>6, <2>7 DEF Target, CuttingOff
  <2> QED BY <1>1, <2>3, <2>4, <2>5, <2>6, <2>7, <2>8, PassCalls
<1>12. CASE /\ verdict \in {"limited", "expired"} /\ Issue(RemoveUser(u)) /\ rows' = rows
            /\ review' = cut
  <2> DEFINE x == [r EXCEPT !.status = "limited"]
             S == RemoveUser(u)
  <2>1. x \in RowType /\ x.status = "limited" /\ x.status \notin Served
    BY <1>5 DEF RowType, Statuses, Served
  <2> HIDE DEF x
  <2>2. S \in SUBSET CallType /\ Leads(S, u, x) /\ Reaches(S, u, x)
    BY <2>1, BatchesSuit
  <2> HIDE DEF S
  <2>3. LoadedSound'
    <3>1. DOMAIN l = D /\ \A v \in D : l[v] = Seen(review, v)
      OBVIOUS
    <3> HIDE DEF l
    <3> QED BY <1>4, <1>7, <1>8, <1>12, <3>1 DEF LoadedSound
  <2>4. /\ review'.pc \in {"limited", "expired"} /\ review'.user = u
        /\ review'.todo = review.todo \ {u}
    BY <1>6, <1>8, <1>12
  <2>5. \A tag \in Tags : Target(u, tag)' = Grant(x, tag)
    BY <2>1, <2>4 DEF Target, CuttingOff, Grant
  <2>6. Sound(rows'[u]) /\ rows'[u].status \in Served /\ \A v \in Users \ {u} : rows'[v] = rows[v]
    BY <1>1, <1>2, <1>3, <1>12
  <2>7. Issue(S)
    BY <1>12 DEF S
  <2> QED BY <1>1, <2>2, <2>3, <2>4, <2>5, <2>6, <2>7, PassCalls
<1> QED BY <1>9, <1>10, <1>11, <1>12

\* The access invariant holds at first ...
LEMMA AInvInit == Careful /\ Init => AInv
<1> SUFFICES ASSUME Careful, Init PROVE AInv
  OBVIOUS
<1>1. /\ Open = {} /\ restarts = {} /\ renew.pc = "idle" /\ review.pc = "idle"
      /\ DOMAIN review.loaded = {}
      /\ \A h \in Handlers : ~Busy(h)
  BY EmptyBagTyped, IdleTyped DEF Init, Open, Busy, HandlerIdle, RenewIdle, ReviewIdle
<1>2. ~Restarting
  BY <1>1 DEF Restarting, Init
<1>3. \A u \in Users : Sound(rows[u])
  BY DEF Init, Sound, Presentable, Absent
<1>4. CoresFollow
  BY <1>1, ConfigGrants DEF CoresFollow, Target, CuttingOff, Init
<1> QED BY <1>1, <1>2, <1>3, <1>4
        DEF AInv, OneThing, RowsSound, ReviewSound, RestartsFresh, CallsLead, Restarting

\* ... and every step of a careful instance keeps it.
LEMMA AInvNext == Careful /\ TInv /\ TInv' /\ AInv /\ [Next]_vars => AInv'
<1> SUFFICES ASSUME Careful, TInv, TInv', AInv, [Next]_vars PROVE AInv'
  OBVIOUS
<1>1. ASSUME CoreStep PROVE AInv'
  BY <1>1, DeliverAccess, RestartsAccess, BulkAccess DEF CoreStep
<1>2. ASSUME NEW u \in Users, UserRequest(u) \/ Record(u) \/ PeriodEnds(u) PROVE AInv'
  BY <1>2, CreateAccess, LoadAccess, BulkAccess, RecordAccess DEF UserRequest
<1>3. ASSUME NEW h \in Handlers, RequestStep(h) PROVE AInv'
  BY <1>3, RequestsAccess
<1>4. ASSUME ReviewStep PROVE AInv'
  BY <1>4, ReviewBeginAccess, ReviewVerdictAccess, ReviewTurnAccess, ReviewHoldAccess,
     ReviewActiveAccess DEF ReviewStep
<1>5. ~RenewStep
  <2>1. renew.pc = "idle"
    BY DEF AInv, OneThing
  <2> QED BY <2>1 DEF RenewStep, RenewBegin, RenewEnd, RenewUser, Careful
<1>6. ASSUME \/ ResetAll \/ DisableAll \/ ActivateAll \/ RestartCores
             \/ \E c \in Cores : CoreCrash(c)
             \/ PanelRestart
      PROVE  AInv'
  BY <1>6, BulkAccess
<1>7. ASSUME Elapse \/ UNCHANGED vars PROVE AInv'
  BY <1>7, AloofStep DEF Elapse, vars
<1> QED BY <1>1, <1>2, <1>3, <1>4, <1>5, <1>6, <1>7 DEF Next

\* "Both active and on_hold users are baked into Xray", on every instance where one thing
\* happens at a time, no call is lost, every user has an owner and next plans carry the
\* rest over: whenever nothing is under way, every core that runs has exactly the accounts
\* of the rows, whatever order the threads of the calls before came in, whichever core
\* was down or restarted meanwhile (app/xray/operations.py, app/routers/user.py,
\* app/jobs/review_users.py).
THEOREM UserAccessMatches == ASSUME Careful PROVE Spec => []AccessMatchesStatus
<1>1. Init => AInv
  BY AInvInit
<1>2. TInv /\ TInv' /\ AInv /\ [Next]_vars => AInv'
  BY AInvNext
<1>3. Spec => []TInv
  BY UserInvariant
<1>4. TInv /\ AInv => AccessMatchesStatus
  <2> SUFFICES ASSUME TInv, AInv, Quiet, NEW c \in Cores, up[c]
               PROVE  accounts[c] = Config(rows)
    BY DEF AccessMatchesStatus
  <2>1. Open = {} /\ restarts = {} /\ review.pc = "idle"
    BY EmptyBagTyped, IdleTyped DEF Quiet, Open
  <2>2. \A u \in Users : \A tag \in Tags : accounts[c][u][tag] = Grant(rows[u], tag)
    BY <2>1 DEF AInv, CoresFollow, Told, Target, CuttingOff
  <2>3. accounts[c] \in [Users -> [Tags -> 0..MaxKey]]
    BY DEF TInv, CoresOK, Configs
  <2>4. accounts[c] = [u \in Users |-> [tag \in Tags |-> accounts[c][u][tag]]]
    BY <2>3
  <2>5. Config(rows) = [u \in Users |-> [tag \in Tags |-> Grant(rows[u], tag)]]
    BY ConfigGrants
  <2> QED BY <2>2, <2>4, <2>5
<1> QED BY <1>1, <1>2, <1>3, <1>4, PTL DEF Spec

------------------------------------------------------------------------------
(* Users on hold *)

\* The instances of the theorem: whoever is created active has no duration waiting, no
\* request makes a user active by itself or touches what is on hold, and the panel does
\* not die between the two commits.  A next plan may be asked for only where users on
\* hold have none.
Holding ==
    /\ Requests \cap {"reset", "revoke", "activate_all"} = {} /\ Faults \cap {"panel"} = {}
    /\ \A p \in Profiles : p.status = "active" => p.hold = 0
    /\ \A m \in Edits : m.status \in {"keep", "disabled"} /\ m.limit = Keep /\ m.hold = 0
    /\ "active_next" \in Requests =>
          /\ \A p \in Profiles : p.plan # NoPlan => p.hold = 0
          /\ \A m \in Edits : m.plan = NoPlan

\* The job is between the two commits for u.
Starting(u) == review.pc = "start" /\ review.user = u

\* No duration is waiting for u, or it will be gone with the next commit of the job.
\* Nothing undoes this: only a request that makes a new user gives a duration.
Cleared(u) == rows[u].status # "absent" /\ (rows[u].hold = 0 \/ Starting(u))

\* A duration waits for users on hold, and for those disabled meanwhile.
HoldsWait ==
    \A u \in Users : rows[u].hold # 0 =>
        /\ rows[u].status \notin Gone
        /\ rows[u].status \in {"on_hold", "disabled"} \/ Starting(u)

PlansAreFree ==
    "active_next" \in Requests => \A u \in Users : rows[u].plan # NoPlan => Cleared(u)

\* A request that found a user neither on hold nor disabled, or with a next plan to
\* apply, is about one who stays cleared.
RequestsSpare ==
    \A h \in Handlers : handler[h].kind # "idle" =>
        /\ handler[h].kind \in Requests
        /\ handler[h].row.status \notin {"on_hold", "disabled"} => Cleared(handler[h].user)
        /\ "active_next" \in Requests /\ handler[h].row.plan # NoPlan => Cleared(handler[h].user)

\* So are the lists of the jobs; and in the middle of the two commits the job has not
\* missed a duration.
JobsSpare ==
    /\ review.pc \in {"active", "limited", "expired"} => \A u \in review.todo : Cleared(u)
    /\ review.pc \in {"limited", "expired"} => Cleared(review.user)
    /\ review.pc = "start" =>
          /\ rows[review.user].status # "absent"
          /\ review.loaded[review.user].hold = 0 => rows[review.user].hold = 0
    /\ \A u \in renew.todo : Cleared(u)

\* The inductive invariant behind HoldIsStarted.
HInv == HoldsWait /\ PlansAreFree /\ RequestsSpare /\ JobsSpare

\* A step is gentle on u when it gives no new duration to a row that is there, and when
\* the job does not forget the second commit before the duration is gone.
Gentle(u) ==
    /\ rows'[u].status = "absent" => rows[u].status = "absent"
    /\ \/ rows[u].status = "absent" /\ rows'[u].status # "absent"
       \/ rows'[u].hold \in {rows[u].hold, 0}
    /\ rows'[u].status \in Gone => rows'[u].status = rows[u].status \/ rows'[u].hold = 0
    /\ Starting(u) => Starting(u)' \/ rows'[u].hold = 0

\* The row of u changes in one of the ways that the invariant allows.
Suits(u) ==
    \/ rows'[u] = rows[u]
    \/ Cleared(u)'
    \/ /\ \/ rows'[u].status \in {"on_hold", "disabled"}
          \/ rows'[u].status = rows[u].status
       /\ "active_next" \in Requests => rows'[u].plan \in {rows[u].plan, NoPlan}

\* Who is cleared stays so, and the rows stay as they should be.
LEMMA HoldStep ==
  ASSUME HInv, \A u \in Users : Gentle(u) /\ Suits(u)
  PROVE  /\ HoldsWait' /\ PlansAreFree'
         /\ \A u \in Users : Cleared(u) => Cleared(u)'
<1>1. ASSUME NEW u \in Users, Cleared(u) PROVE Cleared(u)'
  BY <1>1 DEF Gentle, Cleared
<1>2. ASSUME NEW u \in Users, rows'[u].hold # 0
      PROVE  /\ rows'[u].status \notin Gone
             /\ rows'[u].status \in {"on_hold", "disabled"} \/ Starting(u)'
  BY <1>2 DEF HInv, HoldsWait, Gentle, Suits, Cleared, Gone
<1>3. ASSUME NEW u \in Users, "active_next" \in Requests, rows'[u].plan # NoPlan
      PROVE  Cleared(u)'
  BY <1>1, <1>3 DEF HInv, PlansAreFree, Suits
<1> QED BY <1>1, <1>2, <1>3 DEF HoldsWait, PlansAreFree

\* Requests stay as they should be when none begins ...
LEMMA HoldRequests ==
  ASSUME TInv, HInv, \A u \in Users : Cleared(u) => Cleared(u)',
         \/ handler' = handler
         \/ \E h \in Handlers : handler' = [handler EXCEPT ![h] = HandlerIdle]
  PROVE  RequestsSpare'
<1> SUFFICES ASSUME NEW h \in Handlers, handler'[h].kind # "idle"
             PROVE  /\ handler'[h].kind \in Requests
                    /\ handler'[h].row.status \notin {"on_hold", "disabled"}
                          => Cleared(handler[h].user)'
                    /\ "active_next" \in Requests /\ handler'[h].row.plan # NoPlan
                          => Cleared(handler[h].user)'
  BY DEF RequestsSpare
<1>1. handler'[h] = handler[h]
  BY IdleTyped DEF TInv, HandlersOK
<1>2. PICK u \in Users : u = handler[h].user
  BY <1>1 DEF TInv, HandlersOK
<1>3. u = handler'[h].user
  BY <1>1, <1>2
<1>4. Cleared(handler[h].user)' <=> Cleared(u)'
  BY <1>3 DEF Cleared, Starting
<1>5. Cleared(u) <=> Cleared(handler[h].user)
  BY <1>2
<1> QED BY <1>1, <1>2, <1>4, <1>5 DEF HInv, RequestsSpare

\* ... and so do the jobs when they do nothing.
LEMMA HoldJobs ==
  ASSUME TInv, HInv, \A u \in Users : Gentle(u), \A u \in Users : Cleared(u) => Cleared(u)',
         review' = review, renew' = renew
  PROVE  JobsSpare'
<1>1. /\ review.todo \subseteq Users /\ renew.todo \subseteq Users
      /\ review.pc \in {"limited", "expired", "start"} => review.user \in Users
  BY LoadsTyped DEF TInv, ReviewOK, RenewOK, ReviewType, RenewType
<1>2. review.pc \in {"active", "limited", "expired"} => \A u \in review.todo : Cleared(u)'
  BY <1>1 DEF HInv, JobsSpare
<1>3. \A u \in renew.todo : Cleared(u)'
  BY <1>1 DEF HInv, JobsSpare
<1>4. ASSUME review.pc \in {"limited", "expired"} PROVE Cleared(review.user)'
  <2>1. PICK u \in Users : u = review.user
    BY <1>1, <1>4
  <2>2. Cleared(u)'
    BY <1>4, <2>1 DEF HInv, JobsSpare
  <2> QED BY <2>1, <2>2 DEF Cleared, Starting
<1>5. ASSUME review.pc = "start"
      PROVE  /\ rows'[review.user].status # "absent"
             /\ review.loaded[review.user].hold = 0 => rows'[review.user].hold = 0
  BY <1>1, <1>5 DEF HInv, JobsSpare, Gentle
<1> QED BY <1>2, <1>3, <1>4, <1>5 DEF JobsSpare

\* A step in which the rows only change: traffic, time, restarts, the bulk routes,
\* creations, and a request that ends.
LEMMA HoldRows ==
  ASSUME TInv, HInv, \A u \in Users : Gentle(u) /\ Suits(u), review' = review, renew' = renew,
         \/ handler' = handler
         \/ \E h \in Handlers : handler' = [handler EXCEPT ![h] = HandlerIdle]
  PROVE  HInv'
<1>1. /\ HoldsWait' /\ PlansAreFree' /\ \A u \in Users : Cleared(u) => Cleared(u)'
      /\ \A u \in Users : Gentle(u)
  BY HoldStep
<1>2. RequestsSpare' /\ JobsSpare'
  BY <1>1, HoldRequests, HoldJobs
<1> QED BY <1>1, <1>2 DEF HInv

\* A flush gives a duration only when the session changed it.
LEMMA FlushHold ==
  ASSUME NEW db \in RowType, NEW r, NEW w
  PROVE  /\ w.hold = r.hold => Flush(db, r, w).hold = db.hold
         /\ w.hold # r.hold => Flush(db, r, w).hold = w.hold
         /\ w.status = r.status => Flush(db, r, w).status = db.status
         /\ w.status # r.status => Flush(db, r, w).status = w.status
         /\ Flush(db, r, w).plan = db.plan \/ Flush(db, r, w).plan = w.plan
<1>1. DOMAIN db = {"status", "used", "limit", "expire", "hold", "timeout", "online",
                   "due", "key", "tags", "plan"}
  BY DEF RowType
<1> QED BY <1>1 DEF Flush

\* update_user, asked for nothing about status, limit or duration but to disable: only a
\* row that was found active or expired changes its status otherwise.
LEMMA ModifiedHold ==
  ASSUME NEW r \in RowType, NEW m \in EditType, NEW t,
         m.status \in {"keep", "disabled"}, m.limit = Keep, m.hold = 0
  PROVE  /\ Modified(r, m, t).hold = r.hold /\ Modified(r, m, t).plan = m.plan
         /\ \/ Modified(r, m, t).status \in {r.status, "disabled"}
            \/ /\ Modified(r, m, t).status \in {"active", "expired"}
               /\ r.status \in {"active", "expired"}
<1> DEFINE a == WithStatus(r, m.status)
           b == WithLimit(a, m.limit)
           s == WithExpire(b, m.expire, t)
<1>1. a \in RowType /\ a.hold = r.hold /\ a.status \in {r.status, "disabled"}
  <2>1. a \in RowType
    BY StatusTame DEF EditType, Tame
  <2> QED BY <2>1 DEF WithStatus, RowType
<1>2. b = a
  BY DEF WithLimit
<1> HIDE DEF a, b
<1>3. /\ s \in RowType /\ s.hold = r.hold
      /\ \/ s.status \in {r.status, "disabled"}
         \/ s.status \in {"active", "expired"} /\ r.status \in {"active", "expired"}
  <2>1. s \in RowType
    BY <1>1, <1>2, ExpireTame DEF EditType, Tame
  <2>2. s.hold = b.hold
    BY <1>1, <1>2 DEF WithExpire, RowType
  <2>3. s.status = b.status \/ s.status = StatusForExpire([b EXCEPT !.expire = m.expire], t)
    BY <1>1, <1>2 DEF WithExpire, RowType
  <2>4. [b EXCEPT !.expire = m.expire].status = b.status
    BY <1>1, <1>2 DEF RowType
  <2>5. \/ s.status = b.status
        \/ s.status \in {"active", "expired"} /\ b.status \in {"active", "expired"}
    BY <2>3, <2>4 DEF StatusForExpire
  <2> QED BY <1>1, <1>2, <2>1, <2>2, <2>5
<1>4. Modified(r, m, t) =
        [s EXCEPT !.tags    = IF m.tags = {} THEN @ ELSE m.tags,
                  !.timeout = IF m.timeout = 0 THEN @ ELSE m.timeout,
                  !.hold    = IF m.hold = 0 THEN @ ELSE m.hold,
                  !.plan    = m.plan,
                  !.online  = IF @ = "since" THEN "before" ELSE @]
  BY DEF Modified, a, b
<1> HIDE DEF s
<1>5. /\ Modified(r, m, t).hold = s.hold /\ Modified(r, m, t).plan = m.plan
      /\ Modified(r, m, t).status = s.status
  BY <1>3, <1>4 DEF RowType
<1> QED BY <1>3, <1>5

\* The bulk reset gives no duration and no plan, and activates only who is limited.
LEMMA BulkResetHold ==
  ASSUME NEW r \in RowType
  PROVE  /\ BulkReset(r).hold = r.hold /\ BulkReset(r).plan = NoPlan
         /\ \/ BulkReset(r).status = r.status
            \/ r.status \in {"active", "limited"} /\ BulkReset(r).status = "active"
<1>1. BulkReset(r).hold = r.hold /\ BulkReset(r).plan = NoPlan
  BY DEF BulkReset, RowType
<1>2. BulkReset(r).status = IF r.status \in Gone \cup {"on_hold", "expired", "disabled"}
                            THEN r.status ELSE "active"
  BY DEF BulkReset, RowType
<1>3. r.status \in Statuses
  BY DEF RowType
<1> QED BY <1>1, <1>2, <1>3 DEF Statuses

\* A next plan gives no duration.
LEMMA NextPlanHold == ASSUME NEW r \in RowType PROVE NextPlanApplied(r).hold = r.hold
  BY DEF NextPlanApplied, RowType

\* Rows that change while no session does.
LEMMA RowsHold ==
  ASSUME Holding, TInv, HInv,
         \/ ResetAll \/ DisableAll \/ ActivateAll
         \/ \E u \in Users : Create(u) \/ Record(u) \/ PeriodEnds(u)
  PROVE  HInv'
<1>1. handler' = handler /\ review' = review /\ renew' = renew
  BY DEF ResetAll, DisableAll, ActivateAll, Bulk, Create, Record, PeriodEnds, jobVars
<1>2. \A u \in Users : /\ rows[u] \in RowType
                       /\ Starting(u) => Starting(u)'
  BY <1>1 DEF TInv, RowsOK, Starting
<1>3. ASSUME NEW u \in Users,
             \/ rows'[u] = rows[u]
             \/ /\ rows'[u].hold = rows[u].hold
                /\ rows'[u].plan \in {rows[u].plan, NoPlan}
                /\ \/ rows'[u].status = rows[u].status
                   \/ rows[u].status \notin Gone /\ rows'[u].status = "disabled"
                   \/ rows[u].status \in {"active", "limited"} /\ rows'[u].status = "active"
             \/ rows'[u].status = "deleted" /\ rows'[u].hold = 0
             \/ /\ rows[u].status = "absent" /\ rows'[u].status \in Served
                /\ rows'[u].status = "active" => rows'[u].hold = 0
                /\ "active_next" \in Requests /\ rows'[u].plan # NoPlan => rows'[u].hold = 0
      PROVE  Gentle(u) /\ Suits(u)
  <2>1. rows[u].status \in {"active", "limited"} => Cleared(u)
    BY DEF HInv, HoldsWait, Cleared
  <2>2. Gentle(u)
    BY <1>2, <1>3 DEF Gentle, Gone, Served
  <2>3. Suits(u)
    BY <1>2, <1>3, <2>1 DEF Suits, Cleared, Gone, Served
  <2> QED BY <2>2, <2>3
<1>4. ASSUME ResetAll PROVE HInv'
  <2>1. \A u \in Users : rows'[u] = BulkReset(rows[u])
    BY <1>4 DEF ResetAll, Bulk
  <2>2. \A u \in Users : /\ rows'[u].hold = rows[u].hold /\ rows'[u].plan = NoPlan
                         /\ \/ rows'[u].status = rows[u].status
                            \/ rows[u].status \in {"active", "limited"} /\ rows'[u].status = "active"
    BY <1>2, <2>1, BulkResetHold
  <2> QED BY <1>1, <1>3, <2>2, HoldRows
<1>5. ASSUME DisableAll PROVE HInv'
  <2>1. \A u \in Users : rows'[u] = BulkDisabled(rows[u])
    BY <1>5 DEF DisableAll, Bulk
  <2>2. \A u \in Users : /\ rows'[u].hold = rows[u].hold /\ rows'[u].plan = rows[u].plan
                         /\ \/ rows'[u].status = rows[u].status
                            \/ rows[u].status \notin Gone /\ rows'[u].status = "disabled"
    BY <1>2, <2>1 DEF BulkDisabled, RowType, Served, Gone
  <2> QED BY <1>1, <1>3, <2>2, HoldRows
<1>6. ~ActivateAll
  BY DEF ActivateAll, Bulk, Holding
<1>7. ASSUME NEW u \in Users, Create(u) PROVE HInv'
  <2>1. PICK p \in Profiles : rows' = [rows EXCEPT ![u] = p] /\ rows[u].status = "absent"
    BY <1>7 DEF Create
  <2>2. /\ p \in RowType /\ p.status \in Served
        /\ p.status = "active" => p.hold = 0
        /\ "active_next" \in Requests /\ p.plan # NoPlan => p.hold = 0
    BY RequestAssumption DEF RequestAssumption, Holding
  <2>3. rows'[u] = p /\ \A v \in Users \ {u} : rows'[v] = rows[v]
    BY <2>1 DEF TInv, RowsOK
  <2>4. \A v \in Users : Gentle(v) /\ Suits(v)
    BY <1>3, <2>1, <2>2, <2>3
  <2> QED BY <1>1, <2>4, HoldRows
<1>8. ASSUME NEW u \in Users, Record(u) \/ PeriodEnds(u) PROVE HInv'
  <2>1. \/ rows' = [rows EXCEPT ![u].used = @ + 1, ![u].online = "since"]
        \/ rows' = [rows EXCEPT ![u].due = TRUE]
    BY <1>8 DEF Record, PeriodEnds
  <2>2. /\ rows'[u].hold = rows[u].hold /\ rows'[u].plan = rows[u].plan
        /\ rows'[u].status = rows[u].status
        /\ \A v \in Users \ {u} : rows'[v] = rows[v]
    BY <1>2, <2>1 DEF TInv, RowsOK, RowType
  <2>3. \A v \in Users : Gentle(v) /\ Suits(v)
    BY <1>3, <2>2
  <2> QED BY <1>1, <2>3, HoldRows
<1> QED BY <1>4, <1>5, <1>6, <1>7, <1>8

\* A request begins with the row of the database.
LEMMA LoadHold ==
  ASSUME TInv, HInv, NEW h \in Handlers, NEW u \in Users, NEW kind, Load(h, u, kind)
  PROVE  HInv'
<1>1. /\ rows' = rows /\ review' = review /\ renew' = renew
      /\ handler' = [handler EXCEPT ![h] = [kind |-> kind, user |-> u, row |-> rows[u]]]
      /\ kind \in Requests /\ rows[u].status \notin Gone
  BY DEF Load, jobVars, Exists
<1>2. \A v \in Users : Gentle(v) /\ Suits(v) /\ (Cleared(v)' <=> Cleared(v))
  BY <1>1 DEF Gentle, Suits, Starting, Cleared
<1>3. HoldsWait' /\ PlansAreFree' /\ \A v \in Users : Cleared(v) => Cleared(v)'
  BY <1>2, HoldStep
<1>4. JobsSpare'
  BY <1>1, <1>2, <1>3, HoldJobs
<1>5. RequestsSpare'
  <2>1. ASSUME NEW g \in Handlers, handler'[g].kind # "idle"
        PROVE  /\ handler'[g].kind \in Requests
               /\ handler'[g].row.status \notin {"on_hold", "disabled"}
                     => Cleared(handler[g].user)'
               /\ "active_next" \in Requests /\ handler'[g].row.plan # NoPlan
                     => Cleared(handler[g].user)'
    <3>1. CASE g = h
      <4>1. handler'[h] = [kind |-> kind, user |-> u, row |-> rows[u]]
        BY <1>1 DEF TInv, HandlersOK
      <4>2. handler'[h].kind = kind /\ handler'[h].user = u /\ handler'[h].row = rows[u]
        BY <4>1
      <4>3. Cleared(handler[h].user)' <=> Cleared(u)'
        BY <4>2 DEF Cleared, Starting
      <4>4. rows[u].status \notin {"on_hold", "disabled"} => Cleared(u)
        BY <1>1 DEF HInv, HoldsWait, Cleared, Gone
      <4>5. "active_next" \in Requests /\ rows[u].plan # NoPlan => Cleared(u)
        BY DEF HInv, PlansAreFree
      <4> QED BY <1>1, <1>2, <3>1, <4>2, <4>3, <4>4, <4>5
    <3>2. CASE g # h
      <4>1. handler'[g] = handler[g]
        BY <1>1, <3>2 DEF TInv, HandlersOK
      <4>2. PICK v \in Users : v = handler[g].user
        BY <2>1, <4>1 DEF TInv, HandlersOK
      <4>3. Cleared(handler[g].user)' <=> Cleared(v)'
        BY <4>1, <4>2 DEF Cleared, Starting
      <4>4. Cleared(v) <=> Cleared(handler[g].user)
        BY <4>2
      <4> QED BY <1>2, <2>1, <4>1, <4>3, <4>4 DEF HInv, RequestsSpare
    <3> QED BY <3>1, <3>2
  <2> QED BY <2>1 DEF RequestsSpare
<1> QED BY <1>3, <1>4, <1>5 DEF HInv

\* A request ends with its commit.
LEMMA RequestsHold ==
  ASSUME Holding, TInv, HInv, NEW h \in Handlers, RequestStep(h)
  PROVE  HInv'
<1>1. /\ handler[h].kind # "idle" /\ handler' = [handler EXCEPT ![h] = HandlerIdle]
      /\ review' = review /\ renew' = renew
  BY DEF RequestStep, Modify, Delete, RemoveExpired, Reset, Revoke, ActiveNext, jobVars
<1>2. PICK u \in Users : u = handler[h].user
  BY <1>1 DEF TInv, HandlersOK
<1> DEFINE r == handler[h].row
<1>3. /\ r \in RowType /\ handler[h].kind \in Requests
      /\ r.status \notin {"on_hold", "disabled"} => Cleared(u)
      /\ "active_next" \in Requests /\ r.plan # NoPlan => Cleared(u)
  BY <1>1, <1>2 DEF TInv, HandlersOK, HandlerType, HInv, RequestsSpare
<1>4. \A v \in Users : Starting(v) => Starting(v)'
  BY <1>1 DEF Starting
<1> HIDE DEF r
<1>5. ASSUME NEW w, Tame(r, w), w.hold = r.hold, w.status = r.status \/ w.status \notin Gone,
             \/ rows' = [rows EXCEPT ![u] = Flush(rows[u], r, w)] /\ Exists(u)
             \/ rows' = rows,
             \/ Cleared(u)
             \/ /\ w.status \in {r.status, "disabled"}
                /\ "active_next" \in Requests => w.plan = NoPlan
      PROVE  HInv'
  <2>1. CASE rows' = rows
    <3>1. \A v \in Users : Gentle(v) /\ Suits(v)
      BY <1>4, <2>1 DEF Gentle, Suits
    <3> QED BY <1>1, <3>1, HoldRows
  <2>2. CASE rows' = [rows EXCEPT ![u] = Flush(rows[u], r, w)] /\ Exists(u)
    <3> DEFINE s == Flush(rows[u], r, w)
    <3>1. s = Flush(rows[u], r, w) /\ rows' = [rows EXCEPT ![u] = s]
      BY <2>2
    <3> HIDE DEF s
    <3>2. /\ rows'[u] = s /\ s.hold = rows[u].hold /\ s.status \notin Gone
          /\ w.status = r.status => s.status = rows[u].status
          /\ w.status # r.status => s.status = w.status
          /\ s.plan = rows[u].plan \/ s.plan = w.plan
          /\ \A v \in Users \ {u} : rows'[v] = rows[v]
      <4>1. rows[u] \in RowType /\ rows[u].status \notin Gone
        BY <1>2, <2>2 DEF TInv, RowsOK, Exists
      <4>2. /\ s.hold = rows[u].hold
            /\ w.status = r.status => s.status = rows[u].status
            /\ w.status # r.status => s.status = w.status
            /\ s.plan = rows[u].plan \/ s.plan = w.plan
        BY <1>5, <3>1, <4>1, FlushHold
      <4> QED BY <1>2, <1>5, <3>1, <4>1, <4>2 DEF TInv, RowsOK
    <3>3. \A v \in Users : Gentle(v)
      BY <1>4, <3>2 DEF Gentle, Gone
    <3>4. Cleared(u) => Cleared(u)'
      BY <1>4, <3>2 DEF Cleared, Gone
    <3>5. Suits(u)
      BY <1>5, <3>2, <3>4 DEF Suits
    <3>6. \A v \in Users : Suits(v)
      BY <3>2, <3>5 DEF Suits
    <3> QED BY <1>1, <3>3, <3>6, HoldRows
  <2> QED BY <1>5, <2>1, <2>2
<1>6. ASSUME Modify(h) PROVE HInv'
  <2> DEFINE Sync(s) == IF s.status \in Served THEN UpdateUser(handler[h].user, s)
                        ELSE RemoveUser(handler[h].user)
  <2>1. PICK m \in Edits : Commit(h, Modified(handler[h].row, m, now), Sync)
    BY <1>6 DEF Modify
  <2> DEFINE w == Modified(r, m, now)
  <2>2. /\ m \in EditType /\ m.status \in {"keep", "disabled"} /\ m.limit = Keep /\ m.hold = 0
        /\ "active_next" \in Requests => m.plan = NoPlan
    BY RequestAssumption DEF RequestAssumption, Holding
  <2>3. Tame(r, w)
    <3>1. Tame(r, WithStatus(r, m.status))
      BY <1>3, <2>2, StatusTame DEF EditType
    <3> QED BY <1>3, <2>2, <3>1, ModifiedTame DEF EditType
  <2>4. /\ w.hold = r.hold /\ w.plan = m.plan
        /\ \/ w.status \in {r.status, "disabled"}
           \/ w.status \in {"active", "expired"} /\ r.status \in {"active", "expired"}
    BY <1>3, <2>2, ModifiedHold
  <2>5. \/ rows' = [rows EXCEPT ![u] = Flush(rows[u], r, w)] /\ Exists(u)
        \/ rows' = rows
    BY <1>2, <2>1 DEF Commit, r
  <2> HIDE DEF w
  <2> QED BY <1>3, <1>5, <2>2, <2>3, <2>4, <2>5 DEF Gone
<1>7. ASSUME Delete(h) \/ RemoveExpired(h) PROVE HInv'
  <2>1. rows'[u] = Deleted /\ \A v \in Users \ {u} : rows'[v] = rows[v]
    BY <1>2, <1>7 DEF Delete, RemoveExpired, TInv, RowsOK
  <2>2. rows'[u].status = "deleted" /\ rows'[u].hold = 0
    BY <2>1 DEF Deleted, Absent
  <2>3. \A v \in Users : Gentle(v) /\ Suits(v)
    BY <1>4, <2>1, <2>2 DEF Gentle, Suits, Cleared
  <2> QED BY <1>1, <2>3, HoldRows
<1>8. ASSUME ActiveNext(h) PROVE HInv'
  <2> DEFINE w == NextPlanApplied(r)
  <2>1. CASE rows' = rows
    <3>1. \A v \in Users : Gentle(v) /\ Suits(v)
      BY <1>4, <2>1 DEF Gentle, Suits
    <3> QED BY <1>1, <3>1, HoldRows
  <2>2. CASE rows' # rows
    <3> DEFINE Nothing(s) == {}
    <3>1. /\ "active_next" \in Requests /\ r.plan # NoPlan
          /\ Commit(h, NextPlanApplied(handler[h].row), Nothing)
      BY <1>3, <1>8, <2>2 DEF ActiveNext, r
    <3>2. Tame(r, w) /\ w.status = "active"
      BY <1>3, <3>1, NextPlanTame, NextPlanActive
    <3>3. w.hold = r.hold
      BY <1>3, NextPlanHold
    <3>4. rows' = [rows EXCEPT ![u] = Flush(rows[u], r, w)] /\ Exists(u)
      BY <1>2, <2>2, <3>1 DEF Commit, r
    <3> HIDE DEF w
    <3> QED BY <1>3, <1>5, <3>1, <3>2, <3>3, <3>4 DEF Gone
  <2> QED BY <2>1, <2>2
<1>9. ~Reset(h) /\ ~Revoke(h)
  BY <1>3 DEF Reset, Revoke, Holding
<1> QED BY <1>6, <1>7, <1>8, <1>9 DEF RequestStep

\* A job writes over the row of a user who is cleared, or becomes so with this step.
LEMMA JobWrites ==
  ASSUME TInv, HInv, NEW u \in Users, NEW r \in RowType, NEW w,
         \/ rows' = rows
         \/ Exists(u) /\ rows' = [rows EXCEPT ![u] = Flush(rows[u], r, w)],
         w.hold = r.hold, w.status = r.status \/ w.status \notin Gone,
         Cleared(u) \/ (Starting(u)' /\ Exists(u)),
         \A v \in Users : Starting(v) => Starting(v)',
         handler' = handler
  PROVE  /\ HoldsWait' /\ PlansAreFree' /\ RequestsSpare'
         /\ \A v \in Users : Cleared(v) => Cleared(v)'
         /\ \A v \in Users : Gentle(v)
         /\ Cleared(u)'
<1>1. /\ rows'[u].hold = rows[u].hold
      /\ rows'[u] = rows[u] \/ (rows'[u].status \notin Gone /\ Exists(u))
      /\ \A v \in Users \ {u} : rows'[v] = rows[v]
  <2>1. CASE rows' = rows
    BY <2>1
  <2>2. CASE Exists(u) /\ rows' = [rows EXCEPT ![u] = Flush(rows[u], r, w)]
    <3> DEFINE s == Flush(rows[u], r, w)
    <3>1. rows[u] \in RowType /\ rows[u].status \notin Gone
      BY <2>2 DEF TInv, RowsOK, Exists
    <3>2. /\ s.hold = rows[u].hold
          /\ w.status = r.status => s.status = rows[u].status
          /\ w.status # r.status => s.status = w.status
      BY <3>1, FlushHold
    <3>3. s.status \notin Gone
      <4> HIDE DEF s
      <4> QED BY <3>1, <3>2
    <3>4. rows' = [rows EXCEPT ![u] = s]
      BY <2>2
    <3> HIDE DEF s
    <3> QED BY <2>2, <3>2, <3>3, <3>4 DEF TInv, RowsOK
  <2> QED BY <2>1, <2>2
<1>2. \A v \in Users : Gentle(v)
  BY <1>1 DEF Gentle, Exists, Gone
<1>3. Cleared(u)'
  BY <1>1 DEF Cleared, Exists, Gone
<1>4. \A v \in Users : Suits(v)
  BY <1>1, <1>3 DEF Suits
<1>5. HoldsWait' /\ PlansAreFree' /\ \A v \in Users : Cleared(v) => Cleared(v)'
  BY <1>2, <1>4, HoldStep
<1>6. RequestsSpare'
  BY <1>5, HoldRequests
<1> QED BY <1>2, <1>3, <1>5, <1>6

\* A step of a job that leaves the rows alone.
LEMMA JobLooks ==
  ASSUME TInv, HInv, rows' = rows, handler' = handler, \A v \in Users : Starting(v) => Starting(v)'
  PROVE  /\ HoldsWait' /\ PlansAreFree' /\ RequestsSpare'
         /\ \A v \in Users : Cleared(v) => Cleared(v)'
<1>1. \A v \in Users : Gentle(v) /\ Suits(v)
  BY DEF Gentle, Suits
<1>2. HoldsWait' /\ PlansAreFree' /\ \A v \in Users : Cleared(v) => Cleared(v)'
  BY <1>1, HoldStep
<1> QED BY <1>2, HoldRequests

\* What a job loads when nobody is between two commits: who is active or limited has no
\* duration waiting, unless the job is about to clear it.
LEMMA LoadingHold ==
  ASSUME TInv, HInv, NEW u \in Users, rows[u].status \in {"active", "limited"}
  PROVE  Cleared(u)
  BY DEF HInv, HoldsWait, Cleared

\* The first half of the review job, which is about cleared users only.
LEMMA ReviewActiveHold ==
  ASSUME Holding, TInv, HInv, \/ \E u \in Users : ReviewActive(u)
                              \/ ReviewVerdict
  PROVE  HInv'
<1>1. /\ review.pc \in {"active", "limited", "expired"} /\ handler' = handler /\ renew' = renew
      /\ review \in ReviewType /\ review.todo \subseteq Users /\ review.loaded \in Loads
      /\ renew.todo \subseteq Users
  BY DEF ReviewActive, ReviewVerdict, TInv, ReviewOK, ReviewType, RenewOK, RenewType
<1>2. /\ \A v \in Users : Starting(v) => Starting(v)'
      /\ \A v \in review.todo : Cleared(v)
  BY <1>1 DEF Starting, HInv, JobsSpare
<1>3. ASSUME NEW u \in Users, \A v \in Users : Cleared(v) => Cleared(v)', Cleared(u)',
             HoldsWait', PlansAreFree', RequestsSpare',
             \/ review' = ReviewIdle
             \/ /\ review'.pc \in {"active", "limited", "expired"}
                /\ review'.pc = "active" \/ review'.user = u
                /\ review'.todo \subseteq review.todo
      PROVE  HInv'
  <2>1. /\ review'.pc \in {"idle", "active", "limited", "expired"}
        /\ review'.pc # "idle" => review'.todo \subseteq review.todo
        /\ review'.pc \in {"limited", "expired"} => review'.user = u
    BY <1>3, IdleTyped
  <2>2. review'.pc \in {"limited", "expired"} => Cleared(review.user)'
    <3>1. ASSUME review'.user = u PROVE Cleared(review.user)' <=> Cleared(u)'
      BY <3>1 DEF Cleared, Starting
    <3> QED BY <1>3, <2>1, <3>1
  <2>3. review'.pc # "idle" => \A v \in review'.todo : Cleared(v)'
    BY <1>1, <1>2, <1>3, <2>1
  <2>4. \A v \in renew'.todo : Cleared(v)'
    <3>1. \A v \in renew.todo : Cleared(v)
      BY DEF HInv, JobsSpare
    <3> QED BY <1>1, <1>3, <3>1
  <2>5. JobsSpare'
    BY <2>1, <2>2, <2>3, <2>4 DEF JobsSpare
  <2> QED BY <1>3, <2>5 DEF HInv
<1>4. ASSUME NEW u \in Users, ReviewActive(u) PROVE HInv'
  <2> DEFINE r == Seen(review, u)
             rest == [review EXCEPT !.todo = @ \ {u}]
             verdict == Verdict(r, review.at)
             w == NextPlanApplied(r)
             l == [v \in {u} \cup DOMAIN rest.loaded |-> Seen(review, v)]
             next == [rest EXCEPT !.loaded = << >>]
             cut == [rest EXCEPT !.pc = verdict, !.user = u, !.loaded = l]
  <2>1. review.pc = "active" /\ Cleared(u) /\ r \in RowType
    BY <1>1, <1>2, <1>4, SeenTyped DEF ReviewActive, TInv
  <2>2. w.hold = r.hold /\ w.status = "active" /\ w.status \notin Gone
    <3> HIDE DEF r
    <3>1. w.hold = r.hold /\ w.status = "active"
      BY <2>1, NextPlanHold, NextPlanActive
    <3> QED BY <3>1 DEF Gone
  <2>3. /\ \/ rows' = rows
           \/ Exists(u) /\ rows' = [rows EXCEPT ![u] = Flush(rows[u], r, w)]
        /\ \/ review' \in {ReviewIdle, rest, next}
           \/ verdict \in {"limited", "expired"} /\ review' = cut
    BY <1>4 DEF ReviewActive
  <2>4. /\ rest.pc = "active" /\ rest.todo \subseteq review.todo /\ rest \in ReviewType
    BY <1>1, <2>1 DEF ReviewType
  <2> HIDE DEF r, w, rest, verdict, l
  <2>5. /\ next.pc = "active" /\ next.todo = rest.todo
        /\ cut.pc = verdict /\ cut.user = u /\ cut.todo = rest.todo
    BY <2>4 DEF ReviewType
  <2> HIDE DEF next, cut
  <2>6. /\ HoldsWait' /\ PlansAreFree' /\ RequestsSpare' /\ Cleared(u)'
        /\ \A v \in Users : Cleared(v) => Cleared(v)'
    BY <1>1, <1>2, <2>1, <2>2, <2>3, JobWrites
  <2>7. \/ review' = ReviewIdle
        \/ /\ review'.pc \in {"active", "limited", "expired"}
           /\ review'.pc = "active" \/ review'.user = u
           /\ review'.todo \subseteq review.todo
    BY <2>3, <2>4, <2>5
  <2> QED BY <1>3, <2>6, <2>7
<1>5. ASSUME ReviewVerdict PROVE HInv'
  <2>1. PICK u \in Users : u = review.user /\ u \in DOMAIN review.loaded
    BY <1>1, <1>5, LoadsTyped DEF ReviewVerdict, TInv, ReviewOK
  <2> DEFINE r == review.loaded[u]
             w == [r EXCEPT !.status = review.pc]
             next == [review EXCEPT !.pc = "active", !.user = NoUser, !.loaded = << >>]
  <2>2. Cleared(u) /\ r \in RowType
    BY <1>1, <1>5, <2>1, LoadsTyped DEF ReviewVerdict, HInv, JobsSpare
  <2>3. w.hold = r.hold /\ w.status \notin Gone
    BY <1>5, <2>2 DEF ReviewVerdict, RowType, Gone
  <2>4. /\ \/ rows' = rows
           \/ Exists(u) /\ rows' = [rows EXCEPT ![u] = Flush(rows[u], r, w)]
        /\ review' \in {ReviewIdle, next}
    BY <1>5, <2>1 DEF ReviewVerdict
  <2>5. next.pc = "active" /\ next.todo = review.todo
    BY <1>1 DEF ReviewType
  <2> HIDE DEF r, w, next
  <2>6. /\ HoldsWait' /\ PlansAreFree' /\ RequestsSpare' /\ Cleared(u)'
        /\ \A v \in Users : Cleared(v) => Cleared(v)'
    BY <1>1, <1>2, <2>2, <2>3, <2>4, JobWrites
  <2>7. \/ review' = ReviewIdle
        \/ /\ review'.pc \in {"active", "limited", "expired"}
           /\ review'.pc = "active" \/ review'.user = u
           /\ review'.todo \subseteq review.todo
    BY <2>4, <2>5
  <2> QED BY <1>3, <2>6, <2>7
<1> QED BY <1>4, <1>5

\* The jobs begin, turn and end.
LEMMA JobsTurnHold ==
  ASSUME TInv, HInv, ReviewBegin \/ ReviewTurn \/ ReviewEnd \/ RenewBegin \/ RenewEnd
  PROVE  HInv'
<1>1. /\ rows' = rows /\ handler' = handler
      /\ review' = review \/ review.pc # "start"
      /\ review.todo \subseteq Users /\ renew.todo \subseteq Users /\ review \in ReviewType
  BY DEF ReviewBegin, ReviewTurn, ReviewEnd, RenewBegin, RenewEnd, coreVars, TInv, ReviewOK,
         ReviewType, RenewOK, RenewType
<1>2. \A v \in Users : Starting(v) => Starting(v)'
  BY <1>1 DEF Starting
<1>3. /\ HoldsWait' /\ PlansAreFree' /\ RequestsSpare'
      /\ \A v \in Users : Cleared(v) => Cleared(v)'
  BY <1>1, <1>2, JobLooks
<1>4. \A v \in renew.todo : Cleared(v)'
  BY <1>1, <1>3 DEF HInv, JobsSpare
<1>5. ASSUME NEW status, status \subseteq {"active", "limited"}
      PROVE  \A v \in {u \in Users : rows[u].status \in status} : Cleared(v)'
  BY <1>3, <1>5, LoadingHold
<1>6. ASSUME ReviewBegin PROVE JobsSpare'
  <2> DEFINE T == {u \in Users : rows[u].status \in {"active"}}
             l == [u \in T |-> rows[u]]
             job == [ReviewIdle EXCEPT !.pc = "active", !.at = now]
  <2>1. job \in ReviewType /\ job.pc = "active"
    BY IdleTyped DEF ReviewType, TInv
  <2>2. review' = [job EXCEPT !.todo = T, !.loaded = l] /\ renew' = renew
    BY <1>6 DEF ReviewBegin, Loading
  <2>3. \A v \in T : Cleared(v)'
    BY <1>5
  <2> HIDE DEF T, l, job
  <2>4. review'.pc = "active" /\ review'.todo = T
    BY <2>1, <2>2 DEF ReviewType
  <2> QED BY <1>4, <2>2, <2>3, <2>4 DEF JobsSpare
<1>7. ASSUME ReviewTurn \/ ReviewEnd PROVE JobsSpare'
  <2>1. CASE ReviewEnd
    <3>1. review'.pc = "idle" /\ renew' = renew
      BY <2>1, IdleTyped DEF ReviewEnd
    <3> QED BY <1>4, <3>1 DEF JobsSpare
  <2>2. CASE ReviewTurn
    <3> DEFINE T == {u \in Users : rows[u].status \in {"on_hold"}}
               l == [u \in T |-> rows[u]]
               job == [review EXCEPT !.pc = "hold"]
    <3>1. job \in ReviewType /\ job.pc = "hold"
      BY <1>1 DEF ReviewType
    <3>2. review' = [job EXCEPT !.todo = T, !.loaded = l] /\ renew' = renew
      BY <2>2 DEF ReviewTurn, Loading
    <3> HIDE DEF T, l, job
    <3>3. review'.pc = "hold"
      BY <3>1, <3>2 DEF ReviewType
    <3> QED BY <1>4, <3>2, <3>3 DEF JobsSpare
  <2> QED BY <1>7, <2>1, <2>2
<1>8. ASSUME review' = review, \A v \in renew'.todo : Cleared(v)' PROVE JobsSpare'
  <2>1. \A u \in Users : Gentle(u)
    BY <1>1, <1>8 DEF Gentle, Starting
  <2>2. \A v \in review.todo : review.pc \in {"active", "limited", "expired"} => Cleared(v)'
    BY <1>1, <1>3 DEF HInv, JobsSpare
  <2>3. review.pc \in {"limited", "expired"} => Cleared(review.user)'
    <3> SUFFICES ASSUME review.pc \in {"limited", "expired"} PROVE Cleared(review.user)'
      OBVIOUS
    <3>1. Cleared(review.user)
      BY DEF HInv, JobsSpare
    <3> QED BY <1>1, <1>8, <3>1 DEF Cleared, Starting
  <2>4. review.pc = "start" =>
          /\ rows'[review.user].status # "absent"
          /\ review.loaded[review.user].hold = 0 => rows'[review.user].hold = 0
    BY <1>1 DEF HInv, JobsSpare
  <2> QED BY <1>8, <2>2, <2>3, <2>4 DEF JobsSpare
<1>9. ASSUME RenewBegin PROVE JobsSpare'
  <2> DEFINE T == {u \in Users : rows[u].status \in {"active", "limited"}}
             l == [u \in T |-> rows[u]]
             job == [RenewIdle EXCEPT !.pc = "reset"]
  <2>1. job \in RenewType
    BY IdleTyped DEF RenewType
  <2>2. renew' = [job EXCEPT !.todo = T, !.loaded = l] /\ review' = review
    BY <1>9 DEF RenewBegin, Loading
  <2>3. \A v \in T : Cleared(v)'
    BY <1>5
  <2> HIDE DEF T, l, job
  <2>4. renew'.todo = T
    BY <2>1, <2>2 DEF RenewType
  <2> QED BY <1>8, <2>2, <2>3, <2>4
<1>10. ASSUME RenewEnd PROVE JobsSpare'
  <2>1. renew'.todo = {} /\ review' = review
    BY <1>10 DEF RenewEnd, RenewIdle
  <2> QED BY <1>8, <2>1
<1> QED BY <1>3, <1>6, <1>7, <1>9, <1>10 DEF HInv

\* The two commits that end a hold.
LEMMA ReviewHoldHold ==
  ASSUME TInv, HInv, ReviewStart \/ \E u \in Users : ReviewHold(u)
  PROVE  HInv'
<1>1. /\ review.pc \in {"hold", "start"} /\ handler' = handler /\ renew' = renew
      /\ review \in ReviewType /\ review.todo \subseteq Users /\ review.loaded \in Loads
      /\ renew.todo \subseteq Users
  BY DEF ReviewStart, ReviewHold, TInv, ReviewOK, ReviewType, RenewOK, RenewType
<1>2. ASSUME HoldsWait', PlansAreFree', RequestsSpare',
             \A v \in Users : Cleared(v) => Cleared(v)',
             review'.pc \in {"idle", "hold"} \/
                (/\ review'.pc = "start" /\ rows'[review'.user].status # "absent"
                 /\ review'.loaded[review'.user].hold = 0 => rows'[review'.user].hold = 0)
      PROVE  HInv'
  <2>1. \A v \in renew.todo : Cleared(v)'
    BY <1>1, <1>2 DEF HInv, JobsSpare
  <2>2. JobsSpare'
    BY <1>1, <1>2, <2>1 DEF JobsSpare
  <2> QED BY <1>2, <2>2 DEF HInv
<1>3. ASSUME NEW u \in Users, ReviewHold(u) PROVE HInv'
  <2> DEFINE r == Seen(review, u)
             rest == [review EXCEPT !.todo = @ \ {u}]
             w == [r EXCEPT !.status = "active"]
             s == Flush(rows[u], r, w)
             l == [v \in {u} |-> s]
             next == [rest EXCEPT !.pc = "start", !.user = u, !.loaded = l]
  <2>1. review.pc = "hold" /\ \A v \in Users : ~Starting(v)
    BY <1>3 DEF ReviewHold, Starting
  <2>2. r \in RowType
    BY <1>1, SeenTyped DEF TInv
  <2> HIDE DEF r
  <2>3. w.hold = r.hold /\ w.status \notin Gone
    BY <2>2 DEF RowType, Gone
  <2>4. rest.pc = "hold" /\ rest \in ReviewType
    BY <1>1, <2>1 DEF ReviewType
  <2>5. \/ rows' = rows /\ review' \in {rest, ReviewIdle}
        \/ Exists(u) /\ rows' = [rows EXCEPT ![u] = s] /\ review' = next
    BY <1>3 DEF ReviewHold, r, Exists
  <2>6. l[u] = s
    OBVIOUS
  <2> HIDE DEF l, rest
  <2>7. next.pc = "start" /\ next.user = u /\ next.loaded = l
    BY <2>4 DEF ReviewType
  <2> HIDE DEF next, w
  <2>8. CASE rows' = rows /\ review' \in {rest, ReviewIdle}
    <3>1. /\ HoldsWait' /\ PlansAreFree' /\ RequestsSpare'
          /\ \A v \in Users : Cleared(v) => Cleared(v)'
      BY <1>1, <2>1, <2>8, JobLooks
    <3>2. review'.pc \in {"idle", "hold"}
      BY <2>4, <2>8, IdleTyped
    <3> QED BY <1>2, <3>1, <3>2
  <2>9. CASE Exists(u) /\ rows' = [rows EXCEPT ![u] = s] /\ review' = next
    <3>1. Starting(u)'
      BY <2>7, <2>9 DEF Starting
    <3>2. /\ HoldsWait' /\ PlansAreFree' /\ RequestsSpare' /\ Cleared(u)'
          /\ \A v \in Users : Cleared(v) => Cleared(v)'
      BY <1>1, <2>1, <2>2, <2>3, <2>9, <3>1, JobWrites
    <3>3. rows'[u] = s /\ rows'[u].status # "absent"
      BY <2>9, <3>2 DEF TInv, RowsOK, Cleared
    <3> HIDE DEF s
    <3>4. /\ review'.pc = "start" /\ rows'[review'.user].status # "absent"
          /\ review'.loaded[review'.user].hold = 0 => rows'[review'.user].hold = 0
      BY <2>6, <2>7, <2>9, <3>3
    <3> QED BY <1>2, <3>2, <3>4
  <2> QED BY <2>5, <2>8, <2>9
<1>4. ASSUME ReviewStart PROVE HInv'
  <2>1. PICK u \in Users : u = review.user /\ u \in DOMAIN review.loaded
    BY <1>1, <1>4, LoadsTyped DEF ReviewStart, TInv, ReviewOK
  <2> DEFINE r == review.loaded[u]
             w == Started(r, now)
             s == Flush(rows[u], r, w)
             next == [review EXCEPT !.pc = "hold", !.user = NoUser, !.loaded = << >>]
  <2>2. /\ r \in RowType /\ rows[u].status # "absent" /\ rows[u] \in RowType
        /\ r.hold = 0 => rows[u].hold = 0
    BY <1>1, <1>4, <2>1, LoadsTyped DEF ReviewStart, HInv, JobsSpare, TInv, RowsOK
  <2>3. w.hold = 0 /\ w.status = r.status
    BY <2>2 DEF Started, RowType
  <2>4. \/ rows' = rows /\ review' = ReviewIdle /\ (r.hold = 0 \/ ~Exists(u))
        \/ /\ Exists(u) /\ r.hold # 0 /\ rows' = [rows EXCEPT ![u] = s]
           /\ review' = next \/ review' = ReviewIdle
    BY <1>4, <2>1, <2>2 DEF ReviewStart, TInv, RowsOK
  <2>5. next.pc = "hold"
    BY <1>1 DEF ReviewType
  <2> HIDE DEF r, w, next
  <2>6. r.hold # 0 => s.hold = 0 /\ s.status = rows[u].status
    BY <2>2, <2>3, FlushHold
  <2> HIDE DEF s
  <2>7. /\ rows'[u].hold = 0 /\ rows'[u].status = rows[u].status
        /\ \A v \in Users \ {u} : rows'[v] = rows[v]
    <3>1. ~Exists(u) => rows[u].hold = 0
      BY DEF Exists, HInv, HoldsWait
    <3> QED BY <2>2, <2>4, <2>6, <3>1 DEF TInv, RowsOK
  <2>8. \A v \in Users : Gentle(v) /\ Suits(v)
    <3>1. Cleared(u)'
      BY <2>2, <2>7 DEF Cleared
    <3>2. \A v \in Users \ {u} : ~Starting(v)
      BY <2>1 DEF Starting
    <3> QED BY <2>7, <3>1, <3>2 DEF Gentle, Suits
  <2>9. /\ HoldsWait' /\ PlansAreFree'
        /\ \A v \in Users : Cleared(v) => Cleared(v)'
    BY <2>8, HoldStep
  <2>10. RequestsSpare'
    BY <1>1, <2>9, HoldRequests
  <2>11. review'.pc \in {"idle", "hold"}
    BY <2>4, <2>5, IdleTyped
  <2> QED BY <1>2, <2>9, <2>10, <2>11
<1> QED BY <1>3, <1>4

\* The job that resets usage.
LEMMA RenewUserHold ==
  ASSUME TInv, HInv, NEW u \in Users, RenewUser(u)
  PROVE  HInv'
<1> DEFINE r == Seen(renew, u)
           w == UsageReset(r)
           rest == [renew EXCEPT !.todo = @ \ {u}]
           next == [rest EXCEPT !.loaded = << >>]
<1>1. /\ u \in renew.todo /\ handler' = handler /\ review' = review
      /\ renew \in RenewType /\ renew.loaded \in Loads
      /\ renew.todo \subseteq Users
  BY DEF RenewUser, TInv, RenewOK, RenewType
<1>2. r \in RowType /\ Cleared(u)
  BY <1>1, SeenTyped DEF TInv, HInv, JobsSpare
<1>3. /\ \/ rows' = rows
         \/ Exists(u) /\ rows' = [rows EXCEPT ![u] = Flush(rows[u], r, w)]
      /\ renew' \in {RenewIdle, rest, next}
  BY DEF RenewUser
<1>4. rest.todo \subseteq renew.todo /\ rest \in RenewType
  BY <1>1 DEF RenewType
<1> HIDE DEF r, rest
<1>5. w.hold = r.hold /\ (w.status = r.status \/ w.status \notin Gone)
  BY <1>2 DEF UsageReset, RowType, Gone
<1>6. next.todo = rest.todo
  BY <1>4 DEF RenewType
<1>7. renew'.todo \subseteq renew.todo
  <2>1. RenewIdle.todo = {}
    BY DEF RenewIdle
  <2> HIDE DEF next
  <2> QED BY <1>3, <1>4, <1>6, <2>1
<1>8. \A v \in Users : Starting(v) => Starting(v)'
  BY <1>1 DEF Starting
<1> HIDE DEF w
<1>9. /\ HoldsWait' /\ PlansAreFree' /\ RequestsSpare'
      /\ \A v \in Users : Cleared(v) => Cleared(v)'
      /\ \A v \in Users : Gentle(v)
  BY <1>1, <1>2, <1>3, <1>5, <1>8, JobWrites
<1>10. JobsSpare'
  <2>1. /\ review.todo \subseteq Users
        /\ review.pc \in {"limited", "expired", "start"} => review.user \in Users
    BY LoadsTyped DEF TInv, ReviewOK, ReviewType
  <2>2. \A v \in renew'.todo : Cleared(v)'
    BY <1>1, <1>7, <1>9 DEF HInv, JobsSpare
  <2>3. review.pc \in {"active", "limited", "expired"} => \A v \in review.todo : Cleared(v)'
    BY <1>9, <2>1 DEF HInv, JobsSpare
  <2>4. ASSUME review.pc \in {"limited", "expired"} PROVE Cleared(review.user)'
    <3>1. PICK v \in Users : v = review.user
      BY <2>1, <2>4
    <3>2. Cleared(v)'
      BY <1>9, <2>4, <3>1 DEF HInv, JobsSpare
    <3> QED BY <1>1, <3>1, <3>2 DEF Cleared, Starting
  <2>5. ASSUME review.pc = "start"
        PROVE  /\ rows'[review.user].status # "absent"
               /\ review.loaded[review.user].hold = 0 => rows'[review.user].hold = 0
    BY <1>9, <2>1, <2>5 DEF HInv, JobsSpare, Gentle
  <2> QED BY <1>1, <2>2, <2>3, <2>4, <2>5 DEF JobsSpare
<1> QED BY <1>9, <1>10 DEF HInv

\* The hold invariant holds at first ...
LEMMA HInvInit == Init => HInv
<1> SUFFICES ASSUME Init PROVE HInv
  OBVIOUS
<1>1. \A u \in Users : rows[u].hold = 0 /\ rows[u].plan = NoPlan
  BY DEF Init, Absent
<1>2. review.pc = "idle" /\ renew.todo = {} /\ \A h \in Handlers : handler[h].kind = "idle"
  BY DEF Init, ReviewIdle, RenewIdle, HandlerIdle
<1> QED BY <1>1, <1>2 DEF HInv, HoldsWait, PlansAreFree, RequestsSpare, JobsSpare

\* ... and every step of such an instance keeps it.
LEMMA HInvNext == Holding /\ TInv /\ HInv /\ [Next]_vars => HInv'
<1> SUFFICES ASSUME Holding, TInv, HInv, [Next]_vars PROVE HInv'
  OBVIOUS
<1>1. ASSUME UNCHANGED <<rows, handler, review, renew>> PROVE HInv'
  <2>1. \A u \in Users : Gentle(u) /\ Suits(u)
    BY <1>1 DEF Gentle, Suits, Starting
  <2> QED BY <1>1, <2>1, HoldRows
<1>2. ASSUME CoreStep PROVE HInv'
  BY <1>1, <1>2 DEF CoreStep, Deliver, RestartBegin, RestartEnd, HealthCheck, jobVars
<1>3. ASSUME NEW u \in Users, UserRequest(u) \/ Record(u) \/ PeriodEnds(u) PROVE HInv'
  BY <1>3, RowsHold, LoadHold DEF UserRequest
<1>4. ASSUME NEW h \in Handlers, RequestStep(h) PROVE HInv'
  BY <1>4, RequestsHold
<1>5. ASSUME ResetAll \/ DisableAll \/ ActivateAll PROVE HInv'
  BY <1>5, RowsHold
<1>6. ASSUME RestartCores \/ Elapse \/ (\E c \in Cores : CoreCrash(c)) \/ UNCHANGED vars
      PROVE  HInv'
  BY <1>1, <1>6 DEF RestartCores, Elapse, CoreCrash, vars, jobVars
<1>7. ASSUME ReviewStep PROVE HInv'
  BY <1>7, ReviewActiveHold, ReviewHoldHold, JobsTurnHold DEF ReviewStep
<1>8. ASSUME RenewStep PROVE HInv'
  BY <1>8, RenewUserHold, JobsTurnHold DEF RenewStep
<1>9. ~PanelRestart
  BY DEF PanelRestart, Holding
<1> QED BY <1>2, <1>3, <1>4, <1>5, <1>6, <1>7, <1>8, <1>9 DEF Next

\* Where no request makes users on hold active, whatever the jobs, the deletions, the
\* bulk routes and the other requests do in between: an active user whose duration still
\* waits to be applied is one that the review job is busy with (update_user_status and
\* start_user_expire, two commits of app/jobs/review_users.py).
THEOREM UserHoldIsStarted == ASSUME Holding PROVE Spec => []HoldIsStarted
<1>1. TInv /\ HInv /\ [Next]_vars => HInv'
  BY HInvNext
<1>2. HInv => HoldIsStarted
  BY DEF HInv, HoldsWait, HoldIsStarted, Starting
<1> QED BY HInvInit, UserInvariant, <1>1, <1>2, PTL DEF Spec

------------------------------------------------------------------------------
(* Disabled users *)

\* The instances of the theorem: no route but PUT /user makes users active, and nobody is
\* on hold or has a next plan, for the job ends both with an "active" that it writes over
\* whatever is in the database by then.  The same would go for a revocation that found a
\* user limited or expired who no longer is, so with revocations limits and expiries stay
\* what they were at first, and usage is not reset; update_user stores a limit of 0 as
\* none.
Switching ==
    /\ Requests \cap {"reset", "activate_all"} = {} /\ Jobs \cap {"renew"} = {}
    /\ \A p \in Profiles : p.status = "active" /\ p.plan = NoPlan
    /\ \A m \in Edits : m.status # "on_hold" /\ m.plan = NoPlan
    /\ "revoke" \in Requests =>
          /\ "reset_all" \notin Requests
          /\ \A p \in Profiles : p.limit # 0
          /\ \A m \in Edits : m.limit = Keep /\ m.expire = Keep

\* A row that is neither on hold nor waiting for a plan, ...
Steady(r) == r.status # "on_hold" /\ r.plan = NoPlan

\* ... and whose verdict still stands.
Apt(r) ==
    "revoke" \in Requests =>
        /\ r.limit # 0
        /\ r.status = "limited" /\ r.limit # NoLimit => OverLimit(r)
        /\ r.status = "expired" /\ r.expire # NoExpire => ExpiredAt(r, now)

\* Row r was loaded when it was what row s is now, but for the usage recorded since.
Fits(r, s) == "revoke" \in Requests => r.limit = s.limit /\ r.expire = s.expire /\ r.used <= s.used

RowsSteady == \A u \in Users : Steady(rows[u]) /\ Apt(rows[u])

RequestsSteady ==
    \A h \in Handlers : handler[h].kind # "idle" =>
        /\ handler[h].kind \in Requests /\ handler[h].row.status \notin Gone
        /\ Steady(handler[h].row) /\ Apt(handler[h].row)
        /\ Exists(handler[h].user) => Fits(handler[h].row, rows[handler[h].user])

\* The job never gets to a user on hold; the verdict it is about to write is the one of
\* the row it holds.
ReviewSteady ==
    /\ renew.pc = "idle" /\ review.pc # "start" /\ review.at <= now
    /\ review.pc = "hold" => review.todo = {}
    /\ \A u \in DOMAIN review.loaded :
          /\ rows[u].status # "absent" /\ Steady(review.loaded[u]) /\ Apt(review.loaded[u])
          /\ Exists(u) => Fits(review.loaded[u], rows[u])
    /\ review.pc = "limited" => OverLimit(review.loaded[review.user])
    /\ review.pc = "expired" => ExpiredAt(review.loaded[review.user], now)

\* The invariant behind DisabledUntilModified.
DInv == RowsSteady /\ RequestsSteady /\ ReviewSteady

\* A disabled user becomes active.
Undone(u) == rows[u].status = "disabled" /\ rows'[u].status = "active"

\* The row of u changes as the invariant wants it.
Kept(u) ==
    /\ rows'[u].status = "absent" => rows[u].status = "absent"
    /\ \/ rows'[u].status \in Gone
       \/ rows[u].status = "absent"
       \/ rows[u].status \notin Gone /\ Fits(rows[u], rows'[u])
    /\ Steady(rows'[u]) /\ Apt(rows[u])'

\* A verdict that stands does so later.
LEMMA AptLater ==
  ASSUME NEW r \in RowType, Apt(r), now \in Nat, now' \in Nat, now <= now'
  PROVE  Apt(r)'
  BY DEF Apt, ExpiredAt, RowType

LEMMA FitsLater ==
  ASSUME TInv, TInv', NEW u \in Users, Kept(u), rows[u].status # "absent", NEW r \in RowType,
         Exists(u) => Fits(r, rows[u])
  PROVE  Exists(u)' => Fits(r, rows'[u])
<1> SUFFICES ASSUME rows'[u].status \notin Gone PROVE Fits(r, rows'[u])
  BY DEF Exists
<1>1. Fits(rows[u], rows'[u]) /\ Fits(r, rows[u])
  BY DEF Kept, Exists
<1>2. r.used \in Int /\ rows[u].used \in Int /\ rows'[u].used \in Int
  BY DEF TInv, RowsOK, RowType
<1> QED BY <1>1, <1>2 DEF Fits

\* Rows and requests after a step in which no request begins.
LEMMA SteadyStep ==
  ASSUME TInv, TInv', DInv, \A u \in Users : Kept(u), now <= now',
         \/ handler' = handler
         \/ \E h \in Handlers : handler' = [handler EXCEPT ![h] = HandlerIdle]
  PROVE  RowsSteady' /\ RequestsSteady'
<1>1. now \in Nat /\ now' \in Nat
  BY UserAssumption DEF TInv, UserAssumption
<1>2. RowsSteady'
  BY DEF Kept, RowsSteady
<1>3. ASSUME NEW h \in Handlers, handler'[h].kind # "idle"
      PROVE  /\ handler'[h].kind \in Requests /\ handler'[h].row.status \notin Gone
             /\ Steady(handler'[h].row) /\ Apt(handler[h].row)'
             /\ Exists(handler[h].user)' => Fits(handler'[h].row, rows'[handler'[h].user])
  <2>1. handler'[h] = handler[h] /\ handler[h].row \in RowType
    BY <1>3, IdleTyped DEF TInv, HandlersOK, HandlerType
  <2>2. PICK u \in Users : u = handler[h].user /\ rows[u].status # "absent"
    BY <1>3, <2>1 DEF TInv, HandlersOK
  <2>3. PICK r \in RowType : r = handler[h].row
    BY <2>1
  <2>4. /\ handler[h].kind \in Requests /\ r.status \notin Gone /\ Steady(r) /\ Apt(r)
        /\ Exists(u) => Fits(r, rows[u])
    BY <1>3, <2>1, <2>2, <2>3 DEF DInv, RequestsSteady
  <2>5. Apt(r)' /\ (Exists(u)' => Fits(r, rows'[u]))
    BY <1>1, <2>2, <2>4, AptLater, FitsLater
  <2>6. r = handler'[h].row /\ u = handler'[h].user /\ handler'[h].kind = handler[h].kind
    BY <2>1, <2>2, <2>3
  <2>7. Exists(handler[h].user)' <=> Exists(u)'
    BY <2>6 DEF Exists
  <2>8. Apt(handler[h].row)' <=> Apt(r)'
    BY <2>6 DEF Apt
  <2> QED BY <2>4, <2>5, <2>6, <2>7, <2>8
<1>4. RequestsSteady'
  BY <1>3 DEF RequestsSteady
<1> QED BY <1>2, <1>4

\* What the job has loaded stays good.
LEMMA LoadedSteady ==
  ASSUME TInv, TInv', DInv, \A u \in Users : Kept(u), now <= now',
         NEW u \in DOMAIN review.loaded
  PROVE  /\ rows'[u].status # "absent" /\ Steady(review.loaded[u])
         /\ \A r \in RowType : r = review.loaded[u] => Apt(r)'
         /\ Exists(u)' => Fits(review.loaded[u], rows'[u])
<1>1. now \in Nat /\ now' \in Nat
  BY UserAssumption DEF TInv, UserAssumption
<1>2. u \in Users /\ review.loaded[u] \in RowType
  BY LoadsTyped DEF TInv, ReviewOK, ReviewType
<1>3. PICK r \in RowType : r = review.loaded[u]
  BY <1>2
<1>4. /\ rows[u].status # "absent" /\ Steady(r) /\ Apt(r)
      /\ Exists(u) => Fits(r, rows[u])
  BY <1>3 DEF DInv, ReviewSteady
<1>5. Apt(r)' /\ (Exists(u)' => Fits(r, rows'[u]))
  BY <1>1, <1>2, <1>4, AptLater, FitsLater
<1> QED BY <1>2, <1>3, <1>4, <1>5 DEF Kept

\* A step without the job.
LEMMA AroundSteady ==
  ASSUME TInv, TInv', DInv, \A u \in Users : Kept(u), now <= now',
         review' = review, renew' = renew
  PROVE  ReviewSteady'
<1>1. now \in Nat /\ now' \in Nat /\ review.at \in Nat
  BY UserAssumption DEF TInv, UserAssumption, ReviewOK, ReviewType
<1>2. ASSUME NEW u \in DOMAIN review'.loaded
      PROVE  /\ rows'[u].status # "absent" /\ Steady(review'.loaded[u]) /\ Apt(review.loaded[u])'
             /\ Exists(u)' => Fits(review'.loaded[u], rows'[u])
  <2>1. PICK r \in RowType : r = review.loaded[u]
    BY <1>2, LoadsTyped DEF TInv, ReviewOK, ReviewType
  <2>2. /\ rows'[u].status # "absent" /\ Steady(r) /\ Apt(r)'
        /\ Exists(u)' => Fits(r, rows'[u])
    BY <1>2, <2>1, LoadedSteady
  <2>3. Apt(review.loaded[u])' <=> Apt(r)'
    BY <2>1 DEF Apt
  <2> QED BY <2>1, <2>2, <2>3
<1>3. review.pc = "expired" => ExpiredAt(review.loaded[review.user], now')
  <2> SUFFICES ASSUME review.pc = "expired" PROVE ExpiredAt(review.loaded[review.user], now')
    OBVIOUS
  <2>1. PICK r \in RowType : r = review.loaded[review.user]
    BY LoadsTyped DEF TInv, ReviewOK, ReviewType
  <2>2. ExpiredAt(r, now)
    BY <2>1 DEF DInv, ReviewSteady
  <2> QED BY <1>1, <2>1, <2>2 DEF ExpiredAt, RowType
<1>4. /\ renew'.pc = "idle" /\ review'.pc # "start" /\ review'.at <= now'
      /\ review'.pc = "hold" => review'.todo = {}
      /\ review'.pc = "limited" => OverLimit(review'.loaded[review'.user])
  BY <1>1 DEF DInv, ReviewSteady
<1> QED BY <1>2, <1>3, <1>4 DEF ReviewSteady

\* A step that leaves row u alone, or adds to its usage, keeps it.
LEMMA SameKept ==
  ASSUME TInv, TInv', DInv, now <= now', NEW u \in Users,
         rows'[u].status = rows[u].status, rows'[u].plan = rows[u].plan,
         rows'[u].limit = rows[u].limit, rows'[u].expire = rows[u].expire,
         rows[u].used <= rows'[u].used
  PROVE  Kept(u) /\ ~Undone(u)
<1>1. now \in Nat /\ now' \in Nat
  BY UserAssumption DEF TInv, UserAssumption
<1>2. rows[u] \in RowType /\ rows'[u] \in RowType
  BY DEF TInv, RowsOK
<1>3. Steady(rows[u]) /\ Apt(rows[u])
  BY DEF DInv, RowsSteady
<1>4. Steady(rows'[u])
  BY <1>3 DEF Steady
<1>5. Apt(rows[u])'
  BY <1>1, <1>2, <1>3 DEF Apt, OverLimit, ExpiredAt, RowType
<1>6. Fits(rows[u], rows'[u])
  BY DEF Fits
<1> QED BY <1>4, <1>5, <1>6 DEF Kept, Undone, Gone

\* What a session that loaded r may want to write: the verdicts in it are those of r.
Sequel(r, w) ==
    /\ Steady(w) /\ w.used = r.used
    /\ w.status # r.status => w.status \notin Gone
    /\ "revoke" \in Requests =>
          /\ w.limit = r.limit /\ w.expire = r.expire
          /\ \/ w.status = r.status
             \/ w.status \in {"active", "disabled"}
             \/ w.status = "limited" /\ OverLimit(r)
             \/ w.status = "expired" /\ ExpiredAt(r, now)

\* Flushing, the other fields.
LEMMA FlushKeeps ==
  ASSUME NEW db \in RowType, NEW r, NEW w
  PROVE  /\ w.limit = r.limit => Flush(db, r, w).limit = db.limit
         /\ w.expire = r.expire => Flush(db, r, w).expire = db.expire
         /\ w.used = r.used => Flush(db, r, w).used = db.used
<1>1. DOMAIN db = {"status", "used", "limit", "expire", "hold", "timeout", "online",
                   "due", "key", "tags", "plan"}
  BY DEF RowType
<1> QED BY <1>1 DEF Flush

\* A session writes over a row that it loaded before.
LEMMA WriteKept ==
  ASSUME TInv, TInv', DInv, now' = now, NEW u \in Users, Exists(u),
         NEW r \in RowType, Fits(r, rows[u]), NEW w, Sequel(r, w),
         rows' = [rows EXCEPT ![u] = Flush(rows[u], r, w)]
  PROVE  /\ Kept(u) /\ \A v \in Users \ {u} : rows'[v] = rows[v]
         /\ Undone(u) => w.status = "active" /\ r.status # "active"
<1> DEFINE s == Flush(rows[u], r, w)
<1>1. rows[u] \in RowType /\ rows'[u] \in RowType /\ now \in Nat /\ rows[u].status \notin Gone
  BY UserAssumption DEF TInv, RowsOK, UserAssumption, Exists
<1>2. rows'[u] = s /\ \A v \in Users \ {u} : rows'[v] = rows[v]
  BY DEF TInv, RowsOK
<1>3. /\ w.status = r.status => s.status = rows[u].status
      /\ w.status # r.status => s.status = w.status
      /\ s.plan = rows[u].plan \/ s.plan = w.plan
  BY <1>1, FlushHold
<1>4. /\ w.limit = r.limit => s.limit = rows[u].limit
      /\ w.expire = r.expire => s.expire = rows[u].expire
      /\ w.used = r.used => s.used = rows[u].used
  BY <1>1, FlushKeeps
<1>5. Steady(rows[u]) /\ Apt(rows[u])
  BY DEF DInv, RowsSteady
<1> HIDE DEF s
<1>6. s \in RowType /\ s.status \notin Gone /\ Steady(s)
  BY <1>1, <1>2, <1>3, <1>5 DEF Sequel, Steady
<1>7. Fits(rows[u], s)
  BY <1>1, <1>4 DEF Fits, Sequel, RowType
<1>8. Apt(s)
  <2> SUFFICES ASSUME "revoke" \in Requests PROVE Apt(s)
    BY DEF Apt
  <2>1. /\ r.limit = rows[u].limit /\ r.expire = rows[u].expire /\ r.used <= rows[u].used
        /\ s.limit = rows[u].limit /\ s.expire = rows[u].expire /\ s.used = rows[u].used
    BY <1>4 DEF Fits, Sequel
  <2>2. /\ s.limit # 0
        /\ rows[u].status = "limited" /\ s.limit # NoLimit => OverLimit(s)
        /\ rows[u].status = "expired" /\ s.expire # NoExpire => ExpiredAt(s, now)
    BY <1>5, <2>1 DEF Apt, OverLimit, ExpiredAt
  <2>3. /\ OverLimit(r) => OverLimit(s)
        /\ ExpiredAt(r, now) => ExpiredAt(s, now)
    BY <1>1, <1>6, <2>1 DEF OverLimit, ExpiredAt, RowType
  <2>4. \/ s.status = rows[u].status
        \/ s.status \in {"active", "disabled"}
        \/ s.status = "limited" /\ OverLimit(s)
        \/ s.status = "expired" /\ ExpiredAt(s, now)
    BY <1>3, <2>3 DEF Sequel
  <2> QED BY <2>2, <2>4 DEF Apt
<1>9. Apt(rows[u])'
  BY <1>2, <1>8 DEF Apt
<1>10. Kept(u)
  BY <1>1, <1>2, <1>6, <1>7, <1>9 DEF Kept, Gone
<1>11. Undone(u) => w.status = "active" /\ r.status # "active"
  BY <1>2, <1>3 DEF Undone
<1> QED BY <1>2, <1>10, <1>11

\* update_user, part by part.
LEMMA ModifiedFields ==
  ASSUME NEW r \in RowType, NEW m, NEW t,
         WithStatus(r, m.status) \in RowType,
         m.limit \in Nat \cup {Keep}, m.expire \in Nat \cup {Keep}
  PROVE  LET a == WithStatus(r, m.status)
             b == WithLimit(a, m.limit)
             s == WithExpire(b, m.expire, t)
         IN  /\ a.used = r.used /\ a.limit = r.limit /\ a.expire = r.expire
             /\ a.status = IF m.status = "keep" THEN r.status ELSE m.status
             /\ b.used = r.used /\ b.expire = r.expire
             /\ b.limit = IF m.limit = Keep THEN r.limit ELSE IF m.limit = 0 THEN NoLimit ELSE m.limit
             /\ b.status = IF m.limit = Keep THEN a.status
                           ELSE IF a.status \in {"expired", "disabled"} THEN a.status
                           ELSE IF b.limit \notin {NoLimit, 0} /\ r.used >= b.limit THEN "limited"
                           ELSE IF a.status = "on_hold" THEN "on_hold" ELSE "active"
             /\ s.used = r.used /\ s.limit = b.limit
             /\ s.expire = IF m.expire = Keep THEN r.expire ELSE m.expire
             /\ s.status = IF m.expire = Keep \/ b.status \notin {"active", "expired"} THEN b.status
                           ELSE IF s.expire # NoExpire /\ s.expire <= t THEN "expired" ELSE "active"
             /\ Modified(r, m, t).status = s.status /\ Modified(r, m, t).used = s.used
             /\ Modified(r, m, t).limit = s.limit /\ Modified(r, m, t).expire = s.expire
             /\ Modified(r, m, t).plan = m.plan
<1> DEFINE a == WithStatus(r, m.status)
           b == WithLimit(a, m.limit)
           s == WithExpire(b, m.expire, t)
<1>1. /\ a.used = r.used /\ a.limit = r.limit /\ a.expire = r.expire
      /\ a.status = IF m.status = "keep" THEN r.status ELSE m.status
      /\ a \in RowType
  BY DEF WithStatus, RowType
<1> HIDE DEF a
<1>2. b \in RowType
  BY <1>1, LimitTame DEF Tame
<1>3. /\ b.used = r.used /\ b.expire = r.expire
      /\ b.limit = IF m.limit = Keep THEN r.limit ELSE IF m.limit = 0 THEN NoLimit ELSE m.limit
      /\ b.status = IF m.limit = Keep THEN a.status
                    ELSE IF a.status \in {"expired", "disabled"} THEN a.status
                    ELSE IF b.limit \notin {NoLimit, 0} /\ r.used >= b.limit THEN "limited"
                    ELSE IF a.status = "on_hold" THEN "on_hold" ELSE "active"
  <2>1. CASE m.limit = Keep
    <3>1. b = a
      BY <2>1 DEF WithLimit
    <3> QED BY <1>1, <2>1, <3>1
  <2>2. CASE m.limit # Keep
    <3> DEFINE x == [a EXCEPT !.limit = IF m.limit = 0 THEN NoLimit ELSE m.limit]
    <3>1. b = [x EXCEPT !.status = StatusForLimit(x)]
      BY <2>2 DEF WithLimit
    <3>2. /\ DOMAIN x = {"status", "used", "limit", "expire", "hold", "timeout", "online",
                         "due", "key", "tags", "plan"}
          /\ x.used = a.used /\ x.expire = a.expire /\ x.status = a.status
          /\ x.limit = IF m.limit = 0 THEN NoLimit ELSE m.limit
      BY <1>1 DEF RowType
    <3> HIDE DEF x
    <3>3. /\ b.used = x.used /\ b.expire = x.expire /\ b.limit = x.limit
          /\ b.status = StatusForLimit(x)
      BY <3>1, <3>2
    <3>4. StatusForLimit(x) = IF x.status \in {"expired", "disabled"} THEN x.status
                              ELSE IF OverLimit(x) THEN "limited"
                              ELSE IF x.status = "on_hold" THEN "on_hold" ELSE "active"
      BY DEF StatusForLimit
    <3> QED BY <1>1, <2>2, <3>2, <3>3, <3>4 DEF OverLimit
  <2> QED BY <2>1, <2>2
<1> HIDE DEF b
<1>4. s \in RowType
  BY <1>2, ExpireTame DEF Tame
<1>5. /\ s.used = b.used /\ s.limit = b.limit
      /\ s.expire = IF m.expire = Keep THEN b.expire ELSE m.expire
      /\ s.status = IF m.expire = Keep \/ b.status \notin {"active", "expired"} THEN b.status
                    ELSE IF s.expire # NoExpire /\ s.expire <= t THEN "expired" ELSE "active"
  <2>1. CASE m.expire = Keep
    <3>1. s = b
      BY <2>1 DEF WithExpire
    <3> QED BY <2>1, <3>1
  <2>2. CASE m.expire # Keep
    <3> DEFINE x == [b EXCEPT !.expire = m.expire]
    <3>1. s = [x EXCEPT !.status = StatusForExpire(x, t)]
      BY <2>2 DEF WithExpire
    <3>2. /\ DOMAIN x = {"status", "used", "limit", "expire", "hold", "timeout", "online",
                         "due", "key", "tags", "plan"}
          /\ x.used = b.used /\ x.limit = b.limit /\ x.status = b.status
          /\ x.expire = m.expire
      BY <1>2 DEF RowType
    <3> HIDE DEF x
    <3>3. /\ s.used = x.used /\ s.expire = x.expire /\ s.limit = x.limit
          /\ s.status = StatusForExpire(x, t)
      BY <3>1, <3>2
    <3> QED BY <2>2, <3>2, <3>3 DEF StatusForExpire, ExpiredAt
  <2> QED BY <2>1, <2>2
<1>6. Modified(r, m, t) =
        [s EXCEPT !.tags    = IF m.tags = {} THEN @ ELSE m.tags,
                  !.timeout = IF m.timeout = 0 THEN @ ELSE m.timeout,
                  !.hold    = IF m.hold = 0 THEN @ ELSE m.hold,
                  !.plan    = m.plan,
                  !.online  = IF @ = "since" THEN "before" ELSE @]
  BY DEF Modified, a, b
<1> HIDE DEF s
<1>7. /\ Modified(r, m, t).status = s.status /\ Modified(r, m, t).used = s.used
      /\ Modified(r, m, t).limit = s.limit /\ Modified(r, m, t).expire = s.expire
      /\ Modified(r, m, t).plan = m.plan
  BY <1>4, <1>6 DEF RowType
<1> QED BY <1>1, <1>3, <1>5, <1>7 DEF a, b, s

\* A modify request of such an instance.
LEMMA ModifiedSteady ==
  ASSUME Switching, NEW m \in Edits, NEW r \in RowType, Steady(r), r.status \notin Gone
  PROVE  Sequel(r, Modified(r, m, now))
<1> DEFINE w == Modified(r, m, now)
<1>1. /\ m \in EditType /\ m.status # "on_hold" /\ m.plan = NoPlan
      /\ "revoke" \in Requests => m.limit = Keep /\ m.expire = Keep
  BY RequestAssumption DEF RequestAssumption, Switching
<1>2. WithStatus(r, m.status) \in RowType
  BY <1>1, StatusTame DEF EditType, Tame
<1>3. m.limit \in Nat \cup {Keep} /\ m.expire \in Nat \cup {Keep}
  BY <1>1 DEF EditType
<1> DEFINE a == WithStatus(r, m.status)
           b == WithLimit(a, m.limit)
           s == WithExpire(b, m.expire, now)
<1>4. /\ a.used = r.used /\ a.limit = r.limit /\ a.expire = r.expire
      /\ a.status = IF m.status = "keep" THEN r.status ELSE m.status
      /\ b.used = r.used /\ b.expire = r.expire
      /\ b.limit = IF m.limit = Keep THEN r.limit ELSE IF m.limit = 0 THEN NoLimit ELSE m.limit
      /\ b.status = IF m.limit = Keep THEN a.status
                    ELSE IF a.status \in {"expired", "disabled"} THEN a.status
                    ELSE IF b.limit \notin {NoLimit, 0} /\ r.used >= b.limit THEN "limited"
                    ELSE IF a.status = "on_hold" THEN "on_hold" ELSE "active"
      /\ s.used = r.used /\ s.limit = b.limit
      /\ s.expire = IF m.expire = Keep THEN r.expire ELSE m.expire
      /\ s.status = IF m.expire = Keep \/ b.status \notin {"active", "expired"} THEN b.status
                    ELSE IF s.expire # NoExpire /\ s.expire <= now THEN "expired" ELSE "active"
      /\ w.status = s.status /\ w.used = s.used
      /\ w.limit = s.limit /\ w.expire = s.expire
      /\ w.plan = m.plan
  BY <1>2, <1>3, ModifiedFields
<1> HIDE DEF w, a, b, s
<1>5. m.status \in {"keep", "active", "disabled"}
  BY <1>1 DEF EditType
<1>6. a.status \in {r.status, "active", "disabled"} /\ a.status \notin {"on_hold"} \cup Gone
  BY <1>4, <1>5 DEF Steady, Gone
<1>7. b.status \notin {"on_hold"} \cup Gone
  BY <1>4, <1>6 DEF Gone
<1>8. s.status \notin {"on_hold"} \cup Gone
  BY <1>4, <1>7 DEF Gone
<1>9. "revoke" \in Requests => s.status \in {r.status, "active", "disabled"}
  BY <1>1, <1>4, <1>6
<1>10. Steady(w) /\ w.used = r.used /\ w.status \notin Gone
  BY <1>1, <1>4, <1>8 DEF Steady
<1>11. "revoke" \in Requests =>
          /\ w.limit = r.limit /\ w.expire = r.expire
          /\ w.status \in {r.status, "active", "disabled"}
  BY <1>1, <1>4, <1>9
<1>12. Sequel(r, w)
  BY <1>10, <1>11 DEF Sequel
<1> QED BY <1>12 DEF w

\* A revocation writes the verdict of the row it holds, and makes nobody active.
LEMMA RevokedSteady ==
  ASSUME NEW r \in RowType, Presentable(r), Steady(r), Apt(r), r.status \notin Gone,
         "revoke" \in Requests, NEW k
  PROVE  /\ Sequel(r, Revoked(r, k, now))
         /\ Revoked(r, k, now).status # r.status => Revoked(r, k, now).status # "active"
<1> DEFINE m == [status |-> r.status,
                 limit |-> IF r.limit = NoLimit THEN Keep ELSE r.limit,
                 expire |-> IF r.expire = NoExpire THEN Keep ELSE r.expire,
                 tags |-> {}, hold |-> 0, timeout |-> 0, plan |-> r.plan]
           x == Modified(r, m, now)
           w == Revoked(r, k, now)
<1>1. /\ m.limit = IF r.limit = NoLimit THEN Keep ELSE r.limit
      /\ m.expire = IF r.expire = NoExpire THEN Keep ELSE r.expire
      /\ m.status = r.status /\ m.plan = r.plan
      /\ m.hold \in Nat /\ m.timeout \in Nat /\ m.tags \in SUBSET Tags
  OBVIOUS
<1>2. w = [x EXCEPT !.key = k]
  BY DEF Revoked
<1> HIDE DEF m
<1>3. m.limit \in Nat \cup {Keep} /\ m.expire \in Nat \cup {Keep} /\ r.status # "keep"
  BY <1>1 DEF RowType, Presentable, Statuses, Gone
<1>4. WithStatus(r, m.status) \in RowType
  BY <1>1 DEF WithStatus, RowType
<1> DEFINE a == WithStatus(r, m.status)
           b == WithLimit(a, m.limit)
           s == WithExpire(b, m.expire, now)
<1>5. /\ a.used = r.used /\ a.limit = r.limit /\ a.expire = r.expire
      /\ a.status = IF m.status = "keep" THEN r.status ELSE m.status
      /\ b.used = r.used /\ b.expire = r.expire
      /\ b.limit = IF m.limit = Keep THEN r.limit ELSE IF m.limit = 0 THEN NoLimit ELSE m.limit
      /\ b.status = IF m.limit = Keep THEN a.status
                    ELSE IF a.status \in {"expired", "disabled"} THEN a.status
                    ELSE IF b.limit \notin {NoLimit, 0} /\ r.used >= b.limit THEN "limited"
                    ELSE IF a.status = "on_hold" THEN "on_hold" ELSE "active"
      /\ s.used = r.used /\ s.limit = b.limit
      /\ s.expire = IF m.expire = Keep THEN r.expire ELSE m.expire
      /\ s.status = IF m.expire = Keep \/ b.status \notin {"active", "expired"} THEN b.status
                    ELSE IF s.expire # NoExpire /\ s.expire <= now THEN "expired" ELSE "active"
      /\ x.status = s.status /\ x.used = s.used
      /\ x.limit = s.limit /\ x.expire = s.expire
      /\ x.plan = m.plan
  BY <1>3, <1>4, ModifiedFields
<1>6. x \in RowType
  <2>1. WithStatus(r, m.status) = r
    BY <1>1 DEF WithStatus, RowType
  <2>2. Tame(r, WithStatus(r, m.status)) /\ m.plan \in {NoPlan} \cup Plans
    BY <1>1, <2>1 DEF Tame, RowType
  <2> QED BY <1>1, <1>3, <2>2, ModifiedTame DEF Tame
<1> HIDE DEF w, a, b, s, x
<1>7. /\ w.status = x.status /\ w.used = x.used /\ w.limit = x.limit /\ w.expire = x.expire
      /\ w.plan = x.plan
  BY <1>2, <1>6 DEF RowType
<1>8. /\ r.limit # 0 /\ r.status # "on_hold" /\ r.plan = NoPlan
      /\ r.status = "limited" /\ r.limit # NoLimit => OverLimit(r)
      /\ r.status = "expired" /\ r.expire # NoExpire => ExpiredAt(r, now)
  BY DEF Apt, Steady
<1>9. a.status = r.status /\ b.limit = r.limit
  BY <1>1, <1>5, <1>8
<1>10. /\ b.status = "limited" => r.status = "limited" \/ OverLimit(r)
       /\ b.status \in {r.status, "limited", "active"}
       /\ b.status # r.status => b.status \in {"limited", "active"}
       /\ b.status = "active" => r.status = "active"
  BY <1>1, <1>5, <1>8, <1>9 DEF OverLimit, RowType, Statuses, Gone
<1>11. s.expire = r.expire
  BY <1>1, <1>5
<1>12. /\ s.status # b.status => \/ s.status = "expired" /\ ExpiredAt(r, now)
                                 \/ s.status = "active" /\ b.status = "expired"
       /\ s.status = "active" /\ b.status = "expired" => ~ExpiredAt(r, now) /\ r.expire # NoExpire
  BY <1>1, <1>5, <1>11 DEF ExpiredAt
<1>13. s.status # "active" \/ r.status = "active"
  BY <1>8, <1>10, <1>12
<1>14. \/ s.status = r.status
       \/ s.status = "limited" /\ OverLimit(r)
       \/ s.status = "expired" /\ ExpiredAt(r, now)
  BY <1>8, <1>10, <1>12, <1>13
<1>15. /\ Steady(w) /\ w.used = r.used /\ w.limit = r.limit /\ w.expire = r.expire
       /\ w.status # r.status => w.status \notin Gone
  BY <1>1, <1>5, <1>7, <1>8, <1>9, <1>11, <1>14 DEF Steady, Gone
<1>16. Sequel(r, w) /\ (w.status # r.status => w.status # "active")
  BY <1>5, <1>7, <1>13, <1>14, <1>15 DEF Sequel
<1> QED BY <1>16 DEF w

\* The modify request of user u is answered.
Answered(u) ==
    \E h \in Handlers :
        handler[h].user = u /\ handler[h].kind = "modify" /\ handler'[h] = HandlerIdle

\* A row that is deleted, disabled or created.
LEMMA NewRowKept ==
  ASSUME NEW u \in Users, TInv', now' = now, now \in Nat,
         \/ rows'[u] = Deleted /\ rows[u].status # "absent"
         \/ rows[u].status = "absent" /\ rows'[u].status = "active" /\ rows'[u].plan = NoPlan
            /\ ("revoke" \in Requests => rows'[u].limit # 0)
  PROVE  Kept(u) /\ ~Undone(u)
<1>1. CASE rows'[u] = Deleted /\ rows[u].status # "absent"
  <2>1. /\ rows'[u].status = "deleted" /\ rows'[u].plan = NoPlan /\ rows'[u].limit = NoLimit
    BY <1>1 DEF Deleted, Absent
  <2>2. Steady(rows'[u]) /\ Apt(rows[u])'
    BY <2>1 DEF Steady, Apt, NoLimit
  <2> QED BY <2>1, <2>2 DEF Kept, Undone, Gone
<1>2. CASE /\ rows[u].status = "absent" /\ rows'[u].status = "active" /\ rows'[u].plan = NoPlan
           /\ "revoke" \in Requests => rows'[u].limit # 0
  <2>1. Steady(rows'[u]) /\ Apt(rows[u])'
    BY <1>2 DEF Steady, Apt
  <2> QED BY <1>2, <2>1 DEF Kept, Undone
<1> QED BY <1>1, <1>2

\* The bulk reset takes nobody out of "disabled", nor does the bulk route that disables.
LEMMA BulkKept ==
  ASSUME Switching, TInv, TInv', DInv, now' = now, NEW u \in Users,
         \/ "reset_all" \in Requests /\ rows'[u] = BulkReset(rows[u])
         \/ rows'[u] = BulkDisabled(rows[u])
  PROVE  Kept(u) /\ ~Undone(u)
<1> DEFINE r == rows[u]
<1>1. r \in RowType /\ Steady(r) /\ Apt(r)
  BY DEF TInv, RowsOK, DInv, RowsSteady
<1>2. CASE "reset_all" \in Requests /\ rows'[u] = BulkReset(rows[u])
  <2>1. "revoke" \notin Requests
    BY <1>2 DEF Switching
  <2>2. /\ rows'[u].plan = NoPlan
        /\ \/ rows'[u].status = r.status
           \/ r.status \in {"active", "limited"} /\ rows'[u].status = "active"
    BY <1>1, <1>2, BulkResetHold
  <2>3. Steady(rows'[u]) /\ Apt(rows[u])' /\ Fits(rows[u], rows'[u])
    BY <1>1, <2>1, <2>2 DEF Steady, Apt, Fits
  <2> QED BY <2>2, <2>3 DEF Kept, Undone, Gone
<1>3. CASE rows'[u] = BulkDisabled(rows[u])
  <2>1. /\ rows'[u].plan = r.plan /\ rows'[u].limit = r.limit /\ rows'[u].expire = r.expire
        /\ rows'[u].used = r.used /\ r.used \in Int
        /\ \/ rows'[u].status = r.status
           \/ r.status \in Served /\ rows'[u].status = "disabled"
    BY <1>1, <1>3 DEF BulkDisabled, RowType
  <2>2. CASE rows'[u].status = r.status
    <3>1. now \in Nat /\ now <= now'
      BY UserAssumption DEF TInv, UserAssumption
    <3> QED BY <2>1, <2>2, <3>1, SameKept
  <2>3. CASE r.status \in Served /\ rows'[u].status = "disabled"
    <3>1. Steady(rows'[u]) /\ Fits(rows[u], rows'[u])
      BY <1>1, <2>1, <2>3 DEF Steady, Fits
    <3>2. Apt(rows[u])'
      BY <1>1, <2>1, <2>3 DEF Apt
    <3> QED BY <2>3, <3>1, <3>2 DEF Kept, Undone, Gone, Served
  <2> QED BY <2>1, <2>2, <2>3
<1> QED BY <1>2, <1>3

\* Rows made, removed and counted, and the bulk routes.
LEMMA RowsSwitch ==
  ASSUME Switching, TInv, TInv', DInv,
         \/ ResetAll \/ DisableAll \/ ActivateAll
         \/ \E u \in Users : Create(u) \/ Record(u) \/ PeriodEnds(u)
  PROVE  DInv' /\ \A u \in Users : ~Undone(u)
<1>1. /\ handler' = handler /\ review' = review /\ renew' = renew /\ now' = now
      /\ now \in Nat /\ now <= now'
  <2>1. /\ handler' = handler /\ review' = review /\ renew' = renew /\ now' = now
    BY DEF ResetAll, DisableAll, ActivateAll, Bulk, Create, Record, PeriodEnds,
           jobVars
  <2>2. now \in Nat
    BY UserAssumption DEF TInv, UserAssumption
  <2> QED BY <2>1, <2>2
<1>2. \A u \in Users : rows[u] \in RowType /\ rows[u].used \in Int
  BY DEF TInv, RowsOK, RowType
<1>3. SUFFICES \A u \in Users : Kept(u) /\ ~Undone(u)
  BY <1>1, SteadyStep, AroundSteady DEF DInv
<1>4. ASSUME NEW v \in Users, rows'[v] = rows[v] PROVE Kept(v) /\ ~Undone(v)
  BY <1>1, <1>2, <1>4, SameKept
<1>5. CASE ResetAll
  BY <1>1, <1>5, BulkKept DEF ResetAll, Bulk
<1>6. CASE DisableAll
  BY <1>1, <1>6, BulkKept DEF DisableAll, Bulk
<1>7. ~ActivateAll
  BY DEF ActivateAll, Bulk, Switching
<1>8. ASSUME NEW u \in Users, Create(u) PROVE \A v \in Users : Kept(v) /\ ~Undone(v)
  <2>1. PICK p \in Profiles : rows' = [rows EXCEPT ![u] = p] /\ rows[u].status = "absent"
    BY <1>8 DEF Create
  <2>2. /\ p.status = "active" /\ p.plan = NoPlan
        /\ "revoke" \in Requests => p.limit # 0
    BY DEF Switching
  <2>3. rows'[u] = p /\ \A v \in Users \ {u} : rows'[v] = rows[v]
    BY <2>1 DEF TInv, RowsOK
  <2>4. Kept(u) /\ ~Undone(u)
    BY <1>1, <2>1, <2>2, <2>3, NewRowKept
  <2> QED BY <1>4, <2>3, <2>4
<1>9. ASSUME NEW u \in Users, Record(u) PROVE \A v \in Users : Kept(v) /\ ~Undone(v)
  <2>1. rows' = [rows EXCEPT ![u].used = @ + 1, ![u].online = "since"]
    BY <1>9 DEF Record
  <2>2. /\ rows'[u].status = rows[u].status /\ rows'[u].plan = rows[u].plan
        /\ rows'[u].limit = rows[u].limit /\ rows'[u].expire = rows[u].expire
        /\ rows'[u].used = rows[u].used + 1
        /\ \A v \in Users \ {u} : rows'[v] = rows[v]
    BY <1>2, <2>1 DEF TInv, RowsOK, RowType
  <2>3. rows[u].used <= rows'[u].used
    BY <1>2, <2>2
  <2>4. Kept(u) /\ ~Undone(u)
    BY <1>1, <2>2, <2>3, SameKept
  <2> QED BY <1>4, <2>2, <2>4
<1>10. \A u \in Users : ~PeriodEnds(u)
  BY DEF PeriodEnds, Switching
<1> QED BY <1>5, <1>6, <1>7, <1>8, <1>9, <1>10

\* A request begins with the row of the database.
LEMMA LoadSwitch ==
  ASSUME TInv, TInv', DInv, NEW h \in Handlers, NEW u \in Users, NEW kind, Load(h, u, kind)
  PROVE  DInv' /\ \A v \in Users : ~Undone(v)
<1>1. /\ rows' = rows /\ review' = review /\ renew' = renew /\ now' = now
      /\ handler' = [handler EXCEPT ![h] = [kind |-> kind, user |-> u, row |-> rows[u]]]
      /\ kind \in Requests /\ rows[u].status \notin Gone
  BY DEF Load, coreVars, jobVars, Exists
<1>2. RowsSteady'
  BY <1>1 DEF DInv, RowsSteady, Apt
<1>3. RequestsSteady'
  <2>1. ASSUME NEW g \in Handlers, handler'[g].kind # "idle"
        PROVE  /\ handler'[g].kind \in Requests /\ handler'[g].row.status \notin Gone
               /\ Steady(handler'[g].row) /\ Apt(handler[g].row)'
               /\ Exists(handler[g].user)' => Fits(handler'[g].row, rows'[handler'[g].user])
    <3>1. CASE g = h
      <4>1. handler'[h] = [kind |-> kind, user |-> u, row |-> rows[u]]
        BY <1>1 DEF TInv, HandlersOK
      <4>2. handler'[h].kind = kind /\ handler'[h].user = u /\ handler'[h].row = rows[u]
        BY <4>1
      <4>3. Steady(rows[u]) /\ Apt(rows[u]) /\ Fits(rows[u], rows[u])
        BY DEF DInv, RowsSteady, Fits, TInv, RowsOK, RowType
      <4>4. Apt(handler[h].row)' <=> Apt(rows[u])
        BY <1>1, <4>2 DEF Apt
      <4> QED BY <1>1, <3>1, <4>2, <4>3, <4>4
    <3>2. CASE g # h
      <4>1. handler'[g] = handler[g]
        BY <1>1, <3>2 DEF TInv, HandlersOK
      <4>2. /\ handler[g].kind \in Requests /\ handler[g].row.status \notin Gone
            /\ Steady(handler[g].row) /\ Apt(handler[g].row)
            /\ Exists(handler[g].user) => Fits(handler[g].row, rows[handler[g].user])
        BY <2>1, <4>1 DEF DInv, RequestsSteady
      <4>3. /\ Apt(handler[g].row)' <=> Apt(handler[g].row)
            /\ Exists(handler[g].user)' <=> Exists(handler[g].user)
        BY <1>1, <4>1 DEF Apt, Exists
      <4> QED BY <1>1, <4>1, <4>2, <4>3
    <3> QED BY <3>1, <3>2
  <2> QED BY <2>1 DEF RequestsSteady
<1>4. ReviewSteady'
  BY <1>1 DEF DInv, ReviewSteady, Apt, Exists
<1> QED BY <1>1, <1>2, <1>3, <1>4 DEF DInv, Undone

\* A request ends with its commit.
LEMMA RequestsSwitch ==
  ASSUME Switching, TInv, TInv', DInv, NEW h \in Handlers, RequestStep(h)
  PROVE  DInv' /\ \A u \in Users : Undone(u) => Answered(u)
<1>1. /\ handler[h].kind # "idle" /\ handler' = [handler EXCEPT ![h] = HandlerIdle]
      /\ review' = review /\ renew' = renew /\ now' = now /\ now \in Nat /\ now <= now'
  <2>1. /\ handler[h].kind # "idle" /\ handler' = [handler EXCEPT ![h] = HandlerIdle]
        /\ review' = review /\ renew' = renew /\ now' = now
    BY DEF RequestStep, Modify, Delete, RemoveExpired, Reset, Revoke, ActiveNext, jobVars
  <2>2. now \in Nat
    BY UserAssumption DEF TInv, UserAssumption
  <2> QED BY <2>1, <2>2
<1>2. PICK u \in Users : u = handler[h].user /\ rows[u].status # "absent"
  BY <1>1 DEF TInv, HandlersOK
<1> DEFINE r == handler[h].row
<1>3. /\ r \in RowType /\ handler[h].kind \in Requests /\ r.status \notin Gone
      /\ Steady(r) /\ Apt(r)
      /\ Exists(u) => Fits(r, rows[u])
  BY <1>1, <1>2 DEF TInv, HandlersOK, HandlerType, DInv, RequestsSteady
<1>4. handler'[h] = HandlerIdle
  BY <1>1 DEF TInv, HandlersOK
<1> HIDE DEF r
<1>5. SUFFICES \A v \in Users : Kept(v) /\ (Undone(v) => Answered(v))
  BY <1>1, SteadyStep, AroundSteady DEF DInv
<1>6. ASSUME NEW v \in Users, rows'[v] = rows[v] PROVE Kept(v) /\ ~Undone(v)
  <2>1. rows[v].used <= rows'[v].used
    BY <1>6 DEF TInv, RowsOK, RowType
  <2> QED BY <1>1, <1>6, <2>1, SameKept
<1>7. CASE Modify(h)
  <2> DEFINE Sync(s) == IF s.status \in Served THEN UpdateUser(handler[h].user, s)
                        ELSE RemoveUser(handler[h].user)
  <2>1. PICK m \in Edits : Commit(h, Modified(handler[h].row, m, now), Sync)
    BY <1>7 DEF Modify
  <2> DEFINE w == Modified(r, m, now)
  <2>2. Sequel(r, w)
    BY <1>3, ModifiedSteady
  <2>3. \/ rows' = [rows EXCEPT ![u] = Flush(rows[u], r, w)] /\ Exists(u)
        \/ rows' = rows
    BY <1>2, <2>1 DEF Commit, r
  <2> HIDE DEF w
  <2>4. CASE rows' = [rows EXCEPT ![u] = Flush(rows[u], r, w)] /\ Exists(u)
    <3>1. Kept(u) /\ \A v \in Users \ {u} : rows'[v] = rows[v]
      BY <1>1, <1>3, <2>2, <2>4, WriteKept
    <3>2. Answered(u)
      BY <1>2, <1>4, <1>7 DEF Answered, Modify
    <3> QED BY <1>6, <3>1, <3>2
  <2> QED BY <1>6, <2>3, <2>4
<1>8. CASE Delete(h) \/ RemoveExpired(h)
  <2>1. rows'[u] = Deleted /\ \A v \in Users \ {u} : rows'[v] = rows[v]
    BY <1>2, <1>8 DEF Delete, RemoveExpired, TInv, RowsOK
  <2>2. Kept(u) /\ ~Undone(u)
    BY <1>1, <1>2, <2>1, NewRowKept
  <2> QED BY <1>6, <2>1, <2>2
<1>9. CASE Revoke(h)
  <2> DEFINE w == Revoked(r, rows[u].key + 1, now)
             Sync(s) == IF s.status \in Served THEN UpdateUser(handler[h].user, s) ELSE {}
  <2>1. "revoke" \in Requests
    BY <1>3, <1>9 DEF Revoke
  <2>2. \/ /\ rows' = [rows EXCEPT ![u] = Flush(rows[u], r, w)] /\ Exists(u)
           /\ Presentable(r)
        \/ rows' = rows
    BY <1>2, <1>9 DEF Revoke, Commit, r
  <2>3. Presentable(r) => Sequel(r, w) /\ (w.status # r.status => w.status # "active")
    BY <1>3, <2>1, RevokedSteady
  <2> HIDE DEF w
  <2>4. CASE rows' = [rows EXCEPT ![u] = Flush(rows[u], r, w)] /\ Exists(u) /\ Presentable(r)
    <3>1. Sequel(r, w) /\ Fits(r, rows[u]) /\ (w.status # r.status => w.status # "active")
      BY <1>3, <2>3, <2>4
    <3>2. /\ Kept(u) /\ \A v \in Users \ {u} : rows'[v] = rows[v]
          /\ Undone(u) => w.status = "active" /\ r.status # "active"
      BY <1>1, <1>3, <2>4, <3>1, WriteKept
    <3>3. ~Undone(u)
      BY <3>1, <3>2
    <3> QED BY <1>6, <3>2, <3>3
  <2> QED BY <1>6, <2>2, <2>4
<1>10. CASE ActiveNext(h)
  <2>1. rows' = rows
    BY <1>3, <1>10 DEF ActiveNext, r, Steady
  <2> QED BY <1>6, <2>1
<1>11. ~Reset(h)
  BY <1>3 DEF Reset, Switching
<1> QED BY <1>7, <1>8, <1>9, <1>10, <1>11 DEF RequestStep

\* What the job holds of u after the step it held before or has just loaded.
Carried(u) ==
    \/ u \in DOMAIN review.loaded /\ review'.loaded[u] = review.loaded[u]
    \/ rows[u].status # "absent" /\ review'.loaded[u] = rows[u]

\* A step of the review job.
LEMMA PassSteady ==
  ASSUME TInv, TInv', DInv, \A u \in Users : Kept(u),
         handler' = handler, renew' = renew, now' = now,
         review'.pc # "start", review'.at <= now,
         review'.pc = "hold" => review'.todo = {},
         \A u \in DOMAIN review'.loaded : Carried(u),
         review'.pc = "limited" => OverLimit(review'.loaded[review'.user]),
         review'.pc = "expired" => ExpiredAt(review'.loaded[review'.user], now)
  PROVE  DInv'
<1>1. now \in Nat /\ now <= now'
  BY UserAssumption DEF TInv, UserAssumption
<1>2. RowsSteady' /\ RequestsSteady'
  BY <1>1, SteadyStep
<1>3. ASSUME NEW u \in DOMAIN review'.loaded
      PROVE  /\ rows'[u].status # "absent" /\ Steady(review'.loaded[u]) /\ Apt(review.loaded[u])'
             /\ Exists(u)' => Fits(review'.loaded[u], rows'[u])
  <2>1. u \in Users /\ review'.loaded[u] \in RowType
    BY LoadsTyped DEF TInv, ReviewOK, ReviewType
  <2>2. CASE u \in DOMAIN review.loaded /\ review'.loaded[u] = review.loaded[u]
    <3>1. PICK r \in RowType : r = review.loaded[u]
      BY <2>1, <2>2
    <3>2. /\ rows'[u].status # "absent" /\ Steady(r) /\ Apt(r)'
          /\ Exists(u)' => Fits(r, rows'[u])
      BY <1>1, <2>2, <3>1, LoadedSteady
    <3>3. Apt(review.loaded[u])' <=> Apt(r)'
      BY <2>2, <3>1 DEF Apt
    <3> QED BY <2>2, <3>1, <3>2, <3>3
  <2>3. CASE rows[u].status # "absent" /\ review'.loaded[u] = rows[u]
    <3>1. Steady(rows[u]) /\ Apt(rows[u]) /\ Kept(u)
      BY <2>1 DEF DInv, RowsSteady
    <3>2. Apt(review.loaded[u])' <=> Apt(rows[u])
      BY <2>3 DEF Apt
    <3>3. rows'[u].status # "absent" /\ (Exists(u)' => Fits(rows[u], rows'[u]))
      BY <2>3, <3>1 DEF Kept, Exists
    <3> QED BY <2>3, <3>1, <3>2, <3>3
  <2>4. Carried(u)
    OBVIOUS
  <2> QED BY <2>2, <2>3, <2>4 DEF Carried
<1>4. renew'.pc = "idle"
  BY DEF DInv, ReviewSteady
<1>5. ReviewSteady'
  BY <1>3, <1>4 DEF ReviewSteady
<1> QED BY <1>2, <1>5 DEF DInv

\* The rows of the users stay.
LEMMA RowsStay ==
  ASSUME TInv, TInv', DInv, rows' = rows, now <= now'
  PROVE  \A u \in Users : Kept(u) /\ ~Undone(u)
<1>1. \A u \in Users : rows[u].used <= rows'[u].used
  BY DEF TInv, RowsOK, RowType
<1> QED BY <1>1, SameKept

\* The job begins, turns to the users on hold, of which there are none, and ends.
LEMMA TurnsSwitch ==
  ASSUME TInv, TInv', DInv, ReviewBegin \/ ReviewTurn \/ ReviewEnd
  PROVE  DInv' /\ \A u \in Users : ~Undone(u)
<1>1. /\ rows' = rows /\ handler' = handler /\ renew' = renew /\ now' = now
      /\ review \in ReviewType /\ review.at <= now
      /\ now \in 0..MaxTime /\ now \in Nat /\ now <= now'
  <2>1. rows' = rows /\ handler' = handler /\ renew' = renew /\ now' = now
    BY DEF ReviewBegin, ReviewTurn, ReviewEnd, coreVars
  <2>2. /\ review \in ReviewType /\ review.at <= now /\ now \in 0..MaxTime /\ now \in Nat
    BY UserAssumption DEF TInv, UserAssumption, ReviewOK, DInv, ReviewSteady
  <2> QED BY <2>1, <2>2
<1>2. \A u \in Users : Kept(u) /\ ~Undone(u)
  BY <1>1, RowsStay
<1>3. CASE ReviewBegin
  <2> DEFINE T == {u \in Users : rows[u].status \in {"active"}}
             l == [u \in T |-> rows[u]]
             job == [ReviewIdle EXCEPT !.pc = "active", !.at = now]
  <2>1. job \in ReviewType /\ job.pc = "active" /\ job.at = now
    BY <1>1, IdleTyped DEF ReviewType
  <2>2. review' = [job EXCEPT !.todo = T, !.loaded = l]
    BY <1>3 DEF ReviewBegin, Loading
  <2>3. /\ \A u \in T : rows[u].status = "active" /\ l[u] = rows[u]
        /\ DOMAIN l = T
    OBVIOUS
  <2> HIDE DEF T, l, job
  <2>4. review'.pc = "active" /\ review'.at = now /\ review'.loaded = l
    BY <2>1, <2>2 DEF ReviewType
  <2>5. \A u \in DOMAIN review'.loaded : Carried(u)
    BY <2>3, <2>4 DEF Carried
  <2> QED BY <1>1, <1>2, <2>4, <2>5, PassSteady
<1>4. CASE ReviewTurn
  <2> DEFINE T == {u \in Users : rows[u].status \in {"on_hold"}}
             l == [u \in T |-> rows[u]]
             job == [review EXCEPT !.pc = "hold"]
  <2>1. job \in ReviewType /\ job.pc = "hold" /\ job.at = review.at
    BY <1>1 DEF ReviewType
  <2>2. review' = [job EXCEPT !.todo = T, !.loaded = l]
    BY <1>4 DEF ReviewTurn, Loading
  <2>3. T = {} /\ DOMAIN l = T
    BY DEF DInv, RowsSteady, Steady
  <2> HIDE DEF T, l, job
  <2>4. review'.pc = "hold" /\ review'.at = review.at /\ review'.loaded = l /\ review'.todo = {}
    BY <2>1, <2>2, <2>3 DEF ReviewType
  <2>5. \A u \in DOMAIN review'.loaded : Carried(u)
    BY <2>3, <2>4
  <2> QED BY <1>1, <1>2, <2>4, <2>5, PassSteady
<1>5. CASE ReviewEnd
  <2>1. /\ review'.pc = "idle" /\ review'.at = 0 /\ DOMAIN review'.loaded = {}
    BY <1>5, LoadsTyped DEF ReviewEnd, ReviewIdle
  <2> QED BY <1>1, <1>2, <2>1, PassSteady
<1> QED BY <1>3, <1>4, <1>5

\* One active user is looked at: nobody has a next plan, so nothing is written yet.
LEMMA LooksSwitch ==
  ASSUME TInv, TInv', DInv, NEW u \in Users, ReviewActive(u)
  PROVE  DInv' /\ \A v \in Users : ~Undone(v)
<1> DEFINE r == Seen(review, u)
           rest == [review EXCEPT !.todo = @ \ {u}]
           verdict == Verdict(r, review.at)
           l == [v \in {u} \cup DOMAIN rest.loaded |-> Seen(review, v)]
           cut == [rest EXCEPT !.pc = verdict, !.user = u, !.loaded = l]
<1>1. /\ handler' = handler /\ renew' = renew /\ now' = now /\ review.pc = "active"
      /\ review \in ReviewType /\ review.loaded \in Loads /\ review.at <= now
      /\ review.at \in Nat /\ now \in Nat /\ now <= now'
  <2>1. handler' = handler /\ renew' = renew /\ now' = now /\ review.pc = "active"
    BY DEF ReviewActive
  <2>2. /\ review \in ReviewType /\ review.at <= now /\ now \in Nat
    BY UserAssumption DEF TInv, UserAssumption, ReviewOK, DInv, ReviewSteady
  <2>3. review.loaded \in Loads /\ review.at \in Nat
    BY <2>2, UserAssumption DEF ReviewType, UserAssumption
  <2> QED BY <2>1, <2>2, <2>3
<1>2. r \in RowType /\ r.plan = NoPlan
  <2>1. r \in RowType
    BY <1>1, SeenTyped DEF TInv
  <2>2. r.plan = NoPlan
    BY DEF Seen, DInv, RowsSteady, ReviewSteady, Steady
  <2> QED BY <2>1, <2>2
<1>3. /\ verdict \in {"fine", "limited", "expired"}
      /\ verdict = "limited" => OverLimit(r)
      /\ verdict = "expired" => ExpiredAt(r, now)
  <2> HIDE DEF r
  <2>1. /\ verdict \in {"fine", "limited", "expired"}
        /\ verdict = "limited" => OverLimit(r)
        /\ verdict = "expired" => ExpiredAt(r, review.at)
    BY <1>2 DEF Verdict
  <2>2. ExpiredAt(r, review.at) => ExpiredAt(r, now)
    BY <1>1, <1>2 DEF ExpiredAt, RowType
  <2> QED BY <2>1, <2>2
<1>4. /\ rows' = rows
      /\ \/ review' \in {ReviewIdle, rest}
         \/ verdict \in {"limited", "expired"} /\ r.status \notin Gone /\ review' = cut
  BY <1>3 DEF ReviewActive
<1>5. \A v \in Users : Kept(v) /\ ~Undone(v)
  BY <1>1, <1>4, RowsStay
<1>6. /\ l[u] = r /\ DOMAIN l = {u} \cup DOMAIN rest.loaded
      /\ \A v \in DOMAIN l : l[v] = Seen(review, v)
  OBVIOUS
<1>7. /\ rest.pc = "active" /\ rest.at = review.at /\ rest.loaded = review.loaded
      /\ rest \in ReviewType
  BY <1>1 DEF ReviewType
<1> HIDE DEF rest, verdict, l
<1>8. cut.pc = verdict /\ cut.at = review.at /\ cut.loaded = l /\ cut.user = u
  BY <1>7 DEF ReviewType
<1> HIDE DEF cut
<1>9. CASE review' = ReviewIdle
  <2>1. /\ review'.pc = "idle" /\ review'.at = 0 /\ DOMAIN review'.loaded = {}
    BY <1>9, LoadsTyped DEF ReviewIdle
  <2> QED BY <1>1, <1>5, <2>1, PassSteady
<1>10. CASE review' = rest
  <2>1. \A v \in DOMAIN review'.loaded : Carried(v)
    BY <1>7, <1>10 DEF Carried
  <2> QED BY <1>1, <1>5, <1>7, <1>10, <2>1, PassSteady
<1>11. CASE verdict \in {"limited", "expired"} /\ r.status \notin Gone /\ review' = cut
  <2>1. ASSUME NEW v \in DOMAIN review'.loaded PROVE Carried(v)
    <3>1. v \in {u} \cup DOMAIN review.loaded /\ review'.loaded[v] = Seen(review, v)
      BY <1>6, <1>7, <1>8, <1>11, <2>1
    <3>2. CASE v \in DOMAIN review.loaded
      BY <3>1, <3>2 DEF Seen, Carried
    <3>3. CASE v \notin DOMAIN review.loaded
      <4>1. review'.loaded[v] = rows[v] /\ v = u /\ r = rows[u]
        BY <3>1, <3>3 DEF Seen
      <4> QED BY <1>11, <4>1 DEF Carried, Gone
    <3> QED BY <3>2, <3>3
  <2>2. /\ review'.pc = verdict /\ review'.at = review.at /\ review'.loaded[review'.user] = r
    BY <1>6, <1>8, <1>11
  <2> HIDE DEF r
  <2>3. /\ review'.pc # "start" /\ review'.at <= now /\ review'.pc # "hold"
        /\ review'.pc = "limited" => OverLimit(review'.loaded[review'.user])
        /\ review'.pc = "expired" => ExpiredAt(review'.loaded[review'.user], now)
    BY <1>1, <1>3, <1>11, <2>2
  <2> QED BY <1>1, <1>5, <2>1, <2>3, PassSteady
<1> QED BY <1>4, <1>9, <1>10, <1>11

\* The verdict is written over the row that was loaded: nobody gets active by it.
LEMMA VerdictSwitch ==
  ASSUME TInv, TInv', DInv, ReviewVerdict
  PROVE  DInv' /\ \A v \in Users : ~Undone(v)
<1>1. /\ handler' = handler /\ renew' = renew /\ now' = now
      /\ review.pc \in {"limited", "expired"}
      /\ review \in ReviewType /\ review.at <= now
      /\ now \in Nat /\ now <= now'
  <2>1. /\ handler' = handler /\ renew' = renew /\ now' = now
        /\ review.pc \in {"limited", "expired"}
    BY DEF ReviewVerdict, coreVars
  <2>2. /\ review \in ReviewType /\ review.at <= now /\ now \in Nat
    BY UserAssumption DEF TInv, UserAssumption, ReviewOK, DInv, ReviewSteady
  <2> QED BY <2>1, <2>2
<1>2. PICK u \in Users : u = review.user /\ u \in DOMAIN review.loaded
  <2>1. review.loaded \in Loads /\ review.user \in DOMAIN review.loaded
    BY <1>1 DEF TInv, ReviewOK, ReviewType
  <2> QED BY <2>1, LoadsTyped
<1> DEFINE r == review.loaded[u]
           w == [r EXCEPT !.status = review.pc]
           next == [review EXCEPT !.pc = "active", !.user = NoUser, !.loaded = << >>]
<1>3. r \in RowType
  BY <1>1, <1>2, LoadsTyped DEF ReviewType
<1>4. /\ Steady(r) /\ (Exists(u) => Fits(r, rows[u]))
      /\ review.pc = "limited" => OverLimit(r)
      /\ review.pc = "expired" => ExpiredAt(r, now)
  BY <1>2 DEF DInv, ReviewSteady
<1>5. /\ \/ rows' = rows
         \/ Exists(u) /\ rows' = [rows EXCEPT ![u] = Flush(rows[u], r, w)]
      /\ review' \in {ReviewIdle, next}
  BY <1>2 DEF ReviewVerdict
<1>6. next.pc = "active" /\ next.at = review.at /\ next.loaded = << >>
  BY <1>1 DEF ReviewType
<1>7. /\ w.status = review.pc /\ w.plan = r.plan /\ w.used = r.used
      /\ w.limit = r.limit /\ w.expire = r.expire
  BY <1>3 DEF RowType
<1> HIDE DEF r, w, next
<1>8. Sequel(r, w)
  BY <1>1, <1>4, <1>7 DEF Sequel, Steady, Gone
<1>9. \A v \in Users : Kept(v) /\ ~Undone(v)
  <2>1. CASE rows' = rows
    BY <1>1, <2>1, RowsStay
  <2>2. CASE Exists(u) /\ rows' = [rows EXCEPT ![u] = Flush(rows[u], r, w)]
    <3>1. /\ Kept(u) /\ \A v \in Users \ {u} : rows'[v] = rows[v]
          /\ Undone(u) => w.status = "active" /\ r.status # "active"
      BY <1>1, <1>3, <1>4, <1>8, <2>2, WriteKept
    <3>2. ~Undone(u)
      BY <1>1, <1>7, <3>1
    <3>3. \A v \in Users \ {u} : Kept(v) /\ ~Undone(v)
      <4>1. \A v \in Users \ {u} : rows[v].used <= rows'[v].used
        BY <3>1 DEF TInv, RowsOK, RowType
      <4> QED BY <1>1, <3>1, <4>1, SameKept
    <3> QED BY <3>1, <3>2, <3>3
  <2> QED BY <1>5, <2>1, <2>2
<1>10. /\ review'.pc \in {"idle", "active"} /\ review'.at <= now
       /\ DOMAIN review'.loaded = {}
  <2>1. ReviewIdle.pc = "idle" /\ ReviewIdle.at = 0 /\ DOMAIN ReviewIdle.loaded = {}
    BY LoadsTyped DEF ReviewIdle
  <2> QED BY <1>1, <1>5, <1>6, <2>1, LoadsTyped
<1> QED BY <1>1, <1>9, <1>10, PassSteady

\* The invariant behind DisabledUntilModified holds at first ...
LEMMA DInvInit == Init => DInv
<1> SUFFICES ASSUME Init PROVE DInv
  OBVIOUS
<1>1. \A u \in Users : rows[u].status = "absent" /\ rows[u].limit = NoLimit /\ rows[u].plan = NoPlan
  BY DEF Init, Absent
<1>2. /\ review.pc = "idle" /\ review.at = 0 /\ DOMAIN review.loaded = {} /\ renew.pc = "idle"
      /\ \A h \in Handlers : handler[h].kind = "idle"
  BY LoadsTyped DEF Init, ReviewIdle, RenewIdle, HandlerIdle
<1>3. now = 0
  BY DEF Init
<1>4. RowsSteady
  BY <1>1 DEF RowsSteady, Steady, Apt, NoLimit
<1> QED BY <1>2, <1>3, <1>4 DEF DInv, RequestsSteady, ReviewSteady

\* ... and every step of such an instance keeps it, and makes a disabled user active only
\* when it answers a modify request.
LEMMA DInvNext ==
  ASSUME Switching, TInv, TInv', DInv, [Next]_vars
  PROVE  DInv' /\ \A u \in Users : Undone(u) => Answered(u)
<1>1. ASSUME rows' = rows, handler' = handler, review' = review, renew' = renew, now <= now'
      PROVE  DInv' /\ \A u \in Users : ~Undone(u)
  BY <1>1, RowsStay, SteadyStep, AroundSteady DEF DInv
<1>2. now \in Nat
  BY UserAssumption DEF TInv, UserAssumption
<1>3. ASSUME CoreStep \/ RestartCores \/ Elapse \/ (\E c \in Cores : CoreCrash(c)) \/ UNCHANGED vars
      PROVE  DInv' /\ \A u \in Users : ~Undone(u)
  <2>1. /\ rows' = rows /\ handler' = handler /\ review' = review /\ renew' = renew
        /\ now' \in {now, now + 1}
    BY <1>3 DEF CoreStep, Deliver, RestartBegin, RestartEnd, HealthCheck, RestartCores, Elapse,
                CoreCrash, vars, jobVars
  <2> QED BY <1>1, <1>2, <2>1
<1>4. ASSUME NEW u \in Users, UserRequest(u) \/ Record(u) \/ PeriodEnds(u)
      PROVE  DInv' /\ \A v \in Users : ~Undone(v)
  BY <1>4, RowsSwitch, LoadSwitch DEF UserRequest
<1>5. ASSUME NEW h \in Handlers, RequestStep(h)
      PROVE  DInv' /\ \A u \in Users : Undone(u) => Answered(u)
  BY <1>5, RequestsSwitch
<1>6. ASSUME ResetAll \/ DisableAll \/ ActivateAll
      PROVE  DInv' /\ \A u \in Users : ~Undone(u)
  BY <1>6, RowsSwitch
<1>7. ASSUME ReviewStep PROVE DInv' /\ \A u \in Users : ~Undone(u)
  <2>1. ~ReviewStart /\ \A u \in Users : ~ReviewHold(u)
    BY DEF ReviewStart, ReviewHold, DInv, ReviewSteady
  <2> QED BY <1>7, <2>1, TurnsSwitch, LooksSwitch, VerdictSwitch DEF ReviewStep
<1>8. ~RenewStep
  BY DEF RenewStep, RenewBegin, RenewEnd, RenewUser, DInv, ReviewSteady, Switching
<1>9. ASSUME PanelRestart PROVE DInv' /\ \A u \in Users : ~Undone(u)
  <2>1. /\ rows' = rows /\ now' = now /\ now <= now'
        /\ handler' = [h \in Handlers |-> HandlerIdle]
        /\ review' = ReviewIdle /\ renew' = RenewIdle
    BY <1>2, <1>9 DEF PanelRestart
  <2>2. \A u \in Users : Kept(u) /\ ~Undone(u)
    BY <2>1, RowsStay
  <2>3. RowsSteady'
    BY <2>2 DEF Kept, RowsSteady
  <2>4. RequestsSteady'
    BY <2>1 DEF RequestsSteady, HandlerIdle
  <2>5. /\ review'.pc = "idle" /\ review'.at = 0 /\ DOMAIN review'.loaded = {}
        /\ renew'.pc = "idle"
    BY <2>1, LoadsTyped DEF ReviewIdle, RenewIdle
  <2>6. ReviewSteady'
    BY <1>2, <2>1, <2>5 DEF ReviewSteady
  <2> QED BY <2>2, <2>3, <2>4, <2>6 DEF DInv
<1> QED BY <1>3, <1>4, <1>5, <1>6, <1>7, <1>8, <1>9 DEF Next

\* Where no request but PUT /user makes users active and nobody is on hold or waits for a
\* plan, a disabled user becomes active only by an answer of PUT /user, whatever the review
\* job and the other requests write in the meantime over the rows they loaded before.
THEOREM UserDisabledUntilModified == ASSUME Switching PROVE Spec => DisabledUntilModified
<1>1. TInv /\ TInv' /\ DInv /\ [Next]_vars => DInv'
  BY DInvNext
<1>2. TInv /\ TInv' /\ DInv /\ [Next]_vars =>
         [\A u \in Users : rows[u].status = "disabled" /\ rows'[u].status = "active" =>
             \E h \in Handlers : /\ handler[h].user = u /\ handler[h].kind = "modify"
                                 /\ handler'[h] = HandlerIdle]_vars
  BY DInvNext DEF Undone, Answered
<1> QED BY DInvInit, UserInvariant, <1>1, <1>2, PTL DEF Spec, DisabledUntilModified

==============================================================================
