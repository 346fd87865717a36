--------------------------- MODULE UserDialog_proofs ----------------------------
(***************************************************************************)
(* Proofs about UserDialog, for any users and contents and any number of   *)
(* requests.                                                               *)
(***************************************************************************)
EXTENDS UserDialog, SequenceTheorems, FiniteSetTheorems, TLAPS

Kinds  == Changes \cup {"users", "inbounds", "usage"}
Tables == UNION {[S -> Row] : S \in SUBSET Somebody}
Forms  == [user : Somebody, key : Nat, content : Contents]
Requests == [kind : Kinds, user : Somebody, row : Row,
             state : {"sent", "ok", "failed"}, answer : Tables]

--------------------------------------------------------------------------------
(***************************************************************************)
(* Rows.                                                                   *)
(***************************************************************************)
LEMMA NoRowsAreRows == NoRows \in Tables /\ DOMAIN NoRows = {}
  <1>1. NoRows \in [{} -> Row] /\ DOMAIN NoRows = {}
    BY DEF NoRows
  <1> QED
    BY <1>1 DEF Tables

LEMMA TablesAreRows ==
    ASSUME NEW f \in Tables
    PROVE  /\ IsRows(f) /\ f \in [DOMAIN f -> Row] /\ DOMAIN f \subseteq Somebody
           /\ \A u \in DOMAIN f : f[u] \in Row /\ u \in Somebody
  BY DEF Tables, IsRows

LEMMA RestrictedRows ==
    ASSUME NEW f \in Tables, NEW S \in SUBSET DOMAIN f
    PROVE  /\ Restrict(f, S) \in Tables /\ DOMAIN Restrict(f, S) = S
           /\ \A u \in S : Restrict(f, S)[u] = f[u]
  BY TablesAreRows DEF Restrict, Tables

LEMMA RowPutIn ==
    ASSUME NEW f \in Tables, NEW u \in Somebody, NEW r \in Row
    PROVE  LET g == [v \in DOMAIN f \cup {u} |-> IF v = u THEN r ELSE f[v]]
           IN  /\ g \in Tables /\ DOMAIN g = {u} \cup DOMAIN f /\ g[u] = r
               /\ \A v \in DOMAIN f : v # u => g[v] = f[v]
  <1> DEFINE S == DOMAIN f \cup {u}
             g == [v \in S |-> IF v = u THEN r ELSE f[v]]
  <1>1. S \in SUBSET Somebody /\ \A v \in S : (IF v = u THEN r ELSE f[v]) \in Row
    BY TablesAreRows
  <1> HIDE DEF S
  <1>2. g \in [S -> Row]
    BY <1>1
  <1>3. g \in Tables
    <2> HIDE DEF g
    <2> QED
      BY <1>1, <1>2 DEF Tables
  <1> QED
    BY <1>3 DEF S

LEMMA RowReplaced ==
    ASSUME NEW f \in Tables, NEW u \in DOMAIN f, NEW r \in Row
    PROVE  LET g == [f EXCEPT ![u] = r]
           IN  /\ g \in Tables /\ DOMAIN g = DOMAIN f /\ g[u] = r
               /\ \A v \in DOMAIN f : v # u => g[v] = f[v]
  BY TablesAreRows DEF Tables

\* What a form starts with.
LEMMA FormsStart ==
    ASSUME Parameters
    PROVE  /\ GetDefaultValues \in Forms /\ GetDefaultValues.user = NoUser
           /\ NoContent \in Row
  <1>1. (CHOOSE c \in Contents : TRUE) \in Contents
    BY DEF Parameters
  <1> QED
    BY <1>1 DEF GetDefaultValues, NoContent, Forms, Row, Somebody

LEMMA FormOfRow ==
    ASSUME NEW f \in Tables, NEW u, DOMAIN f = {u}
    PROVE  FormatUser(f) \in Forms /\ FormatUser(f).user = u /\ FormatUser(f).key = f[u].key
  <1>1. (CHOOSE v \in DOMAIN f : TRUE) = u
    OBVIOUS
  <1>2. f[u] \in Row /\ u \in Somebody
    BY TablesAreRows
  <1> QED
    BY <1>1, <1>2 DEF FormatUser, Forms, Row

LEMMA RequestsAreMade ==
    ASSUME NEW kind \in Kinds, NEW u \in Somebody, NEW r \in Row
    PROVE  /\ Request(kind, u, r) \in Requests
           /\ Request(kind, u, r).kind = kind /\ Request(kind, u, r).user = u
           /\ Request(kind, u, r).row = r /\ Request(kind, u, r).state = "sent"
           /\ Request(kind, u, r).answer = NoRows
  BY NoRowsAreRows DEF Request, Requests

LEMMA RefreshesAreMade ==
    ASSUME Parameters, NEW u \in Somebody
    PROVE  /\ ListUsers \in Requests /\ ListUsers.kind = "users"
           /\ ListUsers.state = "sent" /\ ListUsers.answer = NoRows
           /\ UsageOf(u) \in Requests /\ UsageOf(u).kind = "usage" /\ UsageOf(u).user = u
           /\ UsageOf(u).state = "sent" /\ UsageOf(u).answer = NoRows
  <1>1. {"users", "usage"} \subseteq Kinds /\ NoUser \in Somebody
    BY DEF Kinds, Somebody
  <1> QED
    BY <1>1, FormsStart, RequestsAreMade DEF ListUsers, UsageOf

--------------------------------------------------------------------------------
(***************************************************************************)
(* What is on its way.                                                     *)
(***************************************************************************)
\* What RemoveAt of Lists is.
Without(s, i) == SubSeq(s, 1, i - 1) \o SubSeq(s, i + 1, Len(s))

\* A request that is carried out or turned down stays where it is.
LEMMA RequestCarried ==
    ASSUME flight \in Seq(Requests), NEW i \in DOMAIN flight, NEW r \in Requests,
           flight' = [flight EXCEPT ![i] = r]
    PROVE  /\ flight' \in Seq(Requests) /\ Len(flight') = Len(flight)
           /\ DOMAIN flight' = DOMAIN flight
           /\ \A j \in DOMAIN flight : j # i => flight'[j] = flight[j]
           /\ flight'[i] = r
  <1>1. /\ flight \in [1 .. Len(flight) -> Requests] /\ Len(flight) \in Nat
        /\ DOMAIN flight = 1 .. Len(flight)
    BY LenProperties
  <1>2. /\ flight' \in [1 .. Len(flight) -> Requests] /\ flight'[i] = r
        /\ \A j \in DOMAIN flight : j # i => flight'[j] = flight[j]
    BY <1>1
  <1>3. flight' \in Seq(Requests) /\ Len(flight') = Len(flight) /\ DOMAIN flight' = DOMAIN flight
    BY <1>1, <1>2, SeqDef, LenProperties
  <1> QED
    BY <1>2, <1>3

\* A request that is answered leaves, those behind it move up, others are made.
LEMMA RequestAnswered ==
    ASSUME flight \in Seq(Requests), NEW i \in DOMAIN flight,
           NEW next \in Seq(Requests), Answered(i, next)
    PROVE  /\ flight' \in Seq(Requests)
           /\ Len(flight') = Len(flight) - 1 + Len(next)
           /\ DOMAIN flight' = 1 .. Len(flight) - 1 + Len(next)
           /\ \A k \in 1 .. Len(flight) - 1 :
                 flight'[k] = IF k < i THEN flight[k] ELSE flight[k + 1]
           /\ \A k \in DOMAIN next : flight'[Len(flight) - 1 + k] = next[k]
  <1> DEFINE before == SubSeq(flight, 1, i - 1)
             after == SubSeq(flight, i + 1, Len(flight))
             t == before \o after
  <1>1. i \in 1 .. Len(flight) /\ Len(flight) \in Nat
        /\ \A k \in 1 .. Len(flight) : flight[k] \in Requests
    BY LenProperties
  <1>2. /\ before \in Seq(Requests) /\ Len(before) = i - 1
        /\ \A k \in 1 .. i - 1 : before[k] = flight[k]
    BY <1>1, SubSeqProperties
  <1>3. /\ after \in Seq(Requests) /\ Len(after) = Len(flight) - i
        /\ \A k \in 1 .. Len(flight) - i : after[k] = flight[i + k]
    BY <1>1, SubSeqProperties
  <1>4. flight' = t \o next
    BY DEF Answered, RemoveAt
  <1> HIDE DEF before, after
  <1>5. /\ t \in Seq(Requests) /\ Len(t) = Len(flight) - 1
        /\ \A k \in 1 .. Len(flight) - 1 : t[k] = IF k < i THEN before[k] ELSE after[k - (i - 1)]
    <2>1. /\ t \in Seq(Requests) /\ Len(t) = Len(before) + Len(after)
          /\ \A k \in 1 .. Len(before) + Len(after) :
                t[k] = IF k <= Len(before) THEN before[k] ELSE after[k - Len(before)]
      BY <1>2, <1>3, ConcatProperties
    <2>2. Len(before) + Len(after) = Len(flight) - 1 /\ i \in Int
      BY <1>1, <1>2, <1>3
    <2>3. Len(before) = i - 1
      BY <1>2
    <2> HIDE DEF t
    <2> QED
      BY <2>1, <2>2, <2>3
  <1>6. ASSUME NEW k \in 1 .. Len(flight) - 1
        PROVE  t[k] = IF k < i THEN flight[k] ELSE flight[k + 1]
    <2>1. i \in Int /\ k \in Int
      BY <1>1
    <2>2. CASE k < i
      BY <1>2, <1>5, <2>1, <2>2
    <2>3. CASE ~(k < i)
      <3>1. k - (i - 1) \in 1 .. Len(flight) - i /\ i + (k - (i - 1)) = k + 1
        BY <1>1, <2>1, <2>3
      <3> QED
        BY <1>3, <1>5, <2>3, <3>1
    <2> QED
      BY <2>2, <2>3
  <1> HIDE DEF t
  <1>7. /\ flight' \in Seq(Requests) /\ Len(flight') = Len(t) + Len(next)
        /\ \A k \in 1 .. Len(t) + Len(next) :
              flight'[k] = IF k <= Len(t) THEN t[k] ELSE next[k - Len(t)]
    BY <1>4, <1>5, ConcatProperties
  <1>8. Len(next) \in Nat /\ DOMAIN next = 1 .. Len(next)
        /\ DOMAIN flight' = 1 .. Len(flight')
    BY <1>7, LenProperties
  <1>9. \A k \in 1 .. Len(flight) - 1 : flight'[k] = t[k]
    BY <1>1, <1>5, <1>7, <1>8
  <1>10. ASSUME NEW k \in DOMAIN next PROVE flight'[Len(flight) - 1 + k] = next[k]
    <2> DEFINE m == Len(flight) - 1 + k
    <2>1. /\ m \in 1 .. Len(t) + Len(next) /\ ~(m <= Len(t)) /\ m - Len(t) = k
      BY <1>1, <1>5, <1>8
    <2> HIDE DEF m
    <2>2. flight'[m] = next[k]
      BY <1>7, <2>1
    <2> QED
      BY <2>2 DEF m
  <1> QED
    BY <1>5, <1>6, <1>7, <1>8, <1>9, <1>10

\* What is on its way afterwards was before, or is new; and what was stays, but for
\* the request that was answered.
LEMMA RequestsStay ==
    ASSUME flight \in Seq(Requests), NEW i \in DOMAIN flight,
           NEW next \in Seq(Requests), Answered(i, next)
    PROVE  /\ \A k \in DOMAIN flight' :
                 \/ \E j \in DOMAIN flight : j # i /\ flight'[k] = flight[j]
                 \/ \E j \in DOMAIN next : flight'[k] = next[j]
           /\ \A j \in DOMAIN flight : j # i => \E k \in DOMAIN flight' : flight'[k] = flight[j]
  <1>1. /\ i \in 1 .. Len(flight) /\ Len(flight) \in Nat /\ DOMAIN flight = 1 .. Len(flight)
        /\ DOMAIN next = 1 .. Len(next) /\ Len(next) \in Nat /\ i \in Int
    BY LenProperties
  <1>2. /\ DOMAIN flight' = 1 .. Len(flight) - 1 + Len(next)
        /\ \A k \in 1 .. Len(flight) - 1 :
              flight'[k] = IF k < i THEN flight[k] ELSE flight[k + 1]
        /\ \A k \in DOMAIN next : flight'[Len(flight) - 1 + k] = next[k]
    BY RequestAnswered
  <1>3. ASSUME NEW k \in DOMAIN flight'
        PROVE  \/ \E j \in DOMAIN flight : j # i /\ flight'[k] = flight[j]
               \/ \E j \in DOMAIN next : flight'[k] = next[j]
    <2>1. CASE k < i
      BY <1>1, <1>2, <2>1
    <2>2. CASE ~(k < i) /\ k <= Len(flight) - 1
      <3>1. k + 1 \in DOMAIN flight /\ k + 1 # i /\ flight'[k] = flight[k + 1]
        BY <1>1, <1>2, <2>2
      <3> QED
        BY <3>1
    <2>3. CASE k > Len(flight) - 1
      <3> DEFINE m == k - (Len(flight) - 1)
      <3>1. m \in DOMAIN next /\ Len(flight) - 1 + m = k
        BY <1>1, <1>2, <2>3
      <3> HIDE DEF m
      <3> QED
        BY <1>2, <3>1
    <2> QED
      BY <1>1, <1>2, <2>1, <2>2, <2>3
  <1>4. ASSUME NEW j \in DOMAIN flight, j # i
        PROVE  \E k \in DOMAIN flight' : flight'[k] = flight[j]
    <2>1. CASE j < i
      BY <1>1, <1>2, <2>1
    <2>2. CASE j > i
      <3>1. j - 1 \in 1 .. Len(flight) - 1 /\ ~(j - 1 < i) /\ (j - 1) + 1 = j
            /\ j - 1 \in DOMAIN flight'
        BY <1>1, <1>2, <2>2
      <3>2. flight'[j - 1] = flight[j]
        BY <1>2, <3>1
      <3> QED
        BY <3>1, <3>2
    <2> QED
      BY <1>1, <1>4, <2>1, <2>2
  <1> QED
    BY <1>3, <1>4

\* A request that is sent is the last one.
LEMMA RequestSent ==
    ASSUME flight \in Seq(Requests), NEW r \in Requests, flight' = Append(flight, r)
    PROVE  /\ flight' \in Seq(Requests) /\ Len(flight') = Len(flight) + 1
           /\ DOMAIN flight' = DOMAIN flight \cup {Len(flight) + 1}
           /\ \A k \in DOMAIN flight : flight'[k] = flight[k] /\ k < Len(flight) + 1
           /\ flight'[Len(flight) + 1] = r
           /\ Len(flight) \in Nat /\ DOMAIN flight = 1 .. Len(flight)
  <1>1. /\ flight' \in Seq(Requests) /\ Len(flight') = Len(flight) + 1
        /\ \A k \in 1 .. Len(flight) : flight'[k] = flight[k]
        /\ flight'[Len(flight) + 1] = r
    BY AppendProperties
  <1>2. /\ DOMAIN flight = 1 .. Len(flight) /\ Len(flight) \in Nat
        /\ DOMAIN flight' = 1 .. Len(flight')
    BY <1>1, LenProperties
  <1> QED
    BY <1>1, <1>2

--------------------------------------------------------------------------------
(***************************************************************************)
(* The invariant.                                                          *)
(***************************************************************************)
\* Nobody, or one user.
Holds(s) == s = {} \/ \E u \in Somebody : s = {u}

Shaped ==
    /\ db \in Tables /\ table \in Tables /\ editing \in Tables
    /\ DOMAIN db \subseteq Users
    /\ editing = NoRows \/ \E u \in Somebody : DOMAIN editing = {u}
    /\ Holds(deleting) /\ Holds(resetting) /\ Holds(revoking)
    /\ keys \in Nat /\ saves \in Nat
    /\ flight \in Seq(Requests)
    /\ form \in Forms /\ chart \in Somebody
    /\ creating \in BOOLEAN /\ resettingAll \in BOOLEAN /\ saving \in BOOLEAN
    /\ hasty \in BOOLEAN /\ smooth \in BOOLEAN

\* Every key there is was given out, and the form is of the user the dialog is about.
Keyed(rows) == \A u \in DOMAIN rows : rows[u].key \in 1 .. keys

Sound(r) ==
    /\ r.kind = "create" => r.user # NoUser
    /\ r.kind = "edit" => r.row.key \in 1 .. keys
    /\ r.kind = "revoke" /\ r.state = "ok" => DOMAIN r.answer = {r.user}
    /\ Keyed(r.answer)

KeysAreGivenOut ==
    /\ Keyed(db) /\ Keyed(table) /\ Keyed(editing)
    /\ \A i \in DOMAIN flight : Sound(flight[i])
    /\ IsEditing /\ form.user # NoUser =>
          form.user \in DOMAIN editing /\ form.key \in 1 .. keys

\* A change that was made brings the list with its answer; otherwise the last request
\* for the list brings the rows of the server, or they are in the table.
IsLast(s, kind, k) == s[k].kind = kind /\ \A j \in DOMAIN s : j > k => s[j].kind # kind

TableFollows ==
    smooth =>
        \/ \E k \in DOMAIN flight : flight[k].kind \in Changes /\ flight[k].state = "ok"
        \/ (\A j \in DOMAIN flight : flight[j].kind # "users") /\ table = db
        \/ \E k \in DOMAIN flight :
              IsLast(flight, "users", k) /\ (flight[k].state = "ok" => flight[k].answer = db)

\* The last request for a chart is for the user the dialog is about.
ChartFollows ==
    smooth /\ IsEditing =>
        \/ (\A j \in DOMAIN flight : flight[j].kind # "usage") /\ chart \in DOMAIN editing
        \/ \E k \in DOMAIN flight :
              IsLast(flight, "usage", k) /\ flight[k].user \in DOMAIN editing

\* A change of an administrator who waits is on its way alone, and the copies of a row
\* hold its key or a newer one, but for those that an answer will replace.
LoneChange ==
    ~hasty => \A i, j \in DOMAIN flight : flight[i].kind \in Changes => i = j

NewerKey(user, key) == user \in DOMAIN db => key >= db[user].key

Replaces(r) == r.kind \in {"create", "edit", "revoke"} /\ r.state = "ok"

FlightIsNew ==
    \A i \in DOMAIN flight :
        /\ flight[i].kind = "edit" /\ flight[i].state = "sent" =>
              NewerKey(flight[i].user, flight[i].row.key)
        /\ flight[i].kind = "revoke" /\ flight[i].state = "ok" =>
              NewerKey(flight[i].user, flight[i].answer[flight[i].user].key)

FormIsNew ==
    IsEditing /\ (\A i \in DOMAIN flight : ~Replaces(flight[i])) =>
        NewerKey(form.user, form.key)

CopiesAreNew ==
    /\ LoneChange
    /\ ~hasty /\ smooth => FlightIsNew /\ FormIsNew

Inv == Shaped /\ KeysAreGivenOut /\ TableFollows /\ ChartFollows /\ CopiesAreNew

LEMMA RequestFacts ==
    ASSUME Shaped, NEW i \in DOMAIN flight
    PROVE  /\ flight[i] \in Requests /\ flight[i].kind \in Kinds /\ flight[i].user \in Somebody
           /\ flight[i].row \in Row /\ flight[i].state \in {"sent", "ok", "failed"}
           /\ flight[i].answer \in Tables
  <1>1. flight[i] \in Requests
    BY LenProperties DEF Shaped
  <1> QED
    BY <1>1 DEF Requests

--------------------------------------------------------------------------------
(***************************************************************************)
(* What the server does.                                                   *)
(***************************************************************************)
\* The rows of the server after a request: with the keys given out, a key only changed by
\* an edit or a revocation, the user of a change only there if it is no deletion.
LEMMA RowsServed ==
    ASSUME Shaped, KeysAreGivenOut, NEW i \in DOMAIN flight, Serve(i)
    PROVE  /\ db' \in Tables /\ DOMAIN db' \subseteq Users
           /\ keys' \in Nat /\ keys <= keys'
           /\ \A u \in DOMAIN db' : db'[u].key \in 1 .. keys'
           /\ flight[i].kind \notin Changes => db' = db
           /\ flight[i].kind = "revoke" => flight[i].user \in DOMAIN db'
           /\ \A u \in DOMAIN db \cap DOMAIN db' :
                 (flight[i].kind = "edit" /\ u = flight[i].user) \/ db'[u].key >= db[u].key
           /\ flight[i].kind = "edit" =>
                 \A u \in DOMAIN db \cap DOMAIN db' :
                    IF u = flight[i].user THEN db'[u].key = flight[i].row.key
                    ELSE db'[u] = db[u]
           /\ flight[i].kind \notin {"create", "edit", "revoke"} =>
                 DOMAIN db' \subseteq DOMAIN db /\ \A u \in DOMAIN db' : db'[u] = db[u]
  <1> DEFINE r == flight[i]
             kind == r.kind
  <1>1. /\ r \in Requests /\ kind \in Kinds /\ r.user \in Somebody /\ r.row \in Row
        /\ r.row.key \in Nat
    BY RequestFacts DEF Row
  <1>2. /\ db \in Tables /\ DOMAIN db \subseteq Users /\ keys \in Nat
        /\ \A u \in DOMAIN db : db[u] \in Row /\ db[u].key \in 1 .. keys
    BY TablesAreRows DEF Shaped, KeysAreGivenOut, Keyed
  <1>3. /\ Accepts(r)
        /\ keys' = IF kind \in {"create", "revoke"} THEN keys + 1 ELSE keys
    BY DEF Serve
  <1>4. keys' \in Nat /\ keys <= keys' /\ (kind \in {"create", "revoke"} => keys' = keys + 1)
    BY <1>2, <1>3
  <1>5. CASE kind = "create"
    <2> DEFINE new == [r.row EXCEPT !.key = keys + 1]
    <2>1. new \in Row /\ new.key = keys + 1
      BY <1>1, <1>2 DEF Row
    <2> HIDE DEF new
    <2>2. db' = [u \in DOMAIN db \cup {r.user} |-> IF u = r.user THEN new ELSE db[u]]
      BY <1>5 DEF Serve, new
    <2>3. r.user \notin DOMAIN db /\ r.user # NoUser
      BY <1>3, <1>5 DEF Accepts, KeysAreGivenOut, Sound
    <2>4. /\ db' \in Tables /\ DOMAIN db' = {r.user} \cup DOMAIN db /\ db'[r.user] = new
          /\ \A v \in DOMAIN db : v # r.user => db'[v] = db[v]
      BY <1>1, <1>2, <2>1, <2>2, RowPutIn
    <2>5. r.user \in Users
      BY <1>1, <2>3 DEF Somebody
    <2>6. kind \in Changes
      BY <1>5 DEF Changes, Saves
    <2> HIDE DEF r, kind
    <2>7. \A u \in DOMAIN db \cap DOMAIN db' : db'[u].key >= db[u].key
      BY <1>2, <2>3, <2>4
    <2>8. \A u \in DOMAIN db' : db'[u].key \in 1 .. keys'
      BY <1>2, <1>4, <1>5, <2>1, <2>4
    <2> QED
      BY <1>2, <1>4, <1>5, <2>4, <2>5, <2>6, <2>7, <2>8 DEF r, kind
  <1>6. CASE kind = "edit"
    <2>1. db' = [db EXCEPT ![r.user] = r.row] /\ r.user \in DOMAIN db /\ keys' = keys
      BY <1>3, <1>6 DEF Serve, Accepts
    <2>2. /\ db' \in Tables /\ DOMAIN db' = DOMAIN db /\ db'[r.user] = r.row
          /\ \A v \in DOMAIN db : v # r.user => db'[v] = db[v]
      BY <1>1, <1>2, <2>1, RowReplaced
    <2>3. r.row.key \in 1 .. keys
      BY <1>6 DEF KeysAreGivenOut, Sound
    <2>4. kind \in Changes
      BY <1>6 DEF Changes, Saves
    <2> HIDE DEF r, kind
    <2> QED
      BY <1>2, <1>4, <1>6, <2>1, <2>2, <2>3, <2>4 DEF r, kind
  <1>7. CASE kind = "revoke"
    <2> DEFINE new == [db[r.user] EXCEPT !.key = keys + 1]
    <2>1. r.user \in DOMAIN db
      BY <1>3, <1>7 DEF Accepts
    <2>2. new \in Row /\ new.key = keys + 1
      BY <1>2, <2>1 DEF Row
    <2>3. db' = [db EXCEPT ![r.user] = new]
      BY <1>7 DEF Serve
    <2> HIDE DEF new, r
    <2>4. /\ db' \in Tables /\ DOMAIN db' = DOMAIN db /\ db'[r.user] = new
          /\ \A v \in DOMAIN db : v # r.user => db'[v] = db[v]
      BY <1>2, <2>1, <2>2, <2>3, RowReplaced
    <2>5. kind \in Changes
      BY <1>7 DEF Changes, Saves
    <2> HIDE DEF kind
    <2>6. \A u \in DOMAIN db : db'[u].key >= db[u].key /\ db'[u].key \in 1 .. keys'
      BY <1>2, <1>4, <1>7, <2>2, <2>4
    <2> QED
      BY <1>2, <1>4, <1>7, <2>1, <2>4, <2>5, <2>6 DEF r, kind
  <1>8. CASE kind = "delete"
    <2>1. db' = Restrict(db, DOMAIN db \ {r.user}) /\ keys' = keys
      BY <1>3, <1>8 DEF Serve
    <2>2. /\ db' \in Tables /\ DOMAIN db' = DOMAIN db \ {r.user}
          /\ \A u \in DOMAIN db' : db'[u] = db[u]
      BY <1>2, <2>1, RestrictedRows
    <2>3. kind \in Changes
      BY <1>8 DEF Changes, Saves
    <2>4. DOMAIN db' \subseteq DOMAIN db /\ keys' = keys
      BY <2>1, <2>2
    <2>5. ASSUME NEW u \in DOMAIN db'
          PROVE  db'[u].key >= db[u].key /\ db'[u].key \in 1 .. keys'
      <3>1. db'[u] = db[u] /\ db[u].key \in 1 .. keys
        BY <1>2, <2>2, <2>4
      <3>2. db[u].key \in Int
        BY <1>2, <3>1
      <3> QED
        BY <2>4, <3>1, <3>2
    <2> QED
      BY <1>2, <1>4, <1>8, <2>2, <2>3, <2>4, <2>5
  <1>9. CASE kind \notin {"create", "edit", "revoke", "delete"}
    <2>1. db' = db /\ keys' = keys
      BY <1>3, <1>9 DEF Serve
    <2>2. \A u \in DOMAIN db : db'[u].key >= db[u].key /\ db'[u].key \in 1 .. keys'
      BY <1>2, <2>1
    <2> QED
      BY <1>2, <1>4, <1>9, <2>1, <2>2
  <1> QED
    BY <1>5, <1>6, <1>7, <1>8, <1>9

\* The request that was carried out, and its answer.
LEMMA AnswerServed ==
    ASSUME Shaped, KeysAreGivenOut, NEW i \in DOMAIN flight, Serve(i)
    PROVE  /\ flight' \in Seq(Requests) /\ Len(flight') = Len(flight)
           /\ DOMAIN flight' = DOMAIN flight
           /\ \A j \in DOMAIN flight : j # i => flight'[j] = flight[j]
           /\ flight'[i].kind = flight[i].kind /\ flight'[i].user = flight[i].user
           /\ flight'[i].row = flight[i].row /\ flight[i].state = "sent"
           /\ flight'[i].state = "ok"
           /\ flight[i].kind = "users" => flight'[i].answer = db'
           /\ flight[i].kind = "revoke" =>
                 /\ DOMAIN flight'[i].answer = {flight[i].user}
                 /\ flight'[i].answer[flight[i].user] = db'[flight[i].user]
           /\ \A u \in DOMAIN flight'[i].answer : flight'[i].answer[u].key \in 1 .. keys'
  <1> DEFINE answer == IF flight[i].kind = "revoke" THEN Restrict(db', {flight[i].user})
                       ELSE IF flight[i].kind = "users" THEN db' ELSE NoRows
             r == [flight[i] EXCEPT !.state = "ok", !.answer = answer]
  <1>1. flight' = [flight EXCEPT ![i] = r] /\ flight[i].state = "sent" /\ flight \in Seq(Requests)
    BY DEF Serve, Shaped
  <1>2. /\ db' \in Tables /\ \A u \in DOMAIN db' : db'[u].key \in 1 .. keys'
        /\ flight[i].kind = "revoke" => flight[i].user \in DOMAIN db'
    BY RowsServed
  <1>3. CASE flight[i].kind = "revoke"
    <2>1. answer = Restrict(db', {flight[i].user})
      BY <1>3
    <2>2. /\ answer \in Tables /\ DOMAIN answer = {flight[i].user}
          /\ answer[flight[i].user] = db'[flight[i].user]
      BY <1>2, <1>3, <2>1, RestrictedRows
    <2> HIDE DEF answer
    <2>3. /\ r \in Requests /\ r.kind = flight[i].kind /\ r.user = flight[i].user
          /\ r.row = flight[i].row /\ r.state = "ok" /\ r.answer = answer
      BY <2>2, RequestFacts DEF Requests
    <2> HIDE DEF r
    <2>4. /\ flight' \in Seq(Requests) /\ Len(flight') = Len(flight)
          /\ DOMAIN flight' = DOMAIN flight
          /\ \A j \in DOMAIN flight : j # i => flight'[j] = flight[j]
          /\ flight'[i] = r
      BY <1>1, <2>3, RequestCarried
    <2> QED
      BY <1>1, <1>2, <1>3, <2>2, <2>3, <2>4
  <1>4. CASE flight[i].kind # "revoke"
    <2>1. /\ answer \in Tables /\ (flight[i].kind = "users" => answer = db')
          /\ answer = db' \/ answer = NoRows
      BY <1>2, <1>4, NoRowsAreRows
    <2>2. \A u \in DOMAIN answer : answer[u].key \in 1 .. keys'
      BY <1>2, <2>1, NoRowsAreRows
    <2> HIDE DEF answer
    <2>3. /\ r \in Requests /\ r.kind = flight[i].kind /\ r.user = flight[i].user
          /\ r.row = flight[i].row /\ r.state = "ok" /\ r.answer = answer
      BY <2>1, RequestFacts DEF Requests
    <2> HIDE DEF r
    <2>4. /\ flight' \in Seq(Requests) /\ Len(flight') = Len(flight)
          /\ DOMAIN flight' = DOMAIN flight
          /\ \A j \in DOMAIN flight : j # i => flight'[j] = flight[j]
          /\ flight'[i] = r
      BY <1>1, <2>3, RequestCarried
    <2> QED
      BY <1>1, <1>4, <2>1, <2>2, <2>3, <2>4
  <1> QED
    BY <1>3, <1>4

--------------------------------------------------------------------------------
(***************************************************************************)
(* The invariant holds: types and keys.                                    *)
(***************************************************************************)
\* The requests that an answer brings.
Refreshes(next) ==
    \/ next = << >>
    \/ next = <<ListUsers>>
    \/ \E u \in Somebody : next = <<ListUsers, UsageOf(u)>>

LEMMA RefreshesAreRequests ==
    ASSUME Parameters, NEW next, Refreshes(next)
    PROVE  /\ next \in Seq(Requests)
           /\ \A k \in DOMAIN next :
                 /\ next[k].kind \in {"users", "usage"} /\ next[k].state = "sent"
                 /\ next[k].answer = NoRows
  <1>1. CASE next = << >>
    BY <1>1, EmptySeq
  <1>2. CASE next = <<ListUsers>>
    BY <1>2, FormsStart, RefreshesAreMade DEF Somebody
  <1>3. ASSUME NEW u \in Somebody, next = <<ListUsers, UsageOf(u)>>
        PROVE  /\ next \in Seq(Requests)
               /\ \A k \in DOMAIN next :
                     /\ next[k].kind \in {"users", "usage"} /\ next[k].state = "sent"
                     /\ next[k].answer = NoRows
    BY <1>3, RefreshesAreMade
  <1> QED
    BY <1>1, <1>2, <1>3 DEF Refreshes

LEMMA AnsweredSound ==
    ASSUME Parameters, Shaped, KeysAreGivenOut, NEW i \in DOMAIN flight, NEW next,
           Refreshes(next), Answered(i, next), UNCHANGED keys
    PROVE  flight' \in Seq(Requests) /\ \A k \in DOMAIN flight' : Sound(flight[k])'
  <1>1. /\ next \in Seq(Requests) /\ flight' \in Seq(Requests)
        /\ \A k \in DOMAIN flight' :
              \/ \E j \in DOMAIN flight : flight'[k] = flight[j]
              \/ \E j \in DOMAIN next : flight'[k] = next[j]
    BY RefreshesAreRequests, RequestAnswered, RequestsStay DEF Shaped
  <1>2. ASSUME NEW k \in DOMAIN flight' PROVE Sound(flight[k])'
    <2>1. ASSUME NEW j \in DOMAIN flight, flight'[k] = flight[j] PROVE Sound(flight[k])'
      BY <2>1 DEF KeysAreGivenOut, Sound, Keyed
    <2>2. ASSUME NEW j \in DOMAIN next, flight'[k] = next[j] PROVE Sound(flight[k])'
      BY <2>2, RefreshesAreRequests, NoRowsAreRows DEF Sound, Keyed
    <2> QED
      BY <1>1, <2>1, <2>2
  <1> QED
    BY <1>1, <1>2

LEMMA SentSound ==
    ASSUME Shaped, KeysAreGivenOut, NEW r \in Requests, flight' = Append(flight, r),
           Sound(r), UNCHANGED keys
    PROVE  flight' \in Seq(Requests) /\ \A k \in DOMAIN flight' : Sound(flight[k])'
  <1>1. /\ flight' \in Seq(Requests)
        /\ DOMAIN flight' = DOMAIN flight \cup {Len(flight) + 1}
        /\ \A k \in DOMAIN flight : flight'[k] = flight[k]
        /\ flight'[Len(flight) + 1] = r
    BY RequestSent DEF Shaped
  <1>2. ASSUME NEW k \in DOMAIN flight' PROVE Sound(flight[k])'
    <2>1. CASE k \in DOMAIN flight
      BY <1>1, <2>1 DEF KeysAreGivenOut, Sound, Keyed
    <2>2. CASE k = Len(flight) + 1
      BY <1>1, <2>2 DEF Sound, Keyed
    <2> QED
      BY <1>1, <2>1, <2>2
  <1> QED
    BY <1>1, <1>2

\* A request that fails.
Fails(i) ==
    /\ flight[i].state # "failed"
    /\ flight' = [flight EXCEPT ![i].state = "failed"]
    /\ (smooth' = smooth /\ flight[i].state = "sent") \/ smooth' = FALSE
    /\ UNCHANGED <<db, keys, table, dialogVars, form, saving, chart, saves, hasty>>

LEMMA FailuresFail ==
    ASSUME NEW i, Reject(i) \/ Lose(i)
    PROVE  Fails(i)
  BY DEF Reject, Lose, Fails, pathVars

LEMMA RequestFailed ==
    ASSUME Shaped, NEW i \in DOMAIN flight, Fails(i)
    PROVE  /\ flight' \in Seq(Requests) /\ Len(flight') = Len(flight)
           /\ DOMAIN flight' = DOMAIN flight
           /\ \A j \in DOMAIN flight : j # i => flight'[j] = flight[j]
           /\ flight'[i].kind = flight[i].kind /\ flight'[i].user = flight[i].user
           /\ flight'[i].row = flight[i].row /\ flight'[i].state = "failed"
           /\ flight'[i].answer = flight[i].answer
  <1> DEFINE r == [flight[i] EXCEPT !.state = "failed"]
  <1>1. /\ r \in Requests /\ r.kind = flight[i].kind /\ r.user = flight[i].user
        /\ r.row = flight[i].row /\ r.state = "failed" /\ r.answer = flight[i].answer
    BY RequestFacts DEF Requests
  <1>2. flight' = [flight EXCEPT ![i] = r] /\ flight \in Seq(Requests)
    BY DEF Fails, Shaped
  <1> HIDE DEF r
  <1>3. /\ flight' \in Seq(Requests) /\ Len(flight') = Len(flight)
        /\ DOMAIN flight' = DOMAIN flight
        /\ \A j \in DOMAIN flight : j # i => flight'[j] = flight[j]
        /\ flight'[i] = r
    BY <1>1, <1>2, RequestCarried
  <1> QED
    BY <1>1, <1>3

\* Setting editingUser to one row.
LEMMA EditShaped ==
    ASSUME NEW rows \in Tables, NEW u \in Somebody, DOMAIN rows = {u},
           Keyed(rows), UNCHANGED keys, Edit(rows)
    PROVE  /\ editing' \in Tables /\ \E v \in Somebody : DOMAIN editing' = {v}
           /\ form' \in Forms /\ Keyed(editing)'
           /\ form'.user = u /\ form'.key = rows[u].key /\ editing' = rows
           /\ form'.user \in DOMAIN editing' /\ form'.key \in 1 .. keys'
  BY FormOfRow DEF Edit, Keyed

\* The form and the dialog after what closes or empties them.
LEMMA FormReset ==
    ASSUME Parameters, Shaped, KeysAreGivenOut, UNCHANGED keys, form' = GetDefaultValues,
           editing' = NoRows \/ UNCHANGED editing
    PROVE  /\ editing' \in Tables /\ form' \in Forms /\ Keyed(editing)'
           /\ editing' = NoRows \/ \E v \in Somebody : DOMAIN editing' = {v}
           /\ form'.user = NoUser
  BY FormsStart, NoRowsAreRows DEF Shaped, KeysAreGivenOut, Keyed

TypedInv == Shaped /\ KeysAreGivenOut

LEMMA ServeTyped ==
    ASSUME Parameters, TypedInv, NEW i \in DOMAIN flight, Serve(i)
    PROVE  TypedInv'
  <1> USE DEF TypedInv
  <1>1. /\ db' \in Tables /\ DOMAIN db' \subseteq Users /\ keys' \in Nat /\ keys <= keys'
        /\ keys \in Nat /\ Keyed(db)'
    BY RowsServed DEF Keyed, Shaped
  <1>2. UNCHANGED <<table, creating, editing, deleting, resetting, revoking, resettingAll, form,
                    saving, chart, saves, hasty, smooth>>
    BY DEF Serve, dialogVars, pathVars
  <1>3. \A k \in Nat : k \in 1 .. keys => k \in 1 .. keys'
    BY <1>1
  <1>4. Keyed(table)' /\ Keyed(editing)'
    BY <1>1, <1>2 DEF KeysAreGivenOut, Keyed
  <1>5. ASSUME NEW k \in DOMAIN flight' PROVE Sound(flight[k])'
    <2>1. DOMAIN flight' = DOMAIN flight
      BY AnswerServed
    <2>2. CASE k # i
      <3>1. flight'[k] = flight[k] /\ Sound(flight[k])
        BY <2>1, <2>2, AnswerServed DEF KeysAreGivenOut
      <3> QED
        BY <1>1, <3>1 DEF Sound, Keyed
    <2>3. CASE k = i
      <3>1. /\ flight'[i].kind = flight[i].kind /\ flight'[i].user = flight[i].user
            /\ flight'[i].row = flight[i].row /\ Sound(flight[i])
            /\ flight[i].kind = "revoke" => DOMAIN flight'[i].answer = {flight[i].user}
            /\ \A u \in DOMAIN flight'[i].answer : flight'[i].answer[u].key \in 1 .. keys'
        BY AnswerServed DEF KeysAreGivenOut
      <3> QED
        BY <1>1, <2>3, <3>1 DEF Sound, Keyed
    <2> QED
      BY <2>2, <2>3
  <1>6. flight' \in Seq(Requests)
    BY AnswerServed
  <1>7. Shaped'
    BY <1>1, <1>2, <1>6 DEF Shaped, Holds
  <1>8. IsEditing' /\ form'.user # NoUser =>
          form'.user \in DOMAIN editing' /\ form'.key \in 1 .. keys'
    BY <1>1, <1>2 DEF KeysAreGivenOut, IsEditing
  <1> QED
    BY <1>1, <1>4, <1>5, <1>7, <1>8 DEF KeysAreGivenOut

LEMMA FailsTyped ==
    ASSUME Parameters, TypedInv, NEW i \in DOMAIN flight, Fails(i)
    PROVE  TypedInv'
  <1> USE DEF TypedInv
  <1>1. /\ UNCHANGED <<db, keys, table, creating, editing, deleting, resetting, revoking,
                       resettingAll, form, saving, chart, saves, hasty>>
        /\ smooth' \in BOOLEAN
    BY DEF Fails, dialogVars, Shaped
  <1>2. ASSUME NEW k \in DOMAIN flight' PROVE Sound(flight[k])'
    <2>1. CASE k # i
      <3>1. flight'[k] = flight[k] /\ Sound(flight[k])
        BY <2>1, RequestFailed DEF KeysAreGivenOut
      <3> QED
        BY <1>1, <3>1 DEF Sound, Keyed
    <2>2. CASE k = i
      <3>1. /\ flight'[i].kind = flight[i].kind /\ flight'[i].user = flight[i].user
            /\ flight'[i].row = flight[i].row /\ flight'[i].state = "failed"
            /\ flight'[i].answer = flight[i].answer /\ Sound(flight[i])
        BY RequestFailed DEF KeysAreGivenOut
      <3> QED
        BY <1>1, <2>2, <3>1 DEF Sound, Keyed
    <2> QED
      BY <2>1, <2>2
  <1>3. flight' \in Seq(Requests)
    BY RequestFailed
  <1>4. Shaped'
    BY <1>1, <1>3 DEF Shaped, Holds
  <1> QED
    BY <1>1, <1>2, <1>4 DEF KeysAreGivenOut, Keyed, IsEditing

\* An answer: what it brings, and what it does to the dialog and the form.
Effect(i, next) ==
    \/ next = << >> /\ flight[i].kind = "users" /\ flight[i].state = "ok"
       /\ table' = flight[i].answer /\ UNCHANGED <<editing, form, chart>>
    \/ next = << >> /\ flight[i].kind = "inbounds"
       /\ form' = GetDefaultValues /\ UNCHANGED <<table, editing, chart>>
    \/ next = << >> /\ flight[i].kind = "usage" /\ flight[i].state = "ok"
       /\ chart' = flight[i].user /\ UNCHANGED <<table, editing, form>>
    \/ next = <<ListUsers>> /\ flight[i].kind \in Saves
       /\ form' = GetDefaultValues /\ editing' = NoRows /\ UNCHANGED <<table, chart>>
    \/ next = <<ListUsers>> /\ flight[i].kind \in {"delete", "reset", "reset_all"}
       /\ UNCHANGED <<table, editing, form, chart>>
    \/ next = <<ListUsers, UsageOf(flight[i].user)>>
       /\ flight[i].kind = "revoke" /\ flight[i].state = "ok"
       /\ Edit(flight[i].answer) /\ UNCHANGED <<table, chart>>
    \/ next = << >> /\ flight[i].state = "failed"
       /\ (flight[i].kind \in {"users", "usage"} => ~smooth')
       /\ UNCHANGED <<table, editing, form, chart>>

Delivers(i, next) ==
    /\ Answered(i, next)
    /\ Refreshes(next)
    /\ Effect(i, next)
    /\ smooth' \in BOOLEAN /\ (smooth' => smooth /\ i = 1)
    /\ creating' \in BOOLEAN /\ resettingAll' \in BOOLEAN /\ saving' \in BOOLEAN
    /\ deleting' \in {deleting, {}} /\ resetting' \in {resetting, {}}
    /\ revoking' \in {revoking, {}}
    /\ UNCHANGED <<db, keys, saves, hasty>>

LEMMA DeliverDelivers ==
    ASSUME Shaped, NEW i \in DOMAIN flight, Deliver(i)
    PROVE  \E next : Delivers(i, next)
  <1> USE DEF Delivers, Effect, Arrived, Refreshes, Shaped
  <1>1. CASE UsersArrive(i)
    <2>1. Delivers(i, << >>)
      BY <1>1 DEF UsersArrive, dialogVars
    <2> QED
      BY <2>1
  <1>2. CASE InboundsArrive(i)
    <2>1. Delivers(i, << >>)
      BY <1>2 DEF InboundsArrive, dialogVars
    <2> QED
      BY <2>1
  <1>3. CASE UsageArrives(i)
    <2>1. Delivers(i, << >>)
      BY <1>3 DEF UsageArrives, dialogVars
    <2> QED
      BY <2>1
  <1>4. CASE Saved(i)
    <2>1. Delivers(i, <<ListUsers>>)
      BY <1>4 DEF Saved, OnClose
    <2> QED
      BY <2>1
  <1>5. CASE DeleteUser(i)
    <2>1. Delivers(i, <<ListUsers>>)
      BY <1>5 DEF DeleteUser
    <2> QED
      BY <2>1
  <1>6. CASE ResetDataUsage(i)
    <2>1. Delivers(i, <<ListUsers>>)
      BY <1>6 DEF ResetDataUsage
    <2> QED
      BY <2>1
  <1>7. CASE ResetAllUsage(i)
    <2>1. Delivers(i, <<ListUsers>>)
      BY <1>7 DEF ResetAllUsage
    <2> QED
      BY <2>1
  <1>8. CASE RevokeSubscription(i)
    <2>1. Delivers(i, <<ListUsers, UsageOf(flight[i].user)>>)
      BY <1>8, RequestFacts DEF RevokeSubscription
    <2> QED
      BY <2>1
  <1>9. CASE Failed(i)
    <2>1. Delivers(i, << >>)
      BY <1>9 DEF Failed, dialogVars
    <2> QED
      BY <2>1
  <1> QED
    BY <1>1, <1>2, <1>3, <1>4, <1>5, <1>6, <1>7, <1>8, <1>9 DEF Deliver

LEMMA DeliversTyped ==
    ASSUME Parameters, TypedInv, NEW i \in DOMAIN flight, NEW next, Delivers(i, next)
    PROVE  TypedInv'
  <1> USE DEF TypedInv
  <1>1. /\ flight' \in Seq(Requests) /\ \A k \in DOMAIN flight' : Sound(flight[k])'
        /\ UNCHANGED <<db, keys, saves, hasty>>
        /\ smooth' \in BOOLEAN
        /\ creating' \in BOOLEAN /\ resettingAll' \in BOOLEAN /\ saving' \in BOOLEAN
    BY AnsweredSound DEF Delivers
  <1>2. Holds(deleting)' /\ Holds(resetting)' /\ Holds(revoking)'
    BY DEF Delivers, Shaped, Holds
  <1>3. Keyed(db)' /\ db' \in Tables /\ DOMAIN db' \subseteq Users
    BY <1>1 DEF Shaped, KeysAreGivenOut, Keyed
  <1>4. SUFFICES /\ table' \in Tables /\ Keyed(table)' /\ editing' \in Tables /\ Keyed(editing)'
                 /\ editing' = NoRows \/ \E u \in Somebody : DOMAIN editing' = {u}
                 /\ form' \in Forms /\ chart' \in Somebody
                 /\ IsEditing' /\ form'.user # NoUser =>
                       form'.user \in DOMAIN editing' /\ form'.key \in 1 .. keys'
    BY <1>1, <1>2, <1>3 DEF Shaped, KeysAreGivenOut
  <1>5. /\ flight[i].answer \in Tables /\ Keyed(flight[i].answer) /\ flight[i].user \in Somebody
        /\ flight[i].kind = "revoke" /\ flight[i].state = "ok" =>
              DOMAIN flight[i].answer = {flight[i].user}
    BY RequestFacts DEF KeysAreGivenOut, Sound
  <1>6. /\ table' \in Tables /\ Keyed(table)' /\ chart' \in Somebody
    BY <1>1, <1>5 DEF Delivers, Effect, Shaped, KeysAreGivenOut, Keyed
  <1>7. CASE UNCHANGED <<editing, form>>
    BY <1>1, <1>6, <1>7 DEF Shaped, KeysAreGivenOut, Keyed, IsEditing
  <1>8. CASE form' = GetDefaultValues /\ (editing' = NoRows \/ UNCHANGED editing)
    BY <1>1, <1>6, <1>8, FormReset
  <1>9. CASE flight[i].kind = "revoke" /\ flight[i].state = "ok" /\ Edit(flight[i].answer)
    BY <1>1, <1>5, <1>6, <1>9, EditShaped
  <1> QED
    BY <1>7, <1>8, <1>9 DEF Delivers, Effect

\* What the administrator does without a request: the dialog stays as it is, is closed,
\* or its form is filled in.
Works ==
    /\ Acts /\ UNCHANGED <<flight, saves>>
    /\ creating' \in BOOLEAN /\ resettingAll' \in BOOLEAN /\ saving' \in BOOLEAN
    /\ Holds(deleting)' /\ Holds(resetting)' /\ Holds(revoking)'
    /\ \/ UNCHANGED <<editing, form>>
       \/ editing' = NoRows /\ form' = GetDefaultValues
       \/ /\ UNCHANGED editing
          /\ form' \in Forms /\ form'.key = form.key
          /\ IsEditing => form'.user = form.user

\* And with a request.
Asks(r) ==
    /\ Acts /\ flight' = Append(flight, r)
    /\ r \in Requests /\ r.state = "sent" /\ r.answer = NoRows
    /\ creating' \in BOOLEAN /\ resettingAll' \in BOOLEAN /\ saving' \in BOOLEAN
    /\ UNCHANGED <<deleting, resetting, revoking>> /\ saves' \in Nat
    /\ \/ /\ r.kind \in Changes /\ UNCHANGED <<editing, form>>
          /\ r.kind = "create" => r.user # NoUser
          /\ r.kind = "edit" =>
                IsEditing /\ r.user = form.user /\ form.user # NoUser /\ r.row.key = form.key
       \/ \E u \in DOMAIN table :
             /\ r.kind = "usage" /\ r.user = u
             /\ Edit(Restrict(table, {u}))

LEMMA WorkWorks ==
    ASSUME Parameters, Shaped,
           \/ OnCreateUser \/ Close \/ OnDeletingUser \/ HandleResetUsage
           \/ HandleRevokeSubscription \/ OnResetAllUsage \/ Cancel
           \/ \E u \in Users \cup {NoUser}, c \in Contents :
                 FillIn([form EXCEPT !.user = u, !.content = c])
    PROVE  Works
  <1> USE DEF Works, Shaped
  <1>1. CASE OnCreateUser \/ OnResetAllUsage
    BY <1>1 DEF OnCreateUser, OnResetAllUsage, Holds
  <1>2. CASE Close
    BY <1>2 DEF Close, OnClose, Holds
  <1>3. IsEditing => Holds(DOMAIN editing)
    BY DEF IsEditing, Holds
  <1>4. CASE OnDeletingUser
    <2>1. Holds(deleting')
      BY <1>3, <1>4 DEF OnDeletingUser
    <2> QED
      BY <1>4, <2>1 DEF OnDeletingUser, OnClose, Holds
  <1>5. CASE HandleResetUsage
    <2>1. Holds(resetting')
      BY <1>3, <1>5 DEF HandleResetUsage
    <2> QED
      BY <1>5, <2>1 DEF HandleResetUsage, Holds
  <1>6. CASE HandleRevokeSubscription
    <2>1. Holds(revoking')
      BY <1>3, <1>6 DEF HandleRevokeSubscription
    <2> QED
      BY <1>6, <2>1 DEF HandleRevokeSubscription, Holds
  <1>7. CASE Cancel
    BY <1>7 DEF Cancel, Holds
  <1>8. ASSUME NEW u \in Users \cup {NoUser}, NEW c \in Contents,
               FillIn([form EXCEPT !.user = u, !.content = c])
        PROVE  Works
    <2> DEFINE values == [form EXCEPT !.user = u, !.content = c]
    <2>1. values \in Forms /\ values.key = form.key
      BY DEF Forms, Somebody
    <2> HIDE DEF values
    <2>2. FillIn(values)
      BY <1>8 DEF values
    <2> QED
      BY <2>1, <2>2 DEF FillIn, dialogVars, Holds
  <1> QED
    BY <1>1, <1>2, <1>4, <1>5, <1>6, <1>7, <1>8

LEMMA ConfirmAsks ==
    ASSUME Parameters, Shaped, NEW kind \in {"delete", "reset", "revoke", "reset_all"},
           NEW users \in SUBSET Somebody, Confirm(kind, users)
    PROVE  \E r : Asks(r)
  <1>1. PICK u \in users : Sends(Request(kind, u, NoContent))
    BY DEF Confirm
  <1> DEFINE r == Request(kind, u, NoContent)
  <1>2. kind \in Kinds /\ kind \in Changes /\ u \in Somebody /\ NoContent \in Row
    BY FormsStart DEF Kinds, Changes
  <1>3. r \in Requests /\ r.kind = kind /\ r.state = "sent" /\ r.answer = NoRows
    BY <1>2, RequestsAreMade
  <1>4. Sends(r)
    BY <1>1
  <1> HIDE DEF r
  <1>5. flight' = Append(flight, r) /\ saves' \in Nat
    BY <1>4 DEF Sends, Shaped
  <1>6. Acts /\ UNCHANGED <<editing, form, deleting, resetting, revoking, creating, resettingAll,
                            saving>>
    BY DEF Confirm, dialogVars
  <1>7. Asks(r)
    BY <1>2, <1>3, <1>5, <1>6 DEF Asks, Shaped
  <1> QED
    BY <1>7

LEMMA RequestAsks ==
    ASSUME Parameters, Shaped,
           \/ Submit \/ OnDelete \/ OnReset \/ OnRevoke \/ OnResetAll
           \/ \E u \in DOMAIN table : OnEditingUser(u)
    PROVE  \E r : Asks(r)
  <1>1. CASE Submit
    <2> DEFINE kind == IF IsEditing THEN "edit" ELSE "create"
               row == [key |-> form.key, content |-> form.content]
               r == Request(kind, form.user, row)
    <2>1. /\ kind \in Kinds /\ kind \in Changes /\ kind \in Saves
          /\ form.user \in Somebody /\ row \in Row /\ row.key = form.key
      BY DEF Kinds, Changes, Saves, Shaped, Forms, Row
    <2>2. /\ r \in Requests /\ r.kind = kind /\ r.user = form.user /\ r.row = row
          /\ r.state = "sent" /\ r.answer = NoRows
      <3> HIDE DEF kind, row
      <3> QED
        BY <2>1, RequestsAreMade
    <2>3. Sends(r) /\ Acts /\ form.user # NoUser /\ saving' = TRUE
          /\ UNCHANGED <<editing, form, deleting, resetting, revoking, creating, resettingAll>>
      BY <1>1 DEF Submit, Valid, dialogVars
    <2>4. kind = "edit" => IsEditing
      OBVIOUS
    <2> HIDE DEF kind, row, r
    <2>5. flight' = Append(flight, r) /\ saves' \in Nat
      BY <2>3 DEF Sends, Shaped
    <2>6. Asks(r)
      BY <2>1, <2>2, <2>3, <2>4, <2>5 DEF Asks, Shaped
    <2> QED
      BY <2>6
  <1>2. deleting \subseteq Somebody /\ resetting \subseteq Somebody /\ revoking \subseteq Somebody
    BY DEF Shaped, Holds
  <1>3. CASE OnDelete
    BY <1>2, <1>3, ConfirmAsks DEF OnDelete
  <1>4. CASE OnReset
    BY <1>2, <1>4, ConfirmAsks DEF OnReset
  <1>5. CASE OnRevoke
    BY <1>2, <1>5, ConfirmAsks DEF OnRevoke
  <1>6. CASE OnResetAll
    <2> DEFINE users == {NoUser : x \in {y \in {0} : resettingAll}}
    <2>1. users \subseteq Somebody
      BY DEF Somebody
    <2>2. Confirm("reset_all", users)
      BY <1>6 DEF OnResetAll
    <2> HIDE DEF users
    <2> QED
      BY <2>1, <2>2, ConfirmAsks
  <1>7. ASSUME NEW u \in DOMAIN table, OnEditingUser(u)
        PROVE  \E r : Asks(r)
    <2> DEFINE r == UsageOf(u)
    <2>1. u \in Somebody
      BY TablesAreRows DEF Shaped
    <2>2. /\ r \in Requests /\ r.kind = "usage" /\ r.user = u
          /\ r.state = "sent" /\ r.answer = NoRows
      BY <2>1, RefreshesAreMade
    <2>3. /\ Sends(r) /\ Acts /\ Edit(Restrict(table, {u}))
          /\ UNCHANGED <<deleting, resetting, revoking, creating, resettingAll, saving>>
      BY <1>7 DEF OnEditingUser
    <2> HIDE DEF r
    <2>4. flight' = Append(flight, r) /\ saves' \in Nat
      BY <2>3 DEF Sends, Shaped
    <2>5. Asks(r)
      BY <2>2, <2>3, <2>4 DEF Asks, Shaped
    <2> QED
      BY <2>5
  <1> QED
    BY <1>1, <1>3, <1>4, <1>5, <1>6, <1>7

LEMMA WorksTyped ==
    ASSUME Parameters, TypedInv, Works
    PROVE  TypedInv'
  <1> USE DEF TypedInv
  <1>1. /\ UNCHANGED <<db, keys, table, chart, smooth, flight, saves>> /\ hasty' \in BOOLEAN
    BY DEF Works, Acts, Shaped
  <1>2. /\ Keyed(db)' /\ Keyed(table)' /\ \A k \in DOMAIN flight' : Sound(flight[k])'
    BY <1>1 DEF KeysAreGivenOut, Keyed, Sound
  <1>3. CASE UNCHANGED <<editing, form>>
    BY <1>1, <1>2, <1>3 DEF Works, Shaped, KeysAreGivenOut, Keyed, IsEditing
  <1>4. CASE editing' = NoRows /\ form' = GetDefaultValues
    <2>1. editing' \in Tables /\ form' \in Forms /\ Keyed(editing)' /\ form'.user = NoUser
      BY <1>1, <1>4, FormReset
    <2> QED
      BY <1>1, <1>2, <1>4, <2>1 DEF Works, Shaped, KeysAreGivenOut
  <1>5. CASE /\ UNCHANGED editing
             /\ form' \in Forms /\ form'.key = form.key
             /\ IsEditing => form'.user = form.user
    BY <1>1, <1>2, <1>5 DEF Works, Shaped, KeysAreGivenOut, Keyed, IsEditing
  <1> QED
    BY <1>3, <1>4, <1>5 DEF Works

LEMMA AsksTyped ==
    ASSUME Parameters, TypedInv, NEW r, Asks(r)
    PROVE  TypedInv'
  <1> USE DEF TypedInv
  <1>1. /\ UNCHANGED <<db, keys, table, chart, smooth>> /\ hasty' \in BOOLEAN
        /\ saves' \in Nat
    BY DEF Asks, Acts, Shaped
  <1>2. Keyed(db)' /\ Keyed(table)'
    BY <1>1 DEF KeysAreGivenOut, Keyed
  <1>3. Sound(r)
    BY NoRowsAreRows DEF Asks, Sound, Keyed, KeysAreGivenOut
  <1>4. flight' \in Seq(Requests) /\ \A k \in DOMAIN flight' : Sound(flight[k])'
    BY <1>1, <1>3, SentSound DEF Asks
  <1>5. CASE UNCHANGED <<editing, form>>
    BY <1>1, <1>2, <1>4, <1>5 DEF Asks, Shaped, KeysAreGivenOut, Keyed, IsEditing, Holds
  <1>6. ASSUME NEW u \in DOMAIN table, Edit(Restrict(table, {u}))
        PROVE  TypedInv'
    <2>1. /\ u \in Somebody /\ Restrict(table, {u}) \in Tables
          /\ DOMAIN Restrict(table, {u}) = {u}
          /\ Restrict(table, {u})[u] = table[u]
      BY TablesAreRows, RestrictedRows DEF Shaped
    <2>2. Keyed(Restrict(table, {u}))
      BY <2>1 DEF KeysAreGivenOut, Keyed
    <2>3. /\ editing' \in Tables /\ \E v \in Somebody : DOMAIN editing' = {v}
          /\ form' \in Forms /\ Keyed(editing)'
          /\ form'.user \in DOMAIN editing' /\ form'.key \in 1 .. keys'
      BY <1>1, <1>6, <2>1, <2>2, EditShaped
    <2> QED
      BY <1>1, <1>2, <1>4, <2>3 DEF Asks, Shaped, KeysAreGivenOut, Holds
  <1> QED
    BY <1>5, <1>6 DEF Asks

\* The steps, by what they do.
LEMMA StepKinds ==
    ASSUME Parameters, Shaped, [Next]_vars
    PROVE  \/ \E i \in DOMAIN flight : Serve(i)
           \/ \E i \in DOMAIN flight : Fails(i)
           \/ \E i \in DOMAIN flight : \E next : Delivers(i, next)
           \/ Works
           \/ \E r : Asks(r)
           \/ UNCHANGED vars
  <1>1. ASSUME NEW i \in DOMAIN flight, Reject(i) \/ Lose(i)
        PROVE  \E j \in DOMAIN flight : Fails(j)
    BY <1>1, FailuresFail
  <1>2. ASSUME NEW i \in DOMAIN flight, Deliver(i)
        PROVE  \E j \in DOMAIN flight : \E next : Delivers(j, next)
    BY <1>2, DeliverDelivers
  <1>3. CASE \E i \in DOMAIN flight : Serve(i) \/ Reject(i) \/ Lose(i) \/ Deliver(i)
    BY <1>1, <1>2, <1>3
  <1>4. CASE \/ OnCreateUser \/ Close \/ OnDeletingUser \/ HandleResetUsage
             \/ HandleRevokeSubscription \/ OnResetAllUsage \/ Cancel
             \/ \E u \in Users \cup {NoUser}, c \in Contents :
                   FillIn([form EXCEPT !.user = u, !.content = c])
    BY <1>4, WorkWorks
  <1>5. CASE \/ Submit \/ OnDelete \/ OnReset \/ OnRevoke \/ OnResetAll
             \/ \E u \in DOMAIN table : OnEditingUser(u)
    BY <1>5, RequestAsks
  <1> QED
    BY <1>3, <1>4, <1>5 DEF Next

LEMMA TypedHolds == ASSUME Parameters, TypedInv, [Next]_vars PROVE TypedInv'
  <1>1. CASE UNCHANGED vars
    BY <1>1 DEF TypedInv, Shaped, KeysAreGivenOut, Keyed, Sound, Holds, IsEditing, vars,
                dialogVars, pathVars
  <1> QED
    BY <1>1, StepKinds, ServeTyped, FailsTyped, DeliversTyped, WorksTyped, AsksTyped DEF TypedInv

LEMMA TypedStarts == ASSUME Parameters, Init PROVE TypedInv
  <1>1. PICK there \in SUBSET Users :
           db = [u \in there |-> [key |-> 1, content |-> GetDefaultValues.content]]
    BY DEF Init
  <1>2. GetDefaultValues.content \in Contents
    BY FormsStart DEF Forms
  <1>3. [key |-> 1, content |-> GetDefaultValues.content] \in Row
    BY <1>2 DEF Row
  <1>4. there \in SUBSET Somebody /\ db \in [there -> Row]
    BY <1>1, <1>3 DEF Somebody
  <1>5. db \in Tables /\ DOMAIN db \subseteq Users /\ \A u \in DOMAIN db : db[u].key = 1
    BY <1>1, <1>4 DEF Tables
  <1>6. table \in Tables /\ editing \in Tables /\ editing = NoRows /\ DOMAIN table = {}
        /\ DOMAIN editing = {}
    BY NoRowsAreRows DEF Init
  <1> DEFINE r == Request("inbounds", NoUser, NoContent)
  <1>7. "inbounds" \in Kinds /\ NoUser \in Somebody
    BY DEF Kinds, Somebody
  <1>8. /\ r \in Requests /\ r.kind = "inbounds" /\ r.state = "sent" /\ r.answer = NoRows
        /\ ListUsers \in Requests /\ ListUsers.kind = "users" /\ ListUsers.state = "sent"
        /\ ListUsers.answer = NoRows
    BY <1>7, FormsStart, RequestsAreMade, RefreshesAreMade
  <1> HIDE DEF r
  <1>9. flight = <<ListUsers, r>>
    BY DEF Init, r
  <1>10. flight \in Seq(Requests) /\ \A i \in DOMAIN flight : Sound(flight[i])
    BY <1>8, <1>9, NoRowsAreRows DEF Sound, Keyed
  <1>11. keys = 1 /\ form \in Forms /\ chart \in Somebody /\ ~IsEditing
    BY <1>7, FormsStart DEF Init, IsEditing
  <1>12. Keyed(db) /\ Keyed(table) /\ Keyed(editing)
    <2>1. 1 \in 1 .. keys
      BY <1>11
    <2> QED
      BY <1>5, <1>6, <2>1 DEF Keyed
  <1>13. KeysAreGivenOut
    BY <1>10, <1>11, <1>12 DEF KeysAreGivenOut
  <1>14. Holds(deleting) /\ Holds(resetting) /\ Holds(revoking)
    BY DEF Init, Holds
  <1>15. /\ creating \in BOOLEAN /\ resettingAll \in BOOLEAN /\ saving \in BOOLEAN
         /\ hasty \in BOOLEAN /\ smooth \in BOOLEAN /\ saves \in Nat /\ keys \in Nat
    BY DEF Init
  <1>16. Shaped
    BY <1>5, <1>6, <1>10, <1>11, <1>14, <1>15 DEF Shaped
  <1> QED
    BY <1>13, <1>16 DEF TypedInv

--------------------------------------------------------------------------------
(***************************************************************************)
(* The last request of a kind.                                             *)
(***************************************************************************)
LEMMA PlacesAreNumbers ==
    ASSUME Shaped
    PROVE  DOMAIN flight = 1 .. Len(flight) /\ Len(flight) \in Nat
  BY LenProperties DEF Shaped

\* When the oldest request is answered the others move up by one.
LEMMA Shift ==
    ASSUME Shaped, 1 \in DOMAIN flight, NEW next \in Seq(Requests), Answered(1, next)
    PROVE  /\ \A k \in DOMAIN flight : k # 1 =>
                 k - 1 \in DOMAIN flight' /\ flight'[k - 1] = flight[k]
           /\ \A k \in DOMAIN flight' :
                 \/ k + 1 \in DOMAIN flight /\ flight'[k] = flight[k + 1]
                 \/ k - (Len(flight) - 1) \in DOMAIN next
                    /\ flight'[k] = next[k - (Len(flight) - 1)]
           /\ DOMAIN flight' = 1 .. Len(flight) - 1 + Len(next)
  <1>1. /\ DOMAIN flight = 1 .. Len(flight) /\ Len(flight) \in Nat
        /\ DOMAIN next = 1 .. Len(next) /\ Len(next) \in Nat
    BY PlacesAreNumbers, LenProperties
  <1>2. /\ DOMAIN flight' = 1 .. Len(flight) - 1 + Len(next)
        /\ \A k \in 1 .. Len(flight) - 1 :
              flight'[k] = IF k < 1 THEN flight[k] ELSE flight[k + 1]
        /\ \A k \in DOMAIN next : flight'[Len(flight) - 1 + k] = next[k]
    BY RequestAnswered DEF Shaped
  <1>3. ASSUME NEW k \in DOMAIN flight, k # 1
        PROVE  k - 1 \in DOMAIN flight' /\ flight'[k - 1] = flight[k]
    <2>1. k - 1 \in 1 .. Len(flight) - 1 /\ ~(k - 1 < 1) /\ (k - 1) + 1 = k
      BY <1>1, <1>3
    <2>2. flight'[k - 1] = flight[(k - 1) + 1]
      BY <1>2, <2>1
    <2> QED
      BY <1>1, <1>2, <2>1, <2>2
  <1>4. ASSUME NEW k \in DOMAIN flight'
        PROVE  \/ k + 1 \in DOMAIN flight /\ flight'[k] = flight[k + 1]
               \/ k - (Len(flight) - 1) \in DOMAIN next
                  /\ flight'[k] = next[k - (Len(flight) - 1)]
    <2>1. CASE k <= Len(flight) - 1
      BY <1>1, <1>2, <2>1
    <2>2. CASE k > Len(flight) - 1
      <3> DEFINE m == k - (Len(flight) - 1)
      <3>1. m \in DOMAIN next /\ Len(flight) - 1 + m = k
        BY <1>1, <1>2, <2>2
      <3> HIDE DEF m
      <3>2. flight'[k] = next[m]
        BY <1>2, <3>1
      <3> QED
        BY <3>1, <3>2 DEF m
    <2> QED
      BY <1>1, <1>2, <2>1, <2>2
  <1> QED
    BY <1>2, <1>3, <1>4

LEMMA LastMoves ==
    ASSUME Shaped, 1 \in DOMAIN flight, NEW next \in Seq(Requests), Answered(1, next),
           NEW kind, NEW k \in DOMAIN flight, k # 1, IsLast(flight, kind, k),
           \A m \in DOMAIN next : next[m].kind # kind
    PROVE  /\ k - 1 \in DOMAIN flight' /\ flight'[k - 1] = flight[k]
           /\ IsLast(flight', kind, k - 1)
  <1>1. k - 1 \in DOMAIN flight' /\ flight'[k - 1] = flight[k]
    BY Shift
  <1>2. ASSUME NEW j \in DOMAIN flight', j > k - 1 PROVE flight'[j].kind # kind
    <2>1. CASE j + 1 \in DOMAIN flight /\ flight'[j] = flight[j + 1]
      <3>1. j \in Int /\ k \in Int
        BY <2>1, Shift, PlacesAreNumbers, LenProperties
      <3>2. j + 1 > k
        BY <1>2, <3>1
      <3> QED
        BY <2>1, <3>2 DEF IsLast
    <2>2. CASE j - (Len(flight) - 1) \in DOMAIN next
               /\ flight'[j] = next[j - (Len(flight) - 1)]
      BY <2>2
    <2> QED
      BY <2>1, <2>2, Shift
  <1> QED
    BY <1>1, <1>2 DEF IsLast

LEMMA LastStays ==
    ASSUME Shaped, NEW r \in Requests, flight' = Append(flight, r), NEW kind, r.kind # kind,
           NEW k \in DOMAIN flight, IsLast(flight, kind, k)
    PROVE  k \in DOMAIN flight' /\ flight'[k] = flight[k] /\ IsLast(flight', kind, k)
  BY RequestSent DEF Shaped, IsLast

\* What was sent last is the last.
LEMMA LastSent ==
    ASSUME Shaped, NEW r \in Requests, flight' = Append(flight, r)
    PROVE  \E k \in DOMAIN flight' : flight'[k] = r /\ IsLast(flight', r.kind, k)
  <1>1. /\ DOMAIN flight' = DOMAIN flight \cup {Len(flight) + 1}
        /\ \A k \in DOMAIN flight : k < Len(flight) + 1
        /\ flight'[Len(flight) + 1] = r
        /\ Len(flight) \in Nat /\ DOMAIN flight = 1 .. Len(flight)
    BY RequestSent DEF Shaped
  <1>2. \A j \in DOMAIN flight' : ~(j > Len(flight) + 1)
    BY <1>1
  <1> QED
    BY <1>1, <1>2 DEF IsLast

\* The refreshes at the end are the last of their kinds.
LEMMA LastRefreshes ==
    ASSUME Parameters, Shaped, 1 \in DOMAIN flight, NEW next, next # << >>, Refreshes(next),
           Answered(1, next)
    PROVE  \E k \in DOMAIN flight' : flight'[k] = ListUsers /\ IsLast(flight', "users", k)
  <1>1. /\ next \in Seq(Requests) /\ DOMAIN flight = 1 .. Len(flight) /\ Len(flight) \in Nat
        /\ Len(flight) >= 1
    BY RefreshesAreRequests, PlacesAreNumbers
  <1>2. /\ next[1] = ListUsers /\ 1 \in DOMAIN next /\ DOMAIN next \subseteq {1, 2}
        /\ 2 \in DOMAIN next => next[2].kind = "usage"
        /\ Len(next) \in {1, 2}
    <2>1. CASE next = <<ListUsers>>
      BY <2>1
    <2>2. ASSUME NEW u \in Somebody, next = <<ListUsers, UsageOf(u)>>
          PROVE  /\ next[1] = ListUsers /\ 1 \in DOMAIN next /\ DOMAIN next \subseteq {1, 2}
                 /\ 2 \in DOMAIN next => next[2].kind = "usage"
                 /\ Len(next) \in {1, 2}
      BY <2>2, RefreshesAreMade
    <2> QED
      BY <2>1, <2>2 DEF Refreshes
  <1> DEFINE k == Len(flight) - 1 + 1
  <1>3. /\ DOMAIN flight' = 1 .. Len(flight) - 1 + Len(next)
        /\ \A m \in DOMAIN next : flight'[Len(flight) - 1 + m] = next[m]
    BY <1>1, RequestAnswered DEF Shaped
  <1>4. k \in DOMAIN flight' /\ flight'[k] = ListUsers
    BY <1>1, <1>2, <1>3
  <1>5. ASSUME NEW j \in DOMAIN flight', j > k PROVE flight'[j].kind # "users"
    <2>1. j = Len(flight) - 1 + 2 /\ Len(next) = 2 /\ 2 \in DOMAIN next
      <3>1. DOMAIN next = 1 .. Len(next)
        BY <1>1, LenProperties
      <3>2. j \in Int /\ j <= Len(flight) - 1 + Len(next)
        BY <1>1, <1>2, <1>3
      <3> QED
        BY <1>1, <1>2, <1>5, <3>1, <3>2
    <2>2. flight'[j] = next[2]
      BY <1>3, <2>1
    <2> QED
      BY <1>2, <2>1, <2>2
  <1>6. ListUsers.kind = "users"
    BY FormsStart, RefreshesAreMade DEF Somebody
  <1> HIDE DEF k
  <1> QED
    BY <1>4, <1>5, <1>6 DEF IsLast

LEMMA LastChart ==
    ASSUME Parameters, Shaped, 1 \in DOMAIN flight, NEW u \in Somebody,
           Answered(1, <<ListUsers, UsageOf(u)>>)
    PROVE  \E k \in DOMAIN flight' : flight'[k] = UsageOf(u) /\ IsLast(flight', "usage", k)
  <1> DEFINE next == <<ListUsers, UsageOf(u)>>
  <1>1. /\ next \in Seq(Requests) /\ DOMAIN flight = 1 .. Len(flight) /\ Len(flight) \in Nat
        /\ Len(flight) >= 1
    BY RefreshesAreRequests, PlacesAreNumbers DEF Refreshes
  <1>2. DOMAIN next = {1, 2} /\ next[2] = UsageOf(u) /\ Len(next) = 2
    OBVIOUS
  <1>3. Answered(1, next)
    OBVIOUS
  <1> HIDE DEF next
  <1> DEFINE k == Len(flight) - 1 + 2
  <1>4. /\ DOMAIN flight' = 1 .. Len(flight) - 1 + 2
        /\ flight'[k] = UsageOf(u)
    BY <1>1, <1>2, <1>3, RequestAnswered DEF Shaped
  <1>5. k \in DOMAIN flight' /\ \A j \in DOMAIN flight' : ~(j > k)
    BY <1>1, <1>4
  <1>6. UsageOf(u).kind = "usage"
    BY RefreshesAreMade
  <1> HIDE DEF k
  <1> QED
    BY <1>4, <1>5, <1>6 DEF IsLast

--------------------------------------------------------------------------------
(***************************************************************************)
(* The invariant holds: the table and the chart.                           *)
(***************************************************************************)
\* Carrying out a request or turning it down changes no kinds.
SameKinds ==
    /\ DOMAIN flight' = DOMAIN flight
    /\ \A k \in DOMAIN flight :
          flight'[k].kind = flight[k].kind /\ flight'[k].user = flight[k].user

LEMMA ServeKeepsKinds ==
    ASSUME TypedInv, NEW i \in DOMAIN flight, Serve(i) \/ Fails(i)
    PROVE  SameKinds
  BY AnswerServed, RequestFailed DEF SameKinds, TypedInv

LEMMA TableStarts == ASSUME Parameters, Init PROVE TableFollows
  <1> DEFINE r == Request("inbounds", NoUser, NoContent)
  <1>1. /\ r.kind = "inbounds" /\ ListUsers.kind = "users" /\ ListUsers.state = "sent"
    BY FormsStart, RefreshesAreMade DEF Somebody, Request
  <1> HIDE DEF r
  <1>2. flight = <<ListUsers, r>>
    BY DEF Init, r
  <1>3. 1 \in DOMAIN flight /\ IsLast(flight, "users", 1) /\ flight[1].state # "ok"
    BY <1>1, <1>2 DEF IsLast
  <1> QED
    BY <1>3 DEF TableFollows

LEMMA ServeTable ==
    ASSUME TypedInv, TableFollows, NEW i \in DOMAIN flight, Serve(i)
    PROVE  TableFollows'
  <1> USE DEF TypedInv
  <1>1. SameKinds /\ flight[i].state = "sent" /\ flight'[i].state = "ok"
        /\ \A j \in DOMAIN flight : j # i => flight'[j] = flight[j]
    BY ServeKeepsKinds, AnswerServed
  <1>2. UNCHANGED <<table, smooth>>
    BY DEF Serve, pathVars
  <1>3. CASE flight[i].kind \in Changes
    BY <1>1, <1>3 DEF TableFollows, SameKinds
  <1>4. CASE flight[i].kind \notin Changes
    <2>1. db' = db
      BY <1>4, RowsServed
    <2> SUFFICES ASSUME smooth PROVE TableFollows'
      BY <1>2 DEF TableFollows
    <2>2. ASSUME NEW k \in DOMAIN flight, flight[k].kind \in Changes, flight[k].state = "ok"
          PROVE  TableFollows'
      <3>1. k # i
        BY <1>1, <2>2
      <3> QED
        BY <1>1, <2>2, <3>1 DEF TableFollows, SameKinds
    <2>3. CASE (\A j \in DOMAIN flight : flight[j].kind # "users") /\ table = db
      BY <1>1, <1>2, <2>1, <2>3 DEF TableFollows, SameKinds
    <2>4. ASSUME NEW k \in DOMAIN flight, IsLast(flight, "users", k),
                 flight[k].state = "ok" => flight[k].answer = db
          PROVE  TableFollows'
      <3>1. k \in DOMAIN flight' /\ IsLast(flight', "users", k)
        BY <1>1, <2>4 DEF SameKinds, IsLast
      <3>2. flight'[k].state = "ok" => flight'[k].answer = db'
        <4>1. CASE k = i
          BY <2>1, <2>4, <4>1, AnswerServed DEF IsLast
        <4>2. CASE k # i
          BY <1>1, <2>1, <2>4, <4>2
        <4> QED
          BY <4>1, <4>2
      <3> QED
        BY <3>1, <3>2 DEF TableFollows
    <2> QED
      BY <2>2, <2>3, <2>4 DEF TableFollows
  <1> QED
    BY <1>3, <1>4

LEMMA FailsTable ==
    ASSUME TypedInv, TableFollows, NEW i \in DOMAIN flight, Fails(i)
    PROVE  TableFollows'
  <1> USE DEF TypedInv
  <1> SUFFICES ASSUME smooth' PROVE TableFollows'
    BY DEF TableFollows
  <1>1. SameKinds /\ flight'[i].state = "failed"
        /\ \A j \in DOMAIN flight : j # i => flight'[j] = flight[j]
    BY ServeKeepsKinds, RequestFailed
  <1>2. smooth /\ flight[i].state = "sent" /\ UNCHANGED <<table, db>>
    BY DEF Fails
  <1>3. ASSUME NEW k \in DOMAIN flight, flight[k].kind \in Changes, flight[k].state = "ok"
        PROVE  TableFollows'
    <2>1. k # i
      BY <1>2, <1>3
    <2> QED
      BY <1>1, <1>3, <2>1 DEF TableFollows, SameKinds
  <1>4. CASE (\A j \in DOMAIN flight : flight[j].kind # "users") /\ table = db
    BY <1>1, <1>2, <1>4 DEF TableFollows, SameKinds
  <1>5. ASSUME NEW k \in DOMAIN flight, IsLast(flight, "users", k),
               flight[k].state = "ok" => flight[k].answer = db
        PROVE  TableFollows'
    <2>1. k \in DOMAIN flight' /\ IsLast(flight', "users", k)
      BY <1>1, <1>5 DEF SameKinds, IsLast
    <2>2. flight'[k].state = "ok" => flight'[k].answer = db'
      BY <1>1, <1>2, <1>5
    <2> QED
      BY <2>1, <2>2 DEF TableFollows
  <1> QED
    BY <1>2, <1>3, <1>4, <1>5 DEF TableFollows

LEMMA DeliversTable ==
    ASSUME Parameters, TypedInv, TableFollows, NEW i \in DOMAIN flight, NEW next,
           Delivers(i, next)
    PROVE  TableFollows'
  <1> USE DEF TypedInv
  <1> SUFFICES ASSUME smooth' PROVE TableFollows'
    BY DEF TableFollows
  <1>1. smooth /\ i = 1 /\ Answered(1, next) /\ Refreshes(next) /\ UNCHANGED db
        /\ next \in Seq(Requests) /\ 1 \in DOMAIN flight
    BY RefreshesAreRequests DEF Delivers
  <1>2. CASE next # << >>
    <2>1. PICK k \in DOMAIN flight' : flight'[k] = ListUsers /\ IsLast(flight', "users", k)
      BY <1>1, <1>2, LastRefreshes
    <2>2. ListUsers.state = "sent"
      BY FormsStart, RefreshesAreMade DEF Somebody
    <2> QED
      BY <2>1, <2>2 DEF TableFollows
  <1>3. CASE next = << >>
    <2>0. DOMAIN next = {} /\ Answered(1, next)
      BY <1>1, <1>3
    <2>1. /\ \A k \in DOMAIN flight : k # 1 =>
                k - 1 \in DOMAIN flight' /\ flight'[k - 1] = flight[k]
          /\ \A k \in DOMAIN flight' : k + 1 \in DOMAIN flight /\ flight'[k] = flight[k + 1]
      BY <1>1, <2>0, Shift
    <2>2. \/ flight[1].kind = "users" /\ flight[1].state = "ok" /\ table' = flight[1].answer
          \/ flight[1].kind \in {"inbounds", "usage"} /\ UNCHANGED table
          \/ flight[1].state = "failed" /\ flight[1].kind # "users" /\ UNCHANGED table
      <3>1. Effect(1, << >>)
        BY <1>1, <1>3 DEF Delivers
      <3>2. << >> # <<ListUsers>> /\ << >> # <<ListUsers, UsageOf(flight[1].user)>>
        OBVIOUS
      <3> QED
        BY <3>1, <3>2 DEF Effect
    <2>3. ASSUME NEW k \in DOMAIN flight, flight[k].kind \in Changes, flight[k].state = "ok"
          PROVE  TableFollows'
      <3>1. k # 1
        BY <2>2, <2>3 DEF Changes, Saves
      <3> QED
        BY <2>1, <2>3, <3>1 DEF TableFollows
    <2>4. CASE (\A j \in DOMAIN flight : flight[j].kind # "users") /\ table = db
      <3>1. table' = db' /\ \A j \in DOMAIN flight' : flight'[j].kind # "users"
        BY <1>1, <2>1, <2>2, <2>4
      <3> QED
        BY <3>1 DEF TableFollows
    <2>5. ASSUME NEW k \in DOMAIN flight, IsLast(flight, "users", k),
                 flight[k].state = "ok" => flight[k].answer = db
          PROVE  TableFollows'
      <3>1. CASE k = 1
        <4>1. table' = db'
          BY <1>1, <2>2, <2>5, <3>1 DEF IsLast
        <4>2. ASSUME NEW j \in DOMAIN flight' PROVE flight'[j].kind # "users"
          <5>1. j + 1 \in DOMAIN flight /\ flight'[j] = flight[j + 1] /\ j \in Nat /\ j >= 1
            <6>1. DOMAIN flight' = 1 .. Len(flight) - 1 + Len(next) /\ Len(next) = 0
              BY <1>1, <1>3, Shift
            <6> QED
              BY <2>1, <6>1
          <5>2. j + 1 > 1
            BY <5>1
          <5> QED
            BY <2>5, <3>1, <5>1, <5>2 DEF IsLast
        <4> QED
          BY <4>1, <4>2 DEF TableFollows
      <3>2. CASE k # 1
        <4>1. /\ k - 1 \in DOMAIN flight' /\ flight'[k - 1] = flight[k]
              /\ IsLast(flight', "users", k - 1)
          BY <1>1, <2>0, <2>5, <3>2, LastMoves
        <4> QED
          BY <1>1, <2>5, <4>1 DEF TableFollows
      <3> QED
        BY <3>1, <3>2
    <2> QED
      BY <1>1, <2>3, <2>4, <2>5 DEF TableFollows
  <1> QED
    BY <1>2, <1>3

LEMMA AsksTable ==
    ASSUME TypedInv, TableFollows, NEW r, Asks(r)
    PROVE  TableFollows'
  <1> USE DEF TypedInv
  <1> SUFFICES ASSUME smooth' PROVE TableFollows'
    BY DEF TableFollows
  <1>1. /\ UNCHANGED <<db, table>> /\ smooth /\ flight' = Append(flight, r)
        /\ r \in Requests /\ r.kind # "users"
    BY DEF Asks, Acts, Changes, Saves
  <1>2. /\ DOMAIN flight' = DOMAIN flight \cup {Len(flight) + 1}
        /\ \A k \in DOMAIN flight : flight'[k] = flight[k]
        /\ flight'[Len(flight) + 1] = r
    BY <1>1, RequestSent DEF Shaped
  <1>3. CASE \E k \in DOMAIN flight : flight[k].kind \in Changes /\ flight[k].state = "ok"
    BY <1>2, <1>3 DEF TableFollows
  <1>4. CASE (\A j \in DOMAIN flight : flight[j].kind # "users") /\ table = db
    BY <1>1, <1>2, <1>4 DEF TableFollows
  <1>5. ASSUME NEW k \in DOMAIN flight, IsLast(flight, "users", k),
               flight[k].state = "ok" => flight[k].answer = db
        PROVE  TableFollows'
    <2>1. k \in DOMAIN flight' /\ flight'[k] = flight[k] /\ IsLast(flight', "users", k)
      BY <1>1, <1>5, LastStays
    <2> QED
      BY <1>1, <1>5, <2>1 DEF TableFollows
  <1> QED
    BY <1>1, <1>3, <1>4, <1>5 DEF TableFollows

LEMMA TableHolds ==
    ASSUME Parameters, TypedInv, TableFollows, [Next]_vars
    PROVE  TableFollows'
  <1>1. CASE UNCHANGED vars
    BY <1>1 DEF vars, pathVars, TableFollows, IsLast
  <1>2. CASE Works
    <2>1. UNCHANGED <<flight, db, table, smooth>>
      BY <1>2 DEF Works, Acts
    <2> QED
      BY <2>1 DEF TableFollows, IsLast
  <1> QED
    BY <1>1, <1>2, StepKinds, ServeTable, FailsTable, DeliversTable, AsksTable DEF TypedInv

--------------------------------------------------------------------------------
LEMMA SameKindsChart ==
    ASSUME ChartFollows, SameKinds, UNCHANGED <<editing, chart>>, smooth' => smooth
    PROVE  ChartFollows'
  <1> SUFFICES ASSUME smooth', IsEditing' PROVE ChartFollows'
    BY DEF ChartFollows
  <1>1. smooth /\ IsEditing
    BY DEF IsEditing
  <1>2. ASSUME NEW k \in DOMAIN flight, IsLast(flight, "usage", k),
               flight[k].user \in DOMAIN editing
        PROVE  ChartFollows'
    <2>1. k \in DOMAIN flight' /\ IsLast(flight', "usage", k)
          /\ flight'[k].user \in DOMAIN editing'
      BY <1>2 DEF SameKinds, IsLast
    <2> QED
      BY <2>1 DEF ChartFollows
  <1>3. CASE (\A j \in DOMAIN flight : flight[j].kind # "usage") /\ chart \in DOMAIN editing
    BY <1>3 DEF SameKinds, ChartFollows
  <1> QED
    BY <1>1, <1>2, <1>3 DEF ChartFollows

\* An answer that leaves the dialog on the same user, or closes it.
LEMMA AnsweredChart ==
    ASSUME Parameters, TypedInv, ChartFollows, 1 \in DOMAIN flight, smooth, smooth',
           NEW next \in Seq(Requests), Answered(1, next),
           \A m \in DOMAIN next : next[m].kind # "usage", UNCHANGED editing,
           \/ flight[1].kind # "usage" /\ UNCHANGED chart
           \/ flight[1].kind = "usage" /\ chart' = flight[1].user
    PROVE  ChartFollows'
  <1> USE DEF TypedInv
  <1> SUFFICES ASSUME IsEditing PROVE ChartFollows'
    BY DEF ChartFollows, IsEditing
  <1>1. ASSUME NEW k \in DOMAIN flight, IsLast(flight, "usage", k),
               flight[k].user \in DOMAIN editing
        PROVE  ChartFollows'
    <2>1. CASE k = 1
      <3>1. chart' \in DOMAIN editing'
        BY <1>1, <2>1 DEF IsLast
      <3>2. ASSUME NEW j \in DOMAIN flight' PROVE flight'[j].kind # "usage"
        <4>1. CASE j + 1 \in DOMAIN flight /\ flight'[j] = flight[j + 1]
          <5>1. DOMAIN flight' = 1 .. Len(flight) - 1 + Len(next) /\ Len(next) \in Nat
                /\ Len(flight) \in Nat
            BY Shift, LenProperties, PlacesAreNumbers
          <5>2. j + 1 > 1
            BY <5>1
          <5> QED
            BY <1>1, <2>1, <4>1, <5>2 DEF IsLast
        <4>2. CASE j - (Len(flight) - 1) \in DOMAIN next
                   /\ flight'[j] = next[j - (Len(flight) - 1)]
          BY <4>2
        <4> QED
          BY <4>1, <4>2, Shift
      <3> QED
        BY <3>1, <3>2 DEF ChartFollows
    <2>2. CASE k # 1
      <3>1. /\ k - 1 \in DOMAIN flight' /\ flight'[k - 1] = flight[k]
            /\ IsLast(flight', "usage", k - 1)
        BY <1>1, <2>2, LastMoves
      <3> QED
        BY <1>1, <3>1 DEF ChartFollows
    <2> QED
      BY <2>1, <2>2
  <1>2. CASE (\A j \in DOMAIN flight : flight[j].kind # "usage") /\ chart \in DOMAIN editing
    <2>1. \A j \in DOMAIN flight' : flight'[j].kind # "usage"
      <3>1. \A j \in DOMAIN flight' :
               \/ j + 1 \in DOMAIN flight /\ flight'[j] = flight[j + 1]
               \/ j - (Len(flight) - 1) \in DOMAIN next
                  /\ flight'[j] = next[j - (Len(flight) - 1)]
        BY Shift
      <3> QED
        BY <1>2, <3>1
    <2>2. chart' \in DOMAIN editing'
      BY <1>2
    <2> QED
      BY <2>1, <2>2 DEF ChartFollows
  <1> QED
    BY <1>1, <1>2 DEF ChartFollows

LEMMA DeliversChart ==
    ASSUME Parameters, TypedInv, ChartFollows, NEW i \in DOMAIN flight, NEW next,
           Delivers(i, next)
    PROVE  ChartFollows'
  <1> USE DEF TypedInv
  <1> SUFFICES ASSUME smooth' PROVE ChartFollows'
    BY DEF ChartFollows
  <1>1. smooth /\ i = 1 /\ Answered(1, next) /\ Refreshes(next) /\ Effect(1, next)
        /\ next \in Seq(Requests) /\ 1 \in DOMAIN flight
    BY RefreshesAreRequests DEF Delivers
  <1>2. /\ ListUsers.kind = "users"
        /\ DOMAIN << >> = {} /\ DOMAIN <<ListUsers>> = {1} /\ <<ListUsers>>[1] = ListUsers
    BY FormsStart, RefreshesAreMade DEF Somebody
  <1>3. CASE editing' = NoRows
    BY <1>3 DEF ChartFollows, IsEditing
  <1>4. CASE next \in {<< >>, <<ListUsers>>} /\ UNCHANGED editing
             /\ (\/ flight[1].kind # "usage" /\ UNCHANGED chart
                 \/ flight[1].kind = "usage" /\ chart' = flight[1].user)
    <2>1. \A m \in DOMAIN next : next[m].kind # "usage"
      BY <1>2, <1>4
    <2> QED
      BY <1>1, <1>4, <2>1, AnsweredChart
  <1>5. CASE /\ next = <<ListUsers, UsageOf(flight[1].user)>>
             /\ flight[1].kind = "revoke" /\ flight[1].state = "ok"
             /\ Edit(flight[1].answer)
    <2>1. flight[1].user \in Somebody /\ DOMAIN flight[1].answer = {flight[1].user}
      BY <1>1, <1>5, RequestFacts DEF KeysAreGivenOut, Sound
    <2>2. PICK k \in DOMAIN flight' :
             flight'[k] = UsageOf(flight[1].user) /\ IsLast(flight', "usage", k)
      BY <1>1, <1>5, <2>1, LastChart
    <2>3. flight'[k].user = flight[1].user
      BY <2>1, <2>2, RefreshesAreMade
    <2>4. editing' = flight[1].answer
      BY <1>5 DEF Edit
    <2> QED
      BY <2>1, <2>2, <2>3, <2>4 DEF ChartFollows
  <1> QED
    BY <1>1, <1>3, <1>4, <1>5 DEF Effect, Saves

LEMMA AsksChart ==
    ASSUME Parameters, TypedInv, ChartFollows, NEW r, Asks(r)
    PROVE  ChartFollows'
  <1> USE DEF TypedInv
  <1>1. UNCHANGED <<chart, smooth>> /\ r \in Requests /\ flight' = Append(flight, r)
    BY DEF Asks, Acts
  <1>2. CASE r.kind \in Changes /\ UNCHANGED editing
    <2>1. r.kind # "usage"
      BY <1>2 DEF Changes, Saves
    <2>2. /\ DOMAIN flight' = DOMAIN flight \cup {Len(flight) + 1}
          /\ \A k \in DOMAIN flight : flight'[k] = flight[k]
          /\ flight'[Len(flight) + 1] = r
      BY <1>1, RequestSent DEF Shaped
    <2> SUFFICES ASSUME smooth, IsEditing PROVE ChartFollows'
      BY <1>1, <1>2 DEF ChartFollows, IsEditing
    <2>3. CASE (\A j \in DOMAIN flight : flight[j].kind # "usage") /\ chart \in DOMAIN editing
      BY <1>1, <1>2, <2>1, <2>2, <2>3 DEF ChartFollows
    <2>4. ASSUME NEW k \in DOMAIN flight, IsLast(flight, "usage", k),
                 flight[k].user \in DOMAIN editing
          PROVE  ChartFollows'
      <3>1. k \in DOMAIN flight' /\ flight'[k] = flight[k] /\ IsLast(flight', "usage", k)
        BY <1>1, <2>1, <2>4, LastStays
      <3> QED
        BY <1>2, <2>4, <3>1 DEF ChartFollows
    <2> QED
      BY <2>3, <2>4 DEF ChartFollows
  <1>3. ASSUME NEW u \in DOMAIN table, r.kind = "usage", r.user = u,
               Edit(Restrict(table, {u}))
        PROVE  ChartFollows'
    <2>1. PICK k \in DOMAIN flight' : flight'[k] = r /\ IsLast(flight', "usage", k)
      BY <1>1, <1>3, LastSent
    <2>2. DOMAIN editing' = {u}
      BY <1>3 DEF Edit, Restrict
    <2> QED
      BY <1>3, <2>1, <2>2 DEF ChartFollows
  <1> QED
    BY <1>2, <1>3 DEF Asks

LEMMA ChartHolds ==
    ASSUME Parameters, TypedInv, ChartFollows, [Next]_vars
    PROVE  ChartFollows'
  <1>1. CASE UNCHANGED vars
    BY <1>1 DEF vars, dialogVars, pathVars, ChartFollows, IsLast, IsEditing
  <1>2. CASE Works
    <2>1. UNCHANGED <<flight, chart, smooth>> /\ (UNCHANGED editing \/ editing' = NoRows)
      BY <1>2 DEF Works, Acts
    <2> QED
      BY <2>1 DEF ChartFollows, IsLast, IsEditing
  <1>3. ASSUME NEW i \in DOMAIN flight, Serve(i) \/ Fails(i) PROVE ChartFollows'
    <2>1. UNCHANGED <<editing, chart>> /\ (smooth' => smooth)
      BY <1>3 DEF Serve, Fails, dialogVars, pathVars
    <2> QED
      BY <1>3, <2>1, ServeKeepsKinds, SameKindsChart
  <1> QED
    BY <1>1, <1>2, <1>3, StepKinds, DeliversChart, AsksChart DEF TypedInv

--------------------------------------------------------------------------------
(***************************************************************************)
(* The invariant holds: the copies.                                        *)
(***************************************************************************)
LEMMA LoneHolds ==
    ASSUME Parameters, TypedInv, LoneChange, [Next]_vars
    PROVE  LoneChange'
  <1> USE DEF TypedInv
  <1>1. CASE UNCHANGED vars
    BY <1>1 DEF vars, pathVars, LoneChange
  <1>2. ASSUME NEW i \in DOMAIN flight, Serve(i) \/ Fails(i) PROVE LoneChange'
    <2>1. SameKinds
      BY <1>2, ServeKeepsKinds
    <2>2. UNCHANGED hasty
      BY <1>2 DEF Serve, Fails, pathVars
    <2> QED
      BY <2>1, <2>2 DEF SameKinds, LoneChange
  <1>3. ASSUME NEW i \in DOMAIN flight, NEW next, Delivers(i, next) PROVE LoneChange'
    <2> SUFFICES ASSUME ~hasty' PROVE \A k \in DOMAIN flight' : flight'[k].kind \notin Changes
      BY DEF LoneChange
    <2>1. ~hasty /\ Answered(i, next) /\ Refreshes(next) /\ next \in Seq(Requests)
      BY <1>3, RefreshesAreRequests DEF Delivers
    <2>2. \A k \in DOMAIN flight' :
             \/ \E j \in DOMAIN flight : j # i /\ flight'[k] = flight[j]
             \/ \E j \in DOMAIN next : flight'[k] = next[j]
      BY <2>1, RequestsStay DEF Shaped
    <2>3. \A j \in DOMAIN flight : j # i => flight[j].kind \notin Changes
      BY <2>1 DEF LoneChange
    <2>4. \A j \in DOMAIN next : next[j].kind \notin Changes
      BY <2>1, RefreshesAreRequests DEF Changes, Saves
    <2> QED
      BY <2>2, <2>3, <2>4
  <1>4. CASE Works
    BY <1>4 DEF Works, Acts, LoneChange
  <1>5. ASSUME NEW r, Asks(r) PROVE LoneChange'
    <2> SUFFICES ASSUME ~hasty' PROVE \A i, j \in DOMAIN flight' : i = j
      BY DEF LoneChange
    <2>1. flight = << >> /\ r \in Requests /\ flight' = Append(flight, r)
      BY <1>5 DEF Asks, Acts
    <2>2. DOMAIN flight = {}
      BY <2>1
    <2>3. DOMAIN flight' = DOMAIN flight \cup {Len(flight) + 1}
      BY <2>1, RequestSent DEF Shaped
    <2> QED
      BY <2>2, <2>3
  <1> QED
    BY <1>1, <1>2, <1>3, <1>4, <1>5, StepKinds

LEMMA ServeLeaves ==
    ASSUME NEW i, Serve(i)
    PROVE  UNCHANGED <<editing, form, hasty, smooth>>
  BY DEF Serve, dialogVars, pathVars

LEMMA ServeCopies ==
    ASSUME TypedInv, CopiesAreNew, NEW i \in DOMAIN flight, Serve(i), ~hasty', smooth'
    PROVE  (FlightIsNew /\ FormIsNew)'
  <1> USE DEF TypedInv
  <1>1. ~hasty /\ smooth /\ UNCHANGED <<editing, form>>
    BY ServeLeaves
  <1>2. FlightIsNew /\ FormIsNew
    BY <1>1 DEF CopiesAreNew
  <1>3. /\ DOMAIN flight' = DOMAIN flight
        /\ \A j \in DOMAIN flight : j # i => flight'[j] = flight[j]
        /\ flight'[i].kind = flight[i].kind /\ flight'[i].user = flight[i].user
        /\ flight[i].state = "sent" /\ flight'[i].state = "ok"
        /\ flight[i].kind = "revoke" =>
              flight'[i].answer[flight[i].user] = db'[flight[i].user]
    BY AnswerServed
  <1>4. CASE flight[i].kind \notin Changes
    <2>1. db' = db /\ flight[i].kind \notin {"create", "edit", "revoke"}
      BY <1>4, RowsServed DEF Changes, Saves
    <2>2. FlightIsNew'
      BY <1>2, <1>3, <2>1 DEF FlightIsNew, NewerKey
    <2>3. FormIsNew'
      BY <1>1, <1>2, <1>3, <2>1 DEF FormIsNew, NewerKey, Replaces, IsEditing
    <2> QED
      BY <2>2, <2>3
  <1>5. CASE flight[i].kind \in Changes
    <2>1. \A j \in DOMAIN flight : j = i
      BY <1>1, <1>5 DEF CopiesAreNew, LoneChange
    <2>2. FlightIsNew'
      <3>1. ASSUME flight[i].kind = "revoke"
            PROVE  NewerKey(flight[i].user, flight[i].answer[flight[i].user].key)'
        <4>1. flight[i].user \in DOMAIN db' /\ db' \in Tables
          BY <3>1, RowsServed
        <4>2. db'[flight[i].user].key \in Nat
          BY <4>1, TablesAreRows DEF Row
        <4> QED
          BY <1>3, <3>1, <4>2 DEF NewerKey
      <3> QED
        BY <1>3, <2>1, <3>1 DEF FlightIsNew
    <2>3. FormIsNew'
      <3>1. CASE flight[i].kind \in {"create", "edit", "revoke"}
        BY <1>3, <3>1 DEF FormIsNew, Replaces
      <3>2. CASE flight[i].kind \notin {"create", "edit", "revoke"}
        <4>1. DOMAIN db' \subseteq DOMAIN db /\ \A u \in DOMAIN db' : db'[u] = db[u]
          BY <3>2, RowsServed
        <4>2. \A j \in DOMAIN flight : ~Replaces(flight[j])
          BY <1>3, <2>1 DEF Replaces
        <4> QED
          BY <1>1, <1>2, <4>1, <4>2 DEF FormIsNew, NewerKey, IsEditing
      <3> QED
        BY <3>1, <3>2
    <2> QED
      BY <2>2, <2>3
  <1> QED
    BY <1>4, <1>5

LEMMA FailsCopies ==
    ASSUME TypedInv, CopiesAreNew, NEW i \in DOMAIN flight, Fails(i), ~hasty', smooth'
    PROVE  (FlightIsNew /\ FormIsNew)'
  <1> USE DEF TypedInv
  <1>1. ~hasty /\ smooth /\ flight[i].state = "sent" /\ UNCHANGED <<db, editing, form>>
    BY DEF Fails, dialogVars
  <1>2. FlightIsNew /\ FormIsNew
    BY <1>1 DEF CopiesAreNew
  <1>3. /\ DOMAIN flight' = DOMAIN flight
        /\ \A j \in DOMAIN flight : j # i => flight'[j] = flight[j]
        /\ flight'[i].state = "failed"
    BY RequestFailed
  <1>4. FlightIsNew'
    BY <1>1, <1>2, <1>3 DEF FlightIsNew, NewerKey
  <1>5. FormIsNew'
    BY <1>1, <1>2, <1>3 DEF FormIsNew, NewerKey, Replaces, IsEditing
  <1> QED
    BY <1>4, <1>5

LEMMA DeliversCopies ==
    ASSUME Parameters, TypedInv, CopiesAreNew, NEW i \in DOMAIN flight, NEW next,
           Delivers(i, next), ~hasty', smooth'
    PROVE  (FlightIsNew /\ FormIsNew)'
  <1> USE DEF TypedInv
  <1>1. /\ ~hasty /\ smooth /\ UNCHANGED db /\ Effect(i, next)
        /\ Answered(i, next) /\ Refreshes(next) /\ next \in Seq(Requests)
    BY RefreshesAreRequests DEF Delivers
  <1>2. FlightIsNew /\ FormIsNew
    BY <1>1 DEF CopiesAreNew
  <1>3. /\ \A k \in DOMAIN flight' :
              \/ \E j \in DOMAIN flight : j # i /\ flight'[k] = flight[j]
              \/ \E j \in DOMAIN next : flight'[k] = next[j]
        /\ \A j \in DOMAIN flight : j # i => \E k \in DOMAIN flight' : flight'[k] = flight[j]
    BY <1>1, RequestsStay DEF Shaped
  <1>4. \A j \in DOMAIN next : next[j].kind \in {"users", "usage"}
    BY <1>1, RefreshesAreRequests
  <1>5. FlightIsNew'
    <2> SUFFICES ASSUME NEW k \in DOMAIN flight'
                 PROVE  /\ flight'[k].kind = "edit" /\ flight'[k].state = "sent" =>
                              NewerKey(flight[k].user, flight[k].row.key)'
                        /\ flight'[k].kind = "revoke" /\ flight'[k].state = "ok" =>
                              NewerKey(flight[k].user, flight[k].answer[flight[k].user].key)'
      BY DEF FlightIsNew
    <2>1. CASE \E j \in DOMAIN next : flight'[k] = next[j]
      BY <1>4, <2>1
    <2>2. ASSUME NEW j \in DOMAIN flight, flight'[k] = flight[j]
          PROVE  /\ flight'[k].kind = "edit" /\ flight'[k].state = "sent" =>
                       NewerKey(flight[k].user, flight[k].row.key)'
                 /\ flight'[k].kind = "revoke" /\ flight'[k].state = "ok" =>
                       NewerKey(flight[k].user, flight[k].answer[flight[k].user].key)'
      BY <1>1, <1>2, <2>2 DEF FlightIsNew, NewerKey
    <2> QED
      BY <1>3, <2>1, <2>2
  <1>6. FormIsNew'
    <2> SUFFICES ASSUME IsEditing', \A k \in DOMAIN flight' : ~Replaces(flight'[k])
                 PROVE  NewerKey(form.user, form.key)'
      BY DEF FormIsNew, Replaces
    <2>1. \A j \in DOMAIN flight : j # i => ~Replaces(flight[j])
      BY <1>3
    <2>2. CASE UNCHANGED <<editing, form>> /\ ~Replaces(flight[i])
      BY <1>1, <1>2, <2>1, <2>2 DEF FormIsNew, NewerKey, IsEditing
    <2>3. CASE form' = GetDefaultValues
      <3>1. form'.user \notin DOMAIN db'
        BY <1>1, <2>3, FormsStart DEF Shaped, Parameters
      <3> QED
        BY <3>1 DEF NewerKey
    <2>4. CASE flight[i].kind = "revoke" /\ flight[i].state = "ok" /\ Edit(flight[i].answer)
      <3> DEFINE u == flight[i].user
      <3>1. flight[i].answer \in Tables /\ DOMAIN flight[i].answer = {u}
        BY <2>4, RequestFacts DEF KeysAreGivenOut, Sound
      <3>2. form'.user = u /\ form'.key = flight[i].answer[u].key
        BY <2>4, <3>1, FormOfRow DEF Edit
      <3>3. NewerKey(u, flight[i].answer[u].key)
        BY <1>2, <2>4 DEF FlightIsNew
      <3> QED
        BY <1>1, <3>2, <3>3 DEF NewerKey
    <2>5. \/ UNCHANGED <<editing, form>> /\ ~Replaces(flight[i])
          \/ form' = GetDefaultValues
          \/ flight[i].kind = "revoke" /\ flight[i].state = "ok" /\ Edit(flight[i].answer)
      BY <1>1 DEF Effect, Replaces
    <2> QED
      BY <2>2, <2>3, <2>4, <2>5
  <1> QED
    BY <1>5, <1>6

LEMMA WorksCopies ==
    ASSUME TypedInv, CopiesAreNew, Works, ~hasty', smooth'
    PROVE  (FlightIsNew /\ FormIsNew)'
  <1>1. ~hasty /\ smooth /\ UNCHANGED <<db, flight>>
    BY DEF Works, Acts
  <1>2. FlightIsNew /\ FormIsNew
    BY <1>1 DEF CopiesAreNew
  <1>3. FlightIsNew'
    BY <1>1, <1>2 DEF FlightIsNew, NewerKey
  <1>4. IsEditing' => IsEditing /\ form'.user = form.user /\ form'.key = form.key
    BY DEF Works, IsEditing
  <1>5. FormIsNew'
    BY <1>1, <1>2, <1>4 DEF FormIsNew, NewerKey, Replaces
  <1> QED
    BY <1>3, <1>5

LEMMA AsksCopies ==
    ASSUME Parameters, TypedInv, TableFollows, CopiesAreNew, NEW r, Asks(r), ~hasty', smooth'
    PROVE  (FlightIsNew /\ FormIsNew)'
  <1> USE DEF TypedInv
  <1>1. /\ ~hasty /\ smooth /\ flight = << >> /\ UNCHANGED <<db, table>>
        /\ r \in Requests /\ flight' = Append(flight, r) /\ r.state = "sent"
    BY DEF Asks, Acts
  <1>2. DOMAIN flight = {} /\ Len(flight) = 0
    BY <1>1
  <1>3. DOMAIN flight' = {1} /\ flight'[1] = r
    BY <1>1, <1>2, RequestSent DEF Shaped
  <1>4. FormIsNew
    BY <1>1 DEF CopiesAreNew
  <1>5. IsEditing => NewerKey(form.user, form.key)
    BY <1>2, <1>4 DEF FormIsNew
  <1>6. CASE /\ r.kind \in Changes /\ UNCHANGED <<editing, form>>
             /\ r.kind = "edit" =>
                   IsEditing /\ r.user = form.user /\ r.row.key = form.key
    <2>1. FlightIsNew'
      BY <1>1, <1>3, <1>5, <1>6 DEF FlightIsNew, NewerKey
    <2>2. FormIsNew'
      BY <1>1, <1>5, <1>6 DEF FormIsNew, NewerKey, IsEditing
    <2> QED
      BY <2>1, <2>2
  <1>7. ASSUME NEW u \in DOMAIN table, r.kind = "usage", Edit(Restrict(table, {u}))
        PROVE  (FlightIsNew /\ FormIsNew)'
    <2>1. table = db
      BY <1>1, <1>2 DEF TableFollows
    <2>2. /\ Restrict(table, {u}) \in Tables /\ DOMAIN Restrict(table, {u}) = {u}
          /\ Restrict(table, {u})[u] = table[u] /\ table[u].key \in Nat
      BY RestrictedRows, TablesAreRows DEF Shaped, Row
    <2>3. form'.user = u /\ form'.key = db[u].key /\ db[u].key \in Nat
      BY <1>7, <2>1, <2>2, FormOfRow DEF Edit
    <2>4. FormIsNew'
      BY <1>1, <2>3 DEF FormIsNew, NewerKey
    <2>5. FlightIsNew'
      BY <1>3, <1>7 DEF FlightIsNew
    <2> QED
      BY <2>4, <2>5
  <1> QED
    BY <1>6, <1>7 DEF Asks

LEMMA CopiesHold ==
    ASSUME Parameters, TypedInv, TableFollows, CopiesAreNew, [Next]_vars
    PROVE  CopiesAreNew'
  <1>1. LoneChange'
    BY LoneHolds DEF CopiesAreNew
  <1>2. ASSUME ~hasty', smooth' PROVE (FlightIsNew /\ FormIsNew)'
    <2>1. CASE UNCHANGED vars
      BY <1>2, <2>1 DEF CopiesAreNew, FlightIsNew, FormIsNew, NewerKey, Replaces, IsEditing,
                        vars, dialogVars, pathVars
    <2> QED
      BY <1>2, <2>1, StepKinds, ServeCopies, FailsCopies, DeliversCopies, WorksCopies,
         AsksCopies DEF TypedInv
  <1> QED
    BY <1>1, <1>2 DEF CopiesAreNew

LEMMA InvStarts == ASSUME Parameters, Init PROVE Inv
  <1> DEFINE r == Request("inbounds", NoUser, NoContent)
  <1>1. editing = NoRows
    BY DEF Init
  <1>2. ChartFollows
    BY <1>1 DEF ChartFollows, IsEditing
  <1>3. r.kind = "inbounds" /\ ListUsers.kind = "users"
    BY FormsStart, RefreshesAreMade DEF Request, Somebody
  <1> HIDE DEF r
  <1>4. flight = <<ListUsers, r>>
    BY DEF Init, r
  <1>5. \A i \in DOMAIN flight : flight[i].kind \in {"users", "inbounds"}
    BY <1>3, <1>4
  <1>6. CopiesAreNew
    BY <1>1, <1>5 DEF CopiesAreNew, LoneChange, FlightIsNew, FormIsNew, IsEditing, Changes,
                      Saves
  <1> QED
    BY <1>2, <1>6, TypedStarts, TableStarts DEF Inv, TypedInv

LEMMA InvHolds == ASSUME Parameters, Inv, [Next]_vars PROVE Inv'
  BY TypedHolds, TableHolds, ChartHolds, CopiesHold DEF Inv, TypedInv

LEMMA Invariance == ASSUME Parameters PROVE Spec => []Inv
  <1>1. Init => Inv
    BY InvStarts
  <1>2. Inv /\ [Next]_vars => Inv'
    BY InvHolds
  <1> QED
    BY <1>1, <1>2, PTL DEF Spec

--------------------------------------------------------------------------------
(***************************************************************************)
(* What follows.                                                           *)
(***************************************************************************)
LEMMA HoldsOneAtMost ==
    ASSUME NEW s, Holds(s)
    PROVE  s \subseteq Somebody /\ Cardinality(s) <= 1
  <1>1. CASE s = {}
    <2>1. Cardinality(s) = 0
      BY <1>1, FS_EmptySet
    <2> QED
      BY <1>1, <2>1
  <1>2. ASSUME NEW u \in Somebody, s = {u} PROVE s \subseteq Somebody /\ Cardinality(s) <= 1
    <2>1. Cardinality({u}) = 1
      BY FS_Singleton
    <2> QED
      BY <1>2, <2>1
  <1> QED
    BY <1>1, <1>2 DEF Holds

LEMMA Typed == ASSUME Shaped PROVE TypeOK
  <1>1. IsRows(db) /\ IsRows(table) /\ IsRows(editing)
    BY TablesAreRows DEF Shaped
  <1>2. Holds(DOMAIN editing)
    BY NoRowsAreRows DEF Shaped, Holds
  <1>3. Cardinality(DOMAIN editing) <= 1
    BY <1>2, HoldsOneAtMost
  <1>4. ASSUME NEW i \in DOMAIN flight
        PROVE  /\ flight[i].kind \in Changes \cup {"users", "inbounds", "usage"}
               /\ flight[i].user \in Somebody
               /\ flight[i].row \in Row
               /\ IsRows(flight[i].answer)
               /\ flight[i].state \in {"sent", "ok", "failed"}
    BY RequestFacts, TablesAreRows DEF Kinds
  <1>5. \A s \in {deleting, resetting, revoking} : s \subseteq Somebody /\ Cardinality(s) <= 1
    BY HoldsOneAtMost DEF Shaped
  <1>6. {creating, resettingAll, saving, hasty, smooth} \subseteq BOOLEAN
    BY DEF Shaped
  <1> QED
    BY <1>1, <1>3, <1>4, <1>5, <1>6 DEF TypeOK, Shaped, Forms

LEMMA QuietTable == ASSUME TableFollows PROVE QuietTableIsCurrent
  <1>1. flight = << >> => DOMAIN flight = {}
    OBVIOUS
  <1> QED
    BY <1>1 DEF TableFollows, QuietTableIsCurrent

LEMMA OpenChart == ASSUME ChartFollows PROVE ChartIsOfOpenUser
  BY DEF ChartFollows, ChartIsOfOpenUser, IsLast

LEMMA EditsGo ==
    ASSUME Parameters, Inv, [Next]_vars
    PROVE  Len(flight') > Len(flight) /\ Last(flight').kind = "edit" =>
               Last(flight').user \in DOMAIN editing /\ Last(flight').row.key # 0
  <1> DEFINE More == Len(flight') > Len(flight) /\ Last(flight').kind = "edit"
             Goes == Last(flight').user \in DOMAIN editing /\ Last(flight').row.key # 0
  <1> USE DEF Inv, TypedInv
  <1>0. Len(flight) \in Nat
    BY PlacesAreNumbers
  <1>1. CASE UNCHANGED vars
    BY <1>0, <1>1 DEF vars
  <1>2. ASSUME NEW i \in DOMAIN flight, Serve(i) \/ Fails(i) PROVE Len(flight') = Len(flight)
    BY <1>2, AnswerServed, RequestFailed
  <1>3. ASSUME NEW i \in DOMAIN flight, NEW next, Delivers(i, next), More PROVE FALSE
    <2>1. /\ Answered(i, next) /\ Refreshes(next) /\ next \in Seq(Requests)
          /\ \A k \in DOMAIN next : next[k].kind \in {"users", "usage"}
      BY <1>3, RefreshesAreRequests DEF Delivers
    <2>2. /\ Len(flight') = Len(flight) - 1 + Len(next)
          /\ \A k \in DOMAIN next : flight'[Len(flight) - 1 + k] = next[k]
          /\ Len(next) \in Nat /\ DOMAIN next = 1 .. Len(next)
      BY <2>1, RequestAnswered, LenProperties DEF Shaped
    <2>3. Len(next) \in DOMAIN next
      BY <1>0, <1>3, <2>2
    <2>4. Last(flight') = next[Len(next)]
      BY <2>2, <2>3 DEF Last
    <2> QED
      BY <1>3, <2>1, <2>3, <2>4
  <1>4. CASE Works
    BY <1>0, <1>4 DEF Works
  <1>5. ASSUME NEW r, Asks(r), More PROVE Goes
    <2>1. r \in Requests /\ flight' = Append(flight, r)
      BY <1>5 DEF Asks
    <2>2. Last(flight') = r
      BY <2>1, RequestSent DEF Last, Shaped
    <2>3. IsEditing /\ r.user = form.user /\ form.user # NoUser /\ r.row.key = form.key
      BY <1>5, <2>2 DEF Asks
    <2>4. form.user \in DOMAIN editing /\ form.key \in 1 .. keys
      BY <2>3 DEF KeysAreGivenOut
    <2> QED
      BY <2>2, <2>3, <2>4
  <1>6. CASE Len(flight') = Len(flight)
    BY <1>0, <1>6
  <1> QED
    BY <1>0, <1>1, <1>2, <1>3, <1>4, <1>5, <1>6, StepKinds

LEMMA KeysGrow ==
    ASSUME Parameters, Inv, [Next]_vars
    PROVE  ~hasty' /\ smooth => \A u \in DOMAIN db \cap DOMAIN db' : db'[u].key >= db[u].key
  <1> USE DEF Inv, TypedInv
  <1>1. CASE UNCHANGED db
    <2>1. \A u \in DOMAIN db : db[u].key \in Nat
      BY TablesAreRows DEF Shaped, Row
    <2> QED
      BY <1>1, <2>1
  <1>2. ASSUME NEW i \in DOMAIN flight, Serve(i), ~hasty', smooth,
               NEW u \in DOMAIN db \cap DOMAIN db'
        PROVE  db'[u].key >= db[u].key
    <2>1. ~hasty
      BY <1>2, ServeLeaves
    <2>2. FlightIsNew
      BY <1>2, <2>1 DEF CopiesAreNew
    <2>3. CASE flight[i].kind = "edit" /\ u = flight[i].user
      <3>1. db'[u].key = flight[i].row.key
        BY <1>2, <2>3, RowsServed
      <3>2. flight[i].state = "sent"
        BY <1>2, AnswerServed
      <3>3. NewerKey(u, flight[i].row.key)
        BY <2>2, <2>3, <3>2 DEF FlightIsNew
      <3> QED
        BY <3>1, <3>3 DEF NewerKey
    <2> QED
      BY <1>2, <2>3, RowsServed
  <1>3. \/ \E i \in DOMAIN flight : Serve(i)
        \/ UNCHANGED db
    <2>1. ASSUME NEW i \in DOMAIN flight, Fails(i) PROVE UNCHANGED db
      BY <2>1 DEF Fails
    <2>2. ASSUME NEW i \in DOMAIN flight, NEW next, Delivers(i, next) PROVE UNCHANGED db
      BY <2>2 DEF Delivers
    <2>3. CASE Works
      BY <2>3 DEF Works, Acts
    <2>4. ASSUME NEW r, Asks(r) PROVE UNCHANGED db
      BY <2>4 DEF Asks, Acts
    <2>5. CASE UNCHANGED vars
      BY <2>5 DEF vars
    <2> QED
      BY <2>1, <2>2, <2>3, <2>4, <2>5, StepKinds
  <1> QED
    BY <1>1, <1>2, <1>3

\* Every table, answer, dialog, form and request of UserDialog.tsx and DashboardContext.tsx
\* has its type, for any users, contents and number of requests.
THEOREM UserDialogTyped == ASSUME Parameters PROVE Spec => []TypeOK
  <1>1. Inv => TypeOK
    BY Typed DEF Inv
  <1> QED
    BY <1>1, Invariance, PTL

\* Every change of DashboardContext.tsx is followed by a refetch of the list: with no answer
\* missing or overtaken the table ends up as the rows of the server.
THEOREM TableIsCurrent == ASSUME Parameters PROVE Spec => []QuietTableIsCurrent
  <1>1. Inv => QuietTableIsCurrent
    BY QuietTable DEF Inv
  <1> QED
    BY <1>1, Invariance, PTL

\* The chart that UserDialog.tsx shows is of the user it is about, once the answers are in.
THEOREM ChartIsOfUser == ASSUME Parameters PROVE Spec => []ChartIsOfOpenUser
  <1>1. Inv => ChartIsOfOpenUser
    BY OpenChart DEF Inv
  <1> QED
    BY <1>1, Invariance, PTL

\* An edit that UserDialog.tsx submits goes to the user the dialog is about, with one of the
\* keys that were given out, even if the inbounds emptied the form under the dialog.
THEOREM EditsGoToUser == ASSUME Parameters PROVE Spec => EditsGoToTheOpenUser
  <1>1. Inv /\ [Next]_vars =>
            [Len(flight') > Len(flight) /\ Last(flight').kind = "edit" =>
                Last(flight').user \in DOMAIN editing /\ Last(flight').row.key # 0]_vars
    BY EditsGo
  <1> QED
    BY <1>1, Invariance, PTL DEF Spec, EditsGoToTheOpenUser

\* Of an administrator who waits for the answers no save puts back a key that was revoked.
THEOREM RevokedKeysStayOut == ASSUME Parameters PROVE Spec => RevokedKeyStaysOut
  <1>1. Inv /\ [Next]_vars =>
            [~hasty' /\ smooth =>
                \A u \in DOMAIN db \cap DOMAIN db' : db'[u].key >= db[u].key]_vars
    BY KeysGrow
  <1> QED
    BY <1>1, Invariance, PTL DEF Spec, RevokedKeyStaysOut

================================================================================
