---------------------------- MODULE UsageAccounting ----------------------------
(***************************************************************************)
(* How traffic becomes usage: record_user_usages of                        *)
(* app/jobs/record_usages.py, with the resets that run beside it.  A pass  *)
(* reads the counters of the cores, which the read sets to zero, and only  *)
(* then stores what it read, in several transactions.                      *)
(***************************************************************************)
EXTENDS Sums

CONSTANTS Users, Admins, Cores,
          Main,       \* the core of the panel itself; the others are nodes
          Owner,      \* the admin of each user, or NoAdmin
          NoAdmin,
          Scale,      \* a usage coefficient of 1, in the units of Factor
          Factor,     \* the usage coefficient of each core
          Handlers,   \* bound: resets between their load and their commit
          MaxMoved,   \* bound: bytes moved in all
          Faults,     \* the faults this instance is exposed to
          NoUser, NoCore

ASSUME UsageAssumption ==
    /\ IsFiniteSet(Users) /\ IsFiniteSet(Cores)
    /\ Main \in Cores
    /\ Owner \in [Users -> Admins \cup {NoAdmin}]
    /\ Scale \in Nat \ {0}
    /\ Factor \in [Cores -> Nat]
    /\ MaxMoved \in Nat
    /\ Faults \subseteq {"link", "poll", "core", "statement", "panel"}
    /\ NoUser \notin Users /\ NoCore \notin Cores /\ NoAdmin \notin Admins

VARIABLES
    up,         \* whether a core answers the panel
    counter,    \* what a core has counted for a user since it was last read
    used,       \* users.used_traffic
    logged,     \* the sum of the user's reset logs
    chart,      \* node_user_usages of the hour, in units of 1/Scale byte
    billed,     \* admins.users_usage
    pass,       \* the job
    handler,    \* resets under way: the user and the usage they loaded
    moved,      \* history: what a user has transferred over a core
    mishaps     \* history: what has happened to a user's usage on its way

coreVars    == <<up, counter, moved>>
dbVars      == <<used, logged, chart, billed>>
vars == <<coreVars, dbVars, pass, handler, mishaps>>

------------------------------------------------------------------------------

NoRow == -1

Nothing == [u \in Users |-> 0]

\* taken: what the pass has read from each core
PassIdle == [pc |-> "idle", todo |-> {}, core |-> NoCore,
             taken |-> [c \in Cores |-> Nothing]]

HandlerIdle == [user |-> NoUser, used |-> 0]

\* Mutant: what is cut off by rounding is cut off once more.
ChargedLess(c, v) == (v * Factor[c]) \div Scale - 1

\* int(value * coefficient), per core and pass
Charged(c, v) == (v * Factor[c]) \div Scale

\* users_usage: what the pass will add to user u
UsageOf(u) == Sum([c \in Cores |-> Charged(c, pass.taken[c][u])])

Counted(c) == {u \in Users : pass.taken[c][u] # 0}

\* The users whose usage is in the hands of the pass.
InHand == UNION {Counted(c) : c \in Cores}

Spoil(S, what) == [u \in Users |-> mishaps[u] \cup IF u \in S THEN {what} ELSE {}]

------------------------------------------------------------------------------
(* record_user_usages *)

\* The main core, and the nodes that are connected and started.
Begin ==
    /\ pass.pc = "idle"
    /\ pass' = [PassIdle EXCEPT !.pc = "poll", !.todo = {c \in Cores : c = Main \/ up[c]}]
    /\ UNCHANGED <<coreVars, dbVars, handler, mishaps>>

\* get_users_stats(reset=True), one thread per core.  An error is an empty answer;
\* when only the answer is lost, the counters are gone.
Poll(c) ==
    /\ pass.pc = "poll"
    /\ c \in pass.todo
    /\ \/ /\ up[c]
          /\ pass' = [pass EXCEPT !.todo = @ \ {c}, !.taken[c] = counter[c]]
          /\ counter' = [counter EXCEPT ![c] = Nothing]
          /\ UNCHANGED mishaps
       \/ /\ ~up[c]
          /\ pass' = [pass EXCEPT !.todo = @ \ {c}]
          /\ UNCHANGED <<counter, mishaps>>
       \/ /\ "poll" \in Faults /\ up[c]
          /\ pass' = [pass EXCEPT !.todo = @ \ {c}]
          /\ counter' = [counter EXCEPT ![c] = Nothing]
          /\ mishaps' = Spoil({u \in Users : counter[c][u] # 0}, "fault")
    /\ UNCHANGED <<up, moved, dbVars, handler>>

PollEnd ==
    /\ pass.pc = "poll"
    /\ pass.todo = {}
    /\ pass' = IF InHand = {} THEN PassIdle ELSE [pass EXCEPT !.pc = "users"]
    /\ UNCHANGED <<coreVars, dbVars, handler, mishaps>>

\* UPDATE users, one transaction for all of them
StoreUsers ==
    /\ pass.pc = "users"
    /\ used' = [u \in Users |-> used[u] + UsageOf(u)]
    /\ pass' = [pass EXCEPT !.pc = "admins"]
    /\ UNCHANGED <<coreVars, logged, chart, billed, handler, mishaps>>

\* Mutant: the admin is charged for one of the users.
StoreAdminsLastUser ==
    /\ pass.pc = "admins"
    /\ billed' = [a \in Admins |-> billed[a] +
           LET S == {u \in InHand : Owner[u] = a}
           IN  IF S = {} THEN 0 ELSE UsageOf(CHOOSE u \in S : TRUE)]
    /\ pass' = [pass EXCEPT !.pc = "charts", !.todo = {c \in Cores : Counted(c) # {}}]
    /\ UNCHANGED <<coreVars, used, logged, chart, handler, mishaps>>

\* UPDATE admins, the next one
StoreAdmins ==
    /\ pass.pc = "admins"
    /\ billed' = [a \in Admins |->
           billed[a] + Sum([u \in {v \in Users : Owner[v] = a} |-> UsageOf(u)])]
    /\ pass' = [pass EXCEPT !.pc = "charts", !.todo = {c \in Cores : Counted(c) # {}}]
    /\ UNCHANGED <<coreVars, used, logged, chart, handler, mishaps>>

\* record_user_stats for core c: insert the rows of the hour that are missing ...
OpenChart(c) ==
    /\ pass.pc = "charts"
    /\ c \in pass.todo
    /\ chart' = [u \in Users |-> [chart[u] EXCEPT ![c] =
           IF u \in Counted(c) /\ @ = NoRow THEN 0 ELSE @]]
    /\ pass' = [pass EXCEPT !.pc = "chart", !.core = c]
    /\ UNCHANGED <<coreVars, used, logged, billed, handler, mishaps>>

\* Mutant: the coefficient of the main core for everybody.
FillChartUnweighted ==
    /\ pass.pc = "chart"
    /\ chart' = [u \in Users |-> [chart[u] EXCEPT ![pass.core] =
           IF @ = NoRow THEN @ ELSE @ + pass.taken[pass.core][u] * Factor[Main]]]
    /\ pass' = [pass EXCEPT !.pc = "charts", !.core = NoCore, !.todo = @ \ {pass.core}]
    /\ UNCHANGED <<coreVars, used, logged, billed, handler, mishaps>>

\* ... then add to those there are; here nothing is truncated.
FillChart ==
    /\ pass.pc = "chart"
    /\ chart' = [u \in Users |-> [chart[u] EXCEPT ![pass.core] =
           IF @ = NoRow THEN @ ELSE @ + pass.taken[pass.core][u] * Factor[pass.core]]]
    /\ pass' = [pass EXCEPT !.pc = "charts", !.core = NoCore, !.todo = @ \ {pass.core}]
    /\ UNCHANGED <<coreVars, used, logged, billed, handler, mishaps>>

End ==
    /\ pass.pc = "charts"
    /\ pass.todo = {}
    /\ pass' = PassIdle
    /\ UNCHANGED <<coreVars, dbVars, handler, mishaps>>

\* Mutant: what was not stored is kept and stored once more by the next pass.
StatementFailsKeeping ==
    /\ "statement" \in Faults
    /\ pass.pc \in {"users", "admins", "charts", "chart"}
    /\ pass' = [pass EXCEPT !.pc = "users"]
    /\ mishaps' = Spoil(InHand, "fault")
    /\ UNCHANGED <<coreVars, dbVars, handler>>

\* safe_execute.  Its except clause names the driver's OperationalError; the
\* session raises SQLAlchemy's own, so that a deadlock is not retried: it rolls
\* the statement back and ends the pass, like every other error.
StatementFails ==
    /\ "statement" \in Faults
    /\ pass.pc \in {"users", "admins", "charts", "chart"}
    /\ pass' = PassIdle
    /\ mishaps' = Spoil(InHand, "fault")
    /\ UNCHANGED <<coreVars, dbVars, handler>>

PassStep ==
    \/ Begin \/ PollEnd \/ StoreUsers \/ StoreAdmins \/ FillChart \/ End
    \/ \E c \in Cores : Poll(c) \/ OpenChart(c)

------------------------------------------------------------------------------
(* crud.reset_user_data_usage, from a request or from the reset job *)

ResetLoad(h, u) ==
    /\ handler[h] = HandlerIdle
    /\ handler' = [handler EXCEPT ![h] = [user |-> u, used |-> used[u]]]
    /\ UNCHANGED <<coreVars, dbVars, pass, mishaps>>

\* The log has the usage that was loaded; the column is written only if that was
\* not 0 already; the chart goes.  Another reset of the user that is under way has
\* loaded the same usage and will log it again: an overlap.
ResetCommit(h) ==
    LET u == handler[h].user IN
    /\ handler[h] # HandlerIdle
    /\ logged' = [logged EXCEPT ![u] = @ + handler[h].used]
    /\ used' = IF handler[h].used = 0 THEN used ELSE [used EXCEPT ![u] = 0]
    /\ chart' = [chart EXCEPT ![u] = [c \in Cores |-> NoRow]]
    /\ mishaps' = [mishaps EXCEPT ![u] = @ \cup {"reset"} \cup
           IF \E g \in Handlers \ {h} : handler[g].user = u THEN {"overlap"} ELSE {}]
    /\ handler' = [handler EXCEPT ![h] = HandlerIdle]
    /\ UNCHANGED <<coreVars, billed, pass>>

------------------------------------------------------------------------------
(* The cores, and what can happen to them and to the panel *)

Transfer(c, u) ==
    /\ Sum([d \in Cores |-> Sum(moved[d])]) < MaxMoved
    /\ counter' = [counter EXCEPT ![c][u] = @ + 1]
    /\ moved' = [moved EXCEPT ![c][u] = @ + 1]
    /\ UNCHANGED <<up, dbVars, pass, handler, mishaps>>

LinkChange(c) ==
    /\ "link" \in Faults
    /\ up' = [up EXCEPT ![c] = ~@]
    /\ UNCHANGED <<counter, moved, dbVars, pass, handler, mishaps>>

\* A core that restarts starts to count at 0.
CoreRestart(c) ==
    /\ "core" \in Faults
    /\ counter[c] # Nothing
    /\ counter' = [counter EXCEPT ![c] = Nothing]
    /\ mishaps' = Spoil({u \in Users : counter[c][u] # 0}, "fault")
    /\ UNCHANGED <<up, moved, dbVars, pass, handler>>

PanelRestart ==
    /\ "panel" \in Faults
    /\ pass' = PassIdle
    /\ handler' = [h \in Handlers |-> HandlerIdle]
    /\ mishaps' = Spoil(InHand, "fault")
    /\ UNCHANGED <<coreVars, dbVars>>

Init ==
    /\ up = [c \in Cores |-> TRUE]
    /\ counter = [c \in Cores |-> Nothing]
    /\ used = Nothing
    /\ logged = Nothing
    /\ chart = [u \in Users |-> [c \in Cores |-> NoRow]]
    /\ billed = [a \in Admins |-> 0]
    /\ pass = PassIdle
    /\ handler = [h \in Handlers |-> HandlerIdle]
    /\ moved = [c \in Cores |-> Nothing]
    /\ mishaps = [u \in Users |-> {}]

Next ==
    \/ PassStep
    \/ StatementFails
    \/ \E h \in Handlers : ResetCommit(h) \/ \E u \in Users : ResetLoad(h, u)
    \/ \E c \in Cores : LinkChange(c) \/ CoreRestart(c) \/ \E u \in Users : Transfer(c, u)
    \/ PanelRestart

Spec == Init /\ [][Next]_vars

------------------------------------------------------------------------------
(* Properties *)

TypeOK ==
    /\ up \in [Cores -> BOOLEAN]
    /\ counter \in [Cores -> [Users -> Nat]]
    /\ used \in [Users -> Nat]
    /\ logged \in [Users -> Nat]
    /\ chart \in [Users -> [Cores -> Nat \cup {NoRow}]]
    /\ billed \in [Admins -> Nat]
    /\ pass \in [pc : {"idle", "poll", "users", "admins", "charts", "chart"},
                 todo : SUBSET Cores, core : Cores \cup {NoCore},
                 taken : [Cores -> [Users -> Nat]]]
    /\ handler \in [Handlers -> [user : Users \cup {NoUser}, used : Nat]]
    /\ moved \in [Cores -> [Users -> Nat]]
    /\ mishaps \in [Users -> SUBSET {"fault", "reset", "overlap"}]

Rows(u) == {c \in Cores : chart[u][c] # NoRow}
Charted(u) == Sum([c \in Rows(u) |-> chart[u][c]])

\* No chart shows more than was transferred over the core.
ChartWithinTraffic ==
    \A u \in Users, c \in Cores : chart[u][c] <= moved[c][u] * Factor[c]

\* Whatever fails or is repeated, and however resets fall in between, nobody is
\* charged for more than was transferred: the chart stays within the weighted traffic,
\* and so does the lifetime usage of a user whose resets do not overlap.
NeverOvercharged ==
    /\ ChartWithinTraffic
    /\ \A u \in Users : "overlap" \notin mishaps[u] =>
           Scale * (used[u] + logged[u]) <= Sum([c \in Cores |-> moved[c][u] * Factor[c]])

\* Between passes, an admin whose users met no fault and no overlap has been charged
\* for all they used; a reset may only lose some of the users' share.
AdminsPayForUsers ==
    pass.pc = "idle" =>
        \A a \in Admins :
            LET S == {u \in Users : Owner[u] = a}
                total == Sum([u \in S |-> used[u] + logged[u]])
            IN  /\ (\A u \in S : mishaps[u] \subseteq {"reset"}) => billed[a] >= total
                /\ (\A u \in S : mishaps[u] = {}) => billed[a] = total

\* Between passes, the chart of a user without mishap shows all that was read from
\* the cores, and the usage differs from it by what truncation took.
ChartIsComplete ==
    pass.pc = "idle" =>
        \A u \in {v \in Users : mishaps[v] = {}} :
            /\ Charted(u) = Sum([c \in Cores |-> (moved[c][u] - counter[c][u]) * Factor[c]])
            /\ Scale * used[u] <= Charted(u)
================================================================================
