---------------------------- MODULE UserLifecycle ----------------------------
(***************************************************************************)
(* The life of the users: their rows in the database, the jobs and the     *)
(* requests that change them, and the accounts the xray cores hold for     *)
(* them.  app/jobs/review_users.py, app/jobs/reset_user_data_usage.py,     *)
(* app/jobs/remove_expired_users.py, app/routers/user.py, the bulk routes  *)
(* of app/routers/admin.py and add_user, remove_user, update_user of       *)
(* app/xray/operations.py.                                                 *)
(*                                                                         *)
(* A request or a job works on the rows its database session has loaded;   *)
(* a commit makes the session forget them all, and the next access reads   *)
(* the database again.  Every call to a core is a thread of its own, so    *)
(* calls reach the cores in any order.                                     *)
(***************************************************************************)
EXTENDS UserRecord, FiniteSets, Bags

CONSTANTS Users, Cores,
          Main,        \* the core of the panel itself; the others are nodes
          Handlers,    \* bound: requests between their load and their commit
          Profiles,    \* the rows a create request may make
          Edits,       \* what a modify request may ask for
          Requests,    \* the requests this instance receives
          Jobs,        \* the scheduled jobs this instance runs
          Faults,      \* the faults this instance is exposed to
          Unowned,     \* users without an admin row, made by an environment admin
          Patient,     \* nothing is started before the last thing is finished
          MaxTime, MaxUsed, MaxKey,   \* bounds of the clock and the counters
          MaxCalls,    \* bound: nothing is started while so many calls are open
          NoUser, NoConfig

RequestKinds == {"create", "modify", "delete", "reset", "revoke", "active_next",
                 "restart", "reset_all", "disable_all", "activate_all", "delete_expired"}
JobKinds == {"review", "renew", "record"}
FaultKinds == {"lost", "crash", "panel"}

ASSUME UserAssumption ==
    /\ Requests \subseteq RequestKinds
    /\ Jobs \subseteq JobKinds
    /\ Faults \subseteq FaultKinds
    /\ Unowned \subseteq Users
    /\ MaxTime \in Nat /\ MaxUsed \in Nat /\ MaxKey \in Nat /\ MaxCalls \in Nat
    /\ Main \in Cores
    /\ Patient \in BOOLEAN
    /\ NoUser \notin Users

VARIABLES
    rows,        \* the users table
    now,         \* the clock
    accounts,    \* the key a core has for a user, per inbound
    up,          \* whether a core runs
    calls,       \* API calls whose threads have not finished
    restarts,    \* restarts asked for: core and configuration
    starting,    \* the configuration a core is being restarted with
    handler,     \* requests under way
    review,      \* the review job
    renew        \* the reset_user_data_usage job

coreVars == <<accounts, up, calls, restarts, starting>>
jobVars  == <<review, renew>>
vars == <<rows, now, coreVars, handler, jobVars>>

------------------------------------------------------------------------------
(* Values *)

NoKey == 0

Absent == [status |-> "absent", used |-> 0, limit |-> NoLimit, expire |-> NoExpire,
           plan |-> NoPlan, hold |-> 0, timeout |-> 0, online |-> "never",
           due |-> FALSE, key |-> 1, tags |-> Tags]

Deleted == [Absent EXCEPT !.status = "deleted"]

Exists(u) == rows[u].status \notin Gone

HandlerIdle == [kind |-> "idle", user |-> NoUser, row |-> Absent]
ReviewIdle  == [pc |-> "idle", at |-> 0, todo |-> {}, user |-> NoUser, loaded |-> << >>]
RenewIdle   == [pc |-> "idle", todo |-> {}, loaded |-> << >>]

\* Nothing is under way.
Quiet ==
    /\ calls = EmptyBag
    /\ restarts = {}
    /\ \A c \in Cores : starting[c] = NoConfig
    /\ \A h \in Handlers : handler[h] = HandlerIdle
    /\ review = ReviewIdle
    /\ renew = RenewIdle

\* Whether a request, a job or a restart may begin.
Free == IF Patient THEN Quiet ELSE BagCardinality(calls) < MaxCalls

------------------------------------------------------------------------------
(* Calls to the cores *)

Call(do, u, c, tag, key) == [do |-> do, user |-> u, core |-> c, tag |-> tag, key |-> key]

\* The main core is always called, a node when it is connected and started.
Reached == {c \in Cores : up[c] \/ c = Main}

\* operations.add_user, with the row r that the caller holds
AddUser(u, r) == {Call("add", u, c, tag, r.key) : c \in Reached, tag \in r.tags}

\* Mutant: the core of the panel is forgotten.
RemoveUserFromNodes(u) == {Call("remove", u, c, tag, NoKey) : c \in Reached \ {Main}, tag \in Tags}

\* operations.remove_user
RemoveUser(u) == {Call("remove", u, c, tag, NoKey) : c \in Reached, tag \in Tags}

\* Mutant: a changed user keeps the inbounds that were taken away.
UpdateUserKeeping(u, r) == {Call("alter", u, c, tag, r.key) : c \in Reached, tag \in r.tags}

\* operations.update_user: alter the inbounds of the user, remove the others
UpdateUser(u, r) ==
    {Call("alter", u, c, tag, r.key) : c \in Reached, tag \in r.tags}
    \cup {Call("remove", u, c, tag, NoKey) : c \in Reached, tag \in Tags \ r.tags}

Issue(S) == calls' = calls (+) SetToBag(S)

\* XRayConfig.include_db_users, reading rows T
Config(T) ==
    [u \in Users |-> [tag \in Tags |->
        IF T[u].status \in Served /\ tag \in T[u].tags THEN T[u].key ELSE NoKey]]

\* A call to a core that does not run fails, and the failure is swallowed.
\* "alter" is a removal followed by an addition, each with its own handler.
Deliver(k) ==
    /\ BagIn(k, calls)
    /\ LET held == accounts[k.core][k.user][k.tag]
           new  == IF k.do # "add" THEN NoKey
                   ELSE IF held = NoKey THEN k.key ELSE held    \* EmailExistsError
       IN  \/ /\ up[k.core]
              /\ accounts' = [accounts EXCEPT ![k.core][k.user][k.tag] = new]
           \/ /\ ~up[k.core] \/ "lost" \in Faults
              /\ UNCHANGED accounts
    /\ calls' = (calls (-) SetToBag({k})) (+)
                SetToBag(IF k.do = "alter" THEN {[k EXCEPT !.do = "add"]} ELSE {})
    /\ UNCHANGED <<rows, now, up, restarts, starting, handler, jobVars>>

\* core.restart and restart_node are dropped while another restart is under way.
RestartBegin(r) ==
    /\ r \in restarts
    /\ restarts' = restarts \ {r}
    /\ IF starting[r.core] # NoConfig
       THEN UNCHANGED <<accounts, up, starting>>
       ELSE /\ starting' = [starting EXCEPT ![r.core] = r.config]
            /\ accounts' = [accounts EXCEPT ![r.core] = Config([u \in Users |-> Absent])]
            /\ up' = [up EXCEPT ![r.core] = FALSE]
    /\ UNCHANGED <<rows, now, calls, handler, jobVars>>

RestartEnd(c) ==
    /\ starting[c] # NoConfig
    /\ accounts' = [accounts EXCEPT ![c] = starting[c]]
    /\ up' = [up EXCEPT ![c] = TRUE]
    /\ starting' = [starting EXCEPT ![c] = NoConfig]
    /\ UNCHANGED <<rows, now, calls, restarts, handler, jobVars>>

\* The health check finds core c dead and restarts it from the rows of now.
HealthCheck(c) ==
    /\ Free
    /\ ~up[c]
    /\ starting[c] = NoConfig
    /\ \A r \in restarts : r.core # c
    /\ restarts' = restarts \cup {[core |-> c, config |-> Config(rows)]}
    /\ UNCHANGED <<rows, now, accounts, up, calls, starting, handler, jobVars>>

------------------------------------------------------------------------------
(* Requests *)

\* POST /user.  A user is the id of a row, which no second row has.
Create(u) ==
    /\ "create" \in Requests
    /\ Free
    /\ rows[u].status = "absent"
    /\ \E p \in Profiles :
          /\ rows' = [rows EXCEPT ![u] = p]
          /\ Issue(AddUser(u, p))
    /\ UNCHANGED <<now, accounts, up, restarts, starting, handler, jobVars>>

\* get_validated_user loads the row; DELETE /users/expired and the job
\* remove_expired_users choose it by its status.
Load(h, u, kind) ==
    /\ kind \in Requests \cap {"modify", "delete", "reset", "revoke", "active_next",
                             "delete_expired"}
    /\ Free
    /\ handler[h] = HandlerIdle
    /\ Exists(u)
    /\ kind = "delete_expired" => rows[u].status \in {"expired", "limited"}
    /\ kind = "revoke" =>
          rows[u].key + Cardinality({g \in Handlers : handler[g].kind = "revoke"}) < MaxKey
    /\ handler' = [handler EXCEPT ![h] = [kind |-> kind, user |-> u, row |-> rows[u]]]
    /\ UNCHANGED <<rows, now, coreVars, jobVars>>

\* The handler commits row r for its user, then issues the calls S gives it for
\* the row as committed.  Flushing to a row that is gone raises, and so does
\* answering with a row the response model refuses.
Commit(h, r, S(_)) ==
    LET u == handler[h].user
        after == Flush(rows[u], handler[h].row, r)
    IN  IF Exists(u)
        THEN /\ rows' = [rows EXCEPT ![u] = after]
             /\ Issue(IF Presentable(after) THEN S(after) ELSE {})
        ELSE UNCHANGED <<rows, calls>>

\* PUT /user
Modify(h) ==
    LET u == handler[h].user
        Sync(r) == IF r.status \in Served THEN UpdateUser(u, r) ELSE RemoveUser(u)
    IN  /\ handler[h].kind = "modify"
        /\ \E m \in Edits : Commit(h, Modified(handler[h].row, m, now), Sync)
        /\ handler' = [handler EXCEPT ![h] = HandlerIdle]
        /\ UNCHANGED <<now, accounts, up, restarts, starting, jobVars>>

\* DELETE /user.  Describing the owner of an unowned user raises after the row is
\* gone, and the background tasks of a failed request never run.
Delete(h) ==
    LET u == handler[h].user
    IN  /\ handler[h].kind = "delete"
        /\ rows' = [rows EXCEPT ![u] = Deleted]
        /\ Issue(IF u \in Unowned THEN {} ELSE RemoveUser(u))
        /\ handler' = [handler EXCEPT ![h] = HandlerIdle]
        /\ UNCHANGED <<now, accounts, up, restarts, starting, jobVars>>

\* crud.remove_users removes rows only: who is limited or expired is no longer in the
\* cores.
RemoveExpired(h) ==
    /\ handler[h].kind = "delete_expired"
    /\ rows' = [rows EXCEPT ![handler[h].user] = Deleted]
    /\ handler' = [handler EXCEPT ![h] = HandlerIdle]
    /\ UNCHANGED <<now, coreVars, jobVars>>

\* POST /user/reset
Reset(h) ==
    LET u == handler[h].user
        Sync(r) == IF r.status \in Served THEN AddUser(u, r) ELSE {}
    IN  /\ handler[h].kind = "reset"
        /\ Commit(h, UsageReset(handler[h].row), Sync)
        /\ handler' = [handler EXCEPT ![h] = HandlerIdle]
        /\ UNCHANGED <<now, accounts, up, restarts, starting, jobVars>>


\* POST /user/revoke_sub.  The whole row goes through the response model first.
Revoke(h) ==
    LET u == handler[h].user
        Sync(r) == IF r.status \in Served THEN UpdateUser(u, r) ELSE {}
    IN  /\ handler[h].kind = "revoke"
        /\ IF Presentable(handler[h].row)
           THEN Commit(h, Revoked(handler[h].row, rows[u].key + 1, now), Sync)
           ELSE UNCHANGED <<rows, calls>>
        /\ handler' = [handler EXCEPT ![h] = HandlerIdle]
        /\ UNCHANGED <<now, accounts, up, restarts, starting, jobVars>>

\* POST /user/active-next.  The answer is 404 in every case: once the plan has
\* been applied the user has none, and nothing is sent to the cores.
ActiveNext(h) ==
    LET r == handler[h].row
        Nothing(s) == {}
    IN  /\ handler[h].kind = "active_next"
        /\ IF r.plan = NoPlan \/ NextPlanRaises(r)
           THEN UNCHANGED <<rows, calls>>
           ELSE Commit(h, NextPlanApplied(r), Nothing)
        /\ handler' = [handler EXCEPT ![h] = HandlerIdle]
        /\ UNCHANGED <<now, accounts, up, restarts, starting, jobVars>>

\* A bulk route commits, then restarts the main core and every connected node with
\* the rows of now.
RestartWith(T) ==
    restarts' = restarts \cup
        {[core |-> c, config |-> Config(T)] : c \in Reached}

Bulk(kind, Change(_)) ==
    /\ kind \in Requests
    /\ Free
    /\ rows' = [u \in Users |-> Change(rows[u])]
    /\ RestartWith(rows')
    /\ UNCHANGED <<now, accounts, up, calls, starting, handler, jobVars>>

\* POST /users/reset, POST /admin/users/disable and /activate
ResetAll == Bulk("reset_all", BulkReset)
DisableAll == Bulk("disable_all", BulkDisabled)
ActivateAll == Bulk("activate_all", BulkActivated)

\* POST /core/restart and PUT /core/config
RestartCores ==
    /\ "restart" \in Requests
    /\ Free
    /\ RestartWith(rows)
    /\ UNCHANGED <<rows, now, accounts, up, calls, starting, handler, jobVars>>

RequestStep(h) ==
    \/ Modify(h) \/ Delete(h) \/ RemoveExpired(h)
    \/ Reset(h) \/ Revoke(h) \/ ActiveNext(h)

------------------------------------------------------------------------------
(* The review job *)

\* What the session of the job sees of user u.
Seen(job, u) == IF u \in DOMAIN job.loaded THEN job.loaded[u] ELSE rows[u]

\* get_users loads the users of some statuses.
Loading(job, status) ==
    LET S == {u \in Users : rows[u].status \in status}
    IN  [job EXCEPT !.todo = S, !.loaded = [u \in S |-> rows[u]]]

ReviewBegin ==
    /\ "review" \in Jobs
    /\ Free
    /\ review.pc = "idle"
    /\ review' = Loading([ReviewIdle EXCEPT !.pc = "active", !.at = now], {"active"})
    /\ UNCHANGED <<rows, now, coreVars, handler, renew>>

\* A user who was deleted meanwhile, or whose next plan cannot be computed,
\* raises, and the whole pass is over.
ReviewActive(u) ==
    LET r == Seen(review, u)
        rest == [review EXCEPT !.todo = @ \ {u}]
        verdict == Verdict(r, review.at)
        after == Flush(rows[u], r, NextPlanApplied(r))
    IN  /\ review.pc = "active"
        /\ u \in review.todo
        /\ \/ /\ r.status \in Gone
              /\ review' = ReviewIdle
              /\ UNCHANGED <<rows, calls>>
           \/ /\ r.status \notin Gone /\ verdict = "fine"
              /\ review' = rest
              /\ UNCHANGED <<rows, calls>>
           \/ /\ r.status \notin Gone /\ verdict = "next_plan"
              /\ IF NextPlanRaises(r) \/ ~Exists(u)
                 THEN review' = ReviewIdle /\ UNCHANGED <<rows, calls>>
                 ELSE /\ rows' = [rows EXCEPT ![u] = after]
                      /\ IF Presentable(after)
                         THEN review' = [rest EXCEPT !.loaded = << >>] /\ Issue(UpdateUser(u, after))
                         ELSE review' = ReviewIdle /\ UNCHANGED calls
           \/ /\ r.status \notin Gone /\ verdict \in {"limited", "expired"}
              /\ Issue(RemoveUser(u))
              /\ review' = [rest EXCEPT !.pc = verdict, !.user = u,
                                        !.loaded = [v \in {u} \cup DOMAIN @ |-> Seen(review, v)]]
              /\ UNCHANGED rows
        /\ UNCHANGED <<now, accounts, up, restarts, starting, handler, renew>>

\* update_user_status, after the removals were started
ReviewVerdict ==
    LET u == review.user
        r == review.loaded[u]
        after == Flush(rows[u], r, [r EXCEPT !.status = review.pc])
    IN  /\ review.pc \in {"limited", "expired"}
        /\ IF Exists(u)
           THEN /\ rows' = [rows EXCEPT ![u] = after]
                /\ review' = IF Presentable(after)
                             THEN [review EXCEPT !.pc = "active", !.user = NoUser, !.loaded = << >>]
                             ELSE ReviewIdle
           ELSE UNCHANGED rows /\ review' = ReviewIdle
        /\ UNCHANGED <<now, coreVars, handler, renew>>

\* The second half of the job is about the users on hold.
ReviewTurn ==
    /\ review.pc = "active"
    /\ review.todo = {}
    /\ review' = Loading([review EXCEPT !.pc = "hold"], {"on_hold"})
    /\ UNCHANGED <<rows, now, coreVars, handler, renew>>

\* update_user_status, the first of two commits
ReviewHold(u) ==
    LET r == Seen(review, u)
        rest == [review EXCEPT !.todo = @ \ {u}]
    IN  /\ review.pc = "hold"
        /\ u \in review.todo
        /\ IF r.status \notin Gone /\ ~HoldIsOver(r, review.at)
           THEN review' = rest /\ UNCHANGED rows
           ELSE IF r.status \in Gone \/ ~Exists(u)
           THEN review' = ReviewIdle /\ UNCHANGED rows
           ELSE LET after == Flush(rows[u], r, [r EXCEPT !.status = "active"])
                IN  /\ rows' = [rows EXCEPT ![u] = after]
                    /\ review' = [rest EXCEPT !.pc = "start", !.user = u,
                                              !.loaded = [v \in {u} |-> after]]
        /\ UNCHANGED <<now, coreVars, handler, renew>>

\* start_user_expire, the second; without a duration it raises, and so does the
\* report of a row the response model refuses.
ReviewStart ==
    LET u == review.user
        r == review.loaded[u]
        after == Flush(rows[u], r, Started(r, now))
    IN  /\ review.pc = "start"
        /\ IF r.hold = 0 \/ ~Exists(u)
           THEN review' = ReviewIdle /\ UNCHANGED rows
           ELSE /\ rows' = [rows EXCEPT ![u] = after]
                /\ review' = IF Presentable(after)
                             THEN [review EXCEPT !.pc = "hold", !.user = NoUser, !.loaded = << >>]
                             ELSE ReviewIdle
        /\ UNCHANGED <<now, coreVars, handler, renew>>

ReviewEnd ==
    /\ review.pc = "hold"
    /\ review.todo = {}
    /\ review' = ReviewIdle
    /\ UNCHANGED <<rows, now, coreVars, handler, renew>>

ReviewStep ==
    \/ ReviewBegin \/ ReviewVerdict \/ ReviewTurn \/ ReviewStart \/ ReviewEnd
    \/ \E u \in Users : ReviewActive(u) \/ ReviewHold(u)

------------------------------------------------------------------------------
(* The other jobs *)

RenewBegin ==
    /\ "renew" \in Jobs
    /\ Free
    /\ renew.pc = "idle"
    /\ \E u \in Users : rows[u].due
    /\ renew' = Loading([RenewIdle EXCEPT !.pc = "reset"], {"active", "limited"})
    /\ UNCHANGED <<rows, now, coreVars, handler, review>>

\* crud.reset_user_data_usage; the status is looked at after the reset, when the
\* user is limited only if somebody else has just written it.
RenewUser(u) ==
    LET r == Seen(renew, u)
        after == Flush(rows[u], r, UsageReset(r))
        rest == [renew EXCEPT !.todo = @ \ {u}]
    IN  /\ renew.pc = "reset"
        /\ u \in renew.todo
        /\ IF r.status \notin Gone /\ ~r.due
           THEN renew' = rest /\ UNCHANGED <<rows, calls>>
           ELSE IF r.status \in Gone \/ ~Exists(u)
           THEN renew' = RenewIdle /\ UNCHANGED <<rows, calls>>
           ELSE /\ rows' = [rows EXCEPT ![u] = after]
                /\ Issue(IF after.status = "limited" THEN AddUser(u, after) ELSE {})
                /\ renew' = [rest EXCEPT !.loaded = << >>]
        /\ UNCHANGED <<now, accounts, up, restarts, starting, handler, review>>

RenewEnd ==
    /\ renew.pc = "reset"
    /\ renew.todo = {}
    /\ renew' = RenewIdle
    /\ UNCHANGED <<rows, now, coreVars, handler, review>>

RenewStep == RenewBegin \/ RenewEnd \/ \E u \in Users : RenewUser(u)

\* record_user_usages adds what a user has transferred, in one UPDATE.
Record(u) ==
    /\ "record" \in Jobs
    /\ Exists(u)
    /\ \E c \in Cores : \E tag \in Tags : accounts[c][u][tag] # NoKey
    /\ rows[u].used < MaxUsed
    /\ rows' = [rows EXCEPT ![u].used = @ + 1, ![u].online = "since"]
    /\ UNCHANGED <<now, coreVars, handler, jobVars>>

------------------------------------------------------------------------------
(* Time and faults *)

Elapse ==
    /\ now < MaxTime
    /\ now' = now + 1
    /\ UNCHANGED <<rows, coreVars, handler, jobVars>>

\* The reset period of a user is over.
PeriodEnds(u) ==
    /\ "renew" \in Jobs
    /\ Exists(u)
    /\ ~rows[u].due
    /\ rows' = [rows EXCEPT ![u].due = TRUE]
    /\ UNCHANGED <<now, coreVars, handler, jobVars>>

CoreCrash(c) ==
    /\ "crash" \in Faults
    /\ Free
    /\ up[c]
    /\ up' = [up EXCEPT ![c] = FALSE]
    /\ accounts' = [accounts EXCEPT ![c] = Config([u \in Users |-> Absent])]
    /\ UNCHANGED <<rows, now, calls, restarts, starting, handler, jobVars>>

\* The panel dies and starts again: start_core restarts every core from the rows.
PanelRestart ==
    /\ "panel" \in Faults
    /\ Free
    /\ calls' = EmptyBag
    /\ handler' = [h \in Handlers |-> HandlerIdle]
    /\ review' = ReviewIdle
    /\ renew' = RenewIdle
    /\ starting' = [c \in Cores |-> NoConfig]
    /\ restarts' = {[core |-> c, config |-> Config(rows)] : c \in Cores}
    /\ UNCHANGED <<rows, now, accounts, up>>

Init ==
    /\ rows = [u \in Users |-> Absent]
    /\ now = 0
    /\ accounts = [c \in Cores |-> Config(rows)]
    /\ up = [c \in Cores |-> TRUE]
    /\ calls = EmptyBag
    /\ restarts = {}
    /\ starting = [c \in Cores |-> NoConfig]
    /\ handler = [h \in Handlers |-> HandlerIdle]
    /\ review = ReviewIdle
    /\ renew = RenewIdle

CoreStep ==
    \/ \E k \in BagToSet(calls) : Deliver(k)
    \/ \E r \in restarts : RestartBegin(r)
    \/ \E c \in Cores : RestartEnd(c) \/ HealthCheck(c)

UserRequest(u) ==
    \/ Create(u)
    \/ \E h \in Handlers : \E kind \in RequestKinds : Load(h, u, kind)

Next ==
    \/ CoreStep
    \/ \E u \in Users : UserRequest(u) \/ Record(u) \/ PeriodEnds(u)
    \/ \E h \in Handlers : RequestStep(h)
    \/ ResetAll \/ DisableAll \/ ActivateAll \/ RestartCores
    \/ ReviewStep
    \/ RenewStep
    \/ Elapse
    \/ \E c \in Cores : CoreCrash(c)
    \/ PanelRestart

Spec == Init /\ [][Next]_vars

\* Threads and requests run, the scheduler keeps calling the jobs and the clock
\* advances.  Who uses the service, what is requested and what fails is open.
\* Beginning a job never waits in the code: where MaxCalls makes it wait, strong
\* fairness gives it its turn.
FairSpec ==
    /\ Spec
    /\ WF_vars(CoreStep)
    /\ \A h \in Handlers : WF_vars(RequestStep(h))
    /\ SF_vars(ReviewStep)
    /\ SF_vars(RenewStep)
    /\ WF_vars(Elapse)

------------------------------------------------------------------------------
(* Properties *)

Plans == [limit : Nat, expire : Nat, carry : BOOLEAN, either : BOOLEAN]

RowType ==
    [status : Statuses, used : 0..MaxUsed, limit : Int, expire : Nat, hold : Nat,
     timeout : Nat, online : {"never", "before", "since"}, due : BOOLEAN,
     key : 1..MaxKey, tags : SUBSET Tags, plan : {NoPlan} \cup Plans]

EditType ==
    [status : {"keep", "active", "on_hold", "disabled"}, limit : Nat \cup {Keep},
     expire : Nat \cup {Keep}, hold : Nat, timeout : Nat, tags : SUBSET Tags,
     plan : {NoPlan} \cup Plans]

\* UserCreate admits two statuses only, UserModify the three that a person may set.
ASSUME RequestAssumption ==
    /\ IsFiniteSet(Handlers)
    /\ MaxKey > 0
    /\ \A p \in Profiles : p \in RowType /\ p.status \in Served /\ Presentable(p)
    /\ \A m \in Edits : m \in EditType

Configs == [Users -> [Tags -> 0..MaxKey]]

CallType ==
    [do : {"add", "remove", "alter"}, user : Users, core : Cores, tag : Tags, key : 0..MaxKey]

TypeOK ==
    /\ rows \in [Users -> RowType]
    /\ now \in 0..MaxTime
    /\ accounts \in [Cores -> Configs]
    /\ up \in [Cores -> BOOLEAN]
    /\ IsABag(calls)
    /\ BagToSet(calls) \subseteq CallType
    /\ restarts \subseteq [core : Cores, config : Configs]
    /\ starting \in [Cores -> Configs \cup {NoConfig}]
    /\ \A h \in Handlers : handler[h].user \in Users \cup {NoUser} /\ handler[h].row \in RowType
    /\ review.pc \in {"idle", "active", "limited", "expired", "hold", "start"}
    /\ \A u \in DOMAIN review.loaded : review.loaded[u] \in RowType
    /\ renew.pc \in {"idle", "reset"}
    /\ \A u \in DOMAIN renew.loaded : renew.loaded[u] \in RowType

\* "Both active and on_hold users are baked into Xray": once nothing is under way,
\* a core that runs serves exactly these, with their keys, on their inbounds.
AccessMatchesStatus ==
    Quiet => \A c \in Cores : up[c] => accounts[c] = Config(rows)

\* A disabled user becomes active only because somebody asked for it by a modify
\* request.
DisabledUntilModified ==
    [][\A u \in Users : rows[u].status = "disabled" /\ rows'[u].status = "active" =>
           \E h \in Handlers : /\ handler[h].user = u /\ handler[h].kind = "modify"
                               /\ handler'[h] = HandlerIdle]_vars

\* on_hold ends by starting the clock: an active user whose duration is still
\* waiting to be applied is one the review job is busy with.
HoldIsStarted ==
    \A u \in Users : rows[u].status = "active" /\ rows[u].hold # 0 =>
        review.pc = "start" /\ review.user = u

\* A user over the limit, or past the expiry, does not stay active.
LapseIsNoticed ==
    \A u \in Users :
        []<>~(rows[u].status = "active" /\ (OverLimit(rows[u]) \/ ExpiredAt(rows[u], now)))

\* A user on hold who has come online does not stay on hold.
HoldEnds ==
    \A u \in Users : []<>~(rows[u].status = "on_hold" /\ rows[u].online = "since")

Lapsed(u) == rows[u].status \in {"limited", "expired"}

CutOff(u) == \A c \in Cores : up[c] => \A tag \in Tags : accounts[c][u][tag] = NoKey

\* The additions of the user whose threads have not finished.
Additions(u) == {k \in BagToSet(calls) : k.user = u /\ k.do # "remove"}

\* The user is limited or expired, or about to be, and a removal has overtaken an
\* addition: the addition is open where no removal is open any more.
Overtaken(u) ==
    /\ Lapsed(u) \/ (review.pc \in {"limited", "expired"} /\ review.user = u)
    /\ \E k \in Additions(u) : ~BagIn(Call("remove", u, k.core, k.tag, NoKey), calls)

\* "active -> limited ... remove_user + update_user_status", and remove_user is applied
\* to every core: who stays limited or expired is out of every running core in the end,
\* however the calls interleave, unless a removal overtakes an addition of the same
\* user.  Then the addition stays, for nothing orders the threads of one user.
CutOffUnlessOvertaken ==
    \A u \in Users : <>[]Lapsed(u) => <>Overtaken(u) \/ []<>CutOff(u)

==============================================================================
