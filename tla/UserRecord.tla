------------------------------ MODULE UserRecord ------------------------------
(***************************************************************************)
(* The user row and what the functions of app/db/crud.py do to it.  Each   *)
(* operator maps the row a session loaded to the row it wants to commit;   *)
(* Flush is what the session then does to the row that is in the database. *)
(***************************************************************************)
EXTENDS Integers

CONSTANTS Tags,     \* inbound tags of the core's configuration
          NoPlan    \* the user has no next plan

\* A row that is not there: not yet, or no longer.
Gone == {"absent", "deleted"}

Statuses == Gone \cup {"active", "on_hold", "limited", "expired", "disabled"}

\* The statuses whose users are written into the configuration of a core.
Served == {"active", "on_hold"}

\* data_limit and expire are NULL when unlimited.  A NULL limit is not the number
\* 0, which next plans can leave behind: arithmetic on NULL raises TypeError.
NoLimit  == -99
NoExpire == 0

\* A session flushes the columns whose value differs from the one it loaded.
Flush(db, loaded, wanted) ==
    [f \in DOMAIN db |-> IF wanted[f] = loaded[f] THEN db[f] ELSE wanted[f]]

\* The response model refuses a negative data_limit.
Presentable(r) == r.limit = NoLimit \/ r.limit >= 0

OverLimit(r) == r.limit \notin {NoLimit, 0} /\ r.used >= r.limit
ExpiredAt(r, t) == r.expire # NoExpire /\ r.expire <= t

------------------------------------------------------------------------------
(* update_user *)

Keep == -1      \* the request does not give the field

\* Mutant: disabled users are no exception.
StatusForLimitOfAnyone(r) ==
    IF r.status = "expired" THEN "expired"
    ELSE IF OverLimit(r) THEN "limited"
    ELSE IF r.status = "on_hold" THEN "on_hold" ELSE "active"

\* The status after a new data limit was set on r.
StatusForLimit(r) ==
    IF r.status \in {"expired", "disabled"} THEN r.status
    ELSE IF OverLimit(r) THEN "limited"
    ELSE IF r.status = "on_hold" THEN "on_hold" ELSE "active"

\* The status after a new expiry was set on r.
StatusForExpire(r, t) ==
    IF r.status \notin {"active", "expired"} THEN r.status
    ELSE IF ExpiredAt(r, t) THEN "expired" ELSE "active"

\* Mutant: an omitted status is written too.
WithStatusGiven(r, s) == [r EXCEPT !.status = s]

WithStatus(r, s) == IF s = "keep" THEN r ELSE [r EXCEPT !.status = s]

WithLimit(r, l) ==
    IF l = Keep THEN r
    ELSE LET s == [r EXCEPT !.limit = IF l = 0 THEN NoLimit ELSE l]
         IN  [s EXCEPT !.status = StatusForLimit(s)]

WithExpire(r, e, t) ==
    IF e = Keep THEN r
    ELSE LET s == [r EXCEPT !.expire = e]
         IN  [s EXCEPT !.status = StatusForExpire(s, t)]

\* The next plan is replaced by the one in the request, or deleted without one;
\* edit_at moves, so that an earlier visit no longer counts for on_hold.
Modified(r, m, t) ==
    LET s == WithExpire(WithLimit(WithStatus(r, m.status), m.limit), m.expire, t)
    IN  [s EXCEPT !.tags    = IF m.tags = {} THEN @ ELSE m.tags,
                  !.timeout = IF m.timeout = 0 THEN @ ELSE m.timeout,
                  !.hold    = IF m.hold = 0 THEN @ ELSE m.hold,
                  !.plan    = m.plan,
                  !.online  = IF @ = "since" THEN "before" ELSE @]

\* revoke_user_sub: the new key k, by an update that repeats the whole row.
Revoked(r, k, t) ==
    LET m == [status |-> r.status,
              limit |-> IF r.limit = NoLimit THEN Keep ELSE r.limit,
              expire |-> IF r.expire = NoExpire THEN Keep ELSE r.expire,
              tags |-> {}, hold |-> 0, timeout |-> 0, plan |-> r.plan]
    IN  [Modified(r, m, t) EXCEPT !.key = k]

------------------------------------------------------------------------------
(* Resets *)

\* reset_user_data_usage.  The parenthesis (UserStatus.expired or
\* UserStatus.disabled) is just UserStatus.expired: anybody else becomes active.
UsageReset(r) ==
    [r EXCEPT !.used = 0, !.plan = NoPlan, !.due = FALSE,
              !.status = IF @ = "expired" THEN @ ELSE "active"]

\* reset_user_by_next raises TypeError when it has to subtract from NULL.
NextPlanRaises(r) == ~r.plan.carry /\ r.limit = NoLimit

\* reset_user_by_next
NextPlanApplied(r) ==
    [r EXCEPT !.status = "active", !.used = 0, !.due = FALSE, !.plan = NoPlan,
              !.expire = r.plan.expire,
              !.limit = r.plan.limit + IF r.plan.carry THEN 0 ELSE r.limit - r.used]

\* reset_all_users_data_usage, for one user
BulkReset(r) ==
    [r EXCEPT !.used = 0, !.plan = NoPlan,
              !.status = IF @ \in Gone \cup {"on_hold", "expired", "disabled"} THEN @ ELSE "active"]

\* disable_all_active_users and activate_all_disabled_users, for one user
BulkDisabled(r) == [r EXCEPT !.status = IF @ \in Served THEN "disabled" ELSE @]

BulkActivated(r) ==
    [r EXCEPT !.status =
        IF @ # "disabled" THEN @
        ELSE IF r.expire = NoExpire /\ r.hold # 0 /\ r.online = "never" THEN "on_hold"
        ELSE "active"]

------------------------------------------------------------------------------
(* Decisions of the review job *)

\* Mutant: the user who used exactly the limit is let through.
VerdictLenient(r, t) ==
    IF r.limit \notin {NoLimit, 0} /\ r.used > r.limit THEN "limited"
    ELSE IF ExpiredAt(r, t) THEN "expired" ELSE "fine"

\* A limited user is reported as limited even if expired too; a next plan comes
\* before both.
Verdict(r, t) ==
    LET limited == OverLimit(r)
        expired == ExpiredAt(r, t)
    IN  IF ~limited /\ ~expired THEN "fine"
        ELSE IF r.plan # NoPlan /\ (r.plan.either \/ (limited /\ expired)) THEN "next_plan"
        ELSE IF limited THEN "limited" ELSE "expired"

\* Mutant: only the time-out counts.
HoldTimedOut(r, t) == r.timeout # 0 /\ r.timeout <= t

\* An on_hold user becomes active after the first visit since the last edit, or
\* when the time-out has passed.
HoldIsOver(r, t) == r.online = "since" \/ (r.timeout # 0 /\ r.timeout <= t)

\* Mutant: the duration is not cleared.
StartedAgain(r, t) == [r EXCEPT !.expire = t + r.hold, !.timeout = 0]

\* start_user_expire, whose clock reading is t.
Started(r, t) == [r EXCEPT !.expire = t + r.hold, !.hold = 0, !.timeout = 0]
==============================================================================
