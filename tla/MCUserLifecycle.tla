---------------------------- MODULE MCUserLifecycle ----------------------------
(* Small instances of UserLifecycle for TLC. *)
EXTENDS UserLifecycle

\* Rows as a create request leaves them.
Plain   == [Absent EXCEPT !.status = "active"]
Limited == [Plain EXCEPT !.limit = 1]
Dated   == [Plain EXCEPT !.expire = 1]
OnHold  == [Plain EXCEPT !.status = "on_hold", !.hold = 1]
Timed   == [OnHold EXCEPT !.timeout = 1]

Plan(l, carry, either) == [limit |-> l, expire |-> 0, carry |-> carry, either |-> either]

Rollover  == [Limited EXCEPT !.plan = Plan(1, TRUE, TRUE)]
Raising   == [Dated EXCEPT !.plan = Plan(0, FALSE, TRUE)]

\* Modify requests.
Same    == [status |-> "keep", limit |-> Keep, expire |-> Keep, hold |-> 0, timeout |-> 0,
            plan |-> NoPlan, tags |-> {}]
Disable == [Same EXCEPT !.status = "disabled"]
Enable  == [Same EXCEPT !.status = "active"]
Raise   == [Same EXCEPT !.limit = 2]
Prolong == [Same EXCEPT !.expire = 2]
PutHold == [Same EXCEPT !.status = "on_hold", !.hold = 1]
OneTag  == [Same EXCEPT !.tags = {CHOOSE t \in Tags : TRUE}]

NoEdits == {}

PatientProfiles == {Limited, Dated, OnHold, Rollover}
PatientEdits    == {Disable, Enable, Raise, Prolong, PutHold, OneTag}
ReviewProfiles  == {Dated, OnHold, Rollover}
JobProfiles     == {Limited, Dated, OnHold, Timed, Rollover}

\* The rows and edits that single behaviours need.
LimitedOnly == {Limited}
RaisingOnly == {Raising}
SwitchOnly  == {Disable, Enable}
================================================================================
