------------------------------ MODULE MCDashboard ------------------------------
(***************************************************************************)
(* The tools of the dashboard on a small instance.                         *)
(***************************************************************************)
EXTENDS Dashboard

\* The inbounds of the form's instance: two, one, and none of a protocol.
ChosenInbounds == [vmess |-> {"a", "b"}, trojan |-> {"c"}, vless |-> {}]

\* A user with one link, and one with three.
ChosenLinks == <<1, 3>>

\* A tool that is not worked with has one initial state; which name the first node
\* has and which configuration the server starts with makes no difference.
SmallInit ==
    /\ DashboardInit
    /\ desk # "users" => filters.limit = 1
    /\ IF desk = "user" THEN 1 \in DOMAIN db ELSE db = << >>
    /\ desk # "form" => row = NoRow
    /\ desk # "session" => token = Nobody
    /\ nodeServer[1].name = "a" /\ coreServer = "c"

SmallSpec == SmallInit /\ [][DashboardNext]_dashboardVars

\* What bounds the three large tools.  An administrator who acts in haste and answers
\* that overtake each other or are missing are explored one without the other; the
\* dialog of the nodes claims nothing after either, and has one accordion open; a
\* dialog of the hosts that is not calm promises nothing but its accordions, for which
\* two requests are enough.
Attentive ==
    /\ desk = "user" => ~userHasty \/ userSmooth
    /\ desk = "nodes" => ~nodeHasty /\ ~overlooked /\ Cardinality(nodeAccordions) < 2
    /\ desk = "hosts" => hostCalm \/ hostRequests < 3
================================================================================
