---------------------------- MODULE NodeLifecycle ----------------------------
(***************************************************************************)
(* How the panel keeps its nodes connected: app/xray/operations.py         *)
(* (connect_node, restart_node, add_node, remove_node), the health check   *)
(* of app/jobs/xray_core.py, the node routes of app/routers/node.py and    *)
(* the REST client of app/xray/node.py.                                    *)
(*                                                                         *)
(* Every call of connect_node or restart_node is a thread of its own, and  *)
(* its body is cut where it touches state that others share: the Node row  *)
(* in the database, the xray.nodes registry, the in-flight flags, the      *)
(* ReconnectPolicy registry and the node at the other end of the wire.     *)
(***************************************************************************)
EXTENDS Backoff, FiniteSets

CONSTANTS Nodes,         \* ids of the nodes
          Threads,       \* bound: connect/restart threads alive at once
          Requests,      \* the operator requests this instance receives
          Faults,        \* the faults this instance is exposed to
          MaxFailures,   \* bound: the failure counter saturates here
          MaxLag,        \* bound: seconds a health check pass may take
          NoNode         \* no node at all

RequestKinds == {"add", "modify", "disable", "delete", "reconnect",
                 "restart_core", "restart_nodes"}
FaultKinds == {"link", "crash", "reboot", "panel"}

ASSUME LifecycleAssumption ==
    /\ MaxFailures \in Nat \ {0}
    /\ MaxLag \in Nat
    /\ NoNode \notin Nodes
    /\ Requests \subseteq RequestKinds
    /\ Faults \subseteq FaultKinds

\* Saturating the counter loses nothing when it is past every threshold.
ASSUME SaturationAssumption ==
    /\ MaxFailures >= Threshold
    /\ BackoffAfter(MaxFailures) = BackoffAfter(MaxFailures + 1)

VARIABLES
    row,         \* the Node row: its status, or "absent"
    registry,    \* xray.nodes: the XRayNode object registered for a node
    session,     \* the _session_id of every XRayNode object
    policy,      \* the ReconnectPolicy of a node
    connecting,  \* _connecting_nodes
    restarting,  \* _restarting_nodes
    pc,          \* where each thread is
    target,      \* the node_id it was started for
    obj,         \* the XRayNode object it holds
    seen,        \* the row status _change_node_status read and has not acted on
    link,        \* what the network lets through to the node
    running,     \* whether the node's xray core runs
    pending,     \* what is left to do of requests whose row is committed
    check        \* the health check job

dbVars     == <<row>>
panelVars  == <<registry, session, policy>>
flagVars   == <<connecting, restarting>>
threadVars == <<pc, target, obj, seen>>
nodeVars   == <<link, running>>
vars == <<dbVars, panelVars, flagVars, threadVars, nodeVars, pending, check>>

------------------------------------------------------------------------------
(* Values *)

Status == {"absent", "connecting", "connected", "error", "disabled"}
Unread == "unread"

\* XRayNode objects are named per node.  One can be registered, each thread and
\* the health check can hold one more; a name is reused once nobody holds it.
NoObj == 0
Objs  == 1..(Cardinality(Threads) + 2)

\* "stale": the object has a _session_id the node no longer knows.
Session == {"none", "live", "stale"}

\* "partial": the control channel answers, the core's gRPC API does not.
Link == {"down", "partial", "up"}

\* next_retry_at is kept as the seconds still to go.  A deadline more than
\* MaxLag in the past is past for every reader, so it is not aged further.
NoRetry == -(MaxLag + 1)

ConnectPC == {"c_connecting", "c_start", "c_version", "c_connected",
              "c_success", "c_failure", "c_error", "c_done"}
RestartPC == {"r_restart", "r_success", "r_failure", "r_error",
              "r_disconnect", "r_done"}
PC == ConnectPC \cup RestartPC \cup
      {"idle", "c_guard", "c_node", "c_add", "r_guard", "r_node", "r_ping"}

\* The calls of _change_node_status: the status written, and what comes next.
Written == [c_connecting |-> "connecting", c_connected |-> "connected",
            c_error |-> "error", r_error |-> "error"]
AfterWrite == [c_connecting |-> "c_start", c_connected |-> "c_success",
               c_error |-> "c_done", r_error |-> "r_disconnect"]

Enabled(n) == row[n] \notin {"absent", "disabled"}

Tails == {"remove", "remove_connect", "connect"}

CheckIdle == [pc |-> "idle", todo |-> {}, node |-> NoNode, obj |-> NoObj, lag |-> 0]

------------------------------------------------------------------------------
(* The reconnect policy of a node, as values *)

FreshPolicy == [failures |-> 0, backoff |-> Base, cooldown |-> NoRetry]

\* Mutant: the wait is doubled after it was capped.
FailedUncapped(p) ==
    LET k == Lesser(p.failures + 1, MaxFailures)
    IN  [failures |-> k, backoff |-> BackoffAfter(k), cooldown |-> 2 * BackoffAfter(k)]

\* on_failure
Failed(p) ==
    LET k == Lesser(p.failures + 1, MaxFailures)
    IN  [failures |-> k, backoff |-> BackoffAfter(k), cooldown |-> BackoffAfter(k)]

\* Mutant: an open circuit is never probed again.
DueWhenHealthy(p, lag) == p.cooldown = NoRetry

\* should_attempt, for a caller whose clock reading is lag seconds old
Due(p, lag) == p.cooldown = NoRetry \/ p.cooldown + lag <= 0

Aged(p) ==
    IF p.cooldown > -MaxLag THEN [p EXCEPT !.cooldown = @ - 1] ELSE p

------------------------------------------------------------------------------
(* XRayNode objects and the registry *)

\* The connected property: there is a session and the node answers its ping.
Connected(n, o) == o # NoObj /\ session[n][o] = "live" /\ link[n] # "down"

\* The sessions of a node after object o called disconnect(): a request that
\* fails raises before the session is cleared.
AfterDisconnect(n, o) ==
    IF Connected(n, o) THEN [session[n] EXCEPT ![o] = "none"] ELSE session[n]

\* The sessions of a node after object o called connect(): the node may keep
\* or drop the sessions it had.
AfterConnect(n, o) ==
    {[p \in Objs |-> IF p = o THEN "live"
                     ELSE IF drop /\ session[n][p] = "live" THEN "stale"
                     ELSE session[n][p]] : drop \in BOOLEAN}

\* remove_node(n, discard): nothing at all for a node that is not registered.
RemoveNode(n, discard) ==
    IF registry[n] = NoObj
    THEN UNCHANGED panelVars
    ELSE /\ session' = [session EXCEPT ![n] = AfterDisconnect(n, registry[n])]
         /\ registry' = [registry EXCEPT ![n] = NoObj]
         /\ policy' = IF discard THEN [policy EXCEPT ![n] = FreshPolicy] ELSE policy

Held(n) ==
    {registry[n]} \cup {obj[t] : t \in {u \in Threads : target[u] = n}}
    \cup {p[2] : p \in {q \in check.todo : q[1] = n}}
    \cup {o \in {check.obj} : check.node = n}

NewObj(n) == CHOOSE o \in Objs \ Held(n) : TRUE

\* Mutant: the reconnect path discards the policy, as add_node once did.
AddNodeAfresh(t) ==
    LET n == target[t]
        o == NewObj(n)
    IN  /\ Objs \ Held(n) # {}
        /\ session' = [session EXCEPT ![n] =
               [p \in Objs |-> IF p \in Held(n) THEN AfterDisconnect(n, registry[n])[p]
                               ELSE "none"]]
        /\ registry' = [registry EXCEPT ![n] = o]
        /\ obj' = [obj EXCEPT ![t] = o]
        /\ policy' = [policy EXCEPT ![n] = FreshPolicy]

\* add_node: replace the registered object, keep the policy.
AddNode(t) ==
    LET n == target[t]
        o == NewObj(n)
    IN  /\ Objs \ Held(n) # {}
        /\ session' = [session EXCEPT ![n] =
               [p \in Objs |-> IF p \in Held(n) THEN AfterDisconnect(n, registry[n])[p]
                               ELSE "none"]]
        /\ registry' = [registry EXCEPT ![n] = o]
        /\ obj' = [obj EXCEPT ![t] = o]
        /\ UNCHANGED policy

------------------------------------------------------------------------------
(* Threads *)

Goto(t, label) == pc' = [pc EXCEPT ![t] = label]

Finish(t) ==
    /\ pc' = [pc EXCEPT ![t] = "idle"]
    /\ target' = [target EXCEPT ![t] = NoNode]
    /\ obj' = [obj EXCEPT ![t] = NoObj]
    /\ seen' = [seen EXCEPT ![t] = Unread]

\* @threaded_function: the call starts a thread and returns.
Launch(t, n, label) ==
    /\ pc[t] = "idle"
    /\ pc' = [pc EXCEPT ![t] = label]
    /\ target' = [target EXCEPT ![t] = n]
    /\ UNCHANGED <<obj, seen>>

\* Mutant: a disabled node is left in the registry.
ReadStatusLeniently(t) ==
    LET n == target[t] IN
    /\ pc[t] \in DOMAIN Written
    /\ seen[t] = Unread
    /\ IF Enabled(n)
       THEN seen' = [seen EXCEPT ![t] = row[n]] /\ UNCHANGED pc
       ELSE Goto(t, AfterWrite[pc[t]]) /\ UNCHANGED seen
    /\ UNCHANGED <<dbVars, panelVars, flagVars, target, obj, nodeVars, pending, check>>

\* _change_node_status, first half: read the row.  A disabled node is removed
\* from the registry instead, a deleted one is left alone.
ReadStatus(t) ==
    LET n == target[t] IN
    /\ pc[t] \in DOMAIN Written
    /\ seen[t] = Unread
    /\ \/ /\ Enabled(n)
          /\ seen' = [seen EXCEPT ![t] = row[n]]
          /\ UNCHANGED <<pc, panelVars>>
       \/ /\ row[n] = "disabled"
          /\ RemoveNode(n, TRUE)
          /\ Goto(t, AfterWrite[pc[t]])
          /\ UNCHANGED seen
       \/ /\ row[n] = "absent"
          /\ Goto(t, AfterWrite[pc[t]])
          /\ UNCHANGED <<seen, panelVars>>
    /\ UNCHANGED <<dbVars, flagVars, target, obj, nodeVars, pending, check>>

\* Second half, crud.update_node_status: the UPDATE names the status column only
\* if the new status differs from the one read; a vanished row rolls back.
WriteStatus(t) ==
    LET n == target[t] IN
    /\ pc[t] \in DOMAIN Written
    /\ seen[t] # Unread
    /\ row' = IF row[n] = "absent" \/ seen[t] = Written[pc[t]] THEN row
              ELSE [row EXCEPT ![n] = Written[pc[t]]]
    /\ seen' = [seen EXCEPT ![t] = Unread]
    /\ Goto(t, AfterWrite[pc[t]])
    /\ UNCHANGED <<panelVars, flagVars, target, obj, nodeVars, pending, check>>

\* connect_node, restart_node: return at once when an attempt is in flight or the
\* node was deleted.  The flag itself is only set further down.
Enter(t) ==
    LET n == target[t] IN
    /\ \/ /\ pc[t] = "c_guard"
          /\ IF connecting[n] \/ row[n] = "absent"
             THEN Finish(t) ELSE Goto(t, "c_node") /\ UNCHANGED <<target, obj, seen>>
       \/ /\ pc[t] = "r_guard"
          /\ IF restarting[n] \/ row[n] = "absent"
             THEN Finish(t) ELSE Goto(t, "r_node") /\ UNCHANGED <<target, obj, seen>>
    /\ UNCHANGED <<dbVars, panelVars, flagVars, nodeVars, pending, check>>

\* connect_node: use the registered object if it is connected ...
ConnectLookUp(t) ==
    LET n == target[t] IN
    /\ pc[t] = "c_node"
    /\ IF Connected(n, registry[n])
       THEN /\ obj' = [obj EXCEPT ![t] = registry[n]]
            /\ connecting' = [connecting EXCEPT ![n] = TRUE]
            /\ Goto(t, "c_connecting")
       ELSE /\ Goto(t, "c_add")
            /\ UNCHANGED <<obj, connecting>>
    /\ UNCHANGED <<dbVars, panelVars, restarting, target, seen, nodeVars, pending, check>>

\* ... and a new one otherwise.
ConnectAdd(t) ==
    /\ pc[t] = "c_add"
    /\ AddNode(t)
    /\ connecting' = [connecting EXCEPT ![target[t]] = TRUE]
    /\ Goto(t, "c_connecting")
    /\ UNCHANGED <<dbVars, restarting, target, seen, nodeVars, pending, check>>

\* restart_node: use the registered object, create one only if it is missing.
RestartLookUp(t) ==
    LET n == target[t] IN
    /\ pc[t] = "r_node"
    /\ IF registry[n] # NoObj
       THEN obj' = [obj EXCEPT ![t] = registry[n]] /\ UNCHANGED panelVars
       ELSE AddNode(t)
    /\ Goto(t, "r_ping")
    /\ UNCHANGED <<dbVars, flagVars, target, seen, nodeVars, pending, check>>

\* A node that is not connected is left to connect_node, in a new thread; this
\* one ends, so its slot is reused.
RestartPing(t) ==
    LET n == target[t] IN
    /\ pc[t] = "r_ping"
    /\ IF Connected(n, obj[t])
       THEN /\ restarting' = [restarting EXCEPT ![n] = TRUE]
            /\ Goto(t, "r_restart")
            /\ UNCHANGED obj
       ELSE /\ obj' = [obj EXCEPT ![t] = NoObj]
            /\ Goto(t, "c_guard")
            /\ UNCHANGED restarting
    /\ UNCHANGED <<dbVars, panelVars, connecting, target, seen, nodeVars, pending, check>>

\* node.start(config) and node.restart(config): connect first if there is no
\* live session, have the core (re)started, wait for its gRPC API.
StartCore(t) ==
    LET n == target[t]
        o == obj[t]
    IN
    /\ pc[t] \in {"c_start", "r_restart"}
    /\ \/ /\ link[n] = "down"
          /\ UNCHANGED <<session, running>>
       \/ /\ link[n] # "down"
          /\ \E s \in IF Connected(n, o) THEN {session[n]} ELSE AfterConnect(n, o) :
                session' = [session EXCEPT ![n] = s]
          /\ \/ running' = [running EXCEPT ![n] = TRUE]
             \/ link[n] = "partial" /\ UNCHANGED running
    /\ Goto(t, CASE pc[t] = "c_start" -> IF link[n] = "up" THEN "c_version" ELSE "c_failure"
                 [] OTHER -> IF link[n] = "up" THEN "r_success" ELSE "r_failure")
    /\ UNCHANGED <<dbVars, registry, policy, flagVars, target, obj, seen, link, pending, check>>

\* node.get_version(): a request that may be refused once the session is stale.
GetVersion(t) ==
    LET n == target[t] IN
    /\ pc[t] = "c_version"
    /\ \/ link[n] # "down" /\ Goto(t, "c_connected")
       \/ ~Connected(n, obj[t]) /\ Goto(t, "c_failure")
    /\ UNCHANGED <<dbVars, panelVars, flagVars, target, obj, seen, nodeVars, pending, check>>

\* get_policy(node_id).on_success(): restart_node writes no status.
Succeed(t) ==
    /\ \/ pc[t] = "c_success" /\ Goto(t, "c_done")
       \/ pc[t] = "r_success" /\ Goto(t, "r_done")
    /\ policy' = [policy EXCEPT ![target[t]] = FreshPolicy]
    /\ UNCHANGED <<dbVars, registry, session, flagVars, target, obj, seen, nodeVars, pending, check>>

\* get_policy(node_id).on_failure(now)
Fail(t) ==
    /\ \/ pc[t] = "c_failure" /\ Goto(t, "c_error")
       \/ pc[t] = "r_failure" /\ Goto(t, "r_error")
    /\ policy' = [policy EXCEPT ![target[t]] = Failed(@)]
    /\ UNCHANGED <<dbVars, registry, session, flagVars, target, obj, seen, nodeVars, pending, check>>

\* After a failed restart: node.disconnect(), errors swallowed.
DropSession(t) ==
    /\ pc[t] = "r_disconnect"
    /\ session' = [session EXCEPT ![target[t]] = AfterDisconnect(target[t], obj[t])]
    /\ Goto(t, "r_done")
    /\ UNCHANGED <<dbVars, registry, policy, flagVars, target, obj, seen, nodeVars, pending, check>>

\* Mutant: the flag is deleted on the success path only.
ClearFlagOnSuccess(t) ==
    /\ pc[t] \in {"c_done", "r_done"}
    /\ IF policy[target[t]] = FreshPolicy
       THEN /\ connecting' = [connecting EXCEPT ![target[t]] = FALSE]
            /\ restarting' = [restarting EXCEPT ![target[t]] = FALSE]
       ELSE UNCHANGED flagVars
    /\ Finish(t)
    /\ UNCHANGED <<dbVars, panelVars, nodeVars, pending, check>>

\* The finally clause: the flag is deleted, whoever set it.
ClearFlag(t) ==
    /\ \/ /\ pc[t] = "c_done"
          /\ connecting' = [connecting EXCEPT ![target[t]] = FALSE]
          /\ UNCHANGED restarting
       \/ /\ pc[t] = "r_done"
          /\ restarting' = [restarting EXCEPT ![target[t]] = FALSE]
          /\ UNCHANGED connecting
    /\ Finish(t)
    /\ UNCHANGED <<dbVars, panelVars, nodeVars, pending, check>>

ThreadStep(t) ==
    \/ ReadStatus(t) \/ WriteStatus(t)
    \/ Enter(t) \/ ConnectLookUp(t) \/ ConnectAdd(t)
    \/ RestartLookUp(t) \/ RestartPing(t)
    \/ StartCore(t) \/ GetVersion(t)
    \/ Succeed(t) \/ Fail(t) \/ DropSession(t) \/ ClearFlag(t)

------------------------------------------------------------------------------
(* core_health_check *)

\* The snapshot list(xray.nodes.items()) and now = clock().
CheckBegin ==
    /\ check.pc = "idle"
    /\ \E n \in Nodes : registry[n] # NoObj
    /\ check' = [CheckIdle EXCEPT !.pc = "next",
                    !.todo = {<<n, registry[n]>> : n \in {m \in Nodes : registry[m] # NoObj}}]
    /\ UNCHANGED <<dbVars, panelVars, flagVars, threadVars, nodeVars, pending>>

\* The policy gate, which skips a node in its cooldown, and the first
\* node.connected.
CheckGate(n, o) ==
    /\ check.pc = "next"
    /\ <<n, o>> \in check.todo
    /\ check' = IF Due(policy[n], check.lag)
                THEN [check EXCEPT !.pc = IF Connected(n, o) THEN "probe" ELSE "recheck",
                                   !.todo = @ \ {<<n, o>>}, !.node = n, !.obj = o]
                ELSE [check EXCEPT !.todo = @ \ {<<n, o>>}]
    /\ UNCHANGED <<dbVars, panelVars, flagVars, threadVars, nodeVars, pending>>

CheckEnd ==
    /\ check.pc = "next"
    /\ check.todo = {}
    /\ check' = CheckIdle
    /\ UNCHANGED <<dbVars, panelVars, flagVars, threadVars, nodeVars, pending>>

\* node.started and get_sys_stats.  A node that does not answer the first raises
\* NodeAPIError, which no handler catches: the pass ends there, for every node.
CheckProbe ==
    LET n == check.node IN
    /\ check.pc = "probe"
    /\ \/ /\ ~Connected(n, check.obj)
          /\ check' = CheckIdle
          /\ UNCHANGED threadVars
       \/ /\ link[n] = "up" /\ running[n]
          /\ check' = [check EXCEPT !.pc = "recheck"]
          /\ UNCHANGED threadVars
       \/ /\ link[n] # "down"
          /\ link[n] = "partial" \/ ~running[n]
          /\ \E t \in Threads : Launch(t, n, "r_guard")
          /\ check' = [check EXCEPT !.pc = "recheck"]
    /\ UNCHANGED <<dbVars, panelVars, flagVars, nodeVars, pending>>

\* The second node.connected.
CheckRecheck ==
    /\ check.pc = "recheck"
    /\ IF Connected(check.node, check.obj)
       THEN UNCHANGED threadVars
       ELSE \E t \in Threads : Launch(t, check.node, "c_guard")
    /\ check' = [check EXCEPT !.pc = "next", !.node = NoNode, !.obj = NoObj]
    /\ UNCHANGED <<dbVars, panelVars, flagVars, nodeVars, pending>>

CheckStep ==
    \/ CheckBegin \/ CheckEnd \/ CheckProbe \/ CheckRecheck
    \/ \E n \in Nodes : \E o \in Objs : CheckGate(n, o)

------------------------------------------------------------------------------
(* The node routes.  A request commits the row, then goes on with its tail:   *)
(* operations.remove_node in the handler, connect_node as a background task.  *)

Tail(n, what) == [node |-> n, what |-> what]

Add(n) ==
    /\ "add" \in Requests
    /\ row[n] = "absent"
    /\ row' = [row EXCEPT ![n] = "connecting"]
    /\ pending' = pending \cup {Tail(n, "connect")}
    /\ UNCHANGED <<panelVars, flagVars, threadVars, nodeVars, check>>

Modify(n) ==
    /\ "modify" \in Requests
    /\ row[n] # "absent"
    /\ row' = [row EXCEPT ![n] = "connecting"]
    /\ pending' = pending \cup {Tail(n, "remove_connect")}
    /\ UNCHANGED <<panelVars, flagVars, threadVars, nodeVars, check>>

Disable(n) ==
    /\ "disable" \in Requests
    /\ row[n] # "absent"
    /\ row' = [row EXCEPT ![n] = "disabled"]
    /\ pending' = pending \cup {Tail(n, "remove")}
    /\ UNCHANGED <<panelVars, flagVars, threadVars, nodeVars, check>>

Delete(n) ==
    /\ "delete" \in Requests
    /\ row[n] # "absent"
    /\ row' = [row EXCEPT ![n] = "absent"]
    /\ pending' = pending \cup {Tail(n, "remove")}
    /\ UNCHANGED <<panelVars, flagVars, threadVars, nodeVars, check>>

\* The Reconnect button: a clean policy, then an attempt the gate does not see.
Reconnect(n) ==
    /\ "reconnect" \in Requests
    /\ row[n] # "absent"
    /\ policy' = [policy EXCEPT ![n] = FreshPolicy]
    /\ pending' = pending \cup {Tail(n, "connect")}
    /\ UNCHANGED <<dbVars, registry, session, flagVars, threadVars, nodeVars, check>>

\* One round of the loop over connected nodes in restart_core and
\* modify_core_config, which reset the policy, and in the bulk user routes,
\* which do not.
RestartConnected(n) ==
    /\ Connected(n, registry[n])
    /\ \/ /\ "restart_core" \in Requests
          /\ policy' = [policy EXCEPT ![n] = FreshPolicy]
       \/ /\ "restart_nodes" \in Requests
          /\ UNCHANGED policy
    /\ \E t \in Threads : Launch(t, n, "r_guard")
    /\ UNCHANGED <<dbVars, registry, session, flagVars, nodeVars, pending, check>>

Request(n) ==
    \/ Add(n) \/ Modify(n) \/ Disable(n) \/ Delete(n) \/ Reconnect(n)
    \/ RestartConnected(n)

\* The tail of a request.
FinishRequest(n) ==
    \/ /\ Tail(n, "remove") \in pending
       /\ RemoveNode(n, TRUE)
       /\ pending' = pending \ {Tail(n, "remove")}
       /\ UNCHANGED <<dbVars, flagVars, threadVars, nodeVars, check>>
    \/ /\ Tail(n, "remove_connect") \in pending
       /\ RemoveNode(n, TRUE)
       /\ pending' = (pending \ {Tail(n, "remove_connect")}) \cup {Tail(n, "connect")}
       /\ UNCHANGED <<dbVars, flagVars, threadVars, nodeVars, check>>
    \/ /\ Tail(n, "connect") \in pending
       /\ \E t \in Threads : Launch(t, n, "c_guard")
       /\ pending' = pending \ {Tail(n, "connect")}
       /\ UNCHANGED <<dbVars, panelVars, flagVars, nodeVars, check>>

------------------------------------------------------------------------------
(* Time, faults, and the start of the panel *)

Elapse ==
    /\ check.pc # "idle" => check.lag < MaxLag
    /\ policy' = [n \in Nodes |-> Aged(policy[n])]
    /\ check' = IF check.pc = "idle" THEN check ELSE [check EXCEPT !.lag = @ + 1]
    /\ UNCHANGED <<dbVars, registry, session, flagVars, threadVars, nodeVars, pending>>

LinkChange(n) ==
    /\ "link" \in Faults
    /\ \E l \in Link \ {link[n]} : link' = [link EXCEPT ![n] = l]
    /\ UNCHANGED <<dbVars, panelVars, flagVars, threadVars, running, pending, check>>

\* The core of the node dies; its service stays.
CoreCrash(n) ==
    /\ "crash" \in Faults
    /\ running[n]
    /\ running' = [running EXCEPT ![n] = FALSE]
    /\ UNCHANGED <<dbVars, panelVars, flagVars, threadVars, link, pending, check>>

\* The node restarts and knows no session any more.
Reboot(n) ==
    /\ "reboot" \in Faults
    /\ running[n] \/ \E o \in Objs : session[n][o] = "live"
    /\ running' = [running EXCEPT ![n] = FALSE]
    /\ session' = [session EXCEPT ![n] =
           [o \in Objs |-> IF session[n][o] = "live" THEN "stale" ELSE session[n][o]]]
    /\ UNCHANGED <<dbVars, registry, policy, flagVars, threadVars, link, pending, check>>

NoSessions == [n \in Nodes |-> [o \in Objs |-> "none"]]

\* What a process of the panel starts with; start_core then connects every node
\* that is not disabled.
PanelStart(enabled) ==
    /\ registry' = [n \in Nodes |-> NoObj]
    /\ session' = NoSessions
    /\ policy' = [n \in Nodes |-> FreshPolicy]
    /\ connecting' = [n \in Nodes |-> FALSE]
    /\ restarting' = [n \in Nodes |-> FALSE]
    /\ pc' = [t \in Threads |-> "idle"]
    /\ target' = [t \in Threads |-> NoNode]
    /\ obj' = [t \in Threads |-> NoObj]
    /\ seen' = [t \in Threads |-> Unread]
    /\ check' = CheckIdle
    /\ row' = [n \in Nodes |-> IF n \in enabled THEN "connecting" ELSE row[n]]
    /\ pending' = {Tail(n, "connect") : n \in enabled}

\* Mutant: start_core leaves the nodes to be connected by somebody else.
PanelRestartAlone ==
    /\ "panel" \in Faults
    /\ PanelStart({})
    /\ UNCHANGED nodeVars

\* The process dies, at any moment, and is started again.
PanelRestart ==
    /\ "panel" \in Faults
    /\ PanelStart({n \in Nodes : Enabled(n)})
    /\ UNCHANGED nodeVars

Fault(n) == LinkChange(n) \/ CoreCrash(n) \/ Reboot(n)

Init ==
    /\ row = [n \in Nodes |-> "absent"]
    /\ registry = [n \in Nodes |-> NoObj]
    /\ session = NoSessions
    /\ policy = [n \in Nodes |-> FreshPolicy]
    /\ connecting = [n \in Nodes |-> FALSE]
    /\ restarting = [n \in Nodes |-> FALSE]
    /\ pc = [t \in Threads |-> "idle"]
    /\ target = [t \in Threads |-> NoNode]
    /\ obj = [t \in Threads |-> NoObj]
    /\ seen = [t \in Threads |-> Unread]
    /\ link = [n \in Nodes |-> "up"]
    /\ running = [n \in Nodes |-> FALSE]
    /\ pending = {}
    /\ check = CheckIdle

Next ==
    \/ \E t \in Threads : ThreadStep(t)
    \/ CheckStep
    \/ \E n \in Nodes : Request(n) \/ FinishRequest(n) \/ Fault(n)
    \/ Elapse
    \/ PanelRestart

Spec == Init /\ [][Next]_vars

\* Threads run, requests finish, the scheduler keeps calling the health check
\* and the clock advances; requests and faults need not happen.  Starting a
\* thread or advancing the clock never waits in the code: where Threads and
\* MaxLag make it wait, strong fairness gives the waiting step its turn.
FairSpec ==
    /\ Spec
    /\ \A t \in Threads : WF_vars(ThreadStep(t))
    /\ SF_vars(CheckStep)
    /\ \A n \in Nodes : SF_vars(FinishRequest(n))
    /\ SF_vars(Elapse)

------------------------------------------------------------------------------
(* Properties *)

PolicyOf ==
    [failures : 0..MaxFailures, backoff : Nat, cooldown : NoRetry..Cap]

TypeOK ==
    /\ row \in [Nodes -> Status]
    /\ registry \in [Nodes -> Objs \cup {NoObj}]
    /\ session \in [Nodes -> [Objs -> Session]]
    /\ policy \in [Nodes -> PolicyOf]
    /\ connecting \in [Nodes -> BOOLEAN]
    /\ restarting \in [Nodes -> BOOLEAN]
    /\ pc \in [Threads -> PC]
    /\ target \in [Threads -> Nodes \cup {NoNode}]
    /\ obj \in [Threads -> Objs \cup {NoObj}]
    /\ seen \in [Threads -> Status \cup {Unread}]
    /\ link \in [Nodes -> Link]
    /\ running \in [Nodes -> BOOLEAN]
    /\ pending \subseteq [node : Nodes, what : Tails]
    /\ check \in [pc : {"idle", "next", "probe", "recheck"},
                  todo : SUBSET (Nodes \X Objs),
                  node : Nodes \cup {NoNode}, obj : Objs \cup {NoObj},
                  lag : 0..MaxLag]

\* The attempts for node n that are past their in-flight guard.
Connects(n) == {t \in Threads : target[t] = n /\ pc[t] \in ConnectPC}
Restarts(n) == {t \in Threads : target[t] = n /\ pc[t] \in RestartPC}

\* A flag left set would lock the node out of every later attempt.  It never
\* outlives the attempts: whatever the order in which overlapping threads set
\* and delete it, a set flag has a live attempt behind it that will delete it.
FlagsAreHeld ==
    \A n \in Nodes :
        /\ connecting[n] => Connects(n) # {}
        /\ restarting[n] => Restarts(n) # {}

\* No thread, request or health check pass has anything left to do for node n.
Settled(n) ==
    /\ \A t \in Threads : target[t] # n
    /\ \A what \in Tails : Tail(n, what) \notin pending
    /\ check.node # n
    /\ \A o \in Objs : <<n, o>> \notin check.todo

\* The health check walks the registry: an enabled node that is not in it is
\* never retried again.
EnabledNodeIsWatched ==
    \A n \in Nodes : Enabled(n) /\ Settled(n) => registry[n] # NoObj

\* Recreating the XRayNode object on each retry must not forget the failures:
\* only a successful attempt makes the count smaller.
OnlySuccessForgets ==
    [][\A n \in Nodes : policy'[n].failures < policy[n].failures =>
           \E t \in Threads : target[t] = n /\ pc[t] \in {"c_success", "r_success"}]_vars

\* A node that answers for good is brought back, whatever happened before.
NodeRecovers ==
    \A n \in Nodes :
        <>[](link[n] = "up" /\ Enabled(n)) =>
            []<>(Connected(n, registry[n]) /\ running[n])

\* A node that stays disabled does not stay registered: attempts that were in
\* flight, or that the health check started from an old snapshot, put it back at
\* most for a while.
DisabledNodeLeaves ==
    \A n \in Nodes : <>[](row[n] = "disabled") => []<>(registry[n] = NoObj)
==============================================================================
