------------------------- MODULE NodeLifecycle_proofs -------------------------
(***************************************************************************)
(* Proofs about NodeLifecycle, for any set of nodes, any number of threads *)
(* and any subset of the requests and faults.                              *)
(***************************************************************************)
EXTENDS NodeLifecycle, TLAPS

\* A thread works for a node exactly while it is not idle, and holds an object
\* from its look-up on; so does the health check while it looks at a node.
Bound ==
    /\ \A t \in Threads :
          /\ pc[t] = "idle" => target[t] = NoNode
          /\ pc[t] # "idle" => target[t] \in Nodes
          /\ pc[t] \in ConnectPC \cup RestartPC \cup {"r_ping"} => obj[t] \in Objs
    /\ check.pc \in {"probe", "recheck"} => check.node \in Nodes /\ check.obj \in Objs

Typed == TypeOK /\ Bound

LEMMA PolicyValues ==
    /\ FreshPolicy \in PolicyOf
    /\ \A p \in PolicyOf : Failed(p) \in PolicyOf /\ Aged(p) \in PolicyOf
  <1> USE BackoffAssumption, LifecycleAssumption
  <1>1. FreshPolicy \in PolicyOf
    BY DEF FreshPolicy, PolicyOf, NoRetry
  <1>2. ASSUME NEW p \in PolicyOf PROVE Failed(p) \in PolicyOf
    <2> DEFINE k == Lesser(p.failures + 1, MaxFailures)
    <2>1. k \in 1..MaxFailures
      BY <1>2 DEF PolicyOf, Lesser
    <2>2. BackoffAfter(k) \in Nat /\ BackoffAfter(k) <= Cap
      <3> DEFINE power == 2^Lesser(k - 1, MaxExponent)
      <3>1. power \in Nat
        <4>1. Lesser(k - 1, MaxExponent) \in 0..MaxExponent
          BY <2>1 DEF Lesser, MaxExponent
        <4> QED
          BY <4>1, PowersAssumption
      <3>2. BackoffAfter(k) = Lesser(Base * power, Cap)
        BY DEF BackoffAfter
      <3> HIDE DEF power, k
      <3>3. Base * power \in Nat
        BY <3>1
      <3> QED
        BY <3>2, <3>3 DEF Lesser
    <2>3. BackoffAfter(k) \in NoRetry..Cap
      BY <2>2 DEF NoRetry
    <2> QED
      BY <2>1, <2>2, <2>3 DEF Failed, PolicyOf
  <1>3. ASSUME NEW p \in PolicyOf PROVE Aged(p) \in PolicyOf
    BY <1>3 DEF Aged, PolicyOf, NoRetry
  <1> QED
    BY <1>1, <1>2, <1>3

\* The sessions of a node stay well-formed whatever an object does.
LEMMA SessionValues ==
    ASSUME Typed, NEW n \in Nodes, NEW o
    PROVE  /\ AfterDisconnect(n, o) \in [Objs -> Session]
           /\ AfterConnect(n, o) \subseteq [Objs -> Session]
  <1>1. session[n] \in [Objs -> Session]
    BY DEF Typed, TypeOK
  <1>2. AfterDisconnect(n, o) \in [Objs -> Session]
    BY <1>1 DEF AfterDisconnect, Session
  <1>3. ASSUME NEW s \in AfterConnect(n, o) PROVE s \in [Objs -> Session]
    <2>1. PICK drop \in BOOLEAN :
             s = [p \in Objs |-> IF p = o THEN "live"
                     ELSE IF drop /\ session[n][p] = "live" THEN "stale"
                     ELSE session[n][p]]
      BY <1>3 DEF AfterConnect
    <2> QED
      BY <1>1, <2>1 DEF Session
  <1> QED
    BY <1>2, <1>3

LEMMA RemoveNodeTyped ==
    ASSUME Typed, NEW n \in Nodes, NEW discard \in BOOLEAN, RemoveNode(n, discard)
    PROVE  /\ registry' \in [Nodes -> Objs \cup {NoObj}]
           /\ session' \in [Nodes -> [Objs -> Session]]
           /\ policy' \in [Nodes -> PolicyOf]
  <1>1. CASE registry[n] = NoObj
    BY <1>1 DEF RemoveNode, Typed, TypeOK, panelVars
  <1>2. CASE registry[n] # NoObj
    <2>1. AfterDisconnect(n, registry[n]) \in [Objs -> Session]
      BY SessionValues
    <2>2. session' \in [Nodes -> [Objs -> Session]]
      BY <1>2, <2>1 DEF RemoveNode, Typed, TypeOK
    <2>3. registry' \in [Nodes -> Objs \cup {NoObj}]
      BY <1>2 DEF RemoveNode, Typed, TypeOK
    <2>4. policy' \in [Nodes -> PolicyOf]
      BY <1>2, PolicyValues DEF RemoveNode, Typed, TypeOK
    <2> QED
      BY <2>2, <2>3, <2>4
  <1> QED
    BY <1>1, <1>2

LEMMA AddNodeTyped ==
    ASSUME Typed, NEW t \in Threads, target[t] \in Nodes, AddNode(t)
    PROVE  /\ registry' \in [Nodes -> Objs \cup {NoObj}]
           /\ session' \in [Nodes -> [Objs -> Session]]
           /\ policy' \in [Nodes -> PolicyOf]
           /\ obj' \in [Threads -> Objs \cup {NoObj}]
           /\ \A u \in Threads : u # t => obj'[u] = obj[u]
           /\ obj'[t] \in Objs
  <1> DEFINE n == target[t]
  <1>1. NewObj(n) \in Objs
    BY DEF AddNode, NewObj
  <1>2. AfterDisconnect(n, registry[n]) \in [Objs -> Session]
    BY SessionValues
  <1>3. [p \in Objs |-> IF p \in Held(n) THEN AfterDisconnect(n, registry[n])[p]
                        ELSE "none"] \in [Objs -> Session]
    BY <1>2 DEF Session
  <1> QED
    BY <1>1, <1>3 DEF AddNode, Typed, TypeOK

------------------------------------------------------------------------------
\* Every step of a thread keeps the types.
LEMMA ThreadStepTyped ==
    ASSUME Typed, NEW t \in Threads, ThreadStep(t)
    PROVE  Typed'
  <1>1. CASE ReadStatus(t)
    <2> DEFINE n == target[t]
    <2>1. n \in Nodes /\ pc[t] \in DOMAIN Written /\ AfterWrite[pc[t]] \in ConnectPC \cup RestartPC
      BY <1>1 DEF ReadStatus, Written, AfterWrite, ConnectPC, RestartPC, Typed, Bound
    <2>2. pc[t] \in ConnectPC \cup RestartPC
      BY <2>1 DEF Written, ConnectPC, RestartPC
    <2>3. CASE Enabled(n) /\ seen' = [seen EXCEPT ![t] = row[n]] /\ UNCHANGED <<pc, panelVars>>
      BY <1>1, <2>1, <2>3
         DEF ReadStatus, Typed, TypeOK, Bound, dbVars, panelVars, flagVars, nodeVars
    <2>4. CASE /\ UNCHANGED seen
               /\ Goto(t, AfterWrite[pc[t]])
               /\ RemoveNode(n, TRUE) \/ UNCHANGED panelVars
      <3>1. /\ registry' \in [Nodes -> Objs \cup {NoObj}]
            /\ session' \in [Nodes -> [Objs -> Session]]
            /\ policy' \in [Nodes -> PolicyOf]
        BY <2>1, <2>4, RemoveNodeTyped DEF Typed, TypeOK, panelVars
      <3>2. pc' \in [Threads -> PC]
        BY <2>1, <2>4 DEF Goto, PC, Typed, TypeOK
      <3>3. TypeOK'
        BY <1>1, <2>4, <3>1, <3>2 DEF ReadStatus, Typed, TypeOK, dbVars, flagVars, nodeVars
      <3>4. Bound'
        BY <1>1, <2>1, <2>2, <2>4
           DEF ReadStatus, Goto, PC, ConnectPC, RestartPC, Typed, TypeOK, Bound
      <3> QED
        BY <3>3, <3>4 DEF Typed
    <2> QED
      BY <1>1, <2>3, <2>4 DEF ReadStatus
  <1>2. CASE WriteStatus(t)
    <2>1. /\ pc[t] \in ConnectPC \cup RestartPC
          /\ AfterWrite[pc[t]] \in (ConnectPC \cup RestartPC) \cap PC
          /\ Written[pc[t]] \in Status
      BY <1>2 DEF WriteStatus, Written, AfterWrite, ConnectPC, RestartPC, PC, Status
    <2>2. TypeOK'
      BY <1>2, <2>1 DEF WriteStatus, Goto, Typed, TypeOK, panelVars, flagVars, nodeVars
    <2>3. Bound'
      BY <1>2, <2>1 DEF WriteStatus, Goto, ConnectPC, RestartPC, Typed, TypeOK, Bound
    <2> QED
      BY <2>2, <2>3 DEF Typed
  <1>3. CASE Enter(t)
    <2>1. CASE Finish(t)
      <3>1. TypeOK'
        BY <1>3, <2>1 DEF Enter, Finish, PC, Typed, TypeOK, dbVars, panelVars, flagVars, nodeVars
      <3>2. Bound'
        BY <1>3, <2>1 DEF Enter, Finish, ConnectPC, RestartPC, Typed, TypeOK, Bound
      <3> QED
        BY <3>1, <3>2 DEF Typed
    <2>2. CASE /\ pc[t] \in {"c_guard", "r_guard"}
               /\ Goto(t, "c_node") \/ Goto(t, "r_node")
               /\ UNCHANGED <<target, obj, seen>>
      <3>1. TypeOK'
        BY <1>3, <2>2 DEF Enter, Goto, PC, Typed, TypeOK, dbVars, panelVars, flagVars, nodeVars
      <3>2. Bound'
        BY <1>3, <2>2 DEF Enter, Goto, ConnectPC, RestartPC, Typed, TypeOK, Bound
      <3> QED
        BY <3>1, <3>2 DEF Typed
    <2> QED
      BY <1>3, <2>1, <2>2 DEF Enter
  <1>4. CASE ConnectLookUp(t)
    <2>1. target[t] \in Nodes /\ pc[t] = "c_node"
      BY <1>4 DEF ConnectLookUp, Typed, Bound
    <2>2. CASE Connected(target[t], registry[target[t]])
      <3>1. registry[target[t]] \in Objs
        BY <2>1, <2>2 DEF Connected, Typed, TypeOK
      <3>2. TypeOK'
        BY <1>4, <2>1, <2>2, <3>1
           DEF ConnectLookUp, Goto, PC, ConnectPC, Typed, TypeOK, dbVars, panelVars, nodeVars
      <3>3. Bound'
        BY <1>4, <2>1, <2>2, <3>1 DEF ConnectLookUp, Goto, ConnectPC, RestartPC, Typed, TypeOK, Bound
      <3> QED
        BY <3>2, <3>3 DEF Typed
    <2>3. CASE ~Connected(target[t], registry[target[t]])
      <3>1. TypeOK'
        BY <1>4, <2>3 DEF ConnectLookUp, Goto, PC, Typed, TypeOK, dbVars, panelVars, nodeVars
      <3>2. Bound'
        BY <1>4, <2>1, <2>3 DEF ConnectLookUp, Goto, ConnectPC, RestartPC, Typed, TypeOK, Bound
      <3> QED
        BY <3>1, <3>2 DEF Typed
    <2> QED
      BY <2>2, <2>3
  <1>5. CASE ConnectAdd(t)
    <2>1. target[t] \in Nodes /\ AddNode(t)
      BY <1>5 DEF ConnectAdd, Typed, Bound
    <2>2. /\ registry' \in [Nodes -> Objs \cup {NoObj}]
          /\ session' \in [Nodes -> [Objs -> Session]]
          /\ policy' \in [Nodes -> PolicyOf]
          /\ obj' \in [Threads -> Objs \cup {NoObj}]
          /\ \A u \in Threads : u # t => obj'[u] = obj[u]
          /\ obj'[t] \in Objs
      BY <2>1, AddNodeTyped
    <2>3. pc' = [pc EXCEPT ![t] = "c_connecting"] /\ UNCHANGED <<target, seen, check>>
      BY <1>5 DEF ConnectAdd, Goto
    <2>4. TypeOK'
      BY <1>5, <2>2, <2>3 DEF ConnectAdd, PC, ConnectPC, Typed, TypeOK, dbVars, nodeVars
    <2>5. Bound'
      BY <2>1, <2>2, <2>3 DEF Typed, TypeOK, Bound
    <2> QED
      BY <2>4, <2>5 DEF Typed
  <1>6. CASE RestartLookUp(t)
    <2>1. target[t] \in Nodes
      BY <1>6 DEF RestartLookUp, Typed, Bound
    <2>2. /\ registry' \in [Nodes -> Objs \cup {NoObj}]
          /\ session' \in [Nodes -> [Objs -> Session]]
          /\ policy' \in [Nodes -> PolicyOf]
          /\ obj' \in [Threads -> Objs \cup {NoObj}]
          /\ \A u \in Threads : u # t => obj'[u] = obj[u]
          /\ obj'[t] \in Objs
      <3>1. CASE registry[target[t]] # NoObj
        BY <1>6, <2>1, <3>1 DEF RestartLookUp, Typed, TypeOK, panelVars
      <3>2. CASE registry[target[t]] = NoObj
        BY <1>6, <2>1, <3>2, AddNodeTyped DEF RestartLookUp
      <3> QED
        BY <3>1, <3>2
    <2>3. pc' = [pc EXCEPT ![t] = "r_ping"] /\ UNCHANGED <<target, seen, check>>
      BY <1>6 DEF RestartLookUp, Goto
    <2>4. TypeOK'
      BY <1>6, <2>2, <2>3 DEF RestartLookUp, PC, Typed, TypeOK, dbVars, flagVars, nodeVars
    <2>5. Bound'
      BY <2>1, <2>2, <2>3 DEF Typed, TypeOK, Bound
    <2> QED
      BY <2>4, <2>5 DEF Typed
  <1>7. CASE RestartPing(t)
    <2>1. target[t] \in Nodes /\ obj[t] \in Objs /\ pc[t] = "r_ping"
      BY <1>7 DEF RestartPing, Typed, Bound
    <2>2. CASE Connected(target[t], obj[t])
      <3>1. TypeOK'
        BY <1>7, <2>1, <2>2
           DEF RestartPing, Goto, PC, RestartPC, Typed, TypeOK, dbVars, panelVars, nodeVars
      <3>2. Bound'
        BY <1>7, <2>1, <2>2 DEF RestartPing, Goto, ConnectPC, RestartPC, Typed, TypeOK, Bound
      <3> QED
        BY <3>1, <3>2 DEF Typed
    <2>3. CASE ~Connected(target[t], obj[t])
      <3>1. TypeOK'
        BY <1>7, <2>3 DEF RestartPing, Goto, PC, Typed, TypeOK, dbVars, panelVars, nodeVars
      <3>2. Bound'
        BY <1>7, <2>1, <2>3 DEF RestartPing, Goto, ConnectPC, RestartPC, Typed, TypeOK, Bound
      <3> QED
        BY <3>1, <3>2 DEF Typed
    <2> QED
      BY <2>2, <2>3
  <1>8. CASE StartCore(t)
    <2>1. target[t] \in Nodes /\ obj[t] \in Objs
      BY <1>8 DEF StartCore, ConnectPC, RestartPC, Typed, Bound
    <2>2. session' \in [Nodes -> [Objs -> Session]]
      <3>1. session[target[t]] \in [Objs -> Session]
        BY <2>1 DEF Typed, TypeOK
      <3>2. AfterConnect(target[t], obj[t]) \subseteq [Objs -> Session]
        BY <2>1, SessionValues
      <3> QED
        BY <1>8, <2>1, <3>1, <3>2 DEF StartCore, Typed, TypeOK
    <2>3. running' \in [Nodes -> BOOLEAN]
      BY <1>8 DEF StartCore, Typed, TypeOK
    <2>4. \E l \in {"c_version", "c_failure", "r_success", "r_failure"} : Goto(t, l)
      BY <1>8 DEF StartCore
    <2>5. TypeOK'
      BY <1>8, <2>2, <2>3, <2>4
         DEF StartCore, Goto, PC, ConnectPC, RestartPC, Typed, TypeOK, dbVars, flagVars
    <2>6. Bound'
      BY <1>8, <2>1, <2>4 DEF StartCore, Goto, ConnectPC, RestartPC, Typed, TypeOK, Bound
    <2> QED
      BY <2>5, <2>6 DEF Typed
  <1>9. CASE GetVersion(t)
    <2>1. /\ target[t] \in Nodes /\ obj[t] \in Objs
          /\ \E l \in {"c_connected", "c_failure"} : Goto(t, l)
      BY <1>9 DEF GetVersion, ConnectPC, RestartPC, Typed, Bound
    <2>2. UNCHANGED panelVars
      BY <1>9 DEF GetVersion
    <2>3. TypeOK'
      BY <1>9, <2>1, <2>2
         DEF GetVersion, Goto, PC, ConnectPC, RestartPC, Typed, TypeOK,
             dbVars, flagVars, nodeVars, panelVars
    <2>4. Bound'
      BY <1>9, <2>1 DEF GetVersion, Goto, ConnectPC, RestartPC, Typed, TypeOK, Bound
    <2> QED
      BY <2>3, <2>4 DEF Typed
  <1>10. CASE Succeed(t)
    <2>1. /\ target[t] \in Nodes /\ obj[t] \in Objs
          /\ \E l \in {"c_done", "r_done"} : Goto(t, l)
      BY <1>10 DEF Succeed, ConnectPC, RestartPC, Typed, Bound
    <2>2. policy' \in [Nodes -> PolicyOf]
      BY <1>10, <2>1, PolicyValues DEF Succeed, Typed, TypeOK
    <2>3. TypeOK'
      BY <1>10, <2>1, <2>2
         DEF Succeed, Goto, PC, ConnectPC, RestartPC, Typed, TypeOK,
             dbVars, flagVars, nodeVars
    <2>4. Bound'
      BY <1>10, <2>1 DEF Succeed, Goto, ConnectPC, RestartPC, Typed, TypeOK, Bound
    <2> QED
      BY <2>3, <2>4 DEF Typed
  <1>11. CASE Fail(t)
    <2>1. /\ target[t] \in Nodes /\ obj[t] \in Objs
          /\ \E l \in {"c_error", "r_error"} : Goto(t, l)
      BY <1>11 DEF Fail, ConnectPC, RestartPC, Typed, Bound
    <2>2. policy' \in [Nodes -> PolicyOf]
      BY <1>11, <2>1, PolicyValues DEF Fail, Typed, TypeOK
    <2>3. TypeOK'
      BY <1>11, <2>1, <2>2
         DEF Fail, Goto, PC, ConnectPC, RestartPC, Typed, TypeOK,
             dbVars, flagVars, nodeVars
    <2>4. Bound'
      BY <1>11, <2>1 DEF Fail, Goto, ConnectPC, RestartPC, Typed, TypeOK, Bound
    <2> QED
      BY <2>3, <2>4 DEF Typed
  <1>12. CASE DropSession(t)
    <2>1. /\ target[t] \in Nodes /\ obj[t] \in Objs
          /\ \E l \in {"r_done"} : Goto(t, l)
      BY <1>12 DEF DropSession, ConnectPC, RestartPC, Typed, Bound
    <2>2. session' \in [Nodes -> [Objs -> Session]]
      BY <1>12, <2>1, SessionValues DEF DropSession, Typed, TypeOK
    <2>3. TypeOK'
      BY <1>12, <2>1, <2>2
         DEF DropSession, Goto, PC, ConnectPC, RestartPC, Typed, TypeOK,
             dbVars, flagVars, nodeVars
    <2>4. Bound'
      BY <1>12, <2>1 DEF DropSession, Goto, ConnectPC, RestartPC, Typed, TypeOK, Bound
    <2> QED
      BY <2>3, <2>4 DEF Typed
  <1>13. CASE ClearFlag(t)
    <2>1. TypeOK'
      BY <1>13
         DEF ClearFlag, Finish, PC, Typed, TypeOK, dbVars, panelVars, flagVars, nodeVars
    <2>2. Bound'
      BY <1>13 DEF ClearFlag, Finish, ConnectPC, RestartPC, Typed, TypeOK, Bound
    <2> QED
      BY <2>1, <2>2 DEF Typed
  <1> QED
    BY <1>1, <1>2, <1>3, <1>4, <1>5, <1>6, <1>7, <1>8, <1>9, <1>10, <1>11, <1>12, <1>13 DEF ThreadStep

\* The part of Typed that is about the threads: starting a thread keeps it.
ThreadsTyped ==
    /\ pc \in [Threads -> PC]
    /\ target \in [Threads -> Nodes \cup {NoNode}]
    /\ obj \in [Threads -> Objs \cup {NoObj}]
    /\ seen \in [Threads -> Status \cup {Unread}]
    /\ \A t \in Threads :
          /\ pc[t] = "idle" => target[t] = NoNode
          /\ pc[t] # "idle" => target[t] \in Nodes
          /\ pc[t] \in ConnectPC \cup RestartPC \cup {"r_ping"} => obj[t] \in Objs

LEMMA LaunchTyped ==
    ASSUME Typed, NEW n \in Nodes, NEW label \in {"c_guard", "r_guard"},
           \E t \in Threads : Launch(t, n, label)
    PROVE  ThreadsTyped'
  BY DEF Launch, PC, ConnectPC, RestartPC, Typed, TypeOK, Bound, ThreadsTyped

LEMMA ThreadsStay ==
    ASSUME Typed, UNCHANGED threadVars
    PROVE  ThreadsTyped'
  BY DEF Typed, TypeOK, Bound, ThreadsTyped, threadVars

CheckValues ==
    [pc : {"idle", "next", "probe", "recheck"}, todo : SUBSET (Nodes \X Objs),
     node : Nodes \cup {NoNode}, obj : Objs \cup {NoObj}, lag : 0..MaxLag]

LEMMA CheckStepTyped ==
    ASSUME Typed, CheckStep
    PROVE  Typed'
  <1>0. check \in CheckValues /\ CheckIdle \in CheckValues
    BY LifecycleAssumption DEF Typed, TypeOK, CheckValues, CheckIdle
  <1> USE LifecycleAssumption
  <1>1. CASE CheckBegin
    <2>1. {<<n, registry[n]>> : n \in {m \in Nodes : registry[m] # NoObj}} \in SUBSET (Nodes \X Objs)
      BY DEF Typed, TypeOK
    <2>2. check' \in CheckValues /\ check'.pc = "next"
      BY <1>0, <1>1, <2>1 DEF CheckBegin, CheckIdle, CheckValues
    <2> QED
      BY <1>1, <2>2
         DEF CheckBegin, CheckValues, Typed, TypeOK, Bound,
             dbVars, panelVars, flagVars, threadVars, nodeVars
  <1>2. CASE CheckEnd
    BY <1>2
       DEF CheckEnd, CheckIdle, Typed, TypeOK, Bound,
           dbVars, panelVars, flagVars, threadVars, nodeVars
  <1>3. CASE CheckProbe
    <2>1. check.node \in Nodes /\ check.obj \in Objs
      BY <1>3 DEF CheckProbe, Typed, Bound
    <2>2. check' \in {CheckIdle, [check EXCEPT !.pc = "recheck"]}
      BY <1>3 DEF CheckProbe
    <2>3. ThreadsTyped'
      BY <1>3, <2>1, LaunchTyped, ThreadsStay DEF CheckProbe
    <2>4. check' \in CheckValues
      BY <1>0, <2>2 DEF CheckValues
    <2>5. TypeOK'
      BY <1>3, <2>4, <2>3
         DEF CheckProbe, CheckValues, Typed, TypeOK, ThreadsTyped,
             dbVars, panelVars, flagVars, nodeVars
    <2>6. Bound'
      <3>1. check'.pc \in {"probe", "recheck"} => check'.node \in Nodes /\ check'.obj \in Objs
        BY <1>0, <2>1, <2>2 DEF CheckIdle, CheckValues
      <3> QED
        BY <2>3, <3>1 DEF Bound, ThreadsTyped
    <2> QED
      BY <2>5, <2>6 DEF Typed
  <1>4. CASE CheckRecheck
    <2>1. check.node \in Nodes
      BY <1>4 DEF CheckRecheck, Typed, Bound
    <2>2. ThreadsTyped'
      BY <1>4, <2>1, LaunchTyped, ThreadsStay DEF CheckRecheck
    <2>3. check' = [check EXCEPT !.pc = "next", !.node = NoNode, !.obj = NoObj]
      BY <1>4 DEF CheckRecheck
    <2>4. TypeOK'
      BY <1>4, <2>2, <2>3
         DEF CheckRecheck, Typed, TypeOK, ThreadsTyped, dbVars, panelVars, flagVars, nodeVars
    <2>5. Bound'
      BY <2>2, <2>3 DEF Typed, TypeOK, Bound, ThreadsTyped
    <2> QED
      BY <2>4, <2>5 DEF Typed
  <1>5. ASSUME NEW n \in Nodes, NEW o \in Objs, CheckGate(n, o) PROVE Typed'
    BY <1>5
       DEF CheckGate, Typed, TypeOK, Bound,
           dbVars, panelVars, flagVars, threadVars, nodeVars
  <1> QED
    BY <1>1, <1>2, <1>3, <1>4, <1>5 DEF CheckStep

LEMMA RequestTyped ==
    ASSUME Typed, NEW n \in Nodes, Request(n)
    PROVE  Typed'
  <1> USE LifecycleAssumption, PolicyValues
      DEF Tail, Tails, Status, Typed, TypeOK, dbVars, panelVars, flagVars, nodeVars
  <1>1. CASE Add(n)
    BY <1>1 DEF Add, Bound, threadVars
  <1>2. CASE Modify(n)
    BY <1>2 DEF Modify, Bound, threadVars
  <1>3. CASE Disable(n)
    BY <1>3 DEF Disable, Bound, threadVars
  <1>4. CASE Delete(n)
    BY <1>4 DEF Delete, Bound, threadVars
  <1>5. CASE Reconnect(n)
    BY <1>5 DEF Reconnect, Bound, threadVars
  <1>6. CASE RestartConnected(n)
    <2>1. ThreadsTyped'
      BY <1>6, LaunchTyped DEF RestartConnected
    <2>2. policy' \in [Nodes -> PolicyOf]
      BY <1>6 DEF RestartConnected
    <2> QED
      BY <1>6, <2>1, <2>2 DEF RestartConnected, Bound, ThreadsTyped
  <1> QED
    BY <1>1, <1>2, <1>3, <1>4, <1>5, <1>6 DEF Request

LEMMA FinishRequestTyped ==
    ASSUME Typed, NEW n \in Nodes, FinishRequest(n)
    PROVE  Typed'
  <1>1. /\ UNCHANGED <<dbVars, flagVars, nodeVars, check>>
        /\ pending' \subseteq pending \cup {Tail(n, "connect")}
    BY DEF FinishRequest, Tail
  <1>2. ThreadsTyped'
    BY LaunchTyped, ThreadsStay DEF FinishRequest
  <1>3. /\ registry' \in [Nodes -> Objs \cup {NoObj}]
        /\ session' \in [Nodes -> [Objs -> Session]]
        /\ policy' \in [Nodes -> PolicyOf]
    <2>1. RemoveNode(n, TRUE) \/ UNCHANGED panelVars
      BY DEF FinishRequest
    <2> QED
      BY <2>1, RemoveNodeTyped DEF Typed, TypeOK, panelVars
  <1>4. pending' \subseteq [node : Nodes, what : Tails]
    BY <1>1 DEF Tail, Tails, Typed, TypeOK
  <1> QED
    BY <1>1, <1>2, <1>3, <1>4 DEF Typed, TypeOK, Bound, ThreadsTyped, dbVars, flagVars, nodeVars

LEMMA EnvironmentTyped ==
    ASSUME Typed, Elapse \/ PanelRestart \/ \E n \in Nodes : Fault(n)
    PROVE  Typed'
  <1> USE LifecycleAssumption, PolicyValues
  <1>1. CASE Elapse
    <2>1. policy' \in [Nodes -> PolicyOf]
      BY <1>1 DEF Elapse, Typed, TypeOK
    <2>2. check' = check \/ (check.lag < MaxLag /\ check' = [check EXCEPT !.lag = @ + 1])
      BY <1>1 DEF Elapse
    <2>3. check' \in CheckValues
      <3>1. check \in CheckValues
        BY DEF CheckValues, Typed, TypeOK
      <3>2. CASE check.lag < MaxLag /\ check' = [check EXCEPT !.lag = @ + 1]
        <4>1. check.lag + 1 \in 0..MaxLag
          BY <3>1, <3>2 DEF CheckValues
        <4> QED
          BY <3>1, <3>2, <4>1 DEF CheckValues
      <3> QED
        BY <2>2, <3>1, <3>2
    <2>4. TypeOK'
      BY <1>1, <2>1, <2>3 DEF CheckValues, Elapse, Typed, TypeOK, dbVars, flagVars, threadVars, nodeVars
    <2>5. Bound'
      BY <1>1, <2>2 DEF Elapse, Typed, TypeOK, Bound, threadVars
    <2> QED
      BY <2>4, <2>5 DEF Typed
  <1>2. CASE PanelRestart
    <2>1. TypeOK'
      BY <1>2
         DEF PanelRestart, PanelStart, NoSessions, CheckIdle, Tail, Tails, PC, Session, Status,
             Enabled, Typed, TypeOK, nodeVars
    <2>2. Bound'
      BY <1>2 DEF PanelRestart, PanelStart, CheckIdle, Bound, ConnectPC, RestartPC
    <2> QED
      BY <2>1, <2>2 DEF Typed
  <1>3. ASSUME NEW n \in Nodes, LinkChange(n) PROVE Typed'
    BY <1>3 DEF LinkChange, Typed, TypeOK, Bound, dbVars, panelVars, flagVars, threadVars
  <1>4. ASSUME NEW n \in Nodes, CoreCrash(n) PROVE Typed'
    BY <1>4 DEF CoreCrash, Typed, TypeOK, Bound, dbVars, panelVars, flagVars, threadVars
  <1>5. ASSUME NEW n \in Nodes, Reboot(n) PROVE Typed'
    <2>1. session' \in [Nodes -> [Objs -> Session]]
      BY <1>5 DEF Reboot, Session, Typed, TypeOK
    <2> QED
      BY <1>5, <2>1 DEF Reboot, Typed, TypeOK, Bound, dbVars, flagVars, threadVars
  <1> QED
    BY <1>1, <1>2, <1>3, <1>4, <1>5 DEF Fault

LEMMA TypedInductive == Typed /\ [Next]_vars => Typed'
  <1>1. ASSUME Typed, UNCHANGED vars PROVE Typed'
    BY <1>1 DEF vars, Typed, TypeOK, Bound, dbVars, panelVars, flagVars, threadVars, nodeVars
  <1> QED
    BY <1>1, ThreadStepTyped, CheckStepTyped, RequestTyped, FinishRequestTyped, EnvironmentTyped
       DEF Next

LEMMA TypedInitially == Init => Typed
  BY LifecycleAssumption, PolicyValues
     DEF Init, NoSessions, CheckIdle, PC, Session, Link, Status, Unread,
         ConnectPC, RestartPC, Typed, TypeOK, Bound

\* Every variable keeps its type, with any number of nodes and threads, whatever
\* is requested and whatever fails.
THEOREM LifecycleTyping == Spec => []TypeOK
  <1>1. Typed => TypeOK
    BY DEF Typed
  <1> QED
    BY <1>1, TypedInitially, TypedInductive, PTL DEF Spec

------------------------------------------------------------------------------
\* A step that touches no flag and ends no attempt keeps every flag held.
LEMMA AttemptsStay ==
    ASSUME FlagsAreHeld, UNCHANGED flagVars,
           \A u \in Threads :
               /\ pc[u] \in ConnectPC => pc'[u] \in ConnectPC /\ target'[u] = target[u]
               /\ pc[u] \in RestartPC => pc'[u] \in RestartPC /\ target'[u] = target[u]
    PROVE  FlagsAreHeld'
  BY DEF FlagsAreHeld, Connects, Restarts, flagVars

\* A started thread was idle, so no attempt is lost.
LEMMA LaunchKeepsFlags ==
    ASSUME Typed, FlagsAreHeld, UNCHANGED flagVars, NEW n, NEW label,
           (\E t \in Threads : Launch(t, n, label)) \/ UNCHANGED threadVars
    PROVE  FlagsAreHeld'
  <1>1. CASE UNCHANGED threadVars
    BY <1>1, AttemptsStay DEF threadVars
  <1>2. ASSUME NEW t \in Threads, Launch(t, n, label) PROVE FlagsAreHeld'
    <2>1. pc[t] \notin ConnectPC \cup RestartPC
      BY <1>2 DEF Launch, ConnectPC, RestartPC
    <2>2. \A u \in Threads \ {t} : pc'[u] = pc[u] /\ target'[u] = target[u]
      BY <1>2 DEF Launch, Typed, TypeOK
    <2> QED
      BY <2>1, <2>2, AttemptsStay
  <1> QED
    BY <1>1, <1>2

LEMMA ThreadStepKeepsFlags ==
    ASSUME Typed, FlagsAreHeld, NEW t \in Threads, ThreadStep(t)
    PROVE  FlagsAreHeld'
  <1> DEFINE n == target[t]
             Moves(L, M) == /\ pc[t] \in L
                            /\ \E m \in M : Goto(t, m)
                            /\ UNCHANGED target
  <1>1. ASSUME UNCHANGED flagVars,
               \/ Moves(ConnectPC, ConnectPC) \/ Moves(RestartPC, RestartPC)
               \/ Moves({"c_guard", "c_node", "r_guard", "r_node"}, PC)
        PROVE  FlagsAreHeld'
    BY <1>1, AttemptsStay DEF Goto, ConnectPC, RestartPC, Typed, TypeOK
  <1>2. CASE ReadStatus(t)
    <2>1. CASE Goto(t, AfterWrite[pc[t]])
      <3>1. Moves(ConnectPC, ConnectPC) \/ Moves(RestartPC, RestartPC)
        BY <1>2, <2>1 DEF ReadStatus, Written, AfterWrite, ConnectPC, RestartPC
      <3> QED
        BY <1>1, <1>2, <3>1 DEF ReadStatus, flagVars
    <2>2. CASE UNCHANGED pc
      BY <1>2, <2>2, AttemptsStay DEF ReadStatus, flagVars
    <2> QED
      BY <1>2, <2>1, <2>2 DEF ReadStatus
  <1>3. CASE WriteStatus(t)
    <2>1. Moves(ConnectPC, ConnectPC) \/ Moves(RestartPC, RestartPC)
      BY <1>3 DEF WriteStatus, Written, AfterWrite, ConnectPC, RestartPC
    <2> QED
      BY <1>1, <1>3, <2>1 DEF WriteStatus, flagVars
  <1>4. CASE Enter(t)
    <2>1. pc[t] \notin ConnectPC \cup RestartPC
      BY <1>4 DEF Enter, ConnectPC, RestartPC
    <2>2. \A u \in Threads \ {t} : pc'[u] = pc[u] /\ target'[u] = target[u]
      BY <1>4 DEF Enter, Finish, Goto, Typed, TypeOK
    <2> QED
      BY <1>4, <2>1, <2>2, AttemptsStay DEF Enter, flagVars
  <1>5. CASE ConnectLookUp(t) \/ ConnectAdd(t)
    <2>1. n \in Nodes /\ pc[t] \notin ConnectPC \cup RestartPC /\ UNCHANGED <<target, restarting>>
      BY <1>5 DEF ConnectLookUp, ConnectAdd, ConnectPC, RestartPC, Typed, Bound
    <2>2. \A u \in Threads \ {t} : pc'[u] = pc[u]
      BY <1>5 DEF ConnectLookUp, ConnectAdd, Goto, Typed, TypeOK
    <2>3. CASE UNCHANGED connecting
      BY <2>1, <2>2, <2>3, AttemptsStay DEF flagVars
    <2>4. CASE connecting' = [connecting EXCEPT ![n] = TRUE] /\ Goto(t, "c_connecting")
      <3>1. t \in Connects(n)'
        BY <2>1, <2>4 DEF Goto, Connects, ConnectPC, Typed, TypeOK
      <3>2. \A m \in Nodes \ {n} : connecting'[m] = connecting[m]
        BY <2>4 DEF Typed, TypeOK
      <3>3. \A m \in Nodes : Connects(m) \subseteq Connects(m)' /\ Restarts(m) \subseteq Restarts(m)'
        BY <2>1, <2>2 DEF Connects, Restarts
      <3> QED
        BY <2>1, <3>1, <3>2, <3>3 DEF FlagsAreHeld
    <2> QED
      BY <1>5, <2>3, <2>4 DEF ConnectLookUp, ConnectAdd
  <1>6. CASE RestartLookUp(t)
    <2>1. Moves({"c_guard", "c_node", "r_guard", "r_node"}, PC)
      BY <1>6 DEF RestartLookUp, PC
    <2> QED
      BY <1>1, <1>6, <2>1 DEF RestartLookUp, flagVars
  <1>7. CASE RestartPing(t)
    <2>1. n \in Nodes /\ pc[t] \notin ConnectPC \cup RestartPC /\ UNCHANGED <<target, connecting>>
      BY <1>7 DEF RestartPing, ConnectPC, RestartPC, Typed, Bound
    <2>2. \A u \in Threads \ {t} : pc'[u] = pc[u]
      BY <1>7 DEF RestartPing, Goto, Typed, TypeOK
    <2>3. CASE UNCHANGED restarting
      BY <2>1, <2>2, <2>3, AttemptsStay DEF flagVars
    <2>4. CASE restarting' = [restarting EXCEPT ![n] = TRUE] /\ Goto(t, "r_restart")
      <3>1. t \in Restarts(n)'
        BY <2>1, <2>4 DEF Goto, Restarts, RestartPC, Typed, TypeOK
      <3>2. \A m \in Nodes \ {n} : restarting'[m] = restarting[m]
        BY <2>4 DEF Typed, TypeOK
      <3>3. \A m \in Nodes : Connects(m) \subseteq Connects(m)' /\ Restarts(m) \subseteq Restarts(m)'
        BY <2>1, <2>2 DEF Connects, Restarts
      <3> QED
        BY <2>1, <3>1, <3>2, <3>3 DEF FlagsAreHeld
    <2> QED
      BY <1>7, <2>3, <2>4 DEF RestartPing
  <1>8. CASE StartCore(t)
    <2>1. Moves(ConnectPC, ConnectPC) \/ Moves(RestartPC, RestartPC)
      BY <1>8 DEF StartCore, ConnectPC, RestartPC
    <2> QED
      BY <1>1, <1>8, <2>1 DEF StartCore, flagVars
  <1>9. CASE GetVersion(t)
    <2>1. Moves(ConnectPC, ConnectPC)
      BY <1>9 DEF GetVersion, ConnectPC
    <2> QED
      BY <1>1, <1>9, <2>1 DEF GetVersion, flagVars
  <1>10. CASE Succeed(t) \/ Fail(t) \/ DropSession(t)
    <2>1. Moves(ConnectPC, ConnectPC) \/ Moves(RestartPC, RestartPC)
      BY <1>10 DEF Succeed, Fail, DropSession, ConnectPC, RestartPC
    <2> QED
      BY <1>1, <1>10, <2>1 DEF Succeed, Fail, DropSession, flagVars
  <1>11. CASE ClearFlag(t)
    <2>1. /\ n \in Nodes
          /\ \A u \in Threads \ {t} : pc'[u] = pc[u] /\ target'[u] = target[u]
      BY <1>11 DEF ClearFlag, Finish, Typed, TypeOK, Bound
    <2>2. CASE pc[t] = "c_done"
      <3>1. ~connecting'[n] /\ UNCHANGED restarting
        BY <1>11, <2>1, <2>2 DEF ClearFlag, Typed, TypeOK
      <3>2. \A m \in Nodes \ {n} : connecting'[m] = connecting[m] /\ Connects(m) \subseteq Connects(m)'
        BY <1>11, <2>1, <2>2 DEF ClearFlag, Connects, Typed, TypeOK
      <3>3. \A m \in Nodes : Restarts(m) \subseteq Restarts(m)'
        BY <2>1, <2>2 DEF Restarts, RestartPC
      <3> QED
        BY <3>1, <3>2, <3>3 DEF FlagsAreHeld
    <2>3. CASE pc[t] = "r_done"
      <3>1. ~restarting'[n] /\ UNCHANGED connecting
        BY <1>11, <2>1, <2>3 DEF ClearFlag, Typed, TypeOK
      <3>2. \A m \in Nodes \ {n} : restarting'[m] = restarting[m] /\ Restarts(m) \subseteq Restarts(m)'
        BY <1>11, <2>1, <2>3 DEF ClearFlag, Restarts, Typed, TypeOK
      <3>3. \A m \in Nodes : Connects(m) \subseteq Connects(m)'
        BY <2>1, <2>3 DEF Connects, ConnectPC
      <3> QED
        BY <3>1, <3>2, <3>3 DEF FlagsAreHeld
    <2> QED
      BY <1>11, <2>2, <2>3 DEF ClearFlag
  <1> QED
    BY <1>2, <1>3, <1>4, <1>5, <1>6, <1>7, <1>8, <1>9, <1>10, <1>11 DEF ThreadStep

\* A set flag always has an attempt behind it that will delete it: a node is
\* never locked out of reconnection by an attempt that is over.
THEOREM LifecycleFlagsHeld == Spec => []FlagsAreHeld
  <1>1. Init => FlagsAreHeld
    BY DEF Init, FlagsAreHeld
  <1>2. Typed /\ FlagsAreHeld /\ [Next]_vars => FlagsAreHeld'
    <2> SUFFICES ASSUME Typed, FlagsAreHeld, [Next]_vars PROVE FlagsAreHeld'
      OBVIOUS
    <2>1. CASE UNCHANGED vars
      BY <2>1, AttemptsStay DEF vars, threadVars, flagVars
    <2>2. ASSUME NEW t \in Threads, ThreadStep(t) PROVE FlagsAreHeld'
      BY <2>2, ThreadStepKeepsFlags
    <2>3. CASE CheckStep
      BY <2>3, LaunchKeepsFlags
         DEF CheckStep, CheckBegin, CheckEnd, CheckGate, CheckProbe, CheckRecheck
    <2>4. ASSUME NEW n \in Nodes, Request(n) PROVE FlagsAreHeld'
      BY <2>4, LaunchKeepsFlags
         DEF Request, Add, Modify, Disable, Delete, Reconnect, RestartConnected
    <2>5. ASSUME NEW n \in Nodes, FinishRequest(n) PROVE FlagsAreHeld'
      BY <2>5, LaunchKeepsFlags DEF FinishRequest
    <2>6. ASSUME NEW n \in Nodes, Fault(n) PROVE FlagsAreHeld'
      BY <2>6, LaunchKeepsFlags DEF Fault, LinkChange, CoreCrash, Reboot
    <2>7. CASE Elapse
      BY <2>7, LaunchKeepsFlags DEF Elapse
    <2>8. CASE PanelRestart
      BY <2>8 DEF PanelRestart, PanelStart, FlagsAreHeld
    <2> QED
      BY <2>1, <2>2, <2>3, <2>4, <2>5, <2>6, <2>7, <2>8 DEF Next
  <1> QED
    BY <1>1, <1>2, TypedInitially, TypedInductive, PTL DEF Spec

------------------------------------------------------------------------------
(***************************************************************************)
(* The registry is not emptied by any request but modify, disable and      *)
(* delete: without them a node that is enabled and not registered is one   *)
(* that somebody is about to register.                                     *)
(***************************************************************************)
Registering == {"c_guard", "c_node", "c_add", "r_guard", "r_node"}

Awaited(n) ==
    \/ Tail(n, "connect") \in pending
    \/ \E t \in Threads : target[t] = n /\ pc[t] \in Registering

\* Nobody has a reason to unregister a node.
NothingRemoves ==
    /\ \A n \in Nodes : row[n] # "disabled"
    /\ \A p \in pending : p.what = "connect"

\* Past the look-up there is an object, and it stays.
AttemptsRegister ==
    \A t \in Threads :
        pc[t] \in ConnectPC \cup RestartPC \cup {"r_ping"} => registry[target[t]] # NoObj

Watched ==
    /\ NothingRemoves
    /\ AttemptsRegister
    /\ \A n \in Nodes : Enabled(n) => registry[n] # NoObj \/ Awaited(n)

\* An attempt for a node that is not registered finds no flag of another one.
LEMMA GuardIsOpen ==
    ASSUME FlagsAreHeld, Watched, NEW n \in Nodes, registry[n] = NoObj
    PROVE  ~connecting[n] /\ ~restarting[n]
  BY DEF FlagsAreHeld, Watched, AttemptsRegister, Connects, Restarts

\* A step that takes nothing from the registry, from what is left to do, and from the
\* threads that are about to register.
LEMMA WatchedStays ==
    ASSUME Watched, UNCHANGED <<row, registry>>, pending \subseteq pending',
           NothingRemoves',
           \A t \in Threads :
               /\ pc'[t] \in ConnectPC \cup RestartPC \cup {"r_ping"} =>
                      target'[t] = target[t] /\ registry[target[t]] # NoObj
               /\ pc[t] \in Registering =>
                      pc'[t] \in Registering /\ target'[t] = target[t]
    PROVE  Watched'
  <1>1. ASSUME NEW n \in Nodes, Awaited(n) PROVE Awaited(n)'
    BY <1>1 DEF Awaited, Tail
  <1>2. AttemptsRegister'
    BY DEF AttemptsRegister
  <1> QED
    BY <1>1, <1>2 DEF Watched, Enabled

\* A thread that is started registers, or finds its node registered.
LEMMA LaunchKeepsWatched ==
    ASSUME Typed, Watched, NEW t \in Threads, NEW n \in Nodes, NEW label \in Registering,
           Launch(t, n, label), UNCHANGED <<row, registry>>, pending \subseteq pending',
           NothingRemoves'
    PROVE  Watched'
  <1>1. pc[t] = "idle" /\ pc'[t] = label
    BY DEF Launch, Typed, TypeOK
  <1>2. \A u \in Threads \ {t} : pc'[u] = pc[u] /\ target'[u] = target[u]
    BY DEF Launch, Typed, TypeOK
  <1>3. label \notin ConnectPC \cup RestartPC \cup {"r_ping"} /\ "idle" \notin Registering
    BY DEF Registering, ConnectPC, RestartPC
  <1> QED
    BY <1>1, <1>2, <1>3, WatchedStays DEF Watched, AttemptsRegister

LEMMA ThreadStepKeepsWatched ==
    ASSUME Typed, FlagsAreHeld, Watched, NEW t \in Threads, ThreadStep(t)
    PROVE  Watched'
  <1> DEFINE n == target[t]
             Past == ConnectPC \cup RestartPC \cup {"r_ping"}
  <1>1. pc[t] # "idle" /\ n \in Nodes
    <2>1. pc[t] # "idle"
      BY DEF ThreadStep, ReadStatus, WriteStatus, Enter, ConnectLookUp, ConnectAdd,
             RestartLookUp, RestartPing, StartCore, GetVersion, Succeed, Fail, DropSession,
             ClearFlag, Written
    <2> QED
      BY <2>1 DEF Typed, Bound
  <1>2. ASSUME UNCHANGED <<row, registry, pending, target>>,
               \E l \in PC : Goto(t, l) /\ (l \in Past => registry[n] # NoObj)
                             /\ (pc[t] \in Registering => l \in Registering)
        PROVE  Watched'
    <2>1. \A u \in Threads \ {t} : pc'[u] = pc[u]
      BY <1>2 DEF Goto, Typed, TypeOK
    <2>2. NothingRemoves'
      BY <1>2 DEF Watched, NothingRemoves
    <2>3. /\ pc'[t] \in Past => registry[n] # NoObj
          /\ pc[t] \in Registering => pc'[t] \in Registering
      BY <1>2 DEF Goto, Typed, TypeOK
    <2> QED
      BY <1>2, <2>1, <2>2, <2>3, WatchedStays DEF Watched, AttemptsRegister
  <1>3. ASSUME pc[t] \in Past PROVE registry[n] # NoObj
    BY <1>3 DEF Watched, AttemptsRegister
  <1>4. ASSUME AddNode(t), UNCHANGED <<row, pending, target>>, NEW l \in PC, Goto(t, l)
        PROVE  Watched'
    <2>1. registry'[n] # NoObj /\ \A m \in Nodes \ {n} : registry'[m] = registry[m]
      <3>1. NewObj(n) \in Objs
        BY <1>4 DEF AddNode, NewObj
      <3>2. NewObj(n) # NoObj
        BY <3>1 DEF Objs, NoObj
      <3> QED
        BY <1>1, <1>4, <3>2 DEF AddNode, Typed, TypeOK
    <2>2. \A u \in Threads \ {t} : pc'[u] = pc[u]
      BY <1>4 DEF Goto, Typed, TypeOK
    <2>3. NothingRemoves'
      BY <1>4 DEF Watched, NothingRemoves
    <2>4. AttemptsRegister'
      <3> SUFFICES ASSUME NEW u \in Threads, pc'[u] \in Past PROVE registry'[target[u]] # NoObj
        BY <1>4 DEF AttemptsRegister
      <3>1. CASE target[u] = n
        BY <3>1, <2>1
      <3>2. CASE target[u] # n
        <4>1. u # t /\ pc[u] \in Past
          BY <3>2, <2>2
        <4>2. target[u] \in Nodes
          BY <4>1 DEF Typed, Bound, ConnectPC, RestartPC
        <4> QED
          BY <3>2, <4>1, <4>2, <2>1 DEF Watched, AttemptsRegister
      <3> QED
        BY <3>1, <3>2
    <2>5. ASSUME NEW m \in Nodes, Enabled(m)' PROVE registry'[m] # NoObj \/ Awaited(m)'
      <3>1. CASE m = n
        BY <3>1, <2>1
      <3>2. CASE m # n
        <4>1. registry[m] # NoObj \/ Awaited(m)
          BY <2>5, <1>4 DEF Watched, Enabled
        <4>2. Awaited(m) => Awaited(m)'
          BY <3>2, <2>2, <1>4 DEF Awaited, Tail
        <4> QED
          BY <3>2, <2>1, <4>1, <4>2
      <3> QED
        BY <3>1, <3>2
    <2> QED
      BY <2>3, <2>4, <2>5 DEF Watched
  <1> HIDE DEF n, Past
  <1>5. ConnectPC \cup RestartPC \subseteq PC /\ Past \cap Registering = {} /\ Past \subseteq PC
    BY DEF Past, PC, ConnectPC, RestartPC, Registering
  <1>6. CASE ReadStatus(t)
    <2>1. pc[t] \in Past /\ AfterWrite[pc[t]] \in Past
      BY <1>6 DEF ReadStatus, Written, AfterWrite, Past, ConnectPC, RestartPC
    <2>2. row[n] # "disabled"
      BY <1>1 DEF Watched, NothingRemoves
    <2>3. CASE Goto(t, AfterWrite[pc[t]]) /\ UNCHANGED panelVars
      BY <1>2, <1>3, <1>5, <1>6, <2>1, <2>3 DEF ReadStatus, panelVars, dbVars
    <2>4. CASE UNCHANGED <<pc, panelVars>>
      <3>1. NothingRemoves'
        BY <1>6 DEF ReadStatus, Watched, NothingRemoves, dbVars
      <3> QED
        BY <1>6, <2>4, <3>1, WatchedStays
           DEF ReadStatus, panelVars, dbVars, Watched, AttemptsRegister
    <2> QED
      BY <1>6, <2>2, <2>3, <2>4 DEF ReadStatus, n
  <1>7. CASE WriteStatus(t)
    <2>1. pc[t] \in Past /\ AfterWrite[pc[t]] \in Past /\ Written[pc[t]] \notin {"disabled", "absent"}
      BY <1>7 DEF WriteStatus, Written, AfterWrite, Past, ConnectPC, RestartPC
    <2>2. \A m \in Nodes : row'[m] # "disabled" /\ (Enabled(m)' <=> Enabled(m))
      BY <1>7, <2>1 DEF WriteStatus, Watched, NothingRemoves, Enabled, Typed, TypeOK
    <2>3. UNCHANGED <<registry, pending, target>> /\ Goto(t, AfterWrite[pc[t]])
      BY <1>7 DEF WriteStatus, panelVars
    <2>4. /\ \A u \in Threads \ {t} : pc'[u] = pc[u]
          /\ pc'[t] \in Past
      BY <2>1, <2>3 DEF Goto, Typed, TypeOK
    <2>5. AttemptsRegister'
      <3> SUFFICES ASSUME NEW u \in Threads, pc'[u] \in Past PROVE registry[target[u]] # NoObj
        BY <2>3 DEF AttemptsRegister, Past
      <3>1. CASE u = t
        BY <3>1, <2>1, <1>3 DEF n
      <3>2. CASE u # t
        BY <3>2, <2>4 DEF Watched, AttemptsRegister, Past
      <3> QED
        BY <3>1, <3>2
    <2>6. \A m \in Nodes : Awaited(m) => Awaited(m)'
      BY <2>1, <2>3, <2>4, <1>5 DEF Awaited, Tail
    <2> QED
      BY <2>2, <2>3, <2>5, <2>6 DEF Watched, NothingRemoves
  <1>8. CASE Enter(t)
    <2>1. CASE \E l \in {"c_node", "r_node"} : Goto(t, l) /\ UNCHANGED target
      <3>1. {"c_node", "r_node"} \subseteq Registering \cap PC
        BY DEF Registering, PC
      <3> QED
        BY <1>2, <1>5, <1>8, <2>1, <3>1 DEF Enter, dbVars, panelVars
    <2>2. CASE /\ Finish(t)
               /\ connecting[n] \/ restarting[n] \/ row[n] = "absent"
      <3>1. ~Enabled(n) \/ registry[n] # NoObj
        BY <1>1, <2>2, GuardIsOpen DEF Enabled
      <3>2. UNCHANGED <<row, registry, pending>>
        BY <1>8 DEF Enter, dbVars, panelVars
      <3>3. /\ \A u \in Threads \ {t} : pc'[u] = pc[u] /\ target'[u] = target[u]
            /\ pc'[t] \notin Past
        BY <2>2 DEF Finish, Typed, TypeOK, Past, ConnectPC, RestartPC
      <3>4. AttemptsRegister'
        BY <3>2, <3>3 DEF Watched, AttemptsRegister, Past
      <3>5. \A m \in Nodes : m # n => (Awaited(m) => Awaited(m)')
        BY <3>2, <3>3 DEF Awaited, Tail, n
      <3> QED
        BY <3>1, <3>2, <3>4, <3>5 DEF Watched, NothingRemoves, Enabled
    <2> QED
      BY <1>8, <2>1, <2>2 DEF Enter, n
  <1>9. CASE ConnectLookUp(t)
    <2>1. Connected(n, registry[n]) => registry[n] # NoObj
      BY DEF Connected
    <2>2. "c_connecting" \in Past \cap PC /\ "c_add" \in Registering \cap PC
      BY DEF Past, ConnectPC, PC, Registering
    <2>3. CASE ~Connected(n, registry[n])
      BY <1>2, <1>5, <1>9, <2>2, <2>3 DEF ConnectLookUp, dbVars, panelVars, n
    <2>4. CASE Connected(n, registry[n])
      <3>1. /\ UNCHANGED <<row, registry, pending, target>>
            /\ Goto(t, "c_connecting")
        BY <1>9, <2>4 DEF ConnectLookUp, dbVars, panelVars, n
      <3>2. NothingRemoves'
        BY <3>1 DEF Watched, NothingRemoves
      <3>3. AttemptsRegister'
        BY <3>1, <2>1, <2>4 DEF Watched, AttemptsRegister, Goto, Typed, TypeOK, n
      <3>4. \A m \in Nodes : m # n => (Awaited(m) => Awaited(m)')
        BY <3>1 DEF Awaited, Tail, Goto, Typed, TypeOK, n
      <3> QED
        BY <3>1, <3>2, <3>3, <3>4, <2>1, <2>4 DEF Watched, Enabled
    <2> QED
      BY <2>3, <2>4
  <1>10. CASE ConnectAdd(t)
    <2>1. "c_connecting" \in PC
      BY DEF ConnectPC, PC
    <2> QED
      BY <1>4, <1>10, <2>1 DEF ConnectAdd, dbVars
  <1>11. CASE RestartLookUp(t)
    <2>1. "r_ping" \in PC
      BY DEF PC
    <2>2. CASE AddNode(t)
      BY <1>4, <1>11, <2>1, <2>2 DEF RestartLookUp, dbVars
    <2>3. CASE registry[n] # NoObj /\ UNCHANGED panelVars
      <3>1. UNCHANGED <<row, registry, pending, target>> /\ Goto(t, "r_ping")
        BY <1>11, <2>3 DEF RestartLookUp, dbVars, panelVars
      <3>2. NothingRemoves'
        BY <3>1 DEF Watched, NothingRemoves
      <3>3. AttemptsRegister'
        BY <3>1, <2>3 DEF Watched, AttemptsRegister, Goto, Typed, TypeOK, n
      <3>4. \A m \in Nodes : m # n => (Awaited(m) => Awaited(m)')
        BY <3>1 DEF Awaited, Tail, Goto, Typed, TypeOK, n
      <3> QED
        BY <3>1, <3>2, <3>3, <3>4, <2>3 DEF Watched, Enabled
    <2> QED
      BY <1>11, <2>2, <2>3 DEF RestartLookUp, n
  <1>12. CASE RestartPing(t)
    <2>1. pc[t] \in Past /\ {"r_restart", "c_guard"} \subseteq PC
      BY <1>12 DEF RestartPing, Past, PC, RestartPC
    <2> QED
      BY <1>2, <1>3, <1>5, <1>12, <2>1 DEF RestartPing, dbVars, panelVars
  <1>13. CASE StartCore(t) \/ GetVersion(t) \/ Succeed(t) \/ Fail(t) \/ DropSession(t)
    <2>1. pc[t] \in Past /\ \E l \in Past : Goto(t, l)
      BY <1>13 DEF StartCore, GetVersion, Succeed, Fail, DropSession, Past, ConnectPC, RestartPC
    <2>2. UNCHANGED <<row, registry, pending, target>>
      BY <1>13 DEF StartCore, GetVersion, Succeed, Fail, DropSession, dbVars, panelVars
    <2> QED
      BY <1>2, <1>3, <1>5, <2>1, <2>2
  <1>14. CASE ClearFlag(t)
    <2>1. pc[t] \in Past
      BY <1>14 DEF ClearFlag, Past, ConnectPC, RestartPC
    <2>2. UNCHANGED <<row, registry, pending>> /\ Finish(t)
      BY <1>14 DEF ClearFlag, dbVars, panelVars
    <2>3. /\ \A u \in Threads \ {t} : pc'[u] = pc[u] /\ target'[u] = target[u]
          /\ pc'[t] \notin Past
      BY <2>2 DEF Finish, Typed, TypeOK, Past, ConnectPC, RestartPC
    <2>4. NothingRemoves'
      BY <2>2 DEF Watched, NothingRemoves
    <2>5. AttemptsRegister'
      BY <2>2, <2>3 DEF Watched, AttemptsRegister, Past
    <2>6. \A m \in Nodes : Awaited(m) => Awaited(m)'
      BY <2>1, <2>2, <2>3, <1>5 DEF Awaited, Tail
    <2> QED
      BY <2>2, <2>4, <2>5, <2>6 DEF Watched, Enabled
  <1> QED
    BY <1>6, <1>7, <1>8, <1>9, <1>10, <1>11, <1>12, <1>13, <1>14 DEF ThreadStep

\* With any number of overlapping attempts, whatever fails, and however often the panel
\* dies and start_core connects the nodes again.
LEMMA WatchedHolds ==
    ASSUME Requests \cap {"modify", "disable", "delete"} = {}
    PROVE  Spec => []Watched
  <1>1. Init => Watched
    BY DEF Init, Watched, NothingRemoves, AttemptsRegister, Enabled, ConnectPC, RestartPC
  <1>2. Typed /\ FlagsAreHeld /\ Watched /\ [Next]_vars => Watched'
    <2> SUFFICES ASSUME Typed, FlagsAreHeld, Watched, [Next]_vars PROVE Watched'
      OBVIOUS
    <2>1. ASSUME UNCHANGED <<row, registry, threadVars>>, pending \subseteq pending',
                 NothingRemoves'
          PROVE  Watched'
      BY <2>1, WatchedStays DEF threadVars, Watched, AttemptsRegister
    <2>2. ASSUME UNCHANGED <<row, pending>> PROVE NothingRemoves'
      BY <2>2 DEF Watched, NothingRemoves
    <2>3. CASE UNCHANGED vars
      BY <2>1, <2>2, <2>3 DEF vars, dbVars, panelVars, threadVars
    <2>4. ASSUME NEW t \in Threads, ThreadStep(t) PROVE Watched'
      BY <2>4, ThreadStepKeepsWatched
    <2>5. CASE CheckStep
      <3>1. ASSUME UNCHANGED <<dbVars, panelVars, threadVars, pending>> PROVE Watched'
        BY <2>1, <2>2, <3>1 DEF dbVars, panelVars
      <3>2. ASSUME UNCHANGED <<dbVars, panelVars, pending>>, check.pc \in {"probe", "recheck"},
                   NEW t \in Threads, NEW l \in {"r_guard", "c_guard"}, Launch(t, check.node, l)
            PROVE  Watched'
        BY <2>2, <3>2, LaunchKeepsWatched DEF dbVars, panelVars, Typed, Bound, Registering
      <3>3. CASE CheckBegin \/ CheckEnd \/ \E n \in Nodes, o \in Objs : CheckGate(n, o)
        BY <3>1, <3>3, Zenon DEF CheckBegin, CheckEnd, CheckGate
      <3>4. CASE CheckProbe
        BY <3>1, <3>2, <3>4, Zenon DEF CheckProbe
      <3>5. CASE CheckRecheck
        BY <3>1, <3>2, <3>5, Zenon DEF CheckRecheck
      <3> QED
        BY <2>5, <3>3, <3>4, <3>5 DEF CheckStep
    <2>6. ASSUME NEW n \in Nodes, Request(n) PROVE Watched'
      <3>1. CASE Add(n)
        <4>1. row' = [row EXCEPT ![n] = "connecting"] /\ pending' = pending \cup {Tail(n, "connect")}
              /\ UNCHANGED <<registry, threadVars>>
          BY <3>1 DEF Add, panelVars
        <4>2. NothingRemoves'
          BY <4>1 DEF Watched, NothingRemoves, Tail, Typed, TypeOK
        <4>3. AttemptsRegister'
          BY <4>1 DEF Watched, AttemptsRegister, threadVars
        <4>4. Awaited(n)' /\ \A m \in Nodes : Awaited(m) => Awaited(m)'
          BY <4>1 DEF Awaited, Tail, threadVars
        <4>5. \A m \in Nodes \ {n} : Enabled(m)' => Enabled(m)
          BY <4>1 DEF Enabled, Typed, TypeOK
        <4> QED
          BY <4>1, <4>2, <4>3, <4>4, <4>5 DEF Watched
      <3>2. CASE Reconnect(n)
        <4>1. /\ pending' = pending \cup {Tail(n, "connect")}
              /\ UNCHANGED <<row, registry, threadVars>>
          BY <3>2 DEF Reconnect, dbVars
        <4>2. NothingRemoves'
          BY <4>1 DEF Watched, NothingRemoves, Tail
        <4> QED
          BY <2>1, <4>1, <4>2
      <3>3. CASE RestartConnected(n)
        BY <2>2, <3>3, LaunchKeepsWatched DEF RestartConnected, dbVars, Registering
      <3> QED
        BY <2>6, <3>1, <3>2, <3>3 DEF Request, Modify, Disable, Delete
    <2>7. ASSUME NEW n \in Nodes, FinishRequest(n) PROVE Watched'
      <3>1. /\ \E t \in Threads : Launch(t, n, "c_guard")
            /\ pending' = pending \ {Tail(n, "connect")}
            /\ UNCHANGED <<row, registry>>
        BY <2>7 DEF FinishRequest, Watched, NothingRemoves, Tail, dbVars, panelVars
      <3>2. PICK t \in Threads : Launch(t, n, "c_guard")
        BY <3>1
      <3>3. /\ pc[t] = "idle" /\ pc'[t] = "c_guard" /\ target'[t] = n
            /\ \A u \in Threads \ {t} : pc'[u] = pc[u] /\ target'[u] = target[u]
        BY <3>2 DEF Launch, Typed, TypeOK
      <3>4. NothingRemoves'
        BY <3>1 DEF Watched, NothingRemoves
      <3>5. AttemptsRegister'
        BY <3>1, <3>3 DEF Watched, AttemptsRegister, ConnectPC, RestartPC
      <3>6. Awaited(n)' /\ \A m \in Nodes \ {n} : Awaited(m) => Awaited(m)'
        BY <3>1, <3>3 DEF Awaited, Tail, Registering
      <3> QED
        BY <3>1, <3>4, <3>5, <3>6 DEF Watched, Enabled
    <2>8. ASSUME NEW n \in Nodes, Fault(n) PROVE Watched'
      BY <2>1, <2>2, <2>8 DEF Fault, LinkChange, CoreCrash, Reboot, dbVars, panelVars
    <2>9. CASE Elapse
      BY <2>1, <2>2, <2>9 DEF Elapse, dbVars
    <2>10. CASE PanelRestart
      <3>1. /\ row' = [m \in Nodes |-> IF Enabled(m) THEN "connecting" ELSE row[m]]
            /\ pending' = {Tail(m, "connect") : m \in {k \in Nodes : Enabled(k)}}
            /\ pc' = [t \in Threads |-> "idle"]
        BY <2>10 DEF PanelRestart, PanelStart
      <3>2. /\ \A p \in pending' : \E m \in Nodes : p = Tail(m, "connect")
            /\ \A m \in Nodes : Enabled(m) => Tail(m, "connect") \in pending'
        BY <3>1, Zenon
      <3>3. \A m \in Nodes : row'[m] # "disabled" /\ (Enabled(m)' => Enabled(m))
        BY <3>1 DEF Watched, NothingRemoves, Enabled
      <3>4. NothingRemoves'
        BY <3>2, <3>3 DEF NothingRemoves, Tail
      <3>5. AttemptsRegister'
        BY <3>1 DEF AttemptsRegister, ConnectPC, RestartPC
      <3>6. \A m \in Nodes : Enabled(m)' => Awaited(m)'
        BY <3>2, <3>3 DEF Awaited, Tail
      <3> QED
        BY <3>4, <3>5, <3>6 DEF Watched
    <2> QED
      BY <2>3, <2>4, <2>5, <2>6, <2>7, <2>8, <2>9, <2>10 DEF Next
  <1> QED
    BY <1>1, <1>2, TypedInitially, TypedInductive, LifecycleFlagsHeld, PTL DEF Spec

\* A node that is enabled and that nobody works on is in the registry, where the health
\* check finds it: with any number of overlapping attempts, whatever fails, and
\* however often the panel dies.  Modify, disable and delete are left out, since
\* their removals may come after the attempt that follows them.
THEOREM LifecycleNodeIsWatched ==
    ASSUME Requests \cap {"modify", "disable", "delete"} = {}
    PROVE  Spec => []EnabledNodeIsWatched
  <1>1. Watched => EnabledNodeIsWatched
    BY DEF Watched, Awaited, EnabledNodeIsWatched, Settled, Tails, Registering
  <1> QED
    BY <1>1, WatchedHolds, PTL

------------------------------------------------------------------------------
\* A policy that is not replaced by a fresh one counts no fewer failures.
LEMMA FailuresGrow ==
    ASSUME NEW p \in PolicyOf
    PROVE  Failed(p).failures >= p.failures /\ Aged(p).failures = p.failures
  BY LifecycleAssumption DEF Failed, Aged, Lesser, PolicyOf

\* Retries go through add_node and remove_node and forget no failure; only an attempt
\* that succeeds does.  Requests that reset the policy on purpose, and the death of
\* the process that holds it, are left out.
THEOREM LifecycleOnlySuccessForgets ==
    ASSUME Requests \subseteq {"add", "restart_nodes"}, "panel" \notin Faults
    PROVE  Spec => OnlySuccessForgets
  <1> DEFINE Forgets(n) == policy'[n].failures < policy[n].failures
             Success(n) == \E t \in Threads : target[t] = n /\ pc[t] \in {"c_success", "r_success"}
             Explained == \A n \in Nodes : Forgets(n) => Success(n)
  <1>1. Typed /\ Watched /\ [Next]_vars => [Explained]_vars
    <2> SUFFICES ASSUME Typed, Watched, Next PROVE Explained
      OBVIOUS
    <2>1. \A n \in Nodes : policy[n] \in PolicyOf /\ policy[n].failures \in Nat
      BY LifecycleAssumption DEF Typed, TypeOK, PolicyOf
    <2>2. ASSUME UNCHANGED policy PROVE Explained
      BY <2>1, <2>2
    <2>3. ASSUME NEW t \in Threads, ThreadStep(t) PROVE Explained
      <3>1. CASE Succeed(t)
        BY <2>1, <3>1 DEF Succeed, Typed, TypeOK
      <3>2. CASE Fail(t)
        <4> DEFINE m == target[t]
        <4>1. m \in Nodes
          BY <3>2 DEF Fail, Typed, Bound
        <4>2. policy'[m] = Failed(policy[m]) /\ \A n \in Nodes \ {m} : policy'[n] = policy[n]
          BY <3>2, <4>1 DEF Fail, Typed, TypeOK
        <4>3. ~Forgets(m)
          <5>1. Failed(policy[m]).failures >= policy[m].failures /\ Failed(policy[m]) \in PolicyOf
            BY <2>1, <4>1, FailuresGrow, PolicyValues
          <5>2. Failed(policy[m]).failures \in Nat
            BY <5>1, LifecycleAssumption DEF PolicyOf
          <5> QED
            BY <2>1, <4>1, <4>2, <5>1, <5>2
        <4>4. \A n \in Nodes \ {m} : ~Forgets(n)
          BY <2>1, <4>2
        <4> QED
          BY <4>3, <4>4
      <3>3. CASE ReadStatus(t)
        <4>1. target[t] \in Nodes
          BY <3>3 DEF ReadStatus, Written, Typed, Bound
        <4> QED
          BY <2>2, <3>3, <4>1 DEF ReadStatus, Watched, NothingRemoves, panelVars
      <3>4. CASE \/ WriteStatus(t) \/ Enter(t) \/ ConnectLookUp(t) \/ ConnectAdd(t)
                \/ RestartLookUp(t) \/ RestartPing(t) \/ StartCore(t) \/ GetVersion(t)
                \/ DropSession(t) \/ ClearFlag(t)
        BY <2>2, <3>4
           DEF WriteStatus, Enter, ConnectLookUp, ConnectAdd, RestartLookUp, RestartPing,
               StartCore, GetVersion, DropSession, ClearFlag, AddNode, panelVars
      <3> QED
        BY <2>3, <3>1, <3>2, <3>3, <3>4 DEF ThreadStep
    <2>4. CASE CheckStep
      BY <2>2, <2>4, Zenon
         DEF CheckStep, CheckBegin, CheckEnd, CheckGate, CheckProbe, CheckRecheck, panelVars
    <2>5. ASSUME NEW n \in Nodes, Request(n) PROVE Explained
      BY <2>2, <2>5
         DEF Request, Add, Modify, Disable, Delete, Reconnect, RestartConnected, panelVars
    <2>6. ASSUME NEW n \in Nodes, FinishRequest(n) PROVE Explained
      BY <2>2, <2>6 DEF FinishRequest, Watched, NothingRemoves, Tail, panelVars
    <2>7. ASSUME NEW n \in Nodes, Fault(n) PROVE Explained
      BY <2>2, <2>7 DEF Fault, LinkChange, CoreCrash, Reboot, panelVars
    <2>8. CASE Elapse
      BY <2>1, <2>8, FailuresGrow DEF Elapse
    <2> QED
      BY <2>3, <2>4, <2>5, <2>6, <2>7, <2>8 DEF Next, PanelRestart
  <1>2. Requests \cap {"modify", "disable", "delete"} = {}
    OBVIOUS
  <1>3. Spec => []Watched
    BY <1>2, WatchedHolds
  <1> QED
    BY <1>1, <1>3, TypedInitially, TypedInductive, PTL DEF Spec, OnlySuccessForgets
==============================================================================
