--------------------------- MODULE MCNodeLifecycle ---------------------------
EXTENDS NodeLifecycle, TLC

ThreadSymmetry == Permutations(Threads)

(***************************************************************************)
(* XRayNode objects have no identity a state could depend on: what matters *)
(* is who refers to the same object and the session that object has.  The  *)
(* view replaces the names by that, and forgets objects nobody refers to.  *)
(***************************************************************************)
References(n) ==
    {<<"registry", registry[n]>> : m \in {k \in {n} : registry[k] # NoObj}}
    \cup {<<"todo", p[2]>> : p \in {q \in check.todo : q[1] = n}}
    \cup {<<"check", check.obj>> : m \in {k \in {n} : check.node = k}}
    \cup {<<t, obj[t]>> : t \in {u \in Threads : target[u] = n /\ obj[u] # NoObj}}

Sharing(n) ==
    {<<p[1][1], p[2][1], session[n][p[1][2]]>> :
        p \in {q \in References(n) \X References(n) : q[1][2] = q[2][2]}}

AnonymousObjects ==
    <<row, [n \in Nodes |-> Sharing(n)], policy, connecting, restarting,
      pc, target, seen, link, running, pending,
      check.pc, check.node, check.lag>>
==============================================================================
