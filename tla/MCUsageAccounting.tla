--------------------------- MODULE MCUsageAccounting ---------------------------
(* A small instance of UsageAccounting for TLC: a node that counts one and a *)
(* half, and two users of one admin.                                         *)
EXTENDS UsageAccounting, TLC

CONSTANTS main, node, a1

HalfUnits == [c \in Cores |-> IF c = node THEN 3 ELSE 2]

OneAdmin == [u \in Users |-> a1]

\* Two resets under way are of one user, and no core is out of reach meanwhile.
ResetsMeet ==
    (\A h \in Handlers : handler[h] # HandlerIdle) =>
        (\A c \in Cores : up[c]) /\ \E u \in Users : \A h \in Handlers : handler[h].user = u

UserSymmetry == Permutations(Users) \cup Permutations(Handlers)
================================================================================
