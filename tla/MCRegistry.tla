---------------------------- MODULE MCRegistry -----------------------------
(* A client and a category known by a, another of each not created yet, and   *)
(* two users with a device each, one manager of a warehouse.                  *)
EXTENDS Registry

CONSTANTS c1, c2, u1, u2, g1, g2, a, b, A, B, t1, t2, q1, q2

MCTableOf == [d \in Records |-> IF d \in {c1, c2} THEN "client"
                               ELSE IF d \in {u1, u2} THEN "user" ELSE "category"]

MCRow(deleted) ==
    [d \in Records |-> IF d \in {c1, u1, g1} THEN [state |-> "live", key |-> a]
                      ELSE IF d \in deleted THEN [state |-> "deleted", key |-> a] ELSE NoRow]

MCScenes ==
    {[row |-> MCRow(deleted),
      manager |-> [w \in Warehouses |-> IF w = A THEN u1 ELSE None],
      open |-> {A},
      access |-> {<<u1, A>>},
      device |-> [u \in Accounts |-> IF u = u1 THEN t1 ELSE IF u2 \in deleted THEN t2 ELSE None]]
     : deleted \in {{}, {u2}, {c2}}}
=============================================================================
