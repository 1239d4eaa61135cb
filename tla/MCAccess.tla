------------------------------ MODULE MCAccess ------------------------------
(***************************************************************************)
(* One user, a system role and another, and two requests on one instance:  *)
(* a look-up and an update, two updates, a removal and an update meet at   *)
(* every statement.  To the users of an instance whose update evicted too  *)
(* early, or who were moved, the entry is as stale as one of another       *)
(* instance; the proofs are for any number of them.                        *)
(***************************************************************************)
EXTENDS Access, TLC

CONSTANTS u1, r1, r2, a, b, p1, p2, n1

\* An update asks for one permission at least.
MCAsked == (r1 :> {{a}, {b}}) @@ (r2 :> {{a}})

EitherRequest == Permutations(Procs)
=============================================================================
