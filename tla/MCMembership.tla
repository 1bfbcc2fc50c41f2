---------------------------- MODULE MCMembership ----------------------------
(* A founder, a peer that both runs a daemon and joins, another that joins,  *)
(* and two invitations.                                                      *)
EXTENDS Membership, TLC

CONSTANTS r, a, b, r1, a1, a2, b1, n1, n2, t1, t2

MCOwner == (r1 :> r) @@ (a1 :> a) @@ (a2 :> a) @@ (b1 :> b)
\* Nothing tells the tokens apart.
Secrets == Permutations(Tokens)
=============================================================================
