--------------------------- MODULE MCLeaderInbox ---------------------------
(* Up to two sessions, two tasks, two cancellations of the first task, two  *)
(* chat prompts for the same slot and a plain message; each configuration   *)
(* picks the sets its question needs.                                       *)
EXTENDS LeaderInbox

CONSTANTS l1, l2, t1, t2, k1, k2, p1, p2, n1, s1

MCTarget == [k \in Cancels |-> t1]
MCSlot == [p \in Prompts |-> s1]
=============================================================================
