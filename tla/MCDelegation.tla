---------------------------- MODULE MCDelegation ----------------------------
(* Two runs; listings of one, so that a result nobody waits for crowds out   *)
(* another.                                                                  *)
EXTENDS Delegation

CONSTANTS r1, r2

MCSends == Runs \X {"task", "cancel"}
=============================================================================
