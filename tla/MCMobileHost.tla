---------------------------- MODULE MCMobileHost ----------------------------
(* A founder's daemon, a phone with room for two threads, and a poll beside *)
(* the user's start or stop.                                                *)
EXTENDS MobileHost, TLC

CONSTANTS r, phone, r1, h1, h2, n1, t1, q1

MCOwner == (r1 :> r) @@ (h1 :> phone) @@ (h2 :> phone)
=============================================================================
