---------------------------- MODULE DurableInbox ----------------------------
(***************************************************************************)
(* What a node's inbox promises, whatever files implement it: an envelope  *)
(* is accepted once, then it is pending, and at most once after that it is *)
(* settled.  It never goes back: a settled envelope is not offered again,  *)
(* and a pending one does not vanish.                                      *)
(***************************************************************************)
CONSTANT Ids            \* envelope identifiers (UUIDs)

VARIABLES pending,      \* accepted and not settled
          settled       \* acknowledged by the reader, or expired

inboxVars == <<pending, settled>>

Init ==
  /\ pending = {}
  /\ settled = {}

\* A new envelope becomes pending.
Accept(id) ==
  /\ id \notin pending \cup settled
  /\ pending' = pending \cup {id}
  /\ UNCHANGED settled

\* Pending envelopes are settled; one listing may settle several expired ones.
Settle(S) ==
  /\ S \subseteq pending
  /\ pending' = pending \ S
  /\ settled' = settled \cup S

Next ==
  \/ \E id \in Ids : Accept(id)
  \/ \E S \in SUBSET Ids : Settle(S)

Spec == Init /\ [][Next]_inboxVars
=============================================================================
