---------------------------- MODULE DelegatedRuns ----------------------------
(***************************************************************************)
(* What delegating a task to another Leader promises its caller, whatever  *)
(* daemons and mailboxes are between: a run takes at most one result out   *)
(* of the inbox, one of its own task; it ends once; and it ends with a     *)
(* result only if it has taken one.                                        *)
(***************************************************************************)
CONSTANTS
  Runs,       \* delegated tasks
  Results,    \* envelopes with results
  own         \* own[r]: those that the peer of r sent in answer to its task

VARIABLES
  outcome,    \* outcome[r]: how the run ended, "none" before that
  pending,    \* results in the inbox
  taken       \* results taken out of it

runsVars == <<outcome, pending, taken>>

Init ==
  /\ outcome = [r \in Runs |-> "none"]
  /\ pending = {} /\ taken = {}

\* A result arrives.
Arrive(x) ==
  /\ x \notin pending \cup taken
  /\ pending' = pending \cup {x}
  /\ UNCHANGED <<outcome, taken>>

\* A run takes a result of its own, its first and only one.
Take(r) ==
  /\ own[r] \cap taken = {}
  /\ \E x \in own[r] \cap pending : pending' = pending \ {x} /\ taken' = taken \cup {x}
  /\ UNCHANGED outcome

\* It ends: with the result it has taken, or without one.
End(r) ==
  /\ outcome[r] = "none"
  /\ \E how \in {"result", "aborted", "timeout", "broken", "rejected"} :
       /\ how = "result" => own[r] \cap taken # {}
       /\ outcome' = [outcome EXCEPT ![r] = how]
  /\ UNCHANGED <<pending, taken>>

Next ==
  \/ \E x \in Results : Arrive(x)
  \/ \E r \in Runs : Take(r) \/ End(r)

Spec == Init /\ [][Next]_runsVars
=============================================================================
