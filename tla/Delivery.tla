------------------------------ MODULE Delivery ------------------------------
(***************************************************************************)
(* How a daemon sends envelopes for its callers: the "send" command, the   *)
(* pending envelopes, their 30 s deadline and the answers of the peer      *)
(* (daemon in crates/agent-mesh/src/network.rs), and the control server    *)
(* and client that lead to it (ipc.rs).                                    *)
(*                                                                         *)
(* One task runs the event loop: commands, housekeeping and the swarm's    *)
(* events are handled one at a time.  A fetch runs inside a command: while *)
(* it lasts no other command and no deadline is looked at, and it throws   *)
(* away the answers to envelopes (request_once, discover_with_node).       *)
(***************************************************************************)
EXTENDS Integers

CONSTANTS
  Sends,      \* envelopes to send, each by one call
  MaxFaults   \* bound: fetches, and deaths of the daemon

ASSUME FaultAssumption == MaxFaults \in Nat

VARIABLES
  daemon,     \* "free", "fetching" or "down"
  call,       \* call[c]: how far the call that sends c is
  wire,       \* wire[c]: the request or its answer, on the way
  adrift,     \* requests that failed here and may yet arrive there
  stored,     \* the envelopes that the peers' mailboxes took
  faults

deliveryVars == <<daemon, call, wire, adrift, stored, faults>>

InitDelivery ==
  /\ daemon = "free"
  /\ call = [c \in Sends |-> "unsent"]
  /\ wire = [c \in Sends |-> "none"]
  /\ adrift = {} /\ stored = {} /\ faults = 0

Answers == {"accepted", "failure"}
Answered(c) == call[c] \in {"ok", "failed"}

-----------------------------------------------------------------------------
(* The caller and the command *)

\* A call reaches the daemon's queue, if there is a daemon.
Issued == IF daemon = "down" THEN "failed" ELSE "queued"

\* The loop takes the command: the request goes out and the envelope is pending.
\* A bad parameter, or a peer that is not allowed, fails the call at once.
TakeSend(c) ==
  /\ daemon = "free" /\ call[c] = "queued"
  /\ \/ call' = [call EXCEPT ![c] = "failed"] /\ UNCHANGED wire
     \/ call' = [call EXCEPT ![c] = "pending"] /\ wire' = [wire EXCEPT ![c] = "request"]
  /\ UNCHANGED <<daemon, adrift, stored, faults>>

\* Mutant: whatever is heard of the request acknowledges the envelope.
ReplyAny(answer) == "ok"

\* What the caller is told: success only if the peer has accepted the envelope.
ReplyTo(answer) == IF answer = "accepted" THEN "ok" ELSE "failed"

\* The loop hears of the request; an envelope that is not pending any more is none
\* of its business.
Hear(c) ==
  /\ daemon = "free" /\ wire[c] \in Answers
  /\ wire' = [wire EXCEPT ![c] = "none"]
  /\ call' = IF call[c] = "pending" THEN [call EXCEPT ![c] = ReplyTo(wire[c])] ELSE call
  /\ UNCHANGED <<daemon, adrift, stored, faults>>

\* A fetch in the loop hears of it, and throws it away.
Swallow(c) ==
  /\ daemon = "fetching" /\ wire[c] \in Answers
  /\ wire' = [wire EXCEPT ![c] = "none"]
  /\ UNCHANGED <<daemon, call, adrift, stored, faults>>

\* Mutant: only a request that is still on its way runs out of time.
OverdueOnWire(c) == call[c] = "pending" /\ wire[c] # "none"

Overdue(c) == call[c] = "pending"

\* Housekeeping finds an envelope pending for 30 s.
Expire(c) ==
  /\ daemon = "free" /\ Overdue(c)
  /\ call' = [call EXCEPT ![c] = "failed"]
  /\ UNCHANGED <<daemon, wire, adrift, stored, faults>>

-----------------------------------------------------------------------------
(* The peer and the network *)

\* The peer's daemon takes the envelope or answers with an error: the sender is no
\* member, the envelope is stale or cannot be stored.
PeerAnswers(c) ==
  /\ wire[c] = "request"
  /\ \/ stored' = stored \cup {c} /\ wire' = [wire EXCEPT ![c] = "accepted"]
     \/ wire' = [wire EXCEPT ![c] = "failure"] /\ UNCHANGED stored
  /\ UNCHANGED <<daemon, call, adrift, faults>>

\* The request fails here, after 20 s or with its connection.
RequestFails(c) ==
  /\ wire[c] = "request"
  /\ wire' = [wire EXCEPT ![c] = "failure"]
  /\ adrift' = adrift \cup {c}
  /\ UNCHANGED <<daemon, call, stored, faults>>

\* It arrives all the same, or has arrived and its answer was lost.
ArriveLate(c) ==
  /\ c \in adrift
  /\ adrift' = adrift \ {c}
  /\ stored' = stored \cup {c}
  /\ UNCHANGED <<daemon, call, wire, faults>>

-----------------------------------------------------------------------------
(* The daemon *)

FetchBegins ==
  /\ daemon = "free" /\ faults < MaxFaults
  /\ daemon' = "fetching" /\ faults' = faults + 1
  /\ UNCHANGED <<call, wire, adrift, stored>>

FetchEnds ==
  /\ daemon = "fetching"
  /\ daemon' = "free"
  /\ UNCHANGED <<call, wire, adrift, stored, faults>>

\* The daemon stops or dies: its callers lose their connections, its requests
\* may have left.
Die ==
  /\ daemon # "down" /\ faults < MaxFaults
  /\ daemon' = "down" /\ faults' = faults + 1
  /\ call' = [c \in Sends |-> IF call[c] \in {"queued", "pending"} THEN "failed" ELSE call[c]]
  /\ wire' = [c \in Sends |-> "none"]
  /\ adrift' = adrift \cup { c \in Sends : wire[c] = "request" }
  /\ UNCHANGED stored

Restart ==
  /\ daemon = "down"
  /\ daemon' = "free"
  /\ UNCHANGED <<call, wire, adrift, stored, faults>>

\* What a loop does about the envelope c, and what the network does to it.
LoopStep(c) == TakeSend(c) \/ Hear(c) \/ Swallow(c) \/ Expire(c)
NetworkStep(c) == PeerAnswers(c) \/ RequestFails(c) \/ ArriveLate(c)

-----------------------------------------------------------------------------
(* Properties *)

DeliveryTypeOK ==
  /\ daemon \in {"free", "fetching", "down"}
  /\ call \in [Sends -> {"unsent", "queued", "pending", "ok", "failed"}]
  /\ wire \in [Sends -> {"none", "request"} \cup Answers]
  /\ adrift \subseteq Sends /\ stored \subseteq Sends
  /\ faults \in Nat

\* A caller that is told of success can rely on it: the peer has stored the
\* envelope, also when requests fail, answers are thrown away and the daemon dies.
SuccessMeansStored ==
  \A c \in Sends :
    /\ call[c] = "ok" => c \in stored
    /\ wire[c] = "accepted" => c \in stored
    /\ call[c] \in {"unsent", "queued"} => c \notin stored \cup adrift /\ wire[c] = "none"

Open(c) == call[c] \in {"queued", "pending"}

\* Every call to send is answered, in the end by housekeeping, when a fetch has
\* thrown the peer's answer away or none ever came.  An envelope is sent once, so
\* each send is answered if and only if there is always a time when none is open.
SendsAnswered == (\E c \in Sends : Open(c)) ~> (\A c \in Sends : ~Open(c))
=============================================================================
