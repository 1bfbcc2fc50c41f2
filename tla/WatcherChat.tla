----------------------------- MODULE WatcherChat -----------------------------
(***************************************************************************)
(* How a Watcher feeds the replies of its inbox into the room: pollOnce    *)
(* and ingest of apps/ios/DeepseekAgentMesh/AppModel.swift, over the       *)
(* daemon's mailbox and room.  Polls run concurrently: the timer's and     *)
(* those of a refresh.  Every call to the daemon is an await, so each poll *)
(* works from a listing that may be old.                                   *)
(***************************************************************************)
EXTENDS ChatRoom

CONSTANTS
  Polls,        \* the polls that may run at a time
  NoReply,      \* a poll that awaits no call for a reply
  MaxFaults     \* bound: failed calls to the daemon and deaths of the app

ASSUME PollAssumption ==
  Polls # {} /\ NoReply \notin Replies /\ MaxFaults \in Nat

VARIABLES
  arrived,      \* the replies that have reached the mailbox
  inbox,        \* those not acknowledged
  items,        \* items[p]: what poll p has listed and not gone through yet
  current,      \* current[p]: the reply whose call poll p awaits
  stage,        \* stage[p]: which call that is
  processing,   \* processingEnvelopeIDs
  refused,      \* history: the replies whose ingestion did not reach the room
  faults

watcherVars == <<items, current, stage, processing>>
vars == <<roomVars, arrived, inbox, watcherVars, refused, faults>>

Init ==
  /\ RoomInit
  /\ arrived = {} /\ inbox = {}
  /\ items = [p \in Polls |-> {}]
  /\ current = [p \in Polls |-> NoReply]
  /\ stage = [p \in Polls |-> "idle"]
  /\ processing = {} /\ refused = {}
  /\ faults = 0

\* The host posts, or closes its room.
HostSpeaks ==
  /\ Post
  /\ UNCHANGED <<arrived, inbox, watcherVars, refused, faults>>

HostCloses ==
  /\ open
  /\ Close
  /\ UNCHANGED <<arrived, inbox, watcherVars, refused, faults>>

\* A reply arrives, early or late, for a turn that has been opened.
Arrive(r) ==
  /\ r \notin arrived
  /\ Turn[r] <= turn
  /\ arrived' = arrived \cup {r}
  /\ inbox' = inbox \cup {r}
  /\ UNCHANGED <<roomVars, watcherVars, refused, faults>>

\* A poll lists the inbox and goes through the envelopes one by one.
List(p) ==
  /\ stage[p] = "idle" /\ items[p] = {}
  /\ items' = [items EXCEPT ![p] = inbox]
  /\ UNCHANGED <<roomVars, arrived, inbox, current, stage, processing, refused, faults>>

\* An envelope another poll works on is passed over.
Skip(p, r) ==
  /\ stage[p] = "idle" /\ r \in items[p]
  /\ r \in processing
  /\ items' = [items EXCEPT ![p] = @ \ {r}]
  /\ UNCHANGED <<roomVars, arrived, inbox, current, stage, processing, refused, faults>>

Begin(p, r) ==
  /\ stage[p] = "idle" /\ r \in items[p]
  /\ r \notin processing
  /\ processing' = processing \cup {r}
  /\ items' = [items EXCEPT ![p] = @ \ {r}]
  /\ current' = [current EXCEPT ![p] = r]
  /\ stage' = [stage EXCEPT ![p] = "ingest"]
  /\ UNCHANGED <<roomVars, arrived, inbox, refused, faults>>

\* chat.ingest answers; an error is shown to the user and otherwise ignored.
Ingested(p) ==
  /\ stage[p] = "ingest"
  /\ Ingest(current[p])
  /\ stage' = [stage EXCEPT ![p] = "ack"]
  /\ UNCHANGED <<arrived, inbox, items, current, processing, refused, faults>>

\* The call itself fails, before the room was changed; that too is ignored.
IngestFails(p) ==
  /\ stage[p] = "ingest"
  /\ faults < MaxFaults
  /\ faults' = faults + 1
  /\ refused' = refused \cup {current[p]}
  /\ stage' = [stage EXCEPT ![p] = "ack"]
  /\ UNCHANGED <<roomVars, arrived, inbox, items, current, processing>>

\* The envelope is done with, acknowledged or not.
EndIngest(p) ==
  /\ processing' = processing \ {current[p]}
  /\ current' = [current EXCEPT ![p] = NoReply]
  /\ stage' = [stage EXCEPT ![p] = "idle"]

\* inbox.ack, whatever became of the ingestion.
Acked(p) ==
  /\ stage[p] = "ack"
  /\ inbox' = inbox \ {current[p]}
  /\ EndIngest(p)
  /\ UNCHANGED <<roomVars, arrived, items, refused, faults>>

AckFails(p) ==
  /\ stage[p] = "ack"
  /\ faults < MaxFaults
  /\ faults' = faults + 1
  /\ EndIngest(p)
  /\ UNCHANGED <<roomVars, arrived, inbox, items, refused>>

\* The app dies, and its daemon with it; the room and the mailbox are files.
Restart ==
  /\ faults < MaxFaults
  /\ faults' = faults + 1
  /\ items' = [p \in Polls |-> {}]
  /\ current' = [p \in Polls |-> NoReply]
  /\ stage' = [p \in Polls |-> "idle"]
  /\ processing' = {}
  /\ UNCHANGED <<roomVars, arrived, inbox, refused>>

-----------------------------------------------------------------------------
PollStep(p) ==
  \/ List(p) \/ Ingested(p) \/ Acked(p)
  \/ \E r \in Replies : Skip(p, r) \/ Begin(p, r)

Next ==
  \/ HostSpeaks \/ HostCloses
  \/ \E r \in Replies : Arrive(r)
  \/ \E p \in Polls : PollStep(p) \/ IngestFails(p) \/ AckFails(p)
  \/ Restart

Spec == Init /\ [][Next]_vars

-----------------------------------------------------------------------------
(* Properties *)

\* The types of the variables (AppModel.swift and the mailbox).
TypeOK ==
  /\ arrived \subseteq Replies
  /\ inbox \subseteq arrived
  /\ items \in [Polls -> SUBSET arrived]
  /\ current \in [Polls -> Replies \cup {NoReply}]
  /\ stage \in [Polls -> {"idle", "ingest", "ack"}]
  /\ processing \subseteq arrived
  /\ refused \subseteq arrived
  /\ faults \in Nat

\* A reply is worked on by one poll at a time, between listings that overlap.
OnePollPerReply ==
  /\ \A p, q \in Polls : current[p] # NoReply /\ current[p] = current[q] => p = q
  /\ processing = { current[p] : p \in Polls } \ {NoReply}

Inv == RoomInv /\ TypeOK /\ OnePollPerReply

\* Where a reply stands that has been ingested and is about to be acknowledged.
IngestedOrRejected ==
  /\ \A r \in arrived : Turn[r] <= turn
  /\ \A p \in Polls : stage[p] # "idle" => current[p] \in arrived
  /\ \A p \in Polls : stage[p] = "ack" => ~Accepts(current[p]) \/ current[p] \in refused

\* An acknowledged reply is in the timeline, or the room would still not take it:
\* what the reducer rejects it rejects for good, so acknowledging it loses
\* nothing (AppModel.swift:314-327).  Calls that failed are excepted.
DroppedStaysRejected ==
  \A r \in arrived \ inbox : ~Accepts(r) \/ r \in refused
=============================================================================
