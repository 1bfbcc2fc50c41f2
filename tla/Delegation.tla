----------------------------- MODULE Delegation -----------------------------
(***************************************************************************)
(* A Leader's task run by another Leader: start, cancellation and the      *)
(* result loop of MeshLeaderProvider                                       *)
(* (packages/dsh-agent-mesh/leader-provider.js) over the daemon of         *)
(* Delivery and its inbox, with the RPC client's time-outs                 *)
(* (packages/mesh-rpc/src/index.js).                                       *)
(*                                                                         *)
(* A step from one await to the next is one action.  A start begins here   *)
(* with its send: the peers call and selectLeaderPeer before it leave      *)
(* nothing behind.  The peer is external: it answers a task it was given   *)
(* with results, maybe more than one (LeaderInbox says when), also when it *)
(* was cancelled; and another peer may name the task in a result of its.   *)
(***************************************************************************)
EXTENDS Delivery, FiniteSets

CONSTANTS
  Runs,
  Limit,       \* of a listing (100)
  MaxAnswers,  \* bound: results of one task by its peer
  Named,       \* bound: the runs whose tasks other peers name in results
  Fickle,      \* bound: the runs whose callers abort them or dispose of them
  None

ASSUME RunsAssumption ==
  /\ Sends = Runs \X {"task", "cancel"}
  /\ Named \subseteq Runs /\ Fickle \subseteq Runs
  /\ Limit \in Nat \ {0} /\ MaxAnswers \in Nat
  /\ None \notin Runs \X (0 .. MaxAnswers)

VARIABLES
  phase,       \* phase[r]: what the run waits for
  out,         \* out[r]: how it ended
  late,        \* the runs whose deadline has passed
  query,       \* query[r]: its call to inbox.list or inbox.ack, or the answer
  pick,        \* pick[r]: the result it has found
  inbox, processed  \* the results in the mailbox, and those acknowledged

runVars == <<phase, out, late, query, pick>>
vars == <<deliveryVars, runVars, inbox, processed>>

\* <<r, n>> names the task of r as what it answers; <<r, 0>> is from another peer
\* than the one that was given the task.
Results == (Runs \X (1 .. MaxAnswers)) \cup (Named \X {0})
AnswersTo(r) == {x \in Results : x[1] = r /\ x[2] # 0}
Task(r) == <<r, "task">>
Cancellation(r) == <<r, "cancel">>

Init ==
  /\ InitDelivery
  /\ phase = [r \in Runs |-> "idle"] /\ out = [r \in Runs |-> "none"]
  /\ late = {}
  /\ query = [r \in Runs |-> "none"] /\ pick = [r \in Runs |-> None]
  /\ inbox = {} /\ processed = {}

Cancelled(r) == call[Cancellation(r)] # "unsent"
Working(r) == phase[r] \in {"polling", "listing", "acking", "cancelling"}

-----------------------------------------------------------------------------
(* start, and the end of a run *)

Sent(c) == call' = [call EXCEPT ![c] = Issued]

\* start sends the task.
Start(r) ==
  /\ phase[r] = "idle"
  /\ phase' = [phase EXCEPT ![r] = "sending"]
  /\ Sent(Task(r))
  /\ UNCHANGED <<daemon, wire, adrift, stored, faults, out, late, query, pick, inbox, processed>>

Ends(r, how) ==
  /\ phase' = [phase EXCEPT ![r] = "over"]
  /\ out' = [out EXCEPT ![r] = how]

\* The answer to the send comes: the result loop begins, or start fails.
SendAnswered(r) ==
  /\ phase[r] = "sending" /\ Answered(Task(r))
  /\ IF call[Task(r)] = "ok"
       THEN phase' = [phase EXCEPT ![r] = "polling"] /\ UNCHANGED out
       ELSE Ends(r, "rejected")
  /\ UNCHANGED <<deliveryVars, late, query, pick, inbox, processed>>

\* The caller aborts while start waits for its send: the call is given up, written
\* to its socket already or not.
AbortStart(r) ==
  /\ r \in Fickle /\ phase[r] = "sending"
  /\ Ends(r, "rejected")
  /\ \/ UNCHANGED call
     \/ call[Task(r)] = "queued" /\ call' = [call EXCEPT ![Task(r)] = "failed"]
  /\ UNCHANGED <<daemon, wire, adrift, stored, faults, late, query, pick, inbox, processed>>

\* requestCancel: the cancellation is sent once.
RequestCancel(r) == IF Cancelled(r) THEN UNCHANGED call ELSE Sent(Cancellation(r))

\* The caller aborts or disposes of the run.
Cancel(r) ==
  /\ r \in Fickle /\ Working(r) /\ ~Cancelled(r)
  /\ RequestCancel(r)
  /\ UNCHANGED <<daemon, wire, adrift, stored, faults, runVars, inbox, processed>>

-----------------------------------------------------------------------------
(* The result loop *)

\* Mutant: a cancelled run alone stops to poll.
TimeLeftAlways(r) == TRUE

TimeLeft(r) == r \notin late

\* Mutant: a run that is out of time just ends.
LeavesQuietly(r) == UNCHANGED call

\* A run that is out of time sends a cancellation and does not wait for it.
LeavesWith(r) == RequestCancel(r)

\* The condition of the loop: list once more, wait for the cancellation, or end.
Loop(r) ==
  /\ phase[r] = "polling"
  /\ \/ /\ ~Cancelled(r) /\ TimeLeft(r)
        /\ phase' = [phase EXCEPT ![r] = "listing"]
        /\ query' = [query EXCEPT ![r] = IF daemon = "down" THEN "failed" ELSE "list"]
        /\ UNCHANGED <<call, out>>
     \/ /\ Cancelled(r)
        /\ phase' = [phase EXCEPT ![r] = "cancelling"]
        /\ UNCHANGED <<call, out, query>>
     \/ /\ ~Cancelled(r) /\ ~TimeLeft(r)
        /\ LeavesWith(r)
        /\ Ends(r, "timeout")
        /\ UNCHANGED query
  /\ UNCHANGED <<daemon, wire, adrift, stored, faults, late, pick, inbox, processed>>

\* Mutant: the sender is not looked at.
AnySender(r, x) == x[1] = r

\* x is a result of the task of r: its correlation id and its sender say so.
Mine(r, x) == x[1] = r /\ x[2] # 0

\* The daemon lists results, no more than the limit, in the order of their random
\* names; the run will take the first of its own.
TakeList(r) ==
  /\ daemon = "free" /\ query[r] = "list"
  /\ query' = [query EXCEPT ![r] = "done"]
  /\ \E listing \in SUBSET inbox :
       /\ Cardinality(listing) = IF Cardinality(inbox) < Limit THEN Cardinality(inbox) ELSE Limit
       /\ IF \E x \in listing : Mine(r, x)
            THEN \E x \in listing : Mine(r, x) /\ pick' = [pick EXCEPT ![r] = x]
            ELSE UNCHANGED pick
  /\ UNCHANGED <<deliveryVars, phase, out, late, inbox, processed>>

\* Mutant: every result there is goes with the one that was found.
AllResults(r) == inbox

\* The result that r acknowledges.
Acknowledged(r) == {pick[r]}

\* The daemon acknowledges the result a run has found, also for one that is gone.
TakeAck(r) ==
  /\ daemon = "free" /\ query[r] = "ack"
  /\ query' = [query EXCEPT ![r] = "done"]
  /\ inbox' = inbox \ Acknowledged(r)
  /\ processed' = processed \cup Acknowledged(r)
  /\ UNCHANGED <<deliveryVars, phase, out, late, pick>>

\* Listing or acknowledging fails: the directory or a file in it cannot be read,
\* parsed or renamed.
MailboxFails(r) ==
  /\ daemon = "free" /\ query[r] \in {"list", "ack"}
  /\ query' = [query EXCEPT ![r] = "failed"]
  /\ UNCHANGED <<deliveryVars, phase, out, late, pick, inbox, processed>>

\* The listing comes: the result is acknowledged, or the run waits for the next.
ListAnswered(r) ==
  /\ phase[r] = "listing" /\ query[r] = "done"
  /\ IF pick[r] # None
       THEN /\ phase' = [phase EXCEPT ![r] = "acking"]
            /\ query' = [query EXCEPT ![r] = IF daemon = "down" THEN "failed" ELSE "ack"]
       ELSE /\ phase' = [phase EXCEPT ![r] = "polling"]
            /\ query' = [query EXCEPT ![r] = "none"]
  /\ UNCHANGED <<deliveryVars, out, late, pick, inbox, processed>>

AckAnswered(r) ==
  /\ phase[r] = "acking" /\ query[r] = "done"
  /\ Ends(r, "result")
  /\ UNCHANGED <<deliveryVars, late, query, pick, inbox, processed>>

\* An error in the loop ends the run; no cancellation is sent.
Breaks(r) == Ends(r, IF Cancelled(r) THEN "aborted" ELSE "broken")

QueryFailed(r) ==
  /\ phase[r] \in {"listing", "acking"} /\ query[r] = "failed"
  /\ Breaks(r)
  /\ UNCHANGED <<deliveryVars, late, query, pick, inbox, processed>>

\* A cancelled run ends when its cancellation is through, one way or the other.
CancelAnswered(r) ==
  /\ phase[r] = "cancelling" /\ Answered(Cancellation(r))
  /\ Ends(r, "aborted")
  /\ UNCHANGED <<deliveryVars, late, query, pick, inbox, processed>>

\* The client's 35 s are over, whatever the daemon makes of the call.  They are more
\* than the 30 s of housekeeping: a fetch has held up the loop, or the daemon died
\* before its answer was read (the client does not notice a closed connection).
CallLost(r) ==
  /\ faults > 0
  /\ \/ phase[r] = "sending" /\ Ends(r, "rejected")
     \/ phase[r] \in {"listing", "acking"} /\ Breaks(r)
     \/ phase[r] = "cancelling" /\ Ends(r, "aborted")
  /\ UNCHANGED <<deliveryVars, late, query, pick, inbox, processed>>

\* The deadline passes; only the condition of the loop looks at it.
DeadlinePasses(r) ==
  /\ phase[r] = "polling" /\ ~Cancelled(r) /\ r \notin late
  /\ late' = late \cup {r}
  /\ UNCHANGED <<deliveryVars, phase, out, query, pick, inbox, processed>>

-----------------------------------------------------------------------------
\* A task that arrived is answered, by its peer or by one that has heard of it; the
\* daemon stores the result, also in a fetch.
PeerResult(x) ==
  /\ daemon # "down"
  /\ Task(x[1]) \in stored /\ x \notin inbox \cup processed
  /\ inbox' = inbox \cup {x}
  /\ UNCHANGED <<deliveryVars, runVars, processed>>

\* The daemon dies with what was asked of it.
DieWithQueries ==
  /\ Die
  /\ query' = [r \in Runs |-> IF query[r] \in {"list", "ack"} THEN "failed" ELSE query[r]]
  /\ UNCHANGED <<phase, out, late, pick, inbox, processed>>

RunStep(r) ==
  SendAnswered(r) \/ Loop(r) \/ ListAnswered(r) \/ AckAnswered(r) \/ QueryFailed(r)
    \/ CancelAnswered(r)

DeliveryStep ==
  /\ \/ \E c \in Sends : LoopStep(c) \/ NetworkStep(c)
     \/ FetchBegins \/ FetchEnds \/ Restart
  /\ UNCHANGED <<runVars, inbox, processed>>

Next ==
  \/ \E r \in Runs :
       Start(r) \/ AbortStart(r) \/ Cancel(r) \/ RunStep(r) \/ CallLost(r)
         \/ DeadlinePasses(r) \/ TakeList(r) \/ TakeAck(r) \/ MailboxFails(r)
  \/ \E x \in Results : PeerResult(x)
  \/ DieWithQueries
  \/ DeliveryStep

Spec == Init /\ [][Next]_vars

\* The loop of the daemon takes its commands and keeps house, fetches end
\* (Transfer), the provider's continuations run, and time passes.  Nothing is
\* assumed of the network, the peer, or of a daemon that is down.
Fairness ==
  /\ \A c \in Sends : WF_vars(TakeSend(c) /\ UNCHANGED <<runVars, inbox, processed>>)
                        /\ WF_vars(Expire(c) /\ UNCHANGED <<runVars, inbox, processed>>)
  /\ WF_vars(FetchEnds /\ UNCHANGED <<runVars, inbox, processed>>)
  /\ \A r \in Runs : WF_vars(RunStep(r)) /\ SF_vars(DeadlinePasses(r))
                       /\ WF_vars(TakeList(r)) /\ WF_vars(TakeAck(r))

FairSpec == Spec /\ Fairness

-----------------------------------------------------------------------------
(* Properties *)

\* The types of the variables.
TypeOK ==
  /\ DeliveryTypeOK
  /\ phase \in [Runs -> {"idle", "sending", "polling", "listing", "acking", "cancelling", "over"}]
  /\ out \in [Runs -> {"none", "result", "aborted", "timeout", "broken", "rejected"}]
  /\ late \subseteq Runs
  /\ query \in [Runs -> {"none", "list", "ack", "done", "failed"}]
  /\ pick \in [Runs -> Results \cup {None}]
  /\ inbox \subseteq Results /\ processed \subseteq Results

\* What a run waits for goes with what its calls have come to: it works on only
\* after its send was answered with success, it has a call to the mailbox only in
\* the phases of one, and the result it found is its own.
RunMatches(r) ==
  /\ phase[r] = "idle" <=> call[Task(r)] = "unsent"
  /\ phase[r] = "over" <=> out[r] # "none"
  /\ Working(r) \/ Cancelled(r) => call[Task(r)] = "ok"
  /\ phase[r] \in {"idle", "sending", "polling", "cancelling"} => query[r] = "none" /\ pick[r] = None
  /\ phase[r] = "cancelling" => Cancelled(r)
  /\ phase[r] = "listing" => query[r] \in {"list", "done", "failed"}
  /\ phase[r] = "acking" => query[r] \in {"ack", "done", "failed"} /\ pick[r] # None
  /\ phase[r] = "acking" /\ query[r] = "done" => pick[r] \in processed
  /\ query[r] = "ack" => pick[r] \in inbox
  /\ out[r] \in {"timeout", "rejected"} => query[r] = "none"
  /\ pick[r] # None => pick[r] \in AnswersTo(r) /\ pick[r] \in inbox \cup processed

\* A result answers a task that was stored; one that was taken out of the inbox is
\* what its run has found, and that run is past its listing.
ResultsMatch ==
  /\ inbox \cap processed = {}
  /\ \A x \in inbox \cup processed : Task(x[1]) \in stored
  /\ \A x \in processed :
       /\ pick[x[1]] = x
       /\ query[x[1]] = "done" /\ phase[x[1]] # "listing"

\* Runs, calls, and results go together.
RunsMatch == ResultsMatch /\ \A r \in Runs : RunMatches(r)

\* A result that was taken out of the inbox is never reported as a time-out or a
\* failure to start: the run returns it or says that a call has failed.
TakenIsReported ==
  \A x \in processed : out[x[1]] \notin {"timeout", "rejected"}

\* The invariant.
Inv == TypeOK /\ SuccessMeansStored /\ RunsMatch /\ TakenIsReported

\* A run that was aborted or ran out of time has asked its peer to stop, whatever
\* came in between (a run that lost a call has not: leader-provider.js:174).
LeftIsCancelled ==
  \A r \in Runs : out[r] \in {"aborted", "timeout"} => Cancelled(r)

\* A cancellation never reaches the peer before its task, which would then start
\* after all (CancelUnknown in LeaderInbox drops what it does not know).
CancelFollowsTask ==
  \A r \in Runs : Cancellation(r) \in stored => Task(r) \in stored

\* The provider implements the abstract runs.
Abstract ==
  INSTANCE DelegatedRuns WITH outcome <- out, pending <- inbox, taken <- processed,
                              own <- [r \in Runs |-> AnswersTo(r)]

\* Every run ends at most once, takes at most one result, one of its own task, and
\* ends with a result only if it took one.
ImplementsRuns == Abstract!Spec

\* Every run that was started ends, whatever its peer and the network do.
RunsEnd == \A r \in Runs : phase[r] = "sending" ~> phase[r] = "over"
=============================================================================
