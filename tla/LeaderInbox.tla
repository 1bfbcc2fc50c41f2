----------------------------- MODULE LeaderInbox -----------------------------
(***************************************************************************)
(* How a node's Leader sessions work off the durable inbox:                *)
(* packages/dsh-agent-mesh/inbox.js, with the task ownership of leader.js. *)
(*                                                                         *)
(* The plugin is one JavaScript process.  Code between two awaits is one   *)
(* step here; every call to the daemon (list, send, ack) is an await, so   *)
(* the poll, any number of finishing tasks and chats, and the sessions'    *)
(* own turns interleave between them.  A call may fail; a failed send may  *)
(* still have delivered, a failed ack may still have acknowledged.         *)
(*                                                                         *)
(* A Leader session is the Harness's: it is modelled from how the plugin   *)
(* uses it (followup, cancel, inbox.remove, status and session events).    *)
(***************************************************************************)
EXTENDS Integers, Sequences, FiniteSets, SequencesExt

CONSTANTS
  Leaders,        \* the bound Leader sessions
  Tasks,          \* ids of task envelopes
  Cancels,        \* ids of task_cancel envelopes
  Prompts,        \* ids of chat_prompt messages
  Notes,          \* ids of plain messages
  Target,         \* Target[k]: the task that k cancels (its correlation_id)
  Foreign,        \* the cancellations sent by a peer that did not send the task
  Slot,           \* Slot[p]: the chat slot (host, room, turn) of a prompt
  None,           \* no session, envelope, turn or output
  User,           \* a turn the session's own user started
  SlotCapacity,   \* how many chat slots are remembered (1024 in the code)
  MaxToolCalls,   \* bound: explicit completions tried
  MaxFaults,      \* bound: failed calls to the daemon
  MaxCrashes,     \* bound: deaths of the Harness process
  MaxUserTurns    \* bound: turns started by users

Work      == Tasks \cup Prompts
Envelopes == Work \cup Cancels \cup Notes

ASSUME DisjointAssumption ==
  /\ Tasks \cap (Cancels \cup Prompts \cup Notes) = {}
  /\ Prompts \cap (Cancels \cup Notes) = {}
  /\ Cancels \cap Notes = {}
  /\ None \notin Envelopes \cup Leaders
  /\ User \notin Envelopes
ASSUME CancelAssumption == Target \in [Cancels -> Tasks] /\ Foreign \subseteq Cancels
ASSUME BoundAssumption ==
  /\ SlotCapacity \in Nat \ {0} /\ MaxToolCalls \in Nat /\ MaxFaults \in Nat
  /\ MaxCrashes \in Nat /\ MaxUserTurns \in Nat

VARIABLES
  \* the daemon
  arrived,    \* every envelope that has reached the mailbox
  inbox,      \* the envelopes not acknowledged yet
  sent,       \* task_result and chat_reply messages delivered to their senders
  \* the sessions
  queue,      \* queue[l]: followups the session has not begun
  turn,       \* turn[l]: what the session's current turn is about
  stopping,   \* the sessions whose current turn was cancelled
  \* the plugin
  owner,      \* owner[e]: the Leader of e in `active' (tasks) or `chats' (prompts)
  started,    \* entries whose user message the session has begun
  output,     \* output[e]: the turn that wrote the entry's last assistant output
  epoch,      \* epoch[e]: how often e was dispatched (entries are told apart by it)
  slots,      \* seenChatSlots, oldest first
  finishing,  \* calls of finish and finishChat in progress
  pc,         \* where the poll is
  items,      \* the listing the poll works from
  current,    \* the envelope whose call the poll awaits
  chosen,     \* the free session the poll has in mind while it awaits the status
  knowsSelf,  \* the daemon has told its peer id (localPeerId is set)
  \* counters
  toolCalls,  \* explicit completions tried
  faults, crashes, userTurns

daemonVars  == <<arrived, inbox, sent>>
sessionVars == <<queue, turn, stopping>>
entryVars   == <<owner, started, output, epoch, slots>>
pollVars    == <<pc, items, current, chosen, knowsSelf>>
counterVars == <<toolCalls, faults, crashes, userTurns>>
vars == <<daemonVars, sessionVars, entryVars, finishing, pollVars, counterVars>>

\* The turn that wrote a text: about an envelope, of the user, or no text.  The
\* stop reason that goes with a result is left out.
Outputs == Envelopes \cup {User, None}

\* A call of finish or finishChat; n tells the calls for one envelope apart.
Call == [ work : Work, n : Nat, epoch : Nat, by : {"turn", "tool", "cancel"},
          output : Outputs, stage : {"send", "ack"} ]

\* The n-th result or reply delivered for an envelope.
Result == [ work : Work, n : Nat, output : Outputs ]

Init ==
  /\ arrived = {} /\ inbox = {} /\ sent = {}
  /\ queue = [l \in Leaders |-> <<>>]
  /\ turn = [l \in Leaders |-> None]
  /\ stopping = {}
  /\ owner = [e \in Work |-> None]
  /\ started = {}
  /\ output = [e \in Work |-> None]
  /\ epoch = [e \in Work |-> 0]
  /\ slots = <<>>
  /\ finishing = {}
  /\ pc = "idle" /\ items = {} /\ current = None /\ chosen = None /\ knowsSelf = FALSE
  /\ toolCalls = 0 /\ faults = 0 /\ crashes = 0 /\ userTurns = 0

\* The daemon has stored an envelope.  A sender cancels only what it has sent.
Arrive(e) ==
  /\ e \notin arrived
  /\ e \in Cancels => Target[e] \in arrived
  /\ arrived' = arrived \cup {e}
  /\ inbox' = inbox \cup {e}
  /\ UNCHANGED <<sent, sessionVars, entryVars, finishing, pollVars, counterVars>>

-----------------------------------------------------------------------------
(* finish and finishChat *)

Active == { t \in Tasks : owner[t] # None }
Chats  == { p \in Prompts : owner[p] # None }
OwnedBy(l) == { e \in Work : owner[e] = l }

\* The followup that announces e to its Leader, and whether it still waits there.
Followup(e, n) == [ about |-> e, epoch |-> n ]
Waits(e) == Contains(queue[owner[e]], Followup(e, epoch[e]))

\* Mutant: the envelope is acknowledged first, the result sent after that.
AckFirst(silent) == "ack"

\* The result goes out before the acknowledgement; a chat turn whose text is
\* empty or SKIP has nothing to send.
FirstStage(silent) == IF silent THEN "ack" ELSE "send"

FreshCall(e) ==
  CHOOSE n \in 0..Cardinality(finishing) : \A c \in finishing : c.work = e => c.n # n

\* The synchronous part of finish and finishChat: the entry is looked up and
\* the first call is on its way.
BeginFinish(e, by, out, silent) ==
  finishing' = finishing \cup
    {[ work |-> e, n |-> FreshCall(e), epoch |-> epoch[e], by |-> by,
       output |-> out, stage |-> FirstStage(silent) ]}

\* One more message for the sender of e.
Delivered(e, out) ==
  sent \cup {[ work |-> e, n |-> Cardinality({ r \in sent : r.work = e }), output |-> out ]}

\* Mutant: a poll that returns or fails forgets to clear `polling'.
StayPolling == pc' = "polling" /\ UNCHANGED <<items, current, chosen>>

\* The `finally' of poll.
PollEnds == pc' = "idle" /\ items' = {} /\ current' = None /\ chosen' = None

\* The result is delivered; the acknowledgement is on its way.
FinishSend(c) ==
  /\ c.stage = "send"
  /\ sent' = Delivered(c.work, c.output)
  /\ finishing' = (finishing \ {c}) \cup {[c EXCEPT !.stage = "ack"]}
  /\ UNCHANGED <<arrived, inbox, sessionVars, entryVars, pollVars, counterVars>>

\* Mutant: the entry stays when its envelope is acknowledged.
KeepEntry(c) == UNCHANGED <<owner, started, output>>

\* A task's entry goes only if it is still the one the call began with; a chat
\* is deleted by its id.
EndEntry(c) ==
  IF c.work \in Prompts \/ (owner[c.work] # None /\ epoch[c.work] = c.epoch)
    THEN /\ owner' = [owner EXCEPT ![c.work] = None]
         /\ started' = started \ {c.work}
         /\ output' = [output EXCEPT ![c.work] = None]
    ELSE UNCHANGED <<owner, started, output>>

\* The envelope is acknowledged and the Leader is free for the next one.  The
\* poll awaits the call that finishes an unstarted task for a cancellation.
FinishAck(c) ==
  /\ c.stage = "ack"
  /\ inbox' = inbox \ {c.work}
  /\ EndEntry(c)
  /\ finishing' = finishing \ {c}
  /\ pc' = IF c.by = "cancel" THEN "ackCancel" ELSE pc
  /\ UNCHANGED <<arrived, sent, sessionVars, epoch, slots, items, current, chosen, knowsSelf,
                 counterVars>>

\* A call throws: the entry stays, and the poll that awaits it gives up.  The
\* daemon may have done its part (`done') and the answer have come too late.
FinishFails(c, done) ==
  /\ faults < MaxFaults
  /\ faults' = faults + 1
  /\ sent' = IF done /\ c.stage = "send" THEN Delivered(c.work, c.output) ELSE sent
  /\ inbox' = IF done /\ c.stage = "ack" THEN inbox \ {c.work} ELSE inbox
  /\ finishing' = finishing \ {c}
  /\ IF c.by = "cancel" THEN PollEnds /\ UNCHANGED knowsSelf ELSE UNCHANGED pollVars
  /\ UNCHANGED <<arrived, sessionVars, entryVars, toolCalls, crashes, userTurns>>

-----------------------------------------------------------------------------
(* The Leader sessions, and the session events the plugin hears *)

\* The session begins the next followup: user/message marks the entry of this
\* session started, if the message is the entry's.
BeginTurn(l) ==
  /\ turn[l] = None
  /\ queue[l] # <<>>
  /\ LET m == Head(queue[l])
     IN  /\ turn' = [turn EXCEPT ![l] = m.about]
         /\ started' = IF m.about \in OwnedBy(l) /\ m.epoch = epoch[m.about]
                         THEN started \cup {m.about}
                         ELSE started
  /\ queue' = [queue EXCEPT ![l] = Tail(@)]
  /\ UNCHANGED <<daemonVars, stopping, owner, output, epoch, slots, finishing, pollVars, counterVars>>

\* The session's own user starts a turn.
BeginUserTurn(l) ==
  /\ turn[l] = None
  /\ userTurns < MaxUserTurns
  /\ userTurns' = userTurns + 1
  /\ turn' = [turn EXCEPT ![l] = User]
  /\ UNCHANGED <<daemonVars, queue, stopping, entryVars, finishing, pollVars, toolCalls, faults, crashes>>

\* assistant/message: the entry of this session remembers it, whichever turn
\* wrote it, once the entry has started.
Speak(l) ==
  /\ turn[l] # None /\ l \notin stopping
  /\ \E e \in OwnedBy(l) \cap started :
       /\ output[e] # turn[l]
       /\ output' = [output EXCEPT ![e] = turn[l]]
  /\ UNCHANGED <<daemonVars, sessionVars, owner, started, epoch, slots, finishing, pollVars, counterVars>>

ToolCallPending(l) == \E c \in finishing : c.by = "tool" /\ owner[c.work] = l

\* mesh_task_complete and mesh_task_fail: the turn hands over its own result.
CompleteTool(l, t) ==
  /\ turn[l] # None /\ l \notin stopping
  /\ owner[t] = l
  /\ ~ToolCallPending(l)
  /\ toolCalls < MaxToolCalls
  /\ toolCalls' = toolCalls + 1
  /\ BeginFinish(t, "tool", turn[l], FALSE)
  /\ UNCHANGED <<daemonVars, sessionVars, entryVars, pollVars, faults, crashes, userTurns>>

\* A turn ends: by itself, or aborted by its user or by the plugin, in which
\* case a tool call of its own may still be open.
TurnEnds(l) ==
  /\ turn[l] # None
  /\ turn' = [turn EXCEPT ![l] = None]
  /\ stopping' = stopping \ {l}
  /\ UNCHANGED <<daemonVars, queue, entryVars, pollVars, counterVars>>

\* turn/end for a session without a started entry.
EndIdleTurn(l) ==
  /\ TurnEnds(l)
  /\ OwnedBy(l) \cap started = {}
  /\ UNCHANGED finishing

\* turn/end for a session with a started task: its result is the output the
\* entry remembers.
EndTaskTurn(l) ==
  /\ TurnEnds(l)
  /\ \E t \in OwnedBy(l) \cap started \cap Tasks : BeginFinish(t, "turn", output[t], FALSE)

\* turn/end for a session with a started chat: a reply, or nothing to say.
EndChatTurn(l) ==
  /\ TurnEnds(l)
  /\ \E p \in OwnedBy(l) \cap started \cap Prompts, silent \in BOOLEAN :
       /\ output[p] = None => silent
       /\ BeginFinish(p, "turn", output[p], silent)

-----------------------------------------------------------------------------
(* poll *)

\* inbox.list: `items' is the daemon's answer, and a snapshot from here on.
List ==
  /\ pc = "idle"
  /\ items' = inbox
  /\ pc' = "listed"
  /\ UNCHANGED <<daemonVars, sessionVars, entryVars, finishing, current, chosen, knowsSelf, counterVars>>

\* Each task_cancel of the listing, in turn.
HandleCancel(k) ==
  /\ pc = "listed"
  /\ k \in items \cap Cancels
  /\ current' = k
  /\ UNCHANGED <<daemonVars, entryVars, turn, items, chosen, knowsSelf, counterVars>>

\* The task is active and its message still waits in the session: remove it
\* and finish the task as aborted.
CancelUnstarted(k) ==
  LET t == Target[k]
      l == owner[t]
  IN  /\ HandleCancel(k)
      /\ t \in Active /\ k \notin Foreign
      /\ t \notin started
      /\ \E i \in DOMAIN queue[l] :
           /\ queue[l][i] = Followup(t, epoch[t])
           /\ queue' = [queue EXCEPT ![l] = RemoveAt(@, i)]
      /\ BeginFinish(t, "cancel", None, FALSE)
      /\ pc' = "removing"
      /\ UNCHANGED stopping

\* The task is active otherwise: cancel whatever turn the session runs.
CancelRunning(k) ==
  LET t == Target[k]
      l == owner[t]
  IN  /\ HandleCancel(k)
      /\ t \in Active /\ k \notin Foreign
      /\ t \in started \/ ~Waits(t)
      /\ stopping' = IF turn[l] # None THEN stopping \cup {l} ELSE stopping
      /\ pc' = "ackCancel"
      /\ UNCHANGED <<queue, finishing>>

\* The task is not active but in the listing: tell its sender it is aborted.
CancelPending(k) ==
  /\ HandleCancel(k)
  /\ Target[k] \in items \ Active /\ k \notin Foreign
  /\ pc' = "abortSend"
  /\ UNCHANGED <<queue, stopping, finishing>>

\* Nothing to cancel, or not the sender's to cancel.
CancelUnknown(k) ==
  /\ HandleCancel(k)
  /\ k \in Foreign \/ Target[k] \notin items \cup Active
  /\ pc' = "ackCancel"
  /\ UNCHANGED <<queue, stopping, finishing>>

AbortSend ==
  /\ pc = "abortSend"
  /\ sent' = Delivered(Target[current], None)
  /\ pc' = "abortAck"
  /\ UNCHANGED <<arrived, inbox, sessionVars, entryVars, finishing, items, current, chosen, knowsSelf,
                 counterVars>>

AbortAck ==
  /\ pc = "abortAck"
  /\ inbox' = inbox \ {Target[current]}
  /\ pc' = "ackCancel"
  /\ UNCHANGED <<arrived, sent, sessionVars, entryVars, finishing, items, current, chosen, knowsSelf,
                 counterVars>>

\* The cancellation is done with; the loop goes on to the next one.
AckCancel ==
  /\ pc = "ackCancel"
  /\ inbox' = inbox \ {current}
  /\ items' = items \ {current}
  /\ current' = None
  /\ pc' = "listed"
  /\ UNCHANGED <<arrived, sent, sessionVars, entryVars, finishing, chosen, knowsSelf, counterVars>>

\* Mutant: a session that works on a chat counts as free.
BusyWithTask(l) == \E t \in Active : owner[t] = l

\* A session is busy while any task or chat of it is unfinished.
Busy(l) == OwnedBy(l) # {}

FreeLeaders == { l \in Leaders : turn[l] = None /\ ~Busy(l) }

\* Every cancellation of the listing is handled and the poll may dispatch.
Dispatching ==
  /\ pc = "listed"
  /\ items \cap Cancels = {}

\* The entries for the envelopes S, assigned by f, with their followups.
Dispatch(S, f) ==
  /\ owner' = [e \in Work |-> IF e \in S THEN f[e] ELSE owner[e]]
  /\ started' = started \ S
  /\ output' = [e \in Work |-> IF e \in S THEN None ELSE output[e]]
  /\ epoch' = [e \in Work |-> IF e \in S THEN epoch[e] + 1 ELSE epoch[e]]
  /\ queue' = [l \in Leaders |->
                 IF \E e \in S : f[e] = l
                   THEN LET e == CHOOSE e \in S : f[e] = l
                        IN  Append(queue[l], Followup(e, epoch[e] + 1))
                   ELSE queue[l]]

\* No session is free: everything waits in the inbox.
NobodyFree ==
  /\ Dispatching
  /\ FreeLeaders = {}
  /\ PollEnds
  /\ UNCHANGED <<daemonVars, sessionVars, entryVars, finishing, knowsSelf, counterVars>>

NewPrompts == (items \cap Prompts) \ Chats

\* Mutant: only the slots of the chats in progress are known.
SlotOpen(p) == \E q \in Chats : Slot[q] = Slot[p]

\* The prompt's (host, room, turn) was taken up before.
SlotSeen(p) == Contains(slots, Slot[p])

\* The poll goes on to acknowledge e and is done.
ThenAck(e) == pc' = "ackItem" /\ current' = e /\ chosen' = None /\ UNCHANGED items

\* The first prompt waits until the daemon has told the node's peer id; the session
\* and the prompt are chosen before that.
AskStatus(p, l) ==
  /\ Dispatching /\ l \in FreeLeaders
  /\ p \in NewPrompts /\ ~knowsSelf
  /\ pc' = "status" /\ current' = p /\ chosen' = l
  /\ UNCHANGED <<daemonVars, sessionVars, entryVars, finishing, items, knowsSelf, counterVars>>

\* The poll looks at p and has l for it, at once or after the answer to its status
\* call.
Chose(p, l) ==
  \/ /\ Dispatching /\ knowsSelf
     /\ l \in FreeLeaders /\ p \in NewPrompts
  \/ pc = "status" /\ p = current /\ l = chosen

\* A prompt for a slot that was answered already is acknowledged unanswered.
RejectPrompt(p, l) ==
  /\ Chose(p, l) /\ SlotSeen(p)
  /\ ThenAck(p)
  /\ knowsSelf' = TRUE
  /\ UNCHANGED <<daemonVars, sessionVars, entryVars, finishing, counterVars>>

\* A prompt goes to the chosen session, which its user may have put to work during
\* the status call; the slot set forgets its oldest when full.
DispatchPrompt(p, l) ==
  /\ Chose(p, l) /\ ~SlotSeen(p)
  /\ Dispatch({p}, [e \in {p} |-> l])
  /\ slots' = IF Len(slots) >= SlotCapacity
                THEN Append(Tail(slots), Slot[p])
                ELSE Append(slots, Slot[p])
  /\ PollEnds
  /\ knowsSelf' = TRUE
  /\ UNCHANGED <<daemonVars, turn, stopping, finishing, counterVars>>

\* Any other message of the chat protocol is acknowledged.  That includes a
\* prompt whose chat is in progress.
AckOtherChat(p) ==
  /\ Dispatching /\ FreeLeaders # {}
  /\ NewPrompts = {}
  /\ p \in items \cap Prompts
  /\ ThenAck(p)
  /\ UNCHANGED <<daemonVars, sessionVars, entryVars, finishing, knowsSelf, counterVars>>

\* A plain message is passed on, then acknowledged.
DeliverNote(n, l) ==
  /\ Dispatching /\ l \in FreeLeaders
  /\ items \cap Prompts = {}
  /\ n \in items \cap Notes
  /\ queue' = [queue EXCEPT ![l] = Append(@, Followup(n, 0))]
  /\ ThenAck(n)
  /\ UNCHANGED <<daemonVars, turn, stopping, entryVars, finishing, knowsSelf, counterVars>>

\* Tasks go to free sessions, one each, as many as there are of both.
DispatchTasks(S, f) ==
  /\ Dispatching /\ FreeLeaders # {}
  /\ items \cap (Prompts \cup Notes) = {}
  /\ LET waiting == (items \cap Tasks) \ Active
     IN  /\ S \subseteq waiting
         /\ \/ S = waiting
            \/ Cardinality(S) = Cardinality(FreeLeaders)
  /\ \A e \in S : f[e] \in FreeLeaders
  /\ \A d, e \in S : f[d] = f[e] => d = e
  /\ Dispatch(S, f)
  /\ PollEnds
  /\ UNCHANGED <<daemonVars, turn, stopping, slots, finishing, knowsSelf, counterVars>>

AckItem ==
  /\ pc = "ackItem"
  /\ inbox' = inbox \ {current}
  /\ PollEnds
  /\ UNCHANGED <<arrived, sent, sessionVars, entryVars, finishing, knowsSelf, counterVars>>

\* A call of the poll itself throws, before or after the daemon did its part.
PollFails(done) ==
  /\ pc \in {"abortSend", "abortAck", "ackCancel", "status", "ackItem"}
  /\ faults < MaxFaults
  /\ faults' = faults + 1
  /\ sent' = IF done /\ pc = "abortSend" THEN Delivered(Target[current], None) ELSE sent
  /\ inbox' = CASE done /\ pc = "abortAck" -> inbox \ {Target[current]}
                [] done /\ pc \in {"ackCancel", "ackItem"} -> inbox \ {current}
                [] OTHER -> inbox
  /\ PollEnds
  /\ UNCHANGED <<arrived, sessionVars, entryVars, finishing, knowsSelf, toolCalls, crashes,
                 userTurns>>

\* The Harness process dies: what it keeps in memory is gone, the inbox is not.
Crash ==
  /\ crashes < MaxCrashes
  /\ crashes' = crashes + 1
  /\ queue' = [l \in Leaders |-> <<>>]
  /\ turn' = [l \in Leaders |-> None]
  /\ stopping' = {}
  /\ owner' = [e \in Work |-> None]
  /\ started' = {}
  /\ output' = [e \in Work |-> None]
  /\ slots' = <<>>
  /\ finishing' = {}
  /\ PollEnds /\ knowsSelf' = FALSE
  /\ epoch' = [e \in Work |-> 0]
  /\ UNCHANGED <<daemonVars, toolCalls, faults, userTurns>>

-----------------------------------------------------------------------------
FinishStep(c) == FinishSend(c) \/ FinishAck(c)

EndTurn(l) == EndIdleTurn(l) \/ EndTaskTurn(l) \/ EndChatTurn(l)

DispatchStep ==
  \/ NobodyFree
  \/ \E p \in Prompts : AckOtherChat(p)
  \/ \E p \in Prompts, l \in Leaders : AskStatus(p, l) \/ RejectPrompt(p, l) \/ DispatchPrompt(p, l)
  \/ \E n \in Notes, l \in Leaders : DeliverNote(n, l)
  \/ \E S \in SUBSET Tasks : \E f \in [S -> Leaders] : DispatchTasks(S, f)

PollStep ==
  \/ List
  \/ \E k \in Cancels :
       CancelUnstarted(k) \/ CancelRunning(k) \/ CancelPending(k) \/ CancelUnknown(k)
  \/ AbortSend \/ AbortAck \/ AckCancel \/ AckItem
  \/ DispatchStep

Next ==
  \/ \E e \in Envelopes : Arrive(e)
  \/ PollStep
  \/ \E c \in finishing : FinishStep(c)
  \/ \E c \in finishing, done \in BOOLEAN : FinishFails(c, done)
  \/ \E done \in BOOLEAN : PollFails(done)
  \/ \E l \in Leaders : BeginTurn(l) \/ BeginUserTurn(l) \/ Speak(l) \/ EndTurn(l)
  \/ \E l \in Leaders, t \in Tasks : CompleteTool(l, t)
  \/ Crash

Spec == Init /\ [][Next]_vars

\* The poll's timer, the daemon's answers (a call ends within its timeout), and
\* sessions that begin what is queued and end their turns.
Fairness ==
  /\ WF_vars(PollStep)
  /\ WF_vars(\E c \in finishing : FinishStep(c))
  /\ \A l \in Leaders : WF_vars(BeginTurn(l)) /\ WF_vars(EndTurn(l))

FairSpec == Spec /\ Fairness

-----------------------------------------------------------------------------
(* Properties *)

\* The types of the variables, and the shape of the poll's (inbox.js).
TypeOK ==
  /\ arrived \subseteq Envelopes
  /\ inbox \subseteq arrived
  /\ sent \subseteq Result
  /\ queue \in [Leaders -> Seq([ about : Envelopes, epoch : Nat ])]
  /\ turn \in [Leaders -> Outputs]
  /\ stopping \subseteq Leaders
  /\ owner \in [Work -> Leaders \cup {None}]
  /\ started \subseteq Work
  /\ output \in [Work -> Outputs]
  /\ epoch \in [Work -> Nat]
  /\ slots \in Seq({ Slot[p] : p \in Prompts })
  /\ finishing \subseteq Call
  /\ pc \in {"idle", "listed", "removing", "abortSend", "abortAck", "ackCancel", "status", "ackItem"}
  /\ items \subseteq arrived
  /\ current \in Envelopes \cup {None}
  /\ chosen \in Leaders \cup {None} /\ knowsSelf \in BOOLEAN
  /\ toolCalls \in Nat /\ faults \in Nat /\ crashes \in Nat /\ userTurns \in Nat

\* Some peer was sent a task_result (a chat_reply) for e.
Answered(e) == \E r \in sent : r.work = e

\* A task leaves the inbox only when its sender has been sent a result, through
\* failed calls, cancellations, concurrent finishes and crashes (finish and
\* handleCancellations send before they acknowledge).
AckedTaskAnswered == \A t \in Tasks \cap (arrived \ inbox) : Answered(t)

\* The calls that acknowledge a task, and the poll where it has told a sender
\* that the task is aborted, have a delivered result behind them; the poll never
\* acknowledges a task as the envelope it works on.  With AckedTaskAnswered this
\* is inductive.
AckFollowsResult ==
  /\ \A c \in finishing : c.work \in Tasks /\ c.stage = "ack" => Answered(c.work)
  /\ pc = "abortAck" => Answered(Target[current])
  /\ current \notin Tasks

\* A session never owns two unfinished tasks or chats, so that the turn that
\* ends is attributed to one of them and beginInboundTask never throws after
\* the entry is made (leader.js:113-116).
OneEntryPerLeader ==
  \A d, e \in Work : owner[d] # None /\ owner[d] = owner[e] => d = e

\* The types hold and every session has one owner of its turns at most.
Inv == TypeOK /\ OneEntryPerLeader

\* No session is busy with nothing: as long as no call has failed, the work it
\* owns waits in its queue, or is started and a turn runs whose end will finish
\* it, or is being finished.
EntryProgresses ==
  \A e \in Work : owner[e] # None =>
    \/ Waits(e)
    \/ e \in started /\ turn[owner[e]] # None
    \/ \E c \in finishing : c.work = e /\ c.epoch = epoch[e]
    \/ faults > 0

\* The slots of all prompts fit into the set.
SlotsSuffice ==
  LET all == { Slot[p] : p \in Prompts }
  IN  IsFiniteSet(all) /\ Cardinality(all) <= SlotCapacity

\* What the chat protocol claims (spec/mesh-chat-v1.md:54), which knows of no restart:
\* at most one prompt is answered for a (host, room, turn).
OneReplyPerSlot ==
  \A r, s \in sent :
    {r.work, s.work} \subseteq Prompts /\ Slot[r.work] = Slot[s.work] => r.work = s.work

\* It is so, whatever the order in which prompts arrive and are finished, as long as
\* the process lives and the set of slots has not overflowed (seenChatSlots is
\* kept in memory).
SlotAnsweredOnce == crashes = 0 /\ SlotsSuffice => OneReplyPerSlot

\* Every task that arrives is eventually answered, unless a call fails or the
\* process dies: no cancellation, chat or plain message keeps the poll from it.
TaskAnswered ==
  \A t \in Tasks : t \in arrived ~> (Answered(t) \/ faults > 0 \/ crashes > 0)

\* What the design claims (docs/p2p-design.md:144): only a crash makes a task
\* reach a Leader twice, so without one every task is activated at most once.
ActivatedOnce == crashes = 0 => \A t \in Tasks : epoch[t] <= 1

\* What the chat protocol claims (spec/mesh-chat-v1.md:54): the receiving
\* Harness emits at most one final reply to a prompt.
OneReplyPerPrompt ==
  \A r, s \in sent : r.work \in Prompts /\ r.work = s.work => r = s
=============================================================================
