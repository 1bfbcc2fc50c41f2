# deepseek-agent-mesh in TLA+

This directory holds a formal model of deepseek-agent-mesh, a peer-to-peer mesh
between Harness (agent) processes: a Rust daemon over libp2p
(`crates/agent-mesh`), a Harness plugin in JavaScript
(`packages/dsh-agent-mesh`) and a Watcher app in Swift (`apps/ios`). Modules are
translated from that source; paths below are relative to the repository's root,
`NW` is `crates/agent-mesh/src/network.rs`, `inbox.js` is
`packages/dsh-agent-mesh/inbox.js`. `PROJECT.json` holds the machine-readable
side: which definition stands for which lines, the runs, the mutants, the
hazards and the theorems.

To check one thing by hand: `tlc -config MCMailbox.cfg MCMailbox.tla`, or
`tlapm MailboxProofs.tla`.

## 1. Inventory

How the parts meet: a Harness plugin or an app talks to its *daemon* over a local
RPC socket. The daemon exchanges request/response messages with other daemons. An
envelope (task, result, cancellation, progress, message) that arrives is stored in the
daemon's *mailbox* before it is acknowledged. The plugin polls the mailbox, gives
tasks and chat prompts to its *Leader sessions* and sends results back as
envelopes. The Watcher polls its own mailbox and feeds chat replies into a
*room*. Objects (files) move between daemons' *stores* chunk by chunk.

| Component | State | Operations | Hard behaviour | What makes it correct |
|---|---|---|---|---|
| Mailbox (`mailbox.rs`, `envelope.rs`) | files `inbox/`, `.tmp`, `processed/` | put, list, ack | a put cut short at any system call, retransmission, listings that fail or stop at their limit, expiry | an ACK means the envelope is stored; none comes back; none is dropped unseen; none stays hidden while its reader takes what it is given |
| Leader inbox (`inbox.js`, `leader-tools.js`) | active tasks, chats, chat slots, the poll flag; session queues | poll, cancellations, turn end, explicit completion | every RPC call is an await: polls, finishes and sessions interleave; calls fail after they took effect; crashes | no task leaves unanswered; one owner per session; every task is answered in the end; one answer per chat slot |
| Chat room (`chat.rs`) | timeline, turn, open/closed | create, post, ingest, close | replies late, repeated, or at the exact budget | budgets, order, append-only |
| Watcher app model (`AppModel.swift`) | polls, processing ids, receipts | pollOnce, ingest, sendTask, sendMessage | two polls at once, a restart, acknowledgement after a failed call | what is acknowledged was ingested or could never be |
| Daemon loop and envelope delivery (`NW`, `protocol.rs`) | pending envelopes with deadlines, pending snapshots | send, inbound requests, housekeeping | the ACK races the 30 s deadline; `fetch` runs inside the loop and eats events; the daemon dies | success is only reported of what the peer stored; every call is answered |
| Object transfer (`NW`, `store.rs`) | store, served chunks, delete-pending | publish, fetch, GetChunk, TransferReceipt | fallback between providers, late receipts, bad copies, restarts | only verified content under an object's id; deletion only after a complete verified download |
| Directory and planner (`NW`, `planner.rs`, `model.rs`) | advertisements, inventories, routes, RTTs | gossip, snapshots, choose_best | stale advertisements, price windows, float comparison | the choice is the best within budget |
| Membership (`membership.rs`) | root, invitations, own certificate | create/resolve invite, admit, accept, authorize | one-time tokens against lost answers and restarts; a join beside a daemon that holds an older copy of the file | a token admits one peer; only the root and those it admitted are listened to; no membership is lost by accident |
| Leader provider (`leader-provider.js`, `tools.js`) | waiting runs | start, cancel, result loop | deadline, abort during send, lost results | a run ends once, with the result of its own task, and asks its peer to stop when it leaves |
| Leader bindings (`leader.js`) | sessions bound, inbound tasks, hop budgets | bind, begin/endInboundTask, complete | memory and file apart after a failed write | one inbound task per session |
| Mobile host (`mobile.rs`, `MeshBridge.swift`, `AppModel.swift`) | registry of running nodes, `control.json`, the bridge's handle, the app's tasks | start, call, stop; polls that stop and restart | start gives up before a join does; a poll restarts the bridge beside the user's stop; a daemon no longer takes calls; the app is killed | one node per directory; stop ends the node it was asked to end; no thread is lost |
| RPC client and control server | pending calls by id | call, time-out | a call times out after the daemon did its part | each answer reaches its caller |
| Others | | | harness service plugin, web plugin, iOS views, CLI and identity, packaging, libp2p | not modelled, see section 7 |

Every hazard in this code that the properties are aimed at is listed with its line in
`PROJECT.json` ("hazards").

## 2. Plan

Done, in this order: `DurableInbox` and `Mailbox`, `LeaderInbox`, `ChatRoom` and
`WatcherChat`, `Transfer`, each with its proofs; `Membership` with its proofs,
`MobileHost` on top of it, and `Delivery`, `DelegatedRuns` and `Delegation`; then the
proofs of every invariant that the runs check, and of the refinement of `DelegatedRuns`.

What is left, in this order:

1. Lemmas from which liveness would follow, stated as action properties: that a poll step
   uses up its listing (`LeaderInbox`), that a fetch moves on in its plan (`Transfer`), that a run's
   phases only lead to its end (`Delegation`).
2. Task receipts of `AppModel` (a result before the answer of its send, progress behind
   a result): a module `WatcherTasks` over `Delivery`, beside `WatcherChat`.
3. `choose_best` against "no candidate within budget is better", the table of
   advertisements without sequence comparison, and `bind` with its file.

## 3. Modules

| Module | Models | Used by |
|---|---|---|
| `DurableInbox` | abstract: what a durable inbox promises (accept once, settle once) | `Mailbox` refines it |
| `Mailbox` | `mailbox.rs` and the DeliverEnvelope arm of the daemon | `MCMailbox`, `MailboxProofs` |
| `LeaderInbox` | `inbox.js`, `leader-tools.js`, the task ownership of `leader.js` | `MCLeaderInbox`, `LeaderInboxProofs` |
| `ChatRoom` | `chat.rs`: the room alone, and the abstract specification of a Watcher | `WatcherChat` extends and refines it |
| `WatcherChat` | the chat path of `AppModel.swift` over mailbox and room | `MCWatcherChat`, `ChatProofs` |
| `Transfer` | object fetch, chunk and receipt handlers (`NW`) over `store.rs` | `MCTransfer`, `TransferProofs` |
| `Membership` | `membership.rs`, `join`, `resolve_join_hint` and the two handlers in `NW`, the processes of `main.rs` | `MobileHost` extends it; `MCMembership`, `MembershipProofs`, `AdmissionProofs` |
| `MobileHost` | `mobile.rs`, `MeshBridge.swift`, start and stop of `AppModel.swift` | `MCMobileHost`, `MobileHostProofs` |
| `Delivery` | the daemon's `send`, its pending envelopes, housekeeping, fetches in its loop, its death; the control call | `Delegation` extends it |
| `DelegatedRuns` | abstract: what delegating a task promises | `Delegation` refines it |
| `Delegation` | `leader-provider.js` over `Delivery` and the inbox | `MCDelegation`, `DelegationProofs` |

### Mailbox

`tmp`, `inbox`, `processed` are the files of one state directory. A put is `Put` (the
checks and `create_new`), `WriteTmp` (`write_all`, `sync_all`) and `Rename`;
`Interrupt` cuts it short anywhere by an error or a crash: the leftover
`.tmp` stays. `List(filter)` is the whole loop of `list`: temporary files sort first, a
torn or expired one fails the listing, expired envelopes are acknowledged on the way,
the loop stops at the limit. `CrashInList` is a death after some of those
acknowledgements. The daemon's loop is one thread and these calls block it, so
nothing else comes between. `expired` may grow at any time (`Expire`). What
an envelope says is left out; an id stands for it, ids are ordered as file names.

### LeaderInbox

The plugin is one JavaScript process: code between two awaits is one action.
`pc`/`items`/`current` are the poll (at most one runs: `polling`): `List`, then
`handleCancellations` (`CancelUnstarted`, `CancelRunning`, `CancelPending`,
`CancelUnknown`, with their sends and acknowledgements), then dispatching
(`DispatchPrompt`, `RejectPrompt`, `AckOtherChat`, `DeliverNote`, `DispatchTasks`). The first poll that finds a
prompt asks the daemon for its peer id (`AskStatus`) between choosing a Leader and giving it
the prompt (`chosen`, `knowsSelf`). `finishing` holds
the `finish` and `finishChat` calls in flight, each at its send or its
acknowledgement. `FinishFails(c, done)` and `PollFails(done)` are a call that fails;
`done` says whether the daemon had already done its part, as it has when the RPC
client times out. `Crash` forgets everything but the daemon's state. Sessions are
external and modelled from how the plugin uses them: they begin queued
messages (`BeginTurn`), run turns of their users (`BeginUserTurn`), write
(`Speak`) and end (`TurnEnds`). A session's inbound task (`leader.js`) is the active
entry it owns, so it has no variable of its own.

Left out: the contract checks of `validChatPrompt` (prompts are valid), a
`followup` that throws, TTL expiry and the limit of 100 of the listing (see Mailbox),
the text and stop reason of a result, the `mesh_reply` tool (which acknowledges an inbox id of its
caller's choice), and the unloading of the plugin. The listing is a set: an order is not
assumed.

### ChatRoom and WatcherChat

`ChatRoom` has the reducer: `Post`, `Ingest` (with `Addressed`, `Has`, `WithinBudget` for
the early returns of `apply_reply`), `Close`. A reply's text is a member of
`Replies`; `validate_body` is taken as passed. `WatcherChat` adds the mailbox and any
number of polls, each working from its own listing with one call in flight
(`stage`); `processing` is `processingEnvelopeIDs`. The acknowledgement follows
whatever the ingestion answered, as in `ingest`.

### Transfer

One object. `fetch[n]` is the call of `get_with_node` a daemon runs inside its event
loop: discover (`Learn`, `Plan` or `NoProvider`), then each chunk from the providers
in the plan's order (`ReceiveChunk`, `NextProvider`), then the digest
(`Deliver`) and the receipt (`ReceiveReceipt`). While it waits it goes on
answering (`Answer`), but with `allow_source_delete = false` (`MayDelete`).
`GivesUp` is the 30 s time-out or an outbound failure; the request may be handled
later (`AnswerLate`). `Restart` forgets `served_chunks` and the fetch. Any order
of any of the peers found may be the plan: prices and speeds are the planner's
business. `damaged` are copies that went bad on disk before the start, with any choice
checked. Left out: local disk errors in the middle of a fetch, copies of another size
(a bad copy has the right number of chunks), the export path.

### Membership

`disk[p]` is `membership.json` (its certificate), `grants[p]` is `invites.json`, and a process is a
record: what it was started as (`join` of the command line, `daemon`, or the phone's thread,
which does both), with which network and ticket, how far it is, and the membership its
manager read *when it was opened*. That copy, beside the file that another process
may write, is the point of the module. `Launch` holds everything a start does before its
first await (opening the manager, choosing the network, verifying the ticket),
`Resolve` and `AnswerJoin` are a request and its handler in one step, `GiveUp` is a time-out, a
failure or a kill: the request may be handled later (`AnswerLate`), by whichever process
of the issuer runs then. `Accept` verifies the answer and replaces the file;
`Invite` is `create_invite` with `ensure_root`. A token stands for the secret and its hash;
signatures are sound: a certificate is its content, and who signed it is a field. To read, change and
write `invites.json` is one step (`Admit`, `Invite`): within a process nothing comes between, and of
two processes on one directory, which the code does not lock against each other, the model leaves that
race out.

### MobileHost

The threads of the phone are processes of `Membership`, so a start really joins. `registry` is
`NODES`, `control` the thread whose daemon `control.json` leads to, `handle` the bridge's, `deaf` are the
daemons whose control server has ended (`accept` failed). `task[c]` is what a task of the app is about
to do: the user's start or stop (`User`; `isTransitioning` is that it is not idle) and any number of
polls: the timer's, those of a refresh, and the one a start ends with, which belongs to `User`.
A start is `Start`, then `Refused`, `SpawnFails` or `Spawn` (the check of the registry, the removal of
the old control file, the thread), then `StartSucceeds`, `StartFails` or `StartTimesOut`, then `Show`. A poll whose
call finds no daemon (`PollFails`) goes through the same stop as the user's, one step for each
point where others may come between: `TakeHandle`, `Unregister`, `Tell` (read the control file), `Handled`
(the daemon it leads to ends, or nobody takes the call), `Joined`, `Stopped`. A shutdown call that fails is
followed by the join all the same. After its stop a poll takes it that nothing runs and starts
again, without having set `isTransitioning`; a stop of the user that fails changes nothing.
`AppKilled` takes the threads with it and leaves the files and the settings; `SocketLost` and `Panic` are what
may become of a daemon.

### Delivery and Delegation

`call[c]` is a call of `send` with its envelope: queued, pending, answered. `wire[c]` is the request, or
what the loop will hear of it; `adrift` are requests that failed at the sender and may
yet arrive. `Hear`, `Expire` (housekeeping) and `TakeSend` need a free loop; during a
fetch only `Swallow` happens. `Die` fails the calls in progress.

`Delegation` adds the runs of `MeshLeaderProvider`. `phase[r]` is the await a run stands
at: the send, the pause of the result loop, `inbox.list`, `inbox.ack`, or the
cancellation. `query[r]` is its call to the mailbox. `Loop` is the condition of the loop
(list, wait for the cancellation, leave at the deadline), `ListAnswered`, `AckAnswered` and
`QueryFailed` what it does with an answer, `Cancel` an abort or dispose, `CallLost` the client's 35 s. The
peer is external: it answers a task it has, maybe never, maybe after it was
cancelled; another peer that has heard of a task may name it in a result too (`<<r, 0>>`, for the runs
of `Named`), which is not its answer. `TakeList` takes any listing of the limit's size, for names are random, and
`MailboxFails` is a listing or an acknowledgement that fails. One assumption
about JavaScript is in it: the continuation of a call that was answered
runs as one step, and not interleaved with itself.

The variables under "history" (`acked`, `seen`, `verified`, `receipts`,
`answered`, `abandoned`, `refused`, `admitted`, `lost`, `left`, `raced`) are read by properties only.

## 4. Runs

| Run | States | Question | Bounds |
|---|---|---|---|
| `mailbox` | 14 553 | Is an acknowledged envelope stored once, never offered again, never dropped unseen, eventually offered unless something hides it for good? Do the files implement `DurableInbox`? | 3 envelopes, of which the reader takes the first and the last, listings of 1, two filters: enough for one envelope sorted behind another that is taken, or that is not, a torn file before it, and one that the filter leaves out |
| `mailbox_torn` | violation | Does `Ok` mean durable? No, see section 6 | same |
| `leader_tasks` | 233 040 | Does a task leave only answered; is any Leader busy with nothing? | 2 Leaders, 1 task, its cancellation, a stranger's cancellation, 1 explicit completion, 1 failed call, 1 crash |
| `leader_chats` | 389 530 | Is a session's turn attributed to one entry; is a chat slot answered once? | 2 Leaders, 1 task, 2 prompts for one slot, 1 turn of a user |
| `leader_live` | 115 428 | Is every task answered in the end? | 1 Leader for 2 tasks, a cancellation, a prompt and a plain message, so that they compete |
| `leader_twice` | violation | Is a task activated once when nothing crashes? No | 1 Leader, 1 task, 1 cancellation |
| `leader_replies` | violation | Is one reply sent per prompt? No | 1 Leader, 1 prompt, 1 turn of a user |
| `watcher_chat` | 3 661 962 | Does the room keep its contract under two overlapping polls; is a reply dropped that the room would take? | 2 polls (interchangeable, so symmetric), 4 replies of 3 peers of whom one answers twice, 2 turns, 2 responders, 4 messages: replies are refused for the responders of a turn and for a repeated Leader; the room's total never decides alone here, which `RoomInvariance` and `WatcherInvariance` cover for any contract; 1 fault |
| `transfer` | 165 111 | Does a bad copy spread; when is a copy deleted; is what a fetch believes of its peers still true; does it end? | 3 nodes, 2 chunks (so they can come from different providers), 2 fetches, 2 faults (a request given up on and a restart, or two of a kind) |
| `membership` | 840 435 | Does a token admit one peer; who is listened to; does an answer fit its ticket (`JoinsMatch`); when is an admission in vain; when is a membership replaced? | 3 peers of whom 2 invite (so 2 roots), 2 networks, 2 tokens (interchangeable, so symmetric), a peer with two processes at once, 4 launches, times 0 to 2 with invitations that last 1 and certificates that last 2: each can expire while a join is under way |
| `mobile_host` | 608 974 | Is a thread ever lost; can two daemons work on the phone's directory, and from when on; does each stop tell the daemon whose thread it joins; do starts and stops end? | one founder, 2 threads, 1 token, 4 launches (the founder and three starts, so that a start that fails or is left is followed by others), one poll beside the user's start or stop, which polls too: two stops of the bridge overlap. Tickets do not expire here; that a join may fail is in it by the spent token |
| `delegation` | 395 271 | Does a run take only its own result, end once, end at all; is it ever told a lie by `send`; does it cancel what it leaves? | 2 runs, one of them with a caller that aborts, listings of 1 (so a result that nobody waits for crowds out the other), 1 result per task and one that another peer sends in the name of the first, 1 fetch or death of the daemon; any number of restarts, lost answers, late requests and failing mailbox calls. Two answers of one peer, and a fetch with a death, are left to `Refinement` and `Invariance` of `DelegationProofs`, which hold for any number |

Every passing property has a mutant in `PROJECT.json`: a small change of the modelled
code (an operator marked "Mutant" beside the definition it replaces) under which TLC
finds the property violated, so that no property holds by the shape of the model.

`CHECK_DEADLOCK FALSE` is set in the configurations of `LeaderInbox`, `Transfer`, `Membership`,
`MobileHost` and `Delegation`: arrivals, turns, fetches, launches, runs and faults are bounded, and when
they are used up these systems come to rest.

Exceptions stated inside properties, and why. `SlotAnsweredOnce` holds while the process
lives and the slot set has not overflowed: the code keeps the set in memory and bounded.
`EntryProgresses` holds as long as no call failed: see the finding on
`inbox.js:306`. `DroppedStaysRejected` leaves out replies whose `chat.ingest` failed in
transport: the code acknowledges those. `CopySurvives` leaves out receipts that were
given up on: one that is handled long after is as good as a fresh one to
the provider, which does not know whether its sender still has the copy.
`AdmissionNotWasted` leaves out tokens whose invitation has expired, because `accept` verifies
the ticket again, and lost messages, because the token is marked used before the answer goes out.
`HostInv` accounts for every thread always, and says of one daemon, its control file and its stops what holds until
a start goes on beside a live thread (`raced`): finding 8 is how that comes about.
`CallsEnd` leaves out a stop that joins a thread whose daemon has gone deaf, or, once `raced`, whose end another daemon was told.
`LeftIsCancelled` is about runs that were aborted or ran out of time; one that ends by a failed
call sends no cancellation. `EventuallySeen` leaves out a leftover of an interrupted put, which blocks every
listing, and an envelope that is hidden for good behind a full listing of others that nobody takes (`Hidden`).

## 5. Fairness

- `Mailbox!FairSpec`: the daemon finishes a put it has begun (it is synchronous code), the reader's
  timer keeps listing without a filter, and the envelopes it takes (`Taken`) are acknowledged. Which those
  are depends on the reader: the Watcher app acknowledges all it lists; `inbox.js` acknowledges
  cancellations always, chats, messages and tasks only with a free Leader, results, progress
  and what it cannot correlate never. Of the others nothing is assumed, so `EventuallySeen` promises an
  envelope only if it is not hidden behind a full listing (1 in the run, 100 in the code) for good.
- `LeaderInbox!FairSpec`: the poll's timer and its calls go on (each RPC call ends, by answer or
  time-out), a finish goes on, and a session begins what is queued and ends its
  turns. Failures, crashes, users' turns and explicit completions are not fair.
- `Transfer!FairSpec`: a daemon's loop takes its next step and handles a request
  that reached it, its own fetch included. The code also bounds every request by
  30 s; `FetchEnds` is checked without counting on that, which is the
  stronger statement: daemons that fetch from each other in a circle do not
  wait for each other's time-out.

- `MobileHost!FairHostSpec`: start's loop has its deadline and the calls of a stop or of a poll in it go on.
  Nothing is assumed of the threads, which may join the network for ever or go deaf, nor of polls: `CallsEnd`
  must not depend on a thread that ends by itself.
- `Delegation!FairSpec`: the daemon's loop takes its commands and keeps house, a fetch
  ends (that is `FetchEnds` of `Transfer`), the mailbox calls are taken, the provider's continuations run, and
  time passes (strong fairness for the deadline, since it is looked at only between two
  listings). Nothing is assumed of the network, the peer, or a daemon that is down: the
  calls to it fail at once, and those it had taken fail with it.

`Membership` is checked for safety only: whether a join succeeds is up to the network.

## 6. Findings

1. `mailbox.rs:47`: a put that was interrupted leaves `.{id}.tmp`; the retransmission's
   `create_new` fails on it, put returns `Ok` and the daemon acknowledges an envelope that
   is not in `inbox/` (run `mailbox_torn`). What the code does keep is proved:
   every `Ok` is backed by some file of that envelope, if only a torn one.
2. `inbox.js:178`: the poll dispatches from the listing it made before the awaits of
   `handleCancellations`; a task that was finished or cancelled meanwhile is
   activated (again) without any crash (run `leader_twice`).
3. `inbox.js:104`: a second turn that ends while `finishChat` awaits sends a second reply to
   the same prompt (run `leader_replies`).
4. `chat.rs:145`: replies for earlier turns are accepted, where the chat
   specification says stale turns are rejected. The model follows the code.
5. `inbox.js:158`: with two Leaders the prompt of a chat in progress can be acknowledged as an
   unsupported chat message.
6. `inbox.js:306`: a `finish` that fails after the queued message was removed leaves an entry
   no turn will finish: the Leader counts as busy until another cancellation or a
   restart. This is why `EntryProgresses` has its `faults > 0` disjunct.

7. `inbox.js:19`: `seenChatSlots` is kept in memory, so after a restart a second prompt of a slot is answered
   too, where `spec/mesh-chat-v1.md:54` accepts at most one prompt per slot without exception. As an
   invariant of a run with `Prompts = {p1, p2}` and `MaxCrashes = 1`, `OneReplyPerSlot` fails:
   the reply is sent, the process dies, the second prompt is dispatched.
   `SlotAnsweredOnce` says what does hold.
8. `AppModel.swift:288`: the recovery of `pollOnce` stops the bridge without `isTransitioning`. Two polls find
   that the daemon no longer takes connections; the first stop unregisters the node and waits for its thread,
   the second finds no node and fails at once (which `try?` ignores), and the app starts again: a second daemon
   runs on the state directory beside the first, where `network.rs:1277` says that the daemon
   exclusively owns identity and Swarm. `ExclusiveOwner` as an invariant of `MCMobileHost.cfg` shows it in 16
   states, no start having timed out.

Findings 4 to 8 have no run of their own.

Observations made while modelling the newer parts; the models follow the code, and the properties
except them where section 4 says so:

- `mobile.rs:281`: the phone's daemon is started with the network of its settings, which
  `node_options(None)` prefers to that of its membership. After a join of a network of another
  name the start fails, and so do the later ones, until the settings are changed;
  `apps/ios/README.md:32` says the app reconnects after a successful join. A code in
  the short form is resolved before the membership is looked at, so a code that has
  been used makes a later start with it fail.
- `mobile.rs:297`: start gives up after 15 s, a join may take longer. The thread goes on
  unregistered; the next start may run a second daemon on the same directory, and may take the
  old thread's daemon for its own. `stop` then ends the one daemon and waits for the other thread.
- `MeshBridge.swift:43`: a stop forgets whatever handle the bridge has when it returns. If another task has started
  a node meanwhile, that node stays registered and the bridge has no handle of it: no stop reaches it, polls
  fail with "not running", and every start is refused until the app is launched again. `HostInv` only says that
  such a thread is still registered.
- `membership.rs:411`: `ensure_root` looks at the manager's copy. A daemon without a membership that
  ran while its peer joined from the command line founds a network of its own with the next
  invitation, over the membership of the join. `MembershipKept` says this is the only way.
- `membership.rs`: `accept` verifies the expiry of the ticket once more, after the issuer
  has spent the token: a request answered just before the expiry is in vain.
- `leader-provider.js:124`: a start that is aborted, or whose send is answered with a failure after the peer
  stored the envelope, leaves a task nobody waits for or cancels.
- `mailbox.rs:71`, `leader-provider.js:153`: results, progress messages and envelopes that `inbox.js` correlates with nothing stay in the
  inbox until they expire. A hundred of them that sort first hide every other envelope from its listings;
  `EventuallySeen` excepts this.
- `leader-provider.js:174`: a listing or an acknowledgement that fails ends the run without a
  cancellation, and a result acknowledged by a call that then failed is lost to the caller.
- `packages/mesh-rpc/src/index.js`: the client does not notice a connection that is closed, so
  a caller waits its full 35 s for a daemon that died.

## 7. Not modelled

The harness service plugin, web plugin and iOS views are forwarding and rendering without protocol
state. The CLI (but for what it does to join and to run the daemon, see `Membership`), identity and packaging are pure I/O. libp2p, cryptography and JSON
are external: a request is handled, handled late, or not at all; a digest matches exactly
when the content is right, a signature exactly when its signer made it.

Parts of modelled components that are left out: `selectLeaderPeer` and the hop budget (queries before the first
change of state), `normalizeResult`, the tools of `tools.js` (`mesh_task` has a result loop of its own, `mesh_reply` acknowledges what it is
told to), the Watcher's task receipts, `bind` with its file, the table
of advertisements, and `choose_best`, whose costs are floating point numbers: `Transfer` takes any
order of any of the peers found as its plan, which holds for every planner. Of the control server the
token, the framing and the size limits are left out; of the tickets their encodings.

## 8. Proofs

All theorems hold for every value of the constants under the named assumptions of the modules (ids
are numbers, limits are positive, sets of ids are disjoint, a cancellation targets a
task). TLC evaluates those assumptions on every run.

- `MailboxProofs` (assumes `IdsAssumption`, `LimitAssumption`, `FiltersAssumption`): `Invariance`
  (`Spec => []Inv`). That nothing is dropped unseen alone says nothing of puts, and that
  an envelope has one file needs `PutOwnsTmp` (a put in progress owns its temporary
  file, so its rename cannot double an envelope stored meanwhile); `AckedHasFile`
  is what remains of the durability promise after finding 1. `Refinement` (`Spec => DurableInbox!Spec`)
  follows from it: each step maps to an abstract step or a stutter.
- `LeaderInboxProofs` (assumes `DisjointAssumption`, `CancelAssumption`, `BoundAssumption`; the slot set
  holds at least one, 1 024 in the code): `TaskAnsweredBeforeAck`. `AckedTaskAnswered` is not inductive:
  a call that is about to acknowledge must have a result behind it. `AckFollowsResult` adds
  that for finishes and for the poll, with the shape of calls; together they are inductive over
  every action including failures and crashes. `OneEntry`: a session owns at most one
  unfinished entry; only dispatching makes entries, and it takes free Leaders, distinct ones, of which the
  one chosen for a prompt stays free over the status call, for only a poll gives work (`ChoiceKept`).
  `LeaderInvariance` adds the types, for which calls and results must be finitely many
  (`CallsFinite`: a call is given a number no other call for its envelope has, and `FreshCallFound` needs the
  pigeonhole principle to know there is one) and the poll that tells a sender
  "aborted" must work on a cancellation (`AbortsCancel`). `EveryEntryProgresses` follows an entry from
  its queue to its turn to the call that finishes it: it rests on `OneEntryPerLeader` (the turn
  that ends finishes the one started entry of its session, and not another) and on
  `Removed` (what `inbox.remove` takes out of a queue is the cancelled task's message and no other's).
  `OneAnswerPerSlot`: `SlotsTaken` says that whatever is owned, being finished or
  replied to was dispatched, and that the slots of what was dispatched are all still in the
  set, each once; then a prompt for a taken slot is never dispatched. That nothing was
  forgotten is the pigeonhole principle again (`SlotsHaveRoom`): a set that
  holds each slot once and lacks one is not full.
- `ChatProofs`: `RoomInvariance` (budgets, order, prompts posted, for any contract).
  `NoReplyDropped`: rejection is final (`RejectionIsFinal`: a reply the room rejects now
  it rejects after every step of the room), so a reply that was ingested and awaits
  acknowledgement is either in the timeline or lost for good anyway
  (`IngestedOrRejected`, the strengthening). `RoomRefinement`: polls, listings and mailbox only
  ever take steps of the room. `TimelineGrows`: `[][A]_vars` from the same invariant.
  `WatcherInvariance`: two polls never work on one reply; needs that a poll is idle exactly when it holds
  no reply (`IdleHoldsNothing`), or one could begin with a second reply and leave the first in
  `processing`.
- `TransferProofs` (assumes `NodeAssumption`, `CountAssumption`): `Invariance`: a bad copy
  does not spread; what counts as served was really sent to that peer
  (`ServedAnswered`); every receipt under way, a late one too, was sent after its sender verified the
  copy (`ReceiptsSent`). The last two are what makes `DeletionNeedsReceipt`
  (`Spec => DeletionJustified`) go through: a copy leaves a store only in the handling of a
  receipt, and there the guard speaks of `served_chunks` while the promise speaks of
  what happened. `FetchMatching`: a fetcher learns and asks while its peers delete, so what it
  has been told may be out of date; `LearnsTruly` and `AsksTruly` say what of it stays true
  through every step (a provider it counts on has the object or has deleted it; an answer without
  a chunk means it was deleted). `CopyBehindReceipt` is why copies survive: a node that waits for its
  receipt holds a verified copy and deletes nothing, since `request_once` answers with
  `allow_source_delete = false`; so the deletion that a receipt causes always leaves the copy of its
  sender. `SomeCopySurvives` and `FailureHasReason` follow.
- `MembershipProofs` (assumes `PeopleAssumption`, `BoundAssumption`, `NoneAssumption`): `Invariance`.
  `SingleUse` alone is not inductive: that a second redemption is refused needs that an unused
  grant has admitted nobody and that a token has one grant and one ticket (`GrantsMatch`),
  for a used grant is forgotten by the next invitation; `CertificatesSigned` follows every
  certificate from the signature through answers, managers and files. The proof takes the
  invariant apart into what it says of one process, of the files, and of invitations
  (`InvParts`), so that an action has to show only what it disturbs. `TokenSingleUse` and
  `OnlyAdmitted` are consequences; `MembershipIsKept` goes through the two actions that write the file.
- `AdmissionProofs` (assumes in addition `TtlAssumption`: an invitation does not outlive the
  certificates; `membership.rs:269` clamps it to a day, a certificate lasts a year,
  `membership.rs:15`): `JoinsMatching`. `JoinsMatch` says that a root stays with one network (a peer runs one
  daemon at a time, and whoever founds a network finds none of its own), so every
  ticket of it is for that network, and an answer under way carries the certificate that was asked
  for. `NotWasted` needs it: when the answer of a spent token arrives, `accept` can refuse it
  only because the ticket has expired, so an admission that is neither lost nor in
  the joiner's file is still under way to the process that presented that token.
- `MobileHostProofs` (assumes `PhoneAssumption`, `UserAssumption`, and what `MembershipProofs` does): `HostInvariance`, for
  any number of threads and polls. `HostInv` is inductive: that no two threads work on one directory
  (`Reached`) goes through a start only because each live thread is accounted for (`Accounted`): a start that passes the
  registry beside one sets `raced`, and otherwise finds none alive; and that a stop
  reaches the daemon whose thread it joins needs that, while there is one live thread, the control file leads to
  its daemon. Each step of a task shows where it leads and what it does to registry, control file and
  threads; the steps of the other peers touch no thread of the phone. `HostMembership`: the membership
  invariant with the phone among the peers, whose threads join and serve in one process and may be killed, and may panic, between
  any two steps.
- `DelegationProofs` (assumes `RunsAssumption`, `FaultAssumption`): `Invariance`. Success of a send means that the
  peer stored the envelope (`SuccessMeansStored`), for every order of acknowledgement, deadline, swallowed event and
  death; `RunsMatch` ties the phase of a run to its two sends, its call to the mailbox and the
  results, run by run (`RunMatches`), so that a step of one run shows nothing about the others.
  `CancelBehindTask`: a cancellation leaves only behind a task that was reported stored.
  `LeavingCancels`: a run that was aborted or timed out has its cancellation sent, whichever
  way it left the loop. `Refinement` (`Spec => ImplementsRuns`): taking a result out of the inbox is the
  abstract step in which a run takes one of its own (`AnswersTo`: of the peer it asked), reporting it the one that ends the run,
  all others stutter.

Every invariant and every action property that a passing run checks is proved, and so are both
refinements. Only model-checked are the liveness properties `EventuallySeen`, `TaskAnswered`, `FetchEnds`,
`CallsEnd`, `SendsAnswered` and `RunsEnd` (fairness is out of the prover's reach here), and that the three
violated claims of section 6 are violated. No module declares a recursive operator; the
removal of a queued message is written with `RemoveAt` and not with `SelectSeq`, of which the prover
knows nothing, and says the same, for a message is queued once.
