----------------------------- MODULE MobileHost -----------------------------
(***************************************************************************)
(* The phone: a native app that runs the daemon on a thread of its own.    *)
(* start, call and stop of mobile.rs with its registry NODES, the file     *)
(* control.json by which they find the daemon, MeshBridge.swift, and       *)
(* start, stop and pollOnce of AppModel.swift.  The thread is a process of *)
(* Membership: it joins the network if it must, and goes on as the daemon. *)
(*                                                                         *)
(* The app's tasks interleave wherever they await.  isTransitioning keeps  *)
(* the user's start and stop apart, but a poll that finds no daemon stops  *)
(* the bridge and starts it again without it, and any number of polls may  *)
(* be under way: one of a timer, those the user asks for, and the one a    *)
(* start ends with.                                                        *)
(***************************************************************************)
EXTENDS Membership

CONSTANTS
  Phone,      \* the peer of the phone
  Entered,    \* bound: the networks its user enters in the settings
  Polls,      \* bound: the polls that may be under way
  User        \* the task of the start or the stop under way, at most one

ASSUME PhoneAssumption == Phone \in Peers /\ Entered \subseteq Networks /\ None \notin Procs
ASSUME UserAssumption == User \notin Polls

VARIABLES
  registry,   \* NODES: the threads that are registered; a handle is its thread
  control,    \* control.json: the thread whose daemon wrote it, or None
  deaf,       \* the threads whose control server has ended
  task,       \* task[c]: what the app's task c is about to do
  running,    \* AppModel.isRunning
  handle,     \* the handle in MeshBridge, or None
  autoConnect,\* the setting "operatorAutoConnect"
  left,       \* history: the threads whose start timed out
  raced       \* history: a start went past the registry beside a live thread

appVars == <<registry, running, handle, autoConnect, left, raced>>
hostVars == <<appVars, control, deaf, task>>
allVars == <<vars, hostVars>>

Threads == { k \in Procs : Owner[k] = Phone }
Desktops == Procs \ Threads
Callers == Polls \cup {User}
Alive(k) == proc[k].phase # "off"
Daemon(k) == proc[k].phase = "daemon"

Stages == {"idle", "spawn", "start", "show", "calls", "stop", "unregister", "shutdown",
           "told", "join", "stopped"}

\* A task: its next step, whether that belongs to a poll, the thread it starts or
\* stops, the daemon it tells to end, and whether that has gone well.
AppTask ==
  [ at : Stages, polls : BOOLEAN, thread : Threads \cup {None}, target : Threads \cup {None},
    ok : BOOLEAN ]

Task(at, polls, thread) ==
  [ at |-> at, polls |-> polls, thread |-> thread, target |-> None, ok |-> TRUE ]
Idle == Task("idle", FALSE, None)

\* isTransitioning.
InTransition == task[User] # Idle

Becomes(c, t) == task' = [task EXCEPT ![c] = t]

InitHost ==
  /\ Init
  /\ registry = {} /\ control = None /\ deaf = {} /\ task = [c \in Callers |-> Idle]
  /\ running = FALSE /\ handle = None /\ autoConnect = FALSE
  /\ left = {} /\ raced = FALSE

\* The control server of the daemon k takes a connection.
Listens(k) == k # None /\ Daemon(k) /\ k \notin deaf

\* A thread that gets as far as the daemon writes its control file.
WritesControl(k) ==
  control' = IF ~Daemon(k) /\ Daemon(k)' THEN k ELSE control

-----------------------------------------------------------------------------
(* Start *)

\* AppModel.start, tapped by the user or called when the app is launched; ignored
\* while the app runs, starts or stops.
Start ==
  /\ ~running /\ ~InTransition
  /\ Becomes(User, Task("spawn", FALSE, None))
  /\ UNCHANGED <<vars, appVars, control, deaf>>

\* Mutant: the old control file goes before the registry is looked at.
RefusedLate ==
  /\ task[User].at = "spawn" /\ registry # {}
  /\ control' = None
  /\ Becomes(User, Idle)
  /\ UNCHANGED <<vars, appVars, deaf>>

\* start of mobile.rs is refused if a node is registered.
Refused ==
  /\ task[User].at = "spawn" /\ registry # {}
  /\ Becomes(User, Idle)
  /\ UNCHANGED <<vars, appVars, control, deaf>>

\* The app still refers to the thread k.
InUse(k) == k = handle \/ \E c \in Callers : k = task[c].thread \/ k = task[c].target

\* A start goes on, whatever is still alive.
Passes == raced' = (raced \/ \E k \in Threads : Alive(k))

\* Otherwise the old control file goes, and a new thread is spawned.
Spawn(k, config, code, short) ==
  /\ task[User].at = "spawn" /\ registry = {}
  /\ k \in Threads /\ ~InUse(k)
  /\ Launch(k, "phone", config, code, short)
  /\ control' = IF Daemon(k)' THEN k ELSE None
  /\ Becomes(User, Task("start", FALSE, k))
  /\ Passes
  /\ left' = left \ {k} /\ deaf' = deaf \ {k}
  /\ UNCHANGED <<registry, running, handle, autoConnect>>

\* The system gives no thread.
SpawnFails ==
  /\ task[User].at = "spawn" /\ registry = {}
  /\ control' = None
  /\ Becomes(User, Idle)
  /\ Passes
  /\ UNCHANGED <<vars, registry, running, handle, autoConnect, left, deaf>>

\* A daemon answers the status call, whichever it is: the new thread is registered
\* and the bridge has its handle.
StartSucceeds ==
  /\ task[User].at = "start"
  /\ Listens(control)
  /\ registry' = registry \cup {task[User].thread}
  /\ handle' = task[User].thread
  /\ Becomes(User, Task("show", FALSE, None))
  /\ UNCHANGED <<vars, control, deaf, running, autoConnect, left, raced>>

\* The thread has ended: it could not join, or open what it has.
StartFails ==
  /\ task[User].at = "start"
  /\ ~Alive(task[User].thread)
  /\ Becomes(User, Idle)
  /\ UNCHANGED <<vars, appVars, control, deaf>>

\* Mutant: the deadline is looked at once the thread has ended.
NoDeadline == StartFails

\* After 15 s without an answer start returns, and the thread goes on.
StartTimesOut ==
  /\ task[User].at = "start"
  /\ Alive(task[User].thread)
  /\ Becomes(User, Idle)
  /\ left' = left \cup {task[User].thread}
  /\ UNCHANGED <<vars, control, deaf, registry, running, handle, autoConnect, raced>>

\* The app shows that it runs, and polls before the start is over.
Show ==
  /\ task[User].at = "show"
  /\ running' = TRUE /\ autoConnect' = TRUE
  /\ Becomes(User, Task("calls", TRUE, None))
  /\ UNCHANGED <<vars, control, deaf, registry, handle, left, raced>>

-----------------------------------------------------------------------------
(* Polls *)

PollOnce(q) ==
  /\ running /\ task[q] = Idle
  /\ Becomes(q, Task("calls", TRUE, None))
  /\ UNCHANGED <<vars, appVars, control, deaf>>

\* Its calls are through, or one has failed in another way.
PollEnds(c) ==
  /\ task[c].at = "calls"
  /\ Becomes(c, Idle)
  /\ UNCHANGED <<vars, appVars, control, deaf>>

\* A call finds no handle, no control file, or nobody at its address.
FindsNoDaemon == handle = None \/ (handle \in registry /\ ~Listens(control))

\* The poll is going to stop the bridge.
PollFails(c) ==
  /\ task[c].at = "calls" /\ FindsNoDaemon
  /\ Becomes(c, Task("stop", TRUE, None))
  /\ UNCHANGED <<vars, appVars, control, deaf>>

-----------------------------------------------------------------------------
(* Stop *)

\* AppModel.stop, tapped by the user.
Stop ==
  /\ running /\ ~InTransition
  /\ Becomes(User, Task("stop", FALSE, None))
  /\ UNCHANGED <<vars, appVars, control, deaf>>

\* MeshBridge.stop: a bridge without a handle has nothing to stop.
TakeHandle(c) ==
  /\ task[c].at = "stop"
  /\ Becomes(c, Task(IF handle = None THEN "stopped" ELSE "unregister", task[c].polls, handle))
  /\ UNCHANGED <<vars, appVars, control, deaf>>

\* stop of mobile.rs takes the node out of the registry before it tells the
\* daemon.  Without the node it fails, and the bridge forgets its handle.
Unregister(c) ==
  /\ task[c].at = "unregister"
  /\ IF task[c].thread \in registry
       THEN /\ registry' = registry \ {task[c].thread}
            /\ Becomes(c, Task("shutdown", task[c].polls, task[c].thread))
            /\ UNCHANGED handle
       ELSE /\ handle' = None
            /\ Becomes(c, [Task("stopped", task[c].polls, None) EXCEPT !.ok = FALSE])
            /\ UNCHANGED registry
  /\ UNCHANGED <<vars, control, deaf, running, autoConnect, left, raced>>

\* The stop of c goes on to join the thread, its call having failed or not.
Joins(c, ok) == Becomes(c, [Task("join", task[c].polls, task[c].thread) EXCEPT !.ok = ok])

\* The shutdown call reads the control file, if there is one.
Tell(c) ==
  /\ task[c].at = "shutdown"
  /\ IF control = None
       THEN Joins(c, FALSE)
       ELSE Becomes(c, [task[c] EXCEPT !.at = "told", !.target = control])
  /\ UNCHANGED <<vars, appVars, control, deaf>>

\* Mutant: the daemon answers the shutdown call and goes on.
GoesOnAfterAnswer(c) ==
  /\ task[c].at = "told"
  /\ Joins(c, TRUE)
  /\ UNCHANGED <<vars, appVars, control, deaf>>

\* The daemon that the file leads to removes the control file there is and ends;
\* or nobody takes the call.
Handled(c) ==
  /\ task[c].at = "told"
  /\ IF Listens(task[c].target)
       THEN Shutdown(task[c].target) /\ control' = None
       ELSE UNCHANGED <<vars, control>>
  /\ Joins(c, Listens(task[c].target))
  /\ UNCHANGED <<appVars, deaf>>

\* stop joins the thread whatever came of the call, which also fails if the daemon's
\* runtime ended before the answer was written, and the bridge forgets the
\* handle it has now.
Joined(c) ==
  /\ task[c].at = "join" /\ ~Alive(task[c].thread)
  /\ handle' = None
  /\ \E ok \in {task[c].ok, FALSE} :
       Becomes(c, [Task("stopped", task[c].polls, None) EXCEPT !.ok = ok])
  /\ UNCHANGED <<vars, control, deaf, registry, running, autoConnect, left, raced>>

\* The app hears of it.  A poll takes it that nothing runs, whatever was thrown,
\* and starts again if the user had; a stop that has failed changes nothing.
Stopped(c) ==
  /\ task[c].at = "stopped"
  /\ running' = (running /\ ~task[c].polls /\ ~task[c].ok)
  /\ autoConnect' = (autoConnect /\ (task[c].polls \/ ~task[c].ok))
  /\ task' = [task EXCEPT ![c] = Idle,
                ![User] = IF c # User /\ autoConnect /\ ~InTransition
                            THEN Task("spawn", FALSE, None)
                            ELSE IF c = User THEN Idle ELSE @]
  /\ UNCHANGED <<vars, control, deaf, registry, handle, left, raced>>

-----------------------------------------------------------------------------
\* iOS ends the app, its threads with it; the files and the settings stay.
AppKilled ==
  /\ proc' = [k \in Procs |-> IF k \in Threads THEN Gone ELSE proc[k]]
  /\ late' = late \cup
       { [ticket |-> proc[k].code, peer |-> Phone] :
           k \in { l \in Threads : proc[l].phase = "joining" /\ proc[l].cert = None } }
  /\ lost' = (lost \/ \E k \in Threads : Awaits(k))
  /\ registry' = {} /\ deaf' = {} /\ task' = [c \in Callers |-> Idle]
  /\ running' = FALSE /\ handle' = None /\ left' = {} /\ raced' = FALSE
  /\ UNCHANGED <<now, disk, grants, tickets, admitted, launches, control, autoConnect>>

ThreadStep(k) ==
  /\ ProcStep(k)
  /\ WritesControl(k)
  /\ UNCHANGED <<appVars, deaf, task>>

\* accept fails, and the control server ends while the daemon goes on.
SocketLost(k) ==
  /\ Listens(k)
  /\ deaf' = deaf \cup {k}
  /\ UNCHANGED <<vars, appVars, control, task>>

\* The daemon's thread panics; its control file stays.
Panic(k) ==
  /\ Shutdown(k)
  /\ deaf' = deaf \ {k}
  /\ UNCHANGED <<appVars, control, task>>

\* What the other nodes do, and the clock.
Elsewhere ==
  /\ \/ \E k \in Desktops : LaunchAny(k) \/ Shutdown(k) \/ ProcStep(k)
     \/ \E d \in Desktops, t \in Tokens : Invite(d, t)
     \/ \E r \in late, d \in Procs : AnswerLate(r, d)
     \/ Tick
  /\ UNCHANGED hostVars

StartStep == Refused \/ SpawnFails \/ StartSucceeds \/ StartFails \/ StartTimesOut \/ Show
CallStep(c) ==
  \/ PollEnds(c) \/ PollFails(c)
  \/ TakeHandle(c) \/ Unregister(c) \/ Tell(c) \/ Handled(c) \/ Joined(c) \/ Stopped(c)

NextHost ==
  \/ Start \/ Stop
  \/ \E k \in Threads, config \in Entered :
       \/ Spawn(k, config, None, FALSE)
       \/ \E code \in tickets, short \in BOOLEAN : Spawn(k, config, code, short)
  \/ StartStep
  \/ \E q \in Polls : PollOnce(q)
  \/ \E c \in Callers : CallStep(c)
  \/ \E k \in Threads : ThreadStep(k) \/ SocketLost(k) \/ Panic(k)
  \/ AppKilled
  \/ Elsewhere

HostSpec == InitHost /\ [][NextHost]_allVars

\* The calls of the bridge go on, and start has a deadline.
HostFairness == WF_allVars(StartStep) /\ WF_allVars(CallStep(User))

FairHostSpec == HostSpec /\ HostFairness

-----------------------------------------------------------------------------
(* Properties *)

\* The types of the host's variables.
HostTypeOK ==
  /\ registry \subseteq Threads
  /\ control \in Threads \cup {None}
  /\ deaf \subseteq Threads
  /\ task \in [Callers -> AppTask]
  /\ running \in BOOLEAN
  /\ handle \in Threads \cup {None}
  /\ autoConnect \in BOOLEAN
  /\ left \subseteq Threads
  /\ raced \in BOOLEAN

\* A task that starts or stops a thread has one, and one that calls a daemon too.
TasksMatch ==
  \A c \in Callers :
    /\ task[c].at \in {"start", "unregister", "shutdown", "told", "join"} =>
         task[c].thread \in Threads
    /\ task[c].at = "told" => task[c].target \in Threads
    /\ task[c].at \in {"spawn", "start", "show"} => c = User

\* The task c stops the thread k, which it has taken out of the registry.
Stops(c, k) == task[c].at \in {"shutdown", "told", "join"} /\ task[c].thread = k

\* No thread is lost: one that is alive is registered, or a start waits for it, or
\* a stop is about to end it, or its start has timed out.  At most one is registered,
\* so a start goes on beside a live thread only if that was left or is being stopped
\* (start and stop in mobile.rs).
Accounted ==
  /\ \A k \in Threads : Alive(k) =>
       \/ k \in registry \/ k \in left
       \/ task[User].at = "start" /\ task[User].thread = k
       \/ \E c \in Callers : Stops(c, k)
  /\ \A k, l \in registry : k = l
  /\ task[User].at = "start" => registry = {}

\* Until a start goes on beside a live thread, one daemon at most is at work, the
\* control file leads to it, and a stop under way, also one that overlaps with others,
\* tells the daemon whose thread it joins: it waits in vain only for a daemon whose
\* control server has ended (start and stop in mobile.rs, AppModel.swift:59-109
\* and 281-292).
Reached ==
  ~raced =>
    /\ \A k, l \in Threads : Alive(k) /\ Alive(l) => k = l
    /\ \A k \in Threads : Daemon(k) => control = k
    /\ \A k \in registry : Alive(k) => Daemon(k)
    /\ \A c \in Callers, k \in Threads : Stops(c, k) /\ Alive(k) =>
         /\ Daemon(k)
         /\ task[c].at = "told" => task[c].target = k
         /\ task[c].at = "join" => k \in deaf

\* The invariant of the host.
HostInv == HostTypeOK /\ TasksMatch /\ Accounted /\ Reached

\* A start or a stop that the user has asked for ends, and the app takes the next
\* one, unless it waits for a thread whose daemon no longer listens, or for one that
\* another has joined on the same state directory.
CallsEnd ==
  InTransition ~> \/ ~InTransition
                  \/ /\ task[User].at = "join" /\ Alive(task[User].thread)
                     /\ raced \/ task[User].thread \in deaf

\* The comment of daemon (network.rs:1276): the daemon exclusively owns the identity
\* and the Swarm.  Stated for the phone, whose start refuses a state directory
\* with a running node (mobile.rs), and only as long as no start has timed out.
ExclusiveOwner ==
  left = {} => \A k, l \in Threads : Daemon(k) /\ Daemon(l) => k = l
=============================================================================
