-------------------------- MODULE MobileHostProofs --------------------------
(***************************************************************************)
(* Proofs about MobileHost, for any number of threads, polls, peers and    *)
(* networks: no thread is lost, the phone reaches its daemon until a start *)
(* goes on beside a live thread, and the invariant of the membership holds *)
(* although the app and its threads may be killed at any time.             *)
(***************************************************************************)
EXTENDS MobileHost, MembershipProofs

\* What a thread does is a step of one process that waits.
LEMMA ProcStepOne ==
  ASSUME Parts, NEW k \in Procs, ProcStep(k)
  PROVE  Awaits(k) /\ \A l \in Procs : l # k => proc'[l] = proc[l]
<1>1. proc \in [Procs -> Process] /\ (proc[k].cert # None => proc[k].phase = "joining")
  BY DEF Parts, ProcessOK
<1>2. CASE Accept(k)
  <2>1. Awaits(k)
    BY <1>1, <1>2 DEF Accept, Awaits
  <2> QED
    BY <1>1, <1>2, <2>1 DEF Accept
<1>3. CASE GiveUp(k)
  BY <1>1, <1>3 DEF GiveUp
<1>4. ASSUME NEW d \in Procs, Resolve(k, d)
      PROVE  Awaits(k) /\ \A l \in Procs : l # k => proc'[l] = proc[l]
  BY <1>1, <1>4 DEF Resolve, Awaits
<1>5. ASSUME NEW d \in Procs, AnswerJoin(k, d)
      PROVE  Awaits(k) /\ \A l \in Procs : l # k => proc'[l] = proc[l]
  BY <1>1, <1>5 DEF AnswerJoin, Awaits
<1> QED
  BY <1>2, <1>3, <1>4, <1>5 DEF ProcStep

\* What happens elsewhere leaves the phone's threads alone.
LEMMA ElsewhereThreads ==
  ASSUME Parts, Elsewhere
  PROVE  \A l \in Threads : proc'[l] = proc[l]
<1> SUFFICES ASSUME NEW l \in Threads PROVE proc'[l] = proc[l]
  OBVIOUS
<1>1. l \in Procs /\ l \notin Desktops /\ proc \in [Procs -> Process]
  BY DEF Threads, Desktops, Parts
<1>2. ASSUME NEW k \in Desktops, LaunchAny(k) PROVE proc'[l] = proc[l]
  BY <1>1, <1>2 DEF LaunchAny, Launch
<1>3. ASSUME NEW k \in Desktops, Shutdown(k) PROVE proc'[l] = proc[l]
  BY <1>1, <1>3 DEF Shutdown
<1>4. ASSUME NEW k \in Desktops, ProcStep(k) PROVE proc'[l] = proc[l]
  BY <1>1, <1>4, ProcStepOne DEF Desktops
<1>5. ASSUME NEW d \in Desktops, NEW t \in Tokens, Invite(d, t) PROVE proc'[l] = proc[l]
  BY <1>1, <1>5 DEF Invite
<1>6. CASE (\E r \in late, d \in Procs : AnswerLate(r, d)) \/ Tick
  BY <1>6 DEF AnswerLate, Tick
<1> QED
  BY <1>2, <1>3, <1>4, <1>5, <1>6 DEF Elsewhere

\* The app is killed: its threads are gone, and their requests remain.
LEMMA KilledParts ==
  ASSUME Parts, AppKilled
  PROVE  Parts'
<1> DEFINE dead == { l \in Threads : proc[l].phase = "joining" /\ proc[l].cert = None }
<1>1. /\ proc' = [k \in Procs |-> IF k \in Threads THEN Gone ELSE proc[k]]
      /\ late' = late \cup { [ticket |-> proc[k].code, peer |-> Phone] : k \in dead }
      /\ lost' \in BOOLEAN
      /\ UNCHANGED <<now, disk, grants, tickets, admitted, launches>>
  BY DEF AppKilled, Parts, RestOK
<1>2. ASSUME NEW k \in dead
      PROVE  [ticket |-> proc[k].code, peer |-> Phone] \in Request
  <2>1. proc[k].code \in Ticket /\ Phone \in Peers
    BY PhoneAssumption DEF Threads, Parts, ProcessOK, Process
  <2> QED
    BY <2>1 DEF Request
<1>3. late' \subseteq Request
  BY <1>1, <1>2 DEF Parts, RestOK
<1>4. \A k \in Procs : ProcessOK(k, proc'[k])
  BY <1>1, GoneOK DEF Parts
<1>5. proc' \in [Procs -> Process] /\ \A k \in Procs : ProcessOK(k, proc[k])'
  <2>1. \A k \in Procs : proc'[k] \in Process
    BY <1>4 DEF ProcessOK
  <2>2. proc' \in [Procs -> Process]
    BY <1>1, <2>1
  <2>3. admitted' = admitted
    BY <1>1
  <2> QED
    BY <1>4, <2>2, <2>3, ProcessStays
       DEF ProcessOK, Process, Signed, Ticket, Certificate
<1>6. RestOK'
  BY <1>1, <1>3 DEF Parts, RestOK, Request, Ticket
<1> QED
  BY <1>1, <1>5, <1>6, GrantsFrame, DiskFrame DEF Parts

\* What the app's tasks do leaves the membership alone, but for a thread that they
\* spawn or tell to end.
LEMMA TasksLeaveRest ==
  ASSUME NEW c \in Callers, CallStep(c), ~Handled(c)
  PROVE  UNCHANGED vars
BY DEF CallStep, PollEnds, PollFails, TakeHandle, Unregister, Tell, Joined, Stopped

\* Every step of the host keeps the invariant of the membership.
LEMMA HostParts ==
  ASSUME Parts, HostTypeOK, TasksMatch, [NextHost]_allVars
  PROVE  Parts'
<1>1. ASSUME NEW k \in Threads, NEW config \in Entered, NEW short \in BOOLEAN,
             NEW code \in tickets, Spawn(k, config, code, short)
      PROVE  Parts'
  <2>1. code # None /\ k \in Procs /\ config \in Networks
    BY NoneAssumption, PhoneAssumption DEF Parts, GrantsOK, Threads
  <2> QED
    BY <1>1, <2>1, LaunchParts DEF Spawn
<1>2. ASSUME NEW k \in Threads, NEW config \in Entered, Spawn(k, config, None, FALSE)
      PROVE  Parts'
  <2>1. k \in Procs /\ config \in Networks
    BY PhoneAssumption DEF Threads
  <2> QED
    BY <1>2, <2>1, LaunchParts DEF Spawn
<1>3. CASE UNCHANGED vars
  BY <1>3, TickParts
<1>4. ASSUME NEW c \in Callers, Handled(c) PROVE Parts'
  <2>1. CASE Listens(task[c].target)
    <3>1. task[c].target \in Procs /\ Shutdown(task[c].target)
      BY <1>4, <2>1 DEF Handled, TasksMatch, Threads
    <3> QED
      BY <3>1, EndParts
  <2>2. CASE ~Listens(task[c].target)
    BY <1>3, <1>4, <2>2 DEF Handled
  <2> QED
    BY <2>1, <2>2
<1>5. ASSUME NEW k \in Threads, ThreadStep(k) \/ SocketLost(k) \/ Panic(k) PROVE Parts'
  <2>1. CASE ThreadStep(k)
    BY <2>1, AcceptParts, EndParts, ResolveParts, AnswerJoinParts DEF ThreadStep, ProcStep, Threads
  <2>2. CASE SocketLost(k)
    BY <1>3, <2>2 DEF SocketLost
  <2>3. CASE Panic(k)
    BY <2>3, EndParts DEF Panic, Threads
  <2> QED
    BY <1>5, <2>1, <2>2, <2>3
<1>6. CASE Elsewhere
  <2>1. ASSUME NEW k \in Desktops, LaunchAny(k) PROVE Parts'
    BY <2>1, NextParts DEF Next, Desktops
  <2> QED
    BY <1>6, NextParts DEF Elsewhere, Next, Desktops
<1>7. CASE Start \/ Stop \/ StartStep \/ \E q \in Polls : PollOnce(q)
  <2>1. UNCHANGED vars
    BY <1>7 DEF Start, Stop, PollOnce, StartStep, Refused, SpawnFails, StartSucceeds, StartFails,
            StartTimesOut, Show
  <2> QED
    BY <1>3, <2>1
<1>8. ASSUME NEW c \in Callers, CallStep(c) PROVE Parts'
  BY <1>3, <1>4, <1>8, TasksLeaveRest
<1> QED
  BY <1>1, <1>2, <1>3, <1>5, <1>6, <1>7, <1>8, KilledParts DEF NextHost, allVars

-----------------------------------------------------------------------------
\* The fields of a task.
LEMMA TaskFields ==
  ASSUME NEW at \in Stages, NEW polls \in BOOLEAN, NEW thread \in Threads \cup {None}
  PROVE  /\ Task(at, polls, thread) \in AppTask
         /\ Task(at, polls, thread).at = at
         /\ Task(at, polls, thread).thread = thread
BY DEF Task, AppTask

\* The task c goes on to t, and the others stay.
LEMMA BecomesType ==
  ASSUME HostTypeOK, NEW c \in Callers, NEW t \in AppTask, Becomes(c, t)
  PROVE  /\ task' \in [Callers -> AppTask]
         /\ task'[c] = t
         /\ \A d \in Callers : d # c => task'[d] = task[d]
BY DEF HostTypeOK, Becomes

\* The task c may go on to t: it keeps a live thread that it stops, and it stops one
\* only whose daemon it will reach.
MayBecome(c, t) ==
  /\ t.at # "start"
  /\ \A k \in Threads : Alive(k) =>
       /\ Stops(c, k) => t.at \in {"shutdown", "told", "join"} /\ t.thread = k
       /\ ~(c = User /\ task[c].at = "start" /\ task[c].thread = k)
       /\ ~raced /\ t.at \in {"shutdown", "told", "join"} /\ t.thread = k =>
            /\ Daemon(k)
            /\ t.at = "told" => t.target = k
            /\ t.at = "join" => k \in deaf

\* Steps of the tasks that leave the threads and the files alone.
LEMMA TasksMove ==
  ASSUME HostInv, HostTypeOK', TasksMatch',
         UNCHANGED <<registry, control, deaf, left, raced>>,
         \A k \in Threads : proc'[k] = proc[k],
         \A c \in Callers : task'[c] = task[c] \/ MayBecome(c, task'[c])
  PROVE  HostInv'
<1>1. User \in Callers
  BY DEF Callers
<1>2. \A k \in Threads : (Alive(k)' <=> Alive(k)) /\ (Daemon(k)' <=> Daemon(k))
  BY DEF Alive, Daemon
<1>3. \A c \in Callers, k \in Threads : Alive(k) /\ Stops(c, k) => Stops(c, k)'
  BY DEF Stops, MayBecome
<1>4. \A k \in Threads : Alive(k) /\ task[User].at = "start" /\ task[User].thread = k =>
        task'[User].at = "start" /\ task'[User].thread = k
  BY <1>1 DEF MayBecome
<1>5. task'[User].at = "start" => task[User].at = "start"
  BY <1>1 DEF MayBecome
<1>6. Accounted'
  BY <1>2, <1>3, <1>4, <1>5 DEF HostInv, Accounted
<1>7. Reached'
  <2> SUFFICES ASSUME ~raced
               PROVE  /\ \A k, l \in Threads : Alive(k)' /\ Alive(l)' => k = l
                      /\ \A k \in Threads : Daemon(k)' => control' = k
                      /\ \A k \in registry' : Alive(k)' => Daemon(k)'
                      /\ \A c \in Callers, k \in Threads : Stops(c, k)' /\ Alive(k)' =>
                           /\ Daemon(k)'
                           /\ task'[c].at = "told" => task'[c].target = k
                           /\ task'[c].at = "join" => k \in deaf'
    BY DEF Reached
  <2>1. \A k \in registry : k \in Threads
    BY DEF HostInv, HostTypeOK
  <2>2. \A c \in Callers, k \in Threads : Stops(c, k)' /\ Alive(k) =>
          /\ Daemon(k)
          /\ task'[c].at = "told" => task'[c].target = k
          /\ task'[c].at = "join" => k \in deaf
    <3> SUFFICES ASSUME NEW c \in Callers, NEW k \in Threads, Stops(c, k)', Alive(k)
                 PROVE  /\ Daemon(k)
                        /\ task'[c].at = "told" => task'[c].target = k
                        /\ task'[c].at = "join" => k \in deaf
      OBVIOUS
    <3>1. CASE task'[c] = task[c]
      BY <3>1 DEF HostInv, Reached, Stops
    <3>2. CASE MayBecome(c, task'[c])
      BY <3>2 DEF MayBecome, Stops
    <3> QED
      BY <3>1, <3>2
  <2> QED
    BY <1>2, <2>1, <2>2 DEF HostInv, Reached
<1> QED
  BY <1>6, <1>7 DEF HostInv

-----------------------------------------------------------------------------
\* Steps of one task that leave the threads and the files alone.
LEMMA TaskMoves ==
  ASSUME HostInv, NEW c \in Callers, NEW t \in AppTask, Becomes(c, t), MayBecome(c, t),
         t.at \in {"unregister", "shutdown", "told", "join"} => t.thread \in Threads,
         t.at = "told" => t.target \in Threads,
         t.at \in {"spawn", "show"} => c = User,
         UNCHANGED <<vars, registry, control, deaf, left, raced>>,
         running' \in BOOLEAN, handle' \in Threads \cup {None}, autoConnect' \in BOOLEAN
  PROVE  HostInv'
<1>1. /\ task' \in [Callers -> AppTask] /\ task'[c] = t
      /\ \A d \in Callers : d # c => task'[d] = task[d]
  BY BecomesType DEF HostInv
<1>2. HostTypeOK'
  BY <1>1 DEF HostInv, HostTypeOK
<1>3. TasksMatch'
  BY <1>1 DEF HostInv, TasksMatch, MayBecome
<1>4. \A d \in Callers : task'[d] = task[d] \/ MayBecome(d, task'[d])
  BY <1>1
<1> QED
  BY <1>2, <1>3, <1>4, TasksMove DEF vars

\* A task that does not start or stop a thread may go on to anything else.
LEMMA FreeMoves ==
  ASSUME HostInv, NEW c \in Callers, NEW t \in AppTask,
         task[c].at \notin {"start", "shutdown", "told", "join"},
         t.at \notin {"start", "shutdown", "told", "join"}
  PROVE  MayBecome(c, t)
BY DEF MayBecome, Stops

\* A task that does not start or stop a thread goes on to at, which is nothing of
\* the kind either.
LEMMA GoesTo ==
  ASSUME HostInv, NEW c \in Callers, NEW at \in Stages, NEW polls \in BOOLEAN,
         task[c].at \notin {"start", "shutdown", "told", "join"},
         at \notin {"start", "unregister", "shutdown", "told", "join"},
         at \in {"spawn", "show"} => c = User,
         Becomes(c, Task(at, polls, None)),
         UNCHANGED <<vars, registry, control, deaf, left, raced>>,
         running' \in BOOLEAN, handle' \in Threads \cup {None}, autoConnect' \in BOOLEAN
  PROVE  HostInv'
<1> DEFINE t == Task(at, polls, None)
<1>1. t \in AppTask /\ t.at = at /\ Becomes(c, t)
  BY TaskFields
<1> HIDE DEF t
<1>2. MayBecome(c, t)
  BY <1>1, FreeMoves
<1>3. /\ t.at \in {"unregister", "shutdown", "told", "join"} => t.thread \in Threads
      /\ t.at = "told" => t.target \in Threads
      /\ t.at \in {"spawn", "show"} => c = User
  BY <1>1
<1> QED
  BY <1>1, <1>2, <1>3, TaskMoves

LEMMA TapInv ==
  ASSUME HostInv, Start \/ Stop \/ Refused \/ Show \/ \E q \in Polls : PollOnce(q)
  PROVE  HostInv'
<1>1. User \in Callers /\ Idle.at = "idle"
  BY DEF Callers, Idle, Task
<1>2. UNCHANGED <<vars, registry, control, deaf, left, raced>>
  BY DEF Start, Stop, Refused, Show, PollOnce, appVars
<1>3. /\ running' \in BOOLEAN /\ handle' \in Threads \cup {None} /\ autoConnect' \in BOOLEAN
  BY DEF HostInv, HostTypeOK, Start, Stop, Refused, Show, PollOnce, appVars
<1>4. /\ "spawn" \in Stages /\ "stop" \in Stages /\ "idle" \in Stages /\ "calls" \in Stages
      /\ TRUE \in BOOLEAN /\ FALSE \in BOOLEAN
  BY DEF Stages
<1>5. CASE Start
  <2>1. task[User].at = "idle" /\ Becomes(User, Task("spawn", FALSE, None))
    BY <1>1, <1>5 DEF Start, InTransition
  <2> QED
    BY <1>1, <1>2, <1>3, <1>4, <2>1, GoesTo
<1>6. CASE Stop
  <2>1. task[User].at = "idle" /\ Becomes(User, Task("stop", FALSE, None))
    BY <1>1, <1>6 DEF Stop, InTransition
  <2> QED
    BY <1>1, <1>2, <1>3, <1>4, <2>1, GoesTo
<1>7. CASE Refused
  <2>1. task[User].at = "spawn" /\ Becomes(User, Task("idle", FALSE, None))
    BY <1>7 DEF Refused, Idle
  <2> QED
    BY <1>1, <1>2, <1>3, <1>4, <2>1, GoesTo
<1>8. CASE Show
  <2>1. task[User].at = "show" /\ Becomes(User, Task("calls", TRUE, None))
    BY <1>8 DEF Show
  <2> QED
    BY <1>1, <1>2, <1>3, <1>4, <2>1, GoesTo
<1>9. ASSUME NEW q \in Polls, PollOnce(q) PROVE HostInv'
  <2>1. q \in Callers /\ task[q].at = "idle" /\ Becomes(q, Task("calls", TRUE, None))
    BY <1>1, <1>9 DEF PollOnce, Callers
  <2> QED
    BY <1>2, <1>3, <1>4, <2>1, GoesTo
<1> QED
  BY <1>5, <1>6, <1>7, <1>8, <1>9

\* A poll ends, or turns to the bridge; a stop reads the handle.
LEMMA PollInv ==
  ASSUME HostInv, NEW c \in Callers, PollEnds(c) \/ PollFails(c) \/ TakeHandle(c)
  PROVE  HostInv'
<1>1. "idle" \in Stages /\ "stop" \in Stages /\ TRUE \in BOOLEAN /\ FALSE \in BOOLEAN
  BY DEF Stages
<1>2. /\ UNCHANGED <<vars, registry, control, deaf, left, raced>>
      /\ running' \in BOOLEAN /\ handle' \in Threads \cup {None} /\ autoConnect' \in BOOLEAN
  BY DEF PollEnds, PollFails, TakeHandle, appVars, HostInv, HostTypeOK
<1>3. task[c] \in AppTask /\ task[c].polls \in BOOLEAN
  BY DEF HostInv, HostTypeOK, AppTask
<1>4. CASE PollEnds(c)
  <2>1. task[c].at = "calls" /\ Becomes(c, Task("idle", FALSE, None))
    BY <1>4 DEF PollEnds, Idle
  <2> QED
    BY <1>1, <1>2, <2>1, GoesTo
<1>5. CASE PollFails(c)
  <2>1. task[c].at = "calls" /\ Becomes(c, Task("stop", TRUE, None))
    BY <1>5 DEF PollFails
  <2> QED
    BY <1>1, <1>2, <2>1, GoesTo
<1>6. CASE TakeHandle(c)
  <2> DEFINE at == IF handle = None THEN "stopped" ELSE "unregister"
             t == Task(at, task[c].polls, handle)
  <2>1. at \in Stages /\ handle \in Threads \cup {None}
    BY DEF HostInv, HostTypeOK, Stages
  <2>2. t \in AppTask /\ t.at = at /\ t.thread = handle
    BY <1>3, <2>1, TaskFields
  <2>3. task[c].at = "stop" /\ Becomes(c, t)
    BY <1>6 DEF TakeHandle
  <2>4. at \in {"stopped", "unregister"} /\ (at = "unregister" => handle \in Threads)
    BY <2>1
  <2> HIDE DEF t, at
  <2>5. MayBecome(c, t)
    BY <2>2, <2>3, <2>4, FreeMoves
  <2> QED
    BY <1>2, <2>2, <2>3, <2>4, <2>5, TaskMoves
<1> QED
  BY <1>4, <1>5, <1>6

\* What Joins makes of a task that stops the thread k.
LEMMA JoinsFields ==
  ASSUME HostInv, NEW c \in Callers, NEW ok \in BOOLEAN,
         task[c].at \in {"shutdown", "told"}
  PROVE  LET t == [Task("join", task[c].polls, task[c].thread) EXCEPT !.ok = ok]
         IN  t \in AppTask /\ t.at = "join" /\ t.thread = task[c].thread
BY DEF HostInv, HostTypeOK, TasksMatch, AppTask, Task, Stages

\* The shutdown call reads the file: it leads to the daemon whose thread is alive.
LEMMA TellInv ==
  ASSUME HostInv, NEW c \in Callers, Tell(c)
  PROVE  HostInv'
<1>1. task[c].at = "shutdown" /\ task[c].thread \in Threads /\ task[c] \in AppTask
  BY DEF Tell, HostInv, HostTypeOK, TasksMatch
<1>2. /\ UNCHANGED <<vars, registry, control, deaf, left, raced>>
      /\ running' \in BOOLEAN /\ handle' \in Threads \cup {None} /\ autoConnect' \in BOOLEAN
  BY DEF Tell, appVars, HostInv, HostTypeOK
<1>3. control \in Threads \cup {None} /\ None \notin Threads
  BY PhoneAssumption DEF HostInv, HostTypeOK, Threads
<1>4. ~raced /\ Alive(task[c].thread) => Daemon(task[c].thread) /\ control = task[c].thread
  BY <1>1 DEF HostInv, Reached, Stops
<1>5. c = User => task[User].at # "start"
  BY <1>1
<1>6. CASE control = None
  <2> DEFINE t == [Task("join", task[c].polls, task[c].thread) EXCEPT !.ok = FALSE]
  <2>1. t \in AppTask /\ t.at = "join" /\ t.thread = task[c].thread /\ Becomes(c, t)
    BY <1>1, <1>6, JoinsFields DEF Tell, Joins
  <2> HIDE DEF t
  <2>2. MayBecome(c, t)
    BY <1>1, <1>3, <1>4, <1>5, <1>6, <2>1 DEF MayBecome, Stops
  <2> QED
    BY <1>1, <1>2, <2>1, <2>2, TaskMoves
<1>7. CASE control # None
  <2> DEFINE t == [task[c] EXCEPT !.at = "told", !.target = control]
  <2>1. /\ t \in AppTask /\ t.at = "told" /\ t.thread = task[c].thread /\ t.target = control
        /\ Becomes(c, t)
    BY <1>1, <1>3, <1>7 DEF Tell, AppTask, Stages
  <2> HIDE DEF t
  <2>2. MayBecome(c, t)
    BY <1>1, <1>4, <1>5, <2>1 DEF MayBecome, Stops
  <2> QED
    BY <1>1, <1>2, <1>3, <1>7, <2>1, <2>2, TaskMoves
<1> QED
  BY <1>6, <1>7

\* A stop whose thread has ended returns.
LEMMA JoinedInv ==
  ASSUME HostInv, NEW c \in Callers, Joined(c)
  PROVE  HostInv'
<1>1. task[c].at = "join" /\ ~Alive(task[c].thread) /\ task[c] \in AppTask
  BY DEF Joined, HostInv, HostTypeOK
<1>2. PICK ok \in {task[c].ok, FALSE} :
        Becomes(c, [Task("stopped", task[c].polls, None) EXCEPT !.ok = ok])
  BY DEF Joined
<1> DEFINE t == [Task("stopped", task[c].polls, None) EXCEPT !.ok = ok]
<1>3. t \in AppTask /\ t.at = "stopped" /\ Becomes(c, t)
  BY <1>1, <1>2 DEF AppTask, Task, Stages
<1> HIDE DEF t
<1>4. MayBecome(c, t)
  BY <1>1, <1>3 DEF MayBecome, Stops
<1>5. /\ UNCHANGED <<vars, registry, control, deaf, left, raced>>
      /\ running' \in BOOLEAN /\ handle' \in Threads \cup {None} /\ autoConnect' \in BOOLEAN
  BY DEF Joined, HostInv, HostTypeOK
<1> QED
  BY <1>3, <1>4, <1>5, TaskMoves

\* The app hears that a stop is over, and may start again.
LEMMA StoppedInv ==
  ASSUME HostInv, NEW c \in Callers, Stopped(c)
  PROVE  HostInv'
<1> DEFINE spawn == Task("spawn", FALSE, None)
<1>1. /\ task[c].at = "stopped" /\ task \in [Callers -> AppTask] /\ User \in Callers
      /\ running' \in BOOLEAN /\ autoConnect' \in BOOLEAN
      /\ UNCHANGED <<vars, control, deaf, registry, handle, left, raced>>
  BY DEF Stopped, HostInv, HostTypeOK, Callers
<1>2. Idle \in AppTask /\ Idle.at = "idle" /\ spawn \in AppTask /\ spawn.at = "spawn"
  BY DEF Idle, Task, AppTask, Stages
<1>3. /\ task' \in [Callers -> AppTask]
      /\ \A d \in Callers : \/ task'[d] = task[d]
                            \/ d = c /\ task'[d] = Idle
                            \/ d = User /\ task[d] = Idle /\ task'[d] = spawn
  BY <1>1, <1>2 DEF Stopped, InTransition
<1> HIDE DEF spawn
<1>4. HostTypeOK'
  BY <1>1, <1>3 DEF HostInv, HostTypeOK
<1>5. TasksMatch'
  BY <1>2, <1>3 DEF HostInv, TasksMatch
<1>6. \A d \in Callers : task'[d] = task[d] \/ MayBecome(d, task'[d])
  <2> SUFFICES ASSUME NEW d \in Callers, task'[d] # task[d] PROVE MayBecome(d, task'[d])
    OBVIOUS
  <2>1. /\ task[d].at \notin {"start", "shutdown", "told", "join"}
        /\ task'[d] \in AppTask /\ task'[d].at \notin {"start", "shutdown", "told", "join"}
    BY <1>1, <1>2, <1>3
  <2> QED
    BY <2>1, FreeMoves
<1> QED
  BY <1>1, <1>4, <1>5, <1>6, TasksMove DEF vars

-----------------------------------------------------------------------------
(* The steps that change the threads, the registry or the files *)

\* A start waits for nobody else: registered are none, and no other task is at it.
LEMMA StartFailsInv ==
  ASSUME HostInv, StartFails
  PROVE  HostInv'
<1>1. /\ task[User].at = "start" /\ ~Alive(task[User].thread) /\ Becomes(User, Idle)
      /\ User \in Callers
  BY DEF StartFails, Callers
<1>2. Idle \in AppTask /\ Idle.at = "idle"
  BY DEF Idle, Task, AppTask, Stages
<1>3. MayBecome(User, Idle)
  BY <1>1, <1>2 DEF MayBecome, Stops
<1>4. /\ UNCHANGED <<vars, registry, control, deaf, left, raced>>
      /\ running' \in BOOLEAN /\ handle' \in Threads \cup {None} /\ autoConnect' \in BOOLEAN
  BY DEF StartFails, appVars, HostInv, HostTypeOK
<1> QED
  BY <1>1, <1>2, <1>3, <1>4, TaskMoves

\* The system gives no thread: the control file is gone.
LEMMA SpawnFailsInv ==
  ASSUME HostInv, SpawnFails
  PROVE  HostInv'
<1>1. /\ task[User].at = "spawn" /\ registry = {} /\ control' = None
      /\ Becomes(User, Idle) /\ User \in Callers
      /\ raced' = (raced \/ \E k \in Threads : Alive(k))
      /\ UNCHANGED <<proc, registry, running, handle, autoConnect, left, deaf>>
  BY DEF SpawnFails, Passes, Callers, vars
<1>2. Idle \in AppTask /\ Idle.at = "idle"
  BY DEF Idle, Task, AppTask, Stages
<1>3. /\ task' \in [Callers -> AppTask] /\ task'[User] = Idle
      /\ \A d \in Callers : d # User => task'[d] = task[d]
  BY <1>1, <1>2, BecomesType DEF HostInv
<1>4. HostTypeOK'
  BY <1>1, <1>3 DEF HostInv, HostTypeOK
<1>5. TasksMatch'
  BY <1>2, <1>3 DEF HostInv, TasksMatch
<1>6. \A k \in Threads : Alive(k)' <=> Alive(k)
  BY <1>1 DEF Alive
<1>7. \A c \in Callers, k \in Threads : Stops(c, k) => Stops(c, k)'
  BY <1>1, <1>3 DEF Stops
<1>8. Accounted'
  BY <1>1, <1>2, <1>3, <1>6, <1>7 DEF HostInv, Accounted
<1>9. Reached'
  <2> SUFFICES ASSUME ~raced' PROVE \A k \in Threads : ~Alive(k)' /\ ~Daemon(k)'
    BY <1>1 DEF Reached
  <2> QED
    BY <1>1, <1>6 DEF Alive, Daemon
<1> QED
  BY <1>4, <1>5, <1>8, <1>9 DEF HostInv

\* The daemon that answers is the one the control file leads to; as long as one
\* thread at most is alive, it is the one that was started.
LEMMA StartSucceedsInv ==
  ASSUME HostInv, StartSucceeds
  PROVE  HostInv'
<1> DEFINE th == task[User].thread
           t == Task("show", FALSE, None)
<1>1. /\ task[User].at = "start" /\ User \in Callers /\ th \in Threads
      /\ registry = {} /\ registry' = {th} /\ handle' = th
      /\ Becomes(User, t) /\ Listens(control)
      /\ UNCHANGED <<proc, control, deaf, running, autoConnect, left, raced>>
  BY DEF StartSucceeds, Callers, vars, HostInv, TasksMatch, Accounted
<1>2. t \in AppTask /\ t.at = "show"
  BY DEF Task, AppTask, Stages
<1> HIDE DEF t
<1>3. /\ task' \in [Callers -> AppTask] /\ task'[User] = t
      /\ \A d \in Callers : d # User => task'[d] = task[d]
  BY <1>1, <1>2, BecomesType DEF HostInv
<1>4. HostTypeOK'
  BY <1>1, <1>3 DEF HostInv, HostTypeOK
<1>5. TasksMatch'
  BY <1>2, <1>3 DEF HostInv, TasksMatch
<1>6. \A k \in Threads : (Alive(k)' <=> Alive(k)) /\ (Daemon(k)' <=> Daemon(k))
  BY <1>1 DEF Alive, Daemon
<1>7. \A c \in Callers, k \in Threads : Stops(c, k)' <=> Stops(c, k)
  BY <1>1, <1>2, <1>3 DEF Stops
<1>8. Accounted'
  BY <1>1, <1>2, <1>3, <1>6, <1>7 DEF HostInv, Accounted
<1>9. \A c \in Callers, k \in Threads : Stops(c, k) => task'[c] = task[c]
  BY <1>1, <1>3 DEF Stops
<1>10. ~raced /\ Alive(th) => Daemon(th)
  <2>1. control \in Threads /\ Daemon(control) /\ Alive(control)
    BY <1>1 DEF HostInv, HostTypeOK, Listens, Daemon, Alive
  <2> QED
    BY <1>1, <2>1 DEF HostInv, Reached
<1>11. Reached'
  BY <1>1, <1>6, <1>7, <1>9, <1>10 DEF HostInv, Reached
<1> QED
  BY <1>4, <1>5, <1>8, <1>11 DEF HostInv

\* A start that has waited long enough leaves its thread.
LEMMA StartTimesOutInv ==
  ASSUME HostInv, StartTimesOut
  PROVE  HostInv'
<1>1. /\ task[User].at = "start" /\ User \in Callers /\ task[User].thread \in Threads
      /\ Becomes(User, Idle) /\ left' = left \cup {task[User].thread}
      /\ UNCHANGED <<proc, registry, control, deaf, running, handle, autoConnect, raced>>
  BY DEF StartTimesOut, Callers, vars, HostInv, TasksMatch
<1>2. Idle \in AppTask /\ Idle.at = "idle"
  BY DEF Idle, Task, AppTask, Stages
<1>3. /\ task' \in [Callers -> AppTask] /\ task'[User] = Idle
      /\ \A d \in Callers : d # User => task'[d] = task[d]
  BY <1>1, <1>2, BecomesType DEF HostInv
<1>4. HostTypeOK'
  BY <1>1, <1>3 DEF HostInv, HostTypeOK
<1>5. TasksMatch'
  BY <1>2, <1>3 DEF HostInv, TasksMatch
<1>6. \A k \in Threads : (Alive(k)' <=> Alive(k)) /\ (Daemon(k)' <=> Daemon(k))
  BY <1>1 DEF Alive, Daemon
<1>7. \A c \in Callers, k \in Threads : Stops(c, k)' <=> Stops(c, k)
  BY <1>1, <1>2, <1>3 DEF Stops
<1>8. Accounted'
  BY <1>1, <1>2, <1>3, <1>6, <1>7 DEF HostInv, Accounted
<1>9. \A c \in Callers, k \in Threads : Stops(c, k) => task'[c] = task[c]
  BY <1>1, <1>3 DEF Stops
<1>10. \A k \in registry : k \in Threads
  BY DEF HostInv, HostTypeOK
<1>11. Reached'
  BY <1>1, <1>6, <1>7, <1>9, <1>10 DEF HostInv, Reached
<1> QED
  BY <1>4, <1>5, <1>8, <1>11 DEF HostInv

\* A stop takes the node out of the registry: a live one has its daemon.
LEMMA UnregisterInv ==
  ASSUME HostInv, NEW c \in Callers, Unregister(c)
  PROVE  HostInv'
<1> DEFINE th == task[c].thread
<1>1. /\ task[c].at = "unregister" /\ th \in Threads /\ task[c].polls \in BOOLEAN
      /\ UNCHANGED <<vars, control, deaf, running, autoConnect, left, raced>>
  BY DEF Unregister, HostInv, HostTypeOK, AppTask, TasksMatch
<1>2. CASE th \in registry
  <2> DEFINE t == Task("shutdown", task[c].polls, th)
  <2>1. t \in AppTask /\ t.at = "shutdown" /\ t.thread = th
    BY <1>1 DEF Task, AppTask, Stages
  <2>2. registry' = registry \ {th} /\ Becomes(c, t) /\ handle' = handle
    BY <1>2 DEF Unregister
  <2> HIDE DEF t
  <2>3. /\ task' \in [Callers -> AppTask] /\ task'[c] = t
        /\ \A d \in Callers : d # c => task'[d] = task[d]
    BY <2>1, <2>2, BecomesType DEF HostInv
  <2>4. HostTypeOK'
    BY <1>1, <2>2, <2>3 DEF HostInv, HostTypeOK
  <2>5. TasksMatch'
    BY <1>1, <2>1, <2>3 DEF HostInv, TasksMatch
  <2>6. \A k \in Threads : (Alive(k)' <=> Alive(k)) /\ (Daemon(k)' <=> Daemon(k))
    BY <1>1 DEF Alive, Daemon, vars
  <2>7. \A d \in Callers, k \in Threads :
          Stops(d, k)' <=> Stops(d, k) \/ (d = c /\ k = th)
    BY <1>1, <2>1, <2>3 DEF Stops
  <2>8. \A d \in Callers, k \in Threads : Stops(d, k) => task'[d] = task[d]
    BY <1>1, <2>3 DEF Stops
  <2>9. User \in Callers /\ (task'[User].at = "start" => task[User] = task'[User])
         /\ (task[User].at = "start" => task[User] = task'[User])
    BY <1>1, <2>1, <2>3 DEF Callers
  <2>10. Accounted'
    BY <1>1, <1>2, <2>2, <2>6, <2>7, <2>9 DEF HostInv, Accounted
  <2>11. Reached'
    <3>1. \A k \in registry' : k \in registry /\ k \in Threads
      BY <2>2 DEF HostInv, HostTypeOK
    <3>2. ~raced /\ Alive(th) => Daemon(th)
      BY <1>2 DEF HostInv, Reached
    <3>3. ~raced => \A d \in Callers, k \in Threads : Stops(d, k)' /\ Alive(k) =>
            /\ Daemon(k)
            /\ task'[d].at = "told" => task'[d].target = k
            /\ task'[d].at = "join" => k \in deaf
      BY <2>1, <2>3, <2>7, <2>8, <3>2 DEF HostInv, Reached
    <3> QED
      BY <1>1, <2>6, <3>1, <3>3 DEF HostInv, Reached
  <2> QED
    BY <2>4, <2>5, <2>10, <2>11 DEF HostInv
<1>3. CASE th \notin registry
  <2> DEFINE t == [Task("stopped", task[c].polls, None) EXCEPT !.ok = FALSE]
  <2>1. t \in AppTask /\ t.at = "stopped" /\ Becomes(c, t)
    BY <1>1, <1>3 DEF Unregister, Task, AppTask, Stages
  <2>2. registry' = registry /\ handle' = None
    BY <1>3 DEF Unregister
  <2>3. running' \in BOOLEAN /\ handle' \in Threads \cup {None} /\ autoConnect' \in BOOLEAN
    BY <1>1, <2>2 DEF HostInv, HostTypeOK
  <2> HIDE DEF t
  <2>4. MayBecome(c, t)
    BY <1>1, <2>1, FreeMoves
  <2> QED
    BY <1>1, <2>1, <2>2, <2>3, <2>4, TaskMoves
<1> QED
  BY <1>2, <1>3

\* The daemon that is told to end is, as long as one at most is alive, the one whose
\* thread the stop joins.
LEMMA HandledInv ==
  ASSUME Parts, HostInv, NEW c \in Callers, Handled(c)
  PROVE  HostInv'
<1> DEFINE th == task[c].thread
           tg == task[c].target
           t == [Task("join", task[c].polls, th) EXCEPT !.ok = Listens(tg)]
<1>1. /\ task[c].at = "told" /\ th \in Threads /\ tg \in Threads
      /\ UNCHANGED <<registry, running, handle, autoConnect, left, raced, deaf>>
      /\ Becomes(c, t)
  BY DEF Handled, Joins, appVars, HostInv, TasksMatch
<1>2. Listens(tg) \in BOOLEAN
  BY DEF Listens, Daemon
<1>3. t \in AppTask /\ t.at = "join" /\ t.thread = th
  BY <1>1, <1>2, JoinsFields
<1> HIDE DEF t
<1>4. /\ task' \in [Callers -> AppTask] /\ task'[c] = t
      /\ \A d \in Callers : d # c => task'[d] = task[d]
  BY <1>1, <1>3, BecomesType DEF HostInv
<1>5. ~raced /\ Alive(th) => Daemon(th) /\ tg = th
  BY <1>1 DEF HostInv, Reached, Stops
<1>6. CASE ~Listens(tg)
  <2>1. UNCHANGED <<vars, control>>
    BY <1>6 DEF Handled
  <2>2. ~raced /\ Alive(th) => th \in deaf
    BY <1>1, <1>5, <1>6, PhoneAssumption DEF Listens, Threads
  <2>3. MayBecome(c, t)
    BY <1>1, <1>3, <1>5, <2>2 DEF MayBecome, Stops
  <2>4. running' \in BOOLEAN /\ handle' \in Threads \cup {None} /\ autoConnect' \in BOOLEAN
    BY <1>1 DEF HostInv, HostTypeOK
  <2> QED
    BY <1>1, <1>3, <2>1, <2>3, <2>4, TaskMoves
<1>7. CASE Listens(tg)
  <2>1. proc' = [proc EXCEPT ![tg] = Gone] /\ control' = None
    BY <1>7 DEF Handled, Shutdown
  <2>2. Gone.phase = "off" /\ tg \in Procs /\ proc \in [Procs -> Process]
    BY <1>1 DEF Gone, NewProcess, Threads, Parts
  <2>3. \A k \in Threads : /\ Alive(k)' <=> Alive(k) /\ k # tg
                           /\ Daemon(k)' <=> Daemon(k) /\ k # tg
    BY <2>1, <2>2 DEF Alive, Daemon, Threads
  <2>4. HostTypeOK'
    BY <1>1, <1>4, <2>1 DEF HostInv, HostTypeOK
  <2>5. TasksMatch'
    BY <1>1, <1>3, <1>4 DEF HostInv, TasksMatch
  <2>6. \A d \in Callers, k \in Threads : Stops(d, k)' <=> Stops(d, k)
    BY <1>1, <1>3, <1>4 DEF Stops
  <2>7. User \in Callers /\ (task'[User].at = "start" <=> task[User].at = "start")
         /\ (task[User].at = "start" => task'[User] = task[User])
    BY <1>1, <1>3, <1>4 DEF Callers
  <2>8. Accounted'
    BY <1>1, <2>3, <2>6, <2>7 DEF HostInv, Accounted
  <2>9. ~raced => \A k \in Threads : ~Alive(k)' /\ ~Daemon(k)'
    <3>1. Alive(tg)
      BY <1>7 DEF Listens, Daemon, Alive
    <3>2. ~raced => \A k \in Threads : Alive(k) => k = tg
      BY <1>1, <3>1 DEF HostInv, Reached
    <3>3. \A k \in Threads : Daemon(k) => Alive(k)
      BY DEF Daemon, Alive
    <3> QED
      BY <2>3, <3>2, <3>3
  <2>10. Reached'
    BY <1>1, <2>4, <2>9 DEF Reached, HostTypeOK
  <2> QED
    BY <2>4, <2>5, <2>8, <2>10 DEF HostInv
<1> QED
  BY <1>6, <1>7

\* A start goes on: nothing was alive before it, or it races.
LEMMA SpawnInv ==
  ASSUME Parts, HostInv, NEW k \in Threads, NEW config, NEW code, NEW short,
         Spawn(k, config, code, short)
  PROVE  HostInv'
<1> DEFINE t == Task("start", FALSE, k)
<1>1. /\ task[User].at = "spawn" /\ User \in Callers /\ registry = {} /\ ~InUse(k)
      /\ Becomes(User, t)
      /\ control' = IF Daemon(k)' THEN k ELSE None
      /\ raced' = (raced \/ \E l \in Threads : Alive(l))
      /\ left' = left \ {k} /\ deaf' = deaf \ {k}
      /\ UNCHANGED <<registry, running, handle, autoConnect>>
  BY DEF Spawn, Passes, Callers
<1>2. ~Alive(k) /\ \A l \in Threads : l # k => proc'[l] = proc[l]
  BY DEF Spawn, Launch, Ended, Alive, Threads, Parts
<1>3. t \in AppTask /\ t.at = "start" /\ t.thread = k
  BY DEF Task, AppTask, Stages
<1> HIDE DEF t
<1>4. /\ task' \in [Callers -> AppTask] /\ task'[User] = t
      /\ \A d \in Callers : d # User => task'[d] = task[d]
  BY <1>1, <1>3, BecomesType DEF HostInv
<1>5. HostTypeOK'
  BY <1>1, <1>4 DEF HostInv, HostTypeOK
<1>6. TasksMatch'
  BY <1>3, <1>4 DEF HostInv, TasksMatch
<1>7. \A l \in Threads : l # k => (Alive(l)' <=> Alive(l)) /\ (Daemon(l)' <=> Daemon(l))
  BY <1>2 DEF Alive, Daemon
<1>8. \A c \in Callers, l \in Threads : Stops(c, l)' <=> Stops(c, l)
  BY <1>1, <1>3, <1>4 DEF Stops
<1>9. \A c \in Callers : ~Stops(c, k)
  BY <1>1 DEF InUse, Stops
<1>10. Accounted'
  BY <1>1, <1>3, <1>4, <1>7, <1>8 DEF HostInv, Accounted
<1>11. Reached'
  <2> SUFFICES ASSUME ~raced'
               PROVE  /\ \A l, m \in Threads : Alive(l)' /\ Alive(m)' => l = m
                      /\ \A l \in Threads : Daemon(l)' => control' = l
                      /\ \A c \in Callers, l \in Threads : ~(Stops(c, l)' /\ Alive(l)')
    BY <1>1 DEF Reached
  <2>1. \A l \in Threads : l # k => ~Alive(l)' /\ ~Daemon(l)'
    BY <1>1, <1>7 DEF Alive, Daemon
  <2> QED
    BY <1>1, <1>8, <1>9, <2>1
<1> QED
  BY <1>5, <1>6, <1>10, <1>11 DEF HostInv

\* The app is killed, and nothing of it is left but the files.
LEMMA KilledInv ==
  ASSUME Parts, HostInv, AppKilled
  PROVE  HostInv'
<1>1. /\ registry' = {} /\ deaf' = {} /\ task' = [c \in Callers |-> Idle]
      /\ running' = FALSE /\ handle' = None /\ left' = {} /\ raced' = FALSE
      /\ control' = control /\ autoConnect' = autoConnect
      /\ \A l \in Threads : proc'[l] = Gone
  BY DEF AppKilled, Threads
<1>2. Idle \in AppTask /\ Idle.at = "idle" /\ User \in Callers
  BY DEF Idle, Task, AppTask, Stages, Callers
<1>3. \A l \in Threads : ~Alive(l)' /\ ~Daemon(l)'
  BY <1>1 DEF Alive, Daemon, Gone, NewProcess
<1>4. \A c \in Callers : task'[c] = Idle
  BY <1>1
<1>5. HostTypeOK' /\ TasksMatch'
  BY <1>1, <1>2, <1>4 DEF HostInv, HostTypeOK, TasksMatch
<1>6. Accounted' /\ Reached'
  BY <1>1, <1>2, <1>3, <1>4 DEF Accounted, Reached
<1> QED
  BY <1>5, <1>6 DEF HostInv

\* A thread that goes on is alone, unless a start has gone on beside it, and no stop
\* has its node: it becomes the daemon that the control file leads to, or ends.
LEMMA ThreadInv ==
  ASSUME Parts, HostInv, NEW k \in Threads, ThreadStep(k)
  PROVE  HostInv'
<1>1. /\ control' = IF ~Daemon(k) /\ Daemon(k)' THEN k ELSE control
      /\ UNCHANGED <<registry, running, handle, autoConnect, left, raced, deaf, task>>
      /\ Awaits(k) /\ \A l \in Threads : l # k => proc'[l] = proc[l]
  BY ProcStepOne DEF ThreadStep, WritesControl, Threads, appVars
<1>2. Alive(k) /\ ~Daemon(k)
  BY <1>1 DEF Alive, Daemon, Awaits
<1>3. \A l \in Threads : l # k => (Alive(l)' <=> Alive(l)) /\ (Daemon(l)' <=> Daemon(l))
  BY <1>1 DEF Alive, Daemon
<1>4. HostTypeOK' /\ TasksMatch'
  BY <1>1 DEF HostInv, HostTypeOK, TasksMatch
<1>5. \A c \in Callers, l \in Threads : Stops(c, l)' <=> Stops(c, l)
  BY <1>1 DEF Stops
<1>6. Accounted'
  BY <1>1, <1>2, <1>3, <1>5 DEF HostInv, Accounted
<1>7. Reached'
  <2> SUFFICES ASSUME ~raced
               PROVE  /\ \A l, m \in Threads : Alive(l)' /\ Alive(m)' => l = m
                      /\ \A l \in Threads : Daemon(l)' => control' = l
                      /\ \A l \in registry : ~Alive(l)'
                      /\ \A c \in Callers, l \in Threads : ~(Stops(c, l)' /\ Alive(l)')
    BY <1>1 DEF Reached
  <2>1. \A l \in Threads : l # k => ~Alive(l)' /\ ~Daemon(l)'
    BY <1>2, <1>3 DEF HostInv, Reached, Alive, Daemon
  <2>2. k \notin registry /\ \A c \in Callers : ~Stops(c, k)
    BY <1>2 DEF HostInv, Reached
  <2>3. registry \subseteq Threads
    BY DEF HostInv, HostTypeOK
  <2> QED
    BY <1>1, <1>2, <1>5, <2>1, <2>2, <2>3
<1> QED
  BY <1>4, <1>6, <1>7 DEF HostInv

\* A control server ends while its daemon goes on, or the daemon's thread panics.
LEMMA FaultInv ==
  ASSUME Parts, HostInv, NEW k \in Threads, SocketLost(k) \/ Panic(k)
  PROVE  HostInv'
<1>1. /\ UNCHANGED <<registry, control, running, handle, autoConnect, left, raced, task>>
      /\ deaf' \subseteq Threads /\ \A l \in deaf : l # k => l \in deaf'
  BY DEF SocketLost, Panic, appVars, HostInv, HostTypeOK
<1>2. \A l \in Threads : /\ Alive(l)' => Alive(l) /\ (l = k => k \in deaf')
                         /\ Alive(l)' /\ Daemon(l) => Daemon(l)'
                         /\ Daemon(l)' => Daemon(l)
  <2>1. CASE SocketLost(k)
    BY <2>1 DEF SocketLost, Alive, Daemon, vars
  <2>2. CASE Panic(k)
    <3>1. k \in Procs /\ proc \in [Procs -> Process] /\ proc' = [proc EXCEPT ![k] = Gone]
      BY <2>2 DEF Panic, Shutdown, Threads, Parts
    <3>2. Gone.phase = "off"
      BY DEF Gone, NewProcess
    <3> QED
      BY <3>1, <3>2 DEF Alive, Daemon, Threads
  <2> QED
    BY <2>1, <2>2
<1>3. HostTypeOK' /\ TasksMatch'
  BY <1>1 DEF HostInv, HostTypeOK, TasksMatch
<1>4. \A c \in Callers, l \in Threads : Stops(c, l)' <=> Stops(c, l)
  BY <1>1 DEF Stops
<1>5. Accounted'
  BY <1>1, <1>2, <1>4 DEF HostInv, Accounted
<1>6. \A l \in registry : l \in Threads
  BY DEF HostInv, HostTypeOK
<1>7. Reached'
  BY <1>1, <1>2, <1>4, <1>6 DEF HostInv, Reached
<1> QED
  BY <1>3, <1>5, <1>7 DEF HostInv

\* Steps elsewhere.
LEMMA FrameInv ==
  ASSUME HostInv, UNCHANGED hostVars, \A k \in Threads : proc'[k] = proc[k]
  PROVE  HostInv'
<1>1. UNCHANGED <<registry, control, deaf, left, raced, task, running, handle, autoConnect>>
  BY DEF hostVars, appVars
<1>2. HostTypeOK' /\ TasksMatch'
  BY <1>1 DEF HostInv, HostTypeOK, TasksMatch
<1> QED
  BY <1>1, <1>2, TasksMove

LEMMA InitHostInv == InitHost => HostInv
<1> SUFFICES ASSUME InitHost PROVE HostInv
  OBVIOUS
<1>1. \A k \in Threads : ~Alive(k) /\ ~Daemon(k)
  BY DEF InitHost, Init, Threads, Alive, Daemon, Gone, NewProcess
<1>2. Idle \in AppTask /\ Idle.at = "idle" /\ User \in Callers
  BY DEF Idle, Task, AppTask, Stages, Callers
<1>3. \A c \in Callers : task[c] = Idle
  BY DEF InitHost
<1> QED
  BY <1>1, <1>2, <1>3 DEF InitHost, HostInv, HostTypeOK, TasksMatch, Accounted, Reached

LEMMA NextHostInv == Parts /\ HostInv /\ [NextHost]_allVars => HostInv'
<1> SUFFICES ASSUME Parts, HostInv, [NextHost]_allVars PROVE HostInv'
  OBVIOUS
<1>1. CASE StartStep
  BY <1>1, TapInv, SpawnFailsInv, StartSucceedsInv, StartFailsInv, StartTimesOutInv DEF StartStep
<1>2. ASSUME NEW c \in Callers, CallStep(c) PROVE HostInv'
  BY <1>2, PollInv, UnregisterInv, TellInv, HandledInv, JoinedInv, StoppedInv DEF CallStep
<1>3. CASE Elsewhere
  BY <1>3, ElsewhereThreads, FrameInv DEF Elsewhere
<1>4. CASE UNCHANGED allVars
  BY <1>4, FrameInv DEF allVars, vars
<1> QED
  BY <1>1, <1>2, <1>3, <1>4, TapInv, SpawnInv, KilledInv, ThreadInv, FaultInv DEF NextHost

-----------------------------------------------------------------------------
\* The invariant of the host, whatever number of polls overlap with the user's
\* start or stop: no thread is lost, and until a start goes on beside a live thread the
\* phone has one daemon, its control file leads to it, and each stop ends the daemon
\* whose thread it joins, if that still listens.
THEOREM HostInvariance == HostSpec => []HostInv
<1>1. InitHost => Parts /\ HostInv
  BY InitParts, InitHostInv DEF InitHost
<1>2. Parts /\ HostInv /\ [NextHost]_allVars => (Parts /\ HostInv)'
  BY HostParts, NextHostInv DEF HostInv
<1> QED
  BY <1>1, <1>2, PTL DEF HostSpec

\* The invariant of the membership holds with a phone among the peers too, whose
\* threads join and run the daemon in one and may be killed between any two steps.
THEOREM HostMembership == HostSpec => []Inv
<1>1. InitHost => Parts /\ HostInv
  BY InitParts, InitHostInv DEF InitHost
<1>2. Parts /\ HostInv /\ [NextHost]_allVars => (Parts /\ HostInv)'
  BY HostParts, NextHostInv DEF HostInv
<1>3. Parts => Inv
  BY InvParts DEF Parts
<1> QED
  BY <1>1, <1>2, <1>3, PTL DEF HostSpec
=============================================================================
