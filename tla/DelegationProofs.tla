-------------------------- MODULE DelegationProofs --------------------------
(***************************************************************************)
(* Proofs about the daemon's sends and the delegated runs over them, for   *)
(* any number of runs, results and faults: success is only reported of     *)
(* what was stored, runs, calls and results go together, a run that was    *)
(* left was cancelled behind its task, and the provider implements the     *)
(* abstract runs.                                                          *)
(***************************************************************************)
EXTENDS Delegation, TLAPS

\* What holds of the daemon and its sends.
DeliveryInv == DeliveryTypeOK /\ SuccessMeansStored

\* What any step of the daemon, the network and the callers leaves as it was: no
\* call is taken back, success stays success, and what was stored stays stored.
DeliveryGoesOn ==
  /\ stored \subseteq stored'
  /\ \A c \in Sends : call[c] # "unsent" => call'[c] # "unsent"
  /\ \A c \in Sends : call[c] = "ok" => call'[c] = "ok"

\* The sends are tasks and cancellations, one of each run.
LEMMA SendsOfRuns ==
  /\ \A r \in Runs : Task(r) \in Sends /\ Cancellation(r) \in Sends
  /\ \A r, s \in Runs : Task(r) # Cancellation(s)
  /\ \A r, s \in Runs : Task(r) = Task(s) \/ Cancellation(r) = Cancellation(s) => r = s
BY RunsAssumption DEF Task, Cancellation

\* None is not a result.
LEMMA NoneIsNoResult == None \notin Results
BY RunsAssumption DEF Results

\* Every result names the task of a run.
LEMMA ResultsOfRuns == \A x \in Results : x[1] \in Runs
BY RunsAssumption DEF Results

\* What a run takes for an answer to its task is one, and is one for no other run.
LEMMA MineAnswers ==
  ASSUME NEW r \in Runs, NEW x \in Results
  PROVE  /\ Mine(r, x) <=> x \in AnswersTo(r)
         /\ x \in AnswersTo(r) => x[1] = r
BY DEF Mine, AnswersTo

-----------------------------------------------------------------------------
(* The daemon's sends *)

LEMMA InitDeliveryInv == InitDelivery => DeliveryInv
BY DEF InitDelivery, DeliveryInv, DeliveryTypeOK, SuccessMeansStored

\* The daemon's loop.
LEMMA LoopKeepsDelivery ==
  ASSUME DeliveryInv, NEW c \in Sends, LoopStep(c)
  PROVE  DeliveryInv' /\ DeliveryGoesOn /\ \A d \in Sends : call[d] = "unsent" => call'[d] = "unsent"
<1> USE DEF DeliveryInv, DeliveryTypeOK, SuccessMeansStored, DeliveryGoesOn, Answers
<1>1. CASE TakeSend(c)
  BY <1>1 DEF TakeSend
<1>2. CASE Hear(c)
  BY <1>2 DEF Hear, ReplyTo
<1>3. CASE Swallow(c)
  BY <1>3 DEF Swallow
<1>4. CASE Expire(c)
  BY <1>4 DEF Expire, Overdue
<1> QED
  BY <1>1, <1>2, <1>3, <1>4 DEF LoopStep

\* The peer and the network.
LEMMA NetworkKeepsDelivery ==
  ASSUME DeliveryInv, NEW c \in Sends, NetworkStep(c)
  PROVE  DeliveryInv' /\ DeliveryGoesOn /\ UNCHANGED call
<1> USE DEF DeliveryInv, DeliveryTypeOK, SuccessMeansStored, DeliveryGoesOn, Answers
<1>1. CASE PeerAnswers(c)
  BY <1>1 DEF PeerAnswers
<1>2. CASE RequestFails(c)
  BY <1>2 DEF RequestFails
<1>3. CASE ArriveLate(c)
  BY <1>3 DEF ArriveLate
<1> QED
  BY <1>1, <1>2, <1>3 DEF NetworkStep

\* Fetches, and the death and the restart of the daemon.
LEMMA DaemonKeepsDelivery ==
  ASSUME DeliveryInv, FetchBegins \/ FetchEnds \/ Die \/ Restart
  PROVE  DeliveryInv' /\ DeliveryGoesOn /\ \A d \in Sends : call[d] = "unsent" => call'[d] = "unsent"
<1> USE DEF DeliveryInv, DeliveryTypeOK, SuccessMeansStored, DeliveryGoesOn, Answers
<1>1. CASE FetchBegins \/ FetchEnds \/ Restart
  BY <1>1 DEF FetchBegins, FetchEnds, Restart
<1>2. CASE Die
  BY <1>2 DEF Die
<1> QED
  BY <1>1, <1>2

\* A caller sends c, which was not sent before, or gives up one in the queue.
LEMMA CallerKeepsDelivery ==
  ASSUME DeliveryInv, NEW c \in Sends, UNCHANGED <<daemon, wire, adrift, stored, faults>>,
         \/ UNCHANGED call
         \/ call[c] = "unsent" /\ Sent(c)
         \/ call[c] = "queued" /\ call' = [call EXCEPT ![c] = "failed"]
  PROVE  DeliveryInv' /\ DeliveryGoesOn
BY DEF DeliveryInv, DeliveryTypeOK, SuccessMeansStored, DeliveryGoesOn, Answers, Sent, Issued

-----------------------------------------------------------------------------
(* The runs *)

\* The types of the provider's and the inbox's variables.
RunTypeOK ==
  /\ phase \in [Runs -> {"idle", "sending", "polling", "listing", "acking", "cancelling", "over"}]
  /\ out \in [Runs -> {"none", "result", "aborted", "timeout", "broken", "rejected"}]
  /\ late \subseteq Runs
  /\ query \in [Runs -> {"none", "list", "ack", "done", "failed"}]
  /\ pick \in [Runs -> Results \cup {None}]
  /\ inbox \subseteq Results /\ processed \subseteq Results

\* The invariant, in the parts that steps disturb one by one.
Parts == DeliveryInv /\ RunTypeOK /\ RunsMatch

\* That a result taken out of the inbox is reported follows from the phases: a run
\* that timed out or was rejected has no call to the mailbox.
LEMMA InvParts == Inv <=> Parts
<1>1. TypeOK <=> DeliveryTypeOK /\ RunTypeOK
  BY DEF TypeOK, RunTypeOK
<1>2. RunTypeOK /\ RunsMatch => TakenIsReported
  BY ResultsOfRuns DEF RunTypeOK, RunsMatch, ResultsMatch, RunMatches, TakenIsReported
<1> QED
  BY <1>1, <1>2 DEF Inv, Parts, DeliveryInv

LEMMA InitParts == Init => Parts
<1> SUFFICES ASSUME Init PROVE Parts
  OBVIOUS
<1>1. DeliveryInv
  BY InitDeliveryInv DEF Init
<1>2. RunTypeOK
  BY DEF Init, RunTypeOK
<1>3. RunsMatch
  BY SendsOfRuns
     DEF Init, InitDelivery, RunsMatch, ResultsMatch, RunMatches, Working, Cancelled
<1> QED
  BY <1>1, <1>2, <1>3 DEF Parts

\* A step that leaves the run s and its results as they are.
LEMMA OtherRun ==
  ASSUME NEW s \in Runs, RunMatches(s), DeliveryGoesOn,
         call'[Task(s)] = "unsent" <=> call[Task(s)] = "unsent",
         call'[Cancellation(s)] = "unsent" <=> call[Cancellation(s)] = "unsent",
         phase'[s] = phase[s], out'[s] = out[s], query'[s] = query[s], pick'[s] = pick[s],
         pick[s] \in inbox => pick[s] \in inbox',
         pick[s] \in processed => pick[s] \in processed'
  PROVE  RunMatches(s)'
BY SendsOfRuns DEF RunMatches, DeliveryGoesOn, Working, Cancelled

\* A step that leaves the results alone, and of the runs changes r only, as it
\* must.
LEMMA OneRun ==
  ASSUME Parts, DeliveryGoesOn, NEW r \in Runs, UNCHANGED <<inbox, processed>>,
         \A s \in Runs \ {r} :
            /\ phase'[s] = phase[s] /\ out'[s] = out[s] /\ query'[s] = query[s]
            /\ pick'[s] = pick[s]
            /\ call'[Task(s)] = call[Task(s)] /\ call'[Cancellation(s)] = call[Cancellation(s)],
         RunMatches(r)',
         \A x \in processed : x[1] = r =>
            pick'[r] = x /\ query'[r] = "done" /\ phase'[r] # "listing"
  PROVE  RunsMatch'
<1>1. \A s \in Runs : RunMatches(s)'
  BY OtherRun DEF Parts, RunsMatch
<1>2. ResultsMatch'
  BY ResultsOfRuns DEF Parts, RunTypeOK, RunsMatch, ResultsMatch, DeliveryGoesOn
<1> QED
  BY <1>1, <1>2 DEF RunsMatch

\* start, and what becomes of it.
LEMMA StartKeepsParts ==
  ASSUME Parts, NEW r \in Runs, Start(r) \/ AbortStart(r) \/ SendAnswered(r)
  PROVE  Parts'
<1>1. DeliveryInv' /\ DeliveryGoesOn
  BY CallerKeepsDelivery, SendsOfRuns
     DEF Parts, RunsMatch, RunMatches, Start, AbortStart, SendAnswered, deliveryVars
<1>2. RunTypeOK'
  BY DEF Parts, RunTypeOK, Start, AbortStart, SendAnswered, Ends
<1>3. /\ UNCHANGED <<inbox, processed, query, pick>>
      /\ \A s \in Runs \ {r} :
           /\ phase'[s] = phase[s] /\ out'[s] = out[s]
           /\ call'[Task(s)] = call[Task(s)] /\ call'[Cancellation(s)] = call[Cancellation(s)]
  BY SendsOfRuns
     DEF Parts, RunTypeOK, DeliveryInv, DeliveryTypeOK, Start, AbortStart, SendAnswered, Ends, Sent,
         deliveryVars
<1>4. phase[r] \in {"idle", "sending"} /\ RunMatches(r)
  BY DEF Start, AbortStart, SendAnswered, Parts, RunsMatch
<1>5. RunMatches(r)'
  BY <1>4, SendsOfRuns
     DEF Parts, RunTypeOK, DeliveryInv, DeliveryTypeOK, RunMatches, Start, AbortStart, SendAnswered, Ends, Sent, Issued,
         Answered, Working, Cancelled, deliveryVars
<1>6. \A x \in processed : x[1] # r
  BY <1>4 DEF RunMatches, Parts, RunsMatch, ResultsMatch
<1> QED
  BY <1>1, <1>2, <1>3, <1>5, <1>6, OneRun DEF Parts

\* A run that goes through its loop: it cancels, lists, acknowledges, or leaves.
LEMMA LoopKeepsParts ==
  ASSUME Parts, NEW r \in Runs,
         \/ Cancel(r) \/ Loop(r) \/ ListAnswered(r) \/ AckAnswered(r) \/ QueryFailed(r)
         \/ CancelAnswered(r) \/ CallLost(r) \/ DeadlinePasses(r) \/ MailboxFails(r)
  PROVE  Parts'
<1> USE DEF Cancel, Loop, ListAnswered, AckAnswered, QueryFailed, CancelAnswered, CallLost,
            DeadlinePasses, MailboxFails, RequestCancel, LeavesWith, Ends, Breaks, deliveryVars, runVars
<1>1. DeliveryInv' /\ DeliveryGoesOn
  <2>1. \/ UNCHANGED call
        \/ call[Cancellation(r)] = "unsent" /\ Sent(Cancellation(r))
    BY DEF Cancelled
  <2>2. UNCHANGED <<daemon, wire, adrift, stored, faults>>
    OBVIOUS
  <2> QED
    BY <2>1, <2>2, CallerKeepsDelivery, SendsOfRuns DEF Parts
<1>2. RunTypeOK'
  BY DEF Parts, RunTypeOK
<1>3. /\ UNCHANGED <<inbox, processed, pick>>
      /\ \A s \in Runs \ {r} :
           /\ phase'[s] = phase[s] /\ out'[s] = out[s] /\ query'[s] = query[s]
           /\ call'[Task(s)] = call[Task(s)] /\ call'[Cancellation(s)] = call[Cancellation(s)]
  BY SendsOfRuns DEF Parts, RunTypeOK, DeliveryInv, DeliveryTypeOK, Sent
<1>4. RunMatches(r) /\ Task(r) \in Sends /\ Cancellation(r) \in Sends
  BY SendsOfRuns DEF Parts, RunsMatch
<1>5. /\ call'[Task(r)] = call[Task(r)]
      /\ Cancelled(r) => Cancelled(r)'
      /\ Cancelled(r)' => Cancelled(r) \/ Working(r)
  BY <1>1, <1>4, SendsOfRuns
     DEF Sent, Cancelled, Working, DeliveryGoesOn, Parts, DeliveryInv, DeliveryTypeOK
<1>6. RunMatches(r)'
  <2> USE DEF Parts, RunTypeOK, RunMatches, Working
  <2>1. CASE Cancel(r) \/ Loop(r) \/ CancelAnswered(r) \/ DeadlinePasses(r)
    BY <1>3, <1>4, <1>5, <2>1
  <2>2. CASE ListAnswered(r)
    <3>1. phase[r] = "listing" => pick[r] \notin processed
      BY <1>4, NoneIsNoResult, MineAnswers DEF RunsMatch, ResultsMatch
    <3> QED
      BY <1>3, <1>4, <1>5, <2>2, <3>1
  <2>3. CASE AckAnswered(r) \/ QueryFailed(r) \/ CallLost(r) \/ MailboxFails(r)
    BY <1>3, <1>4, <1>5, <2>3
  <2> QED
    BY <2>1, <2>2, <2>3
<1>7. \A x \in processed : x[1] = r => query'[r] = "done" /\ phase'[r] # "listing"
  BY <1>4 DEF Parts, RunTypeOK, RunMatches, RunsMatch, ResultsMatch
<1> QED
  BY <1>1, <1>2, <1>3, <1>6, <1>7, OneRun DEF Parts, RunsMatch, ResultsMatch

\* The daemon answers a listing: a run that has listed has taken no result yet.
LEMMA TakeListKeepsParts ==
  ASSUME Parts, NEW r \in Runs, TakeList(r)
  PROVE  Parts'
<1> USE DEF TakeList, deliveryVars
<1>1. DeliveryInv' /\ DeliveryGoesOn
  BY CallerKeepsDelivery, SendsOfRuns DEF Parts
<1>2. pick'[r] = pick[r] \/ (pick'[r] \in inbox /\ pick'[r] \in AnswersTo(r))
  BY MineAnswers DEF Parts, RunTypeOK
<1>3. RunTypeOK'
  BY <1>2 DEF Parts, RunTypeOK
<1>4. /\ UNCHANGED <<inbox, processed, phase, out, call>>
      /\ \A s \in Runs \ {r} : query'[s] = query[s] /\ pick'[s] = pick[s]
      /\ query'[r] = "done"
  BY DEF Parts, RunTypeOK
<1>5. RunMatches(r) /\ query[r] = "list"
  BY DEF Parts, RunsMatch
<1>6. phase[r] # "acking" /\ (phase[r] = "listing" \/ phase[r] = "over")
  BY <1>5 DEF RunMatches, Parts, RunTypeOK
<1>7. RunMatches(r)'
  BY <1>2, <1>4, <1>5, <1>6 DEF RunMatches, Working, Cancelled, Parts, RunTypeOK
<1>8. \A x \in processed : x[1] # r
  BY <1>5 DEF Parts, RunsMatch, ResultsMatch
<1> QED
  BY <1>1, <1>3, <1>4, <1>7, <1>8, OneRun DEF Parts

\* The daemon acknowledges what r has found: a result of r, in the inbox.
LEMMA TakeAckKeepsParts ==
  ASSUME Parts, NEW r \in Runs, TakeAck(r)
  PROVE  Parts'
<1> USE DEF TakeAck, Acknowledged, deliveryVars
<1>1. DeliveryInv' /\ DeliveryGoesOn
  BY CallerKeepsDelivery, SendsOfRuns DEF Parts
<1>2. RunTypeOK'
  BY DEF Parts, RunTypeOK, RunsMatch, RunMatches
<1>3. /\ UNCHANGED <<phase, out, call, pick, stored>>
      /\ \A s \in Runs \ {r} : query'[s] = query[s]
      /\ query'[r] = "done"
      /\ inbox' = inbox \ {pick[r]} /\ processed' = processed \cup {pick[r]}
  BY DEF Parts, RunTypeOK
<1>4. RunMatches(r) /\ query[r] = "ack"
  BY DEF Parts, RunsMatch
<1>5. pick[r] \in inbox /\ pick[r] \in AnswersTo(r) /\ pick[r][1] = r
  BY <1>4, NoneIsNoResult, MineAnswers DEF RunMatches, Parts, RunTypeOK
<1>6. phase[r] = "acking" \/ phase[r] = "over"
  BY <1>4 DEF RunMatches, Parts, RunTypeOK
<1>7. RunMatches(r)'
  BY <1>3, <1>4, <1>5, <1>6 DEF RunMatches, Working, Cancelled
<1>8. ASSUME NEW s \in Runs \ {r} PROVE RunMatches(s)'
  <2>1. RunMatches(s)
    BY DEF Parts, RunsMatch
  <2>2. pick[s] # pick[r]
    BY <1>5, <2>1, NoneIsNoResult, MineAnswers DEF RunMatches, Parts, RunTypeOK
  <2> QED
    BY <1>1, <1>3, <2>1, <2>2, OtherRun
<1>9. ResultsMatch'
  BY <1>3, <1>5, <1>6, ResultsOfRuns DEF Parts, RunTypeOK, RunsMatch, ResultsMatch
<1> QED
  BY <1>1, <1>2, <1>7, <1>8, <1>9 DEF Parts, RunsMatch

\* A result arrives, for a task that was stored.
LEMMA PeerResultKeepsParts ==
  ASSUME Parts, NEW x \in Results, PeerResult(x)
  PROVE  Parts'
<1> USE DEF PeerResult, deliveryVars, runVars
<1>1. DeliveryInv' /\ DeliveryGoesOn
  BY DEF Parts, DeliveryInv, DeliveryTypeOK, SuccessMeansStored, DeliveryGoesOn
<1>2. RunTypeOK'
  BY DEF Parts, RunTypeOK
<1>3. \A s \in Runs : RunMatches(s)'
  BY <1>1, OtherRun DEF Parts, RunsMatch
<1>4. ResultsMatch'
  BY DEF Parts, RunsMatch, ResultsMatch
<1> QED
  BY <1>1, <1>2, <1>3, <1>4 DEF Parts, RunsMatch

\* A step of the daemon or the network about sends alone.
LEMMA DeliveryKeepsParts ==
  ASSUME Parts, DeliveryStep
  PROVE  Parts'
<1>1. /\ DeliveryInv' /\ DeliveryGoesOn
      /\ \A d \in Sends : call'[d] = "unsent" <=> call[d] = "unsent"
  BY LoopKeepsDelivery, NetworkKeepsDelivery, DaemonKeepsDelivery DEF Parts, DeliveryStep, DeliveryGoesOn
<1>2. UNCHANGED <<runVars, inbox, processed>>
  BY DEF DeliveryStep
<1>3. RunTypeOK'
  BY <1>2 DEF Parts, RunTypeOK, runVars
<1>4. \A s \in Runs : RunMatches(s)'
  BY <1>1, <1>2, SendsOfRuns, OtherRun DEF Parts, RunsMatch, runVars
<1>5. ResultsMatch'
  BY <1>1, <1>2 DEF Parts, RunsMatch, ResultsMatch, runVars, DeliveryGoesOn
<1> QED
  BY <1>1, <1>3, <1>4, <1>5 DEF Parts, RunsMatch

\* The daemon dies, and the calls it has not answered fail.
LEMMA DieKeepsParts ==
  ASSUME Parts, DieWithQueries
  PROVE  Parts'
<1>1. /\ DeliveryInv' /\ DeliveryGoesOn
      /\ \A d \in Sends : call'[d] = "unsent" <=> call[d] = "unsent"
  BY DaemonKeepsDelivery DEF Parts, DieWithQueries, DeliveryGoesOn
<1>2. UNCHANGED <<phase, out, late, pick, inbox, processed>>
  BY DEF DieWithQueries
<1>3. query' = [r \in Runs |-> IF query[r] \in {"list", "ack"} THEN "failed" ELSE query[r]]
  BY DEF DieWithQueries
<1>4. RunTypeOK'
  BY <1>2, <1>3 DEF Parts, RunTypeOK
<1>5. ASSUME NEW s \in Runs PROVE RunMatches(s)'
  <2>1. RunMatches(s) /\ Task(s) \in Sends /\ Cancellation(s) \in Sends
    BY SendsOfRuns DEF Parts, RunsMatch
  <2>2. query'[s] = IF query[s] \in {"list", "ack"} THEN "failed" ELSE query[s]
    BY <1>3
  <2> QED
    BY <1>1, <1>2, <2>1, <2>2 DEF RunMatches, DeliveryGoesOn, Working, Cancelled
<1>6. ResultsMatch'
  BY <1>1, <1>2, <1>3, ResultsOfRuns DEF Parts, RunTypeOK, RunsMatch, ResultsMatch, DeliveryGoesOn
<1> QED
  BY <1>1, <1>4, <1>5, <1>6 DEF Parts, RunsMatch

\* Every step keeps the parts.
LEMMA NextParts == Parts /\ [Next]_vars => Parts'
<1> SUFFICES ASSUME Parts, [Next]_vars PROVE Parts'
  OBVIOUS
<1>1. ASSUME NEW r \in Runs,
             \/ Start(r) \/ AbortStart(r) \/ Cancel(r) \/ RunStep(r) \/ CallLost(r)
             \/ DeadlinePasses(r) \/ TakeList(r) \/ TakeAck(r) \/ MailboxFails(r)
      PROVE  Parts'
  BY <1>1, StartKeepsParts, LoopKeepsParts, TakeListKeepsParts, TakeAckKeepsParts DEF RunStep
<1>2. CASE UNCHANGED vars
  BY <1>2
     DEF vars, deliveryVars, runVars, Parts, DeliveryInv, DeliveryTypeOK, SuccessMeansStored,
         RunTypeOK, RunsMatch, ResultsMatch, RunMatches, Working, Cancelled
<1> QED
  BY <1>1, <1>2, PeerResultKeepsParts, DieKeepsParts, DeliveryKeepsParts DEF Next

-----------------------------------------------------------------------------
\* The invariant of delegation, whatever the number of runs and faults: success is
\* only reported of what the peer has stored, runs go with their calls and results,
\* and a result that was taken is not reported as a time-out.
THEOREM Invariance == Spec => []Inv
BY InvParts, InitParts, NextParts, PTL DEF Spec

\* A cancellation never reaches the peer before its task: a run sends it only after
\* its task was reported stored.
THEOREM CancelBehindTask == Spec => []CancelFollowsTask
<1>1. Parts => CancelFollowsTask
  <2> SUFFICES ASSUME Parts, NEW r \in Runs, Cancellation(r) \in stored
               PROVE  Task(r) \in stored
    BY DEF CancelFollowsTask
  <2>1. Cancelled(r)
    BY SendsOfRuns DEF Parts, DeliveryInv, SuccessMeansStored, Cancelled
  <2>2. call[Task(r)] = "ok"
    BY <2>1 DEF Parts, RunsMatch, RunMatches
  <2> QED
    BY <2>2, SendsOfRuns DEF Parts, DeliveryInv, SuccessMeansStored
<1> QED
  BY <1>1, InvParts, Invariance, PTL

\* How a run may end, in the step that ends it: as one that was aborted only if its
\* cancellation is sent, as one out of time only by sending it.
LEMMA EndsAsCancelled ==
  ASSUME Parts, Next, NEW r \in Runs, out'[r] # out[r], out'[r] \in {"aborted", "timeout"}
  PROVE  Cancelled(r)'
<1> USE DEF Parts, RunTypeOK
<1>1. ASSUME NEW s \in Runs, Start(s) \/ AbortStart(s) \/ SendAnswered(s) PROVE FALSE
  BY <1>1 DEF Start, AbortStart, SendAnswered, Ends
<1>2. ASSUME NEW s \in Runs,
             \/ Cancel(s) \/ DeadlinePasses(s) \/ ListAnswered(s) \/ AckAnswered(s) \/ TakeList(s)
             \/ TakeAck(s) \/ MailboxFails(s)
      PROVE  FALSE
  BY <1>2 DEF Cancel, DeadlinePasses, ListAnswered, AckAnswered, TakeList, TakeAck, MailboxFails, Ends, runVars
<1>3. ASSUME NEW s \in Runs, QueryFailed(s) \/ CallLost(s) \/ CancelAnswered(s)
      PROVE  Cancelled(r)'
  <2>1. s = r /\ UNCHANGED call
    BY <1>3 DEF QueryFailed, CallLost, CancelAnswered, Breaks, Ends, deliveryVars
  <2>2. RunMatches(r)
    BY DEF RunsMatch
  <2> QED
    BY <1>3, <2>1, <2>2
       DEF QueryFailed, CallLost, CancelAnswered, Breaks, Ends, RunMatches, Cancelled
<1>4. ASSUME NEW s \in Runs, Loop(s) PROVE Cancelled(r)'
  <2>1. s = r /\ LeavesWith(r)
    BY <1>4 DEF Loop, Ends
  <2> QED
    BY <2>1, SendsOfRuns
       DEF LeavesWith, RequestCancel, Cancelled, Sent, Issued, DeliveryInv, DeliveryTypeOK
<1>5. (\E x \in Results : PeerResult(x)) \/ DieWithQueries \/ DeliveryStep => UNCHANGED out
  BY DEF PeerResult, DieWithQueries, DeliveryStep, runVars
<1> QED
  BY <1>1, <1>2, <1>3, <1>4, <1>5 DEF Next, RunStep

\* Steps take no call back.
LEMMA NextGoesOn == Parts /\ Next => \A r \in Runs : Cancelled(r) => Cancelled(r)'
<1> SUFFICES ASSUME Parts, Next, NEW r \in Runs, Cancelled(r) PROVE Cancelled(r)'
  OBVIOUS
<1> DEFINE c == Cancellation(r)
<1>1. c \in Sends /\ call[c] # "unsent"
  BY SendsOfRuns DEF Cancelled
<1>2. ASSUME NEW s \in Runs,
             \/ Start(s) \/ AbortStart(s) \/ Cancel(s) \/ RunStep(s) \/ CallLost(s)
             \/ DeadlinePasses(s) \/ TakeList(s) \/ TakeAck(s) \/ MailboxFails(s)
      PROVE  call'[c] # "unsent"
  BY <1>1, <1>2, SendsOfRuns
     DEF Parts, DeliveryInv, DeliveryTypeOK, Start, AbortStart, Cancel, RunStep, CallLost, DeadlinePasses, TakeList,
         MailboxFails, TakeAck, SendAnswered, Loop, ListAnswered, AckAnswered, QueryFailed, CancelAnswered,
         LeavesWith, RequestCancel, Sent, Issued, deliveryVars
<1>3. CASE DeliveryStep
  BY <1>1, <1>3, LoopKeepsDelivery, NetworkKeepsDelivery, DaemonKeepsDelivery
     DEF DeliveryStep, DeliveryGoesOn, Parts, Cancelled
<1>4. CASE DieWithQueries
  BY <1>1, <1>4, DaemonKeepsDelivery DEF DieWithQueries, DeliveryGoesOn, Parts, Cancelled
<1>5. CASE \E x \in Results : PeerResult(x)
  BY <1>1, <1>5 DEF PeerResult, deliveryVars, Cancelled
<1> QED
  BY <1>2, <1>3, <1>4, <1>5 DEF Next, Cancelled

\* A run that was aborted or ran out of time has asked its peer to stop.
THEOREM LeavingCancels == Spec => []LeftIsCancelled
<1>1. Init => LeftIsCancelled
  BY DEF Init, LeftIsCancelled
<1>2. Parts /\ LeftIsCancelled /\ [Next]_vars => LeftIsCancelled'
  <2>1. Parts /\ LeftIsCancelled /\ Next => LeftIsCancelled'
    BY EndsAsCancelled, NextGoesOn DEF LeftIsCancelled
  <2>2. LeftIsCancelled /\ UNCHANGED vars => LeftIsCancelled'
    BY DEF LeftIsCancelled, Cancelled, vars, runVars, deliveryVars
  <2> QED
    BY <2>1, <2>2
<1> QED
  BY <1>1, <1>2, InvParts, Invariance, PTL DEF Spec

-----------------------------------------------------------------------------
(* The abstract runs *)

\* A step that ends r, or not, and leaves the results alone.
LEMMA EndRefines ==
  ASSUME NEW r \in Runs, out[r] = "none", UNCHANGED <<inbox, processed>>,
         NEW how \in {"result", "aborted", "timeout", "broken", "rejected"}, Ends(r, how),
         how = "result" => AnswersTo(r) \cap processed # {}
  PROVE  Abstract!Next
BY DEF Ends, Abstract!Next, Abstract!End

\* The steps of a run: each ends it, acknowledges its result, or is none of the
\* abstract runs' business.
LEMMA RunRefines ==
  ASSUME Parts, NEW r \in Runs,
         \/ Start(r) \/ AbortStart(r) \/ Cancel(r) \/ RunStep(r) \/ CallLost(r)
         \/ DeadlinePasses(r) \/ TakeList(r) \/ TakeAck(r) \/ MailboxFails(r)
  PROVE  [Abstract!Next]_<<out, inbox, processed>>
<1>1. RunMatches(r)
  BY DEF Parts, RunsMatch
<1>2. CASE \/ Start(r) \/ Cancel(r) \/ ListAnswered(r) \/ DeadlinePasses(r) \/ TakeList(r)
           \/ MailboxFails(r)
  BY <1>2 DEF Start, Cancel, ListAnswered, DeadlinePasses, TakeList, MailboxFails, runVars
<1>3. CASE AbortStart(r) \/ SendAnswered(r)
  BY <1>1, <1>3, EndRefines DEF AbortStart, SendAnswered, RunMatches
<1>4. CASE Loop(r)
  BY <1>1, <1>4, EndRefines DEF Loop, RunMatches
<1>5. CASE QueryFailed(r) \/ CancelAnswered(r) \/ CallLost(r)
  BY <1>1, <1>5, EndRefines DEF QueryFailed, CancelAnswered, CallLost, Breaks, RunMatches
<1>6. CASE AckAnswered(r)
  <2>1. phase[r] = "acking" /\ query[r] = "done"
    BY <1>6 DEF AckAnswered
  <2>2. pick[r] \in processed /\ pick[r] \in AnswersTo(r)
    BY <1>1, <2>1 DEF RunMatches
  <2> QED
    BY <1>1, <1>6, <2>1, <2>2, EndRefines DEF AckAnswered, RunMatches
<1>7. CASE TakeAck(r)
  <2>1. pick[r] \in inbox /\ pick[r] \in AnswersTo(r)
    BY <1>1, <1>7, NoneIsNoResult DEF TakeAck, RunMatches, Parts, RunTypeOK
  <2>2. AnswersTo(r) \cap processed = {}
    BY <1>7, MineAnswers DEF TakeAck, Parts, RunTypeOK, RunsMatch, ResultsMatch
  <2>3. Abstract!Take(r)
    BY <1>7, <2>1, <2>2 DEF TakeAck, Acknowledged, Abstract!Take
  <2> QED
    BY <2>3 DEF Abstract!Next
<1> QED
  BY <1>2, <1>3, <1>4, <1>5, <1>6, <1>7 DEF RunStep

\* The leader provider, its daemon and its mailbox implement the abstract runs: a
\* run takes at most one result, its own, ends once, and with a result only if it
\* took one.
THEOREM Refinement == Spec => ImplementsRuns
<1>1. Init => Abstract!Init
  BY DEF Init, Abstract!Init
<1>2. Parts /\ [Next]_vars => [Abstract!Next]_<<out, inbox, processed>>
  <2> SUFFICES ASSUME Parts, [Next]_vars PROVE [Abstract!Next]_<<out, inbox, processed>>
    OBVIOUS
  <2>1. CASE \E x \in Results : PeerResult(x)
    BY <2>1 DEF PeerResult, runVars, Abstract!Next, Abstract!Arrive
  <2>2. CASE DieWithQueries \/ DeliveryStep
    BY <2>2 DEF DieWithQueries, DeliveryStep, runVars
  <2>3. CASE UNCHANGED vars
    BY <2>3 DEF vars, runVars
  <2> QED
    BY <2>1, <2>2, <2>3, RunRefines DEF Next
<1> QED
  BY <1>1, <1>2, InvParts, Invariance, PTL DEF Spec, ImplementsRuns, Abstract!Spec, Abstract!runsVars
=============================================================================
