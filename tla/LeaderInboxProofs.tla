-------------------------- MODULE LeaderInboxProofs --------------------------
(***************************************************************************)
(* Proofs about the Leader inbox, for any sessions, tasks, cancellations,  *)
(* prompts and messages and any number of faults and crashes: a task that  *)
(* left the inbox was answered, no session owns two entries, no entry is   *)
(* left without a call, a turn or a message to go on from, and a chat slot *)
(* is answered once while the process lives.                               *)
(***************************************************************************)
EXTENDS LeaderInbox, FiniteSetTheorems, SequenceTheorems, TLAPS

\* A call is a record of the fields of Call.
CallShape ==
  \A c \in finishing :
    c = [ work |-> c.work, n |-> c.n, epoch |-> c.epoch, by |-> c.by,
          output |-> c.output, stage |-> c.stage ]

AnsweredInv == AckedTaskAnswered /\ AckFollowsResult /\ CallShape

\* What is delivered stays delivered.
LEMMA AnsweredStays ==
  ASSUME sent \subseteq sent', NEW e, Answered(e)
  PROVE  Answered(e)'
BY DEF Answered

\* A delivery for e answers e and takes nothing back.
LEMMA DeliveryAnswers ==
  ASSUME NEW e, NEW out, sent' = Delivered(e, out)
  PROVE  sent \subseteq sent' /\ Answered(e)'
<1>. DEFINE r == [ work |-> e, n |-> Cardinality({ s \in sent : s.work = e }), output |-> out ]
<1>1. sent' = sent \cup {r}
  BY DEF Delivered
<1>2. r.work = e
  OBVIOUS
<1>. HIDE DEF r
<1>. QED  BY <1>1, <1>2 DEF Answered

\* A step that acknowledges nothing and moves no call to its acknowledgement.
LEMMA NoAck ==
  ASSUME AnsweredInv, sent \subseteq sent',
         \A t \in Tasks \cap (arrived' \ inbox') : t \in arrived \ inbox,
         \A c \in finishing' :
            c.work \in Tasks /\ c.stage = "ack" => c \in finishing,
         CallShape',
         pc' = "abortAck" => pc = "abortAck" /\ current' = current,
         current' \notin Tasks
  PROVE  AnsweredInv'
BY DEF AnsweredInv, AckedTaskAnswered, AckFollowsResult, Answered

\* The shape of the calls when they are begun and ended.
LEMMA ShapeStays ==
  ASSUME CallShape, finishing' \subseteq finishing
  PROVE  CallShape'
BY DEF CallShape

\* A new call for a task, or for a chat that has something or nothing to say.
LEMMA NewCall ==
  ASSUME NEW e \in Work, NEW by, NEW out, NEW silent \in BOOLEAN, CallShape,
         BeginFinish(e, by, out, silent), silent => e \notin Tasks
  PROVE  /\ \A c \in finishing' : c.work \in Tasks /\ c.stage = "ack" => c \in finishing
         /\ CallShape'
BY DEF BeginFinish, FirstStage, CallShape

\* At the start nothing has arrived.
LEMMA AnsweredInit == Init => AnsweredInv
BY DisjointAssumption 
   DEF Init, AnsweredInv, AckedTaskAnswered, AckFollowsResult, CallShape, Work, Envelopes

\* The calls of finish and finishChat.
LEMMA AnsweredFinish ==
  ASSUME AnsweredInv, NEW c \in finishing,
         FinishSend(c) \/ FinishAck(c) \/ \E done \in BOOLEAN : FinishFails(c, done)
  PROVE  AnsweredInv'
<1>1. CASE FinishSend(c)
  <2>1. sent \subseteq sent' /\ Answered(c.work)'
    BY <1>1, DeliveryAnswers DEF FinishSend
  <2>2. AckedTaskAnswered'
    BY <1>1, <2>1, AnsweredStays DEF FinishSend, AnsweredInv, AckedTaskAnswered
  <2>3. ASSUME NEW d \in finishing', d.work \in Tasks, d.stage = "ack"
        PROVE  Answered(d.work)'
    <3>1. CASE d \in finishing
      BY <2>1, <2>3, <3>1, AnsweredStays DEF AnsweredInv, AckFollowsResult
    <3>2. CASE d = [c EXCEPT !.stage = "ack"]
      <4>0. PICK w, n, e, b, o, g : c = [ work |-> w, n |-> n, epoch |-> e, by |-> b, output |-> o, stage |-> g ]
        BY DEF AnsweredInv, CallShape
      <4>1. d.work = c.work
        BY <3>2, <4>0
      <4>. QED  BY <4>1, <2>1
    <3>. QED  BY <1>1, <3>1, <3>2 DEF FinishSend
  <2>4. (pc = "abortAck" => Answered(Target[current]))' /\ current' \notin Tasks
    BY <1>1, <2>1 DEF FinishSend, pollVars, AnsweredInv, AckFollowsResult, Answered
  <2>5. CallShape'
    <3>0. PICK w, n, e, b, o, g : c = [ work |-> w, n |-> n, epoch |-> e, by |-> b, output |-> o, stage |-> g ]
      BY DEF AnsweredInv, CallShape
    <3>1. [c EXCEPT !.stage = "ack"] = [ work |-> w, n |-> n, epoch |-> e, by |-> b, output |-> o, stage |-> "ack" ]
      BY <3>0
    <3>. QED  BY <1>1, <3>1 DEF FinishSend, AnsweredInv, CallShape
  <2>. QED  BY <2>2, <2>3, <2>4, <2>5 DEF AnsweredInv, AckFollowsResult
<1>2. CASE FinishAck(c)
  <2>1. AckedTaskAnswered'
    BY <1>2 DEF FinishAck, AnsweredInv, AckedTaskAnswered, AckFollowsResult, Answered
  <2>2. AckFollowsResult'
    BY <1>2 DEF FinishAck, AnsweredInv, AckFollowsResult, Answered
  <2>. QED  BY <1>2, <2>1, <2>2, ShapeStays DEF FinishAck, AnsweredInv
<1>3. ASSUME NEW done \in BOOLEAN, FinishFails(c, done)  PROVE AnsweredInv'
  <2>1. sent \subseteq sent'
    BY <1>3, DeliveryAnswers DEF FinishFails
  <2>2. AckedTaskAnswered'
    BY <1>3, <2>1, AnsweredStays
       DEF FinishFails, AnsweredInv, AckedTaskAnswered, AckFollowsResult
  <2>3. finishing' \subseteq finishing
    BY <1>3 DEF FinishFails
  <2>4. (pc' = "abortAck" => pc = "abortAck" /\ current' = current) /\ current' \notin Tasks
    BY <1>3, DisjointAssumption
       DEF FinishFails, PollEnds, pollVars, AnsweredInv, AckFollowsResult, Envelopes, Work
  <2>5. AckFollowsResult'
    BY <2>1, <2>3, <2>4 DEF AnsweredInv, AckFollowsResult, Answered
  <2>. QED  BY <2>2, <2>3, <2>5, ShapeStays DEF AnsweredInv
<1>. QED  BY <1>1, <1>2, <1>3

\* What arrives is in the inbox first.
LEMMA AnsweredArrive ==
  ASSUME AnsweredInv, NEW e \in Envelopes, Arrive(e)
  PROVE  AnsweredInv'
BY NoAck, ShapeStays DEF Arrive, entryVars, pollVars, AnsweredInv, AckFollowsResult

\* The sessions: a turn that ends begins a call, and never at its
\* acknowledgement when it is about a task.
LEMMA AnsweredSession ==
  ASSUME AnsweredInv, NEW l \in Leaders,
         \/ BeginTurn(l) \/ BeginUserTurn(l) \/ Speak(l) \/ EndTurn(l)
         \/ \E t \in Tasks : CompleteTool(l, t)
  PROVE  AnsweredInv'
<1>. USE DEF daemonVars, pollVars
<1>1. CASE BeginTurn(l) \/ BeginUserTurn(l) \/ Speak(l)
  BY <1>1, NoAck, ShapeStays
     DEF BeginTurn, BeginUserTurn, Speak, AnsweredInv, AckFollowsResult
<1>2. ASSUME NEW t \in Tasks, CompleteTool(l, t)  PROVE AnsweredInv'
  BY <1>2, NewCall, NoAck DEF CompleteTool, AnsweredInv, AckFollowsResult, Work
<1>3. CASE EndIdleTurn(l)
  BY <1>3, NoAck, ShapeStays DEF EndIdleTurn, TurnEnds, AnsweredInv, AckFollowsResult
<1>4. CASE EndTaskTurn(l)
  BY <1>4, NewCall, NoAck DEF EndTaskTurn, TurnEnds, AnsweredInv, AckFollowsResult, Work
<1>5. CASE EndChatTurn(l)
  <2>1. PICK p \in Prompts, silent \in BOOLEAN : BeginFinish(p, "turn", output[p], silent)
    BY <1>5 DEF EndChatTurn
  <2>2. p \in Work /\ p \notin Tasks
    BY DisjointAssumption DEF Work
  <2>. QED  BY <1>5, <2>1, <2>2, NewCall, NoAck DEF EndChatTurn, TurnEnds, AnsweredInv, AckFollowsResult
<1>. QED  BY <1>1, <1>2, <1>3, <1>4, <1>5 DEF EndTurn

\* The cancellations of a listing.
LEMMA AnsweredCancel ==
  ASSUME AnsweredInv, NEW k \in Cancels,
         \/ CancelUnstarted(k) \/ CancelRunning(k) \/ CancelPending(k) \/ CancelUnknown(k)
  PROVE  AnsweredInv'
<1>. USE DEF daemonVars, HandleCancel
<1>1. k \notin Tasks
  BY DisjointAssumption
<1>2. CASE CancelUnstarted(k)
  <2>1. Target[k] \in Work
    BY CancelAssumption DEF Work
  <2>. QED  BY <1>1, <1>2, <2>1, NewCall, NoAck DEF CancelUnstarted, AnsweredInv
<1>3. CASE CancelRunning(k) \/ CancelPending(k) \/ CancelUnknown(k)
  BY <1>1, <1>3, NoAck, ShapeStays DEF CancelRunning, CancelPending, CancelUnknown, AnsweredInv
<1>. QED  BY <1>2, <1>3

\* The poll's own calls: the aborted result goes out before its task is
\* acknowledged, and everything else it acknowledges is not a task.
LEMMA AnsweredPollCalls ==
  ASSUME AnsweredInv,
         \/ AbortSend \/ AbortAck \/ AckCancel \/ AckItem
         \/ \E done \in BOOLEAN : PollFails(done)
  PROVE  AnsweredInv'
<1>1. None \notin Tasks
  BY DisjointAssumption DEF Envelopes, Work
<1>2. CASE AbortSend
  <2>1. sent \subseteq sent' /\ Answered(Target[current])'
    BY <1>2, DeliveryAnswers DEF AbortSend
  <2>2. AckedTaskAnswered' /\ AckFollowsResult'
    BY <1>2, <2>1 DEF AbortSend, AnsweredInv, AckedTaskAnswered, AckFollowsResult, Answered
  <2>. QED  BY <1>2, <2>2, ShapeStays DEF AbortSend, AnsweredInv
<1>3. CASE AbortAck
  <2>1. AckedTaskAnswered' /\ AckFollowsResult'
    BY <1>3 DEF AbortAck, AnsweredInv, AckedTaskAnswered, AckFollowsResult, Answered
  <2>. QED  BY <1>3, <2>1, ShapeStays DEF AbortAck, AnsweredInv
<1>4. CASE AckCancel \/ AckItem
  <2>1. AckedTaskAnswered' /\ AckFollowsResult'
    BY <1>1, <1>4
       DEF AckCancel, AckItem, PollEnds, AnsweredInv, AckedTaskAnswered, AckFollowsResult, Answered
  <2>. QED  BY <1>4, <2>1, ShapeStays DEF AckCancel, AckItem, AnsweredInv
<1>5. ASSUME NEW done \in BOOLEAN, PollFails(done)  PROVE AnsweredInv'
  <2>1. sent \subseteq sent'
    BY <1>5, DeliveryAnswers DEF PollFails
  <2>2. AckedTaskAnswered'
    BY <1>5, <2>1, AnsweredStays
       DEF PollFails, AnsweredInv, AckedTaskAnswered, AckFollowsResult
  <2>3. AckFollowsResult'
    BY <1>1, <1>5, <2>1 DEF PollFails, PollEnds, AnsweredInv, AckFollowsResult, Answered
  <2>. QED  BY <1>5, <2>2, <2>3, ShapeStays DEF PollFails, AnsweredInv
<1>. QED  BY <1>2, <1>3, <1>4, <1>5

\* Listing and dispatching acknowledge nothing; what is to be acknowledged
\* later is a prompt or a plain message.
LEMMA AnsweredDispatch ==
  ASSUME AnsweredInv, List \/ DispatchStep \/ Crash
  PROVE  AnsweredInv'
<1>. USE DEF daemonVars
<1>1. None \notin Tasks /\ Tasks \cap (Prompts \cup Notes) = {}
  BY DisjointAssumption DEF Envelopes, Work
<1>2. CASE List \/ NobodyFree \/ Crash
  BY <1>1, <1>2, NoAck, ShapeStays DEF List, NobodyFree, Crash, PollEnds, AnsweredInv, AckFollowsResult
<1>3. ASSUME NEW p \in Prompts,
             AckOtherChat(p) \/ \E l \in Leaders : AskStatus(p, l) \/ RejectPrompt(p, l)
      PROVE  AnsweredInv'
  BY <1>1, <1>3, NoAck, ShapeStays DEF AskStatus, RejectPrompt, AckOtherChat, ThenAck, AnsweredInv
<1>4. ASSUME NEW p \in Prompts, NEW l \in Leaders, DispatchPrompt(p, l)  PROVE AnsweredInv'
  BY <1>1, <1>4, NoAck, ShapeStays DEF DispatchPrompt, PollEnds, AnsweredInv
<1>5. ASSUME NEW n \in Notes, NEW l \in Leaders, DeliverNote(n, l)  PROVE AnsweredInv'
  BY <1>1, <1>5, NoAck, ShapeStays DEF DeliverNote, ThenAck, AnsweredInv
<1>6. ASSUME NEW S \in SUBSET Tasks, NEW f \in [S -> Leaders], DispatchTasks(S, f)
      PROVE  AnsweredInv'
  BY <1>1, <1>6, NoAck, ShapeStays DEF DispatchTasks, PollEnds, AnsweredInv
<1>. QED  BY <1>2, <1>3, <1>4, <1>5, <1>6 DEF DispatchStep

\* Every step keeps a task in the inbox until its sender has a result.
LEMMA AnsweredNext == AnsweredInv /\ [Next]_vars => AnsweredInv'
<1>. SUFFICES ASSUME AnsweredInv, [Next]_vars  PROVE AnsweredInv'
  OBVIOUS
<1>1. CASE UNCHANGED vars
  BY <1>1 DEF vars, daemonVars, pollVars, AnsweredInv, AckedTaskAnswered, AckFollowsResult, Answered, CallShape
<1>2. CASE Next
  BY <1>2, AnsweredArrive, AnsweredFinish, AnsweredSession, AnsweredCancel, AnsweredPollCalls,
     AnsweredDispatch
     DEF Next, PollStep, FinishStep
<1>. QED  BY <1>1, <1>2

\* A task leaves the inbox only when its sender has been sent a result (finish
\* and handleCancellations send before they acknowledge).
THEOREM TaskAnsweredBeforeAck == Spec => []AckedTaskAnswered
<1>1. AnsweredInv => AckedTaskAnswered
  BY DEF AnsweredInv
<1>. QED  BY <1>1, AnsweredInit, AnsweredNext, PTL DEF Spec

-----------------------------------------------------------------------------
OwnerType == owner \in [Work -> Leaders \cup {None}]

\* The session that was free before the status call owns nothing after it: only the
\* poll makes entries.
ChoiceStands == pc = "status" => chosen \in Leaders /\ ~Busy(chosen)

\* A poll does not come to its status call, or is still there with the same choice.
ChoiceKept == pc' = "status" => pc = "status" /\ chosen' = chosen

OwnerInv  == OwnerType /\ OneEntryPerLeader /\ ChoiceStands

\* Giving free sessions one piece of work each leaves no session with two.
LEMMA DispatchKeepsOneEntry ==
  ASSUME OwnerInv, NEW S \in SUBSET Work, NEW f,
         \A e \in S : f[e] \in Leaders /\ ~Busy(f[e]),
         \A d, e \in S : f[d] = f[e] => d = e,
         Dispatch(S, f), pc' = "idle"
  PROVE  OwnerInv'
<1>1. None \notin Leaders
  BY DisjointAssumption
<1>2. \A e \in S : f[e] \in Leaders /\ (\A d \in Work : owner[d] # f[e])
  BY DEF Busy, OwnedBy
<1>3. \A e \in Work : owner'[e] = IF e \in S THEN f[e] ELSE owner[e]
  BY DEF Dispatch
<1>4. OwnerType'
  BY <1>2 DEF Dispatch, OwnerInv, OwnerType
<1>5. ASSUME NEW d \in Work, NEW e \in Work, owner'[d] # None, owner'[d] = owner'[e]
      PROVE  d = e
  <2>1. CASE d \in S <=> e \in S
    BY <1>3, <1>5, <2>1 DEF OwnerInv, OneEntryPerLeader
  <2>2. CASE ~(d \in S <=> e \in S)
    BY <1>2, <1>3, <1>5, <2>2
  <2>. QED  BY <2>1, <2>2
<1>. QED  BY <1>4, <1>5 DEF OwnerInv, OneEntryPerLeader, ChoiceStands

\* Taking entries away leaves no session with two.
LEMMA RemovalKeepsOneEntry ==
  ASSUME OwnerInv, OwnerType', \A e \in Work : owner'[e] \in {owner[e], None}, ChoiceKept
  PROVE  OwnerInv'
BY DisjointAssumption
   DEF OwnerInv, OneEntryPerLeader, ChoiceStands, ChoiceKept, Busy, OwnedBy

\* At the start no session owns anything.
LEMMA OwnerInit == Init => OwnerInv
BY DEF Init, OwnerInv, OwnerType, OneEntryPerLeader, ChoiceStands

\* Every step leaves a session with one unfinished task or chat at most.
LEMMA OwnerNext == OwnerInv /\ [Next]_vars => OwnerInv'
<1>. SUFFICES ASSUME OwnerInv, [Next]_vars  PROVE OwnerInv'
  OBVIOUS
<1>0. ASSUME UNCHANGED owner, ChoiceKept  PROVE OwnerInv'
  <2>1. OwnerType' /\ \A e \in Work : owner'[e] \in {owner[e], None}
    BY <1>0 DEF OwnerInv, OwnerType
  <2>. QED  BY <1>0, <2>1, RemovalKeepsOneEntry
<1>1. ASSUME NEW e \in Envelopes, Arrive(e)  PROVE OwnerInv'
  BY <1>0, <1>1 DEF Arrive, entryVars, pollVars, ChoiceKept
<1>2. ASSUME NEW c \in finishing, FinishStep(c)  PROVE OwnerInv'
  <2>1. CASE FinishSend(c)
    BY <1>0, <2>1 DEF FinishSend, entryVars, pollVars, ChoiceKept
  <2>2. CASE FinishAck(c)
    <3>1. owner' = owner \/ owner' = [owner EXCEPT ![c.work] = None]
      BY <2>2 DEF FinishAck, EndEntry
    <3>2. OwnerType' /\ \A e \in Work : owner'[e] \in {owner[e], None}
      BY <3>1 DEF OwnerInv, OwnerType
    <3>3. ChoiceKept
      BY <2>2 DEF FinishAck, ChoiceKept
    <3>. QED  BY <3>2, <3>3, RemovalKeepsOneEntry
  <2>. QED  BY <1>2, <2>1, <2>2 DEF FinishStep
<1>3. ASSUME NEW c \in finishing, NEW done \in BOOLEAN, FinishFails(c, done)  PROVE OwnerInv'
  BY <1>0, <1>3 DEF FinishFails, PollEnds, entryVars, pollVars, ChoiceKept
<1>4. ASSUME NEW l \in Leaders,
             \/ BeginTurn(l) \/ BeginUserTurn(l) \/ Speak(l) \/ EndTurn(l)
             \/ \E t \in Tasks : CompleteTool(l, t)
      PROVE  OwnerInv'
  BY <1>0, <1>4
     DEF BeginTurn, BeginUserTurn, Speak, EndTurn, EndIdleTurn, EndTaskTurn, EndChatTurn, TurnEnds,
         CompleteTool, entryVars, pollVars, ChoiceKept
<1>5. ASSUME NEW k \in Cancels,
             \/ CancelUnstarted(k) \/ CancelRunning(k) \/ CancelPending(k) \/ CancelUnknown(k)
      PROVE  OwnerInv'
  BY <1>0, <1>5
     DEF CancelUnstarted, CancelRunning, CancelPending, CancelUnknown, HandleCancel, entryVars, ChoiceKept
<1>6. CASE List \/ AbortSend \/ AbortAck \/ AckCancel \/ AckItem \/ NobodyFree
  BY <1>0, <1>6
     DEF List, AbortSend, AbortAck, AckCancel, AckItem, NobodyFree, PollEnds, entryVars, ChoiceKept
<1>7. ASSUME NEW done \in BOOLEAN, PollFails(done)  PROVE OwnerInv'
  BY <1>0, <1>7 DEF PollFails, PollEnds, entryVars, ChoiceKept
<1>8. ASSUME NEW p \in Prompts, AckOtherChat(p) \/ \E l \in Leaders : RejectPrompt(p, l)
      PROVE  OwnerInv'
  BY <1>0, <1>8 DEF RejectPrompt, AckOtherChat, ThenAck, entryVars, ChoiceKept
<1>9. ASSUME NEW n \in Notes, NEW l \in Leaders, DeliverNote(n, l)  PROVE OwnerInv'
  BY <1>0, <1>9 DEF DeliverNote, ThenAck, entryVars, ChoiceKept
<1>10. ASSUME NEW p \in Prompts, NEW l \in Leaders, DispatchPrompt(p, l)  PROVE OwnerInv'
  <2>. DEFINE f == [e \in {p} |-> l]
  <2>1. {p} \in SUBSET Work /\ Dispatch({p}, f) /\ pc' = "idle" /\ l \in Leaders /\ ~Busy(l)
    BY <1>10 DEF DispatchPrompt, Chose, FreeLeaders, PollEnds, Work, OwnerInv, ChoiceStands
  <2>2. f[p] = l
    OBVIOUS
  <2>. HIDE DEF f
  <2>. QED  BY <2>1, <2>2, DispatchKeepsOneEntry
<1>11. ASSUME NEW S \in SUBSET Tasks, NEW f \in [S -> Leaders], DispatchTasks(S, f)
       PROVE  OwnerInv'
  BY <1>11, DispatchKeepsOneEntry DEF DispatchTasks, FreeLeaders, PollEnds, Work
<1>12. CASE Crash
  BY <1>12 DEF Crash, PollEnds, OwnerInv, OwnerType, OneEntryPerLeader, ChoiceStands
<1>13. CASE UNCHANGED vars
  BY <1>0, <1>13 DEF vars, entryVars, pollVars, ChoiceKept
<1>14. ASSUME NEW p \in Prompts, NEW l \in Leaders, AskStatus(p, l)  PROVE OwnerInv'
  BY <1>14 DEF AskStatus, FreeLeaders, Busy, OwnedBy, entryVars, OwnerInv, OwnerType, OneEntryPerLeader,
               ChoiceStands
<1>15. CASE DispatchStep
  BY <1>6, <1>8, <1>9, <1>10, <1>11, <1>14, <1>15 DEF DispatchStep
<1>. QED
  BY <1>1, <1>2, <1>3, <1>4, <1>5, <1>6, <1>7, <1>12, <1>13, <1>15 DEF Next, PollStep

\* A session never owns two unfinished tasks or chats, so a turn that ends is
\* attributed to one of them (onEvent) and beginInboundTask never throws.
THEOREM OneEntry == Spec => []OneEntryPerLeader
<1>1. OwnerInv => OneEntryPerLeader
  BY DEF OwnerInv
<1>. QED  BY <1>1, OwnerInit, OwnerNext, PTL DEF Spec
-----------------------------------------------------------------------------
(* Types *)

\* The calls and the results are finitely many, and a result that the poll
\* itself sends is about the task of a cancellation.
CallsFinite == IsFiniteSet(finishing) /\ IsFiniteSet(sent)
AbortsCancel == pc \in {"abortSend", "abortAck"} => current \in Cancels

TypeInv == TypeOK /\ CallsFinite /\ AbortsCancel

\* The followups a session may have before it.
Followups == [ about : Envelopes, epoch : Nat ]

\* There is a number for the next call: k calls take k numbers at most.
LEMMA FreshCallFound ==
  ASSUME finishing \subseteq Call, IsFiniteSet(finishing), NEW e
  PROVE  FreshCall(e) \in Nat
<1>. DEFINE k == Cardinality(finishing)
<1>1. k \in Nat
  BY FS_CardinalityType
<1>2. SUFFICES ASSUME \A n \in 0..k : \E c \in finishing : c.work = e /\ c.n = n
               PROVE  FALSE
  BY <1>1 DEF FreshCall
<1>. DEFINE f == [n \in 0..k |-> CHOOSE c \in finishing : c.n = n]
<1>3. \A n \in 0..k : f[n] \in finishing /\ f[n].n = n
  BY <1>2
<1>4. f \in [0..k -> finishing]
  BY <1>3
<1>5. IsFiniteSet(0..k) /\ Cardinality(0..k) = k + 1
  BY <1>1, FS_Interval
<1>6. \E m, n \in 0..k : m # n /\ f[m] = f[n]
  <2>. HIDE DEF f
  <2>. QED  BY <1>1, <1>4, <1>5, FS_PigeonHole
<1>. QED  BY <1>3, <1>6

\* A delivery adds one result.
LEMMA DeliveryIsResult ==
  ASSUME sent \subseteq Result, IsFiniteSet(sent), NEW e \in Work, NEW out \in Outputs,
         sent' = Delivered(e, out)
  PROVE  sent' \subseteq Result /\ IsFiniteSet(sent')
<1>. DEFINE n == Cardinality({ s \in sent : s.work = e })
            r == [ work |-> e, n |-> n, output |-> out ]
<1>1. n \in Nat
  <2>1. { s \in sent : s.work = e } \subseteq sent
    OBVIOUS
  <2>. QED  BY <2>1, FS_Subset, FS_CardinalityType
<1>2. r \in Result
  BY <1>1 DEF Result
<1>3. sent' = sent \cup {r}
  BY DEF Delivered
<1>. HIDE DEF r
<1>. QED  BY <1>2, <1>3, FS_AddElement

\* A call that begins is one more call.
LEMMA BegunIsCall ==
  ASSUME finishing \subseteq Call, IsFiniteSet(finishing), epoch \in [Work -> Nat],
         NEW e \in Work, NEW by \in {"turn", "tool", "cancel"}, NEW out \in Outputs,
         NEW silent \in BOOLEAN, BeginFinish(e, by, out, silent)
  PROVE  finishing' \subseteq Call /\ IsFiniteSet(finishing')
<1>. DEFINE c == [ work |-> e, n |-> FreshCall(e), epoch |-> epoch[e], by |-> by,
                   output |-> out, stage |-> FirstStage(silent) ]
<1>1. c \in Call
  BY FreshCallFound DEF Call, FirstStage
<1>2. finishing' = finishing \cup {c}
  BY DEF BeginFinish
<1>. HIDE DEF c
<1>. QED  BY <1>1, <1>2, FS_AddElement

\* A sequence with one element removed.
LEMMA Removed ==
  ASSUME NEW S, NEW s \in Seq(S), NEW i \in 1..Len(s)
  PROVE  /\ RemoveAt(s, i) \in Seq(S)
         /\ \A x : Contains(s, x) /\ x # s[i] => Contains(RemoveAt(s, i), x)
<1>. DEFINE a == SubSeq(s, 1, i - 1)
            b == SubSeq(s, i + 1, Len(s))
            n == Len(s)
<1>1. n \in Nat /\ i \in 1..n
  OBVIOUS
<1>2. /\ a \in Seq(S) /\ Len(a) = i - 1
      /\ \A j \in 1..(i - 1) : a[j] = s[j]
  BY <1>1
<1>3. /\ b \in Seq(S) /\ Len(b) = n - i
      /\ \A j \in 1..(n - i) : b[j] = s[i + j]
  BY <1>1
<1>4. RemoveAt(s, i) = a \o b
  BY DEF RemoveAt
<1>. HIDE DEF a, b
<1>5. /\ a \o b \in Seq(S) /\ Len(a \o b) = n - 1
      /\ \A j \in 1..(i - 1) : (a \o b)[j] = s[j]
      /\ \A j \in 1..(n - i) : (a \o b)[i - 1 + j] = s[i + j]
  <2>1. a \o b \in Seq(S) /\ Len(a \o b) = n - 1
    <3>1. a \o b \in Seq(S) /\ Len(a \o b) = Len(a) + Len(b)
      BY <1>2, <1>3, ConcatProperties
    <3>. QED  BY <1>1, <1>2, <1>3, <3>1
  <2>2. \A m \in 1..(n - 1) : (a \o b)[m] = IF m <= i - 1 THEN a[m] ELSE b[m - (i - 1)]
    BY <1>1, <1>2, <1>3
  <2>3. \A j \in 1..(i - 1) : (a \o b)[j] = s[j]
    BY <1>1, <1>2, <2>2
  <2>4. ASSUME NEW j \in 1..(n - i)  PROVE (a \o b)[i - 1 + j] = s[i + j]
    <3>1. /\ i - 1 + j \in 1..(n - 1) /\ ~(i - 1 + j <= i - 1)
          /\ (i - 1 + j) - (i - 1) = j
      BY <1>1
    <3>. QED  BY <1>3, <2>2, <3>1
  <2>. QED  BY <2>1, <2>3, <2>4
<1>6. ASSUME NEW x, NEW j \in 1..n, s[j] = x, x # s[i]
      PROVE  \E m \in 1..(n - 1) : (a \o b)[m] = x
  <2>1. CASE j < i
    BY <1>1, <1>5, <1>6, <2>1
  <2>2. CASE j > i
    <3>1. j - i \in 1..(n - i) /\ i - 1 + (j - i) \in 1..(n - 1) /\ i + (j - i) = j
      BY <1>1, <2>2
    <3>. QED  BY <1>5, <1>6, <3>1
  <2>3. j # i /\ (j # i => j < i \/ j > i)
    <3>1. j # i
      BY <1>6
    <3>. QED  BY <1>1, <3>1
  <2>. QED  BY <2>1, <2>2, <2>3
<1>7. ASSUME NEW x, Contains(s, x), x # s[i]  PROVE Contains(RemoveAt(s, i), x)
  <2>1. PICK j \in 1..n : s[j] = x
    BY <1>7 DEF Contains
  <2>2. \E m \in 1..(n - 1) : (a \o b)[m] = x
    BY <1>6, <1>7, <2>1
  <2>. QED  BY <1>4, <1>5, <2>2 DEF Contains
<1>8. RemoveAt(s, i) \in Seq(S)
  BY <1>4, <1>5
<1>9. \A x : Contains(s, x) /\ x # s[i] => Contains(RemoveAt(s, i), x)
  BY <1>7
<1>. QED  BY <1>8, <1>9

\* The parts of TypeInv that the steps disturb one by one.
DaemonOK   == arrived \subseteq Envelopes /\ inbox \subseteq arrived /\ sent \subseteq Result /\ IsFiniteSet(sent)
SessionOK  == /\ queue \in [Leaders -> Seq(Followups)] /\ turn \in [Leaders -> Outputs]
              /\ stopping \subseteq Leaders
EntryOK    == /\ owner \in [Work -> Leaders \cup {None}] /\ started \subseteq Work
              /\ output \in [Work -> Outputs] /\ epoch \in [Work -> Nat]
SlotsOK    == slots \in Seq({ Slot[p] : p \in Prompts })
CallsOK    == finishing \subseteq Call /\ IsFiniteSet(finishing)
PollOK     == /\ pc \in {"idle", "listed", "removing", "abortSend", "abortAck", "ackCancel", "status", "ackItem"}
              /\ items \subseteq arrived /\ current \in Envelopes \cup {None} /\ AbortsCancel
              /\ chosen \in Leaders \cup {None}
              /\ knowsSelf \in BOOLEAN
CountersOK == toolCalls \in Nat /\ faults \in Nat /\ crashes \in Nat /\ userTurns \in Nat

Kinds == DaemonOK /\ SessionOK /\ EntryOK /\ SlotsOK /\ CallsOK /\ PollOK /\ CountersOK

\* The invariant is its parts.
LEMMA TypeInvParts == TypeInv <=> Kinds
BY DEF TypeInv, TypeOK, CallsFinite, Kinds, DaemonOK, SessionOK, EntryOK, SlotsOK, CallsOK, PollOK,
       CountersOK, Followups

\* What an unchanged group of variables keeps.
LEMMA KindsKept ==
  ASSUME Kinds
  PROVE  /\ UNCHANGED daemonVars => DaemonOK'
         /\ UNCHANGED sessionVars => SessionOK'
         /\ UNCHANGED entryVars => EntryOK' /\ SlotsOK'
         /\ UNCHANGED finishing => CallsOK'
         /\ UNCHANGED pollVars /\ UNCHANGED arrived => PollOK'
         /\ UNCHANGED counterVars => CountersOK'
BY DEF Kinds, DaemonOK, SessionOK, EntryOK, SlotsOK, CallsOK, PollOK, CountersOK, AbortsCancel,
       daemonVars, sessionVars, entryVars, pollVars, counterVars

\* The end of a poll.
LEMMA EndedPoll ==
  ASSUME Kinds, PollEnds, knowsSelf' \in {knowsSelf, TRUE, FALSE}
  PROVE  PollOK'
BY DEF PollEnds, Kinds, PollOK, AbortsCancel

\* At the start everything is empty.
LEMMA KindsInit == Init => Kinds
<1>. SUFFICES ASSUME Init  PROVE Kinds
  OBVIOUS
<1>1. DaemonOK /\ CallsOK
  BY FS_EmptySet DEF Init, DaemonOK, CallsOK
<1>2. SessionOK
  BY EmptySeq DEF Init, SessionOK, Outputs
<1>3. EntryOK /\ SlotsOK /\ PollOK /\ CountersOK
  BY EmptySeq DEF Init, EntryOK, SlotsOK, PollOK, AbortsCancel, CountersOK, Outputs
<1>. QED  BY <1>1, <1>2, <1>3 DEF Kinds

\* An envelope arrives.
LEMMA KindsArrive ==
  ASSUME Kinds, NEW e \in Envelopes, Arrive(e)
  PROVE  Kinds'
<1>1. DaemonOK' /\ PollOK'
  BY DEF Arrive, Kinds, DaemonOK, PollOK, AbortsCancel, pollVars
<1>. QED  BY <1>1, KindsKept DEF Arrive, Kinds

\* The calls of finish and finishChat.
LEMMA KindsFinish ==
  ASSUME Kinds, NEW c \in finishing,
         FinishSend(c) \/ FinishAck(c) \/ \E done \in BOOLEAN : FinishFails(c, done)
  PROVE  Kinds'
<1>1. c \in Call /\ c.work \in Work /\ c.output \in Outputs
  BY DEF Kinds, CallsOK, Call
<1>2. IsFiniteSet(finishing \ {c})
  BY FS_RemoveElement DEF Kinds, CallsOK
<1>3. CASE FinishSend(c)
  <2>1. DaemonOK'
    BY <1>1, <1>3, DeliveryIsResult DEF FinishSend, Kinds, DaemonOK
  <2>2. [c EXCEPT !.stage = "ack"] \in Call
    BY <1>1 DEF Call
  <2>3. CallsOK'
    <3>. DEFINE d == [c EXCEPT !.stage = "ack"]
    <3>1. finishing' = (finishing \ {c}) \cup {d} /\ d \in Call
      BY <1>3, <2>2 DEF FinishSend
    <3>. HIDE DEF d
    <3>. QED  BY <1>2, <3>1, FS_AddElement DEF Kinds, CallsOK
  <2>. QED  BY <1>3, <2>1, <2>3, KindsKept DEF FinishSend, Kinds
<1>4. CASE FinishAck(c)
  <2>1. DaemonOK' /\ SlotsOK' /\ PollOK'
    BY <1>4 DEF FinishAck, Kinds, DaemonOK, SlotsOK, PollOK, AbortsCancel
  <2>2. EntryOK'
    <3>1. CASE UNCHANGED <<owner, started, output>>
      BY <1>4, <3>1 DEF FinishAck, Kinds, EntryOK
    <3>2. CASE /\ owner' = [owner EXCEPT ![c.work] = None]
               /\ started' = started \ {c.work}
               /\ output' = [output EXCEPT ![c.work] = None]
      BY <1>4, <3>2 DEF FinishAck, Kinds, EntryOK, Outputs
    <3>. QED  BY <1>4, <3>1, <3>2 DEF FinishAck, EndEntry
  <2>3. CallsOK'
    BY <1>2, <1>4 DEF FinishAck, Kinds, CallsOK
  <2>. QED  BY <1>4, <2>1, <2>2, <2>3, KindsKept DEF FinishAck, Kinds
<1>5. ASSUME NEW done \in BOOLEAN, FinishFails(c, done)  PROVE Kinds'
  <2>1. DaemonOK'
    <3>1. sent' \subseteq Result /\ IsFiniteSet(sent')
      BY <1>1, <1>5, DeliveryIsResult DEF FinishFails, Kinds, DaemonOK
    <3>. QED  BY <1>5, <3>1 DEF FinishFails, Kinds, DaemonOK
  <2>2. CallsOK' /\ CountersOK'
    BY <1>2, <1>5 DEF FinishFails, Kinds, CallsOK, CountersOK
  <2>3. PollOK'
    BY <1>5, EndedPoll, KindsKept DEF FinishFails
  <2>. QED  BY <1>5, <2>1, <2>2, <2>3, KindsKept DEF FinishFails, Kinds
<1>. QED  BY <1>3, <1>4, <1>5

\* The sessions' turns.
LEMMA KindsSession ==
  ASSUME Kinds, NEW l \in Leaders,
         \/ BeginTurn(l) \/ BeginUserTurn(l) \/ Speak(l) \/ EndTurn(l)
         \/ \E t \in Tasks : CompleteTool(l, t)
  PROVE  Kinds'
<1>1. CASE BeginTurn(l)
  <2>. DEFINE s == queue[l]
  <2>1. s \in Seq(Followups) /\ s # <<>>
    BY <1>1 DEF BeginTurn, Kinds, SessionOK
  <2>2. Head(s) \in Followups /\ Tail(s) \in Seq(Followups)
    <3>. HIDE DEF s
    <3>. QED  BY <2>1, HeadTailProperties
  <2>3. Head(s).about \in Outputs
    <3>. HIDE DEF s
    <3>. QED  BY <2>2 DEF Followups, Outputs
  <2>4. /\ queue' = [queue EXCEPT ![l] = Tail(s)] /\ turn' = [turn EXCEPT ![l] = Head(s).about]
        /\ UNCHANGED stopping
    BY <1>1 DEF BeginTurn
  <2>5. SessionOK'
    <3>. HIDE DEF s
    <3>. QED  BY <2>2, <2>3, <2>4 DEF Kinds, SessionOK
  <2>6. EntryOK' /\ SlotsOK'
    <3>1. started' \subseteq Work
      BY <1>1 DEF BeginTurn, OwnedBy, Kinds, EntryOK
    <3>. QED  BY <1>1, <3>1 DEF BeginTurn, Kinds, EntryOK, SlotsOK
  <2>. QED  BY <1>1, <2>5, <2>6, KindsKept DEF BeginTurn, Kinds, daemonVars
<1>2. CASE BeginUserTurn(l)
  <2>1. SessionOK' /\ CountersOK'
    BY <1>2 DEF BeginUserTurn, Kinds, SessionOK, CountersOK, Outputs
  <2>. QED  BY <1>2, <2>1, KindsKept DEF BeginUserTurn, Kinds, daemonVars
<1>3. CASE Speak(l)
  <2>1. EntryOK' /\ SlotsOK'
    BY <1>3 DEF Speak, Kinds, EntryOK, SlotsOK, SessionOK
  <2>. QED  BY <1>3, <2>1, KindsKept DEF Speak, Kinds, daemonVars
<1>4. ASSUME NEW t \in Tasks, CompleteTool(l, t)  PROVE Kinds'
  <2>1. t \in Work /\ turn[l] \in Outputs
    BY DEF Work, Kinds, SessionOK
  <2>2. CallsOK'
    BY <1>4, <2>1, BegunIsCall DEF CompleteTool, Kinds, CallsOK, EntryOK
  <2>3. CountersOK'
    BY <1>4 DEF CompleteTool, Kinds, CountersOK
  <2>. QED  BY <1>4, <2>2, <2>3, KindsKept DEF CompleteTool, Kinds, daemonVars
<1>5. ASSUME TurnEnds(l), CallsOK'  PROVE Kinds'
  <2>1. SessionOK'
    BY <1>5 DEF TurnEnds, Kinds, SessionOK, Outputs
  <2>. QED  BY <1>5, <2>1, KindsKept DEF TurnEnds, Kinds, daemonVars
<1>6. CASE EndIdleTurn(l)
  BY <1>5, <1>6, KindsKept DEF EndIdleTurn
<1>7. CASE EndTaskTurn(l)
  <2>1. PICK t \in Tasks : BeginFinish(t, "turn", output[t], FALSE)
    BY <1>7 DEF EndTaskTurn
  <2>2. t \in Work /\ output[t] \in Outputs
    BY DEF Work, Kinds, EntryOK
  <2>3. CallsOK'
    BY <2>1, <2>2, BegunIsCall DEF Kinds, CallsOK, EntryOK
  <2>. QED  BY <1>5, <1>7, <2>3 DEF EndTaskTurn
<1>8. CASE EndChatTurn(l)
  <2>1. PICK p \in Prompts, silent \in BOOLEAN : BeginFinish(p, "turn", output[p], silent)
    BY <1>8 DEF EndChatTurn
  <2>2. p \in Work /\ output[p] \in Outputs
    BY DEF Work, Kinds, EntryOK
  <2>3. CallsOK'
    BY <2>1, <2>2, BegunIsCall DEF Kinds, CallsOK, EntryOK
  <2>. QED  BY <1>5, <1>8, <2>3 DEF EndChatTurn
<1>. QED  BY <1>1, <1>2, <1>3, <1>4, <1>6, <1>7, <1>8 DEF EndTurn

\* The cancellations of a listing.
LEMMA KindsCancel ==
  ASSUME Kinds, NEW k \in Cancels,
         \/ CancelUnstarted(k) \/ CancelRunning(k) \/ CancelPending(k) \/ CancelUnknown(k)
  PROVE  Kinds'
<1>. DEFINE t == Target[k]
            l == owner[t]
<1>1. t \in Tasks /\ t \in Work
  BY CancelAssumption DEF Work
<1>2. HandleCancel(k) /\ pc' \in {"removing", "ackCancel", "abortSend"}
  BY DEF CancelUnstarted, CancelRunning, CancelPending, CancelUnknown
<1>3. DaemonOK' /\ EntryOK' /\ SlotsOK' /\ CountersOK'
  BY <1>2, KindsKept DEF HandleCancel, Kinds
<1>4. PollOK'
  BY <1>2 DEF HandleCancel, Kinds, PollOK, AbortsCancel, daemonVars, Envelopes
<1>5. CASE CancelUnstarted(k)
  <2>1. t \in Active /\ l \in Leaders
    BY <1>5 DEF CancelUnstarted, Active, Kinds, EntryOK, Work
  <2>2. CallsOK'
    <3>1. BeginFinish(t, "cancel", None, FALSE)
      BY <1>5 DEF CancelUnstarted
    <3>. HIDE DEF t
    <3>. QED  BY <1>1, <3>1, BegunIsCall DEF Kinds, CallsOK, EntryOK, Outputs
  <2>3. PICK i \in DOMAIN queue[l] : queue' = [queue EXCEPT ![l] = RemoveAt(queue[l], i)]
    BY <1>5 DEF CancelUnstarted
  <2>4. queue[l] \in Seq(Followups) /\ i \in 1..Len(queue[l])
    BY <2>1, <2>3 DEF Kinds, SessionOK
  <2>5. RemoveAt(queue[l], i) \in Seq(Followups)
    BY <2>4, Removed
  <2>6. SessionOK'
    <3>1. UNCHANGED <<turn, stopping>>
      BY <1>5, <1>2 DEF CancelUnstarted, HandleCancel
    <3>. HIDE DEF l
    <3>. QED  BY <2>1, <2>3, <2>5, <3>1 DEF Kinds, SessionOK
  <2>. QED  BY <1>3, <1>4, <2>2, <2>6 DEF Kinds
<1>6. CASE CancelRunning(k) \/ CancelPending(k) \/ CancelUnknown(k)
  <2>1. CallsOK'
    BY <1>6, KindsKept DEF CancelRunning, CancelPending, CancelUnknown
  <2>2. stopping' \subseteq Leaders
    BY <1>1, <1>6 DEF CancelRunning, CancelPending, CancelUnknown, Active, Kinds, EntryOK, SessionOK
  <2>3. SessionOK'
    BY <1>2, <1>6, <2>2
       DEF CancelRunning, CancelPending, CancelUnknown, HandleCancel, Kinds, SessionOK
  <2>. QED  BY <1>3, <1>4, <2>1, <2>3 DEF Kinds
<1>. QED  BY <1>5, <1>6

\* The calls of the poll.
LEMMA KindsPollCalls ==
  ASSUME Kinds,
         \/ AbortSend \/ AbortAck \/ AckCancel \/ AckItem
         \/ \E done \in BOOLEAN : PollFails(done)
  PROVE  Kinds'
<1>1. ASSUME pc = "abortSend"  PROVE Target[current] \in Work
  BY <1>1, CancelAssumption DEF Kinds, PollOK, AbortsCancel, Work
<1>2. None \in Outputs
  BY DEF Outputs
<1>3. CASE AbortSend
  <2>1. DaemonOK'
    BY <1>1, <1>2, <1>3, DeliveryIsResult DEF AbortSend, Kinds, DaemonOK
  <2>2. PollOK'
    BY <1>3 DEF AbortSend, Kinds, PollOK, AbortsCancel
  <2>. QED  BY <1>3, <2>1, <2>2, KindsKept DEF AbortSend, Kinds
<1>4. CASE AbortAck \/ AckCancel
  <2>1. DaemonOK' /\ PollOK'
    BY <1>4 DEF AbortAck, AckCancel, Kinds, DaemonOK, PollOK, AbortsCancel
  <2>. QED  BY <1>4, <2>1, KindsKept DEF AbortAck, AckCancel, Kinds
<1>5. CASE AckItem
  <2>1. DaemonOK'
    BY <1>5 DEF AckItem, Kinds, DaemonOK
  <2>. QED  BY <1>5, <2>1, KindsKept, EndedPoll DEF AckItem, Kinds
<1>6. ASSUME NEW done \in BOOLEAN, PollFails(done)  PROVE Kinds'
  <2>1. sent' \subseteq Result /\ IsFiniteSet(sent')
    BY <1>1, <1>2, <1>6, DeliveryIsResult DEF PollFails, Kinds, DaemonOK
  <2>2. inbox' \subseteq inbox
    BY <1>6 DEF PollFails
  <2>3. DaemonOK' /\ CountersOK'
    BY <1>6, <2>1, <2>2 DEF PollFails, Kinds, DaemonOK, CountersOK
  <2>. QED  BY <1>6, <2>3, KindsKept, EndedPoll DEF PollFails, Kinds
<1>. QED  BY <1>3, <1>4, <1>5, <1>6

\* New entries for free sessions.
LEMMA DispatchOK ==
  ASSUME Kinds, NEW S \in SUBSET Work, NEW f, \A e \in S : f[e] \in Leaders, Dispatch(S, f)
  PROVE  EntryOK' /\ queue' \in [Leaders -> Seq(Followups)]
<1>1. EntryOK'
  BY DEF Dispatch, Kinds, EntryOK, Outputs
<1>2. ASSUME NEW l \in Leaders  PROVE queue'[l] \in Seq(Followups)
  <2>1. queue[l] \in Seq(Followups)
    BY DEF Kinds, SessionOK
  <2>2. CASE ~\E e \in S : f[e] = l
    BY <2>1, <2>2 DEF Dispatch
  <2>3. CASE \E e \in S : f[e] = l
    <3>. DEFINE e == CHOOSE d \in S : f[d] = l
    <3>1. e \in S /\ queue'[l] = Append(queue[l], Followup(e, epoch[e] + 1))
      BY <2>3 DEF Dispatch
    <3>2. Followup(e, epoch[e] + 1) \in Followups
      <4>1. e \in Work /\ epoch[e] + 1 \in Nat
        BY <3>1 DEF Kinds, EntryOK
      <4>. HIDE DEF e
      <4>. QED  BY <4>1 DEF Followup, Followups, Envelopes
    <3>. HIDE DEF e
    <3>. QED  BY <2>1, <3>1, <3>2
  <2>. QED  BY <2>2, <2>3
<1>3. queue' = [l \in Leaders |-> queue'[l]]
  BY DEF Dispatch
<1>. QED  BY <1>1, <1>2, <1>3

\* Listing and dispatching, and the death of the process.
LEMMA KindsDispatch ==
  ASSUME Kinds, List \/ DispatchStep \/ Crash
  PROVE  Kinds'
<1>1. CASE List \/ NobodyFree
  <2>1. CASE List
    <3>1. PollOK'
      BY <2>1 DEF List, Kinds, DaemonOK, PollOK, AbortsCancel, daemonVars
    <3>. QED  BY <2>1, <3>1, KindsKept DEF List, Kinds
  <2>2. CASE NobodyFree
    BY <2>2, KindsKept, EndedPoll DEF NobodyFree, Kinds
  <2>. QED  BY <1>1, <2>1, <2>2
<1>2. ASSUME NEW p \in Prompts,
             AckOtherChat(p) \/ \E l \in Leaders : AskStatus(p, l) \/ RejectPrompt(p, l)
      PROVE  Kinds'
  <2>1. PollOK'
    BY <1>2
       DEF AskStatus, RejectPrompt, AckOtherChat, ThenAck, Kinds, PollOK, AbortsCancel, daemonVars,
           Envelopes, Work
  <2>. QED  BY <1>2, <2>1, KindsKept DEF AskStatus, RejectPrompt, AckOtherChat, Kinds
<1>3. ASSUME NEW n \in Notes, NEW l \in Leaders, DeliverNote(n, l)  PROVE Kinds'
  <2>1. PollOK'
    BY <1>3 DEF DeliverNote, ThenAck, Kinds, PollOK, AbortsCancel, daemonVars, Envelopes
  <2>2. queue[l] \in Seq(Followups) /\ Followup(n, 0) \in Followups
    BY DEF Kinds, SessionOK, Followup, Followups, Envelopes
  <2>3. Append(queue[l], Followup(n, 0)) \in Seq(Followups)
    BY <2>2
  <2>4. SessionOK'
    BY <1>3, <2>3 DEF DeliverNote, Kinds, SessionOK
  <2>. QED  BY <1>3, <2>1, <2>4, KindsKept DEF DeliverNote, Kinds
<1>4. ASSUME NEW p \in Prompts, NEW l \in Leaders, DispatchPrompt(p, l)  PROVE Kinds'
  <2>. DEFINE f == [e \in {p} |-> l]
              R == { Slot[q] : q \in Prompts }
  <2>1. Dispatch({p}, f) /\ {p} \in SUBSET Work /\ \A e \in {p} : f[e] \in Leaders
    BY <1>4 DEF DispatchPrompt, Work
  <2>2. EntryOK' /\ queue' \in [Leaders -> Seq(Followups)]
    <3>. HIDE DEF f
    <3>. QED  BY <2>1, DispatchOK
  <2>3. SessionOK'
    BY <1>4, <2>2 DEF DispatchPrompt, Kinds, SessionOK
  <2>4. SlotsOK'
    <3>1. slots \in Seq(R) /\ Slot[p] \in R
      BY DEF Kinds, SlotsOK
    <3>2. CASE Len(slots) >= SlotCapacity
      <4>1. slots # <<>>
        BY <3>2, BoundAssumption
      <4>2. Tail(slots) \in Seq(R)
        <5>. HIDE DEF R
        <5>. QED  BY <3>1, <4>1, HeadTailProperties
      <4>3. slots' = Append(Tail(slots), Slot[p])
        BY <1>4, <3>2 DEF DispatchPrompt
      <4>4. slots' \in Seq(R)
        <5>. HIDE DEF R
        <5>. QED  BY <3>1, <4>2, <4>3
      <4>. QED  BY <4>4 DEF SlotsOK
    <3>3. CASE ~(Len(slots) >= SlotCapacity)
      <4>1. slots' = Append(slots, Slot[p])
        BY <1>4, <3>3 DEF DispatchPrompt
      <4>2. slots' \in Seq(R)
        <5>. HIDE DEF R
        <5>. QED  BY <3>1, <4>1
      <4>. QED  BY <4>2 DEF SlotsOK
    <3>. QED  BY <3>2, <3>3
  <2>. QED  BY <1>4, <2>2, <2>3, <2>4, KindsKept, EndedPoll DEF DispatchPrompt, Kinds
<1>5. ASSUME NEW S \in SUBSET Tasks, NEW f \in [S -> Leaders], DispatchTasks(S, f)  PROVE Kinds'
  <2>1. EntryOK' /\ queue' \in [Leaders -> Seq(Followups)]
    BY <1>5, DispatchOK DEF DispatchTasks, Work
  <2>2. SessionOK' /\ SlotsOK'
    BY <1>5, <2>1 DEF DispatchTasks, Kinds, SessionOK, SlotsOK
  <2>. QED  BY <1>5, <2>1, <2>2, KindsKept, EndedPoll DEF DispatchTasks, Kinds
<1>6. CASE Crash
  <2>1. SessionOK' /\ SlotsOK'
    BY <1>6, EmptySeq DEF Crash, SessionOK, SlotsOK, Outputs
  <2>2. EntryOK' /\ CallsOK' /\ CountersOK'
    BY <1>6, FS_EmptySet DEF Crash, Kinds, EntryOK, CallsOK, CountersOK, Outputs
  <2>. QED  BY <1>6, <2>1, <2>2, KindsKept, EndedPoll DEF Crash, Kinds
<1>. QED  BY <1>1, <1>2, <1>3, <1>4, <1>5, <1>6 DEF DispatchStep

\* Every step keeps the types.
LEMMA KindsNext == Kinds /\ [Next]_vars => Kinds'
<1>. SUFFICES ASSUME Kinds, [Next]_vars  PROVE Kinds'
  OBVIOUS
<1>1. CASE UNCHANGED vars
  BY <1>1, KindsKept DEF vars, daemonVars, Kinds
<1>2. CASE Next
  BY <1>2, KindsArrive, KindsFinish, KindsSession, KindsCancel, KindsPollCalls, KindsDispatch
     DEF Next, PollStep, FinishStep
<1>. QED  BY <1>1, <1>2

\* The types hold and no session owns two entries, whatever arrives, fails, is
\* cancelled or dies, and in whatever order calls, turns and polls interleave.
THEOREM LeaderInvariance == Spec => []Inv
<1>1. Kinds /\ OwnerInv => Inv
  BY TypeInvParts DEF TypeInv, OwnerInv, Inv
<1>. QED  BY <1>1, KindsInit, KindsNext, OwnerInit, OwnerNext, PTL DEF Spec

-----------------------------------------------------------------------------
(* Progress of the entries *)

ProgressInv == Kinds /\ OwnerInv /\ EntryProgresses

\* A turn of the entry's session runs; a call of finish is on its way for it.
InTurn(e) == e \in started /\ turn[owner[e]] # None
BeingFinished(e) == \E c \in finishing : c.work = e /\ c.epoch = epoch[e]

\* The property entry by entry.
LEMMA ProgressOfEach ==
  EntryProgresses <=>
    \A e \in Work : owner[e] # None => Waits(e) \/ InTurn(e) \/ BeingFinished(e) \/ faults > 0
BY DEF EntryProgresses, InTurn, BeingFinished

\* Entries that are the same, with what they wait for still there.
LEMMA ProgressKept ==
  ASSUME ProgressInv, UNCHANGED <<owner, epoch>>, faults' >= faults, faults' \in Nat,
         \A e \in Work : owner[e] # None /\ Waits(e) => Waits(e)' \/ InTurn(e)' \/ BeingFinished(e)',
         \A e \in Work : owner[e] # None /\ InTurn(e) => InTurn(e)' \/ BeingFinished(e)',
         \A e \in Work : owner[e] # None /\ BeingFinished(e) => BeingFinished(e)'
  PROVE  EntryProgresses'
<1>1. faults \in Nat
  BY DEF ProgressInv, Kinds, CountersOK
<1>2. ASSUME NEW e \in Work, owner'[e] # None
      PROVE  Waits(e)' \/ InTurn(e)' \/ BeingFinished(e)' \/ faults' > 0
  <2>1. owner[e] # None
    BY <1>2
  <2>2. Waits(e) \/ InTurn(e) \/ BeingFinished(e) \/ faults > 0
    BY <2>1, ProgressOfEach DEF ProgressInv
  <2>. QED  BY <1>1, <2>1, <2>2
<1>. QED  BY <1>2 DEF EntryProgresses, InTurn, BeingFinished

\* The sessions, entries and calls are left alone.
LEMMA ProgressFrame ==
  ASSUME ProgressInv, UNCHANGED <<queue, turn, owner, started, epoch>>, finishing \subseteq finishing',
         faults' >= faults, faults' \in Nat
  PROVE  EntryProgresses'
<1>1. \A e : /\ Waits(e) => Waits(e)'
             /\ InTurn(e) => InTurn(e)'
             /\ BeingFinished(e) => BeingFinished(e)'
  BY DEF Waits, InTurn, BeingFinished, Followup
<1>. QED  BY <1>1, ProgressKept

\* A call that begins is about its entry as it is.
LEMMA BegunCall ==
  ASSUME NEW e, NEW by, NEW out, NEW silent, BeginFinish(e, by, out, silent)
  PROVE  /\ finishing \subseteq finishing'
         /\ \E c \in finishing' : c.work = e /\ c.epoch = epoch[e]
<1>. DEFINE c == [ work |-> e, n |-> FreshCall(e), epoch |-> epoch[e], by |-> by,
                   output |-> out, stage |-> FirstStage(silent) ]
<1>1. c.work = e /\ c.epoch = epoch[e]
  OBVIOUS
<1>2. finishing' = finishing \cup {c}
  BY DEF BeginFinish
<1>. HIDE DEF c
<1>. QED  BY <1>1, <1>2

\* The session begins the followup at the head of its queue.
LEMMA ProgressBegin ==
  ASSUME ProgressInv, NEW l \in Leaders, BeginTurn(l)
  PROVE  EntryProgresses'
<1>. DEFINE s == queue[l]
            m == Head(s)
<1>1. /\ turn[l] = None /\ s # <<>> /\ turn' = [turn EXCEPT ![l] = m.about]
      /\ queue' = [queue EXCEPT ![l] = Tail(s)]
      /\ started' = IF m.about \in OwnedBy(l) /\ m.epoch = epoch[m.about]
                      THEN started \cup {m.about} ELSE started
      /\ UNCHANGED <<owner, epoch, finishing, faults>>
  BY DEF BeginTurn, counterVars
<1>2. /\ queue \in [Leaders -> Seq(Followups)] /\ turn \in [Leaders -> Outputs]
      /\ owner \in [Work -> Leaders \cup {None}] /\ faults \in Nat
  BY DEF ProgressInv, Kinds, SessionOK, EntryOK, CountersOK
<1>3. /\ s \in Seq(Followups) /\ m \in Followups
      /\ \A x : Contains(s, x) /\ x # m => Contains(Tail(s), x)
  <2>0. s \in Seq(Followups) /\ s # <<>>
    BY <1>1, <1>2
  <2>. HIDE DEF s
  <2>1. /\ m \in Followups /\ Len(Tail(s)) = Len(s) - 1 /\ Len(s) \in Nat \ {0}
        /\ \A i \in 1..Len(Tail(s)) : Tail(s)[i] = s[i + 1]
    BY <2>0, HeadTailProperties, EmptySeq
  <2>2. ASSUME NEW x, Contains(s, x), x # m  PROVE Contains(Tail(s), x)
    <3>1. PICK i \in 1..Len(s) : s[i] = x
      BY <2>2 DEF Contains
    <3>2. m = s[1]
      BY <2>0
    <3>3. i # 1
      BY <2>2, <3>1, <3>2
    <3>4. i - 1 \in 1..Len(Tail(s)) /\ (i - 1) + 1 = i
      BY <2>1, <3>3
    <3>. QED  BY <2>1, <3>1, <3>4 DEF Contains
  <2>. QED  BY <2>0, <2>1, <2>2
<1>4. m.about # None
  <2>. HIDE DEF m
  <2>. QED  BY <1>3, DisjointAssumption DEF Followups
<1>5. ASSUME NEW e \in Work, owner[e] # None, Waits(e)
      PROVE  Waits(e)' \/ InTurn(e)'
  <2>1. CASE owner[e] # l
    <3>1. queue'[owner[e]] = queue[owner[e]]
      BY <1>1, <1>2, <1>5, <2>1
    <3>. QED  BY <1>1, <1>5, <3>1 DEF Waits, Followup
  <2>2. CASE owner[e] = l /\ m # Followup(e, epoch[e])
    <3>1. Contains(s, Followup(e, epoch[e])) /\ queue'[l] = Tail(s)
      BY <1>1, <1>2, <1>5, <2>2 DEF Waits
    <3>2. Contains(queue'[l], Followup(e, epoch[e]))
      BY <1>3, <2>2, <3>1
    <3>. QED  BY <1>1, <2>2, <3>2 DEF Waits, Followup
  <2>3. CASE owner[e] = l /\ m = Followup(e, epoch[e])
    <3>1. m.about = e /\ m.epoch = epoch[e]
      BY <2>3 DEF Followup
    <3>2. e \in started'
      BY <1>1, <2>3, <3>1 DEF OwnedBy
    <3>3. turn'[l] # None
      BY <1>1, <1>2, <1>4
    <3>. QED  BY <1>1, <2>3, <3>2, <3>3 DEF InTurn
  <2>. QED  BY <2>1, <2>2, <2>3
<1>6. ASSUME NEW e \in Work, owner[e] # None, InTurn(e)  PROVE InTurn(e)'
  <2>1. owner[e] # l /\ e \in started /\ turn[owner[e]] # None
    BY <1>1, <1>6 DEF InTurn
  <2>2. e \in started' /\ turn'[owner[e]] = turn[owner[e]]
    BY <1>1, <1>2, <1>6, <2>1
  <2>. QED  BY <1>1, <2>1, <2>2 DEF InTurn
<1>7. \A e : BeingFinished(e) => BeingFinished(e)'
  BY <1>1 DEF BeingFinished
<1>. QED  BY <1>1, <1>2, <1>5, <1>6, <1>7, ProgressKept

\* A turn that ends: the session's entry, if it has begun one, is being finished.
LEMMA ProgressEnd ==
  ASSUME ProgressInv, NEW l \in Leaders, EndTurn(l)
  PROVE  EntryProgresses'
<1>1. /\ turn' = [turn EXCEPT ![l] = None] /\ finishing \subseteq finishing'
      /\ UNCHANGED <<queue, owner, started, epoch, faults>>
  BY DEF EndTurn, EndIdleTurn, EndTaskTurn, EndChatTurn, TurnEnds, BeginFinish, entryVars, counterVars
<1>2. /\ turn \in [Leaders -> Outputs] /\ owner \in [Work -> Leaders \cup {None}] /\ faults \in Nat
  BY DEF ProgressInv, Kinds, SessionOK, EntryOK, CountersOK
<1>3. ASSUME NEW e \in Work, owner[e] # None, InTurn(e)  PROVE InTurn(e)' \/ BeingFinished(e)'
  <2>1. CASE owner[e] # l
    <3>1. turn'[owner[e]] = turn[owner[e]]
      BY <1>1, <1>2, <1>3, <2>1
    <3>. QED  BY <1>1, <1>3, <3>1 DEF InTurn
  <2>2. CASE owner[e] = l
    <3>1. e \in OwnedBy(l) \cap started
      BY <1>3, <2>2 DEF InTurn, OwnedBy
    <3>2. PICK d \in OwnedBy(l) \cap started : \E out, silent : BeginFinish(d, "turn", out, silent)
      BY <3>1 DEF EndTurn, EndIdleTurn, EndTaskTurn, EndChatTurn
    <3>3. d = e
      BY <1>2, <2>2, <1>3, <3>1, <3>2 DEF OwnedBy, ProgressInv, OwnerInv, OneEntryPerLeader
    <3>4. \E c \in finishing' : c.work = e /\ c.epoch = epoch[e]
      BY <3>2, <3>3, BegunCall
    <3>. QED  BY <1>1, <3>4 DEF BeingFinished
  <2>. QED  BY <2>1, <2>2
<1>4. \A e : Waits(e) => Waits(e)'
  BY <1>1 DEF Waits, Followup
<1>5. \A e : BeingFinished(e) => BeingFinished(e)'
  BY <1>1 DEF BeingFinished
<1>. QED  BY <1>1, <1>2, <1>3, <1>4, <1>5, ProgressKept

\* The calls of finish and finishChat: only the call that ends an entry's own
\* work goes without leaving another, and the entry goes with it.
LEMMA ProgressFinish ==
  ASSUME ProgressInv, NEW c \in finishing,
         FinishSend(c) \/ FinishAck(c) \/ \E done \in BOOLEAN : FinishFails(c, done)
  PROVE  EntryProgresses'
<1>1. c \in Call /\ c.work \in Work /\ faults \in Nat /\ owner \in [Work -> Leaders \cup {None}]
  BY DEF ProgressInv, Kinds, CallsOK, Call, EntryOK, CountersOK
<1>2. CASE FinishSend(c)
  <2>. DEFINE d == [c EXCEPT !.stage = "ack"]
  <2>1. d.work = c.work /\ d.epoch = c.epoch
    BY <1>1 DEF Call
  <2>2. /\ finishing' = (finishing \ {c}) \cup {d}
        /\ UNCHANGED <<queue, turn, owner, started, epoch, faults>>
    BY <1>2 DEF FinishSend, sessionVars, entryVars, counterVars
  <2>. HIDE DEF d
  <2>3. \A e : BeingFinished(e) => BeingFinished(e)'
    BY <2>1, <2>2 DEF BeingFinished
  <2>4. \A e : Waits(e) => Waits(e)'
    BY <2>2 DEF Waits, Followup
  <2>5. \A e : InTurn(e) => InTurn(e)'
    BY <2>2 DEF InTurn
  <2>. QED  BY <1>1, <2>2, <2>3, <2>4, <2>5, ProgressKept
<1>3. CASE FinishAck(c)
  <2>1. /\ finishing' = finishing \ {c}
        /\ UNCHANGED <<queue, turn, epoch, faults>>
    BY <1>3 DEF FinishAck, sessionVars, counterVars
  <2>2. /\ owner' = IF owner' = owner THEN owner ELSE [owner EXCEPT ![c.work] = None]
        /\ \A e \in Work : e # c.work /\ e \in started => e \in started'
    BY <1>3 DEF FinishAck, EndEntry
  <2>3. ASSUME NEW e \in Work, owner'[e] # None, e = c.work
        PROVE  c.epoch # epoch[e] /\ UNCHANGED <<owner, started>>
    BY <1>1, <1>3, <2>3 DEF FinishAck, EndEntry
  <2>4. ASSUME NEW e \in Work, owner'[e] # None
        PROVE  /\ owner'[e] = owner[e]
               /\ e \in started => e \in started'
               /\ ~(c.work = e /\ c.epoch = epoch[e])
    BY <1>1, <2>2, <2>3, <2>4
  <2>5. ASSUME NEW e \in Work, owner'[e] # None
        PROVE  Waits(e)' \/ InTurn(e)' \/ BeingFinished(e)' \/ faults' > 0
    <3>1. owner'[e] = owner[e] /\ owner[e] # None
      BY <2>4, <2>5
    <3>2. Waits(e) \/ InTurn(e) \/ BeingFinished(e) \/ faults > 0
      BY <3>1, ProgressOfEach DEF ProgressInv
    <3>3. Waits(e) => Waits(e)'
      BY <2>1, <3>1 DEF Waits, Followup
    <3>4. InTurn(e) => InTurn(e)'
      BY <2>1, <2>4, <2>5, <3>1 DEF InTurn
    <3>5. BeingFinished(e) => BeingFinished(e)'
      BY <2>1, <2>4, <2>5 DEF BeingFinished
    <3>. QED  BY <2>1, <3>2, <3>3, <3>4, <3>5
  <2>. QED  BY <2>5 DEF EntryProgresses, InTurn, BeingFinished
<1>4. ASSUME NEW done \in BOOLEAN, FinishFails(c, done)  PROVE EntryProgresses'
  <2>1. faults' > 0
    BY <1>1, <1>4 DEF FinishFails
  <2>. QED  BY <2>1 DEF EntryProgresses
<1>. QED  BY <1>2, <1>3, <1>4

\* A followup removed from its queue belongs to the task whose call has begun;
\* the other cancellations leave the queues alone.
LEMMA ProgressCancel ==
  ASSUME ProgressInv, NEW k \in Cancels,
         \/ CancelUnstarted(k) \/ CancelRunning(k) \/ CancelPending(k) \/ CancelUnknown(k)
  PROVE  EntryProgresses'
<1>. DEFINE t == Target[k]
            l == owner[t]
<1>1. /\ t \in Work /\ faults \in Nat /\ owner \in [Work -> Leaders \cup {None}]
      /\ queue \in [Leaders -> Seq(Followups)]
  BY CancelAssumption DEF Work, ProgressInv, Kinds, CountersOK, EntryOK, SessionOK
<1>2. UNCHANGED <<turn, owner, started, epoch, faults>>
  BY DEF CancelUnstarted, CancelRunning, CancelPending, CancelUnknown, HandleCancel, entryVars,
         counterVars
<1>3. CASE CancelRunning(k) \/ CancelPending(k) \/ CancelUnknown(k)
  <2>1. UNCHANGED <<queue, finishing>>
    BY <1>3 DEF CancelRunning, CancelPending, CancelUnknown
  <2>. QED  BY <1>1, <1>2, <2>1, ProgressFrame
<1>4. CASE CancelUnstarted(k)
  <2>1. BeginFinish(t, "cancel", None, FALSE) /\ l \in Leaders
    BY <1>1, <1>4 DEF CancelUnstarted, Active
  <2>2. PICK i \in DOMAIN queue[l] :
          /\ queue[l][i] = Followup(t, epoch[t])
          /\ queue' = [queue EXCEPT ![l] = RemoveAt(queue[l], i)]
    BY <1>4 DEF CancelUnstarted
  <2>3. /\ finishing \subseteq finishing'
        /\ \E c \in finishing' : c.work = t /\ c.epoch = epoch[t]
    <3>. HIDE DEF t
    <3>. QED  BY <2>1, BegunCall
  <2>. HIDE DEF t, l
  <2>4. \A x : Contains(queue[l], x) /\ x # queue[l][i] => Contains(RemoveAt(queue[l], i), x)
    <3>1. queue[l] \in Seq(Followups) /\ i \in 1..Len(queue[l])
      BY <1>1, <2>1, <2>2
    <3>. QED  BY <3>1, Removed
  <2>5. ASSUME NEW e \in Work, owner[e] # None, Waits(e)
        PROVE  Waits(e)' \/ BeingFinished(e)'
    <3>1. CASE e = t
      BY <1>2, <2>3, <3>1 DEF BeingFinished
    <3>2. CASE e # t
      <4>1. Followup(e, epoch[e]) # queue[l][i]
        BY <2>2, <3>2 DEF Followup
      <4>2. Contains(queue'[owner[e]], Followup(e, epoch[e]))
        BY <1>1, <2>1, <2>2, <2>4, <2>5, <4>1 DEF Waits
      <4>. QED  BY <1>2, <4>2 DEF Waits, Followup
    <3>. QED  BY <3>1, <3>2
  <2>6. \A e : InTurn(e) => InTurn(e)'
    BY <1>2 DEF InTurn
  <2>7. \A e : BeingFinished(e) => BeingFinished(e)'
    BY <1>2, <2>3 DEF BeingFinished
  <2>. QED  BY <1>1, <1>2, <2>5, <2>6, <2>7, ProgressKept
<1>. QED  BY <1>3, <1>4

\* A new entry waits in its session's queue, and every other one where it was.
LEMMA ProgressDispatch ==
  ASSUME ProgressInv, NEW S \in SUBSET Work, NEW f,
         \A e \in S : f[e] \in Leaders,
         \A d, e \in S : f[d] = f[e] => d = e,
         Dispatch(S, f), UNCHANGED <<turn, finishing, faults>>
  PROVE  EntryProgresses'
<1>1. /\ queue \in [Leaders -> Seq(Followups)] /\ owner \in [Work -> Leaders \cup {None}]
      /\ epoch \in [Work -> Nat] /\ None \notin Leaders
  BY DisjointAssumption DEF ProgressInv, Kinds, SessionOK, EntryOK
<1>2. \A e \in S : f[e] \in Leaders
  OBVIOUS
<1>3. ASSUME NEW e \in S  PROVE Waits(e)'
  <2>1. owner'[e] = f[e] /\ epoch'[e] = epoch[e] + 1
    BY DEF Dispatch
  <2>2. (CHOOSE d \in S : f[d] = f[e]) = e
    OBVIOUS
  <2>3. queue'[f[e]] = Append(queue[f[e]], Followup(e, epoch[e] + 1))
    BY <1>2, <2>2 DEF Dispatch
  <2>4. queue[f[e]] \in Seq(Followups) /\ Followup(e, epoch[e] + 1) \in Followups
    <3>1. queue[f[e]] \in Seq(Followups)
      BY <1>1, <1>2
    <3>2. e \in Work /\ epoch[e] + 1 \in Nat
      BY <1>1
    <3>3. Followup(e, epoch[e] + 1) \in Followups
      BY <3>2 DEF Followup, Followups, Envelopes
    <3>. QED  BY <3>1, <3>3
  <2>5. Contains(queue'[f[e]], Followup(e, epoch[e] + 1))
    <3>. DEFINE s == queue[f[e]]
                m == Followup(e, epoch[e] + 1)
    <3>1. s \in Seq(Followups) /\ m \in Followups /\ queue'[f[e]] = Append(s, m)
      BY <2>3, <2>4
    <3>. HIDE DEF s, m
    <3>2. Len(Append(s, m)) \in 1..Len(Append(s, m)) /\ Append(s, m)[Len(Append(s, m))] = m
      BY <3>1
    <3>3. Contains(queue'[f[e]], m)
      BY <3>1, <3>2 DEF Contains
    <3>. QED  BY <3>3 DEF m
  <2>. QED  BY <2>1, <2>5 DEF Waits, Followup
<1>4. ASSUME NEW l \in Leaders, NEW x, Contains(queue[l], x)  PROVE Contains(queue'[l], x)
  <2>1. queue'[l] = queue[l] \/ \E y : queue'[l] = Append(queue[l], y)
    BY DEF Dispatch
  <2>2. queue[l] \in Seq(Followups)
    BY <1>1
  <2>3. ASSUME NEW y  PROVE Contains(Append(queue[l], y), x)
    <3>. DEFINE s == queue[l]
    <3>1. PICK i \in 1..Len(s) : s[i] = x
      BY <1>4 DEF Contains
    <3>2. s \in Seq(Followups \cup {y})
      BY <2>2, SeqMonotonic
    <3>. HIDE DEF s
    <3>3. i \in 1..Len(Append(s, y)) /\ Append(s, y)[i] = x
      BY <3>1, <3>2
    <3>4. Contains(Append(s, y), x)
      BY <3>3 DEF Contains
    <3>. QED  BY <3>4 DEF s
  <2>. QED  BY <1>4, <2>1, <2>3
<1>5. ASSUME NEW e \in Work, e \notin S, owner'[e] # None
      PROVE  Waits(e)' \/ InTurn(e)' \/ BeingFinished(e)' \/ faults' > 0
  <2>1. owner'[e] = owner[e] /\ epoch'[e] = epoch[e] /\ owner[e] # None /\ owner[e] \in Leaders
    BY <1>1, <1>5 DEF Dispatch
  <2>2. Waits(e) \/ InTurn(e) \/ BeingFinished(e) \/ faults > 0
    BY <2>1, ProgressOfEach DEF ProgressInv
  <2>3. Waits(e) => Waits(e)'
    BY <1>4, <2>1 DEF Waits, Followup
  <2>4. InTurn(e) => InTurn(e)'
    BY <1>5, <2>1 DEF InTurn, Dispatch
  <2>5. BeingFinished(e) => BeingFinished(e)'
    BY <2>1 DEF BeingFinished
  <2>. QED  BY <2>2, <2>3, <2>4, <2>5
<1>. QED  BY <1>3, <1>5 DEF EntryProgresses, InTurn, BeingFinished

\* Every step leaves every entry something to wait for.
LEMMA ProgressNext == ProgressInv /\ [Next]_vars => EntryProgresses'
<1>. SUFFICES ASSUME ProgressInv, [Next]_vars  PROVE EntryProgresses'
  OBVIOUS
<1>0. faults \in Nat /\ None \notin Envelopes
  BY DisjointAssumption DEF ProgressInv, Kinds, CountersOK
<1>1. ASSUME UNCHANGED <<sessionVars, entryVars, finishing, faults>>  PROVE EntryProgresses'
  BY <1>0, <1>1, ProgressFrame DEF sessionVars, entryVars
<1>2. ASSUME NEW e \in Envelopes, Arrive(e)  PROVE EntryProgresses'
  BY <1>1, <1>2 DEF Arrive, counterVars
<1>3. ASSUME NEW l \in Leaders, BeginUserTurn(l)  PROVE EntryProgresses'
  <2>1. /\ turn[l] = None /\ turn' = [turn EXCEPT ![l] = User]
        /\ UNCHANGED <<queue, entryVars, finishing, faults>>
    BY <1>3 DEF BeginUserTurn
  <2>2. /\ turn \in [Leaders -> Outputs] /\ owner \in [Work -> Leaders \cup {None}]
    BY DEF ProgressInv, Kinds, SessionOK, EntryOK
  <2>3. \A e \in Work : owner[e] # None /\ InTurn(e) => InTurn(e)'
    BY <2>1, <2>2 DEF InTurn, entryVars
  <2>4. \A e : Waits(e) => Waits(e)'
    BY <2>1 DEF Waits, Followup, entryVars
  <2>5. \A e : BeingFinished(e) => BeingFinished(e)'
    BY <2>1 DEF BeingFinished, entryVars
  <2>. QED  BY <1>0, <2>1, <2>3, <2>4, <2>5, ProgressKept DEF entryVars
<1>4. ASSUME NEW l \in Leaders, Speak(l) \/ \E t \in Tasks : CompleteTool(l, t)
      PROVE  EntryProgresses'
  <2>1. finishing \subseteq finishing'
    BY <1>4, BegunCall DEF Speak, CompleteTool
  <2>2. UNCHANGED <<queue, turn, owner, started, epoch, faults>>
    BY <1>4 DEF Speak, CompleteTool, sessionVars, entryVars, counterVars
  <2>. QED  BY <1>0, <2>1, <2>2, ProgressFrame
<1>5. CASE List \/ AbortSend \/ AbortAck \/ AckCancel \/ AckItem \/ NobodyFree
  BY <1>1, <1>5 DEF List, AbortSend, AbortAck, AckCancel, AckItem, NobodyFree, counterVars
<1>6. ASSUME NEW done \in BOOLEAN, PollFails(done)  PROVE EntryProgresses'
  BY <1>0, <1>6 DEF PollFails, EntryProgresses
<1>7. ASSUME NEW p \in Prompts,
             AckOtherChat(p) \/ \E l \in Leaders : AskStatus(p, l) \/ RejectPrompt(p, l)
      PROVE  EntryProgresses'
  BY <1>1, <1>7 DEF AskStatus, RejectPrompt, AckOtherChat, counterVars
<1>8. ASSUME NEW n \in Notes, NEW l \in Leaders, DeliverNote(n, l)  PROVE EntryProgresses'
  <2>1. /\ queue' = [queue EXCEPT ![l] = Append(queue[l], Followup(n, 0))]
        /\ UNCHANGED <<turn, entryVars, finishing, faults>>
    BY <1>8 DEF DeliverNote, counterVars
  <2>2. queue \in [Leaders -> Seq(Followups)] /\ owner \in [Work -> Leaders \cup {None}]
    BY DEF ProgressInv, Kinds, SessionOK, EntryOK
  <2>3. Followup(n, 0) \in Followups
    BY DEF Followup, Followups, Envelopes
  <2>4. ASSUME NEW x, Contains(queue[l], x)  PROVE Contains(Append(queue[l], Followup(n, 0)), x)
    <3>. DEFINE s == queue[l]
                m == Followup(n, 0)
    <3>1. s \in Seq(Followups) /\ m \in Followups /\ Contains(s, x)
      BY <2>2, <2>3, <2>4
    <3>. HIDE DEF s, m
    <3>2. Contains(Append(s, m), x)
      BY <3>1 DEF Contains
    <3>. QED  BY <3>2 DEF s, m
  <2>5. ASSUME NEW e \in Work, owner[e] # None, Waits(e)  PROVE Waits(e)'
    <3>1. Contains(queue'[owner[e]], Followup(e, epoch[e]))
      BY <2>1, <2>2, <2>4, <2>5 DEF Waits
    <3>. QED  BY <2>1, <3>1 DEF Waits, Followup, entryVars
  <2>6. \A e : /\ InTurn(e) => InTurn(e)'
               /\ BeingFinished(e) => BeingFinished(e)'
    BY <2>1 DEF InTurn, BeingFinished, entryVars
  <2>. QED  BY <1>0, <2>1, <2>5, <2>6, ProgressKept DEF entryVars
<1>9. ASSUME NEW p \in Prompts, NEW l \in Leaders, DispatchPrompt(p, l)  PROVE EntryProgresses'
  <2>. DEFINE f == [e \in {p} |-> l]
  <2>1. {p} \in SUBSET Work /\ Dispatch({p}, f) /\ f[p] \in Leaders
        /\ UNCHANGED <<turn, finishing, faults>>
    BY <1>9 DEF DispatchPrompt, Work, counterVars
  <2>. HIDE DEF f
  <2>. QED  BY <2>1, ProgressDispatch
<1>10. ASSUME NEW S \in SUBSET Tasks, NEW f \in [S -> Leaders], DispatchTasks(S, f)
       PROVE  EntryProgresses'
  BY <1>10, ProgressDispatch DEF DispatchTasks, FreeLeaders, Work, counterVars
<1>11. CASE Crash
  BY <1>11 DEF Crash, EntryProgresses
<1>12. CASE UNCHANGED vars
  BY <1>1, <1>12 DEF vars, counterVars
<1>13. ASSUME NEW l \in Leaders, BeginTurn(l) \/ EndTurn(l)  PROVE EntryProgresses'
  BY <1>13, ProgressBegin, ProgressEnd
<1>14. ASSUME NEW c \in finishing, FinishStep(c) \/ \E done \in BOOLEAN : FinishFails(c, done)
       PROVE  EntryProgresses'
  BY <1>14, ProgressFinish DEF FinishStep
<1>15. ASSUME NEW k \in Cancels,
              \/ CancelUnstarted(k) \/ CancelRunning(k) \/ CancelPending(k) \/ CancelUnknown(k)
       PROVE  EntryProgresses'
  BY <1>15, ProgressCancel
<1>16. CASE DispatchStep
  BY <1>5, <1>7, <1>8, <1>9, <1>10, <1>16 DEF DispatchStep
<1>. QED
  BY <1>2, <1>3, <1>4, <1>5, <1>6, <1>11, <1>12, <1>13, <1>14, <1>15, <1>16 DEF Next, PollStep

\* No session is busy with nothing: until a call fails, every task and chat a
\* session owns waits in its queue, has a turn running whose end will finish it,
\* or is being finished.  Cancellations, users' turns, explicit completions and
\* the death of the process leave none behind (inbox.js poll, onEvent, finish).
THEOREM EveryEntryProgresses == Spec => []EntryProgresses
<1>1. Init => Kinds /\ OwnerInv /\ EntryProgresses
  <2>1. Init => EntryProgresses
    BY DEF Init, EntryProgresses
  <2>. QED  BY <2>1, KindsInit, OwnerInit
<1>2. Kinds /\ OwnerInv /\ EntryProgresses /\ [Next]_vars => (Kinds /\ OwnerInv /\ EntryProgresses)'
  BY KindsNext, OwnerNext, ProgressNext DEF ProgressInv
<1>. QED  BY <1>1, <1>2, PTL DEF Spec

-----------------------------------------------------------------------------
(* Chat slots *)

\* What ties slots, entries, calls and replies together while the process lives:
\* whatever is owned, being finished or replied to has been dispatched, and the
\* slots of the dispatched prompts are remembered, each for one prompt only.
SlotsTaken ==
  /\ \A e \in Work : owner[e] # None => epoch[e] > 0
  /\ \A c \in finishing : epoch[c.work] > 0
  /\ \A r \in sent : r.work \in Prompts => epoch[r.work] > 0
  /\ \A p, q \in Prompts : epoch[p] > 0 /\ epoch[q] > 0 /\ Slot[p] = Slot[q] => p = q
  /\ \A p \in Prompts : epoch[p] > 0 => SlotSeen(p)
  /\ \A i, j \in 1..Len(slots) : slots[i] = slots[j] => i = j

SlotsMatch == crashes = 0 /\ SlotsSuffice => SlotsTaken

\* Steps that dispatch nothing: calls are begun for entries or go on, and what
\* is sent is about a task or comes from a call.
LEMMA SlotsFrame ==
  ASSUME SlotsMatch, UNCHANGED <<epoch, slots, crashes>>,
         \A e \in Work : owner'[e] # None => owner[e] # None,
         \A c \in finishing' :
            \/ \E d \in finishing : c.work = d.work
            \/ c.work \in Work /\ owner[c.work] # None,
         \A r \in sent' :
            \/ r \in sent \/ r.work \notin Prompts
            \/ \E c \in finishing : r.work = c.work
  PROVE  SlotsMatch'
BY DEF SlotsMatch, SlotsTaken, SlotsSuffice, SlotSeen, Contains

\* What a call that begins is about.
LEMMA BegunFor ==
  ASSUME NEW e, NEW by, NEW out, NEW silent, BeginFinish(e, by, out, silent)
  PROVE  \A c \in finishing' : c \in finishing \/ c.work = e
<1>. DEFINE c == [ work |-> e, n |-> FreshCall(e), epoch |-> epoch[e], by |-> by,
                   output |-> out, stage |-> FirstStage(silent) ]
<1>1. c.work = e
  OBVIOUS
<1>2. finishing' = finishing \cup {c}
  BY DEF BeginFinish
<1>. HIDE DEF c
<1>. QED  BY <1>1, <1>2

\* What a delivery is about.
LEMMA DeliveredFor ==
  ASSUME NEW e, NEW out, sent' = Delivered(e, out)
  PROVE  \A r \in sent' : r \in sent \/ r.work = e
<1>. DEFINE r == [ work |-> e, n |-> Cardinality({ s \in sent : s.work = e }), output |-> out ]
<1>1. r.work = e
  OBVIOUS
<1>2. sent' = sent \cup {r}
  BY DEF Delivered
<1>. HIDE DEF r
<1>. QED  BY <1>1, <1>2

\* A set of slots that holds each slot once has room for a slot it does not hold.
LEMMA SlotsHaveRoom ==
  ASSUME Kinds, SlotsSuffice, NEW p \in Prompts, ~SlotSeen(p),
         \A i, j \in 1..Len(slots) : slots[i] = slots[j] => i = j
  PROVE  Len(slots) < SlotCapacity
<1>. DEFINE R == { Slot[q] : q \in Prompts }
            n == Len(slots)
            f == [i \in 1..(n + 1) |-> IF i = n + 1 THEN Slot[p] ELSE slots[i]]
<1>1. slots \in Seq(R) /\ n \in Nat /\ \A i \in 1..n : slots[i] \in R
  <2>1. slots \in Seq(R)
    BY DEF Kinds, SlotsOK
  <2>. HIDE DEF R
  <2>. QED  BY <2>1
<1>2. IsFiniteSet(R) /\ Cardinality(R) <= SlotCapacity /\ Cardinality(R) \in Nat
  <2>1. IsFiniteSet(R) /\ Cardinality(R) <= SlotCapacity
    BY DEF SlotsSuffice
  <2>. QED  BY <2>1, FS_CardinalityType
<1>3. Slot[p] \in R
  OBVIOUS
<1>4. \A i \in 1..n : slots[i] # Slot[p]
  BY DEF SlotSeen, Contains
<1>. HIDE DEF R, n
<1>5. f \in [1..(n + 1) -> R]
  BY <1>1, <1>3
<1>6. \A i, j \in 1..(n + 1) : f[i] = f[j] => i = j
  BY <1>1, <1>4 DEF n
<1>7. IsFiniteSet(1..(n + 1)) /\ Cardinality(1..(n + 1)) = n + 1
  BY <1>1, FS_Interval
<1>8. ~(Cardinality(R) < Cardinality(1..(n + 1)))
  <2>. HIDE DEF f
  <2>. SUFFICES ASSUME Cardinality(R) < Cardinality(1..(n + 1))  PROVE FALSE
    OBVIOUS
  <2>1. \E i, j \in 1..(n + 1) : i # j /\ f[i] = f[j]
    BY <1>2, <1>5, <1>7, FS_PigeonHole
  <2>. QED  BY <1>6, <2>1
<1>. QED  BY <1>1, <1>2, <1>7, <1>8, BoundAssumption DEF n

\* A prompt is dispatched only for a slot nobody has taken, and takes it.
LEMMA SlotsPrompt ==
  ASSUME Kinds, SlotsMatch, NEW p \in Prompts, NEW l \in Leaders, DispatchPrompt(p, l)
  PROVE  SlotsMatch'
<1>. SUFFICES ASSUME crashes' = 0, SlotsSuffice  PROVE SlotsTaken'
  BY DEF SlotsMatch, SlotsSuffice
<1>1. /\ \A e \in Work : owner'[e] = IF e = p THEN l ELSE owner[e]
      /\ \A e \in Work : epoch'[e] = IF e = p THEN epoch[e] + 1 ELSE epoch[e]
      /\ UNCHANGED <<finishing, sent, crashes>> /\ ~SlotSeen(p)
  BY DEF DispatchPrompt, Dispatch, daemonVars, counterVars
<1>2. SlotsTaken /\ p \in Work /\ epoch \in [Work -> Nat] /\ finishing \subseteq Call
  BY <1>1 DEF SlotsMatch, Work, Kinds, EntryOK, CallsOK
<1>3. \A e \in Work : epoch[e] > 0 => epoch'[e] > 0
  BY <1>1, <1>2
<1>4. \A q \in Prompts : epoch'[q] > 0 => q = p \/ epoch[q] > 0
  BY <1>1 DEF Work
<1>5. slots' = Append(slots, Slot[p])
  <2>1. Len(slots) < SlotCapacity /\ Len(slots) \in Nat
    BY <1>1, <1>2, SlotsHaveRoom DEF SlotsTaken, Kinds, SlotsOK
  <2>. QED  BY <2>1, BoundAssumption DEF DispatchPrompt
<1>6. /\ Len(slots) \in Nat /\ Len(slots') = Len(slots) + 1
      /\ \A i \in 1..Len(slots) : slots'[i] = slots[i]
      /\ slots'[Len(slots) + 1] = Slot[p]
  <2>. DEFINE R == { Slot[q] : q \in Prompts }
  <2>1. slots \in Seq(R) /\ Slot[p] \in R
    BY DEF Kinds, SlotsOK
  <2>. HIDE DEF R
  <2>. QED  BY <1>5, <2>1
<1>7. /\ \A e \in Work : owner'[e] # None => epoch'[e] > 0
      /\ \A c \in finishing' : epoch'[c.work] > 0
      /\ \A r \in sent' : r.work \in Prompts => epoch'[r.work] > 0
  <2>1. epoch'[p] > 0
    BY <1>1, <1>2
  <2>2. \A c \in finishing : c.work \in Work
    BY <1>2 DEF Call
  <2>3. Prompts \subseteq Work
    BY DEF Work
  <2>. QED  BY <1>1, <1>2, <1>3, <2>1, <2>2, <2>3 DEF SlotsTaken
<1>8. \A q \in Prompts : epoch'[q] > 0 /\ q # p => Slot[q] # Slot[p]
  BY <1>1, <1>2, <1>4 DEF SlotsTaken, SlotSeen
<1>9. \A q, r \in Prompts : epoch'[q] > 0 /\ epoch'[r] > 0 /\ Slot[q] = Slot[r] => q = r
  BY <1>2, <1>4, <1>8 DEF SlotsTaken
<1>10. \A q \in Prompts : epoch'[q] > 0 => SlotSeen(q)'
  <2>1. ASSUME NEW q \in Prompts, epoch'[q] > 0
        PROVE  \E i \in 1..Len(slots') : slots'[i] = Slot[q]
    <3>1. CASE q = p
      BY <1>6, <3>1
    <3>2. CASE q # p
      <4>1. \E i \in 1..Len(slots) : slots[i] = Slot[q]
        BY <1>2, <1>4, <2>1, <3>2 DEF SlotsTaken, SlotSeen, Contains
      <4>. QED  BY <1>6, <4>1
    <3>. QED  BY <3>1, <3>2
  <2>. QED  BY <2>1 DEF SlotSeen, Contains
<1>11. \A i, j \in 1..Len(slots') : slots'[i] = slots'[j] => i = j
  <2>1. \A i \in 1..Len(slots) : slots[i] # Slot[p]
    BY <1>1 DEF SlotSeen, Contains
  <2>. QED  BY <1>2, <1>6, <2>1 DEF SlotsTaken
<1>. QED  BY <1>7, <1>9, <1>10, <1>11 DEF SlotsTaken

\* Every step keeps each slot with the one prompt that was dispatched for it.
LEMMA SlotsNext == Kinds /\ SlotsMatch /\ [Next]_vars => SlotsMatch'
<1>. SUFFICES ASSUME Kinds, SlotsMatch, [Next]_vars  PROVE SlotsMatch'
  OBVIOUS
<1>0. None \notin Leaders /\ Tasks \cap Prompts = {} /\ Tasks \subseteq Work /\ Prompts \subseteq Work
  BY DisjointAssumption DEF Work
<1>1. ASSUME UNCHANGED <<owner, epoch, slots, crashes, finishing, sent>>  PROVE SlotsMatch'
  BY <1>1, SlotsFrame
<1>2. ASSUME NEW e \in Envelopes, Arrive(e)  PROVE SlotsMatch'
  BY <1>1, <1>2 DEF Arrive, entryVars, counterVars
<1>3. ASSUME NEW c \in finishing, FinishSend(c)  PROVE SlotsMatch'
  <2>. DEFINE d == [c EXCEPT !.stage = "ack"]
  <2>1. d.work = c.work /\ finishing' = (finishing \ {c}) \cup {d}
    BY <1>3 DEF FinishSend, Kinds, CallsOK, Call
  <2>. HIDE DEF d
  <2>2. \A r \in sent' : r \in sent \/ r.work = c.work
    BY <1>3, DeliveredFor DEF FinishSend
  <2>3. UNCHANGED <<owner, epoch, slots, crashes>>
    BY <1>3 DEF FinishSend, entryVars, counterVars
  <2>. QED  BY <2>1, <2>2, <2>3, SlotsFrame
<1>4. ASSUME NEW c \in finishing, FinishAck(c)  PROVE SlotsMatch'
  <2>1. \A e \in Work : owner'[e] # None => owner[e] # None
    BY <1>4 DEF FinishAck, EndEntry, Kinds, EntryOK
  <2>. QED  BY <1>4, <2>1, SlotsFrame DEF FinishAck, counterVars
<1>5. ASSUME NEW c \in finishing, NEW done \in BOOLEAN, FinishFails(c, done)  PROVE SlotsMatch'
  <2>1. \A r \in sent' : r \in sent \/ r.work = c.work
    BY <1>5, DeliveredFor DEF FinishFails
  <2>2. finishing' \subseteq finishing /\ UNCHANGED <<owner, epoch, slots, crashes>>
    BY <1>5 DEF FinishFails, entryVars
  <2>. QED  BY <2>1, <2>2, SlotsFrame
<1>6. ASSUME NEW e \in Work, NEW by, NEW out, NEW silent, owner[e] # None,
             BeginFinish(e, by, out, silent), UNCHANGED <<owner, epoch, slots, crashes, sent>>
      PROVE  SlotsMatch'
  <2>1. \A c \in finishing' : c \in finishing \/ c.work = e
    BY <1>6, BegunFor
  <2>. QED  BY <1>6, <2>1, SlotsFrame
<1>7. ASSUME NEW l \in Leaders,
             \/ BeginTurn(l) \/ BeginUserTurn(l) \/ Speak(l) \/ EndTurn(l)
             \/ \E t \in Tasks : CompleteTool(l, t)
      PROVE  SlotsMatch'
  <2>1. UNCHANGED <<owner, epoch, slots, crashes, sent>>
    BY <1>7 DEF BeginTurn, BeginUserTurn, Speak, EndTurn, EndIdleTurn, EndTaskTurn, EndChatTurn,
                TurnEnds, CompleteTool, daemonVars, entryVars, counterVars
  <2>2. \/ UNCHANGED finishing
        \/ \E e \in Work : owner[e] = l /\ \E by, out, silent : BeginFinish(e, by, out, silent)
    BY <1>0, <1>7
       DEF BeginTurn, BeginUserTurn, Speak, EndTurn, EndIdleTurn, EndTaskTurn, EndChatTurn,
           CompleteTool, OwnedBy
  <2>. QED  BY <1>0, <1>1, <1>6, <2>1, <2>2
<1>8. ASSUME NEW k \in Cancels,
             \/ CancelUnstarted(k) \/ CancelRunning(k) \/ CancelPending(k) \/ CancelUnknown(k)
      PROVE  SlotsMatch'
  <2>1. UNCHANGED <<owner, epoch, slots, crashes, sent>>
    BY <1>8 DEF CancelUnstarted, CancelRunning, CancelPending, CancelUnknown, HandleCancel,
                daemonVars, entryVars, counterVars
  <2>2. \/ UNCHANGED finishing
        \/ \E e \in Work : owner[e] # None /\ \E by, out, silent : BeginFinish(e, by, out, silent)
    BY <1>0, <1>8
       DEF CancelUnstarted, CancelRunning, CancelPending, CancelUnknown, Active
  <2>. QED  BY <1>1, <1>6, <2>1, <2>2
<1>9. CASE List \/ AbortAck \/ AckCancel \/ AckItem \/ NobodyFree
  BY <1>1, <1>9 DEF List, AbortAck, AckCancel, AckItem, NobodyFree, daemonVars, entryVars, counterVars
<1>10. ASSUME pc = "abortSend"  PROVE Target[current] \notin Prompts
  BY <1>0, <1>10, CancelAssumption DEF Kinds, PollOK, AbortsCancel
<1>11. CASE AbortSend
  <2>1. \A r \in sent' : r \in sent \/ r.work \notin Prompts
    BY <1>10, <1>11, DeliveredFor DEF AbortSend
  <2>. QED  BY <1>11, <2>1, SlotsFrame DEF AbortSend, entryVars, counterVars
<1>12. ASSUME NEW done \in BOOLEAN, PollFails(done)  PROVE SlotsMatch'
  <2>1. \A r \in sent' : r \in sent \/ r.work \notin Prompts
    BY <1>10, <1>12, DeliveredFor DEF PollFails
  <2>. QED  BY <1>12, <2>1, SlotsFrame DEF PollFails, entryVars
<1>13. ASSUME NEW p \in Prompts,
              AckOtherChat(p) \/ \E l \in Leaders : AskStatus(p, l) \/ RejectPrompt(p, l)
       PROVE  SlotsMatch'
  BY <1>1, <1>13 DEF AskStatus, RejectPrompt, AckOtherChat, daemonVars, entryVars, counterVars
<1>14. ASSUME NEW n \in Notes, NEW l \in Leaders, DeliverNote(n, l)  PROVE SlotsMatch'
  BY <1>1, <1>14 DEF DeliverNote, daemonVars, entryVars, counterVars
<1>15. ASSUME NEW p \in Prompts, NEW l \in Leaders, DispatchPrompt(p, l)  PROVE SlotsMatch'
  BY <1>15, SlotsPrompt
<1>16. ASSUME NEW S \in SUBSET Tasks, NEW f \in [S -> Leaders], DispatchTasks(S, f)
       PROVE  SlotsMatch'
  <2>1. /\ \A e \in Work : owner'[e] = IF e \in S THEN f[e] ELSE owner[e]
        /\ \A e \in Work : epoch'[e] = IF e \in S THEN epoch[e] + 1 ELSE epoch[e]
        /\ UNCHANGED <<slots, finishing, sent, crashes>>
    BY <1>16 DEF DispatchTasks, Dispatch, daemonVars, counterVars
  <2>2. \A p \in Prompts : epoch'[p] = epoch[p]
    BY <1>0, <2>1
  <2>3. \A e \in Work : epoch[e] \in Nat /\ (epoch[e] > 0 \/ e \in S => epoch'[e] > 0)
    BY <2>1 DEF Kinds, EntryOK
  <2>4. \A c \in finishing : c.work \in Work
    BY DEF Kinds, CallsOK, Call
  <2>. SUFFICES ASSUME SlotsTaken  PROVE SlotsTaken'
    BY <2>1 DEF SlotsMatch, SlotsSuffice
  <2>5. \A e \in Work : owner'[e] # None => epoch'[e] > 0
    BY <2>1, <2>3 DEF SlotsTaken
  <2>6. \A c \in finishing' : epoch'[c.work] > 0
    BY <2>1, <2>3, <2>4 DEF SlotsTaken
  <2>. QED  BY <2>1, <2>2, <2>5, <2>6 DEF SlotsTaken, SlotSeen, Contains
<1>17. CASE Crash
  BY <1>17 DEF Crash, SlotsMatch, Kinds, CountersOK
<1>18. CASE UNCHANGED vars
  BY <1>1, <1>18 DEF vars, daemonVars, entryVars, counterVars
<1>19. CASE DispatchStep
  BY <1>9, <1>13, <1>14, <1>15, <1>16, <1>19 DEF DispatchStep
<1>20. ASSUME NEW c \in finishing, FinishStep(c)  PROVE SlotsMatch'
  BY <1>3, <1>4, <1>20 DEF FinishStep
<1>. QED
  BY <1>2, <1>5, <1>7, <1>8, <1>9, <1>11, <1>12, <1>17, <1>18, <1>19, <1>20 DEF Next, PollStep

\* At most one prompt is answered for a (host, room, turn), in whatever order
\* prompts arrive, are dispatched and are finished, as long as the process lives
\* and its set of slots does not overflow (inbox.js seenChatSlots).
THEOREM OneAnswerPerSlot == Spec => []SlotAnsweredOnce
<1>1. Init => SlotsMatch
  <2>. SUFFICES ASSUME Init  PROVE SlotsTaken
    BY DEF SlotsMatch
  <2>1. /\ slots = <<>> /\ Len(slots) = 0 /\ finishing = {} /\ sent = {}
        /\ owner = [e \in Work |-> None] /\ epoch = [e \in Work |-> 0]
    BY DEF Init
  <2>2. \A p \in Prompts : ~(epoch[p] > 0)
    BY <2>1 DEF Work
  <2>. QED  BY <2>1, <2>2 DEF SlotsTaken
<1>2. Kinds /\ SlotsMatch => SlotAnsweredOnce
  BY DEF SlotsMatch, SlotsTaken, SlotAnsweredOnce, OneReplyPerSlot
<1>. QED  BY <1>1, <1>2, KindsInit, KindsNext, SlotsNext, PTL DEF Spec
=============================================================================
