----------------------------- MODULE ChatProofs -----------------------------
(***************************************************************************)
(* Proofs about the chat room of a host, for any contract and any replies: *)
(* the room stays within its contract, its timeline only grows, and a      *)
(* reply that a Watcher's polls acknowledge without having it in the       *)
(* timeline is one the room would not take any more.  Its polls never work  *)
(* on the same reply at a time.                                            *)
(***************************************************************************)
EXTENDS WatcherChat, FiniteSetTheorems, TLAPS

\* The replies of a turn are finitely many.
LEMMA RepliesFinite ==
  ASSUME RoomTypeOK, NEW t
  PROVE  IsFiniteSet(RepliesIn(t)) /\ Cardinality(RepliesIn(t)) \in Nat
<1>1. IsFiniteSet(1..Len(messages))
  BY FS_Interval DEF RoomTypeOK
<1>2. RepliesIn(t) \subseteq 1..Len(messages)
  BY DEF RepliesIn
<1>. QED  BY <1>1, <1>2, FS_Subset, FS_CardinalityType

\* What a step that appends m leaves as it was.
LEMMA Appended ==
  ASSUME RoomTypeOK, NEW m \in Message, messages' = Append(messages, m)
  PROVE  /\ messages' \in Seq(Message)
         /\ Len(messages') = Len(messages) + 1
         /\ Len(messages) \in Nat
         /\ \A i \in 1..Len(messages) : messages'[i] = messages[i]
         /\ messages'[Len(messages')] = m
BY DEF RoomTypeOK

\* The replies of a turn after an append.
LEMMA RepliesAppended ==
  ASSUME RoomTypeOK, NEW m \in Message, messages' = Append(messages, m), NEW t
  PROVE  RepliesIn(t)' =
           IF IsReply(m) /\ m.turn = t THEN RepliesIn(t) \cup {Len(messages) + 1} ELSE RepliesIn(t)
<1>. DEFINE n == Len(messages)
<1>1. /\ n \in Nat /\ Len(messages') = n + 1
      /\ \A i \in 1..n : messages'[i] = messages[i]
      /\ messages'[n + 1] = m
  BY Appended
<1>2. 1..(n + 1) = (1..n) \cup {n + 1}
  BY <1>1
<1>3. RepliesIn(t)' =
        { i \in 1..(n + 1) : IsReply(messages'[i]) /\ messages'[i].turn = t }
  BY <1>1 DEF RepliesIn, IsReply
<1>. HIDE DEF n
<1>. QED  BY <1>1, <1>2, <1>3 DEF RepliesIn, n, IsReply

\* A prompt is a message of the timeline.
LEMMA PromptIsMessage ==
  ASSUME NEW t \in Nat
  PROVE  Prompt(t) \in Message /\ ~IsReply(Prompt(t)) /\ Prompt(t).turn = t
BY DEF Prompt, Message, IsReply

\* A reply that apply_reply accepts is a message of the timeline.
LEMMA ReplyIsMessage ==
  ASSUME NEW r \in Replies
  PROVE  /\ ReplyOf(r) \in Message /\ IsReply(ReplyOf(r))
         /\ ReplyOf(r).turn = Turn[r] /\ ReplyOf(r).author = From[r] /\ ReplyOf(r).id = r
BY ReplyAssumption DEF ReplyOf, Message, IsReply

-----------------------------------------------------------------------------
\* A new room satisfies the invariant.
LEMMA RoomInitInv == RoomInit => RoomInv
<1>. SUFFICES ASSUME RoomInit PROVE RoomInv
  OBVIOUS
<1>1. open = TRUE /\ turn = 0 /\ messages = <<>> /\ Len(messages) = 0
  BY DEF RoomInit
<1>2. RoomTypeOK
  BY <1>1 DEF RoomTypeOK
<1>3. WithinContract
  BY <1>1, ContractAssumption DEF WithinContract
<1>4. TurnsWithinContract /\ InOrder /\ PromptsPosted
  BY <1>1 DEF TurnsWithinContract, InOrder, PromptsPosted
<1>. QED  BY <1>2, <1>3, <1>4 DEF RoomInv

\* A step that leaves the timeline alone.
LEMMA SameTimeline ==
  ASSUME RoomInv, messages' = messages, turn' = turn, open' \in BOOLEAN
  PROVE  RoomInv'
<1>1. \A t : RepliesIn(t)' = RepliesIn(t)
  BY DEF RepliesIn, IsReply
<1>2. RoomTypeOK' /\ WithinContract'
  BY DEF RoomInv, RoomTypeOK, WithinContract
<1>3. TurnsWithinContract'
  BY <1>1 DEF RoomInv, TurnsWithinContract
<1>4. InOrder' /\ PromptsPosted'
  BY DEF RoomInv, InOrder, PromptsPosted, IsReply, Prompt
<1>. QED  BY <1>2, <1>3, <1>4 DEF RoomInv

\* A post opens a turn that has no replies yet.
LEMMA PostKeepsInv ==
  ASSUME RoomInv, Post
  PROVE  RoomInv'
<1>. DEFINE n == Len(messages)
            m == Prompt(turn + 1)
<1>1. /\ turn \in Nat /\ turn' = turn + 1 /\ turn < MaxTurns /\ n < MaxTotal
      /\ messages' = Append(messages, m) /\ open' = open
      /\ m \in Message /\ ~IsReply(m) /\ m.turn = turn + 1
  BY PromptIsMessage, ContractAssumption DEF RoomInv, RoomTypeOK, Post, Full
<1>2. /\ messages' \in Seq(Message) /\ Len(messages') = n + 1 /\ n \in Nat
      /\ \A i \in 1..n : messages'[i] = messages[i]
      /\ messages'[n + 1] = m
  BY <1>1, Appended DEF RoomInv
<1>3. RoomTypeOK'
  BY <1>1, <1>2 DEF RoomInv, RoomTypeOK
<1>4. WithinContract'
  BY <1>1, <1>2, ContractAssumption DEF WithinContract
<1>5. \A t : RepliesIn(t)' = RepliesIn(t)
  BY <1>1, RepliesAppended DEF RoomInv
<1>6. \A t : RepliesIn(t) \subseteq 1..n
  BY DEF RepliesIn
<1>7. RepliesIn(turn + 1) = {}
  BY <1>1 DEF RepliesIn, RoomInv, InOrder
<1>8. TurnsWithinContract'
  <2>1. ASSUME NEW t \in 1..turn'
        PROVE  /\ \A i, j \in RepliesIn(t) : messages'[i].author = messages'[j].author => i = j
               /\ Cardinality(RepliesIn(t)) <= MaxResponders
    <3>1. CASE t = turn + 1
      <4>1. Cardinality(RepliesIn(t)) = 0
        BY <1>7, <3>1, FS_EmptySet
      <4>. QED  BY <1>7, <3>1, <4>1, ContractAssumption
    <3>2. CASE t \in 1..turn
      BY <1>2, <1>6, <3>2 DEF RoomInv, TurnsWithinContract
    <3>3. t = turn + 1 \/ t \in 1..turn
      BY <1>1
    <3>. QED  BY <3>1, <3>2, <3>3
  <2>. QED  BY <1>5, <2>1 DEF TurnsWithinContract
<1>9. InOrder'
  <2>1. ASSUME NEW i \in 1..(n + 1)
        PROVE  /\ messages'[i].turn \in 1..(turn + 1)
               /\ IsReply(messages'[i]) =>
                    /\ messages'[i].author \in Participants
                    /\ \E j \in 1..(i - 1) : messages'[j] = Prompt(messages'[i].turn)
    <3>1. CASE i = n + 1
      BY <1>1, <1>2, <3>1
    <3>2. CASE i \in 1..n
      BY <1>1, <1>2, <3>2 DEF RoomInv, InOrder
    <3>. QED  BY <1>2, <2>1, <3>1, <3>2
  <2>. QED  BY <1>1, <1>2, <2>1 DEF InOrder, IsReply, Prompt
<1>10. PromptsPosted'
  <2>1. ASSUME NEW t \in 1..(turn + 1)
        PROVE  \E i \in 1..(n + 1) : messages'[i] = Prompt(t)
    <3>1. CASE t = turn + 1
      BY <1>2, <3>1
    <3>2. CASE t \in 1..turn
      BY <1>2, <3>2 DEF RoomInv, PromptsPosted
    <3>. QED  BY <1>1, <2>1, <3>1, <3>2
  <2>. QED  BY <1>1, <1>2, <2>1 DEF PromptsPosted, Prompt
<1>. QED  BY <1>3, <1>4, <1>8, <1>9, <1>10 DEF RoomInv

\* An ingestion adds the reply of a Leader that has none in its turn, as long
\* as the turn's budget lasts.
LEMMA IngestKeepsInv ==
  ASSUME RoomInv, NEW r \in Replies, Ingest(r)
  PROVE  RoomInv'
<1>1. CASE UNCHANGED roomVars
  BY <1>1, SameTimeline DEF roomVars, RoomInv, RoomTypeOK
<1>2. CASE Accepts(r) /\ messages' = Append(messages, ReplyOf(r)) /\ UNCHANGED <<open, turn>>
  <2>. DEFINE n == Len(messages)
              m == ReplyOf(r)
              u == Turn[r]
  <2>1. /\ turn \in Nat /\ turn' = turn /\ open' = open /\ n < MaxTotal
        /\ m \in Message /\ IsReply(m) /\ m.turn = u /\ m.author = From[r]
        /\ From[r] \in Participants /\ u \in 1..turn
    BY <1>2, ReplyIsMessage, ContractAssumption
       DEF RoomInv, RoomTypeOK, Accepts, Addressed, WithinBudget, Full
  <2>2. /\ messages' \in Seq(Message) /\ Len(messages') = n + 1 /\ n \in Nat
        /\ \A i \in 1..n : messages'[i] = messages[i]
        /\ messages'[n + 1] = m
    BY <1>2, <2>1, Appended DEF RoomInv
  <2>3. RoomTypeOK' /\ WithinContract'
    BY <2>1, <2>2, ContractAssumption DEF RoomInv, RoomTypeOK, WithinContract
  <2>4. \A t : RepliesIn(t)' = IF t = u THEN RepliesIn(t) \cup {n + 1} ELSE RepliesIn(t)
    BY <1>2, <2>1, RepliesAppended DEF RoomInv
  <2>5. \A t : RepliesIn(t) \subseteq 1..n
    BY DEF RepliesIn
  <2>6. TurnsWithinContract'
    <3>1. ASSUME NEW t \in 1..turn
          PROVE  /\ \A i, j \in RepliesIn(t)' : messages'[i].author = messages'[j].author => i = j
                 /\ Cardinality(RepliesIn(t)') <= MaxResponders
      <4>1. CASE t = u
        <5>1. \A i \in RepliesIn(u) : messages'[i].author # From[r]
          BY <1>2, <2>2, <2>5 DEF Accepts, WithinBudget, HasReplied
        <5>2. \A i, j \in RepliesIn(u) : messages'[i].author = messages'[j].author => i = j
          BY <2>1, <2>2, <2>5 DEF RoomInv, TurnsWithinContract
        <5>3. RepliesIn(t)' = RepliesIn(u) \cup {n + 1}
          BY <2>4, <4>1
        <5>4. Cardinality(RepliesIn(u) \cup {n + 1}) = Cardinality(RepliesIn(u)) + 1
          <6>1. n + 1 \notin RepliesIn(u)
            BY <2>2, <2>5
          <6>. QED  BY <6>1, RepliesFinite, FS_AddElement DEF RoomInv
        <5>5. Cardinality(RepliesIn(u)) < MaxResponders /\ Cardinality(RepliesIn(u)) \in Nat
          BY <1>2, RepliesFinite DEF Accepts, WithinBudget, RoomInv
        <5>. QED  BY <2>1, <2>2, <5>1, <5>2, <5>3, <5>4, <5>5, ContractAssumption
      <4>2. CASE t # u
        <5>1. RepliesIn(t)' = RepliesIn(t)
          BY <2>4, <4>2
        <5>. QED  BY <2>2, <2>5, <5>1, <3>1 DEF RoomInv, TurnsWithinContract
      <4>. QED  BY <4>1, <4>2
    <3>. QED  BY <2>1, <3>1 DEF TurnsWithinContract
  <2>7. InOrder'
    <3>1. ASSUME NEW i \in 1..(n + 1)
          PROVE  /\ messages'[i].turn \in 1..turn
                 /\ IsReply(messages'[i]) =>
                      /\ messages'[i].author \in Participants
                      /\ \E j \in 1..(i - 1) : messages'[j] = Prompt(messages'[i].turn)
      <4>1. CASE i = n + 1
        <5>1. \E j \in 1..n : messages[j] = Prompt(u)
          BY <2>1 DEF RoomInv, PromptsPosted
        <5>. QED  BY <2>1, <2>2, <4>1, <5>1
      <4>2. CASE i \in 1..n
        BY <2>2, <4>2 DEF RoomInv, InOrder
      <4>. QED  BY <2>2, <3>1, <4>1, <4>2
    <3>. QED  BY <2>1, <2>2, <3>1 DEF InOrder, IsReply, Prompt
  <2>8. PromptsPosted'
    BY <2>1, <2>2 DEF RoomInv, PromptsPosted, Prompt
  <2>. QED  BY <2>3, <2>6, <2>7, <2>8 DEF RoomInv
<1>. QED  BY <1>1, <1>2 DEF Ingest

\* Posts, ingestions and closing keep the invariant of the room.
LEMMA RoomNextInv == RoomInv /\ [RoomNext]_roomVars => RoomInv'
<1>. SUFFICES ASSUME RoomInv, [RoomNext]_roomVars  PROVE RoomInv'
  OBVIOUS
<1>1. CASE Close \/ UNCHANGED roomVars
  BY <1>1, SameTimeline DEF Close, roomVars, RoomInv, RoomTypeOK
<1>. QED  BY <1>1, PostKeepsInv, IngestKeepsInv DEF RoomNext

\* Whatever sequence of posts, ingestions and a close reaches the room, it stays
\* within the contract and in order (chat.rs post and apply_reply).
THEOREM RoomInvariance == RoomSpec => []RoomInv
BY RoomInitInv, RoomNextInv, PTL DEF RoomSpec

-----------------------------------------------------------------------------
(* The Watcher's polls *)

WatcherInv == RoomInv /\ TypeOK /\ IngestedOrRejected /\ DroppedStaysRejected

\* What a step of the system does to the room.
LEMMA RoomSteps ==
  ASSUME WatcherInv, [Next]_vars
  PROVE  [RoomNext]_roomVars
<1>1. CASE HostSpeaks \/ HostCloses
  BY <1>1 DEF HostSpeaks, HostCloses, RoomNext
<1>2. ASSUME NEW p \in Polls, Ingested(p)  PROVE [RoomNext]_roomVars
  <2>1. current[p] \in Replies
    BY <1>2 DEF Ingested, WatcherInv, IngestedOrRejected, TypeOK
  <2>. QED  BY <1>2, <2>1 DEF Ingested, RoomNext
<1>3. ASSUME NEW p \in Polls,
             \/ List(p) \/ Acked(p) \/ IngestFails(p) \/ AckFails(p)
             \/ \E r \in Replies : Skip(p, r) \/ Begin(p, r)
      PROVE  UNCHANGED roomVars
  BY <1>3 DEF List, Acked, IngestFails, AckFails, Skip, Begin
<1>4. ASSUME Restart \/ UNCHANGED vars \/ \E r \in Replies : Arrive(r)  PROVE UNCHANGED roomVars
  BY <1>4 DEF Restart, vars, Arrive
<1>. QED  BY <1>1, <1>2, <1>3, <1>4 DEF Next, PollStep

\* What the room rejects it rejects for good: the turn's replies and the room's
\* messages only become more, and a closed room stays closed.
LEMMA RejectionIsFinal ==
  ASSUME RoomInv, [RoomNext]_roomVars, NEW r \in Replies, Turn[r] <= turn, ~Accepts(r)
  PROVE  ~Accepts(r)'
<1>1. CASE UNCHANGED roomVars
  BY <1>1 DEF roomVars, Accepts, Addressed, WithinBudget, Has, HasReplied, RepliesIn, Full, IsReply
<1>2. CASE Close
  BY <1>2 DEF Close, Accepts, Addressed
<1>3. ASSUME NEW m \in Message, messages' = Append(messages, m), open' = open, turn' >= turn,
             turn' \in Nat
      PROVE  ~Accepts(r)'
  <2>. DEFINE n == Len(messages)
  <2>1. /\ messages' \in Seq(Message) /\ Len(messages') = n + 1 /\ n \in Nat
        /\ \A i \in 1..n : messages'[i] = messages[i]
    BY <1>3, Appended DEF RoomInv
  <2>2. Turn[r] \in Nat /\ turn \in Nat
    BY ReplyAssumption DEF RoomInv, RoomTypeOK
  <2>3. CASE ~Addressed(r)
    BY <1>3, <2>2, <2>3 DEF Accepts, Addressed
  <2>4. CASE Has(r)
    BY <2>1, <2>4 DEF Has, Accepts
  <2>5. CASE Full
    BY <2>1, <2>5, ContractAssumption DEF Full, Accepts, WithinBudget
  <2>6. RepliesIn(Turn[r]) \subseteq RepliesIn(Turn[r])'
    BY <2>1 DEF RepliesIn, IsReply
  <2>7. CASE HasReplied(From[r], Turn[r])
    BY <2>1, <2>6, <2>7 DEF HasReplied, RepliesIn, Accepts, WithinBudget
  <2>8. CASE ~(Cardinality(RepliesIn(Turn[r])) < MaxResponders)
    <3>1. RoomTypeOK'
      BY <1>3, <2>1 DEF RoomInv, RoomTypeOK
    <3>2. IsFiniteSet(RepliesIn(Turn[r])') /\ Cardinality(RepliesIn(Turn[r])') \in Nat
      <4>. DEFINE u == Turn[r]
      <4>1. IsFiniteSet(1..(n + 1))
        BY <2>1, FS_Interval
      <4>2. RepliesIn(u)' \subseteq 1..(n + 1)
        BY <2>1 DEF RepliesIn
      <4>. QED  BY <4>1, <4>2, FS_Subset, FS_CardinalityType
    <3>3. Cardinality(RepliesIn(Turn[r])) <= Cardinality(RepliesIn(Turn[r])')
      BY <2>6, <3>2, FS_Subset
    <3>. QED  BY <2>8, <3>2, <3>3, RepliesFinite, ContractAssumption
              DEF Accepts, WithinBudget, RoomInv
  <2>. QED  BY <2>3, <2>4, <2>5, <2>7, <2>8 DEF Accepts, WithinBudget
<1>4. CASE Post
  <2>1. turn + 1 \in Nat /\ turn \in Nat
    BY DEF RoomInv, RoomTypeOK
  <2>. QED  BY <1>3, <1>4, <2>1, PromptIsMessage DEF Post
<1>5. ASSUME NEW q \in Replies, Ingest(q)  PROVE ~Accepts(r)'
  <2>1. CASE Accepts(q)
    BY <1>3, <1>5, <2>1, ReplyIsMessage DEF Ingest, RoomInv, RoomTypeOK
  <2>2. CASE ~Accepts(q)
    BY <1>1, <1>5, <2>2 DEF Ingest
  <2>. QED  BY <2>1, <2>2
<1>. QED  BY <1>1, <1>2, <1>4, <1>5 DEF RoomNext

\* After its ingestion the room has a reply, or rejected it.
LEMMA IngestSettles ==
  ASSUME RoomInv, NEW r \in Replies, Ingest(r)
  PROVE  ~Accepts(r)'
<1>1. CASE Accepts(r)
  <2>1. messages' = Append(messages, ReplyOf(r))
    BY <1>1 DEF Ingest
  <2>2. Len(messages') \in 1..Len(messages') /\ messages'[Len(messages')].id = r
    BY <2>1, Appended, ReplyIsMessage DEF RoomInv
  <2>. QED  BY <2>2 DEF Accepts, Has
<1>2. CASE ~Accepts(r)
  BY <1>2 DEF Ingest, roomVars, Accepts, Addressed, WithinBudget, Has, HasReplied, RepliesIn,
              Full, IsReply
<1>. QED  BY <1>1, <1>2

\* Before the first poll nothing has been dropped.
LEMMA WatcherInit == Init => WatcherInv
<1>. SUFFICES ASSUME Init  PROVE WatcherInv
  OBVIOUS
<1>1. RoomInv
  BY RoomInitInv DEF Init
<1>. QED  BY <1>1 DEF Init, WatcherInv, TypeOK, IngestedOrRejected, DroppedStaysRejected

\* The turn never goes back.
LEMMA TurnGrows ==
  ASSUME RoomInv, [RoomNext]_roomVars
  PROVE  turn \in Nat /\ turn' \in Nat /\ turn <= turn'
BY DEF RoomInv, RoomTypeOK, RoomNext, Post, Ingest, Close, roomVars

\* Every step of the host, the polls and the mailbox keeps the invariant.
LEMMA WatcherNext == WatcherInv /\ [Next]_vars => WatcherInv'
<1>. SUFFICES ASSUME WatcherInv, [Next]_vars  PROVE WatcherInv'
  OBVIOUS
<1>1. [RoomNext]_roomVars /\ RoomInv'
  BY RoomSteps, RoomNextInv DEF WatcherInv
<1>2. \A r \in Replies : Turn[r] \in Nat
  BY ReplyAssumption
<1>3. \A r \in arrived : Turn[r] <= turn /\ Turn[r] <= turn'
  BY <1>1, <1>2, TurnGrows DEF WatcherInv, IngestedOrRejected, TypeOK
<1>4. \A r \in arrived : ~Accepts(r) => ~Accepts(r)'
  BY <1>1, <1>3, RejectionIsFinal DEF WatcherInv, TypeOK
<1>5. ASSUME UNCHANGED <<arrived, inbox, watcherVars, refused>>, UNCHANGED faults
      PROVE  WatcherInv'
  BY <1>1, <1>3, <1>4, <1>5 DEF watcherVars, WatcherInv, TypeOK, IngestedOrRejected, DroppedStaysRejected
<1>6. CASE HostSpeaks \/ HostCloses \/ UNCHANGED vars
  BY <1>5, <1>6 DEF HostSpeaks, HostCloses, vars
<1>7. ASSUME NEW r \in Replies, Arrive(r)  PROVE WatcherInv'
  <2>1. turn' = turn
    BY <1>7 DEF Arrive, roomVars
  <2>. QED  BY <1>1, <1>3, <1>4, <1>7, <2>1
            DEF Arrive, watcherVars, WatcherInv, TypeOK, IngestedOrRejected, DroppedStaysRejected
<1>8. ASSUME NEW p \in Polls, List(p)  PROVE WatcherInv'
  BY <1>1, <1>3, <1>4, <1>8 DEF List, WatcherInv, TypeOK, IngestedOrRejected, DroppedStaysRejected
<1>9. ASSUME NEW p \in Polls, NEW r \in Replies, Skip(p, r)  PROVE WatcherInv'
  BY <1>1, <1>3, <1>4, <1>9 DEF Skip, WatcherInv, TypeOK, IngestedOrRejected, DroppedStaysRejected
<1>10. ASSUME NEW p \in Polls, NEW r \in Replies, Begin(p, r)  PROVE WatcherInv'
  BY <1>1, <1>3, <1>4, <1>10 DEF Begin, WatcherInv, TypeOK, IngestedOrRejected, DroppedStaysRejected
<1>11. ASSUME NEW p \in Polls, Ingested(p)  PROVE WatcherInv'
  <2>1. current[p] \in Replies /\ current[p] \in arrived
    BY <1>11 DEF Ingested, WatcherInv, IngestedOrRejected, TypeOK
  <2>2. ~Accepts(current[p])'
    BY <1>11, <2>1, IngestSettles DEF Ingested, WatcherInv
  <2>3. TypeOK'
    BY <1>11 DEF Ingested, WatcherInv, TypeOK
  <2>4. DroppedStaysRejected'
    BY <1>4, <1>11 DEF Ingested, WatcherInv, DroppedStaysRejected
  <2>5. IngestedOrRejected'
    BY <1>3, <1>4, <1>11, <2>1, <2>2 DEF Ingested, WatcherInv, IngestedOrRejected, TypeOK
  <2>. QED  BY <1>1, <2>3, <2>4, <2>5 DEF WatcherInv
<1>12. ASSUME NEW p \in Polls, IngestFails(p)  PROVE WatcherInv'
  BY <1>1, <1>3, <1>4, <1>12
     DEF IngestFails, WatcherInv, TypeOK, IngestedOrRejected, DroppedStaysRejected
<1>13. ASSUME NEW p \in Polls, Acked(p)  PROVE WatcherInv'
  <2>1. TypeOK'
    BY <1>13 DEF Acked, EndIngest, WatcherInv, TypeOK
  <2>2. IngestedOrRejected'
    BY <1>3, <1>4, <1>13 DEF Acked, EndIngest, WatcherInv, TypeOK, IngestedOrRejected
  <2>3. DroppedStaysRejected'
    BY <1>4, <1>13 DEF Acked, WatcherInv, IngestedOrRejected, DroppedStaysRejected
  <2>. QED  BY <1>1, <2>1, <2>2, <2>3 DEF WatcherInv
<1>14. ASSUME NEW p \in Polls, AckFails(p)  PROVE WatcherInv'
  <2>1. TypeOK'
    BY <1>14 DEF AckFails, EndIngest, WatcherInv, TypeOK
  <2>2. IngestedOrRejected'
    BY <1>3, <1>4, <1>14 DEF AckFails, EndIngest, WatcherInv, TypeOK, IngestedOrRejected
  <2>3. DroppedStaysRejected'
    BY <1>4, <1>14 DEF AckFails, WatcherInv, DroppedStaysRejected
  <2>. QED  BY <1>1, <2>1, <2>2, <2>3 DEF WatcherInv
<1>15. CASE Restart
  BY <1>1, <1>3, <1>4, <1>15 DEF Restart, WatcherInv, TypeOK, IngestedOrRejected, DroppedStaysRejected
<1>. QED
  BY <1>6, <1>7, <1>8, <1>9, <1>10, <1>11, <1>12, <1>13, <1>14, <1>15 DEF Next, PollStep

\* An acknowledged reply is in the timeline or the room would still not take it:
\* overlapping polls, failed acknowledgements and restarts lose no reply.
THEOREM NoReplyDropped == Spec => []DroppedStaysRejected
<1>1. WatcherInv => DroppedStaysRejected
  BY DEF WatcherInv
<1>. QED  BY <1>1, WatcherInit, WatcherNext, PTL DEF Spec

-----------------------------------------------------------------------------
(* Which poll works on which reply *)

\* A poll that awaits no call holds no reply, and the other way round.
IdleHoldsNothing ==
  \A p \in Polls : stage[p] = "idle" <=> current[p] = NoReply

PollInv == TypeOK /\ OnePollPerReply /\ IdleHoldsNothing

\* A step that changes no poll's reply and leaves no poll idle that was not.
LEMMA SamePolls ==
  ASSUME PollInv, current' = current, processing' = processing,
         \A p \in Polls : stage'[p] = "idle" <=> stage[p] = "idle"
  PROVE  OnePollPerReply' /\ IdleHoldsNothing'
BY DEF PollInv, OnePollPerReply, IdleHoldsNothing

\* A poll takes up a reply no poll works on.
LEMMA BeginKeepsPolls ==
  ASSUME PollInv, NEW p \in Polls, NEW r \in Replies, Begin(p, r)
  PROVE  OnePollPerReply' /\ IdleHoldsNothing'
<1>1. /\ current' = [current EXCEPT ![p] = r] /\ stage' = [stage EXCEPT ![p] = "ingest"]
      /\ processing' = processing \cup {r}
      /\ r # NoReply /\ current[p] = NoReply /\ r \notin processing
      /\ current \in [Polls -> Replies \cup {NoReply}]
      /\ stage \in [Polls -> {"idle", "ingest", "ack"}]
  BY PollAssumption DEF Begin, PollInv, TypeOK, IdleHoldsNothing
<1>2. \A q \in Polls : current'[q] = IF q = p THEN r ELSE current[q]
  BY <1>1
<1>3. \A q \in Polls : stage'[q] = IF q = p THEN "ingest" ELSE stage[q]
  BY <1>1
<1>4. \A q \in Polls : current[q] # r
  BY <1>1 DEF PollInv, OnePollPerReply
<1>5. \A q, s \in Polls : current'[q] # NoReply /\ current'[q] = current'[s] => q = s
  BY <1>2, <1>4 DEF PollInv, OnePollPerReply
<1>6. processing' = { current'[q] : q \in Polls } \ {NoReply}
  BY <1>1, <1>2 DEF PollInv, OnePollPerReply
<1>7. IdleHoldsNothing'
  BY <1>1, <1>2, <1>3 DEF PollInv, IdleHoldsNothing
<1>. QED  BY <1>5, <1>6, <1>7 DEF OnePollPerReply

\* A poll is done with its reply.
LEMMA EndKeepsPolls ==
  ASSUME PollInv, NEW p \in Polls, stage[p] # "idle", EndIngest(p)
  PROVE  OnePollPerReply' /\ IdleHoldsNothing'
<1>1. /\ current' = [current EXCEPT ![p] = NoReply] /\ stage' = [stage EXCEPT ![p] = "idle"]
      /\ processing' = processing \ {current[p]}
      /\ current[p] # NoReply
      /\ current \in [Polls -> Replies \cup {NoReply}]
      /\ stage \in [Polls -> {"idle", "ingest", "ack"}]
  BY DEF EndIngest, PollInv, TypeOK, IdleHoldsNothing
<1>2. \A q \in Polls : current'[q] = IF q = p THEN NoReply ELSE current[q]
  BY <1>1
<1>3. \A q \in Polls : stage'[q] = IF q = p THEN "idle" ELSE stage[q]
  BY <1>1
<1>4. \A q \in Polls : q # p => current[q] # current[p]
  BY <1>1 DEF PollInv, OnePollPerReply
<1>5. \A q, s \in Polls : current'[q] # NoReply /\ current'[q] = current'[s] => q = s
  BY <1>2 DEF PollInv, OnePollPerReply
<1>6. processing' = { current'[q] : q \in Polls } \ {NoReply}
  BY <1>1, <1>2, <1>4 DEF PollInv, OnePollPerReply
<1>7. IdleHoldsNothing'
  BY <1>1, <1>2, <1>3 DEF PollInv, IdleHoldsNothing
<1>. QED  BY <1>5, <1>6, <1>7 DEF OnePollPerReply

\* At the start no poll holds a reply.
LEMMA PollInit == Init => OnePollPerReply /\ IdleHoldsNothing
BY DEF Init, OnePollPerReply, IdleHoldsNothing

\* Listings that overlap, failed calls and the death of the app leave a reply
\* with one poll at most.
LEMMA PollNext == PollInv /\ [Next]_vars => OnePollPerReply' /\ IdleHoldsNothing'
<1>. SUFFICES ASSUME PollInv, [Next]_vars  PROVE OnePollPerReply' /\ IdleHoldsNothing'
  OBVIOUS
<1>1. CASE HostSpeaks \/ HostCloses \/ UNCHANGED vars \/ \E r \in Replies : Arrive(r)
  BY <1>1, SamePolls DEF HostSpeaks, HostCloses, vars, Arrive, watcherVars
<1>2. ASSUME NEW p \in Polls, List(p) \/ \E r \in Replies : Skip(p, r)
      PROVE  OnePollPerReply' /\ IdleHoldsNothing'
  BY <1>2, SamePolls DEF List, Skip
<1>3. ASSUME NEW p \in Polls, Ingested(p) \/ IngestFails(p)
      PROVE  OnePollPerReply' /\ IdleHoldsNothing'
  <2>1. /\ current' = current /\ processing' = processing /\ stage[p] = "ingest"
        /\ stage' = [stage EXCEPT ![p] = "ack"]
    BY <1>3 DEF Ingested, IngestFails
  <2>2. \A q \in Polls : stage'[q] = IF q = p THEN "ack" ELSE stage[q]
    BY <2>1 DEF PollInv, TypeOK
  <2>3. \A q \in Polls : stage'[q] = "idle" <=> stage[q] = "idle"
    BY <2>1, <2>2
  <2>. QED  BY <2>1, <2>3, SamePolls
<1>4. ASSUME NEW p \in Polls, NEW r \in Replies, Begin(p, r)
      PROVE  OnePollPerReply' /\ IdleHoldsNothing'
  BY <1>4, BeginKeepsPolls
<1>5. ASSUME NEW p \in Polls, Acked(p) \/ AckFails(p)
      PROVE  OnePollPerReply' /\ IdleHoldsNothing'
  BY <1>5, EndKeepsPolls DEF Acked, AckFails
<1>6. CASE Restart
  BY <1>6 DEF Restart, OnePollPerReply, IdleHoldsNothing
<1>. QED  BY <1>1, <1>2, <1>3, <1>4, <1>5, <1>6 DEF Next, PollStep

\* The room stays within its contract, and between listings that overlap one
\* poll at a time works on a reply: processingEnvelopeIDs is exactly what the
\* polls hold (AppModel.swift pollOnce and ingest).
THEOREM WatcherInvariance == Spec => []Inv
<1>1. Init => WatcherInv /\ OnePollPerReply /\ IdleHoldsNothing
  BY WatcherInit, PollInit
<1>2. WatcherInv /\ OnePollPerReply /\ IdleHoldsNothing /\ [Next]_vars
        => (WatcherInv /\ OnePollPerReply /\ IdleHoldsNothing)'
  BY WatcherNext, PollNext DEF WatcherInv, PollInv
<1>3. WatcherInv /\ OnePollPerReply => Inv
  BY DEF WatcherInv, Inv
<1>. QED  BY <1>1, <1>2, <1>3, PTL DEF Spec

-----------------------------------------------------------------------------
(* The room as the polls leave it *)

\* The room under the polls is the room of ChatRoom.
THEOREM RoomRefinement == Spec => RoomSpec
<1>1. Init => RoomInit
  BY DEF Init
<1>2. WatcherInv /\ [Next]_vars => [RoomNext]_roomVars
  BY RoomSteps
<1>. QED  BY <1>1, <1>2, WatcherInit, WatcherNext, PTL DEF Spec, RoomSpec

\* A timeline only grows at its end, and not after the room is closed.
THEOREM TimelineGrows == RoomSpec => AppendOnly
<1>1. RoomInv /\ [RoomNext]_roomVars =>
        [/\ Len(messages) <= Len(messages')
         /\ SubSeq(messages', 1, Len(messages)) = messages
         /\ ~open => messages' = messages /\ ~open']_roomVars
  <2>. SUFFICES ASSUME RoomInv, RoomNext
       PROVE  /\ Len(messages) <= Len(messages')
              /\ SubSeq(messages', 1, Len(messages)) = messages
              /\ ~open => messages' = messages /\ ~open'
    OBVIOUS
  <2>0. messages \in Seq(Message) /\ turn + 1 \in Nat
    BY DEF RoomInv, RoomTypeOK
  <2>1. CASE Close
    BY <2>0, <2>1 DEF Close
  <2>2. ASSUME NEW m \in Message, messages' = Append(messages, m), open
        PROVE  /\ Len(messages) <= Len(messages')
               /\ SubSeq(messages', 1, Len(messages)) = messages
    BY <2>0, <2>2
  <2>3. CASE Post
    BY <2>2, <2>3, <2>0, PromptIsMessage DEF Post
  <2>4. ASSUME NEW r \in Replies, Ingest(r)
        PROVE  /\ Len(messages) <= Len(messages')
               /\ SubSeq(messages', 1, Len(messages)) = messages
               /\ ~open => messages' = messages /\ ~open'
    <3>1. CASE Accepts(r)
      BY <2>2, <2>4, <3>1, ReplyIsMessage DEF Ingest, Accepts, Addressed
    <3>2. CASE ~Accepts(r)
      BY <2>0, <2>4, <3>2 DEF Ingest, roomVars
    <3>. QED  BY <3>1, <3>2
  <2>. QED  BY <2>1, <2>3, <2>4 DEF RoomNext
<1>. QED  BY <1>1, RoomInitInv, RoomNextInv, PTL DEF RoomSpec, AppendOnly
=============================================================================
