------------------------------ MODULE ChatRoom ------------------------------
(***************************************************************************)
(* The chat room a host keeps: crates/agent-mesh/src/chat.rs, behind the   *)
(* chat.post, chat.ingest and chat.close methods of the daemon             *)
(* (network.rs).  Each method reads the room's file, changes the room and  *)
(* renames a complete new file over the old one, so a daemon that dies on  *)
(* the way has done nothing.                                               *)
(*                                                                         *)
(* Prompts are identified by their turn: prompt t is the one that opened   *)
(* turn t.  A reply is the envelope that carries it.                       *)
(***************************************************************************)
EXTENDS Integers, Sequences, FiniteSets

CONSTANTS
  Peers,          \* authenticated senders of replies
  Participants,   \* contract.participants
  MaxTurns,       \* contract.max_turns
  MaxResponders,  \* contract.max_responders_per_turn
  MaxTotal,       \* contract.max_total_messages
  Replies,        \* ids of the reply envelopes
  From,           \* From[r]: the peer that sent r
  Turn,           \* Turn[r]: the turn r claims to answer
  ReplyTo,        \* ReplyTo[r]: the prompt r claims to answer
  Host            \* the author of the prompts

\* ChatContract::validate
ASSUME ContractAssumption ==
  /\ Participants \subseteq Peers /\ Participants # {}
  /\ MaxTurns \in Nat \ {0}
  /\ MaxResponders \in Nat \ {0}
  /\ MaxTotal \in Nat \ {0, 1}
ASSUME ReplyAssumption ==
  /\ From \in [Replies -> Peers] /\ Turn \in [Replies -> Nat] /\ ReplyTo \in [Replies -> Nat]
  /\ Host \notin Replies

VARIABLES
  open,       \* room.open
  turn,       \* room.turn
  messages    \* room.messages

roomVars == <<open, turn, messages>>

\* A message of the timeline: a prompt, or the reply of a Leader.
Prompt(t)     == [ id |-> Host, author |-> Host, turn |-> t ]
ReplyOf(r)    == [ id |-> r, author |-> From[r], turn |-> Turn[r] ]
IsReply(m)    == m.id # Host
Message       == [ id : Replies \cup {Host}, author : Peers \cup {Host}, turn : Nat ]

RoomInit ==
  /\ open = TRUE
  /\ turn = 0
  /\ messages = <<>>

-----------------------------------------------------------------------------
\* The budget for messages of the whole room.
Full == Len(messages) >= MaxTotal

\* chat.post of a body that is neither empty nor too long.
Post ==
  /\ open
  /\ turn < MaxTurns
  /\ ~Full
  /\ turn' = turn + 1
  /\ messages' = Append(messages, Prompt(turn'))
  /\ UNCHANGED open

\* Positions of the replies of a turn.
RepliesIn(t) == { i \in 1..Len(messages) : IsReply(messages[i]) /\ messages[i].turn = t }

\* The room has r already; a second ingestion succeeds and changes nothing.
Has(r) == \E i \in 1..Len(messages) : messages[i].id = r

\* Mutant: only the last message of the room is looked at.
RepliedLast(p, t) == Len(messages) \in RepliesIn(t) /\ messages[Len(messages)].author = p

HasReplied(p, t) == \E i \in RepliesIn(t) : messages[i].author = p

\* Mutant: a closed room still takes replies.
AddressedAnyway(r) ==
  /\ From[r] \in Participants
  /\ Turn[r] \in 1..turn
  /\ ReplyTo[r] = Turn[r]

\* What apply_reply demands of a reply before it looks whether it has it: an
\* open room, a participant, a turn that has been opened, and that turn's prompt.
Addressed(r) ==
  /\ open
  /\ From[r] \in Participants
  /\ Turn[r] \in 1..turn
  /\ ReplyTo[r] = Turn[r]

\* What it demands of a new one: one reply per Leader and turn, and the budgets.
WithinBudget(r) ==
  /\ ~HasReplied(From[r], Turn[r])
  /\ Cardinality(RepliesIn(Turn[r])) < MaxResponders
  /\ ~Full

Accepts(r) == Addressed(r) /\ ~Has(r) /\ WithinBudget(r)

\* Mutant: only replies to the current turn are taken.
IngestCurrent(r) ==
  IF Accepts(r) /\ Turn[r] = turn
    THEN /\ messages' = Append(messages, ReplyOf(r))
         /\ UNCHANGED <<open, turn>>
    ELSE UNCHANGED roomVars

\* chat.ingest: an accepted reply is appended; otherwise the room is unchanged,
\* whether the caller is told Ok (a reply the room has) or an error.
Ingest(r) ==
  IF Accepts(r)
    THEN /\ messages' = Append(messages, ReplyOf(r))
         /\ UNCHANGED <<open, turn>>
    ELSE UNCHANGED roomVars

\* chat.close
Close ==
  /\ open' = FALSE
  /\ UNCHANGED <<turn, messages>>

RoomNext ==
  \/ Post
  \/ \E r \in Replies : Ingest(r)
  \/ Close

RoomSpec == RoomInit /\ [][RoomNext]_roomVars

-----------------------------------------------------------------------------
(* Properties *)

\* The types of the variables (the fields of ChatRoom).
RoomTypeOK ==
  /\ open \in BOOLEAN
  /\ turn \in Nat
  /\ messages \in Seq(Message)

\* The room stays within the turn and message budgets of its contract, however
\* prompts, late replies and repeated ingestions alternate.
WithinContract == turn <= MaxTurns /\ Len(messages) <= MaxTotal

\* A Leader speaks at most once in a turn, and at most max_responders_per_turn
\* of them do, also when replies come after later prompts or come again.
TurnsWithinContract ==
  \A t \in 1..turn :
    /\ \A i, j \in RepliesIn(t) : messages[i].author = messages[j].author => i = j
    /\ Cardinality(RepliesIn(t)) <= MaxResponders

\* The timeline is in order: prompts are numbered as they were posted, and a
\* reply stands after the prompt of its turn.
InOrder ==
  \A i \in 1..Len(messages) :
    /\ messages[i].turn \in 1..turn
    /\ IsReply(messages[i]) =>
         /\ messages[i].author \in Participants
         /\ \E j \in 1..(i - 1) : messages[j] = Prompt(messages[i].turn)

\* Every turn up to the current one has its prompt in the timeline.
PromptsPosted == \A t \in 1..turn : \E i \in 1..Len(messages) : messages[i] = Prompt(t)

RoomInv == RoomTypeOK /\ WithinContract /\ TurnsWithinContract /\ InOrder /\ PromptsPosted

\* A timeline only grows at its end, and not after the room is closed.
AppendOnly ==
  [][/\ Len(messages) <= Len(messages')
     /\ SubSeq(messages', 1, Len(messages)) = messages
     /\ ~open => messages' = messages /\ ~open']_roomVars
=============================================================================
