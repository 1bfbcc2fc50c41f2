------------------------------- MODULE Mailbox -------------------------------
(***************************************************************************)
(* The durable mailbox of a daemon: crates/agent-mesh/src/mailbox.rs.      *)
(*                                                                         *)
(* An envelope is a file.  `put' creates inbox/.{id}.tmp, writes and syncs *)
(* it and renames it to inbox/{id}.json; `ack' renames that to             *)
(* processed/{id}.json; `list' reads every file of inbox/, the temporary   *)
(* ones included.  The daemon's event loop is single-threaded and these    *)
(* calls block it, so nothing but a failed system call or the death of the *)
(* process comes between the steps of a put.                               *)
(***************************************************************************)
EXTENDS Integers, FiniteSets

CONSTANTS
  Ids,        \* envelope identifiers, ordered as the file names sort
  NoId,       \* no put is in progress
  Limit,      \* the reader's limit for a listing, after clamp(1, 1000)
  Filters,    \* the kind filters of `list', each as the set of ids it selects
  Taken       \* the envelopes of a kind that the reader acknowledges once it is
              \* given them; the others it may leave where they are for good

ASSUME IdsAssumption     == Ids \subseteq Nat /\ NoId \notin Ids
ASSUME LimitAssumption   == Limit \in Nat \ {0}
ASSUME FiltersAssumption == Filters \subseteq SUBSET Ids /\ Ids \in Filters
ASSUME TakenAssumption   == Taken \subseteq Ids

VARIABLES
  tmp,        \* tmp[id]: what inbox/.{id}.tmp holds
  inbox,      \* the ids of the files inbox/{id}.json
  processed,  \* the ids of the files processed/{id}.json
  putting,    \* the id whose `put' is between create and rename
  expired,    \* the ids whose expires_at has passed
  acked,      \* history: the ids for which some `put' returned Ok
  seen        \* history: the ids some `list' has returned

vars == <<tmp, inbox, processed, putting, expired, acked, seen>>

Init ==
  /\ tmp = [id \in Ids |-> "none"]
  /\ inbox = {}
  /\ processed = {}
  /\ putting = NoId
  /\ expired = {}
  /\ acked = {}
  /\ seen = {}

-----------------------------------------------------------------------------
(* put *)

\* Mutant: the check forgets the envelopes that were processed.
AlreadyInInbox(id) == id \in inbox

\* `put' returns Ok at once for an envelope it has a file for.
AlreadyStored(id) == id \in inbox \cup processed

\* create_new fails when a temporary file of that name exists, and `put' takes
\* that for success too.
TmpExists(id) == tmp[id] # "none"

\* `put' of an envelope the daemon has checked to be fresh.  The caller answers
\* the sender EnvelopeAccepted exactly when it returns Ok.
Put(id) ==
  /\ putting = NoId
  /\ id \notin expired
  /\ IF AlreadyStored(id) \/ TmpExists(id)
       THEN /\ acked' = acked \cup {id}
            /\ UNCHANGED <<tmp, putting>>
       ELSE /\ tmp' = [tmp EXCEPT ![id] = "partial"]
            /\ putting' = id
            /\ UNCHANGED acked
  /\ UNCHANGED <<inbox, processed, expired, seen>>

\* write_all and sync_all succeed.
WriteTmp(id) ==
  /\ putting = id
  /\ tmp[id] = "partial"
  /\ tmp' = [tmp EXCEPT ![id] = "full"]
  /\ UNCHANGED <<inbox, processed, putting, expired, acked, seen>>

\* Mutant: the acknowledgement leaves before the rename.
RenameAfterAck(id) ==
  /\ putting = id
  /\ putting' = NoId
  /\ tmp' = [tmp EXCEPT ![id] = "none"]
  /\ acked' = acked \cup {id}
  /\ UNCHANGED <<inbox, processed, expired, seen>>

\* The rename makes the envelope visible and `put' returns Ok.
Rename(id) ==
  /\ putting = id
  /\ tmp[id] = "full"
  /\ putting' = NoId
  /\ tmp' = [tmp EXCEPT ![id] = "none"]
  /\ inbox' = inbox \cup {id}
  /\ acked' = acked \cup {id}
  /\ UNCHANGED <<processed, expired, seen>>

\* A write, sync or rename fails and `put' returns Err, or the daemon dies and
\* is restarted.  Nothing removes the temporary file, now or on `open'.
Interrupt ==
  /\ putting # NoId
  /\ putting' = NoId
  /\ UNCHANGED <<tmp, inbox, processed, expired, acked, seen>>

-----------------------------------------------------------------------------
(* list *)

\* A file of inbox/ is a pair: 0 for a temporary file, 1 for an envelope, and
\* the id.  Names sort with the leading dot of a temporary file first.
Files == ({0} \X {id \in Ids : TmpExists(id)}) \cup ({1} \X inbox)
Before(f, g) == f[1] < g[1] \/ (f[1] = g[1] /\ f[2] < g[2])

\* A partial file does not parse; the ack of an expired envelope that exists
\* as a temporary file alone bails "not found".  Either fails the listing.
Fails(f) == f[1] = 0 /\ (tmp[f[2]] = "partial" \/ f[2] \in expired)

Wanted(f, filter) == f[2] \notin expired /\ f[2] \in filter

\* The files the loop reaches: it stops at its limit and at the first failure.
Reached(filter) ==
  { f \in Files :
      LET earlier == { g \in Files : Before(g, f) }
      IN  /\ Cardinality({ g \in earlier : Wanted(g, filter) }) < Limit
          /\ \A g \in earlier : ~Fails(g) }

\* The envelopes the loop acknowledges on the way because they have expired.
ReachedExpired(files) ==
  { f[2] : f \in { g \in files : g[1] = 1 /\ g[2] \in expired } }

List(filter) ==
  /\ putting = NoId
  /\ LET files == Reached(filter)
         gone  == ReachedExpired(files)
     IN  /\ inbox' = inbox \ gone
         /\ processed' = processed \cup gone
         /\ seen' = IF \E f \in files : Fails(f)
                      THEN seen
                      ELSE seen \cup { f[2] : f \in { g \in files : Wanted(g, filter) } }
  /\ UNCHANGED <<tmp, putting, expired, acked>>

\* The daemon dies inside `list': a prefix of the expirations is done and the
\* reader gets no answer.
CrashInList(filter, last) ==
  /\ putting = NoId
  /\ LET gone == { id \in ReachedExpired(Reached(filter)) : id <= last }
     IN  /\ gone # {}
         /\ inbox' = inbox \ gone
         /\ processed' = processed \cup gone
  /\ UNCHANGED <<tmp, putting, expired, acked, seen>>

-----------------------------------------------------------------------------
(* ack, and time *)

\* Mutant: the check for an already acknowledged envelope is inverted.
AckInverted(id) ==
  /\ putting = NoId
  /\ id \in seen \cap inbox
  /\ UNCHANGED vars

\* The reader acknowledges an envelope it was given.  The call changes nothing
\* for one that is processed already, and fails for one with no inbox file.
Ack(id) ==
  /\ putting = NoId
  /\ id \in seen \cap inbox
  /\ inbox' = inbox \ {id}
  /\ processed' = processed \cup {id}
  /\ UNCHANGED <<tmp, putting, expired, acked, seen>>

\* The clock passes expires_at.
Expire(id) ==
  /\ id \notin expired
  /\ expired' = expired \cup {id}
  /\ UNCHANGED <<tmp, inbox, processed, putting, acked, seen>>

-----------------------------------------------------------------------------
Next ==
  \/ \E id \in Ids : Put(id) \/ WriteTmp(id) \/ Rename(id) \/ Ack(id) \/ Expire(id)
  \/ \E filter \in Filters : List(filter)
  \/ \E filter \in Filters, last \in Ids : CrashInList(filter, last)
  \/ Interrupt

Spec == Init /\ [][Next]_vars

\* The daemon finishes a put it has begun, and the reader (the plugin's timer, the
\* app's poll) keeps listing without a filter and acknowledges what it takes.
Fairness ==
  /\ \A id \in Ids : WF_vars(WriteTmp(id)) /\ WF_vars(Rename(id))
  /\ \A id \in Taken : WF_vars(Ack(id))
  /\ WF_vars(List(Ids))

FairSpec == Spec /\ Fairness

-----------------------------------------------------------------------------
(* Properties *)

\* The types of the variables (mailbox.rs: the files of one state directory).
TypeOK ==
  /\ tmp \in [Ids -> {"none", "partial", "full"}]
  /\ inbox \subseteq Ids
  /\ processed \subseteq Ids
  /\ putting \in Ids \cup {NoId}
  /\ expired \subseteq Ids
  /\ acked \subseteq Ids
  /\ seen \subseteq Ids

\* An envelope has one file, whatever was interrupted or repeated: a put that
\* finds it in inbox/ or processed/ does not write it again, so an acknowledged
\* envelope is not offered a second time.
OneFile ==
  \A id \in Ids :
    /\ ~(id \in inbox /\ id \in processed)
    /\ TmpExists(id) => id \notin inbox \cup processed

\* Every put in progress owns the temporary file of its envelope.
PutOwnsTmp == putting # NoId => TmpExists(putting)

\* Every Ok of put is backed by a file of that envelope, if only a torn one.
AckedHasFile ==
  \A id \in acked : id \in inbox \cup processed \/ TmpExists(id)

\* An envelope leaves the inbox only when the reader was given it or its TTL is
\* over, also when listings stop at their limit, fail or are cut short.
NothingDroppedUnseen == processed \subseteq seen \cup expired

\* The inductive invariant.
Inv == TypeOK /\ OneFile /\ PutOwnsTmp /\ AckedHasFile /\ NothingDroppedUnseen

\* The comment of put (mailbox.rs:25) and the wire's promise: an Ok, and with it
\* the network ACK, means that the envelope is durable.
AckedIsDurable == acked \subseteq inbox \cup processed

\* The files implement the abstract inbox.
Abstract == INSTANCE DurableInbox WITH pending <- inbox, settled <- processed

\* The mailbox refines the abstract inbox: no envelope is accepted twice, comes
\* back after its acknowledgement, or leaves without one.
ImplementsDurableInbox == Abstract!Spec

\* A put was interrupted and its temporary file is still there.
Torn == \E id \in Ids : TmpExists(id) /\ putting # id

\* A full listing of envelopes that the reader may leave sorts before id, so that
\* id is not listed as long as none of them goes.
Hidden(id) ==
  Cardinality({ x \in inbox : x < id /\ x \notin expired \cup Taken }) >= Limit

\* An envelope whose put returned Ok is eventually given to the reader, behind any
\* number of others in a listing of limited length, unless it expires first, the
\* leftover of an interrupted put blocks the listing, or Limit envelopes that the
\* reader leaves unacknowledged hide it for good (list and put in mailbox.rs,
\* inbox.js:114-187 and AppModel.swift:298-352).
EventuallySeen ==
  \A id \in Ids :
    []<>~Hidden(id) => (id \in acked ~> id \in seen \/ id \in expired \/ Torn)
=============================================================================
