------------------------------ MODULE Transfer ------------------------------
(***************************************************************************)
(* The transfer of one object between daemons, and the deletion of the     *)
(* source's copy: get_with_node, request_chunk, request_once and the       *)
(* GetChunk and TransferReceipt arms of handle_inbound_request             *)
(* (crates/agent-mesh/src/network.rs) over the object store (store.rs).    *)
(*                                                                         *)
(* A daemon runs one fetch at a time, inside its event loop: it goes on    *)
(* answering requests, but deletes nothing meanwhile.  A request that its  *)
(* sender has given up on may still be handled.                            *)
(***************************************************************************)
EXTENDS Integers, Sequences, FiniteSets

CONSTANTS
  Nodes,        \* the daemons
  Sources,      \* those whose user has the file and publishes it
  Damageable,   \* those whose stored copy may have gone bad on disk
  Allowing,     \* those started with --allow-source-delete
  ChunkCount,   \* chunks of the object
  MaxFetches,   \* bound: fetches begun
  MaxFaults     \* bound: requests given up on, and restarts

ASSUME NodeAssumption ==
  Sources \subseteq Nodes /\ Damageable \subseteq Nodes /\ Allowing \subseteq Nodes
ASSUME CountAssumption ==
  ChunkCount \in Nat \ {0} /\ MaxFetches \in Nat /\ MaxFaults \in Nat

VARIABLES
  store,      \* store[n]: what objects/<id> holds at n
  trash,      \* the nodes with a delete-pending/<id>
  damaged,    \* the nodes whose copy has gone bad before
  served,     \* served[n]: served_chunks of n, as pairs of a peer and an index
  fetch,      \* fetch[n]: the fetch of n, or its last one
  reply,      \* reply[n]: the answer to the request that n's fetch awaits
  late,       \* requests that were given up on and may still be handled
  fetches, faults,
  verified,   \* history: the nodes that verified a whole copy
  receipts,   \* history: <<p, n>> where p sent n a receipt that asks for deletion
  answered,   \* history: <<n, p, i>> where n answered p with chunk i
  abandoned   \* history: a receipt that asks for deletion was given up on

diskVars    == <<store, trash, damaged>>
historyVars == <<verified, receipts, answered, abandoned>>
vars == <<diskVars, served, fetch, reply, late, fetches, faults, historyVars>>

Chunks == 0..(ChunkCount - 1)

\* A fetch: where it is, whether it asks for the deletion at the source, the
\* peers whose inventory has the object, the providers in the order they are
\* tried, the one that is asked, for which chunk, and what the chunks so far
\* add up to.
NewFetch(phase, delete) ==
  [ phase |-> phase, delete |-> delete, found |-> {}, plan |-> <<>>, try |-> 1,
    index |-> 0, content |-> "good" ]

\* Chunk requests and receipts, as they stand when their sender gives up.
Request ==
  [ from : Nodes, to : Nodes, phase : {"chunk", "receipt"}, index : Chunks, delete : BOOLEAN ]

Init ==
  /\ damaged \in SUBSET Damageable
  /\ store = [n \in Nodes |-> IF n \in damaged THEN "bad"
                              ELSE IF n \in Sources THEN "good" ELSE "none"]
  /\ trash = {}
  /\ served = [n \in Nodes |-> {}]
  /\ fetch = [n \in Nodes |-> NewFetch("idle", FALSE)]
  /\ reply = [n \in Nodes |-> "none"]
  /\ late = {}
  /\ fetches = 0 /\ faults = 0
  /\ verified = {} /\ receipts = {} /\ answered = {} /\ abandoned = FALSE

Holds(n) == store[n] # "none"
Idle(n) == fetch[n].phase \in {"idle", "failed"}
Waiting(n) == fetch[n].phase \in {"chunk", "receipt"}

\* The user publishes the file; an object that is there is not written again.
Publish(n) ==
  /\ Idle(n) /\ n \in Sources /\ ~Holds(n)
  /\ store' = [store EXCEPT ![n] = "good"]
  /\ UNCHANGED <<trash, damaged, served, fetch, reply, late, fetches, faults, historyVars>>

-----------------------------------------------------------------------------
(* What a node does with the requests of others *)

\* GetChunk: the chunk of an object that is there counts as served.
AnswerChunk(n, p, i) ==
  /\ IF Holds(n)
       THEN /\ served' = [served EXCEPT ![n] = @ \cup {<<p, i>>}]
            /\ answered' = answered \cup {<<n, p, i>>}
       ELSE UNCHANGED <<served, answered>>
  /\ UNCHANGED diskVars

\* Mutant: a chunk counts whoever it was served to.
ServedToAnyone(n, p) == \A i \in Chunks : \E q \in Nodes : <<q, i>> \in served[n]

ServedAll(n, p) == \A i \in Chunks : <<p, i>> \in served[n]

\* Mutant: a node deletes while it fetches.
DeletesAnytime(n) == n \in Allowing

\* The node was started to allow it, and is not inside a fetch of its own.
MayDelete(n) == n \in Allowing /\ Idle(n)

\* TransferReceipt: the object moves to delete-pending when its every chunk was
\* served to the sender of the receipt, who asks for it.
AnswerReceipt(n, p, delete) ==
  /\ IF Holds(n) /\ ServedAll(n, p) /\ delete /\ MayDelete(n)
       THEN /\ store' = [store EXCEPT ![n] = "none"]
            /\ trash' = trash \cup {n}
            /\ served' = [served EXCEPT ![n] = { c \in @ : c[1] # p }]
            /\ UNCHANGED damaged
       ELSE UNCHANGED <<diskVars, served>>
  /\ UNCHANGED answered

HandleRequest(n, r) ==
  IF r.phase = "chunk" THEN AnswerChunk(n, r.from, r.index)
                       ELSE AnswerReceipt(n, r.from, r.delete)

-----------------------------------------------------------------------------
(* A fetch *)

Fetch(n, delete) ==
  /\ Idle(n)
  /\ fetches < MaxFetches
  /\ fetches' = fetches + 1
  /\ fetch' = [fetch EXCEPT ![n] = NewFetch("discover", delete)]
  /\ UNCHANGED <<diskVars, served, reply, late, faults, historyVars>>

\* A peer's inventory has the object, for now.
Learn(n, p) ==
  /\ fetch[n].phase = "discover"
  /\ p # n /\ Holds(p)
  /\ fetch' = [fetch EXCEPT ![n].found = @ \cup {p}]
  /\ UNCHANGED <<diskVars, served, reply, late, fetches, faults, historyVars>>

\* The provider whose answer the fetch f awaits.
Provider(f) == f.plan[IF f.phase = "receipt" THEN 1 ELSE f.try]

\* The request that f awaits the answer of.
RequestOf(n, f) ==
  [ from |-> n, to |-> Provider(f), phase |-> f.phase, index |-> f.index, delete |-> f.delete ]

\* The fetch of n goes on as f.
GoesOn(n, f) ==
  /\ fetch' = [fetch EXCEPT ![n] = f]
  /\ reply' = [reply EXCEPT ![n] = "none"]

FetchFails(n, f) ==
  /\ GoesOn(n, [f EXCEPT !.phase = "failed"])
  /\ UNCHANGED <<store, verified, receipts>>

AsksChunk(n, f) ==
  /\ GoesOn(n, [f EXCEPT !.phase = "chunk"])
  /\ UNCHANGED <<store, verified, receipts>>

\* Mutant: the digest of the whole file is not compared.
DigestIgnored(c) == TRUE

\* finish and export compare the digest of the whole file with the object's id.
DigestMatches(c) == c = "good"

\* The fetch f has a whole copy with content c: it is published in the store and
\* exported, and the receipt goes to the provider the plan begins with.
Deliver(n, f, c) ==
  IF DigestMatches(c)
    THEN /\ store' = [store EXCEPT ![n] = c]
         /\ verified' = verified \cup {n}
         /\ GoesOn(n, [f EXCEPT !.phase = "receipt"])
         /\ receipts' = IF f.delete THEN receipts \cup {<<n, f.plan[1]>>} ELSE receipts
    ELSE FetchFails(n, f)

\* Nobody within the budget has the object.
NoProvider(n) ==
  /\ fetch[n].phase = "discover"
  /\ FetchFails(n, fetch[n])
  /\ UNCHANGED <<trash, damaged, served, late, fetches, faults, answered, abandoned>>

\* The candidates are ordered, some of them left out for their price.  A node
\* that has the object itself downloads nothing.
Plan(n, order) ==
  /\ fetch[n].phase = "discover"
  /\ LET f == [fetch[n] EXCEPT !.plan = order]
     IN  IF Holds(n) THEN Deliver(n, f, store[n]) ELSE AsksChunk(n, f)
  /\ UNCHANGED <<trash, damaged, served, late, fetches, faults, answered, abandoned>>

\* The provider handles the request the fetch of n awaits.
Answer(n) ==
  /\ Waiting(n) /\ reply[n] = "none"
  /\ LET f == fetch[n]
         p == Provider(f)
     IN  /\ HandleRequest(p, RequestOf(n, f))
         /\ reply' = [reply EXCEPT ![n] =
                        IF f.phase = "receipt" THEN "ok"
                        ELSE IF Holds(p) THEN store[p] ELSE "error"]
  /\ UNCHANGED <<fetch, late, fetches, faults, verified, receipts, abandoned>>

\* A provider that is handed a request handles it however late.
AnswerLate(r) ==
  /\ r \in late
  /\ late' = late \ {r}
  /\ HandleRequest(r.to, r)
  /\ UNCHANGED <<fetch, reply, fetches, faults, verified, receipts, abandoned>>

\* Mutant: a provider that fails ends the fetch.
GiveUpAtOnce(n, f) == FetchFails(n, f)

\* Mutant: the same provider is asked again.
SameProvider(n, f) == AsksChunk(n, f)

\* The chunk could not be had from this provider: the next one is asked for it.
NextProvider(n, f) ==
  IF f.try < Len(f.plan) THEN AsksChunk(n, [f EXCEPT !.try = @ + 1])
                         ELSE FetchFails(n, f)

\* A chunk is appended to the download; a bad one spoils it.
Append1(f, c) == [f EXCEPT !.content = IF c = "bad" THEN c ELSE @]

\* The answer arrives; the next chunk is asked of the plan's first provider.
ReceiveChunk(n) ==
  /\ fetch[n].phase = "chunk" /\ reply[n] # "none"
  /\ LET f == Append1(fetch[n], reply[n])
     IN  IF reply[n] = "error" THEN NextProvider(n, fetch[n])
         ELSE IF f.index + 1 < ChunkCount
           THEN AsksChunk(n, [f EXCEPT !.index = @ + 1, !.try = 1])
           ELSE Deliver(n, f, f.content)
  /\ UNCHANGED <<trash, damaged, served, late, fetches, faults, answered, abandoned>>

ReceiveReceipt(n) ==
  /\ fetch[n].phase = "receipt" /\ reply[n] # "none"
  /\ GoesOn(n, [fetch[n] EXCEPT !.phase = "idle"])
  /\ UNCHANGED <<diskVars, served, late, fetches, faults, historyVars>>

\* The request of n times out or its connection fails; it may yet be handled.
GivesUp(n) ==
  /\ Waiting(n)
  /\ faults < MaxFaults
  /\ faults' = faults + 1
  /\ late' = IF reply[n] = "none" THEN late \cup {RequestOf(n, fetch[n])} ELSE late
  /\ abandoned' = (abandoned \/ (fetch[n].phase = "receipt" /\ fetch[n].delete /\ reply[n] = "none"))
  /\ IF fetch[n].phase = "chunk"
       THEN NextProvider(n, fetch[n])
       ELSE /\ GoesOn(n, [fetch[n] EXCEPT !.phase = "idle"])
            /\ UNCHANGED <<store, verified, receipts>>
  /\ UNCHANGED <<trash, damaged, served, fetches, answered>>

\* The daemon of n dies and is started again.  Its fetch is gone, the requests
\* to it fail, and it has forgotten what it served.
Restart(n) ==
  /\ faults < MaxFaults
  /\ faults' = faults + 1
  /\ served' = [served EXCEPT ![n] = {}]
  /\ fetch' = [fetch EXCEPT ![n] = NewFetch("idle", FALSE)]
  /\ reply' = [m \in Nodes |->
                 IF m = n THEN "none"
                 ELSE IF Waiting(m) /\ Provider(fetch[m]) = n /\ reply[m] = "none" THEN "error"
                 ELSE reply[m]]
  /\ LET own == IF Waiting(n) /\ reply[n] = "none" THEN {RequestOf(n, fetch[n])} ELSE {}
     IN  /\ late' = { r \in late \cup own : r.to # n }
         /\ abandoned' = (abandoned \/ \E r \in own : r.phase = "receipt" /\ r.delete)
  /\ UNCHANGED <<diskVars, fetches, verified, receipts, answered>>

-----------------------------------------------------------------------------
\* The orders in which some of the nodes of S can be tried.
Orders(S) ==
  UNION { { o \in [1..k -> S] : \A i, j \in 1..k : o[i] = o[j] => i = j } : k \in 1..Cardinality(S) }

PlanStep(n) == NoProvider(n) \/ \E order \in Orders(fetch[n].found) : Plan(n, order)

FetchStep(n) == PlanStep(n) \/ ReceiveChunk(n) \/ ReceiveReceipt(n)

Next ==
  \/ \E n \in Nodes : Publish(n) \/ FetchStep(n) \/ Answer(n) \/ GivesUp(n) \/ Restart(n)
  \/ \E n \in Nodes, delete \in BOOLEAN : Fetch(n, delete)
  \/ \E n, p \in Nodes : Learn(n, p)
  \/ \E r \in late : AnswerLate(r)

Spec == Init /\ [][Next]_vars

\* A daemon's loop goes on, and handles the requests that reach it, its own
\* fetch included.  The time-outs are not counted on.
Fairness == \A n \in Nodes : WF_vars(FetchStep(n)) /\ WF_vars(Answer(n))

FairSpec == Spec /\ Fairness

-----------------------------------------------------------------------------
(* Properties *)

\* A fetch that awaits an answer has asked one of the providers of its plan.
FetchState ==
  { f \in [ phase : {"idle", "failed", "discover", "chunk", "receipt"}, delete : BOOLEAN,
            found : SUBSET Nodes, plan : Seq(Nodes), try : Nat \ {0}, index : Chunks,
            content : {"good", "bad"} ] :
      /\ f.phase \in {"chunk", "receipt"} => f.try \in 1..Len(f.plan)
      /\ f.phase = "discover" => f.try = 1 }

\* The types of the variables.
TypeOK ==
  /\ store \in [Nodes -> {"none", "good", "bad"}]
  /\ trash \subseteq Nodes /\ damaged \subseteq Nodes
  /\ served \in [Nodes -> SUBSET (Nodes \X Chunks)]
  /\ fetch \in [Nodes -> FetchState]
  /\ reply \in [Nodes -> {"none", "good", "bad", "error", "ok"}]
  /\ late \subseteq Request
  /\ fetches \in Nat /\ faults \in Nat
  /\ verified \subseteq Nodes
  /\ receipts \subseteq Nodes \X Nodes
  /\ answered \subseteq Nodes \X Nodes \X Chunks
  /\ abandoned \in BOOLEAN

\* A bad copy does not spread: whatever providers a download was put together
\* from, a node never publishes content that is not the object's
\* (docs/p2p-design.md:137, finish in store.rs).
NoBadCopy == \A n \in Nodes : store[n] = "bad" => n \in damaged

\* What counts as served was really sent to that peer.
ServedAnswered ==
  \A n \in Nodes : \A s \in served[n] : <<n, s[1], s[2]>> \in answered

\* The sender of the receipt r verified its copy, and asks for what r asks for.
Sent(r) ==
  r.phase = "receipt" => r.from \in verified /\ (r.delete => <<r.from, r.to>> \in receipts)

\* Every receipt under way, a late one too, was sent after a verification.
ReceiptsSent ==
  /\ \A n \in Nodes : Waiting(n) => Sent(RequestOf(n, fetch[n]))
  /\ \A r \in late : Sent(r)

\* The invariant of the transfer.
Inv == TypeOK /\ NoBadCopy /\ ServedAnswered /\ ReceiptsSent

\* An object leaves a store only on a node that allows it, for a peer that has
\* verified a whole copy, asked this node for the deletion and was answered
\* with every chunk by this node (docs/p2p-design.md:148-154), also when
\* receipts are late and nodes restart.
DeletionJustified ==
  [][\A n \in Nodes : Holds(n) /\ store'[n] = "none" =>
       /\ n \in Allowing
       /\ \E p \in verified :
            /\ <<p, n>> \in receipts
            /\ \A i \in Chunks : <<n, p, i>> \in answered]_vars

\* A peer that is known to have had the object has it or has moved it to trash.
Had(p) == Holds(p) \/ p \in trash

\* What a fetch that has begun knows of the stores: those whose inventory had the
\* object; and of the answers so far, the one that has come included.
LearnsTruly(n) ==
  LET f == fetch[n]
  IN  f.phase = "discover" =>
        f.plan = <<>> /\ f.content = "good" /\ \A p \in f.found : Had(p)

AsksTruly(n) ==
  LET f == fetch[n]
  IN  f.phase = "chunk" =>
        /\ \A i \in 1..Len(f.plan) : Had(f.plan[i])
        /\ f.content = "bad" => \E i \in 1..Len(f.plan) : f.plan[i] \in damaged
        /\ faults = 0 => \A i \in 1..(f.try - 1) : f.plan[i] \in trash
        /\ faults = 0 /\ reply[n] = "error" => f.plan[f.try] \in trash
        /\ reply[n] = "bad" => f.plan[f.try] \in damaged

\* Who has asked for the deletion at its source still has the copy it verified, and
\* no other receipt may be under way unless one was given up on.
CopyBehindReceipt ==
  /\ \A n \in Nodes : fetch[n].phase = "receipt" => store[n] = "good"
  /\ ~abandoned => \A r \in late : ~(r.phase = "receipt" /\ r.delete)

\* A fetch agrees with the stores although they change while it runs: a provider it
\* counts on has the object or has deleted it, an answer without a chunk means that
\* it has deleted it, a bad chunk comes of a bad copy, and the copy of the node that
\* waits for its receipt stays (get_with_node and the TransferReceipt arm of
\* handle_inbound_request, network.rs).
FetchMatches ==
  CopyBehindReceipt /\ \A n \in Nodes : LearnsTruly(n) /\ AsksTruly(n)

\* Deletions do not take the last good copy out of the stores, whoever fetches
\* from whom at the same time, unless a receipt was given up on and came late.
CopySurvives ==
  (\E n \in Nodes : n \in Sources \ damaged) /\ ~abandoned =>
    \E n \in Nodes : store[n] = "good"

\* A fetch that found providers fails only for a reason: a request of it failed,
\* a bad copy was involved, or every provider of its plan deleted its copy.
FailsWithReason ==
  \A n \in Nodes : fetch[n].phase = "failed" =>
    \/ faults > 0
    \/ fetch[n].plan = <<>>
    \/ n \in damaged \/ \E i \in 1..Len(fetch[n].plan) : fetch[n].plan[i] \in damaged
    \/ \A i \in 1..Len(fetch[n].plan) : fetch[n].plan[i] \in trash

\* Every fetch ends without waiting for a time-out, also when nodes fetch from
\* each other in a circle (request_once answers requests while it waits).
FetchEnds == \A n \in Nodes : ~Idle(n) ~> Idle(n)
=============================================================================
