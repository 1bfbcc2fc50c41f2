--------------------------- MODULE TransferProofs ---------------------------
(***************************************************************************)
(* Proofs about the transfer of an object, for any number of nodes,        *)
(* chunks, fetches and faults: its invariant, that a copy leaves a store   *)
(* only for a peer that verified one, that a good copy remains, what a     *)
(* running fetch may rely on, and that it fails for a reason only.         *)
(***************************************************************************)
EXTENDS Transfer, TLAPS

\* Chunk 0 exists.
LEMMA FirstChunk == 0 \in Chunks
BY CountAssumption DEF Chunks

\* A new fetch is a fetch, also when it is not begun.
LEMMA NewFetchType ==
  \A phase \in {"idle", "discover"}, delete \in BOOLEAN : NewFetch(phase, delete) \in FetchState
BY FirstChunk DEF NewFetch, FetchState

\* The initial state satisfies the invariant.
LEMMA InitInv == Init => Inv
<1>. SUFFICES ASSUME Init  PROVE Inv
  OBVIOUS
<1>1. TypeOK
  BY NodeAssumption, NewFetchType DEF Init, TypeOK
<1>2. NoBadCopy /\ ServedAnswered
  BY DEF Init, NoBadCopy, ServedAnswered
<1>3. ReceiptsSent
  BY DEF Init, ReceiptsSent, Waiting, NewFetch
<1>. QED  BY <1>1, <1>2, <1>3 DEF Inv

\* A request that a fetch awaits the answer of is one.
LEMMA RequestOfType ==
  ASSUME Inv, NEW n \in Nodes, Waiting(n)
  PROVE  RequestOf(n, fetch[n]) \in Request /\ Provider(fetch[n]) \in Nodes
<1>. DEFINE f == fetch[n]
<1>1. f \in FetchState /\ f.phase \in {"chunk", "receipt"}
  BY DEF Inv, TypeOK, Waiting
<1>2. f.plan \in Seq(Nodes) /\ f.try \in 1..Len(f.plan) /\ 1 \in 1..Len(f.plan)
  BY <1>1 DEF FetchState
<1>3. Provider(f) \in Nodes
  BY <1>2 DEF Provider
<1>. QED  BY <1>1, <1>3 DEF RequestOf, Request, FetchState

\* Handling a request keeps the types of what it changes and what it implies.
LEMMA HandleInv ==
  ASSUME Inv, NEW p \in Nodes, NEW r \in Request, HandleRequest(p, r)
  PROVE  /\ store' \in [Nodes -> {"none", "good", "bad"}] /\ trash' \subseteq Nodes
         /\ damaged' = damaged
         /\ served' \in [Nodes -> SUBSET (Nodes \X Chunks)]
         /\ answered' \subseteq Nodes \X Nodes \X Chunks
         /\ NoBadCopy' /\ ServedAnswered'
<1>. USE DEF Inv, TypeOK, NoBadCopy, ServedAnswered
<1>0. r.from \in Nodes /\ r.index \in Chunks
  BY DEF Request
<1>1. CASE AnswerChunk(p, r.from, r.index)
  BY <1>0, <1>1 DEF AnswerChunk, diskVars
<1>2. CASE AnswerReceipt(p, r.from, r.delete)
  BY <1>0, <1>2 DEF AnswerReceipt, diskVars
<1>. QED  BY <1>1, <1>2 DEF HandleRequest

\* A copy that a request takes out of a store is given up for its sender.
LEMMA HandleJustified ==
  ASSUME Inv, NEW p \in Nodes, NEW r \in Request, r.to = p, Sent(r), HandleRequest(p, r),
         NEW n \in Nodes, Holds(n), store'[n] = "none"
  PROVE  /\ n \in Allowing
         /\ \E q \in verified : /\ <<q, n>> \in receipts
                                /\ \A i \in Chunks : <<n, q, i>> \in answered
<1>1. n = p /\ r.phase = "receipt" /\ ServedAll(n, r.from) /\ r.delete /\ MayDelete(n)
  BY DEF HandleRequest, AnswerChunk, AnswerReceipt, diskVars, Holds, Inv, TypeOK, Request
<1>2. r.from \in verified /\ <<r.from, n>> \in receipts
  BY <1>1 DEF Sent
<1>3. \A i \in Chunks : <<n, r.from, i>> \in answered
  BY <1>1 DEF ServedAll, Inv, ServedAnswered
<1>. QED  BY <1>1, <1>2, <1>3 DEF MayDelete

-----------------------------------------------------------------------------
\* What the steps of a fetch of n leave alone or only count, and what they may
\* leave behind: the request that n gives up on.
FetchFrame(n) ==
  /\ UNCHANGED <<trash, damaged, served, answered>>
  /\ fetches' \in Nat /\ faults' \in Nat /\ abandoned' \in BOOLEAN
  /\ \A r \in late' : r \in late \/ (Waiting(n) /\ r = RequestOf(n, fetch[n]))

\* A fetch that goes on as f keeps the invariant, if a receipt of f is justified.
LEMMA GoesOnInv ==
  ASSUME Inv, NEW n \in Nodes, NEW f \in FetchState, GoesOn(n, f), FetchFrame(n),
         store' \in [Nodes -> {"none", "good", "bad"}], NoBadCopy',
         verified \subseteq verified', verified' \subseteq Nodes,
         receipts \subseteq receipts', receipts' \subseteq Nodes \X Nodes,
         f.phase = "receipt" => n \in verified' /\ (f.delete => <<n, f.plan[1]>> \in receipts')
  PROVE  Inv'
<1>1. late' \subseteq Request /\ \A r \in late' : Sent(r)
  BY RequestOfType DEF FetchFrame, Inv, TypeOK, ReceiptsSent
<1>2. \A r \in late' : Sent(r)'
  BY <1>1 DEF Sent
<1>3. TypeOK'
  BY <1>1 DEF Inv, TypeOK, GoesOn, FetchFrame
<1>4. ServedAnswered'
  BY DEF Inv, ServedAnswered, FetchFrame
<1>5. ASSUME NEW m \in Nodes, Waiting(m)'  PROVE Sent(RequestOf(m, fetch[m]))'
  <2>1. CASE m = n
    <3>1. fetch'[m] = f
      BY <2>1 DEF GoesOn, Inv, TypeOK
    <3>. QED  BY <2>1, <3>1 DEF Sent, RequestOf, Provider
  <2>2. CASE m # n
    <3>1. fetch'[m] = fetch[m]
      BY <2>2 DEF GoesOn, Inv, TypeOK
    <3>2. Sent(RequestOf(m, fetch[m]))
      BY <1>5, <3>1 DEF Waiting, Inv, ReceiptsSent
    <3>. QED  BY <3>1, <3>2 DEF Sent, RequestOf, Provider
  <2>. QED  BY <2>1, <2>2
<1>. QED  BY <1>2, <1>3, <1>4, <1>5 DEF Inv, ReceiptsSent

\* A fetch that fails keeps the invariant.
LEMMA FetchFailsInv ==
  ASSUME Inv, NEW n \in Nodes, NEW f \in FetchState, FetchFails(n, f), FetchFrame(n)
  PROVE  Inv'
<1>1. [f EXCEPT !.phase = "failed"] \in FetchState /\ [f EXCEPT !.phase = "failed"].phase # "receipt"
  BY DEF FetchState
<1>2. NoBadCopy'
  BY DEF Inv, NoBadCopy, FetchFails, FetchFrame
<1>. QED  BY <1>1, <1>2, GoesOnInv DEF FetchFails, Inv, TypeOK

\* A fetch that asks one of its providers for a chunk keeps the invariant.
LEMMA AsksChunkInv ==
  ASSUME Inv, NEW n \in Nodes, NEW f \in FetchState, f.try \in 1..Len(f.plan),
         AsksChunk(n, f), FetchFrame(n)
  PROVE  Inv'
<1>1. [f EXCEPT !.phase = "chunk"] \in FetchState /\ [f EXCEPT !.phase = "chunk"].phase # "receipt"
  BY DEF FetchState
<1>2. NoBadCopy'
  BY DEF Inv, NoBadCopy, AsksChunk, FetchFrame
<1>. QED  BY <1>1, <1>2, GoesOnInv DEF AsksChunk, Inv, TypeOK

\* A copy that is compared with the object's digest before it is published, and
\* before the receipt is sent, keeps the invariant.
LEMMA DeliverInv ==
  ASSUME Inv, NEW n \in Nodes, NEW f \in FetchState, f.try \in 1..Len(f.plan),
         NEW c, Deliver(n, f, c), FetchFrame(n)
  PROVE  Inv'
<1>1. CASE DigestMatches(c)
  <2>. DEFINE g == [f EXCEPT !.phase = "receipt"]
  <2>1. /\ store' = [store EXCEPT ![n] = c] /\ verified' = verified \cup {n} /\ GoesOn(n, g)
        /\ receipts' = IF f.delete THEN receipts \cup {<<n, f.plan[1]>>} ELSE receipts
    BY <1>1 DEF Deliver
  <2>2. g \in FetchState /\ g.delete = f.delete /\ g.plan = f.plan
    BY DEF FetchState
  <2>3. f.plan[1] \in Nodes
    BY DEF FetchState
  <2>4. NoBadCopy' /\ store' \in [Nodes -> {"none", "good", "bad"}]
    BY <1>1, <2>1 DEF DigestMatches, Inv, TypeOK, NoBadCopy, FetchFrame
  <2>5. /\ verified' \subseteq Nodes /\ receipts' \subseteq Nodes \X Nodes
        /\ verified \subseteq verified' /\ receipts \subseteq receipts'
    BY <2>1, <2>3 DEF Inv, TypeOK
  <2>6. n \in verified' /\ (g.delete => <<n, g.plan[1]>> \in receipts')
    BY <2>1, <2>2
  <2>. QED  BY <2>1, <2>2, <2>4, <2>5, <2>6, GoesOnInv
<1>2. CASE ~DigestMatches(c)
  BY <1>2, FetchFailsInv DEF Deliver
<1>. QED  BY <1>1, <1>2

\* Turning to the next provider keeps the invariant.
LEMMA NextProviderInv ==
  ASSUME Inv, NEW n \in Nodes, Waiting(n), NextProvider(n, fetch[n]), FetchFrame(n)
  PROVE  Inv'
<1>. DEFINE f == fetch[n]
            g == [f EXCEPT !.try = @ + 1]
<1>1. f \in FetchState /\ f.phase \in {"chunk", "receipt"} /\ f.try \in 1..Len(f.plan) /\ Len(f.plan) \in Nat
  BY DEF Inv, TypeOK, Waiting, FetchState
<1>2. CASE f.try < Len(f.plan)
  <2>1. g \in FetchState /\ g.try \in 1..Len(g.plan)
    BY <1>1, <1>2 DEF FetchState
  <2>. QED  BY <1>2, <2>1, AsksChunkInv DEF NextProvider
<1>3. CASE ~(f.try < Len(f.plan))
  BY <1>1, <1>3, FetchFailsInv DEF NextProvider
<1>. QED  BY <1>2, <1>3

\* An order of nodes is a sequence that begins with one.
LEMMA OrdersType ==
  ASSUME NEW S \in SUBSET Nodes, NEW o \in Orders(S)
  PROVE  o \in Seq(Nodes) /\ 1 \in 1..Len(o)
<1>1. PICK k \in 1..Cardinality(S) : o \in [1..k -> S]
  BY DEF Orders
<1>2. k \in Nat \ {0}
  BY <1>1
<1>. QED  BY <1>1, <1>2

\* Planning keeps the invariant.
LEMMA PlanInv ==
  ASSUME Inv, NEW n \in Nodes, PlanStep(n)
  PROVE  Inv'
<1>. DEFINE f == fetch[n]
<1>0. f \in FetchState
  BY DEF Inv, TypeOK
<1>1. CASE NoProvider(n)
  BY <1>0, <1>1, FetchFailsInv DEF NoProvider, FetchFrame, Inv, TypeOK
<1>2. ASSUME NEW order \in Orders(f.found), Plan(n, order)  PROVE Inv'
  <2>. DEFINE g == [f EXCEPT !.plan = order]
  <2>1. f.phase = "discover" /\ f.try = 1 /\ f.found \in SUBSET Nodes
    BY <1>0, <1>2 DEF Plan, FetchState
  <2>2. order \in Seq(Nodes) /\ 1 \in 1..Len(order)
    BY <2>1, OrdersType
  <2>3. g \in FetchState /\ g.try \in 1..Len(g.plan)
    BY <1>0, <2>1, <2>2 DEF FetchState
  <2>4. FetchFrame(n)
    BY <1>2 DEF Plan, FetchFrame, Inv, TypeOK
  <2>5. Deliver(n, g, store[n]) \/ AsksChunk(n, g)
    BY <1>2 DEF Plan
  <2>. QED  BY <2>3, <2>4, <2>5, DeliverInv, AsksChunkInv
<1>. QED  BY <1>1, <1>2 DEF PlanStep

\* A fetch that goes on with its next chunk is a fetch.
LEMMA NextIndexType ==
  ASSUME NEW f \in FetchState, f.index + 1 \in Chunks, 1 \in 1..Len(f.plan)
  PROVE  LET g == [f EXCEPT !.index = @ + 1, !.try = 1]
         IN  g \in FetchState /\ g.try \in 1..Len(g.plan)
<1>. DEFINE h == [f EXCEPT !.index = f.index + 1]
            g == [h EXCEPT !.try = 1]
<1>1. h \in FetchState /\ h.plan = f.plan
  BY DEF FetchState
<1>2. g \in FetchState /\ g.plan = f.plan /\ g.try = 1
  <2>. HIDE DEF h
  <2>. QED  BY <1>1 DEF FetchState
<1>3. g = [f EXCEPT !.index = @ + 1, !.try = 1]
  BY DEF FetchState
<1>. QED  BY <1>2, <1>3

\* A fetch that learns of a peer is a fetch.
LEMMA FoundType ==
  ASSUME NEW f \in FetchState, NEW p \in Nodes
  PROVE  [f EXCEPT !.found = @ \cup {p}] \in FetchState
BY DEF FetchState

\* The arrival of a chunk keeps the invariant.
LEMMA ReceiveChunkInv ==
  ASSUME Inv, NEW n \in Nodes, ReceiveChunk(n)
  PROVE  Inv'
<1>. DEFINE f == Append1(fetch[n], reply[n])
            g == [f EXCEPT !.index = @ + 1, !.try = 1]
<1>1. fetch[n] \in FetchState /\ fetch[n].phase = "chunk" /\ Waiting(n)
  BY DEF Inv, TypeOK, ReceiveChunk, Waiting
<1>2. FetchFrame(n)
  BY DEF ReceiveChunk, FetchFrame, Inv, TypeOK
<1>3. f \in FetchState /\ f.try \in 1..Len(f.plan) /\ 1 \in 1..Len(f.plan)
  BY <1>1 DEF Append1, FetchState
<1>4. CASE reply[n] = "error"
  BY <1>1, <1>2, <1>4, NextProviderInv DEF ReceiveChunk
<1>5. CASE reply[n] # "error" /\ f.index + 1 < ChunkCount
  <2>2. AsksChunk(n, g)
    BY <1>5 DEF ReceiveChunk
  <2>. HIDE DEF f
  <2>3. f.index + 1 \in Chunks
    BY <1>3, <1>5, CountAssumption DEF FetchState, Chunks
  <2>1. g \in FetchState /\ g.try \in 1..Len(g.plan)
    BY <1>3, <2>3, NextIndexType
  <2>. QED  BY <1>2, <2>1, <2>2, AsksChunkInv
<1>6. CASE reply[n] # "error" /\ ~(f.index + 1 < ChunkCount)
  <2>1. Deliver(n, f, f.content)
    BY <1>6 DEF ReceiveChunk
  <2>. QED  BY <1>2, <1>3, <2>1, DeliverInv
<1>. QED  BY <1>4, <1>5, <1>6

\* A fetch that ends, with its receipt answered or given up, keeps the invariant.
LEMMA EndsInv ==
  ASSUME Inv, NEW n \in Nodes, GoesOn(n, [fetch[n] EXCEPT !.phase = "idle"]), FetchFrame(n),
         UNCHANGED <<store, verified, receipts>>
  PROVE  Inv'
<1>0. fetch[n] \in FetchState
  BY DEF Inv, TypeOK
<1>1. /\ [fetch[n] EXCEPT !.phase = "idle"] \in FetchState
      /\ [fetch[n] EXCEPT !.phase = "idle"].phase # "receipt"
  BY <1>0 DEF FetchState
<1>2. NoBadCopy'
  BY DEF Inv, NoBadCopy, FetchFrame
<1>. QED  BY <1>1, <1>2, GoesOnInv DEF Inv, TypeOK

\* Handling the request of a fetch, or a late one, keeps the invariant.
LEMMA AnswerInv ==
  ASSUME Inv, NEW p \in Nodes, NEW r \in Request, HandleRequest(p, r),
         reply' \in [Nodes -> {"none", "good", "bad", "error", "ok"}], late' \subseteq late,
         UNCHANGED <<fetch, fetches, faults, verified, receipts, abandoned>>
  PROVE  Inv'
<1>1. TypeOK'
  BY HandleInv DEF Inv, TypeOK
<1>2. NoBadCopy' /\ ServedAnswered'
  BY HandleInv
<1>3. ReceiptsSent'
  BY DEF Inv, ReceiptsSent, Waiting, Sent, RequestOf, Provider
<1>. QED  BY <1>1, <1>2, <1>3 DEF Inv

\* A restart keeps the invariant.
LEMMA RestartInv ==
  ASSUME Inv, NEW n \in Nodes, Restart(n)
  PROVE  Inv'
<1>1. /\ late' \subseteq Request
      /\ \A r \in late' : Sent(r)
  BY RequestOfType DEF Restart, Inv, TypeOK, ReceiptsSent
<1>0. /\ UNCHANGED <<store, trash, damaged, fetches, verified, receipts, answered>>
      /\ faults' = faults + 1
  BY DEF Restart, diskVars
<1>6. /\ fetch' \in [Nodes -> FetchState]
      /\ served' \in [Nodes -> SUBSET (Nodes \X Chunks)]
  BY NewFetchType DEF Restart, Inv, TypeOK
<1>7. reply' \in [Nodes -> {"none", "good", "bad", "error", "ok"}]
  BY DEF Restart, Inv, TypeOK
<1>8. abandoned' \in BOOLEAN
  BY DEF Restart, Inv, TypeOK
<1>2. TypeOK'
  BY <1>0, <1>1, <1>6, <1>7, <1>8 DEF Inv, TypeOK
<1>3. NoBadCopy' /\ ServedAnswered'
  BY DEF Restart, Inv, TypeOK, NoBadCopy, ServedAnswered, diskVars
<1>4. ASSUME NEW m \in Nodes, Waiting(m)'  PROVE Sent(RequestOf(m, fetch[m]))'
  <2>1. fetch'[n].phase = "idle"
    BY DEF Restart, Inv, TypeOK, NewFetch
  <2>2. m # n
    BY <1>4, <2>1 DEF Waiting
  <2>3. fetch'[m] = fetch[m]
    BY <2>2 DEF Restart, Inv, TypeOK
  <2>4. Sent(RequestOf(m, fetch[m]))
    BY <1>4, <2>3 DEF Waiting, Inv, ReceiptsSent
  <2>. QED  BY <1>0, <2>3, <2>4 DEF Sent, RequestOf, Provider
<1>5. \A r \in late' : Sent(r)'
  BY <1>1 DEF Sent, Restart
<1>. QED  BY <1>2, <1>3, <1>4, <1>5 DEF Inv, ReceiptsSent

\* Every step keeps the invariant.
LEMMA NextInv == Inv /\ [Next]_vars => Inv'
<1>. SUFFICES ASSUME Inv, [Next]_vars  PROVE Inv'
  OBVIOUS
<1>1. ASSUME NEW n \in Nodes, Publish(n)  PROVE Inv'
  BY <1>1 DEF Publish, historyVars, Inv, TypeOK, NoBadCopy, ServedAnswered, ReceiptsSent, Sent,
              RequestOf, Provider, Waiting
<1>2. ASSUME NEW n \in Nodes, FetchStep(n)  PROVE Inv'
  <2>1. CASE ReceiveReceipt(n)
    BY <2>1, EndsInv DEF ReceiveReceipt, FetchFrame, diskVars, historyVars, Inv, TypeOK
  <2>. QED  BY <1>2, <2>1, PlanInv, ReceiveChunkInv DEF FetchStep
<1>3. ASSUME NEW n \in Nodes, Answer(n)  PROVE Inv'
  <2>1. RequestOf(n, fetch[n]) \in Request /\ Provider(fetch[n]) \in Nodes
    BY <1>3, RequestOfType DEF Answer
  <2>2. HandleRequest(Provider(fetch[n]), RequestOf(n, fetch[n]))
    BY <1>3 DEF Answer
  <2>3. reply' \in [Nodes -> {"none", "good", "bad", "error", "ok"}]
    BY <1>3, <2>1 DEF Answer, Inv, TypeOK, Holds
  <2>. QED  BY <1>3, <2>1, <2>2, <2>3, AnswerInv DEF Answer
<1>4. ASSUME NEW n \in Nodes, GivesUp(n)  PROVE Inv'
  <2>1. FetchFrame(n) /\ Waiting(n)
    BY <1>4 DEF GivesUp, FetchFrame, Inv, TypeOK
  <2>2. CASE fetch[n].phase = "chunk"
    BY <1>4, <2>1, <2>2, NextProviderInv DEF GivesUp
  <2>3. CASE fetch[n].phase # "chunk"
    BY <1>4, <2>1, <2>3, EndsInv DEF GivesUp
  <2>. QED  BY <2>2, <2>3
<1>5. ASSUME NEW n \in Nodes, Restart(n)  PROVE Inv'
  BY <1>5, RestartInv
<1>6. ASSUME NEW n \in Nodes, NEW delete \in BOOLEAN, Fetch(n, delete)  PROVE Inv'
  <2>1. fetch' = [fetch EXCEPT ![n] = NewFetch("discover", delete)]
    BY <1>6 DEF Fetch
  <2>2. fetch' \in [Nodes -> FetchState]
    BY <2>1, NewFetchType DEF Inv, TypeOK
  <2>3. \A m \in Nodes : Waiting(m)' => fetch'[m] = fetch[m]
    BY <2>1 DEF Waiting, NewFetch, Inv, TypeOK
  <2>4. TypeOK'
    BY <1>6, <2>2 DEF Fetch, diskVars, historyVars, Inv, TypeOK
  <2>5. NoBadCopy' /\ ServedAnswered'
    BY <1>6 DEF Fetch, diskVars, historyVars, Inv, NoBadCopy, ServedAnswered
  <2>6. ReceiptsSent'
    BY <1>6, <2>3 DEF Fetch, historyVars, Inv, ReceiptsSent, Sent, RequestOf, Provider, Waiting
  <2>. QED  BY <2>4, <2>5, <2>6 DEF Inv
<1>7. ASSUME NEW n \in Nodes, NEW p \in Nodes, Learn(n, p)  PROVE Inv'
  <2>1. /\ fetch[n].phase = "discover"
        /\ fetch' = [fetch EXCEPT ![n].found = @ \cup {p}]
    BY <1>7 DEF Learn
  <2>2. fetch' \in [Nodes -> FetchState]
    <3>1. [fetch[n] EXCEPT !.found = @ \cup {p}] \in FetchState
      BY FoundType DEF Inv, TypeOK
    <3>2. fetch' = [fetch EXCEPT ![n] = [fetch[n] EXCEPT !.found = @ \cup {p}]]
      BY <2>1 DEF Inv, TypeOK
    <3>. QED  BY <3>1, <3>2 DEF Inv, TypeOK
  <2>3. \A m \in Nodes : Waiting(m)' => fetch'[m] = fetch[m]
    BY <2>1 DEF Waiting, Inv, TypeOK, FetchState
  <2>4. TypeOK'
    BY <1>7, <2>2 DEF Learn, diskVars, historyVars, Inv, TypeOK
  <2>5. NoBadCopy' /\ ServedAnswered'
    BY <1>7 DEF Learn, diskVars, historyVars, Inv, NoBadCopy, ServedAnswered
  <2>6. ReceiptsSent'
    BY <1>7, <2>3 DEF Learn, historyVars, Inv, ReceiptsSent, Sent, RequestOf, Provider, Waiting
  <2>. QED  BY <2>4, <2>5, <2>6 DEF Inv
<1>8. ASSUME NEW r \in late, AnswerLate(r)  PROVE Inv'
  <2>1. r \in Request /\ r.to \in Nodes
    BY DEF Inv, TypeOK, Request
  <2>. QED  BY <1>8, <2>1, AnswerInv DEF AnswerLate, Inv, TypeOK
<1>9. CASE UNCHANGED vars
  BY <1>9 DEF vars, diskVars, historyVars, Inv, TypeOK, NoBadCopy, ServedAnswered, ReceiptsSent,
              Sent, RequestOf, Provider, Waiting
<1>. QED  BY <1>1, <1>2, <1>3, <1>4, <1>5, <1>6, <1>7, <1>8, <1>9 DEF Next

\* A bad copy does not spread, what counts as served was sent to that peer, and
\* every receipt follows a verification.
THEOREM Invariance == Spec => []Inv
<1>1. Init => Inv
  BY InitInv
<1>2. Inv /\ [Next]_vars => Inv'
  BY NextInv
<1>. QED  BY <1>1, <1>2, PTL DEF Spec

\* What may leave the store of n in a step.
Justified ==
  \A n \in Nodes : Holds(n) /\ store'[n] = "none" =>
    /\ n \in Allowing
    /\ \E p \in verified :
         /\ <<p, n>> \in receipts
         /\ \A i \in Chunks : <<n, p, i>> \in answered

\* Only the handling of a request takes a copy out of a store.
LEMMA NextJustified == Inv /\ [Next]_vars => Justified
<1>. SUFFICES ASSUME Inv, [Next]_vars, NEW n \in Nodes, Holds(n), store'[n] = "none"
              PROVE  /\ n \in Allowing
                     /\ \E p \in verified :
                          /\ <<p, n>> \in receipts
                          /\ \A i \in Chunks : <<n, p, i>> \in answered
  BY DEF Justified
<1>1. store' # store
  BY DEF Holds
<1>2. ASSUME NEW m \in Nodes, NEW f, NEW c, Deliver(m, f, c)  PROVE FALSE
  BY <1>2 DEF Deliver, DigestMatches, FetchFails, Holds, Inv, TypeOK
<1>3. ASSUME NEW m \in Nodes, NextProvider(m, fetch[m])  PROVE FALSE
  BY <1>1, <1>3 DEF NextProvider, AsksChunk, FetchFails
<1>4. ASSUME NEW m \in Nodes, Publish(m)  PROVE FALSE
  BY <1>4 DEF Publish, Holds, Inv, TypeOK
<1>5. ASSUME NEW m \in Nodes, FetchStep(m)  PROVE FALSE
  <2>1. CASE PlanStep(m)
    BY <1>1, <1>2, <2>1 DEF PlanStep, NoProvider, Plan, FetchFails, AsksChunk
  <2>2. CASE ReceiveChunk(m)
    BY <1>1, <1>2, <1>3, <2>2 DEF ReceiveChunk, AsksChunk
  <2>3. CASE ReceiveReceipt(m)
    BY <1>1, <2>3 DEF ReceiveReceipt, diskVars
  <2>. QED  BY <1>5, <2>1, <2>2, <2>3 DEF FetchStep
<1>6. ASSUME NEW m \in Nodes, GivesUp(m)  PROVE FALSE
  BY <1>1, <1>3, <1>6 DEF GivesUp
<1>7. ASSUME NEW m \in Nodes, NEW p \in Nodes, NEW delete \in BOOLEAN,
             Restart(m) \/ Fetch(m, delete) \/ Learn(m, p)  PROVE FALSE
  BY <1>1, <1>7 DEF Restart, Fetch, Learn, diskVars
<1>8. ASSUME NEW m \in Nodes, Answer(m)  PROVE Justified
  <2>. DEFINE r == RequestOf(m, fetch[m])
  <2>1. r \in Request /\ Provider(fetch[m]) \in Nodes /\ r.to = Provider(fetch[m])
    BY <1>8, RequestOfType DEF Answer, RequestOf
  <2>2. HandleRequest(Provider(fetch[m]), r) /\ Sent(r)
    BY <1>8 DEF Answer, Inv, ReceiptsSent
  <2>. QED  BY <2>1, <2>2, HandleJustified DEF Justified
<1>9. ASSUME NEW r \in late, AnswerLate(r)  PROVE Justified
  <2>1. r \in Request /\ r.to \in Nodes /\ Sent(r)
    BY DEF Inv, TypeOK, Request, ReceiptsSent
  <2>. QED  BY <1>9, <2>1, HandleJustified DEF AnswerLate, Justified
<1>10. ~UNCHANGED vars
  BY <1>1 DEF vars, diskVars
<1>11. Justified
  <2>1. Next
    BY <1>10
  <2>. QED  BY <2>1, <1>4, <1>5, <1>6, <1>7, <1>8, <1>9 DEF Next
<1>. QED  BY <1>11 DEF Justified

\* An object leaves a store only where that is allowed, for a peer that verified
\* a whole copy, asked this node for the deletion and was sent every chunk by it.
THEOREM DeletionNeedsReceipt == Spec => DeletionJustified
<1>1. Inv /\ [Next]_vars => [Justified]_vars
  BY NextJustified
<1>. QED  BY <1>1, Invariance, PTL DEF Spec, DeletionJustified, Justified

-----------------------------------------------------------------------------
(* What a fetch knows, and the last good copy *)

\* What FetchMatches and FailsWithReason say of a fetch f of n that has this answer.
FetchOK(n, f, answer) ==
  /\ f.phase = "discover" => f.plan = <<>> /\ f.content = "good" /\ \A p \in f.found : Had(p)
  /\ f.phase = "chunk" =>
       /\ \A i \in 1..Len(f.plan) : Had(f.plan[i])
       /\ f.content = "bad" => \E i \in 1..Len(f.plan) : f.plan[i] \in damaged
       /\ faults = 0 => \A i \in 1..(f.try - 1) : f.plan[i] \in trash
       /\ faults = 0 /\ answer = "error" => f.plan[f.try] \in trash
       /\ answer = "bad" => f.plan[f.try] \in damaged
  /\ f.phase = "failed" =>
       \/ faults > 0
       \/ f.plan = <<>>
       \/ n \in damaged \/ \E i \in 1..Len(f.plan) : f.plan[i] \in damaged
       \/ \A i \in 1..Len(f.plan) : f.plan[i] \in trash

FetchesOK == \A n \in Nodes : FetchOK(n, fetch[n], reply[n])

LEMMA FetchParts == FetchMatches /\ FailsWithReason <=> CopyBehindReceipt /\ FetchesOK
BY DEF FetchMatches, FailsWithReason, LearnsTruly, AsksTruly, FetchesOK, FetchOK

\* What the steps do to the stores: what leaves one is in the trash.
StoresGoOn ==
  /\ damaged' = damaged /\ trash \subseteq trash'
  /\ \A n \in Nodes : Holds(n) => Holds(n)' \/ n \in trash'
  /\ faults \in Nat /\ faults' \in Nat /\ faults' >= faults

\* What a fetch knows stays so.
LEMMA FetchStays ==
  ASSUME StoresGoOn, NEW n \in Nodes, NEW f \in FetchState, NEW answer, FetchOK(n, f, answer)
  PROVE  FetchOK(n, f, answer)'
<1>1. \A p \in Nodes : Had(p) => Had(p)'
  BY DEF StoresGoOn, Had
<1>2. /\ f.found \subseteq Nodes /\ f.plan \in Seq(Nodes)
      /\ f.phase \in {"chunk", "receipt"} => f.try \in 1..Len(f.plan)
  BY DEF FetchState
<1>3. \A i \in 1..Len(f.plan) : f.plan[i] \in Nodes
  BY <1>2
<1>4. f.phase = "discover" => f.plan = <<>> /\ f.content = "good" /\ \A p \in f.found : Had(p)'
  BY <1>1, <1>2 DEF FetchOK
<1>5. f.phase = "chunk" =>
        /\ \A i \in 1..Len(f.plan) : Had(f.plan[i])'
        /\ f.content = "bad" => \E i \in 1..Len(f.plan) : f.plan[i] \in damaged'
        /\ faults' = 0 => \A i \in 1..(f.try - 1) : f.plan[i] \in trash'
        /\ faults' = 0 /\ answer = "error" => f.plan[f.try] \in trash'
        /\ answer = "bad" => f.plan[f.try] \in damaged'
  BY <1>1, <1>3 DEF FetchOK, StoresGoOn
<1>6. f.phase = "failed" =>
       \/ faults' > 0
       \/ f.plan = <<>>
       \/ n \in damaged' \/ \E i \in 1..Len(f.plan) : f.plan[i] \in damaged'
       \/ \A i \in 1..Len(f.plan) : f.plan[i] \in trash'
  BY DEF FetchOK, StoresGoOn
<1>. QED  BY <1>4, <1>5, <1>6 DEF FetchOK

\* If only the fetch of n goes on, the others know what they knew.
LEMMA OneFetch ==
  ASSUME Inv, FetchesOK, StoresGoOn, NEW n \in Nodes,
         \A m \in Nodes : m # n => fetch'[m] = fetch[m] /\ reply'[m] = reply[m],
         FetchOK(n, fetch[n], reply[n])'
  PROVE  FetchesOK'
<1>1. ASSUME NEW m \in Nodes, m # n  PROVE FetchOK(m, fetch[m], reply[m])'
  <2>1. FetchOK(m, fetch[m], reply[m]) /\ fetch[m] \in FetchState
    BY DEF FetchesOK, Inv, TypeOK
  <2>2. PICK f \in FetchState : \E answer : f = fetch[m] /\ answer = reply[m]
    BY <2>1
  <2>4. PICK answer : f = fetch[m] /\ answer = reply[m]
    BY <2>2
  <2>3. FetchOK(m, f, answer)'
    BY <2>1, <2>4, FetchStays
  <2>. QED  BY <1>1, <2>4, <2>3 DEF FetchOK
<1>. QED  BY <1>1 DEF FetchesOK

\* Handling a request.
LEMMA HandleStores ==
  ASSUME Inv, NEW p \in Nodes, NEW r \in Request, HandleRequest(p, r)
  PROVE  /\ damaged' = damaged /\ trash \subseteq trash'
         /\ \A n \in Nodes :
              \/ store'[n] = store[n]
              \/ n = p /\ store'[n] = "none" /\ n \in trash' /\ Idle(n)
                   /\ r.phase = "receipt" /\ r.delete
BY DEF HandleRequest, AnswerChunk, AnswerReceipt, MayDelete, diskVars, Inv, TypeOK, Request

\* What a step of the fetch of n may do.
WentOn(n) ==
  /\ StoresGoOn
  /\ store' = store \/ store' = [store EXCEPT ![n] = "good"]
  /\ \A m \in Nodes : m # n => fetch'[m] = fetch[m] /\ reply'[m] = reply[m]
  /\ fetch'[n].phase = "receipt" => store'[n] = "good"
  /\ FetchOK(n, fetch[n], reply[n])'

\* A fetch goes on to ask, or fails, with the stores as they are.
LEMMA AsksOrFails ==
  ASSUME Inv, NEW n \in Nodes, NEW f \in FetchState, NEW phase \in {"chunk", "failed", "idle"},
         GoesOn(n, [f EXCEPT !.phase = phase]), UNCHANGED <<store, trash, damaged>>,
         faults' \in Nat, faults' >= faults,
         FetchOK(n, [f EXCEPT !.phase = phase], "none")'
  PROVE  WentOn(n)
<1>0. faults \in Nat /\ fetch \in [Nodes -> FetchState] /\ reply \in [Nodes -> {"none", "good", "bad", "error", "ok"}]
  BY DEF Inv, TypeOK
<1>. DEFINE g == [f EXCEPT !.phase = phase]
<1>1. fetch' = [fetch EXCEPT ![n] = g] /\ reply' = [reply EXCEPT ![n] = "none"] /\ g.phase = phase
  BY DEF GoesOn, FetchState
<1>. HIDE DEF g
<1>2. fetch'[n] = g /\ reply'[n] = "none"
  BY <1>0, <1>1
<1>3. FetchOK(n, fetch[n], reply[n])'
  BY <1>2 DEF FetchOK, g
<1>. QED  BY <1>0, <1>1, <1>2, <1>3 DEF WentOn, StoresGoOn, Holds

\* A fetch whose copy is compared.
LEMMA DeliverOK ==
  ASSUME Inv, NEW n \in Nodes, NEW f \in FetchState, NEW c, Deliver(n, f, c),
         trash' = trash, damaged' = damaged, faults' = faults,
         c # "good" => n \in damaged \/ \E i \in 1..Len(f.plan) : f.plan[i] \in damaged
  PROVE  WentOn(n)
<1>0. /\ faults \in Nat /\ store \in [Nodes -> {"none", "good", "bad"}]
      /\ fetch \in [Nodes -> FetchState]
      /\ reply \in [Nodes -> {"none", "good", "bad", "error", "ok"}]
  BY DEF Inv, TypeOK
<1>1. CASE c = "good"
  <2>1. /\ fetch'[n] = [f EXCEPT !.phase = "receipt"] /\ store' = [store EXCEPT ![n] = "good"]
        /\ \A m \in Nodes : m # n => fetch'[m] = fetch[m] /\ reply'[m] = reply[m]
    BY <1>0, <1>1 DEF Deliver, DigestMatches, GoesOn
  <2>2. fetch'[n].phase = "receipt"
    BY <2>1 DEF FetchState
  <2>3. StoresGoOn
    BY <1>0, <2>1 DEF StoresGoOn, Holds
  <2>. QED  BY <1>0, <2>1, <2>2, <2>3 DEF FetchOK, WentOn
<1>2. CASE c # "good"
  <2>1. GoesOn(n, [f EXCEPT !.phase = "failed"]) /\ store' = store
    BY <1>2 DEF Deliver, DigestMatches, FetchFails
  <2>2. [f EXCEPT !.phase = "failed"].phase = "failed" /\ [f EXCEPT !.phase = "failed"].plan = f.plan
    BY DEF FetchState
  <2>3. FetchOK(n, [f EXCEPT !.phase = "failed"], "none")'
    BY <1>2, <2>2 DEF FetchOK
  <2>4. faults' \in Nat /\ faults' >= faults
    BY <1>0
  <2>. QED  BY <2>1, <2>3, <2>4, AsksOrFails
<1>. QED  BY <1>1, <1>2

\* A fetch turns to the next provider, or fails, when the one it asked has deleted
\* its copy or a request has failed.
LEMMA NextProviderOK ==
  ASSUME Inv, FetchesOK, NEW n \in Nodes, fetch[n].phase = "chunk", NextProvider(n, fetch[n]),
         UNCHANGED <<trash, damaged>>, faults' \in Nat, faults' >= faults,
         faults' = 0 => reply[n] = "error"
  PROVE  WentOn(n)
<1>a. PICK f \in FetchState : f = fetch[n]
  BY DEF Inv, TypeOK
<1>. DEFINE g == [f EXCEPT !.try = @ + 1]
            h == [g EXCEPT !.phase = "chunk"]
            e == [f EXCEPT !.phase = "failed"]
<1>0. faults \in Nat
  BY DEF Inv, TypeOK
<1>1. /\ f \in FetchState /\ f.try \in 1..Len(f.plan) /\ Len(f.plan) \in Nat
      /\ FetchOK(n, f, reply[n]) /\ f.phase = "chunk"
  BY <1>a DEF FetchesOK, FetchState
<1>2. /\ \A i \in 1..Len(f.plan) : Had(f.plan[i])
      /\ f.content = "bad" => \E i \in 1..Len(f.plan) : f.plan[i] \in damaged
      /\ faults' = 0 => \A i \in 1..f.try : f.plan[i] \in trash
  BY <1>0, <1>1 DEF FetchOK
<1>3. CASE f.try < Len(f.plan)
  <2>1. g \in FetchState
    BY <1>1, <1>3 DEF FetchState
  <2>2. /\ h.phase = "chunk" /\ h.plan = f.plan /\ h.content = f.content /\ h.try = f.try + 1
    BY <1>1 DEF FetchState
  <2>3. GoesOn(n, h) /\ store' = store
    BY <1>a, <1>3 DEF NextProvider, AsksChunk
  <2>. HIDE DEF h
  <2>4. /\ \A i \in 1..Len(h.plan) : Had(h.plan[i])'
        /\ h.content = "bad" => \E i \in 1..Len(h.plan) : h.plan[i] \in damaged'
        /\ faults' = 0 => \A i \in 1..(h.try - 1) : h.plan[i] \in trash'
    BY <1>1, <1>2, <2>2, <2>3 DEF Had, Holds
  <2>5. FetchOK(n, h, "none")'
    BY <2>2, <2>4 DEF FetchOK
  <2>. QED  BY <2>1, <2>3, <2>5, AsksOrFails DEF h
<1>4. CASE ~(f.try < Len(f.plan))
  <2>1. GoesOn(n, e) /\ store' = store
    BY <1>a, <1>4 DEF NextProvider, FetchFails
  <2>2. e.phase = "failed" /\ e.plan = f.plan /\ f.try = Len(f.plan)
    BY <1>1, <1>4 DEF FetchState
  <2>3. FetchOK(n, e, "none")'
    BY <1>2, <2>2 DEF FetchOK
  <2>. QED  BY <1>1, <2>1, <2>3, AsksOrFails
<1>. QED  BY <1>3, <1>4

\* Those that are asked are among those that were found.
LEMMA OrderFound ==
  ASSUME NEW S \in SUBSET Nodes, NEW o \in Orders(S), NEW i \in 1..Len(o)
  PROVE  o[i] \in S
<1>1. PICK k \in 1..Cardinality(S) : o \in [1..k -> S]
  BY DEF Orders
<1>2. k \in Nat
  BY <1>1
<1>. QED  BY <1>1, <1>2

LEMMA PlanOK ==
  ASSUME Inv, FetchesOK, NEW n \in Nodes, PlanStep(n)
  PROVE  WentOn(n)
<1>a. PICK f \in FetchState : f = fetch[n]
  BY DEF Inv, TypeOK
<1>0. faults \in Nat /\ store \in [Nodes -> {"none", "good", "bad"}]
  BY DEF Inv, TypeOK
<1>1. f.phase = "discover" /\ f.plan = <<>> /\ f.content = "good" /\ \A p \in f.found : Had(p)
  BY <1>a DEF PlanStep, NoProvider, Plan, FetchesOK, FetchOK
<1>2. CASE NoProvider(n)
  <2>. DEFINE e == [f EXCEPT !.phase = "failed"]
  <2>1. GoesOn(n, e) /\ UNCHANGED <<store, trash, damaged, faults>>
    BY <1>a, <1>2 DEF NoProvider, FetchFails
  <2>2. e.phase = "failed" /\ e.plan = <<>>
    BY <1>0, <1>1 DEF FetchState
  <2>3. FetchOK(n, e, "none")'
    BY <2>2 DEF FetchOK
  <2>4. faults' \in Nat /\ faults' >= faults
    BY <1>0, <2>1
  <2>. QED  BY <2>1, <2>3, <2>4, AsksOrFails
<1>3. ASSUME NEW order \in Orders(f.found), Plan(n, order)  PROVE WentOn(n)
  <2>. DEFINE g == [f EXCEPT !.plan = order]
              h == [g EXCEPT !.phase = "chunk"]
  <2>1. order \in Seq(Nodes) /\ f.found \in SUBSET Nodes
    BY OrdersType DEF FetchState
  <2>2. g \in FetchState /\ UNCHANGED <<trash, damaged, faults>>
    BY <1>0, <1>1, <1>3, <2>1 DEF FetchState, Plan
  <2>3. CASE Holds(n)
    <3>1. Deliver(n, g, store[n])
      BY <1>a, <1>3, <2>3 DEF Plan
    <3>2. store[n] # "good" => n \in damaged
      BY <1>0, <2>3 DEF Holds, Inv, NoBadCopy
    <3>. HIDE DEF g
    <3>. QED  BY <2>2, <3>1, <3>2, DeliverOK
  <2>4. CASE ~Holds(n)
    <3>1. GoesOn(n, h) /\ store' = store
      BY <1>a, <1>3, <2>4 DEF Plan, AsksChunk
    <3>2. h.phase = "chunk" /\ h.plan = order /\ h.content = "good" /\ h.try = 1
      BY <1>0, <1>1, <2>1 DEF FetchState
    <3>3. \A i \in 1..Len(order) : Had(order[i])'
      BY <1>1, <2>1, <2>2, <3>1, OrderFound DEF Had, Holds
    <3>4. FetchOK(n, h, "none")'
      BY <3>2, <3>3 DEF FetchOK
    <3>5. faults' \in Nat /\ faults' >= faults
      BY <1>0, <2>2
    <3>. QED  BY <2>2, <3>1, <3>4, <3>5, AsksOrFails
  <2>. QED  BY <2>3, <2>4
<1>. QED  BY <1>a, <1>2, <1>3 DEF PlanStep

LEMMA ReceiveChunkOK ==
  ASSUME Inv, FetchesOK, NEW n \in Nodes, ReceiveChunk(n)
  PROVE  WentOn(n)
<1>a. PICK f : f = Append1(fetch[n], reply[n])
  OBVIOUS
<1>. DEFINE k == [f EXCEPT !.index = @ + 1, !.try = 1]
            h == [k EXCEPT !.phase = "chunk"]
<1>1. /\ fetch[n] \in FetchState /\ fetch[n].phase = "chunk" /\ faults \in Nat
      /\ reply[n] \in {"good", "bad", "error", "ok"} /\ fetch[n].try \in 1..Len(fetch[n].plan)
      /\ FetchOK(n, fetch[n], reply[n]) /\ UNCHANGED <<trash, damaged, faults>>
  BY DEF Inv, TypeOK, ReceiveChunk, FetchesOK, FetchState
<1>2. CASE reply[n] = "error"
  BY <1>1, <1>2, NextProviderOK DEF ReceiveChunk
<1>3. /\ f \in FetchState /\ f.phase = "chunk" /\ f.plan = fetch[n].plan
      /\ 1 \in 1..Len(f.plan)
      /\ f.content = IF reply[n] = "bad" THEN "bad" ELSE fetch[n].content
  BY <1>a, <1>1 DEF Append1, FetchState
<1>4. /\ \A i \in 1..Len(f.plan) : Had(f.plan[i])
      /\ f.content = "bad" => \E i \in 1..Len(f.plan) : f.plan[i] \in damaged
  BY <1>1, <1>3 DEF FetchOK
<1>5. CASE reply[n] # "error" /\ f.index + 1 < ChunkCount
  <2>1. GoesOn(n, h) /\ store' = store
    BY <1>a, <1>5 DEF ReceiveChunk, AsksChunk
  <2>2. f.index + 1 \in Chunks
    BY <1>3, <1>5, CountAssumption DEF FetchState, Chunks
  <2>3. k \in FetchState
    BY <1>3, <2>2, NextIndexType
  <2>4. h.phase = "chunk" /\ h.plan = f.plan /\ h.content = f.content /\ h.try = 1
    BY <1>3 DEF FetchState
  <2>5. FetchOK(n, h, "none")'
    <3>. HIDE DEF h
    <3>. QED  BY <1>1, <1>4, <2>1, <2>4 DEF FetchOK, Had, Holds
  <2>6. faults' \in Nat /\ faults' >= faults
    BY <1>1
  <2>. QED  BY <1>1, <2>1, <2>3, <2>5, <2>6, AsksOrFails
<1>6. CASE reply[n] # "error" /\ ~(f.index + 1 < ChunkCount)
  <2>1. Deliver(n, f, f.content)
    BY <1>a, <1>6 DEF ReceiveChunk
  <2>2. f.content # "good" => f.content = "bad"
    BY <1>3 DEF FetchState
  <2>. QED  BY <1>1, <1>3, <1>4, <2>1, <2>2, DeliverOK
<1>. QED  BY <1>2, <1>5, <1>6

\* A fetch that ends knows nothing any more.
LEMMA EndsOK ==
  ASSUME Inv, NEW n \in Nodes, GoesOn(n, [fetch[n] EXCEPT !.phase = "idle"]),
         UNCHANGED <<store, trash, damaged>>, faults' \in Nat, faults' >= faults
  PROVE  WentOn(n)
<1>1. PICK f \in FetchState : f = fetch[n]
  BY DEF Inv, TypeOK
<1>2. [f EXCEPT !.phase = "idle"].phase = "idle"
  BY DEF FetchState
<1>3. FetchOK(n, [f EXCEPT !.phase = "idle"], "none")'
  BY <1>2 DEF FetchOK
<1>. QED  BY <1>1, <1>3, AsksOrFails

-----------------------------------------------------------------------------
\* The source's copy, and those that are behind a receipt.
Copies == CopyBehindReceipt /\ CopySurvives

\* A receipt r that asks for a deletion.
Asks(r) == r.phase = "receipt" /\ r.delete

\* A step keeps copies if a good one is left after it.
LEMMA CopiesGoOn ==
  ASSUME Copies, damaged' = damaged, abandoned => abandoned',
         \A n \in Nodes : fetch'[n].phase = "receipt" => store'[n] = "good",
         ~abandoned' => \A r \in late' : r \in late \/ ~Asks(r),
         ~abandoned' /\ (\E n \in Nodes : store[n] = "good") => \E n \in Nodes : store'[n] = "good"
  PROVE  Copies'
BY DEF Copies, CopyBehindReceipt, CopySurvives, Asks

\* A step of the fetch of n takes no copy away.
LEMMA WentOnCopies ==
  ASSUME Inv, Copies, NEW n \in Nodes, WentOn(n), abandoned => abandoned',
         ~abandoned' => \A r \in late' : r \in late \/ ~Asks(r)
  PROVE  Copies'
<1>1. \A m \in Nodes : store[m] = "good" => store'[m] = "good"
  BY DEF WentOn, Inv, TypeOK
<1>2. \A m \in Nodes : fetch'[m].phase = "receipt" => store'[m] = "good"
  BY <1>1 DEF WentOn, Copies, CopyBehindReceipt
<1>3. damaged' = damaged
  BY DEF WentOn, StoresGoOn
<1>. QED  BY <1>1, <1>2, <1>3, CopiesGoOn

\* Handling a request: one that takes the copy is the receipt of a fetch that holds
\* its own, or a late one.
LEMMA HandleCopies ==
  ASSUME Inv, Copies, NEW p \in Nodes, NEW r \in Request, HandleRequest(p, r),
         UNCHANGED <<fetch, abandoned>>, late' \subseteq late,
         Asks(r) /\ ~abandoned => fetch[r.from].phase = "receipt"
  PROVE  Copies'
<1>1. \A n \in Nodes : store'[n] = store[n] \/ (n = p /\ Idle(n) /\ Asks(r))
  BY HandleStores DEF Asks
<1>2. \A n \in Nodes : fetch'[n].phase = "receipt" => store'[n] = "good"
  BY <1>1 DEF Copies, CopyBehindReceipt, Idle
<1>3. ASSUME ~abandoned, NEW n \in Nodes, store[n] = "good"
      PROVE  \E m \in Nodes : store'[m] = "good"
  <2>1. CASE store'[n] = store[n]
    BY <1>3, <2>1
  <2>2. CASE store'[n] # store[n]
    <3>1. Asks(r)
      BY <1>1, <2>2
    <3>2. r.from \in Nodes /\ fetch[r.from].phase = "receipt"
      BY <1>3, <3>1 DEF Request
    <3>. QED  BY <1>2, <3>2
  <2>. QED  BY <2>1, <2>2
<1>. QED  BY <1>2, <1>3, HandleStores, CopiesGoOn

\* What a request takes out of a store is in the trash.
LEMMA HandleGoesOn ==
  ASSUME Inv, NEW p \in Nodes, NEW r \in Request, HandleRequest(p, r), faults' = faults
  PROVE  StoresGoOn
<1>1. \A n \in Nodes : Holds(n) => Holds(n)' \/ n \in trash'
  BY HandleStores DEF Holds
<1>2. damaged' = damaged /\ trash \subseteq trash' /\ faults \in Nat
  BY HandleStores DEF Inv, TypeOK
<1>. QED  BY <1>1, <1>2 DEF StoresGoOn

\* An answer agrees with the stores: there is no chunk where the copy was deleted,
\* and a bad one comes of a bad copy.
LEMMA AnswerFetches ==
  ASSUME Inv, FetchesOK, NEW n \in Nodes, Answer(n)
  PROVE  FetchesOK'
<1>. DEFINE p == Provider(fetch[n])
<1>1. PICK f \in FetchState : f = fetch[n]
  BY DEF Inv, TypeOK
<1>2. /\ RequestOf(n, fetch[n]) \in Request /\ p \in Nodes
      /\ HandleRequest(p, RequestOf(n, fetch[n]))
      /\ UNCHANGED <<fetch, faults>> /\ f.phase \in {"chunk", "receipt"}
      /\ reply' = [reply EXCEPT ![n] = IF f.phase = "receipt" THEN "ok"
                                        ELSE IF Holds(p) THEN store[p] ELSE "error"]
  BY <1>1, RequestOfType DEF Answer, Waiting
<1>3. StoresGoOn
  BY <1>2, HandleGoesOn
<1>4. FetchOK(n, f, reply[n]) /\ f.try \in 1..Len(f.plan)
  BY <1>1, <1>2 DEF FetchesOK, FetchState
<1>5. PICK old : old = reply[n]
  OBVIOUS
<1>6. FetchOK(n, f, old)'
  BY <1>3, <1>4, <1>5, FetchStays
<1>7. ASSUME f.phase = "chunk"
      PROVE  /\ reply'[n] = "error" => f.plan[f.try] \in trash'
             /\ reply'[n] = "bad" => f.plan[f.try] \in damaged'
  <2>1. p = f.plan[f.try] /\ Had(p)
    BY <1>1, <1>4, <1>7 DEF Provider, FetchOK
  <2>2. reply'[n] = IF Holds(p) THEN store[p] ELSE "error"
    BY <1>2, <1>7 DEF Inv, TypeOK
  <2>3. reply'[n] = "error" => p \in trash
    BY <1>2, <2>1, <2>2 DEF Had, Inv, TypeOK
  <2>4. reply'[n] = "bad" => p \in damaged
    BY <1>2, <2>2 DEF Inv, NoBadCopy
  <2>. QED  BY <1>3, <2>1, <2>3, <2>4 DEF StoresGoOn
<1>8. PICK new : new = reply'[n]
  OBVIOUS
<1>9. FetchOK(n, f, new)'
  BY <1>6, <1>7, <1>8 DEF FetchOK
<1>10. FetchOK(n, fetch[n], reply[n])'
  BY <1>1, <1>2, <1>8, <1>9 DEF FetchOK
<1>11. \A m \in Nodes : m # n => fetch'[m] = fetch[m] /\ reply'[m] = reply[m]
  BY <1>2 DEF Inv, TypeOK
<1>. QED  BY <1>3, <1>10, <1>11, OneFetch

\* Steps that leave all fetches alone.
LEMMA FetchesFrame ==
  ASSUME Inv, FetchesOK, StoresGoOn, UNCHANGED <<fetch, reply>>
  PROVE  FetchesOK'
<1>1. ASSUME NEW m \in Nodes  PROVE FetchOK(m, fetch[m], reply[m])'
  <2>1. FetchOK(m, fetch[m], reply[m])
    BY DEF FetchesOK
  <2>2. PICK f \in FetchState : f = fetch[m]
    BY DEF Inv, TypeOK
  <2>3. PICK answer : answer = reply[m]
    OBVIOUS
  <2>4. FetchOK(m, f, answer)'
    BY <2>1, <2>2, <2>3, FetchStays
  <2>. QED  BY <2>2, <2>3, <2>4 DEF FetchOK
<1>. QED  BY <1>1 DEF FetchesOK

\* After a restart every failure has a reason.
LEMMA RestartFetches ==
  ASSUME Inv, FetchesOK, NEW n \in Nodes, Restart(n)
  PROVE  StoresGoOn /\ FetchesOK'
<1>1. /\ UNCHANGED <<store, trash, damaged>> /\ faults \in Nat /\ faults' = faults + 1
      /\ fetch' = [fetch EXCEPT ![n] = NewFetch("idle", FALSE)]
      /\ \A m \in Nodes : reply'[m] \in {reply[m], "error", "none"}
  BY DEF Restart, diskVars, Inv, TypeOK
<1>2. StoresGoOn
  BY <1>1 DEF StoresGoOn, Holds
<1>3. ASSUME NEW m \in Nodes  PROVE FetchOK(m, fetch[m], reply[m])'
  <2>1. CASE m = n
    <3>1. fetch'[m].phase = "idle"
      BY <1>1, <2>1 DEF NewFetch, Inv, TypeOK
    <3>. QED  BY <3>1 DEF FetchOK
  <2>2. CASE m # n
    <3>1. fetch'[m] = fetch[m] /\ FetchOK(m, fetch[m], reply[m])
      BY <1>1, <2>2 DEF FetchesOK, Inv, TypeOK
    <3>2. PICK f \in FetchState : f = fetch[m]
      BY DEF Inv, TypeOK
    <3>3. PICK answer : answer = reply[m]
      OBVIOUS
    <3>4. FetchOK(m, f, answer)'
      BY <1>2, <3>1, <3>2, <3>3, FetchStays
    <3>5. PICK new : new = reply'[m]
      OBVIOUS
    <3>6. new \in {answer, "error", "none"} /\ faults' # 0
      BY <1>1, <3>3, <3>5
    <3>7. FetchOK(m, f, new)'
      BY <3>4, <3>6 DEF FetchOK
    <3>. QED  BY <3>1, <3>2, <3>5, <3>7 DEF FetchOK
  <2>. QED  BY <2>1, <2>2
<1>. QED  BY <1>2, <1>3 DEF FetchesOK

\* The request that n gives up on counts as one if it asks for a deletion.
LEMMA GivesUpOK ==
  ASSUME Inv, FetchesOK, NEW n \in Nodes, GivesUp(n)
  PROVE  /\ WentOn(n)
         /\ abandoned => abandoned'
         /\ ~abandoned' => \A r \in late' : r \in late \/ ~Asks(r)
<1>1. /\ UNCHANGED <<trash, damaged>> /\ faults' \in Nat /\ faults' >= faults /\ faults' # 0
  BY DEF GivesUp, Inv, TypeOK
<1>2. WentOn(n)
  <2>1. CASE fetch[n].phase = "chunk"
    <3>1. NextProvider(n, fetch[n])
      BY <2>1 DEF GivesUp
    <3>. QED  BY <1>1, <2>1, <3>1, NextProviderOK
  <2>2. CASE fetch[n].phase # "chunk"
    <3>1. GoesOn(n, [fetch[n] EXCEPT !.phase = "idle"]) /\ store' = store
      BY <2>2 DEF GivesUp
    <3>. QED  BY <1>1, <3>1, EndsOK
  <2>. QED  BY <2>1, <2>2
<1>3. /\ abandoned => abandoned'
      /\ ~abandoned' => \A r \in late' : r \in late \/ ~Asks(r)
  <2>1. ASSUME NEW r \in late', r \notin late
        PROVE  reply[n] = "none" /\ r = RequestOf(n, fetch[n])
    BY <2>1 DEF GivesUp
  <2>2. Asks(RequestOf(n, fetch[n])) => fetch[n].phase = "receipt" /\ fetch[n].delete
    BY DEF Asks, RequestOf
  <2>3. abandoned' = (abandoned \/ (fetch[n].phase = "receipt" /\ fetch[n].delete /\ reply[n] = "none"))
    BY DEF GivesUp
  <2>. QED  BY <2>1, <2>2, <2>3
<1>. QED  BY <1>2, <1>3

LEMMA NextFetchesCopies ==
  ASSUME Inv, FetchesOK, Copies, [Next]_vars
  PROVE  FetchesOK' /\ Copies'
<1>1. ASSUME NEW n \in Nodes, Publish(n)  PROVE FetchesOK' /\ Copies'
  <2>1. /\ store' = [store EXCEPT ![n] = "good"]
        /\ UNCHANGED <<trash, damaged, fetch, reply, faults, late, abandoned>>
    BY <1>1 DEF Publish, historyVars
  <2>2. StoresGoOn /\ \A m \in Nodes : store[m] = "good" => store'[m] = "good"
    BY <2>1 DEF StoresGoOn, Holds, Inv, TypeOK
  <2>3. Copies'
    BY <2>1, <2>2, CopiesGoOn DEF Copies, CopyBehindReceipt
  <2>. QED  BY <2>1, <2>2, <2>3, FetchesFrame
<1>2. ASSUME NEW n \in Nodes, FetchStep(n)  PROVE FetchesOK' /\ Copies'
  <2>1. WentOn(n)
    <3>1. CASE ReceiveReceipt(n)
      <4>1. faults \in Nat /\ UNCHANGED <<store, trash, damaged, faults>>
        BY <3>1 DEF ReceiveReceipt, diskVars, Inv, TypeOK
      <4>2. faults' \in Nat /\ faults' >= faults
        BY <4>1
      <4>. QED  BY <3>1, <4>1, <4>2, EndsOK DEF ReceiveReceipt
    <3>. QED  BY <1>2, <3>1, PlanOK, ReceiveChunkOK DEF FetchStep
  <2>2. UNCHANGED <<late, abandoned>>
    BY <1>2 DEF FetchStep, PlanStep, NoProvider, Plan, ReceiveChunk, ReceiveReceipt, historyVars
  <2>. QED  BY <2>1, <2>2, OneFetch, WentOnCopies DEF WentOn
<1>3. ASSUME NEW n \in Nodes, Answer(n)  PROVE FetchesOK' /\ Copies'
  <2>. DEFINE r == RequestOf(n, fetch[n])
  <2>1. r \in Request /\ Provider(fetch[n]) \in Nodes /\ HandleRequest(Provider(fetch[n]), r)
    BY <1>3, RequestOfType DEF Answer
  <2>2. UNCHANGED <<fetch, abandoned, late>> /\ (Asks(r) => fetch[r.from].phase = "receipt")
    BY <1>3 DEF Answer, Asks, RequestOf
  <2>. HIDE DEF r
  <2>. QED  BY <1>3, <2>1, <2>2, AnswerFetches, HandleCopies
<1>4. ASSUME NEW n \in Nodes, GivesUp(n)  PROVE FetchesOK' /\ Copies'
  BY <1>4, GivesUpOK, OneFetch, WentOnCopies DEF WentOn
<1>5. ASSUME NEW n \in Nodes, Restart(n)  PROVE FetchesOK' /\ Copies'
  <2>1. /\ UNCHANGED <<store, damaged>> /\ (abandoned => abandoned')
        /\ ~abandoned' => \A r \in late' : r \in late \/ ~Asks(r)
    BY <1>5 DEF Restart, diskVars, Asks
  <2>2. \A m \in Nodes : fetch'[m].phase = "receipt" => fetch'[m] = fetch[m]
    BY <1>5 DEF Restart, NewFetch, Inv, TypeOK
  <2>3. Copies'
    BY <2>1, <2>2, CopiesGoOn DEF Copies, CopyBehindReceipt
  <2>. QED  BY <1>5, <2>3, RestartFetches
<1>6. ASSUME NEW n \in Nodes, NEW delete \in BOOLEAN, Fetch(n, delete)
      PROVE  FetchesOK' /\ Copies'
  <2>1. /\ UNCHANGED <<store, trash, damaged, reply, faults, late, abandoned>>
        /\ fetch' = [fetch EXCEPT ![n] = NewFetch("discover", delete)]
    BY <1>6 DEF Fetch, diskVars, historyVars
  <2>2. fetch'[n] = NewFetch("discover", delete) /\ \A m \in Nodes : m # n => fetch'[m] = fetch[m]
    BY <2>1 DEF Inv, TypeOK
  <2>3. StoresGoOn
    BY <2>1 DEF StoresGoOn, Holds, Inv, TypeOK
  <2>4. FetchOK(n, fetch[n], reply[n])'
    BY <2>2 DEF FetchOK, NewFetch
  <2>5. Copies'
    BY <2>1, <2>2, CopiesGoOn DEF Copies, CopyBehindReceipt, NewFetch
  <2>. QED  BY <2>1, <2>2, <2>3, <2>4, <2>5, OneFetch
<1>7. ASSUME NEW n \in Nodes, NEW p \in Nodes, Learn(n, p)  PROVE FetchesOK' /\ Copies'
  <2>0. PICK f \in FetchState : f = fetch[n]
    BY DEF Inv, TypeOK
  <2>. DEFINE g == [f EXCEPT !.found = @ \cup {p}]
  <2>1. /\ UNCHANGED <<store, trash, damaged, reply, faults, late, abandoned>>
        /\ fetch' = [fetch EXCEPT ![n] = g] /\ Holds(p) /\ f.phase = "discover"
    BY <1>7, <2>0 DEF Learn, diskVars, historyVars, Inv, TypeOK
  <2>2. fetch'[n] = g /\ \A m \in Nodes : m # n => fetch'[m] = fetch[m]
    BY <2>1 DEF Inv, TypeOK
  <2>3. /\ g.phase = "discover" /\ g.plan = f.plan /\ g.content = f.content
        /\ g.found = f.found \cup {p}
    BY <2>1 DEF FetchState
  <2>4. StoresGoOn
    BY <2>1 DEF StoresGoOn, Holds, Inv, TypeOK
  <2>. HIDE DEF g
  <2>5. FetchOK(n, fetch[n], reply[n])'
    BY <2>0, <2>1, <2>2, <2>3 DEF FetchOK, FetchesOK, Had, Holds
  <2>6. Copies'
    BY <2>1, <2>2, <2>3, CopiesGoOn DEF Copies, CopyBehindReceipt
  <2>. QED  BY <2>1, <2>2, <2>4, <2>5, <2>6, OneFetch
<1>8. ASSUME NEW r \in late, AnswerLate(r)  PROVE FetchesOK' /\ Copies'
  <2>1. r \in Request /\ r.to \in Nodes /\ HandleRequest(r.to, r)
    BY <1>8 DEF AnswerLate, Inv, TypeOK, Request
  <2>2. UNCHANGED <<fetch, reply, faults, abandoned>> /\ late' \subseteq late
    BY <1>8 DEF AnswerLate
  <2>3. ~abandoned => ~Asks(r)
    BY DEF Copies, CopyBehindReceipt, Asks
  <2>. QED  BY <2>1, <2>2, <2>3, HandleGoesOn, FetchesFrame, HandleCopies
<1>9. CASE UNCHANGED vars
  <2>1. UNCHANGED <<store, trash, damaged, fetch, reply, faults, late, abandoned>>
    BY <1>9 DEF vars, diskVars, historyVars
  <2>2. StoresGoOn
    BY <2>1 DEF StoresGoOn, Holds, Inv, TypeOK
  <2>. QED  BY <2>1, <2>2, FetchesFrame, CopiesGoOn DEF Copies, CopyBehindReceipt
<1>. QED  BY <1>1, <1>2, <1>3, <1>4, <1>5, <1>6, <1>7, <1>8, <1>9 DEF Next

LEMMA InitFetchesCopies == Init => FetchesOK /\ Copies
<1>. SUFFICES ASSUME Init  PROVE FetchesOK /\ Copies
  OBVIOUS
<1>1. \A n \in Nodes : fetch[n].phase = "idle"
  BY DEF Init, NewFetch
<1>2. Copies
  BY <1>1, NodeAssumption DEF Init, Copies, CopyBehindReceipt, CopySurvives
<1>. QED  BY <1>1, <1>2 DEF FetchesOK, FetchOK

\* What the three theorems below share.
LEMMA Fetching == Spec => [](Inv /\ FetchesOK /\ Copies)
<1>. DEFINE I == Inv /\ FetchesOK /\ Copies
<1>1. Init => I
  BY InitInv, InitFetchesCopies
<1>2. I /\ [Next]_vars => I'
  BY NextInv, NextFetchesCopies
<1>. QED  BY <1>1, <1>2, PTL DEF Spec

\* A fetch agrees with the stores although they change while it runs.
THEOREM FetchMatching == Spec => []FetchMatches
<1>1. Inv /\ FetchesOK /\ Copies => FetchMatches
  BY FetchParts DEF Copies
<1>. QED  BY <1>1, Fetching, PTL

\* As long as a source has a good copy to begin with and no receipt that asks for a
\* deletion is given up on, some node has a good copy, whoever fetches from whom.
THEOREM SomeCopySurvives == Spec => []CopySurvives
<1>1. Inv /\ FetchesOK /\ Copies => CopySurvives
  BY DEF Copies
<1>. QED  BY <1>1, Fetching, PTL

\* A fetch that found providers fails only if a request failed, a copy was bad or
\* every provider of its plan has deleted its copy.
THEOREM FailureHasReason == Spec => []FailsWithReason
<1>1. Inv /\ FetchesOK /\ Copies => FailsWithReason
  BY FetchParts DEF Copies
<1>. QED  BY <1>1, Fetching, PTL
=============================================================================
