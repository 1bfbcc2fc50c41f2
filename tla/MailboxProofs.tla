---------------------------- MODULE MailboxProofs ----------------------------
(***************************************************************************)
(* Proofs about the durable mailbox: the inductive invariant, that nothing *)
(* leaves the inbox unseen, and that the files implement the abstract      *)
(* inbox, for any set of envelopes, any limit and any filters.             *)
(***************************************************************************)
EXTENDS Mailbox, TLAPS

\* What a listing acknowledges is in the inbox and expired.
LEMMA ReachedExpiredInbox ==
  ASSUME NEW filter, TypeOK
  PROVE  ReachedExpired(Reached(filter)) \subseteq inbox \cap expired
<1>1. ASSUME NEW f \in Reached(filter), f[1] = 1
      PROVE  f[2] \in inbox
  BY <1>1 DEF Reached, Files
<1>. QED  BY <1>1 DEF ReachedExpired

\* What a listing returns are envelopes.
LEMMA ReachedIds ==
  ASSUME NEW filter, TypeOK, NEW f \in Reached(filter)
  PROVE  f[2] \in Ids
BY DEF Reached, Files, TypeOK

\* The initial state satisfies the invariant.
LEMMA InitInv == Init => Inv
BY IdsAssumption
   DEF Init, Inv, TypeOK, OneFile, PutOwnsTmp, AckedHasFile, NothingDroppedUnseen, TmpExists

\* Moving expired envelopes of the inbox to processed keeps the invariant: the
\* part of `list' and of a crash inside it that changes files.
LEMMA SettleInv ==
  ASSUME Inv, NEW gone \in SUBSET (inbox \cap (expired \cup seen)),
         inbox' = inbox \ gone, processed' = processed \cup gone,
         UNCHANGED <<tmp, putting, expired, acked>>,
         seen \subseteq seen', seen' \subseteq Ids
  PROVE  Inv'
<1>1. TypeOK'
  BY DEF Inv, TypeOK
<1>2. OneFile'
  BY DEF Inv, OneFile, TmpExists
<1>3. PutOwnsTmp'
  BY DEF Inv, PutOwnsTmp, TmpExists
<1>4. AckedHasFile'
  BY DEF Inv, AckedHasFile, TmpExists
<1>5. NothingDroppedUnseen'
  BY DEF Inv, NothingDroppedUnseen
<1>. QED  BY <1>1, <1>2, <1>3, <1>4, <1>5 DEF Inv

\* Every step keeps the invariant.
LEMMA NextInv == Inv /\ [Next]_vars => Inv'
<1>. SUFFICES ASSUME Inv, [Next]_vars  PROVE Inv'
  OBVIOUS
<1>. USE IdsAssumption DEF Inv, TypeOK, TmpExists
<1>1. ASSUME NEW id \in Ids, Put(id)  PROVE Inv'
  <2>1. CASE AlreadyStored(id) \/ TmpExists(id)
    BY <1>1, <2>1
       DEF Put, AlreadyStored, OneFile, PutOwnsTmp, AckedHasFile, NothingDroppedUnseen
  <2>2. CASE ~(AlreadyStored(id) \/ TmpExists(id))
    BY <1>1, <2>2
       DEF Put, AlreadyStored, OneFile, PutOwnsTmp, AckedHasFile, NothingDroppedUnseen
  <2>. QED  BY <2>1, <2>2
<1>2. ASSUME NEW id \in Ids, WriteTmp(id)  PROVE Inv'
  BY <1>2 DEF WriteTmp, OneFile, PutOwnsTmp, AckedHasFile, NothingDroppedUnseen
<1>3. ASSUME NEW id \in Ids, Rename(id)  PROVE Inv'
  BY <1>3 DEF Rename, OneFile, PutOwnsTmp, AckedHasFile, NothingDroppedUnseen
<1>4. ASSUME NEW id \in Ids, Ack(id)  PROVE Inv'
  BY <1>4, SettleInv, {id} \in SUBSET (inbox \cap (expired \cup seen)) DEF Ack
<1>5. ASSUME NEW id \in Ids, Expire(id)  PROVE Inv'
  BY <1>5 DEF Expire, OneFile, PutOwnsTmp, AckedHasFile, NothingDroppedUnseen
<1>6. ASSUME NEW filter \in Filters, List(filter)  PROVE Inv'
  <2>. DEFINE files == Reached(filter)
              gone  == ReachedExpired(files)
              given == { f[2] : f \in { g \in files : Wanted(g, filter) } }
  <2>1. gone \in SUBSET (inbox \cap (expired \cup seen))
    BY ReachedExpiredInbox
  <2>2. given \subseteq Ids
    BY ReachedIds
  <2>3. seen \subseteq seen' /\ seen' \subseteq Ids
    <3>. HIDE DEF given
    <3>1. seen' = seen \/ seen' = seen \cup given
      BY <1>6 DEF List, given
    <3>. QED  BY <2>2, <3>1
  <2>. HIDE DEF gone
  <2>4. inbox' = inbox \ gone /\ processed' = processed \cup gone
        /\ UNCHANGED <<tmp, putting, expired, acked>>
    BY <1>6 DEF List, gone
  <2>. QED  BY <2>1, <2>3, <2>4, SettleInv
<1>7. ASSUME NEW filter \in Filters, NEW last \in Ids, CrashInList(filter, last)  PROVE Inv'
  <2>. DEFINE gone == { id \in ReachedExpired(Reached(filter)) : id <= last }
  <2>1. gone \in SUBSET (inbox \cap (expired \cup seen))
    BY ReachedExpiredInbox
  <2>. HIDE DEF gone
  <2>2. inbox' = inbox \ gone /\ processed' = processed \cup gone
        /\ UNCHANGED <<tmp, putting, expired, acked, seen>>
    BY <1>7 DEF CrashInList, gone
  <2>. QED  BY <2>1, <2>2, SettleInv
<1>8. CASE Interrupt
  BY <1>8 DEF Interrupt, OneFile, PutOwnsTmp, AckedHasFile, NothingDroppedUnseen
<1>9. CASE UNCHANGED vars
  BY <1>9 DEF vars, OneFile, PutOwnsTmp, AckedHasFile, NothingDroppedUnseen
<1>. QED  BY <1>1, <1>2, <1>3, <1>4, <1>5, <1>6, <1>7, <1>8, <1>9 DEF Next

\* The invariant of the mailbox: types, one file per envelope, a put in progress
\* owns its temporary file, and every Ok of put is backed by a file (mailbox.rs).
THEOREM Invariance == Spec => []Inv
BY InitInv, NextInv, PTL DEF Spec

\* Every step of the mailbox is a step of the abstract inbox, or changes nothing
\* the abstract inbox has.
LEMMA StepRefines == Inv /\ [Next]_vars => [Abstract!Next]_(Abstract!inboxVars)
<1>. SUFFICES ASSUME Inv, [Next]_vars
              PROVE  [Abstract!Next]_(Abstract!inboxVars)
  OBVIOUS
<1>. USE IdsAssumption DEF Abstract!inboxVars, Inv, TypeOK
<1>1. ASSUME NEW S \in SUBSET inbox, inbox' = inbox \ S, processed' = processed \cup S
      PROVE  Abstract!Next
  BY <1>1 DEF Abstract!Next, Abstract!Settle
<1>2. ASSUME NEW id \in Ids, Put(id)  PROVE UNCHANGED Abstract!inboxVars
  BY <1>2 DEF Put
<1>3. ASSUME NEW id \in Ids, WriteTmp(id)  PROVE UNCHANGED Abstract!inboxVars
  BY <1>3 DEF WriteTmp
<1>4. ASSUME NEW id \in Ids, Rename(id)  PROVE Abstract!Next
  <2>1. TmpExists(id)
    BY <1>4 DEF Rename, TmpExists
  <2>2. id \notin inbox \cup processed
    BY <2>1 DEF OneFile
  <2>. QED  BY <1>4, <2>2 DEF Rename, Abstract!Next, Abstract!Accept
<1>5. ASSUME NEW id \in Ids, Ack(id)  PROVE Abstract!Next
  BY <1>5, <1>1, {id} \in SUBSET inbox DEF Ack
<1>6. ASSUME NEW id \in Ids, Expire(id)  PROVE UNCHANGED Abstract!inboxVars
  BY <1>6 DEF Expire
<1>7. ASSUME NEW filter \in Filters, List(filter)  PROVE Abstract!Next
  <2>. DEFINE gone == ReachedExpired(Reached(filter))
  <2>1. gone \in SUBSET inbox
    BY ReachedExpiredInbox
  <2>. HIDE DEF gone
  <2>2. inbox' = inbox \ gone /\ processed' = processed \cup gone
    BY <1>7 DEF List, gone
  <2>. QED  BY <2>1, <2>2, <1>1
<1>8. ASSUME NEW filter \in Filters, NEW last \in Ids, CrashInList(filter, last)
      PROVE  Abstract!Next
  <2>. DEFINE gone == { id \in ReachedExpired(Reached(filter)) : id <= last }
  <2>1. gone \in SUBSET inbox
    BY ReachedExpiredInbox
  <2>. HIDE DEF gone
  <2>2. inbox' = inbox \ gone /\ processed' = processed \cup gone
    BY <1>8 DEF CrashInList, gone
  <2>. QED  BY <2>1, <2>2, <1>1
<1>9. CASE Interrupt
  BY <1>9 DEF Interrupt
<1>10. CASE UNCHANGED vars
  BY <1>10 DEF vars
<1>. QED
  BY <1>2, <1>3, <1>4, <1>5, <1>6, <1>7, <1>8, <1>9, <1>10 DEF Next

\* The files of the mailbox implement the abstract inbox: an envelope is
\* accepted once, and settled at most once after that (mailbox.rs).
THEOREM Refinement == Spec => ImplementsDurableInbox
<1>1. Init => Abstract!Init
  BY DEF Init, Abstract!Init
<1>. QED
  BY <1>1, StepRefines, Invariance, PTL DEF Spec, ImplementsDurableInbox, Abstract!Spec
=============================================================================
