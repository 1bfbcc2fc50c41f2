-------------------------- MODULE MembershipProofs --------------------------
(***************************************************************************)
(* Proofs about Membership, for any number of peers, networks, tokens and  *)
(* processes: its invariant, of which the single use of a token is a part, *)
(* that only admitted peers are listened to, and that memberships are kept.*)
(***************************************************************************)
EXTENDS Membership, TLAPS

\* What the invariant says of one process y in place k.
ProcessOK(k, y) ==
  /\ y \in Process
  /\ y.phase \in {"resolving", "joining"} => y.code # None
  /\ y.cert # None => y.phase = "joining" /\ y.cert.issuer # Owner[k]
  /\ Signed(y.mem) /\ Signed(y.cert)

\* What it says of the files.
DiskOK == disk \in [Peers -> Certificate \cup {None}]
            /\ \A p \in Peers : Signed(disk[p]) /\ (disk[p] # None => disk[p].peer = p)

\* And of invitations.
GrantsOK ==
  /\ grants \in [Peers -> SUBSET Grant] /\ tickets \subseteq Ticket
  /\ admitted \subseteq Peers \X Tokens \X Peers
  /\ GrantsMatch /\ SingleUse

RestOK == now \in Nat /\ late \subseteq Request /\ lost \in BOOLEAN /\ launches \in Nat

\* The invariant, in the parts that actions disturb one by one.
LEMMA InvParts ==
  Inv <=> /\ proc \in [Procs -> Process] /\ \A k \in Procs : ProcessOK(k, proc[k])
          /\ DiskOK /\ GrantsOK /\ RestOK
<1>1. proc \in [Procs -> Process] => \A k \in Procs : proc[k] \in Process
  OBVIOUS
<1> QED
  BY <1>1 DEF Inv, TypeOK, GrantsOK, DiskOK, RestOK, ProcessOK, CertificatesSigned, Awaits

\* A new process with no certificate and no membership.
LEMMA NewProcessOK ==
  ASSUME NEW k \in Procs, NEW kind \in {"join", "daemon", "phone"},
         NEW config \in Networks \cup {None}, NEW code \in Ticket \cup {None},
         NEW phase \in {"off", "resolving", "joining", "daemon"},
         phase \in {"resolving", "joining"} => code # None
  PROVE  ProcessOK(k, NewProcess(kind, config, code, phase))
BY PeopleAssumption DEF ProcessOK, NewProcess, Process, Signed

LEMMA GoneOK == ASSUME NEW k \in Procs PROVE ProcessOK(k, Gone)
BY NewProcessOK DEF Gone

\* The network a node chooses is one.
LEMMA ChosenNetworkType ==
  ASSUME NEW c \in Certificate \cup {None}, NEW config \in Networks \cup {None}
  PROVE  ChosenNetwork(c, config) \in Networks
BY PeopleAssumption DEF ChosenNetwork, Certificate

\* A process that becomes the daemon takes the membership it is given.
LEMMA RunsDaemonOK ==
  ASSUME NEW k \in Procs, NEW x \in Process, NEW p, NEW c \in Certificate \cup {None}, Signed(c)
  PROVE  ProcessOK(k, RunsDaemon(x, p, c))
<1> DEFINE n == ChosenNetwork(c, x.config)
           y == [x EXCEPT !.phase = "daemon", !.network = n, !.mem = c, !.cert = None]
<1>1. n \in Networks
  BY ChosenNetworkType DEF Process
<1> HIDE DEF n
<1>2. y \in Process /\ y.phase = "daemon" /\ y.mem = c /\ y.cert = None
  BY <1>1 DEF Process
<1>3. ProcessOK(k, y)
  BY <1>2 DEF ProcessOK, Signed
<1>4. RunsDaemon(x, p, c) \in {y, Gone}
  BY DEF RunsDaemon, n
<1> QED
  BY <1>3, <1>4, GoneOK

\* So does one that asks to join, which has a ticket.
LEMMA AsksToJoinOK ==
  ASSUME NEW k \in Procs, NEW x \in Process, NEW p, NEW c \in Certificate \cup {None}, Signed(c),
         x.code # None, x.cert = None
  PROVE  ProcessOK(k, AsksToJoin(x, p, c))
<1> DEFINE y == [x EXCEPT !.phase = "joining", !.network = x.code.network, !.mem = c]
<1>1. x.code \in Ticket /\ x.code.network \in Networks
  BY DEF Process, Ticket
<1>2. y \in Process /\ y.phase = "joining" /\ y.mem = c /\ y.cert = None /\ y.code # None
  BY <1>1 DEF Process
<1>3. ProcessOK(k, y)
  BY <1>2 DEF ProcessOK, Signed
<1> QED
  BY <1>3, GoneOK DEF AsksToJoin

LEMMA GoesOnOK ==
  ASSUME NEW k \in Procs, NEW x \in Process, NEW p, NEW c \in Certificate \cup {None}, Signed(c),
         x.cert = None
  PROVE  ProcessOK(k, GoesOn(x, p, c))
BY RunsDaemonOK, AsksToJoinOK, GoneOK DEF GoesOn

\* What was signed stays so.
LEMMA SignedStays ==
  ASSUME admitted \subseteq admitted', NEW c, Signed(c)
  PROVE  Signed(c)'
BY DEF Signed

LEMMA ProcessStays ==
  ASSUME admitted \subseteq admitted', NEW k \in Procs, NEW y, ProcessOK(k, y)
  PROVE  ProcessOK(k, y)'
BY SignedStays DEF ProcessOK

\* A step that puts y in place k leaves the other processes as they are.
LEMMA OneProcess ==
  ASSUME proc \in [Procs -> Process], \A l \in Procs : ProcessOK(l, proc[l]),
         admitted \subseteq admitted', NEW k \in Procs, NEW y, ProcessOK(k, y)',
         proc' = [proc EXCEPT ![k] = y]
  PROVE  proc' \in [Procs -> Process] /\ \A l \in Procs : ProcessOK(l, proc[l])'
<1>1. y \in Process
  BY DEF ProcessOK, Process, Ticket, Certificate
<1>2. ASSUME NEW l \in Procs PROVE ProcessOK(l, proc[l])'
  <2>1. CASE l = k
    BY <2>1
  <2>2. CASE l # k
    <3>1. proc'[l] = proc[l]
      BY <2>2
    <3>2. ProcessOK(l, proc[l])
      OBVIOUS
    <3> HIDE DEF ProcessOK
    <3> DEFINE z == proc[l]
    <3> QED
      BY <3>1, <3>2, SignedStays DEF ProcessOK, Process, Ticket, Certificate
  <2> QED
    BY <2>1, <2>2
<1> QED
  BY <1>1, <1>2 DEF Process, Ticket, Certificate

\* Steps that leave invitations, or the files, alone.
LEMMA GrantsFrame ==
  ASSUME GrantsOK, UNCHANGED <<grants, tickets, admitted>>
  PROVE  GrantsOK'
BY DEF GrantsOK, GrantsMatch, SingleUse, Ticket, Grant

LEMMA DiskFrame ==
  ASSUME DiskOK, disk' = disk, admitted \subseteq admitted'
  PROVE  DiskOK'
<1>1. \A p \in Peers : Signed(disk[p])'
  BY SignedStays DEF DiskOK
<1> QED
  BY <1>1 DEF DiskOK, Certificate

\* An invitation: its token is new, so no grant and no admission has it.
LEMMA InviteGrants ==
  ASSUME GrantsOK, NEW d \in Procs, NEW t \in Tokens, Invite(d, t), now \in Nat,
         proc \in [Procs -> Process]
  PROVE  GrantsOK'
<1> DEFINE p == Owner[d]
           g0 == [token |-> t, expires |-> now + InviteTtl, usedBy |-> None]
           tk == [token |-> t, network |-> proc[d].network, issuer |-> p,
                  expires |-> now + InviteTtl]
           kept == { g \in grants[p] : g.expires > now /\ g.usedBy = None }
<1>1. p \in Peers /\ now + InviteTtl \in Nat /\ proc[d].network \in Networks
  BY PeopleAssumption, BoundAssumption DEF Process
<1>2. g0 \in Grant /\ tk \in Ticket /\ g0.token = t /\ tk.token = t
  BY <1>1 DEF Grant, Ticket
<1>3. /\ grants' = [grants EXCEPT ![p] = kept \cup {g0}]
      /\ tickets' = tickets \cup {tk}
      /\ admitted' = admitted
      /\ \A ticket \in tickets : ticket.token # t
  BY DEF Invite
<1> HIDE DEF g0, tk, p
<1>4. grants' \in [Peers -> SUBSET Grant] /\ tickets' \subseteq Ticket
  BY <1>1, <1>2, <1>3 DEF GrantsOK
<1>5. ASSUME NEW q \in Peers, NEW g \in grants'[q]
      PROVE  g \in grants[q] \/ g = g0
  BY <1>1, <1>3 DEF GrantsOK
<1>6. \A q \in Peers : \A g \in grants[q] : g.token # t
  BY <1>3 DEF GrantsOK, GrantsMatch
<1>7. \A x \in admitted : x[2] # t
  BY <1>3 DEF GrantsOK, GrantsMatch
<1>8. ASSUME NEW q \in Peers, NEW g \in grants'[q]
      PROVE  /\ \E ticket \in tickets' : ticket.token = g.token
             /\ \A h \in grants'[q] : g.token = h.token => g = h
             /\ g.usedBy = None => \A x \in admitted' : ~(x[1] = q /\ x[2] = g.token)
  <2>1. \A h \in grants'[q] : h \in grants[q] \/ h = g0
    BY <1>5
  <2>2. \E ticket \in tickets' : ticket.token = g.token
    BY <1>2, <1>3, <2>1 DEF GrantsOK, GrantsMatch
  <2>3. \A h \in grants'[q] : g.token = h.token => g = h
    BY <1>2, <1>6, <2>1 DEF GrantsOK, GrantsMatch
  <2>4. g.usedBy = None => \A x \in admitted' : ~(x[1] = q /\ x[2] = g.token)
    BY <1>2, <1>3, <1>7, <2>1 DEF GrantsOK, GrantsMatch
  <2> QED
    BY <2>2, <2>3, <2>4
<1>9. \A x \in admitted' : \E ticket \in tickets' : ticket.token = x[2]
  BY <1>3 DEF GrantsOK, GrantsMatch
<1>10. GrantsMatch'
  BY <1>8, <1>9 DEF GrantsMatch
<1> QED
  BY <1>3, <1>4, <1>10 DEF GrantsOK, SingleUse

\* An admission: the grant that admits was unused, so nobody came in with it.
LEMMA AdmitGrants ==
  ASSUME GrantsOK, NEW d \in Procs, NEW t \in Tokens, NEW p \in Peers, Admit(d, t, p),
         tickets' = tickets
  PROVE  /\ GrantsOK' /\ admitted \subseteq admitted'
         /\ Redeemable(d, t) => <<Owner[d], t, p>> \in admitted'
<1> DEFINE r == Owner[d]
<1>1. r \in Peers
  BY PeopleAssumption
<1>2. CASE ~Redeemable(d, t)
  <2>1. UNCHANGED <<grants, tickets, admitted>>
    BY <1>2 DEF Admit
  <2> QED
    BY <1>2, <2>1, GrantsFrame
<1>3. CASE Redeemable(d, t)
  <2>1. PICK g0 \in grants[r] : g0.token = t /\ g0.usedBy = None
    BY <1>3 DEF Redeemable, UsableGrant
  <2>2. /\ grants' = [grants EXCEPT ![r] =
             { IF g \in UsableGrant(d, t) THEN MarkedUsed(g, p) ELSE g : g \in @ }]
        /\ admitted' = admitted \cup {<<r, t, p>>}
    BY <1>3 DEF Admit
  <2>3. \A x \in admitted : ~(x[1] = r /\ x[2] = t)
    BY <1>1, <2>1 DEF GrantsOK, GrantsMatch
  <2>4. SingleUse'
    BY <2>2, <2>3 DEF GrantsOK, SingleUse
  <2>5. ASSUME NEW g \in Grant
        PROVE  MarkedUsed(g, p) \in Grant /\ MarkedUsed(g, p).token = g.token
                 /\ MarkedUsed(g, p).usedBy = p
    BY DEF MarkedUsed, Grant
  <2>6. grants[r] \subseteq Grant
    BY <1>1 DEF GrantsOK
  <2>7. ASSUME NEW g \in grants'[r]
        PROVE  \E h \in grants[r] :
                 /\ g = IF h \in UsableGrant(d, t) THEN MarkedUsed(h, p) ELSE h
                 /\ g.token = h.token /\ g \in Grant
                 /\ g.usedBy = None => g = h /\ h.token # t
    <3>1. PICK h \in grants[r] : g = IF h \in UsableGrant(d, t) THEN MarkedUsed(h, p) ELSE h
      BY <1>1, <2>2 DEF GrantsOK
    <3>2. h.token = t => h = g0
      BY <1>1, <2>1 DEF GrantsOK, GrantsMatch
    <3>3. g0 \in UsableGrant(d, t)
      BY <1>1, <1>3, <2>1 DEF GrantsOK, GrantsMatch, Redeemable, UsableGrant
    <3> QED
      BY <2>5, <2>6, <3>1, <3>2, <3>3, PeopleAssumption
  <2>8. grants' \in [Peers -> SUBSET Grant]
    BY <1>1, <2>2, <2>7 DEF GrantsOK
  <2>9. ASSUME NEW q \in Peers, NEW g \in grants'[q]
        PROVE  /\ \E ticket \in tickets' : ticket.token = g.token
               /\ \A h \in grants'[q] : g.token = h.token => g = h
               /\ g.usedBy = None => \A x \in admitted' : ~(x[1] = q /\ x[2] = g.token)
    <3>1. CASE q # r
      <4>1. grants'[q] = grants[q]
        BY <2>2, <3>1 DEF GrantsOK
      <4>2. \A x \in admitted' : x[1] = q => x \in admitted
        BY <2>2, <3>1
      <4> QED
        BY <4>1, <4>2 DEF GrantsOK, GrantsMatch
    <3>2. CASE q = r
      <4>1. \E ticket \in tickets' : ticket.token = g.token
        BY <2>7, <3>2 DEF GrantsOK, GrantsMatch
      <4>2. \A h \in grants'[q] : g.token = h.token => g = h
        BY <1>1, <2>7, <3>2 DEF GrantsOK, GrantsMatch
      <4>3. g.usedBy = None => \A x \in admitted' : ~(x[1] = q /\ x[2] = g.token)
        BY <1>1, <2>2, <2>7, <3>2 DEF GrantsOK, GrantsMatch
      <4> QED
        BY <4>1, <4>2, <4>3
    <3> QED
      BY <3>1, <3>2
  <2>10. \A x \in admitted' : \E ticket \in tickets' : ticket.token = x[2]
    BY <1>1, <2>1, <2>2 DEF GrantsOK, GrantsMatch
  <2> QED
    BY <1>1, <2>2, <2>4, <2>8, <2>9, <2>10 DEF GrantsOK, GrantsMatch
<1> QED
  BY <1>2, <1>3

\* All the parts together.
Parts ==
  /\ proc \in [Procs -> Process] /\ \A k \in Procs : ProcessOK(k, proc[k])
  /\ DiskOK /\ GrantsOK /\ RestOK

LEMMA InitParts == Init => Parts
<1> SUFFICES ASSUME Init PROVE Parts
  OBVIOUS
<1>1. \A k \in Procs : proc[k] = Gone /\ ProcessOK(k, proc[k])
  BY GoneOK DEF Init
<1>2. proc \in [Procs -> Process]
  BY <1>1 DEF Init, ProcessOK
<1>3. DiskOK
  BY DEF Init, DiskOK, Signed
<1>4. GrantsOK /\ RestOK
  BY DEF Init, GrantsOK, GrantsMatch, SingleUse, RestOK
<1> QED
  BY <1>1, <1>2, <1>3, <1>4 DEF Parts

\* Starting a process.
LEMMA LaunchParts ==
  ASSUME Parts, NEW k \in Procs, NEW kind \in {"join", "daemon", "phone"},
         NEW config \in Networks \cup {None}, NEW code \in tickets \cup {None},
         NEW short \in BOOLEAN, short => code # None, Launch(k, kind, config, code, short)
  PROVE  Parts'
<1> DEFINE p == Owner[k]
           x == NewProcess(kind, config, code, "off")
           y == IF short THEN NewProcess(kind, config, code, "resolving") ELSE GoesOn(x, p, disk[p])
<1>1. p \in Peers /\ code \in Ticket \cup {None}
  BY PeopleAssumption DEF Parts, GrantsOK
<1>2. disk[p] \in Certificate \cup {None} /\ Signed(disk[p])
  BY <1>1 DEF Parts, DiskOK
<1>3. x \in Process /\ x.cert = None
  BY <1>1, NewProcessOK DEF ProcessOK, NewProcess
<1>4. ProcessOK(k, GoesOn(x, p, disk[p]))
  BY <1>2, <1>3, GoesOnOK
<1>5. ProcessOK(k, y)
  BY <1>1, <1>4, NewProcessOK
<1>6. proc' = [proc EXCEPT ![k] = y] /\ launches' = launches + 1
        /\ UNCHANGED <<now, disk, grants, tickets, late, admitted, lost>>
  BY DEF Launch
<1> HIDE DEF y
<1>7. PICK z : z = y
  OBVIOUS
<1>8. ProcessOK(k, z)'
  BY <1>5, <1>6, <1>7, ProcessStays
<1>9. proc' \in [Procs -> Process] /\ \A l \in Procs : ProcessOK(l, proc[l])'
  BY <1>6, <1>7, <1>8, OneProcess DEF Parts
<1> QED
  BY <1>6, <1>9, GrantsFrame, DiskFrame DEF Parts, RestOK

\* Ending one, or giving up on its request.
LEMMA EndParts ==
  ASSUME Parts, NEW k \in Procs, Shutdown(k) \/ GiveUp(k)
  PROVE  Parts'
<1>1. proc' = [proc EXCEPT ![k] = Gone]
        /\ UNCHANGED <<now, disk, grants, tickets, admitted, launches>>
  BY DEF Shutdown, GiveUp
<1>2. ProcessOK(k, Gone)'
  BY <1>1, GoneOK, ProcessStays
<1>3. proc' \in [Procs -> Process] /\ \A l \in Procs : ProcessOK(l, proc[l])'
  BY <1>1, <1>2, OneProcess DEF Parts
<1>4. late' \subseteq Request /\ lost' \in BOOLEAN
  <2>1. CASE Shutdown(k)
    BY <2>1 DEF Shutdown, Parts, RestOK
  <2>2. CASE GiveUp(k) /\ late' # late
    <3>1. proc[k].code \in Ticket /\ Owner[k] \in Peers
      BY <2>2, PeopleAssumption DEF GiveUp, Parts, ProcessOK, Process
    <3>2. late' = late \cup {[ticket |-> proc[k].code, peer |-> Owner[k]]} /\ lost' = TRUE
      BY <2>2 DEF GiveUp
    <3> QED
      BY <3>1, <3>2 DEF Parts, RestOK, Request
  <2>3. CASE GiveUp(k) /\ late' = late
    BY <2>3 DEF GiveUp, Parts, RestOK
  <2> QED
    BY <2>1, <2>2, <2>3
<1>5. RestOK'
  BY <1>1, <1>4 DEF Parts, RestOK, Request, Ticket
<1> QED
  BY <1>1, <1>3, <1>5, GrantsFrame, DiskFrame DEF Parts

\* An invitation, which may found a network.
LEMMA InviteParts ==
  ASSUME Parts, NEW d \in Procs, NEW t \in Tokens, Invite(d, t)
  PROVE  Parts'
<1> DEFINE p == Owner[d]
           c == RootMembership(d)
           y == [proc[d] EXCEPT !.mem = c]
           own == [ network |-> proc[d].network, peer |-> p, issuer |-> p, expires |-> now + CertTtl ]
<1>1. p \in Peers /\ proc[d] \in Process /\ ProcessOK(d, proc[d]) /\ now \in Nat
  BY PeopleAssumption DEF Parts, RestOK
<1>2. own \in Certificate /\ own.peer = p /\ own.issuer = p
  BY <1>1, BoundAssumption DEF Certificate, Process
<1>3. c \in Certificate \cup {None} /\ Signed(c) /\ (c # proc[d].mem => c = own)
  BY <1>1, <1>2 DEF RootMembership, ProcessOK, Process, Signed
<1>4. /\ disk' = IF c = proc[d].mem THEN disk ELSE [disk EXCEPT ![p] = c]
      /\ proc' = [proc EXCEPT ![d] = y]
      /\ UNCHANGED <<now, late, admitted, lost, launches>>
  BY DEF Invite
<1> HIDE DEF c, own
<1>5. y \in Process /\ y.mem = c /\ y.cert = proc[d].cert /\ y.phase = proc[d].phase
        /\ y.code = proc[d].code
  BY <1>1, <1>3 DEF Process
<1>6. ProcessOK(d, y)
  BY <1>1, <1>3, <1>5 DEF ProcessOK
<1> HIDE DEF y
<1>7. proc' \in [Procs -> Process] /\ \A l \in Procs : ProcessOK(l, proc[l])'
  BY <1>4, <1>6, OneProcess, ProcessStays DEF Parts
<1>8. DiskOK'
  <2>1. \A q \in Peers : disk'[q] = disk[q] \/ disk'[q] = c
    BY <1>1, <1>4 DEF Parts, DiskOK
  <2>2. \A q \in Peers : Signed(disk[q])'
    BY <1>3, <1>4, <2>1 DEF Parts, DiskOK, Signed
  <2> QED
    BY <1>1, <1>2, <1>3, <1>4, <2>2 DEF Parts, DiskOK, Certificate
<1>9. GrantsOK'
  BY <1>1, InviteGrants DEF Parts
<1> QED
  BY <1>4, <1>7, <1>8, <1>9 DEF Parts, RestOK

\* The resolution of a code.
LEMMA ResolveParts ==
  ASSUME Parts, NEW k \in Procs, NEW d \in Procs, Resolve(k, d)
  PROVE  Parts'
<1> DEFINE p == Owner[k]
           y == IF Redeemable(d, proc[k].code.token) THEN GoesOn(proc[k], p, disk[p]) ELSE Gone
<1>1. p \in Peers /\ disk[p] \in Certificate \cup {None} /\ Signed(disk[p])
  BY PeopleAssumption DEF Parts, DiskOK
<1>2. proc[k] \in Process /\ proc[k].cert = None
  BY DEF Parts, ProcessOK, Resolve
<1>3. ProcessOK(k, y)
  BY <1>1, <1>2, GoesOnOK, GoneOK
<1>4. proc' = [proc EXCEPT ![k] = y]
        /\ UNCHANGED <<now, disk, grants, tickets, late, admitted, lost, launches>>
  BY <1>2 DEF Resolve, Parts
<1> HIDE DEF y
<1>5. proc' \in [Procs -> Process] /\ \A l \in Procs : ProcessOK(l, proc[l])'
  BY <1>3, <1>4, OneProcess, ProcessStays DEF Parts
<1> QED
  BY <1>4, <1>5, GrantsFrame, DiskFrame DEF Parts, RestOK

\* An answer to a request to join.
LEMMA AnswerJoinParts ==
  ASSUME Parts, NEW k \in Procs, NEW d \in Procs, AnswerJoin(k, d)
  PROVE  Parts'
<1> DEFINE p == Owner[k]
           t == proc[k].code.token
           c == Sign(d, p)
           x == [proc[k] EXCEPT !.cert = c]
           y == IF Redeemable(d, t) THEN x ELSE Gone
<1>1. p \in Peers /\ Owner[d] \in Peers /\ now \in Nat /\ ProcessOK(k, proc[k])
        /\ proc[k] \in Process /\ proc[d] \in Process
  BY PeopleAssumption DEF Parts, RestOK
<1>2. proc[k].phase = "joining" /\ proc[k].code \in Ticket /\ t \in Tokens
  BY <1>1 DEF AnswerJoin, ProcessOK, Process, Ticket
<1>3. c \in Certificate /\ c.peer = p /\ c.issuer = Owner[d] /\ Owner[d] # p
  BY <1>1, BoundAssumption DEF Sign, Certificate, Process, AnswerJoin, Admit
<1>4. /\ proc' = [proc EXCEPT ![k] = y] /\ Admit(d, t, p)
      /\ UNCHANGED <<now, disk, tickets, late, lost, launches>>
  BY DEF AnswerJoin
<1>5. /\ GrantsOK' /\ admitted \subseteq admitted'
      /\ Redeemable(d, t) => <<Owner[d], t, p>> \in admitted'
  BY <1>1, <1>2, <1>4, AdmitGrants DEF Parts
<1> HIDE DEF c
<1>6. x \in Process /\ x.cert = c /\ x.mem = proc[k].mem /\ x.phase = "joining"
        /\ x.code = proc[k].code
  BY <1>1, <1>2, <1>3 DEF Process
<1> HIDE DEF x
<1>7. PICK z : z = y
  OBVIOUS
<1>8. ProcessOK(k, z)'
  <2>1. CASE ~Redeemable(d, t)
    BY <1>5, <1>7, <2>1, GoneOK, ProcessStays
  <2>2. CASE Redeemable(d, t)
    <3>1. z = x
      BY <1>7, <2>2
    <3>2. z \in Process /\ z.phase = "joining" /\ z.code # None /\ z.cert.issuer # Owner[k]
      BY <1>1, <1>2, <1>3, <1>6, <3>1, NoneAssumption
    <3>3. \E u \in Tokens : <<z.cert.issuer, u, z.cert.peer>> \in admitted'
      BY <1>2, <1>3, <1>5, <1>6, <2>2, <3>1
    <3>4. Signed(z.mem) /\ Signed(z.mem)'
      BY <1>1, <1>5, <1>6, <3>1, SignedStays DEF ProcessOK
    <3> QED
      BY <3>2, <3>3, <3>4 DEF ProcessOK, Signed, Process, Certificate, Ticket
  <2> QED
    BY <2>1, <2>2
<1> HIDE DEF y
<1>9. proc' \in [Procs -> Process] /\ \A l \in Procs : ProcessOK(l, proc[l])'
  BY <1>4, <1>5, <1>7, <1>8, OneProcess DEF Parts
<1> QED
  BY <1>4, <1>5, <1>9, DiskFrame DEF Parts, RestOK

\* An answer nobody waits for.
LEMMA AnswerLateParts ==
  ASSUME Parts, NEW r \in late, NEW d \in Procs, AnswerLate(r, d)
  PROVE  Parts'
<1>1. r.ticket.token \in Tokens /\ r.peer \in Peers
  BY DEF Parts, RestOK, Request, Ticket
<1>2. /\ Admit(d, r.ticket.token, r.peer) /\ late' = late \ {r}
      /\ UNCHANGED <<now, disk, tickets, proc, lost, launches>>
  BY DEF AnswerLate
<1>3. GrantsOK' /\ admitted \subseteq admitted'
  BY <1>1, <1>2, AdmitGrants DEF Parts
<1>4. ASSUME NEW k \in Procs PROVE ProcessOK(k, proc[k])'
  <2>1. ProcessOK(k, proc[k])
    BY DEF Parts
  <2> QED
    BY <1>2, <1>3, <2>1, SignedStays DEF ProcessOK, Process, Ticket, Certificate
<1> QED
  BY <1>2, <1>3, <1>4, DiskFrame DEF Parts, RestOK, Process, Ticket, Certificate, Request

\* The certificate arrives.
LEMMA AcceptParts ==
  ASSUME Parts, NEW k \in Procs, Accept(k)
  PROVE  Parts' /\ \A p \in Peers : disk'[p] # disk[p] => disk'[p].issuer # p
<1> DEFINE x == proc[k]
           p == Owner[k]
           y == IF x.kind = "join" THEN Gone ELSE RunsDaemon(x, p, x.cert)
           ok == TicketVerifies(x.code) /\ Verifies(x.cert, x.code.network, p, x.code.issuer)
<1>1. /\ p \in Peers /\ x \in Process /\ ProcessOK(k, x) /\ x.cert \in Certificate
      /\ x.cert.issuer # p
  BY PeopleAssumption DEF Parts, ProcessOK, Process, Accept
<1>2. UNCHANGED <<now, grants, tickets, late, admitted, lost, launches>>
  BY DEF Accept
<1>3. ProcessOK(k, y) /\ ProcessOK(k, Gone)
  BY <1>1, RunsDaemonOK, GoneOK DEF ProcessOK
<1>4. CASE ok
  <2>1. disk' = [disk EXCEPT ![p] = x.cert] /\ proc' = [proc EXCEPT ![k] = y]
    BY <1>4 DEF Accept
  <2>2. x.cert.peer = p
    BY <1>4 DEF Verifies
  <2> HIDE DEF x, y
  <2>3. Signed(x.cert)
    BY <1>1 DEF ProcessOK
  <2>4. \A q \in Peers : Signed(disk[q])'
    BY <1>1, <1>2, <2>1, <2>3, SignedStays DEF Parts, DiskOK
  <2>5. DiskOK'
    BY <1>1, <2>1, <2>2, <2>4 DEF Parts, DiskOK, Certificate
  <2>6. proc' \in [Procs -> Process] /\ \A l \in Procs : ProcessOK(l, proc[l])'
    BY <1>2, <1>3, <2>1, OneProcess, ProcessStays DEF Parts
  <2>7. \A q \in Peers : disk'[q] # disk[q] => disk'[q].issuer # q
    BY <1>1, <2>1 DEF Parts, DiskOK
  <2> QED
    BY <1>2, <2>5, <2>6, <2>7, GrantsFrame DEF Parts, RestOK
<1>5. CASE ~ok
  <2>1. disk' = disk /\ proc' = [proc EXCEPT ![k] = Gone]
    BY <1>5 DEF Accept
  <2>2. proc' \in [Procs -> Process] /\ \A l \in Procs : ProcessOK(l, proc[l])'
    BY <1>2, <1>3, <2>1, OneProcess, ProcessStays DEF Parts
  <2> QED
    BY <1>2, <2>1, <2>2, GrantsFrame, DiskFrame DEF Parts, RestOK
<1> QED
  BY <1>4, <1>5

LEMMA TickParts ==
  ASSUME Parts, Tick \/ UNCHANGED vars
  PROVE  Parts'
<1>1. UNCHANGED <<disk, grants, tickets, proc, late, admitted, lost, launches>> /\ now' \in Nat
  BY DEF Tick, vars, Parts, RestOK
<1>2. ASSUME NEW k \in Procs PROVE ProcessOK(k, proc[k])'
  BY <1>1 DEF Parts, ProcessOK, Process, Ticket, Certificate, Signed
<1> QED
  BY <1>1, <1>2, GrantsFrame, DiskFrame DEF Parts, RestOK, Process, Ticket, Certificate, Request

LEMMA NextParts == Parts /\ [Next]_vars => Parts'
<1> SUFFICES ASSUME Parts, [Next]_vars PROVE Parts'
  OBVIOUS
<1>1. ASSUME NEW k \in Procs, LaunchAny(k) PROVE Parts'
  <2>1. CASE \E config \in Settings : Launch(k, "daemon", config, None, FALSE)
    BY <2>1, LaunchParts, PeopleAssumption
  <2>2. CASE \E code \in tickets, short \in BOOLEAN : Launch(k, "join", None, code, short)
    <3>1. PICK code \in tickets, short \in BOOLEAN : Launch(k, "join", None, code, short)
      BY <2>2
    <3>2. code # None
      BY NoneAssumption DEF Parts, GrantsOK
    <3> QED
      BY <3>1, <3>2, LaunchParts
  <2> QED
    BY <1>1, <2>1, <2>2 DEF LaunchAny
<1>2. ASSUME NEW k \in Procs, ProcStep(k) PROVE Parts'
  BY <1>2, AcceptParts, EndParts, ResolveParts, AnswerJoinParts DEF ProcStep
<1>3. ASSUME NEW k \in Procs, Shutdown(k) PROVE Parts'
  BY <1>3, EndParts
<1> QED
  BY <1>1, <1>2, <1>3, InviteParts, AnswerLateParts, TickParts DEF Next

-----------------------------------------------------------------------------
\* The invariant of the membership: types, one grant per token, an unused grant
\* has admitted nobody, and every certificate was signed in an admission or for
\* the root itself.
THEOREM Invariance == Spec => []Inv
<1>1. Parts <=> Inv
  BY InvParts DEF Parts
<1> QED
  BY <1>1, InitParts, NextParts, PTL DEF Spec

\* A token admits at most one peer, however often it is presented.
THEOREM TokenSingleUse == Spec => []SingleUse
<1>1. Inv => SingleUse
  BY DEF Inv
<1> QED
  BY <1>1, Invariance, PTL

\* Only the root and the peers it has admitted are listened to.
THEOREM OnlyAdmitted == Spec => []AdmittedOnly
<1>1. Inv => AdmittedOnly
  <2> SUFFICES ASSUME Inv, NEW k \in Procs, NEW l \in Procs, Authorizes(k, Owner[l], proc[l].mem)
               PROVE  \/ Owner[l] = proc[k].mem.issuer
                      \/ \E t \in Tokens : <<proc[k].mem.issuer, t, Owner[l]>> \in admitted
    BY DEF AdmittedOnly
  <2>1. Signed(proc[l].mem) /\ proc[l].mem # None
    BY DEF Inv, CertificatesSigned, Authorizes
  <2>2. proc[l].mem.peer = Owner[l] /\ proc[l].mem.issuer = proc[k].mem.issuer
    BY DEF Authorizes, Verifies
  <2> QED
    BY <2>1, <2>2 DEF Signed
<1> QED
  BY <1>1, Invariance, PTL

\* A membership is replaced by joining again, or by a daemon that does not know it.
THEOREM MembershipIsKept == Spec => MembershipKept
<1> DEFINE Kept ==
      \A p \in Peers :
        disk[p] # None /\ disk'[p] # disk[p] =>
          \/ disk'[p].issuer # p
          \/ \E k \in Procs : Owner[k] = p /\ proc[k].phase = "daemon" /\ proc[k].mem = None
<1>1. Inv /\ [Next]_vars => [Kept]_vars
  <2> SUFFICES ASSUME Inv, [Next]_vars PROVE Kept
    OBVIOUS
  <2>0. Parts
    BY InvParts DEF Parts
  <2>1. ASSUME NEW k \in Procs, Accept(k) PROVE Kept
    BY <2>0, <2>1, AcceptParts
  <2>2. ASSUME NEW d \in Procs, NEW t \in Tokens, Invite(d, t) PROVE Kept
    <3>1. proc[d].phase = "daemon" /\ Owner[d] \in Peers
      BY <2>2, PeopleAssumption DEF Invite
    <3>2. CASE proc[d].mem # None
      <4>1. disk' = disk
        BY <2>2, <3>2 DEF Invite, RootMembership
      <4> QED
        BY <4>1
    <3>3. CASE proc[d].mem = None
      <4>1. \A p \in Peers : p # Owner[d] => disk'[p] = disk[p]
        BY <2>0, <2>2 DEF Invite, Parts, DiskOK
      <4> QED
        BY <3>1, <3>3, <4>1
    <3> QED
      BY <3>2, <3>3
  <2>3. CASE UNCHANGED disk
    BY <2>3
  <2> QED
    BY <2>1, <2>2, <2>3
       DEF Next, LaunchAny, Launch, Shutdown, ProcStep, GiveUp, Resolve, AnswerJoin, AnswerLate, Tick, vars
<1> QED
  BY <1>1, Invariance, PTL DEF Spec, MembershipKept
=============================================================================
