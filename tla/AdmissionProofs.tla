--------------------------- MODULE AdmissionProofs ---------------------------
(***************************************************************************)
(* Proofs about joining, in Membership: a root invites into one network    *)
(* for good, an answer is the one its request asked for, and no token is   *)
(* used up for nothing unless a message was lost or the ticket expired.    *)
(***************************************************************************)
EXTENDS MembershipProofs

\* What JoinsMatch says of one process y in place k.
JoinOK(k, y) ==
  /\ y.phase \in {"resolving", "joining"} => y.kind = "join"
  /\ y.phase = "daemon" => y.kind = "daemon"
  /\ RootOf(y.mem, Owner[k])
  /\ y.mem # None => y.mem.network = y.network
  /\ \A ticket \in tickets : y.phase = "daemon" /\ Owner[k] = ticket.issuer => y.mem # None
  /\ y.code # None => y.code \in tickets
  /\ y.cert # None =>
       /\ y.cert.peer = Owner[k] /\ y.cert.issuer = y.code.issuer
       /\ y.cert.network = y.code.network /\ y.cert.expires >= y.code.expires

\* Of two of them.
OnePerPeer ==
  \A k, l \in Procs :
    proc[k].phase = "daemon" /\ proc[l].phase = "daemon" /\ Owner[k] = Owner[l] => k = l

\* And of tickets.
TicketsOK ==
  /\ \A s, ticket \in tickets : s.issuer = ticket.issuer => s.network = ticket.network
  /\ \A p \in Peers : RootOf(disk[p], p)
  /\ \A ticket \in tickets : disk[ticket.issuer] # None /\ ticket.expires <= now + InviteTtl
  /\ late # {} => lost

Joins == (\A k \in Procs : JoinOK(k, proc[k])) /\ OnePerPeer /\ TicketsOK

LEMMA JoinsParts == JoinsMatch <=> Joins
BY DEF JoinsMatch, OneDaemon, RootKeepsNetwork, AnswersMatch, Awaits, Joins, JoinOK, OnePerPeer,
       TicketsOK

LEMMA NewJoinOK ==
  ASSUME NEW k \in Procs, NEW kind, NEW config, NEW code, NEW phase,
         phase \in {"resolving", "joining"} => kind = "join",
         phase # "daemon", code # None => code \in tickets
  PROVE  JoinOK(k, NewProcess(kind, config, code, phase))
BY DEF JoinOK, NewProcess, RootOf

LEMMA GoneJoinOK == ASSUME NEW k \in Procs PROVE JoinOK(k, Gone)
BY NewJoinOK DEF Gone

\* A process that asks to join holds what its peer has on disk.
LEMMA AsksToJoinJoinOK ==
  ASSUME NEW k \in Procs, NEW x \in Process, x.code \in tickets, x.cert = None, x.kind = "join",
         NEW c, RootOf(c, Owner[k])
  PROVE  JoinOK(k, AsksToJoin(x, Owner[k], c))
<1> DEFINE y == [x EXCEPT !.phase = "joining", !.network = x.code.network, !.mem = c]
<1>1. /\ y.phase = "joining" /\ y.network = x.code.network /\ y.mem = c
      /\ y.kind = "join" /\ y.code = x.code /\ y.cert = None
  BY DEF Process
<1>2. Opens(c, Owner[k], x.code.network) => JoinOK(k, y)
  BY <1>1 DEF JoinOK, Opens
<1> QED
  BY <1>2, GoneJoinOK DEF AsksToJoin

\* A daemon without a membership is one of a peer that invites nobody.
LEMMA RunsDaemonJoinOK ==
  ASSUME NEW k \in Procs, NEW x \in Process, x.code = None, x.kind = "daemon",
         NEW c, RootOf(c, Owner[k]), \A ticket \in tickets : Owner[k] = ticket.issuer => c # None
  PROVE  JoinOK(k, RunsDaemon(x, Owner[k], c))
<1> DEFINE n == ChosenNetwork(c, x.config)
           y == [x EXCEPT !.phase = "daemon", !.network = n, !.mem = c, !.cert = None]
<1>1. /\ y.phase = "daemon" /\ y.network = n /\ y.mem = c
      /\ y.kind = "daemon" /\ y.code = None /\ y.cert = None
  BY DEF Process
<1>2. Opens(c, Owner[k], n) => JoinOK(k, y)
  BY <1>1 DEF JoinOK, Opens
<1> QED
  BY <1>2, GoneJoinOK DEF RunsDaemon

LEMMA GoesOnWaits ==
  ASSUME NEW x, x.code # None, x.kind = "join", NEW p, NEW c
  PROVE  GoesOn(x, p, c) \in {AsksToJoin(x, p, c), Gone} /\ GoesOn(x, p, c).phase # "daemon"
BY DEF GoesOn, AsksToJoin, Gone, NewProcess

\* A step that puts y in place k leaves the other processes as they are.
LEMMA OneJoin ==
  ASSUME Parts, Joins, tickets' = tickets, NEW k \in Procs, NEW y, JoinOK(k, y),
         proc' = [proc EXCEPT ![k] = y],
         y.phase = "daemon" =>
           \A l \in Procs \ {k} : Owner[l] = Owner[k] => proc[l].phase # "daemon"
  PROVE  (\A l \in Procs : JoinOK(l, proc[l])') /\ OnePerPeer'
<1>1. \A l \in Procs : proc'[l] = IF l = k THEN y ELSE proc[l]
  BY DEF Parts
<1>2. \A l \in Procs : JoinOK(l, proc'[l])
  BY <1>1 DEF Joins
<1>3. ASSUME NEW l \in Procs PROVE JoinOK(l, proc[l])'
  BY <1>2 DEF JoinOK, RootOf, InvitesInto
<1>4. OnePerPeer'
  BY <1>1 DEF Joins, OnePerPeer
<1> QED
  BY <1>3, <1>4

\* Tickets and memberships that are left alone.
LEMMA TicketsFrame ==
  ASSUME Joins, now \in Nat, now' \in Nat, now' >= now, tickets \subseteq Ticket,
         tickets' = tickets, disk' = disk, late' # {} => lost'
  PROVE  TicketsOK'
BY BoundAssumption DEF Joins, TicketsOK, RootOf, InvitesInto, Ticket

LEMMA InitJoins == Init => Joins
BY GoneJoinOK DEF Init, Joins, OnePerPeer, TicketsOK, RootOf, Gone, NewProcess

\* A process is started.
LEMMA LaunchJoins ==
  ASSUME Parts, Joins, NEW k \in Procs, LaunchAny(k)
  PROVE  Joins'
<1> DEFINE p == Owner[k]
<1>1. p \in Peers /\ RootOf(disk[p], p) /\ now \in Nat /\ tickets \subseteq Ticket
  BY PeopleAssumption DEF Joins, TicketsOK, Parts, RestOK, GrantsOK
<1>2. \A ticket \in tickets : p = ticket.issuer => disk[p] # None
  BY DEF Joins, TicketsOK
<1>3. UNCHANGED <<now, disk, tickets, late, lost>>
  BY DEF LaunchAny, Launch
<1>4. TicketsOK'
  BY <1>1, <1>3, TicketsFrame DEF Joins, TicketsOK
<1>5. CASE /\ \A d \in Procs : Owner[d] = Owner[k] => proc[d].phase # "daemon"
           /\ \E config \in Settings : Launch(k, "daemon", config, None, FALSE)
  <2>0. PICK config \in Settings : Launch(k, "daemon", config, None, FALSE)
    BY <1>5
  <2> DEFINE x == NewProcess("daemon", config, None, "off")
             y == GoesOn(x, p, disk[p])
  <2>1. proc' = [proc EXCEPT ![k] = y]
    BY <2>0 DEF Launch
  <2>2. x \in Process /\ x.code = None /\ x.kind = "daemon"
    BY PeopleAssumption DEF NewProcess, Process
  <2>3. y = RunsDaemon(x, p, disk[p])
    BY <2>2 DEF GoesOn
  <2> HIDE DEF x
  <2>4. JoinOK(k, y)
    BY <1>1, <1>2, <2>2, <2>3, RunsDaemonJoinOK
  <2> QED
    BY <1>3, <1>4, <1>5, <2>1, <2>4, OneJoin DEF Joins
<1>6. CASE \E code \in tickets, short \in BOOLEAN : Launch(k, "join", None, code, short)
  <2>0. PICK code \in tickets, short \in BOOLEAN : Launch(k, "join", None, code, short)
    BY <1>6
  <2> DEFINE x == NewProcess("join", None, code, "off")
             y == IF short THEN NewProcess("join", None, code, "resolving")
                  ELSE GoesOn(x, p, disk[p])
  <2>1. proc' = [proc EXCEPT ![k] = y]
    BY <2>0 DEF Launch
  <2>2. /\ x \in Process /\ x.code \in tickets /\ x.code # None /\ x.kind = "join"
        /\ x.cert = None
    BY <1>1, PeopleAssumption, NoneAssumption DEF NewProcess, Process
  <2>3. JoinOK(k, NewProcess("join", None, code, "resolving"))
    BY NewJoinOK
  <2>4. NewProcess("join", None, code, "resolving").phase # "daemon"
    BY DEF NewProcess
  <2> HIDE DEF x
  <2>5. JoinOK(k, GoesOn(x, p, disk[p])) /\ GoesOn(x, p, disk[p]).phase # "daemon"
    BY <1>1, <2>2, GoneJoinOK, AsksToJoinJoinOK, GoesOnWaits
  <2>6. JoinOK(k, y) /\ y.phase # "daemon"
    BY <2>3, <2>4, <2>5
  <2> QED
    BY <1>3, <1>4, <2>1, <2>6, OneJoin DEF Joins
<1> QED
  BY <1>5, <1>6 DEF LaunchAny

\* A process ends.
LEMMA EndJoins ==
  ASSUME Parts, Joins, NEW k \in Procs, proc' = [proc EXCEPT ![k] = Gone],
         UNCHANGED <<now, disk, tickets>>, late' # {} => lost'
  PROVE  Joins'
<1>1. now \in Nat /\ tickets \subseteq Ticket
  BY DEF Parts, RestOK, GrantsOK
<1>2. TicketsOK'
  BY <1>1, TicketsFrame
<1>3. Gone.phase # "daemon"
  BY DEF Gone, NewProcess
<1> QED
  BY <1>2, <1>3, GoneJoinOK, OneJoin DEF Joins

\* A code is resolved.
LEMMA ResolveJoins ==
  ASSUME Parts, Joins, NEW k \in Procs, NEW d \in Procs, Resolve(k, d)
  PROVE  Joins'
<1> DEFINE p == Owner[k]
           x == proc[k]
           y == IF Redeemable(d, x.code.token) THEN GoesOn(x, p, disk[p]) ELSE Gone
<1>1. /\ p \in Peers /\ RootOf(disk[p], p) /\ now \in Nat /\ tickets \subseteq Ticket
      /\ late # {} => lost
  BY PeopleAssumption DEF Joins, TicketsOK, Parts, RestOK, GrantsOK
<1>2. UNCHANGED <<now, disk, tickets, late, lost>> /\ proc' = [proc EXCEPT ![k] = y]
  BY DEF Resolve, Parts
<1>3. TicketsOK'
  BY <1>1, <1>2, TicketsFrame
<1>4. /\ x \in Process /\ x.code \in tickets /\ x.code # None /\ x.kind = "join"
      /\ x.cert = None
  BY DEF Resolve, Parts, ProcessOK, Joins, JoinOK
<1> HIDE DEF x
<1>5. Gone.phase # "daemon"
  BY DEF Gone, NewProcess
<1>6. JoinOK(k, y) /\ y.phase # "daemon"
  BY <1>1, <1>4, <1>5, GoneJoinOK, AsksToJoinJoinOK, GoesOnWaits
<1> QED
  BY <1>2, <1>3, <1>6, OneJoin DEF Joins

\* The certificate that comes is for the network, the peer and the root of the code,
\* and the code expires first.
LEMMA AnswerJoins ==
  ASSUME Parts, Joins, NEW k \in Procs, NEW d \in Procs, AnswerJoin(k, d)
  PROVE  Joins'
<1> DEFINE p == Owner[k]
           x == proc[k]
           c == Sign(d, p)
           z == [x EXCEPT !.cert = c]
           y == IF Redeemable(d, x.code.token) THEN z ELSE Gone
<1>1. now \in Nat /\ tickets \subseteq Ticket /\ (late # {} => lost)
  BY DEF Joins, TicketsOK, Parts, RestOK, GrantsOK
<1>2. UNCHANGED <<now, disk, tickets, late, lost>> /\ proc' = [proc EXCEPT ![k] = y]
  BY DEF AnswerJoin, Parts
<1>3. TicketsOK'
  BY <1>1, <1>2, TicketsFrame
<1>4. /\ x \in Process /\ x.code \in tickets /\ x.phase = "joining" /\ JoinOK(k, x)
      /\ Owner[d] = x.code.issuer
  BY DEF AnswerJoin, Parts, ProcessOK, Joins, JoinOK
<1>5. ASSUME Redeemable(d, x.code.token)
      PROVE  c.network = x.code.network /\ c.expires >= x.code.expires
  <2>1. proc[d].mem # None /\ proc[d].mem.issuer = Owner[d]
    BY <1>5 DEF Redeemable, IsRoot
  <2>2. RootOf(proc[d].mem, Owner[d]) /\ proc[d].mem.network = proc[d].network
    BY <2>1 DEF Joins, JoinOK
  <2>3. PICK ticket \in tickets : ticket.issuer = Owner[d] /\ ticket.network = proc[d].network
    BY <2>1, <2>2 DEF RootOf, InvitesInto
  <2>4. x.code.network = proc[d].network
    BY <1>4, <2>3 DEF Joins, TicketsOK
  <2>5. x.code.expires <= now + InviteTtl /\ x.code.expires \in Nat
    BY <1>1, <1>4 DEF Joins, TicketsOK, Ticket
  <2> QED
    BY <1>1, <2>4, <2>5, BoundAssumption, TtlAssumption DEF Sign
<1>6. c.peer = p /\ c.issuer = Owner[d]
  BY DEF Sign
<1> HIDE DEF c
<1>7. /\ z.phase = "joining" /\ z.kind = x.kind /\ z.code = x.code /\ z.mem = x.mem
      /\ z.network = x.network /\ z.cert = c
  BY <1>4 DEF Process
<1> HIDE DEF x, z
<1>8. Redeemable(d, x.code.token) => JoinOK(k, z)
  BY <1>4, <1>5, <1>6, <1>7 DEF JoinOK
<1>9. JoinOK(k, y) /\ y.phase # "daemon"
  BY <1>7, <1>8, GoneJoinOK DEF Gone, NewProcess
<1> QED
  BY <1>2, <1>3, <1>9, OneJoin DEF Joins

\* A certificate that arrives is one of another root, and it is the command line
\* that waits for it.
LEMMA AcceptJoins ==
  ASSUME Parts, Joins, NEW k \in Procs, Accept(k)
  PROVE  /\ Joins'
         /\ \/ disk'[Owner[k]] # None
            \/ ~TicketVerifies(proc[k].code)
<1> DEFINE p == Owner[k]
           x == proc[k]
           ok == TicketVerifies(x.code) /\ Verifies(x.cert, x.code.network, p, x.code.issuer)
<1>1. /\ p \in Peers /\ now \in Nat /\ tickets \subseteq Ticket /\ (late # {} => lost)
      /\ disk \in [Peers -> Certificate \cup {None}]
  BY PeopleAssumption DEF Joins, TicketsOK, Parts, RestOK, GrantsOK, DiskOK
<1>2. /\ x.cert # None /\ x.cert \in Certificate /\ x.cert.issuer # p /\ x.code \in tickets
      /\ x.kind = "join" /\ x.phase = "joining" /\ JoinOK(k, x)
  BY DEF Accept, Parts, ProcessOK, Process, Joins, JoinOK
<1>3. UNCHANGED <<now, tickets, late, lost>> /\ proc' = [proc EXCEPT ![k] = Gone]
  BY <1>2 DEF Accept
<1>4. disk' = IF ok THEN [disk EXCEPT ![p] = x.cert] ELSE disk
  BY <1>2 DEF Accept
<1>5. ~ok => ~TicketVerifies(x.code)
  <2> SUFFICES ASSUME TicketVerifies(x.code) PROVE ok
    OBVIOUS
  <2>1. x.code.expires \in Nat /\ x.cert.expires \in Nat
    BY <1>1, <1>2 DEF Ticket, Certificate
  <2> QED
    BY <1>1, <1>2, <2>1 DEF JoinOK, TicketVerifies, Verifies
<1> HIDE DEF ok, x
<1>6. \A q \in Peers : disk'[q] = disk[q] \/ (q = p /\ disk'[q] = x.cert)
  BY <1>1, <1>4
<1>7. TicketsOK'
  <2>1. ASSUME NEW q \in Peers PROVE RootOf(disk[q], q)'
    <3>1. RootOf(disk[q], q)
      BY DEF Joins, TicketsOK
    <3> QED
      BY <1>2, <1>3, <1>6, <3>1 DEF RootOf, InvitesInto
  <2>2. \A ticket \in tickets : disk'[ticket.issuer] # None
    BY <1>1, <1>2, <1>6 DEF Joins, TicketsOK, Ticket
  <2> QED
    BY <1>1, <1>3, <2>1, <2>2 DEF Joins, TicketsOK
<1>8. Gone.phase # "daemon"
  BY DEF Gone, NewProcess
<1>9. Joins'
  BY <1>3, <1>7, <1>8, GoneJoinOK, OneJoin DEF Joins
<1>10. ok => disk'[p] # None
  BY <1>1, <1>2, <1>4
<1> QED
  BY <1>5, <1>9, <1>10 DEF x

\* A root that is founded has invited nobody before.
LEMMA InviteJoins ==
  ASSUME Parts, Joins, NEW d \in Procs, NEW t \in Tokens, Invite(d, t)
  PROVE  Joins'
<1> DEFINE p == Owner[d]
           n == proc[d].network
           c == RootMembership(d)
           y == [proc[d] EXCEPT !.mem = c]
           new == [ token |-> t, network |-> n, issuer |-> p, expires |-> now + InviteTtl ]
<1>1. /\ p \in Peers /\ proc[d] \in Process /\ JoinOK(d, proc[d]) /\ now \in Nat
      /\ tickets \subseteq Ticket /\ disk \in [Peers -> Certificate \cup {None}]
      /\ proc[d].phase = "daemon" /\ (late # {} => lost)
  BY PeopleAssumption DEF Parts, Joins, TicketsOK, RestOK, GrantsOK, DiskOK, Invite
<1>2. /\ UNCHANGED <<now, late, lost>>
      /\ proc' = [proc EXCEPT ![d] = y]
      /\ disk' = IF c = proc[d].mem THEN disk ELSE [disk EXCEPT ![p] = c]
      /\ tickets' = tickets \cup {new}
      /\ c # None /\ c.issuer = p
  BY DEF Invite, IsRoot
<1>3. c.network = n /\ (c # proc[d].mem => proc[d].mem = None)
  BY <1>1, <1>2 DEF RootMembership, JoinOK
<1>4. \A ticket \in tickets : ticket.issuer = p => ticket.network = n
  <2>1. CASE proc[d].mem = None
    BY <1>1, <2>1 DEF JoinOK
  <2>2. CASE proc[d].mem # None
    <3>1. c = proc[d].mem /\ RootOf(c, p)
      BY <1>1, <2>2 DEF RootMembership, JoinOK
    <3>2. PICK s \in tickets : s.issuer = p /\ s.network = n
      BY <1>2, <1>3, <3>1 DEF RootOf, InvitesInto
    <3> QED
      BY <3>2 DEF Joins, TicketsOK
  <2> QED
    BY <2>1, <2>2
<1>5. new \in Ticket /\ new.issuer = p /\ new.network = n /\ new.expires = now + InviteTtl
  BY <1>1, BoundAssumption DEF Ticket, Process
<1> HIDE DEF new, c
<1>6. /\ y.mem = c /\ y.phase = "daemon" /\ y.kind = proc[d].kind /\ y.network = n
      /\ y.code = proc[d].code /\ y.cert = proc[d].cert
  BY <1>1 DEF Process
<1> HIDE DEF y, n
<1>7. ASSUME NEW q, NEW e, RootOf(e, q) \/ (q = p /\ e = c) PROVE RootOf(e, q)'
  BY <1>2, <1>3, <1>5, <1>7 DEF RootOf, InvitesInto
<1>8. \A q \in Peers : disk'[q] = disk[q] \/ (q = p /\ disk'[q] = c)
  BY <1>1, <1>2
<1>9. disk'[p] # None
  <2>1. CASE c = proc[d].mem
    <3>1. PICK s \in tickets : s.issuer = p
      BY <1>1, <1>2, <2>1 DEF JoinOK, RootOf, InvitesInto
    <3> QED
      BY <1>2, <2>1, <3>1 DEF Joins, TicketsOK
  <2>2. CASE c # proc[d].mem
    BY <1>1, <1>2, <2>2
  <2> QED
    BY <2>1, <2>2
<1>10. TicketsOK'
  <2>1. ASSUME NEW q \in Peers PROVE RootOf(disk[q], q)'
    <3>1. RootOf(disk[q], q)
      BY DEF Joins, TicketsOK
    <3> QED
      BY <1>7, <1>8, <3>1
  <2>2. \A s, ticket \in tickets' : s.issuer = ticket.issuer => s.network = ticket.network
    BY <1>2, <1>4, <1>5 DEF Joins, TicketsOK
  <2>3. \A ticket \in tickets' : disk'[ticket.issuer] # None
    BY <1>1, <1>2, <1>5, <1>8, <1>9 DEF Joins, TicketsOK, Ticket
  <2>4. \A ticket \in tickets' : ticket.expires <= now' + InviteTtl
    BY <1>1, <1>2, <1>5, BoundAssumption DEF Joins, TicketsOK, Ticket
  <2> QED
    BY <1>1, <1>2, <2>1, <2>2, <2>3, <2>4 DEF TicketsOK
<1>11. \A l \in Procs : proc'[l] = IF l = d THEN y ELSE proc[l]
  BY <1>2 DEF Parts
<1>12. OnePerPeer'
  BY <1>1, <1>6, <1>11 DEF Joins, OnePerPeer
<1>13. ASSUME NEW l \in Procs PROVE JoinOK(l, proc[l])'
  <2>1. JoinOK(l, proc[l])
    BY DEF Joins
  <2>2. /\ proc'[l].phase = proc[l].phase /\ proc'[l].kind = proc[l].kind
        /\ proc'[l].network = proc[l].network /\ proc'[l].code = proc[l].code
        /\ proc'[l].cert = proc[l].cert
        /\ proc'[l].mem = IF l = d THEN c ELSE proc[l].mem
    BY <1>1, <1>6, <1>11 DEF n
  <2>3. RootOf(proc[l].mem, Owner[l])'
    BY <1>7, <2>1, <2>2 DEF JoinOK
  <2>4. \A ticket \in tickets' :
          proc'[l].phase = "daemon" /\ Owner[l] = ticket.issuer => proc'[l].mem # None
    BY <1>1, <1>2, <1>5, <2>1, <2>2 DEF JoinOK, Joins, OnePerPeer
  <2>5. proc'[l].mem # None => proc'[l].mem.network = proc'[l].network
    BY <1>3, <2>1, <2>2 DEF JoinOK, n
  <2> QED
    BY <1>2, <2>1, <2>2, <2>3, <2>4, <2>5 DEF JoinOK
<1> QED
  BY <1>10, <1>12, <1>13 DEF Joins

\* Steps that leave processes, files and tickets alone.
LEMMA StillJoins ==
  ASSUME Parts, Joins, UNCHANGED <<disk, tickets, proc>>, now' \in Nat, now' >= now,
         late' # {} => lost'
  PROVE  Joins'
<1>1. now \in Nat /\ tickets \subseteq Ticket
  BY DEF Parts, RestOK, GrantsOK
<1>2. TicketsOK'
  BY <1>1, TicketsFrame
<1>3. ASSUME NEW l \in Procs PROVE JoinOK(l, proc[l])'
  <2>1. JoinOK(l, proc[l])
    BY DEF Joins
  <2> QED
    BY <2>1 DEF JoinOK, RootOf, InvitesInto
<1> QED
  BY <1>2, <1>3 DEF Joins, OnePerPeer

\* The steps of the clock and of answers nobody waits for.
LEMMA LateOrTick ==
  ASSUME Parts, Joins, (\E r \in late, d \in Procs : AnswerLate(r, d)) \/ Tick \/ UNCHANGED vars
  PROVE  /\ UNCHANGED <<disk, tickets, proc>> /\ now' \in Nat /\ now' >= now
         /\ late' # {} => lost'
         /\ lost => lost'
<1>1. now \in Nat /\ (late # {} => lost)
  BY DEF Parts, RestOK, Joins, TicketsOK
<1> QED
  BY <1>1 DEF AnswerLate, Tick, vars

LEMMA GiveUpJoins ==
  ASSUME Parts, Joins, NEW k \in Procs, GiveUp(k) \/ Shutdown(k)
  PROVE  Joins'
<1>1. /\ proc' = [proc EXCEPT ![k] = Gone]
      /\ UNCHANGED <<now, disk, tickets>> /\ (late' # {} => lost')
  BY DEF GiveUp, Shutdown, Joins, TicketsOK
<1> QED
  BY <1>1, EndJoins

LEMMA NextJoins ==
  ASSUME Parts, Joins, [Next]_vars
  PROVE  Joins'
BY LaunchJoins, GiveUpJoins, ResolveJoins, AnswerJoins, AcceptJoins, InviteJoins, LateOrTick,
   StillJoins DEF Next, ProcStep

-----------------------------------------------------------------------------
(* Tokens that are used up *)

\* The witness of an admission x that is not wasted.
UnderWay(k, x) ==
  /\ Owner[k] = x[3] /\ proc[k].cert # None
  /\ proc[k].cert.issuer = x[1] /\ proc[k].code.token = x[2]

\* An admission stays well spent in a step that takes no certificate under way, or
\* leaves a membership behind, a loss or a ticket that has expired.
LEMMA Spent ==
  ASSUME Parts, Joins, AdmissionNotWasted, tickets \subseteq tickets', lost => lost',
         now' \in Nat, now' >= now,
         \A p \in Peers : disk[p] # None => disk'[p] # None,
         \A k \in Procs : proc[k].cert # None =>
           \/ proc'[k].cert = proc[k].cert /\ proc'[k].code = proc[k].code
           \/ lost' \/ disk'[Owner[k]] # None \/ ~TicketVerifies(proc[k].code)
  PROVE  \A x \in admitted :
           \/ lost' \/ disk'[x[3]] # None
           \/ \E k \in Procs : UnderWay(k, x)'
           \/ \E ticket \in tickets' : ticket.token = x[2] /\ ~TicketVerifies(ticket)'
<1> SUFFICES ASSUME NEW x \in admitted, ~lost', ~(disk'[x[3]] # None)
             PROVE  \/ \E k \in Procs : UnderWay(k, x)'
                    \/ \E ticket \in tickets' : ticket.token = x[2] /\ ~TicketVerifies(ticket)'
  OBVIOUS
<1>1. x[3] \in Peers /\ now \in Nat /\ tickets \subseteq Ticket
  BY DEF Parts, GrantsOK, RestOK
<1>2. ASSUME NEW ticket \in tickets, ~TicketVerifies(ticket)
      PROVE  ticket \in tickets' /\ ~TicketVerifies(ticket)'
  <2>1. ticket.expires \in Nat
    BY <1>1 DEF Ticket
  <2> QED
    BY <1>1, <1>2, <2>1 DEF TicketVerifies
<1>3. CASE \E k \in Procs : UnderWay(k, x)
  <2>1. PICK k \in Procs : UnderWay(k, x)
    BY <1>3
  <2>2. CASE proc'[k].cert = proc[k].cert /\ proc'[k].code = proc[k].code
    BY <2>1, <2>2 DEF UnderWay
  <2>3. CASE ~TicketVerifies(proc[k].code)
    <3>1. proc[k].code \in tickets
      BY <2>1, NoneAssumption DEF UnderWay, Joins, JoinOK, Parts, ProcessOK
    <3> QED
      BY <1>2, <2>1, <2>3, <3>1 DEF UnderWay
  <2> QED
    BY <2>1, <2>2, <2>3 DEF UnderWay
<1>4. CASE \E ticket \in tickets : ticket.token = x[2] /\ ~TicketVerifies(ticket)
  BY <1>2, <1>4
<1> QED
  BY <1>1, <1>3, <1>4 DEF AdmissionNotWasted, UnderWay

\* What a step leaves of the certificates that are under way.
Kept ==
  /\ tickets \subseteq tickets' /\ (lost => lost') /\ now' \in Nat /\ now' >= now
  /\ \A p \in Peers : disk[p] # None => disk'[p] # None
  /\ \A k \in Procs : proc[k].cert # None =>
       \/ proc'[k].cert = proc[k].cert /\ proc'[k].code = proc[k].code
       \/ lost' \/ disk'[Owner[k]] # None \/ ~TicketVerifies(proc[k].code)

LEMMA OthersKept ==
  ASSUME Parts, NEW k \in Procs, NEW y, proc' = [proc EXCEPT ![k] = y],
         UNCHANGED <<now, disk, tickets>>, lost => lost',
         proc[k].cert = None \/ lost' \/ disk[Owner[k]] # None \/ ~TicketVerifies(proc[k].code)
  PROVE  Kept
<1>1. \A l \in Procs : l # k => proc'[l] = proc[l]
  BY DEF Parts
<1> QED
  BY <1>1 DEF Kept, Parts, RestOK

LEMMA AcceptKept ==
  ASSUME Parts, Joins, NEW k \in Procs, Accept(k)
  PROVE  Kept
<1>1. \A l \in Procs : l # k => proc'[l] = proc[l]
  BY DEF Accept, Parts
<1>2. disk'[Owner[k]] # None \/ ~TicketVerifies(proc[k].code)
  BY AcceptJoins
<1>3. \A p \in Peers : disk[p] # None => disk'[p] # None
  <2>1. proc[k].cert # None /\ Owner[k] \in Peers /\ disk \in [Peers -> Certificate \cup {None}]
    BY PeopleAssumption DEF Accept, Parts, DiskOK
  <2>2. disk' = [disk EXCEPT ![Owner[k]] = proc[k].cert] \/ disk' = disk
    BY DEF Accept
  <2> QED
    BY <2>1, <2>2
<1>4. UNCHANGED <<now, tickets, lost>> /\ now \in Nat
  BY DEF Accept, Parts, RestOK
<1> QED
  BY <1>1, <1>2, <1>3, <1>4 DEF Kept

LEMMA InviteKept ==
  ASSUME Parts, Joins, NEW d \in Procs, NEW t \in Tokens, Invite(d, t)
  PROVE  Kept
<1> DEFINE c == RootMembership(d)
<1>1. /\ UNCHANGED <<now, lost>> /\ now \in Nat /\ tickets \subseteq tickets'
      /\ proc' = [proc EXCEPT ![d] = [@ EXCEPT !.mem = c]]
      /\ disk' = disk \/ disk' = [disk EXCEPT ![Owner[d]] = c]
      /\ c # None
  BY DEF Invite, IsRoot, Parts, RestOK
<1> HIDE DEF c
<1>2. \A p \in Peers : disk[p] # None => disk'[p] # None
  BY <1>1, PeopleAssumption DEF Parts, DiskOK
<1>3. \A k \in Procs : proc'[k].cert = proc[k].cert /\ proc'[k].code = proc[k].code
  BY <1>1 DEF Parts, Process
<1> QED
  BY <1>1, <1>2, <1>3 DEF Kept

LEMMA NextKept ==
  ASSUME Parts, Joins, [Next]_vars
  PROVE  Kept
<1>1. \A k \in Procs : proc[k].phase # "joining" => proc[k].cert = None
  BY DEF Parts, ProcessOK
<1>2. ASSUME NEW k \in Procs, LaunchAny(k) PROVE Kept
  <2>1. /\ proc[k].cert = None /\ UNCHANGED <<now, disk, tickets, lost>>
        /\ \E y : proc' = [proc EXCEPT ![k] = y]
    BY <1>1, <1>2 DEF LaunchAny, Launch, Ended
  <2> QED
    BY <2>1, OthersKept
<1>3. ASSUME NEW k \in Procs, Shutdown(k) \/ GiveUp(k) PROVE Kept
  <2>1. /\ proc[k].cert = None \/ lost'
        /\ lost => lost'
        /\ proc' = [proc EXCEPT ![k] = Gone]
    BY <1>1, <1>3 DEF Shutdown, GiveUp
  <2>2. UNCHANGED <<now, disk, tickets>>
    BY <1>3 DEF Shutdown, GiveUp
  <2> QED
    BY <2>1, <2>2, OthersKept
<1>4. ASSUME NEW k \in Procs, NEW d \in Procs, Resolve(k, d) \/ AnswerJoin(k, d) PROVE Kept
  <2>1. /\ proc[k].cert = None /\ UNCHANGED <<now, disk, tickets, lost>>
        /\ \E y : proc' = [proc EXCEPT ![k] = y]
    BY <1>1, <1>4 DEF Resolve, AnswerJoin
  <2> QED
    BY <2>1, OthersKept
<1>5. CASE (\E r \in late, d \in Procs : AnswerLate(r, d)) \/ Tick \/ UNCHANGED vars
  BY <1>5, LateOrTick DEF Kept
<1> QED
  BY <1>2, <1>3, <1>4, <1>5, AcceptKept, InviteKept DEF Next, ProcStep

\* Whoever is admitted in a step waits for the answer, or has given up.
LEMMA NewAdmission ==
  ASSUME Parts, Joins, [Next]_vars, NEW x \in admitted' \ admitted
  PROVE  lost' \/ \E k \in Procs : UnderWay(k, x)'
<1>1. ASSUME NEW k \in Procs, NEW d \in Procs, AnswerJoin(k, d)
      PROVE  UnderWay(k, x)'
  <2> DEFINE t == proc[k].code.token
             c == Sign(d, Owner[k])
             y == [proc[k] EXCEPT !.cert = c]
  <2>1. Redeemable(d, t) /\ x = <<Owner[d], t, Owner[k]>>
    BY <1>1 DEF AnswerJoin, Admit
  <2>2. /\ proc' = [proc EXCEPT ![k] = IF Redeemable(d, t) THEN y ELSE Gone]
        /\ proc[k] \in Process /\ now \in Nat
    BY <1>1 DEF AnswerJoin, Parts, RestOK
  <2>3. c \in Certificate /\ c # None /\ c.issuer = Owner[d]
    <3>1. proc[d] \in Process
      BY DEF Parts
    <3>2. /\ Owner[k] \in Peers /\ Owner[d] \in Peers /\ now + CertTtl \in Nat
          /\ proc[d].network \in Networks
      BY <2>2, <3>1, PeopleAssumption, BoundAssumption DEF Process
    <3>3. c \in Certificate /\ c.issuer = Owner[d]
      BY <3>2 DEF Sign, Certificate
    <3> QED
      BY <3>3, NoneAssumption
  <2> HIDE DEF c
  <2>4. y.cert = c /\ y.code = proc[k].code
    BY <2>2 DEF Process
  <2> HIDE DEF y, t
  <2>5. proc'[k] = y
    BY <2>1, <2>2 DEF Parts
  <2> QED
    BY <2>1, <2>3, <2>4, <2>5 DEF UnderWay, t
<1>2. ASSUME NEW r \in late, NEW d \in Procs, AnswerLate(r, d)
      PROVE  lost'
  BY <1>2 DEF AnswerLate, Joins, TicketsOK
<1>3. CASE UNCHANGED admitted
  BY <1>3
<1> QED
  BY <1>1, <1>2, <1>3 DEF Next, LaunchAny, Launch, Shutdown, ProcStep, GiveUp, Resolve, Accept,
       Invite, Tick, vars

LEMMA NextNotWasted ==
  ASSUME Parts, Joins, AdmissionNotWasted, [Next]_vars
  PROVE  AdmissionNotWasted'
<1>1. Kept
  BY NextKept
<1>2. \A x \in admitted :
           \/ lost' \/ disk'[x[3]] # None
           \/ \E k \in Procs : UnderWay(k, x)'
           \/ \E ticket \in tickets' : ticket.token = x[2] /\ ~TicketVerifies(ticket)'
  BY <1>1, Spent DEF Kept
<1>3. \A x \in admitted' \ admitted : lost' \/ \E k \in Procs : UnderWay(k, x)'
  BY NewAdmission
<1> QED
  BY <1>2, <1>3 DEF AdmissionNotWasted, UnderWay, TicketVerifies

-----------------------------------------------------------------------------
\* A root invites into one network for good, and the certificate that it answers
\* with is the one that was asked for and outlives the ticket.
THEOREM JoinsMatching == Spec => []JoinsMatch
<1>1. Init => Parts /\ Joins
  BY InitParts, InitJoins
<1>2. Parts /\ Joins /\ [Next]_vars => (Parts /\ Joins)'
  BY NextParts, NextJoins
<1> QED
  BY <1>1, <1>2, JoinsParts, PTL DEF Spec

\* No token is used up for nothing: whoever was admitted has a membership, or its
\* certificate is under way, unless a message was lost or the ticket expired.
THEOREM NotWasted == Spec => []AdmissionNotWasted
<1> DEFINE I == Parts /\ Joins /\ AdmissionNotWasted
<1>1. Init => I
  BY InitParts, InitJoins DEF Init, AdmissionNotWasted
<1>2. I /\ [Next]_vars => I'
  BY NextParts, NextJoins, NextNotWasted
<1> QED
  BY <1>1, <1>2, PTL DEF Spec
=============================================================================
