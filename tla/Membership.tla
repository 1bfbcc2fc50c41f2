----------------------------- MODULE Membership -----------------------------
(***************************************************************************)
(* How peers get into a network: invitations, their redemption, and the    *)
(* certificates that come of it.  MembershipManager, JoinTicket and        *)
(* JoinHint (crates/agent-mesh/src/membership.rs), join, resolve_join_hint *)
(* and the JoinNetwork and ResolveInvite arms of handle_inbound_request    *)
(* (network.rs), and the processes that hold a manager: the daemon, the    *)
(* command line's join (main.rs), and the phone's host thread (mobile.rs), *)
(* which joins first if it must and then runs the daemon.                  *)
(*                                                                         *)
(* A manager reads membership.json once, when its process opens it, and    *)
(* invites.json in every call.  Keys and signatures are sound: what a      *)
(* certificate says was said by its issuer.                                *)
(***************************************************************************)
EXTENDS Integers, FiniteSets

CONSTANTS
  Peers,
  Networks,
  DefaultNetwork,  \* the network of a node that was told of none
  Tokens,          \* the secrets of invitations
  Procs,           \* places for processes
  Owner,           \* Owner[k]: the peer whose state directory k works on
  None,            \* no certificate, ticket, network or peer
  InviteTtl,       \* how long an invitation is good
  CertTtl,         \* how long a certificate is good
  Inviters,        \* bound: the peers whose users invite
  Settings,        \* bound: the networks that nodes are told of, None for no word of it
  MaxLaunches,     \* bound: processes started
  MaxTime          \* bound: the clock

ASSUME PeopleAssumption ==
  /\ DefaultNetwork \in Networks
  /\ Owner \in [Procs -> Peers]
  /\ Inviters \subseteq Peers
  /\ Settings \subseteq Networks \cup {None}
  /\ None \notin Peers /\ None \notin Networks
ASSUME BoundAssumption ==
  /\ InviteTtl \in Nat /\ CertTtl \in Nat /\ MaxTime \in Nat
  /\ MaxLaunches \in Nat

\* An invitation is good for a day at most, a certificate for a year.
ASSUME TtlAssumption == InviteTtl <= CertTtl

VARIABLES
  now,
  disk,      \* disk[p]: the certificate in membership.json of p, or None
  grants,    \* grants[p]: invites.json of p
  tickets,   \* the tickets that were handed out
  proc,      \* proc[k]: the process k, or the last one in its place
  late,      \* requests to join whose sender has given up
  admitted,  \* history: <<r, t, p>> where r admitted p for the token t
  lost,      \* history: a request or its answer was lost
  launches

vars == <<now, disk, grants, tickets, proc, late, admitted, lost, launches>>

Certificate == [ network : Networks, peer : Peers, issuer : Peers, expires : Nat ]
Ticket == [ token : Tokens, network : Networks, issuer : Peers, expires : Nat ]
Grant == [ token : Tokens, expires : Nat, usedBy : Peers \cup {None} ]
Request == [ ticket : Ticket, peer : Peers ]

ASSUME NoneAssumption == None \notin Certificate /\ None \notin Ticket

\* A process: what it was started as, with which network and which code, how
\* far it is, the network and the membership its manager holds, and the
\* certificate in the answer that has come.
Process ==
  [ kind : {"join", "daemon", "phone"}, config : Networks \cup {None},
    code : Ticket \cup {None}, phase : {"off", "resolving", "joining", "daemon"},
    network : Networks, mem : Certificate \cup {None}, cert : Certificate \cup {None} ]

NewProcess(kind, config, code, phase) ==
  [ kind |-> kind, config |-> config, code |-> code, phase |-> phase,
    network |-> DefaultNetwork, mem |-> None, cert |-> None ]

\* No process; one that has failed leaves nothing behind.
Gone == NewProcess("daemon", None, None, "off")

Init ==
  /\ now = 0
  /\ disk = [p \in Peers |-> None]
  /\ grants = [p \in Peers |-> {}]
  /\ tickets = {}
  /\ proc = [k \in Procs |-> Gone]
  /\ late = {} /\ admitted = {} /\ lost = FALSE /\ launches = 0

Ended(k) == proc[k].phase = "off"
Awaits(k) == proc[k].phase \in {"resolving", "joining"}

-----------------------------------------------------------------------------
(* Certificates, tickets and the file *)

\* verify_certificate: c is a certificate of this network for this peer by root.
Verifies(c, network, peer, root) ==
  c.network = network /\ c.peer = peer /\ c.issuer = root /\ c.expires > now

TicketVerifies(ticket) == ticket.expires > now

\* The membership c of p can be opened by a node of that network.
Opens(c, p, network) ==
  c = None \/ (Verifies(c, c.network, p, c.issuer) /\ c.network = network)

\* The network of a node: as told, as in its membership c, or the default.
ChosenNetwork(c, config) ==
  IF config # None THEN config ELSE IF c # None THEN c.network ELSE DefaultNetwork

\* Mutant: any root of a network of that name is taken for one's own.
AuthorizesByName(k, peer, c) ==
  proc[k].mem # None /\ c # None /\ Verifies(c, proc[k].mem.network, peer, c.issuer)

\* The process k takes the certificate c that peer sends with an envelope.
Authorizes(k, peer, c) ==
  proc[k].mem # None /\ c # None
    /\ Verifies(c, proc[k].mem.network, peer, proc[k].mem.issuer)

-----------------------------------------------------------------------------
(* Processes *)

\* The process x of p runs the daemon, its membership being c.
RunsDaemon(x, p, c) ==
  LET network == ChosenNetwork(c, x.config)
  IN  IF Opens(c, p, network)
        THEN [x EXCEPT !.phase = "daemon", !.network = network, !.mem = c, !.cert = None]
        ELSE Gone

AsksToJoin(x, p, c) ==
  IF Opens(c, p, x.code.network)
    THEN [x EXCEPT !.phase = "joining", !.network = x.code.network, !.mem = c]
    ELSE Gone

\* The process x of p goes on with its ticket, if it has one.  The phone redeems
\* it only if it has no membership c yet.
GoesOn(x, p, c) ==
  IF x.code # None /\ ~TicketVerifies(x.code) THEN Gone
  ELSE IF x.code # None /\ (x.kind = "join" \/ c = None) THEN AsksToJoin(x, p, c)
  ELSE RunsDaemon(x, p, c)

\* A process is started; a code in the short form is resolved by its issuer
\* first, whether it will be redeemed or not.
Launch(k, kind, config, code, short) ==
  /\ Ended(k) /\ launches < MaxLaunches
  /\ launches' = launches + 1
  /\ proc' = [proc EXCEPT ![k] =
       IF short THEN NewProcess(kind, config, code, "resolving")
       ELSE GoesOn(NewProcess(kind, config, code, "off"), Owner[k], disk[Owner[k]])]
  /\ UNCHANGED <<now, disk, grants, tickets, late, admitted, lost>>

\* The daemon k is shut down.
Shutdown(k) ==
  /\ proc[k].phase = "daemon"
  /\ proc' = [proc EXCEPT ![k] = Gone]
  /\ UNCHANGED <<now, disk, grants, tickets, late, admitted, lost, launches>>

\* The process k gives up on its request or is killed; the request may still be
\* handled, or its answer be under way.
GiveUp(k) ==
  /\ Awaits(k)
  /\ proc' = [proc EXCEPT ![k] = Gone]
  /\ late' = IF proc[k].phase = "joining" /\ proc[k].cert = None
               THEN late \cup {[ticket |-> proc[k].code, peer |-> Owner[k]]} ELSE late
  /\ lost' = TRUE
  /\ UNCHANGED <<now, disk, grants, tickets, admitted, launches>>

-----------------------------------------------------------------------------
(* The issuer *)

IsRoot(d, c) == c # None /\ c.issuer = Owner[d]

\* Mutant: whoever invites founds a network of its own.
AlwaysFounds(d) ==
  [ network |-> proc[d].network, peer |-> Owner[d], issuer |-> Owner[d], expires |-> now + CertTtl ]

\* The membership of the daemon d once ensure_root is through.
RootMembership(d) ==
  IF proc[d].mem # None THEN proc[d].mem
  ELSE [ network |-> proc[d].network, peer |-> Owner[d], issuer |-> Owner[d],
         expires |-> now + CertTtl ]

\* invite.create: a node without a membership founds its network; the root alone
\* invites.  Grants that were used or have expired are dropped.
Invite(d, t) ==
  /\ proc[d].phase = "daemon" /\ Owner[d] \in Inviters
  /\ \A ticket \in tickets : ticket.token # t
  /\ IsRoot(d, RootMembership(d))
  /\ LET p == Owner[d]
         c == RootMembership(d)
         kept == { g \in grants[p] : g.expires > now /\ g.usedBy = None }
     IN  /\ disk' = IF c = proc[d].mem THEN disk ELSE [disk EXCEPT ![p] = c]
         /\ proc' = [proc EXCEPT ![d] = [@ EXCEPT !.mem = c]]
         /\ grants' = [grants EXCEPT ![p] =
              kept \cup {[token |-> t, expires |-> now + InviteTtl, usedBy |-> None]}]
         /\ tickets' = tickets \cup
              {[token |-> t, network |-> proc[d].network, issuer |-> p, expires |-> now + InviteTtl]}
  /\ UNCHANGED <<now, late, admitted, lost, launches>>

\* Mutant: a grant is good until it expires.
GrantUnexpired(d, t) == { g \in grants[Owner[d]] : g.token = t /\ g.expires > now }

\* The grant that d finds for the token t, if it can be used.
UsableGrant(d, t) ==
  { g \in grants[Owner[d]] : g.token = t /\ g.expires > now /\ g.usedBy = None }

Redeemable(d, t) == IsRoot(d, proc[d].mem) /\ UsableGrant(d, t) # {}

\* ResolveInvite: the issuer's daemon gives the ticket that belongs to the token.
Resolve(k, d) ==
  /\ proc[k].phase = "resolving"
  /\ proc[d].phase = "daemon" /\ Owner[d] = proc[k].code.issuer /\ Owner[d] # Owner[k]
  /\ proc' = [proc EXCEPT ![k] =
       IF Redeemable(d, @.code.token) THEN GoesOn(@, Owner[k], disk[Owner[k]]) ELSE Gone]
  /\ UNCHANGED <<now, disk, grants, tickets, late, admitted, lost, launches>>

\* Mutant: the certificate is for the default network.
SignDefault(d, p) ==
  [ network |-> DefaultNetwork, peer |-> p, issuer |-> Owner[d], expires |-> now + CertTtl ]

\* The certificate that d signs for p.
Sign(d, p) ==
  [ network |-> proc[d].network, peer |-> p, issuer |-> Owner[d], expires |-> now + CertTtl ]

\* Mutant: the grant that was used is written back as it was read.
NotMarked(g, p) == g

MarkedUsed(g, p) == [g EXCEPT !.usedBy = p]

\* JoinNetwork: the grant is marked used before the answer goes out.  A process
\* that joins itself answers too.  To read, change and write invites.json is one
\* step: so it is in one process, whose loop awaits nothing in between; two
\* processes of one state directory have no lock that would keep them apart.
Admit(d, t, p) ==
  /\ proc[d].phase \in {"joining", "daemon"} /\ Owner[d] # p
  /\ IF Redeemable(d, t)
       THEN /\ grants' = [grants EXCEPT ![Owner[d]] =
                 { IF g \in UsableGrant(d, t) THEN MarkedUsed(g, p) ELSE g : g \in @ }]
            /\ admitted' = admitted \cup {<<Owner[d], t, p>>}
       ELSE UNCHANGED <<grants, admitted>>

\* The issuer answers the request of k.
AnswerJoin(k, d) ==
  /\ proc[k].phase = "joining" /\ proc[k].cert = None
  /\ Owner[d] = proc[k].code.issuer
  /\ Admit(d, proc[k].code.token, Owner[k])
  /\ proc' = [proc EXCEPT ![k] =
       IF Redeemable(d, @.code.token) THEN [@ EXCEPT !.cert = Sign(d, Owner[k])] ELSE Gone]
  /\ UNCHANGED <<now, disk, tickets, late, lost, launches>>

\* The issuer answers a request nobody waits for.
AnswerLate(r, d) ==
  /\ r \in late /\ Owner[d] = r.ticket.issuer
  /\ Admit(d, r.ticket.token, r.peer)
  /\ late' = late \ {r}
  /\ UNCHANGED <<now, disk, tickets, proc, lost, launches>>

\* accept: the certificate arrives, and replaces whatever membership there is.
\* The phone's thread goes on with the daemon.
Accept(k) ==
  /\ proc[k].cert # None
  /\ LET x == proc[k]
         p == Owner[k]
     IN  IF TicketVerifies(x.code) /\ Verifies(x.cert, x.code.network, p, x.code.issuer)
           THEN /\ disk' = [disk EXCEPT ![p] = x.cert]
                /\ proc' = [proc EXCEPT ![k] =
                     IF x.kind = "join" THEN Gone
                     ELSE RunsDaemon(x, p, x.cert)]
           ELSE /\ proc' = [proc EXCEPT ![k] = Gone]
                /\ UNCHANGED disk
  /\ UNCHANGED <<now, grants, tickets, late, admitted, lost, launches>>

Tick ==
  /\ now < MaxTime
  /\ now' = now + 1
  /\ UNCHANGED <<disk, grants, tickets, proc, late, admitted, lost, launches>>

-----------------------------------------------------------------------------
\* The command line starts daemons, one per peer, and joins with the code of a
\* ticket, also beside the daemon.
LaunchAny(k) ==
  \/ /\ \A d \in Procs : Owner[d] = Owner[k] => proc[d].phase # "daemon"
     /\ \E config \in Settings : Launch(k, "daemon", config, None, FALSE)
  \/ \E code \in tickets, short \in BOOLEAN : Launch(k, "join", None, code, short)

\* What goes on without the user of k.
ProcStep(k) ==
  \/ Accept(k) \/ GiveUp(k)
  \/ \E d \in Procs : Resolve(k, d) \/ AnswerJoin(k, d)

Next ==
  \/ \E k \in Procs : LaunchAny(k) \/ Shutdown(k) \/ ProcStep(k)
  \/ \E d \in Procs, t \in Tokens : Invite(d, t)
  \/ \E r \in late, d \in Procs : AnswerLate(r, d)
  \/ Tick

Spec == Init /\ [][Next]_vars

-----------------------------------------------------------------------------
(* Properties *)

\* The types of the variables.
TypeOK ==
  /\ now \in Nat
  /\ disk \in [Peers -> Certificate \cup {None}]
  /\ grants \in [Peers -> SUBSET Grant]
  /\ tickets \subseteq Ticket
  /\ proc \in [Procs -> Process]
  /\ \A k \in Procs :
       /\ Awaits(k) => proc[k].code # None
       /\ proc[k].cert # None => proc[k].phase = "joining"
  /\ late \subseteq Request
  /\ admitted \subseteq Peers \X Tokens \X Peers
  /\ lost \in BOOLEAN /\ launches \in Nat

\* Every grant belongs to a ticket, no two have one token, and an unused one has
\* admitted nobody.
GrantsMatch ==
  /\ \A p \in Peers : \A g \in grants[p] :
       /\ \E ticket \in tickets : ticket.token = g.token
       /\ \A h \in grants[p] : g.token = h.token => g = h
       /\ g.usedBy = None => \A x \in admitted : ~(x[1] = p /\ x[2] = g.token)
  /\ \A x \in admitted : \E ticket \in tickets : ticket.token = x[2]

\* A certificate was signed for its own root or in an admission.
Signed(c) == c # None => c.peer = c.issuer \/ \E t \in Tokens : <<c.issuer, t, c.peer>> \in admitted

\* Every certificate there is was signed so, wherever it is kept.
CertificatesSigned ==
  /\ \A p \in Peers : Signed(disk[p]) /\ (disk[p] # None => disk[p].peer = p)
  /\ \A k \in Procs :
       /\ Signed(proc[k].mem) /\ Signed(proc[k].cert)
       /\ proc[k].cert # None => proc[k].cert.issuer # Owner[k]

\* A token admits at most one peer, whatever is retried, lost or restarted, and
\* although a grant that was used is forgotten (README.md:124, create_invite
\* and admit in membership.rs).
SingleUse ==
  \A x, y \in admitted : x[1] = y[1] /\ x[2] = y[2] => x[3] = y[3]

\* The invariant of the membership.
Inv == TypeOK /\ GrantsMatch /\ CertificatesSigned /\ SingleUse

\* A process takes envelopes only from the root of its network or from a peer
\* this root has admitted; the name of the network is not enough, for several
\* roots may use it (authorizes in membership.rs).
AdmittedOnly ==
  \A k, l \in Procs :
    Authorizes(k, Owner[l], proc[l].mem) =>
      \/ Owner[l] = proc[k].mem.issuer
      \/ \E t \in Tokens : <<proc[k].mem.issuer, t, Owner[l]>> \in admitted

\* Daemons are started as such, and a peer has one at a time.
OneDaemon ==
  /\ \A k \in Procs :
       /\ Awaits(k) => proc[k].kind = "join"
       /\ proc[k].phase = "daemon" => proc[k].kind = "daemon"
  /\ \A k, l \in Procs :
       proc[k].phase = "daemon" /\ proc[l].phase = "daemon" /\ Owner[k] = Owner[l] => k = l

\* The peer p invites into that network.
InvitesInto(p, network) == \E ticket \in tickets : ticket.issuer = p /\ ticket.network = network

\* A membership c that p keeps as a root is for the network it invites into.
RootOf(c, p) == c # None /\ c.issuer = p => InvitesInto(p, c.network)

\* A root invites into one network for good, which none founds beside another.
RootKeepsNetwork ==
  /\ \A s, ticket \in tickets : s.issuer = ticket.issuer => s.network = ticket.network
  /\ \A p \in Peers : RootOf(disk[p], p)
  /\ \A k \in Procs :
       /\ RootOf(proc[k].mem, Owner[k])
       /\ proc[k].mem # None => proc[k].mem.network = proc[k].network
  /\ \A ticket \in tickets :
       /\ disk[ticket.issuer] # None
       /\ \A k \in Procs :
            proc[k].phase = "daemon" /\ Owner[k] = ticket.issuer => proc[k].mem # None

\* A certificate under way is the one that its request asked for, and is good for
\* as long as the ticket.
AnswersMatch ==
  /\ \A ticket \in tickets : ticket.expires <= now + InviteTtl
  /\ \A k \in Procs :
       /\ proc[k].code # None => proc[k].code \in tickets
       /\ proc[k].cert # None =>
            /\ proc[k].cert.peer = Owner[k]
            /\ proc[k].cert.issuer = proc[k].code.issuer
            /\ proc[k].cert.network = proc[k].code.network
            /\ proc[k].cert.expires >= proc[k].code.expires
  /\ late # {} => lost

\* A root invites into one network, whatever its user joins or restarts in between,
\* and the certificate it answers with is good for whoever presents the code: accept
\* refuses it only when the ticket has expired (ensure_root, admit and accept in
\* membership.rs).
JoinsMatch == OneDaemon /\ RootKeepsNetwork /\ AnswersMatch

\* A token is used up for nothing only when a message was lost or the invitation
\* expired before the certificate arrived (accept verifies the ticket again):
\* else the peer it admitted has a membership, or the certificate is under way.
AdmissionNotWasted ==
  \A x \in admitted :
    \/ lost
    \/ disk[x[3]] # None
    \/ \E k \in Procs : Owner[k] = x[3] /\ proc[k].cert # None
                          /\ proc[k].cert.issuer = x[1] /\ proc[k].code.token = x[2]
    \/ \E ticket \in tickets : ticket.token = x[2] /\ ~TicketVerifies(ticket)

\* A membership gives way to one of another root only by a join, and to one's own
\* only by a daemon that ran on, without a membership, while the peer joined
\* (ensure_root looks at the manager's copy of membership.json, not at the file).
MembershipKept ==
  [][\A p \in Peers :
       disk[p] # None /\ disk'[p] # disk[p] =>
         \/ disk'[p].issuer # p
         \/ \E k \in Procs : Owner[k] = p /\ proc[k].phase = "daemon" /\ proc[k].mem = None]_vars
=============================================================================
