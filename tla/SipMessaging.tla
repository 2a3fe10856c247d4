--------------------------- MODULE SipMessaging ---------------------------
(***************************************************************************)
(* What the registered SIP transport carries besides calls: SMS in both    *)
(* directions and registration refreshes.  The goroutines are the callers  *)
(* of SendSMS and RefreshRegistration, the RP-ACK senders, the writer of   *)
(* the connection, the readers of Port-C and of a Port-S connection, and   *)
(* Close.                                                                  *)
(*                                                                         *)
(* Every wait of a client has a deadline: its context, or the timer of     *)
(* waitFinalSIPResponse.  The network answers a request, provisionally and *)
(* finally, when it likes or never, and delivers a message again until it  *)
(* was acknowledged.                                                       *)
(***************************************************************************)
EXTENDS SmsPdu, RegisterPolicy, FiniteSets

CONSTANTS Senders,      \* callers of SendSMS
          Ackers,       \* RP-ACK goroutines
          Refresher,    \* the caller of RefreshRegistration; refreshMu admits one
          Scenarios,    \* bounds: [texts, sends, mt, deliveries, refreshes, invites, closes, faults]
          Grants,       \* Expires and Contact headers of a refresh's 200
          Requested,    \* effectiveRegisterExpiry
          QueueCap,     \* capacity of tcpWriteCh; the code's 8
          BufferSize,   \* buffer of a response waiter; the code's 16
          MaxCSeq       \* largest CSeq; the code's 2^32 - 1

ASSUME MessagingAssumption ==
  QueueCap \in Nat \ {0} /\ BufferSize \in Nat \ {0} /\ MaxCSeq \in Nat /\ MaxCSeq > 1

Clients == Senders \cup Ackers \cup {Refresher}

\* A goroutine has one role, and None is none of them and no number.
ASSUME ClientsAssumption ==
  /\ Senders \cap Ackers = {} /\ Refresher \notin Senders \cup Ackers
  /\ None \notin Clients \cup Int

\* A header is a number or absent, and a message of the network has a number and a TPDU
\* of some type.
ASSUME InputsAssumption ==
  /\ Requested \in Nat \ {0}
  /\ \A g \in Grants : /\ g.expires \in Int \cup {None}
                       /\ \A c \in g.contacts : c.own \in BOOLEAN /\ c.expires \in Int
  /\ \A s \in Scenarios : \A m \in s.mt : m.id \in Nat /\ "type" \in DOMAIN m.tpdu

Handlers == {"portC", "portS"}

VARIABLES
  scenario,
  cs,         \* the clients
  messageMu,  \* its holder, or None
  ids,        \* Call-IDs given; 0 is that of the registration
  sends, refreshes,
  queue,      \* tcpWriteCh: tasks [client, job, n, k, call, cseq], the k-th request of job n
  writer,     \* "run" or "done"
  listener,   \* that of Port-S: "accept" or "done"
  net,        \* requests the network has and has not answered: [call, cseq]
  hs,         \* the readers: [pc, m, id], id the identity of the message m
  late,       \* StoreSMS calls nobody waits for any more
  archive,    \* what the host has stored, by message_id
  delivered,  \* how often each message was delivered
  rt,         \* the runtime: [failed, closed]
  service,    \* [closing, expires, cseq, grant]: cseq is that of s.registerRequest, grant
              \* (history) what the last published refresh was granted
  closer,
  conn,       \* a Port-S connection with an INVITE
  wire,       \* history: the tasks that were written
  granted     \* history: calls and CSeqs answered with a 2xx

sharedVars == <<messageMu, ids, sends, refreshes>>
runtimeVars == <<queue, writer, listener, rt>>
inVars == <<hs, late, archive, delivered, conn>>
vars == <<scenario, cs, sharedVars, runtimeVars, net, inVars, service, closer, wire, granted>>

-----------------------------------------------------------------------------
Idle == [pc |-> "idle", job |-> "none", n |-> 0, text |-> <<>>, total |-> 0, k |-> 0, call |-> 0,
         cseq |-> 0, sub |-> FALSE, buf |-> <<>>, done |-> "none", round |-> 0,
         retried |-> FALSE, outcome |-> "none"]

Init ==
  /\ scenario \in Scenarios
  /\ cs = [c \in Clients |-> Idle]
  /\ messageMu = None /\ ids = 0 /\ sends = 0 /\ refreshes = 0
  /\ queue = <<>> /\ writer = "run" /\ listener = "accept" /\ rt = [failed |-> FALSE, closed |-> FALSE]
  /\ net = {} /\ hs = [h \in Handlers |-> [pc |-> "read", m |-> None, id |-> None]]
  /\ late = {} /\ archive = {} /\ delivered = [m \in scenario.mt |-> 0]
  /\ service = [closing |-> FALSE, expires |-> Requested, cseq |-> 1, grant |-> None]
  /\ closer = "none" /\ wire = <<>> /\ granted = {}
  /\ conn = [open |-> FALSE, eof |-> FALSE, pending |-> FALSE, released |-> FALSE, expired |-> FALSE, final |-> "none"]

cancelled == rt.failed \/ rt.closed
Healthy == ~cancelled

-----------------------------------------------------------------------------
(* Subscriptions: a waiter is the client that subscribed to its Call-ID. *)

Subscribed(r, call, cseq) ==
  [r EXCEPT !.pc = "queue", !.call = call, !.cseq = cseq, !.sub = TRUE, !.buf = <<>>, !.done = "none"]

\* The client returns; its waiter is gone.
Returned(r, outcome) ==
  [Idle EXCEPT !.job = r.job, !.n = r.n, !.text = r.text, !.total = r.total, !.cseq = r.cseq, !.outcome = outcome]

\* publishResponse: a waiter whose buffer is full misses it.
Published(call, cseq, status) ==
  [c \in Clients |->
     IF cs[c].sub /\ cs[c].call = call /\ Len(cs[c].buf) < BufferSize
       THEN [cs[c] EXCEPT !.buf = Append(@, [cseq |-> cseq, status |-> status])] ELSE cs[c]]

-----------------------------------------------------------------------------
(* SMS: SendSMS, sendIncomingRPAck and sendSMSOnRegisteredTransport *)

Smsc == <<1, 2, 3>>
Peer == [plus |-> TRUE, digits |-> <<4, 5, 6>>]

\* The MESSAGE bodies of each text considered.  The references are random: the ones that
\* wrap around.
BodiesOf == [text \in UNION {s.texts : s \in Scenarios} |-> Bodies(Smsc, Peer, text, 255, 255)]

\* The callers are alike: one that is free makes the next call.
freeSenders == {c \in Senders : cs[c].pc = "idle"}

\* Engine "sms" and Service.SendSMS; a text that cannot be encoded is refused.
SendSMS ==
  /\ freeSenders # {} /\ sends < scenario.sends
  /\ ~service.closing /\ Healthy
  /\ \E text \in scenario.texts :
       LET bodies == BodiesOf[text]  c == CHOOSE a \in freeSenders : TRUE IN
       /\ bodies # NoParts
       /\ cs' = [cs EXCEPT ![c] = [Idle EXCEPT !.pc = "lock", !.job = "sms", !.n = sends + 1,
                                               !.text = text, !.total = Len(bodies)]]
  /\ sends' = sends + 1
  /\ UNCHANGED <<scenario, messageMu, ids, refreshes, runtimeVars, net, inVars, service, closer, wire, granted>>

\* messageCSeq++, which skips 0; it counts with the Call-IDs.
MessageCSeq(n) == 1 + ((n - 1) % MaxCSeq)

\* The next part, with a Call-ID of its own.
PartReady(r) == Subscribed([r EXCEPT !.k = @ + 1], ids + 1, MessageCSeq(ids + 1))

\* messageMu is held for all parts.
Lock(c) ==
  /\ cs[c].pc = "lock" /\ messageMu = None
  /\ messageMu' = c /\ ids' = ids + 1 /\ cs' = [cs EXCEPT ![c] = PartReady(@)]
  /\ UNCHANGED <<scenario, sends, refreshes, runtimeVars, net, inVars, service, closer, wire, granted>>

Unlocked(c) == IF messageMu = c THEN None ELSE messageMu

-----------------------------------------------------------------------------
(* enqueueWrite and the writer *)

\* The request of c as a task for the writer.
TaskOf(c) ==
  [client |-> c, job |-> cs[c].job, n |-> cs[c].n, k |-> cs[c].k, call |-> cs[c].call, cseq |-> cs[c].cseq]

Enqueue(c) ==
  /\ cs[c].pc = "queue" /\ Len(queue) < QueueCap
  /\ queue' = Append(queue, TaskOf(c))
  /\ cs' = [cs EXCEPT ![c].pc = "written"]
  /\ UNCHANGED <<scenario, sharedVars, writer, listener, rt, net, inVars, service, closer, wire, granted>>

\* The buffered done channel of a task; a client that gave up does not read it.
Told(t, result) ==
  LET c == t.client IN
  IF cs[c].pc = "written" /\ cs[c].call = t.call /\ cs[c].cseq = t.cseq
    THEN [cs EXCEPT ![c].done = result] ELSE cs

\* The first failure of a runtime that is not closed: fail.
Failed == [rt EXCEPT !.failed = @ \/ ~rt.closed]

\* runTCPWriteChannel
Write ==
  /\ writer = "run" /\ queue # <<>> /\ ~rt.closed
  /\ LET t == Head(queue) IN
     /\ cs' = Told(t, "ok")
     /\ net' = net \cup {[call |-> t.call, cseq |-> t.cseq]}
     /\ wire' = Append(wire, t)
  /\ queue' = Tail(queue)
  /\ UNCHANGED <<scenario, sharedVars, writer, listener, rt, inVars, service, closer, granted>>

WriteFails ==
  /\ writer = "run" /\ queue # <<>> /\ (scenario.faults \/ rt.closed)
  /\ cs' = Told(Head(queue), "err") /\ queue' = Tail(queue)
  /\ writer' = "done" /\ rt' = Failed
  /\ UNCHANGED <<scenario, sharedVars, listener, net, inVars, service, closer, wire, granted>>

\* The tasks still queued are never answered.
WriterStops ==
  /\ writer = "run" /\ cancelled
  /\ writer' = "done"
  /\ UNCHANGED <<scenario, cs, sharedVars, queue, listener, rt, net, inVars, service, closer, wire, granted>>

-----------------------------------------------------------------------------
(* The rest of an exchange *)

WriteDone(c) ==
  /\ cs[c].pc = "written" /\ cs[c].done # "none"
  /\ IF cs[c].done = "ok"
       THEN cs' = [cs EXCEPT ![c].pc = "wait"] /\ UNCHANGED messageMu
       ELSE cs' = [cs EXCEPT ![c] = Returned(@, "error")] /\ messageMu' = Unlocked(c)
  /\ UNCHANGED <<scenario, ids, sends, refreshes, runtimeVars, net, inVars, service, closer, wire, granted>>

\* Faulty variant: no deadline while the write is not done.
GiveUpWaiting(c) ==
  /\ cs[c].pc \in {"queue", "wait"}
  /\ cs' = [cs EXCEPT ![c] = Returned(@, "error")] /\ messageMu' = Unlocked(c)
  /\ UNCHANGED <<scenario, ids, sends, refreshes, runtimeVars, net, inVars, service, closer, wire, granted>>

\* A deadline passes, or the service is closing.
GiveUp(c) ==
  /\ cs[c].pc \in {"queue", "written", "wait"}
  /\ cs' = [cs EXCEPT ![c] = Returned(@, "error")] /\ messageMu' = Unlocked(c)
  /\ UNCHANGED <<scenario, ids, sends, refreshes, runtimeVars, net, inVars, service, closer, wire, granted>>

Took(c) == [cs[c] EXCEPT !.buf = Tail(@)]

Rejected(status) == status \notin 200..299

\* waitFinalSIPResponse returns; a part that was not accepted ends the message.
TakeSMS(c) ==
  /\ cs[c].pc = "wait" /\ cs[c].job # "refresh" /\ cs[c].buf # <<>>
  /\ LET status == Head(cs[c].buf).status IN
     \/ /\ status < 200
        /\ cs' = [cs EXCEPT ![c] = Took(c)] /\ UNCHANGED <<messageMu, ids>>
     \/ /\ status >= 200 /\ Rejected(status)
        /\ cs' = [cs EXCEPT ![c] = Returned(@, "error")] /\ messageMu' = Unlocked(c) /\ UNCHANGED ids
     \/ /\ status >= 200 /\ ~Rejected(status) /\ cs[c].k < cs[c].total
        /\ cs' = [cs EXCEPT ![c] = PartReady(@)] /\ ids' = ids + 1 /\ UNCHANGED messageMu
     \/ /\ status >= 200 /\ ~Rejected(status) /\ cs[c].k = cs[c].total
        /\ cs' = [cs EXCEPT ![c] = Returned(@, "accepted")] /\ messageMu' = Unlocked(c) /\ UNCHANGED ids
  /\ UNCHANGED <<scenario, sends, refreshes, runtimeVars, net, inVars, service, closer, wire, granted>>

-----------------------------------------------------------------------------
(* RefreshRegistration *)

RefreshFails == cs' = [cs EXCEPT ![Refresher] = Returned(@, "error")] /\ UNCHANGED service

\* The REGISTER after one with CSeq previous, or None: CSeqs do not wrap around.
nextRegistrationRefresh(previous) == IF previous = MaxCSeq THEN None ELSE previous + 1

\* The next round, whose CSeq is saved before it is sent.
RefreshRound(r) ==
  LET cseq == nextRegistrationRefresh(service.cseq) IN
  \/ cseq = None /\ RefreshFails
  \/ /\ cseq # None
     /\ cs' = [cs EXCEPT ![Refresher] = Subscribed(r, 0, cseq)]
     /\ service' = [service EXCEPT !.cseq = cseq]

Refresh ==
  /\ cs[Refresher].pc = "idle" /\ refreshes < scenario.refreshes
  /\ ~service.closing /\ Healthy
  /\ refreshes' = refreshes + 1
  /\ RefreshRound([Idle EXCEPT !.job = "refresh", !.n = refreshes + 1, !.k = 1])
  /\ UNCHANGED <<scenario, messageMu, ids, sends, runtimeVars, net, inVars, closer, wire, granted>>

\* Faulty variant: the Call-ID is enough.
OwnAnyCSeq(r) == TRUE

\* exchangeRegistrationRefresh compares CSeq and branch.
Own(r) == r.cseq = cs[Refresher].cseq

\* What the answer changes: a Security-Server other than the installed one always ends
\* the refresh, and so does a challenge that cannot be answered.
TakeRefresh ==
  LET me == cs[Refresher]  r == Head(me.buf) IN
  /\ me.pc = "wait" /\ me.job = "refresh" /\ me.buf # <<>>
  /\ \/ /\ ~Own(r) \/ r.status < 200
        /\ cs' = [cs EXCEPT ![Refresher] = Took(Refresher)] /\ UNCHANGED service
     \/ /\ Own(r) /\ r.status >= 200
        /\ RefreshFails
     \/ /\ Own(r) /\ r.status = 200 /\ ~service.closing
        /\ \E g \in Grants :
             LET expires == RefreshedExpiry(g, Requested) IN
             /\ expires > 0
             /\ service' = [service EXCEPT !.expires = expires, !.grant = g]
        /\ cs' = [cs EXCEPT ![Refresher] = Returned(@, "accepted")]
     \/ /\ Own(r) /\ r.status = 401 /\ me.round < 2
        /\ RefreshRound([me EXCEPT !.round = @ + 1])
     \/ /\ Own(r) /\ r.status = 500 /\ ~me.retried
        /\ RefreshRound([me EXCEPT !.retried = TRUE])
  /\ UNCHANGED <<scenario, sharedVars, runtimeVars, net, inVars, closer, wire, granted>>

-----------------------------------------------------------------------------
(* The readers *)

\* The network answers a request, and the Port-C reader publishes the response.
ReadResponse ==
  /\ hs["portC"].pc = "read" /\ ~rt.closed
  /\ \E q \in net, s \in {100, 200, 401, 500} :
       /\ s = 401 => q.call = 0
       /\ cs' = Published(q.call, q.cseq, s)
       /\ net' = IF s = 100 THEN net ELSE net \ {q}
       /\ granted' = IF s = 200 THEN granted \cup {q} ELSE granted
  /\ UNCHANGED <<scenario, sharedVars, runtimeVars, inVars, service, closer, wire>>

\* runPortCReadLoop ends with an error of the connection; drainInboundPortS with the runtime.
ReadEnds(h) ==
  /\ hs[h].pc = "read"
  /\ IF h = "portC" THEN scenario.faults \/ rt.closed ELSE cancelled
  /\ hs' = [hs EXCEPT ![h].pc = "done"]
  /\ rt' = IF h = "portC" THEN Failed ELSE rt
  /\ UNCHANGED <<scenario, cs, sharedVars, queue, writer, listener, net, late, archive, delivered, conn, service, closer, wire, granted>>

\* The service centre, when the TPDU names nobody.
SenderOf(m, d) == IF d.sender = Nobody THEN m.originator ELSE d.sender

\* Faulty variant: the time of arrival is part of it.
IdentityArrival(m, d) ==
  [sender |-> SenderOf(m, d), text |-> d.text, at |-> <<delivered[m]>>, concat |-> d.concat]

\* storeIncomingSMSMessage: the durable identity.  Without a service-centre timestamp the
\* time of arrival is taken.
Identity(m, d) ==
  [sender |-> SenderOf(m, d), text |-> d.text, at |-> IF d.at = NoTime THEN <<delivered[m]>> ELSE d.at,
   concat |-> d.concat]

\* Metadata that is not stored.
BadConcat(c) == c # NoConcat /\ ~(c.total \in 1..255 /\ c.sequence \in 1..c.total)

freeAckers == {a \in Ackers : cs[a].pc = "idle"}

\* go sendIncomingRPAck: the lease is refused once the service closes.
Acknowledged(m) ==
  IF service.closing THEN cs
  ELSE [cs EXCEPT ![CHOOSE a \in freeAckers : TRUE] =
          [Idle EXCEPT !.pc = "lock", !.job = "ack", !.n = m.id, !.total = 1]]

\* A part without a valid timestamp is refused.
decodeIncomingSMS(d) == IF d.concat # NoConcat /\ d.at = NoTime THEN [d EXCEPT !.kind = "error"] ELSE d

\* What each message considered says.
DecodedOf == [m \in UNION {s.mt : s \in Scenarios} |-> decodeIncomingSMS(DecodeSMSDeliverTPDU(m.tpdu))]

\* dispatchIncomingRequest: MESSAGE is answered with 200 and decoded; a report is
\* acknowledged, a message goes to the host, anything else is not acknowledged.
ReadMessage(h) ==
  /\ hs[h].pc = "read" /\ freeAckers # {}
  /\ IF h = "portC" THEN ~rt.closed ELSE ~cancelled
  /\ \E m \in scenario.mt :
       LET d == DecodedOf[m] IN
       /\ delivered[m] < scenario.deliveries
       /\ delivered' = [delivered EXCEPT ![m] = @ + 1]
       /\ cs' = IF d.kind = "report" THEN Acknowledged(m) ELSE cs
       /\ hs' = IF d.kind \in {"deliver", "submit"} /\ ~BadConcat(d.concat)
                  THEN [hs EXCEPT ![h] = [pc |-> "store", m |-> m, id |-> Identity(m, d)]] ELSE hs
  /\ UNCHANGED <<scenario, sharedVars, runtimeVars, net, late, archive, conn, service, closer, wire, granted>>

\* The host keeps one message per message_id.
Archived(id, m) ==
  IF \E e \in archive : e.id = id THEN archive ELSE archive \cup {[id |-> id, m |-> m.id]}

Back(h) == hs' = [hs EXCEPT ![h] = [pc |-> "read", m |-> None, id |-> None]]

Store(h) ==
  /\ hs[h].pc = "store" /\ freeAckers # {}
  /\ archive' = Archived(hs[h].id, hs[h].m)
  /\ cs' = Acknowledged(hs[h].m)
  /\ Back(h)
  /\ UNCHANGED <<scenario, sharedVars, runtimeVars, net, late, delivered, conn, service, closer, wire, granted>>

\* The host reports an error.
StoreFails(h) ==
  /\ hs[h].pc = "store" /\ Back(h)
  /\ UNCHANGED <<scenario, cs, sharedVars, runtimeVars, net, late, archive, delivered, conn, service, closer, wire, granted>>

\* 20 seconds pass, or the run ends: nobody waits for the host any more.
StoreTimesOut(h) ==
  /\ hs[h].pc = "store" /\ Back(h)
  /\ late' = late \cup {[id |-> hs[h].id, m |-> hs[h].m]}
  /\ UNCHANGED <<scenario, cs, sharedVars, runtimeVars, net, archive, delivered, conn, service, closer, wire, granted>>

LateStore ==
  /\ \E e \in late : archive' = Archived(e.id, e.m) /\ late' = late \ {e}
  /\ UNCHANGED <<scenario, cs, sharedVars, runtimeVars, net, hs, delivered, conn, service, closer, wire, granted>>

-----------------------------------------------------------------------------
(* A Port-S connection that carries an INVITE *)

connRest == <<scenario, cs, sharedVars, runtimeVars, net, hs, late, archive, delivered, service, closer, wire, granted>>

\* Accept ends with the runtime, which closes the listener, or fails the runtime.
ListenerEnds ==
  /\ listener = "accept" /\ (scenario.faults \/ cancelled)
  /\ listener' = "done" /\ rt' = IF cancelled THEN rt ELSE Failed
  /\ UNCHANGED <<scenario, cs, sharedVars, queue, writer, net, inVars, service, closer, wire, granted>>

\* The INVITE arrives and is answered provisionally; a failed write gives the lease up.
InviteArrives ==
  /\ scenario.invites /\ ~conn.open /\ ~conn.eof /\ conn.final = "none" /\ listener = "accept" /\ ~cancelled
  /\ \E ok \in BOOLEAN :
       conn' = [conn EXCEPT !.open = TRUE, !.pending = ok, !.released = ~ok]
  /\ UNCHANGED connRest

\* The network closes its side.
HalfClose ==
  /\ conn.open /\ ~conn.eof /\ conn' = [conn EXCEPT !.eof = TRUE]
  /\ UNCHANGED connRest

\* The timer that waitForFinal starts when the network has closed its side.
LeaseExpires ==
  /\ conn.open /\ conn.eof /\ conn.pending /\ ~conn.released /\ ~conn.expired
  /\ conn' = [conn EXCEPT !.expired = TRUE]
  /\ UNCHANGED connRest

\* waitForFinal returns: at once without a lease, when it is released, after its time, or
\* with the runtime; the reader then closes the connection.
DrainEnds ==
  /\ conn.open /\ conn.eof
  /\ ~conn.pending \/ conn.released \/ conn.expired \/ cancelled
  /\ conn' = [conn EXCEPT !.open = FALSE]
  /\ UNCHANGED connRest

\* AfterFunc closes the connection under its reader.
ConnCancelled ==
  /\ conn.open /\ cancelled /\ conn' = [conn EXCEPT !.open = FALSE]
  /\ UNCHANGED connRest

\* The call is answered, rejected or cancelled: the final response is written.
FinalResponse ==
  /\ conn.final = "none" /\ conn.pending
  /\ conn' = [conn EXCEPT !.final = IF conn.open THEN "sent" ELSE "lost", !.released = TRUE]
  /\ UNCHANGED connRest

-----------------------------------------------------------------------------
(* Close *)

CloseCalled ==
  /\ scenario.closes /\ closer = "none"
  /\ closer' = "leases" /\ service' = [service EXCEPT !.closing = TRUE]
  /\ UNCHANGED <<scenario, cs, sharedVars, runtimeVars, net, inVars, wire, granted>>

\* The operations have returned their leases: transportRuntime.Close.
CloseRuntime ==
  /\ closer = "leases" /\ \A c \in Clients : cs[c].pc = "idle"
  /\ closer' = "drain" /\ rt' = [rt EXCEPT !.closed = TRUE]
  /\ UNCHANGED <<scenario, cs, sharedVars, queue, writer, listener, net, inVars, service, wire, granted>>

CloseReturns ==
  /\ closer = "drain" /\ writer = "done" /\ listener = "done" /\ ~conn.open /\ \A h \in Handlers : hs[h].pc = "done"
  /\ closer' = "returned"
  /\ UNCHANGED <<scenario, cs, sharedVars, runtimeVars, net, inVars, service, wire, granted>>

-----------------------------------------------------------------------------
ClientStep(c) == Lock(c) \/ Enqueue(c) \/ WriteDone(c) \/ GiveUp(c) \/ TakeSMS(c)
Writer == Write \/ WriteFails \/ WriterStops
Handling(h) == Store(h) \/ StoreFails(h) \/ StoreTimesOut(h)
Closing == CloseRuntime \/ CloseReturns

Next ==
  \/ SendSMS \/ \E c \in Clients : ClientStep(c)
  \/ Refresh \/ TakeRefresh \/ Writer
  \/ ReadResponse \/ \E h \in Handlers : ReadEnds(h) \/ ReadMessage(h) \/ Handling(h)
  \/ LateStore
  \/ ListenerEnds \/ InviteArrives \/ HalfClose \/ LeaseExpires \/ DrainEnds \/ ConnCancelled
  \/ FinalResponse \/ CloseCalled \/ Closing

Spec == Init /\ [][Next]_vars

\* A lock that is free is given and deadlines pass; the network, the host and the callers
\* owe nothing.  A closed connection wakes its readers, a closed listener its accept loop.
LiveSpec ==
  /\ Spec
  /\ \A c \in Clients : WF_vars(Lock(c) \/ GiveUp(c))
  /\ WF_vars(WriterStops) /\ WF_vars(cancelled /\ ListenerEnds) /\ WF_vars(ConnCancelled) /\ WF_vars(Closing)
  /\ \A h \in Handlers : WF_vars(Handling(h) \/ (rt.closed /\ ReadEnds(h)))

-----------------------------------------------------------------------------
(* Properties *)

TypeOK ==
  /\ \A c \in Clients :
       /\ cs[c].pc \in {"idle", "lock", "queue", "written", "wait"}
       /\ cs[c].sub => cs[c].cseq \in 1..MaxCSeq /\ Len(cs[c].buf) <= BufferSize
  /\ messageMu \in Clients \cup {None} /\ Len(queue) <= QueueCap /\ service.cseq \in 1..MaxCSeq
  /\ service.expires \in Nat \ {0}

\* The parts of message n that went out.
Parts(n) == {i \in DOMAIN wire : wire[i].job = "sms" /\ wire[i].n = n}

Accepted(t) == [call |-> t.call, cseq |-> t.cseq] \in granted

\* Every part went out, once and in order, and was answered with a 2xx of its own.
WentOut(n, total) ==
  /\ \A k \in 1..total : \E i \in Parts(n) : wire[i].k = k
  /\ \A i \in Parts(n) : wire[i].k \in 1..total /\ Accepted(wire[i])
  /\ \A i, j \in Parts(n) : i < j => wire[i].k < wire[j].k

\* The parts of a text are short enough and have references of their own, and the decoder
\* puts the text together again from them.
Readable(text) ==
  LET bodies == BodiesOf[text]
      read == [k \in DOMAIN bodies |-> DecodeSMSDeliverTPDU(bodies[k])]
  IN  /\ Cardinality({bodies[k].ref : k \in DOMAIN bodies}) = Len(bodies)
      /\ \A k \in DOMAIN bodies : /\ Len(bodies[k].ud) <= MaxOctets
                                  /\ Len(bodies) > 1 => /\ read[k].concat.sequence = k
                                                        /\ read[k].concat.total = Len(bodies)
      /\ FlattenSeq([k \in DOMAIN read |-> read[k].text]) = text

\* A text that was reported as accepted is in the network's hands, whole.
TextArrives ==
  \A c \in Senders : cs[c].outcome = "accepted" =>
    /\ cs[c].total = Len(BodiesOf[cs[c].text])
    /\ WentOut(cs[c].n, cs[c].total) /\ Readable(cs[c].text)

IsMessage(t) == t.job # "refresh"

\* The parts of a message leave in order, without parts of another message or an RP-ACK
\* between them, each only after the one before it was accepted: also when a sender gave
\* up on a part that is still queued.
PartsInOrder ==
  \A j \in DOMAIN wire : IsMessage(wire[j]) /\ wire[j].k > 1 =>
    \E i \in 1..(j - 1) :
      /\ wire[i].job = wire[j].job /\ wire[i].n = wire[j].n /\ wire[i].k = wire[j].k - 1
      /\ Accepted(wire[i])
      /\ \A l \in (i + 1)..(j - 1) : ~IsMessage(wire[l])

\* An RP-ACK goes out only for a status report, or for a message that is in the archive
\* under its own identity: "persistence failed; RP-ACK withheld".
AckedIsStored ==
  \A i \in DOMAIN wire : wire[i].job = "ack" =>
    \E m \in scenario.mt : /\ m.id = wire[i].n
                           /\ m.tpdu.type = "report" \/ \E e \in archive : e.m = m.id

\* However often a message with a service-centre timestamp is delivered, on whichever
\* connection, and however late the host stores it, the archive has it once:
\* "retransmission after a reconnect or app restart keeps the same durable storage identity".
StoredOnce ==
  \A e, f \in archive : e.m = f.m =>
    e = f \/ \E m \in scenario.mt : m.id = e.m /\ DecodedOf[m].at = NoTime

\* A name whose length counts characters, and whose first octets could be a padded name
\* of as many semi-octets: "do not guess based on its length".
Ambiguous(p) ==
  LET standard == (p.alen + 1) \div 2 IN
  /\ TypeOfNumber(p.toa) = 5 /\ Len(p.addr) > standard
  /\ hasZeroGSM7Padding(SubSeq(p.addr, 1, standard), (p.alen * 4) \div 7)

\* What is stored is from whom the network said it is: a number, or a name however long
\* whose length counts semi-octets.  Where older sources count characters it is so unless
\* the name can also be read the other way; then a part of it may be stored.
SenderKept ==
  \A e \in archive : \E m \in scenario.mt :
    m.id = e.m /\ (e.id.sender = m.from \/ Ambiguous(m.tpdu))

\* A REGISTER never repeats or goes back behind an earlier CSeq, through retries, challenge
\* rounds, refreshes that gave up, and requests still queued when the next one starts:
\* "Save every used CSeq, including failures, so a retry never goes back."
RefreshCSeqAdvances ==
  \A i, j \in DOMAIN wire :
    i < j /\ ~IsMessage(wire[i]) /\ ~IsMessage(wire[j]) => wire[i].cseq < wire[j].cseq

\* A refresh succeeds only by the answer to its own last request, although the Call-ID is
\* that of every refresh before it and late answers share its waiter.
RefreshAnswered ==
  cs[Refresher].outcome = "accepted" => [call |-> 0, cseq |-> cs[Refresher].cseq] \in granted

\* A published lifetime belongs to a binding that stands: our own Contact was not removed
\* behind a positive Expires, and no binding was granted less.
BindingStands ==
  service.grant # None =>
    \A c \in service.grant.contacts : /\ c.own => c.expires > 0
                                      /\ c.expires > 0 => service.expires <= c.expires

\* A network that closes its side after the INVITE still gets the final response, unless
\* the runtime ended or the decision took longer than the lease.
FinalReaches == conn.final = "lost" => cancelled \/ conn.expired

\* Every send, acknowledgement and refresh returns, also when the writer has stopped and
\* its queue is never served.
SendsEnd == \A c \in Clients : (cs[c].pc # "idle") ~> (cs[c].pc = "idle")

\* Close returns, with messages being stored, requests queued and Port-S connections open.
RuntimeCloses == (closer = "leases") ~> (closer = "returned")

\* A message that was reported as accepted was sent whole, in order and undisturbed.
SMSSentWhole == TypeOK /\ TextArrives /\ PartsInOrder

\* A message that was acknowledged is stored, once, under the sender it is from where the
\* address says so without doubt.
SMSStored == AckedIsStored /\ StoredOnce /\ SenderKept

\* A refresh spends fresh CSeqs, is answered by its own response, and publishes a
\* lifetime of the binding that stands.
RefreshSound == RefreshCSeqAdvances /\ RefreshAnswered /\ BindingStands

\* Callers and Close return, and a half-closed connection still gets its final response.
CallersReturn == []FinalReaches /\ SendsEnd /\ RuntimeCloses

=============================================================================
