---------------------------- MODULE UdpEndpoint ----------------------------
(***************************************************************************)
(* A SIP endpoint over UDP: one socket of the tunnel, one peer, the reader *)
(* goroutine, the client transactions of our requests and the server       *)
(* transactions of the peer's, the loop of the runtime that takes what     *)
(* they deliver, and Close.                                                *)
(*                                                                         *)
(* Datagrams are lost either way.  One that is lost and leaves no trace is *)
(* no step; what the retransmissions are there to mend is a first sending  *)
(* that is lost.  The transactions are sipgo's, modelled by how this code  *)
(* uses them: a response is handed to the goroutine of its transaction,    *)
(* and the reader waits until it is taken; a final response is kept and    *)
(* sent again for a repeated request; transactions end by their timers.    *)
(***************************************************************************)
EXTENDS Integers, FiniteSets, Sequences

CONSTANTS Clients,     \* our requests, each with a transaction key of its own
          Requests,    \* the peer's requests
          Invites,     \* those of both that are INVITEs; the others are MESSAGEs
          QueueLen,    \* capacity of messages and of requests; the code's 64
          MaxClients,  \* the code's 128, for transactions and for ACKs
          MaxServers,  \* the code's 256
          Workloads,   \* bounds: [sent, forgets, fails], the requests sent, how many server
                       \* transactions of one end by a timer, whether socket and runtime may fail
          None

ASSUME UdpAssumption ==
  /\ QueueLen \in Nat \ {0} /\ MaxClients \in Nat \ {0} /\ MaxServers \in Nat \ {0}
  /\ \A w \in Workloads : w.sent \subseteq Clients \cup Requests /\ w.forgets \in Nat /\ w.fails \in BOOLEAN

VARIABLES
  load,      \* the workload, which never changes
  ctx,       \* e.ctx is cancelled
  closed,    \* e.closed
  closer,    \* Close: "idle", "marking", "waiting", "returned"
  reader,    \* readPackets: [pc, c, status], "pass" while it hands a response to its transaction
  loop,      \* runUDPReadLoop: "select", "busy" with a handler, "stopped"
  messages, requests,
  cl,        \* clients: [pc, tx, cancelled, res, final, seen]; seen: finals the runtime got
  acks,      \* e.acks, by the INVITE they belong to
  sv,        \* servers: [live, resp, owed, handled, forgotten]
  accepted,  \* e.accepted: "none", "on", "acked" for the goroutine of each 2xx
  gaveUp,    \* history: a 2xx was repeated until its deadline
  peer,      \* the peer, per request of its own: "idle", "sent", "proceeding", "got", "refused"
  peerOf     \* the peer, per request of ours: "none", "ok", "acked"

clientVars == <<cl, acks, peerOf>>
serverVars == <<sv, accepted, gaveUp, peer>>
closeVars == <<ctx, closed, closer>>
queues == <<messages, requests>>
vars == <<load, closeVars, reader, loop, queues, clientVars, serverVars>>

Finals == {"ok", "failed"}
Listed == {c \in Clients : cl[c].pc \in {"wait", "forward"}}
Served == {k \in Requests : sv[k].live}

-----------------------------------------------------------------------------
Reading == [pc |-> "read", c |-> None, status |-> "none"]

Init ==
  /\ load \in Workloads
  /\ ctx = FALSE /\ closed = FALSE /\ closer = "idle" /\ reader = Reading /\ loop = "select"
  /\ messages = <<>> /\ requests = <<>> /\ acks = {}
  /\ cl = [c \in Clients |-> [pc |-> "idle", tx |-> "none", cancelled |-> FALSE, res |-> "none",
                              final |-> FALSE, seen |-> {}]]
  /\ sv = [k \in Requests |-> [live |-> FALSE, resp |-> "none", owed |-> "none", handled |-> 0,
                               forgotten |-> 0]]
  /\ accepted = [k \in Requests |-> "none"] /\ gaveUp = [k \in Requests |-> FALSE]
  /\ peer = [k \in Requests |-> "idle"] /\ peerOf = [c \in Clients |-> "none"]

-----------------------------------------------------------------------------
(* Requests of ours *)

\* sendRequest: refused when closed, when there are too many, or when the first write fails.
SendRequest(c) ==
  /\ cl[c].pc = "idle" /\ c \in load.sent
  /\ \/ cl' = [cl EXCEPT ![c].pc = "refused"]
     \/ /\ ~closed /\ Cardinality(Listed) < MaxClients
        /\ cl' = [cl EXCEPT ![c].pc = "wait", ![c].tx = "calling"]
  /\ UNCHANGED <<load, closeVars, reader, loop, queues, acks, peerOf, serverVars>>

\* The caller's context ends; enqueueWrite does not bind an INVITE to it.
CancelRequest(c) ==
  /\ cl[c].pc \in {"wait", "forward"} /\ c \notin Invites /\ ~cl[c].cancelled
  /\ cl' = [cl EXCEPT ![c].cancelled = TRUE]
  /\ UNCHANGED <<load, closeVars, reader, loop, queues, acks, peerOf, serverVars>>

\* sendRequest of the ACK, once the caller has seen the 2xx; the first one may be lost.
SendAck(c) ==
  /\ "ok" \in cl[c].seen /\ c \in Invites /\ ~closed /\ cl[c].res # "acked"
  /\ cl' = [cl EXCEPT ![c].res = "acked"]
  /\ acks' = IF Cardinality(acks) < MaxClients THEN acks \cup {c} ELSE acks
  /\ peerOf' \in {peerOf, [peerOf EXCEPT ![c] = "acked"]}
  /\ UNCHANGED <<load, closeVars, reader, loop, queues, serverVars>>

\* The peer's answer, first or repeated, is read and goes to the transaction that is live.
\* A failure takes the way of an "ok" that needs no ACK.
ReadResponse(c, status) ==
  /\ reader.pc = "read" /\ ~ctx /\ c \in Listed /\ cl[c].tx \in {"calling", "final"}
  /\ peerOf[c] \in {"none", status} /\ (status = "1xx" => peerOf[c] = "none")
  /\ LET given == cl[c].tx = "calling"
         again == cl[c].tx = "final" /\ status = "ok" /\ c \in acks
     IN  /\ given \/ again
         /\ reader' = IF given THEN [pc |-> "pass", c |-> c, status |-> status] ELSE reader
         /\ cl' = IF given /\ status \in Finals THEN [cl EXCEPT ![c].tx = "final"] ELSE cl
         /\ peerOf' = [peerOf EXCEPT ![c] = IF again THEN "acked" ELSE IF status = "1xx" THEN @ ELSE status]
  /\ UNCHANGED <<load, closeVars, loop, queues, acks, serverVars>>

\* The goroutine of the transaction takes the response ...
ClientTakes(c) ==
  /\ cl[c].pc = "wait" /\ reader.pc = "pass" /\ reader.c = c /\ cl[c].tx # "done"
  /\ cl' = [cl EXCEPT ![c].pc = "forward", ![c].res = reader.status, ![c].final = @ \/ reader.status \in Finals]
  /\ reader' = Reading
  /\ UNCHANGED <<load, closeVars, loop, queues, acks, peerOf, serverVars>>

\* The deferred calls of the goroutine.
ClientGone(c) ==
  /\ cl' = [cl EXCEPT ![c].pc = "over", ![c].tx = "done", ![c].cancelled = FALSE] /\ acks' = acks \ {c}
  /\ UNCHANGED <<load, closeVars, reader, loop, queues, peerOf, serverVars>>

\* Faulty variant: a caller that is gone does not wait for room.
ClientForwardImpatient(c) ==
  /\ cl[c].pc = "forward"
  /\ \/ /\ Len(messages) < QueueLen
        /\ messages' = Append(messages, [c |-> c, status |-> cl[c].res])
        /\ cl' = [cl EXCEPT ![c].pc = "wait"]
        /\ UNCHANGED <<load, closeVars, reader, loop, requests, acks, peerOf, serverVars>>
     \/ (ctx \/ cl[c].cancelled) /\ ClientGone(c)

\* Faulty variant: the goroutine waits for room whatever happens.
ClientForwardStubborn(c) ==
  /\ cl[c].pc = "forward" /\ Len(messages) < QueueLen
  /\ messages' = Append(messages, [c |-> c, status |-> cl[c].res])
  /\ cl' = [cl EXCEPT ![c].pc = "wait"]
  /\ UNCHANGED <<load, closeVars, reader, loop, requests, acks, peerOf, serverVars>>

\* ... and passes it on, when there is room.
ClientForward(c) ==
  /\ cl[c].pc = "forward"
  /\ \/ /\ Len(messages) < QueueLen
        /\ messages' = Append(messages, [c |-> c, status |-> cl[c].res])
        /\ cl' = [cl EXCEPT ![c].pc = "wait"]
        /\ UNCHANGED <<load, closeVars, reader, loop, requests, acks, peerOf, serverVars>>
     \/ ctx /\ ClientGone(c)

\* After a final response the caller's context does not matter any more.
ClientEnds(c) ==
  /\ cl[c].pc = "wait"
  /\ ctx \/ (cl[c].cancelled /\ ~cl[c].final) \/ cl[c].tx = "done"
  /\ ClientGone(c)

\* sipgo: timers B, F, D, K and M.
ClientTxDone(c) ==
  /\ cl[c].tx \in {"calling", "final"} /\ cl' = [cl EXCEPT ![c].tx = "done"]
  /\ UNCHANGED <<load, closeVars, reader, loop, queues, acks, peerOf, serverVars>>

\* sipgo: Receive comes back without having passed the response on.
HandoverEnds ==
  /\ reader.pc = "pass" /\ cl[reader.c].tx = "done" /\ reader' = Reading
  /\ UNCHANGED <<load, closeVars, loop, queues, clientVars, serverVars>>

-----------------------------------------------------------------------------
(* Requests of the peer *)

\* A request, first or repeated, is read, and dropped when the queue is full.
ReadRequest(k) ==
  /\ reader.pc = "read" /\ ~ctx /\ peer[k] \in {"idle", "sent"} /\ k \in load.sent
  /\ peer' = [peer EXCEPT ![k] = "sent"]
  /\ requests' = IF Len(requests) < QueueLen THEN Append(requests, [ack |-> FALSE, k |-> k]) ELSE requests
  /\ UNCHANGED <<load, closeVars, reader, loop, messages, clientVars, sv, accepted, gaveUp>>

\* The peer acknowledges each 2xx it gets, first or repeated.
ReadAck(k) ==
  /\ reader.pc = "read" /\ ~ctx /\ peer[k] = "got" /\ k \in Invites /\ sv[k].resp = "ok"
  /\ Len(requests) < QueueLen /\ requests' = Append(requests, [ack |-> TRUE, k |-> k])
  /\ UNCHANGED <<load, closeVars, reader, loop, messages, clientVars, serverVars>>

\* The socket fails, or was closed.
ReadFails ==
  /\ reader.pc = "read" /\ (ctx \/ load.fails) /\ reader' = [reader EXCEPT !.pc = "stopped"]
  /\ UNCHANGED <<load, closeVars, loop, queues, clientVars, serverVars>>

\* What the peer has of the response that the transaction keeps.
Reached(p, k, resp) ==
  [p EXCEPT ![k] = IF resp \in Finals THEN "got" ELSE IF resp = "1xx" /\ @ = "sent" THEN "proceeding" ELSE @]

\* incomingRequest: a repetition gets the response that is kept, a new request goes to its
\* handler, one too many is refused; a closed endpoint takes none.  An answer that is lost
\* is as if the copy of the request had been.
IncomingRequest(k) ==
  \/ /\ ~closed /\ sv[k].live
     /\ peer' = Reached(peer, k, sv[k].resp) /\ UNCHANGED <<sv, loop>>
  \/ /\ ~closed /\ ~sv[k].live /\ Cardinality(Served) < MaxServers
     /\ sv' = [sv EXCEPT ![k].live = TRUE, ![k].resp = "none", ![k].owed = "respond", ![k].handled = @ + 1]
     /\ loop' = "busy" /\ UNCHANGED peer
  \/ /\ ~closed /\ ~sv[k].live /\ Cardinality(Served) >= MaxServers
     /\ peer' = [peer EXCEPT ![k] = "refused"] /\ UNCHANGED <<sv, loop>>
  \/ closed /\ UNCHANGED <<sv, loop, peer>>

LoopRequest ==
  /\ loop = "select" /\ requests # <<>> /\ ~Head(requests).ack
  /\ requests' = Tail(requests) /\ IncomingRequest(Head(requests).k)
  /\ UNCHANGED <<load, closeVars, reader, messages, clientVars, accepted, gaveUp>>

\* The ACK stops the repetition of the 2xx, and is handled each time.
LoopAck ==
  /\ loop = "select" /\ requests # <<>> /\ Head(requests).ack
  /\ requests' = Tail(requests) /\ loop' = "busy"
  /\ accepted' = [accepted EXCEPT ![Head(requests).k] = IF @ = "on" THEN "acked" ELSE @]
  /\ UNCHANGED <<load, closeVars, reader, messages, clientVars, sv, gaveUp, peer>>

LoopResponse ==
  /\ loop = "select" /\ messages # <<>> /\ messages' = Tail(messages)
  /\ cl' = [cl EXCEPT ![Head(messages).c].seen = @ \cup ({Head(messages).status} \cap Finals)]
  /\ UNCHANGED <<load, closeVars, reader, loop, requests, acks, peerOf, serverVars>>

LoopHandled ==
  /\ loop = "busy" /\ loop' = "select"
  /\ UNCHANGED <<load, closeVars, reader, queues, clientVars, serverVars>>

\* The endpoint ends, or the reader has failed and the runtime fails with it, or something else.
LoopStops ==
  /\ loop = "select" /\ (ctx \/ reader.pc = "stopped" \/ load.fails) /\ loop' = "stopped"
  /\ UNCHANGED <<load, closeVars, reader, queues, clientVars, serverVars>>

\* The responder of a handler; a transaction that ended takes no response.
Respond(k, status) ==
  /\ sv[k].owed = "respond" /\ sv[k].live /\ ~closed
  /\ status = "1xx" => k \in Invites /\ sv[k].resp = "none"
  /\ status = "failed" => k \in Invites    \* alike for others
  /\ sv' = [sv EXCEPT ![k].resp = status,
                      ![k].owed = IF status = "1xx" THEN @ ELSE IF status = "ok" /\ k \in Invites THEN "accept" ELSE "none"]
  /\ peer' \in {peer, Reached(peer, k, status)}
  /\ UNCHANGED <<load, closeVars, reader, loop, queues, clientVars, accepted, gaveUp>>

\* Faulty variant: the transaction is left to repeat the 2xx.
AcceptNothing(k) ==
  /\ sv[k].owed = "accept" /\ sv' = [sv EXCEPT ![k].owed = "none"]
  /\ UNCHANGED <<load, closeVars, reader, loop, queues, clientVars, accepted, gaveUp, peer>>

\* retransmitAcceptedInvite: the ACK may have come and gone before.
Accept(k) ==
  /\ sv[k].owed = "accept" /\ sv' = [sv EXCEPT ![k].owed = "none"]
  /\ accepted' = [accepted EXCEPT ![k] = IF closed \/ @ = "on" THEN @ ELSE "on"]
  /\ UNCHANGED <<load, closeVars, reader, loop, queues, clientVars, gaveUp, peer>>

AcceptedRepeats(k) ==
  /\ accepted[k] = "on" /\ ~ctx /\ peer[k] \in {"sent", "proceeding"}
  /\ peer' = [peer EXCEPT ![k] = "got"]
  /\ UNCHANGED <<load, closeVars, reader, loop, queues, clientVars, sv, accepted, gaveUp>>

\* Its goroutine ends: acknowledged or closed, or after 64*T1 or a write that failed.
AcceptedEnds(k) ==
  /\ accepted[k] = "acked" \/ (accepted[k] = "on" /\ ctx)
  /\ accepted' = [accepted EXCEPT ![k] = "none"]
  /\ UNCHANGED <<load, closeVars, reader, loop, queues, clientVars, sv, gaveUp, peer>>

AcceptedExpires(k) ==
  /\ accepted[k] = "on"
  /\ accepted' = [accepted EXCEPT ![k] = "none"] /\ gaveUp' = [gaveUp EXCEPT ![k] = TRUE]
  /\ UNCHANGED <<load, closeVars, reader, loop, queues, clientVars, sv, peer>>

\* sipgo repeats a failure of an INVITE until its ACK.
ServerTxRepeats(k) ==
  /\ sv[k].live /\ ~ctx /\ sv[k].resp = "failed" /\ k \in Invites /\ peer[k] \in {"sent", "proceeding"}
  /\ peer' = [peer EXCEPT ![k] = "got"]
  /\ UNCHANGED <<load, closeVars, reader, loop, queues, clientVars, sv, accepted, gaveUp>>

ServerGone(k) ==
  /\ sv' = [sv EXCEPT ![k].live = FALSE, ![k].owed = IF @ = "accept" THEN @ ELSE "none", ![k].forgotten = @ + 1]
  /\ UNCHANGED <<load, closeVars, reader, loop, queues, clientVars, accepted, gaveUp, peer>>

\* Until e.closed is set a request that is still queued finds its transaction gone.
ServerEnds(k) == sv[k].live /\ ctx /\ ServerGone(k)

\* The transaction's own timer, or the one for a handler that never responds.  Neither runs
\* out between a response and the start of its repetition.
ServerExpires(k) == sv[k].live /\ sv[k].forgotten < load.forgets /\ sv[k].owed # "accept" /\ ServerGone(k)

-----------------------------------------------------------------------------
(* Close *)

CloseBegins ==
  /\ closer = "idle" /\ ctx' = TRUE /\ closer' = "marking"
  /\ UNCHANGED <<load, closed, reader, loop, queues, clientVars, serverVars>>

\* Under the lock, then every transaction found there is terminated.
CloseMarks ==
  /\ closer = "marking" /\ closed' = TRUE /\ closer' = "waiting"
  /\ cl' = [c \in Clients |-> IF c \in Listed THEN [cl[c] EXCEPT !.tx = "done"] ELSE cl[c]]
  /\ UNCHANGED <<load, ctx, reader, loop, queues, acks, peerOf, serverVars>>

\* The goroutines of the endpoint that e.wg counts.
Workers == Listed \cup Served \cup {k \in Requests : accepted[k] # "none"}

CloseReturns ==
  /\ closer = "waiting" /\ Workers = {} /\ reader.pc = "stopped" /\ closer' = "returned"
  /\ UNCHANGED <<load, ctx, closed, reader, loop, queues, clientVars, serverVars>>

-----------------------------------------------------------------------------
ClientStep(c) == ClientTakes(c) \/ ClientForward(c) \/ ClientEnds(c)
LoopStep == LoopRequest \/ LoopAck \/ LoopResponse \/ LoopHandled \/ LoopStops
ServerStep(k) == Accept(k) \/ AcceptedEnds(k) \/ ServerEnds(k)

Next ==
  \/ \E c \in Clients : \/ SendRequest(c) \/ CancelRequest(c) \/ SendAck(c) \/ ClientStep(c) \/ ClientTxDone(c)
                        \/ \E s \in {"1xx", "ok"} : ReadResponse(c, s)
  \/ \E k \in Requests : \/ ReadRequest(k) \/ ReadAck(k) \/ ServerStep(k) \/ AcceptedRepeats(k) \/ AcceptedExpires(k)
                         \/ ServerTxRepeats(k) \/ ServerExpires(k)
                         \/ \E s \in {"1xx", "ok", "failed"} : Respond(k, s)
  \/ HandoverEnds \/ ReadFails \/ LoopStep
  \/ CloseBegins \/ CloseMarks \/ CloseReturns

Spec == Init /\ [][Next]_vars

\* Every goroutine runs.  The network is fair: what is sent again and again arrives, and
\* finds room in the queue, some time; and select, which picks any of the cases that are
\* ready, takes a request some time, though responses keep coming.
LiveSpec ==
  /\ Spec /\ WF_vars(LoopStep) /\ SF_vars(LoopRequest) /\ WF_vars(HandoverEnds) /\ WF_vars(CloseMarks \/ CloseReturns)
  /\ WF_vars(ctx /\ ReadFails)
  /\ \A c \in Clients : WF_vars(ClientStep(c))
  /\ \A c \in Clients \cap Invites : SF_vars(ReadResponse(c, "ok") /\ peerOf'[c] = "acked")
  /\ \A k \in Requests :
       WF_vars(ServerStep(k)) /\ SF_vars(peer[k] = "sent" /\ ReadRequest(k) /\ requests' # requests)
  /\ \A k \in Requests \cap Invites : SF_vars(AcceptedRepeats(k) \/ ServerTxRepeats(k))

-----------------------------------------------------------------------------
(* Properties *)

\* Types; the tables and the queues keep their limits under any load.
TypeOK ==
  /\ Cardinality(Listed) <= MaxClients /\ Cardinality(acks) <= MaxClients
  /\ Cardinality(Served) <= MaxServers
  /\ Len(messages) <= QueueLen /\ Len(requests) <= QueueLen
  /\ loop \in {"select", "busy", "stopped"} /\ (closed => ctx)

\* A request that is repeated reaches its handler once for every transaction that was kept
\* for it: "A MESSAGE therefore reaches SMS processing exactly once".
HandledOnce == \A k \in Requests : sv[k].handled <= 1 + sv[k].forgotten

\* A final response the transaction has delivered reaches the runtime, though the caller
\* gave up or the queue was full, unless the endpoint is closed.
FinalNotLost ==
  \A c \in Clients : cl[c].final /\ ~ctx =>
    \/ cl[c].pc = "forward" \/ cl[c].seen \cap Finals # {}
    \/ \E i \in DOMAIN messages : messages[i].c = c /\ messages[i].status \in Finals

\* After Close has returned no goroutine of the endpoint is left, whatever raced with it.
ClosedIsQuiet == closer = "returned" => Workers = {} /\ reader.pc = "stopped"

down == ctx \/ reader.pc = "stopped" \/ loop = "stopped"

\* Close returns, though queues are full, handlers are busy and peers silent.
CloseEnds == (closer = "marking") ~> (closer = "returned")

\* A request the peer repeats is handled or refused in the end, however often it found the
\* queue full.
RequestAnswered ==
  \A k \in Requests : (peer[k] = "sent") ~> (sv[k].handled > 0 \/ peer[k] = "refused" \/ down)

\* A final response that was lost reaches the peer in the end: repeated for a request that
\* is repeated, and a 2xx to an INVITE, which the peer does not repeat once it is ringing,
\* by the endpoint until it is acknowledged.
ResponseRecovered ==
  \A k \in Requests :
    (sv[k].live /\ sv[k].resp \in Finals) ~> (peer[k] = "got" \/ gaveUp[k] \/ sv[k].forgotten > 0 \/ down)

\* An ACK that was lost is sent again for the 2xx that is repeated, as long as the INVITE's
\* transaction lasts.
AckRecovered ==
  \A c \in Clients \cap Invites :
    (cl[c].res = "acked" /\ cl[c].tx = "final") ~> (peerOf[c] = "acked" \/ cl[c].tx = "done" \/ down)

\* Within the limits of its tables and queues the endpoint hands over every request once
\* and every final response at least once.
DeliveredOnce == TypeOK /\ HandledOnce /\ FinalNotLost

\* Close returns and leaves nothing running.
ClosesCleanly == []ClosedIsQuiet /\ CloseEnds

\* Whatever the network loses, a request, its response and its ACK get through.
LossRecovered == RequestAnswered /\ ResponseRecovered /\ AckRecovered

=============================================================================
