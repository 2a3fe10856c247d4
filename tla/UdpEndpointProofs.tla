------------------------- MODULE UdpEndpointProofs -------------------------
(***************************************************************************)
(* Proofs about the SIP endpoint over UDP, for any requests of either      *)
(* side, any limits and any workload: its tables keep their limits, no     *)
(* request is handled twice by one transaction, no final response is lost  *)
(* between its transaction and the runtime, and Close leaves nothing       *)
(* running.                                                                *)
(***************************************************************************)
EXTENDS UdpEndpoint, FiniteSetTheorems, SequenceTheorems, TLAPS

Statuses == {"none", "1xx", "ok", "failed", "acked"}

ClientRecord ==
  [pc : {"idle", "wait", "forward", "over", "refused"}, tx : {"none", "calling", "final", "done"},
   cancelled : BOOLEAN, res : Statuses, final : BOOLEAN, seen : SUBSET Finals]

ServerRecord ==
  [live : BOOLEAN, resp : Statuses, owed : {"none", "respond", "accept"}, handled : Nat, forgotten : Nat]

QueuedResponse == [c : Clients, status : Statuses]
QueuedRequest == [ack : BOOLEAN, k : Requests]

\* The types of what the properties are about.
ClientsTyped ==
  /\ cl \in [Clients -> ClientRecord] /\ acks \subseteq Clients
  /\ messages \in Seq(QueuedResponse)
ServersTyped ==
  /\ sv \in [Requests -> ServerRecord]
  /\ accepted \in [Requests -> {"none", "on", "acked"}]
  /\ requests \in Seq(QueuedRequest)
ReaderTyped ==
  /\ reader \in [pc : {"read", "pass", "stopped"}, c : Clients \cup {None}, status : Statuses]
  /\ reader.pc = "pass" => reader.c \in Clients
  /\ loop \in {"select", "busy", "stopped"}

\* The order of Close: first the context, then the mark.
CloseInOrder ==
  /\ closer \in {"idle", "marking", "waiting", "returned"}
  /\ (ctx <=> closer # "idle")
  /\ (closed <=> closer \in {"waiting", "returned"})

\* The tables and the queues keep their limits.
TablesBounded ==
  /\ IsFiniteSet(Listed) /\ Cardinality(Listed) <= MaxClients
  /\ IsFiniteSet(acks) /\ Cardinality(acks) <= MaxClients
  /\ IsFiniteSet(Served) /\ Cardinality(Served) <= MaxServers
QueuesBounded == Len(messages) <= QueueLen /\ Len(requests) <= QueueLen

\* A transaction of the peer's hands its request over once; to hand it over again it
\* must have been forgotten.
HandledByOne ==
  \A k \in Requests : sv[k].handled <= sv[k].forgotten + (IF sv[k].live THEN 1 ELSE 0)

\* The final response of c is where FinalNotLost says.
Held(c) ==
  \/ cl[c].pc = "forward" \/ cl[c].seen \cap Finals # {}
  \/ \E i \in DOMAIN messages : messages[i].c = c /\ messages[i].status \in Finals

\* A final response that was delivered stays with its transaction until it is forwarded:
\* what the transaction is about to forward is that response, unless the runtime has one.
FinalKept(c) ==
  cl[c].final =>
    /\ cl[c].tx # "calling" /\ cl[c].pc # "idle"
    /\ cl[c].pc = "forward" => cl[c].res \in Finals \/ cl[c].seen # {}
    /\ ~ctx => Held(c)

\* The reader hands a response to a transaction that has had no final response yet, and
\* after a final one sipgo hands over no other.
HandsOver ==
  reader.pc = "pass" =>
    /\ ~cl[reader.c].final /\ cl[reader.c].pc # "idle"
    /\ reader.status \in Finals => cl[reader.c].tx # "calling"

\* The inductive invariant.
EndpointInv ==
  /\ ClientsTyped /\ ServersTyped /\ ReaderTyped /\ CloseInOrder
  /\ TablesBounded /\ QueuesBounded /\ HandledByOne
  /\ HandsOver /\ (\A c \in Clients : FinalKept(c)) /\ ClosedIsQuiet

-----------------------------------------------------------------------------
(* What each step may change *)

\* The client transactions and what they pass on belong to the callers, the reader, the
\* goroutines of the transactions, the loop and Close.
LEMMA ClientsChange ==
  [Next]_vars =>
    \/ UNCHANGED <<cl, acks, messages>>
    \/ \E c \in Clients :
         \/ SendRequest(c) \/ CancelRequest(c) \/ SendAck(c) \/ ClientTakes(c) \/ ClientForward(c)
         \/ ClientEnds(c) \/ ClientTxDone(c) \/ \E s \in {"1xx", "ok"} : ReadResponse(c, s)
    \/ LoopResponse \/ CloseMarks
<1>1. ASSUME NEW k \in Requests,
             \/ ReadRequest(k) \/ ReadAck(k) \/ ServerStep(k) \/ AcceptedRepeats(k)
             \/ AcceptedExpires(k) \/ ServerTxRepeats(k) \/ ServerExpires(k)
             \/ \E s \in {"1xx", "ok", "failed"} : Respond(k, s)
      PROVE  UNCHANGED <<cl, acks, messages>>
  BY <1>1 DEF ServerStep, ReadRequest, ReadAck, Accept, AcceptedEnds, ServerEnds, ServerGone,
              AcceptedRepeats, AcceptedExpires, ServerTxRepeats, ServerExpires, Respond, queues, clientVars
<1>2. ASSUME HandoverEnds \/ ReadFails \/ LoopRequest \/ LoopAck \/ LoopHandled \/ LoopStops
             \/ CloseBegins \/ CloseReturns
      PROVE  UNCHANGED <<cl, acks, messages>>
  BY <1>2 DEF HandoverEnds, ReadFails, LoopRequest, LoopAck, LoopHandled, LoopStops, CloseBegins,
              CloseReturns, queues, clientVars
<1>3. ASSUME UNCHANGED vars PROVE UNCHANGED <<cl, acks, messages>>
  BY <1>3 DEF vars, queues, clientVars
<1> QED
  BY <1>1, <1>2, <1>3 DEF Next, LoopStep, ClientStep

\* The server transactions and the queue of requests belong to the reader, the loop, the
\* responders of the handlers and the transactions' own goroutines and timers.
LEMMA ServersChange ==
  [Next]_vars =>
    \/ UNCHANGED <<sv, accepted, requests>>
    \/ \E k \in Requests :
         \/ ReadRequest(k) \/ ReadAck(k) \/ Accept(k) \/ AcceptedEnds(k) \/ AcceptedExpires(k)
         \/ ServerEnds(k) \/ ServerExpires(k) \/ \E s \in {"1xx", "ok", "failed"} : Respond(k, s)
    \/ LoopRequest \/ LoopAck
<1>1. ASSUME NEW c \in Clients,
             \/ SendRequest(c) \/ CancelRequest(c) \/ SendAck(c) \/ ClientStep(c) \/ ClientTxDone(c)
             \/ \E s \in {"1xx", "ok"} : ReadResponse(c, s)
      PROVE  UNCHANGED <<sv, accepted, requests>>
  BY <1>1 DEF ClientStep, SendRequest, CancelRequest, SendAck, ClientTakes, ClientForward, ClientEnds,
              ClientGone, ClientTxDone, ReadResponse, queues, serverVars
<1>2. ASSUME NEW k \in Requests, AcceptedRepeats(k) \/ ServerTxRepeats(k)
      PROVE  UNCHANGED <<sv, accepted, requests>>
  BY <1>2 DEF AcceptedRepeats, ServerTxRepeats, queues
<1>3. ASSUME HandoverEnds \/ ReadFails \/ LoopResponse \/ LoopHandled \/ LoopStops
             \/ CloseBegins \/ CloseMarks \/ CloseReturns
      PROVE  UNCHANGED <<sv, accepted, requests>>
  BY <1>3 DEF HandoverEnds, ReadFails, LoopResponse, LoopHandled, LoopStops, CloseBegins, CloseMarks,
              CloseReturns, queues, serverVars
<1>4. ASSUME UNCHANGED vars PROVE UNCHANGED <<sv, accepted, requests>>
  BY <1>4 DEF vars, queues, serverVars
<1> QED
  BY <1>1, <1>2, <1>3, <1>4 DEF Next, LoopStep, ServerStep

\* The reader's place and the loop's.
LEMMA ReaderChange ==
  [Next]_vars =>
    \/ UNCHANGED <<reader, loop>>
    \/ \E c \in Clients : ClientTakes(c) \/ \E s \in {"1xx", "ok"} : ReadResponse(c, s)
    \/ HandoverEnds \/ ReadFails \/ LoopRequest \/ LoopAck \/ LoopHandled \/ LoopStops
<1>1. ASSUME NEW c \in Clients,
             \/ SendRequest(c) \/ CancelRequest(c) \/ SendAck(c) \/ ClientForward(c) \/ ClientEnds(c)
             \/ ClientTxDone(c)
      PROVE  UNCHANGED <<reader, loop>>
  BY <1>1 DEF SendRequest, CancelRequest, SendAck, ClientForward, ClientEnds, ClientGone, ClientTxDone
<1>2. ASSUME NEW k \in Requests,
             \/ ReadRequest(k) \/ ReadAck(k) \/ ServerStep(k) \/ AcceptedRepeats(k)
             \/ AcceptedExpires(k) \/ ServerTxRepeats(k) \/ ServerExpires(k)
             \/ \E s \in {"1xx", "ok", "failed"} : Respond(k, s)
      PROVE  UNCHANGED <<reader, loop>>
  BY <1>2 DEF ServerStep, ReadRequest, ReadAck, Accept, AcceptedEnds, ServerEnds, ServerGone,
              AcceptedRepeats, AcceptedExpires, ServerTxRepeats, ServerExpires, Respond
<1>3. ASSUME LoopResponse \/ CloseBegins \/ CloseMarks \/ CloseReturns PROVE UNCHANGED <<reader, loop>>
  BY <1>3 DEF LoopResponse, CloseBegins, CloseMarks, CloseReturns
<1>4. ASSUME UNCHANGED vars PROVE UNCHANGED <<reader, loop>>
  BY <1>4 DEF vars
<1> QED
  BY <1>1, <1>2, <1>3, <1>4 DEF Next, LoopStep, ClientStep

\* Only Close changes how far it has come.
LEMMA CloserChange ==
  [Next]_vars => UNCHANGED <<ctx, closed, closer>> \/ CloseBegins \/ CloseMarks \/ CloseReturns
<1> SUFFICES ASSUME [Next]_vars
             PROVE  UNCHANGED <<ctx, closed, closer>> \/ CloseBegins \/ CloseMarks \/ CloseReturns
  OBVIOUS
<1> USE DEF closeVars
<1>1. ASSUME NEW c \in Clients,
             \/ SendRequest(c) \/ CancelRequest(c) \/ SendAck(c) \/ ClientStep(c) \/ ClientTxDone(c)
             \/ \E s \in {"1xx", "ok"} : ReadResponse(c, s)
      PROVE  UNCHANGED <<ctx, closed, closer>>
  BY <1>1 DEF ClientStep, SendRequest, CancelRequest, SendAck, ClientTakes, ClientForward, ClientEnds,
              ClientGone, ClientTxDone, ReadResponse
<1>2. ASSUME NEW k \in Requests,
             \/ ReadRequest(k) \/ ReadAck(k) \/ ServerStep(k) \/ AcceptedRepeats(k)
             \/ AcceptedExpires(k) \/ ServerTxRepeats(k) \/ ServerExpires(k)
             \/ \E s \in {"1xx", "ok", "failed"} : Respond(k, s)
      PROVE  UNCHANGED <<ctx, closed, closer>>
  BY <1>2 DEF ServerStep, ReadRequest, ReadAck, Accept, AcceptedEnds, ServerEnds, ServerGone,
              AcceptedRepeats, AcceptedExpires, ServerTxRepeats, ServerExpires, Respond
<1>3. ASSUME HandoverEnds \/ ReadFails \/ LoopStep PROVE UNCHANGED <<ctx, closed, closer>>
  BY <1>3 DEF HandoverEnds, ReadFails, LoopStep, LoopRequest, LoopAck, LoopResponse, LoopHandled, LoopStops
<1>4. CASE UNCHANGED vars
  BY <1>4 DEF vars
<1> QED
  BY <1>1, <1>2, <1>3, <1>4 DEF Next

-----------------------------------------------------------------------------
(* Types *)

\* Replacing one record of a table keeps the table's type.
LEMMA ReplaceClient ==
  ASSUME cl \in [Clients -> ClientRecord], NEW c \in Clients, NEW r \in ClientRecord,
         cl' = [cl EXCEPT ![c] = r]
  PROVE  cl' \in [Clients -> ClientRecord]
OBVIOUS

LEMMA ReplaceServer ==
  ASSUME sv \in [Requests -> ServerRecord], NEW k \in Requests, NEW r \in ServerRecord,
         sv' = [sv EXCEPT ![k] = r]
  PROVE  sv' \in [Requests -> ServerRecord]
OBVIOUS

\* A step keeps the types of the client transactions.
LEMMA ClientsStep == ClientsTyped /\ ReaderTyped /\ [Next]_vars => ClientsTyped'
<1> SUFFICES ASSUME ClientsTyped, ReaderTyped, [Next]_vars PROVE ClientsTyped'
  OBVIOUS
<1>a. cl \in [Clients -> ClientRecord] /\ acks \subseteq Clients
      /\ messages \in Seq(QueuedResponse)
  BY DEF ClientsTyped
<1>b. ASSUME NEW c \in Clients
      PROVE  cl[c] \in ClientRecord /\ cl[c].res \in Statuses
  BY <1>a, <1>b DEF ClientRecord
<1>1. ASSUME NEW c \in Clients, SendRequest(c) PROVE ClientsTyped'
  <2>1. [cl[c] EXCEPT !.pc = "refused"] \in ClientRecord
        /\ [cl[c] EXCEPT !.pc = "wait", !.tx = "calling"] \in ClientRecord
    BY <1>b DEF ClientRecord
  <2>2. \/ cl' = [cl EXCEPT ![c] = [cl[c] EXCEPT !.pc = "refused"]]
        \/ cl' = [cl EXCEPT ![c] = [cl[c] EXCEPT !.pc = "wait", !.tx = "calling"]]
    BY <1>1 DEF SendRequest
  <2>3. UNCHANGED <<acks, messages>>
    BY <1>1 DEF SendRequest, queues
  <2> QED BY <1>a, <2>1, <2>2, <2>3, ReplaceClient DEF ClientsTyped
<1>2. ASSUME NEW c \in Clients, CancelRequest(c) PROVE ClientsTyped'
  <2>1. [cl[c] EXCEPT !.cancelled = TRUE] \in ClientRecord
    BY <1>b DEF ClientRecord
  <2>2. cl' = [cl EXCEPT ![c] = [cl[c] EXCEPT !.cancelled = TRUE]] /\ UNCHANGED <<acks, messages>>
    BY <1>2 DEF CancelRequest, queues
  <2> QED BY <1>a, <2>1, <2>2, ReplaceClient DEF ClientsTyped
<1>3. ASSUME NEW c \in Clients, SendAck(c) PROVE ClientsTyped'
  <2>1. [cl[c] EXCEPT !.res = "acked"] \in ClientRecord
    BY <1>b DEF ClientRecord, Statuses
  <2>2. cl' = [cl EXCEPT ![c] = [cl[c] EXCEPT !.res = "acked"]]
    BY <1>3 DEF SendAck
  <2>3. acks' \subseteq acks \cup {c} /\ messages' = messages
    BY <1>3 DEF SendAck, queues
  <2> QED BY <1>a, <2>1, <2>2, <2>3, ReplaceClient DEF ClientsTyped
<1>4. ASSUME NEW c \in Clients, ClientTakes(c) PROVE ClientsTyped'
  <2>1. reader.status \in Statuses
    BY DEF ReaderTyped
  <2>2. [cl[c] EXCEPT !.pc = "forward", !.res = reader.status, !.final = @ \/ reader.status \in Finals]
          \in ClientRecord
    BY <1>b, <2>1 DEF ClientRecord
  <2>3. /\ cl' = [cl EXCEPT ![c] = [cl[c] EXCEPT !.pc = "forward", !.res = reader.status,
                                                 !.final = @ \/ reader.status \in Finals]]
        /\ UNCHANGED <<acks, messages>>
    BY <1>4 DEF ClientTakes, queues
  <2> QED BY <1>a, <2>2, <2>3, ReplaceClient DEF ClientsTyped
<1>5. ASSUME NEW c \in Clients, ClientGone(c) PROVE ClientsTyped'
  <2>1. [cl[c] EXCEPT !.pc = "over", !.tx = "done", !.cancelled = FALSE] \in ClientRecord
    BY <1>b DEF ClientRecord
  <2>2. cl' = [cl EXCEPT ![c] = [cl[c] EXCEPT !.pc = "over", !.tx = "done", !.cancelled = FALSE]]
    BY <1>5 DEF ClientGone
  <2>3. acks' = acks \ {c} /\ messages' = messages
    BY <1>5 DEF ClientGone, queues
  <2> QED BY <1>a, <2>1, <2>2, <2>3, ReplaceClient DEF ClientsTyped
<1>6. ASSUME NEW c \in Clients, ClientForward(c) PROVE ClientsTyped'
  <2>1. CASE ClientGone(c)
    BY <1>5, <2>1
  <2>2. CASE messages' = Append(messages, [c |-> c, status |-> cl[c].res])
             /\ cl' = [cl EXCEPT ![c].pc = "wait"] /\ acks' = acks
    <3>1. [cl[c] EXCEPT !.pc = "wait"] \in ClientRecord
      BY <1>b DEF ClientRecord
    <3>2. [c |-> c, status |-> cl[c].res] \in QueuedResponse
      BY <1>b DEF QueuedResponse
    <3>3. messages' \in Seq(QueuedResponse)
      BY <1>a, <2>2, <3>2
    <3>4. cl' = [cl EXCEPT ![c] = [cl[c] EXCEPT !.pc = "wait"]]
      BY <2>2
    <3> QED BY <1>a, <2>2, <3>1, <3>3, <3>4, ReplaceClient DEF ClientsTyped
  <2> QED BY <1>6, <2>1, <2>2 DEF ClientForward
<1>7. ASSUME NEW c \in Clients, ClientTxDone(c) PROVE ClientsTyped'
  <2>1. [cl[c] EXCEPT !.tx = "done"] \in ClientRecord
    BY <1>b DEF ClientRecord
  <2>2. cl' = [cl EXCEPT ![c] = [cl[c] EXCEPT !.tx = "done"]] /\ UNCHANGED <<acks, messages>>
    BY <1>7 DEF ClientTxDone, queues
  <2> QED BY <1>a, <2>1, <2>2, ReplaceClient DEF ClientsTyped
<1>8. ASSUME NEW c \in Clients, NEW s \in {"1xx", "ok"}, ReadResponse(c, s) PROVE ClientsTyped'
  <2>1. [cl[c] EXCEPT !.tx = "final"] \in ClientRecord
    BY <1>b DEF ClientRecord
  <2>2. cl' = cl \/ cl' = [cl EXCEPT ![c] = [cl[c] EXCEPT !.tx = "final"]]
    BY <1>8 DEF ReadResponse
  <2>3. UNCHANGED <<acks, messages>>
    BY <1>8 DEF ReadResponse, queues
  <2> QED BY <1>a, <2>1, <2>2, <2>3, ReplaceClient DEF ClientsTyped
<1>9. ASSUME LoopResponse PROVE ClientsTyped'
  <2>1. /\ messages # <<>> /\ messages' = Tail(messages) /\ acks' = acks
        /\ cl' = [cl EXCEPT ![Head(messages).c].seen = @ \cup ({Head(messages).status} \cap Finals)]
    BY <1>9 DEF LoopResponse
  <2>2. /\ Head(messages) \in QueuedResponse
        /\ Tail(messages) \in Seq(QueuedResponse)
    BY <1>a, <2>1, HeadTailProperties
  <2>3. PICK c \in Clients : c = Head(messages).c
    BY <2>2 DEF QueuedResponse
  <2>4. [cl[c] EXCEPT !.seen = @ \cup ({Head(messages).status} \cap Finals)] \in ClientRecord
    BY <1>b DEF ClientRecord
  <2>5. cl' = [cl EXCEPT ![c] = [cl[c] EXCEPT !.seen = @ \cup ({Head(messages).status} \cap Finals)]]
    BY <2>1, <2>3
  <2> QED BY <1>a, <2>1, <2>2, <2>4, <2>5, ReplaceClient DEF ClientsTyped
<1>10. ASSUME CloseMarks PROVE ClientsTyped'
  <2>1. ASSUME NEW c \in Clients PROVE [cl[c] EXCEPT !.tx = "done"] \in ClientRecord
    BY <1>b DEF ClientRecord
  <2>2. /\ cl' = [c \in Clients |-> IF c \in Listed THEN [cl[c] EXCEPT !.tx = "done"] ELSE cl[c]]
        /\ UNCHANGED <<acks, messages>>
    BY <1>10 DEF CloseMarks, queues
  <2>3. cl' \in [Clients -> ClientRecord]
    BY <1>b, <2>1, <2>2
  <2> QED BY <1>a, <2>2, <2>3 DEF ClientsTyped
<1>11. CASE UNCHANGED <<cl, acks, messages>>
  BY <1>a, <1>11 DEF ClientsTyped
<1>12. ASSUME NEW c \in Clients, ClientEnds(c) PROVE ClientsTyped'
  BY <1>5, <1>12 DEF ClientEnds
<1> QED
  BY <1>1, <1>2, <1>3, <1>4, <1>6, <1>7, <1>8, <1>9, <1>10, <1>11, <1>12, ClientsChange

\* A step keeps the types of the server transactions.
LEMMA ServersStep == ServersTyped /\ [Next]_vars => ServersTyped'
<1> SUFFICES ASSUME ServersTyped, [Next]_vars PROVE ServersTyped'
  OBVIOUS
<1>a. /\ sv \in [Requests -> ServerRecord] /\ accepted \in [Requests -> {"none", "on", "acked"}]
      /\ requests \in Seq(QueuedRequest)
  BY DEF ServersTyped
<1>b. ASSUME NEW k \in Requests PROVE sv[k] \in ServerRecord /\ sv[k].handled + 1 \in Nat /\ sv[k].forgotten + 1 \in Nat
  BY <1>a, <1>b DEF ServerRecord
<1>c. ASSUME requests # <<>>
      PROVE  /\ Head(requests) \in QueuedRequest
             /\ Tail(requests) \in Seq(QueuedRequest)
  BY <1>a, <1>c, HeadTailProperties
<1>1. ASSUME NEW k \in Requests, ReadRequest(k) PROVE ServersTyped'
  <2>1. [ack |-> FALSE, k |-> k] \in QueuedRequest
    BY DEF QueuedRequest
  <2>2. requests' = requests \/ requests' = Append(requests, [ack |-> FALSE, k |-> k])
    BY <1>1 DEF ReadRequest
  <2>3. UNCHANGED <<sv, accepted>>
    BY <1>1 DEF ReadRequest
  <2> QED BY <1>a, <2>1, <2>2, <2>3 DEF ServersTyped
<1>2. ASSUME NEW k \in Requests, ReadAck(k) PROVE ServersTyped'
  <2>1. [ack |-> TRUE, k |-> k] \in QueuedRequest
    BY DEF QueuedRequest
  <2>2. requests' = Append(requests, [ack |-> TRUE, k |-> k]) /\ UNCHANGED <<sv, accepted>>
    BY <1>2 DEF ReadAck, serverVars
  <2> QED BY <1>a, <2>1, <2>2 DEF ServersTyped
<1>3. ASSUME NEW k \in Requests, Accept(k) PROVE ServersTyped'
  <2>1. [sv[k] EXCEPT !.owed = "none"] \in ServerRecord
    BY <1>b DEF ServerRecord
  <2>2. sv' = [sv EXCEPT ![k] = [sv[k] EXCEPT !.owed = "none"]]
    BY <1>3 DEF Accept
  <2>3. accepted' \in [Requests -> {"none", "on", "acked"}] /\ requests' = requests
    BY <1>a, <1>3 DEF Accept, queues
  <2> QED BY <1>a, <2>1, <2>2, <2>3, ReplaceServer DEF ServersTyped
<1>4. ASSUME NEW k \in Requests, AcceptedEnds(k) \/ AcceptedExpires(k) PROVE ServersTyped'
  <2>1. accepted' = [accepted EXCEPT ![k] = "none"] /\ UNCHANGED <<sv, requests>>
    BY <1>4 DEF AcceptedEnds, AcceptedExpires, queues
  <2> QED BY <1>a, <2>1 DEF ServersTyped
<1>5. ASSUME NEW k \in Requests, ServerEnds(k) \/ ServerExpires(k) PROVE ServersTyped'
  <2> DEFINE o == IF sv[k].owed = "accept" THEN sv[k].owed ELSE "none"
             n == sv[k].forgotten + 1
  <2>1. sv' = [sv EXCEPT ![k] = [sv[k] EXCEPT !.live = FALSE, !.owed = o, !.forgotten = n]]
    BY <1>5 DEF ServerEnds, ServerExpires, ServerGone
  <2>0. o \in {"none", "accept"} /\ n \in Nat
    BY <1>b
  <2> HIDE DEF o, n
  <2>2. [sv[k] EXCEPT !.live = FALSE, !.owed = o, !.forgotten = n] \in ServerRecord
    BY <1>b, <2>0 DEF ServerRecord
  <2>3. UNCHANGED <<accepted, requests>>
    BY <1>5 DEF ServerEnds, ServerExpires, ServerGone, queues
  <2> QED BY <1>a, <2>1, <2>2, <2>3, ReplaceServer DEF ServersTyped
<1>6. ASSUME NEW k \in Requests, NEW s \in {"1xx", "ok", "failed"}, Respond(k, s) PROVE ServersTyped'
  <2>1. PICK o \in {"none", "respond", "accept"} :
          sv' = [sv EXCEPT ![k] = [sv[k] EXCEPT !.resp = s, !.owed = o]]
    BY <1>6 DEF Respond
  <2>2. [sv[k] EXCEPT !.resp = s, !.owed = o] \in ServerRecord
    BY <1>b DEF ServerRecord, Statuses
  <2>3. UNCHANGED <<accepted, requests>>
    BY <1>6 DEF Respond, queues
  <2> QED BY <1>a, <2>1, <2>2, <2>3, ReplaceServer DEF ServersTyped
<1>7. ASSUME LoopRequest PROVE ServersTyped'
  <2>1. requests # <<>> /\ requests' = Tail(requests) /\ accepted' = accepted
    BY <1>7 DEF LoopRequest
  <2>2. PICK k \in Requests : k = Head(requests).k
    BY <1>c, <2>1 DEF QueuedRequest
  <2> DEFINE n == sv[k].handled + 1
  <2>3. \/ sv' = sv
        \/ sv' = [sv EXCEPT ![k] = [sv[k] EXCEPT !.live = TRUE, !.resp = "none", !.owed = "respond",
                                                 !.handled = n]]
    BY <1>7, <2>2 DEF LoopRequest, IncomingRequest
  <2>4. [sv[k] EXCEPT !.live = TRUE, !.resp = "none", !.owed = "respond", !.handled = n] \in ServerRecord
    <3>1. n \in Nat
      BY <1>b
    <3> HIDE DEF n
    <3> QED BY <1>b, <3>1 DEF ServerRecord, Statuses
  <2> QED BY <1>a, <1>c, <2>1, <2>3, <2>4, ReplaceServer DEF ServersTyped
<1>8. ASSUME LoopAck PROVE ServersTyped'
  <2>1. requests # <<>> /\ requests' = Tail(requests) /\ sv' = sv
    BY <1>8 DEF LoopAck
  <2>2. PICK k \in Requests : k = Head(requests).k
    BY <1>c, <2>1 DEF QueuedRequest
  <2>3. accepted' = [accepted EXCEPT ![k] = IF @ = "on" THEN "acked" ELSE @]
    BY <1>8, <2>2 DEF LoopAck
  <2>4. accepted' \in [Requests -> {"none", "on", "acked"}]
    BY <1>a, <2>3
  <2> QED BY <1>a, <1>c, <2>1, <2>4 DEF ServersTyped
<1>9. CASE UNCHANGED <<sv, accepted, requests>>
  BY <1>a, <1>9 DEF ServersTyped
<1> QED
  BY <1>1, <1>2, <1>3, <1>4, <1>5, <1>6, <1>7, <1>8, <1>9, ServersChange

\* A step keeps the types of the reader and the loop.
LEMMA ReaderStep == ReaderTyped /\ [Next]_vars => ReaderTyped'
<1> SUFFICES ASSUME ReaderTyped, [Next]_vars PROVE ReaderTyped'
  OBVIOUS
<1> USE DEF ReaderTyped, Statuses
<1>1. ASSUME NEW c \in Clients, ClientTakes(c) PROVE ReaderTyped'
  BY <1>1 DEF ClientTakes, Reading
<1>2. ASSUME NEW c \in Clients, NEW s \in {"1xx", "ok"}, ReadResponse(c, s) PROVE ReaderTyped'
  BY <1>2 DEF ReadResponse
<1>3. CASE HandoverEnds
  BY <1>3 DEF HandoverEnds, Reading
<1>4. CASE ReadFails
  BY <1>4 DEF ReadFails
<1>5. CASE LoopRequest
  BY <1>5 DEF LoopRequest, IncomingRequest
<1>6. CASE LoopAck \/ LoopHandled \/ LoopStops
  BY <1>6 DEF LoopAck, LoopHandled, LoopStops
<1>7. CASE UNCHANGED <<reader, loop>>
  BY <1>7
<1> QED
  BY <1>1, <1>2, <1>3, <1>4, <1>5, <1>6, <1>7, ReaderChange

\* A step keeps the order of Close; neither the context nor the mark is ever taken back.
LEMMA CloserStep ==
  CloseInOrder /\ [Next]_vars => CloseInOrder' /\ (ctx => ctx') /\ (closed => closed')
<1> SUFFICES ASSUME CloseInOrder, [Next]_vars
             PROVE  CloseInOrder' /\ (ctx => ctx') /\ (closed => closed')
  OBVIOUS
<1>1. UNCHANGED <<ctx, closed, closer>> \/ CloseBegins \/ CloseMarks \/ CloseReturns
  BY CloserChange
<1>2. CASE CloseBegins
  BY <1>2 DEF CloseInOrder, CloseBegins
<1>5. CASE CloseMarks
  <2>1. closer = "marking" /\ closed' = TRUE /\ closer' = "waiting" /\ ctx' = ctx
    BY <1>5 DEF CloseMarks
  <2> QED BY <2>1 DEF CloseInOrder
<1>3. CASE CloseReturns
  BY <1>3 DEF CloseInOrder, CloseReturns
<1>4. CASE UNCHANGED <<ctx, closed, closer>>
  BY <1>4 DEF CloseInOrder
<1> QED
  BY <1>1, <1>2, <1>3, <1>4, <1>5

-----------------------------------------------------------------------------
(* Limits *)

\* What is taken out of a table, or put into one that has room, leaves it within its limit.
LEMMA TableShrinks ==
  ASSUME NEW T, NEW N \in Nat, IsFiniteSet(T), Cardinality(T) <= N, NEW U, U \subseteq T
  PROVE  IsFiniteSet(U) /\ Cardinality(U) <= N
<1>1. IsFiniteSet(U) /\ Cardinality(U) <= Cardinality(T)
  BY FS_Subset
<1> QED
  BY <1>1, FS_CardinalityType

LEMMA TableGrows ==
  ASSUME NEW T, NEW N \in Nat, IsFiniteSet(T), Cardinality(T) < N, NEW x, NEW U, U \subseteq T \cup {x}
  PROVE  IsFiniteSet(U) /\ Cardinality(U) <= N
<1>1. Cardinality(T) \in Nat
  BY FS_CardinalityType
<1>2. IsFiniteSet(T \cup {x})
      /\ Cardinality(T \cup {x}) = IF x \in T THEN Cardinality(T) ELSE Cardinality(T) + 1
  BY FS_AddElement
<1>3. Cardinality(T \cup {x}) \in Nat
  BY <1>2, FS_CardinalityType
<1> QED
  BY <1>1, <1>2, <1>3, TableShrinks

\* A request of ours is listed when there is room for it; no other step lists one.
LEMMA ListedStep ==
  ClientsTyped /\ [Next]_vars =>
    \/ Listed' \subseteq Listed
    \/ /\ ~closed /\ Cardinality(Listed) < MaxClients
       /\ \E c \in Clients : Listed' \subseteq Listed \cup {c}
<1> DEFINE Goal == \/ Listed' \subseteq Listed
                   \/ /\ ~closed /\ Cardinality(Listed) < MaxClients
                      /\ \E c \in Clients : Listed' \subseteq Listed \cup {c}
<1> SUFFICES ASSUME ClientsTyped, [Next]_vars PROVE Goal
  OBVIOUS
<1>a. cl \in [Clients -> ClientRecord] /\ messages \in Seq(QueuedResponse)
  BY DEF ClientsTyped
<1>1. ASSUME NEW c \in Clients, SendRequest(c) PROVE Goal
  <2>1. CASE cl' = [cl EXCEPT ![c].pc = "refused"]
    BY <1>a, <2>1 DEF Listed, ClientRecord
  <2>2. CASE ~closed /\ Cardinality(Listed) < MaxClients
             /\ cl' = [cl EXCEPT ![c].pc = "wait", ![c].tx = "calling"]
    <3>1. Listed' \subseteq Listed \cup {c}
      BY <1>a, <2>2 DEF Listed, ClientRecord
    <3> QED BY <2>2, <3>1
  <2> QED BY <1>1, <2>1, <2>2 DEF SendRequest
<1>2. ASSUME NEW c \in Clients, CancelRequest(c) \/ SendAck(c) \/ ClientTxDone(c) PROVE Goal
  <2>1. \/ cl' = [cl EXCEPT ![c].cancelled = TRUE]
        \/ cl' = [cl EXCEPT ![c].res = "acked"]
        \/ cl' = [cl EXCEPT ![c].tx = "done"]
    BY <1>2 DEF CancelRequest, SendAck, ClientTxDone
  <2>2. \A d \in Clients : cl'[d].pc = cl[d].pc
    BY <1>a, <2>1 DEF ClientRecord
  <2> QED BY <2>2 DEF Listed
<1>3. ASSUME NEW c \in Clients, ClientTakes(c) PROVE Goal
  <2>1. /\ cl[c].pc = "wait"
        /\ cl' = [cl EXCEPT ![c].pc = "forward", ![c].res = reader.status,
                            ![c].final = @ \/ reader.status \in Finals]
    BY <1>3 DEF ClientTakes
  <2>2. c \in Listed /\ \A d \in Clients \ {c} : cl'[d] = cl[d]
    BY <1>a, <2>1 DEF Listed
  <2> QED BY <2>2 DEF Listed
<1>4. ASSUME NEW c \in Clients, ClientGone(c) PROVE Goal
  <2>1. cl'[c].pc = "over" /\ \A d \in Clients \ {c} : cl'[d] = cl[d]
    BY <1>a, <1>4 DEF ClientGone, ClientRecord
  <2> QED BY <2>1 DEF Listed
<1>5. ASSUME NEW c \in Clients, ClientForward(c) PROVE Goal
  <2>1. CASE cl[c].pc = "forward" /\ cl' = [cl EXCEPT ![c].pc = "wait"]
    <3>1. c \in Listed /\ \A d \in Clients \ {c} : cl'[d] = cl[d]
      BY <1>a, <2>1 DEF Listed
    <3> QED BY <3>1 DEF Listed
  <2> QED BY <1>4, <1>5, <2>1 DEF ClientForward
<1>6. ASSUME NEW c \in Clients, NEW s \in {"1xx", "ok"}, ReadResponse(c, s) PROVE Goal
  <2>1. \A d \in Clients : cl'[d].pc = cl[d].pc
    BY <1>a, <1>6 DEF ReadResponse, ClientRecord
  <2> QED BY <2>1 DEF Listed
<1>7. CASE LoopResponse
  <2>1. \A d \in Clients : cl'[d].pc = cl[d].pc
    BY <1>a, <1>7 DEF LoopResponse, ClientRecord
  <2> QED BY <2>1 DEF Listed
<1>8. CASE CloseMarks
  <2>1. \A d \in Clients : cl'[d].pc = cl[d].pc
    BY <1>a, <1>8 DEF CloseMarks, ClientRecord
  <2> QED BY <2>1 DEF Listed
<1>9. CASE UNCHANGED <<cl, acks, messages>>
  BY <1>9 DEF Listed
<1>10. ASSUME NEW c \in Clients, ClientEnds(c) PROVE Goal
  BY <1>4, <1>10 DEF ClientEnds
<1> QED
  BY <1>1, <1>2, <1>3, <1>5, <1>6, <1>7, <1>8, <1>9, <1>10, ClientsChange

\* An INVITE's ACK is kept when there is room for it.
LEMMA AcksStep ==
  [Next]_vars =>
    \/ acks' \subseteq acks
    \/ Cardinality(acks) < MaxClients /\ \E c \in Clients : acks' \subseteq acks \cup {c}
<1> SUFFICES ASSUME [Next]_vars
             PROVE  \/ acks' \subseteq acks
                    \/ /\ Cardinality(acks) < MaxClients
                       /\ \E c \in Clients : acks' \subseteq acks \cup {c}
  OBVIOUS
<1>1. ASSUME NEW c \in Clients, SendAck(c)
      PROVE  acks' = acks \/ (Cardinality(acks) < MaxClients /\ acks' = acks \cup {c})
  BY <1>1 DEF SendAck
<1>2. ASSUME NEW c \in Clients,
             \/ SendRequest(c) \/ CancelRequest(c) \/ ClientTakes(c) \/ ClientForward(c) \/ ClientEnds(c)
             \/ ClientTxDone(c) \/ \E s \in {"1xx", "ok"} : ReadResponse(c, s)
      PROVE  acks' \subseteq acks
  BY <1>2 DEF SendRequest, CancelRequest, ClientTakes, ClientForward, ClientEnds, ClientGone, ClientTxDone,
              ReadResponse
<1>3. CASE LoopResponse \/ CloseMarks \/ UNCHANGED <<cl, acks, messages>>
  BY <1>3 DEF LoopResponse, CloseMarks
<1> QED
  BY <1>1, <1>2, <1>3, ClientsChange

\* A request of the peer's is served when there is room and the endpoint is open.
LEMMA ServedStep ==
  ServersTyped /\ [Next]_vars =>
    \/ Served' \subseteq Served
    \/ /\ ~closed /\ Cardinality(Served) < MaxServers
       /\ \E k \in Requests : Served' \subseteq Served \cup {k}
<1> DEFINE Goal == \/ Served' \subseteq Served
                   \/ /\ ~closed /\ Cardinality(Served) < MaxServers
                      /\ \E k \in Requests : Served' \subseteq Served \cup {k}
<1> SUFFICES ASSUME ServersTyped, [Next]_vars PROVE Goal
  OBVIOUS
<1>a. sv \in [Requests -> ServerRecord] /\ requests \in Seq(QueuedRequest)
  BY DEF ServersTyped
<1>1. ASSUME NEW k \in Requests,
             Accept(k) \/ \E s \in {"1xx", "ok", "failed"} : Respond(k, s)
      PROVE  Goal
  <2>1. \A j \in Requests \ {k} : sv'[j] = sv[j]
    BY <1>a, <1>1 DEF Accept, Respond
  <2>2. sv'[k].live = sv[k].live
    <3>1. CASE Accept(k)
      BY <1>a, <3>1 DEF Accept, ServerRecord
    <3>2. ASSUME NEW s \in {"1xx", "ok", "failed"}, Respond(k, s) PROVE sv'[k].live = sv[k].live
      BY <1>a, <3>2 DEF Respond, ServerRecord
    <3> QED BY <1>1, <3>1, <3>2
  <2> QED BY <2>1, <2>2 DEF Served
<1>2. ASSUME NEW k \in Requests, ServerEnds(k) \/ ServerExpires(k) PROVE Goal
  <2>1. /\ sv' = [sv EXCEPT ![k].live = FALSE, ![k].owed = IF @ = "accept" THEN @ ELSE "none",
                            ![k].forgotten = @ + 1]
        /\ sv[k].live
    BY <1>2 DEF ServerEnds, ServerExpires, ServerGone
  <2>2. k \in Served /\ \A j \in Requests \ {k} : sv'[j] = sv[j]
    BY <1>a, <2>1 DEF Served
  <2> QED BY <2>2 DEF Served
<1>3. CASE LoopRequest
  <2>0. Head(requests) \in QueuedRequest
    <3>1. requests # <<>>
      BY <1>3 DEF LoopRequest
    <3> QED BY <1>a, <3>1, HeadTailProperties
  <2>1. PICK k \in Requests : k = Head(requests).k
    BY <2>0 DEF QueuedRequest
  <2>2. CASE sv' = sv
    BY <2>2 DEF Served
  <2>3. CASE /\ ~closed /\ Cardinality(Served) < MaxServers
             /\ sv' = [sv EXCEPT ![k].live = TRUE, ![k].resp = "none", ![k].owed = "respond",
                                 ![k].handled = @ + 1]
    <3>1. \A j \in Requests \ {k} : sv'[j] = sv[j]
      BY <1>a, <2>3
    <3>2. Served' \subseteq Served \cup {k}
      BY <3>1 DEF Served
    <3> QED BY <2>3, <3>2
  <2> QED BY <1>3, <2>1, <2>2, <2>3 DEF LoopRequest, IncomingRequest
<1>4. ASSUME NEW k \in Requests,
             ReadRequest(k) \/ ReadAck(k) \/ AcceptedEnds(k) \/ AcceptedExpires(k)
      PROVE  Goal
  BY <1>4 DEF ReadRequest, ReadAck, AcceptedEnds, AcceptedExpires, serverVars, Served
<1>5. CASE LoopAck \/ UNCHANGED <<sv, accepted, requests>>
  BY <1>5 DEF LoopAck, Served
<1> QED
  BY <1>1, <1>2, <1>3, <1>4, <1>5, ServersChange

\* No step exceeds the limit of a table.
LEMMA TablesStep == ClientsTyped /\ ServersTyped /\ TablesBounded /\ [Next]_vars => TablesBounded'
<1> SUFFICES ASSUME ClientsTyped, ServersTyped, TablesBounded, [Next]_vars PROVE TablesBounded'
  OBVIOUS
<1>0. MaxClients \in Nat /\ MaxServers \in Nat
  BY UdpAssumption
<1>1. (IsFiniteSet(Listed) /\ Cardinality(Listed) <= MaxClients)'
  <2>1. IsFiniteSet(Listed) /\ Cardinality(Listed) <= MaxClients
    BY DEF TablesBounded
  <2>2. \/ Listed' \subseteq Listed
        \/ Cardinality(Listed) < MaxClients /\ \E c \in Clients : Listed' \subseteq Listed \cup {c}
    BY ListedStep
  <2> QED BY <1>0, <2>1, <2>2, TableShrinks, TableGrows
<1>2. (IsFiniteSet(acks) /\ Cardinality(acks) <= MaxClients)'
  <2>1. IsFiniteSet(acks) /\ Cardinality(acks) <= MaxClients
    BY DEF TablesBounded
  <2> QED BY <1>0, <2>1, AcksStep, TableShrinks, TableGrows
<1>3. (IsFiniteSet(Served) /\ Cardinality(Served) <= MaxServers)'
  <2>1. IsFiniteSet(Served) /\ Cardinality(Served) <= MaxServers
    BY DEF TablesBounded
  <2>2. \/ Served' \subseteq Served
        \/ Cardinality(Served) < MaxServers /\ \E k \in Requests : Served' \subseteq Served \cup {k}
    BY ServedStep
  <2> QED BY <1>0, <2>1, <2>2, TableShrinks, TableGrows
<1> QED
  BY <1>1, <1>2, <1>3 DEF TablesBounded

\* What is queued finds room.
LEMMA QueuesStep == ClientsTyped /\ ServersTyped /\ QueuesBounded /\ [Next]_vars => QueuesBounded'
<1> SUFFICES ASSUME ClientsTyped, ServersTyped, QueuesBounded, [Next]_vars PROVE QueuesBounded'
  OBVIOUS
<1>0. /\ messages \in Seq(QueuedResponse) /\ requests \in Seq(QueuedRequest) /\ QueueLen \in Nat
      /\ Len(messages) <= QueueLen /\ Len(requests) <= QueueLen
  BY UdpAssumption DEF ClientsTyped, ServersTyped, QueuesBounded
<1>1. Len(messages') <= QueueLen
  <2>1. \/ messages' = messages
        \/ Len(messages) < QueueLen /\ \E m \in QueuedResponse : messages' = Append(messages, m)
        \/ messages # <<>> /\ messages' = Tail(messages)
    <3>1. ASSUME NEW c \in Clients, ClientForward(c)
          PROVE  \/ messages' = messages
                 \/ /\ Len(messages) < QueueLen
                    /\ messages' = Append(messages, [c |-> c, status |-> cl[c].res])
      BY <3>1 DEF ClientForward, ClientGone, queues
    <3>2. ASSUME NEW c \in Clients PROVE [c |-> c, status |-> cl[c].res] \in QueuedResponse
      BY <3>2 DEF ClientsTyped, ClientRecord, QueuedResponse
    <3>3. ASSUME NEW c \in Clients,
                 \/ SendRequest(c) \/ CancelRequest(c) \/ SendAck(c) \/ ClientTakes(c) \/ ClientEnds(c)
                 \/ ClientTxDone(c) \/ \E s \in {"1xx", "ok"} : ReadResponse(c, s)
          PROVE  messages' = messages
      BY <3>3 DEF SendRequest, CancelRequest, SendAck, ClientTakes, ClientEnds, ClientGone, ClientTxDone,
                  ReadResponse, queues
    <3>4. CASE LoopResponse
      BY <3>4 DEF LoopResponse
    <3>5. CASE CloseMarks \/ UNCHANGED <<cl, acks, messages>>
      BY <3>5 DEF CloseMarks, queues
    <3> QED BY <3>1, <3>2, <3>3, <3>4, <3>5, ClientsChange
  <2>2. ASSUME messages # <<>> PROVE Len(Tail(messages)) = Len(messages) - 1
    BY <1>0, <2>2, HeadTailProperties
  <2>3. Len(messages) \in Nat
    BY <1>0
  <2> QED BY <1>0, <2>1, <2>2, <2>3
<1>2. Len(requests') <= QueueLen
  <2>1. \/ requests' = requests
        \/ Len(requests) < QueueLen /\ \E r \in QueuedRequest : requests' = Append(requests, r)
        \/ requests # <<>> /\ requests' = Tail(requests)
    <3>1. ASSUME NEW k \in Requests
          PROVE  [ack |-> FALSE, k |-> k] \in QueuedRequest /\ [ack |-> TRUE, k |-> k] \in QueuedRequest
      BY DEF QueuedRequest
    <3>2. ASSUME NEW k \in Requests, ReadRequest(k)
          PROVE  \/ requests' = requests
                 \/ Len(requests) < QueueLen /\ requests' = Append(requests, [ack |-> FALSE, k |-> k])
      BY <3>2 DEF ReadRequest
    <3>3. ASSUME NEW k \in Requests, ReadAck(k)
          PROVE  Len(requests) < QueueLen /\ requests' = Append(requests, [ack |-> TRUE, k |-> k])
      BY <3>3 DEF ReadAck
    <3>4. ASSUME NEW k \in Requests,
                 \/ Accept(k) \/ AcceptedEnds(k) \/ AcceptedExpires(k) \/ ServerEnds(k) \/ ServerExpires(k)
                 \/ \E s \in {"1xx", "ok", "failed"} : Respond(k, s)
          PROVE  requests' = requests
      BY <3>4 DEF Accept, AcceptedEnds, AcceptedExpires, ServerEnds, ServerExpires, ServerGone, Respond, queues
    <3>5. CASE LoopRequest \/ LoopAck
      BY <3>5 DEF LoopRequest, LoopAck
    <3> QED BY <3>1, <3>2, <3>3, <3>4, <3>5, ServersChange
  <2>2. ASSUME requests # <<>> PROVE Len(Tail(requests)) = Len(requests) - 1
    BY <1>0, <2>2, HeadTailProperties
  <2>3. Len(requests) \in Nat
    BY <1>0
  <2> QED BY <1>0, <2>1, <2>2, <2>3
<1> QED
  BY <1>1, <1>2 DEF QueuesBounded

-----------------------------------------------------------------------------
(* What is delivered *)

\* A request goes to its handler only when no transaction is kept for it.
LEMMA HandledStep == ServersTyped /\ HandledByOne /\ [Next]_vars => HandledByOne'
<1> SUFFICES ASSUME ServersTyped, HandledByOne, [Next]_vars PROVE HandledByOne'
  OBVIOUS
<1>a. /\ sv \in [Requests -> ServerRecord] /\ requests \in Seq(QueuedRequest)
      /\ \A k \in Requests : sv[k].handled <= sv[k].forgotten + (IF sv[k].live THEN 1 ELSE 0)
  BY DEF ServersTyped, HandledByOne
<1>b. ASSUME NEW k \in Requests
      PROVE  sv[k].handled \in Nat /\ sv[k].forgotten \in Nat
  BY <1>a DEF ServerRecord
<1>1. ASSUME NEW k \in Requests,
             Accept(k) \/ \E s \in {"1xx", "ok", "failed"} : Respond(k, s)
      PROVE  HandledByOne'
  <2>1. \A j \in Requests \ {k} : sv'[j] = sv[j]
    BY <1>a, <1>1 DEF Accept, Respond
  <2>2. sv'[k].live = sv[k].live /\ sv'[k].handled = sv[k].handled /\ sv'[k].forgotten = sv[k].forgotten
    <3>1. CASE Accept(k)
      BY <1>a, <3>1 DEF Accept, ServerRecord
    <3>2. ASSUME NEW s \in {"1xx", "ok", "failed"}, Respond(k, s)
          PROVE  /\ sv'[k].live = sv[k].live /\ sv'[k].handled = sv[k].handled
                 /\ sv'[k].forgotten = sv[k].forgotten
      BY <1>a, <3>2 DEF Respond, ServerRecord
    <3> QED BY <1>1, <3>1, <3>2
  <2> QED BY <1>a, <2>1, <2>2 DEF HandledByOne
<1>2. ASSUME NEW k \in Requests, ServerEnds(k) \/ ServerExpires(k) PROVE HandledByOne'
  <2>1. /\ sv[k].live
        /\ sv' = [sv EXCEPT ![k].live = FALSE, ![k].owed = IF @ = "accept" THEN @ ELSE "none",
                            ![k].forgotten = @ + 1]
    BY <1>2 DEF ServerEnds, ServerExpires, ServerGone
  <2>2. \A j \in Requests \ {k} : sv'[j] = sv[j]
    BY <1>a, <2>1
  <2>3. sv'[k].live = FALSE /\ sv'[k].handled = sv[k].handled /\ sv'[k].forgotten = sv[k].forgotten + 1
    BY <1>a, <2>1 DEF ServerRecord
  <2>4. sv'[k].handled <= sv'[k].forgotten + (IF sv'[k].live THEN 1 ELSE 0)
    BY <1>a, <1>b, <2>1, <2>3
  <2> QED BY <1>a, <2>2, <2>4 DEF HandledByOne
<1>3. CASE LoopRequest
  <2>0. Head(requests) \in QueuedRequest
    <3>1. requests # <<>>
      BY <1>3 DEF LoopRequest
    <3> QED BY <1>a, <3>1, HeadTailProperties
  <2>1. PICK k \in Requests : k = Head(requests).k
    BY <2>0 DEF QueuedRequest
  <2>2. CASE sv' = sv
    BY <1>a, <2>2 DEF HandledByOne
  <2>3. CASE /\ ~sv[k].live
             /\ sv' = [sv EXCEPT ![k].live = TRUE, ![k].resp = "none", ![k].owed = "respond",
                                 ![k].handled = @ + 1]
    <3>1. \A j \in Requests \ {k} : sv'[j] = sv[j]
      BY <1>a, <2>3
    <3>2. sv'[k].live = TRUE /\ sv'[k].handled = sv[k].handled + 1 /\ sv'[k].forgotten = sv[k].forgotten
      BY <1>a, <2>3 DEF ServerRecord
    <3>3. sv'[k].handled <= sv'[k].forgotten + (IF sv'[k].live THEN 1 ELSE 0)
      BY <1>a, <1>b, <2>3, <3>2
    <3> QED BY <1>a, <3>1, <3>3 DEF HandledByOne
  <2> QED BY <1>3, <2>1, <2>2, <2>3 DEF LoopRequest, IncomingRequest
<1>4. ASSUME NEW k \in Requests,
             ReadRequest(k) \/ ReadAck(k) \/ AcceptedEnds(k) \/ AcceptedExpires(k)
      PROVE  HandledByOne'
  <2>1. sv' = sv
    BY <1>4 DEF ReadRequest, ReadAck, AcceptedEnds, AcceptedExpires, serverVars
  <2> QED BY <1>a, <2>1 DEF HandledByOne
<1>5. CASE LoopAck \/ UNCHANGED <<sv, accepted, requests>>
  <2>1. sv' = sv
    BY <1>5 DEF LoopAck
  <2> QED BY <1>a, <2>1 DEF HandledByOne
<1> QED
  BY <1>1, <1>2, <1>3, <1>4, <1>5, ServersChange

\* A transaction that is not touched keeps its final response while messages are added.
LEMMA OthersKeep ==
  ASSUME NEW d \in Clients, FinalKept(d), cl'[d] = cl[d], ctx => ctx',
         \A m : (\E i \in DOMAIN messages : messages[i] = m) => (\E i \in DOMAIN messages' : messages'[i] = m)
  PROVE  FinalKept(d)'
BY DEF FinalKept, Held

\* A message that is queued is there to be found, and so are those before it.
LEMMA AppendKeeps ==
  ASSUME NEW S, NEW q \in Seq(S), NEW m \in S, NEW p, p = Append(q, m)
  PROVE  /\ \A n : (\E i \in DOMAIN q : q[i] = n) => (\E i \in DOMAIN p : p[i] = n)
         /\ \E i \in DOMAIN p : p[i] = m
<1>1. /\ DOMAIN p = 1 .. Len(q) + 1 /\ DOMAIN q = 1 .. Len(q) /\ Len(q) \in Nat
      /\ \A i \in 1 .. Len(q) : p[i] = q[i]
      /\ p[Len(q) + 1] = m
  BY AppendProperties, LenProperties
<1> QED
  BY <1>1

\* The first message is taken out and the others stay.
LEMMA TailKeeps ==
  ASSUME NEW S, NEW q \in Seq(S), q # <<>>, NEW p, p = Tail(q), NEW i \in DOMAIN q
  PROVE  q[i] = Head(q) \/ \E j \in DOMAIN p : p[j] = q[i]
<1>1. /\ DOMAIN q = 1 .. Len(q) /\ Len(q) \in Nat
      /\ DOMAIN p = 1 .. Len(q) - 1 /\ \A j \in 1 .. Len(q) - 1 : p[j] = q[j + 1]
  <2>1. Len(p) = Len(q) - 1 /\ p \in Seq(S) /\ \A j \in 1 .. Len(p) : p[j] = q[j + 1]
    BY HeadTailProperties
  <2> QED BY <2>1, LenProperties
<1>2. CASE i = 1
  BY <1>2
<1>3. CASE i # 1
  <2>1. i - 1 \in 1 .. Len(q) - 1 /\ p[i - 1] = q[i]
    BY <1>1, <1>3
  <2> QED BY <1>1, <2>1
<1> QED
  BY <1>2, <1>3

\* No step loses a final response on its way to the runtime.
LEMMA FinalsStep ==
  /\ ClientsTyped /\ ReaderTyped /\ CloseInOrder /\ HandsOver
  /\ (\A c \in Clients : FinalKept(c)) /\ [Next]_vars
  => HandsOver' /\ (\A c \in Clients : FinalKept(c)')
<1> SUFFICES ASSUME ClientsTyped, ReaderTyped, CloseInOrder, HandsOver, [Next]_vars,
                    \A c \in Clients : FinalKept(c)
             PROVE  HandsOver' /\ (\A c \in Clients : FinalKept(c)')
  OBVIOUS
<1>a. cl \in [Clients -> ClientRecord] /\ messages \in Seq(QueuedResponse)
  BY DEF ClientsTyped
<1>b. ctx => ctx'
  BY CloserStep
<1>c. HandsOver /\ (reader.pc = "pass" => reader.c \in Clients)
  BY DEF ReaderTyped
<1>e. ASSUME NEW c \in Clients, \A d \in Clients \ {c} : cl'[d] = cl[d], FinalKept(c)',
             \A m : (\E i \in DOMAIN messages : messages[i] = m)
                      => (\E i \in DOMAIN messages' : messages'[i] = m)
      PROVE  \A d \in Clients : FinalKept(d)'
  BY <1>b, <1>e, OthersKeep
<1>1. ASSUME NEW c \in Clients, SendRequest(c) \/ CancelRequest(c) \/ SendAck(c) \/ ClientTxDone(c)
      PROVE  HandsOver' /\ (\A d \in Clients : FinalKept(d)')
  <2>1. /\ UNCHANGED <<messages, reader, ctx>>
        /\ \/ cl[c].pc = "idle" /\ cl' = [cl EXCEPT ![c].pc = "refused"]
           \/ cl[c].pc = "idle" /\ cl' = [cl EXCEPT ![c].pc = "wait", ![c].tx = "calling"]
           \/ cl' = [cl EXCEPT ![c].cancelled = TRUE]
           \/ "ok" \in cl[c].seen /\ cl' = [cl EXCEPT ![c].res = "acked"]
           \/ cl' = [cl EXCEPT ![c].tx = "done"]
    BY <1>1 DEF SendRequest, CancelRequest, SendAck, ClientTxDone, closeVars, queues
  <2>2. \A d \in Clients \ {c} : cl'[d] = cl[d]
    BY <1>a, <2>1
  <2>3. cl'[c].final = cl[c].final /\ cl'[c].seen = cl[c].seen
    BY <1>a, <2>1 DEF ClientRecord
  <2>4. FinalKept(c)'
    <3>1. SUFFICES ASSUME cl'[c].final PROVE FinalKept(c)'
      BY DEF FinalKept
    <3>2. FinalKept(c) /\ cl[c].final
      BY <2>3, <3>1
    <3>3. /\ cl'[c].tx # "calling" /\ cl'[c].pc = cl[c].pc
          /\ cl'[c].res = cl[c].res \/ cl[c].seen # {}
      BY <1>a, <2>1, <3>2 DEF ClientRecord, FinalKept
    <3> QED BY <2>1, <2>3, <3>2, <3>3 DEF FinalKept, Held
  <2>5. HandsOver'
    <3>1. SUFFICES ASSUME reader.pc = "pass" PROVE HandsOver'
      BY <2>1 DEF HandsOver
    <3>2. /\ reader.c \in Clients /\ ~cl[reader.c].final /\ cl[reader.c].pc # "idle"
          /\ reader.status \in Finals => cl[reader.c].tx # "calling"
      BY <1>c, <3>1 DEF HandsOver
    <3>3. CASE reader.c = c
      <4>1. cl'[c].pc = cl[c].pc /\ (cl[c].tx # "calling" => cl'[c].tx # "calling")
        BY <1>a, <2>1, <3>2, <3>3 DEF ClientRecord
      <4> QED BY <2>1, <2>3, <3>2, <3>3, <4>1 DEF HandsOver
    <3> QED BY <2>1, <2>2, <3>2, <3>3 DEF HandsOver
  <2> QED BY <1>e, <2>1, <2>2, <2>4, <2>5
<1>2. ASSUME NEW c \in Clients, ClientTakes(c)
      PROVE  HandsOver' /\ (\A d \in Clients : FinalKept(d)')
  <2>1. /\ reader.pc = "pass" /\ reader.c = c /\ messages' = messages /\ reader' = Reading
        /\ cl' = [cl EXCEPT ![c].pc = "forward", ![c].res = reader.status,
                            ![c].final = @ \/ reader.status \in Finals]
    BY <1>2 DEF ClientTakes, queues
  <2>2. \A d \in Clients \ {c} : cl'[d] = cl[d]
    BY <1>a, <2>1
  <2>3. /\ cl'[c].pc = "forward" /\ cl'[c].res = reader.status /\ cl'[c].tx = cl[c].tx
        /\ cl'[c].final => reader.status \in Finals
    BY <1>a, <1>c, <2>1 DEF ClientRecord, HandsOver
  <2>4. FinalKept(c)'
    BY <1>c, <2>1, <2>3 DEF FinalKept, Held, HandsOver
  <2>5. HandsOver'
    BY <2>1 DEF HandsOver, Reading
  <2> QED BY <1>e, <2>1, <2>2, <2>4, <2>5
<1>3. ASSUME NEW c \in Clients, ClientGone(c), ctx \/ cl[c].pc # "forward"
      PROVE  HandsOver' /\ (\A d \in Clients : FinalKept(d)')
  <2>1. /\ cl' = [cl EXCEPT ![c].pc = "over", ![c].tx = "done", ![c].cancelled = FALSE]
        /\ UNCHANGED <<messages, reader, ctx>>
    BY <1>3 DEF ClientGone, closeVars, queues
  <2>2. \A d \in Clients \ {c} : cl'[d] = cl[d]
    BY <1>a, <2>1
  <2>3. /\ cl'[c].final = cl[c].final /\ cl'[c].pc = "over" /\ cl'[c].tx = "done"
        /\ cl'[c].seen = cl[c].seen
    BY <1>a, <2>1 DEF ClientRecord
  <2>4. FinalKept(c)'
    BY <1>3, <2>1, <2>3 DEF FinalKept, Held
  <2>5. HandsOver'
    BY <1>c, <2>1, <2>2, <2>3 DEF HandsOver
  <2> QED BY <1>e, <2>1, <2>2, <2>4, <2>5
<1>4. ASSUME NEW c \in Clients, ClientForward(c)
      PROVE  HandsOver' /\ (\A d \in Clients : FinalKept(d)')
  <2>1. CASE ctx /\ ClientGone(c)
    BY <1>3, <2>1
  <2> DEFINE m == [c |-> c, status |-> cl[c].res]
  <2>2. CASE /\ cl[c].pc = "forward" /\ messages' = Append(messages, m)
             /\ cl' = [cl EXCEPT ![c].pc = "wait"] /\ UNCHANGED <<reader, ctx>>
    <3>1. /\ \A n : (\E i \in DOMAIN messages : messages[i] = n)
                      => (\E i \in DOMAIN messages' : messages'[i] = n)
          /\ \E i \in DOMAIN messages' : messages'[i] = m
      <4>1. m \in QueuedResponse
        BY <1>a DEF ClientRecord, QueuedResponse
      <4> HIDE DEF m
      <4> QED BY <1>a, <2>2, <4>1, AppendKeeps
    <3>2. \A d \in Clients \ {c} : cl'[d] = cl[d]
      BY <1>a, <2>2
    <3>3. /\ cl'[c].final = cl[c].final /\ cl'[c].pc = "wait" /\ cl'[c].tx = cl[c].tx
          /\ cl'[c].seen = cl[c].seen /\ cl[c].seen \subseteq Finals
      BY <1>a, <2>2 DEF ClientRecord
    <3>4. FinalKept(c)'
      <4>1. SUFFICES ASSUME cl[c].final PROVE FinalKept(c)'
        BY <3>3 DEF FinalKept
      <4>2. cl[c].tx # "calling" /\ (cl[c].res \in Finals \/ cl[c].seen # {})
        BY <2>2, <4>1 DEF FinalKept
      <4>3. Held(c)'
        BY <3>1, <3>3, <4>2 DEF Held
      <4> QED BY <3>3, <4>2, <4>3 DEF FinalKept
    <3>5. HandsOver'
      BY <1>c, <2>2, <3>2, <3>3 DEF HandsOver
    <3> QED BY <1>e, <3>1, <3>2, <3>4, <3>5
  <2> QED BY <1>4, <2>1, <2>2 DEF ClientForward, closeVars
<1>5. ASSUME NEW c \in Clients, ClientEnds(c)
      PROVE  HandsOver' /\ (\A d \in Clients : FinalKept(d)')
  BY <1>3, <1>5 DEF ClientEnds
<1>6. ASSUME NEW c \in Clients, NEW s \in {"1xx", "ok"}, ReadResponse(c, s)
      PROVE  HandsOver' /\ (\A d \in Clients : FinalKept(d)')
  <2>1. CASE reader' = reader /\ cl' = cl
    <3>1. messages' = messages
      BY <1>6 DEF ReadResponse, queues
    <3>2. \A d \in Clients : FinalKept(d)'
      BY <1>b, <2>1, <3>1, OthersKeep
    <3> QED BY <1>c, <2>1, <3>2 DEF HandsOver
  <2>2. CASE reader' = [pc |-> "pass", c |-> c, status |-> s] /\ cl[c].tx = "calling"
             /\ cl' = IF s \in Finals THEN [cl EXCEPT ![c].tx = "final"] ELSE cl
    <3>1. messages' = messages /\ cl[c].pc # "idle"
      BY <1>6 DEF ReadResponse, queues, Listed
    <3>2. ~cl[c].final
      BY <2>2 DEF FinalKept
    <3>3. \A d \in Clients \ {c} : cl'[d] = cl[d]
      BY <1>a, <2>2
    <3>4. /\ cl'[c].final = cl[c].final /\ cl'[c].pc = cl[c].pc
          /\ s \in Finals => cl'[c].tx = "final"
      BY <1>a, <2>2 DEF ClientRecord
    <3>5. FinalKept(c)'
      BY <3>2, <3>4 DEF FinalKept
    <3>6. HandsOver'
      BY <2>2, <3>1, <3>2, <3>4 DEF HandsOver
    <3> QED BY <1>e, <3>1, <3>3, <3>5, <3>6
  <2> QED BY <1>6, <2>1, <2>2 DEF ReadResponse
<1>7. CASE LoopResponse
  <2>1. /\ messages # <<>> /\ messages' = Tail(messages) /\ UNCHANGED <<reader, ctx>>
        /\ cl' = [cl EXCEPT ![Head(messages).c].seen = @ \cup ({Head(messages).status} \cap Finals)]
    BY <1>7 DEF LoopResponse, closeVars
  <2>2. Head(messages) \in QueuedResponse
    BY <1>a, <2>1, HeadTailProperties
  <2>3. PICK c \in Clients : c = Head(messages).c
    BY <2>2 DEF QueuedResponse
  <2>4. \A d \in Clients \ {c} : cl'[d] = cl[d]
    BY <1>a, <2>1, <2>3
  <2>5. cl'[c].seen = cl[c].seen \cup ({Head(messages).status} \cap Finals)
    BY <1>a, <2>1, <2>3 DEF ClientRecord
  <2>6. \A d \in Clients : /\ cl'[d].final = cl[d].final /\ cl'[d].pc = cl[d].pc /\ cl'[d].tx = cl[d].tx
                           /\ cl'[d].res = cl[d].res /\ cl[d].seen \subseteq cl'[d].seen
    BY <1>a, <2>1, <2>3, <2>4, <2>5 DEF ClientRecord
  <2>7. ASSUME NEW d \in Clients PROVE FinalKept(d)'
    <3>1. SUFFICES ASSUME cl[d].final, ~ctx PROVE Held(d)'
      BY <2>1, <2>6 DEF FinalKept
    <3>2. Held(d)
      BY <3>1 DEF FinalKept
    <3>3. CASE cl[d].pc = "forward" \/ cl[d].seen \cap Finals # {}
      BY <2>6, <3>3 DEF Held
    <3>4. ASSUME NEW i \in DOMAIN messages, messages[i].c = d, messages[i].status \in Finals
          PROVE  Held(d)'
      <4>1. messages[i] = Head(messages) \/ \E j \in DOMAIN messages' : messages'[j] = messages[i]
        BY <1>a, <2>1, TailKeeps
      <4>2. CASE messages[i] = Head(messages)
        BY <2>3, <2>5, <3>4, <4>2 DEF Held
      <4> QED BY <3>4, <4>1, <4>2 DEF Held
    <3> QED BY <3>2, <3>3, <3>4 DEF Held
  <2>8. HandsOver'
    BY <1>c, <2>1, <2>6 DEF HandsOver
  <2> QED BY <2>7, <2>8
<1>8. CASE CloseMarks
  <2>1. /\ UNCHANGED <<messages, reader, ctx>>
        /\ cl' = [d \in Clients |-> IF d \in Listed THEN [cl[d] EXCEPT !.tx = "done"] ELSE cl[d]]
    BY <1>8 DEF CloseMarks, queues
  <2>2. \A d \in Clients : /\ cl'[d].final = cl[d].final /\ cl'[d].pc = cl[d].pc /\ cl'[d].res = cl[d].res
                           /\ cl'[d].seen = cl[d].seen /\ cl'[d].tx \in {cl[d].tx, "done"}
    BY <1>a, <2>1 DEF ClientRecord
  <2>3. ASSUME NEW d \in Clients PROVE FinalKept(d)'
    BY <2>1, <2>2 DEF FinalKept, Held
  <2>4. HandsOver'
    BY <1>c, <2>1, <2>2 DEF HandsOver
  <2> QED BY <2>3, <2>4
<1>9. CASE UNCHANGED <<cl, acks, messages>>
  <2>1. \A d \in Clients : FinalKept(d)'
    BY <1>b, <1>9, OthersKeep
  <2>2. CASE reader' = reader \/ reader'.pc # "pass"
    BY <1>c, <1>9, <2>1, <2>2 DEF HandsOver
  <2>3. CASE HandoverEnds \/ ReadFails
    BY <2>2, <2>3 DEF HandoverEnds, ReadFails, Reading, ReaderTyped
  <2>4. CASE LoopRequest \/ LoopAck \/ LoopHandled \/ LoopStops \/ UNCHANGED <<reader, loop>>
    BY <2>2, <2>4 DEF LoopRequest, LoopAck, LoopHandled, LoopStops
  <2> QED BY <1>2, <1>6, <2>3, <2>4, ReaderChange
<1> QED
  BY <1>1, <1>2, <1>4, <1>5, <1>6, <1>7, <1>8, <1>9, ClientsChange

-----------------------------------------------------------------------------
(* Close *)

\* After Close has returned nothing begins again.
LEMMA QuietStep ==
  ClientsTyped /\ ServersTyped /\ ReaderTyped /\ CloseInOrder /\ ClosedIsQuiet /\ [Next]_vars
  => ClosedIsQuiet'
<1> SUFFICES ASSUME ClientsTyped, ServersTyped, ReaderTyped, CloseInOrder, ClosedIsQuiet, [Next]_vars,
                    closer' = "returned"
             PROVE  Workers' = {} /\ reader'.pc = "stopped"
  BY DEF ClosedIsQuiet
<1>1. Workers = {} /\ reader.pc = "stopped" /\ ctx /\ closed
  <2>1. CASE CloseReturns
    BY <2>1 DEF CloseReturns, CloseInOrder
  <2>2. CASE closer = "returned"
    BY <2>2 DEF ClosedIsQuiet, CloseInOrder
  <2>3. CASE CloseBegins \/ CloseMarks
    BY <2>3 DEF CloseBegins, CloseMarks
  <2> QED BY <2>1, <2>2, <2>3, CloserChange
<1>2. reader'.pc = "stopped"
  <2>1. ASSUME NEW c \in Clients,
               ClientTakes(c) \/ \E s \in {"1xx", "ok"} : ReadResponse(c, s)
        PROVE  FALSE
    BY <1>1, <2>1 DEF ClientTakes, ReadResponse
  <2>2. CASE HandoverEnds \/ ReadFails
    BY <1>1, <2>2 DEF HandoverEnds, ReadFails
  <2>3. CASE LoopRequest \/ LoopAck \/ LoopHandled \/ LoopStops \/ UNCHANGED <<reader, loop>>
    BY <1>1, <2>3 DEF LoopRequest, LoopAck, LoopHandled, LoopStops
  <2> QED BY <2>1, <2>2, <2>3, ReaderChange
<1>3. Listed' = {} /\ Served' = {}
  BY <1>1, ListedStep, ServedStep DEF Workers
<1>4. \A k \in Requests : accepted'[k] = "none"
  <2>1. accepted \in [Requests -> {"none", "on", "acked"}] /\ \A k \in Requests : accepted[k] = "none"
    BY <1>1 DEF ServersTyped, Workers
  <2>2. CASE accepted' = accepted
    BY <2>1, <2>2
  <2>3. ASSUME NEW k \in Requests, Accept(k) PROVE accepted' = accepted
    BY <1>1, <2>1, <2>3 DEF Accept
  <2>4. ASSUME NEW k \in Requests, AcceptedEnds(k) \/ AcceptedExpires(k) PROVE FALSE
    BY <2>1, <2>4 DEF AcceptedEnds, AcceptedExpires
  <2>5. ASSUME NEW k \in Requests,
               \/ ReadRequest(k) \/ ReadAck(k) \/ ServerEnds(k) \/ ServerExpires(k)
               \/ \E s \in {"1xx", "ok", "failed"} : Respond(k, s)
        PROVE  accepted' = accepted
    BY <2>5 DEF ReadRequest, ReadAck, ServerEnds, ServerExpires, ServerGone, Respond, serverVars
  <2>6. CASE LoopRequest
    BY <2>2, <2>6 DEF LoopRequest
  <2>7. CASE LoopAck
    <3>1. accepted' = [accepted EXCEPT ![Head(requests).k] = IF @ = "on" THEN "acked" ELSE @]
      BY <2>7 DEF LoopAck
    <3> QED BY <2>1, <3>1
  <2> QED BY <2>2, <2>3, <2>4, <2>5, <2>6, <2>7, ServersChange
<1> QED
  BY <1>2, <1>3, <1>4 DEF Workers

-----------------------------------------------------------------------------
\* The endpoint that was just bound satisfies the invariant.
LEMMA InitInv == Init => EndpointInv
<1> SUFFICES ASSUME Init PROVE EndpointInv
  OBVIOUS
<1> USE DEF Init
<1>1. ClientsTyped
  BY EmptySeq DEF ClientsTyped, ClientRecord, Statuses
<1>2. ServersTyped
  BY EmptySeq DEF ServersTyped, ServerRecord, Statuses
<1>3. ReaderTyped /\ CloseInOrder
  BY DEF ReaderTyped, CloseInOrder, Reading, Statuses
<1>4. TablesBounded
  <2>1. Listed = {} /\ Served = {} /\ acks = {}
    BY DEF Listed, Served
  <2> QED BY <2>1, FS_EmptySet, UdpAssumption DEF TablesBounded
<1>5. QueuesBounded
  BY UdpAssumption DEF QueuesBounded
<1>6. HandledByOne
  BY DEF HandledByOne
<1>7. HandsOver /\ \A c \in Clients : FinalKept(c)
  BY DEF HandsOver, FinalKept, Reading
<1>8. ClosedIsQuiet
  BY DEF ClosedIsQuiet
<1> QED
  BY <1>1, <1>2, <1>3, <1>4, <1>5, <1>6, <1>7, <1>8 DEF EndpointInv

\* Every step preserves the invariant.
LEMMA NextInv == EndpointInv /\ [Next]_vars => EndpointInv'
<1> SUFFICES ASSUME EndpointInv, [Next]_vars PROVE EndpointInv'
  OBVIOUS
<1>1. /\ ClientsTyped /\ ServersTyped /\ ReaderTyped /\ CloseInOrder
      /\ TablesBounded /\ QueuesBounded /\ HandledByOne
      /\ HandsOver /\ (\A c \in Clients : FinalKept(c)) /\ ClosedIsQuiet
  BY DEF EndpointInv
<1>2. ClientsTyped' /\ ServersTyped' /\ ReaderTyped' /\ CloseInOrder'
  BY <1>1, ClientsStep, ServersStep, ReaderStep, CloserStep
<1>3. TablesBounded' /\ QueuesBounded' /\ HandledByOne'
  BY <1>1, TablesStep, QueuesStep, HandledStep
<1>4. HandsOver' /\ (\A c \in Clients : FinalKept(c)') /\ ClosedIsQuiet'
  BY <1>1, FinalsStep, QuietStep
<1> QED
  BY <1>2, <1>3, <1>4 DEF EndpointInv

\* The invariant gives what is promised.
LEMMA InvDelivers == EndpointInv => TypeOK /\ HandledOnce /\ FinalNotLost /\ ClosedIsQuiet
<1> SUFFICES ASSUME EndpointInv PROVE TypeOK /\ HandledOnce /\ FinalNotLost /\ ClosedIsQuiet
  OBVIOUS
<1>1. TypeOK
  BY DEF EndpointInv, TablesBounded, QueuesBounded, ReaderTyped, CloseInOrder, TypeOK
<1>2. HandledOnce
  <2>1. ASSUME NEW k \in Requests PROVE sv[k].handled <= 1 + sv[k].forgotten
    <3>1. sv[k].handled \in Nat /\ sv[k].forgotten \in Nat
      BY DEF EndpointInv, ServersTyped, ServerRecord
    <3>2. sv[k].handled <= sv[k].forgotten + (IF sv[k].live THEN 1 ELSE 0)
      BY DEF EndpointInv, HandledByOne
    <3> QED BY <3>1, <3>2
  <2> QED BY <2>1 DEF HandledOnce
<1>3. FinalNotLost
  BY DEF EndpointInv, FinalKept, Held, FinalNotLost
<1> QED
  BY <1>1, <1>2, <1>3 DEF EndpointInv

\* The invariant holds of every run.
LEMMA InvHolds == Spec => []EndpointInv
<1> QED BY InitInv, NextInv, PTL DEF Spec

\* The tables and queues of sendRequest, incomingRequest and readPackets keep their limits
\* under any load; a transaction of the peer's hands its request over once; and a final
\* response that a transaction took is on its way to the runtime until it is there, though
\* its caller gave up or the queue was full.
THEOREM DeliverySafety == Spec => []DeliveredOnce
<1>1. EndpointInv => DeliveredOnce
  BY InvDelivers DEF DeliveredOnce
<1> QED BY <1>1, InvHolds, PTL

\* After Close no goroutine of the endpoint is left, whatever was under way: a request of
\* either side that races with Close is refused by the mark or found under the lock.
THEOREM CloseSafety == Spec => []ClosedIsQuiet
<1>1. EndpointInv => ClosedIsQuiet
  BY InvDelivers
<1> QED BY <1>1, InvHolds, PTL
=============================================================================
