------------------------ MODULE SipMessagingProofs ------------------------
EXTENDS SipMessaging, SequenceTheorems, WellFoundedInduction, TLAPS

(***************************************************************************)
(* RefreshSound, SMSStored and SMSSentWhole of SipMessaging, for any       *)
(* senders, scenarios, capacities and limits of the codec.                 *)
(*                                                                         *)
(* They rest on six invariants, each defined below:                        *)
(*   BaseInv     what each client, task and response is;                   *)
(*   RefreshInv  the order of the REGISTERs in the queue and on the wire;  *)
(*   ArchiveInv  where what readers and the archive hold came from;        *)
(*   AckInv      for which messages an RP-ACK is under way;                *)
(*   OrderInv    the order of the messages in the queue and on the wire;   *)
(*   PartsInv    how much of each text is out and accepted.                *)
(* ArchiveInv is inductive by itself, BaseInv given it, the others given   *)
(* both.                                                                   *)
(***************************************************************************)

-----------------------------------------------------------------------------
(* The invariants *)

AllTexts == UNION {s.texts : s \in Scenarios}
AllMessages == UNION {s.mt : s \in Scenarios}

\* What a reader publishes, what the network answers, and what is queued to be written.
Response == [cseq : 1..MaxCSeq, status : {100, 200, 401, 500}]
Request  == [call : Nat, cseq : 1..MaxCSeq]
Task == [client : Clients, job : {"sms", "ack", "refresh"}, n : Nat, k : Nat, call : Nat, cseq : 1..MaxCSeq]
Client == [pc : {"idle", "lock", "queue", "written", "wait"}, job : {"none", "sms", "ack", "refresh"},
           n : Nat, text : AllTexts \cup {<<>>}, total : {0, 1} \cup {Len(BodiesOf[t]) : t \in AllTexts},
           k : Nat, call : Nat, cseq : 0..MaxCSeq, sub : BOOLEAN, buf : Seq(Response),
           done : {"none", "ok", "err"}, round : Nat, retried : BOOLEAN,
           outcome : {"none", "error", "accepted"}]
Active == {"queue", "written", "wait"}

\* Each kind of goroutine sends one kind of request.
JobOf(c) == IF c = Refresher THEN "refresh" ELSE IF c \in Senders THEN "sms" ELSE "ack"

\* The identity under which m is stored when it was delivered count times.
IdentityOf(m, count) ==
  [sender |-> SenderOf(m, DecodedOf[m]), text |-> DecodedOf[m].text,
   at |-> IF DecodedOf[m].at = NoTime THEN <<count>> ELSE DecodedOf[m].at, concat |-> DecodedOf[m].concat]

Typed ==
  /\ scenario \in Scenarios
  /\ cs \in [Clients -> Client]
  /\ messageMu \in (Clients \ {Refresher}) \cup {None} /\ ids \in Nat /\ sends \in Nat /\ refreshes \in Nat
  /\ queue \in Seq(Task) /\ Len(queue) <= QueueCap /\ wire \in Seq(Task)
  /\ net \subseteq Request /\ granted \subseteq Request
  /\ service \in [closing : BOOLEAN, expires : Nat \ {0}, cseq : 1..MaxCSeq, grant : Grants \cup {None}]

\* A MESSAGE has the CSeq that goes with its Call-ID, and its Call-ID was given out.
MessageNumbered(call, cseq) == call \in 1..ids /\ cseq = MessageCSeq(call)

\* A client that sends has a subscription, and, unless it is the refresher, messageMu: it is
\* the only one, and the last Call-ID that was given out is its own.
ClientOK(c) ==
  /\ cs[c].job \in {"none", JobOf(c)}
  /\ cs[c].pc # "idle" \/ cs[c].outcome = "accepted" => cs[c].job = JobOf(c)
  /\ cs[c].outcome = "accepted" => cs[c].pc = "idle"
  /\ cs[c].sub <=> cs[c].pc \in Active
  /\ Len(cs[c].buf) <= BufferSize
  /\ cs[c].pc = "lock" => c # Refresher /\ cs[c].k = 0
  /\ cs[c].pc \in Active =>
       /\ c = Refresher => cs[c].call = 0 /\ cs[c].cseq = service.cseq
       /\ c # Refresher => /\ messageMu = c /\ ids > 0 /\ cs[c].k > 0
                           /\ cs[c].call = ids /\ cs[c].cseq = MessageCSeq(ids)
  /\ messageMu = c => cs[c].pc \in Active

TaskOK(t) == /\ t.job = JobOf(t.client)
             /\ IF IsMessage(t) THEN MessageNumbered(t.call, t.cseq) ELSE t.call = 0

RequestOK(q) == q.call > 0 => MessageNumbered(q.call, q.cseq)

\* A 200 that waits for a client answers one of its Call-ID: what it will read is accepted.
BufOK(c) == cs[c].sub => \A i \in DOMAIN cs[c].buf : cs[c].buf[i].status = 200 =>
              [call |-> cs[c].call, cseq |-> cs[c].buf[i].cseq] \in granted

TasksOK == \A i \in DOMAIN queue : TaskOK(queue[i])
RequestsOK == \A q \in net \cup granted : RequestOK(q)

\* The types, and what each client, task and request is.
BaseInv ==
  /\ Typed
  /\ \A c \in Clients : ClientOK(c) /\ BufOK(c)
  /\ TasksOK /\ RequestsOK

\* The REGISTERs of a sequence have CSeqs below a bound; they rise.
RefreshesBelow(s, bound) == \A i \in DOMAIN s : ~IsMessage(s[i]) => s[i].cseq < bound
RefreshesRise(s) == \A i, j \in DOMAIN s : i < j /\ ~IsMessage(s[i]) /\ ~IsMessage(s[j]) => s[i].cseq < s[j].cseq

\* REGISTERs are written in the order of their CSeqs: those written are below those queued,
\* and both below that of a round that has yet to queue its own.
RefreshOrder ==
  /\ RefreshesRise(wire) /\ RefreshesRise(queue)
  /\ \A i \in DOMAIN wire, j \in DOMAIN queue :
       ~IsMessage(wire[i]) /\ ~IsMessage(queue[j]) => wire[i].cseq < queue[j].cseq
  /\ RefreshesBelow(wire, service.cseq + 1) /\ RefreshesBelow(queue, service.cseq + 1)
  /\ cs[Refresher].pc = "queue" => RefreshesBelow(wire, service.cseq) /\ RefreshesBelow(queue, service.cseq)

RefreshInv == RefreshOrder /\ RefreshAnswered /\ BindingStands

\* A request u that continues a message follows its predecessor t, which was accepted and is
\* the last message on the wire: what comes after it are REGISTERs.
NoMessages(s) == \A i \in DOMAIN s : ~IsMessage(s[i])
LastMessage(i) == i \in DOMAIN wire /\ \A l \in DOMAIN wire : l > i => ~IsMessage(wire[l])
Precedes(t, u) == t.job = u.job /\ t.n = u.n /\ t.k = u.k - 1 /\ Accepted(t)
Follows(u) == \E i \in DOMAIN wire : LastMessage(i) /\ Precedes(wire[i], u)

\* The request of c was written; it is in the queue.
Out(c) == cs[c].pc = "wait" \/ (cs[c].pc = "written" /\ cs[c].done = "ok")
Pending(c) == cs[c].pc = "written" /\ cs[c].done = "none"

\* Messages are queued in the order of their Call-IDs. A part that continues a message is the
\* only message in the queue.
QueueOrder ==
  /\ \A i, j \in DOMAIN queue : i < j /\ IsMessage(queue[i]) /\ IsMessage(queue[j]) => queue[i].call < queue[j].call
  /\ \A j \in DOMAIN queue : IsMessage(queue[j]) /\ queue[j].k > 1 =>
       Follows(queue[j]) /\ \A i \in DOMAIN queue : i < j => ~IsMessage(queue[i])

\* What the place of a sender says of the queue and the wire: a request that is yet to be
\* queued comes after all others, a sender that waits for the writer has its task in the
\* queue, and the request of one that waits for its answer is the last message written.
SenderOrder(c) ==
  /\ cs[c].pc = "queue" => /\ cs[c].done = "none"
                           /\ \A i \in DOMAIN queue : IsMessage(queue[i]) => queue[i].call < ids
                           /\ cs[c].k > 1 => NoMessages(queue) /\ Follows(cs[c])
  /\ Pending(c) => \E i \in DOMAIN queue : queue[i] = TaskOf(c)
  /\ Out(c) => NoMessages(queue) /\ \E i \in DOMAIN wire : LastMessage(i) /\ wire[i] = TaskOf(c)
  /\ cs[c].pc = "written" /\ cs[c].done = "err" => writer = "done"

OrderInv == PartsInOrder /\ QueueOrder /\ \A c \in Clients \ {Refresher} : SenderOrder(c)

\* On the wire w: the parts of message n, that exactly the first m of them are there, in
\* order, and which of them were accepted by the answers g.
PartsIn(w, n) == {i \in DOMAIN w : w[i].job = "sms" /\ w[i].n = n}
OutUpTo(w, n, m) ==
  /\ \A k \in 1..m : \E i \in PartsIn(w, n) : w[i].k = k
  /\ \A i \in PartsIn(w, n) : w[i].k \in 1..m
  /\ \A i, j \in PartsIn(w, n) : i < j => w[i].k < w[j].k
NoneQueued(q, n) == \A i \in DOMAIN q : ~(q[i].job = "sms" /\ q[i].n = n)
AcceptedBelow(w, g, n, k) ==
  \A i \in PartsIn(w, n) : w[i].k < k => [call |-> w[i].call, cseq |-> w[i].cseq] \in g

TaskFor(c, r) == [client |-> c, job |-> r.job, n |-> r.n, k |-> r.k, call |-> r.call, cseq |-> r.cseq]

\* What is out of the message of a client r, with the wire w, the queue q and the answers g.
PartsHold(c, r, w, q, g) ==
  /\ r.pc = "lock" => OutUpTo(w, r.n, 0) /\ NoneQueued(q, r.n)
  /\ r.pc = "queue" => /\ OutUpTo(w, r.n, r.k - 1) /\ AcceptedBelow(w, g, r.n, r.k)
                       /\ NoneQueued(q, r.n)
  /\ r.pc = "written" /\ r.done = "none" =>
       /\ OutUpTo(w, r.n, r.k - 1) /\ AcceptedBelow(w, g, r.n, r.k)
       /\ \A i \in DOMAIN q : q[i].job = "sms" /\ q[i].n = r.n => q[i] = TaskFor(c, r)
  /\ r.pc = "wait" \/ (r.pc = "written" /\ r.done = "ok") =>
       OutUpTo(w, r.n, r.k) /\ AcceptedBelow(w, g, r.n, r.k)
  /\ r.outcome = "accepted" =>
       /\ r.total \in Nat
       /\ OutUpTo(w, r.n, r.total) /\ AcceptedBelow(w, g, r.n, r.total + 1) /\ NoneQueued(q, r.n)

\* The text of a message that is sent has been encoded into its parts.
TextHolds(r) ==
  r.pc # "idle" \/ r.outcome = "accepted" =>
    r.text \in AllTexts /\ BodiesOf[r.text] # NoParts /\ r.total = Len(BodiesOf[r.text])

\* Every message has its own number.
NumbersOK ==
  /\ \A i \in DOMAIN wire : wire[i].job = "sms" => wire[i].n <= sends
  /\ \A i \in DOMAIN queue : queue[i].job = "sms" => queue[i].n <= sends
  /\ \A c \in Senders : cs[c].job = "sms" => cs[c].n <= sends
  /\ \A c, d \in Senders : c # d /\ cs[c].job = "sms" /\ cs[d].job = "sms" => cs[c].n # cs[d].n

PartsOK(c) == TextHolds(cs[c]) /\ PartsHold(c, cs[c], wire, queue, granted)

PartsInv == NumbersOK /\ \A c \in Senders : PartsOK(c)

\* Readers, late stores and the archive hold identities of messages of the scenario.
Stored(m) == DecodedOf[m].kind \in {"deliver", "submit"}
Named(id, m) == m \in scenario.mt /\ Stored(m) /\ \E count \in Nat : id = IdentityOf(m, count)
ReaderOK(r) == r.pc = "store" => Named(r.id, r.m)
EntryOK(e) == e = [id |-> e.id, m |-> e.m] /\ \E m \in scenario.mt : m.id = e.m /\ Named(e.id, m)

Identities == {IdentityOf(m, count) : m \in AllMessages, count \in Nat} \cup {None}
Reader == [pc : {"read", "store", "done"}, m : AllMessages \cup {None}, id : Identities]

ArchiveInv ==
  /\ scenario \in Scenarios /\ delivered \in [scenario.mt -> Nat]
  /\ hs \in [Handlers -> Reader] /\ \A h \in Handlers : ReaderOK(hs[h])
  /\ (\A e \in late : Named(e.id, e.m)) /\ \A e \in archive : EntryOK(e)

\* The messages an RP-ACK may be sent for: reports, and what the archive has.
MayBeAcked ==
  {m.id : m \in {p \in scenario.mt : p.tpdu.type = "report" \/ \E e \in archive : e.m = p.id}}

\* An RP-ACK goroutine, its task and what it wrote are for such messages.
AckInv ==
  /\ \A a \in Ackers : cs[a].pc # "idle" => cs[a].n \in MayBeAcked
  /\ \A i \in DOMAIN queue : queue[i].job = "ack" => queue[i].n \in MayBeAcked
  /\ \A i \in DOMAIN wire : wire[i].job = "ack" => wire[i].n \in MayBeAcked

\* The network numbers its messages, and no two of them have one identity: messages with the
\* same sender, text, time and concatenation are one message to the host, by design.
MessagesDiffer ==
  \A s \in Scenarios : \A m, p \in s.mt :
    /\ m.id = p.id => m = p
    /\ \A i, j \in Nat : Stored(m) /\ Stored(p) /\ IdentityOf(m, i) = IdentityOf(p, j) => m = p

-----------------------------------------------------------------------------
(* What an action does to a client's record, one field after the other *)

\* What Subscribed and PartReady leave alone.
SameJob(r, u) == u.job = r.job /\ u.n = r.n /\ u.text = r.text /\ u.total = r.total

\* A client subscribes: it waits for a response to a new request.
Subscription(r, call, cseq, u) ==
  /\ u \in Client /\ SameJob(r, u) /\ u.k = r.k /\ u.outcome = r.outcome
  /\ u.pc = "queue" /\ u.call = call /\ u.cseq = cseq /\ u.sub /\ u.buf = <<>> /\ u.done = "none"

LEMMA SubscribedShape ==
  ASSUME NEW r \in Client, NEW call \in Nat, NEW cseq \in 1..MaxCSeq
  PROVE  Subscription(r, call, cseq, Subscribed(r, call, cseq))
<1>1. <<>> \in Seq(Response)
  BY EmptySeq
<1> DEFINE r1 == [r EXCEPT !.pc = "queue"]
           r2 == [r1 EXCEPT !.call = call]
           r3 == [r2 EXCEPT !.cseq = cseq]
           r4 == [r3 EXCEPT !.sub = TRUE]
           r5 == [r4 EXCEPT !.buf = <<>>]
           r6 == [r5 EXCEPT !.done = "none"]
<1>2. Subscribed(r, call, cseq) = r6
  BY DEF Subscribed
<1>3. cseq \in 0..MaxCSeq
  BY MessagingAssumption
<1>m1. r1 \in Client
  BY ZenonT(60), <1>1, <1>3 DEF Client
<1> HIDE DEF r1
<1>m2. r2 \in Client
  BY ZenonT(60), <1>m1, <1>1, <1>3 DEF Client
<1> HIDE DEF r2
<1>m3. r3 \in Client
  BY ZenonT(60), <1>m2, <1>1, <1>3 DEF Client
<1> HIDE DEF r3
<1>m4. r4 \in Client
  BY ZenonT(60), <1>m3, <1>1, <1>3 DEF Client
<1> HIDE DEF r4
<1>m5. r5 \in Client
  BY ZenonT(60), <1>m4, <1>1, <1>3 DEF Client
<1> HIDE DEF r5
<1>m6. r6 \in Client
  BY ZenonT(60), <1>m5, <1>1, <1>3 DEF Client
<1> HIDE DEF r6
<1>4. /\ SameJob(r, Subscribed(r, call, cseq)) /\ Subscribed(r, call, cseq).k = r.k
      /\ Subscribed(r, call, cseq).outcome = r.outcome
  BY SMTT(30) DEF Client, Subscribed, SameJob
<1>5. LET u == Subscribed(r, call, cseq) IN
      u.pc = "queue" /\ u.call = call /\ u.cseq = cseq /\ u.sub /\ u.buf = <<>> /\ u.done = "none"
  BY SMTT(30) DEF Client, Subscribed
<1> QED  BY <1>2, <1>4, <1>5, <1>m6 DEF Subscription

LEMMA IdleIsClient == Idle \in Client
<1>1. <<>> \in Seq(Response)
  BY EmptySeq
<1>2. 0 \in 0..MaxCSeq
  BY MessagingAssumption
<1> DEFINE texts == AllTexts \cup {<<>>}
           totals == {0, 1} \cup {Len(BodiesOf[t]) : t \in AllTexts}
<1>3. <<>> \in texts /\ 0 \in totals
  OBVIOUS
<1>4. Client = [pc : {"idle", "lock", "queue", "written", "wait"}, job : {"none", "sms", "ack", "refresh"},
           n : Nat, text : texts, total : totals,
           k : Nat, call : Nat, cseq : 0..MaxCSeq, sub : BOOLEAN, buf : Seq(Response),
           done : {"none", "ok", "err"}, round : Nat, retried : BOOLEAN,
           outcome : {"none", "error", "accepted"}]
  BY DEF Client
<1> HIDE DEF texts, totals
<1> QED  BY <1>1, <1>2, <1>3, <1>4, SMTT(30) DEF Idle

\* A client is done, and gives its subscription up.
Return(r, outcome, u) ==
  /\ u \in Client /\ SameJob(r, u) /\ u.cseq = r.cseq /\ u.outcome = outcome
  /\ u.pc = "idle" /\ u.k = 0 /\ ~u.sub /\ u.buf = <<>> /\ u.done = "none"

LEMMA ReturnedShape ==
  ASSUME NEW r \in Client, NEW outcome \in {"error", "accepted"}
  PROVE  Return(r, outcome, Returned(r, outcome))
<1>1. <<>> \in Seq(Response)
  BY EmptySeq
<1> DEFINE r1 == [Idle EXCEPT !.job = r.job]
           r2 == [r1 EXCEPT !.n = r.n]
           r3 == [r2 EXCEPT !.text = r.text]
           r4 == [r3 EXCEPT !.total = r.total]
           r5 == [r4 EXCEPT !.cseq = r.cseq]
           r6 == [r5 EXCEPT !.outcome = outcome]
<1>2. Returned(r, outcome) = r6
  BY DEF Returned
<1>m1. r1 \in Client
  BY IdleIsClient DEF Client
<1> HIDE DEF r1
<1>m2. r2 \in Client
  BY ZenonT(60), <1>m1 DEF Client
<1> HIDE DEF r2
<1>m3. r3 \in Client
  BY ZenonT(60), <1>m2 DEF Client
<1> HIDE DEF r3
<1>m4. r4 \in Client
  BY ZenonT(60), <1>m3 DEF Client
<1> HIDE DEF r4
<1>m5. r5 \in Client
  BY ZenonT(60), <1>m4 DEF Client
<1> HIDE DEF r5
<1>m6. r6 \in Client
  BY ZenonT(60), <1>m5 DEF Client
<1> HIDE DEF r6
<1>4. LET u == Returned(r, outcome) IN
      /\ SameJob(r, u) /\ u.cseq = r.cseq /\ u.outcome = outcome
      /\ u.pc = "idle" /\ u.k = 0 /\ ~u.sub /\ u.buf = <<>> /\ u.done = "none"
  BY SMTT(30) DEF Returned, Idle, SameJob
<1> QED  BY <1>2, <1>4, <1>m6 DEF Return

\* A client that is told, moves on or reads: what it sends stays the same.
SameRequest(r, u) ==
  /\ u \in Client /\ SameJob(r, u) /\ u.k = r.k /\ u.call = r.call /\ u.cseq = r.cseq
  /\ u.outcome = r.outcome /\ u.sub = r.sub

Moved(r, u, p) == SameRequest(r, u) /\ u.pc = p /\ u.buf = r.buf /\ u.done = r.done
LEMMA PcShape ==
  ASSUME NEW r \in Client, NEW p \in {"idle", "lock", "queue", "written", "wait"}
  PROVE  Moved(r, [r EXCEPT !.pc = p], p)
BY SMTT(30) DEF Client, SameRequest, SameJob, Moved

DoneSet(r, u, d) == SameRequest(r, u) /\ u.pc = r.pc /\ u.buf = r.buf /\ u.done = d
LEMMA DoneShape ==
  ASSUME NEW r \in Client, NEW d \in {"none", "ok", "err"}
  PROVE  DoneSet(r, [r EXCEPT !.done = d], d)
BY SMTT(30) DEF Client, SameRequest, SameJob, DoneSet

Buffered(r, u, b) == SameRequest(r, u) /\ u.pc = r.pc /\ u.buf = b /\ u.done = r.done
LEMMA BufShape ==
  ASSUME NEW r \in Client, NEW b \in Seq(Response)
  PROVE  Buffered(r, [r EXCEPT !.buf = b], b)
BY SMTT(30) DEF Client, SameRequest, SameJob, Buffered

\* The next part, and the next round of a refresh.
PartBegun(r, u) == u \in Client /\ SameJob(r, u) /\ u.k = r.k + 1 /\ u.outcome = r.outcome
LEMMA NextPartShape ==
  ASSUME NEW r \in Client
  PROVE  PartBegun(r, [r EXCEPT !.k = @ + 1])
BY SMTT(30) DEF Client, SameJob, PartBegun

RoundBegun(r, u) == u \in Client /\ SameJob(r, u) /\ u.k = r.k /\ u.outcome = r.outcome
LEMMA NextRoundShape ==
  ASSUME NEW r \in Client
  PROVE  RoundBegun(r, [r EXCEPT !.round = @ + 1]) /\ RoundBegun(r, [r EXCEPT !.retried = TRUE])
<1>1. ASSUME NEW n \in Nat PROVE RoundBegun(r, [r EXCEPT !.round = n])
  BY SMTT(30), <1>1 DEF Client, SameJob, RoundBegun
<1>2. RoundBegun(r, [r EXCEPT !.retried = TRUE])
  BY ZenonT(30) DEF Client, SameJob, RoundBegun
<1>3. r.round + 1 \in Nat
  BY DEF Client
<1> QED  BY <1>1, <1>2, <1>3

\* An idle client takes a message up.
Claim(u, job, n, text, total, k) ==
  /\ u \in Client /\ u.job = job /\ u.n = n /\ u.text = text /\ u.total = total /\ u.k = k
  /\ u.outcome = "none" /\ ~u.sub /\ u.buf = <<>> /\ u.done = "none"

LEMMA SmsClaim ==
  ASSUME NEW n \in Nat, NEW text \in AllTexts, NEW total \in {Len(BodiesOf[t]) : t \in AllTexts}
  PROVE  Claim([Idle EXCEPT !.pc = "lock", !.job = "sms", !.n = n, !.text = text, !.total = total],
               "sms", n, text, total, 0)
         /\ [Idle EXCEPT !.pc = "lock", !.job = "sms", !.n = n, !.text = text, !.total = total].pc = "lock"
<1> DEFINE r1 == [Idle EXCEPT !.pc = "lock"]
           r2 == [r1 EXCEPT !.job = "sms"]
           r3 == [r2 EXCEPT !.n = n]
           r4 == [r3 EXCEPT !.text = text]
           r5 == [r4 EXCEPT !.total = total]
<1>0. [Idle EXCEPT !.pc = "lock", !.job = "sms", !.n = n, !.text = text, !.total = total] = r5
  OBVIOUS
<1>m1. r1 \in Client
  BY IdleIsClient DEF Client
<1> HIDE DEF r1
<1>m2. r2 \in Client
  BY ZenonT(60), <1>m1 DEF Client
<1> HIDE DEF r2
<1>m3. r3 \in Client
  BY ZenonT(60), <1>m2 DEF Client
<1> HIDE DEF r3
<1>m4. r4 \in Client
  BY ZenonT(60), <1>m3 DEF Client
<1> HIDE DEF r4
<1>m5. r5 \in Client
  BY ZenonT(60), <1>m4 DEF Client
<1> HIDE DEF r5
<1>4. LET u == [Idle EXCEPT !.pc = "lock", !.job = "sms", !.n = n, !.text = text, !.total = total] IN
      /\ u.job = "sms" /\ u.n = n /\ u.text = text /\ u.total = total /\ u.k = 0 /\ u.pc = "lock"
      /\ u.outcome = "none" /\ ~u.sub /\ u.buf = <<>> /\ u.done = "none"
  BY SMTT(30) DEF Idle
<1> QED  BY <1>0, <1>4, <1>m5 DEF Claim

LEMMA AckClaim ==
  ASSUME NEW n \in Nat
  PROVE  Claim([Idle EXCEPT !.pc = "lock", !.job = "ack", !.n = n, !.total = 1],
               "ack", n, <<>>, 1, 0)
         /\ [Idle EXCEPT !.pc = "lock", !.job = "ack", !.n = n, !.total = 1].pc = "lock"
<1> DEFINE r1 == [Idle EXCEPT !.pc = "lock"]
           r2 == [r1 EXCEPT !.job = "ack"]
           r3 == [r2 EXCEPT !.n = n]
           r4 == [r3 EXCEPT !.total = 1]
<1>0. [Idle EXCEPT !.pc = "lock", !.job = "ack", !.n = n, !.total = 1] = r4
  OBVIOUS
<1>m1. r1 \in Client
  BY IdleIsClient DEF Client
<1> HIDE DEF r1
<1>m2. r2 \in Client
  BY ZenonT(60), <1>m1 DEF Client
<1> HIDE DEF r2
<1>m3. r3 \in Client
  BY ZenonT(60), <1>m2 DEF Client
<1> HIDE DEF r3
<1>m4. r4 \in Client
  BY ZenonT(60), <1>m3 DEF Client
<1> HIDE DEF r4
<1>4. LET u == [Idle EXCEPT !.pc = "lock", !.job = "ack", !.n = n, !.total = 1] IN
      /\ u.job = "ack" /\ u.n = n /\ u.text = <<>> /\ u.total = 1 /\ u.k = 0 /\ u.pc = "lock"
      /\ u.outcome = "none" /\ ~u.sub /\ u.buf = <<>> /\ u.done = "none"
  BY SMTT(30) DEF Idle
<1> QED  BY <1>0, <1>4, <1>m4 DEF Claim

LEMMA RefreshClaim ==
  ASSUME NEW n \in Nat
  PROVE  Claim([Idle EXCEPT !.job = "refresh", !.n = n, !.k = 1],
               "refresh", n, <<>>, 0, 1)
         /\ [Idle EXCEPT !.job = "refresh", !.n = n, !.k = 1].pc = "idle"
<1> DEFINE r1 == [Idle EXCEPT !.job = "refresh"]
           r2 == [r1 EXCEPT !.n = n]
           r3 == [r2 EXCEPT !.k = 1]
<1>0. [Idle EXCEPT !.job = "refresh", !.n = n, !.k = 1] = r3
  OBVIOUS
<1>m1. r1 \in Client
  BY IdleIsClient DEF Client
<1> HIDE DEF r1
<1>m2. r2 \in Client
  BY ZenonT(60), <1>m1 DEF Client
<1> HIDE DEF r2
<1>m3. r3 \in Client
  BY ZenonT(60), <1>m2 DEF Client
<1> HIDE DEF r3
<1>4. LET u == [Idle EXCEPT !.job = "refresh", !.n = n, !.k = 1] IN
      /\ u.job = "refresh" /\ u.n = n /\ u.text = <<>> /\ u.total = 0 /\ u.k = 1 /\ u.pc = "idle"
      /\ u.outcome = "none" /\ ~u.sub /\ u.buf = <<>> /\ u.done = "none"
  BY SMTT(30) DEF Idle
<1> QED  BY <1>0, <1>4, <1>m3 DEF Claim

\* One client changes.
Changed(c, u) ==
  /\ cs' \in [Clients -> Client] /\ cs'[c] = u
  /\ \A d \in Clients \ {c} : cs'[d] = cs[d]
LEMMA OneChanges ==
  ASSUME NEW c \in Clients, NEW u \in Client, cs \in [Clients -> Client], cs' = [cs EXCEPT ![c] = u]
  PROVE  Changed(c, u)
BY DEF Changed

\* What is appended comes last, what is dropped came first.
Appended(s, e, t) ==
  /\ t \in Seq(Task) /\ Len(t) = Len(s) + 1 /\ DOMAIN t = 1..Len(t) /\ DOMAIN s = 1..Len(s)
  /\ t[Len(t)] = e /\ \A i \in DOMAIN s : i \in DOMAIN t /\ t[i] = s[i]
LEMMA AppendedShape ==
  ASSUME NEW s \in Seq(Task), NEW e \in Task
  PROVE  Appended(s, e, Append(s, e))
BY AppendProperties, LenProperties DEF Appended

Dropped(s, t) ==
  /\ Head(s) = s[1] /\ 1 \in DOMAIN s /\ s[1] \in Task
  /\ t \in Seq(Task) /\ Len(t) = Len(s) - 1 /\ DOMAIN t = 1..Len(t) /\ DOMAIN s = 1..Len(s)
  /\ \A i \in DOMAIN t : i + 1 \in DOMAIN s /\ t[i] = s[i + 1]
LEMMA DroppedShape ==
  ASSUME NEW s \in Seq(Task), s # <<>>
  PROVE  Dropped(s, Tail(s))
BY HeadTailProperties, LenProperties, EmptySeq DEF Dropped

LEMMA MinOfNaturals ==
  ASSUME NEW S, S \subseteq Nat, S # {}
  PROVE  Min(S) \in S /\ \A y \in S : Min(S) <= y
<1> DEFINE R == OpToRel(<, Nat)
<1>1. \A x, y \in Nat : x < y => <<x, y>> \in R
  BY DEF OpToRel
<1>2. IsWellFoundedOn(R, Nat)
  BY NatLessThanWellFounded
<1> HIDE DEF R
<1>3. \E x \in S : \A y \in S : ~(<<y, x>> \in R)
  BY <1>2, WFMin
<1>4. \E x \in S : \A y \in S : x <= y
  <2>1. PICK x \in S : \A y \in S : ~(<<y, x>> \in R)
    BY <1>3
  <2>2. \A y \in S : ~(y < x)
    BY <1>1, <2>1, Zenon
  <2> QED  BY <2>2
<1> QED  BY <1>4 DEF Min

\* The Message CSeq is a legal one.
LEMMA MessageCSeqLegal ==
  ASSUME NEW n \in Nat, n > 0
  PROVE  MessageCSeq(n) \in 1..MaxCSeq
BY MessagingAssumption DEF MessageCSeq

-----------------------------------------------------------------------------
(* What the steps do to the clients *)

PcMoves(c, p) == Changed(c, cs'[c]) /\ Moved(cs[c], cs'[c], p)
Returns(c, outcome) == Changed(c, cs'[c]) /\ Return(cs[c], outcome, cs'[c])
Tells(c, d) == Changed(c, cs'[c]) /\ DoneSet(cs[c], cs'[c], d)
Reads(c) == Changed(c, cs'[c]) /\ Buffered(cs[c], cs'[c], Tail(cs[c].buf)) /\ cs[c].buf # <<>>
PartStarts(c) ==
  /\ Changed(c, cs'[c]) /\ SameJob(cs[c], cs'[c]) /\ cs'[c].k = cs[c].k + 1 /\ cs'[c].outcome = cs[c].outcome
  /\ cs'[c].pc = "queue" /\ cs'[c].call = ids + 1 /\ cs'[c].cseq = MessageCSeq(ids + 1)
  /\ cs'[c].sub /\ cs'[c].buf = <<>> /\ cs'[c].done = "none"
RoundStarts ==
  /\ Changed(Refresher, cs'[Refresher]) /\ cs'[Refresher].pc = "queue" /\ cs'[Refresher].call = 0
  /\ cs'[Refresher].job = "refresh" /\ cs'[Refresher].outcome # "accepted"
  /\ service.cseq < MaxCSeq /\ cs'[Refresher].cseq = service.cseq + 1
  /\ cs'[Refresher].sub /\ cs'[Refresher].buf = <<>> /\ cs'[Refresher].done = "none"
Claims(c, job, n, text, total) == Changed(c, cs'[c]) /\ Claim(cs'[c], job, n, text, total, 0) /\ cs'[c].pc = "lock"

LEMMA PcEffect ==
  ASSUME Typed, NEW c \in Clients, NEW p \in {"idle", "lock", "queue", "written", "wait"},
         cs' = [cs EXCEPT ![c].pc = p]
  PROVE  PcMoves(c, p)
<1> DEFINE u == [cs[c] EXCEPT !.pc = p]
<1>1. cs[c] \in Client /\ cs \in [Clients -> Client]
  BY DEF Typed
<1>2. cs' = [cs EXCEPT ![c] = u]
  BY <1>1
<1>3. Moved(cs[c], u, p)
  BY <1>1, PcShape
<1>4. u \in Client
  BY <1>3, Zenon DEF Moved, SameRequest
<1> HIDE DEF u
<1>5. Changed(c, u)
  BY <1>1, <1>2, <1>4, OneChanges
<1> QED  BY <1>3, <1>5, Zenon DEF PcMoves, Changed

LEMMA TellEffect ==
  ASSUME Typed, NEW c \in Clients, NEW d \in {"none", "ok", "err"},
         cs' = [cs EXCEPT ![c].done = d]
  PROVE  Tells(c, d)
<1> DEFINE u == [cs[c] EXCEPT !.done = d]
<1>1. cs[c] \in Client /\ cs \in [Clients -> Client]
  BY DEF Typed
<1>2. cs' = [cs EXCEPT ![c] = u]
  BY <1>1
<1>3. DoneSet(cs[c], u, d)
  BY <1>1, DoneShape
<1>4. u \in Client
  BY <1>3, Zenon DEF DoneSet, SameRequest
<1> HIDE DEF u
<1>5. Changed(c, u)
  BY <1>1, <1>2, <1>4, OneChanges
<1> QED  BY <1>3, <1>5, Zenon DEF Tells, Changed

LEMMA ReturnEffect ==
  ASSUME Typed, NEW c \in Clients, NEW outcome \in {"error", "accepted"},
         cs' = [cs EXCEPT ![c] = Returned(@, outcome)]
  PROVE  Returns(c, outcome)
<1> DEFINE u == Returned(cs[c], outcome)
<1>1. cs[c] \in Client /\ cs \in [Clients -> Client]
  BY DEF Typed
<1>2. cs' = [cs EXCEPT ![c] = u]
  OBVIOUS
<1>3. Return(cs[c], outcome, u)
  BY <1>1, ReturnedShape
<1>4. u \in Client
  BY <1>3, Zenon DEF Return
<1> HIDE DEF u
<1>5. Changed(c, u)
  BY <1>1, <1>2, <1>4, OneChanges
<1> QED  BY <1>3, <1>5, Zenon DEF Returns, Changed

LEMMA ReadEffect ==
  ASSUME Typed, NEW c \in Clients, cs[c].buf # <<>>, cs' = [cs EXCEPT ![c] = Took(c)]
  PROVE  Reads(c)
<1> DEFINE u == [cs[c] EXCEPT !.buf = Tail(@)]
           b == Tail(cs[c].buf)
<1>1. cs[c] \in Client /\ cs \in [Clients -> Client]
  BY DEF Typed
<1>2. cs' = [cs EXCEPT ![c] = u] /\ u = [cs[c] EXCEPT !.buf = b]
  BY DEF Took
<1>3. cs[c].buf \in Seq(Response)
  BY <1>1 DEF Client
<1>4. b \in Seq(Response)
  BY <1>3, HeadTailProperties
<1> HIDE DEF b, u
<1>5. Buffered(cs[c], u, b)
  BY <1>1, <1>2, <1>4, BufShape
<1>6. u \in Client
  BY <1>5, Zenon DEF Buffered, SameRequest
<1>7. Changed(c, u)
  BY <1>1, <1>2, <1>6, OneChanges
<1> QED  BY <1>5, <1>7, Zenon DEF Reads, Changed, b

LEMMA PartEffect ==
  ASSUME Typed, NEW c \in Clients, cs' = [cs EXCEPT ![c] = PartReady(@)]
  PROVE  PartStarts(c)
<1> DEFINE r == [cs[c] EXCEPT !.k = @ + 1]
           u == Subscribed(r, ids + 1, MessageCSeq(ids + 1))
<1>1. cs[c] \in Client /\ cs \in [Clients -> Client] /\ ids \in Nat
  BY DEF Typed
<1>2. cs' = [cs EXCEPT ![c] = u]
  BY DEF PartReady
<1>3. PartBegun(cs[c], r)
  BY <1>1, NextPartShape
<1>4. r \in Client /\ SameJob(cs[c], r) /\ r.k = cs[c].k + 1 /\ r.outcome = cs[c].outcome
  BY <1>3, Zenon DEF PartBegun
<1> HIDE DEF r
<1>5. ids + 1 \in Nat /\ ids + 1 > 0
  BY <1>1
<1>6. MessageCSeq(ids + 1) \in 1..MaxCSeq
  BY <1>5, MessageCSeqLegal
<1>7. Subscription(r, ids + 1, MessageCSeq(ids + 1), u)
  BY <1>4, <1>5, <1>6, SubscribedShape
<1> HIDE DEF u
<1>8. u \in Client
  BY <1>7, Zenon DEF Subscription
<1>9. Changed(c, u)
  BY <1>1, <1>2, <1>8, OneChanges
<1>10. cs'[c] = u
  BY <1>9, Zenon DEF Changed
<1> QED  BY <1>4, <1>7, <1>9, <1>10, Zenon DEF PartStarts, Subscription, SameJob

LEMMA RoundEffect ==
  ASSUME Typed, NEW r \in Client, r.job = "refresh", r.outcome # "accepted", RefreshRound(r)
  PROVE  \/ RoundStarts /\ service' = [service EXCEPT !.cseq = service.cseq + 1]
         \/ Returns(Refresher, "error") /\ UNCHANGED service
<1>1. cs \in [Clients -> Client] /\ service.cseq \in 1..MaxCSeq /\ Refresher \in Clients
  BY DEF Typed, Clients
<1>2. CASE nextRegistrationRefresh(service.cseq) = None
  <2>1. cs' = [cs EXCEPT ![Refresher] = Returned(@, "error")] /\ UNCHANGED service
    BY <1>2 DEF RefreshRound, RefreshFails
  <2> QED  BY <1>1, <2>1, ReturnEffect
<1>3. CASE nextRegistrationRefresh(service.cseq) # None
  <2> DEFINE cseq == service.cseq + 1
             u == Subscribed(r, 0, cseq)
  <2>1. service.cseq # MaxCSeq /\ nextRegistrationRefresh(service.cseq) = cseq
    BY <1>3 DEF nextRegistrationRefresh
  <2>2. cseq \in 1..MaxCSeq /\ service.cseq < MaxCSeq
    BY <1>1, <2>1, MessagingAssumption
  <2>3. cs' = [cs EXCEPT ![Refresher] = u] /\ service' = [service EXCEPT !.cseq = cseq]
    BY <1>3, <2>1 DEF RefreshRound
  <2> HIDE DEF cseq
  <2>4. Subscription(r, 0, cseq, u)
    BY <2>2, SubscribedShape
  <2> HIDE DEF u
  <2>5. u \in Client
    BY <2>4, Zenon DEF Subscription
  <2>6. Changed(Refresher, u)
    BY <1>1, <2>3, <2>5, OneChanges
  <2>7. cs'[Refresher] = u
    BY <2>6, Zenon DEF Changed
  <2>8. RoundStarts
    BY <2>2, <2>4, <2>6, <2>7, Zenon DEF RoundStarts, Subscription, SameJob, cseq
  <2> QED  BY <2>3, <2>8 DEF cseq
<1> QED  BY <1>2, <1>3

\* The writer reports to the client whose task it is, if it still waits.
Reported(t, d) ==
  \/ UNCHANGED cs
  \/ /\ cs[t.client].pc = "written" /\ cs[t.client].call = t.call /\ cs[t.client].cseq = t.cseq
     /\ Tells(t.client, d)

LEMMA ReportEffect ==
  ASSUME Typed, NEW t \in Task, NEW d \in {"ok", "err"}, cs' = Told(t, d)
  PROVE  Reported(t, d)
<1>1. t.client \in Clients
  BY DEF Task
<1>2. CASE cs[t.client].pc = "written" /\ cs[t.client].call = t.call /\ cs[t.client].cseq = t.cseq
  <2>1. cs' = [cs EXCEPT ![t.client].done = d]
    BY <1>2 DEF Told
  <2> QED  BY <1>1, <1>2, <2>1, TellEffect DEF Reported
<1>3. CASE ~(cs[t.client].pc = "written" /\ cs[t.client].call = t.call /\ cs[t.client].cseq = t.cseq)
  BY <1>3 DEF Told, Reported
<1> QED  BY <1>2, <1>3

\* A response reaches the waiters of its Call-ID that have room.
Gets(c, call, e) ==
  \/ cs'[c] = cs[c]
  \/ /\ cs[c].sub /\ cs[c].call = call /\ Len(cs[c].buf) < BufferSize
     /\ Buffered(cs[c], cs'[c], Append(cs[c].buf, e))

Publishes(call, cseq, s) ==
  /\ cs' \in [Clients -> Client]
  /\ \A c \in Clients : Gets(c, call, [cseq |-> cseq, status |-> s])

LEMMA PublishEffect ==
  ASSUME Typed, NEW call \in Nat, NEW cseq \in 1..MaxCSeq, NEW s \in {100, 200, 401, 500},
         cs' = Published(call, cseq, s)
  PROVE  Publishes(call, cseq, s)
<1> DEFINE e == [cseq |-> cseq, status |-> s]
<1>1. e \in Response
  BY DEF Response
<1>2. ASSUME NEW c \in Clients
      PROVE  cs'[c] \in Client /\ Gets(c, call, e)
  <2>1. cs[c] \in Client
    BY DEF Typed
  <2>2. cs[c].buf \in Seq(Response)
    BY <2>1 DEF Client
  <2>3. CASE cs[c].sub /\ cs[c].call = call /\ Len(cs[c].buf) < BufferSize
    <3> DEFINE b == Append(cs[c].buf, e)
    <3>1. cs'[c] = [cs[c] EXCEPT !.buf = b]
      BY <2>3 DEF Published
    <3>2. b \in Seq(Response)
      BY <1>1, <2>2, AppendProperties
    <3> HIDE DEF b
    <3>3. Buffered(cs[c], cs'[c], b)
      BY <2>1, <3>1, <3>2, BufShape
    <3> QED  BY <2>3, <3>3, Zenon DEF Gets, Buffered, SameRequest, b
  <2>4. CASE ~(cs[c].sub /\ cs[c].call = call /\ Len(cs[c].buf) < BufferSize)
    BY <2>1, <2>4 DEF Published, Gets
  <2> QED  BY <2>3, <2>4
<1>3. cs' = [c \in Clients |-> cs'[c]]
  BY DEF Published
<1> QED  BY <1>2, <1>3 DEF Publishes

-----------------------------------------------------------------------------
(* The lifetime a refresh publishes *)

\* No contact listed was granted less, and our own was not removed.
GrantsAtLeast(g, expires) ==
  \A c \in g.contacts : (c.own => c.expires > 0) /\ (c.expires > 0 => expires <= c.expires)

LEMMA ContactExpiry ==
  ASSUME NEW contacts, \A c \in contacts : c.expires \in Int
  PROVE  /\ contactGrantedExpiry(contacts) \in Nat
         /\ \A c \in contacts : c.expires > 0 =>
              0 < contactGrantedExpiry(contacts) /\ contactGrantedExpiry(contacts) <= c.expires
<1> DEFINE given == {c.expires : c \in {d \in contacts : d.expires > 0}}
<1>1. given \subseteq Nat \ {0}
  OBVIOUS
<1>2. \A c \in contacts : c.expires > 0 => c.expires \in given
  OBVIOUS
<1>3. contactGrantedExpiry(contacts) = IF given = {} THEN 0 ELSE Min(given)
  BY DEF contactGrantedExpiry
<1> HIDE DEF given
<1>4. CASE given = {}
  BY <1>2, <1>3, <1>4
<1>5. CASE given # {}
  <2>1. Min(given) \in given /\ \A y \in given : Min(given) <= y
    <3>1. given \subseteq Nat
      BY <1>1
    <3> QED  BY <3>1, <1>5, MinOfNaturals
  <2>2. contactGrantedExpiry(contacts) = Min(given)
    BY <1>3, <1>5
  <2>3. Min(given) \in Nat /\ 0 < Min(given)
    <3>1. \A y \in given : y \in Nat /\ 0 < y
      BY <1>1
    <3> QED  BY <2>1, <3>1, Zenon
  <2>4. \A c \in contacts : c.expires > 0 => Min(given) <= c.expires
    BY <1>2, <2>1
  <2> QED  BY <2>2, <2>3, <2>4
<1> QED  BY <1>4, <1>5

\* A lifetime that is published is positive, and none that the 200 grants is shorter.
LEMMA RefreshedLifetime ==
  ASSUME NEW g \in Grants, NEW expires, expires = RefreshedExpiry(g, Requested), expires > 0
  PROVE  expires \in Nat \ {0} /\ GrantsAtLeast(g, expires)
<1> DEFINE own     == {c \in g.contacts : c.own}
           header  == IF g.expires = None THEN Requested ELSE g.expires
           matched == matchingContactExpiry(g.contacts)
           all     == contactGrantedExpiry(g.contacts)
<1>1. /\ g.expires \in Int \cup {None} /\ Requested \in Nat \ {0} /\ None \notin Int
      /\ \A c \in g.contacts : c.own \in BOOLEAN /\ c.expires \in Int
  BY InputsAssumption, ClientsAssumption
<1>2. header \in Int
  BY <1>1
<1>3. all \in Nat /\ \A c \in g.contacts : c.expires > 0 => 0 < all /\ all <= c.expires
  BY <1>1, ContactExpiry
<1>4. contactGrantedExpiry(own) \in Nat
  BY <1>1, ContactExpiry
<1>5. ~(header <= 0 \/ matched = None)
  <2>1. SUFFICES ASSUME header <= 0 \/ matched = None PROVE FALSE
    OBVIOUS
  <2>2. expires = 0
    BY <2>1 DEF RefreshedExpiry
  <2> QED  BY <2>2
<1>6. expires = Shorten(Shorten(header, all), matched)
  BY <1>5 DEF RefreshedExpiry
<1>7. \A c \in g.contacts : c.own => c.expires > 0
  <2>1. ~\E c \in own : c.expires <= 0
    BY <1>5 DEF matchingContactExpiry
  <2> QED  BY <1>1, <2>1
<1>8. matched \in Nat
  <2>1. ~\E c \in own : c.expires <= 0
    BY <1>5 DEF matchingContactExpiry
  <2> QED  BY <1>4, <2>1 DEF matchingContactExpiry
<1> HIDE DEF header, matched, all
<1>9. expires \in Int /\ (all > 0 => expires <= all)
  BY <1>2, <1>3, <1>6, <1>8 DEF Shorten
<1>10. expires \in Nat \ {0}
  BY <1>9
<1>11. \A c \in g.contacts : c.expires > 0 => expires <= c.expires
  BY <1>1, <1>3, <1>9
<1> QED  BY <1>7, <1>10, <1>11 DEF GrantsAtLeast

-----------------------------------------------------------------------------
(* What the steps do to the clients, continued *)

\* Every goroutine is a client, of one kind.
LEMMA Roles ==
  /\ Refresher \in Clients /\ JobOf(Refresher) = "refresh"
  /\ \A c \in Senders : c \in Clients /\ c # Refresher /\ JobOf(c) = "sms"
  /\ \A c \in Ackers : c \in Clients /\ c # Refresher /\ JobOf(c) = "ack"
  /\ \A c \in Clients : c # Refresher => c \in Senders \cup Ackers
  /\ None \notin Clients
BY ClientsAssumption DEF Clients, JobOf

LEMMA SendEffect ==
  ASSUME Typed, SendSMS
  PROVE  \E c \in Senders, text \in AllTexts :
           /\ cs[c].pc = "idle" /\ BodiesOf[text] # NoParts
           /\ Claims(c, "sms", sends + 1, text, Len(BodiesOf[text]))
<1>1. cs \in [Clients -> Client] /\ sends \in Nat /\ scenario \in Scenarios
  BY DEF Typed
<1>2. PICK text \in scenario.texts :
        LET c == CHOOSE a \in freeSenders : TRUE IN
        /\ BodiesOf[text] # NoParts
        /\ cs' = [cs EXCEPT ![c] = [Idle EXCEPT !.pc = "lock", !.job = "sms", !.n = sends + 1,
                                                !.text = text, !.total = Len(BodiesOf[text])]]
  BY DEF SendSMS
<1> DEFINE c == CHOOSE a \in freeSenders : TRUE
           total == Len(BodiesOf[text])
           u == [Idle EXCEPT !.pc = "lock", !.job = "sms", !.n = sends + 1, !.text = text, !.total = total]
<1>3. c \in freeSenders
  BY DEF SendSMS
<1>4. c \in Senders /\ cs[c].pc = "idle" /\ c \in Clients
  BY <1>3, Roles DEF freeSenders
<1>5. text \in AllTexts /\ BodiesOf[text] # NoParts
  BY <1>1, <1>2 DEF AllTexts
<1>6. cs' = [cs EXCEPT ![c] = u]
  BY <1>2
<1>7. total \in {Len(BodiesOf[t]) : t \in AllTexts} /\ sends + 1 \in Nat
  BY <1>1, <1>5
<1> HIDE DEF c, total
<1>8. Claim(u, "sms", sends + 1, text, total, 0) /\ u.pc = "lock"
  BY <1>5, <1>7, SmsClaim
<1> HIDE DEF u
<1>9. u \in Client
  BY <1>8, Zenon DEF Claim
<1>10. Changed(c, u)
  BY <1>1, <1>4, <1>6, <1>9, OneChanges
<1>11. Claims(c, "sms", sends + 1, text, total)
  BY <1>8, <1>10, Zenon DEF Changed, Claims
<1> QED  BY <1>4, <1>5, <1>11, Zenon DEF total

LEMMA AckEffect ==
  ASSUME Typed, NEW m, m.id \in Nat, freeAckers # {}, cs' = Acknowledged(m)
  PROVE  \/ UNCHANGED cs
         \/ \E a \in Ackers : cs[a].pc = "idle" /\ Claims(a, "ack", m.id, <<>>, 1)
<1>1. cs \in [Clients -> Client]
  BY DEF Typed
<1>2. CASE service.closing
  BY <1>2 DEF Acknowledged
<1>3. CASE ~service.closing
  <2> DEFINE a == CHOOSE a \in freeAckers : TRUE
             u == [Idle EXCEPT !.pc = "lock", !.job = "ack", !.n = m.id, !.total = 1]
  <2>1. a \in freeAckers
    OBVIOUS
  <2>2. a \in Ackers /\ a \in Clients /\ cs[a].pc = "idle"
    BY <2>1, Roles DEF freeAckers
  <2>3. cs' = [cs EXCEPT ![a] = u]
    BY <1>3 DEF Acknowledged
  <2> HIDE DEF a
  <2>4. Claim(u, "ack", m.id, <<>>, 1, 0) /\ u.pc = "lock"
    BY AckClaim
  <2> HIDE DEF u
  <2>5. u \in Client
    BY <2>4, Zenon DEF Claim
  <2>6. Changed(a, u)
    BY <1>1, <2>2, <2>3, <2>5, OneChanges
  <2>7. Claims(a, "ack", m.id, <<>>, 1)
    BY <2>4, <2>6, Zenon DEF Changed, Claims
  <2> QED  BY <2>2, <2>7
<1> QED  BY <1>2, <1>3

\* A refresh begins, or an answer is taken.
RefreshStep ==
  \/ RoundStarts /\ service' = [service EXCEPT !.cseq = service.cseq + 1]
  \/ Returns(Refresher, "error") /\ UNCHANGED service
  \/ Reads(Refresher) /\ cs[Refresher].pc = "wait" /\ UNCHANGED service
  \/ /\ cs[Refresher].buf # <<>> /\ Head(cs[Refresher].buf).cseq = cs[Refresher].cseq
     /\ Head(cs[Refresher].buf).status = 200 /\ cs[Refresher].pc = "wait"
     /\ Returns(Refresher, "accepted")
     /\ \E g \in Grants, expires \in Nat \ {0} :
          GrantsAtLeast(g, expires) /\ service' = [service EXCEPT !.expires = expires, !.grant = g]

LEMMA RefreshEffect ==
  ASSUME Typed, ClientOK(Refresher), Refresh \/ TakeRefresh
  PROVE  RefreshStep
<1>1. cs[Refresher] \in Client /\ Refresher \in Clients /\ refreshes \in Nat
  BY Roles DEF Typed
<1>2. CASE Refresh
  <2> DEFINE r == [Idle EXCEPT !.job = "refresh", !.n = refreshes + 1, !.k = 1]
  <2>1. RefreshRound(r)
    BY <1>2 DEF Refresh
  <2>2. Claim(r, "refresh", refreshes + 1, <<>>, 0, 1)
    <3>1. refreshes + 1 \in Nat
      BY <1>1
    <3> QED  BY <3>1, RefreshClaim
  <2> HIDE DEF r
  <2>3. r \in Client /\ r.job = "refresh" /\ r.outcome # "accepted"
    BY <2>2 DEF Claim
  <2> QED  BY <2>1, <2>3, RoundEffect DEF RefreshStep
<1>3. CASE TakeRefresh
  <2> DEFINE me == cs[Refresher]
             r == Head(me.buf)
  <2>1. me.pc = "wait" /\ me.job = "refresh" /\ me.buf # <<>> /\ me.outcome # "accepted"
    BY <1>3 DEF TakeRefresh, ClientOK
  <2>2. CASE cs' = [cs EXCEPT ![Refresher] = Took(Refresher)] /\ UNCHANGED service
    BY <1>1, <2>1, <2>2, ReadEffect DEF RefreshStep
  <2>3. CASE RefreshFails
    <3>1. cs' = [cs EXCEPT ![Refresher] = Returned(@, "error")] /\ UNCHANGED service
      BY <2>3 DEF RefreshFails
    <3> QED  BY <1>1, <3>1, ReturnEffect DEF RefreshStep
  <2>4. CASE /\ Own(r) /\ r.status = 200
             /\ \E g \in Grants :
                  LET expires == RefreshedExpiry(g, Requested) IN
                  expires > 0 /\ service' = [service EXCEPT !.expires = expires, !.grant = g]
             /\ cs' = [cs EXCEPT ![Refresher] = Returned(@, "accepted")]
    <3>1. PICK g \in Grants :
                  LET expires == RefreshedExpiry(g, Requested) IN
                  expires > 0 /\ service' = [service EXCEPT !.expires = expires, !.grant = g]
      BY <2>4
    <3> DEFINE expires == RefreshedExpiry(g, Requested)
    <3>2. expires > 0 /\ service' = [service EXCEPT !.expires = expires, !.grant = g]
      BY <3>1
    <3>3. expires \in Nat \ {0} /\ GrantsAtLeast(g, expires)
      BY <3>2, RefreshedLifetime
    <3> HIDE DEF expires
    <3>4. Returns(Refresher, "accepted")
      BY <1>1, <2>4, ReturnEffect
    <3>5. r.cseq = me.cseq
      BY <2>4 DEF Own
    <3> QED  BY <2>1, <2>4, <3>2, <3>3, <3>4, <3>5, Zenon DEF RefreshStep
  <2>5. ASSUME NEW u, u \in {[me EXCEPT !.round = @ + 1], [me EXCEPT !.retried = TRUE]}, RefreshRound(u)
        PROVE  RefreshStep
    <3>1. RoundBegun(me, u)
      BY <1>1, <2>5, NextRoundShape
    <3>2. u \in Client /\ u.job = "refresh" /\ u.outcome # "accepted"
      BY <2>1, <3>1 DEF RoundBegun, SameJob
    <3> QED  BY <2>5, <3>2, RoundEffect DEF RefreshStep
  <2> QED  BY <1>3, <2>2, <2>3, <2>4, <2>5 DEF TakeRefresh
<1> QED  BY <1>2, <1>3

-----------------------------------------------------------------------------
(* The base: types, roles, the lock and the numbers *)

LEMMA NumbersKept ==
  ASSUME ids \in Nat, ids' \in Nat, ids <= ids'
  PROVE  (\A t : TaskOK(t) => TaskOK(t)') /\ (\A q : RequestOK(q) => RequestOK(q)')
BY DEF TaskOK, RequestOK, MessageNumbered

\* The clients that do not change stay as they should be.
LEMMA OthersKept ==
  ASSUME BaseInv, NEW c \in Clients, Changed(c, cs'[c]),
         \A d \in Clients \ {c} : messageMu' = d <=> messageMu = d,
         ids' = ids \/ messageMu' = c,
         service'.cseq = service.cseq \/ c = Refresher,
         granted \subseteq granted',
         ClientOK(c)', BufOK(c)'
  PROVE  \A d \in Clients : ClientOK(d)' /\ BufOK(d)'
<1>1. ASSUME NEW d \in Clients \ {c}
      PROVE  ClientOK(d)' /\ BufOK(d)'
  <2>1. cs'[d] = cs[d] /\ ClientOK(d) /\ BufOK(d)
    BY DEF BaseInv, Changed
  <2>2. BufOK(d)'
    BY <2>1 DEF BufOK
  <2>3. cs[d].pc \in Active /\ d # Refresher => messageMu' = d /\ ids' = ids
    BY <2>1 DEF ClientOK
  <2>4. d = Refresher => service'.cseq = service.cseq
    OBVIOUS
  <2>5. messageMu' = d => messageMu = d
    OBVIOUS
  <2>6. ClientOK(d)'
    BY <2>1, <2>3, <2>4, <2>5 DEF ClientOK
  <2> QED  BY <2>2, <2>6
<1> QED  BY <1>1

LEMMA BaseKept ==
  ASSUME BaseInv, UNCHANGED <<queue, net, wire>>, granted' = granted, ids' \in Nat, ids <= ids',
         Typed', \A d \in Clients : ClientOK(d)' /\ BufOK(d)'
  PROVE  BaseInv'
<1>1. (\A t : TaskOK(t) => TaskOK(t)') /\ (\A q : RequestOK(q) => RequestOK(q)')
  BY NumbersKept DEF BaseInv, Typed
<1>0. queue' = queue /\ net' = net
  OBVIOUS
<1>2. TasksOK'
  BY <1>0, <1>1, Zenon DEF BaseInv, TasksOK
<1>3. RequestsOK'
  BY <1>0, <1>1, Zenon DEF BaseInv, RequestsOK
<1> QED  BY <1>2, <1>3 DEF BaseInv

\* BaseInv holds initially; then, action by action, it is kept.
LEMMA BaseInit == Init => BaseInv
<1> SUFFICES ASSUME Init PROVE BaseInv
  OBVIOUS
<1>1. \A c \in Clients : cs[c] = Idle
  BY DEF Init
<1>2. Idle \in Client /\ Idle.pc = "idle" /\ ~Idle.sub /\ Idle.job = "none" /\ Idle.outcome = "none"
      /\ Idle.buf = <<>>
  BY IdleIsClient DEF Idle
<1>3. Typed
  <2>1. cs \in [Clients -> Client]
    BY <1>2 DEF Init
  <2>2. <<>> \in Seq(Task) /\ Len(<<>>) = 0
    BY EmptySeq
  <2>3. 1 \in 1..MaxCSeq /\ QueueCap \in Nat
    BY MessagingAssumption
  <2>4. service \in [closing : BOOLEAN, expires : Nat \ {0}, cseq : 1..MaxCSeq, grant : Grants \cup {None}]
    BY <2>3, InputsAssumption DEF Init
  <2> QED  BY <2>1, <2>2, <2>3, <2>4 DEF Init, Typed
<1>4. ASSUME NEW c \in Clients PROVE ClientOK(c) /\ BufOK(c)
  <2>1. messageMu # c
    BY Roles DEF Init
  <2>2. Len(<<>>) <= BufferSize
    BY MessagingAssumption, EmptySeq
  <2>3. cs[c] = Idle
    BY <1>1
  <2> QED  BY <1>2, <2>1, <2>2, <2>3, Zenon DEF ClientOK, BufOK, Active
<1>5. TasksOK
  BY DEF Init, TasksOK
<1>6. RequestsOK
  BY DEF Init, RequestsOK
<1> QED  BY <1>3, <1>4, <1>5, <1>6 DEF BaseInv

LEMMA SendBase ==
  ASSUME BaseInv, SendSMS
  PROVE  BaseInv'
<1>1. PICK c \in Senders, text \in AllTexts :
        cs[c].pc = "idle" /\ Claims(c, "sms", sends + 1, text, Len(BodiesOf[text]))
  BY SendEffect DEF BaseInv
<1>2. c \in Clients /\ c # Refresher /\ JobOf(c) = "sms"
  BY Roles
<1>3. Changed(c, cs'[c]) /\ cs'[c].pc = "lock" /\ Claim(cs'[c], "sms", sends + 1, text, Len(BodiesOf[text]), 0)
  BY <1>1 DEF Claims
<1>4. UNCHANGED <<scenario, messageMu, ids, refreshes, queue, net, wire, granted, service>> /\ sends' = sends + 1
  BY DEF SendSMS, runtimeVars
<1>5. Typed'
  <2>1. cs' \in [Clients -> Client]
    BY <1>3 DEF Changed
  <2> QED  BY <1>4, <2>1 DEF BaseInv, Typed
<1>6. messageMu # c
  BY <1>1, <1>2 DEF BaseInv, ClientOK, Active
<1>7. ClientOK(c)' /\ BufOK(c)'
  <2>1. /\ cs'[c].job = "sms" /\ cs'[c].k = 0 /\ cs'[c].outcome = "none" /\ ~cs'[c].sub /\ cs'[c].buf = <<>>
    BY <1>3 DEF Claim
  <2>2. Len(<<>>) <= BufferSize
    BY MessagingAssumption, EmptySeq
  <2> QED  BY <1>2, <1>3, <1>4, <1>6, <2>1, <2>2, Zenon DEF ClientOK, BufOK, Active
<1>8. \A d \in Clients : ClientOK(d)' /\ BufOK(d)'
  BY <1>2, <1>3, <1>4, <1>7, OthersKept
<1>9. ids' \in Nat /\ ids <= ids'
  BY <1>4 DEF BaseInv, Typed
<1> QED  BY <1>4, <1>5, <1>8, <1>9, BaseKept

LEMMA AckBase ==
  ASSUME BaseInv, NEW m, m.id \in Nat, freeAckers # {}, cs' = Acknowledged(m),
         UNCHANGED <<scenario, sharedVars, queue, net, wire, granted, service>>
  PROVE  BaseInv'
<1>1. UNCHANGED <<scenario, messageMu, ids, sends, refreshes, queue, net, wire, granted, service>>
  BY DEF sharedVars
<1>2. CASE UNCHANGED cs
  BY <1>1, <1>2 DEF BaseInv, Typed, ClientOK, BufOK, TasksOK, RequestsOK, TaskOK, RequestOK, MessageNumbered
<1>3. CASE \E a \in Ackers : cs[a].pc = "idle" /\ Claims(a, "ack", m.id, <<>>, 1)
  <2>1. PICK c \in Ackers : cs[c].pc = "idle" /\ Claims(c, "ack", m.id, <<>>, 1)
    BY <1>3
  <2>2. c \in Clients /\ c # Refresher /\ JobOf(c) = "ack"
    BY Roles
  <2>3. Changed(c, cs'[c]) /\ cs'[c].pc = "lock" /\ Claim(cs'[c], "ack", m.id, <<>>, 1, 0)
    BY <2>1 DEF Claims
  <2>4. Typed'
    <3>1. cs' \in [Clients -> Client]
      BY <2>3 DEF Changed
    <3> QED  BY <1>1, <3>1 DEF BaseInv, Typed
  <2>5. messageMu # c
    BY <2>1, <2>2 DEF BaseInv, ClientOK, Active
  <2>6. ClientOK(c)' /\ BufOK(c)'
    <3>1. /\ cs'[c].job = "ack" /\ cs'[c].k = 0 /\ cs'[c].outcome = "none" /\ ~cs'[c].sub /\ cs'[c].buf = <<>>
      BY <2>3 DEF Claim
    <3>2. Len(<<>>) <= BufferSize
      BY MessagingAssumption, EmptySeq
    <3> QED  BY <1>1, <2>2, <2>3, <2>5, <3>1, <3>2, Zenon DEF ClientOK, BufOK, Active
  <2>7. \A d \in Clients : ClientOK(d)' /\ BufOK(d)'
    BY <1>1, <2>2, <2>3, <2>6, OthersKept
  <2>8. ids' \in Nat /\ ids <= ids'
    BY <1>1 DEF BaseInv, Typed
  <2> QED  BY <1>1, <2>4, <2>7, <2>8, BaseKept
<1>4. Typed
  BY DEF BaseInv
<1> QED  BY <1>2, <1>3, <1>4, AckEffect

\* A part of a message starts, by a client that has the lock.
LEMMA PartBase ==
  ASSUME BaseInv, NEW c \in Clients, c # Refresher, cs[c].pc # "idle", PartStarts(c),
         messageMu \in {c, None}, messageMu' = c, ids' = ids + 1,
         UNCHANGED <<scenario, sends, refreshes, queue, net, wire, granted, service>>
  PROVE  BaseInv'
<1>1. Changed(c, cs'[c])
  BY DEF PartStarts
<1>2. ids' \in Nat /\ ids <= ids' /\ ids' > 0
  BY DEF BaseInv, Typed
<1>3. Typed'
  <2>1. cs' \in [Clients -> Client]
    BY <1>1 DEF Changed
  <2> QED  BY <1>2, <2>1 DEF BaseInv, Typed
<1>4. ClientOK(c)' /\ BufOK(c)'
  <2>1. cs[c].job = JobOf(c) /\ cs[c].outcome # "accepted" /\ cs[c].k \in Nat
    <3>1. cs[c] \in Client
      BY DEF BaseInv, Typed
    <3>2. cs[c].k \in Nat
      BY <3>1 DEF Client
    <3> QED  BY <3>2 DEF BaseInv, ClientOK
  <2>2. /\ cs'[c].pc = "queue" /\ cs'[c].job = cs[c].job /\ cs'[c].k = cs[c].k + 1
        /\ cs'[c].outcome = cs[c].outcome /\ cs'[c].call = ids + 1 /\ cs'[c].cseq = MessageCSeq(ids + 1)
        /\ cs'[c].sub /\ cs'[c].buf = <<>>
    BY DEF PartStarts, SameJob
  <2>3. Len(<<>>) <= BufferSize
    BY MessagingAssumption, EmptySeq
  <2>4. cs'[c].k > 0
    BY <2>1, <2>2
  <2>5. BufOK(c)'
    BY <2>2 DEF BufOK
  <2>6. ClientOK(c)'
    BY <1>2, <2>1, <2>2, <2>3, <2>4, Zenon DEF ClientOK, Active
  <2> QED  BY <2>5, <2>6
<1>5. \A d \in Clients \ {c} : messageMu' = d <=> messageMu = d
  BY Roles
<1>6. \A d \in Clients : ClientOK(d)' /\ BufOK(d)'
  BY <1>1, <1>4, <1>5, OthersKept
<1> QED  BY <1>2, <1>3, <1>6, BaseKept

LEMMA LockBase ==
  ASSUME BaseInv, NEW c \in Clients, Lock(c)
  PROVE  BaseInv'
<1>1. /\ cs[c].pc = "lock" /\ messageMu = None /\ messageMu' = c /\ ids' = ids + 1
      /\ cs' = [cs EXCEPT ![c] = PartReady(@)]
      /\ UNCHANGED <<scenario, sends, refreshes, queue, net, wire, granted, service>>
  BY DEF Lock, runtimeVars
<1>2. PartStarts(c)
  BY <1>1, PartEffect DEF BaseInv
<1>3. c # Refresher
  BY <1>1 DEF BaseInv, ClientOK
<1> QED  BY <1>1, <1>2, <1>3, PartBase

\* A client moves on with the same request: to the writer, to the answer, past a response.
LEMMA SameRequestBase ==
  ASSUME BaseInv, NEW c \in Clients, Changed(c, cs'[c]), SameRequest(cs[c], cs'[c]),
         cs[c].pc \in Active, cs'[c].pc \in Active,
         Len(cs'[c].buf) <= BufferSize,
         \A i \in DOMAIN cs'[c].buf : cs'[c].buf[i].status = 200 =>
           [call |-> cs[c].call, cseq |-> cs'[c].buf[i].cseq] \in granted,
         UNCHANGED <<messageMu, ids, service, granted>>
  PROVE  \A d \in Clients : ClientOK(d)' /\ BufOK(d)'
<1>1. /\ cs'[c].job = cs[c].job /\ cs'[c].k = cs[c].k /\ cs'[c].call = cs[c].call /\ cs'[c].cseq = cs[c].cseq
      /\ cs'[c].outcome = cs[c].outcome /\ cs'[c].sub = cs[c].sub
  BY DEF SameRequest, SameJob
<1>2. ClientOK(c)
  BY DEF BaseInv
<1>3. cs[c].pc # "idle" /\ cs'[c].pc # "idle" /\ cs'[c].pc # "lock"
  BY DEF Active
<1>4. messageMu' = messageMu /\ ids' = ids /\ service' = service /\ granted' = granted
  OBVIOUS
<1>5. ClientOK(c)'
  BY <1>1, <1>2, <1>3, <1>4, Zenon DEF ClientOK
<1>6. BufOK(c)'
  BY <1>1, <1>4 DEF BufOK
<1> QED  BY <1>4, <1>5, <1>6, OthersKept

LEMMA EnqueueBase ==
  ASSUME BaseInv, NEW c \in Clients, Enqueue(c)
  PROVE  BaseInv' /\ PcMoves(c, "written") /\ TaskOf(c) \in Task /\ Appended(queue, TaskOf(c), queue')
<1>1. /\ cs[c].pc = "queue" /\ Len(queue) < QueueCap /\ queue' = Append(queue, TaskOf(c))
      /\ cs' = [cs EXCEPT ![c].pc = "written"]
      /\ UNCHANGED <<scenario, messageMu, ids, sends, refreshes, net, wire, granted, service>>
  BY DEF Enqueue, sharedVars
<1>2. PcMoves(c, "written")
  BY <1>1, PcEffect DEF BaseInv
<1>3. /\ Changed(c, cs'[c]) /\ SameRequest(cs[c], cs'[c]) /\ cs'[c].pc = "written" /\ cs'[c].buf = cs[c].buf
  BY <1>2, Zenon DEF PcMoves, Moved
<1>4. ClientOK(c) /\ BufOK(c) /\ cs[c] \in Client
  BY DEF BaseInv, Typed
<1>5. /\ cs[c].job = JobOf(c) /\ cs[c].sub
      /\ c = Refresher => cs[c].call = 0 /\ cs[c].cseq = service.cseq
      /\ c # Refresher => ids > 0 /\ cs[c].call = ids /\ cs[c].cseq = MessageCSeq(ids)
  BY <1>1, <1>4 DEF ClientOK, Active
<1>6. cs[c].cseq \in 1..MaxCSeq
  <2>1. service.cseq \in 1..MaxCSeq /\ ids \in Nat
    BY DEF BaseInv, Typed
  <2>2. CASE c = Refresher
    BY <1>5, <2>1, <2>2
  <2>3. CASE c # Refresher
    BY <1>5, <2>1, <2>3, MessageCSeqLegal
  <2> QED  BY <2>2, <2>3
<1>7. TaskOf(c) \in Task
  <2>1. cs[c].n \in Nat /\ cs[c].k \in Nat /\ cs[c].call \in Nat
    BY <1>4 DEF Client
  <2>2. JobOf(c) \in {"sms", "ack", "refresh"}
    BY DEF JobOf
  <2> QED  BY <1>5, <1>6, <2>1, <2>2 DEF TaskOf, Task
<1>8. queue \in Seq(Task)
  BY DEF BaseInv, Typed
<1>9. Appended(queue, TaskOf(c), queue')
  BY <1>1, <1>7, <1>8, AppendedShape
<1>10. Typed'
  <2>1. cs' \in [Clients -> Client]
    BY <1>3 DEF Changed
  <2>2. queue' \in Seq(Task) /\ Len(queue') <= QueueCap
    <3>1. queue' \in Seq(Task) /\ Len(queue') = Len(queue) + 1
      BY <1>9 DEF Appended
    <3>2. Len(queue) \in Nat
      BY <1>8, LenProperties
    <3> QED  BY <1>1, <3>1, <3>2, MessagingAssumption
  <2> QED  BY <1>1, <2>1, <2>2 DEF BaseInv, Typed
<1>11. \A d \in Clients : ClientOK(d)' /\ BufOK(d)'
  <2>1. Len(cs'[c].buf) <= BufferSize
    BY <1>3, <1>4 DEF ClientOK
  <2>2. \A i \in DOMAIN cs'[c].buf : cs'[c].buf[i].status = 200 =>
          [call |-> cs[c].call, cseq |-> cs'[c].buf[i].cseq] \in granted
    BY <1>3, <1>4, <1>5 DEF BufOK
  <2>3. cs[c].pc \in Active /\ cs'[c].pc \in Active
    BY <1>1, <1>3 DEF Active
  <2> QED  BY <1>1, <1>3, <2>1, <2>2, <2>3, SameRequestBase
<1>12. TasksOK'
  <2>1. TaskOK(TaskOf(c))
    <3>1. CASE c = Refresher
      BY <1>5, <3>1, Roles DEF TaskOK, TaskOf, IsMessage
    <3>2. CASE c # Refresher
      <4>1. JobOf(c) # "refresh"
        BY <3>2 DEF JobOf
      <4>2. ids \in 1..ids
        BY <1>5, <3>2 DEF BaseInv, Typed
      <4> QED  BY <1>5, <3>2, <4>1, <4>2 DEF TaskOK, TaskOf, IsMessage, MessageNumbered
    <3> QED  BY <3>1, <3>2
  <2>2. \A i \in DOMAIN queue' : queue'[i] = TaskOf(c) \/ \E j \in DOMAIN queue : queue'[i] = queue[j]
    BY <1>9, <1>8, LenProperties DEF Appended
  <2>3. \A i \in DOMAIN queue' : TaskOK(queue'[i])
    BY <2>1, <2>2, Zenon DEF BaseInv, TasksOK
  <2>4. \A t : TaskOK(t) => TaskOK(t)'
    BY <1>1 DEF TaskOK, MessageNumbered
  <2> QED  BY <2>3, <2>4, Zenon DEF TasksOK
<1>13. RequestsOK'
  BY <1>1 DEF BaseInv, RequestsOK, RequestOK, MessageNumbered
<1> QED  BY <1>2, <1>7, <1>9, <1>10, <1>11, <1>12, <1>13 DEF BaseInv

\* The head of the queue leaves; its client may be told.
LEMMA DequeueBase ==
  ASSUME BaseInv, queue # <<>>, queue' = Tail(queue), NEW d \in {"ok", "err"}, cs' = Told(Head(queue), d),
         UNCHANGED <<scenario, messageMu, ids, sends, refreshes, granted, service>>
  PROVE  /\ Reported(Head(queue), d) /\ Dropped(queue, queue') /\ TaskOK(Head(queue)) /\ Head(queue) \in Task
         /\ cs' \in [Clients -> Client] /\ queue' \in Seq(Task) /\ Len(queue') <= QueueCap
         /\ TasksOK'
         /\ \A e \in Clients : ClientOK(e)' /\ BufOK(e)'
<1> DEFINE t == Head(queue)
<1>1. queue \in Seq(Task) /\ Len(queue) <= QueueCap /\ Typed
  BY DEF BaseInv, Typed
<1>2. Dropped(queue, queue')
  BY <1>1, DroppedShape
<1>3. t = queue[1] /\ 1 \in DOMAIN queue /\ t \in Task
  BY <1>2, Zenon DEF Dropped
<1>4. TaskOK(t)
  BY <1>3, Zenon DEF BaseInv, TasksOK
<1>5. queue' \in Seq(Task) /\ Len(queue') <= QueueCap
  <2>1. Len(queue') = Len(queue) - 1 /\ queue' \in Seq(Task)
    BY <1>2 DEF Dropped
  <2>2. Len(queue) \in Nat
    BY <1>1, LenProperties
  <2> QED  BY <1>1, <2>1, <2>2, MessagingAssumption
<1>6. TasksOK'
  <2>1. \A i \in DOMAIN queue' : TaskOK(queue'[i])
    BY <1>2 DEF Dropped, BaseInv, TasksOK
  <2>2. \A u : TaskOK(u) => TaskOK(u)'
    BY DEF TaskOK, MessageNumbered
  <2> QED  BY <2>1, <2>2, Zenon DEF TasksOK
<1>7. Reported(t, d)
  BY <1>1, <1>3, ReportEffect
<1>8. cs' \in [Clients -> Client] /\ \A e \in Clients : ClientOK(e)' /\ BufOK(e)'
  <2>1. CASE UNCHANGED cs
    BY <2>1 DEF BaseInv, Typed, ClientOK, BufOK
  <2>2. CASE cs[t.client].pc = "written" /\ Tells(t.client, d)
    <3> DEFINE c == t.client
    <3>1. c \in Clients
      BY <1>3 DEF Task
    <3>2. /\ Changed(c, cs'[c]) /\ SameRequest(cs[c], cs'[c]) /\ cs'[c].pc = "written" /\ cs'[c].buf = cs[c].buf
      BY <2>2, Zenon DEF Tells, DoneSet
    <3> HIDE DEF c
    <3>3. cs[c].pc \in Active /\ cs'[c].pc \in Active
      BY <2>2, <3>2 DEF Active, c
    <3>4. ClientOK(c) /\ BufOK(c)
      BY <3>1 DEF BaseInv
    <3>5. Len(cs'[c].buf) <= BufferSize
      BY <3>2, <3>4 DEF ClientOK
    <3>6. \A i \in DOMAIN cs'[c].buf : cs'[c].buf[i].status = 200 =>
            [call |-> cs[c].call, cseq |-> cs'[c].buf[i].cseq] \in granted
      BY SMTT(30), <3>2, <3>3, <3>4 DEF BufOK, ClientOK
    <3>7. \A e \in Clients : ClientOK(e)' /\ BufOK(e)'
      BY <3>1, <3>2, <3>3, <3>5, <3>6, SameRequestBase
    <3> QED  BY <3>2, <3>7 DEF Changed
  <2> QED  BY <1>7, <2>1, <2>2, Zenon DEF Reported
<1> QED  BY <1>2, <1>3, <1>4, <1>5, <1>6, <1>7, <1>8

LEMMA WriteBase ==
  ASSUME BaseInv, Write
  PROVE  BaseInv' /\ Appended(wire, Head(queue), wire')
<1> DEFINE t == Head(queue)
           q == [call |-> t.call, cseq |-> t.cseq]
<1>1. /\ queue # <<>> /\ queue' = Tail(queue) /\ cs' = Told(t, "ok")
      /\ net' = net \cup {q} /\ wire' = Append(wire, t)
      /\ UNCHANGED <<scenario, messageMu, ids, sends, refreshes, granted, service>>
  BY DEF Write, sharedVars
<1>2. /\ TaskOK(t) /\ t \in Task
      /\ cs' \in [Clients -> Client] /\ queue' \in Seq(Task) /\ Len(queue') <= QueueCap
      /\ TasksOK' /\ \A e \in Clients : ClientOK(e)' /\ BufOK(e)'
  BY <1>1, DequeueBase
<1>3. wire \in Seq(Task) /\ ids \in Nat /\ net \subseteq Request
  BY DEF BaseInv, Typed
<1> HIDE DEF t
<1>4. Appended(wire, t, wire')
  BY <1>1, <1>2, <1>3, AppendedShape
<1>5. q \in Request
  BY <1>2 DEF Task, Request
<1>6. Typed'
  <2>1. wire' \in Seq(Task) /\ net' \subseteq Request
    BY <1>1, <1>3, <1>4, <1>5 DEF Appended
  <2> QED  BY <1>1, <1>2, <2>1 DEF BaseInv, Typed
<1>7. RequestOK(q)
  <2>1. IF IsMessage(t) THEN MessageNumbered(t.call, t.cseq) ELSE t.call = 0
    BY <1>2 DEF TaskOK
  <2> QED  BY <2>1 DEF RequestOK
<1>8. RequestsOK'
  <2>1. \A e : RequestOK(e) => RequestOK(e)'
    BY <1>1 DEF RequestOK, MessageNumbered
  <2>2. \A e \in net' \cup granted' : RequestOK(e)
    BY <1>1, <1>7, Zenon DEF BaseInv, RequestsOK
  <2> QED  BY <2>1, <2>2, Zenon DEF RequestsOK
<1> QED  BY <1>2, <1>4, <1>6, <1>8 DEF BaseInv, t

LEMMA WriteFailsBase ==
  ASSUME BaseInv, WriteFails
  PROVE  BaseInv'
<1>1. /\ queue # <<>> /\ queue' = Tail(queue) /\ cs' = Told(Head(queue), "err")
      /\ UNCHANGED <<scenario, messageMu, ids, sends, refreshes, net, wire, granted, service>>
  BY DEF WriteFails, sharedVars
<1>2. /\ cs' \in [Clients -> Client] /\ queue' \in Seq(Task) /\ Len(queue') <= QueueCap
      /\ TasksOK' /\ \A e \in Clients : ClientOK(e)' /\ BufOK(e)'
  BY <1>1, DequeueBase
<1>3. Typed'
  BY <1>1, <1>2 DEF BaseInv, Typed
<1>4. RequestsOK'
  BY <1>1 DEF BaseInv, RequestsOK, RequestOK, MessageNumbered
<1> QED  BY <1>2, <1>3, <1>4 DEF BaseInv

\* A client returns, and gives the lock back.
LEMMA ReturnBase ==
  ASSUME BaseInv, NEW c \in Clients, NEW outcome \in {"error", "accepted"},
         outcome = "error" \/ cs[c].pc \in Active, Returns(c, outcome), messageMu' = Unlocked(c),
         service' \in [closing : BOOLEAN, expires : Nat \ {0}, cseq : 1..MaxCSeq, grant : Grants \cup {None}],
         service'.cseq = service.cseq, refreshes' \in Nat,
         UNCHANGED <<scenario, ids, sends, queue, net, wire, granted>>
  PROVE  BaseInv'
<1>1. Changed(c, cs'[c]) /\ Return(cs[c], outcome, cs'[c])
  BY DEF Returns
<1>2. messageMu' \in (Clients \ {Refresher}) \cup {None} /\ messageMu' # c
  <2>1. messageMu \in (Clients \ {Refresher}) \cup {None}
    BY DEF BaseInv, Typed
  <2> QED  BY <2>1, Roles DEF Unlocked
<1>3. Typed'
  <2>1. cs' \in [Clients -> Client]
    BY <1>1 DEF Changed
  <2> QED  BY <1>2, <2>1 DEF BaseInv, Typed
<1>4. ClientOK(c)' /\ BufOK(c)'
  <2>1. cs[c].job \in {"none", JobOf(c)} /\ (outcome = "accepted" => cs[c].job = JobOf(c))
    BY DEF BaseInv, ClientOK, Active
  <2>2. /\ cs'[c].pc = "idle" /\ cs'[c].job = cs[c].job /\ cs'[c].outcome = outcome
        /\ ~cs'[c].sub /\ cs'[c].buf = <<>>
    BY <1>1 DEF Return, SameJob
  <2>3. Len(<<>>) <= BufferSize
    BY MessagingAssumption, EmptySeq
  <2> QED  BY <1>2, <2>1, <2>2, <2>3, Zenon DEF ClientOK, BufOK, Active
<1>5. \A d \in Clients \ {c} : messageMu' = d <=> messageMu = d
  BY Roles DEF Unlocked
<1>6. \A d \in Clients : ClientOK(d)' /\ BufOK(d)'
  BY <1>1, <1>4, <1>5, OthersKept
<1>7. ids' \in Nat /\ ids <= ids'
  BY DEF BaseInv, Typed
<1> QED  BY <1>3, <1>6, <1>7, BaseKept

LEMMA ServiceTyped ==
  BaseInv => service \in [closing : BOOLEAN, expires : Nat \ {0}, cseq : 1..MaxCSeq, grant : Grants \cup {None}]
BY DEF BaseInv, Typed

\* A client with its request out, or with an answer, goes on.
LEMMA StayBase ==
  ASSUME BaseInv, NEW c \in Clients, cs[c].pc \in Active, cs'[c].pc \in Active,
         Changed(c, cs'[c]), SameRequest(cs[c], cs'[c]),
         Len(cs'[c].buf) <= BufferSize,
         \A i \in DOMAIN cs'[c].buf : cs'[c].buf[i].status = 200 =>
           [call |-> cs[c].call, cseq |-> cs'[c].buf[i].cseq] \in granted,
         refreshes' \in Nat,
         UNCHANGED <<scenario, messageMu, ids, sends, queue, net, wire, granted, service>>
  PROVE  BaseInv'
<1>1. \A d \in Clients : ClientOK(d)' /\ BufOK(d)'
  BY SameRequestBase
<1>2. Typed'
  <2>1. cs' \in [Clients -> Client]
    BY DEF Changed
  <2> QED  BY <2>1 DEF BaseInv, Typed
<1>3. ids' \in Nat /\ ids <= ids'
  BY DEF BaseInv, Typed
<1> QED  BY <1>1, <1>2, <1>3, BaseKept

LEMMA WriteDoneBase ==
  ASSUME BaseInv, NEW c \in Clients, WriteDone(c)
  PROVE  /\ BaseInv'
         /\ \/ cs[c].done = "ok" /\ PcMoves(c, "wait") /\ messageMu' = messageMu
            \/ cs[c].done # "ok" /\ Returns(c, "error")
<1>1. /\ cs[c].pc = "written" /\ UNCHANGED <<scenario, ids, sends, queue, net, wire, granted, service>>
      /\ refreshes' \in Nat
  BY DEF WriteDone, runtimeVars, BaseInv, Typed
<1>2. Typed /\ ClientOK(c) /\ BufOK(c) /\ cs[c].pc \in Active
  BY <1>1 DEF BaseInv, Active
<1>3. CASE cs[c].done = "ok"
  <2>1. cs' = [cs EXCEPT ![c].pc = "wait"] /\ messageMu' = messageMu
    BY <1>3 DEF WriteDone
  <2>2. PcMoves(c, "wait")
    BY <1>2, <2>1, PcEffect
  <2>3. /\ Changed(c, cs'[c]) /\ SameRequest(cs[c], cs'[c]) /\ cs'[c].pc = "wait" /\ cs'[c].buf = cs[c].buf
    BY <2>2, Zenon DEF PcMoves, Moved
  <2>4. Len(cs'[c].buf) <= BufferSize
    BY <1>2, <2>3 DEF ClientOK
  <2>5. \A i \in DOMAIN cs'[c].buf : cs'[c].buf[i].status = 200 =>
          [call |-> cs[c].call, cseq |-> cs'[c].buf[i].cseq] \in granted
    BY <1>2, <2>3 DEF ClientOK, BufOK
  <2>6. cs'[c].pc \in Active
    BY <2>3 DEF Active
  <2> QED  BY <1>1, <1>2, <1>3, <2>1, <2>2, <2>3, <2>4, <2>5, <2>6, StayBase
<1>4. CASE cs[c].done # "ok"
  <2>1. cs' = [cs EXCEPT ![c] = Returned(@, "error")] /\ messageMu' = Unlocked(c)
    BY <1>4 DEF WriteDone
  <2>2. Returns(c, "error")
    BY <1>2, <2>1, ReturnEffect
  <2> QED  BY <1>1, <1>2, <1>4, <2>1, <2>2, ServiceTyped, ReturnBase
<1> QED  BY <1>3, <1>4

LEMMA GiveUpBase ==
  ASSUME BaseInv, NEW c \in Clients, GiveUp(c)
  PROVE  BaseInv' /\ Returns(c, "error")
<1>1. /\ cs[c].pc \in Active /\ cs' = [cs EXCEPT ![c] = Returned(@, "error")] /\ messageMu' = Unlocked(c)
      /\ UNCHANGED <<scenario, ids, sends, queue, net, wire, granted, service>> /\ refreshes' \in Nat
  BY DEF GiveUp, runtimeVars, Active, BaseInv, Typed
<1>2. Returns(c, "error")
  BY <1>1, ReturnEffect DEF BaseInv
<1> QED  BY <1>1, <1>2, ServiceTyped, ReturnBase

\* The first response waiting is taken.
LEMMA ReadBase ==
  ASSUME BaseInv, NEW c \in Clients, cs[c].pc = "wait", Reads(c),
         refreshes' \in Nat,
         UNCHANGED <<scenario, messageMu, ids, sends, queue, net, wire, granted, service>>
  PROVE  BaseInv'
<1> DEFINE b == cs[c].buf
<1>1. /\ Changed(c, cs'[c]) /\ SameRequest(cs[c], cs'[c]) /\ cs'[c].pc = "wait" /\ cs'[c].buf = Tail(b) /\ b # <<>>
  BY DEF Reads, Buffered
<1>2. ClientOK(c) /\ BufOK(c) /\ cs[c] \in Client
  BY DEF BaseInv, Typed
<1>3. b \in Seq(Response)
  BY <1>2 DEF Client
<1>4. /\ Len(Tail(b)) = Len(b) - 1 /\ Len(b) \in Nat /\ DOMAIN b = 1..Len(b)
      /\ DOMAIN Tail(b) = 1..Len(Tail(b)) /\ \A i \in 1..Len(Tail(b)) : Tail(b)[i] = b[i + 1]
  <2>1. Tail(b) \in Seq(Response) /\ Len(Tail(b)) = Len(b) - 1 /\ \A i \in 1..Len(Tail(b)) : Tail(b)[i] = b[i + 1]
    BY <1>1, <1>3, HeadTailProperties
  <2> QED  BY <1>3, <2>1, LenProperties
<1>5. Len(b) <= BufferSize /\ BufferSize \in Nat
  BY <1>2, MessagingAssumption DEF ClientOK
<1>6. Len(cs'[c].buf) <= BufferSize
  BY <1>1, <1>4, <1>5
<1>7. \A i \in DOMAIN b : b[i].status = 200 => [call |-> cs[c].call, cseq |-> b[i].cseq] \in granted
  BY <1>2 DEF ClientOK, BufOK, Active
<1>8. \A i \in DOMAIN cs'[c].buf : cs'[c].buf[i].status = 200 =>
        [call |-> cs[c].call, cseq |-> cs'[c].buf[i].cseq] \in granted
  <2>1. SUFFICES ASSUME NEW i \in 1..Len(Tail(b)), Tail(b)[i].status = 200
                 PROVE  [call |-> cs[c].call, cseq |-> Tail(b)[i].cseq] \in granted
    BY <1>1, <1>4
  <2>2. PICK j \in DOMAIN b : Tail(b)[i] = b[j]
    BY <1>4
  <2>3. b[j].status = 200
    BY <2>1, <2>2
  <2>4. [call |-> cs[c].call, cseq |-> b[j].cseq] \in granted
    BY <1>7, <2>3
  <2> QED  BY <2>2, <2>4
<1>9. cs[c].pc \in Active /\ cs'[c].pc \in Active
  BY <1>1 DEF Active
<1> QED  BY <1>1, <1>6, <1>8, <1>9, StayBase

\* waitFinalSIPResponse: a response is passed over, or ends the part or the message.
TaskAccepted(c) == [call |-> cs[c].call, cseq |-> cs[c].cseq] \in granted

TakesSMS(c) ==
  \/ Reads(c) /\ UNCHANGED <<messageMu, ids>>
  \/ Returns(c, "error")
  \/ /\ TaskAccepted(c)
     /\ \/ PartStarts(c) /\ messageMu' = messageMu /\ ids' = ids + 1
        \/ Returns(c, "accepted") /\ cs[c].k = cs[c].total

LEMMA TakeBase ==
  ASSUME BaseInv, NEW c \in Clients, TakeSMS(c)
  PROVE  BaseInv' /\ TakesSMS(c) /\ c # Refresher
<1> DEFINE b == cs[c].buf
           status == Head(b).status
<1>1. /\ cs[c].pc = "wait" /\ cs[c].job # "refresh" /\ b # <<>>
      /\ UNCHANGED <<scenario, sends, refreshes, queue, net, wire, granted, service>> /\ refreshes' \in Nat
  BY DEF TakeSMS, runtimeVars, BaseInv, Typed
<1>2. Typed /\ ClientOK(c) /\ BufOK(c) /\ cs[c] \in Client /\ cs[c].pc \in Active
  BY <1>1 DEF BaseInv, Typed, Active
<1>3. c # Refresher
  BY <1>1, <1>2, Roles DEF ClientOK
<1>4. b \in Seq(Response)
  BY <1>2 DEF Client
<1>5. Head(b) = b[1] /\ 1 \in DOMAIN b /\ b[1] \in Response
  BY <1>1, <1>4, HeadTailProperties, LenProperties
<1>6. status \in {100, 200, 401, 500}
  BY <1>5 DEF Response
<1>7. messageMu = c /\ ids > 0 /\ cs[c].call = ids /\ cs[c].cseq = MessageCSeq(ids)
  BY <1>2, <1>3 DEF ClientOK
<1>8. status = 200 => TaskAccepted(c)
  <2>1. SUFFICES ASSUME status = 200 PROVE [call |-> cs[c].call, cseq |-> cs[c].cseq] \in granted
    BY DEF TaskAccepted
  <2>2. [call |-> cs[c].call, cseq |-> b[1].cseq] \in granted
    BY <1>2, <1>5, <2>1 DEF BufOK, ClientOK
  <2>3. RequestOK([call |-> cs[c].call, cseq |-> b[1].cseq])
    BY <2>2, Zenon DEF BaseInv, RequestsOK
  <2>4. b[1].cseq = MessageCSeq(ids)
    BY <1>7, <2>3 DEF RequestOK, MessageNumbered
  <2> QED  BY <1>7, <2>2, <2>4
<1>9. CASE status < 200 /\ cs' = [cs EXCEPT ![c] = Took(c)] /\ UNCHANGED <<messageMu, ids>>
  <2>1. Reads(c)
    BY <1>1, <1>2, <1>9, ReadEffect
  <2> QED  BY <1>1, <1>3, <1>9, <2>1, ReadBase DEF TakesSMS
<1>10. CASE cs' = [cs EXCEPT ![c] = Returned(@, "error")] /\ messageMu' = Unlocked(c) /\ UNCHANGED ids
  <2>1. Returns(c, "error")
    BY <1>2, <1>10, ReturnEffect
  <2> QED  BY <1>1, <1>2, <1>3, <1>10, <2>1, ReturnBase, ServiceTyped DEF TakesSMS
<1>11. CASE /\ status = 200 /\ cs[c].k < cs[c].total
            /\ cs' = [cs EXCEPT ![c] = PartReady(@)] /\ ids' = ids + 1 /\ UNCHANGED messageMu
  <2>1. PartStarts(c)
    BY <1>2, <1>11, PartEffect
  <2> QED  BY <1>1, <1>3, <1>7, <1>8, <1>11, <2>1, PartBase DEF TakesSMS
<1>12. CASE /\ status = 200 /\ cs[c].k = cs[c].total
            /\ cs' = [cs EXCEPT ![c] = Returned(@, "accepted")] /\ messageMu' = Unlocked(c) /\ UNCHANGED ids
  <2>1. Returns(c, "accepted")
    BY <1>2, <1>12, ReturnEffect
  <2> QED  BY <1>1, <1>2, <1>3, <1>8, <1>12, <2>1, ReturnBase, ServiceTyped DEF TakesSMS
<1>13. ~Rejected(status) /\ status >= 200 => status = 200
  BY <1>6 DEF Rejected
<1> HIDE DEF status
<1> QED  BY <1>9, <1>10, <1>11, <1>12, <1>13, Zenon DEF TakeSMS, status

LEMMA RefreshBase ==
  ASSUME BaseInv, Refresh \/ TakeRefresh
  PROVE  BaseInv' /\ RefreshStep
<1> DEFINE c == Refresher
<1>1. /\ UNCHANGED <<scenario, messageMu, ids, sends, queue, net, wire, granted>>
      /\ refreshes' \in Nat
  <2>1. refreshes \in Nat
    BY DEF BaseInv, Typed
  <2>2. CASE Refresh
    BY <2>1, <2>2 DEF Refresh, runtimeVars
  <2>3. CASE TakeRefresh
    BY <2>1, <2>3 DEF TakeRefresh, runtimeVars, sharedVars
  <2> QED  BY <2>2, <2>3
<1>2. Typed /\ ClientOK(c) /\ c \in Clients /\ messageMu # c /\ service.cseq \in 1..MaxCSeq
  BY Roles DEF BaseInv, Typed
<1>3. RefreshStep
  BY <1>2, RefreshEffect
<1>4. ids' \in Nat /\ ids <= ids' /\ ids' = ids
  BY <1>1 DEF BaseInv, Typed
<1>5. ASSUME Changed(c, cs'[c]), ClientOK(c)', BufOK(c)',
             service' \in [closing : BOOLEAN, expires : Nat \ {0}, cseq : 1..MaxCSeq, grant : Grants \cup {None}]
      PROVE  BaseInv'
  <2>1. \A d \in Clients : ClientOK(d)' /\ BufOK(d)'
    BY <1>1, <1>2, <1>5, OthersKept
  <2>2. Typed'
    <3>1. cs' \in [Clients -> Client]
      BY <1>5 DEF Changed
    <3> QED  BY <1>1, <1>5, <3>1 DEF BaseInv, Typed
  <2> QED  BY <1>1, <1>4, <2>1, <2>2, BaseKept
<1>6. CASE RoundStarts /\ service' = [service EXCEPT !.cseq = service.cseq + 1]
  <2>1. Len(<<>>) <= BufferSize
    BY MessagingAssumption, EmptySeq
  <2>2. /\ service.cseq + 1 \in 1..MaxCSeq /\ service'.cseq = service.cseq + 1
        /\ service' \in [closing : BOOLEAN, expires : Nat \ {0}, cseq : 1..MaxCSeq, grant : Grants \cup {None}]
    BY <1>2, <1>6, ServiceTyped, MessagingAssumption DEF RoundStarts
  <2>3. /\ Changed(c, cs'[c]) /\ cs'[c].pc = "queue" /\ cs'[c].call = 0 /\ cs'[c].job = "refresh"
        /\ cs'[c].outcome # "accepted" /\ cs'[c].cseq = service'.cseq /\ cs'[c].sub /\ cs'[c].buf = <<>>
    BY <1>6, <2>2, Zenon DEF RoundStarts
  <2>4. messageMu' # c
    BY <1>1, <1>2
  <2>5. ClientOK(c)' /\ BufOK(c)'
    <3>1. ClientOK(c)'
      BY <2>1, <2>3, <2>4, Roles, Zenon DEF ClientOK, Active
    <3>2. BufOK(c)'
      BY <2>3 DEF BufOK
    <3> QED  BY <3>1, <3>2
  <2> QED  BY <1>3, <1>5, <2>2, <2>3, <2>5
<1>7. messageMu' = Unlocked(c)
  BY <1>1, <1>2 DEF Unlocked
<1>8. CASE Returns(c, "error") /\ UNCHANGED service
  BY <1>1, <1>2, <1>3, <1>7, <1>8, ServiceTyped, ReturnBase
<1>9. CASE Reads(c) /\ cs[c].pc = "wait" /\ UNCHANGED service
  BY <1>1, <1>2, <1>3, <1>9, ReadBase
<1>10. CASE /\ cs[c].buf # <<>> /\ Head(cs[c].buf).cseq = cs[c].cseq
            /\ Head(cs[c].buf).status = 200 /\ cs[c].pc = "wait"
            /\ Returns(c, "accepted")
            /\ \E g \in Grants, expires \in Nat \ {0} :
                 GrantsAtLeast(g, expires) /\ service' = [service EXCEPT !.expires = expires, !.grant = g]
  <2>1. PICK g \in Grants, expires \in Nat \ {0} :
           GrantsAtLeast(g, expires) /\ service' = [service EXCEPT !.expires = expires, !.grant = g]
    BY <1>10
  <2>2. /\ service'.cseq = service.cseq
        /\ service' \in [closing : BOOLEAN, expires : Nat \ {0}, cseq : 1..MaxCSeq, grant : Grants \cup {None}]
    BY <2>1, ServiceTyped
  <2>3. cs[c].pc \in Active
    BY <1>10 DEF Active
  <2> QED  BY <1>1, <1>2, <1>3, <1>7, <1>10, <2>2, <2>3, ReturnBase
<1>11. BaseInv'
  BY <1>3, <1>6, <1>8, <1>9, <1>10, Zenon DEF RefreshStep
<1> QED  BY <1>3, <1>11

\* The client is as before, or has one more response.
Heard(c) ==
  \/ cs'[c] = cs[c]
  \/ SameRequest(cs[c], cs'[c]) /\ cs'[c].pc = cs[c].pc /\ cs'[c].done = cs[c].done

\* The network answers.
LEMMA AnswerBase ==
  ASSUME BaseInv, ReadResponse
  PROVE  /\ BaseInv' /\ granted \subseteq granted'
         /\ \A c \in Clients : Heard(c)
<1>1. PICK q \in net, s \in {100, 200, 401, 500} :
        /\ cs' = Published(q.call, q.cseq, s) /\ net' \subseteq net
        /\ granted' = IF s = 200 THEN granted \cup {q} ELSE granted
  BY DEF ReadResponse
<1> DEFINE e == [cseq |-> q.cseq, status |-> s]
<1>2. UNCHANGED <<scenario, messageMu, ids, sends, refreshes, queue, wire, service>>
  BY DEF ReadResponse, sharedVars, runtimeVars
<1>3. Typed /\ q \in Request
  BY DEF BaseInv, Typed
<1>4. q.cseq \in 1..MaxCSeq /\ q = [call |-> q.call, cseq |-> q.cseq]
  BY <1>3 DEF Request
<1>5. cs' \in [Clients -> Client] /\ \A c \in Clients : Gets(c, q.call, e)
  <2>1. cs' = Published(q.call, q.cseq, s)
    BY <1>1
  <2>2. q.call \in Nat
    BY <1>3 DEF Request
  <2>3. Publishes(q.call, q.cseq, s)
    BY <1>3, <1>4, <2>1, <2>2, PublishEffect
  <2> QED  BY <2>3, Zenon DEF Publishes
<1>6. granted \subseteq granted' /\ (s = 200 => q \in granted') /\ granted' \subseteq granted \cup net
  BY <1>1
<1>7. ASSUME NEW c \in Clients
      PROVE  ClientOK(c)' /\ BufOK(c)' /\ Heard(c)
  <2>1. ClientOK(c) /\ BufOK(c) /\ cs[c] \in Client
    BY DEF BaseInv, Typed
  <2>2. CASE cs'[c] = cs[c]
    <3>1. ClientOK(c)'
      BY <1>2, <2>1, <2>2 DEF ClientOK
    <3>2. BufOK(c)'
      BY <1>6, <2>1, <2>2 DEF BufOK
    <3> QED  BY <2>2, <3>1, <3>2 DEF Heard
  <2>3. CASE /\ cs[c].sub /\ cs[c].call = q.call /\ Len(cs[c].buf) < BufferSize
             /\ Buffered(cs[c], cs'[c], Append(cs[c].buf, e))
    <3> DEFINE b == cs[c].buf
               d == Append(b, e)
    <3>1. b \in Seq(Response) /\ e \in Response
      BY <1>4, <2>1 DEF Client, Response
    <3>2. /\ Len(d) = Len(b) + 1 /\ Len(b) \in Nat /\ d[Len(d)] = e
          /\ DOMAIN d = 1..Len(d) /\ DOMAIN b = 1..Len(b) /\ \A i \in 1..Len(b) : d[i] = b[i]
      BY <3>1, AppendProperties, LenProperties
    <3>3. /\ SameRequest(cs[c], cs'[c]) /\ cs'[c].pc = cs[c].pc /\ cs'[c].done = cs[c].done /\ cs'[c].buf = d
      BY <2>3 DEF Buffered
    <3> HIDE DEF d
    <3>4. Len(d) <= BufferSize
      BY <2>3, <3>2, MessagingAssumption
    <3>5. /\ cs'[c].job = cs[c].job /\ cs'[c].k = cs[c].k /\ cs'[c].call = cs[c].call
          /\ cs'[c].cseq = cs[c].cseq /\ cs'[c].outcome = cs[c].outcome /\ cs'[c].sub = cs[c].sub
      BY <3>3 DEF SameRequest, SameJob
    <3>6. ClientOK(c)'
      BY <1>2, <2>1, <3>3, <3>4, <3>5 DEF ClientOK
    <3>7. BufOK(c)'
      <4>1. SUFFICES ASSUME NEW i \in DOMAIN d, d[i].status = 200
                     PROVE  [call |-> cs[c].call, cseq |-> d[i].cseq] \in granted'
        BY <3>3, <3>5 DEF BufOK
      <4>2. CASE i \in DOMAIN b
        <5>1. d[i] = b[i]
          BY <3>2, <4>2
        <5>2. [call |-> cs[c].call, cseq |-> b[i].cseq] \in granted
          BY <2>1, <2>3, <4>1, <4>2, <5>1 DEF BufOK
        <5> QED  BY <1>6, <5>1, <5>2
      <4>3. CASE i \notin DOMAIN b
        <5>1. d[i] = e
          BY <3>2, <4>3
        <5>2. s = 200
          BY <4>1, <5>1
        <5> QED  BY <1>4, <1>6, <2>3, <5>1, <5>2
      <4> QED  BY <4>2, <4>3
    <3> QED  BY <3>3, <3>6, <3>7 DEF Heard
  <2>4. Gets(c, q.call, e)
    BY <1>5
  <2> HIDE DEF e
  <2> QED  BY <2>2, <2>3, <2>4, Zenon DEF Gets
<1>8. Typed'
  <2>1. net \subseteq Request /\ granted \subseteq Request
    BY <1>3 DEF Typed
  <2>2. net' \subseteq Request /\ granted' \subseteq Request
    BY <1>1, <1>6, <2>1
  <2> QED  BY <1>2, <1>3, <1>5, <2>2 DEF Typed
<1>9. TasksOK'
  BY <1>2 DEF BaseInv, TasksOK, TaskOK, MessageNumbered
<1>10. RequestsOK'
  <2>1. \A r : RequestOK(r) => RequestOK(r)'
    BY <1>2 DEF RequestOK, MessageNumbered
  <2>2. \A r \in net' \cup granted' : RequestOK(r)
    BY <1>1, <1>6 DEF BaseInv, RequestsOK
  <2> QED  BY <2>1, <2>2, Zenon DEF RequestsOK
<1> QED  BY <1>6, <1>7, <1>8, <1>9, <1>10 DEF BaseInv

\* What no client and no request takes part in.
Elsewhere ==
  UNCHANGED <<scenario, cs, messageMu, ids, sends, refreshes, queue, net, wire, granted>>

Aside ==
  \/ WriterStops \/ LateStore \/ ListenerEnds \/ InviteArrives \/ HalfClose \/ LeaseExpires \/ DrainEnds \/ ConnCancelled
  \/ FinalResponse \/ CloseCalled \/ Closing
  \/ \E h \in Handlers : ReadEnds(h) \/ StoreFails(h) \/ StoreTimesOut(h)

LEMMA AsideElsewhere ==
  ASSUME BaseInv, Aside \/ UNCHANGED vars
  PROVE  /\ Elsewhere /\ service'.cseq = service.cseq /\ service'.grant = service.grant
         /\ service'.expires = service.expires
         /\ service' \in [closing : BOOLEAN, expires : Nat \ {0}, cseq : 1..MaxCSeq, grant : Grants \cup {None}]
<1>1. CASE CloseCalled
  BY <1>1, ServiceTyped DEF CloseCalled, Elsewhere, sharedVars, runtimeVars
<1>2. CASE WriterStops \/ LateStore \/ ListenerEnds \/ Closing
  BY <1>2, ServiceTyped DEF WriterStops, LateStore, ListenerEnds, Closing, CloseRuntime, CloseReturns,
                            Elsewhere, sharedVars, runtimeVars
<1>3. CASE InviteArrives \/ HalfClose \/ LeaseExpires \/ DrainEnds \/ ConnCancelled \/ FinalResponse
  BY <1>3, ServiceTyped DEF InviteArrives, HalfClose, LeaseExpires, DrainEnds, ConnCancelled, FinalResponse, connRest,
                            Elsewhere, sharedVars, runtimeVars
<1>4. CASE \E h \in Handlers : ReadEnds(h) \/ StoreFails(h) \/ StoreTimesOut(h)
  BY <1>4, ServiceTyped DEF ReadEnds, StoreFails, StoreTimesOut, Elsewhere, sharedVars, runtimeVars
<1>5. CASE UNCHANGED vars
  BY <1>5, ServiceTyped DEF vars, Elsewhere, sharedVars, runtimeVars
<1> QED  BY <1>1, <1>2, <1>3, <1>4, <1>5 DEF Aside

LEMMA AsideBase ==
  ASSUME BaseInv, Aside \/ UNCHANGED vars
  PROVE  BaseInv'
<1>1. /\ Elsewhere /\ service'.cseq = service.cseq
      /\ service' \in [closing : BOOLEAN, expires : Nat \ {0}, cseq : 1..MaxCSeq, grant : Grants \cup {None}]
  BY AsideElsewhere
<1>2. /\ scenario' = scenario /\ cs' = cs /\ messageMu' = messageMu /\ ids' = ids /\ sends' = sends
      /\ refreshes' = refreshes /\ queue' = queue /\ net' = net /\ wire' = wire /\ granted' = granted
  BY <1>1 DEF Elsewhere
<1>3. Typed'
  BY <1>1, <1>2 DEF BaseInv, Typed
<1>4. \A c \in Clients : ClientOK(c)' /\ BufOK(c)'
  BY <1>1, <1>2 DEF BaseInv, ClientOK, BufOK
<1>5. TasksOK' /\ RequestsOK'
  BY <1>2 DEF BaseInv, TasksOK, RequestsOK, TaskOK, RequestOK, MessageNumbered
<1> QED  BY <1>3, <1>4, <1>5 DEF BaseInv

LEMMA MessageNumbers == BaseInv => \A m \in scenario.mt : m.id \in Nat
BY InputsAssumption DEF BaseInv, Typed

\* The steps that give a message to a reader, or one that is stored to an RP-ACK goroutine.
LEMMA ReaderBase ==
  ASSUME BaseInv, NEW h \in Handlers, hs[h].pc = "store" => hs[h].m \in scenario.mt, ReadMessage(h) \/ Store(h)
  PROVE  BaseInv'
<1>1. UNCHANGED <<scenario, sharedVars, queue, net, wire, granted, service>> /\ freeAckers # {}
  BY DEF ReadMessage, Store, runtimeVars
<1>2. (\E m \in scenario.mt : cs' = Acknowledged(m)) \/ UNCHANGED cs
  BY DEF ReadMessage, Store
<1>3. CASE UNCHANGED cs
  BY <1>1, <1>3 DEF BaseInv, Typed, ClientOK, BufOK, TasksOK, RequestsOK, TaskOK, RequestOK, MessageNumbered, sharedVars
<1> QED  BY <1>1, <1>2, <1>3, MessageNumbers, AckBase

-----------------------------------------------------------------------------
(* What is stored *)

LEMMA IdentityNow ==
  ASSUME NEW m
  PROVE  Identity(m, DecodedOf[m]) = IdentityOf(m, delivered[m])
BY DEF Identity, IdentityOf

\* A message that is not read or stored leaves the archive alone.
Unread == UNCHANGED <<scenario, hs, late, archive, delivered>>

LEMMA ReaderSteps ==
  [Next]_vars => \/ Unread \/ LateStore
                 \/ \E h \in Handlers : ReadEnds(h) \/ ReadMessage(h) \/ Store(h) \/ StoreFails(h) \/ StoreTimesOut(h)
<1>1. ASSUME NEW c \in Clients, ClientStep(c)
      PROVE  Unread
  BY <1>1 DEF ClientStep, Lock, Enqueue, WriteDone, GiveUp, TakeSMS, Unread, inVars
<1>2. ASSUME SendSMS \/ Refresh \/ TakeRefresh \/ Writer \/ ReadResponse
      PROVE  Unread
  BY ZenonT(60), <1>2 DEF SendSMS, Refresh, TakeRefresh, Writer, Write, WriteFails, WriterStops, ReadResponse, Unread, inVars
<1>3. ASSUME ListenerEnds \/ InviteArrives \/ HalfClose \/ LeaseExpires \/ DrainEnds \/ ConnCancelled \/ FinalResponse
      PROVE  Unread
  BY <1>3 DEF ListenerEnds, InviteArrives, HalfClose, LeaseExpires, DrainEnds, ConnCancelled, FinalResponse, connRest, Unread, inVars
<1>4. ASSUME CloseCalled \/ Closing
      PROVE  Unread
  BY <1>4 DEF CloseCalled, Closing, CloseRuntime, CloseReturns, Unread, inVars
<1>5. ASSUME UNCHANGED vars PROVE Unread
  BY <1>5 DEF vars, Unread, inVars
<1> QED  BY <1>1, <1>2, <1>3, <1>4, <1>5 DEF Next, Handling

LEMMA ReaderBack ==
  ASSUME hs \in [Handlers -> Reader], NEW h \in Handlers, Back(h),
         scenario' = scenario, \A g \in Handlers : ReaderOK(hs[g])
  PROVE  hs' \in [Handlers -> Reader] /\ \A g \in Handlers : ReaderOK(hs'[g])
<1> DEFINE r == [pc |-> "read", m |-> None, id |-> None]
<1>1. r \in Reader /\ ReaderOK(r)
  BY DEF Reader, ReaderOK, Identities
<1>2. hs' = [hs EXCEPT ![h] = r]
  BY DEF Back
<1> HIDE DEF r
<1> QED  BY <1>1, <1>2

LEMMA NamedKept ==
  ASSUME scenario' = scenario
  PROVE  /\ \A id, m : Named(id, m) => Named(id, m)'
         /\ \A e : EntryOK(e) => EntryOK(e)'
         /\ \A r : ReaderOK(r) => ReaderOK(r)'
BY DEF Named, EntryOK, ReaderOK

LEMMA ArchivedOK ==
  ASSUME NEW id, NEW m, Named(id, m), \A e \in archive : EntryOK(e)
  PROVE  \A e \in Archived(id, m) : EntryOK(e)
<1> DEFINE f == [id |-> id, m |-> m.id]
<1>1. EntryOK(f)
  BY DEF EntryOK, Named
<1>2. \A e \in Archived(id, m) : e \in archive \/ e = f
  BY DEF Archived
<1> HIDE DEF f
<1> QED  BY <1>1, <1>2

LEMMA ArchiveInit == Init => ArchiveInv
<1> SUFFICES ASSUME Init PROVE ArchiveInv
  OBVIOUS
<1> DEFINE r == [pc |-> "read", m |-> None, id |-> None]
<1>1. r \in Reader /\ ReaderOK(r)
  BY DEF Reader, ReaderOK, Identities
<1>2. hs = [h \in Handlers |-> r] /\ delivered = [m \in scenario.mt |-> 0]
      /\ scenario \in Scenarios /\ late = {} /\ archive = {}
  BY DEF Init
<1> HIDE DEF r
<1> QED  BY <1>1, <1>2 DEF ArchiveInv

LEMMA ArchiveStep == ArchiveInv /\ [Next]_vars => ArchiveInv'
<1> SUFFICES ASSUME ArchiveInv, [Next]_vars PROVE ArchiveInv'
  OBVIOUS
<1>1. /\ scenario \in Scenarios /\ delivered \in [scenario.mt -> Nat] /\ hs \in [Handlers -> Reader]
      /\ (\A h \in Handlers : ReaderOK(hs[h]))
      /\ (\A e \in late : Named(e.id, e.m)) /\ \A e \in archive : EntryOK(e)
  BY DEF ArchiveInv
<1>2. CASE Unread
  BY <1>1, <1>2 DEF Unread, ArchiveInv, ReaderOK, EntryOK, Named
<1>3. ASSUME scenario' = scenario, delivered' \in [scenario.mt -> Nat], hs' \in [Handlers -> Reader],
             \A h \in Handlers : ReaderOK(hs'[h]), \A e \in late' : Named(e.id, e.m),
             \A e \in archive' : EntryOK(e)
      PROVE  ArchiveInv'
  <2>1. (\A h \in Handlers : ReaderOK(hs[h]))'
    BY <1>3, NamedKept
  <2>2. (\A e \in late : Named(e.id, e.m))' /\ (\A e \in archive : EntryOK(e))'
    BY <1>3, NamedKept
  <2> QED  BY <1>1, <1>3, <2>1, <2>2 DEF ArchiveInv
<1>4. CASE LateStore
  <2>1. PICK e \in late : archive' = Archived(e.id, e.m) /\ late' = late \ {e}
    BY <1>4 DEF LateStore
  <2>2. UNCHANGED <<scenario, hs, delivered>>
    BY <1>4 DEF LateStore
  <2>3. \A f \in archive' : EntryOK(f)
    BY <1>1, <2>1, ArchivedOK
  <2> QED  BY <1>1, <1>3, <2>1, <2>2, <2>3
<1>5. ASSUME NEW h \in Handlers, ReadEnds(h)
      PROVE  ArchiveInv'
  <2>1. hs' = [hs EXCEPT ![h].pc = "done"] /\ UNCHANGED <<scenario, late, archive, delivered>>
    BY <1>5 DEF ReadEnds
  <2>2. hs[h] \in Reader
    BY <1>1
  <2>3. [hs[h] EXCEPT !.pc = "done"] \in Reader /\ ReaderOK([hs[h] EXCEPT !.pc = "done"])
    BY <2>2 DEF Reader, ReaderOK
  <2>4. hs' = [hs EXCEPT ![h] = [hs[h] EXCEPT !.pc = "done"]]
    BY <1>1, <2>1
  <2> DEFINE r == [hs[h] EXCEPT !.pc = "done"]
  <2> HIDE DEF r
  <2>5. hs' \in [Handlers -> Reader] /\ \A g \in Handlers : ReaderOK(hs'[g])
    BY <1>1, <2>3, <2>4 DEF r
  <2> QED  BY <1>1, <1>3, <2>1, <2>5
<1>6. ASSUME NEW h \in Handlers, ReadMessage(h)
      PROVE  ArchiveInv'
  <2>1. PICK m \in scenario.mt :
          /\ delivered' = [delivered EXCEPT ![m] = @ + 1]
          /\ hs' = IF DecodedOf[m].kind \in {"deliver", "submit"} /\ ~BadConcat(DecodedOf[m].concat)
                     THEN [hs EXCEPT ![h] = [pc |-> "store", m |-> m, id |-> Identity(m, DecodedOf[m])]] ELSE hs
    BY <1>6 DEF ReadMessage
  <2>2. UNCHANGED <<scenario, late, archive>>
    BY <1>6 DEF ReadMessage
  <2>3. delivered' \in [scenario.mt -> Nat] /\ delivered[m] \in Nat
    BY <1>1, <2>1
  <2>4. CASE hs' = hs
    BY <1>1, <1>3, <2>2, <2>3, <2>4
  <2>5. CASE Stored(m) /\ hs' = [hs EXCEPT ![h] = [pc |-> "store", m |-> m, id |-> Identity(m, DecodedOf[m])]]
    <3> DEFINE id == IdentityOf(m, delivered[m])
               r == [pc |-> "store", m |-> m, id |-> id]
    <3>1. hs' = [hs EXCEPT ![h] = r]
      BY <2>5, IdentityNow
    <3>2. m \in AllMessages
      BY <1>1 DEF AllMessages
    <3>3. id \in Identities /\ Named(id, m)
      BY <2>3, <2>5, <3>2 DEF Identities, Named
    <3> HIDE DEF id
    <3>4. r \in Reader /\ ReaderOK(r)
      BY <3>2, <3>3 DEF Reader, ReaderOK
    <3> HIDE DEF r
    <3>5. hs' \in [Handlers -> Reader] /\ \A g \in Handlers : ReaderOK(hs'[g])
      BY <1>1, <3>1, <3>4
    <3> QED  BY <1>1, <1>3, <2>2, <2>3, <3>5
  <2> QED  BY <2>1, <2>4, <2>5 DEF Stored
<1>7. ASSUME NEW h \in Handlers, Store(h)
      PROVE  ArchiveInv'
  <2>1. hs[h].pc = "store" /\ archive' = Archived(hs[h].id, hs[h].m) /\ Back(h) /\ UNCHANGED <<scenario, late, delivered>>
    BY <1>7 DEF Store
  <2>2. Named(hs[h].id, hs[h].m)
    BY <1>1, <2>1 DEF ReaderOK
  <2>3. \A e \in archive' : EntryOK(e)
    BY <1>1, <2>1, <2>2, ArchivedOK
  <2>4. hs' \in [Handlers -> Reader] /\ \A g \in Handlers : ReaderOK(hs'[g])
    BY <1>1, <2>1, ReaderBack
  <2> QED  BY <1>1, <1>3, <2>1, <2>3, <2>4
<1>8. ASSUME NEW h \in Handlers, StoreFails(h) \/ StoreTimesOut(h)
      PROVE  ArchiveInv'
  <2>1. /\ hs[h].pc = "store" /\ Back(h) /\ UNCHANGED <<scenario, archive, delivered>>
        /\ late' = late \/ late' = late \cup {[id |-> hs[h].id, m |-> hs[h].m]}
    BY <1>8 DEF StoreFails, StoreTimesOut
  <2>2. Named(hs[h].id, hs[h].m)
    BY <1>1, <2>1 DEF ReaderOK
  <2>3. \A e \in late' : Named(e.id, e.m)
    BY <1>1, <2>1, <2>2
  <2>4. hs' \in [Handlers -> Reader] /\ \A g \in Handlers : ReaderOK(hs'[g])
    BY <1>1, <2>1, ReaderBack
  <2> QED  BY <1>1, <1>3, <2>1, <2>3, <2>4
<1> QED  BY <1>2, <1>4, <1>5, <1>6, <1>7, <1>8, ReaderSteps

\* ArchiveInv is an invariant on its own.
LEMMA ArchiveInvariant == Spec => []ArchiveInv
BY ArchiveInit, ArchiveStep, PTL DEF Spec

\* The base, given what the readers hold.
LEMMA BaseStep == BaseInv /\ ArchiveInv /\ [Next]_vars => BaseInv'
<1> SUFFICES ASSUME BaseInv, ArchiveInv, [Next]_vars PROVE BaseInv'
  OBVIOUS
<1>1. ASSUME NEW c \in Clients, ClientStep(c) PROVE BaseInv'
  BY <1>1, LockBase, EnqueueBase, WriteDoneBase, GiveUpBase, TakeBase DEF ClientStep
<1>2. ASSUME SendSMS \/ Refresh \/ TakeRefresh \/ Write \/ WriteFails \/ ReadResponse
      PROVE  BaseInv'
  BY <1>2, SendBase, RefreshBase, WriteBase, WriteFailsBase, AnswerBase
<1>3. ASSUME NEW h \in Handlers, ReadMessage(h) \/ Store(h) PROVE BaseInv'
  <2>1. hs[h].pc = "store" => hs[h].m \in scenario.mt
    BY DEF ArchiveInv, ReaderOK, Named
  <2> QED  BY <1>3, <2>1, ReaderBase
<1>4. CASE Aside \/ UNCHANGED vars
  BY <1>4, AsideBase
<1> QED  BY <1>1, <1>2, <1>3, <1>4 DEF Next, Writer, Handling, Aside

\* BaseInv is one beside it.
LEMMA BaseInvariant == Spec => []BaseInv
BY BaseInit, BaseStep, ArchiveInvariant, PTL DEF Spec

-----------------------------------------------------------------------------
(* Refreshes *)

\* What a refresh that neither begins a round nor is answered does to the refresher.
RefresherStays ==
  /\ cs'[Refresher].pc = "queue" => cs[Refresher].pc = "queue"
  /\ cs'[Refresher].outcome = "accepted" =>
       cs[Refresher].outcome = "accepted" /\ cs'[Refresher].cseq = cs[Refresher].cseq

LifetimeStays == service'.cseq = service.cseq /\ service'.grant = service.grant /\ service'.expires = service.expires

LEMMA AnswersKept ==
  ASSUME RefreshAnswered, BindingStands, RefresherStays, LifetimeStays, granted \subseteq granted'
  PROVE  RefreshAnswered' /\ BindingStands'
<1>1. RefreshAnswered'
  BY DEF RefreshAnswered, RefresherStays
<1>2. BindingStands'
  BY DEF BindingStands, LifetimeStays
<1> QED  BY <1>1, <1>2

LEMMA OrderKept ==
  ASSUME RefreshOrder, RefresherStays, UNCHANGED <<queue, wire>>, service'.cseq = service.cseq
  PROVE  RefreshOrder'
BY DEF RefreshOrder, RefresherStays, RefreshesRise, RefreshesBelow, IsMessage

LEMMA OtherStays ==
  ASSUME NEW c \in Clients, c # Refresher, cs'[Refresher] = cs[Refresher]
  PROVE  RefresherStays
BY DEF RefresherStays

\* A round: its CSeq is above every one in use.
LEMMA RoundOrder ==
  ASSUME BaseInv, RefreshInv, RoundStarts, service' = [service EXCEPT !.cseq = service.cseq + 1],
         UNCHANGED <<queue, wire, granted>>
  PROVE  RefreshInv'
<1>1. service.cseq \in Nat
  BY DEF BaseInv, Typed
<1>2. service'.cseq = service.cseq + 1 /\ service'.grant = service.grant /\ service'.expires = service.expires
  BY ServiceTyped
<1>3. RefreshOrder /\ RefreshAnswered /\ BindingStands
  BY DEF RefreshInv
<1>4. queue \in Seq(Task) /\ wire \in Seq(Task)
  BY DEF BaseInv, Typed
<1>5. (\A i \in DOMAIN wire : wire[i].cseq \in Nat) /\ (\A i \in DOMAIN queue : queue[i].cseq \in Nat)
  <2>1. \A t \in Task : t.cseq \in Nat
    BY MessagingAssumption DEF Task
  <2> QED  BY <1>4, <2>1
<1>6. RefreshOrder'
  BY <1>1, <1>2, <1>3, <1>5 DEF RefreshOrder, RefreshesRise, RefreshesBelow, IsMessage
<1>7. RefreshAnswered'
  BY DEF RoundStarts, RefreshAnswered
<1>8. BindingStands'
  BY <1>2, <1>3 DEF BindingStands
<1> QED  BY <1>6, <1>7, <1>8 DEF RefreshInv

\* The answer is to the request whose CSeq the refresher has, and what it grants is kept.
LEMMA AcceptedRefresh ==
  ASSUME BaseInv, RefreshInv, UNCHANGED <<queue, wire, granted>>,
         cs[Refresher].buf # <<>>, Head(cs[Refresher].buf).cseq = cs[Refresher].cseq,
         Head(cs[Refresher].buf).status = 200, cs[Refresher].pc = "wait", Returns(Refresher, "accepted"),
         NEW g \in Grants, NEW expires \in Nat \ {0}, GrantsAtLeast(g, expires),
         service' = [service EXCEPT !.expires = expires, !.grant = g]
  PROVE  RefreshInv'
<1> DEFINE b == cs[Refresher].buf
<1>1. service'.cseq = service.cseq /\ service'.grant = g /\ service'.expires = expires
  BY ServiceTyped
<1>2. cs'[Refresher].pc = "idle" /\ cs'[Refresher].cseq = cs[Refresher].cseq
  BY Zenon DEF Returns, Return
<1>3. RefreshOrder'
  BY <1>1, <1>2 DEF RefreshInv, RefreshOrder, RefreshesRise, RefreshesBelow, IsMessage
<1>4. RefreshAnswered'
  <2>1. Refresher \in Clients /\ cs[Refresher] \in Client /\ ClientOK(Refresher) /\ BufOK(Refresher)
    BY Roles DEF BaseInv, Typed
  <2>2. b \in Seq(Response)
    BY <2>1 DEF Client
  <2>3. Head(b) = b[1] /\ 1 \in DOMAIN b
    BY <2>2, HeadTailProperties, LenProperties
  <2>4. cs[Refresher].sub /\ cs[Refresher].call = 0
    BY <2>1 DEF ClientOK, Active
  <2>5. [call |-> 0, cseq |-> cs[Refresher].cseq] \in granted
    BY <2>1, <2>3, <2>4 DEF BufOK
  <2> QED  BY <1>2, <2>5 DEF RefreshAnswered
<1>5. BindingStands'
  BY <1>1 DEF BindingStands, GrantsAtLeast
<1> QED  BY <1>3, <1>4, <1>5 DEF RefreshInv

LEMMA RefreshStepSafe ==
  ASSUME BaseInv, RefreshInv, RefreshStep, UNCHANGED <<queue, wire, granted>>
  PROVE  RefreshInv'
<1>1. ASSUME RefresherStays, UNCHANGED service
      PROVE  RefreshInv'
  <2>1. LifetimeStays
    BY <1>1 DEF LifetimeStays
  <2>2. RefreshOrder' /\ RefreshAnswered' /\ BindingStands'
    BY <1>1, <2>1, OrderKept, AnswersKept DEF RefreshInv
  <2> QED  BY <2>2 DEF RefreshInv
<1>2. CASE RoundStarts /\ service' = [service EXCEPT !.cseq = service.cseq + 1]
  BY <1>2, RoundOrder
<1>3. CASE Returns(Refresher, "error") /\ UNCHANGED service
  <2>1. cs'[Refresher].pc = "idle" /\ cs'[Refresher].outcome = "error"
    BY <1>3, Zenon DEF Returns, Return
  <2> QED  BY <1>1, <1>3, <2>1 DEF RefresherStays
<1>4. CASE Reads(Refresher) /\ cs[Refresher].pc = "wait" /\ UNCHANGED service
  <2>1. cs'[Refresher].pc = cs[Refresher].pc /\ cs'[Refresher].outcome = cs[Refresher].outcome
        /\ cs'[Refresher].cseq = cs[Refresher].cseq
    BY <1>4, Zenon DEF Reads, Buffered, SameRequest
  <2> QED  BY <1>1, <1>4, <2>1 DEF RefresherStays
<1>5. CASE /\ cs[Refresher].buf # <<>> /\ Head(cs[Refresher].buf).cseq = cs[Refresher].cseq
           /\ Head(cs[Refresher].buf).status = 200 /\ cs[Refresher].pc = "wait"
           /\ Returns(Refresher, "accepted")
           /\ \E g \in Grants, expires \in Nat \ {0} :
                GrantsAtLeast(g, expires) /\ service' = [service EXCEPT !.expires = expires, !.grant = g]
  BY <1>5, AcceptedRefresh
<1> QED  BY <1>2, <1>3, <1>4, <1>5 DEF RefreshStep

\* A REGISTER that is queued is above those before it.
LEMMA EnqueueOrder ==
  ASSUME BaseInv, RefreshOrder, NEW c \in Clients, cs[c].pc = "queue", Appended(queue, TaskOf(c), queue'),
         PcMoves(c, "written"), UNCHANGED <<wire, service>>
  PROVE  RefreshOrder'
<1> DEFINE t == TaskOf(c)
<1>1. ~IsMessage(t) => c = Refresher /\ t.cseq = service.cseq
  <2>1. ClientOK(c) /\ t.job = cs[c].job /\ t.cseq = cs[c].cseq
    BY DEF BaseInv, TaskOf
  <2>2. cs[c].job = JobOf(c) /\ (c = Refresher => cs[c].cseq = service.cseq)
    BY <2>1 DEF ClientOK, Active
  <2>3. c # Refresher => JobOf(c) # "refresh"
    BY DEF JobOf
  <2> QED  BY <2>1, <2>2, <2>3 DEF IsMessage
<1>2. cs'[Refresher].pc = "queue" => cs[Refresher].pc = "queue" /\ c # Refresher
  <2>1. cs'[c].pc = "written" /\ \A d \in Clients \ {c} : cs'[d] = cs[d]
    BY Zenon DEF PcMoves, Moved, Changed
  <2> QED  BY <2>1, Roles
<1>3. /\ Len(queue') = Len(queue) + 1 /\ DOMAIN queue' = 1..Len(queue') /\ DOMAIN queue = 1..Len(queue)
      /\ Len(queue) \in Nat
      /\ queue'[Len(queue')] = t /\ \A i \in DOMAIN queue : queue'[i] = queue[i]
  BY LenProperties DEF Appended, BaseInv, Typed
<1> HIDE DEF t
<1>4. \A i \in DOMAIN queue' : \/ i \in DOMAIN queue /\ queue'[i] = queue[i]
                               \/ i = Len(queue') /\ queue'[i] = t
  BY <1>3
<1>5. service.cseq \in Nat
  BY DEF BaseInv, Typed
<1>6. ~IsMessage(t) => RefreshesBelow(wire, t.cseq) /\ RefreshesBelow(queue, t.cseq)
  BY <1>1 DEF RefreshOrder
<1>7. RefreshesRise(queue')
  <2>1. SUFFICES ASSUME NEW i \in DOMAIN queue', NEW j \in DOMAIN queue', i < j,
                        ~IsMessage(queue'[i]), ~IsMessage(queue'[j])
                 PROVE  queue'[i].cseq < queue'[j].cseq
    BY DEF RefreshesRise
  <2>2. i \in DOMAIN queue /\ queue'[i] = queue[i]
    BY <1>3, <2>1
  <2>3. CASE j \in DOMAIN queue /\ queue'[j] = queue[j]
    BY <2>1, <2>2, <2>3 DEF RefreshOrder, RefreshesRise
  <2>4. CASE queue'[j] = t
    BY <1>6, <2>1, <2>2, <2>4 DEF RefreshesBelow
  <2> QED  BY <1>4, <2>3, <2>4
<1>8. \A i \in DOMAIN wire, j \in DOMAIN queue' :
        ~IsMessage(wire[i]) /\ ~IsMessage(queue'[j]) => wire[i].cseq < queue'[j].cseq
  <2>1. SUFFICES ASSUME NEW i \in DOMAIN wire, NEW j \in DOMAIN queue', ~IsMessage(wire[i]), ~IsMessage(queue'[j])
                 PROVE  wire[i].cseq < queue'[j].cseq
    OBVIOUS
  <2>2. CASE j \in DOMAIN queue /\ queue'[j] = queue[j]
    BY <2>1, <2>2 DEF RefreshOrder
  <2>3. CASE queue'[j] = t
    BY <1>6, <2>1, <2>3 DEF RefreshesBelow
  <2> QED  BY <1>4, <2>2, <2>3
<1>9. RefreshesBelow(queue', service.cseq + 1)
  <2>1. SUFFICES ASSUME NEW i \in DOMAIN queue', ~IsMessage(queue'[i])
                 PROVE  queue'[i].cseq < service.cseq + 1
    BY DEF RefreshesBelow
  <2> QED  BY <1>1, <1>4, <1>5, <2>1 DEF RefreshOrder, RefreshesBelow
<1>10. cs'[Refresher].pc = "queue" => RefreshesBelow(queue', service.cseq) /\ RefreshesBelow(wire, service.cseq)
  <2>1. SUFFICES ASSUME cs'[Refresher].pc = "queue"
                 PROVE  RefreshesBelow(queue', service.cseq) /\ RefreshesBelow(wire, service.cseq)
    OBVIOUS
  <2>2. RefreshesBelow(queue, service.cseq) /\ RefreshesBelow(wire, service.cseq) /\ IsMessage(t)
    BY <1>1, <1>2, <2>1 DEF RefreshOrder
  <2> QED  BY <1>4, <2>2 DEF RefreshesBelow
<1> QED  BY <1>7, <1>8, <1>9, <1>10 DEF RefreshOrder, RefreshesRise, RefreshesBelow, IsMessage

LEMMA DequeueOrder ==
  ASSUME BaseInv, RefreshOrder, RefresherStays, Dropped(queue, queue'), UNCHANGED service,
         wire' = wire \/ Appended(wire, Head(queue), wire')
  PROVE  RefreshOrder'
<1> DEFINE t == Head(queue)
<1>1. /\ t = queue[1] /\ 1 \in DOMAIN queue /\ DOMAIN queue' \subseteq Nat \ {0} /\ DOMAIN queue \subseteq Nat
      /\ \A i \in DOMAIN queue' : i + 1 \in DOMAIN queue /\ queue'[i] = queue[i + 1]
  BY DEF Dropped
<1> HIDE DEF t
<1>2. \A i \in DOMAIN wire' : \/ i \in DOMAIN wire /\ wire'[i] = wire[i]
                              \/ wire'[i] = t /\ \A j \in DOMAIN wire' : j <= i
  <2>1. CASE wire' = wire
    BY <2>1
  <2>2. CASE Appended(wire, Head(queue), wire')
    BY <2>2, LenProperties DEF Appended, t, BaseInv, Typed
  <2> QED  BY <2>1, <2>2
<1>3. RefreshesRise(queue')
  BY <1>1 DEF RefreshOrder, RefreshesRise
<1>4. DOMAIN wire' \subseteq Nat
  BY LenProperties DEF Appended, BaseInv, Typed
<1>5. RefreshesRise(wire')
  <2>1. SUFFICES ASSUME NEW i \in DOMAIN wire', NEW j \in DOMAIN wire', i < j,
                        ~IsMessage(wire'[i]), ~IsMessage(wire'[j])
                 PROVE  wire'[i].cseq < wire'[j].cseq
    BY DEF RefreshesRise
  <2>2. i \in DOMAIN wire /\ wire'[i] = wire[i]
    BY <1>2, <1>4, <2>1
  <2>3. CASE j \in DOMAIN wire /\ wire'[j] = wire[j]
    BY <2>1, <2>2, <2>3 DEF RefreshOrder, RefreshesRise
  <2>4. CASE wire'[j] = t
    BY <1>1, <2>1, <2>2, <2>4 DEF RefreshOrder
  <2> QED  BY <1>2, <2>3, <2>4
<1>6. \A i \in DOMAIN wire', j \in DOMAIN queue' :
        ~IsMessage(wire'[i]) /\ ~IsMessage(queue'[j]) => wire'[i].cseq < queue'[j].cseq
  <2>1. SUFFICES ASSUME NEW i \in DOMAIN wire', NEW j \in DOMAIN queue', ~IsMessage(wire'[i]), ~IsMessage(queue'[j])
                 PROVE  wire'[i].cseq < queue'[j].cseq
    OBVIOUS
  <2>2. j + 1 \in DOMAIN queue /\ queue'[j] = queue[j + 1] /\ 1 < j + 1
    BY <1>1
  <2>3. CASE i \in DOMAIN wire /\ wire'[i] = wire[i]
    BY <2>1, <2>2, <2>3 DEF RefreshOrder
  <2>4. CASE wire'[i] = t
    BY <1>1, <2>1, <2>2, <2>4 DEF RefreshOrder, RefreshesRise
  <2> QED  BY <1>2, <2>3, <2>4
<1>7. ASSUME NEW b, RefreshesBelow(wire, b), RefreshesBelow(queue, b)
      PROVE  RefreshesBelow(wire', b) /\ RefreshesBelow(queue', b)
  BY <1>1, <1>2, <1>7 DEF RefreshesBelow
<1>8. RefreshesBelow(wire', service.cseq + 1) /\ RefreshesBelow(queue', service.cseq + 1)
  BY <1>7 DEF RefreshOrder
<1>9. cs'[Refresher].pc = "queue" => RefreshesBelow(wire', service.cseq) /\ RefreshesBelow(queue', service.cseq)
  BY <1>7 DEF RefreshOrder, RefresherStays
<1> QED  BY <1>3, <1>5, <1>6, <1>8, <1>9 DEF RefreshOrder, RefreshesRise, RefreshesBelow, IsMessage

\* A message that is read or stored may start an RP-ACK, for itself.
Acknowledging(h) ==
  \/ UNCHANGED cs
  \/ \E a \in Ackers, m \in scenario.mt :
       /\ cs[a].pc = "idle" /\ Claims(a, "ack", m.id, <<>>, 1)
       /\ DecodedOf[m].kind = "report" \/ (Store(h) /\ hs[h].m = m)

LEMMA ReaderEffect ==
  ASSUME BaseInv, ArchiveInv, NEW h \in Handlers, ReadMessage(h) \/ Store(h)
  PROVE  /\ Acknowledging(h)
         /\ UNCHANGED <<scenario, messageMu, ids, sends, refreshes, queue, writer, net, wire, granted, service>>
<1>1. /\ UNCHANGED <<scenario, messageMu, ids, sends, refreshes, queue, writer, net, wire, granted, service>>
      /\ freeAckers # {}
  BY DEF ReadMessage, Store, runtimeVars, sharedVars
<1>2. ASSUME NEW m \in scenario.mt, cs' = Acknowledged(m), DecodedOf[m].kind = "report" \/ (Store(h) /\ hs[h].m = m)
      PROVE  Acknowledging(h)
  <2>1. \/ UNCHANGED cs
        \/ \E a \in Ackers : cs[a].pc = "idle" /\ Claims(a, "ack", m.id, <<>>, 1)
    BY <1>1, <1>2, MessageNumbers, AckEffect DEF BaseInv
  <2> QED  BY <1>2, <2>1, Zenon DEF Acknowledging
<1>3. ASSUME ReadMessage(h) PROVE Acknowledging(h)
  <2>1. PICK m \in scenario.mt : cs' = IF DecodedOf[m].kind = "report" THEN Acknowledged(m) ELSE cs
    BY <1>3 DEF ReadMessage
  <2>2. CASE DecodedOf[m].kind = "report"
    <3>1. cs' = Acknowledged(m)
      BY <2>1, <2>2
    <3> QED  BY <1>2, <2>2, <3>1, Zenon
  <2>3. CASE DecodedOf[m].kind # "report"
    BY <2>1, <2>3, Zenon DEF Acknowledging
  <2> QED  BY <2>2, <2>3
<1>4. ASSUME Store(h) PROVE Acknowledging(h)
  <2>1. hs[h].pc = "store" /\ cs' = Acknowledged(hs[h].m)
    BY <1>4 DEF Store
  <2>2. hs[h].m \in scenario.mt
    BY <2>1 DEF ArchiveInv, ReaderOK, Named
  <2> QED  BY <1>2, <1>4, <2>1, <2>2, Zenon
<1> QED  BY <1>1, <1>3, <1>4

LEMMA RefreshInit == Init => RefreshInv
<1> SUFFICES ASSUME Init PROVE RefreshInv
  OBVIOUS
<1>1. /\ queue = <<>> /\ wire = <<>> /\ service.grant = None
      /\ cs = [c \in Clients |-> Idle]
  BY DEF Init
<1>2. cs[Refresher] = Idle /\ Idle.pc = "idle" /\ Idle.outcome = "none"
  BY <1>1, Roles DEF Idle
<1>3. DOMAIN queue = {} /\ DOMAIN wire = {}
  BY <1>1, EmptySeq
<1> QED  BY <1>1, <1>2, <1>3 DEF RefreshInv, RefreshOrder, RefreshesRise, RefreshesBelow, RefreshAnswered, BindingStands

\* What other clients do leaves a refresh alone.
LEMMA ElsewhereSafe ==
  ASSUME RefreshInv, RefresherStays, LifetimeStays, UNCHANGED <<queue, wire>>, granted \subseteq granted'
  PROVE  RefreshInv'
<1>1. RefreshOrder' /\ RefreshAnswered' /\ BindingStands'
  BY OrderKept, AnswersKept DEF RefreshInv, LifetimeStays
<1> QED  BY <1>1 DEF RefreshInv

LEMMA OtherSafe ==
  ASSUME RefreshInv, NEW c \in Clients, c # Refresher, NEW u, Changed(c, u), UNCHANGED <<queue, wire, granted, service>>
  PROVE  RefreshInv'
<1>1. cs'[Refresher] = cs[Refresher]
  BY Roles DEF Changed
<1> QED  BY <1>1, OtherStays, ElsewhereSafe DEF LifetimeStays

LEMMA QueueSafe ==
  ASSUME BaseInv, RefreshInv,
         (\E c \in Clients : Enqueue(c)) \/ Write \/ WriteFails
  PROVE  RefreshInv'
<1>1. RefreshOrder /\ RefreshAnswered /\ BindingStands
  BY DEF RefreshInv
<1>2. ASSUME RefreshOrder', RefresherStays, UNCHANGED <<granted, service>>
      PROVE  RefreshInv'
  BY <1>1, <1>2, AnswersKept DEF RefreshInv, LifetimeStays
<1>3. ASSUME NEW c \in Clients, Enqueue(c)
      PROVE  RefreshInv'
  <2>1. cs[c].pc = "queue" /\ PcMoves(c, "written") /\ Appended(queue, TaskOf(c), queue')
    BY <1>3, EnqueueBase DEF Enqueue
  <2>2. UNCHANGED <<wire, granted, service>>
    BY <1>3 DEF Enqueue
  <2>3. RefreshOrder'
    BY <1>1, <2>1, <2>2, EnqueueOrder
  <2>4. RefresherStays
    <3>1. /\ cs'[c].pc = "written" /\ cs'[c].outcome = cs[c].outcome /\ cs'[c].cseq = cs[c].cseq
          /\ \A d \in Clients \ {c} : cs'[d] = cs[d]
      BY <2>1, Zenon DEF PcMoves, Moved, SameRequest, Changed
    <3> QED  BY <3>1, Roles DEF RefresherStays
  <2> QED  BY <1>2, <2>2, <2>3, <2>4
<1>4. ASSUME queue # <<>>, queue' = Tail(queue), NEW d \in {"ok", "err"}, cs' = Told(Head(queue), d),
             UNCHANGED <<scenario, messageMu, ids, sends, refreshes, granted, service>>,
             wire' = wire \/ Appended(wire, Head(queue), wire')
      PROVE  RefreshInv'
  <2>1. Reported(Head(queue), d) /\ Dropped(queue, queue')
    BY <1>4, DequeueBase
  <2>2. RefresherStays
    <3>1. CASE UNCHANGED cs
      BY <3>1 DEF RefresherStays
    <3>2. CASE Tells(Head(queue).client, d)
      <4> DEFINE c == Head(queue).client
      <4>1. /\ cs'[c].pc = cs[c].pc /\ cs'[c].outcome = cs[c].outcome /\ cs'[c].cseq = cs[c].cseq
            /\ \A e \in Clients \ {c} : cs'[e] = cs[e]
        BY <3>2, Zenon DEF Tells, DoneSet, SameRequest, Changed
      <4> HIDE DEF c
      <4> QED  BY <4>1, Roles DEF RefresherStays
    <3> QED  BY <2>1, <3>1, <3>2, Zenon DEF Reported
  <2>3. RefreshOrder'
    BY <1>1, <1>4, <2>1, <2>2, DequeueOrder
  <2> QED  BY <1>2, <1>4, <2>2, <2>3
<1>5. CASE Write
  <2>1. /\ queue # <<>> /\ queue' = Tail(queue) /\ cs' = Told(Head(queue), "ok")
        /\ UNCHANGED <<scenario, messageMu, ids, sends, refreshes, granted, service>>
    BY <1>5 DEF Write, sharedVars
  <2> QED  BY <1>4, <1>5, <2>1, WriteBase
<1>6. CASE WriteFails
  <2>1. /\ queue # <<>> /\ queue' = Tail(queue) /\ cs' = Told(Head(queue), "err") /\ wire' = wire
        /\ UNCHANGED <<scenario, messageMu, ids, sends, refreshes, granted, service>>
    BY <1>6 DEF WriteFails, sharedVars
  <2> QED  BY <1>4, <2>1
<1> QED  BY <1>3, <1>5, <1>6

\* Every step keeps RefreshInv.
LEMMA RefreshNext == BaseInv /\ ArchiveInv /\ RefreshInv /\ [Next]_vars => RefreshInv'
<1> SUFFICES ASSUME BaseInv, ArchiveInv, RefreshInv, [Next]_vars PROVE RefreshInv'
  OBVIOUS
<1>1. CASE Refresh \/ TakeRefresh
  <2>1. RefreshStep
    BY <1>1, RefreshBase
  <2>2. UNCHANGED <<queue, wire, granted>>
    BY <1>1 DEF Refresh, TakeRefresh, runtimeVars
  <2> QED  BY <2>1, <2>2, RefreshStepSafe
<1>2. CASE SendSMS
  <2>1. PICK c \in Senders : Changed(c, cs'[c])
    BY <1>2, SendEffect DEF BaseInv, Claims
  <2>2. UNCHANGED <<queue, wire, granted, service>>
    BY <1>2 DEF SendSMS, runtimeVars
  <2> QED  BY <2>1, <2>2, Roles, OtherSafe
<1>3. ASSUME NEW c \in Clients, Lock(c) \/ TakeSMS(c) PROVE RefreshInv'
  <2>1. UNCHANGED <<queue, wire, granted, service>>
    BY <1>3 DEF Lock, TakeSMS, runtimeVars
  <2>2. c # Refresher /\ Changed(c, cs'[c])
    <3>1. CASE Lock(c)
      <4>1. cs[c].pc = "lock" /\ cs' = [cs EXCEPT ![c] = PartReady(@)]
        BY <3>1 DEF Lock
      <4>2. Typed /\ ClientOK(c)
        BY DEF BaseInv
      <4> QED  BY <4>1, <4>2, PartEffect DEF ClientOK, PartStarts
    <3>2. CASE TakeSMS(c)
      <4>1. TakesSMS(c) /\ c # Refresher
        BY <3>2, TakeBase
      <4> QED  BY <4>1, Zenon DEF TakesSMS, Reads, Returns, PartStarts
    <3> QED  BY <1>3, <3>1, <3>2
  <2> QED  BY <2>1, <2>2, OtherSafe
<1>4. ASSUME NEW c \in Clients, WriteDone(c) \/ GiveUp(c) PROVE RefreshInv'
  <2>1. UNCHANGED <<queue, wire, granted, service>>
    BY <1>4 DEF WriteDone, GiveUp, runtimeVars
  <2>2. Returns(c, "error") \/ PcMoves(c, "wait")
    BY <1>4, WriteDoneBase, GiveUpBase
  <2>3. Changed(c, cs'[c])
    BY <2>2, Zenon DEF Returns, PcMoves
  <2>4. CASE c = Refresher
    <3>1. CASE Returns(c, "error")
      <4>1. cs'[c].pc = "idle" /\ cs'[c].outcome = "error"
        BY <3>1, Zenon DEF Returns, Return
      <4> QED  BY <2>1, <2>4, <4>1, ElsewhereSafe DEF RefresherStays, LifetimeStays
    <3>2. CASE PcMoves(c, "wait")
      <4>1. cs'[c].pc = "wait" /\ cs'[c].outcome = cs[c].outcome /\ cs'[c].cseq = cs[c].cseq
        BY <3>2, Zenon DEF PcMoves, Moved, SameRequest
      <4> QED  BY <2>1, <2>4, <4>1, ElsewhereSafe DEF RefresherStays, LifetimeStays
    <3> QED  BY <2>2, <3>1, <3>2
  <2> QED  BY <2>1, <2>3, <2>4, OtherSafe
<1>5. ASSUME NEW h \in Handlers, ReadMessage(h) \/ Store(h) PROVE RefreshInv'
  <2>1. Acknowledging(h) /\ UNCHANGED <<queue, wire, granted, service>>
    BY <1>5, ReaderEffect
  <2>2. CASE UNCHANGED cs
    BY <2>1, <2>2, ElsewhereSafe DEF RefresherStays, LifetimeStays
  <2>3. CASE \E a \in Ackers : Changed(a, cs'[a])
    BY <2>1, <2>3, Roles, OtherSafe
  <2> QED  BY <2>1, <2>2, <2>3, Zenon DEF Acknowledging, Claims
<1>6. CASE ReadResponse
  <2>1. granted \subseteq granted' /\ Heard(Refresher)
    BY <1>6, AnswerBase, Roles
  <2>2. UNCHANGED <<queue, wire, service>>
    BY <1>6 DEF ReadResponse, runtimeVars
  <2>3. RefresherStays
    <3>1. \/ cs'[Refresher] = cs[Refresher]
          \/ /\ cs'[Refresher].pc = cs[Refresher].pc /\ cs'[Refresher].outcome = cs[Refresher].outcome
             /\ cs'[Refresher].cseq = cs[Refresher].cseq
      BY <2>1, Zenon DEF Heard, SameRequest
    <3> QED  BY <3>1 DEF RefresherStays
  <2> QED  BY <2>1, <2>2, <2>3, ElsewhereSafe DEF LifetimeStays
<1>7. CASE Aside \/ UNCHANGED vars
  <2>1. Elsewhere /\ LifetimeStays
    BY <1>7, AsideElsewhere DEF LifetimeStays
  <2>2. cs' = cs /\ queue' = queue /\ wire' = wire /\ granted' = granted
    BY <2>1 DEF Elsewhere
  <2> QED  BY <2>1, <2>2, ElsewhereSafe DEF RefresherStays
<1> QED  BY <1>1, <1>2, <1>3, <1>4, <1>5, <1>6, <1>7, QueueSafe DEF Next, ClientStep, Writer, Handling, Aside

LEMMA RefreshSoundFollows == RefreshInv => RefreshSound
BY DEF RefreshInv, RefreshOrder, RefreshesRise, RefreshSound, RefreshCSeqAdvances

\* A refresh is answered by its own response, with CSeqs that only rise on the wire
\* whatever else is queued, and publishes a lifetime of the binding that stands.
THEOREM RefreshSafety == Spec => []RefreshSound
BY RefreshInit, RefreshNext, RefreshSoundFollows, BaseInvariant, ArchiveInvariant, PTL DEF Spec

-----------------------------------------------------------------------------
(* RP-ACKs *)

LEMMA MayAckKept ==
  ASSUME archive \subseteq archive', scenario' = scenario
  PROVE  MayBeAcked \subseteq MayBeAcked'
BY DEF MayBeAcked

\* The archive only grows.
LEMMA ArchiveGrows == [Next]_vars => archive \subseteq archive' /\ scenario' = scenario
<1> SUFFICES ASSUME [Next]_vars PROVE archive \subseteq archive' /\ scenario' = scenario
  OBVIOUS
<1>1. \A id, m : archive \subseteq Archived(id, m)
  BY DEF Archived
<1>2. CASE LateStore
  BY <1>1, <1>2 DEF LateStore
<1>3. ASSUME NEW h \in Handlers, Store(h)
      PROVE  archive \subseteq archive' /\ scenario' = scenario
  BY <1>1, <1>3 DEF Store
<1>4. ASSUME NEW h \in Handlers, ReadEnds(h) \/ ReadMessage(h) \/ StoreFails(h) \/ StoreTimesOut(h)
      PROVE  archive \subseteq archive' /\ scenario' = scenario
  BY <1>4 DEF ReadEnds, ReadMessage, StoreFails, StoreTimesOut
<1> QED  BY <1>2, <1>3, <1>4, ReaderSteps DEF Unread

\* Wherever the address is taken to end, the kind of the TPDU is what it was or unknown.
LEMMA AlignedType ==
  ASSUME NEW p, "type" \in DOMAIN p
  PROVE  Aligned(p).type \in {p.type, "truncated"}
<1>1. \A d, s, u, t, a : [p EXCEPT !.addr = a, !.dcs = d, !.scts = s, !.udl = u, !.ud = t].type = p.type
  OBVIOUS
<1>2. [p EXCEPT !.type = "truncated"].type = "truncated"
  OBVIOUS
<1> QED  BY <1>1, <1>2 DEF Aligned

\* Only a status report is decoded as one.
LEMMA ReportsAreReports ==
  ASSUME scenario \in Scenarios, NEW m \in scenario.mt, DecodedOf[m].kind = "report"
  PROVE  m.tpdu.type = "report"
<1>1. DecodedOf[m] = decodeIncomingSMS(DecodeSMSDeliverTPDU(m.tpdu))
  BY DEF DecodedOf
<1> DEFINE d == DecodeSMSDeliverTPDU(m.tpdu)
<1>2. Aligned(m.tpdu).type \in {m.tpdu.type, "truncated"}
  BY AlignedType, InputsAssumption
<1>3. d.kind \in {Aligned(m.tpdu).type, "error"}
  BY DEF DecodeSMSDeliverTPDU, Delivered
<1> HIDE DEF d
<1>4. d.kind = "report"
  BY <1>1 DEF decodeIncomingSMS, d
<1> QED  BY <1>2, <1>3, <1>4

\* A stored message is in the archive itself: what has its identity is that message.
LEMMA StoredIsArchived ==
  ASSUME MessagesDiffer, ArchiveInv, NEW h \in Handlers, Store(h)
  PROVE  hs[h].m.id \in MayBeAcked'
<1>1. /\ archive' = Archived(hs[h].id, hs[h].m) /\ Named(hs[h].id, hs[h].m)
      /\ scenario' = scenario /\ scenario \in Scenarios
  BY DEF Store, ArchiveInv, ReaderOK
<1>2. PICK m, id : m = hs[h].m /\ id = hs[h].id
  OBVIOUS
<1>3. archive' = Archived(id, m) /\ Named(id, m) /\ m \in scenario.mt
  BY <1>1, <1>2 DEF Named
<1>4. \E e \in archive' : e.m = m.id
  <2>1. CASE \E e \in archive : e.id = id
    <3>1. PICK e \in archive : e.id = id
      BY <2>1
    <3>2. PICK p \in scenario.mt : p.id = e.m /\ Named(id, p)
      BY <3>1 DEF ArchiveInv, EntryOK
    <3>3. PICK i \in Nat : id = IdentityOf(m, i)
      BY <1>3, Zenon DEF Named
    <3>4. PICK j \in Nat : id = IdentityOf(p, j)
      BY <3>2, Zenon DEF Named
    <3>5. Stored(m) /\ Stored(p)
      BY <1>3, <3>2, Zenon DEF Named
    <3>6. p = m
      BY <1>1, <1>3, <3>2, <3>3, <3>4, <3>5, Zenon DEF MessagesDiffer
    <3> QED  BY <1>3, <2>1, <3>1, <3>2, <3>6 DEF Archived
  <2>2. CASE ~\E e \in archive : e.id = id
    <3>1. [id |-> id, m |-> m.id] \in archive'
      BY <1>3, <2>2 DEF Archived
    <3>2. [id |-> id, m |-> m.id].m = m.id
      OBVIOUS
    <3> QED  BY <3>1, <3>2, Zenon
  <2> QED  BY <2>1, <2>2
<1> QED  BY <1>1, <1>2, <1>3, <1>4 DEF MayBeAcked

LEMMA AckKept ==
  ASSUME AckInv, archive \subseteq archive', scenario' = scenario,
         \A a \in Ackers : cs'[a].pc # "idle" =>
           (cs[a].pc # "idle" /\ cs'[a].n = cs[a].n) \/ cs'[a].n \in MayBeAcked',
         \A i \in DOMAIN queue' : queue'[i].job = "ack" => queue'[i].n \in MayBeAcked,
         \A i \in DOMAIN wire' : wire'[i].job = "ack" => wire'[i].n \in MayBeAcked
  PROVE  AckInv'
<1>1. \A n : n \in MayBeAcked => n \in MayBeAcked'
  BY MayAckKept
<1> QED  BY <1>1 DEF AckInv

LEMMA AckInit == Init => AckInv
<1> SUFFICES ASSUME Init PROVE AckInv
  OBVIOUS
<1>1. queue = <<>> /\ wire = <<>> /\ cs = [c \in Clients |-> Idle]
  BY DEF Init
<1>2. \A a \in Ackers : cs[a].pc = "idle"
  BY <1>1, Roles DEF Idle
<1>3. DOMAIN queue = {} /\ DOMAIN wire = {}
  BY <1>1, EmptySeq
<1> QED  BY <1>2, <1>3 DEF AckInv

\* What is sent to whom stays: no goroutine takes another message up.
AckersStay == \A a \in Ackers : cs'[a].pc # "idle" => cs[a].pc # "idle" /\ cs'[a].n = cs[a].n

LEMMA StaySafe ==
  ASSUME AckInv, archive \subseteq archive', scenario' = scenario, AckersStay, UNCHANGED <<queue, wire>>
  PROVE  AckInv'
BY AckKept DEF AckersStay, AckInv

\* A step of one client that is busy, or begins something else than an RP-ACK.
LEMMA ClientStays ==
  ASSUME NEW c \in Clients, Changed(c, cs'[c]),
         \/ c \notin Ackers
         \/ cs'[c].pc = "idle"
         \/ cs[c].pc # "idle" /\ cs'[c].n = cs[c].n
  PROVE  AckersStay
BY Roles DEF Changed, AckersStay

LEMMA AckQueueSafe ==
  ASSUME BaseInv, AckInv, archive \subseteq archive', scenario' = scenario,
         (\E c \in Clients : Enqueue(c)) \/ Write \/ WriteFails
  PROVE  AckInv'
<1>1. ASSUME NEW c \in Clients, Enqueue(c)
      PROVE  AckInv'
  <2>1. cs[c].pc = "queue" /\ PcMoves(c, "written") /\ Appended(queue, TaskOf(c), queue') /\ wire' = wire
    BY <1>1, EnqueueBase DEF Enqueue
  <2>2. Changed(c, cs'[c]) /\ cs'[c].n = cs[c].n
    BY <2>1, Zenon DEF PcMoves, Moved, SameRequest, SameJob
  <2>3. AckersStay
    BY <2>1, <2>2, ClientStays
  <2>4. TaskOf(c).job = "ack" => TaskOf(c).n \in MayBeAcked
    <3>1. TaskOf(c).job = cs[c].job /\ TaskOf(c).n = cs[c].n
      BY DEF TaskOf
    <3>2. cs[c].job = JobOf(c)
      BY <2>1 DEF BaseInv, ClientOK
    <3>3. JobOf(c) = "ack" => c \in Ackers
      BY Roles DEF JobOf
    <3> QED  BY <2>1, <3>1, <3>2, <3>3 DEF AckInv
  <2>5. \A i \in DOMAIN queue' : queue'[i] = TaskOf(c) \/ \E j \in DOMAIN queue : queue'[i] = queue[j]
    BY <2>1, LenProperties DEF Appended, BaseInv, Typed
  <2>6. \A i \in DOMAIN queue' : queue'[i].job = "ack" => queue'[i].n \in MayBeAcked
    BY <2>4, <2>5, Zenon DEF AckInv
  <2> QED  BY <2>1, <2>3, <2>6, AckKept DEF AckersStay, AckInv
<1>2. ASSUME queue # <<>>, queue' = Tail(queue), NEW d \in {"ok", "err"}, cs' = Told(Head(queue), d),
             UNCHANGED <<scenario, messageMu, ids, sends, refreshes, granted, service>>,
             wire' = wire \/ Appended(wire, Head(queue), wire')
      PROVE  AckInv'
  <2> DEFINE t == Head(queue)
  <2>1. Reported(t, d) /\ Dropped(queue, queue') /\ t \in Task
    BY <1>2, DequeueBase
  <2>2. t = queue[1] /\ 1 \in DOMAIN queue
    BY <2>1, Zenon DEF Dropped
  <2>3. AckersStay
    <3>1. CASE UNCHANGED cs
      BY <3>1 DEF AckersStay
    <3>2. CASE cs[t.client].pc = "written" /\ Tells(t.client, d)
      <4>1. Changed(t.client, cs'[t.client]) /\ cs'[t.client].n = cs[t.client].n /\ cs[t.client].pc # "idle"
        BY <3>2 DEF Tells, DoneSet, SameRequest, SameJob
      <4>2. t.client \in Clients
        BY <2>1 DEF Task
      <4> HIDE DEF t
      <4> QED  BY <4>1, <4>2, ClientStays
    <3> QED  BY <2>1, <3>1, <3>2, Zenon DEF Reported
  <2> HIDE DEF t
  <2>4. \A i \in DOMAIN queue' : \E j \in DOMAIN queue : queue'[i] = queue[j]
    BY <2>1 DEF Dropped
  <2>5. \A i \in DOMAIN queue' : queue'[i].job = "ack" => queue'[i].n \in MayBeAcked
    BY <2>4, Zenon DEF AckInv
  <2>6. \A i \in DOMAIN wire' : wire'[i] = t \/ \E j \in DOMAIN wire : wire'[i] = wire[j]
    <3>1. CASE wire' = wire
      BY <3>1
    <3>2. CASE Appended(wire, Head(queue), wire')
      BY <3>2, LenProperties DEF Appended, BaseInv, Typed, t
    <3> QED  BY <1>2, <3>1, <3>2
  <2>7. \A i \in DOMAIN wire' : wire'[i].job = "ack" => wire'[i].n \in MayBeAcked
    BY <2>2, <2>6, Zenon DEF AckInv
  <2> QED  BY <2>3, <2>5, <2>7, AckKept DEF AckersStay
<1>3. CASE Write
  <2>1. /\ queue # <<>> /\ queue' = Tail(queue) /\ cs' = Told(Head(queue), "ok")
        /\ UNCHANGED <<scenario, messageMu, ids, sends, refreshes, granted, service>>
    BY <1>3 DEF Write, sharedVars
  <2> QED  BY <1>2, <1>3, <2>1, WriteBase
<1>4. CASE WriteFails
  <2>1. /\ queue # <<>> /\ queue' = Tail(queue) /\ cs' = Told(Head(queue), "err") /\ wire' = wire
        /\ UNCHANGED <<scenario, messageMu, ids, sends, refreshes, granted, service>>
    BY <1>4 DEF WriteFails, sharedVars
  <2> QED  BY <1>2, <2>1
<1> QED  BY <1>1, <1>3, <1>4

\* Every step keeps AckInv: a message is in the archive before its RP-ACK begins.
LEMMA AckNext ==
  ASSUME MessagesDiffer
  PROVE  BaseInv /\ ArchiveInv /\ AckInv /\ [Next]_vars => AckInv'
<1> SUFFICES ASSUME BaseInv, ArchiveInv, AckInv, [Next]_vars PROVE AckInv'
  OBVIOUS
<1>1. archive \subseteq archive' /\ scenario' = scenario
  BY ArchiveGrows
<1>2. CASE Refresh \/ TakeRefresh
  <2>1. RefreshStep
    BY <1>2, RefreshBase
  <2>2. UNCHANGED <<queue, wire>>
    BY <1>2 DEF Refresh, TakeRefresh, runtimeVars
  <2>3. Changed(Refresher, cs'[Refresher])
    BY <2>1, Zenon DEF RefreshStep, RoundStarts, Returns, Reads
  <2> QED  BY <1>1, <2>2, <2>3, ClientStays, Roles, StaySafe
<1>3. CASE SendSMS
  <2>1. PICK c \in Senders : Changed(c, cs'[c])
    BY <1>3, SendEffect DEF BaseInv, Claims
  <2>2. UNCHANGED <<queue, wire>>
    BY <1>3 DEF SendSMS, runtimeVars
  <2>3. c \in Clients /\ c \notin Ackers
    BY ClientsAssumption DEF Clients
  <2> QED  BY <1>1, <2>1, <2>2, <2>3, ClientStays, StaySafe
<1>4. ASSUME NEW c \in Clients, Lock(c) \/ TakeSMS(c) \/ WriteDone(c) \/ GiveUp(c) PROVE AckInv'
  <2>1. UNCHANGED <<queue, wire>>
    BY <1>4 DEF Lock, TakeSMS, WriteDone, GiveUp, runtimeVars
  <2>2. cs[c].pc # "idle"
    BY <1>4 DEF Lock, TakeSMS, WriteDone, GiveUp
  <2>3. \/ PartStarts(c) \/ Reads(c) \/ Returns(c, "error") \/ Returns(c, "accepted") \/ PcMoves(c, "wait")
    <3>1. CASE Lock(c)
      <4>1. cs' = [cs EXCEPT ![c] = PartReady(@)]
        BY <3>1 DEF Lock
      <4> QED  BY <4>1, PartEffect DEF BaseInv
    <3>2. CASE TakeSMS(c)
      <4>1. TakesSMS(c)
        BY <3>2, TakeBase
      <4> QED  BY <4>1, Zenon DEF TakesSMS
    <3>3. CASE WriteDone(c) \/ GiveUp(c)
      BY <3>3, WriteDoneBase, GiveUpBase
    <3> QED  BY <1>4, <3>1, <3>2, <3>3
  <2>4. Changed(c, cs'[c]) /\ (cs'[c].pc = "idle" \/ cs'[c].n = cs[c].n)
    <3>1. CASE PartStarts(c)
      BY <3>1, Zenon DEF PartStarts, SameJob
    <3>2. CASE Reads(c)
      BY <3>2, Zenon DEF Reads, Buffered, SameRequest, SameJob
    <3>3. CASE Returns(c, "error")
      BY <3>3, Zenon DEF Returns, Return
    <3>4. CASE Returns(c, "accepted")
      BY <3>4, Zenon DEF Returns, Return
    <3>5. CASE PcMoves(c, "wait")
      BY <3>5, Zenon DEF PcMoves, Moved, SameRequest, SameJob
    <3> QED  BY <2>3, <3>1, <3>2, <3>3, <3>4, <3>5
  <2> QED  BY <1>1, <2>1, <2>2, <2>4, ClientStays, StaySafe
<1>5. ASSUME NEW h \in Handlers, ReadMessage(h) \/ Store(h) PROVE AckInv'
  <2>1. Acknowledging(h) /\ UNCHANGED <<queue, wire>>
    BY <1>5, ReaderEffect
  <2>2. CASE UNCHANGED cs
    BY <1>1, <2>1, <2>2, StaySafe DEF AckersStay
  <2>3. CASE \E a \in Ackers, m \in scenario.mt :
               /\ cs[a].pc = "idle" /\ Claims(a, "ack", m.id, <<>>, 1)
               /\ DecodedOf[m].kind = "report" \/ (Store(h) /\ hs[h].m = m)
    <3>1. PICK a \in Ackers, m \in scenario.mt :
             /\ cs[a].pc = "idle" /\ Claims(a, "ack", m.id, <<>>, 1)
             /\ DecodedOf[m].kind = "report" \/ (Store(h) /\ hs[h].m = m)
      BY <2>3
    <3>2. Changed(a, cs'[a]) /\ cs'[a].n = m.id
      BY <3>1, Zenon DEF Claims, Claim
    <3>3. m.id \in MayBeAcked'
      <4>1. CASE Store(h) /\ hs[h].m = m
        BY <4>1, StoredIsArchived
      <4>2. CASE DecodedOf[m].kind = "report"
        BY <1>1, <4>2, ReportsAreReports DEF ArchiveInv, MayBeAcked
      <4> QED  BY <3>1, <4>1, <4>2
    <3>4. \A b \in Ackers : cs'[b].pc # "idle" =>
            (cs[b].pc # "idle" /\ cs'[b].n = cs[b].n) \/ cs'[b].n \in MayBeAcked'
      BY <3>2, <3>3, Roles DEF Changed
    <3> QED  BY <1>1, <2>1, <3>4, AckKept DEF AckInv
  <2> QED  BY <2>1, <2>2, <2>3, Zenon DEF Acknowledging
<1>6. CASE ReadResponse
  <2>1. \A c \in Clients : Heard(c)
    BY <1>6, AnswerBase
  <2>2. UNCHANGED <<queue, wire>>
    BY <1>6 DEF ReadResponse, runtimeVars
  <2>3. AckersStay
    <3>1. SUFFICES ASSUME NEW a \in Ackers, cs'[a].pc # "idle" PROVE cs[a].pc # "idle" /\ cs'[a].n = cs[a].n
      BY DEF AckersStay
    <3>2. cs'[a] = cs[a] \/ (cs'[a].pc = cs[a].pc /\ cs'[a].n = cs[a].n)
      BY <2>1, Roles, Zenon DEF Heard, SameRequest, SameJob
    <3> QED  BY <3>1, <3>2
  <2> QED  BY <1>1, <2>2, <2>3, StaySafe
<1>7. CASE Aside \/ UNCHANGED vars
  <2>1. Elsewhere
    BY <1>7, AsideElsewhere
  <2>2. cs' = cs /\ queue' = queue /\ wire' = wire
    BY <2>1 DEF Elsewhere
  <2> QED  BY <1>1, <2>2, StaySafe DEF AckersStay
<1> QED  BY <1>1, <1>2, <1>3, <1>4, <1>5, <1>6, <1>7, AckQueueSafe DEF Next, ClientStep, Writer, Handling, Aside

\* The decoder names the sender that the network does, where the address is not ambiguous.
SendersRead ==
  \A m \in AllMessages : Stored(m) /\ ~Ambiguous(m.tpdu) => SenderOf(m, DecodedOf[m]) = m.from

\* What the archive holds of a message, it holds once and under the name of its sender.
LEMMA ArchiveFollows ==
  ASSUME MessagesDiffer, SendersRead
  PROVE  ArchiveInv => StoredOnce /\ SenderKept
<1> SUFFICES ASSUME ArchiveInv PROVE StoredOnce /\ SenderKept
  OBVIOUS
<1>1. \A e \in archive : e = [id |-> e.id, m |-> e.m] /\ \E m \in scenario.mt : m.id = e.m /\ Named(e.id, m)
  BY DEF ArchiveInv, EntryOK
<1>2. ASSUME NEW id, NEW m \in scenario.mt, Named(id, m)
      PROVE  Stored(m) /\ \E count \in Nat : id = IdentityOf(m, count)
  BY <1>2 DEF Named
<1>3. scenario \in Scenarios
  BY DEF ArchiveInv
<1>4. SenderKept
  <2>1. ASSUME NEW e \in archive
        PROVE  \E m \in scenario.mt : m.id = e.m /\ (e.id.sender = m.from \/ Ambiguous(m.tpdu))
    <3>1. PICK m \in scenario.mt : m.id = e.m /\ Named(e.id, m)
      BY <1>1
    <3>2. PICK count \in Nat : e.id = IdentityOf(m, count)
      BY <1>2, <3>1
    <3>3. SenderOf(m, DecodedOf[m]) = m.from \/ Ambiguous(m.tpdu)
      BY <1>2, <1>3, <3>1 DEF SendersRead, AllMessages
    <3>4. e.id.sender = m.from \/ Ambiguous(m.tpdu)
      BY <3>2, <3>3 DEF IdentityOf
    <3> QED  BY <3>1, <3>4
  <2> QED  BY <2>1 DEF SenderKept
<1>5. StoredOnce
  <2>1. SUFFICES ASSUME NEW e \in archive, NEW f \in archive, e.m = f.m
                 PROVE  e = f \/ \E m \in scenario.mt : m.id = e.m /\ DecodedOf[m].at = NoTime
    BY DEF StoredOnce
  <2>2. PICK m \in scenario.mt : m.id = e.m /\ Named(e.id, m)
    BY <1>1
  <2>3. PICK p \in scenario.mt : p.id = f.m /\ Named(f.id, p)
    BY <1>1
  <2>4. m = p
    BY <1>3, <2>1, <2>2, <2>3, Zenon DEF MessagesDiffer
  <2>5. CASE DecodedOf[m].at # NoTime
    <3>1. PICK i \in Nat : e.id = IdentityOf(m, i)
      BY <1>2, <2>2
    <3>2. PICK j \in Nat : f.id = IdentityOf(m, j)
      BY <1>2, <2>3, <2>4
    <3>3. e.id = f.id
      BY <2>5, <3>1, <3>2 DEF IdentityOf
    <3>4. e = [id |-> e.id, m |-> e.m] /\ f = [id |-> f.id, m |-> f.m]
      BY <1>1
    <3>5. e = f
      BY <2>1, <3>3, <3>4, Zenon
    <3> QED  BY <3>5
  <2> QED  BY <2>2, <2>5
<1> QED  BY <1>4, <1>5

LEMMA AckFollows == AckInv => AckedIsStored
BY DEF AckInv, MayBeAcked, AckedIsStored

\* A message of the network that is acknowledged with an RP-ACK is in the host's archive
\* (handleIncomingRequest stores it first, also when the host answers after the reader has
\* given up), one that bears a time only once however often it is delivered, and under the
\* sender the network names unless readTPAddress can read the address in two ways.
THEOREM StoreSafety ==
  ASSUME MessagesDiffer, SendersRead
  PROVE  Spec => []SMSStored
<1>1. BaseInv /\ ArchiveInv /\ AckInv /\ [Next]_vars => AckInv'
  BY AckNext
<1>2. ArchiveInv /\ AckInv => SMSStored
  BY ArchiveFollows, AckFollows DEF SMSStored
<1> QED  BY <1>1, <1>2, AckInit, BaseInvariant, ArchiveInvariant, PTL DEF Spec

-----------------------------------------------------------------------------
(* The order of the parts *)

\* A client goes on with the same request.
SameTask(r, u) ==
  /\ u.pc = r.pc /\ u.done = r.done /\ u.job = r.job /\ u.n = r.n /\ u.k = r.k
  /\ u.call = r.call /\ u.cseq = r.cseq

\* A message on the wire stays the last one while only refreshes follow it.
LEMMA FollowsKept ==
  ASSUME wire \in Seq(Task), granted \subseteq granted',
         wire' = wire \/ \E t : ~IsMessage(t) /\ Appended(wire, t, wire')
  PROVE  /\ \A u : Follows(u) => Follows(u)'
         /\ \A i : LastMessage(i) => LastMessage(i)' /\ wire'[i] = wire[i]
<1>1. /\ \A i \in DOMAIN wire : i \in DOMAIN wire' /\ wire'[i] = wire[i]
      /\ \A i \in DOMAIN wire' : i \in DOMAIN wire \/ ~IsMessage(wire'[i])
  <2>1. CASE wire' = wire
    BY <2>1
  <2>2. CASE \E t : ~IsMessage(t) /\ Appended(wire, t, wire')
    <3>1. PICK t : ~IsMessage(t) /\ Appended(wire, t, wire')
      BY <2>2
    <3>2. /\ Len(wire') = Len(wire) + 1 /\ DOMAIN wire' = 1..Len(wire') /\ DOMAIN wire = 1..Len(wire)
          /\ wire'[Len(wire')] = t /\ \A i \in DOMAIN wire : i \in DOMAIN wire' /\ wire'[i] = wire[i]
      BY <3>1, Zenon DEF Appended
    <3>3. Len(wire) \in Nat
      BY LenProperties
    <3> QED  BY <3>1, <3>2, <3>3
  <2> QED  BY <2>1, <2>2
<1>2. \A i : LastMessage(i) => LastMessage(i)' /\ wire'[i] = wire[i]
  BY <1>1 DEF LastMessage, IsMessage
<1>3. ASSUME NEW u, Follows(u)
      PROVE  Follows(u)'
  <2>1. PICK i \in DOMAIN wire : LastMessage(i) /\ Precedes(wire[i], u)
    BY <1>3 DEF Follows
  <2>2. LastMessage(i)' /\ wire'[i] = wire[i] /\ i \in DOMAIN wire'
    BY <1>1, <1>2, <2>1
  <2>3. Accepted(wire[i]) /\ (Accepted(wire[i]) => Accepted(wire[i])')
    BY <2>1, <2>2 DEF Accepted, Precedes
  <2> QED  BY <2>1, <2>2, <2>3 DEF Follows, Precedes
<1> QED  BY <1>2, <1>3

LEMMA TaskKept ==
  ASSUME NEW c, SameTask(cs[c], cs'[c])
  PROVE  /\ TaskOf(c)' = TaskOf(c)
         /\ (Pending(c)' <=> Pending(c)) /\ (Out(c)' <=> Out(c))
         /\ cs'[c].pc = cs[c].pc /\ cs'[c].done = cs[c].done /\ cs'[c].k = cs[c].k
         /\ (Follows(cs[c])' <=> Follows(TaskOf(c))')
BY DEF SameTask, TaskOf, Pending, Out, Follows, Precedes

LEMMA TaskFollows ==
  ASSUME NEW c
  PROVE  (Follows(cs[c]) <=> Follows(TaskOf(c))) /\ (Follows(cs[c])' <=> Follows(TaskOf(c))')
BY DEF TaskOf, Follows, Precedes

\* A client whose task, and what it relies on, stays as it is.
LEMMA SenderOrderKept ==
  ASSUME NEW c, SenderOrder(c), SameTask(cs[c], cs'[c]),
         UNCHANGED <<queue, wire>>, wire \in Seq(Task), granted \subseteq granted',
         ids \in Nat, ids' \in Nat, ids <= ids', queue \in Seq(Task), writer = "done" => writer' = "done"
  PROVE  SenderOrder(c)'
<1>1. /\ TaskOf(c)' = TaskOf(c) /\ (Pending(c)' <=> Pending(c)) /\ (Out(c)' <=> Out(c))
      /\ cs'[c].pc = cs[c].pc /\ cs'[c].done = cs[c].done /\ cs'[c].k = cs[c].k
      /\ (Follows(cs[c])' <=> Follows(TaskOf(c))')
  BY TaskKept
<1>2. /\ Follows(TaskOf(c)) => Follows(TaskOf(c))'
      /\ \A i : LastMessage(i) => LastMessage(i)' /\ wire'[i] = wire[i]
  <2>1. \A u : Follows(u) => Follows(u)'
    BY FollowsKept
  <2>2. Follows(TaskOf(c)) => Follows(TaskOf(c))'
    BY ZenonT(30), <1>1, <2>1 DEF Follows, Precedes, Accepted, LastMessage
  <2> QED  BY <2>2, FollowsKept
<1>3. Follows(cs[c]) => Follows(cs[c])'
  BY <1>1, <1>2, TaskFollows
<1>4. queue' = queue /\ (NoMessages(queue)' <=> NoMessages(queue))
  BY DEF NoMessages, IsMessage
<1>5. cs'[c].pc = "queue" => /\ cs'[c].done = "none"
                             /\ \A i \in DOMAIN queue' : IsMessage(queue'[i]) => queue'[i].call < ids'
                             /\ cs'[c].k > 1 => NoMessages(queue)' /\ Follows(cs[c])'
  <2>1. SUFFICES ASSUME cs[c].pc = "queue"
                 PROVE  /\ cs[c].done = "none"
                        /\ \A i \in DOMAIN queue : IsMessage(queue[i]) => queue[i].call < ids'
                        /\ cs[c].k > 1 => NoMessages(queue)' /\ Follows(cs[c])'
    BY <1>1, <1>4
  <2>2. \A i \in DOMAIN queue : IsMessage(queue[i]) => queue[i].call < ids
    BY <2>1 DEF SenderOrder
  <2>3. \A i \in DOMAIN queue : queue[i].call \in Nat
    <3>1. \A t \in Task : t.call \in Nat
      BY DEF Task
    <3> QED  BY <3>1
  <2>4. cs[c].done = "none" /\ (cs[c].k > 1 => NoMessages(queue) /\ Follows(cs[c]))
    BY <2>1 DEF SenderOrder
  <2> QED  BY <1>3, <1>4, <2>2, <2>3, <2>4
<1>6. Pending(c)' => \E i \in DOMAIN queue' : queue'[i] = TaskOf(c)'
  BY <1>1, <1>4 DEF SenderOrder
<1>7. Out(c)' => NoMessages(queue)' /\ \E i \in DOMAIN wire' : LastMessage(i)' /\ wire'[i] = TaskOf(c)'
  BY <1>1, <1>2, <1>4 DEF SenderOrder
<1>8. cs'[c].pc = "written" /\ cs'[c].done = "err" => writer' = "done"
  BY <1>1 DEF SenderOrder
<1> QED  BY <1>5, <1>6, <1>7, <1>8, Zenon DEF SenderOrder

LEMMA RestsOrder ==
  ASSUME NEW c, cs'[c].pc \in {"idle", "lock"}
  PROVE  SenderOrder(c)'
BY DEF SenderOrder, Pending, Out

\* Steps that leave the queue and the wire alone.
LEMMA WireOrderKept ==
  ASSUME OrderInv, UNCHANGED <<queue, wire>>, wire \in Seq(Task), granted \subseteq granted'
  PROVE  PartsInOrder' /\ QueueOrder'
<1>1. PartsInOrder'
  BY DEF OrderInv, PartsInOrder, Accepted, IsMessage
<1>2. \A u : Follows(u) => Follows(u)'
  BY FollowsKept
<1>3. ASSUME NEW j \in DOMAIN queue, Follows(queue[j]) PROVE Follows(queue[j])'
  BY <1>2, <1>3 DEF Follows, Precedes, Accepted, LastMessage
<1>4. QueueOrder'
  BY <1>3 DEF OrderInv, QueueOrder, IsMessage
<1> QED  BY <1>1, <1>4

LEMMA OrderStays ==
  ASSUME BaseInv, OrderInv, UNCHANGED <<queue, wire>>, granted \subseteq granted',
         ids' \in Nat, ids <= ids', writer = "done" => writer' = "done",
         \A c \in Clients \ {Refresher} : SameTask(cs[c], cs'[c]) \/ SenderOrder(c)'
  PROVE  OrderInv'
<1>1. wire \in Seq(Task) /\ queue \in Seq(Task) /\ ids \in Nat
  BY DEF BaseInv, Typed
<1>2. PartsInOrder' /\ QueueOrder'
  BY <1>1, WireOrderKept
<1>3. ASSUME NEW c \in Clients \ {Refresher} PROVE SenderOrder(c)'
  <2>1. SenderOrder(c)
    BY DEF OrderInv
  <2> QED  BY <1>1, <2>1, SenderOrderKept
<1> QED  BY <1>2, <1>3 DEF OrderInv

\* One client changes, and is as it should be.
LEMMA OneOrders ==
  ASSUME BaseInv, OrderInv, UNCHANGED <<queue, wire>>, granted \subseteq granted',
         ids' \in Nat, ids <= ids', writer = "done" => writer' = "done",
         NEW c \in Clients, Changed(c, cs'[c]), c = Refresher \/ SameTask(cs[c], cs'[c]) \/ SenderOrder(c)'
  PROVE  OrderInv'
<1>1. ASSUME NEW d \in Clients \ {Refresher}, d # c PROVE SameTask(cs[d], cs'[d])
  BY <1>1 DEF Changed, SameTask
<1> QED  BY <1>1, OrderStays, Zenon

\* The call of a message in the queue or of a sender is one that was given.
LEMMA CallsGiven ==
  ASSUME BaseInv
  PROVE  /\ \A i \in DOMAIN queue : IsMessage(queue[i]) => queue[i].call \in 1..ids /\ queue[i].client # Refresher
         /\ \A i \in DOMAIN queue : ~IsMessage(queue[i]) => queue[i].client = Refresher
         /\ \A i \in DOMAIN queue : queue[i].client \in Clients /\ queue[i].job = JobOf(queue[i].client)
         /\ \A c \in Clients \ {Refresher} : cs[c].pc \in Active =>
              messageMu = c /\ cs[c].call = ids /\ cs[c].cseq = MessageCSeq(ids) /\ cs[c].job # "refresh" /\ cs[c].k > 0
<1>1. \A i \in DOMAIN queue : TaskOK(queue[i]) /\ queue[i].client \in Clients
  <2>1. \A t \in Task : t.client \in Clients
    BY DEF Task
  <2> QED  BY <2>1 DEF BaseInv, Typed, TasksOK
<1>2. \A c \in Clients : JobOf(c) = "refresh" <=> c = Refresher
  BY DEF JobOf
<1>3. ASSUME NEW c \in Clients \ {Refresher}, cs[c].pc \in Active
      PROVE  messageMu = c /\ cs[c].call = ids /\ cs[c].cseq = MessageCSeq(ids) /\ cs[c].job # "refresh" /\ cs[c].k > 0
  <2>1. ClientOK(c)
    BY DEF BaseInv
  <2> QED  BY <1>2, <1>3, <2>1 DEF ClientOK, Active
<1> QED  BY <1>1, <1>2, <1>3 DEF TaskOK, IsMessage, MessageNumbered

LEMMA OrderInit == Init => OrderInv
<1> SUFFICES ASSUME Init PROVE OrderInv
  OBVIOUS
<1>1. queue = <<>> /\ wire = <<>> /\ cs = [c \in Clients |-> Idle]
  BY DEF Init
<1>2. \A c \in Clients : cs[c].pc = "idle"
  BY <1>1 DEF Idle
<1>3. DOMAIN queue = {} /\ DOMAIN wire = {}
  BY <1>1, EmptySeq
<1> QED  BY <1>2, <1>3 DEF OrderInv, PartsInOrder, QueueOrder, SenderOrder, Pending, Out

\* A part begins: the first one with the lock, or the next one when the last was accepted.
LEMMA FirstPartOrder ==
  ASSUME BaseInv, OrderInv, NEW c \in Clients, Lock(c)
  PROVE  OrderInv'
<1>1. /\ cs[c].pc = "lock" /\ messageMu = None /\ ids' = ids + 1 /\ cs' = [cs EXCEPT ![c] = PartReady(@)]
      /\ UNCHANGED <<queue, wire, granted, writer>>
  BY DEF Lock, runtimeVars
<1>2. PartStarts(c)
  BY <1>1, PartEffect DEF BaseInv
<1>3. ids \in Nat /\ c # Refresher /\ cs[c].k = 0
  BY <1>1 DEF BaseInv, Typed, ClientOK
<1>4. Changed(c, cs'[c]) /\ cs'[c].k = cs[c].k + 1 /\ cs'[c].pc = "queue" /\ cs'[c].done = "none"
  BY <1>2, Zenon DEF PartStarts
<1>5. SenderOrder(c)'
  <2>1. \A i \in DOMAIN queue' : IsMessage(queue'[i]) => queue'[i].call < ids'
    BY <1>1, <1>3, CallsGiven
  <2>2. ~(cs'[c].k > 1)
    BY <1>3, <1>4
  <2> QED  BY <1>4, <2>1, <2>2 DEF SenderOrder, Pending, Out
<1> QED  BY <1>1, <1>3, <1>4, <1>5, OneOrders

LEMMA NextPartOrder ==
  ASSUME BaseInv, OrderInv, NEW c \in Clients, c # Refresher, cs[c].pc = "wait", PartStarts(c), TaskAccepted(c),
         ids' = ids + 1, UNCHANGED <<queue, wire, granted, writer>>
  PROVE  OrderInv'
<1>1. /\ Changed(c, cs'[c]) /\ cs'[c].k = cs[c].k + 1 /\ cs'[c].pc = "queue" /\ cs'[c].done = "none"
      /\ cs'[c].job = cs[c].job /\ cs'[c].n = cs[c].n
  BY Zenon DEF PartStarts, SameJob
<1>2. Out(c) /\ SenderOrder(c) /\ cs[c].k \in Nat /\ ids \in Nat
  BY DEF Out, OrderInv, BaseInv, Typed, Client
<1>3. PICK i \in DOMAIN wire : LastMessage(i) /\ wire[i] = TaskOf(c)
  BY <1>2 DEF SenderOrder
<1>4. NoMessages(queue)
  BY <1>2 DEF SenderOrder
<1>5. Follows(cs[c])'
  <2>1. LastMessage(i)' /\ wire'[i] = wire[i] /\ i \in DOMAIN wire'
    BY <1>3 DEF LastMessage, IsMessage
  <2>2. /\ wire[i].job = cs[c].job /\ wire[i].n = cs[c].n /\ wire[i].k = cs[c].k
        /\ wire[i].call = cs[c].call /\ wire[i].cseq = cs[c].cseq
    BY <1>3 DEF TaskOf
  <2>3. Accepted(wire[i])
    BY <2>2 DEF Accepted, TaskAccepted
  <2>4. Precedes(wire[i], cs[c])'
    BY <1>1, <1>2, <2>1, <2>2, <2>3 DEF Precedes, Accepted
  <2> QED  BY <2>1, <2>4, Zenon DEF Follows
<1>6. SenderOrder(c)'
  <2>1. NoMessages(queue)' /\ \A j \in DOMAIN queue' : ~IsMessage(queue'[j])
    BY <1>4 DEF NoMessages, IsMessage
  <2> QED  BY <1>1, <1>5, <2>1 DEF SenderOrder, Pending, Out
<1> QED  BY <1>1, <1>2, <1>6, OneOrders

\* A part is queued behind everything that was numbered before it.
LEMMA QueuedOrder ==
  ASSUME BaseInv, OrderInv, NEW c \in Clients, Enqueue(c)
  PROVE  OrderInv'
<1> DEFINE t == TaskOf(c)
<1>1. /\ cs[c].pc = "queue" /\ PcMoves(c, "written") /\ t \in Task /\ Appended(queue, t, queue')
      /\ wire' = wire /\ granted' = granted /\ ids' = ids /\ writer' = writer
  BY EnqueueBase DEF Enqueue, sharedVars
<1>2. /\ \A d \in Clients \ {c} : cs'[d] = cs[d]
      /\ cs'[c].pc = "written" /\ cs'[c].done = cs[c].done /\ cs'[c].job = cs[c].job /\ cs'[c].n = cs[c].n
      /\ cs'[c].k = cs[c].k /\ cs'[c].call = cs[c].call /\ cs'[c].cseq = cs[c].cseq
  BY <1>1, Zenon DEF PcMoves, Moved, SameRequest, SameJob, Changed
<1>3. /\ t.client = c /\ t.job = cs[c].job /\ t.n = cs[c].n /\ t.k = cs[c].k /\ t.call = cs[c].call /\ t.cseq = cs[c].cseq
      /\ t' = t
  BY <1>2 DEF TaskOf
<1>4. Follows(cs[c]) <=> Follows(t)
  BY TaskFollows
<1>5. queue \in Seq(Task) /\ wire \in Seq(Task) /\ ids \in Nat /\ Len(queue) \in Nat
  BY LenProperties DEF BaseInv, Typed
<1> HIDE DEF t
<1>6. /\ Len(queue') = Len(queue) + 1 /\ DOMAIN queue' = 1..Len(queue') /\ DOMAIN queue = 1..Len(queue)
      /\ queue'[Len(queue')] = t /\ \A i \in DOMAIN queue : i \in DOMAIN queue' /\ queue'[i] = queue[i]
  BY <1>1, Zenon DEF Appended
<1>7. \A i \in DOMAIN queue' : \/ i \in DOMAIN queue /\ queue'[i] = queue[i]
                               \/ i = Len(queue') /\ queue'[i] = t
  BY <1>5, <1>6
<1>8. PartsInOrder'
  BY <1>1 DEF OrderInv, PartsInOrder, Accepted, IsMessage
<1>9. \A u : Follows(u) => Follows(u)'
  BY <1>1, <1>5, FollowsKept
<1>10. c = Refresher <=> ~IsMessage(t)
  <2>1. cs[c].job = JobOf(c)
    BY <1>1 DEF BaseInv, ClientOK
  <2>2. JobOf(c) = "refresh" <=> c = Refresher
    BY DEF JobOf
  <2> QED  BY <1>3, <2>1, <2>2 DEF IsMessage
<1>11. c # Refresher => SenderOrder(c)
  BY DEF OrderInv
<1>12. QueueOrder'
  <2>1. \A i, j \in DOMAIN queue' : i < j /\ IsMessage(queue'[i]) /\ IsMessage(queue'[j]) => queue'[i].call < queue'[j].call
    <3>1. SUFFICES ASSUME NEW i \in DOMAIN queue', NEW j \in DOMAIN queue', i < j,
                          IsMessage(queue'[i]), IsMessage(queue'[j])
                   PROVE  queue'[i].call < queue'[j].call
      OBVIOUS
    <3>2. i \in DOMAIN queue /\ queue'[i] = queue[i]
      BY <1>5, <1>6, <3>1
    <3>3. CASE j \in DOMAIN queue /\ queue'[j] = queue[j]
      BY <3>1, <3>2, <3>3 DEF OrderInv, QueueOrder
    <3>4. CASE queue'[j] = t
      <4>1. c # Refresher /\ IsMessage(t)
        BY <1>10, <3>1, <3>4
      <4>2. queue[i].call < ids
        BY <1>1, <1>11, <3>1, <3>2, <4>1 DEF SenderOrder
      <4>3. t.call = ids
        BY <1>1, <1>3, <4>1, CallsGiven DEF Active
      <4> QED  BY <3>2, <3>4, <4>2, <4>3
    <3> QED  BY <1>7, <3>3, <3>4
  <2>2. ASSUME NEW j \in DOMAIN queue', IsMessage(queue'[j]), queue'[j].k > 1
        PROVE  Follows(queue[j])' /\ \A i \in DOMAIN queue' : i < j => ~IsMessage(queue'[i])
    <3>1. CASE j \in DOMAIN queue /\ queue'[j] = queue[j]
      <4>1. Follows(queue[j]) /\ \A i \in DOMAIN queue : i < j => ~IsMessage(queue[i])
        BY <2>2, <3>1 DEF OrderInv, QueueOrder
      <4>2. Follows(queue[j])'
        BY <1>9, <3>1, <4>1 DEF Follows, Precedes, Accepted, LastMessage
      <4>3. \A i \in DOMAIN queue' : i < j => i \in DOMAIN queue /\ queue'[i] = queue[i]
        BY <1>5, <1>6, <3>1
      <4> QED  BY <4>1, <4>2, <4>3
    <3>2. CASE j = Len(queue') /\ queue'[j] = t
      <4>1. c # Refresher /\ t.k > 1
        BY <1>10, <2>2, <3>2
      <4>2. NoMessages(queue) /\ Follows(t)
        BY <1>1, <1>3, <1>4, <1>11, <4>1 DEF SenderOrder
      <4>3. Follows(queue[j])'
        BY <1>9, <3>2, <4>2 DEF Follows, Precedes, Accepted, LastMessage
      <4>4. \A i \in DOMAIN queue' : i < j => i \in DOMAIN queue /\ queue'[i] = queue[i]
        BY <1>5, <1>6, <3>2
      <4> QED  BY <4>2, <4>3, <4>4 DEF NoMessages
    <3> QED  BY <1>7, <3>1, <3>2
  <2>3. (\A j \in DOMAIN queue : IsMessage(queue[j]) /\ queue[j].k > 1 =>
           Follows(queue[j]) /\ \A i \in DOMAIN queue : i < j => ~IsMessage(queue[i]))'
    BY <2>2 DEF IsMessage
  <2> QED  BY <2>1, <2>3 DEF QueueOrder, IsMessage
<1>13. ASSUME NEW d \in Clients \ {Refresher} PROVE SenderOrder(d)'
  <2>1. CASE d = c
    <3>1. cs[c].done = "none"
      BY <1>1, <1>11, <2>1 DEF SenderOrder
    <3>2. Len(queue') \in DOMAIN queue' /\ queue'[Len(queue')] = TaskOf(c)'
      BY <1>3, <1>5, <1>6 DEF t
    <3> QED  BY <1>2, <2>1, <3>1, <3>2 DEF SenderOrder, Pending, Out
  <2>2. CASE d # c /\ cs[d].pc \notin Active
    <3>1. cs[d].pc \in {"idle", "lock"} /\ cs'[d] = cs[d]
      BY <1>2, <2>2 DEF BaseInv, Typed, Client, Active
    <3> QED  BY <3>1, RestsOrder
  <2>3. CASE d # c /\ cs[d].pc \in Active
    <3>1. c = Refresher
      <4>1. messageMu = d
        BY <2>3, CallsGiven
      <4>2. c # Refresher => messageMu = c
        BY <1>1, CallsGiven DEF Active
      <4> QED  BY <2>3, <4>1, <4>2
    <3>2. ~IsMessage(t) /\ SenderOrder(d) /\ cs'[d] = cs[d]
      BY <1>2, <1>10, <2>3, <3>1 DEF OrderInv
    <3>3. SameTask(cs[d], cs'[d])
      BY <3>2 DEF SameTask
    <3>4. /\ TaskOf(d)' = TaskOf(d) /\ (Pending(d)' <=> Pending(d)) /\ (Out(d)' <=> Out(d))
          /\ (Follows(cs[d])' <=> Follows(TaskOf(d))') /\ (Follows(cs[d]) <=> Follows(TaskOf(d)))
      BY <3>3, TaskKept, TaskFollows
    <3>5. Follows(TaskOf(d)) => Follows(TaskOf(d))'
      BY <1>9, <3>4 DEF Follows, Precedes, Accepted, LastMessage
    <3>6. NoMessages(queue) => NoMessages(queue)'
      BY <1>7, <3>2 DEF NoMessages, IsMessage
    <3>7. cs'[d].pc = "queue" => /\ cs'[d].done = "none"
                                 /\ \A i \in DOMAIN queue' : IsMessage(queue'[i]) => queue'[i].call < ids'
                                 /\ cs'[d].k > 1 => NoMessages(queue)' /\ Follows(cs[d])'
      <4>1. SUFFICES ASSUME cs[d].pc = "queue"
                     PROVE  /\ cs[d].done = "none"
                            /\ \A i \in DOMAIN queue' : IsMessage(queue'[i]) => queue'[i].call < ids'
                            /\ cs[d].k > 1 => NoMessages(queue)' /\ Follows(cs[d])'
        BY <3>2
      <4>2. \A i \in DOMAIN queue : IsMessage(queue[i]) => queue[i].call < ids
        BY <3>2, <4>1 DEF SenderOrder
      <4>3. \A i \in DOMAIN queue' : IsMessage(queue'[i]) => queue'[i].call < ids'
        BY <1>1, <1>7, <3>2, <4>2
      <4>4. cs[d].done = "none" /\ (cs[d].k > 1 => NoMessages(queue) /\ Follows(cs[d]))
        BY <3>2, <4>1 DEF SenderOrder
      <4> QED  BY <3>4, <3>5, <3>6, <4>3, <4>4
    <3>8. Pending(d)' => \E i \in DOMAIN queue' : queue'[i] = TaskOf(d)'
      BY <1>6, <3>2, <3>4 DEF SenderOrder
    <3>9. Out(d)' => NoMessages(queue)' /\ \E i \in DOMAIN wire' : LastMessage(i)' /\ wire'[i] = TaskOf(d)'
      <4>1. \A i : LastMessage(i) => LastMessage(i)'
        BY <1>1 DEF LastMessage, IsMessage
      <4> QED  BY <1>1, <3>2, <3>4, <3>6, <4>1 DEF SenderOrder
    <3>10. cs'[d].pc = "written" /\ cs'[d].done = "err" => writer' = "done"
      BY <1>1, <3>2 DEF SenderOrder
    <3> QED  BY <3>7, <3>8, <3>9, <3>10, Zenon DEF SenderOrder
  <2> QED  BY <2>1, <2>2, <2>3
<1> QED  BY <1>8, <1>12, <1>13 DEF OrderInv

\* The client of a task is told exactly when it still waits for it.
LEMMA ToldExactly ==
  ASSUME Typed, NEW t \in Task, NEW d \in {"ok", "err"}, cs' = Told(t, d)
  PROVE  IF cs[t.client].pc = "written" /\ cs[t.client].call = t.call /\ cs[t.client].cseq = t.cseq
           THEN Tells(t.client, d) ELSE UNCHANGED cs
<1>1. t.client \in Clients
  BY DEF Task
<1>2. CASE cs[t.client].pc = "written" /\ cs[t.client].call = t.call /\ cs[t.client].cseq = t.cseq
  <2>1. cs' = [cs EXCEPT ![t.client].done = d]
    BY <1>2 DEF Told
  <2>2. Tells(t.client, d)
    BY <1>1, <2>1, TellEffect
  <2> QED  BY <1>2, <2>2
<1>3. CASE ~(cs[t.client].pc = "written" /\ cs[t.client].call = t.call /\ cs[t.client].cseq = t.cseq)
  BY <1>3 DEF Told
<1> QED  BY <1>2, <1>3

\* The writer takes the head of the queue: it writes it, or fails and ends.
Serves(d) ==
  /\ queue # <<>> /\ queue' = Tail(queue) /\ cs' = Told(Head(queue), d) /\ writer = "run"
  /\ UNCHANGED <<scenario, messageMu, ids, sends, refreshes, granted, service>>
  /\ \/ d = "ok" /\ Appended(wire, Head(queue), wire')
     \/ d = "err" /\ wire' = wire /\ writer' = "done"

LEMMA Served ==
  ASSUME BaseInv, Write \/ WriteFails
  PROVE  \E d \in {"ok", "err"} : Serves(d)
<1>1. CASE Write
  <2>1. /\ queue # <<>> /\ queue' = Tail(queue) /\ cs' = Told(Head(queue), "ok") /\ writer = "run"
        /\ UNCHANGED <<scenario, messageMu, ids, sends, refreshes, granted, service>>
    BY <1>1 DEF Write, sharedVars
  <2>2. Appended(wire, Head(queue), wire')
    BY <1>1, WriteBase
  <2>3. Serves("ok")
    BY <2>1, <2>2 DEF Serves
  <2> QED  BY <2>3
<1>2. CASE WriteFails
  <2>1. /\ queue # <<>> /\ queue' = Tail(queue) /\ cs' = Told(Head(queue), "err") /\ writer = "run"
        /\ UNCHANGED <<scenario, messageMu, ids, sends, refreshes, granted, service>>
        /\ wire' = wire /\ writer' = "done"
    BY <1>2 DEF WriteFails, sharedVars
  <2>2. Serves("err")
    BY <2>1 DEF Serves
  <2> QED  BY <2>2
<1> QED  BY <1>1, <1>2

LEMMA HeadServed ==
  ASSUME BaseInv, NEW d \in {"ok", "err"}, Serves(d)
  PROVE  /\ Head(queue) = queue[1] /\ 1 \in DOMAIN queue /\ Head(queue) \in Task
         /\ DOMAIN queue' \subseteq Nat \ {0} /\ DOMAIN queue \subseteq Nat \ {0}
         /\ \A i \in DOMAIN queue' : i + 1 \in DOMAIN queue /\ queue'[i] = queue[i + 1]
         /\ \A i \in DOMAIN queue : i # 1 => i - 1 \in DOMAIN queue' /\ queue'[i - 1] = queue[i]
<1>1. Dropped(queue, queue')
  BY DequeueBase DEF Serves
<1>2. Head(queue) = queue[1] /\ 1 \in DOMAIN queue /\ Head(queue) \in Task
  BY <1>1, Zenon DEF Dropped
<1>3. /\ Len(queue') = Len(queue) - 1 /\ DOMAIN queue' = 1..Len(queue') /\ DOMAIN queue = 1..Len(queue)
      /\ \A i \in DOMAIN queue' : i + 1 \in DOMAIN queue /\ queue'[i] = queue[i + 1]
  BY <1>1, Zenon DEF Dropped
<1>4. Len(queue) \in Nat
  BY LenProperties DEF BaseInv, Typed
<1> QED  BY <1>2, <1>3, <1>4

LEMMA ServedWire ==
  ASSUME BaseInv, OrderInv, NEW d \in {"ok", "err"}, Serves(d)
  PROVE  PartsInOrder' /\ QueueOrder'
<1> DEFINE t == Head(queue)
<1>1. /\ t = queue[1] /\ 1 \in DOMAIN queue /\ t \in Task
      /\ DOMAIN queue' \subseteq Nat \ {0}
      /\ \A i \in DOMAIN queue' : i + 1 \in DOMAIN queue /\ queue'[i] = queue[i + 1]
  BY HeadServed
<1>2. PartsInOrder /\ QueueOrder /\ wire \in Seq(Task) /\ granted' = granted /\ Len(wire) \in Nat
  BY LenProperties DEF OrderInv, BaseInv, Typed, Serves
<1>3. wire' = wire \/ Appended(wire, t, wire')
  BY DEF Serves
<1> HIDE DEF t
<1>4. PartsInOrder'
  <2>1. CASE wire' = wire
    BY <1>2, <2>1 DEF PartsInOrder, Accepted, IsMessage
  <2>2. CASE Appended(wire, t, wire')
    <3>1. /\ Len(wire') = Len(wire) + 1 /\ DOMAIN wire' = 1..Len(wire') /\ DOMAIN wire = 1..Len(wire)
          /\ wire'[Len(wire')] = t /\ \A i \in DOMAIN wire : i \in DOMAIN wire' /\ wire'[i] = wire[i]
      BY <2>2, Zenon DEF Appended
    <3>2. \A j \in DOMAIN wire' : \/ j \in DOMAIN wire /\ wire'[j] = wire[j]
                                  \/ j = Len(wire') /\ wire'[j] = t
      BY <1>2, <3>1
    <3>3. SUFFICES ASSUME NEW j \in DOMAIN wire', IsMessage(wire'[j]), wire'[j].k > 1
                   PROVE  \E i \in 1..(j - 1) :
                            /\ wire'[i].job = wire'[j].job /\ wire'[i].n = wire'[j].n /\ wire'[i].k = wire'[j].k - 1
                            /\ Accepted(wire'[i])
                            /\ \A l \in (i + 1)..(j - 1) : ~IsMessage(wire'[l])
      BY <1>2 DEF PartsInOrder, Accepted, IsMessage
    <3>4. CASE j \in DOMAIN wire /\ wire'[j] = wire[j]
      <4>1. PICK i \in 1..(j - 1) :
              /\ wire[i].job = wire[j].job /\ wire[i].n = wire[j].n /\ wire[i].k = wire[j].k - 1
              /\ Accepted(wire[i])
              /\ \A l \in (i + 1)..(j - 1) : ~IsMessage(wire[l])
        BY <1>2, <3>3, <3>4 DEF PartsInOrder
      <4>2. wire'[i] = wire[i] /\ \A l \in (i + 1)..(j - 1) : wire'[l] = wire[l]
        BY <1>2, <3>1, <3>4, <4>1
      <4> QED  BY <3>4, <4>1, <4>2
    <3>5. CASE j = Len(wire') /\ wire'[j] = t
      <4>1. Follows(t)
        BY <1>1, <1>2, <3>3, <3>5 DEF QueueOrder
      <4>2. PICK i \in DOMAIN wire : LastMessage(i) /\ Precedes(wire[i], t)
        BY <4>1 DEF Follows
      <4>3. i \in 1..(j - 1) /\ wire'[i] = wire[i]
        BY <1>2, <3>1, <3>5
      <4>4. \A l \in (i + 1)..(j - 1) : ~IsMessage(wire'[l])
        BY <1>2, <3>1, <3>5, <4>2 DEF LastMessage
      <4> QED  BY <3>5, <4>2, <4>3, <4>4 DEF Precedes
    <3> QED  BY <3>2, <3>4, <3>5
  <2> QED  BY <1>3, <2>1, <2>2
<1>5. QueueOrder'
  <2>1. \A i, j \in DOMAIN queue' : i < j /\ IsMessage(queue'[i]) /\ IsMessage(queue'[j]) => queue'[i].call < queue'[j].call
    BY <1>1, <1>2 DEF QueueOrder
  <2>2. ASSUME NEW j \in DOMAIN queue', IsMessage(queue'[j]), queue'[j].k > 1
        PROVE  Follows(queue[j])' /\ \A i \in DOMAIN queue' : i < j => ~IsMessage(queue'[i])
    <3>1. /\ Follows(queue[j + 1]) /\ \A i \in DOMAIN queue : i < j + 1 => ~IsMessage(queue[i])
          /\ j \in Nat \ {0}
      BY <1>1, <1>2, <2>2 DEF QueueOrder
    <3>2. ~IsMessage(t)
      BY <1>1, <3>1
    <3>3. \A u : Follows(u) => Follows(u)'
      BY <1>2, <1>3, <3>2, FollowsKept
    <3>4. Follows(queue[j])'
      BY <1>1, <3>1, <3>3 DEF Follows, Precedes, Accepted, LastMessage
    <3>5. \A i \in DOMAIN queue' : i < j => ~IsMessage(queue'[i])
      BY <1>1, <3>1
    <3> QED  BY <3>4, <3>5
  <2>3. (\A j \in DOMAIN queue : IsMessage(queue[j]) /\ queue[j].k > 1 =>
           Follows(queue[j]) /\ \A i \in DOMAIN queue : i < j => ~IsMessage(queue[i]))'
    BY <2>2 DEF IsMessage
  <2> QED  BY <2>1, <2>3 DEF QueueOrder, IsMessage
<1> QED  BY <1>4, <1>5

\* A sender whose request is served learns of it; the others, and those whose earlier
\* request it was, do not.
LEMMA ServedSender ==
  ASSUME BaseInv, OrderInv, NEW d \in {"ok", "err"}, Serves(d), NEW c \in Clients \ {Refresher}, cs[c].pc \in Active
  PROVE  /\ queue[1] = TaskOf(c) /\ Pending(c) => Tells(c, d) /\ IsMessage(queue[1]) /\ NoMessages(queue)'
         /\ ~(queue[1] = TaskOf(c) /\ Pending(c)) => cs'[c] = cs[c]
<1> DEFINE t == Head(queue)
<1>1. /\ t = queue[1] /\ 1 \in DOMAIN queue /\ t \in Task
      /\ DOMAIN queue' \subseteq Nat \ {0} /\ DOMAIN queue \subseteq Nat \ {0}
      /\ \A i \in DOMAIN queue' : i + 1 \in DOMAIN queue /\ queue'[i] = queue[i + 1]
  BY HeadServed
<1>2. /\ SenderOrder(c) /\ QueueOrder /\ Typed /\ ids \in Nat /\ cs[c] \in Client
  BY DEF OrderInv, BaseInv, Typed
<1>3. cs[c].call = ids /\ cs[c].job # "refresh"
  BY CallsGiven
<1>4. /\ \A i \in DOMAIN queue : IsMessage(queue[i]) => queue[i].call \in 1..ids /\ queue[i].client # Refresher
      /\ \A i \in DOMAIN queue : ~IsMessage(queue[i]) => queue[i].client = Refresher
  BY CallsGiven
<1>5. cs' = Told(t, d) /\ writer = "run"
  BY DEF Serves
<1> HIDE DEF t
<1>6. IF cs[t.client].pc = "written" /\ cs[t.client].call = t.call /\ cs[t.client].cseq = t.cseq
        THEN Tells(t.client, d) ELSE UNCHANGED cs
  BY <1>1, <1>2, <1>5, ToldExactly
<1>7. /\ TaskOf(c).client = c /\ TaskOf(c).job = cs[c].job /\ TaskOf(c).call = cs[c].call /\ TaskOf(c).cseq = cs[c].cseq
  BY DEF TaskOf
<1>8. ASSUME IsMessage(t), t.call = ids PROVE \A i \in DOMAIN queue : i # 1 => ~IsMessage(queue[i])
  <2>1. SUFFICES ASSUME NEW i \in DOMAIN queue, i # 1, IsMessage(queue[i]) PROVE FALSE
    OBVIOUS
  <2>2. 1 < i
    BY <1>1, <2>1
  <2>3. t.call < queue[i].call
    BY <1>1, <1>2, <1>8, <2>1, <2>2 DEF QueueOrder
  <2> QED  BY <1>2, <1>4, <1>8, <2>1, <2>3
<1>9. ASSUME queue[1] = TaskOf(c), Pending(c)
      PROVE  Tells(c, d) /\ IsMessage(queue[1]) /\ NoMessages(queue)'
  <2>1. t = TaskOf(c) /\ cs[c].pc = "written"
    BY <1>1, <1>9 DEF Pending
  <2>2. Tells(c, d)
    BY <1>6, <1>7, <2>1
  <2>3. IsMessage(t) /\ t.call = ids
    BY <1>3, <1>7, <2>1 DEF IsMessage
  <2>4. \A i \in DOMAIN queue' : ~IsMessage(queue'[i])
    BY <1>1, <1>8, <2>3
  <2> QED  BY <1>1, <2>2, <2>3, <2>4 DEF NoMessages, IsMessage
<1>10. ASSUME ~(queue[1] = TaskOf(c) /\ Pending(c))
       PROVE  cs'[c] = cs[c]
  <2>1. CASE UNCHANGED cs
    BY <2>1
  <2>2. CASE Tells(t.client, d) /\ t.client # c
    BY <2>2, Zenon DEF Tells, Changed
  <2>3. CASE cs[c].pc = "written" /\ cs[c].call = t.call /\ t.client = c
    <3>1. IsMessage(t) /\ t.call = ids
      BY <1>1, <1>3, <1>4, <2>3
    <3>2. \A i \in DOMAIN queue : i # 1 => ~IsMessage(queue[i])
      BY <1>8, <3>1
    <3>3. cs[c].done = "ok" => FALSE
      BY <1>1, <1>2, <2>3, <3>1 DEF SenderOrder, Out, NoMessages
    <3>4. cs[c].done = "err" => FALSE
      BY <1>2, <1>5, <2>3 DEF SenderOrder
    <3>5. cs[c].done = "none"
      BY <1>2, <3>3, <3>4 DEF Client
    <3>6. PICK i \in DOMAIN queue : queue[i] = TaskOf(c)
      BY <1>2, <2>3, <3>5 DEF SenderOrder, Pending
    <3>7. IsMessage(queue[i])
      BY <1>3, <1>7, <3>6 DEF IsMessage
    <3>8. i = 1
      BY <3>2, <3>7
    <3> QED  BY <1>10, <2>3, <3>5, <3>6, <3>8 DEF Pending
  <2> QED  BY <1>6, <2>1, <2>2, <2>3
<1> QED  BY <1>9, <1>10

LEMMA ServedOrder ==
  ASSUME BaseInv, OrderInv, NEW d \in {"ok", "err"}, Serves(d), NEW c \in Clients \ {Refresher}
  PROVE  SenderOrder(c)'
<1> DEFINE t == Head(queue)
<1>1. /\ t = queue[1] /\ 1 \in DOMAIN queue /\ t \in Task
      /\ DOMAIN queue' \subseteq Nat \ {0} /\ DOMAIN queue \subseteq Nat \ {0}
      /\ \A i \in DOMAIN queue' : i + 1 \in DOMAIN queue /\ queue'[i] = queue[i + 1]
      /\ \A i \in DOMAIN queue : i # 1 => i - 1 \in DOMAIN queue' /\ queue'[i - 1] = queue[i]
  BY HeadServed
<1>2. /\ SenderOrder(c) /\ QueueOrder /\ Typed /\ ids \in Nat /\ cs[c] \in Client /\ wire \in Seq(Task) /\ Len(wire) \in Nat
  BY LenProperties DEF OrderInv, BaseInv, Typed
<1>3. /\ cs' = Told(t, d) /\ writer = "run" /\ ids' = ids /\ granted' = granted
      /\ \/ d = "ok" /\ Appended(wire, t, wire')
         \/ d = "err" /\ wire' = wire /\ writer' = "done"
  BY DEF Serves
<1> HIDE DEF t
<1>4. IF cs[t.client].pc = "written" /\ cs[t.client].call = t.call /\ cs[t.client].cseq = t.cseq
        THEN Tells(t.client, d) ELSE UNCHANGED cs
  BY <1>1, <1>2, <1>3, ToldExactly
<1>5. CASE cs[c].pc \notin Active
  <2>1. cs[c].pc \in {"idle", "lock"}
    BY <1>2, <1>5 DEF Client, Active
  <2>2. cs'[c] = cs[c]
    <3>1. CASE UNCHANGED cs
      BY <3>1
    <3>2. CASE cs[t.client].pc = "written" /\ Tells(t.client, d)
      BY <2>1, <3>2 DEF Tells, Changed
    <3> QED  BY <1>4, <3>1, <3>2
  <2> QED  BY <2>1, <2>2, RestsOrder
<1>6. CASE cs[c].pc \in Active /\ queue[1] = TaskOf(c) /\ Pending(c)
  <2>1. Tells(c, d) /\ IsMessage(t) /\ NoMessages(queue)'
    BY <1>1, <1>6, ServedSender
  <2>2. /\ cs'[c].pc = cs[c].pc /\ cs'[c].done = d /\ cs'[c].job = cs[c].job /\ cs'[c].n = cs[c].n
        /\ cs'[c].k = cs[c].k /\ cs'[c].call = cs[c].call /\ cs'[c].cseq = cs[c].cseq
    BY <2>1, Zenon DEF Tells, DoneSet, SameRequest, SameJob
  <2>3. TaskOf(c)' = t
    BY <1>1, <1>6, <2>2 DEF TaskOf
  <2>4. cs[c].pc = "written"
    BY <1>6 DEF Pending
  <2>5. CASE d = "err"
    BY <1>3, <2>2, <2>4, <2>5 DEF SenderOrder, Pending, Out
  <2>6. CASE d = "ok"
    <3>1. Appended(wire, t, wire')
      BY <1>3, <2>6
    <3>2. Len(wire') = Len(wire) + 1 /\ DOMAIN wire' = 1..Len(wire') /\ wire'[Len(wire')] = t
      BY <3>1, Zenon DEF Appended
    <3>3. Len(wire') \in DOMAIN wire' /\ LastMessage(Len(wire))' /\ wire'[Len(wire')] = TaskOf(c)'
      BY <1>2, <2>3, <3>2 DEF LastMessage
    <3>4. \E i \in DOMAIN wire' : LastMessage(i)' /\ wire'[i] = TaskOf(c)'
      BY <3>3
    <3> QED  BY <2>1, <2>2, <2>4, <2>6, <3>4 DEF SenderOrder, Pending, Out
  <2> QED  BY <2>5, <2>6
<1>7. CASE cs[c].pc \in Active /\ ~(queue[1] = TaskOf(c) /\ Pending(c))
  <2>1. SameTask(cs[c], cs'[c])
    BY <1>7, ServedSender DEF SameTask
  <2>2. /\ TaskOf(c)' = TaskOf(c) /\ (Pending(c)' <=> Pending(c)) /\ (Out(c)' <=> Out(c))
        /\ cs'[c].pc = cs[c].pc /\ cs'[c].done = cs[c].done /\ cs'[c].k = cs[c].k
        /\ (Follows(cs[c])' <=> Follows(TaskOf(c))') /\ (Follows(cs[c]) <=> Follows(TaskOf(c)))
    BY <2>1, TaskKept, TaskFollows
  <2>3. NoMessages(queue) => NoMessages(queue)' /\ ~IsMessage(t)
    BY <1>1 DEF NoMessages, IsMessage
  <2>4. ~IsMessage(t) => (\A u : Follows(u) => Follows(u)') /\ \A i : LastMessage(i) => LastMessage(i)' /\ wire'[i] = wire[i]
    BY <1>2, <1>3, FollowsKept
  <2>5. ~IsMessage(t) /\ Follows(TaskOf(c)) => Follows(TaskOf(c))'
    BY <2>2, <2>4 DEF Follows, Precedes, Accepted, LastMessage
  <2>6. cs'[c].pc = "queue" => /\ cs'[c].done = "none"
                               /\ \A i \in DOMAIN queue' : IsMessage(queue'[i]) => queue'[i].call < ids'
                               /\ cs'[c].k > 1 => NoMessages(queue)' /\ Follows(cs[c])'
    <3>1. SUFFICES ASSUME cs[c].pc = "queue"
                   PROVE  /\ cs[c].done = "none"
                          /\ \A i \in DOMAIN queue' : IsMessage(queue'[i]) => queue'[i].call < ids
                          /\ cs[c].k > 1 => NoMessages(queue)' /\ Follows(cs[c])'
      BY <1>3, <2>2
    <3>2. /\ cs[c].done = "none" /\ (cs[c].k > 1 => NoMessages(queue) /\ Follows(cs[c]))
          /\ \A i \in DOMAIN queue : IsMessage(queue[i]) => queue[i].call < ids
      BY <1>2, <3>1 DEF SenderOrder
    <3>3. \A i \in DOMAIN queue' : IsMessage(queue'[i]) => queue'[i].call < ids
      BY <1>1, <3>2
    <3> QED  BY <2>2, <2>3, <2>5, <3>2, <3>3
  <2>7. Pending(c)' => \E i \in DOMAIN queue' : queue'[i] = TaskOf(c)'
    <3>1. SUFFICES ASSUME Pending(c) PROVE \E i \in DOMAIN queue' : queue'[i] = TaskOf(c)
      BY <2>2
    <3>2. PICK i \in DOMAIN queue : queue[i] = TaskOf(c)
      BY <1>2, <3>1 DEF SenderOrder
    <3>3. i # 1
      BY <1>7, <3>1, <3>2
    <3> QED  BY <1>1, <3>2, <3>3
  <2>8. Out(c)' => NoMessages(queue)' /\ \E i \in DOMAIN wire' : LastMessage(i)' /\ wire'[i] = TaskOf(c)'
    <3>1. SUFFICES ASSUME Out(c)
                   PROVE  NoMessages(queue)' /\ \E i \in DOMAIN wire' : LastMessage(i)' /\ wire'[i] = TaskOf(c)
      BY <2>2
    <3>2. NoMessages(queue) /\ \E i \in DOMAIN wire : LastMessage(i) /\ wire[i] = TaskOf(c)
      BY <1>2, <3>1 DEF SenderOrder
    <3>3. PICK i : LastMessage(i) /\ wire[i] = TaskOf(c)
      BY <3>2
    <3>4. LastMessage(i)' /\ wire'[i] = TaskOf(c) /\ i \in DOMAIN wire'
      BY <2>3, <2>4, <3>2, <3>3 DEF LastMessage
    <3> QED  BY <2>3, <3>2, <3>4
  <2>9. cs'[c].pc = "written" /\ cs'[c].done = "err" => writer' = "done"
    BY <1>2, <1>3, <2>2 DEF SenderOrder
  <2> QED  BY <2>6, <2>7, <2>8, <2>9, Zenon DEF SenderOrder
<1> QED  BY <1>5, <1>6, <1>7

LEMMA ServedOrderInv ==
  ASSUME BaseInv, OrderInv, Write \/ WriteFails
  PROVE  OrderInv'
<1>1. PICK d \in {"ok", "err"} : Serves(d)
  BY Served
<1>2. PartsInOrder' /\ QueueOrder'
  BY <1>1, ServedWire
<1>3. \A c \in Clients \ {Refresher} : SenderOrder(c)'
  BY <1>1, ServedOrder
<1> QED  BY <1>2, <1>3 DEF OrderInv

\* Every step keeps OrderInv.
LEMMA OrderNext == BaseInv /\ ArchiveInv /\ OrderInv /\ [Next]_vars => OrderInv'
<1> SUFFICES ASSUME BaseInv, ArchiveInv, OrderInv, [Next]_vars PROVE OrderInv'
  OBVIOUS
<1>1. ids \in Nat
  BY DEF BaseInv, Typed
<1>2. CASE Refresh \/ TakeRefresh
  <2>1. RefreshStep
    BY <1>2, RefreshBase
  <2>2. UNCHANGED <<queue, wire, granted, ids, writer>>
    BY <1>2 DEF Refresh, TakeRefresh, runtimeVars, sharedVars
  <2>3. Changed(Refresher, cs'[Refresher])
    BY <2>1, Zenon DEF RefreshStep, RoundStarts, Returns, Reads
  <2> QED  BY <1>1, <2>2, <2>3, Roles, OneOrders
<1>3. CASE SendSMS
  <2>1. PICK c \in Senders : Changed(c, cs'[c]) /\ cs'[c].pc = "lock"
    BY <1>3, SendEffect DEF BaseInv, Claims
  <2>2. UNCHANGED <<queue, wire, granted, ids, writer>>
    BY <1>3 DEF SendSMS, runtimeVars
  <2>3. SenderOrder(c)' /\ c \in Clients
    BY <2>1, RestsOrder, Roles
  <2> QED  BY <1>1, <2>1, <2>2, <2>3, OneOrders
<1>4. ASSUME NEW c \in Clients, TakeSMS(c) \/ WriteDone(c) \/ GiveUp(c) PROVE OrderInv'
  <2>1. UNCHANGED <<queue, wire, granted, writer>>
    BY <1>4 DEF TakeSMS, WriteDone, GiveUp, runtimeVars
  <2>2. CASE Returns(c, "error") \/ Returns(c, "accepted")
    <3>1. Changed(c, cs'[c]) /\ cs'[c].pc = "idle"
      BY <2>2, Zenon DEF Returns, Return
    <3>2. ids' \in Nat /\ ids <= ids'
      BY <1>1, <1>4 DEF TakeSMS, WriteDone, GiveUp
    <3> QED  BY <2>1, <3>1, <3>2, RestsOrder, OneOrders
  <2>3. CASE TakeSMS(c)
    <3>1. TakesSMS(c) /\ c # Refresher /\ cs[c].pc = "wait"
      BY <2>3, TakeBase DEF TakeSMS
    <3>2. CASE Reads(c) /\ UNCHANGED <<messageMu, ids>>
      <4>1. Changed(c, cs'[c]) /\ SameTask(cs[c], cs'[c])
        BY <3>2, Zenon DEF Reads, Buffered, SameRequest, SameJob, SameTask
      <4> QED  BY <1>1, <2>1, <3>2, <4>1, OneOrders
    <3>3. CASE TaskAccepted(c) /\ PartStarts(c) /\ ids' = ids + 1
      BY <2>1, <3>1, <3>3, NextPartOrder
    <3> QED  BY <2>2, <3>1, <3>2, <3>3 DEF TakesSMS
  <2>4. CASE WriteDone(c)
    <3>1. ids' = ids
      BY <2>4 DEF WriteDone
    <3>2. CASE cs[c].done = "ok" /\ PcMoves(c, "wait")
      <4>1. /\ Changed(c, cs'[c]) /\ cs'[c].pc = "wait" /\ cs'[c].done = cs[c].done /\ cs'[c].job = cs[c].job
            /\ cs'[c].n = cs[c].n /\ cs'[c].k = cs[c].k /\ cs'[c].call = cs[c].call /\ cs'[c].cseq = cs[c].cseq
        BY <3>2, Zenon DEF PcMoves, Moved, SameRequest, SameJob
      <4>2. cs[c].pc = "written"
        BY <2>4 DEF WriteDone
      <4>3. CASE c # Refresher
        <5>1. NoMessages(queue) /\ \E i \in DOMAIN wire : LastMessage(i) /\ wire[i] = TaskOf(c)
          BY <3>2, <4>2, <4>3 DEF OrderInv, SenderOrder, Out
        <5>2. NoMessages(queue)' /\ \E i \in DOMAIN wire' : LastMessage(i)' /\ wire'[i] = TaskOf(c)
          BY <2>1, <5>1 DEF NoMessages, LastMessage, IsMessage
        <5>3. TaskOf(c)' = TaskOf(c)
          BY <4>1 DEF TaskOf
        <5>4. SenderOrder(c)'
          BY <4>1, <5>2, <5>3 DEF SenderOrder, Out, Pending
        <5> QED  BY <1>1, <2>1, <3>1, <4>1, <5>4, OneOrders
      <4> QED  BY <1>1, <2>1, <3>1, <4>1, <4>3, OneOrders
    <3> QED  BY <2>2, <2>4, <3>2, WriteDoneBase
  <2>5. CASE GiveUp(c)
    BY <2>2, <2>5, GiveUpBase
  <2> QED  BY <1>4, <2>3, <2>4, <2>5
<1>5. ASSUME NEW h \in Handlers, ReadMessage(h) \/ Store(h) PROVE OrderInv'
  <2>1. Acknowledging(h) /\ UNCHANGED <<queue, wire, granted, ids, writer>>
    BY <1>5, ReaderEffect
  <2>2. CASE UNCHANGED cs
    BY <1>1, <2>1, <2>2, OrderStays DEF SameTask
  <2>3. CASE \E a \in Ackers, m \in scenario.mt : Claims(a, "ack", m.id, <<>>, 1)
    <3>1. PICK a \in Ackers, m \in scenario.mt : Claims(a, "ack", m.id, <<>>, 1)
      BY <2>3
    <3>2. Changed(a, cs'[a]) /\ cs'[a].pc = "lock"
      BY <3>1, Zenon DEF Claims
    <3> QED  BY <1>1, <2>1, <3>2, RestsOrder, Roles, OneOrders
  <2> QED  BY <2>1, <2>2, <2>3, Zenon DEF Acknowledging
<1>6. CASE ReadResponse
  <2>1. granted \subseteq granted' /\ \A c \in Clients : Heard(c)
    BY <1>6, AnswerBase
  <2>2. UNCHANGED <<queue, wire, ids, writer>>
    BY <1>6 DEF ReadResponse, runtimeVars, sharedVars
  <2>3. ASSUME NEW c \in Clients PROVE SameTask(cs[c], cs'[c])
    <3>1. CASE cs'[c] = cs[c]
      BY <3>1 DEF SameTask
    <3>2. CASE SameRequest(cs[c], cs'[c]) /\ cs'[c].pc = cs[c].pc /\ cs'[c].done = cs[c].done
      BY <3>2, Zenon DEF SameRequest, SameJob, SameTask
    <3> QED  BY <2>1, <3>1, <3>2, Zenon DEF Heard
  <2> QED  BY <1>1, <2>1, <2>2, <2>3, OrderStays
<1>7. CASE Aside \/ UNCHANGED vars
  <2>1. Elsewhere
    BY <1>7, AsideElsewhere
  <2>2. cs' = cs /\ queue' = queue /\ wire' = wire /\ granted' = granted /\ ids' = ids
    BY <2>1 DEF Elsewhere
  <2>3. writer = "done" => writer' = "done"
    BY <1>7 DEF Aside, WriterStops, LateStore, ListenerEnds, InviteArrives, HalfClose, LeaseExpires, DrainEnds, ConnCancelled,
                FinalResponse, CloseCalled, Closing, CloseRuntime, CloseReturns, ReadEnds, StoreFails, StoreTimesOut,
                connRest, runtimeVars, vars
  <2> QED  BY <1>1, <2>2, <2>3, OrderStays DEF SameTask
<1> QED
  BY <1>2, <1>3, <1>4, <1>5, <1>6, <1>7, FirstPartOrder, QueuedOrder, ServedOrderInv
     DEF Next, ClientStep, Writer, Handling, Aside

LEMMA OrderInvariant == Spec => []OrderInv
BY OrderInit, OrderNext, BaseInvariant, ArchiveInvariant, PTL DEF Spec

-----------------------------------------------------------------------------
(* The parts of a message *)

\* As far as the parts of its message go, a client stays as it is.
SameParts(r, u) ==
  /\ u.pc = r.pc /\ u.done = r.done /\ u.job = r.job /\ u.n = r.n /\ u.k = r.k /\ u.call = r.call
  /\ u.cseq = r.cseq /\ u.text = r.text /\ u.total = r.total /\ u.outcome = r.outcome

\* The wire has grown by nothing of message n, and the queue too.
NotOnWire(w, v, n) ==
  /\ \A i \in DOMAIN w : i \in DOMAIN v /\ v[i] = w[i]
  /\ \A i \in DOMAIN v : i \in DOMAIN w \/ ~(v[i].job = "sms" /\ v[i].n = n)
NotInQueue(q, p, n) ==
  \A i \in DOMAIN p : (\E j \in DOMAIN q : p[i] = q[j]) \/ ~(p[i].job = "sms" /\ p[i].n = n)

LEMMA PartsSame ==
  ASSUME NEW w, NEW v, NEW n, NotOnWire(w, v, n), NEW g, NEW h, g \subseteq h
  PROVE  /\ \A m : OutUpTo(w, n, m) => OutUpTo(v, n, m)
         /\ \A m : AcceptedBelow(w, g, n, m) => AcceptedBelow(v, h, n, m)
<1>1. PartsIn(v, n) = PartsIn(w, n) /\ \A i \in PartsIn(w, n) : v[i] = w[i]
  BY DEF NotOnWire, PartsIn
<1> QED  BY <1>1 DEF OutUpTo, AcceptedBelow

LEMMA HoldsKept ==
  ASSUME NEW c, NEW r, NEW u, SameParts(r, u), NEW w, NEW v, NotOnWire(w, v, r.n),
         NEW q, NEW p, NotInQueue(q, p, r.n), NEW g, NEW h, g \subseteq h, PartsHold(c, r, w, q, g)
  PROVE  PartsHold(c, u, v, p, h)
<1>1. /\ \A m : OutUpTo(w, r.n, m) => OutUpTo(v, r.n, m)
      /\ \A m : AcceptedBelow(w, g, r.n, m) => AcceptedBelow(v, h, r.n, m)
  BY PartsSame
<1>2. NoneQueued(q, r.n) => NoneQueued(p, r.n)
  BY DEF NoneQueued, NotInQueue
<1>3. ASSUME \A i \in DOMAIN q : q[i].job = "sms" /\ q[i].n = r.n => q[i] = TaskFor(c, r)
      PROVE  \A i \in DOMAIN p : p[i].job = "sms" /\ p[i].n = r.n => p[i] = TaskFor(c, r)
  BY <1>3 DEF NotInQueue
<1>4. TaskFor(c, u) = TaskFor(c, r)
  BY DEF TaskFor, SameParts
<1>5. /\ u.pc = r.pc /\ u.done = r.done /\ u.n = r.n /\ u.k = r.k /\ u.total = r.total /\ u.outcome = r.outcome
  BY DEF SameParts
<1> QED  BY <1>1, <1>2, <1>3, <1>4, <1>5 DEF PartsHold

LEMMA RestsParts ==
  ASSUME NEW c, NEW u, u.pc = "idle", u.outcome # "accepted", NEW w, NEW q, NEW g
  PROVE  PartsHold(c, u, w, q, g) /\ TextHolds(u)
BY DEF PartsHold, TextHolds

\* Steps that add nothing to the queue and the wire.
LEMMA QuietWire ==
  ASSUME NEW n, NEW w, NEW q
  PROVE  NotOnWire(w, w, n) /\ NotInQueue(q, q, n)
BY DEF NotOnWire, NotInQueue

LEMMA PartsStay ==
  ASSUME PartsInv, UNCHANGED <<queue, wire>>, sends' = sends, sends \in Nat, granted \subseteq granted',
         \A c \in Senders : \/ SameParts(cs[c], cs'[c])
                            \/ /\ cs'[c].job = cs[c].job /\ cs'[c].n = cs[c].n
                               /\ TextHolds(cs'[c]) /\ PartsHold(c, cs'[c], wire, queue, granted')
  PROVE  PartsInv'
<1>1. ASSUME NEW c \in Senders
      PROVE  cs'[c].job = cs[c].job /\ cs'[c].n = cs[c].n /\ TextHolds(cs'[c]) /\ PartsHold(c, cs'[c], wire, queue, granted')
  <2>1. CASE SameParts(cs[c], cs'[c])
    <3>1. TextHolds(cs[c]) /\ PartsHold(c, cs[c], wire, queue, granted)
      BY DEF PartsInv, PartsOK
    <3>2. PartsHold(c, cs'[c], wire, queue, granted')
      BY <2>1, <3>1, QuietWire, HoldsKept
    <3>3. TextHolds(cs'[c])
      BY <2>1, <3>1 DEF TextHolds, SameParts
    <3> QED  BY <2>1, <3>2, <3>3 DEF SameParts
  <2> QED  BY <2>1
<1>2. NumbersOK'
  BY <1>1 DEF PartsInv, NumbersOK
<1>3. \A c \in Senders : PartsOK(c)'
  BY <1>1 DEF PartsOK
<1> QED  BY <1>2, <1>3 DEF PartsInv

LEMMA OneHolds ==
  ASSUME BaseInv, PartsInv, UNCHANGED <<queue, wire>>, sends' = sends, granted \subseteq granted',
         NEW c \in Clients, Changed(c, cs'[c]),
         \/ c \notin Senders
         \/ SameParts(cs[c], cs'[c])
         \/ /\ cs'[c].job = cs[c].job /\ cs'[c].n = cs[c].n
            /\ TextHolds(cs'[c]) /\ PartsHold(c, cs'[c], wire, queue, granted')
  PROVE  PartsInv'
<1>1. ASSUME NEW d \in Senders, d # c PROVE SameParts(cs[d], cs'[d])
  BY <1>1, Roles DEF Changed, SameParts
<1>2. sends \in Nat
  BY DEF BaseInv, Typed
<1> QED  BY <1>1, <1>2, PartsStay, Zenon

LEMMA PartsInit == Init => PartsInv
<1> SUFFICES ASSUME Init PROVE PartsInv
  OBVIOUS
<1>1. queue = <<>> /\ wire = <<>> /\ cs = [c \in Clients |-> Idle]
  BY DEF Init
<1>2. \A c \in Senders : cs[c].pc = "idle" /\ cs[c].outcome = "none" /\ cs[c].job = "none"
  BY <1>1, Roles DEF Idle
<1>3. DOMAIN queue = {} /\ DOMAIN wire = {}
  BY <1>1, EmptySeq
<1> QED  BY <1>2, <1>3 DEF PartsInv, NumbersOK, PartsOK, PartsHold, TextHolds

\* A client with a part to send is one that sends.
LEMMA BusySender ==
  ASSUME BaseInv, NEW c \in Senders, cs[c].pc # "idle" \/ cs[c].outcome = "accepted"
  PROVE  cs[c].job = "sms"
BY Roles DEF BaseInv, ClientOK

LEMMA SendParts ==
  ASSUME BaseInv, PartsInv, SendSMS
  PROVE  PartsInv'
<1>1. PICK c \in Senders, text \in AllTexts :
        cs[c].pc = "idle" /\ BodiesOf[text] # NoParts /\ Claims(c, "sms", sends + 1, text, Len(BodiesOf[text]))
  BY SendEffect DEF BaseInv
<1>2. UNCHANGED <<queue, wire, granted>> /\ sends' = sends + 1 /\ sends \in Nat
  BY DEF SendSMS, runtimeVars, BaseInv, Typed
<1>3. /\ cs'[c].job = "sms" /\ cs'[c].n = sends + 1 /\ cs'[c].text = text /\ cs'[c].total = Len(BodiesOf[text])
      /\ cs'[c].pc = "lock" /\ cs'[c].outcome = "none"
      /\ \A d \in Clients \ {c} : cs'[d] = cs[d]
  BY <1>1, Zenon DEF Claims, Claim, Changed
<1>4. queue \in Seq(Task) /\ wire \in Seq(Task) /\ \A t \in Task : t.n \in Nat
  BY DEF BaseInv, Typed, Task
<1>5. \A d \in Senders : cs[d].n \in Nat
  <2>1. \A r \in Client : r.n \in Nat
    BY DEF Client
  <2> QED  BY <2>1, Roles DEF BaseInv, Typed
<1>6. NumbersOK
  BY DEF PartsInv
<1>7. NumbersOK'
  <2>1. /\ \A i \in DOMAIN wire : wire[i].n \in Nat /\ (wire[i].job = "sms" => wire[i].n <= sends)
        /\ \A i \in DOMAIN queue : queue[i].n \in Nat /\ (queue[i].job = "sms" => queue[i].n <= sends)
    BY <1>4, <1>6 DEF NumbersOK
  <2>2. /\ \A i \in DOMAIN wire' : wire'[i].job = "sms" => wire'[i].n <= sends'
        /\ \A i \in DOMAIN queue' : queue'[i].job = "sms" => queue'[i].n <= sends'
    BY <1>2, <2>1
  <2>3. \A d \in Senders : d # c => cs'[d] = cs[d] /\ cs[d].n \in Nat /\ (cs[d].job = "sms" => cs[d].n <= sends)
    BY <1>3, <1>5, <1>6, Roles DEF NumbersOK
  <2>4. \A d \in Senders : cs'[d].job = "sms" => cs'[d].n <= sends'
    BY <1>2, <1>3, <2>3
  <2>5. ASSUME NEW d \in Senders, NEW e \in Senders, d # e, cs'[d].job = "sms", cs'[e].job = "sms"
        PROVE  cs'[d].n # cs'[e].n
    <3>1. CASE d = c
      BY <1>2, <1>3, <2>3, <2>5, <3>1
    <3>2. CASE e = c
      BY <1>2, <1>3, <2>3, <2>5, <3>2
    <3>3. CASE d # c /\ e # c
      BY <1>6, <2>3, <2>5, <3>3 DEF NumbersOK
    <3> QED  BY <3>1, <3>2, <3>3
  <2> QED  BY <2>2, <2>4, <2>5 DEF NumbersOK
<1>8. PartsHold(c, cs'[c], wire, queue, granted)
  <2>1. PartsIn(wire, sends + 1) = {}
    BY <1>2, <1>4, <1>6 DEF PartsIn, NumbersOK
  <2>2. NoneQueued(queue, sends + 1)
    BY <1>2, <1>4, <1>6 DEF NoneQueued, NumbersOK
  <2>3. OutUpTo(wire, sends + 1, 0)
    BY <2>1 DEF OutUpTo
  <2> QED  BY <1>3, <2>2, <2>3 DEF PartsHold
<1>9. ASSUME NEW d \in Senders PROVE PartsOK(d)'
  <2>1. CASE d = c
    BY <1>1, <1>2, <1>3, <1>8, <2>1 DEF PartsOK, TextHolds
  <2>2. CASE d # c
    <3>1. cs'[d] = cs[d] /\ PartsOK(d)
      BY <1>3, <2>2, Roles DEF PartsInv
    <3> QED  BY <1>2, <3>1 DEF PartsOK
  <2> QED  BY <2>1, <2>2
<1> QED  BY <1>7, <1>9 DEF PartsInv

LEMMA FirstParts ==
  ASSUME BaseInv, PartsInv, NEW c \in Clients, Lock(c)
  PROVE  PartsInv'
<1>1. /\ cs[c].pc = "lock" /\ cs' = [cs EXCEPT ![c] = PartReady(@)]
      /\ UNCHANGED <<queue, wire, granted, sends>>
  BY DEF Lock, runtimeVars
<1>2. PartStarts(c)
  BY <1>1, PartEffect DEF BaseInv
<1>3. cs[c].k = 0
  BY <1>1 DEF BaseInv, ClientOK
<1>4. /\ Changed(c, cs'[c]) /\ cs'[c].k = cs[c].k + 1 /\ cs'[c].pc = "queue" /\ cs'[c].outcome = cs[c].outcome
      /\ cs'[c].job = cs[c].job /\ cs'[c].n = cs[c].n /\ cs'[c].text = cs[c].text /\ cs'[c].total = cs[c].total
  BY <1>2, Zenon DEF PartStarts, SameJob
<1>5. CASE c \in Senders
  <2>1. TextHolds(cs[c]) /\ PartsHold(c, cs[c], wire, queue, granted) /\ cs[c].outcome # "accepted"
    BY <1>1, <1>5 DEF PartsInv, PartsOK, BaseInv, ClientOK
  <2>2. OutUpTo(wire, cs[c].n, 0) /\ NoneQueued(queue, cs[c].n)
    BY <1>1, <2>1 DEF PartsHold
  <2>3. PartsIn(wire, cs[c].n) = {}
    BY <2>2 DEF OutUpTo
  <2>4. AcceptedBelow(wire, granted', cs[c].n, 1)
    BY <2>3 DEF AcceptedBelow
  <2>5. cs'[c].k = 1 /\ cs'[c].k - 1 = 0
    BY <1>3, <1>4
  <2>6. PartsHold(c, cs'[c], wire, queue, granted')
    BY <1>4, <2>1, <2>2, <2>4, <2>5 DEF PartsHold
  <2>7. TextHolds(cs'[c])
    BY <1>1, <1>4, <2>1 DEF TextHolds
  <2> QED  BY <1>1, <1>4, <2>6, <2>7, OneHolds
<1> QED  BY <1>1, <1>4, <1>5, OneHolds

\* The part that was just accepted is the last one out: all of them are accepted.
LEMMA AllAccepted ==
  ASSUME BaseInv, OrderInv, PartsInv, NEW c \in Senders, cs[c].pc = "wait", TaskAccepted(c)
  PROVE  /\ OutUpTo(wire, cs[c].n, cs[c].k) /\ AcceptedBelow(wire, granted, cs[c].n, cs[c].k + 1)
         /\ NoneQueued(queue, cs[c].n)
<1>1. OutUpTo(wire, cs[c].n, cs[c].k) /\ AcceptedBelow(wire, granted, cs[c].n, cs[c].k) /\ cs[c].job = "sms"
  BY BusySender DEF PartsInv, PartsOK, PartsHold
<1>2. SenderOrder(c) /\ Out(c) /\ cs[c].k \in Nat /\ wire \in Seq(Task)
  BY Roles DEF OrderInv, Out, BaseInv, Typed, Client
<1>3. NoMessages(queue) /\ \E i \in DOMAIN wire : LastMessage(i) /\ wire[i] = TaskOf(c)
  BY <1>2 DEF SenderOrder
<1>4. PICK i \in DOMAIN wire : wire[i] = TaskOf(c)
  BY <1>3
<1>5. /\ i \in PartsIn(wire, cs[c].n) /\ wire[i].k = cs[c].k
      /\ wire[i].call = cs[c].call /\ wire[i].cseq = cs[c].cseq
  BY <1>1, <1>4 DEF TaskOf, PartsIn
<1>6. PartsIn(wire, cs[c].n) \subseteq Nat
  BY <1>2, LenProperties DEF PartsIn
<1>7. ASSUME NEW j \in PartsIn(wire, cs[c].n), wire[j].k < cs[c].k + 1
      PROVE  [call |-> wire[j].call, cseq |-> wire[j].cseq] \in granted
  <2>1. wire[j].k \in 1..cs[c].k
    BY <1>1 DEF OutUpTo
  <2>2. CASE wire[j].k < cs[c].k
    BY <1>1, <2>2 DEF AcceptedBelow
  <2>3. CASE wire[j].k = cs[c].k
    <3>1. i = j
      BY <1>1, <1>2, <1>5, <1>6, <2>3 DEF OutUpTo
    <3> QED  BY <1>5, <3>1 DEF TaskAccepted
  <2> QED  BY <1>2, <2>1, <2>2, <2>3
<1>8. NoneQueued(queue, cs[c].n)
  BY <1>3 DEF NoMessages, IsMessage, NoneQueued
<1> QED  BY <1>1, <1>7, <1>8 DEF AcceptedBelow

LEMMA TakeParts ==
  ASSUME BaseInv, OrderInv, PartsInv, NEW c \in Clients, TakeSMS(c)
  PROVE  PartsInv'
<1>1. TakesSMS(c) /\ cs[c].pc = "wait"
  BY TakeBase DEF TakeSMS
<1>2. UNCHANGED <<queue, wire, granted, sends>>
  BY DEF TakeSMS, runtimeVars
<1>3. CASE Reads(c)
  <2>1. Changed(c, cs'[c]) /\ SameParts(cs[c], cs'[c])
    BY <1>3, Zenon DEF Reads, Buffered, SameRequest, SameJob, SameParts
  <2> QED  BY <1>2, <2>1, OneHolds
<1>4. CASE Returns(c, "error")
  <2>1. Changed(c, cs'[c]) /\ cs'[c].pc = "idle" /\ cs'[c].outcome = "error" /\ cs'[c].job = cs[c].job /\ cs'[c].n = cs[c].n
    BY <1>4, Zenon DEF Returns, Return, SameJob
  <2> QED  BY <1>2, <2>1, RestsParts, OneHolds
<1>5. CASE TaskAccepted(c) /\ PartStarts(c)
  <2>1. /\ Changed(c, cs'[c]) /\ cs'[c].k = cs[c].k + 1 /\ cs'[c].pc = "queue" /\ cs'[c].outcome = cs[c].outcome
        /\ cs'[c].job = cs[c].job /\ cs'[c].n = cs[c].n /\ cs'[c].text = cs[c].text /\ cs'[c].total = cs[c].total
    BY <1>5, Zenon DEF PartStarts, SameJob
  <2>2. CASE c \in Senders
    <3>1. /\ OutUpTo(wire, cs[c].n, cs[c].k) /\ AcceptedBelow(wire, granted, cs[c].n, cs[c].k + 1)
          /\ NoneQueued(queue, cs[c].n)
      BY <1>1, <1>5, <2>2, AllAccepted
    <3>2. TextHolds(cs[c]) /\ cs[c].outcome # "accepted" /\ cs[c].k \in Nat
      BY <1>1, <2>2, Roles DEF PartsInv, PartsOK, BaseInv, ClientOK, Typed, Client
    <3>3. cs'[c].k - 1 = cs[c].k
      BY <2>1, <3>2
    <3>4. PartsHold(c, cs'[c], wire, queue, granted')
      BY <1>2, <2>1, <3>1, <3>2, <3>3 DEF PartsHold
    <3>5. TextHolds(cs'[c])
      BY <1>1, <2>1, <3>2 DEF TextHolds
    <3> QED  BY <1>2, <2>1, <3>4, <3>5, OneHolds
  <2> QED  BY <1>2, <2>1, <2>2, OneHolds
<1>6. CASE TaskAccepted(c) /\ Returns(c, "accepted") /\ cs[c].k = cs[c].total
  <2>1. /\ Changed(c, cs'[c]) /\ cs'[c].pc = "idle" /\ cs'[c].outcome = "accepted"
        /\ cs'[c].job = cs[c].job /\ cs'[c].n = cs[c].n /\ cs'[c].text = cs[c].text /\ cs'[c].total = cs[c].total
    BY <1>6, Zenon DEF Returns, Return, SameJob
  <2>2. CASE c \in Senders
    <3>1. /\ OutUpTo(wire, cs[c].n, cs[c].k) /\ AcceptedBelow(wire, granted, cs[c].n, cs[c].k + 1)
          /\ NoneQueued(queue, cs[c].n)
      BY <1>1, <1>6, <2>2, AllAccepted
    <3>2. TextHolds(cs[c])
      BY <2>2 DEF PartsInv, PartsOK
    <3>3. cs[c].total \in Nat
      BY <1>6, <2>2, Roles DEF BaseInv, Typed, Client
    <3>5. PartsHold(c, cs'[c], wire, queue, granted')
      BY <1>2, <1>6, <2>1, <3>1, <3>3 DEF PartsHold
    <3>4. TextHolds(cs'[c])
      BY <1>1, <2>1, <3>2 DEF TextHolds
    <3> QED  BY <1>2, <2>1, <3>4, <3>5, OneHolds
  <2> QED  BY <1>2, <2>1, <2>2, OneHolds
<1> QED  BY <1>1, <1>3, <1>4, <1>5, <1>6 DEF TakesSMS

LEMMA EndParts ==
  ASSUME BaseInv, PartsInv, NEW c \in Clients, WriteDone(c) \/ GiveUp(c)
  PROVE  PartsInv'
<1>1. UNCHANGED <<queue, wire, granted, sends>>
  BY DEF WriteDone, GiveUp, runtimeVars
<1>2. CASE Returns(c, "error")
  <2>1. Changed(c, cs'[c]) /\ cs'[c].pc = "idle" /\ cs'[c].outcome = "error" /\ cs'[c].job = cs[c].job /\ cs'[c].n = cs[c].n
    BY <1>2, Zenon DEF Returns, Return, SameJob
  <2> QED  BY <1>1, <2>1, RestsParts, OneHolds
<1>3. CASE WriteDone(c) /\ cs[c].done = "ok" /\ PcMoves(c, "wait")
  <2>1. /\ Changed(c, cs'[c]) /\ cs'[c].pc = "wait" /\ cs'[c].done = cs[c].done /\ cs'[c].job = cs[c].job
        /\ cs'[c].n = cs[c].n /\ cs'[c].k = cs[c].k /\ cs'[c].outcome = cs[c].outcome
        /\ cs'[c].text = cs[c].text /\ cs'[c].total = cs[c].total
    BY <1>3, Zenon DEF PcMoves, Moved, SameRequest, SameJob
  <2>2. CASE c \in Senders
    <3>1. cs[c].pc = "written" /\ PartsHold(c, cs[c], wire, queue, granted) /\ TextHolds(cs[c])
      BY <1>3, <2>2 DEF WriteDone, PartsInv, PartsOK
    <3>2. cs[c].outcome # "accepted"
      BY <2>2, <3>1, Roles DEF BaseInv, ClientOK
    <3>3. PartsHold(c, cs'[c], wire, queue, granted')
      BY <1>1, <1>3, <2>1, <3>1, <3>2 DEF PartsHold
    <3>4. TextHolds(cs'[c])
      BY <2>1, <3>1 DEF TextHolds
    <3> QED  BY <1>1, <2>1, <3>3, <3>4, OneHolds
  <2> QED  BY <1>1, <2>1, <2>2, OneHolds
<1>4. CASE WriteDone(c)
  <2>1. (cs[c].done = "ok" /\ PcMoves(c, "wait")) \/ Returns(c, "error")
    BY <1>4, WriteDoneBase
  <2> QED  BY <1>2, <1>3, <1>4, <2>1
<1>5. CASE GiveUp(c)
  BY <1>2, <1>5, GiveUpBase
<1> QED  BY <1>4, <1>5

\* A part that is queued is the only one of its message in the queue.
LEMMA QueuedParts ==
  ASSUME BaseInv, OrderInv, PartsInv, NEW c \in Clients, Enqueue(c)
  PROVE  PartsInv'
<1> DEFINE t == TaskOf(c)
<1>1. /\ cs[c].pc = "queue" /\ PcMoves(c, "written") /\ Appended(queue, t, queue')
      /\ wire' = wire /\ granted' = granted /\ sends' = sends
  BY EnqueueBase DEF Enqueue, sharedVars
<1>2. /\ \A d \in Clients \ {c} : cs'[d] = cs[d]
      /\ cs'[c].pc = "written" /\ cs'[c].done = cs[c].done /\ cs'[c].job = cs[c].job /\ cs'[c].n = cs[c].n
      /\ cs'[c].k = cs[c].k /\ cs'[c].call = cs[c].call /\ cs'[c].cseq = cs[c].cseq
      /\ cs'[c].outcome = cs[c].outcome /\ cs'[c].text = cs[c].text /\ cs'[c].total = cs[c].total
  BY <1>1, Zenon DEF PcMoves, Moved, SameRequest, SameJob, Changed
<1>3. t.job = cs[c].job /\ t.n = cs[c].n /\ t = TaskFor(c, cs[c]) /\ t = TaskFor(c, cs'[c])
  BY <1>2 DEF TaskOf, TaskFor
<1>4. Len(queue) \in Nat
  BY LenProperties DEF BaseInv, Typed
<1> HIDE DEF t
<1>5. /\ Len(queue') = Len(queue) + 1 /\ DOMAIN queue' = 1..Len(queue') /\ DOMAIN queue = 1..Len(queue)
      /\ queue'[Len(queue')] = t /\ \A i \in DOMAIN queue : i \in DOMAIN queue' /\ queue'[i] = queue[i]
  BY <1>1, Zenon DEF Appended
<1>6. \A i \in DOMAIN queue' : (\E j \in DOMAIN queue : queue'[i] = queue[j]) \/ queue'[i] = t
  BY <1>4, <1>5
<1>7. NumbersOK
  BY DEF PartsInv
<1>8. t.job = "sms" => c \in Senders
  <2>1. cs[c].job = JobOf(c)
    BY <1>1 DEF BaseInv, ClientOK
  <2> QED  BY <1>3, <2>1, Roles DEF JobOf
<1>9. NumbersOK'
  <2>1. \A i \in DOMAIN queue' : queue'[i].job = "sms" => queue'[i].n <= sends
    BY <1>3, <1>6, <1>7, <1>8 DEF NumbersOK
  <2>2. \A d \in Senders : cs'[d].job = cs[d].job /\ cs'[d].n = cs[d].n
    BY <1>2, Roles
  <2> QED  BY <1>1, <1>7, <2>1, <2>2 DEF NumbersOK
<1>10. ASSUME NEW d \in Senders PROVE PartsOK(d)'
  <2>1. PartsHold(d, cs[d], wire, queue, granted) /\ TextHolds(cs[d]) /\ d \in Clients
    BY Roles DEF PartsInv, PartsOK
  <2>2. CASE d = c
    <3>1. /\ OutUpTo(wire, cs[c].n, cs[c].k - 1) /\ AcceptedBelow(wire, granted, cs[c].n, cs[c].k)
          /\ NoneQueued(queue, cs[c].n)
      BY <1>1, <2>1, <2>2 DEF PartsHold
    <3>2. cs[c].done = "none"
      BY <1>1, <2>2, Roles DEF OrderInv, SenderOrder
    <3>3. cs[c].outcome # "accepted"
      BY <1>1, <2>1, <2>2 DEF BaseInv, ClientOK
    <3>4. \A i \in DOMAIN queue' : queue'[i].job = "sms" /\ queue'[i].n = cs'[c].n => queue'[i] = TaskFor(c, cs'[c])
      BY <1>2, <1>3, <1>6, <3>1 DEF NoneQueued
    <3>5. PartsHold(c, cs'[c], wire, queue', granted)
      BY <1>2, <3>1, <3>2, <3>3, <3>4 DEF PartsHold
    <3>6. TextHolds(cs'[c])
      BY <1>1, <1>2, <2>1, <2>2 DEF TextHolds
    <3> QED  BY <1>1, <2>2, <3>5, <3>6 DEF PartsOK
  <2>3. CASE d # c /\ cs[d].pc = "idle" /\ cs[d].outcome # "accepted"
    <3>1. cs'[d] = cs[d]
      BY <1>2, <2>1, <2>3
    <3>2. PartsHold(d, cs'[d], wire', queue', granted')
      BY <2>3, <3>1, RestsParts
    <3> QED  BY <2>1, <3>1, <3>2 DEF PartsOK
  <2>4. CASE d # c /\ (cs[d].pc # "idle" \/ cs[d].outcome = "accepted")
    <3>1. cs[d].job = "sms"
      BY <2>4, BusySender
    <3>2. ~(t.job = "sms" /\ t.n = cs[d].n)
      BY <1>3, <1>7, <1>8, <2>4, <3>1 DEF NumbersOK
    <3>3. NotInQueue(queue, queue', cs[d].n) /\ NotOnWire(wire, wire', cs[d].n)
      BY <1>1, <1>6, <3>2 DEF NotInQueue, NotOnWire
    <3>4. cs'[d] = cs[d] /\ SameParts(cs[d], cs'[d])
      BY <1>2, <2>1, <2>4 DEF SameParts
    <3>5. PartsHold(d, cs'[d], wire', queue', granted')
      BY <1>1, <2>1, <3>3, <3>4, HoldsKept
    <3> QED  BY <2>1, <3>4, <3>5 DEF PartsOK
  <2> QED  BY <2>2, <2>3, <2>4
<1> QED  BY <1>9, <1>10 DEF PartsInv

\* A part that is written is the next one of its message.
LEMMA PartWritten ==
  ASSUME NEW c, NEW r, r.k \in Nat, r.k > 0, r.job = "sms", NEW w \in Seq(Task), NEW v, Appended(w, TaskFor(c, r), v),
         NEW g, OutUpTo(w, r.n, r.k - 1), AcceptedBelow(w, g, r.n, r.k)
  PROVE  OutUpTo(v, r.n, r.k) /\ AcceptedBelow(v, g, r.n, r.k)
<1> DEFINE t == TaskFor(c, r)
<1>1. t.k = r.k /\ t.n = r.n /\ t.job = "sms"
  BY DEF TaskFor
<1>2. Len(w) \in Nat
  BY LenProperties
<1> HIDE DEF t
<1>3. /\ Len(v) = Len(w) + 1 /\ DOMAIN v = 1..Len(v) /\ DOMAIN w = 1..Len(w)
      /\ v[Len(v)] = t /\ \A i \in DOMAIN w : i \in DOMAIN v /\ v[i] = w[i]
  BY Zenon DEF Appended, t
<1>4. /\ \A i \in PartsIn(v, r.n) : (i \in PartsIn(w, r.n) /\ v[i] = w[i]) \/ (i = Len(v) /\ v[i] = t)
      /\ \A i \in PartsIn(w, r.n) : i \in PartsIn(v, r.n) /\ v[i] = w[i] /\ i < Len(v)
      /\ Len(v) \in PartsIn(v, r.n)
  BY <1>1, <1>2, <1>3 DEF PartsIn
<1>5. OutUpTo(v, r.n, r.k)
  <2>1. ASSUME NEW k \in 1..r.k PROVE \E i \in PartsIn(v, r.n) : v[i].k = k
    <3>1. CASE k = r.k
      BY <1>1, <1>3, <1>4, <3>1
    <3>2. CASE k # r.k
      <4>1. PICK i \in PartsIn(w, r.n) : w[i].k = k
        BY <3>2 DEF OutUpTo
      <4> QED  BY <1>4, <4>1
    <3> QED  BY <3>1, <3>2
  <2>2. \A i \in PartsIn(v, r.n) : v[i].k \in 1..r.k
    BY <1>1, <1>4 DEF OutUpTo
  <2>3. ASSUME NEW i \in PartsIn(v, r.n), NEW j \in PartsIn(v, r.n), i < j PROVE v[i].k < v[j].k
    <3>1. i \in PartsIn(w, r.n) /\ v[i] = w[i]
      <4>1. i # Len(v)
        BY <1>2, <1>3, <2>3 DEF PartsIn
      <4> QED  BY <1>4, <4>1
    <3>2. CASE j \in PartsIn(w, r.n) /\ v[j] = w[j]
      BY <2>3, <3>1, <3>2 DEF OutUpTo
    <3>3. CASE v[j] = t
      BY <1>1, <3>1, <3>3 DEF OutUpTo
    <3> QED  BY <1>4, <3>2, <3>3
  <2> QED  BY <2>1, <2>2, <2>3 DEF OutUpTo
<1>6. AcceptedBelow(v, g, r.n, r.k)
  BY SMTT(30), <1>1, <1>4 DEF AcceptedBelow
<1> QED  BY <1>5, <1>6

LEMMA ServedParts ==
  ASSUME BaseInv, OrderInv, PartsInv, Write \/ WriteFails
  PROVE  PartsInv'
<1> DEFINE t == Head(queue)
<1>1. PICK d \in {"ok", "err"} : Serves(d)
  BY Served
<1>2. /\ t = queue[1] /\ 1 \in DOMAIN queue /\ t \in Task
      /\ \A i \in DOMAIN queue' : i + 1 \in DOMAIN queue /\ queue'[i] = queue[i + 1]
  BY <1>1, HeadServed
<1>3. /\ cs' = Told(t, d) /\ writer = "run" /\ granted' = granted /\ sends' = sends
      /\ \/ d = "ok" /\ Appended(wire, t, wire')
         \/ d = "err" /\ wire' = wire
  BY <1>1 DEF Serves
<1>4. wire \in Seq(Task) /\ Len(wire) \in Nat /\ Typed
  BY LenProperties DEF BaseInv, Typed
<1> HIDE DEF t
<1>5. \/ d = "err" /\ wire' = wire
      \/ /\ d = "ok" /\ Appended(wire, t, wire')
         /\ Len(wire') = Len(wire) + 1 /\ DOMAIN wire' = 1..Len(wire') /\ DOMAIN wire = 1..Len(wire)
         /\ wire'[Len(wire')] = t /\ \A i \in DOMAIN wire : i \in DOMAIN wire' /\ wire'[i] = wire[i]
  BY <1>3, Zenon DEF Appended
<1>6. /\ \A i \in DOMAIN wire : i \in DOMAIN wire' /\ wire'[i] = wire[i]
      /\ \A i \in DOMAIN wire' : i \in DOMAIN wire \/ wire'[i] = t
  BY <1>4, <1>5
<1>7. IF cs[t.client].pc = "written" /\ cs[t.client].call = t.call /\ cs[t.client].cseq = t.cseq
        THEN Tells(t.client, d) ELSE UNCHANGED cs
  BY <1>2, <1>3, <1>4, ToldExactly
<1>8. \A n : NotInQueue(queue, queue', n)
  BY <1>2 DEF NotInQueue
<1>9. \A n : ~(t.job = "sms" /\ t.n = n) => NotOnWire(wire, wire', n)
  BY <1>6 DEF NotOnWire
<1>10. ASSUME NEW c \in Senders
       PROVE  cs'[c] = cs[c] \/ (Tells(c, d) /\ cs[c].pc = "written")
  <2>1. CASE UNCHANGED cs
    BY <2>1
  <2>2. CASE cs[t.client].pc = "written" /\ Tells(t.client, d)
    <3>1. \A e \in Clients \ {t.client} : cs'[e] = cs[e]
      BY <2>2, Zenon DEF Tells, Changed
    <3> QED  BY <2>2, <3>1, Roles
  <2> QED  BY <1>7, <2>1, <2>2
<1>11. ASSUME NEW c \in Senders
       PROVE  cs'[c].job = cs[c].job /\ cs'[c].n = cs[c].n
  <2>1. CASE Tells(c, d)
    BY <2>1, Zenon DEF Tells, DoneSet, SameRequest, SameJob
  <2> QED  BY <1>10, <2>1
<1>12. NumbersOK'
  <2>1. NumbersOK
    BY DEF PartsInv
  <2>2. \A i \in DOMAIN queue' : queue'[i].job = "sms" => queue'[i].n <= sends
    BY <1>2, <2>1 DEF NumbersOK
  <2>3. \A i \in DOMAIN wire' : wire'[i].job = "sms" => wire'[i].n <= sends
    BY <1>2, <1>6, <2>1 DEF NumbersOK
  <2> QED  BY <1>3, <1>11, <2>1, <2>2, <2>3 DEF NumbersOK
<1>13. ASSUME NEW c \in Senders PROVE PartsOK(c)'
  <2>1. PartsHold(c, cs[c], wire, queue, granted) /\ TextHolds(cs[c]) /\ c \in Clients \ {Refresher} /\ ClientOK(c)
        /\ cs[c] \in Client
    BY Roles DEF PartsInv, PartsOK, BaseInv, Typed
  <2>2. ASSUME cs'[c] = cs[c], ~(t.job = "sms" /\ t.n = cs[c].n)
        PROVE  PartsOK(c)'
    <3>1. SameParts(cs[c], cs'[c])
      BY <2>2 DEF SameParts
    <3>2. PartsHold(c, cs'[c], wire', queue', granted')
      BY <1>3, <1>8, <1>9, <2>1, <2>2, <3>1, HoldsKept
    <3> QED  BY <2>1, <2>2, <3>2 DEF PartsOK
  <2>3. CASE cs[c].pc = "idle" /\ cs[c].outcome # "accepted"
    <3>1. cs'[c] = cs[c]
      BY <1>10, <2>3
    <3>2. PartsHold(c, cs'[c], wire', queue', granted')
      BY <2>3, <3>1, RestsParts
    <3> QED  BY <2>1, <3>1, <3>2 DEF PartsOK
  <2>4. CASE cs[c].pc = "lock" \/ cs[c].outcome = "accepted"
    <3>1. cs[c].pc # "written"
      BY <2>1, <2>4 DEF ClientOK
    <3>2. cs'[c] = cs[c]
      BY <1>10, <3>1
    <3>3. NoneQueued(queue, cs[c].n)
      BY <2>1, <2>4 DEF PartsHold
    <3> QED  BY <1>2, <2>2, <3>2, <3>3 DEF NoneQueued
  <2>5. CASE cs[c].pc \in Active /\ queue[1] = TaskOf(c) /\ Pending(c)
    <3>1. Tells(c, d) /\ cs[c].job = "sms" /\ cs[c].k > 0 /\ cs[c].k \in Nat
      BY <1>1, <2>1, <2>5, ServedSender, CallsGiven, BusySender DEF Client, Active
    <3>2. /\ cs'[c].pc = cs[c].pc /\ cs'[c].done = d /\ cs'[c].job = cs[c].job /\ cs'[c].n = cs[c].n
          /\ cs'[c].k = cs[c].k /\ cs'[c].outcome = cs[c].outcome
          /\ cs'[c].text = cs[c].text /\ cs'[c].total = cs[c].total
      BY <3>1, Zenon DEF Tells, DoneSet, SameRequest, SameJob
    <3>3. cs[c].pc = "written" /\ cs[c].done = "none" /\ cs[c].outcome # "accepted"
      BY <2>1, <2>5 DEF Pending, ClientOK
    <3>4. TextHolds(cs'[c])
      BY <2>1, <3>2 DEF TextHolds
    <3>5. CASE d = "err"
      <4>1. PartsHold(c, cs'[c], wire', queue', granted')
        BY <3>2, <3>3, <3>5 DEF PartsHold
      <4> QED  BY <3>4, <4>1 DEF PartsOK
    <3>6. CASE d = "ok"
      <4>1. OutUpTo(wire, cs[c].n, cs[c].k - 1) /\ AcceptedBelow(wire, granted, cs[c].n, cs[c].k)
        BY <2>1, <3>3 DEF PartsHold
      <4>2. t = TaskFor(c, cs[c])
        BY <1>2, <2>5 DEF TaskOf, TaskFor
      <4>3. Appended(wire, TaskFor(c, cs[c]), wire')
        BY <1>3, <3>6, <4>2
      <4>4. OutUpTo(wire', cs[c].n, cs[c].k) /\ AcceptedBelow(wire', granted, cs[c].n, cs[c].k)
        BY <1>4, <3>1, <4>1, <4>3, PartWritten
      <4>5. PartsHold(c, cs'[c], wire', queue', granted')
        BY <1>3, <3>2, <3>3, <3>6, <4>4 DEF PartsHold
      <4> QED  BY <3>4, <4>5 DEF PartsOK
    <3> QED  BY <3>5, <3>6
  <2>6. CASE cs[c].pc \in Active /\ ~(queue[1] = TaskOf(c) /\ Pending(c))
    <3>1. cs'[c] = cs[c]
      BY <1>1, <2>1, <2>6, ServedSender
    <3>2. SenderOrder(c)
      BY <2>1 DEF OrderInv
    <3>3. CASE cs[c].pc = "queue"
      BY <1>2, <2>1, <2>2, <3>1, <3>3 DEF PartsHold, NoneQueued
    <3>4. CASE Pending(c)
      <4>1. \A i \in DOMAIN queue : queue[i].job = "sms" /\ queue[i].n = cs[c].n => queue[i] = TaskFor(c, cs[c])
        BY <2>1, <3>4 DEF PartsHold, Pending
      <4>2. TaskFor(c, cs[c]) = TaskOf(c)
        BY DEF TaskFor, TaskOf
      <4> QED  BY <1>2, <2>2, <2>6, <3>1, <3>4, <4>1, <4>2
    <3>5. CASE Out(c)
      BY <1>2, <2>2, <3>1, <3>2, <3>5 DEF SenderOrder, NoMessages, IsMessage
    <3>6. cs[c].pc = "queue" \/ Pending(c) \/ Out(c)
      BY <1>3, <2>1, <2>6, <3>2 DEF SenderOrder, Client, Active, Pending, Out
    <3> QED  BY <3>3, <3>4, <3>5, <3>6
  <2>7. cs[c].pc \in Active \/ cs[c].pc \in {"idle", "lock"}
    BY <2>1 DEF Client, Active
  <2> QED  BY <2>3, <2>4, <2>5, <2>6, <2>7
<1> QED  BY <1>12, <1>13 DEF PartsInv

\* Every step keeps PartsInv.
LEMMA PartsNext == BaseInv /\ ArchiveInv /\ OrderInv /\ PartsInv /\ [Next]_vars => PartsInv'
<1> SUFFICES ASSUME BaseInv, ArchiveInv, OrderInv, PartsInv, [Next]_vars PROVE PartsInv'
  OBVIOUS
<1>1. CASE Refresh \/ TakeRefresh
  <2>1. RefreshStep
    BY <1>1, RefreshBase
  <2>2. UNCHANGED <<queue, wire, granted, sends>>
    BY <1>1 DEF Refresh, TakeRefresh, runtimeVars, sharedVars
  <2>3. Changed(Refresher, cs'[Refresher])
    BY <2>1, Zenon DEF RefreshStep, RoundStarts, Returns, Reads
  <2>4. Refresher \in Clients /\ Refresher \notin Senders
    BY ClientsAssumption DEF Clients
  <2> QED  BY <2>2, <2>3, <2>4, OneHolds
<1>2. ASSUME NEW h \in Handlers, ReadMessage(h) \/ Store(h) PROVE PartsInv'
  <2>1. Acknowledging(h) /\ UNCHANGED <<queue, wire, granted, sends>> /\ sends \in Nat
    BY <1>2, ReaderEffect DEF BaseInv, Typed
  <2>2. CASE UNCHANGED cs
    BY <2>1, <2>2, PartsStay DEF SameParts
  <2>3. CASE \E a \in Ackers, m \in scenario.mt : Claims(a, "ack", m.id, <<>>, 1)
    <3>1. PICK a \in Ackers, m \in scenario.mt : Claims(a, "ack", m.id, <<>>, 1)
      BY <2>3
    <3>2. Changed(a, cs'[a])
      BY <3>1, Zenon DEF Claims
    <3>3. a \in Clients /\ a \notin Senders
      BY ClientsAssumption DEF Clients
    <3> QED  BY <2>1, <3>2, <3>3, OneHolds
  <2> QED  BY <2>1, <2>2, <2>3, Zenon DEF Acknowledging
<1>3. CASE ReadResponse
  <2>1. granted \subseteq granted' /\ \A c \in Clients : Heard(c)
    BY <1>3, AnswerBase
  <2>2. UNCHANGED <<queue, wire, sends>> /\ sends \in Nat
    BY <1>3 DEF ReadResponse, runtimeVars, sharedVars, BaseInv, Typed
  <2>3. ASSUME NEW c \in Senders PROVE SameParts(cs[c], cs'[c])
    <3>1. CASE cs'[c] = cs[c]
      BY <3>1 DEF SameParts
    <3>2. CASE SameRequest(cs[c], cs'[c]) /\ cs'[c].pc = cs[c].pc /\ cs'[c].done = cs[c].done
      BY <3>2, Zenon DEF SameRequest, SameJob, SameParts
    <3> QED  BY <2>1, <3>1, <3>2, Roles, Zenon DEF Heard
  <2> QED  BY <2>1, <2>2, <2>3, PartsStay
<1>4. CASE Aside \/ UNCHANGED vars
  <2>1. Elsewhere
    BY <1>4, AsideElsewhere
  <2>2. /\ cs' = cs /\ queue' = queue /\ wire' = wire /\ granted' = granted /\ sends' = sends
        /\ sends \in Nat
    BY <2>1 DEF Elsewhere, BaseInv, Typed
  <2> QED  BY <2>2, PartsStay DEF SameParts
<1> QED
  BY <1>1, <1>2, <1>3, <1>4, SendParts, FirstParts, QueuedParts, EndParts, TakeParts, ServedParts
     DEF Next, ClientStep, Writer, Handling, Aside

\* The decoder puts together again every text that is sent.
CodecReads == \A text \in AllTexts : BodiesOf[text] # NoParts => Readable(text)

\* A message that is reported as accepted has all its parts out and accepted.
LEMMA TextFollows ==
  ASSUME CodecReads
  PROVE  PartsInv => TextArrives
<1> SUFFICES ASSUME PartsInv, NEW c \in Senders, cs[c].outcome = "accepted"
             PROVE  /\ cs[c].total = Len(BodiesOf[cs[c].text])
                    /\ WentOut(cs[c].n, cs[c].total) /\ Readable(cs[c].text)
  BY DEF TextArrives
<1>1. TextHolds(cs[c]) /\ PartsHold(c, cs[c], wire, queue, granted)
  BY DEF PartsInv, PartsOK
<1>2. cs[c].text \in AllTexts /\ BodiesOf[cs[c].text] # NoParts /\ cs[c].total = Len(BodiesOf[cs[c].text])
  BY <1>1 DEF TextHolds
<1>3. cs[c].total \in Nat /\ OutUpTo(wire, cs[c].n, cs[c].total) /\ AcceptedBelow(wire, granted, cs[c].n, cs[c].total + 1)
  BY <1>1 DEF PartsHold
<1>4. PartsIn(wire, cs[c].n) = Parts(cs[c].n)
  BY DEF PartsIn, Parts
<1>5. \A i \in Parts(cs[c].n) : wire[i].k < cs[c].total + 1
  BY <1>3, <1>4 DEF OutUpTo
<1>6. WentOut(cs[c].n, cs[c].total)
  BY <1>3, <1>4, <1>5 DEF WentOut, OutUpTo, AcceptedBelow, Accepted
<1> QED  BY <1>2, <1>6 DEF CodecReads

LEMMA MessagingTyped == BaseInv => TypeOK
<1> SUFFICES ASSUME BaseInv PROVE TypeOK
  OBVIOUS
<1>1. ASSUME NEW c \in Clients
      PROVE  /\ cs[c].pc \in {"idle", "lock", "queue", "written", "wait"}
             /\ cs[c].sub => cs[c].cseq \in 1..MaxCSeq /\ Len(cs[c].buf) <= BufferSize
  <2>1. cs[c] \in Client /\ ClientOK(c) /\ service.cseq \in 1..MaxCSeq /\ ids \in Nat
    BY DEF BaseInv, Typed
  <2>2. CASE cs[c].sub /\ c # Refresher
    <3>1. cs[c].cseq = MessageCSeq(ids) /\ ids > 0
      BY <2>1, <2>2 DEF ClientOK, Active
    <3>2. MessageCSeq(ids) \in 1..MaxCSeq
      BY <2>1, <3>1, MessageCSeqLegal
    <3> QED  BY <2>1, <3>1, <3>2 DEF Client, ClientOK
  <2>3. CASE cs[c].sub /\ c = Refresher
    BY <2>1, <2>3 DEF Client, ClientOK, Active
  <2>4. CASE ~cs[c].sub
    BY <2>1, <2>4 DEF Client
  <2> QED  BY <2>2, <2>3, <2>4
<1>2. messageMu \in Clients \cup {None} /\ Len(queue) <= QueueCap /\ service.cseq \in 1..MaxCSeq
      /\ service.expires \in Nat \ {0}
  BY DEF BaseInv, Typed
<1> QED  BY <1>1, <1>2 DEF TypeOK

\* A text that SendSMS reports as sent is in the network's hands whole: each of its parts was
\* written once, in order and answered with a 2xx of its own, whichever goroutines share the
\* write queue; the parts of one message are never mixed with another's, and the CSeq and
\* buffer limits hold. CodecReads covers what the encoder makes of a text.
THEOREM SendSafety ==
  ASSUME CodecReads
  PROVE  Spec => []SMSSentWhole
<1>1. BaseInv /\ OrderInv /\ PartsInv => SMSSentWhole
  BY MessagingTyped, TextFollows DEF SMSSentWhole, OrderInv
<1> QED  BY <1>1, PartsInit, PartsNext, BaseInvariant, ArchiveInvariant, OrderInvariant, PTL DEF Spec
=============================================================================
