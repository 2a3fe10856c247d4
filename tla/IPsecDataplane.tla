-------------------------- MODULE IPsecDataplane --------------------------
(***************************************************************************)
(* The ipsec-3gpp packet transform between the userspace network stack and *)
(* the SWu tunnel (TransformingDataplane): concurrent senders, one receive *)
(* pump, and a registration that installs, replaces and clears the         *)
(* Transport under them.                                                   *)
(*                                                                         *)
(* A packet is [frag, nested, d, len, proto, src, dst, sport, dport, spi,  *)
(* seq, key, intact, inner]: d names the datagram, len its payload in      *)
(* blocks; an ESP packet carries the ports and the protocol (inner) of     *)
(* what it protects, the generation of the keys it was made with, and      *)
(* whether its check value is intact.  The network loses, repeats,         *)
(* reorders and damages packets: any packet of In may arrive at any time.  *)
(***************************************************************************)
EXTENDS ReplayWindow, FragmentReassembly

CONSTANTS Senders,      \* goroutines of the stack that send
          Scenarios,    \* bounds: [out, in: packets considered; send, arrive: how many of each;
                        \*         inputs: PolicyInputs a registration comes with; installs]
          MaxSeq,       \* largest ESP sequence number; the code's 2^32 - 1
          Mtu,          \* blocks of payload a packet of the link carries
          QueueSize     \* capacity of the inbound channel; the code's 512

ASSUME DataplaneAssumption ==
  MaxSeq \in Nat \ {0} /\ Mtu \in Nat /\ Mtu > 1 /\ QueueSize \in Nat \ {0}

VARIABLES
  scenario,
  transport,   \* d.transport: the generation installed, 0 for nil
  tr,          \* the transports: [pol, seq, win, outF, inF] by generation
  snd,         \* the senders: [pc, p, gen, out, k]
  pump,        \* receiveLoop: [pc, p, gen]
  queue,       \* d.inbound: [p, gen]
  closed, closer,
  sent, arrived, fragID,
  wire,        \* history: what went to the tunnel, [p, gen]
  assigned,    \* history: outbound sequence numbers given, and how many times
  accepted,    \* history: inbound numbers accepted, and how many times
  last,        \* history: the last inbound packet looked at, [st, p, gen]
  joined       \* history: the blocks of the last reassembled packet

outVars == <<snd, sent, fragID, wire, assigned>>
inVars  == <<pump, queue, arrived, accepted, last>>
vars == <<scenario, transport, tr, outVars, inVars, closed, closer, joined>>

-----------------------------------------------------------------------------
(* NewPolicy and NewTransport *)

\* fillPorts
fillPorts(in) ==
  LET Or(a, b) == IF a = 0 THEN b ELSE a
      localC == Or(in.localPortC, 5060)  remoteC == Or(in.portC, 5060)
  IN  [localC |-> localC, localS |-> Or(in.localPortS, localC),
       remoteC |-> remoteC, remoteS |-> Or(in.portS, remoteC)]

\* The errors of NewPolicy and NewTransport.
PolicyOK(in) ==
  /\ in.keys /\ in.algs /\ in.sameFamily
  /\ \A spi \in {in.spiC, in.spiS, in.localSPIC, in.localSPIS} : spi # 0

\* The UE's client port speaks to the server port of the P-CSCF, and the other way round.
NewPolicy(in) ==
  LET ports == fillPorts(in)
  IN  [c |-> [out |-> in.spiS, in |-> in.localSPIC, local |-> ports.localC, remote |-> ports.remoteS],
       s |-> [out |-> in.spiC, in |-> in.localSPIS, local |-> ports.localS, remote |-> ports.remoteC]]

Flows == {"c", "s"}
OverIP(p) == p.proto \in {"tcp", "udp"}

NewTransport(in) ==
  [pol |-> NewPolicy(in), seq |-> [f \in Flows |-> 0],
   win |-> [f \in Flows |-> NewReplayWindow], outF |-> <<>>, inF |-> <<>>]

-----------------------------------------------------------------------------
(* Transforms *)

\* Ports are in the first block of the payload.
SourcePort(p) == IF p.frag.off > 0 THEN 0 ELSE p.sport
DestinationPort(p) == IF p.frag.off > 0 THEN 0 ELSE p.dport

\* The flow of p, "" for none.
matchOutbound(pol, p) ==
  LET Fits(f) == /\ OverIP(p) /\ p.src = "ue" /\ p.dst = "peer"
                 /\ SourcePort(p) = pol[f].local /\ DestinationPort(p) = pol[f].remote
  IN  IF Fits("c") THEN "c" ELSE IF Fits("s") THEN "s" ELSE ""

ProtectedPort(pol, port) == \E f \in Flows : pol[f].local = port

\* Faulty variant: only the port of the first flow is looked at.
StrayFirst(pol, p) == OverIP(p) /\ p.src = "ue" /\ pol["c"].local = SourcePort(p)

\* A protected source that matches no flow: another peer, or another port of it.
Stray(pol, p) == OverIP(p) /\ p.src = "ue" /\ ProtectedPort(pol, SourcePort(p))

\* encapsulateTransport and replaceIPPayload.
Encapsulated(p, f, t, g, n) ==
  [p EXCEPT !.proto = "esp", !.inner = p.proto, !.len = @ + 1,
            !.spi = t.pol[f].out, !.seq = n, !.key = g, !.intact = TRUE]

\* The counter is 64 bits wide: past the last number it counts on and every use fails.
NextSequenceNumber(n) == [next |-> n + 1, ok |-> n + 1 <= MaxSeq]

TransformOutbound(t, g, p) ==
  LET r == process(t.outF, p)
      q == r.packet
      f == IF r.st = "packet" THEN matchOutbound(t.pol, q) ELSE ""
      n == IF f = "" THEN [next |-> 0, ok |-> TRUE] ELSE NextSequenceNumber(t.seq[f])
  IN  [st |-> IF r.st # "packet" THEN r.st
              ELSE IF q.proto = "bad" \/ (f = "" /\ Stray(t.pol, q)) \/ ~n.ok THEN "error" ELSE "packet",
       t  |-> [t EXCEPT !.outF = r.sets, !.seq = IF f = "" THEN @ ELSE [@ EXCEPT ![f] = n.next]],
       p  |-> IF f = "" THEN q ELSE Encapsulated(q, f, t, g, n.next),
       flow |-> f, n |-> n.next, blocks |-> r.blocks]

\* The flow an SPI was given to, "" for none; the map keeps the later of two equal ones.
InboundFlow(pol, spi) ==
  IF pol["s"].in = spi THEN "s" ELSE IF pol["c"].in = spi THEN "c" ELSE ""

\* Whether decapsulateTransport succeeds: only keys of generation g verify, and only what
\* arrived as it was sent.
Authentic(q, g, blocks) ==
  q.intact /\ q.key = g /\ \A b \in DOMAIN blocks : blocks[b].d = q.d

\* The selector of the flow.
Selected(q, flow) ==
  /\ q.inner \in {"tcp", "udp"} /\ q.src = "peer" /\ q.dst = "ue"
  /\ q.sport = flow.remote /\ q.dport = flow.local

\* Faulty variant: the number is marked before the packet is verified.
VerdictEager(t, g, q, blocks) ==
  LET f == InboundFlow(t.pol, q.spi)
  IN  IF f = "" \/ ~Check(t.win[f], q.seq) THEN [ok |-> FALSE, win |-> t.win]
      ELSE [ok  |-> Authentic(q, g, blocks) /\ Selected(q, t.pol[f]),
            win |-> [t.win EXCEPT ![f] = Take(@, q.seq)]]

\* An ESP packet: known SPI, window, check value, selector, and only then the mark.
Verdict(t, g, q, blocks) ==
  LET f == InboundFlow(t.pol, q.spi)
  IN  IF \/ f = ""
         \/ ~Check(t.win[f], q.seq)
         \/ ~Authentic(q, g, blocks)
         \/ ~Selected(q, t.pol[f])
        THEN [ok |-> FALSE, win |-> t.win]
        ELSE LET a == Accept(t.win[f], q.seq)
             IN  [ok |-> a.ok, win |-> [t.win EXCEPT ![f] = a.window]]

\* Decapsulated: as the stack will see it.
TransformInbound(t, g, p) ==
  LET r == process(t.inF, p)
      q == r.packet
      v == IF r.st = "packet" /\ q.proto = "esp" THEN Verdict(t, g, q, r.blocks)
           ELSE [ok  |-> ~(q.proto = "bad" \/ (OverIP(q) /\ q.dst = "ue" /\ ProtectedPort(t.pol, DestinationPort(q)))),
                 win |-> t.win]
  IN  [st |-> IF r.st # "packet" THEN r.st ELSE IF v.ok THEN "packet" ELSE "error",
       t  |-> [t EXCEPT !.inF = r.sets, !.win = v.win],
       p  |-> q, blocks |-> r.blocks]

-----------------------------------------------------------------------------
(* Senders: SendInnerPacket *)

Nothing == [frag |-> NoFragment, nested |-> FALSE, d |-> 0, len |-> 0, proto |-> "bad",
            src |-> "", dst |-> "", sport |-> 0, dport |-> 0, spi |-> 0, seq |-> 0,
            key |-> 0, intact |-> FALSE, inner |-> ""]
Idle == [pc |-> "idle", p |-> Nothing, gen |-> 0, out |-> <<>>, k |-> 0]

\* The packets considered: what the stack and the network can hand over.
PacketRecord ==
  [frag : [id : Nat, off : Nat, len : Nat, more : BOOLEAN, meta : Nat, ragged : BOOLEAN],
   nested : BOOLEAN, d : Nat, len : Nat, proto : STRING, src : STRING, dst : STRING,
   sport : Nat, dport : Nat, spi : Nat, seq : 0..MaxSeq, key : Nat, intact : BOOLEAN, inner : STRING]

ASSUME ScenarioAssumption ==
  \A sc \in Scenarios : sc.out \subseteq PacketRecord /\ sc.in \subseteq PacketRecord /\ sc.installs \in Nat

\* A fragment that process keeps until its datagram is complete.
Kept(p) == p.frag # NoFragment /\ ~BadBounds(p.frag) /\ ~AtomicFragment(p.frag)

\* What IP asks of those who cut datagrams: fragments with the same key are of the same
\* datagram, and the last one ends where it does.
CutByTheRules(S) ==
  \A p \in S :
    /\ p.frag # NoFragment /\ ~BadBounds(p.frag) /\ ~p.frag.more => EndOf(p.frag) = p.len
    /\ \A q \in S : Kept(p) /\ Kept(q) /\ p.frag.id = q.frag.id => p.d = q.d /\ p.len = q.len

FragmentsCutByTheRules ==
  \A sc \in Scenarios : CutByTheRules(sc.out) /\ CutByTheRules(sc.in)

Init ==
  /\ scenario \in Scenarios
  /\ transport = 0 /\ tr = <<>>
  /\ snd = [s \in Senders |-> Idle]
  /\ pump = [pc |-> "wait", p |-> Nothing, gen |-> 0] /\ queue = <<>>
  /\ closed = FALSE /\ closer = "none"
  /\ sent = 0 /\ arrived = 0 /\ fragID = 0
  /\ wire = {} /\ assigned = [set |-> {}, n |-> 0] /\ accepted = [set |-> {}, n |-> 0]
  /\ last = [st |-> "none", p |-> Nothing, gen |-> 0] /\ joined = <<>>

Counted(history, x) == [set |-> history.set \cup {x}, n |-> history.n + 1]

\* A sender is called with a packet, and loads the transport; a closed dataplane refuses.
SendLoads(s) ==
  /\ snd[s].pc = "idle" /\ ~closed /\ sent < scenario.send
  /\ \E p \in scenario.out :
       snd' = [snd EXCEPT ![s] = [pc |-> "transform", p |-> p, gen |-> transport, out |-> <<>>, k |-> 1]]
  /\ sent' = sent + 1
  /\ UNCHANGED <<scenario, transport, tr, inVars, closed, closer, fragID, wire, assigned, joined>>

\* The packets to hand to the tunnel: an ESP packet made from UDP is cut to the MTU.
Packets(p, q) ==
  IF p.proto = "udp" /\ q.proto = "esp" /\ q.len > Mtu
    THEN LET fs == Fragments(fragID + 1, q.len, IF Family = 6 THEN Mtu - 1 ELSE Mtu)
         IN  [i \in DOMAIN fs |-> Piece(q, fs[i])]
    ELSE <<q>>

\* No transport: the packet goes as it is.
SendBare(s) ==
  /\ snd[s].pc = "transform" /\ snd[s].gen = 0
  /\ snd' = [snd EXCEPT ![s].pc = "send", ![s].out = <<snd[s].p>>]
  /\ UNCHANGED <<scenario, transport, tr, inVars, closed, closer, sent, fragID, wire, assigned, joined>>

SendTransforms(s) ==
  /\ snd[s].pc = "transform" /\ snd[s].gen # 0
  /\ LET g == snd[s].gen
         r == TransformOutbound(tr[g], g, snd[s].p)
         ps == Packets(snd[s].p, r.p)
     IN  /\ tr' = [tr EXCEPT ![g] = r.t]
         /\ joined' = r.blocks
         /\ assigned' = IF r.st = "packet" /\ r.flow # ""
                          THEN Counted(assigned, <<g, r.flow, r.n>>) ELSE assigned
         /\ IF r.st = "packet"
              THEN /\ snd' = [snd EXCEPT ![s].pc = "send", ![s].out = ps]
                   /\ fragID' = IF Len(ps) > 1 THEN fragID + 1 ELSE fragID
              ELSE snd' = [snd EXCEPT ![s] = Idle] /\ UNCHANGED fragID
  /\ UNCHANGED <<scenario, transport, inVars, closed, closer, sent, wire>>

\* source.SendInnerPacket takes the next packet.
SendHands(s) ==
  /\ snd[s].pc = "send"
  /\ LET x == snd[s]
     IN  /\ wire' = wire \cup {[p |-> x.out[x.k], gen |-> x.gen]}
         /\ snd' = [snd EXCEPT ![s] = IF x.k < Len(x.out) THEN [x EXCEPT !.k = x.k + 1] ELSE Idle]
  /\ UNCHANGED <<scenario, transport, tr, inVars, closed, closer, sent, fragID, assigned, joined>>

\* It fails: the pieces behind it are not sent.
SendFails(s) ==
  /\ snd[s].pc = "send"
  /\ snd' = [snd EXCEPT ![s] = Idle]
  /\ UNCHANGED <<scenario, transport, tr, inVars, closed, closer, sent, fragID, wire, assigned, joined>>

-----------------------------------------------------------------------------
(* The receive pump: receiveLoop *)

PumpReceives ==
  /\ pump.pc = "wait" /\ arrived < scenario.arrive
  /\ arrived' = arrived + 1
  /\ \E p \in scenario.in :
       LET g == transport
           r == IF g = 0 THEN [st |-> "packet", t |-> <<>>, p |-> p, blocks |-> <<>>]
                ELSE TransformInbound(tr[g], g, p)
       IN  /\ tr' = IF g = 0 THEN tr ELSE [tr EXCEPT ![g] = r.t]
           /\ joined' = r.blocks /\ last' = [st |-> r.st, p |-> r.p, gen |-> g]
           /\ accepted' = IF g # 0 /\ r.st = "packet" /\ r.p.proto = "esp"
                            THEN Counted(accepted, <<g, r.p.spi, r.p.seq>>) ELSE accepted
           /\ pump' = IF r.st = "packet" THEN [pc |-> "deliver", p |-> r.p, gen |-> g] ELSE pump
  /\ UNCHANGED <<scenario, transport, outVars, queue, closed, closer>>

PumpDelivers ==
  /\ pump.pc = "deliver" /\ Len(queue) < QueueSize
  /\ queue' = Append(queue, [p |-> pump.p, gen |-> pump.gen])
  /\ pump' = [pump EXCEPT !.pc = "wait"]
  /\ UNCHANGED <<scenario, transport, tr, outVars, arrived, accepted, last, closed, closer, joined>>

\* Faulty variant: the pump does not look at closed while it delivers.
PumpStopsWaiting ==
  /\ pump.pc = "wait" /\ closed
  /\ pump' = [pump EXCEPT !.pc = "done"]
  /\ UNCHANGED <<scenario, transport, tr, outVars, queue, arrived, accepted, last, closed, closer, joined>>

PumpStops ==
  /\ pump.pc \in {"wait", "deliver"} /\ closed
  /\ pump' = [pump EXCEPT !.pc = "done"]
  /\ UNCHANGED <<scenario, transport, tr, outVars, queue, arrived, accepted, last, closed, closer, joined>>

\* The tunnel's channel is closed.
SourceEnds ==
  /\ pump.pc = "wait"
  /\ pump' = [pump EXCEPT !.pc = "done"]
  /\ UNCHANGED <<scenario, transport, tr, outVars, queue, arrived, accepted, last, closed, closer, joined>>

StackReads ==
  /\ queue # <<>> /\ queue' = Tail(queue)
  /\ UNCHANGED <<scenario, transport, tr, outVars, pump, arrived, accepted, last, closed, closer, joined>>

-----------------------------------------------------------------------------
(* The registration, the clock and Close *)

\* Install(NewTransport(NewPolicy(in))).
Install ==
  /\ ~closed /\ Len(tr) < scenario.installs
  /\ \E in \in scenario.inputs : PolicyOK(in) /\ tr' = Append(tr, NewTransport(in))
  /\ transport' = Len(tr) + 1
  /\ UNCHANGED <<scenario, outVars, inVars, closed, closer, joined>>

Clear ==
  /\ transport # 0 /\ transport' = 0
  /\ UNCHANGED <<scenario, tr, outVars, inVars, closed, closer, joined>>

\* More than 30 seconds pass for the fragments that wait.
TimePasses ==
  /\ tr' = [g \in DOMAIN tr |-> [tr[g] EXCEPT !.outF = Aged(@), !.inF = Aged(@)]]
  /\ tr' # tr
  /\ UNCHANGED <<scenario, transport, outVars, inVars, closed, closer, joined>>

CloseCalled ==
  /\ closer = "none" /\ closer' = "waiting" /\ closed' = TRUE
  /\ UNCHANGED <<scenario, transport, tr, outVars, inVars, joined>>

CloseReturns ==
  /\ closer = "waiting" /\ pump.pc = "done" /\ closer' = "returned"
  /\ UNCHANGED <<scenario, transport, tr, outVars, inVars, closed, joined>>

Next ==
  \/ \E s \in Senders : SendLoads(s) \/ SendBare(s) \/ SendTransforms(s) \/ SendHands(s) \/ SendFails(s)
  \/ PumpReceives \/ PumpDelivers \/ PumpStops \/ SourceEnds \/ StackReads
  \/ Install \/ Clear \/ TimePasses \/ CloseCalled \/ CloseReturns

Spec == Init /\ [][Next]_vars

\* Go chooses fairly among the ready cases of a select; nothing else is assumed.
LiveSpec == Spec /\ WF_vars(PumpStops) /\ WF_vars(CloseReturns)

-----------------------------------------------------------------------------
(* Properties *)

PumpStates == {"wait", "deliver", "done"}

TypeOK ==
  /\ transport \in 0..Len(tr) /\ Len(tr) <= scenario.installs
  /\ \A g \in DOMAIN tr :
       /\ \A f \in Flows : tr[g].seq[f] \in Nat /\ tr[g].win[f] \in Windows(MaxSeq)
       /\ Cardinality(DOMAIN tr[g].outF) <= MaxSets /\ Cardinality(DOMAIN tr[g].inF) <= MaxSets
  /\ \A s \in Senders : snd[s].pc \in {"idle", "transform", "send"} /\ snd[s].gen \in 0..Len(tr)
  /\ pump.pc \in PumpStates /\ Len(queue) <= QueueSize

\* An ESP sequence number is used once per association, whoever sends, also when the
\* counter passes its end: a repeated one would be dropped by the peer as a replay.
SequenceNumbersOnce == Cardinality(assigned.set) = assigned.n /\ \A x \in assigned.set : x[3] \in 1..MaxSeq

\* Nothing of a datagram of a protected port leaves in clear text through a transport:
\* no fragment of it, and nothing for another peer ("Encrypting a first fragment and
\* passing later fragments through would leak SIP plaintext").
ProtectedNeverClear ==
  \A w \in wire :
    w.gen # 0 /\ OverIP(w.p) /\ w.p.src = "ue" => ~ProtectedPort(tr[w.gen].pol, w.p.sport)

\* The peer's reassembler gets the protected packet back from its pieces, in whatever
\* order they arrive, and nothing before the last of them.
PiecesRejoin ==
  \A s \in Senders :
    LET out == snd[s].out IN
    snd[s].pc = "send" /\ snd[s].k = 1 /\ Len(out) > 1 =>
      \A order \in {o \in [DOMAIN out -> DOMAIN out] : IsInjective(o)} :
        LET Step(acc, i) == IF acc.st = "held" THEN process(acc.sets, out[order[i]])
                                               ELSE [acc EXCEPT !.st = "early"]
            end == FoldLeftDomain(Step, Outcome("held", <<>>, Nothing, <<>>), out)
        IN  end.st = "packet" /\ end.packet = Whole(out[1]) /\ DOMAIN end.blocks = 0..(end.packet.len - 1)

\* A reassembled packet has every block of its datagram and no other, although
\* fragments are repeated, cut differently on another path, or outlive their datagram.
ReassembledWhole ==
  joined # <<>> =>
    /\ DOMAIN joined = 0..(joined[0].len - 1)
    /\ \A b \in DOMAIN joined : joined[b].d = joined[0].d

\* A sequence number is accepted once per association, however often and in whatever
\* order the network delivers its packet.
NoReplay == Cardinality(accepted.set) = accepted.n

\* Only verified packets that fit their flow reach a protected port while a transport
\* is installed.
OnlyVerifiedDelivered ==
  \A i \in DOMAIN queue :
    LET q == queue[i].p  g == queue[i].gen IN
    g # 0 /\ q.dst = "ue" /\ ProtectedPort(tr[g].pol, q.dport) /\ (OverIP(q) \/ q.proto = "esp") =>
      /\ q.proto = "esp" /\ q.intact /\ q.key = g /\ q.src = "peer"
      /\ \E f \in Flows : q.spi = tr[g].pol[f].in /\ q.sport = tr[g].pol[f].remote /\ q.dport = tr[g].pol[f].local

\* What the peer made for the transport of generation g.
Genuine(q, g, blocks) ==
  /\ q.frag = NoFragment /\ ~Malformed(q) /\ q.proto = "esp" /\ q.seq # 0
  /\ \E f \in Flows : q.spi = tr[g].pol[f].in /\ Authentic(q, g, blocks) /\ Selected(q, tr[g].pol[f])

\* A genuine packet that was not accepted before and lies within the window is taken,
\* whatever damaged or misdirected packets carried numbers before it: "check the window
\* without marking, update only once the ICV is verified".
GenuineStep ==
  LET q == last'.p  g == last'.gen  x == <<g, q.spi, q.seq>>
  IN  /\ arrived' # arrived /\ g # 0 /\ last'.st # "held" /\ Genuine(q, g, joined')
      /\ x \notin accepted.set
      /\ \A y \in accepted.set : y[1] = g /\ y[2] = q.spi => y[3] - q.seq < WindowSize
      => x \in accepted'.set

GenuineIsTaken == [][GenuineStep]_vars

\* Close returns, also while the stack does not read and the queue is full.
CloseTerminates == (closer = "waiting") ~> (closer = "returned")

\* What leaves: protected ports only under ESP, each packet under a number of its own.
SendsProtected == SequenceNumbersOnce /\ ProtectedNeverClear

\* Fragmentation and reassembly invert one another within the limits kept for them.
FragmentsWhole == TypeOK /\ PiecesRejoin /\ ReassembledWhole

\* What is taken: every genuine packet, once, and nothing else on a protected port.
ReceivesOnce == [](NoReplay /\ OnlyVerifiedDelivered) /\ GenuineIsTaken

=============================================================================
