------------------------- MODULE MCIPsecDataplane -------------------------
(* IPsecDataplane for TLC: a few packets in each direction. *)
EXTENDS IPsecDataplane

\* The P-CSCF gave both of its ports, or neither; and no keys.
Given == [spiC |-> 11, spiS |-> 12, localSPIC |-> 21, localSPIS |-> 22,
          portC |-> 1, portS |-> 2, localPortC |-> 3, localPortS |-> 4,
          keys |-> TRUE, algs |-> TRUE, sameFamily |-> TRUE]
NotGiven == {[Given EXCEPT !.portC = 0, !.portS = 0], [Given EXCEPT !.keys = FALSE]}

Datagram(d, len, proto, src, dst, sport, dport) ==
  [Nothing EXCEPT !.d = d, !.len = len, !.proto = proto, !.inner = proto, !.src = src, !.dst = dst,
                  !.sport = sport, !.dport = dport, !.intact = TRUE]

Frag(id, off, len, more) == [NoFragment EXCEPT !.id = id, !.off = off, !.len = len, !.more = more]

OnC   == Datagram(1, 1, "tcp", "ue", "peer", 3, 2)
OnS   == Datagram(2, 2, "udp", "ue", "peer", 4, 1)
ToOther == Datagram(3, 1, "udp", "ue", "other", 4, 1)
Media == Datagram(4, 1, "udp", "ue", "peer", 9, 9)

\* What the peer sends with the keys of generation g.
Esp(d, len, g, spi, seq, sport, dport) ==
  [Datagram(d, len, "esp", "peer", "ue", sport, dport) EXCEPT
     !.inner = "tcp", !.spi = spi, !.seq = seq, !.key = g]

ToC(g, seq) == Esp(10 + seq, 1, g, 21, seq, 2, 3)
Damaged(p) == [p EXCEPT !.intact = FALSE]
Long == Esp(20, 3, 1, 22, 1, 1, 4)
Third == Datagram(5, 2, "udp", "peer", "ue", 9, 9)
Other == Esp(21, 2, 1, 22, 2, 1, 4)

Scenario(out, send, in, arrive, inputs, installs) ==
  [out |-> out, send |-> send, in |-> in, arrive |-> arrive, inputs |-> inputs, installs |-> installs]

MCScenarios ==
  {\* the counter's end, and its replacement
   Scenario({OnC}, 4, {}, 0, {Given}, 2),
   \* fragments, another peer, other traffic
   Scenario({Piece(OnS, Frag(1, 0, 1, TRUE)), Piece(OnS, Frag(1, 1, 1, FALSE)), ToOther, Media}, 3,
            {}, 0, {Given}, 1),
   \* the window
   Scenario({}, 0,
            {ToC(1, n) : n \in 0..3} \cup
            {Damaged(ToC(1, 3)), Esp(30, 1, 1, 21, 2, 9, 3)}, 4, {Given}, 1),
   \* what else may arrive
   Scenario({}, 0,
            {ToC(1, 1), ToC(2, 1), Esp(31, 1, 1, 99, 1, 2, 3), Esp(34, 1, 1, 22, 1, 5060, 4),
             Datagram(32, 1, "udp", "peer", "ue", 2, 3), Datagram(33, 1, "udp", "peer", "ue", 9, 9)},
            2, {Given} \cup NotGiven, 2),
   \* reassembly: one datagram cut in two ways, another one, and pieces that contradict
   Scenario({}, 0,
            {Piece(Long, Frag(1, 0, 2, TRUE)), Piece(Long, Frag(1, 2, 1, FALSE)),
             Piece(Long, Frag(1, 0, 1, TRUE)), Piece(Long, Frag(1, 1, 1, TRUE)),
             Piece(Other, Frag(2, 1, 1, FALSE)), Piece(Third, Frag(4, 1, 1, FALSE)),
             Piece(Long, [Frag(1, 0, 1, TRUE) EXCEPT !.meta = 1]),
             Piece(Long, [Frag(1, 0, 1, TRUE) EXCEPT !.ragged = TRUE]),
             Piece(Media, Frag(1, 0, 1, FALSE)),
             Piece([Media EXCEPT !.nested = TRUE], Frag(3, 0, 1, FALSE))}, 4, {Given}, 1),
   \* both directions
   Scenario({OnC}, 1, {ToC(1, 1), ToC(1, 2)}, 2, {Given}, 1)}

\* The fragments of these scenarios were cut as IP asks; ReassemblySafety assumes it.
ASSUME CutAssumption == FragmentsCutByTheRules
=============================================================================
