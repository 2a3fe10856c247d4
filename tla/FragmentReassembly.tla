------------------------ MODULE FragmentReassembly ------------------------
(***************************************************************************)
(* Reassembly of IP fragments before the ESP transform                     *)
(* (fragmentReassembler.process) and the fragmentation of its result       *)
(* (fragmentProtectedPacket).  Lengths and offsets count 8-byte blocks.    *)
(*                                                                         *)
(* A packet is a record with a field frag: NoFragment for a whole packet,  *)
(* otherwise [id, off, len, more, meta, ragged] where id is the key of the *)
(* reassembly (addresses and identification), meta the header fields that  *)
(* must agree, and ragged says that the payload's last block is short;     *)
(* and a field nested: a fragment header follows the one being removed.    *)
(* A block of the buffer is represented by the packet it was cut from, so  *)
(* the header is the packet of block 0.                                    *)
(***************************************************************************)
EXTENDS Integers, FiniteSets, Functions, SequencesExt

CONSTANTS Family,      \* 4 or 6
          MaxSets,     \* datagrams under reassembly; the code's 64
          MaxBlocks    \* blocks of the longest payload an IP packet can have

ASSUME ReassemblyAssumption ==
  Family \in {4, 6} /\ MaxSets \in Nat \ {0} /\ MaxBlocks \in Nat \ {0}

NoFragment == [id |-> 0, off |-> 0, len |-> 0, more |-> FALSE, meta |-> 0, ragged |-> FALSE]

\* Cut from the packet p.
Piece(p, f) == [p EXCEPT !.frag = f]
Whole(p) == [p EXCEPT !.frag = NoFragment]

EndOf(f) == f.off + f.len
BlocksOf(f) == f.off .. (EndOf(f) - 1)

NewSet(f) == [blocks |-> <<>>, total |-> -1, meta |-> f.meta, old |-> FALSE]

\* Sets older than 30 seconds are forgotten when the next fragment comes.
Young(sets) == Restrict(sets, {k \in DOMAIN sets : ~sets[k].old})

Without(sets, k) == Restrict(sets, DOMAIN sets \ {k})

With(sets, k, set) == [j \in DOMAIN sets \cup {k} |-> IF j = k THEN set ELSE sets[j]]

\* Lengths no fragment may have.
BadBounds(f) == f.len = 0 \/ EndOf(f) > MaxBlocks \/ (f.more /\ f.ragged)

\* What contradicts the fragments of the set so far.
Conflicts(set, f) ==
  \/ set.meta # f.meta
  \/ ~f.more /\ \E b \in DOMAIN set.blocks : EndOf(f) <= b
  \/ set.total >= 0 /\ (EndOf(f) > set.total \/ (~f.more /\ EndOf(f) # set.total))
  \/ BlocksOf(f) \cap DOMAIN set.blocks # {}

Extended(set, p) ==
  LET f == p.frag
  IN  [set EXCEPT !.blocks = [b \in DOMAIN @ \cup BlocksOf(f) |->
                                IF b \in BlocksOf(f) THEN Whole(p) ELSE set.blocks[b]],
                  !.total = IF f.more THEN @ ELSE EndOf(f)]

\* Faulty variant: the last fragment completes the datagram.
CompleteAtLast(set) == set.total >= 0 /\ 0 \in DOMAIN set.blocks

\* The total is known, everything up to it has come, the first fragment (the header) too.
Complete(set) == set.total >= 0 /\ DOMAIN set.blocks = 0 .. (set.total - 1)

\* One fragment: st is "error", "held" (nil, nil) or "packet".
Outcome(st, sets, packet, blocks) == [st |-> st, sets |-> sets, packet |-> packet, blocks |-> blocks]

\* validateReassembledIPv6 objects.
Malformed(p) == Family = 6 /\ p.nested

\* A reassembled packet.
Joined(sets, p, blocks) ==
  IF Malformed(p) THEN Outcome("error", sets, p, <<>>) ELSE Outcome("packet", sets, p, blocks)

AtomicFragment(f) == Family = 6 /\ f.off = 0 /\ ~f.more

process(sets, p) ==
  LET f   == p.frag
      yng == Young(sets)
      set == IF f.id \in DOMAIN yng THEN yng[f.id] ELSE NewSet(f)
      ext == Extended(set, p)
  IN  CASE f = NoFragment -> Outcome("packet", sets, p, <<>>)
        [] f # NoFragment /\ BadBounds(f) -> Outcome("error", sets, p, <<>>)
        [] f # NoFragment /\ ~BadBounds(f) /\ AtomicFragment(f) ->
             Joined(sets, Whole(p), [b \in BlocksOf(f) |-> Whole(p)])
        [] OTHER ->
             IF f.id \notin DOMAIN yng /\ Cardinality(DOMAIN yng) >= MaxSets
               THEN Outcome("error", yng, p, <<>>)
             ELSE IF Conflicts(set, f) THEN Outcome("error", Without(yng, f.id), p, <<>>)
             ELSE IF ~Complete(ext) THEN Outcome("held", With(yng, f.id, ext), p, <<>>)
             ELSE Joined(Without(yng, f.id), ext.blocks[0], ext.blocks)

\* 30 seconds pass.
Aged(sets) == [k \in DOMAIN sets |-> [sets[k] EXCEPT !.old = TRUE]]

-----------------------------------------------------------------------------
\* fragmentProtectedPacket: the pieces of a payload of len blocks, chunk blocks each.
Fragments(id, len, chunk) ==
  [i \in 1..((len + chunk - 1) \div chunk) |->
     LET off == (i - 1) * chunk
         end == Min({off + chunk, len})
     IN  [NoFragment EXCEPT !.id = id, !.off = off, !.len = end - off, !.more = end < len]]
=============================================================================
