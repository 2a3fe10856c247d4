----------------------- MODULE IPsecDataplaneProofs -----------------------
EXTENDS IPsecDataplane, FiniteSetTheorems, SequenceTheorems, TLAPS

-----------------------------------------------------------------------------
(* The window: what is marked stays so, and nothing else becomes so *)

\* The number n is no longer taken by the window w.
Used(w, n) == w.initialized /\ n <= w.highest /\ (Behind(w, n) \/ Seen(w, n))

LEMMA CheckFails ==
  ASSUME NEW w, NEW n, Used(w, n)
  PROVE  ~Check(w, n)
BY DEF Used, Check

LEMMA TakeTyped ==
  ASSUME NEW w \in Windows(MaxSeq), NEW n \in 0..MaxSeq, Check(w, n)
  PROVE  Take(w, n) \in Windows(MaxSeq)
<1>0. WindowSize \in Nat \ {0} /\ Word \in Nat /\ WindowSize <= Word /\ 0 \in 0..(Word - 1)
  BY WindowAssumption
<1>1. CASE ~w.initialized
  BY <1>0, <1>1 DEF Take, Windows
<1>2. CASE w.initialized /\ n > w.highest
  <2> DEFINE bits == IF n - w.highest >= WindowSize THEN {0} ELSE Shifted(w.bitmap, n - w.highest)
  <2>1. Take(w, n) = [w EXCEPT !.highest = n, !.bitmap = bits]
    BY <1>2 DEF Take
  <2>2. bits \in SUBSET (0..(Word - 1))
    BY <1>0 DEF Shifted
  <2> HIDE DEF bits
  <2> QED BY <2>1, <2>2 DEF Windows
<1>3. CASE w.initialized /\ ~(n > w.highest)
  <2>1. Take(w, n) = [w EXCEPT !.bitmap = @ \cup {w.highest - n}]
    BY <1>3 DEF Take
  <2>2. w.highest - n \in 0..(Word - 1)
    BY <1>0, <1>3 DEF Check, Behind, Windows
  <2> QED BY <2>1, <2>2 DEF Windows
<1> QED
  BY <1>1, <1>2, <1>3

\* Taking a number uses it up, and leaves used what was used before.
LEMMA TakeUses ==
  ASSUME NEW w \in Windows(MaxSeq), NEW n \in 0..MaxSeq, Check(w, n), NEW m \in 0..MaxSeq, m = n \/ Used(w, m),
         NEW v, v = Take(w, n)
  PROVE  Used(v, m)
<1>0. WindowSize \in Nat \ {0} /\ Word \in Nat /\ WindowSize <= Word
  BY WindowAssumption
<1>1. CASE ~w.initialized
  BY <1>0, <1>1 DEF Take, Used, Seen, Behind
<1>2. CASE w.initialized /\ n > w.highest
  <2> DEFINE shift == n - w.highest
             bits == IF shift >= WindowSize THEN {0} ELSE Shifted(w.bitmap, shift)
  <2>1. v = [w EXCEPT !.highest = n, !.bitmap = bits]
    BY <1>2 DEF Take
  <2>2. v.initialized /\ v.highest = n /\ v.bitmap = bits
    BY <1>2, <2>1 DEF Windows
  <2>3. w.highest \in Nat /\ n \in Nat /\ m \in Nat /\ shift \in Nat
    BY <1>2 DEF Windows
  <2>4. CASE m = n
    <3>1. 0 \in bits
      BY DEF Shifted
    <3> HIDE DEF bits
    <3> QED BY <2>2, <2>3, <2>4, <3>1 DEF Used, Seen
  <2>5. CASE Used(w, m) /\ n - m >= WindowSize
    <3> QED BY <1>2, <2>2, <2>3, <2>5 DEF Used, Behind
  <2>6. CASE Used(w, m) /\ ~(n - m >= WindowSize)
    <3>1. w.highest - m \in w.bitmap /\ m <= w.highest
      BY <1>0, <1>2, <2>3, <2>6 DEF Used, Behind, Seen
    <3>2. n - m \in 0..(Word - 1) /\ (n - m) - shift = w.highest - m /\ shift < WindowSize
      BY <1>0, <1>2, <2>3, <2>6, <3>1
    <3>3. n - m \in Shifted(w.bitmap, shift)
      BY <3>1, <3>2 DEF Shifted
    <3>4. n - m \in bits
      BY <1>0, <2>3, <3>2, <3>3
    <3> HIDE DEF bits
    <3> QED BY <1>2, <2>2, <2>3, <3>1, <3>4 DEF Used, Seen
  <2> QED BY <2>4, <2>5, <2>6
<1>3. CASE w.initialized /\ ~(n > w.highest)
  <2>1. v = [w EXCEPT !.bitmap = @ \cup {w.highest - n}]
    BY <1>3 DEF Take
  <2>2. v.initialized /\ v.highest = w.highest /\ v.bitmap = w.bitmap \cup {w.highest - n}
    BY <1>3, <2>1 DEF Windows
  <2>3. w.highest \in Nat /\ n \in Nat /\ m \in Nat
    BY DEF Windows
  <2> QED BY <1>3, <2>2, <2>3 DEF Used, Seen, Behind
<1> QED
  BY <1>1, <1>2, <1>3

\* The numbers a window remembers: its highest, and its bits within the size.
Remembered(w, m) ==
  w.initialized /\ m <= w.highest /\ (m = w.highest \/ (w.highest - m < WindowSize /\ w.highest - m \in w.bitmap))

LEMMA TakeRemembers ==
  ASSUME NEW w \in Windows(MaxSeq), NEW n \in 0..MaxSeq, Check(w, n), NEW m \in Nat,
         NEW v, v = Take(w, n), Remembered(v, m)
  PROVE  m = n \/ Remembered(w, m)
<1>0. WindowSize \in Nat \ {0} /\ Word \in Nat /\ WindowSize <= Word
  BY WindowAssumption
<1>1. CASE ~w.initialized
  BY <1>0, <1>1 DEF Take, Remembered
<1>2. CASE w.initialized /\ n > w.highest
  <2> DEFINE shift == n - w.highest
             bits == IF shift >= WindowSize THEN {0} ELSE Shifted(w.bitmap, shift)
  <2>1. v = [w EXCEPT !.highest = n, !.bitmap = bits]
    BY <1>2 DEF Take
  <2>2. v.initialized /\ v.highest = n /\ v.bitmap = bits
    BY <1>2, <2>1 DEF Windows
  <2>3. w.highest \in Nat /\ n \in Nat /\ shift \in Nat /\ w.bitmap \subseteq Nat
    BY <1>0, <1>2 DEF Windows
  <2>4. m = n \/ (n - m < WindowSize /\ n - m \in bits /\ m <= n)
    <3> HIDE DEF bits
    <3> QED BY <2>2 DEF Remembered
  <2>5. CASE m # n
    <3>1. n - m \in Shifted(w.bitmap, shift) /\ n - m # 0
      BY <2>3, <2>4, <2>5
    <3>2. (n - m) - shift \in w.bitmap
      BY <3>1 DEF Shifted
    <3>3. (n - m) - shift = w.highest - m
      BY <2>3
    <3>4. w.highest - m \in Nat /\ w.highest - m < WindowSize /\ m <= w.highest
      BY <1>0, <1>2, <2>3, <2>4, <2>5, <3>2, <3>3
    <3> QED BY <1>2, <3>2, <3>3, <3>4 DEF Remembered
  <2> QED BY <2>5
<1>3. CASE w.initialized /\ ~(n > w.highest)
  <2>1. v = [w EXCEPT !.bitmap = @ \cup {w.highest - n}]
    BY <1>3 DEF Take
  <2>2. v.initialized /\ v.highest = w.highest /\ v.bitmap = w.bitmap \cup {w.highest - n}
    BY <1>3, <2>1 DEF Windows
  <2>3. w.highest \in Nat /\ n \in Nat /\ m \in Nat
    BY DEF Windows
  <2> QED BY <1>3, <2>2, <2>3 DEF Remembered
<1> QED
  BY <1>1, <1>2, <1>3

\* What the window refuses it remembers, or is WindowSize behind one that it does.
LEMMA RefusalExplained ==
  ASSUME NEW w \in Windows(MaxSeq), NEW n \in 1..MaxSeq, ~Check(w, n)
  PROVE  Remembered(w, n) \/ (Remembered(w, w.highest) /\ w.highest - n >= WindowSize)
<1>0. WindowSize \in Nat \ {0} /\ w.highest \in Nat
  BY WindowAssumption DEF Windows
<1> QED
  BY <1>0 DEF Check, Remembered, Behind, Seen

-----------------------------------------------------------------------------
(* Packets, and the datagrams under reassembly *)

PacketFields ==
  {"frag", "nested", "d", "len", "proto", "src", "dst", "sport", "dport", "spi", "seq", "key", "intact", "inner"}

PacketOK(p) ==
  /\ DOMAIN p = PacketFields /\ p = [f \in PacketFields |-> p[f]]
  /\ p.len \in Nat /\ p.seq \in 0..MaxSeq /\ p.frag.off \in Nat /\ p.frag.len \in Nat

\* A packet that is whole: its ports are those of its header.
WholeOK(p) == PacketOK(p) /\ p.frag = NoFragment

\* A datagram under reassembly: what it holds was cut to whole packets.
SetOK(set) ==
  /\ DOMAIN set = {"blocks", "total", "meta", "old"}
  /\ set = [f \in {"blocks", "total", "meta", "old"} |-> set[f]]
  /\ set.total \in Int /\ \A b \in DOMAIN set.blocks : WholeOK(set.blocks[b])

\* No more of them than the limit.
SetsOK(sets) ==
  /\ \A k \in DOMAIN sets : SetOK(sets[k])
  /\ IsFiniteSet(DOMAIN sets) /\ Cardinality(DOMAIN sets) <= MaxSets

LEMMA PacketsTyped ==
  ASSUME NEW sc \in Scenarios, NEW p \in sc.out \cup sc.in
  PROVE  PacketOK(p)
<1>1. p \in PacketRecord
  BY ScenarioAssumption
<1> QED
  BY <1>1 DEF PacketRecord, PacketOK, PacketFields

LEMMA WholeIsOK ==
  ASSUME NEW p, PacketOK(p)
  PROVE  WholeOK(Whole(p))
<1> DEFINE q == Whole(p)
<1>1. q = [p EXCEPT !.frag = NoFragment]
  BY DEF Whole
<1>2. DOMAIN q = PacketFields /\ q = [f \in PacketFields |-> q[f]]
  BY <1>1 DEF PacketOK, PacketFields
<1>3. q.len = p.len /\ q.seq = p.seq /\ q.frag = NoFragment
  BY <1>1 DEF PacketOK, PacketFields
<1>4. NoFragment.off \in Nat /\ NoFragment.len \in Nat
  BY DEF NoFragment
<1> HIDE DEF q
<1>5. WholeOK(q)
  BY <1>2, <1>3, <1>4 DEF PacketOK, WholeOK
<1> QED
  BY <1>5 DEF q

LEMMA NewSetOK ==
  ASSUME NEW f
  PROVE  SetOK(NewSet(f))
BY DEF NewSet, SetOK

LEMMA ExtendedOK ==
  ASSUME NEW set, SetOK(set), NEW p, PacketOK(p), NEW e, e = Extended(set, p)
  PROVE  SetOK(e) /\ BlocksOf(p.frag) \subseteq DOMAIN e.blocks
<1> DEFINE bs == [b \in DOMAIN set.blocks \cup BlocksOf(p.frag) |->
                    IF b \in BlocksOf(p.frag) THEN Whole(p) ELSE set.blocks[b]]
           n == IF p.frag.more THEN set.total ELSE EndOf(p.frag)
<1>1. e = [set EXCEPT !.blocks = bs, !.total = n]
  BY DEF Extended
<1>2. n \in Int
  BY DEF SetOK, PacketOK, EndOf
<1>3. \A b \in DOMAIN bs : WholeOK(bs[b])
  BY WholeIsOK DEF SetOK
<1>4. BlocksOf(p.frag) \subseteq DOMAIN bs
  OBVIOUS
<1> HIDE DEF bs, n
<1>5. /\ DOMAIN e = {"blocks", "total", "meta", "old"} /\ e = [f \in {"blocks", "total", "meta", "old"} |-> e[f]]
      /\ e.blocks = bs /\ e.total = n
  BY <1>1 DEF SetOK
<1> QED
  BY <1>2, <1>3, <1>4, <1>5 DEF SetOK

\* The sets without one, those that are young, and with another one, as long as there is room.
LEMMA FewerSets ==
  ASSUME NEW sets, SetsOK(sets), NEW S, S \subseteq DOMAIN sets
  PROVE  SetsOK(Restrict(sets, S)) /\ DOMAIN Restrict(sets, S) = S
<1> DEFINE t == Restrict(sets, S)
<1>1. DOMAIN t = S /\ \A k \in S : t[k] = sets[k]
  BY DEF Restrict
<1>2. MaxSets \in Nat
  BY ReassemblyAssumption
<1>3. IsFiniteSet(S) /\ Cardinality(S) <= Cardinality(DOMAIN sets)
  BY FS_Subset DEF SetsOK
<1>4. Cardinality(S) \in Nat /\ Cardinality(DOMAIN sets) \in Nat
  BY <1>3, FS_CardinalityType DEF SetsOK
<1> HIDE DEF t
<1>5. SetsOK(t)
  BY <1>1, <1>2, <1>3, <1>4 DEF SetsOK
<1> QED
  BY <1>1, <1>5 DEF t

LEMMA YoungOK ==
  ASSUME NEW sets, SetsOK(sets)
  PROVE  SetsOK(Young(sets))
<1>1. {k \in DOMAIN sets : ~sets[k].old} \subseteq DOMAIN sets
  OBVIOUS
<1> QED
  BY <1>1, FewerSets DEF Young

LEMMA WithoutOK ==
  ASSUME NEW sets, SetsOK(sets), NEW k
  PROVE  SetsOK(Without(sets, k))
<1>1. DOMAIN sets \ {k} \subseteq DOMAIN sets
  OBVIOUS
<1> QED
  BY <1>1, FewerSets DEF Without

LEMMA WithOK ==
  ASSUME NEW sets, SetsOK(sets), NEW k, NEW set, SetOK(set),
         k \in DOMAIN sets \/ Cardinality(DOMAIN sets) < MaxSets
  PROVE  SetsOK(With(sets, k, set))
<1> DEFINE t == With(sets, k, set)
<1>1. DOMAIN t = DOMAIN sets \cup {k} /\ \A j \in DOMAIN t : t[j] = IF j = k THEN set ELSE sets[j]
  BY DEF With
<1>2. MaxSets \in Nat /\ Cardinality(DOMAIN sets) \in Nat
  BY ReassemblyAssumption, FS_CardinalityType DEF SetsOK
<1> HIDE DEF t
<1>3. \A j \in DOMAIN t : SetOK(t[j])
  BY <1>1 DEF SetsOK
<1>4. IsFiniteSet(DOMAIN t) /\ Cardinality(DOMAIN t) <= MaxSets
  <2>1. CASE k \in DOMAIN sets
    <3>1. DOMAIN t = DOMAIN sets
      BY <1>1, <2>1
    <3> QED BY <3>1 DEF SetsOK
  <2>2. CASE k \notin DOMAIN sets
    <3>1. IsFiniteSet(DOMAIN t) /\ Cardinality(DOMAIN t) = Cardinality(DOMAIN sets) + 1
      BY <1>1, <2>2, FS_AddElement DEF SetsOK
    <3> QED BY <1>2, <2>2, <3>1
  <2> QED BY <2>1, <2>2
<1>5. SetsOK(t)
  BY <1>3, <1>4 DEF SetsOK
<1> QED
  BY <1>5 DEF t

LEMMA AgedOK ==
  ASSUME NEW sets, SetsOK(sets)
  PROVE  SetsOK(Aged(sets))
<1> DEFINE t == Aged(sets)
<1>1. DOMAIN t = DOMAIN sets /\ \A k \in DOMAIN sets : t[k] = [sets[k] EXCEPT !.old = TRUE]
  BY DEF Aged
<1> HIDE DEF t
<1>2. ASSUME NEW k \in DOMAIN sets
      PROVE  SetOK(t[k])
  <2>1. SetOK(sets[k])
    BY DEF SetsOK
  <2> QED BY <1>1, <2>1 DEF SetOK
<1>3. SetsOK(t)
  BY <1>1, <1>2 DEF SetsOK
<1> QED
  BY <1>3 DEF t

\* What process returns is a whole packet, whose header is that of the first block.
LEMMA ProcessOK ==
  ASSUME NEW sets, SetsOK(sets), NEW p, PacketOK(p), NEW r, r = process(sets, p)
  PROVE  SetsOK(r.sets) /\ (r.st = "packet" => WholeOK(r.packet))
<1> DEFINE f == p.frag
           yng == Young(sets)
           set == IF f.id \in DOMAIN yng THEN yng[f.id] ELSE NewSet(f)
           ext == Extended(set, p)
<1>1. SetsOK(yng)
  BY YoungOK
<1>2. SetOK(set)
  BY <1>1, NewSetOK DEF SetsOK
<1>3. SetOK(ext) /\ BlocksOf(f) \subseteq DOMAIN ext.blocks
  <2> HIDE DEF set
  <2> QED BY <1>2, ExtendedOK
<1>4. CASE f = NoFragment
  <2>1. r = Outcome("packet", sets, p, <<>>)
    BY <1>4 DEF process
  <2> QED BY <1>4, <2>1 DEF Outcome, WholeOK
<1>5. CASE f # NoFragment /\ BadBounds(f)
  <2>1. r = Outcome("error", sets, p, <<>>)
    BY <1>5 DEF process
  <2> QED BY <2>1 DEF Outcome
<1>6. CASE f # NoFragment /\ ~BadBounds(f) /\ AtomicFragment(f)
  <2>1. r = Joined(sets, Whole(p), [b \in BlocksOf(f) |-> Whole(p)])
    BY <1>6 DEF process
  <2> QED BY <2>1, WholeIsOK DEF Joined, Outcome
<1>7. CASE f # NoFragment /\ ~BadBounds(f) /\ ~AtomicFragment(f)
  <2>1. r = IF f.id \notin DOMAIN yng /\ Cardinality(DOMAIN yng) >= MaxSets
              THEN Outcome("error", yng, p, <<>>)
            ELSE IF Conflicts(set, f) THEN Outcome("error", Without(yng, f.id), p, <<>>)
            ELSE IF ~Complete(ext) THEN Outcome("held", With(yng, f.id, ext), p, <<>>)
            ELSE Joined(Without(yng, f.id), ext.blocks[0], ext.blocks)
    BY <1>7 DEF process
  <2>2. SetsOK(Without(yng, f.id))
    BY <1>1, WithoutOK
  <2>3. MaxSets \in Nat /\ Cardinality(DOMAIN yng) \in Nat
    BY <1>1, ReassemblyAssumption, FS_CardinalityType DEF SetsOK
  <2>4. ~(f.id \notin DOMAIN yng /\ Cardinality(DOMAIN yng) >= MaxSets) => SetsOK(With(yng, f.id, ext))
    <3> HIDE DEF yng, ext
    <3> QED BY <1>1, <1>3, <2>3, WithOK
  <2>5. Complete(ext) => WholeOK(ext.blocks[0])
    <3>1. f.off \in BlocksOf(f) /\ f.off \in Nat
      BY <1>7 DEF BlocksOf, EndOf, BadBounds, PacketOK
    <3> HIDE DEF ext
    <3>2. Complete(ext) => 0 \in DOMAIN ext.blocks
      BY <1>3, <3>1 DEF Complete, SetOK
    <3> QED BY <1>3, <3>2 DEF SetOK
  <2> HIDE DEF yng, set, ext
  <2> QED BY <1>1, <2>1, <2>2, <2>4, <2>5 DEF Joined, Outcome
<1> QED
  BY <1>4, <1>5, <1>6, <1>7

-----------------------------------------------------------------------------
(* Sequences *)

IsSeq(s) == Len(s) \in Nat /\ DOMAIN s = 1..Len(s) /\ s = [i \in 1..Len(s) |-> s[i]]

LEMMA InSeq ==
  ASSUME NEW s, IsSeq(s)
  PROVE  s \in Seq({s[i] : i \in 1..Len(s)})
BY DEF IsSeq

LEMMA SeqIs ==
  ASSUME NEW S, NEW s \in Seq(S)
  PROVE  IsSeq(s)
BY LenProperties DEF IsSeq

LEMMA EmptyIs == IsSeq(<<>>) /\ Len(<<>>) = 0
BY DEF IsSeq

Appended(s, e, t) ==
  IsSeq(t) /\ Len(t) = Len(s) + 1 /\ t[Len(t)] = e /\ \A i \in 1..Len(s) : t[i] = s[i]

LEMMA AppendIs ==
  ASSUME NEW s, IsSeq(s), NEW e, NEW t, t = Append(s, e)
  PROVE  Appended(s, e, t)
<1> USE DEF Appended
<1> DEFINE S == {s[i] : i \in 1..Len(s)} \cup {e}
<1>1. s \in Seq(S)
  BY DEF IsSeq
<1>2. e \in S
  OBVIOUS
<1> HIDE DEF S
<1>3. /\ t \in Seq(S) /\ Len(t) = Len(s) + 1 /\ t[Len(s) + 1] = e
      /\ \A i \in 1..Len(s) : t[i] = s[i]
  BY <1>1, <1>2, AppendProperties
<1> QED
  BY <1>3, SeqIs

LEMMA TailIs ==
  ASSUME NEW s, IsSeq(s), s # <<>>, NEW t, t = Tail(s)
  PROVE  IsSeq(t) /\ Len(t) = Len(s) - 1 /\ \A i \in 1..Len(t) : i + 1 \in 1..Len(s) /\ t[i] = s[i + 1]
<1> DEFINE S == {s[i] : i \in 1..Len(s)}
<1>1. s \in Seq(S)
  BY InSeq
<1> HIDE DEF S
<1>2. t \in Seq(S) /\ Len(t) = Len(s) - 1 /\ \A i \in 1..Len(t) : t[i] = s[i + 1]
  BY <1>1, HeadTailProperties
<1>3. IsSeq(t)
  BY <1>2, SeqIs
<1> QED
  BY <1>2, <1>3 DEF IsSeq

LEMMA MapIs ==
  ASSUME NEW n \in Nat, NEW t, DOMAIN t = 1..n, t = [i \in 1..n |-> t[i]]
  PROVE  IsSeq(t) /\ Len(t) = n
<1>1. t \in Seq({t[i] : i \in 1..n})
  OBVIOUS
<1>2. Len(t) = n
  BY <1>1, LenProperties
<1> QED
  BY <1>2 DEF IsSeq

-----------------------------------------------------------------------------
(* The transforms *)

TransportFields == {"pol", "seq", "win", "outF", "inF"}

\* The two SPIs that a registration draws for the UE differ.
LocalSPIsDiffer ==
  \A sc \in Scenarios : \A in \in sc.inputs : PolicyOK(in) => in.localSPIC # in.localSPIS

\* So an SPI belongs to one flow.
OwnSPIs(pol) == LocalSPIsDiffer => pol["c"].in # pol["s"].in

TransportOK(t) ==
  /\ DOMAIN t = TransportFields /\ t = [f \in TransportFields |-> t[f]]
  /\ t.seq \in [Flows -> Nat] /\ t.win \in [Flows -> Windows(MaxSeq)]
  /\ SetsOK(t.outF) /\ SetsOK(t.inF) /\ OwnSPIs(t.pol)

\* A packet that may leave: not of a protected port, or encapsulated.
MayLeave(q, pol) == OverIP(q) /\ q.src = "ue" => ~ProtectedPort(pol, q.sport)

\* A packet that the stack may get, and what of it was verified.
Verified(q, g, pol) ==
  q.dst = "ue" /\ ProtectedPort(pol, q.dport) /\ (OverIP(q) \/ q.proto = "esp") =>
    /\ q.proto = "esp" /\ q.intact /\ q.key = g /\ q.src = "peer"
    /\ \E f \in Flows : q.spi = pol[f].in /\ q.sport = pol[f].remote /\ q.dport = pol[f].local

LEMMA NewTransportOK ==
  ASSUME NEW sc \in Scenarios, NEW in \in sc.inputs, PolicyOK(in), NEW t, t = NewTransport(in)
  PROVE  TransportOK(t) /\ t.pol = NewPolicy(in) /\ \A f \in Flows : ~t.win[f].initialized
<1>1. NewReplayWindow \in Windows(MaxSeq) /\ ~NewReplayWindow.initialized
  BY DataplaneAssumption DEF NewReplayWindow, Windows
<1>2. SetsOK(<<>>)
  <2>1. DOMAIN <<>> = {}
    OBVIOUS
  <2>2. IsFiniteSet({}) /\ Cardinality({}) = 0 /\ MaxSets \in Nat
    BY FS_EmptySet, ReassemblyAssumption
  <2> QED BY <2>1, <2>2 DEF SetsOK
<1>3. /\ DOMAIN t = TransportFields /\ t = [f \in TransportFields |-> t[f]] /\ t.pol = NewPolicy(in)
      /\ t.seq = [f \in Flows |-> 0] /\ t.win = [f \in Flows |-> NewReplayWindow]
      /\ t.outF = <<>> /\ t.inF = <<>>
  BY DEF NewTransport, TransportFields
<1>4. OwnSPIs(t.pol)
  <2> DEFINE pol == NewPolicy(in)
  <2>1. pol["c"].in = in.localSPIC /\ pol["s"].in = in.localSPIS
    BY DEF NewPolicy
  <2> HIDE DEF pol
  <2>2. t.pol = pol
    BY <1>3, Zenon DEF pol
  <2>3. LocalSPIsDiffer => in.localSPIC # in.localSPIS
    BY Zenon DEF LocalSPIsDiffer
  <2> QED BY <2>1, <2>2, <2>3, Zenon DEF OwnSPIs
<1> QED
  BY <1>1, <1>2, <1>3, <1>4 DEF TransportOK

LEMMA AgedTransportOK ==
  ASSUME NEW t, TransportOK(t), NEW u, u = [t EXCEPT !.outF = Aged(@), !.inF = Aged(@)]
  PROVE  TransportOK(u) /\ u.pol = t.pol /\ u.seq = t.seq /\ u.win = t.win
<1>1. SetsOK(Aged(t.outF)) /\ SetsOK(Aged(t.inF))
  BY AgedOK DEF TransportOK
<1> QED
  BY <1>1 DEF TransportOK, TransportFields

LEMMA Numbered ==
  ASSUME NEW k \in Nat, NEW n, n = NextSequenceNumber(k)
  PROVE  n.next = k + 1 /\ (n.ok => k + 1 <= MaxSeq)
<1> DEFINE m == k + 1
           b == m <= MaxSeq
<1>1. n = [next |-> m, ok |-> b]
  BY DEF NextSequenceNumber
<1> HIDE DEF m, b
<1>2. n.next = m /\ n.ok = b
  BY <1>1
<1>3. n.ok => b
  BY <1>2, Zenon
<1>4. n.next = k + 1
  BY <1>2 DEF m
<1>5. n.ok => k + 1 <= MaxSeq
  BY <1>3, Zenon DEF b, m
<1> QED
  BY <1>4, <1>5

LEMMA EncapsulatedOK ==
  ASSUME NEW q, PacketOK(q), NEW f, NEW t, NEW g, NEW n, NEW e, e = Encapsulated(q, f, t, g, n)
  PROVE  DOMAIN e = PacketFields /\ e.len \in Nat /\ e.proto = "esp"
<1> DEFINE m == q.len + 1
           spi == t.pol[f].out
<1>1. m \in Nat
  BY DEF PacketOK
<1>2. e = [q EXCEPT !.proto = "esp", !.inner = q.proto, !.len = m,
                    !.spi = spi, !.seq = n, !.key = g, !.intact = TRUE]
  BY DEF Encapsulated
<1> HIDE DEF m, spi
<1>3. DOMAIN e = PacketFields /\ e.len = m /\ e.proto = "esp"
  BY <1>2 DEF PacketOK, PacketFields
<1> QED
  BY <1>1, <1>3

\* A protected packet gets the next number of its flow; what leaves otherwise is of no protected port.
LEMMA OutboundOK ==
  ASSUME NEW t, TransportOK(t), NEW p, PacketOK(p), NEW g, NEW r, r = TransformOutbound(t, g, p)
  PROVE  /\ TransportOK(r.t) /\ r.t.pol = t.pol /\ r.t.win = t.win /\ \A f \in Flows : t.seq[f] <= r.t.seq[f]
         /\ r.st = "packet" /\ r.flow # ""
              => r.flow \in Flows /\ r.n = t.seq[r.flow] + 1 /\ r.n \in 1..MaxSeq /\ r.t.seq[r.flow] = r.n
         /\ r.st = "packet" => DOMAIN r.p = PacketFields /\ r.p.len \in Nat /\ MayLeave(r.p, t.pol)
<1> DEFINE pr == process(t.outF, p)
           q == pr.packet
           f == IF pr.st = "packet" THEN matchOutbound(t.pol, q) ELSE ""
           n == IF f = "" THEN [next |-> 0, ok |-> TRUE] ELSE NextSequenceNumber(t.seq[f])
           st == IF pr.st # "packet" THEN pr.st
                 ELSE IF q.proto = "bad" \/ (f = "" /\ Stray(t.pol, q)) \/ ~n.ok THEN "error" ELSE "packet"
           seqs == IF f = "" THEN t.seq ELSE [t.seq EXCEPT ![f] = n.next]
           e == IF f = "" THEN q ELSE Encapsulated(q, f, t, g, n.next)
<1>1. SetsOK(pr.sets) /\ (pr.st = "packet" => WholeOK(q))
  BY ProcessOK DEF TransportOK
<1>2. f \in Flows \cup {""} /\ (f # "" => pr.st = "packet")
  BY DEF matchOutbound, Flows
<1>3. /\ r.st = st /\ r.t = [t EXCEPT !.outF = pr.sets, !.seq = seqs] /\ r.p = e
      /\ r.flow = f /\ r.n = n.next
  BY DEF TransformOutbound
<1>4. f # "" => n = NextSequenceNumber(t.seq[f]) /\ seqs = [t.seq EXCEPT ![f] = n.next]
                /\ e = Encapsulated(q, f, t, g, n.next)
  BY Zenon
<1>5. f = "" => seqs = t.seq /\ e = q
  BY Zenon
<1>6. st = "packet" => pr.st = "packet" /\ (f # "" => n.ok) /\ (f = "" => ~Stray(t.pol, q))
  BY Zenon
<1>7. t.seq \in [Flows -> Nat]
  BY DEF TransportOK
<1> HIDE DEF pr, f, n, st, seqs, e
<1>8. f # "" => t.seq[f] \in Nat /\ n.next = t.seq[f] + 1
  <2>1. CASE f # ""
    <3>1. t.seq[f] \in Nat
      BY <1>2, <1>7, <2>1
    <3> QED BY <1>4, <2>1, <3>1, Numbered
  <2> QED BY <2>1
<1>9. seqs \in [Flows -> Nat] /\ (\A h \in Flows : t.seq[h] <= seqs[h]) /\ (f # "" => seqs[f] = n.next)
  <2>1. CASE f = ""
    <3>1. seqs = t.seq
      BY <1>5, <2>1, Zenon
    <3>2. seqs \in [Flows -> Nat] /\ \A h \in Flows : t.seq[h] <= seqs[h]
      BY <1>7, <3>1
    <3> QED BY <2>1, <3>2, Zenon
  <2>2. CASE f # ""
    <3>1. t.seq[f] \in Nat /\ n.next = t.seq[f] + 1 /\ seqs = [t.seq EXCEPT ![f] = n.next]
      BY <1>4, <1>8, <2>2, Zenon
    <3>2. n.next \in Nat /\ t.seq[f] <= n.next
      BY <3>1
    <3>3. f \in Flows
      BY <1>2, <2>2
    <3>4. seqs \in [Flows -> Nat] /\ (\A h \in Flows : t.seq[h] <= seqs[h]) /\ seqs[f] = n.next
      BY <1>7, <3>1, <3>2, <3>3
    <3> QED BY <3>4, Zenon
  <2> QED BY <2>1, <2>2, Zenon
<1>10. st = "packet" => DOMAIN e = PacketFields /\ e.len \in Nat /\ MayLeave(e, t.pol)
  <2>1. CASE f = "" /\ st = "packet"
    <3>1. WholeOK(q) /\ ~Stray(t.pol, q) /\ e = q
      BY <1>1, <1>5, <1>6, <2>1
    <3>2. SourcePort(q) = q.sport
      <4>1. q.frag.off = 0
        BY <3>1 DEF WholeOK, NoFragment
      <4> QED BY <4>1 DEF SourcePort
    <3> QED BY <3>1, <3>2 DEF Stray, MayLeave, WholeOK, PacketOK
  <2>2. CASE f # "" /\ st = "packet"
    <3>1. PacketOK(q) /\ e = Encapsulated(q, f, t, g, n.next)
      BY <1>1, <1>4, <1>6, <2>2 DEF WholeOK
    <3>2. DOMAIN e = PacketFields /\ e.len \in Nat /\ e.proto = "esp"
      BY <3>1, EncapsulatedOK
    <3> QED BY <3>2 DEF MayLeave, OverIP
  <2> QED BY <2>1, <2>2
<1>11. TransportOK(r.t) /\ r.t.pol = t.pol /\ r.t.win = t.win /\ r.t.seq = seqs
  BY <1>1, <1>3, <1>9 DEF TransportOK, TransportFields
<1>12. f # "" /\ n.ok => t.seq[f] + 1 <= MaxSeq
  <2>1. CASE f # "" /\ n.ok
    <3>1. t.seq[f] \in Nat
      BY <1>2, <1>7, <2>1
    <3> QED BY <1>4, <2>1, <3>1, Numbered
  <2> QED BY <2>1
<1>13. st = "packet" /\ f # "" => n.next = t.seq[f] + 1 /\ n.next \in 1..MaxSeq /\ seqs[f] = n.next
  <2>1. MaxSeq \in Nat
    BY DataplaneAssumption
  <2>2. st = "packet" /\ f # "" => t.seq[f] + 1 <= MaxSeq
    BY <1>6, <1>12, Zenon
  <2>3. CASE st = "packet" /\ f # ""
    <3>1. /\ t.seq[f] \in Nat /\ n.next = t.seq[f] + 1 /\ t.seq[f] + 1 <= MaxSeq
          /\ seqs[f] = n.next
      BY <1>8, <1>9, <2>2, <2>3, Zenon
    <3>2. n.next \in 1..MaxSeq
      BY <2>1, <3>1
    <3> QED BY <3>1, <3>2, Zenon
  <2> QED BY <2>3, Zenon
<1> QED
  BY <1>2, <1>3, <1>9, <1>10, <1>11, <1>13

\* The mark is set for a packet that passed every check, and for no other.
LEMMA VerdictOK ==
  ASSUME NEW t, TransportOK(t), NEW g, NEW q, q.seq \in 0..MaxSeq, NEW blocks,
         NEW v, v = Verdict(t, g, q, blocks), NEW f, f = InboundFlow(t.pol, q.spi)
  PROVE  \/ /\ v.ok /\ f \in Flows /\ q.seq \in 1..MaxSeq /\ Check(t.win[f], q.seq)
            /\ Authentic(q, g, blocks) /\ Selected(q, t.pol[f])
            /\ v.win = [t.win EXCEPT ![f] = Take(t.win[f], q.seq)]
         \/ /\ ~v.ok /\ v.win = t.win
            /\ f \notin Flows \/ ~Check(t.win[f], q.seq) \/ ~Authentic(q, g, blocks) \/ ~Selected(q, t.pol[f])
<1>1. CASE f = "" \/ ~Check(t.win[f], q.seq) \/ ~Authentic(q, g, blocks) \/ ~Selected(q, t.pol[f])
  <2>1. v = [ok |-> FALSE, win |-> t.win]
    BY <1>1, Zenon DEF Verdict
  <2>2. v.ok = FALSE /\ v.win = t.win
    BY <2>1
  <2>3. f = "" => f \notin Flows
    BY Zenon DEF Flows
  <2> QED BY <1>1, <2>2, <2>3, Zenon
<1>2. CASE f # "" /\ Check(t.win[f], q.seq) /\ Authentic(q, g, blocks) /\ Selected(q, t.pol[f])
  <2> DEFINE a == Accept(t.win[f], q.seq)
  <2>1. v = [ok |-> a.ok, win |-> [t.win EXCEPT ![f] = a.window]]
    BY <1>2, Zenon DEF Verdict
  <2>2. a = [ok |-> TRUE, window |-> Take(t.win[f], q.seq)]
    BY <1>2, Zenon DEF Accept
  <2>3. a.ok = TRUE /\ a.window = Take(t.win[f], q.seq)
    BY <2>2
  <2> HIDE DEF a
  <2>4. v.ok = a.ok /\ v.win = [t.win EXCEPT ![f] = a.window]
    BY <2>1
  <2>5. v.ok /\ v.win = [t.win EXCEPT ![f] = Take(t.win[f], q.seq)]
    BY <2>3, <2>4, Zenon
  <2>6. f \in Flows
    BY <1>2 DEF InboundFlow, Flows
  <2>7. q.seq # 0
    BY <1>2, Zenon DEF Check
  <2>8. q.seq \in 1..MaxSeq
    BY <2>7, DataplaneAssumption
  <2> QED BY <1>2, <2>5, <2>6, <2>8, Zenon
<1> QED
  BY <1>1, <1>2, Zenon

\* What the transport t of generation g does with an inbound packet, r being the result.
Inbound(t, g, r) ==
  /\ TransportOK(r.t) /\ r.t.pol = t.pol /\ r.t.seq = t.seq
  /\ r.st = "packet" => Verified(r.p, g, t.pol)
  /\ \/ r.t.win = t.win /\ ~(r.st = "packet" /\ r.p.proto = "esp")
     \/ \E f \in Flows :
          /\ r.st = "packet" /\ r.p.proto = "esp"
          /\ f = InboundFlow(t.pol, r.p.spi) /\ r.p.seq \in 1..MaxSeq /\ Check(t.win[f], r.p.seq)
          /\ r.t.win = [t.win EXCEPT ![f] = Take(t.win[f], r.p.seq)]

\* The stack gets only what was verified, on a protected port; the number of an ESP packet that
\* it gets is taken from the window of its flow.
LEMMA InboundOK ==
  ASSUME NEW t, TransportOK(t), NEW p, PacketOK(p), NEW g, NEW r, r = TransformInbound(t, g, p)
  PROVE  Inbound(t, g, r)
<1> DEFINE pr == process(t.inF, p)
           q == pr.packet
           esp == pr.st = "packet" /\ q.proto = "esp"
           plain == ~(q.proto = "bad" \/ (OverIP(q) /\ q.dst = "ue" /\ ProtectedPort(t.pol, DestinationPort(q))))
           v == IF esp THEN Verdict(t, g, q, pr.blocks) ELSE [ok |-> plain, win |-> t.win]
           st == IF pr.st # "packet" THEN pr.st ELSE IF v.ok THEN "packet" ELSE "error"
<1>1. SetsOK(pr.sets) /\ (pr.st = "packet" => WholeOK(q))
  BY ProcessOK DEF TransportOK
<1>2. r.st = st /\ r.t = [t EXCEPT !.inF = pr.sets, !.win = v.win] /\ r.p = q
  BY DEF TransformInbound
<1>3. ~esp => v = [ok |-> plain, win |-> t.win]
  BY Zenon
<1>4. esp => v = Verdict(t, g, q, pr.blocks)
  BY Zenon
<1>5. (st = "packet" => pr.st = "packet" /\ v.ok) /\ (st # "packet" => pr.st # "packet" \/ ~v.ok)
  <2>1. CASE pr.st # "packet"
    BY <2>1, Zenon
  <2>2. CASE pr.st = "packet" /\ v.ok
    BY <2>2, Zenon
  <2>3. CASE pr.st = "packet" /\ ~v.ok
    <3>1. st = "error"
      BY <2>3, Zenon
    <3>2. st # "packet"
      BY <3>1
    <3> QED BY <2>3, <3>2, Zenon
  <2> QED BY <2>1, <2>2, <2>3, Zenon
<1>6. CASE ~esp
  <2> HIDE DEF v, pr, plain, st
  <2>1. v.ok = plain /\ v.win = t.win
    BY <1>3, <1>6
  <2>2. st = "packet" => q.proto # "esp" /\ WholeOK(q)
    BY <1>1, <1>5, <1>6, Zenon
  <2>3. st = "packet" => Verified(q, g, t.pol)
    <3>1. CASE st = "packet"
      <4>1. plain
        BY <1>5, <2>1, <3>1, Zenon
      <4>2. q.frag.off = 0
        BY <2>2, <3>1 DEF WholeOK, NoFragment
      <4>3. DestinationPort(q) = q.dport
        BY <4>2 DEF DestinationPort
      <4>4. ~(OverIP(q) /\ q.dst = "ue" /\ ProtectedPort(t.pol, q.dport))
        BY <4>1, <4>3, Zenon DEF plain
      <4> QED BY <2>2, <3>1, <4>4, Zenon DEF Verified
    <3> QED BY <3>1, Zenon
  <2>4. TransportOK(r.t) /\ r.t.pol = t.pol /\ r.t.seq = t.seq /\ r.t.win = t.win
    BY <1>1, <1>2, <2>1 DEF TransportOK, TransportFields
  <2> QED BY <1>2, <2>2, <2>3, <2>4, Zenon DEF Inbound
<1>7. CASE esp
  <2> DEFINE f == InboundFlow(t.pol, q.spi)
  <2>1. pr.st = "packet" /\ q.proto = "esp"
    BY <1>7, Zenon
  <2> HIDE DEF v, pr, plain, st, esp
  <2>2. q.seq \in 0..MaxSeq
    BY <1>1, <2>1 DEF WholeOK, PacketOK
  <2>3. \/ /\ v.ok /\ f \in Flows /\ q.seq \in 1..MaxSeq /\ Check(t.win[f], q.seq)
           /\ Authentic(q, g, pr.blocks) /\ Selected(q, t.pol[f])
           /\ v.win = [t.win EXCEPT ![f] = Take(t.win[f], q.seq)]
        \/ ~v.ok /\ v.win = t.win
    <3>1. v = Verdict(t, g, q, pr.blocks)
      BY <1>4, <1>7, Zenon
    <3>2. f = InboundFlow(t.pol, q.spi)
      BY Zenon DEF f
    <3> HIDE DEF f
    <3> QED BY <2>2, <3>1, <3>2, VerdictOK
  <2> HIDE DEF f
  <2>4. t.win \in [Flows -> Windows(MaxSeq)]
    BY DEF TransportOK
  <2>5. v.win \in [Flows -> Windows(MaxSeq)]
    <3>1. CASE v.ok
      <4>1. /\ f \in Flows /\ q.seq \in 1..MaxSeq /\ Check(t.win[f], q.seq)
            /\ v.win = [t.win EXCEPT ![f] = Take(t.win[f], q.seq)]
        BY <2>3, <3>1, Zenon
      <4>2. Take(t.win[f], q.seq) \in Windows(MaxSeq)
        BY <2>2, <2>4, <4>1, TakeTyped
      <4> QED BY <2>4, <4>1, <4>2
    <3>2. CASE ~v.ok
      BY <2>3, <2>4, <3>2, Zenon
    <3> QED BY <3>1, <3>2, Zenon
  <2>6. TransportOK(r.t) /\ r.t.pol = t.pol /\ r.t.seq = t.seq /\ r.t.win = v.win
    BY <1>1, <1>2, <2>5 DEF TransportOK, TransportFields
  <2>7. CASE v.ok
    <3>1. /\ f \in Flows /\ q.seq \in 1..MaxSeq /\ Check(t.win[f], q.seq)
          /\ Authentic(q, g, pr.blocks) /\ Selected(q, t.pol[f])
          /\ v.win = [t.win EXCEPT ![f] = Take(t.win[f], q.seq)]
      BY <2>3, <2>7, Zenon
    <3>2. st = "packet"
      BY <1>5, <2>1, <2>7, Zenon
    <3>3. q.spi = t.pol[f].in
      BY <3>1 DEF InboundFlow, Flows, f
    <3>4. Verified(q, g, t.pol)
      BY <2>1, <3>1, <3>3 DEF Verified, Authentic, Selected
    <3>5. f = InboundFlow(t.pol, q.spi)
      BY Zenon DEF f
    <3> QED BY <1>2, <2>1, <2>6, <3>1, <3>2, <3>4, <3>5, ZenonT(30) DEF Inbound
  <2>8. CASE ~v.ok
    <3>1. st # "packet" /\ v.win = t.win
      BY <1>5, <2>3, <2>8, Zenon
    <3> QED BY <1>2, <2>6, <3>1, Zenon DEF Inbound
  <2> QED BY <2>7, <2>8, Zenon
<1> QED
  BY <1>6, <1>7, Zenon

-----------------------------------------------------------------------------
(* The inductive invariant.  What depends on the transports has them as an argument. *)

TransportsOK(ts) == IsSeq(ts) /\ \A g \in 1..Len(ts) : TransportOK(ts[g])

SenderFields == {"pc", "p", "gen", "out", "k"}

\* What a sender is about to hand over was transformed by the transport it has loaded.
SenderOK(x, ts) ==
  /\ DOMAIN x = SenderFields /\ x = [f \in SenderFields |-> x[f]]
  /\ x.pc \in {"idle", "transform", "send"} /\ x.gen \in 0..Len(ts)
  /\ x.pc = "transform" => PacketOK(x.p) /\ x.k = 1
  /\ x.pc = "send" => /\ IsSeq(x.out) /\ x.k \in 1..Len(x.out)
                      /\ x.gen # 0 => \A i \in 1..Len(x.out) : MayLeave(x.out[i], ts[x.gen].pol)

SendersOK(xs, ts) ==
  DOMAIN xs = Senders /\ xs = [s \in Senders |-> xs[s]] /\ \A s \in Senders : SenderOK(xs[s], ts)

WireOK(ws, ts) ==
  \A w \in ws : w.gen \in 0..Len(ts) /\ (w.gen # 0 => MayLeave(w.p, ts[w.gen].pol))

Counts(h) == IsFiniteSet(h.set) /\ h.n = Cardinality(h.set)

\* No number beyond the counter was given.
AssignedOK(h, ts) ==
  /\ Counts(h)
  /\ \A x \in h.set : /\ x[1] \in 1..Len(ts) /\ x[2] \in Flows
                      /\ x[3] \in 1..MaxSeq /\ x[3] <= ts[x[1]].seq[x[2]]

\* What was accepted is used up in the window of the flow it came on.
AcceptedOK(h, ts) ==
  /\ Counts(h)
  /\ \A x \in h.set : LET f == InboundFlow(ts[x[1]].pol, x[2])
                      IN  x[1] \in 1..Len(ts) /\ x[3] \in 1..MaxSeq /\ f \in Flows /\ Used(ts[x[1]].win[f], x[3])

\* What a window remembers was accepted.
RememberedOK(h, ts) ==
  \A g \in 1..Len(ts), f \in Flows, m \in 0..MaxSeq :
    Remembered(ts[g].win[f], m) => <<g, ts[g].pol[f].in, m>> \in h.set

PumpFields == {"pc", "p", "gen"}

PumpOK(x, ts) ==
  /\ DOMAIN x = PumpFields /\ x = [f \in PumpFields |-> x[f]]
  /\ x.pc \in PumpStates /\ x.gen \in 0..Len(ts)
  /\ x.pc = "deliver" /\ x.gen # 0 => Verified(x.p, x.gen, ts[x.gen].pol)

QueueOK(q, ts) ==
  /\ IsSeq(q) /\ Len(q) <= QueueSize
  /\ \A i \in 1..Len(q) :
       q[i].gen \in 0..Len(ts) /\ (q[i].gen # 0 => Verified(q[i].p, q[i].gen, ts[q[i].gen].pol))

InstalledOK == scenario \in Scenarios /\ transport \in 0..Len(tr) /\ Len(tr) <= scenario.installs

IPsecInv ==
  /\ InstalledOK /\ TransportsOK(tr)
  /\ SendersOK(snd, tr) /\ WireOK(wire, tr) /\ AssignedOK(assigned, tr)
  /\ AcceptedOK(accepted, tr) /\ RememberedOK(accepted, tr) /\ PumpOK(pump, tr) /\ QueueOK(queue, tr)

\* Generations are added; the policy of one never changes.
Grows(ts, us) ==
  Len(ts) \in Nat /\ Len(us) \in Nat /\ Len(ts) <= Len(us) /\ \A g \in 1..Len(ts) : us[g].pol = ts[g].pol

LEMMA SendersKept ==
  ASSUME NEW ts, NEW us, Grows(ts, us), NEW xs, SendersOK(xs, ts)
  PROVE  SendersOK(xs, us)
<1>1. ASSUME NEW s \in Senders
      PROVE  SenderOK(xs[s], us)
  <2> DEFINE x == xs[s]
  <2>1. SenderOK(x, ts)
    BY DEF SendersOK
  <2> HIDE DEF x
  <2>2. x.gen \in 0..Len(us) /\ (x.gen # 0 => us[x.gen].pol = ts[x.gen].pol)
    BY <2>1 DEF SenderOK, Grows
  <2> HIDE DEF x
  <2>3. SenderOK(x, us)
    BY <2>1, <2>2, Zenon DEF SenderOK
  <2> QED BY <2>3 DEF x
<1> QED BY <1>1 DEF SendersOK

LEMMA SenderSet ==
  ASSUME NEW ts, NEW xs, SendersOK(xs, ts), NEW s \in Senders, NEW x, SenderOK(x, ts),
         NEW ys, ys = [xs EXCEPT ![s] = x]
  PROVE  SendersOK(ys, ts)
BY DEF SendersOK

LEMMA WireKept ==
  ASSUME NEW ts, NEW us, Grows(ts, us), NEW ws, WireOK(ws, ts)
  PROVE  WireOK(ws, us)
<1>1. ASSUME NEW w \in ws
      PROVE  w.gen \in 0..Len(us) /\ (w.gen # 0 => MayLeave(w.p, us[w.gen].pol))
  <2>1. w.gen \in 0..Len(ts) /\ (w.gen # 0 => MayLeave(w.p, ts[w.gen].pol))
    BY Zenon DEF WireOK
  <2>2. w.gen \in 0..Len(us) /\ (w.gen # 0 => us[w.gen].pol = ts[w.gen].pol)
    BY <2>1 DEF Grows
  <2> QED BY <2>1, <2>2, Zenon
<1> QED BY <1>1, Zenon DEF WireOK

LEMMA PumpKept ==
  ASSUME NEW ts, NEW us, Grows(ts, us), NEW x, PumpOK(x, ts)
  PROVE  PumpOK(x, us)
<1>1. x.gen \in 0..Len(us) /\ (x.gen # 0 => us[x.gen].pol = ts[x.gen].pol)
  BY DEF PumpOK, Grows
<1> QED BY <1>1, Zenon DEF PumpOK

LEMMA QueueKept ==
  ASSUME NEW ts, NEW us, Grows(ts, us), NEW q, QueueOK(q, ts)
  PROVE  QueueOK(q, us)
<1>1. ASSUME NEW i \in 1..Len(q)
      PROVE  q[i].gen \in 0..Len(us) /\ (q[i].gen # 0 => Verified(q[i].p, q[i].gen, us[q[i].gen].pol))
  <2>1. q[i].gen \in 0..Len(ts) /\ (q[i].gen # 0 => Verified(q[i].p, q[i].gen, ts[q[i].gen].pol))
    BY Zenon DEF QueueOK
  <2>2. q[i].gen \in 0..Len(us) /\ (q[i].gen # 0 => us[q[i].gen].pol = ts[q[i].gen].pol)
    BY <2>1 DEF Grows
  <2> QED BY <2>1, <2>2, Zenon
<1> QED BY <1>1, Zenon DEF QueueOK

LEMMA AssignedKept ==
  ASSUME NEW ts, NEW us, Grows(ts, us), TransportsOK(ts), TransportsOK(us),
         \A g \in 1..Len(ts), f \in Flows : ts[g].seq[f] <= us[g].seq[f],
         NEW h, AssignedOK(h, ts)
  PROVE  AssignedOK(h, us)
<1>1. ASSUME NEW x \in h.set
      PROVE  x[1] \in 1..Len(us) /\ x[2] \in Flows /\ x[3] \in 1..MaxSeq /\ x[3] <= us[x[1]].seq[x[2]]
  <2> DEFINE g == x[1]  f == x[2]  n == x[3]
  <2>1. g \in 1..Len(ts) /\ f \in Flows /\ n \in 1..MaxSeq /\ n <= ts[g].seq[f]
    BY Zenon DEF AssignedOK
  <2> HIDE DEF g, f, n
  <2>2. g \in 1..Len(us)
    BY <2>1 DEF Grows
  <2>3. ts[g].seq \in [Flows -> Nat] /\ us[g].seq \in [Flows -> Nat]
    BY <2>1, <2>2, Zenon DEF TransportsOK, TransportOK
  <2>4. ts[g].seq[f] \in Nat /\ us[g].seq[f] \in Nat /\ ts[g].seq[f] <= us[g].seq[f]
    BY <2>1, <2>3
  <2>5. n <= us[g].seq[f]
    BY <2>1, <2>4, DataplaneAssumption
  <2> QED BY <2>1, <2>2, <2>5, Zenon DEF g, f, n
<1> QED BY <1>1, Zenon DEF AssignedOK

LEMMA AcceptedKept ==
  ASSUME NEW ts, NEW us, Grows(ts, us), \A g \in 1..Len(ts) : us[g].win = ts[g].win,
         \A g \in 1..Len(us), f \in Flows : g \notin 1..Len(ts) => ~us[g].win[f].initialized,
         NEW h, AcceptedOK(h, ts), RememberedOK(h, ts)
  PROVE  AcceptedOK(h, us) /\ RememberedOK(h, us)
<1>1. ASSUME NEW g \in 1..Len(ts)
      PROVE  g \in 1..Len(us) /\ us[g].pol = ts[g].pol /\ us[g].win = ts[g].win
  BY DEF Grows
<1>2. AcceptedOK(h, us)
  <2>1. ASSUME NEW x \in h.set
        PROVE  /\ x[1] \in 1..Len(us) /\ x[3] \in 1..MaxSeq /\ InboundFlow(us[x[1]].pol, x[2]) \in Flows
               /\ Used(us[x[1]].win[InboundFlow(us[x[1]].pol, x[2])], x[3])
    <3>1. /\ x[1] \in 1..Len(ts) /\ x[3] \in 1..MaxSeq /\ InboundFlow(ts[x[1]].pol, x[2]) \in Flows
          /\ Used(ts[x[1]].win[InboundFlow(ts[x[1]].pol, x[2])], x[3])
      BY Zenon DEF AcceptedOK
    <3>2. x[1] \in 1..Len(us) /\ us[x[1]].pol = ts[x[1]].pol /\ us[x[1]].win = ts[x[1]].win
      BY <1>1, <3>1, Zenon
    <3> QED BY <3>1, <3>2, Zenon
  <2> QED BY <2>1, Zenon DEF AcceptedOK
<1>3. RememberedOK(h, us)
  <2>1. ASSUME NEW g \in 1..Len(us), NEW f \in Flows, NEW m \in 0..MaxSeq, Remembered(us[g].win[f], m)
        PROVE  <<g, us[g].pol[f].in, m>> \in h.set
    <3>1. g \in 1..Len(ts)
      BY <2>1, Zenon DEF Remembered
    <3>2. us[g].pol = ts[g].pol /\ us[g].win = ts[g].win
      BY <1>1, <3>1, Zenon
    <3>3. Remembered(ts[g].win[f], m)
      BY <2>1, <3>2, Zenon
    <3> QED BY <3>1, <3>2, <3>3, Zenon DEF RememberedOK
  <2> QED BY <2>1, Zenon DEF RememberedOK
<1> QED BY <1>2, <1>3

\* The generation g, and nothing else, became t.
Replaced(ts, g, t, us) ==
  /\ TransportsOK(us) /\ Len(us) = Len(ts) /\ Grows(ts, us)
  /\ us[g] = t /\ \A h \in 1..Len(ts) : h # g => us[h] = ts[h]

LEMMA TransportSet ==
  ASSUME NEW ts, TransportsOK(ts), NEW g \in 1..Len(ts), NEW t, TransportOK(t), t.pol = ts[g].pol,
         NEW us, us = [ts EXCEPT ![g] = t]
  PROVE  Replaced(ts, g, t, us)
<1>1. IsSeq(ts)
  BY DEF TransportsOK
<1>2. DOMAIN us = 1..Len(ts) /\ us = [i \in 1..Len(ts) |-> us[i]] /\ Len(ts) \in Nat
  BY <1>1 DEF IsSeq
<1>3. IsSeq(us) /\ Len(us) = Len(ts)
  BY <1>2, MapIs
<1>4. us[g] = t /\ \A h \in 1..Len(ts) : h # g => us[h] = ts[h]
  BY <1>1 DEF IsSeq
<1>5. \A h \in 1..Len(ts) : TransportOK(us[h]) /\ us[h].pol = ts[h].pol
  BY <1>4, Zenon DEF TransportsOK
<1>6. TransportsOK(us)
  BY <1>3, <1>5, Zenon DEF TransportsOK
<1>7. Grows(ts, us)
  BY <1>2, <1>3, <1>5 DEF Grows
<1> QED BY <1>3, <1>4, <1>6, <1>7, Zenon DEF Replaced

LEMMA CountedOK ==
  ASSUME NEW h, Counts(h), NEW x, x \notin h.set, NEW k, k = Counted(h, x)
  PROVE  Counts(k) /\ k.set = h.set \cup {x}
<1>1. k.set = h.set \cup {x} /\ k.n = h.n + 1
  BY DEF Counted
<1>2. IsFiniteSet(h.set \cup {x}) /\ Cardinality(h.set \cup {x}) = Cardinality(h.set) + 1
  BY FS_AddElement DEF Counts
<1> QED BY <1>1, <1>2 DEF Counts

\* The pieces of what was encapsulated are ESP too.
LEMMA PiecesLeave ==
  ASSUME NEW p, NEW q, DOMAIN q = PacketFields, q.len \in Nat, NEW pol, MayLeave(q, pol), NEW out, out = Packets(p, q)
  PROVE  IsSeq(out) /\ 1 \in 1..Len(out) /\ \A i \in 1..Len(out) : MayLeave(out[i], pol)
<1> DEFINE cut == p.proto = "udp" /\ q.proto = "esp" /\ q.len > Mtu
           chunk == IF Family = 6 THEN Mtu - 1 ELSE Mtu
           fs == Fragments(fragID + 1, q.len, chunk)
           n == (q.len + chunk - 1) \div chunk
<1>1. CASE cut
  <2>1. out = [i \in DOMAIN fs |-> Piece(q, fs[i])]
    BY <1>1, Zenon DEF Packets
  <2>2. DOMAIN fs = 1..n
    BY DEF Fragments
  <2>3. chunk \in Nat /\ chunk > 0 /\ q.len >= chunk
    BY <1>1, DataplaneAssumption
  <2> HIDE DEF chunk
  <2>4. n \in Nat /\ n >= 1
    BY <2>3
  <2> HIDE DEF n, fs
  <2>5. DOMAIN out = 1..n /\ out = [i \in 1..n |-> out[i]] /\ \A i \in 1..n : out[i] = Piece(q, fs[i])
    BY <2>1, <2>2
  <2>6. IsSeq(out) /\ Len(out) = n
    BY <2>4, <2>5, MapIs
  <2>7. ASSUME NEW i \in 1..n
        PROVE  MayLeave(out[i], pol)
    <3> DEFINE x == out[i]
    <3>1. x = [q EXCEPT !.frag = fs[i]]
      BY <2>5 DEF Piece
    <3> HIDE DEF x
    <3>2. x.proto = "esp"
      BY <1>1, <3>1 DEF PacketFields
    <3>3. MayLeave(x, pol)
      BY <3>2 DEF MayLeave, OverIP
    <3> QED BY <3>3, Zenon DEF x
  <2> QED BY <2>4, <2>6, <2>7
<1>2. CASE ~cut
  <2>1. out = <<q>>
    BY <1>2, Zenon DEF Packets
  <2>2. Len(out) = 1 /\ out[1] = q /\ IsSeq(out)
    BY <2>1 DEF IsSeq
  <2> QED BY <2>2
<1> QED BY <1>1, <1>2

-----------------------------------------------------------------------------
(* The initial state *)

LEMMA InitInv == Init => IPsecInv
<1> SUFFICES ASSUME Init
             PROVE  IPsecInv
  OBVIOUS
<1> USE DEF Init
<1>1. IsSeq(tr) /\ Len(tr) = 0
  BY EmptyIs
<1>2. InstalledOK
  <2>1. scenario.installs \in Nat
    BY ScenarioAssumption
  <2> QED BY <1>1, <2>1 DEF InstalledOK
<1>3. TransportsOK(tr)
  BY <1>1 DEF TransportsOK
<1>4. SendersOK(snd, tr)
  <2> DEFINE x == Idle
  <2>1. SenderOK(x, tr)
    BY <1>1 DEF SenderOK, SenderFields, Idle
  <2>2. snd = [s \in Senders |-> x]
    OBVIOUS
  <2> HIDE DEF x
  <2> QED BY <2>1, <2>2 DEF SendersOK
<1>5. Counts([set |-> {}, n |-> 0])
  BY FS_EmptySet DEF Counts
<1>6. WireOK(wire, tr) /\ AssignedOK(assigned, tr) /\ AcceptedOK(accepted, tr)
  BY <1>5 DEF WireOK, AssignedOK, AcceptedOK
<1>7. RememberedOK(accepted, tr)
  BY <1>1 DEF RememberedOK
<1>8. PumpOK(pump, tr)
  <2>1. pump.pc = "wait" /\ pump.gen = 0 /\ DOMAIN pump = PumpFields /\ pump = [f \in PumpFields |-> pump[f]]
    BY DEF PumpFields
  <2> QED BY <1>1, <2>1 DEF PumpOK, PumpStates
<1>9. QueueOK(queue, tr)
  BY EmptyIs, DataplaneAssumption DEF QueueOK
<1> QED BY <1>2, <1>3, <1>4, <1>6, <1>7, <1>8, <1>9, Zenon DEF IPsecInv

-----------------------------------------------------------------------------
(* The senders *)

LEMMA IdleOK ==
  ASSUME NEW ts, Len(ts) \in Nat
  PROVE  SenderOK(Idle, ts)
BY DEF SenderOK, SenderFields, Idle

\* Only the sender s, and perhaps the wire, changes.
LEMMA SenderMoves ==
  ASSUME IPsecInv, NEW s \in Senders, NEW x, SenderOK(x, tr), snd' = [snd EXCEPT ![s] = x],
         WireOK(wire', tr), UNCHANGED <<scenario, transport, tr, assigned, accepted, pump, queue>>
  PROVE  IPsecInv'
<1>1. SendersOK(snd', tr)
  BY SenderSet, Zenon DEF IPsecInv
<1> QED BY <1>1, Zenon DEF IPsecInv, InstalledOK

LEMMA SendLoadsInv ==
  ASSUME IPsecInv, NEW s \in Senders, SendLoads(s)
  PROVE  IPsecInv'
<1>1. PICK p \in scenario.out :
        snd' = [snd EXCEPT ![s] = [pc |-> "transform", p |-> p, gen |-> transport, out |-> <<>>, k |-> 1]]
  BY Zenon DEF SendLoads
<1> DEFINE x == [pc |-> "transform", p |-> p, gen |-> transport, out |-> <<>>, k |-> 1]
<1>2. PacketOK(p)
  BY PacketsTyped, Zenon DEF IPsecInv, InstalledOK
<1>3. SenderOK(x, tr)
  <2>1. /\ DOMAIN x = SenderFields /\ x = [f \in SenderFields |-> x[f]]
        /\ x.pc = "transform" /\ x.gen = transport /\ x.p = p /\ x.k = 1
    BY DEF SenderFields
  <2> HIDE DEF x
  <2>2. transport \in 0..Len(tr)
    BY Zenon DEF IPsecInv, InstalledOK
  <2> QED BY <1>2, <2>1, <2>2 DEF SenderOK
<1> HIDE DEF x
<1>4. snd' = [snd EXCEPT ![s] = x]
  BY <1>1, Zenon DEF x
<1>5. UNCHANGED <<scenario, transport, tr, assigned, accepted, pump, queue, wire>>
  BY DEF SendLoads, inVars
<1>6. WireOK(wire', tr)
  BY <1>5, Zenon DEF IPsecInv
<1> QED BY <1>3, <1>4, <1>5, <1>6, SenderMoves, Zenon

LEMMA SendBareInv ==
  ASSUME IPsecInv, NEW s \in Senders, SendBare(s)
  PROVE  IPsecInv'
<1> DEFINE y == snd[s]
           x == [y EXCEPT !.pc = "send", !.out = <<y.p>>]
<1>1. SenderOK(y, tr)
  BY Zenon DEF IPsecInv, SendersOK
<1>2. y.pc = "transform" /\ y.gen = 0 /\ snd' = [snd EXCEPT ![s] = x]
  BY DEF SendBare
<1> HIDE DEF y
<1>3. SenderOK(x, tr)
  <2>1. /\ DOMAIN x = SenderFields /\ x = [f \in SenderFields |-> x[f]]
        /\ x.pc = "send" /\ x.gen = 0 /\ x.out = <<y.p>> /\ x.k = y.k
    BY <1>1, <1>2 DEF SenderOK, SenderFields
  <2>2. 0 \in 0..Len(tr)
    BY <1>1 DEF SenderOK
  <2>3. y.k = 1
    BY <1>1, <1>2, Zenon DEF SenderOK
  <2>4. IsSeq(x.out) /\ x.k \in 1..Len(x.out)
    BY <2>1, <2>3 DEF IsSeq
  <2>5. x.pc \in {"idle", "transform", "send"} /\ x.pc # "transform"
    BY <2>1
  <2> HIDE DEF x
  <2> QED BY <2>1, <2>2, <2>4, <2>5, Zenon DEF SenderOK
<1> HIDE DEF x
<1>5. UNCHANGED <<scenario, transport, tr, assigned, accepted, pump, queue, wire>>
  BY DEF SendBare, inVars
<1>6. WireOK(wire', tr)
  BY <1>5, Zenon DEF IPsecInv
<1> QED BY <1>2, <1>3, <1>5, <1>6, SenderMoves, Zenon

LEMMA SendHandsInv ==
  ASSUME IPsecInv, NEW s \in Senders, SendHands(s)
  PROVE  IPsecInv'
<1> DEFINE y == snd[s]
           x == IF y.k < Len(y.out) THEN [y EXCEPT !.k = y.k + 1] ELSE Idle
           w == [p |-> y.out[y.k], gen |-> y.gen]
<1>1. SenderOK(y, tr)
  BY Zenon DEF IPsecInv, SendersOK
<1>2. y.pc = "send" /\ snd' = [snd EXCEPT ![s] = x] /\ wire' = wire \cup {w}
  BY Zenon DEF SendHands
<1>3. w.p = y.out[y.k] /\ w.gen = y.gen
  OBVIOUS
<1> HIDE DEF y, w
<1>4. SenderOK(x, tr)
  <2>1. CASE y.k < Len(y.out)
    <3> DEFINE n == y.k + 1
    <3>1. y.k \in 1..Len(y.out) /\ Len(y.out) \in Nat
      BY <1>1, <1>2 DEF SenderOK, IsSeq
    <3>2. n \in 1..Len(y.out)
      BY <2>1, <3>1
    <3>3. x = [y EXCEPT !.k = n]
      BY <2>1
    <3> HIDE DEF n, x
    <3>4. /\ DOMAIN x = SenderFields /\ x = [f \in SenderFields |-> x[f]]
          /\ x.pc = y.pc /\ x.gen = y.gen /\ x.out = y.out /\ x.p = y.p /\ x.k = n
      BY <1>1, <3>3 DEF SenderOK, SenderFields
    <3> QED BY <1>1, <1>2, <3>2, <3>4, Zenon DEF SenderOK
  <2>2. CASE ~(y.k < Len(y.out))
    <3>1. Len(tr) \in Nat
      BY DEF IPsecInv, TransportsOK, IsSeq
    <3> QED BY <2>2, <3>1, IdleOK
  <2> QED BY <2>1, <2>2
<1> HIDE DEF x
<1>5. UNCHANGED <<scenario, transport, tr, assigned, accepted, pump, queue>>
  BY DEF SendHands, inVars
<1>6. WireOK(wire', tr)
  <2>1. w.gen \in 0..Len(tr) /\ (w.gen # 0 => MayLeave(w.p, tr[w.gen].pol))
    BY <1>1, <1>2, <1>3, Zenon DEF SenderOK
  <2>2. WireOK(wire, tr)
    BY Zenon DEF IPsecInv
  <2> QED BY <1>2, <2>1, <2>2, Zenon DEF WireOK
<1> QED BY <1>2, <1>4, <1>5, <1>6, SenderMoves, Zenon

LEMMA SendFailsInv ==
  ASSUME IPsecInv, NEW s \in Senders, SendFails(s)
  PROVE  IPsecInv'
<1>1. SenderOK(Idle, tr)
  BY IdleOK DEF IPsecInv, TransportsOK, IsSeq
<1>2. snd' = [snd EXCEPT ![s] = Idle]
  BY Zenon DEF SendFails
<1>3. UNCHANGED <<scenario, transport, tr, assigned, accepted, pump, queue, wire>>
  BY DEF SendFails, inVars
<1>4. WireOK(wire', tr)
  BY <1>3, Zenon DEF IPsecInv
<1> QED BY <1>1, <1>2, <1>3, <1>4, SenderMoves, Zenon

\* The number given is the first one beyond the counter, so it was not given before.
LEMMA SendTransformsInv ==
  ASSUME IPsecInv, NEW s \in Senders, SendTransforms(s)
  PROVE  IPsecInv'
<1> DEFINE y == snd[s]
           g == y.gen
           t == tr[g]
           r == TransformOutbound(t, g, y.p)
           ps == Packets(y.p, r.p)
           e == <<g, r.flow, r.n>>
           given == r.st = "packet" /\ r.flow # ""
<1>1. SenderOK(y, tr) /\ SendersOK(snd, tr) /\ TransportsOK(tr) /\ AssignedOK(assigned, tr)
  BY Zenon DEF IPsecInv, SendersOK
<1>2. /\ y.pc = "transform" /\ g # 0 /\ tr' = [tr EXCEPT ![g] = r.t]
      /\ assigned' = IF given THEN Counted(assigned, e) ELSE assigned
      /\ IF r.st = "packet" THEN snd' = [snd EXCEPT ![s].pc = "send", ![s].out = ps]
                            ELSE snd' = [snd EXCEPT ![s] = Idle]
  BY Zenon DEF SendTransforms
<1>3. UNCHANGED <<scenario, transport, accepted, pump, queue, wire>>
  BY DEF SendTransforms, inVars
<1>4. PacketOK(y.p) /\ y.k = 1 /\ g \in 0..Len(tr) /\ DOMAIN y = SenderFields /\ y = [f \in SenderFields |-> y[f]]
  BY <1>1, <1>2, Zenon DEF SenderOK
<1> HIDE DEF y
<1>5. IsSeq(tr) /\ Len(tr) \in Nat
  BY <1>1 DEF TransportsOK, IsSeq
<1>6. g \in 1..Len(tr)
  <2>1. g # 0
    BY <1>2, Zenon
  <2> QED BY <1>4, <1>5, <2>1
<1> HIDE DEF g
<1>7. TransportOK(t)
  BY <1>1, <1>6, Zenon DEF TransportsOK
<1> HIDE DEF t
<1>8. /\ TransportOK(r.t) /\ r.t.pol = t.pol /\ r.t.win = t.win /\ \A f \in Flows : t.seq[f] <= r.t.seq[f]
      /\ given => r.flow \in Flows /\ r.n = t.seq[r.flow] + 1 /\ r.n \in 1..MaxSeq /\ r.t.seq[r.flow] = r.n
      /\ r.st = "packet" => DOMAIN r.p = PacketFields /\ r.p.len \in Nat /\ MayLeave(r.p, t.pol)
  BY <1>4, <1>7, OutboundOK, ZenonT(60)
<1> HIDE DEF r, ps
<1>9. /\ TransportsOK(tr') /\ Len(tr') = Len(tr) /\ Grows(tr, tr')
      /\ tr'[g] = r.t /\ \A h \in 1..Len(tr) : h # g => tr'[h] = tr[h]
  <2>1. r.t.pol = tr[g].pol
    BY <1>8, Zenon DEF t
  <2> DEFINE u == r.t
             ts == tr'
  <2>2. ts = [tr EXCEPT ![g] = u] /\ TransportOK(u) /\ u.pol = tr[g].pol
    BY <1>2, <1>8, <2>1, Zenon
  <2> HIDE DEF u, ts
  <2>3. Replaced(tr, g, u, ts)
    BY <1>1, <1>6, <2>2, TransportSet
  <2> QED BY <2>3, Zenon DEF u, ts, Replaced
<1>10. \A h \in 1..Len(tr), f \in Flows : tr[h].seq[f] <= tr'[h].seq[f]
  <2>1. ASSUME NEW h \in 1..Len(tr), NEW f \in Flows
        PROVE  tr[h].seq[f] <= tr'[h].seq[f]
    <3>1. CASE h = g
      BY <1>8, <1>9, <3>1, Zenon DEF t
    <3>2. CASE h # g
      <4>1. tr'[h] = tr[h]
        BY <1>9, <3>2, Zenon
      <4>2. TransportOK(tr[h])
        BY <1>1, Zenon DEF TransportsOK
      <4>3. tr[h].seq[f] \in Nat
        BY <4>2 DEF TransportOK
      <4> QED BY <4>1, <4>3
    <3> QED BY <3>1, <3>2
  <2> QED BY <2>1
<1>11. AssignedOK(assigned, tr')
  BY <1>1, <1>9, <1>10, AssignedKept, ZenonT(60)
<1>12. AssignedOK(assigned', tr')
  <2>1. CASE given
    <3> DEFINE f == r.flow  n == r.n
    <3>1. f \in Flows /\ n = t.seq[f] + 1 /\ n \in 1..MaxSeq /\ r.t.seq[f] = n
      BY <1>8, <2>1, Zenon
    <3>2. e[1] = g /\ e[2] = f /\ e[3] = n
      OBVIOUS
    <3>3. t.seq[f] \in Nat
      BY <1>7, <3>1 DEF TransportOK
    <3> HIDE DEF f, n, e
    <3>4. e \notin assigned.set
      <4>1. SUFFICES ASSUME e \in assigned.set
                     PROVE  FALSE
        OBVIOUS
      <4>2. e[3] <= tr[e[1]].seq[e[2]]
        BY <1>1, <4>1, Zenon DEF AssignedOK
      <4>3. n <= t.seq[f]
        BY <3>2, <4>2, Zenon DEF t
      <4> QED BY <3>1, <3>3, <4>3
    <3>5. assigned' = Counted(assigned, e) /\ Counts(assigned)
      BY <1>1, <1>2, <2>1, Zenon DEF AssignedOK
    <3>6. Counts(assigned') /\ assigned'.set = assigned.set \cup {e}
      BY <3>4, <3>5, CountedOK, Zenon
    <3>7. /\ e[1] \in 1..Len(tr') /\ e[2] \in Flows /\ e[3] \in 1..MaxSeq
          /\ e[3] <= tr'[e[1]].seq[e[2]]
      <4>1. tr'[g].seq[f] = n /\ n <= n
        BY <1>9, <3>1, DataplaneAssumption
      <4> QED BY <1>6, <1>9, <3>1, <3>2, <4>1, Zenon
    <3> QED BY <1>11, <3>6, <3>7, Zenon DEF AssignedOK
  <2>2. CASE ~given
    BY <1>2, <1>11, <2>2, Zenon
  <2> QED BY <2>1, <2>2, Zenon
<1>13. AcceptedOK(accepted', tr') /\ RememberedOK(accepted', tr')
  <2>1. \A h \in 1..Len(tr) : tr'[h].win = tr[h].win
    BY <1>8, <1>9, Zenon DEF t
  <2>2. \A h \in 1..Len(tr'), f \in Flows : h \notin 1..Len(tr) => ~tr'[h].win[f].initialized
    BY <1>9, Zenon
  <2>3. AcceptedOK(accepted, tr) /\ RememberedOK(accepted, tr)
    BY Zenon DEF IPsecInv
  <2>4. AcceptedOK(accepted, tr') /\ RememberedOK(accepted, tr')
    BY <1>9, <2>1, <2>2, <2>3, AcceptedKept, ZenonT(60)
  <2> QED BY <1>3, <2>4, Zenon
<1>14. SendersOK(snd, tr')
  BY <1>1, <1>9, SendersKept, Zenon
<1>15. SendersOK(snd', tr')
  <2>1. CASE r.st = "packet"
    <3> DEFINE x == [y EXCEPT !.pc = "send", !.out = ps]
    <3>1. snd' = [snd EXCEPT ![s] = x]
      <4>1. snd' = [snd EXCEPT ![s].pc = "send", ![s].out = ps]
        BY <1>2, <2>1, Zenon
      <4>2. snd \in [Senders -> {snd[i] : i \in Senders}]
        BY <1>1 DEF SendersOK
      <4> QED BY <4>1, <4>2 DEF y
    <3>2. /\ DOMAIN x = SenderFields /\ x = [f \in SenderFields |-> x[f]]
          /\ x.pc = "send" /\ x.out = ps /\ x.gen = g /\ x.k = 1
      BY <1>4 DEF SenderFields, g
    <3> HIDE DEF x
    <3>3. tr'[g].pol = t.pol
      BY <1>8, <1>9, Zenon
    <3>4. IsSeq(ps) /\ 1 \in 1..Len(ps) /\ \A i \in 1..Len(ps) : MayLeave(ps[i], t.pol)
      BY <1>8, <2>1, PiecesLeave, Zenon DEF ps
    <3>5. x.pc \in {"idle", "transform", "send"} /\ x.pc # "transform"
      BY <3>2
    <3>6. SenderOK(x, tr')
      BY <1>4, <1>9, <3>2, <3>3, <3>4, <3>5, Zenon DEF SenderOK
    <3> QED BY <1>14, <3>1, <3>6, SenderSet, Zenon
  <2>2. CASE r.st # "packet"
    <3>1. snd' = [snd EXCEPT ![s] = Idle]
      BY <1>2, <2>2, Zenon
    <3>2. SenderOK(Idle, tr')
      BY <1>5, <1>9, IdleOK, Zenon
    <3> QED BY <1>14, <3>1, <3>2, SenderSet, Zenon
  <2> QED BY <2>1, <2>2, Zenon
<1>16. WireOK(wire', tr') /\ PumpOK(pump', tr') /\ QueueOK(queue', tr')
  <2>1. WireOK(wire, tr) /\ PumpOK(pump, tr) /\ QueueOK(queue, tr)
    BY Zenon DEF IPsecInv
  <2>2. WireOK(wire, tr') /\ PumpOK(pump, tr') /\ QueueOK(queue, tr')
    BY <1>9, <2>1, WireKept, PumpKept, QueueKept, ZenonT(60)
  <2> QED BY <1>3, <2>2, Zenon
<1>17. InstalledOK'
  <2>1. InstalledOK
    BY Zenon DEF IPsecInv
  <2> QED BY <1>3, <1>9, <2>1, Zenon DEF InstalledOK
<1> QED BY <1>9, <1>12, <1>13, <1>15, <1>16, <1>17, Zenon DEF IPsecInv

-----------------------------------------------------------------------------
(* The receive pump *)

LEMMA InboundFlowIs ==
  ASSUME NEW pol, NEW spi, NEW f \in Flows, f = InboundFlow(pol, spi)
  PROVE  pol[f].in = spi
<1>1. CASE pol["s"].in = spi
  <2>1. f = "s"
    BY <1>1, Zenon DEF InboundFlow
  <2> QED BY <1>1, <2>1, Zenon
<1>2. CASE pol["s"].in # spi /\ pol["c"].in = spi
  <2>1. f = "c"
    BY <1>2, Zenon DEF InboundFlow
  <2> QED BY <1>2, <2>1, Zenon
<1>3. CASE pol["s"].in # spi /\ pol["c"].in # spi
  <2>1. f = ""
    BY <1>3, Zenon DEF InboundFlow
  <2> QED BY <2>1, Zenon DEF Flows
<1> QED BY <1>1, <1>2, <1>3, Zenon

\* A number was taken from the window of its flow, where it was not used up before.
LEMMA TakenOK ==
  ASSUME NEW ts, TransportsOK(ts), NEW g \in 1..Len(ts), NEW spi, NEW n \in 1..MaxSeq,
         NEW f \in Flows, f = InboundFlow(ts[g].pol, spi), Check(ts[g].win[f], n),
         NEW t, TransportOK(t), t.pol = ts[g].pol, t.win = [ts[g].win EXCEPT ![f] = Take(ts[g].win[f], n)],
         NEW us, Replaced(ts, g, t, us),
         NEW h, AcceptedOK(h, ts), RememberedOK(h, ts), NEW k, k = Counted(h, <<g, spi, n>>)
  PROVE  AcceptedOK(k, us) /\ RememberedOK(k, us)
<1> DEFINE w == ts[g].win[f]
           v == us[g].win[f]
           e == <<g, spi, n>>
<1>1. /\ TransportsOK(us) /\ Len(us) = Len(ts) /\ us[g] = t
      /\ \A i \in 1..Len(ts) : i # g => us[i] = ts[i]
  BY Zenon DEF Replaced
<1>2. ts[g].win \in [Flows -> Windows(MaxSeq)]
  BY Zenon DEF TransportsOK, TransportOK
<1>3. w \in Windows(MaxSeq) /\ v = Take(w, n) /\ n \in 0..MaxSeq /\ \A j \in Flows : j # f => us[g].win[j] = ts[g].win[j]
  BY <1>1, <1>2
<1>4. e[1] = g /\ e[2] = spi /\ e[3] = n
  OBVIOUS
<1> HIDE DEF v, e
<1>5. e \notin h.set
  <2>1. SUFFICES ASSUME e \in h.set
                 PROVE  FALSE
    OBVIOUS
  <2>2. Used(ts[e[1]].win[InboundFlow(ts[e[1]].pol, e[2])], e[3])
    BY <2>1, Zenon DEF AcceptedOK
  <2>3. Used(w, n)
    BY <1>4, <2>2, Zenon
  <2> QED BY <2>3, CheckFails, Zenon
<1>6. Counts(k) /\ k.set = h.set \cup {e}
  <2>1. Counts(h) /\ k = Counted(h, e)
    BY Zenon DEF AcceptedOK, e
  <2> QED BY <1>5, <2>1, CountedOK, Zenon
<1>7. ASSUME NEW m \in 1..MaxSeq, m = n \/ Used(w, m)
      PROVE  Used(v, m)
  <2>1. m \in 0..MaxSeq
    BY DataplaneAssumption
  <2> QED BY <1>3, <1>7, <2>1, TakeUses, Zenon
<1>8. ASSUME NEW x \in k.set
      PROVE  /\ x[1] \in 1..Len(us) /\ x[3] \in 1..MaxSeq /\ InboundFlow(us[x[1]].pol, x[2]) \in Flows
             /\ Used(us[x[1]].win[InboundFlow(us[x[1]].pol, x[2])], x[3])
  <2>1. CASE x = e
    <3>1. x[1] = g /\ x[2] = spi /\ x[3] = n
      BY <1>4, <2>1, Zenon
    <3>2. InboundFlow(us[x[1]].pol, x[2]) = f
      BY <1>1, <3>1, Zenon
    <3>3. Used(v, x[3])
      BY <1>7, <3>1, Zenon
    <3> QED BY <1>1, <3>1, <3>2, <3>3, Zenon DEF v
  <2>2. CASE x \in h.set
    <3> DEFINE j == InboundFlow(ts[x[1]].pol, x[2])
    <3>1. x[1] \in 1..Len(ts) /\ x[3] \in 1..MaxSeq /\ j \in Flows /\ Used(ts[x[1]].win[j], x[3])
      BY <2>2, Zenon DEF AcceptedOK
    <3>2. us[x[1]].pol = ts[x[1]].pol
      BY <1>1, <3>1, Zenon
    <3>3. InboundFlow(us[x[1]].pol, x[2]) = j
      BY <3>2, Zenon
    <3> HIDE DEF j
    <3>4. CASE x[1] = g /\ j = f
      <4>1. Used(v, x[3])
        BY <1>7, <3>1, <3>4, Zenon
      <4> QED BY <1>1, <3>1, <3>3, <3>4, <4>1, Zenon DEF v
    <3>5. CASE ~(x[1] = g /\ j = f)
      <4>1. us[x[1]].win[j] = ts[x[1]].win[j]
        BY <1>1, <1>3, <3>1, <3>5, Zenon
      <4> QED BY <1>1, <3>1, <3>3, <4>1, Zenon
    <3> QED BY <3>4, <3>5, Zenon
  <2> QED BY <1>6, <2>1, <2>2, Zenon
<1>9. AcceptedOK(k, us)
  BY <1>6, <1>8, Zenon DEF AcceptedOK
<1>10. ASSUME NEW i \in 1..Len(us), NEW j \in Flows, NEW m \in 0..MaxSeq, Remembered(us[i].win[j], m)
       PROVE  <<i, us[i].pol[j].in, m>> \in k.set
  <2>1. us[i].pol = ts[i].pol /\ i \in 1..Len(ts)
    BY <1>1, Zenon
  <2>2. CASE Remembered(ts[i].win[j], m)
    <3>1. <<i, ts[i].pol[j].in, m>> \in h.set
      BY <2>1, <2>2, Zenon DEF RememberedOK
    <3> QED BY <1>6, <2>1, <3>1, Zenon
  <2>3. CASE ~Remembered(ts[i].win[j], m)
    <3>1. i = g /\ j = f
      BY <1>1, <1>3, <1>10, <2>1, <2>3, Zenon
    <3>2. Remembered(v, m) /\ ~Remembered(w, m) /\ m \in Nat
      BY <1>10, <2>3, <3>1, DataplaneAssumption DEF v
    <3>3. m = n
      <4>1. w \in Windows(MaxSeq) /\ v = Take(w, n) /\ n \in 0..MaxSeq /\ Check(w, n)
        BY <1>3, Zenon
      <4> HIDE DEF w
      <4> QED BY <3>2, <4>1, TakeRemembers
    <3>4. ts[g].pol[f].in = spi
      BY InboundFlowIs
    <3> QED BY <1>6, <2>1, <3>1, <3>3, <3>4, Zenon DEF e
  <2> QED BY <2>2, <2>3, Zenon
<1>11. RememberedOK(k, us)
  BY <1>10, Zenon DEF RememberedOK
<1> QED BY <1>9, <1>11

LEMMA PumpReceivesInv ==
  ASSUME IPsecInv, PumpReceives
  PROVE  IPsecInv'
<1>1. /\ SendersOK(snd, tr) /\ WireOK(wire, tr) /\ AssignedOK(assigned, tr) /\ TransportsOK(tr)
      /\ AcceptedOK(accepted, tr) /\ RememberedOK(accepted, tr) /\ PumpOK(pump, tr) /\ QueueOK(queue, tr)
      /\ InstalledOK
  BY Zenon DEF IPsecInv
<1>2. UNCHANGED <<scenario, transport, snd, wire, assigned, queue>>
  BY DEF PumpReceives, outVars
<1> DEFINE g == transport
           R(p) == IF g = 0 THEN [st |-> "packet", t |-> <<>>, p |-> p, blocks |-> <<>>]
                            ELSE TransformInbound(tr[g], g, p)
<1>3. PICK p \in scenario.in :
        /\ tr' = IF g = 0 THEN tr ELSE [tr EXCEPT ![g] = R(p).t]
        /\ accepted' = IF g # 0 /\ R(p).st = "packet" /\ R(p).p.proto = "esp"
                         THEN Counted(accepted, <<g, R(p).p.spi, R(p).p.seq>>) ELSE accepted
        /\ pump' = IF R(p).st = "packet" THEN [pc |-> "deliver", p |-> R(p).p, gen |-> g] ELSE pump
  BY Zenon DEF PumpReceives
<1> DEFINE r == R(p)
           x == [pc |-> "deliver", p |-> r.p, gen |-> g]
<1>4. IsSeq(tr) /\ Len(tr) \in Nat /\ g \in 0..Len(tr)
  BY <1>1 DEF TransportsOK, IsSeq, InstalledOK
<1>5. x.pc = "deliver" /\ x.p = r.p /\ x.gen = g /\ DOMAIN x = PumpFields /\ x = [f \in PumpFields |-> x[f]]
  BY DEF PumpFields
<1>6. x.pc \in PumpStates
  BY <1>5 DEF PumpStates
<1>7. CASE g = 0
  <2> HIDE DEF g, x
  <2>1. tr' = tr /\ accepted' = accepted /\ (pump' = x \/ pump' = pump)
    BY <1>3, <1>7, Zenon DEF x
  <2>2. PumpOK(x, tr)
    BY <1>4, <1>5, <1>6, <1>7, Zenon DEF PumpOK
  <2>3. PumpOK(pump', tr)
    BY <1>1, <2>1, <2>2, Zenon
  <2> QED BY <1>1, <1>2, <2>1, <2>3, Zenon DEF IPsecInv, InstalledOK
<1>8. CASE g # 0
  <2> DEFINE t == tr[g]
  <2>1. g \in 1..Len(tr)
    BY <1>4, <1>8
  <2>2. r = TransformInbound(t, g, p)
    BY <1>8, Zenon
  <2>3. /\ tr' = [tr EXCEPT ![g] = r.t] /\ (pump' = x \/ pump' = pump) /\ (pump' # pump => r.st = "packet")
        /\ IF r.st = "packet" /\ r.p.proto = "esp"
             THEN accepted' = Counted(accepted, <<g, r.p.spi, r.p.seq>>) ELSE accepted' = accepted
    BY <1>3, <1>8, Zenon
  <2> HIDE DEF g, r, x
  <2>4. TransportOK(t) /\ PacketOK(p)
    BY <1>1, <2>1, PacketsTyped, Zenon DEF TransportsOK, InstalledOK
  <2> HIDE DEF t
  <2>5. /\ TransportOK(r.t) /\ r.t.pol = t.pol /\ r.t.seq = t.seq
        /\ r.st = "packet" => Verified(r.p, g, t.pol)
        /\ \/ r.t.win = t.win /\ ~(r.st = "packet" /\ r.p.proto = "esp")
           \/ \E f \in Flows :
                /\ r.st = "packet" /\ r.p.proto = "esp"
                /\ f = InboundFlow(t.pol, r.p.spi) /\ r.p.seq \in 1..MaxSeq /\ Check(t.win[f], r.p.seq)
                /\ r.t.win = [t.win EXCEPT ![f] = Take(t.win[f], r.p.seq)]
    <3>1. Inbound(t, g, r)
      BY <2>2, <2>4, InboundOK
    <3> QED BY <3>1, Zenon DEF Inbound
  <2>6. Replaced(tr, g, r.t, tr')
    <3> DEFINE u == r.t
               ts == tr'
    <3>1. ts = [tr EXCEPT ![g] = u] /\ TransportOK(u) /\ u.pol = tr[g].pol
      BY <2>3, <2>5, Zenon DEF t
    <3> HIDE DEF u, ts
    <3>2. Replaced(tr, g, u, ts)
      BY <1>1, <2>1, <3>1, TransportSet
    <3> QED BY <3>2, Zenon DEF u, ts
  <2>7. /\ TransportsOK(tr') /\ Len(tr') = Len(tr) /\ Grows(tr, tr')
        /\ tr'[g] = r.t /\ \A h \in 1..Len(tr) : h # g => tr'[h] = tr[h]
    BY <2>6, Zenon DEF Replaced
  <2>8. SendersOK(snd', tr') /\ WireOK(wire', tr') /\ QueueOK(queue', tr') /\ PumpOK(pump, tr')
    <3>1. SendersOK(snd, tr')
      BY <1>1, <2>7, SendersKept, Zenon
    <3>2. WireOK(wire, tr') /\ QueueOK(queue, tr') /\ PumpOK(pump, tr')
      BY <1>1, <2>7, WireKept, QueueKept, PumpKept, ZenonT(60)
    <3> QED BY <1>2, <3>1, <3>2, Zenon
  <2>9. AssignedOK(assigned', tr')
    <3>1. \A h \in 1..Len(tr) : tr'[h].seq = tr[h].seq
      BY <2>5, <2>7, Zenon DEF t
    <3>2. ASSUME NEW h \in 1..Len(tr), NEW f \in Flows
          PROVE  tr[h].seq[f] <= tr'[h].seq[f]
      <4>1. TransportOK(tr[h])
        BY <1>1, Zenon DEF TransportsOK
      <4>2. tr[h].seq[f] \in Nat /\ tr'[h].seq[f] = tr[h].seq[f]
        BY <3>1, <4>1 DEF TransportOK
      <4> QED BY <4>2
    <3>3. AssignedOK(assigned, tr')
      BY <1>1, <2>7, <3>2, AssignedKept, ZenonT(60)
    <3> QED BY <1>2, <3>3, Zenon
  <2>10. AcceptedOK(accepted', tr') /\ RememberedOK(accepted', tr')
    <3>1. CASE r.t.win = t.win /\ ~(r.st = "packet" /\ r.p.proto = "esp")
      <4>1. \A h \in 1..Len(tr) : tr'[h].win = tr[h].win
        BY <2>7, <3>1, Zenon DEF t
      <4>2. \A h \in 1..Len(tr'), f \in Flows : h \notin 1..Len(tr) => ~tr'[h].win[f].initialized
        BY <2>7, Zenon
      <4>3. AcceptedOK(accepted, tr') /\ RememberedOK(accepted, tr')
        BY <1>1, <2>7, <4>1, <4>2, AcceptedKept, ZenonT(60)
      <4> QED BY <2>3, <3>1, <4>3, Zenon
    <3>2. ASSUME NEW f \in Flows, r.st = "packet", r.p.proto = "esp",
                 f = InboundFlow(t.pol, r.p.spi), r.p.seq \in 1..MaxSeq, Check(t.win[f], r.p.seq),
                 r.t.win = [t.win EXCEPT ![f] = Take(t.win[f], r.p.seq)]
          PROVE  AcceptedOK(accepted', tr') /\ RememberedOK(accepted', tr')
      <4> DEFINE u == r.t  n == r.p.seq  spi == r.p.spi  ts == tr'
      <4>1. /\ n \in 1..MaxSeq /\ f = InboundFlow(tr[g].pol, spi) /\ Check(tr[g].win[f], n)
            /\ TransportOK(u) /\ u.pol = tr[g].pol /\ u.win = [tr[g].win EXCEPT ![f] = Take(tr[g].win[f], n)]
            /\ Replaced(tr, g, u, ts)
        BY <2>5, <2>6, <3>2, Zenon DEF t
      <4>2. accepted' = Counted(accepted, <<g, spi, n>>)
        BY <2>3, <3>2, Zenon
      <4> HIDE DEF u, n, spi, ts
      <4>3. AcceptedOK(accepted', ts) /\ RememberedOK(accepted', ts)
        BY <1>1, <2>1, <4>1, <4>2, TakenOK
      <4> QED BY <4>3, Zenon DEF ts
    <3> QED BY <2>5, <3>1, <3>2, Zenon
  <2>11. PumpOK(pump', tr')
    <3>1. CASE pump' = x /\ r.st = "packet"
      <4>1. tr'[g].pol = t.pol
        BY <2>5, <2>7, Zenon
      <4>2. PumpOK(x, tr')
        BY <1>4, <1>5, <1>6, <2>5, <2>7, <3>1, <4>1, Zenon DEF PumpOK
      <4> QED BY <3>1, <4>2, Zenon
    <3>2. CASE pump' = pump
      BY <2>8, <3>2, Zenon
    <3> QED BY <2>3, <3>1, <3>2, Zenon
  <2>12. InstalledOK'
    BY <1>1, <1>2, <2>7, Zenon DEF InstalledOK
  <2> QED BY <2>7, <2>8, <2>9, <2>10, <2>11, <2>12, Zenon DEF IPsecInv
<1> QED BY <1>7, <1>8, Zenon

LEMMA PumpDeliversInv ==
  ASSUME IPsecInv, PumpDelivers
  PROVE  IPsecInv'
<1> DEFINE e == [p |-> pump.p, gen |-> pump.gen]
<1>1. PumpOK(pump, tr) /\ QueueOK(queue, tr)
  BY Zenon DEF IPsecInv
<1>2. /\ pump.pc = "deliver" /\ Len(queue) < QueueSize
      /\ queue' = Append(queue, e) /\ pump' = [pump EXCEPT !.pc = "wait"]
  BY DEF PumpDelivers
<1>3. UNCHANGED <<scenario, transport, tr, snd, wire, assigned, accepted>>
  BY DEF PumpDelivers, outVars
<1>4. e.p = pump.p /\ e.gen = pump.gen
  OBVIOUS
<1>5. e.gen \in 0..Len(tr) /\ (e.gen # 0 => Verified(e.p, e.gen, tr[e.gen].pol))
  <2> HIDE DEF e
  <2> QED BY <1>1, <1>2, <1>4, Zenon DEF PumpOK
<1> HIDE DEF e
<1>6. PumpOK(pump', tr)
  <2>1. /\ DOMAIN pump' = PumpFields /\ pump' = [f \in PumpFields |-> pump'[f]]
        /\ pump'.pc = "wait" /\ pump'.gen = pump.gen
    BY <1>1, <1>2 DEF PumpOK, PumpFields
  <2>2. pump'.pc \in PumpStates /\ pump'.pc # "deliver"
    BY <2>1 DEF PumpStates
  <2> QED BY <1>1, <2>1, <2>2, Zenon DEF PumpOK
<1>7. QueueOK(queue', tr)
  <2>1. IsSeq(queue) /\ Len(queue) \in Nat
    BY <1>1 DEF QueueOK, IsSeq
  <2>2. /\ IsSeq(queue') /\ Len(queue') = Len(queue) + 1 /\ queue'[Len(queue')] = e
        /\ \A i \in 1..Len(queue) : queue'[i] = queue[i]
    <3>1. Appended(queue, e, queue')
      BY <1>2, <2>1, AppendIs
    <3> QED BY <3>1, Zenon DEF Appended
  <2>3. Len(queue') <= QueueSize
    BY <1>2, <2>1, <2>2, DataplaneAssumption
  <2>4. ASSUME NEW i \in 1..Len(queue')
        PROVE  /\ queue'[i].gen \in 0..Len(tr)
               /\ queue'[i].gen # 0 => Verified(queue'[i].p, queue'[i].gen, tr[queue'[i].gen].pol)
    <3>1. CASE i = Len(queue')
      BY <1>5, <2>2, <3>1, Zenon
    <3>2. CASE i # Len(queue')
      <4>1. i \in 1..Len(queue)
        BY <2>1, <2>2, <3>2
      <4>2. queue'[i] = queue[i]
        BY <2>2, <4>1
      <4> QED BY <1>1, <4>1, <4>2, Zenon DEF QueueOK
    <3> QED BY <3>1, <3>2
  <2> QED BY <2>2, <2>3, <2>4, Zenon DEF QueueOK
<1> QED BY <1>3, <1>6, <1>7, Zenon DEF IPsecInv, InstalledOK

LEMMA PumpEndsInv ==
  ASSUME IPsecInv, PumpStops \/ SourceEnds
  PROVE  IPsecInv'
<1>1. pump' = [pump EXCEPT !.pc = "done"]
      /\ UNCHANGED <<scenario, transport, tr, snd, wire, assigned, accepted, queue>>
  BY DEF PumpStops, SourceEnds, outVars
<1>2. PumpOK(pump, tr)
  BY Zenon DEF IPsecInv
<1>3. PumpOK(pump', tr)
  <2>1. /\ DOMAIN pump' = PumpFields /\ pump' = [f \in PumpFields |-> pump'[f]]
        /\ pump'.pc = "done" /\ pump'.gen = pump.gen
    BY <1>1, <1>2 DEF PumpOK, PumpFields
  <2>2. pump'.pc \in PumpStates /\ pump'.pc # "deliver"
    BY <2>1 DEF PumpStates
  <2> QED BY <1>2, <2>1, <2>2, Zenon DEF PumpOK
<1> QED BY <1>1, <1>3, Zenon DEF IPsecInv, InstalledOK

LEMMA StackReadsInv ==
  ASSUME IPsecInv, StackReads
  PROVE  IPsecInv'
<1>1. queue # <<>> /\ queue' = Tail(queue)
      /\ UNCHANGED <<scenario, transport, tr, snd, wire, assigned, accepted, pump>>
  BY DEF StackReads, outVars
<1>2. QueueOK(queue, tr)
  BY Zenon DEF IPsecInv
<1>3. IsSeq(queue) /\ Len(queue) \in Nat /\ Len(queue) <= QueueSize
  BY <1>2 DEF QueueOK, IsSeq
<1>4. /\ IsSeq(queue') /\ Len(queue') = Len(queue) - 1
      /\ \A i \in 1..Len(queue') : i + 1 \in 1..Len(queue) /\ queue'[i] = queue[i + 1]
  BY <1>1, <1>3, TailIs
<1>5. Len(queue') <= QueueSize
  BY <1>3, <1>4, DataplaneAssumption
<1>6. \A i \in 1..Len(queue') :
        /\ queue'[i].gen \in 0..Len(tr)
        /\ queue'[i].gen # 0 => Verified(queue'[i].p, queue'[i].gen, tr[queue'[i].gen].pol)
  BY <1>2, <1>4, Zenon DEF QueueOK
<1>7. QueueOK(queue', tr)
  BY <1>4, <1>5, <1>6, Zenon DEF QueueOK
<1> QED BY <1>1, <1>7, Zenon DEF IPsecInv, InstalledOK

-----------------------------------------------------------------------------
(* The registration, the clock and Close *)

\* The transports of tr are still there; nothing that the invariant speaks of has another owner.
LEMMA TransportsMove ==
  ASSUME IPsecInv, TransportsOK(tr'), Grows(tr, tr'), InstalledOK',
         \A h \in 1..Len(tr) : tr'[h].seq = tr[h].seq /\ tr'[h].win = tr[h].win,
         \A h \in 1..Len(tr'), f \in Flows : h \notin 1..Len(tr) => ~tr'[h].win[f].initialized,
         UNCHANGED <<snd, wire, assigned, accepted, pump, queue>>
  PROVE  IPsecInv'
<1>1. /\ SendersOK(snd, tr) /\ WireOK(wire, tr) /\ AssignedOK(assigned, tr) /\ TransportsOK(tr)
      /\ AcceptedOK(accepted, tr) /\ RememberedOK(accepted, tr) /\ PumpOK(pump, tr) /\ QueueOK(queue, tr)
  BY Zenon DEF IPsecInv
<1>2. SendersOK(snd, tr') /\ WireOK(wire, tr')
  BY <1>1, SendersKept, WireKept, ZenonT(60)
<1>3. PumpOK(pump, tr') /\ QueueOK(queue, tr')
  BY <1>1, QueueKept, PumpKept, ZenonT(60)
<1>4. AssignedOK(assigned, tr')
  <2>1. ASSUME NEW h \in 1..Len(tr), NEW f \in Flows
        PROVE  tr[h].seq[f] <= tr'[h].seq[f]
    <3>1. TransportOK(tr[h])
      BY <1>1, Zenon DEF TransportsOK
    <3>2. tr[h].seq[f] \in Nat /\ tr'[h].seq[f] = tr[h].seq[f]
      BY <3>1 DEF TransportOK
    <3> QED BY <3>2
  <2> QED BY <1>1, <2>1, AssignedKept, ZenonT(60)
<1>5. AcceptedOK(accepted, tr') /\ RememberedOK(accepted, tr')
  BY <1>1, AcceptedKept, ZenonT(60)
<1> QED BY <1>2, <1>3, <1>4, <1>5, Zenon DEF IPsecInv

LEMMA InstallInv ==
  ASSUME IPsecInv, Install
  PROVE  IPsecInv'
<1>1. PICK in \in scenario.inputs : PolicyOK(in) /\ tr' = Append(tr, NewTransport(in))
  BY Zenon DEF Install
<1> DEFINE t == NewTransport(in)
           ts == tr'
<1>2. /\ transport' = Len(tr) + 1 /\ Len(tr) < scenario.installs
      /\ UNCHANGED <<scenario, snd, wire, assigned, accepted, pump, queue>>
  BY DEF Install, outVars, inVars
<1>3. InstalledOK /\ TransportsOK(tr)
  BY Zenon DEF IPsecInv
<1>4. TransportOK(t) /\ \A f \in Flows : ~t.win[f].initialized
  BY <1>1, <1>3, NewTransportOK, Zenon DEF InstalledOK
<1>5. ts = Append(tr, t)
  BY <1>1
<1> HIDE DEF t, ts
<1>6. IsSeq(tr) /\ Len(tr) \in Nat
  BY <1>3 DEF TransportsOK, IsSeq
<1>7. /\ IsSeq(ts) /\ Len(ts) = Len(tr) + 1 /\ ts[Len(ts)] = t
      /\ \A i \in 1..Len(tr) : ts[i] = tr[i]
  <2>1. Appended(tr, t, ts)
    BY <1>5, <1>6, AppendIs
  <2> QED BY <2>1, Zenon DEF Appended
<1>8. ASSUME NEW h \in 1..Len(ts)
      PROVE  h \in 1..Len(tr) \/ ts[h] = t
  BY <1>6, <1>7
<1>9. TransportsOK(ts)
  BY <1>3, <1>4, <1>7, <1>8, Zenon DEF TransportsOK
<1>10. Grows(tr, ts)
  BY <1>6, <1>7 DEF Grows
<1>11. \A h \in 1..Len(tr) : ts[h].seq = tr[h].seq /\ ts[h].win = tr[h].win
  BY <1>7, Zenon
<1>12. \A h \in 1..Len(ts), f \in Flows : h \notin 1..Len(tr) => ~ts[h].win[f].initialized
  BY <1>4, <1>8, Zenon
<1>13. InstalledOK'
  <2>1. scenario' \in Scenarios /\ scenario' = scenario /\ scenario.installs \in Nat
    BY <1>2, <1>3, ScenarioAssumption DEF InstalledOK
  <2>2. Len(tr') = Len(tr) + 1
    BY <1>7, Zenon DEF ts
  <2> QED BY <1>2, <1>6, <2>1, <2>2 DEF InstalledOK
<1> QED BY <1>2, <1>9, <1>10, <1>11, <1>12, <1>13, TransportsMove, ZenonT(60) DEF ts

LEMMA TimePassesInv ==
  ASSUME IPsecInv, TimePasses
  PROVE  IPsecInv'
<1>1. tr' = [g \in DOMAIN tr |-> [tr[g] EXCEPT !.outF = Aged(@), !.inF = Aged(@)]]
      /\ UNCHANGED <<scenario, transport, snd, wire, assigned, accepted, pump, queue>>
  BY DEF TimePasses, outVars, inVars
<1> DEFINE ts == tr'
<1>2. InstalledOK /\ TransportsOK(tr)
  BY Zenon DEF IPsecInv
<1>3. IsSeq(tr) /\ Len(tr) \in Nat /\ DOMAIN tr = 1..Len(tr)
  BY <1>2 DEF TransportsOK, IsSeq
<1>4. DOMAIN ts = 1..Len(tr) /\ ts = [i \in 1..Len(tr) |-> ts[i]]
  BY <1>1, <1>3
<1>5. ASSUME NEW g \in 1..Len(tr)
      PROVE  TransportOK(ts[g]) /\ ts[g].pol = tr[g].pol /\ ts[g].seq = tr[g].seq /\ ts[g].win = tr[g].win
  <2> DEFINE t == tr[g]
             u == ts[g]
  <2>1. u = [t EXCEPT !.outF = Aged(@), !.inF = Aged(@)]
    BY <1>1, <1>3
  <2>2. TransportOK(t)
    BY <1>2, Zenon DEF TransportsOK
  <2> HIDE DEF t, u
  <2>3. TransportOK(u) /\ u.pol = t.pol /\ u.seq = t.seq /\ u.win = t.win
    BY <2>1, <2>2, AgedTransportOK
  <2> QED BY <2>3, Zenon DEF t, u
<1> HIDE DEF ts
<1>6. IsSeq(ts) /\ Len(ts) = Len(tr)
  BY <1>3, <1>4, MapIs
<1>7. TransportsOK(ts)
  BY <1>5, <1>6, Zenon DEF TransportsOK
<1>8. Grows(tr, ts)
  BY <1>3, <1>5, <1>6 DEF Grows
<1>9. \A h \in 1..Len(tr) : ts[h].seq = tr[h].seq /\ ts[h].win = tr[h].win
  BY <1>5, Zenon
<1>10. \A h \in 1..Len(ts), f \in Flows : h \notin 1..Len(tr) => ~ts[h].win[f].initialized
  BY <1>6, Zenon
<1>11. InstalledOK'
  BY <1>1, <1>2, <1>6, Zenon DEF InstalledOK, ts
<1> QED BY <1>1, <1>7, <1>8, <1>9, <1>10, <1>11, TransportsMove, ZenonT(60) DEF ts

LEMMA RestInv ==
  ASSUME IPsecInv, Clear \/ CloseCalled \/ CloseReturns \/ UNCHANGED vars
  PROVE  IPsecInv'
<1>1. UNCHANGED <<scenario, tr, snd, wire, assigned, accepted, pump, queue>>
  BY DEF Clear, CloseCalled, CloseReturns, vars, outVars, inVars
<1>2. transport' = transport \/ transport' = 0
  BY DEF Clear, CloseCalled, CloseReturns, vars, outVars, inVars
<1>3. InstalledOK /\ Len(tr) \in Nat
  BY DEF IPsecInv, TransportsOK, IsSeq
<1>4. InstalledOK'
  BY <1>1, <1>2, <1>3 DEF InstalledOK
<1> QED BY <1>1, <1>4, Zenon DEF IPsecInv

-----------------------------------------------------------------------------
(* Theorems *)

\* The invariant holds in every state: each action keeps it.
LEMMA IPsecInvariant == Spec => []IPsecInv
<1>1. ASSUME IPsecInv, [Next]_vars
      PROVE  IPsecInv'
  <2>1. CASE \E s \in Senders : SendLoads(s) \/ SendBare(s) \/ SendTransforms(s) \/ SendHands(s) \/ SendFails(s)
    BY <1>1, <2>1, SendLoadsInv, SendBareInv, SendTransformsInv, SendHandsInv, SendFailsInv, Zenon
  <2>2. CASE PumpReceives \/ PumpDelivers \/ PumpStops \/ SourceEnds \/ StackReads
    BY <1>1, <2>2, PumpReceivesInv, PumpDeliversInv, PumpEndsInv, StackReadsInv, Zenon
  <2>3. CASE Install \/ TimePasses
    BY <1>1, <2>3, InstallInv, TimePassesInv, Zenon
  <2>4. CASE Clear \/ CloseCalled \/ CloseReturns \/ UNCHANGED vars
    BY <1>1, <2>4, RestInv, Zenon
  <2> QED BY <1>1, <2>1, <2>2, <2>3, <2>4, Zenon DEF Next
<1> QED BY <1>1, InitInv, PTL DEF Spec

\* Install, SendInnerPacket, receiveLoop: the counters and windows of every transport keep their
\* types and no more datagrams wait for reassembly than the limit; the inbound queue keeps its
\* capacity.
THEOREM DataplaneTyped == Spec => []TypeOK
<1>1. IPsecInv => TypeOK
  <2> SUFFICES ASSUME IPsecInv
               PROVE  TypeOK
    OBVIOUS
  <2>1. /\ InstalledOK /\ TransportsOK(tr) /\ SendersOK(snd, tr) /\ PumpOK(pump, tr) /\ QueueOK(queue, tr)
    BY Zenon DEF IPsecInv
  <2>2. DOMAIN tr = 1..Len(tr)
    BY <2>1, Zenon DEF TransportsOK, IsSeq
  <2>3. ASSUME NEW g \in DOMAIN tr
        PROVE  /\ \A f \in Flows : tr[g].seq[f] \in Nat /\ tr[g].win[f] \in Windows(MaxSeq)
               /\ Cardinality(DOMAIN tr[g].outF) <= MaxSets /\ Cardinality(DOMAIN tr[g].inF) <= MaxSets
    <3>1. TransportOK(tr[g])
      BY <2>1, <2>2, Zenon DEF TransportsOK
    <3>2. tr[g].seq \in [Flows -> Nat] /\ tr[g].win \in [Flows -> Windows(MaxSeq)]
      BY <3>1, Zenon DEF TransportOK
    <3>3. SetsOK(tr[g].outF) /\ SetsOK(tr[g].inF)
      BY <3>1, Zenon DEF TransportOK
    <3>4. Cardinality(DOMAIN tr[g].outF) <= MaxSets /\ Cardinality(DOMAIN tr[g].inF) <= MaxSets
      BY <3>3, Zenon DEF SetsOK
    <3>5. \A f \in Flows : tr[g].seq[f] \in Nat /\ tr[g].win[f] \in Windows(MaxSeq)
      BY <3>2
    <3> QED BY <3>4, <3>5
  <2>4. \A s \in Senders : snd[s].pc \in {"idle", "transform", "send"} /\ snd[s].gen \in 0..Len(tr)
    BY <2>1, Zenon DEF SendersOK, SenderOK
  <2> QED BY <2>1, <2>3, <2>4, Zenon DEF TypeOK, InstalledOK, PumpOK, QueueOK
<1> QED BY <1>1, IPsecInvariant, PTL

\* SendInnerPacket: whoever sends, and whatever is installed meanwhile, a sequence number is
\* used once per association, never beyond its end, and nothing of a protected port leaves in
\* clear text through a transport.
THEOREM SendSafety == Spec => []SendsProtected
<1>1. IPsecInv => SendsProtected
  <2> SUFFICES ASSUME IPsecInv
               PROVE  SendsProtected
    OBVIOUS
  <2>1. AssignedOK(assigned, tr) /\ WireOK(wire, tr)
    BY Zenon DEF IPsecInv
  <2>2. SequenceNumbersOnce
    BY <2>1, Zenon DEF AssignedOK, Counts, SequenceNumbersOnce
  <2>3. ProtectedNeverClear
    BY <2>1, Zenon DEF WireOK, MayLeave, ProtectedNeverClear
  <2> QED BY <2>2, <2>3, Zenon DEF SendsProtected
<1> QED BY <1>1, IPsecInvariant, PTL

\* receiveLoop: no sequence number is accepted twice, and what the stack finds on a protected
\* port was verified with the keys, and fits the flow, of the transport that handled it.
THEOREM NothingElseReceived == Spec => [](NoReplay /\ OnlyVerifiedDelivered)
<1>1. IPsecInv => NoReplay /\ OnlyVerifiedDelivered
  <2> SUFFICES ASSUME IPsecInv
               PROVE  NoReplay /\ OnlyVerifiedDelivered
    OBVIOUS
  <2>1. AcceptedOK(accepted, tr) /\ QueueOK(queue, tr)
    BY Zenon DEF IPsecInv
  <2>2. NoReplay
    BY <2>1, Zenon DEF AcceptedOK, Counts, NoReplay
  <2>3. DOMAIN queue = 1..Len(queue)
    BY <2>1, Zenon DEF QueueOK, IsSeq
  <2>4. OnlyVerifiedDelivered
    BY <2>1, <2>3, Zenon DEF QueueOK, Verified, OnlyVerifiedDelivered
  <2> QED BY <2>2, <2>4
<1> QED BY <1>1, IPsecInvariant, PTL

-----------------------------------------------------------------------------
(* Genuine packets *)

LEMMA ProcessGenuine ==
  ASSUME NEW sets, NEW p, NEW r, r = process(sets, p), r.st # "held",
         r.packet.frag = NoFragment, ~Malformed(r.packet)
  PROVE  r.st = "packet"
<1> DEFINE f == p.frag
           yng == Young(sets)
           set == IF f.id \in DOMAIN yng THEN yng[f.id] ELSE NewSet(f)
           ext == Extended(set, p)
<1>1. ASSUME NEW st, NEW ss, NEW q, NEW bs, r = Outcome(st, ss, q, bs)
      PROVE  r.st = st /\ r.packet = q
  BY <1>1 DEF Outcome
<1>2. ASSUME NEW ss, NEW q, NEW bs, r = Joined(ss, q, bs)
      PROVE  r.st = "packet"
  <2>1. CASE Malformed(q)
    <3>1. r = Outcome("error", ss, q, <<>>)
      BY <1>2, <2>1, Zenon DEF Joined
    <3> QED BY <1>1, <2>1, <3>1, Zenon
  <2>2. CASE ~Malformed(q)
    <3>1. r = Outcome("packet", ss, q, bs)
      BY <1>2, <2>2, Zenon DEF Joined
    <3> QED BY <1>1, <3>1, Zenon
  <2> QED BY <2>1, <2>2, Zenon
<1>3. CASE f = NoFragment
  <2>1. r = Outcome("packet", sets, p, <<>>)
    BY <1>3, Zenon DEF process
  <2> QED BY <1>1, <2>1, Zenon
<1>4. ASSUME f # NoFragment
      PROVE  \A ss : r # Outcome("error", ss, p, <<>>)
  BY <1>1, <1>4, Zenon
<1>5. ASSUME NEW ss, r = Outcome("held", ss, p, <<>>)
      PROVE  FALSE
  BY <1>1, <1>5, Zenon
<1>6. CASE f # NoFragment /\ BadBounds(f)
  <2>1. r = Outcome("error", sets, p, <<>>)
    BY <1>6, Zenon DEF process
  <2> QED BY <1>4, <1>6, <2>1, Zenon
<1>7. CASE f # NoFragment /\ ~BadBounds(f) /\ AtomicFragment(f)
  <2>1. r = Joined(sets, Whole(p), [b \in BlocksOf(f) |-> Whole(p)])
    BY <1>7, Zenon DEF process
  <2> QED BY <1>2, <2>1, Zenon
<1>8. CASE f # NoFragment /\ ~BadBounds(f) /\ ~AtomicFragment(f)
  <2>1. r = IF f.id \notin DOMAIN yng /\ Cardinality(DOMAIN yng) >= MaxSets
              THEN Outcome("error", yng, p, <<>>)
            ELSE IF Conflicts(set, f) THEN Outcome("error", Without(yng, f.id), p, <<>>)
            ELSE IF ~Complete(ext) THEN Outcome("held", With(yng, f.id, ext), p, <<>>)
            ELSE Joined(Without(yng, f.id), ext.blocks[0], ext.blocks)
    BY <1>8, Zenon DEF process
  <2> HIDE DEF yng, set, ext
  <2>2. \/ r = Outcome("error", yng, p, <<>>)
        \/ r = Outcome("error", Without(yng, f.id), p, <<>>)
        \/ r = Outcome("held", With(yng, f.id, ext), p, <<>>)
        \/ r = Joined(Without(yng, f.id), ext.blocks[0], ext.blocks)
    BY <2>1, Zenon
  <2> QED BY <1>2, <1>4, <1>5, <1>8, <2>2, Zenon
<1> QED BY <1>3, <1>6, <1>7, <1>8, Zenon

\* A packet that the window has room for passes.
LEMMA GenuinePasses ==
  ASSUME NEW t, TransportOK(t), NEW p, PacketOK(p), NEW g, NEW r, r = TransformInbound(t, g, p),
         r.st # "held", r.p.frag = NoFragment, ~Malformed(r.p), r.p.proto = "esp",
         NEW f \in Flows, f = InboundFlow(t.pol, r.p.spi), Authentic(r.p, g, r.blocks), Selected(r.p, t.pol[f])
  PROVE  r.p.seq \in 0..MaxSeq /\ (Check(t.win[f], r.p.seq) => r.st = "packet")
<1> DEFINE pr == process(t.inF, p)
           q == pr.packet
           esp == pr.st = "packet" /\ q.proto = "esp"
           plain == ~(q.proto = "bad" \/ (OverIP(q) /\ q.dst = "ue" /\ ProtectedPort(t.pol, DestinationPort(q))))
           v == IF esp THEN Verdict(t, g, q, pr.blocks) ELSE [ok |-> plain, win |-> t.win]
           st == IF pr.st # "packet" THEN pr.st ELSE IF v.ok THEN "packet" ELSE "error"
<1>1. r.st = st /\ r.p = q /\ r.blocks = pr.blocks
  BY DEF TransformInbound
<1>2. pr.st # "held"
  <2> HIDE DEF v, pr
  <2>1. CASE pr.st = "held"
    <3>1. pr.st # "packet"
      BY <2>1
    <3>2. st = "held"
      BY <2>1, <3>1, Zenon
    <3> QED BY <1>1, <3>2, Zenon
  <2> QED BY <2>1, Zenon
<1>3. q.frag = NoFragment /\ ~Malformed(q) /\ q.proto = "esp"
  BY <1>1, Zenon
<1>4. pr.st = "packet"
  BY <1>2, <1>3, ProcessGenuine, Zenon
<1>5. SetsOK(t.inF)
  BY Zenon DEF TransportOK
<1>6. WholeOK(q)
  BY <1>4, <1>5, ProcessOK, Zenon
<1>7. q.seq \in 0..MaxSeq
  BY <1>6, Zenon DEF WholeOK, PacketOK
<1>8. v = Verdict(t, g, q, pr.blocks)
  BY <1>3, <1>4, Zenon
<1>9. f = InboundFlow(t.pol, q.spi) /\ Authentic(q, g, pr.blocks) /\ Selected(q, t.pol[f])
  BY <1>1, Zenon
<1> HIDE DEF v, pr
<1>10. ASSUME Check(t.win[f], q.seq)
       PROVE  v.ok
  BY <1>7, <1>8, <1>9, <1>10, VerdictOK
<1> QED BY <1>1, <1>4, <1>7, <1>10, Zenon

LEMMA OwnFlow ==
  ASSUME NEW pol, pol["c"].in # pol["s"].in, NEW f \in Flows, NEW spi, spi = pol[f].in
  PROVE  f = InboundFlow(pol, spi)
<1>1. CASE f = "s"
  BY <1>1, Zenon DEF InboundFlow
<1>2. CASE f = "c"
  BY <1>2, Zenon DEF InboundFlow
<1> QED BY <1>1, <1>2 DEF Flows

\* A refusal by the window is explained by what it took.
LEMMA GenuineTaken ==
  ASSUME IPsecInv, LocalSPIsDiffer, PumpReceives
  PROVE  GenuineStep
<1> DEFINE g == transport
           R(p) == IF g = 0 THEN [st |-> "packet", t |-> <<>>, p |-> p, blocks |-> <<>>]
                            ELSE TransformInbound(tr[g], g, p)
<1>1. PICK p \in scenario.in :
        /\ joined' = R(p).blocks /\ last' = [st |-> R(p).st, p |-> R(p).p, gen |-> g]
        /\ accepted' = IF g # 0 /\ R(p).st = "packet" /\ R(p).p.proto = "esp"
                         THEN Counted(accepted, <<g, R(p).p.spi, R(p).p.seq>>) ELSE accepted
  BY Zenon DEF PumpReceives
<1> DEFINE r == R(p)
           q == r.p
           n == q.seq
           x == <<g, q.spi, n>>
<1>2. last'.st = r.st /\ last'.p = q /\ last'.gen = g /\ joined' = r.blocks
  BY <1>1
<1>3. SUFFICES ASSUME g # 0, r.st # "held", Genuine(q, g, r.blocks), x \notin accepted.set,
                      \A y \in accepted.set : y[1] = g /\ y[2] = q.spi => y[3] - n < WindowSize
               PROVE  x \in accepted'.set
  BY <1>2, Zenon DEF GenuineStep
<1>4. InstalledOK /\ TransportsOK(tr) /\ RememberedOK(accepted, tr)
  BY Zenon DEF IPsecInv
<1>5. g \in 1..Len(tr)
  <2>1. g \in 0..Len(tr) /\ Len(tr) \in Nat
    BY <1>4 DEF InstalledOK, TransportsOK, IsSeq
  <2> QED BY <1>3, <2>1
<1> DEFINE t == tr[g]
<1>6. /\ r = TransformInbound(t, g, p)
      /\ accepted' = IF r.st = "packet" /\ q.proto = "esp" THEN Counted(accepted, x) ELSE accepted
  BY <1>1, <1>3, Zenon
<1> HIDE DEF r
<1>7. TransportOK(t) /\ PacketOK(p) /\ t.pol["c"].in # t.pol["s"].in
  <2>1. TransportOK(t) /\ PacketOK(p)
    BY <1>4, <1>5, PacketsTyped, Zenon DEF TransportsOK, InstalledOK
  <2>2. t.pol["c"].in # t.pol["s"].in
    BY <2>1, Zenon DEF TransportOK, OwnSPIs
  <2> QED BY <2>1, <2>2, Zenon
<1>8. /\ q.frag = NoFragment /\ ~Malformed(q) /\ q.proto = "esp" /\ n # 0
      /\ \E f \in Flows : q.spi = t.pol[f].in /\ Authentic(q, g, r.blocks) /\ Selected(q, t.pol[f])
  BY <1>3, Zenon DEF Genuine
<1>9. PICK f \in Flows : q.spi = t.pol[f].in /\ Authentic(q, g, r.blocks) /\ Selected(q, t.pol[f])
  BY <1>8, Zenon
<1> HIDE DEF t, g
<1>10. f = InboundFlow(t.pol, q.spi)
  BY <1>7, <1>9, OwnFlow, Zenon
<1>11. n \in 0..MaxSeq /\ (Check(t.win[f], n) => r.st = "packet")
  BY <1>3, <1>6, <1>7, <1>8, <1>9, <1>10, GenuinePasses
<1>12. CASE Check(t.win[f], n)
  <2>1. accepted' = Counted(accepted, x)
    BY <1>6, <1>8, <1>11, <1>12, Zenon
  <2> HIDE DEF x
  <2> QED BY <2>1 DEF Counted
<1>13. CASE ~Check(t.win[f], n)
  <2> DEFINE w == t.win[f]
  <2>1. w \in Windows(MaxSeq)
    BY <1>7 DEF TransportOK
  <2>2. n \in 1..MaxSeq
    BY <1>8, <1>11, DataplaneAssumption
  <2>3. ASSUME NEW m \in 0..MaxSeq, Remembered(w, m)
        PROVE  <<g, q.spi, m>> \in accepted.set
    BY <1>4, <1>5, <1>9, <2>3, Zenon DEF RememberedOK, t
  <2> HIDE DEF w
  <2>4. Remembered(w, n) \/ (Remembered(w, w.highest) /\ w.highest - n >= WindowSize)
    BY <1>13, <2>1, <2>2, RefusalExplained DEF w
  <2>5. CASE Remembered(w, n)
    BY <1>3, <1>11, <2>3, <2>5, Zenon
  <2>6. CASE Remembered(w, w.highest) /\ w.highest - n >= WindowSize
    <3> DEFINE h == w.highest
               y == <<g, q.spi, h>>
    <3>1. h \in 0..MaxSeq
      BY <2>1 DEF Windows
    <3>2. y \in accepted.set
      BY <2>3, <2>6, <3>1, Zenon
    <3>3. y[1] = g /\ y[2] = q.spi /\ y[3] = h
      OBVIOUS
    <3> HIDE DEF y, h, n
    <3>4. h - n < WindowSize
      BY <1>3, <3>2, <3>3
    <3>5. h - n >= WindowSize /\ n \in Int /\ h \in Int /\ WindowSize \in Int
      BY <1>11, <2>6, <3>1, WindowAssumption, DataplaneAssumption DEF h
    <3> QED BY <3>4, <3>5
  <2> QED BY <2>4, <2>5, <2>6, Zenon
<1> QED BY <1>12, <1>13, Zenon

\* receiveLoop: what was said of the receiver before, and every genuine packet that was not
\* accepted before and lies within the window is taken.  The window is asked before the
\* packet is verified and marked after, so no packet that fails can use a number up.
THEOREM ReceiveSafety ==
  ASSUME LocalSPIsDiffer
  PROVE  Spec => ReceivesOnce
<1>1. IPsecInv /\ [Next]_vars => [GenuineStep]_vars
  <2> SUFFICES ASSUME IPsecInv, Next
               PROVE  GenuineStep
    BY Zenon
  <2>1. CASE PumpReceives
    BY <2>1, GenuineTaken, Zenon
  <2>2. CASE ~PumpReceives
    <3>1. arrived' = arrived
      BY <2>2 DEF Next, SendLoads, SendBare, SendTransforms, SendHands, SendFails, PumpDelivers, PumpStops,
                  SourceEnds, StackReads, Install, Clear, TimePasses, CloseCalled, CloseReturns, inVars
    <3> QED BY <3>1, Zenon DEF GenuineStep
  <2> QED BY <2>1, <2>2
<1>2. Spec => GenuineIsTaken
  BY <1>1, IPsecInvariant, PTL DEF Spec, GenuineIsTaken
<1> QED BY <1>2, NothingElseReceived, PTL DEF ReceivesOnce

-----------------------------------------------------------------------------
(* Reassembly: one datagram at a time, and all of it *)

\* The fragments with key k among S.
Cuts(k, S) == {p \in S : Kept(p) /\ p.frag.id = k}

\* The set k holds blocks of fragments with that key, and knows the length from one of them.
Gathered(set, k, S) ==
  /\ \A b \in DOMAIN set.blocks : \E p \in Cuts(k, S) : set.blocks[b] = Whole(p)
  /\ set.total # -1 => \E p \in Cuts(k, S) : set.total = p.len /\ p.len # 0

GatheredAll(sets, S) == \A k \in DOMAIN sets : Gathered(sets[k], k, S)

WholeDatagram(blocks) ==
  blocks # <<>> =>
    /\ DOMAIN blocks = 0..(blocks[0].len - 1)
    /\ \A b \in DOMAIN blocks : blocks[b].d = blocks[0].d

LEMMA WholeKeeps ==
  ASSUME NEW p, PacketOK(p)
  PROVE  Whole(p).d = p.d /\ Whole(p).len = p.len
BY DEF Whole, PacketOK, PacketFields

\* Extended keeps what was gathered and adds blocks of the fragment that came.
LEMMA ExtendedGathers ==
  ASSUME NEW S, CutByTheRules(S), NEW p \in S, PacketOK(p), Kept(p),
         NEW set, SetOK(set), Gathered(set, p.frag.id, S), NEW e, e = Extended(set, p)
  PROVE  Gathered(e, p.frag.id, S)
<1> DEFINE k == p.frag.id
           bs == [b \in DOMAIN set.blocks \cup BlocksOf(p.frag) |->
                    IF b \in BlocksOf(p.frag) THEN Whole(p) ELSE set.blocks[b]]
           n == IF p.frag.more THEN set.total ELSE EndOf(p.frag)
<1>1. p \in Cuts(k, S)
  BY DEF Cuts
<1>2. \A b \in DOMAIN bs : \E q \in Cuts(k, S) : bs[b] = Whole(q)
  BY <1>1 DEF Gathered
<1>3. n # -1 => \E q \in Cuts(k, S) : n = q.len /\ q.len # 0
  <2>1. CASE p.frag.more
    BY <2>1 DEF Gathered
  <2>2. CASE ~p.frag.more
    <3>1. EndOf(p.frag) = p.len
      BY <2>2 DEF CutByTheRules, Kept
    <3>2. EndOf(p.frag) # 0
      BY DEF Kept, BadBounds, EndOf, PacketOK
    <3> QED BY <1>1, <2>2, <3>1, <3>2
  <2> QED BY <2>1, <2>2
<1>4. e = [set EXCEPT !.blocks = bs, !.total = n]
  BY DEF Extended
<1> HIDE DEF bs, n
<1>5. e.blocks = bs /\ e.total = n
  BY <1>4 DEF SetOK
<1> QED
  BY <1>2, <1>3, <1>5, Zenon DEF Gathered

\* A complete set is its datagram.
LEMMA CompleteIsWhole ==
  ASSUME NEW S, CutByTheRules(S), \A p \in S : PacketOK(p), NEW k, NEW set, SetOK(set),
         Gathered(set, k, S), Complete(set)
  PROVE  WholeDatagram(set.blocks)
<1>1. PICK p \in Cuts(k, S) : set.total = p.len /\ p.len # 0
  BY DEF Gathered, Complete
<1>2. p.len \in Nat /\ DOMAIN set.blocks = 0..(p.len - 1)
  BY <1>1 DEF Complete, Cuts, PacketOK
<1>3. ASSUME NEW b \in DOMAIN set.blocks
      PROVE  set.blocks[b].d = p.d /\ set.blocks[b].len = p.len
  <2>1. PICK q \in Cuts(k, S) : set.blocks[b] = Whole(q)
    BY DEF Gathered
  <2>2. q.d = p.d /\ q.len = p.len
    BY DEF Cuts, CutByTheRules
  <2>3. PacketOK(q)
    BY DEF Cuts
  <2> QED BY <2>1, <2>2, <2>3, WholeKeeps
<1>4. 0 \in DOMAIN set.blocks
  BY <1>1, <1>2
<1> QED
  BY <1>2, <1>3, <1>4 DEF WholeDatagram

\* process gathers fragments by their key and returns no datagram that is not whole.
LEMMA ProcessGathers ==
  ASSUME NEW S, CutByTheRules(S), \A q \in S : PacketOK(q), NEW sets, SetsOK(sets),
         GatheredAll(sets, S), NEW p \in S, NEW r, r = process(sets, p)
  PROVE  GatheredAll(r.sets, S) /\ WholeDatagram(r.blocks)
<1> DEFINE f == p.frag
           yng == Young(sets)
           set == IF f.id \in DOMAIN yng THEN yng[f.id] ELSE NewSet(f)
           ext == Extended(set, p)
<1>0. WholeDatagram(<<>>)
  BY DEF WholeDatagram
<1>1. SetsOK(yng) /\ GatheredAll(yng, S)
  BY YoungOK DEF Young, Restrict, GatheredAll
<1>2. CASE f = NoFragment
  BY <1>0, <1>2 DEF process, Outcome
<1>3. CASE f # NoFragment /\ BadBounds(f)
  BY <1>0, <1>3 DEF process, Outcome
<1>4. CASE f # NoFragment /\ ~BadBounds(f) /\ AtomicFragment(f)
  <2> DEFINE bs == [b \in BlocksOf(f) |-> Whole(p)]
  <2>1. r = Joined(sets, Whole(p), bs)
    BY <1>4 DEF process
  <2>2. EndOf(f) = p.len /\ f.off = 0
    BY <1>4 DEF CutByTheRules, AtomicFragment
  <2>3. DOMAIN bs = 0..(p.len - 1) /\ \A b \in DOMAIN bs : bs[b] = Whole(p)
    BY <2>2 DEF BlocksOf
  <2>4. p.len \in Nat /\ p.len # 0
    BY <1>4, <2>2 DEF BadBounds, EndOf, PacketOK
  <2>5. 0 \in DOMAIN bs
    BY <2>3, <2>4
  <2>6. Whole(p).len = p.len
    BY WholeKeeps
  <2> HIDE DEF bs
  <2>7. WholeDatagram(bs)
    BY <2>3, <2>5, <2>6 DEF WholeDatagram
  <2> QED BY <1>0, <2>1, <2>7 DEF Joined, Outcome
<1>5. CASE Kept(p)
  <2>1. r = IF f.id \notin DOMAIN yng /\ Cardinality(DOMAIN yng) >= MaxSets
              THEN Outcome("error", yng, p, <<>>)
            ELSE IF Conflicts(set, f) THEN Outcome("error", Without(yng, f.id), p, <<>>)
            ELSE IF ~Complete(ext) THEN Outcome("held", With(yng, f.id, ext), p, <<>>)
            ELSE Joined(Without(yng, f.id), ext.blocks[0], ext.blocks)
    BY <1>5 DEF process, Kept
  <2>2. SetOK(set) /\ Gathered(set, f.id, S)
    <3>1. CASE f.id \in DOMAIN yng
      <4> HIDE DEF yng
      <4> QED BY <1>1, <3>1 DEF SetsOK, GatheredAll
    <3>2. CASE f.id \notin DOMAIN yng
      <4>1. set = NewSet(f)
        BY <3>2
      <4>2. Gathered(NewSet(f), f.id, S)
        BY DEF NewSet, Gathered
      <4> QED BY <4>1, <4>2, NewSetOK
    <3> QED BY <3>1, <3>2
  <2> HIDE DEF set
  <2>3. SetOK(ext)
    BY <2>2, ExtendedOK
  <2>4. Gathered(ext, f.id, S)
    BY <1>5, <2>2, ExtendedGathers
  <2> HIDE DEF yng, ext
  <2>5. GatheredAll(Without(yng, f.id), S)
    BY <1>1 DEF Without, Restrict, GatheredAll
  <2>6. GatheredAll(With(yng, f.id, ext), S)
    BY <1>1, <2>4 DEF With, GatheredAll
  <2>7. Complete(ext) => WholeDatagram(ext.blocks)
    BY <2>3, <2>4, CompleteIsWhole
  <2> QED BY <1>0, <1>1, <2>1, <2>5, <2>6, <2>7 DEF Joined, Outcome
<1> QED
  BY <1>2, <1>3, <1>4, <1>5 DEF Kept

LEMMA AgedGathers ==
  ASSUME NEW S, NEW sets, SetsOK(sets), GatheredAll(sets, S)
  PROVE  GatheredAll(Aged(sets), S)
<1> DEFINE t == Aged(sets)
<1>1. DOMAIN t = DOMAIN sets /\ \A k \in DOMAIN sets : t[k] = [sets[k] EXCEPT !.old = TRUE]
  BY DEF Aged
<1> HIDE DEF t
<1>2. ASSUME NEW k \in DOMAIN t
      PROVE  t[k].blocks = sets[k].blocks /\ t[k].total = sets[k].total
  BY <1>1 DEF SetsOK, SetOK
<1>3. ASSUME NEW k \in DOMAIN t
      PROVE  Gathered(t[k], k, S)
  <2>1. Gathered(sets[k], k, S)
    BY <1>1 DEF GatheredAll
  <2> QED BY <1>2, <2>1 DEF Gathered
<1>4. GatheredAll(t, S)
  BY <1>3 DEF GatheredAll
<1> QED BY <1>4 DEF t

\* What a transport has gathered, in each direction; who transforms what; the last result.
ReassemblyInv ==
  /\ \A g \in 1..Len(tr) : GatheredAll(tr[g].outF, scenario.out) /\ GatheredAll(tr[g].inF, scenario.in)
  /\ \A s \in Senders : snd[s].pc = "transform" => snd[s].p \in scenario.out
  /\ WholeDatagram(joined)

\* Transforms touch the sets of one direction, by process.
LEMMA TransformsProcess ==
  ASSUME NEW t, TransportOK(t), NEW g, NEW p
  PROVE  /\ LET r == TransformOutbound(t, g, p)
            IN  /\ r.t.outF = process(t.outF, p).sets /\ r.t.inF = t.inF
                /\ r.blocks = process(t.outF, p).blocks
         /\ LET r == TransformInbound(t, g, p)
            IN  /\ r.t.inF = process(t.inF, p).sets /\ r.t.outF = t.outF
                /\ r.blocks = process(t.inF, p).blocks
<1>1. DOMAIN t = TransportFields
  BY DEF TransportOK
<1>2. /\ TransformOutbound(t, g, p).blocks = process(t.outF, p).blocks
      /\ \E seq : TransformOutbound(t, g, p).t = [t EXCEPT !.outF = process(t.outF, p).sets, !.seq = seq]
  BY DEF TransformOutbound
<1>3. /\ TransformInbound(t, g, p).blocks = process(t.inF, p).blocks
      /\ \E win : TransformInbound(t, g, p).t = [t EXCEPT !.inF = process(t.inF, p).sets, !.win = win]
  BY DEF TransformInbound
<1>4. PICK seq : TransformOutbound(t, g, p).t = [t EXCEPT !.outF = process(t.outF, p).sets, !.seq = seq]
  BY <1>2
<1>5. PICK win : TransformInbound(t, g, p).t = [t EXCEPT !.inF = process(t.inF, p).sets, !.win = win]
  BY <1>3
<1> DEFINE u == TransformOutbound(t, g, p).t
           v == TransformInbound(t, g, p).t
           out == process(t.outF, p).sets
           in == process(t.inF, p).sets
<1>6. u.outF = out /\ u.inF = t.inF
  <2>1. u = [t EXCEPT !.outF = out, !.seq = seq]
    BY <1>4
  <2> HIDE DEF u, out
  <2> QED BY <1>1, <2>1 DEF TransportFields
<1>7. v.inF = in /\ v.outF = t.outF
  <2>1. v = [t EXCEPT !.inF = in, !.win = win]
    BY <1>5
  <2> HIDE DEF v, in
  <2> QED BY <1>1, <2>1 DEF TransportFields
<1> QED
  BY <1>2, <1>3, <1>6, <1>7, Zenon

\* Steps that leave the transports and the last result alone.
LEMMA OthersGather ==
  ASSUME ReassemblyInv, IPsecInv,
         \/ \E s \in Senders : SendLoads(s) \/ SendBare(s) \/ SendHands(s) \/ SendFails(s)
         \/ PumpDelivers \/ PumpStops \/ SourceEnds \/ StackReads
         \/ Clear \/ CloseCalled \/ CloseReturns \/ UNCHANGED vars
  PROVE  ReassemblyInv'
<1>1. UNCHANGED <<tr, scenario, joined>>
  BY DEF SendLoads, SendBare, SendHands, SendFails, PumpDelivers, PumpStops, SourceEnds, StackReads,
         Clear, CloseCalled, CloseReturns, vars
<1>2. DOMAIN snd = Senders
  BY DEF IPsecInv, SendersOK
<1>3. ASSUME NEW s \in Senders, snd'[s].pc = "transform"
      PROVE  snd'[s].p \in scenario.out
  <2>1. CASE snd' = snd
    BY <1>3, <2>1 DEF ReassemblyInv
  <2>2. ASSUME NEW z \in Senders, SendLoads(z)
        PROVE  snd'[s].p \in scenario.out
    BY <1>2, <1>3, <2>2 DEF SendLoads, ReassemblyInv
  <2>3. ASSUME NEW z \in Senders, SendBare(z) \/ SendHands(z) \/ SendFails(z)
        PROVE  snd'[s].p \in scenario.out
    <3>1. DOMAIN snd[z] = SenderFields /\ (s = z \/ snd'[s] = snd[s])
      BY <1>2, <2>3 DEF SendBare, SendHands, SendFails, IPsecInv, SendersOK, SenderOK
    <3>2. s # z
      BY <1>2, <1>3, <2>3, <3>1 DEF SendBare, SendHands, SendFails, Idle, SenderFields
    <3> QED BY <1>3, <3>1, <3>2 DEF ReassemblyInv
  <2>4. CASE ~\E z \in Senders : SendLoads(z) \/ SendBare(z) \/ SendHands(z) \/ SendFails(z)
    <3>1. snd' = snd
      BY <2>4 DEF PumpDelivers, PumpStops, SourceEnds, StackReads, Clear, CloseCalled, CloseReturns,
                  vars, outVars
    <3> QED BY <2>1, <3>1
  <2> QED BY <2>2, <2>3, <2>4, Zenon
<1> QED
  BY <1>1, <1>3, Zenon DEF ReassemblyInv

LEMMA InputsOK ==
  ASSUME FragmentsCutByTheRules, IPsecInv
  PROVE  /\ CutByTheRules(scenario.out) /\ CutByTheRules(scenario.in)
         /\ \A p \in scenario.out \cup scenario.in : PacketOK(p)
         /\ Len(tr) \in Nat /\ DOMAIN tr = 1..Len(tr)
         /\ \A g \in 1..Len(tr) : TransportOK(tr[g]) /\ SetsOK(tr[g].outF) /\ SetsOK(tr[g].inF)
<1>1. scenario \in Scenarios
  BY DEF IPsecInv, InstalledOK
<1>2. TransportsOK(tr)
  BY DEF IPsecInv
<1> QED
  BY <1>1, <1>2, PacketsTyped, Zenon DEF FragmentsCutByTheRules, TransportsOK, IsSeq, TransportOK

LEMMA SendTransformsGathers ==
  ASSUME FragmentsCutByTheRules, IPsecInv, ReassemblyInv, NEW s \in Senders, SendTransforms(s)
  PROVE  ReassemblyInv'
<1> DEFINE g == snd[s].gen
           p == snd[s].p
           r == TransformOutbound(tr[g], g, p)
           x == process(tr[g].outF, p)
<1>1. /\ snd[s].pc = "transform" /\ g # 0 /\ scenario' = scenario
      /\ tr' = [tr EXCEPT ![g] = r.t] /\ joined' = r.blocks
  BY DEF SendTransforms
<1>2. g \in 1..Len(tr) /\ DOMAIN snd = Senders /\ DOMAIN snd[s] = SenderFields
  <2>1. SendersOK(snd, tr) /\ Len(tr) \in Nat
    BY InputsOK DEF IPsecInv
  <2> QED BY <1>1, <2>1 DEF SendersOK, SenderOK
<1>3. p \in scenario.out
  BY <1>1 DEF ReassemblyInv
<1>4. GatheredAll(x.sets, scenario.out) /\ WholeDatagram(x.blocks)
  <2>1. GatheredAll(tr[g].outF, scenario.out)
    BY <1>2 DEF ReassemblyInv
  <2> HIDE DEF g, p
  <2> QED BY <1>2, <1>3, <2>1, InputsOK, ProcessGathers
<1>5. r.t.outF = x.sets /\ r.t.inF = tr[g].inF /\ r.blocks = x.blocks
  BY <1>2, InputsOK, TransformsProcess
<1>6. Len(tr') = Len(tr) /\ \A h \in 1..Len(tr) : tr'[h] = IF h = g THEN r.t ELSE tr[h]
  <2> HIDE DEF r, g
  <2>1. DOMAIN tr = 1..Len(tr) /\ Len(tr) \in Nat
    BY InputsOK
  <2>2. DOMAIN tr' = 1..Len(tr) /\ tr' = [h \in 1..Len(tr) |-> tr'[h]]
    BY <1>1, <2>1
  <2>3. Len(tr') = Len(tr)
    BY <2>1, <2>2, MapIs
  <2> QED BY <1>1, <2>1, <2>3
<1>7. \A z \in Senders : snd'[z].pc = "transform" => snd'[z] = snd[z]
  <2>1. \/ \E ps : snd' = [snd EXCEPT ![s].pc = "send", ![s].out = ps]
        \/ snd' = [snd EXCEPT ![s] = Idle]
    BY Zenon DEF SendTransforms
  <2>2. snd'[s].pc # "transform" /\ \A z \in Senders : z # s => snd'[z] = snd[z]
    BY <1>2, <2>1 DEF Idle, SenderFields
  <2> QED BY <2>2, Zenon
<1> HIDE DEF r, x, g, p
<1>8. ASSUME NEW h \in 1..Len(tr)
      PROVE  GatheredAll(tr'[h].outF, scenario.out) /\ GatheredAll(tr'[h].inF, scenario.in)
  BY <1>2, <1>4, <1>5, <1>6 DEF ReassemblyInv
<1>9. \A z \in Senders : snd'[z].pc = "transform" => snd'[z].p \in scenario.out
  BY <1>7 DEF ReassemblyInv
<1> QED
  BY <1>1, <1>4, <1>5, <1>6, <1>8, <1>9, Zenon DEF ReassemblyInv

LEMMA PumpReceivesGathers ==
  ASSUME FragmentsCutByTheRules, IPsecInv, ReassemblyInv, PumpReceives
  PROVE  ReassemblyInv'
<1> DEFINE g == transport
           R(p) == IF g = 0 THEN [st |-> "packet", t |-> <<>>, p |-> p, blocks |-> <<>>]
                   ELSE TransformInbound(tr[g], g, p)
<1>1. PICK p \in scenario.in :
        /\ tr' = IF g = 0 THEN tr ELSE [tr EXCEPT ![g] = R(p).t]
        /\ joined' = R(p).blocks
  BY DEF PumpReceives
<1>2. UNCHANGED <<scenario, snd>>
  BY DEF PumpReceives, outVars
<1>3. g \in 0..Len(tr) /\ Len(tr) \in Nat
  BY InputsOK DEF IPsecInv, InstalledOK
<1>4. CASE g = 0
  <2>1. tr' = tr /\ joined' = <<>>
    BY <1>1, <1>4
  <2>2. WholeDatagram(<<>>)
    BY DEF WholeDatagram
  <2> HIDE DEF g, R
  <2> QED BY <1>2, <2>1, <2>2, Zenon DEF ReassemblyInv
<1>5. CASE g # 0
  <2> DEFINE r == TransformInbound(tr[g], g, p)
             x == process(tr[g].inF, p)
  <2>1. tr' = [tr EXCEPT ![g] = r.t] /\ joined' = r.blocks /\ g \in 1..Len(tr)
    BY <1>1, <1>3, <1>5
  <2>2. GatheredAll(x.sets, scenario.in) /\ WholeDatagram(x.blocks)
    <3>1. GatheredAll(tr[g].inF, scenario.in)
      BY <2>1 DEF ReassemblyInv
    <3> HIDE DEF g
    <3> QED BY <2>1, <3>1, InputsOK, ProcessGathers
  <2>3. r.t.inF = x.sets /\ r.t.outF = tr[g].outF /\ r.blocks = x.blocks
    BY <2>1, InputsOK, TransformsProcess
  <2> HIDE DEF r, g, R
  <2>4. Len(tr') = Len(tr) /\ \A h \in 1..Len(tr) : tr'[h] = IF h = g THEN r.t ELSE tr[h]
    <3>1. DOMAIN tr = 1..Len(tr)
      BY InputsOK
    <3>2. DOMAIN tr' = 1..Len(tr) /\ tr' = [h \in 1..Len(tr) |-> tr'[h]]
      BY <2>1, <3>1
    <3>3. Len(tr') = Len(tr)
      BY <1>3, <3>2, MapIs
    <3> QED BY <2>1, <3>1, <3>3
  <2> HIDE DEF x
  <2>5. ASSUME NEW h \in 1..Len(tr)
        PROVE  GatheredAll(tr'[h].outF, scenario.out) /\ GatheredAll(tr'[h].inF, scenario.in)
    BY <2>1, <2>2, <2>3, <2>4 DEF ReassemblyInv
  <2> QED BY <1>2, <2>1, <2>2, <2>3, <2>4, <2>5, Zenon DEF ReassemblyInv
<1> QED BY <1>4, <1>5

LEMMA InstallGathers ==
  ASSUME IPsecInv, ReassemblyInv, Install
  PROVE  ReassemblyInv'
<1>1. PICK in \in scenario.inputs : PolicyOK(in) /\ tr' = Append(tr, NewTransport(in))
  BY Zenon DEF Install
<1> DEFINE t == NewTransport(in)
           ts == tr'
<1>2. UNCHANGED <<scenario, snd, joined>>
  BY DEF Install, outVars
<1>3. t.outF = <<>> /\ t.inF = <<>>
  BY DEF NewTransport
<1>4. ts = Append(tr, t)
  BY <1>1
<1> HIDE DEF t, ts
<1>5. IsSeq(tr) /\ Len(tr) \in Nat
  BY DEF IPsecInv, TransportsOK, IsSeq
<1>6. Appended(tr, t, ts)
  BY <1>4, <1>5, AppendIs
<1>7. /\ Len(ts) = Len(tr) + 1 /\ ts[Len(ts)] = t /\ \A i \in 1..Len(tr) : ts[i] = tr[i]
  BY <1>6, Zenon DEF Appended
<1>8. \A S : GatheredAll(<<>>, S)
  BY DEF GatheredAll
<1>9. ASSUME NEW h \in 1..Len(ts)
      PROVE  GatheredAll(ts[h].outF, scenario.out) /\ GatheredAll(ts[h].inF, scenario.in)
  <2>1. CASE h = Len(ts)
    BY <1>3, <1>7, <1>8, <2>1
  <2>2. CASE h # Len(ts)
    <3>1. h \in 1..Len(tr) /\ ts[h] = tr[h]
      BY <1>5, <1>7, <2>2
    <3> QED BY <3>1 DEF ReassemblyInv
  <2> QED BY <2>1, <2>2
<1>10. \A h \in 1..Len(tr') : GatheredAll(tr'[h].outF, scenario.out) /\ GatheredAll(tr'[h].inF, scenario.in)
  BY <1>9 DEF ts
<1> QED
  BY <1>2, <1>10, Zenon DEF ReassemblyInv

LEMMA TimePassesGathers ==
  ASSUME FragmentsCutByTheRules, IPsecInv, ReassemblyInv, TimePasses
  PROVE  ReassemblyInv'
<1>1. tr' = [g \in DOMAIN tr |-> [tr[g] EXCEPT !.outF = Aged(@), !.inF = Aged(@)]]
      /\ UNCHANGED <<scenario, snd, joined>>
  BY DEF TimePasses, outVars
<1>2. Len(tr) \in Nat /\ DOMAIN tr = 1..Len(tr)
  BY InputsOK
<1>3. Len(tr') = Len(tr)
  <2>1. DOMAIN tr' = 1..Len(tr) /\ tr' = [i \in 1..Len(tr) |-> tr'[i]]
    BY <1>1, <1>2
  <2> QED BY <1>2, <2>1, MapIs
<1>4. ASSUME NEW g \in 1..Len(tr)
      PROVE  GatheredAll(tr'[g].outF, scenario.out) /\ GatheredAll(tr'[g].inF, scenario.in)
  <2> DEFINE t == tr[g]
             u == tr'[g]
  <2>1. u = [t EXCEPT !.outF = Aged(@), !.inF = Aged(@)]
    BY <1>1, <1>2
  <2>2. TransportOK(t) /\ SetsOK(t.outF) /\ SetsOK(t.inF)
    BY InputsOK, Zenon
  <2>3. GatheredAll(t.outF, scenario.out) /\ GatheredAll(t.inF, scenario.in)
    BY DEF ReassemblyInv
  <2> HIDE DEF t, u
  <2>4. u.outF = Aged(t.outF) /\ u.inF = Aged(t.inF)
    BY <2>1, <2>2 DEF TransportOK, TransportFields
  <2>5. GatheredAll(u.outF, scenario.out) /\ GatheredAll(u.inF, scenario.in)
    BY <2>2, <2>3, <2>4, AgedGathers
  <2> QED BY <2>5 DEF u
<1> QED
  BY <1>1, <1>3, <1>4, Zenon DEF ReassemblyInv

\* process, in whichever transport and direction, among senders, the pump, the clock and
\* replacements: a reassembled packet has every block of its datagram and none of another,
\* however its fragments are repeated, reordered, cut again or late.
THEOREM ReassemblySafety ==
  ASSUME FragmentsCutByTheRules
  PROVE  Spec => []ReassembledWhole
<1>1. Init => ReassemblyInv
  BY DEF Init, Idle, ReassemblyInv, WholeDatagram
<1>2. ASSUME IPsecInv, ReassemblyInv, [Next]_vars
      PROVE  ReassemblyInv'
  <2>1. CASE \E s \in Senders : SendTransforms(s)
    BY <1>2, <2>1, SendTransformsGathers, Zenon
  <2>2. CASE PumpReceives \/ Install \/ TimePasses
    BY <1>2, <2>2, PumpReceivesGathers, InstallGathers, TimePassesGathers, Zenon
  <2>3. CASE /\ ~\E s \in Senders : SendTransforms(s)
             /\ ~(PumpReceives \/ Install \/ TimePasses)
    <3>1. \/ \E s \in Senders : SendLoads(s) \/ SendBare(s) \/ SendHands(s) \/ SendFails(s)
          \/ PumpDelivers \/ PumpStops \/ SourceEnds \/ StackReads
          \/ Clear \/ CloseCalled \/ CloseReturns \/ UNCHANGED vars
      BY <1>2, <2>3, Zenon DEF Next
    <3> QED BY <1>2, <3>1, OthersGather, Zenon
  <2> QED BY <2>1, <2>2, <2>3, Zenon
<1>3. ReassemblyInv => ReassembledWhole
  BY Zenon DEF ReassemblyInv, WholeDatagram, ReassembledWhole
<1> QED BY <1>1, <1>2, <1>3, IPsecInvariant, PTL DEF Spec
=============================================================================
