-------------------------- MODULE MCSipMessaging --------------------------
(* SipMessaging for TLC: one scenario for each thing that can interfere. *)
EXTENDS SipMessaging

\* a, b, @, the two-byte letter e acute, and the euro sign behind an escape.
MCGsm7 ==
  [c \in {97, 98, 64, 233, 8364} |->
     CASE c = 97 -> <<97>> [] c = 98 -> <<98>> [] c = 64 -> <<0>> [] c = 233 -> <<5>>
       [] OTHER -> <<27, 101>>]

Rep(c, n) == [i \in 1..n |-> c]

\* A character at each place of a text of n.
Placed(c, n) == {Rep(97, k - 1) \o <<c>> \o Rep(98, n - k) : k \in 1..n}

\* Around the limits of one and of several parts; characters of two septets and of two
\* units at every place, so that they meet each boundary.
CodecTexts ==
  {Rep(97, n) : n \in {1, 7, 8, 15, 16, 17, 18, 19, 27, 28}}
    \cup Placed(8364, 18) \cup Placed(64, 9) \cup Placed(1046, 8) \cup Placed(128512, 7)

Short == Rep(97, 3)
Long  == Rep(98, 17)
Three == Rep(98, 27)

\* Semi-octets: the tens are in the low half.
Bcd(n) == (n \div 10) + 16 * (n % 10)

\* The end of a leap day, one hour east; a second later; another second later, two hours
\* east, as the leap second of a day February does not have; a month that there is not.
Stamp == <<Bcd(24), Bcd(2), Bcd(29), Bcd(23), Bcd(59), Bcd(58), Bcd(4)>>
NextSecond == [Stamp EXCEPT ![6] = Bcd(59)]
LeapSecond == [Stamp EXCEPT ![3] = Bcd(30), ![4] = Bcd(0), ![6] = Bcd(60), ![7] = Bcd(8)]
NoMonth == [Stamp EXCEPT ![2] = Bcd(13)]

Deliver(p, scts) == [p EXCEPT !.type = "deliver", !.scts = scts]
Twice == PrepareSMSSubmitTPDUs(Peer, Rep(97, 18), 9)
Once  == PrepareSMSSubmitTPDUs(Peer, Short, 0)[1]

\* Two parts with the same words, a status report, a message without a valid timestamp, a
\* TPDU that is cut off, one misnumbered, and one that names nobody.
Number == [Nobody EXCEPT !.plus = TRUE, !.digits = Peer.digits]
Centre == [Nobody EXCEPT !.digits = Smsc]
MT(id, tpdu, from) == [id |-> id, tpdu |-> tpdu, from |-> from, originator |-> Centre]
First    == MT(1, Deliver(Twice[1], Stamp), Number)
Second   == MT(2, Deliver(Twice[2], Stamp), Number)
Report   == MT(3, [Twice[1] EXCEPT !.type = "report"], Number)
Unstamped == MT(4, Deliver(Once, NoMonth), Number)
Cut      == MT(5, [Deliver(Twice[1], Stamp) EXCEPT !.ud = SubSeq(@, 1, 5)], Number)
Misnumbered == MT(6, [Deliver(Twice[1], Stamp) EXCEPT !.ud[6] = 3], Number)
Unnamed  == MT(7, Once, Centre)

\* The same words at different times.
Again(id, scts) == MT(id, Deliver(Once, scts), Number)

\* From a name: the length counts semi-octets, or characters as older sources have it.
Named(name, legacy, scts) ==
  LET s == encodeGSM7(name)
  IN  MT(11, [Deliver(Once, scts) EXCEPT !.toa = 208, !.addr = packSeptets(s, 0),
                                         !.alen = IF legacy THEN Len(s) ELSE (Len(s) * 7 + 3) \div 4],
         [Nobody EXCEPT !.name = name])
StandardNames == {Rep(97, n) : n \in 1..9} \cup Placed(64, 8) \cup Placed(8364, 3)

\* The names that count characters and of which the first half can be read as a name are ab,
\* bb and aaaa@aa.  The fields behind it shift: ab is stored as a with no text where the zone,
\* taken for the length of the text, is 0, and refused where it is not.
Greenwich == [Stamp EXCEPT ![7] = 0]
LegacyNames ==
  {Rep(97, n) : n \in 2..9} \cup UNION {[1..n -> {97, 98}] : n \in 2..4} \cup {Rep(97, 4) \o <<64>> \o Rep(97, 2)}
FromNames ==
  {Named(n, FALSE, Stamp) : n \in StandardNames}
    \cup {Named(n, TRUE, s) : n \in LegacyNames, s \in {Stamp, Greenwich}}

Quiet == [texts |-> {Short}, sends |-> 0, mt |-> {}, deliveries |-> 0, refreshes |-> 0,
          invites |-> FALSE, closes |-> FALSE, faults |-> FALSE]

MCScenarios ==
  {[Quiet EXCEPT !.texts = CodecTexts, !.sends = 1],
   [Quiet EXCEPT !.texts = {Short, Three}, !.sends = 2],
   [Quiet EXCEPT !.texts = {Long}, !.sends = 1, !.faults = TRUE, !.closes = TRUE],
   [Quiet EXCEPT !.mt = {First, Second}, !.deliveries = 1],
   [Quiet EXCEPT !.mt = {First}, !.deliveries = 2],
   [Quiet EXCEPT !.mt = {Report, Unstamped}, !.deliveries = 1],
   [Quiet EXCEPT !.mt = {Again(8, Stamp), Again(9, NextSecond)}, !.deliveries = 1],
   [Quiet EXCEPT !.mt = {Again(9, NextSecond), Again(10, LeapSecond)}, !.deliveries = 1],
   [Quiet EXCEPT !.mt = {Cut, Misnumbered}, !.deliveries = 1, !.closes = TRUE],
   [Quiet EXCEPT !.texts = {Long}, !.sends = 1, !.mt = {First}, !.deliveries = 1],
   [Quiet EXCEPT !.refreshes = 2],
   [Quiet EXCEPT !.refreshes = 1, !.sends = 1],
   [Quiet EXCEPT !.refreshes = 1, !.closes = TRUE, !.faults = TRUE],
   [Quiet EXCEPT !.invites = TRUE, !.closes = TRUE, !.faults = TRUE]}
  \cup {[Quiet EXCEPT !.mt = {m}, !.deliveries = 1] : m \in FromNames \cup {Unnamed}}

MCGrants ==
  {[expires |-> None, contacts |-> {[own |-> TRUE, expires |-> 2]}],
   [expires |-> 3, contacts |-> {[own |-> TRUE, expires |-> 0], [own |-> FALSE, expires |-> 2]}]}
=============================================================================
