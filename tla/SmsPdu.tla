------------------------------ MODULE SmsPdu ------------------------------
(***************************************************************************)
(* The SMS codec (internal/device) and the RP envelope around it           *)
(* (internal/vowifi/messaging): alphabet selection, concatenation, septet  *)
(* packing behind a user data header, and the decoder.                     *)
(*                                                                         *)
(* A text is a sequence of code points; octets, septets and UTF-16 units   *)
(* are numbers.  A TPDU is a record of its fields; addr, scts and ud are   *)
(* the octets of the address, the timestamp and the user data, and alen,   *)
(* toa and udl the lengths and the type of address given for them.         *)
(***************************************************************************)
EXTENDS Integers, SequencesExt

CONSTANTS Gsm7,            \* gsm7Encoder: the septets of each character that has any
          MaxSeptets,      \* of a single part; the code's 160
          SegmentSeptets,  \* of a part of several; the code's 153
          MaxUnits,        \* the same in UTF-16 units; the code's 70
          SegmentUnits,    \* the code's 67
          MaxOctets,       \* of the user data; the code's 140
          MaxParts         \* the code's 255

ASSUME LimitsAssumption ==
  /\ MaxSeptets \in Nat /\ SegmentSeptets \in Nat /\ SegmentSeptets > 1
  /\ MaxUnits \in Nat /\ SegmentUnits \in Nat /\ SegmentUnits > 1
  /\ MaxOctets \in Nat /\ MaxParts \in 1..255

ASSUME Gsm7Assumption ==
  \A c \in DOMAIN Gsm7 : Len(Gsm7[c]) \in 1..2 /\ \A i \in DOMAIN Gsm7[c] : Gsm7[c][i] \in 0..127

Escape == 27
NoText == <<-1>>     \* the error of the codecs
NoParts == <<>>      \* the error of the encoder

-----------------------------------------------------------------------------
(* Alphabets *)

\* The septets of the text, or NoText when a character has none.
encodeGSM7(text) ==
  IF \A i \in DOMAIN text : text[i] \in DOMAIN Gsm7
    THEN FlattenSeq([i \in DOMAIN text |-> Gsm7[text[i]]])
    ELSE NoText

CharOf(septets) == {c \in DOMAIN Gsm7 : Gsm7[c] = septets}

\* An escape and the code behind it are one character.
decodeGSM7(septets) ==
  LET Step(acc, i) ==
        CASE acc.esc -> [esc |-> FALSE, chars |-> Append(acc.chars, <<Escape, septets[i]>>)]
          [] ~acc.esc /\ septets[i] = Escape -> [acc EXCEPT !.esc = TRUE]
          [] OTHER -> [acc EXCEPT !.chars = Append(@, <<septets[i]>>)]
      end == FoldLeftDomain(Step, [esc |-> FALSE, chars |-> <<>>], septets)
  IN  IF end.esc \/ \E i \in DOMAIN end.chars : CharOf(end.chars[i]) = {} THEN NoText
      ELSE [i \in DOMAIN end.chars |-> CHOOSE c \in CharOf(end.chars[i]) : TRUE]

HighSurrogate(u) == u \in 55296..56319
LowSurrogate(u)  == u \in 56320..57343

utf16Encode(text) ==
  FlattenSeq([i \in DOMAIN text |->
    IF text[i] < 65536 THEN <<text[i]>>
    ELSE LET v == text[i] - 65536 IN <<55296 + (v \div 1024), 56320 + (v % 1024)>>])

\* A surrogate without its other half is no text.
utf16Decode(units) ==
  LET Step(acc, i) ==
        LET u == units[i] IN
        CASE HighSurrogate(u) -> [acc EXCEPT !.high = u, !.ok = @ /\ acc.high = 0]
          [] LowSurrogate(u) -> [high |-> 0, ok |-> acc.ok /\ acc.high # 0,
                                 text |-> Append(acc.text, 65536 + (acc.high - 55296) * 1024 + (u - 56320))]
          [] OTHER -> [acc EXCEPT !.text = Append(@, u), !.ok = @ /\ acc.high = 0]
      end == FoldLeftDomain(Step, [high |-> 0, ok |-> TRUE, text |-> <<>>], units)
  IN  IF end.ok /\ end.high = 0 THEN end.text ELSE NoText

\* Control characters are not printable, except line ends and tabs.
readableText(text) ==
  LET printable == SelectSeq(text, LAMBDA c : c >= 32 \/ c \in {9, 10, 13})
  IN  Len(printable) * 100 >= Len(text) * 90

-----------------------------------------------------------------------------
(* Segmentation *)

\* Cut so that no segment ends where Breaks(i) forbids to cut behind position i.
Split(s, maximum, Breaks(_)) ==
  LET Step(acc, i) ==
        LET n == i - acc.from + 1      \* the length up to i
        IN  IF i < Len(s) /\ (n = maximum \/ (n = maximum - 1 /\ Breaks(i + 1)))
              THEN [from |-> i + 1, out |-> Append(acc.out, SubSeq(s, acc.from, i))]
              ELSE acc
      end == FoldLeftDomain(Step, [from |-> 1, out |-> <<>>], s)
  IN  Append(end.out, SubSeq(s, end.from, Len(s)))

\* Faulty variant: an escape may be the last septet of a segment.
splitGSM7Anywhere(septets, maximum) == Split(septets, maximum, LAMBDA i : FALSE)

\* An escape stays with the code behind it.
splitGSM7(septets, maximum) ==
  Split(septets, maximum, LAMBDA i : i < Len(septets) /\ septets[i] = Escape)

\* The halves of a surrogate pair stay together.
splitUCS2(units, maximum) ==
  Split(units, maximum, LAMBDA i : /\ i < Len(units)
                                   /\ HighSurrogate(units[i]) /\ LowSurrogate(units[i + 1]))

-----------------------------------------------------------------------------
(* Octets *)

encodeUCS2Units(units) ==
  FlattenSeq([i \in DOMAIN units |-> <<units[i] \div 256, units[i] % 256>>])

concatUDH(reference, total, sequence) == <<5, 0, 3, reference, total, sequence>>

\* Septet i begins at bit startBit + 7 * (i - 1); what does not fit into its octet goes
\* to the low bits of the next one.  The bits or-ed together are disjoint.
packSeptets(septets, startBit) ==
  LET size == (startBit + Len(septets) * 7 + 7) \div 8
      Step(acc, i) ==
        LET bit == startBit + (i - 1) * 7
            at == bit \div 8 + 1  shift == bit % 8
            low == [acc EXCEPT ![at] = @ + ((septets[i] * 2^shift) % 256)]
        IN  IF shift > 1 /\ at < size
              THEN [low EXCEPT ![at + 1] = @ + (septets[i] \div 2^(8 - shift))] ELSE low
  IN  FoldLeftDomain(Step, [j \in 1..size |-> 0], septets)

unpackSeptets(data, count, startBit) ==
  IF count < 0 \/ startBit + count * 7 > Len(data) * 8 THEN NoText
  ELSE [i \in 1..count |->
          LET bit == startBit + (i - 1) * 7
              at == bit \div 8 + 1  shift == bit % 8
              high == IF shift > 1 /\ at < Len(data) THEN data[at + 1] * 2^(8 - shift) ELSE 0
          IN  ((data[at] \div 2^shift) + high) % 128]

headerSeptets(headerBytes) == (headerBytes * 8 + 6) \div 7

\* Two digits to an octet, the first in the low half; an odd one out is filled with F.
encodeSemiOctets(digits) ==
  [j \in 1..((Len(digits) + 1) \div 2) |->
     digits[2 * j - 1] + 16 * (IF 2 * j <= Len(digits) THEN digits[2 * j] ELSE 15)]

\* At most count digits; halves above 9 are passed over.
decodeNumericAddress(octets, count) ==
  LET halves == FlattenSeq([j \in DOMAIN octets |-> <<octets[j] % 16, octets[j] \div 16>>])
      digits == SelectSeq(halves, LAMBDA d : d <= 9)
  IN  SubSeq(digits, 1, IF count < Len(digits) THEN count ELSE Len(digits))

-----------------------------------------------------------------------------
(* SMS-SUBMIT *)

\* normalizeSMSRecipient: a recipient is its digits and whether + came first.
RecipientOK(to) == Len(to.digits) \in 1..20

\* encodeSubmitPDUWithHeader with the user data laid out.
Submit(to, dcs, udl, ud, header) ==
  [type |-> "submit", udhi |-> header # <<>>, ref |-> 0, alen |-> Len(to.digits),
   toa |-> IF to.plus THEN 145 ELSE 129, addr |-> encodeSemiOctets(to.digits), dcs |-> dcs,
   scts |-> <<>>, udl |-> udl, ud |-> ud]

\* The header overlays the bits packSeptets leaves free for it.
SubmitGSM7(to, septets, header) ==
  LET filled == headerSeptets(Len(header))
      packed == packSeptets(septets, filled * 7)
  IN  Submit(to, 0, filled + Len(septets),
             [j \in DOMAIN packed |-> IF j <= Len(header) THEN header[j] ELSE packed[j]], header)

SubmitUCS2(to, units, header) ==
  LET ud == header \o encodeUCS2Units(units) IN Submit(to, 8, Len(ud), ud, header)

\* The encoder refuses anything longer.
Fits(p) == p.udl <= (IF p.dcs = 8 THEN MaxOctets ELSE MaxSeptets)

SubmitPart(to, gsm7, s, header) == IF gsm7 THEN SubmitGSM7(to, s, header) ELSE SubmitUCS2(to, s, header)

\* At most MaxParts, each with a header.
Numbered(to, gsm7, segments, reference) ==
  IF Len(segments) > MaxParts THEN NoParts
  ELSE [k \in DOMAIN segments |->
          SubmitPart(to, gsm7, segments[k], concatUDH(reference, Len(segments), k))]

\* prepareSMSPartsWithReference: one part without a header, or several with one.
PartsOf(to, gsm7, s, reference) ==
  IF Len(s) <= IF gsm7 THEN MaxSeptets ELSE MaxUnits
    THEN <<SubmitPart(to, gsm7, s, <<>>)>>
    ELSE Numbered(to, gsm7, IF gsm7 THEN splitGSM7(s, SegmentSeptets) ELSE splitUCS2(s, SegmentUnits),
                  reference)

Checked(parts) == IF \A k \in DOMAIN parts : Fits(parts[k]) THEN parts ELSE NoParts

\* PrepareSMSSubmitTPDUs: the parts; reference is the random octet.
PrepareSMSSubmitTPDUs(to, text, reference) ==
  LET septets == encodeGSM7(text)
      gsm7 == septets # NoText
  IN  IF RecipientOK(to) /\ text # <<>> /\ ~Contains(text, 0)
        THEN Checked(PartsOf(to, gsm7, IF gsm7 THEN septets ELSE utf16Encode(text), reference))
        ELSE NoParts

\* Octets of a TPDU, its fixed fields included.
TPDULength(p) == 7 + Len(p.addr) + Len(p.ud)

\* What BuildRPMOData takes.
RPMOData(smsc, tpdu) == Len(smsc) \in 3..20 /\ TPDULength(tpdu) <= 232

Referenced(smsc, parts, seed) ==
  IF \A k \in DOMAIN parts : RPMOData(smsc, parts[k])
    THEN [k \in DOMAIN parts |-> [parts[k] EXCEPT !.ref = (seed + k - 1) % 256]] ELSE NoParts

\* The bodies of the MESSAGEs of a text: consecutive references from a random one.
Bodies(smsc, to, text, reference, seed) ==
  Referenced(smsc, PrepareSMSSubmitTPDUs(to, text, reference), seed)

-----------------------------------------------------------------------------
(* The decoder *)

decodeSMSAlphabet(dcs) ==
  LET high == dcs \div 16 IN
  CASE high < 8 /\ (dcs \div 32) % 2 = 1 -> "unknown"
    [] high < 8 /\ (dcs \div 32) % 2 = 0 -> <<"gsm7", "8bit", "ucs2", "unknown">>[1 + ((dcs \div 4) % 4)]
    [] high \in {12, 13} -> "gsm7"
    [] high = 14 -> "ucs2"
    [] high = 15 -> IF (dcs \div 4) % 2 = 1 THEN "8bit" ELSE "gsm7"
    [] OTHER -> "unknown"

\* The information elements of a header, up to one that is cut off.
Elements(header) ==
  LET Step(acc, i) ==
        IF i # acc.at \/ i >= Len(header) THEN acc
        ELSE LET len == header[i + 1]
             IN  IF i + 1 + len > Len(header) THEN [acc EXCEPT !.at = 0]
                 ELSE [at |-> i + 2 + len,
                       out |-> Append(acc.out, [id |-> header[i], value |-> SubSeq(header, i + 2, i + 1 + len)])]
  IN  FoldLeftDomain(Step, [at |-> 1, out |-> <<>>], header).out

NoConcat == [reference |-> 0, total |-> 0, sequence |-> 0]

\* The first concatenation element, with 8 or 16 bits of reference.
parseConcatHeader(header) ==
  LET found == SelectSeq(Elements(header), LAMBDA e : \/ e.id = 0 /\ Len(e.value) = 3
                                                      \/ e.id = 8 /\ Len(e.value) = 4)
  IN  IF found = <<>> THEN NoConcat
      ELSE LET v == Head(found).value  n == Len(v)
           IN  [reference |-> IF n = 3 THEN v[1] ELSE v[1] * 256 + v[2],
                total |-> v[n - 1], sequence |-> v[n]]

\* decodeUTF16Bytes, without a byte order mark.
decodeUTF16Bytes(payload) ==
  LET text == utf16Decode([j \in 1..(Len(payload) \div 2) |-> payload[2 * j - 1] * 256 + payload[2 * j]])
  IN  IF Len(payload) % 2 = 0 /\ text # NoText /\ readableText(text) THEN text ELSE NoText

\* [text, concat].  What is neither GSM-7 nor UCS-2 is kept as its octets; the guesses of
\* decodeTextBytes at other character sets are left out.
decodeUserData(p) ==
  LET alphabet == decodeSMSAlphabet(p.dcs)
      expected == IF alphabet = "gsm7" THEN (p.udl * 7 + 7) \div 8 ELSE p.udl
      data == SubSeq(p.ud, 1, expected)
      headerBytes == IF p.udhi THEN data[1] + 1 ELSE 0
      payload == SubSeq(data, headerBytes + 1, Len(data))
      septets == unpackSeptets(data, p.udl - headerSeptets(headerBytes), headerSeptets(headerBytes) * 7)
      whole == expected <= Len(p.ud) /\ (p.udhi => data # <<>> /\ headerBytes <= Len(data))
  IN  [text |-> IF ~whole THEN NoText
                ELSE CASE alphabet = "gsm7" -> IF septets = NoText THEN NoText ELSE decodeGSM7(septets)
                       [] alphabet = "ucs2" -> decodeUTF16Bytes(payload)
                       [] OTHER -> payload,
       concat |-> IF whole /\ p.udhi THEN parseConcatHeader(SubSeq(data, 2, headerBytes)) ELSE NoConcat]

\* Nothing but zeros behind the septets.
hasZeroGSM7Padding(octets, count) ==
  /\ count > 0 /\ count * 7 <= Len(octets) * 8
  /\ \A bit \in (count * 7)..(Len(octets) * 8 - 1) : (octets[bit \div 8 + 1] \div 2^(bit % 8)) % 2 = 0

TypeOfNumber(toa) == (toa \div 16) % 8

\* Whether the octets at hand begin with a zero-padded name of alen semi-octets.
StandardName(octets, alen) ==
  LET count == (alen + 1) \div 2 IN
  count \in 1..Len(octets) /\ hasZeroGSM7Padding(SubSeq(octets, 1, count), (alen * 4) \div 7)

\* A name: its length counts semi-octets, and septets where that cannot be.
AlphanumericAddress(octets, alen) ==
  LET septets == unpackSeptets(octets, IF StandardName(octets, alen) THEN (alen * 4) \div 7 ELSE alen, 0)
  IN  IF septets = NoText THEN NoText ELSE decodeGSM7(septets)

Nobody == [plus |-> FALSE, digits |-> <<>>, name |-> <<>>]

\* The octets from the address on; the protocol identifier is 0.
FromAddress(p) == p.addr \o <<0, p.dcs>> \o p.scts \o <<p.udl>> \o p.ud

\* How many of them the decoder takes for the address.
AddressOctets(p) ==
  IF TypeOfNumber(p.toa) = 5 /\ ~StandardName(FromAddress(p), p.alen)
    THEN (p.alen * 7 + 7) \div 8 ELSE (p.alen + 1) \div 2

\* A number or a name.
readTPAddress(p) ==
  IF TypeOfNumber(p.toa) = 5
    THEN [Nobody EXCEPT !.name = AlphanumericAddress(p.addr, p.alen)]
    ELSE [plus |-> TypeOfNumber(p.toa) = 1, digits |-> decodeNumericAddress(p.addr, p.alen), name |-> <<>>]

-----------------------------------------------------------------------------
(* Service-centre timestamps: an instant is <<minutes, seconds>>. *)

NoTime == <<>>

\* Days up to a date of the Gregorian calendar; a day the month does not have is one of
\* the next month, as it is to time.Date.
DayNumber(year, month, day) ==
  LET y == IF month <= 2 THEN year - 1 ELSE year     \* years begin with March
  IN  365 * y + (y \div 4) - (y \div 100) + (y \div 400)
        + ((153 * ((month + 9) % 12) + 2) \div 5) + day

Decimal(octet) == octet % 16 <= 9 /\ octet \div 16 <= 9
Component(octet) == (octet % 16) * 10 + (octet \div 16)

\* The zone is in quarters of an hour, with its sign in bit 3.
Instant(c, zone, east) ==
  LET minutes == (DayNumber(IF c[1] >= 90 THEN 1900 + c[1] ELSE 2000 + c[1], c[2], c[3]) * 24 + c[4]) * 60
                   + c[5] + (c[6] \div 60) + (IF east THEN -15 ELSE 15) * zone
  IN  IF /\ zone <= 56 /\ c[2] \in 1..12 /\ c[3] \in 1..31
         /\ c[4] <= 23 /\ c[5] <= 59 /\ c[6] <= 60
        THEN <<minutes, c[6] % 60>> ELSE NoTime

decodeSMSTimestamp(octets) ==
  LET east == (octets[7] \div 8) % 2 = 0
      zone == IF east THEN octets[7] ELSE octets[7] - 8
  IN  IF Len(octets) = 7 /\ Decimal(zone) /\ \A i \in 1..6 : Decimal(octets[i])
        THEN Instant([i \in 1..6 |-> Component(octets[i])], Component(zone), east) ELSE NoTime

\* DecodeSMSDeliverTPDU: kind is "report", "deliver", "submit" or "error".
Delivered(p, sender, ud) ==
  [kind |-> IF \/ ud.text = NoText \/ sender.name = NoText
               \/ p.type \notin {"deliver", "submit", "report"} THEN "error" ELSE p.type,
   sender |-> IF p.type = "deliver" THEN sender ELSE Nobody, text |-> ud.text, concat |-> ud.concat,
   at |-> IF p.type = "submit" THEN NoTime ELSE decodeSMSTimestamp(p.scts)]

\* The TPDU as the cursor cuts it: the other fields begin where the address was taken to
\* end.  Those of a report are not looked at.
Aligned(p) ==
  LET octets == FromAddress(p)
      taken == AddressOctets(p)
      rest == SubSeq(octets, taken + 1, Len(octets))
      udlAt == IF p.type = "deliver" THEN 10 ELSE 3
  IN  CASE p.type = "report" -> p
        [] p.type # "report" /\ Len(rest) < udlAt -> [p EXCEPT !.type = "truncated"]
        [] OTHER -> [p EXCEPT !.addr = SubSeq(octets, 1, taken), !.dcs = rest[2],
                              !.scts = SubSeq(rest, 3, udlAt - 1), !.udl = rest[udlAt],
                              !.ud = SubSeq(rest, udlAt + 1, Len(rest))]

DecodeSMSDeliverTPDU(tpdu) ==
  LET p == Aligned(tpdu)
  IN  Delivered(p, readTPAddress(p), IF p.type \in {"deliver", "submit"} THEN decodeUserData(p)
                                     ELSE [text |-> <<>>, concat |-> NoConcat])
=============================================================================
