-------------------------- MODULE RegisterPolicy --------------------------
(***************************************************************************)
(* The decisions of an IMS registration that depend on nothing but their   *)
(* arguments: which registrars to try and in which order, which offer of a *)
(* Security-Server header to install, what a response means, and how long  *)
(* a binding lasts.                                                        *)
(*                                                                         *)
(* An address is a record: id stands for the text (and its order), fam for *)
(* the family of the parsed host (0: no host:port), self for a host equal  *)
(* to the UE's inner address, score for the rank of its prefix.            *)
(***************************************************************************)
EXTENDS Integers, SequencesExt

CONSTANT LocalFamily     \* family of the UE's inner address: 4 or 6

ASSUME FamilyAssumption == LocalFamily \in {4, 6}

-----------------------------------------------------------------------------
(* Registrar candidates *)

dedupeRegistrarAddrs(addrs) ==
  FoldLeft(LAMBDA out, a : IF Contains(out, a) THEN out ELSE Append(out, a), <<>>, addrs)

registrarHostEqualsLocalIP(a) == a.fam = LocalFamily /\ a.self

registrarSpecMatchesFamily(a) == a.fam = LocalFamily

\* splitRegistrarCandidates
Primary(addrs)  == SelectSeq(addrs, registrarSpecMatchesFamily)
Fallback(addrs) == SelectSeq(addrs, LAMBDA a : ~registrarSpecMatchesFamily(a))

expandRegistrarCandidatesViaIMSNetwork(addrs) ==
  LET d == dedupeRegistrarAddrs(addrs) IN Primary(d) \o Fallback(d)

\* SetupService: the candidates it keeps; override is the configured registrar.
Candidates(addrs, override) ==
  LET e == expandRegistrarCandidatesViaIMSNetwork(addrs)
  IN  IF e = <<>> THEN <<override>> ELSE e

\* pickRegistrar: the own address first, then the own family, then the first.
pickRegistrar(addrs) ==
  LET own == SelectSeq(addrs, registrarHostEqualsLocalIP)
      fam == Primary(addrs)
  IN  Head(IF own # <<>> THEN own ELSE IF fam # <<>> THEN fam ELSE addrs)

\* By score, then by address.
rankedIKEGatewayCandidates(addrs) ==
  SetToSortSeq({a \in Range(addrs) : ~registrarHostEqualsLocalIP(a) /\ a.fam # 0},
               LAMBDA a, b : a.score > b.score \/ (a.score = b.score /\ a.id < b.id))

\* The UE's own address is tried through every gateway, any other one directly.
Attempts(a, gateways) ==
  IF registrarHostEqualsLocalIP(a) /\ gateways # <<>>
    THEN [i \in DOMAIN gateways |-> [registrar |-> a, transport |-> gateways[i]]]
    ELSE <<[registrar |-> a, transport |-> a]>>

expandRegistrarCandidates(addrs) ==
  LET primary    == Primary(addrs)
      registrars == IF primary = <<>> THEN addrs ELSE primary
      fallback   == SelectSeq(Fallback(addrs), LAMBDA a : ~registrarHostEqualsLocalIP(a))
      gateways   == rankedIKEGatewayCandidates(addrs)
      all == FlattenSeq([i \in DOMAIN registrars |-> Attempts(registrars[i], gateways)])
               \o [i \in DOMAIN fallback |-> [registrar |-> fallback[i], transport |-> fallback[i]]]
  IN  dedupeRegistrarAddrs(all)

\* Whom the security association is with, when attempt c was challenged.
effectiveIPSecGatewayAddr(c, addrs) ==
  LET gateways == rankedIKEGatewayCandidates(addrs)
  IN  IF registrarHostEqualsLocalIP(c.registrar) /\ gateways # <<>>
        THEN Head(gateways) ELSE c.transport

-----------------------------------------------------------------------------
(* Security-Server: a sequence of segments [q, match, params], match saying *)
(* that the client offered this mechanism, params the SPIs and ports given. *)

ServerParams == {"spi-c", "spi-s", "port-c", "port-s"}

\* The parameters of the last segment that gives any are those of every offer.
ParseSecurityServer(segments) ==
  LET giving == {i \in DOMAIN segments : DOMAIN segments[i].params # {}}
  IN  IF giving = {} THEN segments
      ELSE LET shared == segments[Max(giving)].params
           IN  [i \in DOMAIN segments |-> [segments[i] EXCEPT !.params = shared]]

offerHasServerParams(o) ==
  \A p \in ServerParams : p \in DOMAIN o.params /\ o.params[p] > 0

\* The earliest of the offers of greatest q among those of eligible, or 0.
BestOffer(offers, eligible) ==
  IF eligible = {} THEN 0
  ELSE CHOOSE i \in eligible :
         \A j \in eligible :
            offers[i].q > offers[j].q \/ (offers[i].q = offers[j].q /\ i <= j)

\* The index of the offer to install, or 0 for an error.
SelectSecurityServerOffer(offers, strict) ==
  LET bestMatch == BestOffer(offers, {i \in DOMAIN offers : offers[i].match})
      bestAny   == BestOffer(offers, {i \in DOMAIN offers : offerHasServerParams(offers[i])})
  IN  IF bestMatch # 0
        THEN IF offerHasServerParams(offers[bestMatch]) THEN bestMatch ELSE 0
        ELSE IF strict THEN 0 ELSE bestAny

-----------------------------------------------------------------------------
(* What a response means.  sec is the sec-agree mode: "disabled", "auto" or *)
(* "required"; server is the Security-Server header, <<>> when absent.      *)

\* "plain", "ipsec" or "error".
decideSecAgreeAfterChallenge(sec, server) ==
  CASE sec = "disabled" -> "plain"
    [] sec # "disabled" /\ server # <<>> -> "ipsec"
    [] sec = "auto" /\ server = <<>> -> "plain"
    [] OTHER -> "error"

\* A 200 that came without a challenge.
decideInitialRegisterSuccessSecurity(sec, server) ==
  CASE server # <<>> /\ sec # "disabled" -> "ipsec"
    [] server = <<>> /\ sec = "required" -> "error"
    [] OTHER -> "plain"

isForbiddenRegisterSIPResponse(status) == status = 403

isTemporaryRegisterSIPResponse(status) == status \in {408, 480, 500, 502, 503, 504}

shouldAdvanceRegistrarForNextRetry(status) ==
  isForbiddenRegisterSIPResponse(status) \/ isTemporaryRegisterSIPResponse(status)

shouldRetryInitialRegisterForStatus(fallback, status) == fallback /\ status = 403

\* What a rejected initial REGISTER leads to; more says that there is another variant.
\* The caller passes FALSE for "has more registrars", so no other step is ever decided here.
decideRegisterFailureOutcome(fallback, status, more) ==
  IF shouldRetryInitialRegisterForStatus(fallback, status) /\ more THEN "variant" ELSE "fail"

\* An error is [kind, status]: "status" for a registrarAttemptError, "probe" for what
\* shouldAdvanceRegistrarForProbeError takes for a timeout or a lost connection.
Advances(err) ==
  \/ err.kind = "status" /\ shouldAdvanceRegistrarForNextRetry(err.status)
  \/ err.kind = "probe"

\* A rejection that is reported by its text alone: "408 Request Timeout" reads like
\* a timeout of our own.
TextError(status) == [kind |-> IF status = 408 THEN "probe" ELSE "other", status |-> status]

-----------------------------------------------------------------------------
(* Lifetimes.  A 200 is [expires, contacts]: the Expires header (None when  *)
(* absent or not a number) and the bindings listed, [own, expires].         *)

CONSTANT None

\* contactGrantedExpiry: the shortest positive lifetime, 0 when there is none.
contactGrantedExpiry(contacts) ==
  LET granted == {c.expires : c \in {d \in contacts : d.expires > 0}}
  IN  IF granted = {} THEN 0 ELSE Min(granted)

Shorten(expires, granted) == IF granted > 0 /\ granted < expires THEN granted ELSE expires

\* finalizeRegisterSuccess; requested is effectiveRegisterExpiry.
RegisteredExpiry(ok, requested) ==
  LET header == IF ok.expires # None /\ ok.expires > 0 THEN ok.expires ELSE requested
  IN  Shorten(header, contactGrantedExpiry(ok.contacts))

\* matchingContactExpiry: the shortest lifetime given for our own Contact, 0 when none
\* is, or None when one of them removes it.  own stands for sameRegistrationContact.
matchingContactExpiry(contacts) ==
  LET own == {c \in contacts : c.own}
  IN  IF \E c \in own : c.expires <= 0 THEN None ELSE contactGrantedExpiry(own)

\* RefreshRegistration: 0 stands for its error returns.
RefreshedExpiry(ok, requested) ==
  LET header  == IF ok.expires = None THEN requested ELSE ok.expires
      matched == matchingContactExpiry(ok.contacts)
  IN  IF header <= 0 \/ matched = None THEN 0
      ELSE Shorten(Shorten(header, contactGrantedExpiry(ok.contacts)), matched)
=============================================================================
