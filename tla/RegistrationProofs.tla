------------------------- MODULE RegistrationProofs -------------------------
(***************************************************************************)
(* Proofs about one registration, for any templates, address lists,        *)
(* Security-Server headers, statuses and grants, and any number of rounds  *)
(* and variants.                                                           *)
(*                                                                         *)
(* The choices over data (the best offer, the shortest lifetime) exist     *)
(* because the natural numbers are well ordered: a counterexample would    *)
(* have a least one.                                                       *)
(***************************************************************************)
EXTENDS Registration, WellFoundedInduction, TLAPS

-----------------------------------------------------------------------------
(* The inductive invariant *)

\* Points before the first REGISTER of a session, on its clear connection, and after it.
Opening == {"prepare", "dial"}
Clear == {"send", "read", "readLate", "wait500", "auth", "readAuth", "readAuthLate", "exhausted"}
Over == {"start", "gap", "done", "failed"}

\* The flow, the session's numbers, its last REGISTER and what waits to be read.
FlowTyped ==
  /\ cfg \in Configs /\ cands = expandRegistrarCandidates(cfg.addrs)
  /\ ci \in 1..Len(cands) /\ vi \in 1..variants /\ round \in 0..MaxRounds
  /\ pc \in {"send", "wait500", "auth", "exhausted"} \cup Opening \cup Over \cup Waiting
  /\ retried \in BOOLEAN /\ sockets \subseteq {"reg", "secure", "portS"}

NumbersTyped ==
  /\ cseq \in Nat \ {0} /\ key \in 0..cseq /\ asked \subseteq 1..cseq
  /\ res.to \in 0..cseq /\ res.server \in Servers \cup {<<>>}

ReqTyped == /\ {"cseq", "bundle", "prot", "contact", "route", "verify"} \subseteq DOMAIN req
            /\ req.cseq \in Nat

InboxTyped == /\ inbox \in Seq([to : Nat, status : Statuses \cup {200, 401}])
              /\ \A i \in DOMAIN inbox : inbox[i].to \in 1..cseq

Typed == FlowTyped /\ NumbersTyped /\ ReqTyped /\ InboxTyped

\* The sockets of each point, up to the one where the result takes them over.
SocketsHeld ==
  /\ SocketsHandedOver
  /\ pc = "prepare" => sockets = {}
  /\ pc \in Clear => "reg" \in sockets
  /\ pc \in Clear \cup {"dial"} /\ cfg.plain => "portS" \in sockets
  /\ pc \in {"secureListen", "readSecure"} => "secure" \in sockets
  /\ pc = "readSecure" => "portS" \in sockets

\* Nothing is on the clear connection while there is none.
ConnectionQuiet == pc \in Opening \cup Over => asked = {} /\ inbox = <<>>

\* How far cseq has come: one for every variant tried, the retry and each round.
RequestsCounted ==
  /\ pc \notin Secure \cup Over => req.cseq < cseq
  /\ pc \in Opening \cup {"send", "read", "readLate", "wait500"} => round = 0
  /\ pc \in Opening \cup {"send", "wait500"} => cseq <= vi + (IF retried THEN 1 ELSE 0)
  /\ pc \in Clear => cseq <= vi + 1 + (IF retried THEN 1 ELSE 0) + round
  /\ pc = "wait500" => retried
  /\ RequestsBounded

\* Until an association is installed there is none, and where security is required no
\* challenge has left keys behind.
NoneYet ==
  /\ pc \in Opening \cup Clear => xform = None
  /\ pc \in Opening \cup Clear /\ cfg.sec = "required" => key = 0

\* Without a variant to go on with, what is under way on the clear connection answers the
\* last REGISTER: provisional responses, and at most one final one, which ends it.
AnswersInOrder ==
  ~cfg.fallback =>
    /\ asked \subseteq {req.cseq}
    /\ \A i \in DOMAIN inbox : inbox[i].to = req.cseq
    /\ \A i \in DOMAIN inbox : i < Len(inbox) \/ asked # {} => inbox[i].status = 100
    /\ pc \in {"send", "wait500", "auth", "exhausted"} => asked = {} /\ inbox = <<>>

AnswersOrdered == pc \notin Secure \cup Over => AnswersInOrder

IInv ==
  /\ Typed /\ SocketsHeld /\ LifetimeGranted /\ ConnectionQuiet /\ RequestsCounted
  /\ NoneYet /\ AgreedWithChallenger /\ KeysOfThisChallenge
  /\ AnswersOrdered /\ ChallengeIsOurs

-----------------------------------------------------------------------------
(* Least numbers and best offers *)

Below == {p \in Nat \X Nat : p[1] < p[2]}

\* A set of natural numbers that is not empty has a least element.
LEMMA Least == ASSUME NEW T \in SUBSET Nat, T # {} PROVE \E x \in T : \A y \in T : x <= y
<1>1. IsWellFoundedOn(Below, Nat)
  <2>1. OpToRel(<, Nat) = Below
    BY Zenon DEF OpToRel, Below
  <2> QED
    BY <2>1, NatLessThanWellFounded, Zenon
<1>2. PICK x \in T : \A y \in T : ~ (<<y, x>> \in Below)
  BY <1>1, WFMin, Zenon
<1>3. \A y \in T : y \in Nat /\ x \in Nat /\ ~(y < x)
  BY <1>2 DEF Below
<1> QED
  BY <1>2, <1>3

\* Among finitely many offers there is an earliest one of greatest q: the first k for
\* which there were none would have one by adding the k-th to those before it.
LEMMA Best ==
  ASSUME NEW n \in Nat, NEW q, \A i \in 1..n : q[i] \in Nat, NEW P \in SUBSET (1..n), P # {}
  PROVE  \E i \in P : \A j \in P : q[i] > q[j] \/ (q[i] = q[j] /\ i <= j)
<1> DEFINE Beats(i, j) == q[i] > q[j] \/ (q[i] = q[j] /\ i <= j)
           Upto(k) == {i \in P : i <= k}
           Bad == {k \in 0..n : Upto(k) # {} /\ ~ \E i \in Upto(k) : \A j \in Upto(k) : Beats(i, j)}
<1>1. Bad = {}
  <2> SUFFICES ASSUME Bad # {} PROVE FALSE
    OBVIOUS
  <2>1. PICK k \in Bad : \A m \in Bad : k <= m
    <3>1. Bad \in SUBSET Nat
      OBVIOUS
    <3> HIDE DEF Bad
    <3> QED
      BY <3>1, Least
  <2>2. k \in 1..n /\ Upto(k - 1) = Upto(k) \ {k}
    <3>1. k \in 0..n /\ \E i \in P : i <= k
      BY <2>1
    <3>2. k \in 1..n
      BY <3>1
    <3>3. \A i \in P : i <= k - 1 <=> i <= k /\ i # k
      BY <3>2
    <3> QED
      BY <3>2, <3>3
  <2>3. k - 1 \notin Bad
    BY <2>1, <2>2
  <2>4. k \in P
    <3>1. CASE k \notin P
      <4>1. Upto(k - 1) = Upto(k)
        BY <2>2, <3>1
      <4>2. k - 1 \in 0..n
        BY <2>2
      <4>3. k - 1 \in Bad
        BY <2>1, <4>1, <4>2
      <4> QED
        BY <2>3, <4>3
    <3> QED
      BY <3>1
  <2>5. CASE Upto(k - 1) = {}
    BY <2>1, <2>2, <2>4, <2>5
  <2>6. CASE Upto(k - 1) # {}
    <3>1. PICK i \in Upto(k - 1) : \A j \in Upto(k - 1) : Beats(i, j)
      <4>1. k - 1 \in 0..n
        BY <2>2
      <4> QED
        BY <2>3, <2>6, <4>1
    <3>2. CASE q[k] > q[i]
      <4>1. \A j \in Upto(k) : Beats(k, j)
        BY <2>2, <2>4, <3>1, <3>2
      <4> QED
        BY <2>1, <2>4, <2>2, <4>1
    <3>3. CASE ~(q[k] > q[i])
      <4>1. \A j \in Upto(k) : Beats(i, j)
        BY <2>2, <2>4, <3>1, <3>3
      <4> QED
        BY <2>1, <2>2, <3>1, <4>1
    <3> QED
      BY <3>2, <3>3
  <2> QED
    BY <2>5, <2>6
<1>2. Upto(n) = P
  <2>1. \A i \in P : i <= n
    OBVIOUS
  <2> QED
    BY <2>1
<1> QED
  BY <1>1, <1>2

\* Parsing keeps the number of the offers, which of them match, and their q.
LEMMA ParseKeeps ==
  ASSUME NEW s \in Servers
  PROVE  LET offers == ParseSecurityServer(s)
         IN  /\ Len(s) \in Nat /\ DOMAIN offers = 1..Len(s)
             /\ \A i \in 1..Len(s) : offers[i].q \in Nat
<1>1. s \in Seq([q : Nat, match : BOOLEAN, params : {s[i].params : i \in DOMAIN s}])
  BY ServersAssumption
<1>2. Len(s) \in Nat /\ DOMAIN s = 1..Len(s)
  BY <1>1
<1>3. \A i \in 1..Len(s) :
        s[i] \in [q : Nat, match : BOOLEAN, params : {s[j].params : j \in DOMAIN s}]
  <2> DEFINE R == [q : Nat, match : BOOLEAN, params : {s[j].params : j \in DOMAIN s}]
  <2>1. s \in Seq(R)
    BY <1>1
  <2> HIDE DEF R
  <2>2. \A i \in 1..Len(s) : s[i] \in R
    BY <2>1
  <2> QED
    BY <2>2 DEF R
<1>4. \A i \in 1..Len(s) : s[i].q \in Nat /\ \A v : [s[i] EXCEPT !.params = v].q = s[i].q
  BY <1>3
<1> QED
  BY <1>2, <1>4 DEF ParseSecurityServer

\* What is selected is complete, and no usable offer beats it.
LEMMA SelectedIsBest ==
  ASSUME NEW s \in Servers, NEW strict,
         SelectSecurityServerOffer(ParseSecurityServer(s), strict) # 0
  PROVE  LET offers == ParseSecurityServer(s)
             n      == SelectSecurityServerOffer(offers, strict)
         IN  /\ offerHasServerParams(offers[n])
             /\ \A i \in {j \in DOMAIN offers : offers[j].match} :
                  offers[n].match /\ offers[n].q >= offers[i].q
<1> DEFINE offers == ParseSecurityServer(s)
           n == SelectSecurityServerOffer(offers, strict)
           Match == {i \in DOMAIN offers : offers[i].match}
           Full == {i \in DOMAIN offers : offerHasServerParams(offers[i])}
           Wins(S) == CHOOSE i \in S : \A j \in S : offers[i].q > offers[j].q
                                                      \/ (offers[i].q = offers[j].q /\ i <= j)
<1>1. /\ Len(s) \in Nat /\ DOMAIN offers = 1..Len(s)
      /\ \A i \in 1..Len(s) : offers[i].q \in Nat
  BY ParseKeeps
<1>2. ASSUME NEW S \in SUBSET DOMAIN offers, S # {}
      PROVE  /\ Wins(S) \in S
             /\ \A j \in S : offers[Wins(S)].q >= offers[j].q
  <2> DEFINE q == [i \in 1..Len(s) |-> offers[i].q]
  <2>1. \E i \in S : \A j \in S : q[i] > q[j] \/ (q[i] = q[j] /\ i <= j)
    <3>1. \A i \in 1..Len(s) : q[i] \in Nat
      BY <1>1
    <3> HIDE DEF q
    <3> QED
      BY <1>1, <1>2, <3>1, Best
  <2>2. \E i \in S : \A j \in S : offers[i].q > offers[j].q \/ (offers[i].q = offers[j].q /\ i <= j)
    BY <1>1, <1>2, <2>1
  <2>3. /\ Wins(S) \in S
        /\ \A j \in S : offers[Wins(S)].q > offers[j].q
                           \/ (offers[Wins(S)].q = offers[j].q /\ Wins(S) <= j)
    BY <2>2
  <2> HIDE DEF Wins, offers
  <2>4. \A j \in S : offers[j].q \in Nat
    BY <1>1
  <2> QED
    BY <2>3, <2>4
<1>3. n = IF Match # {} /\ Wins(Match) # 0
            THEN IF offerHasServerParams(offers[Wins(Match)]) THEN Wins(Match) ELSE 0
            ELSE IF strict THEN 0 ELSE IF Full = {} THEN 0 ELSE Wins(Full)
  BY DEF SelectSecurityServerOffer, BestOffer
<1>4. CASE Match # {}
  <2>1. Wins(Match) \in Match /\ \A j \in Match : offers[Wins(Match)].q >= offers[j].q
    BY <1>2, <1>4
  <2> HIDE DEF Wins, offers
  <2>2. Wins(Match) # 0
    BY <1>1, <2>1
  <2> HIDE DEF n
  <2>3. n = Wins(Match) /\ offerHasServerParams(offers[n])
    BY <1>3, <1>4, <2>2 DEF n, offers
  <2> QED
    BY <2>1, <2>3 DEF n, offers
<1>5. CASE Match = {}
  <2>1. Full # {} /\ n = Wins(Full)
    BY <1>3, <1>5
  <2>2. Wins(Full) \in Full
    BY <1>2, <2>1
  <2> QED
    BY <1>5, <2>1, <2>2
<1> QED
  BY <1>4, <1>5

\* The lifetime kept is positive and that of no binding is shorter.
LEMMA ShortestIsKept ==
  ASSUME NEW g \in Grants
  PROVE  /\ RegisteredExpiry(g, Requested) > 0
         /\ \A c \in g.contacts : c.expires > 0 => RegisteredExpiry(g, Requested) <= c.expires
<1> DEFINE granted == {c.expires : c \in {d \in g.contacts : d.expires > 0}}
           header == IF g.expires # None /\ g.expires > 0 THEN g.expires ELSE Requested
           least == contactGrantedExpiry(g.contacts)
<1>1. g.expires \in Int \cup {None} /\ \A c \in g.contacts : c.expires \in Int
  BY GrantsAssumption
<1>2. header \in Int /\ header > 0
  BY <1>1, BoundsAssumption
<1>3. granted \in SUBSET Nat /\ \A x \in granted : x > 0
  BY <1>1
<1>4. least \in Int /\ \A x \in granted : least > 0 /\ least <= x
  <2>0. least = IF granted = {} THEN 0 ELSE Min(granted)
    BY Zenon DEF contactGrantedExpiry
  <2>1. CASE granted = {}
    <3> HIDE DEF granted, least
    <3> QED
      BY <2>0, <2>1
  <2>2. CASE granted # {}
    <3>1. least = CHOOSE x \in granted : \A y \in granted : x <= y
      BY <2>0, <2>2, Zenon DEF Min
    <3> HIDE DEF granted, least
    <3>2. \E x \in granted : \A y \in granted : x <= y
      BY <1>3, <2>2, Least
    <3>3. least \in granted /\ \A y \in granted : least <= y
      BY <3>1, <3>2
    <3> QED
      BY <1>3, <3>3
  <2> QED
    BY <2>1, <2>2
<1>5. RegisteredExpiry(g, Requested) = IF least > 0 /\ least < header THEN least ELSE header
  BY DEF RegisteredExpiry, Shorten
<1>6. \A c \in g.contacts : c.expires > 0 => c.expires \in granted
  OBVIOUS
<1> HIDE DEF granted, header, least
<1> QED
  BY <1>1, <1>2, <1>3, <1>4, <1>5, <1>6

-----------------------------------------------------------------------------
(* The steps by what they do to the session *)

NextVariant(err, left) ==
  /\ VariantFails(err, left)
  /\ left = inbox \/ (Readable /\ left \in Left)
  /\ pc \in {"send", "read", "readLate", "wait500"}

\* A 200: of the clear connection, or of the protected one.
Concludes(keep, prot, grant) ==
  /\ Succeeds(keep, prot, grant) /\ grant \in Grants
  /\ UNCHANGED <<vi, round, retried, cseq, req, key>>
  /\ res'.to \in 0..cseq /\ res'.server \in Servers \cup {<<>>}
  /\ \/ pc \in {"read", "readAuth"} /\ keep = IF cfg.plain THEN {"reg", "portS"} ELSE {}
     \/ pc = "readSecure" /\ keep = {"secure", "portS"}

\* A response after which the clear connection goes on.
GoesOn(a, left) ==
  /\ Readable /\ left \in Left /\ a \in Responses(Head(inbox)) /\ Accepted(a)
  /\ res' = a /\ inbox' = left
  /\ UNCHANGED <<cfg, cands, ci, vi, round, cseq, req, key,
                 asked, ctxVars, xform, sockets, result>>
  /\ \/ pc = "read" /\ pc' = "wait500" /\ a.status = 500 /\ ~retried /\ retried'
     \/ pc = "read" /\ pc' = "auth" /\ a.status = 401 /\ retried' = retried
     \/ pc = "readAuth" /\ pc' \in {"auth", "exhausted"} /\ a.status = 401 /\ retried' = retried

IsRequest(r) == {"cseq", "bundle", "prot", "contact", "route", "verify"} \subseteq DOMAIN r

\* A REGISTER on the clear connection.
Sends ==
  /\ IsRequest(req') /\ req'.cseq = cseq /\ cseq' = cseq + 1 /\ asked' = asked \cup {cseq}
  /\ UNCHANGED <<cfg, cands, ci, vi, retried, res, inbox, ctxVars, xform, sockets, result>>
  /\ \/ pc = "send" /\ pc' \in {"read", "readLate"} /\ UNCHANGED <<round, key>>
     \/ /\ pc = "auth" /\ pc' \in {"readAuth", "readAuthLate"}
        /\ round < MaxRounds /\ round' = round + 1
        /\ key' \in {key, res.to, 0} /\ (cfg.sec = "required" => key' = key)

\* The association is installed and the protected REGISTER prepared.
Installs ==
  /\ IsRequest(req') /\ req'.route = effectiveIPSecGatewayAddr(attempt, cfg.addrs)
  /\ pc' = "secureDial" /\ key' # 0
  /\ \/ pc = "auth" /\ key' = res.to /\ req'.cseq = cseq /\ cseq' = cseq + 1
     \/ pc = "exhausted" /\ key' = key /\ req'.cseq = req.cseq + 1 /\ cseq' = cseq
  /\ xform' = [call |-> ci, peer |-> effectiveIPSecGatewayAddr(attempt, cfg.addrs),
               key |-> key', offer |-> offer]
  /\ offer # 0 /\ res.server \in Servers
  /\ UNCHANGED <<cfg, cands, ci, vi, round, retried, res, wireVars, ctxVars, sockets, result>>

\* The flow goes on, with another socket perhaps.
Moves ==
  /\ UNCHANGED <<cfg, cands, ci, attemptVars, wireVars, ctxVars, xform, result>>
  /\ \/ pc = "gap" /\ pc' \in {"failed", "start"} /\ sockets' = sockets
     \/ /\ pc = "prepare" /\ pc' = "dial"
        /\ sockets' = sockets \cup (IF cfg.plain THEN {"portS"} ELSE {})
     \/ pc = "dial" /\ pc' = "send" /\ sockets' = sockets \cup {"reg"}
     \/ pc = "wait500" /\ pc' = "send" /\ sockets' = sockets
     \/ pc = "secureDial" /\ pc' = "secureListen" /\ sockets' = sockets \cup {"secure"}
     \/ /\ pc = "secureListen" /\ pc' \in {"readSecure", "readSecureLate"}
        /\ sockets' = sockets \cup {"portS"}

Idles == UNCHANGED <<cfg, cands, pc, ci, attemptVars, wireVars, xform, sockets, result>>

Outcome ==
  \/ \E err : CandidateFails(err)
  \/ \E err, left : NextVariant(err, left)
  \/ \E keep, prot, grant : Concludes(keep, prot, grant)
  \/ \E a, left : GoesOn(a, left)
  \/ StartCandidate \/ Sends \/ Installs \/ Moves
  \/ ReadSkips \/ RegistrarAnswers \/ Idles

\* What a stream read leaves behind is the end of what was there, without its head.
LEMMA LeftIsRest ==
  ASSUME NEW M, inbox \in Seq(M), inbox # <<>>, NEW left \in Left
  PROVE  /\ left \in Seq(M) /\ Len(left) < Len(inbox)
         /\ \A i \in DOMAIN left : \E j \in DOMAIN inbox : left[i] = inbox[j]
<1>1. CASE left = Tail(inbox)
  BY <1>1
<1>2. CASE \E k \in 2..(Len(inbox) + 1) : left = SubSeq(inbox, k, Len(inbox))
  <2>1. PICK k \in 2..(Len(inbox) + 1) : left = SubSeq(inbox, k, Len(inbox))
    BY <1>2
  <2>2. Len(left) = Len(inbox) - k + 1 /\ left \in Seq(M)
    BY <2>1
  <2>3. \A i \in 1..Len(left) : left[i] = inbox[k + i - 1]
    BY <2>1, <2>2
  <2> QED
    BY <2>2, <2>3
<1> QED
  BY <1>1, <1>2 DEF Left

\* A response that is read is that at the head of the connection.
LEMMA AnswerOfHead ==
  ASSUME InboxTyped, Readable, NEW a \in Responses(Head(inbox))
  PROVE  /\ 1 \in DOMAIN inbox /\ a.to = inbox[1].to /\ a.status = inbox[1].status
         /\ a.server \in Servers \cup {<<>>}
         /\ a.status = 200 => a.grant \in Grants
BY DEF InboxTyped, Readable, Responses

\* A read fails, concludes the flow, or lets it go on.
LEMMA ReadOutcome ==
  ASSUME Typed, ReadInitial \/ ReadChallenged
  PROVE  \/ \E err : CandidateFails(err)
         \/ \E err, left : NextVariant(err, left)
         \/ \E keep, prot, grant : Concludes(keep, prot, grant)
         \/ \E a, left : GoesOn(a, left)
<1>1. CASE ReadInitial
  <2>1. PICK left \in Left, a \in Responses(Head(inbox)) :
     \/ ~Accepted(a) /\ VariantFails([kind |-> "other", status |-> 0], left)
     \/ /\ Accepted(a) /\ Retry500(a)
        /\ res' = a /\ inbox' = left /\ retried' = TRUE /\ pc' = "wait500"
        /\ UNCHANGED <<cfg, cands, ci, vi, round, cseq, req, key,
                       asked, ctxVars, xform, sockets, result>>
     \/ /\ Accepted(a) /\ a.status = 401
        /\ res' = a /\ inbox' = left /\ pc' = "auth"
        /\ UNCHANGED <<cfg, cands, ci, vi, round, retried, cseq, req, key,
                       asked, ctxVars, xform, sockets, result>>
     \/ /\ Accepted(a) /\ a.status = 200
        /\ decideInitialRegisterSuccessSecurity(cfg.sec, a.server) = "plain"
        /\ FinishClear(a.grant) /\ res' = a
        /\ UNCHANGED <<vi, round, retried, cseq, req, key>>
     \/ /\ Accepted(a) /\ a.status = 200
        /\ decideInitialRegisterSuccessSecurity(cfg.sec, a.server) # "plain"
        /\ Fails("other")
     \/ /\ Accepted(a) /\ a.status \notin {200, 401} /\ ~Retry500(a)
        /\ LET err == [kind |-> "status", status |-> a.status] IN
           IF decideRegisterFailureOutcome(cfg.fallback, a.status, vi < variants) = "variant"
             THEN VariantFails(err, left) ELSE CandidateFails(err)
    BY <1>1, Zenon DEF ReadInitial
  <2>2. pc = "read" /\ Readable
    BY <1>1 DEF ReadInitial
  <2>3. CASE \E err : VariantFails(err, left)
    BY <2>2, <2>3, Zenon DEF NextVariant
  <2>4. CASE \E err : CandidateFails(err)
    BY <2>4
  <2>5. CASE /\ Accepted(a) /\ Retry500(a)
             /\ res' = a /\ inbox' = left /\ retried' = TRUE /\ pc' = "wait500"
             /\ UNCHANGED <<cfg, cands, ci, vi, round, cseq, req, key,
                            asked, ctxVars, xform, sockets, result>>
    <3>1. GoesOn(a, left)
      BY <2>2, <2>5, Zenon DEF GoesOn, Retry500
    <3> QED
      BY <3>1
  <2>6. CASE /\ Accepted(a) /\ a.status = 401
             /\ res' = a /\ inbox' = left /\ pc' = "auth"
             /\ UNCHANGED <<cfg, cands, ci, vi, round, retried, cseq, req, key,
                            asked, ctxVars, xform, sockets, result>>
    <3>1. GoesOn(a, left)
      BY <2>2, <2>6, Zenon DEF GoesOn
    <3> QED
      BY <3>1
  <2>7. CASE /\ a.status = 200 /\ FinishClear(a.grant) /\ res' = a
             /\ UNCHANGED <<vi, round, retried, cseq, req, key>>
    <3>1. /\ a.grant \in Grants /\ res'.to \in 0..cseq
          /\ res'.server \in Servers \cup {<<>>}
      BY <2>2, <2>7, AnswerOfHead DEF Typed, NumbersTyped, InboxTyped
    <3>2. Concludes(IF cfg.plain THEN {"reg", "portS"} ELSE {}, FALSE, a.grant)
      BY <2>2, <2>7, <3>1, Zenon DEF Concludes, FinishClear
    <3> QED
      BY <3>2
  <2>8. CASE ~Accepted(a) /\ VariantFails([kind |-> "other", status |-> 0], left)
    BY <2>3, <2>8, Zenon
  <2>9. CASE Fails("other")
    BY <2>4, <2>9, Zenon DEF Fails
  <2>10. CASE LET err == [kind |-> "status", status |-> a.status] IN
              IF decideRegisterFailureOutcome(cfg.fallback, a.status, vi < variants) = "variant"
                THEN VariantFails(err, left) ELSE CandidateFails(err)
    BY <2>3, <2>4, <2>10, Zenon
  <2> QED
    BY <2>1, <2>5, <2>6, <2>7, <2>8, <2>9, <2>10, Zenon
<1>2. CASE ReadChallenged
  <2>1. PICK left \in Left, a \in Responses(Head(inbox)) :
     \/ ~Accepted(a) /\ Fails("other")
     \/ /\ Accepted(a) /\ a.status = 401
        /\ res' = a /\ inbox' = left /\ pc' = IF round < MaxRounds THEN "auth" ELSE "exhausted"
        /\ UNCHANGED <<cfg, cands, ci, vi, round, retried, cseq, req, key,
                       asked, ctxVars, xform, sockets, result>>
     \/ /\ Accepted(a) /\ a.status = 200
        /\ FinishClear(a.grant) /\ res' = a
        /\ UNCHANGED <<vi, round, retried, cseq, req, key>>
     \/ /\ Accepted(a) /\ a.status \notin {200, 401}
        /\ CandidateFails(TextError(a.status))
    BY <1>2, Zenon DEF ReadChallenged
  <2>2. pc = "readAuth" /\ Readable
    BY <1>2 DEF ReadChallenged
  <2>3. CASE \E err : CandidateFails(err)
    BY <2>3
  <2>4. CASE /\ Accepted(a) /\ a.status = 401
             /\ res' = a /\ inbox' = left /\ pc' = IF round < MaxRounds THEN "auth" ELSE "exhausted"
             /\ UNCHANGED <<cfg, cands, ci, vi, round, retried, cseq, req, key,
                            asked, ctxVars, xform, sockets, result>>
    <3>1. pc' \in {"auth", "exhausted"}
      BY <2>4
    <3>2. GoesOn(a, left)
      BY <2>2, <2>4, <3>1, Zenon DEF GoesOn
    <3> QED
      BY <3>2
  <2>5. CASE /\ a.status = 200 /\ FinishClear(a.grant) /\ res' = a
             /\ UNCHANGED <<vi, round, retried, cseq, req, key>>
    <3>1. /\ a.grant \in Grants /\ res'.to \in 0..cseq
          /\ res'.server \in Servers \cup {<<>>}
      BY <2>2, <2>5, AnswerOfHead DEF Typed, NumbersTyped, InboxTyped
    <3>2. pc \in {"read", "readAuth"}
      BY <2>2
    <3>3. Concludes(IF cfg.plain THEN {"reg", "portS"} ELSE {}, FALSE, a.grant)
      BY <2>5, <3>1, <3>2, Zenon DEF Concludes, FinishClear
    <3> QED
      BY <3>3
  <2> QED
    BY <2>1, <2>3, <2>4, <2>5, Zenon DEF Fails
<1> QED
  BY <1>1, <1>2

\* A send is refused, or the REGISTER goes out with the next number.
LEMMA SendOutcome ==
  ASSUME Typed, SendInitial \/ Resynchronise \/ AnswerInClear
  PROVE  Sends \/ \E err, left : NextVariant(err, left)
<1> USE DEF Typed, ReqTyped, IsRequest, SendClear
<1>1. CASE SendInitial
  <2>1. CASE \E err : VariantFails(err, inbox)
    <3>1. pc = "send"
      BY <1>1 DEF SendInitial
    <3> QED
      BY <2>1, <3>1, Zenon DEF NextVariant
  <2>2. CASE /\ pc = "send" /\ SendClear(buildRegisterRequest)
             /\ pc' = IF expired THEN "readLate" ELSE "read"
             /\ UNCHANGED <<cfg, cands, ci, vi, round, retried, res, key,
                            inbox, ctxVars, xform, sockets, result>>
    BY <2>2 DEF Sends, buildRegisterRequest
  <2> QED
    BY <1>1, <2>1, <2>2, Zenon DEF SendInitial
<1>2. CASE Resynchronise
  BY <1>2 DEF Resynchronise, Sends
<1>3. CASE AnswerInClear
  <2>1. IsRequest([req EXCEPT !.bundle = FALSE])
    OBVIOUS
  <2>2. cfg.sec # "required"
    BY <1>3 DEF AnswerInClear, decision, decideSecAgreeAfterChallenge
  <2> QED
    BY <1>3, <2>1, <2>2 DEF AnswerInClear, Sends
<1> QED
  BY <1>1, <1>2, <1>3

\* An association is installed only from the header of the last challenge.
LEMMA InstallOutcome ==
  ASSUME Typed, Negotiate \/ Exhausted
  PROVE  Installs \/ \E err : CandidateFails(err)
<1> USE DEF Typed, ReqTyped, NumbersTyped, IsRequest, Install, Installable,
            buildAuthenticatedRegister
<1>1. ASSUME decision = "ipsec" PROVE res.server \in Servers
  BY <1>1 DEF decision, decideSecAgreeAfterChallenge
<1>2. CASE Negotiate
  BY <1>1, <1>2 DEF Negotiate, Installs
<1>3. CASE Exhausted
  <2>1. CASE Fails("other") \/ Fails("probe")
    BY <2>1, Zenon DEF Fails
  <2>2. CASE /\ pc = "exhausted" /\ decision = "ipsec" /\ Installable(key) /\ Install(key)
             /\ req' = buildAuthenticatedRegister(req, req.cseq + 1)
             /\ pc' = "secureDial"
             /\ UNCHANGED <<cfg, cands, ci, vi, round, retried, cseq, res,
                            key, wireVars, ctxVars, sockets, result>>
    BY <1>1, <2>2 DEF Installs
  <2> QED
    BY <1>3, <2>1, <2>2, Zenon DEF Exhausted
<1> QED
  BY <1>2, <1>3

\* Every step is one of these.
LEMMA StepOutcome == ASSUME Typed, [Next]_vars PROVE Outcome
<1>1. CASE ReadInitial \/ ReadChallenged
  BY <1>1, ReadOutcome DEF Outcome
<1>2. CASE SendInitial \/ Resynchronise \/ AnswerInClear
  BY <1>2, SendOutcome DEF Outcome
<1>3. CASE Negotiate \/ Exhausted
  BY <1>3, InstallOutcome DEF Outcome
<1>4. CASE ChallengeFails \/ ReadChallengedFails \/ ReadSecureFails
  <2>1. \E err : CandidateFails(err)
    BY <1>4, Zenon DEF ChallengeFails, ReadChallengedFails, ReadSecureFails, Fails
  <2> QED
    BY <2>1 DEF Outcome
<1>5. CASE ReadInitialFails \/ Wait500
  <2>1. CASE \E err : VariantFails(err, inbox)
    <3>1. pc \in {"send", "read", "readLate", "wait500"}
      BY <1>5 DEF ReadInitialFails, Wait500
    <3>2. \E err, left : NextVariant(err, left)
      BY <2>1, <3>1, Zenon DEF NextVariant
    <3> QED
      BY <3>2 DEF Outcome
  <2>2. CASE ~ \E err : VariantFails(err, inbox)
    <3>1. Wait500 /\ ~ \E err : VariantFails(err, inbox)
      BY <1>5, <2>2, Zenon DEF ReadInitialFails
    <3>2. /\ pc = "wait500" /\ pc' = "send"
          /\ UNCHANGED <<cfg, cands, ci, attemptVars, wireVars, ctxVars, xform, sockets, result>>
      BY <3>1, Zenon DEF Wait500
    <3>3. Moves
      BY <3>2 DEF Moves
    <3> QED
      BY <3>3 DEF Outcome
  <2> QED
    BY <2>1, <2>2
<1>6. CASE Gap \/ Prepare \/ Dial \/ SecureDial \/ SecureListen
  <2>1. (\E err : CandidateFails(err)) \/ Moves
    <3>1. CASE Gap
      BY <3>1 DEF Gap, Moves
    <3>2. CASE Prepare
      BY <3>2 DEF Prepare, Moves, Fails
    <3>3. CASE Dial
      BY <3>3 DEF Dial, Moves, Fails
    <3>4. CASE SecureDial
      BY <3>4 DEF SecureDial, Moves, Fails
    <3>5. CASE SecureListen
      BY <3>5 DEF SecureListen, Moves, Fails
    <3> QED
      BY <1>6, <3>1, <3>2, <3>3, <3>4, <3>5
  <2> QED
    BY <2>1 DEF Outcome
<1>7. CASE ReadSecure
  <2>1. CASE \E err : CandidateFails(err)
    BY <2>1 DEF Outcome
  <2>2. CASE \E g \in Grants : Succeeds({"secure", "portS"}, TRUE, g) /\ UNCHANGED attemptVars
    <3>1. PICK g \in Grants : Succeeds({"secure", "portS"}, TRUE, g) /\ UNCHANGED attemptVars
      BY <2>2
    <3>2. res'.to \in 0..cseq /\ res'.server \in Servers \cup {<<>>} /\ pc = "readSecure"
      BY <1>7, <3>1 DEF ReadSecure, attemptVars, Typed, NumbersTyped
    <3>3. Concludes({"secure", "portS"}, TRUE, g)
      BY <3>1, <3>2, Zenon DEF Concludes, attemptVars
    <3> QED
      BY <3>3 DEF Outcome
  <2> QED
    BY <1>7, <2>1, <2>2, Zenon DEF ReadSecure
<1>8. CASE Cancel \/ AttemptExpires \/ UNCHANGED vars
  <2>1. Idles
    BY <1>8 DEF Cancel, AttemptExpires, vars, Idles, attemptVars, wireVars, ctxVars
  <2> QED
    BY <2>1 DEF Outcome
<1>9. CASE StartCandidate \/ ReadSkips \/ RegistrarAnswers
  BY <1>9 DEF Outcome
<1> QED
  BY <1>1, <1>2, <1>3, <1>4, <1>5, <1>6, <1>7, <1>8, <1>9, Zenon DEF Next, Flow


-----------------------------------------------------------------------------
(* What each kind of step leaves of the invariant *)

\* The flow stays at its points, its candidates and its variants.
LEMMA FlowStep == ASSUME Typed, Outcome PROVE FlowTyped'
<1> USE BoundsAssumption, CandidatesAssumption DEF Typed, FlowTyped, variants, attemptVars
<1>1. ASSUME NEW err, CandidateFails(err) PROVE FlowTyped'
  BY <1>1 DEF CandidateFails, Over
<1>2. ASSUME NEW err, NEW left, NextVariant(err, left) PROVE FlowTyped'
  <2>1. CASE CandidateFails(err)
    BY <1>1, <2>1
  <2>2. CASE ~CandidateFails(err)
    <3>1. /\ vi < variants /\ vi' = vi + 1 /\ pc' = "send"
          /\ UNCHANGED <<cfg, cands, ci, round, retried, sockets>>
      BY <1>2, <2>2 DEF NextVariant, VariantFails
    <3> QED
      BY <3>1
  <2> QED
    BY <2>1, <2>2
<1>3. ASSUME NEW keep, NEW prot, NEW grant, Concludes(keep, prot, grant) PROVE FlowTyped'
  BY <1>3 DEF Concludes, Succeeds, Over
<1>4. ASSUME NEW a, NEW left, GoesOn(a, left) PROVE FlowTyped'
  BY <1>4 DEF GoesOn
<1>5. CASE StartCandidate
  <2>1. /\ vi' = 1 /\ round' = 0 /\ retried' = FALSE /\ pc' \in Opening
        /\ UNCHANGED <<cfg, cands, ci, sockets>>
    BY <1>5 DEF StartCandidate, NewSession, Opening
  <2>2. variants \in Nat \ {0} /\ variants' = variants
    BY <2>1
  <2>3. vi' \in 1..variants' /\ round' \in 0..MaxRounds
    BY <2>1, <2>2
  <2> QED
    BY <2>1, <2>3
<1>6. CASE Sends
  BY <1>6 DEF Sends, Waiting
<1>7. CASE Installs
  BY <1>7 DEF Installs, Waiting, Secure
<1>8. CASE Moves
  BY <1>8 DEF Moves, Opening, Over, Waiting, Secure
<1>9. CASE ReadSkips \/ RegistrarAnswers \/ Idles
  BY <1>9 DEF ReadSkips, RegistrarAnswers, Idles
<1> QED
  BY <1>1, <1>2, <1>3, <1>4, <1>5, <1>6, <1>7, <1>8, <1>9, Zenon DEF Outcome

\* The numbers and the keys of the session are of requests it has numbered.
LEMMA NumbersStep == ASSUME Typed, ConnectionQuiet, Outcome PROVE NumbersTyped'
<1> USE DEF Typed, NumbersTyped, attemptVars, wireVars
<1>1. ASSUME NEW err, CandidateFails(err) PROVE NumbersTyped'
  BY <1>1 DEF CandidateFails, ClearConnGone
<1>2. ASSUME NEW err, NEW left, NextVariant(err, left) PROVE NumbersTyped'
  BY <1>1, <1>2 DEF NextVariant, VariantFails
<1>3. ASSUME NEW keep, NEW prot, NEW grant, Concludes(keep, prot, grant) PROVE NumbersTyped'
  BY <1>3 DEF Concludes, Succeeds, ClearConnGone
<1>4. ASSUME NEW a, NEW left, GoesOn(a, left) PROVE NumbersTyped'
  <2>1. a.to \in 1..cseq /\ a.server \in Servers \cup {<<>>}
    BY <1>4, AnswerOfHead DEF GoesOn, InboxTyped
  <2> QED
    BY <1>4, <2>1 DEF GoesOn
<1>5. CASE StartCandidate
  BY <1>5 DEF StartCandidate, NewSession, NoResponse, ConnectionQuiet, Over
<1>6. CASE Sends
  BY <1>6 DEF Sends
<1>7. CASE Installs
  BY <1>7 DEF Installs
<1>8. CASE Moves
  BY <1>8 DEF Moves
<1>9. CASE ReadSkips \/ Idles
  BY <1>9 DEF ReadSkips, Idles
<1>10. CASE RegistrarAnswers
  BY <1>10 DEF RegistrarAnswers
<1> QED
  BY <1>1, <1>2, <1>3, <1>4, <1>5, <1>6, <1>7, <1>8, <1>9, <1>10, Zenon DEF Outcome

\* The last REGISTER has its fields.
LEMMA ReqStep == ASSUME Typed, Outcome PROVE ReqTyped'
<1> USE DEF Typed, ReqTyped, NumbersTyped, attemptVars, IsRequest
<1>1. ASSUME NEW err, CandidateFails(err) PROVE ReqTyped'
  BY <1>1 DEF CandidateFails
<1>2. ASSUME NEW err, NEW left, NextVariant(err, left) PROVE ReqTyped'
  BY <1>1, <1>2 DEF NextVariant, VariantFails
<1>3. ASSUME NEW keep, NEW prot, NEW grant, Concludes(keep, prot, grant) PROVE ReqTyped'
  BY <1>3 DEF Concludes
<1>4. ASSUME NEW a, NEW left, GoesOn(a, left) PROVE ReqTyped'
  BY <1>4 DEF GoesOn
<1>5. CASE StartCandidate
  BY <1>5 DEF StartCandidate, NewSession, NoRequest
<1>6. CASE Sends
  BY <1>6 DEF Sends
<1>7. CASE Installs
  BY <1>7 DEF Installs
<1>8. CASE Moves \/ ReadSkips \/ RegistrarAnswers \/ Idles
  BY <1>8 DEF Moves, ReadSkips, RegistrarAnswers, Idles
<1> QED
  BY <1>1, <1>2, <1>3, <1>4, <1>5, <1>6, <1>7, <1>8, Zenon DEF Outcome

\* What waits to be read answers requests the session has sent.
LEMMA InboxStep == ASSUME Typed, ConnectionQuiet, Outcome PROVE InboxTyped'
<1> USE DEF Typed, NumbersTyped, InboxTyped, attemptVars, wireVars
<1> DEFINE R == [to : Nat, status : Statuses \cup {200, 401}]
<1>1. ASSUME NEW err, CandidateFails(err) PROVE InboxTyped'
  BY <1>1 DEF CandidateFails, ClearConnGone
<1>2. ASSUME NEW left \in Left, Readable
      PROVE  left \in Seq(R) /\ \A i \in DOMAIN left : left[i].to \in 1..cseq
  <2>1. inbox \in Seq(R) /\ inbox # <<>>
    BY <1>2 DEF Readable
  <2> HIDE DEF R
  <2>2. left \in Seq(R) /\ \A i \in DOMAIN left : \E j \in DOMAIN inbox : left[i] = inbox[j]
    BY <1>2, <2>1, LeftIsRest
  <2> QED
    BY <2>2
<1>3. ASSUME NEW err, NEW left, NextVariant(err, left) PROVE InboxTyped'
  <2>1. CASE CandidateFails(err)
    BY <1>1, <2>1
  <2>2. CASE ~CandidateFails(err)
    <3>1. inbox' = left /\ cseq' = cseq
      BY <1>3, <2>2 DEF NextVariant, VariantFails
    <3>2. left = inbox \/ (Readable /\ left \in Left)
      BY <1>3 DEF NextVariant
    <3>3. CASE left = inbox
      BY <3>1, <3>3
    <3>4. CASE left # inbox
      <4>1. left \in Left /\ Readable
        BY <3>2, <3>4
      <4>2. left \in Seq(R) /\ \A i \in DOMAIN left : left[i].to \in 1..cseq
        BY <1>2, <4>1
      <4> QED
        BY <3>1, <4>2
    <3> QED
      BY <3>3, <3>4
  <2> QED
    BY <2>1, <2>2
<1>4. ASSUME NEW keep, NEW prot, NEW grant, Concludes(keep, prot, grant) PROVE InboxTyped'
  BY <1>4 DEF Concludes, Succeeds, ClearConnGone
<1>5. ASSUME NEW a, NEW left, GoesOn(a, left) PROVE InboxTyped'
  <2>1. inbox' = left /\ cseq' = cseq /\ left \in Left /\ Readable
    BY <1>5 DEF GoesOn
  <2>2. left \in Seq(R) /\ \A i \in DOMAIN left : left[i].to \in 1..cseq
    BY <1>2, <2>1
  <2> QED
    BY <2>1, <2>2
<1>6. CASE StartCandidate
  BY <1>6 DEF StartCandidate, NewSession, ConnectionQuiet, Over
<1>7. CASE Sends
  BY <1>7 DEF Sends
<1>8. CASE Installs
  BY <1>8 DEF Installs
<1>9. CASE Moves \/ Idles
  BY <1>9 DEF Moves, Idles
<1>10. CASE ReadSkips
  BY <1>10, SMTT(30) DEF ReadSkips
<1>11. CASE RegistrarAnswers
  <2>1. PICK n \in asked, s \in Statuses \cup {200, 401} :
          inbox' = Append(inbox, [to |-> n, status |-> s])
    BY <1>11 DEF RegistrarAnswers
  <2>2. n \in 1..cseq /\ cseq' = cseq /\ [to |-> n, status |-> s] \in R
    BY <1>11, <2>1 DEF RegistrarAnswers
  <2> DEFINE h == [to |-> n, status |-> s]
  <2>3. h.to = n
    OBVIOUS
  <2> HIDE DEF R, h
  <2>4. /\ inbox' \in Seq(R)
        /\ \A i \in DOMAIN inbox' : inbox'[i] = h \/ \E j \in DOMAIN inbox : inbox'[i] = inbox[j]
    BY <2>1, <2>2 DEF R, h
  <2>5. \A i \in DOMAIN inbox' : inbox'[i].to \in 1..cseq'
    BY <2>2, <2>3, <2>4
  <2> QED
    BY <2>4, <2>5 DEF R
<1> QED
  BY <1>1, <1>3, <1>4, <1>5, <1>6, <1>7, <1>8, <1>9, <1>10, <1>11, Zenon DEF Outcome

\* What is kept was open, and everything else is closed.
LEMMA SocketsStep == ASSUME Typed, SocketsHeld, Outcome PROVE SocketsHeld'
<1> USE DEF SocketsHeld, SocketsHandedOver, Opening, Clear
<1>0. /\ sockets \subseteq {"reg", "secure", "portS"}
      /\ pc \in {"send", "wait500", "auth", "exhausted"} \cup Opening \cup Over \cup Waiting
  BY DEF Typed, FlowTyped
<1>1. ASSUME NEW err, CandidateFails(err) PROVE SocketsHeld'
  BY <1>0, <1>1 DEF CandidateFails
<1>2. ASSUME NEW err, NEW left, NextVariant(err, left) PROVE SocketsHeld'
  BY <1>1, <1>2 DEF NextVariant, VariantFails
<1>3. ASSUME NEW keep, NEW prot, NEW grant, Concludes(keep, prot, grant) PROVE SocketsHeld'
  <2>1. keep \subseteq sockets
    BY <1>3 DEF Concludes
  <2> QED
    BY <1>3, <2>1 DEF Concludes, Succeeds
<1>4. ASSUME NEW a, NEW left, GoesOn(a, left) PROVE SocketsHeld'
  BY <1>4 DEF GoesOn
<1>5. CASE StartCandidate
  BY <1>5 DEF StartCandidate
<1>6. CASE Sends
  BY <1>6 DEF Sends
<1>7. CASE Installs
  BY <1>7 DEF Installs
<1>8. CASE Moves
  BY <1>8 DEF Moves
<1>9. CASE ReadSkips \/ RegistrarAnswers \/ Idles
  BY <1>9 DEF ReadSkips, RegistrarAnswers, Idles
<1> QED
  BY <1>1, <1>2, <1>3, <1>4, <1>5, <1>6, <1>7, <1>8, <1>9, Zenon DEF Outcome

\* A result is made once, with the shortest lifetime.
LEMMA LifetimeStep == ASSUME LifetimeGranted, Outcome PROVE LifetimeGranted'
<1> USE DEF LifetimeGranted
<1>1. ASSUME NEW err, CandidateFails(err) PROVE LifetimeGranted'
  BY <1>1 DEF CandidateFails
<1>2. ASSUME NEW err, NEW left, NextVariant(err, left) PROVE LifetimeGranted'
  BY <1>1, <1>2 DEF NextVariant, VariantFails
<1>3. ASSUME NEW keep, NEW prot, NEW grant, Concludes(keep, prot, grant) PROVE LifetimeGranted'
  <2>1. result'.grant = grant /\ result'.expires = RegisteredExpiry(grant, Requested)
    BY <1>3 DEF Concludes, Succeeds
  <2>2. grant \in Grants
    BY <1>3 DEF Concludes
  <2> QED
    BY <2>1, <2>2, ShortestIsKept
<1>4. ASSUME NEW a, NEW left, GoesOn(a, left) PROVE LifetimeGranted'
  BY <1>4 DEF GoesOn
<1>5. CASE StartCandidate \/ Sends \/ Installs \/ Moves
  BY <1>5 DEF StartCandidate, Sends, Installs, Moves
<1>6. CASE ReadSkips \/ RegistrarAnswers \/ Idles
  BY <1>6 DEF ReadSkips, RegistrarAnswers, Idles
<1> QED
  BY <1>1, <1>2, <1>3, <1>4, <1>5, <1>6, Zenon DEF Outcome

\* The clear connection is left empty, and nothing comes before it is dialled.
LEMMA QuietStep == ASSUME Typed, ConnectionQuiet, Outcome PROVE ConnectionQuiet'
<1> USE DEF ConnectionQuiet, Opening, Over, wireVars
<1>1. ASSUME NEW err, CandidateFails(err) PROVE ConnectionQuiet'
  BY <1>1 DEF CandidateFails, ClearConnGone
<1>2. ASSUME NEW err, NEW left, NextVariant(err, left) PROVE ConnectionQuiet'
  BY <1>1, <1>2 DEF NextVariant, VariantFails
<1>3. ASSUME NEW keep, NEW prot, NEW grant, Concludes(keep, prot, grant) PROVE ConnectionQuiet'
  BY <1>3 DEF Concludes, Succeeds, ClearConnGone
<1>4. ASSUME NEW a, NEW left, GoesOn(a, left) PROVE ConnectionQuiet'
  BY <1>4 DEF GoesOn
<1>5. CASE StartCandidate \/ Moves
  BY <1>5 DEF StartCandidate, Moves
<1>6. CASE Sends \/ Installs
  BY <1>6 DEF Sends, Installs
<1>7. CASE ReadSkips \/ Idles
  BY <1>7 DEF ReadSkips, Idles
<1>8. CASE RegistrarAnswers
  BY <1>8 DEF RegistrarAnswers
<1> QED
  BY <1>1, <1>2, <1>3, <1>4, <1>5, <1>6, <1>7, <1>8, Zenon DEF Outcome

\* A session numbers one REGISTER for every variant, one for the retry and one for each
\* round, until its last, protected one.
LEMMA CountStep == ASSUME Typed, RequestsCounted, Outcome PROVE RequestsCounted'
<1> USE BoundsAssumption
    DEF RequestsCounted, RequestsBounded, variants, attemptVars, Opening, Clear, Over, Secure
<1>0. /\ vi \in 1..variants /\ round \in 0..MaxRounds /\ retried \in BOOLEAN
      /\ cseq \in Nat /\ req.cseq \in Nat /\ variants \in Nat \ {0}
  BY DEF Typed, FlowTyped, NumbersTyped, ReqTyped
<1>1. ASSUME NEW err, CandidateFails(err) PROVE RequestsCounted'
  <2>1. pc' \in {"gap", "failed"} /\ UNCHANGED <<cfg, cseq>>
    BY <1>1 DEF CandidateFails
  <2> QED
    BY <2>1
<1>2. ASSUME NEW err, NEW left, NextVariant(err, left) PROVE RequestsCounted'
  <2>1. CASE CandidateFails(err)
    BY <1>1, <2>1
  <2>2. CASE ~CandidateFails(err)
    <3>1. /\ vi' = vi + 1 /\ pc' = "send" /\ pc \in {"send", "read", "readLate", "wait500"}
          /\ UNCHANGED <<cfg, round, retried, cseq, req>>
      BY <1>2, <2>2 DEF NextVariant, VariantFails
    <3> QED
      BY <1>0, <3>1
  <2> QED
    BY <2>1, <2>2
<1>3. ASSUME NEW keep, NEW prot, NEW grant, Concludes(keep, prot, grant) PROVE RequestsCounted'
  <2>1. pc' = "done" /\ UNCHANGED <<cfg, cseq>>
    BY <1>3 DEF Concludes, Succeeds
  <2> QED
    BY <2>1
<1>4. ASSUME NEW a, NEW left, GoesOn(a, left) PROVE RequestsCounted'
  BY <1>0, <1>4 DEF GoesOn
<1>5. CASE StartCandidate
  <2>1. /\ vi' = 1 /\ round' = 0 /\ retried' = FALSE /\ cseq' = 1 /\ req'.cseq = 0
        /\ pc' = "prepare" /\ UNCHANGED cfg
    BY <1>5 DEF StartCandidate, NewSession, NoRequest
  <2> QED
    BY <1>0, <2>1
<1>6. CASE Sends
  <2>1. CASE pc = "send"
    BY <1>0, <1>6, <2>1 DEF Sends
  <2>2. CASE pc = "auth"
    BY <1>0, <1>6, <2>2 DEF Sends
  <2> QED
    BY <1>6, <2>1, <2>2 DEF Sends
<1>7. CASE Installs
  <2>1. /\ pc' = "secureDial" /\ cseq' \in {cseq, cseq + 1}
        /\ pc \in {"auth", "exhausted"} /\ UNCHANGED cfg
    BY <1>7 DEF Installs
  <2> QED
    BY <1>0, <2>1
<1>8. CASE Moves
  BY <1>0, <1>8 DEF Moves
<1>9. CASE ReadSkips \/ RegistrarAnswers \/ Idles
  BY <1>9 DEF ReadSkips, RegistrarAnswers, Idles
<1> QED
  BY <1>1, <1>2, <1>3, <1>4, <1>5, <1>6, <1>7, <1>8, <1>9, Zenon DEF Outcome

\* A REGISTER that is not the first of its session has a greater number than the last.
LEMMA NumberStep == ASSUME Typed, RequestsCounted, Outcome PROVE CSeqGrows
<1> USE DEF CSeqGrows, attemptVars
<1>0. cseq \in Nat /\ req.cseq \in Nat /\ (pc \in Clear => req.cseq < cseq)
  BY DEF Typed, NumbersTyped, ReqTyped, RequestsCounted, Clear, Secure, Over
<1>1. ASSUME NEW err, CandidateFails(err) PROVE req' = req
  BY <1>1 DEF CandidateFails
<1>2. ASSUME NEW err, NEW left, NextVariant(err, left) PROVE req' = req
  BY <1>1, <1>2 DEF NextVariant, VariantFails
<1>3. ASSUME NEW keep, NEW prot, NEW grant, Concludes(keep, prot, grant) PROVE req' = req
  BY <1>3 DEF Concludes
<1>4. ASSUME NEW a, NEW left, GoesOn(a, left) PROVE req' = req
  BY <1>4 DEF GoesOn
<1>5. CASE StartCandidate
  BY <1>5 DEF StartCandidate, NewSession, NoRequest
<1>6. CASE Sends \/ Installs
  BY <1>0, <1>6 DEF Sends, Installs, Clear
<1>7. CASE Moves \/ ReadSkips \/ RegistrarAnswers \/ Idles
  BY <1>7 DEF Moves, ReadSkips, RegistrarAnswers, Idles
<1> QED
  BY <1>1, <1>2, <1>3, <1>4, <1>5, <1>6, <1>7, Zenon DEF Outcome

\* The clear connection has neither an association nor, if security is required, keys.
LEMMA NoneStep == ASSUME NoneYet, Outcome PROVE NoneYet'
<1> USE DEF NoneYet, attemptVars, Opening, Clear
<1>1. ASSUME NEW err, CandidateFails(err) PROVE NoneYet'
  BY <1>1 DEF CandidateFails
<1>2. ASSUME NEW err, NEW left, NextVariant(err, left) PROVE NoneYet'
  BY <1>1, <1>2 DEF NextVariant, VariantFails
<1>3. ASSUME NEW keep, NEW prot, NEW grant, Concludes(keep, prot, grant) PROVE NoneYet'
  BY <1>3 DEF Concludes, Succeeds
<1>4. ASSUME NEW a, NEW left, GoesOn(a, left) PROVE NoneYet'
  BY <1>4 DEF GoesOn
<1>5. CASE StartCandidate
  BY <1>5 DEF StartCandidate, NewSession, ClearIPSec
<1>6. CASE Sends \/ Installs
  BY <1>6 DEF Sends, Installs
<1>7. CASE Moves \/ ReadSkips \/ RegistrarAnswers \/ Idles
  BY <1>7 DEF Moves, ReadSkips, RegistrarAnswers, Idles
<1> QED
  BY <1>1, <1>2, <1>3, <1>4, <1>5, <1>6, <1>7, Zenon DEF Outcome

\* What the agreement is about does not change after it was made.
SameAgreement == UNCHANGED <<cfg, cands, ci, req, res, xform>>

\* Only the installation makes an association; the protected connection keeps it.
LEMMA Agreement == ASSUME Typed, Outcome
                   PROVE  Installs \/ pc' \notin Secure \/ (pc \in Secure /\ SameAgreement)
<1> USE DEF attemptVars, Secure, SameAgreement
<1>0. pc \in Clear \cup Opening \cup Over \cup Secure
  BY DEF Typed, FlowTyped, Waiting, Clear
<1>1. ASSUME NEW err, CandidateFails(err) PROVE pc' \notin Secure
  BY <1>1 DEF CandidateFails
<1>2. ASSUME NEW err, NEW left, NextVariant(err, left) PROVE pc' \notin Secure
  BY <1>1, <1>2 DEF NextVariant, VariantFails
<1>3. ASSUME NEW keep, NEW prot, NEW grant, Concludes(keep, prot, grant) PROVE pc' \notin Secure
  BY <1>3 DEF Concludes, Succeeds
<1>4. ASSUME NEW a, NEW left, GoesOn(a, left) PROVE pc' \notin Secure
  BY <1>4 DEF GoesOn
<1>5. CASE StartCandidate \/ Sends
  BY <1>5 DEF StartCandidate, Sends
<1>6. CASE Moves
  BY <1>6 DEF Moves
<1>7. CASE ReadSkips \/ RegistrarAnswers \/ Idles
  BY <1>7 DEF ReadSkips, RegistrarAnswers, Idles
<1> QED
  BY <1>1, <1>2, <1>3, <1>4, <1>5, <1>6, <1>7, Zenon DEF Outcome

\* The association is made with the node that challenged us, from its best offer.
LEMMA AgreedStep == ASSUME Typed, AgreedWithChallenger, Outcome PROVE AgreedWithChallenger'
<1>1. CASE Installs
  <2> DEFINE offers == ParseSecurityServer(res.server)
             n == SelectSecurityServerOffer(offers, cfg.strict)
             gateway == effectiveIPSecGatewayAddr(attempt, cfg.addrs)
  <2>1. /\ xform' = [call |-> ci, peer |-> gateway, key |-> key', offer |-> n]
        /\ req'.route = gateway /\ n # 0 /\ res.server \in Servers
        /\ UNCHANGED <<cfg, cands, ci, res>>
    BY <1>1 DEF Installs, offer
  <2>2. /\ offerHasServerParams(offers[n])
        /\ \A i \in {j \in DOMAIN offers : offers[j].match} :
             offers[n].match /\ offers[n].q >= offers[i].q
    BY <2>1, SelectedIsBest
  <2>3. attempt.registrar.self \/ gateway = attempt.transport
    BY DEF effectiveIPSecGatewayAddr, registrarHostEqualsLocalIP
  <2>4. attempt' = attempt /\ ParseSecurityServer(res'.server) = offers
    BY <2>1 DEF attempt
  <2>5. xform'.call = ci /\ xform'.peer = gateway /\ xform'.offer = n
    BY <2>1
  <2> HIDE DEF offers, n, gateway
  <2> QED
    BY <2>1, <2>2, <2>3, <2>4, <2>5 DEF AgreedWithChallenger, offers
<1>2. CASE pc' \notin Secure
  BY <1>2 DEF AgreedWithChallenger
<1>3. CASE pc \in Secure /\ SameAgreement
  <2>1. attempt' = attempt
    BY <1>3 DEF SameAgreement, attempt
  <2> QED
    BY <1>3, <2>1 DEF AgreedWithChallenger, SameAgreement
<1> QED
  BY <1>1, <1>2, <1>3, Agreement

\* Its keys are those of the challenge: there are no others where security is required.
LEMMA KeysStep ==
  ASSUME Typed, NoneYet, KeysOfThisChallenge, Outcome PROVE KeysOfThisChallenge'
<1>1. CASE Installs
  BY <1>1 DEF Installs, KeysOfThisChallenge, NoneYet, Clear
<1>2. CASE pc' \notin Secure
  BY <1>2 DEF KeysOfThisChallenge
<1>3. CASE pc \in Secure /\ SameAgreement
  BY <1>3 DEF KeysOfThisChallenge, SameAgreement
<1> QED
  BY <1>1, <1>2, <1>3, Agreement

\* A final response ends what was under way: what is left after it is empty.
LEMMA FinalIsLast ==
  ASSUME Typed, AnswersInOrder, ~cfg.fallback, Readable, NEW left \in Left, inbox[1].status # 100
  PROVE  asked = {} /\ left = <<>>
<1> DEFINE R == [to : Nat, status : Statuses \cup {200, 401}]
<1>1. inbox \in Seq(R) /\ inbox # <<>>
  BY DEF Typed, InboxTyped, Readable
<1>2. asked = {} /\ ~(1 < Len(inbox))
  <2> HIDE DEF R
  <2>1. 1 \in DOMAIN inbox
    BY <1>1
  <2> QED
    BY <2>1 DEF AnswersInOrder
<1>3. left \in Seq(R) /\ Len(left) < Len(inbox)
  <2> HIDE DEF R
  <2> QED
    BY <1>1, LeftIsRest
<1> HIDE DEF R
<1> QED
  BY <1>1, <1>2, <1>3

\* Without variants only one REGISTER at a time is under way, and none when one is sent.
LEMMA OrderStep ==
  ASSUME Typed, ConnectionQuiet, AnswersOrdered, Outcome PROVE AnswersOrdered'
<1> SUFFICES ASSUME pc' \notin Secure \cup Over, ~cfg'.fallback PROVE AnswersInOrder'
  BY DEF AnswersOrdered, AnswersInOrder
<1> USE DEF AnswersInOrder, AnswersOrdered, attemptVars, wireVars, Secure, Over
<1> DEFINE R == [to : Nat, status : Statuses \cup {200, 401}]
<1>0. inbox \in Seq(R) /\ cseq \in Nat
  BY DEF Typed, InboxTyped, NumbersTyped
<1> HIDE DEF R
<1>1. ASSUME NEW err, CandidateFails(err) PROVE FALSE
  BY <1>1 DEF CandidateFails
<1>2. ASSUME NEW err, NEW left, NextVariant(err, left) PROVE FALSE
  <2>1. CASE vi < variants
    <3>1. cfg' = cfg
      BY <1>2, <2>1 DEF NextVariant, VariantFails
    <3> QED
      BY <2>1, <3>1 DEF variants, Typed, FlowTyped
  <2>2. CASE ~(vi < variants)
    BY <1>1, <1>2, <2>2 DEF NextVariant, VariantFails
  <2> QED
    BY <2>1, <2>2
<1>3. ASSUME NEW keep, NEW prot, NEW grant, Concludes(keep, prot, grant) PROVE FALSE
  BY <1>3 DEF Concludes, Succeeds
<1>4. ASSUME NEW a, NEW left, GoesOn(a, left) PROVE AnswersInOrder'
  <2>1. AnswersInOrder /\ ~cfg.fallback
    BY <1>4 DEF GoesOn
  <2>2. inbox[1].status # 100
    BY <1>4, AnswerOfHead DEF GoesOn, Typed
  <2>3. asked = {} /\ left = <<>>
    BY <1>4, <2>1, <2>2, FinalIsLast DEF GoesOn
  <2> QED
    BY <1>4, <2>3 DEF GoesOn
<1>5. CASE StartCandidate
  BY <1>5 DEF StartCandidate, ConnectionQuiet
<1>6. CASE Sends
  BY <1>0, <1>6 DEF Sends
<1>7. CASE Installs
  BY <1>7 DEF Installs
<1>8. CASE Moves
  BY <1>8 DEF Moves, ConnectionQuiet, Opening
<1>9. CASE Idles
  BY <1>9 DEF Idles
<1>10. CASE ReadSkips
  BY <1>0, <1>10 DEF ReadSkips
<1>11. CASE RegistrarAnswers
  <2>1. PICK n \in asked, s \in Statuses \cup {200, 401} :
          /\ s = 100 => \A i \in DOMAIN inbox : inbox[i] # [to |-> n, status |-> s]
          /\ inbox' = Append(inbox, [to |-> n, status |-> s])
          /\ asked' = IF s = 100 THEN asked ELSE asked \ {n}
    BY <1>11, Zenon DEF RegistrarAnswers
  <2>2. UNCHANGED <<cfg, pc, req>> /\ AnswersInOrder
    BY <1>11 DEF RegistrarAnswers
  <2>3. n = req.cseq /\ \A i \in DOMAIN inbox : inbox[i].status = 100
    BY <2>1, <2>2
  <2> DEFINE h == [to |-> n, status |-> s]
  <2>4. h.to = n /\ h.status = s
    OBVIOUS
  <2> HIDE DEF h
  <2>5. /\ Len(inbox') = Len(inbox) + 1 /\ DOMAIN inbox' = 1..(Len(inbox) + 1)
        /\ inbox'[Len(inbox')] = h
        /\ \A i \in DOMAIN inbox' : i < Len(inbox') => i \in DOMAIN inbox /\ inbox'[i] = inbox[i]
    BY <1>0, <2>1 DEF h
  <2>6. asked' \subseteq {req.cseq} /\ (s # 100 => asked' = {})
    BY <2>1, <2>2, <2>3
  <2> QED
    BY <2>1, <2>2, <2>3, <2>4, <2>5, <2>6
<1> QED
  BY <1>1, <1>2, <1>3, <1>4, <1>5, <1>6, <1>7, <1>8, <1>9, <1>10, <1>11, Zenon DEF Outcome

\* A challenge is taken up for the request it answers.
LEMMA ChallengeStep ==
  ASSUME Typed, AnswersOrdered, ChallengeIsOurs, Outcome PROVE ChallengeIsOurs'
<1> USE DEF ChallengeIsOurs, attemptVars
<1>1. ASSUME NEW err, CandidateFails(err) PROVE pc' # "auth"
  BY <1>1 DEF CandidateFails
<1>2. ASSUME NEW err, NEW left, NextVariant(err, left) PROVE pc' # "auth"
  BY <1>1, <1>2 DEF NextVariant, VariantFails
<1>3. ASSUME NEW keep, NEW prot, NEW grant, Concludes(keep, prot, grant) PROVE pc' # "auth"
  BY <1>3 DEF Concludes, Succeeds
<1>4. ASSUME NEW a, NEW left, GoesOn(a, left) PROVE ChallengeIsOurs'
  <2>1. 1 \in DOMAIN inbox /\ a.to = inbox[1].to
    BY <1>4, AnswerOfHead DEF GoesOn, Typed
  <2>2. /\ UNCHANGED <<cfg, req>> /\ res' = a /\ pc \in {"read", "readAuth"}
        /\ (cfg.validate => a.to = req.cseq)
    BY <1>4 DEF GoesOn, Accepted
  <2>3. ~cfg.fallback => inbox[1].to = req.cseq
    BY <2>1, <2>2 DEF AnswersOrdered, AnswersInOrder, Secure, Over
  <2> QED
    BY <2>1, <2>2, <2>3
<1>5. CASE StartCandidate \/ Sends \/ Installs \/ Moves
  BY <1>5 DEF StartCandidate, Sends, Installs, Moves
<1>6. CASE ReadSkips \/ RegistrarAnswers \/ Idles
  BY <1>6 DEF ReadSkips, RegistrarAnswers, Idles
<1> QED
  BY <1>1, <1>2, <1>3, <1>4, <1>5, <1>6, Zenon DEF Outcome, ChallengeIsOurs

-----------------------------------------------------------------------------
(* The theorems *)

\* The flow starts before its first candidate, with nothing open and nothing agreed.
LEMMA Initially == ASSUME Init PROVE IInv
<1> USE BoundsAssumption, CandidatesAssumption
    DEF Init, NoRequest, NoResponse, Opening, Clear, Over, Secure
<1>1. variants \in Nat \ {0} /\ Len(cands) \in Nat \ {0}
  BY DEF variants
<1>2. Typed
  <2>0. ci \in 1..Len(cands) /\ vi \in 1..variants /\ round \in 0..MaxRounds
    BY <1>1
  <2>1. FlowTyped
    BY <2>0 DEF FlowTyped
  <2>2. NumbersTyped /\ ReqTyped /\ InboxTyped
    BY DEF NumbersTyped, ReqTyped, InboxTyped
  <2> QED
    BY <2>1, <2>2 DEF Typed
<1>3. SocketsHeld /\ LifetimeGranted /\ ConnectionQuiet
  BY DEF SocketsHeld, SocketsHandedOver, LifetimeGranted, ConnectionQuiet
<1>4. RequestsCounted
  BY <1>1 DEF RequestsCounted, RequestsBounded
<1>5. NoneYet /\ AgreedWithChallenger /\ KeysOfThisChallenge
  BY DEF NoneYet, AgreedWithChallenger, KeysOfThisChallenge
<1>6. AnswersOrdered /\ ChallengeIsOurs
  BY DEF AnswersOrdered, ChallengeIsOurs
<1> QED
  BY <1>2, <1>3, <1>4, <1>5, <1>6 DEF IInv

\* A step keeps the invariant and numbers its REGISTER upwards.
LEMMA Step == ASSUME IInv, [Next]_vars PROVE IInv' /\ CSeqGrows
<1>1. Outcome
  BY StepOutcome DEF IInv
<1>2. Typed'
  BY <1>1, FlowStep, NumbersStep, ReqStep, InboxStep DEF IInv, Typed
<1>3. SocketsHeld' /\ LifetimeGranted' /\ ConnectionQuiet'
  BY <1>1, SocketsStep, LifetimeStep, QuietStep DEF IInv
<1>4. RequestsCounted' /\ CSeqGrows
  BY <1>1, CountStep, NumberStep DEF IInv
<1>5. NoneYet' /\ AgreedWithChallenger' /\ KeysOfThisChallenge'
  BY <1>1, NoneStep, AgreedStep, KeysStep DEF IInv
<1>6. AnswersOrdered' /\ ChallengeIsOurs'
  BY <1>1, OrderStep, ChallengeStep DEF IInv
<1> QED
  BY <1>2, <1>3, <1>4, <1>5, <1>6 DEF IInv

\* The inductive invariant holds at every point of every registration.
THEOREM Invariance == Spec => []IInv
<1>1. Init => IInv
  BY Initially
<1>2. IInv /\ [Next]_vars => IInv'
  BY Step
<1> QED
  BY <1>1, <1>2, PTL DEF Spec

\* Whatever the registrar answers and whenever it does, the session's fields are sound,
\* no socket of an abandoned candidate stays open, those of the result are open, and the
\* lifetime reported is no longer than that of any binding (finalizeRegisterSuccess).
THEOREM SessionSafety == Spec => []SessionConsistent
<1>1. IInv => SessionConsistent
  BY DEF IInv, SessionConsistent, TypeOK, Typed, FlowTyped, NumbersTyped, Opening, Over, SocketsHeld
<1> QED
  BY <1>1, Invariance, PTL

\* REGISTERs go in clear text only while there is no association; one is made only with
\* the node that challenged us, from its best usable offer, and where security is
\* required over the keys of the challenge being answered (installIPSecFromChallenge).
THEOREM AgreementSafety == Spec => []SecurityAgreed
<1>1. IInv => ClearUntilAgreed
  BY DEF IInv, NoneYet, ClearUntilAgreed, Opening, Clear
<1>2. IInv => SecurityAgreed
  BY <1>1 DEF IInv, SecurityAgreed
<1> QED
  BY <1>2, Invariance, PTL

\* A session sends a bounded number of REGISTERs, each with a greater CSeq than the one
\* before, through variants, the retry, resynchronisations and the protected connection.
THEOREM NumberingSafety == Spec => RequestsNumbered
<1>1. IInv /\ [Next]_vars => [RequestsBounded' /\ CSeqGrows]_vars
  BY Step DEF IInv, RequestsCounted
<1>2. Spec => []IInv /\ [][Next]_vars
  BY Invariance, PTL DEF Spec
<1> QED
  BY <1>1, <1>2, PTL DEF RequestsNumbered
=============================================================================
