--------------------------- MODULE Registration ---------------------------
(***************************************************************************)
(* One IMS registration (Service.runRegisterFlow): the registrar           *)
(* candidates in turn, and for each of them the initial REGISTER in its    *)
(* variants, the challenge rounds on the clear connection, the negotiation *)
(* of the IPsec association, and the protected REGISTER.                   *)
(*                                                                         *)
(* The registrar is the environment: it answers what reached it, late, out *)
(* of turn or not at all.  A response that comes after its reader gave up  *)
(* stays on the connection.  Every read has a deadline, so a wait can end  *)
(* without an answer at any time.  Challenges 401 and 407 are treated      *)
(* alike by the code and are one status here.                              *)
(***************************************************************************)
EXTENDS RegisterPolicy, FiniteSets

CONSTANTS Configs,      \* the carrier templates and address lists considered
          Servers,      \* Security-Server headers a registrar may send, <<>> for none
          Statuses,     \* other statuses it may send
          Grants,       \* Expires and Contact headers of its 200
          Requested,    \* effectiveRegisterExpiry
          MaxRounds,    \* maxChallengeRounds
          MaxVariants,  \* len(initialRegisterVariants) with the fallback enabled
          MaxInbox      \* bound: responses waiting on the clear connection

ASSUME BoundsAssumption ==
  /\ Requested \in Nat \ {0} /\ MaxRounds \in Nat \ {0} /\ MaxVariants \in Nat \ {0}

\* SetupService never leaves the address list empty, so there is a candidate to try.
ASSUME CandidatesAssumption ==
  \A c \in Configs : Len(expandRegistrarCandidates(c.addrs)) \in Nat \ {0}

\* Quality values are those of the header's grammar, from 0 up (in thousandths, say); the
\* code parses any number and takes none below -1.  The parameters of an offer are any.
ASSUME ServersAssumption ==
  \A s \in Servers :
    s \in Seq([q : Nat, match : BOOLEAN, params : {s[i].params : i \in DOMAIN s}])

\* The Expires header may be missing, or like a binding's lifetime be any number.
ASSUME GrantsAssumption ==
  \A g \in Grants : /\ g.expires \in Int \cup {None}
                    /\ \A c \in g.contacts : c.expires \in Int

VARIABLES
  cfg,       \* sec, plain, fallback, retry500, strict, validate, udp, addrs
  cands,     \* resolveRegisterAttemptCandidates: [registrar, transport] in order
  pc,        \* where the flow is
  ci,        \* the candidate being tried; it is also the Call-ID of its session
  vi,        \* the variant of the initial REGISTER
  round,     \* challenges answered
  retried,   \* initial500Retried
  expired,   \* the context of the attempt ended
  cancelled, \* the context of the registration ended
  cseq,      \* the session's next CSeq
  req,       \* the last REGISTER sent: [cseq, bundle, prot, contact, route, verify]
  res,       \* the last response read
  key,       \* state.ck and ik: the CSeq of the REGISTER whose challenge gave them, or 0
  asked,     \* REGISTERs on the clear connection that the registrar may still answer
  inbox,     \* responses on the clear connection, not read yet
  xform,     \* the packet transform of the dataplane: None or [call, peer, key, offer]
  sockets,   \* open sockets: "reg", "secure" and "portS"
  result

attemptVars == <<vi, round, retried, cseq, req, res, key>>
wireVars == <<asked, inbox>>
ctxVars == <<expired, cancelled>>
vars == <<cfg, cands, pc, ci, attemptVars, wireVars, ctxVars, xform, sockets, result>>

attempt  == cands[ci]
variants == IF cfg.fallback THEN MaxVariants ELSE 1

NoResponse == [to |-> 0, status |-> 0, server |-> <<>>, chal |-> "bad", grant |-> None]

NoRequest == [cseq |-> 0, bundle |-> FALSE, prot |-> FALSE, contact |-> "local", route |-> None,
              verify |-> FALSE]

\* The initial REGISTER.  bundle: Security-Client, Require and Proxy-Require are in it;
\* contact: the port of the binding; route: effectiveRouteAddr.
buildRegisterRequest ==
  [cseq |-> 0, bundle |-> cfg.sec # "disabled", prot |-> FALSE,
   contact |-> IF cfg.plain THEN "portS" ELSE "local", route |-> attempt.transport, verify |-> FALSE]

\* The protected REGISTER made from the request that was challenged: Security-Verify, the
\* protected Contact, and the Route to the protected port of the gateway.
buildAuthenticatedRegister(prev, n) ==
  [prev EXCEPT !.cseq = n, !.prot = TRUE, !.contact = "portS", !.verify = TRUE,
               !.route = effectiveIPSecGatewayAddr(attempt, cfg.addrs)]

\* newRegisterSession
NewSession ==
  /\ vi' = 1 /\ round' = 0 /\ retried' = FALSE /\ cseq' = 1 /\ key' = 0
  /\ req' = NoRequest /\ res' = NoResponse

Init ==
  /\ cfg \in Configs /\ cands = expandRegistrarCandidates(cfg.addrs)
  /\ pc = "start" /\ ci = 1 /\ vi = 1 /\ round = 0 /\ retried = FALSE
  /\ expired = FALSE /\ cancelled = FALSE
  /\ cseq = 1 /\ key = 0 /\ res = NoResponse
  /\ req = NoRequest
  /\ asked = {} /\ inbox = <<>> /\ xform = None /\ sockets = {} /\ result = None

-----------------------------------------------------------------------------
(* The end of an attempt *)

ClearConnGone == asked' = {} /\ inbox' = <<>>

\* The deferred closes run, and attemptRegisterMode goes on to the next candidate
\* or gives up.
CandidateFails(err) ==
  /\ sockets' = sockets \ {"reg", "secure", "portS"}
  /\ ClearConnGone
  /\ IF ci < Len(cands) /\ Advances(err)
       THEN pc' = "gap" /\ ci' = ci + 1 ELSE pc' = "failed" /\ UNCHANGED ci
  /\ UNCHANGED <<cfg, cands, attemptVars, ctxVars, xform, result>>

Fails(kind) == CandidateFails([kind |-> kind, status |-> 0])

\* runInitialRegisterFlow goes on to the next variant, on the same connection, where
\* the responses of left are still to be read.
VariantFails(err, left) ==
  IF vi < variants
    THEN /\ vi' = vi + 1 /\ pc' = "send" /\ inbox' = left
         /\ UNCHANGED <<cfg, cands, ci, round, retried, cseq, req, res, key,
                        asked, ctxVars, xform, sockets, result>>
    ELSE CandidateFails(err)

\* Faulty variant: the deferred close still holds the Port-S listener it gave away.
SucceedsAliased(keep, prot, grant) ==
  /\ pc' = "done"
  /\ sockets' = (sockets \cap keep) \ {"portS"}
  /\ ClearConnGone
  /\ result' = [prot |-> prot, conns |-> keep, peer |-> IF prot THEN xform.peer ELSE attempt.transport,
                grant |-> grant, expires |-> RegisteredExpiry(grant, Requested)]
  /\ UNCHANGED <<cfg, cands, ci, ctxVars, xform>>

\* The result takes the sockets kept over; the deferred closes take the others.
Succeeds(keep, prot, grant) ==
  /\ pc' = "done"
  /\ sockets' = sockets \cap keep
  /\ ClearConnGone
  /\ result' = [prot |-> prot, conns |-> keep, peer |-> IF prot THEN xform.peer ELSE attempt.transport,
                grant |-> grant, expires |-> RegisteredExpiry(grant, Requested)]
  /\ UNCHANGED <<cfg, cands, ci, ctxVars, xform>>

\* finishRegisterSuccess: the clear connection is kept only for a plain-IMS template.
FinishClear(grant) ==
  Succeeds(IF cfg.plain THEN {"reg", "portS"} ELSE {}, FALSE, grant)

-----------------------------------------------------------------------------
(* Candidates *)

Cancel ==
  /\ ~cancelled /\ pc \notin {"done", "failed"}
  /\ cancelled' = TRUE /\ expired' = TRUE
  /\ UNCHANGED <<cfg, cands, pc, ci, attemptVars, wireVars, xform, sockets, result>>

\* registerCandidateTimeout
AttemptExpires ==
  /\ ~expired /\ pc \notin {"start", "gap", "done", "failed"}
  /\ expired' = TRUE
  /\ UNCHANGED <<cfg, cands, pc, ci, attemptVars, wireVars, cancelled, xform, sockets, result>>

\* waitRegisterRetry between candidates.
Gap ==
  /\ pc = "gap"
  /\ pc' = IF cancelled THEN "failed" ELSE "start"
  /\ UNCHANGED <<cfg, cands, ci, attemptVars, wireVars, ctxVars, xform, sockets, result>>

\* registerRawWithCandidate: the transform of an earlier candidate is removed first.
ClearIPSec == xform' = None

StartCandidate ==
  /\ pc = "start"
  /\ NewSession /\ ClearIPSec
  /\ expired' = cancelled
  /\ pc' = "prepare"
  /\ UNCHANGED <<cfg, cands, ci, wireVars, cancelled, sockets, result>>

\* waitInitialRegisterJitter and preparePlainIMSTransport.
Prepare ==
  /\ pc = "prepare"
  /\ \/ expired /\ Fails("probe")
     \/ cfg.plain /\ Fails("other")      \* not an explicit plain template, or no Port-S
     \/ /\ cfg.plain => cfg.sec = "disabled"
        /\ sockets' = sockets \cup (IF cfg.plain THEN {"portS"} ELSE {})
        /\ pc' = "dial"
        /\ UNCHANGED <<cfg, cands, ci, attemptVars, wireVars, ctxVars, xform, result>>

\* dialRegisterConn
Dial ==
  /\ pc = "dial"
  /\ \/ Fails("other")
     \/ ~cfg.udp /\ Fails("probe")
     \/ /\ attempt.transport.fam # 0 /\ (expired => cfg.udp)
        /\ sockets' = sockets \cup {"reg"}
        /\ pc' = "send"
        /\ UNCHANGED <<cfg, cands, ci, attemptVars, wireVars, ctxVars, xform, result>>

-----------------------------------------------------------------------------
(* The clear connection *)

\* decorateRegisterRequest and transport.Send.
SendClear(r) ==
  /\ req' = [r EXCEPT !.cseq = cseq]
  /\ cseq' = cseq + 1
  /\ asked' = asked \cup {cseq}

\* A UDP endpoint refuses to send once the context has ended, a stream does not.
SendRefused == cfg.udp /\ expired

\* registerOnce up to its read.  A write has a deadline, too.
SendInitial ==
  /\ pc = "send"
  /\ \/ \E k \in {"probe", "other"} : VariantFails([kind |-> k, status |-> 0], inbox)
     \/ /\ ~SendRefused
        /\ SendClear(buildRegisterRequest)
        /\ pc' = IF expired THEN "readLate" ELSE "read"
        /\ UNCHANGED <<cfg, cands, ci, vi, round, retried, res, key, inbox, ctxVars, xform, sockets, result>>

\* The registrar answers a request it has seen, with a final response or, before it, a
\* provisional one.  inbox keeps which request and with what status; the headers are
\* chosen when somebody looks at them.
RegistrarAnswers ==
  /\ "reg" \in sockets /\ Len(inbox) < MaxInbox
  /\ \E n \in asked, s \in Statuses \cup {200, 401} :
       /\ s = 100 => \A i \in DOMAIN inbox : inbox[i] # [to |-> n, status |-> s]
       /\ inbox' = Append(inbox, [to |-> n, status |-> s])
       /\ asked' = IF s = 100 THEN asked ELSE asked \ {n}
  /\ UNCHANGED <<cfg, cands, pc, ci, attemptVars, ctxVars, xform, sockets, result>>

\* The responses h may stand for; chal is "aka" or a challenge that cannot be answered
\* (ordinary MD5, or no usable header).
Responses(h) ==
  {[to |-> h.to, status |-> h.status, server |-> s, chal |-> c, grant |-> g] :
     s \in IF h.status \in {200, 401} THEN Servers ELSE {<<>>},
     c \in IF h.status = 401 THEN {"aka", "bad"} ELSE {"bad"},
     g \in IF h.status = 200 THEN Grants ELSE {None}}

\* ReadResponse on a datagram endpoint passes over provisional responses.
ReadSkips ==
  /\ pc \in {"read", "readAuth"} /\ inbox # <<>>
  /\ cfg.udp /\ Head(inbox).status = 100
  /\ inbox' = Tail(inbox)
  /\ UNCHANGED <<cfg, cands, pc, ci, attemptVars, asked, ctxVars, xform, sockets, result>>

\* ReadResponse returns a response; a stream read that began before the context ended
\* still does.  readValidatedRegisterResponse takes it for the answer to req unless
\* the native gate is installed and objects.
Readable == inbox # <<>> /\ ~(cfg.udp /\ Head(inbox).status = 100)
Accepted(a) == cfg.validate => a.to = req.cseq

\* What the read leaves: a stream read drops the responses behind the first one that
\* arrived in the same segment.
Left == IF cfg.udp THEN {Tail(inbox)}
        ELSE {SubSeq(inbox, k, Len(inbox)) : k \in 2..(Len(inbox) + 1)}

\* Faulty variant: the retry is never spent.
Retry500Again(a) == a.status = 500 /\ cfg.retry500

\* configuredReRegister500, for which the retry has not been spent.
Retry500(a) == a.status = 500 /\ cfg.retry500 /\ ~retried

ReadInitial ==
  /\ pc = "read" /\ Readable
  /\ \E left \in Left, a \in Responses(Head(inbox)) :
     \/ ~Accepted(a) /\ VariantFails([kind |-> "other", status |-> 0], left)
     \/ /\ Accepted(a) /\ Retry500(a)
        /\ res' = a /\ inbox' = left /\ retried' = TRUE /\ pc' = "wait500"
        /\ UNCHANGED <<cfg, cands, ci, vi, round, cseq, req, key, asked, ctxVars, xform, sockets, result>>
     \/ /\ Accepted(a) /\ a.status = 401
        /\ res' = a /\ inbox' = left /\ pc' = "auth"
        /\ UNCHANGED <<cfg, cands, ci, vi, round, retried, cseq, req, key, asked, ctxVars, xform, sockets, result>>
     \/ /\ Accepted(a) /\ a.status = 200
        /\ decideInitialRegisterSuccessSecurity(cfg.sec, a.server) = "plain"
        /\ FinishClear(a.grant) /\ res' = a
        /\ UNCHANGED <<vi, round, retried, cseq, req, key>>
     \/ \* Security-Server without a challenge: there are no keys to install it with.
        /\ Accepted(a) /\ a.status = 200
        /\ decideInitialRegisterSuccessSecurity(cfg.sec, a.server) # "plain"
        /\ Fails("other")
     \/ /\ Accepted(a) /\ a.status \notin {200, 401} /\ ~Retry500(a)
        /\ LET err == [kind |-> "status", status |-> a.status] IN
           IF decideRegisterFailureOutcome(cfg.fallback, a.status, vi < variants) = "variant"
             THEN VariantFails(err, left) ELSE CandidateFails(err)

\* Faulty variant: the read has no deadline of its own.
ReadInitialFailsCancelled ==
  /\ pc \in {"read", "readLate"} /\ cancelled
  /\ VariantFails([kind |-> "probe", status |-> 0], inbox)

\* The read deadline, the context, or the peer's close ends the wait.
ReadInitialFails ==
  /\ pc \in {"read", "readLate"}
  /\ VariantFails([kind |-> "probe", status |-> 0], inbox)

\* waitReRegisterRetry: an unsupported Retry-After and the context end it, too.
Wait500 ==
  /\ pc = "wait500"
  /\ \/ VariantFails([kind |-> IF expired THEN "probe" ELSE "other", status |-> 0], inbox)
     \/ /\ ~expired
        /\ pc' = "send"
        /\ UNCHANGED <<cfg, cands, ci, attemptVars, wireVars, ctxVars, xform, sockets, result>>

-----------------------------------------------------------------------------
(* Challenges *)

decision == decideSecAgreeAfterChallenge(cfg.sec, res.server)

\* selectDigestChallenge finds a challenge, and computeAKAAuth takes it and the SIM.
Answerable == res.chal = "aka"

\* installIPSecFromChallenge with the keys k.
offer == SelectSecurityServerOffer(ParseSecurityServer(res.server), cfg.strict)
Installable(k) == offer # 0 /\ k # 0
Install(k) ==
  xform' = [call |-> ci, peer |-> effectiveIPSecGatewayAddr(attempt, cfg.addrs),
            key |-> k, offer |-> offer]

\* A decision or a challenge the round cannot go on from.  Where it can, the SIM is asked,
\* and the association installed or a REGISTER sent in clear: any of these may refuse, and
\* a deadline or the end of a context is an error like another to the next candidate.
ChallengeFails ==
  /\ pc = "auth" /\ round < MaxRounds
  /\ \/ Fails("other")
     \/ decision # "error" /\ Answerable /\ Fails("probe")

\* The SIM answers: derive the keys, install the association, prepare the protected
\* REGISTER.
Negotiate ==
  /\ pc = "auth" /\ round < MaxRounds
  /\ decision = "ipsec" /\ Answerable /\ Installable(res.to)
  /\ key' = res.to /\ Install(res.to)
  /\ req' = buildAuthenticatedRegister(req, cseq) /\ cseq' = cseq + 1
  /\ pc' = "secureDial"
  /\ UNCHANGED <<cfg, cands, ci, vi, round, retried, res, wireVars, ctxVars, sockets, result>>

\* Faulty variant: the keys of the refused challenge are kept.
ResynchroniseKeeping ==
  /\ pc = "auth" /\ round < MaxRounds
  /\ decision = "ipsec" /\ Answerable /\ ~SendRefused
  /\ SendClear(req)
  /\ key' = res.to
  /\ round' = round + 1 /\ pc' = IF expired THEN "readAuthLate" ELSE "readAuth"
  /\ UNCHANGED <<cfg, cands, ci, vi, retried, res, inbox, ctxVars, xform, sockets, result>>

\* The SIM reports a sequence-number mismatch: AUTS goes out on the clear connection.
Resynchronise ==
  /\ pc = "auth" /\ round < MaxRounds
  /\ decision = "ipsec" /\ Answerable /\ ~SendRefused
  /\ SendClear(req)
  /\ round' = round + 1 /\ pc' = IF expired THEN "readAuthLate" ELSE "readAuth"
  /\ UNCHANGED <<cfg, cands, ci, vi, retried, res, key, inbox, ctxVars, xform, sockets, result>>

\* answerRegisterChallenge: without Security-Server the request drops the bundle; after
\* a mismatch there are no keys.
AnswerInClear ==
  /\ pc = "auth" /\ round < MaxRounds
  /\ decision = "plain" /\ Answerable /\ ~SendRefused
  /\ SendClear([req EXCEPT !.bundle = FALSE])
  /\ key' \in {res.to, 0}
  /\ round' = round + 1 /\ pc' = IF expired THEN "readAuthLate" ELSE "readAuth"
  /\ UNCHANGED <<cfg, cands, ci, vi, retried, res, inbox, ctxVars, xform, sockets, result>>

ReadChallenged ==
  /\ pc = "readAuth" /\ Readable
  /\ \E left \in Left, a \in Responses(Head(inbox)) :
     \/ ~Accepted(a) /\ Fails("other")
     \/ /\ Accepted(a) /\ a.status = 401
        /\ res' = a /\ inbox' = left /\ pc' = IF round < MaxRounds THEN "auth" ELSE "exhausted"
        /\ UNCHANGED <<cfg, cands, ci, vi, round, retried, cseq, req, key, asked, ctxVars, xform, sockets, result>>
     \/ /\ Accepted(a) /\ a.status = 200
        /\ FinishClear(a.grant) /\ res' = a
        /\ UNCHANGED <<vi, round, retried, cseq, req, key>>
     \/ /\ Accepted(a) /\ a.status \notin {200, 401}
        /\ CandidateFails(TextError(a.status))

ReadChallengedFails ==
  /\ pc \in {"readAuth", "readAuthLate"}
  /\ \E k \in {"probe", "other"} : Fails(k)

\* The rounds are used up and the last challenge offers security: the association is
\* installed with the keys of the challenge before it, and the SIM is asked once more.
Exhausted ==
  /\ pc = "exhausted"
  /\ \/ Fails("other")
     \/ decision = "ipsec" /\ Installable(key) /\ Answerable /\ Fails("probe")
     \/ /\ decision = "ipsec" /\ Installable(key) /\ Answerable
        /\ Install(key)
        /\ req' = buildAuthenticatedRegister(req, req.cseq + 1)
        /\ pc' = "secureDial"
        /\ UNCHANGED <<cfg, cands, ci, vi, round, retried, cseq, res, key, wireVars, ctxVars, sockets, result>>

-----------------------------------------------------------------------------
(* The protected connection *)

\* dialSecureRegisterConn or, for datagrams, the first of the two endpoints, which is opened
\* without the context.
SecureDial ==
  /\ pc = "secureDial"
  /\ \/ Fails("other")
     \/ ~cfg.udp /\ Fails("probe")
     \/ /\ expired => cfg.udp
        /\ sockets' = sockets \cup {"secure"}
        /\ pc' = "secureListen"
        /\ UNCHANGED <<cfg, cands, ci, attemptVars, wireVars, ctxVars, xform, result>>

\* Port-S listens before the protected REGISTER leaves, by runRegisterTransaction.
SecureListen ==
  /\ pc = "secureListen"
  /\ \/ \E k \in {"probe", "other"} : Fails(k)
     \/ /\ sockets' = sockets \cup {"portS"}
        /\ pc' = IF expired THEN "readSecureLate" ELSE "readSecure"
        /\ UNCHANGED <<cfg, cands, ci, attemptVars, wireVars, ctxVars, xform, result>>

\* Nothing but the answer to the protected REGISTER comes on its new connection.
ReadSecure ==
  /\ pc = "readSecure"
  /\ \/ \E g \in Grants :
          /\ Succeeds({"secure", "portS"}, TRUE, g)
          /\ UNCHANGED attemptVars
     \/ \E s \in Statuses \cup {401} : (s = 100 => ~cfg.udp) /\ CandidateFails(TextError(s))

ReadSecureFails ==
  /\ pc \in {"readSecure", "readSecureLate"}
  /\ \E k \in {"probe", "other"} : Fails(k)

-----------------------------------------------------------------------------
Flow ==
  \/ Gap \/ StartCandidate \/ Prepare \/ Dial
  \/ SendInitial \/ ReadInitial \/ ReadInitialFails \/ Wait500
  \/ ChallengeFails \/ Negotiate \/ Resynchronise \/ AnswerInClear
  \/ ReadChallenged \/ ReadChallengedFails \/ Exhausted
  \/ SecureDial \/ SecureListen \/ ReadSecure \/ ReadSecureFails

Next == Flow \/ ReadSkips \/ Cancel \/ AttemptExpires \/ RegistrarAnswers

Spec == Init /\ [][Next]_vars

\* Every blocking call of the flow has a deadline, set once before it waits, so the
\* goroutine keeps moving; passing over provisional responses does not extend it.
LiveSpec == Spec /\ WF_vars(Flow)

-----------------------------------------------------------------------------
(* Properties *)

Secure == {"secureDial", "secureListen", "readSecure", "readSecureLate"}
Waiting == {"read", "readLate", "readAuth", "readAuthLate"} \cup Secure

TypeOK ==
  /\ cfg \in Configs /\ ci \in 1..Len(cands) /\ vi \in 1..variants
  /\ pc \in {"start", "gap", "prepare", "dial", "send", "wait500", "auth", "exhausted",
             "done", "failed"} \cup Waiting
  /\ round \in 0..MaxRounds /\ key \in 0..cseq /\ sockets \subseteq {"reg", "secure", "portS"}
  /\ asked \subseteq 1..cseq

\* Whatever the order of deadlines, rejections and failures, a finished candidate has no
\* socket left except those the result hands to the transport, and those are open: the
\* Port-S listener is not closed behind the back of its new owner.
SocketsHandedOver ==
  /\ pc \in {"failed", "gap", "start"} => sockets = {}
  /\ pc = "done" => sockets = result.conns

\* A REGISTER never repeats or goes back behind the CSeq of an earlier one of its
\* Call-ID, through variants, 500 retries, resynchronisations and the switch to the
\* protected connection.
CSeqGrows == req' # req /\ ci' = ci /\ req'.cseq # 0 => req'.cseq > req.cseq

\* "A registrar attempt always starts in clear text": no packet transform, of this or an
\* abandoned candidate, is installed while REGISTERs go over the clear connection.
ClearUntilAgreed ==
  pc \in {"dial", "send", "read", "readLate", "wait500", "auth", "readAuth", "readAuthLate"}
    => xform = None

\* The association is with the node that was dialled for this candidate and challenged
\* us (the UE's own address standing for its best gateway), from an offer no other
\* usable one beats, and the protected REGISTER is routed to it.
AgreedWithChallenger ==
  pc \in Secure =>
    LET offers == ParseSecurityServer(res.server)
        usable == {i \in DOMAIN offers : offers[i].match}
    IN  /\ xform.call = ci /\ req.route = xform.peer
        /\ attempt.registrar.self \/ xform.peer = attempt.transport
        /\ offerHasServerParams(offers[xform.offer])
        /\ \A i \in usable : offers[xform.offer].match /\ offers[xform.offer].q >= offers[i].q

\* Where security is required, the keys of the association are those of the challenge
\* the protected REGISTER answers, also when resynchronisation used up the rounds.
KeysOfThisChallenge == pc \in Secure /\ cfg.sec = "required" => xform.key = res.to

\* Behind the native gate, or when no variant can leave a late response behind, a
\* challenge is handled only for the request it answers.
ChallengeIsOurs ==
  pc = "auth" /\ (cfg.validate \/ ~cfg.fallback) => res.to = req.cseq

\* A registrar sees a bounded number of REGISTERs of one session: each variant once, one
\* more for a 500, one per challenge round, and the protected one.
RequestsBounded == cseq <= variants + MaxRounds + 3

\* The lifetime kept is positive and no longer than what was granted to any binding.
LifetimeGranted ==
  pc = "done" =>
    /\ result.expires > 0
    /\ \A c \in result.grant.contacts : c.expires > 0 => result.expires <= c.expires

\* A registration comes to an end by itself, however the registrar behaves.
RegistrationEnds == <>(pc \in {"done", "failed"})

\* What the session keeps is sound at every point: its fields, the sockets it hands over
\* or closes, and the lifetime it reports.
SessionConsistent == TypeOK /\ SocketsHandedOver /\ LifetimeGranted

\* The security agreement: clear text until it is made, made with the node that
\* challenged us, over the keys of a challenge to our own request.
SecurityAgreed ==
  ClearUntilAgreed /\ AgreedWithChallenger /\ KeysOfThisChallenge /\ ChallengeIsOurs

\* The REGISTERs of a session are finitely many and never reuse a CSeq.
RequestsNumbered == [][RequestsBounded' /\ CSeqGrows]_vars

=============================================================================
