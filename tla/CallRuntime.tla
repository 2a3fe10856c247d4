----------------------------- MODULE CallRuntime -----------------------------
(***************************************************************************)
(* imscore.callRuntime: the single voice call of a registered Service.     *)
(*                                                                         *)
(* Host threads run dial and answer, or reject and hangup: the host        *)
(* applications queue the two kinds separately.  Handlers are the Port-C   *)
(* and Port-S read loops, which run handleRequest concurrently with each   *)
(* other.  Every dial has a watchInvite goroutine, named by the dial,      *)
(* and every ringing leg a decision timer callback, named by the leg.  A   *)
(* leg is one published INVITE: c.incoming, c.respond and c.incomingToTag, *)
(* which are always set and cleared together.                              *)
(*                                                                         *)
(* A critical section of c.mu is one step, a SIP write between two of them *)
(* is another.  incomingFinalMu is held across steps.                      *)
(***************************************************************************)
CONSTANTS Controllers,  \* host threads that dial and answer
          Enders,       \* host threads that reject and hang up
          Handlers,
          Dials,        \* outgoing calls, each the Call-ID dial makes up
          Invites,      \* incoming INVITE transactions, each with its Call-ID
          Legs,         \* bound: INVITEs that can be published
          RSeqs,        \* RSeq values of reliable provisional responses
          Unreliable,   \* what may fail: "media", "invite", "cancel", "ack", "response"
          ByeCalls,     \* calls whose peer may send BYE
          None

Hosts == Controllers \cup Enders
Calls == Dials \cup Invites
Threads == Hosts \cup Handlers \cup Dials \cup Legs

ASSUME CallAssumption ==
  /\ Hosts \cap (Handlers \cup Dials \cup Legs) = {}
  /\ Handlers \cap (Dials \cup Legs) = {}
  /\ Dials \cap (Invites \cup Legs) = {}
  /\ Invites \cap Legs = {}
  /\ None \notin Threads \cup Calls
  /\ Unreliable \subseteq {"media", "invite", "cancel", "ack", "response"}
  /\ ByeCalls \subseteq Calls

VARIABLES
  state, callID,    \* c.state.State, c.state.CallID
  incoming,         \* the published leg, or None
  preparing,        \* incomingAnswerPreparing
  answered,         \* len(incomingAnswerSDP) > 0
  timer,            \* leg of incomingDecisionTimer, or None
  ticking,          \* legs whose timer is neither stopped nor fired
  media,            \* owner of c.media and c.audioConn, or None
  sockets,          \* owners of media sockets that are open
  remoteRTP,        \* call whose SDP set c.remoteRTP and the codec, or None
  cancelFn,         \* dial whose context c.cancel ends, or None
  ctxDone,          \* dials whose context is over
  cancelRequested,
  invite,           \* dial that inviteBranch and inviteCSeq belong to, or None
  pracked,          \* None for the nil map
  finalMu,          \* holder of incomingFinalMu, or None
  closing,          \* the lifecycle is being closed: no new operations
  pc, call, leg,    \* program point, call and leg of each thread
  was,              \* watchInvite's wasCancelling
  legOf,            \* INVITE of each published leg
  log,              \* what each leg's caller was sent, and its ACK
  sent              \* requests sent for each dial

inboundVars == <<incoming, preparing, answered, timer, ticking>>
outboundVars == <<cancelFn, ctxDone, cancelRequested, invite, pracked>>
mediaVars == <<media, sockets, remoteRTP>>
callVars == <<state, inboundVars, outboundVars, mediaVars>>
threadVars == <<pc, call, leg, was>>
wireVars == <<legOf, log, sent>>
vars == <<callVars, callID, finalMu, closing, threadVars, wireVars>>

-----------------------------------------------------------------------------
(* Helpers *)

Free == {"idle", "ended", "failed"}

Goto(t, label) == pc' = [pc EXCEPT ![t] = label] /\ UNCHANGED <<call, leg>>

Return(t) ==
  /\ pc' = [pc EXCEPT ![t] = "idle"]
  /\ call' = [call EXCEPT ![t] = None]
  /\ leg' = [leg EXCEPT ![t] = None]

Respond(l, code) == log' = [log EXCEPT ![l] = @ \cup {code}] /\ UNCHANGED <<legOf, sent>>

Send(d, method) == sent' = [sent EXCEPT ![d] = @ \cup {method}] /\ UNCHANGED <<legOf, log>>

Pending(l) == state = "incoming" /\ incoming = l

\* Faulty variant: call c.cancel although no dial set it.
FinishUnguarded(s) ==
  /\ state' = s
  /\ timer' = None /\ ticking' = ticking \ {timer}
  /\ ctxDone' = ctxDone \cup {cancelFn} /\ cancelFn' = None
  /\ media' = None /\ sockets' = sockets \ {media}
  /\ incoming' = None /\ remoteRTP' = None
  /\ answered' = FALSE /\ preparing' = FALSE
  /\ invite' = None /\ cancelRequested' = FALSE /\ pracked' = None

\* finish: whatever call is current when it gets c.mu
Finish(s) ==
  /\ state' = s
  /\ timer' = None /\ ticking' = ticking \ {timer}
  /\ ctxDone' = IF cancelFn = None THEN ctxDone ELSE ctxDone \cup {cancelFn}
  /\ cancelFn' = None
  /\ media' = None /\ sockets' = sockets \ {media}
  /\ incoming' = None /\ remoteRTP' = None
  /\ answered' = FALSE /\ preparing' = FALSE
  /\ invite' = None /\ cancelRequested' = FALSE /\ pracked' = None

Init ==
  /\ state = "idle" /\ callID = None
  /\ incoming = None /\ preparing = FALSE /\ answered = FALSE
  /\ timer = None /\ ticking = {}
  /\ media = None /\ sockets = {} /\ remoteRTP = None
  /\ cancelFn = None /\ ctxDone = {} /\ cancelRequested = FALSE
  /\ invite = None /\ pracked = None
  /\ finalMu = None /\ closing = FALSE
  /\ pc = [t \in Threads |-> "idle"]
  /\ call = [t \in Threads |-> None]
  /\ leg = [t \in Threads |-> None]
  /\ was = [d \in Dials |-> FALSE]
  /\ legOf = [l \in Legs |-> None]
  /\ log = [l \in Legs |-> {}]
  /\ sent = [d \in Dials |-> {}]

-----------------------------------------------------------------------------
(* dial *)

\* Faulty variant: claim the slot while an INVITE is being admitted.
DialClaimUnlocked(h, d) ==
  /\ pc[h] = "idle" /\ pc[d] = "idle" /\ ~closing
  /\ state \in Free
  /\ state' = "outgoing" /\ callID' = d
  /\ cancelFn' = d /\ pracked' = {}
  /\ pc' = [pc EXCEPT ![h] = "allocate", ![d] = "dialing"]
  /\ call' = [call EXCEPT ![h] = d]
  /\ UNCHANGED <<inboundVars, ctxDone, cancelRequested, invite, mediaVars, finalMu,
                 closing, leg, was, wireVars>>

\* The call slot is claimed under incomingFinalMu and c.mu.
DialClaim(h, d) ==
  /\ pc[h] = "idle" /\ pc[d] = "idle" /\ ~closing
  /\ finalMu = None /\ state \in Free
  /\ state' = "outgoing" /\ callID' = d
  /\ ctxDone' = IF cancelFn = None THEN ctxDone ELSE ctxDone \cup {cancelFn}
  /\ cancelFn' = d
  /\ invite' = None /\ cancelRequested' = FALSE /\ pracked' = {}
  /\ pc' = [pc EXCEPT ![h] = "allocate", ![d] = "dialing"]
  /\ call' = [call EXCEPT ![h] = d]
  /\ UNCHANGED <<inboundVars, mediaVars, finalMu, closing, leg, was, wireVars>>

\* allocateMedia: no socket, a socket without its audio bridge, or both.
DialAllocate(h) ==
  /\ pc[h] = "allocate"
  /\ \/ /\ "media" \in Unreliable \/ call[h] \in ctxDone
        /\ Goto(h, "dialfail") /\ UNCHANGED <<media, sockets>>
     \/ /\ "media" \in Unreliable /\ media = None
        /\ media' = call[h] /\ UNCHANGED sockets
        /\ Goto(h, "dialfail")
     \/ /\ media' = call[h] /\ sockets' = (sockets \ {media}) \cup {call[h]}
        /\ Goto(h, "build")
  /\ UNCHANGED <<state, inboundVars, outboundVars, remoteRTP, callID, finalMu, closing,
                 was, wireVars>>

\* buildRequest(INVITE): fails for a target that cannot be normalised.
DialBuild(h) ==
  /\ pc[h] = "build"
  /\ \/ "invite" \in Unreliable /\ Goto(h, "dialfail") /\ UNCHANGED invite
     \/ invite' = call[h] /\ Goto(h, "send")
  /\ UNCHANGED <<state, inboundVars, cancelFn, ctxDone, cancelRequested, pracked,
                 mediaVars, callID, finalMu, closing, was, wireVars>>

\* enqueueWrite can fail before or after the INVITE went out.
DialSend(h) ==
  LET d == call[h] IN
  /\ pc[h] = "send"
  /\ \/ /\ Send(d, "INVITE")
        /\ pc' = [pc EXCEPT ![h] = "idle", ![d] = "lease"]
        /\ call' = [call EXCEPT ![h] = None]
        /\ UNCHANGED leg
     \/ /\ "invite" \in Unreliable
        /\ Goto(h, "dialfail")
        /\ Send(d, "INVITE") \/ UNCHANGED wireVars
  /\ UNCHANGED <<callVars, callID, finalMu, closing, was>>

\* setState("failed", err), whatever the state is by now
DialFail(h) ==
  /\ pc[h] = "dialfail"
  /\ state' = "failed"
  /\ pc' = [pc EXCEPT ![h] = "idle", ![call[h]] = "gone"]
  /\ call' = [call EXCEPT ![h] = None]
  /\ UNCHANGED <<inboundVars, outboundVars, mediaVars, callID, finalMu, closing, leg,
                 was, wireVars>>

-----------------------------------------------------------------------------
(* watchInvite *)

WatchLease(d) ==
  /\ pc[d] = "lease"
  /\ Goto(d, IF closing THEN "gone" ELSE "wait")
  /\ UNCHANGED <<callVars, callID, finalMu, closing, was, wireVars>>

WatchDone(d) ==
  /\ pc[d] = "wait" /\ d \in ctxDone
  /\ Goto(d, "gone")
  /\ UNCHANGED <<callVars, callID, finalMu, closing, was, wireVars>>

\* The 90 s timer.
WatchTimeout(d) ==
  /\ pc[d] = "wait"
  /\ Goto(d, IF callID # d THEN "gone" ELSE IF cancelRequested THEN "end" ELSE "fail")
  /\ UNCHANGED <<callVars, callID, finalMu, closing, was, wireVars>>

\* A response to the INVITE: the Call-ID is checked and cancelRequested is read
\* here, the rest of the loop body acts on what was read.
WatchReceive(d) ==
  /\ pc[d] = "wait"
  /\ IF callID # d
       THEN Goto(d, "gone") /\ UNCHANGED was
       ELSE /\ \E k \in {"trying", "ringing", "session", "answered", "rejected"} :
                 Goto(d, k)
            /\ was' = [was EXCEPT ![d] = cancelRequested]
  /\ UNCHANGED <<callVars, callID, finalMu, closing, wireVars>>

\* A status below 180.
WatchTrying(d) ==
  /\ pc[d] = "trying"
  /\ state' = IF was[d] THEN state ELSE "outgoing"
  /\ Goto(d, "wait")
  /\ UNCHANGED <<inboundVars, outboundVars, mediaVars, callID, finalMu, closing, was,
                 wireVars>>

\* An 18x with a session description that may be unusable, or one that requires
\* 100rel, or both.
WatchSession(d) ==
  /\ pc[d] = "session"
  /\ \/ ~was[d] /\ remoteRTP' = d
     \/ UNCHANGED remoteRTP
  /\ \E k \in {"ringing", "reliable"} : (k = "reliable" => RSeqs # {}) /\ Goto(d, k)
  /\ UNCHANGED <<state, inboundVars, outboundVars, media, sockets, callID, finalMu,
                 closing, was, wireVars>>

\* updateProvisionalState
WatchProvisional(d) ==
  /\ pc[d] \in {"ringing", "reliable"}
  /\ state' = IF cancelRequested THEN state ELSE "early"
  /\ Goto(d, IF pc[d] = "reliable" THEN "prack" ELSE "wait")
  /\ UNCHANGED <<inboundVars, outboundVars, mediaVars, callID, finalMu, closing, was,
                 wireVars>>

\* A retransmission is acknowledged once; writing to a nil map panics.
WatchPrack(d) ==
  /\ pc[d] = "prack"
  /\ IF pracked = None
       THEN Goto(d, "panicked") /\ UNCHANGED <<pracked, wireVars>>
       ELSE /\ \/ \E r \in pracked : UNCHANGED <<pracked, wireVars>>
               \/ \E r \in RSeqs \ pracked :
                    /\ pracked' = pracked \cup {r}
                    /\ Send(d, "PRACK")
            /\ Goto(d, "wait")
  /\ UNCHANGED <<state, inboundVars, cancelFn, ctxDone, cancelRequested, invite,
                 mediaVars, callID, finalMu, closing, was>>

\* A 2xx: its SDP, the early one when it has no body, or nothing usable.
WatchAnswer(d) ==
  /\ pc[d] = "answered"
  /\ \/ remoteRTP' = d /\ Goto(d, "ack")
     \/ remoteRTP # None /\ UNCHANGED remoteRTP /\ Goto(d, "ack")
     \/ UNCHANGED remoteRTP /\ Goto(d, "acknomedia")
  /\ UNCHANGED <<state, inboundVars, outboundVars, media, sockets, callID, finalMu,
                 closing, was, wireVars>>

\* Faulty variant: publish the call before its ACK is on the wire.
WatchAckLater(d) ==
  /\ pc[d] \in {"ack", "acknomedia"}
  /\ Goto(d, IF was[d] THEN "bye" ELSE IF pc[d] = "ack" THEN "activate" ELSE "byefail")
  /\ UNCHANGED <<callVars, callID, finalMu, closing, was, wireVars>>

\* ACK carries inviteCSeq as it is now.
WatchAck(d) ==
  /\ pc[d] \in {"ack", "acknomedia"}
  /\ \/ /\ Send(d, IF invite = d THEN "ACK" ELSE "STRAYACK")
        /\ Goto(d, IF was[d] THEN "bye" ELSE IF pc[d] = "ack" THEN "activate"
                                                              ELSE "byefail")
     \/ "ack" \in Unreliable /\ Goto(d, "fail") /\ UNCHANGED wireVars
  /\ UNCHANGED <<callVars, callID, finalMu, closing, was>>

WatchBye(d) ==
  /\ pc[d] \in {"bye", "byefail"}
  /\ Send(d, "BYE")
  /\ Goto(d, IF pc[d] = "bye" THEN "end" ELSE "fail")
  /\ UNCHANGED <<callVars, callID, finalMu, closing, was>>

WatchActivate(d) ==
  /\ pc[d] = "activate"
  /\ state' = "active"
  /\ Goto(d, "gone")
  /\ UNCHANGED <<inboundVars, outboundVars, mediaVars, callID, finalMu, closing, was,
                 wireVars>>

\* A final error; a failed ACK is ignored.
WatchReject(d) ==
  /\ pc[d] = "rejected"
  /\ Send(d, IF invite = d THEN "ACK" ELSE "STRAYACK")
  /\ Goto(d, IF was[d] THEN "end" ELSE "fail")
  /\ UNCHANGED <<callVars, callID, finalMu, closing, was>>

\* Faulty variant: leave the loop without releasing the call.
WatchFinishForgets(d) ==
  /\ pc[d] \in {"end", "fail"}
  /\ Goto(d, "gone")
  /\ UNCHANGED <<callVars, callID, finalMu, closing, was, wireVars>>

WatchFinish(d) ==
  /\ pc[d] \in {"end", "fail"}
  /\ Finish(IF pc[d] = "end" THEN "ended" ELSE "failed")
  /\ Goto(d, "gone")
  /\ UNCHANGED <<callID, finalMu, closing, was, wireVars>>

-----------------------------------------------------------------------------
(* handleRequest *)

SameTransaction(i) == incoming # None /\ callID = i

\* A retransmission: the 200 again, or Ringing again.
InviteRepeat(x, i) ==
  /\ pc[x] = "idle" /\ ~closing /\ finalMu = None
  /\ SameTransaction(i)
  /\ state = "incoming" \/ (state = "connecting" /\ answered)
  /\ Respond(incoming, IF answered THEN "ok" ELSE "ringing")
  /\ UNCHANGED <<callVars, callID, finalMu, closing, threadVars>>

\* 486 to the retransmission of an INVITE that has left the ringing states.
InviteBusy(x, i) ==
  /\ pc[x] = "idle" /\ ~closing /\ finalMu = None
  /\ SameTransaction(i)
  /\ state \notin Free \cup {"incoming"} /\ ~(state = "connecting" /\ answered)
  /\ Respond(incoming, "busy")
  /\ UNCHANGED <<callVars, callID, finalMu, closing, threadVars>>

InviteNew(x, i) ==
  /\ pc[x] = "idle" /\ ~closing /\ finalMu = None
  /\ state \in Free
  /\ \E l \in Legs : legOf[l] = None
  /\ finalMu' = x
  /\ pc' = [pc EXCEPT ![x] = "trying100"]
  /\ call' = [call EXCEPT ![x] = i]
  /\ UNCHANGED <<callVars, callID, closing, leg, was, wireVars>>

InviteTrying(x) ==
  /\ pc[x] = "trying100"
  /\ \/ Goto(x, "offer") /\ UNCHANGED <<callVars, finalMu>>
     \/ "response" \in Unreliable /\ Finish("failed") /\ finalMu' = None /\ Return(x)
  /\ UNCHANGED <<callID, closing, was, wireVars>>

\* applyRemoteSDP, or 488 for an offer it cannot use.
InviteOffer(x) ==
  /\ pc[x] = "offer"
  /\ \/ remoteRTP' = call[x] /\ Goto(x, "publish") /\ UNCHANGED finalMu
     \/ UNCHANGED remoteRTP /\ finalMu' = None /\ Return(x)
  /\ UNCHANGED <<state, inboundVars, outboundVars, media, sockets, callID, closing, was,
                 wireVars>>

InvitePublish(x) ==
  /\ pc[x] = "publish"
  /\ \E l \in Legs :
       /\ legOf[l] = None
       /\ legOf' = [legOf EXCEPT ![l] = call[x]]
       /\ incoming' = l
       /\ leg' = [leg EXCEPT ![x] = l]
  /\ state' = "incoming" /\ callID' = call[x]
  /\ pc' = [pc EXCEPT ![x] = "ring"]
  /\ UNCHANGED <<preparing, answered, timer, ticking, outboundVars, mediaVars, finalMu,
                 closing, call, was, log, sent>>

InviteRing(x) ==
  /\ pc[x] = "ring"
  /\ \/ Respond(leg[x], "ringing") /\ Goto(x, "arm") /\ UNCHANGED <<callVars, finalMu>>
     \/ /\ "response" \in Unreliable
        /\ Finish("failed") /\ finalMu' = None /\ Return(x)
        /\ UNCHANGED wireVars
  /\ UNCHANGED <<callID, closing, was>>

\* armIncomingDecisionTimer
InviteArm(x) ==
  /\ pc[x] = "arm"
  /\ IF Pending(leg[x])
       THEN timer' = leg[x] /\ ticking' = (ticking \ {timer}) \cup {leg[x]}
       ELSE UNCHANGED <<timer, ticking>>
  /\ finalMu' = None
  /\ Return(x)
  /\ UNCHANGED <<state, incoming, preparing, answered, outboundVars, mediaVars, callID,
                 closing, was, wireVars>>

HandleAck(x, i) ==
  /\ pc[x] = "idle" /\ ~closing
  /\ \E l \in Legs : legOf[l] = i /\ "ok" \in log[l]
  /\ callID = i /\ state = "connecting"
  /\ state' = "active"
  /\ Respond(incoming, "ACK")
  /\ UNCHANGED <<inboundVars, outboundVars, mediaVars, callID, finalMu, closing,
                 threadVars>>

HandleCancel(x, i) ==
  /\ pc[x] = "idle" /\ ~closing /\ finalMu = None
  /\ state = "incoming" /\ callID = i /\ incoming # None
  /\ finalMu' = x
  /\ Goto(x, "reject")
  /\ UNCHANGED <<callVars, callID, closing, was, wireVars>>

\* A caller may hang up an early dialog, a callee only one it got the ACK for.
HandleBye(x, c) ==
  /\ pc[x] = "idle" /\ ~closing
  /\ c \in Dials => "ACK" \in sent[c]
  /\ callID = c /\ state \notin Free
  /\ pc' = [pc EXCEPT ![x] = "byed"]
  /\ call' = [call EXCEPT ![x] = c]
  /\ UNCHANGED <<callVars, callID, finalMu, closing, leg, was, wireVars>>

HandleByeFinish(x) ==
  /\ pc[x] = "byed"
  /\ Finish("ended")
  /\ Return(x)
  /\ UNCHANGED <<callID, finalMu, closing, was, wireVars>>

-----------------------------------------------------------------------------
(* The decision timer and rejectPendingLocked *)

TimerFire(l) ==
  /\ l \in ticking
  /\ ticking' = ticking \ {l}
  /\ Goto(l, "fired")
  /\ UNCHANGED <<state, incoming, preparing, answered, timer, outboundVars, mediaVars,
                 callID, finalMu, closing, was, wireVars>>

\* expireIncomingDecision: only the INVITE it was armed for.
Expire(l) ==
  /\ pc[l] = "fired" /\ finalMu = None
  /\ IF Pending(l) THEN finalMu' = l /\ Goto(l, "reject")
                   ELSE UNCHANGED finalMu /\ Goto(l, "idle")
  /\ UNCHANGED <<callVars, callID, closing, was, wireVars>>

\* reject: the host declines
Reject(h) ==
  /\ pc[h] = "idle" /\ ~closing /\ finalMu = None
  /\ finalMu' = h
  /\ Goto(h, "reject")
  /\ UNCHANGED <<callVars, callID, closing, was, wireVars>>

RejectRead(t) ==
  /\ pc[t] = "reject"
  /\ IF incoming = None
       THEN finalMu' = None /\ Return(t)
       ELSE /\ pc' = [pc EXCEPT ![t] = "decline"]
            /\ leg' = [leg EXCEPT ![t] = incoming]
            /\ UNCHANGED <<finalMu, call>>
  /\ UNCHANGED <<callVars, callID, closing, was, wireVars>>

Code(t) == IF t \in Hosts THEN "declined" ELSE IF t \in Legs THEN "timeout" ELSE "cancelled"

RejectSend(t) ==
  /\ pc[t] = "decline"
  /\ \/ Respond(leg[t], Code(t))
     \/ "response" \in Unreliable /\ UNCHANGED wireVars
  /\ Goto(t, "over")
  /\ UNCHANGED <<callVars, callID, finalMu, closing, was>>

RejectFinish(t) ==
  /\ pc[t] = "over"
  /\ Finish("ended")
  /\ finalMu' = None
  /\ Return(t)
  /\ UNCHANGED <<callID, closing, was, wireVars>>

-----------------------------------------------------------------------------
(* answer *)

\* Faulty variant: the decision timer ends when the user decides, not with the 200.
AnswerReserveUntimed(h) ==
  /\ pc[h] = "idle" /\ ~closing
  /\ incoming # None /\ state = "incoming" /\ ~preparing /\ ~answered
  /\ preparing' = TRUE
  /\ timer' = None /\ ticking' = ticking \ {timer}
  /\ pc' = [pc EXCEPT ![h] = "prepare"]
  /\ leg' = [leg EXCEPT ![h] = incoming]
  /\ UNCHANGED <<state, incoming, answered, outboundVars, mediaVars, callID, finalMu,
                 closing, call, was, wireVars>>

AnswerReserve(h) ==
  /\ pc[h] = "idle" /\ ~closing
  /\ incoming # None /\ state = "incoming" /\ ~preparing /\ ~answered
  /\ preparing' = TRUE
  /\ pc' = [pc EXCEPT ![h] = "prepare"]
  /\ leg' = [leg EXCEPT ![h] = incoming]
  /\ UNCHANGED <<state, incoming, answered, timer, ticking, outboundVars, mediaVars,
                 callID, finalMu, closing, call, was, wireVars>>

\* allocateIncomingMedia, or clearIncomingAnswerReservation.
AnswerAllocate(h) ==
  /\ pc[h] = "prepare"
  /\ \/ sockets' = sockets \cup {leg[h]} /\ Goto(h, "bind") /\ UNCHANGED preparing
     \/ /\ "media" \in Unreliable
        /\ preparing' = (preparing /\ ~Pending(leg[h]))
        /\ Return(h) /\ UNCHANGED sockets
  /\ UNCHANGED <<state, incoming, answered, timer, ticking, outboundVars, media,
                 remoteRTP, callID, finalMu, closing, was, wireVars>>

\* Faulty variant: leave the sockets of a call that ended meanwhile open.
AnswerBindLeaky(h) ==
  /\ pc[h] = "bind" /\ finalMu = None
  /\ IF Pending(leg[h]) /\ preparing
       THEN IF media = None
              THEN /\ media' = leg[h] /\ answered' = TRUE /\ finalMu' = h
                   /\ Goto(h, "ok200") /\ UNCHANGED <<preparing, sockets>>
              ELSE /\ preparing' = FALSE /\ sockets' = sockets \ {leg[h]}
                   /\ Return(h) /\ UNCHANGED <<media, answered, finalMu>>
       ELSE Return(h) /\ UNCHANGED <<media, answered, preparing, sockets, finalMu>>
  /\ UNCHANGED <<state, incoming, timer, ticking, outboundVars, remoteRTP, callID,
                 closing, was, wireVars>>

\* Bind the sockets to the INVITE if it is still pending and nothing is bound.
AnswerBind(h) ==
  /\ pc[h] = "bind" /\ finalMu = None
  /\ IF Pending(leg[h]) /\ preparing
       THEN IF media = None
              THEN /\ media' = leg[h] /\ answered' = TRUE /\ finalMu' = h
                   /\ Goto(h, "ok200") /\ UNCHANGED <<preparing, sockets>>
              ELSE /\ preparing' = FALSE /\ sockets' = sockets \ {leg[h]}
                   /\ Return(h) /\ UNCHANGED <<media, answered, finalMu>>
       ELSE /\ sockets' = sockets \ {leg[h]} /\ Return(h)
            /\ UNCHANGED <<media, answered, preparing, finalMu>>
  /\ UNCHANGED <<state, incoming, timer, ticking, outboundVars, remoteRTP, callID,
                 closing, was, wireVars>>

\* Faulty variant: let go of incomingFinalMu while the 200 is being written.
AnswerSendUnlocked(h) ==
  /\ pc[h] = "ok200"
  /\ Respond(leg[h], "ok") /\ Goto(h, "connect")
  /\ finalMu' = None
  /\ UNCHANGED <<callVars, callID, closing, was>>

AnswerSend(h) ==
  /\ pc[h] = "ok200"
  /\ \/ Respond(leg[h], "ok") /\ Goto(h, "connect") /\ UNCHANGED <<callVars, finalMu>>
     \/ /\ "response" \in Unreliable
        /\ Finish("failed") /\ finalMu' = None /\ Return(h)
        /\ UNCHANGED wireVars
  /\ UNCHANGED <<callID, closing, was>>

\* Faulty variant: become connecting although the call ended meanwhile.
AnswerCommitBlind(h) ==
  /\ pc[h] = "connect"
  /\ state' = "connecting" /\ preparing' = FALSE
  /\ timer' = None /\ ticking' = ticking \ {timer}
  /\ finalMu' = None
  /\ Return(h)
  /\ UNCHANGED <<incoming, answered, outboundVars, mediaVars, callID, closing, was,
                 wireVars>>

AnswerCommit(h) ==
  /\ pc[h] = "connect"
  /\ IF Pending(leg[h]) /\ preparing
       THEN /\ state' = "connecting" /\ preparing' = FALSE
            /\ timer' = None /\ ticking' = ticking \ {timer}
       ELSE UNCHANGED <<state, preparing, timer, ticking>>
  /\ finalMu' = None
  /\ Return(h)
  /\ UNCHANGED <<incoming, answered, outboundVars, mediaVars, callID, closing, was,
                 wireVars>>

-----------------------------------------------------------------------------
(* hangup and close *)

Hangup(h) ==
  /\ pc[h] = "idle" /\ ~closing
  /\ state \notin Free \cup {"cancelling"}
  /\ call' = [call EXCEPT ![h] = callID]
  /\ IF state \in {"outgoing", "early"}
       THEN /\ cancelRequested' = TRUE /\ state' = "cancelling"
            /\ pc' = [pc EXCEPT ![h] = "cancel"]
       ELSE /\ pc' = [pc EXCEPT ![h] = "hangup"]
            /\ UNCHANGED <<cancelRequested, state>>
  /\ UNCHANGED <<inboundVars, cancelFn, ctxDone, invite, pracked, mediaVars, callID,
                 finalMu, closing, leg, was, wireVars>>

\* Faulty variant: finish the call although its CANCEL was written.
HangupCancelEnds(h) ==
  /\ pc[h] = "cancel"
  /\ Goto(h, "hungup")
  /\ IF call[h] \in Dials
       THEN Send(call[h], IF invite = call[h] /\ "INVITE" \in sent[call[h]]
                            THEN "CANCEL" ELSE "STRAYCANCEL")
       ELSE UNCHANGED wireVars
  /\ UNCHANGED <<callVars, callID, finalMu, closing, was>>

\* CANCEL carries inviteBranch as it is now, and may overtake the INVITE.
HangupCancel(h) ==
  /\ pc[h] = "cancel"
  /\ \/ /\ IF call[h] \in Dials
             THEN Send(call[h], IF invite = call[h] /\ "INVITE" \in sent[call[h]]
                                  THEN "CANCEL" ELSE "STRAYCANCEL")
             ELSE UNCHANGED wireVars
        /\ Return(h)
     \/ "cancel" \in Unreliable /\ Goto(h, "hungup") /\ UNCHANGED wireVars
  /\ UNCHANGED <<callVars, callID, finalMu, closing, was>>

HangupBye(h) ==
  /\ pc[h] = "hangup"
  /\ IF call[h] \in Dials THEN Send(call[h], "BYE") ELSE UNCHANGED wireVars
  /\ Goto(h, "hungup")
  /\ UNCHANGED <<callVars, callID, finalMu, closing, was>>

HangupFinish(h) ==
  /\ pc[h] = "hungup"
  /\ Finish("ended")
  /\ Return(h)
  /\ UNCHANGED <<callID, finalMu, closing, was, wireVars>>

\* Service.Close cancels the lifecycle context ...
CloseCancel ==
  /\ ~closing
  /\ closing' = TRUE
  /\ ctxDone' = Dials
  /\ UNCHANGED <<state, inboundVars, cancelFn, cancelRequested, invite, pracked,
                 mediaVars, callID, finalMu, threadVars, wireVars>>

\* ... waits for every lease to be returned and ends the call.
Close ==
  /\ closing
  /\ \A t \in Hosts \cup Handlers : pc[t] = "idle"
  /\ \A d \in Dials : pc[d] \in {"idle", "gone"}
  /\ Finish("ended")
  /\ UNCHANGED <<callID, finalMu, closing, threadVars, wireVars>>

-----------------------------------------------------------------------------
WatchNext(d) ==
  \/ WatchLease(d) \/ WatchDone(d) \/ WatchTimeout(d) \/ WatchReceive(d)
  \/ WatchTrying(d) \/ WatchSession(d) \/ WatchProvisional(d) \/ WatchPrack(d)
  \/ WatchAnswer(d) \/ WatchAck(d) \/ WatchBye(d) \/ WatchActivate(d)
  \/ WatchReject(d) \/ WatchFinish(d)

HandlerBegin(x) ==
  \/ \E i \in Invites : \/ InviteRepeat(x, i) \/ InviteBusy(x, i) \/ InviteNew(x, i)
                        \/ HandleAck(x, i) \/ HandleCancel(x, i)
  \/ \E c \in ByeCalls : HandleBye(x, c)

HandlerStep(x) ==
  \/ InviteTrying(x) \/ InviteOffer(x) \/ InvitePublish(x) \/ InviteRing(x)
  \/ InviteArm(x) \/ HandleByeFinish(x)
  \/ RejectRead(x) \/ RejectSend(x) \/ RejectFinish(x)

HostBegin(h) ==
  \/ h \in Controllers /\ ((\E d \in Dials : DialClaim(h, d)) \/ AnswerReserve(h))
  \/ h \in Enders /\ (Reject(h) \/ Hangup(h))

HostStep(h) ==
  \/ DialAllocate(h) \/ DialBuild(h) \/ DialSend(h) \/ DialFail(h)
  \/ AnswerAllocate(h) \/ AnswerBind(h) \/ AnswerSend(h) \/ AnswerCommit(h)
  \/ RejectRead(h) \/ RejectSend(h) \/ RejectFinish(h)
  \/ HangupCancel(h) \/ HangupBye(h) \/ HangupFinish(h)

TimerNext(l) ==
  \/ TimerFire(l) \/ Expire(l)
  \/ RejectRead(l) \/ RejectSend(l) \/ RejectFinish(l)

Next ==
  \/ \E d \in Dials : WatchNext(d)
  \/ \E x \in Handlers : HandlerBegin(x) \/ HandlerStep(x)
  \/ \E h \in Hosts : HostBegin(h) \/ HostStep(h)
  \/ \E l \in Legs : TimerNext(l)
  \/ CloseCancel \/ Close

\* A goroutine that has started runs on: SIP writes have deadlines, timers expire
\* and Go's mutexes are starvation free, hence the strong fairness where a step
\* takes incomingFinalMu.  An expired timer stays ready and select chooses at random,
\* so responses cannot keep watchInvite from it.  Nothing makes a user or a carrier act.
Fairness ==
  /\ WF_vars(Close)
  /\ \A d \in Dials : WF_vars(WatchNext(d)) /\ SF_vars(WatchTimeout(d))
  /\ \A x \in Handlers : WF_vars(HandlerStep(x))
  /\ \A h \in Hosts : WF_vars(HostStep(h)) /\ SF_vars(AnswerBind(h))
  /\ \A l \in Legs : WF_vars(TimerNext(l)) /\ SF_vars(Expire(l))

Spec == Init /\ [][Next]_vars
LiveSpec == Spec /\ Fairness

-----------------------------------------------------------------------------
(* Properties *)

\* The program points of all threads.
Places ==
  {"idle", "allocate", "build", "send", "dialfail", "dialing", "lease", "wait", "gone", "end",
   "fail", "trying", "ringing", "session", "answered", "rejected", "reliable", "prack",
   "panicked", "ack", "acknomedia", "bye", "byefail", "activate", "trying100", "offer",
   "publish", "ring", "arm", "byed", "fired", "reject", "decline", "over", "prepare", "bind",
   "ok200", "connect", "cancel", "hangup", "hungup"}

CallTyped ==
  /\ state \in {"idle", "outgoing", "early", "cancelling", "incoming", "connecting",
                "active", "ended", "failed"}
  /\ callID \in Calls \cup {None}
  /\ incoming \in Legs \cup {None} /\ timer \in Legs \cup {None} /\ ticking \subseteq Legs
  /\ media \in Dials \cup Legs \cup {None} /\ sockets \subseteq Dials \cup Legs
  /\ remoteRTP \in Calls \cup {None}
  /\ cancelFn \in Dials \cup {None} /\ ctxDone \subseteq Dials
  /\ invite \in Dials \cup {None}
  /\ pracked = None \/ pracked \in SUBSET RSeqs

FlagsTyped ==
  /\ preparing \in BOOLEAN /\ answered \in BOOLEAN /\ cancelRequested \in BOOLEAN
  /\ closing \in BOOLEAN

ThreadsTyped ==
  /\ finalMu \in Hosts \cup Handlers \cup Legs \cup {None}
  /\ pc \in [Threads -> Places]
  /\ call \in [Threads -> Calls \cup {None}]
  /\ leg \in [Threads -> Legs \cup {None}]
  /\ was \in [Dials -> BOOLEAN]

WireTyped ==
  /\ legOf \in [Legs -> Invites \cup {None}]
  /\ log \in [Legs -> SUBSET {"ringing", "ok", "ACK", "busy", "timeout", "cancelled",
                              "declined"}]
  /\ sent \in [Dials -> SUBSET {"INVITE", "CANCEL", "ACK", "BYE", "PRACK", "STRAYCANCEL",
                                "STRAYACK"}]

\* Every field of callRuntime, its threads' program points and what was sent keep their
\* types; in particular finish leaves no timer, media owner or cancel function dangling
\* outside its set.
TypeOK == CallTyped /\ FlagsTyped /\ ThreadsTyped /\ WireTyped

\* "a CANCEL cannot be judged against a transient state while a 200 OK is still being
\* handed to the transport", nor can the decision timer or a retransmission: until
\* its ACK, a leg that was answered is never also refused by any of the three.
AnswerExclusive ==
  \A l \in Legs : "ok" \in log[l] /\ "ACK" \notin log[l] =>
                    log[l] \cap {"busy", "timeout", "cancelled"} = {}

\* A ringing call never waits for ever: once handleInvite is done with it, its own
\* timer is armed or its callback is under way; and a timer left over from an earlier
\* INVITE is no longer able to fire.
RingingIsTimed ==
  /\ /\ state = "incoming"
     /\ \A x \in Handlers : leg[x] = incoming => pc[x] \notin {"ring", "arm"}
     => /\ timer = incoming
        /\ incoming \in ticking \/ pc[incoming] \in {"fired", "reject", "decline", "over"}
  /\ ticking \subseteq {timer} /\ (timer # None => timer = incoming)

\* An answered call is the leg whose 200 went out, with that leg's media sockets and
\* no endpoint but the one its own INVITE offered, whatever arrived during answer.
AnsweredIsWhole ==
  state = "connecting" \/ (state = "active" /\ callID \in Invites) =>
    /\ incoming # None
    /\ legOf[incoming] = callID
    /\ "ok" \in log[incoming]
    /\ media = incoming /\ media \in sockets
    /\ remoteRTP \in {None, callID}

\* No media socket is lost: it is bound to the runtime, where finish closes it, or
\* belongs to an answer that has yet to bind it.
SocketsOwned ==
  \A s \in sockets : \/ media = s
                     \/ \E h \in Hosts : pc[h] = "bind" /\ leg[h] = s

\* The call slot passes from one call to the next only when it is free: neither a
\* dial nor an INVITE replaces a call, and neither takes the slot from the other
\* between the decision to admit an INVITE and its publication.
SlotIsClaimed == [][callID' # callID => state \in Free]_vars

\* An outgoing call is active only after its own 2xx was acknowledged, with its own
\* sockets, those of an earlier dial being closed, and the endpoint its own answer named.
ActiveIsAcked ==
  state = "active" /\ callID \in Dials =>
    /\ "ACK" \in sent[callID]
    /\ media = callID /\ sockets \cap Dials = {callID}
    /\ remoteRTP = callID

Dialling(d) == callID = d /\ state \in {"outgoing", "early", "cancelling"}

\* hangup leaves the watcher of a cancelled dial alive "until the server returns its
\* final 487": as long as watchInvite may act for a dial, the call it acts on is that
\* dial's, and is still being dialled or cancelled.
WatchersCurrent ==
  \A d \in Dials : pc[d] \notin {"idle", "gone", "panicked"} => Dialling(d)

\* A 2xx that is processed after the user hung up is acknowledged and released with
\* BYE: the slot is free when its watcher is gone, unless Close stopped the watcher.
RacedAnswerReleased ==
  \A d \in Dials : was[d] /\ pc[d] = "gone" /\ callID = d /\ ~closing => state \in Free

\* watchInvite from its start to its last step: it acts for the call it was started for,
\* and leaves no call behind that the user hung up.
WatchersSound == WatchersCurrent /\ RacedAnswerReleased

\* Every pending INVITE is decided, if only by the 90 s timer.
PendingDecided == \A l \in Legs : Pending(l) ~> ~Pending(l)

\* Every dial, cancelled or not, is answered, ended or failed in the end.
DialResolves == \A d \in Dials : Dialling(d) ~> ~Dialling(d)

\* hangup keeps the watcher alive for "a raced 2xx": a 2xx that races the hangup must
\* not leave the user in a call that hangup reported as ended.
HangupSticks == cancelRequested => state # "active"

\* watchInvite: "DialCall returns as soon as it has sent the INVITE, but the response
\* watcher continues to use the service transport to send PRACK/ACK/BYE."
WatcherSurvives == \A d \in Dials : pc[d] # "panicked"

=============================================================================
