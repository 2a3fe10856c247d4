-------------------------- MODULE CallRuntimeProofs --------------------------
(***************************************************************************)
(* Proofs about the call runtime, for any number of host threads, read     *)
(* loops, dials, INVITEs and legs.                                         *)
(*                                                                         *)
(* Some properties hold whatever happens.  The others depend on one thing  *)
(* that the code does not check everywhere: that a response watcher never  *)
(* outlives its call.  They are proved from WatchersCurrent, and           *)
(* WatchersCurrent is proved for the workloads in which nobody ends a call *)
(* that is no longer the one he meant.                                     *)
(***************************************************************************)
EXTENDS CallRuntime, TLAPS

-----------------------------------------------------------------------------
(* Program points *)

\* Points of dial, up to the goroutine it starts.
DialPlaces == {"allocate", "build", "send", "dialfail"}

\* Points of handleInvite before and after the publication of the leg.
AdmitPlaces == {"trying100", "offer", "publish"}
RingPlaces == {"ring", "arm"}

\* Points of rejectPendingLocked, and of answer.
RejectPlaces == {"reject", "decline", "over"}
AnswerPlaces == {"prepare", "bind", "ok200", "connect"}

EndPlaces == {"cancel", "hangup", "hungup"}

WatchPlaces ==
  {"lease", "wait", "end", "fail", "trying", "ringing", "session", "answered", "rejected",
   "reliable", "prack", "ack", "acknomedia", "bye", "byefail", "activate"}

\* Points with incomingFinalMu held.
HoldPlaces == AdmitPlaces \cup RingPlaces \cup RejectPlaces \cup {"ok200", "connect"}

\* Every thread keeps to the code of its kind, with the call and the leg that code needs.
Placed ==
  /\ \A h \in Hosts : pc[h] \in {"idle"} \cup DialPlaces \cup AnswerPlaces \cup RejectPlaces
                                     \cup EndPlaces
  /\ \A x \in Handlers : pc[x] \in {"idle", "byed"} \cup AdmitPlaces \cup RingPlaces
                                        \cup RejectPlaces
  /\ \A d \in Dials : pc[d] \in {"idle", "dialing", "gone", "panicked"} \cup WatchPlaces
  /\ \A l \in Legs : pc[l] \in {"idle", "fired"} \cup RejectPlaces
  /\ \A h \in Hosts : pc[h] \in DialPlaces => call[h] \in Dials
  /\ \A x \in Handlers : pc[x] \in AdmitPlaces => call[x] \in Invites
  /\ \A t \in Threads :
       pc[t] \in RingPlaces \cup AnswerPlaces \cup {"decline", "over"} => leg[t] \in Legs

\* incomingFinalMu is held by the thread that is at one of its points.
LockHeld == \A t \in Hosts \cup Handlers \cup Legs : finalMu = t <=> pc[t] \in HoldPlaces

-----------------------------------------------------------------------------
(* Legs *)

Published(l) == legOf[l] # None

\* Nothing knows of a leg before its publication, and only its own timer, armed once,
\* starts its callback.
LegsFresh ==
  /\ incoming # None => Published(incoming)
  /\ \A t \in Threads : leg[t] # None => Published(leg[t])
  /\ \A l \in Legs :
       \/ l \in sockets \/ media = l \/ timer = l \/ l \in ticking
       \/ pc[l] # "idle" \/ log[l] # {}
       => Published(l)
  /\ \A l \in ticking : pc[l] = "idle"
  /\ \A x \in Handlers : pc[x] \in RingPlaces => leg[x] \notin ticking /\ pc[leg[x]] = "idle"

\* A pending leg is being answered by one host thread at most, which has reserved it.
AnswerReserved ==
  /\ \A h \in Hosts : pc[h] \in AnswerPlaces /\ Pending(leg[h]) => preparing
  /\ \A g, h \in Hosts :
       pc[g] \in AnswerPlaces /\ pc[h] \in AnswerPlaces /\ leg[g] = leg[h] => g = h

\* The sockets an answer allocated are open and its own until it binds them.
BindingFresh ==
  /\ incoming # None /\ media = incoming => answered
  /\ \A h \in Hosts : pc[h] \in {"prepare", "bind"} => media # leg[h]
  /\ \A h \in Hosts : pc[h] = "bind" => leg[h] \in sockets

-----------------------------------------------------------------------------
(* The call, while no watcher outlives its own *)

Established == state \in {"incoming", "connecting"} \/ (state = "active" /\ callID \in Invites)

\* The published leg is that of an incoming call that is not over.
LegCurrent ==
  /\ incoming # None <=> Established
  /\ incoming # None => legOf[incoming] = callID
  /\ \A x \in Handlers : pc[x] \in AdmitPlaces => state \in Free
  /\ \A x \in Handlers : pc[x] \in RingPlaces /\ incoming # None => Pending(leg[x])
  /\ \A h \in Hosts : pc[h] \in AnswerPlaces /\ incoming = leg[h] => state = "incoming"
  /\ \A t \in Handlers \cup Legs :
       pc[t] \in {"reject", "decline"} /\ incoming # None
         => state = "incoming" /\ (pc[t] = "decline" => incoming = leg[t])

\* The timer is that of a leg that rings.
TimerCurrent == timer # None => Pending(timer)

\* What answer has done so far is still so for the leg it answers.
AnswerCurrent ==
  /\ answered => /\ incoming # None
                 /\ state = "incoming" =>
                      \E h \in Hosts : pc[h] \in {"ok200", "connect"} /\ leg[h] = incoming
  /\ \A h \in Hosts : pc[h] \in {"ok200", "connect"} /\ incoming = leg[h]
                        => answered /\ media = incoming /\ media \in sockets
  /\ \A h \in Hosts : pc[h] = "connect" => "ok" \in log[leg[h]]
  /\ state \in {"connecting", "active"} /\ incoming # None
       => answered /\ media = incoming /\ media \in sockets /\ "ok" \in log[incoming]
  /\ state = "active" /\ incoming # None => "ACK" \in log[incoming]
  /\ incoming # None /\ state = "incoming" /\ "ok" \in log[incoming]
       => \E h \in Hosts : pc[h] = "connect" /\ leg[h] = incoming

\* An endpoint belongs to the current call or to the offer that is being admitted.
EndpointCurrent ==
  /\ state \notin Free => remoteRTP \in {None, callID}
  /\ state \in Free /\ remoteRTP # None
       => \E x \in Handlers : pc[x] = "publish" /\ call[x] = remoteRTP
  /\ \A d \in Dials : pc[d] = "dialing" => remoteRTP = None

\* A leg that was refused by a CANCEL or the timer is not answered any more; one that is
\* told busy had been acknowledged.
RefusedIsOver ==
  /\ \A t \in Handlers \cup Legs : pc[t] = "decline" => "ok" \notin log[leg[t]]
  /\ \A l \in Legs :
      /\ log[l] \cap {"timeout", "cancelled"} # {} =>
           /\ "ok" \notin log[l]
           /\ incoming = l => \E t \in Handlers \cup Legs : pc[t] = "over"
           /\ \A h \in Hosts : pc[h] = "ok200" => leg[h] # l
      /\ "busy" \in log[l] => "ACK" \in log[l]

-----------------------------------------------------------------------------
(* Dials, while no watcher outlives its call *)

\* dial has claimed the slot for its own call.
DialsClaimed ==
  /\ \A h \in Hosts : pc[h] \in DialPlaces => pc[call[h]] = "dialing"
  /\ \A g, h \in Hosts : pc[g] \in DialPlaces /\ pc[h] \in DialPlaces /\ call[g] = call[h] => g = h
  /\ \A d \in Dials : cancelFn = d \/ d \in ctxDone => pc[d] # "idle" \/ closing
  /\ \A d \in Dials : d \in ctxDone => pc[d] \in {"idle", "gone", "panicked"} \/ closing

\* What a dial has made for its call is there as long as its watcher runs.
DialWhole ==
  /\ \A h \in Hosts : pc[h] \in {"build", "send"} => media = call[h] /\ media \in sockets
  /\ \A h \in Hosts : pc[h] = "send" => invite = call[h]
  /\ \A d \in Dials : pc[d] \in WatchPlaces => invite = d /\ media = d /\ d \in sockets
  /\ \A d \in Dials : pc[d] \in {"idle", "dialing", "lease", "activate"} => ~was[d]
  /\ \A d \in Dials : pc[d] \in {"ack", "activate"} => remoteRTP = d
  /\ \A d \in Dials : pc[d] = "activate" => "ACK" \in sent[d]
  /\ state = "active" /\ callID \in Dials =>
       media = callID /\ media \in sockets /\ remoteRTP = callID /\ "ACK" \in sent[callID]

-----------------------------------------------------------------------------
TypeInv == TypeOK /\ Placed /\ LockHeld
LegInv == LegsFresh /\ AnswerReserved /\ BindingFresh
CallInv ==
  /\ LegCurrent /\ TimerCurrent /\ RingingIsTimed
  /\ AnswerCurrent /\ EndpointCurrent /\ RefusedIsOver
DialInv == DialsClaimed /\ DialWhole /\ RacedAnswerReleased

-----------------------------------------------------------------------------
(* Watchers *)

\* Whoever is admitting, refusing or answering an INVITE does so with no dial under way.
HoldFree ==
  \A t \in Hosts \cup Handlers \cup Legs :
     pc[t] \in HoldPlaces \ {"reject"} => state \notin {"outgoing", "early", "cancelling"}

\* A finish that does not look at the call it ends is that of an established dial.
EndsOwn ==
  /\ \A x \in Handlers : pc[x] # "byed"
  /\ \A h \in Hosts : pc[h] \in EndPlaces => h \in Enders
  /\ \A h \in Hosts : pc[h] \in {"hangup", "hungup"} => state = "active"

\* Workloads in which no finish comes for a call that is over: incoming calls only;
\* or no hangup and no BYE; or outgoing calls only, one hangup at a time whose CANCEL
\* can be written, and no BYE.
Undisturbed ==
  \/ Dials = {}
  \/ Enders = {} /\ ByeCalls = {}
  \/ /\ Invites = {} /\ ByeCalls = {} /\ "cancel" \notin Unreliable
     /\ \A g, h \in Enders : g = h

CallSafe == CallInv /\ DialInv
Guarded == HoldFree /\ (Dials = {} \/ EndsOwn)

-----------------------------------------------------------------------------
(* Types, places and the lock *)

\* The runtime starts with no call and every thread idle.
LEMMA TypeInit == Init => TypeOK
<1> SUFFICES ASSUME Init PROVE TypeOK
  OBVIOUS
<1>1. CallTyped /\ FlagsTyped
  BY DEF Init, CallTyped, FlagsTyped
<1>2. ThreadsTyped /\ WireTyped
  BY DEF Init, ThreadsTyped, WireTyped, Places
<1> QED
  BY <1>1, <1>2 DEF TypeOK

\* An idle thread is in place, and nobody holds the lock.
LEMMA PlacedInit == Init => Placed /\ LockHeld
BY CallAssumption DEF Init, Placed, LockHeld, Threads, DialPlaces, AdmitPlaces, RingPlaces,
  RejectPlaces, AnswerPlaces, EndPlaces, WatchPlaces, HoldPlaces

\* Every step keeps the flags Boolean.
LEMMA FlagsStep ==
  ASSUME FlagsTyped, [Next]_vars
  PROVE  FlagsTyped'
<1> USE DEF FlagsTyped, inboundVars, outboundVars, callVars
<1>1. ASSUME NEW d \in Dials,
             WatchLease(d) \/ WatchDone(d) \/ WatchTimeout(d) \/ WatchReceive(d) \/
             WatchTrying(d) \/ WatchSession(d) \/ WatchProvisional(d) \/ WatchPrack(d) \/
             WatchAnswer(d) \/ WatchAck(d) \/ WatchBye(d) \/ WatchActivate(d) \/
             WatchReject(d) \/ WatchFinish(d)
      PROVE FlagsTyped'
  BY <1>1, Zenon
  DEF WatchLease, WatchDone, WatchTimeout, WatchReceive, WatchTrying, WatchSession,
      WatchProvisional, WatchPrack, WatchAnswer, WatchAck, WatchBye, WatchActivate,
      WatchReject, WatchFinish, Finish
<1>2. ASSUME NEW x \in Handlers, NEW i \in Invites,
             InviteRepeat(x, i) \/ InviteBusy(x, i) \/ InviteNew(x, i) \/ HandleAck(x, i) \/
             HandleCancel(x, i)
      PROVE FlagsTyped'
  BY <1>2, Zenon
  DEF InviteRepeat, InviteBusy, InviteNew, HandleAck, HandleCancel
<1>3. ASSUME NEW x \in Handlers, NEW c \in ByeCalls, HandleBye(x, c) PROVE FlagsTyped'
  BY <1>3, Zenon
  DEF HandleBye
<1>4. ASSUME NEW x \in Handlers,
             InviteTrying(x) \/ InviteOffer(x) \/ InvitePublish(x) \/ InviteRing(x) \/
             InviteArm(x) \/ HandleByeFinish(x)
      PROVE FlagsTyped'
  BY <1>4, Zenon
  DEF InviteTrying, InviteOffer, InvitePublish, InviteRing, InviteArm, HandleByeFinish,
      Finish
<1>5. ASSUME NEW t \in Hosts \cup Handlers \cup Legs,
             RejectRead(t) \/ RejectSend(t) \/ RejectFinish(t)
      PROVE FlagsTyped'
  BY <1>5, Zenon
  DEF RejectRead, RejectSend, RejectFinish, Finish
<1>6. ASSUME NEW h \in Hosts, NEW d \in Dials, DialClaim(h, d) PROVE FlagsTyped'
  BY <1>6, Zenon
  DEF DialClaim
<1>7. ASSUME NEW h \in Hosts,
             DialAllocate(h) \/ DialBuild(h) \/ DialSend(h) \/ DialFail(h)
      PROVE FlagsTyped'
  BY <1>7, Zenon
  DEF DialAllocate, DialBuild, DialSend, DialFail
<1>8. ASSUME NEW h \in Hosts, AnswerReserve(h) PROVE FlagsTyped'
  BY <1>8, Zenon
  DEF AnswerReserve
<1>9. ASSUME NEW h \in Hosts, AnswerAllocate(h) PROVE FlagsTyped'
  BY <1>9, Zenon
  DEF AnswerAllocate
<1>10. ASSUME NEW h \in Hosts, AnswerBind(h) PROVE FlagsTyped'
  BY <1>10, Zenon
  DEF AnswerBind
<1>11. ASSUME NEW h \in Hosts, AnswerSend(h) PROVE FlagsTyped'
  BY <1>11, Zenon
  DEF AnswerSend, Finish
<1>12. ASSUME NEW h \in Hosts, AnswerCommit(h) PROVE FlagsTyped'
  BY <1>12, Zenon
  DEF AnswerCommit
<1>13. ASSUME NEW h \in Hosts,
              Reject(h) \/ Hangup(h) \/ HangupCancel(h) \/ HangupBye(h) \/ HangupFinish(h)
       PROVE FlagsTyped'
  BY <1>13, Zenon
  DEF Reject, Hangup, HangupCancel, HangupBye, HangupFinish, Finish
<1>14. ASSUME NEW l \in Legs, TimerFire(l) \/ Expire(l) PROVE FlagsTyped'
  BY <1>14, Zenon
  DEF TimerFire, Expire
<1>15. CASE CloseCancel
  BY <1>15, Zenon
  DEF CloseCancel
<1>16. CASE Close
  BY <1>16, Zenon
  DEF Close, Finish
<1>17. CASE UNCHANGED vars
  BY <1>17 DEF vars, callVars, inboundVars, outboundVars, mediaVars, threadVars, wireVars
<1> HIDE DEF FlagsTyped
<1> QED
  BY <1>1, <1>2, <1>3, <1>4, <1>5, <1>6, <1>7, <1>8, <1>9, <1>10, <1>11, <1>12, <1>13,
     <1>14, <1>15, <1>16, <1>17
  DEF Next, WatchNext, HandlerBegin, HandlerStep, HostBegin, HostStep, TimerNext

\* Every step keeps the types of the call, its media and its timer.
LEMMA CallStep ==
  ASSUME TypeOK, Placed, [Next]_vars
  PROVE  CallTyped'
<1> USE DEF TypeOK, CallTyped, ThreadsTyped, WireTyped, Placed, Threads, Hosts, Calls,
      DialPlaces, AdmitPlaces, RingPlaces, AnswerPlaces, Goto, Return, inboundVars,
      outboundVars, mediaVars, callVars
<1>1. ASSUME NEW d \in Dials,
             WatchLease(d) \/ WatchDone(d) \/ WatchTimeout(d) \/ WatchReceive(d) \/
             WatchTrying(d) \/ WatchSession(d) \/ WatchProvisional(d) \/ WatchPrack(d) \/
             WatchAnswer(d) \/ WatchAck(d) \/ WatchBye(d) \/ WatchActivate(d) \/
             WatchReject(d) \/ WatchFinish(d)
      PROVE CallTyped'
  BY <1>1
  DEF WatchLease, WatchDone, WatchTimeout, WatchReceive, WatchTrying, WatchSession,
      WatchProvisional, WatchPrack, WatchAnswer, WatchAck, WatchBye, WatchActivate,
      WatchReject, WatchFinish, Finish
<1>2. ASSUME NEW x \in Handlers, NEW i \in Invites,
             InviteRepeat(x, i) \/ InviteBusy(x, i) \/ InviteNew(x, i) \/ HandleAck(x, i) \/
             HandleCancel(x, i)
      PROVE CallTyped'
  BY <1>2
  DEF InviteRepeat, InviteBusy, InviteNew, HandleAck, HandleCancel
<1>3. ASSUME NEW x \in Handlers, NEW c \in ByeCalls, HandleBye(x, c) PROVE CallTyped'
  BY <1>3
  DEF HandleBye
<1>4. ASSUME NEW x \in Handlers,
             InviteTrying(x) \/ InviteOffer(x) \/ InvitePublish(x) \/ InviteRing(x) \/
             InviteArm(x) \/ HandleByeFinish(x)
      PROVE CallTyped'
  BY <1>4
  DEF InviteTrying, InviteOffer, InvitePublish, InviteRing, InviteArm, HandleByeFinish,
      Finish
<1>5. ASSUME NEW t \in Hosts \cup Handlers \cup Legs,
             RejectRead(t) \/ RejectSend(t) \/ RejectFinish(t)
      PROVE CallTyped'
  BY <1>5
  DEF RejectRead, RejectSend, RejectFinish, Finish
<1>6. ASSUME NEW h \in Hosts, NEW d \in Dials, DialClaim(h, d) PROVE CallTyped'
  BY <1>6
  DEF DialClaim
<1>7. ASSUME NEW h \in Hosts,
             DialAllocate(h) \/ DialBuild(h) \/ DialSend(h) \/ DialFail(h)
      PROVE CallTyped'
  BY <1>7
  DEF DialAllocate, DialBuild, DialSend, DialFail
<1>8. ASSUME NEW h \in Hosts, AnswerReserve(h) PROVE CallTyped'
  BY <1>8
  DEF AnswerReserve
<1>9. ASSUME NEW h \in Hosts, AnswerAllocate(h) PROVE CallTyped'
  BY <1>9
  DEF AnswerAllocate
<1>10. ASSUME NEW h \in Hosts, AnswerBind(h) PROVE CallTyped'
  BY <1>10
  DEF AnswerBind
<1>11. ASSUME NEW h \in Hosts, AnswerSend(h) PROVE CallTyped'
  BY <1>11
  DEF AnswerSend, Finish
<1>12. ASSUME NEW h \in Hosts, AnswerCommit(h) PROVE CallTyped'
  BY <1>12
  DEF AnswerCommit
<1>13. ASSUME NEW h \in Hosts,
              Reject(h) \/ Hangup(h) \/ HangupCancel(h) \/ HangupBye(h) \/ HangupFinish(h)
       PROVE CallTyped'
  BY <1>13
  DEF Reject, Hangup, HangupCancel, HangupBye, HangupFinish, Finish
<1>14. ASSUME NEW l \in Legs, TimerFire(l) \/ Expire(l) PROVE CallTyped'
  BY <1>14
  DEF TimerFire, Expire
<1>15. CASE CloseCancel
  BY <1>15
  DEF CloseCancel
<1>16. CASE Close
  BY <1>16
  DEF Close, Finish
<1>17. CASE UNCHANGED vars
  BY <1>17 DEF vars, callVars, inboundVars, outboundVars, mediaVars, threadVars, wireVars
<1> HIDE DEF CallTyped
<1> QED
  BY <1>1, <1>2, <1>3, <1>4, <1>5, <1>6, <1>7, <1>8, <1>9, <1>10, <1>11, <1>12, <1>13,
     <1>14, <1>15, <1>16, <1>17
  DEF Next, WatchNext, HandlerBegin, HandlerStep, HostBegin, HostStep, TimerNext

\* Every step keeps the types of the threads and of the lock.
LEMMA ThreadsStep ==
  ASSUME TypeOK, Placed, [Next]_vars
  PROVE  ThreadsTyped'
<1> USE DEF TypeOK, CallTyped, FlagsTyped, ThreadsTyped, Placed, Threads, Places, Hosts,
      Calls, Goto, Return, threadVars
<1>1. ASSUME NEW d \in Dials,
             WatchLease(d) \/ WatchDone(d) \/ WatchTimeout(d) \/ WatchReceive(d) \/
             WatchTrying(d) \/ WatchSession(d) \/ WatchProvisional(d) \/ WatchPrack(d) \/
             WatchAnswer(d) \/ WatchAck(d) \/ WatchBye(d) \/ WatchActivate(d) \/
             WatchReject(d) \/ WatchFinish(d)
      PROVE ThreadsTyped'
  BY <1>1
  DEF WatchLease, WatchDone, WatchTimeout, WatchReceive, WatchTrying, WatchSession,
      WatchProvisional, WatchPrack, WatchAnswer, WatchAck, WatchBye, WatchActivate,
      WatchReject, WatchFinish, Finish
<1>2. ASSUME NEW x \in Handlers, NEW i \in Invites,
             InviteRepeat(x, i) \/ InviteBusy(x, i) \/ InviteNew(x, i) \/ HandleAck(x, i) \/
             HandleCancel(x, i)
      PROVE ThreadsTyped'
  BY <1>2
  DEF InviteRepeat, InviteBusy, InviteNew, HandleAck, HandleCancel
<1>3. ASSUME NEW x \in Handlers, NEW c \in ByeCalls, HandleBye(x, c) PROVE ThreadsTyped'
  BY <1>3
  DEF HandleBye
<1>4. ASSUME NEW x \in Handlers,
             InviteTrying(x) \/ InviteOffer(x) \/ InvitePublish(x) \/ InviteRing(x) \/
             InviteArm(x) \/ HandleByeFinish(x)
      PROVE ThreadsTyped'
  BY <1>4
  DEF InviteTrying, InviteOffer, InvitePublish, InviteRing, InviteArm, HandleByeFinish,
      Finish
<1>5. ASSUME NEW t \in Hosts \cup Handlers \cup Legs,
             RejectRead(t) \/ RejectSend(t) \/ RejectFinish(t)
      PROVE ThreadsTyped'
  BY <1>5
  DEF RejectRead, RejectSend, RejectFinish, Finish
<1>6. ASSUME NEW h \in Hosts, NEW d \in Dials, DialClaim(h, d) PROVE ThreadsTyped'
  BY <1>6
  DEF DialClaim
<1>7. ASSUME NEW h \in Hosts,
             DialAllocate(h) \/ DialBuild(h) \/ DialSend(h) \/ DialFail(h)
      PROVE ThreadsTyped'
  BY <1>7
  DEF DialAllocate, DialBuild, DialSend, DialFail
<1>8. ASSUME NEW h \in Hosts, AnswerReserve(h) PROVE ThreadsTyped'
  BY <1>8
  DEF AnswerReserve
<1>9. ASSUME NEW h \in Hosts, AnswerAllocate(h) PROVE ThreadsTyped'
  BY <1>9
  DEF AnswerAllocate
<1>10. ASSUME NEW h \in Hosts, AnswerBind(h) PROVE ThreadsTyped'
  BY <1>10
  DEF AnswerBind
<1>11. ASSUME NEW h \in Hosts, AnswerSend(h) PROVE ThreadsTyped'
  BY <1>11
  DEF AnswerSend, Finish
<1>12. ASSUME NEW h \in Hosts, AnswerCommit(h) PROVE ThreadsTyped'
  BY <1>12
  DEF AnswerCommit
<1>13. ASSUME NEW h \in Hosts,
              Reject(h) \/ Hangup(h) \/ HangupCancel(h) \/ HangupBye(h) \/ HangupFinish(h)
       PROVE ThreadsTyped'
  BY <1>13
  DEF Reject, Hangup, HangupCancel, HangupBye, HangupFinish, Finish
<1>14. ASSUME NEW l \in Legs, TimerFire(l) \/ Expire(l) PROVE ThreadsTyped'
  BY <1>14
  DEF TimerFire, Expire
<1>15. CASE CloseCancel
  BY <1>15
  DEF CloseCancel
<1>16. CASE Close
  BY <1>16
  DEF Close, Finish
<1>17. CASE UNCHANGED vars
  BY <1>17 DEF vars, callVars, inboundVars, outboundVars, mediaVars, threadVars, wireVars
<1> HIDE DEF ThreadsTyped
<1> QED
  BY <1>1, <1>2, <1>3, <1>4, <1>5, <1>6, <1>7, <1>8, <1>9, <1>10, <1>11, <1>12, <1>13,
     <1>14, <1>15, <1>16, <1>17
  DEF Next, WatchNext, HandlerBegin, HandlerStep, HostBegin, HostStep, TimerNext

\* Every step keeps the types of what was sent.
LEMMA WireStep ==
  ASSUME TypeOK, Placed, [Next]_vars
  PROVE  WireTyped'
<1> USE DEF TypeOK, CallTyped, ThreadsTyped, WireTyped, Placed, Threads, Hosts, Calls,
      AdmitPlaces, Respond, Send, Code, wireVars
<1>1. ASSUME NEW d \in Dials,
             WatchLease(d) \/ WatchDone(d) \/ WatchTimeout(d) \/ WatchReceive(d) \/
             WatchTrying(d) \/ WatchSession(d) \/ WatchProvisional(d) \/ WatchPrack(d) \/
             WatchAnswer(d) \/ WatchAck(d) \/ WatchBye(d) \/ WatchActivate(d) \/
             WatchReject(d) \/ WatchFinish(d)
      PROVE WireTyped'
  BY <1>1
  DEF WatchLease, WatchDone, WatchTimeout, WatchReceive, WatchTrying, WatchSession,
      WatchProvisional, WatchPrack, WatchAnswer, WatchAck, WatchBye, WatchActivate,
      WatchReject, WatchFinish, Finish
<1>2. ASSUME NEW x \in Handlers, NEW i \in Invites,
             InviteRepeat(x, i) \/ InviteBusy(x, i) \/ InviteNew(x, i) \/ HandleAck(x, i) \/
             HandleCancel(x, i)
      PROVE WireTyped'
  BY <1>2
  DEF InviteRepeat, InviteBusy, InviteNew, HandleAck, HandleCancel
<1>3. ASSUME NEW x \in Handlers, NEW c \in ByeCalls, HandleBye(x, c) PROVE WireTyped'
  BY <1>3
  DEF HandleBye
<1>4. ASSUME NEW x \in Handlers,
             InviteTrying(x) \/ InviteOffer(x) \/ InvitePublish(x) \/ InviteRing(x) \/
             InviteArm(x) \/ HandleByeFinish(x)
      PROVE WireTyped'
  BY <1>4
  DEF InviteTrying, InviteOffer, InvitePublish, InviteRing, InviteArm, HandleByeFinish,
      Finish
<1>5. ASSUME NEW t \in Hosts \cup Handlers \cup Legs,
             RejectRead(t) \/ RejectSend(t) \/ RejectFinish(t)
      PROVE WireTyped'
  BY <1>5
  DEF RejectRead, RejectSend, RejectFinish, Finish
<1>6. ASSUME NEW h \in Hosts, NEW d \in Dials, DialClaim(h, d) PROVE WireTyped'
  BY <1>6
  DEF DialClaim
<1>7. ASSUME NEW h \in Hosts,
             DialAllocate(h) \/ DialBuild(h) \/ DialSend(h) \/ DialFail(h)
      PROVE WireTyped'
  BY <1>7
  DEF DialAllocate, DialBuild, DialSend, DialFail
<1>8. ASSUME NEW h \in Hosts, AnswerReserve(h) PROVE WireTyped'
  BY <1>8
  DEF AnswerReserve
<1>9. ASSUME NEW h \in Hosts, AnswerAllocate(h) PROVE WireTyped'
  BY <1>9
  DEF AnswerAllocate
<1>10. ASSUME NEW h \in Hosts, AnswerBind(h) PROVE WireTyped'
  BY <1>10
  DEF AnswerBind
<1>11. ASSUME NEW h \in Hosts, AnswerSend(h) PROVE WireTyped'
  BY <1>11
  DEF AnswerSend, Finish
<1>12. ASSUME NEW h \in Hosts, AnswerCommit(h) PROVE WireTyped'
  BY <1>12
  DEF AnswerCommit
<1>13. ASSUME NEW h \in Hosts,
              Reject(h) \/ Hangup(h) \/ HangupCancel(h) \/ HangupBye(h) \/ HangupFinish(h)
       PROVE WireTyped'
  BY <1>13
  DEF Reject, Hangup, HangupCancel, HangupBye, HangupFinish, Finish
<1>14. ASSUME NEW l \in Legs, TimerFire(l) \/ Expire(l) PROVE WireTyped'
  BY <1>14
  DEF TimerFire, Expire
<1>15. CASE CloseCancel
  BY <1>15
  DEF CloseCancel
<1>16. CASE Close
  BY <1>16
  DEF Close, Finish
<1>17. CASE UNCHANGED vars
  BY <1>17 DEF vars, callVars, inboundVars, outboundVars, mediaVars, threadVars, wireVars
<1> HIDE DEF WireTyped
<1> QED
  BY <1>1, <1>2, <1>3, <1>4, <1>5, <1>6, <1>7, <1>8, <1>9, <1>10, <1>11, <1>12, <1>13,
     <1>14, <1>15, <1>16, <1>17
  DEF Next, WatchNext, HandlerBegin, HandlerStep, HostBegin, HostStep, TimerNext

-----------------------------------------------------------------------------
(* Steps: Legs and sockets *)

\* Every thread stays in the code of its kind.
LEMMA PlacedStep ==
  ASSUME TypeOK, Placed, [Next]_vars
  PROVE  Placed'
<1> USE CallAssumption DEF TypeOK, CallTyped, ThreadsTyped, Placed, Threads, Hosts, Calls,
      Goto, Return, threadVars, DialPlaces, AdmitPlaces, RingPlaces, RejectPlaces,
      AnswerPlaces, EndPlaces, WatchPlaces
<1>1. ASSUME NEW d \in Dials,
             WatchLease(d) \/ WatchDone(d) \/ WatchTimeout(d) \/ WatchReceive(d) \/
             WatchTrying(d) \/ WatchSession(d) \/ WatchProvisional(d) \/ WatchPrack(d) \/
             WatchAnswer(d) \/ WatchAck(d) \/ WatchBye(d) \/ WatchActivate(d) \/
             WatchReject(d) \/ WatchFinish(d)
      PROVE Placed'
  BY <1>1
  DEF WatchLease, WatchDone, WatchTimeout, WatchReceive, WatchTrying, WatchSession,
      WatchProvisional, WatchPrack, WatchAnswer, WatchAck, WatchBye, WatchActivate,
      WatchReject, WatchFinish, Finish
<1>2. ASSUME NEW x \in Handlers, NEW i \in Invites,
             InviteRepeat(x, i) \/ InviteBusy(x, i) \/ InviteNew(x, i) \/ HandleAck(x, i) \/
             HandleCancel(x, i)
      PROVE Placed'
  BY <1>2
  DEF InviteRepeat, InviteBusy, InviteNew, HandleAck, HandleCancel
<1>3. ASSUME NEW x \in Handlers, NEW c \in ByeCalls, HandleBye(x, c) PROVE Placed'
  BY <1>3
  DEF HandleBye
<1>4. ASSUME NEW x \in Handlers,
             InviteTrying(x) \/ InviteOffer(x) \/ InvitePublish(x) \/ InviteRing(x) \/
             InviteArm(x) \/ HandleByeFinish(x)
      PROVE Placed'
  BY <1>4
  DEF InviteTrying, InviteOffer, InvitePublish, InviteRing, InviteArm, HandleByeFinish,
      Finish
<1>5. ASSUME NEW t \in Hosts \cup Handlers \cup Legs,
             RejectRead(t) \/ RejectSend(t) \/ RejectFinish(t)
      PROVE Placed'
  BY <1>5
  DEF RejectRead, RejectSend, RejectFinish, Finish
<1>6. ASSUME NEW h \in Hosts, NEW d \in Dials, DialClaim(h, d) PROVE Placed'
  BY <1>6
  DEF DialClaim
<1>7. ASSUME NEW h \in Hosts,
             DialAllocate(h) \/ DialBuild(h) \/ DialSend(h) \/ DialFail(h)
      PROVE Placed'
  BY <1>7
  DEF DialAllocate, DialBuild, DialSend, DialFail
<1>8. ASSUME NEW h \in Hosts, AnswerReserve(h) PROVE Placed'
  BY <1>8
  DEF AnswerReserve
<1>9. ASSUME NEW h \in Hosts, AnswerAllocate(h) PROVE Placed'
  BY <1>9
  DEF AnswerAllocate
<1>10. ASSUME NEW h \in Hosts, AnswerBind(h) PROVE Placed'
  BY <1>10
  DEF AnswerBind
<1>11. ASSUME NEW h \in Hosts, AnswerSend(h) PROVE Placed'
  BY <1>11
  DEF AnswerSend, Finish
<1>12. ASSUME NEW h \in Hosts, AnswerCommit(h) PROVE Placed'
  BY <1>12
  DEF AnswerCommit
<1>13. ASSUME NEW h \in Hosts,
              Reject(h) \/ Hangup(h) \/ HangupCancel(h) \/ HangupBye(h) \/ HangupFinish(h)
       PROVE Placed'
  BY <1>13
  DEF Reject, Hangup, HangupCancel, HangupBye, HangupFinish, Finish
<1>14. ASSUME NEW l \in Legs, TimerFire(l) \/ Expire(l) PROVE Placed'
  BY <1>14
  DEF TimerFire, Expire
<1>15. CASE CloseCancel
  BY <1>15
  DEF CloseCancel
<1>16. CASE Close
  BY <1>16
  DEF Close, Finish
<1>17. CASE UNCHANGED vars
  BY <1>17 DEF vars, callVars, inboundVars, outboundVars, mediaVars, threadVars, wireVars
<1> HIDE DEF Placed
<1> QED
  BY <1>1, <1>2, <1>3, <1>4, <1>5, <1>6, <1>7, <1>8, <1>9, <1>10, <1>11, <1>12, <1>13,
     <1>14, <1>15, <1>16, <1>17
  DEF Next, WatchNext, HandlerBegin, HandlerStep, HostBegin, HostStep, TimerNext

\* incomingFinalMu is taken and let go of with the critical sections it protects.
LEMMA LockStep ==
  ASSUME TypeOK, Placed, LegsFresh, LockHeld, [Next]_vars
  PROVE  LockHeld'
<1> USE CallAssumption DEF TypeOK, CallTyped, ThreadsTyped, Placed, Threads, Hosts, Calls,
      Goto, Return, threadVars, DialPlaces, AdmitPlaces, RingPlaces, RejectPlaces,
      AnswerPlaces, EndPlaces, WatchPlaces, LockHeld, HoldPlaces, LegsFresh
<1>1. ASSUME NEW d \in Dials,
             WatchLease(d) \/ WatchDone(d) \/ WatchTimeout(d) \/ WatchReceive(d) \/
             WatchTrying(d) \/ WatchSession(d) \/ WatchProvisional(d) \/ WatchPrack(d) \/
             WatchAnswer(d) \/ WatchAck(d) \/ WatchBye(d) \/ WatchActivate(d) \/
             WatchReject(d) \/ WatchFinish(d)
      PROVE LockHeld'
  BY <1>1
  DEF WatchLease, WatchDone, WatchTimeout, WatchReceive, WatchTrying, WatchSession,
      WatchProvisional, WatchPrack, WatchAnswer, WatchAck, WatchBye, WatchActivate,
      WatchReject, WatchFinish, Finish
<1>2. ASSUME NEW x \in Handlers, NEW i \in Invites,
             InviteRepeat(x, i) \/ InviteBusy(x, i) \/ InviteNew(x, i) \/ HandleAck(x, i) \/
             HandleCancel(x, i)
      PROVE LockHeld'
  BY <1>2
  DEF InviteRepeat, InviteBusy, InviteNew, HandleAck, HandleCancel
<1>3. ASSUME NEW x \in Handlers, NEW c \in ByeCalls, HandleBye(x, c) PROVE LockHeld'
  BY <1>3
  DEF HandleBye
<1>4. ASSUME NEW x \in Handlers,
             InviteTrying(x) \/ InviteOffer(x) \/ InvitePublish(x) \/ InviteRing(x) \/
             InviteArm(x) \/ HandleByeFinish(x)
      PROVE LockHeld'
  BY <1>4
  DEF InviteTrying, InviteOffer, InvitePublish, InviteRing, InviteArm, HandleByeFinish,
      Finish
<1>5. ASSUME NEW t \in Hosts \cup Handlers \cup Legs,
             RejectRead(t) \/ RejectSend(t) \/ RejectFinish(t)
      PROVE LockHeld'
  BY <1>5
  DEF RejectRead, RejectSend, RejectFinish, Finish
<1>6. ASSUME NEW h \in Hosts, NEW d \in Dials, DialClaim(h, d) PROVE LockHeld'
  BY <1>6
  DEF DialClaim
<1>7. ASSUME NEW h \in Hosts,
             DialAllocate(h) \/ DialBuild(h) \/ DialSend(h) \/ DialFail(h)
      PROVE LockHeld'
  BY <1>7
  DEF DialAllocate, DialBuild, DialSend, DialFail
<1>8. ASSUME NEW h \in Hosts, AnswerReserve(h) PROVE LockHeld'
  BY <1>8
  DEF AnswerReserve
<1>9. ASSUME NEW h \in Hosts, AnswerAllocate(h) PROVE LockHeld'
  BY <1>9
  DEF AnswerAllocate
<1>10. ASSUME NEW h \in Hosts, AnswerBind(h) PROVE LockHeld'
  BY <1>10
  DEF AnswerBind
<1>11. ASSUME NEW h \in Hosts, AnswerSend(h) PROVE LockHeld'
  BY <1>11
  DEF AnswerSend, Finish
<1>12. ASSUME NEW h \in Hosts, AnswerCommit(h) PROVE LockHeld'
  BY <1>12
  DEF AnswerCommit
<1>13. ASSUME NEW h \in Hosts,
              Reject(h) \/ Hangup(h) \/ HangupCancel(h) \/ HangupBye(h) \/ HangupFinish(h)
       PROVE LockHeld'
  BY <1>13
  DEF Reject, Hangup, HangupCancel, HangupBye, HangupFinish, Finish
<1>14. ASSUME NEW l \in Legs, TimerFire(l) \/ Expire(l) PROVE LockHeld'
  BY <1>14
  DEF TimerFire, Expire
<1>15. CASE CloseCancel
  BY <1>15
  DEF CloseCancel
<1>16. CASE Close
  BY <1>16
  DEF Close, Finish
<1>17. CASE UNCHANGED vars
  BY <1>17 DEF vars, callVars, inboundVars, outboundVars, mediaVars, threadVars, wireVars
<1> HIDE DEF LockHeld
<1> QED
  BY <1>1, <1>2, <1>3, <1>4, <1>5, <1>6, <1>7, <1>8, <1>9, <1>10, <1>11, <1>12, <1>13,
     <1>14, <1>15, <1>16, <1>17
  DEF Next, WatchNext, HandlerBegin, HandlerStep, HostBegin, HostStep, TimerNext

\* A leg is known only after its publication, and its timer is armed once.
LEMMA FreshStep ==
  ASSUME TypeOK, Placed, LockHeld, LegsFresh, [Next]_vars
  PROVE  LegsFresh'
<1> USE CallAssumption DEF TypeOK, CallTyped, ThreadsTyped, WireTyped, Respond, Send,
      Published, inboundVars, outboundVars, mediaVars, callVars, wireVars, Placed, Threads,
      Hosts, Calls, Goto, Return, threadVars, DialPlaces, AdmitPlaces, RingPlaces,
      RejectPlaces, AnswerPlaces, EndPlaces, WatchPlaces, LegsFresh, LockHeld, HoldPlaces
<1>1. ASSUME NEW d \in Dials,
             WatchLease(d) \/ WatchDone(d) \/ WatchTimeout(d) \/ WatchReceive(d) \/
             WatchTrying(d) \/ WatchSession(d) \/ WatchProvisional(d) \/ WatchPrack(d) \/
             WatchAnswer(d) \/ WatchAck(d) \/ WatchBye(d) \/ WatchActivate(d) \/
             WatchReject(d) \/ WatchFinish(d)
      PROVE LegsFresh'
  BY <1>1
  DEF WatchLease, WatchDone, WatchTimeout, WatchReceive, WatchTrying, WatchSession,
      WatchProvisional, WatchPrack, WatchAnswer, WatchAck, WatchBye, WatchActivate,
      WatchReject, WatchFinish, Finish
<1>2. ASSUME NEW x \in Handlers, NEW i \in Invites,
             InviteRepeat(x, i) \/ InviteBusy(x, i) \/ InviteNew(x, i) \/ HandleAck(x, i) \/
             HandleCancel(x, i)
      PROVE LegsFresh'
  BY <1>2
  DEF InviteRepeat, InviteBusy, InviteNew, HandleAck, HandleCancel
<1>3. ASSUME NEW x \in Handlers, NEW c \in ByeCalls, HandleBye(x, c) PROVE LegsFresh'
  BY <1>3
  DEF HandleBye
<1>4. ASSUME NEW x \in Handlers, InviteTrying(x) PROVE LegsFresh'
  BY <1>4
  DEF InviteTrying, Finish
<1>5. ASSUME NEW x \in Handlers, InviteOffer(x) PROVE LegsFresh'
  BY <1>5
  DEF InviteOffer
<1>6. ASSUME NEW x \in Handlers, InvitePublish(x) PROVE LegsFresh'
  BY <1>6
  DEF InvitePublish
<1>7. ASSUME NEW x \in Handlers, InviteRing(x) PROVE LegsFresh'
  BY <1>7
  DEF InviteRing, Finish
<1>8. ASSUME NEW x \in Handlers, InviteArm(x) PROVE LegsFresh'
  BY <1>8
  DEF InviteArm
<1>9. ASSUME NEW x \in Handlers, HandleByeFinish(x) PROVE LegsFresh'
  BY <1>9
  DEF HandleByeFinish, Finish
<1>10. ASSUME NEW t \in Hosts \cup Handlers \cup Legs,
              RejectRead(t) \/ RejectSend(t) \/ RejectFinish(t)
       PROVE LegsFresh'
  BY <1>10
  DEF RejectRead, RejectSend, RejectFinish, Finish
<1>11. ASSUME NEW h \in Hosts, NEW d \in Dials, DialClaim(h, d) PROVE LegsFresh'
  BY <1>11
  DEF DialClaim
<1>12. ASSUME NEW h \in Hosts,
              DialAllocate(h) \/ DialBuild(h) \/ DialSend(h) \/ DialFail(h)
       PROVE LegsFresh'
  BY <1>12
  DEF DialAllocate, DialBuild, DialSend, DialFail
<1>13. ASSUME NEW h \in Hosts, AnswerReserve(h) PROVE LegsFresh'
  BY <1>13
  DEF AnswerReserve
<1>14. ASSUME NEW h \in Hosts, AnswerAllocate(h) PROVE LegsFresh'
  BY <1>14
  DEF AnswerAllocate
<1>15. ASSUME NEW h \in Hosts, AnswerBind(h) PROVE LegsFresh'
  BY <1>15
  DEF AnswerBind
<1>16. ASSUME NEW h \in Hosts, AnswerSend(h) PROVE LegsFresh'
  BY <1>16
  DEF AnswerSend, Finish
<1>17. ASSUME NEW h \in Hosts, AnswerCommit(h) PROVE LegsFresh'
  BY <1>17
  DEF AnswerCommit
<1>18. ASSUME NEW h \in Hosts,
              Reject(h) \/ Hangup(h) \/ HangupCancel(h) \/ HangupBye(h) \/ HangupFinish(h)
       PROVE LegsFresh'
  BY <1>18
  DEF Reject, Hangup, HangupCancel, HangupBye, HangupFinish, Finish
<1>19. ASSUME NEW l \in Legs, TimerFire(l) \/ Expire(l) PROVE LegsFresh'
  BY <1>19
  DEF TimerFire, Expire
<1>20. CASE CloseCancel
  BY <1>20
  DEF CloseCancel
<1>21. CASE Close
  BY <1>21
  DEF Close, Finish
<1>22. CASE UNCHANGED vars
  BY <1>22 DEF vars, callVars, inboundVars, outboundVars, mediaVars, threadVars, wireVars
<1> HIDE DEF LegsFresh
<1> QED
  BY <1>1, <1>2, <1>3, <1>4, <1>5, <1>6, <1>7, <1>8, <1>9, <1>10, <1>11, <1>12, <1>13,
     <1>14, <1>15, <1>16, <1>17, <1>18, <1>19, <1>20, <1>21, <1>22
  DEF Next, WatchNext, HandlerBegin, HandlerStep, HostBegin, HostStep, TimerNext

\* A pending leg is reserved by the one thread that answers it.
LEMMA ReservedStep ==
  ASSUME TypeOK, Placed, LegsFresh, AnswerReserved, [Next]_vars
  PROVE  AnswerReserved'
<1> USE CallAssumption DEF TypeOK, CallTyped, ThreadsTyped, WireTyped, Respond, Send,
      Published, inboundVars, outboundVars, mediaVars, callVars, wireVars, Placed, Threads,
      Hosts, Calls, Goto, Return, threadVars, DialPlaces, AdmitPlaces, RingPlaces,
      RejectPlaces, AnswerPlaces, EndPlaces, WatchPlaces, AnswerReserved, Pending, LegsFresh
<1>1. ASSUME NEW d \in Dials,
             WatchLease(d) \/ WatchDone(d) \/ WatchTimeout(d) \/ WatchReceive(d) \/
             WatchTrying(d) \/ WatchSession(d) \/ WatchProvisional(d) \/ WatchPrack(d) \/
             WatchAnswer(d) \/ WatchAck(d) \/ WatchBye(d) \/ WatchActivate(d) \/
             WatchReject(d) \/ WatchFinish(d)
      PROVE AnswerReserved'
  BY <1>1
  DEF WatchLease, WatchDone, WatchTimeout, WatchReceive, WatchTrying, WatchSession,
      WatchProvisional, WatchPrack, WatchAnswer, WatchAck, WatchBye, WatchActivate,
      WatchReject, WatchFinish, Finish
<1>2. ASSUME NEW x \in Handlers, NEW i \in Invites,
             InviteRepeat(x, i) \/ InviteBusy(x, i) \/ InviteNew(x, i) \/ HandleAck(x, i) \/
             HandleCancel(x, i)
      PROVE AnswerReserved'
  BY <1>2
  DEF InviteRepeat, InviteBusy, InviteNew, HandleAck, HandleCancel
<1>3. ASSUME NEW x \in Handlers, NEW c \in ByeCalls, HandleBye(x, c) PROVE AnswerReserved'
  BY <1>3
  DEF HandleBye
<1>4. ASSUME NEW x \in Handlers,
             InviteTrying(x) \/ InviteOffer(x) \/ InvitePublish(x) \/ InviteRing(x) \/
             InviteArm(x) \/ HandleByeFinish(x)
      PROVE AnswerReserved'
  BY <1>4, SMTT(30)
  DEF InviteTrying, InviteOffer, InvitePublish, InviteRing, InviteArm, HandleByeFinish,
      Finish
<1>5. ASSUME NEW t \in Hosts \cup Handlers \cup Legs,
             RejectRead(t) \/ RejectSend(t) \/ RejectFinish(t)
      PROVE AnswerReserved'
  BY <1>5
  DEF RejectRead, RejectSend, RejectFinish, Finish
<1>6. ASSUME NEW h \in Hosts, NEW d \in Dials, DialClaim(h, d) PROVE AnswerReserved'
  BY <1>6
  DEF DialClaim
<1>7. ASSUME NEW h \in Hosts,
             DialAllocate(h) \/ DialBuild(h) \/ DialSend(h) \/ DialFail(h)
      PROVE AnswerReserved'
  BY <1>7
  DEF DialAllocate, DialBuild, DialSend, DialFail
<1>8. ASSUME NEW h \in Hosts, AnswerReserve(h) PROVE AnswerReserved'
  BY <1>8
  DEF AnswerReserve
<1>9. ASSUME NEW h \in Hosts, AnswerAllocate(h) PROVE AnswerReserved'
  <2>1. CASE pc' = [pc EXCEPT ![h] = "bind"] /\ UNCHANGED <<preparing, leg>>
    BY <1>9, <2>1 DEF AnswerAllocate
  <2>2. CASE Return(h) /\ preparing' = (preparing /\ ~Pending(leg[h]))
    <3>1. preparing' <=> preparing /\ ~Pending(leg[h])
      BY <2>2, Zenon
    <3>2. ASSUME NEW g \in Hosts, pc'[g] \in AnswerPlaces
          PROVE  g # h /\ pc[g] = pc'[g] /\ leg[g] = leg'[g]
      BY <1>9, <2>2, <3>2 DEF AnswerAllocate
    <3>3. incoming' = incoming /\ state' = state /\ pc[h] \in AnswerPlaces
      BY <1>9 DEF AnswerAllocate
    <3> QED
      BY <3>1, <3>2, <3>3
  <2> QED
    BY <1>9, <2>1, <2>2 DEF AnswerAllocate
<1>10. ASSUME NEW h \in Hosts, AnswerBind(h) PROVE AnswerReserved'
  BY <1>10
  DEF AnswerBind
<1>11. ASSUME NEW h \in Hosts, AnswerSend(h) PROVE AnswerReserved'
  BY <1>11
  DEF AnswerSend, Finish
<1>12. ASSUME NEW h \in Hosts, AnswerCommit(h) PROVE AnswerReserved'
  BY <1>12
  DEF AnswerCommit
<1>13. ASSUME NEW h \in Hosts,
              Reject(h) \/ Hangup(h) \/ HangupCancel(h) \/ HangupBye(h) \/ HangupFinish(h)
       PROVE AnswerReserved'
  BY <1>13
  DEF Reject, Hangup, HangupCancel, HangupBye, HangupFinish, Finish
<1>14. ASSUME NEW l \in Legs, TimerFire(l) \/ Expire(l) PROVE AnswerReserved'
  BY <1>14
  DEF TimerFire, Expire
<1>15. CASE CloseCancel
  BY <1>15
  DEF CloseCancel
<1>16. CASE Close
  BY <1>16
  DEF Close, Finish
<1>17. CASE UNCHANGED vars
  BY <1>17 DEF vars, callVars, inboundVars, outboundVars, mediaVars, threadVars, wireVars
<1> HIDE DEF AnswerReserved
<1> QED
  BY <1>1, <1>2, <1>3, <1>4, <1>5, <1>6, <1>7, <1>8, <1>9, <1>10, <1>11, <1>12, <1>13,
     <1>14, <1>15, <1>16, <1>17
  DEF Next, WatchNext, HandlerBegin, HandlerStep, HostBegin, HostStep, TimerNext

\* The steps keep every open socket owned.
LEMMA SocketsStep ==
  ASSUME TypeOK, Placed, SocketsOwned, [Next]_vars
  PROVE  SocketsOwned'
<1> USE CallAssumption DEF TypeOK, CallTyped, ThreadsTyped, WireTyped, Respond, Send,
      Published, inboundVars, outboundVars, mediaVars, callVars, wireVars, Placed, Threads,
      Hosts, Calls, Goto, Return, threadVars, DialPlaces, AdmitPlaces, RingPlaces,
      RejectPlaces, AnswerPlaces, EndPlaces, WatchPlaces, SocketsOwned
<1>1. ASSUME NEW d \in Dials,
             WatchLease(d) \/ WatchDone(d) \/ WatchTimeout(d) \/ WatchReceive(d) \/
             WatchTrying(d) \/ WatchSession(d) \/ WatchProvisional(d) \/ WatchPrack(d) \/
             WatchAnswer(d) \/ WatchAck(d) \/ WatchBye(d) \/ WatchActivate(d) \/
             WatchReject(d) \/ WatchFinish(d)
      PROVE SocketsOwned'
  BY <1>1
  DEF WatchLease, WatchDone, WatchTimeout, WatchReceive, WatchTrying, WatchSession,
      WatchProvisional, WatchPrack, WatchAnswer, WatchAck, WatchBye, WatchActivate,
      WatchReject, WatchFinish, Finish
<1>2. ASSUME NEW x \in Handlers, NEW i \in Invites,
             InviteRepeat(x, i) \/ InviteBusy(x, i) \/ InviteNew(x, i) \/ HandleAck(x, i) \/
             HandleCancel(x, i)
      PROVE SocketsOwned'
  BY <1>2
  DEF InviteRepeat, InviteBusy, InviteNew, HandleAck, HandleCancel
<1>3. ASSUME NEW x \in Handlers, NEW c \in ByeCalls, HandleBye(x, c) PROVE SocketsOwned'
  BY <1>3
  DEF HandleBye
<1>4. ASSUME NEW x \in Handlers,
             InviteTrying(x) \/ InviteOffer(x) \/ InvitePublish(x) \/ InviteRing(x) \/
             InviteArm(x) \/ HandleByeFinish(x)
      PROVE SocketsOwned'
  BY <1>4
  DEF InviteTrying, InviteOffer, InvitePublish, InviteRing, InviteArm, HandleByeFinish,
      Finish
<1>5. ASSUME NEW t \in Hosts \cup Handlers \cup Legs,
             RejectRead(t) \/ RejectSend(t) \/ RejectFinish(t)
      PROVE SocketsOwned'
  BY <1>5
  DEF RejectRead, RejectSend, RejectFinish, Finish
<1>6. ASSUME NEW h \in Hosts, NEW d \in Dials, DialClaim(h, d) PROVE SocketsOwned'
  BY <1>6
  DEF DialClaim
<1>7. ASSUME NEW h \in Hosts,
             DialAllocate(h) \/ DialBuild(h) \/ DialSend(h) \/ DialFail(h)
      PROVE SocketsOwned'
  BY <1>7
  DEF DialAllocate, DialBuild, DialSend, DialFail
<1>8. ASSUME NEW h \in Hosts, AnswerReserve(h) PROVE SocketsOwned'
  BY <1>8
  DEF AnswerReserve
<1>9. ASSUME NEW h \in Hosts, AnswerAllocate(h) PROVE SocketsOwned'
  BY <1>9
  DEF AnswerAllocate
<1>10. ASSUME NEW h \in Hosts, AnswerBind(h) PROVE SocketsOwned'
  BY <1>10
  DEF AnswerBind
<1>11. ASSUME NEW h \in Hosts, AnswerSend(h) PROVE SocketsOwned'
  BY <1>11
  DEF AnswerSend, Finish
<1>12. ASSUME NEW h \in Hosts, AnswerCommit(h) PROVE SocketsOwned'
  BY <1>12
  DEF AnswerCommit
<1>13. ASSUME NEW h \in Hosts,
              Reject(h) \/ Hangup(h) \/ HangupCancel(h) \/ HangupBye(h) \/ HangupFinish(h)
       PROVE SocketsOwned'
  BY <1>13
  DEF Reject, Hangup, HangupCancel, HangupBye, HangupFinish, Finish
<1>14. ASSUME NEW l \in Legs, TimerFire(l) \/ Expire(l) PROVE SocketsOwned'
  BY <1>14
  DEF TimerFire, Expire
<1>15. CASE CloseCancel
  BY <1>15
  DEF CloseCancel
<1>16. CASE Close
  BY <1>16
  DEF Close, Finish
<1>17. CASE UNCHANGED vars
  BY <1>17 DEF vars, callVars, inboundVars, outboundVars, mediaVars, threadVars, wireVars
<1> HIDE DEF SocketsOwned
<1> QED
  BY <1>1, <1>2, <1>3, <1>4, <1>5, <1>6, <1>7, <1>8, <1>9, <1>10, <1>11, <1>12, <1>13,
     <1>14, <1>15, <1>16, <1>17
  DEF Next, WatchNext, HandlerBegin, HandlerStep, HostBegin, HostStep, TimerNext

-----------------------------------------------------------------------------
(* Steps: The published leg and its timer *)

\* The published leg stays that of an incoming call that is not over.
LEMMA LegCurrentStep ==
  ASSUME TypeOK, Placed, LockHeld, LegsFresh, AnswerReserved, WatchersCurrent, DialsClaimed,
         LegCurrent, [Next]_vars
  PROVE  LegCurrent'
<1> USE CallAssumption DEF TypeOK, CallTyped, ThreadsTyped, WireTyped, Respond, Send,
      Published, inboundVars, outboundVars, mediaVars, callVars, wireVars, Free, Pending,
      Placed, Threads, Hosts, Calls, Goto, Return, threadVars, DialPlaces, AdmitPlaces,
      RingPlaces, RejectPlaces, AnswerPlaces, EndPlaces, WatchPlaces, WatchersCurrent,
      Dialling, DialsClaimed, LockHeld, HoldPlaces, LegsFresh, AnswerReserved, LegCurrent,
      Established, SameTransaction
<1>1. ASSUME NEW d \in Dials, WatchLease(d) PROVE LegCurrent'
  BY <1>1
  DEF WatchLease
<1>2. ASSUME NEW d \in Dials, WatchDone(d) PROVE LegCurrent'
  BY <1>2
  DEF WatchDone
<1>3. ASSUME NEW d \in Dials, WatchTimeout(d) PROVE LegCurrent'
  BY <1>3
  DEF WatchTimeout
<1>4. ASSUME NEW d \in Dials, WatchReceive(d) PROVE LegCurrent'
  BY <1>4
  DEF WatchReceive
<1>5. ASSUME NEW d \in Dials, WatchTrying(d) PROVE LegCurrent'
  BY <1>5
  DEF WatchTrying
<1>6. ASSUME NEW d \in Dials, WatchSession(d) PROVE LegCurrent'
  BY <1>6
  DEF WatchSession
<1>7. ASSUME NEW d \in Dials, WatchProvisional(d) PROVE LegCurrent'
  BY <1>7
  DEF WatchProvisional
<1>8. ASSUME NEW d \in Dials, WatchPrack(d) PROVE LegCurrent'
  BY <1>8
  DEF WatchPrack
<1>9. ASSUME NEW d \in Dials, WatchAnswer(d) PROVE LegCurrent'
  BY <1>9
  DEF WatchAnswer
<1>10. ASSUME NEW d \in Dials, WatchAck(d) PROVE LegCurrent'
  BY <1>10
  DEF WatchAck
<1>11. ASSUME NEW d \in Dials, WatchBye(d) PROVE LegCurrent'
  BY <1>11
  DEF WatchBye
<1>12. ASSUME NEW d \in Dials, WatchActivate(d) PROVE LegCurrent'
  BY <1>12
  DEF WatchActivate
<1>13. ASSUME NEW d \in Dials, WatchReject(d) PROVE LegCurrent'
  BY <1>13
  DEF WatchReject
<1>14. ASSUME NEW d \in Dials, WatchFinish(d) PROVE LegCurrent'
  BY <1>14
  DEF WatchFinish, Finish
<1>15. ASSUME NEW x \in Handlers, NEW i \in Invites, InviteRepeat(x, i) PROVE LegCurrent'
  BY <1>15
  DEF InviteRepeat
<1>16. ASSUME NEW x \in Handlers, NEW i \in Invites, InviteBusy(x, i) PROVE LegCurrent'
  BY <1>16
  DEF InviteBusy
<1>17. ASSUME NEW x \in Handlers, NEW i \in Invites, InviteNew(x, i) PROVE LegCurrent'
  BY <1>17
  DEF InviteNew
<1>18. ASSUME NEW x \in Handlers, NEW i \in Invites, HandleAck(x, i) PROVE LegCurrent'
  BY <1>18
  DEF HandleAck
<1>19. ASSUME NEW x \in Handlers, NEW i \in Invites, HandleCancel(x, i) PROVE LegCurrent'
  BY <1>19
  DEF HandleCancel
<1>20. ASSUME NEW x \in Handlers, NEW c \in ByeCalls, HandleBye(x, c) PROVE LegCurrent'
  BY <1>20
  DEF HandleBye
<1>21. ASSUME NEW x \in Handlers, InviteTrying(x) PROVE LegCurrent'
  BY <1>21
  DEF InviteTrying, Finish
<1>22. ASSUME NEW x \in Handlers, InviteOffer(x) PROVE LegCurrent'
  BY <1>22
  DEF InviteOffer
<1>23. ASSUME NEW x \in Handlers, InvitePublish(x) PROVE LegCurrent'
  BY <1>23
  DEF InvitePublish
<1>24. ASSUME NEW x \in Handlers, InviteRing(x) PROVE LegCurrent'
  BY <1>24
  DEF InviteRing, Finish
<1>25. ASSUME NEW x \in Handlers, InviteArm(x) PROVE LegCurrent'
  BY <1>25
  DEF InviteArm
<1>26. ASSUME NEW x \in Handlers, HandleByeFinish(x) PROVE LegCurrent'
  BY <1>26
  DEF HandleByeFinish, Finish
<1>27. ASSUME NEW t \in Hosts \cup Handlers \cup Legs, RejectRead(t) PROVE LegCurrent'
  BY <1>27
  DEF RejectRead
<1>28. ASSUME NEW t \in Hosts \cup Handlers \cup Legs, RejectSend(t) PROVE LegCurrent'
  BY <1>28
  DEF RejectSend
<1>29. ASSUME NEW t \in Hosts \cup Handlers \cup Legs, RejectFinish(t) PROVE LegCurrent'
  BY <1>29
  DEF RejectFinish, Finish
<1>30. ASSUME NEW h \in Hosts, NEW d \in Dials, DialClaim(h, d) PROVE LegCurrent'
  BY <1>30, SMTT(30)
  DEF DialClaim
<1>31. ASSUME NEW h \in Hosts, DialAllocate(h) PROVE LegCurrent'
  BY <1>31
  DEF DialAllocate
<1>32. ASSUME NEW h \in Hosts, DialBuild(h) PROVE LegCurrent'
  BY <1>32
  DEF DialBuild
<1>33. ASSUME NEW h \in Hosts, DialSend(h) PROVE LegCurrent'
  <2>1. PICK e \in Dials : e = call[h]
    BY <1>33 DEF DialSend
  <2>2. \A t \in Handlers \cup Legs : pc'[t] = pc[t]
    BY <1>33, <2>1 DEF DialSend
  <2>3. \A g \in Hosts : pc'[g] \in AnswerPlaces => pc'[g] = pc[g]
    BY <1>33, <2>1 DEF DialSend
  <2>4. UNCHANGED <<state, incoming, callID, legOf, leg>>
    BY <1>33 DEF DialSend
  <2> QED
    BY <2>2, <2>3, <2>4
<1>34. ASSUME NEW h \in Hosts, DialFail(h) PROVE LegCurrent'
  BY <1>34, SMTT(30)
  DEF DialFail
<1>35. ASSUME NEW h \in Hosts, AnswerReserve(h) PROVE LegCurrent'
  BY <1>35
  DEF AnswerReserve
<1>36. ASSUME NEW h \in Hosts, AnswerAllocate(h) PROVE LegCurrent'
  BY <1>36
  DEF AnswerAllocate
<1>37. ASSUME NEW h \in Hosts, AnswerBind(h) PROVE LegCurrent'
  BY <1>37
  DEF AnswerBind
<1>38. ASSUME NEW h \in Hosts, AnswerSend(h) PROVE LegCurrent'
  BY <1>38
  DEF AnswerSend, Finish
<1>39. ASSUME NEW h \in Hosts, AnswerCommit(h) PROVE LegCurrent'
  BY <1>39
  DEF AnswerCommit
<1>40. ASSUME NEW h \in Hosts,
              Reject(h) \/ Hangup(h) \/ HangupCancel(h) \/ HangupBye(h) \/ HangupFinish(h)
       PROVE LegCurrent'
  BY <1>40
  DEF Reject, Hangup, HangupCancel, HangupBye, HangupFinish, Finish
<1>41. ASSUME NEW l \in Legs, TimerFire(l) \/ Expire(l) PROVE LegCurrent'
  BY <1>41
  DEF TimerFire, Expire
<1>42. CASE CloseCancel
  BY <1>42
  DEF CloseCancel
<1>43. CASE Close
  BY <1>43
  DEF Close, Finish
<1>44. CASE UNCHANGED vars
  BY <1>44 DEF vars, callVars, inboundVars, outboundVars, mediaVars, threadVars, wireVars
<1> HIDE DEF LegCurrent
<1> QED
  BY <1>1, <1>2, <1>3, <1>4, <1>5, <1>6, <1>7, <1>8, <1>9, <1>10, <1>11, <1>12, <1>13,
     <1>14, <1>15, <1>16, <1>17, <1>18, <1>19, <1>20, <1>21, <1>22, <1>23, <1>24, <1>25,
     <1>26, <1>27, <1>28, <1>29, <1>30, <1>31, <1>32, <1>33, <1>34, <1>35, <1>36, <1>37,
     <1>38, <1>39, <1>40, <1>41, <1>42, <1>43, <1>44
  DEF Next, WatchNext, HandlerBegin, HandlerStep, HostBegin, HostStep, TimerNext

\* The timer stays that of a leg that rings.
LEMMA TimerStep ==
  ASSUME TypeOK, Placed, LockHeld, LegsFresh, AnswerReserved, WatchersCurrent, DialsClaimed,
         LegCurrent, TimerCurrent, [Next]_vars
  PROVE  TimerCurrent'
<1> USE CallAssumption DEF TypeOK, CallTyped, ThreadsTyped, WireTyped, Respond, Send,
      Published, inboundVars, outboundVars, mediaVars, callVars, wireVars, Free, Pending,
      Placed, Threads, Hosts, Calls, Goto, Return, threadVars, DialPlaces, AdmitPlaces,
      RingPlaces, RejectPlaces, AnswerPlaces, EndPlaces, WatchPlaces, WatchersCurrent,
      Dialling, DialsClaimed, LockHeld, HoldPlaces, LegsFresh, AnswerReserved, LegCurrent,
      TimerCurrent, Established, SameTransaction
<1>1. ASSUME NEW d \in Dials,
             WatchLease(d) \/ WatchDone(d) \/ WatchTimeout(d) \/ WatchReceive(d) \/
             WatchTrying(d) \/ WatchSession(d) \/ WatchProvisional(d) \/ WatchPrack(d) \/
             WatchAnswer(d) \/ WatchAck(d) \/ WatchBye(d) \/ WatchActivate(d) \/
             WatchReject(d) \/ WatchFinish(d)
      PROVE TimerCurrent'
  BY <1>1
  DEF WatchLease, WatchDone, WatchTimeout, WatchReceive, WatchTrying, WatchSession,
      WatchProvisional, WatchPrack, WatchAnswer, WatchAck, WatchBye, WatchActivate,
      WatchReject, WatchFinish, Finish
<1>2. ASSUME NEW x \in Handlers, NEW i \in Invites,
             InviteRepeat(x, i) \/ InviteBusy(x, i) \/ InviteNew(x, i) \/ HandleAck(x, i) \/
             HandleCancel(x, i)
      PROVE TimerCurrent'
  BY <1>2
  DEF InviteRepeat, InviteBusy, InviteNew, HandleAck, HandleCancel
<1>3. ASSUME NEW x \in Handlers, NEW c \in ByeCalls, HandleBye(x, c) PROVE TimerCurrent'
  BY <1>3
  DEF HandleBye
<1>4. ASSUME NEW x \in Handlers, InviteTrying(x) PROVE TimerCurrent'
  BY <1>4
  DEF InviteTrying, Finish
<1>5. ASSUME NEW x \in Handlers, InviteOffer(x) PROVE TimerCurrent'
  BY <1>5
  DEF InviteOffer
<1>6. ASSUME NEW x \in Handlers, InvitePublish(x) PROVE TimerCurrent'
  BY <1>6
  DEF InvitePublish
<1>7. ASSUME NEW x \in Handlers, InviteRing(x) PROVE TimerCurrent'
  BY <1>7
  DEF InviteRing, Finish
<1>8. ASSUME NEW x \in Handlers, InviteArm(x) PROVE TimerCurrent'
  BY <1>8
  DEF InviteArm
<1>9. ASSUME NEW x \in Handlers, HandleByeFinish(x) PROVE TimerCurrent'
  BY <1>9
  DEF HandleByeFinish, Finish
<1>10. ASSUME NEW t \in Hosts \cup Handlers \cup Legs,
              RejectRead(t) \/ RejectSend(t) \/ RejectFinish(t)
       PROVE TimerCurrent'
  BY <1>10
  DEF RejectRead, RejectSend, RejectFinish, Finish
<1>11. ASSUME NEW h \in Hosts, NEW d \in Dials, DialClaim(h, d) PROVE TimerCurrent'
  BY <1>11
  DEF DialClaim
<1>12. ASSUME NEW h \in Hosts,
              DialAllocate(h) \/ DialBuild(h) \/ DialSend(h) \/ DialFail(h)
       PROVE TimerCurrent'
  BY <1>12
  DEF DialAllocate, DialBuild, DialSend, DialFail
<1>13. ASSUME NEW h \in Hosts, AnswerReserve(h) PROVE TimerCurrent'
  BY <1>13
  DEF AnswerReserve
<1>14. ASSUME NEW h \in Hosts, AnswerAllocate(h) PROVE TimerCurrent'
  BY <1>14
  DEF AnswerAllocate
<1>15. ASSUME NEW h \in Hosts, AnswerBind(h) PROVE TimerCurrent'
  BY <1>15
  DEF AnswerBind
<1>16. ASSUME NEW h \in Hosts, AnswerSend(h) PROVE TimerCurrent'
  BY <1>16
  DEF AnswerSend, Finish
<1>17. ASSUME NEW h \in Hosts, AnswerCommit(h) PROVE TimerCurrent'
  BY <1>17
  DEF AnswerCommit
<1>18. ASSUME NEW h \in Hosts, Reject(h) PROVE TimerCurrent'
  BY <1>18
  DEF Reject
<1>19. ASSUME NEW h \in Hosts, Hangup(h) PROVE TimerCurrent'
  BY <1>19
  DEF Hangup
<1>20. ASSUME NEW h \in Hosts, HangupCancel(h) PROVE TimerCurrent'
  BY <1>20
  DEF HangupCancel
<1>21. ASSUME NEW h \in Hosts, HangupBye(h) PROVE TimerCurrent'
  BY <1>21
  DEF HangupBye
<1>22. ASSUME NEW h \in Hosts, HangupFinish(h) PROVE TimerCurrent'
  BY <1>22
  DEF HangupFinish, Finish
<1>23. ASSUME NEW l \in Legs, TimerFire(l) \/ Expire(l) PROVE TimerCurrent'
  BY <1>23
  DEF TimerFire, Expire
<1>24. CASE CloseCancel
  BY <1>24
  DEF CloseCancel
<1>25. CASE Close
  BY <1>25
  DEF Close, Finish
<1>26. CASE UNCHANGED vars
  BY <1>26 DEF vars, callVars, inboundVars, outboundVars, mediaVars, threadVars, wireVars
<1> HIDE DEF TimerCurrent
<1> QED
  BY <1>1, <1>2, <1>3, <1>4, <1>5, <1>6, <1>7, <1>8, <1>9, <1>10, <1>11, <1>12, <1>13,
     <1>14, <1>15, <1>16, <1>17, <1>18, <1>19, <1>20, <1>21, <1>22, <1>23, <1>24, <1>25,
     <1>26
  DEF Next, WatchNext, HandlerBegin, HandlerStep, HostBegin, HostStep, TimerNext

-----------------------------------------------------------------------------
(* Steps: Answering *)

\* A step that leaves alone what AnswerCurrent speaks of, but for responses that are not
\* a 200 and new sockets, keeps it.
LEMMA AnswerKept ==
  ASSUME TypeOK, AnswerCurrent,
         UNCHANGED <<state, incoming, answered, media>>, sockets \subseteq sockets',
         \A h \in Hosts : pc[h] \in {"ok200", "connect"} \/ pc'[h] \in {"ok200", "connect"}
                            => pc'[h] = pc[h] /\ leg'[h] = leg[h],
         \A l \in Legs : log[l] \subseteq log'[l] /\ ("ok" \in log'[l] => "ok" \in log[l]),
         \A h \in Hosts : pc[h] = "connect" => leg[h] \in Legs
  PROVE  AnswerCurrent'
BY DEF AnswerCurrent, TypeOK, CallTyped

\* A ringing leg keeps its timer, and no other timer can fire.
LEMMA RingingStep ==
  ASSUME TypeOK, Placed, LockHeld, LegsFresh, AnswerReserved, WatchersCurrent, DialsClaimed,
         LegCurrent, TimerCurrent, RingingIsTimed, [Next]_vars
  PROVE  RingingIsTimed'
<1> USE CallAssumption DEF TypeOK, CallTyped, ThreadsTyped, WireTyped, Respond, Send,
      Published, inboundVars, outboundVars, mediaVars, callVars, wireVars, Free, Pending,
      Placed, Threads, Hosts, Calls, Goto, Return, threadVars, DialPlaces, AdmitPlaces,
      RingPlaces, RejectPlaces, AnswerPlaces, EndPlaces, WatchPlaces, WatchersCurrent,
      Dialling, DialsClaimed, LockHeld, HoldPlaces, LegsFresh, AnswerReserved, LegCurrent,
      Established, SameTransaction, TimerCurrent, RingingIsTimed
<1>1. ASSUME NEW d \in Dials,
             WatchLease(d) \/ WatchDone(d) \/ WatchTimeout(d) \/ WatchReceive(d) \/
             WatchTrying(d) \/ WatchSession(d) \/ WatchProvisional(d) \/ WatchPrack(d) \/
             WatchAnswer(d) \/ WatchAck(d) \/ WatchBye(d) \/ WatchActivate(d) \/
             WatchReject(d) \/ WatchFinish(d)
      PROVE RingingIsTimed'
  BY <1>1
  DEF WatchLease, WatchDone, WatchTimeout, WatchReceive, WatchTrying, WatchSession,
      WatchProvisional, WatchPrack, WatchAnswer, WatchAck, WatchBye, WatchActivate,
      WatchReject, WatchFinish, Finish
<1>2. ASSUME NEW x \in Handlers, NEW i \in Invites, InviteRepeat(x, i) PROVE RingingIsTimed'
  BY <1>2
  DEF InviteRepeat
<1>3. ASSUME NEW x \in Handlers, NEW i \in Invites, InviteBusy(x, i) PROVE RingingIsTimed'
  BY <1>3
  DEF InviteBusy
<1>4. ASSUME NEW x \in Handlers, NEW i \in Invites, InviteNew(x, i) PROVE RingingIsTimed'
  BY <1>4
  DEF InviteNew
<1>5. ASSUME NEW x \in Handlers, NEW i \in Invites, HandleAck(x, i) PROVE RingingIsTimed'
  BY <1>5
  DEF HandleAck
<1>6. ASSUME NEW x \in Handlers, NEW i \in Invites, HandleCancel(x, i) PROVE RingingIsTimed'
  BY <1>6
  DEF HandleCancel
<1>7. ASSUME NEW x \in Handlers, NEW c \in ByeCalls, HandleBye(x, c) PROVE RingingIsTimed'
  BY <1>7
  DEF HandleBye
<1>8. ASSUME NEW x \in Handlers, InviteTrying(x) PROVE RingingIsTimed'
  BY <1>8
  DEF InviteTrying, Finish
<1>9. ASSUME NEW x \in Handlers, InviteOffer(x) PROVE RingingIsTimed'
  BY <1>9
  DEF InviteOffer
<1>10. ASSUME NEW x \in Handlers, InvitePublish(x) PROVE RingingIsTimed'
  BY <1>10
  DEF InvitePublish
<1>11. ASSUME NEW x \in Handlers, InviteRing(x) PROVE RingingIsTimed'
  BY <1>11
  DEF InviteRing, Finish
<1>12. ASSUME NEW x \in Handlers, InviteArm(x) PROVE RingingIsTimed'
  BY <1>12
  DEF InviteArm
<1>13. ASSUME NEW x \in Handlers, HandleByeFinish(x) PROVE RingingIsTimed'
  BY <1>13
  DEF HandleByeFinish, Finish
<1>14. ASSUME NEW t \in Hosts \cup Handlers \cup Legs, RejectRead(t) PROVE RingingIsTimed'
  BY <1>14
  DEF RejectRead
<1>15. ASSUME NEW t \in Hosts \cup Handlers \cup Legs, RejectSend(t) PROVE RingingIsTimed'
  BY <1>15
  DEF RejectSend
<1>16. ASSUME NEW t \in Hosts \cup Handlers \cup Legs, RejectFinish(t) PROVE RingingIsTimed'
  BY <1>16
  DEF RejectFinish, Finish
<1>17. ASSUME NEW h \in Hosts, NEW d \in Dials, DialClaim(h, d) PROVE RingingIsTimed'
  BY <1>17
  DEF DialClaim
<1>18. ASSUME NEW h \in Hosts, DialAllocate(h) PROVE RingingIsTimed'
  BY <1>18
  DEF DialAllocate
<1>19. ASSUME NEW h \in Hosts, DialBuild(h) PROVE RingingIsTimed'
  BY <1>19
  DEF DialBuild
<1>20. ASSUME NEW h \in Hosts, DialSend(h) PROVE RingingIsTimed'
  BY <1>20
  DEF DialSend
<1>21. ASSUME NEW h \in Hosts, DialFail(h) PROVE RingingIsTimed'
  BY <1>21
  DEF DialFail
<1>22. ASSUME NEW h \in Hosts, AnswerReserve(h) PROVE RingingIsTimed'
  BY <1>22
  DEF AnswerReserve
<1>23. ASSUME NEW h \in Hosts, AnswerAllocate(h) PROVE RingingIsTimed'
  BY <1>23
  DEF AnswerAllocate
<1>24. ASSUME NEW h \in Hosts, AnswerBind(h) PROVE RingingIsTimed'
  BY <1>24
  DEF AnswerBind
<1>25. ASSUME NEW h \in Hosts, AnswerSend(h) PROVE RingingIsTimed'
  BY <1>25
  DEF AnswerSend, Finish
<1>26. ASSUME NEW h \in Hosts, AnswerCommit(h) PROVE RingingIsTimed'
  BY <1>26
  DEF AnswerCommit
<1>27. ASSUME NEW h \in Hosts, Reject(h) PROVE RingingIsTimed'
  BY <1>27
  DEF Reject
<1>28. ASSUME NEW h \in Hosts, Hangup(h) PROVE RingingIsTimed'
  BY <1>28
  DEF Hangup
<1>29. ASSUME NEW h \in Hosts, HangupCancel(h) PROVE RingingIsTimed'
  BY <1>29
  DEF HangupCancel
<1>30. ASSUME NEW h \in Hosts, HangupBye(h) PROVE RingingIsTimed'
  BY <1>30
  DEF HangupBye
<1>31. ASSUME NEW h \in Hosts, HangupFinish(h) PROVE RingingIsTimed'
  BY <1>31
  DEF HangupFinish, Finish
<1>32. ASSUME NEW l \in Legs, TimerFire(l) PROVE RingingIsTimed'
  BY <1>32
  DEF TimerFire
<1>33. ASSUME NEW l \in Legs, Expire(l) PROVE RingingIsTimed'
  BY <1>33
  DEF Expire
<1>34. CASE CloseCancel
  BY <1>34
  DEF CloseCancel
<1>35. CASE Close
  BY <1>35
  DEF Close, Finish
<1>36. CASE UNCHANGED vars
  BY <1>36 DEF vars, callVars, inboundVars, outboundVars, mediaVars, threadVars, wireVars
<1> HIDE DEF RingingIsTimed
<1> QED
  BY <1>1, <1>2, <1>3, <1>4, <1>5, <1>6, <1>7, <1>8, <1>9, <1>10, <1>11, <1>12, <1>13,
     <1>14, <1>15, <1>16, <1>17, <1>18, <1>19, <1>20, <1>21, <1>22, <1>23, <1>24, <1>25,
     <1>26, <1>27, <1>28, <1>29, <1>30, <1>31, <1>32, <1>33, <1>34, <1>35, <1>36
  DEF Next, WatchNext, HandlerBegin, HandlerStep, HostBegin, HostStep, TimerNext

\* The sockets of an answer stay its own until it binds them.
LEMMA BindingStep ==
  ASSUME TypeOK, Placed, LockHeld, LegsFresh, AnswerReserved, BindingFresh, [Next]_vars
  PROVE  BindingFresh'
<1> USE CallAssumption DEF TypeOK, CallTyped, ThreadsTyped, WireTyped, Respond, Send,
      Published, inboundVars, outboundVars, mediaVars, callVars, wireVars, Free, Pending,
      Placed, Threads, Hosts, Calls, Goto, Return, threadVars, DialPlaces, AdmitPlaces,
      RingPlaces, RejectPlaces, AnswerPlaces, EndPlaces, WatchPlaces, WatchersCurrent,
      Dialling, DialsClaimed, LockHeld, HoldPlaces, LegsFresh, AnswerReserved, LegCurrent,
      Established, SameTransaction, BindingFresh
<1>1. ASSUME NEW d \in Dials,
             WatchLease(d) \/ WatchDone(d) \/ WatchTimeout(d) \/ WatchReceive(d) \/
             WatchTrying(d) \/ WatchSession(d) \/ WatchProvisional(d) \/ WatchPrack(d) \/
             WatchAnswer(d) \/ WatchAck(d) \/ WatchBye(d) \/ WatchActivate(d) \/
             WatchReject(d) \/ WatchFinish(d)
      PROVE BindingFresh'
  BY <1>1
  DEF WatchLease, WatchDone, WatchTimeout, WatchReceive, WatchTrying, WatchSession,
      WatchProvisional, WatchPrack, WatchAnswer, WatchAck, WatchBye, WatchActivate,
      WatchReject, WatchFinish, Finish
<1>2. ASSUME NEW x \in Handlers, NEW i \in Invites, InviteRepeat(x, i) PROVE BindingFresh'
  BY <1>2
  DEF InviteRepeat
<1>3. ASSUME NEW x \in Handlers, NEW i \in Invites, InviteBusy(x, i) PROVE BindingFresh'
  BY <1>3
  DEF InviteBusy
<1>4. ASSUME NEW x \in Handlers, NEW i \in Invites, InviteNew(x, i) PROVE BindingFresh'
  BY <1>4
  DEF InviteNew
<1>5. ASSUME NEW x \in Handlers, NEW i \in Invites, HandleAck(x, i) PROVE BindingFresh'
  BY <1>5
  DEF HandleAck
<1>6. ASSUME NEW x \in Handlers, NEW i \in Invites, HandleCancel(x, i) PROVE BindingFresh'
  BY <1>6
  DEF HandleCancel
<1>7. ASSUME NEW x \in Handlers, NEW c \in ByeCalls, HandleBye(x, c) PROVE BindingFresh'
  BY <1>7
  DEF HandleBye
<1>8. ASSUME NEW x \in Handlers, InviteTrying(x) PROVE BindingFresh'
  BY <1>8
  DEF InviteTrying, Finish
<1>9. ASSUME NEW x \in Handlers, InviteOffer(x) PROVE BindingFresh'
  BY <1>9
  DEF InviteOffer
<1>10. ASSUME NEW x \in Handlers, InvitePublish(x) PROVE BindingFresh'
  BY <1>10
  DEF InvitePublish
<1>11. ASSUME NEW x \in Handlers, InviteRing(x) PROVE BindingFresh'
  BY <1>11
  DEF InviteRing, Finish
<1>12. ASSUME NEW x \in Handlers, InviteArm(x) PROVE BindingFresh'
  BY <1>12
  DEF InviteArm
<1>13. ASSUME NEW x \in Handlers, HandleByeFinish(x) PROVE BindingFresh'
  BY <1>13
  DEF HandleByeFinish, Finish
<1>14. ASSUME NEW t \in Hosts \cup Handlers \cup Legs, RejectRead(t) PROVE BindingFresh'
  BY <1>14
  DEF RejectRead
<1>15. ASSUME NEW t \in Hosts \cup Handlers \cup Legs, RejectSend(t) PROVE BindingFresh'
  BY <1>15
  DEF RejectSend
<1>16. ASSUME NEW t \in Hosts \cup Handlers \cup Legs, RejectFinish(t) PROVE BindingFresh'
  BY <1>16
  DEF RejectFinish, Finish
<1>17. ASSUME NEW h \in Hosts, NEW d \in Dials, DialClaim(h, d) PROVE BindingFresh'
  BY <1>17
  DEF DialClaim
<1>18. ASSUME NEW h \in Hosts, DialAllocate(h) PROVE BindingFresh'
  BY <1>18
  DEF DialAllocate
<1>19. ASSUME NEW h \in Hosts, DialBuild(h) PROVE BindingFresh'
  BY <1>19
  DEF DialBuild
<1>20. ASSUME NEW h \in Hosts, DialSend(h) PROVE BindingFresh'
  BY <1>20, SMTT(30)
  DEF DialSend
<1>21. ASSUME NEW h \in Hosts, DialFail(h) PROVE BindingFresh'
  BY <1>21
  DEF DialFail
<1>22. ASSUME NEW h \in Hosts, AnswerReserve(h) PROVE BindingFresh'
  BY <1>22
  DEF AnswerReserve
<1>23. ASSUME NEW h \in Hosts, AnswerAllocate(h) PROVE BindingFresh'
  BY <1>23
  DEF AnswerAllocate
<1>24. ASSUME NEW h \in Hosts, AnswerBind(h) PROVE BindingFresh'
  BY <1>24
  DEF AnswerBind
<1>25. ASSUME NEW h \in Hosts, AnswerSend(h) PROVE BindingFresh'
  BY <1>25
  DEF AnswerSend, Finish
<1>26. ASSUME NEW h \in Hosts, AnswerCommit(h) PROVE BindingFresh'
  BY <1>26
  DEF AnswerCommit
<1>27. ASSUME NEW h \in Hosts, Reject(h) PROVE BindingFresh'
  BY <1>27
  DEF Reject
<1>28. ASSUME NEW h \in Hosts, Hangup(h) PROVE BindingFresh'
  BY <1>28
  DEF Hangup
<1>29. ASSUME NEW h \in Hosts, HangupCancel(h) PROVE BindingFresh'
  BY <1>29
  DEF HangupCancel
<1>30. ASSUME NEW h \in Hosts, HangupBye(h) PROVE BindingFresh'
  BY <1>30
  DEF HangupBye
<1>31. ASSUME NEW h \in Hosts, HangupFinish(h) PROVE BindingFresh'
  BY <1>31
  DEF HangupFinish, Finish
<1>32. ASSUME NEW l \in Legs, TimerFire(l) PROVE BindingFresh'
  BY <1>32
  DEF TimerFire
<1>33. ASSUME NEW l \in Legs, Expire(l) PROVE BindingFresh'
  BY <1>33
  DEF Expire
<1>34. CASE CloseCancel
  BY <1>34
  DEF CloseCancel
<1>35. CASE Close
  BY <1>35
  DEF Close, Finish
<1>36. CASE UNCHANGED vars
  BY <1>36 DEF vars, callVars, inboundVars, outboundVars, mediaVars, threadVars, wireVars
<1> HIDE DEF BindingFresh
<1> QED
  BY <1>1, <1>2, <1>3, <1>4, <1>5, <1>6, <1>7, <1>8, <1>9, <1>10, <1>11, <1>12, <1>13,
     <1>14, <1>15, <1>16, <1>17, <1>18, <1>19, <1>20, <1>21, <1>22, <1>23, <1>24, <1>25,
     <1>26, <1>27, <1>28, <1>29, <1>30, <1>31, <1>32, <1>33, <1>34, <1>35, <1>36
  DEF Next, WatchNext, HandlerBegin, HandlerStep, HostBegin, HostStep, TimerNext

\* What answer has done for its leg stays done.
LEMMA AnswerCurrentStep ==
  ASSUME TypeOK, Placed, LockHeld, LegsFresh, AnswerReserved, WatchersCurrent, DialsClaimed,
         LegCurrent, BindingFresh, AnswerCurrent, [Next]_vars
  PROVE  AnswerCurrent'
<1> USE CallAssumption DEF TypeOK, CallTyped, ThreadsTyped, WireTyped, Respond, Send,
      Published, inboundVars, outboundVars, mediaVars, callVars, wireVars, Free, Pending,
      Placed, Threads, Hosts, Calls, Goto, Return, threadVars, DialPlaces, AdmitPlaces,
      RingPlaces, RejectPlaces, AnswerPlaces, EndPlaces, WatchPlaces, WatchersCurrent,
      Dialling, DialsClaimed, LockHeld, HoldPlaces, LegsFresh, AnswerReserved, LegCurrent,
      Established, SameTransaction, BindingFresh, AnswerCurrent
<1>1. ASSUME NEW d \in Dials,
             WatchLease(d) \/ WatchDone(d) \/ WatchTimeout(d) \/ WatchReceive(d) \/
             WatchTrying(d) \/ WatchSession(d) \/ WatchProvisional(d) \/ WatchPrack(d) \/
             WatchAnswer(d) \/ WatchAck(d) \/ WatchBye(d) \/ WatchActivate(d) \/
             WatchReject(d) \/ WatchFinish(d)
      PROVE AnswerCurrent'
  BY <1>1
  DEF WatchLease, WatchDone, WatchTimeout, WatchReceive, WatchTrying, WatchSession,
      WatchProvisional, WatchPrack, WatchAnswer, WatchAck, WatchBye, WatchActivate,
      WatchReject, WatchFinish, Finish
<1>2. ASSUME NEW x \in Handlers, NEW i \in Invites, InviteRepeat(x, i) PROVE AnswerCurrent'
  BY <1>2
  DEF InviteRepeat
<1>3. ASSUME NEW x \in Handlers, NEW i \in Invites, InviteBusy(x, i) PROVE AnswerCurrent'
  BY <1>3
  DEF InviteBusy
<1>4. ASSUME NEW x \in Handlers, NEW i \in Invites, InviteNew(x, i) PROVE AnswerCurrent'
  BY <1>4
  DEF InviteNew
<1>5. ASSUME NEW x \in Handlers, NEW i \in Invites, HandleAck(x, i) PROVE AnswerCurrent'
  BY <1>5
  DEF HandleAck
<1>6. ASSUME NEW x \in Handlers, NEW i \in Invites, HandleCancel(x, i) PROVE AnswerCurrent'
  BY <1>6
  DEF HandleCancel
<1>7. ASSUME NEW x \in Handlers, NEW c \in ByeCalls, HandleBye(x, c) PROVE AnswerCurrent'
  BY <1>7
  DEF HandleBye
<1>8. ASSUME NEW x \in Handlers, InviteTrying(x) PROVE AnswerCurrent'
  BY <1>8
  DEF InviteTrying, Finish
<1>9. ASSUME NEW x \in Handlers, InviteOffer(x) PROVE AnswerCurrent'
  BY <1>9, SMTT(30)
  DEF InviteOffer
<1>10. ASSUME NEW x \in Handlers, InvitePublish(x) PROVE AnswerCurrent'
  BY <1>10
  DEF InvitePublish
<1>11. ASSUME NEW x \in Handlers, InviteRing(x) PROVE AnswerCurrent'
  BY <1>11
  DEF InviteRing, Finish
<1>12. ASSUME NEW x \in Handlers, InviteArm(x) PROVE AnswerCurrent'
  BY <1>12
  DEF InviteArm
<1>13. ASSUME NEW x \in Handlers, HandleByeFinish(x) PROVE AnswerCurrent'
  BY <1>13
  DEF HandleByeFinish, Finish
<1>14. ASSUME NEW t \in Hosts \cup Handlers \cup Legs, RejectRead(t) PROVE AnswerCurrent'
  BY <1>14
  DEF RejectRead
<1>15. ASSUME NEW t \in Hosts \cup Handlers \cup Legs, RejectSend(t) PROVE AnswerCurrent'
  <2>1. UNCHANGED <<state, incoming, answered, media>> /\ sockets \subseteq sockets'
    BY <1>15 DEF RejectSend, Code
  <2>2. \A g \in Hosts : pc[g] \in {"ok200", "connect"} \/ pc'[g] \in {"ok200", "connect"}
                          => pc'[g] = pc[g] /\ leg'[g] = leg[g]
    BY <1>15 DEF RejectSend, Code
  <2>3. \A m \in Legs : log[m] \subseteq log'[m] /\ ("ok" \in log'[m] => "ok" \in log[m])
    BY <1>15 DEF RejectSend, Code
  <2>4. \A g \in Hosts : pc[g] = "connect" => leg[g] \in Legs
    OBVIOUS
  <2> HIDE DEF AnswerCurrent, TypeOK
  <2> QED
    BY <2>1, <2>2, <2>3, <2>4, AnswerKept
<1>16. ASSUME NEW t \in Hosts \cup Handlers \cup Legs, RejectFinish(t) PROVE AnswerCurrent'
  BY <1>16
  DEF RejectFinish, Finish
<1>17. ASSUME NEW h \in Hosts, NEW d \in Dials, DialClaim(h, d) PROVE AnswerCurrent'
  BY <1>17
  DEF DialClaim
<1>18. ASSUME NEW h \in Hosts, DialAllocate(h) PROVE AnswerCurrent'
  BY <1>18
  DEF DialAllocate
<1>19. ASSUME NEW h \in Hosts, DialBuild(h) PROVE AnswerCurrent'
  BY <1>19
  DEF DialBuild
<1>20. ASSUME NEW h \in Hosts, DialSend(h) PROVE AnswerCurrent'
  <2>1. UNCHANGED <<state, incoming, answered, media>> /\ sockets \subseteq sockets'
    BY <1>20 DEF DialSend
  <2>2. \A g \in Hosts : pc[g] \in {"ok200", "connect"} \/ pc'[g] \in {"ok200", "connect"}
                          => pc'[g] = pc[g] /\ leg'[g] = leg[g]
    BY <1>20 DEF DialSend
  <2>3. \A m \in Legs : log[m] \subseteq log'[m] /\ ("ok" \in log'[m] => "ok" \in log[m])
    BY <1>20 DEF DialSend
  <2>4. \A g \in Hosts : pc[g] = "connect" => leg[g] \in Legs
    OBVIOUS
  <2> HIDE DEF AnswerCurrent, TypeOK
  <2> QED
    BY <2>1, <2>2, <2>3, <2>4, AnswerKept
<1>21. ASSUME NEW h \in Hosts, DialFail(h) PROVE AnswerCurrent'
  BY <1>21
  DEF DialFail
<1>22. ASSUME NEW h \in Hosts, AnswerReserve(h) PROVE AnswerCurrent'
  BY <1>22
  DEF AnswerReserve
<1>23. ASSUME NEW h \in Hosts, AnswerAllocate(h) PROVE AnswerCurrent'
  <2>1. UNCHANGED <<state, incoming, answered, media>> /\ sockets \subseteq sockets'
    BY <1>23 DEF AnswerAllocate
  <2>2. \A g \in Hosts : pc[g] \in {"ok200", "connect"} \/ pc'[g] \in {"ok200", "connect"}
                          => pc'[g] = pc[g] /\ leg'[g] = leg[g]
    BY <1>23 DEF AnswerAllocate
  <2>3. \A m \in Legs : log[m] \subseteq log'[m] /\ ("ok" \in log'[m] => "ok" \in log[m])
    BY <1>23 DEF AnswerAllocate
  <2>4. \A g \in Hosts : pc[g] = "connect" => leg[g] \in Legs
    OBVIOUS
  <2> HIDE DEF AnswerCurrent, TypeOK
  <2> QED
    BY <2>1, <2>2, <2>3, <2>4, AnswerKept
<1>24. ASSUME NEW h \in Hosts, AnswerBind(h) PROVE AnswerCurrent'
  <2>1. CASE Pending(leg[h]) /\ preparing /\ media = None
    <3>1. /\ media' = leg[h] /\ answered' /\ pc' = [pc EXCEPT ![h] = "ok200"]
          /\ UNCHANGED <<state, incoming, sockets, leg, log, callID>>
      BY <1>24, <2>1 DEF AnswerBind
    <3>2. \A g \in Hosts : pc[g] \notin {"ok200", "connect"}
      BY <1>24 DEF AnswerBind
    <3>3. /\ incoming = leg[h] /\ leg[h] \in sockets /\ leg[h] \in Legs
          /\ state = "incoming" /\ incoming # None
      BY <1>24, <2>1 DEF AnswerBind
    <3>4. "ok" \notin log[incoming]
      BY <3>2, <3>3
    <3>5. \A g \in Hosts : pc'[g] \in {"ok200", "connect"} => g = h /\ pc'[g] = "ok200"
      BY <3>1, <3>2
    <3>6. pc'[h] = "ok200"
      BY <3>1
    <3> HIDE DEF AnswerReserved, WatchersCurrent, DialsClaimed, LegsFresh, LockHeld, Placed,
         LegCurrent, TypeOK, BindingFresh
    <3> QED
      BY <3>1, <3>3, <3>4, <3>5, <3>6
  <2>2. CASE ~(Pending(leg[h]) /\ preparing /\ media = None)
    <3>1. /\ UNCHANGED <<state, incoming, media, answered, log, callID>>
          /\ sockets' = sockets \ {leg[h]}
          /\ pc' = [pc EXCEPT ![h] = "idle"]
      BY <1>24, <2>2 DEF AnswerBind
    <3>2. media # leg[h] /\ pc[h] = "bind"
      BY <1>24 DEF AnswerBind
    <3>3. \A g \in Hosts : pc'[g] \in {"ok200", "connect"} => pc'[g] = pc[g] /\ leg'[g] = leg[g]
      BY <1>24, <2>2 DEF AnswerBind
    <3>4. \A g \in Hosts : pc[g] \notin {"ok200", "connect"}
      BY <1>24 DEF AnswerBind
    <3> HIDE DEF AnswerReserved, WatchersCurrent, DialsClaimed, LegsFresh, LockHeld
    <3> QED
      BY <3>1, <3>2, <3>3, <3>4
  <2> QED
    BY <2>1, <2>2
<1>25. ASSUME NEW h \in Hosts, AnswerSend(h) PROVE AnswerCurrent'
  BY <1>25
  DEF AnswerSend, Finish
<1>26. ASSUME NEW h \in Hosts, AnswerCommit(h) PROVE AnswerCurrent'
  BY <1>26
  DEF AnswerCommit
<1>27. ASSUME NEW h \in Hosts, Reject(h) PROVE AnswerCurrent'
  BY <1>27
  DEF Reject
<1>28. ASSUME NEW h \in Hosts, Hangup(h) PROVE AnswerCurrent'
  BY <1>28
  DEF Hangup
<1>29. ASSUME NEW h \in Hosts, HangupCancel(h) PROVE AnswerCurrent'
  <2>1. UNCHANGED <<state, incoming, answered, media>> /\ sockets \subseteq sockets'
    BY <1>29 DEF HangupCancel
  <2>2. \A g \in Hosts : pc[g] \in {"ok200", "connect"} \/ pc'[g] \in {"ok200", "connect"}
                          => pc'[g] = pc[g] /\ leg'[g] = leg[g]
    BY <1>29 DEF HangupCancel
  <2>3. \A m \in Legs : log[m] \subseteq log'[m] /\ ("ok" \in log'[m] => "ok" \in log[m])
    BY <1>29 DEF HangupCancel
  <2>4. \A g \in Hosts : pc[g] = "connect" => leg[g] \in Legs
    OBVIOUS
  <2> HIDE DEF AnswerCurrent, TypeOK
  <2> QED
    BY <2>1, <2>2, <2>3, <2>4, AnswerKept
<1>30. ASSUME NEW h \in Hosts, HangupBye(h) PROVE AnswerCurrent'
  BY <1>30
  DEF HangupBye
<1>31. ASSUME NEW h \in Hosts, HangupFinish(h) PROVE AnswerCurrent'
  BY <1>31
  DEF HangupFinish, Finish
<1>32. ASSUME NEW l \in Legs, TimerFire(l) PROVE AnswerCurrent'
  BY <1>32
  DEF TimerFire
<1>33. ASSUME NEW l \in Legs, Expire(l) PROVE AnswerCurrent'
  BY <1>33
  DEF Expire
<1>34. CASE CloseCancel
  BY <1>34
  DEF CloseCancel
<1>35. CASE Close
  BY <1>35
  DEF Close, Finish
<1>36. CASE UNCHANGED vars
  BY <1>36 DEF vars, callVars, inboundVars, outboundVars, mediaVars, threadVars, wireVars
<1> HIDE DEF AnswerCurrent
<1> QED
  BY <1>1, <1>2, <1>3, <1>4, <1>5, <1>6, <1>7, <1>8, <1>9, <1>10, <1>11, <1>12, <1>13,
     <1>14, <1>15, <1>16, <1>17, <1>18, <1>19, <1>20, <1>21, <1>22, <1>23, <1>24, <1>25,
     <1>26, <1>27, <1>28, <1>29, <1>30, <1>31, <1>32, <1>33, <1>34, <1>35, <1>36
  DEF Next, WatchNext, HandlerBegin, HandlerStep, HostBegin, HostStep, TimerNext

\* The endpoint stays that of the current call or of the offer being admitted.
LEMMA EndpointStep ==
  ASSUME TypeOK, Placed, LockHeld, LegsFresh, AnswerReserved, WatchersCurrent, DialsClaimed,
         LegCurrent, EndpointCurrent, [Next]_vars
  PROVE  EndpointCurrent'
<1> USE CallAssumption DEF TypeOK, CallTyped, ThreadsTyped, WireTyped, Respond, Send,
      Published, inboundVars, outboundVars, mediaVars, callVars, wireVars, Free, Pending,
      Placed, Threads, Hosts, Calls, Goto, Return, threadVars, DialPlaces, AdmitPlaces,
      RingPlaces, RejectPlaces, AnswerPlaces, EndPlaces, WatchPlaces, WatchersCurrent,
      Dialling, DialsClaimed, LockHeld, HoldPlaces, LegsFresh, AnswerReserved, LegCurrent,
      Established, SameTransaction, EndpointCurrent
<1>1. ASSUME NEW d \in Dials,
             WatchLease(d) \/ WatchDone(d) \/ WatchTimeout(d) \/ WatchReceive(d) \/
             WatchTrying(d) \/ WatchSession(d) \/ WatchProvisional(d) \/ WatchPrack(d) \/
             WatchAnswer(d) \/ WatchAck(d) \/ WatchBye(d) \/ WatchActivate(d) \/
             WatchReject(d) \/ WatchFinish(d)
      PROVE EndpointCurrent'
  BY <1>1
  DEF WatchLease, WatchDone, WatchTimeout, WatchReceive, WatchTrying, WatchSession,
      WatchProvisional, WatchPrack, WatchAnswer, WatchAck, WatchBye, WatchActivate,
      WatchReject, WatchFinish, Finish
<1>2. ASSUME NEW x \in Handlers, NEW i \in Invites, InviteRepeat(x, i) PROVE EndpointCurrent'
  BY <1>2
  DEF InviteRepeat
<1>3. ASSUME NEW x \in Handlers, NEW i \in Invites, InviteBusy(x, i) PROVE EndpointCurrent'
  BY <1>3
  DEF InviteBusy
<1>4. ASSUME NEW x \in Handlers, NEW i \in Invites, InviteNew(x, i) PROVE EndpointCurrent'
  BY <1>4
  DEF InviteNew
<1>5. ASSUME NEW x \in Handlers, NEW i \in Invites, HandleAck(x, i) PROVE EndpointCurrent'
  BY <1>5
  DEF HandleAck
<1>6. ASSUME NEW x \in Handlers, NEW i \in Invites, HandleCancel(x, i) PROVE EndpointCurrent'
  BY <1>6
  DEF HandleCancel
<1>7. ASSUME NEW x \in Handlers, NEW c \in ByeCalls, HandleBye(x, c) PROVE EndpointCurrent'
  BY <1>7
  DEF HandleBye
<1>8. ASSUME NEW x \in Handlers, InviteTrying(x) PROVE EndpointCurrent'
  BY <1>8
  DEF InviteTrying, Finish
<1>9. ASSUME NEW x \in Handlers, InviteOffer(x) PROVE EndpointCurrent'
  BY <1>9
  DEF InviteOffer
<1>10. ASSUME NEW x \in Handlers, InvitePublish(x) PROVE EndpointCurrent'
  BY <1>10
  DEF InvitePublish
<1>11. ASSUME NEW x \in Handlers, InviteRing(x) PROVE EndpointCurrent'
  BY <1>11
  DEF InviteRing, Finish
<1>12. ASSUME NEW x \in Handlers, InviteArm(x) PROVE EndpointCurrent'
  BY <1>12
  DEF InviteArm
<1>13. ASSUME NEW x \in Handlers, HandleByeFinish(x) PROVE EndpointCurrent'
  BY <1>13
  DEF HandleByeFinish, Finish
<1>14. ASSUME NEW t \in Hosts \cup Handlers \cup Legs, RejectRead(t) PROVE EndpointCurrent'
  BY <1>14
  DEF RejectRead
<1>15. ASSUME NEW t \in Hosts \cup Handlers \cup Legs, RejectSend(t) PROVE EndpointCurrent'
  BY <1>15
  DEF RejectSend
<1>16. ASSUME NEW t \in Hosts \cup Handlers \cup Legs, RejectFinish(t) PROVE EndpointCurrent'
  BY <1>16
  DEF RejectFinish, Finish
<1>17. ASSUME NEW h \in Hosts, NEW d \in Dials, DialClaim(h, d) PROVE EndpointCurrent'
  BY <1>17
  DEF DialClaim
<1>18. ASSUME NEW h \in Hosts, DialAllocate(h) PROVE EndpointCurrent'
  BY <1>18
  DEF DialAllocate
<1>19. ASSUME NEW h \in Hosts, DialBuild(h) PROVE EndpointCurrent'
  BY <1>19
  DEF DialBuild
<1>20. ASSUME NEW h \in Hosts, DialSend(h) PROVE EndpointCurrent'
  BY <1>20
  DEF DialSend
<1>21. ASSUME NEW h \in Hosts, DialFail(h) PROVE EndpointCurrent'
  BY <1>21
  DEF DialFail
<1>22. ASSUME NEW h \in Hosts, AnswerReserve(h) PROVE EndpointCurrent'
  BY <1>22
  DEF AnswerReserve
<1>23. ASSUME NEW h \in Hosts, AnswerAllocate(h) PROVE EndpointCurrent'
  BY <1>23
  DEF AnswerAllocate
<1>24. ASSUME NEW h \in Hosts, AnswerBind(h) PROVE EndpointCurrent'
  BY <1>24
  DEF AnswerBind
<1>25. ASSUME NEW h \in Hosts, AnswerSend(h) PROVE EndpointCurrent'
  BY <1>25
  DEF AnswerSend, Finish
<1>26. ASSUME NEW h \in Hosts, AnswerCommit(h) PROVE EndpointCurrent'
  BY <1>26
  DEF AnswerCommit
<1>27. ASSUME NEW h \in Hosts, Reject(h) PROVE EndpointCurrent'
  BY <1>27
  DEF Reject
<1>28. ASSUME NEW h \in Hosts, Hangup(h) PROVE EndpointCurrent'
  BY <1>28
  DEF Hangup
<1>29. ASSUME NEW h \in Hosts, HangupCancel(h) PROVE EndpointCurrent'
  BY <1>29, SMTT(30)
  DEF HangupCancel
<1>30. ASSUME NEW h \in Hosts, HangupBye(h) PROVE EndpointCurrent'
  BY <1>30
  DEF HangupBye
<1>31. ASSUME NEW h \in Hosts, HangupFinish(h) PROVE EndpointCurrent'
  BY <1>31
  DEF HangupFinish, Finish
<1>32. ASSUME NEW l \in Legs, TimerFire(l) PROVE EndpointCurrent'
  BY <1>32
  DEF TimerFire
<1>33. ASSUME NEW l \in Legs, Expire(l) PROVE EndpointCurrent'
  BY <1>33
  DEF Expire
<1>34. CASE CloseCancel
  BY <1>34
  DEF CloseCancel
<1>35. CASE Close
  BY <1>35
  DEF Close, Finish
<1>36. CASE UNCHANGED vars
  BY <1>36 DEF vars, callVars, inboundVars, outboundVars, mediaVars, threadVars, wireVars
<1> HIDE DEF EndpointCurrent
<1> QED
  BY <1>1, <1>2, <1>3, <1>4, <1>5, <1>6, <1>7, <1>8, <1>9, <1>10, <1>11, <1>12, <1>13,
     <1>14, <1>15, <1>16, <1>17, <1>18, <1>19, <1>20, <1>21, <1>22, <1>23, <1>24, <1>25,
     <1>26, <1>27, <1>28, <1>29, <1>30, <1>31, <1>32, <1>33, <1>34, <1>35, <1>36
  DEF Next, WatchNext, HandlerBegin, HandlerStep, HostBegin, HostStep, TimerNext

\* A leg that was refused is not answered, nor one that is answered refused.
LEMMA RefusedStep ==
  ASSUME TypeOK, Placed, LockHeld, LegsFresh, AnswerReserved, WatchersCurrent, DialsClaimed,
         LegCurrent, AnswerCurrent, RefusedIsOver, [Next]_vars
  PROVE  RefusedIsOver'
<1> USE CallAssumption DEF TypeOK, CallTyped, ThreadsTyped, WireTyped, Respond, Send,
      Published, inboundVars, outboundVars, mediaVars, callVars, wireVars, Free, Pending,
      Placed, Threads, Hosts, Calls, Goto, Return, threadVars, DialPlaces, AdmitPlaces,
      RingPlaces, RejectPlaces, AnswerPlaces, EndPlaces, WatchPlaces, WatchersCurrent,
      Dialling, DialsClaimed, LockHeld, HoldPlaces, LegsFresh, AnswerReserved, LegCurrent,
      Established, SameTransaction, AnswerCurrent, RefusedIsOver, Code
<1>1. ASSUME NEW d \in Dials,
             WatchLease(d) \/ WatchDone(d) \/ WatchTimeout(d) \/ WatchReceive(d) \/
             WatchTrying(d) \/ WatchSession(d) \/ WatchProvisional(d) \/ WatchPrack(d) \/
             WatchAnswer(d) \/ WatchAck(d) \/ WatchBye(d) \/ WatchActivate(d) \/
             WatchReject(d) \/ WatchFinish(d)
      PROVE RefusedIsOver'
  BY <1>1
  DEF WatchLease, WatchDone, WatchTimeout, WatchReceive, WatchTrying, WatchSession,
      WatchProvisional, WatchPrack, WatchAnswer, WatchAck, WatchBye, WatchActivate,
      WatchReject, WatchFinish, Finish
<1>2. ASSUME NEW x \in Handlers, NEW i \in Invites, InviteRepeat(x, i) PROVE RefusedIsOver'
  BY <1>2
  DEF InviteRepeat
<1>3. ASSUME NEW x \in Handlers, NEW i \in Invites, InviteBusy(x, i) PROVE RefusedIsOver'
  BY <1>3
  DEF InviteBusy
<1>4. ASSUME NEW x \in Handlers, NEW i \in Invites, InviteNew(x, i) PROVE RefusedIsOver'
  BY <1>4
  DEF InviteNew
<1>5. ASSUME NEW x \in Handlers, NEW i \in Invites, HandleAck(x, i) PROVE RefusedIsOver'
  BY <1>5
  DEF HandleAck
<1>6. ASSUME NEW x \in Handlers, NEW i \in Invites, HandleCancel(x, i) PROVE RefusedIsOver'
  BY <1>6
  DEF HandleCancel
<1>7. ASSUME NEW x \in Handlers, NEW c \in ByeCalls, HandleBye(x, c) PROVE RefusedIsOver'
  BY <1>7
  DEF HandleBye
<1>8. ASSUME NEW x \in Handlers, InviteTrying(x) PROVE RefusedIsOver'
  BY <1>8
  DEF InviteTrying, Finish
<1>9. ASSUME NEW x \in Handlers, InviteOffer(x) PROVE RefusedIsOver'
  BY <1>9
  DEF InviteOffer
<1>10. ASSUME NEW x \in Handlers, InvitePublish(x) PROVE RefusedIsOver'
  BY <1>10
  DEF InvitePublish
<1>11. ASSUME NEW x \in Handlers, InviteRing(x) PROVE RefusedIsOver'
  BY <1>11
  DEF InviteRing, Finish
<1>12. ASSUME NEW x \in Handlers, InviteArm(x) PROVE RefusedIsOver'
  BY <1>12
  DEF InviteArm
<1>13. ASSUME NEW x \in Handlers, HandleByeFinish(x) PROVE RefusedIsOver'
  BY <1>13
  DEF HandleByeFinish, Finish
<1>14. ASSUME NEW t \in Hosts \cup Handlers \cup Legs, RejectRead(t) PROVE RefusedIsOver'
  BY <1>14, SMTT(30)
  DEF RejectRead
<1>15. ASSUME NEW t \in Hosts \cup Handlers \cup Legs, RejectSend(t) PROVE RefusedIsOver'
  BY <1>15, SMTT(30)
  DEF RejectSend
<1>16. ASSUME NEW t \in Hosts \cup Handlers \cup Legs, RejectFinish(t) PROVE RefusedIsOver'
  BY <1>16
  DEF RejectFinish, Finish
<1>17. ASSUME NEW h \in Hosts, NEW d \in Dials, DialClaim(h, d) PROVE RefusedIsOver'
  BY <1>17
  DEF DialClaim
<1>18. ASSUME NEW h \in Hosts, DialAllocate(h) PROVE RefusedIsOver'
  BY <1>18
  DEF DialAllocate
<1>19. ASSUME NEW h \in Hosts, DialBuild(h) PROVE RefusedIsOver'
  BY <1>19
  DEF DialBuild
<1>20. ASSUME NEW h \in Hosts, DialSend(h) PROVE RefusedIsOver'
  <2>1. PICK e \in Dials : e = call[h]
    BY <1>20 DEF DialSend
  <2>2. \A t \in Handlers \cup Legs : pc'[t] = pc[t]
    BY <1>20, <2>1 DEF DialSend
  <2>3. \A g \in Hosts : pc'[g] = "ok200" => pc[g] = "ok200"
    BY <1>20, <2>1 DEF DialSend
  <2>4. UNCHANGED <<incoming, leg, log>>
    BY <1>20 DEF DialSend
  <2> QED
    BY <2>2, <2>3, <2>4
<1>21. ASSUME NEW h \in Hosts, DialFail(h) PROVE RefusedIsOver'
  BY <1>21
  DEF DialFail
<1>22. ASSUME NEW h \in Hosts, AnswerReserve(h) PROVE RefusedIsOver'
  BY <1>22
  DEF AnswerReserve
<1>23. ASSUME NEW h \in Hosts, AnswerAllocate(h) PROVE RefusedIsOver'
  BY <1>23, SMTT(30)
  DEF AnswerAllocate
<1>24. ASSUME NEW h \in Hosts, AnswerBind(h) PROVE RefusedIsOver'
  <2>1. /\ UNCHANGED <<incoming, log>>
        /\ \A t \in Handlers \cup Legs : pc'[t] = pc[t] /\ leg'[t] = leg[t]
    BY <1>24 DEF AnswerBind
  <2>2. \A t \in Handlers \cup Legs : pc[t] # "over"
    BY <1>24 DEF AnswerBind
  <2>3. \A g \in Hosts : pc'[g] = "ok200" => leg'[g] = leg[g] /\
                                      (pc[g] = "ok200" \/ leg[g] = incoming)
    BY <1>24 DEF AnswerBind
  <2> HIDE DEF LegsFresh, LegCurrent, LockHeld, AnswerCurrent, AnswerReserved,
       WatchersCurrent, DialsClaimed
  <2> QED
    BY <2>1, <2>2, <2>3
<1>25. ASSUME NEW h \in Hosts, AnswerSend(h) PROVE RefusedIsOver'
  <2>1. CASE Finish("failed") /\ Return(h) /\ UNCHANGED wireVars
    <3>1. \A t \in Handlers \cup Legs : pc'[t] = pc[t]
      BY <1>25, <2>1 DEF AnswerSend
    <3>2. \A g \in Hosts : pc'[g] = "ok200" => pc[g] = "ok200" /\ leg'[g] = leg[g]
      BY <1>25, <2>1 DEF AnswerSend
    <3>3. incoming' = None /\ log' = log
      BY <2>1 DEF Finish
    <3>4. \A t \in Handlers \cup Legs : pc[t] # "decline"
      BY <1>25 DEF AnswerSend
    <3> HIDE DEF LegsFresh, LegCurrent, LockHeld, AnswerCurrent, AnswerReserved
    <3> QED
      BY <3>1, <3>2, <3>3, <3>4
  <2>2. CASE Respond(leg[h], "ok") /\ Goto(h, "connect") /\ UNCHANGED callVars
    <3>1. /\ \A t \in Handlers \cup Legs : pc'[t] = pc[t]
          /\ UNCHANGED <<incoming, leg>>
      BY <1>25, <2>2 DEF AnswerSend
    <3>2. \A g \in Hosts : pc'[g] = "ok200" => pc[g] = "ok200"
      BY <1>25, <2>2 DEF AnswerSend
    <3>3. \A t \in Handlers \cup Legs : pc[t] # "decline"
      BY <1>25 DEF AnswerSend
    <3>4. pc[h] = "ok200" /\ leg[h] \in Legs
      BY <1>25 DEF AnswerSend
    <3>5. \A l \in Legs : log'[l] = log[l] \/ (l = leg[h] /\ log'[l] = log[l] \cup {"ok"})
      BY <2>2
    <3> HIDE DEF LegsFresh, LegCurrent, LockHeld, AnswerCurrent, AnswerReserved
    <3> QED
      BY <3>1, <3>2, <3>3, <3>4, <3>5
  <2> QED
    BY <1>25, <2>1, <2>2 DEF AnswerSend
<1>26. ASSUME NEW h \in Hosts, AnswerCommit(h) PROVE RefusedIsOver'
  BY <1>26
  DEF AnswerCommit
<1>27. ASSUME NEW h \in Hosts, Reject(h) PROVE RefusedIsOver'
  BY <1>27
  DEF Reject
<1>28. ASSUME NEW h \in Hosts, Hangup(h) PROVE RefusedIsOver'
  BY <1>28
  DEF Hangup
<1>29. ASSUME NEW h \in Hosts, HangupCancel(h) PROVE RefusedIsOver'
  BY <1>29
  DEF HangupCancel
<1>30. ASSUME NEW h \in Hosts, HangupBye(h) PROVE RefusedIsOver'
  BY <1>30
  DEF HangupBye
<1>31. ASSUME NEW h \in Hosts, HangupFinish(h) PROVE RefusedIsOver'
  BY <1>31
  DEF HangupFinish, Finish
<1>32. ASSUME NEW l \in Legs, TimerFire(l) PROVE RefusedIsOver'
  BY <1>32
  DEF TimerFire
<1>33. ASSUME NEW l \in Legs, Expire(l) PROVE RefusedIsOver'
  BY <1>33
  DEF Expire
<1>34. CASE CloseCancel
  BY <1>34
  DEF CloseCancel
<1>35. CASE Close
  BY <1>35
  DEF Close, Finish
<1>36. CASE UNCHANGED vars
  BY <1>36 DEF vars, callVars, inboundVars, outboundVars, mediaVars, threadVars, wireVars
<1> HIDE DEF RefusedIsOver
<1> QED
  BY <1>1, <1>2, <1>3, <1>4, <1>5, <1>6, <1>7, <1>8, <1>9, <1>10, <1>11, <1>12, <1>13,
     <1>14, <1>15, <1>16, <1>17, <1>18, <1>19, <1>20, <1>21, <1>22, <1>23, <1>24, <1>25,
     <1>26, <1>27, <1>28, <1>29, <1>30, <1>31, <1>32, <1>33, <1>34, <1>35, <1>36
  DEF Next, WatchNext, HandlerBegin, HandlerStep, HostBegin, HostStep, TimerNext

-----------------------------------------------------------------------------
(* Steps: Dials *)

\* The slot stays claimed by the dial that has it.
LEMMA DialsStep ==
  ASSUME TypeOK, Placed, WatchersCurrent, WatchersCurrent', DialsClaimed, [Next]_vars
  PROVE  DialsClaimed'
<1> USE CallAssumption DEF TypeOK, CallTyped, ThreadsTyped, WireTyped, Respond, Send,
      inboundVars, outboundVars, mediaVars, callVars, wireVars, Free, Pending, Placed,
      Threads, Hosts, Calls, Goto, Return, threadVars, DialPlaces, AdmitPlaces, RingPlaces,
      RejectPlaces, AnswerPlaces, EndPlaces, WatchPlaces, WatchersCurrent, Dialling,
      DialsClaimed
<1>1. ASSUME NEW d \in Dials, WatchLease(d) PROVE DialsClaimed'
  BY <1>1
  DEF WatchLease
<1>2. ASSUME NEW d \in Dials, WatchDone(d) PROVE DialsClaimed'
  BY <1>2
  DEF WatchDone
<1>3. ASSUME NEW d \in Dials, WatchTimeout(d) PROVE DialsClaimed'
  BY <1>3
  DEF WatchTimeout
<1>4. ASSUME NEW d \in Dials, WatchReceive(d) PROVE DialsClaimed'
  BY <1>4
  DEF WatchReceive
<1>5. ASSUME NEW d \in Dials, WatchTrying(d) PROVE DialsClaimed'
  BY <1>5
  DEF WatchTrying
<1>6. ASSUME NEW d \in Dials, WatchSession(d) PROVE DialsClaimed'
  BY <1>6
  DEF WatchSession
<1>7. ASSUME NEW d \in Dials, WatchProvisional(d) PROVE DialsClaimed'
  BY <1>7
  DEF WatchProvisional
<1>8. ASSUME NEW d \in Dials, WatchPrack(d) PROVE DialsClaimed'
  BY <1>8
  DEF WatchPrack
<1>9. ASSUME NEW d \in Dials, WatchAnswer(d) PROVE DialsClaimed'
  BY <1>9
  DEF WatchAnswer
<1>10. ASSUME NEW d \in Dials, WatchAck(d) PROVE DialsClaimed'
  BY <1>10
  DEF WatchAck
<1>11. ASSUME NEW d \in Dials, WatchBye(d) PROVE DialsClaimed'
  BY <1>11
  DEF WatchBye
<1>12. ASSUME NEW d \in Dials, WatchActivate(d) PROVE DialsClaimed'
  BY <1>12
  DEF WatchActivate
<1>13. ASSUME NEW d \in Dials, WatchReject(d) PROVE DialsClaimed'
  BY <1>13
  DEF WatchReject
<1>14. ASSUME NEW d \in Dials, WatchFinish(d) PROVE DialsClaimed'
  BY <1>14
  DEF WatchFinish, Finish
<1>15. ASSUME NEW x \in Handlers, NEW i \in Invites, InviteRepeat(x, i) PROVE DialsClaimed'
  BY <1>15
  DEF InviteRepeat
<1>16. ASSUME NEW x \in Handlers, NEW i \in Invites, InviteBusy(x, i) PROVE DialsClaimed'
  BY <1>16
  DEF InviteBusy
<1>17. ASSUME NEW x \in Handlers, NEW i \in Invites, InviteNew(x, i) PROVE DialsClaimed'
  BY <1>17
  DEF InviteNew
<1>18. ASSUME NEW x \in Handlers, NEW i \in Invites, HandleAck(x, i) PROVE DialsClaimed'
  BY <1>18
  DEF HandleAck
<1>19. ASSUME NEW x \in Handlers, NEW i \in Invites, HandleCancel(x, i) PROVE DialsClaimed'
  BY <1>19
  DEF HandleCancel
<1>20. ASSUME NEW x \in Handlers, NEW c \in ByeCalls, HandleBye(x, c) PROVE DialsClaimed'
  BY <1>20
  DEF HandleBye
<1>21. ASSUME NEW x \in Handlers, InviteTrying(x) PROVE DialsClaimed'
  BY <1>21
  DEF InviteTrying, Finish
<1>22. ASSUME NEW x \in Handlers, InviteOffer(x) PROVE DialsClaimed'
  BY <1>22
  DEF InviteOffer
<1>23. ASSUME NEW x \in Handlers, InvitePublish(x) PROVE DialsClaimed'
  BY <1>23
  DEF InvitePublish
<1>24. ASSUME NEW x \in Handlers, InviteRing(x) PROVE DialsClaimed'
  BY <1>24
  DEF InviteRing, Finish
<1>25. ASSUME NEW x \in Handlers, InviteArm(x) PROVE DialsClaimed'
  BY <1>25
  DEF InviteArm
<1>26. ASSUME NEW x \in Handlers, HandleByeFinish(x) PROVE DialsClaimed'
  BY <1>26
  DEF HandleByeFinish, Finish
<1>27. ASSUME NEW t \in Hosts \cup Handlers \cup Legs, RejectRead(t) PROVE DialsClaimed'
  BY <1>27, SMTT(30)
  DEF RejectRead
<1>28. ASSUME NEW t \in Hosts \cup Handlers \cup Legs, RejectSend(t) PROVE DialsClaimed'
  BY <1>28
  DEF RejectSend
<1>29. ASSUME NEW t \in Hosts \cup Handlers \cup Legs, RejectFinish(t) PROVE DialsClaimed'
  BY <1>29
  DEF RejectFinish, Finish
<1>30. ASSUME NEW h \in Hosts, NEW d \in Dials, DialClaim(h, d) PROVE DialsClaimed'
  BY <1>30
  DEF DialClaim
<1>31. ASSUME NEW h \in Hosts, DialAllocate(h) PROVE DialsClaimed'
  BY <1>31
  DEF DialAllocate
<1>32. ASSUME NEW h \in Hosts, DialBuild(h) PROVE DialsClaimed'
  BY <1>32
  DEF DialBuild
<1>33. ASSUME NEW h \in Hosts, DialSend(h) PROVE DialsClaimed'
  BY <1>33, SMTT(30)
  DEF DialSend
<1>34. ASSUME NEW h \in Hosts, DialFail(h) PROVE DialsClaimed'
  BY <1>34
  DEF DialFail
<1>35. ASSUME NEW h \in Hosts, AnswerReserve(h) PROVE DialsClaimed'
  BY <1>35
  DEF AnswerReserve
<1>36. ASSUME NEW h \in Hosts, AnswerAllocate(h) PROVE DialsClaimed'
  BY <1>36
  DEF AnswerAllocate
<1>37. ASSUME NEW h \in Hosts, AnswerBind(h) PROVE DialsClaimed'
  BY <1>37
  DEF AnswerBind
<1>38. ASSUME NEW h \in Hosts, AnswerSend(h) PROVE DialsClaimed'
  BY <1>38
  DEF AnswerSend, Finish
<1>39. ASSUME NEW h \in Hosts, AnswerCommit(h) PROVE DialsClaimed'
  BY <1>39
  DEF AnswerCommit
<1>40. ASSUME NEW h \in Hosts, Reject(h) PROVE DialsClaimed'
  BY <1>40
  DEF Reject
<1>41. ASSUME NEW h \in Hosts, Hangup(h) PROVE DialsClaimed'
  BY <1>41
  DEF Hangup
<1>42. ASSUME NEW h \in Hosts, HangupCancel(h) PROVE DialsClaimed'
  BY <1>42
  DEF HangupCancel
<1>43. ASSUME NEW h \in Hosts, HangupBye(h) PROVE DialsClaimed'
  BY <1>43
  DEF HangupBye
<1>44. ASSUME NEW h \in Hosts, HangupFinish(h) PROVE DialsClaimed'
  BY <1>44
  DEF HangupFinish, Finish
<1>45. ASSUME NEW l \in Legs, TimerFire(l) PROVE DialsClaimed'
  BY <1>45
  DEF TimerFire
<1>46. ASSUME NEW l \in Legs, Expire(l) PROVE DialsClaimed'
  BY <1>46
  DEF Expire
<1>47. CASE CloseCancel
  BY <1>47
  DEF CloseCancel
<1>48. CASE Close
  BY <1>48
  DEF Close, Finish
<1>49. CASE UNCHANGED vars
  BY <1>49 DEF vars, callVars, inboundVars, outboundVars, mediaVars, threadVars, wireVars
<1> HIDE DEF DialsClaimed
<1> QED
  BY <1>1, <1>2, <1>3, <1>4, <1>5, <1>6, <1>7, <1>8, <1>9, <1>10, <1>11, <1>12, <1>13,
     <1>14, <1>15, <1>16, <1>17, <1>18, <1>19, <1>20, <1>21, <1>22, <1>23, <1>24, <1>25,
     <1>26, <1>27, <1>28, <1>29, <1>30, <1>31, <1>32, <1>33, <1>34, <1>35, <1>36, <1>37,
     <1>38, <1>39, <1>40, <1>41, <1>42, <1>43, <1>44, <1>45, <1>46, <1>47, <1>48, <1>49
  DEF Next, WatchNext, HandlerBegin, HandlerStep, HostBegin, HostStep, TimerNext

\* What a dial has made for its call stays there while its watcher runs.
LEMMA WholeStep ==
  ASSUME TypeOK, Placed, LockHeld, WatchersCurrent, WatchersCurrent', DialsClaimed, LegsFresh,
         LegCurrent, EndpointCurrent, DialWhole, [Next]_vars
  PROVE  DialWhole'
<1> USE CallAssumption DEF TypeOK, CallTyped, ThreadsTyped, WireTyped, Respond, Send,
      inboundVars, outboundVars, mediaVars, callVars, wireVars, Free, Pending, Placed,
      Threads, Hosts, Calls, Goto, Return, threadVars, DialPlaces, AdmitPlaces, RingPlaces,
      RejectPlaces, AnswerPlaces, EndPlaces, WatchPlaces, WatchersCurrent, Dialling,
      DialsClaimed, LockHeld, HoldPlaces, LegsFresh, Published, LegCurrent, Established,
      EndpointCurrent, DialWhole
<1>1. ASSUME NEW d \in Dials, WatchLease(d) PROVE DialWhole'
  BY <1>1
  DEF WatchLease
<1>2. ASSUME NEW d \in Dials, WatchDone(d) PROVE DialWhole'
  BY <1>2
  DEF WatchDone
<1>3. ASSUME NEW d \in Dials, WatchTimeout(d) PROVE DialWhole'
  BY <1>3
  DEF WatchTimeout
<1>4. ASSUME NEW d \in Dials, WatchReceive(d) PROVE DialWhole'
  BY <1>4
  DEF WatchReceive
<1>5. ASSUME NEW d \in Dials, WatchTrying(d) PROVE DialWhole'
  BY <1>5
  DEF WatchTrying
<1>6. ASSUME NEW d \in Dials, WatchSession(d) PROVE DialWhole'
  BY <1>6
  DEF WatchSession
<1>7. ASSUME NEW d \in Dials, WatchProvisional(d) PROVE DialWhole'
  BY <1>7
  DEF WatchProvisional
<1>8. ASSUME NEW d \in Dials, WatchPrack(d) PROVE DialWhole'
  BY <1>8
  DEF WatchPrack
<1>9. ASSUME NEW d \in Dials, WatchAnswer(d) PROVE DialWhole'
  BY <1>9
  DEF WatchAnswer
<1>10. ASSUME NEW d \in Dials, WatchAck(d) PROVE DialWhole'
  BY <1>10
  DEF WatchAck
<1>11. ASSUME NEW d \in Dials, WatchBye(d) PROVE DialWhole'
  BY <1>11
  DEF WatchBye
<1>12. ASSUME NEW d \in Dials, WatchActivate(d) PROVE DialWhole'
  BY <1>12
  DEF WatchActivate
<1>13. ASSUME NEW d \in Dials, WatchReject(d) PROVE DialWhole'
  BY <1>13
  DEF WatchReject
<1>14. ASSUME NEW d \in Dials, WatchFinish(d) PROVE DialWhole'
  BY <1>14
  DEF WatchFinish, Finish
<1>15. ASSUME NEW x \in Handlers, NEW i \in Invites, InviteRepeat(x, i) PROVE DialWhole'
  BY <1>15
  DEF InviteRepeat
<1>16. ASSUME NEW x \in Handlers, NEW i \in Invites, InviteBusy(x, i) PROVE DialWhole'
  BY <1>16
  DEF InviteBusy
<1>17. ASSUME NEW x \in Handlers, NEW i \in Invites, InviteNew(x, i) PROVE DialWhole'
  BY <1>17
  DEF InviteNew
<1>18. ASSUME NEW x \in Handlers, NEW i \in Invites, HandleAck(x, i) PROVE DialWhole'
  BY <1>18
  DEF HandleAck
<1>19. ASSUME NEW x \in Handlers, NEW i \in Invites, HandleCancel(x, i) PROVE DialWhole'
  BY <1>19
  DEF HandleCancel
<1>20. ASSUME NEW x \in Handlers, NEW c \in ByeCalls, HandleBye(x, c) PROVE DialWhole'
  BY <1>20
  DEF HandleBye
<1>21. ASSUME NEW x \in Handlers, InviteTrying(x) PROVE DialWhole'
  BY <1>21, SMTT(30)
  DEF InviteTrying, Finish
<1>22. ASSUME NEW x \in Handlers, InviteOffer(x) PROVE DialWhole'
  BY <1>22
  DEF InviteOffer
<1>23. ASSUME NEW x \in Handlers, InvitePublish(x) PROVE DialWhole'
  BY <1>23
  DEF InvitePublish
<1>24. ASSUME NEW x \in Handlers, InviteRing(x) PROVE DialWhole'
  BY <1>24, SMTT(30)
  DEF InviteRing, Finish
<1>25. ASSUME NEW x \in Handlers, InviteArm(x) PROVE DialWhole'
  BY <1>25
  DEF InviteArm
<1>26. ASSUME NEW x \in Handlers, HandleByeFinish(x) PROVE DialWhole'
  BY <1>26, SMTT(30)
  DEF HandleByeFinish, Finish
<1>27. ASSUME NEW t \in Hosts \cup Handlers \cup Legs, RejectRead(t) PROVE DialWhole'
  BY <1>27
  DEF RejectRead
<1>28. ASSUME NEW t \in Hosts \cup Handlers \cup Legs, RejectSend(t) PROVE DialWhole'
  BY <1>28
  DEF RejectSend
<1>29. ASSUME NEW t \in Hosts \cup Handlers \cup Legs, RejectFinish(t) PROVE DialWhole'
  <2>1. CASE Finish("ended")
    <3>1. \A d \in Dials : pc'[d] = pc[d] /\ pc[d] \in {"idle", "gone", "panicked"}
      BY <1>29, <2>1 DEF RejectFinish, Finish
    <3>2. \A g \in Hosts : pc[g] \in {"build", "send"} => pc'[g] = pc[g]
      BY <1>29 DEF RejectFinish
    <3>3. \A g \in Hosts : pc'[g] \notin {"build", "send"}
      BY <1>29, <3>1 DEF RejectFinish
    <3>4. was' = was /\ state' # "active"
      BY <1>29, <2>1 DEF RejectFinish, Finish
    <3> QED
      BY <3>1, <3>3, <3>4
  <2> QED
    BY <1>29, <2>1 DEF RejectFinish
<1>30. ASSUME NEW h \in Hosts, NEW d \in Dials, DialClaim(h, d) PROVE DialWhole'
  <2>1. \A e \in Dials : e # d => pc'[e] = pc[e] /\ pc[e] \in {"idle", "gone", "panicked"}
    BY <1>30 DEF DialClaim
  <2>2. pc'[d] = "dialing" /\ ~was[d] /\ was' = was /\ state' = "outgoing"
    BY <1>30 DEF DialClaim
  <2>3. \A g \in Hosts : pc'[g] \notin {"build", "send"}
    BY <1>30 DEF DialClaim
  <2> QED
    BY <2>1, <2>2, <2>3
<1>31. ASSUME NEW h \in Hosts, DialAllocate(h) PROVE DialWhole'
  BY <1>31
  DEF DialAllocate
<1>32. ASSUME NEW h \in Hosts, DialBuild(h) PROVE DialWhole'
  BY <1>32
  DEF DialBuild
<1>33. ASSUME NEW h \in Hosts, DialSend(h) PROVE DialWhole'
  <2>1. PICK e \in Dials : e = call[h] /\ pc[e] = "dialing"
    BY <1>33 DEF DialSend
  <2>2. \A f \in Dials : pc'[f] = pc[f] \/ (f = e /\ pc'[f] = "lease")
    BY <1>33, <2>1 DEF DialSend
  <2>3. \A g \in Hosts : pc'[g] \in {"build", "send"} => pc'[g] = pc[g] /\ call'[g] = call[g]
    BY <1>33, <2>1 DEF DialSend
  <2>4. /\ UNCHANGED <<state, callID, media, sockets, invite, remoteRTP, was>>
        /\ \A f \in Dials : sent[f] \subseteq sent'[f]
    BY <1>33, SMTT(30) DEF DialSend
  <2>5. invite = e /\ media = e /\ e \in sockets /\ ~was[e]
    BY <1>33, <2>1 DEF DialSend
  <2> QED
    BY <2>2, <2>3, <2>4, <2>5
<1>34. ASSUME NEW h \in Hosts, DialFail(h) PROVE DialWhole'
  BY <1>34
  DEF DialFail
<1>35. ASSUME NEW h \in Hosts, AnswerReserve(h) PROVE DialWhole'
  BY <1>35
  DEF AnswerReserve
<1>36. ASSUME NEW h \in Hosts, AnswerAllocate(h) PROVE DialWhole'
  BY <1>36
  DEF AnswerAllocate
<1>37. ASSUME NEW h \in Hosts, AnswerBind(h) PROVE DialWhole'
  BY <1>37, SMTT(30)
  DEF AnswerBind
<1>38. ASSUME NEW h \in Hosts, AnswerSend(h) PROVE DialWhole'
  <2>1. CASE Finish("failed")
    <3>1. \A d \in Dials : pc'[d] = pc[d] /\ pc[d] \in {"idle", "gone", "panicked"}
      BY <1>38, <2>1 DEF AnswerSend, Finish
    <3>2. \A g \in Hosts : pc[g] \in {"build", "send"} => pc'[g] = pc[g]
      BY <1>38 DEF AnswerSend
    <3>3. \A g \in Hosts : pc'[g] \notin {"build", "send"}
      BY <1>38, <3>1, SMTT(30) DEF AnswerSend
    <3>4. was' = was /\ state' # "active"
      BY <1>38, <2>1 DEF AnswerSend, Finish
    <3> QED
      BY <3>1, <3>3, <3>4
  <2>2. CASE UNCHANGED <<callVars, finalMu>> /\ Goto(h, "connect")
    <3>1. \A d \in Dials : pc'[d] = pc[d] /\ sent'[d] = sent[d]
      BY <1>38, <2>2 DEF AnswerSend
    <3>2. \A g \in Hosts : pc'[g] \in {"build", "send"} => pc'[g] = pc[g]
      BY <1>38, <2>2 DEF AnswerSend
    <3>3. UNCHANGED <<state, callID, media, sockets, invite, remoteRTP, was, call>>
      BY <1>38, <2>2 DEF AnswerSend
    <3> QED
      BY <3>1, <3>2, <3>3
  <2> QED
    BY <1>38, <2>1, <2>2 DEF AnswerSend
<1>39. ASSUME NEW h \in Hosts, AnswerCommit(h) PROVE DialWhole'
  BY <1>39
  DEF AnswerCommit
<1>40. ASSUME NEW h \in Hosts, Reject(h) PROVE DialWhole'
  BY <1>40
  DEF Reject
<1>41. ASSUME NEW h \in Hosts, Hangup(h) PROVE DialWhole'
  BY <1>41
  DEF Hangup
<1>42. ASSUME NEW h \in Hosts, HangupCancel(h) PROVE DialWhole'
  <2>1. \A f \in Dials : pc'[f] = pc[f] /\ sent[f] \subseteq sent'[f]
    BY <1>42 DEF HangupCancel
  <2>2. \A g \in Hosts : pc'[g] \in {"build", "send"} => pc'[g] = pc[g] /\ call'[g] = call[g]
    BY <1>42 DEF HangupCancel
  <2>3. UNCHANGED <<state, callID, media, sockets, invite, remoteRTP, was>>
    BY <1>42 DEF HangupCancel
  <2> QED
    BY <2>1, <2>2, <2>3
<1>43. ASSUME NEW h \in Hosts, HangupBye(h) PROVE DialWhole'
  BY <1>43
  DEF HangupBye
<1>44. ASSUME NEW h \in Hosts, HangupFinish(h) PROVE DialWhole'
  BY <1>44, SMTT(30)
  DEF HangupFinish, Finish
<1>45. ASSUME NEW l \in Legs, TimerFire(l) PROVE DialWhole'
  BY <1>45
  DEF TimerFire
<1>46. ASSUME NEW l \in Legs, Expire(l) PROVE DialWhole'
  BY <1>46
  DEF Expire
<1>47. CASE CloseCancel
  BY <1>47
  DEF CloseCancel
<1>48. CASE Close
  BY <1>48
  DEF Close, Finish
<1>49. CASE UNCHANGED vars
  BY <1>49 DEF vars, callVars, inboundVars, outboundVars, mediaVars, threadVars, wireVars
<1> HIDE DEF DialWhole
<1> QED
  BY <1>1, <1>2, <1>3, <1>4, <1>5, <1>6, <1>7, <1>8, <1>9, <1>10, <1>11, <1>12, <1>13,
     <1>14, <1>15, <1>16, <1>17, <1>18, <1>19, <1>20, <1>21, <1>22, <1>23, <1>24, <1>25,
     <1>26, <1>27, <1>28, <1>29, <1>30, <1>31, <1>32, <1>33, <1>34, <1>35, <1>36, <1>37,
     <1>38, <1>39, <1>40, <1>41, <1>42, <1>43, <1>44, <1>45, <1>46, <1>47, <1>48, <1>49
  DEF Next, WatchNext, HandlerBegin, HandlerStep, HostBegin, HostStep, TimerNext

\* A watcher that knew of the hangup leaves the slot free.
LEMMA RacedStep ==
  ASSUME TypeOK, Placed, LockHeld, WatchersCurrent, WatchersCurrent', DialsClaimed,
         LegCurrent, DialWhole, RacedAnswerReleased, [Next]_vars
  PROVE  RacedAnswerReleased'
<1> USE CallAssumption DEF TypeOK, CallTyped, ThreadsTyped, WireTyped, Respond, Send,
      inboundVars, outboundVars, mediaVars, callVars, wireVars, Free, Pending, Placed,
      Threads, Hosts, Calls, Goto, Return, threadVars, DialPlaces, AdmitPlaces, RingPlaces,
      RejectPlaces, AnswerPlaces, EndPlaces, WatchPlaces, WatchersCurrent, Dialling,
      DialsClaimed, LegCurrent, Established, DialWhole, RacedAnswerReleased
<1>1. ASSUME NEW d \in Dials, WatchLease(d) PROVE RacedAnswerReleased'
  BY <1>1
  DEF WatchLease
<1>2. ASSUME NEW d \in Dials, WatchDone(d) PROVE RacedAnswerReleased'
  BY <1>2
  DEF WatchDone
<1>3. ASSUME NEW d \in Dials, WatchTimeout(d) PROVE RacedAnswerReleased'
  BY <1>3
  DEF WatchTimeout
<1>4. ASSUME NEW d \in Dials, WatchReceive(d) PROVE RacedAnswerReleased'
  BY <1>4
  DEF WatchReceive
<1>5. ASSUME NEW d \in Dials, WatchTrying(d) PROVE RacedAnswerReleased'
  BY <1>5
  DEF WatchTrying
<1>6. ASSUME NEW d \in Dials, WatchSession(d) PROVE RacedAnswerReleased'
  BY <1>6
  DEF WatchSession
<1>7. ASSUME NEW d \in Dials, WatchProvisional(d) PROVE RacedAnswerReleased'
  BY <1>7
  DEF WatchProvisional
<1>8. ASSUME NEW d \in Dials, WatchPrack(d) PROVE RacedAnswerReleased'
  BY <1>8
  DEF WatchPrack
<1>9. ASSUME NEW d \in Dials, WatchAnswer(d) PROVE RacedAnswerReleased'
  BY <1>9
  DEF WatchAnswer
<1>10. ASSUME NEW d \in Dials, WatchAck(d) PROVE RacedAnswerReleased'
  BY <1>10
  DEF WatchAck
<1>11. ASSUME NEW d \in Dials, WatchBye(d) PROVE RacedAnswerReleased'
  BY <1>11
  DEF WatchBye
<1>12. ASSUME NEW d \in Dials, WatchActivate(d) PROVE RacedAnswerReleased'
  BY <1>12
  DEF WatchActivate
<1>13. ASSUME NEW d \in Dials, WatchReject(d) PROVE RacedAnswerReleased'
  BY <1>13
  DEF WatchReject
<1>14. ASSUME NEW d \in Dials, WatchFinish(d) PROVE RacedAnswerReleased'
  BY <1>14
  DEF WatchFinish, Finish
<1>15. ASSUME NEW x \in Handlers, NEW i \in Invites,
              InviteRepeat(x, i)
       PROVE RacedAnswerReleased'
  BY <1>15
  DEF InviteRepeat
<1>16. ASSUME NEW x \in Handlers, NEW i \in Invites,
              InviteBusy(x, i)
       PROVE RacedAnswerReleased'
  BY <1>16
  DEF InviteBusy
<1>17. ASSUME NEW x \in Handlers, NEW i \in Invites, InviteNew(x, i) PROVE RacedAnswerReleased'
  BY <1>17
  DEF InviteNew
<1>18. ASSUME NEW x \in Handlers, NEW i \in Invites, HandleAck(x, i) PROVE RacedAnswerReleased'
  BY <1>18
  DEF HandleAck
<1>19. ASSUME NEW x \in Handlers, NEW i \in Invites,
              HandleCancel(x, i)
       PROVE RacedAnswerReleased'
  BY <1>19
  DEF HandleCancel
<1>20. ASSUME NEW x \in Handlers, NEW c \in ByeCalls,
              HandleBye(x, c)
       PROVE RacedAnswerReleased'
  BY <1>20
  DEF HandleBye
<1>21. ASSUME NEW x \in Handlers, InviteTrying(x) PROVE RacedAnswerReleased'
  BY <1>21
  DEF InviteTrying, Finish
<1>22. ASSUME NEW x \in Handlers, InviteOffer(x) PROVE RacedAnswerReleased'
  BY <1>22
  DEF InviteOffer
<1>23. ASSUME NEW x \in Handlers, InvitePublish(x) PROVE RacedAnswerReleased'
  <2>1. callID' \in Invites
    BY <1>23 DEF InvitePublish
  <2> QED
    BY <2>1
<1>24. ASSUME NEW x \in Handlers, InviteRing(x) PROVE RacedAnswerReleased'
  BY <1>24
  DEF InviteRing, Finish
<1>25. ASSUME NEW x \in Handlers, InviteArm(x) PROVE RacedAnswerReleased'
  BY <1>25
  DEF InviteArm
<1>26. ASSUME NEW x \in Handlers, HandleByeFinish(x) PROVE RacedAnswerReleased'
  BY <1>26
  DEF HandleByeFinish, Finish
<1>27. ASSUME NEW t \in Hosts \cup Handlers \cup Legs, RejectRead(t) PROVE RacedAnswerReleased'
  BY <1>27
  DEF RejectRead
<1>28. ASSUME NEW t \in Hosts \cup Handlers \cup Legs, RejectSend(t) PROVE RacedAnswerReleased'
  BY <1>28
  DEF RejectSend
<1>29. ASSUME NEW t \in Hosts \cup Handlers \cup Legs,
              RejectFinish(t)
       PROVE RacedAnswerReleased'
  BY <1>29
  DEF RejectFinish, Finish
<1>30. ASSUME NEW h \in Hosts, NEW d \in Dials, DialClaim(h, d) PROVE RacedAnswerReleased'
  BY <1>30
  DEF DialClaim
<1>31. ASSUME NEW h \in Hosts, DialAllocate(h) PROVE RacedAnswerReleased'
  BY <1>31
  DEF DialAllocate
<1>32. ASSUME NEW h \in Hosts, DialBuild(h) PROVE RacedAnswerReleased'
  BY <1>32
  DEF DialBuild
<1>33. ASSUME NEW h \in Hosts, DialSend(h) PROVE RacedAnswerReleased'
  BY <1>33
  DEF DialSend
<1>34. ASSUME NEW h \in Hosts, DialFail(h) PROVE RacedAnswerReleased'
  BY <1>34
  DEF DialFail
<1>35. ASSUME NEW h \in Hosts, AnswerReserve(h) PROVE RacedAnswerReleased'
  BY <1>35
  DEF AnswerReserve
<1>36. ASSUME NEW h \in Hosts, AnswerAllocate(h) PROVE RacedAnswerReleased'
  BY <1>36
  DEF AnswerAllocate
<1>37. ASSUME NEW h \in Hosts, AnswerBind(h) PROVE RacedAnswerReleased'
  BY <1>37
  DEF AnswerBind
<1>38. ASSUME NEW h \in Hosts, AnswerSend(h) PROVE RacedAnswerReleased'
  BY <1>38
  DEF AnswerSend, Finish
<1>39. ASSUME NEW h \in Hosts, AnswerCommit(h) PROVE RacedAnswerReleased'
  BY <1>39
  DEF AnswerCommit
<1>40. ASSUME NEW h \in Hosts, Reject(h) PROVE RacedAnswerReleased'
  BY <1>40
  DEF Reject
<1>41. ASSUME NEW h \in Hosts, Hangup(h) PROVE RacedAnswerReleased'
  BY <1>41
  DEF Hangup
<1>42. ASSUME NEW h \in Hosts, HangupCancel(h) PROVE RacedAnswerReleased'
  BY <1>42
  DEF HangupCancel
<1>43. ASSUME NEW h \in Hosts, HangupBye(h) PROVE RacedAnswerReleased'
  BY <1>43
  DEF HangupBye
<1>44. ASSUME NEW h \in Hosts, HangupFinish(h) PROVE RacedAnswerReleased'
  BY <1>44
  DEF HangupFinish, Finish
<1>45. ASSUME NEW l \in Legs, TimerFire(l) PROVE RacedAnswerReleased'
  BY <1>45
  DEF TimerFire
<1>46. ASSUME NEW l \in Legs, Expire(l) PROVE RacedAnswerReleased'
  BY <1>46
  DEF Expire
<1>47. CASE CloseCancel
  BY <1>47
  DEF CloseCancel
<1>48. CASE Close
  BY <1>48
  DEF Close, Finish
<1>49. CASE UNCHANGED vars
  BY <1>49 DEF vars, callVars, inboundVars, outboundVars, mediaVars, threadVars, wireVars
<1> HIDE DEF RacedAnswerReleased
<1> QED
  BY <1>1, <1>2, <1>3, <1>4, <1>5, <1>6, <1>7, <1>8, <1>9, <1>10, <1>11, <1>12, <1>13,
     <1>14, <1>15, <1>16, <1>17, <1>18, <1>19, <1>20, <1>21, <1>22, <1>23, <1>24, <1>25,
     <1>26, <1>27, <1>28, <1>29, <1>30, <1>31, <1>32, <1>33, <1>34, <1>35, <1>36, <1>37,
     <1>38, <1>39, <1>40, <1>41, <1>42, <1>43, <1>44, <1>45, <1>46, <1>47, <1>48, <1>49
  DEF Next, WatchNext, HandlerBegin, HandlerStep, HostBegin, HostStep, TimerNext

-----------------------------------------------------------------------------
(* Steps: Watchers *)

\* No dial starts while incomingFinalMu is held for an INVITE.
LEMMA HoldStep ==
  ASSUME TypeOK, Placed, LockHeld, LegsFresh, LegCurrent, DialsClaimed, WatchersCurrent,
         HoldFree, [Next]_vars
  PROVE  HoldFree'
<1> USE CallAssumption DEF TypeOK, CallTyped, ThreadsTyped, WireTyped, Respond, Send,
      Published, inboundVars, outboundVars, mediaVars, callVars, wireVars, Free, Pending,
      Placed, Threads, Hosts, Calls, Goto, Return, threadVars, DialPlaces, AdmitPlaces,
      RingPlaces, RejectPlaces, AnswerPlaces, EndPlaces, WatchPlaces, WatchersCurrent,
      Dialling, DialsClaimed, LockHeld, HoldPlaces, LegsFresh, LegCurrent, Established,
      HoldFree
<1>1. ASSUME NEW d \in Dials, WatchLease(d) PROVE HoldFree'
  BY <1>1
  DEF WatchLease
<1>2. ASSUME NEW d \in Dials, WatchDone(d) PROVE HoldFree'
  BY <1>2
  DEF WatchDone
<1>3. ASSUME NEW d \in Dials, WatchTimeout(d) PROVE HoldFree'
  BY <1>3
  DEF WatchTimeout
<1>4. ASSUME NEW d \in Dials, WatchReceive(d) PROVE HoldFree'
  BY <1>4
  DEF WatchReceive
<1>5. ASSUME NEW d \in Dials, WatchTrying(d) PROVE HoldFree'
  BY <1>5
  DEF WatchTrying
<1>6. ASSUME NEW d \in Dials, WatchSession(d) PROVE HoldFree'
  BY <1>6
  DEF WatchSession
<1>7. ASSUME NEW d \in Dials, WatchProvisional(d) PROVE HoldFree'
  BY <1>7
  DEF WatchProvisional
<1>8. ASSUME NEW d \in Dials, WatchPrack(d) PROVE HoldFree'
  BY <1>8
  DEF WatchPrack
<1>9. ASSUME NEW d \in Dials, WatchAnswer(d) PROVE HoldFree'
  BY <1>9
  DEF WatchAnswer
<1>10. ASSUME NEW d \in Dials, WatchAck(d) PROVE HoldFree'
  BY <1>10
  DEF WatchAck
<1>11. ASSUME NEW d \in Dials, WatchBye(d) PROVE HoldFree'
  BY <1>11
  DEF WatchBye
<1>12. ASSUME NEW d \in Dials, WatchActivate(d) PROVE HoldFree'
  BY <1>12
  DEF WatchActivate
<1>13. ASSUME NEW d \in Dials, WatchReject(d) PROVE HoldFree'
  BY <1>13
  DEF WatchReject
<1>14. ASSUME NEW d \in Dials, WatchFinish(d) PROVE HoldFree'
  BY <1>14
  DEF WatchFinish, Finish
<1>15. ASSUME NEW x \in Handlers, NEW i \in Invites, InviteRepeat(x, i) PROVE HoldFree'
  BY <1>15
  DEF InviteRepeat
<1>16. ASSUME NEW x \in Handlers, NEW i \in Invites, InviteBusy(x, i) PROVE HoldFree'
  BY <1>16
  DEF InviteBusy
<1>17. ASSUME NEW x \in Handlers, NEW i \in Invites, InviteNew(x, i) PROVE HoldFree'
  BY <1>17
  DEF InviteNew
<1>18. ASSUME NEW x \in Handlers, NEW i \in Invites, HandleAck(x, i) PROVE HoldFree'
  BY <1>18
  DEF HandleAck
<1>19. ASSUME NEW x \in Handlers, NEW i \in Invites, HandleCancel(x, i) PROVE HoldFree'
  BY <1>19
  DEF HandleCancel
<1>20. ASSUME NEW x \in Handlers, NEW c \in ByeCalls, HandleBye(x, c) PROVE HoldFree'
  BY <1>20
  DEF HandleBye
<1>21. ASSUME NEW x \in Handlers, InviteTrying(x) PROVE HoldFree'
  BY <1>21
  DEF InviteTrying, Finish
<1>22. ASSUME NEW x \in Handlers, InviteOffer(x) PROVE HoldFree'
  BY <1>22
  DEF InviteOffer
<1>23. ASSUME NEW x \in Handlers, InvitePublish(x) PROVE HoldFree'
  BY <1>23
  DEF InvitePublish
<1>24. ASSUME NEW x \in Handlers, InviteRing(x) PROVE HoldFree'
  BY <1>24
  DEF InviteRing, Finish
<1>25. ASSUME NEW x \in Handlers, InviteArm(x) PROVE HoldFree'
  BY <1>25
  DEF InviteArm
<1>26. ASSUME NEW x \in Handlers, HandleByeFinish(x) PROVE HoldFree'
  BY <1>26
  DEF HandleByeFinish, Finish
<1>27. ASSUME NEW t \in Hosts \cup Handlers \cup Legs, RejectRead(t) PROVE HoldFree'
  BY <1>27
  DEF RejectRead
<1>28. ASSUME NEW t \in Hosts \cup Handlers \cup Legs, RejectSend(t) PROVE HoldFree'
  BY <1>28
  DEF RejectSend
<1>29. ASSUME NEW t \in Hosts \cup Handlers \cup Legs, RejectFinish(t) PROVE HoldFree'
  BY <1>29
  DEF RejectFinish, Finish
<1>30. ASSUME NEW h \in Hosts, NEW d \in Dials, DialClaim(h, d) PROVE HoldFree'
  BY <1>30
  DEF DialClaim
<1>31. ASSUME NEW h \in Hosts, DialAllocate(h) PROVE HoldFree'
  BY <1>31
  DEF DialAllocate
<1>32. ASSUME NEW h \in Hosts, DialBuild(h) PROVE HoldFree'
  BY <1>32
  DEF DialBuild
<1>33. ASSUME NEW h \in Hosts, DialSend(h) PROVE HoldFree'
  BY <1>33
  DEF DialSend
<1>34. ASSUME NEW h \in Hosts, DialFail(h) PROVE HoldFree'
  BY <1>34
  DEF DialFail
<1>35. ASSUME NEW h \in Hosts, AnswerReserve(h) PROVE HoldFree'
  BY <1>35
  DEF AnswerReserve
<1>36. ASSUME NEW h \in Hosts, AnswerAllocate(h) PROVE HoldFree'
  BY <1>36
  DEF AnswerAllocate
<1>37. ASSUME NEW h \in Hosts, AnswerBind(h) PROVE HoldFree'
  BY <1>37
  DEF AnswerBind
<1>38. ASSUME NEW h \in Hosts, AnswerSend(h) PROVE HoldFree'
  BY <1>38
  DEF AnswerSend, Finish
<1>39. ASSUME NEW h \in Hosts, AnswerCommit(h) PROVE HoldFree'
  BY <1>39
  DEF AnswerCommit
<1>40. ASSUME NEW h \in Hosts, Reject(h) PROVE HoldFree'
  BY <1>40
  DEF Reject
<1>41. ASSUME NEW h \in Hosts, Hangup(h) PROVE HoldFree'
  BY <1>41
  DEF Hangup
<1>42. ASSUME NEW h \in Hosts, HangupCancel(h) PROVE HoldFree'
  BY <1>42
  DEF HangupCancel
<1>43. ASSUME NEW h \in Hosts, HangupBye(h) PROVE HoldFree'
  BY <1>43
  DEF HangupBye
<1>44. ASSUME NEW h \in Hosts, HangupFinish(h) PROVE HoldFree'
  BY <1>44
  DEF HangupFinish, Finish
<1>45. ASSUME NEW l \in Legs, TimerFire(l) PROVE HoldFree'
  BY <1>45
  DEF TimerFire
<1>46. ASSUME NEW l \in Legs, Expire(l) PROVE HoldFree'
  BY <1>46
  DEF Expire
<1>47. CASE CloseCancel
  BY <1>47
  DEF CloseCancel
<1>48. CASE Close
  BY <1>48
  DEF Close, Finish
<1>49. CASE UNCHANGED vars
  BY <1>49 DEF vars, callVars, inboundVars, outboundVars, mediaVars, threadVars, wireVars
<1> HIDE DEF HoldFree
<1> QED
  BY <1>1, <1>2, <1>3, <1>4, <1>5, <1>6, <1>7, <1>8, <1>9, <1>10, <1>11, <1>12, <1>13,
     <1>14, <1>15, <1>16, <1>17, <1>18, <1>19, <1>20, <1>21, <1>22, <1>23, <1>24, <1>25,
     <1>26, <1>27, <1>28, <1>29, <1>30, <1>31, <1>32, <1>33, <1>34, <1>35, <1>36, <1>37,
     <1>38, <1>39, <1>40, <1>41, <1>42, <1>43, <1>44, <1>45, <1>46, <1>47, <1>48, <1>49
  DEF Next, WatchNext, HandlerBegin, HandlerStep, HostBegin, HostStep, TimerNext

\* No watcher comes to outlive its call, unless a finish that does not look comes.
LEMMA WatchersStep ==
  ASSUME TypeOK, Placed, LockHeld, LegsFresh, LegCurrent, DialsClaimed, WatchersCurrent,
         HoldFree, (Dials = {} \/ EndsOwn), [Next]_vars
  PROVE  WatchersCurrent'
<1> USE CallAssumption DEF TypeOK, CallTyped, ThreadsTyped, WireTyped, Respond, Send,
      Published, inboundVars, outboundVars, mediaVars, callVars, wireVars, Free, Pending,
      Placed, Threads, Hosts, Calls, Goto, Return, threadVars, DialPlaces, AdmitPlaces,
      RingPlaces, RejectPlaces, AnswerPlaces, EndPlaces, WatchPlaces, WatchersCurrent,
      Dialling, DialsClaimed, LockHeld, HoldPlaces, LegsFresh, LegCurrent, Established,
      HoldFree, EndsOwn
<1>1. ASSUME NEW d \in Dials, WatchLease(d) PROVE WatchersCurrent'
  BY <1>1
  DEF WatchLease
<1>2. ASSUME NEW d \in Dials, WatchDone(d) PROVE WatchersCurrent'
  BY <1>2
  DEF WatchDone
<1>3. ASSUME NEW d \in Dials, WatchTimeout(d) PROVE WatchersCurrent'
  BY <1>3
  DEF WatchTimeout
<1>4. ASSUME NEW d \in Dials, WatchReceive(d) PROVE WatchersCurrent'
  BY <1>4
  DEF WatchReceive
<1>5. ASSUME NEW d \in Dials, WatchTrying(d) PROVE WatchersCurrent'
  BY <1>5
  DEF WatchTrying
<1>6. ASSUME NEW d \in Dials, WatchSession(d) PROVE WatchersCurrent'
  BY <1>6
  DEF WatchSession
<1>7. ASSUME NEW d \in Dials, WatchProvisional(d) PROVE WatchersCurrent'
  BY <1>7
  DEF WatchProvisional
<1>8. ASSUME NEW d \in Dials, WatchPrack(d) PROVE WatchersCurrent'
  BY <1>8
  DEF WatchPrack
<1>9. ASSUME NEW d \in Dials, WatchAnswer(d) PROVE WatchersCurrent'
  BY <1>9
  DEF WatchAnswer
<1>10. ASSUME NEW d \in Dials, WatchAck(d) PROVE WatchersCurrent'
  BY <1>10
  DEF WatchAck
<1>11. ASSUME NEW d \in Dials, WatchBye(d) PROVE WatchersCurrent'
  BY <1>11
  DEF WatchBye
<1>12. ASSUME NEW d \in Dials, WatchActivate(d) PROVE WatchersCurrent'
  BY <1>12
  DEF WatchActivate
<1>13. ASSUME NEW d \in Dials, WatchReject(d) PROVE WatchersCurrent'
  BY <1>13
  DEF WatchReject
<1>14. ASSUME NEW d \in Dials, WatchFinish(d) PROVE WatchersCurrent'
  BY <1>14
  DEF WatchFinish, Finish
<1>15. ASSUME NEW x \in Handlers, NEW i \in Invites, InviteRepeat(x, i) PROVE WatchersCurrent'
  BY <1>15
  DEF InviteRepeat
<1>16. ASSUME NEW x \in Handlers, NEW i \in Invites, InviteBusy(x, i) PROVE WatchersCurrent'
  BY <1>16
  DEF InviteBusy
<1>17. ASSUME NEW x \in Handlers, NEW i \in Invites, InviteNew(x, i) PROVE WatchersCurrent'
  BY <1>17
  DEF InviteNew
<1>18. ASSUME NEW x \in Handlers, NEW i \in Invites, HandleAck(x, i) PROVE WatchersCurrent'
  BY <1>18
  DEF HandleAck
<1>19. ASSUME NEW x \in Handlers, NEW i \in Invites, HandleCancel(x, i) PROVE WatchersCurrent'
  BY <1>19
  DEF HandleCancel
<1>20. ASSUME NEW x \in Handlers, NEW c \in ByeCalls, HandleBye(x, c) PROVE WatchersCurrent'
  BY <1>20
  DEF HandleBye
<1>21. ASSUME NEW x \in Handlers, InviteTrying(x) PROVE WatchersCurrent'
  BY <1>21
  DEF InviteTrying, Finish
<1>22. ASSUME NEW x \in Handlers, InviteOffer(x) PROVE WatchersCurrent'
  BY <1>22
  DEF InviteOffer
<1>23. ASSUME NEW x \in Handlers, InvitePublish(x) PROVE WatchersCurrent'
  BY <1>23
  DEF InvitePublish
<1>24. ASSUME NEW x \in Handlers, InviteRing(x) PROVE WatchersCurrent'
  BY <1>24
  DEF InviteRing, Finish
<1>25. ASSUME NEW x \in Handlers, InviteArm(x) PROVE WatchersCurrent'
  BY <1>25
  DEF InviteArm
<1>26. ASSUME NEW x \in Handlers, HandleByeFinish(x) PROVE WatchersCurrent'
  BY <1>26
  DEF HandleByeFinish, Finish
<1>27. ASSUME NEW t \in Hosts \cup Handlers \cup Legs, RejectRead(t) PROVE WatchersCurrent'
  BY <1>27
  DEF RejectRead
<1>28. ASSUME NEW t \in Hosts \cup Handlers \cup Legs, RejectSend(t) PROVE WatchersCurrent'
  BY <1>28
  DEF RejectSend
<1>29. ASSUME NEW t \in Hosts \cup Handlers \cup Legs, RejectFinish(t) PROVE WatchersCurrent'
  BY <1>29
  DEF RejectFinish, Finish
<1>30. ASSUME NEW h \in Hosts, NEW d \in Dials, DialClaim(h, d) PROVE WatchersCurrent'
  BY <1>30
  DEF DialClaim
<1>31. ASSUME NEW h \in Hosts, DialAllocate(h) PROVE WatchersCurrent'
  BY <1>31
  DEF DialAllocate
<1>32. ASSUME NEW h \in Hosts, DialBuild(h) PROVE WatchersCurrent'
  BY <1>32
  DEF DialBuild
<1>33. ASSUME NEW h \in Hosts, DialSend(h) PROVE WatchersCurrent'
  BY <1>33
  DEF DialSend
<1>34. ASSUME NEW h \in Hosts, DialFail(h) PROVE WatchersCurrent'
  BY <1>34
  DEF DialFail
<1>35. ASSUME NEW h \in Hosts, AnswerReserve(h) PROVE WatchersCurrent'
  BY <1>35
  DEF AnswerReserve
<1>36. ASSUME NEW h \in Hosts, AnswerAllocate(h) PROVE WatchersCurrent'
  BY <1>36
  DEF AnswerAllocate
<1>37. ASSUME NEW h \in Hosts, AnswerBind(h) PROVE WatchersCurrent'
  BY <1>37
  DEF AnswerBind
<1>38. ASSUME NEW h \in Hosts, AnswerSend(h) PROVE WatchersCurrent'
  BY <1>38
  DEF AnswerSend, Finish
<1>39. ASSUME NEW h \in Hosts, AnswerCommit(h) PROVE WatchersCurrent'
  BY <1>39
  DEF AnswerCommit
<1>40. ASSUME NEW h \in Hosts, Reject(h) PROVE WatchersCurrent'
  BY <1>40
  DEF Reject
<1>41. ASSUME NEW h \in Hosts, Hangup(h) PROVE WatchersCurrent'
  BY <1>41
  DEF Hangup
<1>42. ASSUME NEW h \in Hosts, HangupCancel(h) PROVE WatchersCurrent'
  BY <1>42
  DEF HangupCancel
<1>43. ASSUME NEW h \in Hosts, HangupBye(h) PROVE WatchersCurrent'
  BY <1>43
  DEF HangupBye
<1>44. ASSUME NEW h \in Hosts, HangupFinish(h) PROVE WatchersCurrent'
  BY <1>44
  DEF HangupFinish, Finish
<1>45. ASSUME NEW l \in Legs, TimerFire(l) PROVE WatchersCurrent'
  BY <1>45
  DEF TimerFire
<1>46. ASSUME NEW l \in Legs, Expire(l) PROVE WatchersCurrent'
  BY <1>46
  DEF Expire
<1>47. CASE CloseCancel
  BY <1>47
  DEF CloseCancel
<1>48. CASE Close
  BY <1>48
  DEF Close, Finish
<1>49. CASE UNCHANGED vars
  BY <1>49 DEF vars, callVars, inboundVars, outboundVars, mediaVars, threadVars, wireVars
<1> HIDE DEF WatchersCurrent
<1> QED
  BY <1>1, <1>2, <1>3, <1>4, <1>5, <1>6, <1>7, <1>8, <1>9, <1>10, <1>11, <1>12, <1>13,
     <1>14, <1>15, <1>16, <1>17, <1>18, <1>19, <1>20, <1>21, <1>22, <1>23, <1>24, <1>25,
     <1>26, <1>27, <1>28, <1>29, <1>30, <1>31, <1>32, <1>33, <1>34, <1>35, <1>36, <1>37,
     <1>38, <1>39, <1>40, <1>41, <1>42, <1>43, <1>44, <1>45, <1>46, <1>47, <1>48, <1>49
  DEF Next, WatchNext, HandlerBegin, HandlerStep, HostBegin, HostStep, TimerNext

\* Without INVITEs there is no leg, and no thread is at work for one.
LEMMA NoLegs ==
  ASSUME TypeOK, Placed, LegsFresh, LegCurrent, Invites = {}
  PROVE  /\ incoming = None /\ ~Established
         /\ \A t \in Threads :
              pc[t] \notin AdmitPlaces \cup RingPlaces \cup AnswerPlaces \cup {"decline", "over"}
<1> USE CallAssumption DEF TypeOK, CallTyped, WireTyped, ThreadsTyped, Threads
<1>1. \A l \in Legs : ~Published(l)
  BY DEF Published
<1>2. incoming = None
  BY <1>1 DEF LegsFresh
<1>3. ~Established
  BY <1>2 DEF LegCurrent
<1>4. \A t \in Threads : leg[t] \notin Legs
  BY <1>1 DEF LegsFresh
<1>5. \A t \in Threads : pc[t] \notin AdmitPlaces
  BY DEF Placed, DialPlaces, AdmitPlaces, AnswerPlaces, RejectPlaces, EndPlaces, WatchPlaces,
       RingPlaces
<1> QED
  BY <1>2, <1>3, <1>4, <1>5 DEF Placed

\* With neither hangup nor BYE, no finish that does not look is under way.
LEMMA EndsStepNobody ==
  ASSUME Enders = {}, ByeCalls = {}, TypeOK, Placed, EndsOwn, [Next]_vars
  PROVE  EndsOwn'
<1> USE CallAssumption DEF TypeOK, CallTyped, ThreadsTyped, Placed, Threads, Hosts, Calls,
      Goto, Return, threadVars, DialPlaces, AdmitPlaces, RingPlaces, RejectPlaces,
      AnswerPlaces, EndPlaces, WatchPlaces, EndsOwn
<1>1. ASSUME NEW d \in Dials,
             WatchLease(d) \/ WatchDone(d) \/ WatchTimeout(d) \/ WatchReceive(d) \/
             WatchTrying(d) \/ WatchSession(d) \/ WatchProvisional(d) \/ WatchPrack(d) \/
             WatchAnswer(d) \/ WatchAck(d) \/ WatchBye(d) \/ WatchActivate(d) \/
             WatchReject(d) \/ WatchFinish(d)
      PROVE EndsOwn'
  BY <1>1
  DEF WatchLease, WatchDone, WatchTimeout, WatchReceive, WatchTrying, WatchSession,
      WatchProvisional, WatchPrack, WatchAnswer, WatchAck, WatchBye, WatchActivate,
      WatchReject, WatchFinish, Finish
<1>2. ASSUME NEW x \in Handlers, NEW i \in Invites,
             InviteRepeat(x, i) \/ InviteBusy(x, i) \/ InviteNew(x, i) \/ HandleAck(x, i) \/
             HandleCancel(x, i)
      PROVE EndsOwn'
  BY <1>2
  DEF InviteRepeat, InviteBusy, InviteNew, HandleAck, HandleCancel
<1>3. ASSUME NEW x \in Handlers, NEW c \in ByeCalls, HandleBye(x, c) PROVE EndsOwn'
  BY <1>3
  DEF HandleBye
<1>4. ASSUME NEW x \in Handlers,
             InviteTrying(x) \/ InviteOffer(x) \/ InvitePublish(x) \/ InviteRing(x) \/
             InviteArm(x) \/ HandleByeFinish(x)
      PROVE EndsOwn'
  BY <1>4
  DEF InviteTrying, InviteOffer, InvitePublish, InviteRing, InviteArm, HandleByeFinish,
      Finish
<1>5. ASSUME NEW t \in Hosts \cup Handlers \cup Legs,
             RejectRead(t) \/ RejectSend(t) \/ RejectFinish(t)
      PROVE EndsOwn'
  BY <1>5
  DEF RejectRead, RejectSend, RejectFinish, Finish
<1>6. ASSUME NEW h \in Hosts, NEW d \in Dials, DialClaim(h, d) PROVE EndsOwn'
  BY <1>6
  DEF DialClaim
<1>7. ASSUME NEW h \in Hosts,
             DialAllocate(h) \/ DialBuild(h) \/ DialSend(h) \/ DialFail(h)
      PROVE EndsOwn'
  BY <1>7
  DEF DialAllocate, DialBuild, DialSend, DialFail
<1>8. ASSUME NEW h \in Hosts, AnswerReserve(h) PROVE EndsOwn'
  BY <1>8
  DEF AnswerReserve
<1>9. ASSUME NEW h \in Hosts, AnswerAllocate(h) PROVE EndsOwn'
  BY <1>9
  DEF AnswerAllocate
<1>10. ASSUME NEW h \in Hosts, AnswerBind(h) PROVE EndsOwn'
  BY <1>10
  DEF AnswerBind
<1>11. ASSUME NEW h \in Hosts, AnswerSend(h) PROVE EndsOwn'
  BY <1>11
  DEF AnswerSend, Finish
<1>12. ASSUME NEW h \in Hosts, AnswerCommit(h) PROVE EndsOwn'
  BY <1>12
  DEF AnswerCommit
<1>13. ASSUME NEW h \in Enders, Reject(h) PROVE EndsOwn'
  BY <1>13
  DEF Reject
<1>14. ASSUME NEW h \in Enders, Hangup(h) PROVE EndsOwn'
  BY <1>14
  DEF Hangup
<1>15. ASSUME NEW h \in Hosts, HangupCancel(h) PROVE EndsOwn'
  BY <1>15
  DEF HangupCancel
<1>16. ASSUME NEW h \in Hosts, HangupBye(h) PROVE EndsOwn'
  BY <1>16
  DEF HangupBye
<1>17. ASSUME NEW h \in Hosts, HangupFinish(h) PROVE EndsOwn'
  BY <1>17
  DEF HangupFinish, Finish
<1>18. ASSUME NEW l \in Legs, TimerFire(l) \/ Expire(l) PROVE EndsOwn'
  BY <1>18
  DEF TimerFire, Expire
<1>19. CASE CloseCancel
  BY <1>19
  DEF CloseCancel
<1>20. CASE Close
  BY <1>20
  DEF Close, Finish
<1>21. CASE UNCHANGED vars
  BY <1>21 DEF vars, callVars, inboundVars, outboundVars, mediaVars, threadVars, wireVars
<1> HIDE DEF EndsOwn
<1> QED
  BY <1>1, <1>2, <1>3, <1>4, <1>5, <1>6, <1>7, <1>8, <1>9, <1>10, <1>11, <1>12, <1>13,
     <1>14, <1>15, <1>16, <1>17, <1>18, <1>19, <1>20, <1>21
  DEF Next, WatchNext, HandlerBegin, HandlerStep, HostBegin, HostStep, TimerNext

\* With outgoing calls only, the one hangup under way ends an established dial.
LEMMA EndsStepOutbound ==
  ASSUME Invites = {}, ByeCalls = {}, "cancel" \notin Unreliable, (\A g, h \in Enders : g =
         h), TypeOK, Placed, LegsFresh, LegCurrent, DialsClaimed, WatchersCurrent, EndsOwn,
         [Next]_vars
  PROVE  EndsOwn'
<1>a. /\ incoming = None /\ ~Established
      /\ \A t \in Threads :
           pc[t] \notin AdmitPlaces \cup RingPlaces \cup AnswerPlaces \cup {"decline", "over"}
  BY NoLegs
<1> USE <1>a, CallAssumption DEF TypeOK, CallTyped, ThreadsTyped, callVars, Free, Pending,  Placed,
      Threads, Hosts, Calls, Goto, Return, threadVars, DialPlaces, AdmitPlaces, RingPlaces,
      RejectPlaces, AnswerPlaces, EndPlaces, WatchPlaces, WatchersCurrent, Dialling,
      DialsClaimed, EndsOwn, Established
<1>1. ASSUME NEW d \in Dials, WatchLease(d) PROVE EndsOwn'
  BY <1>1
  DEF WatchLease
<1>2. ASSUME NEW d \in Dials, WatchDone(d) PROVE EndsOwn'
  BY <1>2
  DEF WatchDone
<1>3. ASSUME NEW d \in Dials, WatchTimeout(d) PROVE EndsOwn'
  BY <1>3
  DEF WatchTimeout
<1>4. ASSUME NEW d \in Dials, WatchReceive(d) PROVE EndsOwn'
  BY <1>4
  DEF WatchReceive
<1>5. ASSUME NEW d \in Dials, WatchTrying(d) PROVE EndsOwn'
  BY <1>5
  DEF WatchTrying
<1>6. ASSUME NEW d \in Dials, WatchSession(d) PROVE EndsOwn'
  BY <1>6
  DEF WatchSession
<1>7. ASSUME NEW d \in Dials, WatchProvisional(d) PROVE EndsOwn'
  BY <1>7
  DEF WatchProvisional
<1>8. ASSUME NEW d \in Dials, WatchPrack(d) PROVE EndsOwn'
  BY <1>8
  DEF WatchPrack
<1>9. ASSUME NEW d \in Dials, WatchAnswer(d) PROVE EndsOwn'
  BY <1>9
  DEF WatchAnswer
<1>10. ASSUME NEW d \in Dials, WatchAck(d) PROVE EndsOwn'
  BY <1>10
  DEF WatchAck
<1>11. ASSUME NEW d \in Dials, WatchBye(d) PROVE EndsOwn'
  BY <1>11
  DEF WatchBye
<1>12. ASSUME NEW d \in Dials, WatchActivate(d) PROVE EndsOwn'
  BY <1>12
  DEF WatchActivate
<1>13. ASSUME NEW d \in Dials, WatchReject(d) PROVE EndsOwn'
  BY <1>13
  DEF WatchReject
<1>14. ASSUME NEW d \in Dials, WatchFinish(d) PROVE EndsOwn'
  BY <1>14
  DEF WatchFinish, Finish
<1>15. ASSUME NEW x \in Handlers, NEW i \in Invites, InviteRepeat(x, i) PROVE EndsOwn'
  BY <1>15
  DEF InviteRepeat
<1>16. ASSUME NEW x \in Handlers, NEW i \in Invites, InviteBusy(x, i) PROVE EndsOwn'
  BY <1>16
  DEF InviteBusy
<1>17. ASSUME NEW x \in Handlers, NEW i \in Invites, InviteNew(x, i) PROVE EndsOwn'
  BY <1>17
  DEF InviteNew
<1>18. ASSUME NEW x \in Handlers, NEW i \in Invites, HandleAck(x, i) PROVE EndsOwn'
  BY <1>18
  DEF HandleAck
<1>19. ASSUME NEW x \in Handlers, NEW i \in Invites, HandleCancel(x, i) PROVE EndsOwn'
  BY <1>19
  DEF HandleCancel
<1>20. ASSUME NEW x \in Handlers, NEW c \in ByeCalls, HandleBye(x, c) PROVE EndsOwn'
  BY <1>20
  DEF HandleBye
<1>21. ASSUME NEW x \in Handlers, InviteTrying(x) PROVE EndsOwn'
  BY <1>21
  DEF InviteTrying, Finish
<1>22. ASSUME NEW x \in Handlers, InviteOffer(x) PROVE EndsOwn'
  BY <1>22
  DEF InviteOffer
<1>23. ASSUME NEW x \in Handlers, InvitePublish(x) PROVE EndsOwn'
  BY <1>23
  DEF InvitePublish
<1>24. ASSUME NEW x \in Handlers, InviteRing(x) PROVE EndsOwn'
  BY <1>24
  DEF InviteRing, Finish
<1>25. ASSUME NEW x \in Handlers, InviteArm(x) PROVE EndsOwn'
  BY <1>25
  DEF InviteArm
<1>26. ASSUME NEW x \in Handlers, HandleByeFinish(x) PROVE EndsOwn'
  BY <1>26
  DEF HandleByeFinish, Finish
<1>27. ASSUME NEW t \in Hosts \cup Handlers \cup Legs, RejectRead(t) PROVE EndsOwn'
  BY <1>27
  DEF RejectRead
<1>28. ASSUME NEW t \in Hosts \cup Handlers \cup Legs, RejectSend(t) PROVE EndsOwn'
  BY <1>28
  DEF RejectSend
<1>29. ASSUME NEW t \in Hosts \cup Handlers \cup Legs, RejectFinish(t) PROVE EndsOwn'
  BY <1>29
  DEF RejectFinish, Finish
<1>30. ASSUME NEW h \in Hosts, NEW d \in Dials, DialClaim(h, d) PROVE EndsOwn'
  BY <1>30
  DEF DialClaim
<1>31. ASSUME NEW h \in Hosts, DialAllocate(h) PROVE EndsOwn'
  BY <1>31
  DEF DialAllocate
<1>32. ASSUME NEW h \in Hosts, DialBuild(h) PROVE EndsOwn'
  BY <1>32
  DEF DialBuild
<1>33. ASSUME NEW h \in Hosts, DialSend(h) PROVE EndsOwn'
  BY <1>33
  DEF DialSend
<1>34. ASSUME NEW h \in Hosts, DialFail(h) PROVE EndsOwn'
  BY <1>34
  DEF DialFail
<1>35. ASSUME NEW h \in Hosts, AnswerReserve(h) PROVE EndsOwn'
  BY <1>35
  DEF AnswerReserve
<1>36. ASSUME NEW h \in Hosts, AnswerAllocate(h) PROVE EndsOwn'
  BY <1>36
  DEF AnswerAllocate
<1>37. ASSUME NEW h \in Hosts, AnswerBind(h) PROVE EndsOwn'
  BY <1>37
  DEF AnswerBind
<1>38. ASSUME NEW h \in Hosts, AnswerSend(h) PROVE EndsOwn'
  BY <1>38
  DEF AnswerSend, Finish
<1>39. ASSUME NEW h \in Hosts, AnswerCommit(h) PROVE EndsOwn'
  BY <1>39
  DEF AnswerCommit
<1>40. ASSUME NEW h \in Enders, Reject(h) PROVE EndsOwn'
  BY <1>40
  DEF Reject
<1>41. ASSUME NEW h \in Enders, Hangup(h) PROVE EndsOwn'
  BY <1>41
  DEF Hangup
<1>42. ASSUME NEW h \in Hosts, HangupCancel(h) PROVE EndsOwn'
  BY <1>42
  DEF HangupCancel
<1>43. ASSUME NEW h \in Hosts, HangupBye(h) PROVE EndsOwn'
  BY <1>43
  DEF HangupBye
<1>44. ASSUME NEW h \in Hosts, HangupFinish(h) PROVE EndsOwn'
  BY <1>44
  DEF HangupFinish, Finish
<1>45. ASSUME NEW l \in Legs, TimerFire(l) PROVE EndsOwn'
  BY <1>45
  DEF TimerFire
<1>46. ASSUME NEW l \in Legs, Expire(l) PROVE EndsOwn'
  BY <1>46
  DEF Expire
<1>47. CASE CloseCancel
  BY <1>47
  DEF CloseCancel
<1>48. CASE Close
  BY <1>48
  DEF Close, Finish
<1>49. CASE UNCHANGED vars
  BY <1>49 DEF vars, callVars, inboundVars, outboundVars, mediaVars, threadVars, wireVars
<1> HIDE DEF EndsOwn
<1> QED
  BY <1>1, <1>2, <1>3, <1>4, <1>5, <1>6, <1>7, <1>8, <1>9, <1>10, <1>11, <1>12, <1>13,
     <1>14, <1>15, <1>16, <1>17, <1>18, <1>19, <1>20, <1>21, <1>22, <1>23, <1>24, <1>25,
     <1>26, <1>27, <1>28, <1>29, <1>30, <1>31, <1>32, <1>33, <1>34, <1>35, <1>36, <1>37,
     <1>38, <1>39, <1>40, <1>41, <1>42, <1>43, <1>44, <1>45, <1>46, <1>47, <1>48, <1>49
  DEF Next, WatchNext, HandlerBegin, HandlerStep, HostBegin, HostStep, TimerNext

-----------------------------------------------------------------------------
(* Initial states *)

\* At first no thread is under way, nothing is published and no call is there.
LEMMA InitSafe == Init => LegInv /\ SocketsOwned /\ CallSafe /\ WatchersCurrent /\ Guarded
<1> SUFFICES ASSUME Init
             PROVE  LegInv /\ SocketsOwned /\ CallSafe /\ WatchersCurrent /\ Guarded
  OBVIOUS
<1>1. /\ \A t \in Threads : pc[t] = "idle" /\ leg[t] = None
      /\ \A h \in Hosts : h \in Threads
      /\ \A x \in Handlers : x \in Threads
      /\ \A d \in Dials : d \in Threads /\ ~was[d]
      /\ \A l \in Legs : l \in Threads /\ log[l] = {} /\ l # None
  BY CallAssumption DEF Init, Threads
<1>2. /\ state = "idle" /\ callID = None /\ incoming = None /\ timer = None /\ ticking = {}
      /\ media = None /\ sockets = {} /\ remoteRTP = None /\ ~answered
      /\ cancelFn = None /\ ctxDone = {} /\ None \notin Dials \cup Legs
  BY CallAssumption, Zenon DEF Init, Threads
<1> USE <1>1, <1>2
<1>3. LegInv /\ SocketsOwned
  BY DEF LegInv, LegsFresh, AnswerReserved, BindingFresh, AnswerPlaces, RingPlaces, SocketsOwned
<1>4. WatchersCurrent /\ Guarded
  BY DEF WatchersCurrent, Guarded, HoldFree, EndsOwn, EndPlaces
<1>5. LegCurrent /\ TimerCurrent /\ RingingIsTimed /\ EndpointCurrent
  BY DEF LegCurrent, Established, TimerCurrent, RingingIsTimed, EndpointCurrent, AdmitPlaces,
         RingPlaces, AnswerPlaces, Free
<1>6. AnswerCurrent /\ RefusedIsOver
  BY DEF AnswerCurrent, RefusedIsOver
<1>7. DialInv
  BY DEF DialInv, DialsClaimed, DialWhole, RacedAnswerReleased, DialPlaces, WatchPlaces
<1> QED
  BY <1>3, <1>4, <1>5, <1>6, <1>7 DEF CallSafe, CallInv

-----------------------------------------------------------------------------
(* Whatever the hosts, the callers and the carrier do *)

\* The inductive invariant: every variable has its type, every thread is in the code of
\* its kind with the call and the leg it needs, and holds incomingFinalMu where that code
\* does; legs and their timers are known from their publication on.
THEOREM ThreadsAreInPlace == Spec => [](TypeInv /\ LegInv)
<1>1. Init => TypeInv /\ LegInv
  BY TypeInit, PlacedInit, InitSafe DEF TypeInv
<1>2. TypeInv /\ LegInv /\ [Next]_vars => (TypeInv /\ LegInv)'
  <2> SUFFICES ASSUME TypeInv, LegInv, [Next]_vars PROVE (TypeInv /\ LegInv)'
    OBVIOUS
  <2>1. TypeOK'
    BY CallStep, FlagsStep, ThreadsStep, WireStep DEF TypeInv, TypeOK
  <2>2. Placed' /\ LockHeld'
    BY PlacedStep, LockStep DEF TypeInv, LegInv
  <2>3. LegsFresh' /\ AnswerReserved' /\ BindingFresh'
    BY FreshStep, ReservedStep, BindingStep DEF TypeInv, LegInv
  <2> QED
    BY <2>1, <2>2, <2>3 DEF TypeInv, LegInv
<1> QED
  BY <1>1, <1>2, PTL DEF Spec

\* The fields of callRuntime keep their types; after finish no timer, no media owner and
\* no cancel function is left that is not one of them.
THEOREM TypeCorrect == Spec => []TypeOK
<1>1. TypeInv => TypeOK
  BY DEF TypeInv
<1> QED
  BY ThreadsAreInPlace, <1>1, PTL

\* allocateMedia, answer and finish lose no socket: an open one is the runtime's, or that
\* of an answer that is about to bind it.
THEOREM SocketSafety == Spec => []SocketsOwned
<1>1. Init => SocketsOwned
  BY InitSafe
<1>2. TypeInv /\ SocketsOwned /\ [Next]_vars => SocketsOwned'
  BY SocketsStep DEF TypeInv
<1> QED
  BY <1>1, <1>2, ThreadsAreInPlace, PTL DEF Spec

-----------------------------------------------------------------------------
(* As long as no watcher outlives its call *)

\* Every step of the runtime keeps the call consistent if the watchers stay with it.
LEMMA SafeStep ==
  ASSUME TypeInv, LegInv, CallSafe, WatchersCurrent, WatchersCurrent', [Next]_vars
  PROVE  CallSafe'
<1> USE DEF TypeInv, LegInv, CallSafe, CallInv, DialInv
<1>1. LegCurrent' /\ TimerCurrent' /\ RingingIsTimed'
  BY LegCurrentStep, TimerStep, RingingStep
<1>2. AnswerCurrent' /\ EndpointCurrent' /\ RefusedIsOver'
  BY AnswerCurrentStep, EndpointStep, RefusedStep
<1>3. DialsClaimed' /\ DialWhole' /\ RacedAnswerReleased'
  BY DialsStep, WholeStep, RacedStep
<1> QED
  BY <1>1, <1>2, <1>3

\* What handleInvite, answer, handleRequest and finish keep true of the current call, and
\* dial and watchInvite of a dialled one, in any behaviour in which every watcher ends
\* with its call: the only thing the other parts of the runtime rely on.
THEOREM CallSafety == Spec /\ []WatchersCurrent => []CallSafe
<1>1. Init => CallSafe
  BY InitSafe
<1>2. /\ TypeInv /\ LegInv /\ CallSafe /\ WatchersCurrent /\ WatchersCurrent' /\ [Next]_vars
      => CallSafe'
  BY SafeStep
<1> QED
  BY <1>1, <1>2, ThreadsAreInPlace, PTL DEF Spec

\* In the workloads where no finish comes for a call that is over, a watcher never
\* outlives its call: hangup leaves the watcher of a cancelled dial to end it, and nobody
\* else ends a call that is being dialled.
THEOREM WatcherSafety == ASSUME Undisturbed PROVE Spec => []WatchersCurrent
<1> DEFINE Inv == TypeInv /\ LegInv /\ CallSafe /\ WatchersCurrent /\ Guarded
<1>1. Init => Inv
  BY TypeInit, PlacedInit, InitSafe DEF TypeInv
<1>2. TypeInv /\ LegInv /\ (TypeInv /\ LegInv)' /\ Inv /\ [Next]_vars => Inv'
  <2> SUFFICES ASSUME TypeInv /\ LegInv, (TypeInv /\ LegInv)', Inv, [Next]_vars PROVE Inv'
    OBVIOUS
  <2> USE DEF TypeInv, LegInv, CallSafe, CallInv, DialInv, Guarded
  <2>1. WatchersCurrent'
    BY WatchersStep
  <2>2. CallSafe'
    BY <2>1, SafeStep
  <2>3. HoldFree'
    BY HoldStep
  <2>4. (Dials = {} \/ EndsOwn)'
    <3>1. CASE Dials = {}
      BY <3>1
    <3>2. CASE EndsOwn /\ Enders = {} /\ ByeCalls = {}
      BY <3>2, EndsStepNobody
    <3>3. CASE /\ EndsOwn /\ Invites = {} /\ ByeCalls = {} /\ "cancel" \notin Unreliable
               /\ \A g, h \in Enders : g = h
      BY <3>3, EndsStepOutbound
    <3> QED
      BY <3>1, <3>2, <3>3 DEF Undisturbed
  <2> QED
    BY <2>1, <2>2, <2>3, <2>4
<1>3. Inv => WatchersCurrent
  OBVIOUS
<1> HIDE DEF Inv
<1> QED
  BY <1>1, <1>2, <1>3, ThreadsAreInPlace, PTL DEF Spec

-----------------------------------------------------------------------------
(* The properties of the call *)

\* A ringing call has its own decision timer running or its callback under way, and no
\* timer of an earlier INVITE is left that could fire.
THEOREM RingingSafety == ASSUME Undisturbed PROVE Spec => []RingingIsTimed
<1>1. CallSafe => RingingIsTimed
  BY DEF CallSafe, CallInv
<1> QED
  BY <1>1, CallSafety, WatcherSafety, PTL

\* A call becomes connecting or active by answer only as the leg whose 200 went out, with
\* the sockets of that answer and no endpoint but the one its INVITE offered.
THEOREM AnswerSafety == ASSUME Undisturbed PROVE Spec => []AnsweredIsWhole
<1>1. TypeInv /\ LegInv /\ CallSafe => AnsweredIsWhole
  <2> SUFFICES ASSUME TypeInv, LegInv, CallSafe,
                      state = "connecting" \/ (state = "active" /\ callID \in Invites)
               PROVE  /\ incoming # None /\ legOf[incoming] = callID /\ "ok" \in log[incoming]
                      /\ media = incoming /\ media \in sockets /\ remoteRTP \in {None, callID}
    BY DEF AnsweredIsWhole
  <2> USE DEF TypeInv, LegInv, CallSafe, CallInv
  <2>1. incoming # None /\ legOf[incoming] = callID
    BY DEF LegCurrent, Established
  <2>2. "ok" \in log[incoming] /\ media = incoming /\ media \in sockets
    BY <2>1 DEF AnswerCurrent
  <2>3. remoteRTP \in {None, callID}
    BY DEF EndpointCurrent, Free
  <2> QED
    BY <2>1, <2>2, <2>3
<1> QED
  BY <1>1, ThreadsAreInPlace, CallSafety, WatcherSafety, PTL

\* incomingFinalMu: until its ACK, a leg that was sent a 200 is not sent a refusal by the
\* timer, a CANCEL or a retransmission.
THEOREM AnswerIsExclusive == ASSUME Undisturbed PROVE Spec => []AnswerExclusive
<1>1. CallSafe => AnswerExclusive
  BY DEF CallSafe, CallInv, RefusedIsOver, AnswerExclusive
<1> QED
  BY <1>1, CallSafety, WatcherSafety, PTL

\* dial and handleInvite put a call in the slot only when it is free, and it stays so from
\* the decision to admit an INVITE to its publication.
THEOREM SlotSafety == ASSUME Undisturbed PROVE Spec => SlotIsClaimed
<1>1. TypeInv /\ CallSafe /\ [Next]_vars => [callID' # callID => state \in Free]_vars
  <2> SUFFICES ASSUME TypeInv, CallSafe, [Next]_vars, callID' # callID PROVE state \in Free
    OBVIOUS
  <2>1. ASSUME NEW d \in Dials,
               WatchLease(d) \/ WatchDone(d) \/ WatchTimeout(d) \/ WatchReceive(d) \/
               WatchTrying(d) \/ WatchSession(d) \/ WatchProvisional(d) \/ WatchPrack(d) \/
               WatchAnswer(d) \/ WatchAck(d) \/ WatchBye(d) \/ WatchActivate(d) \/
               WatchReject(d) \/ WatchFinish(d)
        PROVE state \in Free
    BY <2>1 DEF WatchLease, WatchDone, WatchTimeout, WatchReceive, WatchTrying, WatchSession,
         WatchProvisional, WatchPrack, WatchAnswer, WatchAck, WatchBye, WatchActivate,
         WatchReject, WatchFinish
  <2>2. ASSUME NEW x \in Handlers, NEW i \in Invites,
               InviteRepeat(x, i) \/ InviteBusy(x, i) \/ InviteNew(x, i) \/ HandleAck(x, i) \/
               HandleCancel(x, i)
        PROVE state \in Free
    BY <2>2 DEF InviteRepeat, InviteBusy, InviteNew, HandleAck, HandleCancel
  <2>3. ASSUME NEW x \in Handlers, NEW c \in ByeCalls, HandleBye(x, c) PROVE state \in Free
    BY <2>3 DEF HandleBye
  <2>4. ASSUME NEW x \in Handlers,
               InviteTrying(x) \/ InviteOffer(x) \/ InviteRing(x) \/ InviteArm(x) \/
               HandleByeFinish(x)
        PROVE state \in Free
    BY <2>4 DEF InviteTrying, InviteOffer, InviteRing, InviteArm, HandleByeFinish
  <2>5. ASSUME NEW x \in Handlers, InvitePublish(x) PROVE state \in Free
      BY <2>5 DEF InvitePublish, TypeInv, CallSafe, CallInv, LegCurrent, AdmitPlaces,
           RejectPlaces
  <2>6. ASSUME NEW t \in Hosts \cup Handlers \cup Legs,
               RejectRead(t) \/ RejectSend(t) \/ RejectFinish(t)
        PROVE state \in Free
    BY <2>6 DEF RejectRead, RejectSend, RejectFinish
  <2>7. ASSUME NEW h \in Hosts, NEW d \in Dials, DialClaim(h, d) PROVE state \in Free
      BY <2>7 DEF DialClaim
  <2>8. ASSUME NEW h \in Hosts,
               DialAllocate(h) \/ DialBuild(h) \/ DialSend(h) \/ DialFail(h)
        PROVE state \in Free
    BY <2>8 DEF DialAllocate, DialBuild, DialSend, DialFail
  <2>9. ASSUME NEW h \in Hosts, AnswerReserve(h) PROVE state \in Free
    BY <2>9 DEF AnswerReserve
  <2>10. ASSUME NEW h \in Hosts, AnswerAllocate(h) PROVE state \in Free
    BY <2>10 DEF AnswerAllocate
  <2>11. ASSUME NEW h \in Hosts, AnswerBind(h) PROVE state \in Free
    BY <2>11 DEF AnswerBind
  <2>12. ASSUME NEW h \in Hosts, AnswerSend(h) PROVE state \in Free
    BY <2>12 DEF AnswerSend
  <2>13. ASSUME NEW h \in Hosts, AnswerCommit(h) PROVE state \in Free
    BY <2>13 DEF AnswerCommit
  <2>14. ASSUME NEW h \in Hosts,
                Reject(h) \/ Hangup(h) \/ HangupCancel(h) \/ HangupBye(h) \/ HangupFinish(h)
         PROVE state \in Free
    BY <2>14 DEF Reject, Hangup, HangupCancel, HangupBye, HangupFinish
  <2>15. ASSUME NEW l \in Legs, TimerFire(l) \/ Expire(l) PROVE state \in Free
    BY <2>15 DEF TimerFire, Expire
  <2>16. CASE CloseCancel
    BY <2>16 DEF CloseCancel
  <2>17. CASE Close
    BY <2>17 DEF Close
  <2>18. CASE UNCHANGED vars
    BY <2>18 DEF vars, callVars, inboundVars, outboundVars, mediaVars, threadVars, wireVars
  <2> QED
    BY <2>1, <2>2, <2>3, <2>4, <2>5, <2>6, <2>7, <2>8, <2>9, <2>10, <2>11, <2>12, <2>13,
       <2>14, <2>15, <2>16, <2>17, <2>18
    DEF Next, WatchNext, HandlerBegin, HandlerStep, HostBegin, HostStep, TimerNext
<1> QED
  BY <1>1, ThreadsAreInPlace, CallSafety, WatcherSafety, PTL DEF Spec, SlotIsClaimed

\* watchInvite makes a dialled call active only after its ACK, with the sockets of its own
\* dial and the endpoint of its own answer.
THEOREM ActivationSafety == ASSUME Undisturbed PROVE Spec => []ActiveIsAcked
<1>1. CallSafe /\ SocketsOwned /\ TypeInv => ActiveIsAcked
  <2> SUFFICES ASSUME CallSafe, SocketsOwned, TypeInv, state = "active", callID \in Dials
               PROVE  /\ "ACK" \in sent[callID]
                      /\ media = callID /\ sockets \cap Dials = {callID}
                      /\ remoteRTP = callID
    BY DEF ActiveIsAcked
  <2>1. /\ "ACK" \in sent[callID] /\ media = callID /\ media \in sockets
        /\ remoteRTP = callID
    BY DEF CallSafe, DialInv, DialWhole
  <2>2. \A h \in Hosts : pc[h] = "bind" => leg[h] \notin Dials
    BY CallAssumption DEF TypeInv, Placed, Threads, AnswerPlaces
  <2> QED
    BY <2>1, <2>2 DEF SocketsOwned
<1> QED
  BY <1>1, ThreadsAreInPlace, SocketSafety, CallSafety, WatcherSafety, PTL

\* watchInvite acts only for the call it was started for, and a 2xx that it handles for a
\* call it knows to be cancelled is released.
THEOREM RaceSafety == ASSUME Undisturbed PROVE Spec => []WatchersSound
<1>1. CallSafe /\ WatchersCurrent => WatchersSound
  BY DEF CallSafe, DialInv, WatchersSound
<1> QED
  BY <1>1, CallSafety, WatcherSafety, PTL
=============================================================================
