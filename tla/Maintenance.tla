---------------------------- MODULE Maintenance ----------------------------
(***************************************************************************)
(* The maintenance loop of Engine.connectCycle, which keeps one registered *)
(* IMS session alive: it renews the registration, verifies the connection  *)
(* when the host asks for it, re-registers after a rejected INVITE, and    *)
(* ends the cycle when the session is beyond repair.  A worker goroutine   *)
(* does the network part of renewals and checks; the heartbeat goroutine   *)
(* of the transport (runOptionsPing) probes the same flow on its own.      *)
(*                                                                         *)
(* Time is kept as what the code compares: the renewal timer is armed or   *)
(* has fired, and the binding is fresh, has less than the 60 s a check     *)
(* reserves, or has expired.  A suspended phone may see any of these       *)
(* change at any moment.                                                   *)
(***************************************************************************)
EXTENDS Naturals

CONSTANT MaxRevision   \* bound: connection checks requested in one run

ASSUME RevisionAssumption == MaxRevision \in Nat

VARIABLES
  cycle,            \* "up": the loop runs; "closing": it returned; "down": torn down
  stopped,          \* run.ctx is cancelled
  failure,          \* renewalFailure: "none", or what went wrong
  renew,            \* the renewal timer: "armed", "fired" or "off"
  renewPending,
  checking, token,  \* run.checking, and whether run.checks holds a token
  revision,         \* run.checkRevision
  verified,         \* revision covered by the last verification that succeeded
  recoveryPending,
  worker,           \* "idle" when maintenance is not busy, or how far the worker is
  workRefresh,      \* whether the worker renews, and the revision it started with
  workRevision,
  binding,          \* registeredUntil against the clock: "fresh", "short", "expired"
  registered,       \* service.registered
  recovery,         \* tokens in service.registrationRecovery
  recoveryUsed,     \* service.inviteRecoveryUsed
  callUp,           \* registrationRecoveryMustWait(service.CallStatus())
  optionsOn,        \* IMSOptionsPingIntervalSeconds > 0, fixed by the configuration
  healthy, rtFailed,
  failureC,         \* the transport's failure channel holds an error
  queued,           \* optionsChecks holds a request
  hb,               \* heartbeat: "idle", "probe", "confirm" or "gone"
  hbRequest         \* it serves a requested check, not its ticker

loopVars == <<cycle, stopped, failure, renew, renewPending>>
checkVars == <<checking, token, revision, verified, recoveryPending>>
workVars == <<worker, workRefresh, workRevision>>
bindVars == <<binding, registered>>
callVars == <<recovery, recoveryUsed, callUp>>
rtVars == <<healthy, rtFailed, failureC, queued, hb, hbRequest>>
vars == <<loopVars, checkVars, workVars, bindVars, callVars, rtVars, optionsOn>>

-----------------------------------------------------------------------------
\* startMaintenance; b is the age of the binding at that moment.
StartMaintenance(check, b) ==
  LET refresh == ~check \/ ~optionsOn \/ b # "fresh" IN
  /\ worker' = IF check /\ refresh THEN "delay" ELSE "call"
  /\ workRefresh' = refresh
  /\ workRevision' = revision

NoSession ==
  /\ cycle' = "down" /\ failure' = "none" /\ renew' = "off" /\ renewPending' = FALSE
  /\ checking' = FALSE /\ token' = FALSE
  /\ worker' = "idle" /\ workRefresh' = FALSE /\ workRevision' = 0
  /\ binding' = "expired" /\ registered' = FALSE
  /\ recovery' = 0 /\ recoveryUsed' = FALSE /\ callUp' = FALSE
  /\ healthy' = FALSE /\ rtFailed' = FALSE /\ failureC' = FALSE /\ queued' = FALSE
  /\ hb' = "gone" /\ hbRequest' = FALSE

Init ==
  /\ cycle = "down" /\ stopped = FALSE /\ failure = "none"
  /\ renew = "off" /\ renewPending = FALSE
  /\ checking = FALSE /\ token = FALSE /\ revision = 0 /\ verified = 0
  /\ recoveryPending = FALSE
  /\ worker = "idle" /\ workRefresh = FALSE /\ workRevision = 0
  /\ binding = "expired" /\ registered = FALSE
  /\ recovery = 0 /\ recoveryUsed = FALSE /\ callUp = FALSE
  /\ optionsOn \in BOOLEAN
  /\ healthy = FALSE /\ rtFailed = FALSE /\ failureC = FALSE /\ queued = FALSE
  /\ hb = "gone" /\ hbRequest = FALSE

-----------------------------------------------------------------------------
(* The cycle *)

\* StartSessionIMSCore succeeded: publish the service, arm the renewal timer.
Publish ==
  /\ cycle = "down" /\ ~stopped
  /\ cycle' = "up" /\ renew' = "armed"
  /\ recoveryPending' = FALSE /\ verified' = revision
  /\ binding' \in {"fresh", "short"} /\ registered' = TRUE
  /\ healthy' = TRUE /\ hb' = IF optionsOn THEN "idle" ELSE "gone"
  /\ UNCHANGED <<stopped, failure, renewPending, checking, token, revision, workVars,
                 callVars, rtFailed, failureC, queued, hbRequest, optionsOn>>

\* The deferred teardown: unpublish the service, then Service.Close.
Teardown ==
  /\ cycle = "closing"
  /\ NoSession
  /\ UNCHANGED <<stopped, revision, verified, recoveryPending, optionsOn>>

\* connectCycle returns: its locals are gone and the deferred cancel ends the worker.
Return ==
  /\ cycle' = "closing"
  /\ renew' = "off" /\ renewPending' = FALSE /\ binding' = "expired"
  /\ worker' = "idle" /\ workRefresh' = FALSE /\ workRevision' = 0

\* Engine.Stop cancels the run; a later Engine.Start makes a new one.
Stop ==
  /\ ~stopped
  /\ stopped' = TRUE
  /\ UNCHANGED <<cycle, failure, renew, renewPending, checkVars, workVars, bindVars,
                 callVars, rtVars, optionsOn>>

NewRun ==
  /\ stopped /\ cycle = "down"
  /\ stopped' = FALSE
  /\ revision' = 0 /\ verified' = 0 /\ recoveryPending' = FALSE
  /\ UNCHANGED <<cycle, failure, renew, renewPending, checking, token, workVars, bindVars,
                 callVars, rtVars, optionsOn>>

-----------------------------------------------------------------------------
(* The cases of the loop's select *)

TakeCancel ==
  /\ cycle = "up" /\ stopped
  /\ Return
  /\ UNCHANGED <<stopped, failure, checkVars, registered, callVars, rtVars, optionsOn>>

\* Faulty variant: a renewal that is due while a check runs is dropped.
TakeRenewalDropped ==
  /\ cycle = "up" /\ renew = "fired"
  /\ renew' = "off"
  /\ IF worker = "idle" /\ failure = "none"
       THEN StartMaintenance(FALSE, binding)
       ELSE UNCHANGED workVars
  /\ UNCHANGED <<cycle, stopped, failure, renewPending, checkVars, bindVars, callVars,
                 rtVars, optionsOn>>

\* <-renew.C
TakeRenewal ==
  /\ cycle = "up" /\ renew = "fired"
  /\ renew' = "off"
  /\ IF worker = "idle" /\ failure = "none"
       THEN StartMaintenance(FALSE, binding) /\ UNCHANGED renewPending
       ELSE UNCHANGED workVars /\ renewPending' = TRUE
  /\ UNCHANGED <<cycle, stopped, failure, checkVars, bindVars, callVars, rtVars, optionsOn>>

\* <-checks: a token that finds maintenance busy is dropped.
TakeCheck ==
  /\ cycle = "up" /\ token
  /\ token' = FALSE
  /\ IF worker = "idle" /\ failure = "none"
       THEN StartMaintenance(TRUE, binding) ELSE UNCHANGED workVars
  /\ UNCHANGED <<loopVars, checking, revision, verified, recoveryPending, bindVars,
                 callVars, rtVars, optionsOn>>

\* Faulty variant: register again although the cycle has failed.
TakeRecoveryAlways ==
  /\ cycle = "up" /\ recovery > 0
  /\ recovery' = recovery - 1
  /\ IF worker = "idle"
       THEN StartMaintenance(FALSE, binding) /\ UNCHANGED renewPending
       ELSE UNCHANGED workVars /\ renewPending' = TRUE
  /\ UNCHANGED <<cycle, stopped, failure, renew, checkVars, bindVars, recoveryUsed, callUp,
                 rtVars, optionsOn>>

\* <-recoveryRequests
TakeRecovery ==
  /\ cycle = "up" /\ recovery > 0
  /\ recovery' = recovery - 1
  /\ IF worker = "idle" /\ failure = "none"
       THEN StartMaintenance(FALSE, binding) /\ UNCHANGED renewPending
       ELSE UNCHANGED workVars /\ renewPending' = (renewPending \/ failure = "none")
  /\ UNCHANGED <<cycle, stopped, failure, renew, checkVars, bindVars, recoveryUsed, callUp,
                 rtVars, optionsOn>>

\* OPTIONS proved the path, but the binding ran out meanwhile: check again.
ResultStale ==
  /\ cycle = "up" /\ worker = "alive" /\ binding = "expired"
  /\ StartMaintenance(TRUE, binding)
  /\ UNCHANGED <<loopVars, checkVars, bindVars, callVars, rtVars, optionsOn>>

\* Faulty variant: any result answers every request.
FinishCheckBlind ==
  /\ verified' = workRevision
  /\ checking' = FALSE /\ token' = FALSE
  /\ UNCHANGED <<revision, recoveryPending>>

\* finishConnectionCheck, for a worker that succeeded
FinishCheck ==
  /\ verified' = workRevision
  /\ IF ~stopped /\ revision = workRevision
       THEN checking' = FALSE /\ token' = FALSE
       ELSE UNCHANGED <<checking, token>>
  /\ UNCHANGED <<revision, recoveryPending>>

\* Faulty variant: an OPTIONS answer counts however old the binding is.
ResultAliveAnyAge ==
  /\ cycle = "up" /\ worker = "alive"
  /\ FinishCheck
  /\ renewPending' = FALSE
  /\ IF renewPending THEN StartMaintenance(FALSE, binding)
     ELSE IF checking' /\ ~stopped THEN StartMaintenance(TRUE, binding)
     ELSE worker' = "idle" /\ UNCHANGED <<workRefresh, workRevision>>
  /\ UNCHANGED <<cycle, stopped, failure, renew, bindVars, callVars, rtVars, optionsOn>>

\* OPTIONS proved the path within the lifetime of the binding.
ResultAlive ==
  /\ cycle = "up" /\ worker = "alive" /\ binding # "expired"
  /\ FinishCheck
  /\ renewPending' = FALSE
  /\ IF renewPending THEN StartMaintenance(FALSE, binding)
     ELSE IF checking' /\ ~stopped THEN StartMaintenance(TRUE, binding)
     ELSE worker' = "idle" /\ UNCHANGED <<workRefresh, workRevision>>
  /\ UNCHANGED <<cycle, stopped, failure, renew, bindVars, callVars, rtVars, optionsOn>>

\* REGISTER was granted: the renewal timer starts anew.
ResultGranted ==
  /\ cycle = "up" /\ worker = "granted"
  /\ binding' \in {"fresh", "short"}
  /\ renew' = "armed" /\ renewPending' = FALSE
  /\ FinishCheck
  /\ IF checking' /\ ~stopped THEN StartMaintenance(TRUE, binding')
     ELSE worker' = "idle" /\ UNCHANGED <<workRefresh, workRevision>>
  /\ UNCHANGED <<cycle, stopped, failure, registered, callVars, rtVars, optionsOn>>

\* WithdrawRegistration and deferConnectionRecovery; a call is kept.
ResultFailed ==
  /\ cycle = "up" /\ worker \in {"failed", "refused"}
  /\ failure' = worker
  /\ registered' = FALSE
  /\ checking' = FALSE /\ token' = FALSE /\ recoveryPending' = TRUE
  /\ IF callUp
       THEN /\ worker' = "idle"
            /\ UNCHANGED <<cycle, renew, renewPending, binding, workRefresh, workRevision>>
       ELSE Return
  /\ UNCHANGED <<stopped, revision, verified, callVars, rtVars, optionsOn>>

\* tunnelDone
TakeTunnelDone ==
  /\ cycle = "up"
  /\ Return
  /\ UNCHANGED <<stopped, failure, checkVars, registered, callVars, rtVars, optionsOn>>

TakeTransportFailure ==
  /\ cycle = "up" /\ failureC
  /\ failureC' = FALSE
  /\ Return
  /\ UNCHANGED <<stopped, failure, checkVars, registered, callVars, healthy, rtFailed,
                 queued, hb, hbRequest, optionsOn>>

\* The 250 ms ticker: the call that was preserved is over.
TakeTick ==
  /\ cycle = "up" /\ failure # "none" /\ ~callUp
  /\ Return
  /\ UNCHANGED <<stopped, failure, checkVars, registered, callVars, rtVars, optionsOn>>

-----------------------------------------------------------------------------
(* The worker: CheckConnection *)

\* At least 15 s between two REGISTERs for checks.
WorkWait ==
  /\ worker = "delay"
  /\ worker' = "call"
  /\ UNCHANGED <<loopVars, checkVars, workRefresh, workRevision, bindVars, callVars,
                 rtVars, optionsOn>>

\* RefreshRegistration needs a healthy transport, a check joins the heartbeat.
WorkCall ==
  /\ worker = "call"
  /\ IF workRefresh
       THEN worker' = (IF healthy THEN "register" ELSE "refused") /\ UNCHANGED queued
       ELSE worker' = "await" /\ queued' = TRUE
  /\ UNCHANGED <<loopVars, checkVars, workRefresh, workRevision, bindVars, callVars,
                 healthy, rtFailed, failureC, hb, hbRequest, optionsOn>>

\* The registrar's answer, an error, or the 60 s deadline.
WorkRegister ==
  /\ worker = "register"
  /\ \/ ~stopped /\ worker' = "granted" /\ registered' = TRUE
     \/ worker' = "failed" /\ UNCHANGED registered
  /\ UNCHANGED <<loopVars, checkVars, workRefresh, workRevision, binding, callVars, rtVars,
                 optionsOn>>

\* The 60 s deadline of a check.
WorkTimeout ==
  /\ worker = "await"
  /\ worker' = "failed"
  /\ UNCHANGED <<loopVars, checkVars, workRefresh, workRevision, bindVars, callVars,
                 rtVars, optionsOn>>

-----------------------------------------------------------------------------
(* The heartbeat: runOptionsPing and confirmOptionsHeartbeat *)

HeartbeatTick ==
  /\ hb = "idle"
  /\ hb' = "probe" /\ hbRequest' = FALSE
  /\ UNCHANGED <<loopVars, checkVars, workVars, bindVars, callVars, healthy, rtFailed,
                 failureC, queued, optionsOn>>

\* A request whose deadline has passed is skipped.
HeartbeatTake ==
  /\ hb = "idle" /\ queued
  /\ queued' = FALSE
  /\ IF worker = "await" THEN hb' = "probe" /\ hbRequest' = TRUE
     ELSE UNCHANGED <<hb, hbRequest>>
  /\ UNCHANGED <<loopVars, checkVars, workVars, bindVars, callVars, healthy, rtFailed,
                 failureC, optionsOn>>

\* probeCtx.Err() = nil: the deadline of a requested check has not passed.
ProbeLive == hbRequest => worker = "await"

\* requested.done: nobody reads it once the check has timed out.
Answer(outcome) ==
  /\ worker' = IF hbRequest /\ worker = "await" THEN outcome ELSE worker
  /\ UNCHANGED <<workRefresh, workRevision>>

\* A 2xx to the first probe.
HeartbeatAlive ==
  /\ hb = "probe"
  /\ hb' = "idle" /\ hbRequest' = FALSE
  /\ Answer("alive")
  /\ UNCHANGED <<loopVars, checkVars, bindVars, callVars, healthy, rtFailed, failureC,
                 queued, optionsOn>>

\* markDegraded: readiness is withdrawn while the probe is repeated.
HeartbeatMiss ==
  /\ hb = "probe" /\ ProbeLive
  /\ hb' = "confirm"
  /\ healthy' = FALSE
  /\ UNCHANGED <<loopVars, checkVars, workVars, bindVars, callVars, rtFailed, failureC,
                 queued, hbRequest, optionsOn>>

\* Faulty variant: the confirmation does not restore readiness.
HeartbeatRecoverSilent ==
  /\ hb = "confirm" /\ ProbeLive
  /\ hb' = "idle" /\ hbRequest' = FALSE
  /\ Answer("alive")
  /\ UNCHANGED <<loopVars, checkVars, bindVars, callVars, healthy, rtFailed, failureC,
                 queued, optionsOn>>

\* markHealthy
HeartbeatRecover ==
  /\ hb = "confirm" /\ ProbeLive
  /\ hb' = "idle" /\ hbRequest' = FALSE
  /\ healthy' = TRUE
  /\ Answer("alive")
  /\ UNCHANGED <<loopVars, checkVars, bindVars, callVars, rtFailed, failureC, queued,
                 optionsOn>>

\* The second miss, or the deadline of a requested check: the engine owns recovery
\* for a request; a periodic miss fails the transport.
HeartbeatLost ==
  /\ hb = "confirm" \/ (hb = "probe" /\ ~ProbeLive)
  /\ hb' = "gone" /\ hbRequest' = FALSE
  /\ Answer("failed")
  /\ IF hbRequest
       THEN UNCHANGED <<healthy, rtFailed, failureC>>
       ELSE healthy' = FALSE /\ rtFailed' = TRUE /\ failureC' = TRUE
  /\ UNCHANGED <<loopVars, checkVars, bindVars, callVars, queued, optionsOn>>

\* transportRuntime.fail by a read or write loop; it ends the heartbeat as well.
TransportFail ==
  /\ cycle # "down" /\ ~rtFailed
  /\ healthy' = FALSE /\ rtFailed' = TRUE /\ failureC' = TRUE
  /\ hb' = "gone" /\ hbRequest' = FALSE
  /\ UNCHANGED <<loopVars, checkVars, workVars, bindVars, callVars, queued, optionsOn>>

-----------------------------------------------------------------------------
(* The host, the clock and the calls *)

\* requestConnectionCheck
RequestCheck ==
  /\ cycle # "down" /\ ~stopped /\ ~recoveryPending
  /\ revision < MaxRevision
  /\ revision' = revision + 1
  /\ checking' = TRUE
  /\ token' = (token \/ ~checking)
  /\ UNCHANGED <<loopVars, verified, recoveryPending, workVars, bindVars, callVars, rtVars,
                 optionsOn>>

RenewalDue ==
  /\ renew = "armed"
  /\ renew' = "fired"
  /\ UNCHANGED <<cycle, stopped, failure, renewPending, checkVars, workVars, bindVars,
                 callVars, rtVars, optionsOn>>

BindingAges ==
  /\ cycle = "up" /\ binding # "expired"
  /\ binding' = IF binding = "fresh" THEN "short" ELSE "expired"
  /\ UNCHANGED <<loopVars, checkVars, workVars, registered, callVars, rtVars, optionsOn>>

CallBegins ==
  /\ cycle = "up" /\ ~rtFailed /\ ~callUp
  /\ callUp' = TRUE
  /\ UNCHANGED <<loopVars, checkVars, workVars, bindVars, recovery, recoveryUsed, rtVars,
                 optionsOn>>

CallEnds ==
  /\ callUp
  /\ callUp' = FALSE
  /\ UNCHANGED <<loopVars, checkVars, workVars, bindVars, recovery, recoveryUsed, rtVars,
                 optionsOn>>

\* Faulty variant: every rejected INVITE asks for a recovery.
InviteRejectedAlways ==
  /\ cycle = "up" /\ ~stopped /\ registered
  /\ recovery' = recovery + 1
  /\ UNCHANGED <<loopVars, checkVars, workVars, bindVars, recoveryUsed, callUp, rtVars,
                 optionsOn>>

\* requestInviteRegistrationRecovery sends on a channel of capacity one while it
\* holds stateMu.
InviteRejected ==
  /\ cycle = "up" /\ ~stopped /\ registered /\ ~recoveryUsed
  /\ recoveryUsed' = TRUE
  /\ recovery' = recovery + 1
  /\ UNCHANGED <<loopVars, checkVars, workVars, bindVars, callUp, rtVars, optionsOn>>

-----------------------------------------------------------------------------
Loop ==
  \/ TakeCancel \/ TakeRenewal \/ TakeCheck \/ TakeRecovery
  \/ ResultStale \/ ResultAlive \/ ResultGranted \/ ResultFailed
  \/ TakeTunnelDone \/ TakeTransportFailure \/ TakeTick

Work == WorkWait \/ WorkCall \/ WorkRegister \/ WorkTimeout

Heartbeat ==
  \/ HeartbeatTick \/ HeartbeatTake \/ HeartbeatAlive \/ HeartbeatMiss
  \/ HeartbeatRecover \/ HeartbeatLost

Next ==
  \/ Publish \/ Teardown \/ Stop \/ NewRun
  \/ Loop \/ Work \/ Heartbeat
  \/ TransportFail \/ RequestCheck \/ RenewalDue \/ BindingAges
  \/ CallBegins \/ CallEnds \/ InviteRejected

\* Go's select serves a case that stays ready, the worker has deadlines and the
\* heartbeat's probes time out.  Nothing makes the host, the clock or a caller act,
\* and nothing makes a reconnect succeed.
Fairness ==
  /\ WF_vars(Teardown) /\ WF_vars(TakeCancel) /\ WF_vars(TakeCheck)
  /\ WF_vars(ResultStale \/ ResultAlive \/ ResultGranted \/ ResultFailed)
  /\ WF_vars(TakeTransportFailure) /\ WF_vars(TakeTick)
  /\ WF_vars(Work)
  /\ WF_vars(HeartbeatAlive \/ HeartbeatMiss \/ HeartbeatRecover \/ HeartbeatLost)

Spec == Init /\ [][Next]_vars
LiveSpec == Spec /\ Fairness

-----------------------------------------------------------------------------
(* Properties *)

FlagsOK ==
  /\ stopped \in BOOLEAN /\ renewPending \in BOOLEAN
  /\ checking \in BOOLEAN /\ token \in BOOLEAN /\ recoveryPending \in BOOLEAN
  /\ workRefresh \in BOOLEAN /\ registered \in BOOLEAN
  /\ recoveryUsed \in BOOLEAN /\ callUp \in BOOLEAN /\ optionsOn \in BOOLEAN
  /\ healthy \in BOOLEAN /\ rtFailed \in BOOLEAN /\ failureC \in BOOLEAN
  /\ queued \in BOOLEAN /\ hbRequest \in BOOLEAN

\* In particular registrationRecovery never holds more than its capacity: a send to
\* it would block with stateMu held and stop the whole Service.
TypeOK ==
  /\ FlagsOK
  /\ cycle \in {"up", "closing", "down"}
  /\ failure \in {"none", "failed", "refused"}
  /\ renew \in {"armed", "fired", "off"}
  /\ revision \in 0..MaxRevision /\ verified \in 0..MaxRevision
  /\ worker \in {"idle", "delay", "call", "register", "await", "granted", "alive",
                 "failed", "refused"}
  /\ workRevision \in 0..MaxRevision
  /\ binding \in {"fresh", "short", "expired"}
  /\ recovery \in 0..1
  /\ hb \in {"idle", "probe", "confirm", "gone"}

\* The registration is never left to expire: in a cycle that has not failed the
\* renewal timer runs, its expiry is remembered, or a REGISTER is on its way, however
\* renewals, checks and recoveries interleave on the one maintenance slot.
RenewalNeverLost ==
  cycle = "up" /\ failure = "none" =>
    renew # "off" \/ renewPending \/ (worker # "idle" /\ workRefresh)

\* checkRevision: the host is told that checking is over only when a verification
\* that began after its last request has succeeded, not one that was under way.
NoRequestForgotten ==
  cycle = "up" /\ failure = "none" /\ ~checking => verified = revision

\* A check the host was promised is scheduled: its token is unread or a worker runs,
\* although the loop drops tokens that find it busy.
CheckScheduled ==
  cycle = "up" /\ failure = "none" /\ ~stopped /\ checking => token \/ worker # "idle"

\* Both: what requestConnectionCheck promised is neither dropped nor declared done early.
RequestsHonoured == NoRequestForgotten /\ CheckScheduled

\* "OPTIONS proves path liveness, never a renewed IMS binding": a check never ends
\* successfully on a binding that has expired.
CheckProvesBinding ==
  [][checking /\ ~checking' /\ cycle' = "up" /\ failure' = "none"
       => binding' # "expired"]_vars

\* After a failed renewal "recovery" belongs to the next cycle: this one never
\* reports itself registered again, whatever is still queued.
FailureIsSticky == failure # "none" => ~registered

\* Every check ends, with a verification or with the end of the cycle.
CheckConcludes == checking ~> ~checking

\* Readiness that a missed heartbeat withdrew comes back, or the cycle is given up.
DegradedResolves ==
  cycle = "up" /\ ~healthy ~> healthy \/ cycle # "up" \/ failure # "none"

\* "current call is preserved, reconnecting after hangup": a failed cycle without a
\* call does not linger.
FailedCycleEnds ==
  cycle = "up" /\ failure # "none" /\ ~callUp ~> cycle # "up" \/ callUp

\* What is under way in a cycle comes to its end: checks, degraded readiness and a
\* cycle whose maintenance failed.
MaintenanceSettles == CheckConcludes /\ DegradedResolves /\ FailedCycleEnds

=============================================================================
