-------------------------- MODULE ServiceLifecycle --------------------------
(***************************************************************************)
(* The lifecycle of imscore.Service: Start registers with the carrier and  *)
(* commits an authenticated transport runtime, Close tears it down for     *)
(* good, and SMS/call/fax operations and Port-S handlers borrow the        *)
(* runtime in between.  closeMu, stateMu, operationMu and the startDone    *)
(* channel are what keep the three apart.                                  *)
(*                                                                         *)
(* A critical section of stateMu is one atomic step.  operationMu is a Go  *)
(* RWMutex: a waiting writer keeps new readers out.  A thread of Starters  *)
(* or Closers makes one call; an operation thread calls again and again.   *)
(* A lifecycle context, startDone channel, registration and runtime are    *)
(* named by the Start call that made them.                                 *)
(***************************************************************************)
EXTENDS Naturals

CONSTANTS Starters,          \* calls of Service.Start
          Closers,           \* calls of Service.Close
          Operations,        \* threads that run SMS, call, fax and Port-S work
          UserspaceNetwork,  \* the service runs over a UserspaceIMSNetwork
          None, Network

ASSUME ThreadsAssumption ==
  /\ Starters \cap Closers = {}
  /\ Starters \cap Operations = {}
  /\ Closers \cap Operations = {}
  /\ None \notin Starters \cup {Network}
  /\ None \notin Closers
  /\ Network \notin Starters
  /\ UserspaceNetwork \in BOOLEAN

Threads == Starters \cup Closers \cup Operations
Dialers == Starters \cup {Network}

VARIABLES
  lifecycleID, starting, started, closing, registered,  \* fields of Service
  lifecycle,    \* lifecycleCtx and lifecycleCancel: whose context, or None
  startDone,    \* the published startDone channel, or None
  swu,          \* the published SWu dialer, or None
  runtime,      \* transportRuntime, calls and fax, published together
  gen,          \* the lifecycleID each Start captured
  cancelled,    \* lifecycle contexts that are cancelled
  doneCh,       \* startDone channels that are closed
  dialer,       \* each SWu dialer: "none", "open" or "closed"
  conn,         \* the sockets of each registration: "none", "open" or "closed"
  rt,           \* each runtime: "none", "running", "closing" or "closed"
  closeMu,      \* holder of closeMu across steps, or None
  writer,       \* the thread inside operationMu.Lock(), or None
  closeArgs,    \* what Close read under stateMu, to act on afterwards
  pc,           \* where each thread is
  owner,        \* runtime whose handler an operation runs, None for an API call
  lease,        \* runtime pointer an admitted operation works with
  loose         \* operations that are RP-ACK goroutines, outside rt.wg

stateVars == <<lifecycleID, starting, started, closing, registered, lifecycle,
               startDone, swu, runtime>>
resourceVars == <<dialer, conn, rt>>
lockVars == <<closeMu, writer, closeArgs>>
opVars == <<owner, lease, loose>>
vars == <<stateVars, gen, cancelled, doneCh, resourceVars, lockVars, pc, opVars>>

-----------------------------------------------------------------------------
(* Helpers *)

\* Program points of a Start between publishing its context and returning.
StartActive == {"resolve", "publish", "register", "activate", "commit",
                "unwind", "fail"}

\* Operations inside operationMu.RLock().
Readers == {o \in Operations : pc[o] \in {"locked", "pinned", "holding"}}

LifecycleCurrent(s) ==
  s \notin cancelled /\ ~closing /\ lifecycleID = gen[s]

\* Handlers a runtime's Close waits for (rt.wg).
Handlers(s) == {o \in Operations \ loose : pc[o] # "idle" /\ owner[o] = s}

Goto(t, label) == pc' = [pc EXCEPT ![t] = label]

Init ==
  /\ lifecycleID = 0
  /\ starting = FALSE /\ started = FALSE /\ closing = FALSE /\ registered = FALSE
  /\ lifecycle = None /\ startDone = None /\ swu = None /\ runtime = None
  /\ gen = [s \in Starters |-> 0]
  /\ cancelled = {} /\ doneCh = {}
  /\ dialer = [d \in Dialers |->
                 IF d = Network /\ UserspaceNetwork THEN "open" ELSE "none"]
  /\ conn = [s \in Starters |-> "none"]
  /\ rt = [s \in Starters |-> "none"]
  /\ closeMu = None /\ writer = None
  /\ closeArgs = [cancel |-> None, startDone |-> None, runtime |-> None, swu |-> None]
  /\ pc = [t \in Threads |-> "idle"]
  /\ owner = [o \in Operations |-> None]
  /\ lease = [o \in Operations |-> None]
  /\ loose = {}

-----------------------------------------------------------------------------
(* Start *)

StartRefused(s) ==
  /\ pc[s] = "idle" /\ closeMu = None
  /\ closing \/ started \/ starting \/ lifecycle # None
  /\ Goto(s, "returned")
  /\ UNCHANGED <<stateVars, gen, cancelled, doneCh, resourceVars, lockVars, opVars>>

StartEnter(s) ==
  /\ pc[s] = "idle" /\ closeMu = None
  /\ ~closing /\ ~started /\ ~starting /\ lifecycle = None
  /\ lifecycleID' = lifecycleID + 1
  /\ gen' = [gen EXCEPT ![s] = lifecycleID + 1]
  /\ starting' = TRUE
  /\ lifecycle' = s
  /\ startDone' = s
  /\ Goto(s, "resolve")
  /\ UNCHANGED <<started, closing, registered, swu, runtime, cancelled, doneCh,
                 resourceVars, lockVars, opVars>>

\* resolveSWUDialer: the published dialer, the network's, or a fresh netstack.
StartResolve(s) ==
  /\ pc[s] = "resolve"
  /\ \/ Goto(s, "fail") /\ swu = None /\ ~UserspaceNetwork /\ UNCHANGED dialer
     \/ /\ Goto(s, "publish")
        /\ dialer' = IF swu = None /\ ~UserspaceNetwork
                       THEN [dialer EXCEPT ![s] = "open"] ELSE dialer
  /\ UNCHANGED <<stateVars, gen, cancelled, doneCh, conn, rt, lockVars, opVars>>

StartPublish(s) ==
  /\ pc[s] = "publish"
  /\ swu' = IF swu # None THEN swu ELSE IF UserspaceNetwork THEN Network ELSE s
  /\ Goto(s, IF LifecycleCurrent(s) THEN "register" ELSE "fail")
  /\ UNCHANGED <<lifecycleID, starting, started, closing, registered, lifecycle,
                 startDone, runtime, gen, cancelled, doneCh, resourceVars,
                 lockVars, opVars>>

\* runRegisterFlow: fails, or returns a binding with or without a retained
\* authenticated connection; then the two lifecycleCurrent checks.
StartRegister(s) ==
  /\ pc[s] = "register"
  /\ \/ Goto(s, "fail") /\ UNCHANGED conn
     \/ \E kept \in {"none", "open"} :
          /\ conn' = [conn EXCEPT ![s] = kept]
          /\ Goto(s, IF LifecycleCurrent(s) THEN "activate" ELSE "fail")
  /\ UNCHANGED <<stateVars, gen, cancelled, doneCh, dialer, rt, lockVars, opVars>>

\* startTransportRuntime, only for a registration that kept a connection.
StartRuntime(s) ==
  /\ pc[s] = "activate"
  /\ \/ Goto(s, "fail") /\ conn[s] = "open" /\ UNCHANGED rt
     \/ /\ rt' = IF conn[s] = "open" THEN [rt EXCEPT ![s] = "running"] ELSE rt
        /\ Goto(s, "commit")
  /\ UNCHANGED <<stateVars, gen, cancelled, doneCh, dialer, conn, lockVars, opVars>>

\* The publication at the end of activateRegisteredRuntime.
StartCommit(s) ==
  /\ pc[s] = "commit"
  /\ LifecycleCurrent(s)
  /\ registered' = TRUE
  /\ started' = TRUE
  /\ starting' = FALSE
  /\ runtime' = IF rt[s] = "running" THEN s ELSE None
  /\ Goto(s, "finish")
  /\ UNCHANGED <<lifecycleID, closing, lifecycle, startDone, swu, gen, cancelled,
                 doneCh, resourceVars, lockVars, opVars>>

\* The lifecycle stopped before the commit: runtime.Close, up to its wg.Wait.
StartAbandon(s) ==
  /\ pc[s] = "commit"
  /\ ~LifecycleCurrent(s)
  /\ IF rt[s] = "running"
       THEN /\ rt' = [rt EXCEPT ![s] = "closing"]
            /\ conn' = [conn EXCEPT ![s] = "closed"]
            /\ Goto(s, "unwind")
       ELSE UNCHANGED <<rt, conn>> /\ Goto(s, "fail")
  /\ UNCHANGED <<stateVars, gen, cancelled, doneCh, dialer, lockVars, opVars>>

StartUnwind(s) ==
  /\ pc[s] = "unwind"
  /\ Handlers(s) = {}
  /\ rt' = [rt EXCEPT ![s] = "closed"]
  /\ Goto(s, "fail")
  /\ UNCHANGED <<stateVars, gen, cancelled, doneCh, dialer, conn, lockVars, opVars>>

\* Faulty variant: the error path forgets the sockets REGISTER handed over.
StartFailLeaky(s) ==
  /\ pc[s] = "fail"
  /\ Goto(s, "finish")
  /\ lifecycle' = IF lifecycleID = gen[s] THEN None ELSE lifecycle
  /\ starting' = IF lifecycleID = gen[s] THEN FALSE ELSE starting
  /\ cancelled' = IF lifecycleID = gen[s] THEN cancelled \cup {s} ELSE cancelled
  /\ UNCHANGED <<lifecycleID, closing, startDone, swu, registered, runtime,
                 started, gen, doneCh, resourceVars, lockVars, opVars>>

\* failRegisteredRuntimeStart
StartFail(s) ==
  /\ pc[s] = "fail"
  /\ conn' = IF conn[s] = "open" THEN [conn EXCEPT ![s] = "closed"] ELSE conn
  /\ IF lifecycleID = gen[s]
       THEN /\ lifecycle' = None
            /\ registered' = FALSE
            /\ runtime' = None
            /\ started' = FALSE
            /\ starting' = FALSE
            /\ cancelled' = IF lifecycle # None THEN cancelled \cup {lifecycle}
                                                ELSE cancelled
       ELSE UNCHANGED <<lifecycle, registered, runtime, started, starting, cancelled>>
  /\ Goto(s, "finish")
  /\ UNCHANGED <<lifecycleID, closing, startDone, swu, gen, doneCh, dialer, rt,
                 lockVars, opVars>>

\* The deferred close(startDone) ...
StartFinish(s) ==
  /\ pc[s] = "finish"
  /\ doneCh' = doneCh \cup {s}
  /\ Goto(s, "clear")
  /\ UNCHANGED <<stateVars, gen, cancelled, resourceVars, lockVars, opVars>>

\* ... and the clearing of the field, if it is still this call's channel.
StartReturn(s) ==
  /\ pc[s] = "clear"
  /\ startDone' = IF startDone = s THEN None ELSE startDone
  /\ Goto(s, "returned")
  /\ UNCHANGED <<lifecycleID, starting, started, closing, registered, lifecycle,
                 swu, runtime, gen, cancelled, doneCh, resourceVars, lockVars, opVars>>

\* The context Start was called with is cancelled (the engine's cycle ends).
ParentCancel(s) ==
  /\ pc[s] # "idle" /\ gen[s] # 0 /\ s \notin cancelled
  /\ cancelled' = cancelled \cup {s}
  /\ UNCHANGED <<stateVars, gen, doneCh, resourceVars, lockVars, pc, opVars>>

-----------------------------------------------------------------------------
(* Close *)

\* A second Close: it waited for the first one's closeMu.
CloseAgain(c) ==
  /\ pc[c] = "idle" /\ closeMu = None
  /\ closing
  /\ Goto(c, "returned")
  /\ UNCHANGED <<stateVars, gen, cancelled, doneCh, resourceVars, lockVars, opVars>>

CloseEnter(c) ==
  /\ pc[c] = "idle" /\ closeMu = None
  /\ ~closing
  /\ closeMu' = c
  /\ closing' = TRUE
  /\ lifecycleID' = lifecycleID + 1
  /\ closeArgs' = [closeArgs EXCEPT !.cancel = lifecycle, !.startDone = startDone]
  /\ Goto(c, "cancel")
  /\ UNCHANGED <<starting, started, registered, lifecycle, startDone, swu, runtime,
                 gen, cancelled, doneCh, resourceVars, writer, opVars>>

\* Faulty variant: call the cancel function of a Service that never started.
CloseCancelUnguarded(c) ==
  /\ pc[c] = "cancel"
  /\ cancelled' = cancelled \cup {closeArgs.cancel}
  /\ Goto(c, "await")
  /\ UNCHANGED <<stateVars, gen, doneCh, resourceVars, lockVars, opVars>>

CloseCancel(c) ==
  /\ pc[c] = "cancel"
  /\ cancelled' = IF closeArgs.cancel # None THEN cancelled \cup {closeArgs.cancel}
                                             ELSE cancelled
  /\ Goto(c, "await")
  /\ UNCHANGED <<stateVars, gen, doneCh, resourceVars, lockVars, opVars>>

\* Faulty variant: do not wait for the Start that is still running.
CloseAwaitNothing(c) ==
  /\ pc[c] = "await"
  /\ writer' = c
  /\ Goto(c, "drain")
  /\ UNCHANGED <<stateVars, gen, cancelled, doneCh, resourceVars, closeMu, closeArgs,
                 opVars>>

\* <-startDone, then operationMu.Lock() announces the writer.
CloseAwaitStart(c) ==
  /\ pc[c] = "await"
  /\ closeArgs.startDone = None \/ closeArgs.startDone \in doneCh
  /\ writer' = c
  /\ Goto(c, "drain")
  /\ UNCHANGED <<stateVars, gen, cancelled, doneCh, resourceVars, closeMu, closeArgs,
                 opVars>>

\* What every variant of the detaching step does to the Service.
Detach ==
  /\ closeArgs' = [closeArgs EXCEPT !.runtime = runtime, !.swu = swu]
  /\ runtime' = None /\ lifecycle' = None /\ startDone' = None /\ swu' = None
  /\ registered' = FALSE /\ started' = FALSE /\ starting' = FALSE
  /\ UNCHANGED <<lifecycleID, closing, gen, cancelled, doneCh, resourceVars, closeMu,
                 opVars>>

\* Faulty variant: detach while operations still use the runtime.
CloseDetachEarly(c) ==
  /\ pc[c] = "drain"
  /\ Detach
  /\ writer' = None
  /\ Goto(c, "runtime")

\* Faulty variant: keep operationMu while the runtime is closed.
CloseDetachGated(c) ==
  /\ pc[c] = "drain"
  /\ Readers = {}
  /\ Detach
  /\ UNCHANGED writer
  /\ Goto(c, "runtime")

\* The readers are gone: detach everything and release operationMu.
CloseDetach(c) ==
  /\ pc[c] = "drain"
  /\ Readers = {}
  /\ Detach
  /\ writer' = None
  /\ Goto(c, "runtime")

\* fax.Close, calls.close and runtime.Close up to its wg.Wait.
CloseRuntime(c) ==
  /\ pc[c] = "runtime"
  /\ IF closeArgs.runtime # None
       THEN /\ rt' = [rt EXCEPT ![closeArgs.runtime] = "closing"]
            /\ conn' = [conn EXCEPT ![closeArgs.runtime] = "closed"]
       ELSE UNCHANGED <<rt, conn>>
  /\ Goto(c, "wait")
  /\ UNCHANGED <<stateVars, gen, cancelled, doneCh, dialer, lockVars, opVars>>

\* wg.Wait is over; close the network (or the standalone dialer), free closeMu.
CloseReturn(c) ==
  /\ pc[c] = "wait"
  /\ closeArgs.runtime # None => Handlers(closeArgs.runtime) = {}
  /\ rt' = IF closeArgs.runtime # None
             THEN [rt EXCEPT ![closeArgs.runtime] = "closed"] ELSE rt
  /\ dialer' = IF UserspaceNetwork THEN [dialer EXCEPT ![Network] = "closed"]
               ELSE IF closeArgs.swu # None
                      THEN [dialer EXCEPT ![closeArgs.swu] = "closed"] ELSE dialer
  /\ closeMu' = None
  /\ Goto(c, "returned")
  /\ UNCHANGED <<stateVars, gen, cancelled, doneCh, conn, writer, closeArgs, opVars>>

-----------------------------------------------------------------------------
(* Operations and Port-S handlers *)

ApiCall(o) ==
  /\ pc[o] = "idle"
  /\ owner' = [owner EXCEPT ![o] = None]
  /\ loose' = loose \ {o}
  /\ Goto(o, "arrived")
  /\ UNCHANGED <<stateVars, gen, cancelled, doneCh, resourceVars, lockVars, lease>>

\* IncomingSIPHandler of a running runtime.
HandlerCall(o, s) ==
  /\ pc[o] = "idle" /\ rt[s] = "running"
  /\ owner' = [owner EXCEPT ![o] = s]
  /\ loose' = loose \ {o}
  /\ Goto(o, "arrived")
  /\ UNCHANGED <<stateVars, gen, cancelled, doneCh, resourceVars, lockVars, lease>>

\* IncomingRPAck: a goroutine that may outlive the runtime it was started for.
RPAckCall(o, s) ==
  /\ pc[o] = "idle" /\ rt[s] = "running"
  /\ owner' = [owner EXCEPT ![o] = s]
  /\ loose' = loose \cup {o}
  /\ Goto(o, "arrived")
  /\ UNCHANGED <<stateVars, gen, cancelled, doneCh, resourceVars, lockVars, lease>>

\* operationMu.RLock(): a waiting writer keeps new readers out.
RLock(o) ==
  /\ pc[o] = "arrived"
  /\ writer = None
  /\ Goto(o, "locked")
  /\ UNCHANGED <<stateVars, gen, cancelled, doneCh, resourceVars, lockVars, opVars>>

\* Faulty variant: admit an operation although Close has begun.
AcquireLeaseLate(o) ==
  /\ pc[o] = "locked"
  /\ IF ~started
       THEN Goto(o, "idle") /\ UNCHANGED lease
       ELSE /\ lease' = [lease EXCEPT ![o] = runtime]
            /\ Goto(o, IF owner[o] = None THEN "holding" ELSE "pinned")
  /\ UNCHANGED <<stateVars, gen, cancelled, doneCh, resourceVars, lockVars, owner,
                 loose>>

\* The snapshot of acquireLifecycleLease; a refusal releases the read lock.
AcquireLease(o) ==
  /\ pc[o] = "locked"
  /\ IF closing \/ ~started
       THEN Goto(o, "idle") /\ UNCHANGED lease
       ELSE /\ lease' = [lease EXCEPT ![o] = runtime]
            /\ Goto(o, IF owner[o] = None THEN "holding" ELSE "pinned")
  /\ UNCHANGED <<stateVars, gen, cancelled, doneCh, resourceVars, lockVars, owner,
                 loose>>

\* The generation check of acquireRuntimeLease.
VerifyLease(o) ==
  /\ pc[o] = "pinned"
  /\ Goto(o, IF LifecycleCurrent(owner[o]) THEN "holding" ELSE "idle")
  /\ UNCHANGED <<stateVars, gen, cancelled, doneCh, resourceVars, lockVars, opVars>>

\* The operation ends, or acquireOperation(true) finds the transport not ready.
Release(o) ==
  /\ pc[o] = "holding"
  /\ Goto(o, "idle")
  /\ UNCHANGED <<stateVars, gen, cancelled, doneCh, resourceVars, lockVars, opVars>>

\* The commit at the end of RefreshRegistration.
RefreshCommit(o) ==
  /\ pc[o] = "holding" /\ owner[o] = None /\ lease[o] # None
  /\ ~closing /\ runtime = lease[o] /\ lifecycle \notin cancelled
  /\ registered' = TRUE
  /\ UNCHANGED <<lifecycleID, starting, started, closing, lifecycle, startDone, swu,
                 runtime, gen, cancelled, doneCh, resourceVars, lockVars, pc, opVars>>

WithdrawRegistration ==
  /\ registered
  /\ registered' = FALSE
  /\ UNCHANGED <<lifecycleID, starting, started, closing, lifecycle, startDone, swu,
                 runtime, gen, cancelled, doneCh, resourceVars, lockVars, pc, opVars>>

-----------------------------------------------------------------------------
StartNext(s) ==
  \/ StartRefused(s) \/ StartEnter(s) \/ StartResolve(s) \/ StartPublish(s)
  \/ StartRegister(s) \/ StartRuntime(s) \/ StartCommit(s) \/ StartAbandon(s)
  \/ StartUnwind(s) \/ StartFail(s) \/ StartFinish(s) \/ StartReturn(s)

CloseNext(c) ==
  \/ CloseAgain(c) \/ CloseEnter(c) \/ CloseCancel(c) \/ CloseAwaitStart(c)
  \/ CloseDetach(c) \/ CloseRuntime(c) \/ CloseReturn(c)

OpNext(o) ==
  \/ ApiCall(o) \/ (\E s \in Starters : HandlerCall(o, s) \/ RPAckCall(o, s))
  \/ RLock(o) \/ AcquireLease(o) \/ VerifyLease(o) \/ Release(o) \/ RefreshCommit(o)

Next ==
  \/ \E s \in Starters : StartNext(s) \/ ParentCancel(s)
  \/ \E c \in Closers : CloseNext(c)
  \/ \E o \in Operations : OpNext(o)
  \/ WithdrawRegistration

\* REGISTER has a deadline, Close never yields, a queued reader is served, and an
\* operation whose lifecycle context is cancelled gives up: every wait in it
\* selects on that context.  Nothing forces a live operation to end.
Fairness ==
  /\ \A s \in Starters : WF_vars(pc[s] # "idle" /\ StartNext(s))
  /\ \A c \in Closers : WF_vars(pc[c] # "idle" /\ CloseNext(c))
  /\ \A o \in Operations :
       /\ WF_vars(RLock(o) \/ AcquireLease(o) \/ VerifyLease(o))
       /\ WF_vars(lifecycle \in cancelled /\ Release(o))

Spec == Init /\ [][Next]_vars
LiveSpec == Spec /\ Fairness

-----------------------------------------------------------------------------
(* Properties *)

\* The Service's fields, contexts, channels and locks keep their types; in particular
\* Close never cancels a lifecycle that no Start published.
TypeOK ==
  /\ lifecycleID \in Nat /\ gen \in [Starters -> Nat]
  /\ starting \in BOOLEAN /\ started \in BOOLEAN
  /\ closing \in BOOLEAN /\ registered \in BOOLEAN
  /\ lifecycle \in Starters \cup {None} /\ startDone \in Starters \cup {None}
  /\ swu \in Dialers \cup {None} /\ runtime \in Starters \cup {None}
  /\ cancelled \subseteq Starters /\ doneCh \subseteq Starters
  /\ dialer \in [Dialers -> {"none", "open", "closed"}]
  /\ conn \in [Starters -> {"none", "open", "closed"}]
  /\ rt \in [Starters -> {"none", "running", "closing", "closed"}]
  /\ closeMu \in Closers \cup {None} /\ writer \in Closers \cup {None}
  /\ closeArgs \in [cancel : Starters \cup {None}, startDone : Starters \cup {None},
                    runtime : Starters \cup {None}, swu : Dialers \cup {None}]
  /\ pc \in [Threads -> StartActive \cup
               {"idle", "returned", "finish", "clear", "cancel", "await", "drain",
                "runtime", "wait", "arrived", "locked", "pinned", "holding"}]
  /\ owner \in [Operations -> Starters \cup {None}]
  /\ lease \in [Operations -> Starters \cup {None}]
  /\ loose \subseteq Operations

Detached == \E c \in Closers : pc[c] \in {"runtime", "wait", "returned"}

Admitted == {o \in Operations : pc[o] \in {"pinned", "holding"}}

\* acquireLifecycleLease "pins pointers that lower-level IMS code reads directly":
\* from admission to release an operation's runtime is the published one and is
\* running, whatever Start and Close do meanwhile.
LeasePinned ==
  \A o \in Admitted :
    /\ started
    /\ lifecycle # None
    /\ runtime = lease[o]
    /\ runtime # None => rt[runtime] = "running"

\* "a Start that began before Close cannot republish a runtime afterward": once
\* Close has detached the Service nothing of it is ever visible again.
ClosedIsFinal ==
  Detached => /\ ~started /\ ~starting /\ ~registered
              /\ runtime = None /\ lifecycle = None /\ swu = None

\* When a Close returns, the first or a later one, every socket, runtime and dialer
\* any Start ever opened has been closed, on the commit path and on every error path.
CloseReleasesAll ==
  (\E c \in Closers : pc[c] = "returned") =>
    /\ \A s \in Starters : conn[s] # "open" /\ rt[s] \in {"none", "closed"}
    /\ \A d \in Dialers : dialer[d] # "open"

\* Close returns: it deadlocks neither with a Start it cancelled, nor with
\* operations that hold a lease, nor with Port-S handlers queued behind its own
\* write lock that runtime.Close waits for.
CloseTerminates ==
  \A c \in Closers : pc[c] = "cancel" ~> pc[c] = "returned"

\* The Service implements the gate its operations rely on.
Gate == INSTANCE ServiceGate WITH
  phase <- IF Detached THEN "closed"
           ELSE IF closing THEN "draining"
           ELSE IF started THEN "up" ELSE "down",
  holders <- Admitted

GateSpec == Gate!GateSpec

=============================================================================
