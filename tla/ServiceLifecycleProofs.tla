----------------------- MODULE ServiceLifecycleProofs -----------------------
(***************************************************************************)
(* For any number of Start, Close and operation threads: the lease pins    *)
(* the runtime, Close is final and leaves nothing open, and the Service    *)
(* implements ServiceGate.                                                 *)
(***************************************************************************)
EXTENDS ServiceLifecycle, TLAPS

\* A Start between publishing its context and its deferred close(startDone).
Active(s) == pc[s] \in StartActive

\* Until Close begins, the one running Start owns every lifecycle field.
StartOwns ==
  \A s \in Starters : Active(s) /\ ~closing =>
    /\ gen[s] = lifecycleID
    /\ ~started
    /\ lifecycle = s /\ startDone = s

\* Generations only grow, and Close leaves every Start behind.
GenerationBound ==
  \A s \in Starters : gen[s] <= lifecycleID /\ (closing => gen[s] < lifecycleID)

\* A closed startDone channel belongs to a Start that is over.
DoneMeansDone == \A s \in doneCh : pc[s] \in {"clear", "returned"}

\* A Start that outlives CloseEnter is the one Close waits for.
CloseWaits ==
  \A s \in Starters : Active(s) /\ closing =>
    /\ closeArgs.startDone = s
    /\ closeMu # None /\ pc[closeMu] \in {"cancel", "await"}

\* closeMu belongs to the one Close that is under way.
CloseExclusive ==
  /\ \A c \in Closers : pc[c] \in {"cancel", "await", "drain", "runtime", "wait"}
                          <=> closeMu = c
  /\ closeMu # None => closing
  /\ \A c \in Closers : pc[c] = "returned" => closeMu = None
  /\ closing <=> \E c \in Closers : pc[c] # "idle"
  /\ \A c \in Closers : pc[c] \in {"idle", "cancel", "await", "drain", "runtime",
                                   "wait", "returned"}

\* Everything Close withdraws stays withdrawn.
Final ==
  /\ ~started /\ ~starting /\ ~registered
  /\ runtime = None /\ lifecycle = None /\ swu = None
  /\ \A s \in Starters : ~Active(s)

CloseFinal ==
  /\ closing /\ closeMu = None => Final
  /\ \A c \in Closers : pc[c] \in {"runtime", "wait", "returned"} => Final

\* The published runtime is running and its Start is over.
RuntimeOwned ==
  /\ runtime # None => /\ rt[runtime] = "running"
                       /\ pc[runtime] \in {"finish", "clear", "returned"}
  /\ started => lifecycle # None

IInv ==
  /\ TypeOK /\ StartOwns /\ GenerationBound /\ DoneMeansDone /\ CloseWaits
  /\ CloseExclusive /\ CloseFinal /\ RuntimeOwned /\ LeasePinned

-----------------------------------------------------------------------------
\* The initial state satisfies the inductive invariant.
LEMMA InitIInv == Init => IInv
<1> SUFFICES ASSUME Init PROVE IInv
  OBVIOUS
<1> USE ThreadsAssumption DEF Init
<1>1. TypeOK
  BY DEF TypeOK, Threads, Dialers, StartActive
<1>2. StartOwns /\ CloseWaits
  BY DEF StartOwns, CloseWaits, Active, StartActive, Threads
<1>3. GenerationBound /\ DoneMeansDone
  BY DEF GenerationBound, DoneMeansDone
<1>4. CloseExclusive /\ CloseFinal
  BY DEF CloseExclusive, CloseFinal, Threads
<1>5. RuntimeOwned /\ LeasePinned
  BY DEF RuntimeOwned, LeasePinned, Admitted, Threads
<1> QED
  BY <1>1, <1>2, <1>3, <1>4, <1>5 DEF IInv

\* Every step keeps the variables in their types.
LEMMA TypeStep == TypeOK /\ [Next]_vars => TypeOK'
<1> SUFFICES ASSUME TypeOK, [Next]_vars PROVE TypeOK'
  OBVIOUS
<1> USE ThreadsAssumption DEF TypeOK, Threads, Dialers, StartActive, Goto, stateVars,
      resourceVars, lockVars, opVars
<1>1. ASSUME NEW s \in Starters, StartRefused(s) PROVE TypeOK'
  BY <1>1 DEF StartRefused
<1>2. ASSUME NEW s \in Starters, StartEnter(s) PROVE TypeOK'
  BY <1>2 DEF StartEnter
<1>3. ASSUME NEW s \in Starters, StartResolve(s) PROVE TypeOK'
  BY <1>3 DEF StartResolve
<1>4. ASSUME NEW s \in Starters, StartPublish(s) PROVE TypeOK'
  BY <1>4 DEF StartPublish
<1>5. ASSUME NEW s \in Starters, StartRegister(s) PROVE TypeOK'
  BY <1>5 DEF StartRegister
<1>6. ASSUME NEW s \in Starters, StartRuntime(s) PROVE TypeOK'
  BY <1>6 DEF StartRuntime
<1>7. ASSUME NEW s \in Starters, StartCommit(s) PROVE TypeOK'
  <2>1. /\ starting' \in BOOLEAN /\ started' \in BOOLEAN
        /\ closing' \in BOOLEAN /\ registered' \in BOOLEAN
    BY <1>7, Zenon DEF StartCommit
  <2> QED
    BY <1>7, <2>1 DEF StartCommit
<1>8. ASSUME NEW s \in Starters, StartAbandon(s) PROVE TypeOK'
  BY <1>8 DEF StartAbandon
<1>9. ASSUME NEW s \in Starters, StartUnwind(s) PROVE TypeOK'
  BY <1>9 DEF StartUnwind
<1>10. ASSUME NEW s \in Starters, StartFail(s) PROVE TypeOK'
  <2>1. /\ starting' \in BOOLEAN /\ started' \in BOOLEAN
        /\ closing' \in BOOLEAN /\ registered' \in BOOLEAN
    BY <1>10, Zenon DEF StartFail
  <2> QED
    BY <1>10, <2>1 DEF StartFail
<1>11. ASSUME NEW s \in Starters, StartFinish(s) PROVE TypeOK'
  BY <1>11 DEF StartFinish
<1>12. ASSUME NEW s \in Starters, StartReturn(s) PROVE TypeOK'
  BY <1>12 DEF StartReturn
<1>13. ASSUME NEW s \in Starters, ParentCancel(s) PROVE TypeOK'
  BY <1>13 DEF ParentCancel
<1>14. ASSUME NEW c \in Closers, CloseAgain(c) PROVE TypeOK'
  BY <1>14 DEF CloseAgain
<1>15. ASSUME NEW c \in Closers, CloseEnter(c) PROVE TypeOK'
  <2>1. /\ starting' \in BOOLEAN /\ started' \in BOOLEAN
        /\ closing' \in BOOLEAN /\ registered' \in BOOLEAN
    BY <1>15, Zenon DEF CloseEnter
  <2>2. closeArgs' \in [cancel : Starters \cup {None}, startDone : Starters \cup {None},
                        runtime : Starters \cup {None}, swu : Dialers \cup {None}]
    BY <1>15 DEF CloseEnter
  <2>3. /\ lifecycleID' \in Nat /\ closeMu' \in Closers \cup {None}
        /\ pc' \in [Threads -> StartActive \cup
               {"idle", "returned", "finish", "clear", "cancel", "await", "drain",
                "runtime", "wait", "arrived", "locked", "pinned", "holding"}]
    BY <1>15 DEF CloseEnter
  <2> QED
    BY <1>15, <2>1, <2>2, <2>3 DEF CloseEnter
<1>16. ASSUME NEW c \in Closers, CloseCancel(c) PROVE TypeOK'
  BY <1>16 DEF CloseCancel
<1>17. ASSUME NEW c \in Closers, CloseAwaitStart(c) PROVE TypeOK'
  BY <1>17 DEF CloseAwaitStart
<1>18. ASSUME NEW c \in Closers, CloseDetach(c) PROVE TypeOK'
  BY <1>18 DEF CloseDetach, Detach
<1>19. ASSUME NEW c \in Closers, CloseRuntime(c) PROVE TypeOK'
  BY <1>19 DEF CloseRuntime
<1>20. ASSUME NEW c \in Closers, CloseReturn(c) PROVE TypeOK'
  BY <1>20 DEF CloseReturn
<1>21. ASSUME NEW o \in Operations, ApiCall(o) PROVE TypeOK'
  BY <1>21 DEF ApiCall
<1>22. ASSUME NEW o \in Operations, RLock(o) PROVE TypeOK'
  BY <1>22 DEF RLock
<1>23. ASSUME NEW o \in Operations, AcquireLease(o) PROVE TypeOK'
  BY <1>23 DEF AcquireLease
<1>24. ASSUME NEW o \in Operations, VerifyLease(o) PROVE TypeOK'
  BY <1>24 DEF VerifyLease
<1>25. ASSUME NEW o \in Operations, Release(o) PROVE TypeOK'
  BY <1>25 DEF Release
<1>26. ASSUME NEW o \in Operations, RefreshCommit(o) PROVE TypeOK'
  BY <1>26 DEF RefreshCommit
<1>27. ASSUME NEW o \in Operations, NEW s \in Starters, HandlerCall(o, s) PROVE TypeOK'
  BY <1>27 DEF HandlerCall
<1>30. ASSUME NEW o \in Operations, NEW s \in Starters, RPAckCall(o, s) PROVE TypeOK'
  BY <1>30 DEF RPAckCall
<1>28. CASE WithdrawRegistration
  <2>1. /\ starting' \in BOOLEAN /\ started' \in BOOLEAN
        /\ closing' \in BOOLEAN /\ registered' \in BOOLEAN
    BY <1>28, Zenon DEF WithdrawRegistration
  <2> QED
    BY <1>28, <2>1 DEF WithdrawRegistration
<1>29. CASE UNCHANGED vars
  BY <1>29 DEF vars
<1> QED
  BY <1>1, <1>2, <1>3, <1>4, <1>5, <1>6, <1>7, <1>8, <1>9, <1>10, <1>11, <1>12, <1>13,
     <1>14, <1>15, <1>16, <1>17, <1>18, <1>19, <1>20, <1>21, <1>22, <1>23, <1>24, <1>25,
     <1>26, <1>27, <1>28, <1>29, <1>30 DEF Next, StartNext, CloseNext, OpNext

\* Every step preserves the inductive invariant.
LEMMA IndStep == IInv /\ [Next]_vars => IInv'
<1> SUFFICES ASSUME IInv, [Next]_vars PROVE IInv'
  OBVIOUS
<1> DEFINE Rest == /\ StartOwns /\ GenerationBound /\ DoneMeansDone /\ CloseWaits
                   /\ CloseExclusive /\ CloseFinal /\ RuntimeOwned /\ LeasePinned
<1>0. TypeOK'
  BY TypeStep DEF IInv
<1> USE ThreadsAssumption, <1>0 DEF IInv, TypeOK, Threads, Dialers, StartActive, Active, Goto,
      stateVars, resourceVars, lockVars, opVars, StartOwns, GenerationBound, DoneMeansDone,
      CloseWaits, CloseExclusive, CloseFinal, Final, RuntimeOwned, LeasePinned, Admitted
<1>1. ASSUME NEW s \in Starters, StartRefused(s) PROVE Rest'
  BY <1>1 DEF StartRefused
<1>2. ASSUME NEW s \in Starters, StartEnter(s) PROVE Rest'
  <2> USE <1>2 DEF StartEnter
  <2>1. StartOwns'
    OBVIOUS
  <2>2. GenerationBound'
    OBVIOUS
  <2>3. DoneMeansDone'
    OBVIOUS
  <2>4. CloseWaits'
    OBVIOUS
  <2>5. CloseExclusive'
    OBVIOUS
  <2>6. CloseFinal'
    OBVIOUS
  <2>7. RuntimeOwned'
    OBVIOUS
  <2>8. LeasePinned'
    OBVIOUS
  <2> QED
    BY <2>1, <2>2, <2>3, <2>4, <2>5, <2>6, <2>7, <2>8
<1>3. ASSUME NEW s \in Starters, StartResolve(s) PROVE Rest'
  BY <1>3 DEF StartResolve
<1>4. ASSUME NEW s \in Starters, StartPublish(s) PROVE Rest'
  BY <1>4 DEF StartPublish, LifecycleCurrent
<1>5. ASSUME NEW s \in Starters, StartRegister(s) PROVE Rest'
  BY <1>5 DEF StartRegister, LifecycleCurrent
<1>6. ASSUME NEW s \in Starters, StartRuntime(s) PROVE Rest'
  BY <1>6 DEF StartRuntime
<1>7. ASSUME NEW s \in Starters, StartCommit(s) PROVE Rest'
  <2> USE <1>7 DEF StartCommit, LifecycleCurrent
  <2>1. StartOwns'
    OBVIOUS
  <2>2. GenerationBound'
    OBVIOUS
  <2>3. DoneMeansDone'
    OBVIOUS
  <2>4. CloseWaits'
    OBVIOUS
  <2>5. CloseExclusive'
    OBVIOUS
  <2>6. CloseFinal'
    OBVIOUS
  <2>7. RuntimeOwned'
    OBVIOUS
  <2>8. LeasePinned'
    OBVIOUS
  <2> QED
    BY <2>1, <2>2, <2>3, <2>4, <2>5, <2>6, <2>7, <2>8
<1>8. ASSUME NEW s \in Starters, StartAbandon(s) PROVE Rest'
  BY <1>8 DEF StartAbandon, LifecycleCurrent
<1>9. ASSUME NEW s \in Starters, StartUnwind(s) PROVE Rest'
  BY <1>9 DEF StartUnwind
<1>10. ASSUME NEW s \in Starters, StartFail(s) PROVE Rest'
  <2> USE <1>10 DEF StartFail
  <2>1. StartOwns'
    OBVIOUS
  <2>2. GenerationBound'
    OBVIOUS
  <2>3. DoneMeansDone'
    OBVIOUS
  <2>4. CloseWaits'
    OBVIOUS
  <2>5. CloseExclusive'
    OBVIOUS
  <2>6. CloseFinal'
    OBVIOUS
  <2>7. RuntimeOwned'
    OBVIOUS
  <2>8. LeasePinned'
    OBVIOUS
  <2> QED
    BY <2>1, <2>2, <2>3, <2>4, <2>5, <2>6, <2>7, <2>8
<1>11. ASSUME NEW s \in Starters, StartFinish(s) PROVE Rest'
  BY <1>11 DEF StartFinish
<1>12. ASSUME NEW s \in Starters, StartReturn(s) PROVE Rest'
  BY <1>12 DEF StartReturn
<1>13. ASSUME NEW s \in Starters, ParentCancel(s) PROVE Rest'
  BY <1>13 DEF ParentCancel
<1>14. ASSUME NEW c \in Closers, CloseAgain(c) PROVE Rest'
  BY <1>14 DEF CloseAgain
<1>15. ASSUME NEW c \in Closers, CloseEnter(c) PROVE Rest'
  <2> USE <1>15 DEF CloseEnter
  <2>1. StartOwns'
    OBVIOUS
  <2>2. GenerationBound'
    OBVIOUS
  <2>3. DoneMeansDone'
    OBVIOUS
  <2>4. CloseWaits'
    OBVIOUS
  <2>5. CloseExclusive'
    OBVIOUS
  <2>6. CloseFinal'
    OBVIOUS
  <2>7. RuntimeOwned'
    OBVIOUS
  <2>8. LeasePinned'
    OBVIOUS
  <2> QED
    BY <2>1, <2>2, <2>3, <2>4, <2>5, <2>6, <2>7, <2>8
<1>16. ASSUME NEW c \in Closers, CloseCancel(c) PROVE Rest'
  BY <1>16 DEF CloseCancel
<1>17. ASSUME NEW c \in Closers, CloseAwaitStart(c) PROVE Rest'
  <2> USE <1>17 DEF CloseAwaitStart
  <2>1. StartOwns'
    OBVIOUS
  <2>2. GenerationBound'
    OBVIOUS
  <2>3. DoneMeansDone'
    OBVIOUS
  <2>4. CloseWaits'
    OBVIOUS
  <2>5. CloseExclusive'
    OBVIOUS
  <2>6. CloseFinal'
    OBVIOUS
  <2>7. RuntimeOwned'
    OBVIOUS
  <2>8. LeasePinned'
    OBVIOUS
  <2> QED
    BY <2>1, <2>2, <2>3, <2>4, <2>5, <2>6, <2>7, <2>8
<1>18. ASSUME NEW c \in Closers, CloseDetach(c) PROVE Rest'
  <2> USE <1>18 DEF CloseDetach, Detach, Readers
  <2>1. StartOwns'
    OBVIOUS
  <2>2. GenerationBound'
    OBVIOUS
  <2>3. DoneMeansDone'
    OBVIOUS
  <2>4. CloseWaits'
    OBVIOUS
  <2>5. CloseExclusive'
    OBVIOUS
  <2>6. CloseFinal'
    OBVIOUS
  <2>7. RuntimeOwned'
    OBVIOUS
  <2>8. LeasePinned'
    OBVIOUS
  <2> QED
    BY <2>1, <2>2, <2>3, <2>4, <2>5, <2>6, <2>7, <2>8
<1>19. ASSUME NEW c \in Closers, CloseRuntime(c) PROVE Rest'
  BY <1>19 DEF CloseRuntime
<1>20. ASSUME NEW c \in Closers, CloseReturn(c) PROVE Rest'
  BY <1>20 DEF CloseReturn
<1>21. ASSUME NEW o \in Operations, ApiCall(o) PROVE Rest'
  BY <1>21 DEF ApiCall
<1>22. ASSUME NEW o \in Operations, RLock(o) PROVE Rest'
  BY <1>22 DEF RLock
<1>23. ASSUME NEW o \in Operations, AcquireLease(o) PROVE Rest'
  <2> USE <1>23 DEF AcquireLease
  <2>1. StartOwns'
    OBVIOUS
  <2>2. GenerationBound'
    OBVIOUS
  <2>3. DoneMeansDone'
    OBVIOUS
  <2>4. CloseWaits'
    OBVIOUS
  <2>5. CloseExclusive'
    OBVIOUS
  <2>6. CloseFinal'
    OBVIOUS
  <2>7. RuntimeOwned'
    OBVIOUS
  <2>8. LeasePinned'
    OBVIOUS
  <2> QED
    BY <2>1, <2>2, <2>3, <2>4, <2>5, <2>6, <2>7, <2>8
<1>24. ASSUME NEW o \in Operations, VerifyLease(o) PROVE Rest'
  BY <1>24 DEF VerifyLease, LifecycleCurrent
<1>25. ASSUME NEW o \in Operations, Release(o) PROVE Rest'
  BY <1>25 DEF Release
<1>26. ASSUME NEW o \in Operations, RefreshCommit(o) PROVE Rest'
  BY <1>26 DEF RefreshCommit
<1>27. ASSUME NEW o \in Operations, NEW s \in Starters, HandlerCall(o, s) PROVE Rest'
  BY <1>27 DEF HandlerCall
<1>30. ASSUME NEW o \in Operations, NEW s \in Starters, RPAckCall(o, s) PROVE Rest'
  BY <1>30 DEF RPAckCall
<1>28. ASSUME WithdrawRegistration PROVE Rest'
  BY <1>28 DEF WithdrawRegistration
<1>29. ASSUME UNCHANGED vars PROVE Rest'
  BY <1>29 DEF vars
<1> QED
  BY <1>0, <1>1, <1>2, <1>3, <1>4, <1>5, <1>6, <1>7, <1>8, <1>9, <1>10, <1>11, <1>12, <1>13,
     <1>14, <1>15, <1>16, <1>17, <1>18, <1>19, <1>20, <1>21, <1>22, <1>23, <1>24, <1>25,
     <1>26, <1>27, <1>28, <1>29, <1>30 DEF Next, StartNext, CloseNext, OpNext

-----------------------------------------------------------------------------
\* The inductive invariant holds in every reachable state.
LEMMA Invariance == Spec => []IInv
<1> QED
  BY InitIInv, IndStep, PTL DEF Spec

\* The variables of Service keep their types.
THEOREM TypeCorrect == Spec => []TypeOK
<1>1. IInv => TypeOK
  BY DEF IInv
<1> QED
  BY Invariance, <1>1, PTL

\* However many threads call Start, Close and the API, an admitted operation's
\* runtime stays published and running until it gives its lease back.
THEOREM LeaseSafety == Spec => []LeasePinned
<1>1. IInv => LeasePinned
  BY DEF IInv
<1> QED
  BY Invariance, <1>1, PTL

\* Once Close has detached the Service, no Start makes any of it visible again.
THEOREM CloseSafety == Spec => []ClosedIsFinal
<1>1. IInv => ClosedIsFinal
  BY DEF IInv, CloseFinal, Final, ClosedIsFinal, Detached
<1> QED
  BY Invariance, <1>1, PTL

\* Initially the gate is down and nobody holds the runtime.
LEMMA GateInitially == Init => Gate!GateInit
<1> SUFFICES ASSUME Init PROVE Gate!GateInit
  OBVIOUS
<1>1. ~Detached /\ Admitted = {} /\ closing = FALSE /\ started = FALSE
  BY DEF Init, Detached, Admitted, Threads
<1> QED
  BY <1>1 DEF Gate!GateInit

\* Every step of the Service is a step of the gate or leaves the gate alone.
LEMMA GateStep == IInv /\ IInv' /\ [Next]_vars => [Gate!GateNext]_(Gate!gateVars)
<1> SUFFICES ASSUME IInv, IInv', [Next]_vars
             PROVE  [Gate!GateNext]_(Gate!gateVars)
  OBVIOUS
<1> USE ThreadsAssumption DEF IInv, TypeOK, Threads, Goto, stateVars, resourceVars, lockVars,
      opVars
<1> DEFINE Same == /\ Detached' <=> Detached
                   /\ closing' <=> closing
                   /\ started' <=> started
                   /\ Admitted' = Admitted
<1>1. Same => [Gate!GateNext]_(Gate!gateVars)
  BY DEF Gate!gateVars
<1>2. ASSUME NEW s \in Starters, StartRefused(s) PROVE Same
  BY <1>2 DEF StartRefused, Detached, Admitted, StartActive
<1>3. ASSUME NEW s \in Starters, StartEnter(s) PROVE Same
  BY <1>3 DEF StartEnter, Detached, Admitted, StartActive
<1>4. ASSUME NEW s \in Starters, StartResolve(s) PROVE Same
  BY <1>4 DEF StartResolve, Detached, Admitted, StartActive
<1>5. ASSUME NEW s \in Starters, StartPublish(s) PROVE Same
  BY <1>5 DEF StartPublish, Detached, Admitted, StartActive
<1>6. ASSUME NEW s \in Starters, StartRegister(s) PROVE Same
  BY <1>6 DEF StartRegister, Detached, Admitted, StartActive
<1>7. ASSUME NEW s \in Starters, StartRuntime(s) PROVE Same
  BY <1>7 DEF StartRuntime, Detached, Admitted, StartActive
<1>8. ASSUME NEW s \in Starters, StartAbandon(s) PROVE Same
  BY <1>8 DEF StartAbandon, Detached, Admitted, StartActive
<1>9. ASSUME NEW s \in Starters, StartUnwind(s) PROVE Same
  BY <1>9 DEF StartUnwind, Detached, Admitted, StartActive
<1>10. ASSUME NEW s \in Starters, StartFail(s) PROVE Same
  BY <1>10 DEF StartFail, Detached, Admitted, StartActive, StartOwns, GenerationBound, Active
<1>11. ASSUME NEW s \in Starters, StartFinish(s) PROVE Same
  BY <1>11 DEF StartFinish, Detached, Admitted, StartActive
<1>12. ASSUME NEW s \in Starters, StartReturn(s) PROVE Same
  BY <1>12 DEF StartReturn, Detached, Admitted, StartActive
<1>13. ASSUME NEW s \in Starters, ParentCancel(s) PROVE Same
  BY <1>13 DEF ParentCancel, Detached, Admitted, StartActive
<1>14. ASSUME NEW c \in Closers, CloseAgain(c) PROVE Same
  BY <1>14 DEF CloseAgain, Detached, Admitted, CloseExclusive
<1>15. ASSUME NEW c \in Closers, CloseCancel(c) PROVE Same
  BY <1>15 DEF CloseCancel, Detached, Admitted
<1>16. ASSUME NEW c \in Closers, CloseAwaitStart(c) PROVE Same
  BY <1>16 DEF CloseAwaitStart, Detached, Admitted
<1>17. ASSUME NEW c \in Closers, CloseRuntime(c) PROVE Same
  BY <1>17 DEF CloseRuntime, Detached, Admitted
<1>18. ASSUME NEW c \in Closers, CloseReturn(c) PROVE Same
  BY <1>18 DEF CloseReturn, Detached, Admitted
<1>19. ASSUME NEW o \in Operations, ApiCall(o) PROVE Same
  BY <1>19 DEF ApiCall, Detached, Admitted
<1>20. ASSUME NEW o \in Operations, RLock(o) PROVE Same
  BY <1>20 DEF RLock, Detached, Admitted
<1>21. ASSUME NEW o \in Operations, RefreshCommit(o) PROVE Same
  BY <1>21 DEF RefreshCommit, Detached, Admitted
<1>22. ASSUME NEW o \in Operations, NEW s \in Starters, HandlerCall(o, s) PROVE Same
  BY <1>22 DEF HandlerCall, Detached, Admitted
<1>31. ASSUME NEW o \in Operations, NEW s \in Starters, RPAckCall(o, s) PROVE Same
  BY <1>31 DEF RPAckCall, Detached, Admitted
<1>23. CASE WithdrawRegistration
  <2>1. Same
    BY <1>23 DEF WithdrawRegistration, Detached, Admitted
  <2> QED
    BY <2>1, <1>1
<1>24. CASE UNCHANGED vars
  <2>1. Same
    BY <1>24 DEF vars, Detached, Admitted
  <2> QED
    BY <2>1, <1>1
<1>25. ASSUME NEW s \in Starters, StartCommit(s) PROVE Gate!Open
  <2>1. ~closing /\ ~started /\ ~Detached
    BY <1>25 DEF StartCommit, LifecycleCurrent, StartOwns, Active, StartActive, Detached,
      CloseExclusive
  <2>2. started' /\ ~closing' /\ ~Detached' /\ Admitted' = Admitted
    BY <1>25, <2>1 DEF StartCommit, Detached, Admitted
  <2> QED
    BY <2>1, <2>2 DEF Gate!Open
<1>26. ASSUME NEW c \in Closers, CloseEnter(c) PROVE Gate!Drain
  <2>1. ~closing /\ ~Detached
    BY <1>26 DEF CloseEnter, Detached, CloseExclusive
  <2>2. closing' /\ ~Detached' /\ Admitted' = Admitted
    BY <1>26, <2>1 DEF CloseEnter, Detached, Admitted
  <2> QED
    BY <2>1, <2>2 DEF Gate!Drain
<1>27. ASSUME NEW c \in Closers, CloseDetach(c) PROVE Gate!Withdraw
  <2>1. closing /\ closeMu = c
    BY <1>27 DEF CloseDetach, CloseExclusive
  <2>2. ~Detached
    BY <1>27, <2>1 DEF CloseDetach, Detached, CloseExclusive, CloseFinal
  <2>3. Detached' /\ Admitted = {} /\ Admitted' = {}
    BY <1>27 DEF CloseDetach, Detach, Detached, Admitted, Readers
  <2> QED
    BY <2>1, <2>2, <2>3 DEF Gate!Withdraw
<1>28. ASSUME NEW o \in Operations, AcquireLease(o) PROVE Same \/ Gate!Grant(o)
  <2>1. CASE closing \/ ~started
    BY <1>28, <2>1 DEF AcquireLease, Detached, Admitted
  <2>2. CASE ~closing /\ started
    <3>1. ~Detached /\ ~Detached' /\ ~closing' /\ started'
      BY <1>28, <2>2 DEF AcquireLease, Detached, CloseExclusive
    <3>2. o \notin Admitted /\ Admitted' = Admitted \cup {o}
      BY <1>28, <2>2 DEF AcquireLease, Admitted
    <3> QED
      BY <2>2, <3>1, <3>2 DEF Gate!Grant
  <2> QED
    BY <2>1, <2>2
<1>29. ASSUME NEW o \in Operations, VerifyLease(o) PROVE Same \/ Gate!Return(o)
  <2>1. /\ Detached' <=> Detached
        /\ closing' <=> closing
        /\ started' <=> started
    BY <1>29 DEF VerifyLease, Detached
  <2>2. o \in Admitted /\ (Admitted' = Admitted \/ Admitted' = Admitted \ {o})
    BY <1>29 DEF VerifyLease, Admitted
  <2> QED
    BY <2>1, <2>2 DEF Gate!Return
<1>30. ASSUME NEW o \in Operations, Release(o) PROVE Same \/ Gate!Return(o)
  <2>1. /\ Detached' <=> Detached
        /\ closing' <=> closing
        /\ started' <=> started
    BY <1>30 DEF Release, Detached
  <2>2. o \in Admitted /\ (Admitted' = Admitted \/ Admitted' = Admitted \ {o})
    BY <1>30 DEF Release, Admitted
  <2> QED
    BY <2>1, <2>2 DEF Gate!Return
<1> QED
  BY <1>1, <1>2, <1>3, <1>4, <1>5, <1>6, <1>7, <1>8, <1>9, <1>10, <1>11, <1>12, <1>13,
     <1>14, <1>15, <1>16, <1>17, <1>18, <1>19, <1>20, <1>21, <1>22, <1>23, <1>24, <1>25,
     <1>26, <1>27, <1>28, <1>29, <1>30, <1>31
  DEF Next, StartNext, CloseNext, OpNext, Gate!GateNext

\* The Service implements the gate: leases are granted only between the commit
\* of Start and the beginning of Close, and withdrawn from only when all are back.
THEOREM ServiceImplementsGate == Spec => GateSpec
<1> QED
  BY Invariance, GateInitially, GateStep, PTL DEF Spec, GateSpec, Gate!GateSpec

-----------------------------------------------------------------------------
(* What Close releases *)

\* The Close under way is in one of these places.
Closing(places) == closeMu # None /\ pc[closeMu] \in places

\* A runtime with its sockets belongs to the Service, or to the Close that detached it.
Runs(s) == runtime = s \/ (Closing({"runtime"}) /\ closeArgs.runtime = s)

\* Open sockets belong to the Start that registered, then to its runtime.
SocketsHeld(s) ==
  /\ conn[s] = "open" => pc[s] \in {"activate", "commit", "fail"} \/ Runs(s)
  /\ pc[s] = "commit" /\ conn[s] = "open" => rt[s] = "running"

\* A runtime that is not closed belongs to the Start that made it, to the Service or to Close.
RuntimeHeld(s) ==
  /\ rt[s] = "running" => pc[s] = "commit" \/ Runs(s)
  /\ rt[s] = "closing" => pc[s] = "unwind" \/ (Closing({"wait"}) /\ closeArgs.runtime = s)

\* A netstack that a Start made is the published dialer, or will be, or Close has it.
DialerHeld(s) ==
  dialer[s] = "open" =>
    /\ ~UserspaceNetwork
    /\ \/ pc[s] = "publish" /\ swu = None
       \/ swu = s
       \/ Closing({"runtime", "wait"}) /\ closeArgs.swu = s

\* The network is open until Close is over.
ReleaseInv ==
  /\ runtime # None => started
  /\ \A s \in Starters : SocketsHeld(s) /\ RuntimeHeld(s) /\ DialerHeld(s)
  /\ dialer[Network] = "open" => UserspaceNetwork /\ ~(closing /\ closeMu = None)

\* Initially nothing is open but the network.
LEMMA ReleaseInit == Init => ReleaseInv
BY ThreadsAssumption DEF Init, ReleaseInv, SocketsHeld, RuntimeHeld, DialerHeld, Runs, Closing,
   Threads, Dialers

\* What is open passes from the Start to the Service and on to Close, and nothing is lost between.
LEMMA ReleaseStep == IInv /\ IInv' /\ ReleaseInv /\ [Next]_vars => ReleaseInv'
<1> SUFFICES ASSUME IInv, IInv', ReleaseInv, [Next]_vars PROVE ReleaseInv'
  OBVIOUS
<1>0. /\ TypeOK /\ StartOwns /\ GenerationBound /\ CloseWaits /\ CloseExclusive /\ CloseFinal
      /\ RuntimeOwned /\ TypeOK' /\ CloseExclusive'
  BY DEF IInv
<1> USE ThreadsAssumption, <1>0 DEF ReleaseInv, SocketsHeld, RuntimeHeld, DialerHeld, Runs, Closing, TypeOK, Threads,
      Dialers, StartActive, Goto, stateVars, resourceVars, lockVars, opVars
<1>1. ASSUME NEW s \in Starters, StartRefused(s) PROVE ReleaseInv'
  BY <1>1 DEF StartRefused
<1>2. ASSUME NEW s \in Starters, StartEnter(s) PROVE ReleaseInv'
  BY <1>2 DEF StartEnter
<1>3. ASSUME NEW s \in Starters, StartResolve(s) PROVE ReleaseInv'
  BY <1>3 DEF StartResolve
<1>4. ASSUME NEW s \in Starters, StartPublish(s) PROVE ReleaseInv'
  <2>1. \A t \in Starters \ {s} : pc[t] # "publish"
    BY <1>4 DEF StartPublish, StartOwns, CloseWaits, Active
  <2>2. swu' # None /\ (swu # None => swu' = swu)
    BY <1>4 DEF StartPublish
  <2>3. /\ runtime' = runtime /\ started' = started /\ conn' = conn /\ rt' = rt /\ dialer' = dialer
        /\ closing' = closing /\ closeMu' = closeMu /\ closeArgs' = closeArgs
        /\ \A t \in Threads \ {s} : pc'[t] = pc[t]
        /\ pc[s] = "publish" /\ pc'[s] \in {"register", "fail"}
    BY <1>4 DEF StartPublish
  <2>4. dialer[s] = "open" /\ swu = None => swu' = s
    BY <1>4 DEF StartPublish
  <2>5. ASSUME NEW t \in Starters PROVE SocketsHeld(t)' /\ RuntimeHeld(t)'
    BY <2>3, <2>5
  <2>6. ASSUME NEW t \in Starters PROVE DialerHeld(t)'
    BY <2>1, <2>2, <2>3, <2>4, <2>6
  <2> QED  BY <2>3, <2>5, <2>6
<1>5. ASSUME NEW s \in Starters, StartRegister(s) PROVE ReleaseInv'
  BY <1>5 DEF StartRegister
<1>6. ASSUME NEW s \in Starters, StartRuntime(s) PROVE ReleaseInv'
  BY <1>6 DEF StartRuntime
<1>7. ASSUME NEW s \in Starters, StartCommit(s) PROVE ReleaseInv'
  <2>1. ~closing /\ ~started /\ runtime = None /\ closeMu = None
    BY <1>7 DEF StartCommit, LifecycleCurrent, StartOwns, Active, CloseExclusive
  <2>2. /\ started' /\ conn' = conn /\ rt' = rt /\ dialer' = dialer /\ swu' = swu
        /\ closing' = closing /\ closeMu' = closeMu /\ closeArgs' = closeArgs
        /\ \A t \in Threads \ {s} : pc'[t] = pc[t]
        /\ pc[s] = "commit" /\ pc'[s] = "finish" /\ runtime' = IF rt[s] = "running" THEN s ELSE None
    BY <1>7 DEF StartCommit
  <2>3. ASSUME NEW t \in Starters PROVE SocketsHeld(t)' /\ RuntimeHeld(t)' /\ DialerHeld(t)'
    BY <2>1, <2>2, <2>3
  <2> QED  BY <2>2, <2>3
<1>8. ASSUME NEW s \in Starters, StartAbandon(s) PROVE ReleaseInv'
  BY <1>8 DEF StartAbandon
<1>9. ASSUME NEW s \in Starters, StartUnwind(s) PROVE ReleaseInv'
  BY <1>9 DEF StartUnwind
<1>10. ASSUME NEW s \in Starters, StartFail(s) PROVE ReleaseInv'
  <2>1. lifecycleID = gen[s] => runtime = None
    BY <1>10 DEF StartFail, StartOwns, GenerationBound, Active
  <2>2. /\ rt' = rt /\ dialer' = dialer /\ swu' = swu /\ runtime' = runtime /\ (started' = started \/ runtime = None)
        /\ closing' = closing /\ closeMu' = closeMu /\ closeArgs' = closeArgs
        /\ \A t \in Threads \ {s} : pc'[t] = pc[t]
        /\ \A t \in Starters \ {s} : conn'[t] = conn[t]
        /\ pc[s] = "fail" /\ pc'[s] = "finish" /\ conn'[s] # "open"
    BY <1>10, <2>1 DEF StartFail
  <2>3. ASSUME NEW t \in Starters PROVE SocketsHeld(t)' /\ RuntimeHeld(t)' /\ DialerHeld(t)'
    BY <2>2, <2>3
  <2> QED  BY <2>2, <2>3
<1>11. ASSUME NEW s \in Starters, StartFinish(s) PROVE ReleaseInv'
  BY <1>11 DEF StartFinish
<1>12. ASSUME NEW s \in Starters, StartReturn(s) PROVE ReleaseInv'
  BY <1>12 DEF StartReturn
<1>13. ASSUME NEW s \in Starters, ParentCancel(s) PROVE ReleaseInv'
  BY <1>13 DEF ParentCancel
<1>14. ASSUME NEW c \in Closers, CloseAgain(c) PROVE ReleaseInv'
  BY <1>14 DEF CloseAgain
<1>15. ASSUME NEW c \in Closers, CloseEnter(c) PROVE ReleaseInv'
  BY <1>15 DEF CloseEnter
<1>16. ASSUME NEW c \in Closers, CloseCancel(c) PROVE ReleaseInv'
  BY <1>16 DEF CloseCancel
<1>17. ASSUME NEW c \in Closers, CloseAwaitStart(c) PROVE ReleaseInv'
  BY <1>17 DEF CloseAwaitStart
<1>18. ASSUME NEW c \in Closers, CloseDetach(c) PROVE ReleaseInv'
  <2>1. closeMu = c /\ closing
    BY <1>18 DEF CloseDetach, CloseExclusive
  <2>2. /\ conn' = conn /\ rt' = rt /\ dialer' = dialer /\ swu' = None /\ runtime' = None
        /\ closing' = closing /\ closeMu' = closeMu /\ closeArgs'.runtime = runtime /\ closeArgs'.swu = swu
        /\ pc[c] = "drain" /\ pc'[c] = "runtime" /\ \A t \in Starters : pc'[t] = pc[t]
    BY <1>18 DEF CloseDetach, Detach
  <2>3. ASSUME NEW t \in Starters PROVE SocketsHeld(t)' /\ RuntimeHeld(t)' /\ DialerHeld(t)'
    BY <2>1, <2>2, <2>3
  <2> QED  BY <2>1, <2>2, <2>3
<1>19. ASSUME NEW c \in Closers, CloseRuntime(c) PROVE ReleaseInv'
  <2>1. closeMu = c /\ closing /\ runtime = None
    BY <1>19 DEF CloseRuntime, CloseExclusive, CloseFinal, Final
  <2>2. /\ dialer' = dialer /\ swu' = swu /\ runtime' = runtime
        /\ closing' = closing /\ closeMu' = closeMu /\ closeArgs' = closeArgs
        /\ pc[c] = "runtime" /\ pc'[c] = "wait" /\ \A t \in Starters : pc'[t] = pc[t]
    BY <1>19 DEF CloseRuntime
  <2>3. /\ \A t \in Starters \ {closeArgs.runtime} : conn'[t] = conn[t] /\ rt'[t] = rt[t]
        /\ closeArgs.runtime \in Starters => conn'[closeArgs.runtime] = "closed" /\ rt'[closeArgs.runtime] = "closing"
    BY <1>19 DEF CloseRuntime
  <2>4. ASSUME NEW t \in Starters PROVE SocketsHeld(t)' /\ RuntimeHeld(t)' /\ DialerHeld(t)'
    BY <2>1, <2>2, <2>3, <2>4 DEF CloseFinal, Final, Active
  <2> QED  BY <2>1, <2>2, <2>4
<1>20. ASSUME NEW c \in Closers, CloseReturn(c) PROVE ReleaseInv'
  <2>1. closeMu = c /\ closing /\ Final
    BY <1>20 DEF CloseReturn, CloseExclusive, CloseFinal
  <2>2. /\ swu' = swu /\ runtime' = runtime /\ conn' = conn
        /\ closing' = closing /\ closeMu' = None
        /\ pc[c] = "wait" /\ \A t \in Starters : pc'[t] = pc[t]
    BY <1>20 DEF CloseReturn
  <2>3. /\ \A t \in Starters \ {closeArgs.runtime} : rt'[t] = rt[t]
        /\ closeArgs.runtime \in Starters => rt'[closeArgs.runtime] = "closed"
        /\ \A t \in Starters : dialer'[t] = "open" => dialer[t] = "open" /\ (~UserspaceNetwork => closeArgs.swu # t)
        /\ dialer'[Network] # "open"
    BY <1>20 DEF CloseReturn
  <2>4. ASSUME NEW t \in Starters PROVE SocketsHeld(t)' /\ RuntimeHeld(t)' /\ DialerHeld(t)'
    BY <2>1, <2>2, <2>3, <2>4 DEF Final, Active
  <2> QED  BY <2>1, <2>2, <2>3, <2>4 DEF Final
<1>21. ASSUME NEW o \in Operations, ApiCall(o) PROVE ReleaseInv'
  BY <1>21 DEF ApiCall
<1>22. ASSUME NEW o \in Operations, RLock(o) PROVE ReleaseInv'
  BY <1>22 DEF RLock
<1>23. ASSUME NEW o \in Operations, AcquireLease(o) PROVE ReleaseInv'
  BY <1>23 DEF AcquireLease
<1>24. ASSUME NEW o \in Operations, VerifyLease(o) PROVE ReleaseInv'
  BY <1>24 DEF VerifyLease
<1>25. ASSUME NEW o \in Operations, Release(o) PROVE ReleaseInv'
  BY <1>25 DEF Release
<1>26. ASSUME NEW o \in Operations, RefreshCommit(o) PROVE ReleaseInv'
  BY <1>26 DEF RefreshCommit
<1>27. ASSUME NEW o \in Operations, NEW s \in Starters, HandlerCall(o, s) PROVE ReleaseInv'
  BY <1>27 DEF HandlerCall
<1>28. ASSUME NEW o \in Operations, NEW s \in Starters, RPAckCall(o, s) PROVE ReleaseInv'
  BY <1>28 DEF RPAckCall
<1>29. CASE WithdrawRegistration
  BY <1>29 DEF WithdrawRegistration
<1>30. CASE UNCHANGED vars
  BY <1>30 DEF vars
<1> QED
  BY <1>1, <1>2, <1>3, <1>4, <1>5, <1>6, <1>7, <1>8, <1>9, <1>10, <1>11, <1>12, <1>13,
     <1>14, <1>15, <1>16, <1>17, <1>18, <1>19, <1>20, <1>21, <1>22, <1>23, <1>24, <1>25, <1>26,
     <1>27, <1>28, <1>29, <1>30
  DEF Next, StartNext, CloseNext, OpNext

\* When a Close returns, every socket, runtime and netstack that any Start opened is closed:
\* activateRegisteredRuntime commits them, failRegisteredRuntimeStart closes them, and Close
\* waits for the Start that is between the two.
THEOREM ReleaseSafety == Spec => []CloseReleasesAll
<1>1. IInv /\ ReleaseInv => CloseReleasesAll
  BY ThreadsAssumption DEF IInv, TypeOK, CloseExclusive, CloseFinal, Final, Active, StartActive,
     ReleaseInv, SocketsHeld, RuntimeHeld, DialerHeld, Runs, Closing, CloseReleasesAll, Dialers
<1> QED
  BY Invariance, <1>1, ReleaseInit, ReleaseStep, PTL DEF Spec

=============================================================================
