------------------------- MODULE MaintenanceProofs -------------------------
(***************************************************************************)
(* Proofs about the maintenance loop, for any number of connection checks  *)
(* in a run.  The invariants of Maintenance are proved together, with the  *)
(* facts about the maintenance slot that make them inductive.              *)
(***************************************************************************)
EXTENDS Maintenance, TLAPS

\* The one recovery a service asks for is accounted for by inviteRecoveryUsed.
RecoveryOnce == recovery > 0 => recoveryUsed

\* Only a worker that does not renew joins the heartbeat.
ProbesDoNotRenew == worker \in {"await", "alive"} => ~workRefresh

\* A worker that runs while no check is asked for began at the current revision.
WorkCovers ==
  cycle = "up" /\ failure = "none" /\ worker # "idle" /\ ~checking
    => workRevision = revision

\* A failed cycle starts no more work.
FailedIsIdle == failure # "none" => worker = "idle"

\* Between two cycles nothing of the last one is left.
DownIsBlank == cycle = "down" => failure = "none" /\ worker = "idle" /\ ~checking

\* The inductive invariant.
MaintenanceInv ==
  /\ TypeOK /\ RenewalNeverLost /\ NoRequestForgotten /\ CheckScheduled /\ FailureIsSticky
  /\ RecoveryOnce /\ ProbesDoNotRenew /\ WorkCovers /\ FailedIsIdle /\ DownIsBlank

-----------------------------------------------------------------------------
\* The session before its first cycle satisfies the invariant.
LEMMA InitInv == Init => MaintenanceInv
<1> SUFFICES ASSUME Init PROVE MaintenanceInv
  OBVIOUS
<1>1. FlagsOK
  BY Zenon DEF Init, FlagsOK
<1>2. TypeOK
  BY <1>1, RevisionAssumption DEF Init, TypeOK
<1> QED
  BY <1>2 DEF Init, MaintenanceInv, RenewalNeverLost, NoRequestForgotten, CheckScheduled,
              FailureIsSticky, RecoveryOnce, ProbesDoNotRenew, WorkCovers, FailedIsIdle,
              DownIsBlank

\* Every step preserves the invariant.
LEMMA NextInv == MaintenanceInv /\ [Next]_vars => MaintenanceInv'
<1> SUFFICES ASSUME MaintenanceInv, [Next]_vars
             PROVE  MaintenanceInv'
  OBVIOUS
<1> USE RevisionAssumption
    DEF MaintenanceInv, TypeOK, FlagsOK, RenewalNeverLost, NoRequestForgotten, CheckScheduled,
        FailureIsSticky, RecoveryOnce, ProbesDoNotRenew, WorkCovers, FailedIsIdle,
        DownIsBlank, loopVars, checkVars, workVars, bindVars, callVars, rtVars
<1>1. CASE Publish
  <2>1. /\ recoveryPending' \in BOOLEAN
        /\ registered' \in BOOLEAN
        /\ healthy' \in BOOLEAN
    BY <1>1, Zenon DEF Publish
  <2> QED BY <1>1, <2>1 DEF Publish
<1>2. CASE Teardown
  <2>1. /\ renewPending' \in BOOLEAN
        /\ checking' \in BOOLEAN
        /\ token' \in BOOLEAN
        /\ workRefresh' \in BOOLEAN
        /\ registered' \in BOOLEAN
        /\ recoveryUsed' \in BOOLEAN
        /\ callUp' \in BOOLEAN
        /\ healthy' \in BOOLEAN
        /\ rtFailed' \in BOOLEAN
        /\ failureC' \in BOOLEAN
        /\ queued' \in BOOLEAN
        /\ hbRequest' \in BOOLEAN
    BY <1>2, Zenon DEF Teardown, NoSession
  <2> QED BY <1>2, <2>1 DEF Teardown, NoSession
<1>3. CASE Stop
  <2>1. stopped' \in BOOLEAN
    BY <1>3, Zenon DEF Stop
  <2> QED BY <1>3, <2>1 DEF Stop
<1>4. CASE NewRun
  <2>1. stopped' \in BOOLEAN /\ recoveryPending' \in BOOLEAN
    BY <1>4, Zenon DEF NewRun
  <2> QED BY <1>4, <2>1 DEF NewRun
<1>5. CASE TakeCancel
  <2>1. renewPending' \in BOOLEAN /\ workRefresh' \in BOOLEAN
    BY <1>5, Zenon DEF TakeCancel, Return
  <2> QED BY <1>5, <2>1 DEF TakeCancel, Return
<1>6. CASE TakeRenewal
  <2>1. renewPending' \in BOOLEAN /\ workRefresh' \in BOOLEAN
    BY <1>6, Zenon DEF TakeRenewal, StartMaintenance
  <2> QED BY <1>6, <2>1 DEF TakeRenewal, StartMaintenance
<1>7. CASE TakeCheck
  <2>1. token' \in BOOLEAN /\ workRefresh' \in BOOLEAN
    BY <1>7, Zenon DEF TakeCheck, StartMaintenance
  <2> QED BY <1>7, <2>1 DEF TakeCheck, StartMaintenance
<1>8. CASE TakeRecovery
  <2>1. renewPending' \in BOOLEAN /\ workRefresh' \in BOOLEAN
    BY <1>8, Zenon DEF TakeRecovery, StartMaintenance
  <2> QED BY <1>8, <2>1 DEF TakeRecovery, StartMaintenance
<1>9. CASE ResultStale
  <2>1. workRefresh' \in BOOLEAN
    BY <1>9, Zenon DEF ResultStale, StartMaintenance
  <2> QED BY <1>9, <2>1 DEF ResultStale, StartMaintenance
<1>10. CASE ResultAlive
  <2>1. /\ renewPending' \in BOOLEAN
        /\ checking' \in BOOLEAN
        /\ token' \in BOOLEAN
        /\ workRefresh' \in BOOLEAN
    BY <1>10, Zenon DEF ResultAlive, FinishCheck, StartMaintenance
  <2> QED BY <1>10, <2>1 DEF ResultAlive, FinishCheck, StartMaintenance
<1>11. CASE ResultGranted
  <2>1. /\ renewPending' \in BOOLEAN
        /\ checking' \in BOOLEAN
        /\ token' \in BOOLEAN
        /\ workRefresh' \in BOOLEAN
    BY <1>11, Zenon DEF ResultGranted, FinishCheck, StartMaintenance
  <2> QED BY <1>11, <2>1 DEF ResultGranted, FinishCheck, StartMaintenance
<1>12. CASE ResultFailed
  <2>1. /\ registered' \in BOOLEAN
        /\ checking' \in BOOLEAN
        /\ token' \in BOOLEAN
        /\ recoveryPending' \in BOOLEAN
        /\ renewPending' \in BOOLEAN
        /\ workRefresh' \in BOOLEAN
    BY <1>12, Zenon DEF ResultFailed, Return
  <2> QED BY <1>12, <2>1 DEF ResultFailed, Return
<1>13. CASE TakeTunnelDone
  <2>1. renewPending' \in BOOLEAN /\ workRefresh' \in BOOLEAN
    BY <1>13, Zenon DEF TakeTunnelDone, Return
  <2> QED BY <1>13, <2>1 DEF TakeTunnelDone, Return
<1>14. CASE TakeTransportFailure
  <2>1. /\ failureC' \in BOOLEAN
        /\ renewPending' \in BOOLEAN
        /\ workRefresh' \in BOOLEAN
    BY <1>14, Zenon DEF TakeTransportFailure, Return
  <2> QED BY <1>14, <2>1 DEF TakeTransportFailure, Return
<1>15. CASE TakeTick
  <2>1. renewPending' \in BOOLEAN /\ workRefresh' \in BOOLEAN
    BY <1>15, Zenon DEF TakeTick, Return
  <2> QED BY <1>15, <2>1 DEF TakeTick, Return
<1>16. CASE WorkWait BY <1>16 DEF WorkWait
<1>17. CASE WorkCall
  <2>1. queued' \in BOOLEAN
    BY <1>17, Zenon DEF WorkCall
  <2> QED BY <1>17, <2>1 DEF WorkCall
<1>18. CASE WorkRegister
  <2>1. registered' \in BOOLEAN
    BY <1>18, Zenon DEF WorkRegister
  <2> QED BY <1>18, <2>1 DEF WorkRegister
<1>19. CASE WorkTimeout BY <1>19 DEF WorkTimeout
<1>20. CASE HeartbeatTick
  <2>1. hbRequest' \in BOOLEAN
    BY <1>20, Zenon DEF HeartbeatTick
  <2> QED BY <1>20, <2>1 DEF HeartbeatTick
<1>21. CASE HeartbeatTake
  <2>1. queued' \in BOOLEAN /\ hbRequest' \in BOOLEAN
    BY <1>21, Zenon DEF HeartbeatTake
  <2> QED BY <1>21, <2>1 DEF HeartbeatTake
<1>22. CASE HeartbeatAlive
  <2>1. hbRequest' \in BOOLEAN
    BY <1>22, Zenon DEF HeartbeatAlive, Answer
  <2> QED BY <1>22, <2>1 DEF HeartbeatAlive, Answer
<1>23. CASE HeartbeatMiss
  <2>1. healthy' \in BOOLEAN
    BY <1>23, Zenon DEF HeartbeatMiss
  <2> QED BY <1>23, <2>1 DEF HeartbeatMiss
<1>24. CASE HeartbeatRecover
  <2>1. hbRequest' \in BOOLEAN /\ healthy' \in BOOLEAN
    BY <1>24, Zenon DEF HeartbeatRecover, Answer
  <2> QED BY <1>24, <2>1 DEF HeartbeatRecover, Answer
<1>25. CASE HeartbeatLost
  <2>1. /\ hbRequest' \in BOOLEAN
        /\ healthy' \in BOOLEAN
        /\ rtFailed' \in BOOLEAN
        /\ failureC' \in BOOLEAN
    BY <1>25, Zenon DEF HeartbeatLost, Answer
  <2> QED BY <1>25, <2>1 DEF HeartbeatLost, Answer
<1>26. CASE TransportFail
  <2>1. /\ healthy' \in BOOLEAN
        /\ rtFailed' \in BOOLEAN
        /\ failureC' \in BOOLEAN
        /\ hbRequest' \in BOOLEAN
    BY <1>26, Zenon DEF TransportFail
  <2> QED BY <1>26, <2>1 DEF TransportFail
<1>27. CASE RequestCheck
  <2>1. checking' \in BOOLEAN /\ token' \in BOOLEAN
    BY <1>27, Zenon DEF RequestCheck
  <2>2. /\ revision' \in 0..MaxRevision
        /\ UNCHANGED <<cycle, failure, stopped, renew, renewPending, verified, worker,
                       workRefresh, workRevision, recovery, recoveryUsed, registered>>
    BY <1>27 DEF RequestCheck
  <2>3. checking'
    BY <1>27, Zenon DEF RequestCheck
  <2>4. cycle # "down" /\ (token' \/ checking) /\ (token => token')
    BY <1>27, <2>1, Zenon DEF RequestCheck
  <2>5. CheckScheduled'
    BY <2>2, <2>4
  <2> QED BY <1>27, <2>1, <2>2, <2>3, <2>5 DEF RequestCheck
<1>28. CASE RenewalDue BY <1>28 DEF RenewalDue
<1>29. CASE BindingAges BY <1>29 DEF BindingAges
<1>30. CASE CallBegins
  <2>1. callUp' \in BOOLEAN
    BY <1>30, Zenon DEF CallBegins
  <2> QED BY <1>30, <2>1 DEF CallBegins
<1>31. CASE CallEnds
  <2>1. callUp' \in BOOLEAN
    BY <1>31, Zenon DEF CallEnds
  <2> QED BY <1>31, <2>1 DEF CallEnds
<1>32. CASE InviteRejected
  <2>1. recoveryUsed' \in BOOLEAN
    BY <1>32, Zenon DEF InviteRejected
  <2> QED BY <1>32, <2>1 DEF InviteRejected
<1>33. CASE UNCHANGED vars BY <1>33 DEF vars
<1> QED
  BY <1>1, <1>2, <1>3, <1>4, <1>5, <1>6, <1>7, <1>8, <1>9, <1>10, <1>11, <1>12, <1>13,
     <1>14, <1>15, <1>16, <1>17, <1>18, <1>19, <1>20, <1>21, <1>22, <1>23, <1>24, <1>25,
     <1>26, <1>27, <1>28, <1>29, <1>30, <1>31, <1>32, <1>33
     DEF Next, Loop, Work, Heartbeat

-----------------------------------------------------------------------------
\* MaintenanceInv holds in every reachable state of every run.
LEMMA Invariance == Spec => []MaintenanceInv
BY InitInv, NextInv, PTL DEF Spec

\* The loop's variables keep their types however many checks are requested; in
\* particular requestInviteRegistrationRecovery never blocks on its channel.
THEOREM TypeCorrect == Spec => []TypeOK
<1> MaintenanceInv => TypeOK BY DEF MaintenanceInv
<1> QED BY Invariance, PTL

\* The maintenance slot never loses a renewal: connectCycle's renewPending and the
\* timer's Reset account for every registration that falls due.
THEOREM RenewalSafety == Spec => []RenewalNeverLost
<1> MaintenanceInv => RenewalNeverLost BY DEF MaintenanceInv
<1> QED BY Invariance, PTL

\* However many checks the host requests and whatever the loop is doing then, a check is
\* scheduled, and checking is cleared only by a verification that began after it.
THEOREM CheckSafety == Spec => []RequestsHonoured
<1> MaintenanceInv => RequestsHonoured BY DEF MaintenanceInv, RequestsHonoured
<1> QED BY Invariance, PTL

\* A cycle whose maintenance failed never registers again: recovery belongs to the next.
THEOREM FailureSafety == Spec => []FailureIsSticky
<1> MaintenanceInv => FailureIsSticky BY DEF MaintenanceInv
<1> QED BY Invariance, PTL

\* finishConnectionCheck never reports success over an expired binding.
THEOREM BindingSafety == Spec => CheckProvesBinding
<1>1. ASSUME MaintenanceInv, [Next]_vars,
             checking, ~checking', cycle' = "up", failure' = "none"
      PROVE  binding' # "expired"
  <2> USE <1>1
  <2>1. Next BY DEF vars, checkVars
  <2>2. CASE ResultAlive
    BY <2>2 DEF ResultAlive, bindVars
  <2>3. CASE ResultGranted
    BY <2>3 DEF ResultGranted
  <2>4. CASE ResultFailed
    BY <2>4 DEF ResultFailed
  <2>5. CASE Teardown
    BY <2>5 DEF Teardown, NoSession
  <2>6. CASE RequestCheck
    BY <2>6, Zenon DEF RequestCheck
  <2>7. CASE TakeCheck
    BY <2>7 DEF TakeCheck
  <2>8. CASE \/ Publish \/ Stop \/ NewRun \/ TakeCancel \/ TakeRenewal \/ TakeRecovery
             \/ ResultStale \/ TakeTunnelDone \/ TakeTransportFailure \/ TakeTick
             \/ Work \/ Heartbeat \/ TransportFail \/ RenewalDue \/ BindingAges
             \/ CallBegins \/ CallEnds \/ InviteRejected
    <3>1. checking' = checking
      BY <2>8 DEF Publish, Stop, NewRun, TakeCancel, TakeRenewal, TakeRecovery, ResultStale,
                  TakeTunnelDone, TakeTransportFailure, TakeTick, Work, WorkWait, WorkCall,
                  WorkRegister, WorkTimeout, Heartbeat, HeartbeatTick, HeartbeatTake,
                  HeartbeatAlive, HeartbeatMiss, HeartbeatRecover, HeartbeatLost,
                  TransportFail, RenewalDue, BindingAges, CallBegins, CallEnds,
                  InviteRejected, checkVars
    <3> QED BY <3>1
  <2> QED BY <2>1, <2>2, <2>3, <2>4, <2>5, <2>6, <2>7, <2>8 DEF Next, Loop
<1>2. MaintenanceInv /\ [Next]_vars
        => [checking /\ ~checking' /\ cycle' = "up" /\ failure' = "none"
              => binding' # "expired"]_vars
  BY <1>1
<1> QED BY <1>2, Invariance, PTL DEF Spec, CheckProvesBinding

=============================================================================
