----------------------------- MODULE EngineRun -----------------------------
(***************************************************************************)
(* The runs of the engine: Start, Stop and Command, called by host threads *)
(* at any time, the serve goroutine of a run with its connection cycles    *)
(* and its policy of reconnecting, and the goroutine of the tunnel.        *)
(*                                                                         *)
(* The tunnel (swu-go) reports its progress, becomes ready, and returns    *)
(* from Connect with an error of some kind, at the latest when its context *)
(* is cancelled.  What keeps a registered session alive is in Maintenance; *)
(* here it ends with an error sooner or later.                             *)
(***************************************************************************)
EXTENDS Integers, FiniteSets, Sequences

CONSTANTS Hosts,        \* host threads that start and stop
          Commanders,   \* host threads that issue commands
          MaxRuns,      \* bound: runs started
          MaxAttempts,  \* bound: connection attempts of all runs
          MaxFailures,  \* failures in a row that end a run; the code's 3
          MaxRedirects, \* the code's 3
          Candidates,   \* number of ePDG candidates of the carrier template
          Assigned,     \* what tunnels may assign: [v4, v6 : BOOLEAN, pcscf4, pcscf6 : Nat]
          Paths,        \* configured [stack, override], override 0, 4 or 6
          None

ASSUME EngineAssumption ==
  /\ MaxRuns \in Nat /\ MaxAttempts \in Nat /\ MaxFailures \in Nat \ {0}
  /\ MaxRedirects \in Nat /\ Candidates \in Nat \ {0}
  /\ None \notin Nat

VARIABLES
  run,        \* e.run: the number of the current run, or None
  phase,      \* e.phase
  retrying, terminal,
  ikeStage,
  audio,      \* e.audio: [run, service] whose call it belongs to, or None; late is history:
              \* a Command opened it when the service was no longer published
  rs,         \* the runs, in the order of Start
  hosts       \* host threads: [pc, run, service, audio, result]

engineVars == <<run, phase, retrying, terminal, ikeStage, audio>>
vars == <<engineVars, rs, hosts>>

Runs == 1..MaxRuns
Started == {r \in Runs : rs[r].pc # "unborn"}
Errors == {"transient", "permanent", "canceled", "redirect"}
Stages == <<"transport", "ike_sa_init", "ike_auth", "ready">>

-----------------------------------------------------------------------------
(* Pure decisions *)

\* selectIMSPath: the family of the inner address and of the P-CSCFs, 0 for an error.
selectIMSPath(a, stack, override) ==
  CASE override = 4 -> IF a.v4 /\ stack # "ipv6" THEN 4 ELSE 0
    [] override = 6 -> IF a.v6 /\ stack # "ipv4" THEN 6 ELSE 0
    [] OTHER -> IF stack # "ipv4" /\ a.v6 /\ a.pcscf6 > 0 THEN 6
                ELSE IF stack # "ipv6" /\ a.v4 /\ a.pcscf4 > 0 THEN 4 ELSE 0

\* classifyCycleFailure: only the owner's cancellation is one.
classifyCycleFailure(stopped, err) == IF ~stopped /\ err = "canceled" THEN "transient" ELSE err

permanentSessionFailure(err) == err \in {"permanent", "canceled"}

\* Faulty variant: every redirect starts a new budget.
reconnectPolicyLenient(failures, registered, err) ==
  LET before == IF registered \/ err = "redirect" THEN 0 ELSE failures
  IN  CASE permanentSessionFailure(err) -> [failures |-> before, retry |-> FALSE]
        [] ~permanentSessionFailure(err) /\ registered -> [failures |-> 0, retry |-> TRUE]
        [] OTHER -> [failures |-> before + 1, retry |-> before + 1 < MaxFailures]

\* reconnectPolicy; a cycle never ends without an error.
reconnectPolicy(failures, registered, err) ==
  LET before == IF registered THEN 0 ELSE failures
  IN  CASE permanentSessionFailure(err) -> [failures |-> before, retry |-> FALSE]
        [] ~permanentSessionFailure(err) /\ registered -> [failures |-> 0, retry |-> TRUE]
        [] OTHER -> [failures |-> before + 1, retry |-> before + 1 < MaxFailures]

canAdvanceEPDGCandidate(stage, err) ==
  ~permanentSessionFailure(err) /\ stage \in {"transport", "ike_sa_init"}

-----------------------------------------------------------------------------
\* A new run; connection attempts are numbered through the runs, and a service is known by
\* the attempt that registered it.
NewRun(attempts) ==
  [pc |-> "sim", stopped |-> FALSE, done |-> FALSE, attempts |-> attempts, failures |-> 0,
   candidate |-> 1, candidates |-> Candidates, redirects |-> 0, registered |-> FALSE, err |-> "none",
   tunnel |-> "off", stage |-> "transport", result |-> "none", cancel |-> FALSE, network |-> FALSE,
   open |-> FALSE, service |-> None, snapshot |-> None,
   streak |-> 0, lost |-> FALSE, advanced |-> FALSE]   \* history

IdleHost == [pc |-> "idle", run |-> None, service |-> None, audio |-> None, result |-> "none"]

Init ==
  /\ run = None /\ phase = "idle" /\ retrying = FALSE /\ terminal = FALSE
  /\ ikeStage = "" /\ audio = None
  /\ rs = [r \in Runs |-> [NewRun(0) EXCEPT !.pc = "unborn"]]
  /\ hosts = [h \in Hosts \cup Commanders |-> IdleHost]

\* Faulty variant: the context of a cycle is not derived from that of the run.
CancelledAlone(r) == rs[r].cancel

\* The context of a cycle: cancelled with the run or by the cycle itself.
Cancelled(r) == rs[r].stopped \/ rs[r].cancel

\* phaseChanged
PhaseChanged(r, p) ==
  /\ phase' = IF run = r THEN p ELSE phase
  /\ retrying' = IF run = r /\ p # "failed" THEN FALSE ELSE retrying
  /\ terminal' = IF run = r /\ p # "failed" THEN FALSE ELSE terminal

samePhase == UNCHANGED <<phase, retrying, terminal>>

-----------------------------------------------------------------------------
(* Host threads *)

Start(h) ==
  /\ hosts[h].pc = "idle" /\ run = None /\ Started # Runs
  /\ LET last == Cardinality(Started) IN
     /\ run' = last + 1
     /\ rs' = [rs EXCEPT ![last + 1] = NewRun(IF last = 0 THEN 0 ELSE rs[last].attempts)]
  /\ phase' = "sim" /\ retrying' = FALSE /\ terminal' = FALSE /\ ikeStage' = ""
  /\ UNCHANGED <<audio, hosts>>

StopCalled(h) ==
  /\ hosts[h].pc = "idle" /\ run # None
  /\ hosts' = [hosts EXCEPT ![h] = [IdleHost EXCEPT !.pc = "stop", !.run = run]]
  /\ rs' = [rs EXCEPT ![run].stopped = TRUE] /\ audio' = None
  /\ UNCHANGED <<run, phase, retrying, terminal, ikeStage>>

\* Stop with nothing running still closes what audio there is.
StopIdle(h) ==
  /\ hosts[h].pc = "idle" /\ run = None /\ audio' = None
  /\ UNCHANGED <<run, phase, retrying, terminal, ikeStage, rs, hosts>>

StopReturns(h) ==
  /\ hosts[h].pc = "stop" /\ rs[hosts[h].run].done
  /\ hosts' = [hosts EXCEPT ![h].pc = "idle", ![h].result = "stopped"]
  /\ UNCHANGED <<engineVars, rs>>

\* 15 seconds pass first.
StopPending(h) ==
  /\ hosts[h].pc = "stop" /\ ~rs[hosts[h].run].done
  /\ hosts' = [hosts EXCEPT ![h] = IdleHost]
  /\ UNCHANGED <<engineVars, rs>>

\* Command takes the service under the lock, calls it without, and reads CallStatus.
CommandBegins(h) ==
  /\ hosts[h].pc = "idle" /\ run # None
  /\ rs[run].service # None /\ ~rs[run].stopped
  /\ hosts' = [hosts EXCEPT ![h] = [IdleHost EXCEPT !.pc = "command", !.run = run, !.service = rs[run].service]]
  /\ UNCHANGED <<engineVars, rs>>

\* CallStatus of a service that was closed has no audio.
AudioOf(r, service) == {None} \cup IF rs[r].open /\ rs[r].attempts = service THEN {[run |-> r, service |-> service, late |-> FALSE]} ELSE {}

CommandReads(h) ==
  /\ hosts[h].pc = "command"
  /\ \E a \in AudioOf(hosts[h].run, hosts[h].service) :
       hosts' = [hosts EXCEPT ![h].pc = "sync", ![h].audio = a]
  /\ UNCHANGED <<engineVars, rs>>

CommandFails(h) ==
  /\ hosts[h].pc = "command" /\ hosts' = [hosts EXCEPT ![h] = IdleHost]
  /\ UNCHANGED <<engineVars, rs>>

\* syncAudio, with what may be out of date by now.
CommandSyncs(h) ==
  /\ hosts[h].pc = "sync"
  /\ audio' = IF hosts[h].audio = None THEN None
              ELSE [hosts[h].audio EXCEPT !.late = rs[hosts[h].run].service # hosts[h].service]
  /\ hosts' = [hosts EXCEPT ![h] = IdleHost]
  /\ UNCHANGED <<run, phase, retrying, terminal, ikeStage, rs>>

-----------------------------------------------------------------------------
(* serve *)

ServeGoes(r, pc) == rs' = [rs EXCEPT ![r].pc = pc]

\* The card is read and the configuration resolved, or the run fails.
ReadCard(r) ==
  /\ rs[r].pc = "sim"
  /\ \/ ServeGoes(r, "begin") /\ PhaseChanged(r, "sim")
     \/ ServeGoes(r, "end") /\ PhaseChanged(r, "failed")
  /\ UNCHANGED <<run, ikeStage, audio, hosts>>

\* beginConnectionAttempt, and connectCycle up to its first select.
Begin(r) ==
  /\ rs[r].pc = "begin" /\ ~rs[r].stopped /\ rs[r].attempts < MaxAttempts
  /\ rs' = [rs EXCEPT ![r].pc = "ike", ![r].attempts = @ + 1, ![r].registered = FALSE, ![r].err = "none",
                      ![r].tunnel = "up", ![r].stage = "transport", ![r].result = "none", ![r].cancel = FALSE,
                      ![r].lost = FALSE, ![r].advanced = FALSE]
  /\ ikeStage' = "transport" /\ PhaseChanged(r, "ike")
  /\ UNCHANGED <<run, audio, hosts>>

BeginCancelled(r) ==
  /\ rs[r].pc = "begin" /\ rs[r].stopped /\ ServeGoes(r, "end")
  /\ UNCHANGED <<engineVars, hosts>>

\* connectCycle is about to return: the deferred calls run, last one first.
CycleEnds(r, err) ==
  rs' = [rs EXCEPT ![r].pc = IF rs[r].open THEN "unpublish" ELSE "drain", ![r].err = err, ![r].cancel = TRUE,
                   ![r].network = rs[r].open, ![r].result = "none"]

\* The first select: cancelled, the tunnel ended, 90 seconds, or ready.
AwaitTunnel(r) ==
  /\ rs[r].pc = "ike"
  /\ \/ Cancelled(r) /\ CycleEnds(r, "canceled")
     \/ rs[r].result # "none" /\ CycleEnds(r, rs[r].result)
     \/ CycleEnds(r, "transient")
     \/ rs[r].stage = "ready" /\ ServeGoes(r, "path")
  /\ UNCHANGED <<engineVars, hosts>>

\* selectIMSPath, the identities and the userspace network.  The configured path is of the
\* run, what is assigned of the cycle; only whether they fit is told apart.
SelectPath(r) ==
  /\ rs[r].pc = "path"
  /\ \/ CycleEnds(r, "transient") /\ samePhase
     \/ /\ \E a \in Assigned, path \in Paths : selectIMSPath(a, path.stack, path.override) # 0
        /\ rs' = [rs EXCEPT ![r].pc = "ims", ![r].network = TRUE]
        /\ PhaseChanged(r, "ims")
  /\ UNCHANGED <<run, ikeStage, audio, hosts>>

\* StartSessionIMSCore; the service is published unless the run was stopped meanwhile.
StartIMS(r) ==
  /\ rs[r].pc = "ims"
  /\ \/ \E err \in {"transient", "permanent"} : CycleEnds(r, err) /\ samePhase
     \/ /\ rs' = [rs EXCEPT ![r].pc = "ready", ![r].open = TRUE, ![r].registered = TRUE,
                            ![r].service = IF Cancelled(r) THEN None ELSE rs[r].attempts]
        /\ PhaseChanged(r, "ready")
  /\ UNCHANGED <<run, ikeStage, audio, hosts>>

\* The loop of connectCycle: its ends, and the ticker, which reads and then applies.  Only
\* a Command gives a call audio, so a service that was never published has none.
SessionEnds(r) ==
  /\ rs[r].pc = "ready"
  /\ \/ Cancelled(r) /\ CycleEnds(r, "canceled")
     \/ rs[r].result # "none" /\ CycleEnds(r, rs[r].result)
     \/ CycleEnds(r, "transient")
  /\ UNCHANGED <<engineVars, hosts>>

TickReads(r) ==
  /\ rs[r].pc = "ready"
  /\ \E a \in IF rs[r].service = None THEN {None} ELSE AudioOf(r, rs[r].attempts) :
       rs' = [rs EXCEPT ![r].pc = "tick", ![r].snapshot = a]
  /\ UNCHANGED <<engineVars, hosts>>

TickSyncs(r) ==
  /\ rs[r].pc = "tick"
  /\ audio' = rs[r].snapshot /\ rs' = [rs EXCEPT ![r].pc = "ready", ![r].snapshot = None]
  /\ UNCHANGED <<run, phase, retrying, terminal, ikeStage, hosts>>

Unpublish(r) ==
  /\ rs[r].pc = "unpublish"
  /\ rs' = [rs EXCEPT ![r].pc = "close", ![r].service = None]
  /\ audio' = IF rs[r].service # None THEN None ELSE audio
  /\ UNCHANGED <<run, phase, retrying, terminal, ikeStage, hosts>>

\* Service.Close, then network.Close.
CloseService(r) ==
  /\ rs[r].pc = "close"
  /\ rs' = [rs EXCEPT ![r].pc = "drain", ![r].open = FALSE, ![r].network = FALSE]
  /\ UNCHANGED <<engineVars, hosts>>

\* Faulty variant: the tunnel is left to end by itself.
DrainNothing(r) ==
  /\ rs[r].pc = "drain" /\ ServeGoes(r, "decide")
  /\ UNCHANGED <<engineVars, hosts>>

\* <-tunnelEnded
Drain(r) ==
  /\ rs[r].pc = "drain" /\ rs[r].tunnel = "off" /\ ServeGoes(r, "decide")
  /\ UNCHANGED <<engineVars, hosts>>

\* A redirect leaves one gateway, if the policy allows it; else it is a permanent failure.
Redirected(s) ==
  IF s.err = "redirect" /\ s.redirects >= MaxRedirects THEN [s EXCEPT !.err = "permanent"]
  ELSE IF s.err = "redirect"
    THEN [s EXCEPT !.candidates = 1, !.candidate = 1, !.redirects = @ + 1] ELSE s

\* What the run does after a cycle that failed.
Decide(r) ==
  /\ rs[r].pc = "decide" /\ ~rs[r].stopped
  /\ \E refused \in BOOLEAN :    \* the redirect is not authenticated, or not allowed
       LET s == IF refused /\ rs[r].err = "redirect" THEN [rs[r] EXCEPT !.err = "permanent"] ELSE Redirected(rs[r])
           err == classifyCycleFailure(s.stopped, s.err)
           policy == reconnectPolicy(s.failures, s.registered, err)
           next == policy.retry /\ canAdvanceEPDGCandidate(ikeStage, err) /\ s.candidate < s.candidates
       IN  /\ rs' = [rs EXCEPT ![r] = [s EXCEPT
                       !.pc = IF policy.retry THEN "wait" ELSE "end", !.failures = policy.failures,
                       !.candidate = IF next THEN @ + 1 ELSE @, !.err = err,
                       !.streak = IF s.registered THEN 0 ELSE @ + 1,
                       !.lost = s.registered /\ rs[r].err \notin {"permanent", "redirect"},
                       !.advanced = next]]
           /\ phase' = "failed" /\ retrying' = policy.retry /\ terminal' = ~policy.retry
  /\ UNCHANGED <<run, ikeStage, audio, hosts>>

DecideStopped(r) ==
  /\ rs[r].pc = "decide" /\ rs[r].stopped /\ ServeGoes(r, "end")
  /\ UNCHANGED <<engineVars, hosts>>

WaitDelay(r) ==
  /\ rs[r].pc = "wait" /\ ServeGoes(r, IF rs[r].stopped THEN "end" ELSE "begin")
  /\ UNCHANGED <<engineVars, hosts>>

\* The deferred function of serve: under the lock, then close(run.done).
ServeEnds(r) ==
  /\ rs[r].pc = "end"
  /\ rs' = [rs EXCEPT ![r] = [NewRun(rs[r].attempts) EXCEPT !.pc = "release", !.stopped = rs[r].stopped, !.tunnel = rs[r].tunnel]]
  /\ run' = IF run = r THEN None ELSE run
  /\ audio' = IF run = r THEN None ELSE audio
  /\ phase' = IF run = r /\ rs[r].stopped THEN "stopped" ELSE phase
  /\ retrying' = IF run = r THEN FALSE ELSE retrying
  /\ terminal' = IF run = r THEN phase' = "failed" ELSE terminal
  /\ UNCHANGED <<ikeStage, hosts>>

ServeDone(r) ==
  /\ rs[r].pc = "release" /\ rs' = [rs EXCEPT ![r].pc = "done", ![r].done = TRUE]
  /\ UNCHANGED <<engineVars, hosts>>

-----------------------------------------------------------------------------
(* The tunnel *)

\* OnProgress: ikeProgressForAttempt; the last stage is OnReady.
TunnelProgress(r) ==
  /\ rs[r].tunnel = "up" /\ rs[r].stage # "ready" /\ ~rs[r].cancel   \* later ones are ignored
  /\ LET i == CHOOSE j \in DOMAIN Stages : Stages[j] = rs[r].stage IN
     /\ rs' = [rs EXCEPT ![r].stage = Stages[i + 1]]
     /\ ikeStage' = IF ~Cancelled(r) /\ run = r /\ phase = "ike" /\ Stages[i + 1] # "ready"
                      THEN Stages[i + 1] ELSE ikeStage
  /\ UNCHANGED <<run, phase, retrying, terminal, audio, hosts>>

\* Connect returns; the driver of a tunnel that lost its peer cancels its own context.
TunnelReturns(r) ==
  /\ rs[r].tunnel = "up"
  /\ \E err \in IF Cancelled(r) THEN {"canceled"} ELSE Errors :
       rs' = [rs EXCEPT ![r].tunnel = "off", ![r].result = IF rs[r].cancel THEN "none" ELSE err]
  /\ UNCHANGED <<engineVars, hosts>>

-----------------------------------------------------------------------------
Serve(r) ==
  \/ ReadCard(r) \/ Begin(r) \/ BeginCancelled(r) \/ AwaitTunnel(r) \/ SelectPath(r) \/ StartIMS(r)
  \/ TickSyncs(r) \/ Unpublish(r) \/ CloseService(r) \/ Drain(r) \/ Decide(r) \/ DecideStopped(r)
  \/ WaitDelay(r) \/ ServeEnds(r) \/ ServeDone(r)

Host(h) == Start(h) \/ StopCalled(h) \/ StopIdle(h) \/ StopReturns(h) \/ StopPending(h)
Commander(h) == CommandBegins(h) \/ CommandReads(h) \/ CommandFails(h) \/ CommandSyncs(h)

Next ==
  \/ \E h \in Hosts : Host(h)
  \/ \E h \in Commanders : Commander(h)
  \/ \E r \in Runs : Serve(r) \/ SessionEnds(r) \/ TickReads(r) \/ TunnelProgress(r) \/ TunnelReturns(r)

Spec == Init /\ [][Next]_vars

\* The serve goroutine runs, a cancelled loop takes the cancellation, and Connect returns
\* once its context is cancelled.  Nothing makes a session end or a host call.
LiveSpec ==
  /\ Spec
  /\ \A r \in Runs :
       /\ WF_vars(Serve(r))
       /\ SF_vars(Cancelled(r) /\ SessionEnds(r))
       /\ WF_vars(Cancelled(r) /\ TunnelReturns(r))

-----------------------------------------------------------------------------
(* Properties *)

\* Types; the gateway tried is one of those there are, also after a redirect replaced them,
\* and the status never says both that the engine retries and that it gave up.
TypeOK ==
  /\ run \in Started \cup {None} /\ ikeStage \in {"", "transport", "ike_sa_init", "ike_auth"}
  /\ phase \in {"idle", "sim", "ike", "ims", "ready", "failed", "stopped"}
  /\ retrying \in BOOLEAN /\ terminal \in BOOLEAN /\ ~(retrying /\ terminal)
  /\ \A r \in Runs : rs[r].candidate \in 1..rs[r].candidates /\ rs[r].failures \in 0..MaxFailures

\* One tunnel and one IMS service at a time, however Stop, Start and
\* the teardown of the last session overlap: "Engine owns one card generation and one
\* in-process tunnel at a time."
OneOwner ==
  /\ Cardinality({r \in Runs : rs[r].tunnel = "up"}) <= 1
  /\ Cardinality({r \in Runs : rs[r].open \/ rs[r].network}) <= 1
  /\ \A r \in Runs : rs[r].open => rs[r].network

\* A Stop that reports success leaves nothing of the run behind, and the next Start is not
\* refused because of it; one that gave up waiting says so.
StopIsComplete ==
  \A h \in Hosts : hosts[h].result = "stopped" =>
    LET r == rs[hosts[h].run] IN
    r.tunnel = "off" /\ ~r.open /\ ~r.network /\ r.service = None /\ run # hosts[h].run

\* A run makes no more than MaxFailures attempts in a row that do not register, whatever
\* candidates and redirects it goes through, and none after a failure that is permanent;
\* nor does it follow more than MaxRedirects redirects, whatever lies between them.
AttemptsBounded ==
  \A r \in Runs :
    /\ rs[r].streak <= MaxFailures /\ rs[r].redirects <= MaxRedirects
    /\ rs[r].pc \in {"wait", "begin"} => rs[r].streak < MaxFailures /\ ~permanentSessionFailure(rs[r].err)

\* A gateway that got as far as authentication is not left for another one, and a redirect
\* is followed to where it points.
GatewayKept ==
  \A r \in Runs : rs[r].advanced => rs[r].stage \in {"transport", "ike_sa_init"} /\ rs[r].redirects = 0

\* The audio socket goes down with the session of the call it was opened for, whatever the
\* ticker had read before; only a Command that read its call earlier brings it back.
AudioFollowsSession ==
  audio # None => audio.late \/ rs[audio.run].service = audio.service

\* A session that was registered and is lost, be it because the tunnel cancelled its own
\* context, is set up again, unless the user stops the run.
LossIsRepaired ==
  \A r \in Runs :
    (rs[r].lost /\ rs[r].attempts < MaxAttempts) ~> (rs[r].stopped \/ rs[r].pc = "ike")

\* A run that is stopped ends, from whatever it was waiting for.
StoppedRunEnds == \A r \in Runs : rs[r].stopped ~> rs[r].done

\* The engine is one at a time and Stop is the end of it: tunnel, service, network and
\* audio belong to one run and go with it.
RunsExclusive == TypeOK /\ OneOwner /\ StopIsComplete /\ AudioFollowsSession

\* Retries are bounded and go to the gateway the last attempt calls for.
AttemptsSound == AttemptsBounded /\ GatewayKept

\* A run is either repaired or comes to its end.
RunsSettle == LossIsRepaired /\ StoppedRunEnds

=============================================================================
