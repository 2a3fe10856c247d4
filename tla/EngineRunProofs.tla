-------------------------- MODULE EngineRunProofs --------------------------
(***************************************************************************)
(* Proofs about the runs of the engine, for any number of host threads,    *)
(* runs, attempts, candidates and redirects: there is one tunnel and one   *)
(* session at a time, a Stop that succeeds leaves nothing behind, the      *)
(* audio follows its session, and the retries of a run are bounded.        *)
(***************************************************************************)
EXTENDS EngineRun, FiniteSetTheorems, TLAPS

AudioRecord == [run : Runs, service : Nat, late : BOOLEAN]

Over == {"unborn", "release", "done"}
Connecting == {"ike", "path", "ims", "ready", "tick", "unpublish", "close", "drain"}
StageNames == {"transport", "ike_sa_init", "ike_auth", "ready"}

RunFields ==
  {"pc", "stopped", "done", "attempts", "failures", "candidate", "candidates", "redirects", "registered", "err",
   "tunnel", "stage", "result", "cancel", "network", "open", "service", "snapshot", "streak", "lost", "advanced"}

\* A run is a record of these fields, some of which are numbers.
RunTyped(s) ==
  /\ DOMAIN s = RunFields /\ s = [f \in RunFields |-> s[f]]
  /\ s.attempts \in Nat /\ s.failures \in Nat /\ s.streak \in Nat
  /\ s.candidate \in Nat /\ s.candidates \in Nat /\ s.redirects \in Nat /\ s.stage \in StageNames

\* What of a connection cycle exists where: tunnel, network, session and publication are
\* made in this order and taken down in the reverse one.
CycleInOrder(s) ==
  /\ s.tunnel \in {"off", "up"} /\ (s.tunnel = "up" => s.pc \in Connecting)
  /\ s.open <=> s.pc \in {"ready", "tick", "unpublish", "close"}
  /\ s.network <=> s.pc \in {"ims", "ready", "tick", "unpublish", "close"}
  /\ s.service # None => s.pc \in {"ready", "tick", "unpublish"} /\ s.service = s.attempts
  /\ s.done => s.pc = "done"

\* A cycle that got past the tunnel saw it ready; one that ended has cancelled its context.
StageInOrder(s) ==
  /\ s.pc \in {"path", "ims", "ready", "tick"} => s.stage = "ready"
  /\ s.pc \in {"unpublish", "close", "drain", "decide"} => s.cancel

\* The failures in a row that the policy counts are those there were, and leave room for
\* one more until the run ends; after a redirect, of which there are only so many, there is
\* one gateway.
Counted(s) ==
  /\ s.candidate \in 1..s.candidates /\ (s.redirects > 0 => s.candidates = 1)
  /\ s.redirects <= MaxRedirects
  /\ s.failures <= MaxFailures /\ s.streak <= MaxFailures
  /\ s.pc # "end" => s.failures < MaxFailures /\ s.streak = s.failures
  /\ s.pc \in {"sim", "wait", "begin"} => ~permanentSessionFailure(s.err)
  /\ s.advanced => /\ s.pc \in {"wait", "begin", "end"}
                   /\ s.stage \in {"transport", "ike_sa_init"} /\ s.redirects = 0

RecordOK(s) == RunTyped(s) /\ CycleInOrder(s) /\ StageInOrder(s) /\ Counted(s)

\* The current run is the one whose serve goroutine has not ended; what the engine shows of
\* the tunnel is how far the current attempt got.
Current(r) ==
  /\ (run = r) <=> rs[r].pc \notin Over
  /\ rs[r].pc = "ike" => phase = "ike"
  /\ rs[r].pc \in Connecting \cup {"decide"} /\ ~rs[r].stopped
       => ikeStage = IF rs[r].stage = "ready" THEN "ike_auth" ELSE rs[r].stage

\* What the ticker read is still so when it is applied.
SnapshotFresh(r) ==
  rs[r].pc = "tick" /\ rs[r].snapshot # None
    => /\ rs[r].snapshot \in AudioRecord
       /\ rs[r].snapshot.run = r /\ rs[r].service # None /\ rs[r].snapshot.service = rs[r].service

RunsOK ==
  /\ DOMAIN rs = Runs /\ rs = [r \in Runs |-> rs[r]]
  /\ \A r \in Runs : RecordOK(rs[r]) /\ Current(r) /\ SnapshotFresh(r)

StartedInOrder == \E n \in 0..MaxRuns : Started = 1..n

EngineTyped ==
  /\ run \in Runs \cup {None} /\ ikeStage \in {"", "transport", "ike_sa_init", "ike_auth"}
  /\ phase \in {"idle", "sim", "ike", "ims", "ready", "failed", "stopped"}
  /\ retrying \in BOOLEAN /\ terminal \in BOOLEAN /\ ~(retrying /\ terminal)

AudioOK == audio \in AudioRecord \cup {None} /\ AudioFollowsSession

HostRecord ==
  [pc : {"idle", "stop", "command", "sync"}, run : Runs \cup {None}, service : Nat \cup {None},
   audio : AudioRecord \cup {None}, result : {"none", "stopped"}]

\* A host thread that waits or calls knows a run that was started, and what a Command read
\* of the audio belongs to the service it took.
HostOK(g, runs) ==
  /\ g.pc # "idle" => g.run \in Runs
  /\ g.result = "stopped" => g.run \in Runs /\ runs[g.run].done
  /\ g.pc \in {"command", "sync"} => g.service \in Nat
  /\ g.pc = "sync" /\ g.audio # None => g.audio.run = g.run /\ g.audio.service = g.service

HostsOK ==
  /\ hosts \in [Hosts \cup Commanders -> HostRecord]
  /\ \A h \in Hosts \cup Commanders : HostOK(hosts[h], rs)

\* The inductive invariant.
EngineInv == EngineTyped /\ RunsOK /\ StartedInOrder /\ AudioOK /\ HostsOK


-----------------------------------------------------------------------------
(* What the steps make of a run *)

LEMMA CardRead ==
  ASSUME NEW s, RecordOK(s), s.pc = "sim", NEW p \in {"begin", "end"},
         NEW t, t = [s EXCEPT !.pc = p]
  PROVE  RecordOK(t)
<1>1. RunTyped(t)
  BY DEF RecordOK, RunTyped, RunFields, StageNames
<1>2. CycleInOrder(t)
  BY EngineAssumption DEF RecordOK, RunTyped, RunFields, CycleInOrder, Connecting, Over
<1>3. StageInOrder(t)
  BY DEF RecordOK, RunTyped, RunFields, CycleInOrder, StageInOrder
<1>4. Counted(t)
  BY DEF RecordOK, RunTyped, RunFields, CycleInOrder, Counted, permanentSessionFailure, Connecting
<1> QED
  BY <1>1, <1>2, <1>3, <1>4 DEF RecordOK

LEMMA CycleBegins ==
  ASSUME NEW s, RecordOK(s), s.pc = "begin",
         NEW t, t = [s EXCEPT !.pc = "ike", !.attempts = @ + 1, !.registered = FALSE, !.err = "none",
                             !.tunnel = "up", !.stage = "transport", !.result = "none", !.cancel = FALSE,
                             !.lost = FALSE, !.advanced = FALSE]
  PROVE  RecordOK(t)
<1>1. RunTyped(t)
  <2>1. DOMAIN t = RunFields /\ t = [f \in RunFields |-> t[f]]
    BY ZenonT(40) DEF RecordOK, RunTyped, RunFields
  <2>2. /\ t.attempts = s.attempts + 1 /\ t.failures = s.failures /\ t.streak = s.streak
        /\ t.candidate = s.candidate /\ t.candidates = s.candidates /\ t.redirects = s.redirects
        /\ t.stage = "transport"
    BY DEF RecordOK, RunTyped, RunFields
  <2>3. /\ s.attempts + 1 \in Nat /\ s.failures \in Nat /\ s.streak \in Nat
        /\ s.candidate \in Nat /\ s.candidates \in Nat /\ s.redirects \in Nat
    BY DEF RecordOK, RunTyped
  <2> QED BY <2>1, <2>2, <2>3 DEF RunTyped, StageNames
<1>2. CycleInOrder(t)
  BY EngineAssumption DEF RecordOK, RunTyped, RunFields, CycleInOrder, Connecting, Over
<1>3. StageInOrder(t)
  BY DEF RecordOK, RunTyped, RunFields, CycleInOrder, StageInOrder
<1>4. Counted(t)
  BY DEF RecordOK, RunTyped, RunFields, CycleInOrder, Counted, permanentSessionFailure, Connecting
<1> QED
  BY <1>1, <1>2, <1>3, <1>4 DEF RecordOK

LEMMA RunGivesUp ==
  ASSUME NEW s, RecordOK(s), s.pc \in {"begin", "decide", "wait"},
         NEW t, t = [s EXCEPT !.pc = "end"]
  PROVE  RecordOK(t)
<1>1. RunTyped(t)
  BY DEF RecordOK, RunTyped, RunFields, StageNames
<1>2. CycleInOrder(t)
  BY EngineAssumption DEF RecordOK, RunTyped, RunFields, CycleInOrder, Connecting, Over
<1>3. StageInOrder(t)
  BY DEF RecordOK, RunTyped, RunFields, CycleInOrder, StageInOrder
<1>4. Counted(t)
  BY DEF RecordOK, RunTyped, RunFields, CycleInOrder, Counted, permanentSessionFailure, Connecting
<1> QED
  BY <1>1, <1>2, <1>3, <1>4 DEF RecordOK

LEMMA CycleOver ==
  ASSUME NEW s, RecordOK(s), s.pc \in {"ike", "path", "ims", "ready"}, NEW e,
         NEW t, t = [s EXCEPT !.pc = IF s.open THEN "unpublish" ELSE "drain", !.err = e, !.cancel = TRUE,
                             !.network = s.open, !.result = "none"]
  PROVE  RecordOK(t)
<1>1. RunTyped(t)
  BY ZenonT(40) DEF RecordOK, RunTyped, RunFields, StageNames
<1>2. CycleInOrder(t)
  BY EngineAssumption DEF RecordOK, RunTyped, RunFields, CycleInOrder, Connecting, Over
<1>3. StageInOrder(t)
  BY DEF RecordOK, RunTyped, RunFields, CycleInOrder, StageInOrder
<1>4. Counted(t)
  BY DEF RecordOK, RunTyped, RunFields, CycleInOrder, Counted, permanentSessionFailure, Connecting
<1> QED
  BY <1>1, <1>2, <1>3, <1>4 DEF RecordOK

LEMMA TunnelReady ==
  ASSUME NEW s, RecordOK(s), s.pc = "ike", s.stage = "ready",
         NEW t, t = [s EXCEPT !.pc = "path"]
  PROVE  RecordOK(t)
<1>1. RunTyped(t)
  BY DEF RecordOK, RunTyped, RunFields, StageNames
<1>2. CycleInOrder(t)
  BY EngineAssumption DEF RecordOK, RunTyped, RunFields, CycleInOrder, Connecting, Over
<1>3. StageInOrder(t)
  BY DEF RecordOK, RunTyped, RunFields, CycleInOrder, StageInOrder
<1>4. Counted(t)
  BY DEF RecordOK, RunTyped, RunFields, CycleInOrder, Counted, permanentSessionFailure, Connecting
<1> QED
  BY <1>1, <1>2, <1>3, <1>4 DEF RecordOK

LEMMA NetworkUp ==
  ASSUME NEW s, RecordOK(s), s.pc = "path",
         NEW t, t = [s EXCEPT !.pc = "ims", !.network = TRUE]
  PROVE  RecordOK(t)
<1>1. RunTyped(t)
  BY DEF RecordOK, RunTyped, RunFields, StageNames
<1>2. CycleInOrder(t)
  BY EngineAssumption DEF RecordOK, RunTyped, RunFields, CycleInOrder, Connecting, Over
<1>3. StageInOrder(t)
  BY DEF RecordOK, RunTyped, RunFields, CycleInOrder, StageInOrder
<1>4. Counted(t)
  BY DEF RecordOK, RunTyped, RunFields, CycleInOrder, Counted, permanentSessionFailure, Connecting
<1> QED
  BY <1>1, <1>2, <1>3, <1>4 DEF RecordOK

LEMMA SessionUp ==
  ASSUME NEW s, RecordOK(s), s.pc = "ims", NEW v \in {None, s.attempts},
         NEW t, t = [s EXCEPT !.pc = "ready", !.open = TRUE, !.registered = TRUE, !.service = v]
  PROVE  RecordOK(t)
<1>1. RunTyped(t)
  BY DEF RecordOK, RunTyped, RunFields, StageNames
<1>2. CycleInOrder(t)
  BY EngineAssumption DEF RecordOK, RunTyped, RunFields, CycleInOrder, Connecting, Over
<1>3. StageInOrder(t)
  BY DEF RecordOK, RunTyped, RunFields, CycleInOrder, StageInOrder
<1>4. Counted(t)
  BY DEF RecordOK, RunTyped, RunFields, CycleInOrder, Counted, permanentSessionFailure, Connecting
<1> QED
  BY <1>1, <1>2, <1>3, <1>4 DEF RecordOK

LEMMA TickBegins ==
  ASSUME NEW s, RecordOK(s), s.pc = "ready", NEW a,
         NEW t, t = [s EXCEPT !.pc = "tick", !.snapshot = a]
  PROVE  RecordOK(t)
<1>1. RunTyped(t)
  BY DEF RecordOK, RunTyped, RunFields, StageNames
<1>2. CycleInOrder(t)
  BY EngineAssumption DEF RecordOK, RunTyped, RunFields, CycleInOrder, Connecting, Over
<1>3. StageInOrder(t)
  BY DEF RecordOK, RunTyped, RunFields, CycleInOrder, StageInOrder
<1>4. Counted(t)
  BY DEF RecordOK, RunTyped, RunFields, CycleInOrder, Counted, permanentSessionFailure, Connecting
<1> QED
  BY <1>1, <1>2, <1>3, <1>4 DEF RecordOK

LEMMA TickOver ==
  ASSUME NEW s, RecordOK(s), s.pc = "tick",
         NEW t, t = [s EXCEPT !.pc = "ready", !.snapshot = None]
  PROVE  RecordOK(t)
<1>1. RunTyped(t)
  BY DEF RecordOK, RunTyped, RunFields, StageNames
<1>2. CycleInOrder(t)
  BY EngineAssumption DEF RecordOK, RunTyped, RunFields, CycleInOrder, Connecting, Over
<1>3. StageInOrder(t)
  BY DEF RecordOK, RunTyped, RunFields, CycleInOrder, StageInOrder
<1>4. Counted(t)
  BY DEF RecordOK, RunTyped, RunFields, CycleInOrder, Counted, permanentSessionFailure, Connecting
<1> QED
  BY <1>1, <1>2, <1>3, <1>4 DEF RecordOK

LEMMA Unpublished ==
  ASSUME NEW s, RecordOK(s), s.pc = "unpublish",
         NEW t, t = [s EXCEPT !.pc = "close", !.service = None]
  PROVE  RecordOK(t)
<1>1. RunTyped(t)
  BY DEF RecordOK, RunTyped, RunFields, StageNames
<1>2. CycleInOrder(t)
  BY EngineAssumption DEF RecordOK, RunTyped, RunFields, CycleInOrder, Connecting, Over
<1>3. StageInOrder(t)
  BY DEF RecordOK, RunTyped, RunFields, CycleInOrder, StageInOrder
<1>4. Counted(t)
  BY DEF RecordOK, RunTyped, RunFields, CycleInOrder, Counted, permanentSessionFailure, Connecting
<1> QED
  BY <1>1, <1>2, <1>3, <1>4 DEF RecordOK

LEMMA Closed ==
  ASSUME NEW s, RecordOK(s), s.pc = "close",
         NEW t, t = [s EXCEPT !.pc = "drain", !.open = FALSE, !.network = FALSE]
  PROVE  RecordOK(t)
<1>1. RunTyped(t)
  BY DEF RecordOK, RunTyped, RunFields, StageNames
<1>2. CycleInOrder(t)
  BY EngineAssumption DEF RecordOK, RunTyped, RunFields, CycleInOrder, Connecting, Over
<1>3. StageInOrder(t)
  BY DEF RecordOK, RunTyped, RunFields, CycleInOrder, StageInOrder
<1>4. Counted(t)
  BY DEF RecordOK, RunTyped, RunFields, CycleInOrder, Counted, permanentSessionFailure, Connecting
<1> QED
  BY <1>1, <1>2, <1>3, <1>4 DEF RecordOK

LEMMA Drained ==
  ASSUME NEW s, RecordOK(s), s.pc = "drain", s.tunnel = "off",
         NEW t, t = [s EXCEPT !.pc = "decide"]
  PROVE  RecordOK(t)
<1>1. RunTyped(t)
  BY DEF RecordOK, RunTyped, RunFields, StageNames
<1>2. CycleInOrder(t)
  BY EngineAssumption DEF RecordOK, RunTyped, RunFields, CycleInOrder, Connecting, Over
<1>3. StageInOrder(t)
  BY DEF RecordOK, RunTyped, RunFields, CycleInOrder, StageInOrder
<1>4. Counted(t)
  BY DEF RecordOK, RunTyped, RunFields, CycleInOrder, Counted, permanentSessionFailure, Connecting
<1> QED
  BY <1>1, <1>2, <1>3, <1>4 DEF RecordOK

LEMMA DelayOver ==
  ASSUME NEW s, RecordOK(s), s.pc = "wait",
         NEW t, t = [s EXCEPT !.pc = "begin"]
  PROVE  RecordOK(t)
<1>1. RunTyped(t)
  BY DEF RecordOK, RunTyped, RunFields, StageNames
<1>2. CycleInOrder(t)
  BY EngineAssumption DEF RecordOK, RunTyped, RunFields, CycleInOrder, Connecting, Over
<1>3. StageInOrder(t)
  BY DEF RecordOK, RunTyped, RunFields, CycleInOrder, StageInOrder
<1>4. Counted(t)
  BY DEF RecordOK, RunTyped, RunFields, CycleInOrder, Counted, permanentSessionFailure, Connecting
<1> QED
  BY <1>1, <1>2, <1>3, <1>4 DEF RecordOK

LEMMA RunReleased ==
  ASSUME NEW s, RecordOK(s), s.pc = "release",
         NEW t, t = [s EXCEPT !.pc = "done", !.done = TRUE]
  PROVE  RecordOK(t)
<1>1. RunTyped(t)
  BY DEF RecordOK, RunTyped, RunFields, StageNames
<1>2. CycleInOrder(t)
  BY EngineAssumption DEF RecordOK, RunTyped, RunFields, CycleInOrder, Connecting, Over
<1>3. StageInOrder(t)
  BY DEF RecordOK, RunTyped, RunFields, CycleInOrder, StageInOrder
<1>4. Counted(t)
  BY DEF RecordOK, RunTyped, RunFields, CycleInOrder, Counted, permanentSessionFailure, Connecting
<1> QED
  BY <1>1, <1>2, <1>3, <1>4 DEF RecordOK

LEMMA Progress ==
  ASSUME NEW s, RecordOK(s), s.tunnel = "up", s.stage # "ready", NEW g \in StageNames, ~s.cancel,
         NEW t, t = [s EXCEPT !.stage = g]
  PROVE  RecordOK(t)
<1>1. RunTyped(t)
  BY DEF RecordOK, RunTyped, RunFields, StageNames
<1>2. CycleInOrder(t)
  BY EngineAssumption DEF RecordOK, RunTyped, RunFields, CycleInOrder, Connecting, Over
<1>3. StageInOrder(t)
  BY DEF RecordOK, RunTyped, RunFields, CycleInOrder, StageInOrder
<1>4. Counted(t)
  BY DEF RecordOK, RunTyped, RunFields, CycleInOrder, Counted, permanentSessionFailure, Connecting
<1> QED
  BY <1>1, <1>2, <1>3, <1>4 DEF RecordOK

LEMMA TunnelOver ==
  ASSUME NEW s, RecordOK(s), s.tunnel = "up", NEW e,
         NEW t, t = [s EXCEPT !.tunnel = "off", !.result = e]
  PROVE  RecordOK(t)
<1>1. RunTyped(t)
  BY DEF RecordOK, RunTyped, RunFields, StageNames
<1>2. CycleInOrder(t)
  BY EngineAssumption DEF RecordOK, RunTyped, RunFields, CycleInOrder, Connecting, Over
<1>3. StageInOrder(t)
  BY DEF RecordOK, RunTyped, RunFields, CycleInOrder, StageInOrder
<1>4. Counted(t)
  BY DEF RecordOK, RunTyped, RunFields, CycleInOrder, Counted, permanentSessionFailure, Connecting
<1> QED
  BY <1>1, <1>2, <1>3, <1>4 DEF RecordOK

LEMMA RunStopped ==
  ASSUME NEW s, RecordOK(s), s.pc \notin Over,
         NEW t, t = [s EXCEPT !.stopped = TRUE]
  PROVE  RecordOK(t)
<1>1. RunTyped(t)
  BY DEF RecordOK, RunTyped, RunFields, StageNames
<1>2. CycleInOrder(t)
  BY EngineAssumption DEF RecordOK, RunTyped, RunFields, CycleInOrder, Connecting, Over
<1>3. StageInOrder(t)
  BY DEF RecordOK, RunTyped, RunFields, CycleInOrder, StageInOrder
<1>4. Counted(t)
  BY DEF RecordOK, RunTyped, RunFields, CycleInOrder, Counted, permanentSessionFailure, Connecting
<1> QED
  BY <1>1, <1>2, <1>3, <1>4 DEF RecordOK

\* reconnectPolicy counts one failure more, from 0 again after a registration, and stops
\* at MaxFailures or at a permanent failure.
LEMMA PolicyBounds ==
  ASSUME NEW f \in Nat, f < MaxFailures, NEW registered, NEW err,
         NEW p, p = reconnectPolicy(f, registered, err)
  PROVE  /\ p.failures \in Nat /\ p.failures <= MaxFailures /\ p.retry \in BOOLEAN
         /\ p.retry => /\ ~permanentSessionFailure(err) /\ p.failures < MaxFailures
                       /\ p.failures = IF registered THEN 0 ELSE f + 1
<1>0. MaxFailures \in Nat \ {0}
  BY EngineAssumption
<1>1. CASE permanentSessionFailure(err)
  <2>1. p = [failures |-> IF registered THEN 0 ELSE f, retry |-> FALSE]
    BY <1>1 DEF reconnectPolicy
  <2>2. p.failures \in {0, f} /\ p.retry = FALSE
    BY <2>1
  <2>3. p.failures \in Nat /\ p.failures <= MaxFailures
    BY <1>0, <2>2
  <2>4. p.retry \in BOOLEAN /\ ~p.retry
    BY <2>2, Zenon
  <2> QED BY <2>3, <2>4, Zenon
<1>2. CASE ~permanentSessionFailure(err) /\ registered
  <2>1. p = [failures |-> 0, retry |-> TRUE]
    BY <1>2 DEF reconnectPolicy
  <2>2. p.failures = 0 /\ p.retry = TRUE
    BY <2>1
  <2>3. p.failures \in Nat /\ p.failures <= MaxFailures /\ p.failures < MaxFailures
    BY <1>0, <2>2
  <2>4. p.retry \in BOOLEAN
    BY <2>2, Zenon
  <2>5. p.failures = IF registered THEN 0 ELSE f + 1
    BY <1>2, <2>2, Zenon
  <2> QED BY <1>2, <2>3, <2>4, <2>5, Zenon
<1>3. CASE ~permanentSessionFailure(err) /\ ~registered
  <2>1. p = [failures |-> f + 1, retry |-> f + 1 < MaxFailures]
    BY <1>3, Zenon DEF reconnectPolicy
  <2>2. p.failures = f + 1
    BY <2>1
  <2>3. p.failures \in Nat /\ p.failures <= MaxFailures
    BY <1>0, <2>2
  <2>4. p.retry \in BOOLEAN
    BY <2>1
  <2>5. p.retry => f + 1 < MaxFailures
    <3> DEFINE b == f + 1 < MaxFailures
    <3>1. p = [failures |-> f + 1, retry |-> b]
      BY <2>1, Zenon
    <3> HIDE DEF b
    <3>2. p.retry = b
      BY <3>1
    <3>3. p.retry => b
      BY <3>2, Zenon
    <3> QED BY <3>3, Zenon DEF b
  <2>6. p.failures = IF registered THEN 0 ELSE f + 1
    BY <1>3, <2>2, Zenon
  <2> QED BY <1>3, <2>2, <2>3, <2>4, <2>5, <2>6, Zenon
<1> QED
  BY <1>1, <1>2, <1>3

LEMMA RedirectRefused ==
  ASSUME NEW s, RecordOK(s), s.pc = "decide", NEW e,
         NEW t, t = [s EXCEPT !.err = e]
  PROVE  RecordOK(t)
<1>1. RunTyped(t)
  BY DEF RecordOK, RunTyped, RunFields, StageNames
<1>2. CycleInOrder(t)
  BY EngineAssumption DEF RecordOK, RunTyped, RunFields, CycleInOrder, Connecting, Over
<1>3. StageInOrder(t)
  BY DEF RecordOK, RunTyped, RunFields, CycleInOrder, StageInOrder
<1>4. Counted(t)
  BY DEF RecordOK, RunTyped, RunFields, CycleInOrder, Counted, permanentSessionFailure, Connecting
<1> QED
  BY <1>1, <1>2, <1>3, <1>4 DEF RecordOK

LEMMA RedirectFollowed ==
  ASSUME NEW s, RecordOK(s), s.pc = "decide", ~(s.redirects >= MaxRedirects),
         NEW t, t = [s EXCEPT !.candidates = 1, !.candidate = 1, !.redirects = @ + 1]
  PROVE  RecordOK(t)
<1>1. RunTyped(t)
  <2>1. DOMAIN t = RunFields /\ t = [f \in RunFields |-> t[f]]
    BY DEF RecordOK, RunTyped, RunFields
  <2>2. /\ t.attempts = s.attempts /\ t.failures = s.failures /\ t.streak = s.streak
        /\ t.candidate = 1 /\ t.candidates = 1 /\ t.redirects = s.redirects + 1
        /\ t.stage = s.stage
    BY DEF RecordOK, RunTyped, RunFields
  <2>3. /\ s.attempts \in Nat /\ s.failures \in Nat /\ s.streak \in Nat
        /\ s.redirects + 1 \in Nat /\ s.stage \in StageNames
    BY DEF RecordOK, RunTyped
  <2>4. 1 \in Nat
    OBVIOUS
  <2> QED BY <2>1, <2>2, <2>3, <2>4 DEF RunTyped
<1>2. CycleInOrder(t)
  BY EngineAssumption DEF RecordOK, RunTyped, RunFields, CycleInOrder, Connecting, Over
<1>3. StageInOrder(t)
  BY DEF RecordOK, RunTyped, RunFields, CycleInOrder, StageInOrder
<1>4. Counted(t)
  <2>1. t.redirects <= MaxRedirects
    BY EngineAssumption DEF RecordOK, RunTyped, RunFields
  <2> QED BY <2>1 DEF RecordOK, RunTyped, RunFields, CycleInOrder, Counted, permanentSessionFailure, Connecting
<1> QED
  BY <1>1, <1>2, <1>3, <1>4 DEF RecordOK

LEMMA Decided ==
  ASSUME NEW s, RecordOK(s), s.pc = "decide", NEW err, NEW registered,
         NEW p, p = reconnectPolicy(s.failures, registered, err), NEW next \in BOOLEAN, NEW l,
         next => p.retry /\ s.candidate < s.candidates /\ s.stage \in {"transport", "ike_sa_init"},
         NEW t, t = [s EXCEPT !.pc = IF p.retry THEN "wait" ELSE "end", !.failures = p.failures,
                              !.candidate = IF next THEN @ + 1 ELSE @, !.err = err,
                              !.streak = IF registered THEN 0 ELSE @ + 1, !.lost = l, !.advanced = next]
  PROVE  RecordOK(t)
<1>0. /\ s.failures \in Nat /\ s.failures < MaxFailures /\ s.streak = s.failures
      /\ s.candidate \in 1..s.candidates /\ s.candidate \in Nat /\ s.candidates \in Nat
      /\ s.redirects \in Nat /\ s.attempts \in Nat /\ s.stage \in StageNames
      /\ (s.redirects > 0 => s.candidates = 1) /\ s.redirects <= MaxRedirects
  BY DEF RecordOK, RunTyped, Counted
<1>1. /\ p.failures \in Nat /\ p.failures <= MaxFailures /\ p.retry \in BOOLEAN
      /\ p.retry => /\ ~permanentSessionFailure(err) /\ p.failures < MaxFailures
                    /\ p.failures = IF registered THEN 0 ELSE s.failures + 1
  BY <1>0, PolicyBounds
<1>2. DOMAIN t = RunFields /\ t = [f \in RunFields |-> t[f]]
  BY ZenonT(40) DEF RecordOK, RunTyped, RunFields
<1>3. /\ t.pc = (IF p.retry THEN "wait" ELSE "end") /\ t.failures = p.failures
      /\ t.candidate = (IF next THEN s.candidate + 1 ELSE s.candidate) /\ t.err = err
      /\ t.streak = (IF registered THEN 0 ELSE s.streak + 1) /\ t.advanced = next
      /\ t.candidates = s.candidates /\ t.redirects = s.redirects /\ t.stage = s.stage
      /\ t.attempts = s.attempts /\ t.tunnel = s.tunnel /\ t.open = s.open /\ t.network = s.network
      /\ t.service = s.service /\ t.done = s.done
  BY DEF RecordOK, RunTyped, RunFields
<1>4. RunTyped(t)
  <2>1. t.candidate \in Nat /\ t.streak \in Nat
    BY <1>0, <1>3
  <2> QED BY <1>0, <1>1, <1>2, <1>3, <2>1 DEF RunTyped
<1>5. CycleInOrder(t)
  BY <1>3 DEF RecordOK, CycleInOrder, Connecting
<1>6. StageInOrder(t)
  BY <1>3 DEF StageInOrder
<1>7. Counted(t)
  <2>1. MaxFailures \in Nat
    BY EngineAssumption
  <2>2. /\ t.candidate \in 1..t.candidates /\ (t.redirects > 0 => t.candidates = 1)
        /\ t.redirects <= MaxRedirects
    BY <1>0, <1>3
  <2>3. t.failures <= MaxFailures /\ t.streak <= MaxFailures
    BY <1>0, <1>1, <1>3, <2>1
  <2>4. t.pc # "end" => t.failures < MaxFailures /\ t.streak = t.failures
    BY <1>0, <1>1, <1>3, <2>1
  <2>5. t.pc \in {"sim", "wait", "begin"} => ~permanentSessionFailure(t.err)
    BY <1>1, <1>3
  <2>6. t.advanced => t.pc \in {"wait", "begin", "end"} /\ t.stage \in {"transport", "ike_sa_init"} /\ t.redirects = 0
    BY <1>0, <1>3
  <2> QED BY <2>2, <2>3, <2>4, <2>5, <2>6 DEF Counted
<1> QED
  BY <1>4, <1>5, <1>6, <1>7 DEF RecordOK

\* A run that begins, one that is released, and one that is not yet born.
LEMMA RunFresh ==
  ASSUME NEW n \in Nat, NEW p \in {"unborn", "sim", "release"}, NEW b, NEW t,
         \/ t = NewRun(n) \/ t = [NewRun(n) EXCEPT !.pc = p]
         \/ t = [NewRun(n) EXCEPT !.pc = "release", !.stopped = b, !.tunnel = "off"]
  PROVE  RecordOK(t)
<1>0. t = NewRun(n) \/ t = [NewRun(n) EXCEPT !.pc = p]
      \/ t = [NewRun(n) EXCEPT !.pc = "release", !.stopped = b, !.tunnel = "off"]
  OBVIOUS
<1>1. /\ t.tunnel = "off" /\ t.open = FALSE /\ t.network = FALSE /\ t.service = None /\ t.done = FALSE
      /\ t.pc \in {"unborn", "sim", "release"} /\ t.candidate = 1 /\ t.candidates = Candidates
      /\ t.redirects = 0 /\ t.failures = 0 /\ t.streak = 0 /\ t.err = "none" /\ t.advanced = FALSE
      /\ t.attempts = n /\ t.stage = "transport"
  <2>1. CASE t = NewRun(n)
    BY <2>1 DEF NewRun
  <2>2. CASE t = [NewRun(n) EXCEPT !.pc = p]
    BY <2>2 DEF NewRun
  <2>3. CASE t = [NewRun(n) EXCEPT !.pc = "release", !.stopped = b, !.tunnel = "off"]
    BY <2>3 DEF NewRun
  <2> QED BY <1>0, <2>1, <2>2, <2>3
<1>2. DOMAIN t = RunFields /\ t = [f \in RunFields |-> t[f]]
  BY <1>0 DEF NewRun, RunFields
<1>3. RunTyped(t)
  BY <1>1, <1>2, EngineAssumption DEF RunTyped, StageNames
<1>4. CycleInOrder(t) /\ StageInOrder(t)
  BY <1>1 DEF CycleInOrder, StageInOrder
<1>5. Counted(t)
  BY <1>1, EngineAssumption DEF Counted, permanentSessionFailure
<1> QED
  BY <1>3, <1>4, <1>5 DEF RecordOK

-----------------------------------------------------------------------------
(* Steps of the current run; the others are over, and stay as they are *)

LEMMA CurrentStep ==
  ASSUME RunsOK, NEW r \in Runs, rs[r].pc \notin Over,
         NEW t, rs' = [rs EXCEPT ![r] = t], RecordOK(t), t.pc # "unborn",
         run' = IF t.pc \in Over THEN None ELSE run,
         t.pc = "ike" => phase' = "ike",
         t.pc \in Connecting \cup {"decide"} /\ ~t.stopped
           => ikeStage' = IF t.stage = "ready" THEN "ike_auth" ELSE t.stage,
         t.pc = "tick" /\ t.snapshot # None
           => /\ t.snapshot \in AudioRecord
              /\ t.snapshot.run = r /\ t.service # None /\ t.snapshot.service = t.service
  PROVE  /\ run = r /\ RunsOK' /\ Started' = Started
         /\ rs'[r] = t /\ \A q \in Runs \ {r} : rs'[q] = rs[q]
<1>1. run = r /\ None \notin Runs /\ DOMAIN rs = Runs /\ rs = [q \in Runs |-> rs[q]]
  BY EngineAssumption DEF RunsOK, Current, Runs
<1>2. /\ rs'[r] = t /\ \A q \in Runs \ {r} : rs'[q] = rs[q]
      /\ DOMAIN rs' = Runs /\ rs' = [q \in Runs |-> rs'[q]]
  BY <1>1
<1>3. Started' = Started
  BY <1>2 DEF Started, Over
<1>4. \A q \in Runs : RecordOK(rs'[q])
  BY <1>2 DEF RunsOK
<1>5. Current(r)' /\ SnapshotFresh(r)'
  BY <1>1, <1>2 DEF Current, SnapshotFresh, Over, Connecting
<1>6. ASSUME NEW q \in Runs \ {r}
      PROVE  Current(q)' /\ SnapshotFresh(q)'
  <2>1. rs[q].pc \in Over /\ rs'[q] = rs[q]
    BY <1>1, <1>2 DEF RunsOK, Current
  <2>2. run' # q
    BY <1>1
  <2> QED BY <2>1, <2>2 DEF Current, SnapshotFresh, Over, Connecting
<1>7. RunsOK'
  BY <1>2, <1>4, <1>5, <1>6 DEF RunsOK
<1> QED
  BY <1>1, <1>2, <1>3, <1>7

\* Audio that stays, or goes, follows its session if no published service is withdrawn.
LEMMA AudioKept ==
  ASSUME AudioOK, audio' \in {audio, None},
         \A q \in Runs : rs'[q].service = rs[q].service \/ rs[q].service = None
  PROVE  AudioOK'
<1>1. CASE audio' = None
  BY <1>1 DEF AudioOK, AudioFollowsSession
<1>2. CASE audio' = audio /\ audio # None
  <2>1. audio \in AudioRecord /\ audio.run \in Runs /\ audio.service \in Nat
    BY <1>2 DEF AudioOK, AudioRecord
  <2>2. audio.late \/ rs[audio.run].service = audio.service
    BY <1>2 DEF AudioOK, AudioFollowsSession
  <2>3. rs[audio.run].service = audio.service => rs'[audio.run].service = audio.service
    BY <2>1, EngineAssumption
  <2> QED BY <1>2, <2>1, <2>2, <2>3 DEF AudioOK, AudioFollowsSession
<1> QED
  BY <1>1, <1>2

\* What the waiting host threads know of a run stays true.
LEMMA HostsKept ==
  ASSUME HostsOK, hosts' = hosts, \A q \in Runs : rs[q].done => rs'[q].done
  PROVE  HostsOK'
<1>1. ASSUME NEW h \in Hosts \cup Commanders
      PROVE  HostOK(hosts'[h], rs')
  <2>1. HostOK(hosts[h], rs)
    BY DEF HostsOK
  <2> QED BY <2>1 DEF HostOK
<1> QED
  BY <1>1 DEF HostsOK

\* A step of the current run that touches no host thread, and of the audio at most takes it down.
LEMMA QuietStep ==
  ASSUME EngineInv, NEW r \in Runs, rs[r].pc \notin Over,
         NEW t, rs' = [rs EXCEPT ![r] = t], RecordOK(t), t.pc # "unborn",
         t.pc = "tick" => rs[r].pc = "tick" /\ t.snapshot = rs[r].snapshot /\ t.service = rs[r].service,
         run' = IF t.pc \in Over THEN None ELSE run,
         t.pc = "ike" => phase' = "ike",
         t.pc \in Connecting \cup {"decide"} /\ ~t.stopped
           => ikeStage' = IF t.stage = "ready" THEN "ike_auth" ELSE t.stage,
         audio' \in {audio, None}, t.service = rs[r].service \/ rs[r].service = None \/ audio' = None,
         hosts' = hosts, EngineTyped'
  PROVE  EngineInv'
<1>1. /\ run = r /\ RunsOK' /\ Started' = Started
      /\ rs'[r] = t /\ \A q \in Runs \ {r} : rs'[q] = rs[q]
  <2>1. SnapshotFresh(r) /\ RunsOK
    BY DEF EngineInv, RunsOK
  <2>2. t.pc = "tick" /\ t.snapshot # None
          => /\ t.snapshot \in AudioRecord
             /\ t.snapshot.run = r /\ t.service # None /\ t.snapshot.service = t.service
    BY <2>1 DEF SnapshotFresh
  <2> QED BY <2>1, <2>2, CurrentStep
<1>2. StartedInOrder'
  BY <1>1 DEF EngineInv, StartedInOrder
<1>3. AudioOK'
  <2>1. CASE audio' = None
    BY <2>1 DEF AudioOK, AudioFollowsSession
  <2>2. CASE audio' # None
    BY <1>1, <2>2, AudioKept DEF EngineInv
  <2> QED BY <2>1, <2>2
<1>4. HostsOK'
  <2>1. ~rs[r].done
    BY DEF EngineInv, RunsOK, RecordOK, CycleInOrder, Over
  <2>2. \A q \in Runs : rs[q].done => rs'[q].done
    BY <1>1, <2>1, Zenon
  <2> QED BY <2>2, HostsKept DEF EngineInv
<1> QED
  BY <1>1, <1>2, <1>3, <1>4 DEF EngineInv

LEMMA PhaseTyped ==
  ASSUME EngineTyped, run' \in Runs \cup {None}, ikeStage' = ikeStage \/ ikeStage' = "transport",
         NEW r \in Runs, NEW p \in {"sim", "ike", "ims", "ready", "failed"}, PhaseChanged(r, p)
  PROVE  EngineTyped'
<1>1. phase' \in {"idle", "sim", "ike", "ims", "ready", "failed", "stopped"}
  BY DEF EngineTyped, PhaseChanged
<1>2. \/ retrying' = retrying /\ terminal' = terminal
      \/ retrying' = FALSE /\ terminal' = FALSE
  BY DEF PhaseChanged
<1>3. retrying' \in BOOLEAN /\ terminal' \in BOOLEAN /\ ~(retrying' /\ terminal')
  <2>1. retrying \in BOOLEAN /\ terminal \in BOOLEAN /\ ~(retrying /\ terminal)
    BY Zenon DEF EngineTyped
  <2>2. CASE retrying' = retrying /\ terminal' = terminal
    BY <2>1, <2>2, Zenon
  <2>3. CASE retrying' = FALSE /\ terminal' = FALSE
    BY <2>3, Zenon
  <2> QED BY <1>2, <2>2, <2>3, Zenon
<1>4. ikeStage' \in {"", "transport", "ike_sa_init", "ike_auth"}
  BY DEF EngineTyped
<1> QED
  BY <1>1, <1>3, <1>4 DEF EngineTyped

LEMMA EngineSame ==
  ASSUME EngineTyped, UNCHANGED <<phase, retrying, terminal, ikeStage>>, run' \in Runs \cup {None}
  PROVE  EngineTyped'
BY DEF EngineTyped

-----------------------------------------------------------------------------
(* The steps of serve *)

\* What every step of the current run starts from.
LEMMA RunFacts ==
  ASSUME EngineInv, NEW r \in Runs
  PROVE  /\ RecordOK(rs[r]) /\ Current(r) /\ EngineTyped /\ rs = [q \in Runs |-> rs[q]]
         /\ run \in Runs \cup {None} /\ (rs[r].pc \notin Over => run = r)
BY DEF EngineInv, RunsOK, EngineTyped, Current

LEMMA ReadCardStep ==
  ASSUME EngineInv, NEW r \in Runs, ReadCard(r)
  PROVE  EngineInv'
<1>1. /\ RecordOK(rs[r]) /\ Current(r) /\ EngineTyped /\ rs = [q \in Runs |-> rs[q]]
      /\ run \in Runs \cup {None} /\ rs[r].pc = "sim" /\ rs[r].pc \notin Over
  BY RunFacts DEF ReadCard, Over
<1>2. PICK pc \in {"begin", "end"} :
        /\ rs' = [rs EXCEPT ![r].pc = pc]
        /\ PhaseChanged(r, IF pc = "begin" THEN "sim" ELSE "failed")
  BY DEF ReadCard, ServeGoes
<1> DEFINE t == [rs[r] EXCEPT !.pc = pc]
<1>3. rs' = [rs EXCEPT ![r] = t] /\ t.pc = pc /\ t.service = rs[r].service
  BY <1>1, <1>2 DEF RecordOK, RunTyped, RunFields
<1>4. RecordOK(t)
  BY <1>1, CardRead
<1>5. run' = run /\ ikeStage' = ikeStage /\ audio' = audio /\ hosts' = hosts
  BY DEF ReadCard
<1>6. EngineTyped'
  BY <1>1, <1>2, <1>5, PhaseTyped
<1> HIDE DEF t
<1> QED
  BY <1>1, <1>3, <1>4, <1>5, <1>6, QuietStep DEF Over, Connecting

LEMMA BeginStep ==
  ASSUME EngineInv, NEW r \in Runs, Begin(r)
  PROVE  EngineInv'
<1>1. /\ RecordOK(rs[r]) /\ Current(r) /\ EngineTyped /\ rs = [q \in Runs |-> rs[q]]
      /\ run \in Runs \cup {None} /\ rs[r].pc = "begin" /\ rs[r].pc \notin Over /\ run = r
  BY RunFacts DEF Begin, Over
<1> DEFINE t == [rs[r] EXCEPT !.pc = "ike", !.attempts = @ + 1, !.registered = FALSE, !.err = "none",
                              !.tunnel = "up", !.stage = "transport", !.result = "none", !.cancel = FALSE,
                              !.lost = FALSE, !.advanced = FALSE]
<1>2. rs' = [rs EXCEPT ![r].pc = "ike", ![r].attempts = @ + 1, ![r].registered = FALSE, ![r].err = "none",
                      ![r].tunnel = "up", ![r].stage = "transport", ![r].result = "none", ![r].cancel = FALSE,
                      ![r].lost = FALSE, ![r].advanced = FALSE]
  BY DEF Begin
<1>3. rs' = [rs EXCEPT ![r] = t]
  <2> DEFINE n == rs[r].attempts + 1
  <2>1. rs' = [rs EXCEPT ![r].pc = "ike", ![r].attempts = n, ![r].registered = FALSE, ![r].err = "none",
                         ![r].tunnel = "up", ![r].stage = "transport", ![r].result = "none", ![r].cancel = FALSE,
                         ![r].lost = FALSE, ![r].advanced = FALSE]
    BY <1>2
  <2>2. t = [rs[r] EXCEPT !.pc = "ike", !.attempts = n, !.registered = FALSE, !.err = "none",
                          !.tunnel = "up", !.stage = "transport", !.result = "none", !.cancel = FALSE,
                          !.lost = FALSE, !.advanced = FALSE]
    OBVIOUS
  <2> HIDE DEF n, t
  <2> QED BY ZenonT(40), <2>1, <2>2
<1>4. RecordOK(t)
  BY <1>1, CycleBegins
<1>5. t.pc = "ike" /\ t.stage = "transport" /\ t.service = rs[r].service
  BY <1>1 DEF RecordOK, RunTyped, RunFields
<1>6. run' = run /\ ikeStage' = "transport" /\ audio' = audio /\ hosts' = hosts /\ PhaseChanged(r, "ike")
  BY DEF Begin
<1>7. EngineTyped' /\ phase' = "ike"
  BY <1>1, <1>6, PhaseTyped DEF PhaseChanged
<1> HIDE DEF t
<1> QED
  BY <1>1, <1>3, <1>4, <1>5, <1>6, <1>7, QuietStep DEF Over, Connecting

\* The run goes to its end, or on to its next attempt, and nothing else changes.
LEMMA BeginCancelledStep ==
  ASSUME EngineInv, NEW r \in Runs, BeginCancelled(r) \/ DecideStopped(r) \/ WaitDelay(r)
  PROVE  EngineInv'
<1>1. /\ RecordOK(rs[r]) /\ Current(r) /\ EngineTyped /\ rs = [q \in Runs |-> rs[q]]
      /\ run \in Runs \cup {None} /\ rs[r].pc \in {"begin", "decide", "wait"} /\ rs[r].pc \notin Over
  BY RunFacts DEF BeginCancelled, DecideStopped, WaitDelay, Over
<1>2. PICK pc \in {"begin", "end"} : rs' = [rs EXCEPT ![r].pc = pc] /\ (pc = "begin" => rs[r].pc = "wait")
  BY DEF BeginCancelled, DecideStopped, WaitDelay, ServeGoes
<1> DEFINE t == [rs[r] EXCEPT !.pc = pc]
<1>3. rs' = [rs EXCEPT ![r] = t] /\ t.pc = pc /\ t.service = rs[r].service
  BY <1>1, <1>2 DEF RecordOK, RunTyped, RunFields
<1>4. RecordOK(t)
  BY <1>1, <1>2, RunGivesUp, DelayOver
<1>5. UNCHANGED <<engineVars, hosts>>
  BY DEF BeginCancelled, DecideStopped, WaitDelay
<1>6. EngineTyped'
  BY <1>1, <1>5, EngineSame DEF engineVars
<1> HIDE DEF t
<1> QED
  BY <1>1, <1>3, <1>4, <1>5, <1>6, QuietStep DEF Over, Connecting, engineVars

\* connectCycle returns, from wherever it waited.
LEMMA CycleEndsStep ==
  ASSUME EngineInv, NEW r \in Runs, rs[r].pc \in {"ike", "path", "ims", "ready"}, NEW e, CycleEnds(r, e),
         UNCHANGED <<engineVars, hosts>>
  PROVE  EngineInv'
<1>1. /\ RecordOK(rs[r]) /\ Current(r) /\ EngineTyped /\ rs = [q \in Runs |-> rs[q]]
      /\ run \in Runs \cup {None} /\ rs[r].pc \in Connecting /\ rs[r].pc \notin Over
  BY RunFacts DEF Over, Connecting
<1> DEFINE t == [rs[r] EXCEPT !.pc = IF rs[r].open THEN "unpublish" ELSE "drain", !.err = e, !.cancel = TRUE,
                              !.network = rs[r].open, !.result = "none"]
<1>2. rs' = [rs EXCEPT ![r] = t]
  BY <1>1 DEF CycleEnds
<1>3. RecordOK(t)
  BY <1>1, CycleOver
<1>4. /\ t.pc \in {"unpublish", "drain"} /\ t.service = rs[r].service
      /\ t.stage = rs[r].stage /\ t.stopped = rs[r].stopped
  BY <1>1 DEF RecordOK, RunTyped, RunFields
<1>5. EngineTyped'
  BY <1>1, EngineSame DEF engineVars
<1>6. run' = run /\ ikeStage' = ikeStage /\ audio' = audio /\ hosts' = hosts
  BY DEF engineVars
<1> HIDE DEF t
<1>7. ~t.stopped => ikeStage' = IF t.stage = "ready" THEN "ike_auth" ELSE t.stage
  BY <1>1, <1>4, <1>6 DEF Current
<1> QED
  BY <1>1, <1>2, <1>3, <1>4, <1>5, <1>6, <1>7, QuietStep DEF Over

LEMMA AwaitTunnelStep ==
  ASSUME EngineInv, NEW r \in Runs, AwaitTunnel(r)
  PROVE  EngineInv'
<1>1. /\ RecordOK(rs[r]) /\ Current(r) /\ EngineTyped /\ rs = [q \in Runs |-> rs[q]]
      /\ run \in Runs \cup {None} /\ rs[r].pc = "ike" /\ rs[r].pc \notin Over
  BY RunFacts DEF AwaitTunnel, Over
<1>2. UNCHANGED <<engineVars, hosts>>
  BY DEF AwaitTunnel
<1>3. CASE \E e : CycleEnds(r, e)
  BY <1>1, <1>2, <1>3, CycleEndsStep
<1>4. CASE rs[r].stage = "ready" /\ ServeGoes(r, "path")
  <2> DEFINE t == [rs[r] EXCEPT !.pc = "path"]
  <2>1. rs' = [rs EXCEPT ![r] = t]
    BY <1>1, <1>4 DEF ServeGoes
  <2>2. RecordOK(t)
    BY <1>1, <1>4, TunnelReady
  <2>3. t.pc = "path" /\ t.service = rs[r].service /\ t.stage = rs[r].stage /\ t.stopped = rs[r].stopped
    BY <1>1 DEF RecordOK, RunTyped, RunFields
  <2>4. EngineTyped'
    BY <1>1, <1>2, EngineSame DEF engineVars
  <2> HIDE DEF t
  <2>5. ~t.stopped => ikeStage' = IF t.stage = "ready" THEN "ike_auth" ELSE t.stage
    BY <1>1, <1>2, <2>3 DEF Current, Connecting, engineVars
  <2> QED
    BY <1>1, <1>2, <2>1, <2>2, <2>3, <2>4, <2>5, QuietStep DEF Over, Connecting, engineVars
<1> QED
  BY <1>3, <1>4 DEF AwaitTunnel

LEMMA SelectPathStep ==
  ASSUME EngineInv, NEW r \in Runs, SelectPath(r)
  PROVE  EngineInv'
<1>1. /\ RecordOK(rs[r]) /\ Current(r) /\ EngineTyped /\ rs = [q \in Runs |-> rs[q]]
      /\ run \in Runs \cup {None} /\ rs[r].pc = "path" /\ rs[r].pc \notin Over
  BY RunFacts DEF SelectPath, Over
<1>2. UNCHANGED <<run, ikeStage, audio, hosts>>
  BY DEF SelectPath
<1>3. CASE CycleEnds(r, "transient") /\ samePhase
  BY <1>1, <1>2, <1>3, CycleEndsStep DEF samePhase, engineVars
<1>4. CASE rs' = [rs EXCEPT ![r].pc = "ims", ![r].network = TRUE] /\ PhaseChanged(r, "ims")
  <2> DEFINE t == [rs[r] EXCEPT !.pc = "ims", !.network = TRUE]
  <2>1. rs' = [rs EXCEPT ![r] = t]
    BY <1>1, <1>4
  <2>2. RecordOK(t)
    BY <1>1, NetworkUp
  <2>3. t.pc = "ims" /\ t.service = rs[r].service /\ t.stage = rs[r].stage /\ t.stopped = rs[r].stopped
    BY <1>1 DEF RecordOK, RunTyped, RunFields
  <2>4. EngineTyped'
    BY <1>1, <1>2, <1>4, PhaseTyped
  <2> HIDE DEF t
  <2>5. ~t.stopped => ikeStage' = IF t.stage = "ready" THEN "ike_auth" ELSE t.stage
    BY <1>1, <1>2, <2>3 DEF Current, Connecting
  <2> QED
    BY <1>1, <1>2, <2>1, <2>2, <2>3, <2>4, <2>5, QuietStep DEF Over, Connecting
<1> QED
  BY <1>3, <1>4 DEF SelectPath

\* A service is published under the number of its attempt, and only where none was.
LEMMA StartIMSStep ==
  ASSUME EngineInv, NEW r \in Runs, StartIMS(r)
  PROVE  EngineInv'
<1>1. /\ RecordOK(rs[r]) /\ Current(r) /\ EngineTyped /\ rs = [q \in Runs |-> rs[q]]
      /\ run \in Runs \cup {None} /\ rs[r].pc = "ims" /\ rs[r].pc \notin Over
  BY RunFacts DEF StartIMS, Over
<1>2. UNCHANGED <<run, ikeStage, audio, hosts>>
  BY DEF StartIMS
<1>3. CASE \E e : CycleEnds(r, e) /\ samePhase
  BY <1>1, <1>2, <1>3, CycleEndsStep DEF samePhase, engineVars
<1>4. CASE /\ rs' = [rs EXCEPT ![r].pc = "ready", ![r].open = TRUE, ![r].registered = TRUE,
                               ![r].service = IF Cancelled(r) THEN None ELSE rs[r].attempts]
           /\ PhaseChanged(r, "ready")
  <2>1. PICK v \in {None, rs[r].attempts} :
          rs' = [rs EXCEPT ![r].pc = "ready", ![r].open = TRUE, ![r].registered = TRUE, ![r].service = v]
    BY <1>4, Zenon
  <2> DEFINE t == [rs[r] EXCEPT !.pc = "ready", !.open = TRUE, !.registered = TRUE, !.service = v]
  <2>2. rs' = [rs EXCEPT ![r] = t]
    BY <1>1, <2>1
  <2>3. RecordOK(t)
    BY <1>1, SessionUp
  <2>4. t.pc = "ready" /\ t.stage = rs[r].stage /\ t.stopped = rs[r].stopped
    BY <1>1 DEF RecordOK, RunTyped, RunFields
  <2>5. EngineTyped'
    BY <1>1, <1>2, <1>4, PhaseTyped
  <2>6. rs[r].service = None
    BY <1>1 DEF RecordOK, CycleInOrder
  <2> HIDE DEF t
  <2>7. ~t.stopped => ikeStage' = IF t.stage = "ready" THEN "ike_auth" ELSE t.stage
    BY <1>1, <1>2, <2>4 DEF Current, Connecting
  <2> QED
    BY <1>1, <1>2, <2>2, <2>3, <2>4, <2>5, <2>6, <2>7, QuietStep DEF Over, Connecting
<1> QED
  BY <1>3, <1>4 DEF StartIMS

LEMMA SessionEndsStep ==
  ASSUME EngineInv, NEW r \in Runs, SessionEnds(r)
  PROVE  EngineInv'
<1>1. rs[r].pc = "ready" /\ UNCHANGED <<engineVars, hosts>> /\ \E e : CycleEnds(r, e)
  BY DEF SessionEnds
<1> QED
  BY <1>1, CycleEndsStep

\* The ticker reads the audio of the call of its own session, under the number of its service.
LEMMA TickReadsStep ==
  ASSUME EngineInv, NEW r \in Runs, TickReads(r)
  PROVE  EngineInv'
<1>1. /\ RecordOK(rs[r]) /\ Current(r) /\ EngineTyped /\ rs = [q \in Runs |-> rs[q]]
      /\ run \in Runs \cup {None} /\ rs[r].pc = "ready" /\ rs[r].pc \notin Over /\ run = r
  BY RunFacts DEF TickReads, Over
<1>2. UNCHANGED <<engineVars, hosts>>
  BY DEF TickReads
<1>3. PICK a \in IF rs[r].service = None THEN {None} ELSE AudioOf(r, rs[r].attempts) :
        rs' = [rs EXCEPT ![r].pc = "tick", ![r].snapshot = a]
  BY DEF TickReads
<1> DEFINE t == [rs[r] EXCEPT !.pc = "tick", !.snapshot = a]
<1>4. rs' = [rs EXCEPT ![r] = t]
  BY <1>1, <1>3
<1>5. RecordOK(t)
  BY <1>1, TickBegins
<1>6. /\ t.pc = "tick" /\ t.snapshot = a /\ t.service = rs[r].service
      /\ t.stage = rs[r].stage /\ t.stopped = rs[r].stopped
  BY <1>1 DEF RecordOK, RunTyped, RunFields
<1>7. a # None => a \in AudioRecord /\ a.run = r /\ rs[r].service # None /\ a.service = rs[r].service
  <2>1. rs[r].attempts \in Nat /\ (rs[r].service # None => rs[r].service = rs[r].attempts)
    BY <1>1 DEF RecordOK, RunTyped, CycleInOrder
  <2>2. a # None => rs[r].service # None /\ a = [run |-> r, service |-> rs[r].attempts, late |-> FALSE]
    BY <1>3 DEF AudioOf
  <2>3. CASE a # None
    <3>1. a = [run |-> r, service |-> rs[r].attempts, late |-> FALSE]
      BY <2>2, <2>3
    <3>2. a \in AudioRecord /\ a.run = r /\ a.service = rs[r].attempts
      BY <2>1, <3>1 DEF AudioRecord
    <3> QED BY <2>1, <2>2, <2>3, <3>2
  <2> QED BY <2>3
<1> HIDE DEF t
<1>8. ~t.stopped => ikeStage' = IF t.stage = "ready" THEN "ike_auth" ELSE t.stage
  BY <1>1, <1>2, <1>6 DEF Current, Connecting, engineVars
<1>9. run' = run /\ audio' = audio /\ hosts' = hosts
  BY <1>2 DEF engineVars
<1>10. RunsOK' /\ Started' = Started /\ rs'[r] = t /\ \A q \in Runs \ {r} : rs'[q] = rs[q]
  BY <1>1, <1>4, <1>5, <1>6, <1>7, <1>8, <1>9, CurrentStep DEF Over, EngineInv
<1>11. StartedInOrder'
  BY <1>10 DEF EngineInv, StartedInOrder
<1>12. AudioOK'
  BY <1>6, <1>9, <1>10, AudioKept DEF EngineInv
<1>13. HostsOK'
  <2>1. ~rs[r].done
    BY <1>1 DEF RecordOK, CycleInOrder
  <2>2. \A q \in Runs : rs[q].done => rs'[q].done
    BY <1>10, <2>1, Zenon
  <2> QED BY <1>9, <2>2, HostsKept DEF EngineInv
<1>14. EngineTyped'
  BY <1>1, <1>2, EngineSame DEF engineVars
<1> QED
  BY <1>10, <1>11, <1>12, <1>13, <1>14 DEF EngineInv

\* What the ticker applies is still of the session that it read it from.
LEMMA TickSyncsStep ==
  ASSUME EngineInv, NEW r \in Runs, TickSyncs(r)
  PROVE  EngineInv'
<1>1. /\ RecordOK(rs[r]) /\ Current(r) /\ EngineTyped /\ rs = [q \in Runs |-> rs[q]]
      /\ run \in Runs \cup {None} /\ rs[r].pc = "tick" /\ rs[r].pc \notin Over /\ run = r
  BY RunFacts DEF TickSyncs, Over
<1>2. UNCHANGED <<run, phase, retrying, terminal, ikeStage, hosts>> /\ audio' = rs[r].snapshot
  BY DEF TickSyncs
<1> DEFINE t == [rs[r] EXCEPT !.pc = "ready", !.snapshot = None]
<1>3. rs' = [rs EXCEPT ![r] = t]
  BY <1>1 DEF TickSyncs
<1>4. RecordOK(t)
  BY <1>1, TickOver
<1>5. t.pc = "ready" /\ t.service = rs[r].service /\ t.stage = rs[r].stage /\ t.stopped = rs[r].stopped
  BY <1>1 DEF RecordOK, RunTyped, RunFields
<1> HIDE DEF t
<1>6. ~t.stopped => ikeStage' = IF t.stage = "ready" THEN "ike_auth" ELSE t.stage
  BY <1>1, <1>2, <1>5 DEF Current, Connecting
<1>7. RunsOK' /\ Started' = Started /\ rs'[r] = t /\ \A q \in Runs \ {r} : rs'[q] = rs[q]
  BY <1>1, <1>2, <1>3, <1>4, <1>5, <1>6, CurrentStep DEF Over, EngineInv
<1>8. StartedInOrder'
  BY <1>7 DEF EngineInv, StartedInOrder
<1>9. AudioOK'
  <2>1. SnapshotFresh(r)
    BY DEF EngineInv, RunsOK
  <2>2. audio' # None => audio' \in AudioRecord /\ audio'.run = r /\ rs'[r].service = audio'.service
    BY <1>1, <1>2, <1>5, <1>7, <2>1 DEF SnapshotFresh
  <2> QED BY <2>2 DEF AudioOK, AudioFollowsSession
<1>10. HostsOK'
  <2>1. ~rs[r].done
    BY <1>1 DEF RecordOK, CycleInOrder
  <2>2. \A q \in Runs : rs[q].done => rs'[q].done
    BY <1>7, <2>1, Zenon
  <2> QED BY <1>2, <2>2, HostsKept DEF EngineInv
<1>11. EngineTyped'
  BY <1>1, <1>2, EngineSame
<1> QED
  BY <1>7, <1>8, <1>9, <1>10, <1>11 DEF EngineInv

\* The audio goes with the service that is withdrawn.
LEMMA UnpublishStep ==
  ASSUME EngineInv, NEW r \in Runs, Unpublish(r)
  PROVE  EngineInv'
<1>1. /\ RecordOK(rs[r]) /\ Current(r) /\ EngineTyped /\ rs = [q \in Runs |-> rs[q]]
      /\ run \in Runs \cup {None} /\ rs[r].pc = "unpublish" /\ rs[r].pc \notin Over /\ run = r
  BY RunFacts DEF Unpublish, Over
<1>2. /\ UNCHANGED <<run, phase, retrying, terminal, ikeStage, hosts>>
      /\ audio' = IF rs[r].service # None THEN None ELSE audio
  BY DEF Unpublish
<1> DEFINE t == [rs[r] EXCEPT !.pc = "close", !.service = None]
<1>3. rs' = [rs EXCEPT ![r] = t]
  BY <1>1 DEF Unpublish
<1>4. RecordOK(t)
  BY <1>1, Unpublished
<1>5. t.pc = "close" /\ t.stage = rs[r].stage /\ t.stopped = rs[r].stopped
  BY <1>1 DEF RecordOK, RunTyped, RunFields
<1> HIDE DEF t
<1>6. ~t.stopped => ikeStage' = IF t.stage = "ready" THEN "ike_auth" ELSE t.stage
  BY <1>1, <1>2, <1>5 DEF Current, Connecting
<1>7. EngineTyped'
  BY <1>1, <1>2, EngineSame
<1>8. audio' \in {audio, None} /\ (rs[r].service = None \/ audio' = None)
  BY <1>2
<1> QED
  BY <1>1, <1>2, <1>3, <1>4, <1>5, <1>6, <1>7, <1>8, QuietStep DEF Over

LEMMA CloseServiceStep ==
  ASSUME EngineInv, NEW r \in Runs, CloseService(r)
  PROVE  EngineInv'
<1>1. /\ RecordOK(rs[r]) /\ Current(r) /\ EngineTyped /\ rs = [q \in Runs |-> rs[q]]
      /\ run \in Runs \cup {None} /\ rs[r].pc = "close" /\ rs[r].pc \notin Over
  BY RunFacts DEF CloseService, Over
<1>2. UNCHANGED <<engineVars, hosts>>
  BY DEF CloseService
<1> DEFINE t == [rs[r] EXCEPT !.pc = "drain", !.open = FALSE, !.network = FALSE]
<1>3. rs' = [rs EXCEPT ![r] = t]
  BY <1>1 DEF CloseService
<1>4. RecordOK(t)
  BY <1>1, Closed
<1>5. t.pc = "drain" /\ t.service = rs[r].service /\ t.stage = rs[r].stage /\ t.stopped = rs[r].stopped
  BY <1>1 DEF RecordOK, RunTyped, RunFields
<1> HIDE DEF t
<1>6. ~t.stopped => ikeStage' = IF t.stage = "ready" THEN "ike_auth" ELSE t.stage
  BY <1>1, <1>2, <1>5 DEF Current, Connecting, engineVars
<1>7. EngineTyped'
  BY <1>1, <1>2, EngineSame DEF engineVars
<1> QED
  BY <1>1, <1>2, <1>3, <1>4, <1>5, <1>6, <1>7, QuietStep DEF Over, engineVars

LEMMA DrainStep ==
  ASSUME EngineInv, NEW r \in Runs, Drain(r)
  PROVE  EngineInv'
<1>1. /\ RecordOK(rs[r]) /\ Current(r) /\ EngineTyped /\ rs = [q \in Runs |-> rs[q]]
      /\ run \in Runs \cup {None} /\ rs[r].pc = "drain" /\ rs[r].tunnel = "off" /\ rs[r].pc \notin Over
  BY RunFacts DEF Drain, Over
<1>2. UNCHANGED <<engineVars, hosts>>
  BY DEF Drain
<1> DEFINE t == [rs[r] EXCEPT !.pc = "decide"]
<1>3. rs' = [rs EXCEPT ![r] = t]
  BY <1>1 DEF Drain, ServeGoes
<1>4. RecordOK(t)
  BY <1>1, Drained
<1>5. t.pc = "decide" /\ t.service = rs[r].service /\ t.stage = rs[r].stage /\ t.stopped = rs[r].stopped
  BY <1>1 DEF RecordOK, RunTyped, RunFields
<1> HIDE DEF t
<1>6. ~t.stopped => ikeStage' = IF t.stage = "ready" THEN "ike_auth" ELSE t.stage
  BY <1>1, <1>2, <1>5 DEF Current, Connecting, engineVars
<1>7. EngineTyped'
  BY <1>1, <1>2, EngineSame DEF engineVars
<1> QED
  BY <1>1, <1>2, <1>3, <1>4, <1>5, <1>6, <1>7, QuietStep DEF Over, engineVars

\* A redirect that is refused is a permanent failure, one that is followed leaves one gateway.
LEMMA RedirectedRecord ==
  ASSUME NEW s, RecordOK(s), s.pc = "decide", NEW refused,
         NEW t, t = IF refused /\ s.err = "redirect" THEN [s EXCEPT !.err = "permanent"] ELSE Redirected(s)
  PROVE  /\ RecordOK(t) /\ t.pc = "decide" /\ t.stage = s.stage /\ t.stopped = s.stopped
         /\ t.service = s.service
<1>1. CASE t = [s EXCEPT !.err = "permanent"]
  <2>1. RecordOK(t)
    BY <1>1, RedirectRefused
  <2> QED BY <1>1, <2>1 DEF RecordOK, RunTyped, RunFields
<1>2. CASE ~(s.redirects >= MaxRedirects) /\ t = [s EXCEPT !.candidates = 1, !.candidate = 1, !.redirects = @ + 1]
  <2>1. RecordOK(t)
    BY <1>2, RedirectFollowed
  <2> QED BY <1>2, <2>1 DEF RecordOK, RunTyped, RunFields
<1>3. CASE t = s
  BY <1>3
<1> QED
  BY <1>1, <1>2, <1>3, Zenon DEF Redirected

\* The policy; the next gateway is tried only before authentication, which ikeStage shows.
LEMMA DecideStep ==
  ASSUME EngineInv, NEW r \in Runs, Decide(r)
  PROVE  EngineInv'
<1>1. /\ RecordOK(rs[r]) /\ Current(r) /\ EngineTyped /\ rs = [q \in Runs |-> rs[q]]
      /\ run \in Runs \cup {None} /\ rs[r].pc = "decide" /\ ~rs[r].stopped /\ rs[r].pc \notin Over
  BY RunFacts DEF Decide, Over
<1>2. UNCHANGED <<run, ikeStage, audio, hosts>>
  BY DEF Decide
<1>3. PICK refused \in BOOLEAN :
        LET s == IF refused /\ rs[r].err = "redirect" THEN [rs[r] EXCEPT !.err = "permanent"] ELSE Redirected(rs[r])
            err == classifyCycleFailure(s.stopped, s.err)
            policy == reconnectPolicy(s.failures, s.registered, err)
            next == policy.retry /\ canAdvanceEPDGCandidate(ikeStage, err) /\ s.candidate < s.candidates
        IN  /\ rs' = [rs EXCEPT ![r] = [s EXCEPT
                        !.pc = IF policy.retry THEN "wait" ELSE "end", !.failures = policy.failures,
                        !.candidate = IF next THEN @ + 1 ELSE @, !.err = err,
                        !.streak = IF s.registered THEN 0 ELSE @ + 1,
                        !.lost = s.registered /\ rs[r].err \notin {"permanent", "redirect"},
                        !.advanced = next]]
            /\ phase' = "failed" /\ retrying' = policy.retry /\ terminal' = ~policy.retry
  BY Zenon DEF Decide
<1> DEFINE s == IF refused /\ rs[r].err = "redirect" THEN [rs[r] EXCEPT !.err = "permanent"] ELSE Redirected(rs[r])
           err == classifyCycleFailure(s.stopped, s.err)
           policy == reconnectPolicy(s.failures, s.registered, err)
           next == policy.retry /\ canAdvanceEPDGCandidate(ikeStage, err) /\ s.candidate < s.candidates
           l == s.registered /\ rs[r].err \notin {"permanent", "redirect"}
           t == [s EXCEPT !.pc = IF policy.retry THEN "wait" ELSE "end", !.failures = policy.failures,
                          !.candidate = IF next THEN @ + 1 ELSE @, !.err = err,
                          !.streak = IF s.registered THEN 0 ELSE @ + 1, !.lost = l, !.advanced = next]
<1>4. rs' = [rs EXCEPT ![r] = t]
  BY <1>3, Zenon
<1>5. phase' = "failed" /\ retrying' = policy.retry /\ terminal' = ~policy.retry
  BY <1>3, Zenon
<1>6. /\ RecordOK(s) /\ s.pc = "decide" /\ s.stage = rs[r].stage /\ s.stopped = rs[r].stopped
      /\ s.service = rs[r].service
  <2>1. s = IF refused /\ rs[r].err = "redirect" THEN [rs[r] EXCEPT !.err = "permanent"] ELSE Redirected(rs[r])
    BY Zenon
  <2> HIDE DEF s
  <2> QED BY <1>1, <2>1, RedirectedRecord
<1>7. next \in BOOLEAN
  BY Zenon
<1>8. next => policy.retry /\ s.candidate < s.candidates /\ ikeStage \in {"transport", "ike_sa_init"}
  BY Zenon DEF canAdvanceEPDGCandidate
<1>9. policy = reconnectPolicy(s.failures, s.registered, err)
  BY Zenon
<1>10. t = [s EXCEPT !.pc = IF policy.retry THEN "wait" ELSE "end", !.failures = policy.failures,
                     !.candidate = IF next THEN @ + 1 ELSE @, !.err = err,
                     !.streak = IF s.registered THEN 0 ELSE @ + 1, !.lost = l, !.advanced = next]
  BY Zenon
<1> HIDE DEF s, err, policy, next, l, t
<1>11. s.failures \in Nat /\ s.failures < MaxFailures
  BY <1>6 DEF RecordOK, RunTyped, Counted
<1>12. policy.retry \in BOOLEAN
  BY <1>9, <1>11, PolicyBounds
<1>13. next => s.stage \in {"transport", "ike_sa_init"}
  BY <1>1, <1>6, <1>8 DEF Current, RecordOK, RunTyped, StageNames
<1>14. RecordOK(t)
  BY <1>6, <1>7, <1>8, <1>9, <1>10, <1>13, Decided, ZenonT(60)
<1>15. t.pc \in {"wait", "end"} /\ t.service = rs[r].service
  BY <1>6, <1>10 DEF RecordOK, RunTyped, RunFields
<1>16. EngineTyped'
  <2>1. retrying' \in BOOLEAN /\ terminal' \in BOOLEAN /\ ~(retrying' /\ terminal')
    BY <1>5, <1>12, Zenon
  <2> QED BY <1>1, <1>2, <1>5, <2>1 DEF EngineTyped
<1> QED
  BY <1>1, <1>2, <1>4, <1>14, <1>15, <1>16, QuietStep DEF Over, Connecting

\* The deferred function of serve forgets everything of the run but its number of attempts.
LEMMA ServeEndsStep ==
  ASSUME EngineInv, NEW r \in Runs, ServeEnds(r)
  PROVE  EngineInv'
<1>1. /\ RecordOK(rs[r]) /\ Current(r) /\ EngineTyped /\ rs = [q \in Runs |-> rs[q]]
      /\ run \in Runs \cup {None} /\ rs[r].pc = "end" /\ rs[r].pc \notin Over /\ run = r
  BY RunFacts DEF ServeEnds, Over
<1>2. /\ run' = None /\ audio' = None /\ phase' \in {phase, "stopped"} /\ retrying' = FALSE
      /\ terminal' = (phase' = "failed") /\ ikeStage' = ikeStage /\ hosts' = hosts
  BY <1>1 DEF ServeEnds
<1> DEFINE t == [NewRun(rs[r].attempts) EXCEPT !.pc = "release", !.stopped = rs[r].stopped, !.tunnel = rs[r].tunnel]
<1>3. rs' = [rs EXCEPT ![r] = t]
  BY DEF ServeEnds
<1>4. rs[r].tunnel = "off" /\ rs[r].attempts \in Nat
  BY <1>1 DEF RecordOK, RunTyped, CycleInOrder, Connecting
<1>5. t = [NewRun(rs[r].attempts) EXCEPT !.pc = "release", !.stopped = rs[r].stopped, !.tunnel = "off"]
  BY <1>4
<1>6. t.pc = "release"
  BY DEF NewRun
<1> HIDE DEF t
<1>7. RecordOK(t)
  <2>1. "sim" \in {"unborn", "sim", "release"}
    OBVIOUS
  <2> QED BY <1>4, <1>5, <2>1, RunFresh, ZenonT(60)
<1>8. EngineTyped'
  <2>1. retrying' \in BOOLEAN /\ terminal' \in BOOLEAN /\ ~(retrying' /\ terminal')
    BY <1>2, Zenon
  <2> QED BY <1>1, <1>2, <2>1 DEF EngineTyped
<1> QED
  BY <1>1, <1>2, <1>3, <1>6, <1>7, <1>8, QuietStep DEF Over, Connecting

\* close(run.done): by now another run may be the current one.
LEMMA ServeDoneStep ==
  ASSUME EngineInv, NEW r \in Runs, ServeDone(r)
  PROVE  EngineInv'
<1>1. /\ RecordOK(rs[r]) /\ Current(r) /\ EngineTyped /\ rs = [q \in Runs |-> rs[q]] /\ DOMAIN rs = Runs
      /\ run \in Runs \cup {None} /\ rs[r].pc = "release"
  BY RunFacts DEF ServeDone, EngineInv, RunsOK
<1>2. UNCHANGED <<engineVars, hosts>>
  BY DEF ServeDone
<1> DEFINE t == [rs[r] EXCEPT !.pc = "done", !.done = TRUE]
<1>3. rs' = [rs EXCEPT ![r] = t]
  BY <1>1 DEF ServeDone
<1>4. RecordOK(t)
  BY <1>1, RunReleased
<1>5. t.pc = "done" /\ t.service = rs[r].service /\ t.done = TRUE
  BY <1>1 DEF RecordOK, RunTyped, RunFields
<1> HIDE DEF t
<1>6. /\ rs'[r] = t /\ \A q \in Runs \ {r} : rs'[q] = rs[q]
      /\ DOMAIN rs' = Runs /\ rs' = [q \in Runs |-> rs'[q]]
  BY <1>1, <1>3
<1>7. RunsOK'
  <2>1. \A q \in Runs : RecordOK(rs'[q])
    BY <1>4, <1>6 DEF EngineInv, RunsOK
  <2>2. Current(r)' /\ SnapshotFresh(r)'
    BY <1>1, <1>2, <1>5, <1>6 DEF Current, SnapshotFresh, Over, Connecting, engineVars
  <2>3. ASSUME NEW q \in Runs \ {r}
        PROVE  Current(q)' /\ SnapshotFresh(q)'
    <3>1. rs'[q] = rs[q] /\ Current(q) /\ SnapshotFresh(q)
      BY <1>6 DEF EngineInv, RunsOK
    <3> QED BY <1>2, <3>1 DEF Current, SnapshotFresh, engineVars
  <2> QED BY <1>6, <2>1, <2>2, <2>3 DEF RunsOK
<1>8. StartedInOrder'
  <2>1. Started' = Started
    BY <1>1, <1>5, <1>6 DEF Started
  <2> QED BY <2>1 DEF EngineInv, StartedInOrder
<1>9. AudioOK'
  BY <1>2, <1>5, <1>6, AudioKept DEF EngineInv, engineVars
<1>10. HostsOK'
  <2>1. t.done
    BY <1>5, Zenon
  <2>2. \A q \in Runs : rs[q].done => rs'[q].done
    BY <1>6, <2>1, Zenon
  <2> QED BY <1>2, <2>2, HostsKept DEF EngineInv
<1>11. EngineTyped'
  BY <1>1, <1>2, EngineSame DEF engineVars
<1> QED
  BY <1>7, <1>8, <1>9, <1>10, <1>11 DEF EngineInv

-----------------------------------------------------------------------------
(* The steps of the tunnel *)

\* The stage that follows another one.
LEMMA NextStage ==
  ASSUME NEW g \in StageNames, g # "ready", NEW i, i = CHOOSE j \in DOMAIN Stages : Stages[j] = g
  PROVE  Stages[i + 1] \in StageNames \ {"transport"} /\ (Stages[i + 1] = "ready" <=> g = "ike_auth")
<1>1. DOMAIN Stages = 1..4
  BY DEF Stages
<1>2. \E j \in DOMAIN Stages : Stages[j] = g
  <2>1. 1 \in 1..4 /\ 2 \in 1..4 /\ 3 \in 1..4
    OBVIOUS
  <2>2. Stages[1] = "transport" /\ Stages[2] = "ike_sa_init" /\ Stages[3] = "ike_auth"
    BY DEF Stages
  <2> QED BY <1>1, <2>1, <2>2 DEF StageNames
<1>3. i \in 1..4 /\ Stages[i] = g
  BY <1>1, <1>2
<1> QED
  BY <1>3 DEF Stages, StageNames

\* Progress is reported while the run waits for the tunnel.
LEMMA TunnelProgressStep ==
  ASSUME EngineInv, NEW r \in Runs, TunnelProgress(r)
  PROVE  EngineInv'
<1>1. /\ RecordOK(rs[r]) /\ Current(r) /\ EngineTyped /\ rs = [q \in Runs |-> rs[q]]
      /\ run \in Runs \cup {None} /\ rs[r].tunnel = "up" /\ rs[r].stage # "ready" /\ ~rs[r].cancel
  BY RunFacts DEF TunnelProgress
<1>2. UNCHANGED <<run, phase, retrying, terminal, audio, hosts>>
  BY DEF TunnelProgress
<1>3. rs[r].pc = "ike" /\ rs[r].stage \in StageNames
  BY <1>1 DEF RecordOK, RunTyped, CycleInOrder, StageInOrder, Connecting
<1>4. run = r /\ phase = "ike" /\ rs[r].pc \notin Over
  BY <1>1, <1>3 DEF Current, Over
<1>5. PICK g \in StageNames \ {"transport"} :
        /\ g = "ready" <=> rs[r].stage = "ike_auth"
        /\ rs' = [rs EXCEPT ![r].stage = g]
        /\ ikeStage' = IF ~Cancelled(r) /\ run = r /\ phase = "ike" /\ g # "ready" THEN g ELSE ikeStage
  <2> DEFINE i == CHOOSE j \in DOMAIN Stages : Stages[j] = rs[r].stage
  <2>1. /\ rs' = [rs EXCEPT ![r].stage = Stages[i + 1]]
        /\ ikeStage' = IF ~Cancelled(r) /\ run = r /\ phase = "ike" /\ Stages[i + 1] # "ready"
                         THEN Stages[i + 1] ELSE ikeStage
    BY Zenon DEF TunnelProgress
  <2>2. i = CHOOSE j \in DOMAIN Stages : Stages[j] = rs[r].stage
    BY Zenon
  <2> HIDE DEF i
  <2>3. Stages[i + 1] \in StageNames \ {"transport"} /\ (Stages[i + 1] = "ready" <=> rs[r].stage = "ike_auth")
    BY <1>1, <1>3, <2>2, NextStage
  <2> QED BY <2>1, <2>3, Zenon
<1> DEFINE t == [rs[r] EXCEPT !.stage = g]
<1>6. rs' = [rs EXCEPT ![r] = t]
  BY <1>1, <1>5
<1>7. RecordOK(t)
  BY <1>1, Progress
<1>8. t.pc = "ike" /\ t.stage = g /\ t.service = rs[r].service /\ t.stopped = rs[r].stopped
  BY <1>1, <1>3 DEF RecordOK, RunTyped, RunFields
<1> HIDE DEF t
<1>9. ~t.stopped => ikeStage' = IF t.stage = "ready" THEN "ike_auth" ELSE t.stage
  <2>1. CASE g = "ready"
    BY <1>1, <1>3, <1>5, <1>8, <2>1 DEF Current, Connecting
  <2>2. CASE g # "ready" /\ ~t.stopped
    <3>1. ~Cancelled(r)
      BY <1>1, <1>8, <2>2, Zenon DEF Cancelled
    <3> QED BY <1>4, <1>5, <1>8, <2>2, <3>1
  <2> QED BY <2>1, <2>2
<1>10. EngineTyped'
  <2>1. ikeStage' \in {"", "transport", "ike_sa_init", "ike_auth"}
    BY <1>1, <1>5 DEF EngineTyped, StageNames
  <2> QED BY <1>1, <1>2, <2>1 DEF EngineTyped
<1> QED
  BY <1>1, <1>2, <1>4, <1>6, <1>7, <1>8, <1>9, <1>10, QuietStep DEF Over, Connecting

LEMMA TunnelReturnsStep ==
  ASSUME EngineInv, NEW r \in Runs, TunnelReturns(r)
  PROVE  EngineInv'
<1>1. /\ RecordOK(rs[r]) /\ Current(r) /\ EngineTyped /\ rs = [q \in Runs |-> rs[q]]
      /\ run \in Runs \cup {None} /\ rs[r].tunnel = "up"
  BY RunFacts DEF TunnelReturns
<1>2. rs[r].pc \in Connecting /\ rs[r].pc \notin Over /\ run = r
  BY <1>1 DEF RecordOK, CycleInOrder, Connecting, Over, Current
<1>3. UNCHANGED <<engineVars, hosts>>
  BY DEF TunnelReturns
<1>4. PICK e : rs' = [rs EXCEPT ![r].tunnel = "off", ![r].result = e]
  BY Zenon DEF TunnelReturns
<1> DEFINE t == [rs[r] EXCEPT !.tunnel = "off", !.result = e]
<1>5. rs' = [rs EXCEPT ![r] = t]
  BY <1>1, <1>4
<1>6. RecordOK(t)
  BY <1>1, TunnelOver
<1>7. /\ t.pc = rs[r].pc /\ t.service = rs[r].service /\ t.stage = rs[r].stage /\ t.stopped = rs[r].stopped
      /\ t.snapshot = rs[r].snapshot
  BY <1>1 DEF RecordOK, RunTyped, RunFields
<1> HIDE DEF t
<1>8. ~t.stopped => ikeStage' = IF t.stage = "ready" THEN "ike_auth" ELSE t.stage
  BY <1>1, <1>2, <1>3, <1>7 DEF Current, engineVars
<1>9. t.pc = "ike" => phase' = "ike"
  BY <1>1, <1>3, <1>7 DEF Current, engineVars
<1>10. EngineTyped'
  BY <1>1, <1>3, EngineSame DEF engineVars
<1>11. t.pc \notin Over /\ t.pc # "unborn"
  BY <1>2, <1>7 DEF Over
<1> QED
  BY <1>2, <1>3, <1>5, <1>6, <1>7, <1>8, <1>9, <1>10, <1>11, QuietStep DEF engineVars

-----------------------------------------------------------------------------
(* The steps of the host threads *)

LEMMA RunsSame ==
  ASSUME EngineInv, UNCHANGED <<run, phase, retrying, terminal, ikeStage, rs>>
  PROVE  RunsOK' /\ StartedInOrder' /\ EngineTyped'
<1>1. \A q \in Runs : RecordOK(rs'[q]) /\ Current(q)' /\ SnapshotFresh(q)'
  BY DEF EngineInv, RunsOK, Current, SnapshotFresh
<1>2. RunsOK'
  BY <1>1 DEF EngineInv, RunsOK
<1>3. StartedInOrder'
  BY DEF EngineInv, StartedInOrder, Started
<1>4. EngineTyped'
  BY EngineSame DEF EngineInv, EngineTyped
<1> QED
  BY <1>2, <1>3, <1>4

\* One host thread moves.
LEMMA HostMoves ==
  ASSUME HostsOK, NEW h \in Hosts \cup Commanders, NEW g \in HostRecord,
         hosts' = [hosts EXCEPT ![h] = g], HostOK(g, rs'), \A q \in Runs : rs[q].done => rs'[q].done
  PROVE  HostsOK'
<1>1. hosts' \in [Hosts \cup Commanders -> HostRecord]
  BY DEF HostsOK
<1>2. ASSUME NEW k \in Hosts \cup Commanders
      PROVE  HostOK(hosts'[k], rs')
  <2>1. HostOK(hosts[k], rs)
    BY DEF HostsOK
  <2>2. hosts'[k] = IF k = h THEN g ELSE hosts[k]
    BY DEF HostsOK
  <2>3. CASE k = h
    BY <2>2, <2>3 DEF HostOK
  <2>4. CASE k # h
    BY <2>1, <2>2, <2>4 DEF HostOK
  <2> QED BY <2>3, <2>4
<1> QED
  BY <1>1, <1>2 DEF HostsOK

LEMMA IdleHostOK ==
  ASSUME NEW runs
  PROVE  IdleHost \in HostRecord /\ HostOK(IdleHost, runs)
BY DEF IdleHost, HostRecord, HostOK

\* Start: no run is current, so that all of them are over, and the new one is next in order.
LEMMA StartStep ==
  ASSUME EngineInv, NEW h \in Hosts, Start(h)
  PROVE  EngineInv'
<1>1. run = None /\ None \notin Runs /\ Started # Runs /\ DOMAIN rs = Runs /\ rs = [q \in Runs |-> rs[q]]
  <2>1. None \notin Runs
    BY EngineAssumption DEF Runs
  <2> QED BY <2>1 DEF Start, EngineInv, RunsOK
<1>2. \A q \in Runs : rs[q].pc \in Over /\ RecordOK(rs[q])
  BY <1>1 DEF EngineInv, RunsOK, Current
<1>3. PICK n \in 0..MaxRuns : Started = 1..n
  BY DEF EngineInv, StartedInOrder
<1>4. n \in Nat /\ n < MaxRuns /\ MaxRuns \in Nat
  BY <1>1, <1>3, EngineAssumption DEF Runs
<1>5. Cardinality(Started) = n
  BY <1>3, <1>4, FS_Interval
<1> DEFINE m == n + 1
           a == IF n = 0 THEN 0 ELSE rs[n].attempts
           t == NewRun(a)
<1>6. m \in Runs /\ m \notin Started
  BY <1>3, <1>4 DEF Runs
<1>7. /\ run' = m /\ rs' = [rs EXCEPT ![m] = t] /\ phase' = "sim" /\ retrying' = FALSE /\ terminal' = FALSE
      /\ ikeStage' = "" /\ audio' = audio /\ hosts' = hosts
  BY <1>5 DEF Start
<1>8. a \in Nat
  <2>1. CASE n # 0
    <3>1. n \in Runs
      BY <1>4, <2>1 DEF Runs
    <3> QED BY <1>2, <2>1, <3>1 DEF RecordOK, RunTyped
  <2> QED BY <2>1
<1>9. RecordOK(t)
  <2>1. "sim" \in {"unborn", "sim", "release"}
    OBVIOUS
  <2> HIDE DEF a
  <2> QED BY <1>8, <2>1, RunFresh, ZenonT(60)
<1>10. t.pc = "sim"
  BY DEF NewRun
<1>11. Started' = 1..m
  <2>1. Started' = Started \cup {m}
    BY <1>1, <1>6, <1>7, <1>10 DEF Started
  <2> QED BY <1>3, <1>4, <2>1
<1> HIDE DEF t, a, m
<1>12. /\ rs'[m] = t /\ \A q \in Runs \ {m} : rs'[q] = rs[q]
       /\ DOMAIN rs' = Runs /\ rs' = [q \in Runs |-> rs'[q]]
  BY <1>1, <1>6, <1>7
<1>13. RunsOK'
  <2>1. \A q \in Runs : RecordOK(rs'[q])
    BY <1>2, <1>9, <1>12
  <2>2. Current(m)' /\ SnapshotFresh(m)'
    BY <1>7, <1>10, <1>12 DEF Current, SnapshotFresh, Over, Connecting
  <2>3. ASSUME NEW q \in Runs \ {m}
        PROVE  Current(q)' /\ SnapshotFresh(q)'
    BY <1>2, <1>7, <1>12 DEF Current, SnapshotFresh, Over, Connecting
  <2> QED BY <1>12, <2>1, <2>2, <2>3 DEF RunsOK
<1>14. StartedInOrder'
  BY <1>4, <1>11 DEF StartedInOrder, m
<1>15. rs[m].service = None /\ ~rs[m].done
  BY <1>2, <1>6 DEF RecordOK, CycleInOrder, Started, Over
<1>16. AudioOK'
  BY <1>7, <1>12, <1>15, AudioKept DEF EngineInv
<1>17. HostsOK'
  <2>1. \A q \in Runs : rs[q].done => rs'[q].done
    BY <1>12, <1>15, Zenon
  <2> QED BY <1>7, <2>1, HostsKept DEF EngineInv
<1>18. EngineTyped'
  <2>1. retrying' \in BOOLEAN /\ terminal' \in BOOLEAN /\ ~(retrying' /\ terminal')
    BY <1>7, Zenon
  <2> QED BY <1>6, <1>7, <2>1 DEF EngineTyped
<1> QED
  BY <1>13, <1>14, <1>16, <1>17, <1>18 DEF EngineInv

\* Stop cancels the run, closes the audio and waits.
LEMMA StopCalledStep ==
  ASSUME EngineInv, NEW h \in Hosts, StopCalled(h)
  PROVE  EngineInv'
<1> DEFINE r == run
<1>1. r \in Runs
  BY DEF StopCalled, EngineInv, EngineTyped
<1>2. /\ RecordOK(rs[r]) /\ Current(r) /\ EngineTyped /\ rs = [q \in Runs |-> rs[q]]
  BY <1>1, RunFacts
<1>3. rs[r].pc \notin Over
  BY <1>2 DEF Current
<1>4. /\ UNCHANGED <<run, phase, retrying, terminal, ikeStage>> /\ audio' = None
      /\ hosts' = [hosts EXCEPT ![h] = [IdleHost EXCEPT !.pc = "stop", !.run = r]]
      /\ rs' = [rs EXCEPT ![r].stopped = TRUE]
  BY DEF StopCalled
<1> HIDE DEF r
<1> DEFINE t == [rs[r] EXCEPT !.stopped = TRUE]
<1>5. rs' = [rs EXCEPT ![r] = t]
  BY <1>1, <1>2, <1>4
<1>6. RecordOK(t)
  BY <1>2, <1>3, RunStopped
<1>7. t.pc = rs[r].pc /\ t.service = rs[r].service /\ t.snapshot = rs[r].snapshot /\ t.stopped = TRUE
  BY <1>2 DEF RecordOK, RunTyped, RunFields
<1> HIDE DEF t
<1>8. t.stopped
  BY <1>7, Zenon
<1>9. RunsOK' /\ Started' = Started /\ rs'[r] = t /\ \A q \in Runs \ {r} : rs'[q] = rs[q]
  <2>1. SnapshotFresh(r) /\ RunsOK
    BY <1>1 DEF EngineInv, RunsOK
  <2>2. t.pc = "tick" /\ t.snapshot # None
          => /\ t.snapshot \in AudioRecord
             /\ t.snapshot.run = r /\ t.service # None /\ t.snapshot.service = t.service
    BY <1>7, <2>1 DEF SnapshotFresh
  <2>3. t.pc = "ike" => phase' = "ike"
    BY <1>2, <1>4, <1>7 DEF Current
  <2>4. t.pc # "unborn" /\ t.pc \notin Over
    BY <1>3, <1>7 DEF Over
  <2> QED BY <1>1, <1>3, <1>4, <1>5, <1>6, <1>8, <2>1, <2>2, <2>3, <2>4, CurrentStep
<1>10. StartedInOrder'
  BY <1>9 DEF EngineInv, StartedInOrder
<1>11. AudioOK'
  BY <1>4 DEF AudioOK, AudioFollowsSession
<1>12. HostsOK'
  <2> DEFINE g == [IdleHost EXCEPT !.pc = "stop", !.run = r]
  <2>1. g \in HostRecord /\ HostOK(g, rs')
    BY <1>1 DEF IdleHost, HostRecord, HostOK
  <2>2. ~rs[r].done
    BY <1>2, <1>3 DEF RecordOK, CycleInOrder, Over
  <2>3. \A q \in Runs : rs[q].done => rs'[q].done
    BY <1>9, <2>2, Zenon
  <2>4. hosts' = [hosts EXCEPT ![h] = g] /\ h \in Hosts \cup Commanders
    BY <1>4
  <2> HIDE DEF g
  <2> QED BY <2>1, <2>3, <2>4, HostMoves DEF EngineInv
<1>13. EngineTyped'
  BY <1>2, <1>4, EngineSame DEF EngineTyped
<1> QED
  BY <1>9, <1>10, <1>11, <1>12, <1>13 DEF EngineInv

\* Stop with nothing running.
LEMMA StopIdleStep ==
  ASSUME EngineInv, NEW h \in Hosts, StopIdle(h)
  PROVE  EngineInv'
<1>1. UNCHANGED <<run, phase, retrying, terminal, ikeStage, rs, hosts>> /\ audio' = None
  BY DEF StopIdle
<1>2. RunsOK' /\ StartedInOrder' /\ EngineTyped'
  BY <1>1, RunsSame
<1>3. AudioOK'
  BY <1>1 DEF AudioOK, AudioFollowsSession
<1>4. HostsOK'
  BY <1>1, HostsKept DEF EngineInv
<1> QED
  BY <1>2, <1>3, <1>4 DEF EngineInv

\* A host thread that moves without touching the engine.
LEMMA HostStep ==
  ASSUME EngineInv, NEW h \in Hosts \cup Commanders, NEW g \in HostRecord,
         hosts' = [hosts EXCEPT ![h] = g], HostOK(g, rs), UNCHANGED <<engineVars, rs>>
  PROVE  EngineInv'
<1>1. RunsOK' /\ StartedInOrder' /\ EngineTyped'
  BY RunsSame DEF engineVars
<1>2. AudioOK'
  BY AudioKept DEF engineVars, EngineInv
<1>3. HostOK(g, rs') /\ \A q \in Runs : rs[q].done => rs'[q].done
  BY Zenon
<1>4. HostsOK'
  BY <1>3, HostMoves DEF EngineInv
<1> QED
  BY <1>1, <1>2, <1>4 DEF EngineInv

\* Stop returns: the run it waited for is done, or 15 seconds passed.
LEMMA StopReturnsStep ==
  ASSUME EngineInv, NEW h \in Hosts, StopReturns(h)
  PROVE  EngineInv'
<1>1. hosts[h] \in HostRecord /\ HostOK(hosts[h], rs) /\ hosts[h].pc = "stop" /\ rs[hosts[h].run].done
  BY DEF EngineInv, HostsOK, StopReturns
<1>2. hosts' = [hosts EXCEPT ![h].pc = "idle", ![h].result = "stopped"] /\ UNCHANGED <<engineVars, rs>>
  BY DEF StopReturns
<1> DEFINE g == [hosts[h] EXCEPT !.pc = "idle", !.result = "stopped"]
<1>3. hosts' = [hosts EXCEPT ![h] = g]
  BY <1>2
<1>4. g \in HostRecord
  BY <1>1 DEF HostRecord
<1>5. g.pc = "idle" /\ g.run = hosts[h].run
  BY <1>1 DEF HostRecord
<1> HIDE DEF g
<1>6. HostOK(g, rs)
  <2>1. g.run \in Runs /\ rs[g.run].done
    BY <1>1, <1>5 DEF HostOK
  <2> QED BY <1>5, <2>1 DEF HostOK
<1> QED
  BY <1>2, <1>3, <1>4, <1>6, HostStep

LEMMA StopPendingStep ==
  ASSUME EngineInv, NEW h \in Hosts \cup Commanders, StopPending(h) \/ CommandFails(h)
  PROVE  EngineInv'
<1>1. hosts' = [hosts EXCEPT ![h] = IdleHost] /\ UNCHANGED <<engineVars, rs>>
  BY DEF StopPending, CommandFails
<1>2. IdleHost \in HostRecord /\ HostOK(IdleHost, rs)
  BY IdleHostOK
<1> QED
  BY <1>1, <1>2, HostStep

\* A Command takes the published service.
LEMMA CommandBeginsStep ==
  ASSUME EngineInv, NEW h \in Commanders, CommandBegins(h)
  PROVE  EngineInv'
<1>1. run \in Runs /\ rs[run].service # None
  BY DEF CommandBegins, EngineInv, EngineTyped
<1>2. rs[run].service \in Nat
  BY <1>1 DEF EngineInv, RunsOK, RecordOK, RunTyped, CycleInOrder
<1>3. /\ hosts' = [hosts EXCEPT ![h] = [IdleHost EXCEPT !.pc = "command", !.run = run, !.service = rs[run].service]]
      /\ UNCHANGED <<engineVars, rs>>
  BY DEF CommandBegins
<1> DEFINE g == [IdleHost EXCEPT !.pc = "command", !.run = run, !.service = rs[run].service]
<1>4. g \in HostRecord
  BY <1>1, <1>2 DEF IdleHost, HostRecord
<1>5. HostOK(g, rs)
  BY <1>1, <1>2 DEF IdleHost, HostOK
<1> HIDE DEF g
<1> QED
  BY <1>3, <1>4, <1>5, HostStep DEF g

\* What it reads of the audio is of that service.
LEMMA CommandReadsStep ==
  ASSUME EngineInv, NEW h \in Commanders, CommandReads(h)
  PROVE  EngineInv'
<1>1. hosts[h] \in HostRecord /\ HostOK(hosts[h], rs) /\ hosts[h].pc = "command"
  BY DEF EngineInv, HostsOK, CommandReads
<1>2. hosts[h].run \in Runs /\ hosts[h].service \in Nat
  BY <1>1 DEF HostOK
<1>3. UNCHANGED <<engineVars, rs>>
  BY DEF CommandReads
<1>4. PICK a \in AudioOf(hosts[h].run, hosts[h].service) : hosts' = [hosts EXCEPT ![h].pc = "sync", ![h].audio = a]
  BY DEF CommandReads
<1>5. a # None => a \in AudioRecord /\ a.run = hosts[h].run /\ a.service = hosts[h].service
  <2>1. CASE a = [run |-> hosts[h].run, service |-> hosts[h].service, late |-> FALSE]
    BY <1>2, <2>1 DEF AudioRecord
  <2> QED BY <1>4, <2>1 DEF AudioOf
<1> DEFINE g == [hosts[h] EXCEPT !.pc = "sync", !.audio = a]
<1>6. hosts' = [hosts EXCEPT ![h] = g]
  BY <1>4
<1>7. /\ g.pc = "sync" /\ g.run = hosts[h].run /\ g.service = hosts[h].service
      /\ g.audio = a /\ g.result = hosts[h].result
  BY <1>1 DEF HostRecord
<1>8. g \in HostRecord
  BY <1>1, <1>5 DEF HostRecord
<1> HIDE DEF g
<1>9. HostOK(g, rs)
  BY <1>1, <1>2, <1>5, <1>7 DEF HostOK
<1> QED
  BY <1>3, <1>6, <1>8, <1>9, HostStep

\* syncAudio, by a Command: late if the service is no longer the published one.
LEMMA CommandSyncsStep ==
  ASSUME EngineInv, NEW h \in Commanders, CommandSyncs(h)
  PROVE  EngineInv'
<1>1. hosts[h] \in HostRecord /\ HostOK(hosts[h], rs) /\ hosts[h].pc = "sync"
  BY DEF EngineInv, HostsOK, CommandSyncs
<1>2. UNCHANGED <<run, phase, retrying, terminal, ikeStage, rs>> /\ hosts' = [hosts EXCEPT ![h] = IdleHost]
  BY DEF CommandSyncs
<1>3. RunsOK' /\ StartedInOrder' /\ EngineTyped'
  BY <1>2, RunsSame
<1>4. AudioOK'
  <2> DEFINE b == rs[hosts[h].run].service # hosts[h].service
  <2>1. audio' = IF hosts[h].audio = None THEN None ELSE [hosts[h].audio EXCEPT !.late = b]
    BY Zenon DEF CommandSyncs
  <2>2. b \in BOOLEAN /\ (b \/ rs[hosts[h].run].service = hosts[h].service)
    BY Zenon
  <2>3. hosts[h].audio # None
          => /\ hosts[h].audio \in AudioRecord
             /\ hosts[h].audio.run = hosts[h].run /\ hosts[h].audio.service = hosts[h].service
    BY <1>1 DEF HostRecord, HostOK
  <2> HIDE DEF b
  <2>4. CASE audio' # None
    <3>1. hosts[h].audio # None /\ audio' = [hosts[h].audio EXCEPT !.late = b]
      BY <2>1, <2>4, Zenon
    <3>2. /\ audio' \in AudioRecord /\ audio'.run = hosts[h].run
          /\ audio'.service = hosts[h].service
      BY <2>2, <2>3, <3>1 DEF AudioRecord
    <3>3. audio'.late = b
      BY <2>3, <3>1 DEF AudioRecord
    <3>4. audio'.late \/ rs'[audio'.run].service = audio'.service
      <4>1. CASE b
        BY <3>3, <4>1, Zenon
      <4>2. CASE ~b
        BY <1>2, <2>2, <3>2, <4>2
      <4> QED BY <4>1, <4>2
    <3> QED BY <3>2, <3>4 DEF AudioOK, AudioFollowsSession
  <2>5. CASE audio' = None
    BY <2>5 DEF AudioOK, AudioFollowsSession
  <2> QED BY <2>4, <2>5
<1>5. HostsOK'
  <2>1. IdleHost \in HostRecord /\ HostOK(IdleHost, rs')
    BY IdleHostOK
  <2>2. \A q \in Runs : rs[q].done => rs'[q].done
    BY <1>2, Zenon
  <2> QED BY <1>2, <2>1, <2>2, HostMoves DEF EngineInv
<1> QED
  BY <1>3, <1>4, <1>5 DEF EngineInv

-----------------------------------------------------------------------------
(* The invariant and what it shows *)

LEMMA EngineInvInit == Init => EngineInv
<1> SUFFICES ASSUME Init
             PROVE  EngineInv
  OBVIOUS
<1>1. /\ run = None /\ phase = "idle" /\ retrying = FALSE /\ terminal = FALSE /\ ikeStage = "" /\ audio = None
      /\ rs = [r \in Runs |-> [NewRun(0) EXCEPT !.pc = "unborn"]]
      /\ hosts = [h \in Hosts \cup Commanders |-> IdleHost]
  BY DEF Init
<1>2. None \notin Runs
  BY EngineAssumption DEF Runs
<1> DEFINE t == [NewRun(0) EXCEPT !.pc = "unborn"]
<1>3. t.pc = "unborn"
  BY DEF NewRun
<1>4. RecordOK(t)
  <2>1. 0 \in Nat /\ "unborn" \in {"unborn", "sim", "release"}
    OBVIOUS
  <2> QED BY <2>1, RunFresh, ZenonT(60)
<1>5. DOMAIN rs = Runs /\ rs = [r \in Runs |-> rs[r]] /\ \A r \in Runs : rs[r] = t
  BY <1>1
<1> HIDE DEF t
<1>6. RunsOK
  <2>1. ASSUME NEW r \in Runs
        PROVE  RecordOK(rs[r]) /\ Current(r) /\ SnapshotFresh(r)
    BY <1>1, <1>2, <1>3, <1>4, <1>5 DEF Current, SnapshotFresh, Over, Connecting
  <2> QED BY <1>5, <2>1 DEF RunsOK
<1>7. StartedInOrder
  <2>1. Started = {}
    BY <1>3, <1>5 DEF Started
  <2>2. 0 \in 0..MaxRuns /\ 1..0 = {}
    BY EngineAssumption
  <2> QED BY <2>1, <2>2 DEF StartedInOrder
<1>8. EngineTyped
  <2>1. retrying \in BOOLEAN /\ terminal \in BOOLEAN /\ ~(retrying /\ terminal)
    BY <1>1, Zenon
  <2> QED BY <1>1, <2>1 DEF EngineTyped
<1>9. AudioOK
  BY <1>1 DEF AudioOK, AudioFollowsSession
<1>10. HostsOK
  BY <1>1, IdleHostOK DEF HostsOK
<1> QED
  BY <1>6, <1>7, <1>8, <1>9, <1>10 DEF EngineInv

LEMMA EngineInvNext == EngineInv /\ [Next]_vars => EngineInv'
<1> SUFFICES ASSUME EngineInv, [Next]_vars
             PROVE  EngineInv'
  OBVIOUS
<1>1. ASSUME NEW h \in Hosts, Host(h)
      PROVE  EngineInv'
  BY <1>1, StartStep, StopCalledStep, StopIdleStep, StopReturnsStep, StopPendingStep DEF Host
<1>2. ASSUME NEW h \in Commanders, Commander(h)
      PROVE  EngineInv'
  BY <1>2, CommandBeginsStep, CommandReadsStep, StopPendingStep, CommandSyncsStep DEF Commander
<1>3. ASSUME NEW r \in Runs, Serve(r)
      PROVE  EngineInv'
  BY <1>3, ReadCardStep, BeginStep, BeginCancelledStep, AwaitTunnelStep, SelectPathStep, StartIMSStep,
     TickSyncsStep, UnpublishStep, CloseServiceStep, DrainStep, DecideStep, ServeEndsStep, ServeDoneStep
     DEF Serve
<1>4. ASSUME NEW r \in Runs, SessionEnds(r) \/ TickReads(r) \/ TunnelProgress(r) \/ TunnelReturns(r)
      PROVE  EngineInv'
  BY <1>4, SessionEndsStep, TickReadsStep, TunnelProgressStep, TunnelReturnsStep
<1>5. CASE UNCHANGED vars
  <2>1. UNCHANGED <<run, phase, retrying, terminal, ikeStage, audio, rs, hosts>>
    BY <1>5 DEF vars, engineVars
  <2>2. RunsOK' /\ StartedInOrder' /\ EngineTyped'
    BY <2>1, RunsSame
  <2>3. AudioOK' /\ HostsOK'
    BY <2>1, AudioKept, HostsKept DEF EngineInv
  <2> QED BY <2>2, <2>3 DEF EngineInv
<1> QED
  BY <1>1, <1>2, <1>3, <1>4, <1>5 DEF Next

\* Of the runs, only the current one holds a tunnel, a session or a network.
LEMMA OneOwnerHolds == EngineInv => OneOwner
<1> SUFFICES ASSUME EngineInv
             PROVE  OneOwner
  OBVIOUS
<1>1. \A r \in Runs : RecordOK(rs[r]) /\ (rs[r].pc \notin Over => run = r)
  BY RunFacts
<1>2. \A r \in Runs : rs[r].tunnel = "up" \/ rs[r].open \/ rs[r].network => run = r
  BY <1>1 DEF RecordOK, CycleInOrder, Connecting, Over
<1>3. ASSUME NEW S \in SUBSET {run}
      PROVE  Cardinality(S) <= 1
  <2>1. IsFiniteSet({run}) /\ Cardinality({run}) = 1
    BY FS_Singleton
  <2>2. Cardinality(S) <= Cardinality({run})
    BY <2>1, FS_Subset
  <2> QED BY <2>1, <2>2
<1>4. {r \in Runs : rs[r].tunnel = "up"} \in SUBSET {run}
  BY <1>2
<1>5. {r \in Runs : rs[r].open \/ rs[r].network} \in SUBSET {run}
  BY <1>2
<1>6. \A r \in Runs : rs[r].open => rs[r].network
  BY <1>1 DEF RecordOK, CycleInOrder
<1> QED
  BY <1>3, <1>4, <1>5, <1>6 DEF OneOwner

LEMMA StopIsCompleteHolds == EngineInv => StopIsComplete
<1> SUFFICES ASSUME EngineInv, NEW h \in Hosts, hosts[h].result = "stopped"
             PROVE  LET r == rs[hosts[h].run] IN
                      r.tunnel = "off" /\ ~r.open /\ ~r.network /\ r.service = None /\ run # hosts[h].run
  BY DEF StopIsComplete
<1>1. hosts[h].run \in Runs /\ rs[hosts[h].run].done
  BY DEF EngineInv, HostsOK, HostOK
<1>2. RecordOK(rs[hosts[h].run]) /\ Current(hosts[h].run)
  BY <1>1, RunFacts
<1>3. rs[hosts[h].run].pc = "done"
  BY <1>1, <1>2 DEF RecordOK, CycleInOrder
<1> QED
  BY <1>2, <1>3 DEF RecordOK, CycleInOrder, Current, Over, Connecting

\* RunsExclusive, which the run EngineRun checks: one tunnel and one session at a time, whatever
\* Start, Stop and the teardown of the last run do at once; a Stop that reports success leaves
\* nothing of the run; and the audio goes down with the session it was opened for.
THEOREM EngineExclusive == Spec => []RunsExclusive
<1>1. EngineInv => RunsExclusive
  <2> SUFFICES ASSUME EngineInv
               PROVE  RunsExclusive
    OBVIOUS
  <2>1. \A r \in Runs : RecordOK(rs[r]) /\ ((run = r) <=> rs[r].pc \notin Over)
    BY RunFacts DEF Current
  <2>2. run \in Started \cup {None}
    BY <2>1 DEF EngineInv, EngineTyped, Started, Over
  <2>3. \A r \in Runs : rs[r].candidate \in 1..rs[r].candidates /\ rs[r].failures \in 0..MaxFailures
    <3>1. ASSUME NEW r \in Runs
          PROVE  rs[r].candidate \in 1..rs[r].candidates /\ rs[r].failures \in 0..MaxFailures
      <4>1. RunTyped(rs[r]) /\ Counted(rs[r])
        BY <2>1 DEF RecordOK
      <4>2. rs[r].failures \in Nat /\ rs[r].failures <= MaxFailures /\ MaxFailures \in Nat
        BY <4>1, EngineAssumption DEF RunTyped, Counted
      <4> QED BY <4>1, <4>2 DEF Counted
    <3> QED BY <3>1
  <2>4. TypeOK
    BY <2>2, <2>3 DEF EngineInv, EngineTyped, TypeOK
  <2> QED BY <2>4, OneOwnerHolds, StopIsCompleteHolds DEF RunsExclusive, EngineInv, AudioOK
<1> QED
  BY <1>1, EngineInvInit, EngineInvNext, PTL DEF Spec

\* AttemptsSound, which the run EngineRun checks: a run makes at most MaxFailures attempts in
\* a row that do not register and none after a permanent failure, follows at most
\* MaxRedirects redirects, and leaves a gateway for another one only before authentication
\* and never after a redirect.
THEOREM AttemptsBoundedAndKept == Spec => []AttemptsSound
<1>1. EngineInv => AttemptsSound
  <2> SUFFICES ASSUME EngineInv, NEW r \in Runs
               PROVE  /\ rs[r].streak <= MaxFailures /\ rs[r].redirects <= MaxRedirects
                      /\ rs[r].pc \in {"wait", "begin"}
                           => rs[r].streak < MaxFailures /\ ~permanentSessionFailure(rs[r].err)
                      /\ rs[r].advanced => rs[r].stage \in {"transport", "ike_sa_init"} /\ rs[r].redirects = 0
    BY DEF AttemptsSound, AttemptsBounded, GatewayKept
  <2>1. Counted(rs[r])
    BY RunFacts DEF RecordOK
  <2> QED BY <2>1 DEF Counted
<1> QED
  BY <1>1, EngineInvInit, EngineInvNext, PTL DEF Spec

=============================================================================
