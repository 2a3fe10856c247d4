# TLA+ models of the VoWiFi core

NekokoLPA2 is a Flutter eSIM manager with a VoWiFi client. The client's logic is
the Go package `mobilecore`: it opens an IKE/ESP tunnel to the operator's ePDG,
registers with IMS over it, and then carries SMS and one voice call while it keeps
the registration alive. That package is where goroutines, locks, timers, the SIP
peer and the user meet, and it is what this project models: the engine's runs, the
registration and its security agreement, the packet transform under it, the SIP
transport over TCP and UDP, SMS, the voice call and the maintenance of it all. The
rest of the repository (user interface, card readers, profile download) is listed
below and is not modelled.

Nothing here is generated from the code: every definition is a translation of the
lines `PROJECT.json` gives for it under `map`.

## Inventory

| Component | State it keeps | Operations | Talks to |
|---|---|---|---|
| `imscore.Service` lifecycle (`service.go`, `service_lifecycle.go`) | lifecycle id and context, `starting`/`started`/`closing`/`registered`, dialer, transport runtime, `operationMu`, `closeMu` | Start, Close, operation gate and leases | registration, transport runtime, every SMS/call operation, incoming SIP handlers |
| Voice call control (`call_runtime.go`) | one `CallState`, the published INVITE and its decision timer, INVITE transaction, media sockets, `incomingFinalMu` | dial, answer, reject, hangup, handleRequest, watchInvite, finish | SIP transport, media, host application |
| Engine maintenance (`engine.go` connectCycle, `connection_check.go`) | renewal timer, one maintenance worker, check revision and token, remembered failure | renew, check, recover, tear down | Service, heartbeat, host (`Command`) |
| SIP heartbeat (`transport_runtime.go` runOptionsPing) | health flags, queue of requested checks | probe, confirm, fail | maintenance, operation gate (`Healthy`) |
| Engine run and reconnect (`engine.go` serve) | run, phase, session, failure and redirect budgets, gateway candidate, audio socket | Start, Stop, Command, retry with back-off | tunnel, connectCycle, host |
| Registration (`register*.go`) | candidates, CSeq, challenge keys, security agreement, sockets | register, resynchronise, refresh, withdraw | SIM, transport, IPsec dataplane |
| SIP transport over TCP (`transport_runtime.go`) | Port-C/Port-S connections, write queue, response waiters | read, write, dispatch, close | call control, SMS, heartbeat |
| SIP endpoint over UDP (`udp_transport.go`) | client and server transactions, queues, ACKs, 2xx being repeated | send, read, handle, repeat, close | the same |
| SMS (`sms_runtime.go`, `messaging/`, `sms_pdu.go`) | `messageMu`, Call-IDs, the host's archive | encode, send in parts, receive, store, RP-ACK | transport, host store |
| IPsec dataplane (`ipsec3gpp/`) | transform, sequence numbers, replay windows, fragments, inbound queue | install, clear, send, receive, close | registration, tunnel, network stack |
| Fax, USSD, SOCKS5, SIM, carrier profiles, diagnostics | see `PROJECT.json` | | |
| Flutter application, native bridges, update service | see `PROJECT.json` | | |

What is hard in it: `Close` overlaps a running `Start`, operations and handlers; the
user, the caller, two SIP read loops, a response watcher and a 90 s timer act on one
call; renewals, checks and recoveries share one worker while the phone may be
suspended at any moment; media sockets are opened outside the lock; answers to
REGISTERs arrive late, on a connection or a Call-ID that somebody else uses by then;
the packet transform changes under running senders; datagrams and ACKs are lost while
queues are full. The `hazards` of
`PROJECT.json` list these places line by line, with the property that watches each
of them or the reason why none does yet.

What makes each component correct:

- *Service*: an operation that was admitted keeps its runtime until it is done;
  nothing is published after Close; Close releases every socket and returns.
- *Call control*: an INVITE gets one verdict; a ringing call is always timed; the
  slot is handed over only when free; an established call has its own media; no
  socket leaks; every dial and every INVITE comes to an end.
- *Maintenance*: no renewal and no requested check is lost; a check means what it
  says; failed or degraded sessions recover or end.
- *Engine runs*: one tunnel and one service at a time; Stop leaves nothing; attempts
  are bounded, go to the right gateway, and repair a session that was lost.
- *Registration*: clear text until the association is agreed, with the node that
  challenged and the keys of its challenge; finitely many REGISTERs, numbered; no
  socket lost; an end in any case.
- *IPsec dataplane*: nothing of a protected port in clear text; numbers used once and
  taken once; fragments joined to what was cut; Close returns.
- *SMS and refresh*: an accepted text arrived whole; an acknowledged one is stored,
  once; a refresh is answered by its own response; callers return.
- *UDP endpoint*: a request is handled once; lost responses and ACKs are recovered;
  Close returns and leaves nothing.

## Modules

- **ServiceGate** – the abstract promise of the Service to its operations: a gate
  that is open for one runtime at a time, leases that pin it, and a close that waits
  for them.
- **ServiceLifecycle** – the Service in detail: `Start` (from entry over
  registration to commit, with each error path), `Close` in the order of its locks
  and waits, the operation gate with Go's `RWMutex` (a waiting writer stops new
  readers), Port-S handlers that `transportRuntime.Close` waits for, and the RP-ACK
  goroutine it does not wait for. `GateSpec` is ServiceGate under the refinement
  mapping at the end of the module.
- **ServiceLifecycleProofs** – the proofs.
- **CallRuntime** – the single voice call. A critical section of `c.mu` is one step,
  a SIP write between two of them another; `incomingFinalMu` is a variable that is
  held across steps. Each dial has its `watchInvite` goroutine, each published INVITE
  (a *leg*) its timer callback.
- **MCCallRuntime** – symmetry for TLC.
- **Maintenance** – the select loop of `connectCycle` after registration, its
  worker, and the heartbeat goroutine. It covers many cycles of many runs. Run
  directly by TLC.
- **MaintenanceProofs** – the proofs.
- **EngineRun** – `Start`, `Stop` and `Command` on host threads, the `serve` goroutine
  of each run (cycles, budgets, gateways, redirects, delays), and the tunnel's
  goroutine. A registered session, which Maintenance describes, ends here at some time
  with some error.
- **RegisterPolicy** – the decisions of a registration as operators: order of the
  registrars, choice of the gateway and of the Security-Server offer, meaning of a
  response, lifetime of a binding, of the first registration and of a refresh.
- **Registration** – one registration over those: candidates in turn, variants of the
  first REGISTER, the 500 retry, challenge rounds with resynchronisation, installation
  of the association, the protected REGISTER over TCP or UDP, and the sockets.
- **ReplayWindow**, **FragmentReassembly** – the two data structures of the dataplane.
- **IPsecDataplane** – senders, the receive pump and a registration that installs and
  clears the transform, over both of them.
- **SmsPdu** – alphabets, septet packing, splitting into parts, user data headers and
  the decoder with its addresses and timestamps, and what the RP envelope admits.
- **SipMessaging** – the registered transport with SMS in both directions, RP-ACK
  goroutines and refreshes; extends SmsPdu and RegisterPolicy.
- **UdpEndpoint** – the UDP endpoint, its transactions and a lossy network.
- **CallRuntimeProofs**, **RegistrationProofs**, **EngineRunProofs**,
  **IPsecDataplaneProofs**, **SipMessagingProofs**, **UdpEndpointProofs** – the proofs
  about these.
- **MCEngineRun**, **MCRegistration**, **MCIPsecDataplane**, **MCSipMessaging**,
  **MCUdpEndpoint** – the templates, packets, texts and workloads TLC considers.

Definitions whose comment says *Faulty variant* are plausible mistakes in the
definition below them. Nothing refers to them; `PROJECT.json` pairs each with the
property that detects it.

### How state and actions correspond to the code

*ServiceLifecycle.* The variables are the fields of `Service`, plus `cancelled`,
`doneCh` (contexts and channels), `dialer`, `conn`, `rt` (who owns which resource in
which state), `writer`/`lease` (the two sides of `operationMu`) and a program counter
per thread. `lifecycleID` really counts. Registration is one step that succeeds or
fails. An operation between admission and release is one state, `holding`.

*CallRuntime.* `state`, `callID` and the other call fields have the names of the
struct's. Abstracted: SIP headers, tags and CSeq numbers (a call is named by its
Call-ID, `invite` says whose branch and CSeq are stored), SDP (`remoteRTP` says
whose endpoint is set), a DTMF or a re-INVITE. A provisional or final response may
arrive in any order and any number of times. An INVITE arrives and takes
`incomingFinalMu` in one step. An INVITE for a busy slot is answered 486 and changes
nothing. The callee of an outgoing call sends BYE only after the ACK; a caller may
send BYE at any time. `log` and `sent` record what was written to the wire.
Subscribing to responses does not fail in the states considered, and its channel is
never closed.

*Maintenance.* When connectCycle returns its locals are gone and its deferred
`cancel` ends the worker (`Return`); the service is unpublished in a later step
(`Teardown`). Time is what the code compares: `renew` is armed, fired or off, and
`binding` is fresh, *short* (under the 60 s that a check reserves), or expired. Both may
change at any moment, since a phone may be suspended. A grant shorter than a minute
is short from the start. `optionsOn` is chosen in the initial state, so both
configurations are checked. `verified` is a history variable: the revision up to
which the host's requests have been verified. The reconnect policy between cycles is
not modelled: a new cycle may or may not start. `renew.Reset` discards an expiry
that was not received (Go 1.23 timers).

*EngineRun.* A run is a record: its program point, tunnel, network and service, and
the budgets that are locals of `serve`. The tunnel (third party) makes progress, is
ready, or fails with one of four kinds of error the policy tells apart: transient,
permanent, cancelled, redirect. `streak` counts attempts in a row that did not
register, as the property needs it, independently of the code's `failures`. A Command
reads its session in one step and uses it in another. Reading a card, the APDU batch
and entitlement commands are left out.

*Registration.* `pc` is where the one goroutine of the flow waits. A REGISTER is its
CSeq, the route and whether it is protected; a challenge is named by the CSeq it
answers, and so are the keys derived from it. The registrar answers any request it has
seen, once, with any status at any time; what arrives after its reader gave up stays on
the connection for the next one. A template (`cfg`) says whether security is required,
whether variants and the native gate are used, and over which transport. Any step may fail, and
an error that names a deadline or a cancelled context, also one from the SIM or a write,
goes on to the next candidate where another ends the registration. The UE's own
address among the registrars is the case `effectiveIPSecGatewayAddr` exists for.

*IPsecDataplane.* Lengths count 8-byte blocks; a block is represented by the packet it
was cut from, so that a wrong reassembly shows. Encryption is a key generation and an
integrity flag. A sender loads the transform, transforms, and hands its packets to the
tunnel in separate steps; Install and Clear happen between any two of them. The bound
`MaxSeq` plays the part of 2^32 - 1.

*SmsPdu, SipMessaging.* A text is a sequence of code points; packing is done octet by
octet with the code's shifts. The alphabet and the limits are parameters, so that TLC
meets each boundary with short texts. Sender addresses and service-centre timestamps
are decoded from their octets, as the identity under which a message is stored depends
on them. Where the length of a name is misjudged the other fields are read from where the
decoder believes the address to end (`Aligned`). The guesses at other character sets
(`decodeTextBytes`), national language tables and byte order marks are left out. A
caller's wait may end at any time, since each has a deadline. The host stores a message
when it likes, also after the 20 s the reader waits for it; a message is delivered again
until it was acknowledged.

*UdpEndpoint.* A transaction belongs to sipgo and is modelled by how the code uses it.
A datagram that is lost without a trace is no step. Timers that end a transaction may
fire at any time. `handled` and `forgotten` count how often a request reached its
handler and how often its transaction had ended before.

## Runs

Most properties of the later modules are conjunctions of named parts, each with its
own comment in the module; the table names the conjunctions.

| Run | What it shows | Bounds |
|---|---|---|
| `service_lifecycle` | TypeOK, LeasePinned, ClosedIsFinal, CloseReleasesAll, refinement of ServiceGate, CloseTerminates | 2 Starts (a restart and an overlap), 2 Closes, an operation of any kind, over the userspace network |
| `call_inbound` | TypeOK, RingingIsTimed, AnsweredIsWhole | 2 INVITEs and 2 legs, 2 read loops, 2 host threads, writes and media may fail |
| `call_outbound` | ActiveIsAcked, WatchersSound, DialResolves | 2 dials in turn, a thread that dials and one that hangs up, media, INVITE and ACK may fail |
| `call_mixed` | AnswerExclusive, SocketsOwned, SlotIsClaimed, PendingDecided | a dial against an INVITE and its retransmission, 2 read loops, every write may fail |
| `maintenance` | TypeOK, RenewalNeverLost, RequestsHonoured, FailureIsSticky, CheckProvesBinding, MaintenanceSettles | 2 check requests per run, any number of cycles and runs |
| `registration` | SessionConsistent, SecurityAgreed, RequestsNumbered, RegistrationEnds | 7 templates, up to 3 registrars, 3 rounds, 3 variants, 2 responses waiting |
| `ipsec_dataplane` | SendsProtected, FragmentsWhole, ReceivesOnce, CloseTerminates | 6 scenarios of up to 4 packets each way, 2 senders, 2 installs, numbers up to 3, a window of 2, 2 reassemblies, a queue of 1 |
| `sip_messaging` | SMSSentWhole, SMSStored, RefreshSound, CallersReturn | 14 scenarios and one for each of 88 incoming messages that differ in their sender: 41 texts around the limits, 2 senders, 7 kinds of incoming message delivered up to twice, names of 1 to 9 septets whose length counts semi-octets or, as older sources have it, characters, 2 refreshes, a queue of 1, a buffer of 2 |
| `engine_run` | RunsExclusive, AttemptsSound, RunsSettle | 2 runs, 2 attempts, 2 failures in a row, 1 redirect, 2 gateways, a host thread and a commander |
| `udp_endpoint` | DeliveredOnce, ClosesCleanly, LossRecovered | 7 workloads of up to 2 requests either way, one place in every queue and table |
| `call_hangup_race`, `call_watcher_panic` | disagreements of code and comments, see Findings | smallest that shows them |

Why the bounds are enough to be interesting: two Starts are needed for a stale
lifecycle id, two Closes for `closeMu`. Two legs are needed for a stale timer and for
a retransmission that is published anew; two read loops for a CANCEL that overtakes.
Two dials show state left from one call in the next. A second check request is what
makes a running check too old to answer for it; a third meets the same states as the
second, and the theorems hold for any number. In a registration the third round is
the first that follows a resynchronisation that followed a challenge, and the second
candidate the first that can meet what another left behind. A window of two out of
three numbers has numbers ahead of, in and behind it, and a shift that empties it; the
counter passes its end. The texts put a character of two septets, and one of two UTF-16
units, at every place of a message of two parts. Queues and tables of one place are
full at once, which is what their limits are about. Two attempts and a budget of two
failures separate a failure that is counted from one that ends the run.

`call_outbound` assumes what the host applications guarantee or usually see: dial
and hangup come from two serial queues (`ProletariusVowifiPlugin.swift`, one for
call control, one for ending calls), a CANCEL can be written, and the peer does not
send BYE in the middle. Without the second and third the properties fail in ways
that `call_watcher_panic` and the hazard at `call_runtime.go:492` describe;
`call_mixed` has failing CANCELs and reliable provisional responses but no hangup of
an established call.

Deadlock is checked in the service, call and maintenance runs. The other models come to
rest when their scenario is over, so their runs rely on the liveness properties
instead.

### Fairness

- *Service*: a running `Start` goes on because REGISTER has a deadline; `Close` never
  yields; a queued reader is served when the writer leaves; an operation gives up once
  its lifecycle context is cancelled, since each of its waits selects on that
  context. Nothing makes a live operation end.
- *Calls*: goroutines run on, writes have deadlines, timers expire. Steps that take
  `incomingFinalMu` have strong fairness: Go's mutex hands over to a waiter that has
  starved. The watcher's expired timer has strong fairness too: it stays ready, and
  `select` chooses among ready cases at random. Nothing makes the user or the carrier act.
- *Maintenance*: `select` serves a case that stays ready, the worker has a 60 s
  deadline and probes time out. Nothing makes the host ask, a call end or a reconnect
  succeed. `CheckConcludes` depends on the bound on requests: a host that keeps
  asking keeps a check running.
- *Engine*: the serve goroutine runs; a loop whose context is cancelled takes the
  cancellation in the end although its ticker keeps firing (strong fairness, `select`
  is random); Connect returns once its context is cancelled. Nothing makes a session
  end or a host call.
- *Registration*: every blocking call of the flow has a deadline that is set once, so
  the goroutine moves on; passing over provisional responses does not extend it.
- *Dataplane*: the pump takes the closed case of its `select`, and `wg.Wait` returns.
- *Messaging*: a free lock is given, deadlines pass, a closed connection wakes its
  readers, and the writer notices its context. The network, the host and the callers
  owe nothing.
- *UDP*: goroutines run, and the network is fair: what is sent again and again arrives,
  and finds room in the queue, some time (strong fairness). The read loop's `select`
  takes a request some time although responses keep coming.

## Proofs

`ServiceLifecycleProofs` proves, for any sets of Starts, Closes and operations:

- `TypeCorrect`: Spec => []TypeOK;
- `LeaseSafety`: Spec => []LeasePinned;
- `CloseSafety`: Spec => []ClosedIsFinal;
- `ServiceImplementsGate`: Spec => GateSpec, the refinement;
- `ReleaseSafety`: Spec => []CloseReleasesAll.

None of them but the first is inductive: whether a Start may still commit depends on
which generation it belongs to and on which Close is waiting for it. `IInv` adds that
the one running Start owns the lifecycle fields until a Close begins (StartOwns), that
Close leaves every generation behind (GenerationBound), that a closed `startDone`
belongs to a finished Start (DoneMeansDone), that a Start which outlives the entry
of Close is the one it waits for (CloseWaits), that `closeMu` belongs to the one Close
under way (CloseExclusive), that what Close withdrew stays withdrawn (CloseFinal), and
that the published runtime runs and its Start is over (RuntimeOwned).

CloseReleasesAll needs to know who has what is still open. `ReleaseInv` follows it from
the Start to the Service and on to Close: open sockets and a running runtime belong to
the Start until it commits, then to the published runtime, then to the Close that
detached it; a netstack is about to be published, is published, or is with Close; the
network stays open until Close is over. Once Close has returned none of these owners
is left. It is preserved given `IInv`, whose StartOwns and CloseExclusive say that there is
only one Start and one Close to look at.

The assumptions
are that the thread sets are disjoint and that `None` and the network dialer are none
of their members.

`MaintenanceProofs` proves, for any `MaxRevision`: `TypeCorrect`, `RenewalSafety`
(RenewalNeverLost), `CheckSafety` (RequestsHonoured: NoRequestForgotten and CheckScheduled),
`FailureSafety` (FailureIsSticky) and `BindingSafety` (the action property
CheckProvesBinding). `MaintenanceInv` adds five facts that make them inductive:
a recovery token implies `inviteRecoveryUsed`; a worker that joins the heartbeat
does not renew (otherwise its success could swallow a renewal); while no check is
asked for, a running worker began at the current revision (otherwise its result
would not cover the last request); a failed cycle has no worker (otherwise it could
register again); and between cycles nothing of the last one is left.

`CallRuntimeProofs` proves, for any dials, INVITEs, legs, host threads and handlers and
whatever writes fail:

- `ThreadsAreInPlace`, `TypeCorrect` (TypeOK) and `SocketSafety` (SocketsOwned), of every
  workload;
- `CallSafety`: Spec /\ []WatchersCurrent => []CallSafe, where CallSafe is what the
  properties of the call rest on;
- `WatcherSafety`: Spec => []WatchersCurrent, assuming `Undisturbed`, and under the same
  assumption `RingingSafety`, `AnswerSafety`, `AnswerIsExclusive`, `SlotSafety`,
  `ActivationSafety` and `RaceSafety`, one for each safety
  property of the runs (`RaceSafety` for WatchersSound, which is WatchersCurrent and the
  release of a 2xx that comes after the hangup).

WatchersCurrent says that the watcher of a dial belongs to the current call until it is
done. The code does not secure it: `finish` after a BYE or after hangup's own BYE compares
no Call-IDs, so that it may end a call that began in between and leave that call's
watcher behind (`call_runtime.go:492`). So the two arguments are kept apart. CallSafety
is about any behaviour in which that does not happen. `Undisturbed` names workloads in
which it cannot: no dials at all; no hangups and no BYEs; or neither INVITEs nor BYEs, one
thread that hangs up, and CANCELs that can be written. The three passing call runs are of
the first, the second and the third kind, and the theorems hold for any number of calls in each of
them.

TypeInv and LegInv hold in any workload: every thread is in the code of its kind, with
the call and the leg that code needs, and holds incomingFinalMu exactly at its points
(Placed, LockHeld); nothing knows of a leg before its publication, one host thread at most
answers it, and what it allocated is its own until it binds it (LegsFresh, AnswerReserved,
BindingFresh). SocketsOwned is preserved given TypeInv. CallSafe is about the call. On the
incoming side (CallInv): the published leg is that of a call that is not over (LegCurrent),
an armed timer is that of a pending leg (TimerCurrent), what answer has done so far is
still so for the leg it answers (AnswerCurrent), an endpoint belongs to the current call or
to the offer being admitted (EndpointCurrent), and a leg that was refused is not answered
any more (RefusedIsOver). On the outgoing side (DialInv): a dial has claimed the slot for
its own call (DialsClaimed), and what it made for it is there as long as its watcher runs
(DialWhole). WatchersCurrent is preserved because, in the workloads named, whoever is
handling an INVITE does so with no dial under way (HoldFree), and a finish that does not
look at the call it ends is that of an established dial (EndsOwn).

`RegistrationProofs` proves, for any templates, address lists, Security-Server headers,
statuses and grants, and any number of rounds and variants:

- `Invariance`: Spec => []IInv, the inductive invariant;
- `SessionSafety` (SessionConsistent: types, sockets handed over or closed, lifetimes);
- `AgreementSafety` (SecurityAgreed: clear text until agreed, with the challenger, over the
  keys of its challenge, for a request of ours);
- `NumberingSafety` (RequestsNumbered: CSeqs grow, and are finitely many).

The steps are first sorted into eleven kinds by what they do to the session (StepOutcome),
and each part of the invariant is then shown to survive each kind. Of the four parts of
SecurityAgreed, ClearUntilAgreed needs that it holds already before the connection is
dialled (NoneYet). KeysOfThisChallenge needs that where security is required the clear connection has no
keys, since an exhausted flow installs those of the challenge before the last. ChallengeIsOurs
needs to know everything that may be on the connection (AnswersInOrder): without variants
only one REGISTER is under way, all responses but the last are provisional, and the final
one is the end of it. SocketsHeld says which sockets are open at each point, as the result
takes them over without looking; RequestsCounted how the CSeq follows from variant, retry and
round. That the offer installed is the best, and the lifetime kept the shortest, is a
statement about a choice among finitely many numbers. It is proved without induction over
data: naturals are well ordered, so a counterexample would have a least one (Least, Best).

The assumptions: there is a candidate to try (`CandidatesAssumption`; `SetupService` fails
without a registrar and puts it on an empty list), a header is a sequence of offers whose
quality values start at 0 (`ServersAssumption`; the code parses any number, but its search
starts from -1 and does not see an offer below), and lifetimes are integers
(`GrantsAssumption`).

`EngineRunProofs` proves, for any number of host threads, commanders, runs, attempts,
gateways and redirects, `EngineExclusive` (RunsExclusive) and `AttemptsBoundedAndKept`
(AttemptsSound: failures in a row and redirects within their budgets, gateways kept). That one tunnel exists at a time follows from what `EngineInv` says of
each run: tunnel, network, session and publication are made in this order and taken down
in the reverse one (CycleInOrder), and the current run is the one whose serve goroutine
has not ended (Current). The bound on attempts follows because the code's counter of
failures agrees with the attempts there were and leaves room for one more until the run
ends, and that on redirects because a redirect is followed only while there is room for it
(Counted); that a gateway is left only before authentication, because what the engine
shows of the tunnel is how far the current attempt got (Current, StageInOrder). The audio
needs that what a ticker or a Command has read belongs to the session it took it from
(SnapshotFresh, HostsOK). The one assumption besides the types of the limits is that
`None` is no number.

`UdpEndpointProofs` proves, for any number of requests either way and any limits,
`DeliverySafety` (DeliveredOnce) and `CloseSafety` (ClosedIsQuiet, the invariant half of
ClosesCleanly). The limits of the tables are inductive only with the order of Close
(CloseInOrder) and the record types. A final response is followed
from the reader that hands it to its transaction (HandsOver) through the goroutine that
forwards it and the queue to the runtime (FinalKept). ClosedIsQuiet is kept because no
goroutine begins once Close has set its mark, which it does before it waits (CloseInOrder).

`IPsecDataplaneProofs` proves, for any senders, packets, policies, window and word sizes,
and for any end of the numbers:

- `SendSafety` (SendsProtected): a number is used once and nothing of a protected port
  leaves in clear text through a transport;
- `ReceiveSafety` (ReceivesOnce): no number is accepted twice, nothing unverified reaches
  a protected port, and every genuine packet within the window is taken;
- `NothingElseReceived`: the first two of these without the assumption of ReceiveSafety;
- `DataplaneTyped` (TypeOK, a part of FragmentsWhole): counters, windows, reassembly
  buffers and the queue keep their types and limits;
- `ReassemblySafety` (ReassembledWhole, another part of it): a reassembled packet has every
  block of its datagram and none of another.

`IPsecInv` speaks of all generations of the transform, since a sender or the pump may
hold an old one: the numbers given are at most the counter of their association, the
numbers accepted are *used* in its window (marked in it or behind it), and what a window
remembers was accepted (RememberedOK; without it a genuine packet could be refused for a
number nobody used). What a sender has in hand fits the transport it loaded, what
the pump and the queue hold was verified under their own generation, and the policy of a
generation never changes. The lemmas about the window (CheckFails, TakeTyped, TakeUses and
those after them) hold for every window that is not larger than its word: a number that
is used stays so, whatever shifts the window.

The module assumes that packets are records with the fields the code reads, and
ReassemblySafety that they were cut as IP asks (`FragmentsCutByTheRules`, which TLC
evaluates for the scenarios: fragments with one key are of one datagram, and its last
fragment ends where it does; repeats, other cuts and contradictions remain possible, and
`fragmentReassembler` has nothing else to tell datagrams apart by). `ReassemblyInv` adds to
IPsecInv that what waits under a key was cut from packets with that key, and that a total
that is known is the length of one of them. ReceiveSafety alone assumes `LocalSPIsDiffer`:
a registration draws its two SPIs independently (`newRegisterSession`,
`register_session.go:75`, with `randomNonZeroUint32`), so that they differ with
overwhelming likelihood, not certainly; see Observations.

`SipMessagingProofs` proves, for any senders, texts, messages, answers, capacities and
limits of the codec:

- `SendSafety` (SMSSentWhole), assuming `CodecReads`: the decoder reads what the encoder
  writes. That is a statement about folds over the text, which the prover cannot do by
  induction; TLC checks it for each text of the run, as part of the property;
- `StoreSafety` (SMSStored), assuming `MessagesDiffer`, that the network's messages have
  numbers and durable identities of their own (two messages with the same sender, text,
  time and concatenation are one message to the host, by design), and `SendersRead`, that
  the decoder finds the sender the network named unless the address is `Ambiguous` (see
  Observations), again a fold, which TLC checks for the 88 senders of the run, 6 of them
  ambiguous;
- `RefreshSafety` (RefreshSound).

The run's scenarios satisfy these assumptions. Six invariants carry the proofs. *BaseInv*:
a client that sends has subscribed, holds messageMu unless it refreshes, and its Call-ID is
the last one given out, with the CSeq that goes with it; queued tasks and answered requests
are numbered likewise. Without the lock's half nothing keeps another sender's part from
coming between. *RefreshInv*: REGISTERs rise on the wire and in the queue, the wire is
below the queue, and both are strictly below a round that has yet to queue its own, which
is what survives a refresh that gave up on a task that is still queued. *ArchiveInv*
and *AckInv*: what readers, late stores and the archive hold are identities of messages of
the scenario, and RP-ACKs in any stage are for messages that may have one. *OrderInv*: calls
rise in the queue, a later part is the only message in it and follows the last message
written, and a client that waits for the writer has its task in the queue. *PartsInv*: the
parts of a message that are out are the first ones, in order, those below the current one
accepted; and every message has its own number.

`ClientsAssumption` and `InputsAssumption` of SipMessaging say that a goroutine has one
role, that headers and message numbers are numbers and that a TPDU has a type.

Only model-checked, and why:

- all liveness properties: the prover has no support for fairness or ENABLED;
- PiecesRejoin of the dataplane, a fold over the pieces in any order, what SmsPdu's folds compute for
  every text, and the decoding of senders: induction over data;
- the properties of a call in workloads that are not undisturbed, where several of them
  do not hold (`call_runtime.go:492`).

## Findings

1. *A hangup can be lost* (`call_hangup_race`). watchInvite looks at
   `cancelRequested`, writes the ACK, and then makes the call active without looking
   again. A hangup in between leaves the user in an active call.
2. *The response watcher can panic* (`call_watcher_panic`). `finish` sets `pracked`
   to nil; a watcher that handles a reliable 18x at that moment writes to it. It takes
   a hangup whose CANCEL could not be written.

### Observations

Behaviour the models contain that a maintainer may want to know of. Where a property
would forbid it, its comment or the hazard says how it is excepted.

- A dial that fails after `allocateMedia` keeps its sockets (`call_runtime.go:248`); the
  state counts as free, the next incoming call is admitted and its answer fails with
  "incoming reader media is already allocated", although the comment at 611-613 says
  that finish clears them before another INVITE is admitted.
- A renewal that falls due between a missed heartbeat and its confirmation is refused
  because the transport is not healthy (`register_refresh.go:24`), and the refusal ends
  the cycle, although "a brief packet loss ... does not cause needless tunnel churn"
  (`confirmOptionsHeartbeat`).
- A template that requires sec-agree is registered without protection when the answer to
  the AUTS of a resynchronisation is a 200 instead of a fresh challenge
  (`register_session.go:404`).
- A refresh or registration whose answers are not checked natively takes the late
  answer to an abandoned variant for that of the current one
  (`register_native_validation.go:16`).
- A Command that read its call before Stop's teardown opens the audio socket again after
  Stop has returned (`engine.go:743`).
- The two SPIs of a registration are drawn independently (`register_session.go:75`). Were
  they ever equal, inbound packets of both associations would be looked up under one of
  them, and those of the other refused.
- The redirect budget is never reset by a registration
  (`engine_carrier_capabilities.go:74`), and a redirect counts as a failed attempt, so
  one that is the third failure in a row is not followed (`engine.go:342`).
- A sender's name whose length counts characters, as older sources have it, is taken for a
  standard one whenever that reading is possible, which the comment at `sms_pdu.go:787-789`
  intends. "ab" (octets 61 31, length 2) is read as "a". The fields behind the address
  are then read an octet early: mostly the message is refused, and delivered again without
  ever being acknowledged; with a time zone of 0, which is taken for the length of the text,
  it is stored as from "a" and empty.
- A packet whose sender found no transform leaves in clear even if Install has returned in
  between (`transforming_dataplane.go:126`). Protected ports are dialled only after that, so
  nothing that is to be protected is concerned; SendsProtected does not speak of such packets.
- An ACK sent after the INVITE's client transaction ended leaves an entry in `acks`
  (`udp_transport.go:187`); an ACK that arrives before `retransmitAcceptedInvite` has
  registered leaves the 2xx repeating until the peer acknowledges again (421); a
  duplicate that is queued while Close is between cancelling its context and setting
  `closed` can be handled a second time (143-146).

## Not modelled, and why

- Media, codecs and DTMF: sample and packet processing on sockets whose ownership
  CallRuntime models.
- The inside of the tunnel and of the userspace TCP/IP stack (third party), SIM and AKA:
  request/response exchanges with outside parties; here they succeed or fail as a whole.
- SIP header layout, stream framing, DNS resolution, key derivation and encryption:
  abstracted to what the protocol logic tells apart.
- Carrier tables, configuration merging, diagnostics: pure lookups that unit tests
  reach.
- Re-INVITE, UPDATE and INFO within a call, fax, USSD, SOCKS5.
- The Flutter application, native bridges, update service: user interface and platform
  I/O.

## Plan

1. Proofs: done for every module; what is left to TLC is listed above.
2. An abstract cycle that both EngineRun and Maintenance use, and Maintenance shown to
   implement it.
3. Re-INVITE and session updates in CallRuntime; fax on the same gate.
4. Front end: `reader_lease.dart`, `session_owner.dart`, profile state transitions and
   download retry.
