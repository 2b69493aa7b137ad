# ngntun in TLA+

ngntun places (or answers) one "Data Connect" call over NTT's NGN, and for as
long as the call is up it carries IP packets between a tun device and the media
flow of the call. The call is charged while it lasts, so what matters is that a
call is never forgotten, that everything done to the host for its sake is
undone, and that a run ends when it should. These modules state that and check
it: TLC on small instances, TLAPS for every value of the constants where a
theorem is given.

File and line references are to the repository (`internal/...`, `cmd/...`).

## 1. The system

| Part | State it keeps | Operations | What makes it hard |
|---|---|---|---|
| session (`internal/session/session.go`) | the program point of `Run`, the dialog, what was applied, the result | `Run`, `placeCall`, `waitForCall`, `supervise`, `finish`, `hangup`, `unregister` | many error paths after the call is up; a signal at any point; the order of the way out |
| command (`internal/session/command.go`) | a process and its result | `startCommand`, `Exited`, `Wait` | its life is tied to the call's; SIGTERM, then SIGKILL after 5 s |
| client transactions (`internal/sip/transaction.go`) | the pending request, channels of responses, timers | `begin`, `retransmitLoop`, `receive`, `wait`, `close` | three goroutines, two timers, lost and late responses |
| user agent (`internal/sip/ua.go`) | transactions and dialogs by key, the registration's CSeq, the channel of incoming calls | `Register`, `Unregister`, `Invite`, `handle` | two receive loops, the refresher and `Run` share it |
| dialogs (`internal/sip/dialog.go`) | tags, route, CSeq, the ACK, the session's interval, a refresh not yet seen, why it ended | `Bye`, `handleRequest`, `Accept`, `Reject`, `terminate` | both ends hang up, the ACK deadline, repeated INVITEs, a refresh that races the watchdog |
| forwarder (`internal/media/media.go`) | counters, the learned port, two goroutines | `Run`, `tunToNetwork`, `networkToTun`, `acceptSource` | ends from four sides; a blocked `Read` |
| kernel configuration (`internal/netcfg`, `internal/tundev`) | the undo stack; the device, its address and routes, a host route | `Apply`, `EnsureHostRoute`, `Rollback`, `DeleteTun`, `Create`, `Close` | any call can fail, devices vanish, processes are killed, several processes share the tables |
| SDP (`internal/sdp`) | none | `ParseAnswer`, `Offer.Marshal` | other media, addresses in several places |
| messages (`internal/sip/message.go`) | none | `ParseMessage`, `Marshal`, headers, URIs | compact names, folded lines, proxies on the way; a BYE that goes astray leaves a charged call |
| lease (`internal/lease`) | none | `LoadV6`, `LoadV4`, `Build`, `DecodeVendorOpts` | bytes as dhclient prints them, values cut short, half a lease |
| DHCP client hook (`scripts/ngntun-dhclient-script`) | the lease file, the record of its address, the address on the interface | one run for each event of the lease | stopped half way; others change the interface |
| `cmd/ngntun` | options | flags over the lease, the choice of source addresses; the exit status | reads the lease and the interface at different moments |

`Run` calls everything else. It creates the tun, opens the sockets and starts
their receive loops, registers and starts the refresher, makes the call, applies
the configuration, starts the forwarder and the command, waits in `supervise`,
and goes back the same way. Its goroutines meet through channels (`final`,
`errc`, `incoming`, `terminated`, `ackReceived`, `refresh`, `fwdErr`, `exited`)
and through three contexts, of which the outermost ends with SIGINT or SIGTERM.

What each part must get right, and the hazards it is exposed to, line by line,
is the list `hazards` of `PROJECT.json`.

## 2. The modules

| Module | Stands for | Composition |
|---|---|---|
| `CallLifecycle` | the promise: call, settings and command live and die together | implemented by `Session` |
| `Session` | one run, with the far end, the network, the command and signals around it | transactions, registration and forwarder appear by their outcomes |
| `ClientTx` | one client transaction with its timers | what `Session` takes for granted of INVITE, BYE, REGISTER |
| `Registration` | `Run`, the refresher and a registrar | on top of transactions that take up to their timeout |
| `Incoming` | the answering side: receive loop, `waitForCall`, `Accept`, the resender, `Bye` | the call `Session` sees as `AcceptCall` |
| `Forwarder` | `Forwarder.Run` and its three goroutines | what `Session` sees as running, failed, ended |
| `NetConfig` | the kernel's tables, several processes | what `Session` sees as `kernel` and `undo` |
| `SessionTimer` | `supervise`'s clocks and the far end's refreshes | the step `SuperviseTraffic` of `Session` in detail |
| `Texts` | what a text, or the function that reads it, may be besides a value | extended by the next five |
| `Provisioning` | leases, options over them, the source addresses: functions | used by `SourceAddress` and `Inputs` |
| `SourceAddress` | the DHCP client's hook, the interface, `ngntun` reading both | extends `Provisioning` |
| `VendorOpts` | the lease's vendor options, byte by byte | used by `Inputs` |
| `SdpAnswer` | `ParseAnswer` and `Marshal`, and a reference definition | used by `Inputs` |
| `Messages` | SIP messages, and what dialogs and transactions send | used by `Inputs` |
| `Inputs` | each thing `ngntun` reads, and what the text was to say | extends the functions above |
| `SessionProofs`, `ClientTxProofs`, `RegistrationProofs`, `SessionTimerProofs`, `ForwarderProofs`, `IncomingProofs`, `NetConfigProofs` | the theorems about the module of that name (section 5) | each extends its module |
| `InputsProofs` | the theorems about `Inputs` and `SourceAddress`, and about the functions under them | extends both |

The modules `MC...` only give constants their values.

### State and actions against the code

`PROJECT.json` maps every definition to its lines. The conventions:

* A program point (`pc`, `run`, `waiter`, `loop`...) is a place where the
  goroutine can be overtaken by another: a blocking call, a lock let go of, a
  channel. What lies between two of them is one action, with every call it makes.
* The error returns of `Run` are the actions' second disjuncts. Its deferred
  calls run in reverse: `Unregister`, `CloseUA`, `CloseTun`; the points of
  `Session` name the first of them that is due.
* `finish` is `Hangup`, `ResendBye`/`ByeDone`, `RollbackTun`, `RollbackRoute`,
  `CommandWait`.
* `select` with several ready cases takes any of them: the cases of `supervise`
  and of `wait` are separate actions (or disjuncts) with no priority.
* A `sync.Once`, a `select` with `default` and a channel of one place are
  guards: the first one wins, or the message is dropped.
* SIP messages are records or members of a small set; the network may lose any
  of them, and where the module says so repeats and reorders them. A flow that
  is a set keeps one copy of each message.
* What is not under `src/` - registrar, far end, kernel, command, whoever sends
  signals - does what the protocol and the code's use of it allow, and owes
  nothing.

### Abstractions worth knowing

* `Session`: the media, idle and session-timer cases of `supervise` are one
  action, `SuperviseTraffic`, always possible: a superset of what the clock
  allows, which is `SessionTimer`'s. The maximum duration is a switch of the
  command line. A call refused by `waitForCall` is one that `Incoming` tells apart.
  An `Apply` that fails has made nothing, or some of the tun's settings, which it
  withdraws itself (`UndoApply`) before `Run` hangs up.
* `Session` and `NetConfig`: the undo of a setting that is still there is taken to
  succeed; one whose setting has gone fails, is logged and forgotten. Additions
  fail at any point.
* `ClientTx`: a tick is 500 ms. Time advances only when no goroutine has
  anything due, that is, the process is scheduled within half a second. Where two
  timers are due in the same tick the code's choice is open, and so is the model's.
* `Registration`: a tick is of any length (in the run four seconds). A REGISTER
  takes from no time to timer F, before the registrar has it and while the answer
  is on its way. Time stands still only where a goroutine has nothing to do but to
  be scheduled, and once the session is over.
* `Incoming`: one dialog entry suffices, because one call is accepted at most
  (which `OneCall` checks, not assumes: the second acceptance would appear in
  `replied`). The receive loop's lookup and what it does with the result are
  separate steps.
* `Forwarder`: a packet has a port and a shape (well formed or not). Counters are
  bounded by the number of packets.
* `NetConfig`: one address, one link state and one route stand for what `Apply`
  does, and a command line may ask for neither address nor route (`asks`); MTU has
  no undo. A device is known by its owner. Two processes that find the same device
  have each an address of their own on it: only the link and the routes are
  shared. All calls are over one relay.
* `SessionTimer`: a tick is the shortest interval that a deadline can be told
  apart by, and `Grace` and the limits are a few of them. Time goes on only when
  no timer has run out that `supervise` has not seen: the goroutine is scheduled
  within a tick.
* `Messages`: a header's value is a sequence of pieces (a URI, parameters, an
  atom), so that what is looked up, copied and put in order is there and
  characters are not. Hosts are addresses, or `Bad` for a name.
* `SdpAnswer`: a body is a sequence of lines known by their keys; the keys
  `ParseAnswer` skips are left out.
* `VendorOpts`: real bytes, and hexadecimal digits as dhclient prints them, because
  lost zeroes and lengths are what can go wrong.
* `Provisioning`: an address is a record (version, network, number, scope); a
  prefix is the network it contains. Where the code takes the first address in
  the kernel's order, the model takes any.
* `SourceAddress`: one command of the script is one step. The `ip` commands that
  add and that delete may each fail. The script's address is known by its prefix.

## 3. The runs

| Run | Question | Bounds and why they are enough | States |
|---|---|---|---|
| `session` | does a whole run keep its promise? | three command lines in which every option is on once and off once, the calling, the answering and the register-only modes among them; one call, as in the code | 259,214 |
| `session_orphan` | is a call answered while a signal comes hung up? | the plain call | violated |
| `client_tx` | retransmissions, first final, return | the real ratios T2 = 8 T1 and Timeout = 64 T1; INVITE with and without a signal, REGISTER with its 35 s, BYE with its 2 s; one provisional waiting (more are the same to `wait`) | 272,432 |
| `registration` | CSeqs, the last word, the binding's life | ticks of four seconds: timer F is 8, a minute 15; grants of 4 s (always too short), 100 s (too short at first, enough after 132 s), 132 s (the least that is enough at first) and 4 minutes (after which 100 s and 132 s are too short); 4 REGISTERs: first, two refreshes, last | 923,253 |
| `registration_race` | is nothing registered when the process has gone? | the same | violated |
| `forwarder` | one peer, accounting, joining | two ports, the SDP's and another; 3 packets each way, so that one is learned from, one accepted and one dropped | 192,304 |
| `forwarder_stuck` | does the end of the context wake both readers? | 1 packet each way | violated |
| `incoming` | one call, caller told, confirmation | two callers, each kind of offer beside another; two messages in flight, which is enough for a repetition or an ACK beside a BYE | 1,045,972 |
| `netconfig` | rollback, what is left, what is not ours | two processes, same name or not, with and without `--force` and `--media-route`, with an address and a route or with neither; both sets symmetric (no liveness is checked there) | 589,368 |
| `session_timer` | is a call kept that is refreshed in time, and one ended that is overdue? | each limit on once and off once; an interval given, missing, of nothing, longer and shorter than the default; times measured past every limit | 97,537 |
| `source_address` | does the interface carry a stale address, and is one ever chosen? | three prefixes (symmetric): the old, the new and one between; two faults, each a kill or a deletion that fails, so that a script goes wrong while it repairs what another left; options with and without the lease's share | 14,809 |
| `inputs` | is what is read what was meant? | every SDP body of up to five lines out of ten; up to two vendor options cut at every byte, in three ways of printing them, and one longer than 255 bytes; options that differ from a full or an empty command line in up to two places, over three or four leases and interfaces up or down; calls of both roles over up to two proxies, with and without compact names, folded lines and spare bytes | 288,324 |

What they show:

* **session.** `CallAttended`: a live dialog is always on its way to `hangup`,
  whichever step after it failed. `NothingLeftBehind`: a run that has returned
  leaves no setting and no command. `ReleaseBeforeRollback`: no setting that serves
  a call is withdrawn before the BYE went or the call ended; excepted is what an
  `Apply` that fails half way takes back itself. `SuccessMeansCall`: no status of success
  without a call. `SignalEndsRun`, `MaxDurationEndsRun`, `LivesTied`: the ends
  come. `KeepsLifecycle`: the run implements `CallLifecycle`, with the refinement
  mapping in `Session`: the call is up while Run owes it a BYE, the settings are
  those in the kernel.
  One call escapes them, and is modelled (`dlg = "lost"`): when the ACK of a 2xx
  cannot be sent, because its Contact names no address or the send fails
  (ua.go:353), `Invite` returns an error after the dialog was made, `Run` never
  has it, and nobody sends a BYE. The properties speak of the dialogs `Run` has.
* **client_tx.** `LoopServesCaller`, `FirstFinalWins` and `WaitReturns`: a request
  is not repeated after its caller went, the first final response is the answer,
  and the caller gets one.
* **registration.** `CSeqsDistinct` over two goroutines; `LastWordHolds`: the
  highest CSeq decides, however messages are delayed; `BindingKept`: the binding
  does not run out while refreshes succeed, however long they take, if the first
  grant is longer than four transactions (128 s) and than a minute and two of them,
  and each later one longer than the interval made of the first and one more. The
  bounds are exact: with any of them a tick lower TLC finds the binding lapsed.
* **forwarder.** `OnePeer`, `Accounted`, and `EndsOnCancel` for a tun with traffic;
  and, with the types, that the channel's two places are enough for both goroutines.
* **incoming.** `OneCall`, `CallerTold`, `Confirmed`, `TakenIsAnswered`.
* **netconfig.** `NothingLeft`: a process that ran to its end leaves no device, no
  setting on any device and no host route. `UndoIsWhatWasDone`: what a process has
  set is on the device that `Apply` found and on its undo stack, and what is on the
  stack is still set as long as that device is there - except that another
  process that found the same device takes its link down when it goes, and the
  routes with it, never an address. `OthersKept`: interfaces of another type and
  routes that `ngntun` did not add are there for ever, and a call's own host route
  as long as the call.
* **session_timer.** `RefreshedKept`: a far end that refreshes within the interval
  it was told keeps its call, however the refresh races the timer, unless a
  refresh raised the interval. `OverdueEnds`: no call outlives the longest
  duration, a silence, a media that never began or a far end that has gone.
* **source_address.** `NoStaleAddress`: between two events the interface has the
  address of the prefix that is bound and no other, but for one for each script
  killed and each deletion that failed. `SourceIsBound`: `ngntun` chooses an address
  in its lease's prefix, and that is the prefix held, unless the script is at work
  just then or had such a fault.
* **inputs.** `AnswerIsTheMedias`, `OptionsRead`, `ConfigSound`, `RequestsReach`:
  the functions against what their texts were to say. `AnswerIsTheMedias` compares
  the one pass of `ParseAnswer` with a definition by sections. `OptionsRead` and
  `RequestsReach` go both ways: what is encoded and printed is read back, and what
  is read from a message and sent in the dialog is taken by the far end for its own.

Deadlock is checked where the system never stops: `netconfig` (processes are
restarted) and `forwarder` (whose end is the action `Finished`). The other
systems end - the process exits, the transaction closes - and their
configurations say `CHECK_DEADLOCK FALSE`. `source_address`, whose processes start
again, checks it too.

### Disagreements between the code and what is written about it

Three runs end in a violation. Each checks one sentence of the repository.

1. `NoOrphanedCall`. SIGINT means BYE (DESIGN.md:485). During a pending INVITE it
   means nothing: `Invite` returns without CANCEL, and an answer that comes
   later, or waits in `final`, is neither confirmed nor hung up.
2. `GoneMeansUnbound`. The unregistration comes last (DESIGN.md:240). A refresh
   under way can be numbered after it.
3. `CancelWakesReaders`. The end of the context wakes both readers (media.go:109).
   The tun's file is not in Go's poller, and its `Read` sleeps on.

### Remarks

Behaviour that the models show or that the properties leave out, without a run of
its own:

* A signal also ends the forwarder, with nil, and `supervise` may see that first
  (session.go:367): the status is then 6 instead of 0.
* The retransmission loop of an INVITE looks at `gotResponse` only when a retry is
  due: a call that begins to ring after 31.5 s is given up at 32 s
  (transaction.go:92).
* An INVITE that comes while nobody waits goes into the channel `incoming` and
  stays there, neither accepted nor refused; the next one gets 486 (dialog.go:362).
* Two processes can have calls over one relay: the second finds the first one's
  host route, adds none (netcfg_linux.go:125), and loses it when the first call
  ends, though the route is to be there for as long as the call
  (netcfg_linux.go:104). A process killed with SIGKILL leaves its host route.
* A refresh with a longer `Session-Expires` is agreed to (dialog.go:225) and the
  watchdog goes on with the first interval (session.go:394). `RefreshedKept`
  excepts it.
* `ParseAnswer` knows only whether the last `m=` line was ngntun's: a `c=` line of
  another medium replaces the session's address (sdp.go:98), and two data media
  mix (sdp.go:126). `AnswerIsTheMedias` excepts both.
* ngntun's responses as callee carry no `Record-Route` (`responseTo`, ua.go:429),
  so that the caller's route set is what it knows by itself.
* Several routes in one `Record-Route` header are read as one. `Session-Expires`
  has a compact name, `x`, that is not known. Bytes behind `Content-Length` are
  left out, and a `Content-Length` beyond the datagram is accepted.
* Every PRACK has the CSeq after the INVITE's, and so has the BYE.
* `lease6.json` stays as it was when the lease expires or is released; only the
  address taken from the interface keeps a run from the old prefix, and
  `--source-addr` overrides that.
* A script killed between `ip` and the record leaves an address that no later run
  takes for its own; so does an `ip addr del` that fails, since the record goes all
  the same (ngntun-dhclient-script:107, 144, 155).
* An `Apply` that fails half way rolls back by itself (netcfg_linux.go:47), and `Run`
  hangs up only then (session.go:191): on that one way out the BYE is not the first
  thing done, though README.md:369 and DESIGN.md:247 want it before any rollback on
  every way. `ReleaseBeforeRollback` excepts it. (No forwarder runs yet, and the
  delay is that of a few netlink calls.)
* A first grant up to 128 s can lapse between two refreshes that both succeed: the
  ticker of half the grant (a minute at least) starts with the first answer, and
  both transactions may take 32 s (session.go:446, transaction.go:18).
* A BYE that comes after the 200 of an outgoing call and before `Invite` has made the
  dialog finds none and gets 481 (ua.go:193); the dialog is then kept until a timer
  of `supervise`, the command or a signal ends it. `Session` has the case.
* `--sip-port` keeps its low 16 bits, the version of `--source-addr4` is not
  looked at, and vendor options that cannot be decoded are fatal even when the
  options of the command line say everything.

## 4. Fairness

* `Session`: weak fairness of `Main`, the steps of `Run` that wait for nothing
  but bounded timers; of `AwaitCancelled`, since `select` chooses at random among
  ready cases and cannot pass over one for ever; and of `CommandKilled`, since
  `WaitDelay` ends in SIGKILL. None for the far end, the network, a command left
  alone or a read on the tun.
* `ClientTx`: the goroutines run and time passes; strong fairness of
  `WaitProvisional` and `Tick`, which other steps switch off for a moment and
  which the scheduler and the clock do not forget. None for the network.
* `Forwarder`: `FairSpec` schedules the goroutines. `BusySpec` adds that the host
  goes on sending through the tun: an assumption about the environment, without
  which `EndsOnCancel` fails (that is `forwarder_stuck`).
* `Incoming`: the receive loop, `waitForCall`, the resender's deadline and the
  BYE's two seconds. None for callers or network.
* `Registration`, `NetConfig`, `SessionTimer`, `SourceAddress` and `Inputs` state no
  liveness. What `SessionTimer` says of deadlines is safety: time does not pass them.

## 5. What is proved

For every value of the constants; the theorems are listed in `PROJECT.json`. Each
component has its inductive invariant, called `Inv` in its proof module, which was
checked with TLC on the component's run before it was proved. Every proof has one
lemma for each part of the invariant and one step for each action; the last
theorems take the properties from it, and `PTL` does the temporal steps.

| Module | Theorem | Property |
|---|---|---|
| `SessionProofs` | `TypeCorrect`, `Attended`, `Clean`, `SuccessIsEarned`, `ReleasedFirst` | `TypeOK`, `CallAttended`, `NothingLeftBehind`, `SuccessMeansCall`, `ReleaseBeforeRollback` |
| | `Implements` | `KeepsLifecycle`: `Spec => Lifecycle!Spec` |
| `ClientTxProofs` | `TypesHold`, `FirstFinalIsReturned`, `LoopRunsForCaller` | `TypeOK`, `FirstFinalWins`, `LoopServesCaller` |
| `RegistrationProofs` | `TypesHold`, `CSeqsStayDistinct`, `LastWordStands`, `BindingStaysKept` | `TypeOK`, `CSeqsDistinct`, `LastWordHolds`, `BindingKept` |
| `SessionTimerProofs` | `TypesHold`, `NoCallOverdue`, `RefreshedIsKept` | `TypeOK`, `OverdueEnds`, `RefreshedKept` |
| `ForwarderProofs` | `TypesHold`, `OnlyOnePeer`, `AllAccounted` | `TypeOK`, `OnePeer`, `Accounted` |
| `IncomingProofs` | `TypesHold`, `OnlyOneCall`, `CallerIsTold` | `TypeOK`, `OneCall`, `CallerTold` |
| `NetConfigProofs` | `TypesHold`, `NothingIsLeft`, `UndoKnowsWhatWasDone`, `OthersAreKept` | `TypeOK`, `NothingLeft`, `UndoIsWhatWasDone`, `OthersKept` |
| `InputsProofs` | `TypesHold`, `OldAddressesGo`, `SourceFollowsLease` | `TypeOK`, `NoStaleAddress`, `SourceIsBound` of `SourceAddress` |
| | `RunsAreConfigured`, `AnswersAreTheMedias`, `VendorOptionsAreReadBack`, `RequestsArrive` | `ConfigSound`, `AnswerIsTheMedias`, `OptionsRead`, `RequestsReach` of `Inputs` |
| | `ConfigurationsAreSound`, `AnswerIsMeant`, `OfferIsRead` | what the first two rest on, for any arguments of the functions |

So every invariant that a passing run checks is a theorem too.

The arguments, and why the properties are not inductive by themselves:

* **Session.** `CallAttended` and `NothingLeftBehind` speak of one program point
  and hold because of what happened at earlier ones. The strengthening is
  `Unwinding`: what is in the kernel is in `undo`; before the call there is no
  dialog, no setting and no command; while a failed `Apply` unwinds nothing but
  its own part is set; between `Hangup` and the rollback the call is released; after `RollbackRoute` there is nothing to withdraw; after
  `CommandWait` no command runs. `Earned`, for `SuccessMeansCall`, adds what a run
  without an error has behind it when it comes to its deferred calls. The
  refinement maps each action to one of `CallLifecycle` or to a stutter, under `Inv`.
* **ClientTx.** What waits in the channel `final` while the transaction is open is
  the first final response (`Waiting`), and a loop that has ended while its caller
  waits has left it an error, unless an INVITE was answered (`Served`).
* **Registration.** The CSeqs of the REGISTERs out and sent are below the counter,
  and the unregistration's request is the last of `Run` (`Numbers`); the
  registrar's binding is the word of the highest number it has seen (`Words`). For
  `BindingKept` the ages of the transactions are weighed against the binding: when
  the first one ends, the binding has run no longer than it took (`First`); ticker
  and age of a refresh make up the interval (`Clock`); and while nothing went wrong
  the binding has a transaction more left than the ticker, or, during a refresh, as
  much as that may still take (`Ahead`). The lemma `IntervalBounds` is where half
  the grant and the minute come in.
* **SessionTimer.** A tick leaves the sum of a timer's time left and the time it
  measures alone. The sum is not above the limit (`NotTooLate`, for
  `OverdueEnds`) and not below the interval (`NotTooSoon`, for `RefreshedKept`).
* **Forwarder.** A packet is judged when it is taken and delivered later
  (`Judged`); each goroutine loses one packet at most, when it returns (`Losses`),
  and sends one result (`Sent`).
* **Incoming.** Whose the dialog is at each point of `Run` (`Engaged`), who may
  have been told 200 (`OneVoice`), that a BYE from the far end was the last of its
  caller (`Farewells`), and why `Run` may end without a BYE of its own (`Left`).
* **NetConfig.** A device with a process's name belongs to it between its creation
  and its close (`Devices`); only a device that is there was found and has settings
  (`Found`); the undo stack follows from where the process stands (`Stacked`); the
  host route is withdrawn by whoever added it (`Routed`). In the proof of
  `UndoIsWhatWasDone` it shows why two processes on one device part in peace: the
  stacks have the link before the routes, so whoever goes first undoes the routes
  first.
* **SourceAddress.** Every address on the interface is on record, about to be, or
  stands against a fault, that is, a killed script or a failed deletion (`Debts`, one
  clause for each command; `DeleteFew` for the deletions). The source
  is chosen by `buildConfig`, of which the lemmas `Provisioned`, `Overridden` and
  `SourceV6Chosen` hold for all options, leases and interfaces.
* **Inputs.** The invariants are simple (what was read is what the function gives);
  the work is in the functions, which go through a text from its start to its
  end. They are recursive functions on the places of the text, and the lemma
  `Induction` stands for induction over data: of the numbers up to n for which a
  statement fails, given as a set, there is no least one.
  *ParseAnswer:* `BodyRead` says what has been read after n lines in the words of
  the sections: the session's address is that of the last `c=` line that is in no
  data medium, and so on for each field; `AnswerIsMeant` is its last instance.
  *Vendor options:* `FlatIs` and `PlacedIn` say where each piece of a text that was
  put together stands; `HexIsRead` gives back the bytes from each way of printing
  them; `ChainRead` follows the pieces from the end of one to the start of the
  next, for the options and for the labels of a name; `OptionsUpToAre` says that
  the last option of each kind counts; `CutIsRead` and `CutAfter` tell a cut
  between two options from one within.
  *Messages:* a list of headers is taken apart with the same two lemmas as any text
  that was put together. `ListRead` says what is read of a name in a list of headers
  and in two lists after each other; the lists of each request, response and dialog
  are joined from it. `LinesAre` and `LinesRead` give back the headers from their
  lines, short names and folded values included; `MessageRead` adds that
  `Content-Length`, which `Marshal` puts last, cuts the body where it ends, whatever
  stands behind it. Then a dialog has the far end's tag, target and routes, and a
  request made of it is read back with the values it was given.

The assumptions on the constants are named and stand in the modules; TLC evaluates
them on the runs. They are shapes (`ConfigsAssumption`, `RequestsAssumption`,
`IncomingAssumption`, `OptionsAssumption`) and these:

* `TimersAssumption`: T1 is positive, T2 is no less, the timeout is beyond T1.
* `RegistrationAssumption`: no lifetime of nothing is granted; a transaction may take
  some time and no longer than a minute (32 s).
* `ForwarderAssumption`: 0 is no port (the code's mark for "not learned").
* `TimerAssumption`, `ClockAssumption`: the default interval is positive (NewUA sees
  to that), the watchdog adds some time to the interval (30 s, session.go:415), and
  the model's cut-off of the times measured is beyond that.
* `ProcsAssumption`: the marks for "nobody" are no process.
* `SourceAssumption`: the prefixes are finitely many; `None` is no prefix, lease or
  address; a prefix's lease delegates it; the interface's other addresses are in
  no delegated prefix. The last one is a real limit: who turns off the script's
  address (`NGNTUN_SKIP_ADDR`) and puts one of the prefix there by hand has to
  take it away too.

* `TextsAssumption`: `None`, `Bad` and `Failed` differ.
* `RunsAssumption`: the lists and vendor options of a lease that was read are
  there, if empty; an address is of IPv4 or IPv6; an error is no configuration.
* `TextsOfSdpAssumption`: the `c=` lines of a body have something in them (`Bad`
  included); an offer has an address, a port that is one and a bandwidth.
* `WrittenOptionsAssumption`: codes and lengths are of two bytes and labels of 1 to
  63; a domain is the encoding of a name, with nothing behind it but its root, or
  has something behind it that is no label; an error is no value of an option. It is
  what a DHCP server can write and mean: a domain with bytes behind its root is
  read up to there, and `OptionsRead` says nothing of such a one.
* `CallsAssumption`: a call's path and the bytes behind a body are sequences; the
  marks `None` and `Bad` are no words, and not how a message starts.

Only model-checked, and why:

* The liveness properties (`SignalEndsRun`, `MaxDurationEndsRun`, `LivesTied`,
  `WaitReturns`, `EndsOnCancel`, `Confirmed`, `TakenIsAnswered`): fairness and
  `ENABLED` are beyond the prover.
* The three properties of section 3 that are violated.

## 6. What is not modelled

* Characters: the texts of messages, SDP and flags are cut into the pieces that
  the code looks at, and malformed text is one value, `Bad`.
* Sockets, DSCP, `SO_BINDTODEVICE`: system calls without state of their own.
* The syntax of flags, the usage text, `--dry-run` and the summary printed.
* In-dialog OPTIONS and unknown methods: answered without a change of state.
* The statistics' sizes and times, and the command's environment.
* `50-ngntun` and the unit files: they start programs.
* `*_other.go`: every function returns an error.

## 7. The plan

Done, in this order: `Session` with `CallLifecycle`, its proofs, `ClientTx`,
`Registration`, `Forwarder`, `Incoming`, `NetConfig`; then `SessionTimer`,
`Provisioning` with `SourceAddress`, `SdpAnswer`, `VendorOpts`, `Messages` and
`Inputs`.

Then the theorems of section 5, for every component with a state of its own.

What would come next: the ACK and the resender of `Incoming`, once the model tells
whose ACK it is; and a common refinement, that `Registration` and `ClientTx` keep
what `Session` takes for granted of them. In the models: whether the ACK that stops
the 200 is the 200's (dialog.go:210), in `Incoming`.
