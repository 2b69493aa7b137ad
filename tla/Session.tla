------------------------------ MODULE Session ------------------------------
(***************************************************************************)
(* One run of ngntun: session.Run (internal/session/session.go) with the   *)
(* goroutines it starts -- the SIP receive loops, the forwarder, the       *)
(* command's waiter, the 200 OK retransmitter -- and the actors around it: *)
(* the far end of the call, a network that loses messages, the command,    *)
(* the kernel, and whoever sends SIGINT or SIGTERM.                        *)
(*                                                                         *)
(* SIP transactions appear by their outcomes (module ClientTx has their    *)
(* timers), registration by the run's own view of it (Registration), and   *)
(* the forwarder by its closing and its end (Forwarder).                   *)
(***************************************************************************)
EXTENDS Naturals

CONSTANT Configs    \* the command lines considered

ASSUME ConfigsAssumption ==
    Configs \subseteq [answer : BOOLEAN, registerOnly : BOOLEAN,
                       mediaRoute : BOOLEAN, command : BOOLEAN,
                       force : BOOLEAN, maxDuration : BOOLEAN]

VARIABLES
    cfg,        \* session.Config of this run
    pc,         \* where session.Run stands
    reason,     \* Result.Reason
    err,        \* the class of Run's error, as exitCodeFor tells them apart
    sig,        \* the context of signal.NotifyContext is cancelled
    reg,        \* "none", "held" (an unregister is deferred), "released"
    dev,        \* the interface named TunName: "none", "stale", "ours"
    media,      \* the media socket and the tun's file are open
    kernel,     \* kernel settings in force
    undo,       \* kernel settings a Rollback would withdraw
    fwd,        \* the forwarder: "off", "running", "failed", "ended"
    stopped,    \* finish has run: stopCmd and stopFwd are called
    cmd,        \* the command: "idle", "running", "exited"
    dlg,        \* Run's dialog: "none", "active", "terminated"; "lost" when
                \* Invite failed after addDialog, and Run never had it
    why,        \* Dialog.termReason
    acked,      \* Dialog.ackReceived is closed
    byeFailed,  \* Bye could not be sent
    final,      \* clientTx.final of the INVITE
    heard,      \* clientTx.gotResponse of the INVITE
    incoming,   \* a call waits in UA.incoming
    peer,       \* the far end's view of the call; the 2xx it awaits an ACK for
    wire        \* SIP messages in flight

mainVars == <<cfg, reason, err>>
hostVars == <<dev, media, kernel, undo, fwd, stopped>>
dlgVars  == <<dlg, why, acked, byeFailed>>
txVars   == <<final, heard, incoming>>
netVars  == <<peer, wire>>
vars == <<cfg, pc, reason, err, sig, reg, dev, media, kernel, undo, fwd,
          stopped, cmd, dlg, why, acked, byeFailed, final, heard, incoming,
          peer, wire>>

-----------------------------------------------------------------------------
PCs == {"checkTun", "createTun", "newUA", "register", "registerOnly", "dial",
        "invite", "inviting", "awaitCall", "apply", "unapply", "route",
        "startFwd", "startCmd", "supervise", "hangup", "byeWait", "rollback",
        "rollbackRoute", "cmdWait", "unregister", "closeUA", "closeTun",
        "returned", "exited"}

\* The program points at which a dialog is Run's to look after.
Held == {"apply", "unapply", "route", "startFwd", "startCmd", "supervise",
         "hangup", "byeWait"}

\* Answers to the INVITE: usable; with SDP that ParseAnswer refuses; with
\* no To tag or Contact, so that no dialog can be made of it; a refusal.
Answers == {"2xx", "2xxBadSDP", "2xxNoDialog"}
Finals  == Answers \union {"refuse"}

\* Messages towards the far end, and messages from it ("r...": requests).
Messages == {"INVITE", "ACK", "BYE", "200"} \union
            Finals \union {"1xx", "rINVITE", "rACK", "rBYE"}

RunOK ==
    /\ cfg \in Configs
    /\ pc \in PCs
    /\ reason \in {"none", "idle-timeout", "max-duration", "remote-bye",
                   "signal", "media-timeout", "command-exit", "error"}
    /\ err \in {"none", "auth", "REGISTER", "INVITE", "mediaEnded", "other"}
    /\ sig \in BOOLEAN
    /\ reg \in {"none", "held", "released"}

HostOK ==
    /\ dev \in {"none", "stale", "ours"}
    /\ media \in BOOLEAN
    /\ kernel \subseteq {"tunconf", "hostroute"}
    /\ undo \subseteq {"tunconf", "hostroute"}
    /\ fwd \in {"off", "running", "failed", "ended"}
    /\ stopped \in BOOLEAN
    /\ cmd \in {"idle", "running", "exited"}

CallOK ==
    /\ dlg \in {"none", "active", "terminated", "lost"}
    /\ why \in {"none", "local-bye", "remote-bye", "no-ack"}
    /\ acked \in BOOLEAN
    /\ byeFailed \in BOOLEAN
    /\ final \in Finals \union {"none"}
    /\ heard \in BOOLEAN
    /\ incoming \in BOOLEAN
    /\ peer \in Answers \union {"idle", "ringing", "calling", "up", "ended"}

\* Every variable has a value of its kind.
TypeOK == RunOK /\ HostOK /\ CallOK /\ wire \subseteq Messages

Init ==
    /\ cfg \in Configs
    /\ pc = "checkTun"
    /\ reason = "none" /\ err = "none"
    /\ sig = FALSE
    /\ reg = "none"
    /\ dev \in {"none", "stale"}
    /\ media = FALSE
    /\ kernel = {} /\ undo = {}
    /\ fwd = "off" /\ stopped = FALSE
    /\ cmd = "idle"
    /\ dlg = "none" /\ why = "none" /\ acked = FALSE /\ byeFailed = FALSE
    /\ final = "none" /\ heard = FALSE /\ incoming = FALSE
    /\ peer = "idle" /\ wire = {}

\* The receive loops run from UA.Start to UA.Close; a signal does not stop
\* them.
Listening == pc \notin {"checkTun", "createTun", "newUA", "closeTun",
                        "returned", "exited"}

Released == dlg = "terminated" \/ byeFailed

\* (A slip Fail guards against: an error after the call without a hangup.)
FailWithoutHangup(e, at) ==
    /\ err' = e
    /\ reason' = "none"
    /\ pc' = IF at = "hangup" THEN "unregister" ELSE at

\* Run's error return: its deferred functions run from the last one
\* registered back to the first.
Fail(e, at) ==
    /\ err' = e
    /\ reason' = "none"
    /\ pc' = at

-----------------------------------------------------------------------------
(***************************************************************************)
(* Before the call: the tun first, so that a lack of privilege shows       *)
(* before anything is charged, then the sockets and the registration.      *)
(***************************************************************************)
CheckTun ==
    /\ pc = "checkTun"
    /\ \/ /\ dev = "none"
          /\ pc' = "createTun"
          /\ UNCHANGED <<dev, reason, err>>
       \/ /\ dev = "stale" /\ cfg.force
          /\ dev' = "none"                 \* netcfg.DeleteTun
          /\ pc' = "createTun"
          /\ UNCHANGED <<reason, err>>
       \/ /\ dev = "stale"                 \* no --force, or DeleteTun fails
          /\ Fail("other", "returned")
          /\ UNCHANGED dev
    /\ UNCHANGED <<cfg, sig, reg, media, kernel, undo, fwd, stopped, cmd>>
    /\ UNCHANGED <<dlgVars, txVars, netVars>>

CreateTun ==
    /\ pc = "createTun"
    /\ \/ dev' = "ours" /\ pc' = "newUA" /\ UNCHANGED <<reason, err>>
       \/ Fail("other", "returned") /\ UNCHANGED dev
    /\ UNCHANGED <<cfg, sig, reg, media, kernel, undo, fwd, stopped, cmd>>
    /\ UNCHANGED <<dlgVars, txVars, netVars>>

NewUA ==
    /\ pc = "newUA"
    /\ \/ pc' = "register" /\ UNCHANGED <<reason, err>>
       \/ Fail("other", "closeTun")
    /\ UNCHANGED <<cfg, sig, reg, hostVars, cmd, dlgVars, txVars, netVars>>

\* Register returns within its 35 s whatever happens; no unregister is
\* deferred unless it succeeded.
Register ==
    /\ pc = "register"
    /\ \/ /\ reg' = "held"
          /\ pc' = IF cfg.registerOnly THEN "registerOnly" ELSE "dial"
          /\ UNCHANGED <<reason, err>>
       \/ /\ \E e \in {"REGISTER", "auth", "other"} : Fail(e, "closeUA")
          /\ UNCHANGED reg
    /\ UNCHANGED <<cfg, sig, hostVars, cmd, dlgVars, txVars, netVars>>

RegisterOnly ==
    /\ pc = "registerOnly" /\ sig
    /\ reason' = "signal"
    /\ pc' = "unregister"
    /\ UNCHANGED <<cfg, err, sig, reg, hostVars, cmd>>
    /\ UNCHANGED <<dlgVars, txVars, netVars>>

DialMedia ==
    /\ pc = "dial"
    /\ \/ /\ media' = TRUE
          /\ pc' = IF cfg.answer THEN "awaitCall" ELSE "invite"
          /\ UNCHANGED <<reason, err>>
       \/ Fail("other", "unregister") /\ UNCHANGED media
    /\ UNCHANGED <<cfg, sig, reg, dev, kernel, undo, fwd, stopped, cmd>>
    /\ UNCHANGED <<dlgVars, txVars, netVars>>

-----------------------------------------------------------------------------
(***************************************************************************)
(* Calling (placeCall and UA.Invite).                                      *)
(***************************************************************************)
SendInvite ==
    /\ pc = "invite"
    /\ \/ wire' = wire \union {"INVITE"} /\ pc' = "inviting"
          /\ UNCHANGED <<reason, err>>
       \/ Fail("other", "unregister") /\ UNCHANGED wire
    /\ UNCHANGED <<cfg, sig, reg, hostVars, cmd, dlgVars, txVars, peer>>

\* The retransmission loop, which stops at the first response.
ResendInvite ==
    /\ pc = "inviting" /\ ~heard
    /\ wire' = wire \union {"INVITE"}
    /\ UNCHANGED <<cfg, pc, reason, err, sig, reg, hostVars, cmd>>
    /\ UNCHANGED <<dlgVars, txVars, peer>>

\* Timer B, or a retransmission that cannot be sent.  The loop looks at the
\* timer and at gotResponse separately: it can time out after a provisional.
InviteTimesOut ==
    /\ pc = "inviting"
    /\ Fail("INVITE", "unregister")
    /\ UNCHANGED <<cfg, sig, reg, hostVars, cmd, dlgVars, txVars, netVars>>

\* (A slip: wait() deaf to its context.)
InviteNotCancelled == FALSE

\* wait() sees the context cancelled: the INVITE is abandoned as it stands,
\* even if an answer is already waiting in tx.final.
InviteCancelled ==
    /\ pc = "inviting" /\ sig
    /\ Fail("INVITE", "unregister")
    /\ UNCHANGED <<cfg, sig, reg, hostVars, cmd, dlgVars, txVars, netVars>>

\* wait() takes the final response.  A 2xx makes the dialog and is ACKed
\* before its SDP is looked at; bad SDP is hung up on, but not a dialog whose
\* ACK fails (its Contact names no address, or the send fails).
InviteFinal ==
    /\ pc = "inviting" /\ final # "none"
    /\ \/ /\ final = "refuse"
          /\ Fail("INVITE", "unregister")
          /\ UNCHANGED <<dlg, wire>>
       \/ /\ final = "2xxNoDialog"
          /\ Fail("other", "unregister")
          /\ UNCHANGED <<dlg, wire>>
       \/ /\ final \in {"2xx", "2xxBadSDP"}     \* the ACK cannot be sent
          /\ dlg' = "lost"
          /\ Fail("other", "unregister")
          /\ UNCHANGED wire
       \/ /\ final = "2xxBadSDP"
          /\ dlg' = "active"
          /\ wire' = wire \union {"ACK"}
          /\ Fail("other", "hangup")
       \/ /\ final = "2xx"
          /\ dlg' = "active"
          /\ wire' = wire \union {"ACK"}
          /\ pc' = "apply"
          /\ UNCHANGED <<reason, err>>
    /\ UNCHANGED <<cfg, sig, reg, hostVars, cmd, why, acked, byeFailed>>
    /\ UNCHANGED <<txVars, peer>>

\* handleResponse: while the transaction is open its first final is kept
\* and repetitions are dropped; afterwards a repeated 2xx is ACKed again if
\* the dialog is known (a lost one, if its ACK was ever made), and anything
\* else is ignored.
ReceiveResponse(m) ==
    /\ Listening
    /\ m \in wire /\ m \in Finals \union {"1xx"}
    /\ \/ /\ pc = "inviting"
          /\ heard' = TRUE
          /\ final' = IF m \in Finals /\ final = "none" THEN m ELSE final
          /\ wire' = wire \ {m}
       \/ /\ pc # "inviting"
          /\ \/ wire' = wire \ {m} /\ (dlg = "active" => m \notin Answers)
             \/ /\ m \in Answers /\ dlg \in {"active", "lost"}
                /\ wire' = (wire \ {m}) \union {"ACK"}
          /\ UNCHANGED <<heard, final>>
    /\ UNCHANGED <<cfg, pc, reason, err, sig, reg, hostVars, cmd>>
    /\ UNCHANGED <<dlgVars, incoming, peer>>

-----------------------------------------------------------------------------
(***************************************************************************)
(* Waiting for a call (waitForCall, IncomingCall.Accept).                  *)
(***************************************************************************)
ReceiveInvite ==
    /\ Listening
    /\ "rINVITE" \in wire
    /\ wire' = wire \ {"rINVITE"}
    /\ incoming' = TRUE                 \* or 486 when one waits: Incoming.tla
    /\ UNCHANGED <<cfg, pc, reason, err, sig, reg, hostVars, cmd>>
    /\ UNCHANGED <<dlgVars, final, heard, peer>>

\* A caller not allowed (403) or an offer that cannot be used (488).
RejectCall ==
    /\ pc = "awaitCall" /\ incoming
    /\ incoming' = FALSE
    /\ peer' = "idle"
    /\ UNCHANGED <<cfg, pc, reason, err, sig, reg, hostVars, cmd>>
    /\ UNCHANGED <<dlgVars, final, heard, wire>>

AcceptCall ==
    /\ pc = "awaitCall" /\ incoming
    /\ incoming' = FALSE
    /\ \/ /\ dlg' = "active"
          /\ wire' = wire \union {"200"}
          /\ pc' = "apply"
          /\ UNCHANGED <<reason, err>>
       \/ /\ \E e \in {"INVITE", "other"} : Fail(e, "unregister")
          /\ UNCHANGED <<dlg, wire>>
    /\ UNCHANGED <<cfg, sig, reg, hostVars, cmd, why, acked, byeFailed>>
    /\ UNCHANGED <<final, heard, peer>>

\* (A slip: the wait for a call ended by a signal taken for a session.)
AwaitCancelledAsSession ==
    /\ pc = "awaitCall" /\ sig
    /\ reason' = "signal" /\ err' = "none"
    /\ pc' = "unregister"
    /\ UNCHANGED <<cfg, sig, reg, hostVars, cmd, dlgVars, txVars, netVars>>

AwaitCancelled ==
    /\ pc = "awaitCall" /\ sig
    /\ Fail("other", "unregister")
    /\ UNCHANGED <<cfg, sig, reg, hostVars, cmd, dlgVars, txVars, netVars>>

\* Accept's goroutine: the 200 OK again until the ACK or the end.
Resend200 ==
    /\ cfg.answer /\ dlg = "active" /\ ~acked /\ Listening
    /\ wire' = wire \union {"200"}
    /\ UNCHANGED <<cfg, pc, reason, err, sig, reg, hostVars, cmd>>
    /\ UNCHANGED <<dlgVars, txVars, peer>>

NoAck ==
    /\ cfg.answer /\ dlg = "active" /\ ~acked /\ Listening
    /\ dlg' = "terminated" /\ why' = "no-ack"
    /\ UNCHANGED <<cfg, pc, reason, err, sig, reg, hostVars, cmd>>
    /\ UNCHANGED <<acked, byeFailed, txVars, netVars>>

ReceiveAck ==
    /\ Listening
    /\ "rACK" \in wire
    /\ wire' = wire \ {"rACK"}
    /\ acked' = (acked \/ dlg = "active")
    /\ UNCHANGED <<cfg, pc, reason, err, sig, reg, hostVars, cmd>>
    /\ UNCHANGED <<dlg, why, byeFailed, txVars, peer>>

\* A BYE for a dialog we know ends it; any other is answered 481.
ReceiveBye ==
    /\ Listening
    /\ "rBYE" \in wire
    /\ wire' = wire \ {"rBYE"}
    /\ IF dlg = "active"
       THEN dlg' = "terminated" /\ why' = "remote-bye"
       ELSE UNCHANGED <<dlg, why>>
    /\ UNCHANGED <<cfg, pc, reason, err, sig, reg, hostVars, cmd>>
    /\ UNCHANGED <<acked, byeFailed, txVars, peer>>

-----------------------------------------------------------------------------
(***************************************************************************)
(* The call is up: configuration, forwarder, command.                      *)
(***************************************************************************)
\* Applied.Rollback.  The undo of a setting that is there is taken to succeed;
\* one whose setting is gone fails, is logged and forgotten.
Rollback(s, at, next) ==
    /\ pc = at
    /\ kernel' = kernel \ (undo \intersect {s})
    /\ undo' = undo \ {s}
    /\ pc' = next
    /\ UNCHANGED <<cfg, reason, err, sig, reg, dev, media, fwd, stopped, cmd>>
    /\ UNCHANGED <<dlgVars, txVars, netVars>>

\* netcfg.Apply: all the settings of the tun, none, or some of them before the
\* one that fails; those it withdraws again itself, before Run hangs up.
ApplyConfig ==
    /\ pc = "apply"
    /\ \/ /\ kernel' = kernel \union {"tunconf"}
          /\ undo' = undo \union {"tunconf"}
          /\ pc' = IF cfg.mediaRoute THEN "route" ELSE "startFwd"
          /\ UNCHANGED <<reason, err>>
       \/ /\ kernel' = kernel \union {"tunconf"}
          /\ undo' = undo \union {"tunconf"}
          /\ Fail("other", "unapply")
       \/ Fail("other", "hangup") /\ UNCHANGED <<kernel, undo>>
    /\ UNCHANGED <<cfg, sig, reg, dev, media, fwd, stopped, cmd>>
    /\ UNCHANGED <<dlgVars, txVars, netVars>>

UndoApply == Rollback("tunconf", "unapply", "hangup")

\* netcfg.EnsureHostRoute: nothing to do, the route added, or an error.
EnsureHostRoute ==
    /\ pc = "route"
    /\ \/ /\ pc' = "startFwd"
          /\ UNCHANGED <<kernel, undo, reason, err>>
       \/ /\ kernel' = kernel \union {"hostroute"}
          /\ undo' = undo \union {"hostroute"}
          /\ pc' = "startFwd"
          /\ UNCHANGED <<reason, err>>
       \/ Fail("other", "hangup") /\ UNCHANGED <<kernel, undo>>
    /\ UNCHANGED <<cfg, sig, reg, dev, media, fwd, stopped, cmd>>
    /\ UNCHANGED <<dlgVars, txVars, netVars>>

StartForwarder ==
    /\ pc = "startFwd"
    /\ fwd' = "running"
    /\ pc' = IF cfg.command THEN "startCmd" ELSE "supervise"
    /\ UNCHANGED <<cfg, reason, err, sig, reg, dev, media, kernel, undo>>
    /\ UNCHANGED <<stopped, cmd, dlgVars, txVars, netVars>>

\* (Slips: the configuration withdrawn before the BYE; reason and error
\* exchanged.)
FinishRollbackFirst(r, e) ==
    reason' = r /\ err' = e /\ stopped' = TRUE /\ pc' = "rollback"
FinishExchanged(r, e) ==
    reason' = e /\ err' = r /\ stopped' = TRUE /\ pc' = "hangup"

\* finish() from every way out of a session that got this far.
Finish(r, e) ==
    /\ reason' = r
    /\ err' = e
    /\ stopped' = TRUE
    /\ pc' = "hangup"

\* exec.Cmd.Start refuses a context already cancelled, besides failing for
\* reasons of its own.
StartCommand ==
    /\ pc = "startCmd"
    /\ \/ /\ ~sig
          /\ cmd' = "running"
          /\ pc' = "supervise"
          /\ UNCHANGED <<reason, err, stopped>>
       \/ Finish("error", "other") /\ UNCHANGED cmd
    /\ UNCHANGED <<cfg, sig, reg, dev, media, kernel, undo, fwd>>
    /\ UNCHANGED <<dlgVars, txVars, netVars>>

\* The select of supervise: any case that is ready.
Supervised(r, e) ==
    /\ pc = "supervise"
    /\ Finish(r, e)
    /\ UNCHANGED <<cfg, sig, reg, dev, media, kernel, undo, fwd, cmd>>
    /\ UNCHANGED <<dlgVars, txVars, netVars>>

SuperviseNoCommand   == FALSE    \* (A slip: the command's end not watched.)

SuperviseSignal      == sig /\ Supervised("signal", "none")
SuperviseForwarder   == \/ fwd = "failed" /\ Supervised("error", "other")
                        \/ fwd = "ended" /\ Supervised("error", "mediaEnded")
SuperviseTerminated  == dlg = "terminated" /\ Supervised("remote-bye", "none")
SuperviseCommand     == cmd = "exited" /\ Supervised("command-exit", "none")
SuperviseMaxDuration == cfg.maxDuration /\ Supervised("max-duration", "none")
\* Timers that fire or not depending on the traffic and on the refreshes of
\* the session: their values are left open (module SessionTimer has them).
SuperviseTraffic     == \/ Supervised("media-timeout", "none")
                        \/ Supervised("idle-timeout", "none")
                        \/ Supervised("error", "other")

Supervise == \/ SuperviseSignal \/ SuperviseForwarder \/ SuperviseTerminated
             \/ SuperviseCommand \/ SuperviseMaxDuration

-----------------------------------------------------------------------------
(***************************************************************************)
(* The forwarder and the command, as far as Run can tell.                  *)
(***************************************************************************)
\* Run's closer goroutine: the forwarder's context is a child of Run's.
ForwarderCloses ==
    /\ fwd = "running" /\ media
    /\ sig \/ stopped
    /\ media' = FALSE
    /\ UNCHANGED <<cfg, pc, reason, err, sig, reg, dev, kernel, undo, fwd>>
    /\ UNCHANGED <<stopped, cmd, dlgVars, txVars, netVars>>

\* A packet read after that lets go of the tun's file: the last reference,
\* so that the device goes, and its addresses and routes with it.
ForwarderEnds ==
    /\ fwd = "running" /\ ~media
    /\ fwd' = "ended"
    /\ dev' = "none"
    /\ kernel' = kernel \ {"tunconf"}
    /\ UNCHANGED <<cfg, pc, reason, err, sig, reg, media, undo, stopped, cmd>>
    /\ UNCHANGED <<dlgVars, txVars, netVars>>

\* Reading the tun or sending media fails.
ForwarderFails ==
    /\ fwd = "running" /\ media
    /\ fwd' = "failed"
    /\ media' = FALSE
    /\ dev' = "none"
    /\ kernel' = kernel \ {"tunconf"}
    /\ UNCHANGED <<cfg, pc, reason, err, sig, reg, undo, stopped, cmd>>
    /\ UNCHANGED <<dlgVars, txVars, netVars>>

CommandEnded ==
    /\ cmd' = "exited"
    /\ UNCHANGED <<cfg, pc, reason, err, sig, reg, hostVars>>
    /\ UNCHANGED <<dlgVars, txVars, netVars>>

CommandExits == cmd = "running" /\ CommandEnded

\* (A slip: the command under Run's context instead of its own.)
CommandKilledBySignal == cmd = "running" /\ sig /\ CommandEnded

\* SIGTERM, and SIGKILL after commandKillDelay, once cmdCtx is cancelled.
CommandKilled == cmd = "running" /\ (sig \/ stopped) /\ CommandEnded

-----------------------------------------------------------------------------
(***************************************************************************)
(* The way out: BYE, then the configuration, then the rest.                *)
(***************************************************************************)
\* hangup(): nothing for a call that has ended, otherwise BYE.
Hangup ==
    /\ pc = "hangup"
    /\ \/ /\ dlg = "terminated"
          /\ pc' = "rollback"
          /\ UNCHANGED <<byeFailed, wire>>
       \/ /\ dlg = "active"
          /\ wire' = wire \union {"BYE"}
          /\ pc' = "byeWait"
          /\ UNCHANGED byeFailed
       \/ /\ dlg = "active"
          /\ byeFailed' = TRUE
          /\ pc' = "rollback"
          /\ UNCHANGED wire
    /\ UNCHANGED <<cfg, reason, err, sig, reg, hostVars, cmd>>
    /\ UNCHANGED <<dlg, why, acked, txVars, peer>>

ResendBye ==
    /\ pc = "byeWait"
    /\ wire' = wire \union {"BYE"}
    /\ UNCHANGED <<cfg, pc, reason, err, sig, reg, hostVars, cmd>>
    /\ UNCHANGED <<dlgVars, txVars, peer>>

\* The answer, or two seconds without one.
ByeDone ==
    /\ pc = "byeWait"
    /\ dlg' = "terminated"
    /\ why' = IF dlg = "active" THEN "local-bye" ELSE why
    /\ pc' = "rollback"
    /\ UNCHANGED <<cfg, reason, err, sig, reg, hostVars, cmd>>
    /\ UNCHANGED <<acked, byeFailed, txVars, netVars>>

\* finish: the tun's settings are withdrawn, and then the host route.
\* (A slip: the host route forgotten.)
RollbackTunOnly == Rollback("tunconf", "rollback", "cmdWait")

RollbackTun   == Rollback("tunconf", "rollback", "rollbackRoute")
RollbackRoute == Rollback("hostroute", "rollbackRoute", "cmdWait")

\* (A slip: the command not waited for.)
CommandNotAwaited ==
    /\ pc = "cmdWait"
    /\ pc' = "unregister"
    /\ UNCHANGED <<cfg, reason, err, sig, reg, hostVars, cmd>>
    /\ UNCHANGED <<dlgVars, txVars, netVars>>

\* runner.Wait(), and with it the end of finish().
CommandWait ==
    /\ pc = "cmdWait"
    /\ cmd # "running"
    /\ pc' = "unregister"
    /\ UNCHANGED <<cfg, reason, err, sig, reg, hostVars, cmd>>
    /\ UNCHANGED <<dlgVars, txVars, netVars>>

\* The deferred calls: the media socket, the registration (2 s at most) ...
Unregister ==
    /\ pc = "unregister"
    /\ media' = FALSE
    /\ reg' = "released"
    /\ pc' = "closeUA"
    /\ UNCHANGED <<cfg, reason, err, sig, dev, kernel, undo, fwd, stopped>>
    /\ UNCHANGED <<cmd, dlgVars, txVars, netVars>>

CloseUA ==
    /\ pc = "closeUA"
    /\ pc' = "closeTun"
    /\ UNCHANGED <<cfg, reason, err, sig, reg, hostVars, cmd>>
    /\ UNCHANGED <<dlgVars, txVars, netVars>>

\* ... and the tun, whose device stays while a read on it is in progress.
CloseTun ==
    /\ pc = "closeTun"
    /\ dev' = IF fwd = "running" THEN dev ELSE "none"
    /\ pc' = "returned"
    /\ UNCHANGED <<cfg, reason, err, sig, reg, media, kernel, undo, fwd>>
    /\ UNCHANGED <<stopped, cmd, dlgVars, txVars, netVars>>

\* main: a summary, and os.Exit.
ExitProcess ==
    /\ pc = "returned"
    /\ pc' = "exited"
    /\ dev' = IF dev = "ours" THEN "none" ELSE dev
    /\ UNCHANGED <<cfg, reason, err, sig, reg, media, kernel, undo, fwd>>
    /\ UNCHANGED <<stopped, cmd, dlgVars, txVars, netVars>>

\* run() and exitCodeFor() of cmd/ngntun.
ExitStatus ==
    CASE err = "auth"                -> "exitAuthRequired"
      [] err = "REGISTER"            -> "exitRegister"
      [] err = "INVITE"              -> "exitInvite"
      [] err \in {"mediaEnded", "other"} -> "exitRuntime"
      [] err = "none" /\ reason = "media-timeout" -> "exitMediaTimeout"
      [] err = "none" /\ reason = "command-exit"  -> "commandStatus"
      [] OTHER                       -> "exitOK"

-----------------------------------------------------------------------------
(***************************************************************************)
(* The world outside the process.                                          *)
(***************************************************************************)
Signal ==
    /\ ~sig /\ pc \notin {"returned", "exited"}
    /\ sig' = TRUE
    /\ UNCHANGED <<cfg, pc, reason, err, reg, hostVars, cmd>>
    /\ UNCHANGED <<dlgVars, txVars, netVars>>

\* A step of the far end: it takes the messages of got and sends those of put.
PeerStep(from, to, got, put) ==
    /\ peer \in from
    /\ got \subseteq wire
    /\ peer' = to
    /\ wire' = (wire \ got) \union put
    /\ UNCHANGED <<cfg, pc, reason, err, sig, reg, hostVars, cmd>>
    /\ UNCHANGED <<dlgVars, txVars>>

PeerRings    == PeerStep({"idle"}, "ringing", {"INVITE"}, {"1xx"})
PeerAnswers  == \E m \in Answers : PeerStep({"ringing", m}, m, {}, {m})
PeerRefuses  == PeerStep({"ringing"}, "ended", {}, {"refuse"})
PeerAcked    == PeerStep(Answers, "up", {"ACK"}, {})
PeerCalls    == cfg.answer /\ PeerStep({"idle"}, "calling", {}, {"rINVITE"})
PeerGets200  == PeerStep({"calling", "up"}, "up", {"200"}, {"rACK"})
PeerHangsUp  == PeerStep(Answers \union {"up"}, "ended", {}, {"rBYE"})
PeerGetsBye  == PeerStep(Answers \union {"up"}, "ended", {"BYE"}, {})

Lose ==
    /\ \E m \in wire : wire' = wire \ {m}
    /\ UNCHANGED <<cfg, pc, reason, err, sig, reg, hostVars, cmd>>
    /\ UNCHANGED <<dlgVars, txVars, peer>>

-----------------------------------------------------------------------------
\* Steps of Run's own goroutine that wait for nothing but bounded timers.
Main ==
    \/ CheckTun \/ CreateTun \/ NewUA \/ Register \/ RegisterOnly \/ DialMedia
    \/ SendInvite \/ InviteCancelled \/ InviteFinal
    \/ RejectCall \/ AcceptCall \/ AwaitCancelled
    \/ ApplyConfig \/ UndoApply \/ EnsureHostRoute \/ StartForwarder
    \/ StartCommand \/ Supervise
    \/ Hangup \/ ByeDone \/ RollbackTun \/ RollbackRoute \/ CommandWait
    \/ Unregister \/ CloseUA \/ CloseTun \/ ExitProcess

Receive ==
    \/ \E m \in Finals \union {"1xx"} : ReceiveResponse(m)
    \/ ReceiveInvite \/ ReceiveAck \/ ReceiveBye

Others ==
    \/ ResendInvite \/ InviteTimesOut \/ Resend200 \/ NoAck \/ ResendBye
    \/ SuperviseTraffic
    \/ ForwarderCloses \/ ForwarderEnds \/ ForwarderFails
    \/ CommandExits \/ CommandKilled

World ==
    \/ Signal
    \/ PeerRings \/ PeerAnswers \/ PeerRefuses \/ PeerAcked
    \/ PeerCalls \/ PeerGets200 \/ PeerHangsUp \/ PeerGetsBye
    \/ Lose

Next == Main \/ Receive \/ Others \/ World

Spec == Init /\ [][Next]_vars

\* Run's goroutine is scheduled, and a command asked to end is killed after
\* five seconds.  select chooses at random among the cases that are ready, so
\* waitForCall cannot pass over a cancelled context for ever.  Nothing is
\* assumed of the far end, of the network, of a blocked read on the tun, nor
\* of a command left alone.
FairSpec ==
    /\ Spec
    /\ WF_vars(Main) /\ WF_vars(AwaitCancelled) /\ WF_vars(CommandKilled)

-----------------------------------------------------------------------------
(***************************************************************************)
(* Properties.                                                             *)
(***************************************************************************)
\* A dialog that Run has is never forgotten: whatever goes wrong after the
\* call is up (SDP, netcfg, host route, command, forwarder), Run is still on
\* its way through hangup.  Were it not, the call would go on being charged.
\* (Run never has the dialog whose ACK fails in Invite: ua.go:353.)
CallAttended == dlg = "active" /\ ~byeFailed => pc \in Held

\* When Run has returned, no kernel setting it made is left and the command
\* is gone, on every path out (finish, and the error returns before it).
NothingLeftBehind ==
    pc \in {"returned", "exited"} => kernel = {} /\ cmd # "running"

\* Settings that serve a call are withdrawn only after its BYE has gone or the
\* call has ended ("BYE first": README, DESIGN 5.3), by every way out of the
\* session.  Excepted is a configuration that fails half way: netcfg.Apply
\* withdraws what it had made of it (netcfg_linux.go:47) and returns, and only
\* then is the BYE sent (session.go:191).
ReleaseBeforeRollback ==
    [][undo \subseteq undo' \/ Released \/ pc = "unapply"]_vars

\* A status that says the session worked is never the outcome of a run that
\* had no call, unless only the registration was asked for.
SuccessMeansCall ==
    pc = "exited" /\ ExitStatus \in {"exitOK", "exitMediaTimeout", "commandStatus"}
        => cfg.registerOnly \/ dlg = "terminated" \/ byeFailed

\* SIGINT or SIGTERM ends the process wherever Run stands.
SignalEndsRun == sig ~> pc = "exited"

\* With a maximum duration the call, and the process, end by themselves.
MaxDurationEndsRun == pc = "supervise" /\ cfg.maxDuration ~> pc = "exited"

\* The command's life and the call's are one (DESIGN 5.8): a command that
\* ends takes the call with it, and the call the command.
LivesTied ==
    /\ cmd = "exited" ~> Released
    /\ Released ~> cmd # "running"

Lifecycle == INSTANCE CallLifecycle WITH
    call    <- IF dlg \in {"none", "lost"} THEN "none" ELSE IF Released THEN "over" ELSE "up",
    config  <- kernel,
    command <- cmd,
    done    <- pc \in {"returned", "exited"}

\* The run keeps the promise of CallLifecycle.
KeepsLifecycle == Lifecycle!Spec

-----------------------------------------------------------------------------
(***************************************************************************)
(* What the documents say and the code does not do.                        *)
(***************************************************************************)
\* "SIGINT / SIGTERM: BYE" (DESIGN.md 7): no call that the far end holds to
\* be up is left without so much as an attempt at a BYE.
NoOrphanedCall ==
    pc = "exited" /\ sig /\ peer \in Answers /\ why = "none" => byeFailed
=============================================================================
