----------------------------- MODULE Forwarder -----------------------------
(***************************************************************************)
(* The media forwarder (internal/media/media.go): Forwarder.Run, the two   *)
(* goroutines that copy packets between the tun and the media socket, and  *)
(* the one that closes both when the context ends.                         *)
(*                                                                         *)
(* What Close does to a Read in progress is not the same for the two.  The *)
(* socket is known to Go's poller: Close wakes its readers.  The tun's     *)
(* file is opened with unix.Open, without O_NONBLOCK, and wrapped by       *)
(* os.NewFile (tun_linux.go:42, 62): Go does not poll such a file, a Read  *)
(* is a blocked system call, and Close only marks the file as closed; the  *)
(* descriptor, and the device, go when the Read returns.                   *)
(***************************************************************************)
EXTENDS Naturals, Sequences

CONSTANTS
    Ports,       \* the source ports of media packets
    SDPPort,     \* the port of the SDP answer
    MaxPackets   \* bound on the packets considered, in each direction

ASSUME ForwarderAssumption ==
    /\ Ports \subseteq Nat \ {0} /\ SDPPort \in Ports
    /\ MaxPackets \in Nat

VARIABLES
    strict,     \* Config.StrictPeerPort
    ctx,        \* the caller's context is done
    inner,      \* Run's own context is done
    conn,       \* the media socket is open
    tun,        \* Close of the tun has not been called
    reader,     \* tunToNetwork: "ready", "reading", "sending", "returned"
    receiver,   \* networkToTun: "receiving", "writing", "returned"
    errc,       \* Run's channel, which has two places
    run,        \* Run: "waiting" for the first, "joining", "done"
    result,     \* what Run returned
    learned,    \* learnedPort; 0 until a packet was accepted
    from,       \* the source port of the packet the receiver holds
    stats,      \* Forwarder.stats
    seen,       \* packets taken from the tun, and from the socket
    lost,       \* packets in the hands of a goroutine that returned
    delivered,  \* the ports of the packets written to the tun
    broken      \* a device or socket failed while the context was alive

endVars  == <<ctx, inner, conn, tun>>
goVars   == <<reader, receiver, errc, run, result>>
dataVars == <<learned, from, stats, seen, lost, delivered>>
vars == <<strict, ctx, inner, conn, tun, reader, receiver, errc, run, result,
          learned, from, stats, seen, lost, delivered, broken>>

Stats == [tx : Nat, rx : Nat, unexpected : Nat, malformed : Nat, tunErrors : Nat]
Errors == {"nil", "error"}

TypeOK ==
    /\ strict \in BOOLEAN
    /\ ctx \in BOOLEAN /\ inner \in BOOLEAN /\ conn \in BOOLEAN /\ tun \in BOOLEAN
    /\ reader \in {"ready", "reading", "sending", "returned"}
    /\ receiver \in {"receiving", "writing", "returned"}
    /\ errc \in Seq(Errors) /\ Len(errc) <= 2    \* no goroutine waits to send
    /\ run \in {"waiting", "joining", "done"}
    /\ result \in Errors \union {"none"}
    /\ learned \in Ports \union {0} /\ from \in Ports \union {0}
    /\ stats \in Stats
    /\ seen \in [tun : Nat, net : Nat]
    /\ lost \in 0 .. 2
    /\ delivered \subseteq Ports
    /\ broken \in BOOLEAN

Init ==
    /\ strict \in BOOLEAN
    /\ ctx = FALSE /\ inner = FALSE /\ conn = TRUE /\ tun = TRUE
    /\ reader = "ready" /\ receiver = "receiving"
    /\ errc = <<>>
    /\ run = "waiting" /\ result = "none"
    /\ learned = 0 /\ from = 0
    /\ stats = [tx |-> 0, rx |-> 0, unexpected |-> 0, malformed |-> 0, tunErrors |-> 0]
    /\ seen = [tun |-> 0, net |-> 0]
    /\ lost = 0 /\ delivered = {} /\ broken = FALSE

-----------------------------------------------------------------------------
\* Run's context descends from the caller's.
Ended == ctx \/ inner

\* ctx.Err() is looked at after the failed call, so a failure that has nothing
\* to do with the end is still reported as nil once the context is done.
Verdict == IF Ended THEN "nil" ELSE "error"

\* (A slip: an error sent where it occurs, and again when the loop is left.)
DeliverTwice(v) == errc' = errc \o <<v, v>>

\* A goroutine's return value.  Run reads the first to arrive and no other.
Deliver(v) == errc' = Append(errc, v)

ReaderReturns(v)   == reader' = "returned" /\ Deliver(v)
ReceiverReturns(v) == receiver' = "returned" /\ Deliver(v)

\* A device or a socket fails of itself.
Fails == broken' = (broken \/ ~Ended)

-----------------------------------------------------------------------------
(***************************************************************************)
(* tunToNetwork.                                                           *)
(***************************************************************************)
\* Read on a file already closed fails at once; on an open one it blocks.
ReadBegins ==
    /\ reader = "ready"
    /\ IF tun THEN reader' = "reading" /\ UNCHANGED errc
              ELSE ReaderReturns("nil")
    /\ UNCHANGED <<strict, endVars, receiver, run, result, dataVars, broken>>

\* (A slip: a short packet is dropped without being counted.)
MalformedUncounted == stats

CountMalformed == [stats EXCEPT !.malformed = @ + 1]

\* The Read returns a packet, also when Close came while it was blocked.
ReadPacket ==
    /\ reader = "reading"
    /\ seen.tun < MaxPackets \/ ~tun      \* after Close, at most one more
    /\ seen' = [seen EXCEPT !.tun = @ + 1]
    /\ \/ reader' = "ready" /\ stats' = CountMalformed   \* under 20 bytes
       \/ reader' = "sending" /\ UNCHANGED stats
    /\ UNCHANGED <<strict, endVars, receiver, errc, run, result, learned, from>>
    /\ UNCHANGED <<lost, delivered, broken>>

ReadFails ==
    /\ reader = "reading"
    /\ ReaderReturns(Verdict)
    /\ Fails
    /\ UNCHANGED <<strict, endVars, receiver, run, result, dataVars>>

Send ==
    /\ reader = "sending"
    /\ IF conn
       THEN /\ stats' = [stats EXCEPT !.tx = @ + 1]
            /\ reader' = "ready"
            /\ UNCHANGED <<errc, lost>>
       ELSE /\ ReaderReturns("nil")
            /\ lost' = lost + 1
            /\ UNCHANGED stats
    /\ UNCHANGED <<strict, endVars, receiver, run, result, learned, from>>
    /\ UNCHANGED <<seen, delivered, broken>>

SendFails ==
    /\ reader = "sending" /\ conn
    /\ ReaderReturns(Verdict)
    /\ lost' = lost + 1
    /\ Fails
    /\ UNCHANGED <<strict, endVars, receiver, run, result, learned, from>>
    /\ UNCHANGED <<stats, seen, delivered>>

-----------------------------------------------------------------------------
(***************************************************************************)
(* networkToTun.                                                           *)
(***************************************************************************)
\* acceptSource, for a packet from the relay's address.
Accepts(p) ==
    IF strict THEN p = SDPPort ELSE learned \in {0, p}

\* (A slip: the port is compared and never stored.)
LearnNothing(p) == learned

Learn(p) == IF ~strict /\ learned = 0 THEN p ELSE learned

\* A packet is taken from the socket: its source is judged, and the port is
\* learned, before its content is looked at.
Receive ==
    /\ receiver = "receiving" /\ conn /\ seen.net < MaxPackets
    /\ seen' = [seen EXCEPT !.net = @ + 1]
    /\ \E p \in Ports, relay, valid \in BOOLEAN :
        IF ~relay \/ ~Accepts(p)
        THEN /\ stats' = [stats EXCEPT !.unexpected = @ + 1]
             /\ UNCHANGED <<learned, from, receiver>>
        ELSE /\ learned' = Learn(p)
             /\ IF valid
                THEN receiver' = "writing" /\ from' = p /\ UNCHANGED stats
                ELSE stats' = CountMalformed /\ UNCHANGED <<receiver, from>>
    /\ UNCHANGED <<strict, endVars, reader, errc, run, result, lost, delivered, broken>>

ReceiveClosed ==
    /\ receiver = "receiving" /\ ~conn
    /\ ReceiverReturns("nil")
    /\ UNCHANGED <<strict, endVars, reader, run, result, dataVars, broken>>

ReceiveFails ==
    /\ receiver = "receiving" /\ conn
    /\ ReceiverReturns(Verdict)
    /\ Fails
    /\ UNCHANGED <<strict, endVars, reader, run, result, dataVars>>

TunWrite ==
    /\ receiver = "writing" /\ tun
    /\ stats' = [stats EXCEPT !.rx = @ + 1]
    /\ delivered' = delivered \union {from}
    /\ receiver' = "receiving" /\ from' = 0
    /\ UNCHANGED <<strict, endVars, reader, errc, run, result, learned, seen, lost, broken>>

\* A failed write is counted and passed over, unless the end has come.
TunWriteFails ==
    /\ receiver = "writing"
    /\ from' = 0
    /\ IF Ended
       THEN ReceiverReturns("nil") /\ lost' = lost + 1 /\ UNCHANGED stats
       ELSE /\ tun
            /\ stats' = [stats EXCEPT !.tunErrors = @ + 1]
            /\ receiver' = "receiving"
            /\ UNCHANGED <<errc, lost>>
    /\ UNCHANGED <<strict, endVars, reader, run, result, learned, seen>>
    /\ UNCHANGED <<delivered, broken>>

-----------------------------------------------------------------------------
(***************************************************************************)
(* The closing goroutine, Run, and the caller.                             *)
(***************************************************************************)
CloseConn ==
    /\ Ended /\ conn
    /\ conn' = FALSE
    /\ UNCHANGED <<strict, ctx, inner, tun, goVars, dataVars, broken>>

CloseTun ==
    /\ Ended /\ ~conn /\ tun
    /\ tun' = FALSE
    /\ UNCHANGED <<strict, ctx, inner, conn, goVars, dataVars, broken>>

\* (A slip: the first to return does not stop the other.)
StopNone == inner

StopOther == TRUE

RunTakesFirst ==
    /\ run = "waiting" /\ errc # <<>>
    /\ result' = Head(errc) /\ errc' = Tail(errc)
    /\ inner' = StopOther
    /\ run' = "joining"
    /\ UNCHANGED <<strict, ctx, conn, tun, reader, receiver, dataVars, broken>>

Joined == reader = "returned" /\ receiver = "returned"

RunReturns ==
    /\ run = "joining" /\ Joined
    /\ run' = "done"
    /\ UNCHANGED <<strict, endVars, reader, receiver, errc, result, dataVars, broken>>

\* stopFwd, or the session's own context.
Cancel ==
    /\ ~ctx
    /\ ctx' = TRUE
    /\ UNCHANGED <<strict, inner, conn, tun, goVars, dataVars, broken>>

\* Everything is over; the state repeats.
Finished == run = "done" /\ UNCHANGED vars

Process == \/ ReadBegins \/ Send \/ ReceiveClosed \/ TunWrite \/ TunWriteFails
           \/ CloseConn \/ CloseTun \/ RunTakesFirst \/ RunReturns

Environment == ReadPacket \/ ReadFails \/ SendFails \/ Receive \/ ReceiveFails \/ Cancel

Next == Process \/ Environment \/ Finished

Spec == Init /\ [][Next]_vars

\* The goroutines are scheduled.
FairSpec ==
    /\ Spec
    /\ WF_vars(ReadBegins) /\ WF_vars(Send) /\ WF_vars(ReceiveClosed)
    /\ WF_vars(TunWrite \/ TunWriteFails)
    /\ WF_vars(CloseConn) /\ WF_vars(CloseTun)
    /\ WF_vars(RunTakesFirst) /\ WF_vars(RunReturns)

\* And the host goes on sending through the tun.
BusySpec == FairSpec /\ WF_vars(ReadPacket)

-----------------------------------------------------------------------------
(***************************************************************************)
(* Properties.                                                             *)
(***************************************************************************)
\* The host receives packets of one peer: the port of the SDP answer when
\* strict, and otherwise the one port that was learned.
OnePeer == delivered \subseteq (IF strict THEN {SDPPort} ELSE {learned})

\* No packet is unaccounted for: every one taken is forwarded, dropped under
\* a counter, in a goroutine's hands, or was there when that one returned.
Accounted ==
    LET held == (IF reader = "sending" THEN 1 ELSE 0) +
                (IF receiver = "writing" THEN 1 ELSE 0)
    IN  seen.tun + seen.net = stats.tx + stats.rx + stats.unexpected +
            stats.malformed + stats.tunErrors + lost + held

\* Once the context ends, or one direction fails, Run returns.
EndsOnCancel == (ctx \/ broken) ~> run = "done"

-----------------------------------------------------------------------------
(***************************************************************************)
(* What the code says and does not do.                                     *)
(***************************************************************************)
\* "When ctx ends, both blocked readers are woken" (media.go:109); "blocks
\* until the end of ctx or a fatal error" (media.go:104).  Under FairSpec, over
\* a tun on which the host sends nothing, the reader is not woken.
CancelWakesReaders == ctx ~> run = "done"
=============================================================================
