------------------------------ MODULE ClientTx ------------------------------
(***************************************************************************)
(* One SIP client transaction (internal/sip/transaction.go): begin, the    *)
(* retransmission loop, receive and wait, which are three goroutines --    *)
(* the loop, the UA's receive loop and the caller -- over a network that   *)
(* loses and delays, with time in ticks.                                   *)
(*                                                                         *)
(* Time passes only when no goroutine has something due: the process is    *)
(* assumed to be scheduled within a tick, the network is not.              *)
(***************************************************************************)
EXTENDS Naturals

CONSTANTS
    T1, T2,         \* the first and the longest retransmission interval
    Timeout,        \* timer B and timer F
    Requests,       \* the requests considered
    ProvisionalCap  \* capacity of the channel of provisional responses

Never == 0

ASSUME TimersAssumption ==
    /\ T1 \in Nat \ {0} /\ T2 \in Nat /\ T1 <= T2
    /\ Timeout \in Nat /\ Timeout > T1
    /\ ProvisionalCap \in Nat

\* invite: an INVITE; limit: the caller's context.WithTimeout (0: none);
\* signal: the caller's context ends with SIGINT or SIGTERM.
ASSUME RequestsAssumption ==
    Requests \subseteq [invite : BOOLEAN, limit : Nat, signal : BOOLEAN]

VARIABLES
    req,        \* the request
    now,        \* ticks since begin
    loop,       \* the retransmission loop runs
    interval,   \* its interval
    retryAt,    \* when its retry timer fires
    heard,      \* gotResponse
    prov,       \* provisional responses waiting in tx.provisional
    final,      \* tx.final, one place
    failed,     \* tx.errc holds an error
    cancelled,  \* the caller's context is done
    result,     \* what wait returned: "none" while it waits
    open,       \* the transaction is in UA.txs, tx.stop not closed
    first,      \* the first final response that reached receive
    server,     \* the far end: "idle", "trying", "done"
    wire        \* messages in flight

loopVars == <<loop, interval, retryAt>>
chanVars == <<heard, prov, final, failed, first>>
callVars == <<cancelled, result, open>>
netVars  == <<server, wire>>
vars == <<req, now, loop, interval, retryAt, heard, prov, final, failed,
          cancelled, result, open, first, server, wire>>

\* Two different finals, as a forking proxy or a retransmission after a
\* change of mind may deliver.
Finals == {"200", "486"}

TypeOK ==
    /\ req \in Requests
    /\ now \in Nat
    /\ loop \in BOOLEAN
    /\ interval \in Nat /\ retryAt \in Nat
    /\ heard \in BOOLEAN
    /\ prov \in 0 .. ProvisionalCap
    /\ final \in Finals \union {"none"}
    /\ failed \in BOOLEAN
    /\ cancelled \in BOOLEAN
    /\ result \in Finals \union {"none", "timeout", "cancelled"}
    /\ open \in BOOLEAN
    /\ first \in Finals \union {"none"}
    /\ server \in {"idle", "trying", "done"}
    /\ wire \subseteq Finals \union {"request", "1xx"}

\* begin has sent the request for the first time and started the loop.
Init ==
    /\ req \in Requests
    /\ now = 0
    /\ loop = TRUE /\ interval = T1 /\ retryAt = T1
    /\ heard = FALSE /\ prov = 0 /\ final = "none" /\ failed = FALSE
    /\ cancelled = FALSE /\ result = "none" /\ open = TRUE
    /\ first = "none"
    /\ server = "idle" /\ wire = {"request"}

-----------------------------------------------------------------------------
(***************************************************************************)
(* The retransmission loop.  Its select may find several cases ready.      *)
(***************************************************************************)
LoopStops ==
    /\ loop /\ ~open
    /\ loop' = FALSE
    /\ UNCHANGED <<req, now, interval, retryAt, chanVars, callVars, netVars>>

\* (A slip: no timer B.)
LoopNeverTimesOut == FALSE

LoopTimesOut ==
    /\ loop /\ now >= Timeout
    /\ failed' = TRUE
    /\ loop' = FALSE
    /\ UNCHANGED <<req, now, interval, retryAt, heard, prov, final>>
    /\ UNCHANGED <<first, callVars, netVars>>

Backoff(i) == IF ~req.invite /\ 2 * i > T2 THEN T2 ELSE 2 * i

\* (A slip: the condition on the method lost.)
SilencedAlways == heard

\* An INVITE is not repeated once anything was heard: the loop is over.
Silenced == req.invite /\ heard

LoopRetries ==
    /\ loop /\ now >= retryAt
    /\ IF Silenced
       THEN /\ loop' = FALSE
            /\ UNCHANGED <<interval, retryAt, failed, wire>>
       ELSE \/ /\ wire' = wire \union {"request"}
               /\ interval' = Backoff(interval)
               /\ retryAt' = now + Backoff(interval)
               /\ UNCHANGED <<loop, failed>>
            \/ /\ failed' = TRUE              \* Send fails
               /\ loop' = FALSE
               /\ UNCHANGED <<interval, retryAt, wire>>
    /\ UNCHANGED <<req, now, heard, prov, final, first, callVars, server>>

-----------------------------------------------------------------------------
(***************************************************************************)
(* receive: the channels are filled without ever blocking.                 *)
(***************************************************************************)
\* (A slip: a later final response replaces the one that waits.)
KeepLast(old, m) == m

\* A final response is kept if none waits, and dropped otherwise.
Keep(old, m) == IF old = "none" THEN m ELSE old

\* (A slip: no default in the select that queues a provisional response.)
QueueUnbounded(n) == n + 1

\* Provisional responses beyond the channel's capacity are dropped.
Queue(n) == IF n < ProvisionalCap THEN n + 1 ELSE n

Receive(m) ==
    /\ m \in wire /\ m # "request"
    /\ wire' = wire \ {m}
    /\ IF ~open
       THEN UNCHANGED <<heard, prov, final, first>>
       ELSE /\ heard' = TRUE
            /\ IF m = "1xx"
               THEN /\ prov' = Queue(prov)
                    /\ UNCHANGED <<final, first>>
               ELSE /\ final' = Keep(final, m)
                    /\ first' = IF first = "none" THEN m ELSE first
                    /\ UNCHANGED prov
    /\ UNCHANGED <<req, now, loopVars, failed, callVars, server>>

-----------------------------------------------------------------------------
(***************************************************************************)
(* wait, with the deferred close of its callers.                           *)
(***************************************************************************)
Return(r) ==
    /\ result' = r
    /\ open' = FALSE
    /\ UNCHANGED <<req, now, loopVars, heard, prov, first, cancelled, netVars>>

WaitFinal ==
    /\ result = "none" /\ final # "none"
    /\ Return(final)
    /\ final' = "none"
    /\ UNCHANGED failed

WaitFailed ==
    /\ result = "none" /\ failed
    /\ Return("timeout")
    /\ failed' = FALSE
    /\ UNCHANGED final

WaitCancelled ==
    /\ result = "none" /\ cancelled
    /\ Return("cancelled")
    /\ UNCHANGED <<final, failed>>

\* onProvisional: a log line, and a PRACK in a transaction of its own.
WaitProvisional ==
    /\ result = "none" /\ prov > 0
    /\ prov' = prov - 1
    /\ UNCHANGED <<req, now, loopVars, heard, final, failed, first>>
    /\ UNCHANGED <<callVars, netVars>>

\* The context ends: its timeout, or a signal.
Cancel ==
    /\ ~cancelled
    /\ \/ req.limit # Never /\ now >= req.limit
       \/ req.signal
    /\ cancelled' = TRUE
    /\ UNCHANGED <<req, now, loopVars, chanVars, result, open, netVars>>

-----------------------------------------------------------------------------
(***************************************************************************)
(* The far end, the network and the clock.                                 *)
(***************************************************************************)
ServerTakes ==
    /\ "request" \in wire
    /\ wire' = (wire \ {"request"}) \union
               (CASE server = "idle"   -> {}
                  [] server = "trying" -> {"1xx"}
                  [] server = "done"   -> {"200"})
    /\ server' = IF server = "idle" THEN "trying" ELSE server
    /\ UNCHANGED <<req, now, loopVars, chanVars, callVars>>

ServerRings ==
    /\ server = "trying"
    /\ wire' = wire \union {"1xx"}
    /\ UNCHANGED <<req, now, loopVars, chanVars, callVars, server>>

ServerDecides ==
    /\ server \in {"trying", "done"}
    /\ server' = "done"
    /\ \E m \in Finals : wire' = wire \union {m}
    /\ UNCHANGED <<req, now, loopVars, chanVars, callVars>>

Lose ==
    /\ \E m \in wire : wire' = wire \ {m}
    /\ UNCHANGED <<req, now, loopVars, chanVars, callVars, server>>

LoopDue == loop /\ (~open \/ now >= Timeout \/ now >= retryAt)
WaitDue == result = "none" /\ (final # "none" \/ failed \/ cancelled \/ prov > 0)
LimitDue == ~cancelled /\ req.limit # Never /\ now >= req.limit

Tick ==
    /\ ~LoopDue /\ ~WaitDue /\ ~LimitDue
    /\ loop \/ result = "none"
    /\ now < Timeout + T2        \* nothing is timed beyond this
    /\ now' = now + 1
    /\ UNCHANGED <<req, loopVars, chanVars, callVars, netVars>>

-----------------------------------------------------------------------------
Process == \/ LoopStops \/ LoopTimesOut \/ LoopRetries
           \/ WaitFinal \/ WaitFailed \/ WaitCancelled \/ WaitProvisional

Network == \/ \E m \in Finals \union {"1xx"} : Receive(m)
           \/ ServerTakes \/ ServerRings \/ ServerDecides \/ Lose

Next == Process \/ Network \/ Cancel \/ Tick

Spec == Init /\ [][Next]_vars

\* The process is scheduled and time passes; select does not pass over a
\* ready case for ever.  The network owes nothing.
FairSpec ==
    /\ Spec
    /\ WF_vars(LoopStops) /\ WF_vars(LoopTimesOut) /\ WF_vars(LoopRetries)
    /\ WF_vars(WaitFinal) /\ WF_vars(WaitFailed) /\ WF_vars(WaitCancelled)
    /\ SF_vars(WaitProvisional)
    /\ WF_vars(Cancel /\ ~req.signal)
    /\ SF_vars(Tick)

-----------------------------------------------------------------------------
(***************************************************************************)
(* Properties.                                                             *)
(***************************************************************************)
\* The caller gets the first final response, whatever comes after it.
FirstFinalWins == result \in Finals => result = first

\* wait comes back: always for a request other than INVITE, and for an
\* INVITE that nothing answers.  (One that is ringing waits for a signal.)
WaitReturns ==
    /\ ~req.invite ~> result # "none"
    /\ (req.invite /\ ~heard) ~> (result # "none" \/ heard)

\* The loop lives as long as its caller waits and no longer: a BYE or a
\* REGISTER is repeated until the final response, an INVITE until the first
\* response, and nothing is repeated once wait has returned.
LoopServesCaller ==
    [][Tick => /\ loop => result = "none"
               /\ result = "none" => loop \/ (req.invite /\ heard)]_vars
=============================================================================
