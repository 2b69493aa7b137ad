---------------------------- MODULE Registration ----------------------------
(***************************************************************************)
(* The SIP registration: UA.register as called by Run (Register at the     *)
(* start, Unregister on the way out) and by the refresher goroutine, which *)
(* Run tells to stop but does not wait for; the CSeq they share; and a     *)
(* registrar behind a network that loses, delays and repeats messages.     *)
(*                                                                         *)
(* Time is in ticks of any length.  It passes while a REGISTER is under    *)
(* way, up to the transaction's timeout, and between refreshes; it does    *)
(* not while a goroutine is only to be scheduled, nor once the session is  *)
(* over (Unregister has two seconds, and the binding is given up).         *)
(***************************************************************************)
EXTENDS Naturals

CONSTANTS
    Grants,      \* the lifetimes the registrar grants, in ticks
    TimerF,      \* timerF: the longest a REGISTER may go without an answer
    Minute,      \* the refresher's shortest interval
    MaxCSeq      \* bound on the REGISTERs considered

\* timerF is 32 seconds, so that a refresh is over before the next one is due.
ASSUME RegistrationAssumption ==
    /\ Grants \subseteq Nat \ {0}
    /\ TimerF \in Nat \ {0} /\ Minute \in Nat /\ TimerF <= Minute
    /\ MaxCSeq \in Nat

VARIABLES
    run,       \* Run: "starting", "up", "closing" (regDone is closed),
               \* "leaving" (Unregister), "gone" (the sockets are closed)
    refresher, \* the goroutine: "off", "waiting", "chosen" (its tick taken),
               \* "refreshing", "stopped"
    op,        \* the register call of each: its phase, CSeq, kind and age
    regCSeq,   \* UA.regCSeq
    interval,  \* the refresher's interval
    ticker,    \* ticks until its ticker fires; 0 when a tick is waiting
    requests,  \* REGISTERs sent: they may arrive, again or never
    answers,   \* the CSeqs the registrar has answered 200
    left,      \* ticks the binding still lives, 0 when there is none
    lastCSeq,  \* the highest CSeq the registrar has seen
    unbound,   \* Unregister was answered 200
    lapsed,    \* the binding ran out while the session was up
    missed,    \* a refresh failed
    granted,   \* the first lifetime granted; 0 before that
    short      \* a lifetime was granted that is too short (TooShort)

opVars   == <<op, regCSeq>>
regVars  == <<requests, answers, left, lastCSeq, lapsed, granted, short>>
timeVars == <<interval, ticker>>
vars == <<run, refresher, op, regCSeq, interval, ticker, requests, answers,
          left, lastCSeq, unbound, lapsed, missed, granted, short>>

Callers == {"run", "refresher"}
Idle == [phase |-> "idle", cseq |-> 0, bind |-> FALSE, age |-> 0]
Calls == [phase : {"idle", "taken", "sent"}, cseq : Nat, bind : BOOLEAN,
          age : 0 .. TimerF]

TypeOK ==
    /\ run \in {"starting", "up", "closing", "leaving", "gone"}
    /\ refresher \in {"off", "waiting", "chosen", "refreshing", "stopped"}
    /\ op \in [Callers -> Calls]
    /\ regCSeq \in Nat
    /\ interval \in Nat /\ ticker \in 0 .. interval
    /\ refresher # "off" => interval > 0       \* time.NewTicker panics at 0
    /\ requests \subseteq [cseq : Nat, bind : BOOLEAN]
    /\ answers \subseteq Nat
    /\ left \in Nat /\ lastCSeq \in Nat
    /\ unbound \in BOOLEAN /\ lapsed \in BOOLEAN
    /\ missed \in BOOLEAN /\ short \in BOOLEAN /\ granted \in Nat

Init ==
    /\ run = "starting" /\ refresher = "off"
    /\ op = [c \in Callers |-> Idle]
    /\ regCSeq = 0
    /\ interval = 0 /\ ticker = 0
    /\ requests = {} /\ answers = {}
    /\ left = 0 /\ lastCSeq = 0
    /\ unbound = FALSE /\ lapsed = FALSE /\ missed = FALSE
    /\ granted = 0 /\ short = FALSE

-----------------------------------------------------------------------------
(***************************************************************************)
(* UA.register: the CSeq is taken under the lock, the request sent after   *)
(* it, and the answer, or its absence, awaited.                            *)
(***************************************************************************)
\* (A slip: the CSeq of the last REGISTER used again.)
SameCSeq(n) == IF n = 0 THEN 1 ELSE n

NextCSeq(n) == n + 1

TakeCSeq(c, bind) ==
    /\ op[c].phase = "idle"
    /\ regCSeq < MaxCSeq
    /\ regCSeq' = NextCSeq(regCSeq)
    /\ op' = [op EXCEPT ![c] = [phase |-> "taken", cseq |-> NextCSeq(regCSeq),
                                bind |-> bind, age |-> 0]]

Transmit(c) ==
    /\ op[c].phase \in {"taken", "sent"} /\ run # "gone"
    /\ requests' = requests \union {[cseq |-> op[c].cseq, bind |-> op[c].bind]}
    /\ op' = [op EXCEPT ![c].phase = "sent"]
    /\ UNCHANGED <<run, refresher, regCSeq, timeVars, answers, left, lastCSeq>>
    /\ UNCHANGED <<unbound, lapsed, missed, granted, short>>

Answered(c) == op[c].phase = "sent" /\ op[c].cseq \in answers
Abandoned(c) == op[c].phase \in {"taken", "sent"}    \* time's up, or an error
Close(c) == op' = [op EXCEPT ![c] = Idle] /\ UNCHANGED regCSeq

-----------------------------------------------------------------------------
(***************************************************************************)
(* Run.                                                                    *)
(***************************************************************************)
RegisterBegins ==
    /\ run = "starting"
    /\ TakeCSeq("run", TRUE)
    /\ UNCHANGED <<run, refresher, timeVars, regVars, unbound, missed>>

\* (Slips: the registration refreshed at its end, not half way; no least
\* interval.)
WholeInterval(expires) == expires
HalfInterval(expires)  == expires \div 2

\* Half the lifetime granted first, a minute at least; never looked at again.
Interval(expires) == IF expires \div 2 < Minute THEN Minute ELSE expires \div 2

\* The 200 OK: Run goes on and starts the refresher, whose ticker runs from
\* now on, with the lifetime that the answer says, which has run since the
\* registrar took the REGISTER.
RegisterSucceeds ==
    /\ run = "starting" /\ Answered("run")
    /\ Close("run")
    /\ run' = "up" /\ refresher' = "waiting"
    /\ interval' = Interval(granted) /\ ticker' = Interval(granted)
    /\ UNCHANGED <<regVars, unbound, missed>>

\* Timer F, 35 s, a signal, a refusal: Run returns, with no unregister.
RegisterFails ==
    /\ run = "starting" /\ Abandoned("run")
    /\ Close("run")
    /\ run' = "gone"
    /\ UNCHANGED <<refresher, timeVars, regVars, unbound, missed>>

\* The session is over: the deferred close(regDone), and then unregister.
CloseRegDone ==
    /\ run = "up"
    /\ run' = "closing"
    /\ UNCHANGED <<refresher, opVars, timeVars, regVars, unbound, missed>>

UnregisterBegins ==
    /\ run = "closing"
    /\ TakeCSeq("run", FALSE)
    /\ run' = "leaving"
    /\ UNCHANGED <<refresher, timeVars, regVars, unbound, missed>>

\* The answer or two seconds; then UA.Close and the end of the process.
UnregisterEnds ==
    /\ run = "leaving"
    /\ \/ Answered("run") /\ unbound' = TRUE
       \/ Abandoned("run") /\ UNCHANGED unbound
    /\ Close("run")
    /\ run' = "gone"
    /\ UNCHANGED <<refresher, timeVars, regVars, missed>>

-----------------------------------------------------------------------------
(***************************************************************************)
(* The refresher.  Its select takes either case when both are ready.       *)
(***************************************************************************)
SeesDone ==
    /\ refresher = "waiting" /\ run \notin {"starting", "up"}
    /\ refresher' = "stopped"
    /\ UNCHANGED <<run, opVars, timeVars, regVars, unbound, missed>>

SeesTick ==
    /\ refresher = "waiting" /\ ticker = 0
    /\ refresher' = "chosen"
    /\ ticker' = interval
    /\ UNCHANGED <<run, opVars, interval, regVars, unbound, missed>>

RefreshBegins ==
    /\ refresher = "chosen"
    /\ TakeCSeq("refresher", TRUE)
    /\ refresher' = "refreshing"
    /\ UNCHANGED <<run, timeVars, regVars, unbound, missed>>

RefreshEnds ==
    /\ refresher = "refreshing"
    /\ \/ Answered("refresher") /\ UNCHANGED missed
       \/ Abandoned("refresher") /\ missed' = TRUE
    /\ Close("refresher")
    /\ refresher' = "waiting"
    /\ UNCHANGED <<run, timeVars, regVars, unbound>>

-----------------------------------------------------------------------------
(***************************************************************************)
(* The registrar, which keeps to the order of CSeqs (RFC 3261 10.3), and   *)
(* the clock.                                                              *)
(***************************************************************************)
\* What a lifetime has to outlast.  The first one: the answer on its way back,
\* the refresher's interval (half of it, a minute at least) and the refresh,
\* that is, four transactions, or a minute and two transactions.  A later one:
\* the interval made of the first one, and the next refresh.
TooShort(g) ==
    IF granted = 0
    THEN g <= Minute + 2 * TimerF \/ g <= 4 * TimerF
    ELSE g <= Minute + TimerF \/ 2 * g <= granted + 2 * TimerF

RegistrarTakes ==
    /\ \E r \in requests :
          \/ /\ r.cseq > lastCSeq
             /\ lastCSeq' = r.cseq
             /\ answers' = answers \union {r.cseq}
             /\ IF r.bind
                THEN \E g \in Grants :
                        /\ left' = g
                        /\ short' = (short \/ TooShort(g))
                        /\ granted' = IF granted = 0 THEN g ELSE granted
                ELSE left' = 0 /\ UNCHANGED <<short, granted>>
          \/ /\ r.cseq = lastCSeq           \* a repetition: answered again
             /\ UNCHANGED <<lastCSeq, answers, left, short, granted>>
    /\ UNCHANGED <<run, refresher, opVars, timeVars, requests>>
    /\ UNCHANGED <<unbound, lapsed, missed>>

Out(c) == op[c].phase # "idle"

Tick ==
    /\ run \in {"starting", "up"}
    /\ \A c \in Callers : Out(c) => op[c].age < TimerF
    /\ refresher # "chosen"
    /\ ~(refresher = "waiting" /\ ticker = 0)
    /\ op' = [c \in Callers |-> IF Out(c) THEN [op[c] EXCEPT !.age = @ + 1]
                                          ELSE op[c]]
    /\ ticker' = IF ticker = 0 THEN 0 ELSE ticker - 1
    /\ left' = IF left = 0 THEN 0 ELSE left - 1
    /\ lapsed' = (lapsed \/ (run = "up" /\ left <= 1))
    /\ UNCHANGED <<run, refresher, regCSeq, interval, requests, answers>>
    /\ UNCHANGED <<lastCSeq, unbound, missed, granted, short>>

Next ==
    \/ \E c \in Callers : Transmit(c)
    \/ RegisterBegins \/ RegisterSucceeds \/ RegisterFails
    \/ CloseRegDone \/ UnregisterBegins \/ UnregisterEnds
    \/ SeesDone \/ SeesTick \/ RefreshBegins \/ RefreshEnds
    \/ RegistrarTakes \/ Tick

Spec == Init /\ [][Next]_vars

-----------------------------------------------------------------------------
(***************************************************************************)
(* Properties.                                                             *)
(***************************************************************************)
\* No two REGISTERs share a CSeq, though two goroutines number them: two
\* requests with one number would be taken for repetitions of each other.
CSeqsDistinct ==
    /\ \A r, s \in requests : r.cseq = s.cseq => r = s
    /\ \A c \in Callers : op[c].phase = "taken" =>
          \A r \in requests : r.cseq # op[c].cseq

\* The last word holds: once Unregister is answered, the binding is gone
\* unless a refresh was numbered after it, however messages are delayed.
LastWordHolds ==
    unbound => left = 0 \/ \E r \in requests : r.bind /\ \A s \in requests :
                                                  ~s.bind => s.cseq < r.cseq

\* While the session is up the binding does not run out, however long the
\* REGISTERs take, unless a refresh failed or the registrar granted too little:
\* at first no more than four transactions may take (128 s, which is more than
\* a minute and two), later no more than the refresher's interval, which stays
\* that of the first grant, and one transaction.
BindingKept == lapsed => missed \/ short

\* After Unregister nothing is registered (DESIGN.md 5.3 ends the cleanup
\* with the unregistration).
GoneMeansUnbound == run = "gone" /\ unbound => left = 0
=============================================================================
