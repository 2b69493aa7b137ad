---------------------------- MODULE SessionTimer ----------------------------
(***************************************************************************)
(* The clocks of a call.  supervise (session.go) watches a maximum         *)
(* duration, a deadline for the first packet, a time without traffic and   *)
(* the session timer; the session timer is put back by the refreshes that  *)
(* Dialog.handleRequest (dialog.go) announces on a channel of one place.   *)
(* The far end refreshes, or does not, with whatever Session-Expires.      *)
(*                                                                         *)
(* Time goes on only when no timer has expired that supervise has not      *)
(* seen.  When several of its cases are ready select takes any of them.    *)
(***************************************************************************)
EXTENDS Naturals, FiniteSets

CONSTANTS
    Limits,     \* records max, idle, media: Config's limits, 0 to disable one
    Headers,    \* the values a Session-Expires header may have
    Absent,     \* no such header
    Default,    \* UA.Config.SessionExpires
    Grace,      \* what sessionWatchdog adds to it
    Hour,       \* what it takes for a Session-Expires of nothing
    SetUp,      \* bound on the time from the answer to supervise
    Eternity    \* bound on the times measured

ASSUME TimerAssumption ==
    /\ Limits \subseteq [max : Nat, idle : Nat, media : Nat]
    /\ Headers \subseteq Nat /\ Absent \notin Nat
    /\ {Default, Grace, Hour, SetUp, Eternity} \subseteq Nat
    /\ Default > 0          \* NewUA sees to that

\* The watchdog grants some time beyond the interval, and the times measured
\* are not cut off below that.
ASSUME ClockAssumption ==
    /\ Grace > 0
    /\ \A interval \in Headers \union {Default} : interval + Grace <= Eternity

VARIABLES
    limits,     \* the limits of this run
    expires,    \* Dialog.SessionExpires, set once
    phase,      \* "setup", "supervise" or the reason that supervise returned
    maxTimer, mediaTimer, sessionTimer,  \* time left, 0 when the channel holds
                                         \* the tick, Off when none will come
    ticker,     \* the one-second ticker's channel holds a tick
    refresh,    \* Dialog.refresh holds a refresh
    received,   \* Stats.RxPackets > 0
    quiet,      \* IdleFor
    age,        \* time in this phase, of set-up or of supervise
    gap,        \* time since the answer, or the last refresh
    agreed,     \* the longest interval the far end was told
    punctual    \* no refresh came later than that

timerVars == <<maxTimer, mediaTimer, sessionTimer, ticker>>
mediaVars == <<received, quiet>>
peerVars  == <<refresh, gap, agreed, punctual>>
vars == <<limits, expires, phase, maxTimer, mediaTimer, sessionTimer, ticker,
          refresh, received, quiet, age, gap, agreed, punctual>>

Off == Absent

Ends == {"max-duration", "media-timeout", "idle-timeout", "session-timer", "other"}

TypeOK ==
    /\ limits \in Limits
    /\ expires \in Headers \union {Default}
    /\ phase \in {"setup", "supervise"} \union Ends
    /\ \A t \in {maxTimer, mediaTimer, sessionTimer} : t \in Nat \union {Off}
    /\ maxTimer # Off <=> limits.max > 0 /\ phase # "setup"
    /\ {ticker, refresh, received, punctual} \subseteq BOOLEAN
    /\ {quiet, age, gap} \subseteq 0 .. Eternity
    /\ agreed \in Headers \union {Default}

\* A header's interval; no header, or one that is no positive number, leaves
\* the fallback.
ParseSessionExpires(header, fallback) ==
    IF header \in Nat \ {0} THEN header ELSE fallback

SessionWatchdog(interval) == IF interval = 0 THEN Hour ELSE interval + Grace

\* (Slip: a limit of 0 sets a timer that has expired.)
AnyTimer(limit) == limit

Timer(limit) == IF limit > 0 THEN limit ELSE Off

-----------------------------------------------------------------------------
(***************************************************************************)
(* The answer, by newDialogUAC or Accept, and the start of supervise.      *)
(***************************************************************************)
Answer(header) ==
    /\ expires = ParseSessionExpires(header, Default)
    /\ agreed = expires

Init ==
    /\ limits \in Limits
    /\ \E header \in Headers \union {Absent} : Answer(header)
    /\ phase = "setup"
    /\ maxTimer = Off /\ mediaTimer = Off /\ sessionTimer = Off
    /\ ticker = FALSE /\ refresh = FALSE /\ received = FALSE
    /\ quiet = 0 /\ age = 0 /\ gap = 0
    /\ punctual = TRUE

Supervise ==
    /\ phase = "setup"
    /\ phase' = "supervise"
    /\ maxTimer' = Timer(limits.max)
    /\ mediaTimer' = Timer(limits.media)
    /\ sessionTimer' = SessionWatchdog(expires)
    /\ age' = 0
    /\ UNCHANGED <<limits, expires, ticker, mediaVars, peerVars>>

-----------------------------------------------------------------------------
(***************************************************************************)
(* The cases of supervise's select.                                        *)
(***************************************************************************)
Return(reason) ==
    /\ phase = "supervise"
    /\ phase' = reason
    /\ UNCHANGED <<limits, expires, timerVars, mediaVars, age, peerVars>>

\* A signal, the forwarder's or the command's end, a BYE.
OtherEnd == Return("other")

MaxDurationReached == maxTimer = 0 /\ Return("max-duration")

\* (Slip: the counter is not looked at before the timer is put away.)
MediaDeadlinePassed ==
    /\ mediaTimer = 0 /\ phase = "supervise"
    /\ mediaTimer' = Off
    /\ UNCHANGED <<limits, expires, phase, maxTimer, sessionTimer, ticker,
                   mediaVars, age, peerVars>>

\* The timer fires once: when a packet has come by then, it is over.
MediaDeadline ==
    /\ mediaTimer = 0
    /\ \/ ~received /\ Return("media-timeout")
       \/ /\ received /\ phase = "supervise"
          /\ mediaTimer' = Off
          /\ UNCHANGED <<limits, expires, phase, maxTimer, sessionTimer, ticker,
                         mediaVars, age, peerVars>>

\* (Slip: the refresh is taken and the timer not reset.)
RefreshNoted ==
    /\ phase = "supervise" /\ refresh
    /\ refresh' = FALSE
    /\ UNCHANGED <<limits, expires, phase, timerVars, mediaVars, age, gap, agreed,
                   punctual>>

\* Reset discards an expiry that has not been received.
Refreshed ==
    /\ phase = "supervise" /\ refresh
    /\ refresh' = FALSE
    /\ sessionTimer' = SessionWatchdog(expires)
    /\ UNCHANGED <<limits, expires, phase, maxTimer, mediaTimer, ticker, mediaVars,
                   age, gap, agreed, punctual>>

NotRefreshed == sessionTimer = 0 /\ Return("session-timer")

IdleCheck ==
    /\ ticker
    /\ \/ limits.idle > 0 /\ quiet > limits.idle /\ Return("idle-timeout")
       \/ /\ phase = "supervise" /\ ~(limits.idle > 0 /\ quiet > limits.idle)
          /\ ticker' = FALSE
          /\ UNCHANGED <<limits, expires, phase, maxTimer, mediaTimer, sessionTimer,
                         mediaVars, age, peerVars>>

-----------------------------------------------------------------------------
(***************************************************************************)
(* The far end, the media and the clock.                                   *)
(***************************************************************************)
\* An INVITE or UPDATE within the dialog is answered with its own
\* Session-Expires, and announced if the channel is free.  The dialog's
\* interval stays what it was.
HandleRefresh(header) ==
    /\ phase \in {"setup", "supervise"}
    /\ refresh' = TRUE
    /\ gap' = 0
    /\ agreed' = IF header \in Nat /\ header > agreed THEN header ELSE agreed
    /\ punctual' = (punctual /\ gap <= agreed)
    /\ UNCHANGED <<limits, expires, phase, timerVars, mediaVars, age>>

\* A packet either way is traffic.  (The forwarder is started at the end of
\* the set-up.)
CountTx ==
    /\ phase = "supervise"
    /\ quiet' = 0
    /\ UNCHANGED <<limits, expires, phase, timerVars, received, age, peerVars>>

CountRx ==
    /\ phase = "supervise"
    /\ quiet' = 0 /\ received' = TRUE
    /\ UNCHANGED <<limits, expires, phase, timerVars, age, peerVars>>

Less(timer) == IF timer = Off THEN Off ELSE timer - 1
More(t) == IF t < Eternity THEN t + 1 ELSE t

Tick ==
    /\ \/ phase = "setup" /\ age < SetUp
       \/ /\ phase = "supervise" /\ ~ticker /\ ~refresh
          /\ 0 \notin {maxTimer, mediaTimer, sessionTimer}
    /\ maxTimer' = Less(maxTimer)
    /\ mediaTimer' = Less(mediaTimer)
    /\ sessionTimer' = Less(sessionTimer)
    /\ ticker' = (phase = "supervise")
    /\ quiet' = IF phase = "supervise" THEN More(quiet) ELSE quiet
    /\ gap' = More(gap) /\ age' = More(age)
    /\ UNCHANGED <<limits, expires, phase, received, refresh, agreed, punctual>>

Next ==
    \/ Supervise \/ OtherEnd \/ MaxDurationReached \/ MediaDeadline
    \/ Refreshed \/ NotRefreshed \/ IdleCheck
    \/ \E header \in Headers \union {Absent} : HandleRefresh(header)
    \/ CountTx \/ CountRx \/ Tick

Spec == Init /\ [][Next]_vars

-----------------------------------------------------------------------------
(***************************************************************************)
(* Properties.                                                             *)
(***************************************************************************)
\* A far end that refreshes within the interval it was told keeps its call:
\* the watchdog ends none that was refreshed in time (session.go:392),
\* however the refresh races the timer and though it comes before supervise.
\* The exception is an interval raised by a later refresh: the answer agrees
\* to it (dialog.go:225) and the watchdog goes by the first (session.go:394).
RefreshedKept ==
    phase = "session-timer" /\ agreed = expires => ~punctual \/ gap > expires

\* No call outlives what was to end it (session.go:337): the longest
\* duration; a packet's absence, within a tick of the check; a media that
\* never began; a far end that stopped refreshing (DESIGN.md:259).
OverdueEnds ==
    phase = "supervise" =>
        /\ limits.max > 0 => age <= limits.max
        /\ limits.idle > 0 => quiet <= limits.idle + 1
        /\ limits.media > 0 => received \/ age <= limits.media
        /\ gap <= SessionWatchdog(expires) + SetUp
=============================================================================
