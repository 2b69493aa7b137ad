------------------------- MODULE SessionTimerProofs -------------------------
(***************************************************************************)
(* Proofs about module SessionTimer, for every set of limits and of        *)
(* Session-Expires headers: the types, OverdueEnds and RefreshedKept.      *)
(*                                                                         *)
(* Both properties come from sums that a tick leaves alone: a timer's time *)
(* left and the time measured.  OverdueEnds needs the sum not to be too    *)
(* large (NotTooLate), RefreshedKept needs it not to be too small          *)
(* (NotTooSoon), and that a timer that had run out when the refresh came   *)
(* proves the refresh late: this is what Grace, which the code adds to the *)
(* interval, is for.                                                       *)
(***************************************************************************)
EXTENDS SessionTimer, TLAPS

\* TypeOK, one variable at a time.
Kinds ==
    /\ limits.max \in Nat /\ limits.idle \in Nat /\ limits.media \in Nat
    /\ limits \in Limits
    /\ expires \in Headers \union {Default} /\ expires \in Nat
    /\ phase \in {"setup", "supervise"} \union Ends
    /\ maxTimer \in Nat \union {Off}
    /\ mediaTimer \in Nat \union {Off}
    /\ sessionTimer \in Nat \union {Off}
    /\ maxTimer # Off <=> limits.max > 0 /\ phase # "setup"
    /\ ticker \in BOOLEAN /\ refresh \in BOOLEAN
    /\ received \in BOOLEAN /\ punctual \in BOOLEAN
    /\ quiet \in 0 .. Eternity /\ age \in 0 .. Eternity /\ gap \in 0 .. Eternity
    /\ agreed \in Headers \union {Default} /\ agreed \in Nat

\* Off is no time; during the set-up no timer runs.
Timers ==
    /\ phase = "setup" => maxTimer = Off /\ mediaTimer = Off /\ sessionTimer = Off
    /\ phase = "supervise" => sessionTimer # Off

\* The interval is never nothing, and the far end was told no less.
Intervals == expires > 0 /\ agreed >= expires

NotTooLate ==
    /\ phase = "setup" => gap <= age /\ age <= SetUp /\ quiet = 0 /\ ~ticker
    /\ phase = "supervise" =>
          /\ limits.max > 0 => age + maxTimer <= limits.max
          /\ limits.media > 0 /\ ~received =>
                mediaTimer # Off /\ age + mediaTimer <= limits.media
          /\ limits.idle > 0 => quiet <= limits.idle + (IF ticker THEN 1 ELSE 0)
          /\ gap + sessionTimer <= SessionWatchdog(expires) + SetUp
          /\ refresh => gap <= SetUp

NotTooSoon ==
    phase = "supervise" =>
        /\ ~refresh => gap + sessionTimer >= SessionWatchdog(expires)
        /\ refresh /\ agreed = expires /\ punctual => sessionTimer > 0

Inv == Kinds /\ Timers /\ Intervals /\ NotTooLate /\ NotTooSoon /\ RefreshedKept

LEMMA Constants ==
  /\ Default \in Nat /\ Grace \in Nat /\ Hour \in Nat /\ SetUp \in Nat /\ Eternity \in Nat
  /\ Off \notin Nat
  BY TimerAssumption DEF Off

LEMMA KindsAreTypes == Kinds <=> TypeOK
  BY TimerAssumption DEF Kinds, TypeOK

LEMMA InitInv ==
  ASSUME Init
  PROVE  Inv
  <1>1. /\ expires \in Headers \union {Default} /\ expires \in Nat /\ expires > 0
        /\ agreed = expires
    BY TimerAssumption DEF Init, Answer, ParseSessionExpires
  <1>2. Kinds
    <2>1. limits \in Limits /\ limits \in [max : Nat, idle : Nat, media : Nat]
      BY TimerAssumption DEF Init
    <2>2. 0 \in 0 .. Eternity
      BY Constants
    <2>3. /\ maxTimer = Off /\ mediaTimer = Off /\ sessionTimer = Off /\ phase = "setup"
          /\ quiet = 0 /\ age = 0 /\ gap = 0
          /\ ticker = FALSE /\ refresh = FALSE /\ received = FALSE /\ punctual = TRUE
      BY DEF Init
    <2>4. QED
      BY <1>1, <2>1, <2>2, <2>3 DEF Kinds
  <1>3. Timers /\ Intervals
    BY <1>1 DEF Init, Timers, Intervals
  <1>4. NotTooLate /\ NotTooSoon /\ RefreshedKept
    BY TimerAssumption DEF Init, NotTooLate, NotTooSoon, RefreshedKept
  <1>5. QED
    BY <1>2, <1>3, <1>4 DEF Inv

LEMMA TypeInv ==
  ASSUME Kinds, Timers, Intervals, [Next]_vars
  PROVE  (Kinds /\ Timers /\ Intervals)'
  <1> USE TimerAssumption DEF Kinds, Timers, Intervals, Off, Ends, timerVars,
          mediaVars, peerVars
  <1>1. CASE Supervise
    BY <1>1 DEF Supervise, Timer, SessionWatchdog
  <1>2. CASE OtherEnd
    BY <1>2 DEF OtherEnd, Return
  <1>3. CASE MaxDurationReached
    BY <1>3 DEF MaxDurationReached, Return
  <1>4. CASE MediaDeadline
    BY <1>4 DEF MediaDeadline, Return
  <1>5. CASE Refreshed
    <2>1. sessionTimer' \in Nat
      BY <1>5, Constants DEF Refreshed, SessionWatchdog
    <2>2. refresh' = FALSE
      BY <1>5 DEF Refreshed
    <2>3. UNCHANGED <<limits, expires, phase, maxTimer, mediaTimer, ticker, received,
                      quiet, age, gap, agreed, punctual>>
      BY <1>5 DEF Refreshed
    <2>4. phase = "supervise"
      BY <1>5 DEF Refreshed
    <2>5. QED
      BY <2>1, <2>2, <2>3, <2>4
  <1>6. CASE NotRefreshed
    BY <1>6 DEF NotRefreshed, Return
  <1>7. CASE IdleCheck
    BY <1>7 DEF IdleCheck, Return
  <1>8. ASSUME NEW header \in Headers \union {Absent}, HandleRefresh(header)
        PROVE  (Kinds /\ Timers /\ Intervals)'
    BY <1>8 DEF HandleRefresh
  <1>9. CASE CountTx
    BY <1>9 DEF CountTx
  <1>10. CASE CountRx
    BY <1>10 DEF CountRx
  <1>11. CASE Tick
    BY <1>11 DEF Tick, Less, More
  <1>12. CASE UNCHANGED vars
    BY <1>12 DEF vars
  <1>13. QED
    BY <1>1, <1>2, <1>3, <1>4, <1>5, <1>6, <1>7, <1>8, <1>9, <1>10, <1>11,
       <1>12 DEF Next

LEMMA LateInv ==
  ASSUME Kinds, Timers, Intervals, NotTooLate, [Next]_vars
  PROVE  NotTooLate'
  <1> USE TimerAssumption DEF Kinds, Timers, Intervals, NotTooLate,
          SessionWatchdog, Off, Ends, timerVars, mediaVars, peerVars
  <1>1. CASE Supervise
    BY <1>1 DEF Supervise, Timer, SessionWatchdog
  <1>2. CASE OtherEnd
    BY <1>2 DEF OtherEnd, Return
  <1>3. CASE MaxDurationReached
    BY <1>3 DEF MaxDurationReached, Return
  <1>4. CASE MediaDeadline
    BY <1>4 DEF MediaDeadline, Return
  <1>5. CASE Refreshed
    BY <1>5 DEF Refreshed, SessionWatchdog
  <1>6. CASE NotRefreshed
    BY <1>6 DEF NotRefreshed, Return
  <1>7. CASE IdleCheck
    <2>1. CASE limits.idle > 0 /\ quiet > limits.idle /\ Return("idle-timeout")
      BY <2>1 DEF Return
    <2>2. CASE phase = "supervise" /\ ~(limits.idle > 0 /\ quiet > limits.idle)
               /\ ticker' = FALSE
               /\ UNCHANGED <<limits, expires, phase, maxTimer, mediaTimer, sessionTimer,
                              mediaVars, age, peerVars>>
      BY <2>2
    <2>3. QED
      BY <1>7, <2>1, <2>2 DEF IdleCheck
  <1>8. ASSUME NEW header \in Headers \union {Absent}, HandleRefresh(header)
        PROVE  NotTooLate'
    BY <1>8 DEF HandleRefresh
  <1>9. CASE CountTx
    BY <1>9 DEF CountTx
  <1>10. CASE CountRx
    BY <1>10 DEF CountRx
  <1>11. CASE Tick
    <2>1. UNCHANGED <<limits, expires, phase, received, refresh, agreed, punctual>>
      BY <1>11 DEF Tick
    <2>2. age' \in {age, age + 1} /\ gap' \in {gap, gap + 1}
      BY <1>11 DEF Tick, More
    <2>3. CASE phase = "setup"
      <3>1. age < SetUp /\ gap' <= age' /\ quiet' = quiet /\ ~ticker'
        BY <1>11, <2>3, Constants DEF Tick, More
      <3>2. QED
        BY <2>1, <2>2, <2>3, <3>1, Constants
    <2>4. CASE phase = "supervise"
      <3>1. /\ ~ticker /\ ~refresh /\ ticker'
            /\ maxTimer # 0 /\ mediaTimer # 0 /\ sessionTimer # 0
            /\ quiet' \in {quiet, quiet + 1}
        BY <1>11, <2>4 DEF Tick, More
      <3>2. /\ maxTimer # Off => maxTimer' = maxTimer - 1
            /\ mediaTimer # Off => mediaTimer' = mediaTimer - 1 /\ mediaTimer' \in Nat
            /\ sessionTimer' = sessionTimer - 1
        BY <1>11, <2>4, <3>1, Constants DEF Tick, Less
      <3>3. limits.max > 0 => age' + maxTimer' <= limits.max
        <4>1. ASSUME limits.max > 0 PROVE maxTimer \in Nat /\ maxTimer' = maxTimer - 1
          BY <4>1, <2>4, <3>2
        <4>2. QED
          BY <2>2, <2>4, <4>1
      <3>4. limits.media > 0 /\ ~received => mediaTimer' # Off /\ age' + mediaTimer' <= limits.media
        BY <2>2, <2>4, <3>2, Constants
      <3>5. limits.idle > 0 => quiet' <= limits.idle + 1
        BY <2>4, <3>1
      <3>6. gap' + sessionTimer' <= SessionWatchdog(expires) + SetUp
        <4>1. sessionTimer \in Nat
          BY <2>4
        <4>2. gap + sessionTimer <= SessionWatchdog(expires) + SetUp
          BY <2>4
        <4>3. SessionWatchdog(expires) \in Nat /\ gap \in Nat
          BY Constants
        <4>4. gap' <= gap + 1 /\ gap' \in Nat
          BY <2>2, <4>3
        <4> HIDE DEF SessionWatchdog
        <4>5. QED
          BY <3>2, <4>1, <4>2, <4>3, <4>4, Constants
      <3>7. QED
        BY <2>1, <2>4, <3>1, <3>3, <3>4, <3>5, <3>6
    <2>5. QED
      BY <2>1, <2>3, <2>4
  <1>12. CASE UNCHANGED vars
    BY <1>12 DEF vars
  <1>13. QED
    BY <1>1, <1>2, <1>3, <1>4, <1>5, <1>6, <1>7, <1>8, <1>9, <1>10, <1>11,
       <1>12 DEF Next

LEMMA SoonInv ==
  ASSUME Kinds, Timers, Intervals, NotTooSoon, RefreshedKept, [Next]_vars
  PROVE  (NotTooSoon /\ RefreshedKept)'
  <1> USE TimerAssumption, ClockAssumption DEF Kinds, Timers, Intervals,
          NotTooSoon, RefreshedKept, SessionWatchdog, Off, Ends, timerVars,
          mediaVars, peerVars
  <1>1. CASE Supervise
    BY <1>1 DEF Supervise, Timer, SessionWatchdog
  <1>2. CASE OtherEnd
    BY <1>2 DEF OtherEnd, Return
  <1>3. CASE MaxDurationReached
    BY <1>3 DEF MaxDurationReached, Return
  <1>4. CASE MediaDeadline
    BY <1>4 DEF MediaDeadline, Return
  <1>5. CASE Refreshed
    BY <1>5 DEF Refreshed, SessionWatchdog
  <1>6. CASE NotRefreshed
    BY <1>6 DEF NotRefreshed, Return
  <1>7. CASE IdleCheck
    <2>1. CASE limits.idle > 0 /\ quiet > limits.idle /\ Return("idle-timeout")
      BY <2>1 DEF Return
    <2>2. CASE phase = "supervise" /\ ~(limits.idle > 0 /\ quiet > limits.idle)
               /\ ticker' = FALSE
               /\ UNCHANGED <<limits, expires, phase, maxTimer, mediaTimer, sessionTimer,
                              mediaVars, age, peerVars>>
      BY <2>2
    <2>3. QED
      BY <1>7, <2>1, <2>2 DEF IdleCheck
  <1>8. ASSUME NEW header \in Headers \union {Absent}, HandleRefresh(header)
        PROVE  (NotTooSoon /\ RefreshedKept)'
    BY <1>8 DEF HandleRefresh
  <1>9. CASE CountTx
    BY <1>9 DEF CountTx
  <1>10. CASE CountRx
    BY <1>10 DEF CountRx
  <1>11. CASE Tick
    BY <1>11 DEF Tick, Less, More
  <1>12. CASE UNCHANGED vars
    BY <1>12 DEF vars
  <1>13. QED
    BY <1>1, <1>2, <1>3, <1>4, <1>5, <1>6, <1>7, <1>8, <1>9, <1>10, <1>11,
       <1>12 DEF Next

LEMMA InvHolds == Spec => []Inv
  <1>1. Inv /\ [Next]_vars => Inv'
    BY TypeInv, LateInv, SoonInv DEF Inv
  <1>2. QED
    BY InitInv, <1>1, PTL DEF Spec

\* The clocks of a call keep to their types: no timer runs below zero, and
\* the longest duration is timed exactly when there is one.
THEOREM TypesHold == Spec => []TypeOK
  <1>1. Inv => TypeOK
    BY KindsAreTypes DEF Inv
  <1>2. QED
    BY InvHolds, <1>1, PTL

\* No call outlives its longest duration, its idle limit, its wait for media
\* or its far end's refreshes, whichever of the ready cases select takes.
THEOREM NoCallOverdue == Spec => []OverdueEnds
  <1>1. Inv => OverdueEnds
    BY TimerAssumption DEF Inv, Kinds, Timers, Intervals, NotTooLate,
       OverdueEnds,
       SessionWatchdog, Off
  <1>2. QED
    BY InvHolds, <1>1, PTL

\* The watchdog ends no call whose far end refreshed in time, however the
\* refresh races the timer and though it comes before supervise.
THEOREM RefreshedIsKept == Spec => []RefreshedKept
  <1>1. Inv => RefreshedKept
    BY DEF Inv
  <1>2. QED
    BY InvHolds, <1>1, PTL
=============================================================================
