------------------------- MODULE RegistrationProofs -------------------------
(***************************************************************************)
(* Proofs about module Registration, for every set of lifetimes the        *)
(* registrar may grant, any number of REGISTERs and any timeout of theirs: *)
(* the types, CSeqsDistinct, LastWordHolds and BindingKept.                *)
(*                                                                         *)
(* None of the three is inductive.  Beside them go what Run and its        *)
(* refresher may be doing together (Control), which numbers are out        *)
(* (Numbers), what the registrar remembers of them (Words), what the first *)
(* registration left behind (First), when the refresher's ticker fires     *)
(* (Clock) and how far the binding is ahead of it (Ahead).                 *)
(***************************************************************************)
EXTENDS Registration, TLAPS

\* Who may have a REGISTER out, and of which kind.
Control ==
    /\ run = "starting" => refresher = "off" /\ ~lapsed
    /\ run = "up" => refresher \in {"waiting", "chosen", "refreshing"}
    /\ Out("run") => run \in {"starting", "leaving"}
    /\ Out("run") => op["run"].bind = (run = "starting")
    /\ Out("refresher") <=> refresher = "refreshing"
    /\ Out("refresher") => op["refresher"].bind
    /\ refresher # "off" => interval = Interval(granted)

\* The numbers of the REGISTERs out and sent; one of them at most unregisters.
Numbers ==
    /\ \A c \in Callers : Out(c) => op[c].cseq \in 1 .. regCSeq
    /\ Out("run") /\ Out("refresher") => op["run"].cseq # op["refresher"].cseq
    /\ \A c \in Callers : op[c].phase = "sent" =>
          [cseq |-> op[c].cseq, bind |-> op[c].bind] \in requests
    /\ \A r \in requests : r.cseq \in 1 .. regCSeq
    /\ \A r \in requests : ~r.bind =>
          \/ run = "gone"
          \/ run = "leaving" /\ op["run"].phase = "sent" /\ op["run"].cseq = r.cseq

\* What the registrar has answered, and whose word its binding is.
Words ==
    /\ lastCSeq <= regCSeq
    /\ \A a \in answers : a <= lastCSeq
    /\ left # 0 => \E r \in requests : r.bind /\ r.cseq = lastCSeq
    /\ unbound => run = "gone" /\ \A r \in requests : ~r.bind => r.cseq \in answers

\* The first REGISTER has number 1, and the binding it made has run no longer
\* than it has been under way itself.
First ==
    /\ run = "starting" =>
          /\ regCSeq = IF Out("run") THEN 1 ELSE 0
          /\ lastCSeq # 0 => left + op["run"].age >= granted
    /\ granted = 0 <=> lastCSeq = 0
    /\ IF refresher = "off"
       THEN run \in {"starting", "gone"} /\ \A r \in requests : r.bind
       ELSE lastCSeq # 0
    /\ granted # 0 /\ ~short => granted > Interval(granted) + 2 * TimerF

\* The ticker is started again as a refresh begins.
Clock ==
    /\ refresher = "chosen" => ticker = interval
    /\ refresher = "refreshing" => ticker + op["refresher"].age = interval

\* While nothing went wrong, the binding outlives the next refresh, be it still
\* to come (after the ticker) or under way; once the one under way is answered,
\* the one after it.
Ahead ==
    run = "up" /\ ~missed /\ ~short =>
        /\ refresher = "waiting" => left > ticker + TimerF
        /\ refresher = "chosen" => left > TimerF
        /\ refresher = "refreshing" =>
              /\ left + op["refresher"].age > TimerF
              /\ op["refresher"].cseq \in answers => left > ticker + TimerF

Inv == /\ TypeOK /\ Control /\ CSeqsDistinct /\ Numbers /\ Words
       /\ First /\ Clock /\ Ahead /\ BindingKept

LEMMA IdleCall == Idle \in Calls
  BY RegistrationAssumption DEF Idle, Calls

LEMMA InitInv ==
  ASSUME Init
  PROVE  Inv
  <1>1. TypeOK
    <2>1. op \in [Callers -> Calls]
      BY IdleCall DEF Init
    <2>2. interval \in Nat /\ ticker \in 0 .. interval
      BY DEF Init
    <2>3. /\ requests \subseteq [cseq : Nat, bind : BOOLEAN]
          /\ answers \subseteq Nat
      BY DEF Init
    <2>4. unbound \in BOOLEAN /\ lapsed \in BOOLEAN /\ missed \in BOOLEAN /\ short \in BOOLEAN
      BY DEF Init
    <2>5. /\ regCSeq \in Nat /\ left \in Nat /\ lastCSeq \in Nat /\ granted \in Nat
          /\ run = "starting" /\ refresher = "off"
      BY DEF Init
    <2>6. QED
      BY <2>1, <2>2, <2>3, <2>4, <2>5 DEF TypeOK
  <1> USE DEF Init, Callers, Idle, Out
  <1>2. Control /\ CSeqsDistinct /\ Numbers
    BY DEF Control, CSeqsDistinct, Numbers
  <1>3. Words /\ First /\ Clock /\ Ahead /\ BindingKept
    BY DEF Words, First, Clock, Ahead, BindingKept
  <1>4. QED
    BY <1>1, <1>2, <1>3 DEF Inv

\* The refresher's interval is a minute at least; a first lifetime that is not
\* too short outlasts it and two transactions, a later one it and one of them.
LEMMA IntervalBounds ==
  ASSUME NEW e \in Nat
  PROVE  /\ Interval(e) \in Nat \ {0}
         /\ Interval(e) >= TimerF
         /\ e > Minute + 2 * TimerF /\ e > 4 * TimerF
               => e > Interval(e) + 2 * TimerF
         /\ \A g \in Nat :
               g > Minute + TimerF /\ 2 * g > e + 2 * TimerF
                  => g > Interval(e) + TimerF
  BY RegistrationAssumption DEF Interval

LEMMA CloseTyped ==
  ASSUME op \in [Callers -> Calls], NEW c \in Callers, Close(c)
  PROVE  op' \in [Callers -> Calls]
  BY IdleCall DEF Close

\* The registrar's step: a new REGISTER or a repetition.
LEMMA RegistrarStep ==
  ASSUME TypeOK, RegistrarTakes
  PROVE  /\ UNCHANGED <<run, refresher, opVars, timeVars, requests, unbound,
                         lapsed, missed>>
         /\ \/ UNCHANGED <<lastCSeq, answers, left, short, granted>>
            \/ \E r \in requests :
                  /\ r.cseq > lastCSeq /\ lastCSeq' = r.cseq
                  /\ answers' = answers \union {r.cseq}
                  /\ ~r.bind => left' = 0 /\ UNCHANGED <<short, granted>>
                  /\ r.bind => /\ left' \in Grants
                               /\ short' = (short \/ TooShort(left'))
                               /\ granted' = IF granted = 0 THEN left' ELSE granted
  BY DEF RegistrarTakes

LEMMA LongEnough ==
  ASSUME granted \in Nat, NEW g \in Nat, ~TooShort(g)
  PROVE  /\ granted = 0 => g > Interval(g) + 2 * TimerF
         /\ granted # 0 => g > Interval(granted) + TimerF
  <1>1. CASE granted = 0
    <2>1. g > Minute + 2 * TimerF /\ g > 4 * TimerF
      BY <1>1, RegistrationAssumption DEF TooShort
    <2>2. QED
      BY <1>1, <2>1, IntervalBounds
  <1>2. CASE granted # 0
    <2>1. g > Minute + TimerF /\ 2 * g > granted + 2 * TimerF
      BY <1>2, RegistrationAssumption DEF TooShort
    <2>2. QED
      BY <1>2, <2>1, IntervalBounds
  <1>3. QED
    BY <1>1, <1>2

LEMMA TypeInv ==
  ASSUME Inv, [Next]_vars
  PROVE  TypeOK'
  <1> USE RegistrationAssumption, IntervalBounds DEF Inv, TypeOK, Control, Out,
          Callers, Idle, Calls, opVars, regVars, timeVars
  <1>1. ASSUME NEW c \in Callers, Transmit(c) PROVE TypeOK'
    BY <1>1 DEF Transmit
  <1>2. CASE RegisterBegins
    BY <1>2 DEF RegisterBegins, TakeCSeq, NextCSeq
  <1>3. CASE RegisterSucceeds
    BY <1>3 DEF RegisterSucceeds, Close, Answered
  <1>4. CASE RegisterFails
    BY <1>4 DEF RegisterFails, Close, Abandoned
  <1>5. CASE CloseRegDone
    BY <1>5 DEF CloseRegDone
  <1>6. CASE UnregisterBegins
    BY <1>6 DEF UnregisterBegins, TakeCSeq, NextCSeq
  <1>7. CASE UnregisterEnds
    <2>1. op' \in [Callers -> Calls]
      BY <1>7, CloseTyped DEF UnregisterEnds
    <2>2. /\ run' = "gone" /\ unbound' \in BOOLEAN
          /\ UNCHANGED <<refresher, timeVars, regVars, missed, regCSeq>>
      BY <1>7 DEF UnregisterEnds, Close
    <2>3. QED
      BY <2>1, <2>2
  <1>8. CASE SeesDone
    BY <1>8 DEF SeesDone
  <1>9. CASE SeesTick
    BY <1>9 DEF SeesTick
  <1>10. CASE RefreshBegins
    BY <1>10 DEF RefreshBegins, TakeCSeq, NextCSeq
  <1>11. CASE RefreshEnds
    <2>1. op' \in [Callers -> Calls]
      BY <1>11, CloseTyped DEF RefreshEnds
    <2>2. /\ refresher = "refreshing" /\ refresher' = "waiting" /\ missed' \in BOOLEAN
          /\ UNCHANGED <<run, timeVars, regVars, unbound, regCSeq>>
      BY <1>11 DEF RefreshEnds, Close
    <2>3. QED
      BY <2>1, <2>2
  <1>12. CASE RegistrarTakes
    <2>1. PICK r \in requests :
               \/ r.cseq > lastCSeq /\ lastCSeq' = r.cseq /\ answers' = answers \union {r.cseq}
               \/ UNCHANGED <<lastCSeq, answers>>
      BY <1>12 DEF RegistrarTakes
    <2>2. left' \in Nat /\ short' \in BOOLEAN /\ granted' \in Nat
      BY <1>12 DEF RegistrarTakes, TooShort
    <2>3. QED
      BY <1>12, <2>1, <2>2 DEF RegistrarTakes
  <1>13. CASE Tick
    BY <1>13 DEF Tick
  <1>14. CASE UNCHANGED vars
    BY <1>14 DEF vars
  <1>15. QED
    BY <1>1, <1>2, <1>3, <1>4, <1>5, <1>6, <1>7, <1>8, <1>9, <1>10, <1>11,
       <1>12, <1>13, <1>14 DEF Next

LEMMA ControlInv ==
  ASSUME Inv, [Next]_vars
  PROVE  Control'
  <1> USE DEF Inv, TypeOK, Control, First, Out, Callers, Idle, Calls, opVars,
          regVars, timeVars
  <1>1. ASSUME NEW c \in Callers, Transmit(c) PROVE Control'
    BY <1>1 DEF Transmit
  <1>2. CASE RegisterBegins
    BY <1>2 DEF RegisterBegins, TakeCSeq, NextCSeq
  <1>3. CASE RegisterSucceeds
    BY <1>3 DEF RegisterSucceeds, Close, Answered
  <1>4. CASE RegisterFails
    BY <1>4 DEF RegisterFails, Close, Abandoned
  <1>5. CASE CloseRegDone
    BY <1>5 DEF CloseRegDone
  <1>6. CASE UnregisterBegins
    BY <1>6 DEF UnregisterBegins, TakeCSeq, NextCSeq
  <1>7. CASE UnregisterEnds
    BY <1>7 DEF UnregisterEnds, Close, Answered, Abandoned
  <1>8. CASE SeesDone
    BY <1>8 DEF SeesDone
  <1>9. CASE SeesTick
    BY <1>9 DEF SeesTick
  <1>10. CASE RefreshBegins
    BY <1>10 DEF RefreshBegins, TakeCSeq, NextCSeq
  <1>11. CASE RefreshEnds
    BY <1>11 DEF RefreshEnds, Close, Answered, Abandoned
  <1>12. CASE RegistrarTakes
    BY <1>12 DEF RegistrarTakes
  <1>13. CASE Tick
    BY <1>13 DEF Tick
  <1>14. CASE UNCHANGED vars
    BY <1>14 DEF vars
  <1>15. QED
    BY <1>1, <1>2, <1>3, <1>4, <1>5, <1>6, <1>7, <1>8, <1>9, <1>10, <1>11,
       <1>12, <1>13, <1>14 DEF Next

LEMMA NumbersInv ==
  ASSUME Inv, [Next]_vars
  PROVE  (CSeqsDistinct /\ Numbers)'
  <1> USE DEF Inv, TypeOK, Control, CSeqsDistinct, Numbers, Out, Callers, Idle,
          Calls, opVars, regVars, timeVars
  <1>1. ASSUME NEW c \in Callers, Transmit(c) PROVE (CSeqsDistinct /\ Numbers)'
    BY <1>1 DEF Transmit
  <1>2. CASE RegisterBegins
    BY <1>2 DEF RegisterBegins, TakeCSeq, NextCSeq
  <1>3. CASE RegisterSucceeds
    BY <1>3 DEF RegisterSucceeds, Close, Answered
  <1>4. CASE RegisterFails
    BY <1>4 DEF RegisterFails, Close, Abandoned
  <1>5. CASE CloseRegDone
    BY <1>5 DEF CloseRegDone
  <1>6. CASE UnregisterBegins
    BY <1>6 DEF UnregisterBegins, TakeCSeq, NextCSeq
  <1>7. CASE UnregisterEnds
    BY <1>7 DEF UnregisterEnds, Close, Answered, Abandoned
  <1>8. CASE SeesDone
    BY <1>8 DEF SeesDone
  <1>9. CASE SeesTick
    BY <1>9 DEF SeesTick
  <1>10. CASE RefreshBegins
    BY <1>10 DEF RefreshBegins, TakeCSeq, NextCSeq
  <1>11. CASE RefreshEnds
    BY <1>11 DEF RefreshEnds, Close, Answered, Abandoned
  <1>12. CASE RegistrarTakes
    BY <1>12 DEF RegistrarTakes
  <1>13. CASE Tick
    BY <1>13 DEF Tick
  <1>14. CASE UNCHANGED vars
    BY <1>14 DEF vars
  <1>15. QED
    BY <1>1, <1>2, <1>3, <1>4, <1>5, <1>6, <1>7, <1>8, <1>9, <1>10, <1>11,
       <1>12, <1>13, <1>14 DEF Next

LEMMA WordsInv ==
  ASSUME Inv, [Next]_vars
  PROVE  Words'
  <1> USE RegistrationAssumption DEF Inv, TypeOK, Control, Numbers, Words, Out,
          Callers, Idle, Calls, opVars, regVars, timeVars
  <1>1. ASSUME NEW c \in Callers, Transmit(c) PROVE Words'
    BY <1>1 DEF Transmit
  <1>2. CASE RegisterBegins
    BY <1>2 DEF RegisterBegins, TakeCSeq, NextCSeq
  <1>3. CASE RegisterSucceeds
    BY <1>3 DEF RegisterSucceeds, Close, Answered
  <1>4. CASE RegisterFails
    BY <1>4 DEF RegisterFails, Close, Abandoned
  <1>5. CASE CloseRegDone
    BY <1>5 DEF CloseRegDone
  <1>6. CASE UnregisterBegins
    BY <1>6 DEF UnregisterBegins, TakeCSeq, NextCSeq
  <1>7. CASE UnregisterEnds
    BY <1>7 DEF UnregisterEnds, Close, Answered, Abandoned
  <1>8. CASE SeesDone
    BY <1>8 DEF SeesDone
  <1>9. CASE SeesTick
    BY <1>9 DEF SeesTick
  <1>10. CASE RefreshBegins
    BY <1>10 DEF RefreshBegins, TakeCSeq, NextCSeq
  <1>11. CASE RefreshEnds
    BY <1>11 DEF RefreshEnds, Close, Answered, Abandoned
  <1>12. CASE RegistrarTakes
    <2>1. PICK r \in requests :
               \/ /\ r.cseq > lastCSeq /\ lastCSeq' = r.cseq
                  /\ answers' = answers \union {r.cseq}
                  /\ ~r.bind => left' = 0
               \/ UNCHANGED <<answers, left, lastCSeq>>
      BY <1>12 DEF RegistrarTakes
    <2>2. UNCHANGED <<run, requests, regCSeq, unbound>>
      BY <1>12 DEF RegistrarTakes
    <2>3. r.cseq \in Nat /\ r.cseq <= regCSeq /\ lastCSeq \in Nat /\ answers \subseteq Nat
      OBVIOUS
    <2>4. lastCSeq' <= regCSeq' /\ \A a \in answers' : a <= lastCSeq'
      <3>1. lastCSeq' <= regCSeq'
        BY <2>1, <2>2, <2>3
      <3>2. ASSUME NEW a \in answers' PROVE a <= lastCSeq'
        <4>1. CASE a \in answers
          BY <2>1, <2>3, <4>1
        <4>2. CASE a \notin answers
          BY <2>1, <2>3, <4>2
        <4>3. QED
          BY <4>1, <4>2
      <3>3. QED
        BY <3>1, <3>2
    <2>5. left' # 0 => \E s \in requests' : s.bind /\ s.cseq = lastCSeq'
      BY <2>1, <2>2
    <2>6. unbound' => run' = "gone" /\ \A s \in requests' : ~s.bind => s.cseq \in answers'
      BY <2>1, <2>2
    <2>7. QED
      BY <2>4, <2>5, <2>6
  <1>13. CASE Tick
    BY <1>13 DEF Tick
  <1>14. CASE UNCHANGED vars
    BY <1>14 DEF vars
  <1>15. QED
    BY <1>1, <1>2, <1>3, <1>4, <1>5, <1>6, <1>7, <1>8, <1>9, <1>10, <1>11,
       <1>12, <1>13, <1>14 DEF Next

LEMMA FirstInv ==
  ASSUME Inv, [Next]_vars
  PROVE  First'
  <1> USE RegistrationAssumption, IntervalBounds DEF Inv, TypeOK, Control,
          Numbers, Words, First, Out, Callers, Idle, Calls, opVars, regVars,
          timeVars
  <1>1. ASSUME NEW c \in Callers, Transmit(c) PROVE First'
    BY <1>1 DEF Transmit
  <1>2. CASE RegisterBegins
    BY <1>2 DEF RegisterBegins, TakeCSeq, NextCSeq
  <1>3. CASE RegisterSucceeds
    BY <1>3 DEF RegisterSucceeds, Close, Answered
  <1>4. CASE RegisterFails
    BY <1>4 DEF RegisterFails, Close, Abandoned
  <1>5. CASE CloseRegDone
    BY <1>5 DEF CloseRegDone
  <1>6. CASE UnregisterBegins
    BY <1>6 DEF UnregisterBegins, TakeCSeq, NextCSeq
  <1>7. CASE UnregisterEnds
    BY <1>7 DEF UnregisterEnds, Close, Answered, Abandoned
  <1>8. CASE SeesDone
    BY <1>8 DEF SeesDone
  <1>9. CASE SeesTick
    BY <1>9 DEF SeesTick
  <1>10. CASE RefreshBegins
    BY <1>10 DEF RefreshBegins, TakeCSeq, NextCSeq
  <1>11. CASE RefreshEnds
    BY <1>11 DEF RefreshEnds, Close, Answered, Abandoned
  <1>12. CASE RegistrarTakes
    <2>1. CASE UNCHANGED <<lastCSeq, answers, left, short, granted>>
      BY <1>12, <2>1, RegistrarStep
    <2>2. CASE lastCSeq' # lastCSeq
      <3>1. PICK r \in requests :
               /\ r.cseq > lastCSeq /\ lastCSeq' = r.cseq
               /\ ~r.bind => left' = 0 /\ UNCHANGED <<short, granted>>
               /\ r.bind => /\ left' \in Grants
                            /\ short' = (short \/ TooShort(left'))
                            /\ granted' = IF granted = 0 THEN left' ELSE granted
        BY <1>12, <2>2, RegistrarStep
      <3>2. r.cseq \in Nat \ {0} /\ r.cseq <= regCSeq
        OBVIOUS
      <3>3. UNCHANGED <<run, refresher, op, regCSeq, requests>>
        BY <1>12, RegistrarStep
      <3>4. ~r.bind => run \in {"leaving", "gone"}
        OBVIOUS
      <3>5. QED
        <4>1. CASE granted = 0
          <5>1. r.bind /\ left' \in Nat \ {0} /\ granted' = left'
            BY <3>1, <3>4, <4>1
          <5>2. ~short' => granted' > Interval(granted') + 2 * TimerF
            BY <3>1, <4>1, <5>1, LongEnough
          <5>3. QED
            BY <3>1, <3>2, <3>3, <5>1, <5>2
        <4>2. CASE granted # 0
          <5>1. run # "starting" /\ granted' = granted /\ (short => short')
            BY <3>1, <3>2, <4>2
          <5>2. QED
            BY <3>1, <3>2, <3>3, <4>2, <5>1
        <4>3. QED
          BY <4>1, <4>2
    <2>3. QED
      BY <1>12, <2>1, <2>2, RegistrarStep
  <1>13. CASE Tick
    BY <1>13 DEF Tick
  <1>14. CASE UNCHANGED vars
    BY <1>14 DEF vars
  <1>15. QED
    BY <1>1, <1>2, <1>3, <1>4, <1>5, <1>6, <1>7, <1>8, <1>9, <1>10, <1>11,
       <1>12, <1>13, <1>14 DEF Next

LEMMA ClockInv ==
  ASSUME Inv, [Next]_vars
  PROVE  Clock'
  <1> USE RegistrationAssumption, IntervalBounds DEF Inv, TypeOK, Control,
          Clock, Out, Callers, Idle, Calls, opVars, regVars, timeVars
  <1>1. ASSUME NEW c \in Callers, Transmit(c) PROVE Clock'
    BY <1>1 DEF Transmit
  <1>2. CASE RegisterBegins
    BY <1>2 DEF RegisterBegins, TakeCSeq, NextCSeq
  <1>3. CASE RegisterSucceeds
    BY <1>3 DEF RegisterSucceeds, Close, Answered
  <1>4. CASE RegisterFails
    BY <1>4 DEF RegisterFails, Close, Abandoned
  <1>5. CASE CloseRegDone
    BY <1>5 DEF CloseRegDone
  <1>6. CASE UnregisterBegins
    BY <1>6 DEF UnregisterBegins, TakeCSeq, NextCSeq
  <1>7. CASE UnregisterEnds
    BY <1>7 DEF UnregisterEnds, Close, Answered, Abandoned
  <1>8. CASE SeesDone
    BY <1>8 DEF SeesDone
  <1>9. CASE SeesTick
    BY <1>9 DEF SeesTick
  <1>10. CASE RefreshBegins
    BY <1>10 DEF RefreshBegins, TakeCSeq, NextCSeq
  <1>11. CASE RefreshEnds
    BY <1>11 DEF RefreshEnds, Close, Answered, Abandoned
  <1>12. CASE RegistrarTakes
    BY <1>12 DEF RegistrarTakes
  <1>13. CASE Tick
    BY <1>13 DEF Tick
  <1>14. CASE UNCHANGED vars
    BY <1>14 DEF vars
  <1>15. QED
    BY <1>1, <1>2, <1>3, <1>4, <1>5, <1>6, <1>7, <1>8, <1>9, <1>10, <1>11,
       <1>12, <1>13, <1>14 DEF Next

LEMMA AheadInv ==
  ASSUME Inv, [Next]_vars
  PROVE  (Ahead /\ BindingKept)'
  <1> USE RegistrationAssumption, IntervalBounds DEF Inv, TypeOK, Control,
          Numbers, Words, First, Clock, Ahead, BindingKept, Out, Callers,
          Idle, Calls, opVars, regVars, timeVars
  <1>1. ASSUME NEW c \in Callers, Transmit(c) PROVE (Ahead /\ BindingKept)'
    BY <1>1 DEF Transmit
  <1>2. CASE RegisterBegins
    BY <1>2 DEF RegisterBegins, TakeCSeq, NextCSeq
  <1>3. CASE RegisterSucceeds
    BY <1>3 DEF RegisterSucceeds, Close, Answered
  <1>4. CASE RegisterFails
    BY <1>4 DEF RegisterFails, Close, Abandoned
  <1>5. CASE CloseRegDone
    BY <1>5 DEF CloseRegDone
  <1>6. CASE UnregisterBegins
    BY <1>6 DEF UnregisterBegins, TakeCSeq, NextCSeq
  <1>7. CASE UnregisterEnds
    BY <1>7 DEF UnregisterEnds, Close, Answered, Abandoned
  <1>8. CASE SeesDone
    BY <1>8 DEF SeesDone
  <1>9. CASE SeesTick
    BY <1>9 DEF SeesTick
  <1>10. CASE RefreshBegins
    BY <1>10 DEF RefreshBegins, TakeCSeq, NextCSeq
  <1>11. CASE RefreshEnds
    BY <1>11 DEF RefreshEnds, Close, Answered, Abandoned
  <1>12. CASE RegistrarTakes
    <2>1. CASE UNCHANGED <<lastCSeq, answers, left, short, granted>>
      BY <1>12, <2>1, RegistrarStep
    <2>2. CASE run = "up" /\ lastCSeq' # lastCSeq
      <3>1. PICK r \in requests :
               /\ r.cseq > lastCSeq /\ lastCSeq' = r.cseq
               /\ r.bind => /\ left' \in Grants
                            /\ short' = (short \/ TooShort(left'))
        BY <1>12, <2>2, RegistrarStep
      <3>2. r.bind /\ granted # 0
        BY <2>2
      <3>3. ~short' => left' \in Nat /\ left' > Interval(granted) + TimerF
        <4>1. ASSUME ~short'
              PROVE  left' \in Nat /\ left' > Interval(granted) + TimerF
          <5>1. left' \in Nat /\ ~TooShort(left')
            BY <3>1, <3>2, <4>1
          <5>2. QED
            BY <3>2, <5>1, LongEnough
        <4>2. QED
          BY <4>1
      <3>4. /\ UNCHANGED <<run, refresher, op, ticker, interval, missed, lapsed>>
            /\ short => short'
        BY <1>12, <2>2, <3>1, <3>2, RegistrarStep
      <3>5. QED
        BY <2>2, <3>3, <3>4
    <2>3. QED
      BY <1>12, <2>1, <2>2, RegistrarStep
  <1>13. CASE Tick
    BY <1>13 DEF Tick
  <1>14. CASE UNCHANGED vars
    BY <1>14 DEF vars
  <1>15. QED
    BY <1>1, <1>2, <1>3, <1>4, <1>5, <1>6, <1>7, <1>8, <1>9, <1>10, <1>11,
       <1>12, <1>13, <1>14 DEF Next

LEMMA InvHolds == Spec => []Inv
  <1>1. Inv /\ [Next]_vars => Inv'
    BY TypeInv, ControlInv, NumbersInv, WordsInv, FirstInv, ClockInv, AheadInv
       DEF Inv
  <1>2. QED
    BY InitInv, <1>1, PTL DEF Spec

\* The registration and its refresher keep to their types: in particular the
\* ticker is never made with an interval of zero, which would panic.
THEOREM TypesHold == Spec => []TypeOK
  <1>1. Inv => TypeOK
    BY DEF Inv
  <1>2. QED
    BY InvHolds, <1>1, PTL

\* Two goroutines number the REGISTERs, and no two of them share a CSeq.
THEOREM CSeqsStayDistinct == Spec => []CSeqsDistinct
  <1>1. Inv => CSeqsDistinct
    BY DEF Inv
  <1>2. QED
    BY InvHolds, <1>1, PTL

\* Once Unregister is answered the binding is gone, unless a refresh was
\* numbered after it; whatever the network loses, delays or repeats.
THEOREM LastWordStands == Spec => []LastWordHolds
  <1>1. Inv => LastWordHolds
    <2>1. SUFFICES ASSUME Inv, unbound, left # 0
                   PROVE  \E r \in requests : r.bind /\ \A s \in requests :
                                                ~s.bind => s.cseq < r.cseq
      BY DEF LastWordHolds
    <2>2. PICK r \in requests : r.bind /\ r.cseq = lastCSeq
      BY <2>1 DEF Inv, Words
    <2>3. ASSUME NEW s \in requests, ~s.bind
          PROVE  s.cseq < r.cseq
      <3>1. s.cseq <= lastCSeq
        BY <2>1, <2>3 DEF Inv, Words
      <3>2. s.cseq # r.cseq
        BY <2>1, <2>2, <2>3 DEF Inv, CSeqsDistinct
      <3>3. s.cseq \in Nat /\ r.cseq \in Nat
        BY <2>1 DEF Inv, TypeOK
      <3>4. QED
        BY <2>2, <3>1, <3>2, <3>3
    <2>4. QED
      BY <2>2, <2>3
  <1>2. QED
    BY InvHolds, <1>1, PTL

\* The refresher's first interval keeps the binding alive, unless a refresh
\* fails or the registrar grants too little; for every set of lifetimes.
THEOREM BindingStaysKept == Spec => []BindingKept
  <1>1. Inv => BindingKept
    BY DEF Inv
  <1>2. QED
    BY InvHolds, <1>1, PTL
=============================================================================
