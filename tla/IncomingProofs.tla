--------------------------- MODULE IncomingProofs ---------------------------
(***************************************************************************)
(* Proofs about module Incoming, for any number of callers, of any kind,   *)
(* and any number of messages in flight: the types, OneCall and            *)
(* CallerTold.                                                             *)
(*                                                                         *)
(* Neither is inductive.  Engaged says whose the dialog is at each of      *)
(* Run's program points, OneVoice who may have been told 200; Farewells    *)
(* says that a BYE from the far end, on the wire or taken, was the last of *)
(* its caller, and Left why Run may end without a BYE of its own.          *)
(***************************************************************************)
EXTENDS Incoming, FiniteSetTheorems, TLAPS

\* The types but for the wire's, and what is on the wire.
Typed ==
    /\ kind \in Offers
    /\ waiter \in {"elsewhere", "waiting", "accepting", "up", "hanging", "over"}
    /\ held \in Callers \union {None}
    /\ queue = <<>> \/ \E c \in Callers : queue = <<c>>
    /\ loop \in Callers \union {None}
    /\ dialog \in Callers \union {None}
    /\ ended \in {"none", "remote-bye", "local-bye", "no-ack"}
    /\ acked \in BOOLEAN /\ resender \in BOOLEAN
    /\ replied \in [Callers -> SUBSET {"200", "refused"}]
    /\ byed \in BOOLEAN
    /\ caller \in [Callers -> {"idle", "calling", "ringing", "cancelling",
                               "talking", "refused", "gone"}]

Messages == (ToUA \union ToPeer) \X Callers

OnWire ==
    /\ wire \subseteq Messages
    /\ \A c \in Callers : <<"BYE", c>> \in wire => caller[c] = "gone"

Free == {"elsewhere", "waiting"}
Busy == {"accepting", "up", "hanging"}

Engaged ==
    /\ waiter \in Free => held = None /\ dialog = None /\ ended = "none" /\ ~resender
    /\ waiter \in Busy => held \in Callers
    /\ waiter = "accepting" => ~resender
    /\ dialog \in {None, held}

\* Nobody is told 200 before a call is accepted; afterwards one caller is.
OneVoice ==
    /\ \A c, d \in Callers : "200" \in replied[c] /\ "200" \in replied[d] => c = d
    /\ waiter \in Free => \A c \in Callers : "200" \notin replied[c]
    /\ waiter \in Busy => \A c \in Callers : "200" \in replied[c] => c = held

Farewells ==
    /\ ended = "remote-bye" /\ held # None => caller[held] = "gone"
    /\ ended = "local-bye" => byed
    /\ waiter = "hanging" => byed

Left ==
    waiter = "over" /\ held # None =>
        byed \/ ended \in {"no-ack", "remote-bye"} \/ kind[held] = "unroutable"

Inv == Typed /\ OnWire /\ Engaged /\ OneVoice /\ Farewells /\ Left

\* What the network carries was on the wire or is sent now.
LEMMA CarrySubset ==
  ASSUME NEW w, NEW ms
  PROVE  Carry(w, ms) \subseteq w \union ms
  BY DEF Carry

LEMMA ArrivesSubset ==
  ASSUME NEW t, NEW c, NEW ms, Arrives(t, c, ms)
  PROVE  <<t, c>> \in wire /\ wire' \subseteq wire \union ms
  BY CarrySubset DEF Arrives

\* The channel has one place.
LEMMA TakenFromQueue ==
  ASSUME Typed, queue # <<>>
  PROVE  Head(queue) \in Callers /\ Tail(queue) = <<>>
  <1>1. PICK c \in Callers : queue = <<c>>
    BY DEF Typed
  <1>2. Head(<<c>>) = c /\ Tail(<<c>>) = <<>>
    OBVIOUS
  <1>3. QED
    BY <1>1, <1>2

LEMMA InitInv ==
  ASSUME Init
  PROVE  Inv
  <1>1. Typed /\ OnWire
    BY DEF Init, Typed, OnWire
  <1>2. Engaged /\ OneVoice /\ Farewells /\ Left
    BY DEF Init, Engaged, OneVoice, Farewells, Left, Free, Busy
  <1>3. QED
    BY <1>1, <1>2 DEF Inv

LEMMA TypedInv ==
  ASSUME Inv, [Next]_vars
  PROVE  Typed'
  <1> USE IncomingAssumption DEF Inv, Typed, Engaged, Busy, Free, Alive,
          runVars, dlgVars, histVars
  <1>1. CASE QueueInvite
    <2>1. queue' = <<>> \/ \E c \in Callers : queue' = <<c>>
      <3>1. CASE Room
        <4>1. queue' = Append(queue, loop) /\ queue = <<>> /\ loop \in Callers
          BY <1>1, <3>1 DEF QueueInvite, Room
        <4>2. queue' = <<loop>>
          BY <4>1
        <4>3. QED
          BY <4>1, <4>2
      <3>2. CASE ~Room
        BY <1>1, <3>2 DEF QueueInvite
      <3>3. QED
        BY <3>1, <3>2
    <2>2. QED
      BY <1>1, <2>1 DEF QueueInvite, Replied
  <1>2. ASSUME NEW c \in Callers, LookUpInvite(c) PROVE Typed'
    BY <1>2 DEF LookUpInvite, Arrives, Replied
  <1>3. ASSUME NEW c \in Callers, TakeAck(c) PROVE Typed'
    BY <1>3 DEF TakeAck, Arrives
  <1>4. ASSUME NEW c \in Callers, TakeBye(c) PROVE Typed'
    BY <1>4 DEF TakeBye, Arrives, Terminate
  <1>5. CASE TurnDown
    <2>1. queue' = <<>>
      BY <1>5, TakenFromQueue DEF TurnDown
    <2>2. QED
      BY <1>5, <2>1 DEF TurnDown, Reject, Replied
  <1>6. CASE AcceptBegins
    <2>1. queue' = <<>> /\ Head(queue) \in Callers
      BY <1>6, TakenFromQueue DEF AcceptBegins
    <2>2. held' \in Callers \union {None} /\ dialog' \in Callers \union {None}
      BY <1>6, <2>1 DEF AcceptBegins
    <2>3. QED
      BY <1>6, <2>1, <2>2 DEF AcceptBegins
  <1>7. CASE AcceptSends
    BY <1>7 DEF AcceptSends, Replied, AfterAccept
  <1>8. CASE AcceptFails
    BY <1>8 DEF AcceptFails
  <1>9. CASE StopWaiting
    BY <1>9 DEF StopWaiting
  <1>10. CASE Resend
    BY <1>10 DEF Resend
  <1>11. CASE ResenderStops
    BY <1>11 DEF ResenderStops
  <1>12. CASE NoAck
    BY <1>12 DEF NoAck, DeadlineComes, Terminate
  <1>13. CASE Hangup
    BY <1>13 DEF Hangup, NeedsBye
  <1>14. CASE ByeRepeats
    BY <1>14 DEF ByeRepeats
  <1>15. CASE ByeEnds
    BY <1>15 DEF ByeEnds, Terminate
  <1>16. ASSUME NEW c \in Callers, Invite(c) PROVE Typed'
    BY <1>16 DEF Invite
  <1>17. ASSUME NEW c \in Callers, Cancel(c) PROVE Typed'
    BY <1>17 DEF Cancel
  <1>18. ASSUME NEW c \in Callers, GiveUp(c) PROVE Typed'
    BY <1>18 DEF GiveUp
  <1>19. ASSUME NEW c \in Callers, Hears(c) PROVE Typed'
    BY <1>19 DEF Hears, Arrives, Becomes
  <1>20. ASSUME NEW c \in Callers, CallerHangsUp(c) PROVE Typed'
    BY <1>20 DEF CallerHangsUp, Becomes
  <1>21. CASE Lose
    BY <1>21 DEF Lose
  <1>22. CASE UNCHANGED vars
    BY <1>22 DEF vars
  <1>23. QED
    BY <1>1, <1>2, <1>3, <1>4, <1>5, <1>6, <1>7, <1>8, <1>9, <1>10, <1>11,
       <1>12, <1>13, <1>14, <1>15, <1>16, <1>17, <1>18, <1>19, <1>20, <1>21,
       <1>22 DEF Next, Receive, Wait, Repeat, End, Peers

\* Of the messages ms, sent in this step: who sends a BYE has gone.
ByeIsLast(ms) ==
    \A c \in Callers :
        <<"BYE", c>> \in ms \/ caller[c] = "gone" => caller'[c] = "gone"

\* What is sent must be a message; and a BYE, its sender's last.
LEMMA WireKept ==
  ASSUME OnWire, NEW ms \in SUBSET Messages, wire' \subseteq wire \union ms,
         ByeIsLast(ms)
  PROVE  OnWire'
  BY DEF OnWire, ByeIsLast

LEMMA WireInv ==
  ASSUME Inv, [Next]_vars
  PROVE  OnWire'
  <1> USE IncomingAssumption DEF Inv, Typed, OnWire, Engaged, Busy, Free,
          Alive, runVars, dlgVars, histVars
  <1>1. CASE QueueInvite
    <2> DEFINE ms == {<<"100", loop>>, <<"refused", loop>>}
    <2>1. wire' \subseteq wire \union ms
      BY <1>1, CarrySubset, ArrivesSubset DEF QueueInvite
    <2>2. ms \subseteq Messages
      BY <1>1 DEF QueueInvite, Messages, ToUA, ToPeer
    <2>3. ByeIsLast(ms)
      BY <1>1 DEF ByeIsLast, QueueInvite
    <2>4. QED
      BY <2>1, <2>2, <2>3, WireKept DEF Inv
  <1>2. ASSUME NEW c \in Callers, LookUpInvite(c) PROVE OnWire'
    <2> DEFINE ms == {<<"200", c>>}
    <2>1. wire' \subseteq wire \union ms
      <3>1. CASE dialog = c
        BY <1>2, <3>1, ArrivesSubset DEF LookUpInvite
      <3>2. CASE dialog # c
        <4>1. Arrives("INVITE", c, {})
          BY <1>2, <3>2 DEF LookUpInvite
        <4>2. wire' \subseteq wire \union {}
          BY <4>1, ArrivesSubset
        <4>3. QED
          BY <4>2
      <3>3. QED
        BY <3>1, <3>2
    <2>2. ms \subseteq Messages
      BY <1>2 DEF LookUpInvite, Messages, ToUA, ToPeer
    <2>3. ByeIsLast(ms)
      BY <1>2 DEF ByeIsLast, LookUpInvite
    <2>4. QED
      BY <2>1, <2>2, <2>3, WireKept DEF Inv
  <1>3. ASSUME NEW c \in Callers, TakeAck(c) PROVE OnWire'
    <2> DEFINE ms == {}
    <2>1. wire' \subseteq wire \union ms
      BY <1>3, CarrySubset, ArrivesSubset DEF TakeAck
    <2>2. ms \subseteq Messages
      BY <1>3 DEF TakeAck, Messages, ToUA, ToPeer
    <2>3. ByeIsLast(ms)
      BY <1>3 DEF ByeIsLast, TakeAck
    <2>4. QED
      BY <2>1, <2>2, <2>3, WireKept DEF Inv
  <1>4. ASSUME NEW c \in Callers, TakeBye(c) PROVE OnWire'
    <2> DEFINE ms == {}
    <2>1. wire' \subseteq wire \union ms
      BY <1>4, CarrySubset, ArrivesSubset DEF TakeBye
    <2>2. ms \subseteq Messages
      BY <1>4 DEF TakeBye, Messages, ToUA, ToPeer
    <2>3. ByeIsLast(ms)
      BY <1>4 DEF ByeIsLast, TakeBye
    <2>4. QED
      BY <2>1, <2>2, <2>3, WireKept DEF Inv
  <1>5. CASE TurnDown
    <2> DEFINE ms == {<<"refused", Head(queue)>>}
    <2>1. wire' \subseteq wire \union ms
      BY <1>5, CarrySubset, ArrivesSubset DEF TurnDown, Reject
    <2>2. ms \subseteq Messages
      BY <1>5 DEF TurnDown, Reject, Messages, ToUA, ToPeer
    <2>3. ByeIsLast(ms)
      BY <1>5 DEF ByeIsLast, TurnDown, Reject
    <2>4. QED
      BY <2>1, <2>2, <2>3, WireKept DEF Inv
  <1>6. CASE AcceptBegins
    BY <1>6 DEF AcceptBegins
  <1>7. CASE AcceptSends
    <2> DEFINE ms == {<<"200", held>>}
    <2>1. wire' \subseteq wire \union ms
      BY <1>7, CarrySubset, ArrivesSubset DEF AcceptSends
    <2>2. ms \subseteq Messages
      BY <1>7 DEF AcceptSends, Messages, ToUA, ToPeer
    <2>3. ByeIsLast(ms)
      BY <1>7 DEF ByeIsLast, AcceptSends
    <2>4. QED
      BY <2>1, <2>2, <2>3, WireKept DEF Inv
  <1>8. CASE AcceptFails
    BY <1>8 DEF AcceptFails
  <1>9. CASE StopWaiting
    BY <1>9 DEF StopWaiting
  <1>10. CASE Resend
    <2> DEFINE ms == {<<"200", held>>}
    <2>1. wire' \subseteq wire \union ms
      BY <1>10, CarrySubset, ArrivesSubset DEF Resend
    <2>2. ms \subseteq Messages
      BY <1>10 DEF Resend, Messages, ToUA, ToPeer
    <2>3. ByeIsLast(ms)
      BY <1>10 DEF ByeIsLast, Resend
    <2>4. QED
      BY <2>1, <2>2, <2>3, WireKept DEF Inv
  <1>11. CASE ResenderStops
    BY <1>11 DEF ResenderStops
  <1>12. CASE NoAck
    BY <1>12 DEF NoAck, DeadlineComes, Terminate
  <1>13. CASE Hangup
    <2> DEFINE ms == {<<"ourBYE", held>>}
    <2>1. wire' \subseteq wire \union ms
      BY <1>13, CarrySubset, ArrivesSubset DEF Hangup
    <2>2. ms \subseteq Messages
      BY <1>13 DEF Hangup, Messages, ToUA, ToPeer
    <2>3. ByeIsLast(ms)
      BY <1>13 DEF ByeIsLast, Hangup
    <2>4. QED
      BY <2>1, <2>2, <2>3, WireKept DEF Inv
  <1>14. CASE ByeRepeats
    <2> DEFINE ms == {<<"ourBYE", held>>}
    <2>1. wire' \subseteq wire \union ms
      BY <1>14, CarrySubset, ArrivesSubset DEF ByeRepeats
    <2>2. ms \subseteq Messages
      BY <1>14 DEF ByeRepeats, Messages, ToUA, ToPeer
    <2>3. ByeIsLast(ms)
      BY <1>14 DEF ByeIsLast, ByeRepeats
    <2>4. QED
      BY <2>1, <2>2, <2>3, WireKept DEF Inv
  <1>15. CASE ByeEnds
    BY <1>15 DEF ByeEnds, Terminate
  <1>16. ASSUME NEW c \in Callers, Invite(c) PROVE OnWire'
    <2> DEFINE ms == {<<"INVITE", c>>}
    <2>1. wire' \subseteq wire \union ms
      BY <1>16, CarrySubset, ArrivesSubset DEF Invite
    <2>2. ms \subseteq Messages
      BY <1>16 DEF Invite, Messages, ToUA, ToPeer
    <2>3. ByeIsLast(ms)
      BY <1>16 DEF ByeIsLast, Invite
    <2>4. QED
      BY <2>1, <2>2, <2>3, WireKept DEF Inv
  <1>17. ASSUME NEW c \in Callers, Cancel(c) PROVE OnWire'
    BY <1>17 DEF Cancel
  <1>18. ASSUME NEW c \in Callers, GiveUp(c) PROVE OnWire'
    BY <1>18 DEF GiveUp
  <1>19. ASSUME NEW c \in Callers, Hears(c) PROVE OnWire'
    <2>1. CASE Arrives("200", c, {<<"ACK", c>>, <<"BYE", c>>}) /\ Becomes(c, "gone")
      <3> DEFINE ms == {<<"ACK", c>>, <<"BYE", c>>}
      <3>1. wire' \subseteq wire \union ms
        BY <2>1, ArrivesSubset
      <3>2. ms \subseteq Messages
        BY DEF Messages, ToUA
      <3>3. ByeIsLast(ms)
        BY <2>1 DEF ByeIsLast, Becomes
      <3>4. QED
        BY <3>1, <3>2, <3>3, WireKept DEF Inv
    <2>2. ASSUME NEW t, Arrives(t, c, {}) \/ Arrives(t, c, {<<"ACK", c>>}),
                 (caller[c] # "gone" /\ (\E s : Becomes(c, s))) \/ UNCHANGED caller
          PROVE  OnWire'
      <3> DEFINE ms == {<<"ACK", c>>}
      <3>1. wire' \subseteq wire \union ms
        <4>1. CASE Arrives(t, c, {})
          <5>1. wire' \subseteq wire \union {}
            BY <4>1, ArrivesSubset
          <5>2. QED
            BY <5>1
        <4>2. CASE Arrives(t, c, ms)
          BY <4>2, ArrivesSubset
        <4>3. QED
          BY <2>2, <4>1, <4>2
      <3>2. ms \subseteq Messages
        BY DEF Messages, ToUA
      <3>3. ByeIsLast(ms)
        BY <2>2 DEF ByeIsLast, Becomes
      <3>4. QED
        BY <3>1, <3>2, <3>3, WireKept DEF Inv
    <2>3. QED
      BY <1>19, <2>1, <2>2 DEF Hears
  <1>20. ASSUME NEW c \in Callers, CallerHangsUp(c) PROVE OnWire'
    <2> DEFINE ms == {<<"BYE", c>>}
    <2>1. wire' \subseteq wire \union ms
      BY <1>20, CarrySubset, ArrivesSubset DEF CallerHangsUp, Becomes
    <2>2. ms \subseteq Messages
      BY <1>20 DEF CallerHangsUp, Becomes, Messages, ToUA, ToPeer
    <2>3. ByeIsLast(ms)
      BY <1>20 DEF ByeIsLast, CallerHangsUp, Becomes
    <2>4. QED
      BY <2>1, <2>2, <2>3, WireKept DEF Inv
  <1>21. CASE Lose
    <2> DEFINE ms == {}
    <2>1. wire' \subseteq wire \union ms
      BY <1>21, CarrySubset, ArrivesSubset DEF Lose
    <2>2. ms \subseteq Messages
      BY <1>21 DEF Lose, Messages, ToUA, ToPeer
    <2>3. ByeIsLast(ms)
      BY <1>21 DEF ByeIsLast, Lose
    <2>4. QED
      BY <2>1, <2>2, <2>3, WireKept DEF Inv
  <1>22. CASE UNCHANGED vars
    BY <1>22 DEF vars
  <1>23. QED
    BY <1>1, <1>2, <1>3, <1>4, <1>5, <1>6, <1>7, <1>8, <1>9, <1>10, <1>11,
       <1>12, <1>13, <1>14, <1>15, <1>16, <1>17, <1>18, <1>19, <1>20, <1>21,
       <1>22 DEF Next, Receive, Wait, Repeat, End, Peers

LEMMA EngagedInv ==
  ASSUME Inv, [Next]_vars
  PROVE  Engaged'
  <1> USE IncomingAssumption DEF Inv, Typed, Engaged, Busy, Free, Alive,
          runVars, dlgVars, histVars
  <1>1. CASE QueueInvite
    BY <1>1 DEF QueueInvite, Replied
  <1>2. ASSUME NEW c \in Callers, LookUpInvite(c) PROVE Engaged'
    BY <1>2 DEF LookUpInvite, Arrives, Replied
  <1>3. ASSUME NEW c \in Callers, TakeAck(c) PROVE Engaged'
    BY <1>3 DEF TakeAck, Arrives
  <1>4. ASSUME NEW c \in Callers, TakeBye(c) PROVE Engaged'
    BY <1>4 DEF TakeBye, Arrives, Terminate
  <1>5. CASE TurnDown
    BY <1>5 DEF TurnDown, Reject, Replied
  <1>6. CASE AcceptBegins
    BY <1>6 DEF AcceptBegins
  <1>7. CASE AcceptSends
    BY <1>7 DEF AcceptSends, Replied, AfterAccept
  <1>8. CASE AcceptFails
    BY <1>8 DEF AcceptFails
  <1>9. CASE StopWaiting
    BY <1>9 DEF StopWaiting
  <1>10. CASE Resend
    BY <1>10 DEF Resend
  <1>11. CASE ResenderStops
    BY <1>11 DEF ResenderStops
  <1>12. CASE NoAck
    BY <1>12 DEF NoAck, DeadlineComes, Terminate
  <1>13. CASE Hangup
    BY <1>13 DEF Hangup, NeedsBye
  <1>14. CASE ByeRepeats
    BY <1>14 DEF ByeRepeats
  <1>15. CASE ByeEnds
    BY <1>15 DEF ByeEnds, Terminate
  <1>16. ASSUME NEW c \in Callers, Invite(c) PROVE Engaged'
    BY <1>16 DEF Invite
  <1>17. ASSUME NEW c \in Callers, Cancel(c) PROVE Engaged'
    BY <1>17 DEF Cancel
  <1>18. ASSUME NEW c \in Callers, GiveUp(c) PROVE Engaged'
    BY <1>18 DEF GiveUp
  <1>19. ASSUME NEW c \in Callers, Hears(c) PROVE Engaged'
    BY <1>19 DEF Hears, Arrives, Becomes
  <1>20. ASSUME NEW c \in Callers, CallerHangsUp(c) PROVE Engaged'
    BY <1>20 DEF CallerHangsUp, Becomes
  <1>21. CASE Lose
    BY <1>21 DEF Lose
  <1>22. CASE UNCHANGED vars
    BY <1>22 DEF vars
  <1>23. QED
    BY <1>1, <1>2, <1>3, <1>4, <1>5, <1>6, <1>7, <1>8, <1>9, <1>10, <1>11,
       <1>12, <1>13, <1>14, <1>15, <1>16, <1>17, <1>18, <1>19, <1>20, <1>21,
       <1>22 DEF Next, Receive, Wait, Repeat, End, Peers

LEMMA OneVoiceInv ==
  ASSUME Inv, [Next]_vars
  PROVE  OneVoice'
  <1> USE IncomingAssumption DEF Inv, Typed, Engaged, OneVoice, Busy, Free,
          Alive, runVars, dlgVars, histVars
  <1>1. CASE QueueInvite
    BY <1>1 DEF QueueInvite, Replied
  <1>2. ASSUME NEW c \in Callers, LookUpInvite(c) PROVE OneVoice'
    BY <1>2 DEF LookUpInvite, Arrives, Replied
  <1>3. ASSUME NEW c \in Callers, TakeAck(c) PROVE OneVoice'
    BY <1>3 DEF TakeAck, Arrives
  <1>4. ASSUME NEW c \in Callers, TakeBye(c) PROVE OneVoice'
    BY <1>4 DEF TakeBye, Arrives, Terminate
  <1>5. CASE TurnDown
    BY <1>5 DEF TurnDown, Reject, Replied
  <1>6. CASE AcceptBegins
    BY <1>6 DEF AcceptBegins
  <1>7. CASE AcceptSends
    BY <1>7 DEF AcceptSends, Replied, AfterAccept
  <1>8. CASE AcceptFails
    BY <1>8 DEF AcceptFails
  <1>9. CASE StopWaiting
    BY <1>9 DEF StopWaiting
  <1>10. CASE Resend
    BY <1>10 DEF Resend
  <1>11. CASE ResenderStops
    BY <1>11 DEF ResenderStops
  <1>12. CASE NoAck
    BY <1>12 DEF NoAck, DeadlineComes, Terminate
  <1>13. CASE Hangup
    BY <1>13 DEF Hangup, NeedsBye
  <1>14. CASE ByeRepeats
    BY <1>14 DEF ByeRepeats
  <1>15. CASE ByeEnds
    BY <1>15 DEF ByeEnds, Terminate
  <1>16. ASSUME NEW c \in Callers, Invite(c) PROVE OneVoice'
    BY <1>16 DEF Invite
  <1>17. ASSUME NEW c \in Callers, Cancel(c) PROVE OneVoice'
    BY <1>17 DEF Cancel
  <1>18. ASSUME NEW c \in Callers, GiveUp(c) PROVE OneVoice'
    BY <1>18 DEF GiveUp
  <1>19. ASSUME NEW c \in Callers, Hears(c) PROVE OneVoice'
    BY <1>19 DEF Hears, Arrives, Becomes
  <1>20. ASSUME NEW c \in Callers, CallerHangsUp(c) PROVE OneVoice'
    BY <1>20 DEF CallerHangsUp, Becomes
  <1>21. CASE Lose
    BY <1>21 DEF Lose
  <1>22. CASE UNCHANGED vars
    BY <1>22 DEF vars
  <1>23. QED
    BY <1>1, <1>2, <1>3, <1>4, <1>5, <1>6, <1>7, <1>8, <1>9, <1>10, <1>11,
       <1>12, <1>13, <1>14, <1>15, <1>16, <1>17, <1>18, <1>19, <1>20, <1>21,
       <1>22 DEF Next, Receive, Wait, Repeat, End, Peers

LEMMA FarewellsInv ==
  ASSUME Inv, [Next]_vars
  PROVE  Farewells'
  <1> USE IncomingAssumption DEF Inv, Typed, Engaged, Farewells, Busy, Free,
          Alive, runVars, dlgVars, histVars
  <1>1. CASE QueueInvite
    BY <1>1 DEF QueueInvite, Replied
  <1>2. ASSUME NEW c \in Callers, LookUpInvite(c) PROVE Farewells'
    BY <1>2 DEF LookUpInvite, Arrives, Replied
  <1>3. ASSUME NEW c \in Callers, TakeAck(c) PROVE Farewells'
    BY <1>3 DEF TakeAck, Arrives
  <1>4. ASSUME NEW c \in Callers, TakeBye(c) PROVE Farewells'
    <2>1. <<"BYE", c>> \in wire
      BY <1>4, ArrivesSubset DEF TakeBye
    <2>2. caller[c] = "gone"
      BY <2>1 DEF OnWire
    <2>3. QED
      BY <1>4, <2>2 DEF TakeBye, Terminate
  <1>5. CASE TurnDown
    BY <1>5 DEF TurnDown, Reject, Replied
  <1>6. CASE AcceptBegins
    BY <1>6 DEF AcceptBegins
  <1>7. CASE AcceptSends
    BY <1>7 DEF AcceptSends, Replied, AfterAccept
  <1>8. CASE AcceptFails
    BY <1>8 DEF AcceptFails
  <1>9. CASE StopWaiting
    BY <1>9 DEF StopWaiting
  <1>10. CASE Resend
    BY <1>10 DEF Resend
  <1>11. CASE ResenderStops
    BY <1>11 DEF ResenderStops
  <1>12. CASE NoAck
    BY <1>12 DEF NoAck, DeadlineComes, Terminate
  <1>13. CASE Hangup
    BY <1>13 DEF Hangup, NeedsBye
  <1>14. CASE ByeRepeats
    BY <1>14 DEF ByeRepeats
  <1>15. CASE ByeEnds
    BY <1>15 DEF ByeEnds, Terminate
  <1>16. ASSUME NEW c \in Callers, Invite(c) PROVE Farewells'
    BY <1>16 DEF Invite
  <1>17. ASSUME NEW c \in Callers, Cancel(c) PROVE Farewells'
    BY <1>17 DEF Cancel
  <1>18. ASSUME NEW c \in Callers, GiveUp(c) PROVE Farewells'
    BY <1>18 DEF GiveUp
  <1>19. ASSUME NEW c \in Callers, Hears(c) PROVE Farewells'
    BY <1>19 DEF Hears, Arrives, Becomes
  <1>20. ASSUME NEW c \in Callers, CallerHangsUp(c) PROVE Farewells'
    BY <1>20 DEF CallerHangsUp, Becomes
  <1>21. CASE Lose
    BY <1>21 DEF Lose
  <1>22. CASE UNCHANGED vars
    BY <1>22 DEF vars
  <1>23. QED
    BY <1>1, <1>2, <1>3, <1>4, <1>5, <1>6, <1>7, <1>8, <1>9, <1>10, <1>11,
       <1>12, <1>13, <1>14, <1>15, <1>16, <1>17, <1>18, <1>19, <1>20, <1>21,
       <1>22 DEF Next, Receive, Wait, Repeat, End, Peers

LEMMA LeftInv ==
  ASSUME Inv, [Next]_vars
  PROVE  Left'
  <1> USE IncomingAssumption DEF Inv, Typed, Engaged, Farewells, Left, Busy,
          Free, Alive, runVars, dlgVars, histVars
  <1>1. CASE QueueInvite
    BY <1>1 DEF QueueInvite, Replied
  <1>2. ASSUME NEW c \in Callers, LookUpInvite(c) PROVE Left'
    BY <1>2 DEF LookUpInvite, Arrives, Replied
  <1>3. ASSUME NEW c \in Callers, TakeAck(c) PROVE Left'
    BY <1>3 DEF TakeAck, Arrives
  <1>4. ASSUME NEW c \in Callers, TakeBye(c) PROVE Left'
    BY <1>4 DEF TakeBye, Arrives, Terminate
  <1>5. CASE TurnDown
    BY <1>5 DEF TurnDown, Reject, Replied
  <1>6. CASE AcceptBegins
    BY <1>6 DEF AcceptBegins
  <1>7. CASE AcceptSends
    BY <1>7 DEF AcceptSends, Replied, AfterAccept
  <1>8. CASE AcceptFails
    BY <1>8 DEF AcceptFails
  <1>9. CASE StopWaiting
    BY <1>9 DEF StopWaiting
  <1>10. CASE Resend
    BY <1>10 DEF Resend
  <1>11. CASE ResenderStops
    BY <1>11 DEF ResenderStops
  <1>12. CASE NoAck
    BY <1>12 DEF NoAck, DeadlineComes, Terminate
  <1>13. CASE Hangup
    BY <1>13 DEF Hangup, NeedsBye
  <1>14. CASE ByeRepeats
    BY <1>14 DEF ByeRepeats
  <1>15. CASE ByeEnds
    BY <1>15 DEF ByeEnds, Terminate
  <1>16. ASSUME NEW c \in Callers, Invite(c) PROVE Left'
    BY <1>16 DEF Invite
  <1>17. ASSUME NEW c \in Callers, Cancel(c) PROVE Left'
    BY <1>17 DEF Cancel
  <1>18. ASSUME NEW c \in Callers, GiveUp(c) PROVE Left'
    BY <1>18 DEF GiveUp
  <1>19. ASSUME NEW c \in Callers, Hears(c) PROVE Left'
    BY <1>19 DEF Hears, Arrives, Becomes
  <1>20. ASSUME NEW c \in Callers, CallerHangsUp(c) PROVE Left'
    BY <1>20 DEF CallerHangsUp, Becomes
  <1>21. CASE Lose
    BY <1>21 DEF Lose
  <1>22. CASE UNCHANGED vars
    BY <1>22 DEF vars
  <1>23. QED
    BY <1>1, <1>2, <1>3, <1>4, <1>5, <1>6, <1>7, <1>8, <1>9, <1>10, <1>11,
       <1>12, <1>13, <1>14, <1>15, <1>16, <1>17, <1>18, <1>19, <1>20, <1>21,
       <1>22 DEF Next, Receive, Wait, Repeat, End, Peers

LEMMA InvHolds == Spec => []Inv
  <1>1. Inv /\ [Next]_vars => Inv'
    BY TypedInv, WireInv, EngagedInv, OneVoiceInv, FarewellsInv, LeftInv
       DEF Inv
  <1>2. QED
    BY InitInv, <1>1, PTL DEF Spec

\* The receive loop, waitForCall, the goroutine that repeats the 200 and the
\* callers keep to their types: the channel never holds two calls.
THEOREM TypesHold == Spec => []TypeOK
  <1>1. Inv => TypeOK
    BY DEF Inv, Typed, OnWire, Messages, TypeOK
  <1>2. QED
    BY InvHolds, <1>1, PTL

\* Whatever is repeated, reordered or arrives together, one caller at most is
\* told 200.
THEOREM OnlyOneCall == Spec => []OneCall
  <1>1. Inv => OneCall
    <2>1. SUFFICES ASSUME Inv PROVE OneCall
      OBVIOUS
    <2> DEFINE told == {c \in Callers : "200" \in replied[c]}
    <2>2. \A c, d \in told : c = d
      BY <2>1 DEF Inv, OneVoice
    <2> HIDE DEF told
    <2>3. CASE told = {}
      <3>1. Cardinality(told) = 0
        BY <2>3, FS_EmptySet
      <3>2. QED
        BY <3>1 DEF OneCall, told
    <2>4. CASE told # {}
      <3>1. PICK c : c \in told
        BY <2>4
      <3>2. told = {c}
        BY <2>2, <3>1
      <3>3. Cardinality(told) = 1
        BY <3>2, FS_Singleton
      <3>4. QED
        BY <3>3 DEF OneCall, told
    <2>5. QED
      BY <2>3, <2>4
  <1>2. QED
    BY InvHolds, <1>1, PTL

\* The caller that Run went on with is told when Run ends, unless its ACK
\* never came, its Contact led nowhere, or it hung up first.
THEOREM CallerIsTold == Spec => []CallerTold
  <1>1. Inv => CallerTold
    BY IncomingAssumption DEF Inv, Typed, Farewells, Left, CallerTold, Alive
  <1>2. QED
    BY InvHolds, <1>1, PTL
=============================================================================
