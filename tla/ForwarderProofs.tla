-------------------------- MODULE ForwarderProofs --------------------------
(***************************************************************************)
(* Proofs about module Forwarder, for every set of ports and any number of *)
(* packets: the types, OnePeer and Accounted.                              *)
(*                                                                         *)
(* The types need a count of the goroutines still there: each loses one    *)
(* packet at most, the one in its hands when it returns (Losses), and      *)
(* sends one value to Run (Sent), so that the channel's places are enough. *)
(* OnePeer needs the packet in the receiver's hands to have been judged    *)
(* already (Judged): its port is checked when it is taken, and it is       *)
(* written to the tun only afterwards.                                     *)
(***************************************************************************)
EXTENDS Forwarder, TLAPS

\* The goroutines that have not returned.
Alive == (IF reader = "returned" THEN 0 ELSE 1) + (IF receiver = "returned" THEN 0 ELSE 1)

Losses == lost + Alive <= 2

\* Who has returned has sent its result, of which Run has taken one.
Sent ==
    /\ errc \in Seq(Errors)
    /\ Len(errc) + Alive = IF run = "waiting" THEN 2 ELSE 1

PortsOK == learned \in Ports \union {0} /\ from \in Ports \union {0} /\ delivered \subseteq Ports

\* What the receiver is about to write comes from the one peer.
Judged ==
    IF receiver = "writing"
    THEN from \in Ports /\ from = (IF strict THEN SDPPort ELSE learned)
    ELSE from = 0

\* The port is learned only when it is not fixed by the answer.
Learned == strict => learned = 0

Inv == TypeOK /\ Losses /\ Sent /\ Judged /\ Learned /\ OnePeer /\ Accounted

\* The types but for what is counted and the packets' ports.
Control ==
    /\ strict \in BOOLEAN
    /\ ctx \in BOOLEAN /\ inner \in BOOLEAN /\ conn \in BOOLEAN /\ tun \in BOOLEAN
    /\ reader \in {"ready", "reading", "sending", "returned"}
    /\ receiver \in {"receiving", "writing", "returned"}
    /\ run \in {"waiting", "joining", "done"}
    /\ result \in Errors \union {"none"}
    /\ lost \in 0 .. 2
    /\ broken \in BOOLEAN

LEMMA InitInv ==
  ASSUME Init
  PROVE  Inv
  <1> USE DEF Init
  <1>1. stats \in Stats /\ seen \in [tun : Nat, net : Nat]
    BY DEF Stats
  <1>2. TypeOK
    <2>1. errc \in Seq(Errors) /\ Len(errc) <= 2
      OBVIOUS
    <2>2. learned \in Ports \union {0} /\ from \in Ports \union {0} /\ delivered \subseteq Ports
      OBVIOUS
    <2>3. lost \in 0 .. 2
      OBVIOUS
    <2>4. QED
      BY <1>1, <2>1, <2>2, <2>3 DEF TypeOK, Errors
  <1>3. Losses /\ Sent /\ Judged /\ Learned /\ OnePeer /\ PortsOK
    BY DEF Losses, Sent, Alive, Judged, Learned, OnePeer, PortsOK
  <1>4. Accounted
    BY DEF Accounted
  <1>5. QED
    BY <1>2, <1>3, <1>4 DEF Inv

LEMMA CountsInv ==
  ASSUME stats \in Stats, seen \in [tun : Nat, net : Nat], [Next]_vars
  PROVE  (stats \in Stats /\ seen \in [tun : Nat, net : Nat])'
  <1> USE DEF Stats, endVars, goVars, dataVars
  <1>1. CASE ReadBegins
    BY <1>1 DEF ReadBegins, ReaderReturns, Deliver
  <1>2. CASE ReadPacket
    BY <1>2 DEF ReadPacket, CountMalformed
  <1>3. CASE ReadFails
    BY <1>3 DEF ReadFails, Fails, ReaderReturns, Deliver, Verdict
  <1>4. CASE Send
    BY <1>4 DEF Send, ReaderReturns, Deliver
  <1>5. CASE SendFails
    BY <1>5 DEF SendFails, Fails, ReaderReturns, Deliver, Verdict
  <1>6. CASE Receive
    BY <1>6 DEF Receive, CountMalformed, Accepts, Learn
  <1>7. CASE ReceiveClosed
    BY <1>7 DEF ReceiveClosed, ReceiverReturns, Deliver
  <1>8. CASE ReceiveFails
    BY <1>8 DEF ReceiveFails, Fails, ReceiverReturns, Deliver, Verdict
  <1>9. CASE TunWrite
    BY <1>9 DEF TunWrite
  <1>10. CASE TunWriteFails
    BY <1>10 DEF TunWriteFails, ReceiverReturns, Deliver
  <1>11. CASE CloseConn
    BY <1>11 DEF CloseConn
  <1>12. CASE CloseTun
    BY <1>12 DEF CloseTun
  <1>13. CASE RunTakesFirst
    BY <1>13 DEF RunTakesFirst, StopOther
  <1>14. CASE RunReturns
    BY <1>14 DEF RunReturns
  <1>15. CASE Cancel
    BY <1>15 DEF Cancel
  <1>16. CASE Finished
    BY <1>16 DEF Finished, vars
  <1>17. CASE UNCHANGED vars
    BY <1>17 DEF vars
  <1>18. QED
    BY <1>1, <1>2, <1>3, <1>4, <1>5, <1>6, <1>7, <1>8, <1>9, <1>10, <1>11,
       <1>12, <1>13, <1>14, <1>15, <1>16, <1>17 DEF Next, Process, Environment

LEMMA ControlInv ==
  ASSUME Control, Losses, Sent, [Next]_vars
  PROVE  (Control /\ Losses /\ Sent)'
  <1> USE DEF Control, Errors, Losses, Sent, Alive, endVars, goVars, dataVars
  <1>1. CASE ReadBegins
    BY <1>1 DEF ReadBegins, ReaderReturns, Deliver
  <1>2. CASE ReadPacket
    BY <1>2 DEF ReadPacket, CountMalformed
  <1>3. CASE ReadFails
    BY <1>3 DEF ReadFails, Fails, ReaderReturns, Deliver, Verdict
  <1>4. CASE Send
    BY <1>4 DEF Send, ReaderReturns, Deliver
  <1>5. CASE SendFails
    BY <1>5 DEF SendFails, Fails, ReaderReturns, Deliver, Verdict
  <1>6. CASE Receive
    BY <1>6 DEF Receive, CountMalformed, Accepts, Learn
  <1>7. CASE ReceiveClosed
    BY <1>7 DEF ReceiveClosed, ReceiverReturns, Deliver
  <1>8. CASE ReceiveFails
    BY <1>8 DEF ReceiveFails, Fails, ReceiverReturns, Deliver, Verdict
  <1>9. CASE TunWrite
    BY <1>9 DEF TunWrite
  <1>10. CASE TunWriteFails
    BY <1>10 DEF TunWriteFails, ReceiverReturns, Deliver
  <1>11. CASE CloseConn
    <2>1. conn' \in BOOLEAN /\ UNCHANGED <<strict, ctx, inner, tun, reader, receiver, errc, run, result, lost, broken>>
      BY <1>11 DEF CloseConn
    <2>2. QED
      BY <2>1
  <1>12. CASE CloseTun
    BY <1>12 DEF CloseTun
  <1>13. CASE RunTakesFirst
    BY <1>13 DEF RunTakesFirst, StopOther
  <1>14. CASE RunReturns
    BY <1>14 DEF RunReturns
  <1>15. CASE Cancel
    BY <1>15 DEF Cancel
  <1>16. CASE Finished
    BY <1>16 DEF Finished, vars
  <1>17. CASE UNCHANGED vars
    BY <1>17 DEF vars
  <1>18. QED
    BY <1>1, <1>2, <1>3, <1>4, <1>5, <1>6, <1>7, <1>8, <1>9, <1>10, <1>11,
       <1>12, <1>13, <1>14, <1>15, <1>16, <1>17 DEF Next, Process, Environment

LEMMA JudgedInv ==
  ASSUME Inv, [Next]_vars
  PROVE  (Judged /\ Learned /\ OnePeer /\ PortsOK)'
  <1> USE ForwarderAssumption DEF Inv, TypeOK, PortsOK, Judged, Learned,
          OnePeer, endVars, goVars, dataVars
  <1>1. CASE ReadBegins
    BY <1>1 DEF ReadBegins, ReaderReturns, Deliver
  <1>2. CASE ReadPacket
    BY <1>2 DEF ReadPacket, CountMalformed
  <1>3. CASE ReadFails
    BY <1>3 DEF ReadFails, Fails, ReaderReturns, Deliver, Verdict
  <1>4. CASE Send
    BY <1>4 DEF Send, ReaderReturns, Deliver
  <1>5. CASE SendFails
    BY <1>5 DEF SendFails, Fails, ReaderReturns, Deliver, Verdict
  <1>6. CASE Receive
    BY <1>6 DEF Receive, CountMalformed, Accepts, Learn
  <1>7. CASE ReceiveClosed
    BY <1>7 DEF ReceiveClosed, ReceiverReturns, Deliver
  <1>8. CASE ReceiveFails
    BY <1>8 DEF ReceiveFails, Fails, ReceiverReturns, Deliver, Verdict
  <1>9. CASE TunWrite
    BY <1>9 DEF TunWrite
  <1>10. CASE TunWriteFails
    BY <1>10 DEF TunWriteFails, ReceiverReturns, Deliver
  <1>11. CASE CloseConn
    BY <1>11 DEF CloseConn
  <1>12. CASE CloseTun
    BY <1>12 DEF CloseTun
  <1>13. CASE RunTakesFirst
    BY <1>13 DEF RunTakesFirst, StopOther
  <1>14. CASE RunReturns
    BY <1>14 DEF RunReturns
  <1>15. CASE Cancel
    BY <1>15 DEF Cancel
  <1>16. CASE Finished
    BY <1>16 DEF Finished, vars
  <1>17. CASE UNCHANGED vars
    BY <1>17 DEF vars
  <1>18. QED
    BY <1>1, <1>2, <1>3, <1>4, <1>5, <1>6, <1>7, <1>8, <1>9, <1>10, <1>11,
       <1>12, <1>13, <1>14, <1>15, <1>16, <1>17 DEF Next, Process, Environment

LEMMA AccountedInv ==
  ASSUME stats \in Stats, seen \in [tun : Nat, net : Nat], lost \in Nat, Accounted, [Next]_vars
  PROVE  Accounted'
  <1> USE DEF Stats, Accounted, endVars, goVars, dataVars
  <1>1. CASE ReadBegins
    BY <1>1 DEF ReadBegins, ReaderReturns, Deliver
  <1>2. CASE ReadPacket
    BY <1>2 DEF ReadPacket, CountMalformed
  <1>3. CASE ReadFails
    BY <1>3 DEF ReadFails, Fails, ReaderReturns, Deliver, Verdict
  <1>4. CASE Send
    <2>1. UNCHANGED <<receiver, seen>> /\ reader = "sending" /\ reader' # "sending"
      BY <1>4 DEF Send, ReaderReturns
    <2>2. CASE stats' = [stats EXCEPT !.tx = @ + 1] /\ lost' = lost
      BY <2>1, <2>2
    <2>3. CASE UNCHANGED stats /\ lost' = lost + 1
      BY <2>1, <2>3
    <2>4. QED
      BY <1>4, <2>2, <2>3 DEF Send
  <1>5. CASE SendFails
    <2>1. UNCHANGED <<receiver, seen, stats>> /\ reader = "sending" /\ reader' # "sending"
      BY <1>5 DEF SendFails, ReaderReturns
    <2>2. lost' = lost + 1
      BY <1>5 DEF SendFails
    <2>3. QED
      BY <2>1, <2>2
  <1>6. CASE Receive
    BY <1>6 DEF Receive, CountMalformed, Accepts, Learn
  <1>7. CASE ReceiveClosed
    BY <1>7 DEF ReceiveClosed, ReceiverReturns, Deliver
  <1>8. CASE ReceiveFails
    BY <1>8 DEF ReceiveFails, Fails, ReceiverReturns, Deliver, Verdict
  <1>9. CASE TunWrite
    BY <1>9 DEF TunWrite
  <1>10. CASE TunWriteFails
    <2>1. UNCHANGED <<reader, seen>> /\ receiver = "writing" /\ receiver' # "writing"
      BY <1>10 DEF TunWriteFails, ReceiverReturns
    <2>2. CASE stats' = [stats EXCEPT !.tunErrors = @ + 1] /\ lost' = lost
      BY <2>1, <2>2
    <2>3. CASE UNCHANGED stats /\ lost' = lost + 1
      BY <2>1, <2>3
    <2>4. QED
      BY <1>10, <2>2, <2>3 DEF TunWriteFails
  <1>11. CASE CloseConn
    BY <1>11 DEF CloseConn
  <1>12. CASE CloseTun
    BY <1>12 DEF CloseTun
  <1>13. CASE RunTakesFirst
    BY <1>13 DEF RunTakesFirst, StopOther
  <1>14. CASE RunReturns
    BY <1>14 DEF RunReturns
  <1>15. CASE Cancel
    BY <1>15 DEF Cancel
  <1>16. CASE Finished
    BY <1>16 DEF Finished, vars
  <1>17. CASE UNCHANGED vars
    BY <1>17 DEF vars
  <1>18. QED
    BY <1>1, <1>2, <1>3, <1>4, <1>5, <1>6, <1>7, <1>8, <1>9, <1>10, <1>11,
       <1>12, <1>13, <1>14, <1>15, <1>16, <1>17 DEF Next, Process, Environment

LEMMA InvHolds == Spec => []Inv
  <1>1. ASSUME Inv, [Next]_vars PROVE Inv'
    <2>1. Losses' /\ Control' /\ Sent'
      BY <1>1, ControlInv DEF Inv, TypeOK, Control
    <2>2. (stats \in Stats /\ seen \in [tun : Nat, net : Nat])'
      BY <1>1, CountsInv DEF Inv, TypeOK
    <2>3. (Judged /\ Learned /\ OnePeer /\ PortsOK)'
      BY <1>1, JudgedInv
    <2>4. Accounted'
      <3>1. lost \in Nat
        BY <1>1 DEF Inv, TypeOK
      <3>2. QED
        BY <1>1, <3>1, AccountedInv DEF Inv, TypeOK
    <2>5. TypeOK'
      <3>1. Alive' \in 0 .. 2
        BY DEF Alive
      <3>2. errc' \in Seq(Errors) /\ Len(errc)' <= 2
        BY <2>1, <3>1 DEF Sent
      <3>3. QED
        BY <2>1, <2>2, <2>3, <3>2 DEF TypeOK, Control, PortsOK
    <2>6. QED
      BY <2>1, <2>3, <2>4, <2>5 DEF Inv
  <1>2. QED
    BY InitInv, <1>1, PTL DEF Spec

\* The forwarder keeps to its types: no goroutine loses a packet twice, and
\* a returning goroutine always finds room in Run's channel.
THEOREM TypesHold == Spec => []TypeOK
  <1>1. Inv => TypeOK
    BY DEF Inv
  <1>2. QED
    BY InvHolds, <1>1, PTL

\* The host receives packets of one peer only, whatever is sent to the
\* socket and in whatever order, also while everything is being closed.
THEOREM OnlyOnePeer == Spec => []OnePeer
  <1>1. Inv => OnePeer
    BY DEF Inv
  <1>2. QED
    BY InvHolds, <1>1, PTL

\* Every packet taken is forwarded, counted as dropped, in a goroutine's
\* hands, or was there when that one returned.
THEOREM AllAccounted == Spec => []Accounted
  <1>1. Inv => Accounted
    BY DEF Inv
  <1>2. QED
    BY InvHolds, <1>1, PTL
=============================================================================
