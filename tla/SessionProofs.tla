--------------------------- MODULE SessionProofs ---------------------------
(***************************************************************************)
(* Proofs about module Session, for every set of command lines: the types, *)
(* CallAttended, NothingLeftBehind, SuccessMeansCall,                      *)
(* ReleaseBeforeRollback, and that Session implements CallLifecycle.       *)
(*                                                                         *)
(* The argument is the invariant Unwinding: what Run has applied it        *)
(* remembers in undo until it withdraws it, it withdraws only after hangup *)
(* (but for what an Apply that failed half way had made, which goes before *)
(* there is anything else), and it waits for the command after that. None  *)
(* of the properties is inductive without it: they say nothing of the      *)
(* program points before the ones they speak of.                           *)
(***************************************************************************)
EXTENDS Session, TLAPS

\* The program points before there is a dialog, and those after cleanup.
Before == {"checkTun", "createTun", "newUA", "register", "registerOnly",
           "dial", "invite", "inviting", "awaitCall"}
After  == {"unregister", "closeUA", "closeTun", "returned", "exited"}

Unwinding ==
    /\ kernel \subseteq undo
    /\ pc \in Before \union {"apply"} => undo = {} /\ cmd = "idle"
    /\ pc \in Before => dlg = "none" /\ ~byeFailed
    /\ pc \in Held \union {"rollback", "rollbackRoute", "cmdWait"} => dlg \notin {"none", "lost"}
    /\ pc = "unapply" => undo \subseteq {"tunconf"} /\ cmd = "idle"
    /\ pc = "route" => undo \subseteq {"tunconf"} /\ cmd = "idle"
    /\ pc \in {"startFwd", "startCmd"} => cmd = "idle"
    /\ pc \in {"rollback", "rollbackRoute"} => Released
    /\ pc = "rollbackRoute" => undo \subseteq {"hostroute"}
    /\ pc \in {"cmdWait"} \union After => undo = {}
    /\ pc \in After => cmd # "running"

Inv == TypeOK /\ CallAttended /\ Unwinding

LEMMA InitInv == Init => Inv
  BY DEF Init, Inv, TypeOK, RunOK, HostOK, CallOK, CallAttended, Unwinding,
         Held, Before, After, Released, PCs, Finals, Answers

-----------------------------------------------------------------------------
(***************************************************************************)
(* Types, one group of variables and one group of actions at a time.       *)
(***************************************************************************)
LEMMA RunMain == ASSUME RunOK, Main PROVE RunOK'
  BY DEF RunOK, PCs, hostVars, dlgVars, txVars, netVars, Main, CheckTun,
         Fail, CreateTun, NewUA, Register, RegisterOnly, DialMedia,
         SendInvite, InviteCancelled, InviteFinal, RejectCall, AcceptCall,
         AwaitCancelled, ApplyConfig, UndoApply, EnsureHostRoute, StartForwarder,
         StartCommand, Finish, Supervise, SuperviseSignal,
         SuperviseForwarder, SuperviseTerminated, SuperviseCommand,
         SuperviseMaxDuration, Supervised, Hangup, ByeDone, RollbackTun,
         Rollback, RollbackRoute, CommandWait, Unregister, CloseUA, CloseTun,
         ExitProcess

LEMMA RunReceive == ASSUME RunOK, Receive PROVE RunOK'
  BY DEF RunOK, PCs, hostVars, dlgVars, txVars, netVars, Receive,
         ReceiveResponse, ReceiveInvite, ReceiveAck, ReceiveBye

LEMMA RunOthers == ASSUME RunOK, Others PROVE RunOK'
  BY DEF RunOK, PCs, hostVars, dlgVars, txVars, netVars, Others,
         ResendInvite, InviteTimesOut, Fail, Resend200, NoAck, ResendBye,
         SuperviseTraffic, Supervised, Finish, ForwarderCloses,
         ForwarderEnds, ForwarderFails, CommandExits, CommandEnded,
         CommandKilled

LEMMA RunWorld == ASSUME RunOK, World PROVE RunOK'
  BY ZenonT(30) DEF RunOK, PCs, hostVars, dlgVars, txVars, netVars, World, Signal,
         PeerRings, PeerStep, PeerAnswers, PeerRefuses, PeerAcked, PeerCalls,
         PeerGets200, PeerHangsUp, PeerGetsBye, Lose

LEMMA HostMain ==
  ASSUME HostOK, Main
  PROVE  HostOK'
  <1> USE DEF HostOK, hostVars, dlgVars, txVars, netVars
  <1>1. CASE CheckTun
    BY <1>1 DEF CheckTun, Fail
  <1>2. CASE CreateTun
    BY <1>2 DEF CreateTun, Fail
  <1>3. CASE NewUA
    BY <1>3 DEF NewUA, Fail
  <1>4. CASE Register
    BY <1>4 DEF Register, Fail
  <1>5. CASE RegisterOnly
    BY <1>5 DEF RegisterOnly
  <1>6. CASE DialMedia
    BY <1>6 DEF DialMedia, Fail
  <1>7. CASE SendInvite
    BY <1>7 DEF SendInvite, Fail
  <1>8. CASE InviteCancelled
    BY <1>8 DEF InviteCancelled, Fail
  <1>9. CASE InviteFinal
    BY <1>9 DEF InviteFinal, Fail
  <1>10. CASE RejectCall
    BY <1>10 DEF RejectCall
  <1>11. CASE AcceptCall
    BY <1>11 DEF AcceptCall, Fail
  <1>12. CASE AwaitCancelled
    BY <1>12 DEF AwaitCancelled, Fail
  <1>13. CASE ApplyConfig
    BY <1>13 DEF ApplyConfig, Fail
  <1>14. CASE EnsureHostRoute
    BY <1>14 DEF EnsureHostRoute, Fail
  <1>15. CASE StartForwarder
    BY <1>15 DEF StartForwarder
  <1>16. CASE StartCommand
    BY <1>16 DEF StartCommand, Finish
  <1>17. CASE Supervise
    BY <1>17 DEF Supervise, SuperviseSignal, SuperviseForwarder,
              SuperviseTerminated, SuperviseCommand, SuperviseMaxDuration,
              Supervised, Finish
  <1>18. CASE Hangup
    BY <1>18 DEF Hangup
  <1>19. CASE ByeDone
    BY <1>19 DEF ByeDone
  <1>20. CASE RollbackTun
    BY <1>20 DEF RollbackTun, Rollback
  <1>21. CASE RollbackRoute
    BY <1>21 DEF RollbackRoute, Rollback
  <1>22. CASE CommandWait
    BY <1>22 DEF CommandWait
  <1>23. CASE Unregister
    BY <1>23 DEF Unregister
  <1>24. CASE CloseUA
    BY <1>24 DEF CloseUA
  <1>25. CASE CloseTun
    BY <1>25 DEF CloseTun
  <1>26. CASE ExitProcess
    BY <1>26 DEF ExitProcess
  <1>27. CASE UndoApply
    BY <1>27 DEF UndoApply, Rollback
  <1>28. QED
    BY <1>1, <1>2, <1>3, <1>4, <1>5, <1>6, <1>7, <1>8, <1>9, <1>10, <1>11,
       <1>12, <1>13, <1>14, <1>15, <1>16, <1>17, <1>18, <1>19, <1>20, <1>21,
       <1>22, <1>23, <1>24, <1>25, <1>26, <1>27 DEF Main

LEMMA HostReceive == ASSUME HostOK, Receive PROVE HostOK'
  BY ZenonT(30) DEF HostOK, hostVars, dlgVars, txVars, netVars, Receive,
         ReceiveResponse, ReceiveInvite, ReceiveAck, ReceiveBye

LEMMA HostOthers == ASSUME HostOK, Others PROVE HostOK'
  BY ZenonT(30) DEF HostOK, hostVars, dlgVars, txVars, netVars, Others, ResendInvite,
         InviteTimesOut, Fail, Resend200, NoAck, ResendBye, SuperviseTraffic,
         Supervised, Finish, ForwarderCloses, ForwarderEnds, ForwarderFails,
         CommandExits, CommandEnded, CommandKilled

LEMMA HostWorld == ASSUME HostOK, World PROVE HostOK'
  BY ZenonT(30) DEF HostOK, hostVars, dlgVars, txVars, netVars, World, Signal,
         PeerRings, PeerStep, PeerAnswers, PeerRefuses, PeerAcked, PeerCalls,
         PeerGets200, PeerHangsUp, PeerGetsBye, Lose

LEMMA CallHangup ==
  ASSUME CallOK, Hangup
  PROVE  CallOK'
  <1> USE DEF CallOK, Hangup, txVars, Finals, Answers
  <1>1. CASE dlg = "terminated"
    BY <1>1
  <1>2. CASE dlg = "active" /\ pc' = "byeWait"
    BY <1>2
  <1>3. CASE dlg = "active" /\ pc' = "rollback"
    BY <1>3
  <1>4. QED
    BY <1>1, <1>2, <1>3

LEMMA CallMain ==
  ASSUME CallOK, Main
  PROVE  CallOK'
  <1> USE DEF CallOK, Finals, Answers, hostVars, dlgVars, txVars, netVars
  <1>1. CASE CheckTun
    BY <1>1 DEF CheckTun, Fail
  <1>2. CASE CreateTun
    BY <1>2 DEF CreateTun, Fail
  <1>3. CASE NewUA
    BY <1>3 DEF NewUA, Fail
  <1>4. CASE Register
    BY <1>4 DEF Register, Fail
  <1>5. CASE RegisterOnly
    BY <1>5 DEF RegisterOnly
  <1>6. CASE DialMedia
    BY <1>6 DEF DialMedia, Fail
  <1>7. CASE SendInvite
    BY <1>7 DEF SendInvite, Fail
  <1>8. CASE InviteCancelled
    BY <1>8 DEF InviteCancelled, Fail
  <1>9. CASE InviteFinal
    BY <1>9 DEF InviteFinal, Fail
  <1>10. CASE RejectCall
    BY <1>10 DEF RejectCall
  <1>11. CASE AcceptCall
    BY ZenonT(30), <1>11 DEF AcceptCall, Fail
  <1>12. CASE AwaitCancelled
    BY <1>12 DEF AwaitCancelled, Fail
  <1>13. CASE ApplyConfig
    BY <1>13 DEF ApplyConfig, Fail
  <1>14. CASE EnsureHostRoute
    BY <1>14 DEF EnsureHostRoute, Fail
  <1>15. CASE StartForwarder
    BY <1>15 DEF StartForwarder
  <1>16. CASE StartCommand
    BY <1>16 DEF StartCommand, Finish
  <1>17. CASE Supervise
    BY <1>17 DEF Supervise, SuperviseSignal, SuperviseForwarder,
              SuperviseTerminated, SuperviseCommand, SuperviseMaxDuration,
              Supervised, Finish
  <1>18. CASE Hangup
    BY <1>18, CallHangup
  <1>19. CASE ByeDone
    BY <1>19 DEF ByeDone
  <1>20. CASE RollbackTun
    BY <1>20 DEF RollbackTun, Rollback
  <1>21. CASE RollbackRoute
    BY <1>21 DEF RollbackRoute, Rollback
  <1>22. CASE CommandWait
    BY <1>22 DEF CommandWait
  <1>23. CASE Unregister
    BY <1>23 DEF Unregister
  <1>24. CASE CloseUA
    BY <1>24 DEF CloseUA
  <1>25. CASE CloseTun
    BY <1>25 DEF CloseTun
  <1>26. CASE ExitProcess
    BY <1>26 DEF ExitProcess
  <1>27. CASE UndoApply
    BY <1>27 DEF UndoApply, Rollback
  <1>28. QED
    BY <1>1, <1>2, <1>3, <1>4, <1>5, <1>6, <1>7, <1>8, <1>9, <1>10, <1>11,
       <1>12, <1>13, <1>14, <1>15, <1>16, <1>17, <1>18, <1>19, <1>20, <1>21,
       <1>22, <1>23, <1>24, <1>25, <1>26, <1>27 DEF Main

LEMMA CallResponse ==
  ASSUME CallOK, NEW m \in Finals \union {"1xx"}, ReceiveResponse(m)
  PROVE  CallOK'
  BY DEF CallOK, ReceiveResponse, dlgVars

LEMMA CallReceive ==
  ASSUME CallOK, Receive
  PROVE  CallOK'
  <1> USE DEF CallOK, Finals, Answers, hostVars, dlgVars, txVars, netVars
  <1>1. CASE \E m \in Finals \union {"1xx"} : ReceiveResponse(m)
    BY <1>1, CallResponse
  <1>2. CASE ReceiveInvite
    BY <1>2 DEF ReceiveInvite
  <1>3. CASE ReceiveAck
    BY <1>3 DEF ReceiveAck
  <1>4. CASE ReceiveBye
    BY <1>4 DEF ReceiveBye
  <1>5. QED
    BY <1>1, <1>2, <1>3, <1>4 DEF Receive

LEMMA CallOthers == ASSUME CallOK, Others PROVE CallOK'
  BY DEF CallOK, Finals, Answers, hostVars, dlgVars, txVars, netVars, Others,
         ResendInvite, InviteTimesOut, Fail, Resend200, NoAck, ResendBye,
         SuperviseTraffic, Supervised, Finish, ForwarderCloses,
         ForwarderEnds, ForwarderFails, CommandExits, CommandEnded,
         CommandKilled

LEMMA CallWorld == ASSUME CallOK, World PROVE CallOK'
  BY DEF CallOK, Finals, Answers, hostVars, dlgVars, txVars, netVars, World,
         Signal, PeerRings, PeerStep, PeerAnswers, PeerRefuses, PeerAcked,
         PeerCalls, PeerGets200, PeerHangsUp, PeerGetsBye, Lose

LEMMA WireMain == ASSUME wire \subseteq Messages, Main PROVE wire' \subseteq Messages
  BY DEF Messages, Finals, Answers, hostVars, dlgVars, txVars, netVars, Main,
         CheckTun, Fail, CreateTun, NewUA, Register, RegisterOnly, DialMedia,
         SendInvite, InviteCancelled, InviteFinal, RejectCall, AcceptCall,
         AwaitCancelled, ApplyConfig, UndoApply, EnsureHostRoute, StartForwarder,
         StartCommand, Finish, Supervise, SuperviseSignal,
         SuperviseForwarder, SuperviseTerminated, SuperviseCommand,
         SuperviseMaxDuration, Supervised, Hangup, ByeDone, RollbackTun,
         Rollback, RollbackRoute, CommandWait, Unregister, CloseUA, CloseTun,
         ExitProcess

LEMMA WireReceive == ASSUME wire \subseteq Messages, Receive PROVE wire' \subseteq Messages
  BY DEF Messages, Finals, Answers, hostVars, dlgVars, txVars, netVars,
         Receive, ReceiveResponse, ReceiveInvite, ReceiveAck, ReceiveBye

LEMMA WireOthers == ASSUME wire \subseteq Messages, Others PROVE wire' \subseteq Messages
  BY DEF Messages, Finals, Answers, hostVars, dlgVars, txVars, netVars,
         Others, ResendInvite, InviteTimesOut, Fail, Resend200, NoAck,
         ResendBye, SuperviseTraffic, Supervised, Finish, ForwarderCloses,
         ForwarderEnds, ForwarderFails, CommandExits, CommandEnded,
         CommandKilled

LEMMA WireWorld == ASSUME wire \subseteq Messages, World PROVE wire' \subseteq Messages
  BY DEF Messages, Finals, Answers, hostVars, dlgVars, txVars, netVars,
         World, Signal, PeerRings, PeerStep, PeerAnswers, PeerRefuses,
         PeerAcked, PeerCalls, PeerGets200, PeerHangsUp, PeerGetsBye, Lose

LEMMA TypeStep ==
  ASSUME TypeOK, [Next]_vars
  PROVE  TypeOK'
  <1>1. CASE Main
    BY <1>1, RunMain, HostMain, CallMain, WireMain DEF TypeOK
  <1>2. CASE Receive
    BY <1>2, RunReceive, HostReceive, CallReceive, WireReceive DEF TypeOK
  <1>3. CASE Others
    BY <1>3, RunOthers, HostOthers, CallOthers, WireOthers DEF TypeOK
  <1>4. CASE World
    BY <1>4, RunWorld, HostWorld, CallWorld, WireWorld DEF TypeOK
  <1>5. CASE UNCHANGED vars
    BY <1>5 DEF TypeOK, RunOK, HostOK, CallOK, vars
  <1>6. QED
    BY <1>1, <1>2, <1>3, <1>4, <1>5 DEF Next

-----------------------------------------------------------------------------
(***************************************************************************)
(* The way out, one action at a time.                                      *)
(***************************************************************************)
LEMMA UnwindMain ==
  ASSUME HostOK, CallAttended, Unwinding, Main
  PROVE  CallAttended' /\ Unwinding'
  <1> USE DEF HostOK, CallAttended, Unwinding, Held, Before, After, Released,
         hostVars, dlgVars, txVars, netVars
  <1>1. CASE CheckTun
    BY <1>1 DEF CheckTun, Fail
  <1>2. CASE CreateTun
    BY <1>2 DEF CreateTun, Fail
  <1>3. CASE NewUA
    BY <1>3 DEF NewUA, Fail
  <1>4. CASE Register
    BY <1>4 DEF Register, Fail
  <1>5. CASE RegisterOnly
    BY <1>5 DEF RegisterOnly
  <1>6. CASE DialMedia
    BY <1>6 DEF DialMedia, Fail
  <1>7. CASE SendInvite
    BY <1>7 DEF SendInvite, Fail
  <1>8. CASE InviteCancelled
    BY <1>8 DEF InviteCancelled, Fail
  <1>9. CASE InviteFinal
    BY <1>9 DEF InviteFinal, Fail
  <1>10. CASE RejectCall
    BY <1>10 DEF RejectCall
  <1>11. CASE AcceptCall
    BY <1>11 DEF AcceptCall, Fail
  <1>12. CASE AwaitCancelled
    BY <1>12 DEF AwaitCancelled, Fail
  <1>13. CASE ApplyConfig
    BY <1>13 DEF ApplyConfig, Fail
  <1>14. CASE EnsureHostRoute
    BY <1>14 DEF EnsureHostRoute, Fail
  <1>15. CASE StartForwarder
    BY <1>15 DEF StartForwarder
  <1>16. CASE StartCommand
    BY <1>16 DEF StartCommand, Finish
  <1>17. CASE Supervise
    BY <1>17 DEF Supervise, SuperviseSignal, SuperviseForwarder,
              SuperviseTerminated, SuperviseCommand, SuperviseMaxDuration,
              Supervised, Finish
  <1>18. CASE Hangup
    BY <1>18 DEF Hangup
  <1>19. CASE ByeDone
    BY <1>19 DEF ByeDone
  <1>20. CASE RollbackTun
    BY <1>20 DEF RollbackTun, Rollback
  <1>21. CASE RollbackRoute
    BY <1>21 DEF RollbackRoute, Rollback
  <1>22. CASE CommandWait
    BY <1>22 DEF CommandWait
  <1>23. CASE Unregister
    BY <1>23 DEF Unregister
  <1>24. CASE CloseUA
    BY <1>24 DEF CloseUA
  <1>25. CASE CloseTun
    BY <1>25 DEF CloseTun
  <1>26. CASE ExitProcess
    BY <1>26 DEF ExitProcess
  <1>27. CASE UndoApply
    BY <1>27 DEF UndoApply, Rollback
  <1>28. QED
    BY <1>1, <1>2, <1>3, <1>4, <1>5, <1>6, <1>7, <1>8, <1>9, <1>10, <1>11,
       <1>12, <1>13, <1>14, <1>15, <1>16, <1>17, <1>18, <1>19, <1>20, <1>21,
       <1>22, <1>23, <1>24, <1>25, <1>26, <1>27 DEF Main

LEMMA UnwindReceive ==
  ASSUME HostOK, CallAttended, Unwinding, Receive
  PROVE  CallAttended' /\ Unwinding'
  <1> USE DEF HostOK, CallAttended, Unwinding, Held, Before, After, Released,
         hostVars, dlgVars, txVars, netVars
  <1>1. CASE \E m \in Finals \union {"1xx"} : ReceiveResponse(m)
    BY <1>1 DEF ReceiveResponse
  <1>2. CASE ReceiveInvite
    BY <1>2 DEF ReceiveInvite
  <1>3. CASE ReceiveAck
    BY <1>3 DEF ReceiveAck
  <1>4. CASE ReceiveBye
    BY <1>4 DEF ReceiveBye
  <1>5. QED
    BY <1>1, <1>2, <1>3, <1>4 DEF Receive

LEMMA UnwindOthers ==
  ASSUME HostOK, CallAttended, Unwinding, Others
  PROVE  CallAttended' /\ Unwinding'
  <1> USE DEF HostOK, CallAttended, Unwinding, Held, Before, After, Released,
         hostVars, dlgVars, txVars, netVars
  <1>1. CASE ResendInvite
    BY <1>1 DEF ResendInvite
  <1>2. CASE InviteTimesOut
    BY <1>2 DEF InviteTimesOut, Fail
  <1>3. CASE Resend200
    BY <1>3 DEF Resend200
  <1>4. CASE NoAck
    BY <1>4 DEF NoAck
  <1>5. CASE ResendBye
    BY <1>5 DEF ResendBye
  <1>6. CASE SuperviseTraffic
    BY <1>6 DEF SuperviseTraffic, Supervised, Finish
  <1>7. CASE ForwarderCloses
    BY <1>7 DEF ForwarderCloses
  <1>8. CASE ForwarderEnds
    BY <1>8 DEF ForwarderEnds
  <1>9. CASE ForwarderFails
    BY <1>9 DEF ForwarderFails
  <1>10. CASE CommandExits
    BY <1>10 DEF CommandExits, CommandEnded
  <1>11. CASE CommandKilled
    BY <1>11 DEF CommandKilled, CommandEnded
  <1>12. QED
    BY <1>1, <1>2, <1>3, <1>4, <1>5, <1>6, <1>7, <1>8, <1>9, <1>10, <1>11
       DEF Others

LEMMA UnwindWorld ==
  ASSUME HostOK, CallAttended, Unwinding, World
  PROVE  CallAttended' /\ Unwinding'
  <1> USE DEF HostOK, CallAttended, Unwinding, Held, Before, After, Released,
         hostVars, dlgVars, txVars, netVars
  <1>1. CASE Signal
    BY <1>1 DEF Signal
  <1>2. CASE PeerRings
    BY <1>2 DEF PeerRings, PeerStep
  <1>3. CASE PeerAnswers
    BY <1>3 DEF PeerAnswers, PeerStep
  <1>4. CASE PeerRefuses
    BY <1>4 DEF PeerRefuses, PeerStep
  <1>5. CASE PeerAcked
    BY <1>5 DEF PeerAcked, PeerStep
  <1>6. CASE PeerCalls
    BY <1>6 DEF PeerCalls, PeerStep
  <1>7. CASE PeerGets200
    BY <1>7 DEF PeerGets200, PeerStep
  <1>8. CASE PeerHangsUp
    BY <1>8 DEF PeerHangsUp, PeerStep
  <1>9. CASE PeerGetsBye
    BY <1>9 DEF PeerGetsBye, PeerStep
  <1>10. CASE Lose
    BY <1>10 DEF Lose
  <1>11. QED
    BY <1>1, <1>2, <1>3, <1>4, <1>5, <1>6, <1>7, <1>8, <1>9, <1>10 DEF World

LEMMA UnwindStep ==
  ASSUME HostOK, CallAttended, Unwinding, [Next]_vars
  PROVE  CallAttended' /\ Unwinding'
  <1>1. CASE UNCHANGED vars
    BY <1>1 DEF CallAttended, Unwinding, Released, vars
  <1>2. QED
    BY <1>1, UnwindMain, UnwindReceive, UnwindOthers, UnwindWorld DEF Next

\* The invariant holds in every state that can be reached.
THEOREM Invariance == Spec => []Inv
  <1>1. Inv /\ [Next]_vars => Inv'
    BY TypeStep, UnwindStep DEF Inv, TypeOK
  <1>2. QED
    BY InitInv, <1>1, PTL DEF Spec

\* Every variable keeps a value of its kind.
THEOREM TypeCorrect == Spec => []TypeOK
  <1>1. Inv => TypeOK
    BY DEF Inv
  <1>2. QED
    BY Invariance, <1>1, PTL

\* A live dialog is always still on its way to hangup.
THEOREM Attended == Spec => []CallAttended
  <1>1. Inv => CallAttended
    BY DEF Inv
  <1>2. QED
    BY Invariance, <1>1, PTL

\* A run that has returned leaves no kernel setting and no command.
THEOREM Clean == Spec => []NothingLeftBehind
  <1>1. Inv => NothingLeftBehind
    BY DEF Inv, Unwinding, After, NothingLeftBehind
  <1>2. QED
    BY Invariance, <1>1, PTL

\* A run comes to its deferred calls without an error by way of a call that
\* was released, or of a registration asked for alone.
Earned ==
    /\ pc = "registerOnly" => cfg.registerOnly
    /\ pc \in After /\ err = "none" => cfg.registerOnly \/ Released

LEMMA EarnedStep ==
  ASSUME Inv, Earned, [Next]_vars
  PROVE  Earned'
  <1> USE DEF Inv, TypeOK, CallOK, CallAttended, Unwinding, Earned, Held,
          Before,
         After, Released, hostVars, dlgVars, txVars, netVars
  <1>1. CASE Main
    <2>1. CASE \/ CheckTun \/ CreateTun \/ NewUA \/ Register \/ RegisterOnly
               \/ DialMedia
      BY <2>1 DEF CheckTun, Fail, CreateTun, NewUA, Register, RegisterOnly,
             DialMedia
    <2>2. CASE \/ SendInvite \/ InviteCancelled \/ InviteFinal \/ RejectCall
               \/ AcceptCall \/ AwaitCancelled
      BY <2>2 DEF SendInvite, Fail, InviteCancelled, InviteFinal, RejectCall,
             AcceptCall, AwaitCancelled
    <2>3. CASE \/ ApplyConfig \/ UndoApply \/ EnsureHostRoute
               \/ StartForwarder \/ StartCommand \/ Supervise
      BY <2>3 DEF ApplyConfig, Fail, UndoApply, Rollback, EnsureHostRoute,
             StartForwarder, StartCommand, Finish, Supervise, SuperviseSignal,
             SuperviseForwarder, SuperviseTerminated, SuperviseCommand,
             SuperviseMaxDuration, Supervised
    <2>4. CASE \/ Hangup \/ ByeDone \/ RollbackTun \/ RollbackRoute
               \/ CommandWait
      BY <2>4 DEF Hangup, ByeDone, RollbackTun, Rollback, RollbackRoute,
             CommandWait
    <2>5. CASE Unregister \/ CloseUA \/ CloseTun \/ ExitProcess
      BY <2>5 DEF Unregister, CloseUA, CloseTun, ExitProcess
    <2>6. QED
      BY <1>1, <2>1, <2>2, <2>3, <2>4, <2>5 DEF Main
  <1>2. CASE Receive
    BY <1>2 DEF Receive, ReceiveResponse, ReceiveInvite, ReceiveAck,
           ReceiveBye
  <1>3. CASE Others
    BY <1>3 DEF Others, ResendInvite, InviteTimesOut, Fail, Resend200, NoAck,
           ResendBye, SuperviseTraffic, Supervised, Finish, ForwarderCloses,
           ForwarderEnds, ForwarderFails, CommandExits, CommandEnded,
           CommandKilled
  <1>4. CASE World
    BY <1>4 DEF World, Signal, PeerRings, PeerStep, PeerAnswers, PeerRefuses,
           PeerAcked, PeerCalls, PeerGets200, PeerHangsUp, PeerGetsBye, Lose
  <1>5. CASE UNCHANGED vars
    BY <1>5 DEF vars
  <1>6. QED
    BY <1>1, <1>2, <1>3, <1>4, <1>5 DEF Next

\* An exit status that says the session worked means that there was a call,
\* or that none was asked for.
THEOREM SuccessIsEarned == Spec => []SuccessMeansCall
  <1>1. Init => Earned
    BY DEF Init, Earned, After
  <1>2. Inv /\ Earned => SuccessMeansCall
    <2>1. err \in {"none", "auth", "REGISTER", "INVITE", "mediaEnded", "other"} =>
             (ExitStatus \in {"exitOK", "exitMediaTimeout", "commandStatus"}
                 => err = "none")
      BY DEF ExitStatus
    <2>2. QED
      BY <2>1 DEF Inv, TypeOK, RunOK, Earned, After, Released, SuccessMeansCall
  <1>3. QED
    BY Invariance, EarnedStep, <1>1, <1>2, PTL DEF Spec

-----------------------------------------------------------------------------
(***************************************************************************)
(* The order of the way out, and the refinement.                           *)
(***************************************************************************)
LEMMA RollbackStep ==
  ASSUME Inv, [Next]_vars
  PROVE  undo \subseteq undo' \/ Released \/ pc = "unapply"
  <1> USE DEF Inv, Unwinding, hostVars
  <1>1. CASE Main
    BY <1>1 DEF Main, CheckTun, Fail, CreateTun, NewUA, Register,
           RegisterOnly, DialMedia, SendInvite, InviteCancelled, InviteFinal,
           RejectCall, AcceptCall, AwaitCancelled, ApplyConfig,
           UndoApply, EnsureHostRoute, StartForwarder, StartCommand, Finish, Supervise,
           SuperviseSignal, SuperviseForwarder, SuperviseTerminated,
           SuperviseCommand, SuperviseMaxDuration, Supervised, Hangup,
           ByeDone, RollbackTun, Rollback, RollbackRoute, CommandWait,
           Unregister, CloseUA, CloseTun, ExitProcess
  <1>2. CASE Receive
    BY <1>2 DEF Receive, ReceiveResponse, ReceiveInvite, ReceiveAck,
           ReceiveBye
  <1>3. CASE Others
    BY <1>3 DEF Others, ResendInvite, InviteTimesOut, Fail, Resend200, NoAck,
           ResendBye, SuperviseTraffic, Supervised, Finish, ForwarderCloses,
           ForwarderEnds, ForwarderFails, CommandExits, CommandEnded,
           CommandKilled
  <1>4. CASE World
    BY <1>4 DEF World, Signal, PeerRings, PeerStep, PeerAnswers, PeerRefuses,
           PeerAcked, PeerCalls, PeerGets200, PeerHangsUp, PeerGetsBye, Lose
  <1>5. CASE UNCHANGED vars
    BY <1>5 DEF vars
  <1>6. QED
    BY <1>1, <1>2, <1>3, <1>4, <1>5 DEF Next

\* Settings that serve a call are withdrawn only after its BYE has gone or the
\* call has ended; Apply, failing half way, withdraws its own part before that.
THEOREM ReleasedFirst == Spec => ReleaseBeforeRollback
  <1>1. Inv /\ [Next]_vars => [undo \subseteq undo' \/ Released \/ pc = "unapply"]_vars
    BY RollbackStep
  <1>2. QED
    BY Invariance, <1>1, PTL DEF Spec, ReleaseBeforeRollback

LEMMA LifecycleInit == Init => Lifecycle!Init
  BY DEF Init, Lifecycle!Init

LEMMA LifecycleMain ==
  ASSUME Inv, Main
  PROVE  [Lifecycle!Next]_(Lifecycle!vars)
  <1> USE DEF Inv, TypeOK, HostOK, CallOK, CallAttended, Unwinding, Held,
         Before, After, Released, hostVars, dlgVars, txVars, netVars,
         Lifecycle!Next, Lifecycle!vars, Lifecycle!Settings,
         Lifecycle!Establish, Lifecycle!Release, Lifecycle!Configure,
         Lifecycle!Withdraw, Lifecycle!TunVanishes, Lifecycle!StartCommand,
         Lifecycle!CommandExits, Lifecycle!Finish
  <1>1. CASE CheckTun
    BY <1>1 DEF CheckTun, Fail
  <1>2. CASE CreateTun
    BY <1>2 DEF CreateTun, Fail
  <1>3. CASE NewUA
    BY <1>3 DEF NewUA, Fail
  <1>4. CASE Register
    BY <1>4 DEF Register, Fail
  <1>5. CASE RegisterOnly
    BY <1>5 DEF RegisterOnly
  <1>6. CASE DialMedia
    BY <1>6 DEF DialMedia, Fail
  <1>7. CASE SendInvite
    BY <1>7 DEF SendInvite, Fail
  <1>8. CASE InviteCancelled
    BY <1>8 DEF InviteCancelled, Fail
  <1>9. CASE InviteFinal
    BY <1>9 DEF InviteFinal, Fail
  <1>10. CASE RejectCall
    BY <1>10 DEF RejectCall
  <1>11. CASE AcceptCall
    BY <1>11 DEF AcceptCall, Fail
  <1>12. CASE AwaitCancelled
    BY <1>12 DEF AwaitCancelled, Fail
  <1>13. CASE ApplyConfig
    BY <1>13 DEF ApplyConfig, Fail
  <1>14. CASE EnsureHostRoute
    BY <1>14 DEF EnsureHostRoute, Fail
  <1>15. CASE StartForwarder
    BY <1>15 DEF StartForwarder
  <1>16. CASE StartCommand
    BY <1>16 DEF StartCommand, Finish
  <1>17. CASE Supervise
    BY <1>17 DEF Supervise, SuperviseSignal, SuperviseForwarder,
              SuperviseTerminated, SuperviseCommand, SuperviseMaxDuration,
              Supervised, Finish
  <1>18. CASE Hangup
    BY <1>18 DEF Hangup
  <1>19. CASE ByeDone
    BY <1>19 DEF ByeDone
  <1>20. CASE RollbackTun
    BY <1>20 DEF RollbackTun, Rollback
  <1>21. CASE RollbackRoute
    BY <1>21 DEF RollbackRoute, Rollback
  <1>22. CASE CommandWait
    BY <1>22 DEF CommandWait
  <1>23. CASE Unregister
    BY <1>23 DEF Unregister
  <1>24. CASE CloseUA
    BY <1>24 DEF CloseUA
  <1>25. CASE CloseTun
    BY <1>25 DEF CloseTun
  <1>26. CASE ExitProcess
    BY <1>26 DEF ExitProcess
  <1>27. CASE UndoApply
    BY <1>27 DEF UndoApply, Rollback
  <1>28. QED
    BY <1>1, <1>2, <1>3, <1>4, <1>5, <1>6, <1>7, <1>8, <1>9, <1>10, <1>11,
       <1>12, <1>13, <1>14, <1>15, <1>16, <1>17, <1>18, <1>19, <1>20, <1>21,
       <1>22, <1>23, <1>24, <1>25, <1>26, <1>27 DEF Main

LEMMA LifecycleReceive ==
  ASSUME Inv, Receive
  PROVE  [Lifecycle!Next]_(Lifecycle!vars)
  <1> USE DEF Inv, TypeOK, HostOK, CallOK, CallAttended, Unwinding, Held,
         Before, After, Released, hostVars, dlgVars, txVars, netVars,
         Lifecycle!Next, Lifecycle!vars, Lifecycle!Settings,
         Lifecycle!Establish, Lifecycle!Release, Lifecycle!Configure,
         Lifecycle!Withdraw, Lifecycle!TunVanishes, Lifecycle!StartCommand,
         Lifecycle!CommandExits, Lifecycle!Finish
  <1>1. CASE \E m \in Finals \union {"1xx"} : ReceiveResponse(m)
    BY <1>1 DEF ReceiveResponse
  <1>2. CASE ReceiveInvite
    BY <1>2 DEF ReceiveInvite
  <1>3. CASE ReceiveAck
    BY <1>3 DEF ReceiveAck
  <1>4. CASE ReceiveBye
    BY <1>4 DEF ReceiveBye
  <1>5. QED
    BY <1>1, <1>2, <1>3, <1>4 DEF Receive

LEMMA LifecycleOthers ==
  ASSUME Inv, Others
  PROVE  [Lifecycle!Next]_(Lifecycle!vars)
  <1> USE DEF Inv, TypeOK, HostOK, CallOK, CallAttended, Unwinding, Held,
         Before, After, Released, hostVars, dlgVars, txVars, netVars,
         Lifecycle!Next, Lifecycle!vars, Lifecycle!Settings,
         Lifecycle!Establish, Lifecycle!Release, Lifecycle!Configure,
         Lifecycle!Withdraw, Lifecycle!TunVanishes, Lifecycle!StartCommand,
         Lifecycle!CommandExits, Lifecycle!Finish
  <1>1. CASE ResendInvite
    BY <1>1 DEF ResendInvite
  <1>2. CASE InviteTimesOut
    BY <1>2 DEF InviteTimesOut, Fail
  <1>3. CASE Resend200
    BY <1>3 DEF Resend200
  <1>4. CASE NoAck
    BY <1>4 DEF NoAck
  <1>5. CASE ResendBye
    BY <1>5 DEF ResendBye
  <1>6. CASE SuperviseTraffic
    BY <1>6 DEF SuperviseTraffic, Supervised, Finish
  <1>7. CASE ForwarderCloses
    BY <1>7 DEF ForwarderCloses
  <1>8. CASE ForwarderEnds
    BY <1>8 DEF ForwarderEnds
  <1>9. CASE ForwarderFails
    BY <1>9 DEF ForwarderFails
  <1>10. CASE CommandExits
    BY <1>10 DEF CommandExits, CommandEnded
  <1>11. CASE CommandKilled
    BY <1>11 DEF CommandKilled, CommandEnded
  <1>12. QED
    BY <1>1, <1>2, <1>3, <1>4, <1>5, <1>6, <1>7, <1>8, <1>9, <1>10, <1>11
       DEF Others

LEMMA LifecycleWorld ==
  ASSUME Inv, World
  PROVE  [Lifecycle!Next]_(Lifecycle!vars)
  <1> USE DEF Inv, TypeOK, HostOK, CallOK, CallAttended, Unwinding, Held,
         Before, After, Released, hostVars, dlgVars, txVars, netVars,
         Lifecycle!Next, Lifecycle!vars, Lifecycle!Settings,
         Lifecycle!Establish, Lifecycle!Release, Lifecycle!Configure,
         Lifecycle!Withdraw, Lifecycle!TunVanishes, Lifecycle!StartCommand,
         Lifecycle!CommandExits, Lifecycle!Finish
  <1>1. CASE Signal
    BY <1>1 DEF Signal
  <1>2. CASE PeerRings
    BY <1>2 DEF PeerRings, PeerStep
  <1>3. CASE PeerAnswers
    BY <1>3 DEF PeerAnswers, PeerStep
  <1>4. CASE PeerRefuses
    BY <1>4 DEF PeerRefuses, PeerStep
  <1>5. CASE PeerAcked
    BY <1>5 DEF PeerAcked, PeerStep
  <1>6. CASE PeerCalls
    BY <1>6 DEF PeerCalls, PeerStep
  <1>7. CASE PeerGets200
    BY <1>7 DEF PeerGets200, PeerStep
  <1>8. CASE PeerHangsUp
    BY <1>8 DEF PeerHangsUp, PeerStep
  <1>9. CASE PeerGetsBye
    BY <1>9 DEF PeerGetsBye, PeerStep
  <1>10. CASE Lose
    BY <1>10 DEF Lose
  <1>11. QED
    BY <1>1, <1>2, <1>3, <1>4, <1>5, <1>6, <1>7, <1>8, <1>9, <1>10 DEF World

\* Every run is one that CallLifecycle allows.
THEOREM Implements == Spec => KeepsLifecycle
  <1>1. Inv /\ [Next]_vars => [Lifecycle!Next]_(Lifecycle!vars)
    <2>1. CASE UNCHANGED vars
      BY <2>1 DEF vars, Lifecycle!vars, Released
    <2>2. QED
      BY <2>1, LifecycleMain, LifecycleReceive, LifecycleOthers, LifecycleWorld
         DEF Next
  <1>2. QED
    BY Invariance, LifecycleInit, <1>1, PTL
       DEF Spec, KeepsLifecycle, Lifecycle!Spec
=============================================================================
