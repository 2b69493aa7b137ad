--------------------------- MODULE ClientTxProofs ---------------------------
(***************************************************************************)
(* Proofs about module ClientTx, for every request, every timer and every  *)
(* capacity of the channel: the types, FirstFinalWins and                  *)
(* LoopServesCaller.                                                       *)
(*                                                                         *)
(* FirstFinalWins speaks of what wait has returned; Waiting adds that what *)
(* waits in the channel while the transaction is open is the first final   *)
(* response.  LoopServesCaller needs the loop not to end in silence        *)
(* (Served): when it is over and the caller still waits, an error is in    *)
(* the caller's channel, or it is an INVITE that was answered.             *)
(***************************************************************************)
EXTENDS ClientTx, TLAPS

\* The transaction is open as long as the caller waits, and keeps the first
\* final response for it.
Waiting ==
    /\ open <=> result = "none"
    /\ open => final = first

Served == ~loop /\ result = "none" => failed \/ (req.invite /\ heard)

Inv == TypeOK /\ Waiting /\ Served /\ FirstFinalWins

LEMMA InitInv ==
  ASSUME Init
  PROVE  Inv
  <1>1. TypeOK
    <2>1. prov \in 0 .. ProvisionalCap
      BY TimersAssumption DEF Init
    <2>2. wire \subseteq Finals \union {"request", "1xx"}
      BY DEF Init
    <2>3. QED
      BY TimersAssumption, <2>1, <2>2 DEF Init, TypeOK
  <1>2. Waiting /\ Served /\ FirstFinalWins
    BY DEF Init, Waiting, Served, FirstFinalWins, Finals
  <1>3. QED
    BY <1>1, <1>2 DEF Inv

LEMMA TypeInv ==
  ASSUME TypeOK, [Next]_vars
  PROVE  TypeOK'
  <1> USE TimersAssumption, RequestsAssumption DEF TypeOK, Finals, loopVars,
          chanVars, callVars, netVars
  <1>1. CASE LoopStops
    BY <1>1 DEF LoopStops
  <1>2. CASE LoopTimesOut
    BY <1>2 DEF LoopTimesOut
  <1>3. CASE LoopRetries
    <2>1. Backoff(interval) \in Nat /\ now + Backoff(interval) \in Nat
      BY DEF Backoff
    <2>2. interval' \in Nat /\ retryAt' \in Nat /\ loop' \in BOOLEAN /\ failed' \in BOOLEAN
      BY <1>3, <2>1 DEF LoopRetries
    <2>3. wire' \subseteq Finals \union {"request", "1xx"}
      BY <1>3 DEF LoopRetries
    <2>4. QED
      BY <1>3, <2>2, <2>3 DEF LoopRetries
  <1>4. CASE WaitFinal
    BY <1>4 DEF WaitFinal, Return
  <1>5. CASE WaitFailed
    BY <1>5 DEF WaitFailed, Return
  <1>6. CASE WaitCancelled
    BY <1>6 DEF WaitCancelled, Return
  <1>7. CASE WaitProvisional
    BY <1>7 DEF WaitProvisional
  <1>8. ASSUME NEW m \in Finals \union {"1xx"}, Receive(m) PROVE TypeOK'
    <2>1. prov' \in 0 .. ProvisionalCap
      BY <1>8 DEF Receive, Queue
    <2>2. final' \in Finals \union {"none"} /\ first' \in Finals \union {"none"}
      BY <1>8 DEF Receive, Keep
    <2>3. QED
      BY <1>8, <2>1, <2>2 DEF Receive
  <1>9. CASE ServerTakes
    BY <1>9 DEF ServerTakes
  <1>10. CASE ServerRings
    BY <1>10 DEF ServerRings
  <1>11. CASE ServerDecides
    BY <1>11 DEF ServerDecides
  <1>12. CASE Lose
    BY <1>12 DEF Lose
  <1>13. CASE Cancel
    BY <1>13 DEF Cancel
  <1>14. CASE Tick
    BY <1>14 DEF Tick
  <1>15. CASE UNCHANGED vars
    BY <1>15 DEF vars
  <1>16. QED
    BY <1>1, <1>2, <1>3, <1>4, <1>5, <1>6, <1>7, <1>8, <1>9, <1>10, <1>11,
       <1>12, <1>13, <1>14, <1>15 DEF Next, Process, Network

LEMMA WaitInv ==
  ASSUME Inv, [Next]_vars
  PROVE  (Waiting /\ Served /\ FirstFinalWins)'
  <1> USE RequestsAssumption DEF Inv, TypeOK, Waiting, Served, FirstFinalWins,
          Finals, Silenced, loopVars, chanVars, callVars, netVars
  <1>1. CASE LoopStops
    BY <1>1 DEF LoopStops
  <1>2. CASE LoopTimesOut
    BY <1>2 DEF LoopTimesOut
  <1>3. CASE LoopRetries
    BY <1>3 DEF LoopRetries, Backoff
  <1>4. CASE WaitFinal
    BY <1>4 DEF WaitFinal, Return
  <1>5. CASE WaitFailed
    BY <1>5 DEF WaitFailed, Return
  <1>6. CASE WaitCancelled
    BY <1>6 DEF WaitCancelled, Return
  <1>7. CASE WaitProvisional
    BY <1>7 DEF WaitProvisional
  <1>8. ASSUME NEW m \in Finals \union {"1xx"}, Receive(m)
        PROVE  (Waiting /\ Served /\ FirstFinalWins)'
    BY <1>8 DEF Receive, Keep, Queue
  <1>9. CASE ServerTakes
    BY <1>9 DEF ServerTakes
  <1>10. CASE ServerRings
    BY <1>10 DEF ServerRings
  <1>11. CASE ServerDecides
    BY <1>11 DEF ServerDecides
  <1>12. CASE Lose
    BY <1>12 DEF Lose
  <1>13. CASE Cancel
    BY <1>13 DEF Cancel
  <1>14. CASE Tick
    BY <1>14 DEF Tick
  <1>15. CASE UNCHANGED vars
    BY <1>15 DEF vars
  <1>16. QED
    BY <1>1, <1>2, <1>3, <1>4, <1>5, <1>6, <1>7, <1>8, <1>9, <1>10, <1>11,
       <1>12, <1>13, <1>14, <1>15 DEF Next, Process, Network

LEMMA InvHolds == Spec => []Inv
  <1>1. Inv /\ [Next]_vars => Inv'
    BY TypeInv, WaitInv DEF Inv
  <1>2. QED
    BY InitInv, <1>1, PTL DEF Spec

\* The three goroutines of a transaction keep to their types: in particular
\* the channels never hold more than they have room for.
THEOREM TypesHold == Spec => []TypeOK
  <1>1. Inv => TypeOK
    BY DEF Inv
  <1>2. QED
    BY InvHolds, <1>1, PTL

\* The caller gets the first final response that reached receive, whatever
\* comes after it and whichever goroutine is faster.
THEOREM FirstFinalIsReturned == Spec => []FirstFinalWins
  <1>1. Inv => FirstFinalWins
    BY DEF Inv
  <1>2. QED
    BY InvHolds, <1>1, PTL

\* When time passes, the loop runs only for a caller that waits, and a caller
\* waits without it only for the end of an INVITE that was answered.
THEOREM LoopRunsForCaller == Spec => LoopServesCaller
  <1>1. Inv /\ [Next]_vars =>
          [Tick => /\ loop => result = "none"
                   /\ result = "none" => loop \/ (req.invite /\ heard)]_vars
    <2>1. SUFFICES ASSUME Inv, Tick
                   PROVE  /\ loop => result = "none"
                          /\ result = "none" => loop \/ (req.invite /\ heard)
      OBVIOUS
    <2>2. loop => open
      BY <2>1 DEF Tick, LoopDue
    <2>3. result = "none" => ~failed
      BY <2>1 DEF Tick, WaitDue
    <2>4. QED
      BY <2>1, <2>2, <2>3 DEF Inv, Waiting, Served
  <1>2. QED
    BY InvHolds, <1>1, PTL DEF Spec, LoopServesCaller
=============================================================================
