----------------------------- MODULE MCIncoming -----------------------------
EXTENDS Incoming

CONSTANTS c1, c2

MCCallers == {c1, c2}
Offer(k, l) == [c \in MCCallers |-> IF c = c1 THEN k ELSE l]

\* Each kind beside a call that can be accepted.
MCOffers == {Offer("good", "good"), Offer("good", "unwelcome"),
             Offer("unroutable", "noContact")}
=============================================================================
