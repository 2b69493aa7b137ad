----------------------------- MODULE MCClientTx -----------------------------
EXTENDS ClientTx

\* INVITE; REGISTER under its 35 s; BYE and the last REGISTER under their
\* 2 s.  One tick is 500 ms.
Invite   == [invite |-> TRUE,  limit |-> Never, signal |-> FALSE]
Signal   == [invite |-> TRUE,  limit |-> Never, signal |-> TRUE]
Register == [invite |-> FALSE, limit |-> 70,    signal |-> FALSE]
Bye      == [invite |-> FALSE, limit |-> 4,     signal |-> FALSE]

MCRequests == {Invite, Signal, Register, Bye}
=============================================================================
