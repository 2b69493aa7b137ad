----------------------------- MODULE MCSession -----------------------------
EXTENDS Session

Basic == [answer |-> FALSE, registerOnly |-> FALSE, mediaRoute |-> FALSE,
          command |-> FALSE, force |-> FALSE, maxDuration |-> FALSE]

\* Every option is on in one command line and off in another.
MCConfigs ==
    {[Basic EXCEPT !.registerOnly = TRUE],
     [Basic EXCEPT !.mediaRoute = TRUE, !.command = TRUE, !.force = TRUE],
     [Basic EXCEPT !.answer = TRUE, !.command = TRUE, !.maxDuration = TRUE]}

\* A plain call, with nothing but the call and its forwarder.
PlainCall == {Basic}
=============================================================================
