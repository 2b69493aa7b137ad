--------------------------- MODULE MCSessionTimer ---------------------------
EXTENDS SessionTimer

\* Each limit on once and off once, and longer than another once.
MCLimits == {[max |-> 8, idle |-> 2, media |-> 1],
             [max |-> 0, idle |-> 3, media |-> 2],
             [max |-> 7, idle |-> 0, media |-> 0],
             [max |-> 0, idle |-> 0, media |-> 0]}

\* A header of nothing, and intervals shorter and longer than the default.
MCHeaders == {0, 2, 4}
=============================================================================
