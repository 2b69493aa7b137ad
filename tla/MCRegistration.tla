--------------------------- MODULE MCRegistration ---------------------------
EXTENDS Registration

\* Ticks of four seconds.  A registrar that grants 4 s; 100 s, which is too
\* short at first and enough after 132 s; 132 s, the least that is enough at
\* first; and four minutes, after which neither of them is.
MCGrants == {1, 25, 33, 60}
=============================================================================
