---------------------------- MODULE MCNetConfig ----------------------------
EXTENDS NetConfig, TLC

CONSTANTS p1, p2, n1, n2

MCProcs == {p1, p2}
MCNames == {n1, n2}

\* The same name or not, with and without --force and --media-route, with an
\* address and routes or with neither.
MCOptions == [name : MCNames, force : BOOLEAN, mediaRoute : BOOLEAN,
              asks : {{}, {"addr", "route"}}]

Symmetry == Permutations(MCProcs) \union Permutations(MCNames)
=============================================================================
