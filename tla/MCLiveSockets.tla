--------------------------- MODULE MCLiveSockets ---------------------------
\* Small instances of LiveSockets for TLC.
EXTENDS LiveSockets

CONSTANTS c1, c2, f1, t1, t2, p1, p2

\* f1 and t1 are a feature and a test of p1, t2 is a test of p2; the users are
\* members of p1 alone.
MCProjectOf == (f1 :> p1) @@ (t1 :> p1) @@ (t2 :> p2)
OwnProjects == [c \in Connections |-> {p1}]
=============================================================================
