---------------------------- MODULE MCSemClients -----------------------------
\* Instances of SemClients for TLC.
EXTENDS SemClients, TLC

CONSTANTS idle, c1, c2, c3, c4, s1, s2, none

FourClients == {idle, c1, c2, c3, c4}
TwoSems == {s1, s2}

\* The clients run the same code; the semaphores are interchangeable.
ClientSymmetry == Permutations({c1, c2, c3, c4}) \cup Permutations({s1, s2})
=============================================================================
