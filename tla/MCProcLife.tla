----------------------------- MODULE MCProcLife ------------------------------
\* Instances of ProcLife for TLC.
EXTENDS ProcLife, TLC

CONSTANTS idle, init, u1, u2, u3, null

TwoUsers == {idle, init, u1, u2}
ThreeUsers == {idle, init, u1, u2, u3}
Users == Procs \ {idle, init}
OneUser == {u1}

\* The proc_structs that user processes occupy are interchangeable.
UserSymmetry == Permutations(Users)
=============================================================================
