------------------------------ MODULE PidAlloc -------------------------------
(***************************************************************************)
(* What do_fork and do_wait promise about pids: a new process gets a pid     *)
(* that no live process has, and a pid is free again once it is reaped.      *)
(***************************************************************************)
EXTENDS Integers

CONSTANTS MAX_PROCESS, MAX_PID

VARIABLE live    \* the pids of the live processes, idle's 0 apart

Pids == 1..(MAX_PID - 1)

Init == live = {}

Alloc == \E pid \in Pids \ live : live' = live \cup {pid}

Free == \E pid \in live : live' = live \ {pid}

Next == Alloc \/ Free

Spec == Init /\ [][Next]_live
=============================================================================
