---------------------------- MODULE WeakSemaphore ----------------------------
(***************************************************************************)
(* What sem.h promises: the counting semaphore.  A call of down returns     *)
(* when it takes one of the permits; nothing is said of who gets it.        *)
(***************************************************************************)
EXTENDS Integers

CONSTANTS Procs, Sems, NONE

VARIABLES
    avail,    \* the permits of each semaphore
    taken,    \* the calls of down and try_down that got one, less the calls of up
    trying    \* the semaphore a process is blocked on in down, or NONE

vars == <<avail, taken, trying>>

Init ==
    /\ avail \in [Sems -> Nat]
    /\ taken = [s \in Sems |-> 0]
    /\ trying = [p \in Procs |-> NONE]

\* A call of down blocks.
Try(p, s) ==
    /\ trying[p] = NONE
    /\ trying' = [trying EXCEPT ![p] = s]
    /\ UNCHANGED <<avail, taken>>

\* A blocked call takes a permit and returns.
Enter(p, s) ==
    /\ trying[p] = s /\ avail[s] > 0
    /\ avail' = [avail EXCEPT ![s] = @ - 1]
    /\ taken' = [taken EXCEPT ![s] = @ + 1]
    /\ trying' = [trying EXCEPT ![p] = NONE]

\* A call of down or try_down takes a permit without blocking.
Take(s) ==
    /\ avail[s] > 0
    /\ avail' = [avail EXCEPT ![s] = @ - 1]
    /\ taken' = [taken EXCEPT ![s] = @ + 1]
    /\ UNCHANGED trying

Release(s) ==
    /\ avail' = [avail EXCEPT ![s] = @ + 1]
    /\ taken' = [taken EXCEPT ![s] = @ - 1]
    /\ UNCHANGED trying

Next ==
    \E s \in Sems : Take(s) \/ Release(s) \/ \E p \in Procs : Try(p, s) \/ Enter(p, s)

Spec == Init /\ [][Next]_vars
=============================================================================
