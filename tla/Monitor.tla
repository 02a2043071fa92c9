------------------------------- MODULE Monitor -------------------------------
(***************************************************************************)
(* The monitors of kern/sync/monitor.c, on top of the semaphores.           *)
(*                                                                          *)
(* A monitor is a semaphore "mutex", a semaphore "next" on which a process  *)
(* that signalled waits until it may go on in the monitor, the number of    *)
(* such processes, and per condition variable a semaphore and the number of *)
(* its waiters.  A condition variable is named by its semaphore.  The       *)
(* process that is signalled goes on in the monitor at once; whoever leaves *)
(* or waits lets a signaller back in before it releases the mutex.          *)
(*                                                                          *)
(* cond_wait and cond_signal are sequences of steps, each up to and         *)
(* including one up() or down(); the callers of these operators add the     *)
(* program counter.                                                         *)
(***************************************************************************)
EXTENDS Semaphore

CONSTANTS
    Mutex, Next_,    \* mt->mutex, mt->next
    Conds            \* the cv[i].sem

ASSUME MonitorAssumption ==
    /\ Sems = Conds \cup {Mutex, Next_}
    /\ Mutex # Next_ /\ Mutex \notin Conds /\ Next_ \notin Conds

VARIABLES
    next_count,    \* mt->next_count
    count          \* cv[i].count

monVars == <<next_count, count>>

\* monitor_init
MonitorInit ==
    /\ next_count = 0
    /\ count = [c \in Conds |-> 0]
    /\ value = [s \in Sems |-> IF s = Mutex THEN 1 ELSE 0]

\* if (next_count > 0) up(next) else up(mutex): at the end of a routine, and in
\* cond_wait.
LetInNext == Up(IF next_count > 0 THEN Next_ ELSE Mutex)

\* cond_wait(c): up to the down(), the down(), and the rest.
CondWaitUp(c) ==
    /\ count' = [count EXCEPT ![c] = @ + 1]
    /\ LetInNext
    /\ UNCHANGED next_count

CondWaitDown(c) == Down(c) /\ UNCHANGED monVars

CondWaitEnd(c) ==
    /\ count' = [count EXCEPT ![c] = @ - 1]
    /\ UNCHANGED <<next_count, semVars>>

\* Fault: a signal with nobody waiting is kept.
CondSignalUpUnchecked(c) ==
    /\ next_count' = next_count + 1
    /\ Up(c)
    /\ UNCHANGED count

\* cond_signal(c), if somebody waits: the up(), the down(), and the rest.
CondSignalUp(c) ==
    /\ count[c] > 0
    /\ next_count' = next_count + 1
    /\ Up(c)
    /\ UNCHANGED count

CondSignalDown == Down(Next_) /\ UNCHANGED monVars

CondSignalEnd ==
    /\ next_count' = next_count - 1
    /\ UNCHANGED <<count, semVars>>

\* cond_signal(c) with nobody waiting does nothing.
CondSignalLost(c) ==
    /\ count[c] = 0
    /\ UNCHANGED <<monVars, semVars>>

=============================================================================
