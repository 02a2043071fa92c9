----------------------------- MODULE SemClients ------------------------------
(***************************************************************************)
(* The semaphores under clients that call them in any order.  A client is a *)
(* kernel thread, or a process in a system call: kernel code is not         *)
(* preempted, so a client runs until its down() blocks or it calls          *)
(* schedule() itself, and only the timer interrupt comes in between.        *)
(***************************************************************************)
EXTENDS Semaphore, FiniteSets

CONSTANTS
    MaxValue     \* bound on the values, to keep the state space finite

ASSUME ClientsAssumption == MaxValue \in Nat /\ IsFiniteSet(Procs)

VARIABLE taken    \* history: permits taken less permits given back, per semaphore

clientsVars == <<schedVars, semVars, taken>>

Clients == Procs \ {Idle}

\* The current process is a client whose last call has returned.
Ready == current # Idle /\ ~InDown(current)

ClientDown(s) ==
    /\ Ready
    /\ Down(s)
    /\ taken' = [taken EXCEPT ![s] = IF wait'[current] = NoWait THEN @ + 1 ELSE @]
    /\ UNCHANGED <<time_slice, need_resched, run_list, current, panic>>

ClientUp(s) ==
    /\ Ready
    /\ value[s] < MaxValue
    /\ Up(s)
    /\ taken' = [taken EXCEPT ![s] = @ - 1]
    /\ UNCHANGED <<need_resched, current>>

ClientTryDown(s) ==
    /\ Ready
    /\ TryDown(s)
    /\ taken' = [taken EXCEPT ![s] = IF value[s] > 0 THEN @ + 1 ELSE @]
    /\ UNCHANGED schedVars

\* do_kill(p) wakes p only from a wait that may be interrupted.
ClientKill(p) ==
    /\ Ready
    /\ IF wait_state[p] \in Interruptible
       THEN WakeupProc(p)
       ELSE UNCHANGED <<state, wait_state, run_list, time_slice, panic>>
    /\ UNCHANGED <<need_resched, current, semVars, taken>>

\* The client gives up the processor and stays runnable.
ClientSchedule == Ready /\ Schedule /\ UNCHANGED <<semVars, taken>>

\* The timer interrupt, as far as these processes see it: none has a timer.
ClientTick ==
    /\ ProcTick(current)
    /\ UNCHANGED <<state, wait_state, run_list, current, panic, semVars, taken>>

ClientIdle == current = Idle /\ need_resched[Idle] /\ Schedule /\ UNCHANGED <<semVars, taken>>

\* The rest of a down() that blocked.
ClientDownSched == DownSched /\ UNCHANGED taken
ClientDownWake ==
    /\ DownWake
    /\ taken' = [taken EXCEPT ![wait[current].sem] = @ + 1]

ClientsInit ==
    /\ state = [p \in Procs |-> "RUNNABLE"]
    /\ wait_state = [p \in Procs |-> "NONE"]
    /\ time_slice = [p \in Procs |-> IF p = Idle THEN 0 ELSE MAX_TIME_SLICE]
    /\ need_resched = [p \in Procs |-> p = Idle]
    /\ run_list \in [1..Cardinality(Clients) -> Clients] /\ Range(run_list) = Clients
    /\ current = Idle
    /\ panic = "none"
    /\ value \in [Sems -> 0..MaxValue]
    /\ wait_queue = [s \in Sems |-> <<>>]
    /\ wait = [p \in Procs |-> NoWait]
    /\ taken = [s \in Sems |-> 0]

ClientsNext ==
    \/ \E s \in Sems : ClientDown(s) \/ ClientUp(s) \/ ClientTryDown(s)
    \/ \E p \in Clients : ClientKill(p)
    \/ ClientSchedule \/ ClientIdle \/ ClientTick
    \/ ClientDownSched \/ ClientDownWake

ClientsSpec == ClientsInit /\ [][ClientsNext]_clientsVars

-----------------------------------------------------------------------------
\* The fields have their types; a semaphore's value is never negative, whatever
\* order down, try_down and up are called in.
ClientsTypeOK == SchedTypeOK /\ SemTypeOK /\ taken \in [Sems -> Int]

\* The hand-over implements the counting semaphore: a permit that up() passed on
\* to a process that does not run yet still counts as available, and down()
\* never returns without one.
Abstract == INSTANCE WeakSemaphore WITH
    avail <- [s \in Sems |-> value[s] + Cardinality({p \in Procs : Granted(p, s)})],
    trying <- [p \in Procs |-> IF InDown(p) THEN wait[p].sem ELSE NONE]
Implements == Abstract!Spec
=============================================================================
