----------------------------- MODULE Philosopher -----------------------------
(***************************************************************************)
(* What the two kinds of philosophers of kern/sync/check_sync.c share: a    *)
(* kernel thread that thinks (sleeps), takes its forks, eats (sleeps) and   *)
(* puts the forks back, TIMES times, and the timer interrupts it runs       *)
(* under.  PhilSema and PhilCondvar say how the forks are taken.            *)
(*                                                                          *)
(* Philosopher i is the thread i.  pc[i] is the next thing it does:         *)
(*   loop, nap_think, take, ..., eat, nap_eat, put, ..., quit, dead         *)
(* where "eat" is reached when phi_take_forks has returned and "loop" when  *)
(* phi_put_forks has.  The threads are kernel code: they are not preempted. *)
(* A sleep ends at any time: which timer expires when is Timers' subject.   *)
(***************************************************************************)
EXTENDS Semaphore

CONSTANTS
    N,        \* the number of philosophers
    TIMES     \* how often each of them eats

ASSUME PhilAssumption ==
    /\ N \in Nat /\ N >= 2
    /\ TIMES \in Nat
    /\ Procs = (0..(N - 1)) \cup {Idle}
    /\ Idle \notin 0..(N - 1)

VARIABLES
    phil,     \* state_sema or state_condvar: "THINKING", "HUNGRY", "EATING"
    iter,     \* meals begun
    pc

philVars == <<phil, iter, pc>>

Phils == 0..(N - 1)
LEFT(i) == (i - 1 + N) % N
RIGHT(i) == (i + 1) % N

\* The current thread is at l, and the down() it called last has returned.
At(l) == current # Idle /\ pc[current] = l /\ ~InDown(current)
Goto(l) == pc' = [pc EXCEPT ![current] = l]

-----------------------------------------------------------------------------
\* do_sleep(SLEEP_TIME), up to its schedule().
DoSleep ==
    /\ state' = [state EXCEPT ![current] = "SLEEPING"]
    /\ wait_state' = [wait_state EXCEPT ![current] = "TIMER"]
    /\ UNCHANGED <<time_slice, need_resched, run_list, current, panic, semVars>>

Think ==
    /\ At("loop")
    /\ iter[current] < TIMES
    /\ iter' = [iter EXCEPT ![current] = @ + 1]
    /\ DoSleep
    /\ Goto("nap_think")
    /\ UNCHANGED phil

Eat ==
    /\ At("eat")
    /\ DoSleep
    /\ Goto("nap_eat")
    /\ UNCHANGED <<phil, iter>>

\* schedule() in do_sleep.
Nap ==
    /\ \/ At("nap_think") /\ Goto("take")
       \/ At("nap_eat") /\ Goto("put")
    /\ Schedule
    /\ UNCHANGED <<semVars, phil, iter>>

\* The function returns: do_exit, and its schedule().
Quit ==
    /\ At("loop")
    /\ iter[current] >= TIMES
    /\ state' = [state EXCEPT ![current] = "ZOMBIE"]
    /\ Goto("quit")
    /\ UNCHANGED <<wait_state, time_slice, need_resched, run_list, current, panic,
                   semVars, phil, iter>>

QuitSched ==
    /\ At("quit")
    /\ Schedule
    /\ Goto("dead")
    /\ UNCHANGED <<semVars, phil, iter>>

Blocked == (DownSched \/ DownWake) /\ UNCHANGED philVars

-----------------------------------------------------------------------------
\* run_timer_list wakes a sleeper, and ticks the current process.
TimerExpires(p) ==
    /\ wait_state[p] = "TIMER"
    /\ WakeupProc(p)
    /\ UNCHANGED <<need_resched, current, semVars, philVars>>

Tick ==
    /\ ProcTick(current)
    /\ UNCHANGED <<state, wait_state, run_list, current, panic, semVars, philVars>>

CpuIdle ==
    /\ current = Idle /\ need_resched[Idle]
    /\ Schedule
    /\ UNCHANGED <<semVars, philVars>>

\* check_sync has started the threads, in the order of their numbers.
PhilInit ==
    /\ state = [p \in Procs |-> "RUNNABLE"]
    /\ wait_state = [p \in Procs |-> "NONE"]
    /\ time_slice = [p \in Procs |-> IF p = Idle THEN 0 ELSE MAX_TIME_SLICE]
    /\ need_resched = [p \in Procs |-> p = Idle]
    /\ run_list = [k \in 1..N |-> k - 1]
    /\ current = Idle
    /\ panic = "none"
    /\ wait_queue = [s \in Sems |-> <<>>]
    /\ wait = [p \in Procs |-> NoWait]
    /\ phil = [i \in Phils |-> "THINKING"]
    /\ iter = [i \in Phils |-> 0]
    /\ pc = [i \in Phils |-> "loop"]

PhilStep == Think \/ Eat \/ Nap \/ Quit \/ QuitSched \/ Blocked

-----------------------------------------------------------------------------
\* Philosopher i holds its forks: phi_take_forks has returned and phi_put_forks
\* has not begun.
Eats(i) == pc[i] \in {"eat", "nap_eat", "put"} /\ ~(pc[i] = "eat" /\ InDown(i))

\* Two neighbours never eat at the same time.  The table of states alone is not
\* what keeps them apart: a philosopher whose down() returned too early would
\* eat with its entry still HUNGRY.
NeighboursNeverEat == \A i \in Phils : ~(Eats(i) /\ Eats(RIGHT(i)))

\* Everybody eats TIMES times and quits: no deadlock, no lost wakeup, no
\* philosopher overlooked by the neighbours that put their forks back.
AllQuit == <>(\A i \in Phils : pc[i] = "dead")
=============================================================================
