-------------------------------- MODULE Sched --------------------------------
(***************************************************************************)
(* The scheduler core: kern/schedule/sched.c and the round-robin class of   *)
(* kern/schedule/default_sched.c.                                           *)
(*                                                                          *)
(* The module declares the state sched.c works on and one action operator   *)
(* per function.  ProcLife and the semaphores extend it: each call of      *)
(* wakeup_proc or schedule in the code is a use of WakeupProc or Schedule   *)
(* in an action there.  Every function of sched.c runs with interrupts      *)
(* disabled (local_intr_save), so each is one step, except the loops over   *)
(* the timer list, which are one step per iteration.                        *)
(*                                                                          *)
(* A failing assert() is not a disabled action: it sets "panic", so that    *)
(* "no assertion can fail" is a property of the model.                      *)
(***************************************************************************)
EXTENDS Integers, Sequences, SequencesExt

CONSTANTS
    Procs,            \* the proc_structs there is memory for, idle's included
    Idle,             \* idleproc
    MAX_TIME_SLICE    \* rq->max_time_slice

ASSUME SchedAssumption ==
    /\ Idle \in Procs
    /\ MAX_TIME_SLICE \in Nat \ {0}

VARIABLES
    state,          \* proc->state, "FREE" for memory that holds no proc_struct
    wait_state,     \* proc->wait_state
    time_slice,     \* proc->time_slice
    need_resched,   \* proc->need_resched
    run_list,       \* rq->run_list, head first
    current,        \* the running process
    panic           \* "none", or why the kernel stopped

runVars == <<time_slice, run_list>>
schedVars == <<state, wait_state, time_slice, need_resched, run_list, current, panic>>

States == {"FREE", "UNINIT", "SLEEPING", "RUNNABLE", "ZOMBIE"}
WaitStates == {"NONE", "CHILD", "TIMER", "KSEM", "KBD"}

\* wait_state & WT_INTERRUPTED
Interruptible == {"CHILD", "TIMER", "KBD"}

\* assert(c) of the code; a failing one stops the kernel.
Assert_(c) == panic' = IF c THEN panic ELSE "assert"

OnRunList(p) == p \in Range(run_list)

-----------------------------------------------------------------------------
(* default_sched.c                                                          *)

\* Fault: the slice exceeds the maximum by one.
RefillTooLong(slice) ==
    IF slice = 0 \/ slice > MAX_TIME_SLICE THEN MAX_TIME_SLICE + 1 ELSE slice

\* The slice RR_enqueue gives a process that joins the run queue.
Refill(slice) ==
    IF slice = 0 \/ slice > MAX_TIME_SLICE THEN MAX_TIME_SLICE ELSE slice

\* RR_enqueue: append, refill the slice.  Callers add its assertion, that p is
\* on no list, to their Assert_.
RR_enqueue(p) ==
    /\ run_list' = Append(run_list, p)
    /\ time_slice' = [time_slice EXCEPT ![p] = Refill(@)]

\* Fault: a used-up slice asks for no reschedule.
ProcTickNoResched(p) ==
    LET slice == IF time_slice[p] > 0 THEN time_slice[p] - 1 ELSE 0
    IN  IF p = Idle
        THEN /\ need_resched' = [need_resched EXCEPT ![p] = TRUE]
             /\ UNCHANGED time_slice
        ELSE /\ time_slice' = [time_slice EXCEPT ![p] = slice]
             /\ UNCHANGED need_resched

\* RR_proc_tick, through sched_class_proc_tick: idle always asks for a
\* reschedule, another process when its slice is used up.
ProcTick(p) ==
    LET slice == IF time_slice[p] > 0 THEN time_slice[p] - 1 ELSE 0
    IN  IF p = Idle
        THEN /\ need_resched' = [need_resched EXCEPT ![p] = TRUE]
             /\ UNCHANGED time_slice
        ELSE /\ time_slice' = [time_slice EXCEPT ![p] = slice]
             /\ need_resched' = [need_resched EXCEPT ![p] = @ \/ slice = 0]

-----------------------------------------------------------------------------
(* sched.c                                                                  *)

\* Fault: wakeup_proc enqueues the current process too.
WakeupEnqueuesCurrent(p) == p # Idle

\* wakeup_proc.  A process that is still current (it is between setting its
\* state to SLEEPING and calling schedule) is not enqueued: schedule does it.
WakeupEnqueues(p) == p # current /\ p # Idle
WakeupProc(p) ==
    IF state[p] = "RUNNABLE"
    THEN UNCHANGED <<state, wait_state, run_list, time_slice, panic>>
    ELSE /\ Assert_(state[p] # "ZOMBIE" /\ (WakeupEnqueues(p) => ~OnRunList(p)))
         /\ state' = [state EXCEPT ![p] = "RUNNABLE"]
         /\ wait_state' = [wait_state EXCEPT ![p] = "NONE"]
         /\ IF WakeupEnqueues(p) THEN RR_enqueue(p) ELSE UNCHANGED runVars

\* Fault: schedule requeues the current process whatever its state.
ScheduleRequeuesAny ==
    LET requeue == current # Idle
        queue == IF requeue THEN Append(run_list, current) ELSE run_list
    IN  /\ Assert_(requeue => ~OnRunList(current))
        /\ need_resched' = [need_resched EXCEPT ![current] = FALSE]
        /\ time_slice' = IF requeue
                         THEN [time_slice EXCEPT ![current] = Refill(@)]
                         ELSE time_slice
        /\ run_list' = IF queue = <<>> THEN queue ELSE Tail(queue)
        /\ current' = IF queue = <<>> THEN Idle ELSE Head(queue)
        /\ UNCHANGED <<state, wait_state>>

\* schedule, with proc_run: requeue current if it can run, take the head of the
\* run queue, or idle when the queue is empty.
Schedule ==
    LET requeue == state[current] = "RUNNABLE" /\ current # Idle
        queue == IF requeue THEN Append(run_list, current) ELSE run_list
    IN  /\ Assert_(requeue => ~OnRunList(current))
        /\ need_resched' = [need_resched EXCEPT ![current] = FALSE]
        /\ time_slice' = IF requeue
                         THEN [time_slice EXCEPT ![current] = Refill(@)]
                         ELSE time_slice
        /\ run_list' = IF queue = <<>> THEN queue ELSE Tail(queue)
        /\ current' = IF queue = <<>> THEN Idle ELSE Head(queue)
        /\ UNCHANGED <<state, wait_state>>

-----------------------------------------------------------------------------
SchedTypeOK ==
    /\ state \in [Procs -> States]
    /\ wait_state \in [Procs -> WaitStates]
    /\ time_slice \in [Procs -> 0..MAX_TIME_SLICE]
    /\ need_resched \in [Procs -> BOOLEAN]
    /\ run_list \in Seq(Procs)
    /\ current \in Procs
    /\ panic \in {"none", "assert", "init_main assert", "initproc exit"}

\* Nothing is queued twice, and the run queue holds exactly the processes that
\* could run but are not running: none is lost (it would never run again), none
\* that sleeps or is dead is there (it would be run in mid-wait or after its
\* stack was freed).  wakeup_proc, schedule, do_exit and do_sleep keep this
\* between them although each of them touches only its own part of it.
RunQueueExact ==
    /\ \A i, j \in 1..Len(run_list) : run_list[i] = run_list[j] => i = j
    /\ \A p \in Procs : OnRunList(p) <=> /\ state[p] = "RUNNABLE"
                                         /\ p # current
                                         /\ p # Idle

\* No assertion fails: that a woken process is no zombie (wakeup_proc) and on no
\* list (RR_enqueue), that the timer at the head has ticks left and its process
\* an interruptible wait (run_timer_list), that a timer is linked once
\* (add_timer), that a process that forks is not waiting (do_fork).  Each is
\* about state that other functions, in other processes, left behind.
NoAssertFails == panic # "assert"
=============================================================================
