------------------------------ MODULE Semaphore ------------------------------
(***************************************************************************)
(* The semaphores of kern/sync/sem.c, with the wait queues of wait.c, on    *)
(* top of the scheduler core.                                               *)
(*                                                                          *)
(* up() hands the semaphore over: it increments the value only if nobody    *)
(* waits, else it dequeues the first waiter and wakes it, and that process  *)
(* returns from its down() without looking at the value again.              *)
(*                                                                          *)
(* down() blocks in three steps: the entry, with interrupts off; schedule();*)
(* and, once the process runs again, wait_current_del.  Interrupts are on   *)
(* between them.  wait[p] is the wait_t on p's stack with the point its     *)
(* down() has reached, so Down is called by a client and DownSched and      *)
(* DownWake are the same for all of them.  A client goes on when its down() *)
(* has returned (InDown is false).                                          *)
(***************************************************************************)
EXTENDS Sched

CONSTANTS
    Sems,    \* the semaphores
    NONE     \* no semaphore

ASSUME SemsAssumption == NONE \notin Sems

VARIABLES
    value,         \* sem->value
    wait_queue,    \* sem->wait_queue, the processes waiting, first one first
    wait           \* [at, sem, flags]: where down() is, wait->wait_queue and
                   \* wait->wakeup_flags

semVars == <<value, wait_queue, wait>>

Waits == [at : {"out", "sched", "wake"}, sem : Sems \cup {NONE}, flags : {"INTERRUPTED", "KSEM"}]

\* No call of down() is under way.
NoWait == [at |-> "out", sem |-> NONE, flags |-> "INTERRUPTED"]

InDown(p) == wait[p].at # "out"

-----------------------------------------------------------------------------
\* Fault: up() counts the permit that it also hands to the waiter.
UpCountsToo(s) ==
    LET queue == wait_queue[s]
        p == Head(queue)
    IN  /\ value' = [value EXCEPT ![s] = @ + 1]
        /\ IF queue = <<>>
           THEN UNCHANGED <<state, wait_state, time_slice, run_list, panic, wait_queue, wait>>
           ELSE /\ wait_queue' = [wait_queue EXCEPT ![s] = Tail(queue)]
                /\ wait' = [wait EXCEPT ![p].flags = "KSEM"]
                /\ WakeupProc(p)

\* up(s), by any process.
Up(s) ==
    LET queue == wait_queue[s]
        p == Head(queue)
    IN  CASE queue = <<>> ->
               /\ value' = [value EXCEPT ![s] = @ + 1]
               /\ UNCHANGED <<state, wait_state, time_slice, run_list, panic, wait_queue, wait>>
          [] queue # <<>> /\ wait_state[p] = "KSEM" /\ wait[p].sem = s ->
               /\ wait_queue' = [wait_queue EXCEPT ![s] = Tail(queue)]
               /\ wait' = [wait EXCEPT ![p].flags = "KSEM"]
               /\ WakeupProc(p)
               /\ UNCHANGED value
          [] OTHER ->
               /\ Assert_(FALSE)
               /\ UNCHANGED <<state, wait_state, time_slice, run_list, semVars>>

\* Fault: the value is tested and not decremented.
DownKeepsValue(s) ==
    IF value[s] > 0
    THEN UNCHANGED <<state, wait_state, semVars>>
    ELSE /\ state' = [state EXCEPT ![current] = "SLEEPING"]
         /\ wait_state' = [wait_state EXCEPT ![current] = "KSEM"]
         /\ wait' = [wait EXCEPT ![current] = [at |-> "sched", sem |-> s, flags |-> "INTERRUPTED"]]
         /\ wait_queue' = [wait_queue EXCEPT ![s] = Append(@, current)]
         /\ UNCHANGED value

\* The entry of down(s) by the current process: take a permit, or queue up.
Down(s) ==
    IF value[s] > 0
    THEN /\ value' = [value EXCEPT ![s] = @ - 1]
         /\ UNCHANGED <<state, wait_state, wait_queue, wait>>
    ELSE /\ state' = [state EXCEPT ![current] = "SLEEPING"]
         /\ wait_state' = [wait_state EXCEPT ![current] = "KSEM"]
         /\ wait' = [wait EXCEPT ![current] = [at |-> "sched", sem |-> s, flags |-> "INTERRUPTED"]]
         /\ wait_queue' = [wait_queue EXCEPT ![s] = Append(@, current)]
         /\ UNCHANGED value

DownSched ==
    /\ wait[current].at = "sched"
    /\ Schedule
    /\ wait' = [wait EXCEPT ![current].at = "wake"]
    /\ UNCHANGED <<value, wait_queue>>

\* wait_current_del and the assertion on the flags.
DownWake ==
    /\ wait[current].at = "wake"
    /\ wait_queue' = [wait_queue EXCEPT ![wait[current].sem] =
                        IF current \in Range(@)
                        THEN RemoveAt(@, CHOOSE i \in 1..Len(@) : @[i] = current)
                        ELSE @]
    /\ Assert_(wait[current].flags = "KSEM")
    /\ wait' = [wait EXCEPT ![current] = NoWait]
    /\ UNCHANGED <<state, wait_state, time_slice, need_resched, run_list, current, value>>

\* try_down(s): TRUE if it took a permit.
TryDown(s) ==
    /\ value' = [value EXCEPT ![s] = IF @ > 0 THEN @ - 1 ELSE @]
    /\ UNCHANGED <<wait_queue, wait>>

-----------------------------------------------------------------------------
SemTypeOK ==
    /\ value \in [Sems -> Nat]
    /\ wait_queue \in [Sems -> Seq(Procs)]
    /\ wait \in [Procs -> Waits]

\* p is in down(s) and no up() has picked it yet, or one has.
WaitsFor(p, s) == InDown(p) /\ wait[p].sem = s /\ wait[p].flags = "INTERRUPTED"
Granted(p, s) == InDown(p) /\ wait[p].sem = s /\ wait[p].flags = "KSEM"

\* The wait queues hold, once each, exactly the processes that wait, and these
\* sleep: in particular a process woken by up() but not yet running again is
\* on no queue, so no second up() is spent on it, and none that waits is
\* runnable, so that down() cannot return without an up().  Nobody waits for a
\* semaphore that is available: no later caller overtakes a process in the queue.
\* The assertions of up() and wakeup_proc on the process they wake hold.
WaitQueueExact ==
    /\ NoAssertFails
    /\ \A s \in Sems :
          /\ \A i, j \in 1..Len(wait_queue[s]) :
                wait_queue[s][i] = wait_queue[s][j] => i = j
          /\ \A p \in Procs : p \in Range(wait_queue[s]) <=> WaitsFor(p, s)
          /\ \A p \in Procs : WaitsFor(p, s) =>
                state[p] = "SLEEPING" /\ wait_state[p] = "KSEM"
          /\ value[s] > 0 => wait_queue[s] = <<>>
=============================================================================
