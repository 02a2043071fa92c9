------------------------------- MODULE ProcLife ------------------------------
(***************************************************************************)
(* The life of a process: do_fork, do_exit, do_wait, do_kill, do_sleep and  *)
(* do_yield of kern/process/proc.c, init_main and cpu_idle, the sleep of    *)
(* dev_stdin_read, the interrupts of the timer and of the console and the   *)
(* exit path of trap() in kern/trap/trap.c.                                 *)
(*                                                                          *)
(* One processor and no preemption inside the kernel: only the current      *)
(* process takes steps, and it loses the processor only in schedule().  The *)
(* interrupts may arrive wherever they are enabled, which                   *)
(* includes the points of a system call between two locked regions: T_SYSCALL*)
(* is a trap gate (idt_init, trap.c:67).  pc[p] says where p's kernel stack *)
(* stands, and a step runs from one such point to the next:                 *)
(*                                                                          *)
(*   user         in user mode                                              *)
(*   fork_wakeup  do_fork, before wakeup_proc (proc.c:566)                  *)
(*   wait_scan    do_wait, at "repeat"                                      *)
(*   wait_sched   do_wait, asleep, before schedule (1058)                   *)
(*   wait_wake    do_wait, in or back from schedule                         *)
(*   sleep_add    do_sleep, in add_timer (interrupts off)                   *)
(*   sleep_sched  do_sleep, timer added, before schedule (1276)             *)
(*   sleep_wake   do_sleep, in or back from schedule                        *)
(*   read_sched   dev_stdin_read, asleep, before schedule (dev_stdin.c:62)  *)
(*   read_wake    dev_stdin_read, in or back from schedule                  *)
(*   exit         do_exit, at the entry                                     *)
(*   exit_parent  do_exit, at 612; a zombie on its own stack                *)
(*   exit_kids    do_exit, in the loop over the children (interrupts off)   *)
(*   exit_sched   do_exit, before schedule (644)                            *)
(*   dead         do_exit's schedule never returns                          *)
(*   trap_ret     trap(), back from trap_dispatch (trap.c:344)              *)
(*   init_fork, init_sync, init_wait, init_resched, init_done: init_main    *)
(*   kthread      a kernel thread, in its function (check_sync.c)           *)
(*   idle         cpu_idle                                                  *)
(*                                                                          *)
(* A pid is the process itself: that live pids are distinct is GetPid's     *)
(* subject.  idle has pid 0, which do_wait takes for "any child".  What a    *)
(* read of the console finds in the buffer is Stdin's subject: here a read   *)
(* that sleeps may sleep again, or return, whenever it is woken.             *)
(***************************************************************************)
EXTENDS Timers, FiniteSets

CONSTANTS
    Init_,         \* initproc
    NULL,          \* the null pointer
    MAX_PROCESS,   \* the limit on nr_process
    Times,         \* the arguments of do_sleep, 0 apart
    Killable,      \* the pids do_kill is called with
    MaxKilled,     \* bound on the processes killed and not yet dead
    SyncThreads    \* how many kernel threads check_sync starts

ASSUME ProcAssumption ==
    /\ Init_ \in Procs \ {Idle}
    /\ NULL \notin Procs
    /\ MAX_PROCESS \in Nat
    /\ Times \subseteq Nat \ {0}
    /\ Killable \subseteq Procs \ {Idle} /\ MaxKilled \in Nat
    /\ SyncThreads \in Nat

VARIABLES
    exiting,             \* proc->flags & PF_EXITING
    parent,              \* proc->parent
    cptr, yptr, optr,    \* youngest child, younger and older sibling
    nr_process,          \* number of linked processes, idle included
    pc,                  \* where each process's kernel stack stands
    kthread,             \* the processes that are threads of the kernel
    waitfor,             \* do_wait's pid argument
    irq                  \* "none"; "timers" in run_timer_list; "input" in
                         \* dev_stdin_write; "return" in the rest of trap() for
                         \* an interrupt that came in user mode

linkVars == <<parent, cptr, yptr, optr, nr_process, kthread>>
vars == <<schedVars, timerVars, linkVars, exiting, pc, waitfor, irq>>

Pcs == {"none", "user", "fork_wakeup", "wait_scan", "wait_sched", "wait_wake",
        "sleep_add", "sleep_sched", "sleep_wake", "read_sched", "read_wake",
        "exit", "exit_parent", "exit_kids", "exit_sched", "dead", "trap_ret",
        "init_fork", "init_sync", "init_wait", "init_resched", "init_done",
        "kthread", "idle"}

\* find_proc(p) # NULL, for a pid the hash table may hold.
Linked(p) == state[p] # "FREE"

\* The current process is at kernel point l, outside the interrupt handlers.
At(l) == pc[current] = l /\ irq \notin {"timers", "input"}
Goto(l) == pc' = [pc EXCEPT ![current] = l]

-----------------------------------------------------------------------------
(* do_fork.                                                                 *)

\* alloc_proc's fields and set_links for a new child c of the current process.
SetLinks(c) ==
    /\ parent' = [parent EXCEPT ![c] = current]
    /\ optr' = [optr EXCEPT ![c] = cptr[current]]
    /\ yptr' = [q \in Procs |-> CASE q = c -> NULL
                                  [] q = cptr[current] -> c
                                  [] OTHER -> yptr[q]]
    /\ cptr' = [cptr EXCEPT ![c] = NULL, ![current] = c]
    /\ nr_process' = nr_process + 1

\* The part of do_fork before wakeup_proc; alloc_proc takes any free memory.
\* copy_thread makes the child start at "start": in user mode (forkret), or in
\* the function of a kernel thread (kernel_thread_entry).
ForkChild(c, start) ==
    /\ nr_process < MAX_PROCESS
    /\ state[c] = "FREE"
    /\ Assert_(wait_state[current] = "NONE")
    /\ SetLinks(c)
    /\ state' = [state EXCEPT ![c] = "UNINIT"]
    /\ wait_state' = [wait_state EXCEPT ![c] = "NONE"]
    /\ time_slice' = [time_slice EXCEPT ![c] = 0]
    /\ need_resched' = [need_resched EXCEPT ![c] = FALSE]
    /\ exiting' = [exiting EXCEPT ![c] = FALSE]
    /\ kthread' = IF start = "kthread" THEN kthread \cup {c} ELSE kthread
    /\ pc' = [pc EXCEPT ![c] = start, ![current] = "fork_wakeup"]
    /\ UNCHANGED <<run_list, current, timerVars, waitfor, irq>>

Fork == At("user") /\ \E c \in Procs : ForkChild(c, "user")

\* A system call that leaves this state alone: do_fork returning -E_NO_FREE_PROC
\* or -E_NO_MEM, do_kill -E_KILLED or -E_INVAL, do_sleep(0), getpid, ...
SyscallNoEffect ==
    /\ At("user")
    /\ Goto("trap_ret")
    /\ UNCHANGED <<schedVars, timerVars, linkVars, exiting, waitfor, irq>>

\* The child is the one set_links has just made the youngest.
ForkWakeup ==
    /\ At("fork_wakeup")
    /\ WakeupProc(cptr[current])
    /\ Goto(IF current = Init_ THEN "init_sync" ELSE "trap_ret")
    /\ UNCHANGED <<need_resched, current, timerVars, linkVars, exiting, waitfor, irq>>

-----------------------------------------------------------------------------
(* do_yield, do_kill.                                                       *)

Yield ==
    /\ At("user")
    /\ need_resched' = [need_resched EXCEPT ![current] = TRUE]
    /\ Goto("trap_ret")
    /\ UNCHANGED <<state, wait_state, time_slice, run_list, current, panic,
                   timerVars, linkVars, exiting, waitfor, irq>>

Dying == {p \in Procs : exiting[p] /\ state[p] # "ZOMBIE"}

\* do_kill(p): a flag, and a wakeup if the wait may be interrupted.
Kill(p) ==
    /\ At("user")
    /\ Cardinality(Dying) < MaxKilled
    /\ Linked(p) /\ ~exiting[p]
    /\ exiting' = [exiting EXCEPT ![p] = TRUE]
    /\ IF wait_state[p] \in Interruptible
       THEN WakeupProc(p)
       ELSE UNCHANGED <<state, wait_state, run_list, time_slice, panic>>
    /\ Goto("trap_ret")
    /\ UNCHANGED <<need_resched, current, timerVars, linkVars, waitfor, irq>>

-----------------------------------------------------------------------------
(* do_sleep.                                                                *)

SetSleeping(why) ==
    /\ state' = [state EXCEPT ![current] = "SLEEPING"]
    /\ wait_state' = [wait_state EXCEPT ![current] = why]

Sleep(time) ==
    /\ At("user") \/ At("kthread")
    /\ SetSleeping("TIMER")
    /\ AddTimerBegin(current, time)
    /\ Goto("sleep_add")
    /\ UNCHANGED <<time_slice, need_resched, run_list, current,
                   linkVars, exiting, waitfor, irq>>

SleepAdd ==
    /\ At("sleep_add")
    /\ \/ AddTimerPass /\ UNCHANGED pc
       \/ AddTimerLink(current) /\ Goto("sleep_sched")
    /\ UNCHANGED <<state, wait_state, time_slice, need_resched, run_list, current,
                   linkVars, exiting, waitfor, irq>>

\* schedule() from a kernel point; the process will be back at "l".
ScheduleTo(l) ==
    /\ Schedule
    /\ Goto(l)
    /\ irq' = "none"
    /\ UNCHANGED <<timerVars, linkVars, exiting, waitfor>>

SleepSched == At("sleep_sched") /\ ScheduleTo("sleep_wake")

SleepWake ==
    /\ At("sleep_wake")
    /\ DelTimer(current)
    /\ Goto(IF current \in kthread THEN "kthread" ELSE "trap_ret")
    /\ UNCHANGED <<schedVars, linkVars, exiting, waitfor, irq>>

-----------------------------------------------------------------------------
(* read of the console.                                                     *)

\* dev_stdin_read finds the buffer empty: wait_current_set.  (A read that finds
\* what it wants is a SyscallNoEffect.)
ReadSleep ==
    /\ At("user")
    /\ SetSleeping("KBD")
    /\ Goto("read_sched")
    /\ UNCHANGED <<time_slice, need_resched, run_list, current, panic,
                   timerVars, linkVars, exiting, waitfor, irq>>

ReadSched == At("read_sched") /\ ScheduleTo("read_wake")

\* Woken by a kill, or by a character that was the last one wanted: return.
ReadReturn ==
    /\ At("read_wake")
    /\ Goto("trap_ret")
    /\ UNCHANGED <<schedVars, timerVars, linkVars, exiting, waitfor, irq>>

\* Woken by a character, and more are wanted than there are, or another reader
\* took it: "try_again" sleeps again, and does not look at PF_EXITING.
ReadAgain ==
    /\ At("read_wake")
    /\ SetSleeping("KBD")
    /\ Goto("read_sched")
    /\ UNCHANGED <<time_slice, need_resched, run_list, current, panic,
                   timerVars, linkVars, exiting, waitfor, irq>>

-----------------------------------------------------------------------------
(* do_wait.                                                                 *)

Wait(pid) ==
    /\ At("user")
    /\ waitfor' = [waitfor EXCEPT ![current] = pid]
    /\ Goto("wait_scan")
    /\ UNCHANGED <<schedVars, timerVars, linkVars, exiting, irq>>

\* The first zombie of a list of siblings, from the youngest to the oldest.
FirstZombie ==
    LET scan[q \in Procs \cup {NULL}] ==
            IF q = NULL THEN NULL ELSE IF state[q] = "ZOMBIE" THEN q ELSE scan[optr[q]]
    IN  scan[cptr[current]]

\* The loops at "repeat": is there a child to wait for, is it z that is dead?
HasKid ==
    IF waitfor[current] = Idle
    THEN cptr[current] # NULL
    ELSE Linked(waitfor[current]) /\ parent[waitfor[current]] = current
FoundZombie(z) ==
    /\ HasKid
    /\ z = IF waitfor[current] = Idle THEN FirstZombie ELSE waitfor[current]
    /\ state[z] = "ZOMBIE"

\* remove_links(z).
RemoveLinks(z) ==
    /\ yptr' = [q \in Procs |-> CASE q = z -> NULL
                                  [] q = optr[z] -> yptr[z]
                                  [] OTHER -> yptr[q]]
    /\ optr' = [q \in Procs |-> CASE q = z -> NULL
                                  [] q = yptr[z] -> optr[z]
                                  [] OTHER -> optr[q]]
    /\ cptr' = [q \in Procs |-> CASE q = z -> NULL
                                  [] q = parent[z] /\ yptr[z] = NULL -> optr[z]
                                  [] OTHER -> cptr[q]]
    /\ parent' = [parent EXCEPT ![z] = NULL]
    /\ nr_process' = nr_process - 1

\* "found": the child's proc_struct and kernel stack are freed.
WaitFound ==
    /\ At("wait_scan")
    /\ \E z \in Procs :
         /\ FoundZombie(z)
         /\ RemoveLinks(z)
         /\ kthread' = kthread \ {z}
         /\ state' = [state EXCEPT ![z] = "FREE"]
         /\ time_slice' = [time_slice EXCEPT ![z] = 0]
         /\ need_resched' = [need_resched EXCEPT ![z] = FALSE]
         /\ exiting' = [exiting EXCEPT ![z] = FALSE]
         /\ waitfor' = [waitfor EXCEPT ![z] = Idle, ![current] = Idle]
         /\ pc' = [pc EXCEPT ![z] = "none",
                            ![current] = IF current = Init_ THEN "init_resched" ELSE "trap_ret"]
    /\ UNCHANGED <<wait_state, run_list, current, panic, timerVars, irq>>

\* Children, none of them dead: sleep until one exits.
WaitSleep ==
    /\ At("wait_scan")
    /\ HasKid /\ ~ \E z \in Procs : FoundZombie(z)
    /\ SetSleeping("CHILD")
    /\ Goto("wait_sched")
    /\ UNCHANGED <<time_slice, need_resched, run_list, current, panic,
                   timerVars, linkVars, exiting, waitfor, irq>>

\* -E_BAD_PROC, which ends init_main's loop.
WaitNoKid ==
    /\ At("wait_scan")
    /\ ~HasKid
    /\ waitfor' = [waitfor EXCEPT ![current] = Idle]
    /\ Goto(IF current = Init_ THEN "init_done" ELSE "trap_ret")
    /\ UNCHANGED <<schedVars, timerVars, linkVars, exiting, irq>>

WaitSched == At("wait_sched") /\ ScheduleTo("wait_wake")

WaitWake ==
    /\ At("wait_wake")
    /\ Goto(IF exiting[current] THEN "exit" ELSE "wait_scan")
    /\ UNCHANGED <<schedVars, timerVars, linkVars, exiting, waitfor, irq>>

-----------------------------------------------------------------------------
(* do_exit.                                                                 *)

\* sys_exit, a trap that kills the process, or a kernel thread's function
\* returning into kernel_thread_entry.
UserExit ==
    /\ At("user") \/ At("kthread")
    /\ Goto("exit")
    /\ UNCHANGED <<schedVars, timerVars, linkVars, exiting, waitfor, irq>>

\* To the point where the process is a zombie that still runs.
Exit ==
    /\ At("exit")
    /\ IF current = Init_
       THEN panic' = "initproc exit" /\ UNCHANGED <<state, pc>>
       ELSE /\ state' = [state EXCEPT ![current] = "ZOMBIE"]
            /\ Goto("exit_parent")
            /\ UNCHANGED panic
    /\ UNCHANGED <<wait_state, time_slice, need_resched, run_list, current,
                   timerVars, linkVars, exiting, waitfor, irq>>

\* Fault: a parent in do_wait is not woken.
ExitParentNoWakeup ==
    /\ At("exit_parent")
    /\ Goto("exit_kids")
    /\ UNCHANGED <<schedVars, timerVars, linkVars, exiting, waitfor, irq>>

ExitParent ==
    /\ At("exit_parent")
    /\ IF wait_state[parent[current]] = "CHILD"
       THEN WakeupProc(parent[current])
       ELSE UNCHANGED <<state, wait_state, run_list, time_slice, panic>>
    /\ Goto("exit_kids")
    /\ UNCHANGED <<need_resched, current, timerVars, linkVars, exiting, waitfor, irq>>

\* Fault: initproc is not told of a child that is dead already.
ExitKidNoWakeup ==
    LET kid == cptr[current]
    IN  /\ At("exit_kids")
        /\ kid # NULL
        /\ parent' = [parent EXCEPT ![kid] = Init_]
        /\ optr' = [optr EXCEPT ![kid] = cptr[Init_]]
        /\ yptr' = [q \in Procs |-> CASE q = kid -> NULL
                                      [] q = cptr[Init_] -> kid
                                      [] OTHER -> yptr[q]]
        /\ cptr' = [cptr EXCEPT ![current] = optr[kid], ![Init_] = kid]
        /\ UNCHANGED <<schedVars, nr_process, kthread, timerVars, exiting, pc, waitfor, irq>>

\* One iteration of the loop that gives the children to initproc.
ExitKid ==
    LET kid == cptr[current]
    IN  /\ At("exit_kids")
        /\ kid # NULL
        /\ parent' = [parent EXCEPT ![kid] = Init_]
        /\ optr' = [optr EXCEPT ![kid] = cptr[Init_]]
        /\ yptr' = [q \in Procs |-> CASE q = kid -> NULL
                                      [] q = cptr[Init_] -> kid
                                      [] OTHER -> yptr[q]]
        /\ cptr' = [cptr EXCEPT ![current] = optr[kid], ![Init_] = kid]
        /\ IF state[kid] = "ZOMBIE" /\ wait_state[Init_] = "CHILD"
           THEN WakeupProc(Init_)
           ELSE UNCHANGED <<state, wait_state, run_list, time_slice, panic>>
        /\ UNCHANGED <<need_resched, current, nr_process, kthread, timerVars, exiting, pc,
                       waitfor, irq>>

\* Fault: the loop may end with children left.
ExitKidsDoneEarly ==
    /\ At("exit_kids")
    /\ Goto("exit_sched")
    /\ UNCHANGED <<schedVars, timerVars, linkVars, exiting, waitfor, irq>>

ExitKidsDone ==
    /\ At("exit_kids")
    /\ cptr[current] = NULL
    /\ Goto("exit_sched")
    /\ UNCHANGED <<schedVars, timerVars, linkVars, exiting, waitfor, irq>>

ExitSched == At("exit_sched") /\ ScheduleTo("dead")

-----------------------------------------------------------------------------
(* trap(), the interrupts, cpu_idle and init_main.                          *)

\* The end of trap() for a trap from user mode.  It does not look at
\* PF_EXITING again after schedule().
TrapRetKilled ==
    /\ At("trap_ret")
    /\ exiting[current]
    /\ Goto("exit")
    /\ UNCHANGED <<schedVars, timerVars, linkVars, exiting, waitfor, irq>>

TrapRetSchedule ==
    /\ At("trap_ret")
    /\ ~exiting[current] /\ need_resched[current]
    /\ ScheduleTo("user")

\* Fault: the return to user mode does not look at PF_EXITING.
TrapRetUserUnchecked ==
    /\ At("trap_ret")
    /\ ~need_resched[current]
    /\ Goto("user")
    /\ irq' = "none"
    /\ UNCHANGED <<schedVars, timerVars, linkVars, exiting, waitfor>>

TrapRetUser ==
    /\ At("trap_ret")
    /\ ~exiting[current] /\ ~need_resched[current]
    /\ Goto("user")
    /\ irq' = "none"
    /\ UNCHANGED <<schedVars, timerVars, linkVars, exiting, waitfor>>

\* Interrupts are on, and no interrupt is being handled.
InterruptsOn == irq = "none" /\ pc[current] \notin {"sleep_add", "exit_kids"}

\* The timer interrupt: run_timer_list's head, its loop, and the tick of the
\* current process, after which a tick from user mode goes on in trap().
Tick ==
    /\ InterruptsOn
    /\ RunTimerBegin
    /\ irq' = "timers"
    /\ UNCHANGED <<state, wait_state, time_slice, need_resched, run_list, current,
                   linkVars, exiting, pc, waitfor>>

TickTimer ==
    /\ irq = "timers"
    /\ RunTimerStep
    /\ UNCHANGED <<need_resched, current, linkVars, exiting, pc, waitfor, irq>>

\* An interrupt from user mode goes on in trap(), one from the kernel is over.
IrqReturn ==
    IF pc[current] = "user"
    THEN irq' = "return" /\ Goto("trap_ret")
    ELSE irq' = "none" /\ UNCHANGED pc

TickEnd ==
    /\ irq = "timers"
    /\ ~RunTimerExpired
    /\ ProcTick(current)
    /\ IrqReturn
    /\ UNCHANGED <<state, wait_state, run_list, current, panic,
                   timerVars, linkVars, exiting, waitfor>>

\* The interrupt of the keyboard or the serial port: dev_stdin_write, whose
\* wakeup_queue wakes every reader, one at a time.
NoReaders == \A p \in Procs : wait_state[p] # "KBD"

Input ==
    /\ InterruptsOn
    /\ IF NoReaders THEN IrqReturn ELSE irq' = "input" /\ UNCHANGED pc
    /\ UNCHANGED <<schedVars, timerVars, linkVars, exiting, waitfor>>

InputWakeup ==
    /\ irq = "input"
    /\ \E p \in Procs : wait_state[p] = "KBD" /\ WakeupProc(p)
    /\ UNCHANGED <<need_resched, current, timerVars, linkVars, exiting, pc, waitfor, irq>>

InputEnd ==
    /\ irq = "input"
    /\ NoReaders
    /\ IrqReturn
    /\ UNCHANGED <<schedVars, timerVars, linkVars, exiting, waitfor>>

CpuIdle == At("idle") /\ need_resched[Idle] /\ ScheduleTo("idle")

\* kernel_thread(user_main) succeeds: at boot there is memory for it.  What
\* user_main does before it is a user process (exec of the shell) blocks nowhere.
InitFork == At("init_fork") /\ \E c \in Procs : ForkChild(c, "user")

\* check_sync starts its threads; initproc runs on until it waits.
InitSync ==
    /\ At("init_sync")
    /\ Cardinality(kthread) < SyncThreads
    /\ \E c \in Procs : ForkChild(c, "kthread")

InitWait ==
    /\ At("init_wait") \/ (At("init_sync") /\ Cardinality(kthread) >= SyncThreads)
    /\ Goto("wait_scan")
    /\ UNCHANGED <<schedVars, timerVars, linkVars, exiting, waitfor, irq>>

InitResched == At("init_resched") /\ ScheduleTo("init_wait")

\* The assertions at the end of init_main, which then returns into do_exit.
InitDone ==
    /\ At("init_done")
    /\ panic' = IF /\ cptr[Init_] = NULL /\ yptr[Init_] = NULL /\ optr[Init_] = NULL
                  /\ nr_process = 2
                  /\ \A p \in Procs \ {Idle, Init_} : ~Linked(p)
                THEN "initproc exit" ELSE "init_main assert"
    /\ UNCHANGED <<state, wait_state, time_slice, need_resched, run_list, current,
                   timerVars, linkVars, exiting, pc, waitfor, irq>>

-----------------------------------------------------------------------------
\* proc_init has run: idle is current, initproc waits in the run queue.
Init ==
    /\ state = [p \in Procs |-> IF p \in {Idle, Init_} THEN "RUNNABLE" ELSE "FREE"]
    /\ wait_state = [p \in Procs |-> "NONE"]
    /\ time_slice = [p \in Procs |-> IF p = Init_ THEN MAX_TIME_SLICE ELSE 0]
    /\ need_resched = [p \in Procs |-> p = Idle]
    /\ run_list = <<Init_>>
    /\ current = Idle
    /\ panic = "none"
    /\ timer_list = <<>>
    /\ walk = [le |-> 1, expires |-> 0]
    /\ left = [p \in Procs |-> 0]
    /\ exiting = [p \in Procs |-> FALSE]
    /\ parent = [p \in Procs |-> IF p = Init_ THEN Idle ELSE NULL]
    /\ cptr = [p \in Procs |-> IF p = Idle THEN Init_ ELSE NULL]
    /\ yptr = [p \in Procs |-> NULL]
    /\ optr = [p \in Procs |-> NULL]
    /\ nr_process = 2
    /\ kthread = {}
    /\ pc = [p \in Procs |-> CASE p = Idle -> "idle"
                               [] p = Init_ -> "init_fork"
                               [] OTHER -> "none"]
    /\ waitfor = [p \in Procs |-> Idle]
    /\ irq = "none"

\* What a process in user mode, or a thread in its function, may ask for.
UserStep ==
    \/ Fork \/ Yield \/ UserExit \/ SyscallNoEffect \/ ReadSleep
    \/ \E p \in Killable : Kill(p)
    \/ \E t \in Times : Sleep(t)
    \/ \E p \in Procs : Wait(p)

\* The kernel's own progress on behalf of the current process.
KernelStep ==
    \/ ForkWakeup \/ SleepAdd \/ SleepSched \/ SleepWake
    \/ ReadSched \/ ReadReturn \/ ReadAgain
    \/ WaitFound \/ WaitSleep \/ WaitNoKid \/ WaitSched \/ WaitWake
    \/ Exit \/ ExitParent \/ ExitKid \/ ExitKidsDone \/ ExitSched
    \/ TrapRetKilled \/ TrapRetSchedule \/ TrapRetUser
    \/ CpuIdle \/ InitFork \/ InitSync \/ InitWait \/ InitResched \/ InitDone

\* A kernel thread is kernel code too.
KthreadStep == pc[current] = "kthread" /\ UserStep

IrqStep == TickTimer \/ TickEnd \/ InputWakeup \/ InputEnd

Running == panic = "none"

\* panic() ends in the kernel monitor.
Halted == ~Running /\ UNCHANGED vars

Next ==
    \/ Running /\ UserStep
    \/ Running /\ KernelStep
    \/ Running /\ Tick
    \/ Running /\ Input
    \/ Running /\ IrqStep
    \/ Halted

Spec == Init /\ [][Next]_vars

\* The processor executes kernel code and interrupt handlers in finite time,
\* and the 100 Hz clock keeps ticking.  A tick is delivered as soon as
\* interrupts are on again, and the interrupted kernel code goes on between two
\* ticks: strong fairness for both.  Nothing is assumed of
\* user code, and nobody need ever type.
Fairness ==
    /\ SF_vars(Running /\ (KernelStep \/ KthreadStep))
    /\ SF_vars(Running /\ Tick)
    /\ WF_vars(Running /\ IrqStep)

FairSpec == Spec /\ Fairness

-----------------------------------------------------------------------------
\* The fields of every proc_struct and of the timer list have their types, in
\* every interleaving of system calls and clock interrupts: no timer's count
\* goes below 0, and current is a process that exists.
TypeOK ==
    /\ SchedTypeOK /\ TimersTypeOK
    /\ exiting \in [Procs -> BOOLEAN]
    /\ parent \in [Procs -> Procs \cup {NULL}]
    /\ cptr \in [Procs -> Procs \cup {NULL}]
    /\ yptr \in [Procs -> Procs \cup {NULL}]
    /\ optr \in [Procs -> Procs \cup {NULL}]
    /\ nr_process \in Int
    /\ kthread \subseteq Procs
    /\ pc \in [Procs -> Pcs]
    /\ waitfor \in [Procs -> Procs]
    /\ irq \in {"none", "timers", "input", "return"}

\* The children do_wait's loop visits: cptr, and optr from there on.
Offspring(p) ==
    LET older[q \in Procs \cup {NULL}] ==
            IF q = NULL THEN {} ELSE {q} \cup older[optr[q]]
    IN  older[cptr[p]]

\* The cptr/optr lists that set_links, remove_links and the loop of do_exit
\* splice hold exactly the live children of every process, in the middle of
\* that loop too, and nr_process counts the live processes: no child becomes
\* invisible to do_wait, none is freed while a list still names it.  Nobody's
\* parent is gone: do_exit hands every child, zombies and children born in the
\* meantime included, to initproc before it gives up the processor.  So the
\* assertions at the end of init_main hold: when initproc has no child left there
\* is no process but it and idle.
FamilyExact ==
    /\ panic # "init_main assert"
    /\ \A p \in Procs : Linked(p) =>
          Offspring(p) = {q \in Procs : Linked(q) /\ parent[q] = p}
    /\ nr_process = Cardinality({p \in Procs : Linked(p)})
    /\ \A p \in Procs \ {Idle} : Linked(p) =>
          parent[p] # NULL /\ pc[parent[p]] \notin {"none", "dead", "exit_sched"}

\* do_wait looks for a dead child, then goes to sleep, with interrupts enabled
\* and no lock held.  Still no exit is missed: a process asleep in do_wait has no
\* dead child it waits for, unless that child is just about to wake it.
NoLostChildExit ==
    \A p, z \in Procs :
        /\ wait_state[p] = "CHILD"
        /\ state[z] = "ZOMBIE" /\ parent[z] = p
        /\ waitfor[p] \in {Idle, z}
        => pc[z] = "exit_parent"

\* do_wait frees a proc_struct and its kernel stack only once the process has
\* run for the last time (do_exit makes itself a zombie while it still runs on
\* that stack) and no timer on the stack is linked.
ReapSafe ==
    [][\A z \in Procs : Linked(z) /\ state'[z] = "FREE" =>
          z # current /\ pc[z] = "dead" /\ ~HasTimer(z)]_vars

\* do_sleep(t) lasts t ticks, no fewer, unless the process was killed.
SleepNotEarly ==
    [][\A p \in Procs : wait_state[p] = "TIMER" /\ wait_state'[p] # "TIMER" =>
          left[p] = 0 \/ exiting'[p]]_vars

-----------------------------------------------------------------------------
(* Liveness, of FairSpec.  A halted kernel owes nothing.                     *)

\* Round robin starves nobody, whatever the others do with their slices,
\* yields, forks and exits.
RunnableRuns ==
    \A p \in Procs \ {Idle} : state[p] = "RUNNABLE" ~> (current = p \/ ~Running)

\* Every sleeper is woken, although timers of other processes are added before
\* its own and deleted by kill in the meantime.
SleeperWakes ==
    \A p \in Procs : wait_state[p] = "TIMER" ~> (wait_state[p] # "TIMER" \/ ~Running)

\* initproc reaps everything it inherits.
InitReaps ==
    \A p \in Procs : state[p] = "ZOMBIE" /\ parent[p] = Init_ ~> (~Linked(p) \/ ~Running)

UserProcess(p) == p \notin kthread \cup {Idle, Init_}

\* do_kill wakes its victim, so the sleep it is in does not keep it.  It exits,
\* unless it goes to sleep once more for something that need never come, a
\* child's exit or a character: trap() looks at PF_EXITING before schedule()
\* and not after it, so one more call can be made, and a reader that a
\* character woke as well tries again.  A second kill is refused (-E_KILLED)
\* and wakes nobody.  No sleep of do_sleep and no loop in user mode keeps it.
KilledExitsOrWaits ==
    \A p \in Procs : exiting[p] /\ UserProcess(p) ~>
        (state[p] \in {"ZOMBIE", "FREE"} \/ wait_state[p] \in {"CHILD", "KBD"} \/ ~Running)

=============================================================================
