-------------------------------- MODULE Stdin --------------------------------
(***************************************************************************)
(* The console input of kern/fs/devs/dev_stdin.c: an interrupt of the       *)
(* keyboard or the serial port puts one character into a buffer, processes  *)
(* that read wait for it, and a process may be killed while it waits.       *)
(*                                                                          *)
(* pc[p] is                                                                 *)
(*   user       in user mode                                                *)
(*   read       in the loop of dev_stdin_read (interrupts off)              *)
(*   sched      asleep, before schedule()                                   *)
(*   wake       in or back from schedule()                                  *)
(*   trap_ret   trap(), back from the system call or a tick                 *)
(*   dead       after do_exit                                               *)
(*   idle       cpu_idle                                                    *)
(***************************************************************************)
EXTENDS Sched, Console

CONSTANTS
    STDIN_BUFSIZE,
    Lens            \* the lengths of the reads

ASSUME StdinAssumption ==
    /\ STDIN_BUFSIZE \in Nat \ {0}
    /\ Lens \subseteq Nat
    /\ IsFiniteSet(Procs)

VARIABLES
    stdin_buffer, p_rpos, p_wpos,
    wait_queue,      \* the processes waiting, first one first
    wakeup_flags,    \* wait->wakeup_flags of each process
    todo,            \* len - ret of dev_stdin_read
    exiting,         \* proc->flags & PF_EXITING
    pc,
    irq,             \* "none", or "wakeup" in wakeup_queue
    typed,           \* history: the characters dev_stdin_write stored
    overrun          \* history: one came with the buffer full

bufVars == <<stdin_buffer, p_rpos, p_wpos, typed, overrun, consVars>>
readVars == <<wait_queue, wakeup_flags, todo>>
vars == <<schedVars, bufVars, readVars, exiting, pc, irq>>

Users == Procs \ {Idle}

\* The kernel has not stopped, and the machine was not reset.
Running == panic = "none" /\ ~cons.reset

At(l) == pc[current] = l /\ irq = "none" /\ Running
InterruptsOn == pc[current] # "read" /\ irq = "none" /\ Running
Goto(l) == pc' = [pc EXCEPT ![current] = l]

-----------------------------------------------------------------------------
\* Fault: the position is advanced before the character is stored.
StoreAfter(c) ==
    /\ p_wpos' = IF p_wpos - p_rpos < STDIN_BUFSIZE THEN p_wpos + 1 ELSE p_wpos
    /\ stdin_buffer' = [stdin_buffer EXCEPT ![p_wpos' % STDIN_BUFSIZE] = c]

\* The character goes to p_wpos; with the buffer full that is the place of the
\* oldest character not read yet, and the position stays.
Store(c) ==
    /\ stdin_buffer' = [stdin_buffer EXCEPT ![p_wpos % STDIN_BUFSIZE] = c]
    /\ p_wpos' = IF p_wpos - p_rpos < STDIN_BUFSIZE THEN p_wpos + 1 ELSE p_wpos

dev_stdin_write(c) ==
    IF c = NO THEN UNCHANGED <<stdin_buffer, p_wpos, typed, overrun, irq>>
    ELSE /\ Store(c)
         /\ typed' = Append(typed, c)
         /\ overrun' = (overrun \/ p_wpos - p_rpos >= STDIN_BUFSIZE)
         /\ irq' = IF wait_queue = <<>> THEN "none" ELSE "wakeup"

\* The interrupt of device d: cons_getc, dev_stdin_write, and the end of trap()
\* if it came from user mode.
Input(d) ==
    /\ InterruptsOn /\ d \in irr
    /\ \E n \in Bursts :
          /\ Acknowledge(d, n)
          /\ \E got \in {cons_getc(n)} :
                /\ cons' = got.cons
                /\ dev_stdin_write(got.c)
    /\ IF pc[current] = "user" THEN Goto("trap_ret") ELSE UNCHANGED pc
    /\ UNCHANGED <<schedVars, p_rpos, readVars, exiting>>

\* A byte arrives.
Arrive(d) ==
    /\ Running
    /\ Present(d)
    /\ UNCHANGED <<schedVars, stdin_buffer, p_rpos, p_wpos, typed, overrun, readVars,
                   exiting, pc, irq>>

\* wakeup_queue(WT_KBD, del), one process at a time.
InputWakeup ==
    LET p == Head(wait_queue)
    IN  /\ irq = "wakeup" /\ Running
        /\ wakeup_flags' = [wakeup_flags EXCEPT ![p] = "KBD"]
        /\ WakeupProc(p)
        /\ wait_queue' = Tail(wait_queue)
        /\ irq' = IF Tail(wait_queue) = <<>> THEN "none" ELSE "wakeup"
        /\ UNCHANGED <<need_resched, current, bufVars, todo, exiting, pc>>

-----------------------------------------------------------------------------
\* read(0, buf, len) down to dev_stdin_read.
Read(len) ==
    /\ At("user")
    /\ todo' = [todo EXCEPT ![current] = len]
    /\ Goto("read")
    /\ UNCHANGED <<schedVars, bufVars, wait_queue, wakeup_flags, exiting, irq>>

ReadChar ==
    /\ At("read")
    /\ todo[current] > 0 /\ p_rpos < p_wpos
    /\ p_rpos' = p_rpos + 1
    /\ todo' = [todo EXCEPT ![current] = @ - 1]
    /\ UNCHANGED <<schedVars, stdin_buffer, p_wpos, typed, overrun, consVars, wait_queue, wakeup_flags,
                   exiting, pc, irq>>

ReadDone ==
    /\ At("read")
    /\ todo[current] = 0
    /\ Goto("trap_ret")
    /\ UNCHANGED <<schedVars, bufVars, readVars, exiting, irq>>

\* wait_current_set
ReadWait ==
    /\ At("read")
    /\ todo[current] > 0 /\ p_rpos >= p_wpos
    /\ state' = [state EXCEPT ![current] = "SLEEPING"]
    /\ wait_state' = [wait_state EXCEPT ![current] = "KBD"]
    /\ wait_queue' = Append(wait_queue, current)
    /\ wakeup_flags' = [wakeup_flags EXCEPT ![current] = "INTERRUPTED"]
    /\ Goto("sched")
    /\ UNCHANGED <<time_slice, need_resched, run_list, current, panic, bufVars, todo, exiting, irq>>

ReadSched ==
    /\ At("sched")
    /\ Schedule
    /\ Goto("wake")
    /\ UNCHANGED <<bufVars, readVars, exiting, irq>>

\* Fault: a process that was killed stays in the queue.
ReadWakeStays ==
    /\ At("wake")
    /\ IF wakeup_flags[current] = "KBD"
       THEN Goto("read") /\ UNCHANGED todo
       ELSE Goto("trap_ret") /\ todo' = [todo EXCEPT ![current] = 0]
    /\ wakeup_flags' = [wakeup_flags EXCEPT ![current] = "KBD"]
    /\ UNCHANGED <<schedVars, bufVars, wait_queue, exiting, irq>>

\* wait_current_del; try again if the wakeup came from the keyboard.
ReadWake ==
    /\ At("wake")
    /\ wait_queue' = IF current \in Range(wait_queue)
                     THEN RemoveAt(wait_queue, CHOOSE i \in 1..Len(wait_queue) : wait_queue[i] = current)
                     ELSE wait_queue
    /\ IF wakeup_flags[current] = "KBD"
       THEN Goto("read") /\ UNCHANGED todo
       ELSE Goto("trap_ret") /\ todo' = [todo EXCEPT ![current] = 0]
    /\ wakeup_flags' = [wakeup_flags EXCEPT ![current] = "KBD"]
    /\ UNCHANGED <<schedVars, bufVars, exiting, irq>>

-----------------------------------------------------------------------------
Kill(p) ==
    /\ At("user")
    /\ state[p] # "ZOMBIE" /\ ~exiting[p]
    /\ exiting' = [exiting EXCEPT ![p] = TRUE]
    /\ IF wait_state[p] \in Interruptible
       THEN WakeupProc(p)
       ELSE UNCHANGED <<state, wait_state, run_list, time_slice, panic>>
    /\ Goto("trap_ret")
    /\ UNCHANGED <<need_resched, current, bufVars, readVars, irq>>

\* The end of trap(): do_exit for a killed process, schedule() if asked for.
TrapRetKilled ==
    /\ At("trap_ret")
    /\ exiting[current]
    /\ state' = [state EXCEPT ![current] = "ZOMBIE"]
    /\ Goto("exit")
    /\ UNCHANGED <<wait_state, time_slice, need_resched, run_list, current, panic,
                   bufVars, readVars, exiting, irq>>

ExitSched ==
    /\ At("exit")
    /\ Schedule
    /\ Goto("dead")
    /\ UNCHANGED <<bufVars, readVars, exiting, irq>>

TrapRet ==
    /\ At("trap_ret")
    /\ ~exiting[current]
    /\ IF need_resched[current] THEN Schedule ELSE UNCHANGED schedVars
    /\ Goto("user")
    /\ UNCHANGED <<bufVars, readVars, exiting, irq>>

\* The timer interrupt, for processes without timers.
Tick ==
    /\ InterruptsOn
    /\ ProcTick(current)
    /\ IF pc[current] = "user" THEN Goto("trap_ret") ELSE UNCHANGED pc
    /\ UNCHANGED <<state, wait_state, run_list, current, panic, bufVars, readVars, exiting, irq>>

CpuIdle ==
    /\ At("idle") /\ need_resched[Idle]
    /\ Schedule
    /\ UNCHANGED <<bufVars, readVars, exiting, pc, irq>>

-----------------------------------------------------------------------------
Init ==
    /\ state = [p \in Procs |-> "RUNNABLE"]
    /\ wait_state = [p \in Procs |-> "NONE"]
    /\ time_slice = [p \in Procs |-> IF p = Idle THEN 0 ELSE MAX_TIME_SLICE]
    /\ need_resched = [p \in Procs |-> p = Idle]
    /\ run_list \in [1..Cardinality(Users) -> Users] /\ Range(run_list) = Users
    /\ current = Idle
    /\ panic = "none"
    /\ stdin_buffer = [i \in 0..(STDIN_BUFSIZE - 1) |-> NO]
    /\ p_rpos = 0 /\ p_wpos = 0
    /\ wait_queue = <<>>
    /\ wakeup_flags = [p \in Procs |-> "KBD"]
    /\ todo = [p \in Procs |-> 0]
    /\ exiting = [p \in Procs |-> FALSE]
    /\ pc = [p \in Procs |-> IF p = Idle THEN "idle" ELSE "user"]
    /\ irq = "none"
    /\ typed = <<>> /\ overrun = FALSE
    /\ ConsInit

UserStep == (\E len \in Lens : Read(len)) \/ (\E p \in Users : Kill(p))

KernelStep ==
    \/ ReadChar \/ ReadDone \/ ReadWait \/ ReadSched \/ ReadWake
    \/ TrapRetKilled \/ ExitSched \/ TrapRet \/ CpuIdle

HardwareStep == Tick \/ \E d \in Devices : Arrive(d) \/ Input(d)

Next == UserStep \/ KernelStep \/ HardwareStep \/ InputWakeup

Spec == Init /\ [][Next]_vars

-----------------------------------------------------------------------------
\* The fields have their types.
TypeOK ==
    /\ SchedTypeOK /\ ConsTypeOK
    /\ stdin_buffer \in [0..(STDIN_BUFSIZE - 1) -> STRING]
    /\ p_rpos \in Nat /\ p_wpos \in Nat
    /\ wait_queue \in Seq(Users)
    /\ wakeup_flags \in [Procs -> {"INTERRUPTED", "KBD"}]
    /\ todo \in [Procs -> Nat]
    /\ exiting \in [Procs -> BOOLEAN]
    /\ pc \in [Procs -> {"user", "read", "sched", "wake", "trap_ret", "exit", "dead", "idle"}]
    /\ irq \in {"none", "wakeup"}
    /\ typed \in Seq(STRING) /\ overrun \in BOOLEAN

\* At most STDIN_BUFSIZE characters are kept: p_wpos is never behind p_rpos, nor
\* more than a round ahead.  What the readers take out, together and one after
\* the other, is what dev_stdin_write was given, in that order, as long as no
\* character came with the buffer full.
RingExact ==
    /\ p_wpos \in p_rpos..(p_rpos + STDIN_BUFSIZE)
    /\ ~overrun =>
          /\ p_wpos = Len(typed)
          /\ \A k \in p_rpos..(p_wpos - 1) : stdin_buffer[k % STDIN_BUFSIZE] = typed[k + 1]

\* What the devices' interrupts decoded reaches dev_stdin_write complete and in
\* order, unless the ring of the driver wrapped onto itself.  And no character is
\* left behind: for each one in the ring or in a device an interrupt is still to
\* come, although an interrupt takes only one character and reads the bytes of
\* both devices, unless a byte had no interrupt of its own.
ConsoleExact ==
    /\ ~cons.wrapped => typed \o Waiting = cons.accepted
    /\ ~coalesced => Len(Waiting) + Cardinality(ready) <= Cardinality(irr)

\* The wait queue, whose entries are on the readers' stacks, holds exactly those
\* that the keyboard has not woken, once each, and none that left the call; no
\* reader waits while there is something to read, whatever readers, killers and
\* the keyboard did between its look at the buffer and its sleep.
WaitersExact ==
    /\ \A i, j \in 1..Len(wait_queue) : wait_queue[i] = wait_queue[j] => i = j
    /\ \A p \in Users : p \in Range(wait_queue) <=>
          pc[p] \in {"sched", "wake"} /\ wakeup_flags[p] = "INTERRUPTED"
    /\ wait_queue # <<>> /\ irq = "none" => p_rpos = p_wpos

=============================================================================
