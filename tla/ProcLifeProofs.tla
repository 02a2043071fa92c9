--------------------------- MODULE ProcLifeProofs ----------------------------
(***************************************************************************)
(* Theorems about ProcLife, for any number of processes, any slice length   *)
(* and any sleeping times: first the states, run queue and timers, then the *)
(* families of processes.                                                   *)
(***************************************************************************)
EXTENDS ProcLife, SchedProofs

SleepPcs == {"sleep_add", "sleep_sched", "sleep_wake"}
WaitPcs == {"wait_sched", "wait_wake"}
ReadPcs == {"read_sched", "read_wake"}
ZombiePcs == {"exit_parent", "exit_kids", "exit_sched", "dead"}

\* The points where a process can stand that does not have the processor.
RestingPcs == {"none", "user", "wait_wake", "sleep_wake", "read_wake", "dead", "idle",
               "init_fork", "init_wait", "kthread"}

SchedInv == SchedTypeOK /\ RunQueueExact /\ NoAssertFails

LinkInv ==
    /\ parent \in [Procs -> Procs \cup {NULL}]
    /\ cptr \in [Procs -> Procs \cup {NULL}]
    /\ yptr \in [Procs -> Procs \cup {NULL}]
    /\ optr \in [Procs -> Procs \cup {NULL}]
    /\ nr_process \in Int
    /\ kthread \subseteq Procs
    /\ exiting \in [Procs -> BOOLEAN]
    /\ waitfor \in [Procs -> Procs]
    /\ irq \in {"none", "timers", "input", "return"}
    /\ \A p \in Procs \ {Idle} : state[p] # "FREE" => parent[p] \in Procs

\* Where the kernel stack of a process stands fixes its state.
PcInv ==
    /\ pc \in [Procs -> Pcs]
    /\ pc[Idle] = "idle" /\ state[Idle] = "RUNNABLE"
    /\ pc[current] \notin {"none", "dead"} /\ state[current] # "UNINIT"
    /\ pc[current] \in {"wait_wake", "sleep_wake", "read_wake"} => state[current] = "RUNNABLE"
    /\ pc[current] = "fork_wakeup" =>
         cptr[current] \in Procs /\ state[cptr[current]] = "UNINIT"
    /\ \A p \in Procs :
         /\ pc[p] = "idle" => p = Idle
         /\ state[p] = "FREE" <=> pc[p] = "none"
         /\ state[p] = "ZOMBIE" <=> pc[p] \in ZombiePcs
         /\ state[p] = "UNINIT" => pc[p] \in {"user", "kthread"}
         /\ state[p] = "SLEEPING" => pc[p] \in SleepPcs \cup WaitPcs \cup ReadPcs
         /\ wait_state[p] # "NONE" => state[p] = "SLEEPING"
         /\ pc[p] \in SleepPcs => wait_state[p] \in {"NONE", "TIMER"}
         /\ pc[p] \in WaitPcs => wait_state[p] \in {"NONE", "CHILD"}
         /\ pc[p] \in ReadPcs => wait_state[p] \in {"NONE", "KBD"}
         /\ pc[p] \notin RestingPcs => p = current

\* Every linked timer belongs to a process in do_sleep, each to another one; the
\* head has ticks left except while the expired ones are being taken off; and
\* add_timer's walk has subtracted what lies before its cursor.
TimerInv ==
    /\ TimersTypeOK
    /\ TimerListExact
    /\ \A i \in 1..Len(timer_list) :
         pc[timer_list[i].proc] \in {"sleep_sched", "sleep_wake"}
    /\ \A i, j \in 1..Len(timer_list) : timer_list[i].proc = timer_list[j].proc => i = j
    /\ irq # "timers" /\ timer_list # <<>> => timer_list[1].expires # 0
    /\ pc[current] = "sleep_add" =>
         /\ irq \notin {"timers", "input"}
         /\ walk.le <= Len(timer_list) + 1
         /\ walk.le = 1 => walk.expires # 0
         /\ walk.expires = left[current] - (IF walk.le = 1 THEN 0
                                            ELSE left[timer_list[walk.le - 1].proc])

IInv == SchedInv /\ LinkInv /\ PcInv /\ TimerInv

-----------------------------------------------------------------------------
\* The fields of a linked timer.
LEMMA TimerFields ==
    ASSUME TimersTypeOK, NEW i \in 1..Len(timer_list)
    PROVE  /\ timer_list[i] \in [proc : Procs, expires : Nat]
           /\ timer_list[i].proc \in Procs
           /\ timer_list[i].expires \in Nat
<1>1. timer_list[i] \in [proc : Procs, expires : Nat]
  <2> DEFINE S == [proc : Procs, expires : Nat]
  <2>1. timer_list \in Seq(S)
    BY DEF TimersTypeOK
  <2> HIDE DEF S
  <2>2. timer_list[i] \in S
    BY <2>1, SeqElement
  <2> QED BY <2>2 DEF S
<1> QED BY <1>1

\* A step that touches no timer keeps TimerInv if nobody leaves do_sleep.
LEMMA TimerFrame ==
    ASSUME TimerInv, UNCHANGED timerVars,
           \A p \in Procs : pc[p] \in {"sleep_sched", "sleep_wake"} =>
                             pc'[p] \in {"sleep_sched", "sleep_wake"},
           pc'[current'] # "sleep_add",
           irq # "timers" \/ ~RunTimerExpired \/ irq' = "timers"
    PROVE  TimerInv'
<1>1. timer_list' = timer_list /\ walk' = walk /\ left' = left
  BY DEF timerVars
<1>2. \A i \in 1..Len(timer_list) : timer_list[i].proc \in Procs
  BY TimerFields DEF TimerInv
<1>3. TimersTypeOK' /\ TimerListExact'
  BY <1>1 DEF TimerInv, TimersTypeOK, TimerListExact
<1>4. irq' # "timers" /\ timer_list' # <<>> => timer_list'[1].expires # 0
  BY <1>1 DEF TimerInv, RunTimerExpired
<1> QED BY <1>1, <1>2, <1>3, <1>4 DEF TimerInv

\* schedule() from point l, with a process that keeps or gives up its turn.
LEMMA ScheduleToKeeps ==
    ASSUME IInv, NEW l \in {"sleep_wake", "wait_wake", "read_wake", "dead", "user", "idle", "init_wait"},
           ScheduleTo(l), irq # "timers",
           l \in {"user", "idle", "init_wait"} => state[current] = "RUNNABLE",
           l = "dead" <=> state[current] = "ZOMBIE",
           l = "sleep_wake" <=> pc[current] = "sleep_sched",
           l = "wait_wake" <=> pc[current] = "wait_sched",
           l = "read_wake" <=> pc[current] = "read_sched",
           l = "idle" <=> current = Idle,
           pc[current] \notin {"sleep_add", "sleep_wake", "wait_wake", "read_wake"}
    PROVE  IInv'
<1> USE SchedAssumption, ProcAssumption
<1>1. /\ SchedTypeOK' /\ RunQueueExact' /\ panic' = panic
      /\ state' = state /\ wait_state' = wait_state
      /\ state[current'] = "RUNNABLE"
  BY ScheduleFacts DEF IInv, SchedInv, PcInv, ScheduleTo
<1>2. /\ pc' = [pc EXCEPT ![current] = l] /\ irq' = "none"
      /\ UNCHANGED timerVars /\ UNCHANGED linkVars /\ UNCHANGED <<exiting, waitfor>>
  BY DEF ScheduleTo, Goto
<1>3. SchedInv'
  BY <1>1 DEF IInv, SchedInv, NoAssertFails
<1>4. LinkInv'
  BY <1>1, <1>2 DEF IInv, LinkInv, linkVars
<1>5. current' \in Procs /\ current \in Procs
  BY <1>1 DEF SchedTypeOK, IInv, SchedInv
<1>6. PcInv'
  BY <1>1, <1>2, <1>5 DEF IInv, PcInv, Pcs, SleepPcs, WaitPcs, ReadPcs, ZombiePcs, RestingPcs
<1>7. TimerInv'
  <2>1. pc'[current'] # "sleep_add"
    BY <1>6, <1>1, <1>2, <1>5 DEF IInv, PcInv, RestingPcs, Pcs
  <2>2. \A p \in Procs : pc[p] \in {"sleep_sched", "sleep_wake"} =>
                           pc'[p] \in {"sleep_sched", "sleep_wake"}
    BY <1>2, <1>5 DEF IInv, PcInv
  <2> QED BY <1>2, <2>1, <2>2, TimerFrame DEF IInv
<1> QED BY <1>3, <1>4, <1>6, <1>7 DEF IInv

\* The calls of schedule().
LEMMA SchedulingKeeps ==
    ASSUME IInv,
           \/ SleepSched \/ WaitSched \/ ReadSched \/ ExitSched \/ CpuIdle \/ InitResched
           \/ TrapRetSchedule
    PROVE  IInv'
<1> USE SchedAssumption, ProcAssumption
<1>0. current \in Procs /\ pc \in [Procs -> Pcs] /\ state \in [Procs -> States]
      /\ pc[Idle] = "idle"
  BY DEF IInv, SchedInv, SchedTypeOK, PcInv
<1>1. ASSUME NEW l \in {"sleep_wake", "wait_wake", "read_wake", "dead", "user", "idle", "init_wait"},
             pc[current] = CASE l = "sleep_wake" -> "sleep_sched"
                             [] l = "wait_wake" -> "wait_sched"
                             [] l = "read_wake" -> "read_sched"
                             [] l = "dead" -> "exit_sched"
                             [] l = "user" -> "trap_ret"
                             [] l = "idle" -> "idle"
                             [] l = "init_wait" -> "init_resched",
             l = "idle" => current = Idle,
             irq # "timers", ScheduleTo(l)
      PROVE  IInv'
  <2>1. /\ l = "dead" <=> state[current] = "ZOMBIE"
        /\ l \in {"user", "idle", "init_wait"} => state[current] = "RUNNABLE"
    BY <1>0, <1>1 DEF IInv, PcInv, States, ZombiePcs, SleepPcs, WaitPcs, ReadPcs
  <2>2. l = "idle" <=> current = Idle
    BY <1>0, <1>1
  <2> QED BY <1>1, <2>1, <2>2, ScheduleToKeeps
<1>2. CASE SleepSched
  BY <1>2, <1>1, <1>0 DEF SleepSched, At
<1>3. CASE WaitSched
  BY <1>3, <1>1, <1>0 DEF WaitSched, At
<1>4. CASE ExitSched
  BY <1>4, <1>1, <1>0 DEF ExitSched, At
<1>5. CASE CpuIdle
  <2>1. current = Idle
    BY <1>0, <1>5 DEF CpuIdle, At, IInv, PcInv
  <2> QED BY <1>5, <2>1, <1>1, <1>0 DEF CpuIdle, At
<1>6. CASE InitResched
  BY <1>6, <1>1, <1>0 DEF InitResched, At
<1>7. CASE TrapRetSchedule
  BY <1>7, <1>1, <1>0 DEF TrapRetSchedule, At
<1>8. CASE ReadSched
  BY <1>8, <1>1, <1>0 DEF ReadSched, At
<1> QED BY <1>2, <1>3, <1>4, <1>5, <1>6, <1>7, <1>8

\* A step that only moves the current process to another awake point keeps IInv.
LEMMA MoveKeeps ==
    ASSUME IInv, NEW l \in {"user", "trap_ret", "exit", "wait_scan", "exit_kids",
                             "exit_sched", "init_done"},
           l = "exit_kids" <=> pc[current] = "exit_parent",
           l = "exit_sched" <=> pc[current] = "exit_kids",
           pc[current] \in {"user", "trap_ret", "wait_scan", "wait_wake", "read_wake", "exit_parent",
                            "exit_kids", "init_wait", "init_sync", "kthread"},
           Goto(l),
           UNCHANGED <<state, wait_state, time_slice, run_list, current, panic>>,
           UNCHANGED timerVars, UNCHANGED linkVars,
           exiting' \in [Procs -> BOOLEAN], need_resched' \in [Procs -> BOOLEAN], waitfor' \in [Procs -> Procs],
           irq # "timers", irq' \in {"none", irq}
    PROVE  IInv'
<1> USE SchedAssumption, ProcAssumption
<1>1. current \in Procs /\ pc \in [Procs -> Pcs] /\ pc' = [pc EXCEPT ![current] = l]
  BY DEF IInv, SchedInv, SchedTypeOK, PcInv, Goto
<1>2. SchedInv'
  BY DEF IInv, SchedInv, SchedTypeOK, RunQueueExact, OnRunList, NoAssertFails
<1>3. LinkInv'
  BY DEF IInv, LinkInv, linkVars
<1>4. PcInv'
  BY <1>1 DEF IInv, PcInv, linkVars, Pcs, SleepPcs, WaitPcs, ReadPcs, ZombiePcs, RestingPcs
<1>5. TimerInv'
  BY <1>1, TimerFrame DEF IInv
<1> QED BY <1>2, <1>3, <1>4, <1>5 DEF IInv

\* The steps of trap(), do_wait, do_exit and init_main that only move on.
LEMMA MovesKeep ==
    ASSUME IInv,
           \/ SyscallNoEffect \/ Yield \/ UserExit \/ WaitNoKid \/ WaitWake
           \/ ReadReturn \/ ExitKidsDone \/ InitWait \/ TrapRetKilled \/ TrapRetUser
           \/ \E p \in Procs : Wait(p)
    PROVE  IInv'
<1> USE SchedAssumption, ProcAssumption
<1>1. /\ current \in Procs /\ pc \in [Procs -> Pcs]
      /\ need_resched \in [Procs -> BOOLEAN] /\ waitfor \in [Procs -> Procs]
      /\ exiting \in [Procs -> BOOLEAN]
  BY DEF IInv, SchedInv, SchedTypeOK, PcInv, LinkInv
<1>2. CASE SyscallNoEffect
  BY <1>1, <1>2, MoveKeeps DEF SyscallNoEffect, At, schedVars
<1>3. CASE Yield
  BY <1>1, <1>3, MoveKeeps DEF Yield, At
<1>4. CASE UserExit
  BY <1>1, <1>4, MoveKeeps DEF UserExit, At, schedVars
<1>5. CASE WaitNoKid
  BY <1>1, <1>5, MoveKeeps DEF WaitNoKid, At, schedVars
<1>6. CASE WaitWake
  BY <1>1, <1>6, MoveKeeps DEF WaitWake, At, schedVars
<1>7. CASE ExitKidsDone
  BY <1>1, <1>7, MoveKeeps DEF ExitKidsDone, At, schedVars
<1>8. CASE InitWait
  BY <1>1, <1>8, MoveKeeps DEF InitWait, At, schedVars
<1>9. CASE TrapRetKilled
  BY <1>1, <1>9, MoveKeeps DEF TrapRetKilled, At, schedVars
<1>10. CASE TrapRetUser
  BY <1>1, <1>10, MoveKeeps DEF TrapRetUser, At, schedVars
<1>11. ASSUME NEW p \in Procs, Wait(p) PROVE IInv'
  BY <1>1, <1>11, MoveKeeps DEF Wait, At, schedVars
<1>12. CASE ReadReturn
  BY <1>1, <1>12, MoveKeeps DEF ReadReturn, At, schedVars
<1> QED BY <1>2, <1>3, <1>4, <1>5, <1>6, <1>7, <1>8, <1>9, <1>10, <1>11, <1>12

\* wakeup_proc(p) of a process that sleeps or is new, the caller moving from one
\* awake point to the next.
LEMMA WakeKeeps ==
    ASSUME IInv, NEW p \in Procs, WakeupProc(p), UNCHANGED <<current, need_resched>>,
           state[p] \in {"SLEEPING", "UNINIT", "RUNNABLE"},
           NEW l \in Pcs, pc' = [pc EXCEPT ![current] = l],
           \/ l = pc[current] /\ l # "fork_wakeup"
           \/ pc[current] \in {"fork_wakeup", "user"} /\ l \in {"trap_ret", "init_sync"}
           \/ pc[current] = "exit_parent" /\ l = "exit_kids"
    PROVE  SchedInv' /\ PcInv' /\ state'[p] = "RUNNABLE"
           /\ \A q \in Procs : state[q] = "FREE" <=> state'[q] = "FREE"
<1> USE SchedAssumption, ProcAssumption
<1>1. current \in Procs /\ pc \in [Procs -> Pcs] /\ state \in [Procs -> States]
  BY DEF IInv, SchedInv, SchedTypeOK, PcInv
<1>2. /\ SchedTypeOK' /\ RunQueueExact' /\ panic' = panic
      /\ state' = [state EXCEPT ![p] = "RUNNABLE"]
      /\ \A q \in Procs : wait_state'[q] = wait_state[q] \/ (q = p /\ wait_state'[q] = "NONE")
      /\ state[p] # "RUNNABLE" => wait_state'[p] = "NONE"
  BY WakeupProcFacts DEF IInv, SchedInv
<1>3. SchedInv'
  BY <1>2 DEF IInv, SchedInv, NoAssertFails
<1>4. PcInv'
  BY <1>1, <1>2 DEF IInv, PcInv, Pcs, SleepPcs, WaitPcs, ReadPcs, ZombiePcs, RestingPcs
<1> QED BY <1>1, <1>2, <1>3, <1>4

\* The calls of wakeup_proc outside the interrupt handler.
LEMMA WakingKeeps ==
    ASSUME IInv, \/ ForkWakeup \/ ExitParent \/ ExitKid \/ \E p \in Killable : Kill(p)
    PROVE  IInv'
<1> USE SchedAssumption, ProcAssumption
<1>1. /\ current \in Procs /\ pc \in [Procs -> Pcs]
      /\ \A p \in Procs : wait_state[p] # "NONE" => state[p] = "SLEEPING"
  BY DEF IInv, SchedInv, SchedTypeOK, PcInv
<1>2. CASE ForkWakeup
  <2> DEFINE l == IF current = Init_ THEN "init_sync" ELSE "trap_ret"
  <2>1. cptr[current] \in Procs /\ state[cptr[current]] = "UNINIT" /\ pc[current] = "fork_wakeup"
    BY <1>2 DEF ForkWakeup, At, IInv, PcInv
  <2>2. l \in Pcs /\ pc' = [pc EXCEPT ![current] = l]
    BY <1>2 DEF ForkWakeup, Goto, Pcs
  <2>3. WakeupProc(cptr[current]) /\ UNCHANGED <<current, need_resched>>
    BY <1>2 DEF ForkWakeup
  <2>4. /\ UNCHANGED timerVars /\ UNCHANGED linkVars /\ UNCHANGED <<exiting, waitfor, irq>>
        /\ irq # "timers"
    BY <1>2 DEF ForkWakeup, At
  <2>5. SchedInv' /\ PcInv' /\ \A q \in Procs : state[q] = "FREE" <=> state'[q] = "FREE"
    BY <2>1, <2>2, <2>3, WakeKeeps
  <2>6. LinkInv'
    BY <2>4, <2>5 DEF IInv, LinkInv, linkVars
  <2>7. TimerInv'
    BY <1>1, <2>1, <2>2, <2>3, <2>4, TimerFrame DEF IInv
  <2> QED BY <2>5, <2>6, <2>7 DEF IInv
<1>3. ASSUME NEW p \in Killable, Kill(p) PROVE IInv'
  <2>1. /\ p \in Procs /\ pc[current] = "user" /\ irq # "timers"
        /\ pc' = [pc EXCEPT ![current] = "trap_ret"]
        /\ UNCHANGED <<current, need_resched, waitfor, irq>>
        /\ UNCHANGED timerVars /\ UNCHANGED linkVars
        /\ exiting' \in [Procs -> BOOLEAN]
        /\ need_resched \in [Procs -> BOOLEAN] /\ waitfor \in [Procs -> Procs]
    BY <1>3 DEF Kill, At, Goto, IInv, LinkInv, SchedInv, SchedTypeOK
  <2>2. CASE wait_state[p] \in Interruptible
    <3>1. WakeupProc(p) /\ state[p] = "SLEEPING"
      BY <1>1, <1>3, <2>1, <2>2 DEF Kill, Interruptible
    <3>2. SchedInv' /\ PcInv' /\ \A q \in Procs : state[q] = "FREE" <=> state'[q] = "FREE"
      BY <2>1, <3>1, WakeKeeps DEF Pcs
    <3>3. LinkInv'
      BY <2>1, <3>2 DEF IInv, LinkInv, linkVars
    <3>4. TimerInv'
      BY <1>1, <2>1, TimerFrame DEF IInv
    <3> QED BY <3>2, <3>3, <3>4 DEF IInv
  <2>3. CASE wait_state[p] \notin Interruptible
    BY <1>3, <2>1, <2>3, MoveKeeps DEF Kill, Goto
  <2> QED BY <2>2, <2>3
<1>4. CASE ExitParent
  <2> DEFINE p == parent[current]
  <2>1. /\ pc[current] = "exit_parent" /\ irq # "timers"
        /\ pc' = [pc EXCEPT ![current] = "exit_kids"]
        /\ UNCHANGED <<current, need_resched, exiting, waitfor, irq>>
        /\ UNCHANGED timerVars /\ UNCHANGED linkVars
        /\ exiting \in [Procs -> BOOLEAN]
        /\ need_resched \in [Procs -> BOOLEAN] /\ waitfor \in [Procs -> Procs]
    BY <1>4 DEF ExitParent, At, Goto, IInv, LinkInv, SchedInv, SchedTypeOK
  <2>2. p \in Procs
    <3>1. current # Idle /\ state[current] = "ZOMBIE"
      BY <1>1, <2>1 DEF IInv, PcInv, ZombiePcs
    <3> QED BY <1>1, <3>1 DEF IInv, LinkInv
  <2>3. CASE wait_state[p] = "CHILD"
    <3>1. WakeupProc(p) /\ state[p] = "SLEEPING"
      BY <1>1, <1>4, <2>2, <2>3 DEF ExitParent
    <3>2. SchedInv' /\ PcInv' /\ \A q \in Procs : state[q] = "FREE" <=> state'[q] = "FREE"
      BY <2>1, <2>2, <3>1, WakeKeeps DEF Pcs
    <3>3. LinkInv'
      BY <2>1, <3>2 DEF IInv, LinkInv, linkVars
    <3>4. TimerInv'
      BY <1>1, <2>1, TimerFrame DEF IInv
    <3> QED BY <3>2, <3>3, <3>4 DEF IInv
  <2>4. CASE wait_state[p] # "CHILD"
    BY <1>4, <2>1, <2>4, MoveKeeps DEF ExitParent, Goto
  <2> QED BY <2>3, <2>4
<1>5. CASE ExitKid
  <2> DEFINE kid == cptr[current]
  <2>1. /\ pc[current] = "exit_kids" /\ irq # "timers" /\ UNCHANGED pc
        /\ UNCHANGED <<current, need_resched, exiting, waitfor, irq>>
        /\ UNCHANGED timerVars
        /\ pc' = [pc EXCEPT ![current] = "exit_kids"]
    BY <1>1, <1>5 DEF ExitKid, At
  <2>2. kid \in Procs
    BY <1>1, <1>5 DEF ExitKid, IInv, LinkInv
  <2>3. /\ parent' \in [Procs -> Procs \cup {NULL}]
        /\ \A p \in Procs : parent'[p] = parent[p] \/ parent'[p] \in Procs
        /\ cptr' \in [Procs -> Procs \cup {NULL}]
        /\ yptr' \in [Procs -> Procs \cup {NULL}]
        /\ optr' \in [Procs -> Procs \cup {NULL}]
        /\ nr_process' = nr_process /\ kthread' = kthread
    BY <1>1, <1>5, <2>2 DEF ExitKid, IInv, LinkInv
  <2>4. SchedInv' /\ PcInv' /\ \A q \in Procs : state[q] = "FREE" <=> state'[q] = "FREE"
    <3>1. CASE state[kid] = "ZOMBIE" /\ wait_state[Init_] = "CHILD"
      <4>1. WakeupProc(Init_) /\ state[Init_] = "SLEEPING"
        BY <1>1, <1>5, <3>1 DEF ExitKid
      <4> QED BY <2>1, <4>1, WakeKeeps DEF Pcs
    <3>2. CASE ~(state[kid] = "ZOMBIE" /\ wait_state[Init_] = "CHILD")
      <4>1. UNCHANGED <<state, wait_state, run_list, time_slice, panic>>
        BY <1>5, <3>2 DEF ExitKid
      <4>2. SchedInv'
        BY <2>1, <4>1 DEF IInv, SchedInv, SchedTypeOK, RunQueueExact, OnRunList, NoAssertFails
      <4>3. PcInv'
        BY <2>1, <4>1 DEF IInv, PcInv
      <4> QED BY <4>1, <4>2, <4>3
    <3> QED BY <3>1, <3>2
  <2>5. LinkInv'
    BY <2>1, <2>3, <2>4 DEF IInv, LinkInv
  <2>6. TimerInv'
    BY <1>1, <2>1, TimerFrame DEF IInv
  <2> QED BY <2>4, <2>5, <2>6 DEF IInv
<1> QED BY <1>2, <1>3, <1>4, <1>5

\* do_fork up to wakeup_proc: the child is new, so no list names it.
LEMMA ForkKeeps ==
    ASSUME IInv, Fork \/ InitFork \/ InitSync
    PROVE  IInv'
<1> USE SchedAssumption, ProcAssumption
<1>0. \E c \in Procs, l \in {"user", "kthread"} :
         ForkChild(c, l) /\ pc[current] \in {"user", "init_fork", "init_sync"} /\ irq # "timers"
  BY DEF Fork, InitFork, InitSync, At
<1>1. PICK c \in Procs, l \in {"user", "kthread"} :
         ForkChild(c, l) /\ pc[current] \in {"user", "init_fork", "init_sync"} /\ irq # "timers"
  BY <1>0
<1>2. /\ current \in Procs /\ pc \in [Procs -> Pcs] /\ pc[c] = "none" /\ state[c] = "FREE"
      /\ state[current] = "RUNNABLE" /\ wait_state[current] = "NONE" /\ c # Idle /\ c # current
  <2>1. current \in Procs /\ pc \in [Procs -> Pcs] /\ state \in [Procs -> States]
        /\ state[c] = "FREE"
    BY <1>1 DEF IInv, SchedInv, SchedTypeOK, PcInv, ForkChild
  <2> QED BY <1>1, <2>1 DEF IInv, PcInv, States, SleepPcs, WaitPcs, ReadPcs, ZombiePcs
<1>3. /\ state' = [state EXCEPT ![c] = "UNINIT"]
      /\ wait_state' = [wait_state EXCEPT ![c] = "NONE"]
      /\ time_slice' = [time_slice EXCEPT ![c] = 0]
      /\ need_resched' = [need_resched EXCEPT ![c] = FALSE]
      /\ exiting' = [exiting EXCEPT ![c] = FALSE]
      /\ pc' = [pc EXCEPT ![c] = l, ![current] = "fork_wakeup"]
      /\ panic' = panic /\ kthread' \in {kthread, kthread \cup {c}}
      /\ UNCHANGED <<run_list, current, waitfor, irq>> /\ UNCHANGED timerVars
      /\ SetLinks(c)
  BY <1>1, <1>2 DEF ForkChild, Assert_
<1>4. SchedInv'
  <2>1. SchedTypeOK'
    <3>1. time_slice' \in [Procs -> 0..MAX_TIME_SLICE]
      BY <1>3, EmptySlice DEF IInv, SchedInv, SchedTypeOK
    <3> QED BY <1>2, <1>3, <3>1 DEF IInv, SchedInv, SchedTypeOK, States, WaitStates
  <2>2. RunQueueExact'
    BY <1>2, <1>3 DEF IInv, SchedInv, SchedTypeOK, RunQueueExact, OnRunList
  <2> QED BY <1>3, <2>1, <2>2 DEF IInv, SchedInv, NoAssertFails
<1>5. /\ parent' = [parent EXCEPT ![c] = current]
      /\ cptr' = [cptr EXCEPT ![c] = NULL, ![current] = c]
      /\ cptr'[current] = c
  BY <1>2, <1>3 DEF SetLinks, IInv, LinkInv
<1>6. LinkInv'
  BY <1>2, <1>3, <1>5 DEF IInv, LinkInv, SetLinks
<1>7. PcInv'
  <2>1. /\ pc' \in [Procs -> Pcs]
        /\ \A p \in Procs :
             /\ pc'[p] = IF p = current THEN "fork_wakeup" ELSE IF p = c THEN l ELSE pc[p]
             /\ state'[p] = IF p = c THEN "UNINIT" ELSE state[p]
             /\ wait_state'[p] = IF p = c THEN "NONE" ELSE wait_state[p]
    BY <1>2, <1>3 DEF IInv, SchedInv, SchedTypeOK, Pcs
  <2>2. \A p \in Procs : wait_state[p] # "NONE" => pc[p] \in SleepPcs \cup WaitPcs \cup ReadPcs
    BY DEF IInv, PcInv
  <2>3. Idle # current
    BY <1>1 DEF IInv, PcInv
  <2> QED BY <1>1, <1>2, <1>3, <1>5, <2>1, <2>2, <2>3
          DEF IInv, PcInv, SleepPcs, WaitPcs, ReadPcs, ZombiePcs, RestingPcs
<1>8. TimerInv'
  <2>1. /\ pc'[current'] # "sleep_add"
        /\ \A p \in Procs : pc[p] \in {"sleep_sched", "sleep_wake"} =>
                             pc'[p] \in {"sleep_sched", "sleep_wake"}
    BY <1>1, <1>2, <1>3
  <2> QED BY <1>1, <1>3, <2>1, TimerFrame DEF IInv
<1> QED BY <1>4, <1>6, <1>7, <1>8 DEF IInv

\* Freeing a zombie in do_wait: it has run for the last time.
LEMMA WaitFoundFacts ==
    ASSUME IInv, WaitFound, NEW z \in Procs, Linked(z), state'[z] = "FREE"
    PROVE  z # current /\ pc[z] = "dead"
<1>1. PICK y \in Procs : FoundZombie(y) /\ state' = [state EXCEPT ![y] = "FREE"]
  BY DEF WaitFound
<1>2. z = y /\ state[z] = "ZOMBIE"
  BY <1>1 DEF FoundZombie, Linked, IInv, SchedInv, SchedTypeOK
<1>3. pc[current] = "wait_scan"
  BY DEF WaitFound, At
<1> QED BY <1>2, <1>3 DEF IInv, PcInv, ZombiePcs, RestingPcs

\* do_wait freeing a dead child: it is on no list and has no timer.
LEMMA WaitFoundKeeps ==
    ASSUME IInv, WaitFound
    PROVE  IInv'
<1> USE SchedAssumption, ProcAssumption
<1> DEFINE l == IF current = Init_ THEN "init_resched" ELSE "trap_ret"
<1>1. PICK z \in Procs :
         /\ FoundZombie(z)
         /\ RemoveLinks(z)
         /\ kthread' = kthread \ {z}
         /\ state' = [state EXCEPT ![z] = "FREE"]
         /\ time_slice' = [time_slice EXCEPT ![z] = 0]
         /\ need_resched' = [need_resched EXCEPT ![z] = FALSE]
         /\ exiting' = [exiting EXCEPT ![z] = FALSE]
         /\ waitfor' = [waitfor EXCEPT ![z] = Idle, ![current] = Idle]
         /\ pc' = [pc EXCEPT ![z] = "none", ![current] = l]
  BY DEF WaitFound
<1>2. /\ pc[current] = "wait_scan" /\ irq # "timers"
      /\ UNCHANGED <<wait_state, run_list, current, panic, irq>> /\ UNCHANGED timerVars
  BY DEF WaitFound, At
<1>3. /\ current \in Procs /\ pc \in [Procs -> Pcs] /\ state \in [Procs -> States]
      /\ state[z] = "ZOMBIE" /\ pc[z] \in ZombiePcs
  BY <1>1 DEF IInv, SchedInv, SchedTypeOK, PcInv, FoundZombie
<1>4. z # current /\ z # Idle
  BY <1>2, <1>3 DEF ZombiePcs, IInv, PcInv
<1>5. SchedInv'
  <2>1. SchedTypeOK'
    <3>1. time_slice' \in [Procs -> 0..MAX_TIME_SLICE]
      BY <1>1, EmptySlice DEF IInv, SchedInv, SchedTypeOK
    <3> QED BY <1>1, <1>2, <1>3, <3>1 DEF IInv, SchedInv, SchedTypeOK, States, WaitStates
  <2>2. RunQueueExact'
    BY <1>1, <1>2, <1>3 DEF IInv, SchedInv, SchedTypeOK, RunQueueExact, OnRunList
  <2> QED BY <1>2, <2>1, <2>2 DEF IInv, SchedInv, NoAssertFails
<1>6. LinkInv'
  <2>1. /\ parent' \in [Procs -> Procs \cup {NULL}]
        /\ \A p \in Procs : p # z => parent'[p] = parent[p]
    BY <1>1, <1>3 DEF RemoveLinks, IInv, LinkInv
  <2>2. /\ cptr' \in [Procs -> Procs \cup {NULL}]
        /\ yptr' \in [Procs -> Procs \cup {NULL}]
        /\ optr' \in [Procs -> Procs \cup {NULL}]
        /\ nr_process' \in Int
    BY <1>1, <1>3 DEF RemoveLinks, IInv, LinkInv
  <2> QED BY <1>1, <1>2, <1>3, <2>1, <2>2 DEF IInv, LinkInv
<1>7. PcInv'
  BY <1>1, <1>2, <1>3, <1>4 DEF IInv, PcInv, Pcs, SleepPcs, WaitPcs, ReadPcs, ZombiePcs, RestingPcs
<1>8. TimerInv'
  <2>1. /\ pc'[current'] # "sleep_add"
        /\ \A p \in Procs : pc[p] \in {"sleep_sched", "sleep_wake"} =>
                             pc'[p] \in {"sleep_sched", "sleep_wake"}
    BY <1>1, <1>2, <1>3, <1>4 DEF ZombiePcs
  <2> QED BY <1>2, <2>1, TimerFrame DEF IInv
<1> QED BY <1>5, <1>6, <1>7, <1>8 DEF IInv

\* The current process takes itself out of the run: it is on no list.
LEMMA ExitOrWaitSleepKeeps ==
    ASSUME IInv, Exit \/ WaitSleep \/ ReadSleep \/ ReadAgain
    PROVE  IInv'
<1> USE SchedAssumption, ProcAssumption
<1>1. /\ current \in Procs /\ pc \in [Procs -> Pcs] /\ state \in [Procs -> States]
      /\ wait_state \in [Procs -> WaitStates]
  BY DEF IInv, SchedInv, SchedTypeOK, PcInv
<1>2. /\ pc[current] \in {"exit", "wait_scan", "user", "read_wake"} /\ irq # "timers"
      /\ UNCHANGED <<time_slice, need_resched, run_list, current, exiting, waitfor, irq>>
      /\ UNCHANGED timerVars /\ UNCHANGED linkVars
      /\ panic' \in {panic, "initproc exit"}
  BY DEF Exit, WaitSleep, ReadSleep, ReadAgain, At
<1>3. state[current] = "RUNNABLE" /\ current # Idle
  BY <1>1, <1>2 DEF IInv, PcInv, States, SleepPcs, WaitPcs, ReadPcs, ZombiePcs
<1>4. \/ UNCHANGED <<state, wait_state, pc>>
      \/ /\ state' = [state EXCEPT ![current] = "ZOMBIE"]
         /\ pc' = [pc EXCEPT ![current] = "exit_parent"]
         /\ UNCHANGED wait_state
      \/ \E why \in {"CHILD", "KBD"} :
            /\ state' = [state EXCEPT ![current] = "SLEEPING"]
            /\ wait_state' = [wait_state EXCEPT ![current] = why]
            /\ pc' = [pc EXCEPT ![current] = IF why = "CHILD" THEN "wait_sched" ELSE "read_sched"]
  BY DEF Exit, WaitSleep, ReadSleep, ReadAgain, SetSleeping, Goto
<1>5. SchedInv'
  <2>1. SchedTypeOK'
    <3>1. state' \in [Procs -> States]
      BY <1>1, <1>4 DEF States
    <3>2. wait_state' \in [Procs -> WaitStates]
      BY <1>1, <1>4 DEF WaitStates
    <3>3. panic' \in {"none", "assert", "init_main assert", "initproc exit"}
      BY <1>2 DEF IInv, SchedInv, SchedTypeOK
    <3> QED BY <1>2, <3>1, <3>2, <3>3 DEF IInv, SchedInv, SchedTypeOK
  <2>2. RunQueueExact'
    <3>1. \A p \in Procs : p # current => state'[p] = state[p]
      BY <1>1, <1>4
    <3>2. current' = current /\ run_list' = run_list /\ RunQueueExact
      BY <1>2 DEF IInv, SchedInv
    <3> QED BY <3>1, <3>2 DEF RunQueueExact, OnRunList
  <2> QED BY <1>2, <2>1, <2>2 DEF IInv, SchedInv, NoAssertFails
<1>6. \A p \in Procs : state'[p] = "FREE" <=> state[p] = "FREE"
  BY <1>1, <1>3, <1>4
<1>7. LinkInv'
  BY <1>2, <1>6 DEF IInv, LinkInv, linkVars
<1>9. PcInv'
  <2>1. CASE UNCHANGED <<state, wait_state, pc>>
    BY <1>2, <2>1 DEF IInv, PcInv, linkVars
  <2>2. CASE /\ state' = [state EXCEPT ![current] = "ZOMBIE"]
             /\ pc' = [pc EXCEPT ![current] = "exit_parent"]
             /\ UNCHANGED wait_state
    <3>1. /\ state'[current] = "ZOMBIE" /\ pc'[current] = "exit_parent"
          /\ wait_state'[current] = wait_state[current]
          /\ \A p \in Procs : p # current => /\ state'[p] = state[p] /\ pc'[p] = pc[p]
                                             /\ wait_state'[p] = wait_state[p]
      BY <1>1, <2>2
    <3>2. pc' \in [Procs -> Pcs] /\ current' = current /\ PcInv
      BY <1>1, <1>2, <2>2 DEF IInv, Pcs
    <3>3. state[current] = "RUNNABLE" => wait_state[current] = "NONE"
      BY <1>1, <3>2 DEF PcInv
    <3> QED BY <1>1, <1>3, <3>1, <3>2, <3>3
            DEF PcInv, SleepPcs, WaitPcs, ReadPcs, ZombiePcs, RestingPcs
  <2>3. ASSUME NEW why \in {"CHILD", "KBD"},
               /\ state' = [state EXCEPT ![current] = "SLEEPING"]
               /\ wait_state' = [wait_state EXCEPT ![current] = why]
               /\ pc' = [pc EXCEPT ![current] = IF why = "CHILD" THEN "wait_sched" ELSE "read_sched"]
        PROVE  PcInv'
    <3>1. /\ state'[current] = "SLEEPING" /\ wait_state'[current] = why
          /\ pc'[current] = IF why = "CHILD" THEN "wait_sched" ELSE "read_sched"
          /\ \A p \in Procs : p # current => /\ state'[p] = state[p] /\ pc'[p] = pc[p]
                                             /\ wait_state'[p] = wait_state[p]
      BY <1>1, <2>3
    <3>2. pc' \in [Procs -> Pcs] /\ current' = current /\ PcInv
      BY <1>1, <1>2, <2>3 DEF IInv, Pcs
    <3>3. state[current] = "RUNNABLE" => wait_state[current] = "NONE"
      BY <1>1, <3>2 DEF PcInv
    <3> QED BY <1>1, <1>3, <3>1, <3>2, <3>3
            DEF PcInv, SleepPcs, WaitPcs, ReadPcs, ZombiePcs, RestingPcs
  <2> QED BY <1>4, <2>1, <2>2, <2>3
<1>8. TimerInv'
  <2>1. /\ pc'[current'] # "sleep_add"
        /\ \A p \in Procs : pc[p] \in {"sleep_sched", "sleep_wake"} =>
                             pc'[p] \in {"sleep_sched", "sleep_wake"}
    BY <1>1, <1>2, <1>4
  <2> QED BY <1>2, <2>1, TimerFrame DEF IInv
<1> QED BY <1>5, <1>7, <1>8, <1>9 DEF IInv

\* The end of init_main only halts the kernel.
LEMMA InitDoneKeeps ==
    ASSUME IInv, InitDone
    PROVE  IInv'
<1>1. /\ UNCHANGED <<state, wait_state, time_slice, need_resched, run_list, current>>
      /\ UNCHANGED timerVars /\ UNCHANGED linkVars /\ UNCHANGED <<exiting, pc, waitfor, irq>>
      /\ panic' \in {"initproc exit", "init_main assert"} /\ pc[current] = "init_done"
  BY DEF InitDone, At
<1>2. SchedInv'
  BY <1>1 DEF IInv, SchedInv, SchedTypeOK, RunQueueExact, OnRunList, NoAssertFails
<1>3. LinkInv' /\ PcInv'
  BY <1>1 DEF IInv, LinkInv, PcInv, linkVars
<1>4. TimerInv'
  BY <1>1 DEF IInv, TimerInv, TimersTypeOK, TimerListExact, timerVars
<1> QED BY <1>2, <1>3, <1>4 DEF IInv

\* Unlinking the timer at i: the others keep their order, and the successor's
\* ticks are again relative to the predecessor.
LEMMA UnlinkedFacts ==
    ASSUME TimersTypeOK, NEW i \in 1..Len(timer_list)
    PROVE  /\ Unlinked(i) \in Seq([proc : Procs, expires : Nat])
           /\ Len(Unlinked(i)) = Len(timer_list) - 1
           /\ \A j \in 1..(Len(timer_list) - 1) :
                /\ Unlinked(i)[j].proc = timer_list[IF j < i THEN j ELSE j + 1].proc
                /\ Unlinked(i)[j].expires =
                     IF j < i THEN timer_list[j].expires
                     ELSE IF j = i THEN timer_list[i + 1].expires + timer_list[i].expires
                     ELSE timer_list[j + 1].expires
<1> DEFINE S == [proc : Procs, expires : Nat]
           n == Len(timer_list)
           s == [j \in 1..n |-> IF j = i + 1
                                THEN [timer_list[j] EXCEPT !.expires = @ + timer_list[i].expires]
                                ELSE timer_list[j]]
<1>1. n \in Nat /\ i \in 1..n
  BY DEF TimersTypeOK
<1>2. \A j \in 1..n : timer_list[j] \in S /\ timer_list[j].proc \in Procs /\ timer_list[j].expires \in Nat
  BY TimerFields
<1>3. \A j \in 1..n : /\ s[j] \in S
                      /\ s[j].proc = timer_list[j].proc
                      /\ s[j].expires = IF j = i + 1 THEN timer_list[j].expires + timer_list[i].expires
                                                     ELSE timer_list[j].expires
  BY <1>1, <1>2
<1>4. s \in Seq(S) /\ Len(s) = n
  <2>1. s \in [1..n -> S]
    BY <1>3
  <2> HIDE DEF s, S
  <2> QED BY <1>1, <2>1
<1>5. Unlinked(i) = RemoveAt(s, i)
  BY DEF Unlinked
<1> HIDE DEF s, S, n
<1>6. /\ RemoveAt(s, i) \in Seq(S) /\ Len(RemoveAt(s, i)) = n - 1
      /\ \A j \in 1..(n - 1) : RemoveAt(s, i)[j] = IF j < i THEN s[j] ELSE s[j + 1]
  BY <1>1, <1>4, RemoveAtFacts
<1>7. ASSUME NEW j \in 1..(n - 1)
      PROVE  /\ Unlinked(i)[j].proc = timer_list[IF j < i THEN j ELSE j + 1].proc
             /\ Unlinked(i)[j].expires =
                  IF j < i THEN timer_list[j].expires
                  ELSE IF j = i THEN timer_list[i + 1].expires + timer_list[i].expires
                  ELSE timer_list[j + 1].expires
  <2>1. CASE j < i
    <3>1. Unlinked(i)[j] = s[j] /\ j \in 1..n /\ j # i + 1
      BY <1>1, <1>5, <1>6, <2>1
    <3> QED BY <1>3, <2>1, <3>1
  <2>2. CASE ~(j < i)
    <3>1. Unlinked(i)[j] = s[j + 1] /\ j + 1 \in 1..n
      BY <1>1, <1>5, <1>6, <2>2
    <3>2. j + 1 = i + 1 <=> j = i
      BY <1>1
    <3> QED BY <1>3, <2>2, <3>1, <3>2
  <2> QED BY <2>1, <2>2
<1> QED BY <1>5, <1>6, <1>7 DEF S, n

\* Unlinking keeps the part of TimerInv that is about the list.
LEMMA UnlinkKeeps ==
    ASSUME TimerInv, NEW i \in 1..Len(timer_list), timer_list' = Unlinked(i),
           walk' = walk, left' \in [Procs -> Int],
           \A p \in Procs : p # timer_list[i].proc => left'[p] = left[p],
           \A p \in Procs : p # timer_list[i].proc => pc'[p] = pc[p]
    PROVE  /\ TimersTypeOK' /\ TimerListExact' /\ Len(timer_list') = Len(timer_list) - 1
           /\ \A j \in 1..Len(timer_list') :
                /\ timer_list'[j].proc \in Procs
                /\ timer_list'[j].proc # timer_list[i].proc
                /\ pc'[timer_list'[j].proc] \in {"sleep_sched", "sleep_wake"}
           /\ \A j, k \in 1..Len(timer_list') :
                timer_list'[j].proc = timer_list'[k].proc => j = k
           /\ timer_list' # <<>> /\ timer_list[1].expires # 0 => timer_list'[1].expires # 0
<1> DEFINE n == Len(timer_list)
           at(j) == IF j < i THEN j ELSE j + 1
<1>0. TimersTypeOK
  BY DEF TimerInv
<1>1. /\ timer_list' \in Seq([proc : Procs, expires : Nat]) /\ Len(timer_list') = n - 1
      /\ \A j \in 1..(n - 1) :
           /\ timer_list'[j].proc = timer_list[at(j)].proc
           /\ timer_list'[j].expires =
                IF j < i THEN timer_list[j].expires
                ELSE IF j = i THEN timer_list[i + 1].expires + timer_list[i].expires
                ELSE timer_list[j + 1].expires
  BY <1>0, UnlinkedFacts
<1>2. n \in Nat /\ i \in 1..n
  BY <1>0 DEF TimersTypeOK
<1>3. \A j \in 1..n : timer_list[j].proc \in Procs /\ timer_list[j].expires \in Nat
                      /\ left[timer_list[j].proc] \in Int
  BY <1>0, TimerFields DEF TimersTypeOK
<1>4. \A j \in 1..(n - 1) : at(j) \in 1..n /\ at(j) # i
  BY <1>2
<1>5. \A j, k \in 1..n : timer_list[j].proc = timer_list[k].proc => j = k
  BY DEF TimerInv
<1>6. \A j \in 1..n : timer_list[j].expires =
         left[timer_list[j].proc] - (IF j = 1 THEN 0 ELSE left[timer_list[j - 1].proc])
  BY DEF TimerInv, TimerListExact
<1>7. TimersTypeOK'
  BY <1>1 DEF TimersTypeOK, TimerInv
<1>8. ASSUME NEW j \in 1..(n - 1)
      PROVE  /\ timer_list'[j].proc \in Procs
             /\ timer_list'[j].proc # timer_list[i].proc
             /\ pc'[timer_list'[j].proc] \in {"sleep_sched", "sleep_wake"}
             /\ left'[timer_list'[j].proc] = left[timer_list[at(j)].proc]
  <2>1. timer_list[at(j)].proc \in Procs /\ timer_list[at(j)].proc # timer_list[i].proc
    BY <1>2, <1>3, <1>4, <1>5
  <2>2. pc[timer_list[at(j)].proc] \in {"sleep_sched", "sleep_wake"}
    BY <1>4 DEF TimerInv
  <2> QED BY <1>1, <2>1, <2>2, ZenonT(60)
<1>9. ASSUME NEW j \in 1..(n - 1), NEW k \in 1..(n - 1), timer_list'[j].proc = timer_list'[k].proc
      PROVE  j = k
  <2>0. /\ timer_list[at(j)].proc = timer_list[at(k)].proc
        /\ at(j) \in 1..n /\ at(k) \in 1..n
    BY <1>1, <1>4, <1>9
  <2> HIDE DEF at
  <2>1. at(j) = at(k)
    BY <1>5, <2>0
  <2> USE DEF at
  <2> QED BY <1>2, <2>1
<1>10. ASSUME NEW j \in 1..(n - 1)
       PROVE  timer_list'[j].expires =
                left'[timer_list'[j].proc] - (IF j = 1 THEN 0 ELSE left'[timer_list'[j - 1].proc])
  <2>1. CASE j = 1
    <3>1. left'[timer_list'[1].proc] = left[timer_list[at(1)].proc]
      BY <1>8, <2>1
    <3>2. CASE i = 1
      <4>1. at(1) = 2 /\ 1 \in 1..n /\ 2 \in 1..n /\ 2 # 1 /\ 2 - 1 = 1
        BY <1>2, <2>1, <3>2
      <4>2. timer_list'[1].expires = timer_list[2].expires + timer_list[1].expires
        BY <1>1, <1>2, <2>1, <3>2
      <4>3. timer_list[2].expires = left[timer_list[2].proc] - left[timer_list[1].proc]
        BY <1>6, <4>1
      <4>4. timer_list[1].expires = left[timer_list[1].proc] - 0
        BY <1>6, <4>1
      <4>5. left[timer_list[1].proc] \in Int /\ left[timer_list[2].proc] \in Int
        BY <1>3, <4>1
      <4> QED BY <2>1, <3>1, <4>1, <4>2, <4>3, <4>4, <4>5
    <3>3. CASE i # 1
      <4>1. at(1) = 1 /\ 1 \in 1..n /\ 1 < i
        BY <1>2, <3>3
      <4>2. timer_list'[1].expires = timer_list[1].expires
        BY <1>1, <2>1, <4>1
      <4> QED BY <1>6, <2>1, <3>1, <4>1, <4>2
    <3> QED BY <3>2, <3>3
  <2>2. CASE j # 1
    <3>1. j - 1 \in 1..(n - 1)
      BY <1>2, <2>2
    <3>2. /\ left'[timer_list'[j].proc] = left[timer_list[at(j)].proc]
          /\ left'[timer_list'[j - 1].proc] = left[timer_list[at(j - 1)].proc]
      BY <1>8, <3>1
    <3>3. CASE j < i
      <4>1. at(j) = j /\ at(j - 1) = j - 1 /\ j \in 1..n
        BY <1>2, <3>3
      <4>2. timer_list'[j].expires = timer_list[j].expires
        BY <1>1, <3>3
      <4> QED BY <1>6, <2>2, <3>2, <4>1, <4>2
    <3>4. CASE j = i
      <4>1. at(j) = i + 1 /\ at(j - 1) = i - 1 /\ i + 1 \in 1..n /\ i - 1 \in 1..n /\ i # 1
        BY <1>2, <2>2, <3>4
      <4>2. timer_list'[j].expires = timer_list[i + 1].expires + timer_list[i].expires
        BY <1>1, <3>4, SMTT(30)
      <4>3. timer_list[i + 1].expires = left[timer_list[i + 1].proc] - left[timer_list[i].proc]
        BY <1>2, <1>6, <4>1
      <4>4. timer_list[i].expires = left[timer_list[i].proc] - left[timer_list[i - 1].proc]
        BY <1>2, <1>6, <4>1
      <4>5. /\ left[timer_list[i + 1].proc] \in Int /\ left[timer_list[i].proc] \in Int
            /\ left[timer_list[i - 1].proc] \in Int
        BY <1>2, <1>3, <4>1
      <4> QED BY <2>2, <3>2, <4>1, <4>2, <4>3, <4>4, <4>5, SMTT(30)
    <3>5. CASE j > i
      <4>1. at(j) = j + 1 /\ at(j - 1) = j /\ j + 1 \in 1..n /\ j + 1 # 1
        BY <1>2, <3>5
      <4>2. timer_list'[j].expires = timer_list[j + 1].expires
        BY <1>1, <1>2, <3>5, SMTT(30)
      <4> QED BY <1>6, <2>2, <3>2, <4>1, <4>2
    <3> QED BY <1>2, <3>3, <3>4, <3>5
  <2> QED BY <2>1, <2>2
<1>11. TimerListExact'
  BY <1>1, <1>10 DEF TimerListExact
<1>12. timer_list' # <<>> /\ timer_list[1].expires # 0 => timer_list'[1].expires # 0
  <2>1. SUFFICES ASSUME timer_list' # <<>>, timer_list[1].expires # 0
                 PROVE  timer_list'[1].expires # 0
    OBVIOUS
  <2>2. 1 \in 1..(n - 1) /\ 2 \in 1..n
    BY <1>1, <1>2, <2>1
  <2>3. CASE i = 1
    <3>1. timer_list'[1].expires = timer_list[2].expires + timer_list[1].expires
      BY <1>1, <2>2, <2>3
    <3>2. timer_list[1].expires \in Nat /\ timer_list[2].expires \in Nat
      BY <1>2, <1>3, <2>2, <2>3
    <3> QED BY <2>1, <3>1, <3>2
  <2>4. CASE i # 1
    <3>1. timer_list'[1].expires = timer_list[1].expires
      BY <1>1, <1>2, <2>2, <2>4
    <3> QED BY <2>1, <3>1
  <2> QED BY <2>3, <2>4
<1> QED BY <1>1, <1>7, <1>8, <1>9, <1>11, <1>12

\* add_timer links the timer of the current process in at its cursor.
LEMMA LinkKeeps ==
    ASSUME TimerInv, current \in Procs, pc[current] = "sleep_add", AddTimerLink(current),
           pc' = [pc EXCEPT ![current] = "sleep_sched"], pc \in [Procs -> Pcs],
           UNCHANGED <<current, irq>>
    PROVE  TimerInv'
<1> DEFINE S == [proc : Procs, expires : Nat]
           n == Len(timer_list)
           le == walk.le
           s == [j \in 1..n |-> IF j = le THEN [timer_list[j] EXCEPT !.expires = @ - walk.expires]
                                          ELSE timer_list[j]]
           e == Timer(current, walk.expires)
<1>0. TimersTypeOK /\ AddTimerStops /\ UNCHANGED left
  BY DEF TimerInv, AddTimerLink
<1>1. /\ n \in Nat /\ le \in 1..(n + 1) /\ walk.expires \in Nat /\ left[current] \in Int
      /\ le = 1 => walk.expires # 0
      /\ walk.expires = left[current] - (IF le = 1 THEN 0 ELSE left[timer_list[le - 1].proc])
      /\ walk' = [le |-> 1, expires |-> 0]
      /\ le <= n => walk.expires < timer_list[le].expires
  BY <1>0 DEF TimersTypeOK, TimerInv, AddTimerStops, AddTimerLink
<1>2. \A j \in 1..n : /\ timer_list[j] \in S
                      /\ timer_list[j].proc \in Procs /\ timer_list[j].expires \in Nat
                      /\ left[timer_list[j].proc] \in Int
  BY <1>0, TimerFields DEF TimersTypeOK
<1>3. \A j \in 1..n : /\ s[j] \in S
                      /\ s[j].proc = timer_list[j].proc
                      /\ s[j].expires = IF j = le THEN timer_list[j].expires - walk.expires
                                                  ELSE timer_list[j].expires
  BY <1>1, <1>2
<1>4. s \in Seq(S) /\ Len(s) = n
  <2>1. s \in [1..n -> S]
    BY <1>3
  <2> HIDE DEF s, S
  <2> QED BY <1>1, <2>1
<1>5. e \in S /\ e.proc = current /\ e.expires = walk.expires
  BY <1>1 DEF Timer
<1>6. timer_list' = InsertAt(s, le, e)
  BY DEF AddTimerLink
<1> HIDE DEF s, S, n, le, e
<1>7. /\ timer_list' \in Seq(S) /\ Len(timer_list') = n + 1
      /\ \A j \in 1..(n + 1) :
           timer_list'[j] = IF j < le THEN s[j] ELSE IF j = le THEN e ELSE s[j - 1]
  <2>1. le \in 1..(Len(s) + 1) /\ s \in Seq(S) /\ e \in S
    BY <1>1, <1>4, <1>5
  <2>2. /\ InsertAt(s, le, e) \in Seq(S)
        /\ Len(InsertAt(s, le, e)) = Len(s) + 1
        /\ \A j \in 1..(Len(s) + 1) :
             InsertAt(s, le, e)[j] = IF j < le THEN s[j] ELSE IF j = le THEN e ELSE s[j - 1]
    <3>1. IsInsertion(InsertAt(s, le, e), S, s, le, e)
      BY <2>1, InsertAtFacts
    <3> QED BY <3>1 DEF IsInsertion
  <2> QED BY <1>4, <1>6, <2>2
<1>8. /\ \A j \in 1..(n + 1) : j < le =>
           /\ j \in 1..n
           /\ timer_list'[j].proc = timer_list[j].proc
           /\ timer_list'[j].expires = timer_list[j].expires
      /\ timer_list'[le].proc = current /\ timer_list'[le].expires = walk.expires
      /\ \A j \in 1..(n + 1) : j > le =>
           /\ j - 1 \in 1..n
           /\ timer_list'[j].proc = timer_list[j - 1].proc
           /\ timer_list'[j].expires = IF j - 1 = le THEN timer_list[le].expires - walk.expires
                                                     ELSE timer_list[j - 1].expires
  <2>1. ASSUME NEW j \in 1..(n + 1), j < le
        PROVE  /\ j \in 1..n
               /\ timer_list'[j].proc = timer_list[j].proc
               /\ timer_list'[j].expires = timer_list[j].expires
    <3>1. j \in 1..n /\ j # le /\ timer_list'[j] = s[j]
      BY <1>1, <1>7, <2>1
    <3> QED BY <1>3, <3>1
  <2>2. timer_list'[le].proc = current /\ timer_list'[le].expires = walk.expires
    <3>1. timer_list'[le] = e
      BY <1>1, <1>7
    <3> QED BY <1>5, <3>1
  <2>3. ASSUME NEW j \in 1..(n + 1), j > le
        PROVE  /\ j - 1 \in 1..n
               /\ timer_list'[j].proc = timer_list[j - 1].proc
               /\ timer_list'[j].expires = IF j - 1 = le THEN timer_list[le].expires - walk.expires
                                                         ELSE timer_list[j - 1].expires
    <3>1. j - 1 \in 1..n /\ timer_list'[j] = s[j - 1]
      BY <1>1, <1>7, <2>3
    <3> QED BY <1>3, <3>1
  <2> QED BY <2>1, <2>2, <2>3
<1>9. \A j \in 1..n : timer_list[j].proc # current
                      /\ pc[timer_list[j].proc] \in {"sleep_sched", "sleep_wake"}
  BY DEF TimerInv, n
<1>10. \A j, k \in 1..n : timer_list[j].proc = timer_list[k].proc => j = k
  BY DEF TimerInv, n
<1>11. \A j \in 1..n : timer_list[j].expires =
         left[timer_list[j].proc] - (IF j = 1 THEN 0 ELSE left[timer_list[j - 1].proc])
  BY DEF TimerInv, TimerListExact, n
<1>12. TimersTypeOK'
  BY <1>0, <1>1, <1>7 DEF TimersTypeOK, S
<1>13. ASSUME NEW j \in 1..(n + 1)
       PROVE  timer_list'[j].expires =
                left[timer_list'[j].proc] - (IF j = 1 THEN 0 ELSE left[timer_list'[j - 1].proc])
  <2>1. CASE j < le
    BY <1>1, <1>8, <1>11, <2>1
  <2>2. CASE j = le
    BY <1>1, <1>8, <2>2
  <2>3. CASE j = le + 1
    <3>1. le \in 1..n /\ j # 1 /\ j - 1 = le
      BY <1>1, <2>3
    <3>2. /\ timer_list'[j].expires = timer_list[le].expires - walk.expires
          /\ timer_list'[j].proc = timer_list[le].proc
          /\ timer_list'[j - 1].proc = current
      BY <1>1, <1>8, <2>3, <3>1
    <3>3. timer_list[le].expires =
            left[timer_list[le].proc] - (IF le = 1 THEN 0 ELSE left[timer_list[le - 1].proc])
      BY <1>11, <3>1
    <3>4. left[timer_list[le].proc] \in Int
          /\ (le # 1 => left[timer_list[le - 1].proc] \in Int)
      BY <1>1, <1>2, <3>1
    <3> QED BY <1>1, <3>1, <3>2, <3>3, <3>4
  <2>4. CASE j > le + 1
    <3>1. j - 1 \in 1..n /\ j - 1 # 1 /\ j # 1 /\ j - 1 \in 1..(n + 1) /\ j - 1 > le /\ j > le
      BY <1>1, <2>4
    <3>2. /\ timer_list'[j].expires = timer_list[j - 1].expires
          /\ timer_list'[j].proc = timer_list[j - 1].proc
          /\ timer_list'[j - 1].proc = timer_list[(j - 1) - 1].proc
      BY <1>8, <3>1
    <3> QED BY <1>11, <3>1, <3>2
  <2> QED BY <1>1, <2>1, <2>2, <2>3, <2>4
<1>14. TimerListExact'
  BY <1>0, <1>7, <1>13 DEF TimerListExact
<1>15. \A j \in 1..(n + 1) : pc'[timer_list'[j].proc] \in {"sleep_sched", "sleep_wake"}
  <2>1. ASSUME NEW j \in 1..(n + 1) PROVE pc'[timer_list'[j].proc] \in {"sleep_sched", "sleep_wake"}
    <3>1. CASE j = le
      BY <1>8, <3>1
    <3>2. CASE j # le
      <4>1. PICK k \in 1..n : timer_list'[j].proc = timer_list[k].proc
        BY <1>1, <1>8, <3>2
      <4> QED BY <1>2, <1>9, <4>1
    <3> QED BY <3>1, <3>2
  <2> QED BY <2>1
<1>16. \A j, k \in 1..(n + 1) : timer_list'[j].proc = timer_list'[k].proc => j = k
  <2>1. ASSUME NEW j \in 1..(n + 1), NEW k \in 1..(n + 1),
               timer_list'[j].proc = timer_list'[k].proc
        PROVE  j = k
    <3>1. CASE j = le
      BY <1>1, <1>8, <1>9, <2>1, <3>1
    <3>2. CASE k = le
      BY <1>1, <1>8, <1>9, <2>1, <3>2
    <3>3. CASE j # le /\ k # le
      <4>1. (IF j < le THEN j ELSE j - 1) = (IF k < le THEN k ELSE k - 1)
        BY <1>1, <1>8, <1>10, <2>1, <3>3
      <4> QED BY <1>1, <3>3, <4>1
    <3> QED BY <3>1, <3>2, <3>3
  <2> QED BY <2>1
<1>17. irq' # "timers" /\ timer_list' # <<>> => timer_list'[1].expires # 0
  <2>1. CASE le = 1
    BY <1>1, <1>8, <2>1
  <2>2. CASE le # 1
    <3>1. 1 \in 1..(n + 1) /\ 1 < le /\ timer_list # <<>> /\ irq' = irq
      BY <1>1, <2>2 DEF n
    <3>2. timer_list'[1].expires = timer_list[1].expires
      BY <1>8, <3>1
    <3> QED BY <3>1, <3>2 DEF TimerInv
  <2> QED BY <2>1, <2>2
<1>18. pc'[current'] # "sleep_add"
  OBVIOUS
<1> QED BY <1>7, <1>12, <1>14, <1>15, <1>16, <1>17, <1>18 DEF TimerInv

\* do_sleep puts the current process to sleep and enters add_timer.
LEMMA SleepKeeps ==
    ASSUME IInv, NEW t \in Times, Sleep(t)
    PROVE  IInv'
<1> USE SchedAssumption, ProcAssumption
<1>1. /\ current \in Procs /\ pc \in [Procs -> Pcs] /\ state \in [Procs -> States]
      /\ wait_state \in [Procs -> WaitStates] /\ pc[current] \in {"user", "kthread"}
      /\ irq \notin {"timers", "input"}
  BY DEF IInv, SchedInv, SchedTypeOK, PcInv, Sleep, At
<1>2. state[current] = "RUNNABLE" /\ current # Idle
  BY <1>1 DEF IInv, PcInv, States, SleepPcs, WaitPcs, ReadPcs, ZombiePcs
<1>3. ~HasTimer(current)
  BY <1>1 DEF HasTimer, IInv, TimerInv
<1>4. t \in Nat /\ t > 0
  OBVIOUS
<1>5. /\ state' = [state EXCEPT ![current] = "SLEEPING"]
      /\ wait_state' = [wait_state EXCEPT ![current] = "TIMER"]
      /\ pc' = [pc EXCEPT ![current] = "sleep_add"]
      /\ walk' = [le |-> 1, expires |-> t] /\ left' = [left EXCEPT ![current] = t]
      /\ UNCHANGED timer_list /\ panic' = panic
      /\ UNCHANGED <<time_slice, need_resched, run_list, current, exiting, waitfor, irq>>
      /\ UNCHANGED linkVars
  BY <1>3, <1>4 DEF Sleep, SetSleeping, AddTimerBegin, Assert_, Goto
<1>6. SchedInv'
  <2>1. SchedTypeOK'
    BY <1>1, <1>5 DEF IInv, SchedInv, SchedTypeOK, States, WaitStates
  <2>2. RunQueueExact'
    BY <1>1, <1>2, <1>5 DEF IInv, SchedInv, SchedTypeOK, RunQueueExact, OnRunList
  <2> QED BY <1>5, <2>1, <2>2 DEF IInv, SchedInv, NoAssertFails
<1>7. LinkInv'
  <2>1. \A p \in Procs : state'[p] = "FREE" <=> state[p] = "FREE"
    BY <1>1, <1>2, <1>5
  <2> QED BY <1>5, <2>1 DEF IInv, LinkInv, linkVars
<1>8. PcInv'
  BY <1>1, <1>2, <1>5 DEF IInv, PcInv, linkVars, Pcs, SleepPcs, WaitPcs, ReadPcs, ZombiePcs, RestingPcs
<1>9. TimerInv'
  <2>1. TimersTypeOK /\ left \in [Procs -> Int] /\ Len(timer_list) \in Nat
    BY DEF IInv, TimerInv, TimersTypeOK
  <2>2. TimersTypeOK'
    BY <1>1, <1>4, <1>5, <2>1 DEF TimersTypeOK
  <2>3. \A j \in 1..Len(timer_list) : timer_list[j].proc \in Procs \ {current}
    BY <1>3, <2>1, TimerFields DEF HasTimer
  <2>4. TimerListExact'
    <3>1. \A j \in 1..Len(timer_list) : left'[timer_list[j].proc] = left[timer_list[j].proc]
      BY <1>5, <2>1, <2>3
    <3>2. \A j \in 1..Len(timer_list) : j # 1 => j - 1 \in 1..Len(timer_list)
      BY <2>1
    <3> QED BY <1>5, <3>1, <3>2 DEF IInv, TimerInv, TimerListExact
  <2>5. /\ walk'.le = 1 /\ walk'.expires = t /\ left'[current] = t
    BY <1>1, <1>5, <2>1
  <2>6. \A j \in 1..Len(timer_list) : pc'[timer_list[j].proc] = pc[timer_list[j].proc]
    BY <1>1, <1>5, <2>3
  <2> QED BY <1>1, <1>4, <1>5, <2>1, <2>2, <2>4, <2>5, <2>6 DEF IInv, TimerInv
<1> QED BY <1>6, <1>7, <1>8, <1>9 DEF IInv

\* add_timer's loop and its list_add_before.
LEMMA SleepAddKeeps ==
    ASSUME IInv, SleepAdd
    PROVE  IInv'
<1> USE SchedAssumption, ProcAssumption
<1>1. /\ current \in Procs /\ pc \in [Procs -> Pcs] /\ pc[current] = "sleep_add" /\ irq # "timers"
      /\ UNCHANGED <<state, wait_state, time_slice, need_resched, run_list, current,
                     exiting, waitfor, irq>>
      /\ UNCHANGED linkVars
      /\ TimerInv
  BY DEF IInv, SchedInv, SchedTypeOK, PcInv, SleepAdd, At
<1>2. panic' = panic
  BY DEF SleepAdd, AddTimerPass, AddTimerLink
<1>3. SchedInv'
  BY <1>1, <1>2 DEF IInv, SchedInv, SchedTypeOK, RunQueueExact, OnRunList, NoAssertFails
<1>4. LinkInv'
  BY <1>1 DEF IInv, LinkInv, linkVars
<1>5. CASE AddTimerPass /\ UNCHANGED pc
  <2>1. PcInv'
    BY <1>1, <1>5 DEF IInv, PcInv, linkVars
  <2>2. TimersTypeOK /\ Len(timer_list) \in Nat /\ walk.le \in Nat \ {0} /\ walk.expires \in Nat
    BY <1>1 DEF TimerInv, TimersTypeOK
  <2>3. walk.le \in 1..Len(timer_list) /\ ~(walk.expires < timer_list[walk.le].expires)
    BY <1>5, <2>2 DEF AddTimerPass, AddTimerStops
  <2>4. /\ timer_list[walk.le].expires \in Nat /\ timer_list[walk.le].proc \in Procs
        /\ left[timer_list[walk.le].proc] \in Int /\ left[current] \in Int
    BY <1>1, <2>2, <2>3, TimerFields DEF TimersTypeOK
  <2>5. /\ walk'.le = walk.le + 1 /\ walk'.le - 1 = walk.le /\ walk'.le # 1
        /\ walk'.expires = walk.expires - timer_list[walk.le].expires
        /\ walk' \in [le : Nat \ {0}, expires : Nat]
        /\ UNCHANGED <<timer_list, left>>
    BY <1>5, <2>2, <2>3, <2>4, SMTT(30) DEF AddTimerPass
  <2>6. timer_list[walk.le].expires =
          left[timer_list[walk.le].proc]
          - (IF walk.le = 1 THEN 0 ELSE left[timer_list[walk.le - 1].proc])
    BY <1>1, <2>3 DEF TimerInv, TimerListExact
  <2>7. walk.le # 1 => left[timer_list[walk.le - 1].proc] \in Int
    BY <2>2, <2>3, TimerFields, SMTT(30) DEF TimersTypeOK
  <2>8. walk'.expires = left[current] - left[timer_list[walk.le].proc]
    <3>1. walk.expires = left[current] - (IF walk.le = 1 THEN 0
                                          ELSE left[timer_list[walk.le - 1].proc])
      BY <1>1 DEF TimerInv
    <3>2. CASE walk.le = 1
      BY <2>2, <2>4, <2>5, <2>6, <3>1, <3>2
    <3>3. CASE walk.le # 1
      <4>1. walk.expires = left[current] - left[timer_list[walk.le - 1].proc]
        BY <3>1, <3>3
      <4>2. timer_list[walk.le].expires =
              left[timer_list[walk.le].proc] - left[timer_list[walk.le - 1].proc]
        BY <2>6, <3>3
      <4>3. \A a, b, c, x, y \in Int : x = a - b /\ y = c - b => x - y = a - c
        OBVIOUS
      <4>4. walk.expires - timer_list[walk.le].expires = left[current] - left[timer_list[walk.le].proc]
        BY <2>2, <2>4, <2>7, <3>3, <4>1, <4>2, <4>3, SMTT(30)
      <4> QED BY <2>5, <4>4
    <3> QED BY <3>2, <3>3
  <2>9. TimersTypeOK' /\ TimerListExact'
    BY <1>1, <2>5 DEF TimerInv, TimersTypeOK, TimerListExact
  <2>10. walk'.le <= Len(timer_list) + 1
    BY <2>2, <2>3, <2>5
  <2>11. TimerInv'
    <3>1. /\ timer_list' = timer_list /\ left' = left /\ pc' = pc /\ irq' = irq
          /\ current' = current
      BY <1>1, <1>5, <2>5
    <3>2. walk'.expires = left'[current'] - (IF walk'.le = 1 THEN 0
                                             ELSE left'[timer_list'[walk'.le - 1].proc])
      BY <2>5, <2>8, <3>1
    <3> QED BY <1>1, <2>5, <2>9, <2>10, <3>1, <3>2 DEF TimerInv
  <2> QED BY <1>3, <1>4, <2>1, <2>11 DEF IInv
<1>6. CASE AddTimerLink(current) /\ Goto("sleep_sched")
  <2>1. pc' = [pc EXCEPT ![current] = "sleep_sched"]
    BY <1>6 DEF Goto
  <2>2. PcInv'
    BY <1>1, <2>1 DEF IInv, PcInv, linkVars, Pcs, SleepPcs, WaitPcs, ReadPcs, ZombiePcs, RestingPcs
  <2>3. TimerInv'
    BY <1>1, <1>6, <2>1, LinkKeeps
  <2> QED BY <1>3, <1>4, <2>2, <2>3 DEF IInv
<1> QED BY <1>5, <1>6 DEF SleepAdd

\* del_timer at the end of do_sleep, whether the timer is still linked or not.
LEMMA SleepWakeKeeps ==
    ASSUME IInv, SleepWake
    PROVE  IInv'
<1> USE SchedAssumption, ProcAssumption
<1> DEFINE l == IF current \in kthread THEN "kthread" ELSE "trap_ret"
<1>1. /\ current \in Procs /\ pc \in [Procs -> Pcs] /\ pc[current] = "sleep_wake" /\ irq # "timers"
      /\ pc' = [pc EXCEPT ![current] = l]
      /\ UNCHANGED <<state, wait_state, time_slice, need_resched, run_list, current, panic>>
      /\ UNCHANGED <<exiting, waitfor, irq>> /\ UNCHANGED linkVars
      /\ TimerInv /\ DelTimer(current)
  BY DEF IInv, SchedInv, SchedTypeOK, PcInv, SleepWake, At, Goto, schedVars
<1>2. SchedInv'
  BY <1>1 DEF IInv, SchedInv, SchedTypeOK, RunQueueExact, OnRunList, NoAssertFails
<1>3. LinkInv'
  BY <1>1 DEF IInv, LinkInv, linkVars
<1>4. PcInv'
  BY <1>1 DEF IInv, PcInv, linkVars, Pcs, SleepPcs, WaitPcs, ReadPcs, ZombiePcs, RestingPcs
<1>5. TimersTypeOK /\ left \in [Procs -> Int] /\ left' = [left EXCEPT ![current] = 0]
      /\ walk' = walk
  BY <1>1 DEF TimerInv, TimersTypeOK, DelTimer
<1>6. /\ left' \in [Procs -> Int]
      /\ \A p \in Procs : p # current => left'[p] = left[p] /\ pc'[p] = pc[p]
  BY <1>1, <1>5
<1>7. TimerInv'
  <2>1. CASE HasTimer(current)
    <3> DEFINE i == CHOOSE j \in 1..Len(timer_list) : timer_list[j].proc = current
    <3>1. i \in 1..Len(timer_list) /\ timer_list[i].proc = current
      BY <2>1 DEF HasTimer
    <3>2. timer_list' = Unlinked(i)
      BY <1>1, <2>1 DEF DelTimer
    <3> HIDE DEF i
    <3>3. /\ TimersTypeOK' /\ TimerListExact' /\ Len(timer_list') = Len(timer_list) - 1
          /\ \A j \in 1..Len(timer_list') :
               pc'[timer_list'[j].proc] \in {"sleep_sched", "sleep_wake"}
          /\ \A j, k \in 1..Len(timer_list') :
               timer_list'[j].proc = timer_list'[k].proc => j = k
          /\ timer_list' # <<>> /\ timer_list[1].expires # 0 => timer_list'[1].expires # 0
      BY <1>1, <1>5, <1>6, <3>1, <3>2, UnlinkKeeps
    <3>4. timer_list[1].expires # 0
      <4>1. timer_list # <<>>
        BY <3>1
      <4> QED BY <1>1, <4>1 DEF TimerInv
    <3>5. pc'[current'] # "sleep_add"
      BY <1>1
    <3> QED BY <3>3, <3>4, <3>5 DEF TimerInv
  <2>2. CASE ~HasTimer(current)
    <3>1. timer_list' = timer_list
      BY <1>1, <2>2 DEF DelTimer
    <3>2. \A j \in 1..Len(timer_list) : timer_list[j].proc \in Procs \ {current}
      BY <1>5, <2>2, TimerFields DEF HasTimer
    <3>3. /\ \A j \in 1..Len(timer_list) : /\ left'[timer_list[j].proc] = left[timer_list[j].proc]
                                           /\ pc'[timer_list[j].proc] = pc[timer_list[j].proc]
          /\ Len(timer_list) \in Nat
      BY <1>5, <1>6, <3>2, SMTT(30) DEF TimersTypeOK
    <3>4. \A j \in 1..Len(timer_list) : j # 1 => j - 1 \in 1..Len(timer_list)
      BY <3>3
    <3>5. TimerListExact'
      BY <1>1, <3>1, <3>3, <3>4 DEF TimerInv, TimerListExact
    <3>6. TimersTypeOK'
      BY <1>5, <1>6, <3>1 DEF TimersTypeOK
    <3>7. pc'[current'] # "sleep_add"
      BY <1>1
    <3> QED BY <1>1, <3>1, <3>3, <3>5, <3>6, <3>7 DEF TimerInv
  <2> QED BY <2>1, <2>2
<1> QED BY <1>2, <1>3, <1>4, <1>7 DEF IInv

\* The clock interrupt takes one tick off the head, and so off every timer.
LEMMA TickKeeps ==
    ASSUME IInv, Tick
    PROVE  IInv'
<1> USE SchedAssumption, ProcAssumption
<1>1. /\ irq = "none" /\ irq' = "timers" /\ pc[current] # "sleep_add"
      /\ UNCHANGED <<state, wait_state, time_slice, need_resched, run_list, current, exiting, pc, waitfor>>
      /\ UNCHANGED linkVars /\ RunTimerBegin /\ TimerInv
  BY DEF Tick, InterruptsOn, IInv
<1>2. /\ TimersTypeOK /\ left \in [Procs -> Int] /\ Len(timer_list) \in Nat
      /\ \A j \in 1..Len(timer_list) : timer_list[j] \in [proc : Procs, expires : Nat]
      /\ \A j \in 1..Len(timer_list) : timer_list[j].proc \in Procs /\ timer_list[j].expires \in Nat
  BY <1>1, TimerFields, SMTT(30) DEF TimerInv, TimersTypeOK
<1>3. timer_list # <<>> => timer_list[1].expires # 0 /\ 1 \in 1..Len(timer_list)
  BY <1>1, <1>2 DEF TimerInv, TimersTypeOK
<1>4. panic' = panic
  BY <1>1, <1>3 DEF RunTimerBegin, Assert_
<1>5. SchedInv' /\ LinkInv' /\ PcInv'
  <2>1. SchedInv'
    BY <1>1, <1>4 DEF IInv, SchedInv, SchedTypeOK, RunQueueExact, OnRunList, NoAssertFails
  <2>2. LinkInv'
    BY <1>1 DEF IInv, LinkInv, linkVars
  <2>3. PcInv'
    BY <1>1 DEF IInv, PcInv, linkVars
  <2> QED BY <2>1, <2>2, <2>3
<1>6. /\ left' = [p \in Procs |-> IF HasTimer(p) THEN left[p] - 1 ELSE left[p]] /\ walk' = walk
      /\ left' \in [Procs -> Int]
  BY <1>1, <1>2 DEF RunTimerBegin
<1>7. CASE timer_list = <<>>
  <2>1. timer_list' = <<>>
    BY <1>1, <1>7 DEF RunTimerBegin
  <2>2. TimersTypeOK'
    BY <1>2, <1>6, <1>7, <2>1 DEF TimersTypeOK
  <2>3. TimerListExact'
    BY <2>1 DEF TimerListExact
  <2>4. TimerInv'
    BY <1>1, <2>1, <2>2, <2>3 DEF TimerInv
  <2> QED BY <1>5, <2>4 DEF IInv
<1>8. CASE timer_list # <<>>
  <2> DEFINE S == [proc : Procs, expires : Nat]
  <2>1. timer_list' = [timer_list EXCEPT ![1].expires = @ - 1]
    BY <1>1, <1>8 DEF RunTimerBegin
  <2>2. timer_list[1].expires - 1 \in Nat
    BY <1>2, <1>3, <1>8
  <2>3. [timer_list[1] EXCEPT !.expires = @ - 1] \in S
    BY <1>2, <1>3, <1>8, <2>2
  <2>4. timer_list' = [timer_list EXCEPT ![1] = [timer_list[1] EXCEPT !.expires = @ - 1]]
    BY <2>1
  <2>5. /\ timer_list' \in Seq(S) /\ Len(timer_list') = Len(timer_list)
        /\ \A j \in 1..Len(timer_list) :
             timer_list'[j] = IF j = 1 THEN [timer_list[1] EXCEPT !.expires = @ - 1] ELSE timer_list[j]
    <3> DEFINE e == [timer_list[1] EXCEPT !.expires = @ - 1]
    <3>1. /\ e \in S /\ timer_list \in Seq(S) /\ timer_list' = [timer_list EXCEPT ![1] = e]
          /\ 1 \in 1..Len(timer_list)
      BY <1>2, <1>3, <1>8, <2>3, <2>4 DEF TimersTypeOK
    <3> HIDE DEF e, S
    <3>2. /\ [timer_list EXCEPT ![1] = e] \in Seq(S)
          /\ Len([timer_list EXCEPT ![1] = e]) = Len(timer_list)
          /\ \A j \in 1..Len(timer_list) :
               [timer_list EXCEPT ![1] = e][j] = IF j = 1 THEN e ELSE timer_list[j]
      BY <3>1, UpdateFacts
    <3>3. /\ timer_list' \in Seq(S) /\ Len(timer_list') = Len(timer_list)
          /\ \A j \in 1..Len(timer_list) : timer_list'[j] = IF j = 1 THEN e ELSE timer_list[j]
      BY <3>1, <3>2, Zenon
    <3> QED BY <3>3 DEF e
  <2>6. \A j \in 1..Len(timer_list) :
          /\ timer_list'[j].proc = timer_list[j].proc
          /\ timer_list'[j].expires = IF j = 1 THEN timer_list[j].expires - 1 ELSE timer_list[j].expires
    <3>1. \A r \in S : /\ [r EXCEPT !.expires = r.expires - 1].proc = r.proc
                       /\ [r EXCEPT !.expires = r.expires - 1].expires = r.expires - 1
      OBVIOUS
    <3>2. 1 \in 1..Len(timer_list) /\ timer_list[1] \in S
      BY <1>2, <1>3, <1>8
    <3> HIDE DEF S
    <3> QED BY <2>5, <3>1, <3>2, ZenonT(60)
  <2>7. \A j \in 1..Len(timer_list) : left'[timer_list[j].proc] = left[timer_list[j].proc] - 1
                                      /\ left[timer_list[j].proc] \in Int
    BY <1>2, <1>6 DEF HasTimer
  <2>8. \A j \in 1..Len(timer_list) : timer_list[j].expires =
          left[timer_list[j].proc] - (IF j = 1 THEN 0 ELSE left[timer_list[j - 1].proc])
    BY <1>1 DEF TimerInv, TimerListExact
  <2>9. ASSUME NEW j \in 1..Len(timer_list)
        PROVE  timer_list'[j].expires =
                 left'[timer_list'[j].proc] - (IF j = 1 THEN 0 ELSE left'[timer_list'[j - 1].proc])
    <3>1. CASE j = 1
      BY <2>6, <2>7, <2>8, <3>1, SMTT(30)
    <3>2. CASE j # 1
      <4>1. j - 1 \in 1..Len(timer_list)
        BY <1>2, <3>2
      <4>2. /\ timer_list'[j].expires = left[timer_list[j].proc] - left[timer_list[j - 1].proc]
            /\ left'[timer_list'[j].proc] = left[timer_list[j].proc] - 1
            /\ left'[timer_list'[j - 1].proc] = left[timer_list[j - 1].proc] - 1
            /\ left[timer_list[j].proc] \in Int /\ left[timer_list[j - 1].proc] \in Int
        BY <2>6, <2>7, <2>8, <3>2, <4>1
      <4>3. \A a, b \in Int : a - b = (a - 1) - (b - 1)
        OBVIOUS
      <4> QED BY <3>2, <4>2, <4>3
    <3> QED BY <3>1, <3>2
  <2>10. TimersTypeOK' /\ TimerListExact'
    BY <1>2, <1>6, <2>5, <2>9 DEF TimersTypeOK, TimerListExact
  <2>11. /\ \A j \in 1..Len(timer_list') : pc'[timer_list'[j].proc] \in {"sleep_sched", "sleep_wake"}
         /\ \A j, k \in 1..Len(timer_list') : timer_list'[j].proc = timer_list'[k].proc => j = k
    BY <1>1, <2>5, <2>6 DEF TimerInv
  <2>12. TimerInv'
    BY <1>1, <2>10, <2>11 DEF TimerInv
  <2> QED BY <1>5, <2>12 DEF IInv
<1> QED BY <1>7, <1>8

\* One iteration of run_timer_list: the sleeper is woken, its timer unlinked.
LEMMA TickTimerKeeps ==
    ASSUME IInv, TickTimer
    PROVE  IInv'
<1> USE SchedAssumption, ProcAssumption
<1> DEFINE p == timer_list[1].proc
<1>1. /\ irq = "timers" /\ RunTimerStep /\ RunTimerExpired /\ TimerInv
      /\ UNCHANGED <<need_resched, current, exiting, pc, waitfor, irq>> /\ UNCHANGED linkVars
      /\ timer_list' = Unlinked(1) /\ walk' = walk /\ left' = left
  BY DEF TickTimer, RunTimerStep, IInv
<1>2. TimersTypeOK /\ 1 \in 1..Len(timer_list) /\ left \in [Procs -> Int]
  BY <1>1 DEF TimerInv, TimersTypeOK, RunTimerExpired
<1>3. p \in Procs /\ pc[p] \in {"sleep_sched", "sleep_wake"}
  BY <1>1, <1>2, TimerFields DEF TimerInv
<1>4. /\ current \in Procs /\ pc \in [Procs -> Pcs] /\ state \in [Procs -> States]
      /\ wait_state \in [Procs -> WaitStates]
      /\ pc[current] # "sleep_add"
  BY <1>1 DEF IInv, SchedInv, SchedTypeOK, PcInv, TimerInv
<1>5. wait_state[p] \in {"NONE", "TIMER"} /\ state[p] \in {"SLEEPING", "RUNNABLE"}
  BY <1>3, <1>4 DEF IInv, PcInv, States, SleepPcs, ZombiePcs
<1>6. WakeupProc(p)
  BY <1>1, <1>5 DEF RunTimerStep, Interruptible
<1>7. pc[current] \in Pcs /\ pc' = [pc EXCEPT ![current] = pc[current]]
  BY <1>1, <1>4
<1>8. SchedInv' /\ PcInv' /\ \A q \in Procs : state[q] = "FREE" <=> state'[q] = "FREE"
  <2>1. CASE pc[current] # "fork_wakeup"
    BY <1>1, <1>3, <1>5, <1>6, <1>7, <2>1, WakeKeeps
  <2>2. CASE pc[current] = "fork_wakeup"
    <3>1. /\ SchedTypeOK' /\ RunQueueExact' /\ panic' = panic
          /\ state' = [state EXCEPT ![p] = "RUNNABLE"]
          /\ \A q \in Procs : wait_state'[q] = wait_state[q] \/ (q = p /\ wait_state'[q] = "NONE")
          /\ state[p] # "RUNNABLE" => wait_state'[p] = "NONE"
      BY <1>1, <1>3, <1>5, <1>6, WakeupProcFacts DEF IInv, SchedInv
    <3>2. SchedInv'
      BY <3>1 DEF IInv, SchedInv, NoAssertFails
    <3>3. PcInv'
      BY <1>1, <1>3, <1>4, <1>5, <2>2, <3>1
         DEF IInv, PcInv, linkVars, Pcs, SleepPcs, WaitPcs, ReadPcs, ZombiePcs, RestingPcs
    <3>4. \A q \in Procs : state[q] = "FREE" <=> state'[q] = "FREE"
      BY <1>4, <1>5, <3>1
    <3> QED BY <3>2, <3>3, <3>4
  <2> QED BY <2>1, <2>2
<1>9. LinkInv'
  BY <1>1, <1>8 DEF IInv, LinkInv, linkVars
<1>10. TimerInv'
  <2>1. left' \in [Procs -> Int] /\ \A q \in Procs : left'[q] = left[q] /\ pc'[q] = pc[q]
    BY <1>1, <1>2
  <2>2. /\ TimersTypeOK' /\ TimerListExact'
        /\ \A j \in 1..Len(timer_list') : pc'[timer_list'[j].proc] \in {"sleep_sched", "sleep_wake"}
        /\ \A j, k \in 1..Len(timer_list') : timer_list'[j].proc = timer_list'[k].proc => j = k
    BY <1>1, <1>2, <2>1, UnlinkKeeps
  <2> QED BY <1>1, <1>4, <2>2 DEF TimerInv
<1> QED BY <1>8, <1>9, <1>10 DEF IInv

\* The end of the clock interrupt: the tick of the current process.
LEMMA TickEndKeeps ==
    ASSUME IInv, TickEnd
    PROVE  IInv'
<1> USE SchedAssumption, ProcAssumption
<1>1. /\ irq = "timers" /\ ~RunTimerExpired /\ ProcTick(current) /\ irq' \in {"none", "return"}
      /\ UNCHANGED <<state, wait_state, run_list, current, panic, exiting, waitfor>>
      /\ UNCHANGED timerVars /\ UNCHANGED linkVars
      /\ pc' = pc \/ (pc[current] = "user" /\ pc' = [pc EXCEPT ![current] = "trap_ret"])
  BY DEF TickEnd, IrqReturn, Goto
<1>2. /\ current \in Procs /\ pc \in [Procs -> Pcs] /\ need_resched \in [Procs -> BOOLEAN]
      /\ time_slice \in [Procs -> 0..MAX_TIME_SLICE] /\ pc[current] # "sleep_add"
  BY <1>1 DEF IInv, SchedInv, SchedTypeOK, PcInv, TimerInv
<1>3. time_slice' \in [Procs -> 0..MAX_TIME_SLICE] /\ need_resched' \in [Procs -> BOOLEAN]
  BY <1>1, ProcTickFacts DEF IInv, SchedInv
<1>4. SchedInv'
  BY <1>1, <1>3 DEF IInv, SchedInv, SchedTypeOK, RunQueueExact, OnRunList, NoAssertFails
<1>5. LinkInv'
  BY <1>1 DEF IInv, LinkInv, linkVars
<1>6. PcInv'
  BY <1>1, <1>2 DEF IInv, PcInv, linkVars, Pcs, SleepPcs, WaitPcs, ReadPcs, ZombiePcs, RestingPcs
<1>7. TimerInv'
  <2>1. pc'[current'] # "sleep_add"
    BY <1>1, <1>2
  <2>2. \A q \in Procs : pc[q] \in {"sleep_sched", "sleep_wake"} =>
                           pc'[q] \in {"sleep_sched", "sleep_wake"}
    BY <1>1, <1>2
  <2> QED BY <1>1, <2>1, <2>2, TimerFrame DEF IInv
<1> QED BY <1>4, <1>5, <1>6, <1>7 DEF IInv

\* The interrupt of the console wakes a reader.
LEMMA InputWakeupKeeps ==
    ASSUME IInv, InputWakeup
    PROVE  IInv'
<1> USE SchedAssumption, ProcAssumption
<1>1. PICK p \in Procs : wait_state[p] = "KBD" /\ WakeupProc(p)
  BY DEF InputWakeup
<1>2. /\ irq = "input" /\ UNCHANGED linkVars /\ UNCHANGED timerVars
      /\ UNCHANGED <<need_resched, current, exiting, pc, waitfor, irq>>
  BY DEF InputWakeup
<1>3. /\ current \in Procs /\ pc \in [Procs -> Pcs] /\ state \in [Procs -> States]
      /\ wait_state \in [Procs -> WaitStates]
      /\ pc[current] # "sleep_add" /\ state[p] = "SLEEPING"
  BY <1>1, <1>2 DEF IInv, SchedInv, SchedTypeOK, PcInv, TimerInv
<1>4. /\ SchedTypeOK' /\ RunQueueExact' /\ panic' = panic
      /\ state' = [state EXCEPT ![p] = "RUNNABLE"]
      /\ \A q \in Procs : wait_state'[q] = wait_state[q] \/ (q = p /\ wait_state'[q] = "NONE")
      /\ wait_state'[p] = "NONE"
  BY <1>1, <1>2, <1>3, WakeupProcFacts DEF IInv, SchedInv
<1>5. SchedInv'
  BY <1>4 DEF IInv, SchedInv, NoAssertFails
<1>6. PcInv'
  BY <1>1, <1>2, <1>3, <1>4
     DEF IInv, PcInv, linkVars, Pcs, SleepPcs, WaitPcs, ReadPcs, ZombiePcs, RestingPcs
<1>7. LinkInv'
  BY <1>2, <1>3, <1>4 DEF IInv, LinkInv, linkVars
<1>8. TimerInv'
  BY <1>2, <1>3, TimerFrame DEF IInv
<1> QED BY <1>5, <1>6, <1>7, <1>8 DEF IInv

\* Its beginning and its end leave everything to the readers.
LEMMA InputKeeps ==
    ASSUME IInv, Input \/ InputEnd
    PROVE  IInv'
<1> USE SchedAssumption, ProcAssumption
<1>1. /\ irq # "timers" /\ irq' \in {"none", "input", "return"}
      /\ UNCHANGED schedVars /\ UNCHANGED <<exiting, waitfor>>
      /\ UNCHANGED timerVars /\ UNCHANGED linkVars
      /\ pc' = pc \/ (pc[current] = "user" /\ pc' = [pc EXCEPT ![current] = "trap_ret"])
      /\ irq = "input" \/ pc[current] # "sleep_add"
  BY DEF Input, InputEnd, InterruptsOn, IrqReturn, Goto
<1>2. current \in Procs /\ pc \in [Procs -> Pcs] /\ pc[current] # "sleep_add"
  BY <1>1 DEF IInv, SchedInv, SchedTypeOK, PcInv, TimerInv
<1>3. SchedInv'
  BY <1>1 DEF IInv, SchedInv, SchedTypeOK, RunQueueExact, OnRunList, NoAssertFails, schedVars
<1>4. LinkInv'
  BY <1>1 DEF IInv, LinkInv, linkVars, schedVars
<1>5. PcInv'
  BY <1>1, <1>2
     DEF IInv, PcInv, linkVars, schedVars, Pcs, SleepPcs, WaitPcs, ReadPcs, ZombiePcs, RestingPcs
<1>6. TimerInv'
  <2>1. pc'[current'] # "sleep_add"
    BY <1>1, <1>2 DEF schedVars
  <2>2. \A q \in Procs : pc[q] \in {"sleep_sched", "sleep_wake"} =>
                           pc'[q] \in {"sleep_sched", "sleep_wake"}
    BY <1>1, <1>2
  <2> QED BY <1>1, <2>1, <2>2, TimerFrame DEF IInv
<1> QED BY <1>3, <1>4, <1>5, <1>6 DEF IInv

-----------------------------------------------------------------------------
\* proc_init establishes the invariant.
LEMMA InitIInv ==
    Init => IInv
<1> USE SchedAssumption, ProcAssumption
<1>1. SUFFICES ASSUME Init PROVE IInv
  OBVIOUS
<1>2. SchedTypeOK
  BY <1>1 DEF Init, SchedTypeOK, States, WaitStates
<1>3. RunQueueExact
  <2>1. Range(run_list) = {Init_} /\ Len(run_list) = 1
    BY <1>1 DEF Init, Range
  <2> QED BY <1>1, <2>1 DEF Init, RunQueueExact, OnRunList
<1>4. SchedInv
  BY <1>1, <1>2, <1>3 DEF Init, SchedInv, NoAssertFails
<1>5. LinkInv
  BY <1>1 DEF Init, LinkInv
<1>6. PcInv
  BY <1>1 DEF Init, PcInv, Pcs, SleepPcs, WaitPcs, ReadPcs, ZombiePcs, RestingPcs
<1>7. TimerInv
  BY <1>1 DEF Init, TimerInv, TimersTypeOK, TimerListExact
<1> QED BY <1>4, <1>5, <1>6, <1>7 DEF IInv

\* A step that changes nothing keeps the invariant.
LEMMA StutterKeeps ==
    ASSUME IInv, UNCHANGED vars
    PROVE  IInv'
<1> USE DEF vars, schedVars, timerVars, linkVars
<1>1. SchedInv'
  BY DEF IInv, SchedInv, SchedTypeOK, RunQueueExact, OnRunList, NoAssertFails
<1>2. LinkInv'
  BY DEF IInv, LinkInv
<1>3. PcInv'
  BY DEF IInv, PcInv
<1>4. TimerInv'
  BY DEF IInv, TimerInv, TimersTypeOK, TimerListExact
<1> QED BY <1>1, <1>2, <1>3, <1>4 DEF IInv

\* Every step keeps the invariant, one lemma per group of actions.
LEMMA NextKeeps ==
    IInv /\ [Next]_vars => IInv'
<1>1. SUFFICES ASSUME IInv, [Next]_vars PROVE IInv'
  OBVIOUS
<1>2. CASE UserStep
  <2>1. CASE Fork
    BY <1>1, <2>1, ForkKeeps
  <2>2. CASE Yield \/ UserExit \/ SyscallNoEffect \/ \E p \in Procs : Wait(p)
    BY <1>1, <2>2, MovesKeep
  <2>3. CASE \E p \in Killable : Kill(p)
    BY <1>1, <2>3, WakingKeeps
  <2>4. CASE \E t \in Times : Sleep(t)
    BY <1>1, <2>4, SleepKeeps
  <2>5. CASE ReadSleep
    BY <1>1, <2>5, ExitOrWaitSleepKeeps
  <2> QED BY <1>2, <2>1, <2>2, <2>3, <2>4, <2>5 DEF UserStep
<1>3. CASE KernelStep
  <2>1. CASE ForkWakeup \/ ExitParent \/ ExitKid
    BY <1>1, <2>1, WakingKeeps
  <2>2. CASE SleepAdd
    BY <1>1, <2>2, SleepAddKeeps
  <2>3. CASE SleepWake
    BY <1>1, <2>3, SleepWakeKeeps
  <2>4. CASE SleepSched \/ WaitSched \/ ReadSched \/ ExitSched \/ CpuIdle \/ InitResched \/ TrapRetSchedule
    BY <1>1, <2>4, SchedulingKeeps
  <2>5. CASE WaitFound
    BY <1>1, <2>5, WaitFoundKeeps
  <2>6. CASE WaitSleep \/ ReadAgain \/ Exit
    BY <1>1, <2>6, ExitOrWaitSleepKeeps
  <2>7. CASE ReadReturn \/ WaitNoKid \/ WaitWake \/ ExitKidsDone \/ TrapRetKilled \/ TrapRetUser \/ InitWait
    BY <1>1, <2>7, MovesKeep
  <2>8. CASE InitFork \/ InitSync
    BY <1>1, <2>8, ForkKeeps
  <2>9. CASE InitDone
    BY <1>1, <2>9, InitDoneKeeps
  <2> QED BY <1>3, <2>1, <2>2, <2>3, <2>4, <2>5, <2>6, <2>7, <2>8, <2>9 DEF KernelStep
<1>4. CASE Tick
  BY <1>1, <1>4, TickKeeps
<1>5. CASE IrqStep
  BY <1>1, <1>5, TickTimerKeeps, TickEndKeeps, InputWakeupKeeps, InputKeeps DEF IrqStep
<1>6. CASE Input
  BY <1>1, <1>6, InputKeeps
<1>7. CASE UNCHANGED vars
  BY <1>1, <1>7, StutterKeeps
<1> QED BY <1>1, <1>2, <1>3, <1>4, <1>5, <1>6, <1>7 DEF Next, Halted

\* IInv is an invariant of every execution.
THEOREM Inductive == Spec => []IInv
BY InitIInv, NextKeeps, PTL DEF Spec

\* The type invariant, for every set of processes, limit and set of times.
THEOREM TypeCorrect == Spec => []TypeOK
<1>1. IInv => TypeOK
  BY DEF IInv, SchedInv, LinkInv, PcInv, TimerInv, TypeOK
<1> QED BY Inductive, <1>1, PTL

\* The run queue holds, once each, exactly the processes that could run and do
\* not: no wakeup_proc, schedule, do_exit or interrupt loses or duplicates one.
THEOREM RunQueueIsExact == Spec => []RunQueueExact
<1>1. IInv => RunQueueExact
  BY DEF IInv, SchedInv
<1> QED BY Inductive, <1>1, PTL

\* No assertion of wakeup_proc, RR_enqueue, add_timer, run_timer_list or do_fork
\* can fail.
THEOREM AssertionsHold == Spec => []NoAssertFails
<1>1. IInv => NoAssertFails
  BY DEF IInv, SchedInv
<1> QED BY Inductive, <1>1, PTL

\* add_timer, del_timer and run_timer_list keep the delta encoding exact.
THEOREM TimerListIsExact == Spec => []TimerListExact
<1>1. IInv => TimerListExact
  BY DEF IInv, TimerInv
<1> QED BY Inductive, <1>1, PTL

\* The actions that leave the states of all processes alone.
StateKept ==
    \/ Yield \/ UserExit \/ SyscallNoEffect \/ (\E p \in Procs : Wait(p))
    \/ SleepAdd \/ SleepSched \/ SleepWake \/ WaitNoKid \/ WaitSched \/ WaitWake
    \/ ReadSched \/ ReadReturn \/ Input \/ InputEnd
    \/ ExitKidsDone \/ ExitSched \/ TrapRetKilled \/ TrapRetSchedule \/ TrapRetUser
    \/ CpuIdle \/ InitWait \/ InitResched \/ InitDone \/ Tick \/ TickEnd \/ Halted

\* The others, by what they do to states: a process is created, woken, put to
\* sleep, turned into a zombie or freed.
LEMMA StateChanges ==
    ASSUME Next
    PROVE  \/ StateKept
           \/ Fork \/ InitFork \/ InitSync \/ WaitFound \/ Exit \/ WaitSleep \/ (\E t \in Times : Sleep(t))
           \/ ReadSleep \/ ReadAgain \/ InputWakeup
           \/ ForkWakeup \/ ExitParent \/ ExitKid \/ TickTimer \/ (\E p \in Killable : Kill(p))
BY Zenon DEF Next, UserStep, KernelStep, IrqStep, StateKept

\* What their name says.
LEMMA StateKeptFacts ==
    ASSUME StateKept PROVE state' = state /\ wait_state' = wait_state
<1>1. CASE Yield \/ UserExit \/ SyscallNoEffect \/ (\E p \in Procs : Wait(p))
  BY <1>1 DEF Yield, UserExit, SyscallNoEffect, Wait, schedVars
<1>2. CASE SleepAdd \/ SleepWake \/ WaitNoKid \/ WaitWake \/ ReadReturn
  BY <1>2 DEF SleepAdd, SleepWake, WaitNoKid, WaitWake, ReadReturn, schedVars
<1>3. CASE SleepSched \/ WaitSched \/ ReadSched \/ ExitSched \/ TrapRetSchedule \/ CpuIdle \/ InitResched
  BY <1>3 DEF SleepSched, WaitSched, ReadSched, ExitSched, TrapRetSchedule, CpuIdle, InitResched,
              ScheduleTo, Schedule
<1>4. CASE ExitKidsDone \/ TrapRetKilled \/ TrapRetUser \/ InitWait
  BY <1>4 DEF ExitKidsDone, TrapRetKilled, TrapRetUser, InitWait, schedVars
<1>5. CASE InitDone \/ Tick \/ TickEnd \/ Input \/ InputEnd \/ Halted
  BY <1>5 DEF InitDone, Tick, TickEnd, Input, InputEnd, Halted, vars, schedVars
<1> QED BY <1>1, <1>2, <1>3, <1>4, <1>5 DEF StateKept

\* wakeup_proc frees nobody, and ends no wait but that of the process it wakes.
LEMMA WakeupProcOnly ==
    ASSUME SchedTypeOK, NEW p, WakeupProc(p)
    PROVE  /\ \A q \in Procs : state'[q] = state[q] \/ (q = p /\ state'[q] = "RUNNABLE")
           /\ \A q \in Procs : wait_state'[q] = wait_state[q] \/ q = p
BY DEF WakeupProc, SchedTypeOK

\* do_wait is the only place that frees a proc_struct.
LEMMA OnlyWaitFrees ==
    ASSUME IInv, Next, NEW z \in Procs, Linked(z), state'[z] = "FREE"
    PROVE  WaitFound
<1> USE SchedAssumption, ProcAssumption
<1>1. SchedTypeOK /\ state \in [Procs -> States] /\ current \in Procs /\ state[z] # "FREE"
  BY DEF IInv, SchedInv, SchedTypeOK, Linked
<1>2. CASE StateKept
  BY <1>1, <1>2, StateKeptFacts
<1>3. CASE Fork \/ InitFork \/ InitSync
  BY <1>1, <1>3 DEF Fork, InitFork, InitSync, ForkChild
<1>4. CASE Exit
  BY <1>1, <1>4 DEF Exit
<1>5. CASE WaitSleep \/ ReadSleep \/ ReadAgain
  BY <1>1, <1>5 DEF WaitSleep, ReadSleep, ReadAgain, SetSleeping
<1>6. CASE \E t \in Times : Sleep(t)
  BY <1>1, <1>6 DEF Sleep, SetSleeping
<1>7. CASE ForkWakeup
  BY <1>1, <1>7, WakeupProcOnly DEF ForkWakeup
<1>8. CASE ExitParent
  BY <1>1, <1>8, WakeupProcOnly DEF ExitParent
<1>9. CASE ExitKid
  BY <1>1, <1>9, WakeupProcOnly DEF ExitKid
<1>10. CASE TickTimer
  BY <1>1, <1>10, WakeupProcOnly DEF TickTimer, RunTimerStep
<1>11. CASE \E p \in Killable : Kill(p)
  BY <1>1, <1>11, WakeupProcOnly DEF Kill
<1>12. CASE InputWakeup
  BY <1>1, <1>12, WakeupProcOnly DEF InputWakeup
<1> QED BY StateChanges, <1>2, <1>3, <1>4, <1>5, <1>6, <1>7, <1>8, <1>9, <1>10, <1>11, <1>12

\* do_wait frees a proc_struct and its stack only after the last schedule() of
\* its process, and with no timer of that stack linked.
THEOREM ReapIsSafe == Spec => ReapSafe
<1>1. IInv /\ [Next]_vars =>
        [\A z \in Procs : Linked(z) /\ state'[z] = "FREE" =>
            z # current /\ pc[z] = "dead" /\ ~HasTimer(z)]_vars
  <2>1. SUFFICES ASSUME IInv, Next, NEW z \in Procs, Linked(z), state'[z] = "FREE"
                 PROVE  z # current /\ pc[z] = "dead" /\ ~HasTimer(z)
    OBVIOUS
  <2>2. z # current /\ pc[z] = "dead"
    BY <2>1, OnlyWaitFrees, WaitFoundFacts
  <2>3. ~HasTimer(z)
    BY <2>1, <2>2 DEF IInv, TimerInv, HasTimer
  <2> QED BY <2>2, <2>3
<1> QED BY Inductive, <1>1, PTL DEF Spec, ReapSafe

\* do_sleep(t) ends after t ticks or by do_kill, however timers are added,
\* deleted and expired around it.
THEOREM SleepIsNotEarly == Spec => SleepNotEarly
<1>1. IInv /\ [Next]_vars =>
        [\A p \in Procs : wait_state[p] = "TIMER" /\ wait_state'[p] # "TIMER" =>
            left[p] = 0 \/ exiting'[p]]_vars
  <2> USE SchedAssumption, ProcAssumption
  <2>1. SUFFICES ASSUME IInv, Next, NEW p \in Procs,
                        wait_state[p] = "TIMER", wait_state'[p] # "TIMER"
                 PROVE  left[p] = 0 \/ exiting'[p]
    OBVIOUS
  <2>2. /\ SchedTypeOK /\ wait_state \in [Procs -> WaitStates] /\ state[p] = "SLEEPING"
        /\ current \in Procs /\ exiting \in [Procs -> BOOLEAN]
        /\ pc \in [Procs -> Pcs] /\ state \in [Procs -> States]
    BY <2>1 DEF IInv, SchedInv, SchedTypeOK, PcInv, LinkInv
  <2>3. CASE StateKept
    BY <2>1, <2>3, StateKeptFacts
  <2>4. CASE Fork \/ InitFork \/ InitSync
    BY <2>1, <2>2, <2>4 DEF Fork, InitFork, InitSync, ForkChild
  <2>5. CASE WaitFound \/ Exit
    BY <2>1, <2>5 DEF WaitFound, Exit
  <2>6. CASE WaitSleep \/ ReadSleep \/ ReadAgain \/ \E t \in Times : Sleep(t)
    <3>1. pc[current] \in {"user", "kthread", "wait_scan", "read_wake"}
      BY <2>6 DEF WaitSleep, ReadSleep, ReadAgain, Sleep, At
    <3>2. p # current
      BY <2>1, <2>2, <3>1 DEF IInv, PcInv, SleepPcs, WaitPcs, ReadPcs
    <3> QED BY <2>1, <2>2, <2>6, <3>2 DEF WaitSleep, ReadSleep, ReadAgain, Sleep, SetSleeping
  <2>7. CASE ForkWakeup
    <3>1. state[cptr[current]] = "UNINIT"
      BY <2>1, <2>7 DEF ForkWakeup, At, IInv, PcInv
    <3> QED BY <2>1, <2>2, <2>7, <3>1, WakeupProcOnly DEF ForkWakeup
  <2>8. CASE ExitParent
    BY <2>1, <2>2, <2>8, WakeupProcOnly DEF ExitParent
  <2>9. CASE ExitKid
    BY <2>1, <2>2, <2>9, WakeupProcOnly DEF ExitKid
  <2>10. CASE TickTimer
    <3>1. RunTimerExpired /\ TimersTypeOK /\ (p = timer_list[1].proc \/ wait_state'[p] = wait_state[p])
      BY <2>1, <2>2, <2>10, WakeupProcOnly DEF TickTimer, RunTimerStep, IInv, TimerInv
    <3>2. p = timer_list[1].proc /\ 1 \in 1..Len(timer_list) /\ timer_list[1].expires = 0
      BY <2>1, <3>1 DEF RunTimerExpired, TimersTypeOK
    <3>3. timer_list[1].expires = left[timer_list[1].proc] - 0
      BY <2>1, <3>2 DEF IInv, TimerInv, TimerListExact
    <3>4. left[p] \in Int
      BY <3>1 DEF TimersTypeOK
    <3> QED BY <3>2, <3>3, <3>4
  <2>11. CASE \E q \in Killable : Kill(q)
    <3>1. PICK q \in Killable : Kill(q)
      BY <2>11
    <3>2. q = p
      BY <2>1, <2>2, <3>1, WakeupProcOnly DEF Kill
    <3> QED BY <2>2, <3>1, <3>2 DEF Kill
  <2>12. CASE InputWakeup
    BY <2>1, <2>2, <2>12, WakeupProcOnly DEF InputWakeup
  <2> QED BY <2>1, StateChanges, <2>3, <2>4, <2>5, <2>6, <2>7, <2>8, <2>9, <2>10, <2>11, <2>12
<1> QED BY Inductive, <1>1, PTL DEF Spec, SleepNotEarly

-----------------------------------------------------------------------------
(* The lists of children.  The operators and lemmas of this part are about  *)
(* any functions that stand for the pointers: L is the set of the processes *)
(* that are linked, par, c, o and y are parent, cptr, optr and yptr, and X   *)
(* the processes whose yptr is stale: the loop of do_exit takes the head    *)
(* off a list and leaves the yptr of the next one.  What the order in a     *)
(* list is, is said with an age: the time at which set_links or that loop   *)
(* put the process at the head of the list it is in.                        *)

Pointers == [Procs -> Procs \cup {NULL}]

ChildIn(L, par, q, p) == q \in L /\ par[q] = p
Siblings(L, par, r, q) == r \in L /\ q \in L /\ par[r] = par[q]

\* Ages are different, and below the next one.
AgeInv(L, age, next) ==
    /\ age \in [Procs -> Nat] /\ next \in Nat
    /\ \A q \in Procs : age[q] < next
    /\ \A q, r \in L : age[q] = age[r] => q = r

\* cptr is the youngest child.
HeadInv(L, par, c, age) ==
    \A p \in Procs :
        /\ c[p] = NULL => \A r \in Procs : ~ChildIn(L, par, r, p)
        /\ c[p] # NULL => /\ ChildIn(L, par, c[p], p)
                          /\ \A r \in Procs : ChildIn(L, par, r, p) => age[r] <= age[c[p]]

\* optr is the next older sibling.
OlderInv(L, par, o, age) ==
    \A q \in Procs :
        /\ q \notin L => o[q] = NULL
        /\ q \in L /\ o[q] = NULL => \A r \in Procs : Siblings(L, par, r, q) => age[q] <= age[r]
        /\ q \in L /\ o[q] # NULL =>
              /\ Siblings(L, par, o[q], q) /\ age[o[q]] < age[q]
              /\ \A r \in Procs : Siblings(L, par, r, q) /\ age[r] < age[q] => age[r] <= age[o[q]]

\* yptr is the next younger one.
YoungerInv(L, par, y, X, age) ==
    \A q \in L \ X :
        /\ y[q] = NULL => \A r \in Procs : Siblings(L, par, r, q) => age[r] <= age[q]
        /\ y[q] # NULL =>
              /\ Siblings(L, par, y[q], q) /\ age[q] < age[y[q]]
              /\ \A r \in Procs : Siblings(L, par, r, q) /\ age[q] < age[r] => age[y[q]] <= age[r]

IsFamily(L, par, c, o, y, X, age, next) ==
    /\ L \subseteq Procs
    /\ par \in Pointers /\ c \in Pointers /\ o \in Pointers /\ y \in Pointers
    /\ AgeInv(L, age, next) /\ HeadInv(L, par, c, age)
    /\ OlderInv(L, par, o, age) /\ YoungerInv(L, par, y, X, age)

\* k, in no list, becomes the head of the list of p.
LEMMA AddHead ==
    ASSUME NEW L, NEW par, NEW c, NEW o, NEW y, NEW X, NEW age, NEW next,
           IsFamily(L, par, c, o, y, X, age, next), NEW p \in Procs, NEW k \in Procs \ L,
           c[p] \notin X,
           NEW a \in [Procs -> Nat], \A q \in Procs : a[q] = IF q = k THEN next ELSE age[q],
           NEW par2 \in Pointers, \A q \in Procs : par2[q] = IF q = k THEN p ELSE par[q],
           NEW c2 \in Pointers, \A q \in Procs : c2[q] = IF q = p THEN k ELSE c[q],
           NEW o2 \in Pointers, \A q \in Procs : o2[q] = IF q = k THEN c[p] ELSE o[q],
           NEW y2 \in Pointers,
           \A q \in Procs : y2[q] = IF q = k THEN NULL ELSE IF q = c[p] THEN k ELSE y[q]
    PROVE  IsFamily(L \cup {k}, par2, c2, o2, y2, X, a, next + 1)
<1> USE ProcAssumption
<1> DEFINE M == L \cup {k}
           h == c[p]
<1>0. /\ L \subseteq Procs /\ c \in [Procs -> Procs \cup {NULL}] /\ o \in [Procs -> Procs \cup {NULL}]
      /\ y \in [Procs -> Procs \cup {NULL}] /\ k \notin L /\ k \in Procs /\ k # NULL
      /\ age \in [Procs -> Nat] /\ next \in Nat /\ (\A q \in Procs : age[q] < next)
      /\ (\A q, r \in L : age[q] = age[r] => q = r)
      /\ HeadInv(L, par, c, age) /\ OlderInv(L, par, o, age) /\ YoungerInv(L, par, y, X, age)
  BY DEF IsFamily, AgeInv, Pointers
<1>1. a \in [Procs -> Nat] /\ a[k] = next /\ \A q \in Procs : q # k => a[q] = age[q]
  BY <1>0
<1>2. h = NULL \/ (h \in Procs /\ h # k /\ ChildIn(L, par, h, p))
  BY <1>0 DEF HeadInv, ChildIn
<1>3. /\ \A q, r \in Procs : ChildIn(M, par2, q, r) <=> ChildIn(L, par, q, r) \/ (q = k /\ r = p)
      /\ \A q, r \in Procs : q # k /\ r # k => (Siblings(M, par2, r, q) <=> Siblings(L, par, r, q))
      /\ \A q \in Procs : q # k => (Siblings(M, par2, q, k) <=> ChildIn(L, par, q, p))
      /\ \A q \in Procs : q # k => (Siblings(M, par2, k, q) <=> ChildIn(L, par, q, p))
      /\ Siblings(M, par2, k, k)
  BY <1>0 DEF ChildIn, Siblings
<1>4. AgeInv(M, a, next + 1)
  BY <1>0, <1>1 DEF AgeInv
<1>5. HeadInv(M, par2, c2, a)
  <2>1. ASSUME NEW q \in Procs
        PROVE  /\ c2[q] = NULL => \A r \in Procs : ~ChildIn(M, par2, r, q)
               /\ c2[q] # NULL => /\ ChildIn(M, par2, c2[q], q)
                                  /\ \A r \in Procs : ChildIn(M, par2, r, q) => a[r] <= a[c2[q]]
    <3>1. CASE q = p
      <4>1. c2[q] = k /\ ChildIn(M, par2, k, q)
        BY <1>3, <3>1
      <4>2. \A r \in Procs : a[r] <= a[k]
        BY <1>0, <1>1
      <4> QED BY <1>0, <4>1, <4>2
    <3>2. CASE q # p
      <4>1. c2[q] = c[q] /\ \A r \in Procs : ChildIn(M, par2, r, q) <=> ChildIn(L, par, r, q)
        BY <1>3, <3>2
      <4>2. c[q] # NULL => c[q] \in Procs /\ c[q] # k
        BY <1>0 DEF HeadInv, ChildIn
      <4>3. \A r \in Procs : ChildIn(L, par, r, q) => r # k
        BY <1>0 DEF ChildIn
      <4>4. c[q] = NULL => \A r \in Procs : ~ChildIn(L, par, r, q)
        BY <1>0 DEF HeadInv
      <4>5. ASSUME c[q] # NULL
            PROVE  /\ ChildIn(L, par, c[q], q)
                   /\ \A r \in Procs : ChildIn(L, par, r, q) => a[r] <= a[c[q]]
        BY <1>0, <1>1, <4>2, <4>3, <4>5 DEF HeadInv
      <4> HIDE DEF M
      <4> QED BY <4>1, <4>2, <4>4, <4>5
    <3> QED BY <3>1, <3>2
  <2> QED BY <2>1 DEF HeadInv
<1>6. OlderInv(M, par2, o2, a)
  <2>1. ASSUME NEW q \in Procs
        PROVE  /\ q \notin M => o2[q] = NULL
               /\ q \in M /\ o2[q] = NULL => \A r \in Procs : Siblings(M, par2, r, q) => a[q] <= a[r]
               /\ q \in M /\ o2[q] # NULL =>
                    /\ Siblings(M, par2, o2[q], q) /\ a[o2[q]] < a[q]
                    /\ \A r \in Procs : Siblings(M, par2, r, q) /\ a[r] < a[q] => a[r] <= a[o2[q]]
    <3>1. CASE q = k /\ h = NULL
      <4>1. \A r \in Procs : ~ChildIn(L, par, r, p)
        BY <1>0, <3>1 DEF HeadInv
      <4>2. ASSUME NEW r \in Procs, Siblings(M, par2, r, k) PROVE r = k
        BY <1>3, <4>1, <4>2
      <4>3. o2[q] = NULL /\ q = k /\ k \in M /\ a[k] <= a[k]
        BY <1>0, <1>1, <3>1
      <4> HIDE DEF M, h
      <4> QED BY <4>2, <4>3
    <3>2. CASE q = k /\ h # NULL
      <4>1. /\ h \in Procs /\ h # k /\ ChildIn(L, par, h, p)
            /\ \A r \in Procs : ChildIn(L, par, r, p) => age[r] <= age[h]
        BY <1>0, <1>2, <3>2 DEF HeadInv
      <4>2. Siblings(M, par2, h, k) /\ a[h] < a[k]
        BY <1>0, <1>1, <1>3, <4>1
      <4>3. ASSUME NEW r \in Procs, Siblings(M, par2, r, k), a[r] < a[k] PROVE a[r] <= a[h]
        <5>1. r # k
          BY <1>0, <1>1, <4>3
        <5>2. ChildIn(L, par, r, p)
          BY <1>3, <4>3, <5>1
        <5> QED BY <1>1, <4>1, <5>1, <5>2
      <4>4. o2[q] = h /\ q = k
        BY <3>2
      <4> HIDE DEF h, M
      <4> QED BY <3>2, <4>2, <4>3, <4>4 DEF M
    <3>3. CASE q # k
      <4>1. o2[q] = o[q] /\ (q \in M <=> q \in L)
        BY <3>3
      <4>2. q \in L /\ o[q] # NULL => o[q] \in Procs /\ o[q] # k
        BY <1>0 DEF OlderInv, Siblings
      <4>3. ASSUME NEW r \in Procs, Siblings(M, par2, r, q)
            PROVE a[q] <= a[r] \/ (r # k /\ Siblings(L, par, r, q))
        <5>1. CASE r = k
          BY <1>0, <1>1, <3>3, <5>1
        <5>2. CASE r # k
          BY <1>3, <3>3, <4>3, <5>2
        <5> QED BY <5>1, <5>2
      <4>4. ASSUME q \in L, o[q] # NULL PROVE Siblings(M, par2, o[q], q)
        BY <1>0, <1>3, <3>3, <4>2, <4>4 DEF OlderInv
      <4>5. ASSUME NEW r \in Procs PROVE a[q] = age[q] /\ (r # k => a[r] = age[r]) /\ a[r] \in Nat /\ a[q] \in Nat
        BY <1>1, <3>3
      <4>6. ASSUME q \in L, o[q] = NULL, NEW r \in Procs, Siblings(M, par2, r, q) PROVE a[q] <= a[r]
        BY <1>0, <4>3, <4>5, <4>6 DEF OlderInv
      <4>7. ASSUME q \in L, o[q] # NULL
            PROVE  /\ a[o[q]] < a[q]
                   /\ \A r \in Procs : Siblings(M, par2, r, q) /\ a[r] < a[q] => a[r] <= a[o[q]]
        <5>1. /\ age[o[q]] < age[q]
              /\ \A r \in Procs : Siblings(L, par, r, q) /\ age[r] < age[q] => age[r] <= age[o[q]]
          BY <1>0, <4>7 DEF OlderInv
        <5>2. a[o[q]] = age[o[q]] /\ a[q] = age[q]
          BY <1>1, <3>3, <4>2, <4>7
        <5>3. ASSUME NEW r \in Procs, Siblings(M, par2, r, q), a[r] < a[q] PROVE a[r] <= a[o[q]]
          <6>1. r # k /\ Siblings(L, par, r, q)
            BY <4>3, <4>5, <5>3
          <6> QED BY <4>5, <5>1, <5>2, <5>3, <6>1
        <5> QED BY <5>1, <5>2, <5>3
      <4>8. q \notin L => o[q] = NULL
        BY <1>0 DEF OlderInv
      <4> HIDE DEF M
      <4> QED BY <4>1, <4>4, <4>6, <4>7, <4>8
    <3> QED BY <3>1, <3>2, <3>3
  <2> QED BY <2>1 DEF OlderInv
<1>7. YoungerInv(M, par2, y2, X, a)
  <2>1. ASSUME NEW q \in M \ X
        PROVE  /\ y2[q] = NULL => \A r \in Procs : Siblings(M, par2, r, q) => a[r] <= a[q]
               /\ y2[q] # NULL =>
                    /\ Siblings(M, par2, y2[q], q) /\ a[q] < a[y2[q]]
                    /\ \A r \in Procs : Siblings(M, par2, r, q) /\ a[q] < a[r] => a[y2[q]] <= a[r]
    <3>0. q \in Procs
      BY <1>0
    <3>1. CASE q = k
      <4>1. y2[q] = NULL /\ \A r \in Procs : a[r] <= a[k]
        BY <1>0, <1>1, <3>1
      <4> QED BY <3>1, <4>1
    <3>2. CASE q # k /\ q = h
      <4>1. /\ h \in Procs /\ ChildIn(L, par, h, p)
            /\ \A r \in Procs : ChildIn(L, par, r, p) => age[r] <= age[h]
        BY <1>0, <1>2, <3>0, <3>2 DEF HeadInv
      <4>2. y2[q] = k
        BY <3>0, <3>2
      <4>3. Siblings(M, par2, k, q) /\ a[q] < a[k]
        BY <1>0, <1>1, <1>3, <3>2, <4>1
      <4>4. ASSUME NEW r \in Procs, Siblings(M, par2, r, q), a[q] < a[r] PROVE a[k] <= a[r]
        <5>1. CASE r = k
          BY <1>0, <1>1, <5>1
        <5>2. CASE r # k
          <6>1. ChildIn(L, par, r, p)
            BY <1>3, <3>2, <4>1, <4>4, <5>2 DEF Siblings, ChildIn
          <6>2. age[r] <= age[h] /\ age[h] < age[r] /\ age[r] \in Nat /\ age[h] \in Nat
            BY <1>0, <1>1, <3>2, <4>1, <4>4, <5>2, <6>1
          <6> QED BY <6>2
        <5> QED BY <5>1, <5>2
      <4> HIDE DEF M, h
      <4> QED BY <1>0, <4>2, <4>3, <4>4
    <3>3. CASE q # k /\ q # h
      <4>1. y2[q] = y[q] /\ q \in L \ X
        BY <2>1, <3>0, <3>3
      <4>2. y[q] # NULL => y[q] \in Procs /\ y[q] # k
        BY <1>0, <4>1 DEF YoungerInv, Siblings
      <4>3. ASSUME ChildIn(L, par, q, p) PROVE y[q] # NULL
        <5>1. h \in Procs /\ ChildIn(L, par, h, p) /\ age[q] <= age[h]
          BY <1>0, <3>0, <4>3 DEF HeadInv
        <5>2. Siblings(L, par, h, q) /\ age[q] < age[h]
          <6>1. age[q] # age[h]
            BY <1>0, <3>3, <4>1, <5>1 DEF ChildIn
          <6> QED BY <1>0, <3>0, <4>3, <5>1, <6>1 DEF Siblings, ChildIn
        <5>3. y[q] = NULL => age[h] <= age[q]
          BY <1>0, <4>1, <5>1, <5>2 DEF YoungerInv
        <5>4. age[h] \in Nat /\ age[q] \in Nat
          BY <1>0, <3>0, <5>1
        <5> HIDE DEF h
        <5> QED BY <5>2, <5>3, <5>4
      <4>4. ASSUME y[q] = NULL, NEW r \in Procs, Siblings(M, par2, r, q) PROVE a[r] <= a[q]
        <5>1. r # k /\ Siblings(L, par, r, q)
          BY <1>3, <3>0, <3>3, <4>3, <4>4
        <5> QED BY <1>0, <1>1, <3>0, <3>3, <4>1, <4>4, <5>1 DEF YoungerInv
      <4>5. ASSUME y[q] # NULL
            PROVE  /\ Siblings(M, par2, y[q], q) /\ a[q] < a[y[q]]
                   /\ \A r \in Procs : Siblings(M, par2, r, q) /\ a[q] < a[r] => a[y[q]] <= a[r]
        <5>1. /\ Siblings(L, par, y[q], q) /\ age[q] < age[y[q]] /\ y[q] \in Procs /\ y[q] # k
              /\ \A r \in Procs : Siblings(L, par, r, q) /\ age[q] < age[r] => age[y[q]] <= age[r]
          BY <1>0, <4>1, <4>2, <4>5 DEF YoungerInv
        <5>2. Siblings(M, par2, y[q], q) /\ a[q] < a[y[q]]
          BY <1>1, <1>3, <3>0, <3>3, <5>1
        <5>3. ASSUME NEW r \in Procs, Siblings(M, par2, r, q), a[q] < a[r] PROVE a[y[q]] <= a[r]
          <6>1. CASE r = k
            BY <1>0, <1>1, <5>1, <6>1
          <6>2. CASE r # k
            BY <1>1, <1>3, <3>0, <3>3, <5>1, <5>3, <6>2
          <6> QED BY <6>1, <6>2
        <5> QED BY <5>2, <5>3
      <4> HIDE DEF M, h
      <4> QED BY <4>1, <4>4, <4>5
    <3> QED BY <3>1, <3>2, <3>3
  <2> QED BY <2>1 DEF YoungerInv
<1> QED BY <1>0, <1>4, <1>5, <1>6, <1>7 DEF IsFamily

\* k leaves the list it is in.
LEMMA Unhook ==
    ASSUME NEW L, NEW par, NEW c, NEW o, NEW y, NEW X, NEW age, NEW next,
           IsFamily(L, par, c, o, y, X, age, next), NEW k \in L \ X, par[k] \in Procs,
           NEW par2 \in Pointers, \A q \in Procs : q # k => par2[q] = par[q],
           NEW c2 \in Pointers,
           \A q \in Procs : c2[q] = IF q = par[k] /\ y[k] = NULL THEN o[k] ELSE c[q],
           NEW o2 \in Pointers,
           \A q \in Procs : o2[q] = IF q = k THEN NULL ELSE IF q = y[k] THEN o[k] ELSE o[q],
           NEW y2 \in Pointers,
           \A q \in Procs : q # k => y2[q] = IF q = o[k] THEN y[k] ELSE y[q]
    PROVE  IsFamily(L \ {k}, par2, c2, o2, y2, X, age, next)
<1> USE ProcAssumption
<1>m. PICK M \in SUBSET Procs : M = L \ {k}
  BY DEF IsFamily
<1>0. /\ L \subseteq Procs /\ k \in L /\ k \in Procs /\ c \in [Procs -> Procs \cup {NULL}]
      /\ o \in [Procs -> Procs \cup {NULL}] /\ y \in [Procs -> Procs \cup {NULL}]
      /\ age \in [Procs -> Nat] /\ (\A q, r \in L : age[q] = age[r] => q = r)
      /\ HeadInv(L, par, c, age) /\ OlderInv(L, par, o, age) /\ YoungerInv(L, par, y, X, age)
  BY DEF IsFamily, AgeInv, Pointers
<1>1. /\ \A q, r \in Procs : ChildIn(M, par2, q, r) <=> ChildIn(L, par, q, r) /\ q # k
      /\ \A q, r \in Procs : Siblings(M, par2, r, q) <=> Siblings(L, par, r, q) /\ q # k /\ r # k
  BY <1>0, <1>m DEF ChildIn, Siblings
<1>2. \A r \in Procs : Siblings(L, par, r, k) /\ r # k => age[r] # age[k] /\ r \in L
  BY <1>0 DEF Siblings
\* What lies on both sides of k.
<1>4. o[k] = NULL => \A r \in Procs : Siblings(L, par, r, k) => age[k] <= age[r]
  BY <1>0 DEF OlderInv
<1>5. o[k] # NULL => /\ o[k] \in L /\ Siblings(L, par, o[k], k) /\ age[o[k]] < age[k] /\ o[k] # k
                     /\ \A r \in Procs : Siblings(L, par, r, k) /\ age[r] < age[k] => age[r] <= age[o[k]]
  BY <1>0 DEF OlderInv, Siblings
<1>6. y[k] = NULL => \A r \in Procs : Siblings(L, par, r, k) => age[r] <= age[k]
  BY <1>0 DEF YoungerInv
<1>7. y[k] # NULL => /\ y[k] \in L /\ Siblings(L, par, y[k], k) /\ age[k] < age[y[k]] /\ y[k] # k
                     /\ \A r \in Procs : Siblings(L, par, r, k) /\ age[k] < age[r] => age[y[k]] <= age[r]
  BY <1>0 DEF YoungerInv, Siblings
<1>8. HeadInv(M, par2, c2, age)
  <2>1. ASSUME NEW p \in Procs
        PROVE  /\ c2[p] = NULL => \A r \in Procs : ~ChildIn(M, par2, r, p)
               /\ c2[p] # NULL => /\ ChildIn(M, par2, c2[p], p)
                                  /\ \A r \in Procs : ChildIn(M, par2, r, p) => age[r] <= age[c2[p]]
    <3>1. CASE p = par[k] /\ y[k] = NULL
      <4>1. ASSUME NEW r \in Procs, ChildIn(M, par2, r, p)
            PROVE  Siblings(L, par, r, k) /\ age[r] < age[k]
        <5>1. Siblings(L, par, r, k) /\ r # k
          BY <1>0, <1>1, <3>1, <4>1 DEF ChildIn, Siblings
        <5>2. age[r] # age[k] /\ age[r] <= age[k]
          BY <1>2, <1>6, <3>1, <5>1
        <5>3. age[r] \in Nat /\ age[k] \in Nat
          BY <1>0
        <5> QED BY <5>1, <5>2, <5>3
      <4>2. c2[p] = o[k]
        BY <3>1
      <4>3. o[k] # NULL => ChildIn(M, par2, o[k], p)
        BY <1>0, <1>1, <1>5, <3>1 DEF ChildIn, Siblings
      <4>4. o[k] = NULL => \A r \in Procs : ~ChildIn(M, par2, r, p)
        BY <1>0, <1>4, <4>1
      <4> QED BY <1>5, <4>1, <4>2, <4>3, <4>4
    <3>2. CASE ~(p = par[k] /\ y[k] = NULL)
      <4>1. c2[p] = c[p]
        BY <3>2
      <4>2. c[p] = NULL => \A r \in Procs : ~ChildIn(L, par, r, p)
        BY <1>0 DEF HeadInv
      <4>3. ASSUME c[p] # NULL
            PROVE  /\ c[p] \in Procs /\ ChildIn(L, par, c[p], p) /\ c[p] # k
                   /\ \A r \in Procs : ChildIn(L, par, r, p) => age[r] <= age[c[p]]
        <5>1. /\ c[p] \in Procs /\ ChildIn(L, par, c[p], p)
              /\ \A r \in Procs : ChildIn(L, par, r, p) => age[r] <= age[c[p]]
          BY <1>0, <4>3 DEF HeadInv
        <5>2. ASSUME c[p] = k PROVE FALSE
          <6>1. p = par[k] /\ y[k] # NULL
            BY <3>2, <5>1, <5>2 DEF ChildIn
          <6>2. y[k] \in Procs /\ ChildIn(L, par, y[k], p) /\ age[k] < age[y[k]]
            BY <1>0, <1>7, <6>1 DEF ChildIn, Siblings
          <6> QED BY <1>0, <5>1, <5>2, <6>2
        <5> QED BY <5>1, <5>2
      <4> QED BY <1>1, <4>1, <4>2, <4>3
    <3> QED BY <3>1, <3>2
  <2> QED BY <2>1 DEF HeadInv
<1>9. OlderInv(M, par2, o2, age)
  <2>1. ASSUME NEW q \in Procs, q \notin M PROVE o2[q] = NULL
    <3>1. CASE q = k
      BY <3>1
    <3>2. CASE q # k
      <4>1. q \notin L /\ q # y[k]
        BY <1>0, <1>m, <1>7, <2>1, <3>2
      <4> QED BY <1>0, <3>2, <4>1 DEF OlderInv
    <3> QED BY <3>1, <3>2
  <2>2. ASSUME NEW q \in M
        PROVE  /\ o2[q] = NULL => \A r \in Procs : Siblings(M, par2, r, q) => age[q] <= age[r]
               /\ o2[q] # NULL =>
                    /\ Siblings(M, par2, o2[q], q) /\ age[o2[q]] < age[q]
                    /\ \A r \in Procs : Siblings(M, par2, r, q) /\ age[r] < age[q] => age[r] <= age[o2[q]]
    <3>0. q \in L /\ q # k /\ q \in Procs /\ q # NULL
      BY <1>0, <1>m
    <3>1. CASE q = y[k]
      <4>1. o2[q] = o[k] /\ Siblings(L, par, q, k) /\ age[k] < age[q]
            /\ \A r \in Procs : Siblings(L, par, r, k) /\ age[k] < age[r] => age[q] <= age[r]
        BY <1>7, <3>0, <3>1
      <4>2. ASSUME NEW r \in Procs, Siblings(M, par2, r, q)
            PROVE  r # k /\ Siblings(L, par, r, k) /\ (age[q] <= age[r] \/ age[r] < age[k])
        <5>1. r # k /\ Siblings(L, par, r, k)
          BY <1>1, <3>0, <4>1, <4>2 DEF Siblings
        <5> QED BY <1>0, <1>2, <4>1, <5>1, SMTT(20)
      <4>3. ASSUME o[k] = NULL, NEW r \in Procs, Siblings(M, par2, r, q) PROVE age[q] <= age[r]
        BY <1>0, <1>4, <4>2, <4>3
      <4>4. ASSUME o[k] # NULL
            PROVE  /\ Siblings(M, par2, o[k], q) /\ age[o[k]] < age[q]
                   /\ \A r \in Procs : Siblings(M, par2, r, q) /\ age[r] < age[q] => age[r] <= age[o[k]]
        <5>1. Siblings(M, par2, o[k], q)
          BY <1>0, <1>1, <1>5, <3>0, <4>1, <4>4 DEF Siblings
        <5>2. age[o[k]] < age[q]
          BY <1>0, <1>5, <3>0, <4>1, <4>4
        <5>3. ASSUME NEW r \in Procs, Siblings(M, par2, r, q), age[r] < age[q] PROVE age[r] <= age[o[k]]
          <6>1. Siblings(L, par, r, k) /\ age[r] < age[k]
            BY <1>0, <3>0, <4>2, <5>3
          <6> QED BY <1>5, <4>4, <6>1
        <5> QED BY <5>1, <5>2, <5>3
      <4> QED BY <4>1, <4>3, <4>4
    <3>2. CASE q # y[k]
      <4>1. o2[q] = o[q]
        BY <3>0, <3>2
      <4>2. o[q] = NULL => \A r \in Procs : Siblings(L, par, r, q) => age[q] <= age[r]
        BY <1>0, <3>0 DEF OlderInv
      <4>3. ASSUME o[q] # NULL
            PROVE  /\ o[q] \in Procs /\ o[q] # k /\ Siblings(L, par, o[q], q) /\ age[o[q]] < age[q]
                   /\ \A r \in Procs : Siblings(L, par, r, q) /\ age[r] < age[q] => age[r] <= age[o[q]]
        <5>1. /\ o[q] \in Procs /\ Siblings(L, par, o[q], q) /\ age[o[q]] < age[q]
              /\ \A r \in Procs : Siblings(L, par, r, q) /\ age[r] < age[q] => age[r] <= age[o[q]]
          BY <1>0, <3>0, <4>3 DEF OlderInv
        <5>2. ASSUME o[q] = k PROVE FALSE
          <6>1. Siblings(L, par, q, k) /\ age[k] < age[q]
            BY <5>1, <5>2 DEF Siblings
          <6>2. y[k] # NULL
            BY <1>0, <1>6, <3>0, <6>1
          <6>3. y[k] \in L /\ Siblings(L, par, y[k], q) /\ age[y[k]] <= age[q] /\ age[k] < age[y[k]]
            BY <1>7, <3>0, <6>1, <6>2 DEF Siblings
          <6>4. age[y[k]] # age[q]
            BY <1>0, <3>0, <3>2, <6>3
          <6>5. age[y[k]] < age[q] /\ y[k] \in Procs
            BY <1>0, <3>0, <6>3, <6>4
          <6>6. age[y[k]] <= age[k]
            BY <5>1, <5>2, <6>3, <6>5
          <6> QED BY <1>0, <6>3, <6>5, <6>6
        <5> QED BY <5>1, <5>2
      <4> QED BY <1>1, <3>0, <4>1, <4>2, <4>3
    <3> QED BY <3>1, <3>2
  <2> QED BY <2>1, <2>2 DEF OlderInv
<1>10. YoungerInv(M, par2, y2, X, age)
  <2>1. ASSUME NEW q \in M \ X
        PROVE  /\ y2[q] = NULL => \A r \in Procs : Siblings(M, par2, r, q) => age[r] <= age[q]
               /\ y2[q] # NULL =>
                    /\ Siblings(M, par2, y2[q], q) /\ age[q] < age[y2[q]]
                    /\ \A r \in Procs : Siblings(M, par2, r, q) /\ age[q] < age[r] => age[y2[q]] <= age[r]
    <3>0. q \in L \ X /\ q # k /\ q \in Procs /\ q # NULL
      BY <1>0, <1>m
    <3>1. CASE q = o[k]
      <4>1. y2[q] = y[k] /\ Siblings(L, par, q, k) /\ age[q] < age[k]
            /\ \A r \in Procs : Siblings(L, par, r, k) /\ age[r] < age[k] => age[r] <= age[q]
        BY <1>5, <3>0, <3>1
      <4>2. ASSUME NEW r \in Procs, Siblings(M, par2, r, q)
            PROVE  r # k /\ Siblings(L, par, r, k) /\ (age[r] <= age[q] \/ age[k] < age[r])
        <5>1. r # k /\ Siblings(L, par, r, k)
          BY <1>1, <3>0, <4>1, <4>2 DEF Siblings
        <5>2. age[r] # age[k] /\ (age[r] < age[k] => age[r] <= age[q])
          BY <1>2, <4>1, <5>1
        <5>3. age[r] \in Nat /\ age[k] \in Nat
          BY <1>0
        <5> QED BY <5>1, <5>2, <5>3
      <4>3. ASSUME y[k] = NULL, NEW r \in Procs, Siblings(M, par2, r, q) PROVE age[r] <= age[q]
        BY <1>0, <1>6, <4>2, <4>3
      <4>4. ASSUME y[k] # NULL
            PROVE  /\ Siblings(M, par2, y[k], q) /\ age[q] < age[y[k]]
                   /\ \A r \in Procs : Siblings(M, par2, r, q) /\ age[q] < age[r] => age[y[k]] <= age[r]
        <5>1. Siblings(M, par2, y[k], q)
          BY <1>0, <1>1, <1>7, <3>0, <4>1, <4>4 DEF Siblings
        <5>2. age[q] < age[y[k]]
          BY <1>0, <1>7, <3>0, <4>1, <4>4
        <5>3. ASSUME NEW r \in Procs, Siblings(M, par2, r, q), age[q] < age[r] PROVE age[y[k]] <= age[r]
          <6>1. Siblings(L, par, r, k) /\ age[k] < age[r]
            BY <1>0, <3>0, <4>2, <5>3
          <6> QED BY <1>7, <4>4, <6>1
        <5> QED BY <5>1, <5>2, <5>3
      <4> QED BY <4>1, <4>3, <4>4
    <3>2. CASE q # o[k]
      <4>1. y2[q] = y[q]
        BY <3>0, <3>2
      <4>2. y[q] = NULL => \A r \in Procs : Siblings(L, par, r, q) => age[r] <= age[q]
        BY <1>0, <3>0 DEF YoungerInv
      <4>3. ASSUME y[q] # NULL
            PROVE  /\ y[q] \in Procs /\ y[q] # k /\ Siblings(L, par, y[q], q) /\ age[q] < age[y[q]]
                   /\ \A r \in Procs : Siblings(L, par, r, q) /\ age[q] < age[r] => age[y[q]] <= age[r]
        <5>1. /\ y[q] \in Procs /\ Siblings(L, par, y[q], q) /\ age[q] < age[y[q]]
              /\ \A r \in Procs : Siblings(L, par, r, q) /\ age[q] < age[r] => age[y[q]] <= age[r]
          BY <1>0, <3>0, <4>3 DEF YoungerInv
        <5>2. ASSUME y[q] = k PROVE FALSE
          <6>1. Siblings(L, par, q, k) /\ age[q] < age[k]
            BY <5>1, <5>2 DEF Siblings
          <6>2. o[k] # NULL
            BY <1>0, <1>4, <3>0, <6>1
          <6>3. o[k] \in L /\ Siblings(L, par, o[k], q) /\ age[q] <= age[o[k]] /\ age[o[k]] < age[k]
            BY <1>5, <3>0, <6>1, <6>2 DEF Siblings
          <6>4. age[o[k]] # age[q]
            BY <1>0, <3>0, <3>2, <6>3
          <6>5. age[q] < age[o[k]] /\ o[k] \in Procs
            BY <1>0, <3>0, <6>3, <6>4
          <6>6. age[k] <= age[o[k]]
            BY <5>1, <5>2, <6>3, <6>5
          <6> QED BY <1>0, <6>3, <6>5, <6>6
        <5> QED BY <5>1, <5>2
      <4> QED BY <1>1, <3>0, <4>1, <4>2, <4>3
    <3> QED BY <3>1, <3>2
  <2> QED BY <2>1 DEF YoungerInv
<1>11. AgeInv(M, age, next)
  BY <1>m DEF IsFamily, AgeInv
<1> QED BY <1>m, <1>8, <1>9, <1>10, <1>11 DEF IsFamily

\* Another yptr, which heads may have cleared and which X2 exempts.
LEMMA OtherYptr ==
    ASSUME NEW L, NEW par, NEW c, NEW o, NEW y, NEW X, NEW age, NEW next,
           IsFamily(L, par, c, o, y, X, age, next), NEW X2, NEW y2 \in Pointers,
           \A q \in L \ X2 : \/ q \notin X /\ y2[q] = y[q]
                             \/ par[q] \in Procs /\ c[par[q]] = q /\ y2[q] = NULL
    PROVE  IsFamily(L, par, c, o, y2, X2, age, next)
<1> USE ProcAssumption
<1>1. ASSUME NEW q \in L \ X2
      PROVE  /\ y2[q] = NULL => \A r \in Procs : Siblings(L, par, r, q) => age[r] <= age[q]
             /\ y2[q] # NULL =>
                  /\ Siblings(L, par, y2[q], q) /\ age[q] < age[y2[q]]
                  /\ \A r \in Procs : Siblings(L, par, r, q) /\ age[q] < age[r] => age[y2[q]] <= age[r]
  <2>1. CASE q \notin X /\ y2[q] = y[q]
    BY <2>1 DEF IsFamily, YoungerInv
  <2>2. CASE par[q] \in Procs /\ c[par[q]] = q /\ y2[q] = NULL
    <3>1. q # NULL
      BY DEF IsFamily
    <3>2. \A r \in Procs : ChildIn(L, par, r, par[q]) => age[r] <= age[q]
      BY <2>2, <3>1 DEF IsFamily, HeadInv
    <3> QED BY <2>2, <3>2 DEF ChildIn, Siblings
  <2> QED BY <2>1, <2>2
<1>2. YoungerInv(L, par, y2, X2, age)
  BY <1>1 DEF YoungerInv
<1> QED BY <1>2 DEF IsFamily

\* The youngest of a set of processes.
LEMMA Youngest ==
    ASSUME NEW age \in [Procs -> Nat], NEW next \in Nat, \A q \in Procs : age[q] < next,
           NEW Z \in SUBSET Procs, Z # {}
    PROVE  \E m \in Z : \A r \in Z : age[r] <= age[m]
<1> DEFINE T == {next - age[r] : r \in Z}
<1>1. T \subseteq Nat /\ T # {}
  OBVIOUS
<1>2. PICK x \in T : \A y \in T : x <= y
  BY <1>1, NatLeast
<1>3. PICK m \in Z : x = next - age[m]
  OBVIOUS
<1>4. ASSUME NEW r \in Z PROVE age[r] <= age[m]
  <2>1. next - age[r] \in T
    OBVIOUS
  <2>2. next - age[m] <= next - age[r]
    BY <1>2, <1>3, <2>1
  <2>3. age[r] \in Nat /\ age[m] \in Nat
    OBVIOUS
  <2> HIDE DEF T
  <2> QED BY <2>2, <2>3
<1> QED BY <1>4

\* Two functions that each follow a list in the same way agree: the ages fall
\* along it, so it ends.
LEMMA ListRecursion ==
    ASSUME NEW age \in [Procs -> Nat], NEW o, NEW f, NEW g, f[NULL] = g[NULL],
           \A q \in Procs : o[q] = NULL \/ (o[q] \in Procs /\ age[o[q]] < age[q]),
           \A q \in Procs : f[o[q]] = g[o[q]] => f[q] = g[q]
    PROVE  \A q \in Procs \cup {NULL} : f[q] = g[q]
<1> DEFINE B == {q \in Procs : f[q] # g[q]}
           T == {age[q] : q \in B}
<1>1. SUFFICES ASSUME B # {} PROVE FALSE
  OBVIOUS
<1>2. T \subseteq Nat /\ T # {}
  BY <1>1
<1>3. PICK x \in T : \A y \in T : x <= y
  BY <1>2, NatLeast
<1>4. PICK q \in B : x = age[q]
  OBVIOUS
<1>5. o[q] # NULL /\ o[q] \in Procs /\ age[o[q]] < age[q] /\ f[o[q]] # g[o[q]]
  BY <1>4
<1>6. age[o[q]] \in T
  BY <1>5
<1>7. age[q] <= age[o[q]] /\ age[q] \in Nat /\ age[o[q]] \in Nat
  BY <1>3, <1>4, <1>5, <1>6
<1> HIDE DEF T, B
<1> QED BY <1>5, <1>7

\* The processes that are linked.
Live == {p \in Procs : Linked(p)}

\* The loop over a list visits all children, and only them.
LEMMA OffspringFacts ==
    ASSUME NEW X, NEW age, NEW next, IsFamily(Live, parent, cptr, optr, yptr, X, age, next), NEW p \in Procs
    PROVE  Offspring(p) = {q \in Procs : ChildIn(Live, parent, q, p)}
<1> USE ProcAssumption
<1>0. /\ age \in [Procs -> Nat] /\ cptr \in [Procs -> Procs \cup {NULL}]
      /\ optr \in [Procs -> Procs \cup {NULL}]
      /\ \A q, r \in Live : age[q] = age[r] => q = r
      /\ HeadInv(Live, parent, cptr, age) /\ OlderInv(Live, parent, optr, age)
  BY DEF IsFamily, AgeInv, Pointers
<1> DEFINE S == Procs \cup {NULL}
           upto(q) == {r \in Procs : Siblings(Live, parent, r, q) /\ age[r] <= age[q]}
           f == [q \in S |-> IF q = NULL THEN {} ELSE IF q \in Live THEN upto(q) ELSE {q}]
           g == CHOOSE h : h = [q \in S |-> IF q = NULL THEN {} ELSE {q} \cup h[optr[q]]]
<1>1. \A q \in Procs : optr[q] \in S
  BY <1>0
<1>2. ASSUME NEW q \in Procs PROVE f[q] = {q} \cup f[optr[q]]
  <2>1. CASE q \notin Live
    BY <1>0, <2>1 DEF OlderInv
  <2>2. CASE q \in Live /\ optr[q] = NULL
    <3>1. \A r \in Procs : Siblings(Live, parent, r, q) => age[q] <= age[r]
      BY <1>0, <2>2 DEF OlderInv
    <3>2. ASSUME NEW r \in Procs PROVE r \in upto(q) <=> r = q
      BY <1>0, <2>2, <3>1 DEF Siblings
    <3> QED BY <2>2, <3>2
  <2>3. CASE q \in Live /\ optr[q] # NULL
    <3>1. /\ optr[q] \in Procs /\ Siblings(Live, parent, optr[q], q) /\ age[optr[q]] < age[q]
          /\ \A r \in Procs : Siblings(Live, parent, r, q) /\ age[r] < age[q] => age[r] <= age[optr[q]]
      BY <1>0, <1>1, <2>3 DEF OlderInv
    <3>2. ASSUME NEW r \in Procs PROVE r \in upto(q) <=> r = q \/ r \in upto(optr[q])
      BY <1>0, <2>3, <3>1 DEF Siblings
    <3>3. f[q] = upto(q) /\ f[optr[q]] = upto(optr[q])
      BY <2>3, <3>1 DEF Siblings
    <3>4. PICK A, B : A = upto(q) /\ B = upto(optr[q])
      OBVIOUS
    <3>5. A \subseteq Procs /\ B \subseteq Procs /\ q \in Procs
      BY <3>4
    <3>6. \A r \in Procs : r \in A <=> r = q \/ r \in B
      BY <3>2, <3>4, Zenon
    <3>7. A = {q} \cup B
      BY ONLY <3>5, <3>6
    <3> HIDE DEF f, upto
    <3> QED BY <3>3, <3>4, <3>7
  <2> QED BY <2>1, <2>2, <2>3
<1>3. f = [q \in S |-> IF q = NULL THEN {} ELSE {q} \cup f[optr[q]]]
  BY <1>2
<1>4. g = [q \in S |-> IF q = NULL THEN {} ELSE {q} \cup g[optr[q]]]
  <2>1. \E h : h = [q \in S |-> IF q = NULL THEN {} ELSE {q} \cup h[optr[q]]]
    BY <1>3
  <2> HIDE DEF f
  <2> QED BY <2>1
<1>5. Offspring(p) = g[cptr[p]]
  BY DEF Offspring
<1>6. \A q \in Procs : optr[q] = NULL \/ (optr[q] \in Procs /\ age[optr[q]] < age[q])
  BY <1>0 DEF OlderInv
<1>7. f[NULL] = {} /\ cptr[p] \in S
  BY <1>0
<1>8. cptr[p] # NULL => f[cptr[p]] = {q \in Procs : ChildIn(Live, parent, q, p)}
  <2>1. SUFFICES ASSUME cptr[p] # NULL PROVE f[cptr[p]] = {q \in Procs : ChildIn(Live, parent, q, p)}
    OBVIOUS
  <2>2. /\ cptr[p] \in Procs /\ ChildIn(Live, parent, cptr[p], p)
        /\ \A r \in Procs : ChildIn(Live, parent, r, p) => age[r] <= age[cptr[p]]
    BY <1>0, <2>1 DEF HeadInv
  <2>3. f[cptr[p]] = upto(cptr[p])
    BY <2>1, <2>2 DEF ChildIn
  <2>4. ASSUME NEW r \in Procs PROVE r \in upto(cptr[p]) <=> ChildIn(Live, parent, r, p)
    BY <2>2 DEF ChildIn, Siblings
  <2> HIDE DEF f
  <2> QED BY <2>3, <2>4
<1> HIDE DEF f, g
<1>9. \A q \in Procs : g[optr[q]] = f[optr[q]] => g[q] = f[q]
  BY <1>2, <1>4
<1>10. g[NULL] = f[NULL]
  BY <1>4, <1>7
<1>11. g[cptr[p]] = f[cptr[p]]
  <2>1. PICK o, F, G : o = optr /\ F = f /\ G = g
    OBVIOUS
  <2>2. /\ G[NULL] = F[NULL]
        /\ \A q \in Procs : o[q] = NULL \/ (o[q] \in Procs /\ age[o[q]] < age[q])
        /\ \A q \in Procs : G[o[q]] = F[o[q]] => G[q] = F[q]
    BY <1>6, <1>9, <1>10, <2>1
  <2>3. \A q \in Procs \cup {NULL} : G[q] = F[q]
    BY <1>0, <2>2, ListRecursion
  <2> QED BY <1>7, <2>1, <2>3
<1>12. CASE cptr[p] = NULL
  BY <1>0, <1>5, <1>7, <1>11, <1>12 DEF HeadInv
<1>13. CASE cptr[p] # NULL
  BY <1>5, <1>8, <1>11, <1>13
<1> QED BY <1>12, <1>13

\* The scan of do_wait finds a dead child, if there is one.
LEMMA FirstZombieFacts ==
    ASSUME NEW X, NEW age, NEW next, IsFamily(Live, parent, cptr, optr, yptr, X, age, next), current \in Procs
    PROVE  /\ \/ FirstZombie = NULL
              \/ /\ FirstZombie \in Procs /\ state[FirstZombie] = "ZOMBIE"
                 /\ ChildIn(Live, parent, FirstZombie, current)
           /\ \A z \in Procs : ChildIn(Live, parent, z, current) /\ state[z] = "ZOMBIE" => FirstZombie # NULL
<1> USE ProcAssumption
<1>0. /\ age \in [Procs -> Nat] /\ cptr \in [Procs -> Procs \cup {NULL}]
      /\ optr \in [Procs -> Procs \cup {NULL}] /\ next \in Nat /\ \A q \in Procs : age[q] < next
      /\ \A q, r \in Live : age[q] = age[r] => q = r
      /\ HeadInv(Live, parent, cptr, age) /\ OlderInv(Live, parent, optr, age)
  BY DEF IsFamily, AgeInv, Pointers
<1> DEFINE S == Procs \cup {NULL}
           dead(q) == {r \in Procs : Siblings(Live, parent, r, q) /\ state[r] = "ZOMBIE" /\ age[r] <= age[q]}
           top(q) == CHOOSE m \in dead(q) : \A r \in dead(q) : age[r] <= age[m]
           f == [q \in S |-> IF q = NULL \/ dead(q) = {} THEN NULL ELSE top(q)]
           g == CHOOSE h : h = [q \in S |-> IF q = NULL THEN NULL
                                            ELSE IF state[q] = "ZOMBIE" THEN q ELSE h[optr[q]]]
<1>1. \A q \in Procs : optr[q] \in S
  BY <1>0
<1>2. ASSUME NEW q \in Procs, dead(q) # {}
      PROVE  top(q) \in dead(q) /\ \A r \in dead(q) : age[r] <= age[top(q)]
  <2>1. dead(q) \in SUBSET Procs
    OBVIOUS
  <2>2. \E m \in dead(q) : \A r \in dead(q) : age[r] <= age[m]
    <3> HIDE DEF dead
    <3> QED BY <1>0, <1>2, <2>1, Youngest
  <2> HIDE DEF dead
  <2> QED BY <2>2
<1>3. ASSUME NEW q \in Procs PROVE f[q] = IF state[q] = "ZOMBIE" THEN q ELSE f[optr[q]]
  <2>1. CASE state[q] = "ZOMBIE"
    <3>1. q \in dead(q)
      BY <1>0, <2>1 DEF Siblings, Live, Linked
    <3>2. top(q) \in dead(q) /\ age[q] <= age[top(q)]
      BY <1>2, <3>1
    <3>3. top(q) = q
      <4>1. top(q) \in Procs /\ Siblings(Live, parent, top(q), q) /\ age[top(q)] <= age[q]
        BY <3>2
      <4> HIDE DEF top
      <4> QED BY <1>0, <3>2, <4>1 DEF Siblings
    <3> HIDE DEF top, dead
    <3> QED BY <2>1, <3>1, <3>3
  <2>2. CASE state[q] # "ZOMBIE" /\ q \notin Live
    <3>1. optr[q] = NULL /\ dead(q) = {}
      BY <1>0, <2>2 DEF OlderInv, Siblings
    <3> HIDE DEF top, dead
    <3> QED BY <2>2, <3>1
  <2>3. CASE state[q] # "ZOMBIE" /\ q \in Live /\ optr[q] = NULL
    <3>1. \A r \in Procs : Siblings(Live, parent, r, q) => age[q] <= age[r]
      BY <1>0, <2>3 DEF OlderInv
    <3>2. dead(q) = {}
      BY <1>0, <2>3, <3>1 DEF Siblings
    <3> HIDE DEF top, dead
    <3> QED BY <2>3, <3>2
  <2>4. CASE state[q] # "ZOMBIE" /\ q \in Live /\ optr[q] # NULL
    <3>1. /\ optr[q] \in Procs /\ Siblings(Live, parent, optr[q], q) /\ age[optr[q]] < age[q]
          /\ \A r \in Procs : Siblings(Live, parent, r, q) /\ age[r] < age[q] => age[r] <= age[optr[q]]
      BY <1>0, <1>1, <2>4 DEF OlderInv
    <3>2. ASSUME NEW r \in Procs PROVE r \in dead(q) <=> r \in dead(optr[q])
      BY <1>0, <2>4, <3>1 DEF Siblings
    <3>3. dead(q) = dead(optr[q])
      BY <3>2
    <3>4. top(q) = top(optr[q])
      <4> HIDE DEF dead
      <4> QED BY <3>3
    <3> HIDE DEF top, dead
    <3> QED BY <2>4, <3>1, <3>3, <3>4
  <2> QED BY <2>1, <2>2, <2>3, <2>4
<1>4. f = [q \in S |-> IF q = NULL THEN NULL ELSE IF state[q] = "ZOMBIE" THEN q ELSE f[optr[q]]]
  <2> HIDE DEF dead, top
  <2> QED BY <1>3
<1>5. g = [q \in S |-> IF q = NULL THEN NULL ELSE IF state[q] = "ZOMBIE" THEN q ELSE g[optr[q]]]
  <2>1. \E h : h = [q \in S |-> IF q = NULL THEN NULL
                                ELSE IF state[q] = "ZOMBIE" THEN q ELSE h[optr[q]]]
    BY <1>4
  <2> HIDE DEF f
  <2> QED BY <2>1
<1>6. FirstZombie = g[cptr[current]]
  BY DEF FirstZombie
<1>7. \A q \in Procs : optr[q] = NULL \/ (optr[q] \in Procs /\ age[optr[q]] < age[q])
  BY <1>0 DEF OlderInv
<1>8. f[NULL] = NULL /\ cptr[current] \in S
  BY <1>0
<1>9. ASSUME cptr[current] # NULL
      PROVE  /\ cptr[current] \in Procs /\ ChildIn(Live, parent, cptr[current], current)
             /\ \A r \in Procs : ChildIn(Live, parent, r, current) => age[r] <= age[cptr[current]]
             /\ f[cptr[current]] = IF dead(cptr[current]) = {} THEN NULL ELSE top(cptr[current])
  <2>1. /\ cptr[current] \in Procs /\ ChildIn(Live, parent, cptr[current], current)
        /\ \A r \in Procs : ChildIn(Live, parent, r, current) => age[r] <= age[cptr[current]]
    BY <1>0, <1>9 DEF HeadInv
  <2> HIDE DEF dead, top
  <2> QED BY <1>9, <2>1
<1>10. ASSUME cptr[current] # NULL
       PROVE  \/ f[cptr[current]] = NULL
              \/ /\ f[cptr[current]] \in Procs /\ state[f[cptr[current]]] = "ZOMBIE"
                 /\ Siblings(Live, parent, f[cptr[current]], cptr[current])
  <2>1. CASE dead(cptr[current]) = {}
    BY <1>9, <1>10, <2>1
  <2>2. CASE dead(cptr[current]) # {}
    <3>1. top(cptr[current]) \in dead(cptr[current])
      BY <1>2, <1>9, <1>10, <2>2
    <3>2. f[cptr[current]] \in dead(cptr[current])
      <4> HIDE DEF dead, top, f
      <4> QED BY <1>9, <1>10, <2>2, <3>1
    <3> HIDE DEF f, top
    <3> QED BY <3>2
  <2> QED BY <2>1, <2>2
<1>11. ASSUME NEW z \in Procs, ChildIn(Live, parent, z, current), state[z] = "ZOMBIE"
       PROVE  cptr[current] # NULL /\ f[cptr[current]] # NULL
  <2>1. cptr[current] # NULL
    BY <1>0, <1>11 DEF HeadInv
  <2>2. z \in dead(cptr[current])
    BY <1>9, <1>11, <2>1 DEF ChildIn, Siblings
  <2>3. top(cptr[current]) \in Procs
    <3>1. dead(cptr[current]) # {}
      BY <2>2
    <3>2. top(cptr[current]) \in dead(cptr[current])
      BY <1>2, <1>9, <2>1, <3>1
    <3> HIDE DEF top
    <3> QED BY <3>2
  <2> HIDE DEF dead, top, f
  <2> QED BY <1>9, <2>1, <2>2, <2>3
<1> HIDE DEF f, g, dead, top
<1>12. \A q \in Procs : g[optr[q]] = f[optr[q]] => g[q] = f[q]
  BY <1>3, <1>5
<1>13. g[NULL] = f[NULL]
  BY <1>4, <1>5
<1>14. \A q \in Procs \cup {NULL} : g[q] = f[q]
  <2>1. PICK o, F, G : o = optr /\ F = f /\ G = g
    OBVIOUS
  <2>2. /\ G[NULL] = F[NULL]
        /\ \A q \in Procs : o[q] = NULL \/ (o[q] \in Procs /\ age[o[q]] < age[q])
        /\ \A q \in Procs : G[o[q]] = F[o[q]] => G[q] = F[q]
    BY <1>7, <1>12, <1>13, <2>1
  <2>3. \A q \in Procs \cup {NULL} : G[q] = F[q]
    BY <1>0, <2>2, ListRecursion
  <2> QED BY <2>1, <2>3
<1>15. FirstZombie = f[cptr[current]]
  BY <1>6, <1>8, <1>14
<1>16. \A z \in Procs : ChildIn(Live, parent, z, current) /\ state[z] = "ZOMBIE" => FirstZombie # NULL
  BY <1>11, <1>15
<1>17. CASE cptr[current] = NULL
  BY <1>8, <1>15, <1>16, <1>17
<1>18. CASE cptr[current] # NULL
  BY <1>9, <1>10, <1>15, <1>16, <1>18 DEF ChildIn, Siblings
<1> QED BY <1>17, <1>18

-----------------------------------------------------------------------------
(* The rest of the invariant.                                               *)

\* Except for initproc's, a child was born after its parent.
BirthInv(birth, next) ==
    /\ birth \in [Procs -> Nat] /\ next \in Nat
    /\ \A q \in Procs : birth[q] < next
    /\ \A q \in Procs \ {Idle, Init_} : Linked(q) =>
          /\ parent[q] \in Procs \ {Idle}
          /\ parent[q] = Init_ \/ birth[parent[q]] < birth[q]

InitPcs == {"init_fork", "fork_wakeup", "init_sync", "init_wait", "wait_scan", "wait_sched",
            "wait_wake", "init_resched", "init_done", "exit"}

\* initproc is idle's only child and never dies, and nobody's parent is gone.
PlaceInv ==
    /\ parent[Idle] = NULL /\ parent[Init_] = Idle /\ Linked(Init_)
    /\ pc[Init_] \in InitPcs /\ waitfor[Init_] = Idle
    /\ \A p \in Procs \ {Idle} : Linked(p) => pc[parent[p]] \notin {"none", "dead", "exit_sched"}
    /\ \A p \in Procs : pc[p] = "init_done" => cptr[Init_] = NULL
    /\ panic # "init_main assert"

CountInv ==
    /\ IsFiniteSet({p \in Procs : Linked(p)})
    /\ nr_process = Cardinality({p \in Procs : Linked(p)})

\* The loop of do_exit leaves the yptr of the head stale.
Stale == {q \in Procs \ {Idle} : q = cptr[parent[q]] /\ pc[parent[q]] = "exit_kids"}

TreeInv ==
    /\ \E age, next : IsFamily(Live, parent, cptr, optr, yptr, Stale, age, next)
    /\ \E birth, next : BirthInv(birth, next)
    /\ PlaceInv /\ CountInv

FamilyInv == TreeInv /\ NoLostChildExit

-----------------------------------------------------------------------------
(* The steps that leave the pointers alone.                                 *)

\* Only the process in the loop of do_exit has a stale list.
LEMMA StaleFacts ==
    ASSUME IInv, NEW q \in Live, q \in Stale
    PROVE  pc[current] = "exit_kids" /\ parent[q] = current /\ q = cptr[current]
<1>1. q \in Procs \ {Idle} /\ parent[q] \in Procs
  BY DEF Live, Linked, Stale, IInv, LinkInv
<1> QED BY <1>1 DEF Stale, IInv, PcInv, RestingPcs

\* Fewer processes that the invariant speaks about.
LEMMA MoreStale ==
    ASSUME NEW L, NEW par, NEW c, NEW o, NEW y, NEW X, NEW age, NEW next,
           IsFamily(L, par, c, o, y, X, age, next), NEW X2, \A q \in L \ X2 : q \notin X
    PROVE  IsFamily(L, par, c, o, y, X2, age, next)
BY DEF IsFamily, YoungerInv

\* Outside that loop no yptr is stale.
LEMMA NoneStale ==
    ASSUME IInv, pc[current] # "exit_kids", NEW age, NEW next,
           IsFamily(Live, parent, cptr, optr, yptr, Stale, age, next)
    PROVE  IsFamily(Live, parent, cptr, optr, yptr, {}, age, next)
<1>1. \A q \in Live \ {} : q \notin Stale
  BY StaleFacts
<1>2. PICK L, par, c, o, y, X :
        L = Live /\ par = parent /\ c = cptr /\ o = optr /\ y = yptr /\ X = Stale
  OBVIOUS
<1>3. IsFamily(L, par, c, o, y, X, age, next) /\ \A q \in L \ {} : q \notin X
  BY <1>1, <1>2
<1>4. IsFamily(L, par, c, o, y, {}, age, next)
  BY <1>3, MoreStale
<1> QED BY <1>2, <1>4

\* The current process goes on to l.
Moved(l) ==
    /\ UNCHANGED linkVars
    /\ pc' = [pc EXCEPT ![current] = l]
    /\ l # "none" /\ (l = "dead" => pc[current] = "exit_sched")
    /\ l = "exit_sched" \/ (pc[current] = "exit_kids" /\ l # "exit_kids") => cptr[current] = NULL
    /\ l = "init_done" => cptr[Init_] = NULL
    /\ current = Init_ => l \in InitPcs
    /\ waitfor'[Init_] = Idle
    /\ panic' # "init_main assert"

\* It keeps the tree.
LEMMA MovedKeepsTree ==
    ASSUME IInv, IInv', TreeInv, NEW l, Moved(l)
    PROVE  TreeInv'
<1> USE SchedAssumption, ProcAssumption
<1>1. /\ current \in Procs /\ pc \in [Procs -> Pcs] /\ pc' = [pc EXCEPT ![current] = l]
      /\ parent' = parent /\ cptr' = cptr /\ optr' = optr /\ yptr' = yptr /\ nr_process' = nr_process
  BY DEF IInv, SchedInv, SchedTypeOK, PcInv, Moved, linkVars
<1>2. \A q \in Procs : Linked(q)' <=> Linked(q)
  <2>0. l # "none" /\ pc[current] # "none"
    BY DEF Moved, IInv, PcInv
  <2>1. \A q \in Procs : pc'[q] = "none" <=> pc[q] = "none"
    BY <1>1, <2>0
  <2> QED BY <2>1 DEF IInv, PcInv, Linked
<1>3. Live' = Live /\ {p \in Procs : Linked(p)}' = {p \in Procs : Linked(p)}
  BY <1>2 DEF Live
<1>4. ASSUME NEW q \in Live, q \in Stale PROVE q \in Stale'
  <2>1. pc[current] = "exit_kids" /\ parent[q] = current /\ q = cptr[current] /\ q \in Procs /\ q # NULL
    BY <1>4, StaleFacts DEF Live
  <2>2. pc'[current] = "exit_kids"
    BY <1>1, <2>1 DEF Moved
  <2> QED BY <1>1, <1>4, <2>1, <2>2 DEF Stale
<1>5. PICK age, next : IsFamily(Live, parent, cptr, optr, yptr, Stale, age, next)
  BY DEF TreeInv
<1>6. IsFamily(Live, parent, cptr, optr, yptr, Stale, age, next)'
  <2>1. PICK L, par, c, o, y, X, X2 :
          L = Live /\ par = parent /\ c = cptr /\ o = optr /\ y = yptr /\ X = Stale /\ X2 = Stale'
    OBVIOUS
  <2>2. IsFamily(L, par, c, o, y, X, age, next) /\ \A q \in L \ X2 : q \notin X
    BY <1>4, <1>5, <2>1
  <2>3. IsFamily(L, par, c, o, y, X2, age, next)
    BY <2>2, MoreStale
  <2> QED BY <1>1, <1>3, <2>1, <2>3
<1>7. PICK birth, n : BirthInv(birth, n)
  BY DEF TreeInv
<1>8. BirthInv(birth, n)'
  BY <1>1, <1>2, <1>7 DEF BirthInv
<1>9. CountInv'
  BY <1>1, <1>3 DEF TreeInv, CountInv
<1>10. PlaceInv'
  <2>1. PlaceInv
    BY DEF TreeInv
  <2>2. parent'[Idle] = NULL /\ parent'[Init_] = Idle /\ Linked(Init_)'
    BY <1>1, <1>2, <2>1 DEF PlaceInv
  <2>3. pc'[Init_] \in InitPcs /\ waitfor'[Init_] = Idle /\ panic' # "init_main assert"
    BY <1>1, <2>1 DEF PlaceInv, Moved
  <2>4. ASSUME NEW p \in Procs \ {Idle}, Linked(p)
        PROVE  pc'[parent[p]] \notin {"none", "dead", "exit_sched"}
    <3>1. parent[p] \in Procs /\ pc[parent[p]] \notin {"none", "dead", "exit_sched"}
      BY <2>1, <2>4 DEF PlaceInv, IInv, LinkInv, Linked
    <3>2. CASE parent[p] # current
      BY <1>1, <3>1, <3>2
    <3>3. CASE parent[p] = current
      <4>1. ChildIn(Live, parent, p, current)
        BY <2>4, <3>3 DEF ChildIn, Live
      <4>2. cptr[current] # NULL
        BY <1>1, <1>5, <4>1 DEF IsFamily, HeadInv
      <4>3. l \notin {"none", "dead", "exit_sched"}
        BY <3>1, <3>3, <4>2 DEF Moved
      <4> QED BY <1>1, <3>3, <4>3
    <3> QED BY <3>2, <3>3
  <2>5. ASSUME NEW p \in Procs, pc'[p] = "init_done" PROVE cptr'[Init_] = NULL
    BY <1>1, <2>1, <2>5 DEF PlaceInv, Moved
  <2> QED BY <1>1, <1>2, <2>2, <2>3, <2>4, <2>5 DEF PlaceInv
<1> QED BY <1>6, <1>8, <1>9, <1>10 DEF TreeInv

\* It loses no exit either, if nobody starts to wait, and if it has woken its
\* parent when it leaves exit_parent.
LEMMA MovedLosesNoExit ==
    ASSUME IInv, IInv', NoLostChildExit, NEW l, Moved(l),
           \A q \in Procs : wait_state'[q] = "CHILD" => wait_state[q] = "CHILD" /\ waitfor'[q] = waitfor[q],
           l \in ZombiePcs /\ pc[current] \notin ZombiePcs => l = "exit_parent",
           pc[current] = "exit_parent" /\ l # "exit_parent" => wait_state'[parent[current]] # "CHILD"
    PROVE  NoLostChildExit'
<1>1. SUFFICES ASSUME NEW p \in Procs, NEW z \in Procs,
                      wait_state'[p] = "CHILD", state'[z] = "ZOMBIE", parent'[z] = p, waitfor'[p] \in {Idle, z}
               PROVE  pc'[z] = "exit_parent"
  BY DEF NoLostChildExit
<1>2. /\ current \in Procs /\ pc \in [Procs -> Pcs] /\ pc' = [pc EXCEPT ![current] = l] /\ parent' = parent
  BY DEF IInv, SchedInv, SchedTypeOK, PcInv, Moved, linkVars
<1>3. pc'[z] \in ZombiePcs
  BY <1>1 DEF IInv, PcInv
<1>4. CASE pc[z] \notin ZombiePcs
  BY <1>2, <1>3, <1>4
<1>5. CASE pc[z] \in ZombiePcs
  <2>1. pc[z] = "exit_parent"
    <3>1. state[z] = "ZOMBIE"
      BY <1>5 DEF IInv, PcInv
    <3> QED BY <1>1, <1>2, <3>1 DEF NoLostChildExit
  <2> QED BY <1>1, <1>2, <2>1
<1> QED BY <1>4, <1>5

-----------------------------------------------------------------------------
\* Nobody begins to wait.
NoneWaits ==
    \A q \in Procs : wait_state'[q] = "CHILD" => wait_state[q] = "CHILD" /\ waitfor'[q] = waitfor[q]

\* At the points where a process is awake it waits for nothing.
LEMMA AwakeFacts ==
    ASSUME IInv, pc[current] \notin SleepPcs \cup WaitPcs \cup ReadPcs
    PROVE  wait_state[current] = "NONE"
BY DEF IInv, SchedInv, SchedTypeOK, PcInv

\* initproc is at none of the points of user processes.
LEMMA NotInit ==
    ASSUME TreeInv, pc[current] \notin InitPcs
    PROVE  current # Init_
BY DEF TreeInv, PlaceInv

\* A step with neither links nor sleep in it.
LEMMA PlainKeeps ==
    ASSUME IInv, IInv', FamilyInv, NEW l, UNCHANGED linkVars, pc' = [pc EXCEPT ![current] = l],
           l \notin {"none", "exit_sched", "exit_kids", "exit_parent"} \/ l = pc[current],
           l = "dead" => pc[current] = "exit_sched", l = "init_done" => cptr[Init_] = NULL \/ l = pc[current],
           pc[current] \notin {"exit_kids", "exit_parent"} \/ l = pc[current],
           current = Init_ => l \in InitPcs,
           panic' # "init_main assert", waitfor'[Init_] = Idle, NoneWaits
    PROVE  FamilyInv'
<1>1. TreeInv /\ NoLostChildExit /\ PlaceInv /\ current \in Procs
  BY DEF FamilyInv, TreeInv, IInv, SchedInv, SchedTypeOK
<1>2. pc[current] \notin {"none", "dead"}
  BY DEF IInv, PcInv
<1>3. pc[current] = "exit_sched" => cptr[current] = NULL
  <2>1. PICK age, next : IsFamily(Live, parent, cptr, optr, yptr, Stale, age, next)
    BY <1>1 DEF TreeInv
  <2>2. ASSUME cptr[current] # NULL PROVE pc[current] # "exit_sched"
    <3>1. cptr[current] \in Procs /\ ChildIn(Live, parent, cptr[current], current)
      BY <1>1, <2>1, <2>2 DEF IsFamily, HeadInv, ChildIn
    <3>2. cptr[current] # Idle
      BY <1>1, <3>1, ProcAssumption DEF PlaceInv, ChildIn
    <3> QED BY <1>1, <3>1, <3>2 DEF PlaceInv, ChildIn, Live
  <2> QED BY <2>2
<1>4. l = "init_done" => cptr[Init_] = NULL
  BY <1>1 DEF PlaceInv
<1>5. Moved(l)
  BY <1>2, <1>3, <1>4 DEF Moved
<1>6. /\ l \in ZombiePcs /\ pc[current] \notin ZombiePcs => l = "exit_parent"
      /\ pc[current] = "exit_parent" /\ l # "exit_parent" => wait_state'[parent[current]] # "CHILD"
  BY DEF ZombiePcs
<1>7. TreeInv'
  BY <1>1, <1>5, MovedKeepsTree
<1>8. NoLostChildExit'
  BY <1>1, <1>5, <1>6, MovedLosesNoExit DEF NoneWaits
<1> QED BY <1>7, <1>8 DEF FamilyInv

\* The system calls, and the ends of traps.
LEMMA PlainCalls ==
    ASSUME IInv, IInv', FamilyInv,
           \/ SyscallNoEffect \/ Yield \/ UserExit \/ TrapRetKilled \/ TrapRetUser \/ SleepAdd \/ SleepWake
           \/ ReadReturn \/ ReadSleep \/ ReadAgain \/ WaitNoKid \/ WaitWake \/ InitWait \/ \E p \in Procs : Wait(p)
    PROVE  FamilyInv'
<1> USE SchedAssumption, ProcAssumption
<1>0. /\ TreeInv /\ PlaceInv /\ panic # "init_main assert" /\ waitfor[Init_] = Idle
      /\ current \in Procs /\ pc \in [Procs -> Pcs] /\ waitfor \in [Procs -> Procs]
  BY DEF FamilyInv, TreeInv, PlaceInv, IInv, SchedInv, SchedTypeOK, PcInv, LinkInv
<1>1. CASE SyscallNoEffect \/ Yield \/ UserExit \/ TrapRetKilled \/ TrapRetUser
  <2>1. /\ pc[current] \in {"user", "kthread", "trap_ret"}
        /\ \E l \in {"user", "trap_ret", "exit"} : pc' = [pc EXCEPT ![current] = l]
    BY <1>1 DEF SyscallNoEffect, Yield, UserExit, TrapRetKilled, TrapRetUser, At, Goto
  <2>2. UNCHANGED linkVars /\ wait_state' = wait_state /\ waitfor' = waitfor /\ panic' = panic
    BY <1>1 DEF SyscallNoEffect, Yield, UserExit, TrapRetKilled, TrapRetUser, schedVars
  <2>3. current # Init_
    BY <1>0, <2>1, NotInit DEF InitPcs
  <2>4. NoneWaits
    BY <2>2 DEF NoneWaits
  <2> QED BY <1>0, <2>1, <2>2, <2>3, <2>4, PlainKeeps
<1>2. CASE SleepAdd \/ SleepWake
  <2>1. /\ pc[current] \in {"sleep_add", "sleep_wake"}
        /\ \E l \in {pc[current], "sleep_sched", "kthread", "trap_ret"} : pc' = [pc EXCEPT ![current] = l]
    BY <1>0, <1>2 DEF SleepAdd, SleepWake, At, Goto
  <2>2. UNCHANGED linkVars /\ wait_state' = wait_state /\ waitfor' = waitfor /\ panic' = panic
    BY <1>2 DEF SleepAdd, SleepWake, AddTimerPass, AddTimerLink, schedVars
  <2>3. current # Init_
    BY <1>0, <2>1, NotInit DEF InitPcs
  <2>4. NoneWaits
    BY <2>2 DEF NoneWaits
  <2> QED BY <1>0, <2>1, <2>2, <2>3, <2>4, PlainKeeps
<1>3. CASE WaitWake \/ InitWait
  <2>1. /\ pc[current] \in {"wait_wake", "init_wait", "init_sync"}
        /\ \E l \in {"exit", "wait_scan"} : pc' = [pc EXCEPT ![current] = l]
    BY <1>3 DEF WaitWake, InitWait, At, Goto
  <2>2. UNCHANGED linkVars /\ wait_state' = wait_state /\ waitfor' = waitfor /\ panic' = panic
    BY <1>3 DEF WaitWake, InitWait, schedVars
  <2>3. NoneWaits
    BY <2>2 DEF NoneWaits
  <2> QED BY <1>0, <2>1, <2>2, <2>3, PlainKeeps DEF InitPcs
<1>4. ASSUME NEW p \in Procs, Wait(p) PROVE FamilyInv'
  <2>1. /\ pc[current] = "user" /\ pc' = [pc EXCEPT ![current] = "wait_scan"]
        /\ UNCHANGED linkVars /\ wait_state' = wait_state /\ panic' = panic
        /\ waitfor' = [waitfor EXCEPT ![current] = p]
    BY <1>4 DEF Wait, At, Goto, schedVars
  <2>2. current # Init_ /\ wait_state[current] = "NONE"
    BY <1>0, <2>1, NotInit, AwakeFacts DEF InitPcs, SleepPcs, WaitPcs, ReadPcs
  <2>3. NoneWaits
    BY <1>0, <2>1, <2>2 DEF NoneWaits
  <2>4. waitfor'[Init_] = Idle
    BY <1>0, <2>1, <2>2
  <2> QED BY <1>0, <2>1, <2>2, <2>3, <2>4, PlainKeeps
<1>5. CASE WaitNoKid
  <2> DEFINE l == IF current = Init_ THEN "init_done" ELSE "trap_ret"
  <2>1. /\ pc[current] = "wait_scan" /\ pc' = [pc EXCEPT ![current] = l]
        /\ UNCHANGED linkVars /\ wait_state' = wait_state /\ panic' = panic
        /\ waitfor' = [waitfor EXCEPT ![current] = Idle] /\ ~HasKid
    BY <1>5 DEF WaitNoKid, At, Goto, schedVars
  <2>2. wait_state[current] = "NONE"
    BY <2>1, AwakeFacts DEF SleepPcs, WaitPcs, ReadPcs
  <2>3. NoneWaits
    BY <1>0, <2>1, <2>2 DEF NoneWaits
  <2>4. waitfor'[Init_] = Idle
    BY <1>0, <2>1
  <2>5. l = "init_done" => cptr[Init_] = NULL
    BY <1>0, <2>1 DEF HasKid
  <2>6. l \in {"init_done", "trap_ret"} /\ (current = Init_ => l \in InitPcs)
    BY DEF InitPcs
  <2> HIDE DEF l
  <2> QED BY <1>0, <2>1, <2>3, <2>4, <2>5, <2>6, PlainKeeps
<1>6. CASE ReadReturn \/ ReadSleep \/ ReadAgain
  <2>1. /\ pc[current] \in {"user", "read_wake"}
        /\ \E l \in {"trap_ret", "read_sched"} : pc' = [pc EXCEPT ![current] = l]
    BY <1>6 DEF ReadReturn, ReadSleep, ReadAgain, At, Goto
  <2>2. /\ UNCHANGED linkVars /\ waitfor' = waitfor /\ panic' = panic
        /\ wait_state' = wait_state \/ wait_state' = [wait_state EXCEPT ![current] = "KBD"]
    BY <1>6 DEF ReadReturn, ReadSleep, ReadAgain, SetSleeping, schedVars
  <2>3. current # Init_
    BY <1>0, <2>1, NotInit DEF InitPcs
  <2>4. wait_state \in [Procs -> WaitStates]
    BY DEF IInv, SchedInv, SchedTypeOK
  <2>5. NoneWaits
    BY <1>0, <2>2, <2>4 DEF NoneWaits
  <2> QED BY <1>0, <2>1, <2>2, <2>3, <2>5, PlainKeeps
<1> QED BY <1>1, <1>2, <1>3, <1>4, <1>5, <1>6

\* The calls of schedule().
LEMMA PlainSchedules ==
    ASSUME IInv, IInv', FamilyInv,
           \/ SleepSched \/ WaitSched \/ ReadSched \/ ExitSched \/ CpuIdle \/ InitResched
           \/ TrapRetSchedule
    PROVE  FamilyInv'
<1> USE SchedAssumption, ProcAssumption
<1>0. /\ TreeInv /\ PlaceInv /\ panic # "init_main assert" /\ waitfor[Init_] = Idle
      /\ current \in Procs /\ pc \in [Procs -> Pcs]
  BY DEF FamilyInv, TreeInv, PlaceInv, IInv, SchedInv, SchedTypeOK, PcInv, LinkInv
<1>1. PICK l \in {"sleep_wake", "wait_wake", "read_wake", "dead", "idle", "init_wait", "user"} :
        /\ ScheduleTo(l)
        /\ pc[current] = CASE l = "sleep_wake" -> "sleep_sched" [] l = "wait_wake" -> "wait_sched"
                           [] l = "read_wake" -> "read_sched"
                           [] l = "dead" -> "exit_sched" [] l = "idle" -> "idle"
                           [] l = "init_wait" -> "init_resched" [] l = "user" -> "trap_ret"
  <2>1. CASE SleepSched \/ WaitSched \/ ReadSched \/ ExitSched
    BY <2>1 DEF SleepSched, WaitSched, ReadSched, ExitSched, At
  <2>2. CASE CpuIdle \/ InitResched \/ TrapRetSchedule
    BY <2>2 DEF CpuIdle, InitResched, TrapRetSchedule, At
  <2> QED BY <2>1, <2>2
<1>2. /\ UNCHANGED linkVars /\ wait_state' = wait_state /\ waitfor' = waitfor
      /\ pc' = [pc EXCEPT ![current] = l] /\ panic' # "init_main assert"
  BY <1>0, <1>1 DEF ScheduleTo, Schedule, Goto, Assert_
<1>3. current = Init_ => l \in InitPcs
  <2>1. current = Init_ => pc[current] \in InitPcs
    BY <1>0 DEF PlaceInv
  <2> QED BY <1>1, <2>1 DEF InitPcs
<1>4. NoneWaits
  BY <1>2 DEF NoneWaits
<1>5. /\ l \notin {"none", "exit_sched", "exit_kids", "exit_parent", "init_done"}
      /\ (l = "dead" => pc[current] = "exit_sched") /\ pc[current] \notin {"exit_kids", "exit_parent"}
  BY <1>1
<1>6. waitfor'[Init_] = Idle
  BY <1>0, <1>2
<1> QED BY <1>2, <1>3, <1>4, <1>5, <1>6, PlainKeeps

\* The interrupts, and a halted kernel.
LEMMA PlainTicks ==
    ASSUME IInv, IInv', FamilyInv,
           \/ Tick \/ TickTimer \/ TickEnd \/ Input \/ InputWakeup \/ InputEnd
           \/ UNCHANGED vars
    PROVE  FamilyInv'
<1> USE SchedAssumption, ProcAssumption
<1>0. /\ TreeInv /\ PlaceInv /\ panic # "init_main assert" /\ waitfor[Init_] = Idle /\ SchedTypeOK
      /\ current \in Procs /\ pc \in [Procs -> Pcs] /\ (current = Init_ => pc[current] \in InitPcs)
      /\ pc[current] \notin {"none", "dead"}
  BY DEF FamilyInv, TreeInv, PlaceInv, IInv, SchedInv, SchedTypeOK, PcInv, LinkInv
<1>1. UNCHANGED linkVars /\ waitfor' = waitfor
  BY DEF Tick, TickTimer, TickEnd, Input, InputWakeup, InputEnd, vars
<1>2. pc' = [pc EXCEPT ![current] = pc[current]]
      \/ (pc[current] = "user" /\ pc' = [pc EXCEPT ![current] = "trap_ret"])
  <2>1. pc' = pc \/ (pc[current] = "user" /\ pc' = [pc EXCEPT ![current] = "trap_ret"])
    BY DEF Tick, TickTimer, TickEnd, Input, InputWakeup, InputEnd, IrqReturn, vars, Goto
  <2> QED BY <1>0, <2>1
<1>3. panic' # "init_main assert" /\ \A q \in Procs : wait_state'[q] = "CHILD" => wait_state[q] = "CHILD"
  <2>1. CASE Tick \/ TickEnd \/ Input \/ InputEnd \/ UNCHANGED vars
    BY <1>0, <2>1 DEF Tick, TickEnd, Input, InputEnd, RunTimerBegin, vars, schedVars, Assert_
  <2>2. CASE TickTimer \/ InputWakeup
    <3>1. PICK p : \/ WakeupProc(p)
                   \/ Assert_(FALSE) /\ wait_state' = wait_state
      BY <2>2 DEF TickTimer, RunTimerStep, InputWakeup
    <3>2. panic' = panic \/ panic' = "assert"
      BY <3>1 DEF WakeupProc, Assert_
    <3>3. wait_state' = wait_state \/ wait_state' = [wait_state EXCEPT ![p] = "NONE"]
      BY <3>1 DEF WakeupProc
    <3>4. \A q \in Procs : wait_state'[q] = "CHILD" => wait_state[q] = "CHILD"
      BY <1>0, <3>3 DEF SchedTypeOK
    <3> QED BY <1>0, <3>2, <3>4
  <2> QED BY <2>1, <2>2
<1>4. NoneWaits /\ waitfor'[Init_] = Idle
  BY <1>0, <1>1, <1>3 DEF NoneWaits
<1>5. CASE pc' = [pc EXCEPT ![current] = pc[current]]
  <2>1. PICK l : l = pc[current]
    OBVIOUS
  <2> QED BY <1>0, <1>1, <1>3, <1>4, <1>5, <2>1, PlainKeeps
<1>6. CASE pc[current] = "user" /\ pc' = [pc EXCEPT ![current] = "trap_ret"]
  <2>1. current # Init_
    BY <1>0, <1>6 DEF InitPcs
  <2> QED BY <1>1, <1>3, <1>4, <1>6, <2>1, PlainKeeps
<1> QED BY <1>2, <1>5, <1>6

\* do_sleep's beginning, do_kill, and the end of do_fork.
LEMMA PlainWakes ==
    ASSUME IInv, IInv', FamilyInv,
           ForkWakeup \/ (\E t \in Times : Sleep(t)) \/ (\E p \in Killable : Kill(p))
    PROVE  FamilyInv'
<1> USE SchedAssumption, ProcAssumption
<1>0. /\ TreeInv /\ PlaceInv /\ panic # "init_main assert" /\ waitfor[Init_] = Idle /\ SchedTypeOK
      /\ current \in Procs /\ pc \in [Procs -> Pcs] /\ (current = Init_ => pc[current] \in InitPcs)
      /\ wait_state \in [Procs -> WaitStates]
  BY DEF FamilyInv, TreeInv, PlaceInv, IInv, SchedInv, SchedTypeOK, PcInv, LinkInv
<1>1. UNCHANGED linkVars /\ waitfor' = waitfor
  BY DEF ForkWakeup, Sleep, Kill
<1>2. PICK l \in {"init_sync", "trap_ret", "sleep_add"} :
        /\ pc' = [pc EXCEPT ![current] = l] /\ pc[current] \in {"fork_wakeup", "user", "kthread"}
        /\ current = Init_ /\ pc[current] = "fork_wakeup" => l = "init_sync"
  <2>1. CASE ForkWakeup
    BY <2>1 DEF ForkWakeup, At, Goto
  <2>2. ASSUME NEW t \in Times, Sleep(t)
        PROVE  pc' = [pc EXCEPT ![current] = "sleep_add"] /\ pc[current] \in {"user", "kthread"}
    BY <2>2 DEF Sleep, At, Goto
  <2>3. ASSUME NEW p \in Killable, Kill(p)
        PROVE  pc' = [pc EXCEPT ![current] = "trap_ret"] /\ pc[current] = "user"
    BY <2>3 DEF Kill, At, Goto
  <2> QED BY <2>1, <2>2, <2>3
<1>3. current = Init_ => l \in InitPcs
  BY <1>0, <1>2 DEF InitPcs
<1>4. panic' # "init_main assert" /\ \A q \in Procs : wait_state'[q] = "CHILD" => wait_state[q] = "CHILD"
  <2>1. CASE ForkWakeup
    BY <1>0, <2>1 DEF ForkWakeup, WakeupProc, Assert_
  <2>2. ASSUME NEW t \in Times, Sleep(t)
        PROVE  panic' # "init_main assert" /\ \A q \in Procs : wait_state'[q] = "CHILD" => wait_state[q] = "CHILD"
    BY <1>0, <2>2 DEF Sleep, SetSleeping, AddTimerBegin, Assert_
  <2>3. ASSUME NEW p \in Killable, Kill(p)
        PROVE  panic' # "init_main assert" /\ \A q \in Procs : wait_state'[q] = "CHILD" => wait_state[q] = "CHILD"
    BY <1>0, <2>3 DEF Kill, WakeupProc, Assert_
  <2> QED BY <2>1, <2>2, <2>3
<1>5. NoneWaits /\ waitfor'[Init_] = Idle
  BY <1>0, <1>1, <1>4 DEF NoneWaits
<1> QED BY <1>1, <1>2, <1>3, <1>4, <1>5, PlainKeeps

\* do_exit, except for its loop: the parent is woken, and the loop has left no
\* child when it ends.
LEMMA ExitStepsKeep ==
    ASSUME IInv, IInv', FamilyInv, Exit \/ ExitParent \/ ExitKidsDone
    PROVE  FamilyInv'
<1> USE SchedAssumption, ProcAssumption
<1>0. /\ TreeInv /\ NoLostChildExit /\ PlaceInv /\ panic # "init_main assert" /\ waitfor[Init_] = Idle
      /\ SchedTypeOK /\ current \in Procs /\ pc \in [Procs -> Pcs]
      /\ (current = Init_ => pc[current] \in InitPcs) /\ wait_state \in [Procs -> WaitStates]
  BY DEF FamilyInv, TreeInv, PlaceInv, IInv, SchedInv, SchedTypeOK, PcInv, LinkInv
<1>1. UNCHANGED linkVars /\ waitfor' = waitfor
  BY DEF Exit, ExitParent, ExitKidsDone
<1>2. CASE Exit
  <2>1. PICK l \in {"exit", "exit_parent"} :
          pc[current] = "exit" /\ pc' = [pc EXCEPT ![current] = l] /\ (current = Init_ => l = "exit")
    BY <1>0, <1>2 DEF Exit, At, Goto
  <2>2. panic' # "init_main assert" /\ wait_state' = wait_state
    BY <1>0, <1>2 DEF Exit
  <2>3. Moved(l)
    BY <1>0, <1>1, <2>1, <2>2 DEF Moved, InitPcs
  <2>4. NoLostChildExit'
    BY <1>0, <1>1, <2>1, <2>2, <2>3, MovedLosesNoExit DEF ZombiePcs
  <2> QED BY <1>0, <2>3, <2>4, MovedKeepsTree DEF FamilyInv
<1>3. CASE ExitParent
  <2>1. /\ pc[current] = "exit_parent" /\ pc' = [pc EXCEPT ![current] = "exit_kids"]
        /\ current # Init_
    BY <1>0, <1>3 DEF ExitParent, At, Goto, InitPcs
  <2>2. current # Idle /\ state[current] # "FREE"
    BY <1>0, <2>1 DEF IInv, PcInv
  <2>3. PICK p \in Procs : p = parent[current]
    BY <1>0, <2>2 DEF IInv, LinkInv
  <2>4. wait_state[p] = "CHILD" => state[p] = "SLEEPING"
    BY <2>3 DEF IInv, PcInv
  <2>5. /\ panic' # "init_main assert" /\ wait_state'[p] # "CHILD"
        /\ \A q \in Procs : wait_state'[q] = "CHILD" => wait_state[q] = "CHILD"
    BY <1>0, <1>3, <2>3, <2>4 DEF ExitParent, WakeupProc, Assert_
  <2>6. Moved("exit_kids")
    BY <1>0, <1>1, <2>1, <2>5 DEF Moved
  <2>7. NoLostChildExit'
    BY <1>0, <1>1, <2>1, <2>3, <2>5, <2>6, MovedLosesNoExit DEF ZombiePcs
  <2> QED BY <1>0, <2>6, <2>7, MovedKeepsTree DEF FamilyInv
<1>4. CASE ExitKidsDone
  <2>1. /\ pc[current] = "exit_kids" /\ pc' = [pc EXCEPT ![current] = "exit_sched"]
        /\ current # Init_ /\ cptr[current] = NULL /\ panic' = panic /\ wait_state' = wait_state
    BY <1>0, <1>4 DEF ExitKidsDone, At, Goto, InitPcs, schedVars
  <2>2. Moved("exit_sched")
    BY <1>0, <1>1, <2>1 DEF Moved
  <2>3. NoLostChildExit'
    BY <1>0, <1>1, <2>1, <2>2, MovedLosesNoExit DEF ZombiePcs
  <2> QED BY <1>0, <2>2, <2>3, MovedKeepsTree DEF FamilyInv
<1> QED BY <1>2, <1>3, <1>4

\* do_wait goes to sleep: the scan has seen every child, and none is dead.
LEMMA WaitSleepKeeps ==
    ASSUME IInv, IInv', FamilyInv, WaitSleep
    PROVE  FamilyInv'
<1> USE SchedAssumption, ProcAssumption
<1>0. /\ TreeInv /\ NoLostChildExit /\ PlaceInv /\ panic # "init_main assert" /\ waitfor[Init_] = Idle
      /\ current \in Procs /\ pc \in [Procs -> Pcs] /\ wait_state \in [Procs -> WaitStates]
      /\ state \in [Procs -> States]
  BY DEF FamilyInv, TreeInv, PlaceInv, IInv, SchedInv, SchedTypeOK, PcInv, LinkInv
<1>1. /\ pc[current] = "wait_scan" /\ HasKid /\ (\A z \in Procs : ~FoundZombie(z))
      /\ state' = [state EXCEPT ![current] = "SLEEPING"]
      /\ wait_state' = [wait_state EXCEPT ![current] = "CHILD"]
      /\ pc' = [pc EXCEPT ![current] = "wait_sched"]
      /\ UNCHANGED linkVars /\ waitfor' = waitfor /\ panic' = panic
  BY DEF WaitSleep, At, SetSleeping, Goto
<1>2. TreeInv'
  <2>1. Moved("wait_sched")
    BY <1>0, <1>1 DEF Moved, InitPcs
  <2> QED BY <1>0, <2>1, MovedKeepsTree
<1>3. ASSUME NEW p \in Procs, NEW z \in Procs,
             wait_state'[p] = "CHILD", state'[z] = "ZOMBIE", parent'[z] = p, waitfor'[p] \in {Idle, z}
      PROVE  pc'[z] = "exit_parent"
  <2>1. z # current /\ state[z] = "ZOMBIE" /\ pc'[z] = pc[z] /\ parent[z] = p /\ waitfor[p] \in {Idle, z}
    BY <1>0, <1>1, <1>3 DEF linkVars
  <2>2. CASE p # current
    BY <1>0, <1>1, <1>3, <2>1, <2>2 DEF NoLostChildExit
  <2>3. CASE p = current
    <3>1. waitfor[current] = Idle \/ waitfor[current] = z
      BY <2>1, <2>3
    <3>2. CASE waitfor[current] # Idle
      BY <1>1, <2>1, <3>1, <3>2 DEF FoundZombie
    <3>3. CASE waitfor[current] = Idle
      <4>1. PICK age, next : IsFamily(Live, parent, cptr, optr, yptr, Stale, age, next)
        BY <1>0 DEF TreeInv
      <4>2. ChildIn(Live, parent, z, current)
        BY <2>1, <2>3 DEF ChildIn, Live, Linked
      <4>3. PICK X : X = Stale
        OBVIOUS
      <4>4. FirstZombie \in Procs /\ state[FirstZombie] = "ZOMBIE"
        BY <1>0, <2>1, <4>1, <4>2, <4>3, FirstZombieFacts
      <4> QED BY <1>1, <3>3, <4>4 DEF FoundZombie
    <3> QED BY <3>2, <3>3
  <2> QED BY <2>2, <2>3
<1>4. NoLostChildExit'
  BY <1>3 DEF NoLostChildExit
<1> QED BY <1>2, <1>4 DEF FamilyInv

\* With no child of initproc there is no other process: the oldest of them would
\* be its child.
LEMMA LastOne ==
    ASSUME IInv, TreeInv, cptr[Init_] = NULL, NEW q \in Procs \ {Idle, Init_}
    PROVE  ~Linked(q)
<1> USE SchedAssumption, ProcAssumption
<1>1. PICK birth, n : BirthInv(birth, n)
  BY DEF TreeInv
<1>2. PICK age, next : IsFamily(Live, parent, cptr, optr, yptr, Stale, age, next)
  BY DEF TreeInv
<1> DEFINE B == {p \in Procs \ {Idle, Init_} : Linked(p)}
           T == {birth[p] : p \in B}
<1>3. SUFFICES ASSUME Linked(q) PROVE FALSE
  OBVIOUS
<1>4. T \subseteq Nat /\ T # {}
  BY <1>1, <1>3 DEF BirthInv
<1>5. PICK x \in T : \A y \in T : x <= y
  BY <1>4, NatLeast
<1>6. PICK p \in B : x = birth[p]
  OBVIOUS
<1>7. CASE parent[p] = Init_
  <2>1. ChildIn(Live, parent, p, Init_)
    BY <1>6, <1>7 DEF ChildIn, Live
  <2> QED BY <1>2, <1>6, <2>1 DEF IsFamily, HeadInv
<1>8. CASE parent[p] # Init_
  <2>1. parent[p] \in Procs \ {Idle, Init_} /\ birth[parent[p]] < birth[p]
    BY <1>1, <1>6, <1>8 DEF BirthInv
  <2>2. Linked(parent[p])
    BY <1>6, <2>1 DEF TreeInv, PlaceInv, IInv, PcInv, Linked
  <2>3. birth[parent[p]] \in T
    BY <2>1, <2>2
  <2>4. birth[p] <= birth[parent[p]] /\ birth[p] \in Nat /\ birth[parent[p]] \in Nat
    BY <1>1, <1>5, <1>6, <2>1, <2>3 DEF BirthInv
  <2> HIDE DEF T, B
  <2> QED BY <2>1, <2>4
<1> QED BY <1>7, <1>8

\* So the assertions at the end of init_main hold.
LEMMA InitDoneKeepsFamily ==
    ASSUME IInv, IInv', FamilyInv, InitDone
    PROVE  FamilyInv'
<1> USE SchedAssumption, ProcAssumption
<1>0. /\ TreeInv /\ NoLostChildExit /\ PlaceInv /\ waitfor[Init_] = Idle /\ Linked(Init_) /\ parent[Init_] = Idle
      /\ parent[Idle] = NULL /\ current \in Procs /\ pc \in [Procs -> Pcs]
      /\ (current = Init_ => pc[current] \in InitPcs)
  BY DEF FamilyInv, TreeInv, PlaceInv, IInv, SchedInv, SchedTypeOK, PcInv, LinkInv
<1>1. /\ pc[current] = "init_done" /\ UNCHANGED linkVars
      /\ waitfor' = waitfor /\ wait_state' = wait_state /\ pc' = pc
  BY DEF InitDone, At
<1>2. cptr[Init_] = NULL
  BY <1>0, <1>1 DEF PlaceInv
<1>3. \A q \in Procs \ {Idle, Init_} : ~Linked(q)
  BY <1>0, <1>2, LastOne
<1>4. nr_process = 2
  <2>1. {p \in Procs : Linked(p)} = {Idle} \cup {Init_}
    BY <1>0, <1>3 DEF Linked, IInv, PcInv
  <2>2. Cardinality({Idle} \cup {Init_}) = Cardinality({Idle}) + 1 /\ Cardinality({Idle}) = 1
    BY FS_Singleton, FS_AddElement
  <2> QED BY <1>0, <2>1, <2>2 DEF TreeInv, CountInv
<1>5. optr[Init_] = NULL /\ yptr[Init_] = NULL
  <2>1. PICK age, next : IsFamily(Live, parent, cptr, optr, yptr, Stale, age, next)
    BY <1>0 DEF TreeInv
  <2>2. IsFamily(Live, parent, cptr, optr, yptr, {}, age, next)
    BY <1>1, <2>1, NoneStale
  <2>3. ASSUME NEW r \in Procs, Siblings(Live, parent, r, Init_) PROVE r = Init_
    BY <1>0, <1>3, <2>3 DEF Siblings, Live
  <2>4. Init_ \in Live \ {} /\ age[Init_] \in Nat
    BY <1>0, <2>2 DEF Live, IsFamily, AgeInv
  <2>5. optr[Init_] # NULL => optr[Init_] \in Procs /\ Siblings(Live, parent, optr[Init_], Init_) /\ age[optr[Init_]] < age[Init_]
    BY <2>2, <2>4 DEF IsFamily, OlderInv, Siblings
  <2>6. yptr[Init_] # NULL => yptr[Init_] \in Procs /\ Siblings(Live, parent, yptr[Init_], Init_) /\ age[Init_] < age[yptr[Init_]]
    BY <2>2, <2>4 DEF IsFamily, YoungerInv, Siblings
  <2> QED BY <2>3, <2>4, <2>5, <2>6
<1>6. panic' # "init_main assert"
  BY <1>2, <1>3, <1>4, <1>5 DEF InitDone
<1>7. PICK l : l = pc[current]
  OBVIOUS
<1>8. NoneWaits
  BY <1>1 DEF NoneWaits
<1>9. pc' = [pc EXCEPT ![current] = l]
  BY <1>0, <1>1, <1>7
<1> QED BY <1>0, <1>1, <1>2, <1>6, <1>7, <1>8, <1>9, PlainKeeps

-----------------------------------------------------------------------------
(* The steps that splice the lists.                                         *)

\* Nobody is the child of a process that is gone.
LEMMA NoKids ==
    ASSUME IInv, TreeInv, NEW p \in Procs, pc[p] \in {"none", "dead"}
    PROVE  cptr[p] = NULL /\ \A q \in Procs : Linked(q) => parent[q] # p
<1> USE SchedAssumption, ProcAssumption
<1>1. \A q \in Procs : Linked(q) => parent[q] # p
  BY DEF TreeInv, PlaceInv
<1>2. PICK age, next : IsFamily(Live, parent, cptr, optr, yptr, Stale, age, next)
  BY DEF TreeInv
<1>3. cptr[p] # NULL => ChildIn(Live, parent, cptr[p], p)
  BY <1>2 DEF IsFamily, HeadInv
<1> QED BY <1>1, <1>3 DEF ChildIn, Live

\* The loop of do_exit apart, the process at init_done is the one that runs.
LEMMA NoneElseDone ==
    ASSUME IInv, pc[current] # "init_done", NEW p \in Procs
    PROVE  pc[p] # "init_done"
BY DEF IInv, PcInv, RestingPcs

\* set_links.
LEMMA ForkKeepsFamily ==
    ASSUME IInv, IInv', FamilyInv, Fork \/ InitFork \/ InitSync
    PROVE  FamilyInv'
<1> USE SchedAssumption, ProcAssumption
<1>0. /\ TreeInv /\ NoLostChildExit /\ PlaceInv /\ panic # "init_main assert" /\ waitfor[Init_] = Idle
      /\ current \in Procs /\ pc \in [Procs -> Pcs] /\ wait_state \in [Procs -> WaitStates]
      /\ state \in [Procs -> States] /\ parent \in Pointers /\ cptr \in Pointers
      /\ optr \in Pointers /\ yptr \in Pointers
  BY DEF FamilyInv, TreeInv, PlaceInv, IInv, SchedInv, SchedTypeOK, PcInv, LinkInv, Pointers
<1>1. PICK c \in Procs, start \in {"user", "kthread"} :
        ForkChild(c, start) /\ pc[current] \in {"user", "init_fork", "init_sync"}
  BY DEF Fork, InitFork, InitSync, At
<1>2. /\ state[c] = "FREE" /\ state' = [state EXCEPT ![c] = "UNINIT"]
      /\ wait_state' = [wait_state EXCEPT ![c] = "NONE"]
      /\ pc' = [pc EXCEPT ![c] = start, ![current] = "fork_wakeup"]
      /\ waitfor' = waitfor /\ nr_process' = nr_process + 1
  BY <1>1 DEF ForkChild, SetLinks
<1>3. /\ parent' = [parent EXCEPT ![c] = current]
      /\ optr' = [optr EXCEPT ![c] = cptr[current]]
      /\ yptr' = [q \in Procs |-> CASE q = c -> NULL [] q = cptr[current] -> c [] OTHER -> yptr[q]]
      /\ cptr' = [cptr EXCEPT ![c] = NULL, ![current] = c]
  BY <1>1 DEF ForkChild, SetLinks
<1>4. /\ pc[c] = "none" /\ c # current /\ c # Idle /\ c # Init_ /\ current # Idle
      /\ pc[current] \notin {"none", "exit_kids", "exit_parent", "init_done"}
  <2>1. pc[c] = "none" /\ pc[Idle] = "idle" /\ pc[current] # "none"
    BY <1>2 DEF IInv, PcInv
  <2>2. c # Init_
    BY <1>0, <1>2 DEF PlaceInv, Linked
  <2> QED BY <1>1, <2>1, <2>2
<1>5. cptr[c] = NULL /\ \A q \in Procs : Linked(q) => parent[q] # c
  BY <1>0, <1>4, NoKids
<1>6. Live' = Live \cup {c} /\ c \notin Live /\ \A q \in Procs : Linked(q)' <=> Linked(q) \/ q = c
  BY <1>0, <1>2 DEF Live, Linked
<1>7. PICK age, next : IsFamily(Live, parent, cptr, optr, yptr, {}, age, next)
  <2>1. PICK age, next : IsFamily(Live, parent, cptr, optr, yptr, Stale, age, next)
    BY <1>0 DEF TreeInv
  <2> QED BY <1>4, <2>1, NoneStale
<1>8. \E a, n : IsFamily(Live', parent', cptr', optr', yptr', Stale', a, n)
  <2>1. PICK L, par, ch, o, y, h, p, a, par2, c2, o2, y2, X2 :
          /\ L = Live /\ par = parent /\ ch = cptr /\ o = optr /\ y = yptr /\ h = cptr[current] /\ p = current
          /\ par2 = parent' /\ c2 = cptr' /\ o2 = optr' /\ y2 = yptr' /\ X2 = Stale'
          /\ a = [age EXCEPT ![c] = next]
    OBVIOUS
  <2>2. /\ IsFamily(L, par, ch, o, y, {}, age, next) /\ p \in Procs /\ c \in Procs \ L /\ ch[p] \notin {}
    BY <1>0, <1>6, <1>7, <2>1
  <2>3a. a \in [Procs -> Nat] /\ \A q \in Procs : a[q] = IF q = c THEN next ELSE age[q]
    BY <2>1, <2>2 DEF IsFamily, AgeInv
  <2>3. /\ par2 \in Pointers /\ c2 \in Pointers /\ o2 \in Pointers /\ y2 \in Pointers
    BY <2>1 DEF IInv, LinkInv, Pointers
  <2>4. /\ \A q \in Procs : par2[q] = IF q = c THEN p ELSE par[q]
        /\ \A q \in Procs : c2[q] = IF q = p THEN c ELSE ch[q]
        /\ \A q \in Procs : o2[q] = IF q = c THEN ch[p] ELSE o[q]
    BY <1>0, <1>3, <1>4, <1>5, <2>1 DEF Pointers
  <2>5. \A q \in Procs : y2[q] = IF q = c THEN NULL ELSE IF q = ch[p] THEN c ELSE y[q]
    <3>1. ch[p] # c
      BY <2>2 DEF IsFamily, HeadInv, ChildIn
    <3> QED BY <1>3, <2>1, <3>1
  <2>6. IsFamily(L \cup {c}, par2, c2, o2, y2, {}, a, next + 1)
    BY <2>2, <2>3a, <2>3, <2>4, <2>5, AddHead
  <2>7. IsFamily(L \cup {c}, par2, c2, o2, y2, X2, a, next + 1)
    BY <2>6, MoreStale
  <2> QED BY <1>6, <2>1, <2>7
<1>9. \E birth, n : BirthInv(birth, n)'
  <2>1. PICK birth, n : BirthInv(birth, n)
    BY <1>0 DEF TreeInv
  <2>2. PICK b : b = [birth EXCEPT ![c] = n]
    OBVIOUS
  <2>3. /\ birth \in [Procs -> Nat] /\ n \in Nat /\ (\A q \in Procs : birth[q] < n)
        /\ b \in [Procs -> Nat] /\ b[c] = n /\ \A q \in Procs : q # c => b[q] = birth[q]
    BY <2>1, <2>2 DEF BirthInv
  <2>4. \A q \in Procs : b[q] < n + 1
    BY <2>3
  <2>5. ASSUME NEW q \in Procs \ {Idle, Init_}, Linked(q)'
        PROVE  parent'[q] \in Procs \ {Idle} /\ (parent'[q] = Init_ \/ b[parent'[q]] < b[q])
    <3>1. CASE q = c
      BY <1>0, <1>3, <1>4, <2>3, <3>1 DEF Pointers
    <3>2. CASE q # c
      <4>1. Linked(q) /\ parent'[q] = parent[q] /\ parent[q] # c
        BY <1>0, <1>3, <1>5, <1>6, <2>5, <3>2 DEF Pointers
      <4> QED BY <2>1, <2>3, <3>2, <4>1 DEF BirthInv
    <3> QED BY <3>1, <3>2
  <2>6. BirthInv(b, n + 1)'
    BY <2>3, <2>4, <2>5 DEF BirthInv
  <2> QED BY <2>6
<1>10. PlaceInv'
  <2>1. parent'[Idle] = NULL /\ parent'[Init_] = Idle /\ Linked(Init_)' /\ waitfor'[Init_] = Idle
    BY <1>0, <1>2, <1>3, <1>4, <1>6 DEF PlaceInv, Pointers
  <2>2. pc'[Init_] \in InitPcs
    BY <1>0, <1>2, <1>4 DEF PlaceInv, InitPcs
  <2>3. ASSUME NEW p \in Procs \ {Idle}, Linked(p)'
        PROVE  pc'[parent'[p]] \notin {"none", "dead", "exit_sched"}
    <3>1. pc'[current] = "fork_wakeup"
      BY <1>0, <1>2
    <3>2. CASE p = c
      BY <1>0, <1>3, <3>1, <3>2 DEF Pointers
    <3>3. CASE p # c
      <4>1. Linked(p) /\ parent'[p] = parent[p] /\ parent[p] # c
        BY <1>0, <1>3, <1>5, <1>6, <2>3, <3>3 DEF Pointers
      <4>2. parent[p] \in Procs
        BY <2>3, <4>1 DEF IInv, LinkInv, Linked
      <4> QED BY <1>0, <1>2, <3>1, <4>1, <4>2 DEF PlaceInv
    <3> QED BY <3>2, <3>3
  <2>4. \A p \in Procs : pc'[p] # "init_done"
    BY <1>0, <1>1, <1>2, <1>4, NoneElseDone
  <2>5. panic' # "init_main assert"
    BY <1>0, <1>1 DEF ForkChild, Assert_
  <2> QED BY <2>1, <2>2, <2>3, <2>4, <2>5 DEF PlaceInv
<1>11. CountInv'
  <2>1. {p \in Procs : Linked(p)}' = {p \in Procs : Linked(p)} \cup {c} /\ c \notin {p \in Procs : Linked(p)}
    BY <1>6 DEF Live
  <2>2. PICK S : S = {p \in Procs : Linked(p)}
    OBVIOUS
  <2>3. IsFiniteSet(S) /\ nr_process = Cardinality(S) /\ c \notin S
    BY <1>0, <2>1, <2>2 DEF TreeInv, CountInv
  <2>4. IsFiniteSet(S \cup {c}) /\ Cardinality(S \cup {c}) = Cardinality(S) + 1
    BY <2>3, FS_AddElement
  <2> QED BY <1>2, <2>1, <2>2, <2>3, <2>4 DEF CountInv
<1>12. NoLostChildExit'
  <2>1. SUFFICES ASSUME NEW p \in Procs, NEW z \in Procs, wait_state'[p] = "CHILD",
                        state'[z] = "ZOMBIE", parent'[z] = p, waitfor'[p] \in {Idle, z}
                 PROVE  FALSE
    BY DEF NoLostChildExit
  <2>2. p # c /\ z # c
    BY <1>0, <1>2, <2>1
  <2>3. wait_state[p] = "CHILD" /\ state[z] = "ZOMBIE" /\ parent[z] = p /\ waitfor[p] \in {Idle, z}
    BY <1>0, <1>2, <1>3, <2>1, <2>2 DEF Pointers
  <2>4. pc[z] = "exit_parent"
    BY <1>0, <2>3 DEF NoLostChildExit
  <2> QED BY <1>4, <2>4 DEF IInv, PcInv, RestingPcs
<1> QED BY <1>8, <1>9, <1>10, <1>11, <1>12 DEF FamilyInv, TreeInv

\* remove_links.
LEMMA WaitFoundKeepsFamily ==
    ASSUME IInv, IInv', FamilyInv, WaitFound
    PROVE  FamilyInv'
<1> USE SchedAssumption, ProcAssumption
<1>0. /\ TreeInv /\ NoLostChildExit /\ PlaceInv /\ panic # "init_main assert" /\ waitfor[Init_] = Idle
      /\ current \in Procs /\ pc \in [Procs -> Pcs] /\ wait_state \in [Procs -> WaitStates]
      /\ state \in [Procs -> States] /\ parent \in Pointers /\ cptr \in Pointers
      /\ optr \in Pointers /\ yptr \in Pointers /\ waitfor \in [Procs -> Procs]
  BY DEF FamilyInv, TreeInv, PlaceInv, IInv, SchedInv, SchedTypeOK, PcInv, LinkInv, Pointers
<1> DEFINE l == IF current = Init_ THEN "init_resched" ELSE "trap_ret"
<1>1. PICK z \in Procs :
        /\ FoundZombie(z) /\ RemoveLinks(z) /\ state' = [state EXCEPT ![z] = "FREE"]
        /\ waitfor' = [waitfor EXCEPT ![z] = Idle, ![current] = Idle]
        /\ pc' = [pc EXCEPT ![z] = "none", ![current] = l]
  BY DEF WaitFound
<1>2. pc[current] = "wait_scan" /\ wait_state' = wait_state /\ panic' = panic
  BY DEF WaitFound, At
<1>3. /\ yptr' = [q \in Procs |-> CASE q = z -> NULL [] q = optr[z] -> yptr[z] [] OTHER -> yptr[q]]
      /\ optr' = [q \in Procs |-> CASE q = z -> NULL [] q = yptr[z] -> optr[z] [] OTHER -> optr[q]]
      /\ cptr' = [q \in Procs |-> CASE q = z -> NULL
                                    [] q = parent[z] /\ yptr[z] = NULL -> optr[z]
                                    [] OTHER -> cptr[q]]
      /\ parent' = [parent EXCEPT ![z] = NULL] /\ nr_process' = nr_process - 1
  BY <1>1 DEF RemoveLinks
<1>4. PICK age, next : IsFamily(Live, parent, cptr, optr, yptr, {}, age, next)
  <2>1. PICK age, next : IsFamily(Live, parent, cptr, optr, yptr, Stale, age, next)
    BY <1>0 DEF TreeInv
  <2> QED BY <1>2, <2>1, NoneStale
<1>5. state[z] = "ZOMBIE" /\ parent[z] = current /\ z \in Live
  <2>1. state[z] = "ZOMBIE"
    BY <1>1 DEF FoundZombie
  <2>2. CASE waitfor[current] # Idle
    BY <1>1, <2>1, <2>2 DEF FoundZombie, HasKid, Live, Linked
  <2>3. CASE waitfor[current] = Idle
    <3>1. z = FirstZombie
      BY <1>1, <2>3 DEF FoundZombie
    <3>2. ChildIn(Live, parent, FirstZombie, current)
      BY <1>0, <1>4, <3>1, FirstZombieFacts
    <3> QED BY <2>1, <3>1, <3>2 DEF ChildIn
  <2> QED BY <2>2, <2>3
<1>6. pc[z] \in ZombiePcs /\ z # current
  BY <1>2, <1>5 DEF IInv, PcInv, ZombiePcs
<1>7. pc[z] = "dead" /\ z # Idle /\ z # Init_
  BY <1>0, <1>6 DEF IInv, PcInv, ZombiePcs, RestingPcs, PlaceInv, InitPcs
<1>8. cptr[z] = NULL /\ \A q \in Procs : Linked(q) => parent[q] # z
  BY <1>0, <1>7, NoKids
<1>9. Live' = Live \ {z} /\ \A q \in Procs : Linked(q)' <=> Linked(q) /\ q # z
  BY <1>0, <1>1 DEF Live, Linked
<1>10. \E a, n : IsFamily(Live', parent', cptr', optr', yptr', Stale', a, n)
  <2>1. PICK L, par, ch, o, y, par2, c2, o2, y2, X2 :
          /\ L = Live /\ par = parent /\ ch = cptr /\ o = optr /\ y = yptr
          /\ par2 = parent' /\ c2 = cptr' /\ o2 = optr' /\ y2 = yptr' /\ X2 = Stale'
    OBVIOUS
  <2>2. IsFamily(L, par, ch, o, y, {}, age, next) /\ z \in L \ {} /\ par[z] \in Procs
    BY <1>0, <1>4, <1>5, <2>1
  <2>3. /\ par2 \in Pointers /\ c2 \in Pointers /\ o2 \in Pointers /\ y2 \in Pointers
    BY <2>1 DEF IInv, LinkInv, Pointers
  <2>4. \A q \in Procs : q # z => par2[q] = par[q]
    BY <1>0, <1>3, <2>1 DEF Pointers
  <2>5. \A q \in Procs : c2[q] = IF q = par[z] /\ y[z] = NULL THEN o[z] ELSE ch[q]
    BY <1>3, <1>5, <1>6, <1>8, <2>1
  <2>6. /\ \A q \in Procs : o2[q] = IF q = z THEN NULL ELSE IF q = y[z] THEN o[z] ELSE o[q]
        /\ \A q \in Procs : q # z => y2[q] = IF q = o[z] THEN y[z] ELSE y[q]
    <3>1. o[z] # z /\ y[z] # z
      BY <2>2 DEF IsFamily, AgeInv, OlderInv, YoungerInv
    <3> QED BY <1>3, <2>1, <3>1
  <2>7. IsFamily(L \ {z}, par2, c2, o2, y2, {}, age, next)
    BY <2>2, <2>3, <2>4, <2>5, <2>6, Unhook
  <2>8. IsFamily(L \ {z}, par2, c2, o2, y2, X2, age, next)
    BY <2>7, MoreStale
  <2> QED BY <1>9, <2>1, <2>8
<1>11. \A q \in Procs : q # z => parent'[q] = parent[q]
  BY <1>0, <1>3 DEF Pointers
<1>12. \E birth, n : BirthInv(birth, n)'
  <2>1. PICK birth, n : BirthInv(birth, n)
    BY <1>0 DEF TreeInv
  <2>2. BirthInv(birth, n)'
    BY <1>9, <1>11, <2>1 DEF BirthInv
  <2> QED BY <2>2
<1>13. PlaceInv'
  <2>1. parent'[Idle] = NULL /\ parent'[Init_] = Idle /\ Linked(Init_)' /\ waitfor'[Init_] = Idle
    BY <1>0, <1>1, <1>7, <1>9, <1>11 DEF PlaceInv
  <2>2. pc'[Init_] \in InitPcs
    BY <1>0, <1>1, <1>7 DEF PlaceInv, InitPcs
  <2>3. ASSUME NEW p \in Procs \ {Idle}, Linked(p)'
        PROVE  pc'[parent'[p]] \notin {"none", "dead", "exit_sched"}
    <3>1. Linked(p) /\ parent'[p] = parent[p] /\ parent[p] # z /\ parent[p] \in Procs
      BY <1>8, <1>9, <1>11, <2>3 DEF IInv, LinkInv, Linked
    <3> QED BY <1>0, <1>1, <3>1 DEF PlaceInv
  <2>4. \A p \in Procs : pc'[p] # "init_done"
    BY <1>0, <1>1, <1>2, NoneElseDone
  <2> QED BY <1>0, <1>2, <2>1, <2>2, <2>3, <2>4 DEF PlaceInv
<1>14. CountInv'
  <2>1. {p \in Procs : Linked(p)}' = {p \in Procs : Linked(p)} \ {z} /\ z \in {p \in Procs : Linked(p)}
    BY <1>5, <1>9 DEF Live
  <2>2. PICK S : S = {p \in Procs : Linked(p)}
    OBVIOUS
  <2>3. IsFiniteSet(S) /\ nr_process = Cardinality(S) /\ z \in S
    BY <1>0, <2>1, <2>2 DEF TreeInv, CountInv
  <2>4. IsFiniteSet(S \ {z}) /\ Cardinality(S \ {z}) = Cardinality(S) - 1
    BY <2>3, FS_RemoveElement
  <2> QED BY <1>3, <2>1, <2>2, <2>3, <2>4 DEF CountInv
<1>15. NoLostChildExit'
  <2>1. SUFFICES ASSUME NEW p \in Procs, NEW y \in Procs, wait_state'[p] = "CHILD",
                        state'[y] = "ZOMBIE", parent'[y] = p, waitfor'[p] \in {Idle, y}
                 PROVE  FALSE
    BY DEF NoLostChildExit
  <2>2. y # z /\ state[y] = "ZOMBIE" /\ parent[y] = p /\ wait_state[p] = "CHILD"
    BY <1>0, <1>1, <1>2, <1>11, <2>1
  <2>3. state[p] = "SLEEPING" /\ p # current /\ p # z
    BY <1>2, <1>5, <2>2 DEF IInv, PcInv, SleepPcs, WaitPcs, ReadPcs
  <2>4. pc[y] = "exit_parent"
    BY <1>0, <1>1, <2>1, <2>2, <2>3 DEF NoLostChildExit
  <2> QED BY <1>2, <2>4 DEF IInv, PcInv, RestingPcs
<1> QED BY <1>10, <1>12, <1>13, <1>14, <1>15 DEF FamilyInv, TreeInv

\* One turn of the loop of do_exit.
LEMMA ExitKidKeepsFamily ==
    ASSUME IInv, IInv', FamilyInv, ExitKid
    PROVE  FamilyInv'
<1> USE SchedAssumption, ProcAssumption
<1>0. /\ TreeInv /\ NoLostChildExit /\ PlaceInv /\ panic # "init_main assert" /\ waitfor[Init_] = Idle
      /\ current \in Procs /\ pc \in [Procs -> Pcs] /\ wait_state \in [Procs -> WaitStates]
      /\ state \in [Procs -> States] /\ parent \in Pointers /\ cptr \in Pointers
      /\ optr \in Pointers /\ yptr \in Pointers
      /\ parent[Idle] = NULL /\ parent[Init_] = Idle /\ Linked(Init_) /\ pc[Init_] \in InitPcs
  BY DEF FamilyInv, TreeInv, PlaceInv, IInv, SchedInv, SchedTypeOK, PcInv, LinkInv, Pointers
<1>1. PICK kid : kid = cptr[current]
  OBVIOUS
<1>2. /\ pc[current] = "exit_kids" /\ kid # NULL
      /\ parent' = [parent EXCEPT ![kid] = Init_]
      /\ optr' = [optr EXCEPT ![kid] = cptr[Init_]]
      /\ yptr' = [q \in Procs |-> CASE q = kid -> NULL [] q = cptr[Init_] -> kid [] OTHER -> yptr[q]]
      /\ cptr' = [cptr EXCEPT ![current] = optr[kid], ![Init_] = kid]
      /\ pc' = pc /\ waitfor' = waitfor /\ nr_process' = nr_process
  BY <1>1 DEF ExitKid, At
<1>3. /\ (state[kid] = "ZOMBIE" /\ wait_state[Init_] = "CHILD" => WakeupProc(Init_))
      /\ ~(state[kid] = "ZOMBIE" /\ wait_state[Init_] = "CHILD") => wait_state' = wait_state /\ panic' = panic
  BY <1>1 DEF ExitKid
<1>4. PICK age, next : IsFamily(Live, parent, cptr, optr, yptr, Stale, age, next)
  BY <1>0 DEF TreeInv
<1>5. kid \in Procs /\ kid \in Live /\ parent[kid] = current /\ current # Init_ /\ current # Idle
  BY <1>0, <1>1, <1>2, <1>4 DEF IsFamily, HeadInv, ChildIn, InitPcs, IInv, PcInv
<1>6. kid # Init_ /\ kid # Idle
  BY <1>0, <1>5
<1>7. \A q \in Procs : Linked(q)' <=> Linked(q)
  BY <1>2 DEF Linked, IInv, PcInv
<1>8. Live' = Live
  BY <1>7 DEF Live
<1>9. \E a, n : IsFamily(Live', parent', cptr', optr', yptr', Stale', a, n)
  <2>1. PICK L, par, c, o, y, X, p, par2, c2, o2, y2, X2 :
          /\ L = Live /\ par = parent /\ c = cptr /\ o = optr /\ y = yptr /\ X = Stale /\ p = current
          /\ par2 = parent' /\ c2 = cptr' /\ o2 = optr' /\ y2 = yptr' /\ X2 = Stale'
    OBVIOUS
  <2>2. /\ IsFamily(L, par, c, o, y, X, age, next) /\ p \in Procs /\ p # Init_ /\ kid = c[p]
        /\ kid \in Procs /\ kid \in L /\ par[kid] = p /\ kid # Init_ /\ kid # NULL
        /\ par \in Pointers /\ c \in Pointers /\ o \in Pointers /\ y \in Pointers
        /\ par2 \in Pointers /\ c2 \in Pointers /\ o2 \in Pointers /\ y2 \in Pointers
    BY <1>0, <1>1, <1>2, <1>4, <1>5, <1>6, <2>1 DEF IInv, LinkInv, Pointers
  <2>3. /\ age \in [Procs -> Nat] /\ next \in Nat /\ (\A q, r \in L : age[q] = age[r] => q = r) /\ L \subseteq Procs
        /\ HeadInv(L, par, c, age) /\ OlderInv(L, par, o, age)
    BY <2>2 DEF IsFamily, AgeInv
  \* The pointers after the step.
  <2>4. /\ o[kid] # NULL => o[kid] \in L /\ o[kid] \in Procs /\ par[o[kid]] = p /\ o[kid] # kid
        /\ c[Init_] # NULL => c[Init_] \in L /\ par[c[Init_]] = Init_
    BY <2>2, <2>3 DEF HeadInv, OlderInv, ChildIn, Siblings
  <2>5. c[Init_] # kid /\ (c[Init_] = NULL \/ c[Init_] # o[kid])
    BY <2>2, <2>4
  <2>6. /\ \A q \in Procs : par2[q] = IF q = kid THEN Init_ ELSE par[q]
        /\ \A q \in Procs : o2[q] = IF q = kid THEN c[Init_] ELSE o[q]
        /\ \A q \in Procs : c2[q] = IF q = Init_ THEN kid ELSE IF q = p THEN o[kid] ELSE c[q]
    BY <1>2, <2>1, <2>2 DEF Pointers
  <2>7. \A q \in Procs : y2[q] = IF q = kid THEN NULL ELSE IF q = c[Init_] THEN kid ELSE y[q]
    BY <1>2, <2>1, <2>5
  \* The loop clears the yptr of kid, which is the head.
  <2>8. PICK y3 : y3 = [q \in Procs |-> IF q = kid THEN NULL ELSE y[q]]
    OBVIOUS
  <2>9. y3 \in Pointers /\ \A q \in Procs : y3[q] = IF q = kid THEN NULL ELSE y[q]
    BY <2>2, <2>8 DEF Pointers
  <2>10. IsFamily(L, par, c, o, y3, {}, age, next)
    <3>1. \A q \in L \ {} : q # kid => q \notin X
      BY <1>1, <2>1, StaleFacts
    <3>2. \A q \in L \ {} : \/ q \notin X /\ y3[q] = y[q]
                            \/ par[q] \in Procs /\ c[par[q]] = q /\ y3[q] = NULL
      BY <2>2, <2>3, <2>9, <3>1
    <3> QED BY <2>2, <2>9, <3>2, OtherYptr
  \* kid leaves the list,
  <2>11. PICK c4, o4, y4 :
           /\ c4 = [q \in Procs |-> IF q = p THEN o[kid] ELSE c[q]]
           /\ o4 = [q \in Procs |-> IF q = kid THEN NULL ELSE o[q]]
           /\ y4 = [q \in Procs |-> IF q = kid \/ q = o[kid] THEN NULL ELSE y[q]]
    OBVIOUS
  <2>12. /\ c4 \in Pointers /\ o4 \in Pointers /\ y4 \in Pointers
         /\ \A q \in Procs : c4[q] = IF q = p THEN o[kid] ELSE c[q]
         /\ \A q \in Procs : o4[q] = IF q = kid THEN NULL ELSE o[q]
         /\ \A q \in Procs : y4[q] = IF q = kid \/ q = o[kid] THEN NULL ELSE y[q]
    BY <2>2, <2>11 DEF Pointers
  <2>13. IsFamily(L \ {kid}, par2, c4, o4, y4, {}, age, next)
    <3>1. kid \in L \ {} /\ par[kid] \in Procs /\ y3[kid] = NULL
      BY <2>2, <2>9
    <3>2. \A q \in Procs : q # kid => par2[q] = par[q]
      BY <2>6
    <3>3. /\ \A q \in Procs : c4[q] = IF q = par[kid] /\ y3[kid] = NULL THEN o[kid] ELSE c[q]
          /\ \A q \in Procs : o4[q] = IF q = kid THEN NULL ELSE IF q = y3[kid] THEN o[kid] ELSE o[q]
      BY <2>2, <2>12, <3>1
    <3>4. \A q \in Procs : q # kid => y4[q] = IF q = o[kid] THEN y3[kid] ELSE y3[q]
      BY <2>9, <2>12, <3>1
    <3>5. par2 \in Pointers /\ c4 \in Pointers /\ o4 \in Pointers /\ y4 \in Pointers
      BY <2>2, <2>12
    <3> QED BY <2>10, <3>1, <3>2, <3>3, <3>4, <3>5, Unhook
  \* the next one keeps its yptr, which names kid,
  <2>14. PICK X3 : X3 = {q \in Procs : q = o[kid]}
    OBVIOUS
  <2>15. IsFamily(L \ {kid}, par2, c4, o4, y3, X3, age, next)
    <3>1. PICK M : M = L \ {kid}
      OBVIOUS
    <3>2. \A q \in M \ X3 : q \notin {} /\ y3[q] = y4[q]
      BY <2>3, <2>9, <2>12, <2>14, <3>1
    <3>3. IsFamily(M, par2, c4, o4, y4, {}, age, next)
      BY <2>13, <3>1
    <3>4. IsFamily(M, par2, c4, o4, y3, X3, age, next)
      BY <2>9, <3>2, <3>3, OtherYptr
    <3> QED BY <3>1, <3>4
  \* and kid becomes initproc's youngest child.
  <2>16. PICK a : a = [q \in Procs |-> IF q = kid THEN next ELSE age[q]]
    OBVIOUS
  <2>17. IsFamily(L, par2, c2, o2, y2, X3, a, next + 1)
    <3>1. PICK M : M = L \ {kid}
      OBVIOUS
    <3>2. IsFamily(M, par2, c4, o4, y3, X3, age, next) /\ Init_ \in Procs /\ kid \in Procs \ M
      BY <2>2, <2>15, <3>1
    <3>3. c4[Init_] = c[Init_] /\ c4[Init_] \notin X3
      BY <2>2, <2>5, <2>12, <2>14
    <3>4. a \in [Procs -> Nat] /\ \A q \in Procs : a[q] = IF q = kid THEN next ELSE age[q]
      BY <2>3, <2>16
    <3>5. /\ \A q \in Procs : par2[q] = IF q = kid THEN Init_ ELSE par2[q]
          /\ \A q \in Procs : c2[q] = IF q = Init_ THEN kid ELSE c4[q]
      BY <2>6, <2>12
    <3>6. /\ \A q \in Procs : o2[q] = IF q = kid THEN c4[Init_] ELSE o4[q]
          /\ \A q \in Procs : y2[q] = IF q = kid THEN NULL ELSE IF q = c4[Init_] THEN kid ELSE y3[q]
      BY <2>6, <2>7, <2>9, <2>12, <3>3
    <3>7. IsFamily(M \cup {kid}, par2, c2, o2, y2, X3, a, next + 1)
      BY <2>2, <3>2, <3>3, <3>4, <3>5, <3>6, AddHead
    <3>8. M \cup {kid} = L
      BY <2>2, <3>1
    <3> QED BY <3>7, <3>8
  <2>18. \A q \in L \ X2 : q \notin X3
    <3>1. SUFFICES ASSUME NEW q \in L, q = o[kid] PROVE q \in Stale'
      BY <2>1, <2>14
    <3>2. q \in Procs /\ q # NULL /\ par[q] = p /\ q # kid
      BY <2>3, <2>4, <3>1
    <3>3. par2[q] = p /\ c2[p] = q
      BY <2>2, <2>6, <3>1, <3>2
    <3>4. q # Idle /\ parent'[q] = current /\ cptr'[current] = q
      BY <1>0, <2>1, <3>2, <3>3
    <3> QED BY <1>2, <3>2, <3>4 DEF Stale
  <2>19. IsFamily(L, par2, c2, o2, y2, X2, a, next + 1)
    BY <2>17, <2>18, MoreStale
  <2> QED BY <1>8, <2>1, <2>19
<1>10. \A q \in Procs : parent'[q] = IF q = kid THEN Init_ ELSE parent[q]
  BY <1>0, <1>2 DEF Pointers
<1>11. \E birth, n : BirthInv(birth, n)'
  <2>1. PICK birth, n : BirthInv(birth, n)
    BY <1>0 DEF TreeInv
  <2>2. BirthInv(birth, n)'
    BY <1>7, <1>10, <2>1 DEF BirthInv
  <2> QED BY <2>2
<1>12. panic' # "init_main assert" /\ \A q \in Procs : wait_state'[q] = "CHILD" => wait_state[q] = "CHILD"
  BY <1>0, <1>3 DEF WakeupProc, Assert_
<1>13. PlaceInv'
  <2>1. parent'[Idle] = NULL /\ parent'[Init_] = Idle /\ Linked(Init_)' /\ waitfor'[Init_] = Idle
    BY <1>0, <1>2, <1>6, <1>7, <1>10
  <2>2. ASSUME NEW p \in Procs \ {Idle}, Linked(p)'
        PROVE  pc'[parent'[p]] \notin {"none", "dead", "exit_sched"}
    BY <1>0, <1>2, <1>7, <1>10, <2>2 DEF PlaceInv, InitPcs
  <2>3. \A p \in Procs : pc'[p] # "init_done"
    BY <1>2, NoneElseDone
  <2> QED BY <1>0, <1>2, <1>12, <2>1, <2>2, <2>3 DEF PlaceInv
<1>14. CountInv'
  <2>1. {p \in Procs : Linked(p)}' = {p \in Procs : Linked(p)}
    BY <1>7
  <2> QED BY <1>0, <1>2, <2>1 DEF TreeInv, CountInv
<1>15. NoLostChildExit'
  <2>1. SUFFICES ASSUME NEW p \in Procs, NEW z \in Procs, wait_state'[p] = "CHILD",
                        state'[z] = "ZOMBIE", parent'[z] = p, waitfor'[p] \in {Idle, z}
                 PROVE  pc'[z] = "exit_parent"
    BY DEF NoLostChildExit
  <2>2. state[z] = "ZOMBIE" /\ wait_state[p] = "CHILD"
    BY <1>2, <1>12, <2>1 DEF IInv, PcInv
  <2>3. CASE z = kid
    <3>1. p = Init_ /\ state[Init_] = "SLEEPING"
      BY <1>10, <2>1, <2>2, <2>3 DEF IInv, PcInv
    <3>2. wait_state'[Init_] = "NONE"
      BY <1>0, <1>3, <2>2, <2>3, <3>1 DEF WakeupProc
    <3> QED BY <2>1, <3>1, <3>2
  <2>4. CASE z # kid
    BY <1>0, <1>2, <1>10, <2>1, <2>2, <2>4 DEF NoLostChildExit
  <2> QED BY <2>3, <2>4
<1> QED BY <1>9, <1>11, <1>13, <1>14, <1>15 DEF FamilyInv, TreeInv

-----------------------------------------------------------------------------
\* proc_init makes initproc the only child of idle.
LEMMA InitFamily ==
    Init => FamilyInv
<1> USE SchedAssumption, ProcAssumption
<1>1. SUFFICES ASSUME Init PROVE FamilyInv
  OBVIOUS
<1>2. /\ Live = {Idle, Init_} /\ {p \in Procs : Linked(p)} = {Idle} \cup {Init_}
      /\ \A p \in Procs : Linked(p) <=> p \in {Idle, Init_}
  BY <1>1 DEF Init, Live, Linked
<1>3. /\ parent = [p \in Procs |-> IF p = Init_ THEN Idle ELSE NULL]
      /\ cptr = [p \in Procs |-> IF p = Idle THEN Init_ ELSE NULL]
      /\ yptr = [p \in Procs |-> NULL] /\ optr = [p \in Procs |-> NULL]
      /\ nr_process = 2 /\ waitfor = [p \in Procs |-> Idle] /\ wait_state = [p \in Procs |-> "NONE"]
      /\ panic = "none"
  BY <1>1 DEF Init
<1>4. \E age, next : IsFamily(Live, parent, cptr, optr, yptr, Stale, age, next)
  <2> DEFINE age == [p \in Procs |-> IF p = Init_ THEN 1 ELSE 0]
  <2>1. AgeInv(Live, age, 2)
    BY <1>2 DEF AgeInv
  <2>2. HeadInv(Live, parent, cptr, age)
    BY <1>2, <1>3 DEF HeadInv, ChildIn
  <2>3. \A q, r \in Procs : Siblings(Live, parent, r, q) => r = q
    BY <1>2, <1>3 DEF Siblings
  <2>4. OlderInv(Live, parent, optr, age) /\ YoungerInv(Live, parent, yptr, Stale, age)
    <3>1. \A q, r \in Procs : Siblings(Live, parent, r, q) => age[q] <= age[r] /\ age[r] <= age[q]
      BY <2>3
    <3>2. \A q \in Procs : optr[q] = NULL /\ yptr[q] = NULL
      BY <1>3
    <3>3. Live \subseteq Procs
      BY <1>2
    <3> HIDE DEF age
    <3>4. OlderInv(Live, parent, optr, age)
      BY <3>1, <3>2 DEF OlderInv
    <3>5. YoungerInv(Live, parent, yptr, Stale, age)
      BY <3>1, <3>2, <3>3 DEF YoungerInv
    <3> QED BY <3>4, <3>5
  <2>5. Live \subseteq Procs /\ parent \in Pointers /\ cptr \in Pointers /\ optr \in Pointers /\ yptr \in Pointers
    BY <1>2, <1>3 DEF Pointers
  <2> HIDE DEF age
  <2>6. IsFamily(Live, parent, cptr, optr, yptr, Stale, age, 2)
    BY <2>1, <2>2, <2>4, <2>5 DEF IsFamily
  <2> QED BY <2>6
<1>5. \E birth, next : BirthInv(birth, next)
  <2> DEFINE birth == [p \in Procs |-> 0]
  <2>1. BirthInv(birth, 1)
    BY <1>2 DEF BirthInv
  <2> QED BY <2>1
<1>6. PlaceInv
  <2>1. \A p \in Procs : pc[p] = IF p = Idle THEN "idle" ELSE IF p = Init_ THEN "init_fork" ELSE "none"
    BY <1>1 DEF Init
  <2> QED BY <1>2, <1>3, <2>1 DEF PlaceInv, InitPcs
<1>7. CountInv
  <2>1. /\ IsFiniteSet({Idle}) /\ Cardinality({Idle}) = 1 /\ Init_ \notin {Idle}
    BY FS_Singleton
  <2>2. IsFiniteSet({Idle} \cup {Init_}) /\ Cardinality({Idle} \cup {Init_}) = 1 + 1
    BY <2>1, FS_AddElement
  <2> QED BY <1>2, <1>3, <2>2 DEF CountInv
<1>8. NoLostChildExit
  BY <1>3 DEF NoLostChildExit
<1> QED BY <1>4, <1>5, <1>6, <1>7, <1>8 DEF FamilyInv, TreeInv

\* Every step keeps the families.
LEMMA NextFamily ==
    IInv /\ IInv' /\ FamilyInv /\ [Next]_vars => FamilyInv'
<1>1. SUFFICES ASSUME IInv, IInv', FamilyInv, [Next]_vars PROVE FamilyInv'
  OBVIOUS
<1>2. CASE UNCHANGED vars
  BY <1>1, <1>2, PlainTicks
<1>3. CASE Next
  <2>1. CASE Fork \/ InitFork \/ InitSync
    BY <1>1, <2>1, ForkKeepsFamily
  <2>2. CASE WaitFound
    BY <1>1, <2>2, WaitFoundKeepsFamily
  <2>3. CASE ExitKid
    BY <1>1, <2>3, ExitKidKeepsFamily
  <2>4. CASE Exit \/ ExitParent \/ ExitKidsDone
    BY <1>1, <2>4, ExitStepsKeep
  <2>5. CASE WaitSleep
    BY <1>1, <2>5, WaitSleepKeeps
  <2>6. CASE InitDone
    BY <1>1, <2>6, InitDoneKeepsFamily
  <2>7. CASE ForkWakeup \/ (\E t \in Times : Sleep(t)) \/ (\E p \in Killable : Kill(p))
    BY <1>1, <2>7, PlainWakes
  <2>8. CASE \/ SleepSched \/ WaitSched \/ ReadSched \/ ExitSched \/ CpuIdle \/ InitResched
             \/ TrapRetSchedule
    BY <1>1, <2>8, PlainSchedules
  <2>9. CASE Tick \/ TickTimer \/ TickEnd \/ Input \/ InputWakeup \/ InputEnd \/ Halted
    BY <1>1, <2>9, PlainTicks DEF Halted
  <2>10. CASE \/ SyscallNoEffect \/ Yield \/ UserExit \/ TrapRetKilled \/ TrapRetUser \/ SleepAdd \/ SleepWake
              \/ ReadReturn \/ ReadSleep \/ ReadAgain \/ WaitNoKid \/ WaitWake \/ InitWait \/ \E p \in Procs : Wait(p)
    BY <1>1, <2>10, PlainCalls
  <2> QED BY <1>3, StateChanges, <2>1, <2>2, <2>3, <2>4, <2>5, <2>6, <2>7, <2>8, <2>9, <2>10 DEF StateKept
<1> QED BY <1>1, <1>2, <1>3

\* FamilyInv is an invariant of every execution.
THEOREM FamilyInductive == Spec => []FamilyInv
<1>1. Init => FamilyInv
  BY InitFamily
<1>2. IInv /\ IInv' /\ FamilyInv /\ [Next]_vars => FamilyInv'
  BY NextFamily
<1> QED BY Inductive, <1>1, <1>2, PTL DEF Spec

\* The lists of children are exact, nr_process counts the live processes,
\* nobody's parent is gone, and the assertions at the end of init_main hold,
\* however many processes fork, exit and are reaped in whatever order.
THEOREM FamiliesAreExact == Spec => []FamilyExact
<1>1. IInv /\ FamilyInv => FamilyExact
  <2> USE ProcAssumption
  <2>1. SUFFICES ASSUME IInv, FamilyInv PROVE FamilyExact
    OBVIOUS
  <2>2. PICK age, next : IsFamily(Live, parent, cptr, optr, yptr, Stale, age, next)
    BY <2>1 DEF FamilyInv, TreeInv
  <2>3. PICK X : X = Stale
    OBVIOUS
  <2>4. ASSUME NEW p \in Procs
        PROVE  Offspring(p) = {q \in Procs : Linked(q) /\ parent[q] = p}
    <3>1. Offspring(p) = {q \in Procs : ChildIn(Live, parent, q, p)}
      BY <2>2, <2>3, OffspringFacts
    <3> QED BY <3>1 DEF ChildIn, Live
  <2>5. panic # "init_main assert" /\ nr_process = Cardinality({p \in Procs : Linked(p)})
    BY <2>1 DEF FamilyInv, TreeInv, PlaceInv, CountInv
  <2>6. ASSUME NEW p \in Procs \ {Idle}, Linked(p)
        PROVE  parent[p] # NULL /\ pc[parent[p]] \notin {"none", "dead", "exit_sched"}
    BY <2>1, <2>6 DEF FamilyInv, TreeInv, PlaceInv, IInv, LinkInv, Linked
  <2> QED BY <2>4, <2>5, <2>6 DEF FamilyExact
<1> QED BY Inductive, FamilyInductive, <1>1, PTL

\* do_wait misses no exit: not one between its scan and its sleep, not one of a
\* child that do_exit hands to initproc as a zombie.
THEOREM NoChildExitLost == Spec => []NoLostChildExit
<1>1. FamilyInv => NoLostChildExit
  BY DEF FamilyInv
<1> QED BY FamilyInductive, <1>1, PTL
=============================================================================
