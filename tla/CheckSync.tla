------------------------------ MODULE CheckSync ------------------------------
(***************************************************************************)
(* check_sync of kern/sync/check_sync.c starts N philosophers that take     *)
(* their forks with semaphores and N that use a monitor.  The two groups    *)
(* share nothing but the processor: each is to the other a thread that      *)
(* delays it, as the timers already do.  So one group is modelled at a      *)
(* time, and "solution" says which.                                         *)
(***************************************************************************)
EXTENDS PhilSema, PhilCondvar, FiniteSets

ASSUME CheckSyncAssumption == Conds = Phils

VARIABLE solution

vars == <<schedVars, semVars, philVars, monVars, back, solution>>

Init ==
    /\ PhilInit /\ MonitorInit
    /\ back = [i \in Phils |-> "none"]
    /\ solution \in {"sema", "condvar"}

Forks ==
    \/ solution = "sema" /\ SemaStep /\ UNCHANGED <<monVars, back>>
    \/ solution = "condvar" /\ CondvarStep

ThreadStep ==
    /\ Forks \/ ((PhilStep \/ CpuIdle) /\ UNCHANGED <<monVars, back>>)
    /\ UNCHANGED solution

Interrupt(A) == A /\ UNCHANGED <<monVars, back, solution>>

Next == ThreadStep \/ Interrupt(Tick) \/ \E p \in Phils : Interrupt(TimerExpires(p))

Spec == Init /\ [][Next]_vars

\* Kernel code runs on between two interrupts, the clock ticks, and every timer
\* expires.
FairSpec ==
    /\ Spec
    /\ WF_vars(ThreadStep) /\ WF_vars(Interrupt(Tick))
    /\ \A p \in Phils : WF_vars(Interrupt(TimerExpires(p)))

-----------------------------------------------------------------------------
\* With semaphores: the permit of s[i] is there exactly between the moment
\* somebody sets i's entry to EATING and the moment i's down() takes it.  No
\* permit is left over to let i eat without its forks next time, and none is
\* missing.
ForksExact == solution = "sema" =>
    \A i \in Phils :
        /\ value[i] \in {0, 1}
        /\ (value[i] = 1 \/ Granted(i, i)) <=>
              phil[i] = "EATING" /\ (pc[i] \in {"take_up", "take_down"} \/ (pc[i] = "eat" /\ InDown(i)))
        /\ ~(value[i] = 1 /\ Granted(i, i))

\* i may go on in the monitor: it runs there, or the up() that lets it go on has
\* been made for it.
Active(i) ==
    /\ pc[i] \in CondvarLabels \ {"wait", "signal"}
    /\ ~InDown(i) \/ wait[i].flags = "KSEM"

\* "Only one process at a time may be active in a monitor" (monitor.h), through
\* every hand-over between those that enter, wait, signal and leave; when nobody
\* is, the mutex is free: the monitor is never shut with nobody in it.  The
\* counters on which cond_signal and the exits of the monitor branch are exact at
\* every step, although a process changes them on both sides of a down() that
\* blocks; and no permit is left lying on next or on a condition variable: every
\* signal is consumed by the process it was meant for.  A philosopher woken in
\* cond_wait finds its entry EATING, although it does not look: from the signal to
\* its next step nobody changes the table.
MonitorExact == solution = "condvar" =>
    /\ \A i, j \in Phils : Active(i) /\ Active(j) => i = j
    /\ (\A i \in Phils : ~Active(i) /\ pc[i] # "signal") => value[Mutex] = 1
    /\ next_count = Cardinality({i \in Phils : pc[i] \in {"signal", "signal_end"}})
    /\ \A i \in Phils : count[i] = IF pc[i] \in {"wait", "wait_end"} THEN 1 ELSE 0
    /\ \A s \in Sems \ {Mutex} : value[s] = 0
    /\ \A i \in Phils : pc[i] = "wait_end" /\ ~WaitsFor(i, i) => phil[i] = "EATING"

=============================================================================
