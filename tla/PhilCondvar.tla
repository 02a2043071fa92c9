----------------------------- MODULE PhilCondvar -----------------------------
(***************************************************************************)
(* The dining philosophers with a monitor: philosopher_using_condvar of     *)
(* kern/sync/check_sync.c.  Philosopher i waits for its forks on the        *)
(* condition variable cv[i], here the semaphore i.  CheckSync adds Init and *)
(* Next.                                                                    *)
(***************************************************************************)
EXTENDS Philosopher, Monitor

VARIABLE back    \* where phi_test_condvar, in cond_signal, returns to

CondvarLabels == {"hungry", "check", "wait", "wait_end", "take_leave", "thinking",
           "test_right", "put_leave", "signal", "signal_end"}

-----------------------------------------------------------------------------
\* phi_test_condvar(i), with the table as the caller has just left it, up to the
\* down() in cond_signal if somebody is to be signalled, else to l.
PhiTestCondvar(i, table, l) ==
    IF table[i] = "HUNGRY" /\ table[LEFT(i)] # "EATING" /\ table[RIGHT(i)] # "EATING"
    THEN /\ phil' = [table EXCEPT ![i] = "EATING"]
         /\ \/ /\ CondSignalUp(i)
               /\ Goto("signal") /\ back' = [back EXCEPT ![current] = l]
            \/ /\ CondSignalLost(i)
               /\ Goto(l)
               /\ UNCHANGED <<state, wait_state, time_slice, run_list, panic, back>>
    ELSE /\ phil' = table
         /\ Goto(l)
         /\ UNCHANGED <<state, wait_state, time_slice, run_list, panic, semVars, monVars, back>>

SignalDown ==
    /\ At("signal")
    /\ CondSignalDown
    /\ Goto("signal_end")
    /\ UNCHANGED <<time_slice, need_resched, run_list, current, panic, phil, iter, back>>

SignalEnd ==
    /\ At("signal_end")
    /\ CondSignalEnd
    /\ Goto(back[current]) /\ back' = [back EXCEPT ![current] = "none"]
    /\ UNCHANGED <<schedVars, phil, iter>>

\* phi_take_forks_condvar and phi_put_forks_condvar begin with down(mutex).
Enter ==
    /\ At("take") \/ At("put")
    /\ Down(Mutex)
    /\ Goto(IF pc[current] = "take" THEN "hungry" ELSE "thinking")
    /\ UNCHANGED <<time_slice, need_resched, run_list, current, panic, phil, iter, monVars, back>>

Hungry ==
    /\ At("hungry")
    /\ PhiTestCondvar(current, [phil EXCEPT ![current] = "HUNGRY"], "check")
    /\ UNCHANGED <<need_resched, current, iter>>

\* if (state_condvar[i] != EATING) cond_wait(cv[i]), which does not look again.
Wait ==
    /\ At("check")
    /\ phil[current] # "EATING"
    /\ CondWaitUp(current)
    /\ Goto("wait")
    /\ UNCHANGED <<need_resched, current, phil, iter, back>>

WaitDown ==
    /\ At("wait")
    /\ CondWaitDown(current)
    /\ Goto("wait_end")
    /\ UNCHANGED <<time_slice, need_resched, run_list, current, panic, phil, iter, back>>

WaitEnd ==
    /\ At("wait_end")
    /\ CondWaitEnd(current)
    /\ Goto("take_leave")
    /\ UNCHANGED <<schedVars, phil, iter, back>>

Thinking ==
    /\ At("thinking")
    /\ PhiTestCondvar(LEFT(current), [phil EXCEPT ![current] = "THINKING"], "test_right")
    /\ UNCHANGED <<need_resched, current, iter>>

TestRight ==
    /\ At("test_right")
    /\ PhiTestCondvar(RIGHT(current), phil, "put_leave")
    /\ UNCHANGED <<need_resched, current, iter>>

Leave ==
    /\ \/ At("check") /\ phil[current] = "EATING" /\ Goto("eat")
       \/ At("take_leave") /\ Goto("eat")
       \/ At("put_leave") /\ Goto("loop")
    /\ LetInNext
    /\ UNCHANGED <<need_resched, current, phil, iter, monVars, back>>

\* A step inside phi_take_forks_condvar or phi_put_forks_condvar.
CondvarStep ==
    \/ Enter \/ Hungry \/ Wait \/ WaitDown \/ WaitEnd \/ SignalDown \/ SignalEnd
    \/ Thinking \/ TestRight \/ Leave
=============================================================================
