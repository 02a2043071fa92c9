------------------------------ MODULE PhilSema -------------------------------
(***************************************************************************)
(* The dining philosophers with semaphores: philosopher_using_semaphore of  *)
(* kern/sync/check_sync.c.  "mutex" guards the table of states, s[i] is a   *)
(* private semaphore on which philosopher i waits for its forks; here the   *)
(* semaphore i.  CheckSync adds Init and Next.                              *)
(***************************************************************************)
EXTENDS Philosopher, Monitor    \* of Monitor, only the name Mutex

-----------------------------------------------------------------------------
\* Fault: the neighbour on the right is forgotten.
PhiTestSemaLeftOnly(i, table) ==
    IF table[i] = "HUNGRY" /\ table[LEFT(i)] # "EATING"
    THEN phil' = [table EXCEPT ![i] = "EATING"] /\ Up(i)
    ELSE phil' = table /\ UNCHANGED <<state, wait_state, time_slice, run_list, panic, semVars>>

\* phi_test_sema(i), with the table as the caller has just left it.
PhiTestSema(i, table) ==
    IF table[i] = "HUNGRY" /\ table[LEFT(i)] # "EATING" /\ table[RIGHT(i)] # "EATING"
    THEN phil' = [table EXCEPT ![i] = "EATING"] /\ Up(i)
    ELSE phil' = table /\ UNCHANGED <<state, wait_state, time_slice, run_list, panic, semVars>>

\* phi_take_forks_sema: down(mutex), hungry, test, up(mutex), down(s[i]).
SemaTake ==
    /\ At("take") \/ At("put")
    /\ Down(Mutex)
    /\ Goto(IF pc[current] = "take" THEN "hungry" ELSE "thinking")
    /\ UNCHANGED <<time_slice, need_resched, run_list, current, panic, phil, iter>>

SemaHungry ==
    /\ At("hungry")
    /\ PhiTestSema(current, [phil EXCEPT ![current] = "HUNGRY"])
    /\ Goto("take_up")
    /\ UNCHANGED <<need_resched, current, iter>>

\* up(mutex), at the end of taking and of putting.
SemaLeave ==
    /\ \/ At("take_up") /\ Goto("take_down")
       \/ At("put_up") /\ Goto("loop")
    /\ Up(Mutex)
    /\ UNCHANGED <<need_resched, current, phil, iter>>

\* Fault: a philosopher that got its forks at once does not take the permit.
SemaAwaitIfHungry ==
    /\ At("take_down")
    /\ IF phil[current] = "EATING" THEN UNCHANGED <<state, wait_state, semVars>> ELSE Down(current)
    /\ Goto("eat")
    /\ UNCHANGED <<time_slice, need_resched, run_list, current, panic, phil, iter>>

SemaAwait ==
    /\ At("take_down")
    /\ Down(current)
    /\ Goto("eat")
    /\ UNCHANGED <<time_slice, need_resched, run_list, current, panic, phil, iter>>

\* Fault: the left neighbour is not looked at.
SemaThinkingRightOnly ==
    /\ At("thinking")
    /\ phil' = [phil EXCEPT ![current] = "THINKING"]
    /\ Goto("test_right")
    /\ UNCHANGED <<schedVars, semVars, iter>>

\* phi_put_forks_sema: down(mutex) as above, then both neighbours.
SemaThinking ==
    /\ At("thinking")
    /\ PhiTestSema(LEFT(current), [phil EXCEPT ![current] = "THINKING"])
    /\ Goto("test_right")
    /\ UNCHANGED <<need_resched, current, iter>>

SemaTestRight ==
    /\ At("test_right")
    /\ PhiTestSema(RIGHT(current), phil)
    /\ Goto("put_up")
    /\ UNCHANGED <<need_resched, current, iter>>

\* A step inside phi_take_forks_sema or phi_put_forks_sema.
SemaStep ==
    \/ SemaTake \/ SemaHungry \/ SemaLeave \/ SemaAwait \/ SemaThinking \/ SemaTestRight
=============================================================================
