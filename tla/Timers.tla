-------------------------------- MODULE Timers -------------------------------
(***************************************************************************)
(* The timer list of kern/schedule/sched.c, on top of the scheduler core.   *)
(*                                                                          *)
(* The list is delta-encoded: a timer stores the ticks between its expiry   *)
(* and the expiry of the timer before it, so a tick decrements the head     *)
(* only.  add_timer walks the list subtracting as it goes; del_timer gives  *)
(* the ticks of a timer removed from the middle back to its successor.      *)
(* Each iteration of the two loops is one step.                             *)
(*                                                                          *)
(* A timer lives on the stack of the process that sleeps in do_sleep, so a  *)
(* process has at most one and the timer is named by its process.  "left"   *)
(* is a history variable that no action reads: the ticks until a process's  *)
(* timer must expire, counted one by one.                                   *)
(***************************************************************************)
EXTENDS Sched

VARIABLES
    timer_list,   \* sequence of [proc, expires]
    walk,         \* add_timer's cursor and the ticks it has left to place
    left          \* history: ticks until the timer of a process is due

timerVars == <<timer_list, walk, left>>

Timer(p, expires) == [proc |-> p, expires |-> expires]
HasTimer(p) == \E i \in 1..Len(timer_list) : timer_list[i].proc = p

\* do_sleep's timer_init and the entry of add_timer, whose loop starts at the head.
AddTimerBegin(p, time) ==
    /\ walk' = [le |-> 1, expires |-> time]
    /\ left' = [left EXCEPT ![p] = time]
    /\ Assert_(time > 0 /\ ~HasTimer(p))
    /\ UNCHANGED timer_list

\* The loop of add_timer ends at the timer that expires later, or at the end.
AddTimerStops ==
    walk.le <= Len(timer_list) => walk.expires < timer_list[walk.le].expires

\* Passing a timer: what remains is relative to it.
AddTimerPass ==
    /\ ~AddTimerStops
    /\ walk' = [le |-> walk.le + 1,
                expires |-> walk.expires - timer_list[walk.le].expires]
    /\ UNCHANGED <<timer_list, left, panic>>

\* Fault: the timer after the new one keeps its ticks.
AddTimerLinkNextKept(p) ==
    /\ AddTimerStops
    /\ timer_list' = InsertAt(timer_list, walk.le, Timer(p, walk.expires))
    /\ walk' = [le |-> 1, expires |-> 0]
    /\ UNCHANGED <<left, panic>>

\* Linking the timer in before "le", whose expiry becomes relative to it.
AddTimerLink(p) ==
    /\ AddTimerStops
    /\ timer_list' =
         InsertAt([i \in 1..Len(timer_list) |->
                     IF i = walk.le
                     THEN [timer_list[i] EXCEPT !.expires = @ - walk.expires]
                     ELSE timer_list[i]],
                  walk.le, Timer(p, walk.expires))
    /\ walk' = [le |-> 1, expires |-> 0]
    /\ UNCHANGED <<left, panic>>

\* Fault: the ticks of a deleted timer are lost.
UnlinkedTicksLost(i) == RemoveAt(timer_list, i)

\* The timer list without the timer at i, whose ticks go to the next one.
Unlinked(i) ==
    RemoveAt([j \in 1..Len(timer_list) |->
                IF j = i + 1
                THEN [timer_list[j] EXCEPT !.expires = @ + timer_list[i].expires]
                ELSE timer_list[j]], i)

\* Fault: the timer of a process woken by kill stays linked.
DelTimerKept(p) ==
    /\ left' = [left EXCEPT ![p] = 0]
    /\ UNCHANGED <<timer_list, walk>>

\* del_timer, which may find the timer already unlinked by run_timer_list.
DelTimer(p) ==
    /\ timer_list' = IF HasTimer(p)
                     THEN Unlinked(CHOOSE i \in 1..Len(timer_list) : timer_list[i].proc = p)
                     ELSE timer_list
    /\ left' = [left EXCEPT ![p] = 0]
    /\ UNCHANGED walk

\* run_timer_list up to its loop.
RunTimerBegin ==
    /\ IF timer_list = <<>>
       THEN UNCHANGED <<timer_list, panic>>
       ELSE /\ Assert_(timer_list[1].expires # 0)
            /\ timer_list' = [timer_list EXCEPT ![1].expires = @ - 1]
    /\ left' = [p \in Procs |-> IF HasTimer(p) THEN left[p] - 1 ELSE left[p]]
    /\ UNCHANGED walk

\* The loop: the timer at the head has expired.
RunTimerExpired == timer_list # <<>> /\ timer_list[1].expires = 0

\* Fault: the timer is unlinked, its process sleeps on.
RunTimerStepNoWakeup ==
    /\ RunTimerExpired
    /\ timer_list' = Unlinked(1)
    /\ UNCHANGED <<state, wait_state, run_list, time_slice, panic, walk, left>>

\* One iteration: wake the process (its wait must be interruptible) and unlink.
RunTimerStep ==
    LET p == timer_list[1].proc
    IN  /\ RunTimerExpired
        /\ IF wait_state[p] \in Interruptible \cup {"NONE"}
           THEN WakeupProc(p)
           ELSE Assert_(FALSE) /\ UNCHANGED <<state, wait_state, run_list, time_slice>>
        /\ timer_list' = Unlinked(1)
        /\ UNCHANGED <<walk, left>>

-----------------------------------------------------------------------------
TimersTypeOK ==
    /\ timer_list \in Seq([proc : Procs, expires : Nat])
    /\ walk \in [le : Nat \ {0}, expires : Nat]
    /\ left \in [Procs -> Int]

\* The delta encoding is exact: every timer's ticks are what its process still
\* has to sleep less what the process before it has, whatever was added to,
\* expired from or deleted from the list in the meantime.
TimerListExact ==
    \A i \in 1..Len(timer_list) :
        timer_list[i].expires =
            left[timer_list[i].proc]
            - (IF i = 1 THEN 0 ELSE left[timer_list[i - 1].proc])
=============================================================================
