------------------------------ MODULE SyncProofs ------------------------------
(***************************************************************************)
(* What up() and down() keep, whoever calls them; the semaphores under any  *)
(* clients: they keep their wait queues exact, and implement the counting   *)
(* semaphore of WeakSemaphore; and the philosophers of check_sync, for      *)
(* every number of them: neighbours never eat together, with semaphores     *)
(* and with the monitor.                                                    *)
(***************************************************************************)
EXTENDS CheckSync, SemClients, SchedProofs

\* down() at its points: the caller is idle or has not begun (NoWait); before
\* schedule() it is the current process; up() has made runnable whom it picked;
\* and a process back from schedule() has been picked.
WaitExact ==
    /\ ~InDown(Idle)
    /\ \A p \in Procs :
          /\ InDown(p) => wait[p].sem \in Sems
          /\ ~InDown(p) => wait[p] = NoWait
          /\ wait[p].at = "sched" => p = current
          /\ InDown(p) /\ wait[p].flags = "KSEM" => state[p] = "RUNNABLE"
    /\ wait[current].at = "wake" => state[current] = "RUNNABLE"

\* What the semaphores and the scheduler keep between them.
SemInv ==
    /\ SchedTypeOK /\ SemTypeOK
    /\ state[Idle] = "RUNNABLE"
    /\ RunQueueExact /\ WaitQueueExact /\ WaitExact

\* One semaphore's part of WaitQueueExact.
QueueExact(s) ==
    /\ Distinct(wait_queue[s])
    /\ \A p \in Procs : p \in Range(wait_queue[s]) <=> WaitsFor(p, s)
    /\ \A p \in Procs : WaitsFor(p, s) => state[p] = "SLEEPING" /\ wait_state[p] = "KSEM"
    /\ value[s] > 0 => wait_queue[s] = <<>>

LEMMA QueueExactAll ==
    WaitQueueExact <=> NoAssertFails /\ \A s \in Sems : QueueExact(s)
BY DEF WaitQueueExact, QueueExact, Distinct

LEMMA QueueExactAllPrime ==
    WaitQueueExact' <=> NoAssertFails' /\ \A s \in Sems : QueueExact(s)'
BY DEF WaitQueueExact, QueueExact, Distinct

\* The entry of down(): the permit is taken, or the caller joins the queue.
LEMMA DownFacts ==
    ASSUME SemInv, NEW s \in Sems, current # Idle, ~InDown(current), Down(s),
           UNCHANGED <<time_slice, need_resched, run_list, current, panic>>
    PROVE  /\ SemInv'
           /\ \/ /\ value[s] > 0 /\ value' = [value EXCEPT ![s] = @ - 1]
                 /\ UNCHANGED <<state, wait_state, wait_queue, wait>>
              \/ /\ value[s] = 0 /\ UNCHANGED value
                 /\ wait' = [wait EXCEPT ![current] =
                               [at |-> "sched", sem |-> s, flags |-> "INTERRUPTED"]]
                 /\ state' = [state EXCEPT ![current] = "SLEEPING"]
                 /\ wait_state' = [wait_state EXCEPT ![current] = "KSEM"]
<1> USE SchedAssumption, SemsAssumption
<1>0. /\ SchedTypeOK /\ SemTypeOK /\ RunQueueExact /\ WaitExact /\ NoAssertFails
      /\ \A r \in Sems : QueueExact(r)
      /\ state[Idle] = "RUNNABLE"
  BY QueueExactAll DEF SemInv
<1>1. CASE value[s] > 0
  <2>1. /\ value' = [value EXCEPT ![s] = @ - 1]
        /\ UNCHANGED <<state, wait_state, wait_queue, wait>>
    BY <1>1 DEF Down
  <2>2. SchedTypeOK' /\ RunQueueExact' /\ WaitExact' /\ NoAssertFails' /\ state'[Idle] = "RUNNABLE"
    BY <1>0, <2>1 DEF SchedTypeOK, RunQueueExact, OnRunList, WaitExact, InDown, NoAssertFails
  <2>3. SemTypeOK'
    BY <1>0, <1>1, <2>1 DEF SemTypeOK
  <2>4. ASSUME NEW r \in Sems PROVE QueueExact(r)'
    <3>1. value'[r] > 0 => value[r] > 0
      BY <1>0, <1>1, <2>1 DEF SemTypeOK
    <3> QED BY <1>0, <2>1, <3>1 DEF QueueExact, WaitsFor, InDown
  <2> QED BY <1>1, <2>1, <2>2, <2>3, <2>4, QueueExactAllPrime DEF SemInv
<1>2. CASE ~(value[s] > 0)
  <2> DEFINE w == [at |-> "sched", sem |-> s, flags |-> "INTERRUPTED"]
  <2>1. /\ state' = [state EXCEPT ![current] = "SLEEPING"]
        /\ wait_state' = [wait_state EXCEPT ![current] = "KSEM"]
        /\ wait' = [wait EXCEPT ![current] = w]
        /\ wait_queue' = [wait_queue EXCEPT ![s] = Append(@, current)]
        /\ UNCHANGED value
    BY <1>2 DEF Down
  <2>2. current \in Procs /\ value[s] = 0 /\ w \in Waits
    <3>1. current \in Procs /\ value[s] \in Nat
      BY <1>0 DEF SchedTypeOK, SemTypeOK
    <3>2. value[s] = 0
      BY <1>2, <3>1
    <3> QED BY <3>1, <3>2 DEF Waits
  <2>3. SchedTypeOK' /\ state'[Idle] = "RUNNABLE" /\ NoAssertFails'
    BY <1>0, <2>1, <2>2 DEF SchedTypeOK, States, WaitStates, NoAssertFails
  <2>4. RunQueueExact'
    BY <1>0, <2>1, <2>2 DEF RunQueueExact, OnRunList, SchedTypeOK
  <2>5. ~WaitsFor(current, s) /\ current \notin Range(wait_queue[s])
    BY <1>0, <2>2 DEF QueueExact, WaitsFor
  <2>6. wait_queue[s] \in Seq(Procs) /\ Distinct(wait_queue[s])
    BY <1>0 DEF SemTypeOK, QueueExact
  <2>7. /\ Append(wait_queue[s], current) \in Seq(Procs)
        /\ Distinct(Append(wait_queue[s], current))
        /\ Range(Append(wait_queue[s], current)) = Range(wait_queue[s]) \cup {current}
    BY <2>2, <2>5, <2>6, AppendFacts
  <2>8. SemTypeOK'
    BY <1>0, <2>1, <2>2, <2>7 DEF SemTypeOK
  <2>9. \A p \in Procs : wait'[p] = IF p = current THEN w ELSE wait[p]
    BY <1>0, <2>1 DEF SemTypeOK
  <2>10. \A p \in Procs : /\ state'[p] = IF p = current THEN "SLEEPING" ELSE state[p]
                          /\ wait_state'[p] = IF p = current THEN "KSEM" ELSE wait_state[p]
    BY <1>0, <2>1 DEF SchedTypeOK
  <2>11. WaitExact'
    BY <1>0, <2>2, <2>9, <2>10 DEF WaitExact, InDown
  <2>12. ASSUME NEW r \in Sems PROVE QueueExact(r)'
    <3>1. \A p \in Procs : WaitsFor(p, r)' <=> WaitsFor(p, r) \/ (p = current /\ r = s)
      BY <2>2, <2>9 DEF WaitsFor, InDown
    <3>2. wait_queue'[r] = IF r = s THEN Append(wait_queue[s], current) ELSE wait_queue[r]
      BY <1>0, <2>1 DEF SemTypeOK
    <3>3. Distinct(wait_queue'[r])
      BY <1>0, <2>7, <3>2 DEF QueueExact
    <3>4. \A p \in Procs : p \in Range(wait_queue'[r]) <=> WaitsFor(p, r)'
      BY <1>0, <2>7, <3>1, <3>2 DEF QueueExact
    <3>5. \A p \in Procs : WaitsFor(p, r)' => state'[p] = "SLEEPING" /\ wait_state'[p] = "KSEM"
      BY <1>0, <2>10, <3>1 DEF QueueExact
    <3>6. value'[r] > 0 => wait_queue'[r] = <<>>
      BY <1>0, <2>1, <2>2, <3>2 DEF QueueExact
    <3> QED BY <3>3, <3>4, <3>5, <3>6 DEF QueueExact, Distinct
  <2> QED BY <2>1, <2>2, <2>3, <2>4, <2>8, <2>11, <2>12, QueueExactAllPrime DEF SemInv
<1> QED BY <1>1, <1>2

\* up() with nobody in the queue leaves a permit; otherwise the first of the
\* queue leaves it, picked and runnable, and there is no permit.  No assertion
\* fails.
LEMMA UpFacts ==
    ASSUME SemInv, NEW s \in Sems, Up(s), UNCHANGED <<need_resched, current>>
    PROVE  /\ SemInv' /\ panic' = panic
           /\ \/ /\ wait_queue[s] = <<>> /\ \A p \in Procs : ~WaitsFor(p, s)
                 /\ value' = [value EXCEPT ![s] = @ + 1]
                 /\ UNCHANGED <<state, wait_state, wait>>
              \/ /\ value[s] = 0 /\ UNCHANGED value
                 /\ \E p \in Procs :
                       /\ WaitsFor(p, s)
                       /\ wait' = [wait EXCEPT ![p].flags = "KSEM"]
                       /\ state' = [state EXCEPT ![p] = "RUNNABLE"]
                       /\ \A q \in Procs : wait_state'[q] = IF q = p THEN "NONE" ELSE wait_state[q]
<1> USE SchedAssumption, SemsAssumption
<1>0. /\ SchedTypeOK /\ SemTypeOK /\ RunQueueExact /\ WaitExact /\ NoAssertFails
      /\ \A r \in Sems : QueueExact(r)
      /\ state[Idle] = "RUNNABLE"
  BY QueueExactAll DEF SemInv
<1> DEFINE queue == wait_queue[s]
           p == Head(queue)
<1>q. queue \in Seq(Procs) /\ Distinct(queue) /\ value[s] \in Nat
  BY <1>0 DEF SemTypeOK, QueueExact
<1>1. CASE queue = <<>>
  <2>1. /\ value' = [value EXCEPT ![s] = @ + 1]
        /\ UNCHANGED <<state, wait_state, time_slice, run_list, panic, wait_queue, wait>>
    BY <1>1 DEF Up
  <2>2. SchedTypeOK' /\ RunQueueExact' /\ WaitExact' /\ NoAssertFails' /\ state'[Idle] = "RUNNABLE"
    BY <1>0, <2>1 DEF SchedTypeOK, RunQueueExact, OnRunList, WaitExact, InDown, NoAssertFails
  <2>3. SemTypeOK'
    BY <1>0, <2>1 DEF SemTypeOK
  <2>4. ASSUME NEW r \in Sems PROVE QueueExact(r)'
    <3>1. value'[r] = IF r = s THEN value[s] + 1 ELSE value[r]
      BY <1>0, <2>1 DEF SemTypeOK
    <3> QED BY <1>0, <1>1, <2>1, <3>1 DEF QueueExact, WaitsFor, InDown
  <2>5. \A q \in Procs : ~WaitsFor(q, s)
    <3>1. Range(queue) = {}
      BY <1>1 DEF Range
    <3> QED BY <1>0, <3>1 DEF QueueExact
  <2> QED BY <1>1, <2>1, <2>2, <2>3, <2>4, <2>5, QueueExactAllPrime DEF SemInv
<1>2. CASE queue # <<>>
  <2>1. /\ Tail(queue) \in Seq(Procs) /\ p \in Procs /\ p \in Range(queue)
        /\ Distinct(Tail(queue)) /\ Range(Tail(queue)) = Range(queue) \ {p}
    BY <1>q, <1>2, TailFacts
  <2>2. /\ WaitsFor(p, s) /\ state[p] = "SLEEPING" /\ wait_state[p] = "KSEM"
    BY <1>0, <2>1 DEF QueueExact
  <2>3. InDown(p) /\ wait[p].sem = s /\ wait[p].flags = "INTERRUPTED"
    BY <2>2 DEF WaitsFor
  <2>4. value[s] = 0
    BY <1>0, <1>2, <1>q DEF QueueExact
  <2>5. /\ wait_queue' = [wait_queue EXCEPT ![s] = Tail(queue)]
        /\ wait' = [wait EXCEPT ![p].flags = "KSEM"]
        /\ WakeupProc(p)
        /\ UNCHANGED value
    BY <1>2, <2>2, <2>3 DEF Up
  <2> HIDE DEF queue, p
  <2>6. /\ SchedTypeOK' /\ RunQueueExact' /\ panic' = panic
        /\ state' = [state EXCEPT ![p] = "RUNNABLE"]
        /\ \A q \in Procs : wait_state'[q] = wait_state[q] \/ (q = p /\ wait_state'[q] = "NONE")
        /\ wait_state'[p] = "NONE"
    BY <1>0, <2>1, <2>2, <2>5, WakeupProcFacts
  <2>7. \A q \in Procs : wait_state'[q] = IF q = p THEN "NONE" ELSE wait_state[q]
    BY <2>6
  <2>8. \A q \in Procs : state'[q] = IF q = p THEN "RUNNABLE" ELSE state[q]
    BY <1>0, <2>6 DEF SchedTypeOK
  <2>9. /\ wait \in [Procs -> Waits] /\ wait[p] \in Waits
        /\ [wait[p] EXCEPT !.flags = "KSEM"] \in Waits
    BY <1>0, <2>1 DEF SemTypeOK, Waits
  <2>10. /\ wait' \in [Procs -> Waits]
         /\ \A q \in Procs : q # p => wait'[q] = wait[q]
         /\ wait'[p] = [wait[p] EXCEPT !.flags = "KSEM"]
    BY <2>1, <2>5, <2>9
  <2>11. wait'[p].at = wait[p].at /\ wait'[p].sem = s /\ wait'[p].flags = "KSEM"
    BY <2>3, <2>9, <2>10 DEF Waits
  <2>12. SemTypeOK'
    BY <1>0, <2>1, <2>5, <2>10 DEF SemTypeOK, queue
  <2>13. p # Idle /\ state'[Idle] = "RUNNABLE" /\ NoAssertFails'
    BY <1>0, <2>2, <2>6, <2>8 DEF NoAssertFails
  <2>14. WaitExact'
    <3>1. ASSUME NEW q \in Procs, q # p
          PROVE  /\ InDown(q)' => wait'[q].sem \in Sems
                 /\ ~InDown(q)' => wait'[q] = NoWait
                 /\ wait'[q].at = "sched" => q = current
                 /\ InDown(q)' /\ wait'[q].flags = "KSEM" => state'[q] = "RUNNABLE"
      BY <1>0, <2>8, <2>10, <3>1 DEF WaitExact, InDown
    <3>2. /\ wait'[p].at # "out"
          /\ wait'[p].at = "sched" => p = current
      BY <1>0, <2>1, <2>3, <2>11 DEF WaitExact, InDown
    <3>3. wait'[current].at = "wake" => state'[current] = "RUNNABLE"
      <4>1. current \in Procs
        BY <1>0 DEF SchedTypeOK
      <4> QED BY <1>0, <2>8, <2>10, <4>1 DEF WaitExact
    <3>4. ~InDown(Idle)'
      BY <1>0, <2>10, <2>13 DEF WaitExact, InDown
    <3>5. ASSUME NEW q \in Procs
          PROVE  /\ InDown(q)' => wait'[q].sem \in Sems
                 /\ ~InDown(q)' => wait'[q] = NoWait
                 /\ wait'[q].at = "sched" => q = current
                 /\ InDown(q)' /\ wait'[q].flags = "KSEM" => state'[q] = "RUNNABLE"
      BY <2>8, <2>11, <3>1, <3>2 DEF InDown
    <3> QED BY <3>3, <3>4, <3>5 DEF WaitExact
  <2>15. ASSUME NEW r \in Sems PROVE QueueExact(r)'
    <3>1. \A q \in Procs : WaitsFor(q, r)' <=> WaitsFor(q, r) /\ q # p
      BY <2>1, <2>10, <2>11 DEF WaitsFor, InDown
    <3>2. wait_queue'[r] = IF r = s THEN Tail(queue) ELSE wait_queue[r]
      BY <1>0, <2>5 DEF SemTypeOK
    <3>3. Distinct(wait_queue'[r])
      BY <1>0, <2>1, <3>2 DEF QueueExact
    <3>4. ASSUME NEW q \in Procs PROVE q \in Range(wait_queue'[r]) <=> WaitsFor(q, r)'
      <4>1. CASE r = s
        BY <1>0, <2>1, <3>1, <3>2, <4>1 DEF QueueExact, queue
      <4>2. CASE r # s
        <5>1. ~WaitsFor(p, r)
          BY <2>3, <4>2 DEF WaitsFor
        <5> QED BY <1>0, <3>1, <3>2, <4>2, <5>1 DEF QueueExact
      <4> QED BY <4>1, <4>2
    <3>5. \A q \in Procs : WaitsFor(q, r)' => state'[q] = "SLEEPING" /\ wait_state'[q] = "KSEM"
      BY <1>0, <2>7, <2>8, <3>1 DEF QueueExact
    <3>6. value'[r] > 0 => wait_queue'[r] = <<>>
      BY <1>0, <2>4, <2>5, <3>2 DEF QueueExact
    <3> QED BY <3>3, <3>4, <3>5, <3>6 DEF QueueExact, Distinct
  <2>16. SemInv'
    BY <2>6, <2>12, <2>13, <2>14, <2>15, QueueExactAllPrime DEF SemInv
  <2> QED BY <2>1, <2>2, <2>4, <2>5, <2>6, <2>7, <2>16
<1> QED BY <1>1, <1>2

\* The schedule() of a down() that blocked.
LEMMA DownSchedFacts ==
    ASSUME SemInv, DownSched
    PROVE  /\ SemInv' /\ panic' = panic
           /\ UNCHANGED <<state, wait_state, value>>
           /\ wait[current].at = "sched"
           /\ \A p \in Procs : /\ wait'[p].sem = wait[p].sem
                               /\ wait'[p].flags = wait[p].flags
                               /\ wait'[p].at = IF p = current THEN "wake" ELSE wait[p].at
           /\ state[current'] = "RUNNABLE"
<1> USE SchedAssumption, SemsAssumption
<1>0. /\ SchedTypeOK /\ SemTypeOK /\ RunQueueExact /\ WaitExact /\ NoAssertFails
      /\ \A r \in Sems : QueueExact(r)
      /\ state[Idle] = "RUNNABLE"
  BY QueueExactAll DEF SemInv
<1>1. /\ wait[current].at = "sched" /\ Schedule
      /\ wait' = [wait EXCEPT ![current].at = "wake"]
      /\ UNCHANGED <<value, wait_queue>>
  BY DEF DownSched
<1>2. /\ SchedTypeOK' /\ RunQueueExact' /\ panic' = panic
      /\ state' = state /\ wait_state' = wait_state
      /\ state[current'] = "RUNNABLE"
  BY <1>0, <1>1, ScheduleFacts
<1>3. /\ current \in Procs /\ wait \in [Procs -> Waits] /\ wait[current] \in Waits
      /\ [wait[current] EXCEPT !.at = "wake"] \in Waits
  BY <1>0 DEF SchedTypeOK, SemTypeOK, Waits
<1>4. /\ wait' \in [Procs -> Waits]
      /\ \A q \in Procs : q # current => wait'[q] = wait[q]
      /\ wait'[current] = [wait[current] EXCEPT !.at = "wake"]
  BY <1>1, <1>3
<1>5. /\ wait'[current].sem = wait[current].sem
      /\ wait'[current].flags = wait[current].flags
      /\ wait'[current].at = "wake"
  BY <1>3, <1>4 DEF Waits
<1>6. \A p \in Procs : /\ wait'[p].sem = wait[p].sem
                       /\ wait'[p].flags = wait[p].flags
                       /\ wait'[p].at = IF p = current THEN "wake" ELSE wait[p].at
  BY <1>4, <1>5
<1>7. SemTypeOK' /\ NoAssertFails' /\ state'[Idle] = "RUNNABLE"
  BY <1>0, <1>1, <1>2, <1>4 DEF SemTypeOK, NoAssertFails
<1>8. \A p \in Procs : InDown(p)' <=> InDown(p)
  BY <1>1, <1>3, <1>6 DEF InDown
<1>9. WaitExact'
  <2>1. current' \in Procs
    BY <1>2 DEF SchedTypeOK
  <2>2. ~InDown(Idle)' /\ current # Idle
    BY <1>0, <1>1, <1>8 DEF WaitExact, InDown
  <2>3. ASSUME NEW p \in Procs
        PROVE  /\ InDown(p)' => wait'[p].sem \in Sems
               /\ ~InDown(p)' => wait'[p] = NoWait
               /\ wait'[p].at # "sched"
               /\ InDown(p)' /\ wait'[p].flags = "KSEM" => state'[p] = "RUNNABLE"
    BY <1>0, <1>1, <1>2, <1>4, <1>6, <1>8 DEF WaitExact, InDown
  <2> QED BY <1>2, <2>1, <2>2, <2>3 DEF WaitExact
<1>10. ASSUME NEW r \in Sems PROVE QueueExact(r)'
  <2>1. \A p \in Procs : WaitsFor(p, r)' <=> WaitsFor(p, r)
    BY <1>6, <1>8 DEF WaitsFor
  <2> QED BY <1>0, <1>1, <1>2, <2>1 DEF QueueExact
<1> QED BY <1>1, <1>2, <1>6, <1>7, <1>9, <1>10, QueueExactAllPrime DEF SemInv

\* The end of a down() that blocked: an up() has picked the process, so that it
\* is in no queue any more and the assertion on its flags holds.
LEMMA DownWakeFacts ==
    ASSUME SemInv, DownWake
    PROVE  /\ SemInv' /\ panic' = panic
           /\ Granted(current, wait[current].sem) /\ wait[current].sem \in Sems
           /\ wait' = [wait EXCEPT ![current] = NoWait]
           /\ UNCHANGED <<wait_queue, state, wait_state, current, value>>
<1> USE SchedAssumption, SemsAssumption
<1>0. /\ SchedTypeOK /\ SemTypeOK /\ RunQueueExact /\ WaitExact /\ NoAssertFails
      /\ \A r \in Sems : QueueExact(r)
      /\ state[Idle] = "RUNNABLE"
  BY QueueExactAll DEF SemInv
<1> DEFINE s == wait[current].sem
<1>1. /\ wait[current].at = "wake"
      /\ current \in Range(wait_queue[s]) \/ wait_queue' = [wait_queue EXCEPT ![s] = @]
      /\ panic' = IF wait[current].flags = "KSEM" THEN panic ELSE "assert"
      /\ wait' = [wait EXCEPT ![current] = NoWait]
      /\ UNCHANGED <<state, wait_state, time_slice, need_resched, run_list, current, value>>
  BY DEF DownWake, Assert_
<1>2. current \in Procs /\ InDown(current) /\ s \in Sems /\ state[current] = "RUNNABLE"
  BY <1>0, <1>1 DEF WaitExact, SchedTypeOK, InDown
<1>3. ~WaitsFor(current, s)
  BY <1>0, <1>2 DEF QueueExact
<1>4. wait[current].flags = "KSEM"
  <2>1. wait[current] \in Waits
    BY <1>0, <1>2 DEF SemTypeOK
  <2>2. wait[current].flags \in {"INTERRUPTED", "KSEM"}
    BY <2>1 DEF Waits
  <2> QED BY <1>2, <1>3, <2>2 DEF WaitsFor
<1>5. wait_queue' = wait_queue /\ panic' = panic
  <2>1. current \notin Range(wait_queue[s])
    BY <1>0, <1>2, <1>3 DEF QueueExact
  <2> QED BY <1>0, <1>1, <1>4, <2>1 DEF SemTypeOK
<1>6. Granted(current, s)
  BY <1>2, <1>4 DEF Granted
<1>7. NoWait \in Waits
  BY DEF NoWait, Waits
<1>8. \A p \in Procs : wait'[p] = IF p = current THEN NoWait ELSE wait[p]
  BY <1>0, <1>1 DEF SemTypeOK
<1>9. SchedTypeOK' /\ SemTypeOK' /\ RunQueueExact' /\ NoAssertFails' /\ state'[Idle] = "RUNNABLE"
  BY <1>0, <1>1, <1>5, <1>7 DEF SchedTypeOK, SemTypeOK, RunQueueExact, OnRunList, NoAssertFails
<1>10. WaitExact'
  BY <1>0, <1>1, <1>2, <1>8 DEF WaitExact, InDown, NoWait
<1>11. ASSUME NEW r \in Sems PROVE QueueExact(r)'
  <2>1. \A p \in Procs : WaitsFor(p, r)' <=> WaitsFor(p, r)
    BY <1>4, <1>8 DEF WaitsFor, InDown, NoWait
  <2> QED BY <1>0, <1>1, <1>5, <2>1 DEF QueueExact
<1> QED BY <1>1, <1>2, <1>5, <1>6, <1>9, <1>10, <1>11, QueueExactAllPrime DEF SemInv

\* try_down() takes a permit or does nothing.
LEMMA TryDownFacts ==
    ASSUME SemInv, NEW s \in Sems, TryDown(s), UNCHANGED schedVars
    PROVE  /\ SemInv'
           /\ value' = [value EXCEPT ![s] = IF @ > 0 THEN @ - 1 ELSE @]
           /\ UNCHANGED wait
<1>0. /\ SchedTypeOK /\ SemTypeOK /\ RunQueueExact /\ WaitExact /\ NoAssertFails
      /\ \A r \in Sems : QueueExact(r)
      /\ state[Idle] = "RUNNABLE"
  BY QueueExactAll DEF SemInv
<1>1. /\ value' = [value EXCEPT ![s] = IF @ > 0 THEN @ - 1 ELSE @]
      /\ UNCHANGED <<wait_queue, wait>>
      /\ UNCHANGED <<state, wait_state, time_slice, need_resched, run_list, current, panic>>
  BY DEF TryDown, schedVars
<1>2. SchedTypeOK' /\ RunQueueExact' /\ WaitExact' /\ NoAssertFails' /\ state'[Idle] = "RUNNABLE"
  BY <1>0, <1>1 DEF SchedTypeOK, RunQueueExact, OnRunList, WaitExact, InDown, NoAssertFails
<1>3. value' \in [Sems -> Nat] /\ \A r \in Sems : value'[r] > 0 => value[r] > 0
  BY <1>0, <1>1 DEF SemTypeOK
<1>4. SemTypeOK'
  BY <1>0, <1>1, <1>3 DEF SemTypeOK
<1>5. ASSUME NEW r \in Sems PROVE QueueExact(r)'
  BY <1>0, <1>1, <1>3 DEF QueueExact, WaitsFor, InDown
<1> QED BY <1>1, <1>2, <1>4, <1>5, QueueExactAllPrime DEF SemInv
-----------------------------------------------------------------------------
(* Steps that leave the semaphores alone.                                   *)

\* A step of somebody else.
LEMMA OthersKeep ==
    ASSUME SemInv, UNCHANGED <<schedVars, semVars>>
    PROVE  SemInv'
<1>1. UNCHANGED <<state, wait_state, time_slice, need_resched, run_list, current, panic>>
  BY DEF schedVars
<1>2. UNCHANGED <<value, wait_queue, wait>>
  BY DEF semVars
<1>3. SchedTypeOK' /\ SemTypeOK' /\ RunQueueExact' /\ WaitExact' /\ state'[Idle] = "RUNNABLE"
  BY <1>1, <1>2 DEF SemInv, SchedTypeOK, SemTypeOK, RunQueueExact, OnRunList, WaitExact, InDown
<1>4. WaitQueueExact'
  BY <1>1, <1>2 DEF SemInv, WaitQueueExact, NoAssertFails, WaitsFor, InDown
<1> QED BY <1>3, <1>4 DEF SemInv

\* schedule() by a process that is not in a down().
LEMMA ScheduleKeeps ==
    ASSUME SemInv, Schedule, UNCHANGED semVars, ~InDown(current)
    PROVE  /\ SemInv' /\ UNCHANGED <<state, wait_state, panic>> /\ state[current'] = "RUNNABLE"
<1>0. /\ SchedTypeOK /\ SemTypeOK /\ RunQueueExact /\ WaitExact /\ NoAssertFails
      /\ \A r \in Sems : QueueExact(r)
      /\ state[Idle] = "RUNNABLE"
  BY QueueExactAll DEF SemInv
<1>1. UNCHANGED <<value, wait_queue, wait>>
  BY DEF semVars
<1>2. /\ SchedTypeOK' /\ RunQueueExact' /\ panic' = panic
      /\ state' = state /\ wait_state' = wait_state
      /\ state[current'] = "RUNNABLE"
  BY <1>0, ScheduleFacts
<1>3. WaitExact'
  BY <1>0, <1>1, <1>2 DEF WaitExact, InDown
<1>4. SemTypeOK' /\ NoAssertFails' /\ \A r \in Sems : QueueExact(r)'
  BY <1>0, <1>1, <1>2 DEF SemTypeOK, NoAssertFails, QueueExact, WaitsFor, InDown
<1> QED BY <1>0, <1>2, <1>3, <1>4, QueueExactAllPrime DEF SemInv

\* wakeup_proc of a process that waits for no semaphore.
LEMMA WakeupKeeps ==
    ASSUME SemInv, NEW p \in Procs, state[p] # "ZOMBIE", wait_state[p] # "KSEM",
           WakeupProc(p), UNCHANGED <<need_resched, current, semVars>>
    PROVE  /\ SemInv' /\ panic' = panic
           /\ state' = [state EXCEPT ![p] = "RUNNABLE"]
           /\ \A q \in Procs : q # p => wait_state'[q] = wait_state[q]
           /\ wait_state'[p] = IF state[p] = "RUNNABLE" THEN wait_state[p] ELSE "NONE"
<1>0. /\ SchedTypeOK /\ SemTypeOK /\ RunQueueExact /\ WaitExact /\ NoAssertFails
      /\ \A r \in Sems : QueueExact(r)
      /\ state[Idle] = "RUNNABLE"
  BY QueueExactAll DEF SemInv
<1>1. UNCHANGED <<value, wait_queue, wait>>
  BY DEF semVars
<1>2. /\ SchedTypeOK' /\ RunQueueExact' /\ panic' = panic
      /\ state' = [state EXCEPT ![p] = "RUNNABLE"]
      /\ \A q \in Procs : wait_state'[q] = wait_state[q] \/ (q = p /\ wait_state'[q] = "NONE")
      /\ state[p] # "RUNNABLE" => wait_state'[p] = "NONE"
  BY <1>0, WakeupProcFacts
<1>3. state[p] = "RUNNABLE" => wait_state' = wait_state
  BY DEF WakeupProc
<1>4. \A q \in Procs : state'[q] = IF q = p THEN "RUNNABLE" ELSE state[q]
  BY <1>0, <1>2 DEF SchedTypeOK
<1>5. WaitExact' /\ state'[Idle] = "RUNNABLE"
  <2>1. current \in Procs /\ current' = current /\ Idle \in Procs
    BY <1>0, SchedAssumption DEF SchedTypeOK
  <2> QED BY <1>0, <1>1, <1>4, <2>1 DEF WaitExact, InDown
<1>6. SemTypeOK' /\ NoAssertFails'
  BY <1>0, <1>1, <1>2 DEF SemTypeOK, NoAssertFails
<1>7. ASSUME NEW r \in Sems PROVE QueueExact(r)'
  <2>1. ~WaitsFor(p, r)
    BY <1>0 DEF QueueExact
  <2>2. \A q \in Procs : WaitsFor(q, r)' <=> WaitsFor(q, r)
    BY <1>1 DEF WaitsFor, InDown
  <2> QED BY <1>0, <1>1, <1>2, <1>4, <2>1, <2>2 DEF QueueExact
<1> QED BY <1>2, <1>3, <1>5, <1>6, <1>7, QueueExactAllPrime DEF SemInv

\* The timer's tick.
LEMMA TickKeeps ==
    ASSUME SemInv, ProcTick(current),
           UNCHANGED <<state, wait_state, run_list, current, panic, semVars>>
    PROVE  SemInv'
<1>0. /\ SchedTypeOK /\ SemTypeOK /\ RunQueueExact /\ WaitExact /\ NoAssertFails
      /\ \A r \in Sems : QueueExact(r)
      /\ state[Idle] = "RUNNABLE"
  BY QueueExactAll DEF SemInv
<1>1. UNCHANGED <<value, wait_queue, wait>>
  BY DEF semVars
<1>2. time_slice' \in [Procs -> 0..MAX_TIME_SLICE] /\ need_resched' \in [Procs -> BOOLEAN]
  BY <1>0, ProcTickFacts
<1>3. SchedTypeOK' /\ SemTypeOK' /\ RunQueueExact' /\ WaitExact' /\ NoAssertFails'
  BY <1>0, <1>1, <1>2
  DEF SchedTypeOK, SemTypeOK, RunQueueExact, OnRunList, WaitExact, InDown, NoAssertFails
<1>4. \A r \in Sems : QueueExact(r)'
  BY <1>0, <1>1 DEF QueueExact, WaitsFor, InDown
<1> QED BY <1>0, <1>3, <1>4, QueueExactAllPrime DEF SemInv

\* The current process, outside a down(), changes its own state and wait state.
LEMMA OwnStateKeeps ==
    ASSUME SemInv, current # Idle, ~InDown(current),
           NEW st \in States, NEW ws \in WaitStates,
           state' = [state EXCEPT ![current] = st],
           wait_state' = [wait_state EXCEPT ![current] = ws],
           UNCHANGED <<time_slice, need_resched, run_list, current, panic, semVars>>
    PROVE  SemInv'
<1>0. /\ SchedTypeOK /\ SemTypeOK /\ RunQueueExact /\ WaitExact /\ NoAssertFails
      /\ \A r \in Sems : QueueExact(r)
      /\ state[Idle] = "RUNNABLE"
  BY QueueExactAll DEF SemInv
<1>1. UNCHANGED <<value, wait_queue, wait>>
  BY DEF semVars
<1>2. current \in Procs /\ Idle \in Procs
  BY <1>0, SchedAssumption DEF SchedTypeOK
<1>3. \A q \in Procs : q # current => state'[q] = state[q] /\ wait_state'[q] = wait_state[q]
  BY <1>0 DEF SchedTypeOK
<1>4. SchedTypeOK' /\ SemTypeOK' /\ NoAssertFails' /\ state'[Idle] = "RUNNABLE"
  BY <1>0, <1>1, <1>2, <1>3 DEF SchedTypeOK, SemTypeOK, NoAssertFails
<1>5. RunQueueExact'
  BY <1>0, <1>2, <1>3 DEF RunQueueExact, OnRunList
<1>6. WaitExact'
  BY <1>0, <1>1, <1>2, <1>3 DEF WaitExact, InDown
<1>7. ASSUME NEW r \in Sems PROVE QueueExact(r)'
  <2>1. ~WaitsFor(current, r)
    BY DEF WaitsFor
  <2>2. \A q \in Procs : WaitsFor(q, r)' <=> WaitsFor(q, r)
    BY <1>1 DEF WaitsFor, InDown
  <2> QED BY <1>0, <1>1, <1>3, <2>1, <2>2 DEF QueueExact
<1> QED BY <1>4, <1>5, <1>6, <1>7, QueueExactAllPrime DEF SemInv

-----------------------------------------------------------------------------
(* Any clients.                                                             *)

\* The inductive invariant.  No client waits for anything but a semaphore, so
\* do_kill wakes nobody.
ClientsInv ==
    /\ SemInv
    /\ taken \in [Sems -> Int]
    /\ \A p \in Procs : wait_state[p] \in {"NONE", "KSEM"}

LEMMA InitClients == ClientsInit => ClientsInv
<1> SUFFICES ASSUME ClientsInit PROVE ClientsInv
  OBVIOUS
<1> USE SchedAssumption, SemsAssumption
<1>1. IsFiniteSet(Clients) /\ Clients \subseteq Procs
  BY ClientsAssumption, FS_RemoveElement DEF Clients
<1>2. run_list \in Seq(Clients) /\ Distinct(run_list) /\ Range(run_list) = Clients
  <2>1. run_list \in [1..Cardinality(Clients) -> Clients] /\ Range(run_list) = Clients
    BY DEF ClientsInit
  <2> QED BY <1>1, <2>1, EnumerationFacts
<1>3. run_list \in Seq(Procs)
  BY <1>1, <1>2
<1>4. time_slice \in [Procs -> 0..MAX_TIME_SLICE]
  BY DEF ClientsInit
<1>5. SchedTypeOK
  BY <1>3, <1>4 DEF ClientsInit, SchedTypeOK, States, WaitStates
<1>6. RunQueueExact
  BY <1>2 DEF ClientsInit, RunQueueExact, OnRunList, Distinct, Clients
<1>7. SemTypeOK
  <2>1. value \in [Sems -> Nat]
    BY ClientsAssumption DEF ClientsInit
  <2>2. NoWait \in Waits
    BY DEF NoWait, Waits
  <2> QED BY <2>1, <2>2 DEF ClientsInit, SemTypeOK
<1>8. WaitExact
  BY DEF ClientsInit, WaitExact, InDown, NoWait
<1>9. NoAssertFails /\ \A s \in Sems : QueueExact(s)
  <2>1. \A s \in Sems : wait_queue[s] = <<>> /\ Range(wait_queue[s]) = {}
    BY DEF ClientsInit, Range
  <2> QED BY <2>1 DEF ClientsInit, QueueExact, Distinct, WaitsFor, InDown, NoWait, NoAssertFails
<1> QED BY <1>5, <1>6, <1>7, <1>8, <1>9, QueueExactAll DEF SemInv, ClientsInv, ClientsInit

LEMMA NextClients == ClientsInv /\ [ClientsNext]_clientsVars => ClientsInv'
<1> SUFFICES ASSUME ClientsInv, [ClientsNext]_clientsVars PROVE ClientsInv'
  OBVIOUS
<1> USE SchedAssumption, SemsAssumption
<1>0. SemInv /\ taken \in [Sems -> Int] /\ wait_state \in [Procs -> WaitStates] /\ current \in Procs
  BY DEF ClientsInv, SemInv, SchedTypeOK
<1>1. ASSUME NEW s \in Sems, ClientDown(s) PROVE ClientsInv'
  <2>1. /\ current # Idle /\ ~InDown(current) /\ Down(s)
        /\ UNCHANGED <<time_slice, need_resched, run_list, current, panic>>
    BY <1>1 DEF ClientDown, Ready
  <2>2. taken' \in [Sems -> Int]
    BY <1>0, <1>1 DEF ClientDown
  <2>3. SemInv' /\ \A p \in Procs : wait_state'[p] \in {wait_state[p], "KSEM"}
    BY <1>0, <2>1, DownFacts
  <2> QED BY <2>2, <2>3 DEF ClientsInv
<1>2. ASSUME NEW s \in Sems, ClientUp(s) PROVE ClientsInv'
  <2>1. Up(s) /\ UNCHANGED <<need_resched, current>> /\ taken' \in [Sems -> Int]
    BY <1>0, <1>2 DEF ClientUp
  <2>2. SemInv' /\ \A p \in Procs : wait_state'[p] \in {wait_state[p], "NONE"}
    BY <1>0, <2>1, UpFacts
  <2> QED BY <2>1, <2>2 DEF ClientsInv
<1>3. ASSUME NEW s \in Sems, ClientTryDown(s) PROVE ClientsInv'
  <2>1. TryDown(s) /\ UNCHANGED schedVars /\ taken' \in [Sems -> Int]
    BY <1>0, <1>3 DEF ClientTryDown
  <2>2. SemInv' /\ wait_state' = wait_state
    BY <1>0, <2>1, TryDownFacts DEF schedVars
  <2> QED BY <2>1, <2>2 DEF ClientsInv
<1>4. ASSUME NEW p \in Clients, ClientKill(p) PROVE ClientsInv'
  <2>1. wait_state[p] \notin Interruptible
    BY <1>4 DEF ClientsInv, Interruptible, Clients
  <2>2. UNCHANGED <<schedVars, semVars, taken>>
    BY <1>4, <2>1 DEF ClientKill, schedVars
  <2> QED BY <1>0, <2>2, OthersKeep DEF ClientsInv, schedVars
<1>5. CASE ClientSchedule
  BY <1>0, <1>5, ScheduleKeeps DEF ClientSchedule, Ready, ClientsInv
<1>6. CASE ClientIdle
  <2>1. ~InDown(current) /\ Schedule /\ UNCHANGED semVars /\ UNCHANGED taken
    BY <1>0, <1>6 DEF ClientIdle, SemInv, WaitExact
  <2> QED BY <1>0, <2>1, ScheduleKeeps DEF ClientsInv
<1>7. CASE ClientTick
  BY <1>0, <1>7, TickKeeps DEF ClientTick, ClientsInv
<1>8. CASE ClientDownSched
  BY <1>0, <1>8, DownSchedFacts DEF ClientDownSched, ClientsInv
<1>9. CASE ClientDownWake
  <2>1. DownWake /\ taken' = [taken EXCEPT ![wait[current].sem] = @ + 1]
    BY <1>9 DEF ClientDownWake
  <2>2. /\ SemInv' /\ wait[current].sem \in Sems /\ UNCHANGED wait_state
    BY <1>0, <2>1, DownWakeFacts
  <2> HIDE DEF SemInv
  <2>3. taken' \in [Sems -> Int]
    BY <1>0, <2>1, <2>2
  <2> QED BY <2>2, <2>3 DEF ClientsInv
<1>10. CASE UNCHANGED clientsVars
  BY <1>0, <1>10, OthersKeep DEF clientsVars, ClientsInv, schedVars
<1> QED BY <1>1, <1>2, <1>3, <1>4, <1>5, <1>6, <1>7, <1>8, <1>9, <1>10 DEF ClientsNext

LEMMA ClientsAlways == ClientsSpec => []ClientsInv
BY InitClients, NextClients, PTL DEF ClientsSpec

\* The fields keep their types; no value goes below zero.
THEOREM ClientsTypeCorrect == ClientsSpec => []ClientsTypeOK
<1>1. ClientsInv => ClientsTypeOK
  BY DEF ClientsInv, SemInv, ClientsTypeOK
<1> QED BY <1>1, ClientsAlways, PTL

\* Whatever order clients call down(), try_down(), up() and schedule() in, and
\* whenever the timer ticks: each wait queue holds, once each, exactly those that
\* wait, these sleep, nobody waits for a semaphore that has a permit, and no
\* assertion of up(), down() or wakeup_proc fails.
THEOREM WaitQueueIsExact == ClientsSpec => []WaitQueueExact
<1>1. ClientsInv => WaitQueueExact
  BY DEF ClientsInv, SemInv
<1> QED BY <1>1, ClientsAlways, PTL

\* Nothing is lost from, or twice in, the run queue meanwhile.
THEOREM RunQueueStaysExact == ClientsSpec => []RunQueueExact
<1>1. ClientsInv => RunQueueExact
  BY DEF ClientsInv, SemInv
<1> QED BY <1>1, ClientsAlways, PTL

-----------------------------------------------------------------------------
(* The refinement.                                                          *)

\* The permits of WeakSemaphore, and whom it sees blocked.
Picked(s) == {p \in Procs : Granted(p, s)}
Avail == [s \in Sems |-> value[s] + Cardinality(Picked(s))]
Trying == [p \in Procs |-> IF InDown(p) THEN wait[p].sem ELSE NONE]

LEMMA PickedFinite == \A s \in Sems : IsFiniteSet(Picked(s)) /\ Cardinality(Picked(s)) \in Nat
<1> TAKE s \in Sems
<1>1. Picked(s) \in SUBSET Procs
  BY DEF Picked
<1>2. IsFiniteSet(Picked(s))
  BY <1>1, ClientsAssumption, FS_Subset
<1> QED BY <1>2, FS_CardinalityType

\* A function that differs from f at x at most.
LEMMA UpdatedAt ==
    ASSUME NEW S, NEW f, NEW g, f = [y \in S |-> f[y]], g = [y \in S |-> g[y]],
           NEW x \in S, \A y \in S : y # x => g[y] = f[y]
    PROVE  g = [f EXCEPT ![x] = g[x]]
OBVIOUS

\* The map's values are functions.
LEMMA MapFunctions ==
    /\ Avail = [s \in Sems |-> Avail[s]] /\ Avail' = [s \in Sems |-> Avail'[s]]
    /\ Trying = [p \in Procs |-> Trying[p]] /\ Trying' = [p \in Procs |-> Trying'[p]]
BY DEF Avail, Trying

\* A permit more or less.
LEMMA AvailMoves ==
    ASSUME NEW s \in Sems, NEW d \in {-1, 1}, \A r \in Sems : Avail[r] \in Nat,
           \A r \in Sems : Avail'[r] = Avail[r] + (IF r = s THEN d ELSE 0)
    PROVE  /\ d = 1 => Avail' = [Avail EXCEPT ![s] = @ + 1]
           /\ d = -1 => Avail' = [Avail EXCEPT ![s] = @ - 1]
<1>1. Avail'[s] = Avail[s] + d /\ \A r \in Sems : r # s => Avail'[r] = Avail[r]
  OBVIOUS
<1>2. Avail' = [Avail EXCEPT ![s] = Avail'[s]]
  BY <1>1, MapFunctions, UpdatedAt
<1>3. /\ d = 1 => Avail'[s] = Avail[s] + 1
      /\ d = -1 => Avail'[s] = Avail[s] - 1
  BY <1>1
<1> QED BY <1>2, <1>3

\* What a step does to Avail[r] when it changes value[r] alone.
LEMMA AvailFollows ==
    ASSUME ClientsInv, NEW r \in Sems, Picked(r)' = Picked(r), NEW d \in Int, value'[r] = value[r] + d
    PROVE  Avail'[r] = Avail[r] + d
<1>1. value[r] \in Int
  BY DEF ClientsInv, SemInv, SemTypeOK
<1>2. Cardinality(Picked(r)) \in Int
  BY PickedFinite
<1>3. Avail[r] = value[r] + Cardinality(Picked(r)) /\ Avail'[r] = value'[r] + Cardinality(Picked(r))
  BY DEF Avail
<1> QED BY <1>1, <1>2, <1>3

LEMMA RefineDown ==
    ASSUME ClientsInv, NEW s \in Sems, ClientDown(s)
    PROVE  Abstract!Next
<1>1. /\ current # Idle /\ ~InDown(current) /\ Down(s)
      /\ UNCHANGED <<time_slice, need_resched, run_list, current, panic>>
      /\ taken' = [taken EXCEPT ![s] = IF wait'[current] = NoWait THEN @ + 1 ELSE @]
  BY DEF ClientDown, Ready
<1>2. /\ value \in [Sems -> Nat] /\ taken \in [Sems -> Int] /\ current \in Procs
      /\ wait \in [Procs -> Waits] /\ wait[current] = NoWait
  BY <1>1 DEF ClientsInv, SemInv, SemTypeOK, SchedTypeOK, WaitExact
<1>3. CASE value[s] > 0 /\ value' = [value EXCEPT ![s] = @ - 1] /\ UNCHANGED wait
  <2>1. \A r \in Sems : Picked(r)' = Picked(r)
    BY <1>3 DEF Picked, Granted, InDown
  <2>2. \A r \in Sems : Avail'[r] = Avail[r] + (IF r = s THEN -1 ELSE 0)
    <3> TAKE r \in Sems
    <3>1. value'[r] = value[r] + (IF r = s THEN -1 ELSE 0)
      BY <1>2, <1>3
    <3> QED BY <2>1, <3>1, AvailFollows
  <2>3. Avail[s] > 0 /\ \A r \in Sems : Avail[r] \in Nat
    BY <1>2, <1>3, PickedFinite DEF Avail
  <2>4. Avail' = [Avail EXCEPT ![s] = @ - 1]
    BY <2>2, <2>3, AvailMoves
  <2>5. Trying' = Trying
    BY <1>3 DEF Trying, InDown
  <2>6. taken' = [taken EXCEPT ![s] = @ + 1]
    BY <1>1, <1>2, <1>3
  <2>7. Abstract!Take(s)
    BY <2>3, <2>4, <2>5, <2>6 DEF Abstract!Take, Avail, Trying, Picked
  <2> QED BY <2>7 DEF Abstract!Next
<1>4. CASE /\ value[s] = 0 /\ UNCHANGED value
           /\ wait' = [wait EXCEPT ![current] =
                         [at |-> "sched", sem |-> s, flags |-> "INTERRUPTED"]]
  <2>1. \A p \in Procs : wait'[p] = IF p = current
                                    THEN [at |-> "sched", sem |-> s, flags |-> "INTERRUPTED"]
                                    ELSE wait[p]
    BY <1>2, <1>4
  <2>2. \A r \in Sems : Picked(r)' = Picked(r)
    BY <1>1, <2>1 DEF Picked, Granted, InDown
  <2>3. Avail' = Avail
    BY <1>4, <2>2 DEF Avail
  <2>4. Trying' = [Trying EXCEPT ![current] = s] /\ Trying[current] = NONE
    <3>1. Trying[current] = NONE /\ Trying'[current] = s
      BY <1>1, <1>2, <2>1 DEF Trying, InDown
    <3>2. \A p \in Procs : p # current => Trying'[p] = Trying[p]
      BY <2>1 DEF Trying, InDown
    <3> QED BY <1>2, <3>1, <3>2, MapFunctions, UpdatedAt
  <2>5. taken' = taken
    <3>1. wait'[current] # NoWait
      BY <1>2, <2>1 DEF NoWait
    <3> QED BY <1>1, <1>2, <3>1
  <2>6. Abstract!Try(current, s)
    BY <2>3, <2>4, <2>5 DEF Abstract!Try, Avail, Trying, Picked
  <2> QED BY <1>2, <2>6 DEF Abstract!Next
<1> QED BY <1>1, <1>3, <1>4, DownFacts DEF ClientsInv

LEMMA RefineUp ==
    ASSUME ClientsInv, NEW s \in Sems, ClientUp(s)
    PROVE  Abstract!Next
<1>1. /\ Up(s) /\ UNCHANGED <<need_resched, current>>
      /\ taken' = [taken EXCEPT ![s] = @ - 1]
  BY DEF ClientUp
<1>2. /\ value \in [Sems -> Nat] /\ wait \in [Procs -> Waits]
  BY DEF ClientsInv, SemInv, SemTypeOK
<1>3. SUFFICES Avail' = [Avail EXCEPT ![s] = @ + 1] /\ Trying' = Trying
  <2>1. Abstract!Release(s)
    BY <1>1, <1>3 DEF Abstract!Release, Avail, Trying, Picked
  <2> QED BY <2>1 DEF Abstract!Next
<1>4. \A r \in Sems : Avail[r] \in Nat
  BY <1>2, PickedFinite DEF Avail
<1>5. CASE value' = [value EXCEPT ![s] = @ + 1] /\ UNCHANGED wait
  <2>1. \A r \in Sems : Picked(r)' = Picked(r)
    BY <1>5 DEF Picked, Granted, InDown
  <2>2. \A r \in Sems : Avail'[r] = Avail[r] + (IF r = s THEN 1 ELSE 0)
    <3> TAKE r \in Sems
    <3>1. value'[r] = value[r] + (IF r = s THEN 1 ELSE 0)
      BY <1>2, <1>5
    <3> QED BY <2>1, <3>1, AvailFollows
  <2>3. Avail' = [Avail EXCEPT ![s] = @ + 1]
    BY <1>4, <2>2, AvailMoves
  <2> QED BY <1>5, <2>3 DEF Trying, InDown
<1>6. ASSUME NEW p \in Procs, WaitsFor(p, s), UNCHANGED value,
             wait' = [wait EXCEPT ![p].flags = "KSEM"]
      PROVE  Avail' = [Avail EXCEPT ![s] = @ + 1] /\ Trying' = Trying
  <2>1. wait[p] \in Waits /\ \A q \in Procs : q # p => wait'[q] = wait[q]
    BY <1>2, <1>6
  <2>2. wait'[p] = [wait[p] EXCEPT !.flags = "KSEM"]
    BY <1>2, <1>6
  <2>3. wait'[p].at = wait[p].at /\ wait'[p].sem = wait[p].sem /\ wait'[p].flags = "KSEM"
    BY <2>1, <2>2 DEF Waits
  <2>4. wait[p].at # "out" /\ wait[p].sem = s /\ wait[p].flags = "INTERRUPTED"
    BY <1>6 DEF WaitsFor, InDown
  <2>5. \A r \in Sems : Picked(r)' = IF r = s THEN Picked(s) \cup {p} ELSE Picked(r)
    BY <2>1, <2>3, <2>4 DEF Picked, Granted, InDown
  <2>6. p \notin Picked(s)
    BY <2>4 DEF Picked, Granted
  <2>7. Cardinality(Picked(s) \cup {p}) = Cardinality(Picked(s)) + 1
    BY <2>6, PickedFinite, FS_AddElement
  <2>8. \A r \in Sems : Avail'[r] = Avail[r] + (IF r = s THEN 1 ELSE 0)
    <3> TAKE r \in Sems
    <3>1. /\ Avail[r] = value[r] + Cardinality(Picked(r))
          /\ Avail'[r] = value[r] + Cardinality(IF r = s THEN Picked(s) \cup {p} ELSE Picked(r))
      BY <1>6, <2>5 DEF Avail
    <3>2. value[r] \in Nat /\ Cardinality(Picked(r)) \in Nat
      BY <1>2, PickedFinite
    <3> QED BY <2>7, <3>1, <3>2
  <2>9. Avail' = [Avail EXCEPT ![s] = @ + 1]
    BY <1>4, <2>8, AvailMoves
  <2>10. Trying' = Trying
    BY <2>1, <2>3 DEF Trying, InDown
  <2> QED BY <2>9, <2>10
<1> QED BY <1>1, <1>5, <1>6, UpFacts DEF ClientsInv

LEMMA RefineTryDown ==
    ASSUME ClientsInv, NEW s \in Sems, ClientTryDown(s)
    PROVE  Abstract!Next \/ UNCHANGED Abstract!vars
<1>1. /\ UNCHANGED wait
      /\ value' = [value EXCEPT ![s] = IF @ > 0 THEN @ - 1 ELSE @]
      /\ taken' = [taken EXCEPT ![s] = IF value[s] > 0 THEN @ + 1 ELSE @]
  BY DEF ClientTryDown, TryDown
<1>2. value \in [Sems -> Nat] /\ taken \in [Sems -> Int]
  BY DEF ClientsInv, SemInv, SemTypeOK
<1>3. /\ \A r \in Sems : Picked(r)' = Picked(r)
      /\ Trying' = Trying
  BY <1>1 DEF Picked, Granted, Trying, InDown
<1>4. CASE value[s] > 0
  <2>1. \A r \in Sems : Avail'[r] = Avail[r] + (IF r = s THEN -1 ELSE 0)
    <3> TAKE r \in Sems
    <3>1. value'[r] = value[r] + (IF r = s THEN -1 ELSE 0)
      BY <1>1, <1>2, <1>4
    <3> QED BY <1>3, <3>1, AvailFollows
  <2>2. Avail[s] > 0 /\ \A r \in Sems : Avail[r] \in Nat
    BY <1>2, <1>4, PickedFinite DEF Avail
  <2>3. Avail' = [Avail EXCEPT ![s] = @ - 1]
    BY <2>1, <2>2, AvailMoves
  <2>4. taken' = [taken EXCEPT ![s] = @ + 1]
    BY <1>1, <1>2, <1>4
  <2>5. Abstract!Take(s)
    BY <1>3, <2>2, <2>3, <2>4 DEF Abstract!Take, Avail, Trying, Picked
  <2> QED BY <2>5 DEF Abstract!Next
<1>5. CASE ~(value[s] > 0)
  <2>1. value' = value /\ taken' = taken
    BY <1>1, <1>2, <1>5
  <2>2. Avail' = Avail
    BY <1>3, <2>1 DEF Avail
  <2> QED BY <1>3, <2>1, <2>2 DEF Abstract!vars, Avail, Trying, Picked
<1> QED BY <1>4, <1>5

LEMMA RefineDownWake ==
    ASSUME ClientsInv, ClientDownWake
    PROVE  Abstract!Next
<1>1. /\ DownWake /\ taken' = [taken EXCEPT ![wait[current].sem] = @ + 1]
  BY DEF ClientDownWake
<1>s. PICK s \in Sems : s = wait[current].sem
  BY <1>1, DownWakeFacts DEF ClientsInv
<1>2. /\ Granted(current, s) /\ s \in Sems
      /\ wait' = [wait EXCEPT ![current] = NoWait]
      /\ UNCHANGED <<current, value>>
  BY <1>1, <1>s, DownWakeFacts DEF ClientsInv
<1>3. /\ value \in [Sems -> Nat] /\ taken \in [Sems -> Int] /\ current \in Procs
      /\ wait \in [Procs -> Waits]
  BY DEF ClientsInv, SemInv, SemTypeOK, SchedTypeOK
<1>4. \A q \in Procs : wait'[q] = IF q = current THEN NoWait ELSE wait[q]
  BY <1>2, <1>3
<1>5. InDown(current) /\ s = wait[current].sem
  BY <1>2 DEF Granted
<1>6. \A r \in Sems : Picked(r)' = IF r = s THEN Picked(s) \ {current} ELSE Picked(r)
  <2>1. ASSUME NEW r \in Sems, NEW q \in Procs
        PROVE  Granted(q, r)' <=> Granted(q, r) /\ q # current
    BY <1>4 DEF Granted, InDown, NoWait
  <2>2. \A r \in Sems : Picked(r)' = Picked(r) \ {current}
    BY <2>1 DEF Picked
  <2>3. \A r \in Sems : r # s => current \notin Picked(r)
    BY <1>5 DEF Picked, Granted
  <2> QED BY <2>2, <2>3
<1>7. current \in Picked(s)
  BY <1>2, <1>3 DEF Picked
<1>8. Cardinality(Picked(s) \ {current}) = Cardinality(Picked(s)) - 1 /\ Cardinality(Picked(s)) > 0
  <2>1. IsFiniteSet(Picked(s)) /\ Cardinality(Picked(s)) \in Nat
    BY <1>2, PickedFinite
  <2>2. Cardinality(Picked(s)) # 0
    BY <1>7, <2>1, FS_EmptySet
  <2>3. Cardinality(Picked(s) \ {current}) = Cardinality(Picked(s)) - 1
    BY <1>7, <2>1, FS_RemoveElement
  <2> QED BY <2>1, <2>2, <2>3
<1>9. \A r \in Sems : /\ Avail[r] \in Nat
                     /\ Avail'[r] = Avail[r] + (IF r = s THEN -1 ELSE 0)
  <2> TAKE r \in Sems
  <2>1. /\ Avail[r] = value[r] + Cardinality(Picked(r))
        /\ Avail'[r] = value[r] + Cardinality(IF r = s THEN Picked(s) \ {current} ELSE Picked(r))
    BY <1>2, <1>6 DEF Avail
  <2>2. value[r] \in Nat /\ Cardinality(Picked(r)) \in Nat
    BY <1>3, PickedFinite
  <2> QED BY <1>8, <2>1, <2>2
<1>10. Avail' = [Avail EXCEPT ![s] = @ - 1]
  BY <1>2, <1>9, AvailMoves
<1>11. Avail[s] > 0
  BY <1>2, <1>3, <1>8, PickedFinite DEF Avail
<1>12. Trying' = [Trying EXCEPT ![current] = NONE] /\ Trying[current] = s
  <2>1. Trying[current] = s /\ Trying'[current] = NONE
    BY <1>3, <1>4, <1>5 DEF Trying, InDown, NoWait
  <2>2. \A p \in Procs : p # current => Trying'[p] = Trying[p]
    BY <1>4 DEF Trying, InDown
  <2> QED BY <1>3, <2>1, <2>2, MapFunctions, UpdatedAt
<1>13. Abstract!Enter(current, s)
  BY <1>1, <1>s, <1>10, <1>11, <1>12 DEF Abstract!Enter, Avail, Trying, Picked
<1> QED BY <1>2, <1>3, <1>13 DEF Abstract!Next

\* A step that leaves the values and, but for schedule(), the waits alone.
LEMMA RefineStutter ==
    ASSUME UNCHANGED <<value, taken>>,
           \A p \in Procs : /\ InDown(p)' <=> InDown(p)
                            /\ wait'[p].sem = wait[p].sem /\ wait'[p].flags = wait[p].flags
    PROVE  UNCHANGED Abstract!vars
<1>1. \A r \in Sems : Picked(r)' = Picked(r)
  BY DEF Picked, Granted
<1>2. Avail' = Avail /\ Trying' = Trying
  BY <1>1 DEF Avail, Trying
<1> QED BY <1>2 DEF Abstract!vars, Avail, Trying, Picked

\* The semaphores of sem.c implement the counting semaphore: a step of down(),
\* try_down() or up() is a step of it, a step of anybody else is none, and a
\* down() that blocked returns only with a permit that up() handed over.
THEOREM SemaphoreImplemented == ClientsSpec => Implements
<1>1. ClientsInit => Abstract!Init
  <2> SUFFICES ASSUME ClientsInit PROVE Abstract!Init
    OBVIOUS
  <2>1. \A s \in Sems : value[s] \in Nat
    BY ClientsAssumption DEF ClientsInit
  <2>2. \A s \in Sems : Picked(s) = {}
    BY DEF ClientsInit, Picked, Granted, InDown, NoWait
  <2>3. \A s \in Sems : Avail[s] = value[s]
    BY <2>1, <2>2, FS_EmptySet DEF Avail
  <2>4. Avail \in [Sems -> Nat]
    BY <2>1, <2>3 DEF Avail
  <2>5. Trying = [p \in Procs |-> NONE]
    BY DEF ClientsInit, Trying, InDown, NoWait
  <2> QED BY <2>4, <2>5 DEF ClientsInit, Abstract!Init, Avail, Trying, Picked
<1>2. ASSUME ClientsInv, [ClientsNext]_clientsVars PROVE [Abstract!Next]_(Abstract!vars)
  <2>1. CASE \E s \in Sems : ClientDown(s)
    BY <1>2, <2>1, RefineDown
  <2>2. CASE \E s \in Sems : ClientUp(s)
    BY <1>2, <2>2, RefineUp
  <2>3. CASE \E s \in Sems : ClientTryDown(s)
    BY <1>2, <2>3, RefineTryDown
  <2>4. CASE ClientDownWake
    BY <1>2, <2>4, RefineDownWake
  <2>5. CASE ClientDownSched
    <3>1. DownSched /\ UNCHANGED taken
      BY <2>5 DEF ClientDownSched
    <3>2. UNCHANGED value /\ wait[current].at = "sched"
          /\ \A p \in Procs : /\ wait'[p].sem = wait[p].sem
                               /\ wait'[p].flags = wait[p].flags
                               /\ wait'[p].at = IF p = current THEN "wake" ELSE wait[p].at
      BY <1>2, <3>1, DownSchedFacts DEF ClientsInv
    <3>3. \A p \in Procs : InDown(p)' <=> InDown(p)
      BY <3>2 DEF InDown
    <3> QED BY <3>1, <3>2, <3>3, RefineStutter
  <2>6. CASE UNCHANGED <<semVars, taken>>
    <3>1. UNCHANGED <<value, wait, taken>>
      BY <2>6 DEF semVars
    <3> QED BY <3>1, RefineStutter DEF InDown
  <2>7. (\E p \in Clients : ClientKill(p)) \/ ClientSchedule \/ ClientIdle \/ ClientTick \/ UNCHANGED clientsVars
        => UNCHANGED <<semVars, taken>>
    BY DEF ClientKill, ClientSchedule, ClientIdle, ClientTick, clientsVars
  <2> QED BY <1>2, <2>1, <2>2, <2>3, <2>4, <2>5, <2>6, <2>7 DEF ClientsNext
<1> QED BY <1>1, <1>2, ClientsAlways, PTL DEF ClientsSpec, Implements, Abstract!Spec

-----------------------------------------------------------------------------
(* The round table.                                                         *)

LEMMA ModFacts ==
    /\ \A a \in Phils : a % N = a
    /\ N % N = 0
    /\ \A a \in Phils : (a + N) % N = a
BY PhilAssumption DEF Phils

LEMMA Neighbours ==
    ASSUME NEW i \in Phils
    PROVE  /\ LEFT(i) = IF i = 0 THEN N - 1 ELSE i - 1
           /\ RIGHT(i) = IF i = N - 1 THEN 0 ELSE i + 1
<1>1. CASE i = 0
  BY <1>1, ModFacts, PhilAssumption DEF LEFT, RIGHT, Phils
<1>2. CASE i # 0
  BY <1>2, ModFacts, PhilAssumption DEF LEFT, RIGHT, Phils
<1> QED BY <1>1, <1>2

LEMMA NeighbourFacts ==
    ASSUME NEW i \in Phils
    PROVE  /\ LEFT(i) \in Phils /\ RIGHT(i) \in Phils
           /\ LEFT(i) # i /\ RIGHT(i) # i
           /\ \A j \in Phils : RIGHT(j) = i <=> j = LEFT(i)
BY Neighbours, PhilAssumption DEF Phils

-----------------------------------------------------------------------------
(* The inductive invariant.                                                 *)

\* f is a function of the philosophers.
OverPhils(f) == f = [i \in Phils |-> f[i]]

PhilTypeOK ==
    /\ phil \in [Phils -> {"THINKING", "HUNGRY", "EATING"}]
    /\ OverPhils(pc) /\ OverPhils(back)
    /\ count \in [Conds -> Int] /\ next_count \in Int
    /\ solution \in {"sema", "condvar"}

\* In a down() for which no up() has been made; and the semaphore of the down().
Unpicked(i) == InDown(i) /\ wait[i].flags = "INTERRUPTED"
SemOf(i) == wait[i].sem

\* The threads: a timer is set only for one that sleeps, the current one can run
\* unless it is about to call schedule(), and the others are where schedule()
\* left them: kernel code is not preempted.
ThreadInv ==
    /\ \A p \in Procs : wait_state[p] = "TIMER" => state[p] = "SLEEPING"
    /\ current # Idle => \/ state[current] = "RUNNABLE" \/ InDown(current)
                         \/ pc[current] \in {"nap_think", "nap_eat", "quit"}
    /\ \A i \in Phils : i # current => InDown(i) \/ pc[i] \in {"loop", "take", "put", "dead"}

\* The table of states never has two neighbours that eat.
TableInv == \A i \in Phils : ~(phil[i] = "EATING" /\ phil[RIGHT(i)] = "EATING")

\* With semaphores: what philosopher i waits for, its entry in the table, and
\* its permit, by the point it has reached.
SemaAt(i) ==
    /\ InDown(i) => \/ SemOf(i) = Mutex /\ pc[i] \in {"hungry", "thinking"}
                    \/ SemOf(i) = i /\ pc[i] = "eat"
    /\ phil[i] = "THINKING" => pc[i] \in {"loop", "nap_think", "take", "quit", "dead",
                                          "hungry", "test_right", "put_up"}
    /\ phil[i] = "HUNGRY" => pc[i] \in {"take_up", "take_down"} \/ (pc[i] = "eat" /\ InDown(i))
    /\ phil[i] = "EATING" => pc[i] \in {"take_up", "take_down", "eat", "nap_eat", "put", "thinking"}
    /\ value[i] = IF phil[i] = "EATING" /\ pc[i] \in {"take_up", "take_down"} THEN 1 ELSE 0
    /\ pc[i] = "eat" /\ InDown(i) => (phil[i] = "EATING" <=> ~Unpicked(i))

SemaInv == \A i \in Phils : SemaAt(i)

\* With the monitor: philosopher i signals; it has made the up() of cond_signal
\* and is still to be let back in; it may go on in the monitor.
Signals(i) == pc[i] \in {"signal", "signal_end"}
Pending(i) == pc[i] = "signal" \/ (pc[i] = "signal_end" /\ Unpicked(i))
Inside(i) == pc[i] \in CondvarLabels \ {"wait", "signal"} /\ ~Unpicked(i)

CondAt(i) ==
    /\ InDown(i) => \/ SemOf(i) = Mutex /\ pc[i] \in {"hungry", "thinking"}
                    \/ SemOf(i) = i /\ pc[i] = "wait_end"
                    \/ SemOf(i) = Next_ /\ pc[i] = "signal_end"
    /\ phil[i] = "THINKING" => pc[i] \in {"loop", "nap_think", "take", "quit", "dead", "hungry",
                                          "test_right", "put_leave", "signal", "signal_end"}
    /\ phil[i] = "HUNGRY" => pc[i] \in {"check", "wait"} \/ (pc[i] = "wait_end" /\ Unpicked(i))
    /\ phil[i] = "EATING" => \/ pc[i] \in {"check", "take_leave", "eat", "nap_eat", "put", "thinking"}
                             \/ pc[i] = "wait_end" /\ ~Unpicked(i)
    /\ count[i] = IF pc[i] \in {"wait", "wait_end"} THEN 1 ELSE 0
    /\ Signals(i) => back[i] \in {"test_right", "put_leave"}

\* One philosopher inside, one signaller, which waits for the one it signalled,
\* and no permit but the mutex's, which is there when nobody is inside.
GateInv ==
    /\ \A i, j \in Phils : Inside(i) /\ Inside(j) => i = j
    /\ \A i, j \in Phils : Signals(i) /\ Signals(j) => i = j
    /\ \A i \in Phils : Pending(i) =>
          \E j \in Phils : Inside(j) /\ pc[j] \in {"wait_end", "take_leave"}
    /\ next_count = IF \E i \in Phils : Signals(i) THEN 1 ELSE 0
    /\ value[Mutex] = IF \E i \in Phils : Inside(i) THEN 0 ELSE 1
    /\ \A s \in Sems : s # Mutex => value[s] = 0

CondvarInv == GateInv /\ \A i \in Phils : CondAt(i)

-----------------------------------------------------------------------------
(* Steps of a thread and of the interrupts.                                 *)

LEMMA Names ==
    /\ Phils \subseteq Procs /\ Procs = Phils \cup {Idle} /\ Idle \notin Phils
    /\ Conds = Phils /\ Sems = Phils \cup {Mutex, Next_}
    /\ Mutex \notin Phils /\ Next_ \notin Phils /\ Mutex # Next_
BY PhilAssumption, MonitorAssumption, CheckSyncAssumption DEF Phils

LEMMA AtFacts ==
    ASSUME SemInv, PhilTypeOK, ThreadInv, NEW l, At(l)
    PROVE  /\ current \in Phils /\ current # Idle /\ pc[current] = l /\ ~InDown(current) /\ ~Unpicked(current)
           /\ l \notin {"nap_think", "nap_eat", "quit"} => state[current] = "RUNNABLE"
<1>1. current \in Procs
  BY DEF SemInv, SchedTypeOK
<1> QED BY <1>1, Names DEF At, ThreadInv, Unpicked

LEMMA GotoFacts ==
    ASSUME PhilTypeOK, current \in Phils, NEW l, Goto(l)
    PROVE  /\ OverPhils(pc)'
           /\ pc'[current] = l /\ \A i \in Phils : i # current => pc'[i] = pc[i]
BY DEF PhilTypeOK, Goto, OverPhils

\* i is in the same place of the same down().
SameWait(i) ==
    /\ InDown(i)' <=> InDown(i)
    /\ Unpicked(i)' <=> Unpicked(i)
    /\ SemOf(i)' = SemOf(i)

LEMMA SameWaits == UNCHANGED wait => \A i \in Procs : SameWait(i)
BY DEF SameWait, InDown, Unpicked, SemOf

\* down(s), and the next point l.
LEMMA DownStep ==
    ASSUME SemInv, PhilTypeOK, ThreadInv, current \in Phils, ~InDown(current), state[current] = "RUNNABLE",
           NEW s \in Sems, Down(s), NEW l, Goto(l),
           UNCHANGED <<time_slice, need_resched, run_list, current, panic>>
    PROVE  /\ SemInv' /\ ThreadInv' /\ value' \in [Sems -> Nat]
           /\ \A i \in Phils : i # current => SameWait(i)
           /\ \A r \in Sems : r # s => value'[r] = value[r]
           /\ \/ /\ value[s] > 0 /\ value'[s] = value[s] - 1
                 /\ \A i \in Phils : i = current => ~InDown(i)' /\ ~Unpicked(i)'
              \/ /\ value[s] = 0 /\ value'[s] = 0
                 /\ \A i \in Phils : i = current => InDown(i)' /\ Unpicked(i)' /\ SemOf(i)' = s
<1>1. current # Idle /\ current \in Procs
  BY Names
<1>2. /\ value \in [Sems -> Nat] /\ wait \in [Procs -> Waits] /\ state \in [Procs -> States]
      /\ wait_state \in [Procs -> WaitStates]
  BY DEF SemInv, SemTypeOK, SchedTypeOK
<1>3. /\ pc'[current] = l /\ \A i \in Phils : i # current => pc'[i] = pc[i]
  BY GotoFacts
<1>4. SemInv'
  BY <1>1, DownFacts
<1>5. value' \in [Sems -> Nat]
  BY <1>4 DEF SemInv, SemTypeOK
<1>6. CASE /\ value[s] > 0 /\ value' = [value EXCEPT ![s] = @ - 1]
           /\ UNCHANGED <<state, wait_state, wait_queue, wait>>
  <2>1. \A i \in Procs : SameWait(i)
    BY <1>6, SameWaits
  <2>2. \A i \in Phils : i = current => ~InDown(i)' /\ ~Unpicked(i)'
    BY <1>6 DEF InDown, Unpicked
  <2>3. ThreadInv'
    BY <1>1, <1>3, <1>6, <2>1, Names DEF ThreadInv, SameWait
  <2>4. value'[s] = value[s] - 1 /\ \A r \in Sems : r # s => value'[r] = value[r]
    BY <1>2, <1>6
  <2> QED BY <1>4, <1>5, <1>6, <2>1, <2>2, <2>3, <2>4, Names
<1>7. CASE /\ value[s] = 0 /\ UNCHANGED value
           /\ wait' = [wait EXCEPT ![current] = [at |-> "sched", sem |-> s, flags |-> "INTERRUPTED"]]
           /\ state' = [state EXCEPT ![current] = "SLEEPING"]
           /\ wait_state' = [wait_state EXCEPT ![current] = "KSEM"]
  <2>1. \A p \in Procs : wait'[p] = IF p = current THEN [at |-> "sched", sem |-> s, flags |-> "INTERRUPTED"]
                                                   ELSE wait[p]
    BY <1>2, <1>7
  <2>2. \A i \in Procs : i # current => SameWait(i)
    BY <2>1 DEF SameWait, InDown, Unpicked, SemOf
  <2>3. \A i \in Phils : i = current => InDown(i)' /\ Unpicked(i)' /\ SemOf(i)' = s
    BY <1>1, <2>1 DEF InDown, Unpicked, SemOf
  <2>4. \A p \in Procs : wait_state'[p] = "TIMER" => state'[p] = "SLEEPING"
    BY <1>1, <1>2, <1>7 DEF ThreadInv
  <2>5. ThreadInv'
    <3>1. InDown(current)'
      BY <1>1, <2>1 DEF InDown
    <3> QED BY <1>3, <2>2, <2>4, <3>1, Names DEF ThreadInv, SameWait
  <2> QED BY <1>4, <1>5, <1>7, <2>2, <2>3, <2>5, Names
<1> QED BY <1>1, <1>6, <1>7, DownFacts

\* up(s), and the next point l.
LEMMA UpStep ==
    ASSUME SemInv, PhilTypeOK, ThreadInv, current \in Phils, ~InDown(current), state[current] = "RUNNABLE",
           NEW s \in Sems, Up(s), NEW l, Goto(l),
           UNCHANGED <<need_resched, current>>
    PROVE  /\ SemInv' /\ ThreadInv' /\ value' \in [Sems -> Nat]
           /\ \A r \in Sems : r # s => value'[r] = value[r]
           /\ \A i \in Phils : (InDown(i)' <=> InDown(i)) /\ SemOf(i)' = SemOf(i)
           /\ \/ /\ \A i \in Phils : ~(Unpicked(i) /\ SemOf(i) = s)
                 /\ value'[s] = value[s] + 1
                 /\ \A i \in Phils : Unpicked(i)' <=> Unpicked(i)
              \/ /\ value[s] = 0 /\ value'[s] = 0
                 /\ \E j \in Phils : /\ Unpicked(j) /\ SemOf(j) = s
                                     /\ \A i \in Phils : Unpicked(i)' <=> Unpicked(i) /\ i # j
<1>1. current # Idle /\ current \in Procs
  BY Names
<1>2. /\ value \in [Sems -> Nat] /\ wait \in [Procs -> Waits] /\ state \in [Procs -> States]
      /\ wait_state \in [Procs -> WaitStates] /\ ~InDown(Idle)
  BY DEF SemInv, SemTypeOK, SchedTypeOK, WaitExact
<1>3. /\ pc'[current] = l /\ \A i \in Phils : i # current => pc'[i] = pc[i]
  BY GotoFacts
<1>4. SemInv'
  BY UpFacts
<1>5. value' \in [Sems -> Nat]
  BY <1>4 DEF SemInv, SemTypeOK
<1>6. CASE /\ \A p \in Procs : ~WaitsFor(p, s)
           /\ value' = [value EXCEPT ![s] = @ + 1]
           /\ UNCHANGED <<state, wait_state, wait>>
  <2>1. \A i \in Procs : SameWait(i)
    BY <1>6, SameWaits
  <2>2. ThreadInv'
    BY <1>1, <1>3, <1>6, <2>1, Names DEF ThreadInv, SameWait
  <2>3. \A i \in Phils : ~(Unpicked(i) /\ SemOf(i) = s)
    BY <1>6, Names DEF WaitsFor, Unpicked, SemOf
  <2>4. value'[s] = value[s] + 1 /\ \A r \in Sems : r # s => value'[r] = value[r]
    BY <1>2, <1>6
  <2> QED BY <1>4, <1>5, <2>1, <2>2, <2>3, <2>4, Names DEF SameWait
<1>7. ASSUME value[s] = 0, UNCHANGED value,
             NEW p \in Procs, WaitsFor(p, s),
             wait' = [wait EXCEPT ![p].flags = "KSEM"],
             state' = [state EXCEPT ![p] = "RUNNABLE"],
             \A q \in Procs : wait_state'[q] = IF q = p THEN "NONE" ELSE wait_state[q]
      PROVE  /\ ThreadInv' /\ p \in Phils /\ Unpicked(p) /\ SemOf(p) = s
             /\ \A i \in Phils : /\ (InDown(i)' <=> InDown(i)) /\ SemOf(i)' = SemOf(i)
                                 /\ Unpicked(i)' <=> Unpicked(i) /\ i # p
  <2>1. InDown(p) /\ wait[p].sem = s /\ wait[p].flags = "INTERRUPTED" /\ p \in Phils
    BY <1>2, <1>7, Names DEF WaitsFor
  <2>2. wait[p] \in Waits /\ wait'[p] = [wait[p] EXCEPT !.flags = "KSEM"]
        /\ \A q \in Procs : q # p => wait'[q] = wait[q]
    BY <1>2, <1>7
  <2>3. wait'[p].at = wait[p].at /\ wait'[p].sem = wait[p].sem /\ wait'[p].flags = "KSEM"
    BY <2>2 DEF Waits
  <2>4. \A i \in Phils : /\ (InDown(i)' <=> InDown(i)) /\ SemOf(i)' = SemOf(i)
                         /\ Unpicked(i)' <=> Unpicked(i) /\ i # p
    BY <2>2, <2>3, Names DEF InDown, SemOf, Unpicked
  <2>5. \A q \in Procs : state'[q] = IF q = p THEN "RUNNABLE" ELSE state[q]
    BY <1>2, <1>7
  <2>6. ThreadInv'
    <3>1. \A q \in Procs : wait_state'[q] = "TIMER" => state'[q] = "SLEEPING"
      BY <1>7, <2>5 DEF ThreadInv
    <3>2. state'[current] = "RUNNABLE"
      BY <1>1, <2>5
    <3>3. \A i \in Phils : i # current => InDown(i)' \/ pc'[i] \in {"loop", "take", "put", "dead"}
      BY <1>3, <2>4 DEF ThreadInv
    <3> QED BY <3>1, <3>2, <3>3 DEF ThreadInv
  <2>7. Unpicked(p) /\ SemOf(p) = s
    BY <2>1 DEF Unpicked, SemOf
  <2> QED BY <2>1, <2>4, <2>6, <2>7
<1>8. CASE \E p \in Procs :
             /\ WaitsFor(p, s)
             /\ wait' = [wait EXCEPT ![p].flags = "KSEM"]
             /\ state' = [state EXCEPT ![p] = "RUNNABLE"]
             /\ \A q \in Procs : wait_state'[q] = IF q = p THEN "NONE" ELSE wait_state[q]
             /\ value[s] = 0 /\ UNCHANGED value
  <2>1. PICK p \in Procs :
             /\ WaitsFor(p, s)
             /\ wait' = [wait EXCEPT ![p].flags = "KSEM"]
             /\ state' = [state EXCEPT ![p] = "RUNNABLE"]
             /\ \A q \in Procs : wait_state'[q] = IF q = p THEN "NONE" ELSE wait_state[q]
             /\ value[s] = 0 /\ UNCHANGED value
    BY <1>8
  <2>2. /\ ThreadInv' /\ p \in Phils /\ Unpicked(p) /\ SemOf(p) = s
        /\ \A i \in Phils : /\ (InDown(i)' <=> InDown(i)) /\ SemOf(i)' = SemOf(i)
                            /\ Unpicked(i)' <=> Unpicked(i) /\ i # p
    BY <1>7, <2>1
  <2> QED BY <1>4, <1>5, <2>1, <2>2
<1>9. \/ /\ \A p \in Procs : ~WaitsFor(p, s)
         /\ value' = [value EXCEPT ![s] = @ + 1]
         /\ UNCHANGED <<state, wait_state, wait>>
      \/ \E p \in Procs :
             /\ WaitsFor(p, s)
             /\ wait' = [wait EXCEPT ![p].flags = "KSEM"]
             /\ state' = [state EXCEPT ![p] = "RUNNABLE"]
             /\ \A q \in Procs : wait_state'[q] = IF q = p THEN "NONE" ELSE wait_state[q]
             /\ value[s] = 0 /\ UNCHANGED value
  BY UpFacts
<1> QED BY <1>6, <1>8, <1>9

\* A step of the thread that changes no semaphore and stays runnable.
LEMMA LocalStep ==
    ASSUME SemInv, PhilTypeOK, ThreadInv, current \in Phils, state[current] = "RUNNABLE",
           UNCHANGED <<schedVars, semVars>>, NEW l, Goto(l)
    PROVE  SemInv' /\ ThreadInv' /\ \A i \in Phils : SameWait(i)
<1>1. /\ pc'[current] = l /\ \A i \in Phils : i # current => pc'[i] = pc[i]
  BY GotoFacts
<1>2. SemInv'
  BY OthersKeep
<1>3. UNCHANGED <<state, wait_state, current, wait>>
  BY DEF schedVars, semVars
<1>4. \A i \in Phils : SameWait(i)
  BY <1>3, SameWaits, Names
<1> QED BY <1>1, <1>2, <1>3, <1>4 DEF ThreadInv, SameWait

\* The points of a thread outside its forks' routines, and their successors.
Moves == {<<"loop", "nap_think">>, <<"eat", "nap_eat">>, <<"nap_think", "take">>,
          <<"nap_eat", "put">>, <<"loop", "quit">>, <<"quit", "dead">>}

LEMMA SleepFacts ==
    ASSUME SemInv, ThreadInv, current \in Phils, ~InDown(current), state[current] = "RUNNABLE",
           NEW l \in {"nap_think", "nap_eat", "quit"}, pc'[current] = l,
           \A i \in Phils : i # current => pc'[i] = pc[i],
           NEW st \in {"SLEEPING", "ZOMBIE"}, NEW ws \in WaitStates,
           ws = "TIMER" => st = "SLEEPING",
           state' = [state EXCEPT ![current] = st],
           wait_state' = [wait_state EXCEPT ![current] = ws],
           UNCHANGED <<time_slice, need_resched, run_list, current, panic, semVars>>
    PROVE  SemInv' /\ ThreadInv'
<1>1. current # Idle /\ current \in Procs
  BY Names
<1>2. SemInv'
  BY <1>1, OwnStateKeeps DEF States
<1>3. \A i \in Phils : SameWait(i)
  BY SameWaits, Names DEF semVars
<1>4. \A p \in Procs : wait_state'[p] = "TIMER" => state'[p] = "SLEEPING"
  BY <1>1 DEF ThreadInv, SemInv, SchedTypeOK
<1> QED BY <1>2, <1>3, <1>4 DEF ThreadInv, SameWait

LEMMA ScheduleStep ==
    ASSUME SemInv, ThreadInv, ~InDown(current), Schedule, UNCHANGED semVars,
           \A i \in Phils : pc'[i] = pc[i] \/ (i = current /\ pc'[i] \in {"take", "put", "dead"}),
           current \in Phils => pc'[current] \in {"take", "put", "dead"}
    PROVE  SemInv' /\ ThreadInv'
<1>1. SemInv' /\ UNCHANGED <<state, wait_state, panic>> /\ state[current'] = "RUNNABLE"
  BY ScheduleKeeps
<1>2. \A i \in Phils : SameWait(i)
  BY SameWaits, Names DEF semVars
<1>3. \A i \in Phils : i # current' => InDown(i)' \/ pc'[i] \in {"loop", "take", "put", "dead"}
  <2> TAKE i \in Phils
  <2>1. CASE i = current
    BY <2>1
  <2>2. CASE i # current
    BY <1>2, <2>2 DEF ThreadInv, SameWait
  <2> QED BY <2>1, <2>2
<1> QED BY <1>1, <1>2, <1>3 DEF ThreadInv

\* do_sleep, do_exit, and their calls of schedule().
LEMMA ThreadMoves ==
    ASSUME SemInv, PhilTypeOK, ThreadInv, Think \/ Eat \/ Nap \/ Quit \/ QuitSched
    PROVE  /\ SemInv' /\ ThreadInv'
           /\ current \in Phils /\ ~InDown(current) /\ \A i \in Phils : SameWait(i)
           /\ UNCHANGED <<phil, value>>
           /\ OverPhils(pc)' /\ \A i \in Phils : i # current => pc'[i] = pc[i]
           /\ <<pc[current], pc'[current]>> \in Moves
<1>0. wait_state \in [Procs -> WaitStates] /\ state \in [Procs -> States]
  BY DEF SemInv, SchedTypeOK
<1>1. UNCHANGED <<phil, semVars>>
  BY DEF Think, Eat, Nap, Quit, QuitSched, DoSleep
<1>2. UNCHANGED value /\ \A i \in Phils : SameWait(i)
  BY <1>1, SameWaits, Names DEF semVars
<1>3. CASE Think \/ Eat
  <2>1. PICK l \in {"loop", "eat"}, m \in {"nap_think", "nap_eat"} :
            At(l) /\ DoSleep /\ Goto(m) /\ <<l, m>> \in Moves
    BY <1>3 DEF Think, Eat, Moves
  <2>2. /\ current \in Phils /\ pc[current] = l /\ ~InDown(current) /\ state[current] = "RUNNABLE"
    BY <2>1, AtFacts
  <2>3. /\ OverPhils(pc)'
        /\ pc'[current] = m /\ \A i \in Phils : i # current => pc'[i] = pc[i]
    BY <2>1, <2>2, GotoFacts
  <2>4. SemInv' /\ ThreadInv'
    BY <2>1, <2>2, <2>3, SleepFacts DEF DoSleep, WaitStates
  <2> QED BY <1>1, <1>2, <2>1, <2>2, <2>3, <2>4
<1>4. CASE Nap \/ QuitSched
  <2>1. PICK l \in {"nap_think", "nap_eat", "quit"}, m \in {"take", "put", "dead"} :
            At(l) /\ Schedule /\ Goto(m) /\ <<l, m>> \in Moves
    BY <1>4 DEF Nap, QuitSched, Moves
  <2>2. /\ current \in Phils /\ pc[current] = l /\ ~InDown(current)
    BY <2>1, AtFacts
  <2>3. /\ OverPhils(pc)'
        /\ pc'[current] = m /\ \A i \in Phils : i # current => pc'[i] = pc[i]
    BY <2>1, <2>2, GotoFacts
  <2>4. SemInv' /\ ThreadInv'
    BY <1>1, <2>1, <2>2, <2>3, ScheduleStep
  <2> QED BY <1>1, <1>2, <2>1, <2>2, <2>3, <2>4
<1>5. CASE Quit
  <2>1. /\ At("loop") /\ Goto("quit")
        /\ state' = [state EXCEPT ![current] = "ZOMBIE"]
        /\ UNCHANGED <<wait_state, time_slice, need_resched, run_list, current, panic, semVars>>
    BY <1>5 DEF Quit
  <2>2. /\ current \in Phils /\ pc[current] = "loop" /\ ~InDown(current) /\ state[current] = "RUNNABLE"
    BY <2>1, AtFacts
  <2>3. /\ OverPhils(pc)'
        /\ pc'[current] = "quit" /\ \A i \in Phils : i # current => pc'[i] = pc[i]
    BY <2>1, <2>2, GotoFacts
  <2>4. PICK ws \in WaitStates : ws = wait_state[current]
    BY <1>0, <2>2, Names
  <2>5. ws # "TIMER" /\ wait_state' = [wait_state EXCEPT ![current] = ws]
    BY <1>0, <2>1, <2>2, <2>4, Names DEF ThreadInv
  <2>6. SemInv' /\ ThreadInv'
    BY <2>1, <2>2, <2>3, <2>5, SleepFacts
  <2> QED BY <1>1, <1>2, <2>2, <2>3, <2>6 DEF Moves
<1> QED BY <1>3, <1>4, <1>5

\* Steps after which every philosopher is where it was.
LEMMA QuietMoves ==
    ASSUME SemInv, PhilTypeOK, ThreadInv,
           \/ DownSched /\ UNCHANGED philVars
           \/ Tick \/ CpuIdle \/ \E p \in Phils : TimerExpires(p)
           \/ UNCHANGED <<schedVars, semVars, philVars>>
    PROVE  /\ SemInv' /\ ThreadInv' /\ \A i \in Phils : SameWait(i)
           /\ UNCHANGED <<phil, value, pc>>
<1>0. wait_state \in [Procs -> WaitStates] /\ state \in [Procs -> States] /\ current \in Procs
  BY DEF SemInv, SchedTypeOK
<1>1. CASE DownSched /\ UNCHANGED philVars
  <2>1. /\ SemInv' /\ UNCHANGED <<state, wait_state, value>>
        /\ wait[current].at = "sched" /\ state[current'] = "RUNNABLE"
        /\ \A p \in Procs : /\ wait'[p].sem = wait[p].sem
                            /\ wait'[p].flags = wait[p].flags
                            /\ wait'[p].at = IF p = current THEN "wake" ELSE wait[p].at
    BY <1>1, DownSchedFacts
  <2>2. \A i \in Phils : SameWait(i)
    BY <2>1, Names DEF SameWait, InDown, Unpicked, SemOf
  <2>3. InDown(current)
    BY <2>1 DEF InDown
  <2>4. UNCHANGED <<phil, pc>>
    BY <1>1 DEF philVars
  <2>5. \A i \in Phils : i # current' => InDown(i)' \/ pc'[i] \in {"loop", "take", "put", "dead"}
    <3> TAKE i \in Phils
    <3>1. CASE i = current
      BY <2>2, <2>3, <3>1 DEF SameWait
    <3>2. CASE i # current
      BY <2>2, <2>4, <3>2 DEF ThreadInv, SameWait
    <3> QED BY <3>1, <3>2
  <2> QED BY <2>1, <2>2, <2>4, <2>5 DEF ThreadInv
<1>2. CASE Tick
  <2>1. /\ ProcTick(current) /\ UNCHANGED philVars
        /\ UNCHANGED <<state, wait_state, run_list, current, panic, semVars>>
    BY <1>2 DEF Tick
  <2>2. SemInv'
    BY <2>1, TickKeeps
  <2>3. UNCHANGED <<phil, value, pc>> /\ \A i \in Phils : SameWait(i)
    BY <2>1, SameWaits, Names DEF philVars, semVars
  <2>4. InDown(current)' <=> InDown(current)
    BY <2>1 DEF InDown, semVars
  <2> QED BY <2>1, <2>2, <2>3, <2>4 DEF ThreadInv, SameWait
<1>3. CASE CpuIdle
  <2>1. /\ current = Idle /\ Schedule /\ UNCHANGED <<semVars, philVars>>
    BY <1>3 DEF CpuIdle
  <2>2. UNCHANGED <<phil, value, pc>> /\ \A i \in Phils : SameWait(i)
    BY <2>1, SameWaits, Names DEF philVars, semVars
  <2>3. ~InDown(current) /\ current \notin Phils
    BY <2>1, Names DEF SemInv, WaitExact
  <2> QED BY <2>1, <2>2, <2>3, ScheduleStep
<1>4. ASSUME NEW p \in Phils, TimerExpires(p)
      PROVE  /\ SemInv' /\ ThreadInv' /\ \A i \in Phils : SameWait(i)
             /\ UNCHANGED <<phil, value, pc>>
  <2>1. /\ wait_state[p] = "TIMER" /\ WakeupProc(p) /\ UNCHANGED <<need_resched, current, semVars>>
        /\ UNCHANGED philVars /\ p \in Procs
    BY <1>4, Names DEF TimerExpires
  <2>2. state[p] = "SLEEPING"
    BY <2>1 DEF ThreadInv
  <2>3. /\ SemInv' /\ state' = [state EXCEPT ![p] = "RUNNABLE"]
        /\ \A q \in Procs : q # p => wait_state'[q] = wait_state[q]
        /\ wait_state'[p] = "NONE"
    BY <2>1, <2>2, WakeupKeeps
  <2>4. UNCHANGED <<phil, value, pc>> /\ \A i \in Procs : SameWait(i)
    BY <2>1, SameWaits DEF philVars, semVars
  <2>5. \A q \in Procs : state'[q] = IF q = p THEN "RUNNABLE" ELSE state[q]
    BY <1>0, <2>3
  <2>6. ThreadInv'
    <3>1. \A q \in Procs : wait_state'[q] = "TIMER" => state'[q] = "SLEEPING"
      BY <2>3, <2>5 DEF ThreadInv
    <3>2. current # Idle => \/ state'[current] = "RUNNABLE" \/ InDown(current)'
                            \/ pc'[current] \in {"nap_think", "nap_eat", "quit"}
      <4>1. InDown(current)' <=> InDown(current)
        BY <2>1 DEF InDown, semVars
      <4> QED BY <1>0, <2>4, <2>5, <4>1 DEF ThreadInv
    <3>3. \A i \in Phils : i # current => InDown(i)' \/ pc'[i] \in {"loop", "take", "put", "dead"}
      BY <2>4, Names DEF ThreadInv, SameWait
    <3> QED BY <2>1, <3>1, <3>2, <3>3 DEF ThreadInv
  <2> QED BY <2>3, <2>4, <2>6, Names
<1>5. CASE UNCHANGED <<schedVars, semVars, philVars>>
  <2>1. SemInv'
    BY <1>5, OthersKeep
  <2>2. UNCHANGED <<state, wait_state, current, phil, value, pc, wait>>
    BY <1>5 DEF schedVars, semVars, philVars
  <2>3. \A i \in Phils : SameWait(i)
    BY <2>2, SameWaits, Names
  <2>4. InDown(current)' <=> InDown(current)
    BY <2>2 DEF InDown
  <2> QED BY <2>1, <2>2, <2>3, <2>4 DEF ThreadInv, SameWait
<1> QED BY <1>1, <1>2, <1>3, <1>4, <1>5

\* A down() returns.
LEMMA WakeMoves ==
    ASSUME SemInv, PhilTypeOK, ThreadInv, DownWake, UNCHANGED philVars
    PROVE  /\ SemInv' /\ ThreadInv' /\ UNCHANGED <<phil, value, pc>>
           /\ current \in Phils /\ \A i \in Phils : i # current => SameWait(i)
           /\ \A i \in Phils : i = current => InDown(i) /\ ~Unpicked(i) /\ ~InDown(i)' /\ ~Unpicked(i)'
<1>1. /\ SemInv' /\ Granted(current, wait[current].sem)
      /\ wait' = [wait EXCEPT ![current] = NoWait]
      /\ UNCHANGED <<state, wait_state, current, value>>
  BY DownWakeFacts
<1>2. /\ UNCHANGED <<phil, pc>> /\ current \in Procs /\ wait \in [Procs -> Waits]
      /\ wait[current].at = "wake"
  BY DEF philVars, SemInv, SchedTypeOK, SemTypeOK, DownWake
<1>3. \A p \in Procs : wait'[p] = IF p = current THEN NoWait ELSE wait[p]
  BY <1>1, <1>2
<1>4. \A i \in Phils : i # current => SameWait(i)
  BY <1>3, Names DEF SameWait, InDown, Unpicked, SemOf
<1>5. InDown(current) /\ ~Unpicked(current) /\ ~InDown(current)' /\ ~Unpicked(current)'
  BY <1>1, <1>2, <1>3 DEF InDown, Unpicked, Granted, NoWait
<1>6. current \in Phils
  BY <1>2, <1>5, Names DEF SemInv, WaitExact
<1>7. state[current] = "RUNNABLE"
  BY <1>2 DEF SemInv, WaitExact
<1>8. ThreadInv'
  BY <1>1, <1>2, <1>4, <1>7 DEF ThreadInv, SameWait
<1>9. ASSUME NEW i \in Phils, i = current
      PROVE  InDown(i) /\ ~Unpicked(i) /\ ~InDown(i)' /\ ~Unpicked(i)'
  BY <1>1, <1>5, <1>9 DEF InDown, Unpicked
<1> QED BY <1>1, <1>2, <1>4, <1>6, <1>8, <1>9

-----------------------------------------------------------------------------
(* The table of states.                                                     *)

\* What phi_test does to a table in which no neighbours eat.
LEMMA TableKeeps ==
    ASSUME NEW table \in [Phils -> {"THINKING", "HUNGRY", "EATING"}],
           \A j \in Phils : ~(table[j] = "EATING" /\ table[RIGHT(j)] = "EATING"),
           NEW i \in Phils, table[LEFT(i)] # "EATING", table[RIGHT(i)] # "EATING",
           NEW new, new = [table EXCEPT ![i] = "EATING"]
    PROVE  /\ new \in [Phils -> {"THINKING", "HUNGRY", "EATING"}]
           /\ \A j \in Phils : ~(new[j] = "EATING" /\ new[RIGHT(j)] = "EATING")
<1>1. new \in [Phils -> {"THINKING", "HUNGRY", "EATING"}]
      /\ \A j \in Phils : new[j] = IF j = i THEN "EATING" ELSE table[j]
  OBVIOUS
<1>2. ASSUME NEW j \in Phils, new[j] = "EATING", new[RIGHT(j)] = "EATING"
      PROVE  FALSE
  <2>1. RIGHT(j) \in Phils /\ RIGHT(j) # j /\ (RIGHT(j) = i => j = LEFT(i))
    BY NeighbourFacts
  <2> QED BY <1>1, <1>2, <2>1
<1> QED BY <1>1, <1>2

-----------------------------------------------------------------------------
(* With semaphores.                                                         *)

\* What the proofs about one solution assume of a state.
Core == SemInv /\ PhilTypeOK /\ ThreadInv /\ TableInv

LEMMA SemaMoves ==
    ASSUME Core, SemaInv, UNCHANGED <<monVars, back, solution>>,
           \/ Think \/ Eat \/ Nap \/ Quit \/ QuitSched \/ Blocked
           \/ Tick \/ CpuIdle \/ \E p \in Phils : TimerExpires(p)
           \/ UNCHANGED <<schedVars, semVars, philVars>>
    PROVE  Core' /\ SemaInv'
<1>0. SemInv /\ PhilTypeOK /\ ThreadInv /\ TableInv
  BY DEF Core
<1>1. CASE Think \/ Eat \/ Nap \/ Quit \/ QuitSched
  <2>1. /\ SemInv' /\ ThreadInv'
        /\ current \in Phils /\ ~InDown(current) /\ \A i \in Phils : SameWait(i)
        /\ UNCHANGED <<phil, value>>
        /\ OverPhils(pc)' /\ \A i \in Phils : i # current => pc'[i] = pc[i]
        /\ <<pc[current], pc'[current]>> \in Moves
    BY <1>0, <1>1, ThreadMoves
  <2>2. PhilTypeOK' /\ TableInv'
    BY <1>0, <2>1 DEF PhilTypeOK, TableInv, monVars
  <2>3. ASSUME NEW i \in Phils, i = current PROVE SemaAt(i)'
    BY <2>1, <2>3 DEF SemaInv, SemaAt, SameWait, Moves
  <2>4. ASSUME NEW i \in Phils, i # current PROVE SemaAt(i)'
    BY <2>1, <2>4 DEF SemaInv, SemaAt, SameWait
  <2> QED BY <2>1, <2>2, <2>3, <2>4 DEF Core, SemaInv
<1>2. CASE \/ DownSched /\ UNCHANGED philVars
           \/ Tick \/ CpuIdle \/ \E p \in Phils : TimerExpires(p)
           \/ UNCHANGED <<schedVars, semVars, philVars>>
  <2>1. /\ SemInv' /\ ThreadInv' /\ \A i \in Phils : SameWait(i)
        /\ UNCHANGED <<phil, value, pc>>
    BY <1>0, <1>2, QuietMoves
  <2>2. PhilTypeOK' /\ TableInv'
    BY <1>0, <2>1 DEF PhilTypeOK, TableInv, monVars, OverPhils
  <2>3. SemaInv'
    BY <2>1 DEF SemaInv, SemaAt, SameWait
  <2> QED BY <2>1, <2>2, <2>3 DEF Core
<1>3. CASE DownWake /\ UNCHANGED philVars
  <2>1. /\ SemInv' /\ ThreadInv' /\ UNCHANGED <<phil, value, pc>>
        /\ current \in Phils /\ \A i \in Phils : i # current => SameWait(i)
        /\ \A i \in Phils : i = current => InDown(i) /\ ~Unpicked(i) /\ ~InDown(i)' /\ ~Unpicked(i)'
    BY <1>0, <1>3, WakeMoves
  <2>2. PhilTypeOK' /\ TableInv'
    BY <1>0, <2>1 DEF PhilTypeOK, TableInv, monVars, OverPhils
  <2>3. ASSUME NEW i \in Phils, i = current PROVE SemaAt(i)'
    BY <2>1, <2>3 DEF SemaInv, SemaAt
  <2>4. ASSUME NEW i \in Phils, i # current PROVE SemaAt(i)'
    BY <2>1, <2>4 DEF SemaInv, SemaAt, SameWait
  <2> QED BY <2>1, <2>2, <2>3, <2>4 DEF Core, SemaInv
<1> QED BY <1>1, <1>2, <1>3 DEF Blocked

\* phi_test_sema(i) on a table in which only the current philosopher's entry is new.
LEMMA SemaTestFacts ==
    ASSUME Core, SemaInv, current \in Phils, ~InDown(current), state[current] = "RUNNABLE",
           NEW table \in [Phils -> {"THINKING", "HUNGRY", "EATING"}],
           \A j \in Phils : ~(table[j] = "EATING" /\ table[RIGHT(j)] = "EATING"),
           \A j \in Phils : j # current => table[j] = phil[j],
           NEW i \in Phils, PhiTestSema(i, table),
           NEW l, Goto(l), value[current] = 0,
           i = current /\ table[i] = "HUNGRY" => l = "take_up",
           UNCHANGED <<need_resched, current, iter, monVars, back, solution>>,
           /\ table[current] = "THINKING" => l \in {"test_right", "put_up"}
           /\ table[current] = "HUNGRY" => l = "take_up" /\ i = current
           /\ table[current] # "EATING"
    PROVE  Core' /\ SemaInv'
<1>0. SemInv /\ PhilTypeOK /\ ThreadInv /\ TableInv /\ value \in [Sems -> Nat]
  BY DEF Core, SemInv, SemTypeOK
<1>1. OverPhils(pc)' /\ pc'[current] = l /\ \A j \in Phils : j # current => pc'[j] = pc[j]
  BY <1>0, GotoFacts
<1>2. \A j \in Phils : SemaAt(j)
  BY DEF SemaInv
<1>3. CASE table[i] = "HUNGRY" /\ table[LEFT(i)] # "EATING" /\ table[RIGHT(i)] # "EATING"
  <2>1. phil' = [table EXCEPT ![i] = "EATING"] /\ Up(i) /\ i \in Sems
    BY <1>3, Names DEF PhiTestSema
  <2>2. /\ phil' \in [Phils -> {"THINKING", "HUNGRY", "EATING"}]
        /\ \A j \in Phils : ~(phil'[j] = "EATING" /\ phil'[RIGHT(j)] = "EATING")
    BY <1>3, <2>1, TableKeeps
  <2>3. \A j \in Phils : phil'[j] = IF j = i THEN "EATING" ELSE table[j]
    BY <2>1
  <2>4. /\ SemInv' /\ ThreadInv' /\ value' \in [Sems -> Nat]
        /\ \A r \in Sems : r # i => value'[r] = value[r]
        /\ \A j \in Phils : (InDown(j)' <=> InDown(j)) /\ SemOf(j)' = SemOf(j)
        /\ \/ /\ \A j \in Phils : ~(Unpicked(j) /\ SemOf(j) = i)
              /\ value'[i] = value[i] + 1
              /\ \A j \in Phils : Unpicked(j)' <=> Unpicked(j)
           \/ /\ value[i] = 0 /\ value'[i] = 0
              /\ \E k \in Phils : /\ Unpicked(k) /\ SemOf(k) = i
                                  /\ \A j \in Phils : Unpicked(j)' <=> Unpicked(j) /\ j # k
    BY <1>0, <2>1, UpStep
  <2>5. PhilTypeOK' /\ TableInv'
    BY <1>0, <1>1, <2>2 DEF PhilTypeOK, TableInv, monVars, OverPhils
  <2>6. \A k \in Phils : Unpicked(k) /\ SemOf(k) = i => k = i /\ pc[k] = "eat" /\ InDown(k)
    BY <1>2, Names DEF SemaAt, Unpicked
  <2>7. value[i] = 0
    <3>1. CASE i = current
      BY <3>1
    <3>2. CASE i # current
      BY <1>2, <1>3, <3>2 DEF SemaAt
    <3> QED BY <3>1, <3>2
  <2>8. ASSUME NEW j \in Phils, j # i PROVE SemaAt(j)'
    <3>1. /\ InDown(j)' <=> InDown(j)
          /\ SemOf(j)' = SemOf(j) /\ (Unpicked(j)' <=> Unpicked(j)) /\ value'[j] = value[j]
      BY <2>4, <2>6, <2>8, Names
    <3>2. CASE j = current
      <4>1. phil'[j] = "THINKING" /\ pc'[j] \in {"test_right", "put_up"} /\ ~InDown(j)
        BY <1>1, <2>3, <2>8, <3>2
      <4> QED BY <3>1, <3>2, <4>1 DEF SemaAt
    <3>3. CASE j # current
      <4>1. phil'[j] = phil[j] /\ pc'[j] = pc[j] /\ SemaAt(j)
        BY <1>1, <1>2, <2>3, <2>8, <3>3
      <4> QED BY <3>1, <4>1 DEF SemaAt
    <3> QED BY <3>2, <3>3
  <2>9. SemaAt(i)'
    <3>1. phil'[i] = "EATING"
      BY <2>3
    <3>2. CASE i = current
      <4>1. pc'[i] = "take_up" /\ ~InDown(i) /\ ~InDown(i)'
        BY <1>1, <1>3, <2>4, <3>2
      <4>2. ~Unpicked(i)
        BY <4>1 DEF Unpicked
      <4>3. value'[i] = 1
        BY <2>4, <2>6, <2>7, <4>2
      <4> QED BY <3>1, <4>1, <4>3 DEF SemaAt
    <3>3. CASE i # current
      <4>1. /\ phil[i] = "HUNGRY" /\ SemaAt(i) /\ pc'[i] = pc[i]
            /\ InDown(i)' <=> InDown(i)
            /\ SemOf(i)' = SemOf(i)
        BY <1>1, <1>2, <1>3, <2>4, <3>3
      <4>2. CASE pc[i] = "eat" /\ InDown(i)
        <5>1. Unpicked(i) /\ SemOf(i) = i
          BY <4>1, <4>2 DEF SemaAt
        <5>2. value'[i] = 0 /\ ~Unpicked(i)'
          BY <2>4, <2>6, <5>1
        <5> QED BY <3>1, <4>1, <4>2, <5>2 DEF SemaAt
      <4>3. CASE pc[i] \in {"take_up", "take_down"}
        <5>1. ~InDown(i)
          BY <4>1, <4>3 DEF SemaAt
        <5>2. value'[i] = 1
          BY <2>4, <2>6, <2>7, <5>1
        <5> QED BY <3>1, <4>1, <4>3, <5>1, <5>2 DEF SemaAt
      <4> QED BY <4>1, <4>2, <4>3 DEF SemaAt
    <3> QED BY <3>2, <3>3
  <2> QED BY <2>4, <2>5, <2>8, <2>9 DEF Core, SemaInv
<1>4. CASE ~(table[i] = "HUNGRY" /\ table[LEFT(i)] # "EATING" /\ table[RIGHT(i)] # "EATING")
  <2>1. phil' = table /\ UNCHANGED <<schedVars, semVars>>
    BY <1>4 DEF PhiTestSema, schedVars
  <2>2. SemInv' /\ ThreadInv' /\ \A j \in Phils : SameWait(j)
    BY <1>0, <2>1, LocalStep
  <2>3. PhilTypeOK' /\ TableInv' /\ UNCHANGED value
    BY <1>0, <1>1, <2>1 DEF PhilTypeOK, TableInv, monVars, OverPhils, semVars
  <2>4. ASSUME NEW j \in Phils, j # current PROVE SemaAt(j)'
    BY <1>1, <1>2, <2>1, <2>2, <2>3, <2>4 DEF SemaAt, SameWait
  <2>5. SemaAt(current)'
    <3>1. ~InDown(current)' /\ value'[current] = 0
      BY <2>2, <2>3 DEF SameWait
    <3>2. \/ phil'[current] = "THINKING" /\ pc'[current] \in {"test_right", "put_up"}
          \/ phil'[current] = "HUNGRY" /\ pc'[current] = "take_up"
      BY <1>1, <2>1
    <3> QED BY <3>1, <3>2 DEF SemaAt
  <2> QED BY <2>2, <2>3, <2>4, <2>5 DEF Core, SemaInv
<1> QED BY <1>3, <1>4

LEMMA SemaTakeKeeps ==
    ASSUME Core, SemaInv, SemaTake, UNCHANGED <<monVars, back, solution>>
    PROVE  Core' /\ SemaInv'
<1>0. SemInv /\ PhilTypeOK /\ ThreadInv /\ TableInv /\ Mutex \in Sems
  BY Names DEF Core
<1>1. PICK l \in {"take", "put"}, m \in {"hungry", "thinking"} :
          At(l) /\ Goto(m) /\ (l = "take" <=> m = "hungry")
  BY DEF SemaTake, At
<1>2. /\ Down(Mutex) /\ UNCHANGED <<time_slice, need_resched, run_list, current, panic, phil>>
  BY DEF SemaTake
<1>3. /\ current \in Phils /\ pc[current] = l /\ ~InDown(current) /\ state[current] = "RUNNABLE"
  BY <1>0, <1>1, AtFacts
<1>4. OverPhils(pc)' /\ pc'[current] = m /\ \A j \in Phils : j # current => pc'[j] = pc[j]
  BY <1>0, <1>1, <1>3, GotoFacts
<1>5. /\ SemInv' /\ ThreadInv' /\ value' \in [Sems -> Nat]
      /\ \A i \in Phils : i # current => SameWait(i)
      /\ \A r \in Sems : r # Mutex => value'[r] = value[r]
      /\ \/ \A i \in Phils : i = current => ~InDown(i)' /\ ~Unpicked(i)'
         \/ \A i \in Phils : i = current => InDown(i)' /\ Unpicked(i)' /\ SemOf(i)' = Mutex
  BY <1>0, <1>1, <1>2, <1>3, DownStep
<1>6. PhilTypeOK' /\ TableInv'
  BY <1>0, <1>2, <1>4 DEF PhilTypeOK, TableInv, monVars, OverPhils
<1>7. ASSUME NEW i \in Phils PROVE SemaAt(i)'
  <2>1. SemaAt(i) /\ value'[i] = value[i] /\ phil'[i] = phil[i]
    BY <1>2, <1>5, Names DEF SemaInv
  <2>2. CASE i # current
    BY <1>4, <1>5, <2>1, <2>2 DEF SemaAt, SameWait
  <2>3. CASE i = current
    BY <1>1, <1>3, <1>4, <1>5, <2>1, <2>3 DEF SemaAt
  <2> QED BY <2>2, <2>3
<1> QED BY <1>5, <1>6, <1>7 DEF Core, SemaInv

LEMMA SemaLeaveKeeps ==
    ASSUME Core, SemaInv, SemaLeave, UNCHANGED <<monVars, back, solution>>
    PROVE  Core' /\ SemaInv'
<1>0. SemInv /\ PhilTypeOK /\ ThreadInv /\ TableInv /\ Mutex \in Sems
  BY Names DEF Core
<1>1. PICK l \in {"take_up", "put_up"}, m \in {"take_down", "loop"} :
          At(l) /\ Goto(m) /\ (l = "take_up" <=> m = "take_down")
  BY DEF SemaLeave
<1>2. /\ Up(Mutex) /\ UNCHANGED <<need_resched, current, phil>>
  BY DEF SemaLeave
<1>3. /\ current \in Phils /\ pc[current] = l /\ ~InDown(current) /\ state[current] = "RUNNABLE"
  BY <1>0, <1>1, AtFacts
<1>4. OverPhils(pc)' /\ pc'[current] = m /\ \A j \in Phils : j # current => pc'[j] = pc[j]
  BY <1>0, <1>1, <1>3, GotoFacts
<1>5. /\ SemInv' /\ ThreadInv'
      /\ \A r \in Sems : r # Mutex => value'[r] = value[r]
      /\ \A i \in Phils : (InDown(i)' <=> InDown(i)) /\ SemOf(i)' = SemOf(i)
      /\ \A i \in Phils : (Unpicked(i)' <=> Unpicked(i)) \/ (InDown(i) /\ SemOf(i) = Mutex)
  <2>1. \A i \in Phils : Unpicked(i) => InDown(i)
    BY DEF Unpicked
  <2> QED BY <1>0, <1>1, <1>2, <1>3, <2>1, UpStep
<1>6. PhilTypeOK' /\ TableInv'
  BY <1>0, <1>2, <1>4 DEF PhilTypeOK, TableInv, monVars, OverPhils
<1>7. ASSUME NEW i \in Phils PROVE SemaAt(i)'
  <2>1. SemaAt(i) /\ value'[i] = value[i] /\ phil'[i] = phil[i] /\ i # Mutex
    BY <1>2, <1>5, Names DEF SemaInv
  <2>2. CASE i # current
    BY <1>4, <1>5, <2>1, <2>2 DEF SemaAt
  <2>3. CASE i = current
    BY <1>1, <1>3, <1>4, <1>5, <2>1, <2>3 DEF SemaAt
  <2> QED BY <2>2, <2>3
<1> QED BY <1>5, <1>6, <1>7 DEF Core, SemaInv

LEMMA SemaAwaitKeeps ==
    ASSUME Core, SemaInv, SemaAwait, UNCHANGED <<monVars, back, solution>>
    PROVE  Core' /\ SemaInv'
<1>0. SemInv /\ PhilTypeOK /\ ThreadInv /\ TableInv
  BY DEF Core
<1>1. /\ At("take_down") /\ Down(current) /\ Goto("eat")
      /\ UNCHANGED <<time_slice, need_resched, run_list, current, panic, phil>>
  BY DEF SemaAwait
<1>2. /\ current \in Phils /\ pc[current] = "take_down" /\ ~InDown(current) /\ state[current] = "RUNNABLE"
  BY <1>0, <1>1, AtFacts
<1>3. OverPhils(pc)' /\ pc'[current] = "eat" /\ \A j \in Phils : j # current => pc'[j] = pc[j]
  BY <1>0, <1>1, <1>2, GotoFacts
<1>c. PICK c \in Phils : c = current
  BY <1>2
<1>4. /\ SemInv' /\ ThreadInv'
      /\ \A i \in Phils : i # c => SameWait(i)
      /\ \A r \in Sems : r # c => value'[r] = value[r]
      /\ \/ value[c] > 0 /\ value'[c] = value[c] - 1 /\ ~InDown(c)' /\ ~Unpicked(c)'
         \/ value[c] = 0 /\ value'[c] = 0 /\ InDown(c)' /\ Unpicked(c)' /\ SemOf(c)' = c
  <2>1. Down(c) /\ c \in Sems
    BY <1>1, <1>c, Names
  <2> QED BY <1>0, <1>1, <1>2, <1>c, <2>1, DownStep
<1>5. PhilTypeOK' /\ TableInv'
  BY <1>0, <1>1, <1>3 DEF PhilTypeOK, TableInv, monVars, OverPhils
<1>6. ASSUME NEW i \in Phils PROVE SemaAt(i)'
  <2>1. SemaAt(i) /\ phil'[i] = phil[i]
    BY <1>1 DEF SemaInv
  <2>2. CASE i # c
    <3>1. value'[i] = value[i]
      BY <1>4, <2>2, Names
    <3> QED BY <1>3, <1>4, <1>c, <2>1, <2>2, <3>1 DEF SemaAt, SameWait
  <2>3. CASE i = c
    <3>1. phil[i] \in {"HUNGRY", "EATING"} /\ pc[i] = "take_down" /\ pc'[i] = "eat"
          /\ value[i] = IF phil[i] = "EATING" THEN 1 ELSE 0
      BY <1>0, <1>2, <1>3, <1>c, <2>1, <2>3 DEF SemaAt, PhilTypeOK
    <3>2. CASE phil[i] = "EATING"
      <4>1. value'[i] = 0 /\ ~InDown(i)'
        BY <1>4, <2>3, <3>1, <3>2
      <4> QED BY <2>1, <3>1, <3>2, <4>1 DEF SemaAt
    <3>3. CASE phil[i] = "HUNGRY"
      <4>1. value'[i] = 0 /\ InDown(i)' /\ Unpicked(i)' /\ SemOf(i)' = i
        BY <1>4, <2>3, <3>1, <3>3
      <4> QED BY <2>1, <3>1, <3>3, <4>1 DEF SemaAt
    <3> QED BY <3>1, <3>2, <3>3
  <2> QED BY <2>2, <2>3
<1> QED BY <1>4, <1>5, <1>6 DEF Core, SemaInv

\* Getting hungry and putting the forks back.
LEMMA SemaTestsKeep ==
    ASSUME Core, SemaInv, SemaHungry \/ SemaThinking \/ SemaTestRight,
           UNCHANGED <<monVars, back, solution>>
    PROVE  Core' /\ SemaInv'
<1>0. SemInv /\ PhilTypeOK /\ ThreadInv /\ TableInv
  BY DEF Core
<1>1. PICK l \in {"hungry", "thinking", "test_right"} :
          /\ At(l) /\ UNCHANGED <<need_resched, current, iter>>
          /\ \/ l = "hungry" /\ SemaHungry
             \/ l = "thinking" /\ SemaThinking
             \/ l = "test_right" /\ SemaTestRight
  BY DEF SemaHungry, SemaThinking, SemaTestRight
<1>2. /\ current \in Phils /\ pc[current] = l /\ ~InDown(current) /\ state[current] = "RUNNABLE"
  BY <1>0, <1>1, AtFacts
<1>3. SemaAt(current)
  BY <1>2 DEF SemaInv
<1>4. value[current] = 0
  BY <1>1, <1>2, <1>3 DEF SemaAt
<1>5. LEFT(current) \in Phils /\ LEFT(current) # current /\ RIGHT(current) \in Phils /\ RIGHT(current) # current
  BY <1>2, NeighbourFacts
<1>6. CASE l = "hungry"
  <2> DEFINE table == [phil EXCEPT ![current] = "HUNGRY"]
  <2>1. PhiTestSema(current, table) /\ Goto("take_up")
    BY <1>1, <1>6 DEF SemaHungry
  <2>2. /\ table \in [Phils -> {"THINKING", "HUNGRY", "EATING"}]
        /\ \A j \in Phils : table[j] = IF j = current THEN "HUNGRY" ELSE phil[j]
        /\ \A j \in Phils : ~(table[j] = "EATING" /\ table[RIGHT(j)] = "EATING")
    <3>1. /\ table \in [Phils -> {"THINKING", "HUNGRY", "EATING"}]
          /\ \A j \in Phils : table[j] = IF j = current THEN "HUNGRY" ELSE phil[j]
      BY <1>0, <1>2 DEF PhilTypeOK
    <3> HIDE DEF table
    <3> QED BY <1>0, <3>1, NeighbourFacts DEF TableInv
  <2> HIDE DEF table
  <2>3. PICK i \in Phils, t \in [Phils -> {"THINKING", "HUNGRY", "EATING"}] :
            i = current /\ t = table /\ PhiTestSema(i, t)
    BY <1>2, <2>1, <2>2
  <2> QED BY <1>1, <1>2, <1>4, <2>1, <2>2, <2>3, SemaTestFacts
<1>7. CASE l = "thinking"
  <2> DEFINE table == [phil EXCEPT ![current] = "THINKING"]
  <2>1. PhiTestSema(LEFT(current), table) /\ Goto("test_right")
    BY <1>1, <1>7 DEF SemaThinking
  <2>2. /\ table \in [Phils -> {"THINKING", "HUNGRY", "EATING"}]
        /\ \A j \in Phils : table[j] = IF j = current THEN "THINKING" ELSE phil[j]
        /\ \A j \in Phils : ~(table[j] = "EATING" /\ table[RIGHT(j)] = "EATING")
    <3>1. /\ table \in [Phils -> {"THINKING", "HUNGRY", "EATING"}]
          /\ \A j \in Phils : table[j] = IF j = current THEN "THINKING" ELSE phil[j]
      BY <1>0, <1>2 DEF PhilTypeOK
    <3> HIDE DEF table
    <3> QED BY <1>0, <3>1, NeighbourFacts DEF TableInv
  <2> HIDE DEF table
  <2>3. PICK i \in Phils, t \in [Phils -> {"THINKING", "HUNGRY", "EATING"}] :
            i = LEFT(current) /\ t = table /\ PhiTestSema(i, t)
    BY <1>5, <2>1, <2>2
  <2> QED BY <1>1, <1>2, <1>4, <1>5, <2>1, <2>2, <2>3, SemaTestFacts
<1>8. CASE l = "test_right"
  <2>1. PhiTestSema(RIGHT(current), phil) /\ Goto("put_up")
    BY <1>1, <1>8 DEF SemaTestRight
  <2>2. phil \in [Phils -> {"THINKING", "HUNGRY", "EATING"}] /\ phil[current] = "THINKING"
    <3>1. phil \in [Phils -> {"THINKING", "HUNGRY", "EATING"}]
      BY <1>0 DEF PhilTypeOK
    <3> QED BY <1>2, <1>3, <1>8, <3>1 DEF SemaAt
  <2>3. PICK i \in Phils, t \in [Phils -> {"THINKING", "HUNGRY", "EATING"}] :
            i = RIGHT(current) /\ t = phil /\ PhiTestSema(i, t)
    BY <1>5, <2>1, <2>2
  <2>4. \A j \in Phils : ~(t[j] = "EATING" /\ t[RIGHT(j)] = "EATING")
    BY <1>0, <2>3 DEF TableInv
  <2> QED BY <1>1, <1>2, <1>4, <1>5, <2>1, <2>2, <2>3, <2>4, SemaTestFacts
<1> QED BY <1>1, <1>6, <1>7, <1>8

-----------------------------------------------------------------------------
(* With the monitor.                                                        *)

LEMMA CondvarMoves ==
    ASSUME Core, CondvarInv, UNCHANGED <<monVars, back, solution>>,
           \/ Think \/ Eat \/ Nap \/ Quit \/ QuitSched \/ Blocked
           \/ Tick \/ CpuIdle \/ \E p \in Phils : TimerExpires(p)
           \/ UNCHANGED <<schedVars, semVars, philVars>>
    PROVE  Core' /\ CondvarInv'
<1>0. /\ SemInv /\ PhilTypeOK /\ ThreadInv /\ TableInv /\ UNCHANGED <<next_count, count, back>>
      /\ GateInv /\ \A i \in Phils : CondAt(i)
  BY DEF Core, CondvarInv, monVars
<1>1. CASE Think \/ Eat \/ Nap \/ Quit \/ QuitSched
  <2>1. /\ SemInv' /\ ThreadInv'
        /\ current \in Phils /\ ~InDown(current) /\ \A i \in Phils : SameWait(i)
        /\ UNCHANGED <<phil, value>>
        /\ OverPhils(pc)' /\ \A i \in Phils : i # current => pc'[i] = pc[i]
        /\ <<pc[current], pc'[current]>> \in Moves
    BY <1>0, <1>1, ThreadMoves
  <2>2. PhilTypeOK' /\ TableInv'
    BY <1>0, <2>1 DEF PhilTypeOK, TableInv
  <2>3. ASSUME NEW i \in Phils
        PROVE  /\ CondAt(i)'
               /\ (Inside(i)' <=> Inside(i)) /\ (Signals(i)' <=> Signals(i)) /\ (Pending(i)' <=> Pending(i))
               /\ Inside(i) => pc'[i] = pc[i]
    <3>1. CASE i = current
      BY <1>0, <2>1, <3>1 DEF CondAt, SameWait, Moves, Signals, Pending, Inside, CondvarLabels
    <3>2. CASE i # current
      BY <1>0, <2>1, <3>2 DEF CondAt, SameWait, Signals, Pending, Inside
    <3> QED BY <3>1, <3>2
  <2>4. GateInv'
    BY <1>0, <2>1, <2>3 DEF GateInv
  <2> QED BY <2>1, <2>2, <2>3, <2>4 DEF Core, CondvarInv
<1>2. CASE \/ DownSched /\ UNCHANGED philVars
           \/ Tick \/ CpuIdle \/ \E p \in Phils : TimerExpires(p)
           \/ UNCHANGED <<schedVars, semVars, philVars>>
  <2>1. /\ SemInv' /\ ThreadInv' /\ \A i \in Phils : SameWait(i)
        /\ UNCHANGED <<phil, value, pc>>
    BY <1>0, <1>2, QuietMoves
  <2>2. PhilTypeOK' /\ TableInv'
    BY <1>0, <2>1 DEF PhilTypeOK, TableInv, OverPhils
  <2>3. ASSUME NEW i \in Phils
        PROVE  /\ CondAt(i)'
               /\ (Inside(i)' <=> Inside(i)) /\ (Signals(i)' <=> Signals(i)) /\ (Pending(i)' <=> Pending(i))
    BY <1>0, <2>1 DEF CondAt, SameWait, Signals, Pending, Inside
  <2>4. GateInv'
    BY <1>0, <2>1, <2>3 DEF GateInv
  <2> QED BY <2>1, <2>2, <2>3, <2>4 DEF Core, CondvarInv
<1>3. CASE DownWake /\ UNCHANGED philVars
  <2>1. /\ SemInv' /\ ThreadInv' /\ UNCHANGED <<phil, value, pc>>
        /\ current \in Phils /\ \A i \in Phils : i # current => SameWait(i)
        /\ \A i \in Phils : i = current => InDown(i) /\ ~Unpicked(i) /\ ~InDown(i)' /\ ~Unpicked(i)'
    BY <1>0, <1>3, WakeMoves
  <2>2. PhilTypeOK' /\ TableInv'
    BY <1>0, <2>1 DEF PhilTypeOK, TableInv, OverPhils
  <2>3. ASSUME NEW i \in Phils
        PROVE  /\ CondAt(i)'
               /\ (Inside(i)' <=> Inside(i)) /\ (Signals(i)' <=> Signals(i)) /\ (Pending(i)' <=> Pending(i))
    <3>1. CASE i = current
      BY <1>0, <2>1, <3>1 DEF CondAt, Signals, Pending, Inside
    <3>2. CASE i # current
      BY <1>0, <2>1, <3>2 DEF CondAt, SameWait, Signals, Pending, Inside
    <3> QED BY <3>1, <3>2
  <2>4. GateInv'
    BY <1>0, <2>1, <2>3 DEF GateInv
  <2> QED BY <2>1, <2>2, <2>3, <2>4 DEF Core, CondvarInv
<1> QED BY <1>1, <1>2, <1>3 DEF Blocked

\* What the current philosopher may rely on in the monitor: nobody else is inside,
\* and if somebody waits to go on after a signal then it is the one signalled.
LEMMA InsideFacts ==
    ASSUME Core, CondvarInv, NEW c \in Phils, c = current, ~InDown(c),
           pc[c] \in CondvarLabels \ {"wait", "signal"}
    PROVE  /\ Inside(c) /\ value[Mutex] = 0 /\ \A i \in Phils : i # c => ~Inside(i)
           /\ \A i \in Phils : i # c /\ Signals(i) =>
                 /\ pc[i] = "signal_end" /\ Unpicked(i) /\ SemOf(i) = Next_
                 /\ pc[c] \in {"wait_end", "take_leave"}
           /\ pc[c] \notin {"wait_end", "take_leave", "signal_end"} =>
                 next_count = 0 /\ \A i \in Phils : ~Signals(i)
<1>0. GateInv /\ (\A i \in Phils : CondAt(i)) /\ ThreadInv
  BY DEF CondvarInv, Core
<1>1. Inside(c) /\ \A i \in Phils : i # c => ~Inside(i)
  BY <1>0 DEF GateInv, Inside, Unpicked
<1>2. value[Mutex] = 0
  BY <1>0, <1>1 DEF GateInv
<1>3. ASSUME NEW i \in Phils, i # c, Signals(i)
      PROVE  /\ pc[i] = "signal_end" /\ Unpicked(i) /\ SemOf(i) = Next_
             /\ pc[c] \in {"wait_end", "take_leave"}
  <2>0. InDown(i)
    BY <1>0, <1>3 DEF ThreadInv, Signals
  <2>1. pc[i] = "signal_end" /\ InDown(i)
    BY <1>0, <1>3, <2>0 DEF CondAt, Signals
  <2>2. SemOf(i) = Next_
    BY <1>0, <2>1 DEF CondAt
  <2>3. Unpicked(i)
    BY <1>1, <1>3, <2>1 DEF Inside, CondvarLabels
  <2>4. \E j \in Phils : Inside(j) /\ pc[j] \in {"wait_end", "take_leave"}
    BY <1>0, <2>1, <2>3 DEF GateInv, Pending
  <2> QED BY <1>1, <2>1, <2>2, <2>3, <2>4
<1>4. pc[c] \notin {"wait_end", "take_leave", "signal_end"} =>
         next_count = 0 /\ \A i \in Phils : ~Signals(i)
  BY <1>0, <1>3 DEF GateInv, Signals
<1> QED BY <1>1, <1>2, <1>3, <1>4

\* down(mutex) at the beginning of a routine.
LEMMA EnterKeeps ==
    ASSUME Core, CondvarInv, Enter, UNCHANGED solution
    PROVE  Core' /\ CondvarInv'
<1>0. /\ SemInv /\ PhilTypeOK /\ ThreadInv /\ TableInv /\ Mutex \in Sems
      /\ GateInv /\ \A i \in Phils : CondAt(i)
  BY Names DEF Core, CondvarInv
<1>1. PICK l \in {"take", "put"}, m \in {"hungry", "thinking"} :
          At(l) /\ Goto(m) /\ (l = "take" <=> m = "hungry")
  BY DEF Enter, At
<1>2. /\ Down(Mutex) /\ UNCHANGED <<time_slice, need_resched, run_list, current, panic, phil>>
      /\ UNCHANGED <<next_count, count, back>>
  BY DEF Enter, monVars
<1>3. /\ current \in Phils /\ pc[current] = l /\ ~InDown(current) /\ state[current] = "RUNNABLE"
      /\ ~Unpicked(current)
  BY <1>0, <1>1, AtFacts
<1>c. PICK c \in Phils : c = current
  BY <1>3
<1>4. OverPhils(pc)' /\ pc'[c] = m /\ \A j \in Phils : j # c => pc'[j] = pc[j]
  BY <1>0, <1>1, <1>3, <1>c, GotoFacts
<1>5. /\ SemInv' /\ ThreadInv'
      /\ \A i \in Phils : i # c => SameWait(i)
      /\ \A r \in Sems : r # Mutex => value'[r] = value[r]
      /\ \/ value[Mutex] > 0 /\ value'[Mutex] = value[Mutex] - 1 /\ ~InDown(c)' /\ ~Unpicked(c)'
         \/ value[Mutex] = 0 /\ value'[Mutex] = 0 /\ InDown(c)' /\ Unpicked(c)' /\ SemOf(c)' = Mutex
  BY <1>0, <1>1, <1>2, <1>3, <1>c, DownStep
<1>6. PhilTypeOK' /\ TableInv'
  BY <1>0, <1>2, <1>4 DEF PhilTypeOK, TableInv, OverPhils
<1>7. ASSUME NEW i \in Phils, i # c
      PROVE  /\ CondAt(i)' /\ pc'[i] = pc[i]
             /\ (Inside(i)' <=> Inside(i)) /\ (Signals(i)' <=> Signals(i)) /\ (Pending(i)' <=> Pending(i))
  BY <1>0, <1>2, <1>4, <1>5, <1>7 DEF CondAt, SameWait, Signals, Pending, Inside
<1>8. /\ CondAt(c)' /\ ~Signals(c) /\ ~Signals(c)' /\ ~Pending(c)' /\ ~Inside(c)
      /\ Inside(c)' <=> ~Unpicked(c)'
  BY <1>0, <1>1, <1>2, <1>3, <1>c, <1>4, <1>5 DEF CondAt, Signals, Pending, Inside, CondvarLabels
<1>9. GateInv'
  <2>1. CASE value[Mutex] > 0 /\ value'[Mutex] = value[Mutex] - 1 /\ ~Unpicked(c)'
    <3>1. value'[Mutex] = 0 /\ Inside(c)' /\ \A i \in Phils : i # c => ~Inside(i)'
      BY <1>0, <1>7, <1>8, <2>1 DEF GateInv
    <3>2. \A i \in Phils : ~Pending(i)'
      BY <1>0, <1>7, <1>8, <3>1 DEF GateInv
    <3> QED BY <1>0, <1>2, <1>5, <1>7, <1>8, <3>1, <3>2 DEF GateInv
  <2>2. CASE value[Mutex] = 0 /\ value'[Mutex] = 0 /\ Unpicked(c)'
    <3>1. ~Inside(c)'
      BY <1>8, <2>2
    <3>2. \E i \in Phils : Inside(i)'
      BY <1>0, <1>7, <1>8, <2>2 DEF GateInv
    <3> QED BY <1>0, <1>2, <1>5, <1>7, <1>8, <2>2, <3>1, <3>2 DEF GateInv
  <2> QED BY <1>5, <2>1, <2>2
<1> QED BY <1>5, <1>6, <1>7, <1>8, <1>9 DEF Core, CondvarInv

\* up(mutex) or up(next), by a philosopher that waits or leaves.
LEMMA LetInFacts ==
    ASSUME Core, CondvarInv, NEW c \in Phils, c = current, ~InDown(c), state[c] = "RUNNABLE",
           pc[c] \in {"check", "take_leave", "put_leave"},
           NEW l \in {"wait", "eat", "loop"}, Goto(l), LetInNext,
           UNCHANGED <<need_resched, current, phil, next_count, back, solution>>,
           count' \in [Conds -> Int], \A i \in Phils : i # c => count'[i] = count[i],
           /\ l = "wait" => pc[c] = "check" /\ phil[c] # "EATING" /\ count'[c] = 1
           /\ l = "eat" => phil[c] = "EATING" /\ count'[c] = 0
           /\ l = "loop" => pc[c] = "put_leave" /\ count'[c] = 0
    PROVE  Core' /\ CondvarInv'
<1>0. /\ SemInv /\ PhilTypeOK /\ ThreadInv /\ TableInv
      /\ GateInv /\ \A i \in Phils : CondAt(i)
  BY DEF Core, CondvarInv
<1>1. /\ Inside(c) /\ value[Mutex] = 0 /\ \A i \in Phils : i # c => ~Inside(i)
      /\ \A i \in Phils : i # c /\ Signals(i) =>
            /\ pc[i] = "signal_end" /\ Unpicked(i) /\ SemOf(i) = Next_
            /\ pc[c] = "take_leave"
  BY InsideFacts DEF CondvarLabels
<1>2. OverPhils(pc)' /\ pc'[c] = l /\ \A j \in Phils : j # c => pc'[j] = pc[j]
  BY <1>0, GotoFacts
<1>3. PICK s \in {Mutex, Next_} : Up(s) /\ s = IF next_count > 0 THEN Next_ ELSE Mutex
  BY DEF LetInNext
<1>4. /\ SemInv' /\ ThreadInv' /\ value' \in [Sems -> Nat]
      /\ \A r \in Sems : r # s => value'[r] = value[r]
      /\ \A i \in Phils : (InDown(i)' <=> InDown(i)) /\ SemOf(i)' = SemOf(i)
      /\ \/ /\ \A i \in Phils : ~(Unpicked(i) /\ SemOf(i) = s)
            /\ value'[s] = value[s] + 1
            /\ \A i \in Phils : Unpicked(i)' <=> Unpicked(i)
         \/ /\ value[s] = 0 /\ value'[s] = 0
            /\ \E j \in Phils : /\ Unpicked(j) /\ SemOf(j) = s
                                /\ \A i \in Phils : Unpicked(i)' <=> Unpicked(i) /\ i # j
  <2>1. s \in Sems /\ Up(s)
    BY <1>3, Names
  <2>2. current \in Phils /\ ~InDown(current) /\ state[current] = "RUNNABLE"
    OBVIOUS
  <2> QED BY <1>0, <2>1, <2>2, UpStep
<1>5. PhilTypeOK' /\ TableInv'
  BY <1>0, <1>2 DEF PhilTypeOK, TableInv, OverPhils
<1>6. /\ CondAt(c)' /\ ~Inside(c)' /\ ~Signals(c) /\ ~Signals(c)' /\ ~Unpicked(c)
  <2>1. ~Unpicked(c) /\ ~InDown(c)'
    BY <1>4 DEF Unpicked
  <2>2. pc'[c] = l /\ phil'[c] = phil[c] /\ CondAt(c)
    BY <1>0, <1>2
  <2>3. phil[c] \in {"THINKING", "HUNGRY", "EATING"}
    BY <1>0 DEF PhilTypeOK
  <2> QED BY <2>1, <2>2, <2>3 DEF CondAt, Inside, Signals, CondvarLabels
<1>7. ASSUME NEW i \in Phils, i # c
      PROVE  /\ pc'[i] = pc[i] /\ count'[i] = count[i] /\ phil'[i] = phil[i] /\ back'[i] = back[i]
             /\ CondAt(i) /\ (Signals(i)' <=> Signals(i))
  BY <1>0, <1>2, <1>7 DEF Signals
<1>8. next_count' = next_count
      /\ next_count = (IF \E i \in Phils : Signals(i) THEN 1 ELSE 0)
      /\ next_count = (IF \E i \in Phils : Signals(i)' THEN 1 ELSE 0)
  BY <1>0, <1>6, <1>7 DEF GateInv
<1>9. \A i, j \in Phils : Signals(i)' /\ Signals(j)' => i = j
  BY <1>0, <1>6, <1>7 DEF GateInv
<1>10. CASE /\ \A i \in Phils : ~(Unpicked(i) /\ SemOf(i) = s)
            /\ value'[s] = value[s] + 1
            /\ \A i \in Phils : Unpicked(i)' <=> Unpicked(i)
  <2>1. \A i \in Phils : ~Signals(i)
    BY <1>1, <1>3, <1>6, <1>8, <1>10
  <2>2. s = Mutex /\ value'[Mutex] = 1
    BY <1>1, <1>3, <1>8, <1>10, <2>1
  <2>3. ASSUME NEW i \in Phils PROVE CondAt(i)' /\ ~Inside(i)' /\ ~Pending(i)'
    <3>1. CASE i = c
      BY <1>6, <3>1 DEF Pending, Signals
    <3>2. CASE i # c
      BY <1>1, <1>4, <1>7, <1>10, <2>1, <3>2 DEF CondAt, Inside, Pending, Signals
    <3> QED BY <3>1, <3>2
  <2>4. \A r \in Sems : r # Mutex => value'[r] = 0
    BY <1>0, <1>4, <2>2 DEF GateInv
  <2>5. GateInv'
    BY <1>8, <1>9, <2>2, <2>3, <2>4 DEF GateInv
  <2> QED BY <1>4, <1>5, <2>3, <2>5 DEF Core, CondvarInv
<1>11. ASSUME NEW j \in Phils, Unpicked(j), SemOf(j) = s, value[s] = 0, value'[s] = 0,
              \A i \in Phils : Unpicked(i)' <=> Unpicked(i) /\ i # j
       PROVE  Core' /\ CondvarInv'
  <2>1. j # c /\ InDown(j) /\ CondAt(j)
    BY <1>0, <1>6, <1>11 DEF Unpicked
  <2>2. /\ s = Mutex => pc[j] \in {"hungry", "thinking"}
        /\ s = Next_ => pc[j] = "signal_end"
    BY <1>11, <2>1, Names DEF CondAt
  <2>3. CondAt(j)' /\ Inside(j)' /\ ~Pending(j)'
    <3>1. InDown(j)' /\ ~Unpicked(j)' /\ SemOf(j)' = SemOf(j) /\ pc'[j] = pc[j]
      BY <1>4, <1>7, <1>11, <2>1
    <3>2. pc[j] \in {"hungry", "thinking", "signal_end"}
      BY <1>3, <2>2
    <3> QED BY <1>7, <2>1, <3>1, <3>2 DEF CondAt, Inside, Pending, Signals, CondvarLabels
  <2>4. ASSUME NEW i \in Phils, i # j PROVE CondAt(i)' /\ ~Inside(i)' /\ ~Pending(i)'
    <3>1. CASE i = c
      BY <1>6, <3>1 DEF Pending, Signals
    <3>2. CASE i # c
      <4>1. CondAt(i)' /\ ~Inside(i)'
        BY <1>1, <1>4, <1>7, <1>11, <2>4, <3>2 DEF CondAt, Inside, Signals
      <4>2. ~Signals(i)
        <5>1. CASE s = Next_
          BY <1>0, <1>11, <2>2, <2>4, <5>1 DEF GateInv, Signals
        <5>2. CASE s = Mutex
          BY <1>3, <1>8, <5>2, Names
        <5> QED BY <1>3, <5>1, <5>2
      <4> QED BY <1>7, <3>2, <4>1, <4>2 DEF Pending, Signals
    <3> QED BY <3>1, <3>2
  <2>5. value'[Mutex] = 0 /\ \A r \in Sems : r # Mutex => value'[r] = 0
    BY <1>0, <1>1, <1>4, <1>11, Names DEF GateInv
  <2>6. GateInv'
    BY <1>8, <1>9, <2>3, <2>4, <2>5 DEF GateInv
  <2> QED BY <1>4, <1>5, <2>3, <2>4, <2>6 DEF Core, CondvarInv
<1>12. CASE \E j \in Phils : /\ Unpicked(j) /\ SemOf(j) = s /\ value[s] = 0 /\ value'[s] = 0
                             /\ \A i \in Phils : Unpicked(i)' <=> Unpicked(i) /\ i # j
  BY <1>11, <1>12
<1> QED BY <1>4, <1>10, <1>12

LEMMA LeaveKeeps ==
    ASSUME Core, CondvarInv, Wait \/ Leave, UNCHANGED solution
    PROVE  Core' /\ CondvarInv'
<1>0. SemInv /\ PhilTypeOK /\ ThreadInv /\ \A i \in Phils : CondAt(i)
  BY DEF Core, CondvarInv
<1>1. PICK l \in {"check", "take_leave", "put_leave"}, m \in {"wait", "eat", "loop"} :
          /\ At(l) /\ Goto(m) /\ LetInNext
          /\ UNCHANGED <<need_resched, current, phil, next_count, back>>
          /\ \/ m = "wait" /\ l = "check" /\ phil[current] # "EATING" /\ Wait
             \/ m = "eat" /\ l = "check" /\ phil[current] = "EATING" /\ UNCHANGED count
             \/ m = "eat" /\ l = "take_leave" /\ UNCHANGED count
             \/ m = "loop" /\ l = "put_leave" /\ UNCHANGED count
  BY DEF Wait, Leave, CondWaitUp, monVars
<1>2. /\ current \in Phils /\ pc[current] = l /\ ~InDown(current) /\ state[current] = "RUNNABLE"
  BY <1>0, <1>1, AtFacts
<1>c. PICK c \in Phils : c = current
  BY <1>2
<1>3. /\ count \in [Conds -> Int] /\ Conds = Phils /\ count[c] = 0
      /\ phil[c] \in {"THINKING", "HUNGRY", "EATING"} /\ CondAt(c)
  BY <1>0, <1>1, <1>2, <1>c, Names DEF CondAt, PhilTypeOK
<1>4. l = "take_leave" => phil[c] = "EATING"
  BY <1>2, <1>c, <1>3 DEF CondAt
<1>5. m = "wait" => count' = [count EXCEPT ![c] = @ + 1]
  BY <1>1, <1>c DEF Wait, CondWaitUp
<1>6. /\ count' \in [Conds -> Int] /\ \A i \in Phils : i # c => count'[i] = count[i]
      /\ count'[c] = IF m = "wait" THEN 1 ELSE 0
  BY <1>1, <1>3, <1>5
<1>7. /\ m = "wait" => pc[c] = "check" /\ phil[c] # "EATING" /\ count'[c] = 1
      /\ m = "eat" => phil[c] = "EATING" /\ count'[c] = 0
      /\ m = "loop" => pc[c] = "put_leave" /\ count'[c] = 0
  BY <1>1, <1>2, <1>c, <1>4, <1>6
<1> QED BY <1>1, <1>2, <1>c, <1>6, <1>7, LetInFacts

\* The down() of cond_wait and that of cond_signal: there is no permit, and the
\* philosopher waits.
LEMMA BlockKeeps ==
    ASSUME Core, CondvarInv, WaitDown \/ SignalDown, UNCHANGED solution
    PROVE  Core' /\ CondvarInv'
<1>0. /\ SemInv /\ PhilTypeOK /\ ThreadInv /\ TableInv
      /\ GateInv /\ \A i \in Phils : CondAt(i)
  BY DEF Core, CondvarInv
<1>1. PICK l \in {"wait", "signal"}, m \in {"wait_end", "signal_end"} :
          At(l) /\ Goto(m) /\ (l = "wait" <=> m = "wait_end") /\ (l = "wait" => WaitDown)
          /\ (l = "signal" => SignalDown)
  BY DEF WaitDown, SignalDown
<1>2. /\ UNCHANGED <<time_slice, need_resched, run_list, current, panic, phil>>
      /\ UNCHANGED <<next_count, count, back>>
  BY DEF WaitDown, SignalDown, CondWaitDown, CondSignalDown, monVars
<1>3. /\ current \in Phils /\ pc[current] = l /\ ~InDown(current) /\ state[current] = "RUNNABLE"
      /\ ~Unpicked(current)
  BY <1>0, <1>1, AtFacts
<1>c. PICK c \in Phils : c = current
  BY <1>3
<1>4. OverPhils(pc)' /\ pc'[c] = m /\ \A j \in Phils : j # c => pc'[j] = pc[j]
  BY <1>0, <1>1, <1>3, <1>c, GotoFacts
<1>s. PICK s \in Sems : s # Mutex /\ s = (IF l = "wait" THEN c ELSE Next_) /\ Down(s)
  <2>1. CASE l = "wait"
    BY <1>1, <1>c, <2>1, Names DEF WaitDown, CondWaitDown
  <2>2. CASE l = "signal"
    BY <1>1, <2>2, Names DEF SignalDown, CondSignalDown
  <2> QED BY <1>1, <2>1, <2>2
<1>v. value[s] = 0
  BY <1>0, <1>s DEF GateInv
<1>5. /\ SemInv' /\ ThreadInv' /\ \A i \in Phils : i # c => SameWait(i)
      /\ \A r \in Sems : r # s => value'[r] = value[r]
      /\ value'[s] = 0 /\ InDown(c)' /\ Unpicked(c)' /\ SemOf(c)' = s
  BY <1>0, <1>1, <1>2, <1>3, <1>c, <1>s, <1>v, DownStep
<1>6. PhilTypeOK' /\ TableInv'
  BY <1>0, <1>2, <1>4 DEF PhilTypeOK, TableInv, OverPhils
<1>7. ASSUME NEW i \in Phils, i # c
      PROVE  /\ CondAt(i)' /\ pc'[i] = pc[i]
             /\ (Inside(i)' <=> Inside(i)) /\ (Signals(i)' <=> Signals(i)) /\ (Pending(i)' <=> Pending(i))
  BY <1>0, <1>2, <1>4, <1>5, <1>7 DEF CondAt, SameWait, Signals, Pending, Inside
<1>8. /\ CondAt(c)' /\ ~Inside(c) /\ ~Inside(c)'
      /\ (Signals(c)' <=> Signals(c)) /\ (Pending(c)' <=> Pending(c))
  <2>1. pc[c] = l /\ phil'[c] = phil[c] /\ count'[c] = count[c] /\ back'[c] = back[c] /\ CondAt(c)
    BY <1>0, <1>2, <1>3, <1>c
  <2>2. CASE l = "wait"
    BY <1>1, <1>4, <1>s, <1>5, <2>1, <2>2 DEF CondAt, Signals, Pending, Inside, CondvarLabels
  <2>3. CASE l = "signal"
    BY <1>1, <1>4, <1>s, <1>5, <2>1, <2>3 DEF CondAt, Signals, Pending, Inside, CondvarLabels
  <2> QED BY <1>1, <2>2, <2>3
<1>9. value'[Mutex] = value[Mutex] /\ \A r \in Sems : r # Mutex => value'[r] = 0
  BY <1>0, <1>s, <1>v, <1>5, Names DEF GateInv
<1>10. GateInv'
  BY <1>0, <1>2, <1>7, <1>8, <1>9 DEF GateInv
<1> QED BY <1>5, <1>6, <1>7, <1>8, <1>10 DEF Core, CondvarInv

\* cond_wait and cond_signal return.
LEMMA WaitEndKeeps ==
    ASSUME Core, CondvarInv, WaitEnd, UNCHANGED solution
    PROVE  Core' /\ CondvarInv'
<1>0. /\ SemInv /\ PhilTypeOK /\ ThreadInv /\ TableInv
      /\ GateInv /\ \A i \in Phils : CondAt(i)
  BY DEF Core, CondvarInv
<1>1. /\ At("wait_end") /\ Goto("take_leave") /\ CondWaitEnd(current)
      /\ UNCHANGED <<schedVars, semVars, phil, next_count, back>>
  BY DEF WaitEnd, CondWaitEnd
<1>2. /\ current \in Phils /\ pc[current] = "wait_end" /\ ~InDown(current) /\ state[current] = "RUNNABLE"
      /\ ~Unpicked(current)
  BY <1>0, <1>1, AtFacts
<1>c. PICK c \in Phils : c = current
  BY <1>2
<1>3. OverPhils(pc)' /\ pc'[c] = "take_leave" /\ \A j \in Phils : j # c => pc'[j] = pc[j]
  BY <1>0, <1>1, <1>2, <1>c, GotoFacts
<1>4. SemInv' /\ ThreadInv' /\ (\A i \in Phils : SameWait(i)) /\ UNCHANGED value
  BY <1>0, <1>1, <1>2, LocalStep DEF semVars
<1>5. /\ count' \in [Conds -> Int] /\ count'[c] = count[c] - 1
      /\ \A i \in Phils : i # c => count'[i] = count[i]
  BY <1>0, <1>1, <1>c, Names DEF CondWaitEnd, PhilTypeOK
<1>6. PhilTypeOK' /\ TableInv'
  BY <1>0, <1>1, <1>3, <1>5 DEF PhilTypeOK, TableInv, OverPhils
<1>7. ASSUME NEW i \in Phils
      PROVE  /\ CondAt(i)'
             /\ (Inside(i)' <=> Inside(i)) /\ (Signals(i)' <=> Signals(i)) /\ (Pending(i)' <=> Pending(i))
             /\ pc[i] \in {"wait_end", "take_leave"} => pc'[i] \in {"wait_end", "take_leave"}
  <2>1. SameWait(i) /\ phil'[i] = phil[i] /\ back'[i] = back[i] /\ CondAt(i)
    BY <1>0, <1>1, <1>4
  <2>2. CASE i = c
    <3>1. ~InDown(i) /\ ~Unpicked(i) /\ pc[i] = "wait_end" /\ pc'[i] = "take_leave" /\ count'[i] = count[i] - 1
      BY <1>2, <1>c, <1>3, <1>5, <2>2
    <3>2. phil[i] = "EATING" /\ count[i] = 1
      BY <1>0, <2>1, <3>1 DEF CondAt, PhilTypeOK
    <3> QED BY <2>1, <3>1, <3>2 DEF CondAt, SameWait, Signals, Pending, Inside, CondvarLabels
  <2>3. CASE i # c
    BY <1>3, <1>5, <2>1, <2>3 DEF CondAt, SameWait, Signals, Pending, Inside
  <2> QED BY <2>2, <2>3
<1>8. GateInv'
  BY <1>0, <1>1, <1>4, <1>7 DEF GateInv
<1> QED BY <1>4, <1>6, <1>7, <1>8 DEF Core, CondvarInv

LEMMA SignalEndKeeps ==
    ASSUME Core, CondvarInv, SignalEnd, UNCHANGED solution
    PROVE  Core' /\ CondvarInv'
<1>0. /\ SemInv /\ PhilTypeOK /\ ThreadInv /\ TableInv
      /\ GateInv /\ \A i \in Phils : CondAt(i)
  BY DEF Core, CondvarInv
<1>1. /\ At("signal_end") /\ Goto(back[current]) /\ back' = [back EXCEPT ![current] = "none"]
      /\ next_count' = next_count - 1 /\ UNCHANGED <<schedVars, semVars, phil, count>>
  BY DEF SignalEnd, CondSignalEnd
<1>2. /\ current \in Phils /\ pc[current] = "signal_end" /\ ~InDown(current) /\ state[current] = "RUNNABLE"
      /\ ~Unpicked(current)
  BY <1>0, <1>1, AtFacts
<1>c. PICK c \in Phils : c = current
  BY <1>2
<1>3. PICK l \in {"test_right", "put_leave"} : l = back[current] /\ Goto(l)
  BY <1>0, <1>1, <1>2 DEF CondAt, Signals
<1>4. OverPhils(pc)' /\ pc'[c] = l /\ \A j \in Phils : j # c => pc'[j] = pc[j]
  BY <1>0, <1>2, <1>c, <1>3, GotoFacts
<1>5. SemInv' /\ ThreadInv' /\ (\A i \in Phils : SameWait(i)) /\ UNCHANGED value
  BY <1>0, <1>1, <1>2, LocalStep DEF semVars
<1>6. OverPhils(back)' /\ \A i \in Phils : i # c => back'[i] = back[i]
  BY <1>0, <1>1, <1>c DEF PhilTypeOK, OverPhils
<1>7. PhilTypeOK' /\ TableInv'
  BY <1>0, <1>1, <1>4, <1>6 DEF PhilTypeOK, TableInv
<1>8. /\ Inside(c) /\ value[Mutex] = 0 /\ (\A i \in Phils : i # c => ~Inside(i))
      /\ \A i \in Phils : i # c => ~Signals(i)
  BY <1>2, <1>c, InsideFacts DEF CondvarLabels
<1>9. ASSUME NEW i \in Phils
      PROVE  CondAt(i)' /\ (Inside(i)' <=> Inside(i)) /\ ~Signals(i)' /\ ~Pending(i)'
  <2>1. SameWait(i) /\ phil'[i] = phil[i] /\ count'[i] = count[i] /\ CondAt(i)
    BY <1>0, <1>1, <1>5
  <2>2. CASE i = c
    <3>1. ~InDown(i) /\ ~Unpicked(i) /\ pc[i] = "signal_end" /\ pc'[i] = l
      BY <1>2, <1>c, <1>4, <2>2
    <3>2. phil[i] = "THINKING" /\ count[i] = 0
      BY <1>0, <2>1, <3>1 DEF CondAt, PhilTypeOK
    <3> QED BY <2>1, <3>1, <3>2 DEF CondAt, SameWait, Signals, Pending, Inside, CondvarLabels
  <2>3. CASE i # c
    BY <1>4, <1>6, <1>8, <2>1, <2>3 DEF CondAt, SameWait, Signals, Pending, Inside
  <2> QED BY <2>2, <2>3
<1>10. next_count = 1
  BY <1>0, <1>2 DEF GateInv, Signals
<1>11. GateInv'
  BY <1>0, <1>1, <1>5, <1>9, <1>10 DEF GateInv
<1> QED BY <1>5, <1>7, <1>9, <1>11 DEF Core, CondvarInv

\* phi_test_condvar(i), on a table in which only the entry of the current
\* philosopher c is new, signals nobody.
LEMMA TestStays ==
    ASSUME Core, CondvarInv, NEW c \in Phils, c = current, ~InDown(c), state[c] = "RUNNABLE",
           pc[c] \in {"hungry", "thinking", "test_right"},
           UNCHANGED <<schedVars, semVars, monVars, back, solution>>,
           NEW l \in {"check", "test_right", "put_leave"}, Goto(l),
           phil' \in [Phils -> {"THINKING", "HUNGRY", "EATING"}], TableInv',
           \A j \in Phils : j # c => phil'[j] = phil[j],
           phil'[c] = "THINKING" <=> l # "check"
    PROVE  Core' /\ CondvarInv'
<1>0. /\ SemInv /\ PhilTypeOK /\ ThreadInv /\ UNCHANGED <<next_count, count>>
      /\ GateInv /\ \A i \in Phils : CondAt(i)
  BY DEF Core, CondvarInv, monVars
<1>1. OverPhils(pc)' /\ pc'[c] = l /\ \A j \in Phils : j # c => pc'[j] = pc[j]
  BY <1>0, GotoFacts
<1>2. SemInv' /\ ThreadInv' /\ (\A i \in Phils : SameWait(i)) /\ UNCHANGED value
  BY <1>0, LocalStep DEF semVars
<1>3. PhilTypeOK'
  BY <1>0, <1>1 DEF PhilTypeOK, OverPhils
<1>4. /\ Inside(c) /\ \A i \in Phils : ~Signals(i)
  BY InsideFacts DEF CondvarLabels
<1>5. ASSUME NEW i \in Phils
      PROVE  CondAt(i)' /\ (Inside(i)' <=> Inside(i)) /\ ~Signals(i)' /\ ~Pending(i)'
  <2>1. SameWait(i) /\ count'[i] = count[i] /\ back'[i] = back[i] /\ CondAt(i)
    BY <1>0, <1>2
  <2>2. CASE i = c
    <3>1. ~InDown(i) /\ ~Unpicked(i) /\ pc'[i] = l /\ count[i] = 0
      BY <1>1, <2>1, <2>2 DEF Unpicked, CondAt
    <3> QED BY <1>4, <2>1, <2>2, <3>1 DEF CondAt, SameWait, Signals, Pending, Inside, CondvarLabels
  <2>3. CASE i # c
    BY <1>1, <1>4, <2>1, <2>3 DEF CondAt, SameWait, Signals, Pending, Inside
  <2> QED BY <2>2, <2>3
<1>6. GateInv'
  BY <1>0, <1>2, <1>4, <1>5 DEF GateInv
<1> QED BY <1>2, <1>3, <1>5, <1>6 DEF Core, CondvarInv

\* It signals i, which waits: i is inside now, and c waits to go on.
LEMMA TestSignals ==
    ASSUME Core, CondvarInv, NEW c \in Phils, c = current, ~InDown(c), state[c] = "RUNNABLE",
           pc[c] \in {"hungry", "thinking", "test_right"},
           NEW i \in Phils, i # c => phil[i] = "HUNGRY", CondSignalUp(i), Goto("signal"),
           NEW l \in {"check", "test_right", "put_leave"}, back' = [back EXCEPT ![c] = l],
           i # c => l # "check",
           UNCHANGED <<need_resched, current, solution>>,
           phil' \in [Phils -> {"THINKING", "HUNGRY", "EATING"}], TableInv', phil'[i] = "EATING",
           \A j \in Phils : j # c /\ j # i => phil'[j] = phil[j],
           i # c => phil'[c] = "THINKING"
    PROVE  Core' /\ CondvarInv'
<1>0. /\ SemInv /\ PhilTypeOK /\ ThreadInv
      /\ GateInv /\ \A j \in Phils : CondAt(j)
  BY DEF Core, CondvarInv
<1>1. OverPhils(pc)' /\ pc'[c] = "signal" /\ \A j \in Phils : j # c => pc'[j] = pc[j]
  BY <1>0, GotoFacts
<1>2. count[i] > 0 /\ next_count' = next_count + 1 /\ Up(i) /\ UNCHANGED count /\ i \in Sems
  BY Names DEF CondSignalUp
<1>3. pc[i] \in {"wait", "wait_end"} /\ i # c
  BY <1>0, <1>2 DEF CondAt
<1>4. InDown(i) /\ pc[i] = "wait_end" /\ SemOf(i) = i /\ Unpicked(i)
  <2>1. InDown(i)
    BY <1>0, <1>3 DEF ThreadInv
  <2>2. pc[i] = "wait_end" /\ SemOf(i) = i
    BY <1>0, <1>3, <2>1 DEF CondAt
  <2> QED BY <1>0, <1>3, <2>1, <2>2 DEF CondAt
<1>5. \A j \in Phils : Unpicked(j) /\ SemOf(j) = i => j = i
  BY <1>0, Names DEF CondAt, Unpicked
<1>6. /\ SemInv' /\ ThreadInv'
      /\ \A r \in Sems : r # i => value'[r] = value[r]
      /\ \A j \in Phils : (InDown(j)' <=> InDown(j)) /\ SemOf(j)' = SemOf(j)
      /\ value'[i] = 0 /\ \A j \in Phils : Unpicked(j)' <=> Unpicked(j) /\ j # i
  <2>1. current \in Phils /\ ~InDown(current) /\ state[current] = "RUNNABLE"
    OBVIOUS
  <2>2. /\ SemInv' /\ ThreadInv' /\ value' \in [Sems -> Nat]
        /\ \A r \in Sems : r # i => value'[r] = value[r]
        /\ \A j \in Phils : (InDown(j)' <=> InDown(j)) /\ SemOf(j)' = SemOf(j)
        /\ \/ /\ \A j \in Phils : ~(Unpicked(j) /\ SemOf(j) = i)
              /\ value'[i] = value[i] + 1
              /\ \A j \in Phils : Unpicked(j)' <=> Unpicked(j)
           \/ /\ value[i] = 0 /\ value'[i] = 0
              /\ \E k \in Phils : /\ Unpicked(k) /\ SemOf(k) = i
                                  /\ \A j \in Phils : Unpicked(j)' <=> Unpicked(j) /\ j # k
    BY <1>0, <1>2, <2>1, UpStep
  <2> QED BY <1>4, <1>5, <2>2
<1>7. OverPhils(back)' /\ back'[c] = l /\ \A j \in Phils : j # c => back'[j] = back[j]
  BY <1>0 DEF PhilTypeOK, OverPhils
<1>8. PhilTypeOK'
  BY <1>0, <1>1, <1>2, <1>7 DEF PhilTypeOK
<1>9. /\ Inside(c) /\ value[Mutex] = 0 /\ (\A j \in Phils : j # c => ~Inside(j))
      /\ next_count = 0 /\ \A j \in Phils : ~Signals(j)
  BY InsideFacts DEF CondvarLabels
<1>10. CondAt(c)' /\ ~Inside(c)' /\ Signals(c)'
  <2>1. ~InDown(c)' /\ ~Unpicked(c)' /\ CondAt(c) /\ phil'[c] = "THINKING" /\ count'[c] = count[c]
    BY <1>0, <1>2, <1>3, <1>6 DEF Unpicked
  <2> QED BY <1>1, <1>3, <1>7, <2>1 DEF CondAt, Inside, Signals
<1>11. CondAt(i)' /\ Inside(i)' /\ ~Signals(i)' /\ ~Pending(i)' /\ pc'[i] = "wait_end"
  <2>1. /\ InDown(i)' /\ ~Unpicked(i)' /\ SemOf(i)' = SemOf(i) /\ pc'[i] = "wait_end" /\ CondAt(i)
        /\ count'[i] = count[i] /\ phil'[i] = "EATING"
    BY <1>0, <1>1, <1>2, <1>3, <1>4, <1>6
  <2> QED BY <1>4, <2>1 DEF CondAt, Inside, Signals, Pending, CondvarLabels
<1>12. ASSUME NEW j \in Phils, j # c, j # i PROVE CondAt(j)' /\ ~Inside(j)' /\ ~Signals(j)' /\ ~Pending(j)'
  <2>1. /\ InDown(j)' <=> InDown(j)
        /\ (Unpicked(j)' <=> Unpicked(j)) /\ SemOf(j)' = SemOf(j) /\ pc'[j] = pc[j] /\ CondAt(j)
        /\ count'[j] = count[j] /\ phil'[j] = phil[j] /\ back'[j] = back[j] /\ ~Inside(j) /\ ~Signals(j)
    BY <1>0, <1>1, <1>2, <1>6, <1>7, <1>9, <1>12
  <2> QED BY <2>1 DEF CondAt, Inside, Signals, Pending
<1>13. value'[Mutex] = 0 /\ \A r \in Sems : r # Mutex => value'[r] = 0
  BY <1>0, <1>6, <1>9, Names DEF GateInv
<1>14. GateInv'
  BY <1>2, <1>9, <1>10, <1>11, <1>12, <1>13 DEF GateInv
<1> QED BY <1>6, <1>8, <1>10, <1>11, <1>12, <1>14 DEF Core, CondvarInv

LEMMA CondTestFacts ==
    ASSUME Core, CondvarInv, NEW c \in Phils, c = current, ~InDown(c), state[c] = "RUNNABLE",
           pc[c] \in {"hungry", "thinking", "test_right"},
           NEW table \in [Phils -> {"THINKING", "HUNGRY", "EATING"}],
           \A j \in Phils : ~(table[j] = "EATING" /\ table[RIGHT(j)] = "EATING"),
           \A j \in Phils : j # c => table[j] = phil[j],
           NEW i \in Phils, NEW l \in {"check", "test_right", "put_leave"}, PhiTestCondvar(i, table, l),
           \/ table[c] = "THINKING" /\ i # c /\ l # "check"
           \/ table[c] = "HUNGRY" /\ i = c /\ l = "check",
           UNCHANGED <<need_resched, current, solution>>
    PROVE  Core' /\ CondvarInv'
<1>1. CASE table[i] = "HUNGRY" /\ table[LEFT(i)] # "EATING" /\ table[RIGHT(i)] # "EATING"
  <2>1. /\ phil' = [table EXCEPT ![i] = "EATING"]
        /\ \/ /\ CondSignalUp(i)
              /\ Goto("signal") /\ back' = [back EXCEPT ![c] = l]
           \/ /\ CondSignalLost(i)
              /\ Goto(l)
              /\ UNCHANGED <<state, wait_state, time_slice, run_list, panic, back>>
    BY <1>1 DEF PhiTestCondvar
  <2>2. /\ phil' \in [Phils -> {"THINKING", "HUNGRY", "EATING"}]
        /\ \A j \in Phils : ~(phil'[j] = "EATING" /\ phil'[RIGHT(j)] = "EATING")
    BY <1>1, <2>1, TableKeeps
  <2>3. TableInv' /\ \A j \in Phils : phil'[j] = IF j = i THEN "EATING" ELSE table[j]
    BY <2>1, <2>2 DEF TableInv
  <2>4. CASE CondSignalUp(i) /\ Goto("signal") /\ back' = [back EXCEPT ![c] = l]
    <3>1. /\ i # c => phil[i] = "HUNGRY" /\ phil'[c] = "THINKING" /\ l # "check"
          /\ phil'[i] = "EATING" /\ \A j \in Phils : j # c /\ j # i => phil'[j] = phil[j]
      BY <1>1, <2>3
    <3> QED BY <2>2, <2>3, <2>4, <3>1, TestSignals
  <2>5. CASE /\ CondSignalLost(i)
             /\ Goto(l)
             /\ UNCHANGED <<state, wait_state, time_slice, run_list, panic, back>>
    <3>1. count[i] = 0 /\ UNCHANGED <<schedVars, semVars, monVars, back, solution>>
      BY <2>5 DEF CondSignalLost, schedVars
    <3>2. ThreadInv /\ CondAt(i)
      BY DEF Core, CondvarInv
    <3>3. i = c
      <4>1. ASSUME i # c PROVE FALSE
        <5>1. phil[i] = "HUNGRY" /\ pc[i] = "check"
          BY <1>1, <3>1, <3>2, <4>1 DEF CondAt
        <5>2. InDown(i)
          BY <3>2, <4>1, <5>1 DEF ThreadInv
        <5> QED BY <3>2, <5>1, <5>2 DEF CondAt
      <4> QED BY <4>1
    <3> QED BY <2>2, <2>3, <2>5, <3>1, <3>3, TestStays
  <2> QED BY <2>1, <2>4, <2>5
<1>2. CASE ~(table[i] = "HUNGRY" /\ table[LEFT(i)] # "EATING" /\ table[RIGHT(i)] # "EATING")
  <2>1. phil' = table /\ Goto(l) /\ UNCHANGED <<schedVars, semVars, monVars, back, solution>>
    BY <1>2 DEF PhiTestCondvar, schedVars
  <2>2. TableInv'
    BY <2>1 DEF TableInv
  <2> QED BY <2>1, <2>2, TestStays
<1> QED BY <1>1, <1>2

\* Getting hungry and putting the forks back.
LEMMA CondTestsKeep ==
    ASSUME Core, CondvarInv, Hungry \/ Thinking \/ TestRight, UNCHANGED solution
    PROVE  Core' /\ CondvarInv'
<1>0. SemInv /\ PhilTypeOK /\ ThreadInv /\ TableInv
  BY DEF Core
<1>1. PICK l \in {"hungry", "thinking", "test_right"} :
          /\ At(l) /\ UNCHANGED <<need_resched, current, iter>>
          /\ \/ l = "hungry" /\ Hungry
             \/ l = "thinking" /\ Thinking
             \/ l = "test_right" /\ TestRight
  BY DEF Hungry, Thinking, TestRight
<1>2. /\ current \in Phils /\ pc[current] = l /\ ~InDown(current) /\ state[current] = "RUNNABLE"
  BY <1>0, <1>1, AtFacts
<1>c. PICK c \in Phils : c = current
  BY <1>2
<1>3. /\ CondAt(c) /\ phil \in [Phils -> {"THINKING", "HUNGRY", "EATING"}]
      /\ ~InDown(c) /\ state[c] = "RUNNABLE" /\ pc[c] = l
  BY <1>0, <1>2, <1>c DEF CondvarInv, PhilTypeOK
<1>4. LEFT(c) \in Phils /\ LEFT(c) # c /\ RIGHT(c) \in Phils /\ RIGHT(c) # c
  BY NeighbourFacts
<1>5. PICK i \in Phils, m \in {"check", "test_right", "put_leave"}, v \in {"THINKING", "HUNGRY"} :
          /\ PhiTestCondvar(i, [phil EXCEPT ![c] = v], m)
          /\ \/ v = "THINKING" /\ i # c /\ m # "check"
             \/ v = "HUNGRY" /\ i = c /\ m = "check"
  <2>1. CASE l = "hungry"
    BY <1>1, <1>c, <2>1 DEF Hungry
  <2>2. CASE l = "thinking"
    BY <1>1, <1>c, <1>4, <2>2 DEF Thinking
  <2>3. CASE l = "test_right"
    <3>1. phil[c] = "THINKING"
      BY <1>3, <2>3 DEF CondAt
    <3>2. phil = [phil EXCEPT ![c] = "THINKING"]
      BY <1>3, <3>1
    <3>3. PhiTestCondvar(RIGHT(c), phil, "put_leave")
      BY <1>1, <1>c, <2>3 DEF TestRight
    <3>4. PhiTestCondvar(RIGHT(c), [phil EXCEPT ![c] = "THINKING"], "put_leave")
      BY <3>2, <3>3
    <3> QED BY <1>4, <3>4
  <2> QED BY <1>1, <2>1, <2>2, <2>3
<1>6. PICK t : t = [phil EXCEPT ![c] = v]
  OBVIOUS
<1>7. /\ t \in [Phils -> {"THINKING", "HUNGRY", "EATING"}] /\ t[c] = v
      /\ \A j \in Phils : j # c => t[j] = phil[j]
  BY <1>3, <1>6
<1>8. \A j \in Phils : ~(t[j] = "EATING" /\ t[RIGHT(j)] = "EATING")
  BY <1>0, <1>7, NeighbourFacts DEF TableInv
<1>9. PhiTestCondvar(i, t, m)
  BY <1>5, <1>6
<1> QED BY <1>1, <1>c, <1>3, <1>5, <1>7, <1>8, <1>9, CondTestFacts

-----------------------------------------------------------------------------
(* The theorems.                                                            *)

IInv ==
    /\ Core
    /\ solution = "sema" => SemaInv
    /\ solution = "condvar" => CondvarInv

LEMMA InitIInv == Init => IInv
<1> SUFFICES ASSUME Init PROVE IInv
  OBVIOUS
<1> USE SchedAssumption, SemsAssumption DEF Init, PhilInit, MonitorInit
<1>1. run_list \in Seq(Procs) /\ Distinct(run_list) /\ Range(run_list) = Phils
  <2>1. N \in Nat /\ \A k \in 1..N : k - 1 \in Phils
    BY PhilAssumption DEF Phils
  <2>2. run_list \in Seq(Phils) /\ Len(run_list) = N /\ \A k \in 1..N : run_list[k] = k - 1
    BY <2>1
  <2>3. run_list \in Seq(Procs)
    BY <2>2, Names
  <2>4. Distinct(run_list)
    BY <2>1, <2>2 DEF Distinct
  <2>5. Range(run_list) = Phils
    <3>1. DOMAIN run_list = 1..N
      BY <2>1
    <3>2. ASSUME NEW i \in Phils PROVE i \in Range(run_list)
      <4>1. i + 1 \in 1..N /\ run_list[i + 1] = i
        BY <2>1, <2>2 DEF Phils
      <4> QED BY <3>1, <4>1 DEF Range
    <3>3. ASSUME NEW x \in Range(run_list) PROVE x \in Phils
      BY <2>1, <2>2, <3>1 DEF Range
    <3> QED BY <3>2, <3>3
  <2> QED BY <2>3, <2>4, <2>5
<1>2. SchedTypeOK
  BY <1>1 DEF SchedTypeOK, States, WaitStates
<1>3. RunQueueExact
  BY <1>1, Names DEF RunQueueExact, OnRunList, Distinct
<1>4. SemTypeOK
  <2>1. NoWait \in Waits
    BY DEF NoWait, Waits
  <2> QED BY <2>1 DEF SemTypeOK
<1>5. WaitExact
  BY DEF WaitExact, InDown, NoWait
<1>6. NoAssertFails /\ \A s \in Sems : QueueExact(s)
  <2>1. \A s \in Sems : wait_queue[s] = <<>> /\ Range(wait_queue[s]) = {}
    BY DEF Range
  <2> QED BY <2>1 DEF QueueExact, Distinct, WaitsFor, InDown, NoWait, NoAssertFails
<1>7. SemInv
  BY <1>2, <1>3, <1>4, <1>5, <1>6, QueueExactAll DEF SemInv
<1>8. PhilTypeOK /\ TableInv
  BY NeighbourFacts DEF PhilTypeOK, TableInv, OverPhils
<1>9. \A i \in Phils : ~InDown(i) /\ ~Unpicked(i)
  BY Names DEF InDown, Unpicked, NoWait
<1>10. ThreadInv
  BY DEF ThreadInv
<1>11. SemaInv
  BY <1>9, Names DEF SemaInv, SemaAt
<1>12. CondvarInv
  <2>1. \A i \in Phils : CondAt(i) /\ ~Signals(i) /\ ~Pending(i) /\ ~Inside(i)
    BY <1>9, Names DEF CondAt, Signals, Pending, Inside, CondvarLabels
  <2> QED BY <2>1, Names DEF CondvarInv, GateInv
<1> QED BY <1>7, <1>8, <1>10, <1>11, <1>12 DEF IInv, Core

LEMMA NextIInv == IInv /\ [Next]_vars => IInv'
<1> SUFFICES ASSUME IInv, [Next]_vars PROVE IInv'
  OBVIOUS
<1>0. Core /\ solution \in {"sema", "condvar"} /\ solution' = solution
      /\ (solution = "sema" => SemaInv) /\ (solution = "condvar" => CondvarInv)
  <2>1. solution' = solution
    BY DEF Next, ThreadStep, Interrupt, vars
  <2> QED BY <2>1 DEF IInv, Core, PhilTypeOK
<1>1. CASE /\ UNCHANGED <<monVars, back, solution>>
           /\ \/ Think \/ Eat \/ Nap \/ Quit \/ QuitSched \/ Blocked
              \/ Tick \/ CpuIdle \/ \E p \in Phils : TimerExpires(p)
              \/ UNCHANGED <<schedVars, semVars, philVars>>
  <2>1. CASE solution = "sema"
    BY <1>0, <1>1, <2>1, SemaMoves DEF IInv
  <2>2. CASE solution = "condvar"
    BY <1>0, <1>1, <2>2, CondvarMoves DEF IInv
  <2> QED BY <1>0, <2>1, <2>2
<1>2. CASE solution = "sema" /\ SemaStep /\ UNCHANGED <<monVars, back>>
  <2>1. UNCHANGED <<monVars, back, solution>> /\ SemaInv
    BY <1>0, <1>2
  <2>2. Core' /\ SemaInv'
    BY <1>0, <1>2, <2>1, SemaTakeKeeps, SemaLeaveKeeps, SemaAwaitKeeps, SemaTestsKeep DEF SemaStep
  <2> QED BY <1>0, <1>2, <2>2 DEF IInv
<1>3. CASE solution = "condvar" /\ CondvarStep
  <2>1. Core' /\ CondvarInv'
    BY <1>0, <1>3, EnterKeeps, LeaveKeeps, BlockKeeps, WaitEndKeeps, SignalEndKeeps, CondTestsKeep
       DEF CondvarStep
  <2> QED BY <1>0, <1>3, <2>1 DEF IInv
<1>4. CASE UNCHANGED vars
  BY <1>1, <1>4 DEF vars
<1>5. CASE ThreadStep
  BY <1>1, <1>2, <1>3, <1>5 DEF ThreadStep, Forks, PhilStep
<1>6. CASE Interrupt(Tick) \/ \E p \in Phils : Interrupt(TimerExpires(p))
  BY <1>1, <1>6 DEF Interrupt
<1> QED BY <1>4, <1>5, <1>6 DEF Next

LEMMA IInvAlways == Spec => []IInv
BY InitIInv, NextIInv, PTL DEF Spec

\* Neighbours never eat together: a philosopher that has returned from
\* phi_take_forks has its entry of the table at EATING, and the table never has
\* two neighbours that eat, with the semaphores and with the monitor.
THEOREM NeighboursApart == Spec => []NeighboursNeverEat
<1>1. IInv => NeighboursNeverEat
  <2> SUFFICES ASSUME IInv, NEW i \in Phils, Eats(i) PROVE phil[i] = "EATING"
    BY NeighbourFacts DEF IInv, Core, TableInv, NeighboursNeverEat
  <2>1. phil[i] \in {"THINKING", "HUNGRY", "EATING"} /\ solution \in {"sema", "condvar"}
    BY DEF IInv, Core, PhilTypeOK
  <2>2. CASE solution = "sema"
    <3>1. SemaAt(i)
      BY <2>2 DEF IInv, SemaInv
    <3> QED BY <2>1, <3>1 DEF SemaAt, Eats
  <2>3. CASE solution = "condvar"
    <3>1. CondAt(i)
      BY <2>3 DEF IInv, CondvarInv
    <3> QED BY <2>1, <3>1 DEF CondAt, Eats
  <2> QED BY <2>1, <2>2, <2>3
<1> QED BY <1>1, IInvAlways, PTL

\* The permits of s[i] in check_sync.c are exact: there is one from the moment
\* i's entry is set to EATING until i's down() takes it.
THEOREM PermitsExact == Spec => []ForksExact
<1>1. IInv => ForksExact
  <2> SUFFICES ASSUME IInv, solution = "sema", NEW i \in Phils
               PROVE  /\ value[i] \in {0, 1}
                      /\ (value[i] = 1 \/ Granted(i, i)) <=>
                            phil[i] = "EATING" /\ (pc[i] \in {"take_up", "take_down"} \/ (pc[i] = "eat" /\ InDown(i)))
                      /\ ~(value[i] = 1 /\ Granted(i, i))
    BY DEF ForksExact
  <2>1. SemaAt(i) /\ wait[i] \in Waits
    BY Names DEF IInv, SemaInv, Core, SemInv, SemTypeOK
  <2>2. wait[i].flags \in {"INTERRUPTED", "KSEM"}
    BY <2>1 DEF Waits
  <2>3. Granted(i, i) <=> pc[i] = "eat" /\ InDown(i) /\ ~Unpicked(i)
    BY <2>1, <2>2, Names DEF SemaAt, Granted, Unpicked, SemOf
  <2> QED BY <2>1, <2>3 DEF SemaAt
<1> QED BY <1>1, IInvAlways, PTL

\* The monitor is exact: one process active in it, shut only while one is, with
\* the counters of monitor.c right at every step and every signal consumed by the
\* process it was meant for.
THEOREM MonitorIsExact == Spec => []MonitorExact
<1>1. IInv => MonitorExact
  <2> SUFFICES ASSUME IInv, solution = "condvar" PROVE
        /\ \A i, j \in Phils : Active(i) /\ Active(j) => i = j
        /\ (\A i \in Phils : ~Active(i) /\ pc[i] # "signal") => value[Mutex] = 1
        /\ next_count = Cardinality({i \in Phils : pc[i] \in {"signal", "signal_end"}})
        /\ \A i \in Phils : count[i] = IF pc[i] \in {"wait", "wait_end"} THEN 1 ELSE 0
        /\ \A s \in Sems \ {Mutex} : value[s] = 0
        /\ \A i \in Phils : pc[i] = "wait_end" /\ ~WaitsFor(i, i) => phil[i] = "EATING"
    BY DEF MonitorExact
  <2>0. GateInv /\ \A i \in Phils : CondAt(i)
    BY DEF IInv, CondvarInv
  <2>1. \A i \in Phils : wait[i].flags \in {"INTERRUPTED", "KSEM"}
    BY Names DEF IInv, Core, SemInv, SemTypeOK, Waits
  <2>2. \A i \in Phils : Active(i) <=> Inside(i)
    BY <2>1 DEF Active, Inside, Unpicked
  <2>3. next_count = Cardinality({i \in Phils : pc[i] \in {"signal", "signal_end"}})
    <3> DEFINE S == {i \in Phils : pc[i] \in {"signal", "signal_end"}}
    <3>1. CASE \E i \in Phils : Signals(i)
      <4>1. PICK i \in Phils : Signals(i)
        BY <3>1
      <4>2. S = {i}
        BY <2>0, <4>1 DEF GateInv, Signals
      <4>3. Cardinality({i}) = 1
        BY FS_Singleton
      <4> QED BY <2>0, <3>1, <4>2, <4>3 DEF GateInv
    <3>2. CASE ~\E i \in Phils : Signals(i)
      <4>1. S = {}
        BY <3>2 DEF Signals
      <4> QED BY <2>0, <3>2, <4>1, FS_EmptySet DEF GateInv
    <3> QED BY <3>1, <3>2
  <2>4. ASSUME NEW i \in Phils, pc[i] = "wait_end", ~WaitsFor(i, i) PROVE phil[i] = "EATING"
    <3>1. CondAt(i) /\ phil[i] \in {"THINKING", "HUNGRY", "EATING"}
      BY <2>0 DEF IInv, Core, PhilTypeOK
    <3>2. ~Unpicked(i)
      BY <2>4, <3>1 DEF CondAt, WaitsFor, Unpicked, SemOf
    <3> QED BY <2>4, <3>1, <3>2 DEF CondAt
  <2>5. \A i \in Phils : count[i] = IF pc[i] \in {"wait", "wait_end"} THEN 1 ELSE 0
    BY <2>0 DEF CondAt
  <2> QED BY <2>0, <2>2, <2>3, <2>4, <2>5 DEF GateInv
<1> QED BY <1>1, IInvAlways, PTL

\* The wait queues of the semaphores the philosophers use are exact.
THEOREM PhilWaitQueues == Spec => []WaitQueueExact
<1>1. IInv => WaitQueueExact
  BY DEF IInv, Core, SemInv
<1> QED BY <1>1, IInvAlways, PTL
=============================================================================
