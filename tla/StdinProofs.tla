----------------------------- MODULE StdinProofs -----------------------------
(***************************************************************************)
(* The buffer of dev_stdin.c and the readers that wait for it, for every    *)
(* number of readers, size of the buffer and length of a read, whatever     *)
(* the devices send and the decoding of it makes of it.                     *)
(***************************************************************************)
EXTENDS Stdin, SchedProofs

Pcs == {"user", "read", "sched", "wake", "trap_ret", "exit", "dead", "idle"}
Indices == 0..(STDIN_BUFSIZE - 1)

\* The scheduler's part.
RunInv ==
    /\ SchedTypeOK /\ RunQueueExact
    /\ state[Idle] = "RUNNABLE" /\ panic = "none"

\* The buffer and its history.
RingInv ==
    /\ p_rpos \in Nat /\ p_wpos \in Nat
    /\ DOMAIN stdin_buffer = Indices
    /\ typed \in Seq(Range(typed))
    /\ RingExact

\* The readers.  A process is between its look at the buffer and schedule(), or
\* on its way out of the kernel, only while it runs: nothing preempts the kernel.
ReadersInv ==
    /\ pc \in [Procs -> Pcs]
    /\ wakeup_flags \in [Procs -> {"INTERRUPTED", "KBD"}]
    /\ wait_queue \in Seq(Users)
    /\ irq \in {"none", "wakeup"}
    /\ irq = "wakeup" => wait_queue # <<>>
    /\ \A p \in Procs :
          /\ pc[p] = "idle" <=> p = Idle
          /\ pc[p] \in {"read", "sched", "trap_ret", "exit"} => p = current
          /\ state[p] = "ZOMBIE" => pc[p] \in {"exit", "dead"}
    /\ WaitersExact

IInv == RunInv /\ RingInv /\ ReadersInv

-----------------------------------------------------------------------------
(* The buffer.                                                              *)

\* Two positions less than a round apart are different places.
LEMMA Window ==
    ASSUME NEW S \in Nat \ {0}, NEW k \in Nat, NEW w \in Nat, k < w, w - k < S
    PROVE  k % S # w % S
<1>1. PICK a \in Int, b \in Int : a = k \div S /\ b = w \div S
  OBVIOUS
<1>2. k = S * a + (k % S) /\ w = S * b + (w % S)
  BY <1>1
<1>3. SUFFICES ASSUME k % S = w % S PROVE FALSE
  OBVIOUS
<1>4. PICK d \in Int : d = b - a
  OBVIOUS
<1>5. w - k = S * d
  BY <1>2, <1>3, <1>4
<1>6. d > 0
  BY <1>5
<1>7. S * d >= S
  BY <1>6
<1> QED BY <1>5, <1>7

\* A place of the buffer.
LEMMA Place == ASSUME NEW k \in Nat PROVE k % STDIN_BUFSIZE \in Indices
BY StdinAssumption DEF Indices

LEMMA RingKept ==
    ASSUME RingInv, UNCHANGED <<stdin_buffer, p_rpos, p_wpos, typed, overrun>>
    PROVE  RingInv'
BY DEF RingInv, RingExact, Range

\* Appending to a sequence of anything.
LEMMA AppendAny ==
    ASSUME NEW s, s \in Seq(Range(s)), NEW c
    PROVE  /\ Append(s, c) \in Seq(Range(Append(s, c)))
           /\ Len(s) \in Nat /\ Len(Append(s, c)) = Len(s) + 1
           /\ \A i \in 1..Len(s) : Append(s, c)[i] = s[i]
           /\ Append(s, c)[Len(s) + 1] = c
<1> DEFINE S == Range(s) \cup {c}
           t == Append(s, c)
<1>1. s \in Seq(S) /\ c \in S
  OBVIOUS
<1> HIDE DEF S
<1>2. /\ t \in Seq(S) /\ Len(s) \in Nat /\ Len(t) = Len(s) + 1
      /\ \A i \in 1..Len(s) : t[i] = s[i]
      /\ t[Len(s) + 1] = c
  BY <1>1
<1> HIDE DEF t
<1>3. t \in Seq(Range(t))
  <2>1. DOMAIN t = 1..Len(t) /\ Len(t) \in Nat
    BY <1>2
  <2>2. \A i \in 1..Len(t) : t[i] \in Range(t)
    BY <2>1 DEF Range
  <2>3. t = [i \in 1..Len(t) |-> t[i]]
    BY <1>2
  <2> QED BY <2>1, <2>2, <2>3
<1> QED BY <1>2, <1>3 DEF t

\* dev_stdin_write, whatever the character is.
LEMMA WriteKeepsRing ==
    ASSUME RingInv, NEW c, dev_stdin_write(c), p_rpos' = p_rpos
    PROVE  RingInv'
<1>1. CASE c = NO
  BY <1>1, RingKept DEF dev_stdin_write
<1>2. CASE c # NO
  <2> DEFINE full == ~(p_wpos - p_rpos < STDIN_BUFSIZE)
  <2>1. /\ stdin_buffer' = [stdin_buffer EXCEPT ![p_wpos % STDIN_BUFSIZE] = c]
        /\ p_wpos' = IF full THEN p_wpos ELSE p_wpos + 1
        /\ typed' = Append(typed, c)
        /\ overrun' = (overrun \/ p_wpos - p_rpos >= STDIN_BUFSIZE)
    BY <1>2 DEF dev_stdin_write, Store
  <2>2. /\ p_rpos \in Nat /\ p_wpos \in Nat /\ STDIN_BUFSIZE \in Nat \ {0}
        /\ DOMAIN stdin_buffer = Indices /\ typed \in Seq(Range(typed))
        /\ p_wpos \in p_rpos..(p_rpos + STDIN_BUFSIZE)
    BY StdinAssumption DEF RingInv, RingExact
  <2>3. /\ typed' \in Seq(Range(typed')) /\ Len(typed) \in Nat /\ Len(typed') = Len(typed) + 1
        /\ \A i \in 1..Len(typed) : typed'[i] = typed[i]
        /\ typed'[Len(typed) + 1] = c
    BY <2>1, <2>2, AppendAny
  <2>4. /\ DOMAIN stdin_buffer' = Indices
        /\ stdin_buffer'[p_wpos % STDIN_BUFSIZE] = c
        /\ \A i \in Indices : i # p_wpos % STDIN_BUFSIZE => stdin_buffer'[i] = stdin_buffer[i]
    BY <2>1, <2>2, Place
  <2>5. p_wpos' \in Nat /\ p_wpos' \in p_rpos..(p_rpos + STDIN_BUFSIZE)
    BY <2>1, <2>2
  <2>6. ASSUME ~overrun'
        PROVE  /\ p_wpos' = Len(typed')
               /\ \A k \in p_rpos..(p_wpos' - 1) : stdin_buffer'[k % STDIN_BUFSIZE] = typed'[k + 1]
    <3>1. ~overrun /\ p_wpos - p_rpos < STDIN_BUFSIZE
      <4>1. ~overrun /\ ~(p_wpos - p_rpos >= STDIN_BUFSIZE)
        BY <2>1, <2>6, Zenon
      <4> QED BY <2>2, <4>1
    <3>2. /\ p_wpos = Len(typed) /\ p_wpos' = p_wpos + 1
          /\ \A k \in p_rpos..(p_wpos - 1) : stdin_buffer[k % STDIN_BUFSIZE] = typed[k + 1]
      BY <2>1, <3>1 DEF RingInv, RingExact
    <3>3. ASSUME NEW k \in p_rpos..(p_wpos' - 1)
          PROVE  stdin_buffer'[k % STDIN_BUFSIZE] = typed'[k + 1]
      <4>1. CASE k = p_wpos
        BY <2>3, <2>4, <3>2, <4>1
      <4>2. CASE k # p_wpos
        <5>1. /\ k \in Nat /\ k \in p_rpos..(p_wpos - 1) /\ k < p_wpos
              /\ p_wpos - k < STDIN_BUFSIZE /\ k + 1 \in 1..Len(typed)
          BY <2>2, <3>1, <3>2, <4>2
        <5>2. k % STDIN_BUFSIZE # p_wpos % STDIN_BUFSIZE
          BY <2>2, <5>1, Window
        <5>3. stdin_buffer'[k % STDIN_BUFSIZE] = stdin_buffer[k % STDIN_BUFSIZE]
          BY <2>4, <5>1, <5>2, Place
        <5> QED BY <2>3, <3>2, <5>1, <5>3
      <4> QED BY <4>1, <4>2
    <3> QED BY <2>3, <3>2, <3>3
  <2> QED BY <2>2, <2>3, <2>4, <2>5, <2>6 DEF RingInv, RingExact
<1> QED BY <1>1, <1>2

\* A reader takes the oldest character out.
LEMMA TakeKeepsRing ==
    ASSUME RingInv, p_rpos < p_wpos, p_rpos' = p_rpos + 1,
           UNCHANGED <<stdin_buffer, p_wpos, typed, overrun>>
    PROVE  RingInv'
<1>1. p_rpos \in Nat /\ p_wpos \in Nat /\ STDIN_BUFSIZE \in Nat \ {0}
      /\ p_wpos \in p_rpos..(p_rpos + STDIN_BUFSIZE)
  BY StdinAssumption DEF RingInv, RingExact
<1>2. p_rpos' \in Nat /\ p_wpos \in p_rpos'..(p_rpos' + STDIN_BUFSIZE)
  BY <1>1
<1>3. \A k \in p_rpos'..(p_wpos - 1) : k \in p_rpos..(p_wpos - 1)
  BY <1>1
<1> QED BY <1>2, <1>3 DEF RingInv, RingExact, Range

-----------------------------------------------------------------------------
(* The readers.                                                             *)

\* Taking one element out of a queue without duplicates.
LEMMA RemoveDistinct ==
    ASSUME NEW S, NEW s \in Seq(S), Distinct(s), NEW i \in 1..Len(s)
    PROVE  /\ RemoveAt(s, i) \in Seq(S) /\ Distinct(RemoveAt(s, i))
           /\ Range(RemoveAt(s, i)) = Range(s) \ {s[i]}
<1> DEFINE t == RemoveAt(s, i)
<1>1. /\ t \in Seq(S) /\ Len(t) = Len(s) - 1 /\ Len(s) \in Nat
      /\ \A j \in 1..(Len(s) - 1) : t[j] = IF j < i THEN s[j] ELSE s[j + 1]
  BY RemoveAtFacts
<1> HIDE DEF t
<1>2. DOMAIN t = 1..(Len(s) - 1) /\ DOMAIN s = 1..Len(s)
  BY <1>1
<1>3. Distinct(t)
  <2>1. SUFFICES ASSUME NEW j \in 1..(Len(s) - 1), NEW k \in 1..(Len(s) - 1), t[j] = t[k] PROVE j = k
    BY <1>1 DEF Distinct
  <2>2. PICK a \in 1..Len(s) : t[j] = s[a] /\ a = IF j < i THEN j ELSE j + 1
    BY <1>1
  <2>3. PICK b \in 1..Len(s) : t[k] = s[b] /\ b = IF k < i THEN k ELSE k + 1
    BY <1>1
  <2>4. a = b
    BY <2>1, <2>2, <2>3 DEF Distinct
  <2> QED BY <2>2, <2>3, <2>4
<1>4. ASSUME NEW j \in 1..(Len(s) - 1) PROVE t[j] \in Range(s) \ {s[i]}
  <2>1. PICK k \in 1..Len(s) : t[j] = s[k] /\ k # i
    BY <1>1
  <2> QED BY <1>2, <2>1 DEF Range, Distinct
<1>5. ASSUME NEW k \in 1..Len(s), k # i PROVE s[k] \in Range(t)
  <2>1. PICK j \in 1..(Len(s) - 1) : t[j] = s[k]
    <3>1. CASE k < i
      BY <1>1, <3>1
    <3>2. CASE k > i
      <4>1. k - 1 \in 1..(Len(s) - 1) /\ ~(k - 1 < i) /\ (k - 1) + 1 = k
        BY <1>1, <3>2
      <4> QED BY <1>1, <4>1
    <3> QED BY <1>5, <3>1, <3>2
  <2> QED BY <1>2, <2>1 DEF Range
<1>6. Range(t) = Range(s) \ {s[i]}
  BY <1>2, <1>4, <1>5 DEF Range
<1> QED BY <1>1, <1>3, <1>6 DEF t

LEMMA UsersFacts == Users \subseteq Procs /\ Idle \notin Users /\ IsFiniteSet(Users)
BY StdinAssumption, FS_RemoveElement DEF Users

\* The running process moves on to l, and perhaps gives up the processor.
LEMMA MoveKeepsReaders ==
    ASSUME ReadersInv, RunInv, NEW l \in Pcs, pc' = [pc EXCEPT ![current] = l],
           pc[current] # "idle", l # "idle",
           pc[current] \in {"sched", "wake"} <=> l \in {"sched", "wake"},
           l \in {"read", "sched", "trap_ret", "exit"} => current' = current,
           \A p \in Procs : state'[p] = "ZOMBIE" =>
                \/ state[p] = "ZOMBIE" /\ (p = current => l \in {"exit", "dead"})
                \/ p = current /\ l = "exit",
           UNCHANGED <<wait_queue, wakeup_flags, irq, p_rpos, p_wpos>>
    PROVE  ReadersInv'
<1>1. /\ current \in Procs /\ pc \in [Procs -> Pcs]
      /\ pc' \in [Procs -> Pcs] /\ pc'[current] = l
      /\ \A p \in Procs : p # current => pc'[p] = pc[p]
  BY DEF ReadersInv, RunInv, SchedTypeOK
<1>2. ASSUME NEW p \in Procs
      PROVE  /\ pc'[p] = "idle" <=> p = Idle
             /\ pc'[p] \in {"read", "sched", "trap_ret", "exit"} => p = current'
             /\ state'[p] = "ZOMBIE" => pc'[p] \in {"exit", "dead"}
             /\ pc'[p] \in {"sched", "wake"} <=> pc[p] \in {"sched", "wake"}
  <2>1. CASE p = current
    BY <1>1, <2>1 DEF ReadersInv
  <2>2. CASE p # current
    BY <1>1, <2>2 DEF ReadersInv
  <2> QED BY <2>1, <2>2
<1>3. WaitersExact'
  BY <1>2, UsersFacts DEF ReadersInv, WaitersExact
<1> QED BY <1>1, <1>2, <1>3 DEF ReadersInv

\* Nothing of the readers' changes, except who runs and who is runnable.
LEMMA StayKeepsReaders ==
    ASSUME ReadersInv, UNCHANGED <<pc, wait_queue, wakeup_flags, irq, p_rpos, p_wpos>>,
           current' = current \/ pc[current] \notin {"read", "sched", "trap_ret", "exit"},
           \A p \in Procs : state'[p] = "ZOMBIE" => state[p] = "ZOMBIE"
    PROVE  ReadersInv'
<1>1. WaitersExact'
  BY DEF ReadersInv, WaitersExact, Range
<1> QED BY <1>1 DEF ReadersInv

-----------------------------------------------------------------------------
(* The scheduler's part, for the calls the actions make.                    *)

LEMMA ScheduleKeeps ==
    ASSUME RunInv, Schedule
    PROVE  RunInv' /\ state' = state
BY ScheduleFacts DEF RunInv

LEMMA WakeupKeeps ==
    ASSUME RunInv, NEW p \in Procs, state[p] # "ZOMBIE", WakeupProc(p),
           UNCHANGED <<current, need_resched>>
    PROVE  RunInv' /\ state' = [state EXCEPT ![p] = "RUNNABLE"]
<1>1. /\ SchedTypeOK' /\ RunQueueExact' /\ panic' = panic
      /\ state' = [state EXCEPT ![p] = "RUNNABLE"]
  BY WakeupProcFacts DEF RunInv
<1>2. state'[Idle] = "RUNNABLE"
  BY <1>1, SchedAssumption DEF RunInv, SchedTypeOK
<1> QED BY <1>1, <1>2 DEF RunInv

\* The running process, not idle, goes to sleep or dies.
LEMMA StopKeeps ==
    ASSUME RunInv, current # Idle, NEW s \in {"SLEEPING", "ZOMBIE"},
           state' = [state EXCEPT ![current] = s], wait_state' \in [Procs -> WaitStates],
           UNCHANGED <<time_slice, need_resched, run_list, current, panic>>
    PROVE  RunInv'
<1>1. current \in Procs /\ state \in [Procs -> States] /\ s \in States
  BY DEF RunInv, SchedTypeOK, States
<1>2. state' \in [Procs -> States] /\ \A p \in Procs : p # current => state'[p] = state[p]
  BY <1>1
<1>3. SchedTypeOK' /\ state'[Idle] = "RUNNABLE" /\ panic' = "none"
  BY <1>2, SchedAssumption DEF RunInv, SchedTypeOK
<1>4. RunQueueExact'
  BY <1>2 DEF RunInv, RunQueueExact, OnRunList
<1> QED BY <1>3, <1>4 DEF RunInv

LEMMA TickKeepsRun ==
    ASSUME RunInv, ProcTick(current), UNCHANGED <<state, wait_state, run_list, current, panic>>
    PROVE  RunInv'
<1>1. time_slice' \in [Procs -> 0..MAX_TIME_SLICE] /\ need_resched' \in [Procs -> BOOLEAN]
  BY ProcTickFacts DEF RunInv
<1> QED BY <1>1 DEF RunInv, SchedTypeOK, RunQueueExact, OnRunList

LEMMA RunKept ==
    ASSUME RunInv, UNCHANGED schedVars PROVE RunInv'
BY DEF RunInv, SchedTypeOK, RunQueueExact, OnRunList, schedVars

-----------------------------------------------------------------------------
(* The actions that change the wait queue.                                  *)

\* Between the look at the buffer and the sleep nothing comes in: interrupts are
\* off, so the buffer is still empty when the reader joins the queue.
LEMMA ReadWaitKeeps == ASSUME IInv, ReadWait PROVE IInv'
<1>0. RunInv /\ RingInv /\ ReadersInv
  BY DEF IInv
<1>1. /\ pc[current] = "read" /\ irq = "none" /\ p_rpos >= p_wpos
      /\ state' = [state EXCEPT ![current] = "SLEEPING"]
      /\ wait_state' = [wait_state EXCEPT ![current] = "KBD"]
      /\ wait_queue' = Append(wait_queue, current)
      /\ wakeup_flags' = [wakeup_flags EXCEPT ![current] = "INTERRUPTED"]
      /\ pc' = [pc EXCEPT ![current] = "sched"]
      /\ UNCHANGED <<time_slice, need_resched, run_list, current, panic,
                     stdin_buffer, p_rpos, p_wpos, typed, overrun, irq>>
  BY DEF ReadWait, At, Goto, bufVars
<1>2. /\ current \in Procs /\ current # Idle /\ current \in Users
      /\ state \in [Procs -> States] /\ wait_state \in [Procs -> WaitStates]
      /\ pc \in [Procs -> Pcs] /\ wakeup_flags \in [Procs -> {"INTERRUPTED", "KBD"}]
  BY <1>0, <1>1 DEF RunInv, SchedTypeOK, ReadersInv, Users
<1>3. RingInv'
  BY <1>0, <1>1, RingKept
<1>4. RunInv'
  <2>1. wait_state' \in [Procs -> WaitStates]
    BY <1>1, <1>2 DEF WaitStates
  <2> QED BY <1>0, <1>1, <1>2, <2>1, StopKeeps
<1>5. p_rpos = p_wpos
  BY <1>0, <1>1 DEF RingInv, RingExact
<1>6. wait_queue \in Seq(Users) /\ Distinct(wait_queue) /\ current \notin Range(wait_queue)
  BY <1>0, <1>1, <1>2 DEF ReadersInv, WaitersExact, Distinct
<1>7. /\ wait_queue' \in Seq(Users) /\ Distinct(wait_queue')
      /\ Range(wait_queue') = Range(wait_queue) \cup {current}
  BY <1>1, <1>2, <1>6, AppendFacts
<1>8. /\ pc' \in [Procs -> Pcs] /\ wakeup_flags' \in [Procs -> {"INTERRUPTED", "KBD"}]
      /\ pc'[current] = "sched" /\ wakeup_flags'[current] = "INTERRUPTED" /\ state'[current] = "SLEEPING"
      /\ \A p \in Procs : p # current =>
            pc'[p] = pc[p] /\ wakeup_flags'[p] = wakeup_flags[p] /\ state'[p] = state[p]
  BY <1>1, <1>2 DEF Pcs
<1>9. ASSUME NEW p \in Procs
      PROVE  /\ pc'[p] = "idle" <=> p = Idle
             /\ pc'[p] \in {"read", "sched", "trap_ret", "exit"} => p = current'
             /\ state'[p] = "ZOMBIE" => pc'[p] \in {"exit", "dead"}
  BY <1>0, <1>1, <1>2, <1>8 DEF ReadersInv
<1>10. WaitersExact'
  <2>1. ASSUME NEW p \in Users
        PROVE  p \in Range(wait_queue') <=> pc'[p] \in {"sched", "wake"} /\ wakeup_flags'[p] = "INTERRUPTED"
    BY <1>0, <1>7, <1>8, UsersFacts DEF ReadersInv, WaitersExact
  <2> QED BY <1>1, <1>5, <1>7, <2>1 DEF WaitersExact, Distinct
<1>11. ReadersInv'
  BY <1>1, <1>7, <1>8, <1>9, <1>10 DEF ReadersInv
<1> QED BY <1>3, <1>4, <1>11 DEF IInv

\* wakeup_queue: the first of the queue leaves it, even if it was killed meanwhile.
LEMMA InputWakeupKeeps == ASSUME IInv, InputWakeup PROVE IInv'
<1>0. RunInv /\ RingInv /\ ReadersInv
  BY DEF IInv
<1> DEFINE h == Head(wait_queue)
<1>1. /\ irq = "wakeup" /\ wakeup_flags' = [wakeup_flags EXCEPT ![h] = "KBD"]
      /\ WakeupProc(h) /\ wait_queue' = Tail(wait_queue)
      /\ irq' = IF Tail(wait_queue) = <<>> THEN "none" ELSE "wakeup"
      /\ UNCHANGED <<need_resched, current, stdin_buffer, p_rpos, p_wpos, typed, overrun, pc>>
  BY DEF InputWakeup, bufVars
<1>2. wait_queue \in Seq(Users) /\ wait_queue # <<>> /\ Distinct(wait_queue)
  BY <1>0, <1>1 DEF ReadersInv, WaitersExact, Distinct
<1>3. /\ wait_queue' \in Seq(Users) /\ h \in Users /\ h \in Range(wait_queue)
      /\ Distinct(wait_queue') /\ Range(wait_queue') = Range(wait_queue) \ {h}
  BY <1>1, <1>2, TailFacts
<1>4. h \in Procs /\ pc[h] \in {"sched", "wake"} /\ state[h] # "ZOMBIE"
  BY <1>0, <1>3, UsersFacts DEF ReadersInv, WaitersExact
<1> HIDE DEF h
<1>5. RunInv' /\ state' = [state EXCEPT ![h] = "RUNNABLE"]
  BY <1>0, <1>1, <1>4, WakeupKeeps
<1>6. RingInv'
  BY <1>0, <1>1, RingKept
<1>7. /\ state \in [Procs -> States] /\ wakeup_flags \in [Procs -> {"INTERRUPTED", "KBD"}]
  BY <1>0 DEF RunInv, SchedTypeOK, ReadersInv
<1>8. /\ wakeup_flags' \in [Procs -> {"INTERRUPTED", "KBD"}]
      /\ \A p \in Procs : state'[p] = "ZOMBIE" => state[p] = "ZOMBIE"
      /\ wakeup_flags'[h] = "KBD" /\ \A p \in Procs : p # h => wakeup_flags'[p] = wakeup_flags[p]
  BY <1>1, <1>4, <1>5, <1>7
<1>9. WaitersExact'
  <2>1. ASSUME NEW p \in Users
        PROVE  p \in Range(wait_queue') <=> pc'[p] \in {"sched", "wake"} /\ wakeup_flags'[p] = "INTERRUPTED"
    BY <1>0, <1>1, <1>3, <1>8, UsersFacts DEF ReadersInv, WaitersExact
  <2>2. wait_queue' # <<>> => irq' # "none"
    BY <1>1
  <2> QED BY <1>3, <2>1, <2>2 DEF WaitersExact, Distinct
<1>10. irq' \in {"none", "wakeup"} /\ (irq' = "wakeup" => wait_queue' # <<>>)
  BY <1>1
<1>11. ReadersInv'
  BY <1>0, <1>1, <1>3, <1>8, <1>9, <1>10 DEF ReadersInv
<1> QED BY <1>5, <1>6, <1>11 DEF IInv

\* wait_current_del: a reader the keyboard did not wake takes itself off the queue.
LEMMA ReadWakeKeeps == ASSUME IInv, ReadWake PROVE IInv'
<1>0. RunInv /\ RingInv /\ ReadersInv
  BY DEF IInv
<1> DEFINE i == CHOOSE j \in 1..Len(wait_queue) : wait_queue[j] = current
           l == IF wakeup_flags[current] = "KBD" THEN "read" ELSE "trap_ret"
<1>1. /\ pc[current] = "wake" /\ irq = "none"
      /\ wait_queue' = IF current \in Range(wait_queue) THEN RemoveAt(wait_queue, i) ELSE wait_queue
      /\ wakeup_flags' = [wakeup_flags EXCEPT ![current] = "KBD"]
      /\ pc' = [pc EXCEPT ![current] = l]
      /\ UNCHANGED <<schedVars, stdin_buffer, p_rpos, p_wpos, typed, overrun, irq>>
  BY DEF ReadWake, At, Goto, bufVars
<1>2. /\ current \in Procs /\ current # Idle /\ current \in Users
      /\ pc \in [Procs -> Pcs] /\ wakeup_flags \in [Procs -> {"INTERRUPTED", "KBD"}]
      /\ wait_queue \in Seq(Users) /\ Distinct(wait_queue)
  BY <1>0, <1>1 DEF RunInv, SchedTypeOK, ReadersInv, WaitersExact, Distinct, Users
<1>3. /\ wait_queue' \in Seq(Users) /\ Distinct(wait_queue')
      /\ Range(wait_queue') = Range(wait_queue) \ {current}
      /\ wait_queue' # <<>> => wait_queue # <<>>
  <2>1. CASE current \in Range(wait_queue)
    <3>1. i \in 1..Len(wait_queue) /\ wait_queue[i] = current
      <4>1. \E j \in 1..Len(wait_queue) : wait_queue[j] = current
        BY <1>2, <2>1 DEF Range
      <4> QED BY <4>1
    <3> HIDE DEF i
    <3>2. wait_queue' = RemoveAt(wait_queue, i)
      BY <1>1, <2>1
    <3>3. wait_queue # <<>>
      BY <1>2, <3>1
    <3> QED BY <1>2, <3>1, <3>2, <3>3, RemoveDistinct
  <2>2. CASE current \notin Range(wait_queue)
    BY <1>1, <1>2, <2>2
  <2> QED BY <2>1, <2>2
<1> HIDE DEF i
<1>4. l \in {"read", "trap_ret"} /\ l \in Pcs
  BY DEF Pcs
<1> HIDE DEF l
<1>5. /\ pc' \in [Procs -> Pcs] /\ wakeup_flags' \in [Procs -> {"INTERRUPTED", "KBD"}]
      /\ pc'[current] = l
      /\ \A p \in Procs : p # current => pc'[p] = pc[p] /\ wakeup_flags'[p] = wakeup_flags[p]
  BY <1>1, <1>2, <1>4
<1>6. /\ state' = state /\ current' = current
  BY <1>1 DEF schedVars
<1>7. ASSUME NEW p \in Procs
      PROVE  /\ pc'[p] = "idle" <=> p = Idle
             /\ pc'[p] \in {"read", "sched", "trap_ret", "exit"} => p = current'
             /\ state'[p] = "ZOMBIE" => pc'[p] \in {"exit", "dead"}
  BY <1>0, <1>1, <1>2, <1>4, <1>5, <1>6 DEF ReadersInv
<1>8. WaitersExact'
  <2>1. ASSUME NEW p \in Users
        PROVE  p \in Range(wait_queue') <=> pc'[p] \in {"sched", "wake"} /\ wakeup_flags'[p] = "INTERRUPTED"
    BY <1>0, <1>3, <1>4, <1>5, UsersFacts DEF ReadersInv, WaitersExact
  <2>2. wait_queue' # <<>> => p_rpos' = p_wpos'
    BY <1>0, <1>1, <1>3 DEF ReadersInv, WaitersExact
  <2> QED BY <1>3, <2>1, <2>2 DEF WaitersExact, Distinct
<1>9. ReadersInv'
  BY <1>0, <1>1, <1>3, <1>5, <1>7, <1>8 DEF ReadersInv
<1> QED BY <1>0, <1>1, <1>9, RunKept, RingKept DEF IInv

\* The interrupt of a device: the character, if there is one, wakes all that wait.
LEMMA InputKeeps ==
    ASSUME IInv, NEW d, Input(d) PROVE IInv'
<1>0. RunInv /\ RingInv /\ ReadersInv
  BY DEF IInv
<1>1. PICK c : dev_stdin_write(c)
  BY DEF Input
<1>2. /\ (pc' = [pc EXCEPT ![current] = "trap_ret"] /\ pc[current] = "user") \/ pc' = pc
      /\ irq = "none"
      /\ UNCHANGED <<schedVars, p_rpos, wait_queue, wakeup_flags>>
  BY DEF Input, InterruptsOn, Goto, readVars
<1>3. RunInv' /\ RingInv'
  BY <1>0, <1>1, <1>2, RunKept, WriteKeepsRing
<1>4. \/ irq' = irq /\ p_wpos' = p_wpos
      \/ irq' = "none" /\ wait_queue = <<>>
      \/ irq' = "wakeup" /\ wait_queue # <<>>
  BY <1>1 DEF dev_stdin_write
<1>5. /\ current \in Procs /\ pc \in [Procs -> Pcs] /\ state' = state /\ current' = current
      /\ wait_queue' = wait_queue /\ wakeup_flags' = wakeup_flags /\ p_rpos' = p_rpos
  BY <1>0, <1>2 DEF RunInv, SchedTypeOK, ReadersInv, schedVars
<1>6. /\ pc' \in [Procs -> Pcs]
      /\ \A p \in Procs : pc'[p] = pc[p] \/ (p = current /\ pc[p] = "user" /\ pc'[p] = "trap_ret")
  BY <1>2, <1>5 DEF Pcs
<1>7. ASSUME NEW p \in Procs
      PROVE  /\ pc'[p] = "idle" <=> p = Idle
             /\ pc'[p] \in {"read", "sched", "trap_ret", "exit"} => p = current'
             /\ state'[p] = "ZOMBIE" => pc'[p] \in {"exit", "dead"}
             /\ pc'[p] \in {"sched", "wake"} <=> pc[p] \in {"sched", "wake"}
  BY <1>0, <1>5, <1>6 DEF ReadersInv
<1>8. /\ irq' \in {"none", "wakeup"}
      /\ irq' = "wakeup" => wait_queue # <<>>
      /\ wait_queue # <<>> /\ irq' = "none" => p_rpos' = p_wpos'
  BY <1>0, <1>2, <1>4, <1>5 DEF ReadersInv, WaitersExact
<1>9. WaitersExact'
  BY <1>0, <1>5, <1>7, <1>8, UsersFacts DEF ReadersInv, WaitersExact
<1>10. ReadersInv'
  BY <1>0, <1>5, <1>6, <1>7, <1>8, <1>9 DEF ReadersInv
<1> QED BY <1>3, <1>10 DEF IInv

LEMMA InitIInv == Init => IInv
<1> SUFFICES ASSUME Init PROVE IInv
  OBVIOUS
<1> USE SchedAssumption, StdinAssumption
<1>1. run_list \in Seq(Users) /\ Distinct(run_list) /\ Range(run_list) = Users
  <2>1. run_list \in [1..Cardinality(Users) -> Users] /\ Range(run_list) = Users
    BY DEF Init
  <2> QED BY <2>1, UsersFacts, EnumerationFacts
<1>2. SchedTypeOK
  <2>1. run_list \in Seq(Procs)
    BY <1>1, UsersFacts
  <2>2. time_slice \in [Procs -> 0..MAX_TIME_SLICE]
    BY DEF Init
  <2> QED BY <2>1, <2>2 DEF Init, SchedTypeOK, States, WaitStates
<1>3. RunInv
  <2>1. RunQueueExact
    BY <1>1 DEF Init, RunQueueExact, OnRunList, Distinct, Users
  <2> QED BY <1>2, <2>1 DEF RunInv, Init
<1>4. RingInv
  <2>1. p_rpos = 0 /\ p_wpos = 0 /\ typed = <<>> /\ DOMAIN stdin_buffer = Indices
    BY DEF Init, Indices
  <2>2. typed \in Seq(Range(typed)) /\ Len(typed) = 0
    BY <2>1
  <2> QED BY <2>1, <2>2 DEF RingInv, RingExact
<1>5. ReadersInv
  <2>1. wait_queue = <<>> /\ Range(wait_queue) = {}
    BY DEF Init, Range
  <2>2. \A p \in Users : pc[p] = "user"
    BY DEF Init, Users
  <2>3. WaitersExact
    BY <2>1, <2>2 DEF WaitersExact
  <2> QED BY <2>1, <2>3 DEF Init, ReadersInv, Pcs
<1> QED BY <1>3, <1>4, <1>5 DEF IInv

\* The steps of the running process that leave the queue and the buffer alone.
LEMMA NextIInv == IInv /\ [Next]_vars => IInv'
<1> SUFFICES ASSUME IInv, [Next]_vars PROVE IInv'
  OBVIOUS
<1>0. RunInv /\ RingInv /\ ReadersInv
  BY DEF IInv
<1>a. current \in Procs /\ (pc[current] = "idle" <=> current = Idle)
      /\ (state[current] = "ZOMBIE" => pc[current] \in {"exit", "dead"})
  BY <1>0 DEF RunInv, SchedTypeOK, ReadersInv
<1>1. ASSUME NEW len \in Lens, Read(len) PROVE IInv'
  <2>1. /\ pc[current] = "user" /\ pc' = [pc EXCEPT ![current] = "read"]
        /\ UNCHANGED <<schedVars, stdin_buffer, p_rpos, p_wpos, typed, overrun, wait_queue, wakeup_flags, irq>>
    BY <1>1 DEF Read, At, Goto, bufVars
  <2>2. current' = current /\ state' = state
    BY <2>1 DEF schedVars
  <2>3. ReadersInv'
    BY <1>0, <1>a, <2>1, <2>2, MoveKeepsReaders DEF Pcs
  <2> QED BY <1>0, <2>1, <2>3, RunKept, RingKept DEF IInv
<1>2. ASSUME NEW p \in Users, Kill(p) PROVE IInv'
  <2>1. /\ pc[current] = "user" /\ pc' = [pc EXCEPT ![current] = "trap_ret"]
        /\ state[p] # "ZOMBIE"
        /\ WakeupProc(p) \/ UNCHANGED <<state, wait_state, run_list, time_slice, panic>>
        /\ UNCHANGED <<need_resched, current, stdin_buffer, p_rpos, p_wpos, typed, overrun,
                       wait_queue, wakeup_flags, irq>>
    BY <1>2 DEF Kill, At, Goto, bufVars, readVars
  <2>2. p \in Procs /\ state \in [Procs -> States]
    BY <1>0, UsersFacts DEF RunInv, SchedTypeOK
  <2>3. RunInv' /\ (state' = state \/ state' = [state EXCEPT ![p] = "RUNNABLE"])
    <3>1. CASE WakeupProc(p)
      BY <1>0, <2>1, <2>2, <3>1, WakeupKeeps
    <3>2. CASE UNCHANGED <<state, wait_state, run_list, time_slice, panic>>
      BY <1>0, <2>1, <3>2, RunKept DEF schedVars
    <3> QED BY <2>1, <3>1, <3>2
  <2>4. \A q \in Procs : state'[q] = "ZOMBIE" => state[q] = "ZOMBIE"
    BY <2>2, <2>3
  <2>5. ReadersInv'
    BY <1>0, <1>a, <2>1, <2>4, MoveKeepsReaders DEF Pcs
  <2> QED BY <1>0, <2>1, <2>3, <2>5, RingKept DEF IInv
<1>3. CASE ReadChar
  <2>1. /\ pc[current] = "read" /\ irq = "none" /\ p_rpos < p_wpos /\ p_rpos' = p_rpos + 1
        /\ UNCHANGED <<schedVars, stdin_buffer, p_wpos, typed, overrun, wait_queue, wakeup_flags, pc, irq>>
    BY <1>3 DEF ReadChar, At
  <2>2. wait_queue = <<>>
    BY <1>0, <2>1 DEF ReadersInv, WaitersExact, RingInv
  <2>3. RingInv' /\ RunInv'
    BY <1>0, <2>1, TakeKeepsRing, RunKept
  <2>4. WaitersExact'
    BY <1>0, <2>1, <2>2 DEF ReadersInv, WaitersExact
  <2>5. state' = state /\ current' = current
    BY <2>1 DEF schedVars
  <2>6. ReadersInv'
    BY <1>0, <2>1, <2>4, <2>5 DEF ReadersInv
  <2> QED BY <2>3, <2>6 DEF IInv
<1>4. CASE ReadDone
  <2>1. /\ pc[current] = "read" /\ pc' = [pc EXCEPT ![current] = "trap_ret"]
        /\ UNCHANGED <<schedVars, stdin_buffer, p_rpos, p_wpos, typed, overrun, wait_queue, wakeup_flags, irq>>
    BY <1>4 DEF ReadDone, At, Goto, bufVars, readVars
  <2>2. current' = current /\ state' = state
    BY <2>1 DEF schedVars
  <2>3. ReadersInv'
    BY <1>0, <1>a, <2>1, <2>2, MoveKeepsReaders DEF Pcs
  <2> QED BY <1>0, <2>1, <2>3, RunKept, RingKept DEF IInv
<1>5. CASE ReadWait
  BY <1>5, ReadWaitKeeps
<1>6. CASE ReadSched
  <2>1. /\ pc[current] = "sched" /\ pc' = [pc EXCEPT ![current] = "wake"] /\ Schedule
        /\ UNCHANGED <<stdin_buffer, p_rpos, p_wpos, typed, overrun, wait_queue, wakeup_flags, irq>>
    BY <1>6 DEF ReadSched, At, Goto, bufVars, readVars
  <2>2. RunInv' /\ state' = state
    BY <1>0, <2>1, ScheduleKeeps
  <2>3. ReadersInv'
    BY <1>0, <1>a, <2>1, <2>2, MoveKeepsReaders DEF Pcs
  <2> QED BY <1>0, <2>1, <2>2, <2>3, RingKept DEF IInv
<1>7. CASE ReadWake
  BY <1>7, ReadWakeKeeps
<1>8. CASE TrapRetKilled
  <2>1. /\ pc[current] = "trap_ret" /\ pc' = [pc EXCEPT ![current] = "exit"]
        /\ state' = [state EXCEPT ![current] = "ZOMBIE"]
        /\ UNCHANGED <<wait_state, time_slice, need_resched, run_list, current, panic,
                       stdin_buffer, p_rpos, p_wpos, typed, overrun, wait_queue, wakeup_flags, irq>>
    BY <1>8 DEF TrapRetKilled, At, Goto, bufVars, readVars
  <2>2. current # Idle /\ wait_state' \in [Procs -> WaitStates] /\ state \in [Procs -> States]
    BY <1>0, <1>a, <2>1 DEF RunInv, SchedTypeOK
  <2>3. RunInv'
    BY <1>0, <2>1, <2>2, StopKeeps
  <2>4. \A p \in Procs : state'[p] = "ZOMBIE" => p = current \/ state[p] = "ZOMBIE"
    BY <2>1, <2>2
  <2>5. ReadersInv'
    BY <1>0, <1>a, <2>1, <2>4, MoveKeepsReaders DEF Pcs
  <2> QED BY <1>0, <2>1, <2>3, <2>5, RingKept DEF IInv
<1>9. CASE ExitSched
  <2>1. /\ pc[current] = "exit" /\ pc' = [pc EXCEPT ![current] = "dead"] /\ Schedule
        /\ UNCHANGED <<stdin_buffer, p_rpos, p_wpos, typed, overrun, wait_queue, wakeup_flags, irq>>
    BY <1>9 DEF ExitSched, At, Goto, bufVars, readVars
  <2>2. RunInv' /\ state' = state
    BY <1>0, <2>1, ScheduleKeeps
  <2>3. ReadersInv'
    BY <1>0, <1>a, <2>1, <2>2, MoveKeepsReaders DEF Pcs
  <2> QED BY <1>0, <2>1, <2>2, <2>3, RingKept DEF IInv
<1>10. CASE TrapRet
  <2>1. /\ pc[current] = "trap_ret" /\ pc' = [pc EXCEPT ![current] = "user"]
        /\ Schedule \/ UNCHANGED schedVars
        /\ UNCHANGED <<stdin_buffer, p_rpos, p_wpos, typed, overrun, wait_queue, wakeup_flags, irq>>
    BY <1>10 DEF TrapRet, At, Goto, bufVars, readVars
  <2>2. RunInv' /\ state' = state
    BY <1>0, <2>1, ScheduleKeeps, RunKept DEF schedVars
  <2>3. ReadersInv'
    BY <1>0, <1>a, <2>1, <2>2, MoveKeepsReaders DEF Pcs
  <2> QED BY <1>0, <2>1, <2>2, <2>3, RingKept DEF IInv
<1>11. CASE CpuIdle
  <2>1. /\ pc[current] = "idle" /\ Schedule
        /\ UNCHANGED <<stdin_buffer, p_rpos, p_wpos, typed, overrun, wait_queue, wakeup_flags, pc, irq>>
    BY <1>11 DEF CpuIdle, At, bufVars, readVars
  <2>2. RunInv' /\ state' = state
    BY <1>0, <2>1, ScheduleKeeps
  <2>3. ReadersInv'
    BY <1>0, <2>1, <2>2, StayKeepsReaders
  <2> QED BY <1>0, <2>1, <2>2, <2>3, RingKept DEF IInv
<1>12. CASE Tick
  <2>1. /\ (pc[current] = "user" /\ pc' = [pc EXCEPT ![current] = "trap_ret"]) \/ pc' = pc
        /\ ProcTick(current)
        /\ UNCHANGED <<state, wait_state, run_list, current, panic, stdin_buffer, p_rpos, p_wpos,
                       typed, overrun, wait_queue, wakeup_flags, irq>>
    BY <1>12 DEF Tick, Goto, bufVars, readVars
  <2>2. RunInv'
    BY <1>0, <2>1, TickKeepsRun
  <2>3. CASE pc[current] = "user" /\ pc' = [pc EXCEPT ![current] = "trap_ret"]
    <3>1. ReadersInv'
      BY <1>0, <1>a, <2>1, <2>3, MoveKeepsReaders DEF Pcs
    <3> QED BY <1>0, <2>1, <2>2, <3>1, RingKept DEF IInv
  <2>4. CASE pc' = pc
    <3>1. ReadersInv'
      BY <1>0, <2>1, <2>4, StayKeepsReaders
    <3> QED BY <1>0, <2>1, <2>2, <3>1, RingKept DEF IInv
  <2> QED BY <2>1, <2>3, <2>4
<1>13. ASSUME NEW d \in Devices, Input(d) PROVE IInv'
  BY <1>13, InputKeeps
<1>14. ASSUME UNCHANGED <<schedVars, stdin_buffer, p_rpos, p_wpos, typed, overrun, readVars, pc, irq>>
       PROVE  IInv'
  <2>1. state' = state /\ current' = current /\ UNCHANGED <<wait_queue, wakeup_flags>>
    BY <1>14 DEF schedVars, readVars
  <2>2. ReadersInv'
    BY <1>0, <1>14, <2>1, StayKeepsReaders
  <2> QED BY <1>0, <1>14, <2>2, RunKept, RingKept DEF IInv
<1>15. ASSUME NEW d \in Devices, Arrive(d) PROVE IInv'
  BY <1>14, <1>15 DEF Arrive
<1>16. CASE InputWakeup
  BY <1>16, InputWakeupKeeps
<1>17. CASE UNCHANGED vars
  BY <1>14, <1>17 DEF vars, bufVars
<1> QED
  BY <1>1, <1>2, <1>3, <1>4, <1>5, <1>6, <1>7, <1>8, <1>9, <1>10, <1>11, <1>12, <1>13, <1>15,
     <1>16, <1>17 DEF Next, UserStep, KernelStep, HardwareStep

LEMMA IInvAlways == Spec => []IInv
BY InitIInv, NextIInv, PTL DEF Spec

-----------------------------------------------------------------------------
\* The ring buffer of dev_stdin.c never holds more than its size, and gives the
\* readers the characters dev_stdin_write was given, in their order, while none
\* came with the buffer full: whatever the devices send, whoever reads and
\* whoever is killed.
THEOREM BufferIsExact == Spec => []RingExact
<1>1. IInv => RingExact
  BY DEF IInv, RingInv
<1> QED BY <1>1, IInvAlways, PTL

\* The queue of dev_stdin_read holds exactly the readers the keyboard has not
\* woken, once each, none that was killed and left, and no reader sleeps while
\* there is something to read.
THEOREM WaitersAreExact == Spec => []WaitersExact
<1>1. IInv => WaitersExact
  BY DEF IInv, ReadersInv
<1> QED BY <1>1, IInvAlways, PTL

\* Killing readers and waking them, in any order, loses nobody from the run queue,
\* queues nobody twice, and no assertion of wakeup_proc or RR_enqueue fails.
THEOREM ReadersStayScheduled == Spec => [](RunQueueExact /\ NoAssertFails)
<1>1. IInv => RunQueueExact /\ NoAssertFails
  BY DEF IInv, RunInv, NoAssertFails
<1> QED BY <1>1, IInvAlways, PTL

-----------------------------------------------------------------------------
(* The ring of console.c, whatever the devices send.                        *)

LEMMA RemainderIs ==
    ASSUME NEW S \in Nat \ {0}, NEW x \in Int, NEW q \in Int, NEW z \in 0..(S - 1), x = S * q + z
    PROVE  x % S = z
<1>1. PICK a \in Int, b \in Int : a = x \div S /\ b = x % S
  OBVIOUS
<1>2. x = S * a + b /\ b \in 0..(S - 1)
  BY <1>1
<1>3. PICK d \in Int : d = a - q
  OBVIOUS
<1>4. S * d = z - b
  BY <1>2, <1>3
<1>5. d = 0
  <2>1. CASE d >= 1
    <3>1. S * d >= S
      BY <2>1
    <3> QED BY <1>2, <1>4, <3>1
  <2>2. CASE d <= -1
    <3>1. S * d <= -S
      BY <2>2
    <3> QED BY <1>2, <1>4, <3>1
  <2> QED BY <2>1, <2>2
<1>6. S * d = 0
  BY <1>5
<1> QED BY <1>1, <1>2, <1>4, <1>6

LEMMA RemainderPlus ==
    ASSUME NEW S \in Nat \ {0}, NEW t \in Nat, NEW x \in Nat
    PROVE  ((t % S) + x) % S = (t + x) % S
<1>1. PICK a \in Int, b \in Int : a = t \div S /\ b = t % S
  OBVIOUS
<1>2. t = S * a + b /\ b \in 0..(S - 1)
  BY <1>1
<1>3. PICK c \in Int, z \in Int : c = (b + x) \div S /\ z = (b + x) % S
  BY <1>2
<1>4. b + x = S * c + z /\ z \in 0..(S - 1)
  BY <1>2, <1>3
<1>5. PICK q \in Int : q = a + c
  OBVIOUS
<1>6. t + x = S * q + z
  BY <1>2, <1>4, <1>5
<1>7. PICK u \in Int : u = t + x
  OBVIOUS
<1>8. u % S = z
  BY <1>4, <1>5, <1>6, <1>7, RemainderIs
<1> QED BY <1>1, <1>3, <1>7, <1>8

\* The places between two positions less than a round apart.
LEMMA RemainderMinus ==
    ASSUME NEW S \in Nat \ {0}, NEW a \in Nat, NEW b \in Nat, b <= a, a - b < S
    PROVE  ((a % S) - (b % S)) % S = a - b
<1>1. PICK p \in Int, x \in Int, q \in Int, y \in Int :
        p = a \div S /\ x = a % S /\ q = b \div S /\ y = b % S
  OBVIOUS
<1>2. a = S * p + x /\ b = S * q + y
  BY <1>1
<1>3. PICK d \in Int : d = q - p
  OBVIOUS
<1>4. x - y = S * d + (a - b)
  BY <1>2, <1>3
<1>5. PICK z \in 0..(S - 1), w \in Int : z = a - b /\ w = x - y
  OBVIOUS
<1>6. w % S = z
  BY <1>3, <1>4, <1>5, RemainderIs
<1> QED BY <1>1, <1>5, <1>6

LEMMA RemainderNear ==
    ASSUME NEW S \in Nat \ {0}, NEW w \in 0..(S - 1), NEW r \in 0..(S - 1)
    PROVE  /\ (w - r) % S = IF w >= r THEN w - r ELSE w - r + S
           /\ (w + 1) % S = IF w + 1 = S THEN 0 ELSE w + 1
<1>1. PICK x \in Int : x = w - r
  OBVIOUS
<1>2. CASE w >= r
  <2>1. x = S * 0 + x /\ x \in 0..(S - 1)
    BY <1>1, <1>2
  <2>2. x % S = x
    BY <2>1, RemainderIs
  <2> QED BY <1>1, <1>2, <2>2
<1>3. CASE ~(w >= r)
  <2>1. PICK z \in 0..(S - 1) : z = x + S
    BY <1>1, <1>3
  <2>2. x = S * (-1) + z
    BY <1>1, <2>1
  <2>3. x % S = z
    BY <2>2, RemainderIs
  <2> QED BY <1>1, <1>3, <2>1, <2>3
<1>4. (w + 1) % S = IF w + 1 = S THEN 0 ELSE w + 1
  <2>1. CASE w + 1 = S
    <3>1. w + 1 = S * 1 + 0 /\ 0 \in 0..(S - 1) /\ w + 1 \in Int
      BY <2>1
    <3>2. (w + 1) % S = 0
      BY <2>1
    <3> QED BY <2>1, <3>2
  <2>2. CASE w + 1 # S
    BY <2>2
  <2> QED BY <2>1, <2>2
<1> QED BY <1>2, <1>3, <1>4

\* Sequences of the same length with the same elements.
LEMMA SameSeq ==
    ASSUME NEW s, NEW t, NEW A, NEW B, s \in Seq(A), t \in Seq(B), Len(s) = Len(t),
           \A i \in 1..Len(s) : s[i] = t[i]
    PROVE  s = t
<1>1. s = [i \in 1..Len(s) |-> s[i]] /\ t = [i \in 1..Len(t) |-> t[i]]
  OBVIOUS
<1> QED BY <1>1

IsRing(k) ==
    /\ k = [buf |-> k.buf, rpos |-> k.rpos, wpos |-> k.wpos, shift |-> k.shift, reset |-> k.reset,
            accepted |-> k.accepted, wrapped |-> k.wrapped]
    /\ DOMAIN k.buf = 0..(CONSBUFSIZE - 1)
    /\ k.rpos \in 0..(CONSBUFSIZE - 1) /\ k.wpos \in 0..(CONSBUFSIZE - 1)

\* How many characters the ring seems to hold.
Fill(k) == (k.wpos - k.rpos) % CONSBUFSIZE

\* The ring holds the characters accepted after the first t.
HoldsFrom(k, t) ==
    /\ k.accepted \in Seq(Range(k.accepted))
    /\ Len(k.accepted) \in t..(t + CONSBUFSIZE - 1)
    /\ k.rpos = t % CONSBUFSIZE /\ k.wpos = Len(k.accepted) % CONSBUFSIZE
    /\ \A i \in (t + 1)..Len(k.accepted) :
          k.buf[(i - 1) % CONSBUFSIZE] = k.accepted[i] /\ k.accepted[i] # NO

RingAt(k, t) == IsRing(k) /\ (~k.wrapped => HoldsFrom(k, t))

\* The ring m comes from k when at most j characters are put into it.
Fed(k, m, t, j) ==
    /\ RingAt(m, t) /\ Fill(m) <= Fill(k) + j
    /\ ~m.wrapped => ~k.wrapped /\ \A i \in 1..t : m.accepted[i] = k.accepted[i]

LEMMA FillFacts ==
    ASSUME NEW k, IsRing(k)
    PROVE  /\ Fill(k) \in 0..(CONSBUFSIZE - 1)
           /\ Fill(k) = IF k.wpos >= k.rpos THEN k.wpos - k.rpos ELSE k.wpos - k.rpos + CONSBUFSIZE
<1>1. PICK S \in Nat \ {0} : S = CONSBUFSIZE
  BY ConsoleAssumption
<1>2. PICK w \in 0..(S - 1), r \in 0..(S - 1) : w = k.wpos /\ r = k.rpos
  BY <1>1 DEF IsRing
<1>3. (w - r) % S = IF w >= r THEN w - r ELSE w - r + S
  BY RemainderNear
<1>4. (IF w >= r THEN w - r ELSE w - r + S) \in 0..(S - 1)
  OBVIOUS
<1>5. Fill(k) = (w - r) % S
  BY <1>1, <1>2 DEF Fill
<1> QED BY <1>1, <1>2, <1>3, <1>4, <1>5

\* The fields after a character.
LEMMA PutIs ==
    ASSUME NEW k, IsRing(k), NEW c, c # NO, NEW m, m = Put(k, c)
    PROVE  /\ IsRing(m) /\ m.rpos = k.rpos /\ m.wpos = (k.wpos + 1) % CONSBUFSIZE
           /\ m.buf = [k.buf EXCEPT ![k.wpos] = c] /\ m.accepted = Append(k.accepted, c)
           /\ m.wrapped = (k.wrapped \/ m.wpos = k.rpos)
<1>1. PICK buf, rpos, wpos, shift, reset, accepted, wrapped :
        /\ buf = k.buf /\ rpos = k.rpos /\ wpos = k.wpos /\ shift = k.shift /\ reset = k.reset
        /\ accepted = k.accepted /\ wrapped = k.wrapped
  OBVIOUS
<1>2. k = [buf |-> buf, rpos |-> rpos, wpos |-> wpos, shift |-> shift, reset |-> reset,
           accepted |-> accepted, wrapped |-> wrapped]
  BY <1>1 DEF IsRing
<1>3. PICK w, o : w = (wpos + 1) % CONSBUFSIZE /\ o = (wrapped \/ w = rpos)
  OBVIOUS
<1>4. m = [buf |-> [buf EXCEPT ![wpos] = c], rpos |-> rpos, wpos |-> w, shift |-> shift,
           reset |-> reset, accepted |-> Append(accepted, c), wrapped |-> o]
  BY <1>2, <1>3 DEF Put
<1>5. /\ m.buf = [buf EXCEPT ![wpos] = c] /\ m.rpos = rpos /\ m.wpos = w /\ m.shift = shift
      /\ m.reset = reset /\ m.accepted = Append(accepted, c)
  BY <1>4
<1>6. m.wrapped = o
  BY <1>4
<1>7. DOMAIN m.buf = DOMAIN buf
  BY <1>5
<1>8. w \in 0..(CONSBUFSIZE - 1)
  <2>1. PICK S \in Nat \ {0} : S = CONSBUFSIZE
    BY ConsoleAssumption
  <2>2. wpos \in 0..(S - 1)
    BY <1>1, <2>1 DEF IsRing
  <2>3. w = (wpos + 1) % S
    BY <1>3, <2>1
  <2> QED BY <2>1, <2>2, <2>3
<1>9. m = [buf |-> m.buf, rpos |-> m.rpos, wpos |-> m.wpos, shift |-> m.shift, reset |-> m.reset,
           accepted |-> m.accepted, wrapped |-> m.wrapped]
  BY <1>4, <1>5, <1>6, Zenon
<1>10. IsRing(m)
  BY <1>1, <1>5, <1>7, <1>8, <1>9 DEF IsRing
<1>11. m.wrapped = (k.wrapped \/ m.wpos = k.rpos)
  BY <1>1, <1>3, <1>5, <1>6, Zenon
<1> QED BY <1>1, <1>3, <1>5, <1>10, <1>11

LEMMA FedSelf ==
    ASSUME NEW k, NEW t \in Nat, RingAt(k, t) PROVE Fed(k, k, t, 0)
<1>1. Fill(k) \in Nat
  BY FillFacts, ConsoleAssumption DEF RingAt
<1> QED BY <1>1 DEF Fed

LEMMA PutRing ==
    ASSUME NEW k, NEW t \in Nat, RingAt(k, t), NEW c PROVE Fed(k, Put(k, c), t, 1)
<1>1. PICK S \in Nat \ {0} : S = CONSBUFSIZE
  BY ConsoleAssumption
<1>2. IsRing(k) /\ Fill(k) \in Nat
  BY FillFacts, ConsoleAssumption DEF RingAt
<1>3. CASE c = NO
  <2>1. Put(k, c) = k
    BY <1>3 DEF Put
  <2> QED BY <1>2, <2>1 DEF Fed
<1>4. CASE c # NO
  <2>1. PICK m : m = Put(k, c)
    OBVIOUS
  <2>2. /\ IsRing(m) /\ m.rpos = k.rpos /\ m.wpos = (k.wpos + 1) % S
        /\ m.buf = [k.buf EXCEPT ![k.wpos] = c] /\ m.accepted = Append(k.accepted, c)
        /\ m.wrapped = (k.wrapped \/ m.wpos = k.rpos)
    BY <1>1, <1>2, <1>4, <2>1, PutIs
  <2>3. PICK w \in 0..(S - 1), r \in 0..(S - 1), v \in 0..(S - 1) :
          w = k.wpos /\ r = k.rpos /\ v = m.wpos
    BY <1>1, <1>2, <2>2 DEF IsRing
  <2>4. v = IF w + 1 = S THEN 0 ELSE w + 1
    BY <2>2, <2>3, RemainderNear
  <2>5. Fill(m) <= Fill(k) + 1
    <3>1. Fill(k) = IF w >= r THEN w - r ELSE w - r + S
      BY <1>1, <1>2, <2>3, FillFacts
    <3>2. Fill(m) = IF v >= r THEN v - r ELSE v - r + S
      BY <1>1, <2>2, <2>3, FillFacts
    <3> QED BY <2>4, <3>1, <3>2
  <2>6. ASSUME ~m.wrapped
        PROVE  ~k.wrapped /\ HoldsFrom(m, t) /\ \A i \in 1..t : m.accepted[i] = k.accepted[i]
    <3>1. ~(k.wrapped \/ m.wpos = k.rpos)
      BY <2>2, <2>6, Zenon
    <3>2. ~k.wrapped /\ m.wpos # k.rpos
      BY <3>1, Zenon
    <3>3. HoldsFrom(k, t)
      BY <3>2, Zenon DEF RingAt
    <3>4. PICK s, n : s = k.accepted /\ n = Len(s)
      OBVIOUS
    <3>5. /\ s \in Seq(Range(s)) /\ n \in t..(t + S - 1) /\ r = t % S /\ w = n % S
          /\ \A i \in (t + 1)..n : k.buf[(i - 1) % S] = s[i] /\ s[i] # NO
      BY <1>1, <2>3, <3>3, <3>4 DEF HoldsFrom
    <3>6. PICK u : u = m.accepted
      OBVIOUS
    <3>7. u = Append(s, c)
      BY <2>2, <3>4, <3>6
    <3>8. /\ u \in Seq(Range(u)) /\ n \in Nat /\ Len(u) = n + 1
          /\ \A i \in 1..n : u[i] = s[i]
          /\ u[n + 1] = c
      BY <3>4, <3>5, <3>7, AppendAny
    <3>9. v = (n + 1) % S
      <4>1. ((n % S) + 1) % S = (n + 1) % S
        BY <3>8, RemainderPlus
      <4>2. v = (w + 1) % S /\ w = n % S
        BY <2>2, <2>3, <3>5
      <4> QED BY <4>1, <4>2
    <3>10. n + 1 \in t..(t + S - 1)
      <4> SUFFICES ASSUME n + 1 = t + S PROVE FALSE
        BY <3>5, <3>8
      <4>1. (t + S) % S = t % S
        <5>1. PICK a \in Int, b \in Int : a = t \div S /\ b = t % S
          OBVIOUS
        <5>2. t = S * a + b /\ b \in 0..(S - 1)
          BY <5>1
        <5>3. PICK q \in Int, x \in Int : q = a + 1 /\ x = t + S
          OBVIOUS
        <5>4. x = S * q + b
          BY <5>2, <5>3
        <5>5. x % S = b
          BY <5>2, <5>4, RemainderIs
        <5> QED BY <5>1, <5>3, <5>5
      <4> QED BY <2>3, <3>2, <3>5, <3>9, <4>1
    <3>11. \A i \in (t + 1)..(n + 1) : m.buf[(i - 1) % S] = u[i] /\ u[i] # NO
      <4> SUFFICES ASSUME NEW i \in (t + 1)..(n + 1) PROVE m.buf[(i - 1) % S] = u[i] /\ u[i] # NO
        OBVIOUS
      <4>1. w \in DOMAIN k.buf /\ DOMAIN k.buf = 0..(S - 1)
        BY <1>1, <1>2, <2>3 DEF IsRing
      <4>2. m.buf = [k.buf EXCEPT ![w] = c]
        BY <2>2, <2>3
      <4>3. CASE i = n + 1
        <5>1. (i - 1) % S = w
          BY <3>5, <3>8, <4>3
        <5> QED BY <1>4, <3>8, <4>1, <4>2, <4>3, <5>1
      <4>4. CASE i # n + 1
        <5>1. PICK x \in Nat : x = i - 1
          OBVIOUS
        <5>2. i \in (t + 1)..n /\ x < n /\ n - x < S
          BY <3>5, <3>8, <3>10, <4>4, <5>1
        <5>3. x % S # w /\ x % S \in 0..(S - 1)
          <6>1. x % S # n % S
            BY <3>8, <5>2, Window
          <6> QED BY <3>5, <6>1
        <5>4. m.buf[x % S] = k.buf[x % S]
          BY <4>1, <4>2, <5>3
        <5>5. k.buf[x % S] = s[i] /\ s[i] # NO
          BY <3>5, <5>1, <5>2
        <5>6. u[i] = s[i]
          BY <3>8, <5>2
        <5> QED BY <5>1, <5>4, <5>5, <5>6
      <4> QED BY <4>3, <4>4
    <3>12. HoldsFrom(m, t)
      BY <1>1, <2>2, <2>3, <3>5, <3>6, <3>8, <3>9, <3>10, <3>11 DEF HoldsFrom
    <3>13. \A i \in 1..t : m.accepted[i] = k.accepted[i]
      <4>1. \A i \in 1..t : i \in 1..n
        BY <3>5, <3>8
      <4> QED BY <3>4, <3>6, <3>8, <4>1
    <3> QED BY <3>2, <3>12, <3>13
  <2> QED BY <2>1, <2>2, <2>5, <2>6 DEF Fed, RingAt
<1> QED BY <1>3, <1>4

\* A byte that is no character changes the keyboard's state only.
LEMMA SameRing ==
    ASSUME NEW k, NEW m, NEW t \in Nat, NEW j \in Nat, NEW h, NEW x, Fed(k, m, t, j)
    PROVE  Fed(k, [m EXCEPT !.shift = h, !.reset = @ \/ x], t, j)
<1>1. PICK buf, rpos, wpos, shift, reset, accepted, wrapped :
        /\ buf = m.buf /\ rpos = m.rpos /\ wpos = m.wpos /\ shift = m.shift /\ reset = m.reset
        /\ accepted = m.accepted /\ wrapped = m.wrapped
  OBVIOUS
<1>2. PICK y : y = (reset \/ x)
  OBVIOUS
<1>3. m = [buf |-> buf, rpos |-> rpos, wpos |-> wpos, shift |-> shift, reset |-> reset,
           accepted |-> accepted, wrapped |-> wrapped]
  BY <1>1 DEF Fed, RingAt, IsRing
<1>4. PICK g : g = [m EXCEPT !.shift = h, !.reset = @ \/ x]
  OBVIOUS
<1>5. g = [buf |-> buf, rpos |-> rpos, wpos |-> wpos, shift |-> h, reset |-> y,
           accepted |-> accepted, wrapped |-> wrapped]
  BY <1>2, <1>3, <1>4
<1>6. /\ g.buf = m.buf /\ g.rpos = m.rpos /\ g.wpos = m.wpos /\ g.accepted = m.accepted
      /\ g.wrapped = m.wrapped /\ g.shift = h /\ g.reset = y
  BY <1>1, <1>5
<1>7. IsRing(g)
  <2>1. g = [buf |-> g.buf, rpos |-> g.rpos, wpos |-> g.wpos, shift |-> g.shift, reset |-> g.reset,
             accepted |-> g.accepted, wrapped |-> g.wrapped]
    BY <1>1, <1>5, <1>6, Zenon
  <2> QED BY <1>6, <2>1 DEF Fed, RingAt, IsRing
<1>8. Fill(g) = Fill(m) /\ (HoldsFrom(m, t) => HoldsFrom(g, t))
  BY <1>6 DEF Fill, HoldsFrom
<1> QED BY <1>4, <1>6, <1>7, <1>8 DEF Fed, RingAt

LEMMA FeedRing ==
    ASSUME NEW k, NEW t \in Nat, NEW d, NEW b, RingAt(k, t) PROVE Fed(k, Feed(k, d, b), t, 1)
<1>1. CASE d = "COM1"
  BY <1>1, PutRing DEF Feed
<1>2. CASE d # "COM1"
  <2>1. PICK data : data = kbd_proc_data(k.shift, b)
    OBVIOUS
  <2>2. PICK c, h, x : c = data.c /\ h = data.shift /\ x = data.reset
    OBVIOUS
  <2>3. PICK m : m = Put(k, c)
    OBVIOUS
  <2>4. Fed(k, m, t, 1)
    BY <2>3, PutRing
  <2>5. Fed(k, [m EXCEPT !.shift = h, !.reset = @ \/ x], t, 1)
    BY <2>4, SameRing
  <2>6. Feed(k, d, b) = [m EXCEPT !.shift = h, !.reset = @ \/ x]
    BY <1>2, <2>1, <2>2, <2>3 DEF Feed
  <2> QED BY <2>5, <2>6
<1> QED BY <1>1, <1>2

LEMMA FedTwice ==
    ASSUME NEW k, NEW m, NEW g, NEW t \in Nat, NEW i \in Nat, NEW j \in Nat,
           RingAt(k, t), Fed(k, m, t, i), Fed(m, g, t, j)
    PROVE  Fed(k, g, t, i + j)
<1>1. Fill(k) \in Nat /\ Fill(m) \in Nat /\ Fill(g) \in Nat
  BY FillFacts, ConsoleAssumption DEF Fed, RingAt
<1>2. Fill(g) <= Fill(k) + (i + j)
  BY <1>1 DEF Fed
<1>3. ~g.wrapped => ~k.wrapped /\ \A a \in 1..t : g.accepted[a] = k.accepted[a]
  BY Zenon DEF Fed
<1> QED BY <1>2, <1>3 DEF Fed

IsLoop(f, k, d, bytes, n) ==
    f = [i \in 0..n |-> IF i = 0 THEN k ELSE Feed(f[i - 1], d, bytes[i])]

LEMMA LoopExists ==
    ASSUME NEW k, NEW d, NEW bytes, NEW n \in Nat PROVE \E f : IsLoop(f, k, d, bytes, n)
<1> DEFINE Bad == {x \in Nat : ~ \E f : IsLoop(f, k, d, bytes, x)}
<1> SUFFICES ASSUME n \in Bad PROVE FALSE
  BY Zenon
<1>1. PICK x \in Bad : \A y \in Bad : x <= y
  BY NatLeast
<1>2. x \in Nat /\ ~ \E f : IsLoop(f, k, d, bytes, x)
  BY <1>1
<1>3. CASE x = 0
  <2>1. PICK f : f = [i \in 0..0 |-> k]
    OBVIOUS
  <2>2. f = [i \in 0..0 |-> IF i = 0 THEN k ELSE Feed(f[i - 1], d, bytes[i])]
    BY <2>1
  <2>3. IsLoop(f, k, d, bytes, x)
    BY <1>3, <2>2 DEF IsLoop
  <2> QED BY <1>2, <2>3
<1>4. CASE x # 0
  <2>1. PICK y \in Nat : x = y + 1
    BY <1>2, <1>4
  <2>2. y \notin Bad
    BY <1>1, <1>2, <2>1
  <2>3. PICK f : IsLoop(f, k, d, bytes, y)
    BY <2>2
  <2>4. PICK g : g = [i \in 0..x |-> IF i = x THEN Feed(f[y], d, bytes[x]) ELSE f[i]]
    OBVIOUS
  <2>5. \A i \in 0..y : f[i] = IF i = 0 THEN k ELSE Feed(f[i - 1], d, bytes[i])
    BY <2>3, Zenon DEF IsLoop
  <2>6. \A i \in 0..y : g[i] = f[i]
    BY <2>1, <2>4
  <2>7. g[x] = Feed(f[y], d, bytes[x])
    BY <1>2, <2>4
  <2>8. ASSUME NEW i \in 0..x PROVE g[i] = IF i = 0 THEN k ELSE Feed(g[i - 1], d, bytes[i])
    <3>1. CASE i = x
      <4>1. g[i - 1] = f[y]
        BY <2>1, <2>6, <3>1
      <4> QED BY <1>4, <2>7, <3>1, <4>1
    <3>2. CASE i # x
      <4>1. i \in 0..y
        BY <2>1, <3>2
      <4>2. CASE i = 0
        BY <2>5, <2>6, <4>1, <4>2
      <4>3. CASE i # 0
        <5>1. i - 1 \in 0..y
          BY <4>1, <4>3
        <5>2. g[i - 1] = f[i - 1] /\ g[i] = f[i]
          BY <2>6, <4>1, <5>1
        <5> QED BY <2>5, <4>1, <4>3, <5>2
      <4> QED BY <4>2, <4>3
    <3> QED BY <3>1, <3>2
  <2>9. IsLoop(g, k, d, bytes, x)
    <3>1. g = [i \in 0..x |-> g[i]]
      BY <2>4
    <3> QED BY <2>8, <3>1 DEF IsLoop
  <2> QED BY <1>2, <2>9
<1> QED BY <1>3, <1>4

LEMMA LoopFed ==
    ASSUME NEW k, NEW d, NEW bytes, NEW n \in Nat, NEW f, IsLoop(f, k, d, bytes, n),
           NEW t \in Nat, RingAt(k, t)
    PROVE  Fed(k, f[n], t, n)
<1> DEFINE Bad == {x \in Nat : x <= n /\ ~Fed(k, f[x], t, x)}
<1>0. \A i \in 0..n : f[i] = IF i = 0 THEN k ELSE Feed(f[i - 1], d, bytes[i])
  BY Zenon DEF IsLoop
<1> SUFFICES ASSUME n \in Bad PROVE FALSE
  OBVIOUS
<1>1. PICK x \in Bad : \A y \in Bad : x <= y
  BY NatLeast
<1>2. x \in Nat /\ x <= n /\ ~Fed(k, f[x], t, x)
  BY <1>1
<1>3. CASE x = 0
  <2>1. f[0] = k
    BY <1>0
  <2> QED BY <1>2, <1>3, <2>1, FedSelf
<1>4. CASE x # 0
  <2>1. PICK y \in Nat : x = y + 1 /\ y = x - 1
    BY <1>2, <1>4
  <2>2. Fed(k, f[y], t, y)
    BY <1>1, <1>2, <2>1
  <2>3. x \in 0..n
    BY <1>2
  <2>4. f[x] = Feed(f[y], d, bytes[x])
    BY <1>0, <1>4, <2>1, <2>3
  <2>5. PICK m, b : m = f[y] /\ b = bytes[x]
    OBVIOUS
  <2>6. Fed(m, Feed(m, d, b), t, 1)
    <3>1. RingAt(m, t)
      BY <2>2, <2>5 DEF Fed
    <3> QED BY <3>1, FeedRing
  <2>7. PICK g : g = Feed(m, d, b)
    OBVIOUS
  <2>8. Fed(k, g, t, y + 1)
    BY <2>2, <2>5, <2>6, <2>7, FedTwice
  <2> QED BY <1>2, <2>1, <2>4, <2>5, <2>7, <2>8
<1> QED BY <1>3, <1>4

\* The loop of cons_intr puts at most one character into the ring for each byte.
LEMMA ConsIntrRing ==
    ASSUME NEW k, NEW d, NEW bytes, Len(bytes) \in Nat, NEW t \in Nat, RingAt(k, t)
    PROVE  Fed(k, cons_intr(k, d, bytes), t, Len(bytes))
<1>1. PICK n \in Nat : n = Len(bytes)
  OBVIOUS
<1>2. PICK g : g = CHOOSE f : f = [i \in 0..n |-> IF i = 0 THEN k ELSE Feed(f[i - 1], d, bytes[i])]
  OBVIOUS
<1>3. IsLoop(g, k, d, bytes, n)
  <2>1. \E f : f = [i \in 0..n |-> IF i = 0 THEN k ELSE Feed(f[i - 1], d, bytes[i])]
    <3>1. \E f : IsLoop(f, k, d, bytes, n)
      BY LoopExists
    <3> QED BY <3>1, Zenon DEF IsLoop
  <2>2. g = [i \in 0..n |-> IF i = 0 THEN k ELSE Feed(g[i - 1], d, bytes[i])]
    BY <1>2, <2>1, Zenon
  <2> QED BY <2>2, Zenon DEF IsLoop
<1>4. cons_intr(k, d, bytes) = g[n]
  BY <1>1, <1>2, Zenon DEF cons_intr
<1> QED BY <1>1, <1>3, <1>4, LoopFed

\* cons_getc takes the oldest character of the ring.
LEMMA GrabIs ==
    ASSUME NEW k, IsRing(k), k.rpos # k.wpos, NEW g, g = Grab(k)
    PROVE  /\ g.c = k.buf[k.rpos] /\ IsRing(g.cons)
           /\ g.cons.buf = k.buf /\ g.cons.wpos = k.wpos
           /\ g.cons.rpos = (k.rpos + 1) % CONSBUFSIZE
           /\ g.cons.accepted = k.accepted /\ g.cons.wrapped = k.wrapped
<1>1. PICK buf, rpos, wpos, shift, reset, accepted, wrapped :
        /\ buf = k.buf /\ rpos = k.rpos /\ wpos = k.wpos /\ shift = k.shift /\ reset = k.reset
        /\ accepted = k.accepted /\ wrapped = k.wrapped
  OBVIOUS
<1>2. k = [buf |-> buf, rpos |-> rpos, wpos |-> wpos, shift |-> shift, reset |-> reset,
           accepted |-> accepted, wrapped |-> wrapped]
  BY <1>1 DEF IsRing
<1>3. PICK r, m : r = (rpos + 1) % CONSBUFSIZE /\ m = [k EXCEPT !.rpos = (@ + 1) % CONSBUFSIZE]
  OBVIOUS
<1>4. m = [buf |-> buf, rpos |-> r, wpos |-> wpos, shift |-> shift, reset |-> reset,
           accepted |-> accepted, wrapped |-> wrapped]
  BY <1>2, <1>3
<1>5. g = [c |-> k.buf[k.rpos], cons |-> m]
  BY <1>3 DEF Grab
<1>6. g.c = k.buf[k.rpos] /\ g.cons = m
  BY <1>5
<1>7. /\ m.buf = buf /\ m.rpos = r /\ m.wpos = wpos /\ m.shift = shift
      /\ m.reset = reset /\ m.accepted = accepted /\ m.wrapped = wrapped
  BY <1>4
<1>8. r \in 0..(CONSBUFSIZE - 1)
  <2>1. PICK S \in Nat \ {0} : S = CONSBUFSIZE
    BY ConsoleAssumption
  <2>2. rpos \in 0..(S - 1)
    BY <1>1, <2>1 DEF IsRing
  <2>3. r = (rpos + 1) % S
    BY <1>3, <2>1
  <2> QED BY <2>1, <2>2, <2>3
<1>9. m = [buf |-> m.buf, rpos |-> m.rpos, wpos |-> m.wpos, shift |-> m.shift, reset |-> m.reset,
           accepted |-> m.accepted, wrapped |-> m.wrapped]
  BY <1>4, <1>7, Zenon
<1>10. IsRing(m)
  BY <1>1, <1>7, <1>8, <1>9 DEF IsRing
<1> QED BY <1>1, <1>3, <1>6, <1>7, <1>10

LEMMA GrabRing ==
    ASSUME NEW k, NEW t \in Nat, RingAt(k, t), NEW g, g = Grab(k)
    PROVE  /\ IsRing(g.cons) /\ g.cons.wrapped = k.wrapped /\ g.cons.accepted = k.accepted
           /\ Fill(g.cons) = IF Fill(k) = 0 THEN 0 ELSE Fill(k) - 1
           /\ ~k.wrapped /\ g.c = NO => HoldsFrom(g.cons, t)
           /\ ~k.wrapped /\ g.c # NO =>
                 HoldsFrom(g.cons, t + 1) /\ Len(k.accepted) >= t + 1 /\ g.c = k.accepted[t + 1]
<1>1. PICK S \in Nat \ {0} : S = CONSBUFSIZE
  BY ConsoleAssumption
<1>2. IsRing(k)
  BY DEF RingAt
<1>3. PICK w \in 0..(S - 1), r \in 0..(S - 1) : w = k.wpos /\ r = k.rpos
  BY <1>1, <1>2 DEF IsRing
<1>4. Fill(k) = IF w >= r THEN w - r ELSE w - r + S
  BY <1>1, <1>2, <1>3, FillFacts
<1>5. CASE r = w
  <2>1. g = [c |-> NO, cons |-> k]
    BY <1>3, <1>5 DEF Grab
  <2>2. g.c = NO /\ g.cons = k
    BY <2>1
  <2>3. Fill(k) = 0
    BY <1>4, <1>5
  <2> QED BY <1>2, <2>2, <2>3 DEF RingAt
<1>6. CASE r # w
  <2>1. PICK m : m = g.cons
    OBVIOUS
  <2>2. /\ g.c = k.buf[r] /\ IsRing(m)
        /\ m.buf = k.buf /\ m.wpos = w /\ m.rpos = (r + 1) % S
        /\ m.accepted = k.accepted /\ m.wrapped = k.wrapped
    BY <1>1, <1>2, <1>3, <1>6, <2>1, GrabIs
  <2>3. PICK v : v = m.rpos
    OBVIOUS
  <2>4. v = IF r + 1 = S THEN 0 ELSE r + 1
    <3>1. (r + 1) % S = IF r + 1 = S THEN 0 ELSE r + 1
      BY RemainderNear
    <3> QED BY <2>2, <2>3, <3>1
  <2>5. Fill(m) = IF w >= v THEN w - v ELSE w - v + S
    BY <1>1, <2>2, <2>3, FillFacts
  <2>6. Fill(m) = IF Fill(k) = 0 THEN 0 ELSE Fill(k) - 1
    BY <1>4, <1>6, <2>4, <2>5
  <2>7. ASSUME ~k.wrapped
        PROVE  /\ HoldsFrom(m, t + 1) /\ Len(k.accepted) >= t + 1
               /\ g.c = k.accepted[t + 1] /\ g.c # NO
    <3>1. HoldsFrom(k, t)
      BY <2>7 DEF RingAt
    <3>2. PICK s, n : s = k.accepted /\ n = Len(s)
      OBVIOUS
    <3>3. /\ s \in Seq(Range(s)) /\ n \in t..(t + S - 1) /\ r = t % S /\ w = n % S
          /\ \A i \in (t + 1)..n : k.buf[(i - 1) % S] = s[i] /\ s[i] # NO
      BY <1>1, <1>3, <3>1, <3>2 DEF HoldsFrom
    <3>4. n # t
      BY <1>6, <3>3
    <3>5. n \in Nat /\ n >= t + 1 /\ n <= t + S - 1
      BY <3>3, <3>4
    <3>6. k.buf[t % S] = s[t + 1] /\ s[t + 1] # NO
      <4>1. PICK i : i = t + 1
        OBVIOUS
      <4>2. i \in (t + 1)..n /\ i - 1 = t
        BY <3>5, <4>1
      <4>3. k.buf[(i - 1) % S] = s[i] /\ s[i] # NO
        BY <3>3, <4>2
      <4> QED BY <4>1, <4>2, <4>3
    <3>7. m.rpos = (t + 1) % S
      <4>1. ((t % S) + 1) % S = (t + 1) % S
        BY RemainderPlus
      <4> QED BY <2>2, <3>3, <4>1
    <3>8. n \in (t + 1)..(t + 1 + S - 1)
      BY <3>5
    <3>9. \A i \in (t + 1 + 1)..n : m.buf[(i - 1) % S] = s[i] /\ s[i] # NO
      <4> SUFFICES ASSUME NEW i \in (t + 1 + 1)..n PROVE m.buf[(i - 1) % S] = s[i] /\ s[i] # NO
        OBVIOUS
      <4>1. i \in (t + 1)..n
        BY <3>5
      <4> QED BY <2>2, <3>3, <4>1
    <3>10. HoldsFrom(m, t + 1)
      BY <1>1, <2>2, <3>2, <3>3, <3>7, <3>8, <3>9 DEF HoldsFrom
    <3> QED BY <2>2, <3>2, <3>3, <3>5, <3>6, <3>10
  <2> QED BY <2>1, <2>2, <2>6, <2>7
<1> QED BY <1>5, <1>6

\* Two devices.
LEMMA CardDevices ==
    ASSUME NEW T, T \subseteq Devices
    PROVE  Cardinality(T) = (IF "COM1" \in T THEN 1 ELSE 0) + (IF "KBD" \in T THEN 1 ELSE 0)
<1>1. \A e : Cardinality({e}) = 1
  BY FS_Singleton
<1>2. CASE T = {}
  BY <1>2, FS_EmptySet
<1>3. CASE T = {"KBD"}
  BY <1>1, <1>3
<1>4. CASE T = {"COM1"}
  BY <1>1, <1>4
<1>5. CASE T = {"KBD", "COM1"}
  <2>1. T = {"KBD"} \cup {"COM1"} /\ "COM1" \notin {"KBD"}
    BY <1>5
  <2>2. IsFiniteSet({"KBD"}) /\ Cardinality({"KBD"}) = 1
    BY FS_Singleton
  <2>3. Cardinality({"KBD"} \cup {"COM1"}) = Cardinality({"KBD"}) + 1
    BY <2>1, <2>2, FS_AddElement
  <2> QED BY <1>5, <2>1, <2>2, <2>3
<1> QED BY <1>2, <1>3, <1>4, <1>5 DEF Devices

-----------------------------------------------------------------------------
\* The driver: the ring holds what was decoded and not given to dev_stdin_write,
\* and an interrupt is to come for each character and each byte.
ConsInv ==
    /\ sent \in [Devices -> Nat] /\ ready \subseteq Devices /\ irr \subseteq Devices
    /\ RingAt(cons, Len(typed))
    /\ ~cons.wrapped => \A i \in 1..Len(typed) : typed[i] = cons.accepted[i]
    /\ ~coalesced => Fill(cons) + Cardinality(ready) <= Cardinality(irr)

LEMMA IncomingLen ==
    ASSUME NEW d \in Devices, NEW n \in Nat, sent \in [Devices -> Nat]
    PROVE  Len(Incoming(d, n)) = n + IF d \in ready THEN 1 ELSE 0
<1>1. PICK a \in Nat : a = sent[d]
  OBVIOUS
<1>2. PICK read \in Int, j \in Nat : /\ read = IF d \in ready THEN a - 1 ELSE a
                                     /\ j = a + n - read /\ j = n + IF d \in ready THEN 1 ELSE 0
  OBVIOUS
<1>3. Incoming(d, n) = [i \in 1..j |-> Bytes(d)[read + i]]
  BY <1>1, <1>2 DEF Incoming
<1> HIDE DEF Bytes
<1>4. Len([i \in 1..j |-> Bytes(d)[read + i]]) = j
  OBVIOUS
<1> QED BY <1>2, <1>3, <1>4

LEMMA ConsInitInv == Init => ConsInv
<1> SUFFICES ASSUME Init PROVE ConsInv
  OBVIOUS
<1>1. PICK S \in Nat \ {0} : S = CONSBUFSIZE
  BY ConsoleAssumption
<1>2. PICK k : k = [buf |-> [i \in 0..(CONSBUFSIZE - 1) |-> NO], rpos |-> 0, wpos |-> 0,
                    shift |-> {}, reset |-> FALSE, accepted |-> <<>>, wrapped |-> FALSE]
  OBVIOUS
<1>3. PICK n \in 0..MaxDrained :
        /\ sent = [d \in Devices |-> IF d = "KBD" THEN n ELSE 0]
        /\ cons = kbd_intr(k, [i \in 1..n |-> AllScanCodes(script.KBD)[i]])
        /\ coalesced = (n > 0)
  BY <1>2, Zenon DEF Init, ConsInit
<1>4. n \in Nat /\ typed = <<>> /\ ready = {} /\ irr = {}
  BY ConsoleAssumption DEF Init, ConsInit
<1>5. RingAt(k, 0) /\ Fill(k) = 0
  <2>1. /\ k.buf = [i \in 0..(CONSBUFSIZE - 1) |-> NO] /\ k.rpos = 0 /\ k.wpos = 0
        /\ k.shift = {} /\ k.reset = FALSE /\ k.accepted = <<>> /\ k.wrapped = FALSE
    BY <1>2
  <2>2. DOMAIN k.buf = 0..(CONSBUFSIZE - 1) /\ 0 \in 0..(CONSBUFSIZE - 1)
    BY <1>1, <2>1
  <2>3. IsRing(k)
    BY <1>2, <2>1, <2>2 DEF IsRing
  <2>4. 0 % S = 0 /\ (0 - 0) % S = 0
    OBVIOUS
  <2>5. HoldsFrom(k, 0)
    <3>1. k.accepted \in Seq(Range(k.accepted)) /\ Len(k.accepted) = 0
      BY <2>1
    <3>2. 0 \in 0..(0 + S - 1)
      OBVIOUS
    <3> QED BY <1>1, <2>1, <2>4, <3>1, <3>2 DEF HoldsFrom
  <2> QED BY <1>1, <2>1, <2>3, <2>4, <2>5 DEF RingAt, Fill
<1>6. PICK bytes : bytes = [i \in 1..n |-> AllScanCodes(script.KBD)[i]]
  OBVIOUS
<1>7. Len(bytes) = n
  BY <1>4, <1>6
<1>8. Fed(k, cons, 0, n)
  <2>1. cons = cons_intr(k, "KBD", bytes)
    BY <1>3, <1>6 DEF kbd_intr
  <2>2. Fed(k, cons_intr(k, "KBD", bytes), 0, Len(bytes))
    BY <1>4, <1>5, <1>7, ConsIntrRing
  <2> QED BY <1>7, <2>1, <2>2
<1>9. RingAt(cons, Len(typed)) /\ Len(typed) = 0 /\ Fill(cons) <= n
  BY <1>4, <1>5, <1>8 DEF Fed
<1>10. ~coalesced => Fill(cons) + Cardinality(ready) <= Cardinality(irr)
  <2> SUFFICES ASSUME ~coalesced PROVE Fill(cons) + Cardinality(ready) <= Cardinality(irr)
    OBVIOUS
  <2>1. ~(n > 0)
    BY <1>3
  <2>2. Fill(cons) \in Nat
    BY <1>9, FillFacts, ConsoleAssumption DEF RingAt
  <2>3. Cardinality({}) = 0
    BY FS_EmptySet
  <2> QED BY <1>4, <1>9, <2>1, <2>2, <2>3
<1>11. sent \in [Devices -> Nat] /\ ready \subseteq Devices /\ irr \subseteq Devices
  BY <1>3, <1>4
<1> QED BY <1>9, <1>10, <1>11 DEF ConsInv

LEMMA ConsArrive == ASSUME ConsInv, NEW d \in Devices, Arrive(d) PROVE ConsInv'
<1>1. /\ d \notin ready /\ sent' = [sent EXCEPT ![d] = @ + 1] /\ ready' = ready \cup {d}
      /\ coalesced' = (coalesced \/ d \in irr) /\ irr' = irr \cup {d} /\ cons' = cons /\ typed' = typed
  BY DEF Arrive, Present
<1>2. sent' \in [Devices -> Nat] /\ ready' \subseteq Devices /\ irr' \subseteq Devices
  BY <1>1 DEF ConsInv
<1>3. ~coalesced' => Fill(cons') + Cardinality(ready') <= Cardinality(irr')
  <2> SUFFICES ASSUME ~coalesced' PROVE Fill(cons') + Cardinality(ready') <= Cardinality(irr')
    OBVIOUS
  <2>1. ~coalesced /\ d \notin irr
    BY <1>1
  <2>2. PICK f : f = Fill(cons)
    OBVIOUS
  <2>3. f \in Nat
    BY <2>2, FillFacts, ConsoleAssumption DEF ConsInv, RingAt
  <2>4. f + Cardinality(ready) <= Cardinality(irr)
    BY <2>1, <2>2 DEF ConsInv
  <2>5. /\ ready \subseteq Devices /\ irr \subseteq Devices
    BY DEF ConsInv
  <2>6. /\ IsFiniteSet(ready) /\ IsFiniteSet(irr)
    <3>1. IsFiniteSet({"KBD"}) /\ Devices = {"KBD"} \cup {"COM1"}
      BY FS_Singleton DEF Devices
    <3>2. IsFiniteSet(Devices)
      BY <3>1, FS_AddElement
    <3> QED BY <2>5, <3>2, FS_Subset
  <2>7. Cardinality(ready') = Cardinality(ready) + 1 /\ Cardinality(irr') = Cardinality(irr) + 1
    BY <1>1, <2>1, <2>6, FS_AddElement
  <2>8. Cardinality(ready) \in Nat /\ Cardinality(irr) \in Nat
    BY <2>6, FS_CardinalityType
  <2> QED BY <1>1, <2>2, <2>3, <2>4, <2>7, <2>8
<1> QED BY <1>1, <1>2, <1>3 DEF ConsInv

\* An interrupt: at most one character for each byte read, and one taken out.
LEMMA ConsInput ==
    ASSUME ConsInv, typed \in Seq(Range(typed)), NEW d \in Devices, Input(d) PROVE ConsInv'
<1>1. PICK n \in Bursts :
        /\ Acknowledge(d, n)
        /\ \E got \in {cons_getc(n)} : cons' = got.cons /\ dev_stdin_write(got.c)
  BY Zenon DEF Input
<1>2. PICK got : got = cons_getc(n) /\ cons' = got.cons /\ dev_stdin_write(got.c)
  BY <1>1, Zenon
<1>3. d \in irr
  BY DEF Input
<1>4. PICK x \in Nat, y \in Nat : x = n.COM1 /\ y = n.KBD /\ x = n["COM1"] /\ y = n["KBD"]
  BY ConsoleAssumption DEF Bursts, Devices
<1>5. PICK j, l : j = (IF "COM1" \in ready THEN 1 ELSE 0) /\ l = (IF "KBD" \in ready THEN 1 ELSE 0)
  OBVIOUS
<1>6. j \in Nat /\ l \in Nat /\ Cardinality(ready) = j + l
  BY <1>5, CardDevices DEF ConsInv
<1>7. PICK b, c : b = Incoming("COM1", x) /\ c = Incoming("KBD", y)
  OBVIOUS
<1>8. Len(b) = x + j /\ Len(c) = y + l
  <2>1. Len(Incoming("COM1", x)) = x + IF "COM1" \in ready THEN 1 ELSE 0
    BY IncomingLen DEF Devices, ConsInv
  <2>2. Len(Incoming("KBD", y)) = y + IF "KBD" \in ready THEN 1 ELSE 0
    BY IncomingLen DEF Devices, ConsInv
  <2> QED BY <1>5, <1>7, <2>1, <2>2
<1>9. PICK t \in Nat : t = Len(typed)
  OBVIOUS
<1>10. PICK k, m, g : k = cons /\ m = cons_intr(k, "COM1", b) /\ g = cons_intr(m, "KBD", c)
  OBVIOUS
<1>11. RingAt(k, t)
  BY <1>9, <1>10 DEF ConsInv
<1>12. PICK p \in Nat, q \in Nat : p = Len(b) /\ q = Len(c)
  BY <1>6, <1>8
<1>13. Fed(k, m, t, p)
  BY <1>10, <1>11, <1>12, ConsIntrRing
<1>14. Fed(m, g, t, q)
  <2>1. RingAt(m, t)
    BY <1>13 DEF Fed
  <2> QED BY <1>10, <1>12, <2>1, ConsIntrRing
<1>15. Fed(k, g, t, p + q)
  BY <1>11, <1>13, <1>14, FedTwice
<1>16. got = Grab(g)
  BY <1>2, <1>4, <1>7, <1>10 DEF cons_getc, serial_intr, kbd_intr
<1>17. RingAt(g, t)
  BY <1>15 DEF Fed
<1>18. PICK h : h = got.cons
  OBVIOUS
<1>19. /\ IsRing(h) /\ h.wrapped = g.wrapped /\ h.accepted = g.accepted
       /\ Fill(h) = IF Fill(g) = 0 THEN 0 ELSE Fill(g) - 1
       /\ ~g.wrapped /\ got.c = NO => HoldsFrom(h, t)
       /\ ~g.wrapped /\ got.c # NO =>
             HoldsFrom(h, t + 1) /\ Len(g.accepted) >= t + 1 /\ got.c = g.accepted[t + 1]
  BY <1>16, <1>17, <1>18, GrabRing
<1>20. cons' = h
  BY <1>2, <1>18
<1>21. sent' \in [Devices -> Nat] /\ ready' = {} /\ irr' \subseteq Devices
  <2>1. n \in [Devices -> Nat]
    BY ConsoleAssumption DEF Bursts
  <2> QED BY <1>1, <2>1 DEF Acknowledge, ConsInv
<1>22. /\ RingAt(cons', Len(typed'))
       /\ ~cons'.wrapped => \A i \in 1..Len(typed') : typed'[i] = cons'.accepted[i]
  <2>1. ~g.wrapped => \A i \in 1..t : typed[i] = g.accepted[i]
    <3>1. ~g.wrapped => ~k.wrapped /\ \A i \in 1..t : g.accepted[i] = k.accepted[i]
      BY <1>15 DEF Fed
    <3>2. ~k.wrapped => \A i \in 1..t : typed[i] = k.accepted[i]
      BY <1>9, <1>10 DEF ConsInv
    <3> QED BY <3>1, <3>2
  <2>2. CASE got.c = NO
    <3>1. typed' = typed
      BY <1>2, <2>2 DEF dev_stdin_write
    <3>2. ~h.wrapped => HoldsFrom(h, t)
      BY <1>19, <2>2
    <3>3. ~h.wrapped => \A i \in 1..t : typed[i] = h.accepted[i]
      BY <1>19, <2>1
    <3> QED BY <1>9, <1>19, <1>20, <3>1, <3>2, <3>3 DEF RingAt
  <2>3. CASE got.c # NO
    <3>1. typed' = Append(typed, got.c)
      BY <1>2, <2>3 DEF dev_stdin_write
    <3>2. PICK u, v : u = typed' /\ v = got.c
      OBVIOUS
    <3>3. /\ Len(u) = t + 1 /\ u[t + 1] = v
          /\ \A i \in 1..t : u[i] = typed[i]
      BY <1>9, <3>1, <3>2, AppendAny
    <3>4. ~h.wrapped => HoldsFrom(h, t + 1) /\ v = h.accepted[t + 1]
      BY <1>19, <2>3, <3>2
    <3>5. ~h.wrapped => \A i \in 1..t : typed[i] = h.accepted[i]
      BY <1>19, <2>1
    <3>6. ~h.wrapped => \A i \in 1..(t + 1) : u[i] = h.accepted[i]
      <4>1. \A i \in 1..(t + 1) : i = t + 1 \/ i \in 1..t
        OBVIOUS
      <4> QED BY <3>3, <3>4, <3>5, <4>1
    <3> QED BY <1>19, <1>20, <3>2, <3>3, <3>4, <3>6 DEF RingAt
  <2> QED BY <2>2, <2>3
<1>23. ~coalesced' => Fill(cons') + Cardinality(ready') <= Cardinality(irr')
  <2> SUFFICES ASSUME ~coalesced' PROVE Fill(cons') + Cardinality(ready') <= Cardinality(irr')
    OBVIOUS
  <2>1. PICK left, new : left = irr \ {d} /\ new = {e \in Devices : n[e] > 0}
    OBVIOUS
  <2>2. /\ irr' = left \cup new
        /\ coalesced' = (coalesced \/ left \cap new # {} \/ \E e \in Devices : n[e] > 1)
    BY <1>1, <2>1 DEF Acknowledge
  <2>3. ~coalesced /\ left \cap new = {} /\ \A e \in Devices : ~(n[e] > 1)
    BY <2>2, Zenon
  <2>4. PICK f \in Nat, z \in Nat, r \in Nat : f = Fill(k) /\ z = Fill(g) /\ r = Fill(h)
    BY <1>11, <1>17, <1>19, FillFacts, ConsoleAssumption DEF RingAt
  <2>5. f + Cardinality(ready) <= Cardinality(irr)
    BY <1>10, <2>3, <2>4 DEF ConsInv
  <2>6. z <= f + (p + q) /\ r = IF z = 0 THEN 0 ELSE z - 1
    BY <1>15, <1>19, <2>4 DEF Fed
  <2>7. /\ x = IF "COM1" \in new THEN 1 ELSE 0
        /\ y = IF "KBD" \in new THEN 1 ELSE 0
    <3>1. "COM1" \in Devices /\ "KBD" \in Devices
      BY DEF Devices
    <3>2. ("COM1" \in new <=> x > 0) /\ ("KBD" \in new <=> y > 0) /\ ~(x > 1) /\ ~(y > 1)
      BY <1>4, <2>1, <2>3, <3>1
    <3> QED BY <3>2
  <2>8. Cardinality(new) = x + y
    BY <2>1, <2>7, CardDevices
  <2>9. /\ IsFiniteSet(irr) /\ IsFiniteSet(new) /\ IsFiniteSet(left)
    <3>1. IsFiniteSet({"KBD"}) /\ Devices = {"KBD"} \cup {"COM1"}
      BY FS_Singleton DEF Devices
    <3>2. IsFiniteSet(Devices)
      BY <3>1, FS_AddElement
    <3>3. irr \subseteq Devices /\ new \subseteq Devices /\ left \subseteq Devices
      BY <2>1 DEF ConsInv
    <3> QED BY <3>2, <3>3, FS_Subset
  <2>10. Cardinality(left) = Cardinality(irr) - 1 /\ Cardinality(irr) \in Nat /\ Cardinality(left) \in Nat
    <3>1. Cardinality(irr \ {d}) = Cardinality(irr) - 1
      BY <1>3, <2>9, FS_RemoveElement
    <3> QED BY <2>1, <2>9, <3>1, FS_CardinalityType
  <2>11. Cardinality(irr') = Cardinality(left) + Cardinality(new)
    <3>1. Cardinality(left \cup new) = Cardinality(left) + Cardinality(new) - Cardinality(left \cap new)
      BY <2>9, FS_Union
    <3>2. Cardinality(left \cap new) = 0
      BY <2>3, FS_EmptySet
    <3> QED BY <2>2, <2>8, <2>10, <3>1, <3>2
  <2>12. Cardinality(ready') = 0
    BY <1>21, FS_EmptySet
  <2>13. p + q = x + y + (j + l)
    BY <1>6, <1>8, <1>12
  <2> QED BY <1>6, <1>20, <2>4, <2>5, <2>6, <2>8, <2>10, <2>11, <2>12, <2>13, SMTT(20)
<1> QED BY <1>21, <1>22, <1>23 DEF ConsInv

LEMMA ConsNext == ASSUME IInv, ConsInv, [Next]_vars PROVE ConsInv'
<1>1. ASSUME UNCHANGED consVars, typed' = typed PROVE ConsInv'
  BY <1>1 DEF consVars, ConsInv
<1>2. ASSUME UNCHANGED bufVars PROVE ConsInv'
  BY <1>1, <1>2 DEF bufVars
<1>3. ASSUME NEW d \in Devices, Input(d) PROVE ConsInv'
  BY <1>3, ConsInput DEF IInv, RingInv
<1>4. ASSUME NEW d \in Devices, Arrive(d) PROVE ConsInv'
  BY <1>4, ConsArrive
<1>5. CASE ReadChar
  BY <1>1, <1>5 DEF ReadChar
<1>6. CASE UserStep
  BY <1>2, <1>6 DEF UserStep, Read, Kill
<1>7. CASE ReadDone \/ ReadWait \/ ReadSched \/ ReadWake
  BY <1>2, <1>7 DEF ReadDone, ReadWait, ReadSched, ReadWake
<1>8. CASE TrapRetKilled \/ ExitSched \/ TrapRet \/ CpuIdle
  BY <1>2, <1>8 DEF TrapRetKilled, ExitSched, TrapRet, CpuIdle
<1>9. CASE Tick
  BY <1>2, <1>9 DEF Tick
<1>10. CASE InputWakeup
  BY <1>2, <1>10 DEF InputWakeup
<1>11. CASE UNCHANGED vars
  BY <1>2, <1>11 DEF vars
<1> QED
  BY <1>3, <1>4, <1>5, <1>6, <1>7, <1>8, <1>9, <1>10, <1>11 DEF Next, KernelStep, HardwareStep

LEMMA ConsInvAlways == Spec => []ConsInv
BY ConsInitInv, ConsNext, IInvAlways, PTL DEF Spec

\* Waiting is the rest of what was accepted.
LEMMA ConsInvExact == IInv /\ ConsInv => ConsoleExact
<1> SUFFICES ASSUME IInv, ConsInv PROVE ConsoleExact
  OBVIOUS
<1>1. PICK S \in Nat \ {0} : S = CONSBUFSIZE
  BY ConsoleAssumption
<1>2. PICK k, s, t : k = cons /\ s = typed /\ t = Len(s)
  OBVIOUS
<1>3. s \in Seq(Range(s)) /\ t \in Nat /\ RingAt(k, t)
  BY <1>2 DEF IInv, RingInv, ConsInv
<1>4. PICK f \in Nat : f = Fill(k)
  BY <1>3, FillFacts, ConsoleAssumption DEF RingAt
<1>5. PICK e : e = [i \in 1..f |-> k.buf[(k.rpos + i - 1) % S]]
  OBVIOUS
<1>6. Waiting = e
  BY <1>1, <1>2, <1>4, <1>5 DEF Waiting, Fill
<1>7. Len(e) = f /\ e \in Seq(Range(e))
  <2>1. e \in Seq({e[i] : i \in 1..f})
    BY <1>5
  <2>2. Len(e) = f
    BY <1>5
  <2>3. Range(e) = {e[i] : i \in 1..f}
    BY <1>5 DEF Range
  <2> QED BY <2>1, <2>2, <2>3
<1>8. ~coalesced => Len(Waiting) + Cardinality(ready) <= Cardinality(irr)
  BY <1>2, <1>4, <1>6, <1>7 DEF ConsInv
<1>9. ASSUME ~k.wrapped PROVE s \o e = k.accepted
  <2>1. HoldsFrom(k, t)
    BY <1>3, <1>9 DEF RingAt
  <2>2. PICK a, n : a = k.accepted /\ n = Len(a)
    OBVIOUS
  <2>3. /\ a \in Seq(Range(a)) /\ n \in t..(t + S - 1) /\ k.rpos = t % S /\ k.wpos = n % S
        /\ \A i \in (t + 1)..n : k.buf[(i - 1) % S] = a[i]
    BY <1>1, <2>1, <2>2 DEF HoldsFrom
  <2>4. n \in Nat /\ t <= n /\ n - t < S
    BY <1>3, <2>3
  <2>5. f = n - t
    <3>1. ((n % S) - (t % S)) % S = n - t
      BY <1>3, <2>4, RemainderMinus
    <3> QED BY <1>1, <1>4, <2>3, <3>1 DEF Fill
  <2>6. \A i \in 1..t : s[i] = a[i]
    BY <1>2, <1>9, <2>2 DEF ConsInv
  <2>7. ASSUME NEW i \in 1..f PROVE e[i] = a[t + i]
    <3>1. PICK x \in Nat : x = i - 1
      OBVIOUS
    <3>2. ((t % S) + x) % S = (t + x) % S
      BY <1>3, RemainderPlus
    <3>3. e[i] = k.buf[(k.rpos + i - 1) % S]
      BY <1>5
    <3>4. k.rpos + i - 1 = (t % S) + x
      BY <1>3, <2>3, <3>1
    <3>5. PICK y \in Nat : y = t + i
      BY <1>3
    <3>6. y \in (t + 1)..n /\ y - 1 = t + x
      BY <1>3, <2>4, <2>5, <3>1, <3>5
    <3>7. k.buf[(y - 1) % S] = a[y]
      BY <2>3, <3>6
    <3> QED BY <3>2, <3>3, <3>4, <3>5, <3>6, <3>7
  <2>8. PICK R : R = Range(s) \cup Range(e)
    OBVIOUS
  <2>9. s \in Seq(R) /\ e \in Seq(R)
    <3>1. \A i \in 1..t : s[i] \in R
      BY <1>2, <1>3, <2>8 DEF Range
    <3>2. \A i \in 1..f : e[i] \in R
      BY <1>5, <1>7, <2>8 DEF Range
    <3>3. s = [i \in 1..t |-> s[i]] /\ e = [i \in 1..f |-> e[i]]
      BY <1>2, <1>3, <1>7
    <3>4. [i \in 1..t |-> s[i]] \in Seq(R) /\ [i \in 1..f |-> e[i]] \in Seq(R)
      BY <1>3, <3>1, <3>2
    <3> QED BY <3>3, <3>4
  <2>10. PICK u : u = s \o e
    OBVIOUS
  <2>11. /\ u \in Seq(R) /\ Len(u) = t + f
         /\ \A i \in 1..(t + f) : u[i] = IF i <= t THEN s[i] ELSE e[i - t]
    <3>1. Len(s) = t /\ Len(e) = f /\ t \in Nat /\ f \in Nat
      BY <1>2, <1>3, <1>7
    <3>2. IsConcat(u, R, s, e)
      BY <2>9, <2>10, ConcatFacts
    <3> QED BY <3>1, <3>2 DEF IsConcat
  <2>12. \A i \in 1..Len(u) : u[i] = a[i]
    <3> SUFFICES ASSUME NEW i \in 1..(t + f) PROVE u[i] = a[i]
      BY <2>11
    <3>1. CASE i <= t
      BY <1>3, <2>6, <2>11, <3>1
    <3>2. CASE ~(i <= t)
      <4>1. PICK x : x = i - t
        OBVIOUS
      <4>2. x \in 1..f /\ t + x = i
        BY <1>3, <3>2, <4>1
      <4>3. e[x] = a[t + x]
        BY <2>7, <4>2
      <4> QED BY <2>11, <3>2, <4>1, <4>2, <4>3
    <3> QED BY <3>1, <3>2
  <2>13. u = a
    <3>1. Len(u) = Len(a)
      BY <1>3, <2>2, <2>4, <2>5, <2>11
    <3> QED BY <2>3, <2>11, <2>12, <3>1, SameSeq
  <2> QED BY <2>2, <2>10, <2>13
<1> QED BY <1>2, <1>6, <1>8, <1>9 DEF ConsoleExact

\* Whatever the keyboard and the serial port send, in bursts and in each other's
\* interrupts, the characters cons_intr put into the ring of console.c reach
\* dev_stdin_write complete and in order while the ring does not wrap onto itself,
\* and an interrupt is still to come for every character in the ring and every
\* byte in a device unless two bytes shared one.
THEOREM ConsoleIsExact == Spec => []ConsoleExact
BY ConsInvExact, IInvAlways, ConsInvAlways, PTL
=============================================================================
