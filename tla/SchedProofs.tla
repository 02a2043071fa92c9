----------------------------- MODULE SchedProofs -----------------------------
(***************************************************************************)
(* Lemmas about the scheduler core: what WakeupProc and Schedule do to the  *)
(* run queue, for any set of processes and any slice length; before them,   *)
(* facts about the sequences that stand for the kernel's linked lists.      *)
(***************************************************************************)
EXTENDS Sched, FiniteSetTheorems, WellFoundedInduction, TLAPS

Distinct(s) == \A i, j \in 1..Len(s) : s[i] = s[j] => i = j

\* A set of numbers has a least one: what takes the place of induction in these proofs.
LEMMA NatLeast ==
    ASSUME NEW T, T \subseteq Nat, T # {} PROVE \E x \in T : \A y \in T : x <= y
<1>1. PICK x \in T : \A y \in T : ~(<<y, x>> \in OpToRel(<, Nat))
  BY WFMin, NatLessThanWellFounded
<1>2. \A y \in T : <<y, x>> \in OpToRel(<, Nat) <=> y < x
  BY DEF OpToRel
<1>3. \A y \in T : ~(y < x)
  BY <1>1, <1>2, Zenon
<1> QED BY <1>3

\* Every element of a sequence over S is in S.
LEMMA SeqElement ==
    ASSUME NEW S, NEW s \in Seq(S), NEW i \in 1..Len(s) PROVE s[i] \in S
OBVIOUS

\* A list as long as a finite set, with all its elements, has no duplicates.
LEMMA EnumerationFacts ==
    ASSUME NEW S, IsFiniteSet(S), NEW s \in [1..Cardinality(S) -> S], Range(s) = S
    PROVE  s \in Seq(S) /\ Distinct(s)
<1> DEFINE n == Cardinality(S)
<1>1. n \in Nat
  BY FS_CardinalityType
<1>2. IsFiniteSet(1..n) /\ Cardinality(1..n) = n
  BY <1>1, FS_Interval
<1>3. s \in Surjection(1..n, S)
  BY DEF Surjection, Range
<1>4. s \in Injection(1..n, S)
  BY <1>2, <1>3, FS_SurjSameCardinalityImpliesInj
<1> HIDE DEF n
<1>5. s \in Seq(S) /\ Len(s) = n
  BY <1>1, <1>3 DEF Surjection
<1> QED BY <1>4, <1>5 DEF Injection, IsInjective, Distinct

\* Appending a new element to a sequence without duplicates.
LEMMA AppendFacts ==
    ASSUME NEW S, NEW s \in Seq(S), NEW e \in S, Distinct(s), e \notin Range(s)
    PROVE  /\ Append(s, e) \in Seq(S)
           /\ Distinct(Append(s, e))
           /\ Range(Append(s, e)) = Range(s) \cup {e}
<1> DEFINE t == Append(s, e)
<1>1. /\ t \in Seq(S) /\ Len(t) = Len(s) + 1
      /\ \A i \in 1..Len(s) : t[i] = s[i]
      /\ t[Len(s) + 1] = e
  OBVIOUS
<1>2. \A i \in 1..Len(s) : s[i] \in Range(s)
  BY DEF Range
<1>3. Distinct(t)
  BY <1>1, <1>2 DEF Distinct
<1>4. Range(t) = Range(s) \cup {e}
  <2>1. DOMAIN t = 1..(Len(s) + 1) /\ DOMAIN s = 1..Len(s)
    BY <1>1
  <2> QED BY <1>1, <2>1 DEF Range
<1> QED BY <1>1, <1>3, <1>4

\* Taking the head off a sequence without duplicates.
LEMMA TailFacts ==
    ASSUME NEW S, NEW s \in Seq(S), s # <<>>, Distinct(s)
    PROVE  /\ Tail(s) \in Seq(S)
           /\ Head(s) \in S
           /\ Head(s) \in Range(s)
           /\ Distinct(Tail(s))
           /\ Range(Tail(s)) = Range(s) \ {Head(s)}
<1> DEFINE t == Tail(s)
<1>1. /\ t \in Seq(S) /\ Len(t) = Len(s) - 1 /\ Len(s) \in Nat /\ Len(s) > 0
      /\ \A i \in 1..Len(t) : t[i] = s[i + 1]
      /\ Head(s) = s[1] /\ s[1] \in S
  OBVIOUS
<1>2. DOMAIN t = 1..Len(t) /\ DOMAIN s = 1..Len(s)
  BY <1>1
<1>3. Head(s) \in Range(s)
  BY <1>1, <1>2 DEF Range
<1>4. Distinct(t)
  BY <1>1 DEF Distinct
<1>5. Range(t) = Range(s) \ {Head(s)}
  <2>1. ASSUME NEW x \in Range(t) PROVE x \in Range(s) /\ x # Head(s)
    <3>1. PICK i \in 1..Len(t) : x = t[i]
      BY <2>1, <1>2 DEF Range
    <3>2. x = s[i + 1] /\ i + 1 \in 1..Len(s) /\ i + 1 # 1
      BY <1>1, <3>1
    <3> QED BY <3>2, <1>1, <1>2 DEF Range, Distinct
  <2>2. ASSUME NEW x \in Range(s), x # Head(s) PROVE x \in Range(t)
    <3>1. PICK i \in 1..Len(s) : x = s[i]
      BY <2>2, <1>2 DEF Range
    <3>2. i # 1 /\ i - 1 \in 1..Len(t) /\ t[i - 1] = s[i]
      BY <1>1, <2>2, <3>1
    <3> QED BY <3>1, <3>2, <1>2 DEF Range
  <2> QED BY <2>1, <2>2
<1> QED BY <1>1, <1>3, <1>4, <1>5

\* u is s followed by t, element by element.
IsConcat(u, S, s, t) ==
    /\ u \in Seq(S)
    /\ Len(u) = Len(s) + Len(t)
    /\ \A j \in 1..Len(s) : u[j] = s[j]
    /\ \A j \in (Len(s) + 1)..(Len(s) + Len(t)) : u[j] = t[j - Len(s)]

\* u is s with e put in at place i: the elements from i on move up by one.
IsInsertion(u, S, s, i, e) ==
    /\ u \in Seq(S)
    /\ Len(u) = Len(s) + 1
    /\ \A j \in 1..(Len(s) + 1) :
         u[j] = IF j < i THEN s[j] ELSE IF j = i THEN e ELSE s[j - 1]

\* Concatenation, element by element.
LEMMA ConcatFacts ==
    ASSUME NEW S, NEW s \in Seq(S), NEW t \in Seq(S)
    PROVE  IsConcat(s \o t, S, s, t)
BY DEF IsConcat

\* Writing to one element of a list.
LEMMA UpdateFacts ==
    ASSUME NEW S, NEW s \in Seq(S), NEW i \in 1..Len(s), NEW e \in S
    PROVE  /\ [s EXCEPT ![i] = e] \in Seq(S)
           /\ Len([s EXCEPT ![i] = e]) = Len(s)
           /\ \A j \in 1..Len(s) : [s EXCEPT ![i] = e][j] = IF j = i THEN e ELSE s[j]
<1> DEFINE n == Len(s)
           t == [s EXCEPT ![i] = e]
<1>1. s \in [1..n -> S] /\ n \in Nat
  OBVIOUS
<1>2. t \in [1..n -> S] /\ \A j \in 1..n : t[j] = IF j = i THEN e ELSE s[j]
  BY <1>1
<1> HIDE DEF n, t
<1>3. t \in Seq(S) /\ Len(t) = n
  BY <1>1, <1>2
<1> QED BY <1>2, <1>3 DEF n, t

\* list_add_before: the elements from i on move up by one.
LEMMA InsertAtFacts ==
    ASSUME NEW S, NEW s \in Seq(S), NEW i \in 1..(Len(s) + 1), NEW e \in S
    PROVE  IsInsertion(InsertAt(s, i, e), S, s, i, e)
<1>0. Len(s) \in Nat /\ i \in Nat /\ i >= 1
  OBVIOUS
<1> DEFINE a == SubSeq(s, 1, i - 1)
           b == SubSeq(s, i, Len(s))
<1>1. a \in Seq(S) /\ Len(a) = i - 1 /\ \A j \in 1..(i - 1) : a[j] = s[j]
  OBVIOUS
<1>2. b \in Seq(S) /\ Len(b) = Len(s) + 1 - i
      /\ \A j \in 1..(Len(s) + 1 - i) : b[j] = s[i + j - 1]
  OBVIOUS
<1> HIDE DEF a, b
<1>3. /\ a \o <<e>> \in Seq(S) /\ Len(a \o <<e>>) = i
      /\ \A j \in 1..i : (a \o <<e>>)[j] = IF j < i THEN s[j] ELSE e
  BY <1>1
<1>4. InsertAt(s, i, e) = (a \o <<e>>) \o b
  BY DEF InsertAt, a, b
<1> DEFINE c == a \o <<e>>
<1>5. c \in Seq(S) /\ Len(c) = i /\ \A j \in 1..i : c[j] = IF j < i THEN s[j] ELSE e
  BY <1>3
<1> HIDE DEF c
<1>6. /\ c \o b \in Seq(S) /\ Len(c \o b) = Len(s) + 1
      /\ \A j \in 1..i : (c \o b)[j] = c[j]
      /\ \A j \in (i + 1)..(Len(s) + 1) : (c \o b)[j] = b[j - i]
  <2>1. IsConcat(c \o b, S, c, b)
    BY <1>2, <1>5, ConcatFacts
  <2>2. Len(c) = i /\ Len(c) + Len(b) = Len(s) + 1
    BY <1>0, <1>2, <1>5
  <2> QED BY <2>1, <2>2 DEF IsConcat
<1>7. ASSUME NEW j \in 1..(Len(s) + 1)
      PROVE  (c \o b)[j] = IF j < i THEN s[j] ELSE IF j = i THEN e ELSE s[j - 1]
  <2>0. j <= i \/ j > i
    BY <1>0
  <2>1. CASE j <= i
    BY <1>5, <1>6, <2>1
  <2>2. CASE j > i
    <3>1. j - i \in 1..(Len(s) + 1 - i) /\ i + (j - i) - 1 = j - 1
      BY <1>0, <2>2
    <3>2. j \in (i + 1)..(Len(s) + 1) /\ ~(j < i) /\ j # i
      BY <1>0, <2>2
    <3>3. (c \o b)[j] = b[j - i] /\ b[j - i] = s[i + (j - i) - 1]
      BY <1>2, <1>6, <3>1, <3>2
    <3> QED BY <3>1, <3>2, <3>3
  <2> QED BY <2>0, <2>1, <2>2
<1>8. InsertAt(s, i, e) = c \o b
  BY <1>4 DEF c
<1> QED BY <1>6, <1>7, <1>8 DEF IsInsertion

\* list_del: the elements after i move down by one.
LEMMA RemoveAtFacts ==
    ASSUME NEW S, NEW s \in Seq(S), NEW i \in 1..Len(s)
    PROVE  /\ RemoveAt(s, i) \in Seq(S)
           /\ Len(RemoveAt(s, i)) = Len(s) - 1
           /\ \A j \in 1..(Len(s) - 1) :
                RemoveAt(s, i)[j] = IF j < i THEN s[j] ELSE s[j + 1]
<1>0. Len(s) \in Nat /\ i \in Nat /\ i >= 1
  OBVIOUS
<1> DEFINE a == SubSeq(s, 1, i - 1)
           b == SubSeq(s, i + 1, Len(s))
<1>1. a \in Seq(S) /\ Len(a) = i - 1 /\ \A j \in 1..(i - 1) : a[j] = s[j]
  OBVIOUS
<1>2. b \in Seq(S) /\ Len(b) = Len(s) - i
      /\ \A j \in 1..(Len(s) - i) : b[j] = s[i + j]
  OBVIOUS
<1> HIDE DEF a, b
<1>3. RemoveAt(s, i) = a \o b
  BY DEF RemoveAt, a, b
<1>4. /\ a \o b \in Seq(S) /\ Len(a \o b) = Len(s) - 1
      /\ \A j \in 1..(i - 1) : (a \o b)[j] = a[j]
      /\ \A j \in i..(Len(s) - 1) : (a \o b)[j] = b[j - (i - 1)]
  <2>1. Len(a) + 1 = i /\ Len(a) + Len(b) = Len(s) - 1
    BY <1>0, <1>1, <1>2
  <2>2. /\ a \o b \in Seq(S) /\ Len(a \o b) = Len(a) + Len(b)
        /\ \A j \in 1..Len(a) : (a \o b)[j] = a[j]
        /\ \A j \in (Len(a) + 1)..(Len(a) + Len(b)) : (a \o b)[j] = b[j - Len(a)]
    <3>1. IsConcat(a \o b, S, a, b)
      BY <1>1, <1>2, ConcatFacts
    <3> QED BY <3>1 DEF IsConcat
  <2> QED BY <1>1, <2>1, <2>2
<1>5. ASSUME NEW j \in 1..(Len(s) - 1)
      PROVE  (a \o b)[j] = IF j < i THEN s[j] ELSE s[j + 1]
  <2>0. j < i \/ j >= i
    BY <1>0
  <2>1. CASE j < i
    BY <1>1, <1>4, <2>1
  <2>2. CASE j >= i
    <3>1. j - (i - 1) \in 1..(Len(s) - i) /\ i + (j - (i - 1)) = j + 1
      BY <1>0, <2>2
    <3>2. j \in i..(Len(s) - 1) /\ ~(j < i)
      BY <1>0, <2>2
    <3>3. (a \o b)[j] = b[j - (i - 1)] /\ b[j - (i - 1)] = s[i + (j - (i - 1))]
      BY <1>2, <1>4, <3>1, <3>2
    <3> QED BY <3>1, <3>2, <3>3
  <2> QED BY <2>0, <2>1, <2>2
<1> QED BY <1>3, <1>4, <1>5

-----------------------------------------------------------------------------
(* The scheduler.                                                           *)

\* RR_enqueue leaves no more than a full slice.
LEMMA RefillType ==
    ASSUME NEW x \in 0..MAX_TIME_SLICE PROVE Refill(x) \in 0..MAX_TIME_SLICE
BY SchedAssumption DEF Refill

\* A slice may be empty.
LEMMA EmptySlice ==
    ASSUME NEW f \in [Procs -> 0..MAX_TIME_SLICE], NEW p \in Procs
    PROVE  [f EXCEPT ![p] = 0] \in [Procs -> 0..MAX_TIME_SLICE]
<1>1. 0 \in 0..MAX_TIME_SLICE
  BY SchedAssumption
<1> QED BY <1>1

\* RR_proc_tick keeps a slice within its bounds.
LEMMA ProcTickFacts ==
    ASSUME SchedTypeOK, ProcTick(current)
    PROVE  time_slice' \in [Procs -> 0..MAX_TIME_SLICE] /\ need_resched' \in [Procs -> BOOLEAN]
<1> DEFINE slice == IF time_slice[current] > 0 THEN time_slice[current] - 1 ELSE 0
<1>1. /\ current \in Procs /\ need_resched \in [Procs -> BOOLEAN]
      /\ time_slice \in [Procs -> 0..MAX_TIME_SLICE]
  BY DEF SchedTypeOK
<1>2. slice \in 0..MAX_TIME_SLICE
  BY <1>1, SchedAssumption
<1>3. time_slice' = time_slice \/ time_slice' = [time_slice EXCEPT ![current] = slice]
  BY DEF ProcTick
<1>4. need_resched' = [need_resched EXCEPT ![current] = TRUE]
      \/ need_resched' = [need_resched EXCEPT ![current] = @ \/ slice = 0]
  BY DEF ProcTick
<1> HIDE DEF slice
<1>5. need_resched' \in [Procs -> BOOLEAN]
  BY <1>1, <1>4
<1> QED BY <1>1, <1>2, <1>3, <1>5

\* wakeup_proc of a process that is no zombie trips no assertion and keeps the
\* run queue exact.
LEMMA WakeupProcFacts ==
    ASSUME SchedTypeOK, RunQueueExact, NEW p \in Procs, state[p] # "ZOMBIE",
           WakeupProc(p), UNCHANGED <<current, need_resched>>
    PROVE  /\ SchedTypeOK' /\ RunQueueExact' /\ panic' = panic
           /\ state' = [state EXCEPT ![p] = "RUNNABLE"]
           /\ \A q \in Procs : wait_state'[q] = wait_state[q] \/ (q = p /\ wait_state'[q] = "NONE")
           /\ state[p] # "RUNNABLE" => wait_state'[p] = "NONE"
<1> USE SchedAssumption
<1>1. CASE state[p] = "RUNNABLE"
  BY <1>1 DEF WakeupProc, SchedTypeOK, RunQueueExact, OnRunList
<1>2. CASE state[p] # "RUNNABLE"
  <2>1. ~OnRunList(p)
    BY <1>2 DEF RunQueueExact
  <2>2. /\ panic' = panic
        /\ state' = [state EXCEPT ![p] = "RUNNABLE"]
        /\ wait_state' = [wait_state EXCEPT ![p] = "NONE"]
        /\ IF WakeupEnqueues(p) THEN RR_enqueue(p) ELSE UNCHANGED runVars
    BY <1>2, <2>1 DEF WakeupProc, Assert_
  <2>3. Distinct(run_list) /\ run_list \in Seq(Procs) /\ p \notin Range(run_list)
    BY <2>1 DEF RunQueueExact, Distinct, SchedTypeOK, OnRunList
  <2>4. time_slice' \in [Procs -> 0..MAX_TIME_SLICE]
    <3>1. Refill(time_slice[p]) \in 0..MAX_TIME_SLICE
      <4>1. time_slice[p] \in 0..MAX_TIME_SLICE
        BY DEF SchedTypeOK
      <4> QED BY <4>1, RefillType
    <3>2. time_slice' = [time_slice EXCEPT ![p] = Refill(time_slice[p])] \/ time_slice' = time_slice
      BY <2>2 DEF RR_enqueue, runVars
    <3> QED BY <3>1, <3>2 DEF SchedTypeOK
  <2>5. /\ run_list' \in Seq(Procs) /\ Distinct(run_list')
        /\ Range(run_list') = IF WakeupEnqueues(p) THEN Range(run_list) \cup {p}
                                                   ELSE Range(run_list)
    <3>1. CASE WakeupEnqueues(p)
      <4>1. run_list' = Append(run_list, p)
        BY <2>2, <3>1 DEF RR_enqueue
      <4> QED BY <2>3, <3>1, <4>1, AppendFacts
    <3>2. CASE ~WakeupEnqueues(p)
      <4>1. run_list' = run_list
        BY <2>2, <3>2 DEF runVars
      <4> QED BY <2>3, <3>2, <4>1
    <3> QED BY <3>1, <3>2
  <2>6. SchedTypeOK'
    BY <2>2, <2>4, <2>5 DEF SchedTypeOK, States, WaitStates
  <2>7. RunQueueExact'
    <3>1. \A q \in Procs : q \in Range(run_list') <=>
                           (state'[q] = "RUNNABLE" /\ q # current /\ q # Idle)
      BY <2>2, <2>5, <1>2 DEF RunQueueExact, OnRunList, WakeupEnqueues, SchedTypeOK
    <3> QED BY <3>1, <2>5 DEF RunQueueExact, OnRunList, Distinct
  <2> QED BY <2>2, <2>6, <2>7 DEF SchedTypeOK
<1> QED BY <1>1, <1>2

\* schedule trips no assertion, keeps the run queue exact and hands the
\* processor to a process that can run.
LEMMA ScheduleFacts ==
    ASSUME SchedTypeOK, RunQueueExact, state[Idle] = "RUNNABLE", Schedule
    PROVE  /\ SchedTypeOK' /\ RunQueueExact' /\ panic' = panic
           /\ state' = state /\ wait_state' = wait_state
           /\ state[current'] = "RUNNABLE"
<1> USE SchedAssumption
<1> DEFINE requeue == state[current] = "RUNNABLE" /\ current # Idle
           queue == IF requeue THEN Append(run_list, current) ELSE run_list
<1>1. ~OnRunList(current)
  BY DEF RunQueueExact, SchedTypeOK
<1>2. /\ panic' = panic /\ state' = state /\ wait_state' = wait_state
      /\ need_resched' = [need_resched EXCEPT ![current] = FALSE]
      /\ time_slice' = IF requeue THEN [time_slice EXCEPT ![current] = Refill(@)]
                                  ELSE time_slice
      /\ run_list' = IF queue = <<>> THEN queue ELSE Tail(queue)
      /\ current' = IF queue = <<>> THEN Idle ELSE Head(queue)
  BY <1>1 DEF Schedule, Assert_
<1>3. /\ queue \in Seq(Procs) /\ Distinct(queue)
      /\ Range(queue) = IF requeue THEN Range(run_list) \cup {current} ELSE Range(run_list)
  <2>1. run_list \in Seq(Procs) /\ Distinct(run_list) /\ current \in Procs
        /\ current \notin Range(run_list)
    BY <1>1 DEF RunQueueExact, SchedTypeOK, OnRunList, Distinct
  <2> QED BY <2>1, AppendFacts, ZenonT(60)
<1>7. time_slice' \in [Procs -> 0..MAX_TIME_SLICE]
  <2>1. current \in Procs /\ time_slice[current] \in 0..MAX_TIME_SLICE
    BY DEF SchedTypeOK
  <2>2. Refill(time_slice[current]) \in 0..MAX_TIME_SLICE
    BY <2>1, RefillType
  <2> QED BY <1>2, <2>1, <2>2 DEF SchedTypeOK
<1>4. \A q \in Procs : q \in Range(queue) <=> (state[q] = "RUNNABLE" /\ q # Idle)
  BY <1>3 DEF RunQueueExact, OnRunList, SchedTypeOK
<1> HIDE DEF queue
<1>5. CASE queue = <<>>
  <2>1. Range(queue) = {}
    BY <1>5 DEF Range
  <2>2. run_list' \in Seq(Procs) /\ Distinct(run_list') /\ Range(run_list') = {}
        /\ current' = Idle
    BY <1>2, <1>3, <1>5, <2>1
  <2>3. RunQueueExact'
    BY <1>2, <1>4, <2>1, <2>2 DEF RunQueueExact, OnRunList, Distinct
  <2>4. SchedTypeOK'
    BY <1>2, <1>7, <2>2 DEF SchedTypeOK
  <2> QED BY <1>2, <2>2, <2>3, <2>4
<1>6. CASE queue # <<>>
  <2>1. /\ run_list' \in Seq(Procs) /\ Distinct(run_list')
        /\ Range(run_list') = Range(queue) \ {current'}
        /\ current' \in Procs /\ current' \in Range(queue)
    BY <1>2, <1>3, <1>6, TailFacts
  <2>2. RunQueueExact'
    BY <1>2, <1>4, <2>1 DEF RunQueueExact, OnRunList, Distinct
  <2>3. SchedTypeOK'
    BY <1>2, <1>7, <2>1 DEF SchedTypeOK
  <2> QED BY <1>2, <1>4, <2>1, <2>2, <2>3
<1> QED BY <1>5, <1>6
=============================================================================
