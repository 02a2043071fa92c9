--------------------------- MODULE ResourceProofs ----------------------------
(***************************************************************************)
(* What fork hands to a child: a pid that no other process has, for every   *)
(* MAX_PROCESS and MAX_PID, and files whose inodes are counted, for every   *)
(* number of processes, descriptors and inodes.                             *)
(***************************************************************************)
EXTENDS GetPid, Files, SequenceTheorems, FiniteSetTheorems, WellFoundedInduction, TLAPS

-----------------------------------------------------------------------------
(* The pids of get_pid.                                                     *)

\* Every element of a sequence over S is in S.
LEMMA SeqElement ==
    ASSUME NEW S, NEW s \in Seq(S), NEW i \in 1..Len(s) PROVE s[i] \in S
OBVIOUS

\* list_del: the elements after i move down by one.
LEMMA RemoveAtFacts ==
    ASSUME NEW S, NEW s \in Seq(S), NEW i \in 1..Len(s)
    PROVE  /\ RemoveAt(s, i) \in Seq(S)
           /\ Len(RemoveAt(s, i)) = Len(s) - 1
           /\ \A j \in 1..(Len(s) - 1) :
                RemoveAt(s, i)[j] = IF j < i THEN s[j] ELSE s[j + 1]
<1>0. Len(s) \in Nat /\ i \in Nat /\ i >= 1
  OBVIOUS
<1> DEFINE a == SubSeq(s, 1, i - 1)
           b == SubSeq(s, i + 1, Len(s))
<1>1. a \in Seq(S) /\ Len(a) = i - 1 /\ \A j \in 1..(i - 1) : a[j] = s[j]
  OBVIOUS
<1>2. b \in Seq(S) /\ Len(b) = Len(s) - i
      /\ \A j \in 1..(Len(s) - i) : b[j] = s[i + j]
  OBVIOUS
<1> HIDE DEF a, b
<1>3. RemoveAt(s, i) = a \o b
  BY DEF RemoveAt, a, b
<1>4. /\ a \o b \in Seq(S) /\ Len(a \o b) = Len(s) - 1
      /\ \A j \in 1..(i - 1) : (a \o b)[j] = a[j]
      /\ \A j \in i..(Len(s) - 1) : (a \o b)[j] = b[j - (i - 1)]
  <2>1. Len(a) + 1 = i /\ Len(a) + Len(b) = Len(s) - 1
    BY <1>0, <1>1, <1>2
  <2>2. /\ a \o b \in Seq(S) /\ Len(a \o b) = Len(a) + Len(b)
        /\ \A j \in 1..Len(a) : (a \o b)[j] = a[j]
        /\ \A j \in (Len(a) + 1)..(Len(a) + Len(b)) : (a \o b)[j] = b[j - Len(a)]
    <3>1. /\ a \o b \in Seq(S) /\ Len(a \o b) = Len(a) + Len(b)
          /\ \A j \in 1..(Len(a) + Len(b)) :
               (a \o b)[j] = IF j <= Len(a) THEN a[j] ELSE b[j - Len(a)]
      BY <1>1, <1>2, ConcatProperties, Zenon
    <3> QED BY <1>0, <1>1, <1>2, <3>1
  <2> QED BY <1>1, <2>1, <2>2
<1>5. ASSUME NEW j \in 1..(Len(s) - 1)
      PROVE  (a \o b)[j] = IF j < i THEN s[j] ELSE s[j + 1]
  <2>0. j < i \/ j >= i
    BY <1>0
  <2>1. CASE j < i
    BY <1>1, <1>4, <2>1
  <2>2. CASE j >= i
    <3>1. j - (i - 1) \in 1..(Len(s) - i) /\ i + (j - (i - 1)) = j + 1
      BY <1>0, <2>2
    <3>2. j \in i..(Len(s) - 1) /\ ~(j < i)
      BY <1>0, <2>2
    <3>3. (a \o b)[j] = b[j - (i - 1)] /\ b[j - (i - 1)] = s[i + (j - (i - 1))]
      BY <1>2, <1>4, <3>1, <3>2
    <3> QED BY <3>1, <3>2, <3>3
  <2> QED BY <2>0, <2>1, <2>2
<1> QED BY <1>3, <1>4, <1>5

\* pid is neither the candidate nor in the range next_safe declares free.
Clear(pid, last, safe) == pid # last /\ ~(last < pid /\ pid < safe)

\* Between two calls no live pid lies between last_pid and next_safe; during the
\* scan that holds of the processes seen so far, and the candidate is not theirs.
SafeRange ==
    /\ le = 0 => \A i \in 1..Len(proc_list) : ~(last_pid < proc_list[i] /\ proc_list[i] < next_safe)
    /\ le > 0 => /\ last_pid \in Pids
                 /\ last_pid < next_safe
                 /\ \A i \in 1..(le - 1) : Clear(proc_list[i], last_pid, next_safe)

PidInv == PidTypeOK /\ PidsUnique /\ SafeRange

\* Linking in the process with a pid that no live process has.
LEMMA LinkFacts ==
    ASSUME PidTypeOK, PidsUnique, NEW pid \in Pids, Link(pid),
           \A i \in 1..Len(proc_list) : proc_list[i] # pid
    PROVE  /\ proc_list' \in Seq(Pids) /\ PidsUnique'
           /\ Len(proc_list') = Len(proc_list) + 1
           /\ \A i \in 1..Len(proc_list') :
                proc_list'[i] = IF i = 1 THEN pid ELSE proc_list[i - 1]
           /\ Range(proc_list') = Range(proc_list) \cup {pid}
<1> USE PidAssumption
<1>1. proc_list \in Seq(Pids) /\ Len(proc_list) \in Nat /\ <<pid>> \in Seq(Pids)
  BY DEF PidTypeOK
<1>2. /\ proc_list' \in Seq(Pids) /\ Len(proc_list') = Len(proc_list) + 1
      /\ \A i \in 1..Len(proc_list') :
           proc_list'[i] = IF i = 1 THEN pid ELSE proc_list[i - 1]
  <2>1. /\ <<pid>> \o proc_list \in Seq(Pids)
        /\ Len(<<pid>> \o proc_list) = 1 + Len(proc_list)
        /\ (<<pid>> \o proc_list)[1] = pid
        /\ \A j \in 2..(1 + Len(proc_list)) : (<<pid>> \o proc_list)[j] = proc_list[j - 1]
    BY <1>1
  <2> QED BY <1>1, <2>1 DEF Link
<1>3. PidsUnique'
  <2>1. \A i \in 1..Len(proc_list') : i # 1 => i - 1 \in 1..Len(proc_list)
    BY <1>1, <1>2
  <2>2. ASSUME NEW i \in 1..Len(proc_list'), NEW j \in 1..Len(proc_list'), proc_list'[i] = proc_list'[j]
        PROVE  i = j
    <3>1. CASE i = 1 /\ j = 1
      BY <3>1
    <3>2. CASE i = 1 /\ j # 1
      BY <1>2, <2>1, <2>2, <3>2
    <3>3. CASE i # 1 /\ j = 1
      BY <1>2, <2>1, <2>2, <3>3
    <3>4. CASE i # 1 /\ j # 1
      <4>1. /\ proc_list[i - 1] = proc_list[j - 1]
            /\ i - 1 \in 1..Len(proc_list) /\ j - 1 \in 1..Len(proc_list)
        BY <1>2, <2>1, <2>2, <3>4
      <4>2. i - 1 = j - 1
        BY <4>1 DEF PidsUnique
      <4> QED BY <1>1, <1>2, <4>2
    <3> QED BY <3>1, <3>2, <3>3, <3>4
  <2> QED BY <2>2 DEF PidsUnique
<1>4. Range(proc_list') = Range(proc_list) \cup {pid}
  <2>1. DOMAIN proc_list' = 1..(Len(proc_list) + 1) /\ DOMAIN proc_list = 1..Len(proc_list)
    BY <1>1, <1>2
  <2>2. ASSUME NEW x \in Range(proc_list') PROVE x \in Range(proc_list) \cup {pid}
    <3>1. PICK i \in 1..(Len(proc_list) + 1) : x = proc_list'[i]
      BY <2>1, <2>2 DEF Range
    <3>2. CASE i = 1
      BY <1>2, <3>1, <3>2
    <3>3. CASE i # 1
      <4>1. i - 1 \in 1..Len(proc_list) /\ x = proc_list[i - 1]
        BY <1>1, <1>2, <3>1, <3>3
      <4> QED BY <2>1, <4>1 DEF Range
    <3> QED BY <3>2, <3>3
  <2>3. pid \in Range(proc_list')
    <3>1. 1 \in 1..(Len(proc_list) + 1) /\ proc_list'[1] = pid
      BY <1>1, <1>2
    <3> QED BY <2>1, <3>1 DEF Range
  <2>4. ASSUME NEW x \in Range(proc_list) PROVE x \in Range(proc_list')
    <3>1. PICK i \in 1..Len(proc_list) : x = proc_list[i]
      BY <2>1, <2>4 DEF Range
    <3>2. i + 1 \in 1..(Len(proc_list) + 1) /\ proc_list'[i + 1] = proc_list[i]
      BY <1>1, <1>2
    <3> QED BY <2>1, <3>1, <3>2 DEF Range
  <2> QED BY <2>2, <2>3, <2>4
<1> QED BY <1>2, <1>3, <1>4

\* The pid get_pid returns belongs to no live process.
LEMMA ReturnedPidIsFree ==
    ASSUME PidInv
    PROVE  /\ Fast => last_pid + 1 \in Pids /\ last_pid' = last_pid + 1
                      /\ \A i \in 1..Len(proc_list) : proc_list[i] # last_pid + 1
           /\ ScanDone => last_pid \in Pids /\ last_pid' = last_pid
                          /\ \A i \in 1..Len(proc_list) : proc_list[i] # last_pid
<1> USE PidAssumption
<1>1. /\ \A i \in 1..Len(proc_list) : proc_list[i] \in Pids
      /\ Len(proc_list) \in Nat /\ last_pid \in 1..MAX_PID /\ next_safe \in 1..MAX_PID
  BY SeqElement DEF PidInv, PidTypeOK
<1>2. ASSUME Fast
      PROVE  last_pid + 1 \in Pids /\ last_pid' = last_pid + 1
             /\ \A i \in 1..Len(proc_list) : proc_list[i] # last_pid + 1
  BY <1>1, <1>2 DEF Fast, MayFork, PidInv, SafeRange, Pids
<1>3. ASSUME ScanDone
      PROVE  last_pid \in Pids /\ last_pid' = last_pid
             /\ \A i \in 1..Len(proc_list) : proc_list[i] # last_pid
  BY <1>1, <1>3 DEF ScanDone, PidInv, SafeRange, Clear
<1> QED BY <1>2, <1>3

\* Taking a process off the list.
LEMMA ReapFacts ==
    ASSUME PidTypeOK, PidsUnique, NEW i \in 1..Len(proc_list), proc_list' = RemoveAt(proc_list, i)
    PROVE  /\ proc_list' \in Seq(Pids) /\ PidsUnique'
           /\ \A j \in 1..Len(proc_list') : \E k \in 1..Len(proc_list) : proc_list'[j] = proc_list[k]
           /\ Range(proc_list') = Range(proc_list) \ {proc_list[i]}
<1>1. proc_list \in Seq(Pids) /\ Len(proc_list) \in Nat
  BY DEF PidTypeOK
<1> DEFINE at(j) == IF j < i THEN j ELSE j + 1
<1>2. /\ proc_list' \in Seq(Pids) /\ Len(proc_list') = Len(proc_list) - 1
      /\ \A j \in 1..(Len(proc_list) - 1) : proc_list'[j] = proc_list[at(j)]
  <2>1. /\ RemoveAt(proc_list, i) \in Seq(Pids) /\ Len(RemoveAt(proc_list, i)) = Len(proc_list) - 1
        /\ \A j \in 1..(Len(proc_list) - 1) :
             RemoveAt(proc_list, i)[j] = IF j < i THEN proc_list[j] ELSE proc_list[j + 1]
    BY <1>1, RemoveAtFacts
  <2> QED BY <2>1
<1>3. \A j \in 1..Len(proc_list') : at(j) \in 1..Len(proc_list) /\ at(j) # i
  BY <1>1, <1>2
<1>4. PidsUnique'
  <2>1. ASSUME NEW j \in 1..Len(proc_list'), NEW k \in 1..Len(proc_list'), proc_list'[j] = proc_list'[k]
        PROVE  j = k
    <3>1. proc_list[at(j)] = proc_list[at(k)] /\ at(j) \in 1..Len(proc_list) /\ at(k) \in 1..Len(proc_list)
      BY <1>2, <1>3, <2>1
    <3> HIDE DEF at
    <3>2. at(j) = at(k)
      BY <3>1 DEF PidsUnique
    <3> USE DEF at
    <3> QED BY <1>1, <1>2, <3>2
  <2> QED BY <2>1 DEF PidsUnique
<1>5. Range(proc_list') = Range(proc_list) \ {proc_list[i]}
  <2>1. DOMAIN proc_list' = 1..(Len(proc_list) - 1) /\ DOMAIN proc_list = 1..Len(proc_list)
    BY <1>1, <1>2
  <2>2. ASSUME NEW x \in Range(proc_list') PROVE x \in Range(proc_list) /\ x # proc_list[i]
    <3>1. PICK j \in 1..(Len(proc_list) - 1) : x = proc_list'[j]
      BY <2>1, <2>2 DEF Range
    <3>2. x = proc_list[at(j)] /\ at(j) \in 1..Len(proc_list) /\ at(j) # i
      BY <1>2, <1>3, <3>1
    <3> HIDE DEF at
    <3> QED BY <2>1, <3>2 DEF Range, PidsUnique
  <2>3. ASSUME NEW x \in Range(proc_list), x # proc_list[i] PROVE x \in Range(proc_list')
    <3>1. PICK k \in 1..Len(proc_list) : x = proc_list[k]
      BY <2>1, <2>3 DEF Range
    <3>2. k # i
      BY <2>3, <3>1
    <3>3. PICK j \in 1..(Len(proc_list) - 1) : at(j) = k
      <4>1. CASE k < i
        <5>1. k \in 1..(Len(proc_list) - 1) /\ at(k) = k
          BY <1>1, <4>1
        <5> QED BY <5>1
      <4>2. CASE k > i
        <5>1. k - 1 \in 1..(Len(proc_list) - 1) /\ at(k - 1) = k
          BY <1>1, <4>2
        <5> QED BY <5>1
      <4> QED BY <1>1, <3>2, <4>1, <4>2
    <3>4. proc_list'[j] = x
      BY <1>2, <3>1, <3>3
    <3> QED BY <2>1, <3>4 DEF Range
  <2> QED BY <2>2, <2>3
<1> QED BY <1>2, <1>3, <1>4, <1>5

\* Every step keeps the invariant.
LEMMA PidStepKeeps ==
    PidInv /\ [PidNext]_pidVars => PidInv'
<1> USE PidAssumption
<1>0. SUFFICES ASSUME PidInv, [PidNext]_pidVars PROVE PidInv'
  OBVIOUS
<1>1. /\ PidTypeOK /\ PidsUnique /\ Len(proc_list) \in Nat /\ le \in Nat
      /\ last_pid \in 1..MAX_PID /\ next_safe \in 1..MAX_PID
      /\ \A i \in 1..Len(proc_list) : proc_list[i] \in Pids
  BY <1>0, SeqElement DEF PidInv, PidTypeOK
<1>2. CASE Fast
  <2>1. /\ Link(last_pid + 1) /\ last_pid' = last_pid + 1 /\ next_safe' = next_safe /\ le' = 0 /\ le = 0
        /\ last_pid + 1 < next_safe
    BY <1>2 DEF Fast, MayFork
  <2>2. /\ last_pid + 1 \in Pids /\ \A i \in 1..Len(proc_list) : proc_list[i] # last_pid + 1
    BY <1>0, <1>2, ReturnedPidIsFree
  <2>3. /\ proc_list' \in Seq(Pids) /\ PidsUnique' /\ Len(proc_list') = Len(proc_list) + 1
        /\ \A i \in 1..Len(proc_list') :
             proc_list'[i] = IF i = 1 THEN last_pid + 1 ELSE proc_list[i - 1]
    BY <1>1, <2>1, <2>2, LinkFacts
  <2>4. PidTypeOK'
    BY <1>1, <2>1, <2>2, <2>3 DEF PidTypeOK, Pids
  <2>5. SafeRange'
    <3>1. \A i \in 1..Len(proc_list) : ~(last_pid < proc_list[i] /\ proc_list[i] < next_safe)
      BY <1>0, <2>1 DEF PidInv, SafeRange
    <3>2. \A i \in 1..Len(proc_list') : ~(last_pid + 1 < proc_list'[i] /\ proc_list'[i] < next_safe)
      <4>1. ASSUME NEW i \in 1..Len(proc_list')
            PROVE  ~(last_pid + 1 < proc_list'[i] /\ proc_list'[i] < next_safe)
        <5>1. CASE i = 1
          BY <1>1, <2>3, <5>1
        <5>2. CASE i # 1
          <6>1. i - 1 \in 1..Len(proc_list) /\ proc_list'[i] = proc_list[i - 1]
            BY <1>1, <2>3, <5>2
          <6> QED BY <1>1, <3>1, <6>1 DEF Pids
        <5> QED BY <5>1, <5>2
      <4> QED BY <4>1
    <3> QED BY <2>1, <3>2 DEF SafeRange
  <2> QED BY <2>3, <2>4, <2>5 DEF PidInv
<1>3. CASE Inside
  <2>1. /\ last_pid' \in Pids /\ next_safe' = MAX_PID /\ le' = 1 /\ proc_list' = proc_list
    BY <1>1, <1>3 DEF Inside, Pids
  <2>2. PidTypeOK' /\ PidsUnique'
    BY <1>1, <2>1 DEF PidTypeOK, PidsUnique, Pids
  <2>3. SafeRange'
    BY <2>1 DEF SafeRange, Pids
  <2> QED BY <2>2, <2>3 DEF PidInv
<1>4. CASE ScanTaken
  <2>1. /\ le \in 1..Len(proc_list) /\ proc_list[le] = last_pid /\ proc_list' = proc_list
        /\ last_pid \in Pids /\ last_pid < next_safe
        /\ \A i \in 1..(le - 1) : Clear(proc_list[i], last_pid, next_safe)
    BY <1>0, <1>1, <1>4 DEF ScanTaken, PidInv, SafeRange
  <2>2. CASE last_pid + 1 >= next_safe
    <3>1. last_pid' \in Pids /\ next_safe' = MAX_PID /\ le' = 1
      BY <1>1, <1>4, <2>2 DEF ScanTaken, Pids
    <3>2. PidTypeOK' /\ PidsUnique'
      BY <1>1, <2>1, <3>1 DEF PidTypeOK, PidsUnique, Pids
    <3>3. SafeRange'
      BY <3>1 DEF SafeRange, Pids
    <3> QED BY <3>2, <3>3 DEF PidInv
  <2>3. CASE ~(last_pid + 1 >= next_safe)
    <3>1. last_pid' = last_pid + 1 /\ next_safe' = next_safe /\ le' = le + 1 /\ last_pid + 1 < next_safe
      BY <1>1, <1>4, <2>3 DEF ScanTaken
    <3>2. PidTypeOK' /\ PidsUnique'
      BY <1>1, <2>1, <3>1 DEF PidTypeOK, PidsUnique, Pids
    <3>3. \A i \in 1..le : Clear(proc_list[i], last_pid + 1, next_safe)
      <4>1. ASSUME NEW i \in 1..le PROVE Clear(proc_list[i], last_pid + 1, next_safe)
        <5>1. proc_list[i] \in Int
          BY <1>1, <2>1 DEF Pids
        <5>2. CASE i = le
          BY <1>1, <2>1, <3>1, <5>1, <5>2 DEF Clear
        <5>3. CASE i # le
          <6>1. i \in 1..(le - 1)
            BY <2>1, <5>3
          <6> QED BY <1>1, <2>1, <3>1, <5>1, <6>1 DEF Clear
        <5> QED BY <5>2, <5>3
      <4> QED BY <4>1
    <3>4. SafeRange'
      BY <1>1, <2>1, <3>1, <3>3 DEF SafeRange, Pids
    <3> QED BY <3>2, <3>4 DEF PidInv
  <2> QED BY <2>2, <2>3
<1>5. CASE ScanOther
  <2>1. /\ le \in 1..Len(proc_list) /\ proc_list[le] # last_pid
        /\ proc_list' = proc_list /\ last_pid' = last_pid /\ le' = le + 1
        /\ last_pid \in Pids /\ last_pid < next_safe /\ proc_list[le] \in Pids
        /\ \A i \in 1..(le - 1) : Clear(proc_list[i], last_pid, next_safe)
        /\ next_safe' = IF proc_list[le] > last_pid /\ next_safe > proc_list[le]
                        THEN proc_list[le] ELSE next_safe
    BY <1>0, <1>1, <1>5 DEF ScanOther, PidInv, SafeRange
  <2>2. next_safe' \in 1..MAX_PID /\ last_pid < next_safe' /\ next_safe' <= next_safe
    BY <1>1, <2>1 DEF Pids
  <2>3. PidTypeOK' /\ PidsUnique'
    BY <1>1, <2>1, <2>2 DEF PidTypeOK, PidsUnique, Pids
  <2>4. \A i \in 1..le : Clear(proc_list[i], last_pid, next_safe')
    <3>1. ASSUME NEW i \in 1..le PROVE Clear(proc_list[i], last_pid, next_safe')
      <4>1. proc_list[i] \in Int
        BY <1>1, <2>1 DEF Pids
      <4>2. CASE i = le
        BY <1>1, <2>1, <4>1, <4>2 DEF Clear
      <4>3. CASE i # le
        <5>1. i \in 1..(le - 1)
          BY <2>1, <4>3
        <5> QED BY <1>1, <2>1, <2>2, <4>1, <5>1 DEF Clear
      <4> QED BY <4>2, <4>3
    <3> QED BY <3>1
  <2>5. SafeRange'
    BY <1>1, <2>1, <2>2, <2>4 DEF SafeRange
  <2> QED BY <2>3, <2>5 DEF PidInv
<1>6. CASE ScanDone
  <2>1. /\ Link(last_pid) /\ last_pid' = last_pid /\ next_safe' = next_safe /\ le' = 0
        /\ le = Len(proc_list) + 1
    BY <1>6 DEF ScanDone
  <2>2. last_pid \in Pids /\ \A i \in 1..Len(proc_list) : proc_list[i] # last_pid
    BY <1>0, <1>6, ReturnedPidIsFree
  <2>3. /\ proc_list' \in Seq(Pids) /\ PidsUnique' /\ Len(proc_list') = Len(proc_list) + 1
        /\ \A i \in 1..Len(proc_list') :
             proc_list'[i] = IF i = 1 THEN last_pid ELSE proc_list[i - 1]
    BY <1>1, <2>1, <2>2, LinkFacts
  <2>4. PidTypeOK'
    BY <1>1, <2>1, <2>3 DEF PidTypeOK
  <2>5. \A i \in 1..Len(proc_list) : Clear(proc_list[i], last_pid, next_safe)
    BY <1>0, <1>1, <2>1 DEF PidInv, SafeRange
  <2>6. \A i \in 1..Len(proc_list') : ~(last_pid < proc_list'[i] /\ proc_list'[i] < next_safe)
    <3>1. ASSUME NEW i \in 1..Len(proc_list')
          PROVE  ~(last_pid < proc_list'[i] /\ proc_list'[i] < next_safe)
      <4>1. CASE i = 1
        BY <1>1, <2>3, <4>1
      <4>2. CASE i # 1
        <5>1. i - 1 \in 1..Len(proc_list) /\ proc_list'[i] = proc_list[i - 1]
          BY <1>1, <2>3, <4>2
        <5> QED BY <2>5, <5>1 DEF Clear
      <4> QED BY <4>1, <4>2
    <3> QED BY <3>1
  <2>7. SafeRange'
    BY <2>1, <2>6 DEF SafeRange
  <2> QED BY <2>3, <2>4, <2>7 DEF PidInv
<1>7. CASE Reap
  <2>1. PICK i \in 1..Len(proc_list) : proc_list' = RemoveAt(proc_list, i)
    BY <1>7 DEF Reap
  <2>2. /\ proc_list' \in Seq(Pids) /\ PidsUnique'
        /\ \A j \in 1..Len(proc_list') : \E k \in 1..Len(proc_list) : proc_list'[j] = proc_list[k]
    BY <1>1, <2>1, ReapFacts
  <2>3. le = 0 /\ UNCHANGED <<last_pid, next_safe, le>>
    BY <1>7 DEF Reap
  <2>4. PidTypeOK'
    BY <1>1, <2>2, <2>3 DEF PidTypeOK
  <2>5. SafeRange'
    BY <1>0, <2>2, <2>3 DEF PidInv, SafeRange
  <2> QED BY <2>2, <2>4, <2>5 DEF PidInv
<1>8. CASE UNCHANGED pidVars
  BY <1>0, <1>8 DEF pidVars, PidInv, PidTypeOK, PidsUnique, SafeRange, Clear
<1> QED BY <1>0, <1>2, <1>3, <1>4, <1>5, <1>6, <1>7, <1>8 DEF PidNext, Scan

\* The static variables start so that the first call scans an empty list.
LEMMA PidInitKeeps ==
    PidInit => PidInv
BY PidAssumption DEF PidInit, PidInv, PidTypeOK, PidsUnique, SafeRange

\* The invariant holds throughout.
THEOREM PidInductive == PidSpec => []PidInv
BY PidInitKeeps, PidStepKeeps, PTL DEF PidSpec

\* No two live processes ever have the same pid.
THEOREM PidsAreUnique == PidSpec => []PidsUnique
<1>1. PidInv => PidsUnique
  BY DEF PidInv
<1> QED BY PidInductive, <1>1, PTL

\* get_pid and do_wait implement the allocation and release of free pids.
THEOREM GetPidImplements == PidSpec => Implements
<1> USE PidAssumption
<1>1. PidInit => Abstract!Init
  BY DEF PidInit, Abstract!Init, Range
<1>2. PidInv /\ [PidNext]_pidVars => [Abstract!Next]_(Range(proc_list))
  <2>1. SUFFICES ASSUME PidInv, [PidNext]_pidVars
                 PROVE  Abstract!Next \/ Range(proc_list') = Range(proc_list)
    OBVIOUS
  <2>2. PidTypeOK /\ PidsUnique /\ Abstract!Pids = Pids
    BY <2>1 DEF PidInv, Abstract!Pids, Pids
  <2>3. ASSUME NEW pid \in Pids, Link(pid), \A i \in 1..Len(proc_list) : proc_list[i] # pid
        PROVE  Abstract!Next
    <3>1. Range(proc_list') = Range(proc_list) \cup {pid}
      BY <2>2, <2>3, LinkFacts
    <3>2. pid \notin Range(proc_list)
      <4>1. DOMAIN proc_list = 1..Len(proc_list)
        BY <2>2 DEF PidTypeOK
      <4> QED BY <2>3, <4>1 DEF Range
    <3> QED BY <2>2, <3>1, <3>2 DEF Abstract!Next, Abstract!Alloc
  <2>4. CASE Fast
    BY <2>1, <2>3, <2>4, ReturnedPidIsFree DEF Fast
  <2>5. CASE ScanDone
    BY <2>1, <2>3, <2>5, ReturnedPidIsFree DEF ScanDone
  <2>6. CASE Reap
    <3>1. PICK i \in 1..Len(proc_list) : proc_list' = RemoveAt(proc_list, i)
      BY <2>6 DEF Reap
    <3>2. Range(proc_list') = Range(proc_list) \ {proc_list[i]}
      BY <2>2, <3>1, ReapFacts
    <3>3. proc_list[i] \in Range(proc_list)
      <4>1. DOMAIN proc_list = 1..Len(proc_list)
        BY <2>2 DEF PidTypeOK
      <4> QED BY <4>1 DEF Range
    <3> QED BY <3>2, <3>3 DEF Abstract!Next, Abstract!Free
  <2>7. CASE Inside \/ ScanTaken \/ ScanOther \/ UNCHANGED pidVars
    <3>1. proc_list' = proc_list
      BY <2>7 DEF Inside, ScanTaken, ScanOther, pidVars
    <3> QED BY <3>1
  <2> QED BY <2>1, <2>4, <2>5, <2>6, <2>7 DEF PidNext, Scan
<1> QED BY PidInductive, <1>1, <1>2, PTL DEF PidSpec, Implements, Abstract!Spec

-----------------------------------------------------------------------------
(* The counts of inodes.                                                    *)

\* The least element of a set of numbers, for arguments by infinite descent.
LEMMA NatLeast ==
    ASSUME NEW T, T \subseteq Nat, T # {} PROVE \E x \in T : \A y \in T : x <= y
<1>1. PICK x \in T : \A y \in T : ~(<<y, x>> \in OpToRel(<, Nat))
  BY WFMin, NatLessThanWellFounded
<1>2. \A y \in T : <<y, x>> \in OpToRel(<, Nat) <=> y < x
  BY DEF OpToRel
<1>3. \A y \in T : ~(y < x)
  BY <1>1, <1>2, Zenon
<1> QED BY <1>3

-----------------------------------------------------------------------------
(* A call that holds the references R and has the inodes open O times.      *)

\* The references that no process holds.
Base(n) == IF n = Root \/ n \in Devs THEN 1 ELSE 0

Up(R, n) == [R EXCEPT ![n] = R[n] + 1]
Down(R, n) == [R EXCEPT ![n] = R[n] - 1]

Balanced(R, O) ==
    /\ R \in [Nodes -> Nat] /\ O \in [Nodes -> Nat]
    /\ \A n \in Nodes : R[n] >= O[n] + Base(n)

InCore(R) == {n \in SfsNodes : R[n] > 0}

\* No assertion on the balance of counts has failed, and that on their limit only
\* when an inode was at its limit before the call.
StOk(st) == st # "count" /\ (st = "limit" => AtLimit)

Good(c, R, O) ==
    /\ c = [ref |-> R, open |-> O, incore |-> InCore(R), node |-> c.node, st |-> c.st]
    /\ Balanced(R, O)
    /\ StOk(c.st)

\* The call goes on, or an operation was missing or a count at its limit.
Same(c, d) == d.node = c.node /\ d.st \in {c.st, "vop", "limit"}

\* The call holds at most k references to an inode beside those before it.
Below(R, k) ==
    /\ ref \in [Nodes -> Nat] /\ R \in [Nodes -> Nat]
    /\ \A n \in Nodes : R[n] <= ref[n] + k

LEMMA GoodFields ==
    ASSUME NEW c, NEW R, NEW O, Good(c, R, O)
    PROVE  c.ref = R /\ c.open = O /\ c.incore = InCore(R)
<1>1. PICK x, y : x = c.node /\ y = c.st
  OBVIOUS
<1>2. c = [ref |-> R, open |-> O, incore |-> InCore(R), node |-> x, st |-> y]
  BY <1>1 DEF Good
<1> QED BY <1>2

LEMMA GoodRecord ==
    ASSUME NEW c, NEW R, NEW O, NEW x, NEW y, Balanced(R, O), StOk(y),
           c = [ref |-> R, open |-> O, incore |-> InCore(R), node |-> x, st |-> y]
    PROVE  Good(c, R, O) /\ c.node = x /\ c.st = y
<1>1. c.node = x /\ c.st = y
  OBVIOUS
<1> QED BY <1>1 DEF Good

\* A record with the counts R and O and the inodes of R in memory.
LEMMA GoodIs ==
    ASSUME NEW c, NEW R, NEW O, Good(c, R, O)
    PROVE  \E x, y : /\ c = [ref |-> R, open |-> O, incore |-> InCore(R), node |-> x, st |-> y]
                     /\ x = c.node /\ y = c.st /\ StOk(y)
BY DEF Good

LEMMA VopGood ==
    ASSUME NEW c, NEW R, NEW O, Good(c, R, O), Below(R, 1), NEW n \in Nodes, NEW op
    PROVE  Good(Vop(c, n, op), R, O) /\ Same(c, Vop(c, n, op))
<1>1. PICK x, y : /\ c = [ref |-> R, open |-> O, incore |-> InCore(R), node |-> x, st |-> y]
                  /\ x = c.node /\ y = c.st /\ StOk(y)
  BY GoodIs
<1>2. /\ c.ref[n] >= c.open[n] /\ Balanced(R, O) /\ c.ref[n] \in Nat /\ c.open[n] \in Nat
      /\ c.ref[n] <= ref[n] + 1 /\ ref[n] \in Nat
  <2>1. c.ref = R /\ c.open = O /\ Balanced(R, O)
    BY GoodFields DEF Good
  <2>2. R[n] \in Nat /\ O[n] \in Nat /\ Base(n) \in Nat /\ R[n] >= O[n] + Base(n)
    BY <2>1 DEF Balanced, Base
  <2>3. R[n] <= ref[n] + 1 /\ ref[n] \in Nat
    BY DEF Below
  <2> QED BY <2>1, <2>2, <2>3
<1>3. CASE Vop(c, n, op) = c
  BY <1>3 DEF Same
<1>4. CASE Vop(c, n, op) # c
  <2>1. PICK z \in {"vop", "limit"} : Vop(c, n, op) = [c EXCEPT !.st = z] /\ StOk(z)
    <3>1. CASE op \notin Vops(n)
      <4>1. Vop(c, n, op) = [c EXCEPT !.st = "vop"]
        BY <1>4, <3>1 DEF Vop, Fail
      <4>2. StOk("vop")
        BY DEF StOk
      <4> QED BY <4>1, <4>2
    <3>2. CASE op \in Vops(n)
      <4>1. ~(c.ref[n] < MAX_INODE_COUNT /\ c.open[n] < MAX_INODE_COUNT)
        BY <1>2, <1>4, <3>2 DEF Vop, inode_check, Assert_
      <4>2. Vop(c, n, op) = [c EXCEPT !.st = "limit"]
        BY <1>2, <1>4, <3>2, <4>1 DEF Vop, inode_check, Assert_, Fail
      <4>3. ref[n] + 1 >= MAX_INODE_COUNT
        BY <1>2, <4>1, FilesAssumption
      <4>4. StOk("limit")
        BY <4>3 DEF StOk, AtLimit
      <4> QED BY <4>2, <4>4
    <3> QED BY <3>1, <3>2
  <2>2. [c EXCEPT !.st = z] = [ref |-> R, open |-> O, incore |-> InCore(R), node |-> x, st |-> z]
    BY <1>1
  <2>3. PICK d : d = Vop(c, n, op)
    OBVIOUS
  <2>4. Good(d, R, O) /\ d.node = x /\ d.st = z
    BY <1>2, <2>1, <2>2, <2>3, GoodRecord
  <2> QED BY <1>1, <2>1, <2>3, <2>4 DEF Same
<1> QED BY <1>3, <1>4

LEMMA RefInc ==
    ASSUME NEW c, NEW R, NEW O, Good(c, R, O), NEW n \in Nodes, n \in SfsNodes => R[n] > 0
    PROVE  /\ Good(inode_ref_inc(c, n), Up(R, n), O)
           /\ inode_ref_inc(c, n).node = c.node /\ inode_ref_inc(c, n).st = c.st
<1>1. PICK x, y : /\ c = [ref |-> R, open |-> O, incore |-> InCore(R), node |-> x, st |-> y]
                  /\ x = c.node /\ y = c.st /\ StOk(y)
  BY GoodIs
<1>2. PICK Q : Q = Up(R, n)
  OBVIOUS
<1>3. R \in [Nodes -> Nat] /\ O \in [Nodes -> Nat] /\ \A m \in Nodes : R[m] >= O[m] + Base(m)
  BY DEF Good, Balanced
<1>4. Q \in [Nodes -> Nat] /\ \A m \in Nodes : Q[m] = IF m = n THEN R[m] + 1 ELSE R[m]
  BY <1>2, <1>3 DEF Up
<1>5. Balanced(Q, O)
  <2>1. \A m \in Nodes : Base(m) \in Nat
    BY DEF Base
  <2> QED BY <1>3, <1>4, <2>1 DEF Balanced
<1>6. InCore(Q) = InCore(R)
  BY <1>3, <1>4 DEF InCore, Nodes
<1>7. inode_ref_inc(c, n) = [ref |-> Q, open |-> O, incore |-> InCore(R), node |-> x, st |-> y]
  BY <1>1, <1>2 DEF inode_ref_inc, Up
<1>8. PICK d : d = inode_ref_inc(c, n)
  OBVIOUS
<1>9. Good(d, Q, O) /\ d.node = x /\ d.st = y
  BY <1>1, <1>5, <1>6, <1>7, <1>8, GoodRecord
<1> QED BY <1>1, <1>2, <1>8, <1>9

LEMMA OpenInc ==
    ASSUME NEW c, NEW R, NEW O, Good(c, R, O), NEW n \in Nodes, R[n] > O[n] + Base(n)
    PROVE  /\ Good(inode_open_inc(c, n), R, Up(O, n))
           /\ inode_open_inc(c, n).node = c.node /\ inode_open_inc(c, n).st = c.st
<1>1. PICK x, y : /\ c = [ref |-> R, open |-> O, incore |-> InCore(R), node |-> x, st |-> y]
                  /\ x = c.node /\ y = c.st /\ StOk(y)
  BY GoodIs
<1>2. PICK Q : Q = Up(O, n)
  OBVIOUS
<1>3. R \in [Nodes -> Nat] /\ O \in [Nodes -> Nat] /\ \A m \in Nodes : R[m] >= O[m] + Base(m)
  BY DEF Good, Balanced
<1>4. Q \in [Nodes -> Nat] /\ \A m \in Nodes : Q[m] = IF m = n THEN O[m] + 1 ELSE O[m]
  BY <1>2, <1>3 DEF Up
<1>5. Balanced(R, Q)
  <2>1. \A m \in Nodes : Base(m) \in Nat
    BY DEF Base
  <2> QED BY <1>3, <1>4, <2>1 DEF Balanced
<1>6. inode_open_inc(c, n) = [ref |-> R, open |-> Q, incore |-> InCore(R), node |-> x, st |-> y]
  BY <1>1, <1>2 DEF inode_open_inc, Up
<1>7. PICK d : d = inode_open_inc(c, n)
  OBVIOUS
<1>8. Good(d, R, Q) /\ d.node = x /\ d.st = y
  BY <1>1, <1>5, <1>6, <1>7, GoodRecord
<1> QED BY <1>1, <1>2, <1>7, <1>8

\* The last reference takes the inode out of memory, which has no open file then.
LEMMA RefDec ==
    ASSUME NEW c, NEW R, NEW O, Good(c, R, O), NEW n \in Nodes, R[n] > O[n] + Base(n)
    PROVE  Good(inode_ref_dec(c, n), Down(R, n), O) /\ Same(c, inode_ref_dec(c, n))
<1>1. PICK x, y : /\ c = [ref |-> R, open |-> O, incore |-> InCore(R), node |-> x, st |-> y]
                  /\ x = c.node /\ y = c.st /\ StOk(y)
  BY GoodIs
<1>2. PICK Q : Q = Down(R, n)
  OBVIOUS
<1>3. R \in [Nodes -> Nat] /\ O \in [Nodes -> Nat] /\ \A m \in Nodes : R[m] >= O[m] + Base(m)
  BY DEF Good, Balanced
<1>4. \A m \in Nodes : Base(m) \in Nat
  BY DEF Base
<1>5. R[n] \in Nat /\ R[n] > 0 /\ O[n] \in Nat
  BY <1>3, <1>4
<1>6. Q \in [Nodes -> Nat] /\ \A m \in Nodes : Q[m] = IF m = n THEN R[m] - 1 ELSE R[m]
  BY <1>2, <1>3, <1>5 DEF Down
<1>7. Balanced(Q, O)
  BY <1>3, <1>4, <1>6 DEF Balanced
<1>8. PICK d : d = [ref |-> Q, open |-> O, incore |-> InCore(R), node |-> x, st |-> y]
  OBVIOUS
<1>9. inode_ref_dec(c, n) = Reclaim(d, n)
  <2>1. [c EXCEPT !.ref[n] = @ - 1] = d
    BY <1>1, <1>2, <1>8 DEF Down
  <2>2. c.ref[n] > 0
    BY <1>1, <1>5
  <2> QED BY <2>1, <2>2 DEF inode_ref_dec, Assert_
<1>10. d.ref = Q /\ d.open = O /\ d.incore = InCore(R) /\ d.st = y
  BY <1>8
<1>11. CASE Q[n] > 0
  <2>1. Reclaim(d, n) = d
    BY <1>10, <1>11 DEF Reclaim
  <2>2. InCore(Q) = InCore(R)
    BY <1>3, <1>5, <1>6, <1>11 DEF InCore, Nodes
  <2>3. Good(d, Q, O) /\ d.node = x /\ d.st = y
    BY <1>1, <1>7, <1>8, <2>2, GoodRecord
  <2> QED BY <1>1, <1>2, <1>9, <2>1, <2>3 DEF Same
<1>12. CASE ~(Q[n] > 0)
  <2>1. Q[n] = 0 /\ O[n] = 0
    BY <1>3, <1>4, <1>6, <1>7, <1>12 DEF Balanced
  <2>2. PICK z \in {y, "vop"} :
          /\ Vop(d, n, "reclaim") = [ref |-> Q, open |-> O, incore |-> InCore(R), node |-> x, st |-> z]
          /\ StOk(z)
    <3>1. CASE Vop(d, n, "reclaim") = d
      BY <1>1, <1>8, <3>1
    <3>2. CASE Vop(d, n, "reclaim") # d
      <4>1. Vop(d, n, "reclaim") = [d EXCEPT !.st = "vop"]
        BY <1>10, <2>1, <3>2, FilesAssumption DEF Vop, inode_check, Assert_, Fail
      <4>2. [d EXCEPT !.st = "vop"] = [ref |-> Q, open |-> O, incore |-> InCore(R), node |-> x, st |-> "vop"]
        BY <1>8
      <4>3. StOk("vop")
        BY DEF StOk
      <4> QED BY <4>1, <4>2, <4>3
    <3> QED BY <3>1, <3>2
  <2>3. PICK e : e = [ref |-> Q, open |-> O, incore |-> InCore(Q), node |-> x, st |-> z]
    OBVIOUS
  <2>4. InCore(Q) = InCore(R) \ {n}
    <3>1. \A m \in SfsNodes : Q[m] > 0 <=> (R[m] > 0 /\ m # n)
      BY <1>3, <1>6, <2>1 DEF Nodes
    <3> QED BY <3>1 DEF InCore
  <2>5. [Vop(d, n, "reclaim") EXCEPT !.incore = @ \ {n}] = e
    BY <2>2, <2>3, <2>4
  <2>6. Reclaim(d, n) = e
    <3>1. Reclaim(d, n) = Assert_(e, d.open[n] = 0, "count")
      BY <1>10, <1>12, <2>5 DEF Reclaim
    <3> QED BY <1>10, <2>1, <3>1 DEF Assert_
  <2>7. Good(e, Q, O) /\ e.node = x /\ e.st = z
    BY <1>1, <1>7, <2>2, <2>3, GoodRecord
  <2> QED BY <1>1, <1>2, <1>9, <2>6, <2>7 DEF Same
<1> QED BY <1>11, <1>12

LEMMA OpenDec ==
    ASSUME NEW c, NEW R, NEW O, Good(c, R, O), Below(R, 1), NEW n \in Nodes, O[n] > 0
    PROVE  Good(inode_open_dec(c, n), R, Down(O, n)) /\ Same(c, inode_open_dec(c, n))
<1>1. PICK x, y : /\ c = [ref |-> R, open |-> O, incore |-> InCore(R), node |-> x, st |-> y]
                  /\ x = c.node /\ y = c.st /\ StOk(y)
  BY GoodIs
<1>2. PICK Q : Q = Down(O, n)
  OBVIOUS
<1>3. R \in [Nodes -> Nat] /\ O \in [Nodes -> Nat] /\ \A m \in Nodes : R[m] >= O[m] + Base(m)
  BY DEF Good, Balanced
<1>4. \A m \in Nodes : Base(m) \in Nat
  BY DEF Base
<1>5. Q \in [Nodes -> Nat] /\ \A m \in Nodes : Q[m] = IF m = n THEN O[m] - 1 ELSE O[m]
  BY <1>2, <1>3 DEF Down
<1>6. Balanced(R, Q)
  BY <1>3, <1>4, <1>5 DEF Balanced
<1>7. PICK d : d = [ref |-> R, open |-> Q, incore |-> InCore(R), node |-> x, st |-> y]
  OBVIOUS
<1>8. inode_open_dec(c, n) = LastClose(d, n)
  <2>1. [c EXCEPT !.open[n] = @ - 1] = d
    BY <1>1, <1>2, <1>7 DEF Down
  <2>2. c.open[n] > 0
    BY <1>1
  <2> QED BY <2>1, <2>2 DEF inode_open_dec, Assert_
<1>9. Good(d, R, Q) /\ d.node = x /\ d.st = y
  BY <1>1, <1>6, <1>7, GoodRecord
<1>10. Good(LastClose(d, n), R, Q) /\ Same(d, LastClose(d, n))
  <2>1. LastClose(d, n) = d \/ LastClose(d, n) = Vop(d, n, "close")
    BY DEF LastClose
  <2>2. Good(Vop(d, n, "close"), R, Q) /\ Same(d, Vop(d, n, "close"))
    BY <1>9, VopGood
  <2>3. Same(d, d)
    BY DEF Same
  <2> QED BY <1>9, <2>1, <2>2, <2>3
<1> QED BY <1>1, <1>2, <1>8, <1>9, <1>10 DEF Same

\* An inode not in memory has no references and no open files.
LEMMA LoadGood ==
    ASSUME NEW c, NEW R, NEW O, Good(c, R, O), NEW n \in SfsNodes
    PROVE  /\ Good(sfs_load_inode(c, n), Up(R, n), O)
           /\ sfs_load_inode(c, n).node = c.node /\ sfs_load_inode(c, n).st = c.st
<1>1. PICK x, y : /\ c = [ref |-> R, open |-> O, incore |-> InCore(R), node |-> x, st |-> y]
                  /\ x = c.node /\ y = c.st /\ StOk(y)
  BY GoodIs
<1>2. R \in [Nodes -> Nat] /\ O \in [Nodes -> Nat] /\ \A m \in Nodes : R[m] >= O[m] + Base(m)
  BY DEF Good, Balanced
<1>3. n \in Nodes
  BY DEF Nodes
<1>4. c.incore = InCore(R)
  BY GoodFields
<1>5. CASE n \in InCore(R)
  <2>1. R[n] > 0
    BY <1>5 DEF InCore
  <2>2. sfs_load_inode(c, n) = inode_ref_inc(c, n)
    BY <1>4, <1>5 DEF sfs_load_inode
  <2> QED BY <1>3, <2>1, <2>2, RefInc
<1>6. CASE n \notin InCore(R)
  <2>1. R[n] = 0 /\ O[n] = 0
    <3>1. Base(n) \in Nat
      BY DEF Base
    <3>2. ~(R[n] > 0)
      BY <1>6 DEF InCore
    <3> QED BY <1>2, <1>3, <3>1, <3>2
  <2>2. PICK Q : Q = Up(R, n)
    OBVIOUS
  <2>3. Q \in [Nodes -> Nat] /\ \A m \in Nodes : Q[m] = IF m = n THEN R[m] + 1 ELSE R[m]
    BY <1>2, <1>3, <2>2 DEF Up
  <2>4. Q = [R EXCEPT ![n] = 1] /\ O = [O EXCEPT ![n] = 0]
    BY <1>2, <1>3, <2>1, <2>2 DEF Up
  <2>5. InCore(Q) = InCore(R) \cup {n}
    <3>1. \A m \in SfsNodes : Q[m] > 0 <=> (R[m] > 0 \/ m = n)
      BY <1>2, <2>1, <2>3 DEF Nodes
    <3> QED BY <3>1 DEF InCore
  <2>6. Balanced(Q, O)
    <3>1. \A m \in Nodes : Base(m) \in Nat
      BY DEF Base
    <3> QED BY <1>2, <2>3, <3>1 DEF Balanced
  <2>7. PICK d : d = sfs_load_inode(c, n)
    OBVIOUS
  <2>8. d = [c EXCEPT !.incore = @ \cup {n}, !.ref[n] = 1, !.open[n] = 0]
    BY <1>4, <1>6, <2>7 DEF sfs_load_inode
  <2>9. d = [ref |-> [R EXCEPT ![n] = 1], open |-> [O EXCEPT ![n] = 0], incore |-> InCore(R) \cup {n},
             node |-> x, st |-> y]
    BY <1>1, <2>8
  <2>10. d = [ref |-> Q, open |-> O, incore |-> InCore(Q), node |-> x, st |-> y]
    BY <2>4, <2>5, <2>9
  <2>11. Good(d, Q, O) /\ d.node = x /\ d.st = y
    BY <1>1, <2>6, <2>10, GoodRecord
  <2> QED BY <1>1, <2>2, <2>7, <2>11
<1> QED BY <1>5, <1>6

LEMMA SetNode ==
    ASSUME NEW c, NEW R, NEW O, Good(c, R, O), NEW v
    PROVE  /\ Good([c EXCEPT !.node = v], R, O)
           /\ [c EXCEPT !.node = v].node = v /\ [c EXCEPT !.node = v].st = c.st
<1>1. PICK x, y : /\ c = [ref |-> R, open |-> O, incore |-> InCore(R), node |-> x, st |-> y]
                  /\ x = c.node /\ y = c.st /\ StOk(y)
  BY GoodIs
<1>2. PICK d : d = [c EXCEPT !.node = v]
  OBVIOUS
<1>3. d = [ref |-> R, open |-> O, incore |-> InCore(R), node |-> v, st |-> y]
  BY <1>1, <1>2
<1>4. Good(d, R, O) /\ d.node = v /\ d.st = y
  BY <1>1, <1>3, GoodRecord DEF Good
<1> QED BY <1>1, <1>2, <1>4

LEMMA SetSt ==
    ASSUME NEW c, NEW R, NEW O, Good(c, R, O), NEW v, v \notin {"count", "limit"}
    PROVE  /\ Good([c EXCEPT !.st = v], R, O)
           /\ [c EXCEPT !.st = v].node = c.node /\ [c EXCEPT !.st = v].st = v
<1>1. PICK x, y : /\ c = [ref |-> R, open |-> O, incore |-> InCore(R), node |-> x, st |-> y]
                  /\ x = c.node /\ y = c.st /\ StOk(y)
  BY GoodIs
<1>2. PICK d : d = [c EXCEPT !.st = v]
  OBVIOUS
<1>3. d = [ref |-> R, open |-> O, incore |-> InCore(R), node |-> x, st |-> v]
  BY <1>1, <1>2
<1>4. Good(d, R, O) /\ d.node = x /\ d.st = v
  BY <1>1, <1>3, GoodRecord DEF Good, StOk
<1> QED BY <1>1, <1>2, <1>4

LEMMA CloseGood ==
    ASSUME NEW c, NEW R, NEW O, Good(c, R, O), Below(R, 1), NEW n \in Nodes, O[n] > 0
    PROVE  Good(vfs_close(c, n), Down(R, n), Down(O, n)) /\ Same(c, vfs_close(c, n))
<1>1. PICK d, Q : d = inode_open_dec(c, n) /\ Q = Down(O, n)
  OBVIOUS
<1>2. Good(d, R, Q) /\ Same(c, d)
  BY <1>1, OpenDec
<1>3. R[n] > Q[n] + Base(n)
  <2>1. R[n] \in Nat /\ O[n] \in Nat /\ Base(n) \in Nat /\ R[n] >= O[n] + Base(n) /\ Q[n] = O[n] - 1
    BY <1>1 DEF Good, Balanced, Base, Down
  <2> QED BY <2>1
<1>4. PICK e : e = inode_ref_dec(d, n)
  OBVIOUS
<1>5. Good(e, Down(R, n), Q) /\ Same(d, e)
  BY <1>2, <1>3, <1>4, RefDec
<1>6. vfs_close(c, n) = e
  BY <1>1, <1>4 DEF vfs_close
<1> QED BY <1>1, <1>2, <1>5, <1>6 DEF Same

LEMMA UpFacts ==
    ASSUME NEW R \in [Nodes -> Nat], NEW n \in Nodes
    PROVE  /\ Up(R, n) \in [Nodes -> Nat]
           /\ \A m \in Nodes : Up(R, n)[m] = IF m = n THEN R[m] + 1 ELSE R[m]
           /\ Down(Up(R, n), n) = R
<1>1. PICK Q : Q = Up(R, n)
  OBVIOUS
<1>2. Q \in [Nodes -> Nat] /\ \A m \in Nodes : Q[m] = IF m = n THEN R[m] + 1 ELSE R[m]
  BY <1>1 DEF Up
<1>3. Down(Q, n) = R
  BY <1>2 DEF Down
<1> QED BY <1>1, <1>2, <1>3

LEMMA BelowUp ==
    ASSUME NEW R, Below(R, 0), NEW n \in Nodes
    PROVE  Below(R, 1) /\ Below(Up(R, n), 1)
<1>1. ref \in [Nodes -> Nat] /\ R \in [Nodes -> Nat] /\ \A m \in Nodes : R[m] <= ref[m] + 0
  BY DEF Below
<1>2. PICK Q : Q = Up(R, n)
  OBVIOUS
<1>3. Q \in [Nodes -> Nat] /\ \A m \in Nodes : Q[m] = IF m = n THEN R[m] + 1 ELSE R[m]
  BY <1>1, <1>2, UpFacts
<1>4. Below(Q, 1) /\ Below(R, 1)
  BY <1>1, <1>3 DEF Below
<1> QED BY <1>2, <1>4

\* Fewer references than before.
LEMMA BelowLess ==
    ASSUME NEW R, NEW k \in Nat, Below(R, k), NEW Q \in [Nodes -> Nat], \A n \in Nodes : Q[n] <= R[n]
    PROVE  Below(Q, k)
<1>1. ref \in [Nodes -> Nat] /\ R \in [Nodes -> Nat] /\ \A m \in Nodes : R[m] <= ref[m] + k
  BY DEF Below
<1>2. ASSUME NEW m \in Nodes PROVE Q[m] <= ref[m] + k
  <2>1. Q[m] \in Nat /\ R[m] \in Nat /\ ref[m] \in Nat /\ Q[m] <= R[m] /\ R[m] <= ref[m] + k
    BY <1>1
  <2> QED BY <2>1
<1> QED BY <1>1, <1>2 DEF Below

LEMMA UpUpDown ==
    ASSUME NEW R \in [Nodes -> Nat], NEW s \in Nodes, NEW n \in Nodes
    PROVE  Down(Up(Up(R, s), n), s) = Up(R, n) /\ Down(Up(Up(R, s), n), n) = Up(R, s)
<1>1. PICK Q \in [Nodes -> Nat] : Q = Up(R, s)
  BY UpFacts
<1>2. PICK P \in [Nodes -> Nat] : P = Up(Q, n)
  BY UpFacts
<1>3. \A m \in Nodes : Q[m] = IF m = s THEN R[m] + 1 ELSE R[m]
  BY <1>1, UpFacts
<1>4. \A m \in Nodes : P[m] = IF m = n THEN Q[m] + 1 ELSE Q[m]
  BY <1>2, UpFacts
<1>5. PICK A \in [Nodes -> Nat] : A = Up(R, n)
  BY UpFacts
<1>6. \A m \in Nodes : A[m] = IF m = n THEN R[m] + 1 ELSE R[m]
  BY <1>5, UpFacts
<1>7. Down(P, s) = A
  <2>1. \A m \in Nodes : [P EXCEPT ![s] = P[s] - 1][m] = A[m]
    BY <1>3, <1>4, <1>6
  <2>2. [P EXCEPT ![s] = P[s] - 1] = [m \in Nodes |-> [P EXCEPT ![s] = P[s] - 1][m]]
    OBVIOUS
  <2>3. A = [m \in Nodes |-> A[m]]
    OBVIOUS
  <2> QED BY <2>1, <2>2, <2>3 DEF Down
<1>8. Down(P, n) = Q
  BY <1>2, UpFacts
<1> QED BY <1>1, <1>2, <1>5, <1>7, <1>8

\* A reference that the call or a process holds, beside those of open files.
Spare(R, O, n) == n \in Nodes /\ R[n] > O[n] + Base(n)

LEMMA BalancedSpare ==
    ASSUME NEW R, NEW O, Balanced(R, O), NEW n \in Nodes
    PROVE  /\ Spare(Up(R, n), O, n)
           /\ \A m \in Nodes : Spare(R, O, m) => Spare(Up(R, n), O, m)
           /\ \A m \in Nodes : R[m] \in Nat /\ (Spare(R, O, m) => R[m] > 0)
           /\ \A m \in Nodes : Base(m) = 1 \/ O[m] > 0 => R[m] > 0
<1>1. R \in [Nodes -> Nat] /\ O \in [Nodes -> Nat] /\ \A m \in Nodes : R[m] >= O[m] + Base(m)
  BY DEF Balanced
<1>2. \A m \in Nodes : Base(m) \in Nat
  BY DEF Base
<1>3. \A m \in Nodes : Up(R, n)[m] = IF m = n THEN R[m] + 1 ELSE R[m]
  BY <1>1, UpFacts
<1> QED BY <1>1, <1>2, <1>3 DEF Spare

LEMMA UpSpare ==
    ASSUME NEW c, NEW R, NEW O, Good(c, R, O), NEW n \in Nodes
    PROVE  /\ Spare(Up(R, n), O, n)
           /\ \A m \in Nodes : Spare(R, O, m) => Spare(Up(R, n), O, m)
           /\ \A m \in Nodes : R[m] \in Nat /\ (Spare(R, O, m) => R[m] > 0)
           /\ \A m \in Nodes : Base(m) = 1 \/ O[m] > 0 => R[m] > 0
<1>1. Balanced(R, O)
  BY DEF Good
<1> QED BY <1>1, BalancedSpare

\* get_device: one reference more to the inode the path starts from.
LEMMA GetDeviceGood ==
    ASSUME NEW c, NEW R, NEW O, Good(c, R, O), NEW p, pwd[p] \in Dirs, Spare(R, O, pwd[p]),
           NEW from \in {"cwd", "boot", "fs"} \cup Devs
    PROVE  /\ Start(p, from) \in Nodes
           /\ Good(get_device(c, p, from), Up(R, Start(p, from)), O)
           /\ Same(c, get_device(c, p, from))
<1>1. PICK d : d = pwd[p]
  OBVIOUS
<1>2. d \in Nodes /\ d \in SfsNodes /\ R[d] > 0 /\ R \in [Nodes -> Nat] /\ Spare(R, O, d)
  <2>1. d \in Nodes /\ d \in SfsNodes
    BY <1>1 DEF Nodes, SfsNodes
  <2> QED BY <1>1, <2>1, UpSpare DEF Good, Balanced
<1>3. Root \in SfsNodes /\ Root \in Nodes /\ R[Root] > 0 /\ \A e \in Devs : e \in Nodes /\ e \notin SfsNodes
  <2>1. Root \in SfsNodes /\ Root \in Nodes /\ \A e \in Devs : e \in Nodes /\ e \notin SfsNodes
    BY FilesAssumption DEF SfsNodes, Nodes
  <2>2. Base(Root) = 1
    BY DEF Base
  <2> QED BY <2>1, <2>2, UpSpare
<1>4. CASE from # "fs"
  <2>1. PICK s : s = Start(p, from)
    OBVIOUS
  <2>2. s \in Nodes /\ (s \in SfsNodes => R[s] > 0)
    BY <1>1, <1>2, <1>3, <1>4, <2>1 DEF Start
  <2>3. get_device(c, p, from) = inode_ref_inc(c, s)
    BY <1>4, <2>1 DEF get_device
  <2>4. /\ Good(inode_ref_inc(c, s), Up(R, s), O)
        /\ inode_ref_inc(c, s).node = c.node /\ inode_ref_inc(c, s).st = c.st
    BY <2>2, RefInc
  <2> QED BY <2>1, <2>2, <2>3, <2>4 DEF Same
<1>5. CASE from = "fs"
  <2>1. Start(p, from) = Root
    BY <1>5 DEF Start
  <2>2. PICK a, A : a = inode_ref_inc(c, d) /\ A = Up(R, d)
    OBVIOUS
  <2>3. Good(a, A, O) /\ a.node = c.node /\ a.st = c.st
    BY <1>2, <2>2, RefInc
  <2>4. PICK b, B : b = sfs_load_inode(a, Root) /\ B = Up(A, Root)
    OBVIOUS
  <2>5. Good(b, B, O) /\ b.node = a.node /\ b.st = a.st
    BY <1>3, <2>3, <2>4, LoadGood
  <2>6. Spare(B, O, d)
    <3>1. Spare(A, O, d)
      BY <1>2, <2>2, UpSpare
    <3> QED BY <1>2, <1>3, <2>3, <2>4, <3>1, UpSpare
  <2>7. PICK e : e = inode_ref_dec(b, d)
    OBVIOUS
  <2>8. Good(e, Down(B, d), O) /\ Same(b, e)
    BY <1>2, <2>5, <2>6, <2>7, RefDec DEF Spare
  <2>9. Down(B, d) = Up(R, Root)
    BY <1>2, <1>3, <2>2, <2>4, UpUpDown
  <2>10. get_device(c, p, from) = e
    BY <1>1, <1>5, <2>2, <2>4, <2>7 DEF get_device
  <2> QED BY <1>3, <2>1, <2>3, <2>5, <2>8, <2>9, <2>10 DEF Same
<1> QED BY <1>4, <1>5

\* What a look-up leaves: a reference to the inode found.
Found(r, R, O) ==
    /\ r.st \in {"ok", "vop", "limit", "E_NOENT"}
    /\ r.st = "ok" => r.node \in Nodes /\ Good(r, Up(R, r.node), O)
    /\ r.st = "E_NOENT" => Good(r, R, O)
    /\ \E Q : Good(r, Q, O)

LEMMA LookupGood ==
    ASSUME NEW c, NEW R, NEW O, Good(c, R, O), c.st \in {"ok", "vop", "limit"}, Below(R, 0),
           NEW p, pwd[p] \in Dirs, Spare(R, O, pwd[p]), NEW path \in Paths
    PROVE  Found(vfs_lookup(c, p, path), R, O)
<1>1. PICK from, name, s, g : /\ from = path.from /\ name = path.name /\ s = Start(p, from)
                              /\ g = get_device(c, p, from)
  OBVIOUS
<1>2. PICK A : A = Up(R, s)
  OBVIOUS
<1>3. s \in Nodes /\ Good(g, A, O) /\ g.st \in {"ok", "vop", "limit"}
  <2>1. from \in {"cwd", "boot", "fs"} \cup Devs
    BY <1>1, FilesAssumption
  <2>2. s \in Nodes /\ Good(g, A, O) /\ Same(c, g)
    BY <1>1, <1>2, <2>1, GetDeviceGood
  <2> QED BY <2>2 DEF Same
<1>4. R \in [Nodes -> Nat] /\ Spare(A, O, s) /\ Down(A, s) = R
  BY <1>2, <1>3, UpFacts, UpSpare DEF Good, Balanced
<1>5. CASE name = ""
  <2>1. PICK r : r = [g EXCEPT !.node = s]
    OBVIOUS
  <2>2. Good(r, A, O) /\ r.node = s /\ r.st = g.st
    BY <1>3, <2>1, SetNode
  <2>3. vfs_lookup(c, p, path) = r
    BY <1>1, <1>5, <2>1 DEF vfs_lookup
  <2> QED BY <1>2, <1>3, <2>2, <2>3 DEF Found
<1>6. CASE name # ""
  <2>1. PICK v, l, r : /\ v = Vop(g, s, "lookup") /\ l = Lookup(v, s, name)
                       /\ r = inode_ref_dec(l, s)
    OBVIOUS
  <2>2. vfs_lookup(c, p, path) = r
    BY <1>1, <1>6, <2>1 DEF vfs_lookup
  <2>3. Good(v, A, O) /\ v.st \in {"ok", "vop", "limit"}
    <3>1. Below(A, 1)
      BY <1>2, <1>3, BelowUp
    <3>2. Good(v, A, O) /\ Same(g, v)
      BY <1>3, <2>1, <3>1, VopGood
    <3> QED BY <1>3, <3>2 DEF Same
  <2>4. PICK n : n = IF s \in Dirs THEN Entry(s, name) ELSE None
    OBVIOUS
  <2>5. l = IF v.st # "ok" THEN v
            ELSE IF n = None THEN [v EXCEPT !.st = "E_NOENT"]
            ELSE [sfs_load_inode(v, n) EXCEPT !.node = n]
    BY <2>1, <2>4 DEF Lookup, Ok
  <2>6. CASE v.st # "ok"
    <3>1. l = v
      BY <2>5, <2>6
    <3>2. Good(r, R, O) /\ Same(v, r)
      BY <1>3, <1>4, <2>1, <2>3, <3>1, RefDec DEF Spare
    <3> QED BY <2>2, <2>3, <2>6, <3>2 DEF Same, Found
  <2>7. CASE v.st = "ok" /\ n = None
    <3>1. l = [v EXCEPT !.st = "E_NOENT"]
      BY <2>5, <2>7
    <3>2. Good(l, A, O) /\ l.st = "E_NOENT"
      BY <2>3, <3>1, SetSt
    <3>3. Good(r, R, O) /\ Same(l, r)
      BY <1>3, <1>4, <2>1, <3>2, RefDec DEF Spare
    <3> QED BY <2>2, <3>2, <3>3 DEF Same, Found
  <2>8. CASE v.st = "ok" /\ n # None
    <3>1. n \in SfsNodes /\ n \in Nodes
      <4>1. s \in Dirs /\ n = Entry(s, name)
        BY <2>4, <2>8
      <4>2. Parent \in [SfsNodes -> Dirs]
        BY FilesAssumption
      <4>3. n \in SfsNodes
        BY <2>8, <4>1, <4>2 DEF Entry, SfsNodes
      <4> QED BY <4>3 DEF Nodes
    <3>2. PICK w, B : w = sfs_load_inode(v, n) /\ B = Up(A, n)
      OBVIOUS
    <3>3. Good(w, B, O) /\ w.st = v.st
      BY <2>3, <3>1, <3>2, LoadGood
    <3>4. l = [w EXCEPT !.node = n]
      BY <2>5, <2>8, <3>2
    <3>5. Good(l, B, O) /\ l.node = n /\ l.st = "ok"
      BY <2>8, <3>3, <3>4, SetNode
    <3>6. Spare(B, O, s)
      BY <1>3, <1>4, <2>3, <3>1, <3>2, UpSpare
    <3>7. Good(r, Down(B, s), O) /\ Same(l, r)
      BY <1>3, <2>1, <3>5, <3>6, RefDec DEF Spare
    <3>8. Down(B, s) = Up(R, n)
      BY <1>2, <1>3, <1>4, <3>1, <3>2, UpUpDown
    <3>9. r.node = n /\ r.st \in {"ok", "vop", "limit"}
      BY <3>5, <3>7 DEF Same
    <3> QED BY <2>2, <3>1, <3>7, <3>8, <3>9 DEF Found
  <2> QED BY <2>6, <2>7, <2>8
<1> QED BY <1>5, <1>6

\* What vfs_open leaves: a reference and an open file, or the reference that
\* O_CREAT|O_EXCL loses, or nothing.
Opening(r, R, O) ==
    /\ r.st = "ok" => r.node \in Nodes /\ Good(r, Up(R, r.node), Up(O, r.node))
    /\ r.st = "E_EXISTS" => r.node \in Nodes /\ Good(r, Up(R, r.node), O)
    /\ r.st \notin {"ok", "E_EXISTS", "vop", "limit"} => Good(r, R, O)
    /\ \E Q, P : Good(r, Q, P)

LEMMA OpenGood ==
    ASSUME NEW c, NEW R, NEW O, Good(c, R, O), c.st \in {"ok", "vop", "limit"}, Below(R, 0),
           NEW p, pwd[p] \in Dirs, Spare(R, O, pwd[p]), NEW path \in Paths, NEW flags
    PROVE  Opening(vfs_open(c, p, path, flags), R, O)
<1>1. PICK r : r = vfs_open(c, p, path, flags)
  OBVIOUS
<1>2. CASE flags.trunc /\ ~CanWrite(flags)
  <2>1. r = [c EXCEPT !.st = "E_INVAL"]
    BY <1>1, <1>2 DEF vfs_open
  <2>2. Good(r, R, O) /\ r.st = "E_INVAL"
    BY <2>1, SetSt
  <2> QED BY <1>1, <2>2 DEF Opening
<1>3. CASE ~(flags.trunc /\ ~CanWrite(flags))
  <2>1. PICK l : l = vfs_lookup(c, p, path)
    OBVIOUS
  <2>2. r = OpenNode(l, flags)
    BY <1>1, <1>3, <2>1 DEF vfs_open
  <2>3. Found(l, R, O)
    BY <2>1, LookupGood
  <2>4. R \in [Nodes -> Nat]
    BY DEF Good, Balanced
  <2>5. CASE l.st = "E_NOENT" /\ flags.creat
    <3>1. r = [l EXCEPT !.st = "vop"]
      BY <2>2, <2>5 DEF OpenNode
    <3>2. Good(r, R, O) /\ r.st = "vop"
      BY <2>3, <2>5, <3>1, SetSt DEF Found
    <3> QED BY <1>1, <3>2 DEF Opening
  <2>6. CASE ~(l.st = "E_NOENT" /\ flags.creat) /\ l.st # "ok"
    <3>1. r = l
      BY <2>2, <2>6 DEF OpenNode, Ok
    <3> QED BY <1>1, <2>3, <2>6, <3>1 DEF Opening, Found
  <2>7. CASE l.st = "ok"
    <3>1. PICK n, A : n = l.node /\ A = Up(R, n)
      OBVIOUS
    <3>2. n \in Nodes /\ Good(l, A, O) /\ Spare(A, O, n) /\ Down(A, n) = R /\ Below(A, 1)
      BY <2>3, <2>4, <2>7, <3>1, UpFacts, UpSpare, BelowUp DEF Found
    <3>3. PICK v, w : v = Vop(l, n, "open") /\ w = inode_open_inc(v, n)
      OBVIOUS
    <3>4. Good(v, A, O) /\ v.node = n /\ v.st \in {"ok", "vop", "limit"}
      <4>1. Good(v, A, O) /\ Same(l, v)
        BY <3>2, <3>3, VopGood
      <4> QED BY <2>7, <3>1, <4>1 DEF Same
    <3>5. Good(w, A, Up(O, n)) /\ w.node = n /\ w.st \in {"ok", "vop", "limit"}
      <4>1. Good(w, A, Up(O, n)) /\ w.node = v.node /\ w.st = v.st
        BY <3>2, <3>3, <3>4, OpenInc DEF Spare
      <4> QED BY <3>4, <4>1
    <3>6. r = IF flags.excl /\ flags.creat THEN [l EXCEPT !.st = "E_EXISTS"]
              ELSE IF ~MayOpen(n, flags) THEN Fail(inode_ref_dec(v, n), "E_INVAL")
              ELSE IF flags.trunc \/ flags.creat THEN Vop(w, n, "truncate")
              ELSE w
      BY <2>2, <2>7, <3>1, <3>3 DEF OpenNode, Ok
    <3>7. CASE r = [l EXCEPT !.st = "E_EXISTS"]
      <4>1. Good(r, A, O) /\ r.node = n /\ r.st = "E_EXISTS"
        BY <3>1, <3>2, <3>7, SetSt
      <4> QED BY <1>1, <3>1, <3>2, <4>1 DEF Opening
    <3>8. CASE r = Fail(inode_ref_dec(v, n), "E_INVAL")
      <4>1. PICK e : e = inode_ref_dec(v, n)
        OBVIOUS
      <4>2. Good(e, R, O) /\ Same(v, e)
        BY <3>2, <3>4, <4>1, RefDec DEF Spare
      <4>3. CASE e.st = "ok"
        <5>1. r = [e EXCEPT !.st = "E_INVAL"]
          BY <3>8, <4>1, <4>3 DEF Fail, Ok
        <5>2. Good(r, R, O) /\ r.st = "E_INVAL"
          BY <4>2, <5>1, SetSt
        <5> QED BY <1>1, <5>2 DEF Opening
      <4>4. CASE e.st # "ok"
        <5>1. r = e /\ r.st \in {"vop", "limit"}
          BY <3>4, <3>8, <4>1, <4>2, <4>4 DEF Fail, Ok, Same
        <5> QED BY <1>1, <4>2, <5>1 DEF Opening
      <4> QED BY <4>3, <4>4
    <3>9. CASE r = Vop(w, n, "truncate")
      <4>1. Good(r, A, Up(O, n)) /\ Same(w, r)
        BY <3>2, <3>5, <3>9, VopGood
      <4>2. r.node = n /\ r.st \in {"ok", "vop", "limit"}
        BY <3>5, <4>1 DEF Same
      <4> QED BY <1>1, <3>1, <3>2, <4>1, <4>2 DEF Opening
    <3>10. CASE r = w
      BY <1>1, <3>1, <3>2, <3>5, <3>10 DEF Opening
    <3> QED BY <3>6, <3>7, <3>8, <3>9, <3>10
  <2> QED BY <2>5, <2>6, <2>7
<1> QED BY <1>2, <1>3

-----------------------------------------------------------------------------
(* The loops: over the directories up to the root, and over the descriptors. *)

\* One turn of a loop; file is that of the descriptor, if it is a loop over these.
Turn(kind, c, file) ==
    IF kind = "climb" THEN Climb(c) ELSE IF kind = "dup" THEN DupFile(c, file) ELSE fd_array_close(c, file)

IsLoop(f, kind, c, T, first, end) ==
    /\ f = [i \in first..end |-> f[i]]
    /\ \A i \in first..end : f[i] = IF i = first THEN c ELSE Turn(kind, f[i - 1], T[i - 1])

LEMMA LoopExists ==
    ASSUME NEW kind, NEW c, NEW T, NEW first \in Nat, NEW end \in Nat, first <= end
    PROVE  \E f : IsLoop(f, kind, c, T, first, end)
<1> DEFINE Bad == {x \in Nat : ~ \E f : IsLoop(f, kind, c, T, first, first + x)}
<1>1. PICK y \in Nat : end = first + y
  <2>1. end - first \in Nat /\ end = first + (end - first)
    OBVIOUS
  <2> QED BY <2>1
<1> SUFFICES ASSUME y \in Bad PROVE FALSE
  BY <1>1, Zenon
<1>2. PICK x \in Bad : \A z \in Bad : x <= z
  BY NatLeast
<1>3. x \in Nat /\ ~ \E f : IsLoop(f, kind, c, T, first, first + x)
  BY <1>2
<1>4. CASE x = 0
  <2>1. PICK f : f = [i \in first..first |-> c]
    OBVIOUS
  <2>2. f = [i \in first..first |-> f[i]]
    BY <2>1
  <2>3. \A i \in first..first : f[i] = IF i = first THEN c ELSE Turn(kind, f[i - 1], T[i - 1])
    BY <2>1
  <2>4. first + x = first
    BY <1>4
  <2>5. IsLoop(f, kind, c, T, first, first + x)
    BY <2>2, <2>3, <2>4 DEF IsLoop
  <2> QED BY <1>3, <2>5
<1>5. CASE x # 0
  <2>1. PICK z \in Nat, a \in Nat, b \in Nat :
          x = z + 1 /\ a = first + z /\ b = first + x /\ b = a + 1 /\ first <= a
    <3>1. x - 1 \in Nat /\ first + (x - 1) \in Nat /\ first + x \in Nat
      BY <1>3, <1>5
    <3>2. x = (x - 1) + 1 /\ first + x = (first + (x - 1)) + 1 /\ first <= first + (x - 1)
      BY <1>3, <3>1
    <3> QED BY <3>1, <3>2
  <2>2. z \notin Bad
    BY <1>2, <1>3, <2>1
  <2>3. PICK f : IsLoop(f, kind, c, T, first, a)
    BY <2>1, <2>2
  <2>4. PICK g : g = [i \in first..b |-> IF i = b THEN Turn(kind, f[a], T[a]) ELSE f[i]]
    OBVIOUS
  <2>5. \A i \in first..a : f[i] = IF i = first THEN c ELSE Turn(kind, f[i - 1], T[i - 1])
    BY <2>3, Zenon DEF IsLoop
  <2>6. \A i \in first..a : g[i] = f[i]
    BY <2>1, <2>4
  <2>7. g[b] = Turn(kind, f[a], T[a])
    BY <2>1, <2>4
  <2>8. ASSUME NEW i \in first..b PROVE g[i] = IF i = first THEN c ELSE Turn(kind, g[i - 1], T[i - 1])
    <3>1. CASE i = b
      <4>1. i - 1 = a /\ i # first /\ a \in first..a
        BY <2>1, <3>1
      <4>2. g[i - 1] = f[a]
        BY <2>6, <4>1
      <4> QED BY <2>7, <3>1, <4>1, <4>2
    <3>2. CASE i # b
      <4>1. i \in first..a
        BY <2>1, <3>2
      <4>2. CASE i = first
        BY <2>5, <2>6, <4>1, <4>2
      <4>3. CASE i # first
        <5>1. i - 1 \in first..a
          BY <2>1, <4>1, <4>3
        <5>2. g[i - 1] = f[i - 1] /\ g[i] = f[i]
          BY <2>6, <4>1, <5>1
        <5> QED BY <2>5, <4>1, <4>3, <5>2
      <4> QED BY <4>2, <4>3
    <3> QED BY <3>1, <3>2
  <2>9. IsLoop(g, kind, c, T, first, b)
    <3>1. g = [i \in first..b |-> g[i]]
      BY <2>4
    <3> QED BY <2>8, <3>1 DEF IsLoop
  <2> QED BY <1>3, <2>1, <2>9
<1> QED BY <1>4, <1>5

-----------------------------------------------------------------------------
\* A directory on the way to the root is held by one reference of the call.
AtDir(c, A, O) == c.node \in Dirs /\ Good(c, Up(A, c.node), O)

LEMMA ClimbGood ==
    ASSUME NEW A, NEW O, Balanced(A, O), NEW c, AtDir(c, A, O)
    PROVE  AtDir(Climb(c), A, O) /\ (c.node # Root => Climb(c).node = Parent[c.node])
<1>1. CASE c.node = Root
  <2>1. Climb(c) = c
    BY <1>1 DEF Climb
  <2> QED BY <1>1, <2>1
<1>2. CASE c.node # Root
  <2>1. PICK n, m, B : n = c.node /\ m = Parent[n] /\ B = Up(A, n)
    OBVIOUS
  <2>2. m \in Dirs /\ m \in SfsNodes /\ m \in Nodes /\ n \in Nodes
    <3>1. Parent \in [SfsNodes -> Dirs]
      BY FilesAssumption
    <3> QED BY <2>1, <3>1 DEF AtDir, SfsNodes, Nodes
  <2>3. Good(c, B, O) /\ A \in [Nodes -> Nat]
    BY <2>1 DEF AtDir, Balanced
  <2>4. PICK d, C : d = sfs_load_inode(c, m) /\ C = Up(B, m)
    OBVIOUS
  <2>5. Good(d, C, O)
    BY <2>2, <2>3, <2>4, LoadGood
  <2>6. Spare(C, O, n)
    <3>1. Spare(B, O, n)
      BY <2>1, <2>2, BalancedSpare
    <3> QED BY <2>2, <2>3, <2>4, <3>1, UpSpare
  <2>7. PICK e : e = inode_ref_dec(d, n)
    OBVIOUS
  <2>8. Good(e, Down(C, n), O)
    BY <2>2, <2>5, <2>6, <2>7, RefDec DEF Spare
  <2>9. Down(C, n) = Up(A, m)
    BY <2>1, <2>2, <2>3, <2>4, UpUpDown
  <2>10. PICK g : g = [e EXCEPT !.node = m]
    OBVIOUS
  <2>11. Good(g, Up(A, m), O) /\ g.node = m
    BY <2>8, <2>9, <2>10, SetNode
  <2>12. Climb(c) = g
    BY <1>2, <2>1, <2>4, <2>7, <2>10 DEF Climb
  <2> QED BY <2>1, <2>2, <2>11, <2>12 DEF AtDir
<1> QED BY <1>1, <1>2

LEMMA LastTurnGood ==
    ASSUME NEW A, NEW O, Balanced(A, O), NEW c, AtDir(c, A, O)
    PROVE  Good(LastTurn(c), A, O)
<1>1. A \in [Nodes -> Nat]
  BY DEF Balanced
<1>2. CASE c.node = Root
  <2>1. Root \in SfsNodes /\ Root \in Nodes
    BY FilesAssumption DEF SfsNodes, Nodes
  <2>2. PICK B, C, d, e, g : /\ B = Up(A, Root) /\ C = Up(B, Root) /\ d = sfs_load_inode(c, Root)
                             /\ e = inode_ref_dec(d, Root) /\ g = inode_ref_dec(e, Root)
    OBVIOUS
  <2>3. Good(c, B, O)
    BY <1>2, <2>2 DEF AtDir
  <2>4. Good(d, C, O)
    BY <2>1, <2>2, <2>3, LoadGood
  <2>5. Spare(B, O, Root) /\ Spare(C, O, Root)
    BY <2>1, <2>2, <2>3, BalancedSpare, UpSpare
  <2>6. Down(B, Root) = A /\ Down(C, Root) = B
    <3>1. B \in [Nodes -> Nat] /\ Down(B, Root) = A
      BY <1>1, <2>1, <2>2, UpFacts
    <3> QED BY <2>1, <2>2, <3>1, UpFacts
  <2>7. Good(e, B, O)
    BY <2>1, <2>2, <2>4, <2>5, <2>6, RefDec DEF Spare
  <2>8. Good(g, A, O)
    BY <2>1, <2>2, <2>5, <2>6, <2>7, RefDec DEF Spare
  <2>9. LastTurn(c) = g
    BY <1>2, <2>2 DEF LastTurn
  <2> QED BY <2>8, <2>9
<1>3. CASE c.node # Root
  <2>1. PICK m, B, d, e : /\ m = Parent[c.node] /\ B = Up(A, m) /\ d = Climb(c)
                          /\ e = inode_ref_dec(d, m)
    OBVIOUS
  <2>2. AtDir(d, A, O) /\ d.node = m
    BY <1>3, <2>1, ClimbGood
  <2>3. m \in Nodes /\ Good(d, B, O)
    BY <2>1, <2>2 DEF AtDir, Nodes, SfsNodes
  <2>4. Spare(B, O, m) /\ Down(B, m) = A
    BY <1>1, <2>1, <2>3, BalancedSpare, UpFacts
  <2>5. Good(e, A, O)
    BY <2>1, <2>3, <2>4, RefDec DEF Spare
  <2>6. LastTurn(c) = e
    BY <1>3, <2>1 DEF LastTurn
  <2> QED BY <2>5, <2>6
<1> QED BY <1>2, <1>3

LEMMA NamefileGood ==
    ASSUME NEW A, NEW O, NEW c, Good(c, A, O), NEW n \in Dirs, A[n] > 0, NEW room \in Nat
    PROVE  Good(sfs_namefile(c, n, room), A, O)
<1>1. Balanced(A, O) /\ n \in SfsNodes /\ n \in Nodes
  BY DEF Good, SfsNodes, Nodes
<1>2. PICK d, e : d = inode_ref_inc(c, n) /\ e = [d EXCEPT !.node = n]
  OBVIOUS
<1>3. AtDir(e, A, O)
  <2>1. Good(d, Up(A, n), O)
    BY <1>1, <1>2, RefInc
  <2>2. Good(e, Up(A, n), O) /\ e.node = n
    BY <1>2, <2>1, SetNode
  <2> QED BY <2>2 DEF AtDir
<1>4. PICK g : g = CHOOSE f : f = [i \in 0..room |-> IF i = 0 THEN e ELSE Climb(f[i - 1])]
  OBVIOUS
<1>5. sfs_namefile(c, n, room) = LastTurn(g[room])
  BY <1>2, <1>4, Zenon DEF sfs_namefile
<1>6. \A i \in 0..room : g[i] = IF i = 0 THEN e ELSE Climb(g[i - 1])
  <2>1. PICK f : IsLoop(f, "climb", e, <<>>, 0, room)
    <3>1. 0 \in Nat /\ 0 <= room
      OBVIOUS
    <3> QED BY <3>1, LoopExists
  <2>2. \A i \in 0..room : f[i] = IF i = 0 THEN e ELSE Climb(f[i - 1])
    BY <2>1 DEF IsLoop, Turn
  <2>3. f = [i \in 0..room |-> f[i]]
    BY <2>1, Zenon DEF IsLoop
  <2>4. f = [i \in 0..room |-> IF i = 0 THEN e ELSE Climb(f[i - 1])]
    BY <2>2, <2>3
  <2>5. g = [i \in 0..room |-> IF i = 0 THEN e ELSE Climb(g[i - 1])]
    BY <1>4, <2>4, Zenon
  <2> QED BY <2>5, Zenon
<1> DEFINE Bad == {x \in Nat : x <= room /\ ~AtDir(g[x], A, O)}
<1>7. AtDir(g[room], A, O)
  <2> SUFFICES ASSUME room \in Bad PROVE FALSE
    OBVIOUS
  <2>1. PICK x \in Bad : \A y \in Bad : x <= y
    BY NatLeast
  <2>2. x \in 0..room /\ ~AtDir(g[x], A, O)
    BY <2>1
  <2>3. CASE x = 0
    BY <1>3, <1>6, <2>2, <2>3
  <2>4. CASE x # 0
    <3>1. PICK z \in Nat : z = x - 1
      BY <2>2, <2>4
    <3>2. AtDir(g[z], A, O)
      BY <2>1, <2>2, <2>4, <3>1
    <3>3. PICK h : h = g[z]
      OBVIOUS
    <3>4. AtDir(Climb(h), A, O)
      BY <1>1, <3>2, <3>3, ClimbGood
    <3>5. g[x] = Climb(h)
      BY <1>6, <2>2, <2>4, <3>1, <3>3
    <3> QED BY <2>2, <3>4, <3>5
  <2> QED BY <2>3, <2>4
<1>8. PICK h : h = g[room]
  OBVIOUS
<1> QED BY <1>1, <1>5, <1>7, <1>8, LastTurnGood

-----------------------------------------------------------------------------
\* The descriptors from a up to b whose file is of inode n, and how many there are.
Uses(T, a, b, n) == {fd \in a..(b - 1) : T[fd] # None /\ T[fd].node = n}
Row(T, a, b) == [n \in Nodes |-> Cardinality(Uses(T, a, b, n))]

Plus(R, D) == [n \in Nodes |-> R[n] + D[n]]
Minus(R, D) == [n \in Nodes |-> R[n] - D[n]]

LEMMA UsesFinite ==
    ASSUME NEW T, NEW a \in Nat, NEW b \in Nat, NEW n
    PROVE  IsFiniteSet(Uses(T, a, b, n)) /\ Cardinality(Uses(T, a, b, n)) \in Nat
<1>1. b - 1 \in Int /\ a \in Int
  OBVIOUS
<1>2. IsFiniteSet(a..(b - 1))
  BY <1>1, FS_Interval
<1>3. Uses(T, a, b, n) \subseteq a..(b - 1)
  BY DEF Uses
<1>4. IsFiniteSet(Uses(T, a, b, n))
  BY <1>2, <1>3, FS_Subset
<1> QED BY <1>4, FS_CardinalityType

LEMMA RowType ==
    ASSUME NEW T, NEW a \in Nat, NEW b \in Nat PROVE Row(T, a, b) \in [Nodes -> Nat]
BY UsesFinite DEF Row

LEMMA RowNext ==
    ASSUME NEW T, NEW a \in Nat, NEW b \in Nat, a <= b,
           T[b] # None => T[b].node \in Nodes
    PROVE  Row(T, a, b + 1) = IF T[b] = None THEN Row(T, a, b) ELSE Up(Row(T, a, b), T[b].node)
<1>1. PICK D \in [Nodes -> Nat], E \in [Nodes -> Nat] : D = Row(T, a, b) /\ E = Row(T, a, b + 1)
  BY RowType
<1>2. \A n \in Nodes : D[n] = Cardinality(Uses(T, a, b, n)) /\ E[n] = Cardinality(Uses(T, a, b + 1, n))
  BY <1>1 DEF Row
<1>3. \A n \in Nodes : E[n] = IF T[b] # None /\ T[b].node = n THEN D[n] + 1 ELSE D[n]
  <2> SUFFICES ASSUME NEW n \in Nodes
               PROVE  E[n] = IF T[b] # None /\ T[b].node = n THEN D[n] + 1 ELSE D[n]
    OBVIOUS
  <2>1. \A fd : fd \in a..((b + 1) - 1) <=> (fd \in a..(b - 1) \/ fd = b)
    OBVIOUS
  <2>2. b \notin a..(b - 1)
    OBVIOUS
  <2>3. CASE T[b] # None /\ T[b].node = n
    <3>1. Uses(T, a, b + 1, n) = Uses(T, a, b, n) \cup {b} /\ b \notin Uses(T, a, b, n)
      BY <2>1, <2>2, <2>3 DEF Uses
    <3>2. Cardinality(Uses(T, a, b, n) \cup {b}) = Cardinality(Uses(T, a, b, n)) + 1
      BY <3>1, UsesFinite, FS_AddElement
    <3> QED BY <1>2, <2>3, <3>1, <3>2
  <2>4. CASE ~(T[b] # None /\ T[b].node = n)
    <3>1. Uses(T, a, b + 1, n) = Uses(T, a, b, n)
      BY <2>1, <2>4 DEF Uses
    <3> QED BY <1>2, <2>4, <3>1
  <2> QED BY <2>3, <2>4
<1>4. CASE T[b] = None
  <2>1. \A n \in Nodes : E[n] = D[n]
    BY <1>3, <1>4
  <2>2. E = D
    BY <2>1
  <2> QED BY <1>1, <1>4, <2>2
<1>5. CASE T[b] # None
  <2>1. PICK m : m = T[b].node
    OBVIOUS
  <2>2. m \in Nodes /\ \A n \in Nodes : E[n] = IF m = n THEN D[n] + 1 ELSE D[n]
    BY <1>3, <1>5, <2>1
  <2>3. E = Up(D, m)
    BY <2>2 DEF Up
  <2> QED BY <1>1, <1>5, <2>1, <2>3
<1> QED BY <1>4, <1>5

LEMMA RowEmpty ==
    ASSUME NEW T, NEW a \in Nat
    PROVE  \A n \in Nodes : Row(T, a, a)[n] = 0
<1>1. \A n \in Nodes : Uses(T, a, a, n) = {}
  BY DEF Uses
<1> QED BY <1>1, FS_EmptySet DEF Row

LEMMA RowMono ==
    ASSUME NEW T, NEW a \in Nat, NEW b \in Nat, NEW e \in Nat, b <= e, NEW n \in Nodes
    PROVE  Row(T, a, b)[n] <= Row(T, a, e)[n]
<1>1. \A fd : fd \in a..(b - 1) => fd \in a..(e - 1)
  OBVIOUS
<1>2. Uses(T, a, b, n) \subseteq Uses(T, a, e, n)
  BY <1>1 DEF Uses
<1>3. Cardinality(Uses(T, a, b, n)) <= Cardinality(Uses(T, a, e, n))
  BY <1>2, UsesFinite, FS_Subset
<1> QED BY <1>3 DEF Row

LEMMA PlusUp ==
    ASSUME NEW R \in [Nodes -> Nat], NEW D \in [Nodes -> Nat], NEW n \in Nodes
    PROVE  Plus(R, Up(D, n)) = Up(Plus(R, D), n) /\ Plus(R, D) \in [Nodes -> Nat]
<1>1. PICK E \in [Nodes -> Nat] : E = Up(D, n)
  BY UpFacts
<1>2. \A m \in Nodes : E[m] = IF m = n THEN D[m] + 1 ELSE D[m]
  BY <1>1, UpFacts
<1>3. PICK P \in [Nodes -> Nat] : P = Plus(R, D)
  <2>1. \A m \in Nodes : R[m] + D[m] \in Nat
    OBVIOUS
  <2>2. [m \in Nodes |-> R[m] + D[m]] \in [Nodes -> Nat]
    BY <2>1
  <2> QED BY <2>2 DEF Plus
<1>4. \A m \in Nodes : P[m] = R[m] + D[m]
  BY <1>3 DEF Plus
<1>5. [m \in Nodes |-> R[m] + E[m]] = [P EXCEPT ![n] = P[n] + 1]
  <2>1. PICK Q : Q = [P EXCEPT ![n] = P[n] + 1]
    OBVIOUS
  <2>2. Q = [m \in Nodes |-> Q[m]] /\ \A m \in Nodes : Q[m] = IF m = n THEN P[m] + 1 ELSE P[m]
    BY <2>1
  <2>3. \A m \in Nodes : Q[m] = R[m] + E[m]
    <3> SUFFICES ASSUME NEW m \in Nodes PROVE Q[m] = R[m] + E[m]
      OBVIOUS
    <3>1. R[m] \in Nat /\ D[m] \in Nat /\ E[m] = (IF m = n THEN D[m] + 1 ELSE D[m]) /\ P[m] = R[m] + D[m]
      BY <1>2, <1>4
    <3> QED BY <2>2, <3>1
  <2> QED BY <2>1, <2>2, <2>3
<1> QED BY <1>1, <1>3, <1>5 DEF Plus, Up

LEMMA MinusUp ==
    ASSUME NEW R \in [Nodes -> Nat], NEW D \in [Nodes -> Nat], NEW n \in Nodes
    PROVE  Minus(R, Up(D, n)) = Down(Minus(R, D), n)
<1>1. PICK E \in [Nodes -> Nat] : E = Up(D, n)
  BY UpFacts
<1>2. \A m \in Nodes : E[m] = IF m = n THEN D[m] + 1 ELSE D[m]
  BY <1>1, UpFacts
<1>3. PICK P \in [Nodes -> Int] : P = Minus(R, D)
  <2>1. \A m \in Nodes : R[m] - D[m] \in Int
    OBVIOUS
  <2>2. [m \in Nodes |-> R[m] - D[m]] \in [Nodes -> Int]
    BY <2>1
  <2> QED BY <2>2 DEF Minus
<1>4. \A m \in Nodes : P[m] = R[m] - D[m]
  BY <1>3 DEF Minus
<1>5. [m \in Nodes |-> R[m] - E[m]] = [P EXCEPT ![n] = P[n] - 1]
  <2>1. PICK Q : Q = [P EXCEPT ![n] = P[n] - 1]
    OBVIOUS
  <2>2. Q = [m \in Nodes |-> Q[m]] /\ \A m \in Nodes : Q[m] = IF m = n THEN P[m] - 1 ELSE P[m]
    BY <2>1
  <2>3. \A m \in Nodes : Q[m] = R[m] - E[m]
    <3> SUFFICES ASSUME NEW m \in Nodes PROVE Q[m] = R[m] - E[m]
      OBVIOUS
    <3>1. R[m] \in Nat /\ D[m] \in Nat /\ E[m] = (IF m = n THEN D[m] + 1 ELSE D[m]) /\ P[m] = R[m] - D[m]
      BY <1>2, <1>4
    <3> QED BY <2>2, <3>1
  <2> QED BY <2>1, <2>2, <2>3
<1> QED BY <1>1, <1>3, <1>5 DEF Minus, Down

\* A table of open files, none of them in use.
IsTable(T) ==
    /\ T \in [Fds -> OpenFiles \cup {None}]
    /\ \A fd \in Fds : T[fd] # None => T[fd].open_count = 1

LEMMA TableFacts ==
    ASSUME NEW T, IsTable(T), NEW fd \in Fds, T[fd] # None
    PROVE  T[fd].node \in Nodes /\ T[fd].open_count = 1
<1>1. PICK x \in OpenFiles : x = T[fd]
  BY DEF IsTable
<1>2. x.node \in Nodes
  BY <1>1 DEF OpenFiles
<1> QED BY <1>1, <1>2 DEF IsTable

LEMMA DupFileGood ==
    ASSUME NEW c, NEW R, NEW O, Good(c, R, O), NEW file, file # None, file.node \in Nodes, O[file.node] > 0
    PROVE  /\ Good(DupFile(c, file), Up(R, file.node), Up(O, file.node))
           /\ DupFile(c, file).st = c.st
<1>1. PICK n, d, e : n = file.node /\ d = inode_ref_inc(c, n) /\ e = inode_open_inc(d, n)
  OBVIOUS
<1>2. n \in Nodes /\ R[n] > 0 /\ Spare(Up(R, n), O, n)
  BY <1>1, UpSpare
<1>3. Good(d, Up(R, n), O) /\ d.st = c.st
  BY <1>1, <1>2, RefInc
<1>4. Good(e, Up(R, n), Up(O, n)) /\ e.st = d.st
  BY <1>1, <1>2, <1>3, OpenInc DEF Spare
<1>5. DupFile(c, file) = e
  BY <1>1 DEF DupFile
<1> QED BY <1>1, <1>3, <1>4, <1>5

LEMMA DupFilesGood ==
    ASSUME NEW c, NEW R, NEW O, Good(c, R, O), NEW p, IsTable(fd_array[p]),
           \A fd \in Fds : fd_array[p][fd] # None => O[fd_array[p][fd].node] > 0
    PROVE  /\ Good(DupFiles(c, p), Plus(R, Row(fd_array[p], 0, NENTRY)), Plus(O, Row(fd_array[p], 0, NENTRY)))
           /\ DupFiles(c, p).st = c.st
<1>1. PICK T, N : T = fd_array[p] /\ N = NENTRY /\ N \in Nat
  BY FilesAssumption
<1> DEFINE D(i) == Row(T, 0, i)
<1>2. PICK g : g = CHOOSE f : f = [fd \in 0..N |-> IF fd = 0 THEN c ELSE DupFile(f[fd - 1], T[fd - 1])]
  OBVIOUS
<1>3. DupFiles(c, p) = g[N]
  BY <1>1, <1>2, Zenon DEF DupFiles
<1>4. \A i \in 0..N : g[i] = IF i = 0 THEN c ELSE DupFile(g[i - 1], T[i - 1])
  <2>1. PICK f : IsLoop(f, "dup", c, T, 0, N)
    <3>1. 0 \in Nat /\ 0 <= N
      BY <1>1
    <3> QED BY <1>1, <3>1, LoopExists
  <2>2. \A i \in 0..N : f[i] = IF i = 0 THEN c ELSE DupFile(f[i - 1], T[i - 1])
    BY <2>1 DEF IsLoop, Turn
  <2>3. f = [i \in 0..N |-> f[i]]
    BY <2>1, Zenon DEF IsLoop
  <2>4. f = [fd \in 0..N |-> IF fd = 0 THEN c ELSE DupFile(f[fd - 1], T[fd - 1])]
    BY <2>2, <2>3
  <2>5. g = [fd \in 0..N |-> IF fd = 0 THEN c ELSE DupFile(g[fd - 1], T[fd - 1])]
    BY <1>2, <2>4, Zenon
  <2> QED BY <2>5, Zenon
<1>5. R \in [Nodes -> Nat] /\ O \in [Nodes -> Nat]
  BY DEF Good, Balanced
<1> DEFINE Done(i) == Good(g[i], Plus(R, D(i)), Plus(O, D(i))) /\ g[i].st = c.st
           Bad == {x \in Nat : x <= N /\ ~Done(x)}
<1> HIDE DEF D
<1>6. Done(N)
  <2> SUFFICES ASSUME N \in Bad PROVE FALSE
    BY <1>1
  <2>1. PICK x \in Bad : \A y \in Bad : x <= y
    BY NatLeast
  <2>2. x \in 0..N /\ ~Done(x)
    BY <1>1, <2>1
  <2>3. CASE x = 0
    <3>1. \A n \in Nodes : D(0)[n] = 0
      BY RowEmpty DEF D
    <3>2. Plus(R, D(0)) = R /\ Plus(O, D(0)) = O
      BY <1>5, <3>1 DEF Plus
    <3>3. g[0] = c
      BY <1>4, <2>2, <2>3
    <3> QED BY <2>2, <2>3, <3>2, <3>3
  <2>4. CASE x # 0
    <3>1. PICK z \in Nat : x = z + 1 /\ z = x - 1 /\ z < N
      BY <1>1, <2>2, <2>4
    <3>2. Done(z)
      BY <2>1, <2>2, <3>1
    <3>3. PICK h, A, B : h = g[z] /\ A = Plus(R, D(z)) /\ B = Plus(O, D(z))
      OBVIOUS
    <3>4. Good(h, A, B) /\ h.st = c.st
      BY <3>2, <3>3
    <3>5. PICK file : file = T[z]
      OBVIOUS
    <3>6. g[x] = DupFile(h, file)
      BY <1>4, <2>2, <2>4, <3>1, <3>3, <3>5
    <3>7. z \in Fds /\ IsTable(T)
      BY <1>1, <3>1 DEF Fds
    <3>8. file # None => file.node \in Nodes /\ O[file.node] > 0
      BY <1>1, <3>5, <3>7, TableFacts
    <3>9. D(x) = IF file = None THEN D(z) ELSE Up(D(z), file.node)
      <4>1. T[z] # None => T[z].node \in Nodes
        BY <3>5, <3>8
      <4>2. 0 \in Nat /\ 0 <= z
        BY <3>1
      <4>3. Row(T, 0, z + 1) = IF T[z] = None THEN Row(T, 0, z) ELSE Up(Row(T, 0, z), T[z].node)
        BY <4>1, <4>2, RowNext
      <4> QED BY <3>1, <3>5, <4>3 DEF D
    <3>10. D(z) \in [Nodes -> Nat]
      BY RowType DEF D
    <3>11. CASE file = None
      <4>1. DupFile(h, file) = h
        BY <3>11 DEF DupFile
      <4> QED BY <2>2, <3>3, <3>4, <3>6, <3>9, <3>11, <4>1
    <3>12. CASE file # None
      <4>1. PICK n : n = file.node
        OBVIOUS
      <4>2. n \in Nodes /\ O[n] > 0
        BY <3>8, <3>12, <4>1
      <4>3. B[n] > 0
        BY <1>5, <3>3, <3>10, <4>2 DEF Plus
      <4>4. Good(DupFile(h, file), Up(A, n), Up(B, n)) /\ DupFile(h, file).st = h.st
        BY <3>4, <3>12, <4>1, <4>2, <4>3, DupFileGood
      <4>5. Up(A, n) = Plus(R, D(x)) /\ Up(B, n) = Plus(O, D(x))
        <5>1. D(x) = Up(D(z), n)
          BY <3>9, <3>12, <4>1
        <5>2. PICK E \in [Nodes -> Nat] : E = D(z)
          BY <3>10
        <5>3. Plus(R, Up(E, n)) = Up(Plus(R, E), n) /\ Plus(O, Up(E, n)) = Up(Plus(O, E), n)
          BY <1>5, <4>2, PlusUp
        <5> QED BY <3>3, <5>1, <5>2, <5>3
      <4> QED BY <2>2, <3>4, <3>6, <4>4, <4>5
    <3> QED BY <3>11, <3>12
  <2> QED BY <2>3, <2>4
<1> QED BY <1>1, <1>3, <1>6 DEF D

LEMMA CloseFileGood ==
    ASSUME NEW c, NEW R, NEW O, Good(c, R, O), Below(R, 1), NEW file, file # None, file.node \in Nodes,
           file.open_count = 1, O[file.node] > 0
    PROVE  /\ Good(fd_array_close(c, file), Down(R, file.node), Down(O, file.node))
           /\ Same(c, fd_array_close(c, file))
<1>1. Assert_(c, file.open_count = 1, "count") = c
  BY DEF Assert_
<1>2. fd_array_close(c, file) = vfs_close(c, file.node)
  BY <1>1 DEF fd_array_close
<1> QED BY <1>2, CloseGood

LEMMA CloseFilesGood ==
    ASSUME NEW c, NEW R, NEW O, Good(c, R, O), Below(R, 1), NEW p, IsTable(fd_array[p]),
           NEW first \in 0..NENTRY, NEW end \in 0..NENTRY, first <= end,
           \A n \in Nodes : Row(fd_array[p], first, end)[n] <= O[n]
    PROVE  /\ Good(CloseFiles(c, p, first, end),
                   Minus(R, Row(fd_array[p], first, end)), Minus(O, Row(fd_array[p], first, end)))
           /\ Same(c, CloseFiles(c, p, first, end))
<1>1. PICK T, N : T = fd_array[p] /\ N = NENTRY /\ N \in Nat /\ first \in Nat /\ end \in Nat /\ end <= N
  BY FilesAssumption
<1> DEFINE D(i) == Row(T, first, i)
<1>2. PICK g : g = CHOOSE f : f = [fd \in first..end |->
                                     IF fd = first THEN c ELSE fd_array_close(f[fd - 1], T[fd - 1])]
  OBVIOUS
<1>3. CloseFiles(c, p, first, end) = g[end]
  BY <1>1, <1>2, Zenon DEF CloseFiles
<1>4. \A i \in first..end : g[i] = IF i = first THEN c ELSE fd_array_close(g[i - 1], T[i - 1])
  <2>1. PICK f : IsLoop(f, "close", c, T, first, end)
    BY <1>1, LoopExists
  <2>2. \A i \in first..end : f[i] = IF i = first THEN c ELSE fd_array_close(f[i - 1], T[i - 1])
    BY <2>1 DEF IsLoop, Turn
  <2>3. f = [i \in first..end |-> f[i]]
    BY <2>1, Zenon DEF IsLoop
  <2>4. f = [fd \in first..end |-> IF fd = first THEN c ELSE fd_array_close(f[fd - 1], T[fd - 1])]
    BY <2>2, <2>3
  <2>5. g = [fd \in first..end |-> IF fd = first THEN c ELSE fd_array_close(g[fd - 1], T[fd - 1])]
    BY <1>2, <2>4, Zenon
  <2> QED BY <2>5, Zenon
<1>5. R \in [Nodes -> Nat] /\ O \in [Nodes -> Nat]
  BY DEF Good, Balanced
<1> DEFINE Done(i) == Good(g[i], Minus(R, D(i)), Minus(O, D(i))) /\ Same(c, g[i])
           Bad == {x \in Nat : first <= x /\ x <= end /\ ~Done(x)}
<1> HIDE DEF D
<1>6. Done(end)
  <2> SUFFICES ASSUME end \in Bad PROVE FALSE
    BY <1>1
  <2>1. PICK x \in Bad : \A y \in Bad : x <= y
    BY NatLeast
  <2>2. x \in Nat /\ x \in first..end /\ ~Done(x)
    BY <1>1, <2>1
  <2>3. CASE x = first
    <3>1. \A n \in Nodes : D(first)[n] = 0
      BY <1>1, RowEmpty DEF D
    <3>2. Minus(R, D(first)) = R /\ Minus(O, D(first)) = O
      BY <1>5, <3>1 DEF Minus
    <3>3. g[first] = c
      BY <1>4, <2>2, <2>3
    <3>4. Same(c, c)
      BY DEF Same
    <3> QED BY <2>2, <2>3, <3>2, <3>3, <3>4
  <2>4. CASE x # first
    <3>1. PICK z \in Nat : x = z + 1 /\ z = x - 1 /\ z < N /\ z < end /\ first <= z
      BY <1>1, <2>2, <2>4
    <3>2. Done(z)
      BY <2>1, <2>2, <3>1
    <3>3. PICK h, A, B : h = g[z] /\ A = Minus(R, D(z)) /\ B = Minus(O, D(z))
      OBVIOUS
    <3>4. Good(h, A, B) /\ Same(c, h)
      BY <3>2, <3>3
    <3>5. PICK file : file = T[z]
      OBVIOUS
    <3>6. g[x] = fd_array_close(h, file)
      BY <1>4, <2>2, <2>4, <3>1, <3>3, <3>5
    <3>7. z \in Fds /\ IsTable(T)
      BY <1>1, <3>1 DEF Fds
    <3>8. file # None => file.node \in Nodes /\ file.open_count = 1
      BY <3>5, <3>7, TableFacts
    <3>9. D(x) = IF file = None THEN D(z) ELSE Up(D(z), file.node)
      <4>1. T[z] # None => T[z].node \in Nodes
        BY <3>5, <3>8
      <4>2. Row(T, first, z + 1) = IF T[z] = None THEN Row(T, first, z) ELSE Up(Row(T, first, z), T[z].node)
        BY <1>1, <3>1, <4>1, RowNext
      <4> QED BY <3>1, <3>5, <4>2 DEF D
    <3>10. D(z) \in [Nodes -> Nat] /\ D(x) \in [Nodes -> Nat] /\ D(end) \in [Nodes -> Nat]
      BY <1>1, <2>2, RowType DEF D
    <3>11. CASE file = None
      <4>1. fd_array_close(h, file) = h
        BY <3>11 DEF fd_array_close
      <4> QED BY <2>2, <3>3, <3>4, <3>6, <3>9, <3>11, <4>1
    <3>12. CASE file # None
      <4>1. PICK n : n = file.node
        OBVIOUS
      <4>2. n \in Nodes /\ D(x) = Up(D(z), n)
        BY <3>8, <3>9, <3>12, <4>1
      <4>3. B[n] > 0
        <5>1. D(x)[n] <= D(end)[n]
          BY <1>1, <2>2, <4>2, RowMono DEF D
        <5>2. D(x)[n] = D(z)[n] + 1
          BY <3>10, <4>2, UpFacts
        <5>3. D(end)[n] <= O[n]
          BY <1>1, <4>2 DEF D
        <5>4. B[n] = O[n] - D(z)[n]
          BY <3>3, <4>2 DEF Minus
        <5> QED BY <1>5, <3>10, <4>2, <5>1, <5>2, <5>3, <5>4
      <4>4. Good(fd_array_close(h, file), Down(A, n), Down(B, n)) /\ Same(h, fd_array_close(h, file))
        <5>1. Below(A, 1)
          <6>1. A \in [Nodes -> Nat]
            BY <3>4 DEF Good, Balanced
          <6>2. \A m \in Nodes : A[m] <= R[m]
            <7>1. \A m \in Nodes : A[m] = R[m] - D(z)[m]
              BY <3>3 DEF Minus
            <7> QED BY <1>5, <3>10, <7>1
          <6>3. 1 \in Nat
            OBVIOUS
          <6> QED BY <6>1, <6>2, <6>3, BelowLess
        <5> QED BY <3>4, <3>8, <3>12, <4>1, <4>2, <4>3, <5>1, CloseFileGood
      <4>5. Down(A, n) = Minus(R, D(x)) /\ Down(B, n) = Minus(O, D(x))
        <5>1. PICK E \in [Nodes -> Nat] : E = D(z)
          BY <3>10
        <5>2. Minus(R, Up(E, n)) = Down(Minus(R, E), n) /\ Minus(O, Up(E, n)) = Down(Minus(O, E), n)
          BY <1>5, <4>2, MinusUp
        <5> QED BY <3>3, <4>2, <5>1, <5>2
      <4>6. Same(c, g[x])
        BY <3>4, <3>6, <4>4 DEF Same
      <4> QED BY <2>2, <3>6, <4>4, <4>5, <4>6
    <3> QED BY <3>11, <3>12
  <2> QED BY <2>3, <2>4
<1> QED BY <1>1, <1>3, <1>6 DEF D

-----------------------------------------------------------------------------
(* How the holders of an inode change with the table of one process.        *)

Tables == [Fds -> OpenFiles \cup {None}]

DescriptorsIn(F, n) == {x \in Procs \X Fds : F[x[1]][x[2]] # None /\ F[x[1]][x[2]].node = n}
Others(F, p, n) == {x \in DescriptorsIn(F, n) : x[1] # p}
WorkingIn(W, n) == {p \in Procs : W[p] = n}

LEMMA FiniteProcs == IsFiniteSet(Procs) /\ IsFiniteSet(Procs \X Fds) /\ IsFiniteSet(Fds)
<1>1. IsFiniteSet(Procs)
  <2>1. IsFiniteSet({InitProc})
    BY FS_Singleton
  <2> QED BY <2>1, FilesAssumption, FS_Union DEF Procs
<1>2. IsFiniteSet(Fds)
  <2>1. 0 \in Int /\ NENTRY - 1 \in Int
    BY FilesAssumption
  <2> QED BY <2>1, FS_Interval DEF Fds
<1> QED BY <1>1, <1>2, FS_Product

LEMMA DescriptorsSplit ==
    ASSUME NEW F, NEW p \in Procs, NEW n \in Nodes
    PROVE  /\ Cardinality(DescriptorsIn(F, n)) = Cardinality(Others(F, p, n)) + Row(F[p], 0, NENTRY)[n]
           /\ Cardinality(Others(F, p, n)) \in Nat /\ Row(F[p], 0, NENTRY)[n] \in Nat
<1>1. PICK T : T = F[p]
  OBVIOUS
<1>2. PICK S : S = Uses(T, 0, NENTRY, n)
  OBVIOUS
<1>3. S \subseteq Fds /\ IsFiniteSet(S) /\ Cardinality(S) \in Nat
  <2>1. NENTRY \in Nat /\ 0 \in Nat
    BY FilesAssumption
  <2>2. IsFiniteSet(S) /\ Cardinality(S) \in Nat
    BY <1>2, <2>1, UsesFinite
  <2>3. S \subseteq Fds
    BY <1>2 DEF Uses, Fds
  <2> QED BY <2>2, <2>3
<1>4. DescriptorsIn(F, n) = Others(F, p, n) \cup ({p} \X S)
  <2>1. ASSUME NEW x \in DescriptorsIn(F, n), x[1] = p PROVE x \in {p} \X S
    <3>1. x = <<x[1], x[2]>> /\ x[2] \in Fds
      BY <2>1 DEF DescriptorsIn
    <3>2. x[2] \in S
      BY <1>1, <1>2, <2>1, <3>1 DEF DescriptorsIn, Uses, Fds
    <3> QED BY <2>1, <3>1, <3>2
  <2>2. ASSUME NEW x \in {p} \X S PROVE x \in DescriptorsIn(F, n)
    <3>1. PICK y \in S : x = <<p, y>>
      OBVIOUS
    <3>2. x[1] = p /\ x[2] = y /\ y \in Fds /\ x \in Procs \X Fds
      BY <1>3, <3>1
    <3>3. T[y] # None /\ T[y].node = n
      BY <1>2 DEF Uses
    <3> QED BY <1>1, <3>2, <3>3 DEF DescriptorsIn
  <2> QED BY <2>1, <2>2 DEF Others
<1>5. Others(F, p, n) \cap ({p} \X S) = {}
  BY DEF Others
<1>6. IsFiniteSet(Others(F, p, n))
  <2>1. Others(F, p, n) \subseteq Procs \X Fds
    BY DEF Others, DescriptorsIn
  <2> QED BY <2>1, FiniteProcs, FS_Subset
<1>7. IsFiniteSet({p} \X S) /\ Cardinality({p} \X S) = Cardinality(S)
  <2>1. IsFiniteSet({p}) /\ Cardinality({p}) = 1
    BY FS_Singleton
  <2>2. IsFiniteSet({p} \X S) /\ Cardinality({p} \X S) = Cardinality({p}) * Cardinality(S)
    BY <1>3, <2>1, FS_Product
  <2> QED BY <1>3, <2>1, <2>2
<1>8. Cardinality(Others(F, p, n) \cup ({p} \X S)) =
        Cardinality(Others(F, p, n)) + Cardinality({p} \X S) - Cardinality(Others(F, p, n) \cap ({p} \X S))
  BY <1>6, <1>7, FS_Union
<1>9. Cardinality(Others(F, p, n) \cap ({p} \X S)) = 0
  BY <1>5, FS_EmptySet
<1>10. Cardinality(Others(F, p, n)) \in Nat
  BY <1>6, FS_CardinalityType
<1>11. Row(F[p], 0, NENTRY)[n] = Cardinality(S)
  BY <1>1, <1>2 DEF Row
<1> QED BY <1>3, <1>4, <1>7, <1>8, <1>9, <1>10, <1>11

\* G is F with v for p.
Changed(F, G, p, v) == G[p] = v /\ \A q \in Procs : q # p => G[q] = F[q]

LEMMA TableChange ==
    ASSUME NEW F, NEW G, NEW p \in Procs, NEW T, NEW U, T = F[p], Changed(F, G, p, U), NEW n \in Nodes
    PROVE  /\ Cardinality(DescriptorsIn(G, n)) + Row(T, 0, NENTRY)[n] =
                Cardinality(DescriptorsIn(F, n)) + Row(U, 0, NENTRY)[n]
           /\ Cardinality(DescriptorsIn(G, n)) \in Nat /\ Cardinality(DescriptorsIn(F, n)) \in Nat
           /\ Row(T, 0, NENTRY)[n] \in Nat /\ Row(U, 0, NENTRY)[n] \in Nat
           /\ Row(T, 0, NENTRY)[n] <= Cardinality(DescriptorsIn(F, n))
<1>1. G[p] = U /\ \A q \in Procs : q # p => G[q] = F[q]
  BY DEF Changed
<1>2. Others(G, p, n) = Others(F, p, n)
  <2>1. \A x \in Procs \X Fds : x[1] \in Procs
    OBVIOUS
  <2> QED BY <1>1, <2>1 DEF Others, DescriptorsIn
<1>3. /\ Cardinality(DescriptorsIn(F, n)) = Cardinality(Others(F, p, n)) + Row(F[p], 0, NENTRY)[n]
      /\ Cardinality(Others(F, p, n)) \in Nat /\ Row(F[p], 0, NENTRY)[n] \in Nat
  BY DescriptorsSplit
<1>4. /\ Cardinality(DescriptorsIn(G, n)) = Cardinality(Others(G, p, n)) + Row(G[p], 0, NENTRY)[n]
      /\ Row(G[p], 0, NENTRY)[n] \in Nat
  BY DescriptorsSplit
<1> QED BY <1>1, <1>2, <1>3, <1>4

LEMMA WorkingChange ==
    ASSUME NEW W, NEW V, NEW p \in Procs, NEW d, Changed(W, V, p, d), NEW n
    PROVE  /\ Cardinality(WorkingIn(V, n)) + (IF W[p] = n THEN 1 ELSE 0) =
                Cardinality(WorkingIn(W, n)) + (IF d = n THEN 1 ELSE 0)
           /\ Cardinality(WorkingIn(V, n)) \in Nat /\ Cardinality(WorkingIn(W, n)) \in Nat
           /\ W[p] = n => Cardinality(WorkingIn(W, n)) > 0
<1>1. V[p] = d /\ \A q \in Procs : q # p => V[q] = W[q]
  BY DEF Changed
<1>2. PICK S : S = {q \in Procs : q # p /\ W[q] = n}
  OBVIOUS
<1>3. IsFiniteSet(S) /\ Cardinality(S) \in Nat /\ p \notin S
  <2>1. S \subseteq Procs /\ p \notin S
    BY <1>2
  <2>2. IsFiniteSet(S)
    BY <2>1, FiniteProcs, FS_Subset
  <2> QED BY <2>1, <2>2, FS_CardinalityType
<1>4. Cardinality(S \cup {p}) = Cardinality(S) + 1
  BY <1>3, FS_AddElement
<1>5. WorkingIn(W, n) = IF W[p] = n THEN S \cup {p} ELSE S
  BY <1>2 DEF WorkingIn
<1>6. WorkingIn(V, n) = IF d = n THEN S \cup {p} ELSE S
  BY <1>1, <1>2 DEF WorkingIn
<1> QED BY <1>3, <1>4, <1>5, <1>6

LEMMA RowSplit ==
    ASSUME NEW T, NEW a \in Nat, NEW b \in Nat, NEW e \in Nat, a <= b, b <= e, NEW n \in Nodes
    PROVE  Row(T, a, e)[n] = Row(T, a, b)[n] + Row(T, b, e)[n]
<1>1. \A fd : fd \in a..(e - 1) <=> (fd \in a..(b - 1) \/ fd \in b..(e - 1))
  OBVIOUS
<1>2. \A fd : ~(fd \in a..(b - 1) /\ fd \in b..(e - 1))
  OBVIOUS
<1>3. PICK P, Q : P = Uses(T, a, b, n) /\ Q = Uses(T, b, e, n)
  OBVIOUS
<1>4. Uses(T, a, e, n) = P \cup Q
  BY <1>1, <1>3 DEF Uses
<1>5. P \cap Q = {}
  BY <1>2, <1>3 DEF Uses
<1>6. IsFiniteSet(P) /\ IsFiniteSet(Q) /\ Cardinality(P) \in Nat /\ Cardinality(Q) \in Nat
  BY <1>3, UsesFinite
<1>7. Cardinality(P \cup Q) = Cardinality(P) + Cardinality(Q) - Cardinality(P \cap Q)
  BY <1>6, FS_Union
<1>8. Cardinality(P \cap Q) = 0
  BY <1>5, FS_EmptySet
<1>9. Row(T, a, e)[n] = Cardinality(P \cup Q) /\ Row(T, a, b)[n] = Cardinality(P) /\ Row(T, b, e)[n] = Cardinality(Q)
  BY <1>3, <1>4 DEF Row
<1> QED BY <1>6, <1>7, <1>8, <1>9

\* U is the table T with file at fd.
Put(T, fd, file, U) == U = [T EXCEPT ![fd] = file]

\* A free descriptor gets a file.
LEMMA RowSet ==
    ASSUME NEW T, IsTable(T), NEW fd \in Fds, T[fd] = None, NEW file, file # None, file.node \in Nodes,
           NEW U, Put(T, fd, file, U), NEW n \in Nodes
    PROVE  Row(U, 0, NENTRY)[n] = Row(T, 0, NENTRY)[n] + IF file.node = n THEN 1 ELSE 0
<1>1. PICK P, Q : P = Uses(T, 0, NENTRY, n) /\ Q = Uses(U, 0, NENTRY, n)
  OBVIOUS
<1>2. Row(U, 0, NENTRY)[n] = Cardinality(Q) /\ Row(T, 0, NENTRY)[n] = Cardinality(P)
  BY <1>1 DEF Row
<1>3. IsFiniteSet(P) /\ Cardinality(P) \in Nat
  BY <1>1, UsesFinite, FilesAssumption
<1>4. U[fd] = file /\ \A x \in Fds : x # fd => U[x] = T[x]
  BY DEF IsTable, Put
<1>5. fd \notin P
  BY <1>1 DEF Uses
<1>6. CASE file.node = n
  <2>1. Q = P \cup {fd}
    BY <1>1, <1>4, <1>6 DEF Uses, Fds
  <2>2. Cardinality(P \cup {fd}) = Cardinality(P) + 1
    BY <1>3, <1>5, FS_AddElement
  <2> QED BY <1>2, <1>6, <2>1, <2>2
<1>7. CASE file.node # n
  <2>1. Q = P
    BY <1>1, <1>4, <1>7 DEF Uses, Fds
  <2> QED BY <1>2, <1>3, <1>7, <2>1
<1> QED BY <1>6, <1>7

\* Only the inodes of the files count.
SameNodes(T, U) ==
    \A fd \in Fds, n \in Nodes : (U[fd] # None /\ U[fd].node = n) <=> (T[fd] # None /\ T[fd].node = n)

LEMMA RowSame ==
    ASSUME NEW T, NEW U, SameNodes(T, U)
    PROVE  \A n \in Nodes : Row(U, 0, NENTRY)[n] = Row(T, 0, NENTRY)[n]
<1>1. \A n \in Nodes : Uses(U, 0, NENTRY, n) = Uses(T, 0, NENTRY, n)
  BY DEF SameNodes, Uses, Fds
<1> QED BY <1>1 DEF Row

LEMMA RowOfEmpty == \A n \in Nodes : Row(EmptyTable, 0, NENTRY)[n] = 0
<1>1. \A n \in Nodes : Uses(EmptyTable, 0, NENTRY, n) = {}
  BY DEF Uses, EmptyTable, Fds
<1> QED BY <1>1, FS_EmptySet DEF Row

-----------------------------------------------------------------------------
(* The inductive invariant.                                                 *)

\* The inodes: what is in memory has references, and they cover the open files.
NodesInv == Balanced(ref, open) /\ incore = InCore(ref)

\* The processes: a file is in use only while its process waits in a read.
ProcsInv ==
    /\ fd_array \in [Procs -> Tables]
    /\ pwd \in [Procs -> Dirs \cup {None}]
    /\ alive \subseteq Procs
    /\ reading \in [Procs -> Fds \cup {None}]
    /\ \A p \in alive : pwd[p] \in Dirs
    /\ \A p \in Procs \ alive : pwd[p] = None /\ fd_array[p] = EmptyTable /\ reading[p] = None
    /\ \A p \in Procs : reading[p] # None => fd_array[p][reading[p]] # None
    /\ \A p \in Procs, fd \in Fds : fd_array[p][fd] # None =>
          fd_array[p][fd].open_count = IF reading[p] = fd THEN 2 ELSE 1

CountsInv ==
    /\ leaked \in [Nodes -> Nat]
    /\ \A n \in Nodes :
          /\ ref[n] = Cardinality(DescriptorsIn(fd_array, n)) + Cardinality(WorkingIn(pwd, n))
                        + Base(n) + leaked[n]
          /\ open[n] = Cardinality(DescriptorsIn(fd_array, n))

FilesInv ==
    /\ panic # "count"
    /\ \A n \in Devs : ref[n] > 0
    /\ panic = "no" => NodesInv /\ ProcsInv /\ CountsInv

\* A step keeps the invariant, and stops the system for the limit of the counts
\* only when an inode is at its limit.
StepKeeps == FilesInv' /\ (panic' = "limit" => AtLimit)

LEMMA CallGood == ASSUME NodesInv PROVE Good(Call, ref, open) /\ Call.st = "ok" /\ Below(ref, 0)
<1>1. PICK c : c = Call
  OBVIOUS
<1>2. c = [ref |-> ref, open |-> open, incore |-> InCore(ref), node |-> None, st |-> "ok"]
  BY <1>1 DEF Call, NodesInv
<1>3. Good(c, ref, open) /\ c.st = "ok"
  BY <1>2, GoodRecord DEF NodesInv, StOk
<1>4. Below(ref, 0)
  BY DEF NodesInv, Balanced, Below
<1> QED BY <1>1, <1>3, <1>4

LEMMA ReturnGood ==
    ASSUME NEW r, NEW Q, NEW P, Good(r, Q, P), Return(r)
    PROVE  /\ panic' # "count" /\ (\A n \in Devs : ref'[n] > 0) /\ NodesInv'
           /\ ref' = Q /\ open' = P
           /\ panic' = "no" => r.st \notin {"vop", "limit"}
           /\ panic' = "limit" => AtLimit
<1>1. ref' = Q /\ open' = P /\ incore' = InCore(Q)
  BY GoodFields DEF Return
<1>2. Balanced(Q, P) /\ StOk(r.st)
  BY DEF Good
<1>3. NodesInv'
  <2>1. Balanced(ref', open') /\ incore' = InCore(ref')
    BY <1>1, <1>2
  <2> QED BY <2>1 DEF NodesInv, Balanced, InCore
<1>4. \A n \in Devs : Q[n] > 0
  <2> SUFFICES ASSUME NEW n \in Devs PROVE Q[n] > 0
    OBVIOUS
  <2>1. n \in Nodes /\ Base(n) = 1
    BY DEF Nodes, Base
  <2>2. Q[n] \in Nat /\ P[n] \in Nat /\ Q[n] >= P[n] + 1
    BY <1>2, <2>1 DEF Balanced
  <2> QED BY <2>2
<1>5. panic' = IF r.st \in {"vop", "limit", "count"} THEN r.st ELSE "no"
  BY DEF Return, Failed
<1>6. panic' # "count" /\ (panic' = "no" => r.st \notin {"vop", "limit"}) /\ (panic' = "limit" => AtLimit)
  BY <1>2, <1>5 DEF StOk
<1> QED BY <1>1, <1>3, <1>4, <1>6

\* The process that makes a call.
LEMMA CallerFacts ==
    ASSUME ProcsInv, CountsInv, NodesInv, NEW p \in Procs, Enters(p)
    PROVE  /\ pwd[p] \in Dirs /\ pwd[p] \in Nodes /\ Spare(ref, open, pwd[p])
           /\ fd_array[p] \in Tables /\ IsTable(fd_array[p])
           /\ \A n \in Nodes : Row(fd_array[p], 0, NENTRY)[n] \in Nat /\ Row(fd_array[p], 0, NENTRY)[n] <= open[n]
<1>1. p \in alive /\ reading[p] = None
  BY DEF Enters
<1>2. PICK d : d = pwd[p]
  OBVIOUS
<1>3. d \in Dirs /\ d \in Nodes
  BY <1>1, <1>2 DEF ProcsInv, Nodes, SfsNodes
<1>4. fd_array[p] \in Tables /\ fd_array \in [Procs -> Tables]
  BY DEF ProcsInv
<1>5. IsTable(fd_array[p])
  <2>1. \A fd \in Fds : reading[p] # fd
    BY <1>1, FilesAssumption
  <2> QED BY <1>4, <2>1 DEF ProcsInv, IsTable, Tables
<1>6. Spare(ref, open, d)
  <2>1. PICK W, V : W = pwd /\ V = pwd
    OBVIOUS
  <2>a. Changed(W, V, p, d) /\ W[p] = d
    BY <1>2, <2>1 DEF Changed
  <2>b. Cardinality(WorkingIn(W, d)) \in Nat /\ Cardinality(WorkingIn(W, d)) > 0
    BY <2>a, WorkingChange
  <2>2. Cardinality(WorkingIn(pwd, d)) \in Nat /\ Cardinality(WorkingIn(pwd, d)) > 0
    BY <2>1, <2>b
  <2>3. /\ ref[d] = Cardinality(DescriptorsIn(fd_array, d)) + Cardinality(WorkingIn(pwd, d)) + Base(d) + leaked[d]
        /\ open[d] = Cardinality(DescriptorsIn(fd_array, d)) /\ leaked[d] \in Nat
    BY <1>3 DEF CountsInv
  <2>4. open[d] \in Nat /\ Base(d) \in Nat
    BY <1>3 DEF NodesInv, Balanced, Base
  <2> QED BY <1>3, <2>2, <2>3, <2>4 DEF Spare
<1>7. ASSUME NEW n \in Nodes
      PROVE  Row(fd_array[p], 0, NENTRY)[n] \in Nat /\ Row(fd_array[p], 0, NENTRY)[n] <= open[n]
  <2>1. PICK F, U, G : F = fd_array /\ U = F[p] /\ G = F
    OBVIOUS
  <2>2. Row(U, 0, NENTRY)[n] \in Nat /\ Row(U, 0, NENTRY)[n] <= Cardinality(DescriptorsIn(F, n))
    <3>1. Changed(F, G, p, U) /\ U = F[p]
      BY <2>1 DEF Changed
    <3> QED BY <3>1, TableChange
  <2> QED BY <2>1, <2>2 DEF CountsInv
<1> QED BY <1>2, <1>3, <1>4, <1>5, <1>6, <1>7

\* The table of p becomes U and its working directory d.
Becomes(p, U, d) == fd_array' = [fd_array EXCEPT ![p] = U] /\ pwd' = [pwd EXCEPT ![p] = d]

\* The counts Q and P are those of the holders after that.
AddUp(Q, P, p, U, d) ==
    \A n \in Nodes :
        /\ Q[n] = ref[n] - Row(fd_array[p], 0, NENTRY)[n] + Row(U, 0, NENTRY)[n]
                    - (IF pwd[p] = n THEN 1 ELSE 0) + (IF d = n THEN 1 ELSE 0)
                    - leaked[n] + leaked'[n]
        /\ P[n] = open[n] - Row(fd_array[p], 0, NENTRY)[n] + Row(U, 0, NENTRY)[n]

LEMMA CountsKept ==
    ASSUME ProcsInv, CountsInv, NodesInv, NEW p \in Procs, NEW U, NEW d, Becomes(p, U, d),
           leaked' \in [Nodes -> Nat], AddUp(ref', open', p, U, d)
    PROVE  CountsInv'
<1>1. \A n \in Nodes :
        /\ ref'[n] = Cardinality(DescriptorsIn(fd_array', n)) + Cardinality(WorkingIn(pwd', n)) + Base(n) + leaked'[n]
        /\ open'[n] = Cardinality(DescriptorsIn(fd_array', n))
  <2> SUFFICES ASSUME NEW n \in Nodes
               PROVE  /\ ref'[n] = Cardinality(DescriptorsIn(fd_array', n)) + Cardinality(WorkingIn(pwd', n))
                                     + Base(n) + leaked'[n]
                      /\ open'[n] = Cardinality(DescriptorsIn(fd_array', n))
    OBVIOUS
  <2>1. PICK F, G, W, V : F = fd_array /\ G = fd_array' /\ W = pwd /\ V = pwd'
    OBVIOUS
  <2>2. PICK a, b, e, f, x, y, u, v :
           /\ a = Row(F[p], 0, NENTRY)[n] /\ b = Row(U, 0, NENTRY)[n]
           /\ e = (IF W[p] = n THEN 1 ELSE 0) /\ f = (IF d = n THEN 1 ELSE 0)
           /\ x = Cardinality(DescriptorsIn(F, n)) /\ y = Cardinality(DescriptorsIn(G, n))
           /\ u = Cardinality(WorkingIn(W, n)) /\ v = Cardinality(WorkingIn(V, n))
    OBVIOUS
  <2>3. Changed(F, G, p, U) /\ Changed(W, V, p, d)
    BY <2>1 DEF ProcsInv, Changed, Becomes
  <2>4. /\ y + a = x + b /\ v + e = u + f
        /\ x \in Nat /\ y \in Nat /\ a \in Nat /\ b \in Nat
        /\ u \in Nat /\ v \in Nat /\ e \in Nat /\ f \in Nat
    <3>0. PICK T : T = F[p]
      OBVIOUS
    <3>1. /\ Cardinality(DescriptorsIn(G, n)) + Row(T, 0, NENTRY)[n] =
                Cardinality(DescriptorsIn(F, n)) + Row(U, 0, NENTRY)[n]
          /\ Cardinality(DescriptorsIn(G, n)) \in Nat /\ Cardinality(DescriptorsIn(F, n)) \in Nat
          /\ Row(T, 0, NENTRY)[n] \in Nat /\ Row(U, 0, NENTRY)[n] \in Nat
      <4>1. Changed(F, G, p, U) /\ T = F[p]
        BY <2>3, <3>0
      <4>2. Cardinality(DescriptorsIn(G, n)) \in Nat /\ Cardinality(DescriptorsIn(F, n)) \in Nat
        BY <4>1, TableChange
      <4>3. Row(T, 0, NENTRY)[n] \in Nat /\ Row(U, 0, NENTRY)[n] \in Nat
        BY <4>1, TableChange
      <4>4. Cardinality(DescriptorsIn(G, n)) + Row(T, 0, NENTRY)[n] =
                Cardinality(DescriptorsIn(F, n)) + Row(U, 0, NENTRY)[n]
        BY <4>1, TableChange
      <4> QED BY <4>2, <4>3, <4>4
    <3>2. /\ Cardinality(WorkingIn(V, n)) + (IF W[p] = n THEN 1 ELSE 0) =
                Cardinality(WorkingIn(W, n)) + (IF d = n THEN 1 ELSE 0)
          /\ Cardinality(WorkingIn(V, n)) \in Nat /\ Cardinality(WorkingIn(W, n)) \in Nat
      BY <2>3, WorkingChange
    <3> QED BY <2>2, <3>0, <3>1, <3>2
  <2>5. ref[n] = x + u + Base(n) + leaked[n] /\ open[n] = x /\ leaked[n] \in Nat /\ leaked'[n] \in Nat /\ Base(n) \in Nat
    BY <2>1, <2>2 DEF CountsInv, Base
  <2>6. ref'[n] = ref[n] - a + b - e + f - leaked[n] + leaked'[n] /\ open'[n] = open[n] - a + b
    BY <2>1, <2>2 DEF AddUp
  <2>7. ref'[n] = y + v + Base(n) + leaked'[n] /\ open'[n] = y
    BY <2>4, <2>5, <2>6
  <2> QED BY <2>1, <2>2, <2>7
<1> QED BY <1>1 DEF CountsInv, DescriptorsIn, WorkingIn, Base

\* Nothing but the counts of a call that leaves the holders alone.
LEMMA SameHolders ==
    ASSUME NodesInv, ProcsInv, CountsInv, NEW r, Good(r, ref, open), Return(r),
           UNCHANGED <<fd_array, pwd, alive, reading, leaked>>
    PROVE  StepKeeps
<1>1. /\ panic' # "count" /\ (\A n \in Devs : ref'[n] > 0) /\ NodesInv' /\ ref' = ref /\ open' = open
      /\ panic' = "limit" => AtLimit
  BY ReturnGood
<1>2. ProcsInv'
  BY DEF ProcsInv
<1>3. CountsInv'
  BY <1>1 DEF CountsInv, DescriptorsIn, WorkingIn, Base
<1> QED BY <1>1, <1>2, <1>3 DEF FilesInv, StepKeeps

\* The system has stopped, or the holders are counted.
LEMMA Stopped ==
    ASSUME NEW r, NEW Q, NEW P, Good(r, Q, P), Return(r), r.st \notin {"vop", "limit"} => ProcsInv' /\ CountsInv'
    PROVE  StepKeeps
BY ReturnGood DEF FilesInv, StepKeeps

-----------------------------------------------------------------------------
(* The steps.                                                               *)

\* The system runs.
Running == NodesInv /\ ProcsInv /\ CountsInv

LEMMA StepCounts ==
    ASSUME Running, NEW r, NEW Q, NEW P, Good(r, Q, P), Return(r), NEW p \in Procs, NEW U, NEW d,
           Becomes(p, U, d), AddUp(Q, P, p, U, d), leaked' \in [Nodes -> Nat], ProcsInv'
    PROVE  StepKeeps
<1>1. ref' = Q /\ open' = P
  BY ReturnGood
<1>2. AddUp(ref', open', p, U, d)
  BY <1>1
<1>4. ProcsInv /\ CountsInv /\ NodesInv
  BY DEF Running
<1>5. CountsInv'
  BY <1>2, <1>4, CountsKept
<1> QED BY <1>5, Stopped

\* The process stays and has a table of files that are not in use.
LEMMA ProcsKept ==
    ASSUME ProcsInv, NEW p \in Procs, Enters(p), NEW U, IsTable(U), NEW d \in Dirs, Becomes(p, U, d),
           UNCHANGED <<alive, reading>>
    PROVE  ProcsInv'
<1>1. p \in alive /\ reading[p] = None /\ \A fd \in Fds : fd # None
  BY FilesAssumption DEF Enters
<1>2. U \in Tables /\ \A fd \in Fds : U[fd] # None => U[fd].open_count = 1
  BY DEF IsTable, Tables
<1>3. fd_array' = [fd_array EXCEPT ![p] = U] /\ pwd' = [pwd EXCEPT ![p] = d] /\ alive' = alive /\ reading' = reading
  BY DEF Becomes
<1>4. /\ fd_array' \in [Procs -> Tables] /\ pwd' \in [Procs -> Dirs \cup {None}]
      /\ alive' \subseteq Procs /\ reading' \in [Procs -> Fds \cup {None}]
  BY <1>2, <1>3 DEF ProcsInv
<1>5. /\ fd_array'[p] = U /\ pwd'[p] = d
      /\ \A q \in Procs : q # p => fd_array'[q] = fd_array[q] /\ pwd'[q] = pwd[q]
  BY <1>3 DEF ProcsInv
<1>6. \A q \in alive' : pwd'[q] \in Dirs
  BY <1>3, <1>5 DEF ProcsInv
<1>7. \A q \in Procs \ alive' : pwd'[q] = None /\ fd_array'[q] = EmptyTable /\ reading'[q] = None
  BY <1>1, <1>3, <1>5 DEF ProcsInv
<1>8. \A q \in Procs : reading'[q] # None => fd_array'[q][reading'[q]] # None
  BY <1>1, <1>3, <1>5 DEF ProcsInv
<1>9. \A q \in Procs, fd \in Fds : fd_array'[q][fd] # None =>
          fd_array'[q][fd].open_count = IF reading'[q] = fd THEN 2 ELSE 1
  <2> SUFFICES ASSUME NEW q \in Procs, NEW fd \in Fds, fd_array'[q][fd] # None
               PROVE  fd_array'[q][fd].open_count = IF reading'[q] = fd THEN 2 ELSE 1
    OBVIOUS
  <2>1. CASE q = p
    BY <1>1, <1>2, <1>3, <1>5, <2>1
  <2>2. CASE q # p
    BY <1>3, <1>5, <2>2 DEF ProcsInv
  <2> QED BY <2>1, <2>2
<1> QED BY <1>4, <1>6, <1>7, <1>8, <1>9 DEF ProcsInv, EmptyTable, Tables

\* The process goes.
LEMMA ProcsGone ==
    ASSUME ProcsInv, NEW p \in Procs, Enters(p), Gone(p)
    PROVE  ProcsInv' /\ Becomes(p, EmptyTable, None) /\ leaked' = leaked
<1>1. p \in alive /\ reading[p] = None
  BY DEF Enters
<1>2. EmptyTable \in Tables /\ \A fd \in Fds : EmptyTable[fd] = None
  BY DEF EmptyTable, Tables
<1>3. PICK U : U = EmptyTable
  OBVIOUS
<1>4. /\ fd_array' = [fd_array EXCEPT ![p] = U] /\ pwd' = [pwd EXCEPT ![p] = None]
      /\ alive' = alive \ {p} /\ reading' = reading /\ leaked' = leaked
  BY <1>3 DEF Gone
<1>5. /\ fd_array' \in [Procs -> Tables] /\ pwd' \in [Procs -> Dirs \cup {None}]
      /\ alive' \subseteq Procs /\ reading' \in [Procs -> Fds \cup {None}]
  BY <1>2, <1>3, <1>4 DEF ProcsInv
<1>6. /\ fd_array'[p] = U /\ pwd'[p] = None
      /\ \A q \in Procs : q # p => fd_array'[q] = fd_array[q] /\ pwd'[q] = pwd[q]
  BY <1>4 DEF ProcsInv
<1>7. \A q \in alive' : pwd'[q] \in Dirs
  BY <1>4, <1>6 DEF ProcsInv
<1>8. \A q \in Procs \ alive' : pwd'[q] = None /\ fd_array'[q] = EmptyTable /\ reading'[q] = None
  <2> SUFFICES ASSUME NEW q \in Procs \ alive'
               PROVE  pwd'[q] = None /\ fd_array'[q] = EmptyTable /\ reading'[q] = None
    OBVIOUS
  <2>1. CASE q = p
    BY <1>1, <1>3, <1>4, <1>6, <2>1
  <2>2. CASE q # p
    BY <1>4, <1>6, <2>2 DEF ProcsInv
  <2> QED BY <2>1, <2>2
<1>9. \A q \in Procs : reading'[q] # None => fd_array'[q][reading'[q]] # None
  BY <1>1, <1>4, <1>6 DEF ProcsInv
<1>10. \A q \in Procs, fd \in Fds : fd_array'[q][fd] # None =>
          fd_array'[q][fd].open_count = IF reading'[q] = fd THEN 2 ELSE 1
  <2> SUFFICES ASSUME NEW q \in Procs, NEW fd \in Fds, fd_array'[q][fd] # None
               PROVE  fd_array'[q][fd].open_count = IF reading'[q] = fd THEN 2 ELSE 1
    OBVIOUS
  <2>1. CASE q = p
    BY <1>2, <1>3, <1>6, <2>1
  <2>2. CASE q # p
    BY <1>4, <1>6, <2>2 DEF ProcsInv
  <2> QED BY <2>1, <2>2
<1>11. ProcsInv'
  BY <1>5, <1>7, <1>8, <1>9, <1>10 DEF ProcsInv, EmptyTable, Tables
<1> QED BY <1>3, <1>4, <1>11 DEF Becomes

\* A step of a process that stays.
LEMMA StayStep ==
    ASSUME Running, NEW r, NEW Q, NEW P, Good(r, Q, P), Return(r), NEW p \in Procs, Enters(p),
           NEW U, IsTable(U), NEW d \in Dirs, Becomes(p, U, d), AddUp(Q, P, p, U, d),
           leaked' \in [Nodes -> Nat], UNCHANGED <<alive, reading>>
    PROVE  StepKeeps
<1>1. ProcsInv
  BY DEF Running
<1>2. ProcsInv'
  BY <1>1, ProcsKept
<1> QED BY <1>2, StepCounts

LEMMA FileOpStep ==
    ASSUME Running, NEW p \in Procs, NEW fd \in Fds, NEW op, FileOp(p, fd, op)
    PROVE  StepKeeps
<1>1. NodesInv /\ ProcsInv /\ CountsInv /\ Enters(p)
  BY DEF Running, FileOp
<1>2. PICK T, n, c, r : T = fd_array[p] /\ n = T[fd].node /\ c = Call /\ r = Vop(c, n, op)
  OBVIOUS
<1>3. T[fd] # None /\ Return(r) /\ UNCHANGED <<fd_array, pwd, alive, reading, leaked>>
  BY <1>2 DEF FileOp
<1>4. IsTable(T)
  BY <1>1, <1>2, CallerFacts
<1>5. n \in Nodes
  BY <1>2, <1>3, <1>4, TableFacts
<1>6. Good(c, ref, open) /\ Below(ref, 1)
  BY <1>1, <1>2, <1>5, CallGood, BelowUp
<1>7. Good(r, ref, open)
  BY <1>2, <1>5, <1>6, VopGood
<1> QED BY <1>1, <1>3, <1>7, SameHolders

LEMMA GetcwdStep ==
    ASSUME Running, NEW p \in Procs, NEW room \in Nat, Getcwd(p, room)
    PROVE  StepKeeps
<1>1. NodesInv /\ ProcsInv /\ CountsInv /\ Enters(p)
  BY DEF Running, Getcwd
<1>2. PICK R, O, d, A : R = ref /\ O = open /\ d = pwd[p] /\ A = Up(R, d)
  OBVIOUS
<1>3. PICK c, c1, c2, c3, r : /\ c = Call /\ c1 = inode_ref_inc(c, d) /\ c2 = Vop(c1, d, "namefile")
                              /\ c3 = sfs_namefile(c2, d, room) /\ r = inode_ref_dec(c3, d)
  OBVIOUS
<1>4. Return(r) /\ UNCHANGED <<fd_array, pwd, alive, reading, leaked>>
  BY <1>2, <1>3 DEF Getcwd
<1>5. d \in Dirs /\ d \in Nodes /\ Spare(R, O, d)
  BY <1>1, <1>2, CallerFacts
<1>6. Good(c, R, O) /\ R \in [Nodes -> Nat] /\ Below(R, 0)
  BY <1>1, <1>2, <1>3, CallGood DEF NodesInv, Balanced
<1>7. R[d] > 0 /\ Spare(A, O, d) /\ Below(A, 1)
  BY <1>2, <1>5, <1>6, UpSpare, BelowUp
<1>8. Good(c1, A, O)
  BY <1>2, <1>3, <1>5, <1>6, <1>7, RefInc
<1>9. Good(c2, A, O)
  BY <1>3, <1>5, <1>7, <1>8, VopGood
<1>10. A[d] > 0 /\ A[d] > O[d] + Base(d)
  <2>1. A[d] > 0
    BY <1>5, <1>7, <1>8, UpSpare
  <2> QED BY <1>7, <2>1 DEF Spare
<1>11. Good(c3, A, O)
  BY <1>3, <1>5, <1>9, <1>10, NamefileGood
<1>12. Good(r, Down(A, d), O)
  BY <1>3, <1>5, <1>10, <1>11, RefDec
<1>13. Down(A, d) = R
  BY <1>2, <1>5, <1>6, UpFacts
<1>14. Good(r, ref, open)
  BY <1>2, <1>12, <1>13
<1> QED BY <1>1, <1>4, <1>14, SameHolders

LEMMA PutTable ==
    ASSUME NEW T, IsTable(T), NEW fd \in Fds, NEW file, file \in OpenFiles \cup {None},
           file # None => file.open_count = 1, NEW U, Put(T, fd, file, U)
    PROVE  IsTable(U)
<1>1. U = [T EXCEPT ![fd] = file] /\ T \in [Fds -> OpenFiles \cup {None}]
  BY DEF Put, IsTable
<1>2. U \in [Fds -> OpenFiles \cup {None}]
  BY <1>1
<1>3. \A g \in Fds : U[g] # None => U[g].open_count = 1
  <2> SUFFICES ASSUME NEW g \in Fds, U[g] # None PROVE U[g].open_count = 1
    OBVIOUS
  <2>1. CASE g = fd
    BY <1>1, <2>1
  <2>2. CASE g # fd
    BY <1>1, <2>2 DEF IsTable
  <2> QED BY <2>1, <2>2
<1> QED BY <1>2, <1>3 DEF IsTable

\* What is in the row of a process, when one more of its descriptors is of inode m.
LEMMA OneMore ==
    ASSUME Running, NEW p \in Procs, Enters(p), NEW T, T = fd_array[p], NEW fd \in Fds, T[fd] = None,
           NEW file \in OpenFiles, file.open_count = 1,
           fd_array' = [fd_array EXCEPT ![p][fd] = file], UNCHANGED <<pwd, leaked, alive, reading>>,
           NEW r, Good(r, Up(ref, file.node), Up(open, file.node)), Return(r)
    PROVE  StepKeeps
<1>1. PICK R, O, m, Q, P : R = ref /\ O = open /\ m = file.node /\ Q = Up(R, m) /\ P = Up(O, m)
  OBVIOUS
<1>2. PICK U, d : U = [T EXCEPT ![fd] = file] /\ d = pwd[p]
  OBVIOUS
<1>3. NodesInv /\ ProcsInv /\ CountsInv
  BY DEF Running
<1>4. m \in Nodes /\ file # None /\ file \in OpenFiles \cup {None}
  BY <1>1, FilesAssumption DEF OpenFiles
<1>5. /\ d \in Dirs /\ IsTable(T)
      /\ \A n \in Nodes : Row(T, 0, NENTRY)[n] \in Nat
  BY <1>2, <1>3, CallerFacts
<1>6. Put(T, fd, file, U)
  BY <1>2 DEF Put
<1>7. IsTable(U)
  BY <1>4, <1>5, <1>6, PutTable
<1>8. \A n \in Nodes : Row(U, 0, NENTRY)[n] = Row(T, 0, NENTRY)[n] + IF m = n THEN 1 ELSE 0
  BY <1>1, <1>4, <1>5, <1>6, RowSet
<1>9. R \in [Nodes -> Nat] /\ O \in [Nodes -> Nat] /\ leaked \in [Nodes -> Nat]
  BY <1>1, <1>3 DEF NodesInv, Balanced, CountsInv
<1>10. \A n \in Nodes : /\ Q[n] = IF n = m THEN R[n] + 1 ELSE R[n]
                        /\ P[n] = IF n = m THEN O[n] + 1 ELSE O[n]
  BY <1>1, <1>4, <1>9, UpFacts
<1>11. Becomes(p, U, d)
  <2>1. fd_array \in [Procs -> Tables] /\ pwd \in [Procs -> Dirs \cup {None}]
    BY <1>3 DEF ProcsInv
  <2>2. fd_array' = [fd_array EXCEPT ![p] = U]
    BY <1>2, <2>1
  <2>3. pwd' = [pwd EXCEPT ![p] = d]
    BY <1>2, <2>1
  <2> QED BY <2>2, <2>3 DEF Becomes
<1>12. AddUp(Q, P, p, U, d)
  <2> SUFFICES ASSUME NEW n \in Nodes
               PROVE  /\ Q[n] = ref[n] - Row(fd_array[p], 0, NENTRY)[n] + Row(U, 0, NENTRY)[n]
                                 - (IF pwd[p] = n THEN 1 ELSE 0) + (IF d = n THEN 1 ELSE 0)
                                 - leaked[n] + leaked'[n]
                      /\ P[n] = open[n] - Row(fd_array[p], 0, NENTRY)[n] + Row(U, 0, NENTRY)[n]
    BY DEF AddUp
  <2>1. PICK a, b, e, l : /\ a = Row(T, 0, NENTRY)[n] /\ b = Row(U, 0, NENTRY)[n]
                          /\ e = (IF pwd[p] = n THEN 1 ELSE 0) /\ l = leaked[n]
    OBVIOUS
  <2>2. a \in Nat /\ b = a + (IF m = n THEN 1 ELSE 0) /\ e \in Nat /\ l \in Nat /\ R[n] \in Nat /\ O[n] \in Nat
    BY <1>5, <1>8, <1>9, <2>1
  <2>3. Q[n] = R[n] - a + b - e + e - l + l /\ P[n] = O[n] - a + b
    BY <1>10, <2>2
  <2> QED BY <1>1, <1>2, <2>1, <2>3
<1>13. Good(r, Q, P) /\ leaked' \in [Nodes -> Nat]
  BY <1>1, <1>9
<1> QED BY <1>5, <1>7, <1>11, <1>12, <1>13, StayStep

\* A call that only loses a reference, or nothing.
LEMMA OnlyLeaks ==
    ASSUME Running, NEW p \in Procs, Enters(p), UNCHANGED <<fd_array, pwd, alive, reading>>,
           NEW m \in Nodes, leaked' = [leaked EXCEPT ![m] = @ + 1],
           NEW r, Good(r, Up(ref, m), open), Return(r)
    PROVE  StepKeeps
<1>1. PICK R, O, Q, L : R = ref /\ O = open /\ Q = Up(R, m) /\ L = leaked
  OBVIOUS
<1>2. PICK U, d : U = fd_array[p] /\ d = pwd[p]
  OBVIOUS
<1>3. NodesInv /\ ProcsInv /\ CountsInv
  BY DEF Running
<1>4. /\ d \in Dirs /\ IsTable(U)
      /\ \A n \in Nodes : Row(U, 0, NENTRY)[n] \in Nat
  BY <1>2, <1>3, CallerFacts
<1>5. R \in [Nodes -> Nat] /\ O \in [Nodes -> Nat] /\ L \in [Nodes -> Nat]
  BY <1>1, <1>3 DEF NodesInv, Balanced, CountsInv
<1>6. \A n \in Nodes : Q[n] = IF n = m THEN R[n] + 1 ELSE R[n]
  BY <1>1, <1>5, UpFacts
<1>7. leaked' \in [Nodes -> Nat] /\ \A n \in Nodes : leaked'[n] = IF n = m THEN L[n] + 1 ELSE L[n]
  BY <1>1, <1>5
<1>8. Becomes(p, U, d)
  BY <1>2, <1>3 DEF Becomes, ProcsInv
<1>9. AddUp(Q, O, p, U, d)
  <2> SUFFICES ASSUME NEW n \in Nodes
               PROVE  /\ Q[n] = ref[n] - Row(fd_array[p], 0, NENTRY)[n] + Row(U, 0, NENTRY)[n]
                                 - (IF pwd[p] = n THEN 1 ELSE 0) + (IF d = n THEN 1 ELSE 0)
                                 - leaked[n] + leaked'[n]
                      /\ O[n] = open[n] - Row(fd_array[p], 0, NENTRY)[n] + Row(U, 0, NENTRY)[n]
    BY DEF AddUp
  <2>1. PICK a, e, l, k : /\ a = Row(U, 0, NENTRY)[n] /\ e = (IF pwd[p] = n THEN 1 ELSE 0)
                          /\ l = leaked[n] /\ k = leaked'[n]
    OBVIOUS
  <2>2. /\ a \in Nat /\ e \in Nat /\ l \in Nat /\ k = l + (IF m = n THEN 1 ELSE 0)
        /\ R[n] \in Nat /\ O[n] \in Nat
    BY <1>1, <1>4, <1>5, <1>7, <2>1
  <2>3. Q[n] = R[n] - a + a - e + e - l + k /\ O[n] = O[n] - a + a
    BY <1>6, <2>2
  <2> QED BY <1>1, <1>2, <2>1, <2>3
<1>10. Good(r, Q, O) /\ UNCHANGED <<alive, reading>>
  BY <1>1
<1> QED BY <1>4, <1>7, <1>8, <1>9, <1>10, StayStep

LEMMA OpenStep ==
    ASSUME Running, NEW p \in Procs, NEW path \in Paths, NEW flags, Open(p, path, flags)
    PROVE  StepKeeps
<1>1. NodesInv /\ ProcsInv /\ CountsInv /\ Enters(p)
  BY DEF Running, Open
<1>2. PICK r, c, fd, T : r = vfs_open(c, p, path, flags) /\ c = Call /\ fd = Min(Free(p)) /\ T = fd_array[p]
  OBVIOUS
<1>3. /\ Return(r) /\ UNCHANGED <<pwd, alive, reading>>
      /\ leaked' = IF r.st = "E_EXISTS" THEN [leaked EXCEPT ![r.node] = @ + 1] ELSE leaked
      /\ fd_array' = IF r.st = "ok" THEN [fd_array EXCEPT ![p][fd] = NewFile(r.node, flags)] ELSE fd_array
  BY <1>2 DEF Open, Ok
<1>4. pwd[p] \in Dirs /\ Spare(ref, open, pwd[p]) /\ IsTable(T)
  BY <1>1, <1>2, CallerFacts
<1>5. Good(c, ref, open) /\ c.st \in {"ok", "vop", "limit"} /\ Below(ref, 0)
  BY <1>1, <1>2, CallGood
<1>6. Opening(r, ref, open)
  BY <1>2, <1>4, <1>5, OpenGood
<1>7. CASE r.st = "ok"
  <2>1. PICK file : file = NewFile(r.node, flags)
    OBVIOUS
  <2>2. r.node \in Nodes /\ Good(r, Up(ref, r.node), Up(open, r.node))
    BY <1>6, <1>7 DEF Opening
  <2>3. file \in OpenFiles /\ file.open_count = 1 /\ file.node = r.node
    BY <2>1, <2>2 DEF NewFile, OpenFiles, CanWrite
  <2>4. fd \in Fds /\ T[fd] = None
    <3>1. Free(p) # {} /\ Free(p) \subseteq Fds /\ Fds \subseteq Nat
      <4>1. Free(p) # {}
        BY DEF Open
      <4>2. Free(p) \subseteq Fds
        BY DEF Free
      <4>3. Fds \subseteq Nat
        BY FilesAssumption DEF Fds
      <4> QED BY <4>1, <4>2, <4>3
    <3>2. PICK S : S = Free(p)
      OBVIOUS
    <3>3. \E x \in S : \A y \in S : x <= y
      BY <3>1, <3>2, NatLeast
    <3>4. Min(S) \in S
      BY <3>3 DEF Min
    <3>5. fd \in Free(p)
      BY <1>2, <3>2, <3>4
    <3> QED BY <1>2, <3>5 DEF Free
  <2>5. fd_array' = [fd_array EXCEPT ![p][fd] = file] /\ leaked' = leaked
    BY <1>3, <1>7, <2>1
  <2>6. Good(r, Up(ref, file.node), Up(open, file.node))
    BY <2>2, <2>3
  <2> QED BY <1>1, <1>2, <1>3, <2>3, <2>4, <2>5, <2>6, OneMore
<1>8. CASE r.st = "E_EXISTS"
  <2>1. PICK m : m = r.node
    OBVIOUS
  <2>2. m \in Nodes /\ Good(r, Up(ref, m), open)
    BY <1>6, <1>8, <2>1 DEF Opening
  <2>3. leaked' = [leaked EXCEPT ![m] = @ + 1] /\ fd_array' = fd_array
    BY <1>3, <1>8, <2>1
  <2> QED BY <1>1, <1>3, <2>2, <2>3, OnlyLeaks
<1>9. CASE r.st \in {"vop", "limit"}
  <2>1. PICK Q, P : Good(r, Q, P)
    BY <1>6 DEF Opening
  <2> QED BY <1>3, <1>9, <2>1, Stopped
<1>10. CASE r.st \notin {"ok", "E_EXISTS", "vop", "limit"}
  <2>1. Good(r, ref, open)
    BY <1>6, <1>10 DEF Opening
  <2>2. UNCHANGED <<fd_array, pwd, alive, reading, leaked>>
    BY <1>3, <1>10
  <2> QED BY <1>1, <1>3, <2>1, <2>2, SameHolders
<1> QED BY <1>7, <1>8, <1>9, <1>10

LEMMA RowPositive ==
    ASSUME NEW T, IsTable(T), NEW fd \in Fds, T[fd] # None, NEW m, m = T[fd].node
    PROVE  m \in Nodes /\ Row(T, 0, NENTRY)[m] > 0
<1>1. m \in Nodes
  BY TableFacts
<1>2. PICK S : S = Uses(T, 0, NENTRY, m)
  OBVIOUS
<1>3. fd \in S
  BY <1>2 DEF Uses, Fds
<1>4. IsFiniteSet(S) /\ Cardinality(S) \in Nat
  BY <1>2, UsesFinite, FilesAssumption
<1>5. Cardinality(S) # 0
  BY <1>3, <1>4, FS_EmptySet
<1>6. Row(T, 0, NENTRY)[m] = Cardinality(S)
  BY <1>1, <1>2 DEF Row
<1> QED BY <1>1, <1>4, <1>5, <1>6

LEMMA FileFacts ==
    ASSUME Running, NEW p \in Procs, Enters(p), NEW T, T = fd_array[p], NEW fd \in Fds, NEW file, file = T[fd], file # None
    PROVE  /\ file \in OpenFiles /\ file.open_count = 1 /\ file.node \in Nodes /\ open[file.node] > 0
           /\ IsTable(T)
<1>1. NodesInv /\ ProcsInv /\ CountsInv
  BY DEF Running
<1>2. IsTable(T) /\ \A n \in Nodes : Row(T, 0, NENTRY)[n] \in Nat /\ Row(T, 0, NENTRY)[n] <= open[n]
  BY <1>1, CallerFacts
<1>3. PICK m : m = file.node
  OBVIOUS
<1>4. m \in Nodes /\ Row(T, 0, NENTRY)[m] > 0
  BY <1>2, <1>3, RowPositive
<1>5. open[m] \in Nat
  BY <1>1, <1>4 DEF NodesInv, Balanced
<1>6. open[m] > 0
  BY <1>2, <1>4, <1>5
<1> QED BY <1>2, <1>3, <1>4, <1>6 DEF IsTable

LEMMA DupStep ==
    ASSUME Running, NEW p \in Procs, NEW from \in Fds, NEW to \in Fds, Dup(p, from, to)
    PROVE  StepKeeps
<1>1. NodesInv /\ Enters(p)
  BY DEF Running, Dup
<1>2. PICK T, file, c, r, m : /\ T = fd_array[p] /\ file = T[from] /\ c = Call /\ r = DupFile(c, file)
                              /\ m = file.node
  OBVIOUS
<1>3. /\ file # None /\ T[to] = None /\ Return(r) /\ fd_array' = [fd_array EXCEPT ![p][to] = file]
      /\ UNCHANGED <<pwd, leaked, alive, reading>>
  BY <1>2 DEF Dup, Free
<1>4. file \in OpenFiles /\ file.open_count = 1 /\ m \in Nodes /\ open[m] > 0
  BY <1>1, <1>2, <1>3, FileFacts
<1>5. Good(c, ref, open)
  BY <1>1, <1>2, CallGood
<1>6. Good(r, Up(ref, file.node), Up(open, file.node))
  BY <1>2, <1>3, <1>4, <1>5, DupFileGood
<1> QED BY <1>1, <1>2, <1>3, <1>4, <1>6, OneMore

LEMMA DownFacts ==
    ASSUME NEW R \in [Nodes -> Nat], NEW n \in Nodes
    PROVE  \A m \in Nodes : Down(R, n)[m] = IF m = n THEN R[m] - 1 ELSE R[m]
BY DEF Down

LEMMA CloseStep ==
    ASSUME Running, NEW p \in Procs, NEW fd \in Fds, Close(p, fd)
    PROVE  StepKeeps
<1>1. NodesInv /\ ProcsInv /\ CountsInv /\ Enters(p)
  BY DEF Running, Close
<1>2. PICK T, file, c, r, m : /\ T = fd_array[p] /\ file = T[fd] /\ c = Call /\ r = fd_array_close(c, file)
                              /\ m = file.node
  OBVIOUS
<1>3. PICK R, O, Q, P, U, d : /\ R = ref /\ O = open /\ Q = Down(R, m) /\ P = Down(O, m)
                              /\ U = [T EXCEPT ![fd] = None] /\ d = pwd[p]
  OBVIOUS
<1>4. /\ file # None /\ Return(r) /\ fd_array' = [fd_array EXCEPT ![p][fd] = None]
      /\ pwd' = pwd /\ leaked' = leaked /\ UNCHANGED <<alive, reading>>
  BY <1>2 DEF Close
<1>5. file.open_count = 1 /\ m \in Nodes /\ open[m] > 0 /\ IsTable(T) /\ file.node \in Nodes
  BY <1>1, <1>2, <1>4, FileFacts DEF Running
<1>6. Good(c, R, O) /\ O[file.node] > 0 /\ Below(R, 1)
  BY <1>1, <1>2, <1>3, <1>5, CallGood, BelowUp
<1>7. Good(r, Q, P)
  BY <1>2, <1>3, <1>4, <1>5, <1>6, CloseFileGood
<1>8. d \in Dirs /\ \A n \in Nodes : Row(T, 0, NENTRY)[n] \in Nat
  BY <1>1, <1>2, <1>3, CallerFacts
<1>9. Put(T, fd, None, U) /\ None \in OpenFiles \cup {None}
  BY <1>3 DEF Put
<1>10. IsTable(U)
  <2>1. PICK none : none = None
    OBVIOUS
  <2>2. Put(T, fd, none, U) /\ none \in OpenFiles \cup {None} /\ (none # None => none.open_count = 1)
    BY <1>9, <2>1
  <2> QED BY <1>5, <2>2, PutTable
<1>11. U[fd] = None /\ Put(U, fd, file, T)
  <2>1. T \in [Fds -> OpenFiles \cup {None}]
    BY <1>5 DEF IsTable
  <2>2. U \in [Fds -> OpenFiles \cup {None}] /\ U[fd] = None /\ \A x \in Fds : x # fd => U[x] = T[x]
    BY <1>3, <2>1
  <2>3. T = [x \in Fds |-> T[x]]
    BY <2>1
  <2>4. [U EXCEPT ![fd] = file] = [x \in Fds |-> IF x = fd THEN file ELSE U[x]]
    BY <2>2
  <2>5. \A x \in Fds : T[x] = IF x = fd THEN file ELSE U[x]
    BY <1>2, <2>2
  <2>6. T = [U EXCEPT ![fd] = file]
    BY <2>3, <2>4, <2>5
  <2> QED BY <2>2, <2>6 DEF Put
<1>12. \A n \in Nodes : Row(T, 0, NENTRY)[n] = Row(U, 0, NENTRY)[n] + IF m = n THEN 1 ELSE 0
  BY <1>2, <1>4, <1>5, <1>10, <1>11, RowSet
<1>13. R \in [Nodes -> Nat] /\ O \in [Nodes -> Nat] /\ leaked \in [Nodes -> Nat] /\ leaked' \in [Nodes -> Nat]
  BY <1>1, <1>3, <1>4 DEF NodesInv, Balanced, CountsInv
<1>14. \A n \in Nodes : /\ Q[n] = IF n = m THEN R[n] - 1 ELSE R[n]
                        /\ P[n] = IF n = m THEN O[n] - 1 ELSE O[n]
  BY <1>3, <1>5, <1>13, DownFacts
<1>15. Becomes(p, U, d)
  <2>1. fd_array \in [Procs -> Tables] /\ pwd \in [Procs -> Dirs \cup {None}]
    BY <1>1 DEF ProcsInv
  <2>2. fd_array' = [fd_array EXCEPT ![p] = U]
    BY <1>2, <1>3, <1>4, <2>1
  <2>3. pwd' = [pwd EXCEPT ![p] = d]
    BY <1>3, <1>4, <2>1
  <2> QED BY <2>2, <2>3 DEF Becomes
<1>16. AddUp(Q, P, p, U, d)
  <2> SUFFICES ASSUME NEW n \in Nodes
               PROVE  /\ Q[n] = ref[n] - Row(fd_array[p], 0, NENTRY)[n] + Row(U, 0, NENTRY)[n]
                                 - (IF pwd[p] = n THEN 1 ELSE 0) + (IF d = n THEN 1 ELSE 0)
                                 - leaked[n] + leaked'[n]
                      /\ P[n] = open[n] - Row(fd_array[p], 0, NENTRY)[n] + Row(U, 0, NENTRY)[n]
    BY DEF AddUp
  <2>1. PICK a, b, e, l : /\ a = Row(T, 0, NENTRY)[n] /\ b = Row(U, 0, NENTRY)[n]
                          /\ e = (IF pwd[p] = n THEN 1 ELSE 0) /\ l = leaked[n]
    OBVIOUS
  <2>2. b \in Nat /\ e \in Nat /\ l \in Nat /\ R[n] \in Nat /\ O[n] \in Nat
    <3>1. Row(U, 0, NENTRY) \in [Nodes -> Nat]
      BY RowType, FilesAssumption
    <3> QED BY <1>13, <2>1, <3>1
  <2>3. a = b + (IF m = n THEN 1 ELSE 0)
    BY <1>12, <2>1
  <2>4. Q[n] = R[n] - a + b - e + e - l + l /\ P[n] = O[n] - a + b
    BY <1>14, <2>2, <2>3
  <2> QED BY <1>2, <1>3, <1>4, <2>1, <2>4
<1> QED BY <1>1, <1>4, <1>7, <1>8, <1>10, <1>13, <1>15, <1>16, StayStep

\* A file is acquired or released by the read that waits: only its count moves.
LEMMA ReadStep ==
    ASSUME Running, panic = "no", NEW p \in Procs, p \in alive, NEW T, T = fd_array[p], NEW fd \in Fds, T[fd] # None,
           NEW k \in Nat, NEW file, file = [T[fd] EXCEPT !.open_count = k], NEW U, U = [T EXCEPT ![fd] = file],
           fd_array' = [fd_array EXCEPT ![p] = U],
           NEW v, reading' = [reading EXCEPT ![p] = v], UNCHANGED <<nodeVars, pwd, alive, leaked, panic>>,
           \/ v = fd /\ k = 2 /\ reading[p] = None
           \/ v = None /\ k = 1 /\ reading[p] = fd
    PROVE  StepKeeps
<1>1. NodesInv /\ ProcsInv /\ CountsInv
  BY DEF Running
<1>2. T \in Tables /\ v \in Fds \cup {None} /\ \A x \in Fds : x # None
  BY <1>1, FilesAssumption DEF ProcsInv
<1>3. T[fd] \in OpenFiles
  BY <1>2 DEF Tables
<1>4. file \in OpenFiles /\ file.node = T[fd].node /\ file.open_count = k
  BY <1>3 DEF OpenFiles
<1>5. file # None
  BY <1>4, FilesAssumption
<1>6. U \in Tables /\ U[fd] = file /\ \A x \in Fds : x # fd => U[x] = T[x]
  BY <1>2, <1>4 DEF Tables
<1>7. /\ fd_array'[p] = U /\ reading'[p] = v /\ pwd' = pwd /\ alive' = alive
      /\ \A q \in Procs : q # p => fd_array'[q] = fd_array[q] /\ reading'[q] = reading[q]
  BY <1>1 DEF ProcsInv
<1>8. ProcsInv'
  <2>1. /\ fd_array' \in [Procs -> Tables] /\ pwd' \in [Procs -> Dirs \cup {None}]
        /\ alive' \subseteq Procs /\ reading' \in [Procs -> Fds \cup {None}]
    BY <1>1, <1>2, <1>6, <1>7 DEF ProcsInv
  <2>2. \A q \in alive' : pwd'[q] \in Dirs
    BY <1>1, <1>7 DEF ProcsInv
  <2>3. \A q \in Procs \ alive' : pwd'[q] = None /\ fd_array'[q] = EmptyTable /\ reading'[q] = None
    BY <1>1, <1>7 DEF ProcsInv
  <2>4. \A q \in Procs : reading'[q] # None => fd_array'[q][reading'[q]] # None
    <3> SUFFICES ASSUME NEW q \in Procs, reading'[q] # None PROVE fd_array'[q][reading'[q]] # None
      OBVIOUS
    <3>1. CASE q = p
      BY <1>5, <1>6, <1>7, <3>1
    <3>2. CASE q # p
      BY <1>1, <1>7, <3>2 DEF ProcsInv
    <3> QED BY <3>1, <3>2
  <2>5. \A q \in Procs, x \in Fds : fd_array'[q][x] # None =>
            fd_array'[q][x].open_count = IF reading'[q] = x THEN 2 ELSE 1
    <3> SUFFICES ASSUME NEW q \in Procs, NEW x \in Fds, fd_array'[q][x] # None
                 PROVE  fd_array'[q][x].open_count = IF reading'[q] = x THEN 2 ELSE 1
      OBVIOUS
    <3>1. CASE q # p
      BY <1>1, <1>7, <3>1 DEF ProcsInv
    <3>2. CASE q = p /\ x = fd
      <4>1. fd_array'[q][x] = file /\ reading'[q] = v
        BY <1>6, <1>7, <3>2
      <4>2. k = IF v = x THEN 2 ELSE 1
        BY <1>2, <3>2
      <4> QED BY <1>4, <4>1, <4>2
    <3>3. CASE q = p /\ x # fd
      <4>1. T[x] # None /\ fd_array'[q][x] = T[x]
        BY <1>6, <1>7, <3>3
      <4>2. reading[p] # x /\ reading'[q] # x
        BY <1>2, <1>7, <3>3
      <4>3. T[x].open_count = 1
        BY <1>1, <4>1, <4>2 DEF ProcsInv
      <4> QED BY <4>1, <4>2, <4>3
    <3> QED BY <3>1, <3>2, <3>3
  <2> QED BY <2>1, <2>2, <2>3, <2>4, <2>5 DEF ProcsInv, EmptyTable, Tables
<1>9. CountsInv'
  <2>1. PICK d : d = pwd[p]
    OBVIOUS
  <2>2. Becomes(p, U, d)
    BY <1>1, <1>7, <2>1 DEF Becomes, ProcsInv
  <2>3. \A n \in Nodes : Row(U, 0, NENTRY)[n] = Row(T, 0, NENTRY)[n]
    <3>1. SameNodes(T, U)
      BY <1>4, <1>5, <1>6 DEF SameNodes
    <3> QED BY <3>1, RowSame
  <2>4. AddUp(ref', open', p, U, d)
    <3> SUFFICES ASSUME NEW n \in Nodes
                 PROVE  /\ ref'[n] = ref[n] - Row(fd_array[p], 0, NENTRY)[n] + Row(U, 0, NENTRY)[n]
                                   - (IF pwd[p] = n THEN 1 ELSE 0) + (IF d = n THEN 1 ELSE 0)
                                   - leaked[n] + leaked'[n]
                        /\ open'[n] = open[n] - Row(fd_array[p], 0, NENTRY)[n] + Row(U, 0, NENTRY)[n]
      BY DEF AddUp
    <3>1. PICK a, e, l : a = Row(T, 0, NENTRY)[n] /\ e = (IF pwd[p] = n THEN 1 ELSE 0) /\ l = leaked[n]
      OBVIOUS
    <3>2. Row(T, 0, NENTRY) \in [Nodes -> Nat]
      BY RowType, FilesAssumption
    <3>3. a \in Nat /\ e \in Nat /\ l \in Nat /\ ref[n] \in Nat /\ open[n] \in Nat
      BY <1>1, <3>1, <3>2 DEF NodesInv, Balanced, CountsInv
    <3>4. ref'[n] = ref[n] - a + a - e + e - l + l /\ open'[n] = open[n] - a + a
      BY <3>3 DEF nodeVars
    <3> QED BY <2>1, <2>3, <3>1, <3>4
  <2>5. leaked' \in [Nodes -> Nat]
    BY <1>1 DEF CountsInv
  <2> QED BY <1>1, <2>2, <2>4, <2>5, CountsKept
<1>10. NodesInv'
  BY <1>1 DEF nodeVars, NodesInv, Balanced, InCore
<1>11. panic' # "count" /\ \A n \in Devs : ref'[n] > 0
  <2>1. panic' # "count" /\ ref' = ref
    BY DEF nodeVars
  <2>2. \A n \in Devs : ref[n] > 0
    <3> SUFFICES ASSUME NEW n \in Devs PROVE ref[n] > 0
      OBVIOUS
    <3>1. n \in Nodes /\ Base(n) = 1
      BY DEF Nodes, Base
    <3>2. ref[n] \in Nat /\ open[n] \in Nat /\ ref[n] >= open[n] + 1
      BY <1>1, <3>1 DEF NodesInv, Balanced
    <3> QED BY <3>2
  <2> QED BY <2>1, <2>2
<1> QED BY <1>8, <1>9, <1>10, <1>11 DEF FilesInv, StepKeeps

LEMMA ReadBeginStep ==
    ASSUME Running, NEW p \in Procs, NEW fd \in Fds, ReadBegin(p, fd)
    PROVE  StepKeeps
<1>1. Enters(p) /\ panic = "no" /\ p \in alive /\ reading[p] = None /\ ProcsInv
  BY DEF Running, ReadBegin, Enters
<1>2. PICK T, f : T = fd_array[p] /\ f = T[fd]
  OBVIOUS
<1>3. f # None
  BY <1>2 DEF ReadBegin
<1>4. f.open_count = 1
  BY <1>1, <1>2, <1>3, FileFacts
<1>5. PICK k : k = fd_array[p][fd].open_count + 1
  OBVIOUS
<1>6. PICK file, U : file = [T[fd] EXCEPT !.open_count = k] /\ U = [T EXCEPT ![fd] = file]
  OBVIOUS
<1>7. fd_array' = [fd_array EXCEPT ![p] = U]
  <2>1. fd_array' = [fd_array EXCEPT ![p][fd].open_count = k]
    BY <1>2, <1>5 DEF ReadBegin
  <2> QED BY <1>2, <1>6, <2>1
<1>8. reading' = [reading EXCEPT ![p] = fd] /\ UNCHANGED <<nodeVars, pwd, alive, leaked, panic>>
  BY DEF ReadBegin
<1>9. k \in Nat /\ k = 2
  BY <1>2, <1>4, <1>5
<1> QED BY <1>1, <1>2, <1>3, <1>6, <1>7, <1>8, <1>9, ReadStep

LEMMA ReadEndStep ==
    ASSUME Running, NEW p \in Procs, ReadEnd(p)
    PROVE  StepKeeps
<1>1. panic = "no" /\ reading[p] # None /\ ProcsInv
  BY DEF Running, ReadEnd
<1>2. PICK T, fd, f : T = fd_array[p] /\ fd = reading[p] /\ f = T[fd]
  OBVIOUS
<1>3. p \in alive /\ fd \in Fds /\ f # None
  BY <1>1, <1>2 DEF ProcsInv
<1>4. f.open_count = 2
  BY <1>1, <1>2, <1>3 DEF ProcsInv
<1>5. PICK k : k = fd_array[p][fd].open_count - 1
  OBVIOUS
<1>6. PICK file, U : file = [T[fd] EXCEPT !.open_count = k] /\ U = [T EXCEPT ![fd] = file]
  OBVIOUS
<1>7. fd_array' = [fd_array EXCEPT ![p] = U]
  <2>1. fd_array' = [fd_array EXCEPT ![p][fd].open_count = k]
    BY <1>2, <1>5 DEF ReadEnd
  <2> QED BY <1>2, <1>6, <2>1
<1>8. PICK v : v = None
  OBVIOUS
<1>9. reading' = [reading EXCEPT ![p] = v] /\ UNCHANGED <<nodeVars, pwd, alive, leaked, panic>>
  BY <1>8 DEF ReadEnd
<1>10. k \in Nat /\ k = 1
  BY <1>2, <1>4, <1>5
<1> QED BY <1>1, <1>2, <1>3, <1>6, <1>7, <1>8, <1>9, <1>10, ReadStep

LEMMA ChdirStep ==
    ASSUME Running, NEW p \in Procs, NEW path \in Paths, Chdir(p, path)
    PROVE  StepKeeps
<1>1. NodesInv /\ ProcsInv /\ CountsInv /\ Enters(p)
  BY DEF Running, Chdir
<1>2. PICK R, O, c, f, r, n, d : /\ R = ref /\ O = open /\ c = Call /\ f = vfs_lookup(c, p, path)
                                 /\ n = f.node /\ d = pwd[p]
                                 /\ r = IF f.st = "ok" THEN inode_ref_dec(vfs_set_curdir(f, p), n) ELSE f
  OBVIOUS
<1>3. /\ Return(r) /\ fd_array' = fd_array /\ leaked' = leaked /\ UNCHANGED <<alive, reading>>
      /\ pwd' = IF f.st = "ok" /\ n \in Dirs THEN [pwd EXCEPT ![p] = n] ELSE pwd
  BY <1>2 DEF Chdir, Ok
<1>4. /\ pwd[p] \in Dirs /\ Spare(R, O, pwd[p]) /\ d \in Nodes /\ IsTable(fd_array[p])
      /\ \A m \in Nodes : Row(fd_array[p], 0, NENTRY)[m] \in Nat
  BY <1>1, <1>2, CallerFacts
<1>5. Good(c, R, O) /\ c.st \in {"ok", "vop", "limit"} /\ R \in [Nodes -> Nat] /\ O \in [Nodes -> Nat] /\ Below(R, 0)
  BY <1>1, <1>2, CallGood DEF NodesInv, Balanced
<1>6. Found(f, R, O)
  BY <1>2, <1>4, <1>5, LookupGood
<1>7. CASE f.st = "E_NOENT"
  <2>1. Good(r, ref, open)
    BY <1>2, <1>6, <1>7 DEF Found
  <2>2. UNCHANGED <<fd_array, pwd, alive, reading, leaked>>
    BY <1>3, <1>7
  <2> QED BY <1>1, <1>3, <2>1, <2>2, SameHolders
<1>8. CASE f.st \in {"vop", "limit"}
  <2>1. r = f
    BY <1>2, <1>8
  <2>2. PICK Q : Good(f, Q, O)
    BY <1>6 DEF Found
  <2>3. Good(r, Q, O) /\ r.st \in {"vop", "limit"}
    BY <1>8, <2>1, <2>2
  <2> QED BY <1>3, <2>3, Stopped
<1>9. CASE f.st = "ok"
  <2>1. PICK A : A = Up(R, n)
    OBVIOUS
  <2>2. n \in Nodes /\ Good(f, A, O)
    BY <1>2, <1>6, <1>9, <2>1 DEF Found
  <2>3. A \in [Nodes -> Nat] /\ \A m \in Nodes : A[m] = IF m = n THEN R[m] + 1 ELSE R[m]
    BY <1>5, <2>1, <2>2, UpFacts
  <2>4. /\ R[d] > O[d] + Base(d) /\ \A m \in Nodes : R[m] >= O[m] + Base(m) /\ Base(m) \in Nat
    BY <1>1, <1>2, <1>4 DEF Spare, NodesInv, Balanced, Base
  <2>5. PICK t : t = Vop(f, n, "gettype")
    OBVIOUS
  <2>6. Good(t, A, O) /\ Same(f, t) /\ t.node = n
    <3>1. Below(A, 1)
      BY <1>5, <2>1, <2>2, BelowUp
    <3>2. Good(t, A, O) /\ Same(f, t)
      BY <2>2, <2>5, <3>1, VopGood
    <3> QED BY <1>2, <3>2 DEF Same
  <2>7. CASE n \in Dirs /\ n # d /\ t.st = "ok"
    <3>1. PICK B, C, D, f1, f2 : /\ B = Up(A, n) /\ C = Down(B, d) /\ D = Down(C, n)
                                 /\ f1 = inode_ref_inc(t, n) /\ f2 = inode_ref_dec(f1, d)
      OBVIOUS
    <3>2. r = inode_ref_dec(f2, n)
      <4>1. vfs_set_curdir(f, p) = f2
        BY <1>2, <2>7, <2>5, <2>6, <3>1 DEF vfs_set_curdir, SetDir, Ok
      <4> QED BY <1>2, <1>9, <4>1
    <3>3. A[n] > 0
      BY <1>5, <2>2, <2>3
    <3>4. Good(f1, B, O)
      BY <2>2, <2>6, <3>1, <3>3, RefInc
    <3>5. B \in [Nodes -> Nat] /\ \A m \in Nodes : B[m] = IF m = n THEN A[m] + 1 ELSE A[m]
      BY <2>2, <2>3, <3>1, UpFacts
    <3>6. B[d] > O[d] + Base(d)
      BY <1>4, <2>3, <2>4, <2>7, <3>5
    <3>7. Good(f2, C, O)
      BY <1>4, <3>1, <3>4, <3>6, RefDec
    <3>8. C \in [Nodes -> Nat]
      BY <3>7 DEF Good, Balanced
    <3>9. \A m \in Nodes : C[m] = IF m = d THEN B[m] - 1 ELSE B[m]
      BY <1>4, <3>1, <3>5, DownFacts
    <3>10. C[n] > O[n] + Base(n)
      <4>1. C[n] = R[n] + 2 /\ R[n] \in Nat /\ O[n] \in Nat /\ Base(n) \in Nat /\ R[n] >= O[n] + Base(n)
        BY <1>5, <2>2, <2>3, <2>4, <2>7, <3>5, <3>9
      <4> QED BY <4>1
    <3>11. Good(r, D, O)
      BY <2>2, <3>1, <3>2, <3>7, <3>10, RefDec
    <3>12. \A m \in Nodes : D[m] = IF m = n THEN C[m] - 1 ELSE C[m]
      BY <2>2, <3>1, <3>8, DownFacts
    <3>13. PICK U : U = fd_array[p]
      OBVIOUS
    <3>14. Becomes(p, U, n)
      BY <1>1, <1>3, <1>9, <2>7, <3>13 DEF Becomes, ProcsInv
    <3>15. AddUp(D, O, p, U, n)
      <4> SUFFICES ASSUME NEW m \in Nodes
                   PROVE  /\ D[m] = ref[m] - Row(fd_array[p], 0, NENTRY)[m] + Row(U, 0, NENTRY)[m]
                                     - (IF pwd[p] = m THEN 1 ELSE 0) + (IF n = m THEN 1 ELSE 0)
                                     - leaked[m] + leaked'[m]
                          /\ O[m] = open[m] - Row(fd_array[p], 0, NENTRY)[m] + Row(U, 0, NENTRY)[m]
        BY DEF AddUp
      <4>1. PICK a, e, g, l : /\ a = Row(U, 0, NENTRY)[m] /\ e = (IF pwd[p] = m THEN 1 ELSE 0)
                              /\ g = (IF n = m THEN 1 ELSE 0) /\ l = leaked[m]
        OBVIOUS
      <4>2. a \in Nat /\ e \in Nat /\ g \in Nat /\ l \in Nat /\ R[m] \in Nat /\ O[m] \in Nat
        BY <1>1, <1>4, <1>5, <3>13, <4>1 DEF CountsInv
      <4>3. D[m] = R[m] - e + g
        <5>1. D[m] = (IF m = n THEN C[m] - 1 ELSE C[m]) /\ C[m] = (IF m = d THEN B[m] - 1 ELSE B[m])
          BY <3>9, <3>12
        <5>2. B[m] = (IF m = n THEN A[m] + 1 ELSE A[m]) /\ A[m] = (IF m = n THEN R[m] + 1 ELSE R[m])
          BY <2>3, <3>5
        <5> QED BY <1>2, <2>7, <4>1, <4>2, <5>1, <5>2
      <4>4. D[m] = R[m] - a + a - e + g - l + l /\ O[m] = O[m] - a + a
        BY <4>2, <4>3
      <4> QED BY <1>2, <1>3, <3>13, <4>1, <4>4
    <3>16. IsTable(U) /\ leaked' \in [Nodes -> Nat] /\ n \in Dirs
      BY <1>1, <1>3, <1>4, <2>7, <3>13 DEF CountsInv
    <3> QED BY <1>1, <1>3, <3>11, <3>14, <3>15, <3>16, StayStep
  <2>8. CASE ~(n \in Dirs /\ n # d /\ t.st = "ok")
    <3>1. PICK u : u = vfs_set_curdir(f, p)
      OBVIOUS
    <3>2. r = inode_ref_dec(u, n)
      BY <1>2, <1>9, <3>1
    <3>3. Good(u, A, O) /\ (u.st \in {"vop", "limit"} \/ n \notin Dirs \/ n = d)
      <4>1. CASE n = d
        <5>1. u = f
          BY <1>2, <3>1, <4>1 DEF vfs_set_curdir
        <5> QED BY <2>2, <4>1, <5>1
      <4>2. CASE n # d
        <5>1. u = t
          BY <1>2, <2>8, <2>5, <2>6, <3>1, <4>2 DEF vfs_set_curdir, SetDir, Ok
        <5>2. t.st \in {"ok", "vop", "limit"}
          BY <1>9, <2>6 DEF Same
        <5> QED BY <2>8, <2>6, <4>2, <5>1, <5>2
      <4> QED BY <4>1, <4>2
    <3>4. A[n] > O[n] + Base(n)
      BY <1>5, <2>2, <2>3, <2>4
    <3>5. Good(r, Down(A, n), O) /\ Same(u, r)
      BY <2>2, <3>2, <3>3, <3>4, RefDec
    <3>6. Down(A, n) = R
      BY <1>5, <2>1, <2>2, UpFacts
    <3>7. Good(r, ref, open)
      BY <1>2, <3>5, <3>6
    <3>8. CASE n \notin Dirs \/ n = d
      <4>1. pwd' = pwd
        BY <1>1, <1>2, <1>3, <3>8 DEF ProcsInv
      <4>2. UNCHANGED <<fd_array, pwd, alive, reading, leaked>>
        BY <1>3, <4>1
      <4> QED BY <1>1, <1>3, <3>7, <4>2, SameHolders
    <3>9. CASE u.st \in {"vop", "limit"}
      <4>1. r.st \in {"vop", "limit"}
        BY <3>9, <3>5 DEF Same
      <4> QED BY <1>3, <3>7, <4>1, Stopped
    <3> QED BY <3>3, <3>8, <3>9
  <2> QED BY <2>7, <2>8
<1> QED BY <1>6, <1>7, <1>8, <1>9 DEF Found

LEMMA ForkStep ==
    ASSUME Running, NEW p \in Procs, NEW q \in Users, Fork(p, q)
    PROVE  StepKeeps
<1>1. NodesInv /\ ProcsInv /\ CountsInv /\ Enters(p) /\ q \in Procs /\ q \notin alive /\ p \in alive /\ p # q
  BY DEF Running, Fork, Procs, Enters
<1>2. PICK T, d, c, c1, r : /\ T = fd_array[p] /\ d = pwd[p] /\ c = Call
                            /\ c1 = inode_ref_inc(c, d) /\ r = DupFiles(c1, p)
  OBVIOUS
<1>3. PICK R, O, A, Q, P : /\ R = ref /\ O = open /\ A = Up(R, d)
                           /\ Q = Plus(A, Row(T, 0, NENTRY)) /\ P = Plus(O, Row(T, 0, NENTRY))
  OBVIOUS
<1>4. /\ Return(r) /\ fd_array' = [fd_array EXCEPT ![q] = T] /\ pwd' = [pwd EXCEPT ![q] = d]
      /\ alive' = alive \cup {q} /\ reading' = reading /\ leaked' = leaked
  BY <1>2 DEF Fork
<1>5. /\ d \in Dirs /\ d \in Nodes /\ Spare(R, O, d) /\ IsTable(T) /\ T \in Tables
      /\ \A n \in Nodes : Row(T, 0, NENTRY)[n] \in Nat /\ Row(T, 0, NENTRY)[n] <= O[n]
  BY <1>1, <1>2, <1>3, CallerFacts
<1>6. Good(c, R, O) /\ R \in [Nodes -> Nat] /\ O \in [Nodes -> Nat]
  BY <1>1, <1>2, <1>3, CallGood DEF NodesInv, Balanced
<1>7. R[d] > 0
  BY <1>5, <1>6, UpSpare
<1>8. Good(c1, A, O)
  BY <1>2, <1>3, <1>5, <1>6, <1>7, RefInc
<1>9. \A fd \in Fds : T[fd] # None => O[T[fd].node] > 0
  <2> SUFFICES ASSUME NEW fd \in Fds, T[fd] # None PROVE O[T[fd].node] > 0
    OBVIOUS
  <2>1. PICK m : m = T[fd].node
    OBVIOUS
  <2>2. m \in Nodes /\ Row(T, 0, NENTRY)[m] > 0
    BY <1>5, <2>1, RowPositive
  <2>3. O[m] > 0
    BY <1>5, <1>6, <2>2
  <2> QED BY <2>1, <2>3
<1>10. Good(r, Q, P)
  <2>1. /\ IsTable(fd_array[p])
        /\ \A fd \in Fds : fd_array[p][fd] # None => O[fd_array[p][fd].node] > 0
    BY <1>2, <1>5, <1>9
  <2>2. Good(r, Plus(A, Row(fd_array[p], 0, NENTRY)), Plus(O, Row(fd_array[p], 0, NENTRY)))
    BY <1>2, <1>8, <2>1, DupFilesGood
  <2> QED BY <1>2, <1>3, <2>2
<1>11. fd_array[q] = EmptyTable /\ pwd[q] = None /\ reading[q] = None
  BY <1>1 DEF ProcsInv
<1>12. ProcsInv'
  <2>1. /\ fd_array' \in [Procs -> Tables] /\ pwd' \in [Procs -> Dirs \cup {None}]
        /\ alive' \subseteq Procs /\ reading' \in [Procs -> Fds \cup {None}]
    BY <1>1, <1>4, <1>5 DEF ProcsInv
  <2>2. /\ fd_array'[q] = T /\ pwd'[q] = d
        /\ \A x \in Procs : x # q => fd_array'[x] = fd_array[x] /\ pwd'[x] = pwd[x]
    BY <1>1, <1>4 DEF ProcsInv
  <2>3. \A x \in alive' : pwd'[x] \in Dirs
    BY <1>1, <1>4, <1>5, <2>2 DEF ProcsInv
  <2>4. \A x \in Procs \ alive' : pwd'[x] = None /\ fd_array'[x] = EmptyTable /\ reading'[x] = None
    BY <1>1, <1>4, <2>2 DEF ProcsInv
  <2>5. \A x \in Procs : reading'[x] # None => fd_array'[x][reading'[x]] # None
    BY <1>1, <1>4, <1>11, <2>2 DEF ProcsInv
  <2>6. \A x \in Procs, fd \in Fds : fd_array'[x][fd] # None =>
            fd_array'[x][fd].open_count = IF reading'[x] = fd THEN 2 ELSE 1
    <3> SUFFICES ASSUME NEW x \in Procs, NEW fd \in Fds, fd_array'[x][fd] # None
                 PROVE  fd_array'[x][fd].open_count = IF reading'[x] = fd THEN 2 ELSE 1
      OBVIOUS
    <3>1. CASE x = q
      <4>1. fd # None
        BY FilesAssumption
      <4>2. T[fd].open_count = 1 /\ reading'[x] = None
        BY <1>4, <1>5, <1>11, <2>2, <3>1 DEF IsTable
      <4> QED BY <2>2, <3>1, <4>1, <4>2
    <3>2. CASE x # q
      BY <1>1, <1>4, <2>2, <3>2 DEF ProcsInv
    <3> QED BY <3>1, <3>2
  <2> QED BY <2>1, <2>3, <2>4, <2>5, <2>6 DEF ProcsInv, EmptyTable, Tables
<1>13. Becomes(q, T, d)
  BY <1>4 DEF Becomes
<1>14. AddUp(Q, P, q, T, d)
  <2> SUFFICES ASSUME NEW n \in Nodes
               PROVE  /\ Q[n] = ref[n] - Row(fd_array[q], 0, NENTRY)[n] + Row(T, 0, NENTRY)[n]
                                 - (IF pwd[q] = n THEN 1 ELSE 0) + (IF d = n THEN 1 ELSE 0)
                                 - leaked[n] + leaked'[n]
                      /\ P[n] = open[n] - Row(fd_array[q], 0, NENTRY)[n] + Row(T, 0, NENTRY)[n]
    BY DEF AddUp
  <2>1. PICK a, z, e, l : /\ a = Row(T, 0, NENTRY)[n] /\ z = Row(fd_array[q], 0, NENTRY)[n]
                          /\ e = (IF d = n THEN 1 ELSE 0) /\ l = leaked[n]
    OBVIOUS
  <2>2. z = 0
    <3>1. z = Row(EmptyTable, 0, NENTRY)[n]
      BY <1>11, <2>1
    <3> QED BY <3>1, RowOfEmpty
  <2>3. pwd[q] # n
    BY <1>11, FilesAssumption
  <2>4. a \in Nat /\ e \in Nat /\ l \in Nat /\ R[n] \in Nat /\ O[n] \in Nat
    BY <1>1, <1>5, <1>6, <2>1 DEF CountsInv
  <2>5. A[n] = R[n] + e
    <3>1. A[n] = IF n = d THEN R[n] + 1 ELSE R[n]
      BY <1>3, <1>5, <1>6, UpFacts
    <3> QED BY <2>1, <2>4, <3>1
  <2>6. Q[n] = A[n] + a /\ P[n] = O[n] + a
    BY <1>3, <2>1 DEF Plus
  <2>7. Q[n] = R[n] - z + a - 0 + e - l + l /\ P[n] = O[n] - z + a
    BY <2>2, <2>4, <2>5, <2>6
  <2> QED BY <1>3, <1>4, <2>1, <2>3, <2>7
<1>15. leaked' \in [Nodes -> Nat]
  BY <1>1, <1>4 DEF CountsInv
<1> QED BY <1>1, <1>4, <1>10, <1>12, <1>13, <1>14, <1>15, StepCounts

\* A process that goes leaves an empty table and no working directory.
LEMMA GoneStep ==
    ASSUME Running, NEW p \in Procs, Enters(p), Gone(p), NEW r, NEW Q, NEW P, Good(r, Q, P), Return(r),
           NEW T, T = fd_array[p], NEW d, d = pwd[p],
           \A n \in Nodes : Q[n] = ref[n] - Row(T, 0, NENTRY)[n] - (IF d = n THEN 1 ELSE 0),
           \A n \in Nodes : P[n] = open[n] - Row(T, 0, NENTRY)[n]
    PROVE  StepKeeps
<1>1. NodesInv /\ ProcsInv /\ CountsInv
  BY DEF Running
<1>2. PICK U, z : U = EmptyTable /\ z = None
  OBVIOUS
<1>3. ProcsInv' /\ Becomes(p, U, z) /\ leaked' = leaked
  BY <1>1, <1>2, ProcsGone
<1>4. leaked' \in [Nodes -> Nat]
  BY <1>1, <1>3 DEF CountsInv
<1>5. AddUp(Q, P, p, U, z)
  <2> SUFFICES ASSUME NEW n \in Nodes
               PROVE  /\ Q[n] = ref[n] - Row(fd_array[p], 0, NENTRY)[n] + Row(U, 0, NENTRY)[n]
                                 - (IF pwd[p] = n THEN 1 ELSE 0) + (IF z = n THEN 1 ELSE 0)
                                 - leaked[n] + leaked'[n]
                      /\ P[n] = open[n] - Row(fd_array[p], 0, NENTRY)[n] + Row(U, 0, NENTRY)[n]
    BY DEF AddUp
  <2>1. PICK a, b, e, l : /\ a = Row(T, 0, NENTRY)[n] /\ b = Row(U, 0, NENTRY)[n]
                          /\ e = (IF d = n THEN 1 ELSE 0) /\ l = leaked[n]
    OBVIOUS
  <2>2. b = 0
    <3>1. b = Row(EmptyTable, 0, NENTRY)[n]
      BY <1>2, <2>1
    <3> QED BY <3>1, RowOfEmpty
  <2>3. z # n
    BY <1>2, FilesAssumption
  <2>4. a \in Nat /\ e \in Nat /\ l \in Nat /\ ref[n] \in Nat /\ open[n] \in Nat
    <3>1. Row(T, 0, NENTRY) \in [Nodes -> Nat]
      BY RowType, FilesAssumption
    <3> QED BY <1>1, <2>1, <3>1 DEF CountsInv, NodesInv, Balanced
  <2>5. Q[n] = ref[n] - a - e /\ P[n] = open[n] - a
    BY <2>1
  <2>6. Q[n] = ref[n] - a + b - e + 0 - l + l /\ P[n] = open[n] - a + b
    BY <2>2, <2>4, <2>5
  <2> QED BY <1>3, <2>1, <2>3, <2>6
<1> QED BY <1>3, <1>4, <1>5, StepCounts

LEMMA ExitStep ==
    ASSUME Running, NEW p \in Procs, Exit(p)
    PROVE  StepKeeps
<1>1. NodesInv /\ ProcsInv /\ CountsInv /\ Enters(p) /\ Gone(p)
  BY DEF Running, Exit
<1>2. PICK T, d, c, c1, r : /\ T = fd_array[p] /\ d = pwd[p] /\ c = Call
                            /\ c1 = inode_ref_dec(c, d) /\ r = CloseFiles(c1, p, 0, NENTRY)
  OBVIOUS
<1>3. PICK R, O, A, D, Q, P : /\ R = ref /\ O = open /\ A = Down(R, d) /\ D = Row(T, 0, NENTRY)
                              /\ Q = Minus(A, D) /\ P = Minus(O, D)
  OBVIOUS
<1>4. Return(r)
  BY <1>2 DEF Exit, files_destroy
<1>5. /\ d \in Dirs /\ d \in Nodes /\ Spare(R, O, d) /\ IsTable(fd_array[p])
      /\ \A n \in Nodes : Row(T, 0, NENTRY)[n] \in Nat /\ Row(T, 0, NENTRY)[n] <= O[n]
  BY <1>1, <1>2, <1>3, CallerFacts
<1>6. Good(c, R, O) /\ R \in [Nodes -> Nat] /\ O \in [Nodes -> Nat] /\ Below(R, 0)
  BY <1>1, <1>2, <1>3, CallGood DEF NodesInv, Balanced
<1>7. Good(c1, A, O)
  <2>1. R[d] > O[d] + Base(d)
    BY <1>5 DEF Spare
  <2> QED BY <1>2, <1>3, <1>5, <1>6, <2>1, RefDec
<1>8. Good(r, Q, P)
  <2>1. PICK first, end : first = 0 /\ end = NENTRY
    OBVIOUS
  <2>2. first \in 0..NENTRY /\ end \in 0..NENTRY /\ first <= end
    BY <2>1, FilesAssumption
  <2>3. \A n \in Nodes : Row(fd_array[p], first, end)[n] <= O[n]
    BY <1>2, <1>5, <2>1
  <2>4. Below(A, 1)
    <3>1. Below(R, 1) /\ 1 \in Nat
      BY <1>5, <1>6, BelowUp
    <3>2. A \in [Nodes -> Nat]
      BY <1>7 DEF Good, Balanced
    <3>3. \A n \in Nodes : A[n] <= R[n]
      BY <1>3, <1>5, <1>6, DownFacts
    <3> QED BY <3>1, <3>2, <3>3, BelowLess
  <2>5. Good(CloseFiles(c1, p, first, end),
             Minus(A, Row(fd_array[p], first, end)), Minus(O, Row(fd_array[p], first, end)))
    BY <1>5, <1>7, <2>2, <2>3, <2>4, CloseFilesGood
  <2> QED BY <1>2, <1>3, <2>1, <2>5
<1>9. \A n \in Nodes : Q[n] = ref[n] - Row(T, 0, NENTRY)[n] - (IF d = n THEN 1 ELSE 0)
  <2> SUFFICES ASSUME NEW n \in Nodes PROVE Q[n] = R[n] - D[n] - (IF d = n THEN 1 ELSE 0)
    BY <1>3
  <2>1. Q[n] = A[n] - D[n]
    BY <1>3 DEF Minus
  <2>2. A[n] = IF n = d THEN R[n] - 1 ELSE R[n]
    BY <1>3, <1>5, <1>6, DownFacts
  <2>3. R[n] \in Nat /\ D[n] \in Nat
    BY <1>3, <1>5, <1>6
  <2> QED BY <2>1, <2>2, <2>3
<1>10. \A n \in Nodes : P[n] = open[n] - Row(T, 0, NENTRY)[n]
  BY <1>3 DEF Minus
<1> QED BY <1>1, <1>2, <1>4, <1>8, <1>9, <1>10, GoneStep

\* The program is opened to be read, so no reference is lost.
LEMMA OpenToRead ==
    ASSUME NEW c, NEW R, NEW O, Good(c, R, O), c.st \in {"ok", "vop", "limit"}, Below(R, 0),
           NEW p, pwd[p] \in Dirs, Spare(R, O, pwd[p]), NEW path \in Paths
    PROVE  vfs_open(c, p, path, RDONLY).st # "E_EXISTS"
<1>1. ~RDONLY.trunc /\ ~RDONLY.creat
  BY DEF RDONLY
<1>2. PICK f, n, flags : f = vfs_lookup(c, p, path) /\ n = f.node /\ flags = RDONLY
  OBVIOUS
<1>3. vfs_open(c, p, path, flags) = OpenNode(f, flags) /\ ~flags.trunc /\ ~flags.creat
  BY <1>1, <1>2 DEF vfs_open
<1>4. Found(f, R, O)
  BY <1>2, LookupGood
<1>5. CASE f.st # "ok"
  <2>1. OpenNode(f, flags) = f
    BY <1>3, <1>5 DEF OpenNode, Ok
  <2>2. f.st # "E_EXISTS"
    BY <1>4 DEF Found
  <2> QED BY <1>2, <1>3, <2>1, <2>2
<1>6. CASE f.st = "ok" /\ ~MayOpen(n, flags)
  <2>1. PICK A, v, w : A = Up(R, n) /\ v = Vop(f, n, "open") /\ w = inode_ref_dec(v, n)
    OBVIOUS
  <2>2. OpenNode(f, flags) = Fail(w, "E_INVAL")
    BY <1>2, <1>3, <1>6, <2>1 DEF OpenNode, Ok
  <2>3. n \in Nodes /\ Good(f, A, O)
    BY <1>2, <1>4, <1>6, <2>1 DEF Found
  <2>4. Good(v, A, O) /\ v.st \in {"ok", "vop", "limit"}
    <3>1. Below(A, 1)
      BY <2>1, <2>3, BelowUp
    <3> QED BY <1>6, <2>1, <2>3, <3>1, VopGood DEF Same
  <2>5. Spare(A, O, n)
    BY <2>1, <2>3, UpSpare
  <2>6. A[n] > O[n] + Base(n)
    BY <2>5 DEF Spare
  <2>7. Good(w, Down(A, n), O) /\ w.st \in {"ok", "vop", "limit"}
    BY <2>1, <2>3, <2>4, <2>6, RefDec DEF Same
  <2>8. Fail(w, "E_INVAL").st # "E_EXISTS"
    <3>1. CASE w.st = "ok"
      <4>1. Fail(w, "E_INVAL") = [w EXCEPT !.st = "E_INVAL"]
        BY <3>1 DEF Fail, Ok
      <4>2. [w EXCEPT !.st = "E_INVAL"].st = "E_INVAL"
        BY <2>7, SetSt
      <4> QED BY <4>1, <4>2
    <3>2. CASE w.st # "ok"
      <4>1. Fail(w, "E_INVAL") = w
        BY <3>2 DEF Fail, Ok
      <4> QED BY <2>7, <4>1
    <3> QED BY <3>1, <3>2
  <2> QED BY <1>2, <1>3, <2>2, <2>8
<1>7. CASE f.st = "ok" /\ MayOpen(n, flags)
  <2>1. PICK A, v : A = Up(R, n) /\ v = Vop(f, n, "open")
    OBVIOUS
  <2>2. OpenNode(f, flags) = inode_open_inc(v, n)
    BY <1>2, <1>3, <1>7, <2>1 DEF OpenNode, Ok
  <2>3. n \in Nodes /\ Good(f, A, O)
    BY <1>2, <1>4, <1>7, <2>1 DEF Found
  <2>4. Good(v, A, O) /\ v.st \in {"ok", "vop", "limit"}
    <3>1. Below(A, 1)
      BY <2>1, <2>3, BelowUp
    <3> QED BY <1>7, <2>1, <2>3, <3>1, VopGood DEF Same
  <2>5. Spare(A, O, n)
    BY <2>1, <2>3, UpSpare
  <2>6. A[n] > O[n] + Base(n)
    BY <2>5 DEF Spare
  <2>7. inode_open_inc(v, n).st = v.st
    BY <2>3, <2>4, <2>6, OpenInc
  <2> QED BY <1>2, <1>3, <2>2, <2>4, <2>7
<1> QED BY <1>5, <1>6, <1>7

\* The rows of the descriptors that exec keeps and of those that it closes.
LEMMA RowHalves ==
    ASSUME NEW T, NEW n \in Nodes
    PROVE  /\ Row(T, 0, NENTRY)[n] = Row(T, 0, 2)[n] + Row(T, 2, NENTRY)[n]
           /\ Row(T, 0, 2)[n] \in Nat /\ Row(T, 2, NENTRY)[n] \in Nat /\ Row(T, 0, NENTRY)[n] \in Nat
<1>1. PICK a, b, e : a = 0 /\ b = 2 /\ e = NENTRY
  OBVIOUS
<1>2. a \in Nat /\ b \in Nat /\ e \in Nat /\ a <= b /\ b <= e
  BY <1>1, FilesAssumption
<1>3. Row(T, a, e)[n] = Row(T, a, b)[n] + Row(T, b, e)[n]
  BY <1>2, RowSplit
<1>4. Row(T, a, b) \in [Nodes -> Nat] /\ Row(T, b, e) \in [Nodes -> Nat] /\ Row(T, a, e) \in [Nodes -> Nat]
  BY <1>2, RowType
<1> QED BY <1>1, <1>3, <1>4

\* do_execve with the files closed and the program opened.
HasOpened(s, R, O) ==
    /\ s.st = "ok" => s.node \in Nodes /\ Good(s, Up(R, s.node), Up(O, s.node))
    /\ s.st \notin {"ok", "vop", "limit"} => Good(s, R, O)
    /\ \E Q, P : Good(s, Q, P)

LEMMA OpenedGood ==
    ASSUME Running, NEW p \in Procs, Enters(p), NEW path \in Paths, NEW T, T = fd_array[p],
           NEW A, A = Minus(ref, Row(T, 2, NENTRY)), NEW B, B = Minus(open, Row(T, 2, NENTRY))
    PROVE  HasOpened(Opened(p, path), A, B) /\ Spare(A, B, pwd[p]) /\ Balanced(A, B) /\ Below(A, 0)
<1>1. NodesInv /\ ProcsInv /\ CountsInv
  BY DEF Running
<1>2. PICK R, O, c, c1, o, s, d : /\ R = ref /\ O = open /\ c = Call /\ c1 = files_closeall(c, p) /\ d = pwd[p]
                                  /\ o = vfs_open(c1, p, path, RDONLY) /\ s = Seeked(o)
  OBVIOUS
<1>3. s = Opened(p, path)
  BY <1>2 DEF Opened
<1>4. /\ d \in Dirs /\ d \in Nodes /\ Spare(R, O, d) /\ IsTable(fd_array[p])
      /\ \A n \in Nodes : Row(T, 0, NENTRY)[n] \in Nat /\ Row(T, 0, NENTRY)[n] <= O[n]
  BY <1>1, <1>2, CallerFacts
<1>5. Good(c, R, O) /\ c.st = "ok" /\ R \in [Nodes -> Nat] /\ O \in [Nodes -> Nat] /\ Below(R, 0)
  BY <1>1, <1>2, CallGood DEF NodesInv, Balanced
<1>6. Good(c1, A, B) /\ c1.st \in {"ok", "vop", "limit"}
  <2>1. PICK first, end : first = 2 /\ end = NENTRY
    OBVIOUS
  <2>2. first \in 0..NENTRY /\ end \in 0..NENTRY /\ first <= end
    BY <2>1, FilesAssumption
  <2>3. \A n \in Nodes : Row(fd_array[p], first, end)[n] <= O[n]
    <3> SUFFICES ASSUME NEW n \in Nodes PROVE Row(T, 2, NENTRY)[n] <= O[n]
      BY <2>1
    <3>1. /\ Row(T, 0, NENTRY)[n] = Row(T, 0, 2)[n] + Row(T, 2, NENTRY)[n]
          /\ Row(T, 0, 2)[n] \in Nat /\ Row(T, 2, NENTRY)[n] \in Nat
      BY RowHalves
    <3>2. Row(T, 0, NENTRY)[n] <= O[n] /\ O[n] \in Nat
      BY <1>4, <1>5
    <3> QED BY <3>1, <3>2
  <2>4. /\ Good(CloseFiles(c, p, first, end),
                Minus(R, Row(fd_array[p], first, end)), Minus(O, Row(fd_array[p], first, end)))
        /\ Same(c, CloseFiles(c, p, first, end))
    <3>1. Below(R, 1)
      BY <1>4, <1>5, BelowUp
    <3> QED BY <1>4, <1>5, <2>2, <2>3, <3>1, CloseFilesGood
  <2>5. c1 = CloseFiles(c, p, first, end)
    BY <1>2, <2>1 DEF files_closeall
  <2>6. Good(c1, A, B)
    BY <1>2, <2>1, <2>4, <2>5
  <2>7. c1.st \in {"ok", "vop", "limit"}
    BY <1>5, <2>4, <2>5 DEF Same
  <2> QED BY <2>6, <2>7
<1>7. Balanced(A, B) /\ Below(A, 0)
  <2>1. Balanced(A, B)
    BY <1>6 DEF Good
  <2>2. A \in [Nodes -> Nat] /\ 0 \in Nat
    BY <2>1 DEF Balanced
  <2>3. ASSUME NEW n \in Nodes PROVE A[n] <= R[n]
    <3>1. A[n] = R[n] - Row(T, 2, NENTRY)[n]
      BY <1>2 DEF Minus
    <3>2. Row(T, 2, NENTRY)[n] \in Nat /\ R[n] \in Nat
      BY <1>5, RowHalves
    <3> QED BY <3>1, <3>2
  <2>4. Below(A, 0)
    BY <1>5, <2>2, <2>3, BelowLess
  <2> QED BY <2>1, <2>4
<1>8. Spare(A, B, d)
  <2>1. A[d] = R[d] - Row(T, 2, NENTRY)[d] /\ B[d] = O[d] - Row(T, 2, NENTRY)[d]
    BY <1>2, <1>4 DEF Minus
  <2>2. Row(T, 2, NENTRY)[d] \in Nat
    BY <1>4, RowHalves
  <2>3. R[d] \in Nat /\ O[d] \in Nat /\ Base(d) \in Nat /\ R[d] > O[d] + Base(d)
    BY <1>4, <1>5 DEF Spare, Base
  <2> QED BY <1>4, <2>1, <2>2, <2>3 DEF Spare
<1>9. Opening(o, A, B) /\ o.st # "E_EXISTS"
  <2>1. pwd[p] \in Dirs /\ Spare(A, B, pwd[p])
    BY <1>2, <1>4, <1>8
  <2>2. PICK flags : flags = RDONLY
    OBVIOUS
  <2>3. Opening(vfs_open(c1, p, path, flags), A, B)
    BY <1>6, <1>7, <2>1, OpenGood
  <2>4. vfs_open(c1, p, path, RDONLY).st # "E_EXISTS"
    BY <1>6, <1>7, <2>1, OpenToRead
  <2> QED BY <1>2, <2>2, <2>3, <2>4
<1>10. HasOpened(s, A, B)
  <2>1. CASE o.st # "ok"
    <3>1. s = o
      BY <1>2, <2>1 DEF Seeked, Ok
    <3> QED BY <1>9, <2>1, <3>1 DEF Opening, HasOpened
  <2>2. CASE o.st = "ok"
    <3>1. PICK n : n = o.node
      OBVIOUS
    <3>2. s = Vop(o, n, "tryseek")
      BY <1>2, <2>2, <3>1 DEF Seeked, Ok
    <3>3. n \in Nodes /\ Good(o, Up(A, n), Up(B, n))
      BY <1>9, <2>2, <3>1 DEF Opening
    <3>4. Good(s, Up(A, n), Up(B, n)) /\ s.node = n /\ s.st \in {"ok", "vop", "limit"}
      <4>1. Below(Up(A, n), 1)
        BY <1>7, <3>3, BelowUp
      <4> QED BY <2>2, <3>1, <3>2, <3>3, <4>1, VopGood DEF Same
    <3> QED BY <3>3, <3>4 DEF HasOpened
  <2> QED BY <2>1, <2>2
<1> QED BY <1>2, <1>3, <1>7, <1>8, <1>10

LEMMA KeptTable ==
    ASSUME NEW p, IsTable(fd_array[p]), NEW T, T = fd_array[p]
    PROVE  IsTable(Kept(p)) /\ \A n \in Nodes : Row(Kept(p), 0, NENTRY)[n] = Row(T, 0, 2)[n]
<1>1. PICK K : K = [fd \in Fds |-> IF fd < 2 THEN T[fd] ELSE None]
  OBVIOUS
<1>2. K = Kept(p)
  BY <1>1 DEF Kept
<1>3. T \in [Fds -> OpenFiles \cup {None}] /\ \A fd \in Fds : T[fd] # None => T[fd].open_count = 1
  BY DEF IsTable
<1>4. K \in [Fds -> OpenFiles \cup {None}] /\ \A fd \in Fds : K[fd] = IF fd < 2 THEN T[fd] ELSE None
  BY <1>1, <1>3
<1>5. IsTable(K)
  BY <1>3, <1>4 DEF IsTable
<1>6. ASSUME NEW n \in Nodes PROVE Row(K, 0, NENTRY)[n] = Row(T, 0, 2)[n]
  <2>1. Uses(K, 0, NENTRY, n) = Uses(T, 0, 2, n)
    <3>1. \A fd : fd \in 0..1 => fd \in Fds /\ fd < 2
      BY FilesAssumption DEF Fds
    <3>2. \A fd \in Fds : fd < 2 => fd \in 0..1
      BY FilesAssumption DEF Fds
    <3>3. \A fd : fd \in Uses(K, 0, NENTRY, n) => fd \in Uses(T, 0, 2, n)
      BY <1>4, <3>2 DEF Uses, Fds
    <3>4. \A fd : fd \in Uses(T, 0, 2, n) => fd \in Uses(K, 0, NENTRY, n)
      BY <1>4, <3>1 DEF Uses, Fds
    <3> QED BY <3>3, <3>4
  <2> QED BY <2>1 DEF Row
<1> QED BY <1>2, <1>5, <1>6

LEMMA ExecStep ==
    ASSUME Running, NEW p \in Procs, NEW path \in Paths, Exec(p, path)
    PROVE  StepKeeps
<1>1. NodesInv /\ ProcsInv /\ CountsInv /\ Enters(p)
  BY DEF Running, Exec
<1>2. PICK T, d, s, n, U, E : /\ T = fd_array[p] /\ d = pwd[p] /\ s = Opened(p, path) /\ n = s.node
                              /\ U = Kept(p) /\ E = Row(T, 2, NENTRY)
  OBVIOUS
<1>3. PICK R, O, A, B : R = ref /\ O = open /\ A = Minus(R, E) /\ B = Minus(O, E)
  OBVIOUS
<1>4. /\ \/ Failed(s) /\ Return(s)
         \/ Ok(s) /\ n \in RegFiles /\ Return(vfs_close(s, n))
      /\ fd_array' = [fd_array EXCEPT ![p] = U] /\ pwd' = pwd /\ leaked' = leaked /\ UNCHANGED <<alive, reading>>
  BY <1>2 DEF Exec
<1>5. HasOpened(s, A, B) /\ Balanced(A, B) /\ Below(A, 0)
  BY <1>1, <1>2, <1>3, OpenedGood
<1>6. CASE Failed(s) /\ Return(s)
  <2>1. PICK Q, P : Good(s, Q, P)
    BY <1>5 DEF HasOpened
  <2>2. s.st \in {"vop", "limit"}
    BY <1>6, <2>1 DEF Failed, Good, StOk
  <2> QED BY <1>6, <2>1, <2>2, Stopped
<1>7. CASE Ok(s) /\ Return(vfs_close(s, n))
  <2>1. PICK r : r = vfs_close(s, n)
    OBVIOUS
  <2>2. n \in Nodes /\ Good(s, Up(A, n), Up(B, n))
    BY <1>2, <1>5, <1>7 DEF HasOpened, Ok
  <2>3. A \in [Nodes -> Nat] /\ B \in [Nodes -> Nat]
    BY <1>5 DEF Balanced
  <2>4. PICK Y, Z : Y = Up(A, n) /\ Z = Up(B, n)
    OBVIOUS
  <2>5. Down(Y, n) = A /\ Down(Z, n) = B /\ Z[n] = B[n] + 1 /\ B[n] \in Nat
    BY <2>2, <2>3, <2>4, UpFacts
  <2>6. Good(s, Y, Z) /\ Z[n] > 0 /\ Below(Y, 1)
    BY <1>5, <2>2, <2>4, <2>5, BelowUp
  <2>7. Good(r, Down(Y, n), Down(Z, n))
    BY <2>1, <2>2, <2>6, CloseGood
  <2>8. Good(r, A, B)
    BY <2>5, <2>7
  <2>9. d \in Dirs /\ IsTable(fd_array[p])
    BY <1>1, <1>2, CallerFacts
  <2>10. IsTable(U) /\ \A m \in Nodes : Row(U, 0, NENTRY)[m] = Row(T, 0, 2)[m]
    BY <1>2, <2>9, KeptTable
  <2>11. Becomes(p, U, d)
    BY <1>1, <1>2, <1>4 DEF Becomes, ProcsInv
  <2>12. AddUp(A, B, p, U, d)
    <3> SUFFICES ASSUME NEW m \in Nodes
                 PROVE  /\ A[m] = ref[m] - Row(fd_array[p], 0, NENTRY)[m] + Row(U, 0, NENTRY)[m]
                                   - (IF pwd[p] = m THEN 1 ELSE 0) + (IF d = m THEN 1 ELSE 0)
                                   - leaked[m] + leaked'[m]
                        /\ B[m] = open[m] - Row(fd_array[p], 0, NENTRY)[m] + Row(U, 0, NENTRY)[m]
      BY DEF AddUp
    <3>1. PICK a, b, k, e, l : /\ a = Row(T, 0, NENTRY)[m] /\ b = Row(U, 0, NENTRY)[m] /\ k = E[m]
                               /\ e = (IF pwd[p] = m THEN 1 ELSE 0) /\ l = leaked[m]
      OBVIOUS
    <3>2. b = Row(T, 0, 2)[m]
      BY <2>10, <3>1
    <3>3. a = b + k /\ b \in Nat /\ k \in Nat /\ a \in Nat
      BY <1>2, <3>1, <3>2, RowHalves
    <3>4. e \in Nat /\ l \in Nat /\ R[m] \in Nat /\ O[m] \in Nat
      BY <1>1, <1>3, <3>1 DEF CountsInv, NodesInv, Balanced
    <3>5. A[m] = R[m] - k /\ B[m] = O[m] - k
      BY <1>3, <3>1 DEF Minus
    <3>6. A[m] = R[m] - a + b - e + e - l + l /\ B[m] = O[m] - a + b
      BY <3>3, <3>4, <3>5
    <3> QED BY <1>2, <1>3, <1>4, <3>1, <3>6
  <2>13. leaked' \in [Nodes -> Nat] /\ Return(r)
    BY <1>1, <1>4, <1>7, <2>1 DEF CountsInv
  <2> QED BY <1>1, <1>4, <2>8, <2>9, <2>10, <2>11, <2>12, <2>13, StayStep
<1> QED BY <1>4, <1>6, <1>7

LEMMA DestroyedGood ==
    ASSUME NEW p, IsTable(fd_array[p]), NEW T, T = fd_array[p], NEW d, d = pwd[p],
           NEW s, NEW Y, NEW Z, Good(s, Y, Z), Below(Y, 1), Spare(Y, Z, d), \A n \in Nodes : Row(T, 0, 2)[n] <= Z[n]
    PROVE  Good(Destroyed(s, p), Minus(Down(Y, d), Row(T, 0, 2)), Minus(Z, Row(T, 0, 2)))
<1>1. PICK s1, s2, first, end : /\ s1 = [s EXCEPT !.st = "ok"] /\ s2 = inode_ref_dec(s1, d)
                                /\ first = 0 /\ end = 2
  OBVIOUS
<1>2. Destroyed(s, p) = CloseFiles(s2, p, first, end)
  BY <1>1 DEF Destroyed
<1>3. Good(s1, Y, Z)
  BY <1>1, SetSt
<1>4. d \in Nodes /\ Y[d] > Z[d] + Base(d)
  BY DEF Spare
<1>5. Good(s2, Down(Y, d), Z)
  BY <1>1, <1>3, <1>4, RefDec
<1>6. PICK V : V = Down(Y, d)
  OBVIOUS
<1>7. first \in 0..NENTRY /\ end \in 0..NENTRY /\ first <= end
  BY <1>1, FilesAssumption
<1>8. Good(s2, V, Z) /\ Below(V, 1) /\ \A n \in Nodes : Row(fd_array[p], first, end)[n] <= Z[n]
  <2>1. Good(s2, V, Z)
    BY <1>5, <1>6
  <2>2. V \in [Nodes -> Nat] /\ Y \in [Nodes -> Nat] /\ 1 \in Nat
    BY <2>1 DEF Good, Balanced
  <2>3. \A n \in Nodes : V[n] <= Y[n]
    BY <1>4, <1>6, <2>2, DownFacts
  <2>4. Below(V, 1)
    BY <2>2, <2>3, BelowLess
  <2> QED BY <1>1, <2>1, <2>4
<1>9. Good(CloseFiles(s2, p, first, end), Minus(V, Row(fd_array[p], first, end)), Minus(Z, Row(fd_array[p], first, end)))
  BY <1>7, <1>8, CloseFilesGood
<1> QED BY <1>1, <1>2, <1>6, <1>9

LEMMA ExecFailsStep ==
    ASSUME Running, NEW p \in Procs, NEW path \in Paths, ExecFails(p, path)
    PROVE  StepKeeps
<1>1. NodesInv /\ ProcsInv /\ CountsInv /\ Enters(p) /\ Gone(p)
  BY DEF Running, ExecFails
<1>2. PICK T, d, s, n, E, F : /\ T = fd_array[p] /\ d = pwd[p] /\ s = Opened(p, path) /\ n = s.node
                              /\ E = Row(T, 2, NENTRY) /\ F = Row(T, 0, 2)
  OBVIOUS
<1>3. PICK R, O, A, B, g : R = ref /\ O = open /\ A = Minus(R, E) /\ B = Minus(O, E) /\ g = Destroyed(s, p)
  OBVIOUS
<1>4. \/ Ok(s) /\ Return(vfs_close(g, n))
      \/ ~Ok(s) /\ ~Failed(s) /\ Return(g)
  BY <1>2, <1>3 DEF ExecFails
<1>5. HasOpened(s, A, B) /\ Spare(A, B, d) /\ Balanced(A, B) /\ Below(A, 0)
  BY <1>1, <1>2, <1>3, OpenedGood
<1>6. /\ d \in Nodes /\ IsTable(fd_array[p])
      /\ \A m \in Nodes : Row(T, 0, NENTRY)[m] \in Nat /\ Row(T, 0, NENTRY)[m] <= O[m]
  BY <1>1, <1>2, <1>3, CallerFacts
<1>7. A \in [Nodes -> Nat] /\ B \in [Nodes -> Nat] /\ R \in [Nodes -> Nat] /\ O \in [Nodes -> Nat]
  BY <1>1, <1>3, <1>5 DEF Balanced, NodesInv
<1>8. ASSUME NEW m \in Nodes
      PROVE  /\ E[m] \in Nat /\ F[m] \in Nat /\ Row(T, 0, NENTRY)[m] = F[m] + E[m]
             /\ A[m] = R[m] - E[m] /\ B[m] = O[m] - E[m] /\ F[m] <= B[m]
  <2>1. E[m] \in Nat /\ F[m] \in Nat /\ Row(T, 0, NENTRY)[m] = F[m] + E[m]
    BY <1>2, RowHalves
  <2>2. A[m] = R[m] - E[m] /\ B[m] = O[m] - E[m]
    BY <1>3 DEF Minus
  <2>3. F[m] <= B[m]
    BY <1>6, <1>7, <2>1, <2>2
  <2> QED BY <2>1, <2>2, <2>3
<1>9. CASE Ok(s) /\ Return(vfs_close(g, n))
  <2>1. PICK Y, Z, r : Y = Up(A, n) /\ Z = Up(B, n) /\ r = vfs_close(g, n)
    OBVIOUS
  <2>2. n \in Nodes /\ Good(s, Y, Z) /\ Below(Y, 1)
    BY <1>2, <1>5, <1>9, <2>1, BelowUp DEF HasOpened, Ok
  <2>3. /\ Y \in [Nodes -> Nat] /\ Z \in [Nodes -> Nat]
        /\ \A m \in Nodes : /\ Y[m] = IF m = n THEN A[m] + 1 ELSE A[m]
                            /\ Z[m] = IF m = n THEN B[m] + 1 ELSE B[m]
    BY <1>7, <2>1, <2>2, UpFacts
  <2>4. Spare(Y, Z, d)
    <3>1. A[d] > B[d] + Base(d) /\ A[d] \in Nat /\ B[d] \in Nat /\ Base(d) \in Nat
      BY <1>5, <1>6, <1>7 DEF Spare, Base
    <3>2. Y[d] > Z[d] + Base(d)
      BY <1>6, <2>3, <3>1
    <3> QED BY <1>6, <3>2 DEF Spare
  <2>5. \A m \in Nodes : Row(T, 0, 2)[m] <= Z[m]
    <3> SUFFICES ASSUME NEW m \in Nodes PROVE F[m] <= Z[m]
      BY <1>2
    <3>1. F[m] \in Nat /\ B[m] \in Nat /\ F[m] <= B[m]
      BY <1>7, <1>8
    <3> QED BY <2>3, <3>1
  <2>6. PICK V, Q, P : V = Down(Y, d) /\ Q = Minus(V, F) /\ P = Minus(Z, F)
    OBVIOUS
  <2>7. Good(g, Q, P)
    BY <1>2, <1>3, <1>6, <2>2, <2>4, <2>5, <2>6, DestroyedGood
  <2>8. \A m \in Nodes : Q[m] = V[m] - F[m] /\ P[m] = Z[m] - F[m]
    BY <2>6 DEF Minus
  <2>9. \A m \in Nodes : V[m] = IF m = d THEN Y[m] - 1 ELSE Y[m]
    BY <1>6, <2>3, <2>6, DownFacts
  <2>10. P[n] > 0
    <3>1. P[n] = Z[n] - F[n] /\ Z[n] = B[n] + 1 /\ F[n] <= B[n] /\ F[n] \in Nat /\ B[n] \in Nat
      BY <1>7, <1>8, <2>2, <2>3, <2>8
    <3> QED BY <3>1
  <2>11. Good(r, Down(Q, n), Down(P, n))
    <3>1. Q \in [Nodes -> Nat] /\ 1 \in Nat
      BY <2>7 DEF Good, Balanced
    <3>2. \A m \in Nodes : F[m] \in Nat
      BY <1>8
    <3>3. \A m \in Nodes : Q[m] <= Y[m]
      BY <2>3, <2>8, <2>9, <3>2
    <3>4. Below(Q, 1)
      BY <2>2, <3>1, <3>3, BelowLess
    <3> QED BY <2>1, <2>2, <2>7, <2>10, <3>4, CloseGood
  <2>12. PICK Q1, P1 : Q1 = Down(Q, n) /\ P1 = Down(P, n)
    OBVIOUS
  <2>13. Q \in [Nodes -> Nat] /\ P \in [Nodes -> Nat]
    BY <2>7 DEF Good, Balanced
  <2>14. \A m \in Nodes : /\ Q1[m] = IF m = n THEN Q[m] - 1 ELSE Q[m]
                          /\ P1[m] = IF m = n THEN P[m] - 1 ELSE P[m]
    BY <2>2, <2>12, <2>13, DownFacts
  <2>15. \A m \in Nodes : Q1[m] = ref[m] - Row(T, 0, NENTRY)[m] - (IF d = m THEN 1 ELSE 0)
    <3> SUFFICES ASSUME NEW m \in Nodes PROVE Q1[m] = R[m] - Row(T, 0, NENTRY)[m] - (IF d = m THEN 1 ELSE 0)
      BY <1>3
    <3>1. Row(T, 0, NENTRY)[m] = F[m] + E[m] /\ E[m] \in Nat /\ F[m] \in Nat /\ R[m] \in Nat /\ A[m] = R[m] - E[m]
      BY <1>7, <1>8
    <3>2. /\ Q1[m] = (IF m = n THEN Q[m] - 1 ELSE Q[m]) /\ Q[m] = V[m] - F[m]
          /\ V[m] = (IF m = d THEN Y[m] - 1 ELSE Y[m]) /\ Y[m] = (IF m = n THEN A[m] + 1 ELSE A[m])
      BY <2>3, <2>8, <2>9, <2>14
    <3> QED BY <3>1, <3>2
  <2>16. \A m \in Nodes : P1[m] = open[m] - Row(T, 0, NENTRY)[m]
    <3> SUFFICES ASSUME NEW m \in Nodes PROVE P1[m] = O[m] - Row(T, 0, NENTRY)[m]
      BY <1>3
    <3>1. Row(T, 0, NENTRY)[m] = F[m] + E[m] /\ E[m] \in Nat /\ F[m] \in Nat /\ O[m] \in Nat /\ B[m] = O[m] - E[m]
      BY <1>7, <1>8
    <3>2. /\ P1[m] = (IF m = n THEN P[m] - 1 ELSE P[m]) /\ P[m] = Z[m] - F[m]
          /\ Z[m] = (IF m = n THEN B[m] + 1 ELSE B[m])
      BY <2>3, <2>8, <2>14
    <3> QED BY <3>1, <3>2
  <2>17. Good(r, Q1, P1) /\ Return(r)
    BY <1>9, <2>1, <2>11, <2>12
  <2> QED BY <1>1, <1>2, <2>15, <2>16, <2>17, GoneStep
<1>10. CASE ~Ok(s) /\ ~Failed(s) /\ Return(g)
  <2>1. Good(s, A, B) /\ Below(A, 1)
    <3>1. Good(s, A, B)
      BY <1>5, <1>10 DEF HasOpened, Ok, Failed
    <3> QED BY <1>5, <1>6, <3>1, BelowUp
  <2>2. PICK V, Q, P : V = Down(A, d) /\ Q = Minus(V, F) /\ P = Minus(B, F)
    OBVIOUS
  <2>3. \A m \in Nodes : Row(T, 0, 2)[m] <= B[m]
    BY <1>2, <1>8
  <2>4. Good(g, Q, P)
    BY <1>2, <1>3, <1>5, <1>6, <2>1, <2>2, <2>3, DestroyedGood
  <2>5. \A m \in Nodes : Q[m] = V[m] - F[m] /\ P[m] = B[m] - F[m]
    BY <2>2 DEF Minus
  <2>6. \A m \in Nodes : V[m] = IF m = d THEN A[m] - 1 ELSE A[m]
    BY <1>6, <1>7, <2>2, DownFacts
  <2>7. \A m \in Nodes : Q[m] = ref[m] - Row(T, 0, NENTRY)[m] - (IF d = m THEN 1 ELSE 0)
    <3> SUFFICES ASSUME NEW m \in Nodes PROVE Q[m] = R[m] - Row(T, 0, NENTRY)[m] - (IF d = m THEN 1 ELSE 0)
      BY <1>3
    <3>1. Row(T, 0, NENTRY)[m] = F[m] + E[m] /\ E[m] \in Nat /\ F[m] \in Nat /\ R[m] \in Nat /\ A[m] = R[m] - E[m]
      BY <1>7, <1>8
    <3> QED BY <2>5, <2>6, <3>1
  <2>8. \A m \in Nodes : P[m] = open[m] - Row(T, 0, NENTRY)[m]
    <3> SUFFICES ASSUME NEW m \in Nodes PROVE P[m] = O[m] - Row(T, 0, NENTRY)[m]
      BY <1>3
    <3>1. Row(T, 0, NENTRY)[m] = F[m] + E[m] /\ E[m] \in Nat /\ F[m] \in Nat /\ O[m] \in Nat /\ B[m] = O[m] - E[m]
      BY <1>7, <1>8
    <3> QED BY <2>5, <3>1
  <2> QED BY <1>1, <1>2, <1>10, <2>4, <2>7, <2>8, GoneStep
<1> QED BY <1>4, <1>9, <1>10

-----------------------------------------------------------------------------
LEMMA FilesInit == Init => FilesInv
<1> SUFFICES ASSUME Init PROVE FilesInv
  OBVIOUS
<1>1. PICK R, O : R = ref /\ O = open
  OBVIOUS
<1>2. /\ R \in [Nodes -> Nat] /\ O \in [Nodes -> Nat]
      /\ \A n \in Nodes : R[n] = (IF n = Root THEN 2 ELSE IF n \in Devs THEN 1 ELSE 0) /\ O[n] = 0
  BY <1>1 DEF Init
<1>3. Root \in Nodes /\ Root \in SfsNodes /\ Root \notin Devs /\ \A n \in SfsNodes : n \in Nodes /\ n \notin Devs
  BY FilesAssumption DEF Nodes, SfsNodes
<1>4. NodesInv
  <2>1. \A n \in Nodes : R[n] >= O[n] + Base(n)
    BY <1>2 DEF Base
  <2>2. InCore(R) = {Root}
    BY <1>2, <1>3 DEF InCore
  <2>3. incore = {Root}
    BY DEF Init
  <2> QED BY <1>1, <1>2, <2>1, <2>2, <2>3 DEF NodesInv, Balanced
<1>5. /\ fd_array = [p \in Procs |-> EmptyTable] /\ pwd = [p \in Procs |-> IF p = InitProc THEN Root ELSE None]
      /\ alive = {InitProc} /\ reading = [p \in Procs |-> None] /\ leaked = [n \in Nodes |-> 0] /\ panic = "no"
  BY DEF Init
<1>6. EmptyTable \in Tables /\ \A fd \in Fds : EmptyTable[fd] = None
  BY DEF EmptyTable, Tables
<1>7. ProcsInv
  BY <1>5, <1>6, FilesAssumption DEF ProcsInv, Procs
<1>8. CountsInv
  <2>1. ASSUME NEW n \in Nodes
        PROVE  /\ ref[n] = Cardinality(DescriptorsIn(fd_array, n)) + Cardinality(WorkingIn(pwd, n)) + Base(n) + leaked[n]
               /\ open[n] = Cardinality(DescriptorsIn(fd_array, n))
    <3>1. DescriptorsIn(fd_array, n) = {}
      <4>1. \A x \in Procs \X Fds : fd_array[x[1]][x[2]] = None
        BY <1>5, <1>6
      <4> QED BY <4>1 DEF DescriptorsIn
    <3>2. WorkingIn(pwd, n) = IF n = Root THEN {InitProc} ELSE {}
      BY <1>5, FilesAssumption DEF WorkingIn, Procs
    <3>3. Cardinality({}) = 0 /\ Cardinality({InitProc}) = 1
      BY FS_EmptySet, FS_Singleton
    <3>4. Cardinality(DescriptorsIn(fd_array, n)) = 0
      BY <3>1, <3>3
    <3>5. Cardinality(WorkingIn(pwd, n)) = IF n = Root THEN 1 ELSE 0
      BY <3>2, <3>3
    <3>6. leaked[n] = 0 /\ ref[n] = (IF n = Root THEN 2 ELSE IF n \in Devs THEN 1 ELSE 0) /\ open[n] = 0
      BY <1>1, <1>2, <1>5
    <3> QED BY <1>3, <3>4, <3>5, <3>6 DEF Base
  <2>2. leaked \in [Nodes -> Nat]
    BY <1>5
  <2> QED BY <2>1, <2>2 DEF CountsInv
<1>9. \A n \in Devs : ref[n] > 0
  BY <1>1, <1>2, <1>3 DEF Nodes
<1> QED BY <1>4, <1>5, <1>7, <1>8, <1>9 DEF FilesInv

LEMMA FilesStep ==
    ASSUME FilesInv, [Next]_vars
    PROVE  FilesInv' /\ (panic = "no" /\ panic' = "limit" => AtLimit)
<1>1. CASE UNCHANGED vars
  <2>1. /\ ref' = ref /\ open' = open /\ incore' = incore /\ fd_array' = fd_array /\ pwd' = pwd
        /\ alive' = alive /\ reading' = reading /\ leaked' = leaked /\ panic' = panic
    BY <1>1 DEF vars, nodeVars
  <2>2. NodesInv => NodesInv'
    BY <2>1 DEF NodesInv, Balanced, InCore
  <2>3. ProcsInv => ProcsInv'
    BY <2>1 DEF ProcsInv
  <2>4. CountsInv => CountsInv'
    BY <2>1 DEF CountsInv, DescriptorsIn, WorkingIn
  <2>5. (panic # "count" /\ \A n \in Devs : ref[n] > 0)
          => (panic' # "count" /\ \A n \in Devs : ref'[n] > 0)
    BY <2>1
  <2> QED BY <2>1, <2>2, <2>3, <2>4, <2>5 DEF FilesInv
<1>2. ASSUME panic = "no" PROVE Running
  BY <1>2 DEF FilesInv, Running
<1>3. ASSUME NEW p \in Procs, NEW q \in Users, Fork(p, q) PROVE StepKeeps
  BY <1>2, <1>3, ForkStep DEF Fork, Enters
<1>4. ASSUME NEW p \in Users, NEW path \in Paths, NEW flags \in OpenFlags, Open(p, path, flags) PROVE StepKeeps
  BY <1>2, <1>4, OpenStep DEF Open, Enters, Procs
<1>5. ASSUME NEW p \in Users, NEW path \in Paths, Chdir(p, path) PROVE StepKeeps
  BY <1>2, <1>5, ChdirStep DEF Chdir, Enters, Procs
<1>6. ASSUME NEW p \in Users, NEW path \in Paths, Exec(p, path) PROVE StepKeeps
  BY <1>2, <1>6, ExecStep DEF Exec, Enters, Procs
<1>7. ASSUME NEW p \in Users, NEW path \in Paths, ExecFails(p, path) PROVE StepKeeps
  BY <1>2, <1>7, ExecFailsStep DEF ExecFails, Enters, Procs
<1>8. ASSUME NEW p \in Users, NEW fd \in Fds, Close(p, fd) PROVE StepKeeps
  BY <1>2, <1>8, CloseStep DEF Close, Enters, Procs
<1>9. ASSUME NEW p \in Users, NEW fd \in Fds, NEW to \in Fds, Dup(p, fd, to) PROVE StepKeeps
  BY <1>2, <1>9, DupStep DEF Dup, Enters, Procs
<1>10. ASSUME NEW p \in Users, NEW fd \in Fds, ReadBegin(p, fd) PROVE StepKeeps
  BY <1>2, <1>10, ReadBeginStep DEF ReadBegin, Enters, Procs
<1>11. ASSUME NEW p \in Users, NEW fd \in Fds, NEW op, FileOp(p, fd, op) PROVE StepKeeps
  BY <1>2, <1>11, FileOpStep DEF FileOp, Enters, Procs
<1>12. ASSUME NEW p \in Users, ReadEnd(p) PROVE StepKeeps
  BY <1>2, <1>12, ReadEndStep DEF ReadEnd, Procs
<1>13. ASSUME NEW p \in Users, NEW room \in 0..1, Getcwd(p, room) PROVE StepKeeps
  BY <1>2, <1>13, GetcwdStep DEF Getcwd, Enters, Procs
<1>14. ASSUME NEW p \in Users, Exit(p) PROVE StepKeeps
  BY <1>2, <1>14, ExitStep DEF Exit, Enters, Procs
<1>15. CASE Halted
  BY <1>1, <1>15 DEF Halted
<1>16. SUFFICES ASSUME ~(UNCHANGED vars \/ Halted) PROVE StepKeeps
  BY <1>1, <1>15 DEF StepKeeps
<1> QED BY <1>16, <1>3, <1>4, <1>5, <1>6, <1>7, <1>8, <1>9, <1>10, <1>11, <1>12, <1>13, <1>14 DEF Next

LEMMA FilesInvImplies == FilesInv => CountsExact
<1> SUFFICES ASSUME FilesInv PROVE CountsExact
  OBVIOUS
<1>1. panic # "count" /\ \A n \in Devs : ref[n] > 0
  BY DEF FilesInv
<1>2. ASSUME panic = "no"
      PROVE  /\ \A n \in Nodes : ref[n] = Holders(n) + leaked[n] /\ open[n] = Cardinality(Descriptors(n))
             /\ incore = {n \in SfsNodes : ref[n] > 0}
  <2>1. NodesInv /\ CountsInv
    BY <1>2 DEF FilesInv
  <2>2. \A n \in Nodes : Descriptors(n) = DescriptorsIn(fd_array, n) /\ {p \in Procs : pwd[p] = n} = WorkingIn(pwd, n)
    BY DEF Descriptors, DescriptorsIn, WorkingIn
  <2>3. \A n \in Nodes : Holders(n) = Cardinality(DescriptorsIn(fd_array, n)) + Cardinality(WorkingIn(pwd, n)) + Base(n)
    BY <2>2 DEF Holders, Base
  <2>4. \A n \in Nodes : ref[n] = Holders(n) + leaked[n] /\ open[n] = Cardinality(Descriptors(n))
    BY <2>1, <2>2, <2>3 DEF CountsInv
  <2>5. incore = {n \in SfsNodes : ref[n] > 0}
    BY <2>1 DEF NodesInv, InCore
  <2> QED BY <2>4, <2>5
<1> QED BY <1>1, <1>2 DEF CountsExact

\* Whatever files are opened, closed, duplicated, read and looked up, whatever
\* processes fork, exec and exit, however often an open fails: the counts of an
\* inode are those of the descriptors, working directories, file system and device
\* list that hold it, and of the references that vfs_open loses; no assertion on
\* the balance of counts fails (inode_check, inode_ref_dec, inode_open_dec,
\* inode_kill, fd_array_close), and the limit of inode_check stops the system only
\* when an inode has MAX_INODE_COUNT - 1 references.
THEOREM RefsAreExact == Spec => RefsExact
<1>1. FilesInv /\ [Next]_vars => FilesInv' /\ [panic = "no" /\ panic' = "limit" => AtLimit]_vars
  BY FilesStep
<1>2. Spec => []CountsExact
  BY <1>1, FilesInit, FilesInvImplies, PTL DEF Spec
<1>3. Spec => [][panic = "no" /\ panic' = "limit" => AtLimit]_vars
  BY <1>1, FilesInit, PTL DEF Spec
<1>4. /\ CountsExact /\ CountsExact'
      /\ [panic = "no" /\ panic' = "limit" => AtLimit]_vars
      => [/\ CountsExact /\ CountsExact'
          /\ panic = "no" /\ panic' = "limit" => AtLimit]_vars
  OBVIOUS
<1> QED BY <1>2, <1>3, <1>4, PTL DEF RefsExact
=============================================================================
