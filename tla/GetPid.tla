------------------------------- MODULE GetPid --------------------------------
(***************************************************************************)
(* get_pid of kern/process/proc.c: the pid of a new process.                *)
(*                                                                          *)
(* Two static variables survive from call to call.  last_pid is the pid     *)
(* handed out last; next_safe is a bound below which no live process has a  *)
(* pid greater than last_pid, so that most calls need not look at the list  *)
(* of processes.  The loop over the list is one step per iteration.         *)
(*                                                                          *)
(* do_fork calls get_pid, links the process in and releases interrupts, so  *)
(* no other call comes in between; do_wait unlinks a reaped process between *)
(* two calls.                                                               *)
(***************************************************************************)
EXTENDS Integers, Sequences, SequencesExt

CONSTANTS MAX_PROCESS, MAX_PID

\* static_assert(MAX_PID > MAX_PROCESS)
ASSUME PidAssumption ==
    /\ MAX_PROCESS \in Nat \ {0}
    /\ MAX_PID \in Nat
    /\ MAX_PID > MAX_PROCESS

VARIABLES
    proc_list,    \* the pids on proc_list, newest process first; idle is not on it
    last_pid,     \* the static variables of get_pid
    next_safe,
    le            \* the loop's position in proc_list, 0 outside get_pid

pidVars == <<proc_list, last_pid, next_safe, le>>

Pids == 1..(MAX_PID - 1)

\* The process with the pid found is hashed and linked in.
Link(pid) == proc_list' = <<pid>> \o proc_list

-----------------------------------------------------------------------------
\* do_fork's check of nr_process, which counts idle.
MayFork == le = 0 /\ Len(proc_list) + 1 < MAX_PROCESS

\* The next pid is below next_safe: it is free, without a look at the list.
Fast ==
    /\ MayFork
    /\ last_pid + 1 < MAX_PID /\ last_pid + 1 < next_safe
    /\ last_pid' = last_pid + 1
    /\ Link(last_pid + 1)
    /\ UNCHANGED <<next_safe, le>>

\* Otherwise the scan starts, from 1 if the pids are used up.
Inside ==
    /\ MayFork
    /\ last_pid + 1 >= MAX_PID \/ last_pid + 1 >= next_safe
    /\ last_pid' = IF last_pid + 1 >= MAX_PID THEN 1 ELSE last_pid + 1
    /\ next_safe' = MAX_PID
    /\ le' = 1
    /\ UNCHANGED proc_list

\* Fault: every restart goes back to 1, not only the one past MAX_PID.
ScanTakenFromOne ==
    /\ le \in 1..Len(proc_list)
    /\ proc_list[le] = last_pid
    /\ IF last_pid + 1 >= next_safe
       THEN last_pid' = 1 /\ next_safe' = MAX_PID /\ le' = 1
       ELSE last_pid' = last_pid + 1 /\ le' = le + 1 /\ UNCHANGED next_safe
    /\ UNCHANGED proc_list

\* The candidate is taken: try the next one, and start over if that one may be
\* among the pids seen already.
ScanTaken ==
    /\ le \in 1..Len(proc_list)
    /\ proc_list[le] = last_pid
    /\ IF last_pid + 1 >= next_safe
       THEN /\ last_pid' = IF last_pid + 1 >= MAX_PID THEN 1 ELSE last_pid + 1
            /\ next_safe' = MAX_PID
            /\ le' = 1
       ELSE /\ last_pid' = last_pid + 1
            /\ le' = le + 1
            /\ UNCHANGED next_safe
    /\ UNCHANGED proc_list

\* Fault: the safe range is never narrowed.
ScanOtherIgnored ==
    /\ le \in 1..Len(proc_list)
    /\ proc_list[le] # last_pid
    /\ le' = le + 1
    /\ UNCHANGED <<proc_list, last_pid, next_safe>>

\* Another pid: the nearest one above the candidate bounds the safe range.
ScanOther ==
    /\ le \in 1..Len(proc_list)
    /\ proc_list[le] # last_pid
    /\ next_safe' = IF proc_list[le] > last_pid /\ next_safe > proc_list[le]
                    THEN proc_list[le] ELSE next_safe
    /\ le' = le + 1
    /\ UNCHANGED <<proc_list, last_pid>>

ScanDone ==
    /\ le = Len(proc_list) + 1
    /\ Link(last_pid)
    /\ le' = 0
    /\ UNCHANGED <<last_pid, next_safe>>

\* Fault: the list is cut at the process reaped.
ReapCutsList ==
    /\ le = 0
    /\ \E i \in 1..Len(proc_list) : proc_list' = SubSeq(proc_list, 1, i - 1)
    /\ UNCHANGED <<last_pid, next_safe, le>>

\* do_wait reaps a process: remove_links.
Reap ==
    /\ le = 0
    /\ \E i \in 1..Len(proc_list) : proc_list' = RemoveAt(proc_list, i)
    /\ UNCHANGED <<last_pid, next_safe, le>>

-----------------------------------------------------------------------------
PidInit ==
    /\ proc_list = <<>>
    /\ last_pid = MAX_PID
    /\ next_safe = MAX_PID
    /\ le = 0

Scan == ScanTaken \/ ScanOther \/ ScanDone

PidNext == Fast \/ Inside \/ Scan \/ Reap

PidSpec == PidInit /\ [][PidNext]_pidVars

\* The loop runs with interrupts disabled: nothing keeps it from its next step.
PidFairSpec == PidSpec /\ WF_pidVars(Scan)

-----------------------------------------------------------------------------
\* The pids are in range and the loop of get_pid stays within the list: pid 0 is
\* idle's and MAX_PID is never given out.
PidTypeOK ==
    /\ proc_list \in Seq(Pids)
    /\ last_pid \in 1..MAX_PID
    /\ next_safe \in 1..MAX_PID
    /\ le \in 0..(Len(proc_list) + 1)

\* No two live processes have the same pid, after any history of forks and
\* exits, wrap-arounds of last_pid and calls that trusted next_safe.
PidsUnique ==
    \A i, j \in 1..Len(proc_list) : proc_list[i] = proc_list[j] => i = j

\* The scan ends: MAX_PID > MAX_PROCESS leaves a free pid, and a candidate that
\* starts the scan over is never tried again before the others.
GetPidReturns == le # 0 ~> le = 0

\* get_pid implements the allocation of a free pid.
Abstract == INSTANCE PidAlloc WITH live <- Range(proc_list)
Implements == Abstract!Spec
=============================================================================
