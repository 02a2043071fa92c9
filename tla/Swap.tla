--------------------------------- MODULE Swap ---------------------------------
(***************************************************************************)
(* Page replacement: kern/mm/swap.c, swap_fifo.c and swapfs.c, with the     *)
(* page faults that use it (do_pgfault, pgdir_alloc_page).                  *)
(*                                                                          *)
(* The kernel replaces pages only while check_mm_struct is set, which is    *)
(* within check_swap, at boot.  check_swap hides the free list, leaves the  *)
(* allocator the N pages check_rp, and accesses N + 1 virtual pages.  Its   *)
(* accesses are the script of _fifo_check_swap or, as the replacement does  *)
(* not depend on them, any others until MaxFaults faults have been taken.   *)
(* The disk may fail MaxErrors times (ide_read_secs, ide_write_secs).       *)
(*                                                                          *)
(* A page holds one word; a write changes it.  Kernel code is not           *)
(* preempted: a step is one call, but for free_pages (see Pmm).             *)
(***************************************************************************)
EXTENDS Pmm

CONSTANTS
    N,              \* CHECK_VALID_PHY_PAGE_NUM
    FifoScript,     \* _fifo_check_swap: virtual page and pgfault_num expected
    MaxFaults,
    MaxErrors

VPages == 1..(N + 1)

ASSUME SwapAssumption ==
    /\ N \in Nat \ {0} /\ MaxFaults \in Nat /\ MaxErrors \in Nat
    /\ FifoScript \in Seq(VPages \X Nat)

VARIABLES
    phase,          \* where check_swap is
    check_rp,       \* its pages
    pt,             \* the page of the page table
    store,          \* free_list_store, nr_free_store
    pte,            \* the page table: [at, n], at "none", "page" or "swap"
    pra_list,       \* pra_list_head: the next victim is the last
    pra_vaddr,      \* page->pra_vaddr
    pgfault_num,
    mem,            \* the word in each page
    disk,           \* and in each slot of the swap device
    todo,           \* what is left of the script, or of the pages to free
    fault,          \* the virtual page do_pgfault is about, or 0
    errors,         \* how often the disk has failed
    word,           \* history: what was last written to a virtual page
    loads           \* history: the virtual pages loaded, in order

tableVars == <<pte, pra_list, pra_vaddr, mem, disk>>
swapVars == <<phase, check_rp, pt, store, tableVars, pgfault_num, todo, fault, errors, word, loads>>

Slot(v) == v + 1
Absent == [at |-> "none", n |-> 0]
InPage(p) == [at |-> "page", n |-> p]
OnDisk(s) == [at |-> "swap", n |-> s]

\* What a page or a slot holds that was never written.
Garbage == 2

SwapInit ==
    /\ phase = "boot"
    /\ check_rp = <<>> /\ pt = 0 /\ store = [list |-> <<>>, nr |-> 0]
    /\ pte = [v \in VPages |-> Absent]
    /\ pra_list = <<>>
    /\ pra_vaddr = [p \in Pages |-> 0]
    /\ pgfault_num = 0
    /\ mem = [p \in Pages |-> Garbage]
    /\ disk = [s \in {Slot(v) : v \in VPages} |-> Garbage]
    /\ todo = <<>> /\ fault = 0 /\ errors = 0
    /\ word = [v \in VPages |-> Garbage]
    /\ loads = <<>>

-----------------------------------------------------------------------------
\* check_swap up to its first alloc_page, the one of get_pte.
CheckBegin ==
    /\ phase = "boot"
    /\ Alloc(1)
    /\ pt' = FirstFitPage(1)
    /\ phase' = "take"
    /\ UNCHANGED <<check_rp, store, tableVars, pgfault_num, todo, fault, errors, word, loads>>

TakePage ==
    /\ phase = "take" /\ Len(check_rp) < N
    /\ Alloc(1)
    /\ check_rp' = Append(check_rp, FirstFitPage(1))
    /\ UNCHANGED <<phase, pt, store, tableVars, pgfault_num, todo, fault, errors, word, loads>>

HideFree ==
    /\ phase = "take" /\ Len(check_rp) = N
    /\ store' = [list |-> free_list, nr |-> nr_free]
    /\ free_list' = <<>> /\ nr_free' = 0
    /\ phase' = "give" /\ todo' = check_rp
    /\ UNCHANGED <<property, pg_property, held, op, failed, panic>>
    /\ UNCHANGED <<check_rp, pt, tableVars, pgfault_num, fault, errors, word, loads>>

\* free_pages(check_rp[i], 1), before and after the accesses.
GivePage ==
    /\ phase \in {"give", "restore"} /\ todo # <<>>
    /\ FreeBegin(Head(todo), 1)
    /\ todo' = Tail(todo)
    /\ UNCHANGED <<phase, check_rp, pt, store, tableVars, pgfault_num, fault, errors, word, loads>>

\* The accesses of check_content_set: each page twice.
SetScript == [i \in 1..(2 * N) |-> <<(i + 1) \div 2, (i + 1) \div 2>>]

\* The accesses of _fifo_check_swap, to its N + 1 = 5 pages, and the page faults
\* that it asserts after each.
CodeScript ==
    <<<<3, 4>>, <<1, 4>>, <<4, 4>>, <<2, 4>>, <<5, 5>>, <<2, 5>>, <<1, 6>>, <<2, 7>>,
      <<3, 8>>, <<4, 9>>, <<5, 10>>, <<1, 11>>>>

SetBegin ==
    /\ phase = "give" /\ todo = <<>> /\ op = Idle
    /\ Assert_(nr_free = N)
    /\ phase' = "set" /\ todo' = SetScript /\ pgfault_num' = 0
    /\ UNCHANGED <<pageVars, held, op, failed>>
    /\ UNCHANGED <<check_rp, pt, store, tableVars, fault, errors, word, loads>>

SetDone ==
    /\ phase = "set" /\ todo = <<>>
    /\ Assert_(nr_free = 0 /\ \A i \in 1..N : pte[i] = InPage(check_rp[i]))
    /\ \/ phase' = "access" /\ todo' = FifoScript
       \/ phase' = "any" /\ UNCHANGED todo
    /\ UNCHANGED <<pageVars, held, op, failed>>
    /\ UNCHANGED <<check_rp, pt, store, tableVars, pgfault_num, fault, errors, word, loads>>

\* The pages are freed while they are mapped; then the page of the table.
AccessDone ==
    /\ phase \in {"access", "any"} /\ fault = 0 /\ todo = <<>>
    /\ phase' = "restore" /\ todo' = Append(check_rp, pt)
    /\ UNCHANGED <<pageVars, held, op, failed, panic>>
    /\ UNCHANGED <<check_rp, pt, store, tableVars, pgfault_num, fault, errors, word, loads>>

\* Fault: the pages that check_swap has freed stay in the list.
CheckEndMixed ==
    /\ phase = "restore" /\ todo = <<>> /\ op = Idle
    /\ nr_free' = store.nr /\ free_list' = free_list \o store.list
    /\ phase' = "done"
    /\ UNCHANGED <<property, pg_property, held, op, failed, panic>>
    /\ UNCHANGED <<check_rp, pt, store, pgfault_num, fault, todo, errors, word, loads, tableVars>>

\* The old list comes back, and with it none of the pages freed since.  What
\* the check leaves in its page table and in the FIFO is not used again: the
\* next mm_struct starts with an empty list (_fifo_init_mm).
CheckEnd ==
    /\ phase = "restore" /\ todo = <<>> /\ op = Idle
    /\ nr_free' = store.nr /\ free_list' = store.list
    /\ phase' = "done"
    /\ store' = [list |-> <<>>, nr |-> 0]
    /\ pte' = [v \in VPages |-> Absent] /\ pra_list' = <<>>
    /\ pra_vaddr' = [p \in Pages |-> 0] /\ mem' = [p \in Pages |-> Garbage]
    /\ disk' = [s \in DOMAIN disk |-> Garbage] /\ word' = [v \in VPages |-> Garbage]
    /\ loads' = <<>> /\ pgfault_num' = 0 /\ errors' = 0
    /\ UNCHANGED <<property, pg_property, held, op, failed, panic>>
    /\ UNCHANGED <<check_rp, pt, fault, todo>>

-----------------------------------------------------------------------------
Accesses == {"set", "access", "any"}
Accessing == phase \in Accesses /\ op = Idle /\ fault = 0

\* The pages the next access may be to.
NextPages ==
    CASE phase = "any" -> VPages
      [] todo = <<>> -> {}
      [] OTHER -> {Head(todo)[1]}

\* A write to a page that is mapped, and the assertion after it.
Write(v) ==
    /\ Accessing /\ v \in NextPages
    /\ pte[v].at = "page"
    /\ Assert_(phase # "any" => pgfault_num = Head(todo)[2])
    /\ word' = [word EXCEPT ![v] = (@ + 1) % 2]
    /\ mem' = [mem EXCEPT ![pte[v].n] = word'[v]]
    /\ todo' = IF phase = "any" THEN todo ELSE Tail(todo)
    /\ UNCHANGED <<pageVars, held, op, failed>>
    /\ UNCHANGED <<phase, check_rp, pt, store, pte, pra_list, pra_vaddr, disk,
                   pgfault_num, fault, errors, loads>>

\* A page fault: the processor enters do_pgfault.
PageFault(v) ==
    /\ Accessing /\ v \in NextPages
    /\ pte[v].at # "page"
    /\ phase = "any" => pgfault_num < MaxFaults
    /\ pgfault_num' = pgfault_num + 1
    /\ fault' = v
    /\ UNCHANGED <<pageVars, held, op, failed, panic>>
    /\ UNCHANGED <<phase, check_rp, pt, store, tableVars, todo, errors, word, loads>>

\* Fault: the page is linked at the other end of the list.
MapSwappableLast(v, page) ==
    /\ pte' = [pte EXCEPT ![v] = InPage(page)]
    /\ pra_list' = Append(pra_list, page)
    /\ pra_vaddr' = [pra_vaddr EXCEPT ![page] = v]

\* page_insert, swap_map_swappable and pra_vaddr.
MapSwappable(v, page) ==
    /\ pte' = [pte EXCEPT ![v] = InPage(page)]
    /\ pra_list' = <<page>> \o pra_list
    /\ pra_vaddr' = [pra_vaddr EXCEPT ![page] = v]

\* A page of its own for an address that has none; it is not cleared.
NewPage ==
    /\ fault # 0 /\ pte[fault] = Absent
    /\ Alloc(1)
    /\ MapSwappable(fault, FirstFitPage(1))
    /\ loads' = Append(loads, fault) /\ fault' = 0
    /\ UNCHANGED <<phase, check_rp, pt, store, mem, disk, pgfault_num, todo, errors, word>>

\* swap_in.  If the disk fails, the page is mapped all the same.
SwapIn(ok) ==
    /\ fault # 0 /\ pte[fault].at = "swap"
    /\ Alloc(1)
    /\ MapSwappable(fault, FirstFitPage(1))
    /\ ok \/ errors < MaxErrors
    /\ errors' = IF ok THEN errors ELSE errors + 1
    /\ mem' = IF ok THEN [mem EXCEPT ![FirstFitPage(1)] = disk[pte[fault].n]] ELSE mem
    /\ loads' = Append(loads, fault) /\ fault' = 0
    /\ UNCHANGED <<phase, check_rp, pt, store, disk, pgfault_num, todo, word>>

\* Fault: the slot is that of the page that is wanted.
SwapOutSlot ==
    LET page == Last(pra_list)
        v == pra_vaddr[page]
    IN  /\ fault # 0 /\ NoFit(1) /\ pra_list # <<>>
        /\ pra_list' = Front(pra_list)
        /\ disk' = [disk EXCEPT ![Slot(fault)] = mem[page]]
        /\ pte' = [pte EXCEPT ![v] = OnDisk(Slot(v))]
        /\ FreeBegin(page, 1)
        /\ UNCHANGED <<phase, check_rp, pt, store, pra_vaddr, mem, pgfault_num, todo,
                       fault, errors, word, loads>>

\* alloc_page finds no page and calls swap_out(check_mm_struct, 1, 0).  With an
\* empty list (an assertion of _fifo_swap_out_victim) there is no step.
SwapOut ==
    LET page == Last(pra_list)
        v == pra_vaddr[page]
    IN  /\ fault # 0 /\ NoFit(1) /\ pra_list # <<>>
        /\ pra_list' = Front(pra_list)
        /\ disk' = [disk EXCEPT ![Slot(v)] = mem[page]]
        /\ pte' = [pte EXCEPT ![v] = OnDisk(Slot(v))]
        /\ FreeBegin(page, 1)
        /\ UNCHANGED <<phase, check_rp, pt, store, pra_vaddr, mem, pgfault_num, todo,
                       fault, errors, word, loads>>

\* The disk fails: the victim is linked again, as the newest page.
SwapOutFails ==
    /\ fault # 0 /\ NoFit(1) /\ pra_list # <<>>
    /\ errors < MaxErrors
    /\ errors' = errors + 1
    /\ pra_list' = <<Last(pra_list)>> \o Front(pra_list)
    /\ UNCHANGED <<pageVars, held, op, failed, panic>>
    /\ UNCHANGED <<phase, check_rp, pt, store, pte, pra_vaddr, mem, disk, pgfault_num,
                   todo, fault, word, loads>>

SwapStep ==
    \/ CheckBegin \/ TakePage \/ HideFree \/ GivePage
    \/ SetBegin \/ SetDone \/ AccessDone \/ CheckEnd
    \/ \E v \in VPages : Write(v) \/ PageFault(v)
    \/ NewPage \/ \E ok \in BOOLEAN : SwapIn(ok)
    \/ SwapOut \/ SwapOutFails

-----------------------------------------------------------------------------
\* The free pages that check_swap has put aside, and those it uses.
Hidden == UNION {Block(p) : p \in Range(store.list)}
CheckPages == Range(check_rp) \cup (IF phase = "boot" THEN {} ELSE {pt})

\* Page replacement keeps what was written: unless the disk has failed, the last
\* word written to a virtual page is in its page, or in its slot of the device.
\* do_pgfault, swap_in and swap_out of several pages have to agree for this.
ContentKept ==
    (phase \in Accesses /\ errors = 0) =>
        \A v \in VPages : word[v] # Garbage =>
            \/ pte[v].at = "page" /\ mem[pte[v].n] = word[v]
            \/ pte[v].at = "swap" /\ disk[pte[v].n] = word[v]

\* First in, first out: between faults the pages in memory are those loaded last,
\* in that order in the list, each faulted in once, and as many as there are
\* pages; with a failed disk they still are the pages of the table.
FifoExact ==
    (phase \in Accesses /\ op = Idle /\ fault = 0) =>
        LET resident == [i \in 1..Len(pra_list) |-> pra_vaddr[pra_list[i]]]
            n == Len(loads)
        IN  /\ {v \in VPages : pte[v].at = "page"} = Range(resident)
            /\ \A i \in 1..Len(resident) : pte[resident[i]] = InPage(pra_list[i])
            /\ errors = 0 => resident = Reverse(SubSeq(loads, Max({1, n - N + 1}), n))
            /\ pgfault_num = n
=============================================================================
