--------------------------------- MODULE Vmm ---------------------------------
(***************************************************************************)
(* The memory of user processes: load_icode, do_brk, the memory side of     *)
(* do_fork and do_exit (kern/process/proc.c), do_pgfault (kern/mm/vmm.c)    *)
(* and the page tables and reference counts they change (kern/mm/pmm.c).    *)
(*                                                                          *)
(* SYS_clone is not in the table of system calls, so no two processes share *)
(* an mm_struct and mm[p] is p's.  A call is one step: kernel code is not   *)
(* preempted and these calls do not sleep, but for load_icode, which reads  *)
(* from a file and is one step per segment.                                 *)
(*                                                                          *)
(* Which of the free pages alloc_page gives makes no difference here: a     *)
(* physical page is named after the mapping it is allocated for, and        *)
(* NrPages bounds how many there are.  With none left alloc_page calls      *)
(* swap_out(NULL), which cannot be carried out: the kernel halts.  Pages    *)
(* that hold page tables are not counted.                                   *)
(***************************************************************************)
EXTENDS VmArea

CONSTANTS
    Procs,
    NrPages,        \* how many physical pages there are
    Programs,       \* what may be loaded: sequences of segments
    USTACKPAGE,     \* pages of the stack
    StackMapped,    \* those of them that load_icode maps
    BrkRandom,      \* what rand() may add to brk_start
    StackRandom,    \* and take off the top of the stack
    Brks            \* the arguments of SYS_brk

VARIABLES
    stage,       \* "none", "load" while in load_icode, or "user"
    todo,        \* load_icode: the segments still to be loaded
    mm,          \* proc->mm
    pgdir,       \* the page table entries: [frame, writable], or NULL
    page_ref,    \* page->ref
    used,        \* pages that are allocated
    panic        \* "none", "halted", or "assert" once an assertion has failed

memVars == <<pgdir, page_ref, used>>
vars == <<stage, todo, mm, memVars, panic>>

UserPages == USERBASE..(USERTOP - 1)
Frames == Procs \X UserPages
Unused == [a \in UserPages |-> NULL]

ASSUME VmmAssumption ==
    /\ \A prog \in Programs :
          /\ prog \in Seq([vm_start : Nat, vm_end : Nat, vm_flags : {"rx", "rw"}])
          /\ Len(prog) + 2 <= Cardinality(Vmas)
    /\ BrkRandom \subseteq Nat /\ StackRandom \subseteq Nat /\ Brks \subseteq Nat
    /\ USTACKPAGE \in Nat /\ StackMapped \in 0..USTACKPAGE
    /\ NULL \notin [frame : Frames, w : BOOLEAN]

StackTops == {USERTOP - rnd : rnd \in StackRandom}

Mapped(p) == {a \in UserPages : pgdir[p][a] # NULL}

Assert_(c) == panic' = IF c THEN panic ELSE "assert"

-----------------------------------------------------------------------------
Room(A) == Cardinality(used) + Cardinality(A) <= NrPages

\* pgdir_alloc_page for the pages A of p's tables T, W of them writable:
\* alloc_page, page_insert.
MapPages(p, T, A, W) ==
    LET given == {p} \X A
    IN  /\ pgdir' = [pgdir EXCEPT ![p] =
                       [a \in UserPages |-> IF a \in A THEN [frame |-> <<p, a>>, w |-> a \in W]
                                            ELSE T[a]]]
        /\ page_ref' = [f \in Frames |-> IF f \in given THEN page_ref[f] + 1 ELSE page_ref[f]]
        /\ used' = used \cup given

\* unmap_range for the pages A of p: page_remove_pte, free_page.
Dropped(p, A) == {pgdir[p][a].frame : a \in A \cap Mapped(p)}

RefAfter(p, A) == [f \in Frames |-> IF f \in Dropped(p, A) THEN page_ref[f] - 1 ELSE page_ref[f]]

\* Fault: the reference is dropped and the page is not freed.
UnmapKeepsPage(p, A) ==
    /\ pgdir' = [pgdir EXCEPT ![p] = [a \in UserPages |-> IF a \in A THEN NULL ELSE @[a]]]
    /\ page_ref' = RefAfter(p, A)
    /\ UNCHANGED used

unmap_range(p, A) ==
    /\ pgdir' = [pgdir EXCEPT ![p] = [a \in UserPages |-> IF a \in A THEN NULL ELSE @[a]]]
    /\ page_ref' = RefAfter(p, A)
    /\ used' = used \ {f \in Dropped(p, A) : page_ref'[f] = 0}

\* exit_mmap, put_pgdir and mm_destroy: what is mapped outside every area is
\* forgotten with the page directory.
FreeMm(p) ==
    LET A == AreaPages(mm[p], {"rx", "rw", "stack"})
    IN  /\ page_ref' = RefAfter(p, A)
        /\ used' = used \ {f \in Dropped(p, A) : page_ref'[f] = 0}
        /\ pgdir' = [pgdir EXCEPT ![p] = Unused]
        /\ mm' = [mm EXCEPT ![p] = mm_create]

-----------------------------------------------------------------------------
\* do_execve: the old memory goes, load_icode begins.
Exec(p, prog) ==
    /\ stage[p] = "user"
    /\ FreeMm(p)
    /\ stage' = [stage EXCEPT ![p] = "load"]
    /\ todo' = [todo EXCEPT ![p] = prog]
    /\ UNCHANGED panic

\* No page is left for A.
OutOfMemory(A) ==
    /\ ~Room(A)
    /\ panic' = "halted"
    /\ UNCHANGED <<stage, todo, mm, memVars>>

\* One segment of load_icode.
Load(p) ==
    LET x == Head(todo[p])
        A == x.vm_start..(x.vm_end - 1)
        m == mm_map(mm[p], x.vm_start, x.vm_end, x.vm_flags)
    IN  /\ stage[p] = "load" /\ todo[p] # <<>>
        /\ MapOk(mm[p], x.vm_start, x.vm_end)
        /\ \/ /\ Room(A)
              /\ MapPages(p, pgdir[p], A, IF Writable(x.vm_flags) THEN A ELSE {})
              /\ mm' = [mm EXCEPT ![p] = [m EXCEPT !.brk_start = Max({@, x.vm_end})]]
              /\ todo' = [todo EXCEPT ![p] = Tail(@)]
              /\ Assert_(m.ok)
              /\ UNCHANGED stage
           \/ OutOfMemory(A)

\* The end of load_icode: brk_start, the stack below the page top.
LoadStack(p, rnd, top) ==
    LET s == top - USTACKPAGE
        A == (top - StackMapped)..(top - 1)
        m == mm_map(mm[p], s, top, "stack")
    IN  /\ stage[p] = "load" /\ todo[p] = <<>>
        /\ MapOk(mm[p], s, top)
        /\ \/ /\ Room(A)
              /\ MapPages(p, pgdir[p], A, A)
              /\ mm' = [mm EXCEPT ![p] = [m EXCEPT !.brk_start = @ + rnd, !.brk = m.brk_start + rnd]]
              /\ stage' = [stage EXCEPT ![p] = "user"]
              /\ Assert_(m.ok)
              /\ UNCHANGED todo
           \/ OutOfMemory(A)

\* A read from the file or mm_map fails: bad_cleanup_mmap, and do_execve exits.
LoadFails(p) ==
    /\ stage[p] = "load"
    /\ todo[p] = <<>> => \E top \in StackTops : ~MapOk(mm[p], top - USTACKPAGE, top)
    /\ FreeMm(p)
    /\ stage' = [stage EXCEPT ![p] = "none"]
    /\ todo' = [todo EXCEPT ![p] = <<>>]
    /\ UNCHANGED panic

-----------------------------------------------------------------------------
\* copy_mm: c gets a copy of every page of p's areas that is present.
Fork(p, c) ==
    LET m == DupAreas(mm[p])
        A == Mapped(p) \cap AreaPages(mm[p], {"rx", "rw", "stack"})
    IN  /\ stage[p] = "user" /\ stage[c] = "none"
        /\ \/ /\ Room(A)
              /\ MapPages(c, Unused, A, {a \in A : pgdir[p][a].w})
              /\ mm' = [mm EXCEPT ![c] = m]
              /\ stage' = [stage EXCEPT ![c] = "user"]
              /\ Assert_(m.ok)
              /\ UNCHANGED todo
           \/ OutOfMemory(A)

\* do_exit
Exit(p) ==
    /\ stage[p] = "user"
    /\ FreeMm(p)
    /\ stage' = [stage EXCEPT ![p] = "none"]
    /\ UNCHANGED <<todo, panic>>

\* do_pgfault for an access that p may make: page a is not there yet.
PageFault(p, a, write) ==
    LET v == find_vma(mm[p], a)
    IN  /\ stage[p] = "user" /\ pgdir[p][a] = NULL
        /\ v # NULL
        /\ write => Writable(mm[p].area[v].vm_flags)
        /\ \/ /\ Room({a})
              /\ MapPages(p, pgdir[p], {a}, IF Writable(mm[p].area[v].vm_flags) THEN {a} ELSE {})
              /\ mm' = [mm EXCEPT ![p] = Cached(@, a)]
              /\ UNCHANGED <<stage, todo, panic>>
           \/ OutOfMemory({a})

\* do_pgfault fails; trap_dispatch panics.
BadFault(p, a, write) ==
    LET v == find_vma(mm[p], a)
    IN  /\ stage[p] = "user"
        /\ \/ pgdir[p][a] = NULL /\ v = NULL
           \/ write /\ v # NULL /\ ~Writable(mm[p].area[v].vm_flags)
        /\ panic' = "halted"
        /\ UNCHANGED <<stage, todo, mm, memVars>>

-----------------------------------------------------------------------------
\* do_brk(&b) with b on page a of p; reading b has brought that page in, unless
\* the call is refused.  First the calls that change nothing but the cache.
BrkUnchanged(p, a, b) ==
    LET m == Cached(mm[p], a)
    IN  /\ stage[p] = "user"
        /\ \/ ~user_mem_check(m, a)
           \/ /\ pgdir[p][a] # NULL
              /\ \/ b < m.brk_start
                 \/ b = m.brk
                 \/ b > m.brk /\ (Intersects(m, m.brk, b + 1) \/ ~USER_ACCESS(m.brk, b))
        /\ mm' = [mm EXCEPT ![p] = m]
        /\ UNCHANGED <<stage, todo, memVars, panic>>

BrkShrink(p, a, b) ==
    LET m == Cached(mm[p], a)
        n == mm_unmap(m, b, m.brk)
    IN  /\ stage[p] = "user" /\ pgdir[p][a] # NULL
        /\ user_mem_check(m, a)
        /\ m.brk_start <= b /\ b < m.brk
        /\ USER_ACCESS(b, m.brk)
        /\ unmap_range(p, Unmapped(m, b, m.brk))
        /\ mm' = [mm EXCEPT ![p] = Cached([n EXCEPT !.brk = b], a)]
        /\ Assert_(n.ok)
        /\ UNCHANGED <<stage, todo>>

BrkGrow(p, a, b) ==
    LET m == Cached(mm[p], a)
        n == mm_brk(m, m.brk, b)
    IN  /\ stage[p] = "user" /\ pgdir[p][a] # NULL
        /\ user_mem_check(m, a)
        /\ b > m.brk /\ USER_ACCESS(m.brk, b)
        /\ ~Intersects(m, m.brk, b + 1)
        /\ unmap_range(p, Unmapped(m, m.brk, b))
        /\ mm' = [mm EXCEPT ![p] = Cached([n EXCEPT !.brk = b], a)]
        /\ Assert_(n.ok)
        /\ UNCHANGED <<stage, todo>>

-----------------------------------------------------------------------------
\* The thread of user_main, which has no memory to give back, has called
\* do_execve; every other process comes from Fork.
Init ==
    /\ \E p \in Procs, prog \in Programs :
          /\ stage = [q \in Procs |-> IF q = p THEN "load" ELSE "none"]
          /\ todo = [q \in Procs |-> IF q = p THEN prog ELSE <<>>]
    /\ mm = [p \in Procs |-> mm_create]
    /\ pgdir = [p \in Procs |-> Unused]
    /\ page_ref = [f \in Frames |-> 0]
    /\ used = {}
    /\ panic = "none"

Brk(p, a, b) == BrkUnchanged(p, a, b) \/ BrkShrink(p, a, b) \/ BrkGrow(p, a, b)

Step(p) ==
    \/ \E prog \in Programs : Exec(p, prog)
    \/ Load(p) \/ LoadFails(p) \/ \E rnd \in BrkRandom, top \in StackTops : LoadStack(p, rnd, top)
    \/ \E c \in Procs : Fork(p, c)
    \/ Exit(p)
    \/ \E a \in UserPages : \E write \in BOOLEAN : PageFault(p, a, write) \/ BadFault(p, a, write)
    \/ \E a \in UserPages : \E b \in Brks : Brk(p, a, b)

\* A panic halts the kernel.
Next == panic = "none" /\ \E p \in Procs : Step(p)

Spec == Init /\ [][Next]_vars

-----------------------------------------------------------------------------
\* No assertion of insert_vma_struct fails: check_vma_overlap, "assert(prev->vm_end
\* <= next->vm_start)" (vmm.c:132), for every area that mm_map, mm_brk, mm_unmap
\* and dup_mmap insert.
NoAssertFails == panic # "assert"

\* The areas of every process are in the order of their addresses and disjoint,
\* over any sequence of loads, forks and moves of the break, with the splits and
\* merges these cause; map_count counts them; and mmap_cache never names an area
\* that was freed.  All pages from brk_start up to the break belong to a readable
\* and writable area, and no page from the break to the stack belongs to any.
AreasExact ==
    /\ NoAssertFails
    /\ \A p \in Procs :
        LET m == mm[p]
        IN  /\ \A i \in 1..Len(m.list) :
                  LET x == m.area[m.list[i]]
                  IN  /\ USER_ACCESS(x.vm_start, x.vm_end)
                      /\ i > 1 => m.area[m.list[i - 1]].vm_end <= x.vm_start
            /\ m.map_count = Len(m.list)
            /\ m.cache \in Range(m.list) \cup {NULL}
            /\ stage[p] = "user" =>
                  /\ m.brk_start <= m.brk
                  /\ m.brk_start..(m.brk - 1) \subseteq AreaPages(m, {"rw"})
                  /\ AreaPages(m, {"rx", "rw"}) \cap (m.brk..(USERTOP - 1)) = {}

\* Every page table entry names an allocated page of its own, whose reference
\* count is 1; everything else is free: no process sees another's pages, and
\* fork, exit, the break and failed loads lose none.  What is mapped is in an area,
\* and writable exactly if the area is.
FramesExact ==
    LET ptes == {x \in Procs \X UserPages : pgdir[x[1]][x[2]] # NULL}
        Frame(x) == pgdir[x[1]][x[2]].frame
    IN  /\ \A x, y \in ptes : Frame(x) = Frame(y) => x = y
        /\ used = {Frame(x) : x \in ptes}
        /\ \A f \in Frames : page_ref[f] = IF f \in used THEN 1 ELSE 0
        /\ \A x \in ptes : \E v \in Range(mm[x[1]].list) :
              /\ Within(mm[x[1]], v, x[2])
              /\ pgdir[x[1]][x[2]].w = Writable(mm[x[1]].area[v].vm_flags)
=============================================================================
