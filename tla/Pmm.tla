--------------------------------- MODULE Pmm ---------------------------------
(***************************************************************************)
(* The physical page allocator of kern/mm/default_pmm.c: first fit over a   *)
(* list of free blocks in the order of their addresses.                     *)
(*                                                                          *)
(* A free block is named by its first page; property[p] is its size and     *)
(* PG_property marks first pages.  The fields of a page that is no first    *)
(* page are left as they were, so property may be stale.                    *)
(*                                                                          *)
(* alloc_pages and free_pages of pmm.c disable interrupts around each call. *)
(* The loops of page_init and default_free_pages are one step per           *)
(* iteration: "op" holds their local variables.                             *)
(***************************************************************************)
EXTENDS Integers, Sequences, SequencesExt, FiniteSetsExt

CONSTANTS
    MemMap,     \* the memory map of the BIOS: entries [addr, size, arm]
    PGSIZE,     \* the size of a page, in the unit of these addresses
    KMEMSIZE,   \* memory beyond it is not used
    FreeMem,    \* the end of the kernel and of its page structures
    Sizes       \* the sizes asked for, in pages

\* page_init: the part of an entry that is free memory, in whole pages.
FirstPage(e) == (Max({e.addr, FreeMem}) + PGSIZE - 1) \div PGSIZE
EndPage(e) == Min({e.addr + e.size, KMEMSIZE}) \div PGSIZE

Usable(e) ==
    /\ e.arm
    /\ Max({e.addr, FreeMem}) < Min({e.addr + e.size, KMEMSIZE})
    /\ FirstPage(e) < EndPage(e)

\* The pages of an entry that page_init gives to init_memmap.
Given(e) == IF Usable(e) THEN FirstPage(e)..(EndPage(e) - 1) ELSE {}
Pages == UNION {Given(MemMap[i]) : i \in 1..Len(MemMap)}

\* The BIOS lists the memory in ascending order, and its entries do not touch.
ASSUME PmmAssumption ==
    /\ PGSIZE \in Nat \ {0} /\ KMEMSIZE \in Nat /\ FreeMem \in Nat
    /\ MemMap \in Seq([addr : Nat, size : Nat, arm : BOOLEAN])
    /\ \A i, j \in 1..Len(MemMap) :
          i < j /\ Usable(MemMap[i]) /\ Usable(MemMap[j])
            => EndPage(MemMap[i]) < FirstPage(MemMap[j])
    /\ Sizes \subseteq Nat \ {0}

VARIABLES
    free_list,      \* the first pages of the free blocks
    property,       \* page->property
    pg_property,    \* the pages with PG_property set
    nr_free,
    held,           \* the blocks the callers have: pairs of first page and size
    op,             \* page_init or default_free_pages: its place, base, le and size
    failed,         \* history: the last alloc_pages returned NULL
    panic

pageVars == <<free_list, property, pg_property, nr_free>>

Idle == [at |-> "none", base |-> 0, le |-> 0, n |-> 0]

Block(p) == p..(p + property[p] - 1)

\* The pages of the blocks in the list.
Linked == UNION {Block(p) : p \in Range(free_list)}

\* The first failed assertion stops the kernel.
Assert_(c) == panic' = IF c THEN panic ELSE "assert"

-----------------------------------------------------------------------------
\* default_init, and page_init up to its second loop over the memory map.
PmmInit ==
    /\ free_list = <<>> /\ nr_free = 0
    /\ property = [p \in Pages |-> 0] /\ pg_property = {}
    /\ held = {}
    /\ op = [at |-> "memmap", base |-> 0, le |-> 1, n |-> 0]
    /\ failed = FALSE
    /\ panic = "none"

\* One entry: default_init_memmap for a usable one, whose pages must have been
\* reserved till now.
InitMemmap ==
    LET e == MemMap[op.le]
    IN  /\ op.at = "memmap" /\ op.le <= Len(MemMap)
        /\ op' = [op EXCEPT !.le = @ + 1]
        /\ Assert_(Given(e) \cap Linked = {})
        /\ IF Usable(e)
           THEN /\ property' = [property EXCEPT ![FirstPage(e)] = EndPage(e) - FirstPage(e)]
                /\ pg_property' = pg_property \cup {FirstPage(e)}
                /\ nr_free' = nr_free + (EndPage(e) - FirstPage(e))
                /\ free_list' = Append(free_list, FirstPage(e))
           ELSE UNCHANGED pageVars
        /\ UNCHANGED <<held, failed>>

MemmapDone ==
    /\ op.at = "memmap" /\ op.le = Len(MemMap) + 1
    /\ op' = Idle
    /\ UNCHANGED <<pageVars, held, failed, panic>>

-----------------------------------------------------------------------------
\* Fault: the list is searched from its other end.
LastFit(n) ==
    {i \in 1..Len(free_list) :
        /\ property[free_list[i]] >= n
        /\ \A j \in (i + 1)..Len(free_list) : property[free_list[j]] < n}

\* default_alloc_pages(n): the first block that is large enough.
FirstFit(n) ==
    {i \in 1..Len(free_list) :
        /\ property[free_list[i]] >= n
        /\ \A j \in 1..(i - 1) : property[free_list[j]] < n}

\* The rest of the block takes its place in the list.
Alloc(n) ==
    \E i \in FirstFit(n) :
        LET page == free_list[i]
            rest == page + n
        IN  /\ op = Idle
            /\ n <= nr_free
            /\ IF property[page] > n
               THEN /\ property' = [property EXCEPT ![rest] = property[page] - n]
                    /\ pg_property' = (pg_property \cup {rest}) \ {page}
                    /\ free_list' = [free_list EXCEPT ![i] = rest]
               ELSE /\ pg_property' = pg_property \ {page}
                    /\ free_list' = RemoveAt(free_list, i)
                    /\ UNCHANGED property
            /\ nr_free' = nr_free - n
            /\ held' = held \cup {<<page, n>>}
            /\ failed' = FALSE
            /\ UNCHANGED <<op, panic>>

NoFit(n) == op = Idle /\ (n > nr_free \/ FirstFit(n) = {})

\* NULL: too few free pages, or no block of n.  alloc_pages returns it if n > 1.
AllocFails(n) ==
    /\ NoFit(n)
    /\ failed' = TRUE
    /\ UNCHANGED <<pageVars, held, op, panic>>

-----------------------------------------------------------------------------
\* default_free_pages(base, n), up to its first loop over the list.
FreeBegin(base, n) ==
    /\ op = Idle
    /\ Assert_((base..(base + n - 1)) \cap pg_property = {})
    /\ property' = [property EXCEPT ![base] = n]
    /\ pg_property' = pg_property \cup {base}
    /\ held' = held \ {<<base, n>>}
    /\ op' = [at |-> "merge", base |-> base, le |-> 1, n |-> n]
    /\ failed' = FALSE
    /\ UNCHANGED <<free_list, nr_free>>

\* Fault: the block that follows base is passed over.
MergeNextMissed ==
    /\ op.at = "merge" /\ op.le <= Len(free_list)
    /\ op.base + property[op.base] = free_list[op.le]
    /\ op' = [op EXCEPT !.le = @ + 1]
    /\ UNCHANGED <<pageVars, held, failed, panic>>

\* One block of the list: it follows base, it precedes base, or neither.
MergeNext ==
    LET p == free_list[op.le]
    IN  /\ op.at = "merge" /\ op.le <= Len(free_list)
        /\ op.base + property[op.base] = p
        /\ property' = [property EXCEPT ![op.base] = @ + property[p]]
        /\ pg_property' = pg_property \ {p}
        /\ free_list' = RemoveAt(free_list, op.le)
        /\ UNCHANGED <<nr_free, held, op, failed, panic>>

MergePrev ==
    LET p == free_list[op.le]
    IN  /\ op.at = "merge" /\ op.le <= Len(free_list)
        /\ op.base + property[op.base] # p
        /\ p + property[p] = op.base
        /\ property' = [property EXCEPT ![p] = @ + property[op.base]]
        /\ pg_property' = pg_property \ {op.base}
        /\ free_list' = RemoveAt(free_list, op.le)
        /\ op' = [op EXCEPT !.base = p]
        /\ UNCHANGED <<nr_free, held, failed, panic>>

MergeNeither ==
    LET p == free_list[op.le]
    IN  /\ op.at = "merge" /\ op.le <= Len(free_list)
        /\ op.base + property[op.base] # p
        /\ p + property[p] # op.base
        /\ op' = [op EXCEPT !.le = @ + 1]
        /\ UNCHANGED <<pageVars, held, failed, panic>>

MergeDone ==
    /\ op.at = "merge" /\ op.le = Len(free_list) + 1
    /\ nr_free' = nr_free + op.n
    /\ op' = [op EXCEPT !.at = "insert", !.le = 1]
    /\ UNCHANGED <<free_list, property, pg_property, held, failed, panic>>

\* The second loop: the first block behind base.
Behind == op.base + property[op.base] <= free_list[op.le]

InsertPass ==
    /\ op.at = "insert" /\ op.le <= Len(free_list)
    /\ ~Behind
    /\ op' = [op EXCEPT !.le = @ + 1]
    /\ UNCHANGED <<pageVars, held, failed, panic>>

Insert ==
    /\ op.at = "insert"
    /\ op.le <= Len(free_list) => Behind
    /\ Assert_(op.le <= Len(free_list) =>
                 op.base + property[op.base] # free_list[op.le])
    /\ free_list' = InsertAt(free_list, op.le, op.base)
    /\ op' = Idle
    /\ UNCHANGED <<property, pg_property, nr_free, held, failed>>

-----------------------------------------------------------------------------
\* The page or the first page that alloc_pages(n) gives.
FirstFitPage(n) == free_list[Min(FirstFit(n))]

\* The rest of page_init, or of a call of free_pages.
PmmStep ==
    \/ InitMemmap \/ MemmapDone
    \/ MergeNext \/ MergePrev \/ MergeNeither \/ MergeDone
    \/ InsertPass \/ Insert

-----------------------------------------------------------------------------
\* The pages of the blocks in the list, and of the one being inserted.
FreePages == IF op.at \in {"merge", "insert"} THEN Linked \cup Block(op.base) ELSE Linked

\* What page_init has given to the allocator so far.
Initialised ==
    UNION {Given(MemMap[i]) : i \in 1..(IF op.at = "memmap" THEN op.le - 1 ELSE Len(MemMap))}
HeldPages == UNION {x[1]..(x[1] + x[2] - 1) : x \in held}

\* The list is in the order of the addresses, its blocks do not overlap, and no
\* two of them touch: everything that could be merged is.
Coalesced ==
    \A i, j \in 1..Len(free_list) :
        i < j => free_list[i] + property[free_list[i]] < free_list[j]

\* Of the pages P, each is in one free block or in one block that a caller has,
\* and nr_free counts the free ones.
PartitionOf(P) ==
    /\ FreePages \cap HeldPages = {} /\ FreePages \cup HeldPages = P
    /\ \A x, y \in held : x # y => x[1] + x[2] <= y[1] \/ y[1] + y[2] <= x[1]
    /\ op.at # "merge" => nr_free = Cardinality(FreePages)
=============================================================================
