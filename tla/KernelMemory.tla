----------------------------- MODULE KernelMemory -----------------------------
(***************************************************************************)
(* The physical memory of the kernel: the page allocator (Pmm), the check   *)
(* of page replacement at boot, which borrows its pages (Swap), then the    *)
(* heap (Kmalloc) and the other callers of alloc_pages and free_pages, who  *)
(* take blocks of Sizes pages (page tables, stacks, memory of processes).   *)
(***************************************************************************)
EXTENDS Swap, Kmalloc

vars == <<pageVars, held, op, failed, panic, swapVars, heapVars>>

Init == PmmInit /\ SwapInit /\ KmallocInit

Booted == phase = "done" /\ req = NoReq

\* alloc_pages(1) with no page left: swap_out(check_mm_struct, 1, 0) follows the
\* null pointer that check_mm_struct is after boot, and the kernel stops.
OutOfMemory ==
    /\ phase = "done" /\ NoFit(1)
    /\ WantsPage \/ req = NoReq
    /\ panic' = "no_memory"
    /\ UNCHANGED <<pageVars, held, op, failed, swapVars, heapVars>>

Next ==
    \/ panic = "none" /\ PmmStep /\ UNCHANGED <<swapVars, heapVars>>
    \/ panic = "none" /\ SwapStep /\ UNCHANGED heapVars
    \/ panic = "none" /\ phase = "done" /\ KmallocStep /\ UNCHANGED swapVars
    \/ /\ panic = "none" /\ Booted
       /\ \/ \E n \in Sizes : Alloc(n) \/ (n > 1 /\ AllocFails(n))
          \/ \E x \in held \ (HeapPages \cup {<<p, 1>> : p \in CheckPages}) : FreeBegin(x[1], x[2])
       /\ UNCHANGED <<swapVars, heapVars>>
    \/ panic = "none" /\ OutOfMemory
    \/ panic # "none" /\ UNCHANGED vars

Spec == Init /\ [][Next]_vars

-----------------------------------------------------------------------------
HidesFree == phase \in Accesses \cup {"give", "restore"}

\* The assertions of default_pmm.c, swap.c, swap_fifo.c and kmalloc.c hold over
\* any history of calls, and alloc_pages stops the kernel only if no page is
\* free.  Two assertions fail: the counts of check_swap if the disk has failed,
\* and the one of slob_alloc for the sizes just below those of big blocks.
AssertsHold ==
    /\ panic = "assert" =>
         \/ phase # "done" /\ errors > 0
         \/ req.at = "small" /\ req.size = PAGE_SIZE - 2
    /\ panic = "no_memory" => FreePages = {}

\* The list of free blocks is sorted and joined, and every page is in one free
\* block or in one block that a caller has, also in the middle of
\* default_free_pages and while check_swap has put the list aside; the pages
\* check_swap has used are neither.
PagesExact ==
    /\ Coalesced
    /\ PartitionOf(CASE phase \in {"boot", "take"} -> Initialised
                     [] phase = "done" -> Pages \ CheckPages
                     [] OTHER -> CheckPages)
    /\ HidesFree =>
         Hidden \cup CheckPages = Pages /\ Hidden \cap CheckPages = {}

\* Calls of alloc_pages take the lowest pages that do, and fail only if there are
\* no n contiguous free pages: this takes the merging in default_free_pages over
\* any history of calls.  The pages of check_swap stay its own for ever.  During
\* page_init, which nothing allocates in, all pages count as free.
Abstract == INSTANCE PageAlloc WITH
    Sizes <- 1..Cardinality(Pages),
    free <- CASE HidesFree -> Hidden
              [] op.at = "memmap" -> Pages
              [] OTHER -> FreePages,
    blocks <- held \cup {<<p, 1>> : p \in CheckPages},
    failed <- failed
Implements == Abstract!Spec
=============================================================================
