------------------------------- MODULE Kmalloc -------------------------------
(***************************************************************************)
(* The heap of the kernel, kern/mm/kmalloc.c: a SLOB allocator for what is  *)
(* smaller than a page, alloc_pages for the rest.                           *)
(*                                                                          *)
(* Memory is counted in units (SLOB_UNIT, the size of a header), Unit of    *)
(* them in a page: unit a is the address a.  Sizes are multiples of a unit. *)
(* The free list is circular; it is held as the sequence of its blocks      *)
(* <<address, units>> that begins with slobfree.  arena, its sentinel, lies *)
(* in the data of the kernel, below all pages.                              *)
(*                                                                          *)
(* Kernel code is not preempted and interrupt handlers do not call kmalloc: *)
(* a call is one step, but for the pages it takes and returns.              *)
(***************************************************************************)
EXTENDS Pmm

CONSTANTS
    PAGE_SIZE,      \* units in a page, a power of 2
    KSizes,         \* the sizes asked for
    MaxLive         \* bound: the blocks handed out at a time

ASSUME KmallocAssumption ==
    /\ PAGE_SIZE \in Nat /\ PAGE_SIZE > 4
    /\ KSizes \subseteq Nat \ {0} /\ MaxLive \in Nat

VARIABLES
    slob,           \* the free list, from slobfree on
    bigblocks,      \* the list of big blocks: [order, pages, bb]
    live,           \* what kmalloc has returned: [block, size, units], units 0 if big
    req             \* the call of kmalloc under way: [at, size, bb]

heapVars == <<slob, bigblocks, live, req>>

Arena == <<-2, 1>>
NoReq == [at |-> "none", size |-> 0, bb |-> 0]

\* sizeof(bigblock_t), one and a half units, rounded up.
BigUnits == 2

KmallocInit ==
    /\ slob = <<Arena>>
    /\ bigblocks = <<>>
    /\ live = {}
    /\ req = NoReq

-----------------------------------------------------------------------------
\* The list seen from its i-th block on.
From(L, i) == SubSeq(L, i, Len(L)) \o SubSeq(L, 1, i - 1)

\* The places of the blocks as slob_alloc scans them: slobfree comes last.
Scan(L) == [i \in 1..Len(L) |-> (i % Len(L)) + 1]

\* slob_alloc: the first block scanned with room.
Room(L, units) ==
    {i \in 1..Len(L) :
        /\ L[Scan(L)[i]][2] >= units
        /\ \A j \in 1..(i - 1) : L[Scan(L)[j]][2] < units}

\* The list without the units it gives from the block that follows the i-th;
\* the i-th is slobfree then.  The block of one unit, arena, is never taken.
Taken(L, i, units) ==
    LET R == From(L, i)
        cur == R[2]
    IN  IF cur[2] = units THEN RemoveAt(R, 2)
        ELSE [R EXCEPT ![2] = <<cur[1] + units, cur[2] - units>>]

\* slob_free: the block of the list after which b goes.
Insertion(L, b) ==
    CHOOSE i \in 1..Len(L) :
        LET cur == L[i][1]
            next == L[(i % Len(L)) + 1][1]
        IN  \/ b > cur /\ b < next
            \/ cur >= next /\ (b > cur \/ b < next)

\* Fault: a block that ends where b begins is not joined with it.
SlobFreeNoJoin(L, b, units) ==
    LET R == From(L, Insertion(L, b))
        up == Len(R) > 1 /\ b + units = R[2][1]
        rest == IF up THEN SubSeq(R, 3, Len(R)) ELSE Tail(R)
        all == IF up THEN units + R[2][2] ELSE units
    IN  <<R[1], <<b, all>>>> \o rest

\* The list with the block b, joined with its neighbours if they touch.
SlobFree(L, b, units) ==
    LET R == From(L, Insertion(L, b))
        up == Len(R) > 1 /\ b + units = R[2][1]
        rest == IF up THEN SubSeq(R, 3, Len(R)) ELSE Tail(R)
        all == IF up THEN units + R[2][2] ELSE units
    IN  IF R[1][1] + R[1][2] = b
        THEN <<<<R[1][1], R[1][2] + all>>>> \o rest
        ELSE <<R[1], <<b, all>>>> \o rest

-----------------------------------------------------------------------------
\* find_order: the size is halved, and rounded down, until a page holds it.
find_order(size) ==
    CHOOSE k \in 0..size :
        /\ size \div 2^k <= PAGE_SIZE
        /\ \A j \in 0..(k - 1) : size \div 2^j > PAGE_SIZE

Small(size) == size < PAGE_SIZE - 1

\* The assertion at the start of slob_alloc, which kmalloc calls with a header
\* on top of the size.
SlobAllocOk(units) == units + 1 < PAGE_SIZE

\* The units that the call under way asks slob_alloc for.
Wanted == IF req.at = "small" THEN req.size + 1 ELSE BigUnits

KmallocBegin(size) ==
    /\ op = Idle /\ req = NoReq
    /\ Cardinality(live) < MaxLive
    /\ req' = [at |-> IF Small(size) THEN "small" ELSE "bb", size |-> size, bb |-> 0]
    /\ Assert_(Small(size) => SlobAllocOk(size + 1))
    /\ UNCHANGED <<pageVars, held, op, failed, slob, bigblocks, live>>

\* slob_alloc finds room: the block is the caller's, behind its header, or it is
\* the bigblock_t.
SlobAlloc ==
    \E i \in Room(slob, Wanted) :
        LET m == slob[Scan(slob)[i]][1]
        IN  /\ op = Idle /\ req.at \in {"small", "bb"}
            /\ slob' = Taken(slob, i, Wanted)
            /\ IF req.at = "small"
               THEN /\ live' = live \cup {[block |-> m + 1, size |-> req.size, units |-> Wanted]}
                    /\ req' = NoReq
               ELSE /\ req' = [req EXCEPT !.at = "pages", !.bb = m]
                    /\ UNCHANGED live
            /\ UNCHANGED <<pageVars, held, op, failed, panic, bigblocks>>

\* slob_alloc finds none, gives itself a page and scans again.
SlobMore ==
    /\ req.at \in {"small", "bb"} /\ Room(slob, Wanted) = {}
    /\ Alloc(1)
    /\ slob' = SlobFree(slob, FirstFitPage(1) * PAGE_SIZE, PAGE_SIZE)
    /\ UNCHANGED <<bigblocks, live, req>>

\* The pages of a big block.
BigAlloc ==
    LET order == find_order(req.size)
    IN  /\ req.at = "pages"
        /\ Alloc(2^order)
        /\ LET page == FirstFitPage(2^order)
           IN  /\ bigblocks' = <<[order |-> order, pages |-> page, bb |-> req.bb]>> \o bigblocks
               /\ live' = live \cup
                    {[block |-> page * PAGE_SIZE, size |-> req.size, units |-> 0]}
        /\ req' = NoReq
        /\ UNCHANGED slob

BigFails ==
    LET order == find_order(req.size)
    IN  /\ req.at = "pages" /\ order > 0
        /\ AllocFails(2^order)
        /\ slob' = SlobFree(slob, req.bb, BigUnits)
        /\ req' = NoReq
        /\ UNCHANGED <<bigblocks, live>>

\* The calls of alloc_pages for one page, from the heap.
WantsPage ==
    \/ req.at \in {"small", "bb"} /\ Room(slob, Wanted) = {}
    \/ req.at = "pages" /\ find_order(req.size) = 0

-----------------------------------------------------------------------------
\* kfree looks for big blocks among those that begin a page.
BigOf(block) ==
    {i \in 1..Len(bigblocks) :
        block % PAGE_SIZE = 0 /\ bigblocks[i].pages * PAGE_SIZE = block}

KfreeBig(x) ==
    \E i \in BigOf(x.block) :
        LET b == bigblocks[i]
        IN  /\ req = NoReq
            /\ bigblocks' = RemoveAt(bigblocks, i)
            /\ FreeBegin(b.pages, 2^b.order)
            /\ slob' = SlobFree(slob, b.bb, BigUnits)
            /\ live' = live \ {x}
            /\ UNCHANGED req

\* The header in front of the block says how long it is.
KfreeSmall(x) ==
    /\ op = Idle /\ req = NoReq
    /\ BigOf(x.block) = {}
    /\ slob' = SlobFree(slob, x.block - 1, x.units)
    /\ live' = live \ {x}
    /\ UNCHANGED <<pageVars, held, op, failed, panic, bigblocks, req>>

KmallocStep ==
    \/ \E size \in KSizes : KmallocBegin(size)
    \/ SlobAlloc \/ SlobMore \/ BigAlloc \/ BigFails
    \/ \E x \in live : KfreeBig(x) \/ KfreeSmall(x)

-----------------------------------------------------------------------------
\* ksize: what a block has room for.
ksize(x) ==
    IF x.units = 0
    THEN PAGE_SIZE * 2^bigblocks[CHOOSE i \in BigOf(x.block) : TRUE].order
    ELSE x.units

Units(a, n) == a..(a + n - 1)

\* The units of the blocks handed out, and of the heap's own.
LiveBlocks ==
    {<<x.block - 1, x.units>> : x \in {y \in live : y.units > 0}}
    \cup {<<b.bb, BigUnits>> : b \in Range(bigblocks)}
    \cup (IF req.at = "pages" THEN {<<req.bb, BigUnits>>} ELSE {})
FreeBlocks == Range(slob) \ {Arena}

\* The pages the heap has: those of big blocks, and those it cuts up.
BigPages == {<<b.pages, 2^b.order>> : b \in Range(bigblocks)}
SlobPages == {<<a \div PAGE_SIZE, 1>> :
                a \in UNION {Units(x[1], x[2]) : x \in LiveBlocks \cup FreeBlocks}}
HeapPages == BigPages \cup SlobPages

\* The size is one for which find_order leaves off a remainder.
CutOff(size) == size > PAGE_SIZE * 2^find_order(size)

\* The heap over any history of kmalloc and kfree: the free list is circular in
\* the order of the addresses with everything joined that touches; each unit of
\* the pages it cuts up is in one free block or in one block in use; these pages
\* and those of big blocks are its own; and a block is as long as was asked for,
\* unless find_order rounds the size down (sizes above two pages).
HeapExact ==
    /\ \E i \in 1..Len(slob) :
         LET R == From(slob, i)
         IN  /\ R[1] = Arena
             /\ \A j \in 1..(Len(R) - 1) : R[j][1] + R[j][2] < R[j + 1][1]
    /\ \A x, y \in LiveBlocks \cup FreeBlocks :
         x # y => Units(x[1], x[2]) \cap Units(y[1], y[2]) = {}
    /\ UNION {Units(x[1], x[2]) : x \in LiveBlocks \cup FreeBlocks}
         = UNION {Units(p[1] * PAGE_SIZE, PAGE_SIZE) : p \in SlobPages}
    /\ HeapPages \subseteq held
    /\ \A x \in live : ksize(x) >= x.size + (IF x.units = 0 THEN 0 ELSE 1) \/ CutOff(x.size)
    /\ \A x, y \in live : x # y => x.block # y.block
=============================================================================
