------------------------------ MODULE PageAlloc ------------------------------
(***************************************************************************)
(* What alloc_pages and free_pages promise: n contiguous free pages, the    *)
(* lowest ones there are (first fit), and failure only if there are none.   *)
(***************************************************************************)
EXTENDS Integers

CONSTANTS
    Pages,    \* the numbers of the pages
    Sizes     \* the sizes asked for

VARIABLES
    free,     \* the set of free pages
    blocks,   \* the blocks handed out, as pairs of first page and size
    failed    \* the last call of alloc_pages failed

vars == <<free, blocks, failed>>

Run(b, n) == b..(b + n - 1)

Fits(b, n) == Run(b, n) \subseteq free

Init == free \in SUBSET Pages /\ blocks = {} /\ failed = FALSE

Alloc(n) ==
    \E b \in free :
        /\ Fits(b, n)
        /\ \A c \in free : c < b => ~Fits(c, n)
        /\ free' = free \ Run(b, n)
        /\ blocks' = blocks \cup {<<b, n>>}
        /\ failed' = FALSE

AllocFails(n) ==
    /\ \A b \in free : ~Fits(b, n)
    /\ failed' = TRUE
    /\ UNCHANGED <<free, blocks>>

Free(b, n) ==
    /\ <<b, n>> \in blocks
    /\ blocks' = blocks \ {<<b, n>>}
    /\ free' = free \cup Run(b, n)
    /\ failed' = FALSE

Next ==
    \/ \E n \in Sizes : Alloc(n) \/ AllocFails(n)
    \/ \E x \in blocks : Free(x[1], x[2])

Spec == Init /\ [][Next]_vars
=============================================================================
