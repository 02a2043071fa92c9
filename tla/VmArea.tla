------------------------------- MODULE VmArea --------------------------------
(***************************************************************************)
(* The vm areas of an mm_struct (kern/mm/vmm.c), as operators on a record:  *)
(*   list       mmap_list, a sequence of areas, in the order of addresses   *)
(*   area       vm_start, vm_end and vm_flags of every vma_struct           *)
(*   cache      mmap_cache, the area found last, or NULL                    *)
(*   map_count, brk_start, brk                                              *)
(*   ok         FALSE once an assertion has failed                          *)
(* Addresses are page numbers: the code rounds every address to a page.     *)
(* A vma_struct has a name so that mmap_cache can outlive it.               *)
(***************************************************************************)
EXTENDS Integers, Sequences, SequencesExt, FiniteSetsExt, Functions

CONSTANTS
    USERBASE, USERTOP,    \* the pages of user space, USERTOP not included
    Vmas,                 \* names for vma_structs, numbers
    NULL

ASSUME VmAreaAssumption ==
    /\ USERBASE \in Nat /\ USERTOP \in Nat
    /\ Vmas \subseteq Nat /\ IsFiniteSet(Vmas) /\ NULL \notin Vmas

USER_ACCESS(s, e) == USERBASE <= s /\ s < e /\ e <= USERTOP

Area(s, e, flags) == [vm_start |-> s, vm_end |-> e, vm_flags |-> flags]
NoArea == Area(0, 0, "none")

\* mm_create
mm_create ==
    [list |-> <<>>, area |-> [v \in Vmas |-> NoArea], cache |-> NULL,
     map_count |-> 0, brk_start |-> 0, brk |-> 0, ok |-> TRUE]

\* vma_create: a vma_struct that is in use nowhere.
NewVma(m) == Min(Vmas \ Range(m.list))

\* VM_READ|VM_EXEC, VM_READ|VM_WRITE, VM_READ|VM_WRITE|VM_STACK
Writable(flags) == flags \in {"rw", "stack"}

-----------------------------------------------------------------------------
Within(m, v, a) == m.area[v].vm_start <= a /\ a < m.area[v].vm_end

\* find_vma: the cached area if it contains a, else the first one that does.
find_vma(m, a) ==
    IF m.cache # NULL /\ Within(m, m.cache, a) THEN m.cache
    ELSE LET found == {i \in 1..Len(m.list) : Within(m, m.list[i], a)}
         IN  IF found = {} THEN NULL ELSE m.list[Min(found)]

\* What find_vma leaves in mmap_cache.
Cached(m, a) ==
    LET v == find_vma(m, a) IN IF v = NULL THEN m ELSE [m EXCEPT !.cache = v]

\* find_vma_intersection
Intersects(m, s, e) ==
    LET v == find_vma(m, s) IN v # NULL /\ e > m.area[v].vm_start

\* insert_vma_struct, with check_vma_overlap for its two neighbours.
insert_vma_struct(m, v, x) ==
    LET above == {i \in 1..Len(m.list) : m.area[m.list[i]].vm_start > x.vm_start}
        k == IF above = {} THEN Len(m.list) + 1 ELSE Min(above)
        prev == m.area[m.list[k - 1]]
        next == m.area[m.list[k]]
    IN  [m EXCEPT
           !.list = InsertAt(@, k, v),
           !.area[v] = x,
           !.map_count = @ + 1,
           !.ok = /\ @
                  /\ x.vm_start < x.vm_end
                  /\ k > 1 => prev.vm_end <= x.vm_start
                  /\ k <= Len(m.list) => x.vm_end <= next.vm_start]

\* mm_map succeeds.
MapOk(m, s, e) == USER_ACCESS(s, e) /\ ~Intersects(m, s, e)
mm_map(m, s, e, flags) == insert_vma_struct(Cached(m, s), NewVma(m), Area(s, e, flags))

-----------------------------------------------------------------------------
\* mm_unmap takes out of the list the areas at these positions: from the one that
\* contains s on, as far as they start below e.
Hit(m, s, e) ==
    {k \in 1..Len(m.list) : \E i \in 1..k :
        m.list[i] = find_vma(m, s) /\ \A n \in i..k : m.area[m.list[n]].vm_start < e}

\* The pages whose page table entries mm_unmap removes.
Unmapped(m, s, e) ==
    UNION {(s..(e - 1)) \cap (m.area[m.list[k]].vm_start..(m.area[m.list[k]].vm_end - 1)) :
             k \in Hit(m, s, e)}

\* The list without the positions hit.
Without(list, hit) == SubSeq(list, 1, Min(hit) - 1) \o SubSeq(list, Max(hit) + 1, Len(list))

\* Fault: remove_vma_struct leaves the cache alone.
RemovedCacheKept(m, hit) ==
    [m EXCEPT !.list = Without(@, hit), !.map_count = @ - Cardinality(hit)]

\* remove_vma_struct, for all of them.
Removed(m, hit) ==
    [m EXCEPT !.list = Without(@, hit),
              !.map_count = @ - Cardinality(hit),
              !.cache = IF \E k \in hit : m.list[k] = @ THEN NULL ELSE @]

\* What is left of an area on one side of [s, e): vma_resize, and back into the
\* list; nothing is left of one inside it.
PutBack(m, v, s, e) ==
    LET x == m.area[v]
    IN  CASE x.vm_start < s -> insert_vma_struct(m, v, Area(x.vm_start, s, x.vm_flags))
          [] x.vm_start >= s /\ e < x.vm_end -> insert_vma_struct(m, v, Area(e, x.vm_end, x.vm_flags))
          [] OTHER -> [m EXCEPT !.area[v] = NoArea]

\* [s, e) is inside one area: that one keeps the upper part, a new one gets the
\* lower part.
Split(m, v, s, e) ==
    LET x == m.area[v]
        upper == [m EXCEPT !.area[v] = Area(e, x.vm_end, x.vm_flags)]
    IN  insert_vma_struct(upper, NewVma(m), Area(x.vm_start, s, x.vm_flags))

\* The areas taken out are put back last to first.
PutBackAll(m, hit, s, e) ==
    LET back[k \in Min(hit)..(Max(hit) + 1)] ==
          IF k > Max(hit) THEN Removed(m, hit) ELSE PutBack(back[k + 1], m.list[k], s, e)
    IN  back[Min(hit)]

\* mm_unmap, apart from the page tables.
mm_unmap(m0, s, e) ==
    LET m == Cached(m0, s)
        hit == Hit(m, s, e)
        v == m.list[Min(hit)]
    IN  CASE hit = {} -> m
          [] hit # {} /\ m.area[v].vm_start < s /\ e < m.area[v].vm_end -> Split(m, v, s, e)
          [] OTHER -> PutBackAll(m, hit, s, e)

\* mm_brk: the area that ends at s grows, or a new one begins there.
mm_brk(m0, s, e) ==
    LET m == Cached(mm_unmap(m0, s, e), s - 1)
        v == find_vma(m, s - 1)
    IN  IF v # NULL /\ m.area[v].vm_end = s /\ m.area[v].vm_flags = "rw"
        THEN [m EXCEPT !.area[v].vm_end = e]
        ELSE insert_vma_struct(m, NewVma(m), Area(s, e, "rw"))

\* dup_mmap: every area is copied, last to first.
DupAreas(from) ==
    LET n == Len(from.list)
        to[k \in 0..n] ==
          IF k = 0 THEN [mm_create EXCEPT !.brk_start = from.brk_start, !.brk = from.brk]
          ELSE insert_vma_struct(to[k - 1], NewVma(to[k - 1]), from.area[from.list[n + 1 - k]])
    IN  to[n]

\* user_mem_check for a word on page a that is to be written: not the last page
\* of the stack.
user_mem_check(m, a) ==
    LET v == find_vma(m, a)
    IN  /\ v # NULL
        /\ Writable(m.area[v].vm_flags)
        /\ m.area[v].vm_flags = "stack" => a >= m.area[v].vm_start + 1

\* The pages of the areas.
AreaPages(m, flags) ==
    UNION {m.area[v].vm_start..(m.area[v].vm_end - 1) :
             v \in {w \in Range(m.list) : m.area[w].vm_flags \in flags}}
=============================================================================
